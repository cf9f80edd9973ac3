--------------------------- MODULE DesktopProofs ----------------------------
(***************************************************************************)
(* The pages of the desktop program, for any keys, names, texts, replies.  *)
(*                                                                         *)
(* Key bindings: no two are of one combination in one context, so what     *)
(* resolve picks is the most specific there is.  Settings: while saves and *)
(* loads meet one at a time and none fails, the save under way writes what *)
(* the page shows, a load has read what the file says and what it assigns  *)
(* is the file's, group for group; and whatever is assigned is repaired    *)
(* before the load is done.  The single lookup: a search under way is the  *)
(* only one and of the name asked last.  The forms: the handler that       *)
(* awaits says which page can be shown, and the preset and the format say  *)
(* which fields are locked.  Verdicts on replies: the rule of least number *)
(* that a reply hits is the same whatever the settings, and only two rules *)
(* ask the settings what to say.  Threats: each list that names a domain   *)
(* adds a fixed weight to a sum of naturals.  Names: removing equal lines  *)
(* and removing blank ones may be exchanged, so that the two processors of *)
(* a list agree; the loops of the combinator push the combinations there   *)
(* are; and an import holds the names its text spells, each once.          *)
(***************************************************************************)
EXTENDS Availability, BulkForms, KeyRegistry, SettingsPage, Threats, NameList, SiftProofs,
        FiniteSetTheorems, TLAPS

(* The key bindings.                                                      *)

AnyBinding == NewBinding \cup {DefaultBinding(i) : i \in 1..Len(DefaultBindings)}

\* No two bindings of a list are of one combination in one context.
Apart(list) ==
  \A i, j \in 1..Len(list) :
    list[i].combo = list[j].combo /\ list[i].context = list[j].context => i = j

KeyInv == keyBindings \in Seq(AnyBinding) /\ Apart(keyBindings)

LEMMA SiftApart ==
  ASSUME NEW S, NEW list \in Seq(S), Apart(list), NEW P
  PROVE  Sift(list, P) \in Seq(S) /\ Apart(Sift(list, P))
<1>1. PICK q : q = Sift(list, P)
  OBVIOUS
<1>2. PICK at \in [1..Len(q) -> 1..Len(list)] :
         /\ \A k \in 1..Len(q) : at[k] \in P /\ q[k] = list[at[k]]
         /\ \A k, m \in 1..Len(q) : k < m => at[k] < at[m]
  BY <1>1, SiftPlaces
<1>3. q \in Seq(S)
  BY <1>1, SiftType
<1>4. ASSUME NEW k \in 1..Len(q), NEW m \in 1..Len(q),
             q[k].combo = q[m].combo, q[k].context = q[m].context
      PROVE  k = m
  <2>1. at[k] = at[m]
    <3>1. at[k] \in 1..Len(list) /\ at[m] \in 1..Len(list)
      BY <1>2
    <3>2. q[k] = list[at[k]] /\ q[m] = list[at[m]]
      BY <1>2
    <3>3. list[at[k]].combo = list[at[m]].combo /\ list[at[k]].context = list[at[m]].context
      BY <1>4, <3>2
    <3> QED BY <3>1, <3>3 DEF Apart
  <2>2. ~ (k < m) /\ ~ (m < k)
    BY <1>2, <2>1
  <2> QED BY <1>3, <2>2
<1> QED BY <1>1, <1>3, <1>4 DEF Apart

\* A binding that is made by force takes the place of those it is at odds with.
LEMMA ForcedApart ==
  ASSUME NEW S, NEW list \in Seq(S), Apart(list), NEW b \in S
  PROVE  Forced(list, b) \in Seq(S) /\ Apart(Forced(list, b))
<1> DEFINE P == {i \in DOMAIN list : ~ (list[i].combo = b.combo /\ list[i].context = b.context)}
<1>1. PICK q : q = Sift(list, P)
  OBVIOUS
<1>2. q \in Seq(S) /\ Apart(q)
  BY <1>1, SiftApart
<1>3. ASSUME NEW k \in 1..Len(q)
      PROVE  ~ (q[k].combo = b.combo /\ q[k].context = b.context)
  <2>1. PICK i \in 1..Len(list) : i \in P /\ q[k] = list[i]
    <3> HIDE DEF P
    <3> QED BY <1>1, SiftType
  <2> QED BY <2>1
<1>4. PICK r : r = Append(q, b)
  OBVIOUS
<1>5. /\ r \in Seq(S) /\ Len(r) = Len(q) + 1 /\ Len(q) \in Nat /\ r[Len(q) + 1] = b
      /\ \A k \in 1..Len(q) : r[k] = q[k]
      /\ \A k \in 1..Len(r) : k \in 1..Len(q) \/ k = Len(q) + 1
  BY <1>2, <1>4
<1>6. Apart(r)
  BY <1>2, <1>3, <1>5 DEF Apart
<1> HIDE DEF P
<1> QED BY <1>1, <1>4, <1>5, <1>6 DEF Forced, P

\* The default key map, binding by binding.
LEMMA RegisteredStep ==
  /\ Len(DefaultBindings) \in Nat
  /\ Registered[0] = <<>>
  /\ \A i \in 1..Len(DefaultBindings) :
       Registered[i] = Forced(Registered[i - 1], DefaultBinding(i))
<1>1. PICK n : n = Len(DefaultBindings)
  OBVIOUS
<1>2. n \in Nat
  BY <1>1 DEF DefaultBindings
<1> DEFINE At(f, i) == IF i = 0 THEN <<>> ELSE Forced(f[i - 1], DefaultBinding(i))
           T == {m \in Nat : \E f : f = [i \in 0..m |-> At(f, i)]}
<1>3. 0 \in T
  <2>1. [i \in 0..0 |-> <<>>] = [i \in 0..0 |-> At([j \in 0..0 |-> <<>>], i)]
    OBVIOUS
  <2> QED BY <2>1
<1>4. ASSUME NEW m \in Nat, m \in T PROVE m + 1 \in T
  <2>1. PICK f : f = [i \in 0..m |-> At(f, i)]
    BY <1>4
  <2> DEFINE g == [i \in 0..(m + 1) |-> IF i = m + 1 THEN At(f, m + 1) ELSE f[i]]
  <2>2. \A i \in 0..m : f[i] = At(f, i) /\ g[i] = f[i]
    <3>1. \A h : \A i \in 0..m : [j \in 0..m |-> At(h, j)][i] = At(h, i)
      OBVIOUS
    <3>2. \A i \in 0..m : f[i] = At(f, i)
      <4> HIDE DEF At
      <4> QED BY <2>1, <3>1
    <3>3. \A i \in 0..m : g[i] = f[i]
      <4> HIDE DEF At
      <4> QED OBVIOUS
    <3> HIDE DEF At, g
    <3> QED BY <3>2, <3>3
  <2>3. ASSUME NEW i \in 0..(m + 1) PROVE g[i] = At(g, i)
    <3>1. i # 0 => i - 1 \in 0..m /\ g[i - 1] = f[i - 1]
      OBVIOUS
    <3>2. At(g, i) = At(f, i)
      BY <3>1
    <3>3. CASE i = m + 1
      BY <3>2, <3>3
    <3>4. CASE i # m + 1
      <4>1. i \in 0..m
        BY <3>4
      <4> HIDE DEF At, g
      <4> QED BY <2>2, <3>2, <4>1
    <3> QED BY <3>3, <3>4
  <2>4. g = [i \in 0..(m + 1) |-> g[i]]
    OBVIOUS
  <2>5. g = [i \in 0..(m + 1) |-> At(g, i)]
    <3> HIDE DEF At
    <3>1. [i \in 0..(m + 1) |-> g[i]] = [i \in 0..(m + 1) |-> At(g, i)]
      <4> HIDE DEF g
      <4> QED BY <2>3
    <3> HIDE DEF g
    <3> QED BY <2>4, <3>1
  <2>6. \E h : h = [i \in 0..(m + 1) |-> At(h, i)]
    <3> HIDE DEF At, g
    <3> QED BY <2>5
  <2> HIDE DEF At
  <2> QED BY <2>6
<1>5. n \in T
  <2> HIDE DEF T
  <2> QED BY <1>2, <1>3, <1>4, NatSetInduction
<1>6. Registered = CHOOSE f : f = [i \in 0..n |-> At(f, i)]
  BY <1>1 DEF Registered
<1> DEFINE k == Registered
<1>7. k = [i \in 0..n |-> At(k, i)]
  BY <1>5, <1>6
<1>8. \A i \in 0..n : k[i] = At(k, i)
  <2>1. \A g : \A i \in 0..n : [j \in 0..n |-> At(g, j)][i] = At(g, i)
    OBVIOUS
  <2> HIDE DEF At, k
  <2> QED BY <1>7, <2>1
<1> HIDE DEF k
<1> QED BY <1>1, <1>2, <1>8 DEF k

LEMMA DefaultsApart == DefaultKeymap \in Seq(AnyBinding) /\ Apart(DefaultKeymap)
<1>1. PICK n : n = Len(DefaultBindings)
  OBVIOUS
<1>2. n \in Nat
  BY <1>1, RegisteredStep
<1> DEFINE Good(list) == list \in Seq(AnyBinding) /\ Apart(list)
           T == {i \in Nat : i <= n => Good(Registered[i])}
<1>3. 0 \in T
  <2>1. Registered[0] = <<>>
    BY RegisteredStep
  <2>2. <<>> \in Seq(AnyBinding) /\ Len(<<>>) = 0
    OBVIOUS
  <2>3. Apart(<<>>)
    BY <2>2 DEF Apart
  <2>4. Good(Registered[0])
    BY <2>1, <2>2, <2>3
  <2> HIDE DEF Good
  <2> QED BY <2>4
<1>4. ASSUME NEW i \in Nat, i \in T PROVE i + 1 \in T
  <2> SUFFICES ASSUME i + 1 <= n PROVE Good(Registered[i + 1])
    OBVIOUS
  <2>1. i + 1 \in 1..n /\ (i + 1) - 1 = i /\ i <= n
    BY <1>2
  <2>2. Registered[i + 1] = Forced(Registered[i], DefaultBinding(i + 1))
    BY <1>1, <2>1, RegisteredStep
  <2>3. Good(Registered[i])
    BY <1>4, <2>1
  <2>4. DefaultBinding(i + 1) \in AnyBinding
    BY <1>1, <2>1 DEF AnyBinding
  <2> QED BY <2>2, <2>3, <2>4, ForcedApart
<1>5. n \in T
  <2> HIDE DEF T
  <2> QED BY <1>2, <1>3, <1>4, NatSetInduction
<1> QED BY <1>1, <1>2, <1>5 DEF DefaultKeymap

LEMMA KeyStep == KeyInv /\ [KeyNext]_keyVars => KeyInv'
<1> SUFFICES ASSUME KeyInv, [KeyNext]_keyVars PROVE KeyInv'
  OBVIOUS
<1>1. CASE UNCHANGED keyVars
  BY <1>1 DEF KeyInv, keyVars, Apart
<1>2. CASE LoadDefaults
  BY <1>2, DefaultsApart DEF LoadDefaults, KeyInv, Apart
<1>3. ASSUME NEW b \in NewBinding, Register(b) PROVE KeyInv'
  <2>1. PICK l : l = keyBindings
    OBVIOUS
  <2>2. PICK r : r = keyBindings'
    OBVIOUS
  <2>3. l \in Seq(AnyBinding) /\ b \in AnyBinding /\ r = Append(l, b)
    BY <1>3, <2>1, <2>2 DEF KeyInv, Register, AnyBinding
  <2>4. /\ r \in Seq(AnyBinding) /\ Len(r) = Len(l) + 1 /\ Len(l) \in Nat /\ r[Len(l) + 1] = b
        /\ \A k \in 1..Len(l) : r[k] = l[k]
        /\ \A k \in 1..Len(r) : k \in 1..Len(l) \/ k = Len(l) + 1
    BY <2>3
  <2>5. \A k \in 1..Len(l) : ~ (l[k].combo = b.combo /\ l[k].context = b.context)
    <3>1. DOMAIN l = 1..Len(l)
      BY <2>3
    <3> QED BY <1>3, <2>1, <3>1 DEF Register, Conflicts, EffectiveContext
  <2>6. Apart(r)
    BY <2>1, <2>4, <2>5 DEF KeyInv, Apart
  <2> QED BY <2>2, <2>4, <2>6 DEF KeyInv, Apart
<1>4. ASSUME NEW b \in NewBinding, RegisterForce(b) PROVE KeyInv'
  <2>1. b \in AnyBinding
    BY DEF AnyBinding
  <2>2. Forced(keyBindings, b) \in Seq(AnyBinding) /\ Apart(Forced(keyBindings, b))
    BY <2>1, ForcedApart DEF KeyInv
  <2> QED BY <1>4, <2>2 DEF RegisterForce, KeyInv, Apart
<1>5. ASSUME NEW a \in BindAction, RemoveAction(a) PROVE KeyInv'
  <2> DEFINE P == {i \in DOMAIN keyBindings : keyBindings[i].action # a}
  <2>1. keyBindings' = Sift(keyBindings, P)
    BY <1>5 DEF RemoveAction
  <2> HIDE DEF P
  <2>2. Sift(keyBindings, P) \in Seq(AnyBinding) /\ Apart(Sift(keyBindings, P))
    BY SiftApart DEF KeyInv
  <2> QED BY <2>1, <2>2 DEF KeyInv, Apart
<1>6. CASE ClearBindings
  BY <1>6 DEF ClearBindings, KeyInv, Apart
<1> QED BY <1>1, <1>2, <1>3, <1>4, <1>5, <1>6 DEF KeyNext

\* The pass of resolve, binding by binding.
LEMMA BestStep ==
  ASSUME NEW list, NEW combo, NEW active, Len(list) \in Nat
  PROVE  /\ BestOf(list, combo, active)[0] = {}
         /\ \A i \in 1..Len(list) :
              BestOf(list, combo, active)[i] =
                BestNow(list[i], BestOf(list, combo, active)[i - 1], combo, active)
<1>1. PICK n : n = Len(list)
  OBVIOUS
<1>2. n \in Nat
  BY <1>1
<1> DEFINE At(f, i) == IF i = 0 THEN {} ELSE BestNow(list[i], f[i - 1], combo, active)
           T == {m \in Nat : \E f : f = [i \in 0..m |-> At(f, i)]}
<1>3. 0 \in T
  <2>1. [i \in 0..0 |-> {}] = [i \in 0..0 |-> At([j \in 0..0 |-> {}], i)]
    OBVIOUS
  <2> QED BY <2>1
<1>4. ASSUME NEW m \in Nat, m \in T PROVE m + 1 \in T
  <2>1. PICK f : f = [i \in 0..m |-> At(f, i)]
    BY <1>4
  <2> DEFINE g == [i \in 0..(m + 1) |-> IF i = m + 1 THEN At(f, m + 1) ELSE f[i]]
  <2>2. \A i \in 0..m : f[i] = At(f, i) /\ g[i] = f[i]
    <3>1. \A h : \A i \in 0..m : [j \in 0..m |-> At(h, j)][i] = At(h, i)
      OBVIOUS
    <3>2. \A i \in 0..m : f[i] = At(f, i)
      <4> HIDE DEF At
      <4> QED BY <2>1, <3>1
    <3>3. \A i \in 0..m : g[i] = f[i]
      <4> HIDE DEF At
      <4> QED OBVIOUS
    <3> HIDE DEF At, g
    <3> QED BY <3>2, <3>3
  <2>3. ASSUME NEW i \in 0..(m + 1) PROVE g[i] = At(g, i)
    <3>1. i # 0 => i - 1 \in 0..m /\ g[i - 1] = f[i - 1]
      OBVIOUS
    <3>2. At(g, i) = At(f, i)
      BY <3>1
    <3>3. CASE i = m + 1
      BY <3>2, <3>3
    <3>4. CASE i # m + 1
      <4>1. i \in 0..m
        BY <3>4
      <4> HIDE DEF At, g
      <4> QED BY <2>2, <3>2, <4>1
    <3> QED BY <3>3, <3>4
  <2>4. g = [i \in 0..(m + 1) |-> g[i]]
    OBVIOUS
  <2>5. g = [i \in 0..(m + 1) |-> At(g, i)]
    <3> HIDE DEF At
    <3>1. [i \in 0..(m + 1) |-> g[i]] = [i \in 0..(m + 1) |-> At(g, i)]
      <4> HIDE DEF g
      <4> QED BY <2>3
    <3> HIDE DEF g
    <3> QED BY <2>4, <3>1
  <2>6. \E h : h = [i \in 0..(m + 1) |-> At(h, i)]
    <3> HIDE DEF At, g
    <3> QED BY <2>5
  <2> HIDE DEF At
  <2> QED BY <2>6
<1>5. n \in T
  <2> HIDE DEF T
  <2> QED BY <1>2, <1>3, <1>4, NatSetInduction
<1>6. BestOf(list, combo, active) = CHOOSE f : f = [i \in 0..n |-> At(f, i)]
  BY <1>1 DEF BestOf
<1> DEFINE k == BestOf(list, combo, active)
<1>7. k = [i \in 0..n |-> At(k, i)]
  BY <1>5, <1>6
<1>8. \A i \in 0..n : k[i] = At(k, i)
  <2>1. \A g : \A i \in 0..n : [j \in 0..n |-> At(g, j)][i] = At(g, i)
    OBVIOUS
  <2> HIDE DEF At, k
  <2> QED BY <1>7, <2>1
<1> HIDE DEF k
<1> QED BY <1>1, <1>2, <1>8 DEF k


FitIn(list, i, combo, active) == {b \in {list[k] : k \in 1..i} : Eligible(b, combo, active)}
SpecificIn(list, i, combo, active) ==
  {b \in FitIn(list, i, combo, active) : EffectiveContext(b) # "global"}

\* Up to any binding, the pass holds one that fits, of an active context if there
\* is one.
LEMMA PassFinds ==
  ASSUME NEW S, NEW list \in Seq(S), NEW combo, NEW active, NEW n \in 0..Len(list)
  PROVE  LET matched == BestOf(list, combo, active)[n]
             fit == FitIn(list, n, combo, active)
             specific == SpecificIn(list, n, combo, active)
         IN /\ matched \subseteq IF specific = {} THEN fit ELSE specific
            /\ matched = {} <=> fit = {}
<1> DEFINE Found(i) == BestOf(list, combo, active)[i]
           Fit(i) == FitIn(list, i, combo, active)
           Specific(i) == SpecificIn(list, i, combo, active)
           Holds(i) == /\ Found(i) \subseteq IF Specific(i) = {} THEN Fit(i) ELSE Specific(i)
                       /\ Found(i) = {} <=> Fit(i) = {}
           T == {i \in Nat : i <= Len(list) => Holds(i)}
<1>1. 0 \in T
  <2>1. Found(0) = {} /\ Fit(0) = {}
    BY BestStep DEF FitIn
  <2> HIDE DEF Found, Fit, Specific
  <2> QED BY <2>1
<1>2. ASSUME NEW i \in Nat, i \in T PROVE i + 1 \in T
  <2> SUFFICES ASSUME i + 1 <= Len(list) PROVE Holds(i + 1)
    OBVIOUS
  <2>1. i + 1 \in 1..Len(list) /\ (i + 1) - 1 = i /\ i <= Len(list)
    OBVIOUS
  <2>2. PICK b : b = list[i + 1]
    OBVIOUS
  <2>3. PICK e \in BOOLEAN : e <=> Eligible(b, combo, active)
    BY DEF Eligible
  <2>4. Found(i + 1) = IF e /\ Better(b, Found(i)) THEN {b} ELSE Found(i)
    <3>1. Found(i + 1) = BestNow(b, Found(i), combo, active)
      BY <2>1, <2>2, BestStep
    <3> QED BY <2>3, <3>1 DEF BestNow
  <2>5. Fit(i + 1) = IF e THEN Fit(i) \cup {b} ELSE Fit(i)
    <3>1. {list[k] : k \in 1..(i + 1)} = {list[k] : k \in 1..i} \cup {b}
      BY <2>2
    <3> QED BY <2>3, <3>1 DEF FitIn
  <2>6. PICK global \in BOOLEAN : global <=> EffectiveContext(b) = "global"
    OBVIOUS
  <2>7. Specific(i + 1) = IF e /\ ~ global THEN Specific(i) \cup {b} ELSE Specific(i)
    BY <2>5, <2>6 DEF SpecificIn
  <2>8. Specific(i) = {c \in Fit(i) : EffectiveContext(c) # "global"}
    BY DEF SpecificIn
  <2>9. Better(b, Found(i)) <=>
          Found(i) = {} \/ (~ global /\ \E o \in Found(i) : EffectiveContext(o) = "global")
    BY <2>6 DEF Better
  <2>10. Holds(i)
    BY <1>2, <2>1
  <2> HIDE DEF Found, Fit, Specific
  <2>11. CASE ~ e
    BY <2>4, <2>5, <2>7, <2>10, <2>11
  <2>12. CASE e /\ global
    BY <2>4, <2>5, <2>7, <2>8, <2>9, <2>10, <2>12
  <2>13. CASE e /\ ~ global
    <3>1. CASE Better(b, Found(i))
      BY <2>4, <2>5, <2>7, <2>13, <3>1
    <3>2. CASE ~ Better(b, Found(i))
      <4>1. Found(i) # {} /\ Found(i) \subseteq Specific(i) /\ Found(i + 1) = Found(i)
        BY <2>4, <2>8, <2>9, <2>10, <2>13, <3>2
      <4> QED BY <2>5, <2>7, <2>13, <4>1
    <3> QED BY <3>1, <3>2
  <2> QED BY <2>11, <2>12, <2>13
<1>3. n \in T
  <2> HIDE DEF T
  <2> QED BY <1>1, <1>2, NatSetInduction
<1> QED BY <1>3

\* A key press goes to the binding of the active context, whatever the user bound
\* before, in whatever order.
THEOREM ResolveAlwaysMostSpecific == KeySpec => []ResolvesMostSpecific
<1>1. KeyInit => KeyInv
  BY DEF KeyInit, KeyInv, Apart
<1>2. KeyInv => ResolvesMostSpecific
  <2> SUFFICES ASSUME KeyInv, NEW combo \in Combos,
                      NEW active \in SUBSET (BindContext \ {NoContext, "global"})
               PROVE  LET matched == Resolve(combo, active)
                          fit == {b \in {keyBindings[i] : i \in DOMAIN keyBindings} :
                                    Eligible(b, combo, active)}
                          specific == {b \in fit : EffectiveContext(b) # "global"}
                      IN /\ matched \subseteq IF specific = {} THEN fit ELSE specific
                         /\ matched = {} <=> fit = {}
                         /\ \A context \in active :
                              active = {context} /\ specific # {} => matched = specific
    BY DEF ResolvesMostSpecific
  <2>1. PICK l : l = keyBindings
    OBVIOUS
  <2>2. l \in Seq(AnyBinding) /\ Apart(l) /\ Len(l) \in 0..Len(l) /\ DOMAIN l = 1..Len(l)
    BY <2>1 DEF KeyInv
  <2> DEFINE fit == FitIn(l, Len(l), combo, active)
             specific == SpecificIn(l, Len(l), combo, active)
             matched == Resolve(combo, active)
  <2>3. /\ fit = {b \in {l[i] : i \in DOMAIN l} : Eligible(b, combo, active)}
        /\ specific = {b \in fit : EffectiveContext(b) # "global"}
    BY <2>2 DEF FitIn, SpecificIn
  <2>4. /\ matched \subseteq IF specific = {} THEN fit ELSE specific
        /\ matched = {} <=> fit = {}
    BY <2>1, <2>2, PassFinds DEF Resolve
  <2>5. ASSUME NEW context \in active, active = {context}, NEW b \in specific, NEW c \in specific
        PROVE  b = c
    <3>1. PICK i \in 1..Len(l), j \in 1..Len(l) : b = l[i] /\ c = l[j]
      BY <2>2, <2>3
    <3>2. /\ b.combo = combo /\ EffectiveContext(b) = context
          /\ c.combo = combo /\ EffectiveContext(c) = context
      BY <2>3, <2>5 DEF Eligible
    <3>3. context # NoContext /\ context # "global"
      OBVIOUS
    <3>4. b.context = context /\ c.context = context
      BY <3>2, <3>3 DEF EffectiveContext
    <3> QED BY <2>2, <3>1, <3>2, <3>4 DEF Apart
  <2>6. specific \subseteq fit
    BY <2>3
  <2> HIDE DEF fit, specific, matched
  <2>7. \A context \in active : active = {context} /\ specific # {} => matched = specific
    BY <2>4, <2>5, <2>6
  <2> QED BY <2>1, <2>3, <2>4, <2>7 DEF matched
<1> QED BY <1>1, <1>2, KeyStep, PTL DEF KeySpec

----------------------------------------------------------------------------
(* The settings.                                                          *)

FileRecord == [state : {"missing", "whole", "empty", "garbled"}, map : AnySettings]
SaveOK(w) ==
  /\ DOMAIN w = {"nr", "map", "imports", "open"} /\ w.map \in AnySettings
  /\ w.imports \in BOOLEAN /\ w.open \in BOOLEAN
LoadOK(l) ==
  /\ DOMAIN l = {"nr", "starts", "at", "map"} /\ l.map \in AnySettings
  /\ l.starts \in BOOLEAN /\ l.at \in {"asked", "read", "assigned"}

\* The file says what the map says, and every key has an option in it.
Agreed(map) == \A group \in DOMAIN file.map : file.map[group] = map[group]
Complete(map) == \A path \in Paths : HasOption(map, path)

\* As long as saves and loads met one at a time: one save is under way, of what
\* the page shows, and has the file to itself; what a load has read is still what
\* the file says, and so is what one has assigned.
OneAtATime ==
  /\ \A v, w \in saves : v = w
  /\ saves # {} => loads = {}
  /\ \A w \in saves : ~ w.imports => w.map = page
  /\ \A w \in saves : w.open => file = Broken("empty")
  /\ \A l \in loads : l.at = "read" => l.map = file.map
  /\ \A l \in loads : l.at = "assigned" => Agreed(page)
  /\ saves = {} /\ loads = {} => Agreed(page)

SettingsInv ==
  /\ page \in [Groups -> AnyGroup]
  /\ file \in FileRecord
  /\ IsFiniteSet(saves) /\ \A w \in saves : SaveOK(w)
  /\ IsFiniteSet(loads) /\ \A l \in loads : LoadOK(l)
  /\ crossed \in BOOLEAN
  /\ ~ crossed => OneAtATime
  /\ (\A l \in loads : l.at # "assigned") => Complete(page)

LEMMA GroupFacts ==
  /\ \A K \in SUBSET {path.key : path \in Paths} :
       \A m \in [K -> Option \cup {Invalid}] : m \in AnyGroup
  /\ \A m \in AnyGroup :
       \E K \in SUBSET {path.key : path \in Paths} : m \in [K -> Option \cup {Invalid}]
  /\ \A path \in Paths : path.group \in Groups
BY DEF AnyGroup, Groups

LEMMA MapFacts ==
  /\ NoSettings \in AnySettings
  /\ \A m \in Importable : m \in AnySettings
  /\ \A m \in AnySettings : DOMAIN m \subseteq Groups /\ \A g \in DOMAIN m : m[g] \in AnyGroup
  /\ \A m \in [Groups -> AnyGroup] : m \in AnySettings
<1>1. NoSettings \in AnySettings
  <2>1. NoSettings \in [{} -> AnyGroup] /\ {} \in SUBSET Groups
    BY DEF NoSettings
  <2> QED BY <2>1 DEF AnySettings
<1>2. \A m \in Importable : m \in AnySettings
  BY SettingsAssumption
<1>3. ASSUME NEW m \in AnySettings
      PROVE  DOMAIN m \subseteq Groups /\ \A g \in DOMAIN m : m[g] \in AnyGroup
  <2>1. PICK G \in SUBSET Groups : m \in [G -> AnyGroup]
    BY DEF AnySettings
  <2> QED BY <2>1
<1>4. ASSUME NEW m \in [Groups -> AnyGroup] PROVE m \in AnySettings
  BY DEF AnySettings
<1> QED BY <1>1, <1>2, <1>3, <1>4

LEMMA DefaultFacts == Defaults \in [Groups -> AnyGroup] /\ Complete(Defaults)
<1>1. ASSUME NEW g \in Groups
      PROVE  [key \in KeysOf(g) |-> Default] \in AnyGroup
  <2>1. KeysOf(g) \in SUBSET {path.key : path \in Paths}
    BY DEF KeysOf
  <2>2. [key \in KeysOf(g) |-> Default] \in [KeysOf(g) -> Option \cup {Invalid}]
    BY SettingsAssumption
  <2> QED BY <2>1, <2>2, GroupFacts
<1>2. Defaults \in [Groups -> AnyGroup]
  BY <1>1 DEF Defaults
<1>3. ASSUME NEW path \in Paths PROVE HasOption(Defaults, path)
  <2>1. path.group \in Groups /\ path.key \in KeysOf(path.group)
    BY GroupFacts DEF KeysOf
  <2>2. Defaults[path.group] = [key \in KeysOf(path.group) |-> Default]
    BY <2>1 DEF Defaults
  <2> QED BY <2>1, <2>2, SettingsAssumption DEF HasOption
<1> QED BY <1>2, <1>3 DEF Complete

\* What is assigned is there group for group.
LEMMA OverFacts ==
  ASSUME NEW map \in [Groups -> AnyGroup], NEW new \in AnySettings
  PROVE  /\ Over(map, new) \in [Groups -> AnyGroup]
         /\ \A g \in DOMAIN new : Over(map, new)[g] = new[g]
<1>1. DOMAIN new \subseteq Groups /\ \A g \in DOMAIN new : new[g] \in AnyGroup
  BY MapFacts
<1>2. Over(map, new) = [g \in Groups |-> IF g \in DOMAIN new THEN new[g] ELSE map[g]]
  BY <1>1 DEF Over
<1> QED BY <1>1, <1>2

LEMMA SetFacts ==
  ASSUME NEW map \in [Groups -> AnyGroup], NEW path \in Paths, NEW v \in Option
  PROVE  /\ SetValue(map, path, v) \in [Groups -> AnyGroup]
         /\ Complete(map) => Complete(SetValue(map, path, v))
<1> DEFINE old == map[path.group]
           D == DOMAIN old \cup {path.key}
           new == [key \in D |-> IF key = path.key THEN v ELSE old[key]]
<1>1. path.group \in Groups
  BY GroupFacts
<1>2. PICK K \in SUBSET {p.key : p \in Paths} : old \in [K -> Option \cup {Invalid}]
  BY <1>1, GroupFacts
<1>3. D \in SUBSET {p.key : p \in Paths} /\ DOMAIN old = K
  BY <1>2
<1>4. new \in [D -> Option \cup {Invalid}]
  <2>1. \A key \in D : key # path.key => old[key] \in Option \cup {Invalid}
    BY <1>2, <1>3
  <2> HIDE DEF D, old
  <2> QED BY <2>1
<1>5. new \in AnyGroup
  <2> HIDE DEF D, new
  <2> QED BY <1>3, <1>4, GroupFacts
<1>6. SetValue(map, path, v) = [map EXCEPT ![path.group] = new]
  BY DEF SetValue
<1>7. /\ DOMAIN new = DOMAIN old \cup {path.key} /\ new[path.key] = v
      /\ \A key \in DOMAIN old : key # path.key => new[key] = old[key]
  <2> HIDE DEF old
  <2> QED OBVIOUS
<1> HIDE DEF new, D
<1>8. PICK after : after = SetValue(map, path, v)
  OBVIOUS
<1>9. /\ after \in [Groups -> AnyGroup] /\ after[path.group] = new
      /\ \A g \in Groups : g # path.group => after[g] = map[g]
  BY <1>1, <1>5, <1>6, <1>8
<1>10. ASSUME NEW p \in Paths, HasOption(map, p) PROVE HasOption(after, p)
  <2>1. p.group \in Groups /\ p.key \in DOMAIN map[p.group] /\ map[p.group][p.key] \in Option
    BY <1>10, GroupFacts DEF HasOption
  <2>2. CASE p.group # path.group
    BY <1>9, <2>1, <2>2 DEF HasOption
  <2>3. CASE p.group = path.group
    <3>1. after[p.group] = new /\ p.key \in DOMAIN old /\ old[p.key] \in Option
      BY <1>9, <2>1, <2>3
    <3>2. p.key \in DOMAIN new /\ new[p.key] \in Option
      BY <1>7, <3>1
    <3> QED BY <3>1, <3>2 DEF HasOption
  <2> QED BY <2>2, <2>3
<1> QED BY <1>8, <1>9, <1>10 DEF Complete

\* What is repaired has an option, and what has one keeps having one.
LEMMA RepairedFacts ==
  ASSUME NEW map \in [Groups -> AnyGroup], NEW paths \in SUBSET Paths
  PROVE  /\ Repaired(map, paths) \in [Groups -> AnyGroup]
         /\ \A p \in Paths : p \in paths \/ HasOption(map, p) => HasOption(Repaired(map, paths), p)
         /\ paths = {} => Repaired(map, paths) = map
<1> DEFINE Mended(g) == {path.key : path \in {q \in paths : q.group = g}}
           New(g) == [key \in DOMAIN map[g] \cup Mended(g) |->
                        IF key \in Mended(g) THEN Default ELSE map[g][key]]
<1>1. Repaired(map, paths) = [g \in Groups |-> New(g)]
  BY DEF Repaired
<1>2. ASSUME NEW g \in Groups
      PROVE  /\ New(g) \in AnyGroup /\ DOMAIN New(g) = DOMAIN map[g] \cup Mended(g)
             /\ \A key \in DOMAIN New(g) :
                  New(g)[key] = IF key \in Mended(g) THEN Default ELSE map[g][key]
  <2>1. PICK K \in SUBSET {p.key : p \in Paths} : map[g] \in [K -> Option \cup {Invalid}]
    BY GroupFacts
  <2>2. Mended(g) \in SUBSET {p.key : p \in Paths}
    OBVIOUS
  <2> HIDE DEF Mended
  <2>3. DOMAIN map[g] \cup Mended(g) \in SUBSET {p.key : p \in Paths}
    BY <2>1, <2>2
  <2>4. New(g) \in [DOMAIN map[g] \cup Mended(g) -> Option \cup {Invalid}]
    BY <2>1, SettingsAssumption
  <2>5. New(g) \in AnyGroup
    <3> HIDE DEF New
    <3> QED BY <2>3, <2>4, GroupFacts
  <2> QED BY <2>5
<1>3. ASSUME NEW p \in Paths, p \in paths \/ HasOption(map, p)
      PROVE  HasOption(Repaired(map, paths), p)
  <2>1. p.group \in Groups
    BY GroupFacts
  <2>2. p \in paths => p.key \in Mended(p.group)
    OBVIOUS
  <2>3. HasOption(map, p) => p.key \in DOMAIN map[p.group] /\ map[p.group][p.key] \in Option
    BY DEF HasOption
  <2>4. Repaired(map, paths)[p.group] = New(p.group)
    BY <1>1, <2>1
  <2>5. /\ DOMAIN New(p.group) = DOMAIN map[p.group] \cup Mended(p.group)
        /\ \A key \in DOMAIN New(p.group) :
             New(p.group)[key] = IF key \in Mended(p.group) THEN Default ELSE map[p.group][key]
    BY <1>2, <2>1
  <2> HIDE DEF New, Mended
  <2>6. p.key \in DOMAIN New(p.group)
    BY <1>3, <2>2, <2>3, <2>5
  <2>7. New(p.group)[p.key] \in Option
    BY <1>3, <2>2, <2>3, <2>5, <2>6, SettingsAssumption
  <2> QED BY <2>4, <2>6, <2>7 DEF HasOption
<1>4. ASSUME paths = {} PROVE Repaired(map, paths) = map
  <2>1. ASSUME NEW g \in Groups PROVE New(g) = map[g]
    <3>1. PICK K \in SUBSET {p.key : p \in Paths} : map[g] \in [K -> Option \cup {Invalid}]
      BY GroupFacts
    <3>2. Mended(g) = {}
      BY <1>4
    <3>3. map[g] = [key \in DOMAIN map[g] |-> map[g][key]]
      BY <3>1
    <3> HIDE DEF Mended
    <3> QED BY <3>2, <3>3
  <2>2. map = [g \in Groups |-> map[g]]
    OBVIOUS
  <2> HIDE DEF New
  <2> QED BY <1>1, <2>1, <2>2
<1>5. Repaired(map, paths) \in [Groups -> AnyGroup]
  <2> HIDE DEF New
  <2> QED BY <1>1, <1>2
<1> QED BY <1>3, <1>4, <1>5

LEMMA FileFacts ==
  /\ \A m \in AnySettings : Whole(m) \in FileRecord /\ Whole(m).map = m
  /\ \A s \in {"missing", "empty", "garbled"} :
       /\ Broken(s) \in FileRecord
       /\ Broken(s).state = s /\ Broken(s).map = NoSettings
  /\ DOMAIN NoSettings = {}
BY MapFacts DEF Whole, Broken, NoSettings, FileRecord

\* A load that begins.
LEMMA LoadFacts ==
  ASSUME NEW under, NEW starts \in BOOLEAN
  PROVE  LoadOK(NewLoad(under, starts)) /\ NewLoad(under, starts).at = "asked"
BY MapFacts DEF NewLoad, LoadOK

\* A save that is sent.
LEMMA SaveFacts ==
  ASSUME NEW under, NEW map \in AnySettings, NEW imports \in BOOLEAN
  PROVE  \E w : /\ AddSave(under, map, imports) = under \cup {w} /\ SaveOK(w)
                /\ w.map = map /\ (w.imports <=> imports) /\ ~ w.open
<1> DEFINE w == [nr |-> Unused(under), map |-> map, imports |-> imports, open |-> FALSE]
<1>1. AddSave(under, map, imports) = under \cup {w}
  BY DEF AddSave
<1>2. SaveOK(w) /\ w.map = map /\ (w.imports <=> imports) /\ ~ w.open
  BY DEF SaveOK
<1> HIDE DEF w
<1> QED BY <1>1, <1>2

LEMMA SendStep ==
  ASSUME SettingsInv, NEW map \in AnySettings, NEW imports \in BOOLEAN, Send(map, imports),
         page' \in [Groups -> AnyGroup], ~ imports => map = page',
         Complete(page) => Complete(page')
  PROVE  SettingsInv'
<1>1. saves' = AddSave(saves, map, imports) /\ UNCHANGED <<file, loads>>
      /\ crossed' = (saves # {} \/ loads # {})
  BY DEF Send
<1>2. PICK w : /\ saves' = saves \cup {w} /\ SaveOK(w)
               /\ w.map = map /\ (w.imports <=> imports) /\ ~ w.open
  <2>1. PICK w : /\ AddSave(saves, map, imports) = saves \cup {w} /\ SaveOK(w)
                 /\ w.map = map /\ (w.imports <=> imports) /\ ~ w.open
    BY SaveFacts
  <2> QED BY <1>1, <2>1
<1>3. IsFiniteSet(saves') /\ \A v \in saves' : SaveOK(v)
  BY <1>2, FS_AddElement DEF SettingsInv
<1>4. ~ crossed' => OneAtATime'
  <2> SUFFICES ASSUME ~ crossed' PROVE OneAtATime'
    OBVIOUS
  <2>1. saves = {} /\ loads = {} /\ saves' = {w}
    BY <1>1, <1>2
  <2> QED BY <1>1, <1>2, <2>1 DEF OneAtATime
<1>5. (\A l \in loads : l.at # "assigned")' => Complete(page)'
  BY <1>1 DEF SettingsInv, Complete
<1> QED BY <1>1, <1>3, <1>4, <1>5 DEF SettingsInv

LEMMA OpenStep ==
  ASSUME SettingsInv, NEW w \in saves, OpenFile(w)
  PROVE  SettingsInv'
<1> PICK v : v = [w EXCEPT !.open = TRUE]
  OBVIOUS
<1>1. file' = Broken("empty") /\ saves' = (saves \ {w}) \cup {v} /\ UNCHANGED <<page, loads, crossed>>
  BY DEF OpenFile
<1>2. SaveOK(v) /\ v.map = w.map /\ v.imports = w.imports /\ v.open = TRUE
  BY DEF SettingsInv, SaveOK
<1>3. IsFiniteSet(saves') /\ \A u \in saves' : SaveOK(u)
  BY <1>1, <1>2, FS_RemoveElement, FS_AddElement DEF SettingsInv
<1>4. file' \in FileRecord
  BY <1>1, FileFacts
<1>5. ~ crossed' => OneAtATime'
  <2> SUFFICES ASSUME ~ crossed PROVE OneAtATime'
    BY <1>1
  <2>1. saves = {w} /\ loads = {} /\ saves' = {v}
    BY <1>1 DEF SettingsInv, OneAtATime
  <2> QED BY <1>1, <1>2, <2>1 DEF SettingsInv, OneAtATime
<1> QED BY <1>1, <1>3, <1>4, <1>5 DEF SettingsInv, Complete

LEMMA WriteStep ==
  ASSUME SettingsInv, NEW w \in saves, WriteFile(w)
  PROVE  SettingsInv'
<1>1. saves' = saves \ {w} /\ page' = page /\ w.open
  BY DEF WriteFile
<1>2. \/ file' = Whole(w.map)
      \/ file' = Broken("garbled") /\ file.state \in {"garbled", "whole"}
  BY DEF WriteFile
<1>3. file' \in FileRecord
  BY <1>2, FileFacts DEF SettingsInv, SaveOK
<1>4. \/ ~ w.imports /\ UNCHANGED <<loads, crossed>>
      \/ /\ w.imports /\ loads' = loads \cup {NewLoad(loads, FALSE)}
         /\ crossed' = (crossed \/ saves' # {})
  BY DEF WriteFile
<1>5. IsFiniteSet(saves') /\ IsFiniteSet(loads') /\ \A v \in saves' : SaveOK(v)
  <2>1. IsFiniteSet(saves') /\ \A v \in saves' : SaveOK(v)
    BY <1>1, FS_RemoveElement DEF SettingsInv
  <2>2. IsFiniteSet(loads) /\ (loads' = loads \/ loads' = loads \cup {NewLoad(loads, FALSE)})
    BY <1>4 DEF SettingsInv
  <2>3. IsFiniteSet(loads')
    BY <2>2, FS_AddElement
  <2> QED BY <2>1, <2>3
<1>6. \A l \in loads' : LoadOK(l) /\ (l \in loads \/ l.at = "asked")
  <2>1. loads' \subseteq loads \cup {NewLoad(loads, FALSE)}
    BY <1>4
  <2>2. \A l \in loads : LoadOK(l)
    BY DEF SettingsInv
  <2>3. LoadOK(NewLoad(loads, FALSE)) /\ NewLoad(loads, FALSE).at = "asked"
    BY LoadFacts
  <2> QED BY <2>1, <2>2, <2>3, Zenon
<1>7. crossed' \in BOOLEAN
  BY <1>4 DEF SettingsInv
<1>8. ~ crossed' => OneAtATime'
  <2> SUFFICES ASSUME ~ crossed' PROVE OneAtATime'
    OBVIOUS
  <2>1. ~ crossed /\ OneAtATime
    BY <1>4 DEF SettingsInv
  <2>2. saves' = {} /\ loads = {}
    BY <1>1, <2>1 DEF OneAtATime
  <2>3. file' = Whole(w.map) /\ file'.map = w.map
    <3>1. file = Broken("empty") /\ file.state = "empty"
      BY <1>1, <2>1, FileFacts DEF OneAtATime
    <3> QED BY <1>2, <3>1, FileFacts DEF SettingsInv, SaveOK
  <2>4. CASE ~ w.imports
    <3>1. w.map = page /\ loads' = {}
      BY <1>4, <2>1, <2>2, <2>4 DEF OneAtATime
    <3> QED BY <1>1, <2>2, <2>3, <3>1 DEF OneAtATime, Agreed
  <2>5. CASE w.imports
    <3>1. loads' = {NewLoad(loads, FALSE)} /\ NewLoad(loads, FALSE).at = "asked"
      BY <1>4, <2>2, <2>5, LoadFacts
    <3> QED BY <2>2, <3>1 DEF OneAtATime
  <2> QED BY <2>4, <2>5
<1>9. (\A l \in loads : l.at # "assigned")' => Complete(page)'
  <2>1. \A l \in loads : l \in loads'
    BY <1>4
  <2> QED BY <1>1, <2>1 DEF SettingsInv, Complete
<1> QED BY <1>1, <1>3, <1>5, <1>6, <1>7, <1>8, <1>9 DEF SettingsInv

\* What fails is known to have crossed.
LEMMA FailStep ==
  ASSUME SettingsInv,
         \/ \E w \in saves : SaveFails(w)
         \/ \E l \in loads : LoadFails(l)
  PROVE  SettingsInv'
<1>1. ASSUME NEW w \in saves, SaveFails(w) PROVE SettingsInv'
  <2>1. /\ saves' = saves \ {w} /\ crossed' = TRUE /\ UNCHANGED <<page, loads>>
        /\ file' = file \/ file' = Broken("garbled")
    BY <1>1 DEF SaveFails
  <2>2. file' \in FileRecord
    BY <2>1, FileFacts DEF SettingsInv
  <2>3. IsFiniteSet(saves')
    BY <2>1, FS_RemoveElement DEF SettingsInv
  <2> QED BY <2>1, <2>2, <2>3 DEF SettingsInv, Complete
<1>2. ASSUME NEW l \in loads, LoadFails(l) PROVE SettingsInv'
  <2>1. /\ loads' = loads \ {l} /\ crossed' = TRUE /\ UNCHANGED <<file, page, saves>>
        /\ l.at = "asked"
    BY <1>2 DEF LoadFails
  <2>2. IsFiniteSet(loads')
    BY <2>1, FS_RemoveElement DEF SettingsInv
  <2>3. (\A m \in loads : m.at # "assigned")' => Complete(page)'
    <3>1. \A m \in loads : m = l \/ m \in loads'
      BY <2>1
    <3>2. (\A m \in loads' : m.at # "assigned") => (\A m \in loads : m.at # "assigned")
      BY <2>1, <3>1
    <3> QED BY <2>1, <3>2 DEF SettingsInv, Complete
  <2> QED BY <2>1, <2>2, <2>3 DEF SettingsInv
<1> QED BY <1>1, <1>2

LEMMA LoadsBegin ==
  ASSUME SettingsInv, LoadSettings
  PROVE  SettingsInv'
<1>1. /\ loads' = loads \cup {NewLoad(loads, FALSE)}
      /\ crossed' = (saves # {} \/ (loads # {} /\ crossed))
      /\ UNCHANGED <<file, page, saves>>
  BY DEF LoadSettings
<1>2. LoadOK(NewLoad(loads, FALSE)) /\ NewLoad(loads, FALSE).at = "asked"
  BY LoadFacts
<1>3. IsFiniteSet(loads') /\ \A l \in loads' : LoadOK(l)
  BY <1>1, <1>2, FS_AddElement DEF SettingsInv
<1>4. crossed' \in BOOLEAN
  BY <1>1
<1>5. ~ crossed' => OneAtATime'
  <2> SUFFICES ASSUME ~ crossed' PROVE OneAtATime'
    OBVIOUS
  <2>1. saves = {} /\ (loads = {} \/ ~ crossed)
    BY <1>1
  <2>2. CASE loads = {}
    <3>1. loads' = {NewLoad(loads, FALSE)} /\ saves' = {}
      BY <1>1, <2>1, <2>2
    <3> QED BY <1>2, <3>1 DEF OneAtATime
  <2>3. CASE ~ crossed
    <3>1. OneAtATime
      BY <2>3 DEF SettingsInv
    <3> QED BY <1>1, <1>2, <2>1, <3>1 DEF OneAtATime, Agreed
  <2> QED BY <2>1, <2>2, <2>3
<1>6. (\A l \in loads : l.at # "assigned")' => Complete(page)'
  BY <1>1 DEF SettingsInv, Complete
<1> QED BY <1>1, <1>3, <1>4, <1>5, <1>6 DEF SettingsInv

LEMMA ReadStep ==
  ASSUME SettingsInv, NEW l \in loads, ReadFile(l)
  PROVE  SettingsInv'
<1> PICK m : m = [l EXCEPT !.at = "read", !.map = file.map]
  OBVIOUS
<1>1. /\ loads' = (loads \ {l}) \cup {m} /\ UNCHANGED <<file, page, saves, crossed>>
      /\ l.at = "asked"
  BY DEF ReadFile
<1>2. LoadOK(m) /\ m.at = "read" /\ m.map = file.map
  BY DEF SettingsInv, LoadOK, FileRecord
<1>3. IsFiniteSet(loads') /\ \A k \in loads' : LoadOK(k)
  BY <1>1, <1>2, FS_RemoveElement, FS_AddElement DEF SettingsInv
<1>4. ~ crossed' => OneAtATime'
  <2> SUFFICES ASSUME ~ crossed PROVE OneAtATime'
    BY <1>1
  <2>1. saves = {}
    BY DEF SettingsInv, OneAtATime
  <2> QED BY <1>1, <1>2, <2>1 DEF SettingsInv, OneAtATime, Agreed
<1>5. (\A k \in loads : k.at # "assigned")' => Complete(page)'
  <2>1. (\A k \in loads' : k.at # "assigned") => (\A k \in loads : k.at # "assigned")
    BY <1>1
  <2> QED BY <1>1, <2>1 DEF SettingsInv, Complete
<1> QED BY <1>1, <1>3, <1>4, <1>5 DEF SettingsInv

LEMMA AssignStep ==
  ASSUME SettingsInv, NEW l \in loads, AssignLoaded(l)
  PROVE  SettingsInv'
<1> PICK m : m = [l EXCEPT !.at = "assigned"]
  OBVIOUS
<1>1. /\ loads' = (loads \ {l}) \cup {m} /\ UNCHANGED <<file, saves, crossed>>
      /\ l.at = "read" /\ page' = Over(page, l.map)
  BY DEF AssignLoaded
<1>2. LoadOK(m) /\ m.at = "assigned"
  BY DEF SettingsInv, LoadOK
<1>3. IsFiniteSet(loads') /\ \A k \in loads' : LoadOK(k)
  BY <1>1, <1>2, FS_RemoveElement, FS_AddElement DEF SettingsInv
<1>4. page' \in [Groups -> AnyGroup] /\ \A g \in DOMAIN l.map : page'[g] = l.map[g]
  BY <1>1, OverFacts DEF SettingsInv, LoadOK
<1>5. ~ crossed' => OneAtATime'
  <2> SUFFICES ASSUME ~ crossed PROVE OneAtATime'
    BY <1>1
  <2>1. saves = {} /\ l.map = file.map
    BY <1>1 DEF SettingsInv, OneAtATime
  <2>2. Agreed(page)'
    BY <1>1, <1>4, <2>1 DEF Agreed
  <2>3. \A k \in loads' : k.at = "read" => k.map = file.map
    BY <1>1, <1>2 DEF SettingsInv, OneAtATime
  <2> QED BY <1>1, <2>1, <2>2, <2>3 DEF OneAtATime
<1>6. m \in loads'
  BY <1>1
<1> QED BY <1>1, <1>2, <1>3, <1>4, <1>5, <1>6 DEF SettingsInv

LEMMA StartStep ==
  ASSUME SettingsInv, Restart \/ ReloadApp
  PROVE  SettingsInv'
<1>1. /\ page' = Defaults /\ loads' = {NewLoad({}, TRUE)} /\ file' = file
      /\ saves' = {[w EXCEPT !.imports = FALSE] : w \in saves} \/ saves' = {}
      /\ crossed' = (saves' # {})
  BY DEF Restart, ReloadApp
<1>2. LoadOK(NewLoad({}, TRUE)) /\ NewLoad({}, TRUE).at = "asked"
  BY LoadFacts
<1>3. IsFiniteSet(loads') /\ \A l \in loads' : LoadOK(l)
  BY <1>1, <1>2, FS_Singleton
<1>4. IsFiniteSet(saves')
  <2> DEFINE Left(w) == [w EXCEPT !.imports = FALSE]
  <2>1. IsFiniteSet(saves)
    BY DEF SettingsInv
  <2>2. IsFiniteSet({Left(w) : w \in saves})
    <3> HIDE DEF Left
    <3> DEFINE f == [w \in saves |-> Left(w)]
    <3>1. f \in Surjection(saves, {Left(w) : w \in saves})
      BY DEF Surjection
    <3> HIDE DEF f
    <3> QED BY <2>1, <3>1, FS_Surjection
  <2> QED BY <1>1, <2>2, FS_EmptySet
<1>5. \A w \in saves' : SaveOK(w)
  <2>1. ASSUME NEW w \in saves PROVE SaveOK([w EXCEPT !.imports = FALSE])
    BY DEF SettingsInv, SaveOK
  <2> QED BY <1>1, <2>1
<1>6. page' \in [Groups -> AnyGroup] /\ Complete(page)'
  BY <1>1, DefaultFacts DEF Complete
<1>7. ~ crossed' => OneAtATime'
  BY <1>1, <1>2 DEF OneAtATime
<1>8. crossed' \in BOOLEAN
  BY <1>1
<1> QED BY <1>1, <1>3, <1>4, <1>5, <1>6, <1>7, <1>8 DEF SettingsInv

\* The saves of a load, one by one.
LEMMA SentStep ==
  ASSUME NEW under, NEW map, NEW broke, Len(broke) \in Nat
  PROVE  /\ SentFor(under, map, broke)[0] = under
         /\ \A i \in 1..Len(broke) :
              SentFor(under, map, broke)[i] =
                SendRepaired(SentFor(under, map, broke)[i - 1], map, FirstPaths(broke, i))
<1>1. PICK n : n = Len(broke)
  OBVIOUS
<1>2. n \in Nat
  BY <1>1
<1> DEFINE At(f, i) == IF i = 0 THEN under
                       ELSE SendRepaired(f[i - 1], map, FirstPaths(broke, i))
           T == {m \in Nat : \E f : f = [i \in 0..m |-> At(f, i)]}
<1>3. 0 \in T
  <2>1. [i \in 0..0 |-> under] = [i \in 0..0 |-> At([j \in 0..0 |-> under], i)]
    OBVIOUS
  <2> QED BY <2>1
<1>4. ASSUME NEW m \in Nat, m \in T PROVE m + 1 \in T
  <2>1. PICK f : f = [i \in 0..m |-> At(f, i)]
    BY <1>4
  <2> DEFINE g == [i \in 0..(m + 1) |-> IF i = m + 1 THEN At(f, m + 1) ELSE f[i]]
  <2>2. \A i \in 0..m : f[i] = At(f, i) /\ g[i] = f[i]
    <3>1. \A h : \A i \in 0..m : [j \in 0..m |-> At(h, j)][i] = At(h, i)
      OBVIOUS
    <3>2. \A i \in 0..m : f[i] = At(f, i)
      <4> HIDE DEF At
      <4> QED BY <2>1, <3>1
    <3>3. \A i \in 0..m : g[i] = f[i]
      <4> HIDE DEF At
      <4> QED OBVIOUS
    <3> HIDE DEF At, g
    <3> QED BY <3>2, <3>3
  <2>3. ASSUME NEW i \in 0..(m + 1) PROVE g[i] = At(g, i)
    <3>1. i # 0 => i - 1 \in 0..m /\ g[i - 1] = f[i - 1]
      OBVIOUS
    <3>2. At(g, i) = At(f, i)
      BY <3>1
    <3>3. CASE i = m + 1
      BY <3>2, <3>3
    <3>4. CASE i # m + 1
      <4>1. i \in 0..m
        BY <3>4
      <4> HIDE DEF At, g
      <4> QED BY <2>2, <3>2, <4>1
    <3> QED BY <3>3, <3>4
  <2>4. g = [i \in 0..(m + 1) |-> g[i]]
    OBVIOUS
  <2>5. g = [i \in 0..(m + 1) |-> At(g, i)]
    <3> HIDE DEF At
    <3>1. [i \in 0..(m + 1) |-> g[i]] = [i \in 0..(m + 1) |-> At(g, i)]
      <4> HIDE DEF g
      <4> QED BY <2>3
    <3> HIDE DEF g
    <3> QED BY <2>4, <3>1
  <2>6. \E h : h = [i \in 0..(m + 1) |-> At(h, i)]
    <3> HIDE DEF At, g
    <3> QED BY <2>5
  <2> HIDE DEF At
  <2> QED BY <2>6
<1>5. n \in T
  <2> HIDE DEF T
  <2> QED BY <1>2, <1>3, <1>4, NatSetInduction
<1>6. SentFor(under, map, broke) = CHOOSE f : f = [i \in 0..n |-> At(f, i)]
  BY <1>1 DEF SentFor
<1> DEFINE k == SentFor(under, map, broke)
<1>7. k = [i \in 0..n |-> At(k, i)]
  BY <1>5, <1>6
<1>8. \A i \in 0..n : k[i] = At(k, i)
  <2>1. \A g : \A i \in 0..n : [j \in 0..n |-> At(g, j)][i] = At(g, i)
    OBVIOUS
  <2> HIDE DEF At, k
  <2> QED BY <1>7, <2>1
<1> HIDE DEF k
<1> QED BY <1>1, <1>2, <1>8 DEF k

\* What a load sends is finitely many saves; the last, if there is one, is of the
\* settings with all that was broken repaired.
LEMMA SentFacts ==
  ASSUME NEW under, IsFiniteSet(under), \A w \in under : SaveOK(w),
         NEW map, NEW broke, Len(broke) \in Nat, NEW n \in Nat, n <= Len(broke),
         \A i \in 1..Len(broke) : Repaired(map, FirstPaths(broke, i)) \in AnySettings
  PROVE  /\ IsFiniteSet(SentFor(under, map, broke)[n])
         /\ \A w \in SentFor(under, map, broke)[n] : SaveOK(w)
         /\ n = 0 => SentFor(under, map, broke)[n] = under
         /\ n > 0 => \E w \in SentFor(under, map, broke)[n] :
                       /\ w.map = Repaired(map, FirstPaths(broke, n))
                       /\ ~ w.imports /\ ~ w.open
<1>1. PICK sent : sent = SentFor(under, map, broke)
  OBVIOUS
<1>2. /\ sent[0] = under
      /\ \A i \in 1..Len(broke) : sent[i] = SendRepaired(sent[i - 1], map, FirstPaths(broke, i))
  BY <1>1, SentStep
<1> DEFINE Sends(i) == \E w \in sent[i] : /\ w.map = Repaired(map, FirstPaths(broke, i))
                                          /\ ~ w.imports /\ ~ w.open
           Good(i) == /\ IsFiniteSet(sent[i]) /\ \A w \in sent[i] : SaveOK(w)
                      /\ i = 0 => sent[i] = under
                      /\ i > 0 => Sends(i)
           T == {i \in Nat : i <= Len(broke) => Good(i)}
<1>3. 0 \in T
  BY <1>2
<1>4. ASSUME NEW i \in Nat, i \in T PROVE i + 1 \in T
  <2> SUFFICES ASSUME i + 1 <= Len(broke) PROVE Good(i + 1)
    OBVIOUS
  <2>1. i + 1 \in 1..Len(broke) /\ (i + 1) - 1 = i
    OBVIOUS
  <2> PICK now : now = sent[i]
    OBVIOUS
  <2> PICK then : then = sent[i + 1]
    OBVIOUS
  <2> PICK new : new = Repaired(map, FirstPaths(broke, i + 1))
    OBVIOUS
  <2>2. new \in AnySettings
    BY <2>1
  <2>3. then = AddSave(now, new, FALSE)
    BY <1>2, <2>1 DEF SendRepaired
  <2>4. IsFiniteSet(now) /\ \A v \in now : SaveOK(v)
    BY <1>4, <2>1
  <2> HIDE DEF Good, T
  <2>5. PICK w : /\ then = now \cup {w} /\ SaveOK(w)
                 /\ w.map = new /\ ~ w.imports /\ ~ w.open
    <3> DEFINE v == [nr |-> Unused(now), map |-> new, imports |-> FALSE, open |-> FALSE]
    <3>1. then = now \cup {v}
      BY <2>3 DEF AddSave
    <3>2. SaveOK(v) /\ v.map = new /\ ~ v.imports /\ ~ v.open
      BY <2>2 DEF SaveOK
    <3> HIDE DEF v
    <3> QED BY <3>1, <3>2
  <2>6. IsFiniteSet(then)
    BY <2>4, <2>5, FS_AddElement
  <2>7. \A v \in then : SaveOK(v)
    BY <2>4, <2>5
  <2>8. Sends(i + 1)
    BY <2>5
  <2>9. i + 1 # 0
    BY <1>4
  <2> HIDE DEF Sends
  <2> QED BY <2>6, <2>7, <2>8, <2>9 DEF Good
<1>5. n \in T
  <2> HIDE DEF T
  <2> QED BY <1>3, <1>4, NatSetInduction
<1>6. Good(n)
  BY <1>5
<1> QED BY <1>1, <1>6

\* What a load makes of what it read is repaired as a whole: every key that has no
\* option is one of those that are repaired.
LEMMA AllRepaired ==
  ASSUME NEW map \in [Groups -> AnyGroup]
  PROVE  /\ Broke(map) \in Seq(Paths)
         /\ FirstPaths(Broke(map), Len(Broke(map))) \in SUBSET Paths
         /\ Complete(Repaired(map, FirstPaths(Broke(map), Len(Broke(map)))))
         /\ Broke(map) = <<>> => FirstPaths(Broke(map), Len(Broke(map))) = {}
<1> DEFINE P == {i \in DOMAIN PathOrder : ~ HasOption(map, PathOrder[i])}
<1>1. PICK q : q = Broke(map)
  OBVIOUS
<1>2. q = Sift(PathOrder, P)
  BY <1>1 DEF Broke
<1>3. PathOrder \in Seq(Paths) /\ DOMAIN PathOrder = 1..Len(PathOrder)
  BY SettingsAssumption
<1> HIDE DEF P
<1>4. q \in Seq(Paths)
  BY <1>2, <1>3, SiftType
<1>5. PICK at \in [1..Len(q) -> 1..Len(PathOrder)] :
         \A i \in 1..Len(PathOrder) : i \in P => \E k \in 1..Len(q) : at[k] = i /\ q[k] = PathOrder[i]
  <2>1. PICK at \in [1..Len(q) -> 1..Len(PathOrder)] :
           /\ \A k \in 1..Len(q) : at[k] \in P /\ q[k] = PathOrder[at[k]]
           /\ \A i \in 1..Len(PathOrder) : i \in P => \E k \in 1..Len(q) : at[k] = i
    BY <1>2, <1>3, SiftPlaces
  <2> QED BY <2>1
<1>6. PICK paths : paths = FirstPaths(q, Len(q))
  OBVIOUS
<1>7. paths \in SUBSET Paths
  BY <1>4, <1>6 DEF FirstPaths
<1>8. \A path \in Paths : path \in paths \/ HasOption(map, path)
  <2> SUFFICES ASSUME NEW path \in Paths, ~ HasOption(map, path) PROVE path \in paths
    OBVIOUS
  <2>1. PICK i \in 1..Len(PathOrder) : path = PathOrder[i]
    BY <1>3 DEF Paths
  <2>2. i \in P
    BY <1>3, <2>1 DEF P
  <2>3. PICK k \in 1..Len(q) : q[k] = path
    BY <1>5, <2>1, <2>2
  <2> QED BY <1>6, <2>3 DEF FirstPaths
<1>9. Complete(Repaired(map, paths))
  BY <1>7, <1>8, RepairedFacts DEF Complete
<1>10. q = <<>> => paths = {}
  <2> SUFFICES ASSUME q = <<>> PROVE paths = {}
    OBVIOUS
  <2>1. Len(q) = 0
    OBVIOUS
  <2> QED BY <1>6, <2>1 DEF FirstPaths
<1> QED BY <1>1, <1>4, <1>6, <1>7, <1>9, <1>10

LEMMA OneOfFew ==
  ASSUME NEW S, IsFiniteSet(S), ~ (Cardinality(S) > 1), NEW x \in S
  PROVE  S = {x}
<1> SUFFICES ASSUME NEW y \in S, y # x PROVE FALSE
  OBVIOUS
<1>1. Cardinality(S \ {x}) = Cardinality(S) - 1 /\ IsFiniteSet(S \ {x})
  BY FS_RemoveElement
<1>2. y \in S \ {x}
  OBVIOUS
<1>3. Cardinality(S \ {x}) # 0 /\ Cardinality(S \ {x}) \in Nat /\ Cardinality(S) \in Nat
  BY <1>1, <1>2, FS_EmptySet, FS_CardinalityType
<1> QED BY <1>1, <1>3

LEMMA PopulateStep ==
  ASSUME SettingsInv, NEW l \in loads, Populate(l)
  PROVE  SettingsInv'
<1>1. PICK map : map = Loaded(l)
  OBVIOUS
<1>2. map \in [Groups -> AnyGroup]
  BY <1>1, OverFacts DEF SettingsInv, LoadOK, Loaded
<1>3. ~ crossed => Agreed(map)
  <2> SUFFICES ASSUME ~ crossed PROVE Agreed(map)
    OBVIOUS
  <2>1. OneAtATime /\ CanPopulate(l)
    BY DEF SettingsInv, Populate
  <2>2. CASE l.starts
    BY <1>1, <2>1, <2>2 DEF OneAtATime, CanPopulate, Loaded
  <2>3. CASE ~ l.starts
    <3>1. l.map = file.map /\ map = Over(page, l.map)
      BY <1>1, <2>1, <2>3 DEF OneAtATime, CanPopulate, Loaded
    <3> QED BY <3>1, OverFacts DEF SettingsInv, LoadOK, Agreed
  <2> QED BY <2>2, <2>3
<1>4. PICK q : q = Broke(map)
  OBVIOUS
<1>5. PICK n : n = Len(q)
  OBVIOUS
<1>6. n \in Nat /\ (n = 0 <=> q = <<>>) /\ q \in Seq(Paths)
  BY <1>2, <1>4, <1>5, AllRepaired
<1>7. /\ page' = Repaired(map, FirstPaths(q, n))
      /\ saves' = SentFor(saves, map, q)[n]
      /\ crossed' = (crossed \/ Cardinality(saves') > 1 \/ (q # <<>> /\ Cardinality(loads) > 1))
      /\ loads' = loads \ {l} /\ file' = file
  BY <1>1, <1>4, <1>5 DEF Populate
<1>8. page' \in [Groups -> AnyGroup] /\ Complete(page)' /\ (q = <<>> => page' = map)
  <2>1. FirstPaths(q, n) \in SUBSET Paths /\ Complete(Repaired(map, FirstPaths(q, n)))
        /\ (q = <<>> => FirstPaths(q, n) = {})
    BY <1>2, <1>4, <1>5, AllRepaired
  <2>2. Repaired(map, FirstPaths(q, n)) \in [Groups -> AnyGroup]
        /\ (FirstPaths(q, n) = {} => Repaired(map, FirstPaths(q, n)) = map)
    BY <1>2, <2>1, RepairedFacts
  <2> QED BY <1>7, <2>1, <2>2 DEF Complete
<1>9. /\ IsFiniteSet(saves') /\ \A w \in saves' : SaveOK(w)
      /\ n = 0 => saves' = saves
      /\ n > 0 => \E w \in saves' : w.map = page' /\ ~ w.imports /\ ~ w.open
  <2>1. IsFiniteSet(saves) /\ \A w \in saves : SaveOK(w)
    BY DEF SettingsInv
  <2>2. n <= Len(q) /\ Len(q) \in Nat
    BY <1>5, <1>6
  <2>3. ASSUME NEW i \in 1..Len(q) PROVE Repaired(map, FirstPaths(q, i)) \in AnySettings
    <3>1. FirstPaths(q, i) \in SUBSET Paths
      BY <1>6 DEF FirstPaths
    <3> QED BY <1>2, <3>1, RepairedFacts, MapFacts
  <2> QED BY <1>6, <1>7, <2>1, <2>2, <2>3, SentFacts
<1>10. IsFiniteSet(loads')
  BY <1>7, FS_RemoveElement DEF SettingsInv
<1>11. crossed' \in BOOLEAN
  BY <1>7
<1>12. ~ crossed' => OneAtATime'
  <2> SUFFICES ASSUME ~ crossed' PROVE OneAtATime'
    OBVIOUS
  <2>1. ~ crossed /\ OneAtATime
    BY <1>7 DEF SettingsInv
  <2>2. saves = {}
    BY <2>1 DEF OneAtATime
  <2>3. CASE q = <<>>
    <3>1. saves' = {} /\ page' = map
      BY <1>6, <1>8, <1>9, <2>2, <2>3
    <3>2. Agreed(page)'
      BY <1>3, <1>7, <2>1, <3>1 DEF Agreed
    <3> QED BY <1>7, <2>1, <3>1, <3>2 DEF OneAtATime
  <2>4. CASE q # <<>>
    <3>1. n > 0
      BY <1>6, <2>4
    <3>2. PICK w \in saves' : w.map = page' /\ ~ w.imports /\ ~ w.open
      BY <1>9, <3>1
    <3>3. ~ (Cardinality(saves') > 1) /\ ~ (Cardinality(loads) > 1)
      BY <1>7, <2>4
    <3>4. saves' = {w}
      BY <1>9, <3>2, <3>3, OneOfFew
    <3>5. loads = {l}
      BY <3>3, OneOfFew DEF SettingsInv
    <3> QED BY <1>7, <3>2, <3>4, <3>5 DEF OneAtATime
  <2> QED BY <2>3, <2>4
<1> QED BY <1>7, <1>8, <1>9, <1>10, <1>11, <1>12 DEF SettingsInv

LEMMA SettingsStep == SettingsInv /\ [SettingsNext]_settingsVars => SettingsInv'
<1> SUFFICES ASSUME SettingsInv, [SettingsNext]_settingsVars PROVE SettingsInv'
  OBVIOUS
<1>1. CASE UNCHANGED settingsVars
  BY <1>1 DEF SettingsInv, OneAtATime, Agreed, Complete, settingsVars
<1>2. ASSUME page' \in [Groups -> AnyGroup], Complete(page) => Complete(page'),
             Send(page', FALSE)
      PROVE  SettingsInv'
  BY <1>2, SendStep, MapFacts
<1>3. ASSUME NEW path \in Paths, NEW v \in Option, SaveEntry(path, v) PROVE SettingsInv'
  <2>1. page' \in [Groups -> AnyGroup] /\ (Complete(page) => Complete(page'))
    BY <1>3, SetFacts DEF SaveEntry, SettingsInv
  <2> QED BY <1>2, <1>3, <2>1 DEF SaveEntry
<1>4. CASE RestoreDefaults
  <2>1. Defaults \in AnySettings /\ DOMAIN Defaults = Groups
    BY DefaultFacts, MapFacts
  <2>2. page' = Over(page, Defaults) /\ page \in [Groups -> AnyGroup]
    BY <1>4 DEF RestoreDefaults, SettingsInv
  <2>3. page' \in [Groups -> AnyGroup] /\ \A g \in Groups : page'[g] = Defaults[g]
    BY <2>1, <2>2, OverFacts
  <2>4. page' = Defaults
    BY <2>3, DefaultFacts
  <2> QED BY <1>2, <1>4, <2>4, DefaultFacts DEF RestoreDefaults
<1>5. CASE SaveConfig
  BY <1>2, <1>5 DEF SaveConfig, SettingsInv
<1>6. ASSUME NEW map \in Importable, ImportConfig(map) PROVE SettingsInv'
  <2>1. Send(map, TRUE) /\ page' = page /\ map \in AnySettings /\ page' \in [Groups -> AnyGroup]
    BY <1>6, MapFacts DEF ImportConfig, SettingsInv
  <2> QED BY <2>1, SendStep
<1>7. ASSUME NEW w \in saves, OpenFile(w) \/ WriteFile(w) \/ SaveFails(w) PROVE SettingsInv'
  BY <1>7, OpenStep, WriteStep, FailStep
<1>8. CASE LoadSettings
  BY <1>8, LoadsBegin
<1>9. ASSUME NEW l \in loads, ReadFile(l) \/ LoadFails(l) \/ AssignLoaded(l) \/ Populate(l)
      PROVE  SettingsInv'
  BY <1>9, ReadStep, FailStep, AssignStep, PopulateStep
<1>10. CASE Restart \/ ReloadApp
  BY <1>10, StartStep
<1> QED BY <1>1, <1>3, <1>4, <1>5, <1>6, <1>7, <1>8, <1>9, <1>10 DEF SettingsNext

\* What the settings file says is what the page has, group for group, once saves
\* and loads that met one at a time are done, and every key has an option, for any
\* keys, groups, options and imported settings, and wherever a save or load fails.
THEOREM FileAlwaysSaysWhatPageShows == SettingsSpec => []FileSaysWhatPageShows
<1>1. SettingsInit => SettingsInv
  <2> SUFFICES ASSUME SettingsInit PROVE SettingsInv
    OBVIOUS
  <2>1. /\ page = Defaults /\ saves = {} /\ loads = {NewLoad({}, TRUE)} /\ crossed = FALSE
    BY DEF SettingsInit
  <2>2. IsFiniteSet(saves) /\ IsFiniteSet(loads)
    BY <2>1, FS_EmptySet, FS_Singleton
  <2>3. page \in [Groups -> AnyGroup] /\ Complete(page)
    BY <2>1, DefaultFacts
  <2>4. file \in FileRecord
    BY FileFacts, MapFacts DEF SettingsInit
  <2>5. LoadOK(NewLoad({}, TRUE)) /\ NewLoad({}, TRUE).at = "asked"
    BY LoadFacts
  <2>6. OneAtATime
    BY <2>1, <2>5 DEF OneAtATime
  <2> QED BY <2>1, <2>2, <2>3, <2>4, <2>5, <2>6 DEF SettingsInv
<1>2. SettingsInv => FileSaysWhatPageShows
  BY DEF SettingsInv, OneAtATime, Agreed, Complete, FileSaysWhatPageShows
<1> QED BY <1>1, <1>2, SettingsStep, PTL DEF SettingsSpec

----------------------------------------------------------------------------
(* The pages that look names up.                                          *)

SheetField == {"visible", "name", "reply", "row"}
SearchField == {"nr", "at", "name", "query", "lines", "domain", "status"}

\* A search is the only one and of the name asked last; while it is under way
\* nothing is shown.
SingleInv ==
  /\ \A s, t \in searches : s = t
  /\ \A s \in searches : DOMAIN s = SearchField /\ s.name = asked
  /\ \A s \in searches :
       s.at \in {"availabilityCheck", "domainParameters"} =>
         s.domain = DomainNameIn(ParseRawData(s.lines))
  /\ loading \in BOOLEAN /\ (loading <=> searches # {})
  /\ DOMAIN sheet = SheetField /\ sheet.visible \in BOOLEAN
  /\ searches # {} => shown = {} /\ ~ sheet.visible
  /\ \A m, n \in shown : m = n
  /\ shown # {} \/ sheet.visible => sheet.name = asked
  /\ sheet.visible =>
       /\ shown \subseteq {"unavailable"}
       /\ sheet.row = GetDomainParameters(DomainNameIn(ParseRawData(sheet.reply)), sheet.reply)

LEMMA AtMostOne ==
  ASSUME NEW S, \A m, n \in S : m = n
  PROVE  Cardinality(S) <= 1
<1>1. CASE S = {}
  BY <1>1, FS_EmptySet
<1>2. CASE S # {}
  <2>1. PICK m \in S : S = {m}
    BY <1>2
  <2>2. Cardinality({m}) = 1
    BY FS_Singleton
  <2> QED BY <2>1, <2>2
<1> QED BY <1>1, <1>2

LEMMA ClickAsks == SingleInv /\ ClickSearch => SingleInv'
<1> SUFFICES ASSUME SingleInv, ClickSearch PROVE SingleInv'
  OBVIOUS
<1>1. searches = {}
  BY DEF SingleInv, ClickSearch
<1>2. PICK nr : searches' = {NewSearch(nr)}
  BY <1>1 DEF ClickSearch, BeginSearch
<1>3. /\ loading' = TRUE /\ shown' = {} /\ sheet' = [sheet EXCEPT !.visible = FALSE]
      /\ asked' = box
  BY DEF ClickSearch, BeginSearch
<1>4. DOMAIN sheet' = SheetField /\ sheet'.visible = FALSE
  BY <1>3 DEF SingleInv, SheetField
<1> DEFINE s == NewSearch(nr)
<1>5. DOMAIN s = SearchField /\ s.name = box /\ s.at = "whoisLookup"
  BY DEF NewSearch, SearchField
<1> HIDE DEF s
<1> QED BY <1>2, <1>3, <1>4, <1>5 DEF SingleInv, s

LEMMA SearchAdvances ==
  ASSUME SingleInv, NEW s \in searches, NEW t, Advance(s, t), DOMAIN t = SearchField,
         t.name = s.name,
         t.at \in {"availabilityCheck", "domainParameters"} =>
           t.domain = DomainNameIn(ParseRawData(t.lines))
  PROVE  SingleInv'
<1>1. searches' = {t}
  BY DEF SingleInv, Advance
<1>2. UNCHANGED <<loading, shown, sheet, asked>>
  BY DEF Advance
<1> QED BY <1>1, <1>2 DEF SingleInv

LEMMA SearchSteps ==
  ASSUME SingleInv, NEW s \in searches,
         \/ SendQuery(s)
         \/ \E text \in WhoisReply : Replied(s, text)
         \/ Parsed(s)
         \/ Checked(s)
         \/ ShowResults(s)
         \/ SearchFails(s)
  PROVE  SingleInv'
<1>1. DOMAIN s = SearchField /\ s.name = asked /\ searches \ {s} = {}
  BY DEF SingleInv
<1>2. CASE SendQuery(s)
  <2>1. PICK q : Advance(s, [s EXCEPT !.query = q])
    BY <1>2 DEF SendQuery
  <2>2. s.at = "whoisLookup"
    BY <1>2 DEF SendQuery
  <2> QED BY <1>1, <2>1, <2>2, SearchAdvances DEF SearchField
<1>3. CASE \E text \in WhoisReply : Replied(s, text)
  <2>1. PICK l, st : Advance(s, [s EXCEPT !.at = "whoisParse", !.lines = l, !.status = st])
    BY <1>3 DEF Replied
  <2> QED BY <1>1, <2>1, SearchAdvances DEF SearchField
<1>4. CASE Parsed(s)
  <2> DEFINE t == [s EXCEPT !.at = "availabilityCheck",
                            !.domain = DomainNameIn(ParseRawData(s.lines))]
  <2>1. Advance(s, t)
    BY <1>4 DEF Parsed
  <2>2. DOMAIN t = SearchField /\ t.name = s.name /\ t.lines = s.lines
        /\ t.domain = DomainNameIn(ParseRawData(s.lines))
    BY <1>1 DEF SearchField
  <2> HIDE DEF t
  <2> QED BY <2>1, <2>2, SearchAdvances
<1>5. CASE Checked(s)
  <2> DEFINE t == [s EXCEPT !.at = "domainParameters"]
  <2>1. Advance(s, t) /\ s.at = "availabilityCheck"
    BY <1>5 DEF Checked
  <2>2. DOMAIN t = SearchField /\ t.name = s.name /\ t.lines = s.lines /\ t.domain = s.domain
    BY <1>1 DEF SearchField
  <2>3. s.domain = DomainNameIn(ParseRawData(s.lines))
    BY <2>1 DEF SingleInv
  <2> HIDE DEF t
  <2> QED BY <2>1, <2>2, <2>3, SearchAdvances
<1>6. CASE ShowResults(s)
  <2>1. shown = {} /\ ~ sheet.visible /\ DOMAIN sheet = SheetField
    BY DEF SingleInv
  <2>2. s.domain = DomainNameIn(ParseRawData(s.lines))
    BY <1>6 DEF SingleInv, ShowResults
  <2>3. searches' = {} /\ loading' = FALSE /\ asked' = asked /\ shown' = {MessageOf(s.status)}
    BY <1>1, <1>6, <2>1 DEF ShowResults
  <2>4. CASE s.status = "unavailable"
    <3>1. sheet' = [visible |-> TRUE, name |-> s.name, reply |-> s.lines,
                    row |-> GetDomainParameters(s.domain, s.lines)]
      BY <1>6, <2>4 DEF ShowResults
    <3>2. /\ DOMAIN sheet' = SheetField /\ sheet'.visible = TRUE /\ sheet'.name = asked
          /\ sheet'.reply = s.lines /\ sheet'.row = GetDomainParameters(s.domain, s.lines)
      BY <1>1, <3>1 DEF SheetField
    <3>3. shown' = {"unavailable"}
      BY <2>3, <2>4 DEF MessageOf
    <3> QED BY <2>2, <2>3, <3>2, <3>3 DEF SingleInv
  <2>5. CASE s.status # "unavailable"
    <3>1. sheet' = [sheet EXCEPT !.name = s.name, !.reply = s.lines]
      BY <1>6, <2>5 DEF ShowResults
    <3>2. DOMAIN sheet' = SheetField /\ sheet'.visible = sheet.visible /\ sheet'.name = asked
      BY <1>1, <2>1, <3>1 DEF SheetField
    <3> QED BY <2>1, <2>3, <3>2 DEF SingleInv
  <2> QED BY <2>4, <2>5
<1>7. CASE SearchFails(s)
  BY <1>1, <1>7 DEF SearchFails, SingleInv
<1> QED BY <1>2, <1>3, <1>4, <1>5, <1>6, <1>7

LEMMA SingleStep == SingleInv /\ [SingleNext]_singleVars => SingleInv'
<1> SUFFICES ASSUME SingleInv, [SingleNext]_singleVars PROVE SingleInv'
  OBVIOUS
<1>1. CASE UNCHANGED singleVars
  BY <1>1 DEF SingleInv, singleVars
<1>2. ASSUME NEW s \in LookupSetting, SetLookupSettings(s) PROVE SingleInv'
  BY <1>2 DEF SingleInv, SetLookupSettings
<1>3. ASSUME NEW name \in LookupName, TypeName(name) PROVE SingleInv'
  BY <1>3 DEF SingleInv, TypeName
<1>4. CASE ClickSearch
  BY <1>4, ClickAsks
<1>5. ASSUME NEW s \in searches,
             \/ SendQuery(s)
             \/ \E text \in WhoisReply : Replied(s, text)
             \/ Parsed(s)
             \/ Checked(s)
             \/ ShowResults(s)
             \/ SearchFails(s)
      PROVE  SingleInv'
  BY <1>5, SearchSteps
<1>6. ASSUME NEW message \in shown, Dismiss(message) PROVE SingleInv'
  BY <1>6 DEF SingleInv, Dismiss
<1>7. CASE PressEscape
  <2>1. DOMAIN sheet' = SheetField /\ sheet'.visible = FALSE /\ sheet'.name = sheet.name
    BY <1>7 DEF PressEscape, SingleInv, SheetField
  <2>2. shown' \subseteq shown /\ UNCHANGED <<loading, searches, asked>>
    BY <1>7 DEF PressEscape
  <2> QED BY <2>1, <2>2 DEF SingleInv
<1> QED BY <1>1, <1>2, <1>3, <1>4, <1>5, <1>6, <1>7 DEF SingleNext

LEMMA SearchAnswers == SingleSpec => []SearchShowsItsAnswer
<1>1. SingleInit => SingleInv
  <2> SUFFICES ASSUME SingleInit PROVE SingleInv
    OBVIOUS
  <2>1. DOMAIN EmptySheet = SheetField /\ EmptySheet.visible = FALSE
    BY DEF EmptySheet, SheetField
  <2> QED BY <2>1 DEF SingleInit, SingleInv
<1>2. SingleInv => SearchShowsItsAnswer
  BY AtMostOne DEF SingleInv, SearchShowsItsAnswer
<1> QED BY <1>1, <1>2, SingleStep, PTL DEF SingleSpec

\* As long as no page was left with a Start counting, a handler that awaits
\* something says which page can be shown: none while a text is described, the
\* loading page while a file is chosen, the confirmation or the processing page
\* while a Start counts, which then counts the text that is there.
InputInv ==
  ~ abandoned =>
    /\ \A p, q \in pages : p = q
    /\ \A a \in awaits :
         /\ a.kind \in {"start", "describe", "dialog"}
         /\ a.kind = "start" =>
              a.text = contents /\ pages # {} /\ pages \subseteq {"wordlistConfirm", "processing"}
         /\ a.kind = "describe" => a.text = contents /\ pages = {} /\ awaits = {a}
         /\ a.kind = "dialog" => pages = {"fileLoading"} /\ awaits = {a}
    /\ "wordlistConfirm" \in pages => described = contents
    /\ launched.text = launched.counted

LEMMA InputStep == InputInv /\ [InputNext]_inputVars => InputInv'
<1> SUFFICES ASSUME InputInv, [InputNext]_inputVars PROVE InputInv'
  OBVIOUS
<1>1. CASE UNCHANGED inputVars
  BY <1>1 DEF InputInv, inputVars
<1>2. CASE InputNext /\ abandoned
  <2>1. \E a \in awaits : AwaitEnds(a)
    BY <1>2 DEF InputNext
  <2>2. abandoned'
    BY <1>2, <2>1
    DEF AwaitEnds, Described, LinesCounted, NoFileChosen, FileChosen, AwaitFails
  <2> QED BY <2>2 DEF InputInv
<1>3. CASE InputUser /\ ~ abandoned
  <2>1. CASE ClickWordlist
    BY <1>3, <2>1 DEF InputInv, ClickWordlist, Turn
  <2>2. ASSUME NEW text \in InputText, EditText(text) PROVE InputInv'
    BY <1>3, <2>2 DEF InputInv, EditText
  <2>3. CASE CancelWordlist
    BY <1>3, <2>3 DEF InputInv, CancelWordlist, Turn
  <2>4. CASE ConfirmWordlist
    <3>1. pages = {"wordlistInput"} /\ awaits = {}
      BY <1>3, <2>4 DEF InputInv, ConfirmWordlist
    <3>2. contents' = textarea /\ UNCHANGED <<described, launched, abandoned>>
      BY <2>4 DEF ConfirmWordlist
    <3>3. CASE textarea = ""
      <4>1. pages' = {"entry"} /\ awaits' = {}
        BY <2>4, <3>1, <3>3 DEF ConfirmWordlist
      <4> QED BY <1>3, <3>2, <4>1 DEF InputInv
    <3>4. CASE textarea # ""
      <4>1. PICK nr : awaits' = {[nr |-> nr, kind |-> "describe", text |-> textarea]}
        BY <2>4, <3>1, <3>4 DEF ConfirmWordlist, Await
      <4>2. pages' = {}
        BY <2>4, <3>1, <3>4 DEF ConfirmWordlist
      <4> QED BY <1>3, <3>2, <4>1, <4>2 DEF InputInv
    <3> QED BY <3>3, <3>4
  <2>5. CASE CancelConfirm
    BY <1>3, <2>5 DEF InputInv, CancelConfirm, Turn, Counting
  <2>6. CASE ClickStart
    <3>1. PICK nr : awaits' = awaits \cup {[nr |-> nr, kind |-> "start", text |-> contents]}
      BY <2>6 DEF ClickStart, Await
    <3>2. "wordlistConfirm" \in pages
          /\ UNCHANGED <<pages, contents, described, launched, abandoned>>
      BY <2>6 DEF ClickStart
    <3> QED BY <1>3, <3>1, <3>2 DEF InputInv
  <2>7. CASE ClickFile
    <3>1. PICK nr : awaits' = awaits \cup {[nr |-> nr, kind |-> "dialog", text |-> ""]}
      BY <2>7 DEF ClickFile, Await
    <3>2. pages = {"entry"} /\ awaits = {} /\ pages' = {"fileLoading"}
      BY <1>3, <2>7 DEF InputInv, ClickFile, Turn
    <3>3. UNCHANGED <<contents, described, launched, abandoned>>
      BY <2>7 DEF ClickFile
    <3>4. \A a \in awaits' : a.kind = "dialog" /\ awaits' = {a}
      <4> DEFINE new == [nr |-> nr, kind |-> "dialog", text |-> ""]
      <4>1. awaits' = {new}
        BY <3>1, <3>2
      <4>2. new.kind = "dialog"
        OBVIOUS
      <4> HIDE DEF new
      <4> QED BY <4>1, <4>2
    <3>5. launched'.text = launched'.counted /\ ~ abandoned'
      BY <1>3, <3>3 DEF InputInv
    <3> QED BY <3>2, <3>4, <3>5 DEF InputInv
  <2>8. ASSUME NEW to \in {"entry", "export"}, LeaveProcessing(to) PROVE InputInv'
    BY <1>3, <2>8 DEF InputInv, LeaveProcessing, Turn, Counting, NoLaunch
  <2>9. CASE CancelExport
    BY <1>3, <2>9 DEF InputInv, CancelExport, Turn
  <2> QED BY <1>3, <2>1, <2>2, <2>3, <2>4, <2>5, <2>6, <2>7, <2>8, <2>9 DEF InputUser
<1>4. ASSUME NEW a \in awaits, AwaitEnds(a), ~ abandoned PROVE InputInv'
  <2>1. CASE Described(a)
    BY <1>4, <2>1 DEF InputInv, Described
  <2>2. CASE LinesCounted(a)
    <3>1. launched' = [text |-> contents, counted |-> a.text] /\ a.text = contents
      BY <1>4, <2>2 DEF InputInv, LinesCounted
    <3>2. launched'.text = launched'.counted
      BY <3>1
    <3>3. pages' = {"processing"}
      BY <1>4, <2>2 DEF InputInv, LinesCounted, Turn
    <3>4. awaits' \subseteq awaits /\ UNCHANGED <<contents, described, abandoned>>
      BY <2>2 DEF LinesCounted
    <3>5. \A b \in awaits : b.kind = "start"
      BY <1>4, <2>2 DEF InputInv, LinesCounted
    <3> QED BY <1>4, <3>2, <3>3, <3>4, <3>5 DEF InputInv
  <2>3. CASE NoFileChosen(a)
    BY <1>4, <2>3 DEF InputInv, NoFileChosen, Turn
  <2>4. CASE FileChosen(a)
    BY <1>4, <2>4 DEF InputInv, FileChosen
  <2>5. CASE AwaitFails(a)
    BY <1>4, <2>5 DEF InputInv, AwaitFails
  <2> QED BY <1>4, <2>1, <2>2, <2>3, <2>4, <2>5 DEF AwaitEnds
<1> QED BY <1>1, <1>2, <1>3, <1>4 DEF InputNext

LEMMA LaunchesShown == InputSpec => []LaunchesWhatIsShown
<1>1. InputInit => InputInv
  <2>1. NoLaunch.text = NoLaunch.counted
    BY DEF NoLaunch
  <2> QED BY <2>1 DEF InputInit, InputInv
<1>2. InputInv => LaunchesWhatIsShown
  BY AtMostOne DEF InputInv, LaunchesWhatIsShown
<1> QED BY <1>1, <1>2, InputStep, PTL DEF InputSpec

ExportForms == [preset : Preset, analyser : SUBSET ExportField, locked : SUBSET ExportField]

\* What LocksFollowChoice says, of any form.
LocksOf(f) ==
  /\ f.locked =
       CASE f.preset = "import" -> ExportField
         [] f.preset # "import" /\ ~ IsCsv(f) -> {"information", "reply"}
         [] OTHER -> {}
  /\ f.preset = "import" => f.analyser = ExportField

LEMMA ExportTypes ==
  ASSUME NEW f \in ExportForms, NEW isTxt \in BOOLEAN
  PROVE  /\ LockFields(f, isTxt) \in ExportForms
         /\ LockFields(f, isTxt).preset = f.preset /\ LockFields(f, isTxt).analyser = f.analyser
         /\ UnlockFields(f, isTxt) \in ExportForms
         /\ UnlockFields(f, isTxt).preset = f.preset
         /\ UnlockFields(f, isTxt).analyser = f.analyser
BY DEF LockFields, UnlockFields, ExportForms, ExportField

\* Another preset is unlocked, after which a form locks what its type calls for.
LEMMA UnlocksAll ==
  ASSUME NEW f \in ExportForms, LocksOf(f), NEW preset \in Preset \ {"import"}
  PROVE  LocksOf(UnlockFields([f EXCEPT !.preset = preset], FALSE))
<1> DEFINE g == [f EXCEPT !.preset = preset]
<1> SUFFICES ASSUME NEW u, u = UnlockFields(g, FALSE) PROVE LocksOf(u)
  OBVIOUS
<1>1. g \in ExportForms /\ g.preset = preset /\ g.locked = f.locked /\ g.analyser = f.analyser
  BY DEF ExportForms
<1>2. CASE IsCsv(f)
  <2>1. UnlockFields(g, FALSE).locked = {}
    <3>1. f.locked = {} \/ "reply" \in f.locked
      BY <1>2 DEF LocksOf, ExportField
    <3> HIDE DEF g
    <3> QED BY <1>1, <1>2, <3>1 DEF UnlockFields, IsCsv, ExportForms
  <2>2. u.preset = preset /\ IsCsv(u)
    BY <1>1, <1>2, ExportTypes DEF IsCsv
  <2>3. u.locked = {}
    BY <2>1
  <2> QED BY <2>2, <2>3 DEF LocksOf
<1>3. CASE ~ IsCsv(f)
  <2>1. f.locked = {"information", "reply"}
    BY <1>3 DEF LocksOf, IsCsv, ExportField
  <2> HIDE DEF g
  <2>2. UnlockFields(g, FALSE).locked = f.locked
    BY <1>1, <1>3 DEF UnlockFields, IsCsv, ExportForms
  <2>3. u.preset = preset /\ ~ IsCsv(u)
    BY <1>1, <1>3, ExportTypes DEF IsCsv
  <2>4. u.locked = {"information", "reply"}
    BY <2>1, <2>2
  <2> QED BY <2>3, <2>4 DEF LocksOf
<1> QED BY <1>2, <1>3

ExportInv == form \in ExportForms /\ LocksOf(form)

LEMMA ExportStep == ExportInv /\ [ExportNext]_exportVars => ExportInv'
<1> SUFFICES ASSUME form \in ExportForms, LocksOf(form), [ExportNext]_exportVars
             PROVE  form' \in ExportForms /\ LocksOf(form')
  BY DEF ExportInv, LocksOf, IsCsv
<1>1. CASE UNCHANGED exportVars
  BY <1>1 DEF exportVars
<1>2. ASSUME NEW preset \in Preset, ChoosePreset(preset)
      PROVE  form' \in ExportForms /\ LocksOf(form')
  <2> DEFINE g == [form EXCEPT !.preset = preset]
             u == UnlockFields(g, FALSE)
  <2>1. g \in ExportForms /\ g.preset = preset /\ g.locked = form.locked
        /\ g.analyser = form.analyser
    BY DEF ExportForms
  <2>2. form' = ApplyPreset(g, preset)
    BY <1>2 DEF ChoosePreset
  <2>3. CASE preset = "import"
    <3>1. form' = [LockFields(g, FALSE) EXCEPT !.analyser = ExportField]
      BY <2>2, <2>3 DEF ApplyPreset
    <3>2. LockFields(g, FALSE).locked = ExportField
      <4>1. form.locked \in {{}, ExportField, {"information", "reply"}}
        BY DEF LocksOf
      <4> HIDE DEF g
      <4> QED BY <2>1, <4>1 DEF LockFields, ExportForms, ExportField
    <3>3. LockFields(g, FALSE) \in ExportForms /\ LockFields(g, FALSE).preset = preset
      BY <2>1, ExportTypes
    <3> HIDE DEF g
    <3>4. form' \in ExportForms /\ form'.locked = ExportField /\ form'.preset = preset
          /\ form'.analyser = ExportField
      BY <3>1, <3>2, <3>3 DEF ExportForms
    <3> QED BY <2>3, <3>4 DEF LocksOf
  <2>4. CASE preset # "import"
    <3>1. LocksOf(u) /\ u \in ExportForms /\ u.preset = preset
      BY <2>1, <2>4, UnlocksAll, ExportTypes
    <3> HIDE DEF g, u
    <3>2. CASE preset = "none"
      BY <2>2, <3>1, <3>2 DEF ApplyPreset, u
    <3>3. ASSUME NEW A \in SUBSET ExportField, "filetype" \in A <=> "filetype" \in u.analyser,
                 form' = [u EXCEPT !.analyser = A]
          PROVE  form' \in ExportForms /\ LocksOf(form')
      <4>1. form' \in ExportForms /\ form'.preset = preset /\ form'.locked = u.locked
            /\ form'.analyser = A
        BY <3>1, <3>3 DEF ExportForms
      <4>2. IsCsv(form') <=> IsCsv(u)
        BY <3>3, <4>1 DEF IsCsv
      <4> QED BY <2>4, <3>1, <4>1, <4>2 DEF LocksOf
    <3>4. CASE preset = "availableonly"
      <4>1. form' = [u EXCEPT !.analyser = u.analyser \cap {"filetype"}]
        BY <2>2, <3>4 DEF ApplyPreset, u
      <4> QED BY <3>3, <4>1 DEF ExportField
    <3>5. CASE preset = "allbutnoreply"
      <4>1. form' = [u EXCEPT !.analyser = (u.analyser \cap {"filetype"}) \cup {"domains", "errors"}]
        BY <2>2, <3>5 DEF ApplyPreset, u
      <4> QED BY <3>3, <4>1 DEF ExportField
    <3> QED BY <2>4, <3>2, <3>4, <3>5 DEF Preset
  <2> QED BY <2>3, <2>4
<1>3. CASE ChooseFiletype
  <2>1. "filetype" \notin form.locked /\ form.preset # "import" /\ form.preset \in Preset
    BY <1>3 DEF ChooseFiletype, LocksOf, ExportField, ExportForms
  <2>2. CASE IsCsv(form)
    <3> DEFINE A == form.analyser \ {"filetype"}
               g == [form EXCEPT !.analyser = A]
    <3>1. form' = LockFields(g, TRUE) /\ form.locked = {}
      BY <1>3, <2>1, <2>2 DEF ChooseFiletype, LocksOf
    <3>2. g \in ExportForms /\ g.locked = {} /\ g.preset = form.preset /\ g.analyser = A
      BY <3>1 DEF ExportForms
    <3> HIDE DEF g
    <3>3. LockFields(g, TRUE).locked = {"information", "reply"}
      BY <3>2 DEF LockFields, ExportForms
    <3> QED BY <2>1, <3>1, <3>2, <3>3, ExportTypes DEF LocksOf, IsCsv
  <2>3. CASE ~ IsCsv(form)
    <3> DEFINE A == form.analyser \cup {"filetype"}
               g == [form EXCEPT !.analyser = A]
    <3>1. form' = UnlockFields(g, TRUE) /\ form.locked = {"information", "reply"}
      BY <1>3, <2>1, <2>3 DEF ChooseFiletype, LocksOf
    <3>2. /\ g \in ExportForms /\ g.locked = {"information", "reply"} /\ g.preset = form.preset
          /\ g.analyser = A /\ IsCsv(g)
      BY <3>1 DEF ExportForms, ExportField, IsCsv
    <3> HIDE DEF g
    <3>3. UnlockFields(g, TRUE).locked = {}
      BY <3>2 DEF UnlockFields, ExportForms
    <3> QED BY <2>1, <3>1, <3>2, <3>3, ExportTypes DEF LocksOf, IsCsv
  <2> QED BY <2>2, <2>3
<1>4. ASSUME NEW field \in ExportField \ {"filetype"}, SetField(field)
      PROVE  form' \in ExportForms /\ LocksOf(form')
  <2>1. PICK kept \in {form.analyser \cup {field}, form.analyser \ {field}} :
           form' = [form EXCEPT !.analyser = kept]
    BY <1>4 DEF SetField
  <2>2. form.preset # "import"
    BY <1>4 DEF SetField, LocksOf
  <2>3. form' \in ExportForms /\ form'.preset = form.preset /\ form'.locked = form.locked
        /\ form'.analyser = kept
    BY <2>1 DEF ExportForms
  <2>4. IsCsv(form') <=> IsCsv(form)
    BY <1>4, <2>3 DEF IsCsv
  <2> QED BY <2>2, <2>3, <2>4 DEF LocksOf
<1> QED BY <1>1, <1>2, <1>3, <1>4 DEF ExportNext

LEMMA LocksFollow == ExportSpec => []LocksFollowChoice
<1>1. ExportInit => ExportInv
  <2> SUFFICES ASSUME ExportInit PROVE form \in ExportForms /\ LocksOf(form)
    BY DEF ExportInv
  <2>1. form \in [preset : {"none"}, analyser : {{"filetype"}}, locked : {{}}]
    BY DEF ExportInit
  <2>2. form \in ExportForms
    BY <2>1 DEF ExportForms, Preset, ExportField
  <2> QED BY <2>1, <2>2 DEF LocksOf, IsCsv
<1>2. ExportInv => LocksFollowChoice
  BY DEF ExportInv, LocksOf, LocksFollowChoice
<1> QED BY <1>1, <1>2, ExportStep, PTL DEF ExportSpec

\* The pages that look names up answer what they were asked, whatever is typed,
\* chosen and clicked while the commands they await are under way or fail.
THEOREM PagesAlwaysAnswer == SingleSpec /\ InputSpec /\ ExportSpec => []PagesAnswerWhatIsAsked
BY SearchAnswers, LaunchesShown, LocksFollow, PTL DEF PagesAnswerWhatIsAsked

----------------------------------------------------------------------------
(* The verdicts on replies.                                               *)

AnyMark == Mark \cup {"expiry past"}

\* What a rule may say: a reply that cannot be parsed is one that no rule matches.
Result ==
  {"available", "unavailable", "expired", "error:ratelimiting", "error:nocontent",
   "error:unauthorized", "error:unretrivable", "error:forbidden",
   "error:reservedbyregulator", "error:unregistrable", "error:replyerror"}

AnyRule == [needs : SUBSET AnyMark, unless : SUBSET AnyMark, result : Result]

LEMMA RuleType ==
  ASSUME NEW needs \in SUBSET AnyMark, NEW unless \in SUBSET AnyMark, NEW result \in Result
  PROVE  Rule(needs, unless, result) \in AnyRule
BY DEF Rule, AnyRule

\* Rules for one mark each come in some order.
LEMMA AnyType ==
  ASSUME NEW marks \in SUBSET AnyMark, IsFiniteSet(marks), NEW result \in Result
  PROVE  Any(marks, result) \in Seq(AnyRule)
<1> DEFINE n == Cardinality(marks)
           Distinct(s) == \A i, j \in DOMAIN s : i # j => s[i] # s[j]
           order == CHOOSE s \in [1..n -> marks] : Distinct(s)
<1>1. n \in Nat /\ ExistsBijection(1..n, marks)
  BY FS_CardinalityType
<1>2. \E s \in [1..n -> marks] : Distinct(s)
  BY <1>1 DEF ExistsBijection, Bijection, Injection, IsInjective
<1>3. order \in [1..n -> marks]
  BY <1>2
<1>4. Any(marks, result) = [i \in DOMAIN order |-> Rule({order[i]}, {}, result)]
  BY DEF Any
<1> HIDE DEF order, n
<1>5. \A i \in 1..n : Rule({order[i]}, {}, result) \in AnyRule
  BY <1>3, RuleType
<1>6. Any(marks, result) \in [1..n -> AnyRule]
  BY <1>3, <1>4, <1>5
<1> QED BY <1>1, <1>6 DEF n

LEMMA SevenOf ==
  ASSUME NEW S, NEW r1 \in S, NEW r2 \in S, NEW r3 \in S, NEW r4 \in S, NEW r5 \in S,
         NEW r6 \in S, NEW r7 \in S
  PROVE  LET q == <<r1, r2, r3, r4, r5, r6, r7>> IN
         q \in Seq(S) /\ Len(q) = 7
OBVIOUS

\* The rules that are the same whatever the settings.
LEMMA LaterRules == UnavailableRules \in Seq(AnyRule) /\ ErrorRules \in Seq(AnyRule)
<1> USE DEF AnyMark, Mark, TextMark, FieldMark
<1>1. \A a, b, c, d : IsFiniteSet({a, b, c}) /\ IsFiniteSet({a, b, c, d})
  <2> TAKE a, b, c, d
  <2>1. IsFiniteSet({a} \cup {b}) /\ IsFiniteSet(({a} \cup {b}) \cup {c})
    BY FS_Singleton, FS_AddElement
  <2>2. IsFiniteSet((({a} \cup {b}) \cup {c}) \cup {d})
    BY <2>1, FS_AddElement
  <2>3. {a, b, c} = ({a} \cup {b}) \cup {c} /\ {a, b, c, d} = (({a} \cup {b}) \cup {c}) \cup {d}
    OBVIOUS
  <2> QED BY <2>1, <2>2, <2>3
<1>2. UnavailableRules \in Seq(AnyRule)
  <2>1. "unavailable" \in Result
    BY DEF Result
  <2>2. {"domainName", "registered phrase", "many fields"} \in SUBSET AnyMark
    OBVIOUS
  <2> QED BY <1>1, <2>1, <2>2, AnyType DEF UnavailableRules
<1>3. Any({"error 101", "reply error", "error line", "error field"}, "error:replyerror") \in Seq(AnyRule)
  <2>1. "error:replyerror" \in Result
    BY DEF Result
  <2>2. {"error 101", "reply error", "error line", "error field"} \in SUBSET AnyMark
    OBVIOUS
  <2> QED BY <1>1, <2>1, <2>2, AnyType
<1>4. \A mark \in AnyMark, result \in Result : Rule({mark}, {}, result) \in AnyRule
  BY RuleType
<1>5. ErrorRules \in Seq(AnyRule)
  <2> DEFINE first == <<Rule({"empty"}, {}, "error:nocontent"),
                        Rule({"unauthorized"}, {}, "error:unauthorized"),
                        Rule({"rate limit"}, {}, "error:ratelimiting"),
                        Rule({"unretrivable"}, {}, "error:unretrivable"),
                        Rule({"forbidden"}, {}, "error:forbidden"),
                        Rule({"reserved"}, {}, "error:reservedbyregulator"),
                        Rule({"unregistrable"}, {}, "error:unregistrable")>>
  <2>1. /\ Rule({"empty"}, {}, "error:nocontent") \in AnyRule
        /\ Rule({"unauthorized"}, {}, "error:unauthorized") \in AnyRule
        /\ Rule({"rate limit"}, {}, "error:ratelimiting") \in AnyRule
        /\ Rule({"unretrivable"}, {}, "error:unretrivable") \in AnyRule
        /\ Rule({"forbidden"}, {}, "error:forbidden") \in AnyRule
        /\ Rule({"reserved"}, {}, "error:reservedbyregulator") \in AnyRule
        /\ Rule({"unregistrable"}, {}, "error:unregistrable") \in AnyRule
    BY <1>4 DEF Result
  <2>2. first \in Seq(AnyRule)
    <3>1. PICK r1, r2, r3, r4, r5, r6, r7 :
            /\ r1 = Rule({"empty"}, {}, "error:nocontent")
            /\ r2 = Rule({"unauthorized"}, {}, "error:unauthorized")
            /\ r3 = Rule({"rate limit"}, {}, "error:ratelimiting")
            /\ r4 = Rule({"unretrivable"}, {}, "error:unretrivable")
            /\ r5 = Rule({"forbidden"}, {}, "error:forbidden")
            /\ r6 = Rule({"reserved"}, {}, "error:reservedbyregulator")
            /\ r7 = Rule({"unregistrable"}, {}, "error:unregistrable")
      OBVIOUS
    <3>2. /\ r1 \in AnyRule /\ r2 \in AnyRule /\ r3 \in AnyRule /\ r4 \in AnyRule
          /\ r5 \in AnyRule /\ r6 \in AnyRule /\ r7 \in AnyRule
      BY ONLY <2>1, <3>1
    <3>3. <<r1, r2, r3, r4, r5, r6, r7>> \in Seq(AnyRule)
      BY ONLY <3>2, SevenOf
    <3>4. first = <<r1, r2, r3, r4, r5, r6, r7>>
      BY ONLY <3>1 DEF first
    <3> QED BY ONLY <3>3, <3>4
  <2>3. ErrorRules = first \o Any({"error 101", "reply error", "error line", "error field"},
                                  "error:replyerror")
    BY DEF ErrorRules
  <2> HIDE DEF first
  <2>4. PICK rest : rest = Any({"error 101", "reply error", "error line", "error field"},
                               "error:replyerror")
    OBVIOUS
  <2>5. rest \in Seq(AnyRule)
    BY ONLY <1>3, <2>4
  <2>6. first \o rest \in Seq(AnyRule)
    BY ONLY <2>2, <2>5, Concatenated
  <2> QED BY ONLY <2>3, <2>4, <2>6
<1> QED BY <1>2, <1>5

\* One rule, seven, and the others.
OneSevenAnd(r, u, e) == <<r[1]>> \o <<r[2], r[3], r[4], r[5], r[6], r[7], r[8]>> \o u \o e

\* They are told apart by their places.
InPlace(q, r, t) ==
  /\ \A i \in 1..8 : q[i] = r[i]
  /\ \A i \in 1..Len(t) : q[8 + i] = t[i]

LEMMA OneAndSeven ==
  ASSUME NEW S, NEW r \in [1..8 -> S], NEW u \in Seq(S), NEW e \in Seq(S),
         NEW q, q = OneSevenAnd(r, u, e)
  PROVE  q \in Seq(S) /\ Len(q) = 8 + Len(u) + Len(e) /\ InPlace(q, r, u \o e)
<1> PICK r1, r2, r3, r4, r5, r6, r7, r8 :
      /\ r1 = r[1] /\ r2 = r[2] /\ r3 = r[3] /\ r4 = r[4] /\ r5 = r[5] /\ r6 = r[6]
      /\ r7 = r[7] /\ r8 = r[8]
  OBVIOUS
<1> PICK a, b : a = <<r1>> /\ b = <<r2, r3, r4, r5, r6, r7, r8>>
  OBVIOUS
<1>0. /\ r1 \in S /\ r2 \in S /\ r3 \in S /\ r4 \in S /\ r5 \in S /\ r6 \in S /\ r7 \in S /\ r8 \in S
  OBVIOUS
<1>1. a \in Seq(S) /\ Len(a) = 1 /\ a[1] = r1
  BY <1>0
<1>2. b \in Seq(S) /\ Len(b) = 7
  BY <1>0, SevenOf
<1>3. b[1] = r2 /\ b[2] = r3 /\ b[3] = r4 /\ b[4] = r5 /\ b[5] = r6 /\ b[6] = r7 /\ b[7] = r8
  OBVIOUS
<1>4. /\ a \o b \in Seq(S) /\ Len(a \o b) = 8 /\ (a \o b)[1] = r1
      /\ \A i \in 1..7 : (a \o b)[1 + i] = b[i]
  BY <1>1, <1>2, Concatenated
<1> PICK p : p = a \o b
  OBVIOUS
<1>5. \A i \in 1..8 : p[i] = r[i]
  <2>1. p[1] = r1 /\ \A i \in 1..7 : p[1 + i] = b[i]
    BY <1>4
  <2>2. /\ p[1 + 1] = b[1] /\ p[1 + 2] = b[2] /\ p[1 + 3] = b[3] /\ p[1 + 4] = b[4]
        /\ p[1 + 5] = b[5] /\ p[1 + 6] = b[6] /\ p[1 + 7] = b[7]
    BY <2>1
  <2>3. /\ p[1] = r[1] /\ p[2] = r[2] /\ p[3] = r[3] /\ p[4] = r[4] /\ p[5] = r[5]
        /\ p[6] = r[6] /\ p[7] = r[7] /\ p[8] = r[8]
    BY <1>3, <2>1, <2>2
  <2>4. \A i \in 1..8 : \/ i = 1 \/ i = 2 \/ i = 3 \/ i = 4 \/ i = 5 \/ i = 6 \/ i = 7 \/ i = 8
    OBVIOUS
  <2> QED BY ONLY <2>3, <2>4
<1>6. p \in Seq(S) /\ Len(p) = 8
  BY <1>4
<1>7. (p \o u) \o e = p \o (u \o e)
  BY <1>6
<1>8. u \o e \in Seq(S) /\ Len(u \o e) = Len(u) + Len(e)
  BY Concatenated
<1> PICK t : t = u \o e
  OBVIOUS
<1>9. /\ p \o t \in Seq(S) /\ Len(p \o t) = 8 + Len(t)
      /\ \A i \in 1..8 : (p \o t)[i] = p[i]
      /\ \A i \in 1..Len(t) : (p \o t)[8 + i] = t[i]
  BY <1>6, <1>8, Concatenated
<1>10. q = p \o t
  BY <1>7 DEF OneSevenAnd
<1>11. /\ q \in Seq(S) /\ Len(q) = 8 + Len(u) + Len(e)
       /\ \A i \in 1..8 : q[i] = p[i]
       /\ \A i \in 1..Len(t) : q[8 + i] = t[i]
  BY <1>8, <1>9, <1>10
<1>12. InPlace(q, r, t)
  BY ONLY <1>5, <1>11 DEF InPlace
<1> QED BY <1>11, <1>12

\* The rules of some settings: two look at them, the first and the sixth.
LEMMA RulesOf ==
  ASSUME NEW s \in Settings
  PROVE  LET rules == BuildPatterns(s) IN
         /\ rules \in Seq(AnyRule)
         /\ Len(rules) = 8 + Len(UnavailableRules) + Len(ErrorRules)
         /\ rules[1] = Rule({"uniregistry limit"}, {},
                            IF s.uniregistry THEN "unavailable" ELSE "error:ratelimiting")
         /\ rules[2] = Rule({"not found"}, {}, "available")
         /\ rules[3] = Rule({"no entries"}, {"error 101"}, "available")
         /\ rules[4] = Rule({"no match"}, {}, "available")
         /\ rules[5] = Rule({"status free"}, {}, "available")
         /\ rules[6] = Rule({"expiry past"}, {},
                            IF s.expired = "yes" THEN "expired" ELSE "available")
         /\ rules[7] = Rule({"free phrase"}, {}, "available")
         /\ rules[8] = Rule({"is free", "short"}, {}, "available")
         /\ \A i \in 1..(Len(UnavailableRules) + Len(ErrorRules)) :
              rules[8 + i] = (UnavailableRules \o ErrorRules)[i]
<1>1. /\ Rule({"uniregistry limit"}, {},
              IF s.uniregistry THEN "unavailable" ELSE "error:ratelimiting") \in AnyRule
      /\ Rule({"not found"}, {}, "available") \in AnyRule
      /\ Rule({"no entries"}, {"error 101"}, "available") \in AnyRule
      /\ Rule({"no match"}, {}, "available") \in AnyRule
      /\ Rule({"status free"}, {}, "available") \in AnyRule
      /\ Rule({"expiry past"}, {}, IF s.expired = "yes" THEN "expired" ELSE "available") \in AnyRule
      /\ Rule({"free phrase"}, {}, "available") \in AnyRule
      /\ Rule({"is free", "short"}, {}, "available") \in AnyRule
  <2>1. /\ "uniregistry limit" \in AnyMark /\ "not found" \in AnyMark /\ "no entries" \in AnyMark
        /\ "error 101" \in AnyMark /\ "no match" \in AnyMark /\ "status free" \in AnyMark
        /\ "expiry past" \in AnyMark /\ "free phrase" \in AnyMark /\ "is free" \in AnyMark
        /\ "short" \in AnyMark
    BY DEF AnyMark, Mark, TextMark
  <2>2. /\ "available" \in Result /\ "unavailable" \in Result /\ "expired" \in Result
        /\ "error:ratelimiting" \in Result
    BY DEF Result
  <2>3. \A m \in AnyMark, n \in AnyMark, r \in Result :
          /\ Rule({m}, {}, r) \in AnyRule /\ Rule({m}, {n}, r) \in AnyRule
          /\ Rule({m, n}, {}, r) \in AnyRule
    BY RuleType
  <2> QED BY <2>1, <2>2, <2>3
<1>2. BuildPatterns(s) =
        <<Rule({"uniregistry limit"}, {},
               IF s.uniregistry THEN "unavailable" ELSE "error:ratelimiting")>>
        \o <<Rule({"not found"}, {}, "available"), Rule({"no entries"}, {"error 101"}, "available"),
             Rule({"no match"}, {}, "available"), Rule({"status free"}, {}, "available"),
             Rule({"expiry past"}, {}, IF s.expired = "yes" THEN "expired" ELSE "available"),
             Rule({"free phrase"}, {}, "available"), Rule({"is free", "short"}, {}, "available")>>
        \o UnavailableRules \o ErrorRules
  BY DEF BuildPatterns, SpecialRules, AvailableRules
<1>3. PICK r, u, e :
        /\ r = <<Rule({"uniregistry limit"}, {},
                      IF s.uniregistry THEN "unavailable" ELSE "error:ratelimiting"),
                 Rule({"not found"}, {}, "available"), Rule({"no entries"}, {"error 101"}, "available"),
                 Rule({"no match"}, {}, "available"), Rule({"status free"}, {}, "available"),
                 Rule({"expiry past"}, {}, IF s.expired = "yes" THEN "expired" ELSE "available"),
                 Rule({"free phrase"}, {}, "available"), Rule({"is free", "short"}, {}, "available")>>
        /\ u = UnavailableRules /\ e = ErrorRules
  OBVIOUS
<1>4. /\ r[1] = Rule({"uniregistry limit"}, {},
                     IF s.uniregistry THEN "unavailable" ELSE "error:ratelimiting")
      /\ r[2] = Rule({"not found"}, {}, "available")
      /\ r[3] = Rule({"no entries"}, {"error 101"}, "available")
      /\ r[4] = Rule({"no match"}, {}, "available")
      /\ r[5] = Rule({"status free"}, {}, "available")
      /\ r[6] = Rule({"expiry past"}, {}, IF s.expired = "yes" THEN "expired" ELSE "available")
      /\ r[7] = Rule({"free phrase"}, {}, "available")
      /\ r[8] = Rule({"is free", "short"}, {}, "available")
  BY ONLY <1>3
<1>5. r \in [1..8 -> AnyRule]
  <2>1. DOMAIN r = 1..8 /\ r = [i \in 1..8 |-> r[i]]
    <3>1. \A a, b, c, d, f, g, h, j, k :
            k = <<a, b, c, d, f, g, h, j>> => DOMAIN k = 1..8 /\ k = [i \in 1..8 |-> k[i]]
      OBVIOUS
    <3>2. PICK a, b, c, d, f, g, h, j : r = <<a, b, c, d, f, g, h, j>>
      BY ONLY <1>3, Zenon
    <3> QED BY ONLY <3>1, <3>2
  <2>2. /\ r[1] \in AnyRule /\ r[2] \in AnyRule /\ r[3] \in AnyRule /\ r[4] \in AnyRule
        /\ r[5] \in AnyRule /\ r[6] \in AnyRule /\ r[7] \in AnyRule /\ r[8] \in AnyRule
    BY ONLY <1>1, <1>4
  <2>3. \A i \in 1..8 : \/ i = 1 \/ i = 2 \/ i = 3 \/ i = 4 \/ i = 5 \/ i = 6 \/ i = 7 \/ i = 8
    OBVIOUS
  <2>4. \A i \in 1..8 : r[i] \in AnyRule
    BY ONLY <2>2, <2>3
  <2> QED BY ONLY <2>1, <2>4
<1>6. u \in Seq(AnyRule) /\ e \in Seq(AnyRule)
  BY ONLY <1>3, LaterRules
<1>7. PICK q : q = OneSevenAnd(r, u, e)
  OBVIOUS
<1>8. q \in Seq(AnyRule) /\ Len(q) = 8 + Len(u) + Len(e) /\ InPlace(q, r, u \o e)
  BY ONLY <1>5, <1>6, <1>7, OneAndSeven
<1>9. BuildPatterns(s) = q
  BY ONLY <1>2, <1>3, <1>4, <1>7 DEF OneSevenAnd
<1>10. /\ q[1] = r[1] /\ q[2] = r[2] /\ q[3] = r[3] /\ q[4] = r[4] /\ q[5] = r[5]
       /\ q[6] = r[6] /\ q[7] = r[7] /\ q[8] = r[8]
  BY ONLY <1>8 DEF InPlace
<1>11. \A i \in 1..(Len(u) + Len(e)) : q[8 + i] = (u \o e)[i]
  <2>1. Len(u \o e) = Len(u) + Len(e)
    BY ONLY <1>6, Concatenated
  <2> QED BY ONLY <1>8, <2>1 DEF InPlace
<1> QED BY ONLY <1>3, <1>4, <1>8, <1>9, <1>10, <1>11

\* Settings change what two rules say, and nothing else of the rules.
LEMMA RulesAlike ==
  ASSUME NEW s \in Settings
  PROVE  \E n \in Nat :
           /\ n >= 8 /\ DOMAIN Patterns(s) = 1..n /\ DOMAIN Patterns(DefaultSettings) = 1..n
           /\ \A i \in 1..n : /\ Patterns(s)[i].needs = Patterns(DefaultSettings)[i].needs
                              /\ Patterns(s)[i].unless = Patterns(DefaultSettings)[i].unless
                              /\ Patterns(s)[i].result # "error:unparsable"
                              /\ i # 1 /\ i # 6 => Patterns(s)[i].result = Patterns(DefaultSettings)[i].result
           /\ Patterns(s)[1] = Rule({"uniregistry limit"}, {},
                                    IF s.uniregistry THEN "unavailable" ELSE "error:ratelimiting")
           /\ Patterns(s)[2] = Rule({"not found"}, {}, "available")
           /\ Patterns(s)[3] = Rule({"no entries"}, {"error 101"}, "available")
           /\ Patterns(s)[4] = Rule({"no match"}, {}, "available")
           /\ Patterns(s)[5] = Rule({"status free"}, {}, "available")
           /\ Patterns(s)[6] = Rule({"expiry past"}, {},
                                    IF s.expired = "yes" THEN "expired" ELSE "available")
<1>1. DefaultSettings \in Settings
  BY DEF DefaultSettings, Settings
<1>2. Patterns(s) = BuildPatterns(s) /\ Patterns(DefaultSettings) = BuildPatterns(DefaultSettings)
  <2>1. \A t \in Settings : IsDefault(t) => t = DefaultSettings
    BY DEF IsDefault, Settings, DefaultSettings
  <2>2. PICK d : d = DefaultSettings
    OBVIOUS
  <2>3. \A t \in Settings : Patterns(t) = BuildPatterns(t)
    <3> TAKE t \in Settings
    <3>1. CASE IsDefault(t)
      BY <2>1, <3>1 DEF Patterns, DefaultPatterns
    <3>2. CASE ~ IsDefault(t)
      BY <3>2 DEF Patterns
    <3> QED BY <3>1, <3>2
  <2> QED BY <1>1, <2>3
<1>3. PICK p, q : p = Patterns(s) /\ q = Patterns(DefaultSettings)
  OBVIOUS
<1>4. PICK u, e : u = UnavailableRules /\ e = ErrorRules
  OBVIOUS
<1>5. u \in Seq(AnyRule) /\ e \in Seq(AnyRule)
  BY ONLY <1>4, LaterRules
<1>6. PICK n : n = 8 + Len(u) + Len(e)
  OBVIOUS
<1>7. n \in Nat /\ n >= 8
  BY ONLY <1>5, <1>6
<1> DEFINE Limit(t) == IF t.uniregistry THEN "unavailable" ELSE "error:ratelimiting"
           Past(t) == IF t.expired = "yes" THEN "expired" ELSE "available"
           Eight(t, f) ==
             /\ f[1] = Rule({"uniregistry limit"}, {}, Limit(t))
             /\ f[2] = Rule({"not found"}, {}, "available")
             /\ f[3] = Rule({"no entries"}, {"error 101"}, "available")
             /\ f[4] = Rule({"no match"}, {}, "available")
             /\ f[5] = Rule({"status free"}, {}, "available")
             /\ f[6] = Rule({"expiry past"}, {}, Past(t))
             /\ f[7] = Rule({"free phrase"}, {}, "available")
             /\ f[8] = Rule({"is free", "short"}, {}, "available")
           Rest(f) == \A i \in 1..(Len(u) + Len(e)) : f[8 + i] = (u \o e)[i]
<1>8. \A t \in Settings : /\ BuildPatterns(t) \in Seq(AnyRule) /\ Len(BuildPatterns(t)) = n
                          /\ Eight(t, BuildPatterns(t)) /\ Rest(BuildPatterns(t))
  <2> TAKE t \in Settings
  <2> QED BY <1>4, <1>6, RulesOf
<1>9. /\ p \in Seq(AnyRule) /\ Len(p) = n /\ Eight(s, p) /\ Rest(p)
      /\ q \in Seq(AnyRule) /\ Len(q) = n /\ Eight(DefaultSettings, q) /\ Rest(q)
  <2> HIDE DEF Eight, Rest
  <2> QED BY ONLY <1>1, <1>2, <1>3, <1>8, s \in Settings
<1> HIDE DEF Eight, Rest
<1>10. DOMAIN p = 1..n /\ DOMAIN q = 1..n
  <2>1. \A k \in Seq(AnyRule) : DOMAIN k = 1..Len(k)
    OBVIOUS
  <2> QED BY ONLY <1>9, <2>1
<1>11. \A i \in 1..n : p[i].result # "error:unparsable"
  <2>1. \A i \in 1..n : p[i] \in AnyRule
    <3>1. \A k \in Seq(AnyRule) : \A i \in 1..Len(k) : k[i] \in AnyRule
      OBVIOUS
    <3> QED BY ONLY <1>9, <3>1
  <2>2. \A f \in AnyRule : f.result \in Result
    BY DEF AnyRule
  <2>3. "error:unparsable" \notin Result
    BY DEF Result
  <2> QED BY ONLY <2>1, <2>2, <2>3
<1>12. \A i \in 1..n : i > 8 => p[i] = q[i]
  <2> TAKE i \in 1..n
  <2> SUFFICES ASSUME i > 8 PROVE p[i] = q[i]
    OBVIOUS
  <2>1. i - 8 \in 1..(Len(u) + Len(e)) /\ 8 + (i - 8) = i
    BY ONLY <1>5, <1>6, i \in 1..n, i > 8
  <2>2. PICK k : k = i - 8
    OBVIOUS
  <2>3. p[8 + k] = (u \o e)[k] /\ q[8 + k] = (u \o e)[k]
    BY ONLY <1>9, <2>1, <2>2 DEF Rest
  <2> QED BY ONLY <2>1, <2>2, <2>3
<1>13. \A i \in 1..n : /\ p[i].needs = q[i].needs /\ p[i].unless = q[i].unless
                       /\ i # 1 /\ i # 6 => p[i].result = q[i].result
  <2> TAKE i \in 1..n
  <2>1. \/ i = 1 \/ i = 2 \/ i = 3 \/ i = 4 \/ i = 5 \/ i = 6 \/ i = 7 \/ i = 8 \/ i > 8
    BY ONLY <1>7, i \in 1..n
  <2>3. CASE i = 1
    <3>1. /\ p[i] = Rule({"uniregistry limit"}, {}, Limit(s))
          /\ q[i] = Rule({"uniregistry limit"}, {}, Limit(DefaultSettings))
      BY ONLY <1>9, <2>3 DEF Eight
    <3>2. PICK x, y, a, b : /\ x = p[i] /\ y = q[i] /\ a = Limit(s) /\ b = Limit(DefaultSettings)
      OBVIOUS
    <3>3. x.needs = y.needs /\ x.unless = y.unless
      <4>1. x = Rule({"uniregistry limit"}, {}, a) /\ y = Rule({"uniregistry limit"}, {}, b)
        <5> HIDE DEF Limit
        <5> QED BY ONLY <3>1, <3>2
      <4> QED BY ONLY <4>1 DEF Rule
    <3> QED BY ONLY <2>3, <3>2, <3>3
  <2>4. CASE i = 6
    <3>1. /\ p[i] = Rule({"expiry past"}, {}, Past(s))
          /\ q[i] = Rule({"expiry past"}, {}, Past(DefaultSettings))
      BY ONLY <1>9, <2>4 DEF Eight
    <3>2. PICK x, y, a, b : /\ x = p[i] /\ y = q[i] /\ a = Past(s) /\ b = Past(DefaultSettings)
      OBVIOUS
    <3>3. x.needs = y.needs /\ x.unless = y.unless
      <4>1. x = Rule({"expiry past"}, {}, a) /\ y = Rule({"expiry past"}, {}, b)
        <5> HIDE DEF Past
        <5> QED BY ONLY <3>1, <3>2
      <4> QED BY ONLY <4>1 DEF Rule
    <3> QED BY ONLY <2>4, <3>2, <3>3
  <2>5. CASE i = 2 \/ i = 3 \/ i = 4 \/ i = 5 \/ i = 7 \/ i = 8
    BY ONLY <1>9, <2>5 DEF Eight
  <2>6. CASE i > 8
    BY ONLY <1>12, <2>6, i \in 1..n
  <2> QED BY ONLY <2>1, <2>3, <2>4, <2>5, <2>6
<1> QED BY ONLY <1>3, <1>7, <1>9, <1>10, <1>11, <1>13 DEF Eight, Limit, Past

\* The least of the rules that a reply hits decides, and settings do not decide
\* which rules it hits.
LEMMA VerdictOf ==
  ASSUME NEW r \in Reply, NEW s \in Settings,
         NEW d, d = Patterns(DefaultSettings),
         NEW hits, hits = {i \in DOMAIN d : Hits(d[i], r)}
  PROVE  /\ hits = {} => Verdict(r, s) = IF s.unparsable THEN "available" ELSE "error:unparsable"
         /\ \A m \in hits : (\A j \in hits : m <= j) =>
              /\ Verdict(r, s) = Patterns(s)[m].result
              /\ Verdict(r, s) # "error:unparsable"
<1> PICK p : p = Patterns(s)
  OBVIOUS
<1>1. PICK n \in Nat : /\ DOMAIN p = 1..n /\ DOMAIN d = 1..n
                       /\ \A i \in 1..n : /\ p[i].needs = d[i].needs /\ p[i].unless = d[i].unless
                                          /\ p[i].result # "error:unparsable"
  BY RulesAlike
<1>2. {i \in DOMAIN p : Hits(p[i], r)} = hits
  <2>1. \A i \in 1..n : Hits(p[i], r) <=> Hits(d[i], r)
    BY <1>1 DEF Hits
  <2> QED BY <1>1, <2>1
<1>3. Verdict(r, s) = IF hits # {} THEN p[Min(hits)].result
                      ELSE IF s.unparsable THEN "available" ELSE "error:unparsable"
  <2>1. hits = {i \in DOMAIN Patterns(s) : Hits(Patterns(s)[i], r)}
    BY ONLY p = Patterns(s), <1>2, Zenon
  <2>2. Verdict(r, s) = IF hits # {} THEN Patterns(s)[Min(hits)].result
                        ELSE IF s.unparsable THEN "available" ELSE "error:unparsable"
    BY ONLY <2>1, Zenon DEF Verdict
  <2> QED BY ONLY p = Patterns(s), <2>2, Zenon
<1>4. ASSUME NEW m \in hits, \A j \in hits : m <= j
      PROVE  Verdict(r, s) = p[m].result /\ p[m].result # "error:unparsable"
  <2>1. hits \subseteq 1..n
    BY <1>1
  <2>2. \A k \in hits : (\A j \in hits : k <= j) => k = m
    BY <1>4, <2>1
  <2>3. Min(hits) = m
    BY <1>4, <2>2 DEF Min
  <2>4. hits # {} /\ m \in 1..n
    BY <2>1
  <2> QED BY <1>1, <1>3, <2>3, <2>4
<1> QED BY <1>3, <1>4

\* Which of the first rules a reply hits.
LEMMA FirstHits ==
  ASSUME NEW r \in Reply, NEW s \in Settings, NEW p, p = Patterns(s),
         NEW hits, hits = {i \in DOMAIN p : Hits(p[i], r)}
  PROVE  /\ 1 \in hits <=> "uniregistry limit" \in r.marks
         /\ 2 \in hits <=> "not found" \in r.marks
         /\ 3 \in hits <=> "no entries" \in r.marks /\ "error 101" \notin r.marks
         /\ 4 \in hits <=> "no match" \in r.marks
         /\ 5 \in hits <=> "status free" \in r.marks
         /\ 6 \in hits <=> ExpiryDate(r) = "past"
<1>1. PICK n \in Nat : /\ n >= 8 /\ DOMAIN p = 1..n
                       /\ p[1] = Rule({"uniregistry limit"}, {},
                                      IF s.uniregistry THEN "unavailable" ELSE "error:ratelimiting")
                       /\ p[2] = Rule({"not found"}, {}, "available")
                       /\ p[3] = Rule({"no entries"}, {"error 101"}, "available")
                       /\ p[4] = Rule({"no match"}, {}, "available")
                       /\ p[5] = Rule({"status free"}, {}, "available")
                       /\ p[6] = Rule({"expiry past"}, {},
                                      IF s.expired = "yes" THEN "expired" ELSE "available")
  BY RulesAlike
<1>2. /\ \A x, a, b : x = Rule({a}, {}, b) => (Hits(x, r) <=> a \in MarksOf(r))
      /\ \A x, a, b, c : x = Rule({a}, {c}, b) =>
           (Hits(x, r) <=> a \in MarksOf(r) /\ c \notin MarksOf(r))
  BY DEF Hits, Rule
<1>3. "expiry past" \notin r.marks
  <2>1. r.marks \subseteq Mark
    BY DEF Reply, kSubset
  <2> QED BY <2>1 DEF Mark, TextMark, FieldMark
<1>4. /\ \A a : a # "expiry past" => (a \in MarksOf(r) <=> a \in r.marks)
      /\ "expiry past" \in MarksOf(r) <=> ExpiryDate(r) = "past"
  BY <1>3 DEF MarksOf
<1>5. /\ Hits(p[1], r) <=> "uniregistry limit" \in r.marks
      /\ Hits(p[2], r) <=> "not found" \in r.marks
      /\ Hits(p[3], r) <=> "no entries" \in r.marks /\ "error 101" \notin r.marks
      /\ Hits(p[4], r) <=> "no match" \in r.marks
      /\ Hits(p[5], r) <=> "status free" \in r.marks
      /\ Hits(p[6], r) <=> ExpiryDate(r) = "past"
  <2>1. PICK a, b : /\ a = IF s.uniregistry THEN "unavailable" ELSE "error:ratelimiting"
                    /\ b = IF s.expired = "yes" THEN "expired" ELSE "available"
    OBVIOUS
  <2>2. p[1] = Rule({"uniregistry limit"}, {}, a) /\ p[6] = Rule({"expiry past"}, {}, b)
    BY ONLY <1>1, <2>1
  <2>3. /\ Hits(p[1], r) <=> "uniregistry limit" \in MarksOf(r)
        /\ Hits(p[6], r) <=> "expiry past" \in MarksOf(r)
    BY ONLY <1>2, <2>2, Zenon
  <2>6. /\ p[2] = Rule({"not found"}, {}, "available")
        /\ p[4] = Rule({"no match"}, {}, "available")
        /\ p[5] = Rule({"status free"}, {}, "available")
    BY ONLY <1>1
  <2>4. /\ Hits(p[2], r) <=> "not found" \in MarksOf(r)
        /\ Hits(p[4], r) <=> "no match" \in MarksOf(r)
        /\ Hits(p[5], r) <=> "status free" \in MarksOf(r)
    BY ONLY <1>2, <2>6, ZenonT(30)
  <2>5. Hits(p[3], r) <=> "no entries" \in MarksOf(r) /\ "error 101" \notin MarksOf(r)
    <3>1. p[3] = Rule({"no entries"}, {"error 101"}, "available")
      BY <1>1
    <3>2. \A x : x = Rule({"no entries"}, {"error 101"}, "available") =>
            (Hits(x, r) <=> "no entries" \in MarksOf(r) /\ "error 101" \notin MarksOf(r))
      BY ONLY <1>2, Zenon
    <3> QED BY ONLY <3>1, <3>2, Zenon
  <2> QED BY ONLY <1>4, <2>3, <2>4, <2>5
<1>6. \A i \in 1..6 : i \in DOMAIN p
  <2>1. n >= 8 /\ DOMAIN p = 1..n
    BY <1>1
  <2> QED BY ONLY n \in Nat, <2>1
<1>7. \A i \in DOMAIN p : i \in hits <=> Hits(p[i], r)
  OBVIOUS
<1>8. /\ 1 \in DOMAIN p /\ 2 \in DOMAIN p /\ 3 \in DOMAIN p /\ 4 \in DOMAIN p /\ 5 \in DOMAIN p
      /\ 6 \in DOMAIN p
  BY ONLY <1>6
<1> QED BY ONLY <1>5, <1>7, <1>8, Zenon

\* What a verdict is in terms of the case that a reply is.
LEMMA VerdictByCase ==
  ASSUME NEW r \in Reply, NEW s \in Settings
  PROVE  Verdict(r, s) =
           CASE Says(r) = "limit" -> (IF s.uniregistry THEN "unavailable" ELSE "error:ratelimiting")
             [] Says(r) = "nothing" -> (IF s.unparsable THEN "available" ELSE "error:unparsable")
             [] Says(r) = "expired" -> (IF s.expired = "yes" THEN "expired" ELSE "available")
             [] OTHER -> Verdict(r, DefaultSettings)
<1> PICK p, d, hits : /\ p = Patterns(s) /\ d = Patterns(DefaultSettings)
                      /\ hits = {i \in DOMAIN d : Hits(d[i], r)}
  OBVIOUS
<1>1. DefaultSettings \in Settings
  BY DEF DefaultSettings, Settings
<1>2. PICK n \in Nat :
        /\ DOMAIN d = 1..n
        /\ \A i \in 1..n : i # 1 /\ i # 6 => p[i].result = d[i].result
        /\ p[1] = Rule({"uniregistry limit"}, {},
                       IF s.uniregistry THEN "unavailable" ELSE "error:ratelimiting")
        /\ p[6] = Rule({"expiry past"}, {}, IF s.expired = "yes" THEN "expired" ELSE "available")
  BY RulesAlike
<1>3. /\ p[1].result = IF s.uniregistry THEN "unavailable" ELSE "error:ratelimiting"
      /\ p[6].result = IF s.expired = "yes" THEN "expired" ELSE "available"
  <2>1. PICK a, b : /\ a = IF s.uniregistry THEN "unavailable" ELSE "error:ratelimiting"
                    /\ b = IF s.expired = "yes" THEN "expired" ELSE "available"
    OBVIOUS
  <2>2. p[1] = Rule({"uniregistry limit"}, {}, a) /\ p[6] = Rule({"expiry past"}, {}, b)
    BY ONLY <1>2, <2>1
  <2>3. \A x, m, t : x = Rule({m}, {}, t) => x.result = t
    BY DEF Rule
  <2>4. p[1].result = a /\ p[6].result = b
    BY ONLY <2>2, <2>3, Zenon
  <2> QED BY ONLY <2>1, <2>4
<1>4. /\ hits = {} => /\ Verdict(r, s) = IF s.unparsable THEN "available" ELSE "error:unparsable"
                      /\ Verdict(r, DefaultSettings) = "error:unparsable"
      /\ \A m \in hits : (\A j \in hits : m <= j) =>
           /\ Verdict(r, s) = p[m].result /\ Verdict(r, DefaultSettings) = d[m].result
           /\ Verdict(r, DefaultSettings) # "error:unparsable"
  <2>1. DefaultSettings.unparsable = FALSE
    BY DEF DefaultSettings
  <2> QED BY <1>1, <2>1, VerdictOf
<1>5. /\ 1 \in hits <=> "uniregistry limit" \in r.marks
      /\ 2 \in hits <=> "not found" \in r.marks
      /\ 3 \in hits <=> "no entries" \in r.marks /\ "error 101" \notin r.marks
      /\ 4 \in hits <=> "no match" \in r.marks
      /\ 5 \in hits <=> "status free" \in r.marks
      /\ 6 \in hits <=> ExpiryDate(r) = "past"
  BY <1>1, FirstHits
<1>6. hits \subseteq 1..n
  BY <1>2
<1>7. CASE hits = {}
  <2>1. Says(r) = "nothing"
    BY <1>4, <1>5, <1>7 DEF Says
  <2> QED BY <1>4, <1>7, <2>1
<1>8. ASSUME NEW m \in hits, \A j \in hits : m <= j
      PROVE  Verdict(r, s) =
               CASE Says(r) = "limit" -> (IF s.uniregistry THEN "unavailable" ELSE "error:ratelimiting")
                 [] Says(r) = "nothing" -> (IF s.unparsable THEN "available" ELSE "error:unparsable")
                 [] Says(r) = "expired" -> (IF s.expired = "yes" THEN "expired" ELSE "available")
                 [] OTHER -> Verdict(r, DefaultSettings)
  <2>1. /\ Verdict(r, s) = p[m].result /\ Verdict(r, DefaultSettings) = d[m].result
        /\ Verdict(r, DefaultSettings) # "error:unparsable"
    BY <1>4, <1>8
  <2>2. m \in 1..n
    BY <1>6
  <2>3. CASE m = 1
    <3>1. Says(r) = "limit"
      BY <1>5, <2>3 DEF Says
    <3> QED BY <1>3, <2>1, <2>3, <3>1
  <2>4. CASE m # 1
    <3>1. 1 \notin hits
      BY <1>8, <2>2, <2>4
    <3>2. "uniregistry limit" \notin r.marks
      BY <1>5, <3>1
    <3>3. CASE m = 6
      <4>1. 2 \notin hits /\ 3 \notin hits /\ 4 \notin hits /\ 5 \notin hits
        BY <1>8, <3>3
      <4>2. Says(r) = "expired"
        BY <1>5, <2>1, <3>2, <3>3, <4>1 DEF Says
      <4> QED BY <1>3, <2>1, <3>3, <4>2
    <3>4. CASE m # 6
      <4>1. Says(r) # "limit" /\ Says(r) # "nothing"
        BY <2>1, <3>2 DEF Says
      <4>2. Says(r) # "expired"
        <5> SUFFICES ASSUME Says(r) = "expired" PROVE FALSE
          OBVIOUS
        <5>1. 6 \in hits /\ 2 \notin hits /\ 3 \notin hits /\ 4 \notin hits /\ 5 \notin hits
          BY <1>5, <2>1, <3>2 DEF Says
        <5>2. m <= 6
          BY <1>8, <5>1
        <5> QED BY <2>2, <2>4, <3>4, <5>1, <5>2
      <4>3. p[m].result = d[m].result
        BY <1>2, <2>2, <2>4, <3>4
      <4> QED BY <2>1, <4>1, <4>2, <4>3
    <3> QED BY <3>3, <3>4
  <2> QED BY <2>3, <2>4
<1>9. CASE hits # {}
  <2>1. hits \subseteq Nat
    BY <1>6
  <2>2. PICK m \in hits : \A j \in hits : m <= j
    BY <1>9, <2>1, LeastNumber
  <2> QED BY <1>8, <2>2
<1> QED BY <1>7, <1>9

\* A reply is read once, and its verdict stays what its settings decided.
AvailabilityInv ==
  /\ reply \in Reply /\ using \in Settings
  /\ verdict # "" => verdict = Verdict(reply, using)

\* uniregistry, unparsable and expired change the verdict only on a Uniregistry limit,
\* on a reply that no rule matches and on a date in the past, whatever the marks of
\* the reply and the other settings (is_domain_available_full, with the kept rules of
\* the default settings).
THEOREM SettingsAlwaysDecide == AvailabilitySpec => []SettingsDecideTheirCase
<1>1. AvailabilityInit => AvailabilityInv
  <2>1. DefaultSettings \in Settings
    BY DEF DefaultSettings, Settings
  <2> QED BY <2>1 DEF AvailabilityInit, AvailabilityInv
<1>2. AvailabilityInv /\ [AvailabilityNext]_availabilityVars => AvailabilityInv'
  <2> SUFFICES ASSUME AvailabilityInv, [AvailabilityNext]_availabilityVars PROVE AvailabilityInv'
    OBVIOUS
  <2>1. ASSUME NEW s \in Settings, CheckReply(s) PROVE AvailabilityInv'
    BY <2>1 DEF CheckReply, AvailabilityInv
  <2>2. CASE UNCHANGED availabilityVars
    BY <2>2 DEF AvailabilityInv, availabilityVars
  <2> QED BY <2>1, <2>2 DEF AvailabilityNext
<1>3. AvailabilityInv => SettingsDecideTheirCase
  <2> SUFFICES ASSUME AvailabilityInv, verdict # "" PROVE SettingsDecideTheirCase
    BY DEF SettingsDecideTheirCase
  <2>1. PICK other : other = Otherwise(using)
    OBVIOUS
  <2>2. /\ other \in Settings
        /\ other.uniregistry = FALSE /\ other.unparsable = FALSE /\ other.expired = "unset"
    BY <2>1 DEF AvailabilityInv, Otherwise, Settings
  <2>3. Verdict(reply, other) =
          CASE Says(reply) = "limit" -> "error:ratelimiting"
            [] Says(reply) = "nothing" -> "error:unparsable"
            [] Says(reply) = "expired" -> "available"
            [] OTHER -> Verdict(reply, DefaultSettings)
    BY <2>2, VerdictByCase DEF AvailabilityInv
  <2>4. verdict =
          CASE Says(reply) = "limit" ->
                 (IF using.uniregistry THEN "unavailable" ELSE "error:ratelimiting")
            [] Says(reply) = "nothing" ->
                 (IF using.unparsable THEN "available" ELSE "error:unparsable")
            [] Says(reply) = "expired" -> (IF using.expired = "yes" THEN "expired" ELSE "available")
            [] OTHER -> Verdict(reply, DefaultSettings)
    BY VerdictByCase DEF AvailabilityInv
  <2> QED BY <2>1, <2>3, <2>4 DEF SettingsDecideTheirCase
<1> QED BY <1>1, <1>2, <1>3, PTL DEF AvailabilitySpec

(* Threats: the blocklists and what they weigh.                           *)

Levels == {"none", "low", "medium", "high", "critical"}
Categories ==
  {"dga_domain", "brand_impersonation", "typosquat", "phishing", "homoglyph", "fast_flux",
   "privacy_proxy", "recently_registered", "blocklist_match"}
Subjects ==
  STRING \cup ListName \cup {"label", "hyphens", "length", "tld", "labels", "registrar", "age"}
AnySign == [category : Categories, of : Subjects, level : Levels, confidence : Nat]
AnyList == [name : ListName, entries : SUBSET Seq(Label)]
BlocklistsOK == blocklists \in Seq(AnyList)

LEMMA LoweredType ==
  ASSUME NEW name \in Seq(Label)
  PROVE  Lowered(name) \in Seq(Label) /\ Len(Lowered(name)) = Len(name)
BY ThreatsAssumption DEF Lowered

\* The blocklists there are hold sequences of labels.
THEOREM BlocklistsWellFormed == ThreatsSpec => []BlocklistsOK
<1>1. ThreatsInit => BlocklistsOK
  BY DEF ThreatsInit, BlocklistsOK
<1>2. ASSUME BlocklistsOK, [ThreatsNext]_blocklists
      PROVE  BlocklistsOK'
  <2> USE <1>2 DEF BlocklistsOK
  <2>1. ASSUME NEW list \in ListName, NEW text \in {{}} \cup {{l} : l \in Line},
               LoadList(list, text)
        PROVE  BlocklistsOK'
    <3>1. \A k \in text : k.kind = "name" => k.name \in Name
      BY DEF Line
    <3> PICK entries : entries = {Lowered(l.name) : l \in {k \in text : k.kind = "name"}}
      OBVIOUS
    <3>2. entries \in SUBSET Seq(Label)
      BY <3>1, LoweredType, ThreatsAssumption
    <3>3. [name |-> list, entries |-> entries] \in AnyList
      BY <3>2 DEF AnyList
    <3>4. blocklists' = Append(blocklists, [name |-> list, entries |-> entries])
      BY <2>1 DEF LoadList
    <3> QED BY <1>2, <3>3, <3>4
  <2>2. ASSUME NEW i \in 1..Len(blocklists), NEW name \in Name, AddEntry(i, name)
        PROVE  BlocklistsOK'
    <3>1. Lowered(name) \in Seq(Label)
      BY LoweredType, ThreatsAssumption
    <3> PICK list, b : list = blocklists[i] /\ b = [list EXCEPT !.entries = @ \cup {Lowered(name)}]
      OBVIOUS
    <3>2. list \in AnyList
      BY <1>2
    <3>3. b = [name |-> list.name, entries |-> list.entries \cup {Lowered(name)}]
      BY <3>2 DEF AnyList
    <3>4. b \in AnyList
      BY <3>1, <3>2, <3>3 DEF AnyList
    <3>5. blocklists' = [blocklists EXCEPT ![i] = b]
      BY <2>2 DEF AddEntry
    <3> QED BY <1>2, <3>4, <3>5 DEF BlocklistsOK
  <2> QED BY <1>2, <2>1, <2>2 DEF ThreatsNext
<1> QED BY <1>1, <1>2, PTL DEF ThreatsSpec

\* What contains_parent looks up are the names of two labels or more that the
\* name lies within.
LEMMA ParentsAreSuffixes ==
  ASSUME NEW x \in Seq(Label), NEW e \in Seq(Label)
  PROVE  e \in ParentsFrom(x) <=> Len(e) >= 2 /\ Within(x, e)
<1>1. ASSUME NEW i \in 1..(Len(x) - 1), e = SubSeq(x, i, Len(x))
      PROVE  Len(e) >= 2 /\ Within(x, e)
  <2>1. i \in 1..Len(x) /\ Len(x) \in Nat
    OBVIOUS
  <2>2. Len(e) = Len(x) - i + 1 /\ \A k \in 1..Len(e) : e[k] = x[i + k - 1]
    BY <1>1, <2>1
  <2>3. \A k \in 1..Len(e) : i + k - 1 = Len(x) - Len(e) + k
    BY <2>1, <2>2
  <2> QED BY <2>1, <2>2, <2>3 DEF Within
<1>2. ASSUME Len(e) >= 2, Within(x, e)
      PROVE  \E i \in 1..(Len(x) - 1) : e = SubSeq(x, i, Len(x))
  <2> PICK i, t : i = Len(x) - Len(e) + 1 /\ t = SubSeq(x, i, Len(x))
    OBVIOUS
  <2>1. i \in 1..(Len(x) - 1) /\ Len(x) \in Nat /\ Len(e) \in Nat
    BY <1>2 DEF Within
  <2>2. t \in Seq(Label) /\ Len(t) = Len(e) /\ \A k \in 1..Len(t) : t[k] = x[i + k - 1]
    BY <2>1
  <2>3. \A k \in 1..Len(e) : i + k - 1 = Len(x) - Len(e) + k
    BY <2>1
  <2>4. \A k \in 1..Len(e) : t[k] = e[k]
    BY <1>2, <2>2, <2>3 DEF Within
  <2>5. t = e
    BY <2>2, <2>4, SameSequence
  <2> QED BY <2>1, <2>5
<1> QED BY <1>1, <1>2 DEF ParentsFrom

LEMMA WhenType ==
  ASSUME NEW S, NEW c, NEW x \in S
  PROVE  When(c, x) \in Seq(S)
BY DEF When

LEMMA EachType ==
  ASSUME NEW category \in Categories, NEW brands \in Seq(STRING), NEW level \in Levels
  PROVE  Each(category, brands, level) \in Seq(AnySign)
<1>1. \A i \in 1..Len(brands) :
         Sign(category, brands[i], level, DefaultConfidence) \in AnySign
  BY DEF Sign, AnySign, Subjects, DefaultConfidence
<1>2. DOMAIN brands = 1..Len(brands) /\ Len(brands) \in Nat
  OBVIOUS
<1> PICK f, n : n = Len(brands) /\ f = Each(category, brands, level)
  OBVIOUS
<1>3. n \in Nat /\ f = [i \in 1..n |-> f[i]] /\ \A i \in 1..n : f[i] \in AnySign
  BY <1>1, <1>2 DEF Each
<1>4. f \in Seq(AnySign)
  BY <1>3, BuiltSequence
<1> QED BY <1>4

LEMMA DomainSignsType ==
  ASSUME NEW name \in Name
  PROVE  DomainSigns(name) \in Seq(AnySign)
<1>3. /\ {"medium", "high"} \subseteq Levels
      /\ {"brand_impersonation", "typosquat"} \subseteq Categories
      /\ Sign("dga_domain", "label", "high", 70) \in AnySign
      /\ Sign("phishing", "hyphens", "medium", 60) \in AnySign
      /\ Sign("phishing", "length", "low", DefaultConfidence) \in AnySign
      /\ Sign("homoglyph", "label", "high", DefaultConfidence) \in AnySign
      /\ Sign("phishing", "tld", "low", DefaultConfidence) \in AnySign
      /\ Sign("fast_flux", "labels", "low", 40) \in AnySign
  BY DEF Levels, DefaultConfidence, Sign, AnySign, Subjects, Categories
<1>4. ASSUME NEW f \in LabelFacts
      PROVE  LabelSigns(f) \in Seq(AnySign)
  <2>1. f.contains \in Seq(STRING) /\ f.near \in Seq(STRING)
    BY DEF LabelFacts
  <2>2. /\ Each("brand_impersonation", f.contains, "high") \in Seq(AnySign)
        /\ Each("typosquat", f.near, "medium") \in Seq(AnySign)
    BY <1>3, <2>1, EachType
  <2>3. When(DgaLike(f), Sign("dga_domain", "label", "high", 70)) \in Seq(AnySign)
    BY <1>3 DEF When
  <2>4. When(f.hyphens >= 3, Sign("phishing", "hyphens", "medium", 60)) \in Seq(AnySign)
    BY <1>3 DEF When
  <2>5. When(f.length > 30, Sign("phishing", "length", "low", DefaultConfidence))
          \in Seq(AnySign)
    BY <1>3 DEF When
  <2>6. When(HasHomoglyphs(f), Sign("homoglyph", "label", "high", DefaultConfidence))
          \in Seq(AnySign)
    BY <1>3 DEF When
  <2> QED BY <2>2, <2>3, <2>4, <2>5, <2>6, Concatenated DEF LabelSigns
<1> PICK labels, n : labels = Lowered(name) /\ n = Len(labels)
  OBVIOUS
<1>5. labels \in Seq(Label) /\ n \in Nat
  BY LoweredType, ThreatsAssumption
<1>6. n >= 2 => LabelSigns(Facts[labels[n - 1]]) \in Seq(AnySign)
  <2>1. n >= 2 => labels[n - 1] \in Label
    BY <1>5
  <2> QED BY <1>4, <2>1, ThreatsAssumption
<1>7. (IF n < 2 THEN <<>> ELSE LabelSigns(Facts[labels[n - 1]])) \in Seq(AnySign)
  BY <1>5, <1>6
<1>8. /\ When(labels[n] \in SuspiciousTld, Sign("phishing", "tld", "low", DefaultConfidence))
           \in Seq(AnySign)
      /\ When(n > 4, Sign("fast_flux", "labels", "low", 40)) \in Seq(AnySign)
  BY <1>3 DEF When
<1> QED BY <1>7, <1>8 DEF DomainSigns

LEMMA WhoisSignsType ==
  ASSUME NEW private, NEW days
  PROVE  WhoisSigns(private, days) \in Seq(AnySign)
<1>1. /\ Sign("privacy_proxy", "registrar", "low", DefaultConfidence) \in AnySign
      /\ Sign("recently_registered", "age", "medium", 60) \in AnySign
      /\ Sign("recently_registered", "age", "low", 40) \in AnySign
  BY DEF Sign, AnySign, Levels, DefaultConfidence, Subjects, Categories
<1>2. /\ When(private, Sign("privacy_proxy", "registrar", "low", DefaultConfidence))
           \in Seq(AnySign)
      /\ When(days < 30, Sign("recently_registered", "age", "medium", 60)) \in Seq(AnySign)
      /\ When(days \in 30..89, Sign("recently_registered", "age", "low", 40)) \in Seq(AnySign)
  BY <1>1, WhenType
<1> QED BY <1>2 DEF WhoisSigns

LEMMA WeightsType ==
  ASSUME NEW signs \in Seq(AnySign)
  PROVE  /\ Weights(signs) \in Seq(Nat) /\ Len(Weights(signs)) = Len(signs)
         /\ \A i \in 1..Len(signs) :
              Weights(signs)[i] = LevelWeight(signs[i].level) * signs[i].confidence
<1>1. \A level \in Levels : LevelWeight(level) \in {0, 10, 25, 45, 70}
  BY DEF Levels, LevelWeight
<1>2. \A k \in {0, 10, 25, 45, 70}, c \in Nat : k * c \in Nat
  OBVIOUS
<1> PICK n : n = Len(signs)
  OBVIOUS
<1>3. n \in Nat /\ \A i \in 1..n : signs[i].level \in Levels /\ signs[i].confidence \in Nat
  <2>1. n \in Nat /\ \A i \in 1..n : signs[i] \in AnySign
    OBVIOUS
  <2> QED BY <2>1 DEF AnySign
<1>4. \A i \in 1..n : LevelWeight(signs[i].level) * signs[i].confidence \in Nat
  BY <1>1, <1>2, <1>3
<1> PICK w : w = Weights(signs)
  OBVIOUS
<1>5. /\ w = [i \in 1..n |-> w[i]] /\ \A i \in 1..n : w[i] \in Nat
      /\ \A i \in 1..n : w[i] = LevelWeight(signs[i].level) * signs[i].confidence
  BY <1>4 DEF Weights
<1>6. w \in Seq(Nat) /\ Len(w) = n
  BY <1>3, <1>5, BuiltSequence
<1> QED BY <1>5, <1>6

\* The sum over signs is that over the ones and the others.
LEMMA WeightsAdd ==
  ASSUME NEW a \in Seq(AnySign), NEW b \in Seq(AnySign)
  PROVE  /\ a \o b \in Seq(AnySign)
         /\ Total(Weights(a)) \in Nat /\ Total(Weights(b)) \in Nat
         /\ Total(Weights(a \o b)) = Total(Weights(a)) + Total(Weights(b))
<1> PICK c, m, n, u, v, w : /\ c = a \o b /\ m = Len(a) /\ n = Len(b)
                            /\ u = Weights(a) /\ v = Weights(b) /\ w = Weights(c)
  OBVIOUS
<1>1. /\ c \in Seq(AnySign) /\ m \in Nat /\ n \in Nat /\ Len(c) = m + n
      /\ \A i \in 1..m : c[i] = a[i]
      /\ \A i \in 1..n : c[m + i] = b[i]
  BY Concatenated
<1>2. /\ u \in Seq(Nat) /\ Len(u) = m /\ v \in Seq(Nat) /\ Len(v) = n
      /\ \A i \in 1..m : u[i] = LevelWeight(a[i].level) * a[i].confidence
      /\ \A i \in 1..n : v[i] = LevelWeight(b[i].level) * b[i].confidence
  BY WeightsType
<1>3. /\ w \in Seq(Nat) /\ Len(w) = m + n
      /\ \A i \in 1..(m + n) : w[i] = LevelWeight(c[i].level) * c[i].confidence
  BY <1>1, WeightsType
<1>7. PICK t : t = u \o v
  OBVIOUS
<1>8. u \in Seq(Nat) /\ v \in Seq(Nat)
  BY <1>2
<1>9. /\ t \in Seq(Nat) /\ Len(t) = Len(u) + Len(v)
      /\ \A i \in 1..Len(u) : t[i] = u[i]
      /\ \A i \in 1..Len(v) : t[Len(u) + i] = v[i]
  BY ONLY <1>7, <1>8, Concatenated
<1>4. /\ t \in Seq(Nat) /\ Len(t) = m + n
      /\ \A i \in 1..m : t[i] = u[i]
      /\ \A i \in 1..n : t[m + i] = v[i]
  BY ONLY <1>2, <1>9
<1>5. ASSUME NEW i \in 1..(m + n)
      PROVE  w[i] = t[i]
  <2>1. CASE i <= m
    <3>1. i \in 1..m
      BY <1>1, <2>1
    <3> QED BY <1>1, <1>2, <1>3, <1>4, <3>1
  <2>2. CASE i > m
    <3> PICK k : k = i - m
      OBVIOUS
    <3>1. k \in 1..n /\ i = m + k
      BY <1>1, <2>2
    <3>2. c[i] = b[k] /\ t[i] = v[k]
      BY <1>1, <1>4, <3>1
    <3> QED BY <1>2, <1>3, <3>1, <3>2
  <2>3. m \in Nat /\ n \in Nat
    BY <1>1
  <2>4. i <= m \/ i > m
    BY ONLY <2>3
  <2> QED BY ONLY <2>1, <2>2, <2>4
<1>10. Len(w) = Len(t) /\ \A i \in 1..Len(w) : w[i] = t[i]
  BY ONLY <1>3, <1>4, <1>5
<1>11. w \in Seq(Nat) /\ t \in Seq(Nat)
  BY ONLY <1>3, <1>4
<1>6. w = t
  BY ONLY <1>10, <1>11, SameSequence
<1> QED BY <1>1, <1>2, <1>6, <1>7, TotalConcat

\* Numbers that are all 4275 come to that many times as much as they are.
LEMMA TotalOfHits ==
  ASSUME NEW w \in Seq(Nat), \A i \in 1..Len(w) : w[i] = 4275
  PROVE  Total(w) = 4275 * Len(w)
<1> PICK n, f : n = Len(w) /\ f = Totals(w)
  OBVIOUS
<1> DEFINE T == {k \in Nat : k <= n => f[k] = 4275 * k}
<1>1. n \in Nat /\ f[0] = 0 /\ \A i \in 1..n : f[i] = f[i - 1] + 4275
  BY TotalsStep
<1>2. 0 \in T
  BY <1>1
<1>3. ASSUME NEW k \in Nat, k \in T
      PROVE  k + 1 \in T
  <2>1. k + 1 <= n => k + 1 \in 1..n /\ (k + 1) - 1 = k
    BY <1>1
  <2>2. k + 1 <= n => f[k + 1] = f[k] + 4275
    BY <1>1, <2>1
  <2> QED BY <1>1, <1>3, <2>2
<1>4. Nat \subseteq T
  <2> HIDE DEF T
  <2> QED BY ONLY <1>2, <1>3, NatSetInduction
<1>5. f[n] = 4275 * n
  BY <1>1, <1>4
<1> QED BY <1>5 DEF Total

\* Each list that names the domain adds 42.75 points.
LEMMA ListsWeigh ==
  ASSUME NEW lists \in Seq(AnyList), NEW name \in Name, NEW private, NEW days
  PROVE  /\ Len(Sift(lists, Matched(lists, name))) \in Nat
         /\ Total(Weights(DomainSigns(name) \o WhoisSigns(private, days)
                            \o ListSigns(lists, name))) \in Nat
         /\ Total(Weights(DomainSigns(name) \o WhoisSigns(private, days)
                            \o ListSigns(lists, name)))
              >= 4275 * Len(Sift(lists, Matched(lists, name)))
<1> PICK hits, n, signs, d, u : /\ hits = Sift(lists, Matched(lists, name))
                                /\ n = Len(hits) /\ signs = ListSigns(lists, name)
                                /\ d = DomainSigns(name) /\ u = WhoisSigns(private, days)
  OBVIOUS
<1>1. hits \in Seq(AnyList) /\ n \in Nat
  BY SiftType
<1>2. \A i \in 1..n : hits[i].name \in ListName
  <2>1. \A i \in 1..n : hits[i] \in AnyList
    BY <1>1
  <2> QED BY <2>1 DEF AnyList
<1>3. signs = [i \in 1..n |-> Sign("blocklist_match", hits[i].name, "high", 95)]
  BY DEF ListSigns
<1>4. /\ \A i \in 1..n : signs[i] \in AnySign /\ signs[i].level = "high"
                         /\ signs[i].confidence = 95
      /\ signs = [i \in 1..n |-> signs[i]]
  BY <1>2, <1>3 DEF Sign, AnySign, Levels, Subjects, Categories
<1>5. signs \in Seq(AnySign) /\ Len(signs) = n
  BY <1>1, <1>4, BuiltSequence
<1>6. LevelWeight("high") = 45
  BY DEF LevelWeight
<1> PICK w : w = Weights(signs)
  OBVIOUS
<1>12. /\ w \in Seq(Nat) /\ Len(w) = n
       /\ \A i \in 1..n : w[i] = LevelWeight(signs[i].level) * signs[i].confidence
  BY <1>5, WeightsType
<1>13. \A i \in 1..n : w[i] = 45 * 95
  BY ONLY <1>4, <1>6, <1>12
<1>7. w \in Seq(Nat) /\ Len(w) = n /\ \A i \in 1..n : w[i] = 4275
  BY ONLY <1>12, <1>13
<1>8. Total(w) = 4275 * n
  BY <1>7, TotalOfHits
<1>9. d \in Seq(AnySign) /\ u \in Seq(AnySign)
  BY DomainSignsType, WhoisSignsType
<1>10. d \o u \in Seq(AnySign) /\ Total(Weights(d \o u)) \in Nat
  BY <1>9, WeightsAdd
<1>11. Total(Weights((d \o u) \o signs)) = Total(Weights(d \o u)) + Total(w)
  BY <1>5, <1>10, WeightsAdd
<1> QED BY <1>1, <1>8, <1>10, <1>11

\* The names of a list are those in it and those that lie within two labels or
\* more that are.
LEMMA MatchedAreNaming ==
  ASSUME NEW lists \in Seq(AnyList), NEW name \in Name
  PROVE  Matched(lists, name) =
           {i \in 1..Len(lists) :
              \E e \in lists[i].entries :
                 \/ e = Lowered(name)
                 \/ Len(e) >= 2 /\ Within(Lowered(name), e)}
<1> PICK x : x = Lowered(name)
  OBVIOUS
<1>1. x \in Seq(Label)
  BY LoweredType, ThreatsAssumption
<1>2. ASSUME NEW i \in 1..Len(lists)
      PROVE  NamesIt(lists[i].entries, name) \/ NamesParent(lists[i].entries, name)
               <=> \E e \in lists[i].entries : \/ e = x
                                               \/ Len(e) >= 2 /\ Within(x, e)
  <2> PICK entries : entries = lists[i].entries
    OBVIOUS
  <2>1. entries \subseteq Seq(Label)
    <3>1. lists[i] \in AnyList
      OBVIOUS
    <3> QED BY <3>1 DEF AnyList
  <2>2. \A e \in entries : e \in ParentsFrom(x) <=> Len(e) >= 2 /\ Within(x, e)
    BY <1>1, <2>1, ParentsAreSuffixes
  <2> QED BY <2>2 DEF NamesIt, NamesParent
<1> QED BY <1>2 DEF Matched

LEMMA RiskOfTotal ==
  ASSUME NEW t \in Nat, NEW score, score = t \div 100
  PROVE  /\ t >= 4275 => ScoreToLevel(IF score < 100 THEN score ELSE 100)
                           \in {"medium", "high", "critical"}
         /\ t >= 8550 => ScoreToLevel(IF score < 100 THEN score ELSE 100) = "critical"
<1> PICK s : s = IF score < 100 THEN score ELSE 100
  OBVIOUS
<1>1. s \in Nat /\ (t >= 4275 => s >= 42) /\ (t >= 8550 => s >= 85)
  OBVIOUS
<1>2. s >= 42 => s \notin 0..10 /\ s \notin 11..30
  BY <1>1
<1>3. s >= 85 => s \notin 31..55 /\ s \notin 56..80
  BY <1>1
<1> QED BY <1>1, <1>2, <1>3 DEF ScoreToLevel

\* One list that names a domain makes its risk medium or worse, two critical.
LEMMA MatchesWeigh ==
  ASSUME NEW lists \in Seq(AnyList), NEW name \in Name, NEW private, NEW days
  PROVE  /\ Matched(lists, name) # {} =>
              RiskLevel(lists, name, private, days) \in {"medium", "high", "critical"}
         /\ (\E i, j \in Matched(lists, name) : i # j) =>
              RiskLevel(lists, name, private, days) = "critical"
<1> PICK M, hits, n : M = Matched(lists, name) /\ hits = Sift(lists, M) /\ n = Len(hits)
  OBVIOUS
<1>1. M \subseteq 1..Len(lists)
  BY DEF Matched
<1>2. PICK at \in [1..n -> 1..Len(lists)] :
         \A i \in 1..Len(lists) : i \in M => \E k \in 1..n : at[k] = i
  BY SiftPlaces
<1>3. n \in Nat
  BY ListsWeigh
<1>4. M # {} => n >= 1
  <2>1. ASSUME NEW i \in M PROVE n >= 1
    <3>1. PICK k \in 1..n : at[k] = i
      BY <1>1, <1>2
    <3> QED BY <1>3, <3>1
  <2> QED BY <2>1
<1>5. (\E i, j \in M : i # j) => n >= 2
  <2>1. ASSUME NEW i \in M, NEW j \in M, i # j PROVE n >= 2
    <3>1. PICK k \in 1..n : at[k] = i
      BY <1>1, <1>2
    <3>2. PICK m \in 1..n : at[m] = j
      BY <1>1, <1>2
    <3>3. k # m
      BY <2>1, <3>1, <3>2
    <3> QED BY <1>3, <3>3
  <2> QED BY <2>1
<1>6. /\ n >= 1 => RiskLevel(lists, name, private, days) \in {"medium", "high", "critical"}
      /\ n >= 2 => RiskLevel(lists, name, private, days) = "critical"
  <2> PICK t : t = Total(Weights(DomainSigns(name) \o WhoisSigns(private, days)
                                   \o ListSigns(lists, name)))
    OBVIOUS
  <2>1. t \in Nat /\ t >= 4275 * n
    BY ListsWeigh
  <2>2. (n >= 1 => t >= 4275) /\ (n >= 2 => t >= 8550)
    BY <1>3, <2>1
  <2>3. RiskLevel(lists, name, private, days) =
          ScoreToLevel(IF t \div 100 < 100 THEN t \div 100 ELSE 100)
    BY DEF RiskLevel, ComputeScore
  <2> QED BY <2>1, <2>2, <2>3, RiskOfTotal
<1> QED BY <1>4, <1>5, <1>6

\* A list that names a domain is found for each of its subdomains and weighs on
\* the risk whatever else is known, for any lists, names and labels.
THEOREM SubdomainsAlwaysReached == ThreatsSpec => []ListsReachSubdomains
<1>1. ASSUME BlocklistsOK
      PROVE  ListsReachSubdomains
  <2>1. blocklists \in Seq(AnyList)
    BY <1>1 DEF BlocklistsOK
  <2>2. ASSUME NEW name \in Name
        PROVE  Matched(blocklists, name) =
                 {i \in 1..Len(blocklists) :
                    \E e \in blocklists[i].entries :
                      \/ e = Lowered(name)
                      \/ Len(e) >= 2 /\ Within(Lowered(name), e)}
    BY <2>1, MatchedAreNaming
  <2>3. ASSUME NEW name \in Name, NEW private, NEW days
        PROVE  /\ Matched(blocklists, name) # {} =>
                    RiskLevel(blocklists, name, private, days) \in {"medium", "high", "critical"}
               /\ (\E i, j \in Matched(blocklists, name) : i # j) =>
                    RiskLevel(blocklists, name, private, days) = "critical"
    BY <2>1, MatchesWeigh
  <2> QED BY ONLY <2>2, <2>3, Zenon DEF ListsReachSubdomains
<1> QED BY <1>1, BlocklistsWellFormed, PTL

-----------------------------------------------------------------------------
(* The word list editor.                                                  *)

LEMMA RewriteType ==
  ASSUME NEW op \in RewriteOps, NEW s \in Seq(Text)
  PROVE  /\ RewriteLines(op, s) \in Seq(Text) /\ Len(RewriteLines(op, s)) = Len(s)
         /\ \A i \in 1..Len(s) : RewriteLines(op, s)[i] = Rewrite[op][s[i]]
<1>0. PICK f : f = RewriteLines(op, s)
  OBVIOUS
<1>1. Len(s) \in Nat /\ f = [i \in 1..Len(s) |-> Rewrite[op][s[i]]]
  BY <1>0 DEF RewriteLines
<1>2. \A i \in 1..Len(s) : Rewrite[op][s[i]] \in Text
  BY WordListAssumption
<1> QED BY <1>0, <1>1, <1>2

\* How many lines are smaller and greater.
LEMMA CountsType ==
  ASSUME NEW s \in Seq(Text), NEW l
  PROVE  Smaller(s, l) \in Nat /\ Greater(s, l) \in Nat
<1>1. IsFiniteSet(DOMAIN s)
  <2>1. DOMAIN s = 1..Len(s) /\ 1 \in Int /\ Len(s) \in Int
    OBVIOUS
  <2> QED BY <2>1, FS_Interval
<1>2. \A T \in SUBSET DOMAIN s : Cardinality(T) \in Nat
  BY <1>1, FS_Subset, FS_CardinalityType
<1> QED BY <1>2 DEF Smaller, Greater

\* There is a line for every place of a sort.
LEMMA LineForPlace ==
  ASSUME NEW s \in Seq(Text), NEW k \in 1..Len(s)
  PROVE  \E l \in Items(s) : Smaller(s, l) < k /\ k <= Len(s) - Greater(s, l)
<1> DEFINE n == Len(s)
           C(m) == {i \in 1..n : Rank[s[i]] <= m}
<1>1. n \in Nat /\ DOMAIN s = 1..n /\ \A i \in 1..n : Rank[s[i]] \in Nat
  BY WordListAssumption
<1>2. \E M \in Nat : \A i \in 1..n : Rank[s[i]] <= M
  <2> DEFINE T == {j \in Nat : j <= n => \E M \in Nat : \A i \in 1..j : Rank[s[i]] <= M}
  <2>1. 0 \in T
    OBVIOUS
  <2>2. ASSUME NEW j \in Nat, j \in T PROVE j + 1 \in T
    <3> SUFFICES ASSUME j + 1 <= n
                 PROVE  \E M \in Nat : \A i \in 1..(j + 1) : Rank[s[i]] <= M
      OBVIOUS
    <3>1. PICK M \in Nat : \A i \in 1..j : Rank[s[i]] <= M
      BY <1>1, <2>2
    <3>2. PICK r : r = Rank[s[j + 1]]
      OBVIOUS
    <3>3. r \in Nat /\ M + r \in Nat
      BY <1>1, <3>2
    <3>4. ASSUME NEW i \in 1..(j + 1) PROVE Rank[s[i]] <= M + r
      <4>1. CASE i = j + 1
        BY <3>2, <3>3, <4>1
      <4>2. CASE i # j + 1
        <5>1. i \in 1..j /\ i \in 1..n
          BY <1>1, <4>2
        <5>2. Rank[s[i]] \in Nat /\ Rank[s[i]] <= M
          BY <1>1, <3>1, <5>1
        <5> QED BY <3>3, <5>2
      <4> QED BY <4>1, <4>2
    <3> QED BY <3>3, <3>4
  <2>3. n \in T
    <3> HIDE DEF T
    <3> QED BY <1>1, <2>1, <2>2, NatSetInduction
  <2> QED BY <1>1, <2>3
<1>3. IsFiniteSet(1..n) /\ Cardinality(1..n) = n
  <2>1. 1 \in Int /\ n \in Int /\ (IF 1 > n THEN 0 ELSE n - 1 + 1) = n
    BY <1>1
  <2> QED BY <2>1, FS_Interval
<1>4. \A T \in SUBSET (1..n) : Cardinality(T) \in Nat
  BY <1>3, FS_Subset, FS_CardinalityType
<1>5. PICK m \in Nat : /\ Cardinality(C(m)) >= k
                       /\ \A j \in Nat : Cardinality(C(j)) >= k => m <= j
  <2> DEFINE R == {m \in Nat : Cardinality(C(m)) >= k}
  <2>1. PICK M \in Nat : \A i \in 1..n : Rank[s[i]] <= M
    BY <1>2
  <2>2. C(M) = 1..n
    BY <2>1
  <2>3. M \in R
    <3>1. Cardinality(C(M)) = n
      <4> HIDE DEF C
      <4> QED BY <1>3, <2>2
    <3> HIDE DEF C
    <3> QED BY <1>1, <3>1
  <2>4. R \subseteq Nat /\ R # {}
    BY <2>3
  <2>5. PICK m \in R : \A j \in R : m <= j
    <3> HIDE DEF R
    <3> QED BY <2>4, LeastNumber
  <2> QED BY <2>5
<1>6. {} \in SUBSET (1..n) /\ Cardinality({}) = 0
  BY FS_EmptySet
<1>0. PICK B : B = {i \in 1..n : Rank[s[i]] < m}
  OBVIOUS
<1>7. B = IF m = 0 THEN {} ELSE C(m - 1)
  BY <1>0, <1>1
<1>8. Cardinality(B) < k
  <2>1. CASE m = 0
    <3>1. Cardinality(B) = 0
      BY <1>6, <1>7, <2>1
    <3> QED BY <3>1
  <2>2. CASE m # 0
    <3>1. m - 1 \in Nat /\ ~ m <= m - 1
      BY <2>2
    <3>2. ~ Cardinality(C(m - 1)) >= k
      BY <1>5, <3>1
    <3>3. C(m - 1) \in SUBSET (1..n)
      OBVIOUS
    <3>4. Cardinality(C(m - 1)) \in Nat
      BY <1>4, <3>3
    <3>5. B = C(m - 1)
      BY <1>7, <2>2
    <3> HIDE DEF C
    <3> QED BY <1>1, <3>2, <3>4, <3>5
  <2> QED BY <2>1, <2>2
<1>9. PICK i \in 1..n : Rank[s[i]] = m
  <2>1. ASSUME \A i \in 1..n : Rank[s[i]] # m PROVE FALSE
    <3>1. C(m) = B
      BY <1>0, <1>1, <2>1
    <3>2. C(m) \in SUBSET (1..n)
      OBVIOUS
    <3>3. Cardinality(C(m)) \in Nat
      BY <1>4, <3>2
    <3> HIDE DEF C
    <3> QED BY <1>1, <1>5, <1>8, <3>1, <3>3
  <2> QED BY <2>1
<1>10. Smaller(s, s[i]) = Cardinality(B)
  BY <1>0, <1>1, <1>9 DEF Smaller
<1>11. Greater(s, s[i]) = n - Cardinality(C(m))
  <2>1. PICK A : A = C(m)
    OBVIOUS
  <2>2. {j \in DOMAIN s : Rank[s[j]] > Rank[s[i]]} = (1..n) \ A
    BY <1>1, <1>9, <2>1
  <2>3. (1..n) \cap A = A
    BY <2>1
  <2>4. Cardinality((1..n) \ A) = Cardinality(1..n) - Cardinality((1..n) \cap A)
    BY <1>3, FS_Difference
  <2> QED BY <1>3, <2>1, <2>2, <2>3, <2>4 DEF Greater
<1>12. s[i] \in Items(s)
  BY <1>1 DEF Items
<1>13. n - (n - Cardinality(C(m))) = Cardinality(C(m))
  <2>1. C(m) \in SUBSET (1..n)
    OBVIOUS
  <2>2. Cardinality(C(m)) \in Nat
    BY <1>4, <2>1
  <2> QED BY <1>1, <2>2
<1> QED BY <1>5, <1>8, <1>10, <1>11, <1>12, <1>13

\* The lines of a sort are those of the list.
LEMMA SortType ==
  ASSUME NEW s \in Seq(Text)
  PROVE  /\ SortLines(s) \in Seq(Text) /\ Len(SortLines(s)) = Len(s)
         /\ SortLinesReverse(s) \in Seq(Text)
<1> DEFINE at(k) == {l \in Items(s) : Smaller(s, l) < k /\ k <= Len(s) - Greater(s, l)}
<1>1. PICK n, f, g : n = Len(s) /\ f = SortLines(s) /\ g = SortLinesReverse(s)
  OBVIOUS
<1>2. n \in Nat /\ DOMAIN s = 1..n /\ \A l \in Items(s) : l \in Text
  BY <1>1 DEF Items
<1>3. f = [k \in 1..n |-> CHOOSE l \in at(k) : TRUE]
  BY <1>1, <1>2 DEF SortLines
<1>4. ASSUME NEW k \in 1..n PROVE f[k] \in Text
  <2>1. at(k) # {}
    BY <1>1, LineForPlace
  <2>2. PICK l : l = CHOOSE m \in at(k) : TRUE
    OBVIOUS
  <2>3. l \in at(k)
    <3> HIDE DEF at
    <3> QED BY <2>1, <2>2
  <2>4. f[k] = l
    BY <1>3, <2>2
  <2> QED BY <1>2, <2>3, <2>4
<1>5. g = [k \in 1..n |-> f[n + 1 - k]] /\ \A k \in 1..n : n + 1 - k \in 1..n
  BY <1>1, <1>2 DEF SortLinesReverse
<1>6. f \in Seq(Text) /\ Len(f) = n
  <2>1. f = [k \in 1..n |-> f[k]]
    BY <1>3
  <2> QED BY ONLY <1>2, <1>4, <2>1, BuiltSequence
<1>7. g \in Seq(Text)
  <2>1. g = [k \in 1..n |-> g[k]] /\ \A k \in 1..n : g[k] \in Text
    BY <1>4, <1>5
  <2> QED BY ONLY <1>2, <2>1, BuiltSequence
<1> QED BY <1>1, <1>6, <1>7

\* A sort read backwards is a sort the other way round.
LEMMA SortsAgree ==
  ASSUME NEW s \in Seq(Text)
  PROVE  SortLinesReverse(s) = SortDescending(s)
<1> DEFINE up(k) == {l \in Items(s) : Smaller(s, l) < k /\ k <= Len(s) - Greater(s, l)}
           down(k) == {l \in Items(s) : Greater(s, l) < k /\ k <= Len(s) - Smaller(s, l)}
<1>1. PICK n : n = Len(s)
  OBVIOUS
<1>2. n \in Nat /\ DOMAIN s = 1..n
  BY <1>1
<1>3. ASSUME NEW k \in 1..n PROVE n + 1 - k \in 1..n /\ up(n + 1 - k) = down(k)
  <2>1. ASSUME NEW l
        PROVE  /\ Smaller(s, l) < n + 1 - k <=> k <= n - Smaller(s, l)
               /\ n + 1 - k <= n - Greater(s, l) <=> Greater(s, l) < k
    <3>1. PICK a \in Nat, b \in Nat : a = Smaller(s, l) /\ b = Greater(s, l)
      BY CountsType
    <3>2. (a < n + 1 - k <=> k <= n - a) /\ (n + 1 - k <= n - b <=> b < k)
      BY <1>2
    <3> QED BY <3>1, <3>2
  <2> QED BY <1>1, <1>2, <2>1
<1>4. SortLines(s) = [k \in 1..n |-> CHOOSE l \in up(k) : TRUE]
  BY <1>1, <1>2 DEF SortLines
<1>5. SortDescending(s) = [k \in 1..n |-> CHOOSE l \in down(k) : TRUE]
  BY <1>1, <1>2 DEF SortDescending
<1>6. SortLinesReverse(s) = [k \in 1..n |-> SortLines(s)[n + 1 - k]]
  BY <1>1, <1>2 DEF SortLinesReverse
<1>7. ASSUME NEW k \in 1..n PROVE SortLines(s)[n + 1 - k] = SortDescending(s)[k]
  <2>1. PICK j : j = n + 1 - k
    OBVIOUS
  <2>2. j \in 1..n /\ up(j) = down(k)
    BY <1>3, <2>1
  <2>3. SortLines(s)[j] = CHOOSE l \in up(j) : TRUE
    <3> HIDE DEF up
    <3> QED BY <1>4, <2>2
  <2>4. SortDescending(s)[k] = CHOOSE l \in down(k) : TRUE
    <3> HIDE DEF down
    <3> QED BY <1>5
  <2> HIDE DEF up, down
  <2> QED BY <2>1, <2>2, <2>3, <2>4
<1>8. SortDescending(s) = [k \in 1..n |-> SortDescending(s)[k]]
  BY <1>5
<1> QED BY <1>6, <1>7, <1>8

LEMMA ShuffleType ==
  ASSUME NEW s \in Seq(Text), NEW t \in Shuffles(s)
  PROVE  t \in Seq(Text)
<1>1. PICK p \in [DOMAIN s -> DOMAIN s] : t = [i \in DOMAIN s |-> s[p[i]]]
  BY DEF Shuffles
<1>2. Len(s) \in Nat /\ DOMAIN s = 1..Len(s)
  OBVIOUS
<1>3. \A i \in 1..Len(s) : t[i] \in Text
  BY <1>1, <1>2
<1>4. t = [i \in 1..Len(s) |-> t[i]]
  BY <1>1, <1>2
<1> QED BY ONLY <1>2, <1>3, <1>4, BuiltSequence

Chosen(steps, step, op, s) == IF step \in steps THEN RewriteLines(op, s) ELSE s

\* A step that is chosen rewrites every line, one that is not none.
LEMMA ChosenStep ==
  ASSUME NEW op \in RewriteOps, NEW s \in Seq(Text), NEW steps, NEW step
  PROVE  /\ Chosen(steps, step, op, s) \in Seq(Text) /\ Len(Chosen(steps, step, op, s)) = Len(s)
         /\ \A i \in 1..Len(s) :
              Chosen(steps, step, op, s)[i] = IF step \in steps THEN Rewrite[op][s[i]] ELSE s[i]
BY RewriteType DEF Chosen

FullOnes(steps, s) == IF "blank" \in steps THEN DeleteBlankLines(s) ELSE s
OfEqual(steps, s) == IF "dedupe" \in steps THEN DedupeLines(s) ELSE s

\* What is left of the lines rewritten, whichever way they are gone through.
LEMMA KeptAlike ==
  ASSUME NEW c \in Seq(Text), NEW steps
  PROVE  /\ OfEqual(steps, FullOnes(steps, c)) \in Seq(Text)
         /\ OfEqual(steps, FullOnes(steps, c)) = Sift(c, {i \in DOMAIN c :
                              /\ "blank" \in steps => c[i] \notin Blank
                              /\ "dedupe" \in steps => \A j \in 1..(i - 1) : c[j] # c[i]})
<1>0. PICK full, kept :
        /\ full = IF "blank" \in steps THEN DeleteBlankLines(c) ELSE c
        /\ kept = IF "dedupe" \in steps THEN DedupeLines(full) ELSE full
        /\ kept = OfEqual(steps, FullOnes(steps, c))
  BY DEF OfEqual, FullOnes
<1>1. PICK P : P = {i \in DOMAIN c : "blank" \in steps => c[i] \notin Blank}
  OBVIOUS
<1>2. full = Sift(c, P)
  <2>1. CASE "blank" \in steps
    <3>1. P = {i \in DOMAIN c : c[i] \notin Blank}
      BY <1>1, <2>1
    <3> QED BY <1>0, <2>1, <3>1 DEF DeleteBlankLines
  <2>2. CASE "blank" \notin steps
    <3>1. \A i \in 1..Len(c) : i \in P
      BY <1>1, <2>2
    <3>2. Sift(c, P) = c
      BY <3>1, SiftAll
    <3> QED BY <1>0, <2>2, <3>2
  <2> QED BY <2>1, <2>2
<1>3. full \in Seq(Text)
  BY <1>2, SiftType
<1>4. CASE "dedupe" \in steps
  <2>1. \A i, j \in DOMAIN c : c[i] = c[j] => (i \in P <=> j \in P)
    BY <1>1
  <2>2. Sift(full, FirstPlaces(full)) = Sift(c, P \cap FirstPlaces(c))
    BY <1>2, <2>1, FirstOfSifted
  <2>3. P \cap FirstPlaces(c) = {i \in DOMAIN c :
                                   /\ "blank" \in steps => c[i] \notin Blank
                                   /\ "dedupe" \in steps => \A j \in 1..(i - 1) : c[j] # c[i]}
    BY <1>1, <1>4 DEF FirstPlaces
  <2>4. kept = Sift(full, FirstPlaces(full))
    BY <1>0, <1>4 DEF DedupeLines
  <2>5. kept \in Seq(Text)
    BY <1>3, <2>4, SiftType
  <2> QED BY <1>0, <2>2, <2>3, <2>4, <2>5
<1>5. CASE "dedupe" \notin steps
  <2>1. P = {i \in DOMAIN c : /\ "blank" \in steps => c[i] \notin Blank
                              /\ "dedupe" \in steps => \A j \in 1..(i - 1) : c[j] # c[i]}
    BY <1>1, <1>5
  <2> QED BY <1>0, <1>2, <1>3, <1>5, <2>1
<1> QED BY <1>4, <1>5

LEMMA ProcessorsAlike ==
  ASSUME NEW s \in Seq(Text), NEW o \in Options
  PROVE  /\ \A t \in ToProcess(s, o) : t \in Seq(Text)
         /\ "affix" \notin o.steps => ToProcess(s, o) = ProcessLines(s, o)
<1>0. PICK steps : steps = o.steps
  OBVIOUS
<1>1. PICK a, b, c, full, kept :
        /\ a = Chosen(steps, "prefix", "add_prefix", s)
        /\ b = Chosen(steps, "suffix", "add_suffix", a)
        /\ c = Chosen(steps, "trim", "trim_spaces", b)
        /\ full = FullOnes(steps, c) /\ kept = OfEqual(steps, full)
  OBVIOUS
<1>3. "add_prefix" \in RewriteOps /\ "add_suffix" \in RewriteOps /\ "trim_spaces" \in RewriteOps
  BY DEF RewriteOps, AffixOps, CleanOps
<1>4. /\ a \in Seq(Text) /\ Len(a) = Len(s)
      /\ \A i \in 1..Len(s) :
           a[i] = IF "prefix" \in steps THEN Rewrite["add_prefix"][s[i]] ELSE s[i]
  BY <1>1, <1>3, ChosenStep
<1>5. /\ b \in Seq(Text) /\ Len(b) = Len(a)
      /\ \A i \in 1..Len(a) :
           b[i] = IF "suffix" \in steps THEN Rewrite["add_suffix"][a[i]] ELSE a[i]
  BY <1>1, <1>3, <1>4, ChosenStep
<1>6. /\ c \in Seq(Text) /\ Len(c) = Len(b)
      /\ \A i \in 1..Len(b) :
           c[i] = IF "trim" \in steps THEN Rewrite["trim_spaces"][b[i]] ELSE b[i]
  BY <1>1, <1>3, <1>5, ChosenStep
<1>7. PICK fixed :
        fixed = [i \in DOMAIN s |->
                  LET p == IF "prefix" \in o.steps THEN Rewrite["add_prefix"][s[i]] ELSE s[i]
                      q == IF "suffix" \in o.steps THEN Rewrite["add_suffix"][p] ELSE p
                  IN IF "trim" \in o.steps THEN Rewrite["trim_spaces"][q] ELSE q]
  OBVIOUS
<1>8. fixed = c
  <2>1. DOMAIN s = 1..Len(s) /\ DOMAIN c = 1..Len(s) /\ c = [i \in 1..Len(s) |-> c[i]]
    BY <1>4, <1>5, <1>6
  <2>2. ASSUME NEW i \in 1..Len(s) PROVE fixed[i] = c[i]
    <3>1. fixed[i] =
            LET p == IF "prefix" \in steps THEN Rewrite["add_prefix"][s[i]] ELSE s[i]
                q == IF "suffix" \in steps THEN Rewrite["add_suffix"][p] ELSE p
            IN IF "trim" \in steps THEN Rewrite["trim_spaces"][q] ELSE q
      BY <1>0, <1>7, <2>1
    <3>2. b[i] = IF "suffix" \in steps THEN Rewrite["add_suffix"][a[i]] ELSE a[i]
      BY <1>4, <1>5
    <3>3. c[i] = IF "trim" \in steps THEN Rewrite["trim_spaces"][b[i]] ELSE b[i]
      BY <1>4, <1>5, <1>6
    <3>4. a[i] = IF "prefix" \in steps THEN Rewrite["add_prefix"][s[i]] ELSE s[i]
      BY <1>4
    <3>5. fixed[i] = IF "trim" \in steps THEN Rewrite["trim_spaces"][b[i]] ELSE b[i]
      BY ONLY <3>1, <3>2, <3>4
    <3> QED BY <3>3, <3>5
  <2> QED BY <1>7, <2>1, <2>2
<1>9. kept \in Seq(Text)
      /\ kept = Sift(c, {i \in DOMAIN c :
                           /\ "blank" \in steps => c[i] \notin Blank
                           /\ "dedupe" \in steps => \A j \in 1..(i - 1) : c[j] # c[i]})
  BY <1>1, <1>6, KeptAlike
<1>10. DOMAIN s = DOMAIN c
  BY <1>4, <1>5, <1>6
<1>11. Sift(fixed, {i \in DOMAIN s :
                      /\ "blank" \in o.steps => fixed[i] \notin Blank
                      /\ "dedupe" \in o.steps => \A j \in 1..(i - 1) : fixed[j] # fixed[i]})
         = kept
  BY <1>0, <1>8, <1>9, <1>10
<1>12. ToProcess(s, o) = CASE o.sort = "asc" -> {SortLines(kept)}
                           [] o.sort = "desc" -> {SortDescending(kept)}
                           [] o.sort = "random" -> Shuffles(kept)
                           [] OTHER -> {kept}
  BY <1>7, <1>11 DEF ToProcess
<1>13. "affix" \notin o.steps =>
         ProcessLines(s, o) = CASE o.sort = "asc" -> {SortLines(kept)}
                                [] o.sort = "desc" -> {SortLinesReverse(kept)}
                                [] o.sort = "random" -> Shuffles(kept)
                                [] OTHER -> {kept}
  <2> SUFFICES ASSUME "affix" \notin o.steps
               PROVE  ProcessLines(s, o) = CASE o.sort = "asc" -> {SortLines(kept)}
                                             [] o.sort = "desc" -> {SortLinesReverse(kept)}
                                             [] o.sort = "random" -> Shuffles(kept)
                                             [] OTHER -> {kept}
    OBVIOUS
  <2> QED BY <1>0, <1>1 DEF ProcessLines, Chosen, FullOnes, OfEqual
<1>14. SortLinesReverse(kept) = SortDescending(kept)
  BY <1>9, SortsAgree
<1>15. \A t \in ToProcess(s, o) : t \in Seq(Text)
  <2>1. SortLines(kept) \in Seq(Text) /\ SortDescending(kept) \in Seq(Text)
    BY <1>9, <1>14, SortType
  <2>2. \A t \in Shuffles(kept) : t \in Seq(Text)
    BY <1>9, ShuffleType
  <2>3. o.sort \in {"asc", "desc", "random", "none"}
    BY WordListAssumption
  <2>4. CASE o.sort = "asc"
    BY <1>12, <2>1, <2>4
  <2>5. CASE o.sort = "desc"
    BY <1>12, <2>1, <2>5
  <2>6. CASE o.sort = "random"
    BY <1>12, <2>2, <2>6
  <2>7. CASE o.sort = "none"
    BY <1>9, <1>12, <2>7
  <2> QED BY <2>3, <2>4, <2>5, <2>6, <2>7
<1> QED BY <1>12, <1>13, <1>14, <1>15

-----------------------------------------------------------------------------
(* The combinations of a generator.                                       *)

\* As many elements as places, where no two are equal.
LEMMA OnceCounted ==
  ASSUME NEW S, NEW q \in Seq(S), \A k, m \in 1..Len(q) : q[k] = q[m] => k = m
  PROVE  Cardinality(Items(q)) = Len(q)
<1>1. PICK n, f, T : n = Len(q) /\ f = [k \in 1..n |-> q[k]] /\ T = Items(q)
  OBVIOUS
<1>2. n \in Nat /\ DOMAIN q = 1..n
  BY <1>1
<1>3. f \in [1..n -> T] /\ \A k \in 1..n : f[k] = q[k]
  BY <1>1, <1>2 DEF Items
<1>4. \A k, m \in 1..n : f[k] = f[m] => k = m
  BY <1>1, <1>3
<1>5. \A x \in T : \E k \in 1..n : f[k] = x
  BY <1>1, <1>2, <1>3 DEF Items
<1>6. f \in Bijection(1..n, T)
  BY <1>3, <1>4, <1>5 DEF Bijection, Injection, Surjection, IsInjective
<1>7. ExistsBijection(1..n, T)
  BY <1>6 DEF ExistsBijection
<1>8. Cardinality(T) = n
  <2>1. IsFiniteSet(1..n) /\ Cardinality(1..n) = n
    <3>1. n = n - 1 + 1 /\ 1 \in Int /\ n \in Int
      BY <1>2
    <3> QED BY <1>2, <3>1, FS_Interval
  <2> QED BY <1>7, <2>1, FS_Bijection
<1> QED BY <1>1, <1>8

\* Two parts with the separator between them are a label of two tokens or more.
LEMMA PartedType ==
  ASSUME NEW c \in CombinatorConfigs, NEW t \in Token, NEW u \in Token
  PROVE  /\ Parted(c, t, u) \in Seq(Token) /\ Len(Parted(c, t, u)) >= 2
         /\ Parted(c, t, u) = <<t>> \o (c.sep \o <<u>>)
<1>1. PICK sep, a, b, d : sep = c.sep /\ a = <<t>> /\ b = <<u>> /\ d = a \o sep
  OBVIOUS
<1>2. sep \in Seq(Token)
  BY <1>1, NameGenAssumption
<1>3. a \in Seq(Token) /\ b \in Seq(Token) /\ Len(a) = 1 /\ Len(b) = 1
  BY <1>1
<1>4. d \in Seq(Token) /\ Len(d) = 1 + Len(sep)
  BY <1>1, <1>2, <1>3, Concatenated
<1>5. d \o b \in Seq(Token) /\ Len(d \o b) = Len(d) + Len(b)
  BY <1>3, <1>4, Concatenated
<1>6. Len(sep) \in Nat
  BY <1>2
<1>7. (a \o sep) \o b = a \o (sep \o b) /\ <<>> \o a = a /\ a \o <<>> = a
  BY <1>2, <1>3, Grouped
<1>8. Parted(c, t, u) = d \o b /\ <<t>> \o (c.sep \o <<u>>) = a \o (sep \o b)
  BY <1>1 DEF Parted
<1>9. d \o b = a \o (sep \o b)
  BY <1>1, <1>7
<1>10. Len(d \o b) >= 2
  BY <1>3, <1>4, <1>5, <1>6
<1> QED BY ONLY <1>5, <1>8, <1>9, <1>10

\* The labels that push_if_valid is given for one word.
LEMMA AroundWordItems ==
  ASSUME NEW c \in CombinatorConfigs, NEW w \in Token
  PROVE  /\ AroundWord(c, w) \in Seq(Seq(Token))
         /\ \A x : x \in Items(AroundWord(c, w)) <=>
              \/ c.bare /\ x = <<w>>
              \/ \E p \in Items(c.prefixes) : x = Parted(c, p, w)
              \/ \E s \in Items(c.suffixes) : x = Parted(c, w, s)
              \/ \E p \in Items(c.prefixes), s \in Items(c.suffixes) :
                   x = Parted(c, p, w) \o c.sep \o <<s>>
<1> DEFINE L == Seq(Token)
<1> DEFINE pre == c.prefixes
           suf == c.suffixes
           sep == c.sep
<1>1. PICK bare : bare = (IF c.bare THEN << <<w>> >> ELSE <<>>)
  OBVIOUS
<1>2. pre \in Seq(Token) /\ suf \in Seq(Token) /\ sep \in Seq(Token)
  BY NameGenAssumption
<1> HIDE DEF pre, suf, sep
<1>3. PICK n, m : n = Len(pre) /\ m = Len(suf)
  OBVIOUS
<1>4. /\ n \in Nat /\ m \in Nat /\ DOMAIN pre = 1..n /\ DOMAIN suf = 1..m
      /\ \A i \in 1..n : pre[i] \in Token
      /\ \A k \in 1..m : suf[k] \in Token
  BY <1>2, <1>3
<1>5. PICK one, two, three, four :
        /\ one = [i \in 1..n |-> Parted(c, pre[i], w)]
        /\ two = [k \in 1..m |-> Parted(c, w, suf[k])]
        /\ three = [i \in 1..n |-> [k \in 1..m |-> one[i] \o sep \o <<suf[k]>>]]
        /\ four = Joined(three)
  OBVIOUS
<1>6. bare \in Seq(L) /\ \A x : x \in Items(bare) <=> c.bare /\ x = <<w>>
  <2>1. PICK v : v = <<w>>
    OBVIOUS
  <2>2. v \in L
    BY <2>1
  <2>3. CASE c.bare
    <3>1. bare = <<v>> /\ <<v>> \in Seq(L) /\ Items(<<v>>) = {v}
      BY <1>1, <2>1, <2>2, <2>3 DEF Items
    <3> QED BY <2>1, <2>3, <3>1
  <2>4. CASE ~ c.bare
    <3>1. bare = <<>> /\ <<>> \in Seq(L) /\ Items(<<>>) = {}
      BY <1>1, <2>4 DEF Items
    <3> QED BY <2>4, <3>1
  <2> QED BY <2>3, <2>4
<1>7. one \in Seq(L) /\ Items(one) = {Parted(c, p, w) : p \in Items(pre)}
  <2>1. \A i \in 1..n : one[i] \in L
    BY <1>4, <1>5, PartedType
  <2>2. one = [i \in 1..n |-> one[i]]
    BY <1>5
  <2>3. one \in Seq(L)
    BY ONLY <1>4, <2>1, <2>2, BuiltSequence
  <2> QED BY <1>4, <1>5, <2>3 DEF Items
<1>8. two \in Seq(L) /\ Items(two) = {Parted(c, w, s) : s \in Items(suf)}
  <2>1. \A i \in 1..m : two[i] \in L
    BY <1>4, <1>5, PartedType
  <2>2. two = [i \in 1..m |-> two[i]]
    BY <1>5
  <2>3. two \in Seq(L)
    BY ONLY <1>4, <2>1, <2>2, BuiltSequence
  <2> QED BY <1>4, <1>5, <2>3 DEF Items
<1>9. /\ three \in Seq(Seq(L)) /\ Len(three) = n
      /\ \A i \in 1..n : Items(three[i]) = {one[i] \o sep \o <<s>> : s \in Items(suf)}
  <2>1. ASSUME NEW i \in 1..n
        PROVE  /\ three[i] \in Seq(L)
               /\ Items(three[i]) = {one[i] \o sep \o <<s>> : s \in Items(suf)}
    <3>1. PICK q, a : q = three[i] /\ a = one[i] \o sep
      OBVIOUS
    <3>2. q = [k \in 1..m |-> a \o <<suf[k]>>]
      BY <1>5, <3>1
    <3>3. a \in L
      BY <1>2, <1>4, <1>5, <3>1, PartedType, Concatenated
    <3>4. ASSUME NEW k \in 1..m PROVE q[k] \in L
      <4>1. <<suf[k]>> \in L
        BY <1>4
      <4> QED BY <3>2, <3>3, <4>1, Concatenated
    <3>5. q = [k \in 1..m |-> q[k]]
      BY <3>2
    <3>6. q \in Seq(L)
      BY ONLY <1>4, <3>4, <3>5, BuiltSequence
    <3>7. Items(q) = {a \o <<s>> : s \in Items(suf)}
      BY <1>4, <3>2, <3>6 DEF Items
    <3> QED BY <3>1, <3>6, <3>7
  <2>2. three = [i \in 1..n |-> three[i]]
    BY <1>5
  <2>3. three \in Seq(Seq(L)) /\ Len(three) = n
    BY ONLY <1>4, <2>1, <2>2, BuiltSequence
  <2> QED BY <2>1, <2>3
<1>10. four \in Seq(L) /\ \A x : x \in Items(four) <=> \E i \in 1..n : x \in Items(three[i])
  BY <1>5, <1>9, JoinedItems
<1>11. \A x : x \in Items(four) <=>
         \E p \in Items(pre), s \in Items(suf) : x = Parted(c, p, w) \o sep \o <<s>>
  <2>1. \A p : p \in Items(pre) <=> \E i \in 1..n : p = pre[i]
    BY <1>4 DEF Items
  <2>2. \A i \in 1..n : one[i] = Parted(c, pre[i], w)
    BY <1>5
  <2>3. ASSUME NEW x, x \in Items(four)
        PROVE  \E p \in Items(pre), s \in Items(suf) : x = Parted(c, p, w) \o sep \o <<s>>
    <3>1. PICK i \in 1..n : x \in Items(three[i])
      BY <1>10, <2>3
    <3>2. PICK s \in Items(suf) : x = one[i] \o sep \o <<s>>
      BY <1>9, <3>1
    <3>3. pre[i] \in Items(pre) /\ one[i] = Parted(c, pre[i], w)
      BY <2>1, <2>2
    <3> QED BY <3>2, <3>3
  <2>4. ASSUME NEW p \in Items(pre), NEW s \in Items(suf)
        PROVE  Parted(c, p, w) \o sep \o <<s>> \in Items(four)
    <3>1. PICK i \in 1..n : p = pre[i]
      BY <2>1
    <3>2. one[i] = Parted(c, p, w)
      BY <2>2, <3>1
    <3>3. one[i] \o sep \o <<s>> \in Items(three[i])
      BY <1>9
    <3>4. one[i] \o sep \o <<s>> \in Items(four)
      BY <1>10, <3>3
    <3> QED BY <3>2, <3>4
  <2> QED BY <2>3, <2>4
<1>12. AroundWord(c, w) = bare \o one \o two \o four
  BY <1>1, <1>4, <1>5 DEF AroundWord, pre, suf, sep
<1>13. PICK a, b, d : a = bare \o one /\ b = a \o two /\ d = b \o four
  OBVIOUS
<1>14. ASSUME NEW f \in Seq(L), NEW g \in Seq(L), NEW h, h = f \o g
       PROVE  h \in Seq(L) /\ Items(h) = Items(f) \cup Items(g)
  <2>1. f \o g \in Seq(L)
    BY Concatenated
  <2>2. Items(f \o g) = Items(f) \cup Items(g)
    BY ConcatItems
  <2> QED BY ONLY <1>14, <2>1, <2>2
<1>15. a \in Seq(L) /\ Items(a) = Items(bare) \cup Items(one)
  BY ONLY <1>6, <1>7, <1>13, <1>14
<1>16. b \in Seq(L) /\ Items(b) = Items(a) \cup Items(two)
  BY ONLY <1>8, <1>13, <1>14, <1>15
<1>17. d \in Seq(L) /\ Items(d) = Items(b) \cup Items(four)
  BY ONLY <1>10, <1>13, <1>14, <1>16
<1>18. \A x : x \in Items(d) <=> \/ x \in Items(bare) \/ x \in Items(one)
                                 \/ x \in Items(two) \/ x \in Items(four)
  BY <1>15, <1>16, <1>17
<1>19. AroundWord(c, w) = d
  BY <1>12, <1>13
<1>20. \A x : x \in Items(d) <=>
         \/ c.bare /\ x = <<w>>
         \/ \E p \in Items(pre) : x = Parted(c, p, w)
         \/ \E s \in Items(suf) : x = Parted(c, w, s)
         \/ \E p \in Items(pre), s \in Items(suf) : x = Parted(c, p, w) \o sep \o <<s>>
  BY <1>6, <1>7, <1>8, <1>11, <1>18
<1> QED BY ONLY <1>17, <1>19, <1>20 DEF pre, suf, sep

\* Every two words, in both orders.
LEMMA WordPairsItems ==
  ASSUME NEW c \in CombinatorConfigs
  PROVE  /\ WordPairs(c) \in Seq(Seq(Token))
         /\ \A x : x \in Items(WordPairs(c)) <=>
              \E i, j \in 1..Len(c.words) : i # j /\ x = Parted(c, c.words[i], c.words[j])
<1> DEFINE L == Seq(Token)
           ws == c.words
<1>1. ws \in Seq(Token)
  BY NameGenAssumption
<1>2. PICK n : n = Len(ws)
  OBVIOUS
<1>3. n \in Nat /\ DOMAIN ws = 1..n /\ \A i \in 1..n : ws[i] \in Token
  BY <1>1, <1>2
<1> HIDE DEF ws
<1>4. \A i, j \in 1..n : Parted(c, ws[i], ws[j]) \in L
  BY <1>3, PartedType
<1>5. PICK inner : inner = [i \in 1..n |-> [m \in 1..(n - i) |->
        <<Parted(c, ws[i], ws[i + m]), Parted(c, ws[i + m], ws[i])>>]]
  OBVIOUS
<1>6. PICK outer : outer = [i \in 1..n |-> Joined(inner[i])]
  OBVIOUS
<1> DEFINE Both(i, x) ==
             \E m \in 1..(n - i) : \/ x = Parted(c, ws[i], ws[i + m])
                                   \/ x = Parted(c, ws[i + m], ws[i])
<1>7. ASSUME NEW i \in 1..n
      PROVE  outer[i] \in Seq(L) /\ \A x : x \in Items(outer[i]) <=> Both(i, x)
  <2>1. PICK q, r : q = inner[i] /\ r = n - i
    OBVIOUS
  <2>2. r \in Nat /\ \A m \in 1..r : i + m \in 1..n
    BY <1>3, <2>1
  <2>3. q = [m \in 1..r |-> <<Parted(c, ws[i], ws[i + m]), Parted(c, ws[i + m], ws[i])>>]
    BY <1>5, <2>1
  <2>4. ASSUME NEW m \in 1..r
        PROVE  /\ q[m] \in Seq(L)
               /\ \A x : x \in Items(q[m]) <=> \/ x = Parted(c, ws[i], ws[i + m])
                                               \/ x = Parted(c, ws[i + m], ws[i])
    <3>1. PICK a, b : a = Parted(c, ws[i], ws[i + m]) /\ b = Parted(c, ws[i + m], ws[i])
      OBVIOUS
    <3>2. a \in L /\ b \in L
      BY <1>4, <2>2, <3>1
    <3>3. q[m] = <<a, b>>
      BY <2>3, <3>1
    <3>4. <<a, b>> \in Seq(L) /\ \A x : x \in Items(<<a, b>>) <=> x = a \/ x = b
      BY <3>2 DEF Items
    <3> QED BY <3>1, <3>3, <3>4
  <2>5. q = [m \in 1..r |-> q[m]]
    BY <2>3
  <2>6. q \in Seq(Seq(L)) /\ Len(q) = r
    BY ONLY <2>2, <2>4, <2>5, BuiltSequence
  <2>7. /\ Joined(q) \in Seq(L)
        /\ \A x : x \in Items(Joined(q)) <=> \E m \in 1..Len(q) : x \in Items(q[m])
    BY <2>6, JoinedItems
  <2>8. outer[i] = Joined(q)
    BY <1>6, <2>1
  <2>9. \A x : x \in Items(outer[i]) <=> \E m \in 1..r : x \in Items(q[m])
    BY <2>6, <2>7, <2>8
  <2> QED BY <2>1, <2>4, <2>7, <2>8, <2>9
<1>8. outer = [i \in 1..n |-> outer[i]] /\ \A i \in 1..n : outer[i] \in Seq(L)
  BY <1>6, <1>7
<1>9. outer \in Seq(Seq(L)) /\ Len(outer) = n
  BY ONLY <1>3, <1>8, BuiltSequence
<1>10. /\ Joined(outer) \in Seq(L)
       /\ \A x : x \in Items(Joined(outer)) <=> \E i \in 1..Len(outer) : x \in Items(outer[i])
  BY <1>9, JoinedItems
<1>11. WordPairs(c) = Joined(outer)
  BY <1>2, <1>3, <1>5, <1>6 DEF WordPairs, ws
<1>12. \A x : x \in Items(WordPairs(c)) <=> \E i \in 1..n : Both(i, x)
  <2> HIDE DEF Both
  <2> QED BY <1>7, <1>9, <1>10, <1>11
<1>13. ASSUME NEW x, NEW i \in 1..n, Both(i, x)
       PROVE  \E j, k \in 1..n : j # k /\ x = Parted(c, ws[j], ws[k])
  <2>1. PICK m \in 1..(n - i) : \/ x = Parted(c, ws[i], ws[i + m])
                                \/ x = Parted(c, ws[i + m], ws[i])
    BY <1>13
  <2>2. i + m \in 1..n /\ i + m # i
    BY <1>3
  <2> QED BY <2>1, <2>2
<1>14. ASSUME NEW x, NEW j \in 1..n, NEW k \in 1..n, j # k, x = Parted(c, ws[j], ws[k])
       PROVE  \E i \in 1..n : Both(i, x)
  <2>1. CASE j < k
    <3>1. PICK m \in 1..(n - j) : k = j + m
      <4>1. k - j \in 1..(n - j) /\ k = j + (k - j)
        BY <1>3, <2>1
      <4> QED BY <4>1
    <3>2. Both(j, x)
      BY <1>14, <3>1
    <3> QED BY <3>2
  <2>2. CASE k < j
    <3>1. PICK m \in 1..(n - k) : j = k + m
      <4>1. j - k \in 1..(n - k) /\ j = k + (j - k)
        BY <1>3, <2>2
      <4> QED BY <4>1
    <3>2. Both(k, x)
      BY <1>14, <3>1
    <3> QED BY <3>2
  <2>3. j < k \/ k < j
    BY <1>3, <1>14
  <2> QED BY <2>1, <2>2, <2>3
<1>15. \A x : x \in Items(WordPairs(c)) <=>
         \E j, k \in 1..n : j # k /\ x = Parted(c, ws[j], ws[k])
  <2> HIDE DEF Both
  <2> QED BY <1>12, <1>13, <1>14
<1> QED BY <1>2, <1>10, <1>11, <1>15 DEF ws

LabelsOf(c) == Joined([i \in DOMAIN c.words |-> AroundWord(c, c.words[i])]) \o WordPairs(c)

\* What is made of a word and what is around it.
Around(c, x, w) ==
  \/ c.bare /\ x = <<w>>
  \/ \E p \in Items(c.prefixes) : x = Parted(c, p, w)
  \/ \E s \in Items(c.suffixes) : x = Parted(c, w, s)
  \/ \E p \in Items(c.prefixes), s \in Items(c.suffixes) :
       x = Parted(c, p, w) \o c.sep \o <<s>>

Pair(c, x) == \E i, j \in 1..Len(c.words) : i # j /\ x = Parted(c, c.words[i], c.words[j])

LEMMA AroundItems ==
  ASSUME NEW c \in CombinatorConfigs, NEW w \in Token
  PROVE  /\ AroundWord(c, w) \in Seq(Seq(Token))
         /\ \A x : x \in Items(AroundWord(c, w)) <=> Around(c, x, w)
BY AroundWordItems DEF Around

\* The labels that push_if_valid is given for all words.
LEMMA LabelsItems ==
  ASSUME NEW c \in CombinatorConfigs
  PROVE  /\ LabelsOf(c) \in Seq(Seq(Token))
         /\ \A x : x \in Items(LabelsOf(c)) <=>
              (\E w \in Items(c.words) : Around(c, x, w)) \/ Pair(c, x)
<1> DEFINE L == Seq(Token)
           ws == c.words
<1>1. ws \in Seq(Token)
  BY NameGenAssumption
<1>2. PICK n : n = Len(ws)
  OBVIOUS
<1>3. n \in Nat /\ DOMAIN ws = 1..n /\ \A i \in 1..n : ws[i] \in Token
  BY <1>1, <1>2
<1> HIDE DEF ws
<1>4. PICK q : q = [i \in 1..n |-> AroundWord(c, ws[i])]
  OBVIOUS
<1>5. ASSUME NEW i \in 1..n
      PROVE  q[i] \in Seq(L) /\ \A x : x \in Items(q[i]) <=> Around(c, x, ws[i])
  <2>1. q[i] = AroundWord(c, ws[i]) /\ ws[i] \in Token
    BY <1>3, <1>4
  <2> QED BY <2>1, AroundItems
<1>6. q = [i \in 1..n |-> q[i]] /\ \A i \in 1..n : q[i] \in Seq(L)
  BY <1>4, <1>5
<1>7. q \in Seq(Seq(L)) /\ Len(q) = n
  BY ONLY <1>3, <1>6, BuiltSequence
<1>8. /\ Joined(q) \in Seq(L)
      /\ \A x : x \in Items(Joined(q)) <=> \E i \in 1..Len(q) : x \in Items(q[i])
  BY <1>7, JoinedItems
<1>9. \A w : w \in Items(ws) <=> \E i \in 1..n : w = ws[i]
  BY <1>3 DEF Items
<1>10. \A x : x \in Items(Joined(q)) <=> \E w \in Items(ws) : Around(c, x, w)
  <2>1. ASSUME NEW x \in Items(Joined(q)) PROVE \E w \in Items(ws) : Around(c, x, w)
    <3>1. PICK i \in 1..n : x \in Items(q[i])
      BY <1>7, <1>8
    <3>2. Around(c, x, ws[i]) /\ ws[i] \in Items(ws)
      BY <1>5, <1>9, <3>1
    <3> QED BY <3>2
  <2>2. ASSUME NEW x, NEW w \in Items(ws), Around(c, x, w) PROVE x \in Items(Joined(q))
    <3>1. PICK i \in 1..n : w = ws[i]
      BY <1>9
    <3>2. x \in Items(q[i])
      BY <1>5, <2>2, <3>1
    <3> QED BY <1>7, <1>8, <3>2
  <2> QED BY <2>1, <2>2
<1>11. /\ WordPairs(c) \in Seq(L)
       /\ \A x : x \in Items(WordPairs(c)) <=> Pair(c, x)
  BY WordPairsItems DEF Pair
<1>12. PICK a, b : a = Joined(q) /\ b = WordPairs(c)
  OBVIOUS
<1>13. a \in Seq(L) /\ b \in Seq(L)
  BY <1>8, <1>11, <1>12
<1>14. a \o b \in Seq(L)
  BY <1>13, Concatenated
<1>15. Items(a \o b) = Items(a) \cup Items(b)
  BY <1>13, ConcatItems
<1>16. LabelsOf(c) = a \o b
  BY <1>3, <1>4, <1>12 DEF LabelsOf, ws
<1>17. \A x : x \in Items(a \o b) <=> (\E w \in Items(ws) : Around(c, x, w)) \/ Pair(c, x)
  BY <1>10, <1>11, <1>12, <1>15
<1> QED BY <1>14, <1>16, <1>17 DEF ws

Befores(c) == {<<>>} \cup {<<p>> \o c.sep : p \in Items(c.prefixes)}
Afters(c) == {<<>>} \cup {c.sep \o <<s>> : s \in Items(c.suffixes)}
Wrapped(p, w, s) == p \o <<w>> \o s
Arounds(c) == {Wrapped(p, w, s) : p \in Befores(c), w \in Items(c.words), s \in Afters(c)}
Bares(c) == {<<w>> : w \in Items(c.words)}
Pairs(c) == {<<c.words[ij[1]]>> \o c.sep \o <<c.words[ij[2]]>> :
               ij \in {x \in (DOMAIN c.words) \X (DOMAIN c.words) : x[1] # x[2]}}
LabelSet(c) == (IF c.bare THEN Arounds(c) ELSE Arounds(c) \ Bares(c)) \cup Pairs(c)

LEMMA PairsAlike ==
  ASSUME NEW c \in CombinatorConfigs, NEW x
  PROVE  x \in Pairs(c) <=> Pair(c, x)
<1>1. DOMAIN c.words = 1..Len(c.words)
  BY NameGenAssumption
<1>2. ASSUME x \in Pairs(c) PROVE Pair(c, x)
  <2>1. PICK ij \in (DOMAIN c.words) \X (DOMAIN c.words) :
          ij[1] # ij[2] /\ x = <<c.words[ij[1]]>> \o c.sep \o <<c.words[ij[2]]>>
    BY <1>2 DEF Pairs
  <2>2. x = Parted(c, c.words[ij[1]], c.words[ij[2]])
    BY <2>1 DEF Parted
  <2>3. ij[1] \in 1..Len(c.words) /\ ij[2] \in 1..Len(c.words)
    BY <1>1
  <2> QED BY <2>1, <2>2, <2>3 DEF Pair
<1>3. ASSUME Pair(c, x) PROVE x \in Pairs(c)
  <2>1. PICK i \in DOMAIN c.words, j \in DOMAIN c.words :
          i # j /\ x = Parted(c, c.words[i], c.words[j])
    BY <1>1, <1>3 DEF Pair
  <2>2. PICK ij : ij = <<i, j>>
    OBVIOUS
  <2>3. ij \in (DOMAIN c.words) \X (DOMAIN c.words) /\ ij[1] = i /\ ij[2] = j
    BY <2>2
  <2>4. x = <<c.words[ij[1]]>> \o c.sep \o <<c.words[ij[2]]>>
    BY <2>1, <2>3 DEF Parted
  <2> QED BY <2>1, <2>3, <2>4 DEF Pairs
<1> QED BY <1>2, <1>3

\* A word with nothing around it, with something before it, after it, or both.
LEMMA AroundsAlike ==
  ASSUME NEW c \in CombinatorConfigs, NEW x
  PROVE  (\E w \in Items(c.words) : Around(c, x, w)) <=>
           x \in IF c.bare THEN Arounds(c) ELSE Arounds(c) \ Bares(c)
<1> DEFINE L == Seq(Token)
           sep == c.sep
<1>1. /\ sep \in L /\ c.words \in Seq(Token) /\ c.prefixes \in Seq(Token)
      /\ c.suffixes \in Seq(Token) /\ c.bare \in BOOLEAN
  BY NameGenAssumption
<1>2. /\ \A w \in Items(c.words) : w \in Token
      /\ \A p \in Items(c.prefixes) : p \in Token
      /\ \A s \in Items(c.suffixes) : s \in Token
  BY <1>1 DEF Items
<1> HIDE DEF sep
<1>3. \A t \in Token : <<t>> \in L /\ Len(<<t>>) = 1
  OBVIOUS
<1>4. ASSUME NEW w \in Token PROVE <<>> \o <<w>> \o <<>> = <<w>>
  <2>1. PICK a : a = <<w>>
    OBVIOUS
  <2>2. a \in L
    BY <1>3, <2>1
  <2>3. (a \o a) \o a = a \o (a \o a) /\ <<>> \o a = a /\ a \o <<>> = a
    BY <2>2, Grouped
  <2> QED BY <2>1, <2>3
<1>5. ASSUME NEW w \in Token, NEW p \in Token
      PROVE  /\ (<<p>> \o sep) \o <<w>> \o <<>> = Parted(c, p, w)
  <2>1. PICK a : a = Parted(c, p, w)
    OBVIOUS
  <2>2. a \in L
    BY <2>1, PartedType
  <2>3. (a \o a) \o a = a \o (a \o a) /\ <<>> \o a = a /\ a \o <<>> = a
    BY <2>2, Grouped
  <2>4. a = <<p>> \o sep \o <<w>>
    BY <2>1 DEF Parted, sep
  <2> QED BY <2>1, <2>3, <2>4
<1>6. ASSUME NEW w \in Token, NEW s \in Token
      PROVE  <<>> \o <<w>> \o (sep \o <<s>>) = Parted(c, w, s)
  <2>1. PICK a : a = <<w>>
    OBVIOUS
  <2>2. a \in L
    BY <1>3, <2>1
  <2>3. (a \o a) \o a = a \o (a \o a) /\ <<>> \o a = a /\ a \o <<>> = a
    BY <2>2, Grouped
  <2>4. Parted(c, w, s) = <<w>> \o (c.sep \o <<s>>)
    BY PartedType
  <2> QED BY <2>1, <2>3, <2>4 DEF sep
<1>7. ASSUME NEW w \in Token, NEW p \in Token, NEW s \in Token
      PROVE  /\ (<<p>> \o sep) \o <<w>> \o (sep \o <<s>>) = Parted(c, p, w) \o sep \o <<s>>
             /\ Len(Parted(c, p, w) \o sep \o <<s>>) >= 2
  <2>1. PICK a, b, d : a = Parted(c, p, w) /\ b = <<s>> /\ d = a \o sep
    OBVIOUS
  <2>2. a \in L /\ b \in L /\ Len(b) = 1 /\ Len(a) >= 2 /\ Len(a) \in Nat /\ Len(sep) \in Nat
    <3>1. Parted(c, p, w) \in Seq(Token) /\ Len(Parted(c, p, w)) >= 2
      BY PartedType
    <3>2. Len(sep) \in Nat /\ \A e \in L : Len(e) \in Nat
      BY <1>1
    <3> QED BY <1>3, <2>1, <3>1, <3>2
  <2>3. (a \o sep) \o b = a \o (sep \o b) /\ <<>> \o a = a /\ a \o <<>> = a
    <3>1. a \in Seq(Token) /\ b \in Seq(Token) /\ sep \in Seq(Token)
      BY <1>1, <2>2
    <3> QED BY ONLY <3>1, Grouped
  <2>4. a = (<<p>> \o sep) \o <<w>>
    BY <2>1 DEF Parted, sep
  <2>5. d \in L /\ Len(d) = Len(a) + Len(sep)
    BY <1>1, <2>1, <2>2, Concatenated
  <2>6. Len(d \o b) = Len(d) + Len(b)
    BY <2>2, <2>5, Concatenated
  <2>7. Len(d \o b) >= 2
    BY <2>2, <2>5, <2>6
  <2>8. Parted(c, p, w) \o sep \o <<s>> = d \o b
    BY <2>1
  <2>9. d \o b = a \o (sep \o b)
    BY <2>1, <2>3
  <2>10. (<<p>> \o sep) \o <<w>> \o (sep \o <<s>>) = a \o (sep \o b)
    BY <2>1, <2>4
  <2> QED BY ONLY <2>7, <2>8, <2>9, <2>10
<1>8. \A y : Len(y) >= 2 => y \notin Bares(c)
  <2>1. ASSUME NEW y \in Bares(c), Len(y) >= 2 PROVE FALSE
    <3>1. PICK w \in Items(c.words) : y = <<w>>
      BY DEF Bares
    <3> QED BY <1>2, <1>3, <2>1, <3>1
  <2> QED BY <2>1
<1>11. \A y : y \in Arounds(c) <=>
         \E p \in Befores(c), w \in Items(c.words), s \in Afters(c) :
           y = p \o <<w>> \o s
  <2>1. \A y : y \in Arounds(c) <=>
          \E p \in Befores(c), w \in Items(c.words), s \in Afters(c) : y = Wrapped(p, w, s)
    BY ONLY DEF Arounds
  <2> QED BY ONLY <2>1 DEF Wrapped
<1>9. ASSUME NEW w \in Items(c.words), Around(c, x, w)
      PROVE  x \in IF c.bare THEN Arounds(c) ELSE Arounds(c) \ Bares(c)
  <2>0. <<>> \in Befores(c) /\ <<>> \in Afters(c) /\ w \in Token
    BY <1>2 DEF Befores, Afters
  <2>1. CASE c.bare /\ x = <<w>>
    <3>1. x = <<>> \o <<w>> \o <<>>
      BY <1>4, <2>0, <2>1
    <3>2. x \in Arounds(c)
      BY <1>11, <2>0, <3>1
    <3> QED BY <2>1, <3>2
  <2>2. ASSUME NEW p \in Items(c.prefixes), x = Parted(c, p, w)
        PROVE  x \in Arounds(c) \ Bares(c)
    <3>1. x = (<<p>> \o sep) \o <<w>> \o <<>> /\ Len(x) >= 2
      BY <1>2, <1>5, <2>0, <2>2, PartedType
    <3>2. <<p>> \o sep \in Befores(c)
      BY DEF Befores, sep
    <3>3. x \in Arounds(c)
      BY <1>11, <2>0, <3>1, <3>2
    <3>4. Len(x) >= 2
      BY <3>1
    <3> QED BY ONLY <1>8, <3>3, <3>4
  <2>3. ASSUME NEW s \in Items(c.suffixes), x = Parted(c, w, s)
        PROVE  x \in Arounds(c) \ Bares(c)
    <3>1. x = <<>> \o <<w>> \o (sep \o <<s>>) /\ Len(x) >= 2
      BY <1>2, <1>6, <2>0, <2>3, PartedType
    <3>2. sep \o <<s>> \in Afters(c)
      BY DEF Afters, sep
    <3>3. x \in Arounds(c)
      BY <1>11, <2>0, <3>1, <3>2
    <3>4. Len(x) >= 2
      BY <3>1
    <3> QED BY ONLY <1>8, <3>3, <3>4
  <2>4. ASSUME NEW p \in Items(c.prefixes), NEW s \in Items(c.suffixes),
               x = Parted(c, p, w) \o sep \o <<s>>
        PROVE  x \in Arounds(c) \ Bares(c)
    <3>1. x = (<<p>> \o sep) \o <<w>> \o (sep \o <<s>>) /\ Len(x) >= 2
      BY <1>2, <1>7, <2>0, <2>4
    <3>2. <<p>> \o sep \in Befores(c) /\ sep \o <<s>> \in Afters(c)
      BY DEF Befores, Afters, sep
    <3>3. x \in Arounds(c)
      BY <1>11, <2>0, <3>1, <3>2
    <3>4. Len(x) >= 2
      BY <3>1
    <3> QED BY ONLY <1>8, <3>3, <3>4
  <2>5. x \in Arounds(c) \ Bares(c) => x \in IF c.bare THEN Arounds(c) ELSE Arounds(c) \ Bares(c)
    OBVIOUS
  <2> QED BY <1>9, <2>1, <2>2, <2>3, <2>4, <2>5 DEF Around, sep
<1>10. ASSUME x \in IF c.bare THEN Arounds(c) ELSE Arounds(c) \ Bares(c)
       PROVE  \E w \in Items(c.words) : Around(c, x, w)
  <2>1. PICK before \in Befores(c), w \in Items(c.words), after \in Afters(c) :
          x = before \o <<w>> \o after
    <3>1. x \in Arounds(c)
      BY <1>10
    <3> QED BY ONLY <1>11, <3>1
  <2>2. w \in Token
    BY <1>2
  <2>3. CASE before = <<>> /\ after = <<>>
    <3>1. x = <<w>>
      BY <1>4, <2>1, <2>2, <2>3
    <3>2. x \in Bares(c)
      BY <3>1 DEF Bares
    <3> QED BY <1>10, <3>1, <3>2 DEF Around
  <2>4. ASSUME NEW p \in Items(c.prefixes), before = <<p>> \o sep, after = <<>>
        PROVE  Around(c, x, w)
    <3>1. x = Parted(c, p, w)
      BY <1>2, <1>5, <2>1, <2>2, <2>4
    <3> QED BY <3>1 DEF Around
  <2>5. ASSUME NEW s \in Items(c.suffixes), before = <<>>, after = sep \o <<s>>
        PROVE  Around(c, x, w)
    <3>1. x = Parted(c, w, s)
      BY <1>2, <1>6, <2>1, <2>2, <2>5
    <3> QED BY <3>1 DEF Around
  <2>6. ASSUME NEW p \in Items(c.prefixes), NEW s \in Items(c.suffixes),
               before = <<p>> \o sep, after = sep \o <<s>>
        PROVE  Around(c, x, w)
    <3>1. x = Parted(c, p, w) \o sep \o <<s>>
      BY <1>2, <1>7, <2>1, <2>2, <2>6
    <3> QED BY <3>1 DEF Around, sep
  <2>7. before = <<>> \/ \E p \in Items(c.prefixes) : before = <<p>> \o sep
    BY DEF Befores, sep
  <2>8. after = <<>> \/ \E s \in Items(c.suffixes) : after = sep \o <<s>>
    BY DEF Afters, sep
  <2> QED BY <2>3, <2>4, <2>5, <2>6, <2>7, <2>8
<1> QED BY <1>9, <1>10

NamesOf(v, tlds) ==
  Joined([i \in DOMAIN tlds |-> [k \in DOMAIN v |-> v[k] \o <<tlds[i]>>]])
NameSet(labels, tlds) == {l \o <<tld>> : l \in labels, tld \in Items(tlds)}

\* What is pushed for every TLD.
LEMMA NamedItems ==
  ASSUME NEW S, NEW v \in Seq(Seq(S)), NEW tlds \in Seq(S)
  PROVE  /\ NamesOf(v, tlds) \in Seq(Seq(S))
         /\ Items(NamesOf(v, tlds)) = NameSet(Items(v), tlds)
<1>1. PICK n, m : n = Len(tlds) /\ m = Len(v)
  OBVIOUS
<1>2. /\ n \in Nat /\ m \in Nat /\ DOMAIN tlds = 1..n /\ DOMAIN v = 1..m
      /\ \A i \in 1..n : tlds[i] \in S
      /\ \A k \in 1..m : v[k] \in Seq(S)
  BY <1>1
<1>3. PICK q : q = [i \in 1..n |-> [k \in 1..m |-> v[k] \o <<tlds[i]>>]]
  OBVIOUS
<1>4. ASSUME NEW i \in 1..n
      PROVE  q[i] \in Seq(Seq(S)) /\ Items(q[i]) = {l \o <<tlds[i]>> : l \in Items(v)}
  <2>1. PICK r : r = q[i]
    OBVIOUS
  <2>2. r = [k \in 1..m |-> v[k] \o <<tlds[i]>>]
    BY <1>3, <2>1
  <2>3. ASSUME NEW k \in 1..m PROVE r[k] \in Seq(S)
    <3>1. <<tlds[i]>> \in Seq(S) /\ v[k] \in Seq(S)
      BY <1>2
    <3> QED BY <2>2, <3>1, Concatenated
  <2>4. r = [k \in 1..m |-> r[k]]
    BY <2>2
  <2>5. r \in Seq(Seq(S))
    BY ONLY <1>2, <2>3, <2>4, BuiltSequence
  <2>6. DOMAIN r = 1..m
    BY <2>2
  <2>7. Items(r) = {l \o <<tlds[i]>> : l \in Items(v)}
    BY <1>2, <2>2, <2>6 DEF Items
  <2> QED BY <2>1, <2>5, <2>7
<1>5. q = [i \in 1..n |-> q[i]] /\ \A i \in 1..n : q[i] \in Seq(Seq(S))
  BY <1>3, <1>4
<1>6. q \in Seq(Seq(Seq(S))) /\ Len(q) = n
  BY ONLY <1>2, <1>5, BuiltSequence
<1>7. /\ Joined(q) \in Seq(Seq(S))
      /\ \A x : x \in Items(Joined(q)) <=> \E i \in 1..Len(q) : x \in Items(q[i])
  BY <1>6, JoinedItems
<1>8. \A t : t \in Items(tlds) <=> \E i \in 1..n : t = tlds[i]
  BY <1>2 DEF Items
<1>11. \A x : x \in NameSet(Items(v), tlds) <=>
          \E l \in Items(v), tld \in Items(tlds) : x = l \o <<tld>>
  BY ONLY DEF NameSet
<1>9. Items(Joined(q)) = NameSet(Items(v), tlds)
  <2>1. ASSUME NEW x \in Items(Joined(q))
        PROVE  x \in NameSet(Items(v), tlds)
    <3>1. PICK i \in 1..n : x \in Items(q[i])
      BY <1>6, <1>7
    <3>2. PICK l \in Items(v) : x = l \o <<tlds[i]>>
      BY <1>4, <3>1
    <3>3. PICK tld \in Items(tlds) : tld = tlds[i]
      BY <1>8
    <3>4. x = l \o <<tld>>
      BY <3>2, <3>3
    <3> QED BY ONLY <1>11, <3>4
  <2>2. ASSUME NEW x \in NameSet(Items(v), tlds) PROVE x \in Items(Joined(q))
    <3>0. PICK l \in Items(v), tld \in Items(tlds) : x = l \o <<tld>>
      BY ONLY <1>11
    <3>1. PICK i \in 1..n : tld = tlds[i]
      BY <1>8
    <3>2. x \in Items(q[i])
      BY <1>4, <3>0, <3>1
    <3> QED BY <1>6, <1>7, <3>2
  <2>3. \A x : x \in Items(Joined(q)) <=> x \in NameSet(Items(v), tlds)
    BY <2>1, <2>2
  <2> QED BY <2>3
<1>10. NamesOf(v, tlds) = Joined(q)
  BY <1>2, <1>3 DEF NamesOf
<1> QED BY <1>7, <1>9, <1>10

\* What expand_combinations returns.
LEMMA CombinationsThere ==
  ASSUME NEW c \in CombinatorConfigs
  PROVE  /\ Items(ExpandCombinations(c)) =
              NameSet({k \in LabelSet(c) : LengthOf(k) \in 1..c.max}, c.tlds)
         /\ Cardinality(Items(ExpandCombinations(c))) = Len(ExpandCombinations(c))
<1> DEFINE L == Seq(Token)
           tlds == c.tlds
<1>1. PICK labels : labels = LabelsOf(c)
  OBVIOUS
<1>2. labels \in Seq(L) /\ Items(labels) = LabelSet(c)
  <2>1. \A x : x \in Items(labels) <=> (\E w \in Items(c.words) : Around(c, x, w)) \/ Pair(c, x)
    BY <1>1, LabelsItems
  <2>2. labels \in Seq(L)
    BY <1>1, LabelsItems
  <2>3. \A x : x \in Items(labels) <=>
               x \in (IF c.bare THEN Arounds(c) ELSE Arounds(c) \ Bares(c)) \/ x \in Pairs(c)
    BY <2>1, AroundsAlike, PairsAlike
  <2> QED BY <2>2, <2>3 DEF LabelSet
<1>3. PICK P : P = {i \in DOMAIN labels : LengthOf(labels[i]) \in 1..c.max}
  OBVIOUS
<1>4. PICK valid : valid = Sift(labels, P)
  OBVIOUS
<1>5. valid \in Seq(L)
  BY <1>2, <1>4, SiftType
<1>6. Items(Sift(labels, P)) = {labels[i] : i \in {j \in DOMAIN labels : j \in P}}
  BY <1>2, ItemsOfSift
<1>7. Items(valid) = {k \in LabelSet(c) : LengthOf(k) \in 1..c.max}
  <2>1. \A x : x \in Items(labels) <=> \E i \in DOMAIN labels : x = labels[i]
    BY DEF Items
  <2>2. \A x : x \in Items(valid) <=> \E i \in DOMAIN labels : i \in P /\ x = labels[i]
    BY <1>4, <1>6
  <2>3. \A x : x \in Items(valid) <=> x \in Items(labels) /\ LengthOf(x) \in 1..c.max
    BY <1>3, <2>1, <2>2
  <2> QED BY <1>2, <2>3
<1>8. tlds \in Seq(Token)
  BY NameGenAssumption
<1> HIDE DEF tlds
<1>9. PICK names : names = NamesOf(valid, tlds)
  OBVIOUS
<1>10. names \in Seq(L) /\ Items(names) = NameSet(Items(valid), tlds)
  BY <1>5, <1>8, <1>9, NamedItems
<1>11. PICK q : q = Sift(names, FirstPlaces(names))
  OBVIOUS
<1>12. /\ q \in Seq(L) /\ Items(q) = Items(names)
       /\ \A k, m \in 1..Len(q) : q[k] = q[m] => k = m
  BY ONLY <1>10, <1>11, FirstOfEqual
<1>13. Cardinality(Items(q)) = Len(q)
  BY <1>12, OnceCounted
<1>14. ExpandCombinations(c) = q
  BY <1>1, <1>3, <1>4, <1>9, <1>11 DEF ExpandCombinations, FirstOnes, LabelsOf, NamesOf, tlds
<1>15. Items(q) = NameSet({k \in LabelSet(c) : LengthOf(k) \in 1..c.max}, tlds)
  BY <1>7, <1>10, <1>12
<1> QED BY ONLY <1>13, <1>14, <1>15 DEF tlds

-----------------------------------------------------------------------------
(* The import of names.                                                   *)

Single(q) == \A k, m \in 1..Len(q) : q[k] = q[m] => k = m

\* A filter doubles nothing.
LEMMA SiftSingle ==
  ASSUME NEW S, NEW s \in Seq(S), NEW P, Single(s)
  PROVE  Single(Sift(s, P))
<1>1. PICK q : q = Sift(s, P)
  OBVIOUS
<1>2. q \in Seq(S)
  BY <1>1, SiftType
<1>3. PICK at \in [1..Len(q) -> 1..Len(s)] :
        /\ \A k \in 1..Len(q) : at[k] \in P /\ q[k] = s[at[k]]
        /\ \A k, l \in 1..Len(q) : k < l => at[k] < at[l]
  BY <1>1, SiftPlaces
<1>4. ASSUME NEW k \in 1..Len(q), NEW m \in 1..Len(q), k < m PROVE q[k] # q[m]
  <2>1. at[k] \in 1..Len(s) /\ at[m] \in 1..Len(s) /\ at[k] < at[m]
    BY <1>3, <1>4
  <2>2. at[k] # at[m]
    BY <2>1
  <2>3. s[at[k]] # s[at[m]]
    BY <2>1, <2>2 DEF Single
  <2> QED BY <1>3, <2>3
<1>5. ASSUME NEW k \in 1..Len(q), NEW m \in 1..Len(q), q[k] = q[m] PROVE k = m
  <2>1. k < m \/ m < k \/ k = m
    OBVIOUS
  <2> QED BY <1>4, <1>5, <2>1
<1> QED BY <1>1, <1>5 DEF Single

List(q) == q \in Seq(Items(q))

\* What is built place by place, or taken from a list, is a list.
LEMMA BuiltList ==
  ASSUME NEW n \in Nat, NEW q, q = [i \in 1..n |-> q[i]]
  PROVE  List(q) /\ Len(q) = n
<1>1. DOMAIN q = 1..n
  OBVIOUS
<1>2. \A i \in 1..n : q[i] \in Items(q)
  BY <1>1 DEF Items
<1>3. q \in Seq(Items(q)) /\ Len(q) = n
  <2>1. q = [i \in 1..n |-> q[i]] /\ n \in Nat
    OBVIOUS
  <2> QED BY ONLY <1>2, <2>1, BuiltSequence
<1> QED BY <1>3 DEF List

LEMMA SequenceList ==
  ASSUME NEW S, NEW q \in Seq(S)
  PROVE  List(q) /\ Len(q) \in Nat
<1>1. Len(q) \in Nat /\ q = [i \in 1..Len(q) |-> q[i]]
  OBVIOUS
<1> QED BY ONLY <1>1, BuiltList

LEMMA SiftList ==
  ASSUME NEW q, List(q), NEW P
  PROVE  List(Sift(q, P)) /\ Len(Sift(q, P)) \in Nat /\ Len(Sift(q, P)) <= Len(q)
<1>1. q \in Seq(Items(q))
  BY DEF List
<1>2. Sift(q, P) \in Seq(Items(q))
  BY <1>1, SiftType
<1>3. Len(Sift(q, P)) <= Len(q)
  BY <1>1, SiftShorter
<1> QED BY <1>2, <1>3, SequenceList

LEMMA FullList ==
  ASSUME NEW q, List(q)
  PROVE  List(Full(q)) /\ Len(Full(q)) \in Nat /\ Len(Full(q)) <= Len(q)
<1>1. PICK P : P = {i \in DOMAIN q : q[i] # <<>> /\ ~ (Len(q[i]) = 1 /\ Empty(q[i][1]))}
  OBVIOUS
<1>2. Full(q) = Sift(q, P)
  BY <1>1 DEF Full
<1> QED BY <1>2, SiftList

LEMMA AloneList ==
  ASSUME NEW q, List(q)
  PROVE  List(Alone(q)) /\ Len(Alone(q)) \in Nat
<1>1. PICK n : n = Len(q)
  OBVIOUS
<1>2. n \in Nat /\ DOMAIN q = 1..n
  BY <1>1 DEF List
<1>3. Alone(q) = [i \in 1..n |-> Alone(q)[i]]
  BY <1>2 DEF Alone
<1> QED BY ONLY <1>2, <1>3, BuiltList

Field == [name : STRING, upper : BOOLEAN, trail : Seq({" ", "."}), sep : STRING]

\* The pieces of a text.
LEMMA PiecesList ==
  ASSUME NEW q, List(q), NEW seps
  PROVE  List(Pieces(q, seps))
<1>1. PICK n, r : n = Len(q) /\ r = [i \in 1..n |-> i]
  OBVIOUS
<1>2. n \in Nat /\ DOMAIN q = 1..n
  BY <1>1 DEF List
<1>3. r = [i \in 1..n |-> r[i]]
  BY <1>1
<1>4. List(r)
  BY ONLY <1>2, <1>3, BuiltList
<1>5. PICK P : P = {i \in DOMAIN q : q[i].sep \in seps \/ i = Len(q)}
  OBVIOUS
<1>6. PICK at : at = Sift(r, P)
  OBVIOUS
<1>7. List(at) /\ Len(at) \in Nat
  BY <1>4, <1>6, SiftList
<1>8. DOMAIN at = 1..Len(at)
  BY <1>7 DEF List
<1>9. Pieces(q, seps) =
        [k \in DOMAIN at |->
          OfLast(SubSeq(q, IF k = 1 THEN 1 ELSE at[k - 1] + 1, at[k]), Ended)]
  BY <1>1, <1>2, <1>5, <1>6 DEF Pieces
<1>10. PICK m, v : m = Len(at) /\ v = Pieces(q, seps)
  OBVIOUS
<1>11. v = [k \in 1..m |-> v[k]]
  BY <1>8, <1>9, <1>10
<1>12. List(v)
  BY ONLY <1>7, <1>10, <1>11, BuiltList
<1> QED BY <1>10, <1>12

\* Every format gives a list of raw names.
LEMMA RawNamesList ==
  ASSUME NEW content \in Contents, NEW format \in Format \ {"auto"}
  PROVE  List(RawNames(content, format)) /\ Len(RawNames(content, format)) \in Nat
<1>1. PICK q, n : q = content.lines /\ n = Len(q)
  OBVIOUS
<1>2. q \in Seq(Seq(Field)) /\ n \in Nat /\ DOMAIN q = 1..n
  <2>1. content.lines \in Seq(Seq(Field))
    BY ONLY NameListAssumption, Zenon DEF Field
  <2>2. q \in Seq(Seq(Field))
    BY <1>1, <2>1
  <2> QED BY <1>1, <2>2
<1>3. List(q)
  BY <1>2, SequenceList
<1>4. List(<<>>)
  <2>1. <<>> \in Seq({})
    OBVIOUS
  <2> QED BY <2>1, SequenceList
<1>5. List(Joined(q))
  <2>1. Joined(q) \in Seq(Field)
    BY <1>2, JoinedItems
  <2> QED BY <2>1, SequenceList
<1>6. List(WholeLines(content))
  <2>1. PICK r : r = [i \in 1..n |-> OfLast(q[i], Trim)]
    OBVIOUS
  <2>2. r = [i \in 1..n |-> r[i]]
    BY <2>1
  <2>3. List(r)
    BY ONLY <1>2, <2>2, BuiltList
  <2>4. PICK full : full = Full(r)
    OBVIOUS
  <2>5. List(full)
    BY <2>3, <2>4, FullList
  <2>6. WholeLines(content) = Sift(full, {i \in DOMAIN full : full[i][1].name # Comment})
    BY <1>1, <1>2, <2>1, <2>4 DEF WholeLines
  <2> QED BY <2>5, <2>6, SiftList
<1>7. List(FirstColumn(content))
  <2>1. PICK r : r = [i \in 1..(n - 1) |-> Pieces(q[i + 1], {","})[1]]
    OBVIOUS
  <2>2. PICK m \in Nat : 1..m = 1..(n - 1)
    <3>1. CASE n = 0
      <4>1. 1..0 = 1..(n - 1)
        BY <3>1
      <4> QED BY <4>1
    <3>2. CASE n # 0
      <4>1. n - 1 \in Nat
        BY <1>2, <3>2
      <4> QED BY <4>1
    <3> QED BY <3>1, <3>2
  <2>3. r = [i \in 1..m |-> r[i]]
    BY <2>1, <2>2
  <2>4. List(r)
    BY ONLY <2>2, <2>3, BuiltList
  <2>5. FirstColumn(content) = Full(r)
    BY <1>1, <2>1 DEF FirstColumn
  <2> QED BY <2>4, <2>5, FullList
<1>8. List(RecordOwners(content))
  <2>1. PICK full : full = Full(q)
    OBVIOUS
  <2>2. List(full)
    BY <1>3, <2>1, FullList
  <2>3. PICK records : records = Sift(full, {i \in DOMAIN full :
                               full[i][1].name \notin {Comment, Directive, "@"}})
    OBVIOUS
  <2>4. List(records)
    BY <2>2, <2>3, SiftList
  <2>5. PICK m : m = Len(records)
    OBVIOUS
  <2>6. m \in Nat /\ DOMAIN records = 1..m
    BY ONLY <2>4, <2>5 DEF List
  <2>10. PICK r : r = [i \in 1..m |-> OfLast(Pieces(records[i], {" "})[1], TrimDots)]
    OBVIOUS
  <2>7. r = [i \in 1..m |-> r[i]]
    BY <2>10
  <2>8. List(r)
    BY ONLY <2>6, <2>7, BuiltList
  <2>9. RecordOwners(content) = r
    BY <1>1, <2>1, <2>3, <2>6, <2>10 DEF RecordOwners
  <2> QED BY <2>8, <2>9
<1>9. List(EveryField(content))
  BY <1>1, <1>5, AloneList DEF EveryField
<1>10. ASSUME NEW seps PROVE List(Separated(content, seps))
  <2> DEFINE Part == [name : STRING, upper : BOOLEAN, trail : Seq({" ", "."}),
                      sep : STRING \cup {LineEnd}]
  <2>0. Field \subseteq Part
    BY DEF Field
  <2>1. PICK r : r = [i \in 1..n |-> OfLast(q[i], LAMBDA f : [f EXCEPT !.sep = LineEnd])]
    OBVIOUS
  <2>2. \A i \in 1..n : r[i] \in Seq(Part)
    <3> SUFFICES ASSUME NEW i \in 1..n PROVE r[i] \in Seq(Part)
      OBVIOUS
    <3>1. PICK line : line = q[i]
      OBVIOUS
    <3>2. line \in Seq(Field)
      BY <1>2, <3>1
    <3>3. r[i] = [line EXCEPT ![Len(line)] = [@ EXCEPT !.sep = LineEnd]]
      BY <2>1, <3>1 DEF OfLast
    <3>4. PICK l : l = Len(line)
      OBVIOUS
    <3>5. l \in Nat /\ DOMAIN line = 1..l
      BY <3>2, <3>4
    <3>6. \A k \in 1..l : line[k] \in Field
      BY <3>2, <3>5
    <3>7. PICK v : v = r[i]
      OBVIOUS
    <3>8. v = [line EXCEPT ![l] = [line[l] EXCEPT !.sep = LineEnd]]
      BY <3>3, <3>4, <3>7
    <3>9. DOMAIN v = 1..l
      BY <3>5, <3>8
    <3>10. ASSUME NEW k \in 1..l PROVE v[k] \in Part
      <4>1. CASE k # l
        BY <2>0, <3>5, <3>6, <3>8, <4>1
      <4>2. CASE k = l
        <5>1. v[k] = [line[l] EXCEPT !.sep = LineEnd]
          BY <3>5, <3>8, <4>2
        <5>2. line[l] \in Field
          BY <3>6, <4>2
        <5> QED BY ONLY <5>1, <5>2 DEF Field, Part
      <4> QED BY <4>1, <4>2
    <3>11. v = [k \in 1..l |-> v[k]]
      BY <3>8, <3>9
    <3>12. v \in Seq(Part)
      BY ONLY <3>5, <3>10, <3>11, BuiltSequence
    <3> QED BY <3>7, <3>12
  <2>3. r = [i \in 1..n |-> r[i]]
    BY <2>1
  <2>4. r \in Seq(Seq(Part))
    BY ONLY <1>2, <2>2, <2>3, BuiltSequence
  <2>5. PICK text : text = Joined(r)
    OBVIOUS
  <2>6. text \in Seq(Part)
    BY <2>4, <2>5, JoinedItems
  <2>7. WholeText(content) = text
    BY <1>1, <1>2, <2>1, <2>5 DEF WholeText
  <2>8. List(Pieces(text, seps))
    BY <2>6, SequenceList, PiecesList
  <2> QED BY <2>7, <2>8, FullList DEF Separated
<1>11. List(RawNames(content, format))
  <2>1. format \in {"newline", "csv", "json_array", "json_objects", "zone", "ct_log", "space",
                    "comma"}
    BY DEF Format
  <2>2. CASE format = "newline"
    BY <1>6, <2>2 DEF RawNames
  <2>3. CASE format = "csv"
    BY <1>7, <2>3 DEF RawNames
  <2>4. CASE format = "json_array"
    BY <1>4, <1>9, <2>4 DEF RawNames
  <2>5. CASE format = "json_objects"
    BY <1>4, <1>9, <2>5 DEF RawNames
  <2>6. CASE format = "zone"
    BY <1>8, <2>6 DEF RawNames
  <2>7. CASE format = "ct_log"
    BY <1>4, <1>6, <1>9, <2>7 DEF RawNames
  <2>8. CASE format \in {"space", "comma"}
    BY <1>10, <2>8 DEF RawNames
  <2> QED BY <2>1, <2>2, <2>3, <2>4, <2>5, <2>6, <2>7, <2>8
<1> QED BY <1>11, SequenceList DEF List

StatsType == [total_lines : Nat, total_parsed : Nat, valid : Nat, duplicates_removed : Nat,
              invalid_removed : Nat, merges : Nat]

\* An import that is said to hold what it holds, whatever was validated since.
ImportInv ==
  /\ List(imported) /\ Single(imported)
  /\ stats \in StatsType
  /\ stats.valid = Len(imported)
  /\ Items(imported) \subseteq Items(Spelled(found))
  /\ stats.merges = 0 => Items(imported) = Items(Spelled(found))
  /\ stats.merges = 1 =>
       stats.invalid_removed = Cardinality(Items(Spelled(found))) - Len(imported)

MadeInv ==
  made.by = "combinator" =>
    made.config \in CombinatorConfigs /\ generated = ExpandCombinations(made.config)

ListInv == ImportInv /\ lines \in Seq(Text) /\ MadeInv

\* The first of equal raw names, of what a text had.
LEMMA ImportedOnce ==
  ASSUME NEW raws, List(raws), NEW kept,
         kept = FirstOnes(Spelled(raws))
  PROVE  /\ List(kept) /\ Single(kept) /\ Len(kept) \in Nat /\ Len(kept) <= Len(raws)
         /\ Items(kept) = Items(Spelled(raws))
<1>1. PICK n, r, full : /\ n = Len(raws) /\ r = [i \in 1..n |-> Normalised(raws[i])]
                        /\ full = Full(r)
  OBVIOUS
<1>2. n \in Nat /\ DOMAIN raws = 1..n
  BY <1>1 DEF List
<1>3. r = [i \in 1..n |-> r[i]]
  BY <1>1
<1>4. List(r) /\ Len(r) = n
  BY ONLY <1>2, <1>3, BuiltList
<1>5. List(full) /\ Len(full) \in Nat /\ Len(full) <= n
  BY <1>1, <1>4, FullList
<1>6. full = Spelled(raws) /\ kept = Sift(full, FirstPlaces(full))
  BY <1>1, <1>2 DEF FirstOnes, Spelled
<1>7. List(kept) /\ Len(kept) \in Nat /\ Len(kept) <= Len(full)
  BY <1>5, <1>6, SiftList
<1>8. Single(kept) /\ Items(kept) = Items(full)
  <2>1. full \in Seq(Items(full))
    BY <1>5 DEF List
  <2>2. /\ Items(kept) = Items(full)
        /\ \A k, m \in 1..Len(kept) : kept[k] = kept[m] => k = m
    BY <1>6, <2>1, FirstOfEqual
  <2> QED BY <2>2 DEF Single
<1> QED BY <1>1, <1>2, <1>5, <1>6, <1>7, <1>8

LEMMA FormatFound ==
  ASSUME NEW content, NEW wanted \in Format
  PROVE  (IF wanted = "auto" THEN Detect(content) ELSE wanted) \in Format \ {"auto"}
<1>1. Detect(content) \in {"json_array", "json_objects", "zone", "csv", "comma", "space", "newline"}
  <2> DEFINE commas == Contains(content.lines[1], ",")
             blanks == Contains(content.lines[1], " ")
             many == Len(content.lines) > 1
             plain == CASE content.zone -> "zone"
                        [] ~ content.zone /\ commas -> IF many THEN "csv" ELSE "comma"
                        [] ~ content.zone /\ ~ commas /\ blanks /\ ~ many -> "space"
                        [] OTHER -> "newline"
  <2>1. plain \in {"zone", "csv", "comma", "space", "newline"}
    <3> HIDE DEF commas, blanks, many
    <3> QED OBVIOUS
  <2>2. Detect(content) = CASE content.json = "strings" -> "json_array"
                            [] content.json = "objects" -> "json_objects"
                            [] OTHER -> plain
    BY DEF Detect
  <2> HIDE DEF plain
  <2> QED BY <2>1, <2>2
<1> QED BY <1>1 DEF Format

LEMMA ImportStep ==
  ASSUME NEW content \in Contents, NEW wanted \in Format, Import(content, wanted)
  PROVE  ImportInv'
<1>1. PICK format : format = IF wanted = "auto" THEN Detect(content) ELSE wanted
  OBVIOUS
<1>2. format \in Format \ {"auto"}
  BY <1>1, FormatFound
<1>3. PICK raws, kept : /\ raws = RawNames(content, format)
                        /\ kept = FirstOnes(Spelled(raws))
  OBVIOUS
<1>4. List(raws) /\ Len(raws) \in Nat
  BY <1>2, <1>3, RawNamesList
<1>5. /\ List(kept) /\ Single(kept) /\ Len(kept) \in Nat /\ Len(kept) <= Len(raws)
      /\ Items(kept) = Items(Spelled(raws))
  BY <1>3, <1>4, ImportedOnce
<1>6. /\ imported' = kept /\ found' = raws
      /\ stats' = [total_lines |-> Len(content.lines), total_parsed |-> Len(raws),
                   valid |-> Len(kept), duplicates_removed |-> Len(raws) - Len(kept),
                   invalid_removed |-> 0, merges |-> 0]
  BY <1>1, <1>3 DEF Import, ParsedAs
<1>7. Len(content.lines) \in Nat
  <2>1. content.lines \in Seq(Seq(Field))
    BY ONLY NameListAssumption, Zenon DEF Field
  <2> QED BY <2>1
<1>8. Len(raws) - Len(kept) \in Nat
  BY <1>4, <1>5
<1>9. stats' \in StatsType
  BY <1>4, <1>5, <1>6, <1>7, <1>8 DEF StatsType
<1>10. stats'.valid = Len(kept) /\ stats'.merges = 0
  BY <1>6
<1>11. Spelled(found)' = Spelled(raws)
  BY <1>6 DEF Spelled
<1> QED BY <1>5, <1>6, <1>9, <1>10, <1>11 DEF ImportInv

LEMMA ValidateStep ==
  ASSUME ImportInv, NEW level \in Level, Validate(level)
  PROVE  ImportInv'
<1>1. PICK valid, removed :
        /\ valid = Sift(imported, {i \in DOMAIN imported : IsValid(imported[i], level)})
        /\ removed = Len(imported) - Len(valid)
  OBVIOUS
<1>2. List(imported) /\ Single(imported) /\ stats \in StatsType /\ stats.valid = Len(imported)
  BY DEF ImportInv
<1>3. List(valid) /\ Len(valid) \in Nat /\ Len(valid) <= Len(imported)
  BY <1>1, <1>2, SiftList
<1>4. Single(valid)
  BY <1>1, <1>2, SiftSingle DEF List
<1>5. /\ imported' = valid
      /\ stats' = [stats EXCEPT !.valid = @ - removed, !.invalid_removed = removed,
                                !.merges = @ + 1]
  BY <1>1 DEF Validate
<1>6. Len(imported) \in Nat /\ removed \in Nat
  BY <1>1, <1>2, <1>3, SequenceList DEF List
<1>7. /\ stats'.valid = Len(valid) /\ stats'.invalid_removed = removed
      /\ stats'.merges = stats.merges + 1
      /\ stats'.total_parsed = stats.total_parsed
      /\ stats'.duplicates_removed = stats.duplicates_removed
      /\ stats' \in StatsType
  <2>1. stats.valid - removed = Len(valid)
    BY <1>1, <1>2, <1>3, <1>6
  <2>2. stats' = [stats EXCEPT !.valid = Len(valid), !.invalid_removed = removed,
                               !.merges = @ + 1]
    BY <1>5, <2>1
  <2>3. PICK m : m = stats.merges + 1
    OBVIOUS
  <2>4. m \in Nat
    BY <1>2, <2>3 DEF StatsType
  <2>5. stats' = [stats EXCEPT !.valid = Len(valid), !.invalid_removed = removed, !.merges = m]
    BY <2>2, <2>3
  <2>6. stats' \in StatsType
    BY <1>2, <1>3, <1>6, <2>4, <2>5 DEF StatsType
  <2>7. /\ stats'.valid = Len(valid) /\ stats'.invalid_removed = removed
        /\ stats'.merges = m
        /\ stats'.total_parsed = stats.total_parsed
        /\ stats'.duplicates_removed = stats.duplicates_removed
    BY <1>2, <2>5 DEF StatsType
  <2> QED BY <2>3, <2>6, <2>7
<1>8. found' = found /\ Spelled(found)' = Spelled(found)
  BY DEF Validate, Spelled
<1>9. Items(valid) \subseteq Items(imported)
  <2>1. imported \in Seq(Items(imported))
    BY <1>2 DEF List
  <2>2. PICK P : P = {i \in DOMAIN imported : IsValid(imported[i], level)}
    OBVIOUS
  <2>3. Items(Sift(imported, P)) = {imported[i] : i \in {j \in DOMAIN imported : j \in P}}
    BY <2>1, ItemsOfSift
  <2>4. Items(imported) = {imported[i] : i \in DOMAIN imported}
    BY DEF Items
  <2>5. valid = Sift(imported, P)
    BY <1>1, <2>2
  <2> QED BY ONLY <2>3, <2>4, <2>5
<1>10. stats.merges = 0 =>
         stats'.invalid_removed = Cardinality(Items(Spelled(found))) - Len(valid)
  <2>1. Cardinality(Items(imported)) = Len(imported)
    BY <1>2, OnceCounted DEF List, Single
  <2> QED BY <1>1, <1>7, <2>1 DEF ImportInv
<1>11. stats.merges \in Nat
  BY <1>2 DEF StatsType
<1>12. stats'.merges # 0 /\ (stats'.merges = 1 => stats.merges = 0)
  BY <1>7, <1>11
<1>13. Items(valid) \subseteq Items(Spelled(found))
  BY <1>9 DEF ImportInv
<1> QED BY <1>3, <1>4, <1>5, <1>7, <1>8, <1>10, <1>12, <1>13 DEF ImportInv

LEMMA WordListStep ==
  ASSUME lines \in Seq(Text), WordListNext
  PROVE  lines' \in Seq(Text)
<1>1. ASSUME NEW op \in RewriteOps, EditLines(op) PROVE lines' \in Seq(Text)
  BY <1>1, RewriteType DEF EditLines
<1>2. ASSUME DropLines PROVE lines' \in Seq(Text)
  BY <1>2, SiftType DEF DropLines, DeleteBlankLines, DeleteMatching, DedupeLines
<1>3. ASSUME OrderLines PROVE lines' \in Seq(Text)
  BY <1>3, SortType, ShuffleType DEF OrderLines
<1>4. ASSUME NEW o \in Options, Process(o) PROVE lines' \in Seq(Text)
  BY <1>4, ProcessorsAlike DEF Process
<1> QED BY <1>1, <1>2, <1>3, <1>4 DEF WordListNext

LEMMA GenStep ==
  ASSUME MadeInv, GenNext
  PROVE  MadeInv'
<1>1. ASSUME NEW c \in CombinatorConfigs, Expand(c) PROVE MadeInv'
  BY <1>1 DEF Expand, MadeInv
<1>2. ASSUME NEW g \in Generators, MakeNames(g) PROVE MadeInv'
  BY <1>2 DEF MakeNames, MadeInv
<1>3. ASSUME NEW f \in Filters, Filter(f) PROVE MadeInv'
  BY <1>3 DEF Filter, MadeInv
<1> QED BY <1>1, <1>2, <1>3 DEF GenNext

LEMMA ListInvInit == ListInit => ListInv
<1> SUFFICES ASSUME ListInit PROVE ListInv
  OBVIOUS
<1>1. ImportInv
  <2>1. <<>> \in Seq({}) /\ Len(<<>>) = 0
    OBVIOUS
  <2>2. List(<<>>)
    BY <2>1, SequenceList
  <2>3. Single(<<>>)
    BY <2>1 DEF Single
  <2>4. imported = <<>> /\ stats = NoStats /\ found = <<>>
    BY DEF ListInit
  <2>6. Items(<<>>) = {}
    BY <2>1 DEF Items
  <2>7. Spelled(<<>>) = <<>>
    <3>1. PICK r : r = [i \in 1..0 |-> Normalised(<<>>[i])]
      OBVIOUS
    <3>2. r = [i \in 1..0 |-> r[i]] /\ DOMAIN <<>> = 1..0
      BY <2>1, <3>1
    <3>3. List(r) /\ Len(r) = 0
      BY ONLY <3>2, BuiltList
    <3>4. List(Full(r)) /\ Len(Full(r)) \in Nat /\ Len(Full(r)) <= 0
      BY <3>3, FullList
    <3>5. Full(r) = <<>>
      BY <3>4 DEF List
    <3> QED BY <3>1, <3>2, <3>5 DEF Spelled
  <2>5. NoStats \in StatsType
    BY DEF NoStats, StatsType
  <2> QED BY <2>1, <2>2, <2>3, <2>4, <2>5, <2>6, <2>7 DEF ImportInv, NoStats
<1>2. lines \in Seq(Text)
  BY WordListAssumption DEF ListInit, WordListInit
<1>3. MadeInv
  BY DEF ListInit, GenInit, MadeInv
<1> QED BY <1>1, <1>2, <1>3 DEF ListInv

LEMMA ListInvNext == ListInv /\ [ListNext]_listVars => ListInv'
<1> SUFFICES ASSUME ListInv, [ListNext]_listVars PROVE ListInv'
  OBVIOUS
<1>1. ImportInv /\ lines \in Seq(Text) /\ MadeInv
  BY DEF ListInv
<1>2. ASSUME NEW content \in Contents, NEW wanted \in Format, Import(content, wanted)
      PROVE  ListInv'
  <2>1. ImportInv'
    BY <1>2, ImportStep
  <2>2. lines' = lines /\ made' = made /\ generated' = generated
    BY <1>2 DEF Import, genVars
  <2>3. MadeInv'
    BY <1>1, <2>2 DEF MadeInv
  <2> QED BY <1>1, <2>1, <2>2, <2>3 DEF ListInv
<1>3. ASSUME NEW level \in Level, Validate(level) PROVE ListInv'
  <2>1. ImportInv'
    BY <1>1, <1>3, ValidateStep
  <2>2. lines' = lines /\ made' = made /\ generated' = generated
    BY <1>3 DEF Validate, genVars
  <2>3. MadeInv'
    BY <1>1, <2>2 DEF MadeInv
  <2> QED BY <1>1, <2>1, <2>2, <2>3 DEF ListInv
<1>4. ASSUME WordListNext, UNCHANGED <<imported, stats, found, genVars>> PROVE ListInv'
  <2>1. lines' \in Seq(Text)
    BY <1>1, <1>4, WordListStep
  <2>2. imported' = imported /\ stats' = stats /\ found' = found /\ made' = made /\ generated' = generated
    BY <1>4 DEF genVars
  <2>3. ImportInv' /\ MadeInv'
    BY <1>1, <2>2 DEF ImportInv, Spelled, MadeInv
  <2> QED BY <2>1, <2>3 DEF ListInv
<1>5. ASSUME GenNext, UNCHANGED <<imported, stats, found, lines>> PROVE ListInv'
  <2>1. MadeInv'
    BY <1>1, <1>5, GenStep
  <2>2. imported' = imported /\ stats' = stats /\ found' = found /\ lines' = lines
    BY <1>5
  <2>3. ImportInv'
    BY <1>1, <2>2 DEF ImportInv, Spelled
  <2> QED BY <1>1, <2>1, <2>2, <2>3 DEF ListInv
<1>6. CASE UNCHANGED listVars
  <2>1. /\ imported' = imported /\ stats' = stats /\ found' = found /\ lines' = lines
        /\ made' = made /\ generated' = generated
    BY <1>6 DEF listVars
  <2>2. ImportInv' /\ MadeInv'
    BY <1>1, <2>1 DEF ImportInv, Spelled, MadeInv
  <2> QED BY <1>1, <2>1, <2>2 DEF ListInv
<1> QED BY <1>2, <1>3, <1>4, <1>5, <1>6 DEF ListNext

LEMMA ListAddsUp == ListInv => NamesAddUp
<1> SUFFICES ASSUME ListInv PROVE NamesAddUp
  OBVIOUS
<1>1. ImportInv /\ lines \in Seq(Text) /\ MadeInv
  BY DEF ListInv
<1>2. ImportAddsUp
  <2>1. Cardinality(Items(imported)) = Len(imported)
    BY <1>1, OnceCounted DEF ImportInv, List, Single
  <2> QED BY ONLY <1>1, <2>1 DEF ImportInv, ImportAddsUp
<1>3. ProcessorsAgree
  BY <1>1, ProcessorsAlike DEF ProcessorsAgree
<1>4. CombinationsAreAll
  <2>0. CASE made.by # "combinator"
    BY <2>0 DEF CombinationsAreAll
  <2>1. CASE made.by = "combinator"
    <3>1. made.config \in CombinatorConfigs /\ generated = ExpandCombinations(made.config)
      BY <1>1, <2>1 DEF MadeInv
    <3>2. /\ Items(generated) =
               NameSet({k \in LabelSet(made.config) : LengthOf(k) \in 1..made.config.max},
                       made.config.tlds)
          /\ Cardinality(Items(generated)) = Len(generated)
      BY <3>1, CombinationsThere
    <3> QED BY <3>2 DEF CombinationsAreAll, NameSet, LabelSet, Arounds, Bares, Pairs, Befores,
                        Afters, Wrapped
  <2> QED BY <2>0, <2>1
<1> QED BY <1>2, <1>3, <1>4 DEF NamesAddUp

\* Every list of names keeps its word, wherever it comes from: an import holds the
\* names its text spells, once, and counts what a validation takes away, the two processors of a list do the same, and a combinator leaves nothing
\* out and gives nothing twice.
THEOREM NamesAlwaysAddUp == ListSpec => []NamesAddUp
<1>1. ListInit => ListInv
  BY ListInvInit
<1>2. ListInv /\ [ListNext]_listVars => ListInv'
  BY ListInvNext
<1>3. ListInv => NamesAddUp
  BY ListAddsUp
<1> QED BY <1>1, <1>2, <1>3, PTL DEF ListSpec
=============================================================================

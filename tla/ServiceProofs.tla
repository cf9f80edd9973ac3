--------------------------- MODULE ServiceProofs ----------------------------
(***************************************************************************)
(* The services beside the bulk lookup, for any number of threads, callers *)
(* and entries.                                                            *)
(*                                                                         *)
(* Rotation: where a walk over the proxies ends, told without the turns    *)
(* before it; from it, that it panics only for a caller whose settings are *)
(* not the index's, is even, and overlooks no usable entry.  RBAC: a call  *)
(* that changes the bindings holds their lock alone, so what a check has   *)
(* read stays as it is while it waits for the roles.  The monitor: it is   *)
(* active exactly while one loop is not cancelled.  Expiry: the phase is   *)
(* read off the same days as the drop.  The command line: a pool's slots   *)
(* and names as the abstract pool has them.  Fusion: what is sifted,       *)
(* counted, summed or the greatest is the same of the answers backwards.   *)
(***************************************************************************)
EXTENDS ProxyRotation, Rbac, Monitor, ExpiryWatch, CommandLine, Fusion, SiftProofs,
        SequenceTheorems, FiniteSetTheorems, TLAPS

(* Rotation.                                                              *)

\* Each list in play is at most as long as the longest.
LEMMA LongestType == Longest \in Nat /\ \A s \in Settings : Size(s) \in Nat /\ Size(s) <= Longest
<1>1. \A s \in Settings : s.list \in Seq(Proxy \cup {Junk})
  BY RotationAssumption
<1>2. \A s \in Settings : Size(s) \in Nat
  BY <1>1 DEF Size
<1>3. \E n \in {Size(s) : s \in Settings} : \A s \in Settings : Size(s) <= n
  BY RotationAssumption DEF Size
<1>4. Longest \in {Size(s) : s \in Settings} /\ \A s \in Settings : Size(s) <= Longest
  BY <1>3 DEF Longest
<1> QED BY <1>2, <1>4

----------------------------------------------------------------------------
(* Turns.                                                                 *)

Wrap(n, x) == IF x < n THEN x ELSE x - n

\* The k-th turn from i, told without the turns before it.
NthTurn(mode, n, i, k) ==
  IF mode = "ascending"
  THEN [at |-> IF k = 1 THEN i ELSE Wrap(n, ((i + 1) % n) + k - 2),
        next |-> Wrap(n, ((i + 1) % n) + k - 1)]
  ELSE LET j == IF i >= k THEN i - k ELSE i - k + n IN [at |-> j, next |-> j]

LEMMA Remainders ==
  ASSUME NEW n \in Nat, n > 0
  PROVE  /\ \A y \in Nat : y % n \in 0..(n - 1)
         /\ \A y \in 0..(n - 1) : y % n = y
         /\ n % n = 0
OBVIOUS

LEMMA FirstTurn ==
  ASSUME NEW n \in Nat, n > 0, NEW mode, NEW i \in Nat
  PROVE  Turn(mode, n, i) = NthTurn(mode, n, i, 1)
<1>1. (i + 1) % n \in 0..(n - 1)
  BY Remainders
<1>2. CASE mode = "ascending"
  <2> DEFINE r == (i + 1) % n
  <2>1. Wrap(n, r + 1 - 1) = r
    <3> HIDE DEF r
    <3> QED BY <1>1 DEF Wrap, r
  <2> QED BY <1>2, <2>1 DEF Turn, NthTurn
<1>3. CASE mode # "ascending"
  BY <1>3 DEF Turn, NthTurn
<1> QED BY <1>2, <1>3

LEMMA NextTurn ==
  ASSUME NEW n \in Nat, n > 0, NEW mode, NEW i \in Nat, NEW k \in 2..n
  PROVE  Turn(mode, n, NthTurn(mode, n, i, k - 1).next) = NthTurn(mode, n, i, k)
<1>1. CASE mode = "ascending"
  <2> DEFINE r == (i + 1) % n
             x == Wrap(n, r + (k - 1) - 1)
  <2>1. r \in 0..(n - 1)
    BY Remainders
  <2>2. NthTurn(mode, n, i, k - 1).next = x
    BY <1>1 DEF NthTurn
  <2>3. NthTurn(mode, n, i, k) = [at |-> Wrap(n, r + k - 2), next |-> Wrap(n, r + k - 1)]
    BY <1>1 DEF NthTurn
  <2> HIDE DEF r
  <2>4. x = Wrap(n, r + k - 2) /\ x \in 0..(n - 1)
    BY <2>1 DEF Wrap
  <2>5. (x + 1) % n = Wrap(n, r + k - 1)
    <3>1. CASE x = n - 1
      BY <2>1, <2>4, <3>1, Remainders DEF Wrap
    <3>2. CASE x < n - 1
      <4>1. (x + 1) % n = x + 1
        BY <2>4, <3>2, Remainders
      <4> QED BY <2>1, <2>4, <3>2, <4>1 DEF Wrap
    <3> QED BY <2>4, <3>1, <3>2
  <2>6. Turn(mode, n, x) = [at |-> x, next |-> (x + 1) % n]
    BY <1>1 DEF Turn
  <2> QED BY <2>2, <2>3, <2>4, <2>5, <2>6
<1>2. CASE mode # "ascending"
  BY <1>2 DEF Turn, NthTurn
<1> QED BY <1>1, <1>2

\* The loop's turns, which the code makes one from the other, are those.
LEMMA TurnsAre ==
  ASSUME NEW s \in Settings, Size(s) > 0, index \in Nat
  PROVE  Turns(s) = [k \in 1..Size(s) |-> NthTurn(s.mode, Size(s), index, k)]
<1> DEFINE n == Size(s)
           Follow(f) == [k \in 1..n |-> Turn(s.mode, n, IF k = 1 THEN index ELSE f[k - 1].next)]
           Fits(f) == f = Follow(f)
           nth == [k \in 1..n |-> NthTurn(s.mode, n, index, k)]
<1>1. n \in Nat /\ n > 0
  BY LongestType
<1>2. Turns(s) = CHOOSE f : Fits(f)
  BY DEF Turns
<1> HIDE DEF n
<1>3. Fits(nth)
  <2>1. \A k \in 1..n : k # 1 => k \in 2..n /\ k - 1 \in 1..n
    BY <1>1
  <2>2. ASSUME NEW k \in 1..n
        PROVE  NthTurn(s.mode, n, index, k)
                 = Turn(s.mode, n, IF k = 1 THEN index ELSE nth[k - 1].next)
    <3>1. CASE k = 1
      BY <1>1, <3>1, FirstTurn
    <3>2. CASE k # 1
      <4>1. nth[k - 1] = NthTurn(s.mode, n, index, k - 1)
        BY <2>1, <3>2
      <4> QED BY <1>1, <2>1, <3>2, <4>1, NextTurn
    <3> QED BY <3>1, <3>2
  <2> QED BY <2>2, Zenon
<1>4. ASSUME NEW f, Fits(f) PROVE f = nth
  <2> DEFINE T == {m \in Nat : \A k \in 1..n : k <= m => f[k] = nth[k]}
  <2>1. 0 \in T
    BY <1>1
  <2>2. ASSUME NEW m \in Nat, m \in T PROVE m + 1 \in T
    <3> SUFFICES ASSUME m + 1 \in 1..n PROVE f[m + 1] = nth[m + 1]
      BY <1>1, <2>2
    <3>1. /\ f[m + 1] = Turn(s.mode, n, IF m + 1 = 1 THEN index ELSE f[m].next)
          /\ nth[m + 1] = Turn(s.mode, n, IF m + 1 = 1 THEN index ELSE nth[m].next)
      <4>1. \A g : Follow(g)[m + 1] = Turn(s.mode, n, IF m + 1 = 1 THEN index ELSE g[m + 1 - 1].next)
        OBVIOUS
      <4>2. m + 1 - 1 = m
        OBVIOUS
      <4>3. f = Follow(f) /\ nth = Follow(nth)
        BY <1>3, <1>4
      <4> HIDE DEF Follow, nth
      <4> QED BY <4>1, <4>2, <4>3
    <3>2. m + 1 # 1 => f[m] = nth[m]
      BY <1>1, <2>2
    <3> QED BY <3>1, <3>2
  <2>3. Nat \subseteq T
    <3> HIDE DEF T
    <3> QED BY <2>1, <2>2, NatSetInduction
  <2>4. \A k \in 1..n : k \in T
    BY <1>1, <2>3
  <2>5. \A k \in 1..n : f[k] = nth[k]
    BY <1>1, <2>4
  <2>6. f = [k \in 1..n |-> f[k]]
    BY <1>4
  <2> QED BY <2>5, <2>6
<1>5. Turns(s) = nth
  BY <1>2, <1>3, <1>4
<1> QED BY <1>5 DEF n

\* Where a turn may be: from an index of the list every turn is a position and
\* leaves an index of the list, from any other at least one of some list.
LEMMA TurnRange ==
  ASSUME NEW s \in Settings, Size(s) > 0, index \in Nat, NEW k \in 1..Size(s)
  PROVE  /\ Turns(s)[k].at \in Nat /\ Turns(s)[k].next \in Nat
         /\ index < Size(s) => Turns(s)[k].at \in Position(s) /\ Turns(s)[k].next \in Position(s)
         /\ (index = 0 \/ index < Longest) => Turns(s)[k].next < Longest
<1> DEFINE n == Size(s)
           r == (index + 1) % n
<1>1. n \in Nat /\ n > 0 /\ Longest \in Nat /\ n <= Longest
  BY LongestType
<1>2. r \in 0..(n - 1) /\ (index < n - 1 => r = index + 1) /\ (index = n - 1 => r = 0)
  BY <1>1, Remainders
<1>3. Turns(s)[k] = NthTurn(s.mode, n, index, k)
  BY TurnsAre
<1> HIDE DEF n, r
<1>4. CASE s.mode = "ascending"
  <2>1. Turns(s)[k] = [at |-> IF k = 1 THEN index ELSE Wrap(n, r + k - 2),
                       next |-> Wrap(n, r + k - 1)]
    BY <1>3, <1>4 DEF NthTurn, n, r
  <2>2. k \in 1..n
    BY DEF n
  <2>3. Wrap(n, r + k - 1) \in 0..(n - 1) /\ (k # 1 => Wrap(n, r + k - 2) \in 0..(n - 1))
    BY <1>1, <1>2, <2>2 DEF Wrap
  <2> QED BY <1>1, <2>1, <2>3 DEF Position, n
<1>5. CASE s.mode # "ascending"
  <2> DEFINE j == IF index >= k THEN index - k ELSE index - k + n
  <2>1. Turns(s)[k] = [at |-> j, next |-> j]
    BY <1>3, <1>5 DEF NthTurn, n
  <2>2. k \in 1..n
    BY DEF n
  <2>3. j \in Nat /\ (index < n => j \in 0..(n - 1)) /\ (index < Longest \/ index = 0 => j < Longest)
    BY <1>1, <2>2
  <2> HIDE DEF j
  <2> QED BY <2>1, <2>3 DEF Position, n
<1> QED BY <1>4, <1>5

\* The turn from index i at which position p comes.
Meets(mode, n, i, p) ==
  IF mode = "ascending"
  THEN IF p >= i THEN p - i + 1 ELSE p - i + 1 + n
  ELSE IF p < i THEN i - p ELSE i - p + n

\* Every position comes at one turn.
LEMMA TurnsMeetAll ==
  ASSUME NEW s \in Settings, index \in Nat, index < Size(s), NEW p \in Position(s)
  PROVE  /\ Meets(s.mode, Size(s), index, p) \in 1..Size(s)
         /\ Turns(s)[Meets(s.mode, Size(s), index, p)].at = p
         /\ \A k \in 1..Size(s) :
              Turns(s)[k].at = p => k = Meets(s.mode, Size(s), index, p)
<1> DEFINE n == Size(s)
           r == (index + 1) % n
           m == Meets(s.mode, n, index, p)
<1>1. n \in Nat /\ n > 0 /\ p \in 0..(n - 1)
  BY LongestType DEF Position
<1>2. r \in 0..(n - 1) /\ (index < n - 1 => r = index + 1) /\ (index = n - 1 => r = 0)
  BY <1>1, Remainders
<1>3. \A k \in 1..n : Turns(s)[k] = NthTurn(s.mode, n, index, k)
  BY <1>1, TurnsAre
<1> HIDE DEF r
<1>4. m \in 1..n
  BY <1>1 DEF Meets
<1>5. ASSUME NEW k \in 1..n PROVE Turns(s)[k].at = p <=> k = m
  <2>0. Turns(s)[k] = NthTurn(s.mode, n, index, k)
    BY <1>3
  <2>1. CASE s.mode = "ascending"
    <3>1. Turns(s)[k].at = IF k = 1 THEN index ELSE Wrap(n, r + k - 2)
      BY <2>0, <2>1 DEF NthTurn, r
    <3>2. CASE index = n - 1
      <4>1. Turns(s)[k].at = IF k = 1 THEN index ELSE k - 2
        BY <1>1, <1>2, <3>1, <3>2 DEF Wrap
      <4> QED BY <1>1, <2>1, <3>2, <4>1 DEF Meets
    <3>3. CASE index < n - 1
      <4>1. Turns(s)[k].at = IF index + k - 1 < n THEN index + k - 1 ELSE index + k - 1 - n
        BY <1>1, <1>2, <3>1, <3>3 DEF Wrap
      <4> QED BY <1>1, <2>1, <3>3, <4>1 DEF Meets
    <3> QED BY <1>1, <3>2, <3>3
  <2>2. CASE s.mode # "ascending"
    <3>1. Turns(s)[k].at = IF index >= k THEN index - k ELSE index - k + n
      BY <2>0, <2>2 DEF NthTurn
    <3> QED BY <1>1, <2>2, <3>1 DEF Meets
  <2> QED BY <2>1, <2>2
<1> QED BY <1>4, <1>5

\* The turn at p leaves the index from which p comes last, and the positions
\* that come after it come in the same order.
LEMMA NextMeets ==
  ASSUME NEW s \in Settings, index \in Nat, index < Size(s), NEW p \in Position(s),
         NEW next, next = Turns(s)[Meets(s.mode, Size(s), index, p)].next
  PROVE  LET M(i, q) == Meets(s.mode, Size(s), i, q)
         IN \A q \in Position(s) :
              M(next, q) = IF M(index, q) > M(index, p) THEN M(index, q) - M(index, p)
                           ELSE M(index, q) - M(index, p) + Size(s)
<1> DEFINE n == Size(s)
           r == (index + 1) % n
           m == Meets(s.mode, n, index, p)
<1>1. n \in Nat /\ n > 0 /\ p \in 0..(n - 1)
  BY LongestType DEF Position
<1>2. r \in 0..(n - 1) /\ (index < n - 1 => r = index + 1) /\ (index = n - 1 => r = 0)
  BY <1>1, Remainders
<1>3. m \in 1..n
  BY TurnsMeetAll
<1>4. Turns(s)[m] = NthTurn(s.mode, n, index, m)
  BY <1>1, <1>3, TurnsAre
<1> HIDE DEF r
<1> SUFFICES ASSUME NEW q \in 0..(n - 1)
             PROVE  Meets(s.mode, n, next, q) =
                      IF Meets(s.mode, n, index, q) > m THEN Meets(s.mode, n, index, q) - m
                      ELSE Meets(s.mode, n, index, q) - m + n
  BY DEF Position
<1>5. CASE s.mode = "ascending"
  <2>1. next = Wrap(n, r + m - 1)
    BY <1>4, <1>5 DEF NthTurn, r
  <2>2. m = IF p >= index THEN p - index + 1 ELSE p - index + 1 + n
    BY <1>5 DEF Meets
  <2>3. next = IF p = n - 1 THEN 0 ELSE p + 1
    <3> HIDE DEF m, n
    <3>1. CASE index = n - 1
      BY <1>1, <1>2, <2>1, <2>2, <3>1 DEF Wrap
    <3>2. CASE index < n - 1
      BY <1>1, <1>2, <2>1, <2>2, <3>2 DEF Wrap
    <3> QED BY <1>1, <3>1, <3>2 DEF n
  <2> QED BY <1>1, <1>5, <2>3 DEF Meets
<1>6. CASE s.mode # "ascending"
  <2>1. next = p
    <3>1. next = IF index >= m THEN index - m ELSE index - m + n
      BY <1>4, <1>6 DEF NthTurn
    <3> QED BY <1>1, <1>6, <3>1 DEF Meets
  <2> QED BY <1>1, <1>6, <2>1 DEF Meets
<1> QED BY <1>5, <1>6

----------------------------------------------------------------------------
(* The invariant.                                                         *)

Resetting == \E w \in Setter : setting[w] = "index"

\* The index was reset for the settings as they are.
InStep == ~mixed /\ ~Resetting

\* Such an index is one of the list.
IndexFits == InStep => index = 0 \/ index < Size(settings)

\* Nobody has been served since index and settings parted.
ServedAfresh == ~InStep => served = NoneServed

UsableNow == {p \in Position(settings) : Usable(settings, p)}
Comes(p) == Meets(settings.mode, Size(settings), index, p)

\* One round is under way: each usable position was served in it or not yet,
\* some was not, and those that were not come first.
RoundUnderWay ==
  InStep /\ settings.mode # "random" =>
    /\ \A p \in UsableNow : served[p] \in {0, 1}
    /\ UsableNow # {} => \E p \in UsableNow : served[p] = 0
    /\ \A p, q \in UsableNow : served[p] = 1 /\ served[q] = 0 => Comes(q) < Comes(p)

\* The inductive invariant.
IInv == TypeOK /\ IndexFits /\ PanicNeedsMix /\ ServedAfresh /\ RoundUnderWay

----------------------------------------------------------------------------
(* What a get_proxy in turn does.                                         *)

\* The turns at which the loop would end.
Ends(s) == {k \in 1..Size(s) : Turns(s)[k].at \notin Position(s) \/ Usable(s, Turns(s)[k].at)}

LEMMA SelectOutcome ==
  ASSUME TypeOK, NEW c \in Caller, Size(clone[c]) > 0, SelectInTurn(c)
  PROVE  LET s == clone[c]
         IN \E last \in 1..Size(s) :
              /\ index' = Turns(s)[last].next
              /\ panicked' = (Turns(s)[last].at \notin Position(s))
              /\ Ends(s) # {} => last \in Ends(s) /\ \A k \in Ends(s) : last <= k
              /\ answer' = [answer EXCEPT ![c] =
                              IF Ends(s) = {} \/ panicked' THEN "none" ELSE "some"]
              /\ mixed' = (mixed \/ Mixing(c))
              /\ served' = IF mixed' THEN NoneServed
                           ELSE IF answer'[c] = "none" THEN served
                           ELSE Serve(s, Turns(s)[last].at)
<1> DEFINE s == clone[c]
           n == Size(s)
           last == IF Ends(s) = {} THEN n ELSE CHOOSE k \in Ends(s) : \A l \in Ends(s) : k <= l
<1>1. s \in Settings /\ n \in Nat /\ n > 0 /\ index \in Nat
  BY LongestType DEF TypeOK
<1>2. Len(Turns(s)) = n
  <2>1. Turns(s) = [k \in 1..n |-> NthTurn(s.mode, n, index, k)]
    BY <1>1, TurnsAre
  <2> HIDE DEF n
  <2> QED BY <1>1, <2>1
<1>3. last \in 1..n /\ (Ends(s) # {} => last \in Ends(s) /\ \A k \in Ends(s) : last <= k)
  <2>1. CASE Ends(s) = {}
    BY <1>1, <2>1
  <2>2. CASE Ends(s) # {}
    <3>1. Ends(s) \in SUBSET Nat /\ Ends(s) \subseteq 1..n
      BY <1>1 DEF Ends
    <3>2. \E k \in Ends(s) : \A l \in Ends(s) : k <= l
      BY <2>2, <3>1, LeastNumber
    <3> HIDE DEF n
    <3> QED BY <2>2, <3>1, <3>2
  <2> QED BY <2>1, <2>2
<1>4. Ends(s) = {k \in 1..Len(Turns(s)) : Turns(s)[k].at \notin Position(s)
                                          \/ Usable(s, Turns(s)[k].at)}
  BY <1>2 DEF Ends
<1>5. /\ index' = Turns(s)[last].next
      /\ panicked' = (Turns(s)[last].at \notin Position(s))
      /\ answer' = [answer EXCEPT ![c] = IF Ends(s) = {} \/ panicked' THEN "none" ELSE "some"]
      /\ mixed' = (mixed \/ Mixing(c))
      /\ served' = IF mixed' THEN NoneServed
                   ELSE IF answer'[c] = "none" THEN served
                   ELSE Serve(s, Turns(s)[last].at)
  <2> DEFINE ends == {k \in 1..Len(Turns(s)) : Turns(s)[k].at \notin Position(s)
                                                \/ Usable(s, Turns(s)[k].at)}
             end == IF ends = {} THEN Len(Turns(s)) ELSE CHOOSE k \in ends : \A l \in ends : k <= l
  <2>1. /\ index' = Turns(s)[end].next
        /\ panicked' = (Turns(s)[end].at \notin Position(s))
        /\ answer' = [answer EXCEPT ![c] = IF ends = {} \/ panicked' THEN "none" ELSE "some"]
        /\ mixed' = (mixed \/ Mixing(c))
        /\ served' = IF mixed' THEN NoneServed
                     ELSE IF answer'[c] = "none" THEN served
                     ELSE Serve(s, Turns(s)[end].at)
    BY DEF SelectInTurn
  <2>2. ends = Ends(s)
    BY <1>4
  <2> HIDE DEF ends
  <2>3. end = last
    BY <1>2, <2>2
  <2> HIDE DEF end, last
  <2> QED BY <2>1, <2>2, <2>3
<1> HIDE DEF last
<1> QED BY <1>3, <1>5

\* When clone and index belong together it looks at positions only.
LEMMA SelectInStep ==
  ASSUME TypeOK, IndexFits, NEW c \in Caller, Size(clone[c]) > 0, SelectInTurn(c), ~mixed'
  PROVE  /\ InStep /\ clone[c] = settings /\ index < Size(settings)
         /\ ~panicked' /\ index' \in Position(settings)
<1>1. clone[c] \in Settings /\ index \in Nat /\ Size(clone[c]) \in Nat
  BY LongestType DEF TypeOK
<1>2. PICK last \in 1..Size(clone[c]) :
        /\ index' = Turns(clone[c])[last].next
        /\ panicked' = (Turns(clone[c])[last].at \notin Position(clone[c]))
        /\ mixed' = (mixed \/ Mixing(c))
  BY SelectOutcome
<1>3. InStep /\ clone[c] = settings
  BY <1>2 DEF InStep, Resetting, Mixing
<1>4. index < Size(settings)
  BY <1>1, <1>3 DEF IndexFits
<1> QED BY <1>1, <1>2, <1>3, <1>4, TurnRange

\* served keeps its type.
LEMMA ServeType ==
  ASSUME TypeOK, NEW s \in Settings, NEW p \in Position(s)
  PROVE  Serve(s, p) \in [0..Longest -> Nat]
<1>1. served \in [0..Longest -> Nat] /\ p \in 0..Longest
  BY LongestType DEF TypeOK, Position
<1> DEFINE more == [served EXCEPT ![p] = @ + 1]
           usable == {q \in Position(s) : Usable(s, q)}
<1>2. more \in [0..Longest -> Nat]
  BY <1>1
<1>3. Serve(s, p) = IF \A q \in usable : more[q] > 0
                    THEN [q \in 0..Longest |-> IF q \in usable THEN more[q] - 1 ELSE 0]
                    ELSE more
  BY DEF Serve
<1> HIDE DEF more, usable
<1>4. CASE \A q \in usable : more[q] > 0
  <2>1. \A q \in 0..Longest : (IF q \in usable THEN more[q] - 1 ELSE 0) \in Nat
    BY <1>2, <1>4
  <2> QED BY <1>3, <1>4, <2>1
<1>5. CASE ~ \A q \in usable : more[q] > 0
  BY <1>2, <1>3, <1>5
<1> QED BY <1>4, <1>5

LEMMA NoneServedType == NoneServed \in [0..Longest -> Nat] /\ \A p \in 0..Longest : NoneServed[p] = 0
BY DEF NoneServed

----------------------------------------------------------------------------
(* Steps.                                                                 *)

LEMMA InitIInv == Init => IInv
<1> SUFFICES ASSUME Init PROVE IInv
  OBVIOUS
<1>1. TypeOK
  <2>1. Default \in Settings /\ MaxCount \in Nat /\ NoneServed \in [0..Longest -> Nat]
    BY RotationAssumption, NoneServedType
  <2>2. 0 \in 0..MaxCount
    BY <2>1
  <2> QED BY <2>1, <2>2 DEF Init, TypeOK
<1>2. Size(settings) = 0
  BY DEF Init, Default, Size
<1>3. RoundUnderWay
  <2>1. Position(settings) = {}
    BY <1>2 DEF Position
  <2> QED BY <2>1 DEF RoundUnderWay, UsableNow
<1>4. IndexFits /\ PanicNeedsMix /\ ServedAfresh
  BY DEF Init, IndexFits, PanicNeedsMix, ServedAfresh
<1> QED BY <1>1, <1>3, <1>4 DEF IInv

LEMMA TypeStep ==
  ASSUME TypeOK, [Next]_vars
  PROVE  TypeOK'
<1>0. /\ Default \in Settings /\ MaxCount \in Nat
      /\ NoneServed \in [0..Longest -> Nat] /\ Longest \in Nat
  BY RotationAssumption, LongestType, NoneServedType
<1> USE DEF TypeOK, rotation, callers
<1>1. ASSUME NEW w \in Setter, (\E s \in Settings : SetSettings(w, s)) \/ ResetIndex(w) \/ ResetFailures(w)
      PROVE  TypeOK'
  <2>1. ASSUME NEW s \in Settings, SetSettings(w, s) PROVE TypeOK'
    BY <1>0, <2>1 DEF SetSettings
  <2>2. CASE ResetIndex(w)
    BY <1>0, <2>2 DEF ResetIndex
  <2>3. CASE ResetFailures(w)
    BY <1>0, <2>3 DEF ResetFailures
  <2> QED BY <1>1, <2>1, <2>2, <2>3
<1>2. ASSUME NEW c \in Caller, TakeSettings(c) PROVE TypeOK'
  BY <1>2 DEF TakeSettings
<1>3. ASSUME NEW c \in Caller, CleanupFailures(c) PROVE TypeOK'
  BY <1>0, <1>3 DEF CleanupFailures
<1>4. ASSUME NEW c \in Caller, Select(c) PROVE TypeOK'
  <2>1. asking' \in [Caller -> {"idle", "cleanup", "select"}]
    BY <1>4 DEF Select
  <2>2. CASE UNCHANGED <<index, panicked, mixed, served>> /\ answer' \in [Caller -> {"none", "some"}]
    BY <1>4, <2>1, <2>2 DEF Select
  <2>3. CASE SelectInTurn(c) /\ Size(clone[c]) > 0
    <3>1. PICK last \in 1..Size(clone[c]) :
            /\ index' = Turns(clone[c])[last].next
            /\ panicked' = (Turns(clone[c])[last].at \notin Position(clone[c]))
            /\ answer' = [answer EXCEPT ![c] =
                            IF Ends(clone[c]) = {} \/ panicked' THEN "none" ELSE "some"]
            /\ mixed' = (mixed \/ Mixing(c))
            /\ served' = IF mixed' THEN NoneServed
                         ELSE IF answer'[c] = "none" THEN served
                         ELSE Serve(clone[c], Turns(clone[c])[last].at)
      BY <2>3, SelectOutcome
    <3>2. index' \in Nat /\ index' < Longest
      <4>1. clone[c] \in Settings /\ index \in Nat /\ (index = 0 \/ index < Longest)
        OBVIOUS
      <4> QED BY <2>3, <3>1, <4>1, TurnRange
    <3>3. served' \in [0..Longest -> Nat]
      <4>1. CASE mixed'
        BY <1>0, <3>1, <4>1
      <4>2. CASE ~mixed' /\ answer'[c] = "none"
        BY <3>1, <4>2
      <4>3. CASE ~mixed' /\ answer'[c] # "none"
        <5>1. Turns(clone[c])[last].at \in Position(clone[c])
          BY <3>1, <4>3
        <5> QED BY <3>1, <4>3, <5>1, ServeType
      <4> QED BY <4>1, <4>2, <4>3
    <3>4. answer' \in [Caller -> {"none", "some"}] /\ panicked' \in BOOLEAN /\ mixed' \in BOOLEAN
      BY <3>1 DEF Mixing
    <3> QED BY <1>4, <2>1, <3>2, <3>3, <3>4 DEF Select
  <2>4. ASSUME SelectRandom(c)
        PROVE UNCHANGED <<index, panicked, mixed, served>> /\ answer' \in [Caller -> {"none", "some"}]
    BY <2>4 DEF SelectRandom
  <2> QED BY <1>4, <2>2, <2>3, <2>4 DEF Select
<1>5. ASSUME NEW p \in Proxy, ReportProxyFailure(p) \/ ReportProxySuccess(p) \/ Cooldown(p) PROVE TypeOK'
  <2>1. CASE ReportProxyFailure(p)
    BY <1>0, <2>1 DEF ReportProxyFailure
  <2>2. CASE ReportProxySuccess(p)
    BY <1>0, <2>2 DEF ReportProxySuccess
  <2>3. CASE Cooldown(p)
    BY <2>3 DEF Cooldown
  <2> QED BY <1>5, <2>1, <2>2, <2>3
<1>6. CASE PanicToo
  BY <1>6 DEF PanicToo
<1>7. CASE UNCHANGED vars
  BY <1>7 DEF vars
<1> QED BY <1>1, <1>2, <1>3, <1>4, <1>5, <1>6, <1>7 DEF Next

\* A step that leaves the rotation and the settings alone, and served too or
\* afresh, keeps the rest of the invariant.
LEMMA RotationAlone ==
  ASSUME IInv, UNCHANGED <<settings, index, panicked, mixed>>,
         Resetting' = Resetting,
         \/ UNCHANGED <<served, failures>>
         \/ served' = NoneServed
  PROVE  IndexFits' /\ PanicNeedsMix' /\ ServedAfresh' /\ RoundUnderWay'
<1>0. TypeOK /\ IndexFits /\ PanicNeedsMix /\ ServedAfresh /\ RoundUnderWay
  BY DEF IInv
<1>1. InStep' <=> InStep
  BY DEF InStep
<1>2. IndexFits' /\ PanicNeedsMix'
  BY <1>0, <1>1 DEF IndexFits, PanicNeedsMix
<1>3. CASE UNCHANGED <<served, failures>>
  <2>1. UsableNow' = UsableNow /\ \A p \in UsableNow : Comes(p)' = Comes(p)
    BY <1>3 DEF UsableNow, Usable, Comes
  <2> QED BY <1>0, <1>1, <1>2, <1>3, <2>1 DEF ServedAfresh, RoundUnderWay
<1>4. CASE served' = NoneServed
  <2>1. \A p \in UsableNow' : p \in 0..Longest
    <3>1. settings \in Settings
      BY <1>0 DEF TypeOK
    <3> QED BY <3>1, LongestType DEF UsableNow, Position
  <2>2. \A p \in UsableNow' : served'[p] = 0
    BY <1>4, <2>1, NoneServedType
  <2> QED BY <1>2, <1>4, <2>2 DEF ServedAfresh, RoundUnderWay
<1> QED BY <1>2, <1>3, <1>4

\* The settings change, or the index starts over: a new round.
LEMMA NewRound ==
  ASSUME IInv, TypeOK', served' = NoneServed, PanicNeedsMix',
         InStep' => index' = 0
  PROVE  IndexFits' /\ PanicNeedsMix' /\ ServedAfresh' /\ RoundUnderWay'
<1>1. \A p \in UsableNow' : served'[p] = 0
  <2>1. settings' \in Settings
    BY DEF TypeOK
  <2>2. \A p \in UsableNow' : p \in 0..Longest
    BY <2>1, LongestType DEF UsableNow, Position
  <2> QED BY <2>2, NoneServedType
<1> QED BY <1>1 DEF IndexFits, ServedAfresh, RoundUnderWay

\* The entry that comes first of those not used up is served: the round goes on,
\* or, if it was the last not served, a new one begins.
LEMMA ServeKeepsRound ==
  ASSUME IInv, InStep, settings.mode # "random", index < Size(settings),
         NEW p \in UsableNow, \A q \in UsableNow : Comes(p) <= Comes(q),
         index' = Turns(settings)[Comes(p)].next,
         served' = Serve(settings, p),
         UNCHANGED <<settings, failures>>
  PROVE  RoundUnderWay'
<1> DEFINE n == Size(settings)
           more == [served EXCEPT ![p] = @ + 1]
<1>1. /\ settings \in Settings /\ index \in Nat /\ served \in [0..Longest -> Nat]
      /\ p \in Position(settings) /\ n \in Nat
      /\ UsableNow \subseteq 0..Longest /\ UsableNow \subseteq Position(settings)
  BY LongestType DEF IInv, TypeOK, UsableNow, Position
<1>2. /\ \A q \in UsableNow : served[q] \in {0, 1}
      /\ \E q \in UsableNow : served[q] = 0
      /\ \A q, r \in UsableNow : served[q] = 1 /\ served[r] = 0 => Comes(r) < Comes(q)
  BY DEF IInv, RoundUnderWay
<1>3. \A q \in UsableNow : Comes(q) \in 1..n
  BY <1>1, TurnsMeetAll DEF Comes
<1>4. served[p] = 0
  <2>1. PICK q \in UsableNow : served[q] = 0
    BY <1>2
  <2>2. Comes(p) \in Nat /\ Comes(q) \in Nat /\ Comes(p) <= Comes(q)
    BY <1>3, <2>1
  <2> QED BY <1>2, <2>1, <2>2
<1>5. UsableNow' = UsableNow
  BY DEF UsableNow, Usable
<1>6. \A q \in UsableNow : Comes(q)' = IF Comes(q) > Comes(p) THEN Comes(q) - Comes(p)
                                       ELSE Comes(q) - Comes(p) + n
  BY <1>1, NextMeets DEF Comes
<1>7. \A q, r \in UsableNow : Comes(q) = Comes(r) => q = r
  <2>1. \A q \in UsableNow : Turns(settings)[Comes(q)].at = q
    BY <1>1, TurnsMeetAll DEF Comes
  <2> QED BY <2>1
<1>8. \A q \in UsableNow : more[q] = IF q = p THEN 1 ELSE served[q]
  BY <1>1, <1>4
<1>9. Serve(settings, p) = IF \A q \in UsableNow : more[q] > 0
                           THEN [q \in 0..Longest |-> IF q \in UsableNow THEN more[q] - 1 ELSE 0]
                           ELSE more
  BY DEF Serve, UsableNow
<1> HIDE DEF more
<1>10. CASE \A q \in UsableNow : more[q] > 0
  <2>1. \A q \in UsableNow : served'[q] = 0
    <3>1. \A q \in UsableNow : more[q] = 1
      BY <1>2, <1>8, <1>10
    <3> QED BY <1>1, <1>9, <1>10, <3>1
  <2> QED BY <1>5, <2>1 DEF RoundUnderWay
<1>11. CASE ~ \A q \in UsableNow : more[q] > 0
  <2>1. \A q \in UsableNow : served'[q] = IF q = p THEN 1 ELSE served[q]
    BY <1>8, <1>9, <1>11
  <2>2. \E q \in UsableNow : served'[q] = 0
    BY <1>2, <1>8, <1>11, <2>1
  <2>3. ASSUME NEW q \in UsableNow, NEW r \in UsableNow, served'[q] = 1, served'[r] = 0
        PROVE  Comes(r)' < Comes(q)'
    <3>1. r # p /\ served[r] = 0 /\ (q = p \/ served[q] = 1)
      BY <2>1, <2>3
    <3>2. Comes(p) \in 1..n /\ Comes(q) \in 1..n /\ Comes(r) \in 1..n
      BY <1>3
    <3>3. Comes(p) < Comes(r)
      <4>1. Comes(p) <= Comes(r) /\ Comes(p) # Comes(r)
        BY <1>7, <3>1
      <4> QED BY <3>2, <4>1
    <3>4. Comes(r)' = Comes(r) - Comes(p)
      BY <1>6, <3>3
    <3>5. CASE q = p
      <4>1. Comes(q)' = n
        BY <1>1, <1>6, <3>2, <3>5
      <4> QED BY <1>1, <3>2, <3>4, <4>1
    <3>6. CASE served[q] = 1
      <4>1. Comes(r) < Comes(q)
        BY <1>2, <3>1, <3>6
      <4>2. Comes(q)' = Comes(q) - Comes(p)
        BY <1>6, <3>2, <3>3, <4>1
      <4> QED BY <3>2, <3>4, <4>1, <4>2
    <3> QED BY <3>1, <3>5, <3>6
  <2> QED BY <1>2, <1>5, <2>1, <2>2, <2>3 DEF RoundUnderWay
<1> QED BY <1>10, <1>11

\* The end of a loop in step: the first usable entry to come, or none at all.
LEMMA EndsFirst ==
  ASSUME NEW s \in Settings, index \in Nat, index < Size(s)
  PROVE  /\ Ends(s) = {k \in 1..Size(s) : Usable(s, Turns(s)[k].at)}
         /\ \A p \in Position(s) : Usable(s, p) => Meets(s.mode, Size(s), index, p) \in Ends(s)
<1>1. Size(s) \in Nat /\ Size(s) > 0
  BY LongestType
<1>2. \A k \in 1..Size(s) : Turns(s)[k].at \in Position(s)
  BY <1>1, TurnRange
<1> QED BY <1>2, TurnsMeetAll DEF Ends

\* get_proxy in turn keeps the invariant.
LEMMA SelectKeepsRest ==
  ASSUME IInv, TypeOK', NEW c \in Caller, Size(clone[c]) > 0, SelectInTurn(c),
         UNCHANGED <<settings, setting, failures>>
  PROVE  IndexFits' /\ PanicNeedsMix' /\ ServedAfresh' /\ RoundUnderWay'
<1>0. TypeOK /\ IndexFits /\ PanicNeedsMix /\ ServedAfresh /\ RoundUnderWay
  BY DEF IInv
<1> DEFINE s == clone[c]
<1>1. PICK last \in 1..Size(s) :
        /\ index' = Turns(s)[last].next
        /\ panicked' = (Turns(s)[last].at \notin Position(s))
        /\ Ends(s) # {} => last \in Ends(s) /\ \A k \in Ends(s) : last <= k
        /\ answer' = [answer EXCEPT ![c] = IF Ends(s) = {} \/ panicked' THEN "none" ELSE "some"]
        /\ mixed' = (mixed \/ Mixing(c))
        /\ served' = IF mixed' THEN NoneServed
                     ELSE IF answer'[c] = "none" THEN served
                     ELSE Serve(s, Turns(s)[last].at)
  BY <1>0, SelectOutcome
<1>2. CASE mixed'
  <2>1. served' = NoneServed
    BY <1>1, <1>2
  <2>2. ~InStep' /\ PanicNeedsMix'
    BY <1>2 DEF InStep, PanicNeedsMix
  <2> QED BY <2>1, <2>2 DEF IndexFits, ServedAfresh, RoundUnderWay
<1>3. CASE ~mixed'
  <2>1. InStep /\ s = settings /\ index < Size(settings) /\ ~panicked' /\ index' \in Position(settings)
    BY <1>0, <1>3, SelectInStep
  <2>2. /\ settings \in Settings /\ index \in Nat /\ Size(settings) \in Nat
        /\ answer \in [Caller -> {"none", "some"}]
    BY <1>0, LongestType DEF TypeOK
  <2>3. InStep'
    BY <1>3, <2>1 DEF InStep, Resetting
  <2>4. IndexFits' /\ PanicNeedsMix' /\ ServedAfresh'
    BY <2>1, <2>2, <2>3 DEF IndexFits, PanicNeedsMix, ServedAfresh, Position
  <2>5. settings.mode # "random"
    BY <2>1 DEF SelectInTurn
  <2>6. /\ Ends(settings) = {k \in 1..Size(settings) : Usable(settings, Turns(settings)[k].at)}
        /\ \A p \in UsableNow : Comes(p) \in Ends(settings)
    BY <2>1, <2>2, EndsFirst DEF UsableNow, Comes
  <2>7. CASE Ends(settings) = {}
    <3>1. UsableNow = {}
      BY <2>6, <2>7
    <3>2. UsableNow' = {}
      BY <3>1 DEF UsableNow, Usable
    <3> QED BY <2>4, <3>2 DEF RoundUnderWay
  <2>8. CASE Ends(settings) # {}
    <3> DEFINE p == Turns(settings)[last].at
    <3>1. p \in UsableNow /\ last \in 1..Size(settings) /\ \A k \in Ends(settings) : last <= k
      <4>1. p \in Position(settings)
        BY <1>1, <2>1
      <4> QED BY <1>1, <2>1, <2>6, <2>8, <4>1 DEF UsableNow
    <3>2. last = Comes(p)
      <4>1. p \in Position(settings)
        BY <3>1 DEF UsableNow
      <4> QED BY <2>1, <2>2, <3>1, <4>1, TurnsMeetAll DEF Comes
    <3>3. \A q \in UsableNow : Comes(p) <= Comes(q)
      BY <2>6, <3>1, <3>2
    <3>4. answer'[c] = "some"
      BY <1>1, <2>1, <2>2, <2>8
    <3>5. served' = Serve(settings, p) /\ index' = Turns(settings)[Comes(p)].next
      BY <1>1, <1>3, <2>1, <3>2, <3>4
    <3> HIDE DEF p
    <3>6. RoundUnderWay'
      BY <2>1, <2>5, <3>1, <3>3, <3>5, ServeKeepsRound
    <3> QED BY <2>4, <3>6
  <2> QED BY <2>7, <2>8
<1> QED BY <1>2, <1>3

LEMMA Inductive ==
  ASSUME IInv, [Next]_vars
  PROVE  IInv'
<1>0. TypeOK /\ IndexFits /\ PanicNeedsMix /\ ServedAfresh /\ RoundUnderWay /\ TypeOK'
  BY TypeStep DEF IInv
<1> SUFFICES IndexFits' /\ PanicNeedsMix' /\ ServedAfresh' /\ RoundUnderWay'
  BY <1>0 DEF IInv
<1> USE DEF rotation, callers
<1>1. ASSUME NEW w \in Setter, NEW s \in Settings, SetSettings(w, s)
      PROVE  IndexFits' /\ PanicNeedsMix' /\ ServedAfresh' /\ RoundUnderWay'
  <2>1. setting'[w] = "index"
    BY <1>0, <1>1 DEF SetSettings, TypeOK
  <2>2. ~InStep' /\ PanicNeedsMix' /\ served' = NoneServed
    BY <1>0, <1>1, <2>1 DEF SetSettings, InStep, Resetting, PanicNeedsMix
  <2> QED BY <1>0, <2>2, NewRound
<1>2. ASSUME NEW w \in Setter, ResetIndex(w)
      PROVE  IndexFits' /\ PanicNeedsMix' /\ ServedAfresh' /\ RoundUnderWay'
  BY <1>0, <1>2, NewRound DEF ResetIndex, PanicNeedsMix
<1>3. ASSUME NEW w \in Setter, ResetFailures(w)
      PROVE  IndexFits' /\ PanicNeedsMix' /\ ServedAfresh' /\ RoundUnderWay'
  <2>1. Resetting' = Resetting
    BY <1>0, <1>3 DEF ResetFailures, Resetting, TypeOK
  <2> QED BY <1>3, <2>1, RotationAlone DEF ResetFailures
<1>4. ASSUME NEW c \in Caller, TakeSettings(c) \/ CleanupFailures(c)
      PROVE  IndexFits' /\ PanicNeedsMix' /\ ServedAfresh' /\ RoundUnderWay'
  <2>1. Resetting' = Resetting
    BY <1>4 DEF TakeSettings, CleanupFailures, Resetting
  <2> QED BY <1>4, <2>1, RotationAlone DEF TakeSettings, CleanupFailures
<1>5. ASSUME NEW c \in Caller, Select(c)
      PROVE  IndexFits' /\ PanicNeedsMix' /\ ServedAfresh' /\ RoundUnderWay'
  <2>1. CASE UNCHANGED <<index, panicked, mixed, served>>
    <3>1. Resetting' = Resetting
      BY <1>5 DEF Select, Resetting
    <3> QED BY <1>5, <2>1, <3>1, RotationAlone DEF Select
  <2>2. CASE Size(clone[c]) > 0 /\ SelectInTurn(c)
    BY <1>0, <1>5, <2>2, SelectKeepsRest DEF Select
  <2> QED BY <1>5, <2>1, <2>2 DEF Select, SelectRandom
<1>6. ASSUME NEW p \in Proxy, ReportProxyFailure(p) \/ ReportProxySuccess(p) \/ Cooldown(p)
      PROVE  IndexFits' /\ PanicNeedsMix' /\ ServedAfresh' /\ RoundUnderWay'
  <2>1. Resetting' = Resetting
    BY <1>6 DEF ReportProxyFailure, ReportProxySuccess, Cooldown, Resetting
  <2> QED BY <1>6, <2>1, RotationAlone DEF ReportProxyFailure, ReportProxySuccess, Cooldown
<1>7. CASE PanicToo
  <2>1. mixed /\ mixed' /\ UNCHANGED <<settings, index, panicked, served, failures>>
    BY <1>0, <1>7 DEF PanicToo, PanicNeedsMix
  <2>2. ~InStep /\ ~InStep'
    BY <2>1 DEF InStep
  <2> QED BY <1>0, <2>1, <2>2 DEF IndexFits, PanicNeedsMix, ServedAfresh, RoundUnderWay
<1>8. CASE UNCHANGED vars
  <2>1. Resetting' = Resetting
    BY <1>8 DEF vars, Resetting
  <2> QED BY <1>8, <2>1, RotationAlone DEF vars
<1> QED BY <1>1, <1>2, <1>3, <1>4, <1>5, <1>6, <1>7, <1>8 DEF Next

LEMMA InvariantHolds == Spec => []IInv
<1>1. IInv /\ [Next]_vars => IInv'
  BY Inductive
<1> QED BY <1>1, InitIInv, PTL DEF Spec

----------------------------------------------------------------------------
(* The theorems.                                                          *)

\* Every variable keeps its type; the index, unless it was just reset, fits
\* some list in play.
THEOREM RotationTypeCorrect == Spec => []TypeOK
<1>1. IInv => TypeOK
  BY DEF IInv
<1> QED BY <1>1, InvariantHolds, PTL

\* The list is indexed out of range, and the rotation poisoned, only by a
\* caller whose settings are not the ones the index was last reset for.
THEOREM PanicAlwaysNeedsMix == Spec => []PanicNeedsMix
<1>1. IInv => PanicNeedsMix
  BY DEF IInv
<1> QED BY <1>1, InvariantHolds, PTL

\* Rotation in turn is even: while settings and failures stay as they are no
\* usable entry is returned twice more than another.
THEOREM AlwaysEvenlyUsed == Spec => []EvenlyUsed
<1>1. IInv => EvenlyUsed
  <2> SUFFICES ASSUME IInv, settings.mode # "random",
                      NEW p \in UsableNow, NEW q \in UsableNow
               PROVE  served[p] <= served[q] + 1
    BY DEF EvenlyUsed, UsableNow
  <2>1. CASE InStep
    BY <2>1 DEF IInv, RoundUnderWay
  <2>2. CASE ~InStep
    <3>1. p \in 0..Longest /\ q \in 0..Longest
      BY LongestType DEF IInv, TypeOK, UsableNow, Position
    <3> QED BY <2>2, <3>1, NoneServedType DEF IInv, ServedAfresh
  <2> QED BY <2>1, <2>2
<1> QED BY <1>1, InvariantHolds, PTL

\* get_proxy in turn answers None only when no entry is usable.
THEOREM HealthyAlwaysFound == Spec => HealthyIsFound
<1> DEFINE Overlooks ==
      \E c \in Caller :
        /\ asking[c] = "select" /\ asking'[c] = "idle"
        /\ clone[c].mode # "random"
        /\ ~panicked' /\ ~mixed'
        /\ answer'[c] = "none"
        /\ \E p \in Position(clone[c]) : Usable(clone[c], p)
<1>1. ASSUME IInv, Next, Overlooks PROVE FALSE
  <2>1. PICK c \in Caller :
          /\ asking[c] = "select" /\ asking'[c] = "idle"
          /\ clone[c].mode # "random"
          /\ ~panicked' /\ ~mixed'
          /\ answer'[c] = "none"
          /\ \E p \in Position(clone[c]) : Usable(clone[c], p)
    BY <1>1
  <2>2. PICK p \in Position(clone[c]) : Usable(clone[c], p)
    BY <2>1
  <2>3. TypeOK /\ IndexFits
    BY <1>1 DEF IInv
  <2>4. Select(c)
    <3>1. asking \in [Caller -> {"idle", "cleanup", "select"}]
      BY <2>3 DEF TypeOK
    <3>2. ~PanicToo
      BY <2>1 DEF PanicToo, rotation
    <3>3. \E d \in Caller : (TakeSettings(d) \/ CleanupFailures(d) \/ Select(d)) /\ asking' # asking
      BY <1>1, <2>1, <3>2 DEF Next, SetSettings, ResetIndex, ResetFailures, ReportProxyFailure,
         ReportProxySuccess, Cooldown, callers
    <3>4. PICK d \in Caller : (TakeSettings(d) \/ CleanupFailures(d) \/ Select(d)) /\ asking' # asking
      BY <3>3
    <3>5. d = c
      BY <2>1, <3>1, <3>4 DEF TakeSettings, CleanupFailures, Select
    <3> QED BY <2>1, <3>1, <3>4, <3>5 DEF TakeSettings, CleanupFailures
  <2>5. Size(clone[c]) > 0 /\ SelectInTurn(c)
    <3>1. Size(clone[c]) \in Nat /\ Size(clone[c]) # 0
      BY <2>2, <2>3, LongestType DEF TypeOK, Position
    <3> QED BY <2>1, <2>4, <3>1 DEF Select, SelectRandom
  <2>6. clone[c] = settings /\ index < Size(settings) /\ settings \in Settings /\ index \in Nat
    BY <2>1, <2>3, <2>5, SelectInStep DEF TypeOK
  <2>7. Ends(clone[c]) # {}
    BY <2>2, <2>6, EndsFirst
  <2>8. answer'[c] = "some"
    <3>1. answer \in [Caller -> {"none", "some"}]
      BY <2>3 DEF TypeOK
    <3>2. answer' = [answer EXCEPT ![c] = IF Ends(clone[c]) = {} \/ panicked' THEN "none" ELSE "some"]
      BY <2>3, <2>5, SelectOutcome
    <3> QED BY <2>1, <2>7, <3>1, <3>2
  <2> QED BY <2>1, <2>8
<1>2. IInv /\ [Next]_vars =>
        [\A c \in Caller :
           (/\ asking[c] = "select" /\ asking'[c] = "idle"
            /\ clone[c].mode # "random"
            /\ ~panicked' /\ ~mixed'
            /\ answer'[c] = "none")
           => \A p \in Position(clone[c]) : ~Usable(clone[c], p)]_vars
  BY <1>1
<1> QED BY <1>2, InvariantHolds, PTL DEF Spec, HealthyIsFound

----------------------------------------------------------------------------
(* Roles and bindings.                                                    *)

OpName == {"check", "export", "get_role", "get_bindings", "add_role", "remove_role", "bind",
           "unbind", "unbind_role", "import"}

\* The lock at place i of a call's stage.
LockAt(c, i) == Stages(c.req.op)[c.stage][i]
LockCount(c) == Len(Stages(c.req.op)[c.stage])
HoldsIn(c, lock) == c # Idle /\ \E i \in 1..c.held : LockAt(c, i) = lock

\* A call that has begun.
Begun(c) ==
  /\ c = [req |-> c.req, stage |-> c.stage, held |-> c.held, queued |-> c.queued,
          names |-> c.names, answers |-> c.answers]
  /\ c.req.op \in OpName
  /\ c.req.op = "check" => c.req.subject \in Subject
  /\ c.stage \in 1..Len(Stages(c.req.op))
  /\ c.held \in 0..LockCount(c)

Calls == DOMAIN call = Thread /\ \A t \in Thread : call[t] = Idle \/ Begun(call[t])

Apart(c, d) ==
  \A lock \in {"bindings", "roles"} :
    HoldsIn(c, lock) /\ HoldsIn(d, lock) => ~ Exclusive(c.req.op) /\ ~ Exclusive(d.req.op)
Exclusion == \A t, u \in Thread : t # u => Apart(call[t], call[u])

\* A check knows what may be answered now, and what it has read still holds.
Reads(c) ==
  c.req.op = "check" =>
    \A s \in Subject :
      s = c.req.subject =>
        Effective(NamesOf(s)) \in c.answers /\ (c.held >= 1 => c.names = NamesOf(s))
ChecksRead == \A t \in Thread : Reads(call[t])

RbacInv == Calls /\ Exclusion /\ ChecksRead

-----------------------------------------------------------------------------
(* Calls and their locks *)

LEMMA LocksOf ==
  /\ Stages("check") = << <<"bindings", "roles">> >>
  /\ Stages("export") = << <<"roles", "bindings">> >>
  /\ \A op \in {"add_role", "remove_role", "get_role"} : Stages(op) = << <<"roles">> >>
  /\ Stages("import") = << <<"roles">>, <<"bindings">> >>
  /\ \A op \in {"get_bindings", "bind", "unbind", "unbind_role"} : Stages(op) = << <<"bindings">> >>
BY DEF Stages

\* A begun call is not idle, and its locks are the two of Rbac.
LEMMA BegunCall ==
  ASSUME NEW c, Begun(c)
  PROVE  /\ c # Idle
         /\ c.stage \in Nat /\ c.held \in Nat /\ LockCount(c) \in 1..2
         /\ \A i \in 1..LockCount(c) : LockAt(c, i) \in {"bindings", "roles"}
         /\ c.req.op = "check" => LockCount(c) = 2 /\ LockAt(c, 1) = "bindings"
<1>1. c # Idle
  BY DEF Begun, Idle, OpName
<1>2. ASSUME NEW op \in OpName, NEW k \in 1..Len(Stages(op))
      PROVE  /\ Len(Stages(op)[k]) \in 1..2
             /\ \A i \in 1..Len(Stages(op)[k]) : Stages(op)[k][i] \in {"bindings", "roles"}
             /\ op = "check" => Len(Stages(op)[k]) = 2 /\ Stages(op)[k][1] = "bindings"
  BY LocksOf DEF OpName
<1> QED
  BY <1>1, <1>2 DEF Begun, LockAt, LockCount

LEMMA IdleCall ==
  /\ Idle.req.op = "none" /\ Idle.held = 0
  /\ \A lock : ~ HoldsIn(Idle, lock)
BY DEF Idle, HoldsIn

LEMMA RequestOp ==
  ASSUME NEW q \in Request
  PROVE  q.op \in OpName /\ (q.op = "check" => q.subject \in Subject)
BY DEF Request, OpName

\* Who changes the bindings holds their
\* lock, and does not share it.
LEMMA WriterHolds ==
  ASSUME NEW t \in Thread, Begun(call[t]), Work(t), bindings' # bindings
  PROVE  HoldsIn(call[t], "bindings") /\ Exclusive(call[t].req.op)
<1> DEFINE op == call[t].req.op
<1>1. /\ op \in OpName /\ call[t].stage \in 1..Len(Stages(op))
      /\ call[t].held = Len(Stages(op)[call[t].stage])
  BY DEF Work, HoldsAll, Locks, Op, Begun
<1>2. op \in {"bind", "unbind", "unbind_role"} \/ (op = "import" /\ call[t].stage # 1)
  BY <1>1 DEF Work, Effect, AddRole, RemoveRole, ImportRoles, OpName
<1>3. Stages(op)[call[t].stage] = <<"bindings">>
  BY <1>1, <1>2, LocksOf
<1>4. call[t].held = 1 /\ LockAt(call[t], 1) = "bindings"
  BY <1>1, <1>3 DEF LockAt
<1> QED
  BY <1>2, <1>4, BegunCall DEF HoldsIn, Exclusive

-----------------------------------------------------------------------------
(* Steps *)

\* What holds of a check as long as no map changes.
LEMMA SameMaps ==
  ASSUME NEW s, roles' = roles, bindings' = bindings
  PROVE  Effective(NamesOf(s))' = Effective(NamesOf(s)) /\ NamesOf(s)' = NamesOf(s)
<1>1. NamesOf(s)' = NamesOf(s)
  BY DEF NamesOf
<1>2. Granted(NamesOf(s))' = Granted(NamesOf(s))
  BY <1>1 DEF Granted
<1> QED
  BY <1>1, <1>2 DEF Effective

\* A step of one thread that changes no map keeps the invariant when its new
\* call is in order.
LEMMA OneCall ==
  ASSUME RbacInv, NEW t \in Thread, NEW c,
         call' = [call EXCEPT ![t] = c], UNCHANGED <<roles, bindings>>,
         c = Idle \/ Begun(c),
         \A u \in Thread \ {t} : Apart(c, call[u]),
         Reads(c)
  PROVE  RbacInv'
<1>1. DOMAIN call = Thread
  BY DEF RbacInv, Calls
<1>2. call'[t] = c /\ \A u \in Thread \ {t} : call'[u] = call[u]
  BY <1>1
<1>3. Calls'
  <2>1. DOMAIN call' = Thread
    BY <1>1
  <2>2. ASSUME NEW u \in Thread PROVE call'[u] = Idle \/ Begun(call'[u])
    BY <1>2 DEF RbacInv, Calls
  <2> QED
    BY <2>1, <2>2 DEF Calls
<1>4. Exclusion'
  <2> SUFFICES ASSUME NEW u \in Thread, NEW v \in Thread, u # v
      PROVE Apart(call'[u], call'[v])
    BY DEF Exclusion
  <2>1. CASE u = t
    BY <1>2, <2>1
  <2>2. CASE v = t
    <3>1. Apart(c, call[u]) /\ call'[u] = call[u] /\ call'[v] = c
      BY <1>2, <2>2
    <3> QED
      BY <3>1 DEF Apart
  <2>3. CASE u # t /\ v # t
    BY <1>2, <2>3 DEF RbacInv, Exclusion
  <2> QED
    BY <2>1, <2>2, <2>3
<1>5. ChecksRead'
  <2> SUFFICES ASSUME NEW u \in Thread PROVE Reads(call[u])'
    BY DEF ChecksRead
  <2>1. PICK d : d = call'[u]
    OBVIOUS
  <2>2. Reads(d)
    <3>1. CASE u = t
      BY <1>2, <2>1, <3>1
    <3>2. CASE u # t
      BY <1>2, <2>1, <3>2 DEF RbacInv, ChecksRead
    <3> QED
      BY <3>1, <3>2
  <2> QED
    BY <2>1, <2>2, SameMaps DEF Reads
<1> QED
  BY <1>3, <1>4, <1>5 DEF RbacInv

LEMMA CallStep ==
  ASSUME RbacInv, NEW t \in Thread, NEW q \in Request, Call(t, q)
  PROVE  RbacInv'
<1>1. PICK a : a = IF q.op = "check" THEN {Effective(NamesOf(q.subject))} ELSE {}
  OBVIOUS
<1>2. PICK c : c = [Idle EXCEPT !.req = q, !.stage = 1, !.answers = a]
  OBVIOUS
<1>3. c = [req |-> q, stage |-> 1, held |-> 0, queued |-> FALSE, names |-> {}, answers |-> a]
  BY <1>2 DEF Idle
<1>4. call' = [call EXCEPT ![t] = c] /\ UNCHANGED <<roles, bindings>>
  BY <1>1, <1>2 DEF Call
<1>5. Begun(c)
  <2>1. \A op \in OpName : 1 \in 1..Len(Stages(op)) /\ Len(Stages(op)[1]) \in Nat
    BY LocksOf DEF OpName
  <2>2. c.held = 0 /\ c.stage = 1 /\ c.req = q /\ c.queued = FALSE /\ c.names = {} /\ c.answers = a
    BY <1>3
  <2>3. c.stage \in 1..Len(Stages(c.req.op)) /\ c.held \in 0..LockCount(c)
    BY <2>1, <2>2, RequestOp DEF LockCount
  <2> QED
    BY <1>3, <2>2, <2>3, RequestOp DEF Begun
<1>6. \A u \in Thread : Apart(c, call[u])
  BY <1>3 DEF Apart, HoldsIn
<1>7. Reads(c)
  BY <1>1, <1>3 DEF Reads
<1> QED
  BY <1>4, <1>5, <1>6, <1>7, OneCall

LEMMA QueueStep ==
  ASSUME RbacInv, NEW t \in Thread, Queue(t)
  PROVE  RbacInv'
<1>1. PICK was : was = call[t]
  OBVIOUS
<1>2. Begun(was)
  BY <1>1 DEF RbacInv, Calls, Queue, Busy
<1>3. PICK c : c = [was EXCEPT !.queued = TRUE]
  OBVIOUS
<1>4. c = [req |-> was.req, stage |-> was.stage, held |-> was.held, queued |-> TRUE,
           names |-> was.names, answers |-> was.answers]
  BY <1>2, <1>3, Zenon DEF Begun
<1>5. call' = [call EXCEPT ![t] = c] /\ UNCHANGED <<roles, bindings>>
  BY <1>1, <1>3 DEF Queue
<1>6. Begun(c)
  BY <1>2, <1>4 DEF Begun, LockCount
<1>7. ASSUME NEW u \in Thread \ {t} PROVE Apart(c, call[u])
  <2>1. Apart(was, call[u])
    BY <1>1 DEF RbacInv, Exclusion
  <2> QED
    BY <1>2, <1>4, <1>6, <2>1, BegunCall DEF Apart, HoldsIn, LockAt
<1>8. Reads(c)
  BY <1>1, <1>4 DEF RbacInv, ChecksRead, Reads
<1> QED
  BY <1>5, <1>6, <1>7, <1>8, OneCall

LEMMA AcquireStep ==
  ASSUME RbacInv, NEW t \in Thread, Acquire(t)
  PROVE  RbacInv'
<1>1. PICK was : was = call[t]
  OBVIOUS
<1>2. Begun(was)
  BY <1>1 DEF RbacInv, Calls, Acquire, Busy
<1>3. PICK k, lock : k = was.held + 1 /\ lock = LockAt(was, k)
  OBVIOUS
<1>4. /\ was # Idle /\ was.held \in Nat /\ LockCount(was) \in Nat /\ k \in 1..LockCount(was)
      /\ lock \in {"bindings", "roles"} /\ lock = Wanted(t)
  <2>1. was # Idle /\ was.held \in 0..LockCount(was) /\ LockCount(was) \in 1..2
    BY <1>2, BegunCall DEF Begun
  <2>2. was.held # LockCount(was) /\ Wanted(t) = LockAt(was, was.held + 1)
    BY <1>1 DEF Acquire, HoldsAll, Locks, Op, LockCount, LockAt, Wanted
  <2>3. k \in 1..LockCount(was)
    BY <1>3, <2>1, <2>2
  <2> QED
    BY <1>2, <1>3, <2>1, <2>2, <2>3, BegunCall
<1>5. PICK n : n = IF was.req.op = "check" /\ lock = "bindings"
                   THEN NamesOf(was.req.subject) ELSE was.names
  OBVIOUS
<1>6. PICK c : c = [was EXCEPT !.held = k, !.queued = FALSE, !.names = n]
  OBVIOUS
<1>7. c = [req |-> was.req, stage |-> was.stage, held |-> k, queued |-> FALSE,
           names |-> n, answers |-> was.answers]
  BY <1>2, <1>6, Zenon DEF Begun
<1>8. call' = [call EXCEPT ![t] = c] /\ UNCHANGED <<roles, bindings>>
  BY <1>1, <1>3, <1>4, <1>5, <1>6 DEF Acquire, Op
<1>9. Begun(c)
  <2>1. LockCount(c) = LockCount(was) /\ c.held = k /\ c.req = was.req /\ c.stage = was.stage
        /\ c.queued = FALSE /\ c.names = n /\ c.answers = was.answers
    BY <1>7 DEF LockCount
  <2>2. c.held \in 0..LockCount(c)
    BY <1>4, <2>1
  <2> QED
    BY <1>2, <1>7, <2>1, <2>2, Zenon DEF Begun
<1>10. ASSUME NEW l, HoldsIn(c, l) PROVE HoldsIn(was, l) \/ l = lock
  <2>1. PICK i \in 1..k : LockAt(c, i) = l
    BY <1>7, <1>10 DEF HoldsIn
  <2>2. LockAt(c, i) = LockAt(was, i)
    BY <1>7 DEF LockAt
  <2>3. i = k \/ i \in 1..was.held
    BY <1>3, <1>4
  <2> QED
    BY <1>3, <1>4, <2>1, <2>2, <2>3 DEF HoldsIn
<1>11. ASSUME NEW u \in Thread \ {t} PROVE Apart(c, call[u])
  <2>1. Apart(was, call[u])
    BY <1>1 DEF RbacInv, Exclusion
  <2>2. HoldsIn(call[u], lock) => ~ Exclusive(was.req.op) /\ ~ Exclusive(call[u].req.op)
    <3>1. HoldsIn(call[u], lock) => Holds(u, Wanted(t))
      BY <1>4 DEF HoldsIn, Holds, Busy, Locks, Op, LockAt
    <3> QED
      BY <1>1, <3>1 DEF Acquire, Free, Op
  <2>3. c.req = was.req
    BY <1>7
  <2> QED
    BY <1>10, <2>1, <2>2, <2>3 DEF Apart
<1>12. Reads(c)
  <2> SUFFICES ASSUME c.req.op = "check", NEW s \in Subject, s = c.req.subject
      PROVE Effective(NamesOf(s)) \in c.answers /\ c.names = NamesOf(s)
    BY DEF Reads
  <2>1. was.req.op = "check" /\ s = was.req.subject /\ c.answers = was.answers /\ c.names = n
    BY <1>7
  <2>2. Effective(NamesOf(s)) \in was.answers /\ (was.held >= 1 => was.names = NamesOf(s))
    BY <1>1, <2>1 DEF RbacInv, ChecksRead, Reads
  <2>3. CASE lock = "bindings"
    BY <1>5, <2>1, <2>2, <2>3
  <2>4. CASE lock # "bindings"
    <3>1. k # 1
      BY <1>2, <1>3, <2>1, <2>4, BegunCall
    <3>2. was.held >= 1
      BY <1>3, <1>4, <3>1
    <3> QED
      BY <1>5, <2>1, <2>2, <2>4, <3>2
  <2> QED
    BY <2>3, <2>4
<1> QED
  BY <1>8, <1>9, <1>11, <1>12, OneCall

\* The other calls after a step of work: only what checks may answer grows.
LEMMA WitnessKeeps ==
  ASSUME NEW c, NEW w, c = Idle \/ Begun(c), w = Witness(c)
  PROVE  /\ w = Idle \/ Begun(w)
         /\ w.req = c.req /\ w.held = c.held /\ w.names = c.names
         /\ \A lock : HoldsIn(w, lock) <=> HoldsIn(c, lock)
         /\ c.req.op = "check" =>
              \A s \in Subject : s = c.req.subject => Effective(NamesOf(s))' \in w.answers
<1>1. CASE c.req.op # "check"
  BY <1>1 DEF Witness
<1>2. CASE c.req.op = "check"
  <2>1. Begun(c) /\ c # Idle
    BY <1>2, IdleCall, BegunCall
  <2>2. PICK a : a = c.answers \cup {Effective(NamesOf(s))' : s \in {c.req.subject}}
    OBVIOUS
  <2>3. w = [c EXCEPT !.answers = a]
    BY <1>2, <2>2 DEF Witness
  <2>4. w = [req |-> c.req, stage |-> c.stage, held |-> c.held, queued |-> c.queued,
             names |-> c.names, answers |-> a]
    BY <2>1, <2>3, Zenon DEF Begun
  <2>5. /\ w.req = c.req /\ w.stage = c.stage /\ w.held = c.held /\ w.queued = c.queued
        /\ w.names = c.names /\ w.answers = a
    BY <2>4
  <2>6. Begun(w)
    BY <2>1, <2>4, <2>5, Zenon DEF Begun, LockCount
  <2>7. \A lock : HoldsIn(w, lock) <=> HoldsIn(c, lock)
    BY <2>1, <2>5, <2>6, BegunCall DEF HoldsIn, LockAt
  <2> QED
    BY <2>2, <2>5, <2>6, <2>7
<1> QED
  BY <1>1, <1>2

\* What the thread that worked goes on with: nothing, or the second half of an
\* import, with no lock taken.
LEMMA WorkedOn ==
  ASSUME RbacInv, NEW t \in Thread, Work(t)
  PROVE  /\ call'[t] = Idle \/ Begun(call'[t])
         /\ \A lock : ~ HoldsIn(call'[t], lock)
         /\ call'[t].req.op # "check"
<1>1. PICK c : c = call[t]
  OBVIOUS
<1>2. Begun(c)
  BY <1>1 DEF RbacInv, Calls, Work, Busy
<1>3. /\ call'[t] = Idle
      \/ /\ call'[t] = [c EXCEPT !.stage = c.stage + 1, !.held = 0]
         /\ c.stage # Len(Stages(c.req.op))
  BY <1>1 DEF Work
<1>4. CASE call'[t] = Idle
  BY <1>4, IdleCall
<1>5. CASE /\ call'[t] = [c EXCEPT !.stage = c.stage + 1, !.held = 0]
           /\ c.stage # Len(Stages(c.req.op))
  <2>1. PICK w : w = call'[t]
    OBVIOUS
  <2>2. PICK k : k = c.stage + 1
    OBVIOUS
  <2>3. w = [req |-> c.req, stage |-> k, held |-> 0, queued |-> c.queued,
             names |-> c.names, answers |-> c.answers]
    BY <1>2, <1>5, <2>1, <2>2, Zenon DEF Begun
  <2>4. c.req.op \in OpName /\ c.stage \in 1..Len(Stages(c.req.op))
    BY <1>2 DEF Begun
  <2>5. c.req.op = "import"
    BY <1>5, <2>4, LocksOf DEF OpName
  <2>6. k \in 1..Len(Stages(c.req.op)) /\ Len(Stages(c.req.op)[k]) \in Nat
    BY <1>5, <2>2, <2>4, <2>5, LocksOf
  <2>7. Begun(w)
    BY <2>3, <2>4, <2>5, <2>6 DEF Begun, LockCount
  <2>8. w.held = 0 /\ w.req.op # "check"
    BY <2>3, <2>5
  <2> QED
    BY <2>1, <2>7, <2>8 DEF HoldsIn
<1> QED
  BY <1>3, <1>4, <1>5

LEMMA WorkStep ==
  ASSUME RbacInv, NEW t \in Thread, Work(t)
  PROVE  RbacInv'
<1>1. DOMAIN call' = Thread /\ \A u \in Thread \ {t} : call'[u] = Witness(call[u])
  BY DEF Work
<1>2. \A u \in Thread : call[u] = Idle \/ Begun(call[u])
  BY DEF RbacInv, Calls
<1>3. ASSUME NEW u \in Thread \ {t}
      PROVE  /\ call'[u] = Idle \/ Begun(call'[u])
             /\ call'[u].req = call[u].req /\ call'[u].held = call[u].held
             /\ call'[u].names = call[u].names
             /\ \A lock : HoldsIn(call'[u], lock) <=> HoldsIn(call[u], lock)
             /\ call[u].req.op = "check" =>
                  \A s \in Subject :
                    s = call[u].req.subject => Effective(NamesOf(s))' \in call'[u].answers
  <2>1. PICK c, w : c = call[u] /\ w = call'[u]
    OBVIOUS
  <2>2. w = Witness(c) /\ (c = Idle \/ Begun(c))
    BY <1>1, <1>2, <2>1 DEF Witness
  <2> QED
    BY <2>1, <2>2, WitnessKeeps
<1>4. Calls'
  BY <1>1, <1>3, WorkedOn DEF Calls, Begun, LockCount
<1>5. Exclusion'
  <2> SUFFICES ASSUME NEW u \in Thread, NEW v \in Thread, u # v
      PROVE Apart(call'[u], call'[v])
    BY DEF Exclusion
  <2>1. CASE u = t \/ v = t
    BY <2>1, WorkedOn DEF Apart
  <2>2. CASE u # t /\ v # t
    <3>1. Apart(call[u], call[v])
      BY DEF RbacInv, Exclusion
    <3> QED
      BY <1>3, <2>2, <3>1 DEF Apart
  <2> QED
    BY <2>1, <2>2
<1>6. ASSUME NEW u \in Thread \ {t}, call[u].req.op = "check", call[u].held >= 1
      PROVE  bindings' = bindings
  <2>1. Begun(call[u])
    BY <1>2, <1>6, IdleCall
  <2>2. HoldsIn(call[u], "bindings")
    BY <1>6, <2>1, BegunCall DEF HoldsIn
  <2>3. Begun(call[t])
    BY <1>2 DEF Work, Busy
  <2>4. Apart(call[t], call[u])
    BY DEF RbacInv, Exclusion
  <2> QED
    BY <2>2, <2>3, <2>4, WriterHolds DEF Apart
<1>7. ChecksRead'
  <2> SUFFICES ASSUME NEW u \in Thread, call'[u].req.op = "check",
                      NEW s \in Subject, s = call'[u].req.subject
      PROVE /\ Effective(NamesOf(s))' \in call'[u].answers
            /\ call'[u].held >= 1 => call'[u].names = NamesOf(s)'
    BY DEF ChecksRead, Reads
  <2>1. u # t
    BY WorkedOn
  <2>2. Effective(NamesOf(s))' \in call'[u].answers
    BY <1>3, <2>1
  <2>3. ASSUME call'[u].held >= 1 PROVE call'[u].names = NamesOf(s)'
    <3>1. call[u].names = NamesOf(s) /\ bindings' = bindings
      BY <1>3, <1>6, <2>1, <2>3 DEF RbacInv, ChecksRead, Reads
    <3> QED
      BY <1>3, <2>1, <3>1 DEF NamesOf
  <2> QED
    BY <2>2, <2>3
<1> QED
  BY <1>4, <1>5, <1>7 DEF RbacInv

-----------------------------------------------------------------------------
(* Theorem *)

LEMMA RbacStarts == RbacInit => RbacInv
<1> SUFFICES ASSUME RbacInit PROVE RbacInv
  OBVIOUS
<1>1. DOMAIN call = Thread /\ \A t \in Thread : call[t] = Idle
  BY DEF RbacInit
<1> QED
  BY <1>1, IdleCall DEF RbacInv, Calls, Exclusion, Apart, ChecksRead, Reads

LEMMA RbacStep == RbacInv /\ [RbacNext]_rbacVars => RbacInv'
<1> SUFFICES ASSUME RbacInv, [RbacNext]_rbacVars PROVE RbacInv'
  OBVIOUS
<1>1. CASE UNCHANGED rbacVars
  <2>1. call' = call /\ roles' = roles /\ bindings' = bindings
    BY <1>1 DEF rbacVars
  <2>2. Calls' /\ Exclusion'
    BY <2>1 DEF RbacInv, Calls, Exclusion
  <2>3. ASSUME NEW u \in Thread PROVE Reads(call[u])'
    BY <2>1, SameMaps DEF RbacInv, ChecksRead, Reads
  <2> QED
    BY <2>2, <2>3 DEF RbacInv, ChecksRead
<1> QED
  BY <1>1, CallStep, QueueStep, AcquireStep, WorkStep DEF RbacNext

\* Rbac::check and effective_permissions answer what was true at one moment of
\* the call, however bindings and roles change around them.
THEOREM AlwaysAnswersAtOneMoment == RbacSpec => []AnswersAtOneMoment
<1>1. RbacInv => AnswersAtOneMoment
  <2> SUFFICES ASSUME RbacInv, NEW t \in Thread, Busy(t), Op(t) = "check", HoldsAll(t)
      PROVE Effective(call[t].names) \in call[t].answers
    BY DEF AnswersAtOneMoment
  <2>1. Begun(call[t]) /\ call[t].req.op = "check"
    BY DEF RbacInv, Calls, Busy, Op
  <2>2. call[t].held = 2
    BY <2>1, BegunCall DEF HoldsAll, Locks, Op, LockCount
  <2>3. PICK s \in Subject : s = call[t].req.subject
    BY <2>1 DEF Begun
  <2>4. Effective(NamesOf(s)) \in call[t].answers /\ call[t].names = NamesOf(s)
    BY <2>1, <2>2, <2>3 DEF RbacInv, ChecksRead, Reads
  <2> QED
    BY <2>4
<1> QED
  BY <1>1, RbacStarts, RbacStep, PTL DEF RbacSpec

----------------------------------------------------------------------------
(* The monitor.                                                           *)

Loop == [cancelled : BOOLEAN, due : BOOLEAN, gone : BOOLEAN, beats : Nat]

MonitorTypeOK ==
  /\ monitor \in [active : BOOLEAN, token : Nat]
  /\ loops \in [DOMAIN loops -> Loop]

\* Loops are numbered as they start, so the next number is free.
Numbered == \E n \in Nat : DOMAIN loops = 1..n

MonitorInv == MonitorTypeOK /\ Numbered /\ OneLoopWhileActive

\* The number of a loop about to start.
LEMMA NextNumber ==
  ASSUME NEW n \in Nat, DOMAIN loops = 1..n
  PROVE  Cardinality(DOMAIN loops) = n
BY FS_Interval

\* Starting, stopping and the steps of a loop keep the invariant: only a start
\* makes a loop that is not cancelled, and a stop reaches the only one.
LEMMA MonitorStep == MonitorInv /\ [MonitorNext]_monitorVars => MonitorInv'
<1> SUFFICES ASSUME MonitorInv, [MonitorNext]_monitorVars PROVE MonitorInv'
  OBVIOUS
<1> USE DEF MonitorInv
<1>1. CASE MonitorStart
  <2>1. PICK n \in Nat : DOMAIN loops = 1..n
    BY DEF Numbered
  <2>2. /\ ~ monitor.active
        /\ loops' = [k \in 1..(n + 1) |-> IF k = n + 1 THEN NewLoop ELSE loops[k]]
        /\ monitor' = [active |-> TRUE, token |-> n + 1]
    <3>1. 1..n \cup {n + 1} = 1..(n + 1)
      OBVIOUS
    <3>2. Cardinality(DOMAIN loops) = n
      BY <2>1, NextNumber
    <3>3. DOMAIN loops \cup {n + 1} = 1..(n + 1)
      BY <2>1, <3>1
    <3>4. ~ monitor.active
      BY <1>1 DEF MonitorStart
    <3>5. loops' = [k \in DOMAIN loops \cup {n + 1} |-> IF k = n + 1 THEN NewLoop ELSE loops[k]]
      BY <1>1, <3>2 DEF MonitorStart
    <3>6. monitor' = [active |-> TRUE, token |-> n + 1]
      BY <1>1, <3>2 DEF MonitorStart
    <3> QED BY <3>3, <3>4, <3>5, <3>6
  <2>3. MonitorTypeOK'
    BY <2>1, <2>2 DEF MonitorTypeOK, Loop, NewLoop
  <2>4. Numbered'
    BY <2>2 DEF Numbered
  <2>5. \A l \in 1..n : loops[l].cancelled
    BY <2>1, <2>2 DEF OneLoopWhileActive
  <2>6. OneLoopWhileActive'
    BY <2>2, <2>5 DEF OneLoopWhileActive, NewLoop
  <2> QED
    BY <2>3, <2>4, <2>6
<1>2. CASE MonitorStop
  <2>1. MonitorTypeOK' /\ Numbered'
    BY <1>2 DEF MonitorTypeOK, Numbered, MonitorStop, Loop, NoLoop
  <2>2. \A l \in DOMAIN loops : loops'[l].cancelled
    BY <1>2 DEF MonitorStop, MonitorTypeOK, Loop, OneLoopWhileActive
  <2> QED
    BY <1>2, <2>1, <2>2 DEF MonitorStop, OneLoopWhileActive
<1>3. ASSUME NEW l \in DOMAIN loops, SleepEnds(l) \/ LoopBreaks(l) \/ Heartbeat(l)
      PROVE MonitorInv'
  <2>1. /\ monitor' = monitor
        /\ DOMAIN loops' = DOMAIN loops
        /\ \A k \in DOMAIN loops : loops'[k] \in Loop /\ loops'[k].cancelled = loops[k].cancelled
    <3>1. loops[l] \in Loop /\ loops \in [DOMAIN loops -> Loop]
      BY DEF MonitorTypeOK
    <3>2. CASE SleepEnds(l)
      BY <3>1, <3>2 DEF SleepEnds, Loop
    <3>3. CASE LoopBreaks(l)
      BY <3>1, <3>3 DEF LoopBreaks, Loop
    <3>4. CASE Heartbeat(l)
      <4> DEFINE was == loops[l]
                 beaten == [was EXCEPT !.due = FALSE, !.beats = was.beats + 1,
                                       !.gone = was.cancelled]
      <4>1. beaten \in Loop /\ beaten.cancelled = was.cancelled
        <5>1. was \in Loop /\ was.beats + 1 \in Nat
          BY <3>1 DEF Loop
        <5> HIDE DEF was
        <5> QED
          BY <5>1, Zenon DEF Loop
      <4>2. loops' = [loops EXCEPT ![l] = beaten] /\ monitor' = monitor
        BY <3>4, Zenon DEF Heartbeat
      <4> HIDE DEF beaten
      <4> QED
        BY <3>1, <4>1, <4>2
    <3> QED
      BY <1>3, <3>2, <3>3, <3>4
  <2>2. loops' = [k \in DOMAIN loops' |-> loops'[k]]
    BY <1>3 DEF SleepEnds, LoopBreaks, Heartbeat, MonitorTypeOK
  <2>3. MonitorTypeOK' /\ Numbered'
    BY <2>1, <2>2 DEF MonitorTypeOK, Numbered
  <2> QED
    BY <2>1, <2>3 DEF OneLoopWhileActive
<1>4. CASE UNCHANGED monitorVars
  BY <1>4 DEF monitorVars, MonitorTypeOK, Numbered, OneLoopWhileActive
<1> QED
  BY <1>1, <1>2, <1>3, <1>4 DEF MonitorNext

\* The monitor of commands/monitor.rs is active exactly while one heartbeat loop
\* is not cancelled, however starts, stops and late beats interleave.
THEOREM OneLoopAlways == MonitorSpec => []OneLoopWhileActive
<1>1. MonitorInit => MonitorInv
  <2> SUFFICES ASSUME MonitorInit PROVE MonitorInv
    OBVIOUS
  <2>1. DOMAIN loops = 1..0
    BY DEF MonitorInit
  <2> QED
    BY <2>1 DEF MonitorInit, MonitorInv, MonitorTypeOK, Numbered, OneLoopWhileActive, NoLoop, Loop
<1>2. MonitorInv => OneLoopWhileActive
  BY DEF MonitorInv
<1> QED
  BY <1>1, <1>2, MonitorStep, PTL DEF MonitorSpec

----------------------------------------------------------------------------
(* Expiry and drops.                                                      *)

\* What the watch list holds: entries the owner made, watched or paused.
Watchable == WatchEntry \cup {[e EXCEPT !.active = FALSE] : e \in WatchEntry}

ExpiryInv == today \in Moment /\ watched \in Seq(Watchable)

\* Whole units of a length of time: n units have passed when n times the unit has,
\* and it takes more than nothing, or less than nothing, to count one.
LEMMA WholeUnits ==
  ASSUME NEW unit \in {Hour, Day}, NEW time \in Int
  PROVE  /\ Units(unit, time) \in Int
         /\ \A n \in Nat : n > 0 => (Units(unit, time) >= n <=> time >= unit * n)
         /\ \A n \in Nat : Units(unit, time) <= n <=> time < unit * (n + 1)
         /\ Units(unit, time) < 0 => time < 0
<1>1. CASE unit = 60
  BY <1>1 DEF Units
<1>2. CASE unit = 1440
  BY <1>2 DEF Units
<1> QED BY <1>1, <1>2 DEF Hour, Day

\* The phases and the drop of any expiry date at any time.
LEMMA PhaseAndDrop ==
  ASSUME NEW e, e.expiry \in Int, NEW t \in Nat, Expiry(e, t).phase # "unknown"
  PROVE  LET x == Expiry(e, t)
             hours == HoursUntilDrop(x, t)
         IN /\ x.phase = "deleted" <=> t >= x.drop
            /\ hours > 0 => x.phase # "deleted"
            /\ hours < 0 => x.phase = "deleted"
            /\ IsCatchable(x) <=> x.drop - 35 * Day <= t /\ t < x.drop
            /\ IsHot(x, t) => x.phase \in {"pending_delete", "deleted"}
            /\ IsOverdue(x, t) => x.phase = "deleted"
<1> DEFINE x == Expiry(e, t)
           g == Grace(e.registrar)
           n == g.auto
           h == t - e.expiry
           d == DaysIn(h)
           hours == HoursUntilDrop(x, t)
<1>1. n \in {25, 40, 29, 30} /\ g.redemption = 30 /\ g.delete = 5 /\ TotalDays(g) = n + 35
  BY DEF Grace, TotalDays
<1>2. h \in Int /\ e.expiry \in Int
  OBVIOUS
<1>3. /\ x.phase = PhaseAt(e.expiry, g, t)
      /\ x.drop = e.expiry + Day * (n + 35)
  BY <1>1 DEF Expiry
<1>4. /\ d \in Int
      /\ d >= n <=> h >= Day * n
      /\ d >= n + 35 <=> h >= Day * (n + 35)
      /\ d >= n + 30 <=> h >= Day * (n + 30)
  <2> HIDE DEF h
  <2>1. n \in Nat /\ n > 0 /\ n + 35 \in Nat /\ n + 30 \in Nat /\ n + 35 > 0 /\ n + 30 > 0
    BY <1>1
  <2> HIDE DEF n
  <2> QED BY <1>2, <2>1, WholeUnits DEF DaysIn
<1>5. LET phase == PhaseAt(e.expiry, g, t) IN
      /\ phase = "deleted" <=> d >= n + 35
      /\ phase \in {"redemption_grace", "pending_delete"} <=> d >= n /\ d < n + 35
      /\ d >= n + 30 => phase \in {"pending_delete", "deleted"}
  <2> HIDE DEF h
  <2>1. PhaseAt(e.expiry, g, t) =
          CASE d < -30 -> "active"
            [] -30 <= d /\ d < 0 -> "expiring_soon"
            [] 0 <= d /\ d < n -> "auto_renew_grace"
            [] n <= d /\ d < n + 30 -> "redemption_grace"
            [] n + 30 <= d /\ d < n + 35 -> "pending_delete"
            [] OTHER -> "deleted"
    BY <1>1 DEF PhaseAt, h
  <2> HIDE DEF d, n, g
  <2> QED BY <1>1, <1>4, <2>1
<1>6. /\ x.drop \in Int /\ x.drop - t = Day * (n + 35) - h
      /\ hours = Units(Hour, x.drop - t)
  <2> HIDE DEF x, n
  <2> QED BY <1>1, <1>2, <1>3 DEF HoursUntilDrop, HoursIn, Day, Hour
<1>7. /\ t >= x.drop <=> h >= Day * (n + 35)
      /\ t < x.drop <=> ~ (h >= Day * (n + 35))
      /\ x.drop - 35 * Day <= t <=> h >= Day * n
      /\ x.drop - t < 25 * Hour => h >= Day * (n + 30)
  <2> HIDE DEF h, n, x
  <2> QED BY <1>1, <1>2, <1>6 DEF Day, Hour
<1>8. /\ hours \in Int
      /\ hours > 0 => x.drop - t > 0
      /\ hours < 0 => x.drop - t < 0
      /\ hours <= 24 => x.drop - t < 25 * Hour
  <2> DEFINE left == x.drop - t
  <2>1. left \in Int
    BY <1>6
  <2> HIDE DEF left
  <2>2. /\ Units(Hour, left) \in Int
        /\ Units(Hour, left) >= 1 <=> left >= Hour * 1
        /\ Units(Hour, left) <= 24 <=> left < Hour * (24 + 1)
        /\ Units(Hour, left) < 0 => left < 0
    BY <2>1, WholeUnits
  <2>3. hours = Units(Hour, left)
    BY <1>6 DEF left
  <2> HIDE DEF hours
  <2>4. /\ hours > 0 => left > 0
        /\ hours <= 24 => left < 25 * Hour
    BY <2>1, <2>2, <2>3 DEF Hour
  <2> QED BY <2>2, <2>3, <2>4 DEF left
<1>9. /\ IsHot(x, t) => hours <= 24
      /\ IsOverdue(x, t) => hours < 0
  <2>1. /\ IsHot(x, t) => hours <= 24
        /\ IsOverdue(x, t) => hours < -48
    BY DEF IsHot, IsOverdue
  <2> HIDE DEF hours
  <2> QED BY <1>8, <2>1
<1> HIDE DEF x, h, d, n, g, hours
<1>10. x.phase = "deleted" <=> t >= x.drop
  BY <1>3, <1>4, <1>5, <1>7
<1>11. IsCatchable(x) <=> x.drop - 35 * Day <= t /\ t < x.drop
  BY <1>1, <1>3, <1>4, <1>5, <1>7 DEF IsCatchable
<1>12. IsHot(x, t) => x.phase \in {"pending_delete", "deleted"}
  BY <1>3, <1>4, <1>5, <1>7, <1>8, <1>9
<1>13. /\ hours > 0 => x.phase # "deleted"
       /\ hours < 0 => x.phase = "deleted"
  BY <1>6, <1>8, <1>10
<1>14. IsOverdue(x, t) => x.phase = "deleted"
  BY <1>9, <1>13
<1> QED BY <1>10, <1>11, <1>12, <1>13, <1>14 DEF x, hours

LEMMA WatchableExpiry ==
  ASSUME NEW e \in Watchable
  PROVE  e.expiry \in Int
BY ExpiryAssumption DEF Watchable

LEMMA PausedWatchable ==
  ASSUME NEW e \in Watchable
  PROVE  [e EXCEPT !.active = FALSE] \in Watchable
<1>1. CASE e \in WatchEntry
  BY <1>1 DEF Watchable
<1>2. ASSUME NEW f \in WatchEntry, e = [f EXCEPT !.active = FALSE]
      PROVE  [e EXCEPT !.active = FALSE] = e
  BY <1>2
<1> QED BY <1>1, <1>2 DEF Watchable

LEMMA ExpiryStep == ExpiryInv /\ [ExpiryNext]_expiryVars => ExpiryInv'
<1> SUFFICES ASSUME ExpiryInv, [ExpiryNext]_expiryVars
             PROVE  ExpiryInv'
  OBVIOUS
<1> USE DEF ExpiryInv
<1>1. ASSUME NEW t \in Moment, Today(t) PROVE ExpiryInv'
  BY <1>1 DEF Today
<1>2. ASSUME NEW e \in WatchEntry, Watch(e) PROVE ExpiryInv'
  <2>1. e \in Watchable
    BY DEF Watchable
  <2> QED BY <1>2, <2>1 DEF Watch
<1>3. ASSUME NEW domain, Unwatch(domain) PROVE ExpiryInv'
  BY <1>3, SiftType DEF Unwatch
<1>4. ASSUME NEW domain, PauseWatch(domain) PROVE ExpiryInv'
  <2> DEFINE mine == {i \in DOMAIN watched : watched[i].domain = domain}
             j == CHOOSE i \in mine : \A k \in mine : i <= k
  <2>1. mine # {} /\ mine \subseteq Nat /\ DOMAIN watched = 1..Len(watched)
    BY <1>4 DEF PauseWatch
  <2>2. j \in mine
    <3> HIDE DEF mine
    <3> QED BY <2>1, LeastNumber
  <2>3. watched' = [watched EXCEPT ![j] = [watched[j] EXCEPT !.active = FALSE]] /\ today' = today
    BY <1>4, <2>2 DEF PauseWatch
  <2>4. j \in 1..Len(watched) /\ watched[j] \in Watchable
    BY <2>1, <2>2
  <2> HIDE DEF j
  <2>5. [watched[j] EXCEPT !.active = FALSE] \in Watchable
    BY <2>4, PausedWatchable
  <2> QED BY <2>3, <2>4, <2>5
<1>5. CASE UNCHANGED <<today, watched>>
  BY <1>5
<1> QED BY <1>1, <1>2, <1>3, <1>4, <1>5 DEF ExpiryNext, expiryVars, Upsert, RemoveRow

\* The phase of a watched domain (domain.rs), counted in whole days, and its drop
\* (dropcatch.rs), counted in whole hours, agree at every minute before and after
\* every expiry date, for the grace of every registrar.
THEOREM PhaseAlwaysAgrees == ExpirySpec => []PhaseAgreesWithDrop
<1>1. ExpiryInit => ExpiryInv
  <2>1. \E t \in Moment : \A u \in Moment : t <= u
    BY ExpiryAssumption, LeastNumber
  <2> QED BY <2>1 DEF ExpiryInit, ExpiryInv
<1>2. ExpiryInv => PhaseAgreesWithDrop
  <2> SUFFICES ASSUME ExpiryInv, NEW i \in DOMAIN watched,
                      Expiry(watched[i], today).phase # "unknown"
               PROVE  LET x == Expiry(watched[i], today)
                          hours == HoursUntilDrop(x, today)
                      IN /\ x.phase = "deleted" <=> today >= x.drop
                         /\ hours > 0 => x.phase # "deleted"
                         /\ hours < 0 => x.phase = "deleted"
                         /\ IsCatchable(x) <=> x.drop - 35 * Day <= today /\ today < x.drop
                         /\ IsHot(x, today) => x.phase \in {"pending_delete", "deleted"}
                         /\ IsOverdue(x, today) => x.phase = "deleted"
    BY DEF PhaseAgreesWithDrop
  <2>1. watched[i].expiry \in Int /\ today \in Nat
    BY WatchableExpiry, ExpiryAssumption DEF ExpiryInv
  <2> QED BY <2>1, PhaseAndDrop
<1> QED BY <1>1, <1>2, ExpiryStep, PTL DEF ExpirySpec

----------------------------------------------------------------------------
(* The command line.                                                      *)

(***************************************************************************)
(* The permits that are taken are the tasks that are looking up, so a task *)
(* that gets a permit is one lookup within the limit.                      *)
(***************************************************************************)
TaskState == {"waiting", "active", "answered", "lost"}

\* A task, whatever it is a task for.
IsTask(t) ==
  /\ t = [domain |-> t.domain, state |-> t.state, result |-> t.result]
  /\ t.state \in TaskState

LookingUp == {i \in DOMAIN task : task[i].state = "active"}

CliInv ==
  /\ bulk \in [phase : {"new", "open", "done", "failed"}, type : Command, permits : Nat,
               taken : Nat]
  /\ task = [i \in DOMAIN task |-> task[i]]
  /\ DOMAIN task \subseteq TaskIndex
  /\ \A i \in DOMAIN task : IsTask(task[i])
  /\ bulk.taken = Cardinality(LookingUp)

LEMMA LookingUpIsFinite ==
  ASSUME CliInv
  PROVE  IsFiniteSet(LookingUp)
<1>1. MaxTasks \in Int /\ 1 \in Int
  BY CommandLineAssumption
<1>2. IsFiniteSet(TaskIndex)
  BY <1>1, FS_Interval DEF TaskIndex
<1>3. LookingUp \subseteq TaskIndex
  BY DEF LookingUp, CliInv
<1> QED BY <1>2, <1>3, FS_Subset

\* The number of names of a list is a number.
LEMMA DomainsCounted ==
  ASSUME NEW words \in WordFile, NEW tlds \in TldList, Len(DomainsOf(words, tlds)) <= MaxTasks
  PROVE  DOMAIN DomainsOf(words, tlds) \subseteq TaskIndex
<1> DEFINE kept == Sift(words, {i \in DOMAIN words : words[i] # ""})
           n == Len(kept) * Len(tlds)
<1>1. words \in Seq(STRING) /\ tlds \in Seq(STRING) /\ MaxTasks \in Nat
  BY CommandLineAssumption
<1>2. kept \in Seq(STRING)
  BY <1>1, SiftType
<1>3. Len(kept) \in Nat /\ Len(tlds) \in Nat
  <2> HIDE DEF kept
  <2> QED BY <1>1, <1>2
<1>4. n \in Nat
  <2> HIDE DEF kept
  <2> QED BY <1>3
<1> DEFINE names == DomainsOf(words, tlds)
<1>5. names = [i \in 1..n |-> <<kept[((i - 1) \div Len(tlds)) + 1], tlds[((i - 1) % Len(tlds)) + 1]>>]
  BY DEF DomainsOf
<1> HIDE DEF kept, n
<1>6. DOMAIN names = 1..n
  BY <1>5
<1>7. Len(names) = n
  BY <1>4, <1>6
<1>8. n <= MaxTasks
  BY <1>7
<1> HIDE DEF names
<1>9. 1..n \subseteq 1..MaxTasks
  BY <1>1, <1>4, <1>8
<1> QED BY <1>6, <1>9 DEF TaskIndex, names

(***************************************************************************)
(* The steps of the invariant and of the pool, together.                   *)
(***************************************************************************)
PoolMoves == CliInv' /\ [Pool!Next]_(Pool!vars)

LEMMA StartingBegins ==
  ASSUME CliInv, NEW words \in WordFile, NEW tlds \in TldList, NEW permits \in Permits,
         NEW type \in Command, StartBulk(words, tlds, permits, type)
  PROVE  PoolMoves
<1> PICK names : names = DomainsOf(words, tlds)
  OBVIOUS
<1>1. DOMAIN names \subseteq TaskIndex
  BY DomainsCounted DEF StartBulk
<1>2. /\ bulk.phase = "new"
      /\ bulk' = [phase |-> "open", type |-> type, permits |-> permits, taken |-> 0]
      /\ task' = [i \in DOMAIN names |-> [domain |-> names[i], state |-> "waiting", result |-> ""]]
  BY DEF StartBulk
<1>3. CliInv'
  <2>1. permits \in Nat
    BY CommandLineAssumption
  <2>2. bulk' \in [phase : {"new", "open", "done", "failed"}, type : Command, permits : Nat,
                   taken : Nat]
    BY <1>2, <2>1
  <2>3. \A i \in DOMAIN task' : IsTask(task'[i]) /\ task'[i].state = "waiting"
    BY <1>2 DEF IsTask, TaskState
  <2>4. LookingUp' = {}
    BY <2>3 DEF LookingUp
  <2>5. bulk'.taken = Cardinality(LookingUp')
    BY <1>2, <2>4, FS_EmptySet
  <2> QED BY <1>1, <1>2, <2>2, <2>3, <2>5 DEF CliInv
<1>4. Pool!Begin("cli", DOMAIN names, permits)
  <2>1. Status = "new" /\ Status' = "open" /\ bulk'.permits = permits
    BY <1>2 DEF Status
  <2>2. Outcomes' = [i \in TaskIndex |-> IF i \in DOMAIN names THEN "waiting" ELSE "none"]
    BY <1>1, <1>2 DEF Outcomes
  <2> QED BY <2>1, <2>2 DEF Pool!Begin
<1>5. DOMAIN names \in SUBSET TaskIndex /\ "cli" \in {"cli"}
  BY <1>1
<1>6. Pool!Next
  BY <1>4, <1>5 DEF Pool!Next
<1> QED BY <1>3, <1>6 DEF PoolMoves

LEMMA TaskRewritten ==
  ASSUME NEW t, IsTask(t), NEW state, NEW result
  PROVE  [t EXCEPT !.state = state, !.result = result] =
           [domain |-> t.domain, state |-> state, result |-> result]
<1> PICK d : d = t.domain
  OBVIOUS
<1>1. t \in [domain : {d}, state : {t.state}, result : {t.result}]
  BY DEF IsTask
<1>2. [t EXCEPT !.state = state, !.result = result] \in
        [domain : {d}, state : {state}, result : {result}]
  BY <1>1
<1>3. \A x \in [domain : {d}, state : {state}, result : {result}] :
        x = [domain |-> d, state |-> state, result |-> result]
  OBVIOUS
<1> QED BY <1>2, <1>3

\* One task goes from a state to another.
LEMMA TaskMoves ==
  ASSUME CliInv, NEW i \in DOMAIN task, NEW state \in TaskState, NEW result,
         task' = [task EXCEPT ![i].state = state, ![i].result = result]
  PROVE  /\ task' = [j \in DOMAIN task' |-> task'[j]]
         /\ DOMAIN task' = DOMAIN task
         /\ \A j \in DOMAIN task : IsTask(task'[j])
         /\ LookingUp' = IF state = "active" THEN LookingUp \cup {i} ELSE LookingUp \ {i}
         /\ Outcomes' = [Outcomes EXCEPT ![i] = state]
<1>1. IsTask(task[i])
  BY DEF CliInv
<1>2. [task[i] EXCEPT !.state = state, !.result = result] =
        [domain |-> task[i].domain, state |-> state, result |-> result]
  BY <1>1, TaskRewritten
<1>3. task' = [task EXCEPT ![i] = [domain |-> task[i].domain, state |-> state, result |-> result]]
  BY <1>2
<1>4. DOMAIN task' = DOMAIN task /\ i \in TaskIndex
  BY <1>3 DEF CliInv
<1>5. /\ \A j \in DOMAIN task : j # i => task'[j] = task[j]
      /\ task'[i] = [domain |-> task[i].domain, state |-> state, result |-> result]
  BY <1>3
<1>6. \A j \in DOMAIN task : IsTask(task'[j])
  BY <1>5 DEF CliInv, IsTask
<1>7. LookingUp' = IF state = "active" THEN LookingUp \cup {i} ELSE LookingUp \ {i}
  BY <1>4, <1>5 DEF LookingUp
<1>8. Outcomes' = [Outcomes EXCEPT ![i] = state]
  BY <1>4, <1>5 DEF Outcomes
<1>9. task' = [j \in DOMAIN task' |-> task'[j]]
  BY <1>3
<1> QED BY <1>4, <1>6, <1>7, <1>8, <1>9

LEMMA AcquiringActivates ==
  ASSUME CliInv, NEW i \in DOMAIN task, AcquirePermit(i)
  PROVE  PoolMoves
<1> PICK result : result = task[i].result
  OBVIOUS
<1>1. /\ task[i].state = "waiting" /\ bulk.taken < bulk.permits
      /\ bulk' = [bulk EXCEPT !.taken = @ + 1]
      /\ task' = [task EXCEPT ![i].state = "active"]
  BY DEF AcquirePermit
<1>2. task' = [task EXCEPT ![i].state = "active", ![i].result = result]
  <2>1. IsTask(task[i])
    BY DEF CliInv
  <2>2. [task[i] EXCEPT !.state = "active"] =
          [task[i] EXCEPT !.state = "active", !.result = result]
    BY <2>1 DEF IsTask
  <2> QED BY <1>1, <2>2
<1>3. /\ task' = [j \in DOMAIN task' |-> task'[j]] /\ DOMAIN task' = DOMAIN task
      /\ \A j \in DOMAIN task : IsTask(task'[j])
      /\ LookingUp' = LookingUp \cup {i} /\ Outcomes' = [Outcomes EXCEPT ![i] = "active"]
  BY <1>2, TaskMoves DEF TaskState
<1>4. i \notin LookingUp /\ i \in TaskIndex
  BY <1>1 DEF LookingUp, CliInv
<1>5. Cardinality(LookingUp') = Cardinality(LookingUp) + 1
  BY <1>3, <1>4, LookingUpIsFinite, FS_AddElement
<1>6. /\ bulk' \in [phase : {"new", "open", "done", "failed"}, type : Command, permits : Nat,
                    taken : Nat]
      /\ bulk'.taken = bulk.taken + 1 /\ bulk'.permits = bulk.permits /\ bulk'.phase = bulk.phase
  BY <1>1 DEF CliInv
<1>7. CliInv'
  BY <1>3, <1>5, <1>6 DEF CliInv
<1>8. Pool!Active("cli") = LookingUp
  BY DEF Pool!Active, Outcomes, LookingUp, CliInv
<1>9. Pool!Activate("cli", i)
  <2>1. Outcomes[i] = "waiting"
    BY <1>1, <1>4 DEF Outcomes
  <2>2. Pool!Cardinality(Pool!Active("cli")) < bulk.permits
    <3>1. Pool!Cardinality(LookingUp) = Cardinality(LookingUp)
      BY DEF Pool!Cardinality, Cardinality
    <3> QED BY <1>1, <1>8, <3>1 DEF CliInv
  <2>3. Status' = Status
    BY <1>6 DEF Status
  <2>4. [run \in {"cli"} |-> Outcomes'] =
          [[run \in {"cli"} |-> Outcomes] EXCEPT !["cli"][i] = "active"]
    BY <1>3

  <2> DEFINE oc == [run \in {"cli"} |-> Outcomes]
             cp == [run \in {"cli"} |-> bulk.permits]
             st == [run \in {"cli"} |-> Status]
  <2>7. oc["cli"][i] = "waiting" /\ Pool!Cardinality(Pool!Active("cli")) < cp["cli"]
    BY <2>1, <2>2
  <2>8. oc' = [oc EXCEPT !["cli"][i] = "active"]
    BY <2>4
  <2>9. UNCHANGED <<cp, st>>
    BY <1>6, <2>3
  <2> HIDE DEF oc, cp, st
  <2> QED BY <2>7, <2>8, <2>9, Zenon DEF Pool!Activate, oc, cp, st
<1>10. Pool!Next
  BY <1>4, <1>9 DEF Pool!Next
<1> QED BY <1>7, <1>10 DEF PoolMoves

LEMMA FinishingSettles ==
  ASSUME CliInv, NEW i \in DOMAIN task, NEW state \in {"answered", "lost"}, NEW result,
         FinishTask(i, state, result)
  PROVE  PoolMoves
<1>1. /\ task[i].state = "active" /\ bulk' = [bulk EXCEPT !.taken = @ - 1]
      /\ task' = [task EXCEPT ![i].state = state, ![i].result = result]
  BY DEF FinishTask
<1>2. state \in TaskState /\ state # "active"
  BY DEF TaskState
<1>3. /\ task' = [j \in DOMAIN task' |-> task'[j]] /\ DOMAIN task' = DOMAIN task
      /\ \A j \in DOMAIN task : IsTask(task'[j])
      /\ LookingUp' = LookingUp \ {i} /\ Outcomes' = [Outcomes EXCEPT ![i] = state]
  BY <1>1, <1>2, TaskMoves
<1>4. i \in LookingUp /\ i \in TaskIndex
  BY <1>1 DEF LookingUp, CliInv
<1>5. Cardinality(LookingUp') = Cardinality(LookingUp) - 1 /\ Cardinality(LookingUp') \in Nat
  BY <1>3, <1>4, LookingUpIsFinite, FS_RemoveElement, FS_CardinalityType
<1>6. /\ bulk' \in [phase : {"new", "open", "done", "failed"}, type : Command, permits : Nat,
                    taken : Nat]
      /\ bulk'.taken = bulk.taken - 1 /\ bulk'.permits = bulk.permits /\ bulk'.phase = bulk.phase
  BY <1>1, <1>5 DEF CliInv
<1>7. CliInv'
  BY <1>3, <1>5, <1>6 DEF CliInv
<1>8. Pool!Settle("cli", i)
  <2>1. Outcomes[i] = "active"
    BY <1>1, <1>4 DEF Outcomes
  <2>2. Status' = Status
    BY <1>6 DEF Status
  <2>3. [run \in {"cli"} |-> Outcomes'] =
          [[run \in {"cli"} |-> Outcomes] EXCEPT !["cli"][i] = state]
    BY <1>3
  <2> QED BY <1>6, <2>1, <2>2, <2>3 DEF Pool!Settle
<1>9. Pool!Next
  BY <1>4, <1>8 DEF Pool!Next
<1> QED BY <1>7, <1>9 DEF PoolMoves

LEMMA SummaryCloses ==
  ASSUME CliInv, PrintSummary
  PROVE  PoolMoves
<1>1. PICK phase \in {"done", "failed"} :
        bulk.phase = "open" /\ task' = task /\ bulk' = [bulk EXCEPT !.phase = phase]
  BY DEF PrintSummary
<1>2. \A i \in DOMAIN task : task[i].state \in {"answered", "lost"}
  BY DEF PrintSummary
<1>3. /\ bulk' \in [phase : {"new", "open", "done", "failed"}, type : Command, permits : Nat,
                    taken : Nat]
      /\ bulk'.taken = bulk.taken /\ bulk'.permits = bulk.permits /\ bulk'.phase = phase
  BY <1>1 DEF CliInv
<1>4. LookingUp' = LookingUp /\ Outcomes' = Outcomes
  BY <1>1 DEF LookingUp, Outcomes
<1>5. CliInv'
  BY <1>1, <1>3, <1>4 DEF CliInv
<1>6. Pool!Close("cli")
  <2>1. Status = "open" /\ Status' = "closed"
    BY <1>1, <1>3 DEF Status
  <2>2. \A d \in TaskIndex : Outcomes[d] \in {"answered", "refused", "lost"} \cup {"none"}
    BY <1>2 DEF Outcomes
  <2> QED BY <1>3, <1>4, <2>1, <2>2 DEF Pool!Close, Pool!Settled
<1>7. Pool!Next
  BY <1>6 DEF Pool!Next
<1> QED BY <1>5, <1>7 DEF PoolMoves

LEMMA FilesApart ==
  ASSUME CliInv, UNCHANGED <<bulk, task>>
  PROVE  PoolMoves
<1>1. UNCHANGED <<LookingUp, Outcomes, Status>>
  BY DEF LookingUp, Outcomes, Status
<1>2. CliInv'
  BY <1>1 DEF CliInv
<1>3. UNCHANGED Pool!vars
  BY <1>1 DEF Pool!vars
<1> QED BY <1>2, <1>3 DEF PoolMoves

\* The bulk lookup of the command line keeps the promise of the application's,
\* for any word lists, concurrency and number of tasks.
THEOREM CliAlwaysImplementsPool == CliSpec => CliImplementsPool
<1>1. CliInit => CliInv /\ Pool!Init
  <2> SUFFICES ASSUME CliInit PROVE CliInv /\ Pool!Init
    OBVIOUS
  <2>1. /\ bulk = [phase |-> "new", type |-> "whois", permits |-> 0, taken |-> 0]
        /\ task = <<>> /\ DOMAIN task = {}
    BY DEF CliInit
  <2>2. LookingUp = {} /\ Cardinality({}) = 0
    BY <2>1, FS_EmptySet DEF LookingUp
  <2>3. CliInv
    BY <2>1, <2>2 DEF CliInv, Command
  <2>4. Outcomes = [i \in TaskIndex |-> "none"] /\ Status = "new" /\ bulk.permits = 0
    BY <2>1 DEF Outcomes, Status
  <2>5. Pool!Init
    BY <2>4 DEF Pool!Init
  <2> QED BY <2>3, <2>5
<1>2. CliInv /\ [CliNext]_cliVars => CliInv' /\ [Pool!Next]_(Pool!vars)
  <2> SUFFICES ASSUME CliInv, [CliNext]_cliVars PROVE PoolMoves
    BY DEF PoolMoves
  <2>1. ASSUME NEW words \in WordFile, NEW tlds \in TldList, NEW permits \in Permits,
               NEW type \in Command, StartBulk(words, tlds, permits, type)
        PROVE  PoolMoves
    BY <2>1, StartingBegins
  <2>2. ASSUME NEW i \in DOMAIN task, AcquirePermit(i) PROVE PoolMoves
    BY <2>2, AcquiringActivates
  <2>3. ASSUME NEW i \in DOMAIN task, NEW result, FinishTask(i, "answered", result)
        PROVE  PoolMoves
    BY <2>3, FinishingSettles
  <2>4. ASSUME NEW i \in DOMAIN task, FinishTask(i, "lost", "") PROVE PoolMoves
    BY <2>4, FinishingSettles
  <2>5. CASE PrintSummary
    BY <2>5, SummaryCloses
  <2>6. CASE \/ UnreadableList \/ LookUpOne \/ ShowConfig \/ ClearCache \/ ShowHistory
             \/ \E key \in ConfigKey : SetConfig(key)
             \/ \E readable \in BOOLEAN : ExportResults(readable)
    <3>1. UNCHANGED <<bulk, task>>
      BY <2>6 DEF UnreadableList, LookUpOne, ShowConfig, ClearCache, ShowHistory, SetConfig,
                  ExportResults, ExitsWith
    <3> QED BY <3>1, FilesApart
  <2>7. CASE UNCHANGED cliVars
    BY <2>7, FilesApart DEF cliVars
  <2> QED BY <2>1, <2>2, <2>3, <2>4, <2>5, <2>6, <2>7 DEF CliNext
<1> QED BY <1>1, <1>2, PTL DEF CliSpec, CliImplementsPool, Pool!Spec

(* Fusion: the order in which the sources answered.                       *)

Backwards(s) == Sequence!Reverse(s)

LEMMA BackwardsType ==
  ASSUME NEW S, NEW s \in Seq(S)
  PROVE  /\ Backwards(s) \in Seq(S) /\ Len(Backwards(s)) = Len(s)
         /\ \A i \in 1..Len(s) : Backwards(s)[i] = s[Len(s) - i + 1]
<1> PICK n, r : n = Len(s) /\ r = Backwards(s)
  OBVIOUS
<1>1. n \in Nat
  OBVIOUS
<1>2. r = [i \in 1..n |-> s[n - i + 1]]
  BY DEF Backwards, Sequence!Reverse
<1>3. \A i \in 1..n : n - i + 1 \in 1..n
  BY <1>1
<1>4. r = [i \in 1..n |-> r[i]] /\ \A i \in 1..n : r[i] \in S
  BY <1>2, <1>3
<1>5. r \in Seq(S) /\ Len(r) = n
  BY ONLY <1>1, <1>4
<1> QED BY <1>2, <1>5

LEMMA TwiceBackwards ==
  ASSUME NEW S, NEW s \in Seq(S)
  PROVE  Backwards(Backwards(s)) = s
<1> PICK n, r, t : n = Len(s) /\ r = Backwards(s) /\ t = Backwards(r)
  OBVIOUS
<1>1. n \in Nat /\ r \in Seq(S) /\ Len(r) = n /\ \A i \in 1..n : r[i] = s[n - i + 1]
  BY BackwardsType
<1>2. t \in Seq(S) /\ Len(t) = n /\ \A i \in 1..n : t[i] = r[n - i + 1]
  BY <1>1, BackwardsType
<1>3. \A i \in 1..n : n - i + 1 \in 1..n /\ n - (n - i + 1) + 1 = i
  BY <1>1
<1>4. \A i \in 1..n : t[i] = s[i]
  BY <1>1, <1>2, <1>3
<1>5. t = s
  BY <1>2, <1>4, SameSequence
<1> QED BY <1>5

\* One more element at the end of the one is one more at the end of the other.
LEMMA AppendBackwards ==
  ASSUME NEW S, NEW a \in Seq(S), NEW b \in Seq(S), NEW x \in S
  PROVE  Append(a, x) \o Backwards(b) = a \o Backwards(Append(b, x))
<1>0. PICK m, n, p, q, c, d : /\ m = Len(a) /\ n = Len(b)
                              /\ p = Append(a, x) /\ q = Append(b, x)
                              /\ c = Backwards(b) /\ d = Backwards(q)
  OBVIOUS
<1>1. /\ m \in Nat /\ n \in Nat
      /\ p \in Seq(S) /\ Len(p) = m + 1 /\ p[m + 1] = x /\ \A i \in 1..m : p[i] = a[i]
      /\ q \in Seq(S) /\ Len(q) = n + 1 /\ q[n + 1] = x /\ \A i \in 1..n : q[i] = b[i]
  BY <1>0
<1>2. c \in Seq(S) /\ Len(c) = n /\ \A i \in 1..n : c[i] = b[n - i + 1]
  BY <1>0, BackwardsType
<1>9. d \in Seq(S) /\ Len(d) = Len(q) /\ \A i \in 1..Len(q) : d[i] = q[Len(q) - i + 1]
  BY ONLY <1>0, <1>1, BackwardsType
<1>3. d \in Seq(S) /\ Len(d) = n + 1 /\ \A i \in 1..(n + 1) : d[i] = q[(n + 1) - i + 1]
  BY ONLY <1>1, <1>9
<1>4. d[1] = x /\ \A i \in 1..n : d[i + 1] = c[i]
  <2>1. 1 \in 1..(n + 1) /\ (n + 1) - 1 + 1 = n + 1
    BY <1>1
  <2>2. \A i \in 1..n : /\ i + 1 \in 1..(n + 1) /\ n - i + 1 \in 1..n
                        /\ (n + 1) - (i + 1) + 1 = n - i + 1
    BY <1>1
  <2>3. d[1] = x
    BY ONLY <1>1, <1>3, <2>1
  <2>4. ASSUME NEW i \in 1..n
        PROVE  d[i + 1] = c[i]
    <3>1. d[i + 1] = q[n - i + 1]
      BY ONLY <1>3, <2>2
    <3>2. q[n - i + 1] = b[n - i + 1]
      BY ONLY <1>1, <2>2
    <3> QED BY ONLY <1>2, <3>1, <3>2
  <2> QED BY ONLY <2>3, <2>4
<1>10. PICK u, v : u = p \o c /\ v = a \o d
  OBVIOUS
<1>11. /\ u \in Seq(S) /\ Len(u) = Len(p) + Len(c)
       /\ \A i \in 1..Len(p) : u[i] = p[i]
       /\ \A i \in 1..Len(c) : u[Len(p) + i] = c[i]
  <2>1. p \in Seq(S) /\ c \in Seq(S)
    BY ONLY <1>1, <1>2
  <2> QED BY ONLY <1>10, <2>1, Concatenated
<1>5. /\ u \in Seq(S) /\ Len(u) = m + 1 + n
      /\ \A i \in 1..(m + 1) : u[i] = p[i]
      /\ \A i \in 1..n : u[m + 1 + i] = c[i]
  BY ONLY <1>1, <1>2, <1>11
<1>12. /\ v \in Seq(S) /\ Len(v) = Len(a) + Len(d)
       /\ \A i \in 1..Len(a) : v[i] = a[i]
       /\ \A i \in 1..Len(d) : v[Len(a) + i] = d[i]
  <2>1. a \in Seq(S) /\ d \in Seq(S)
    BY <1>3
  <2> QED BY ONLY <1>10, <2>1, Concatenated
<1>6. /\ v \in Seq(S) /\ Len(v) = m + 1 + n
      /\ \A i \in 1..m : v[i] = a[i]
      /\ \A i \in 1..(n + 1) : v[m + i] = d[i]
  <2>1. m = Len(a) /\ Len(d) = n + 1 /\ m \in Nat /\ n \in Nat
    BY ONLY <1>0, <1>1, <1>3
  <2>2. m + (n + 1) = m + 1 + n
    BY ONLY <2>1
  <2> QED BY ONLY <1>12, <2>1, <2>2
<1>7. ASSUME NEW i \in 1..(m + 1 + n)
      PROVE  v[i] = u[i]
  <2>1. CASE i \in 1..m
    <3>1. i \in 1..(m + 1)
      BY <1>1, <2>1
    <3> QED BY <1>1, <1>5, <1>6, <2>1, <3>1
  <2>2. CASE i = m + 1
    <3>1. 1 \in 1..(n + 1) /\ m + 1 \in 1..(m + 1)
      BY <1>1
    <3> QED BY <1>1, <1>4, <1>5, <1>6, <2>2, <3>1
  <2>3. CASE i > m + 1
    <3> PICK k : k = i - (m + 1)
      OBVIOUS
    <3>1. k \in 1..n /\ k + 1 \in 1..(n + 1) /\ i = m + 1 + k /\ i = m + (k + 1)
      BY <1>1, <2>3
    <3>2. u[i] = c[k] /\ v[i] = d[k + 1]
      BY <1>5, <1>6, <3>1
    <3> QED BY <1>4, <3>1, <3>2
  <2>4. m \in Nat /\ n \in Nat
    BY <1>1
  <2>5. i \in 1..m \/ i = m + 1 \/ i > m + 1
    BY ONLY <2>4
  <2> QED BY ONLY <2>1, <2>2, <2>3, <2>5
<1>8. v = u
  BY <1>5, <1>6, <1>7, SameSequence
<1> QED BY <1>0, <1>8, <1>10

\* What is kept of a sequence backwards is what is kept of it, backwards.
LEMMA SiftBackwards ==
  ASSUME NEW S, NEW s \in Seq(S), NEW P, NEW Q,
         \A i \in 1..Len(s) : i \in Q <=> Len(s) - i + 1 \in P
  PROVE  Sift(Backwards(s), Q) = Backwards(Sift(s, P))
<1>0. PICK n, r, f, g : /\ n = Len(s) /\ r = Backwards(s)
                        /\ f = Sieve(s, P) /\ g = Sieve(r, Q)
  OBVIOUS
<1> DEFINE T == {k \in Nat : k <= n => f[n] = f[n - k] \o Backwards(g[k])}
<1>1. n \in Nat /\ r \in Seq(S) /\ Len(r) = n /\ \A i \in 1..n : r[i] = s[n - i + 1]
  BY <1>0, BackwardsType
<1>2. /\ f[0] = <<>>
      /\ \A i \in 1..n : f[i] = IF i \in P THEN Append(f[i - 1], s[i]) ELSE f[i - 1]
  <2>1. Len(s) = n /\ Len(s) \in Nat
    BY ONLY <1>0, <1>1
  <2>2. /\ f[0] = <<>>
        /\ \A i \in 1..Len(s) : f[i] = IF i \in P THEN Append(f[i - 1], s[i]) ELSE f[i - 1]
    BY ONLY <1>0, <2>1, SieveStep
  <2> QED BY ONLY <2>1, <2>2
<1>3. /\ g[0] = <<>>
      /\ \A i \in 1..n : g[i] = IF i \in Q THEN Append(g[i - 1], r[i]) ELSE g[i - 1]
  <2>1. Len(r) = n /\ Len(r) \in Nat
    BY ONLY <1>1
  <2>2. /\ g[0] = <<>>
        /\ \A i \in 1..Len(r) : g[i] = IF i \in Q THEN Append(g[i - 1], r[i]) ELSE g[i - 1]
    BY ONLY <1>0, <2>1, SieveStep
  <2> QED BY ONLY <2>1, <2>2
<1>4. \A i \in 0..n : f[i] \in Seq(S) /\ g[i] \in Seq(S)
  BY <1>0, <1>1, SieveType
<1>5. Backwards(<<>>) = <<>>
  <2>1. <<>> \in Seq(S)
    OBVIOUS
  <2> PICK e : e = Backwards(<<>>)
    OBVIOUS
  <2>2. e \in Seq(S) /\ Len(e) = 0
    BY <2>1, BackwardsType
  <2> QED BY <2>2
<1>6. 0 \in T
  <2>1. f[n] \in Seq(S) /\ n - 0 = n
    BY <1>1, <1>4
  <2>2. f[n] = f[n] \o <<>>
    BY ONLY <2>1
  <2> QED BY ONLY <1>3, <1>5, <2>1, <2>2
<1>7. ASSUME NEW k \in Nat, k \in T
      PROVE  k + 1 \in T
  <2>1. ASSUME k + 1 <= n
        PROVE  f[n] = f[n - (k + 1)] \o Backwards(g[k + 1])
    <3>0. PICK j : j = n - k
      OBVIOUS
    <3>1. /\ j \in 1..n /\ k + 1 \in 1..n /\ n - (k + 1) = j - 1 /\ (k + 1) - 1 = k
          /\ n - (k + 1) + 1 = j /\ k \in 0..n /\ j - 1 \in 0..n /\ k <= n
      BY <1>1, <2>1, <3>0
    <3>2. f[n] = f[j] \o Backwards(g[k])
      BY ONLY <1>7, <3>0, <3>1
    <3>3. r[k + 1] = s[j] /\ (k + 1 \in Q <=> j \in P)
      BY <1>0, <1>1, <3>1
    <3>4. f[j - 1] \in Seq(S) /\ g[k] \in Seq(S) /\ s[j] \in S
      BY <1>0, <1>4, <3>1
    <3>5. f[j] = IF j \in P THEN Append(f[j - 1], s[j]) ELSE f[j - 1]
      BY <1>2, <3>1
    <3>6. g[k + 1] = IF j \in P THEN Append(g[k], s[j]) ELSE g[k]
      BY <1>3, <3>1, <3>3
    <3>7. CASE j \in P
      <4>1. Append(f[j - 1], s[j]) \o Backwards(g[k]) = f[j - 1] \o Backwards(Append(g[k], s[j]))
        BY ONLY <3>4, AppendBackwards
      <4>2. f[j] = Append(f[j - 1], s[j]) /\ g[k + 1] = Append(g[k], s[j])
        BY ONLY <3>5, <3>6, <3>7
      <4>3. f[n] = f[j - 1] \o Backwards(g[k + 1])
        BY ONLY <3>2, <4>1, <4>2
      <4> QED BY ONLY <3>1, <4>3
    <3>8. CASE j \notin P
      <4>1. f[n] = f[j - 1] \o Backwards(g[k + 1])
        BY ONLY <3>2, <3>5, <3>6, <3>8
      <4> QED BY ONLY <3>1, <4>1
    <3> QED BY ONLY <3>7, <3>8
  <2>2. k + 1 \in Nat
    OBVIOUS
  <2> QED BY ONLY <2>1, <2>2
<1>8. Nat \subseteq T
  <2> HIDE DEF T
  <2> QED BY ONLY <1>6, <1>7, NatSetInduction
<1>9. f[n] = f[n - n] \o Backwards(g[n])
  <2>1. n \in T /\ n <= n
    <3> HIDE DEF T
    <3> QED BY ONLY <1>1, <1>8
  <2> QED BY ONLY <2>1
<1>10. g[n] \in Seq(S) /\ Backwards(g[n]) \in Seq(S)
  BY <1>1, <1>4, BackwardsType
<1>11. f[n] = Backwards(g[n])
  <2>1. n - n = 0
    BY <1>1
  <2>2. f[n] = <<>> \o Backwards(g[n])
    BY ONLY <1>2, <1>9, <2>1
  <2>3. <<>> \o Backwards(g[n]) = Backwards(g[n])
    BY ONLY <1>10
  <2> QED BY ONLY <2>2, <2>3
<1>12. g[n] = Backwards(f[n])
  BY <1>10, <1>11, TwiceBackwards
<1> QED BY <1>0, <1>1, <1>12 DEF Sift

\* A sum is the same backwards.
LEMMA TotalBackwards ==
  ASSUME NEW w \in Seq(Nat)
  PROVE  Total(Backwards(w)) = Total(w)
<1> PICK n, r, f, g : n = Len(w) /\ r = Backwards(w) /\ f = Totals(w) /\ g = Totals(r)
  OBVIOUS
<1> DEFINE T == {k \in Nat : k <= n => f[n] = f[n - k] + g[k]}
<1>1. n \in Nat /\ r \in Seq(Nat) /\ Len(r) = n /\ \A i \in 1..n : r[i] = w[n - i + 1]
  BY BackwardsType
<1>2. f[0] = 0 /\ \A i \in 1..n : f[i] = f[i - 1] + w[i]
  BY TotalsStep
<1>3. g[0] = 0 /\ \A i \in 1..n : g[i] = g[i - 1] + r[i]
  BY <1>1, TotalsStep
<1>4. \A i \in 0..n : f[i] \in Nat /\ g[i] \in Nat
  BY <1>1, TotalsType
<1>5. 0 \in T
  BY <1>1, <1>3, <1>4
<1>6. ASSUME NEW k \in Nat, k \in T
      PROVE  k + 1 \in T
  <2>1. ASSUME k + 1 <= n
        PROVE  f[n] = f[n - (k + 1)] + g[k + 1]
    <3> PICK j : j = n - k
      OBVIOUS
    <3>1. /\ j \in 1..n /\ k + 1 \in 1..n /\ n - (k + 1) = j - 1 /\ (k + 1) - 1 = k
          /\ n - (k + 1) + 1 = j /\ k \in 0..n /\ j - 1 \in 0..n
      BY <1>1, <2>1
    <3>2. f[n] = f[j] + g[k] /\ r[k + 1] = w[j]
      BY <1>1, <1>6, <2>1, <3>1
    <3>3. f[j] = f[j - 1] + w[j] /\ g[k + 1] = g[k] + w[j]
      BY <1>2, <1>3, <3>1, <3>2
    <3>4. f[j - 1] \in Nat /\ g[k] \in Nat /\ w[j] \in Nat
      BY <1>4, <3>1
    <3> QED BY ONLY <3>1, <3>2, <3>3, <3>4
  <2> QED BY <2>1
<1>7. Nat \subseteq T
  <2> HIDE DEF T
  <2> QED BY ONLY <1>5, <1>6, NatSetInduction
<1>8. f[n] = f[n - n] + g[n]
  BY <1>1, <1>7
<1>9. f[n] = g[n]
  BY <1>1, <1>2, <1>4, <1>8
<1> QED BY <1>1, <1>9 DEF Total

\* As many of one sequence are x as of the other, and so the most frequent are the
\* same.
LEMMA FrequentBackwards ==
  ASSUME NEW n \in Nat, NEW u, NEW v, Len(u) = n, Len(v) = n,
         \A i \in 1..n : v[i] = u[n - i + 1]
  PROVE  MostFrequent(v) = MostFrequent(u)
<1>1. ASSUME NEW x
      PROVE  Cardinality({i \in 1..n : v[i] = x}) = Cardinality({i \in 1..n : u[i] = x})
  <2> PICK A, B, h : /\ A = {i \in 1..n : u[i] = x} /\ B = {i \in 1..n : v[i] = x}
                     /\ h = [i \in A |-> n - i + 1]
    OBVIOUS
  <2>1. \A i \in 1..n : n - i + 1 \in 1..n /\ n - (n - i + 1) + 1 = i
    OBVIOUS
  <2>2. \A i \in 1..n : i \in A <=> n - i + 1 \in B
    BY <2>1
  <2>3. h \in [A -> B]
    BY <2>2
  <2>4. \A i, j \in A : h[i] = h[j] => i = j
    OBVIOUS
  <2>5. \A j \in B : \E i \in A : h[i] = j
    <3>1. ASSUME NEW j \in B PROVE \E i \in A : h[i] = j
      <4>1. n - j + 1 \in A
        BY <2>1
      <4> QED BY <2>1, <4>1
    <3> QED BY <3>1
  <2>6. h \in Bijection(A, B)
    BY <2>3, <2>4, <2>5 DEF Bijection, Injection, IsInjective, Surjection
  <2>7. IsFiniteSet(A)
    <3>1. IsFiniteSet(1..n)
      BY FS_Interval
    <3> QED BY <3>1, FS_Subset
  <2>8. ExistsBijection(A, B)
    BY <2>6 DEF ExistsBijection
  <2> QED BY <2>7, <2>8, FS_Bijection
<1>2. {v[i] : i \in 1..n} = {u[i] : i \in 1..n}
  <2>1. \A i \in 1..n : n - i + 1 \in 1..n /\ n - (n - i + 1) + 1 = i
    OBVIOUS
  <2>2. \A i \in 1..n : v[i] \in {u[j] : j \in 1..n}
    BY <2>1
  <2>3. \A i \in 1..n : u[i] = v[n - i + 1]
    BY <2>1
  <2>4. \A i \in 1..n : u[i] \in {v[j] : j \in 1..n}
    BY <2>1, <2>3
  <2> QED BY ONLY <2>2, <2>4
<1> QED BY <1>1, <1>2 DEF MostFrequent

\* Of some numbers one is the greatest.
LEMMA GreatestInSequence ==
  ASSUME NEW n \in Nat, n >= 1, NEW u, \A i \in 1..n : u[i] \in Nat
  PROVE  \E i \in 1..n : \A j \in 1..n : u[j] <= u[i]
<1> DEFINE T == {k \in Nat : k + 1 <= n =>
                               \E i \in 1..(k + 1) : \A j \in 1..(k + 1) : u[j] <= u[i]}
<1>1. 0 \in T
  <2>1. 1 \in 1..1 /\ \A j \in 1..1 : j = 1
    OBVIOUS
  <2>2. u[1] <= u[1]
    <3>1. u[1] \in Nat
      OBVIOUS
    <3> QED BY <3>1
  <2>3. \A j \in 1..1 : u[j] <= u[1]
    BY <2>1, <2>2
  <2> QED BY <2>1, <2>3
<1>2. ASSUME NEW k \in Nat, k \in T
      PROVE  k + 1 \in T
  <2>1. ASSUME (k + 1) + 1 <= n
        PROVE  \E i \in 1..((k + 1) + 1) : \A j \in 1..((k + 1) + 1) : u[j] <= u[i]
    <3>1. PICK i \in 1..(k + 1) : \A j \in 1..(k + 1) : u[j] <= u[i]
      BY <1>2, <2>1
    <3> PICK m : m = k + 2
      OBVIOUS
    <3>2. /\ (k + 1) + 1 = m /\ i \in 1..m /\ m \in 1..m
          /\ \A j \in 1..m : j \in 1..(k + 1) \/ j = m
          /\ i \in 1..n /\ m \in 1..n /\ \A j \in 1..m : j \in 1..n
      BY <2>1
    <3>3. u[i] \in Nat /\ u[m] \in Nat /\ \A j \in 1..m : u[j] \in Nat
      BY <3>2
    <3>4. CASE u[m] <= u[i]
      <4>1. \A j \in 1..m : u[j] <= u[i]
        BY ONLY <3>1, <3>2, <3>4
      <4> QED BY <3>2, <4>1
    <3>5. CASE u[i] <= u[m]
      <4>1. ASSUME NEW j \in 1..m PROVE u[j] <= u[m]
        <5>1. j = m \/ u[j] <= u[i]
          BY ONLY <3>1, <3>2
        <5>2. u[j] \in Nat
          BY ONLY <3>3
        <5> QED BY ONLY <3>3, <3>5, <5>1, <5>2
      <4> QED BY ONLY <3>2, <4>1
    <3>6. u[m] <= u[i] \/ u[i] <= u[m]
      BY ONLY <3>3
    <3> QED BY ONLY <3>4, <3>5, <3>6
  <2>2. k + 1 \in Nat
    OBVIOUS
  <2> QED BY ONLY <2>1, <2>2
<1>3. Nat \subseteq T
  <2> HIDE DEF T
  <2> QED BY ONLY <1>1, <1>2, NatSetInduction
<1>4. n - 1 \in Nat /\ (n - 1) + 1 = n
  OBVIOUS
<1>5. n - 1 \in T
  <2> HIDE DEF T
  <2> QED BY ONLY <1>3, <1>4
<1> QED BY ONLY <1>4, <1>5

\* A number greater than all others is the same one backwards.
LEMMA LastGreatestBackwards ==
  ASSUME NEW n \in Nat, n >= 1, NEW u, NEW v, Len(u) = n, Len(v) = n,
         \A i \in 1..n : u[i] \in Nat,
         NEW g \in 1..n, \A j \in 1..n : j # g => u[j] < u[g],
         \A i \in 1..n : v[i] = u[n - i + 1]
  PROVE  LastGreatest(u) \in 1..n /\ LastGreatest(v) = n - LastGreatest(u) + 1
<1>1. \A j \in 1..n : u[j] <= u[g] /\ (u[j] = u[g] => j = g)
  <2> SUFFICES ASSUME NEW j \in 1..n PROVE u[j] <= u[g] /\ (u[j] = u[g] => j = g)
    OBVIOUS
  <2>1. u[j] \in Nat /\ u[g] \in Nat /\ (j = g \/ u[j] < u[g])
    OBVIOUS
  <2>2. CASE j = g
    BY ONLY <2>1, <2>2
  <2>3. CASE u[j] < u[g]
    BY ONLY <2>1, <2>3
  <2> QED BY ONLY <2>1, <2>2, <2>3
<1>2. \A a \in Nat : Max({a}) = a
  BY DEF Max
<1>3. {i \in 1..n : \A j \in 1..n : u[j] <= u[i]} = {g}
  <2>1. ASSUME NEW i \in 1..n, \A j \in 1..n : u[j] <= u[i]
        PROVE  i = g
    <3>1. u[i] <= u[g] /\ u[g] <= u[i] /\ u[i] \in Nat /\ u[g] \in Nat
      BY <1>1, <2>1
    <3>2. u[i] = u[g]
      BY ONLY <3>1
    <3> QED BY ONLY <1>1, <2>1, <3>2
  <2> QED BY ONLY <1>1, <2>1
<1> PICK h : h = n - g + 1
  OBVIOUS
<1>4. h \in 1..n /\ \A i \in 1..n : n - i + 1 \in 1..n /\ n - (n - i + 1) + 1 = i
  OBVIOUS
<1>5. v[h] = u[g]
  BY <1>4
<1>6. {i \in 1..n : \A j \in 1..n : v[j] <= v[i]} = {h}
  <2>1. ASSUME NEW i \in 1..n, \A j \in 1..n : v[j] <= v[i]
        PROVE  i = h
    <3> PICK k : k = n - i + 1
      OBVIOUS
    <3>1. k \in 1..n /\ v[i] = u[k] /\ n - k + 1 = i
      BY <1>4
    <3>2. u[g] <= u[k] /\ u[k] <= u[g] /\ u[k] \in Nat /\ u[g] \in Nat
      BY <1>1, <1>4, <1>5, <2>1, <3>1
    <3>3. u[k] = u[g]
      BY ONLY <3>2
    <3>4. k = g
      BY ONLY <1>1, <3>1, <3>3
    <3> QED BY <3>1, <3>4
  <2>2. ASSUME NEW j \in 1..n
        PROVE  v[j] <= v[h]
    <3>1. v[j] = u[n - j + 1] /\ n - j + 1 \in 1..n
      BY <1>4
    <3> QED BY <1>1, <1>5, <3>1
  <2> QED BY ONLY <1>4, <2>1, <2>2
<1>7. LastGreatest(u) = Max({g}) /\ LastGreatest(v) = Max({h})
  BY <1>3, <1>6 DEF LastGreatest
<1>8. LastGreatest(u) = g /\ LastGreatest(v) = h
  BY <1>2, <1>4, <1>7
<1> QED BY <1>8

(* What the sources say of the field.                                     *)

AnyAnswer == [source : Source, value : SUBSET FieldValue, at : Nat, success : BOOLEAN]
AnswersOK == answers \in Seq(AnyAnswer)

\* The answers are records of the model.
THEOREM AnswersWellFormed == FusionSpec => []AnswersOK
<1>1. FusionInit => AnswersOK
  BY DEF FusionInit, AnswersOK
<1>2. ASSUME AnswersOK, [FusionNext]_answers
      PROVE  AnswersOK'
  <2>1. ASSUME NEW source \in Answering, NEW at \in AnswerTime, NEW value \in SUBSET FieldValue,
               NEW success \in BOOLEAN, Answer(source, value, at, success)
        PROVE  AnswersOK'
    <3> PICK r : r = [source |-> source, value |-> value, at |-> at, success |-> success]
      OBVIOUS
    <3>1. r \in AnyAnswer
      BY FusionAssumption DEF AnyAnswer, Source
    <3>2. answers' = Append(answers, r)
      BY <2>1 DEF Answer
    <3> QED BY <1>2, <3>1, <3>2 DEF AnswersOK
  <2>2. CASE UNCHANGED answers
    BY <1>2, <2>2 DEF AnswersOK
  <2>3. ASSUME NEW source \in Answering, NEW at \in AnswerTime,
               NEW value \in {{}} \cup {{v} : v \in FieldValue}, Answer(source, value, at, TRUE)
        PROVE  AnswersOK'
    BY <2>1, <2>3
  <2>4. ASSUME NEW source \in Answering, NEW at \in AnswerTime, Answer(source, {}, at, FALSE)
        PROVE  AnswersOK'
    BY <2>1, <2>4
  <2> QED BY <1>2, <2>2, <2>3, <2>4 DEF FusionNext
<1> QED BY <1>1, <1>2, PTL DEF FusionSpec

\* The entries of the answers backwards are the entries backwards.
LEMMA EntriesBackwards ==
  ASSUME NEW s \in Seq(AnyAnswer)
  PROVE  /\ Entries(s) \in Seq(AnyAnswer)
         /\ Entries(Backwards(s)) = Backwards(Entries(s))
<1>0. PICK n, r, P, Q : /\ n = Len(s) /\ r = Backwards(s)
                        /\ P = {i \in 1..Len(s) : s[i].success /\ s[i].value # {}}
                        /\ Q = {i \in 1..Len(r) : r[i].success /\ r[i].value # {}}
  OBVIOUS
<1>1. n \in Nat /\ r \in Seq(AnyAnswer) /\ Len(r) = n /\ \A i \in 1..n : r[i] = s[n - i + 1]
  BY <1>0, BackwardsType
<1>2. \A i \in 1..n : n - i + 1 \in 1..n
  BY <1>1
<1>3. \A i \in 1..Len(s) : i \in Q <=> Len(s) - i + 1 \in P
  BY ONLY <1>0, <1>1, <1>2
<1>4. Entries(s) = Sift(s, P) /\ Entries(r) = Sift(r, Q)
  BY <1>0 DEF Entries
<1>5. Sift(Backwards(s), Q) = Backwards(Sift(s, P))
  BY <1>3, SiftBackwards
<1>6. Sift(s, P) \in Seq(AnyAnswer)
  BY SiftType
<1> QED BY <1>0, <1>4, <1>5, <1>6

\* Built-in sources weigh differently, and more than any other.
LEMMA WeightsDiffer ==
  /\ \A a : Weight(a) \in Nat
  /\ \A a, b \in Named : a # b => Weight(a) # Weight(b)
  /\ \A a \in Named : \A b : b \notin Named => Weight(b) < Weight(a)
<1>1. /\ Weight("rdap") = 10 /\ Weight("whois") = 8 /\ Weight("dns") = 7
      /\ Weight("reverse_whois") = 5
      /\ \A a : a \notin Named => Weight(a) = 4
  BY DEF Weight, Named
<1>2. \A a : Weight(a) \in Nat
  BY <1>1 DEF Named
<1> QED BY <1>1, <1>2 DEF Named

\* One of several answers of sources that differ weighs most when one is built in.
LEMMA HeaviestAlone ==
  ASSUME NEW n \in Nat, n >= 1, NEW src, \A i, j \in 1..n : i # j => src[i] # src[j],
         n > 1 => \E i \in 1..n : src[i] \in Named
  PROVE  \E g \in 1..n : \A j \in 1..n : j # g => Weight(src[j]) < Weight(src[g])
<1>1. CASE n = 1
  <2>1. 1 \in 1..n /\ \A j \in 1..n : j = 1
    BY <1>1
  <2> QED BY <2>1
<1>2. CASE n > 1
  <2>1. PICK u : u = [i \in 1..n |-> Weight(src[i])]
    OBVIOUS
  <2>2. \A i \in 1..n : u[i] = Weight(src[i]) /\ u[i] \in Nat
    BY <2>1, WeightsDiffer
  <2>3. PICK g \in 1..n : \A j \in 1..n : u[j] <= u[g]
    BY ONLY n \in Nat, n >= 1, <2>2, GreatestInSequence
  <2>4. PICK b \in 1..n : src[b] \in Named
    BY <1>2
  <2>5. src[g] \in Named
    <3> SUFFICES ASSUME src[g] \notin Named PROVE FALSE
      OBVIOUS
    <3>1. Weight(src[g]) < Weight(src[b])
      BY <2>4, WeightsDiffer
    <3>2. u[b] <= u[g] /\ u[g] < u[b] /\ u[b] \in Nat /\ u[g] \in Nat
      BY <2>2, <2>3, <3>1
    <3> QED BY ONLY <3>2
  <2>6. ASSUME NEW j \in 1..n, j # g PROVE u[j] < u[g]
    <3>1. CASE src[j] \in Named
      <4>1. u[j] # u[g]
        BY <2>2, <2>5, <2>6, <3>1, WeightsDiffer
      <4>2. u[j] <= u[g] /\ u[j] \in Nat /\ u[g] \in Nat
        BY <2>2, <2>3
      <4> QED BY ONLY <4>1, <4>2
    <3>2. CASE src[j] \notin Named
      BY <2>2, <2>5, <3>2, WeightsDiffer
    <3> QED BY <3>1, <3>2
  <2> QED BY <2>2, <2>6
<1> QED BY <1>1, <1>2

\* What one says of the entries backwards.
LEMMA NamesBackwards ==
  ASSUME NEW e \in Seq(AnyAnswer), NEW f, f = Backwards(e), NEW n, n = Len(e)
  PROVE  /\ n \in Nat /\ f \in Seq(AnyAnswer) /\ Len(f) = n
         /\ \A i \in 1..n : f[i] = e[n - i + 1] /\ n - i + 1 \in 1..n
         /\ Len(Spelt(e)) = n /\ Len(Spelt(f)) = n
         /\ \A i \in 1..n : Spelt(f)[i] = Spelt(e)[n - i + 1]
         /\ Len(InLower(e)) = n /\ Len(InLower(f)) = n
         /\ \A i \in 1..n : InLower(f)[i] = InLower(e)[n - i + 1]
<1>1. n \in Nat /\ f \in Seq(AnyAnswer) /\ Len(f) = n /\ \A i \in 1..n : f[i] = e[n - i + 1]
  BY BackwardsType
<1>2. \A i \in 1..n : n - i + 1 \in 1..n
  BY <1>1
<1>3. /\ Spelt(e) = [i \in 1..n |-> ValueIn(e[i])]
      /\ Spelt(f) = [i \in 1..n |-> ValueIn(f[i])]
  BY <1>1 DEF Spelt
<1>4. /\ InLower(e) = [i \in 1..n |-> Lower[ValueIn(e[i])]]
      /\ InLower(f) = [i \in 1..n |-> Lower[ValueIn(f[i])]]
  BY <1>1 DEF InLower
<1>5. /\ Len(Spelt(e)) = n /\ Len(Spelt(f)) = n
      /\ Len(InLower(e)) = n /\ Len(InLower(f)) = n
  BY ONLY <1>1, <1>3, <1>4
<1>6. \A i \in 1..n : Spelt(f)[i] = Spelt(e)[n - i + 1]
  BY ONLY <1>1, <1>2, <1>3
<1>7. \A i \in 1..n : InLower(f)[i] = InLower(e)[n - i + 1]
  BY ONLY <1>1, <1>2, <1>4
<1> QED BY ONLY <1>1, <1>2, <1>5, <1>6, <1>7

LEMMA ScoresBackwards ==
  ASSUME NEW e \in Seq(AnyAnswer)
  PROVE  Scores(Backwards(e)) = Scores(e)
<1>0. PICK f, n : f = Backwards(e) /\ n = Len(e)
  OBVIOUS
<1>1. /\ n \in Nat /\ f \in Seq(AnyAnswer) /\ Len(f) = n
      /\ \A i \in 1..n : f[i] = e[n - i + 1] /\ n - i + 1 \in 1..n
      /\ Len(InLower(e)) = n /\ Len(InLower(f)) = n
      /\ \A i \in 1..n : InLower(f)[i] = InLower(e)[n - i + 1]
  BY <1>0, NamesBackwards
<1>2. MostFrequent(InLower(f)) = MostFrequent(InLower(e))
  BY <1>1, FrequentBackwards
<1>3. ASSUME NEW x
      PROVE  WeightOf(f, x) = WeightOf(e, x)
  <2>0. PICK u, v, w :
           /\ u = [i \in 1..n |-> IF InLower(e)[i] = x THEN Weight(e[i].source) ELSE 0]
           /\ v = [i \in 1..n |-> IF InLower(f)[i] = x THEN Weight(f[i].source) ELSE 0]
           /\ w = Backwards(u)
    OBVIOUS
  <2>1. WeightOf(e, x) = Total(u) /\ WeightOf(f, x) = Total(v)
    BY <1>0, <1>1, <2>0 DEF WeightOf
  <2>2. \A i \in 1..n : e[i].source \in Source /\ f[i].source \in Source
    <3>1. \A i \in 1..n : e[i] \in AnyAnswer /\ f[i] \in AnyAnswer
      BY <1>0, <1>1
    <3> QED BY <3>1 DEF AnyAnswer
  <2>3. \A i \in 1..n : u[i] \in Nat /\ v[i] \in Nat
    BY ONLY <2>0, <2>2, WeightsDiffer
  <2>4. u = [i \in 1..n |-> u[i]] /\ v = [i \in 1..n |-> v[i]]
    BY ONLY <2>0
  <2>5. u \in Seq(Nat) /\ Len(u) = n /\ v \in Seq(Nat) /\ Len(v) = n
    BY <1>1, <2>3, <2>4, BuiltSequence
  <2>6. w \in Seq(Nat) /\ Len(w) = n /\ \A i \in 1..n : w[i] = u[n - i + 1]
    <3>1. w \in Seq(Nat) /\ Len(w) = Len(u) /\ \A i \in 1..Len(u) : w[i] = u[Len(u) - i + 1]
      BY ONLY <2>0, <2>5, BackwardsType
    <3> QED BY ONLY <2>5, <3>1
  <2>7. \A i \in 1..n : v[i] = u[n - i + 1]
    BY ONLY <1>1, <2>0
  <2>8. \A i \in 1..n : v[i] = w[i]
    BY ONLY <2>6, <2>7
  <2>9. v = w
    BY <2>5, <2>6, <2>8, SameSequence
  <2>10. Total(w) = Total(u)
    BY <2>0, <2>5, TotalBackwards
  <2> QED BY ONLY <2>1, <2>9, <2>10
<1> QED BY <1>0, <1>1, <1>2, <1>3 DEF Scores

\* The entries of sources that differ, backwards, with a source of the order.
LEMMA FirstInOrderBackwards ==
  ASSUME NEW e \in Seq(AnyAnswer), NEW f, f = Backwards(e), NEW n, n = Len(e),
         NEW order \in Seq(Source),
         \A i, j \in 1..n : i # j => e[i].source # e[j].source,
         \E i \in 1..n, k \in 1..Len(order) : e[i].source = order[k]
  PROVE  /\ FirstInOrder(e, order) \in 1..n
         /\ FirstInOrder(f, order) = n - FirstInOrder(e, order) + 1
<1>1. /\ n \in Nat /\ Len(f) = n /\ Len(e) = n
      /\ \A i \in 1..n : f[i] = e[n - i + 1] /\ n - i + 1 \in 1..n
  <2>1. n \in Nat
    OBVIOUS
  <2>2. Len(f) = n /\ \A i \in 1..n : f[i] = e[n - i + 1]
    BY BackwardsType
  <2> QED BY <2>1, <2>2
<1>2. \A i \in 1..n : n - (n - i + 1) + 1 = i
  BY <1>1
<1>3. ASSUME NEW i \in 1..n
      PROVE  /\ FromSource(e, e[i].source) = {i}
             /\ FromSource(f, e[i].source) = {n - i + 1}
  <2>1. FromSource(e, e[i].source) = {i}
    BY <1>1 DEF FromSource
  <2>2. f[n - i + 1] = e[i] /\ n - i + 1 \in 1..n
    BY <1>1, <1>2
  <2>3. ASSUME NEW j \in 1..n, f[j].source = e[i].source
        PROVE  j = n - i + 1
    <3>1. n - j + 1 \in 1..n /\ e[n - j + 1].source = e[i].source
      BY <1>1, <2>3
    <3>2. n - j + 1 = i
      BY <3>1
    <3> QED BY <1>1, <1>2, <3>2
  <2>4. FromSource(f, e[i].source) = {n - i + 1}
    BY ONLY <1>1, <2>2, <2>3 DEF FromSource
  <2> QED BY <2>1, <2>4
<1>4. ASSUME NEW src
      PROVE  FromSource(e, src) # {} <=> FromSource(f, src) # {}
  <2>1. ASSUME FromSource(e, src) # {}
        PROVE  FromSource(f, src) # {}
    <3>1. PICK i \in 1..n : e[i].source = src
      BY <1>1, <2>1 DEF FromSource
    <3> QED BY <1>3, <3>1
  <2>2. ASSUME FromSource(f, src) # {}
        PROVE  FromSource(e, src) # {}
    <3>1. PICK i \in 1..n : f[i].source = src
      BY <1>1, <2>2 DEF FromSource
    <3>2. n - i + 1 \in 1..n /\ e[n - i + 1].source = src
      BY <1>1, <3>1
    <3> QED BY <1>3, <3>2
  <2> QED BY <2>1, <2>2
<1>5. PICK named : /\ named = {k \in 1..Len(order) : FromSource(e, order[k]) # {}}
                   /\ named = {k \in 1..Len(order) : FromSource(f, order[k]) # {}}
  BY <1>4
<1>6. named # {} /\ named \subseteq Nat
  <2>1. PICK i \in 1..n, k \in 1..Len(order) : e[i].source = order[k]
    OBVIOUS
  <2>2. FromSource(e, order[k]) # {}
    BY <1>3, <2>1
  <2>3. k \in named
    BY <1>5, <2>2
  <2>4. 1..Len(order) \subseteq Nat
    OBVIOUS
  <2> QED BY ONLY <1>5, <2>3, <2>4
<1>7. PICK k \in named : \A m \in named : k <= m
  BY <1>6, LeastNumber
<1>8. Min(named) = k
  <2>1. \A m \in named : (\A j \in named : m <= j) => m = k
    BY <1>6, <1>7
  <2> QED BY <1>7, <2>1 DEF Min
<1>9. PICK i \in 1..n : e[i].source = order[k]
  <2>1. FromSource(e, order[k]) # {}
    BY <1>5, <1>7
  <2> QED BY <1>1, <2>1 DEF FromSource
<1>10. \A a \in Nat : Min({a}) = a
  BY DEF Min
<1>11. /\ FirstInOrder(e, order) = Min(FromSource(e, order[k]))
       /\ FirstInOrder(f, order) = Min(FromSource(f, order[k]))
  BY <1>5, <1>6, <1>8 DEF FirstInOrder
<1>12. FirstInOrder(e, order) = Min({i}) /\ FirstInOrder(f, order) = Min({n - i + 1})
  BY <1>3, <1>9, <1>11
<1>13. i \in Nat /\ n - i + 1 \in Nat
  BY <1>1
<1> QED BY ONLY <1>9, <1>10, <1>12, <1>13

\* The value picked of entries that are apart does not show their order.
LEMMA PickedBackwards ==
  ASSUME NEW e \in Seq(AnyAnswer), e # <<>>, NEW strategy \in Strategy,
         \A i, j \in 1..Len(e) : i # j =>
            /\ e[i].source # e[j].source
            /\ strategy.by = "most_recent" => e[i].at # e[j].at,
         strategy.by = "highest_weight" /\ Len(e) > 1 =>
            \E i \in 1..Len(e) : e[i].source \in Named,
         strategy.by = "priority" =>
            \E i \in 1..Len(e), k \in 1..Len(strategy.order) : e[i].source = strategy.order[k]
  PROVE  Picked(Backwards(e), strategy) = Picked(e, strategy)
<1>0. PICK f, n, names, backwards, weights, back1, times, back2 :
         /\ f = Backwards(e) /\ n = Len(e)
         /\ names = Spelt(e) /\ backwards = Spelt(f)
         /\ weights = [i \in 1..n |-> Weight(e[i].source)]
         /\ back1 = [i \in 1..n |-> Weight(f[i].source)]
         /\ times = [i \in 1..n |-> e[i].at]
         /\ back2 = [i \in 1..n |-> f[i].at]
  OBVIOUS
<1>1. /\ n \in Nat /\ f \in Seq(AnyAnswer) /\ Len(f) = n
      /\ \A i \in 1..n : f[i] = e[n - i + 1] /\ n - i + 1 \in 1..n
      /\ Len(names) = n /\ Len(backwards) = n
      /\ \A i \in 1..n : backwards[i] = names[n - i + 1]
  BY <1>0, NamesBackwards
<1>2. n >= 1
  BY <1>0
<1>3. \A i \in 1..n : n - (n - i + 1) + 1 = i /\ n - i + 1 \in 1..n
  BY <1>1
<1>4. \A i \in 1..n : backwards[n - i + 1] = names[i]
  BY ONLY <1>1, <1>3
<1>5. \A i \in 1..n : /\ e[i].source \in Source /\ e[i].at \in Nat
                      /\ f[i].source \in Source /\ f[i].at \in Nat
  <2>1. \A i \in 1..n : e[i] \in AnyAnswer /\ f[i] \in AnyAnswer
    BY <1>0, <1>1
  <2> QED BY <2>1 DEF AnyAnswer
<1>6. /\ strategy.by \in {"highest_weight", "majority", "most_recent", "priority"}
      /\ strategy.by = "priority" => strategy.order \in Seq(Source)
  <2>1. <<"whois", "rdap">> \in Seq(Source) /\ <<"dns">> \in Seq(Source)
    BY DEF Source, Named
  <2> QED BY <2>1 DEF Strategy
<1>7. /\ Picked(e, strategy) =
           CASE strategy.by = "highest_weight" -> {names[LastGreatest(weights)]}
             [] strategy.by = "majority" -> MostFrequent(names)
             [] strategy.by = "most_recent" -> {names[LastGreatest(times)]}
             [] OTHER -> {names[FirstInOrder(e, strategy.order)]}
      /\ Picked(f, strategy) =
           CASE strategy.by = "highest_weight" -> {backwards[LastGreatest(back1)]}
             [] strategy.by = "majority" -> MostFrequent(backwards)
             [] strategy.by = "most_recent" -> {backwards[LastGreatest(back2)]}
             [] OTHER -> {backwards[FirstInOrder(f, strategy.order)]}
  BY ONLY <1>0, <1>1 DEF Picked
<1>8. CASE strategy.by = "highest_weight"
  <2>1. /\ \A i \in 1..n : weights[i] \in Nat
        /\ \A i \in 1..n : back1[i] = weights[n - i + 1]
    BY ONLY <1>0, <1>1, <1>5, WeightsDiffer
  <2>2. PICK g \in 1..n : \A j \in 1..n : j # g => weights[j] < weights[g]
    <3>1. PICK src : src = [i \in 1..n |-> e[i].source]
      OBVIOUS
    <3>2. /\ \A i \in 1..n : src[i] = e[i].source /\ weights[i] = Weight(src[i])
          /\ \A i, j \in 1..n : i # j => src[i] # src[j]
          /\ n > 1 => \E i \in 1..n : src[i] \in Named
      BY <1>0, <1>8, <3>1
    <3>3. \E g \in 1..n : \A j \in 1..n : j # g => Weight(src[j]) < Weight(src[g])
      BY ONLY <1>1, <1>2, <3>2, HeaviestAlone
    <3> QED BY ONLY <3>2, <3>3
  <2>3. Len(weights) = n /\ Len(back1) = n
    BY ONLY <1>0, <1>1
  <2>4. LastGreatest(weights) \in 1..n /\ LastGreatest(back1) = n - LastGreatest(weights) + 1
    BY ONLY <1>1, <1>2, <2>1, <2>2, <2>3, LastGreatestBackwards
  <2>5. backwards[LastGreatest(back1)] = names[LastGreatest(weights)]
    BY ONLY <1>4, <2>4
  <2> QED BY ONLY <1>0, <1>7, <1>8, <2>5
<1>9. CASE strategy.by = "majority"
  <2>1. MostFrequent(backwards) = MostFrequent(names)
    <3>1. n \in Nat /\ Len(names) = n /\ Len(backwards) = n
      BY ONLY <1>1
    <3>2. \A i \in 1..n : backwards[i] = names[n - i + 1]
      BY ONLY <1>1
    <3> QED BY ONLY <3>1, <3>2, FrequentBackwards
  <2> QED BY ONLY <1>0, <1>7, <1>9, <2>1
<1>10. CASE strategy.by = "most_recent"
  <2>1. /\ \A i \in 1..n : times[i] \in Nat
        /\ \A i \in 1..n : back2[i] = times[n - i + 1]
    BY ONLY <1>0, <1>1, <1>5
  <2>2. PICK g \in 1..n : \A j \in 1..n : j # g => times[j] < times[g]
    <3>1. \A i, j \in 1..n : i # j => times[i] # times[j]
      BY <1>0, <1>10
    <3>2. PICK g \in 1..n : \A j \in 1..n : times[j] <= times[g]
      BY ONLY <1>1, <1>2, <2>1, GreatestInSequence
    <3>3. \A j \in 1..n : j # g => times[j] < times[g]
      BY ONLY <2>1, <3>1, <3>2
    <3> QED BY ONLY <3>2, <3>3
  <2>3. Len(times) = n /\ Len(back2) = n
    BY ONLY <1>0, <1>1
  <2>4. LastGreatest(times) \in 1..n /\ LastGreatest(back2) = n - LastGreatest(times) + 1
    BY ONLY <1>1, <1>2, <2>1, <2>2, <2>3, LastGreatestBackwards
  <2>5. backwards[LastGreatest(back2)] = names[LastGreatest(times)]
    BY ONLY <1>4, <2>4
  <2> QED BY ONLY <1>0, <1>7, <1>10, <2>5
<1>11. CASE strategy.by = "priority"
  <2>1. PICK order : order = strategy.order
    OBVIOUS
  <2>2. /\ order \in Seq(Source)
        /\ \A i, j \in 1..n : i # j => e[i].source # e[j].source
        /\ \E i \in 1..n, k \in 1..Len(order) : e[i].source = order[k]
    BY <1>0, <1>6, <1>11, <2>1
  <2>3. /\ FirstInOrder(e, order) \in 1..n
        /\ FirstInOrder(f, order) = n - FirstInOrder(e, order) + 1
    <3>1. e \in Seq(AnyAnswer) /\ f = Backwards(e) /\ n = Len(e)
      BY <1>0
    <3> QED BY ONLY <2>2, <3>1, FirstInOrderBackwards
  <2>4. backwards[FirstInOrder(f, order)] = names[FirstInOrder(e, order)]
    BY ONLY <1>4, <2>3
  <2> QED BY ONLY <1>0, <1>7, <1>11, <2>1, <2>4
<1> QED BY ONLY <1>6, <1>8, <1>9, <1>10, <1>11

\* The order in which the sources answered does not show, for any number of answers,
\* values and times.
THEOREM ArrivalOrderNeverShows == FusionSpec => []ArrivalOrderIrrelevant
<1>1. ASSUME NEW s \in Seq(AnyAnswer), NEW strategy \in Strategy,
             \A i, j \in 1..Len(Entries(s)) : i # j =>
               /\ Entries(s)[i].source # Entries(s)[j].source
               /\ strategy.by = "most_recent" => Entries(s)[i].at # Entries(s)[j].at,
             strategy.by = "highest_weight" /\ Len(Entries(s)) > 1 =>
               \E i \in 1..Len(Entries(s)) : Entries(s)[i].source \in Named,
             strategy.by = "priority" =>
               \E i \in 1..Len(Entries(s)), k \in 1..Len(strategy.order) :
                 Entries(s)[i].source = strategy.order[k]
      PROVE  /\ Fused(s, strategy).values = Fused(Sequence!Reverse(s), strategy).values
             /\ Fused(s, strategy).scores = Fused(Sequence!Reverse(s), strategy).scores
  <2>0. PICK e, f : e = Entries(s) /\ f = Entries(Backwards(s))
    OBVIOUS
  <2>1. e \in Seq(AnyAnswer) /\ f = Backwards(e)
    BY <2>0, EntriesBackwards
  <2>2. Scores(f) = Scores(e)
    BY <2>1, ScoresBackwards
  <2>3. e = <<>> <=> f = <<>>
    <3>1. f \in Seq(AnyAnswer) /\ Len(f) = Len(e)
      BY <2>1, BackwardsType
    <3> QED BY <2>1, <3>1
  <2>4. e # <<>> => Picked(f, strategy) = Picked(e, strategy)
    BY <1>1, <2>0, <2>1, PickedBackwards
  <2>5. /\ Fused(s, strategy).values = IF e = <<>> THEN {} ELSE Picked(e, strategy)
        /\ Fused(s, strategy).scores = Scores(e)
        /\ Fused(Backwards(s), strategy).values = IF f = <<>> THEN {} ELSE Picked(f, strategy)
        /\ Fused(Backwards(s), strategy).scores = Scores(f)
    BY <2>0 DEF Fused
  <2>6. /\ Fused(s, strategy).values = Fused(Backwards(s), strategy).values
        /\ Fused(s, strategy).scores = Fused(Backwards(s), strategy).scores
    BY ONLY <2>2, <2>3, <2>4, <2>5
  <2> QED BY ONLY <2>6 DEF Backwards
<1>2. ASSUME AnswersOK
      PROVE  ArrivalOrderIrrelevant
  <2>1. answers \in Seq(AnyAnswer)
    BY <1>2 DEF AnswersOK
  <2> QED BY ONLY <1>1, <2>1, Zenon DEF ArrivalOrderIrrelevant
<1> QED BY <1>2, AnswersWellFormed, PTL
=============================================================================

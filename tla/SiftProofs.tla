----------------------------- MODULE SiftProofs -----------------------------
(***************************************************************************)
(* What the other proofs know of numbers and of sifted sequences.  The     *)
(* theorems of induction take an operator, which no prover here can        *)
(* instantiate; over a set of numbers, induction needs none.               *)
(***************************************************************************)
EXTENDS Sift, WellFoundedInduction, TLAPS

\* A set that has 0 and the successor of each of its numbers has them all.
LEMMA NatSetInduction ==
  ASSUME NEW T, 0 \in T, \A n \in Nat : n \in T => n + 1 \in T
  PROVE  Nat \subseteq T
<1> DEFINE B == Nat \ T
<1>1. ASSUME B # {} PROVE FALSE
  <2>1. PICK x \in B : \A y \in B : ~ (<<y, x>> \in OpToRel(<, Nat))
    BY <1>1, WFMin, NatLessThanWellFounded
  <2>2. x \in Nat /\ x # 0
    OBVIOUS
  <2>3. x - 1 \in Nat /\ x - 1 < x /\ x - 1 \in B
    BY <2>2
  <2>4. <<x - 1, x>> \in OpToRel(<, Nat)
    BY <2>2, <2>3 DEF OpToRel
  <2> QED BY <2>1, <2>3, <2>4
<1> QED BY <1>1

\* The least of some numbers.
LEMMA LeastNumber ==
  ASSUME NEW S, S \subseteq Nat, S # {}
  PROVE  \E n \in S : \A m \in S : n <= m
<1>1. PICK n \in S : \A m \in S : ~ (<<m, n>> \in OpToRel(<, Nat))
  BY WFMin, NatLessThanWellFounded
<1>2. \A m \in S : ~ (m < n)
  BY <1>1 DEF OpToRel
<1> QED BY <1>2

\* The sieve exists: what is kept of some elements follows from what is kept of
\* one less.
LEMMA SieveStep ==
  ASSUME NEW s, NEW places, Len(s) \in Nat
  PROVE  /\ Sieve(s, places)[0] = <<>>
         /\ \A i \in 1..Len(s) :
              Sieve(s, places)[i] = IF i \in places THEN Append(Sieve(s, places)[i - 1], s[i])
                                    ELSE Sieve(s, places)[i - 1]
<1> DEFINE At(f, i) == IF i = 0 THEN <<>>
                       ELSE IF i \in places THEN Append(f[i - 1], s[i])
                       ELSE f[i - 1]
           T == {n \in Nat : \E f : f = [i \in 0..n |-> At(f, i)]}
<1>1. 0 \in T
  <2>1. [i \in 0..0 |-> <<>>] = [i \in 0..0 |-> At([j \in 0..0 |-> <<>>], i)]
    OBVIOUS
  <2> QED BY <2>1
<1>2. ASSUME NEW n \in Nat, n \in T PROVE n + 1 \in T
  <2>1. PICK f : f = [i \in 0..n |-> At(f, i)]
    BY <1>2
  <2> DEFINE g == [i \in 0..(n + 1) |-> IF i = n + 1 THEN At(f, n + 1) ELSE f[i]]
  <2>2. \A i \in 0..n : f[i] = At(f, i) /\ g[i] = f[i]
    <3>1. \A h : \A i \in 0..n : [j \in 0..n |-> At(h, j)][i] = At(h, i)
      OBVIOUS
    <3>2. \A i \in 0..n : f[i] = At(f, i)
      <4> HIDE DEF At
      <4> QED BY <2>1, <3>1
    <3>3. \A i \in 0..n : g[i] = f[i]
      <4> HIDE DEF At
      <4> QED OBVIOUS
    <3> HIDE DEF At, g
    <3> QED BY <3>2, <3>3
  <2>3. ASSUME NEW i \in 0..(n + 1) PROVE g[i] = At(g, i)
    <3>1. i # 0 => i - 1 \in 0..n /\ g[i - 1] = f[i - 1]
      OBVIOUS
    <3>2. At(g, i) = At(f, i)
      BY <3>1
    <3>3. CASE i = n + 1
      BY <3>2, <3>3
    <3>4. CASE i # n + 1
      <4>1. i \in 0..n
        BY <3>4
      <4> HIDE DEF At, g
      <4> QED BY <2>2, <3>2, <4>1
    <3> QED BY <3>3, <3>4
  <2>4. g = [i \in 0..(n + 1) |-> g[i]]
    OBVIOUS
  <2>5. g = [i \in 0..(n + 1) |-> At(g, i)]
    <3> HIDE DEF At
    <3>1. [i \in 0..(n + 1) |-> g[i]] = [i \in 0..(n + 1) |-> At(g, i)]
      <4> HIDE DEF g
      <4> QED BY <2>3
    <3> HIDE DEF g
    <3> QED BY <2>4, <3>1
  <2>6. \E h : h = [i \in 0..(n + 1) |-> At(h, i)]
    <3> HIDE DEF At, g
    <3> QED BY <2>5
  <2> HIDE DEF At
  <2> QED BY <2>6
<1>3. Len(s) \in T
  <2> HIDE DEF T
  <2> QED BY <1>1, <1>2, NatSetInduction
<1>4. Sieve(s, places) = CHOOSE f : f = [i \in 0..Len(s) |-> At(f, i)]
  BY DEF Sieve
<1> DEFINE k == Sieve(s, places)
<1>5. k = [i \in 0..Len(s) |-> At(k, i)]
  BY <1>3, <1>4
<1>6. \A i \in 0..Len(s) : k[i] = At(k, i)
  <2>1. \A g : \A i \in 0..Len(s) : [j \in 0..Len(s) |-> At(g, j)][i] = At(g, i)
    OBVIOUS
  <2> HIDE DEF At, k
  <2> QED BY <1>5, <2>1
<1> HIDE DEF k
<1> QED BY <1>6 DEF k

\* What is kept of the first elements depends on them alone.
LEMMA SieveAgree ==
  ASSUME NEW s, NEW t, NEW P, NEW Q, NEW n \in Nat,
         Len(s) \in Nat, Len(t) \in Nat, n <= Len(s), n <= Len(t),
         \A i \in 1..n : (i \in P <=> i \in Q) /\ (i \in P => s[i] = t[i])
  PROVE  Sieve(s, P)[n] = Sieve(t, Q)[n]
<1> DEFINE T == {k \in Nat : k <= n => Sieve(s, P)[k] = Sieve(t, Q)[k]}
<1>1. 0 \in T
  BY SieveStep
<1>2. ASSUME NEW k \in Nat, k \in T PROVE k + 1 \in T
  <2> SUFFICES ASSUME k + 1 <= n PROVE Sieve(s, P)[k + 1] = Sieve(t, Q)[k + 1]
    OBVIOUS
  <2>1. k + 1 \in 1..n /\ k + 1 \in 1..Len(s) /\ k + 1 \in 1..Len(t) /\ (k + 1) - 1 = k
    OBVIOUS
  <2>2. Sieve(s, P)[k] = Sieve(t, Q)[k]
    BY <1>2
  <2>3. /\ Sieve(s, P)[k + 1] = IF k + 1 \in P THEN Append(Sieve(s, P)[k], s[k + 1])
                                ELSE Sieve(s, P)[k]
        /\ Sieve(t, Q)[k + 1] = IF k + 1 \in Q THEN Append(Sieve(t, Q)[k], t[k + 1])
                                ELSE Sieve(t, Q)[k]
    <3>1. /\ \A i \in 1..Len(s) : Sieve(s, P)[i] = IF i \in P THEN Append(Sieve(s, P)[i - 1], s[i])
                                                   ELSE Sieve(s, P)[i - 1]
          /\ \A i \in 1..Len(t) : Sieve(t, Q)[i] = IF i \in Q THEN Append(Sieve(t, Q)[i - 1], t[i])
                                                   ELSE Sieve(t, Q)[i - 1]
      BY SieveStep
    <3> QED BY <2>1, <3>1
  <2> QED BY <2>1, <2>2, <2>3
<1>3. n \in T
  <2> HIDE DEF T
  <2> QED BY <1>1, <1>2, NatSetInduction
<1> QED BY <1>3

\* A sieve keeps a sequence of elements that are there.
LEMMA SieveType ==
  ASSUME NEW S, NEW s \in Seq(S), NEW P, NEW n \in 0..Len(s)
  PROVE  /\ Sieve(s, P)[n] \in Seq(S)
         /\ \A k \in 1..Len(Sieve(s, P)[n]) :
              \E i \in 1..n : i \in P /\ Sieve(s, P)[n][k] = s[i]
<1> DEFINE Kept(j) == Sieve(s, P)[j]
           There(q, j) == q \in Seq(S) /\ \A k \in 1..Len(q) : \E i \in 1..j : i \in P /\ q[k] = s[i]
           T == {j \in Nat : j <= Len(s) => There(Kept(j), j)}
<1>1. 0 \in T
  <2>1. Sieve(s, P)[0] = <<>>
    BY SieveStep
  <2>2. Kept(0) \in Seq(S) /\ Len(Kept(0)) = 0
    BY <2>1
  <2> HIDE DEF Kept
  <2>3. There(Kept(0), 0)
    BY <2>2
  <2> QED BY <2>3
<1>2. ASSUME NEW j \in Nat, j \in T PROVE j + 1 \in T
  <2> SUFFICES ASSUME j + 1 <= Len(s) PROVE There(Kept(j + 1), j + 1)
    OBVIOUS
  <2>1. j + 1 \in 1..Len(s) /\ (j + 1) - 1 = j /\ s[j + 1] \in S
    OBVIOUS
  <2>2. There(Kept(j), j)
    BY <1>2
  <2>3. Kept(j + 1) = IF j + 1 \in P THEN Append(Kept(j), s[j + 1]) ELSE Kept(j)
    <3>1. \A i \in 1..Len(s) : Sieve(s, P)[i] = IF i \in P THEN Append(Sieve(s, P)[i - 1], s[i])
                                                ELSE Sieve(s, P)[i - 1]
      BY SieveStep
    <3> QED BY <2>1, <3>1
  <2> DEFINE q == Kept(j)
  <2>4. q \in Seq(S) /\ \A k \in 1..Len(q) : \E i \in 1..j : i \in P /\ q[k] = s[i]
    BY <2>2
  <2> HIDE DEF q, Kept
  <2>5. CASE j + 1 \in P
    <3>1. Append(q, s[j + 1]) \in Seq(S) /\ Len(Append(q, s[j + 1])) = Len(q) + 1
      BY <2>1, <2>4
    <3>2. ASSUME NEW k \in 1..(Len(q) + 1)
          PROVE  \E i \in 1..(j + 1) : i \in P /\ Append(q, s[j + 1])[k] = s[i]
      <4>1. CASE k = Len(q) + 1
        BY <2>1, <2>4, <2>5, <4>1
      <4>2. CASE k # Len(q) + 1
        BY <2>4, <4>2
      <4> QED BY <4>1, <4>2
    <3> QED BY <2>3, <2>5, <3>1, <3>2 DEF q
  <2>6. CASE j + 1 \notin P
    BY <2>3, <2>4, <2>6 DEF q
  <2> QED BY <2>5, <2>6
<1>3. n \in T
  <2> HIDE DEF T
  <2> QED BY <1>1, <1>2, NatSetInduction
<1> QED BY <1>3

\* A sifted sequence is one of elements that stand at the places.
LEMMA SiftType ==
  ASSUME NEW S, NEW s \in Seq(S), NEW P
  PROVE  /\ Sift(s, P) \in Seq(S)
         /\ \A k \in 1..Len(Sift(s, P)) : \E i \in 1..Len(s) : i \in P /\ Sift(s, P)[k] = s[i]
BY SieveType DEF Sift

\* Nothing is kept of nothing.
LEMMA SiftEmpty ==
  ASSUME NEW P
  PROVE  Sift(<<>>, P) = <<>>
BY SieveStep DEF Sift

\* One more element is kept at the end, or is not.
LEMMA SiftAppend ==
  ASSUME NEW S, NEW s \in Seq(S), NEW x \in S, NEW P, NEW Q,
         \A i \in 1..Len(s) : i \in P <=> i \in Q
  PROVE  Sift(Append(s, x), Q) =
           IF Len(s) + 1 \in Q THEN Append(Sift(s, P), x) ELSE Sift(s, P)
<1> DEFINE t == Append(s, x)
           n == Len(s)
<1>1. t \in Seq(S) /\ n \in Nat /\ Len(t) = n + 1 /\ t[n + 1] = x /\ \A i \in 1..n : t[i] = s[i]
  OBVIOUS
<1> HIDE DEF t
<1>2. Sieve(t, Q)[n] = Sieve(s, P)[n]
  <2>1. \A i \in 1..n : (i \in Q <=> i \in P) /\ (i \in Q => t[i] = s[i])
    BY <1>1
  <2>2. n \in Nat /\ Len(s) \in Nat /\ Len(t) \in Nat /\ n <= Len(s) /\ n <= Len(t)
    BY <1>1
  <2> HIDE DEF n
  <2> QED BY <2>1, <2>2, SieveAgree
<1>3. Sieve(t, Q)[n + 1] = IF n + 1 \in Q THEN Append(Sieve(t, Q)[n], t[n + 1]) ELSE Sieve(t, Q)[n]
  <2>1. \A i \in 1..Len(t) : Sieve(t, Q)[i] = IF i \in Q THEN Append(Sieve(t, Q)[i - 1], t[i])
                                              ELSE Sieve(t, Q)[i - 1]
    BY <1>1, SieveStep
  <2>2. n + 1 \in 1..Len(t) /\ (n + 1) - 1 = n
    BY <1>1
  <2> QED BY <2>1, <2>2
<1> QED BY <1>1, <1>2, <1>3 DEF Sift, t

\* As many elements are kept of more.
LEMMA SiftPrepend ==
  ASSUME NEW S, NEW s \in Seq(S), NEW x \in S, NEW P, NEW Q,
         \A i \in 1..Len(s) : i \in P => i + 1 \in Q
  PROVE  Len(Sift(s, P)) <= Len(Sift(<<x>> \o s, Q))
<1> DEFINE t == <<x>> \o s
           n == Len(s)
           T == {k \in Nat : k <= n => Len(Sieve(s, P)[k]) <= Len(Sieve(t, Q)[k + 1])}
<1>1. t \in Seq(S) /\ n \in Nat /\ Len(t) = n + 1
  OBVIOUS
<1> HIDE DEF t
<1>2. ASSUME NEW i \in 1..Len(t)
      PROVE  /\ i - 1 \in 0..Len(t)
             /\ Len(Sieve(t, Q)[i]) = IF i \in Q THEN Len(Sieve(t, Q)[i - 1]) + 1
                                      ELSE Len(Sieve(t, Q)[i - 1])
             /\ Len(Sieve(t, Q)[i - 1]) \in Nat
  <2>1. i - 1 \in 0..Len(t)
    BY <1>1
  <2>2. Sieve(t, Q)[i - 1] \in Seq(S) /\ t[i] \in S
    BY <1>1, <2>1, SieveType
  <2>3. Sieve(t, Q)[i] = IF i \in Q THEN Append(Sieve(t, Q)[i - 1], t[i]) ELSE Sieve(t, Q)[i - 1]
    BY <1>1, SieveStep
  <2> QED BY <2>1, <2>2, <2>3
<1>3. ASSUME NEW i \in 1..n
      PROVE  /\ Len(Sieve(s, P)[i]) = IF i \in P THEN Len(Sieve(s, P)[i - 1]) + 1
                                      ELSE Len(Sieve(s, P)[i - 1])
             /\ Len(Sieve(s, P)[i - 1]) \in Nat
  <2>1. i - 1 \in 0..Len(s)
    BY <1>1
  <2>2. Sieve(s, P)[i - 1] \in Seq(S) /\ s[i] \in S
    BY <1>1, <2>1, SieveType
  <2>3. Sieve(s, P)[i] = IF i \in P THEN Append(Sieve(s, P)[i - 1], s[i]) ELSE Sieve(s, P)[i - 1]
    BY <1>1, SieveStep
  <2> QED BY <2>1, <2>2, <2>3
<1>4. 0 \in T
  <2>1. Len(Sieve(s, P)[0]) = 0
    BY <1>1, SieveStep
  <2>2. 1 \in 0..Len(t)
    BY <1>1
  <2>3. Sieve(t, Q)[1] \in Seq(S)
    BY <1>1, <2>2, SieveType
  <2>4. Len(Sieve(t, Q)[0 + 1]) \in Nat
    BY <2>3
  <2> QED BY <2>1, <2>4
<1>5. ASSUME NEW k \in Nat, k \in T PROVE k + 1 \in T
  <2> SUFFICES ASSUME k + 1 <= n PROVE Len(Sieve(s, P)[k + 1]) <= Len(Sieve(t, Q)[(k + 1) + 1])
    OBVIOUS
  <2>1. k + 1 \in 1..n /\ (k + 1) - 1 = k /\ (k + 1) + 1 \in 1..Len(t) /\ ((k + 1) + 1) - 1 = k + 1
    BY <1>1
  <2>2. Len(Sieve(s, P)[k]) <= Len(Sieve(t, Q)[k + 1])
    BY <1>5, <2>1
  <2>3. /\ Len(Sieve(s, P)[k + 1]) = IF k + 1 \in P THEN Len(Sieve(s, P)[k]) + 1
                                     ELSE Len(Sieve(s, P)[k])
        /\ Len(Sieve(s, P)[k]) \in Nat
    BY <1>3, <2>1
  <2>4. /\ Len(Sieve(t, Q)[(k + 1) + 1]) = IF (k + 1) + 1 \in Q THEN Len(Sieve(t, Q)[k + 1]) + 1
                                           ELSE Len(Sieve(t, Q)[k + 1])
        /\ Len(Sieve(t, Q)[k + 1]) \in Nat
    BY <1>2, <2>1
  <2>5. k + 1 \in P => (k + 1) + 1 \in Q
    BY <2>1
  <2> QED BY <2>2, <2>3, <2>4, <2>5
<1>6. n \in T
  <2> HIDE DEF T
  <2> QED BY <1>1, <1>4, <1>5, NatSetInduction
<1>7. Len(Sieve(s, P)[n]) <= Len(Sieve(t, Q)[n + 1])
  BY <1>6
<1> QED BY <1>1, <1>7 DEF Sift, t

\* What is kept stands in the order of its places, and nothing at a place is left
\* out.
LEMMA SievePlaces ==
  ASSUME NEW S, NEW s \in Seq(S), NEW P, NEW n \in 0..Len(s)
  PROVE  \E at \in [1..Len(Sieve(s, P)[n]) -> 1..n] :
           /\ \A k \in 1..Len(Sieve(s, P)[n]) : at[k] \in P /\ Sieve(s, P)[n][k] = s[at[k]]
           /\ \A k, m \in 1..Len(Sieve(s, P)[n]) : k < m => at[k] < at[m]
           /\ \A i \in 1..n : i \in P => \E k \in 1..Len(Sieve(s, P)[n]) : at[k] = i
<1> DEFINE Placed(q, at, j) ==
             /\ at \in [1..Len(q) -> 1..j]
             /\ \A k \in 1..Len(q) : at[k] \in P /\ q[k] = s[at[k]]
             /\ \A k, m \in 1..Len(q) : k < m => at[k] < at[m]
             /\ \A i \in 1..j : i \in P => \E k \in 1..Len(q) : at[k] = i
           T == {j \in Nat : j <= Len(s) => \E at : Placed(Sieve(s, P)[j], at, j)}
<1>1. 0 \in T
  <2>1. Len(Sieve(s, P)[0]) = 0
    BY SieveStep
  <2>2. Placed(Sieve(s, P)[0], [k \in 1..0 |-> 0], 0)
    BY <2>1
  <2> HIDE DEF Placed
  <2> QED BY <2>2
<1>2. ASSUME NEW j \in Nat, j \in T PROVE j + 1 \in T
  <2> SUFFICES ASSUME j + 1 <= Len(s) PROVE \E at : Placed(Sieve(s, P)[j + 1], at, j + 1)
    OBVIOUS
  <2>1. j + 1 \in 1..Len(s) /\ (j + 1) - 1 = j /\ s[j + 1] \in S /\ j \in 0..Len(s)
    OBVIOUS
  <2>2. PICK q : q = Sieve(s, P)[j]
    OBVIOUS
  <2>3. PICK at : Placed(q, at, j)
    <3> HIDE DEF Placed
    <3> QED BY <1>2, <2>1, <2>2
  <2>4. Sieve(s, P)[j + 1] = IF j + 1 \in P THEN Append(q, s[j + 1]) ELSE q
    <3>1. \A i \in 1..Len(s) : Sieve(s, P)[i] = IF i \in P THEN Append(Sieve(s, P)[i - 1], s[i])
                                                ELSE Sieve(s, P)[i - 1]
      BY SieveStep
    <3> QED BY <2>1, <2>2, <3>1
  <2>5. q \in Seq(S)
    BY <2>1, <2>2, SieveType
  <2>6. CASE j + 1 \notin P
    <3>1. Placed(q, at, j + 1)
      BY <2>3, <2>6
    <3> HIDE DEF Placed
    <3> QED BY <2>4, <2>6, <3>1
  <2>7. CASE j + 1 \in P
    <3> DEFINE r == Append(q, s[j + 1])
               more == [k \in 1..(Len(q) + 1) |-> IF k = Len(q) + 1 THEN j + 1 ELSE at[k]]
    <3>1. Len(r) = Len(q) + 1 /\ r[Len(q) + 1] = s[j + 1] /\ \A k \in 1..Len(q) : r[k] = q[k]
      BY <2>1, <2>5
    <3>2. more[Len(q) + 1] = j + 1 /\ \A k \in 1..Len(q) : more[k] = at[k]
      BY <2>5
    <3>3. more \in [1..(Len(q) + 1) -> 1..(j + 1)]
      BY <2>3, <2>5
    <3>4. Len(q) \in Nat
      BY <2>5
    <3> HIDE DEF r, more
    <3>5. \A k \in 1..(Len(q) + 1) : k = Len(q) + 1 \/ k \in 1..Len(q)
      BY <3>4
    <3>6. \A k \in 1..Len(r) : more[k] \in P /\ r[k] = s[more[k]]
      BY <2>3, <2>7, <3>1, <3>2, <3>5
    <3>7. \A k, m \in 1..Len(r) : k < m => more[k] < more[m]
      <4> SUFFICES ASSUME NEW k \in 1..(Len(q) + 1), NEW m \in 1..(Len(q) + 1), k < m
                   PROVE  more[k] < more[m]
        BY <3>1
      <4>1. k \in 1..Len(q) /\ at[k] \in 1..j /\ more[k] = at[k]
        BY <2>3, <3>2, <3>4
      <4>2. CASE m = Len(q) + 1
        BY <3>2, <4>1, <4>2
      <4>3. CASE m \in 1..Len(q)
        BY <2>3, <3>2, <4>1, <4>3
      <4> QED BY <3>5, <4>2, <4>3
    <3>8. \A i \in 1..(j + 1) : i \in P => \E k \in 1..Len(r) : more[k] = i
      <4> SUFFICES ASSUME NEW i \in 1..(j + 1), i \in P
                   PROVE  \E k \in 1..(Len(q) + 1) : more[k] = i
        BY <3>1
      <4>1. CASE i = j + 1
        BY <3>2, <3>4, <4>1
      <4>2. CASE i # j + 1
        <5>1. PICK k \in 1..Len(q) : at[k] = i
          BY <2>3, <4>2
        <5> QED BY <3>2, <3>4, <5>1
      <4> QED BY <4>1, <4>2
    <3>9. Placed(r, more, j + 1)
      BY <3>1, <3>3, <3>6, <3>7, <3>8
    <3> HIDE DEF Placed
    <3> QED BY <2>4, <2>7, <3>9 DEF r
  <2> QED BY <2>6, <2>7
<1>3. n \in T
  <2> HIDE DEF T
  <2> QED BY <1>1, <1>2, NatSetInduction
<1>4. PICK at : Placed(Sieve(s, P)[n], at, n)
  <2> HIDE DEF Placed
  <2> QED BY <1>3
<1> QED BY <1>4

LEMMA SiftPlaces ==
  ASSUME NEW S, NEW s \in Seq(S), NEW P
  PROVE  \E at \in [1..Len(Sift(s, P)) -> 1..Len(s)] :
           /\ \A k \in 1..Len(Sift(s, P)) : at[k] \in P /\ Sift(s, P)[k] = s[at[k]]
           /\ \A k, m \in 1..Len(Sift(s, P)) : k < m => at[k] < at[m]
           /\ \A i \in 1..Len(s) : i \in P => \E k \in 1..Len(Sift(s, P)) : at[k] = i
<1>1. PICK n : n = Len(s)
  OBVIOUS
<1>2. n \in 0..Len(s) /\ Sift(s, P) = Sieve(s, P)[n]
  BY <1>1 DEF Sift
<1>3. PICK q : q = Sieve(s, P)[n]
  OBVIOUS
<1>4. \E at \in [1..Len(q) -> 1..n] :
        /\ \A k \in 1..Len(q) : at[k] \in P /\ q[k] = s[at[k]]
        /\ \A k, m \in 1..Len(q) : k < m => at[k] < at[m]
        /\ \A i \in 1..n : i \in P => \E k \in 1..Len(q) : at[k] = i
  BY <1>2, <1>3, SievePlaces
<1>5. Sift(s, P) = q /\ Len(s) = n
  BY <1>1, <1>2, <1>3
<1> QED BY ONLY <1>4, <1>5

\* One sequence after another, and sequences that are equal place by place.
LEMMA Concatenated ==
  ASSUME NEW S, NEW a \in Seq(S), NEW b \in Seq(S)
  PROVE  /\ a \o b \in Seq(S) /\ Len(a \o b) = Len(a) + Len(b)
         /\ \A i \in 1..Len(a) : (a \o b)[i] = a[i]
         /\ \A i \in 1..Len(b) : (a \o b)[Len(a) + i] = b[i]
OBVIOUS

LEMMA BuiltSequence ==
  ASSUME NEW S, NEW n \in Nat, NEW f, f = [i \in 1..n |-> f[i]], \A i \in 1..n : f[i] \in S
  PROVE  f \in Seq(S) /\ Len(f) = n
OBVIOUS

LEMMA SameSequence ==
  ASSUME NEW S, NEW a \in Seq(S), NEW b \in Seq(S), Len(a) = Len(b),
         \A i \in 1..Len(b) : b[i] = a[i]
  PROVE  b = a
OBVIOUS

\* Nothing is kept of a sequence that has none of the places, and all of one that
\* has no other.
LEMMA SiftNone ==
  ASSUME NEW S, NEW s \in Seq(S), NEW P, \A i \in 1..Len(s) : i \notin P
  PROVE  Sift(s, P) = <<>>
<1>1. \A k \in 1..Len(Sift(s, P)) : FALSE
  BY SiftPlaces
<1>2. Sift(s, P) \in Seq(S)
  BY SiftType
<1> PICK q : q = Sift(s, P)
  OBVIOUS
<1>3. q \in Seq(S) /\ Len(q) = 0
  <2>1. q \in Seq(S) /\ ~ (1 \in 1..Len(q))
    BY <1>1, <1>2
  <2> QED BY ONLY <2>1
<1> QED BY <1>3

LEMMA SiftAll ==
  ASSUME NEW S, NEW s \in Seq(S), NEW P, \A i \in 1..Len(s) : i \in P
  PROVE  Sift(s, P) = s
<1> DEFINE T == {k \in Nat : k <= Len(s) => Sieve(s, P)[k] = SubSeq(s, 1, k)}
<1>1. 0 \in T
  <2>1. Sieve(s, P)[0] = <<>>
    BY SieveStep
  <2>2. SubSeq(s, 1, 0) = <<>>
    OBVIOUS
  <2> QED BY <2>1, <2>2
<1>2. ASSUME NEW k \in Nat, k \in T PROVE k + 1 \in T
  <2> SUFFICES ASSUME k + 1 <= Len(s) PROVE Sieve(s, P)[k + 1] = SubSeq(s, 1, k + 1)
    OBVIOUS
  <2>1. Sieve(s, P)[k] = SubSeq(s, 1, k)
    BY <1>2
  <2>2. Sieve(s, P)[k + 1] = Append(Sieve(s, P)[k], s[k + 1])
    <3>1. k + 1 \in 1..Len(s) /\ (k + 1) - 1 = k
      OBVIOUS
    <3>2. \A i \in 1..Len(s) : Sieve(s, P)[i] = IF i \in P THEN Append(Sieve(s, P)[i - 1], s[i])
                                                ELSE Sieve(s, P)[i - 1]
      BY SieveStep
    <3> QED BY <3>1, <3>2
  <2>3. Append(SubSeq(s, 1, k), s[k + 1]) = SubSeq(s, 1, k + 1)
    OBVIOUS
  <2> QED BY <2>1, <2>2, <2>3
<1>3. Len(s) \in T
  <2> HIDE DEF T
  <2> QED BY <1>1, <1>2, NatSetInduction
<1>4. SubSeq(s, 1, Len(s)) = s
  OBVIOUS
<1> QED BY <1>3, <1>4 DEF Sift

\* What is kept is the first element, or all but it.
LEMMA SiftFirst ==
  ASSUME NEW S, NEW s \in Seq(S), Len(s) >= 1, NEW P, 1 \in P, \A i \in 2..Len(s) : i \notin P
  PROVE  Sift(s, P) = <<s[1]>>
<1> PICK q : q = Sift(s, P)
  OBVIOUS
<1>1. q \in Seq(S)
  BY SiftType
<1>2. PICK at \in [1..Len(q) -> 1..Len(s)] :
        /\ \A k \in 1..Len(q) : at[k] \in P /\ q[k] = s[at[k]]
        /\ \A k, m \in 1..Len(q) : k < m => at[k] < at[m]
        /\ \A i \in 1..Len(s) : i \in P => \E k \in 1..Len(q) : at[k] = i
  BY SiftPlaces
<1>3. \A k \in 1..Len(q) : at[k] = 1
  <2> TAKE k \in 1..Len(q)
  <2>1. at[k] \in 1..Len(s) /\ at[k] \in P
    BY <1>2
  <2> QED BY <2>1
<1>4. PICK k \in 1..Len(q) : at[k] = 1
  BY <1>2
<1>5. \A m \in 1..Len(q) : m = k
  <2> TAKE m \in 1..Len(q)
  <2>1. at[m] = 1 /\ at[k] = 1
    BY <1>3
  <2>2. ~ (k < m) /\ ~ (m < k)
    <3>1. (k < m => at[k] < at[m]) /\ (m < k => at[m] < at[k])
      BY <1>2
    <3> QED BY <2>1, <3>1
  <2> QED BY <1>1, <2>2
<1>6. Len(q) = 1
  <2>1. 1 \in 1..Len(q) /\ Len(q) \in 1..Len(q)
    BY <1>1, <1>4
  <2> QED BY <1>5, <2>1
<1>7. q[1] = s[1]
  BY <1>2, <1>3, <1>6
<1> QED BY <1>1, <1>6, <1>7

LEMMA SiftRest ==
  ASSUME NEW S, NEW s \in Seq(S), Len(s) >= 1, NEW P, 1 \notin P, \A i \in 2..Len(s) : i \in P
  PROVE  Sift(s, P) = SubSeq(s, 2, Len(s))
<1> DEFINE T == {k \in Nat : k + 1 <= Len(s) => Sieve(s, P)[k + 1] = SubSeq(s, 2, k + 1)}
<1>1. \A i \in 1..Len(s) : Sieve(s, P)[i] = IF i \in P THEN Append(Sieve(s, P)[i - 1], s[i])
                                            ELSE Sieve(s, P)[i - 1]
  BY SieveStep
<1>2. 0 \in T
  <2>1. Sieve(s, P)[0] = <<>>
    BY SieveStep
  <2>2. SubSeq(s, 2, 1) = <<>>
    OBVIOUS
  <2>3. Sieve(s, P)[1] = Sieve(s, P)[0]
    <3>1. 1 \in 1..Len(s) /\ 1 - 1 = 0
      OBVIOUS
    <3> QED BY <1>1, <3>1
  <2>4. 0 + 1 = 1
    OBVIOUS
  <2> QED BY <2>1, <2>2, <2>3, <2>4
<1>3. ASSUME NEW k \in Nat, k \in T PROVE k + 1 \in T
  <2> SUFFICES ASSUME (k + 1) + 1 <= Len(s)
               PROVE  Sieve(s, P)[(k + 1) + 1] = SubSeq(s, 2, (k + 1) + 1)
    OBVIOUS
  <2>1. Sieve(s, P)[k + 1] = SubSeq(s, 2, k + 1)
    BY <1>3
  <2> PICK m : m = (k + 1) + 1
    OBVIOUS
  <2>2. m \in 2..Len(s) /\ m - 1 = k + 1 /\ m \in P
    OBVIOUS
  <2>3. Sieve(s, P)[m] = Append(Sieve(s, P)[k + 1], s[m])
    <3>1. m \in 1..Len(s)
      BY <2>2
    <3>2. Sieve(s, P)[m] = Append(Sieve(s, P)[m - 1], s[m])
      BY <1>1, <2>2, <3>1
    <3> QED BY <2>2, <3>2
  <2>4. Append(SubSeq(s, 2, k + 1), s[m]) = SubSeq(s, 2, m)
    <3>1. Append(SubSeq(s, 2, m - 1), s[m]) = SubSeq(s, 2, m)
      BY <2>2
    <3> QED BY <2>2, <3>1
  <2> QED BY <2>1, <2>3, <2>4
<1>4. Len(s) - 1 \in T
  <2>1. Len(s) - 1 \in Nat
    OBVIOUS
  <2>2. Nat \subseteq T
    <3> HIDE DEF T
    <3> QED BY <1>2, <1>3, NatSetInduction
  <2> QED BY <2>1, <2>2
<1>5. (Len(s) - 1) + 1 = Len(s)
  OBVIOUS
<1> QED BY <1>4, <1>5 DEF Sift

\* The greatest of some numbers that are at most n.
LEMMA GreatestNumber ==
  ASSUME NEW n \in Nat, NEW S, S \subseteq 0..n, S # {}
  PROVE  \E m \in S : \A k \in S : m >= k
<1> DEFINE R == {n - k : k \in S}
<1>1. R \subseteq Nat /\ R # {}
  <2>1. \A k \in S : n - k \in Nat
    OBVIOUS
  <2> QED BY <2>1
<1>2. PICK r \in R : \A q \in R : r <= q
  <2> HIDE DEF R
  <2> QED BY <1>1, LeastNumber
<1>3. PICK m \in S : r = n - m
  OBVIOUS
<1>4. \A k \in S : n - m <= n - k
  BY <1>2, <1>3
<1>5. \A k \in S : m >= k
  BY <1>4
<1> QED BY <1>5

\* A sum is one number more than that of the numbers before.
LEMMA TotalsStep ==
  ASSUME NEW w \in Seq(Nat)
  PROVE  /\ Totals(w)[0] = 0
         /\ \A i \in 1..Len(w) : Totals(w)[i] = Totals(w)[i - 1] + w[i]
<1> DEFINE At(f, i) == IF i = 0 THEN 0 ELSE f[i - 1] + w[i]
           T == {n \in Nat : n <= Len(w) => \E f : f = [i \in 0..n |-> At(f, i)]}
<1>1. 0 \in T
  <2>1. [i \in 0..0 |-> 0] = [i \in 0..0 |-> At([j \in 0..0 |-> 0], i)]
    OBVIOUS
  <2> QED BY <2>1
<1>2. ASSUME NEW n \in Nat, n \in T PROVE n + 1 \in T
  <2> SUFFICES ASSUME n + 1 <= Len(w) PROVE \E f : f = [i \in 0..(n + 1) |-> At(f, i)]
    OBVIOUS
  <2>1. PICK f : f = [i \in 0..n |-> At(f, i)]
    BY <1>2
  <2> DEFINE g == [i \in 0..(n + 1) |-> IF i = n + 1 THEN At(f, n + 1) ELSE f[i]]
  <2>2. \A i \in 0..n : f[i] = At(f, i) /\ g[i] = f[i]
    <3>1. \A h : \A i \in 0..n : [j \in 0..n |-> At(h, j)][i] = At(h, i)
      OBVIOUS
    <3>2. \A i \in 0..n : f[i] = At(f, i)
      <4> HIDE DEF At
      <4> QED BY <2>1, <3>1
    <3>3. \A i \in 0..n : g[i] = f[i]
      <4> HIDE DEF At
      <4> QED OBVIOUS
    <3> HIDE DEF At, g
    <3> QED BY <3>2, <3>3
  <2>3. ASSUME NEW i \in 0..(n + 1) PROVE g[i] = At(g, i)
    <3>1. i # 0 => i - 1 \in 0..n /\ g[i - 1] = f[i - 1]
      OBVIOUS
    <3>2. At(g, i) = At(f, i)
      BY <3>1
    <3>3. CASE i = n + 1
      BY <3>2, <3>3
    <3>4. CASE i # n + 1
      <4>1. i \in 0..n
        BY <3>4
      <4> HIDE DEF At, g
      <4> QED BY <2>2, <3>2, <4>1
    <3> QED BY <3>3, <3>4
  <2>4. g = [i \in 0..(n + 1) |-> g[i]]
    OBVIOUS
  <2>5. g = [i \in 0..(n + 1) |-> At(g, i)]
    <3> HIDE DEF At
    <3>1. [i \in 0..(n + 1) |-> g[i]] = [i \in 0..(n + 1) |-> At(g, i)]
      <4> HIDE DEF g
      <4> QED BY <2>3
    <3> HIDE DEF g
    <3> QED BY <2>4, <3>1
  <2>6. \E h : h = [i \in 0..(n + 1) |-> At(h, i)]
    <3> HIDE DEF At, g
    <3> QED BY <2>5
  <2> HIDE DEF At
  <2> QED BY <2>6
<1>3. Len(w) \in T
  <2> HIDE DEF T
  <2> QED BY <1>1, <1>2, NatSetInduction
<1>4. Totals(w) = CHOOSE f : f = [i \in 0..Len(w) |-> At(f, i)]
  BY DEF Totals
<1> DEFINE k == Totals(w)
<1>5. k = [i \in 0..Len(w) |-> At(k, i)]
  <2>1. \E f : f = [i \in 0..Len(w) |-> At(f, i)]
    <3> HIDE DEF At
    <3> QED BY <1>3
  <2> HIDE DEF At
  <2> QED BY <1>4, <2>1
<1>6. \A i \in 0..Len(w) : k[i] = At(k, i)
  <2>1. \A g : \A i \in 0..Len(w) : [j \in 0..Len(w) |-> At(g, j)][i] = At(g, i)
    OBVIOUS
  <2> HIDE DEF At, k
  <2> QED BY <1>5, <2>1
<1> HIDE DEF k
<1> QED BY <1>6 DEF k

LEMMA TotalsType ==
  ASSUME NEW w \in Seq(Nat), NEW n \in 0..Len(w)
  PROVE  Totals(w)[n] \in Nat
<1> DEFINE T == {k \in Nat : k <= Len(w) => Totals(w)[k] \in Nat}
<1>1. 0 \in T
  BY TotalsStep
<1>2. ASSUME NEW k \in Nat, k \in T PROVE k + 1 \in T
  <2> SUFFICES ASSUME k + 1 <= Len(w) PROVE Totals(w)[k + 1] \in Nat
    OBVIOUS
  <2>1. k + 1 \in 1..Len(w) /\ (k + 1) - 1 = k /\ Totals(w)[k] \in Nat
    BY <1>2
  <2>2. \A i \in 1..Len(w) : Totals(w)[i] = Totals(w)[i - 1] + w[i]
    BY TotalsStep
  <2>3. Totals(w)[k + 1] = Totals(w)[k] + w[k + 1]
    BY <2>1, <2>2
  <2>4. w[k + 1] \in Nat
    BY <2>1
  <2> QED BY <2>1, <2>3, <2>4
<1>3. n \in T
  <2>1. n \in Nat
    OBVIOUS
  <2>2. Nat \subseteq T
    <3> HIDE DEF T
    <3> QED BY <1>1, <1>2, NatSetInduction
  <2> QED BY <2>1, <2>2
<1> QED BY <1>3

\* The sum of two sequences, one after the other, is that of their sums.
LEMMA TotalConcat ==
  ASSUME NEW a \in Seq(Nat), NEW b \in Seq(Nat)
  PROVE  Total(a) \in Nat /\ Total(b) \in Nat /\ Total(a \o b) = Total(a) + Total(b)
<1> PICK c, m, n : c = a \o b /\ m = Len(a) /\ n = Len(b)
  OBVIOUS
<1>1. /\ c \in Seq(Nat) /\ m \in Nat /\ n \in Nat /\ Len(c) = m + n
      /\ \A i \in 1..m : c[i] = a[i]
      /\ \A i \in 1..n : c[m + i] = b[i]
  OBVIOUS
<1>2. Totals(a)[0] = 0 /\ \A i \in 1..m : Totals(a)[i] = Totals(a)[i - 1] + a[i]
  BY TotalsStep
<1>3. Totals(b)[0] = 0 /\ \A i \in 1..n : Totals(b)[i] = Totals(b)[i - 1] + b[i]
  BY TotalsStep
<1>4. Totals(c)[0] = 0 /\ \A i \in 1..(m + n) : Totals(c)[i] = Totals(c)[i - 1] + c[i]
  BY <1>1, TotalsStep
<1> DEFINE T == {k \in Nat : k <= m => Totals(c)[k] = Totals(a)[k]}
           U == {k \in Nat : k <= n => Totals(c)[m + k] = Totals(a)[m] + Totals(b)[k]}
<1>5. m \in T
  <2>1. 0 \in T
    BY <1>2, <1>4
  <2>2. ASSUME NEW k \in Nat, k \in T PROVE k + 1 \in T
    <3> SUFFICES ASSUME k + 1 <= m PROVE Totals(c)[k + 1] = Totals(a)[k + 1]
      OBVIOUS
    <3>1. Totals(c)[k] = Totals(a)[k]
      BY <2>2, <1>1
    <3>2. k + 1 \in 1..m /\ k + 1 \in 1..(m + n) /\ (k + 1) - 1 = k
      BY <1>1
    <3>3. Totals(c)[k + 1] = Totals(c)[k] + c[k + 1] /\ Totals(a)[k + 1] = Totals(a)[k] + a[k + 1]
      BY <1>2, <1>4, <3>2
    <3> QED BY <1>1, <3>1, <3>2, <3>3
  <2> HIDE DEF T
  <2> QED BY <1>1, <2>1, <2>2, NatSetInduction
<1>6. Totals(a)[m] \in Nat /\ \A k \in 0..n : Totals(b)[k] \in Nat
  <2>1. m \in 0..Len(a) /\ \A k \in 0..n : k \in 0..Len(b)
    BY <1>1
  <2> QED BY <2>1, TotalsType
<1>7. n \in U
  <2>1. 0 \in U
    <3>1. Totals(c)[m] = Totals(a)[m] /\ m + 0 = m
      BY <1>1, <1>5
    <3> QED BY <1>3, <1>6, <3>1
  <2>2. ASSUME NEW k \in Nat, k \in U PROVE k + 1 \in U
    <3> SUFFICES ASSUME k + 1 <= n
                 PROVE  Totals(c)[m + (k + 1)] = Totals(a)[m] + Totals(b)[k + 1]
      OBVIOUS
    <3>1. Totals(c)[m + k] = Totals(a)[m] + Totals(b)[k]
      BY <2>2, <1>1
    <3>2. /\ k + 1 \in 1..n /\ m + (k + 1) \in 1..(m + n) /\ (k + 1) - 1 = k /\ k \in 0..n
          /\ (m + (k + 1)) - 1 = m + k
      BY <1>1
    <3>3. Totals(c)[m + (k + 1)] = Totals(c)[m + k] + c[m + (k + 1)]
      BY <1>4, <3>2
    <3>4. Totals(b)[k + 1] = Totals(b)[k] + b[k + 1]
      BY <1>3, <3>2
    <3>5. c[m + (k + 1)] = b[k + 1] /\ b[k + 1] \in Nat
      BY <1>1, <3>2
    <3> QED BY <1>6, <3>1, <3>2, <3>3, <3>4, <3>5
  <2> HIDE DEF U
  <2> QED BY <1>1, <2>1, <2>2, NatSetInduction
<1>8. Total(a) = Totals(a)[m] /\ Total(b) = Totals(b)[n] /\ Total(c) = Totals(c)[m + n]
  BY <1>1 DEF Total
<1> QED BY <1>1, <1>6, <1>7, <1>8

\* A function is defined by its first value and a step from each to the next.
Steps(f, D, x, n, step) ==
  f \in [0..n -> D] /\ f[0] = x /\ \A i \in 1..n : f[i] = step[i][f[i - 1]]

LEMMA Recursion ==
  ASSUME NEW D, NEW x \in D, NEW n \in Nat, NEW step \in [1..n -> [D -> D]]
  PROVE  \E f : Steps(f, D, x, n, step)
<1> DEFINE T == {k \in Nat : k <= n => \E f : Steps(f, D, x, k, step)}
<1>1. 0 \in T
  <2>1. Steps([i \in 0..0 |-> x], D, x, 0, step)
    BY DEF Steps
  <2> QED BY <2>1
<1>2. ASSUME NEW k \in Nat, k \in T PROVE k + 1 \in T
  <2> SUFFICES ASSUME k + 1 <= n PROVE \E f : Steps(f, D, x, k + 1, step)
    OBVIOUS
  <2>1. PICK f : Steps(f, D, x, k, step)
    BY <1>2
  <2>2. PICK g : g = [i \in 0..(k + 1) |-> IF i = k + 1 THEN step[k + 1][f[k]] ELSE f[i]]
    OBVIOUS
  <2>3. step[k + 1][f[k]] \in D
    BY <2>1 DEF Steps
  <2>4. g \in [0..(k + 1) -> D] /\ g[k + 1] = step[k + 1][f[k]] /\ \A i \in 0..k : g[i] = f[i]
    BY <2>1, <2>2, <2>3 DEF Steps
  <2>5. ASSUME NEW i \in 1..(k + 1) PROVE g[i] = step[i][g[i - 1]]
    <3>1. i - 1 \in 0..k /\ g[i - 1] = f[i - 1]
      BY <2>4
    <3>2. CASE i = k + 1
      <4>1. i - 1 = k
        BY <3>2
      <4> QED BY <2>4, <3>1, <3>2, <4>1
    <3>3. CASE i # k + 1
      <4>1. i \in 1..k
        BY <3>3
      <4> QED BY <2>1, <2>4, <3>1, <4>1 DEF Steps
    <3> QED BY <3>2, <3>3
  <2>6. Steps(g, D, x, k + 1, step)
    BY <2>1, <2>4, <2>5 DEF Steps
  <2> QED BY <2>6
<1>3. n \in T
  <2> HIDE DEF T
  <2> QED BY <1>1, <1>2, NatSetInduction
<1> QED BY <1>3

-----------------------------------------------------------------------------
(* What is kept, joined and given once.                                   *)

\* What is kept is what stands at the places.
LEMMA ItemsOfSift ==
  ASSUME NEW S, NEW s \in Seq(S), NEW P
  PROVE  Items(Sift(s, P)) = {s[i] : i \in {j \in DOMAIN s : j \in P}}
<1>0. PICK q : q = Sift(s, P)
  OBVIOUS
<1>1. q \in Seq(S)
  BY <1>0, SiftType
<1>2. PICK at \in [1..Len(q) -> 1..Len(s)] :
        /\ \A k \in 1..Len(q) : at[k] \in P /\ q[k] = s[at[k]]
        /\ \A i \in 1..Len(s) : i \in P => \E k \in 1..Len(q) : at[k] = i
  BY <1>0, SiftPlaces
<1>3. DOMAIN q = 1..Len(q) /\ DOMAIN s = 1..Len(s)
  BY <1>1
<1>4. ASSUME NEW k \in DOMAIN q PROVE q[k] \in {s[i] : i \in {j \in DOMAIN s : j \in P}}
  BY <1>2, <1>3
<1>5. ASSUME NEW i \in DOMAIN s, i \in P PROVE s[i] \in {q[k] : k \in DOMAIN q}
  <2>1. PICK k \in 1..Len(q) : at[k] = i
    BY <1>2, <1>3, <1>5
  <2> QED BY <1>2, <1>3, <2>1
<1> QED BY <1>0, <1>4, <1>5 DEF Items

\* The first of equal elements are all there is, each once.
LEMMA FirstOfEqual ==
  ASSUME NEW S, NEW s \in Seq(S), NEW q, q = Sift(s, FirstPlaces(s))
  PROVE  /\ q \in Seq(S) /\ Items(q) = Items(s)
         /\ \A k, m \in 1..Len(q) : q[k] = q[m] => k = m
<1>1. q \in Seq(S)
  BY SiftType
<1>2. Items(q) = {s[i] : i \in {j \in DOMAIN s : j \in FirstPlaces(s)}}
  BY ItemsOfSift
<1>3. ASSUME NEW x \in Items(s)
      PROVE  \E i \in DOMAIN s : i \in FirstPlaces(s) /\ s[i] = x
  <2>1. PICK T : T = {i \in DOMAIN s : s[i] = x}
    OBVIOUS
  <2>2. T \subseteq Nat /\ T # {}
    BY <2>1 DEF Items
  <2>3. PICK i \in T : \A m \in T : i <= m
    BY <2>2, LeastNumber
  <2>4. ASSUME NEW j \in 1..(i - 1) PROVE s[j] # s[i]
    <3>1. i \in 1..Len(s) /\ j \in DOMAIN s /\ j < i /\ j \in Nat
      BY <2>1, <2>3, <2>4
    <3> QED BY <2>1, <2>3, <3>1
  <2> QED BY <2>1, <2>3, <2>4 DEF FirstPlaces
<1>4. Items(q) = Items(s)
  BY <1>2, <1>3 DEF Items
<1>5. PICK at \in [1..Len(q) -> 1..Len(s)] :
        /\ \A k \in 1..Len(q) : at[k] \in FirstPlaces(s) /\ q[k] = s[at[k]]
        /\ \A k, m \in 1..Len(q) : k < m => at[k] < at[m]
  BY SiftPlaces
<1>6. ASSUME NEW k \in 1..Len(q), NEW m \in 1..Len(q), k < m PROVE q[k] # q[m]
  <2>1. /\ at[k] \in 1..Len(s) /\ at[m] \in 1..Len(s) /\ at[k] < at[m]
        /\ at[m] \in FirstPlaces(s) /\ q[k] = s[at[k]] /\ q[m] = s[at[m]]
    BY <1>5, <1>6
  <2>2. at[k] \in 1..(at[m] - 1)
    BY <2>1
  <2> QED BY <2>1, <2>2 DEF FirstPlaces
<1>7. ASSUME NEW k \in 1..Len(q), NEW m \in 1..Len(q), q[k] = q[m] PROVE k = m
  <2>1. k < m \/ m < k \/ k = m
    OBVIOUS
  <2> QED BY <1>6, <1>7, <2>1
<1> QED BY <1>1, <1>4, <1>7

\* What follows each other holds what both hold.
LEMMA ConcatItems ==
  ASSUME NEW S, NEW a \in Seq(S), NEW b \in Seq(S)
  PROVE  Items(a \o b) = Items(a) \cup Items(b)
<1>1. PICK c : c = a \o b
  OBVIOUS
<1>2. /\ c \in Seq(S) /\ Len(c) = Len(a) + Len(b)
      /\ \A i \in 1..Len(a) : c[i] = a[i]
      /\ \A i \in 1..Len(b) : c[Len(a) + i] = b[i]
  BY <1>1, Concatenated
<1>3. /\ Len(a) \in Nat /\ Len(b) \in Nat /\ DOMAIN a = 1..Len(a) /\ DOMAIN b = 1..Len(b)
      /\ DOMAIN c = 1..Len(c)
  BY <1>2
<1>4. ASSUME NEW k \in DOMAIN c PROVE c[k] \in Items(a) \/ c[k] \in Items(b)
  <2>1. k \in 1..Len(a) \/ (k - Len(a) \in 1..Len(b) /\ k = Len(a) + (k - Len(a)))
    BY <1>2, <1>3
  <2> QED BY <1>2, <1>3, <2>1 DEF Items
<1>5. ASSUME NEW k \in DOMAIN a PROVE a[k] \in Items(c)
  <2>1. k \in DOMAIN c /\ c[k] = a[k]
    BY <1>2, <1>3
  <2> QED BY <2>1 DEF Items
<1>6. ASSUME NEW k \in DOMAIN b PROVE b[k] \in Items(c)
  <2>1. Len(a) + k \in DOMAIN c /\ c[Len(a) + k] = b[k]
    BY <1>2, <1>3
  <2> QED BY <2>1 DEF Items
<1>7. \A x : x \in Items(c) <=> x \in Items(a) \/ x \in Items(b)
  BY <1>4, <1>5, <1>6 DEF Items
<1> QED BY <1>1, <1>7

\* It does not matter how what follows each other is grouped.
LEMMA Grouped ==
  ASSUME NEW S, NEW a \in Seq(S), NEW b \in Seq(S), NEW c \in Seq(S)
  PROVE  /\ (a \o b) \o c = a \o (b \o c)
         /\ <<>> \o a = a /\ a \o <<>> = a
<1>1. (a \o b) \o c = a \o (b \o c)
  <2>1. PICK d, e, l, r : d = a \o b /\ e = b \o c /\ l = d \o c /\ r = a \o e
    OBVIOUS
  <2>2. /\ d \in Seq(S) /\ Len(d) = Len(a) + Len(b)
        /\ \A i \in 1..Len(a) : d[i] = a[i]
        /\ \A i \in 1..Len(b) : d[Len(a) + i] = b[i]
    BY <2>1, Concatenated
  <2>3. /\ e \in Seq(S) /\ Len(e) = Len(b) + Len(c)
        /\ \A i \in 1..Len(b) : e[i] = b[i]
        /\ \A i \in 1..Len(c) : e[Len(b) + i] = c[i]
    BY <2>1, Concatenated
  <2>4. /\ l \in Seq(S) /\ Len(l) = Len(d) + Len(c)
        /\ \A i \in 1..Len(d) : l[i] = d[i]
        /\ \A i \in 1..Len(c) : l[Len(d) + i] = c[i]
    BY <2>1, <2>2, Concatenated
  <2>5. /\ r \in Seq(S) /\ Len(r) = Len(a) + Len(e)
        /\ \A i \in 1..Len(a) : r[i] = a[i]
        /\ \A i \in 1..Len(e) : r[Len(a) + i] = e[i]
    BY <2>1, <2>3, Concatenated
  <2>6. PICK x \in Nat, y \in Nat, z \in Nat : x = Len(a) /\ y = Len(b) /\ z = Len(c)
    OBVIOUS
  <2>7. Len(l) = x + y + z /\ Len(r) = x + y + z
    BY <2>2, <2>3, <2>4, <2>5, <2>6
  <2>8. ASSUME NEW i \in 1..(x + y + z) PROVE r[i] = l[i]
    <3>1. CASE i \in 1..x
      <4>1. i \in 1..(x + y)
        BY <2>6, <3>1
      <4> QED BY <2>2, <2>4, <2>5, <2>6, <3>1, <4>1
    <3>2. CASE i > x /\ i <= x + y
      <4>1. PICK j \in 1..y : i = x + j
        <5>1. i - x \in 1..y /\ i = x + (i - x)
          BY <2>6, <3>2
        <5> QED BY <5>1
      <4>2. j \in 1..(y + z) /\ i \in 1..(x + y)
        BY <2>6, <3>2, <4>1
      <4> QED BY <2>2, <2>3, <2>4, <2>5, <2>6, <4>1, <4>2
    <3>3. CASE i > x + y
      <4>1. PICK j \in 1..z : i = x + y + j
        <5>1. i - (x + y) \in 1..z /\ i = x + y + (i - (x + y))
          BY <2>6, <3>3
        <5> QED BY <5>1
      <4>2. y + j \in 1..(y + z) /\ x + (y + j) = i
        BY <2>6, <4>1
      <4>3. r[i] = e[y + j] /\ e[y + j] = c[j]
        BY <2>3, <2>5, <2>6, <4>1, <4>2
      <4>4. l[i] = c[j]
        BY <2>2, <2>4, <2>6, <4>1
      <4> QED BY <4>3, <4>4
    <3> QED BY <2>6, <2>8, <3>1, <3>2, <3>3
  <2>9. r = l
    BY <2>4, <2>5, <2>6, <2>7, <2>8, SameSequence
  <2> QED BY <2>1, <2>9
<1>2. <<>> \o a = a /\ a \o <<>> = a
  <2>1. PICK o, l, r : o = <<>> /\ l = o \o a /\ r = a \o o
    OBVIOUS
  <2>0. o \in Seq(S) /\ Len(o) = 0
    BY <2>1
  <2>2. /\ l \in Seq(S) /\ Len(l) = Len(o) + Len(a)
        /\ \A i \in 1..Len(a) : l[Len(o) + i] = a[i]
    BY <2>0, <2>1, Concatenated
  <2>3. /\ r \in Seq(S) /\ Len(r) = Len(a) + Len(o)
        /\ \A i \in 1..Len(a) : r[i] = a[i]
    BY <2>0, <2>1, Concatenated
  <2>4. PICK n \in Nat : n = Len(a)
    OBVIOUS
  <2>5. Len(l) = n /\ Len(r) = n /\ \A i \in 1..n : l[i] = a[i] /\ r[i] = a[i]
    BY <2>0, <2>2, <2>3, <2>4
  <2>6. l = a /\ r = a
    BY <2>2, <2>3, <2>4, <2>5, SameSequence
  <2> QED BY <2>1, <2>6
<1> QED BY <1>1, <1>2

\* Lists that follow each other.
LEMMA JoinsStep ==
  ASSUME NEW S, NEW lists \in Seq(Seq(S))
  PROVE  /\ Joins(lists)[0] = <<>>
         /\ \A i \in 1..Len(lists) : Joins(lists)[i] = Joins(lists)[i - 1] \o lists[i]
<1> DEFINE At(f, i) == IF i = 0 THEN <<>> ELSE f[i - 1] \o lists[i]
<1>1. PICK n, D, x : n = Len(lists) /\ D = Seq(S) /\ x = <<>>
  OBVIOUS
<1>2. PICK next : next = [i \in 1..n |-> [q \in D |-> q \o lists[i]]]
  OBVIOUS
<1>3. n \in Nat /\ x \in D /\ next \in [1..n -> [D -> D]]
  <2>1. n \in Nat /\ x \in D /\ \A i \in 1..n : lists[i] \in D
    BY <1>1
  <2>2. \A q \in D, r \in D : q \o r \in D
    BY <1>1, Concatenated
  <2> QED BY ONLY <1>2, <2>1, <2>2
<1>4. PICK f : Steps(f, D, x, n, next)
  BY ONLY <1>3, Recursion
<1>5. f \in [0..n -> D] /\ f[0] = x /\ \A i \in 1..n : f[i] = next[i][f[i - 1]]
  BY <1>4 DEF Steps
<1>6. ASSUME NEW i \in 0..n PROVE f[i] = At(f, i)
  <2>1. CASE i = 0
    BY <1>1, <1>5, <2>1
  <2>2. CASE i # 0
    <3>1. i \in 1..n /\ i - 1 \in 0..n
      BY <1>3, <2>2
    <3>2. f[i - 1] \in D
      BY <1>5, <3>1
    <3>3. next[i][f[i - 1]] = f[i - 1] \o lists[i]
      BY <1>2, <3>1, <3>2
    <3> QED BY <1>5, <2>2, <3>1, <3>3
  <2> QED BY <2>1, <2>2
<1>7. f = [i \in 0..n |-> At(f, i)]
  <2>1. f = [i \in 0..n |-> f[i]]
    BY <1>5
  <2> HIDE DEF At
  <2> QED BY <1>6, <2>1
<1>8. Joins(lists) = CHOOSE g : g = [i \in 0..n |-> At(g, i)]
  BY <1>1 DEF Joins
<1> DEFINE k == Joins(lists)
<1>9. k = [i \in 0..n |-> At(k, i)]
  <2>1. \E g : g = [i \in 0..n |-> At(g, i)]
    <3> HIDE DEF At
    <3> QED BY <1>7
  <2> HIDE DEF At
  <2> QED BY <1>8, <2>1
<1>10. \A i \in 0..n : k[i] = At(k, i)
  <2>1. \A g : \A i \in 0..n : [j \in 0..n |-> At(g, j)][i] = At(g, i)
    OBVIOUS
  <2> HIDE DEF At, k
  <2> QED BY <1>9, <2>1
<1> HIDE DEF k
<1>11. k[0] = <<>> /\ \A i \in 1..n : k[i] = k[i - 1] \o lists[i]
  <2>1. 0 \in 0..n /\ \A i \in 1..n : i \in 0..n /\ i # 0
    BY <1>3
  <2> QED BY <1>10, <2>1
<1> QED BY <1>1, <1>11 DEF k

\* What joined lists hold is what each of them holds.
LEMMA JoinedItems ==
  ASSUME NEW S, NEW lists \in Seq(Seq(S))
  PROVE  /\ Joined(lists) \in Seq(S)
         /\ \A x : x \in Items(Joined(lists)) <=> \E i \in 1..Len(lists) : x \in Items(lists[i])
<1> DEFINE Has(q, n) == /\ q \in Seq(S)
                        /\ \A x : x \in Items(q) <=> \E i \in 1..n : x \in Items(lists[i])
           T == {n \in Nat : n <= Len(lists) => Has(Joins(lists)[n], n)}
<1>1. 0 \in T
  <2>1. Joins(lists)[0] = <<>>
    BY JoinsStep
  <2>2. <<>> \in Seq(S) /\ Items(<<>>) = {} /\ 1..0 = {}
    BY DEF Items
  <2>3. \A x : ~ \E i \in 1..0 : x \in Items(lists[i])
    BY <2>2
  <2>4. \A x : x \notin Items(Joins(lists)[0])
    BY <2>1, <2>2
  <2>5. Joins(lists)[0] \in Seq(S)
    BY <2>1, <2>2
  <2> QED BY <2>3, <2>4, <2>5
<1>2. ASSUME NEW n \in Nat, n \in T PROVE n + 1 \in T
  <2> SUFFICES ASSUME n + 1 <= Len(lists) PROVE Has(Joins(lists)[n + 1], n + 1)
    <3> HIDE DEF Has
    <3> QED OBVIOUS
  <2>1. PICK a, b, c : a = Joins(lists)[n] /\ b = lists[n + 1] /\ c = Joins(lists)[n + 1]
    OBVIOUS
  <2>2. n + 1 \in 1..Len(lists) /\ (n + 1) - 1 = n
    OBVIOUS
  <2>3. c = a \o b
    BY <2>1, <2>2, JoinsStep
  <2>4. Has(a, n) /\ b \in Seq(S)
    BY <1>2, <2>1, <2>2
  <2>5. c \in Seq(S) /\ \A x : x \in Items(c) <=> x \in Items(a) \/ x \in Items(b)
    <3>1. a \o b \in Seq(S)
      BY <2>4, Concatenated
    <3>2. Items(a \o b) = Items(a) \cup Items(b)
      BY <2>4, ConcatItems
    <3> QED BY <2>3, <3>1, <3>2
  <2>6. \A i : i \in 1..(n + 1) <=> i \in 1..n \/ i = n + 1
    OBVIOUS
  <2> QED BY ONLY <2>1, <2>4, <2>5, <2>6
<1>3. Len(lists) \in T
  <2> HIDE DEF T
  <2> QED BY <1>1, <1>2, NatSetInduction
<1>4. Has(Joined(lists), Len(lists))
  BY <1>3 DEF Joined
<1> QED BY <1>4

\* Whether equal elements pass a filter together: then it does not matter which of
\* the filter and the removal of equal elements comes first.
LEMMA FirstOfSifted ==
  ASSUME NEW S, NEW t \in Seq(S), NEW P,
         \A i, j \in DOMAIN t : t[i] = t[j] => (i \in P <=> j \in P),
         NEW q, q = Sift(t, P)
  PROVE  Sift(q, FirstPlaces(q)) = Sift(t, P \cap FirstPlaces(t))
<1> DEFINE Q == P \cap FirstPlaces(t)
           Alike(a, b) == Sift(a, FirstPlaces(a)) = b
           T == {n \in Nat : n <= Len(t) => Alike(Sieve(t, P)[n], Sieve(t, Q)[n])}
<1>0. Len(t) \in Nat /\ DOMAIN t = 1..Len(t)
  OBVIOUS
<1>1. 0 \in T
  <2>1. Sieve(t, P)[0] = <<>> /\ Sieve(t, Q)[0] = <<>>
    BY <1>0, SieveStep
  <2>2. Sift(<<>>, FirstPlaces(<<>>)) = <<>>
    BY SiftEmpty
  <2> QED BY <2>1, <2>2
<1>2. ASSUME NEW n \in Nat, n \in T PROVE n + 1 \in T
  <2> SUFFICES ASSUME n + 1 <= Len(t) PROVE Alike(Sieve(t, P)[n + 1], Sieve(t, Q)[n + 1])
    <3> HIDE DEF Alike, Q
    <3> QED OBVIOUS
  <2>0. PICK i, x, a, b, c, d :
          /\ i = n + 1 /\ x = t[i] /\ a = Sieve(t, P)[n] /\ b = Sieve(t, Q)[n]
          /\ c = Sieve(t, P)[i] /\ d = Sieve(t, Q)[i]
    OBVIOUS
  <2>1. i \in 1..Len(t) /\ i - 1 = n /\ n \in 0..Len(t) /\ x \in S
    BY <1>0, <2>0
  <2>2. Alike(a, b)
    BY <1>2, <2>0, <2>1
  <2>3. /\ c = IF i \in P THEN Append(a, x) ELSE a
        /\ d = IF i \in Q THEN Append(b, x) ELSE b
    <3> HIDE DEF Q
    <3> QED BY <1>0, <2>0, <2>1, SieveStep
  <2>4. a \in Seq(S)
    BY <2>0, <2>1, SieveType
  <2>5. CASE i \notin P
    <3>1. c = a /\ d = b
      BY <2>3, <2>5
    <3> QED BY <2>0, <2>2, <3>1
  <2>6. CASE i \in P
    <3>1. PICK at \in [1..Len(a) -> 1..n] :
            /\ \A k \in 1..Len(a) : at[k] \in P /\ a[k] = t[at[k]]
            /\ \A k, m \in 1..Len(a) : k < m => at[k] < at[m]
            /\ \A j \in 1..n : j \in P => \E k \in 1..Len(a) : at[k] = j
      <4>1. PICK r : r = Sieve(t, P)[n]
        OBVIOUS
      <4>2. \E at \in [1..Len(r) -> 1..n] :
              /\ \A k \in 1..Len(r) : at[k] \in P /\ r[k] = t[at[k]]
              /\ \A k, m \in 1..Len(r) : k < m => at[k] < at[m]
              /\ \A j \in 1..n : j \in P => \E k \in 1..Len(r) : at[k] = j
        BY <2>1, <4>1, SievePlaces
      <4>3. r = a
        BY <2>0, <4>1
      <4> QED BY <4>2, <4>3
    <3>2. (\E j \in 1..n : t[j] = x) <=> (\E k \in 1..Len(a) : a[k] = x)
      <4>1. ASSUME NEW k \in 1..Len(a), a[k] = x PROVE \E j \in 1..n : t[j] = x
        BY <3>1, <4>1
      <4>2. ASSUME NEW j \in 1..n, t[j] = x PROVE \E k \in 1..Len(a) : a[k] = x
        <5>1. j \in DOMAIN t /\ i \in DOMAIN t
          BY <1>0, <2>1
        <5>2. j \in P
          BY <2>0, <2>6, <4>2, <5>1
        <5>3. PICK k \in 1..Len(a) : at[k] = j
          BY <3>1, <5>2
        <5> QED BY <3>1, <4>2, <5>3
      <4> QED BY <4>1, <4>2
    <3>3. PICK e : e = Append(a, x)
      OBVIOUS
    <3>4. /\ e \in Seq(S) /\ Len(a) \in Nat /\ Len(e) = Len(a) + 1 /\ DOMAIN e = 1..Len(e)
          /\ DOMAIN a = 1..Len(a) /\ e[Len(a) + 1] = x /\ \A k \in 1..Len(a) : e[k] = a[k]
      BY <2>1, <2>4, <3>3
    <3>5. ASSUME NEW k \in 1..Len(a) PROVE k \in FirstPlaces(a) <=> k \in FirstPlaces(e)
      <4>1. k \in DOMAIN a /\ k \in DOMAIN e /\ \A j \in 1..(k - 1) : j \in 1..Len(a)
        BY <3>4
      <4>2. \A j \in 1..(k - 1) : a[j] = e[j] /\ a[k] = e[k]
        BY <3>4, <4>1
      <4> QED BY <4>1, <4>2 DEF FirstPlaces
    <3>6. Len(a) + 1 \in FirstPlaces(e) <=> ~ \E k \in 1..Len(a) : a[k] = x
      <4>1. Len(a) + 1 \in DOMAIN e /\ (Len(a) + 1) - 1 = Len(a)
        BY <3>4
      <4> QED BY <3>4, <4>1 DEF FirstPlaces
    <3>7. i \in FirstPlaces(t) <=> ~ \E j \in 1..n : t[j] = x
      BY <1>0, <2>0, <2>1 DEF FirstPlaces
    <3>8. Sift(e, FirstPlaces(e)) = IF Len(a) + 1 \in FirstPlaces(e)
                                    THEN Append(Sift(a, FirstPlaces(a)), x)
                                    ELSE Sift(a, FirstPlaces(a))
      BY <2>1, <2>4, <3>3, <3>5, SiftAppend
    <3>9. c = e /\ d = IF i \in FirstPlaces(t) THEN Append(b, x) ELSE b
      BY <2>3, <2>6, <3>3
    <3>10. Alike(c, d)
      BY <2>2, <3>2, <3>6, <3>7, <3>8, <3>9
    <3> QED BY <2>0, <3>10
  <2> QED BY <2>5, <2>6
<1>3. Len(t) \in T
  <2> HIDE DEF T
  <2> QED BY <1>0, <1>1, <1>2, NatSetInduction
<1>4. Alike(Sieve(t, P)[Len(t)], Sieve(t, Q)[Len(t)])
  BY <1>0, <1>3
<1> QED BY <1>4 DEF Sift

\* A filter leaves no more than there was.
LEMMA SiftShorter ==
  ASSUME NEW S, NEW s \in Seq(S), NEW P
  PROVE  Len(Sift(s, P)) <= Len(s)
<1>1. PICK q, m, n : q = Sift(s, P) /\ m = Len(q) /\ n = Len(s)
  OBVIOUS
<1>2. q \in Seq(S) /\ m \in Nat /\ n \in Nat
  BY <1>1, SiftType
<1>3. PICK at \in [1..Len(q) -> 1..Len(s)] :
        /\ \A k \in 1..Len(q) : at[k] \in P /\ q[k] = s[at[k]]
        /\ \A k, l \in 1..Len(q) : k < l => at[k] < at[l]
  BY <1>1, SiftPlaces
<1>4. at \in [1..m -> 1..n] /\ \A k, l \in 1..m : k < l => at[k] < at[l]
  BY <1>1, <1>3
<1> DEFINE T == {k \in Nat : k \in 1..m => k <= at[k]}
<1>5. 0 \in T
  OBVIOUS
<1>6. ASSUME NEW k \in Nat, k \in T PROVE k + 1 \in T
  <2> SUFFICES ASSUME k + 1 \in 1..m PROVE k + 1 <= at[k + 1]
    OBVIOUS
  <2>1. at[k + 1] \in 1..n
    BY <1>4
  <2>2. CASE k = 0
    BY <1>2, <2>1, <2>2
  <2>3. CASE k # 0
    <3>1. k \in 1..m /\ k < k + 1
      BY <1>2, <2>3
    <3>2. at[k] < at[k + 1] /\ k <= at[k] /\ at[k] \in 1..n
      BY <1>4, <1>6, <3>1
    <3> QED BY <1>2, <2>1, <3>2
  <2> QED BY <2>2, <2>3
<1>7. m \in T
  <2> HIDE DEF T
  <2> QED BY <1>2, <1>5, <1>6, NatSetInduction
<1>8. m <= n
  <2>1. CASE m = 0
    BY <1>2, <2>1
  <2>2. CASE m # 0
    <3>1. m \in 1..m
      BY <1>2, <2>2
    <3>2. m <= at[m] /\ at[m] \in 1..n
      BY <1>4, <1>7, <3>1
    <3> QED BY <1>2, <3>2
  <2> QED BY <2>1, <2>2
<1> QED BY <1>1, <1>8
=============================================================================

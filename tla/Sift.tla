-------------------------------- MODULE Sift --------------------------------
(***************************************************************************)
(* What a filter, a retain or a WHERE keeps: the elements of a sequence at *)
(* certain places, in their order; what a sum over a list comes to; and    *)
(* what nested loops push.  They are recursive functions, so that proofs   *)
(* can follow them place by place.                                         *)
(***************************************************************************)
EXTENDS Naturals, Sequences

\* What is kept of the first i elements.
Sieve(s, places) ==
  LET kept[i \in 0..Len(s)] ==
        IF i = 0 THEN <<>>
        ELSE IF i \in places THEN Append(kept[i - 1], s[i])
        ELSE kept[i - 1]
  IN kept

Sift(s, places) == Sieve(s, places)[Len(s)]

Items(s) == {s[i] : i \in DOMAIN s}

\* The places of what has not been there before: a set of what was seen lets the
\* first of equal elements pass.
FirstPlaces(s) == {i \in DOMAIN s : \A j \in 1..(i - 1) : s[j] # s[i]}

\* The sum of the first i numbers of a sequence.
Totals(w) ==
  LET sum[i \in 0..Len(w)] == IF i = 0 THEN 0 ELSE sum[i - 1] + w[i]
  IN sum

Total(w) == Totals(w)[Len(w)]

\* Some lists, one after the other.
Joins(lists) ==
  LET until[i \in 0..Len(lists)] == IF i = 0 THEN <<>> ELSE until[i - 1] \o lists[i]
  IN until

Joined(lists) == Joins(lists)[Len(lists)]
=============================================================================

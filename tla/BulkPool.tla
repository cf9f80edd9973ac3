------------------------------ MODULE BulkPool ------------------------------
(***************************************************************************)
(* What a bulk lookup promises its caller, with none of the machinery of   *)
(* bulk.rs: every domain of a run gets exactly one outcome and keeps it,   *)
(* at most cap[r] domains of a run are being looked up at any moment,      *)
(* and a run returns once none of its domains is left undecided.           *)
(***************************************************************************)
EXTENDS Naturals, FiniteSets

CONSTANTS Run, Domain, Concurrency

VARIABLES
  outcome,  \* outcome[r][d]: how far domain d of run r has come
  cap,      \* the concurrency the run was started with
  status    \* "new", "open" until the caller has its results, then "closed"

vars == <<outcome, cap, status>>

Settled == {"answered", "refused", "lost"}

Active(r) == {d \in Domain : outcome[r][d] = "active"}

Init ==
  /\ outcome = [r \in Run |-> [d \in Domain |-> "none"]]
  /\ cap = [r \in Run |-> 0]
  /\ status = [r \in Run |-> "new"]

Begin(r, W, n) ==
  /\ status[r] = "new"
  /\ status' = [status EXCEPT ![r] = "open"]
  /\ cap' = [cap EXCEPT ![r] = n]
  /\ outcome' = [outcome EXCEPT ![r] =
                   [d \in Domain |-> IF d \in W THEN "waiting" ELSE "none"]]

Activate(r, d) ==
  /\ outcome[r][d] = "waiting"
  /\ Cardinality(Active(r)) < cap[r]
  /\ outcome' = [outcome EXCEPT ![r][d] = "active"]
  /\ UNCHANGED <<cap, status>>

\* A domain waiting for its turn may be refused; one being looked up may not.
Refuse(r, d) ==
  /\ outcome[r][d] = "waiting"
  /\ outcome' = [outcome EXCEPT ![r][d] = "refused"]
  /\ UNCHANGED <<cap, status>>

Settle(r, d) ==
  /\ outcome[r][d] = "active"
  /\ \E o \in {"answered", "lost"} : outcome' = [outcome EXCEPT ![r][d] = o]
  /\ UNCHANGED <<cap, status>>

Close(r) ==
  /\ status[r] = "open"
  /\ \A d \in Domain : outcome[r][d] \in Settled \cup {"none"}
  /\ status' = [status EXCEPT ![r] = "closed"]
  /\ UNCHANGED <<outcome, cap>>

Next ==
  \E r \in Run :
    \/ \E W \in SUBSET Domain, n \in Concurrency : Begin(r, W, n)
    \/ \E d \in Domain : Activate(r, d) \/ Refuse(r, d) \/ Settle(r, d)
    \/ Close(r)

Spec == Init /\ [][Next]_vars
=============================================================================

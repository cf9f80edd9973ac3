-------------------------------- MODULE Rbac --------------------------------
(***************************************************************************)
(* Rbac of wd-proxy: roles and bindings, each behind a RwLock of its       *)
(* own, used by several threads.  A call takes its locks one by one and    *)
(* holds them to the end; import_json releases the first before it takes   *)
(* the second.  The locks are std's: a reader waits behind a waiting       *)
(* writer.                                                                 *)
(*                                                                         *)
(* check and effective_permissions take the same locks and read the same   *)
(* things: both are "check" here, and Effective what the second returns    *)
(* (the first looks it up).  Of a role its name and permissions are kept.  *)
(***************************************************************************)
EXTENDS Naturals, Sequences, FiniteSets

CONSTANTS
  Thread,
  Subject,
  RoleName,
  Perm,        \* the permissions of the roles that callers add
  Operation,   \* the operations the threads call
  ImportDoc    \* the documents import_json is given

Permission ==
  {"proxy_use", "proxy_manage", "proxy_view", "cache_read", "cache_write", "cache_purge",
   "cache_admin", "rbac_view", "rbac_admin", "all"}

\* A document lists roles, well formed or not (then only those before the
\* first malformed one count), and the roles of some subjects.
Document ==
  [roles : UNION {[R -> SUBSET Perm] : R \in SUBSET RoleName},
   wellFormed : BOOLEAN,
   bindings : UNION {[S -> SUBSET RoleName] : S \in SUBSET Subject}]

ASSUME RbacAssumption == Perm \subseteq Permission /\ ImportDoc \subseteq Document

VARIABLES
  roles,     \* a map: name -> permissions
  bindings,  \* a map: subject -> names of roles
  call       \* call[t]: the call thread t is in

rbacVars == <<roles, bindings, call>>

BuiltIn ==
  [admin |-> {"all"},
   operator |-> {"proxy_use", "proxy_manage", "proxy_view", "cache_read", "cache_write",
                 "cache_purge"},
   viewer |-> {"proxy_view", "cache_read", "rbac_view"}]

Put(map, key, value) ==
  [k \in DOMAIN map \cup {key} |-> IF k = key THEN value ELSE map[k]]
Without(map, key) == [k \in DOMAIN map \ {key} |-> map[k]]
Overlay(map, new) ==
  [k \in DOMAIN map \cup DOMAIN new |-> IF k \in DOMAIN new THEN new[k] ELSE map[k]]

NamesOf(s) == IF s \in DOMAIN bindings THEN bindings[s] ELSE {}
Granted(names) == UNION {roles[r] : r \in names \cap DOMAIN roles}

\* effective_permissions of a subject with these roles; check is whether it has
\* "all" or the permission asked for.
Effective(names) == IF "all" \in Granted(names) THEN {"all"} ELSE Granted(names)

Request ==
  [op : {"check"}, subject : Subject]
    \cup [op : {"export", "get_role", "get_bindings"}]
    \cup [op : {"add_role"}, role : RoleName, perms : SUBSET Perm]
    \cup [op : {"remove_role"}, role : RoleName]
    \cup [op : {"bind"}, subject : Subject, names : SUBSET RoleName]
    \cup [op : {"unbind"}, subject : Subject]
    \cup [op : {"unbind_role"}, subject : Subject, role : RoleName]
    \cup [op : {"import"}, doc : ImportDoc]

\* A check lets go of the bindings before it takes the roles.
StagesApart(op) ==
  CASE op = "check"                               -> << <<"bindings">>, <<"roles">> >>
    [] op = "export"                              -> << <<"roles", "bindings">> >>
    [] op \in {"add_role", "remove_role", "get_role"} -> << <<"roles">> >>
    [] op = "import"                              -> << <<"roles">>, <<"bindings">> >>
    [] OTHER                                      -> << <<"bindings">> >>

\* The locks of a call, stage by stage: those of a stage are taken in order
\* and released together.
Stages(op) ==
  CASE op = "check"                               -> << <<"bindings", "roles">> >>
    [] op = "export"                              -> << <<"roles", "bindings">> >>
    [] op \in {"add_role", "remove_role", "get_role"} -> << <<"roles">> >>
    [] op = "import"                              -> << <<"roles">>, <<"bindings">> >>
    [] OTHER                                      -> << <<"bindings">> >>
Exclusive(op) == op \notin {"check", "export", "get_role", "get_bindings"}

Idle == [req |-> [op |-> "none"], stage |-> 0, held |-> 0, queued |-> FALSE,
         names |-> {}, answers |-> {}]

RbacInit ==
  /\ roles = [r \in RoleName \cap DOMAIN BuiltIn |-> BuiltIn[r]]
  /\ bindings = [s \in {} |-> {}]
  /\ call = [t \in Thread |-> Idle]

Op(t) == call[t].req.op
Busy(t) == call[t] # Idle
Locks(t) == Stages(Op(t))[call[t].stage]
Holds(t, lock) == Busy(t) /\ \E i \in 1..call[t].held : Locks(t)[i] = lock
HoldsAll(t) == call[t].held = Len(Locks(t))
Wanted(t) == Locks(t)[call[t].held + 1]

\* A writer needs the lock free; a reader no writer on it or waiting for it.
Free(t) ==
  \A u \in Thread \ {t} :
    /\ Holds(u, Wanted(t)) => ~ Exclusive(Op(t)) /\ ~ Exclusive(Op(u))
    /\ ~ Exclusive(Op(t)) =>
         ~ (Busy(u) /\ call[u].queued /\ Exclusive(Op(u)) /\ Wanted(u) = Wanted(t))

Call(t, req) ==
  /\ ~ Busy(t)
  /\ call' = [call EXCEPT ![t] =
                [Idle EXCEPT !.req = req, !.stage = 1,
                             !.answers = IF req.op = "check"
                                         THEN {Effective(NamesOf(req.subject))} ELSE {}]]
  /\ UNCHANGED <<roles, bindings>>

Queue(t) ==
  /\ Busy(t) /\ ~ HoldsAll(t) /\ ~ Free(t) /\ ~ call[t].queued
  /\ call' = [call EXCEPT ![t] = [call[t] EXCEPT !.queued = TRUE]]
  /\ UNCHANGED <<roles, bindings>>

\* The names a check reads are fixed once it holds the lock of the bindings.
Acquire(t) ==
  /\ Busy(t) /\ ~ HoldsAll(t) /\ Free(t)
  /\ call' = [call EXCEPT ![t] =
       [call[t] EXCEPT
          !.held = call[t].held + 1,
          !.queued = FALSE,
          !.names = IF Op(t) = "check" /\ Wanted(t) = "bindings"
                    THEN NamesOf(call[t].req.subject) ELSE call[t].names]]
  /\ UNCHANGED <<roles, bindings>>

AddRole(q) == roles' = Put(roles, q.role, q.perms) /\ UNCHANGED bindings
RemoveRole(q) == roles' = Without(roles, q.role) /\ UNCHANGED bindings
Bind(q) == bindings' = Put(bindings, q.subject, NamesOf(q.subject) \cup q.names) /\ UNCHANGED roles
Unbind(q) == bindings' = Without(bindings, q.subject) /\ UNCHANGED roles
UnbindRole(q) ==
  /\ bindings' = LET rest == NamesOf(q.subject) \ {q.role} IN
                 IF rest = {} THEN Without(bindings, q.subject) ELSE Put(bindings, q.subject, rest)
  /\ UNCHANGED roles
ImportRoles(q) == roles' = Overlay(roles, q.doc.roles) /\ UNCHANGED bindings
ImportBindings(q) == bindings' = Overlay(bindings, q.doc.bindings) /\ UNCHANGED roles

Effect(q, stage) ==
  CASE q.op = "add_role"     -> AddRole(q)
    [] q.op = "remove_role"  -> RemoveRole(q)
    [] q.op = "bind"         -> Bind(q)
    [] q.op = "unbind"       -> Unbind(q)
    [] q.op = "unbind_role"  -> UnbindRole(q)
    [] q.op = "import"       -> IF stage = 1 THEN ImportRoles(q) ELSE ImportBindings(q)
    [] OTHER                 -> UNCHANGED <<roles, bindings>>

\* History: what a check in progress may answer grows with every change.
Witness(c) ==
  IF c.req.op = "check"
  THEN [c EXCEPT !.answers = c.answers \cup {Effective(NamesOf(s))' : s \in {c.req.subject}}]
  ELSE c

\* The call holds its locks: it does its work and releases them; an import
\* of a well-formed document goes on to its second half.
Work(t) ==
  LET q == call[t].req
      last == call[t].stage = Len(Stages(q.op)) \/ (q.op = "import" /\ ~ q.doc.wellFormed)
  IN /\ Busy(t) /\ HoldsAll(t)
     /\ Effect(q, call[t].stage)
     /\ call' = [u \in Thread |->
          IF u # t THEN Witness(call[u])
          ELSE IF last THEN Idle
          ELSE [call[t] EXCEPT !.stage = call[t].stage + 1, !.held = 0]]

RbacNext ==
  \E t \in Thread :
    \/ \E req \in Request : req.op \in Operation /\ Call(t, req)
    \/ Queue(t)
    \/ Acquire(t)
    \/ Work(t)

RbacSpec == RbacInit /\ [][RbacNext]_rbacVars

-----------------------------------------------------------------------------
(* Property *)

\* A check that holds its locks is about to answer what was true at one
\* moment of the call: it never pairs the bindings of one moment with the
\* roles of another.
AnswersAtOneMoment ==
  \A t \in Thread :
    Busy(t) /\ Op(t) = "check" /\ HoldsAll(t) => Effective(call[t].names) \in call[t].answers
=============================================================================

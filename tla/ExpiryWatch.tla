---------------------------- MODULE ExpiryWatch ----------------------------
(***************************************************************************)
(* wd-expiry: the watch list in memory (watchlist.rs) and in SQLite        *)
(* (store.rs), and what is computed of a watched domain at a time: its     *)
(* phase (domain.rs) and its drop (dropcatch.rs).                          *)
(*                                                                         *)
(* Times are in minutes; phase and drop count whole days and hours of      *)
(* them.  An entry is its domain, priority, expiry date, registrar and     *)
(* whether it is active; when it was added or checked, notes and the       *)
(* notify flag are left out.                                               *)
(***************************************************************************)
EXTENDS Integers, Sequences, FiniteSets, Sift

CONSTANTS
  WatchEntry,  \* the entries the owner makes
  Moment,      \* the times at which something is done or computed
  MaxWatched,  \* bound: entries in the list
  MaxWatchRows  \* bound: rows ever inserted

Hour == 60
Day == 24 * Hour

Never == -10000000

ASSUME ExpiryAssumption ==
  /\ \A e \in WatchEntry : DOMAIN e = {"domain", "priority", "expiry", "registrar", "active"}
  /\ \A e \in WatchEntry : e.expiry \in Int
  /\ Moment \subseteq Nat /\ Moment # {}
  /\ MaxWatched \in Nat /\ MaxWatchRows \in Nat

VARIABLES
  today,    \* the time of the last call
  watched,  \* Watchlist.entries
  stored,   \* the table: domain -> [id, entry]
  inserted  \* rows inserted so far, AUTOINCREMENT's counter

expiryVars == <<today, watched, stored, inserted>>

-----------------------------------------------------------------------------
(* domain.rs and dropcatch.rs *)

\* GracePeriod::for_registrar and its default.
Grace(registrar) ==
  [auto |-> CASE registrar = "godaddy"    -> 25
              [] registrar = "cloudflare" -> 40
              [] registrar = "gandi"      -> 29
              [] OTHER                    -> 30,
   redemption |-> 30,
   delete |-> 5]
TotalDays(grace) == grace.auto + grace.redemption + grace.delete

\* num_days and num_hours, which drop the part of a unit, towards zero.
Units(unit, time) == IF time >= 0 THEN time \div unit ELSE - ((- time) \div unit)
DaysIn(time) == Units(Day, time)
HoursIn(time) == Units(Hour, time)

\* The last day of the pending delete is counted twice.
PhaseAtLate(expiry, grace, now) ==
  LET days == DaysIn(now - expiry) IN
  CASE days < -30                                -> "active"
    [] -30 <= days /\ days < 0                   -> "expiring_soon"
    [] 0 <= days /\ days < grace.auto            -> "auto_renew_grace"
    [] grace.auto <= days /\ days < grace.auto + grace.redemption -> "redemption_grace"
    [] grace.auto + grace.redemption <= days /\ days <= TotalDays(grace) -> "pending_delete"
    [] OTHER                                     -> "deleted"

\* compute_phase.
PhaseAt(expiry, grace, now) ==
  LET days == DaysIn(now - expiry) IN
  CASE days < -30                                -> "active"
    [] -30 <= days /\ days < 0                   -> "expiring_soon"
    [] 0 <= days /\ days < grace.auto            -> "auto_renew_grace"
    [] grace.auto <= days /\ days < grace.auto + grace.redemption -> "redemption_grace"
    [] grace.auto + grace.redemption <= days /\ days < TotalDays(grace) -> "pending_delete"
    [] OTHER                                     -> "deleted"

\* DomainExpiry::compute.
Expiry(e, now) ==
  IF e.expiry = Never
  THEN [phase |-> "unknown", days |-> Never, drop |-> Never]
  ELSE [phase |-> PhaseAt(e.expiry, Grace(e.registrar), now),
        days |-> DaysIn(e.expiry - now),
        drop |-> e.expiry + Day * TotalDays(Grace(e.registrar))]
IsRenewable(x) == x.phase \in {"active", "expiring_soon", "auto_renew_grace"}
IsCatchable(x) == x.phase \in {"redemption_grace", "pending_delete"}

\* DropEstimate::from_expiry_at, of a domain whose expiry date is known.
HoursUntilDrop(x, now) == HoursIn(x.drop - now)
\* "within 24h of earliest drop" (dropcatch.rs 40): the code goes on until two days after
\* the drop, and the truncated hours begin up to an hour before its last day.
IsHot(x, now) == HoursUntilDrop(x, now) <= 24 /\ HoursUntilDrop(x, now) > -48
IsOverdue(x, now) == HoursUntilDrop(x, now) < -48

-----------------------------------------------------------------------------
(* The lists *)

ExpiryInit ==
  /\ today = CHOOSE t \in Moment : \A u \in Moment : t <= u
  /\ watched = <<>>
  /\ stored = [d \in {} |-> Never]
  /\ inserted = 0

Today(t) ==
  /\ t > today
  /\ today' = t
  /\ UNCHANGED <<watched, stored, inserted>>

\* Watchlist::add does not look whether the domain is there.
Watch(e) ==
  /\ Len(watched) < MaxWatched
  /\ watched' = Append(watched, e)
  /\ UNCHANGED <<today, stored, inserted>>

\* Watchlist::remove retains the entries of other domains.
Unwatch(domain) ==
  /\ watched' = Sift(watched, {i \in DOMAIN watched : watched[i].domain # domain})
  /\ UNCHANGED <<today, stored, inserted>>

\* Through get_mut, which finds the first entry of a domain.
PauseWatch(domain) ==
  LET mine == {i \in DOMAIN watched : watched[i].domain = domain} IN
  /\ mine # {}
  /\ watched' = [watched EXCEPT
       ![CHOOSE i \in mine : \A j \in mine : i <= j].active = FALSE]
  /\ UNCHANGED <<today, stored, inserted>>

\* ExpiryStore::upsert: an update keeps the id of the row.
Upsert(e) ==
  LET new == e.domain \notin DOMAIN stored
      id == IF new THEN inserted + 1 ELSE stored[e.domain].id
  IN /\ new => inserted < MaxWatchRows
     /\ stored' = [d \in DOMAIN stored \cup {e.domain} |->
                     IF d = e.domain THEN [id |-> id, entry |-> e] ELSE stored[d]]
     /\ inserted' = IF new THEN id ELSE inserted
     /\ UNCHANGED <<today, watched>>

RemoveRow(domain) ==
  /\ stored' = [d \in DOMAIN stored \ {domain} |-> stored[d]]
  /\ UNCHANGED <<today, watched, inserted>>

ExpiryNext ==
  \/ \E t \in Moment : Today(t)
  \/ \E e \in WatchEntry : Watch(e)
  \/ \E i \in DOMAIN watched : Upsert(watched[i])
  \/ \E e \in WatchEntry : Unwatch(e.domain) \/ PauseWatch(e.domain) \/ RemoveRow(e.domain)

ExpirySpec == ExpiryInit /\ [][ExpiryNext]_expiryVars

-----------------------------------------------------------------------------
(* Properties *)

\* The phase, counted in whole days from the expiry date, and the drop, counted
\* in whole hours to its estimate, agree at every minute: a domain is deleted from
\* its drop on, so that the hours are positive only before that, negative only
\* after it and zero on both sides; it can be caught in the 35 days before the
\* drop, is hot only once it waits for its deletion, and overdue only deleted.
PhaseAgreesWithDrop ==
  \A i \in DOMAIN watched :
    LET x == Expiry(watched[i], today)
        hours == HoursUntilDrop(x, today)
    IN x.phase # "unknown" =>
         /\ x.phase = "deleted" <=> today >= x.drop
         /\ hours > 0 => x.phase # "deleted"
         /\ hours < 0 => x.phase = "deleted"
         /\ IsCatchable(x) <=> x.drop - 35 * Day <= today /\ today < x.drop
         /\ IsHot(x, today) => x.phase \in {"pending_delete", "deleted"}
         /\ IsOverdue(x, today) => x.phase = "deleted"
=============================================================================

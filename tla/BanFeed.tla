------------------------------ MODULE BanFeed ------------------------------
(***************************************************************************)
(* Dynamic bans: events of the Gateway projected to a table of bans, the   *)
(* manual unban, and the feed of clears that the Gateway polls.            *)
(*                                                                         *)
(* The in-memory store does each of these under its mutex.  The database   *)
(* store projects an event in a second statement, and an unban is a        *)
(* transaction of three statements whose rows show when it commits, while  *)
(* its revision was taken when it began.                                   *)
(***************************************************************************)
EXTENDS Naturals, FiniteSets

CONSTANTS
  Targets,        \* an application and a client IP
  Listeners,      \* a port and a scheme: a target has a ban for each
  NoListener,     \* port 0 and the empty scheme
  Requests,       \* goroutines that serve POST /dynamic-bans/unban
  Backends,       \* the stores STORE_BACKEND may select
  Durations,      \* seconds that bans last
  PageSize,       \* the limit of the Gateway's poll
  MaxTime, MaxEvents, MaxClears,
  MaxFaults,      \* for each store
  None            \* no ban, no target

Keys == Targets \X Listeners
Target(k) == k[1]

Statuses == {"active", "cleared", "no-op"}
Ban == [status : Statuses, expires : Nat, revision : Nat]
Event == [id : Nat, key : Keys, at : Nat, remaining : Nat]
Clear == [target : Targets, listener : Listeners \cup {NoListener},
          revision : Nat, status : {"cleared", "no-op"}]

ASSUME BanFeedAssumption ==
  /\ Backends \subseteq {"memory", "postgres"}
  /\ IsFiniteSet(Targets) /\ IsFiniteSet(Listeners)
  /\ Durations \subseteq Nat \ {0}
  /\ PageSize \in Nat \ {0}
  /\ MaxTime \in Nat /\ MaxEvents \in Nat /\ MaxClears \in Nat
  /\ MaxFaults \in [Backends -> Nat]
  /\ None \notin Targets /\ None \notin Ban

VARIABLES
  backend,      \* the store behind the Store interface, for good
  now,          \* wall clock, in seconds
  bans,         \* dynamic_bans
  clears,       \* dynamic_ban_clears
  revision,     \* the next revision
  events,       \* events reported so far
  unprojected,  \* events stored and not projected yet
  tx,           \* what each request's transaction has done
  cursor, read, \* the Gateway: last revision, clears <<target, revision>> read
  faults        \* failures to come

feed == <<cursor, read>>
vars == <<backend, now, bans, clears, revision, events, unprojected, tx, feed, faults>>

Idle == [phase |-> "idle", target |-> None, revision |-> 0, at |-> 0,
         cleared |-> {}, rows |-> {}]

Active(b, t) == b # None /\ b.status = "active" /\ b.expires > t

BansOf(t) == {k \in Keys : Target(k) = t /\ bans[k] # None}

ActiveBansOf(t, time) == {k \in BansOf(t) : Active(bans[k], time)}

\* Rows that a transaction has updated stay locked until it ends.
Locked(p) == UNION {tx[q].cleared : q \in Requests \ {p}}

Init ==
  /\ backend \in Backends
  /\ now = 0
  /\ bans = [k \in Keys |-> None]
  /\ clears = {}
  /\ revision = 1
  /\ events = 0
  /\ unprojected = {}
  /\ tx = [p \in Requests |-> Idle]
  /\ cursor = 0
  /\ read = {}
  /\ faults = MaxFaults[backend]

Tick == /\ now < MaxTime
        /\ now' = now + 1
        /\ UNCHANGED <<backend, bans, clears, revision, events, unprojected, tx, feed, faults>>

(***************************************************************************)
(* Events.  An event carries its own time, so it may be late; whatever it  *)
(* finds in the table it makes an active ban of it.                        *)
(***************************************************************************)
\* Slips: the ban of an event starts anew; a column without a default.
Projected_Anew(b, e) ==
  [status |-> "active", expires |-> e.at + e.remaining, revision |-> 0]

Projected_Null(b, e) ==
  [status |-> "active", expires |-> e.at + e.remaining,
   revision |-> IF b = None THEN None ELSE b.revision]

Projected(b, e) ==
  [status |-> "active", expires |-> e.at + e.remaining,
   revision |-> IF b = None THEN 0 ELSE b.revision]

Project(e) == bans' = [bans EXCEPT ![e.key] = Projected(@, e)]

CreateWAFEvent(k, at, d) ==
  LET e == [id |-> events + 1, key |-> k, at |-> at, remaining |-> d] IN
  /\ events < MaxEvents
  /\ events' = events + 1
  /\ IF backend = "memory"
     THEN Project(e) /\ UNCHANGED unprojected
     ELSE unprojected' = unprojected \cup {e} /\ UNCHANGED bans
  /\ UNCHANGED <<backend, now, clears, revision, tx, feed, faults>>

\* projectDynamicBanEvent: INSERT ... ON CONFLICT DO UPDATE waits for a locked row.
ProjectDynamicBanEvent(e) ==
  /\ e.key \notin UNION {tx[q].cleared : q \in Requests}
  /\ Project(e)
  /\ unprojected' = unprojected \ {e}
  /\ UNCHANGED <<backend, now, clears, revision, events, tx, feed, faults>>

(***************************************************************************)
(* Unban in memory.  The loop over the map keeps `status` from one ban to  *)
(* the next: bans met before the first active one become no-op, all later  *)
(* ones cleared, and each gets a row.                                      *)
(***************************************************************************)
\* Slip: the key of a row does not name the listener.
Rows_OnePerTarget(keys, t, r, cleared) ==
  {[target |-> t, revision |-> r,
    listener |-> IF keys = {} THEN NoListener ELSE (CHOOSE k \in keys : TRUE)[2],
    status |-> IF cleared = {} THEN "no-op" ELSE "cleared"]}

Rows(keys, t, r, cleared) ==
  IF keys = {}
  THEN {[target |-> t, listener |-> NoListener, revision |-> r, status |-> "no-op"]}
  ELSE {[target |-> t, listener |-> k[2], revision |-> r,
         status |-> IF k \in cleared THEN "cleared" ELSE "no-op"] : k \in keys}

TakeRevision == /\ revision <= MaxClears
                /\ revision' = revision + 1

\* Which bans a loop over the map may meet before the first active one.
MetBeforeActive(t) ==
  IF ActiveBansOf(t, now) = {} THEN {BansOf(t)}
  ELSE SUBSET (BansOf(t) \ ActiveBansOf(t, now))

ClearInMemory(t) ==
  /\ backend = "memory"
  /\ TakeRevision
  /\ \E early \in MetBeforeActive(t) :
       LET cleared == BansOf(t) \ early IN
       /\ bans' = [k \in Keys |->
                     IF k \in BansOf(t)
                     THEN [bans[k] EXCEPT
                             !.status = IF k \in cleared THEN "cleared" ELSE "no-op",
                             !.revision = revision]
                     ELSE bans[k]]
       /\ clears' = clears \cup Rows(BansOf(t), t, revision, cleared)
  /\ UNCHANGED <<backend, now, events, unprojected, tx, feed, faults>>

(***************************************************************************)
(* Unban in the database: nextval, which no rollback returns, UPDATE,      *)
(* INSERT ... SELECT, COMMIT.                                              *)
(***************************************************************************)
Step(p, from, next) ==
  /\ tx[p].phase = from
  /\ tx' = [tx EXCEPT ![p] = next]

BeginClear(p, t) ==
  /\ backend = "postgres"
  /\ TakeRevision
  /\ Step(p, "idle", [Idle EXCEPT !.phase = "update", !.target = t,
                                  !.revision = revision, !.at = now])
  /\ UNCHANGED <<backend, now, bans, clears, events, unprojected, feed, faults>>

UpdateBans(p) ==
  LET matched == ActiveBansOf(tx[p].target, tx[p].at) IN
  /\ matched \cap Locked(p) = {}
  /\ Step(p, "update", [tx[p] EXCEPT !.phase = "insert", !.cleared = matched])
  /\ UNCHANGED <<backend, now, bans, clears, revision, events, unprojected, feed, faults>>

\* One status for all rows, and the bans as they are by the time of this statement.
InsertClears(p) ==
  LET keys == BansOf(tx[p].target)
      cleared == IF tx[p].cleared = {} THEN {} ELSE keys
  IN
  /\ Step(p, "insert", [tx[p] EXCEPT !.phase = "commit",
       !.rows = Rows(keys, tx[p].target, tx[p].revision, cleared)])
  /\ UNCHANGED <<backend, now, bans, clears, revision, events, unprojected, feed, faults>>

Commit(p) ==
  /\ Step(p, "commit", Idle)
  /\ bans' = [k \in Keys |->
                IF k \in tx[p].cleared
                THEN [bans[k] EXCEPT !.status = "cleared", !.revision = tx[p].revision]
                ELSE bans[k]]
  /\ clears' = clears \cup tx[p].rows
  /\ UNCHANGED <<backend, now, revision, events, unprojected, feed, faults>>

(***************************************************************************)
(* GET /dynamic-bans/clears?since_revision=cursor&limit=PageSize: a page   *)
(* in the order of revisions, rows of one revision in any order.  The      *)
(* Gateway releases the target of each row and goes on after the last one. *)
(***************************************************************************)
\* Slip: since_revision names the first row wanted.
ListDynamicBanClears_From(since) == {c \in clears : since = 0 \/ c.revision >= since}

ListDynamicBanClears(since) == {c \in clears : since = 0 \/ c.revision > since}

\* Slip: newest first, as in all other lists.
PagesOf_NewestFirst(rows) ==
  {page \in SUBSET rows :
     /\ \A c \in page, d \in rows \ page : c.revision >= d.revision
     /\ Cardinality(page) = IF Cardinality(rows) < PageSize THEN Cardinality(rows)
                            ELSE PageSize}

PagesOf(rows) ==
  {page \in SUBSET rows :
     /\ \A c \in page, d \in rows \ page : c.revision <= d.revision
     /\ Cardinality(page) = IF Cardinality(rows) < PageSize THEN Cardinality(rows)
                            ELSE PageSize}

Poll ==
  /\ \E page \in PagesOf(ListDynamicBanClears(cursor)) :
       /\ \E last \in page : /\ \A c \in page : c.revision <= last.revision
                             /\ cursor' = last.revision
       /\ read' = read \cup {<<c.target, c.revision>> : c \in page}
  /\ UNCHANGED <<backend, now, bans, clears, revision, events, unprojected, tx, faults>>

(***************************************************************************)
(* Failures: a statement fails or the client leaves; the process restarts. *)
(***************************************************************************)
Fault == faults > 0 /\ faults' = faults - 1

AbortClear(p) ==
  /\ Fault
  /\ tx[p].phase # "idle"
  /\ tx' = [tx EXCEPT ![p] = Idle]
  /\ UNCHANGED <<backend, now, bans, clears, revision, events, unprojected, feed>>

LoseProjection(e) ==
  /\ Fault
  /\ unprojected' = unprojected \ {e}
  /\ UNCHANGED <<backend, now, bans, clears, revision, events, tx, feed>>

Restart ==
  /\ Fault
  /\ tx' = [p \in Requests |-> Idle]
  /\ unprojected' = {}
  /\ IF backend = "memory"
     THEN bans' = [k \in Keys |-> None] /\ clears' = {} /\ revision' = 1
     ELSE UNCHANGED <<bans, clears, revision>>
  /\ UNCHANGED <<backend, now, events, feed>>

ClearDynamicBan(p) == UpdateBans(p) \/ InsertClears(p) \/ Commit(p)

Next ==
  \/ Tick
  \/ \E k \in Keys, at \in 0..now, d \in Durations : CreateWAFEvent(k, at, d)
  \/ \E e \in unprojected : ProjectDynamicBanEvent(e) \/ LoseProjection(e)
  \/ \E t \in Targets : ClearInMemory(t) \/ \E p \in Requests : BeginClear(p, t)
  \/ \E p \in Requests : ClearDynamicBan(p) \/ AbortClear(p)
  \/ Poll
  \/ Restart

Spec == Init /\ [][Next]_vars

\* The database answers, and the Gateway's timer fires again and again.
FairSpec == /\ Spec
            /\ \A p \in Requests : WF_vars(ClearDynamicBan(p))
            /\ WF_vars(Poll)

-----------------------------------------------------------------------------
(***************************************************************************)
(* Properties.                                                             *)
(***************************************************************************)
TxState == [phase : {"idle", "update", "insert", "commit"},
            target : Targets \cup {None}, revision : Nat, at : Nat,
            cleared : SUBSET Keys, rows : SUBSET Clear]

\* Every variable holds a value of its kind.
TypeOK ==
  /\ backend \in Backends
  /\ now \in Nat
  /\ bans \in [Keys -> Ban \cup {None}]
  /\ clears \subseteq Clear
  /\ revision \in Nat \ {0}
  /\ events \in Nat
  /\ unprojected \subseteq Event
  /\ tx \in [Requests -> TxState]
  /\ cursor \in Nat
  /\ read \subseteq Targets \X Nat
  /\ faults \in Nat

Released(c) == <<c.target, c.revision>>

\* The Gateway's cursor passes over no clear it has not read: an operator's
\* unban is never lost between the transaction that records it and the poll.
ClearsAreDelivered == \A c \in clears : c.revision <= cursor => Released(c) \in read

\* A ban that carries the revision of a clear is in the feed under that
\* revision, with the listener it belongs to, and as long as no later event
\* re-activated it, with the same outcome.
ClearedBansAreInTheFeed ==
  \A k \in Keys : bans[k] # None /\ bans[k].revision > 0 =>
    \E c \in clears :
      /\ c.target = Target(k) /\ c.listener = k[2] /\ c.revision = bans[k].revision
      /\ bans[k].status # "active" => c.status = bans[k].status

\* The revision of a ban never goes back, so that since_revision also works on
\* the list of bans; no event resets it.
BanRevisionsGrow ==
  [][\A k \in Keys :
       bans[k] # None => bans'[k] # None /\ bans'[k].revision >= bans[k].revision]_vars

\* All rows of a revision release the same target, so that a page that ends
\* between two of them still releases it.
RevisionsNameOneTarget ==
  \A c, d \in clears : c.revision = d.revision => c.target = d.target

\* Once an unban is committed, the Gateway gets to read it.
ClearsAreRead ==
  \A t \in Targets, r \in 1..MaxClears :
    (\E c \in clears : Released(c) = <<t, r>>) ~> <<t, r>> \in read

Feed == INSTANCE ClearFeed WITH
  published <- {Released(c) : c \in clears}, delivered <- read

\* The store and the Gateway's polling together implement the abstract feed.
ImplementsClearFeed == Feed!Spec
=============================================================================

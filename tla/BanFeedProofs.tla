--------------------------- MODULE BanFeedProofs ---------------------------
(***************************************************************************)
(* What the feed of clears guarantees for any number of targets, listeners,*)
(* events, unbans and any size of a page.                                  *)
(***************************************************************************)
EXTENDS BanFeed, TLAPS

-----------------------------------------------------------------------------
(***************************************************************************)
(* Types.                                                                  *)
(***************************************************************************)

\* The transaction of a request that is under way has a target, and the bans
\* it has updated exist.
TxInv ==
  \A p \in Requests :
    /\ tx[p].phase # "idle" => tx[p].target \in Targets
    /\ \A k \in tx[p].cleared : bans[k] # None

TypeInv == TypeOK /\ TxInv

LEMMA NoneIsNoValue == None \notin Targets /\ None \notin Ban
BY BanFeedAssumption

LEMMA BansAreBans ==
  ASSUME TypeOK, NEW k \in Keys, bans[k] # None
  PROVE  bans[k] \in Ban
BY DEF TypeOK

LEMMA IdleType == Idle \in TxState
BY DEF Idle, TxState

LEMMA ProjectedType ==
  ASSUME NEW b \in Ban \cup {None}, NEW e \in Event
  PROVE  Projected(b, e) \in Ban /\ Projected(b, e) # None
<1>1. IF b = None THEN TRUE ELSE b.revision \in Nat
  BY DEF Ban
<1>2. e.at + e.remaining \in Nat
  BY DEF Event
<1>3. Projected(b, e) \in Ban
  BY <1>1, <1>2 DEF Projected, Ban, Statuses
<1> QED BY <1>3, NoneIsNoValue

\* The rows of an unban are its target's, under its revision, and at least one.
LEMMA RowsOfOneClear ==
  ASSUME NEW keys \in SUBSET Keys, NEW t \in Targets, NEW r \in Nat, NEW cleared
  PROVE  /\ Rows(keys, t, r, cleared) \subseteq Clear
         /\ Rows(keys, t, r, cleared) # {}
         /\ \A c \in Rows(keys, t, r, cleared) : c.target = t /\ c.revision = r
<1>1. CASE keys = {}
  BY <1>1 DEF Rows, Clear
<1>2. CASE keys # {}
  <2>1. \A k \in keys : k[2] \in Listeners
    BY DEF Keys
  <2> DEFINE Row(k) == [target |-> t, listener |-> k[2], revision |-> r,
                        status |-> IF k \in cleared THEN "cleared" ELSE "no-op"]
  <2>2. Rows(keys, t, r, cleared) = {Row(k) : k \in keys}
    BY <1>2 DEF Rows
  <2>3. \A k \in keys : Row(k) \in Clear /\ Row(k).target = t /\ Row(k).revision = r
    BY <2>1 DEF Clear
  <2> HIDE DEF Row
  <2> QED BY <1>2, <2>2, <2>3
<1> QED BY <1>1, <1>2

LEMMA TypeInit == Init => TypeInv
<1> SUFFICES ASSUME Init PROVE TypeInv
  OBVIOUS
<1>1. tx \in [Requests -> TxState]
  BY IdleType DEF Init
<1>2. TypeOK
  BY <1>1, BanFeedAssumption DEF Init, TypeOK
<1>3. TxInv
  BY DEF Init, TxInv, Idle
<1> QED BY <1>2, <1>3 DEF TypeInv

LEMMA ProjectTypes ==
  ASSUME TypeInv, NEW e \in Event, Project(e)
  PROVE  /\ bans' \in [Keys -> Ban \cup {None}]
         /\ \A k \in Keys : bans[k] # None => bans'[k] # None
<1> USE DEF TypeInv, TypeOK
<1>1. e.key \in Keys
  BY DEF Event
<1>2. Projected(bans[e.key], e) \in Ban /\ Projected(bans[e.key], e) # None
  BY <1>1, ProjectedType
<1> QED BY <1>1, <1>2 DEF Project

LEMMA TypeStep == TypeInv /\ [Next]_vars => TypeInv'
<1> SUFFICES ASSUME TypeInv, [Next]_vars PROVE TypeInv'
  OBVIOUS
<1> USE DEF TypeInv
<1>1. CASE UNCHANGED vars
  BY <1>1 DEF vars, feed, TypeOK, TxInv
<1>2. CASE Tick
  BY <1>2 DEF Tick, feed, TypeOK, TxInv
<1>3. ASSUME NEW k \in Keys, NEW at \in 0..now, NEW d \in Durations, CreateWAFEvent(k, at, d)
      PROVE  TypeInv'
  <2> DEFINE e == [id |-> events + 1, key |-> k, at |-> at, remaining |-> d]
  <2>1. e \in Event
    BY BanFeedAssumption DEF Event, TypeOK
  <2>2. CASE backend = "memory"
    <3>1. Project(e) /\ UNCHANGED <<backend, unprojected, now, clears, revision, tx, cursor, read, faults>>
      BY <1>3, <2>2 DEF CreateWAFEvent, feed
    <3> HIDE DEF e
    <3>2. /\ bans' \in [Keys -> Ban \cup {None}]
          /\ \A key \in Keys : bans[key] # None => bans'[key] # None
      BY <2>1, <3>1, ProjectTypes
    <3>3. events' \in Nat
      BY <1>3 DEF CreateWAFEvent, TypeOK
    <3>4. \A p \in Requests : tx[p].cleared \subseteq Keys
      BY DEF TypeOK, TxState
    <3> QED BY <3>1, <3>2, <3>3, <3>4 DEF TypeOK, TxInv
  <2>3. CASE backend # "memory"
    BY <1>3, <2>1, <2>3 DEF CreateWAFEvent, feed, TypeOK, TxInv
  <2> QED BY <2>2, <2>3
<1>4. ASSUME NEW e \in unprojected, ProjectDynamicBanEvent(e) PROVE TypeInv'
  <2>1. e \in Event
    BY DEF TypeOK
  <2>2. /\ bans' \in [Keys -> Ban \cup {None}]
        /\ \A key \in Keys : bans[key] # None => bans'[key] # None
    BY <1>4, <2>1, ProjectTypes DEF ProjectDynamicBanEvent
  <2>3. \A p \in Requests : tx[p].cleared \subseteq Keys
    BY DEF TypeOK, TxState
  <2> QED BY <1>4, <2>2, <2>3 DEF ProjectDynamicBanEvent, feed, TypeOK, TxInv
<1>5. ASSUME NEW e \in unprojected, LoseProjection(e) PROVE TypeInv'
  BY <1>5 DEF LoseProjection, Fault, feed, TypeOK, TxInv
<1>6. ASSUME NEW t \in Targets, ClearInMemory(t) PROVE TypeInv'
  <2>1. PICK early \in MetBeforeActive(t) :
          LET cleared == BansOf(t) \ early IN
          /\ bans' = [k \in Keys |->
                        IF k \in BansOf(t)
                        THEN [bans[k] EXCEPT
                                !.status = IF k \in cleared THEN "cleared" ELSE "no-op",
                                !.revision = revision]
                        ELSE bans[k]]
          /\ clears' = clears \cup Rows(BansOf(t), t, revision, cleared)
    BY <1>6 DEF ClearInMemory
  <2>2. revision \in Nat \ {0} /\ revision' \in Nat \ {0}
    <3>1. TakeRevision
      BY <1>6 DEF ClearInMemory
    <3> QED BY <3>1 DEF TakeRevision, TypeOK
  <2>3. BansOf(t) \subseteq Keys
    BY DEF BansOf
  <2>4. clears' \subseteq Clear
    BY <2>1, <2>2, <2>3, RowsOfOneClear DEF TypeOK
  <2>5. ASSUME NEW k \in Keys
        PROVE  /\ bans'[k] \in Ban \cup {None}
               /\ bans[k] # None => bans'[k] # None
    <3>1. CASE k \in BansOf(t)
      <4>1. bans[k] \in Ban
        BY <3>1, BansAreBans DEF BansOf
      <4>2. bans'[k] \in Ban
        BY <2>1, <2>2, <3>1, <4>1 DEF Ban, Statuses
      <4> QED BY <4>2, NoneIsNoValue
    <3>2. CASE k \notin BansOf(t)
      BY <2>1, <3>2 DEF TypeOK
    <3> QED BY <3>1, <3>2
  <2>6. bans' \in [Keys -> Ban \cup {None}]
    BY <2>1, <2>5
  <2>7. \A p \in Requests : tx[p].cleared \subseteq Keys
    BY DEF TypeOK, TxState
  <2> QED BY <1>6, <2>2, <2>4, <2>5, <2>6, <2>7 DEF ClearInMemory, feed, TypeOK, TxInv
<1>7. ASSUME NEW t \in Targets, NEW p \in Requests, BeginClear(p, t) PROVE TypeInv'
  <2> DEFINE begun == [Idle EXCEPT !.phase = "update", !.target = t,
                                   !.revision = revision, !.at = now]
  <2>1. begun \in TxState /\ begun.target = t /\ begun.cleared = {}
    BY DEF Idle, TxState, TypeOK
  <2>2. tx' = [tx EXCEPT ![p] = begun] /\ revision' \in Nat \ {0}
    BY <1>7 DEF BeginClear, Step, TakeRevision, TypeOK
  <2> HIDE DEF begun
  <2> QED BY <1>7, <2>1, <2>2 DEF BeginClear, feed, TypeOK, TxInv
<1>8. ASSUME NEW p \in Requests, UpdateBans(p) PROVE TypeInv'
  <2> DEFINE matched == ActiveBansOf(tx[p].target, tx[p].at)
             updated == [tx[p] EXCEPT !.phase = "insert", !.cleared = matched]
  <2>1. matched \subseteq Keys /\ \A k \in matched : bans[k] # None
    BY DEF ActiveBansOf, BansOf
  <2>2. tx' = [tx EXCEPT ![p] = updated] /\ tx[p].phase = "update"
    BY <1>8 DEF UpdateBans, Step
  <2> HIDE DEF matched
  <2>3. updated \in TxState /\ updated.target = tx[p].target /\ updated.cleared = matched
    BY <2>1 DEF TxState, TypeOK
  <2> HIDE DEF updated
  <2> QED BY <1>8, <2>1, <2>2, <2>3 DEF UpdateBans, feed, TypeOK, TxInv
<1>9. ASSUME NEW p \in Requests, InsertClears(p) PROVE TypeInv'
  <2> DEFINE keys == BansOf(tx[p].target)
             cleared == IF tx[p].cleared = {} THEN {} ELSE keys
             rows == Rows(keys, tx[p].target, tx[p].revision, cleared)
             inserted == [tx[p] EXCEPT !.phase = "commit", !.rows = rows]
  <2>1. tx' = [tx EXCEPT ![p] = inserted] /\ tx[p].phase = "insert"
    BY <1>9 DEF InsertClears, Step
  <2>2. keys \subseteq Keys
    BY DEF BansOf
  <2>3. tx[p].target \in Targets /\ tx[p].revision \in Nat
    BY <2>1 DEF TxInv, TypeOK, TxState
  <2> HIDE DEF keys, cleared
  <2>4. rows \subseteq Clear
    BY <2>2, <2>3, RowsOfOneClear
  <2> HIDE DEF rows
  <2>5. /\ inserted \in TxState /\ inserted.target = tx[p].target
        /\ inserted.cleared = tx[p].cleared
    BY <2>4 DEF TxState, TypeOK
  <2> HIDE DEF inserted
  <2> QED BY <1>9, <2>1, <2>3, <2>5 DEF InsertClears, feed, TypeOK, TxInv
<1>10. ASSUME NEW p \in Requests, Commit(p) PROVE TypeInv'
  <2>1. /\ tx' = [tx EXCEPT ![p] = Idle]
        /\ clears' = clears \cup tx[p].rows
        /\ bans' = [k \in Keys |->
                      IF k \in tx[p].cleared
                      THEN [bans[k] EXCEPT !.status = "cleared", !.revision = tx[p].revision]
                      ELSE bans[k]]
    BY <1>10 DEF Commit, Step
  <2>2. tx[p] \in TxState
    BY DEF TypeOK
  <2>3. clears' \subseteq Clear
    BY <2>1, <2>2 DEF TypeOK, TxState
  <2>4. ASSUME NEW k \in Keys
        PROVE  /\ bans'[k] \in Ban \cup {None}
               /\ bans[k] # None => bans'[k] # None
    <3>1. CASE k \in tx[p].cleared
      <4>1. bans[k] \in Ban
        BY <3>1, BansAreBans DEF TxInv
      <4>2. bans'[k] \in Ban
        BY <2>1, <2>2, <3>1, <4>1 DEF Ban, Statuses, TxState
      <4> QED BY <4>2, NoneIsNoValue
    <3>2. CASE k \notin tx[p].cleared
      BY <2>1, <3>2 DEF TypeOK
    <3> QED BY <3>1, <3>2
  <2>5. bans' \in [Keys -> Ban \cup {None}]
    BY <2>1, <2>4
  <2>6. \A q \in Requests : tx[q].cleared \subseteq Keys
    BY DEF TypeOK, TxState
  <2>7. Idle.phase = "idle" /\ Idle.cleared = {}
    BY DEF Idle
  <2> QED BY <1>10, <2>1, <2>3, <2>4, <2>5, <2>6, <2>7, IdleType
          DEF Commit, feed, TypeOK, TxInv
<1>11. ASSUME NEW p \in Requests, AbortClear(p) PROVE TypeInv'
  <2>1. Idle.phase = "idle" /\ Idle.cleared = {}
    BY DEF Idle
  <2> QED BY <1>11, <2>1, IdleType DEF AbortClear, Fault, feed, TypeOK, TxInv
<1>12. CASE Poll
  <2>1. PICK page \in PagesOf(ListDynamicBanClears(cursor)) :
          /\ \E last \in page : cursor' = last.revision
          /\ read' = read \cup {Released(c) : c \in page}
    BY <1>12 DEF Poll, Released
  <2>2. page \subseteq Clear
    BY <2>1 DEF PagesOf, ListDynamicBanClears, TypeOK
  <2>3. cursor' \in Nat /\ read' \subseteq Targets \X Nat
    BY <2>1, <2>2 DEF Clear, TypeOK, Released
  <2> QED BY <1>12, <2>3 DEF Poll, TypeOK, TxInv
<1>13. CASE Restart
  <2>1. Idle.phase = "idle" /\ Idle.cleared = {}
    BY DEF Idle
  <2>2. bans' \in [Keys -> Ban \cup {None}] /\ clears' \subseteq Clear /\ revision' \in Nat \ {0}
    BY <1>13 DEF Restart, TypeOK
  <2> QED BY <1>13, <2>1, <2>2, IdleType DEF Restart, Fault, feed, TypeOK, TxInv
<1> QED BY <1>1, <1>2, <1>3, <1>4, <1>5, <1>6, <1>7, <1>8, <1>9, <1>10, <1>11, <1>12, <1>13
        DEF Next, ClearDynamicBan

\* Every reachable state is well formed, on both stores, whatever transactions
\* are aborted, projections lost and processes restarted.
THEOREM TypeCorrect == Spec => []TypeOK
<1>1. TypeInv => TypeOK
  BY DEF TypeInv
<1> QED BY <1>1, TypeInit, TypeStep, PTL DEF Spec

-----------------------------------------------------------------------------
(***************************************************************************)
(* The order of revisions.  With one unban at a time and no restart of a   *)
(* memory store, all that is recorded or read lies before the next         *)
(* revision, and before the revision of the unban under way.  That is why  *)
(* a row that becomes visible late is still ahead of the cursor; with two  *)
(* unbans the second part fails (the run bans_race).                       *)
(***************************************************************************)
SerialClears ==
  /\ "memory" \in Backends => MaxFaults["memory"] = 0
  /\ "postgres" \in Backends => \A p, q \in Requests : p = q

Published == {Released(c) : c \in clears}

AllBefore(n) ==
  /\ cursor < n
  /\ \A c \in clears : c.revision < n
  /\ \A k \in Keys : bans[k] # None => bans[k].revision < n

ClearUnderWay(p) ==
  /\ backend = "postgres"
  /\ tx[p].revision < revision
  /\ AllBefore(tx[p].revision)
  /\ \A c \in tx[p].rows : c.target = tx[p].target /\ c.revision = tx[p].revision

FeedInv ==
  /\ backend = "memory" => faults = 0
  /\ AllBefore(revision)
  /\ \A d \in read : d[2] <= cursor
  /\ read \subseteq Published
  /\ ClearsAreDelivered
  /\ RevisionsNameOneTarget
  /\ \A p \in Requests : tx[p].phase # "idle" => ClearUnderWay(p)

LEMMA FeedInit == ASSUME SerialClears PROVE Init => FeedInv
BY DEF SerialClears, Init, FeedInv, AllBefore, ClearsAreDelivered, RevisionsNameOneTarget,
       Idle, ClearUnderWay

\* An event moves no revision of a ban.
LEMMA ProjectKeepsRevisions ==
  ASSUME TypeInv, NEW e \in Event, Project(e)
  PROVE  \A k \in Keys :
           /\ bans[k] # None => bans'[k].revision = bans[k].revision
           /\ bans[k] = None /\ bans'[k] # None => bans'[k].revision = 0
<1>1. e.key \in Keys
  BY DEF Event
<1>2. /\ bans[e.key] # None => Projected(bans[e.key], e).revision = bans[e.key].revision
      /\ bans[e.key] = None => Projected(bans[e.key], e).revision = 0
  BY DEF Projected
<1> QED BY <1>1, <1>2 DEF Project, TypeInv, TypeOK

\* What only touches the bans, and moves no revision, keeps the order.
LEMMA SameRevisions ==
  ASSUME TypeInv, FeedInv,
         UNCHANGED <<backend, clears, revision, tx, cursor, read, faults>>,
         \A k \in Keys :
           /\ bans[k] # None => bans'[k].revision = bans[k].revision
           /\ bans[k] = None /\ bans'[k] # None => bans'[k].revision = 0
  PROVE  FeedInv'
<1>1. ASSUME NEW n \in Nat, AllBefore(n) PROVE AllBefore(n)'
  BY <1>1 DEF AllBefore, TypeInv, TypeOK
<1>2. AllBefore(revision)'
  BY <1>1 DEF FeedInv, TypeInv, TypeOK
<1>3. ASSUME NEW p \in Requests, tx[p].phase # "idle" PROVE ClearUnderWay(p)'
  <2>1. tx[p].revision \in Nat
    BY DEF TypeInv, TypeOK, TxState
  <2>2. ClearUnderWay(p)
    BY <1>3 DEF FeedInv
  <2>3. AllBefore(tx[p].revision)'
    BY <1>1, <2>1, <2>2 DEF ClearUnderWay
  <2> QED BY <2>2, <2>3 DEF ClearUnderWay
<1> QED BY <1>2, <1>3 DEF FeedInv, Published, ClearsAreDelivered, RevisionsNameOneTarget

\* Recording the rows of one clear, past everything and before nothing.
LEMMA RecordedClear ==
  ASSUME TypeInv, TypeInv', FeedInv, NEW r \in Nat, NEW t \in Targets,
         AllBefore(r), r < revision',
         UNCHANGED <<cursor, read>>,
         NEW rows \in SUBSET Clear, clears' = clears \cup rows,
         \A c \in rows : c.target = t /\ c.revision = r,
         \A k \in Keys : bans'[k] # None =>
           bans[k] # None /\ bans'[k].revision \in {bans[k].revision, r}
  PROVE  /\ AllBefore(revision)'
         /\ ClearsAreDelivered' /\ RevisionsNameOneTarget'
         /\ read' \subseteq Published'
<1>1. AllBefore(revision)'
  <2>1. \A n \in Nat : n < r => n < revision'
    BY DEF TypeInv, TypeOK
  <2>2. cursor < revision'
    BY <2>1 DEF AllBefore, TypeInv, TypeOK
  <2>3. \A c \in clears' : c.revision < revision'
    BY <2>1 DEF AllBefore, TypeInv, TypeOK, Clear
  <2>4. ASSUME NEW k \in Keys, bans'[k] # None PROVE bans'[k].revision < revision'
    <3>1. bans[k] \in Ban /\ bans[k].revision < r
      BY <2>4, BansAreBans DEF AllBefore, TypeInv
    <3> QED BY <2>1, <2>4, <3>1 DEF Ban
  <2> QED BY <2>2, <2>3, <2>4 DEF AllBefore
<1>2. ClearsAreDelivered'
  BY DEF ClearsAreDelivered, FeedInv, AllBefore, TypeInv, TypeOK
<1>3. RevisionsNameOneTarget'
  BY DEF RevisionsNameOneTarget, FeedInv, AllBefore
<1>4. read' \subseteq Published'
  BY DEF FeedInv, Published, Released
<1> QED BY <1>1, <1>2, <1>3, <1>4

\* The cursor moves forward, over no clear that is not read by then.
LEMMA PollKeepsOrder ==
  ASSUME TypeInv, FeedInv, Poll
  PROVE  /\ cursor' \in Nat /\ cursor' >= cursor
         /\ \E c \in clears : cursor' = c.revision
         /\ read \subseteq read' /\ read' \subseteq Published
         /\ \A d \in read' : d[2] <= cursor'
         /\ \A c \in clears : c.revision <= cursor' => Released(c) \in read'
<1> DEFINE rows == ListDynamicBanClears(cursor)
<1>1. PICK page \in PagesOf(rows) :
        /\ \E last \in page : /\ \A c \in page : c.revision <= last.revision
                              /\ cursor' = last.revision
        /\ read' = read \cup {Released(c) : c \in page}
  BY DEF Poll, Released
<1>2. PICK last \in page : /\ \A c \in page : c.revision <= last.revision
                           /\ cursor' = last.revision
  BY <1>1
<1>3. page \subseteq rows /\ \A c \in page, d \in rows \ page : c.revision <= d.revision
  BY <1>1 DEF PagesOf
<1>4. rows \subseteq clears /\ clears \subseteq Clear
  BY DEF ListDynamicBanClears, TypeInv, TypeOK
<1>5. \A c \in clears : c.revision \in Nat
  BY <1>4 DEF Clear
<1>6. cursor \in Nat
  BY DEF TypeInv, TypeOK
<1>7. cursor' \in Nat /\ cursor' >= cursor
  BY <1>2, <1>3, <1>5, <1>6 DEF ListDynamicBanClears
<1>8. read \subseteq read' /\ read' \subseteq Published
  BY <1>1, <1>3, <1>4 DEF FeedInv, Published
<1>9. \A d \in read' : d[2] <= cursor'
  <2>1. \A d \in read : d[2] \in Nat /\ d[2] <= cursor
    BY DEF FeedInv, TypeInv, TypeOK
  <2>2. \A d \in read : d[2] <= cursor'
    BY <2>1, <1>6, <1>7
  <2>3. \A c \in page : Released(c)[2] <= cursor'
    BY <1>2 DEF Released
  <2> QED BY <1>1, <2>2, <2>3
<1>10. ASSUME NEW c \in clears, c.revision <= cursor' PROVE Released(c) \in read'
  <2>1. CASE c.revision <= cursor
    BY <1>8, <2>1 DEF FeedInv, ClearsAreDelivered
  <2>2. CASE c \in page
    BY <1>1, <2>2
  <2>3. CASE c.revision > cursor /\ c \notin page
    <3>1. c \in rows
      BY <2>3, <1>6 DEF ListDynamicBanClears
    <3>2. c.revision = last.revision
      BY <1>2, <1>3, <1>4, <1>5, <1>10, <2>3, <3>1
    <3>3. Released(c) = Released(last)
      BY <1>2, <1>3, <1>4, <3>2 DEF FeedInv, RevisionsNameOneTarget, Released
    <3> QED BY <1>1, <1>2, <3>3
  <2> QED BY <1>5, <1>6, <2>1, <2>2, <2>3
<1> QED BY <1>2, <1>3, <1>4, <1>7, <1>8, <1>9, <1>10

LEMMA FeedStep ==
  ASSUME SerialClears, TypeInv, TypeInv', FeedInv, [Next]_vars
  PROVE  FeedInv'
<1>1. CASE UNCHANGED <<backend, bans, clears, revision, tx, cursor, read, faults>>
  BY <1>1, SameRevisions DEF TypeInv
<1>2. ASSUME Fault PROVE backend = "postgres"
  BY <1>2, BanFeedAssumption DEF Fault, FeedInv, TypeInv, TypeOK
<1>3. CASE UNCHANGED vars \/ Tick
  BY <1>1, <1>3 DEF vars, feed, Tick
<1>4. ASSUME NEW k \in Keys, NEW at \in 0..now, NEW d \in Durations, CreateWAFEvent(k, at, d)
      PROVE  FeedInv'
  <2> DEFINE e == [id |-> events + 1, key |-> k, at |-> at, remaining |-> d]
  <2>1. e \in Event
    BY BanFeedAssumption DEF Event, TypeInv, TypeOK
  <2>2. UNCHANGED <<backend, clears, revision, tx, cursor, read, faults>>
    BY <1>4 DEF CreateWAFEvent, feed
  <2>3. Project(e) \/ UNCHANGED bans
    BY <1>4 DEF CreateWAFEvent
  <2> HIDE DEF e
  <2> QED BY <1>1, <2>1, <2>2, <2>3, ProjectKeepsRevisions, SameRevisions
<1>5. ASSUME NEW e \in unprojected, ProjectDynamicBanEvent(e) PROVE FeedInv'
  <2>1. e \in Event
    BY DEF TypeInv, TypeOK
  <2> QED BY <1>5, <2>1, ProjectKeepsRevisions, SameRevisions
          DEF ProjectDynamicBanEvent, feed
<1>6. ASSUME NEW e \in unprojected, LoseProjection(e) PROVE FeedInv'
  BY <1>2, <1>6, BanFeedAssumption
     DEF LoseProjection, Fault, feed, FeedInv, AllBefore, ClearUnderWay, Published,
         ClearsAreDelivered, RevisionsNameOneTarget
<1>7. ASSUME NEW t \in Targets, ClearInMemory(t) PROVE FeedInv'
  <2>1. PICK early \in MetBeforeActive(t) :
          LET cleared == BansOf(t) \ early IN
          /\ bans' = [k \in Keys |->
                        IF k \in BansOf(t)
                        THEN [bans[k] EXCEPT
                                !.status = IF k \in cleared THEN "cleared" ELSE "no-op",
                                !.revision = revision]
                        ELSE bans[k]]
          /\ clears' = clears \cup Rows(BansOf(t), t, revision, cleared)
    BY <1>7 DEF ClearInMemory
  <2> DEFINE rows == Rows(BansOf(t), t, revision, BansOf(t) \ early)
  <2>2. revision \in Nat /\ revision < revision'
    <3>1. TakeRevision
      BY <1>7 DEF ClearInMemory
    <3> QED BY <3>1 DEF TakeRevision, TypeInv, TypeOK
  <2>3. BansOf(t) \subseteq Keys
    BY DEF BansOf
  <2>4. rows \subseteq Clear /\ \A c \in rows : c.target = t /\ c.revision = revision
    BY <2>2, <2>3, RowsOfOneClear
  <2>5. clears' = clears \cup rows
    BY <2>1
  <2> HIDE DEF rows
  <2>6. ASSUME NEW k \in Keys, bans'[k] # None
        PROVE  bans[k] # None /\ bans'[k].revision \in {bans[k].revision, revision}
    <3>1. CASE k \in BansOf(t)
      <4>1. bans[k] # None /\ bans[k] \in Ban
        BY <3>1, BansAreBans DEF BansOf, TypeInv
      <4> QED BY <2>1, <3>1, <4>1 DEF Ban
    <3>2. CASE k \notin BansOf(t)
      BY <2>1, <2>6, <3>2
    <3> QED BY <3>1, <3>2
  <2>7. UNCHANGED <<backend, cursor, read, tx, faults>> /\ backend = "memory"
    BY <1>7 DEF ClearInMemory, feed
  <2>8. AllBefore(revision)
    BY DEF FeedInv
  <2>9. /\ AllBefore(revision)'
        /\ ClearsAreDelivered' /\ RevisionsNameOneTarget'
        /\ read' \subseteq Published'
    BY <2>2, <2>4, <2>5, <2>6, <2>7, <2>8, RecordedClear
  <2> QED BY <2>7, <2>9 DEF FeedInv, ClearUnderWay
<1>8. ASSUME NEW t \in Targets, NEW p \in Requests, BeginClear(p, t) PROVE FeedInv'
  <2> DEFINE begun == [Idle EXCEPT !.phase = "update", !.target = t,
                                   !.revision = revision, !.at = now]
  <2>1. begun.revision = revision /\ begun.rows = {}
    BY DEF Idle
  <2>2. tx' = [tx EXCEPT ![p] = begun] /\ backend = "postgres" /\ TakeRevision
    BY <1>8 DEF BeginClear, Step
  <2> HIDE DEF begun
  <2>3. tx'[p] = begun
    BY <2>2 DEF TypeInv, TypeOK
  <2>4. UNCHANGED <<backend, bans, clears, cursor, read, faults>>
    BY <1>8 DEF BeginClear, feed
  <2>5. revision \in Nat /\ revision < revision'
    BY <2>2 DEF TakeRevision, TypeInv, TypeOK
  <2>6. AllBefore(revision)'
    <3>1. cursor \in Nat /\ \A c \in clears : c.revision \in Nat
      BY DEF TypeInv, TypeOK, Clear
    <3>2. \A k \in Keys : bans[k] # None => bans[k].revision \in Nat
      BY BansAreBans DEF TypeInv, Ban
    <3> QED BY <2>2, <2>4, <2>5, <3>1, <3>2 DEF FeedInv, AllBefore, TakeRevision
  <2>7. ClearUnderWay(p)'
    BY <2>1, <2>2, <2>3, <2>4, <2>5 DEF ClearUnderWay, AllBefore, FeedInv
  <2>8. \A q \in Requests : q = p
    BY <2>2 DEF SerialClears, TypeInv, TypeOK
  <2> QED BY <2>2, <2>4, <2>6, <2>7, <2>8
          DEF FeedInv, Published, ClearsAreDelivered, RevisionsNameOneTarget
<1>9. ASSUME NEW p \in Requests, UpdateBans(p) PROVE FeedInv'
  <2> DEFINE updated == [tx[p] EXCEPT !.phase = "insert",
                                      !.cleared = ActiveBansOf(tx[p].target, tx[p].at)]
  <2>1. tx' = [tx EXCEPT ![p] = updated] /\ tx[p].phase = "update"
    BY <1>9 DEF UpdateBans, Step
  <2>2. /\ updated.revision = tx[p].revision /\ updated.rows = tx[p].rows
        /\ updated.target = tx[p].target
    BY DEF TypeInv, TypeOK, TxState
  <2> HIDE DEF updated
  <2>3. UNCHANGED <<backend, bans, clears, revision, cursor, read, faults>>
    BY <1>9 DEF UpdateBans, feed
  <2>4. tx'[p] = updated /\ \A q \in Requests \ {p} : tx'[q] = tx[q]
    BY <2>1 DEF TypeInv, TypeOK
  <2>5. ClearUnderWay(p)'
    <3>1. ClearUnderWay(p)
      BY <2>1 DEF FeedInv
    <3> QED BY <2>2, <2>3, <2>4, <3>1 DEF ClearUnderWay, AllBefore
  <2>6. \A q \in Requests \ {p} : tx'[q].phase # "idle" => ClearUnderWay(q)'
    BY <2>3, <2>4 DEF FeedInv, ClearUnderWay, AllBefore
  <2>7. AllBefore(revision)'
    BY <2>3 DEF FeedInv, AllBefore
  <2> QED BY <2>3, <2>5, <2>6, <2>7
          DEF FeedInv, Published, ClearsAreDelivered, RevisionsNameOneTarget
<1>10. ASSUME NEW p \in Requests, InsertClears(p) PROVE FeedInv'
  <2> DEFINE keys == BansOf(tx[p].target)
             cleared == IF tx[p].cleared = {} THEN {} ELSE keys
             rows == Rows(keys, tx[p].target, tx[p].revision, cleared)
             inserted == [tx[p] EXCEPT !.phase = "commit", !.rows = rows]
  <2>1. tx' = [tx EXCEPT ![p] = inserted] /\ tx[p].phase = "insert"
    BY <1>10 DEF InsertClears, Step
  <2>2. keys \subseteq Keys
    BY DEF BansOf
  <2>3. tx[p].target \in Targets /\ tx[p].revision \in Nat
    BY <2>1 DEF TypeInv, TxInv, TypeOK, TxState
  <2> HIDE DEF keys, cleared
  <2>4. \A c \in rows : c.target = tx[p].target /\ c.revision = tx[p].revision
    BY <2>2, <2>3, RowsOfOneClear
  <2> HIDE DEF rows
  <2>5. /\ inserted.revision = tx[p].revision /\ inserted.rows = rows
        /\ inserted.target = tx[p].target
    BY DEF TypeInv, TypeOK, TxState
  <2> HIDE DEF inserted
  <2>6. UNCHANGED <<backend, bans, clears, revision, cursor, read, faults>>
    BY <1>10 DEF InsertClears, feed
  <2>7. tx'[p] = inserted /\ \A q \in Requests \ {p} : tx'[q] = tx[q]
    BY <2>1 DEF TypeInv, TypeOK
  <2>8. ClearUnderWay(p)'
    <3>1. ClearUnderWay(p)
      BY <2>1 DEF FeedInv
    <3> QED BY <2>4, <2>5, <2>6, <2>7, <3>1 DEF ClearUnderWay, AllBefore
  <2>9. \A q \in Requests \ {p} : tx'[q].phase # "idle" => ClearUnderWay(q)'
    BY <2>6, <2>7 DEF FeedInv, ClearUnderWay, AllBefore
  <2>10. AllBefore(revision)'
    BY <2>6 DEF FeedInv, AllBefore
  <2> QED BY <2>6, <2>8, <2>9, <2>10
          DEF FeedInv, Published, ClearsAreDelivered, RevisionsNameOneTarget
<1>11. ASSUME NEW p \in Requests, Commit(p) PROVE FeedInv'
  <2>1. /\ tx[p].phase = "commit"
        /\ tx' = [tx EXCEPT ![p] = Idle]
        /\ clears' = clears \cup tx[p].rows
        /\ bans' = [k \in Keys |->
                      IF k \in tx[p].cleared
                      THEN [bans[k] EXCEPT !.status = "cleared", !.revision = tx[p].revision]
                      ELSE bans[k]]
        /\ UNCHANGED <<backend, revision, cursor, read, faults>>
    BY <1>11 DEF Commit, Step, feed
  <2>2. ClearUnderWay(p) /\ tx[p].target \in Targets
    BY <2>1 DEF FeedInv, TypeInv, TxInv
  <2>3. tx[p].revision \in Nat /\ tx[p].rows \subseteq Clear
    BY DEF TypeInv, TypeOK, TxState
  <2>4. ASSUME NEW k \in Keys, bans'[k] # None
        PROVE  bans[k] # None /\ bans'[k].revision \in {bans[k].revision, tx[p].revision}
    <3>1. CASE k \in tx[p].cleared
      <4>1. bans[k] # None /\ bans[k] \in Ban
        BY <3>1, BansAreBans DEF TypeInv, TxInv
      <4> QED BY <2>1, <3>1, <4>1 DEF Ban
    <3>2. CASE k \notin tx[p].cleared
      BY <2>1, <2>4, <3>2
    <3> QED BY <3>1, <3>2
  <2>5. /\ AllBefore(revision)'
        /\ ClearsAreDelivered' /\ RevisionsNameOneTarget'
        /\ read' \subseteq Published'
    <3> DEFINE r == tx[p].revision
               t == tx[p].target
               rows == tx[p].rows
    <3>1. AllBefore(r) /\ r < revision' /\ \A c \in rows : c.target = t /\ c.revision = r
      BY <2>1, <2>2 DEF ClearUnderWay
    <3>2. clears' = clears \cup rows /\ rows \in SUBSET Clear /\ r \in Nat /\ t \in Targets
      BY <2>1, <2>2, <2>3
    <3>3. \A k \in Keys : bans'[k] # None => bans[k] # None /\ bans'[k].revision \in {bans[k].revision, r}
      BY <2>4
    <3>4. UNCHANGED <<cursor, read>>
      BY <2>1
    <3> HIDE DEF r, t, rows
    <3> QED BY <3>1, <3>2, <3>3, <3>4, RecordedClear
  <2>6. \A q \in Requests : q = p
    BY <2>2 DEF SerialClears, ClearUnderWay, TypeInv, TypeOK
  <2>7. \A q \in Requests : tx'[q].phase = "idle"
    BY <2>1, <2>6 DEF Idle, TypeInv, TypeOK
  <2> QED BY <2>1, <2>5, <2>7 DEF FeedInv
<1>12. ASSUME NEW p \in Requests, AbortClear(p) PROVE FeedInv'
  <2>1. tx' = [tx EXCEPT ![p] = Idle] /\ backend = "postgres"
    BY <1>2, <1>12 DEF AbortClear
  <2>2. tx'[p].phase = "idle"
    BY <2>1 DEF Idle, TypeInv, TypeOK
  <2>3. UNCHANGED <<backend, bans, clears, revision, cursor, read>>
    BY <1>12 DEF AbortClear, feed
  <2>4. \A q \in Requests : q = p
    BY <2>1 DEF SerialClears, TypeInv, TypeOK
  <2> QED BY <2>1, <2>2, <2>3, <2>4
          DEF FeedInv, AllBefore, Published, ClearsAreDelivered, RevisionsNameOneTarget
<1>13. CASE Poll
  <2>1. UNCHANGED <<backend, bans, clears, revision, tx, faults>>
    BY <1>13 DEF Poll
  <2>2. PICK c \in clears : cursor' = c.revision
    BY <1>13, PollKeepsOrder
  <2>3. /\ read' \subseteq Published
        /\ \A d \in read' : d[2] <= cursor'
        /\ ClearsAreDelivered'
    BY <1>13, <2>1, PollKeepsOrder DEF ClearsAreDelivered, Released
  <2>4. \A n \in Nat : AllBefore(n) => AllBefore(n)'
    BY <2>1, <2>2 DEF AllBefore
  <2>5. AllBefore(revision)'
    BY <2>1, <2>4 DEF FeedInv, TypeInv, TypeOK, AllBefore
  <2>6. ASSUME NEW p \in Requests, tx'[p].phase # "idle" PROVE ClearUnderWay(p)'
    <3>1. ClearUnderWay(p) /\ tx[p].revision \in Nat
      BY <2>1, <2>6 DEF FeedInv, TypeInv, TypeOK, TxState
    <3> QED BY <2>1, <2>4, <3>1 DEF ClearUnderWay, AllBefore
  <2> QED BY <2>1, <2>3, <2>5, <2>6 DEF FeedInv, Published, RevisionsNameOneTarget
<1>14. CASE Restart
  <2>1. backend = "postgres"
    BY <1>2, <1>14 DEF Restart
  <2>2. UNCHANGED <<backend, bans, clears, revision, cursor, read>>
    BY <1>14, <2>1 DEF Restart, feed
  <2>3. \A p \in Requests : tx'[p].phase = "idle"
    BY <1>14 DEF Restart, Idle
  <2> QED BY <2>1, <2>2, <2>3
          DEF FeedInv, AllBefore, Published, ClearsAreDelivered, RevisionsNameOneTarget
<1> QED BY <1>3, <1>4, <1>5, <1>6, <1>7, <1>8, <1>9, <1>10, <1>11, <1>12, <1>13, <1>14
        DEF Next, ClearDynamicBan

\* With one unban at a time, and no restart of a memory store, the Gateway's
\* cursor passes over no clear.
THEOREM Delivery == ASSUME SerialClears PROVE Spec => []ClearsAreDelivered
<1>1. FeedInv => ClearsAreDelivered
  BY DEF FeedInv
<1>2. TypeInv /\ TypeInv' /\ FeedInv /\ [Next]_vars => FeedInv'
  BY FeedStep
<1> QED BY <1>1, <1>2, FeedInit, TypeInit, TypeStep, PTL DEF Spec

\* Under the same conditions a page that ends between two rows of one revision
\* still releases the target of both.
THEOREM OneTargetPerRevision == ASSUME SerialClears PROVE Spec => []RevisionsNameOneTarget
<1>1. FeedInv => RevisionsNameOneTarget
  BY DEF FeedInv
<1>2. TypeInv /\ TypeInv' /\ FeedInv /\ [Next]_vars => FeedInv'
  BY FeedStep
<1> QED BY <1>1, <1>2, FeedInit, TypeInit, TypeStep, PTL DEF Spec

\* With one unban at a time, and no restart of a memory store, the revision of a
\* ban never goes back.
THEOREM RevisionsGrow == ASSUME SerialClears PROVE Spec => BanRevisionsGrow
<1> DEFINE Grow == \A k \in Keys :
             bans[k] # None => bans'[k] # None /\ bans'[k].revision >= bans[k].revision
<1>1. ASSUME TypeInv, FeedInv, [Next]_vars PROVE [Grow]_vars
  <2> SUFFICES Grow
    OBVIOUS
  <2>1. \A k \in Keys : bans[k] # None => bans[k].revision \in Nat
    BY <1>1, BansAreBans DEF TypeInv, Ban
  <2>2. CASE UNCHANGED bans
    BY <2>1, <2>2
  <2>3. ASSUME NEW e \in Event, Project(e) PROVE Grow
    <3>1. \A k \in Keys : bans[k] # None => bans'[k] # None
      BY <1>1, <2>3, ProjectTypes
    <3>2. \A k \in Keys : bans[k] # None => bans'[k].revision = bans[k].revision
      BY <1>1, <2>3, ProjectKeepsRevisions
    <3> QED BY <2>1, <3>1, <3>2
  <2>4. CASE UNCHANGED vars \/ Tick \/ Poll
    BY <2>2, <2>4 DEF vars, Tick, Poll
  <2>5. ASSUME NEW k \in Keys, NEW at \in 0..now, NEW d \in Durations, CreateWAFEvent(k, at, d)
        PROVE  Grow
    <3> DEFINE e == [id |-> events + 1, key |-> k, at |-> at, remaining |-> d]
    <3>1. e \in Event
      BY <1>1, BanFeedAssumption DEF Event, TypeInv, TypeOK
    <3>2. Project(e) \/ UNCHANGED bans
      BY <2>5 DEF CreateWAFEvent
    <3> HIDE DEF e, Grow
    <3> QED BY <2>2, <2>3, <3>1, <3>2
  <2>6. ASSUME NEW e \in unprojected, ProjectDynamicBanEvent(e) PROVE Grow
    BY <1>1, <2>3, <2>6 DEF ProjectDynamicBanEvent, TypeInv, TypeOK
  <2>7. ASSUME NEW e \in unprojected, LoseProjection(e) PROVE Grow
    BY <2>2, <2>7 DEF LoseProjection
  <2>8. ASSUME NEW t \in Targets, ClearInMemory(t) PROVE Grow
    <3>1. PICK early \in MetBeforeActive(t) :
            bans' = [k \in Keys |->
                       IF k \in BansOf(t)
                       THEN [bans[k] EXCEPT
                               !.status = IF k \in BansOf(t) \ early THEN "cleared" ELSE "no-op",
                               !.revision = revision]
                       ELSE bans[k]]
      BY <2>8 DEF ClearInMemory
    <3>2. revision \in Nat /\ \A k \in Keys : bans[k] # None => bans[k].revision < revision
      BY <1>1 DEF FeedInv, AllBefore, TypeInv, TypeOK
    <3>3. ASSUME NEW k \in Keys, bans[k] # None
          PROVE  bans'[k] # None /\ bans'[k].revision >= bans[k].revision
      <4>1. bans[k] \in Ban
        BY <1>1, <3>3, BansAreBans DEF TypeInv
      <4>2. CASE k \in BansOf(t)
        <5>1. bans'[k] \in Ban /\ bans'[k].revision = revision
          BY <3>1, <3>2, <4>1, <4>2 DEF Ban, Statuses
        <5>2. bans'[k] # None
          BY <5>1, NoneIsNoValue
        <5>3. bans[k].revision \in Nat /\ bans[k].revision < revision
          BY <2>1, <3>2, <3>3
        <5> QED BY <3>2, <5>1, <5>2, <5>3
      <4>3. CASE k \notin BansOf(t)
        <5>1. bans'[k] = bans[k]
          BY <3>1, <4>3
        <5>2. bans[k].revision \in Nat
          BY <2>1, <3>3
        <5> QED BY <3>3, <5>1, <5>2
      <4> QED BY <4>2, <4>3
    <3> QED BY <3>3
  <2>9. ASSUME NEW t \in Targets, NEW p \in Requests, BeginClear(p, t) PROVE Grow
    BY <2>2, <2>9 DEF BeginClear
  <2>10. ASSUME NEW p \in Requests, UpdateBans(p) \/ InsertClears(p) \/ AbortClear(p)
         PROVE  Grow
    BY <2>2, <2>10 DEF UpdateBans, InsertClears, AbortClear
  <2>11. ASSUME NEW p \in Requests, Commit(p) PROVE Grow
    <3>1. /\ tx[p].phase = "commit"
          /\ bans' = [k \in Keys |->
                        IF k \in tx[p].cleared
                        THEN [bans[k] EXCEPT !.status = "cleared", !.revision = tx[p].revision]
                        ELSE bans[k]]
      BY <2>11 DEF Commit, Step
    <3>2. tx[p].revision \in Nat
      BY <1>1 DEF TypeInv, TypeOK, TxState
    <3>3. \A k \in Keys : bans[k] # None => bans[k].revision < tx[p].revision
      BY <1>1, <3>1 DEF FeedInv, ClearUnderWay, AllBefore
    <3>4. ASSUME NEW k \in Keys, bans[k] # None
          PROVE  bans'[k] # None /\ bans'[k].revision >= bans[k].revision
      <4>1. bans[k] \in Ban
        BY <1>1, <3>4, BansAreBans DEF TypeInv
      <4>2. CASE k \in tx[p].cleared
        <5>1. bans'[k] \in Ban /\ bans'[k].revision = tx[p].revision
          BY <3>1, <3>2, <4>1, <4>2 DEF Ban, Statuses
        <5>2. bans'[k] # None
          BY <5>1, NoneIsNoValue
        <5>3. bans[k].revision \in Nat /\ bans[k].revision < tx[p].revision
          BY <2>1, <3>3, <3>4
        <5> QED BY <3>2, <5>1, <5>2, <5>3
      <4>3. CASE k \notin tx[p].cleared
        <5>1. bans'[k] = bans[k]
          BY <3>1, <4>3
        <5>2. bans[k].revision \in Nat
          BY <2>1, <3>4
        <5> QED BY <3>4, <5>1, <5>2
      <4> QED BY <4>2, <4>3
    <3> QED BY <3>4
  <2>12. CASE Restart
    <3>1. backend = "postgres"
      BY <1>1, <2>12, BanFeedAssumption DEF Restart, Fault, FeedInv, TypeInv, TypeOK
    <3> QED BY <2>2, <2>12, <3>1 DEF Restart
  <2> HIDE DEF Grow
  <2> QED BY <1>1, <2>4, <2>5, <2>6, <2>7, <2>8, <2>9, <2>10, <2>11, <2>12
          DEF Next, ClearDynamicBan
<1>2. TypeInv /\ FeedInv /\ [Next]_vars => [Grow]_vars
  BY <1>1
<1>3. TypeInv /\ TypeInv' /\ FeedInv /\ [Next]_vars => FeedInv'
  BY FeedStep
<1> QED BY <1>2, <1>3, FeedInit, TypeInit, TypeStep, PTL DEF Spec, BanRevisionsGrow

-----------------------------------------------------------------------------
(***************************************************************************)
(* Refinement.  A committed unban is Publish, a poll is Deliver, all else  *)
(* is a stutter: it leaves clears and read alone.                          *)
(***************************************************************************)

\* Recording the rows of one clear past the cursor publishes it.
LEMMA RecordPublishes ==
  ASSUME TypeInv, FeedInv, NEW r \in Nat, NEW t \in Targets, cursor < r,
         UNCHANGED read,
         NEW rows, clears' = clears \cup rows,
         \A c \in rows : c.target = t /\ c.revision = r
  PROVE  Feed!Publish \/ UNCHANGED Feed!vars
<1>1. Published' \subseteq Published \cup {<<t, r>>} /\ Published \subseteq Published'
  BY DEF Published, Released
<1>2. CASE Published' = Published
  BY <1>2 DEF Published, Feed!vars
<1>3. CASE Published' # Published
  <2>1. <<t, r>> \in Published' /\ Published' = Published \cup {<<t, r>>}
    BY <1>1, <1>3
  <2>2. \A d \in read : d[2] < r
    BY DEF FeedInv, TypeInv, TypeOK
  <2>3. \A d \in Published' \ Published : d[2] = r
    BY <2>1
  <2> QED BY <2>1, <2>2, <2>3 DEF Feed!Publish, Feed!Before, Feed!Revision, Published
<1> QED BY <1>2, <1>3

LEMMA FeedRefines ==
  ASSUME SerialClears, TypeInv, FeedInv, FeedInv', [Next]_vars
  PROVE  [Feed!Next]_(Feed!vars)
<1> DEFINE Refined == Feed!Next \/ UNCHANGED Feed!vars
<1> SUFFICES Refined
  OBVIOUS
<1>1. CASE UNCHANGED <<clears, read>>
  BY <1>1 DEF Feed!vars
<1>2. CASE UNCHANGED vars \/ Tick
  BY <1>1, <1>2 DEF vars, feed, Tick
<1>3. ASSUME NEW k \in Keys, NEW at \in 0..now, NEW d \in Durations, CreateWAFEvent(k, at, d)
      PROVE  Refined
  BY <1>1, <1>3 DEF CreateWAFEvent, feed
<1>4. ASSUME NEW e \in unprojected, ProjectDynamicBanEvent(e) \/ LoseProjection(e)
      PROVE  Refined
  BY <1>1, <1>4 DEF ProjectDynamicBanEvent, LoseProjection, feed
<1>5. ASSUME NEW t \in Targets, ClearInMemory(t) PROVE Refined
  <2>1. PICK early \in MetBeforeActive(t) :
          clears' = clears \cup Rows(BansOf(t), t, revision, BansOf(t) \ early)
    BY <1>5 DEF ClearInMemory
  <2> DEFINE rows == Rows(BansOf(t), t, revision, BansOf(t) \ early)
  <2>2. revision \in Nat
    BY DEF TypeInv, TypeOK
  <2>3. BansOf(t) \subseteq Keys
    BY DEF BansOf
  <2>4. \A c \in rows : c.target = t /\ c.revision = revision
    BY <2>2, <2>3, RowsOfOneClear
  <2>5. clears' = clears \cup rows /\ UNCHANGED read
    BY <1>5, <2>1 DEF ClearInMemory, feed
  <2>6. cursor < revision
    BY DEF FeedInv, AllBefore
  <2> HIDE DEF rows
  <2> QED BY <2>2, <2>4, <2>5, <2>6, RecordPublishes DEF Feed!Next
<1>6. ASSUME NEW t \in Targets, NEW p \in Requests, BeginClear(p, t) PROVE Refined
  BY <1>1, <1>6 DEF BeginClear, feed
<1>7. ASSUME NEW p \in Requests, UpdateBans(p) \/ InsertClears(p) \/ AbortClear(p)
      PROVE  Refined
  BY <1>1, <1>7 DEF UpdateBans, InsertClears, AbortClear, feed
<1>8. ASSUME NEW p \in Requests, Commit(p) PROVE Refined
  <2>1. tx[p].phase = "commit" /\ clears' = clears \cup tx[p].rows /\ UNCHANGED read
    BY <1>8 DEF Commit, Step, feed
  <2>2. ClearUnderWay(p) /\ tx[p].target \in Targets
    BY <2>1 DEF FeedInv, TypeInv, TxInv
  <2>3. tx[p].revision \in Nat
    BY DEF TypeInv, TypeOK, TxState
  <2> QED BY <2>1, <2>2, <2>3, RecordPublishes DEF ClearUnderWay, AllBefore, Feed!Next
<1>9. CASE Poll
  <2>1. UNCHANGED clears
    BY <1>9 DEF Poll
  <2>2. /\ read \subseteq read' /\ read' \subseteq Published
        /\ \A d \in read' : d[2] <= cursor'
        /\ cursor' \in Nat
    BY <1>9, PollKeepsOrder
  <2>3. \A c \in Published \ read' : c[2] \in Nat /\ c[2] > cursor'
    <3>1. \A c \in clears : c.revision \in Nat
      BY DEF TypeInv, TypeOK, Clear
    <3>2. \A c \in clears : c.revision <= cursor' => Released(c) \in read'
      BY <1>9, PollKeepsOrder
    <3> QED BY <2>2, <3>1, <3>2 DEF Published, Released
  <2>4. \A d \in read' : d[2] \in Nat
    BY <2>2 DEF Published, Released, TypeInv, TypeOK, Clear
  <2>5. \A a \in read', c \in Published \ read' : a[2] < c[2]
    BY <2>2, <2>3, <2>4
  <2> QED BY <2>1, <2>2, <2>5
          DEF Feed!Next, Feed!Deliver, Feed!Before, Feed!Revision, Published
<1>10. CASE Restart
  <2>1. backend = "postgres"
    BY <1>10, BanFeedAssumption DEF Restart, Fault, FeedInv, TypeInv, TypeOK
  <2> QED BY <1>1, <1>10, <2>1 DEF Restart, feed
<1> QED BY <1>2, <1>3, <1>4, <1>5, <1>6, <1>7, <1>8, <1>9, <1>10 DEF Next, ClearDynamicBan

\* With one unban at a time, and no restart of a memory store, the store and the
\* Gateway's polling implement the abstract feed.
THEOREM Implementation == ASSUME SerialClears PROVE Spec => ImplementsClearFeed
<1>1. Init => Feed!Init
  BY DEF Init, Feed!Init
<1>2. TypeInv /\ TypeInv' /\ FeedInv /\ [Next]_vars => FeedInv'
  BY FeedStep
<1>3. TypeInv /\ FeedInv /\ FeedInv' /\ [Next]_vars => [Feed!Next]_(Feed!vars)
  BY FeedRefines
<1> QED BY <1>1, <1>2, <1>3, FeedInit, TypeInit, TypeStep, PTL
        DEF Spec, ImplementsClearFeed, Feed!Spec

-----------------------------------------------------------------------------
(***************************************************************************)
(* Bans and their clears.  The rows of an unban are there, with the        *)
(* listener of each ban it updated, before the updates show.               *)
(***************************************************************************)
RowOf(k, rows, r, outcome) ==
  \E c \in rows : /\ c.target = Target(k) /\ c.listener = k[2] /\ c.revision = r
                  /\ outcome # "active" => c.status = outcome

ClearHasItsRows(p) ==
  /\ tx[p].phase # "idle" => \A k \in tx[p].cleared : Target(k) = tx[p].target
  /\ tx[p].phase = "commit" =>
       \A k \in tx[p].cleared : RowOf(k, tx[p].rows, tx[p].revision, "cleared")

RowsInv == ClearedBansAreInTheFeed /\ \A p \in Requests : ClearHasItsRows(p)

LEMMA RowsInvAsRows ==
  RowsInv <=> /\ \A k \in Keys : bans[k] # None /\ bans[k].revision > 0 =>
                   RowOf(k, clears, bans[k].revision, bans[k].status)
              /\ \A p \in Requests : ClearHasItsRows(p)
BY DEF RowsInv, ClearedBansAreInTheFeed, RowOf

LEMMA IdleHasItsRows == Idle.phase = "idle" /\ Idle.cleared = {}
BY DEF Idle

LEMMA RowsInit == Init => RowsInv
BY DEF Init, RowsInv, ClearedBansAreInTheFeed, ClearHasItsRows, Idle

LEMMA MoreRows ==
  ASSUME NEW k, NEW rows, NEW more, rows \subseteq more, NEW r, NEW outcome,
         RowOf(k, rows, r, outcome)
  PROVE  RowOf(k, more, r, outcome)
BY DEF RowOf

\* The row of a ban among the rows of its target.
LEMMA RowsHaveEach ==
  ASSUME NEW keys \in SUBSET Keys, NEW t \in Targets, NEW r \in Nat, NEW cleared,
         NEW k \in keys, Target(k) = t
  PROVE  RowOf(k, Rows(keys, t, r, cleared), r, IF k \in cleared THEN "cleared" ELSE "no-op")
<1>1. [target |-> t, listener |-> k[2], revision |-> r,
       status |-> IF k \in cleared THEN "cleared" ELSE "no-op"] \in Rows(keys, t, r, cleared)
  BY DEF Rows
<1> QED BY <1>1 DEF RowOf

LEMMA ProjectKeepsRows ==
  ASSUME TypeInv, RowsInv, NEW e \in Event, Project(e), UNCHANGED <<clears, tx>>
  PROVE  RowsInv'
<1>1. e.key \in Keys
  BY DEF Event
<1>2. \A k \in Keys \ {e.key} : bans'[k] = bans[k]
  BY DEF Project, TypeInv, TypeOK
<1>3. bans'[e.key].status = "active"
  BY <1>1 DEF Project, Projected, TypeInv, TypeOK
<1>4. bans'[e.key].revision > 0 =>
        bans[e.key] # None /\ bans'[e.key].revision = bans[e.key].revision
  BY <1>1 DEF Project, Projected, TypeInv, TypeOK
<1> QED BY <1>2, <1>3, <1>4 DEF RowsInv, ClearedBansAreInTheFeed, ClearHasItsRows, RowOf

LEMMA RowsStep == TypeInv /\ RowsInv /\ [Next]_vars => RowsInv'
<1> SUFFICES ASSUME TypeInv, RowsInv, [Next]_vars PROVE RowsInv'
  OBVIOUS
<1>1. CASE UNCHANGED <<bans, clears, tx>>
  BY <1>1 DEF RowsInv, ClearedBansAreInTheFeed, ClearHasItsRows, RowOf
<1>2. CASE UNCHANGED vars \/ Tick \/ Poll
  BY <1>1, <1>2 DEF vars, Tick, Poll
<1>3. ASSUME NEW k \in Keys, NEW at \in 0..now, NEW d \in Durations, CreateWAFEvent(k, at, d)
      PROVE  RowsInv'
  <2> DEFINE e == [id |-> events + 1, key |-> k, at |-> at, remaining |-> d]
  <2>1. e \in Event
    BY BanFeedAssumption DEF Event, TypeInv, TypeOK
  <2>2. UNCHANGED <<clears, tx>> /\ (Project(e) \/ UNCHANGED bans)
    BY <1>3 DEF CreateWAFEvent
  <2> HIDE DEF e
  <2> QED BY <1>1, <2>1, <2>2, ProjectKeepsRows
<1>4. ASSUME NEW e \in unprojected, ProjectDynamicBanEvent(e) PROVE RowsInv'
  <2>1. e \in Event
    BY DEF TypeInv, TypeOK
  <2> QED BY <1>4, <2>1, ProjectKeepsRows DEF ProjectDynamicBanEvent
<1>5. ASSUME NEW e \in unprojected, LoseProjection(e) PROVE RowsInv'
  BY <1>1, <1>5 DEF LoseProjection
<1>6. ASSUME NEW t \in Targets, ClearInMemory(t) PROVE RowsInv'
  <2>1. PICK early \in MetBeforeActive(t) :
          LET cleared == BansOf(t) \ early IN
          /\ bans' = [k \in Keys |->
                        IF k \in BansOf(t)
                        THEN [bans[k] EXCEPT
                                !.status = IF k \in cleared THEN "cleared" ELSE "no-op",
                                !.revision = revision]
                        ELSE bans[k]]
          /\ clears' = clears \cup Rows(BansOf(t), t, revision, cleared)
    BY <1>6 DEF ClearInMemory
  <2> DEFINE cleared == BansOf(t) \ early
             rows == Rows(BansOf(t), t, revision, cleared)
  <2>2. clears' = clears \cup rows /\ UNCHANGED tx
    BY <1>6, <2>1 DEF ClearInMemory
  <2>3. BansOf(t) \subseteq Keys /\ \A k \in BansOf(t) : Target(k) = t /\ bans[k] # None
    BY DEF BansOf
  <2>4. revision \in Nat
    BY DEF TypeInv, TypeOK
  <2>5. ASSUME NEW k \in Keys, bans'[k] # None, bans'[k].revision > 0
        PROVE  RowOf(k, clears', bans'[k].revision, bans'[k].status)
    <3>1. CASE k \in BansOf(t)
      <4>1. RowOf(k, rows, revision, IF k \in cleared THEN "cleared" ELSE "no-op")
        BY <2>3, <2>4, <3>1, RowsHaveEach
      <4>2. bans[k] \in Ban
        BY <2>3, <3>1, BansAreBans DEF TypeInv
      <4>3. /\ bans'[k].revision = revision
            /\ bans'[k].status = IF k \in cleared THEN "cleared" ELSE "no-op"
        BY <2>1, <3>1, <4>2 DEF Ban
      <4> HIDE DEF rows, cleared
      <4> QED BY <2>2, <4>1, <4>3, MoreRows
    <3>2. CASE k \notin BansOf(t)
      <4>1. bans'[k] = bans[k]
        BY <2>1, <3>2
      <4>2. RowOf(k, clears, bans[k].revision, bans[k].status)
        BY <2>5, <4>1, RowsInvAsRows
      <4> HIDE DEF rows
      <4> QED BY <2>2, <4>1, <4>2, MoreRows
    <3> QED BY <3>1, <3>2
  <2> QED BY <2>2, <2>5 DEF RowsInv, ClearedBansAreInTheFeed, RowOf, ClearHasItsRows
<1>7. ASSUME NEW t \in Targets, NEW p \in Requests, BeginClear(p, t) PROVE RowsInv'
  <2> DEFINE begun == [Idle EXCEPT !.phase = "update", !.target = t,
                                   !.revision = revision, !.at = now]
  <2>1. begun.phase = "update" /\ begun.cleared = {}
    BY DEF Idle
  <2>2. tx' = [tx EXCEPT ![p] = begun] /\ UNCHANGED <<bans, clears>>
    BY <1>7 DEF BeginClear, Step
  <2> HIDE DEF begun
  <2>3. tx'[p] = begun /\ \A q \in Requests \ {p} : tx'[q] = tx[q]
    BY <2>2 DEF TypeInv, TypeOK
  <2> QED BY <2>1, <2>2, <2>3 DEF RowsInv, ClearedBansAreInTheFeed, RowOf, ClearHasItsRows
<1>8. ASSUME NEW p \in Requests, UpdateBans(p) PROVE RowsInv'
  <2> DEFINE matched == ActiveBansOf(tx[p].target, tx[p].at)
             updated == [tx[p] EXCEPT !.phase = "insert", !.cleared = matched]
  <2>1. tx' = [tx EXCEPT ![p] = updated] /\ UNCHANGED <<bans, clears>>
    BY <1>8 DEF UpdateBans, Step
  <2>2. \A k \in matched : Target(k) = tx[p].target
    BY DEF ActiveBansOf, BansOf
  <2> HIDE DEF matched
  <2>3. updated.phase = "insert" /\ updated.cleared = matched /\ updated.target = tx[p].target
    BY DEF TypeInv, TypeOK, TxState
  <2> HIDE DEF updated
  <2>4. tx'[p] = updated /\ \A q \in Requests \ {p} : tx'[q] = tx[q]
    BY <2>1 DEF TypeInv, TypeOK
  <2> QED BY <2>1, <2>2, <2>3, <2>4
          DEF RowsInv, ClearedBansAreInTheFeed, RowOf, ClearHasItsRows
<1>9. ASSUME NEW p \in Requests, InsertClears(p) PROVE RowsInv'
  <2> DEFINE keys == BansOf(tx[p].target)
             cleared == IF tx[p].cleared = {} THEN {} ELSE keys
             rows == Rows(keys, tx[p].target, tx[p].revision, cleared)
             inserted == [tx[p] EXCEPT !.phase = "commit", !.rows = rows]
  <2>1. /\ tx' = [tx EXCEPT ![p] = inserted] /\ tx[p].phase = "insert"
        /\ UNCHANGED <<bans, clears>>
    BY <1>9 DEF InsertClears, Step
  <2>2. tx[p].target \in Targets /\ tx[p].revision \in Nat /\ tx[p].cleared \subseteq Keys
    BY <2>1 DEF TypeInv, TxInv, TypeOK, TxState
  <2>3. ASSUME NEW k \in tx[p].cleared
        PROVE  Target(k) = tx[p].target /\ RowOf(k, rows, tx[p].revision, "cleared")
    <3>1. Target(k) = tx[p].target /\ bans[k] # None
      BY <2>1 DEF RowsInv, ClearHasItsRows, TypeInv, TxInv
    <3>2. keys \subseteq Keys /\ k \in keys /\ k \in cleared
      BY <2>2, <3>1 DEF BansOf
    <3> HIDE DEF keys, cleared
    <3> QED BY <2>2, <3>1, <3>2, RowsHaveEach
  <2> HIDE DEF rows
  <2>4. /\ inserted.phase = "commit" /\ inserted.rows = rows
        /\ inserted.cleared = tx[p].cleared /\ inserted.target = tx[p].target
        /\ inserted.revision = tx[p].revision
    BY DEF TypeInv, TypeOK, TxState
  <2> HIDE DEF inserted
  <2>5. tx'[p] = inserted /\ \A q \in Requests \ {p} : tx'[q] = tx[q]
    BY <2>1 DEF TypeInv, TypeOK
  <2>6. ClearHasItsRows(p)'
    BY <2>3, <2>4, <2>5 DEF ClearHasItsRows
  <2>7. \A q \in Requests \ {p} : ClearHasItsRows(q)'
    BY <2>5 DEF RowsInv, ClearHasItsRows
  <2>8. ClearedBansAreInTheFeed'
    BY <2>1 DEF RowsInv, ClearedBansAreInTheFeed
  <2> QED BY <2>6, <2>7, <2>8 DEF RowsInv
<1>10. ASSUME NEW p \in Requests, Commit(p) PROVE RowsInv'
  <2>1. /\ tx[p].phase = "commit"
        /\ tx' = [tx EXCEPT ![p] = Idle]
        /\ clears' = clears \cup tx[p].rows
        /\ bans' = [k \in Keys |->
                      IF k \in tx[p].cleared
                      THEN [bans[k] EXCEPT !.status = "cleared", !.revision = tx[p].revision]
                      ELSE bans[k]]
    BY <1>10 DEF Commit, Step
  <2>2. clears \subseteq clears' /\ tx[p].rows \subseteq clears'
    BY <2>1
  <2>3. ASSUME NEW k \in Keys, bans'[k] # None, bans'[k].revision > 0
        PROVE  RowOf(k, clears', bans'[k].revision, bans'[k].status)
    <3>1. CASE k \in tx[p].cleared
      <4>1. RowOf(k, tx[p].rows, tx[p].revision, "cleared")
        BY <2>1, <3>1 DEF RowsInv, ClearHasItsRows
      <4>2. bans[k] \in Ban
        BY <3>1, BansAreBans DEF TypeInv, TxInv
      <4>3. bans'[k].revision = tx[p].revision /\ bans'[k].status = "cleared"
        BY <2>1, <3>1, <4>2 DEF Ban
      <4> QED BY <2>2, <4>1, <4>3, MoreRows
    <3>2. CASE k \notin tx[p].cleared
      <4>1. bans'[k] = bans[k]
        BY <2>1, <3>2
      <4>2. RowOf(k, clears, bans[k].revision, bans[k].status)
        BY <2>3, <4>1, RowsInvAsRows
      <4> QED BY <2>2, <4>1, <4>2, MoreRows
    <3> QED BY <3>1, <3>2
  <2>4. tx'[p] = Idle /\ \A q \in Requests \ {p} : tx'[q] = tx[q]
    BY <2>1 DEF TypeInv, TypeOK
  <2>5. \A q \in Requests : ClearHasItsRows(q)'
    BY <2>4, IdleHasItsRows DEF RowsInv, ClearHasItsRows
  <2> QED BY <2>3, <2>5 DEF RowsInv, ClearedBansAreInTheFeed, RowOf
<1>11. ASSUME NEW p \in Requests, AbortClear(p) PROVE RowsInv'
  <2>1. tx' = [tx EXCEPT ![p] = Idle] /\ UNCHANGED <<bans, clears>>
    BY <1>11 DEF AbortClear
  <2>2. tx'[p] = Idle /\ \A q \in Requests \ {p} : tx'[q] = tx[q]
    BY <2>1 DEF TypeInv, TypeOK
  <2> QED BY <2>1, <2>2, IdleHasItsRows
          DEF RowsInv, ClearedBansAreInTheFeed, RowOf, ClearHasItsRows
<1>12. CASE Restart
  <2>1. \A p \in Requests : tx'[p] = Idle
    BY <1>12 DEF Restart
  <2>2. (\A k \in Keys : bans'[k] = None) \/ UNCHANGED <<bans, clears>>
    BY <1>12 DEF Restart
  <2> QED BY <2>1, <2>2, IdleHasItsRows
          DEF RowsInv, ClearedBansAreInTheFeed, RowOf, ClearHasItsRows
<1> QED BY <1>2, <1>3, <1>4, <1>5, <1>6, <1>7, <1>8, <1>9, <1>10, <1>11, <1>12
        DEF Next, ClearDynamicBan

\* For any number of concurrent unbans, on both stores, the clear of a ban is in
\* the feed under the ban's revision, listener and outcome.
THEOREM FeedHasTheBans == Spec => []ClearedBansAreInTheFeed
<1>1. RowsInv => ClearedBansAreInTheFeed
  BY DEF RowsInv
<1> QED BY <1>1, RowsInit, RowsStep, TypeInit, TypeStep, PTL DEF Spec
=============================================================================

------------------------- MODULE DurableTasksProofs -------------------------
(***************************************************************************)
(* Proofs about DurableTasks, for any number of tasks, processes and       *)
(* workers and any durations.                                              *)
(***************************************************************************)
EXTENDS DurableTasks, TLAPS

Table == [Task -> RowType \cup {None}]
Tombs == [Task -> TombType \cup {None}]

USE DEF Table, Tombs

\* Dropping rows (_expire_task's DELETE) leaves a table.
LEMMA DropTable ==
  ASSUME NEW rs \in Table, NEW X
  PROVE  Drop(rs, X) \in Table
BY DEF Drop

\* Burying tasks (_expire_task's upsert) leaves a tombstone table.
LEMMA BuryTombs ==
  ASSUME NEW ts \in Tombs, NEW X, NEW reason \in {"expired", "evicted"},
         NEW now \in Nat
  PROVE  Bury(ts, X, reason, now) \in Tombs
BY DurationAssumption DEF Bury, TombType

\* Only ended rows are chosen for eviction.
LEMMA EvictionsEnded ==
  ASSUME NEW rs \in Table, NEW E \in Evictions(rs)
  PROVE  \A t \in E : t \in Task /\ rs[t] # None /\ rs[t].status \in Terminal
<1> DEFINE ended == {t \in Task : rs[t] # None /\ rs[t].status \in Terminal}
<1>1. PICK n, f : E \in Oldest({t \in {u \in Task : rs[u] # None} :
                                  rs[t].status \in Terminal}, f, n)
  BY DEF Evictions
<1>2. E \subseteq ended
  BY <1>1 DEF Oldest
<1> QED BY <1>2

\* _maintain leaves well-formed tables, and a row it removes was overdue or
\* had ended.
LEMMA MaintenanceKeeps ==
  ASSUME NEW rs \in Table, NEW ts \in Tombs, NEW now \in Nat,
         NEW m \in Maintenance(rs, ts, now)
  PROVE  /\ m.rows \in Table
         /\ m.tombs \in Tombs
         /\ \A t \in Task :
              \/ m.rows[t] = rs[t]
              \/ /\ m.rows[t] = None
                 /\ rs[t] # None
                 /\ rs[t].created + TTL <= now \/ rs[t].status \in Terminal
<1> DEFINE old == Overdue(rs, now)
           kept == Drop(rs, old)
           lapsed == {t \in Task : ts[t] # None /\ ts[t].expires <= now}
           dead == Bury(Drop(ts, lapsed), old, "expired", now)
<1>1. PICK E \in Evictions(kept) :
        m \in {[rows |-> Drop(kept, E), tombs |-> ts2] :
                  ts2 \in Trimmed(Bury(dead, E, "evicted", now))}
  BY DEF Maintenance
<1>2. PICK ts2 \in Trimmed(Bury(dead, E, "evicted", now)) :
        m = [rows |-> Drop(kept, E), tombs |-> ts2]
  BY <1>1
<1>3. kept \in Table
  BY DropTable
<1>4. m.rows \in Table
  BY <1>2, <1>3, DropTable
<1>5. Drop(ts, lapsed) \in Tombs
  BY DEF Drop
<1>6. Bury(dead, E, "evicted", now) \in Tombs
  BY <1>5, BuryTombs
<1>7. m.tombs \in Tombs
  <2>1. PICK X : ts2 = Drop(Bury(dead, E, "evicted", now), X)
    BY DEF Trimmed
  <2> HIDE DEF dead
  <2>2. ts2 \in Tombs
    BY <1>6, <2>1 DEF Drop
  <2> QED BY <2>2, <1>2
<1>8. ASSUME NEW t \in Task
      PROVE  \/ m.rows[t] = rs[t]
             \/ /\ m.rows[t] = None
                /\ rs[t] # None
                /\ rs[t].created + TTL <= now \/ rs[t].status \in Terminal
  <2>1. m.rows[t] = IF t \in E THEN None ELSE kept[t]
    BY <1>2 DEF Drop
  <2>2. kept[t] = IF t \in old THEN None ELSE rs[t]
    BY DEF Drop
  <2>3. t \in old => rs[t] # None /\ rs[t].created + TTL <= now
    BY DEF Overdue
  <2>4. t \in E => kept[t] # None /\ kept[t].status \in Terminal
    BY <1>1, <1>3, EvictionsEnded
  <2> QED BY <2>1, <2>2, <2>3, <2>4
<1> QED BY <1>4, <1>7, <1>8

-----------------------------------------------------------------------------
(* Type correctness. *)

LEMMA TypeInit == Init => TypeOK
BY DEF Init, TypeOK, UnusedRun, NoReq, RunType, RunPC, ReqType

\* The maintained tables of the current state are well formed.
LEMMA MaintainedTypes ==
  ASSUME TypeOK, NEW now \in Nat, NEW m \in Maintenance(rows, tombs, now)
  PROVE  m.rows \in Table /\ m.tombs \in Tombs
<1>1. rows \in Table /\ tombs \in Tombs
  BY DEF TypeOK
<1> QED BY <1>1, MaintenanceKeeps

\* Destroying an overdue row keeps both tables well formed.
LEMMA DestroyTypes ==
  ASSUME TypeOK, NEW t, Destroy(t)
  PROVE  rows' \in Table /\ tombs' \in Tombs
<1>1. rows \in Table /\ tombs \in Tombs /\ clock \in Nat
  BY DEF TypeOK
<1> QED BY <1>1, DropTable, BuryTombs DEF Destroy

\* The records the steps build from a worker, a request or a row are again of
\* their type.
LEMMA RunRecord ==
  ASSUME NEW run \in RunType, NEW pc \in RunPC
  PROVE  /\ [run EXCEPT !.pc = pc] \in RunType
         /\ \A g \in Nat : [run EXCEPT !.pc = pc, !.grant = g] \in RunType
         /\ \A g \in Nat : [run EXCEPT !.grant = g] \in RunType
         /\ \A b \in BOOLEAN : [run EXCEPT !.pc = pc, !.noLease = b] \in RunType
         /\ \A t \in Task, s \in Server :
              [run EXCEPT !.pc = pc, !.task = t, !.server = s] \in RunType
BY DEF RunType

LEMMA RowRecord ==
  ASSUME NEW row \in RowType, NEW at \in Nat
  PROVE  /\ \A noLease : CancelRow(row, noLease, at) \in RowType
         /\ \A r \in Run, e \in Nat :
              [row EXCEPT !.token = r, !.updated = at, !.expires = e] \in RowType
         /\ \A e \in Nat : [row EXCEPT !.expires = e, !.updated = at] \in RowType
         /\ [row EXCEPT !.token = None, !.expires = 0, !.updated = at] \in RowType
BY DEF RowType, CancelRow, Terminal

LEMMA EndRowRecord ==
  ASSUME NEW row \in RowType, clock \in Nat, NEW status \in Terminal,
         NEW a \in Run \cup {None}
  PROVE  EndRow(row, status, a) \in RowType
BY DEF RowType, EndRow, Terminal

LEMMA RunsUpdated ==
  ASSUME runs \in [Run -> RunType], NEW r \in Run, NEW run \in RunType,
         runs' = [runs EXCEPT ![r] = run]
  PROVE  runs' \in [Run -> RunType]
OBVIOUS

LEMMA RowsUpdated ==
  ASSUME NEW rs \in Table, NEW t, NEW row,
         t \in Task => row \in RowType \cup {None}
  PROVE  [rs EXCEPT ![t] = row] \in Table
OBVIOUS

\* Finishing a worker keeps the workers' records well formed.
LEMMA FinishTypes ==
  ASSUME runs \in [Run -> RunType], NEW r \in Run, Finish(r)
  PROVE  runs' \in [Run -> RunType]
BY RunRecord, RunsUpdated DEF Finish, RunPC

\* Scheduling does too.
LEMMA ScheduleTypes ==
  ASSUME runs \in [Run -> RunType],
         workers \in [Server -> [Task -> Run \cup {None}]],
         NEW s \in Server, NEW t \in Task, Schedule(s, t)
  PROVE  /\ runs' \in [Run -> RunType]
         /\ workers' \in [Server -> [Task -> Run \cup {None}]]
<1>1. CASE UNCHANGED <<runs, workers>>
  BY <1>1
<1>2. CASE \E r \in Run :
             /\ runs' = [runs EXCEPT ![r] = [runs[r] EXCEPT !.pc = "scheduled",
                                             !.task = t, !.server = s]]
             /\ workers' = [workers EXCEPT ![s][t] = r]
  <2>1. PICK r \in Run :
             /\ runs' = [runs EXCEPT ![r] = [runs[r] EXCEPT !.pc = "scheduled",
                                             !.task = t, !.server = s]]
             /\ workers' = [workers EXCEPT ![s][t] = r]
    BY <1>2
  <2>2. [runs[r] EXCEPT !.pc = "scheduled", !.task = t, !.server = s] \in RunType
    BY RunRecord DEF RunPC
  <2>3. runs' \in [Run -> RunType]
    BY <2>1, <2>2, RunsUpdated
  <2> QED BY <2>1, <2>3
<1> QED BY <1>1, <1>2 DEF Schedule

\* An UPDATE of a cancellation, or one of the row a run holds, keeps the table.
LEMMA CancelledTypes ==
  ASSUME rows \in Table, NEW t, NEW noLease, NEW at \in Nat,
         Cancelled(t, noLease, at)
  PROVE  rows' \in Table
<1>1. t \in Task => (IF rows[t] = None THEN rows[t]
                     ELSE CancelRow(rows[t], noLease, at)) \in RowType \cup {None}
  BY RowRecord
<1> QED BY <1>1, RowsUpdated DEF Cancelled

LEMMA EndAsTypes ==
  ASSUME rows \in Table, clock \in Nat, NEW r, NEW status \in Terminal,
         NEW a \in Run \cup {None}, EndAs(r, status, a)
  PROVE  rows' \in Table
<1> DEFINE t == runs[r].task
<1>1. t \in Task => (IF Holds(r) THEN EndRow(rows[t], status, a)
                     ELSE rows[t]) \in RowType \cup {None}
  BY EndRowRecord DEF Holds, Present
<1> QED BY <1>1, RowsUpdated DEF EndAs

\* Every request handler keeps the types.
LEMMA TypeRequest ==
  ASSUME TypeOK, NEW s \in Server, RequestStep(s)
  PROVE  TypeOK'
<1>1. ASSUME NEW k \in Key, NEW q \in Request, CreateInsert(s, k, q)
      PROVE  TypeOK'
  <2>1. PICK m \in Maintenance(rows, tombs, clock) :
          /\ tombs' = m.tombs
          /\ \/ /\ rows' = m.rows
                /\ reqs' = [reqs EXCEPT ![s] =
                     [op |-> "create", task |-> None, key |-> k, request |-> q,
                      noLease |-> FALSE, at |-> clock]]
                /\ UNCHANGED minted
             \/ \E t \in Task \ minted :
                  /\ rows' = [m.rows EXCEPT ![t] = NewRow(k, q, clock)]
                  /\ minted' = minted \cup {t}
                  /\ reqs' = [reqs EXCEPT ![s] =
                       [op |-> "create", task |-> t, key |-> k, request |-> q,
                        noLease |-> FALSE, at |-> clock]]
    BY <1>1 DEF CreateInsert
  <2>2. m.rows \in Table /\ m.tombs \in Tombs
    BY MaintainedTypes DEF TypeOK
  <2>3. NewRow(k, q, clock) \in RowType
    BY DEF NewRow, RowType, TypeOK
  <2>4. rows' \in Table
    <3>1. CASE rows' = m.rows
      BY <3>1, <2>2
    <3>2. CASE \E t \in Task : rows' = [m.rows EXCEPT ![t] = NewRow(k, q, clock)]
      BY <3>2, <2>2, <2>3, RowsUpdated
    <3> QED BY <2>1, <3>1, <3>2
  <2>5. minted' \in SUBSET Task
    BY <2>1 DEF TypeOK
  <2>6. reqs' \in [Server -> ReqType]
    <3>1. \A t \in Task \cup {None} :
            [op |-> "create", task |-> t, key |-> k, request |-> q,
             noLease |-> FALSE, at |-> clock] \in ReqType
      BY DEF ReqType, TypeOK
    <3>2. \E t \in Task \cup {None} : reqs' = [reqs EXCEPT ![s] =
            [op |-> "create", task |-> t, key |-> k, request |-> q,
             noLease |-> FALSE, at |-> clock]]
      BY <2>1
    <3> QED BY <3>1, <3>2 DEF TypeOK
  <2> QED BY <1>1, <2>1, <2>2, <2>4, <2>5, <2>6 DEF CreateInsert, TypeOK
<1>2. CASE CreateRefused(s)
  BY <1>2 DEF CreateRefused, TypeOK, NoReq, ReqType
<1>3. ASSUME NEW t \in Task, CreateSettle(s, t)
      PROVE  TypeOK'
  <2>1. PICK m \in Maintenance(rows, tombs, reqs[s].at) :
          /\ tombs' = m.tombs
          /\ \/ /\ rows' = Drop(m.rows, {reqs[s].task})
                /\ UNCHANGED <<runs, workers>>
             \/ /\ rows' = m.rows
                /\ Schedule(s, t)
    BY <1>3 DEF CreateSettle
  <2>2. m.rows \in Table /\ m.tombs \in Tombs
    <3>1. reqs[s].at \in Nat
      BY DEF TypeOK, ReqType
    <3> QED BY <3>1, MaintainedTypes
  <2>3. rows' \in Table
    BY <2>1, <2>2, DropTable
  <2>4. /\ runs' \in [Run -> RunType]
        /\ workers' \in [Server -> [Task -> Run \cup {None}]]
    BY <2>1, ScheduleTypes DEF TypeOK
  <2> QED BY <1>3, <2>1, <2>2, <2>3, <2>4
          DEF CreateSettle, TypeOK, NoReq, ReqType
<1>4. ASSUME NEW t \in Task, RequireFails(s, t)
      PROVE  TypeOK'
  <2>1. rows' \in Table /\ tombs' \in Tombs
    BY <1>4, MaintainedTypes, DestroyTypes DEF RequireFails, TypeOK
  <2> QED BY <1>4, <2>1 DEF RequireFails, TypeOK
<1>5. ASSUME NEW t \in Task, Poll(s, t)
      PROVE  TypeOK'
  BY <1>5, ScheduleTypes DEF Poll, TypeOK
<1>6. ASSUME NEW t \in Task, CancelRead(s, t)
      PROVE  TypeOK'
  <2>1. NoLiveLease(t) \in BOOLEAN
    BY DEF NoLiveLease
  <2>2. reqs' \in [Server -> ReqType]
    BY <1>6, <2>1 DEF CancelRead, TypeOK, NoReq, ReqType
  <2> QED BY <1>6, <2>2 DEF CancelRead, TypeOK
<1>7. CASE CancelWrite(s)
  <2>1. rows' \in Table
    BY <1>7, CancelledTypes DEF CancelWrite, TypeOK, ReqType
  <2> QED BY <1>7, <2>1 DEF CancelWrite, TypeOK, NoReq, ReqType
<1> QED BY <1>1, <1>2, <1>3, <1>4, <1>5, <1>6, <1>7 DEF RequestStep

\* Every step of a worker keeps the types.
LEMMA TypeRun ==
  ASSUME TypeOK, NEW r \in Run, RunStep(r)
  PROVE  TypeOK'
<1> DEFINE t == runs[r].task
<1>t. /\ clock \in Nat /\ rows \in Table /\ tombs \in Tombs
      /\ runs \in [Run -> RunType] /\ runs[r] \in RunType
      /\ clock + Lease \in Nat
  BY DurationAssumption DEF TypeOK
<1>1. CASE Claim(r)
  <2>1. CASE Claimable(t)
    <3>1. t \in Task => [rows[t] EXCEPT !.token = r, !.updated = clock,
                                        !.expires = clock + Lease] \in RowType
      BY <1>t, <2>1, RowRecord DEF Claimable, Present
    <3>2. rows' = [rows EXCEPT ![t] = [rows[t] EXCEPT !.token = r,
                           !.updated = clock, !.expires = clock + Lease]]
      BY <1>1, <2>1 DEF Claim
    <3>3. rows' \in Table
      BY <1>t, <3>1, <3>2, RowsUpdated
    <3>4. runs' \in [Run -> RunType]
      <4>1. runs' = [runs EXCEPT ![r] = [runs[r] EXCEPT !.pc = "claimed",
                                                  !.grant = clock + Lease]]
        BY <1>1, <2>1 DEF Claim
      <4> QED BY <4>1, <1>t, RunRecord, RunsUpdated DEF RunPC
    <3> QED BY <1>1, <2>1, <3>3, <3>4 DEF Claim, TypeOK
  <2>2. CASE ~Claimable(t)
    <3>1. runs' \in [Run -> RunType]
      BY <1>1, <2>2, <1>t, FinishTypes DEF Claim
    <3> QED BY <1>1, <2>2, <3>1 DEF Claim, TypeOK
  <2> QED BY <2>1, <2>2
<1>2. CASE Begin(r)
  <2>1. rows' \in Table /\ tombs' \in Tombs
    BY <1>2, <1>t, DestroyTypes DEF Begin
  <2>2. NoLiveLease(t) \in BOOLEAN
    BY DEF NoLiveLease
  <2>3. runs' \in [Run -> RunType]
    <3>1. CASE Finish(r)
      BY <3>1, <1>t, FinishTypes
    <3>2. CASE runs' = [runs EXCEPT ![r] = [runs[r] EXCEPT !.pc = "executing"]]
      BY <3>2, <1>t, RunRecord, RunsUpdated DEF RunPC
    <3>3. CASE runs' = [runs EXCEPT ![r] = [runs[r] EXCEPT !.pc = "abandoning",
                                              !.noLease = NoLiveLease(t)]]
      BY <3>3, <2>2, <1>t, RunRecord, RunsUpdated DEF RunPC
    <3> QED BY <1>2, <3>1, <3>2, <3>3 DEF Begin
  <2> QED BY <1>2, <2>1, <2>3 DEF Begin, TypeOK
<1>3. CASE Abandon(r)
  <2>1. rows' \in Table /\ runs' \in [Run -> RunType]
    BY <1>3, <1>t, CancelledTypes, FinishTypes DEF Abandon
  <2> QED BY <1>3, <2>1 DEF Abandon, TypeOK
<1>4. CASE Heartbeat(r)
  <2>1. rows' = [rows EXCEPT ![t] = [rows[t] EXCEPT !.expires = clock + Lease,
                                                    !.updated = clock]]
    BY <1>4 DEF Heartbeat
  <2>2. t \in Task => [rows[t] EXCEPT !.expires = clock + Lease,
                                      !.updated = clock] \in RowType
    BY <1>4, <1>t, RowRecord DEF Heartbeat, Holds, Present
  <2>3. rows' \in Table
    BY <2>1, <2>2, <1>t, RowsUpdated
  <2>4. runs' = [runs EXCEPT ![r] = [runs[r] EXCEPT !.grant = clock + Lease]]
    BY <1>4 DEF Heartbeat
  <2>5. runs' \in [Run -> RunType]
    <3>1. [runs[r] EXCEPT !.grant = clock + Lease] \in RunType
      BY <1>t, RunRecord DEF RunPC
    <3> QED BY <3>1, <2>4, <1>t, RunsUpdated
  <2> QED BY <1>4, <2>3, <2>5 DEF Heartbeat, TypeOK
<1>5. CASE ExecutorReturns(r)
  <2>1. rows' \in Table /\ tombs' \in Tombs
    BY <1>5, <1>t, DestroyTypes DEF ExecutorReturns
  <2>2. runs' \in [Run -> RunType]
    <3>1. CASE Finish(r)
      BY <3>1, <1>t, FinishTypes
    <3>2. CASE \E pc \in RunPC : runs' = [runs EXCEPT ![r] = [runs[r] EXCEPT !.pc = pc]]
      BY <3>2, <1>t, RunRecord, RunsUpdated
    <3> QED BY <1>5, <3>1, <3>2 DEF ExecutorReturns, RunPC
  <2> QED BY <1>5, <2>1, <2>2 DEF ExecutorReturns, TypeOK
<1>6. CASE Settle(r)
  <2>1. rows' \in Table /\ runs' \in [Run -> RunType]
    BY <1>6, <1>t, EndAsTypes, FinishTypes DEF Settle, Terminal
  <2> QED BY <1>6, <2>1 DEF Settle, TypeOK
<1>7. CASE ExecutorRaises(r)
  <2>1. rows' \in Table /\ runs' \in [Run -> RunType]
    BY <1>7, <1>t, EndAsTypes, FinishTypes DEF ExecutorRaises, Terminal
  <2> QED BY <1>7, <2>1 DEF ExecutorRaises, TypeOK
<1>8. CASE Release(r)
  <2>1. t \in Task => (IF Holds(r)
                       THEN [rows[t] EXCEPT !.token = None, !.expires = 0,
                                            !.updated = clock]
                       ELSE rows[t]) \in RowType \cup {None}
    BY <1>t, RowRecord DEF Holds, Present
  <2>2. rows' \in Table /\ runs' \in [Run -> RunType]
    BY <1>8, <2>1, <1>t, RowsUpdated, FinishTypes DEF Release
  <2> QED BY <1>8, <2>2 DEF Release, TypeOK
<1>9. CASE DoneCallback(r)
  <2>1. runs' \in [Run -> RunType]
    BY <1>9, <1>t, RunRecord, RunsUpdated DEF DoneCallback, RunPC
  <2> QED BY <1>9, <2>1 DEF DoneCallback, TypeOK
<1> QED BY <1>1, <1>2, <1>3, <1>4, <1>5, <1>6, <1>7, <1>8, <1>9 DEF RunStep

LEMMA TypeStep == TypeOK /\ [Next]_vars => TypeOK'
<1> SUFFICES ASSUME TypeOK, [Next]_vars PROVE TypeOK'
  OBVIOUS
<1>1. CASE Tick
  BY <1>1 DEF Tick, TypeOK
<1>2. ASSUME NEW s \in Server, Restart(s) PROVE TypeOK'
  <2>1. rows' \in Table /\ tombs' \in Tombs
    BY <1>2, MaintainedTypes DEF Restart, TypeOK
  <2>2. runs' \in [Run -> RunType]
    <3>1. \A r \in Run : [runs[r] EXCEPT !.pc = "gone"] \in RunType
      BY RunRecord DEF TypeOK, RunPC
    <3> QED BY <1>2, <3>1 DEF Restart, TypeOK
  <2>3. NoReq \in ReqType
    BY DEF NoReq, ReqType
  <2> QED BY <1>2, <2>1, <2>2, <2>3 DEF Restart, TypeOK
<1>3. CASE UNCHANGED vars
  BY <1>3 DEF vars, TypeOK
<1> QED BY <1>1, <1>2, <1>3, TypeRun, TypeRequest DEF Next

\* The store's and the workers' state is well formed in every reachable state.
THEOREM TypeCorrect == Spec => []TypeOK
BY TypeInit, TypeStep, PTL DEF Spec

-----------------------------------------------------------------------------
(***************************************************************************)
(* Lease exclusion.  LeaseExclusion is not inductive: that no second       *)
(* worker can claim rests on the row still carrying the lease of a worker  *)
(* that is inside its grant (GrantsKept), which rests on a worker's task   *)
(* having been minted, so that no new row ever takes its place (Minted).   *)
(***************************************************************************)

Minted ==
  /\ \A t \in Task : Present(t) => t \in minted
  /\ \A r \in Run : runs[r].pc # "unused" \/ runs[r].server # None =>
       runs[r].task \in minted

InGrant(r) == Active(r) /\ clock < runs[r].grant

\* The row of a worker inside its grant is gone, has ended, or bears its lease.
GrantKept(r) ==
  LET t == runs[r].task
  IN  InGrant(r) => \/ ~Present(t)
                    \/ rows[t].status # "working"
                    \/ rows[t].token = r /\ rows[t].expires = runs[r].grant

GrantsKept == \A r \in Run : GrantKept(r)

LeaseInv == TypeOK /\ Minted /\ GrantsKept /\ LeaseExclusion

\* What a step other than a claim or a heartbeat may do to a row that a worker
\* may know of: remove it, leave its lease alone, end it, or release the lease
\* of a worker that thereby stops.
RowQuiet(t) ==
  \/ rows'[t] = None
  \/ rows'[t] = rows[t]
  \/ /\ rows[t] # None
     /\ \/ rows'[t].status # "working"
        \/ /\ rows'[t].status = rows[t].status
           /\ \/ /\ rows'[t].token = rows[t].token
                 /\ rows'[t].expires = rows[t].expires
              \/ \E r \in Run : rows[t].token = r /\ ~Active(r)'

Quiet ==
  /\ clock' >= clock
  /\ minted \subseteq minted'
  /\ \A r \in Run :
       \/ /\ runs'[r].task = runs[r].task
          /\ runs'[r].server = runs[r].server
          /\ runs'[r].grant = runs[r].grant
          /\ Active(r)' => Active(r)
          /\ runs'[r].pc # "unused" => runs[r].pc # "unused" \/ runs[r].server # None
       \/ ~Active(r)' /\ runs'[r].task \in minted
  /\ \A t \in Task : rows'[t] # None => Present(t) \/ t \in minted'
  /\ \A t \in minted : RowQuiet(t)

\* A quiet step keeps the grants and the exclusion.
LEMMA QuietKeeps ==
  ASSUME LeaseInv, Quiet, TypeOK'
  PROVE  LeaseInv'
<1>1. ASSUME NEW r \in Run, InGrant(r)'
      PROVE  InGrant(r) /\ runs'[r].task = runs[r].task
             /\ runs'[r].grant = runs[r].grant /\ runs[r].task \in minted
  <2>1. runs[r].grant \in Nat /\ clock \in Nat /\ clock' \in Nat
    BY DEF LeaseInv, TypeOK, RunType
  <2>2. Active(r)' /\ clock' < runs'[r].grant
    BY <1>1 DEF InGrant
  <2>3. /\ Active(r) /\ runs'[r].task = runs[r].task
        /\ runs'[r].grant = runs[r].grant
    BY <2>2 DEF Quiet
  <2>4. runs[r].pc # "unused" /\ clock' >= clock
    BY <2>3 DEF Quiet, Active
  <2> QED BY <2>1, <2>2, <2>3, <2>4 DEF InGrant, LeaseInv, Minted
<1>2. GrantsKept'
  <2> SUFFICES ASSUME NEW r \in Run, InGrant(r)' PROVE GrantKept(r)'
    BY DEF GrantsKept, GrantKept
  <2> DEFINE t == runs[r].task
  <2>1. /\ InGrant(r) /\ runs'[r].task = t /\ t \in minted
        /\ runs'[r].grant = runs[r].grant
    BY <1>1
  <2>2. \/ ~Present(t)
        \/ rows[t].status # "working"
        \/ rows[t].token = r /\ rows[t].expires = runs[r].grant
    BY <2>1 DEF LeaseInv, GrantsKept, GrantKept
  <2>3. RowQuiet(t)
    BY <2>1 DEF Quiet
  <2>4. \A u \in Run : u = r => Active(u)'
    BY DEF InGrant
  <2> QED BY <2>1, <2>2, <2>3, <2>4 DEF GrantKept, Present, RowQuiet
<1>3. LeaseExclusion'
  BY <1>1 DEF LeaseExclusion, InGrant, LeaseInv
<1>4. Minted'
  <2>1. \A t \in Task : Present(t)' => t \in minted'
    BY DEF Quiet, LeaseInv, Minted, Present
  <2>2. ASSUME NEW r \in Run, (runs[r].pc # "unused" \/ runs[r].server # None)'
        PROVE  runs'[r].task \in minted'
    BY <2>2 DEF Quiet, LeaseInv, Minted
  <2> QED BY <2>1, <2>2 DEF Minted
<1> QED BY <1>2, <1>3, <1>4 DEF LeaseInv

\* Maintenance, the removal of rows and scheduling are quiet.
LEMMA MaintainedRows ==
  ASSUME TypeOK, NEW now \in Nat, NEW m \in Maintenance(rows, tombs, now)
  PROVE  \A t \in Task : m.rows[t] = None \/ m.rows[t] = rows[t]
BY MaintenanceKeeps DEF TypeOK

LEMMA DestroyQuiet ==
  ASSUME NEW u, Destroy(u)
  PROVE  \A t \in Task : rows'[t] = None \/ rows'[t] = rows[t]
BY DEF Destroy, Drop

\* Scheduling starts a worker on the task and touches no other.
LEMMA ScheduleQuiet ==
  ASSUME TypeOK, NEW s \in Server, NEW t \in Task, Schedule(s, t)
  PROVE  \A r \in Run : \/ runs'[r] = runs[r]
                        \/ /\ runs'[r].pc = "scheduled" /\ runs'[r].task = t
                           /\ runs'[r].server = s /\ runs[r].pc = "unused"
<1>1. CASE UNCHANGED runs
  BY <1>1
<1>2. CASE \E r \in Run :
             /\ runs[r].pc = "unused"
             /\ runs' = [runs EXCEPT ![r] = [runs[r] EXCEPT !.pc = "scheduled",
                                             !.task = t, !.server = s]]
  <2>1. runs \in [Run -> RunType]
    BY DEF TypeOK
  <2> QED BY <1>2, <2>1 DEF RunType
<1> QED BY <1>1, <1>2 DEF Schedule

\* A worker step that is no claim and no heartbeat moves one worker on and
\* leaves every worker's task, process and grant alone.
SameWork ==
  \A u \in Run :
    /\ runs'[u].task = runs[u].task
    /\ runs'[u].server = runs[u].server
    /\ runs'[u].grant = runs[u].grant
    /\ Active(u)' => Active(u)
    /\ runs'[u].pc # "unused" => runs[u].pc # "unused"

LEMMA MovesOn ==
  ASSUME runs \in [Run -> RunType], NEW r \in Run, NEW run \in RunType,
         runs' = [runs EXCEPT ![r] = run],
         run.task = runs[r].task, run.server = runs[r].server,
         run.grant = runs[r].grant, runs[r].pc # "unused",
         run.pc \in {"done", "gone"} \/ Active(r)
  PROVE  SameWork
<1>1. ASSUME NEW u \in Run
      PROVE  /\ runs'[u].task = runs[u].task
             /\ runs'[u].server = runs[u].server
             /\ runs'[u].grant = runs[u].grant
             /\ Active(u)' => Active(u)
             /\ runs'[u].pc # "unused" => runs[u].pc # "unused"
  <2>1. CASE u # r
    <3>1. runs'[u] = runs[u]
      BY <2>1
    <3> QED BY <3>1 DEF Active
  <2>2. CASE u = r
    <3>1. runs'[u] = run
      BY <2>2
    <3> QED BY <2>2, <3>1 DEF Active
  <2> QED BY <2>1, <2>2
<1> QED BY <1>1 DEF SameWork

LEMMA PcMovesOn ==
  ASSUME runs \in [Run -> RunType], NEW r \in Run, NEW pc \in RunPC,
         runs' = [runs EXCEPT ![r] = [runs[r] EXCEPT !.pc = pc]],
         runs[r].pc # "unused", pc \in {"done", "gone"} \/ Active(r)
  PROVE  SameWork /\ runs'[r].pc = pc
<1> DEFINE run == [runs[r] EXCEPT !.pc = pc]
<1>1. run \in RunType /\ run.task = runs[r].task /\ run.server = runs[r].server
      /\ run.grant = runs[r].grant /\ run.pc = pc
  <2>1. runs[r] \in RunType
    OBVIOUS
  <2>2. run \in RunType
    BY <2>1, RunRecord
  <2> QED BY <2>1, <2>2 DEF RunType
<1>2. runs' = [runs EXCEPT ![r] = run]
  OBVIOUS
<1>3. SameWork /\ runs'[r] = run
  <2> HIDE DEF run
  <2> QED BY <1>1, <1>2, MovesOn
<1> QED BY <1>1, <1>3

LEMMA FinishMovesOn ==
  ASSUME runs \in [Run -> RunType], NEW r \in Run, Finish(r),
         runs[r].pc # "unused"
  PROVE  SameWork /\ ~Active(r)'
<1>1. SameWork /\ runs'[r].pc = "done"
  BY PcMovesOn DEF Finish, RunPC
<1> QED BY <1>1 DEF Active

\* An UPDATE of request_cancel ends the row or leaves its lease alone.
LEMMA CancelledQuiet ==
  ASSUME rows \in Table, NEW u, NEW noLease, NEW at \in Nat,
         Cancelled(u, noLease, at)
  PROVE  \A t \in Task : RowQuiet(t) /\ (rows'[t] # None => rows[t] # None)
<1>1. ASSUME NEW t \in Task PROVE RowQuiet(t) /\ (rows'[t] # None => rows[t] # None)
  <2>1. CASE t # u \/ rows[t] = None
    BY <2>1 DEF Cancelled, RowQuiet
  <2>2. CASE t = u /\ rows[t] # None
    <3>1. rows'[t] = CancelRow(rows[t], noLease, at)
      BY <2>2 DEF Cancelled
    <3>2. rows[t] \in RowType
      BY <2>2
    <3>3. \/ rows'[t].status = "cancelled"
          \/ /\ rows'[t].status = rows[t].status
             /\ rows'[t].token = rows[t].token
             /\ rows'[t].expires = rows[t].expires
      BY <3>1, <3>2 DEF CancelRow, RowType
    <3> QED BY <3>3, <2>2 DEF RowQuiet
  <2> QED BY <2>1, <2>2
<1> QED BY <1>1

LEMMA EndAsQuiet ==
  ASSUME rows \in Table, NEW r, NEW status \in Terminal, NEW a,
         EndAs(r, status, a)
  PROVE  \A t \in Task : RowQuiet(t) /\ (rows'[t] # None => rows[t] # None)
<1>1. ASSUME NEW t \in Task PROVE RowQuiet(t) /\ (rows'[t] # None => rows[t] # None)
  <2>1. CASE t # runs[r].task \/ ~Holds(r)
    BY <2>1 DEF EndAs, RowQuiet
  <2>2. CASE t = runs[r].task /\ Holds(r)
    <3>1. rows'[t] = EndRow(rows[t], status, a)
      BY <2>2 DEF EndAs
    <3>2. rows[t] \in RowType /\ rows[t] # None
      BY <2>2 DEF Holds, Present
    <3>3. rows'[t].status = status
      BY <3>1, <3>2 DEF EndRow, RowType
    <3> QED BY <3>2, <3>3 DEF RowQuiet, Terminal
  <2> QED BY <2>1, <2>2
<1> QED BY <1>1

\* What a worker's step other than a claim or a heartbeat does.
RunQuiet ==
  /\ SameWork
  /\ UNCHANGED <<clock, minted>>
  /\ \A t \in Task : RowQuiet(t) /\ (rows'[t] # None => rows[t] # None)

LEMMA RunStepQuiet ==
  ASSUME TypeOK, NEW r \in Run, RunStep(r),
         ~(Claim(r) /\ Claimable(runs[r].task)), ~Heartbeat(r)
  PROVE  RunQuiet
<1> DEFINE t == runs[r].task
<1>t. /\ clock \in Nat /\ rows \in Table /\ runs \in [Run -> RunType]
      /\ runs[r] \in RunType
  BY DEF TypeOK
<1>n. UNCHANGED rows =>
        \A u \in Task : RowQuiet(u) /\ (rows'[u] # None => rows[u] # None)
  BY DEF RowQuiet
<1>d. Destroy(t) =>
        \A u \in Task : RowQuiet(u) /\ (rows'[u] # None => rows[u] # None)
  BY DestroyQuiet DEF RowQuiet
<1>1. CASE Claim(r)
  BY <1>1, <1>t, <1>n, FinishMovesOn DEF Claim, RunQuiet
<1>2. CASE Begin(r)
  <2>1. \A u \in Task : RowQuiet(u) /\ (rows'[u] # None => rows[u] # None)
    BY <1>2, <1>n, <1>d DEF Begin
  <2>2. SameWork
    <3>1. CASE Finish(r)
      BY <3>1, <1>2, <1>t, FinishMovesOn DEF Begin
    <3>2. CASE runs' = [runs EXCEPT ![r] = [runs[r] EXCEPT !.pc = "executing"]]
      BY <3>2, <1>2, <1>t, PcMovesOn DEF Begin, Active, RunPC
    <3>3. CASE runs' = [runs EXCEPT ![r] = [runs[r] EXCEPT !.pc = "abandoning",
                                              !.noLease = NoLiveLease(t)]]
      <4> DEFINE run == [runs[r] EXCEPT !.pc = "abandoning",
                                        !.noLease = NoLiveLease(t)]
      <4>1. NoLiveLease(t) \in BOOLEAN
        BY DEF NoLiveLease
      <4>2. run \in RunType /\ run.task = t /\ run.server = runs[r].server
            /\ run.grant = runs[r].grant
        <5>1. run \in RunType
          BY <1>t, <4>1, RunRecord DEF RunPC
        <5> QED BY <5>1, <1>t DEF RunType
      <4>3. Active(r) /\ runs[r].pc # "unused"
        BY <1>2 DEF Begin, Active
      <4>4. runs' = [runs EXCEPT ![r] = run]
        BY <3>3
      <4> HIDE DEF run
      <4> QED BY <4>2, <4>3, <4>4, <1>t, MovesOn
    <3> QED BY <1>2, <3>1, <3>2, <3>3 DEF Begin
  <2> QED BY <1>2, <2>1, <2>2 DEF Begin, RunQuiet
<1>3. CASE Abandon(r)
  BY <1>3, <1>t, CancelledQuiet, FinishMovesOn DEF Abandon, RunQuiet
<1>5. CASE ExecutorReturns(r)
  <2>1. \A u \in Task : RowQuiet(u) /\ (rows'[u] # None => rows[u] # None)
    BY <1>5, <1>n, <1>d DEF ExecutorReturns
  <2>2. SameWork
    <3>1. CASE Finish(r)
      BY <3>1, <1>5, <1>t, FinishMovesOn DEF ExecutorReturns
    <3>2. ASSUME NEW pc \in RunPC,
                 runs' = [runs EXCEPT ![r] = [runs[r] EXCEPT !.pc = pc]]
          PROVE  SameWork
      BY <3>2, <1>5, <1>t, PcMovesOn DEF ExecutorReturns, Active
    <3> QED BY <1>5, <3>1, <3>2 DEF ExecutorReturns, RunPC
  <2> QED BY <1>5, <2>1, <2>2 DEF ExecutorReturns, RunQuiet
<1>6. CASE Settle(r)
  BY <1>6, <1>t, EndAsQuiet, FinishMovesOn DEF Settle, RunQuiet, Terminal
<1>7. CASE ExecutorRaises(r)
  BY <1>7, <1>t, EndAsQuiet, FinishMovesOn DEF ExecutorRaises, RunQuiet, Terminal
<1>8. CASE Release(r)
  <2>1. SameWork /\ ~Active(r)'
    BY <1>8, <1>t, FinishMovesOn DEF Release
  <2>2. ASSUME NEW u \in Task
        PROVE  RowQuiet(u) /\ (rows'[u] # None => rows[u] # None)
    <3>1. CASE u # t \/ ~Holds(r)
      BY <3>1, <1>8 DEF Release, RowQuiet
    <3>2. CASE u = t /\ Holds(r)
      <4>1. rows'[u] = [rows[u] EXCEPT !.token = None, !.expires = 0,
                                       !.updated = clock]
        BY <1>8, <3>2, <1>t DEF Release
      <4>2. rows[u] \in RowType /\ rows[u] # None /\ rows[u].token = r
        BY <3>2, <1>t DEF Holds, Present
      <4>3. rows'[u].status = rows[u].status
        BY <4>1, <4>2 DEF RowType
      <4> QED BY <4>2, <4>3, <2>1 DEF RowQuiet
    <3> QED BY <3>1, <3>2
  <2> QED BY <1>8, <2>1, <2>2 DEF Release, RunQuiet
<1>9. CASE DoneCallback(r)
  <2>3. SameWork
    BY <1>9, <1>t, PcMovesOn DEF DoneCallback, RunPC
  <2> QED BY <1>9, <2>3, <1>n DEF DoneCallback, RunQuiet
<1> QED BY <1>1, <1>2, <1>3, <1>5, <1>6, <1>7, <1>8, <1>9 DEF RunStep

LEMMA RunQuietIsQuiet == ASSUME TypeOK, RunQuiet PROVE Quiet
<1>1. clock' >= clock
  BY DEF RunQuiet, TypeOK
<1>2. \A t \in minted : RowQuiet(t)
  BY DEF RunQuiet, TypeOK
<1> QED BY <1>1, <1>2 DEF RunQuiet, Quiet, SameWork, Present

\* A step that only removes rows, and perhaps schedules a worker, is quiet.
LEMMA RemovalQuiet ==
  ASSUME TypeOK, Minted, UNCHANGED <<clock, minted>>,
         \A t \in Task : rows'[t] = None \/ rows'[t] = rows[t],
         \/ UNCHANGED runs
         \/ \E s \in Server, t \in minted : Schedule(s, t)
  PROVE  Quiet
<1>1. clock' >= clock /\ minted \subseteq Task
  BY DEF TypeOK
<1>2. ASSUME NEW r \in Run
      PROVE  \/ runs'[r] = runs[r]
             \/ ~Active(r)' /\ runs'[r].task \in minted
  <2>1. CASE UNCHANGED runs
    BY <2>1
  <2>2. CASE \E s \in Server, t \in minted : Schedule(s, t)
    BY <2>2, <1>1, ScheduleQuiet DEF Active
  <2> QED BY <2>1, <2>2
<1>3. ASSUME NEW r \in Run
      PROVE  \/ /\ runs'[r].task = runs[r].task
                /\ runs'[r].server = runs[r].server
                /\ runs'[r].grant = runs[r].grant
                /\ Active(r)' => Active(r)
                /\ runs'[r].pc # "unused" => runs[r].pc # "unused"
             \/ ~Active(r)' /\ runs'[r].task \in minted
  BY <1>2 DEF Active
<1>4. \A t \in Task : RowQuiet(t) /\ (rows'[t] # None => Present(t))
  BY DEF RowQuiet, Present
<1> QED BY <1>1, <1>3, <1>4 DEF Quiet

\* A create that mints a task gives it a new row and touches no minted one.
LEMMA CreateInsertQuiet ==
  ASSUME TypeOK, Minted, NEW s \in Server, NEW k \in Key, NEW q \in Request,
         CreateInsert(s, k, q)
  PROVE  Quiet
<1>1. PICK m \in Maintenance(rows, tombs, clock) :
        \/ rows' = m.rows /\ minted' = minted
        \/ \E t \in Task \ minted :
             /\ rows' = [m.rows EXCEPT ![t] = NewRow(k, q, clock)]
             /\ minted' = minted \cup {t}
  BY DEF CreateInsert
<1>2. \A t \in Task : m.rows[t] = None \/ m.rows[t] = rows[t]
  BY MaintainedRows DEF TypeOK
<1>3. m.rows \in Table
  BY MaintainedTypes DEF TypeOK
<1>4. \A t \in minted : rows'[t] = None \/ rows'[t] = rows[t]
  BY <1>1, <1>2, <1>3 DEF TypeOK
<1>5. \A t \in Task : rows'[t] # None => Present(t) \/ t \in minted'
  BY <1>1, <1>2, <1>3 DEF Present
<1>6. UNCHANGED <<clock, runs>> /\ clock' >= clock /\ minted \subseteq minted'
  BY <1>1 DEF CreateInsert, TypeOK
<1>7. \A t \in minted : RowQuiet(t)
  BY <1>4 DEF RowQuiet
<1> QED BY <1>5, <1>6, <1>7 DEF Quiet, Active

\* Every request handler's step is quiet.
LEMMA RequestQuiet ==
  ASSUME TypeOK, Minted, NEW s \in Server, RequestStep(s)
  PROVE  Quiet
<1>n. UNCHANGED rows => \A t \in Task : rows'[t] = None \/ rows'[t] = rows[t]
  OBVIOUS
<1>1. ASSUME NEW k \in Key, NEW q \in Request, CreateInsert(s, k, q)
      PROVE  Quiet
  BY <1>1, CreateInsertQuiet
<1>2. CASE CreateRefused(s)
  BY <1>2, <1>n, RemovalQuiet DEF CreateRefused
<1>3. ASSUME NEW t \in Task, CreateSettle(s, t)
      PROVE  Quiet
  <2>1. PICK m \in Maintenance(rows, tombs, reqs[s].at) :
          \/ rows' = Drop(m.rows, {reqs[s].task}) /\ UNCHANGED runs
          \/ rows' = m.rows /\ Schedule(s, t)
    BY <1>3 DEF CreateSettle
  <2>2. reqs[s].at \in Nat
    BY DEF TypeOK, ReqType
  <2>3. \A u \in Task : m.rows[u] = None \/ m.rows[u] = rows[u]
    BY <2>2, MaintainedRows
  <2>4. \A u \in Task : rows'[u] = None \/ rows'[u] = rows[u]
    BY <2>1, <2>3 DEF Drop
  <2>5. t \in minted
    BY <1>3 DEF CreateSettle, Minted
  <2>6. UNCHANGED <<clock, minted>>
    BY <1>3 DEF CreateSettle
  <2> QED BY <2>1, <2>4, <2>5, <2>6, RemovalQuiet
<1>4. ASSUME NEW t \in Task, RequireFails(s, t)
      PROVE  Quiet
  <2>1. \A u \in Task : rows'[u] = None \/ rows'[u] = rows[u]
    BY <1>4, DestroyQuiet, MaintainedRows DEF RequireFails, TypeOK
  <2> QED BY <1>4, <2>1, RemovalQuiet DEF RequireFails
<1>5. ASSUME NEW t \in Task, Poll(s, t)
      PROVE  Quiet
  <2>1. t \in minted /\ Schedule(s, t) /\ UNCHANGED <<clock, minted, rows>>
    BY <1>5 DEF Poll, Minted
  <2> QED BY <2>1, <1>n, RemovalQuiet
<1>6. ASSUME NEW t \in Task, CancelRead(s, t)
      PROVE  Quiet
  BY <1>6, <1>n, RemovalQuiet DEF CancelRead
<1>7. CASE CancelWrite(s)
  <2>1. reqs[s].at \in Nat /\ clock \in Nat /\ rows \in Table /\ minted \subseteq Task
    BY DEF TypeOK, ReqType
  <2>2. \A t \in Task : RowQuiet(t) /\ (rows'[t] # None => rows[t] # None)
    BY <1>7, <2>1, CancelledQuiet DEF CancelWrite
  <2>3. UNCHANGED <<clock, minted, runs>> /\ clock' >= clock
    BY <1>7, <2>1 DEF CancelWrite
  <2> QED BY <2>1, <2>2, <2>3 DEF Quiet, Present, Active
<1> QED BY <1>1, <1>2, <1>3, <1>4, <1>5, <1>6, <1>7 DEF RequestStep

\* A restart stops the workers of one process.
LEMMA RestartQuiet ==
  ASSUME TypeOK, Minted, NEW s \in Server, Restart(s)
  PROVE  Quiet
<1>1. \A t \in Task : rows'[t] = None \/ rows'[t] = rows[t]
  BY MaintainedRows DEF Restart, TypeOK
<1>2. ASSUME NEW r \in Run
      PROVE  /\ runs'[r].task = runs[r].task
             /\ runs'[r].server = runs[r].server
             /\ runs'[r].grant = runs[r].grant
             /\ Active(r)' => Active(r)
             /\ runs'[r].pc # "unused" => runs[r].pc # "unused" \/ runs[r].server # None
  <2>1. runs[r] \in RunType /\ s # None
    BY NoneAssumption DEF TypeOK
  <2>2. CASE runs[r].server = s
    <3>1. runs'[r] = [runs[r] EXCEPT !.pc = "gone"]
      BY <2>2 DEF Restart
    <3>2. runs'[r].pc = "gone" /\ runs'[r].task = runs[r].task
          /\ runs'[r].server = runs[r].server /\ runs'[r].grant = runs[r].grant
      BY <3>1, <2>1 DEF RunType
    <3> QED BY <3>2, <2>1, <2>2 DEF Active
  <2>3. CASE runs[r].server # s
    <3>1. runs'[r] = runs[r]
      BY <2>3 DEF Restart
    <3> QED BY <3>1 DEF Active
  <2> QED BY <2>2, <2>3
<1>3. \A t \in Task : RowQuiet(t) /\ (rows'[t] # None => Present(t))
  BY <1>1 DEF RowQuiet, Present
<1>4. UNCHANGED <<clock, minted>> /\ clock' >= clock /\ minted \subseteq Task
  BY DEF Restart, TypeOK
<1> QED BY <1>2, <1>3, <1>4 DEF Quiet

\* A claim or a heartbeat of a worker is safe when no other worker is inside a
\* grant for the same task.
LEMMA GrantKeeps ==
  ASSUME LeaseInv, TypeOK', NEW r \in Run, runs[r].pc # "unused",
         Present(runs[r].task), UNCHANGED <<clock, minted>>,
         \A u \in Run \ {r} : InGrant(u) => runs[u].task # runs[r].task,
         NEW run, runs' = [runs EXCEPT ![r] = run], run.task = runs[r].task,
         NEW row, rows' = [rows EXCEPT ![runs[r].task] = row],
         row.token = r, row.expires = run.grant
  PROVE  LeaseInv'
<1> DEFINE t == runs[r].task
<1>1. /\ runs \in [Run -> RunType] /\ rows \in Table /\ t \in Task
      /\ t \in minted
  BY DEF LeaseInv, Minted, TypeOK
<1>2. runs'[r] = run /\ rows'[t] = row
  BY <1>1
<1>3. ASSUME NEW u \in Run, u # r PROVE runs'[u] = runs[u]
  BY <1>1, <1>3
<1>4. ASSUME NEW u \in Task, u # t PROVE rows'[u] = rows[u]
  BY <1>1, <1>4
<1>5. ASSUME NEW u \in Run, u # r, InGrant(u)'
      PROVE  InGrant(u) /\ runs[u].task # t /\ runs'[u] = runs[u]
  <2>1. InGrant(u)
    BY <1>3, <1>5 DEF InGrant, Active
  <2> QED BY <2>1, <1>3, <1>5
<1>6. Minted'
  <2>1. ASSUME NEW u \in Task, Present(u)' PROVE u \in minted'
    BY <1>1, <1>4, <2>1 DEF LeaseInv, Minted, Present
  <2>2. ASSUME NEW u \in Run, (runs[u].pc # "unused" \/ runs[u].server # None)'
        PROVE  runs'[u].task \in minted'
    BY <1>1, <1>2, <1>3, <2>2 DEF LeaseInv, Minted
  <2> QED BY <2>1, <2>2 DEF Minted
<1>7. GrantsKept'
  <2> SUFFICES ASSUME NEW u \in Run, InGrant(u)' PROVE GrantKept(u)'
    BY DEF GrantsKept, GrantKept
  <2>1. CASE u = r
    BY <2>1, <1>2 DEF GrantKept
  <2>2. CASE u # r
    <3>1. /\ InGrant(u) /\ runs[u].task # t /\ runs'[u] = runs[u]
          /\ runs[u].task \in Task
      BY <2>2, <1>5 DEF LeaseInv, Minted, TypeOK, InGrant, Active
    <3>2. rows'[runs[u].task] = rows[runs[u].task]
      BY <3>1, <1>4
    <3> QED BY <3>1, <3>2 DEF LeaseInv, GrantsKept, GrantKept, Present
  <2> QED BY <2>1, <2>2
<1>8. LeaseExclusion'
  <2> SUFFICES ASSUME NEW u \in Run, NEW v \in Run, u # v,
                      InGrant(u)', InGrant(v)', runs'[u].task = runs'[v].task
               PROVE  FALSE
    BY DEF LeaseExclusion, InGrant
  <2>1. CASE u = r
    BY <2>1, <1>2, <1>5
  <2>2. CASE v = r
    BY <2>2, <1>2, <1>5
  <2>3. CASE u # r /\ v # r
    BY <2>3, <1>5 DEF LeaseExclusion, InGrant, LeaseInv
  <2> QED BY <2>1, <2>2, <2>3
<1> QED BY <1>6, <1>7, <1>8 DEF LeaseInv

\* A claim succeeds only when no other worker is inside a grant.
LEMMA ClaimKeeps ==
  ASSUME LeaseInv, TypeOK', NEW r \in Run, Claim(r), Claimable(runs[r].task)
  PROVE  LeaseInv'
<1> DEFINE t == runs[r].task
           run == [runs[r] EXCEPT !.pc = "claimed", !.grant = clock + Lease]
           row == [rows[t] EXCEPT !.token = r, !.updated = clock,
                                  !.expires = clock + Lease]
<1>1. /\ runs' = [runs EXCEPT ![r] = run] /\ rows' = [rows EXCEPT ![t] = row]
      /\ UNCHANGED <<clock, minted>> /\ runs[r].pc = "scheduled"
      /\ Present(t) /\ rows[t].status = "working" /\ NoLiveLease(t)
  BY DEF Claim, Claimable
<1>2. runs[r] \in RunType /\ t \in Task
  BY <1>1 DEF LeaseInv, TypeOK, Minted
<1>3. rows[t] \in RowType /\ clock \in Nat
  BY <1>1, <1>2 DEF LeaseInv, TypeOK, Present
<1>4. run.task = t /\ run.grant = clock + Lease
  BY <1>2 DEF RunType
<1>5. row.token = r /\ row.expires = clock + Lease
  BY <1>3 DEF RowType
<1>6. \A u \in Run \ {r} : InGrant(u) => runs[u].task # t
  <2> SUFFICES ASSUME NEW u \in Run, InGrant(u), runs[u].task = t PROVE FALSE
    OBVIOUS
  <2>1. rows[t].token = u /\ rows[t].expires = runs[u].grant
    BY <1>1 DEF LeaseInv, GrantsKept, GrantKept
  <2>2. rows[t].expires <= clock
    BY <1>1, <2>1, NoneAssumption DEF NoLiveLease
  <2>3. runs[u].grant \in Nat /\ clock < runs[u].grant
    BY DEF LeaseInv, TypeOK, RunType, InGrant
  <2> QED BY <2>1, <2>2, <2>3, <1>3
<1> HIDE DEF run, row
<1> QED BY <1>1, <1>4, <1>5, <1>6, GrantKeeps

\* A heartbeat renews a lease that is still this worker's.
LEMMA HeartbeatKeeps ==
  ASSUME LeaseInv, TypeOK', NEW r \in Run, Heartbeat(r)
  PROVE  LeaseInv'
<1> DEFINE t == runs[r].task
           run == [runs[r] EXCEPT !.grant = clock + Lease]
           row == [rows[t] EXCEPT !.expires = clock + Lease, !.updated = clock]
<1>1. /\ runs' = [runs EXCEPT ![r] = run] /\ rows' = [rows EXCEPT ![t] = row]
      /\ UNCHANGED <<clock, minted>> /\ runs[r].pc = "executing"
      /\ Present(t) /\ rows[t].status = "working" /\ rows[t].token = r
  BY DEF Heartbeat, Holds
<1>2. runs[r] \in RunType /\ t \in Task
  BY <1>1 DEF LeaseInv, TypeOK, Minted
<1>3. rows[t] \in RowType /\ clock \in Nat
  BY <1>1, <1>2 DEF LeaseInv, TypeOK, Present
<1>4. run.task = t /\ run.grant = clock + Lease
  BY <1>2 DEF RunType
<1>5. row.token = r /\ row.expires = clock + Lease
  BY <1>1, <1>3 DEF RowType
<1>6. \A u \in Run \ {r} : InGrant(u) => runs[u].task # t
  BY <1>1 DEF LeaseInv, GrantsKept, GrantKept
<1> HIDE DEF run, row
<1> QED BY <1>1, <1>4, <1>5, <1>6, GrantKeeps

LEMMA LeaseInit == Init => LeaseInv
<1> SUFFICES ASSUME Init PROVE LeaseInv
  OBVIOUS
<1>1. \A r \in Run : runs[r].pc = "unused" /\ runs[r].server = None
  BY DEF Init, UnusedRun
<1>2. TypeOK
  BY TypeInit
<1>3. \A t \in Task : ~Present(t)
  BY DEF Init, Present
<1> QED BY <1>1, <1>2, <1>3
        DEF LeaseInv, Minted, GrantsKept, GrantKept, InGrant, LeaseExclusion, Active

LEMMA LeaseStep == LeaseInv /\ [Next]_vars => LeaseInv'
<1> SUFFICES ASSUME LeaseInv, [Next]_vars PROVE LeaseInv'
  OBVIOUS
<1>1. TypeOK /\ Minted /\ TypeOK'
  BY TypeStep DEF LeaseInv
<1>2. CASE Tick
  <2>1. UNCHANGED <<minted, rows, runs>> /\ clock' >= clock
    BY <1>1, <1>2 DEF Tick, TypeOK
  <2>2. Quiet
    BY <2>1 DEF Quiet, RowQuiet, Present, Active
  <2> QED BY <2>2, <1>1, QuietKeeps
<1>3. ASSUME NEW r \in Run, RunStep(r)
      PROVE  LeaseInv'
  <2>1. CASE Claim(r) /\ Claimable(runs[r].task)
    BY <2>1, <1>1, ClaimKeeps
  <2>2. CASE Heartbeat(r)
    BY <2>2, <1>1, HeartbeatKeeps
  <2>3. CASE ~(Claim(r) /\ Claimable(runs[r].task)) /\ ~Heartbeat(r)
    BY <2>3, <1>1, <1>3, RunStepQuiet, RunQuietIsQuiet, QuietKeeps
  <2> QED BY <2>1, <2>2, <2>3
<1>4. ASSUME NEW s \in Server, RequestStep(s)
      PROVE  LeaseInv'
  BY <1>1, <1>4, RequestQuiet, QuietKeeps
<1>5. ASSUME NEW s \in Server, Restart(s)
      PROVE  LeaseInv'
  BY <1>1, <1>5, RestartQuiet, QuietKeeps
<1>6. CASE UNCHANGED vars
  <2>1. UNCHANGED <<clock, minted, rows, runs>> /\ clock' >= clock
    BY <1>1, <1>6 DEF vars, TypeOK
  <2>2. Quiet
    BY <2>1 DEF Quiet, RowQuiet, Present, Active
  <2> QED BY <2>2, <1>1, QuietKeeps
<1> QED BY <1>2, <1>3, <1>4, <1>5, <1>6 DEF Next

\* For any number of processes, workers and tasks and any durations, no two
\* workers of one task are ever both inside the time their lease grants them.
THEOREM LeaseExcludes == Spec => []LeaseExclusion
<1>1. LeaseInv => LeaseExclusion
  BY DEF LeaseInv
<1> QED BY <1>1, LeaseInit, LeaseStep, PTL DEF Spec

-----------------------------------------------------------------------------
(***************************************************************************)
(* Answers.  AnswerFromLastClaim rests on every lease a row carries being  *)
(* that of its last claim: a worker's UPDATE names its own token, so it    *)
(* hits the row only if no other worker has claimed the task since.        *)
(***************************************************************************)

\* What a row says of the worker c that claimed its task last.
Owned(row, c) ==
  /\ row.token # None => row.token = c
  /\ row.status \in {"completed", "failed"} => c # None /\ row.answer = c

OwnedRows == \A t \in Task : Present(t) => Owned(rows[t], lastClaim[t])

AnswerInv == TypeOK /\ OwnedRows

\* The rows after a step that claims nothing.
StillOwned == \A t \in Task : rows'[t] # None => Owned(rows'[t], lastClaim[t])

LEMMA StillOwnedKeeps ==
  ASSUME StillOwned, UNCHANGED lastClaim
  PROVE  OwnedRows'
BY DEF StillOwned, OwnedRows, Present

\* Expiry, eviction and the rollback of a create only remove rows.
LEMMA RemovalOwned ==
  ASSUME OwnedRows, \A t \in Task : rows'[t] = None \/ rows'[t] = rows[t]
  PROVE  StillOwned
BY DEF OwnedRows, StillOwned, Present

\* An UPDATE of request_cancel writes no answer and no lease.
LEMMA CancelledOwned ==
  ASSUME AnswerInv, NEW u, NEW noLease, NEW at \in Nat, Cancelled(u, noLease, at)
  PROVE  StillOwned
<1> SUFFICES ASSUME NEW t \in Task, rows'[t] # None
             PROVE  Owned(rows'[t], lastClaim[t])
  BY DEF StillOwned
<1>1. rows \in Table
  BY DEF AnswerInv, TypeOK
<1>2. CASE t # u \/ rows[t] = None
  BY <1>1, <1>2 DEF Cancelled, AnswerInv, OwnedRows, Present
<1>3. CASE t = u /\ rows[t] # None
  <2>1. rows'[t] = CancelRow(rows[t], noLease, at) /\ rows[t] \in RowType
    BY <1>1, <1>3 DEF Cancelled
  <2>2. Owned(rows[t], lastClaim[t])
    BY <1>3 DEF AnswerInv, OwnedRows, Present
  <2>3. /\ rows'[t].token \in {None, rows[t].token}
        /\ rows'[t].status \in {"cancelled", rows[t].status}
        /\ rows'[t].answer = rows[t].answer
    BY <2>1 DEF CancelRow, RowType
  <2> QED BY <2>2, <2>3 DEF Owned
<1> QED BY <1>2, <1>3

\* complete, fail and cancel_claimed hit the row only with the last claim's token.
LEMMA EndAsOwned ==
  ASSUME AnswerInv, NEW r \in Run, NEW status \in Terminal,
         NEW a \in Run \cup {None}, status # "cancelled" => a = r,
         EndAs(r, status, a)
  PROVE  StillOwned
<1> SUFFICES ASSUME NEW t \in Task, rows'[t] # None
             PROVE  Owned(rows'[t], lastClaim[t])
  BY DEF StillOwned
<1>1. rows \in Table /\ r # None
  BY NoneAssumption DEF AnswerInv, TypeOK
<1>2. CASE t # runs[r].task \/ ~Holds(r)
  BY <1>1, <1>2 DEF EndAs, AnswerInv, OwnedRows, Present
<1>3. CASE t = runs[r].task /\ Holds(r)
  <2>1. /\ rows'[t] = EndRow(rows[t], status, a)
        /\ rows[t] \in RowType /\ rows[t].token = r /\ Present(t)
    BY <1>1, <1>3 DEF EndAs, Holds, Present
  <2>2. lastClaim[t] = r
    BY <1>1, <2>1 DEF AnswerInv, OwnedRows, Owned
  <2>3. rows'[t].token = None /\ rows'[t].status = status /\ rows'[t].answer = a
    BY <2>1 DEF EndRow, RowType
  <2> QED BY <1>1, <2>2, <2>3 DEF Owned
<1> QED BY <1>2, <1>3

\* A step of a worker that claims nothing.
LEMMA RunStepOwned ==
  ASSUME AnswerInv, NEW r \in Run, RunStep(r),
         ~(Claim(r) /\ Claimable(runs[r].task))
  PROVE  StillOwned /\ UNCHANGED lastClaim
<1> DEFINE t == runs[r].task
<1>t. clock \in Nat /\ rows \in Table /\ OwnedRows
  BY DEF AnswerInv, TypeOK
<1>n. UNCHANGED rows => StillOwned
  BY <1>t, RemovalOwned
<1>d. Destroy(t) => StillOwned
  BY <1>t, DestroyQuiet, RemovalOwned
\* A step that writes no answer, and no lease unless the row has it already.
<1>w. ASSUME NEW row, rows' = [rows EXCEPT ![t] = row], Present(t),
             t \in Task => /\ row.token \in {None, rows[t].token}
                           /\ row.status = rows[t].status
                           /\ row.answer = rows[t].answer
      PROVE  StillOwned
  <2> SUFFICES ASSUME NEW u \in Task, rows'[u] # None
               PROVE  Owned(rows'[u], lastClaim[u])
    BY DEF StillOwned
  <2>1. CASE u = t
    BY <2>1, <1>t, <1>w DEF OwnedRows, Owned
  <2>2. CASE u # t
    BY <2>2, <1>t, <1>w DEF OwnedRows, Present
  <2> QED BY <2>1, <2>2
<1>1. CASE Claim(r)
  BY <1>1, <1>n DEF Claim
<1>2. CASE Begin(r)
  BY <1>2, <1>n, <1>d DEF Begin
<1>3. CASE Abandon(r)
  BY <1>3, <1>t, CancelledOwned DEF Abandon
<1>4. CASE Heartbeat(r)
  <2> DEFINE row == [rows[t] EXCEPT !.expires = clock + Lease, !.updated = clock]
  <2>1. rows' = [rows EXCEPT ![t] = row] /\ Present(t) /\ UNCHANGED lastClaim
    BY <1>4 DEF Heartbeat, Holds
  <2>2. t \in Task => rows[t] \in RowType
    BY <1>t, <2>1 DEF Present
  <2>3. t \in Task => /\ row.token = rows[t].token
                      /\ row.status = rows[t].status
                      /\ row.answer = rows[t].answer
    BY <2>2 DEF RowType
  <2> HIDE DEF row
  <2> QED BY <2>1, <2>3, <1>w
<1>5. CASE ExecutorReturns(r)
  BY <1>5, <1>n, <1>d DEF ExecutorReturns
<1>6. CASE Settle(r)
  BY <1>6, EndAsOwned DEF Settle, Terminal
<1>7. CASE ExecutorRaises(r)
  BY <1>7, EndAsOwned DEF ExecutorRaises, Terminal
<1>8. CASE Release(r)
  <2>1. CASE ~Holds(r)
    <3>1. \A u \in Task : rows'[u] = rows[u]
      BY <1>8, <2>1, <1>t DEF Release
    <3> QED BY <3>1, <1>8, <1>t, RemovalOwned DEF Release
  <2>2. CASE Holds(r)
    <3> DEFINE row == [rows[t] EXCEPT !.token = None, !.expires = 0, !.updated = clock]
    <3>1. rows' = [rows EXCEPT ![t] = row] /\ Present(t) /\ UNCHANGED lastClaim
      BY <1>8, <2>2 DEF Release, Holds
    <3>2. t \in Task => rows[t] \in RowType
      BY <1>t, <3>1 DEF Present
    <3>3. t \in Task => /\ row.token = None
                        /\ row.status = rows[t].status
                        /\ row.answer = rows[t].answer
      BY <3>2 DEF RowType
    <3> HIDE DEF row
    <3> QED BY <3>1, <3>3, <1>w
  <2> QED BY <2>1, <2>2
<1>9. CASE DoneCallback(r)
  BY <1>9, <1>n DEF DoneCallback
<1> QED BY <1>1, <1>2, <1>3, <1>4, <1>5, <1>6, <1>7, <1>8, <1>9 DEF RunStep

\* A claim writes its own token and becomes the last claim.
LEMMA ClaimOwned ==
  ASSUME AnswerInv, NEW r \in Run, Claim(r), Claimable(runs[r].task)
  PROVE  OwnedRows'
<1> DEFINE t == runs[r].task
<1>1. /\ rows' = [rows EXCEPT ![t].token = r, ![t].updated = clock,
                              ![t].expires = clock + Lease]
      /\ lastClaim' = [lastClaim EXCEPT ![t] = r]
      /\ Present(t) /\ rows[t].status = "working"
  BY DEF Claim, Claimable
<1>2. rows \in Table /\ lastClaim \in [Task -> Run \cup {None}]
  BY DEF AnswerInv, TypeOK
<1> SUFFICES ASSUME NEW u \in Task, Present(u)'
             PROVE  Owned(rows'[u], lastClaim'[u])
  BY DEF OwnedRows
<1>3. CASE u = t
  <2>1. rows[t] \in RowType
    BY <1>1, <1>2, <1>3 DEF Present
  <2>2. rows'[t].token = r /\ rows'[t].status = "working"
    BY <1>1, <1>2, <1>3, <2>1 DEF RowType
  <2>3. lastClaim'[t] = r
    BY <1>1, <1>2, <1>3
  <2> QED BY <1>3, <2>2, <2>3 DEF Owned
<1>4. CASE u # t
  BY <1>1, <1>2, <1>4 DEF AnswerInv, OwnedRows, Present
<1> QED BY <1>3, <1>4

\* A new row carries no lease and no answer; no other request writes either.
LEMMA RequestOwned ==
  ASSUME AnswerInv, NEW s \in Server, RequestStep(s)
  PROVE  StillOwned /\ UNCHANGED lastClaim
<1>t. /\ TypeOK /\ OwnedRows /\ rows \in Table
      /\ clock \in Nat /\ reqs[s].at \in Nat
  BY DEF AnswerInv, TypeOK, ReqType
<1>n. UNCHANGED rows => StillOwned
  BY <1>t, RemovalOwned
<1>1. ASSUME NEW k \in Key, NEW q \in Request, CreateInsert(s, k, q)
      PROVE  StillOwned /\ UNCHANGED lastClaim
  <2>1. PICK m \in Maintenance(rows, tombs, clock) :
          \/ rows' = m.rows
          \/ \E t \in Task : rows' = [m.rows EXCEPT ![t] = NewRow(k, q, clock)]
    BY <1>1 DEF CreateInsert
  <2>2. \A t \in Task : m.rows[t] = None \/ m.rows[t] = rows[t]
    BY <1>t, MaintainedRows
  <2>3. CASE rows' = m.rows
    BY <1>1, <1>t, <2>2, <2>3, RemovalOwned DEF CreateInsert
  <2>4. ASSUME NEW t \in Task, rows' = [m.rows EXCEPT ![t] = NewRow(k, q, clock)]
        PROVE  StillOwned
    <3> SUFFICES ASSUME NEW u \in Task, rows'[u] # None
                 PROVE  Owned(rows'[u], lastClaim[u])
      BY DEF StillOwned
    <3>1. m.rows \in Table
      BY <1>t, MaintainedTypes
    <3>2. CASE u = t
      BY <2>4, <3>1, <3>2 DEF NewRow, Owned
    <3>3. CASE u # t
      BY <1>t, <2>2, <2>4, <3>1, <3>3 DEF OwnedRows, Present
    <3> QED BY <3>2, <3>3
  <2> QED BY <1>1, <2>1, <2>3, <2>4 DEF CreateInsert
<1>2. CASE CreateRefused(s)
  BY <1>2, <1>n DEF CreateRefused
<1>3. ASSUME NEW t \in Task, CreateSettle(s, t)
      PROVE  StillOwned /\ UNCHANGED lastClaim
  <2>1. PICK m \in Maintenance(rows, tombs, reqs[s].at) :
          rows' = Drop(m.rows, {reqs[s].task}) \/ rows' = m.rows
    BY <1>3 DEF CreateSettle
  <2>2. \A u \in Task : rows'[u] = None \/ rows'[u] = rows[u]
    BY <1>t, <2>1, MaintainedRows DEF Drop
  <2> QED BY <1>3, <1>t, <2>2, RemovalOwned DEF CreateSettle
<1>4. ASSUME NEW t \in Task, RequireFails(s, t)
      PROVE  StillOwned /\ UNCHANGED lastClaim
  <2>1. \A u \in Task : rows'[u] = None \/ rows'[u] = rows[u]
    BY <1>4, <1>t, DestroyQuiet, MaintainedRows DEF RequireFails
  <2> QED BY <1>4, <1>t, <2>1, RemovalOwned DEF RequireFails
<1>5. ASSUME NEW t \in Task, Poll(s, t)
      PROVE  StillOwned /\ UNCHANGED lastClaim
  BY <1>5, <1>n DEF Poll
<1>6. ASSUME NEW t \in Task, CancelRead(s, t)
      PROVE  StillOwned /\ UNCHANGED lastClaim
  BY <1>6, <1>n DEF CancelRead
<1>7. CASE CancelWrite(s)
  BY <1>7, <1>t, CancelledOwned DEF CancelWrite
<1> QED BY <1>1, <1>2, <1>3, <1>4, <1>5, <1>6, <1>7 DEF RequestStep

LEMMA AnswerInit == Init => AnswerInv
BY TypeInit DEF Init, AnswerInv, OwnedRows, Present

LEMMA AnswerStep == AnswerInv /\ [Next]_vars => AnswerInv'
<1> SUFFICES ASSUME AnswerInv, [Next]_vars PROVE AnswerInv'
  OBVIOUS
<1>1. TypeOK /\ OwnedRows /\ TypeOK'
  BY TypeStep DEF AnswerInv
<1>2. CASE Tick \/ UNCHANGED vars
  BY <1>1, <1>2 DEF Tick, vars, AnswerInv, OwnedRows, Present
<1>3. ASSUME NEW r \in Run, RunStep(r)
      PROVE  AnswerInv'
  <2>1. CASE Claim(r) /\ Claimable(runs[r].task)
    BY <2>1, <1>1, ClaimOwned DEF AnswerInv
  <2>2. CASE ~(Claim(r) /\ Claimable(runs[r].task))
    BY <2>2, <1>1, <1>3, RunStepOwned, StillOwnedKeeps DEF AnswerInv
  <2> QED BY <2>1, <2>2
<1>4. ASSUME NEW s \in Server, RequestStep(s)
      PROVE  AnswerInv'
  BY <1>1, <1>4, RequestOwned, StillOwnedKeeps DEF AnswerInv
<1>5. ASSUME NEW s \in Server, Restart(s)
      PROVE  AnswerInv'
  <2>1. \A t \in Task : rows'[t] = None \/ rows'[t] = rows[t]
    BY <1>1, <1>5, MaintainedRows DEF Restart, TypeOK
  <2> QED BY <1>1, <1>5, <2>1, RemovalOwned, StillOwnedKeeps DEF Restart, AnswerInv
<1> QED BY <1>2, <1>3, <1>4, <1>5 DEF Next

\* For any number of processes, workers and tasks, a finished task holds the
\* answer of the worker that claimed it last: a superseded worker that comes
\* back late never gets its result into the row.
THEOREM AnswersFromLastClaim == Spec => []AnswerFromLastClaim
<1>1. AnswerInv => AnswerFromLastClaim
  BY DEF AnswerInv, OwnedRows, Owned, AnswerFromLastClaim
<1> QED BY <1>1, AnswerInit, AnswerStep, PTL DEF Spec

-----------------------------------------------------------------------------
(***************************************************************************)
(* Cancellation is final.  Every UPDATE of a worker asks for a working     *)
(* row, request_cancel writes no other terminal status, and a create never *)
(* mints the id of a row that is there (Minted).                           *)
(***************************************************************************)

StaysCancelled(t) ==
  Present(t) /\ rows[t].status = "cancelled" /\ rows'[t] # None
  => rows'[t].status = "cancelled"

LEMMA RemovalStays ==
  ASSUME NEW t \in Task, rows'[t] = None \/ rows'[t] = rows[t]
  PROVE  StaysCancelled(t)
BY DEF StaysCancelled

LEMMA CancelledStays ==
  ASSUME TypeOK, NEW u, NEW noLease, NEW at, Cancelled(u, noLease, at), NEW t \in Task
  PROVE  StaysCancelled(t)
<1>1. rows \in Table
  BY DEF TypeOK
<1>2. CASE t # u \/ rows[t] = None
  BY <1>1, <1>2 DEF Cancelled, StaysCancelled, Present
<1>3. CASE t = u /\ rows[t] # None
  <2>1. rows'[t] = CancelRow(rows[t], noLease, at) /\ rows[t] \in RowType
    BY <1>1, <1>3 DEF Cancelled
  <2>2. rows'[t].status \in {"cancelled", rows[t].status}
    BY <2>1 DEF CancelRow, RowType
  <2> QED BY <2>2 DEF StaysCancelled
<1> QED BY <1>2, <1>3

LEMMA EndAsStays ==
  ASSUME TypeOK, NEW r, NEW status, NEW a, EndAs(r, status, a), NEW t \in Task
  PROVE  StaysCancelled(t)
<1>1. rows \in Table
  BY DEF TypeOK
<1> QED BY <1>1 DEF EndAs, Holds, StaysCancelled

LEMMA RunStepStays ==
  ASSUME TypeOK, NEW r \in Run, RunStep(r), NEW t \in Task
  PROVE  StaysCancelled(t)
<1>t. rows \in Table
  BY DEF TypeOK
<1>n. rows' = rows => StaysCancelled(t)
  BY RemovalStays
<1>d. Destroy(runs[r].task) => StaysCancelled(t)
  BY DestroyQuiet, RemovalStays
<1>1. CASE Claim(r)
  <2>1. CASE Claimable(runs[r].task)
    BY <1>t, <1>1, <2>1 DEF Claim, Claimable, StaysCancelled
  <2>2. CASE ~Claimable(runs[r].task)
    BY <1>1, <2>2, <1>n DEF Claim
  <2> QED BY <2>1, <2>2
<1>2. CASE Begin(r)
  BY <1>2, <1>n, <1>d DEF Begin
<1>3. CASE Abandon(r)
  BY <1>3, CancelledStays DEF Abandon
<1>4. CASE Heartbeat(r)
  BY <1>t, <1>4 DEF Heartbeat, Holds, StaysCancelled
<1>5. CASE ExecutorReturns(r)
  BY <1>5, <1>n, <1>d DEF ExecutorReturns
<1>6. CASE Settle(r)
  BY <1>6, EndAsStays DEF Settle
<1>7. CASE ExecutorRaises(r)
  BY <1>7, EndAsStays DEF ExecutorRaises
<1>8. CASE Release(r)
  BY <1>t, <1>8 DEF Release, Holds, StaysCancelled
<1>9. CASE DoneCallback(r)
  BY <1>9, <1>n DEF DoneCallback
<1> QED BY <1>1, <1>2, <1>3, <1>4, <1>5, <1>6, <1>7, <1>8, <1>9 DEF RunStep

LEMMA RequestStays ==
  ASSUME TypeOK, Minted, NEW s \in Server, RequestStep(s), NEW t \in Task
  PROVE  StaysCancelled(t)
<1>t. clock \in Nat /\ reqs[s].at \in Nat
  BY DEF TypeOK, ReqType
<1>n. rows' = rows => StaysCancelled(t)
  BY RemovalStays
<1>1. ASSUME NEW k \in Key, NEW q \in Request, CreateInsert(s, k, q)
      PROVE  StaysCancelled(t)
  <2>1. PICK m \in Maintenance(rows, tombs, clock) :
          \/ rows' = m.rows
          \/ \E u \in Task \ minted : rows' = [m.rows EXCEPT ![u] = NewRow(k, q, clock)]
    BY <1>1 DEF CreateInsert
  <2>2. m.rows[t] = None \/ m.rows[t] = rows[t]
    BY <1>t, MaintainedRows
  <2>3. CASE rows' = m.rows
    BY <2>2, <2>3, RemovalStays
  <2>4. ASSUME NEW u \in Task \ minted,
               rows' = [m.rows EXCEPT ![u] = NewRow(k, q, clock)]
        PROVE  StaysCancelled(t)
    <3>1. m.rows \in Table
      BY <1>t, MaintainedTypes
    <3>2. CASE u = t
      BY <3>2 DEF Minted, StaysCancelled
    <3>3. CASE u # t
      BY <2>2, <2>4, <3>1, <3>3, RemovalStays
    <3> QED BY <3>2, <3>3
  <2> QED BY <2>1, <2>3, <2>4
<1>2. CASE CreateRefused(s)
  BY <1>2, <1>n DEF CreateRefused
<1>3. ASSUME NEW u \in Task, CreateSettle(s, u)
      PROVE  StaysCancelled(t)
  <2>1. PICK m \in Maintenance(rows, tombs, reqs[s].at) :
          rows' = Drop(m.rows, {reqs[s].task}) \/ rows' = m.rows
    BY <1>3 DEF CreateSettle
  <2> QED BY <1>t, <2>1, MaintainedRows, RemovalStays DEF Drop
<1>4. ASSUME NEW u \in Task, RequireFails(s, u)
      PROVE  StaysCancelled(t)
  BY <1>4, <1>t, DestroyQuiet, MaintainedRows, RemovalStays DEF RequireFails
<1>5. ASSUME NEW u \in Task, Poll(s, u)
      PROVE  StaysCancelled(t)
  BY <1>5, <1>n DEF Poll
<1>6. ASSUME NEW u \in Task, CancelRead(s, u)
      PROVE  StaysCancelled(t)
  BY <1>6, <1>n DEF CancelRead
<1>7. CASE CancelWrite(s)
  BY <1>7, CancelledStays DEF CancelWrite
<1> QED BY <1>1, <1>2, <1>3, <1>4, <1>5, <1>6, <1>7 DEF RequestStep

LEMMA StepStays ==
  ASSUME TypeOK, Minted, [Next]_vars, NEW t \in Task
  PROVE  StaysCancelled(t)
<1>1. CASE Tick \/ UNCHANGED vars
  BY <1>1, RemovalStays DEF Tick, vars
<1>2. ASSUME NEW r \in Run, RunStep(r) PROVE StaysCancelled(t)
  BY <1>2, RunStepStays
<1>3. ASSUME NEW s \in Server, RequestStep(s) PROVE StaysCancelled(t)
  BY <1>3, RequestStays
<1>4. ASSUME NEW s \in Server, Restart(s) PROVE StaysCancelled(t)
  <2>1. rows'[t] = None \/ rows'[t] = rows[t]
    BY <1>4, MaintainedRows DEF Restart, TypeOK
  <2> QED BY <2>1, RemovalStays
<1> QED BY <1>1, <1>2, <1>3, <1>4 DEF Next

\* For any number of processes, workers and tasks, a cancelled task stays
\* cancelled until its row is removed.
THEOREM CancellationIsFinal == Spec => CancelledIsFinal
<1> DEFINE Step == \A t \in Task :
             Present(t) /\ rows[t].status = "cancelled" /\ rows'[t] # None
             => rows'[t].status = "cancelled"
<1>1. LeaseInv /\ [Next]_vars => [Step]_vars
  BY StepStays DEF LeaseInv, StaysCancelled
<1>2. [][Step]_vars => CancelledIsFinal
  BY PTL DEF CancelledIsFinal
<1> QED BY <1>1, <1>2, LeaseInit, LeaseStep, PTL DEF Spec

=============================================================================

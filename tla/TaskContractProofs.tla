------------------------- MODULE TaskContractProofs -------------------------
(***************************************************************************)
(* DurableTasks implements TaskContract when several processes share the    *)
(* store, for any number of tasks, processes and workers and any durations; *)
(* and active work is never silently discarded.                            *)
(*                                                                         *)
(* Whatever a step of a process does, its effect on the rows is one of six: *)
(* it removes rows that may go, submits a task, hands a task to a worker,   *)
(* leaves a task's life as it was, ends it or cancels it.  Each of the six  *)
(* is a step of the contract, or none.                                     *)
(***************************************************************************)
EXTENDS DurableTasksProofs

USE DEF Table, Tombs

(***************************************************************************)
(* The inductive invariant.                                                *)
(***************************************************************************)
\* What create_or_get and request_cancel read at their start is in the past.
PastReads == \A s \in Server : reqs[s].at <= clock

\* A task that is still working holds no answer.
Unanswered == \A t \in Task : Present(t) /\ rows[t].status = "working"
                              => rows[t].answer = None

ContractInv == LeaseInv /\ AnswerInv /\ PastReads /\ Unanswered

(***************************************************************************)
(* The effects a step may have.                                            *)
(***************************************************************************)
\* A row may go when it is overdue or has ended, or with the create that
\* inserted it.
MayGo(t) ==
  rows[t] # None =>
    \/ rows[t].created + TTL <= clock
    \/ rows[t].status \in Terminal
    \/ \E s \in Server : reqs[s].op = "create" /\ reqs[s].task = t

Removed(t, row) == row = rows[t] \/ (row = None /\ MayGo(t))

Removes ==
  /\ \A t \in Task : Removed(t, rows'[t])
  /\ UNCHANGED <<minted, lastClaim>>

Submits(t) ==
  /\ t \notin minted
  /\ minted' = minted \cup {t}
  /\ rows'[t] # None /\ rows'[t].status = "working" /\ rows'[t].answer = None
  /\ \A u \in Task \ {t} : Removed(u, rows'[u])
  /\ UNCHANGED lastClaim

Rewrites(t, status, answer) ==
  /\ rows[t] # None
  /\ rows'[t] # None /\ rows'[t].status = status /\ rows'[t].answer = answer
  /\ \A u \in Task \ {t} : rows'[u] = rows[u]
  /\ UNCHANGED minted

Takes(t, r) ==
  /\ Rewrites(t, "working", rows[t].answer)
  /\ rows[t].status = "working"
  /\ lastClaim' = [lastClaim EXCEPT ![t] = r]

Leaves(t) ==
  Rewrites(t, rows[t].status, rows[t].answer) /\ UNCHANGED lastClaim

Ends(t) ==
  /\ \E status \in {"completed", "failed"} : Rewrites(t, status, lastClaim[t])
  /\ rows[t].status = "working" /\ lastClaim[t] # None
  /\ UNCHANGED lastClaim

Cancels(t) ==
  Rewrites(t, "cancelled", rows[t].answer) /\ UNCHANGED lastClaim

\* What leaves every task that stays where it was in its life.
Calm ==
  \/ Removes
  \/ \E t \in Task : Submits(t)
  \/ \E t \in Task, r \in Run : Takes(t, r)
  \/ \E t \in Task : Leaves(t)

Effect == Calm \/ \E t \in Task : Ends(t) \/ Cancels(t)

(***************************************************************************)
(* Each step has one of them.                                              *)
(***************************************************************************)
\* _maintain removes what is overdue or has ended.
LEMMA MaintenanceRemoves ==
  ASSUME TypeOK, NEW now \in Nat, now <= clock, NEW m \in Maintenance(rows, tombs, now)
  PROVE  \A t \in Task : Removed(t, m.rows[t])
<1> SUFFICES ASSUME NEW t \in Task PROVE Removed(t, m.rows[t])
  OBVIOUS
<1>1. rows \in Table /\ tombs \in Tombs /\ clock \in Nat
  BY DEF TypeOK
<1>2. \/ m.rows[t] = rows[t]
      \/ /\ m.rows[t] = None
         /\ rows[t] # None
         /\ rows[t].created + TTL <= now \/ rows[t].status \in Terminal
  BY <1>1, MaintenanceKeeps
<1>3. rows[t] # None => rows[t].created \in Nat
  BY <1>1 DEF RowType
<1>4. TTL \in Nat
  BY DurationAssumption
<1>5. rows[t] # None /\ rows[t].created + TTL <= now => rows[t].created + TTL <= clock
  <2> DEFINE c == rows[t].created
  <2> HIDE DEF c
  <2>1. c \in Nat /\ c + TTL <= now => c + TTL <= clock
    BY <1>1, <1>4
  <2> QED BY <1>3, <2>1 DEF c
<1> QED BY <1>2, <1>5 DEF Removed, MayGo

\* A get that finds its row overdue destroys it and no other.
LEMMA DestroyRemoves ==
  ASSUME NEW u, Destroy(u), IsOverdue(u), UNCHANGED <<minted, lastClaim>>
  PROVE  Calm
<1>1. \A t \in Task : Removed(t, rows'[t])
  BY DEF Destroy, Drop, IsOverdue, Overdue, Removed, MayGo
<1> QED BY <1>1 DEF Calm, Removes

LEMMA SameRowsRemoves ==
  ASSUME UNCHANGED <<rows, minted, lastClaim>>
  PROVE  Calm
BY DEF Calm, Removes, Removed

\* One row is written, the others stay.
LEMMA RowWritten ==
  ASSUME rows \in Table, NEW t \in Task, rows[t] # None, NEW row \in RowType,
         rows' = [rows EXCEPT ![t] = row], UNCHANGED minted
  PROVE  Rewrites(t, row.status, row.answer)
<1>1. rows'[t] = row /\ \A u \in Task \ {t} : rows'[u] = rows[u]
  OBVIOUS
<1>2. row # None
  BY NoneIsNoRecord
<1> QED BY <1>1, <1>2 DEF Rewrites

\* request_cancel's UPDATE cancels the row, or only asks for it.
LEMMA CancelEffect ==
  ASSUME TypeOK, NEW u \in Task \cup {None}, NEW noLease, NEW at \in Nat,
         Cancelled(u, noLease, at), UNCHANGED <<minted, lastClaim>>
  PROVE  Effect
<1>1. rows \in Table
  BY DEF TypeOK
<1>2. CASE u \notin Task \/ rows[u] = None
  <2>1. rows' = rows
    BY <1>1, <1>2 DEF Cancelled
  <2> QED BY <2>1, SameRowsRemoves DEF Effect
<1>3. CASE u \in Task /\ rows[u] # None
  <2> DEFINE row == CancelRow(rows[u], noLease, at)
  <2>1. rows[u] \in RowType
    BY <1>1, <1>3
  <2>2. row \in RowType /\ rows' = [rows EXCEPT ![u] = row]
    BY <1>1, <1>3, <2>1, RowRecord DEF Cancelled
  <2>3. row.answer = rows[u].answer /\ row.status \in {"cancelled", rows[u].status}
    BY <2>1 DEF CancelRow, RowType
  <2> HIDE DEF row
  <2>4. Rewrites(u, row.status, row.answer)
    BY <1>1, <1>3, <2>2, RowWritten
  <2> QED BY <1>3, <2>3, <2>4 DEF Effect, Calm, Leaves, Cancels
<1> QED BY <1>2, <1>3

\* complete, fail and cancel_claimed end a row that is held, and no other.
LEMMA EndAsEffect ==
  ASSUME TypeOK, OwnedRows, Unanswered, NEW r \in Run, NEW status \in Terminal, NEW a,
         EndAs(r, status, a), UNCHANGED <<minted, lastClaim>>,
         \/ status # "cancelled" /\ a = r
         \/ status = "cancelled" /\ a = None
  PROVE  Effect
<1> DEFINE t == runs[r].task
<1>1. rows \in Table /\ runs[r] \in RunType /\ clock \in Nat
  BY DEF TypeOK
<1>2. t \in Task \cup {None}
  BY <1>1 DEF RunType
<1>3. CASE ~Holds(r) \/ t \notin Task
  <2>1. rows' = rows
    BY <1>1, <1>3 DEF EndAs
  <2> QED BY <2>1, SameRowsRemoves DEF Effect
<1>4. CASE Holds(r) /\ t \in Task
  <2> DEFINE row == EndRow(rows[t], status, a)
  <2>1. /\ rows[t] # None /\ rows[t].status = "working" /\ rows[t].token = r
        /\ rows[t] \in RowType
    BY <1>1, <1>4 DEF Holds, Present
  <2>2. row \in RowType /\ row.status = status /\ row.answer = a
    <3>1. a \in Run \cup {None}
      OBVIOUS
    <3>2. row \in RowType
      BY <1>1, <2>1, <3>1, EndRowRecord
    <3>3. row.status = status /\ row.answer = a
      BY <2>1 DEF EndRow, RowType
    <3> QED BY <3>2, <3>3
  <2>3. rows' = [rows EXCEPT ![t] = row]
    BY <1>1, <1>4 DEF EndAs
  <2> HIDE DEF row
  <2>4. Rewrites(t, status, a)
    BY <1>1, <1>4, <2>1, <2>2, <2>3, RowWritten
  <2>5. rows[t].answer = None
    BY <1>4, <2>1 DEF Unanswered, Present
  <2>6. lastClaim[t] = r /\ r # None
    BY <1>4, <2>1, NoneAssumption DEF OwnedRows, Owned, Present
  <2>7. CASE status = "cancelled"
    BY <1>4, <2>4, <2>5, <2>7 DEF Effect, Cancels
  <2>8. CASE status # "cancelled"
    <3>1. status \in {"completed", "failed"} /\ Rewrites(t, status, lastClaim[t])
      BY <2>4, <2>6, <2>8 DEF Terminal
    <3>2. Ends(t)
      BY <2>1, <2>6, <3>1 DEF Ends
    <3> QED BY <1>4, <3>2 DEF Effect
  <2> QED BY <2>7, <2>8
<1> QED BY <1>2, <1>3, <1>4

LEMMA RunStepEffect ==
  ASSUME ContractInv, NEW r \in Run, RunStep(r)
  PROVE  Effect /\ (Calm \/ Abandon(r) \/ Settle(r) \/ ExecutorRaises(r))
<1> DEFINE t == runs[r].task
<1>t. /\ TypeOK /\ OwnedRows /\ Unanswered /\ rows \in Table /\ clock \in Nat
      /\ runs[r] \in RunType /\ t \in Task \cup {None} /\ clock + Lease \in Nat
  BY DurationAssumption DEF ContractInv, AnswerInv, TypeOK, RunType
\* A step that writes the row, but neither its status nor its answer.
<1>w. ASSUME NEW row, rows' = [rows EXCEPT ![t] = row], Present(t), row \in RowType,
             t \in Task => row.status = rows[t].status /\ row.answer = rows[t].answer,
             UNCHANGED minted
      PROVE  /\ t \in Task /\ UNCHANGED lastClaim => Leaves(t)
             /\ t \in Task => Rewrites(t, rows[t].status, rows[t].answer)
             /\ t \notin Task => rows' = rows
  <2>1. t \in Task => Rewrites(t, rows[t].status, rows[t].answer)
    BY <1>t, <1>w, RowWritten DEF Present
  <2>2. t \notin Task => rows' = rows
    BY <1>t, <1>w
  <2> QED BY <2>1, <2>2 DEF Leaves
<1>1. ASSUME Claim(r) PROVE Calm
  <2>1. CASE ~Claimable(t)
    BY <1>1, <2>1, SameRowsRemoves DEF Claim
  <2>2. CASE Claimable(t) /\ t \in Task
    <3> DEFINE row == [rows[t] EXCEPT !.token = r, !.updated = clock,
                                      !.expires = clock + Lease]
    <3>1. /\ rows' = [rows EXCEPT ![t] = row] /\ UNCHANGED minted
          /\ lastClaim' = [lastClaim EXCEPT ![t] = r]
      BY <1>1, <2>2 DEF Claim
    <3>2. rows[t] \in RowType /\ rows[t].status = "working" /\ rows[t] # None
      BY <1>t, <2>2 DEF Claimable, Present
    <3>3. row \in RowType /\ row.status = rows[t].status /\ row.answer = rows[t].answer
      <4>1. row \in RowType
        BY <1>t, <3>2, RowRecord
      <4>2. row.status = rows[t].status /\ row.answer = rows[t].answer
        BY <3>2 DEF RowType
      <4> QED BY <4>1, <4>2
    <3> HIDE DEF row
    <3>4. Rewrites(t, "working", rows[t].answer)
      BY <1>t, <2>2, <3>1, <3>2, <3>3, RowWritten
    <3>5. Takes(t, r)
      BY <3>1, <3>2, <3>4 DEF Takes
    <3> QED BY <2>2, <3>5 DEF Calm
  <2>3. CASE Claimable(t) /\ t \notin Task
    <3>1. rows' = rows /\ UNCHANGED minted
      BY <1>t, <1>1, <2>3 DEF Claim
    <3>2. lastClaim' = lastClaim
      BY <1>t, <1>1, <2>3 DEF Claim, TypeOK
    <3> QED BY <3>1, <3>2, SameRowsRemoves
  <2> QED BY <2>1, <2>2, <2>3
<1>2. ASSUME Begin(r) PROVE Calm
  BY <1>2, SameRowsRemoves, DestroyRemoves DEF Begin
<1>3. ASSUME Abandon(r) PROVE Effect
  BY <1>3, <1>t, CancelEffect DEF Abandon
<1>4. ASSUME Heartbeat(r) PROVE Calm
  <2> DEFINE row == [rows[t] EXCEPT !.expires = clock + Lease, !.updated = clock]
  <2>1. /\ rows' = [rows EXCEPT ![t] = row] /\ Present(t)
        /\ UNCHANGED <<minted, lastClaim>>
    BY <1>4 DEF Heartbeat, Holds
  <2>2. CASE t \in Task
    <3>1. rows[t] \in RowType
      BY <1>t, <2>1, <2>2 DEF Present
    <3>2. row \in RowType
      BY <1>t, <3>1, RowRecord
    <3>3. row.status = rows[t].status /\ row.answer = rows[t].answer
      BY <3>1 DEF RowType
    <3> HIDE DEF row
    <3> QED BY <1>w, <2>1, <2>2, <3>2, <3>3 DEF Calm
  <2>3. CASE t \notin Task
    <3>1. rows' = rows
      BY <1>t, <2>1, <2>3
    <3> QED BY <2>1, <3>1, SameRowsRemoves
  <2> QED BY <2>2, <2>3
<1>5. ASSUME ExecutorReturns(r) PROVE Calm
  BY <1>5, SameRowsRemoves, DestroyRemoves DEF ExecutorReturns
<1>6. ASSUME Settle(r) PROVE Effect
  BY <1>t, <1>6, EndAsEffect DEF Settle, Terminal
<1>7. ASSUME ExecutorRaises(r) PROVE Effect
  BY <1>t, <1>7, EndAsEffect DEF ExecutorRaises, Terminal
<1>8. ASSUME Release(r) PROVE Calm
  <2> DEFINE row == [rows[t] EXCEPT !.token = None, !.expires = 0, !.updated = clock]
  <2>1. UNCHANGED <<minted, lastClaim>>
    BY <1>8 DEF Release
  <2>2. CASE Holds(r) /\ t \in Task
    <3>1. rows' = [rows EXCEPT ![t] = row] /\ Present(t)
      BY <1>8, <2>2 DEF Release, Holds
    <3>2. rows[t] \in RowType
      BY <1>t, <2>2, <3>1 DEF Present
    <3>3. row \in RowType
      BY <1>t, <3>2, RowRecord
    <3>4. row.status = rows[t].status /\ row.answer = rows[t].answer
      BY <3>2 DEF RowType
    <3> HIDE DEF row
    <3> QED BY <1>w, <2>1, <2>2, <3>1, <3>3, <3>4 DEF Calm
  <2>3. CASE ~Holds(r) \/ t \notin Task
    <3>1. rows' = rows
      BY <1>t, <1>8, <2>3 DEF Release
    <3> QED BY <2>1, <3>1, SameRowsRemoves
  <2> QED BY <2>2, <2>3
<1>9. ASSUME DoneCallback(r) PROVE Calm
  BY <1>9, SameRowsRemoves DEF DoneCallback
<1> QED BY <1>1, <1>2, <1>3, <1>4, <1>5, <1>6, <1>7, <1>8, <1>9 DEF RunStep, Effect

LEMMA RequestEffect ==
  ASSUME ContractInv, NEW s \in Server, RequestStep(s)
  PROVE  Effect /\ (Calm \/ CancelWrite(s))
<1>t. /\ TypeOK /\ Minted /\ rows \in Table /\ clock \in Nat /\ reqs[s] \in ReqType
      /\ reqs[s].at \in Nat /\ reqs[s].at <= clock /\ reqs[s].task \in Task \cup {None}
  BY DEF ContractInv, LeaseInv, PastReads, TypeOK, ReqType
<1>1. ASSUME NEW k \in Key, NEW q \in Request, CreateInsert(s, k, q)
      PROVE  Calm
  <2>0. UNCHANGED lastClaim
    BY <1>1 DEF CreateInsert
  <2>1. PICK m \in Maintenance(rows, tombs, clock) :
          \/ rows' = m.rows /\ UNCHANGED minted
          \/ \E t \in Task \ minted : /\ rows' = [m.rows EXCEPT ![t] = NewRow(k, q, clock)]
                                      /\ minted' = minted \cup {t}
    BY <1>1 DEF CreateInsert
  <2>2. \A t \in Task : Removed(t, m.rows[t])
    BY <1>t, MaintenanceRemoves
  <2>3. CASE rows' = m.rows /\ UNCHANGED minted
    BY <2>0, <2>2, <2>3 DEF Calm, Removes
  <2>4. ASSUME NEW t \in Task \ minted, rows' = [m.rows EXCEPT ![t] = NewRow(k, q, clock)],
               minted' = minted \cup {t}
        PROVE  Calm
    <3> DEFINE row == NewRow(k, q, clock)
    <3>1. row # None /\ row.status = "working" /\ row.answer = None
      <4>1. row \in RowType
        BY <1>t DEF NewRow, RowType
      <4>2. row.status = "working" /\ row.answer = None
        BY DEF NewRow
      <4> QED BY <4>1, <4>2, NoneIsNoRecord
    <3>2. m.rows \in Table
      BY <1>t, MaintainedTypes
    <3> HIDE DEF row
    <3>3. rows'[t] = row /\ \A u \in Task \ {t} : rows'[u] = m.rows[u]
      BY <2>4, <3>2 DEF row
    <3>4. Submits(t)
      BY <2>0, <2>2, <2>4, <3>1, <3>3 DEF Submits
    <3> QED BY <3>4 DEF Calm
  <2> QED BY <2>1, <2>3, <2>4
<1>2. ASSUME CreateRefused(s) PROVE Calm
  BY <1>2, SameRowsRemoves DEF CreateRefused
<1>3. ASSUME NEW t \in Task, CreateSettle(s, t)
      PROVE  Calm
  <2>1. PICK m \in Maintenance(rows, tombs, reqs[s].at) :
          rows' = Drop(m.rows, {reqs[s].task}) \/ rows' = m.rows
    BY <1>3 DEF CreateSettle
  <2>2. \A u \in Task : Removed(u, m.rows[u])
    BY <1>t, MaintenanceRemoves
  <2>3. reqs[s].op = "create" /\ UNCHANGED <<minted, lastClaim>>
    BY <1>3 DEF CreateSettle
  <2>4. ASSUME NEW u \in Task PROVE Removed(u, rows'[u])
    <3>1. CASE rows' = m.rows
      BY <2>2, <3>1
    <3>2. CASE rows' = Drop(m.rows, {reqs[s].task}) /\ u # reqs[s].task
      <4>1. rows'[u] = m.rows[u]
        BY <3>2 DEF Drop
      <4> QED BY <2>2, <4>1
    <3>3. CASE rows' = Drop(m.rows, {reqs[s].task}) /\ u = reqs[s].task
      <4>1. rows'[u] = None
        BY <3>3 DEF Drop
      <4> QED BY <2>3, <3>3, <4>1 DEF Removed, MayGo
    <3> QED BY <2>1, <3>1, <3>2, <3>3
  <2> QED BY <2>3, <2>4 DEF Calm, Removes
<1>4. ASSUME NEW t \in Task, RequireFails(s, t)
      PROVE  Calm
  <2>1. UNCHANGED <<minted, lastClaim>>
    BY <1>4 DEF RequireFails
  <2>2. CASE IsOverdue(t) /\ Destroy(t)
    BY <2>1, <2>2, DestroyRemoves
  <2>3. CASE \E m \in Maintenance(rows, tombs, clock) : rows' = m.rows
    BY <1>t, <2>1, <2>3, MaintenanceRemoves DEF Calm, Removes
  <2> QED BY <1>4, <2>2, <2>3 DEF RequireFails
<1>5. ASSUME NEW t \in Task, Poll(s, t)
      PROVE  Calm
  BY <1>5, SameRowsRemoves DEF Poll
<1>6. ASSUME NEW t \in Task, CancelRead(s, t)
      PROVE  Calm
  BY <1>6, SameRowsRemoves DEF CancelRead
<1>7. ASSUME CancelWrite(s) PROVE Effect
  BY <1>7, <1>t, CancelEffect DEF CancelWrite
<1> QED BY <1>1, <1>2, <1>3, <1>4, <1>5, <1>6, <1>7 DEF RequestStep, Effect

LEMMA StepEffect ==
  ASSUME ContractInv, [Next]_vars
  PROVE  Effect
<1>t. TypeOK /\ clock \in Nat
  BY DEF ContractInv, AnswerInv, TypeOK
<1>1. CASE Tick \/ UNCHANGED vars
  BY <1>1, SameRowsRemoves DEF Effect, Tick, vars
<1>2. ASSUME NEW r \in Run, RunStep(r) PROVE Effect
  BY <1>2, RunStepEffect
<1>3. ASSUME NEW s \in Server, RequestStep(s) PROVE Effect
  BY <1>3, RequestEffect
<1>4. ASSUME NEW s \in Server, Restart(s) PROVE Effect
  <2>1. PICK m \in Maintenance(rows, tombs, clock) : rows' = m.rows
    BY <1>4 DEF Restart
  <2>2. \A t \in Task : Removed(t, m.rows[t])
    BY <1>t, MaintenanceRemoves
  <2> QED BY <1>4, <2>1, <2>2 DEF Restart, Effect, Calm, Removes
<1> QED BY <1>1, <1>2, <1>3, <1>4 DEF Next


(***************************************************************************)
(* The invariant.                                                          *)
(***************************************************************************)
LEMMA RemovedUnanswered ==
  ASSUME Unanswered, NEW u \in Task, Removed(u, rows'[u]),
         rows'[u] # None, rows'[u].status = "working"
  PROVE  rows'[u].answer = None
BY DEF Unanswered, Removed, Present

LEMMA UnansweredKeeps ==
  ASSUME Unanswered, Effect
  PROVE  Unanswered'
<1> SUFFICES ASSUME NEW u \in Task, rows'[u] # None, rows'[u].status = "working"
             PROVE  rows'[u].answer = None
  BY DEF Unanswered, Present
<1>1. CASE Removes
  BY <1>1, RemovedUnanswered DEF Removes
<1>2. ASSUME NEW t \in Task, Submits(t) PROVE rows'[u].answer = None
  <2>1. CASE u = t
    BY <1>2, <2>1 DEF Submits
  <2>2. CASE u # t
    <3>1. Removed(u, rows'[u])
      BY <1>2, <2>2 DEF Submits
    <3> QED BY <3>1, RemovedUnanswered
  <2> QED BY <2>1, <2>2
<1>3. ASSUME NEW t \in Task, NEW status, Rewrites(t, status, rows[t].answer),
             status = rows[t].status \/ status \in Terminal
      PROVE  rows'[u].answer = None
  <2>1. "working" \notin Terminal
    BY DEF Terminal
  <2>2. CASE u = t
    BY <1>3, <2>1, <2>2 DEF Rewrites, Unanswered, Present
  <2>3. CASE u # t
    BY <1>3, <2>3 DEF Rewrites, Unanswered, Present
  <2> QED BY <2>2, <2>3
<1>4. ASSUME NEW t \in Task, Ends(t) PROVE rows'[u].answer = None
  <2>1. CASE u = t
    BY <1>4, <2>1 DEF Ends, Rewrites
  <2>2. CASE u # t
    BY <1>4, <2>2 DEF Ends, Rewrites, Unanswered, Present
  <2> QED BY <2>1, <2>2
<1>5. ASSUME NEW t \in Task, NEW r \in Run, Takes(t, r) PROVE rows'[u].answer = None
  BY <1>3, <1>5 DEF Takes
<1>6. ASSUME NEW t \in Task, Leaves(t) \/ Cancels(t) PROVE rows'[u].answer = None
  BY <1>3, <1>6 DEF Leaves, Cancels, Terminal
<1> QED BY <1>1, <1>2, <1>4, <1>5, <1>6 DEF Effect, Calm

LEMMA PastReadsKeep ==
  ASSUME TypeOK, PastReads, [Next]_vars
  PROVE  PastReads'
<1>t. clock \in Nat /\ reqs \in [Server -> ReqType] /\ \A s \in Server : reqs[s].at \in Nat
  BY DEF TypeOK, ReqType
<1>n. UNCHANGED <<clock, reqs>> => PastReads'
  BY DEF PastReads
\* A request that starts reads the clock; one that ends forgets it.
<1>r. ASSUME NEW s \in Server, NEW q, reqs' = [reqs EXCEPT ![s] = q],
             q.at = clock \/ q.at = 0, UNCHANGED clock
      PROVE  PastReads'
  <2> SUFFICES ASSUME NEW u \in Server PROVE reqs'[u].at <= clock'
    BY DEF PastReads
  <2>1. CASE u = s
    BY <1>t, <1>r, <2>1
  <2>2. CASE u # s
    BY <1>t, <1>r, <2>2 DEF PastReads
  <2> QED BY <2>1, <2>2
<1>0. NoReq.at = 0 /\ \A s \in Server : reqs' = [reqs EXCEPT ![s] = NoReq] /\ UNCHANGED clock
                                          => PastReads'
  <2>1. NoReq.at = 0
    BY DEF NoReq
  <2> QED BY <1>r, <2>1
<1>1. CASE Tick
  <2> SUFFICES ASSUME NEW u \in Server PROVE reqs'[u].at <= clock'
    BY DEF PastReads
  <2>1. reqs' = reqs /\ clock' = clock + 1 /\ reqs[u].at <= clock
    BY <1>1 DEF Tick, PastReads
  <2> QED BY <1>t, <2>1
<1>2. CASE UNCHANGED vars
  BY <1>n, <1>2 DEF vars
<1>3. ASSUME NEW r \in Run, RunStep(r) PROVE PastReads'
  BY <1>n, <1>3 DEF RunStep, Claim, Begin, Abandon, Heartbeat, ExecutorReturns, Settle,
                    ExecutorRaises, Release, DoneCallback
<1>4. ASSUME NEW s \in Server, RequestStep(s) PROVE PastReads'
  <2>1. ASSUME NEW k \in Key, NEW q \in Request, CreateInsert(s, k, q) PROVE PastReads'
    <3>1. PICK t : reqs' = [reqs EXCEPT ![s] =
                  [op |-> "create", task |-> t, key |-> k, request |-> q,
                   noLease |-> FALSE, at |-> clock]]
      BY <2>1 DEF CreateInsert
    <3> QED BY <1>r, <2>1, <3>1 DEF CreateInsert
  <2>2. CASE CreateRefused(s)
    BY <1>0, <2>2 DEF CreateRefused
  <2>3. ASSUME NEW t \in Task, CreateSettle(s, t) PROVE PastReads'
    BY <1>0, <2>3 DEF CreateSettle
  <2>4. ASSUME NEW t \in Task, RequireFails(s, t) PROVE PastReads'
    BY <1>n, <2>4 DEF RequireFails
  <2>5. ASSUME NEW t \in Task, Poll(s, t) PROVE PastReads'
    BY <1>n, <2>5 DEF Poll
  <2>6. ASSUME NEW t \in Task, CancelRead(s, t) PROVE PastReads'
    <3> DEFINE q == [NoReq EXCEPT !.op = "cancel", !.task = t,
                                  !.noLease = NoLiveLease(t), !.at = clock]
    <3>1. q.at = clock
      BY DEF NoReq
    <3>2. reqs' = [reqs EXCEPT ![s] = q] /\ UNCHANGED clock
      BY <2>6 DEF CancelRead
    <3> HIDE DEF q
    <3> QED BY <1>r, <3>1, <3>2
  <2>7. CASE CancelWrite(s)
    BY <1>0, <2>7 DEF CancelWrite
  <2> QED BY <1>4, <2>1, <2>2, <2>3, <2>4, <2>5, <2>6, <2>7 DEF RequestStep
<1>5. ASSUME NEW s \in Server, Restart(s) PROVE PastReads'
  BY <1>0, <1>5 DEF Restart
<1> QED BY <1>1, <1>2, <1>3, <1>4, <1>5 DEF Next

LEMMA ContractInit == Init => ContractInv
<1> SUFFICES ASSUME Init PROVE ContractInv
  OBVIOUS
<1>1. LeaseInv /\ AnswerInv
  BY LeaseInit, AnswerInit
<1>2. PastReads
  BY DEF Init, PastReads, NoReq
<1>3. Unanswered
  BY DEF Init, Unanswered, Present
<1> QED BY <1>1, <1>2, <1>3 DEF ContractInv

LEMMA ContractStep == ContractInv /\ [Next]_vars => ContractInv'
<1> SUFFICES ASSUME ContractInv, [Next]_vars PROVE ContractInv'
  OBVIOUS
<1>1. LeaseInv' /\ AnswerInv'
  BY LeaseStep, AnswerStep DEF ContractInv
<1>2. PastReads'
  BY PastReadsKeep DEF ContractInv, AnswerInv
<1>3. Unanswered'
  BY StepEffect, UnansweredKeeps DEF ContractInv
<1> QED BY <1>1, <1>2, <1>3 DEF ContractInv

-----------------------------------------------------------------------------
\* "Active work is never silently discarded": for any number of processes, tasks
\* and workers and any capacity, a working row goes before its ttl only if the
\* create that inserted it is refused (create_or_get, _maintain).
THEOREM ActiveWorkStays == Spec => ActiveWorkIsKept
<1> DEFINE Step == \A t \in Task :
             Present(t) /\ rows[t].status = "working" /\ rows'[t] = None
             => \/ rows[t].created + TTL <= clock
                \/ \E s \in Server : reqs[s].op = "create" /\ reqs[s].task = t
<1>1. ContractInv /\ [Next]_vars => [Step]_vars
  <2> SUFFICES ASSUME ContractInv, [Next]_vars,
                      NEW t \in Task, rows[t] # None, rows[t].status = "working",
                      rows'[t] = None
               PROVE  \/ rows[t].created + TTL <= clock
                      \/ \E s \in Server : reqs[s].op = "create" /\ reqs[s].task = t
    BY DEF Present
  <2>1. Effect
    BY StepEffect
  <2>2. Removed(t, rows'[t])
    <3>1. CASE Removes
      BY <3>1 DEF Removes
    <3>2. ASSUME NEW u \in Task, Submits(u) PROVE Removed(t, rows'[t])
      BY <3>2 DEF Submits
    <3>3. ASSUME NEW u \in Task, NEW status, NEW answer, Rewrites(u, status, answer)
          PROVE  Removed(t, rows'[t])
      BY <3>3 DEF Rewrites
    <3> QED BY <2>1, <3>1, <3>2, <3>3 DEF Effect, Calm, Takes, Leaves, Ends, Cancels
  <2> QED BY <2>2 DEF Removed, MayGo, Terminal
<1>2. [][Step]_vars => ActiveWorkIsKept
  BY PTL DEF ActiveWorkIsKept
<1> QED BY <1>1, <1>2, ContractInit, ContractStep, PTL DEF Spec

(***************************************************************************)
(* The effects are steps of the contract.                                  *)
(***************************************************************************)
\* Where a task is in its life, and the answer it holds.
Life(t) == IF rows[t] # None THEN rows[t].status
           ELSE IF t \in minted THEN "removed" ELSE "absent"
Reply(t) == IF rows[t] # None THEN rows[t].answer ELSE None

States == [t \in Task |-> Life(t)]
Replies == [t \in Task |-> Reply(t)]

ContractStepTaken ==
  \/ Contract!Next
  \/ \E t \in Task : Contract!Overrule(t)
  \/ UNCHANGED Contract!vars
LEMMA StatusesAre ==
  ASSUME TypeOK, NEW t \in Task, rows[t] # None
  PROVE  rows[t].status \notin {"absent", "removed"}
<1>1. rows[t] \in RowType
  BY DEF TypeOK
<1> QED BY <1>1 DEF RowType, Terminal

LEMMA RemovesIs ==
  ASSUME TypeOK, Minted, Removes
  PROVE  ContractStepTaken
<1>0. PICK T \in SUBSET Task : T = {t \in Task : rows[t] # None /\ rows'[t] = None}
  OBVIOUS
<1>1. ASSUME NEW t \in Task
      PROVE  /\ Life(t)' = IF t \in T THEN "removed" ELSE Life(t)
             /\ Reply(t)' = IF t \in T THEN None ELSE Reply(t)
  <2>1. rows'[t] = rows[t] \/ rows'[t] = None
    BY DEF Removes, Removed
  <2>2. minted' = minted /\ (rows[t] # None => t \in minted)
    BY DEF Removes, Minted, Present
  <2> QED BY <1>0, <2>1, <2>2 DEF Life, Reply
<1>2. \A t \in T : States[t] \notin {"absent", "removed"}
  BY <1>0, StatusesAre DEF States, Life
<1>4. States' = [t \in Task |-> IF t \in T THEN "removed" ELSE States[t]]
  BY <1>1 DEF States
<1>5. Replies' = [t \in Task |-> IF t \in T THEN None ELSE Replies[t]]
  BY <1>1 DEF Replies
<1>6. Contract!Remove(T)
  BY <1>2, <1>4, <1>5 DEF Contract!Remove, States, Replies, Life, Reply, Removes
<1>7. \E X \in SUBSET Task : Contract!Remove(X)
  BY <1>6
<1> QED BY <1>7 DEF ContractStepTaken, Contract!Next

LEMMA SubmitsIs ==
  ASSUME TypeOK, Minted, NEW t \in Task, Submits(t)
  PROVE  ContractStepTaken
<1>0. PICK T \in SUBSET Task :
        T = {u \in Task \ {t} : rows[u] # None /\ rows'[u] = None}
  OBVIOUS
<1>1. ASSUME NEW u \in Task
      PROVE  /\ Life(u)' = IF u = t THEN "working"
                           ELSE IF u \in T THEN "removed" ELSE Life(u)
             /\ Reply(u)' = IF u \in T THEN None ELSE Reply(u)
  <2>1. CASE u = t
    BY <1>0, <2>1 DEF Submits, Minted, Present, Life, Reply
  <2>2. CASE u # t
    <3>1. rows'[u] = rows[u] \/ rows'[u] = None
      BY <2>2 DEF Submits, Removed
    <3>2. (u \in minted' <=> u \in minted) /\ (rows[u] # None => u \in minted)
      BY <2>2 DEF Submits, Minted, Present
    <3> QED BY <1>0, <2>2, <3>1, <3>2 DEF Life, Reply
  <2> QED BY <2>1, <2>2
<1>2. \A u \in T : States[u] \notin {"absent", "removed"}
  BY <1>0, StatusesAre DEF States, Life
<1>3. States[t] = "absent"
  BY DEF Submits, Minted, Present, States, Life
<1>4. States' = [u \in Task |-> IF u = t THEN "working"
                                ELSE IF u \in T THEN "removed" ELSE States[u]]
  BY <1>1 DEF States
<1>5. Replies' = [u \in Task |-> IF u \in T THEN None ELSE Replies[u]]
  BY <1>1 DEF Replies
<1>6. Contract!Submit(t, T)
  BY <1>2, <1>3, <1>4, <1>5 DEF Contract!Submit, States, Replies, Life, Reply, Submits
<1>7. \E u \in Task, X \in SUBSET Task : Contract!Submit(u, X)
  BY <1>6
<1> QED BY <1>7 DEF ContractStepTaken, Contract!Next

\* What a rewritten row says of its task.
LEMMA RewrittenIs ==
  ASSUME NEW t \in Task, NEW status, NEW answer, Rewrites(t, status, answer)
  PROVE  /\ States[t] = rows[t].status /\ Replies[t] = rows[t].answer
         /\ States' = [States EXCEPT ![t] = status]
         /\ Replies' = [Replies EXCEPT ![t] = answer]
<1>1. ASSUME NEW u \in Task
      PROVE  /\ Life(u)' = IF u = t THEN status ELSE Life(u)
             /\ Reply(u)' = IF u = t THEN answer ELSE Reply(u)
  <2>1. CASE u = t
    BY <2>1 DEF Rewrites, Life, Reply
  <2>2. CASE u # t
    BY <2>2 DEF Rewrites, Life, Reply
  <2> QED BY <2>1, <2>2
<1>2. States[t] = rows[t].status /\ Replies[t] = rows[t].answer
  BY DEF Rewrites, States, Replies, Life, Reply
<1>3. States' = [States EXCEPT ![t] = status]
  BY <1>1 DEF States
<1>4. Replies' = [Replies EXCEPT ![t] = answer]
  BY <1>1 DEF Replies
<1> QED BY <1>2, <1>3, <1>4

LEMMA Unwritten ==
  ASSUME NEW t \in Task
  PROVE  /\ [States EXCEPT ![t] = States[t]] = States
         /\ [Replies EXCEPT ![t] = Replies[t]] = Replies
BY DEF States, Replies

LEMMA TakesIs ==
  ASSUME NEW t \in Task, NEW r \in Run, Takes(t, r)
  PROVE  ContractStepTaken
<1>1. /\ States[t] = "working" /\ States' = States /\ Replies' = Replies
  BY RewrittenIs, Unwritten DEF Takes
<1>2. Contract!Take(t, r)
  BY <1>1 DEF Contract!Take, States, Replies, Life, Reply, Takes
<1>3. \E u \in Task, q \in Run : Contract!Take(u, q)
  BY <1>2
<1> QED BY <1>3 DEF ContractStepTaken, Contract!Next

LEMMA LeavesIs ==
  ASSUME NEW t \in Task, Leaves(t)
  PROVE  ContractStepTaken
<1>1. States' = States /\ Replies' = Replies
  BY RewrittenIs, Unwritten DEF Leaves
<1>2. UNCHANGED Contract!vars
  BY <1>1 DEF Contract!vars, States, Replies, Life, Reply, Leaves
<1> QED BY <1>2 DEF ContractStepTaken

LEMMA EndsIs ==
  ASSUME NEW t \in Task, Ends(t)
  PROVE  ContractStepTaken
<1>1. PICK status \in {"completed", "failed"} : Rewrites(t, status, lastClaim[t])
  BY DEF Ends
<1>2. /\ States[t] = "working" /\ States' = [States EXCEPT ![t] = status]
      /\ Replies' = [Replies EXCEPT ![t] = lastClaim[t]]
  BY <1>1, RewrittenIs DEF Ends
<1>3. Contract!End(t, status)
  BY <1>2 DEF Contract!End, States, Replies, Life, Reply, Ends
<1>4. \E u \in Task, st \in {"completed", "failed"} : Contract!End(u, st)
  BY <1>3
<1> QED BY <1>4 DEF ContractStepTaken, Contract!Next

LEMMA CancelsIs ==
  ASSUME TypeOK, NEW t \in Task, Cancels(t)
  PROVE  ContractStepTaken
<1>1. /\ States[t] = rows[t].status /\ Replies' = Replies
      /\ States' = [States EXCEPT ![t] = "cancelled"]
      /\ lastClaim' = lastClaim
  BY RewrittenIs, Unwritten DEF Cancels
<1>2. States[t] \in {"working", "completed", "failed", "cancelled"}
  <2>1. rows[t] \in RowType
    BY DEF TypeOK, Cancels, Rewrites
  <2> QED BY <1>1, <2>1 DEF RowType, Terminal
<1>3. CASE States[t] = "working"
  <2>1. Contract!Cancel(t)
    BY <1>1, <1>3 DEF Contract!Cancel, States, Replies, Life, Reply
  <2>2. \E u \in Task : Contract!Cancel(u)
    BY <2>1
  <2> QED BY <2>2 DEF ContractStepTaken, Contract!Next
<1>4. CASE States[t] \in {"completed", "failed"}
  <2>1. Contract!Overrule(t)
    BY <1>1, <1>4 DEF Contract!Overrule, States, Replies, Life, Reply
  <2> QED BY <2>1 DEF ContractStepTaken
<1>5. CASE States[t] = "cancelled"
  <2>1. States' = States
    BY <1>1, <1>5, Unwritten
  <2>2. UNCHANGED Contract!vars
    BY <1>1, <2>1 DEF Contract!vars, States, Replies, Life, Reply
  <2> QED BY <2>2 DEF ContractStepTaken
<1> QED BY <1>2, <1>3, <1>4, <1>5

\* For any number of processes, tasks and workers and any durations and capacity,
\* the shared store keeps the contract of its tasks, apart from the cancellation
\* that may overrule an answer that came while it was being decided.
THEOREM StoreImplementsSharedContract == Spec => ImplementsSharedContract
<1>1. Init => Contract!Init
  BY DEF Init, Contract!Init
<1>2. ContractInv /\ [Next]_vars
        => [Contract!Next \/ \E t \in Task : Contract!Overrule(t)]_(Contract!vars)
  <2> SUFFICES ASSUME ContractInv, [Next]_vars PROVE ContractStepTaken
    BY DEF ContractStepTaken
  <2>1. Effect
    BY StepEffect
  <2>2. TypeOK /\ Minted
    BY DEF ContractInv, LeaseInv
  <2> QED BY <2>1, <2>2, RemovesIs, SubmitsIs, TakesIs, LeavesIs, EndsIs, CancelsIs DEF Effect, Calm
<1> QED BY <1>1, <1>2, ContractInit, ContractStep, PTL
        DEF Spec, ImplementsSharedContract, Contract!SharedSpec


(***************************************************************************)
(* One process.  Its event loop lets nobody in between what a request or a  *)
(* worker read and what it writes, so a cancellation never overrules an     *)
(* answer.                                                                 *)
(***************************************************************************)
\* A worker in the middle of a synchronous stretch.
Holder(r) == runs[r].pc \in {"claimed", "completing", "discarding", "abandoning"}

Undecided(t) == t \in Task /\ rows[t] # None => rows[t].status = "working"

\* The loop of s, the only process, is held by one request or worker at most, and
\* a cancellation that was begun is of a task that has not ended.
Sole(s) ==
  /\ \A r \in Run : runs[r].pc # "unused" => runs[r].server = s
  /\ \A r \in Run : Holder(r) => reqs[s].op = "none"
  /\ \A r, q \in Run : Holder(r) /\ Holder(q) => r = q
  /\ reqs[s].op = "cancel" => Undecided(reqs[s].task)
  /\ \A r \in Run : runs[r].pc = "abandoning" => Undecided(runs[r].task)

SoleInv(s) == ContractInv /\ Sole(s)

\* How a step of a worker moves it on: from its await, when the loop is free, or
\* from the stretch it holds the loop for.
Moves(r, run) ==
  /\ runs' = [runs EXCEPT ![r] = run]
  /\ runs[r].pc # "unused"
  /\ run.pc # "unused" /\ run.server = runs[r].server /\ run.task = runs[r].task
  /\ LoopFree(runs[r].server) \/ Holder(r)
  /\ run.pc = "abandoning" => UNCHANGED rows /\ Undecided(runs[r].task)
  /\ UNCHANGED reqs

LEMMA FinishIsMove ==
  ASSUME runs \in [Run -> RunType], NEW r \in Run, Finish(r), runs[r].pc # "unused",
         LoopFree(runs[r].server) \/ Holder(r), UNCHANGED reqs
  PROVE  \E run : Moves(r, run)
<1> DEFINE run == [runs[r] EXCEPT !.pc = "done"]
<1>1. runs' = [runs EXCEPT ![r] = run]
  BY DEF Finish
<1>2. run.pc = "done" /\ run.server = runs[r].server /\ run.task = runs[r].task
  BY DEF RunType
<1> HIDE DEF run
<1>3. Moves(r, run)
  BY <1>1, <1>2 DEF Moves
<1> QED BY <1>3

LEMMA RunStepMoves ==
  ASSUME TypeOK, NEW r \in Run, RunStep(r)
  PROVE  \E run : Moves(r, run)
<1>t. /\ runs \in [Run -> RunType] /\ runs[r] \in RunType /\ rows \in Table
  BY DEF TypeOK
\* The pc changes, and perhaps what the worker remembers of its lease.
<1>p. ASSUME NEW pc \in RunPC \ {"unused", "abandoning"}, NEW g, NEW l,
             runs' = [runs EXCEPT ![r] = [runs[r] EXCEPT !.pc = pc, !.grant = g,
                                                         !.noLease = l]],
             runs[r].pc # "unused", LoopFree(runs[r].server) \/ Holder(r), UNCHANGED reqs
      PROVE  \E run : Moves(r, run)
  <2> DEFINE run == [runs[r] EXCEPT !.pc = pc, !.grant = g, !.noLease = l]
  <2>1. run.pc = pc /\ run.server = runs[r].server /\ run.task = runs[r].task
    BY <1>t DEF RunType
  <2>2. runs' = [runs EXCEPT ![r] = run]
    BY <1>p
  <2> HIDE DEF run
  <2>3. Moves(r, run)
    BY <1>p, <2>1, <2>2 DEF Moves
  <2> QED BY <2>3
<1>q. ASSUME NEW pc \in RunPC \ {"unused", "abandoning"},
             runs' = [runs EXCEPT ![r] = [runs[r] EXCEPT !.pc = pc]],
             runs[r].pc # "unused", LoopFree(runs[r].server) \/ Holder(r), UNCHANGED reqs
      PROVE  \E run : Moves(r, run)
  <2> DEFINE run == [runs[r] EXCEPT !.pc = pc]
  <2>1. run.pc = pc /\ run.server = runs[r].server /\ run.task = runs[r].task
    BY <1>t DEF RunType
  <2>2. runs' = [runs EXCEPT ![r] = run]
    BY <1>q
  <2> HIDE DEF run
  <2>3. Moves(r, run)
    BY <1>q, <2>1, <2>2 DEF Moves
  <2> QED BY <2>3
<1>f. Finish(r) /\ runs[r].pc # "unused" /\ (LoopFree(runs[r].server) \/ Holder(r))
        /\ UNCHANGED reqs => \E run : Moves(r, run)
  BY <1>t, FinishIsMove
<1>1. CASE Claim(r)
  <2>1. CASE Claimable(runs[r].task)
    <3>1. runs' = [runs EXCEPT ![r] = [runs[r] EXCEPT !.pc = "claimed",
                        !.grant = clock + Lease, !.noLease = runs[r].noLease]]
      <4>1. [runs[r] EXCEPT !.pc = "claimed", !.grant = clock + Lease] =
              [runs[r] EXCEPT !.pc = "claimed", !.grant = clock + Lease,
                              !.noLease = runs[r].noLease]
        BY <1>t DEF RunType
      <4>2. runs' = [runs EXCEPT ![r] = [runs[r] EXCEPT !.pc = "claimed",
                                                        !.grant = clock + Lease]]
        BY <1>1, <2>1 DEF Claim
      <4> QED BY <4>1, <4>2
    <3> QED BY <1>1, <1>p, <3>1 DEF Claim, RunPC
  <2>2. CASE ~Claimable(runs[r].task)
    BY <1>1, <1>f, <2>2 DEF Claim
  <2> QED BY <2>1, <2>2
<1>2. CASE Begin(r)
  <2>1. Holder(r) /\ runs[r].pc # "unused" /\ UNCHANGED reqs
    BY <1>2 DEF Begin, Holder
  <2>2. CASE Finish(r)
    BY <1>f, <2>1, <2>2
  <2>3. CASE runs' = [runs EXCEPT ![r] = [runs[r] EXCEPT !.pc = "executing"]]
    <3>1. "executing" \in RunPC \ {"unused", "abandoning"}
      BY DEF RunPC
    <3> QED BY <1>q, <2>1, <2>3, <3>1
  <2>4. CASE /\ runs' = [runs EXCEPT ![r] = [runs[r] EXCEPT !.pc = "abandoning",
                              !.noLease = NoLiveLease(runs[r].task)]]
             /\ rows[runs[r].task].status \notin Terminal /\ UNCHANGED rows
    <3> DEFINE run == [runs[r] EXCEPT !.pc = "abandoning",
                              !.noLease = NoLiveLease(runs[r].task)]
    <3>1. run.pc = "abandoning" /\ run.server = runs[r].server /\ run.task = runs[r].task
      BY <1>t DEF RunType
    <3>2. runs' = [runs EXCEPT ![r] = run]
      BY <2>4
    <3>3. Undecided(runs[r].task)
      BY <1>t, <2>4 DEF Undecided, RowType
    <3> HIDE DEF run
    <3>4. Moves(r, run)
      BY <2>1, <2>4, <3>1, <3>2, <3>3 DEF Moves
    <3> QED BY <3>4
  <2> QED BY <1>2, <2>2, <2>3, <2>4 DEF Begin
<1>3. CASE Abandon(r)
  BY <1>3, <1>f DEF Abandon, Holder
<1>4. CASE Heartbeat(r)
  <2>1. runs' = [runs EXCEPT ![r] = [runs[r] EXCEPT !.pc = "executing",
                      !.grant = clock + Lease, !.noLease = runs[r].noLease]]
    <3>1. [runs[r] EXCEPT !.grant = clock + Lease] =
            [runs[r] EXCEPT !.pc = "executing", !.grant = clock + Lease,
                            !.noLease = runs[r].noLease]
      BY <1>t, <1>4 DEF RunType, Heartbeat
    <3>2. runs' = [runs EXCEPT ![r] = [runs[r] EXCEPT !.grant = clock + Lease]]
      BY <1>4 DEF Heartbeat
    <3> QED BY <3>1, <3>2
  <2>2. /\ "executing" \in RunPC \ {"unused", "abandoning"}
        /\ runs[r].pc # "unused" /\ LoopFree(runs[r].server) /\ UNCHANGED reqs
    BY <1>4 DEF Heartbeat, RunPC
  <2> DEFINE g == clock + Lease
             l == runs[r].noLease
  <2> HIDE DEF g, l
  <2>3. runs' = [runs EXCEPT ![r] = [runs[r] EXCEPT !.pc = "executing", !.grant = g,
                                                    !.noLease = l]]
    BY <2>1 DEF g, l
  <2> QED BY <1>p, <2>2, <2>3
<1>5. CASE ExecutorReturns(r)
  <2>1. CASE Finish(r)
    BY <1>5, <1>f, <2>1 DEF ExecutorReturns
  <2>2. CASE \E pc \in {"discarding", "completing"} :
               runs' = [runs EXCEPT ![r] = [runs[r] EXCEPT !.pc = pc]]
    <3>1. PICK pc \in {"discarding", "completing"} :
            runs' = [runs EXCEPT ![r] = [runs[r] EXCEPT !.pc = pc]]
      BY <2>2
    <3>2. /\ pc \in RunPC \ {"unused", "abandoning"}
          /\ runs[r].pc # "unused" /\ LoopFree(runs[r].server) /\ UNCHANGED reqs
      BY <1>5 DEF ExecutorReturns, RunPC
    <3> QED BY <1>q, <3>1, <3>2
  <2> QED BY <1>5, <2>1, <2>2 DEF ExecutorReturns
<1>6. CASE Settle(r)
  BY <1>6, <1>f DEF Settle, Holder
<1>7. CASE ExecutorRaises(r)
  BY <1>7, <1>f DEF ExecutorRaises
<1>8. CASE Release(r)
  BY <1>8, <1>f DEF Release
<1>9. CASE DoneCallback(r)
  <2>1. runs' = [runs EXCEPT ![r] = [runs[r] EXCEPT !.pc = "gone"]]
    BY <1>9 DEF DoneCallback
  <2>2. /\ "gone" \in RunPC \ {"unused", "abandoning"}
        /\ runs[r].pc # "unused" /\ LoopFree(runs[r].server) /\ UNCHANGED reqs
    BY <1>9 DEF DoneCallback, RunPC
  <2> QED BY <1>q, <2>1, <2>2
<1> QED BY <1>1, <1>2, <1>3, <1>4, <1>5, <1>6, <1>7, <1>8, <1>9 DEF RunStep


\* Whoever goes on when the loop is free, or holds it, holds it alone.
LEMMA SoleRun ==
  ASSUME NEW s \in Server, Server = {s}, TypeOK, TypeOK', Sole(s),
         NEW r \in Run, RunStep(r)
  PROVE  Sole(s)'
<1>t. runs \in [Run -> RunType]
  BY DEF TypeOK
<1>1. PICK run : Moves(r, run)
  BY RunStepMoves
<1>2. runs'[r] = run /\ \A q \in Run : q # r => runs'[q] = runs[q]
  BY <1>t, <1>1 DEF Moves
<1>3. runs[r].server = s /\ run.server = s
  BY <1>1 DEF Moves, Sole
<1>4. reqs' = reqs /\ reqs[s].op = "none" /\ \A q \in Run : q # r => ~Holder(q)
  BY <1>1, <1>3 DEF Moves, LoopFree, Holder, Sole
<1>5. \A q \in Run : Holder(q)' => q = r
  BY <1>2, <1>4 DEF Holder
<1>6. \A q \in Run : runs'[q].pc # "unused" => runs'[q].server = s
  BY <1>2, <1>3 DEF Sole
<1>7. ASSUME NEW q \in Run, runs'[q].pc = "abandoning" PROVE Undecided(runs[q].task)'
  <2>1. q = r
    BY <1>5, <1>7 DEF Holder
  <2>2. UNCHANGED rows /\ Undecided(runs[r].task) /\ runs'[q].task = runs[r].task
    BY <1>1, <1>2, <1>7, <2>1 DEF Moves
  <2>3. Undecided(runs'[q].task)
    BY <2>2
  <2> QED BY <2>2, <2>3 DEF Undecided
<1>8. reqs'[s].op = "none"
  BY <1>4
<1> QED BY <1>5, <1>6, <1>7, <1>8 DEF Sole

\* A request runs while no worker is in a synchronous stretch.
LEMMA SoleRequest ==
  ASSUME NEW s \in Server, Server = {s}, TypeOK, Sole(s), RequestStep(s)
  PROVE  Sole(s)'
<1>t. reqs \in [Server -> ReqType]
  BY DEF TypeOK
<1>1. ASSUME NEW r \in Run PROVE ~Holder(r)
  <2>1. LoopFree(s) \/ reqs[s].op # "none"
    BY DEF RequestStep, CreateInsert, CreateRefused, CreateSettle, RequireFails, Poll,
           CancelRead, CancelWrite
  <2>2. runs[r].pc # "unused" => runs[r].server = s
    BY DEF Sole
  <2> QED BY <2>1, <2>2 DEF LoopFree, Holder, Sole
<1>2. \A r \in Run : \/ runs'[r] = runs[r]
                     \/ runs'[r].pc = "scheduled" /\ runs'[r].server = s
  <2>1. ASSUME NEW t \in Task, Schedule(s, t)
        PROVE  \A r \in Run : \/ runs'[r] = runs[r]
                              \/ runs'[r].pc = "scheduled" /\ runs'[r].server = s
    BY <2>1, ScheduleQuiet
  <2> QED BY <2>1 DEF RequestStep, CreateInsert, CreateRefused, CreateSettle, RequireFails,
                      Poll, CancelRead, CancelWrite
<1>3. \A r \in Run : ~Holder(r)' /\ (runs'[r].pc # "unused" => runs'[r].server = s)
  BY <1>1, <1>2 DEF Holder, Sole
<1>4. \A r \in Run : runs'[r].pc # "abandoning"
  BY <1>3 DEF Holder
<1>5. reqs'[s].op = "cancel" => Undecided(reqs[s].task)'
  <2>1. ASSUME NEW k \in Key, NEW q \in Request, CreateInsert(s, k, q)
        PROVE  reqs'[s].op # "cancel"
    <3>1. \E t : reqs' = [reqs EXCEPT ![s] =
                  [op |-> "create", task |-> t, key |-> k, request |-> q,
                   noLease |-> FALSE, at |-> clock]]
      BY <2>1 DEF CreateInsert
    <3> QED BY <1>t, <3>1
  <2>2. ASSUME reqs' = [reqs EXCEPT ![s] = NoReq] PROVE reqs'[s].op # "cancel"
    BY <1>t, <2>2 DEF NoReq
  <2>3. ASSUME reqs' = reqs, LoopFree(s) PROVE reqs'[s].op # "cancel"
    BY <2>3 DEF LoopFree
  <2>4. ASSUME NEW t \in Task, CancelRead(s, t) PROVE Undecided(reqs[s].task)'
    <3> DEFINE q == [NoReq EXCEPT !.op = "cancel", !.task = t,
                                  !.noLease = NoLiveLease(t), !.at = clock]
    <3>1. q.task = t
      BY DEF NoReq
    <3>2. reqs' = [reqs EXCEPT ![s] = q] /\ UNCHANGED rows /\ rows[t].status = "working"
      BY <2>4 DEF CancelRead
    <3> HIDE DEF q
    <3>3. reqs'[s].task = t
      BY <1>t, <3>1, <3>2
    <3> QED BY <3>2, <3>3 DEF Undecided
  <2> QED BY <2>1, <2>2, <2>3, <2>4 DEF RequestStep, CreateRefused, CreateSettle,
                                        RequireFails, Poll, CancelWrite
<1> QED BY <1>3, <1>4, <1>5 DEF Sole

LEMMA SoleStep ==
  ASSUME NEW s \in Server, Server = {s}, SoleInv(s), [Next]_vars
  PROVE  SoleInv(s)'
<1>0. ContractInv /\ ContractInv' /\ Sole(s) /\ TypeOK /\ TypeOK'
  BY ContractStep DEF SoleInv, ContractInv, AnswerInv
<1>1. CASE Tick \/ UNCHANGED vars
  <2>1. UNCHANGED <<rows, runs, reqs>>
    BY <1>1 DEF Tick, vars
  <2>2. Sole(s)'
    BY <1>0, <2>1 DEF Sole, Holder, Undecided
  <2> QED BY <1>0, <2>2 DEF SoleInv
<1>2. ASSUME NEW r \in Run, RunStep(r) PROVE SoleInv(s)'
  BY <1>0, <1>2, SoleRun DEF SoleInv
<1>3. ASSUME RequestStep(s) PROVE SoleInv(s)'
  BY <1>0, <1>3, SoleRequest DEF SoleInv
<1>4. ASSUME Restart(s) PROVE SoleInv(s)'
  <2>1. \A r \in Run : runs'[r] = IF runs[r].server = s THEN [runs[r] EXCEPT !.pc = "gone"]
                                  ELSE runs[r]
    BY <1>4 DEF Restart
  <2>2. ASSUME NEW r \in Run
        PROVE  ~Holder(r)' /\ (runs'[r].pc # "unused" => runs'[r].server = s)
    <3>1. runs[r] \in RunType
      BY <1>0 DEF TypeOK
    <3>2. CASE runs[r].server = s
      <4>1. runs'[r].pc = "gone" /\ runs'[r].server = s
        BY <2>1, <3>1, <3>2 DEF RunType
      <4> QED BY <4>1 DEF Holder
    <3>3. CASE runs[r].server # s
      <4>1. runs'[r] = runs[r] /\ runs[r].pc = "unused"
        BY <1>0, <2>1, <3>3 DEF Sole
      <4> QED BY <4>1 DEF Holder
    <3> QED BY <3>2, <3>3
  <2>3. reqs'[s].op = "none"
    BY <1>0, <1>4 DEF Restart, TypeOK, NoReq
  <2>4. Sole(s)'
    BY <2>2, <2>3 DEF Sole, Holder
  <2> QED BY <1>0, <2>4 DEF SoleInv
<1>5. ASSUME NEW u \in Server PROVE u = s
  OBVIOUS
<1> QED BY <1>1, <1>2, <1>3, <1>4, <1>5 DEF Next

\* So what becomes cancelled had not ended.
LEMMA NoneOverruled ==
  ASSUME NEW s \in Server, Server = {s}, SoleInv(s), [Next]_vars,
         NEW t \in Task, rows[t] # None, rows'[t] # None, rows'[t].status = "cancelled"
  PROVE  rows[t].status \in {"working", "cancelled"}
<1>t. /\ TypeOK /\ Minted /\ Sole(s) /\ rows \in Table /\ rows[t] # None
      /\ rows'[t] # None /\ rows'[t].status = "cancelled"
  BY DEF SoleInv, ContractInv, LeaseInv, TypeOK
<1>c. ASSUME Calm PROVE rows[t].status = "cancelled"
  <2>1. CASE Removes
    BY <1>t, <2>1 DEF Removes, Removed
  <2>2. ASSUME NEW u \in Task, Submits(u) PROVE rows[t].status = "cancelled"
    BY <1>t, <2>2 DEF Submits, Removed, Minted, Present
  <2>3. ASSUME NEW u \in Task, Rewrites(u, rows[u].status, rows[u].answer)
        PROVE  rows[t].status = "cancelled"
    BY <1>t, <2>3 DEF Rewrites
  <2>4. \A u \in Task : Leaves(u) \/ (\E r \in Run : Takes(u, r))
                          => Rewrites(u, rows[u].status, rows[u].answer)
    BY DEF Leaves, Takes
  <2> QED BY <1>c, <2>1, <2>2, <2>3, <2>4 DEF Calm
\* An UPDATE of one task.
<1>u. ASSUME NEW u, NEW noLease, NEW at, Cancelled(u, noLease, at), Undecided(u)
      PROVE  rows[t].status \in {"working", "cancelled"}
  <2>1. CASE u = t
    BY <1>t, <1>u, <2>1 DEF Undecided
  <2>2. CASE u # t
    BY <1>t, <1>u, <2>2 DEF Cancelled
  <2> QED BY <2>1, <2>2
<1>e. ASSUME NEW r \in Run, NEW status, NEW a, EndAs(r, status, a)
      PROVE  rows[t].status \in {"working", "cancelled"}
  <2>1. CASE runs[r].task = t /\ Holds(r)
    BY <2>1 DEF Holds
  <2>2. CASE ~(runs[r].task = t /\ Holds(r))
    BY <1>t, <1>e, <2>2 DEF EndAs
  <2> QED BY <2>1, <2>2
<1>1. CASE Tick \/ UNCHANGED vars
  BY <1>1, <1>t DEF Tick, vars
<1>2. ASSUME NEW r \in Run, RunStep(r) PROVE rows[t].status \in {"working", "cancelled"}
  <2>1. CASE Calm
    BY <1>c, <2>1
  <2>2. CASE Abandon(r)
    BY <1>t, <1>u, <2>2 DEF Abandon, Sole
  <2>3. CASE Settle(r)
    BY <1>e, <2>3 DEF Settle
  <2>4. CASE ExecutorRaises(r)
    BY <1>e, <2>4 DEF ExecutorRaises
  <2>5. ContractInv
    BY DEF SoleInv
  <2> QED BY <1>2, <2>1, <2>2, <2>3, <2>4, <2>5, RunStepEffect
<1>3. ASSUME RequestStep(s) PROVE rows[t].status \in {"working", "cancelled"}
  <2>1. CASE Calm
    BY <1>c, <2>1
  <2>2. CASE CancelWrite(s)
    BY <1>t, <1>u, <2>2 DEF CancelWrite, Sole
  <2>3. ContractInv
    BY DEF SoleInv
  <2> QED BY <1>3, <2>1, <2>2, <2>3, RequestEffect
<1>4. ASSUME Restart(s) PROVE rows[t].status \in {"working", "cancelled"}
  <2>1. PICK m \in Maintenance(rows, tombs, clock) : rows' = m.rows
    BY <1>4 DEF Restart
  <2>2. rows'[t] = None \/ rows'[t] = rows[t]
    BY <1>t, <2>1, MaintainedRows DEF TypeOK
  <2> QED BY <1>t, <2>2
<1>5. ASSUME NEW u \in Server PROVE u = s
  OBVIOUS
<1> QED BY <1>1, <1>2, <1>3, <1>4, <1>5 DEF Next

\* For one server process, any tasks and workers, and also when the process dies
\* and starts again, tasks live exactly as their contract says: what ended with
\* an answer is never cancelled afterwards.
THEOREM OneProcessImplementsContract ==
  ASSUME NEW s \in Server, Server = {s}
  PROVE  Spec => ImplementsContract
<1>1. Init => Contract!Init
  BY DEF Init, Contract!Init
<1>2. Init => SoleInv(s)
  BY ContractInit DEF Init, SoleInv, Sole, Holder, UnusedRun, NoReq
<1>3. SoleInv(s) /\ [Next]_vars => SoleInv(s)'
  BY SoleStep
<1>4. SoleInv(s) /\ [Next]_vars => [Contract!Next]_(Contract!vars)
  <2> SUFFICES ASSUME SoleInv(s), [Next]_vars
               PROVE  Contract!Next \/ UNCHANGED Contract!vars
    OBVIOUS
  <2>0. Effect /\ TypeOK /\ Minted
    BY StepEffect DEF SoleInv, ContractInv, LeaseInv
  <2>1. ContractStepTaken
    BY <2>0, RemovesIs, SubmitsIs, TakesIs, LeavesIs, EndsIs, CancelsIs DEF Effect, Calm
  <2>2. ASSUME NEW t \in Task, Contract!Overrule(t) PROVE FALSE
    <3>1. States[t] \in {"completed", "failed"} /\ States'[t] = "cancelled"
      BY <2>2 DEF Contract!Overrule, States, Life
    <3>2. rows[t] # None /\ rows[t].status \in {"completed", "failed"}
      BY <3>1 DEF States, Life
    <3>3. rows'[t] # None /\ rows'[t].status = "cancelled"
      BY <3>1 DEF States, Life
    <3> QED BY <2>0, <3>2, <3>3, NoneOverruled
  <2> QED BY <2>1, <2>2 DEF ContractStepTaken
<1> QED BY <1>1, <1>2, <1>3, <1>4, PTL DEF Spec, ImplementsContract, Contract!Spec
=============================================================================

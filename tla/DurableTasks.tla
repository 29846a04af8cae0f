---------------------------- MODULE DurableTasks ----------------------------
(***************************************************************************)
(* The durable MCP task store and the workers that drive it:               *)
(* packages/mcp/src/sagasmith_dnd_mcp/mcp_tasks.py.                        *)
(*                                                                         *)
(* Several server processes share one SQLite file.  SQLite runs in         *)
(* autocommit mode, so a statement is atomic but a method of two           *)
(* statements is not: a request that needs two is two actions here, with   *)
(* what the first one read kept in reqs or runs.  Inside one process the   *)
(* handlers and the workers share an asyncio event loop, so a stretch of   *)
(* code without await is never interleaved with another of the SAME        *)
(* process: LoopFree is the guard of whatever needs the loop.              *)
(*                                                                         *)
(* Time is an integer clock; Lease, TTL and TombTTL are its durations.     *)
(***************************************************************************)
EXTENDS Integers, FiniteSets

CONSTANTS
  Task,          \* task ids; uuid4, so an id is never minted twice
  Key,           \* (owner, campaign, tool, idempotency_key), the UNIQUE columns
  Request,       \* request_hash together with the trusted identity binding
  Server,        \* server processes sharing the SQLite file
  Run,           \* executions of TasksExtension._run; a run is its lease token
  Lease,         \* lease_seconds
  TTL,           \* ttl_ms
  TombTTL,       \* tombstone_ttl_seconds
  MaxRows,       \* max_rows
  BytePressure,  \* may the database file exceed max_database_bytes?
  MayCrash,      \* may a server process die?
  MaxTime,       \* bound on the clock
  None

ASSUME DurationAssumption == /\ Lease \in Nat \ {0}
                             /\ TTL \in Nat \ {0}
                             /\ TombTTL \in Nat \ {0}
                             /\ MaxRows \in Nat \ {0}
                             /\ MaxTime \in Nat
ASSUME FlagAssumption == BytePressure \in BOOLEAN /\ MayCrash \in BOOLEAN
ASSUME NoneAssumption == None \notin Task \cup Run \cup Request \cup Key \cup Server

VARIABLES
  clock,    \* time.time()
  minted,   \* the task ids ever generated
  rows,     \* table mcp_tasks
  tombs,    \* table mcp_task_tombstones
  runs,     \* the workers: program counter, task, process, what they read
  workers,  \* TasksExtension._workers of each process
  reqs,     \* the request each process is in the middle of
  lastClaim \* history: the run whose claim of the task succeeded last

vars == <<clock, minted, rows, tombs, runs, workers, reqs, lastClaim>>

-----------------------------------------------------------------------------
(* Records. *)

Terminal == {"completed", "failed", "cancelled"}

\* A row of mcp_tasks.  "answer" stands for result_json and error_json: the
\* run whose result or error receipt the row holds.
RowType == [status: {"working"} \cup Terminal, key: Key, request: Request,
            created: Nat, updated: Nat, token: Run \cup {None}, expires: Nat,
            cancel: BOOLEAN, answer: Run \cup {None}]

\* Mutant: the NULL of lease_expires_at is not read as a number.
NewRowNullExpiry(k, q, t) ==
  [status |-> "working", key |-> k, request |-> q, created |-> t,
   updated |-> t, token |-> None, expires |-> None, cancel |-> FALSE,
   answer |-> None]

NewRow(k, q, t) ==
  [status |-> "working", key |-> k, request |-> q, created |-> t,
   updated |-> t, token |-> None, expires |-> 0, cancel |-> FALSE,
   answer |-> None]

TombType == [reason: {"expired", "evicted"}, expires: Nat]

\* No row and no tombstone is the value that stands for their absence.
ASSUME NoneIsNoRecord == None \notin RowType /\ None \notin TombType

RunPC == {"unused", "scheduled", "claimed", "executing", "completing",
          "discarding", "abandoning", "done", "gone"}

\* grant: the lease expiry this run was last given; noLease: the no_live_lease
\* it computed in request_cancel.
RunType == [pc: RunPC, task: Task \cup {None}, server: Server \cup {None},
            grant: Nat, noLease: BOOLEAN]

UnusedRun == [pc |-> "unused", task |-> None, server |-> None, grant |-> 0,
              noLease |-> FALSE]

ReqType == [op: {"none", "create", "cancel"}, task: Task \cup {None},
            key: Key \cup {None}, request: Request \cup {None},
            noLease: BOOLEAN, at: Nat]

NoReq == [op |-> "none", task |-> None, key |-> None, request |-> None,
          noLease |-> FALSE, at |-> 0]

Present(t) == rows[t] # None

\* A run that owns, or believes it owns, the lease of its task.
Active(r) == runs[r].pc \in {"claimed", "executing", "completing",
                             "discarding", "abandoning"}

\* The event loop of server s is between two awaits: no request and no run of s
\* is in the middle of a synchronous stretch.
LoopFree(s) ==
  /\ reqs[s].op = "none"
  /\ \A r \in Run : runs[r].server = s =>
       runs[r].pc \notin {"claimed", "completing", "discarding", "abandoning"}

-----------------------------------------------------------------------------
(* Expiry, eviction and tombstones: _expire_task and _maintain. *)

\* Mutant: only ended tasks expire.
OverdueEnded(rs, now) ==
  {t \in Task : rs[t] # None /\ rs[t].created + TTL <= now
                /\ rs[t].status \in Terminal}

Overdue(rs, now) == {t \in Task : rs[t] # None /\ rs[t].created + TTL <= now}

Drop(rs, gone) == [t \in Task |-> IF t \in gone THEN None ELSE rs[t]]

Bury(ts, gone, reason, now) ==
  [t \in Task |-> IF t \in gone
                  THEN [reason |-> reason, expires |-> now + TombTTL]
                  ELSE ts[t]]

\* The n-element subsets of S that ORDER BY stamp ASC LIMIT n may return.
Oldest(S, stamp, n) ==
  {E \in SUBSET S : /\ Cardinality(E) = n
                    /\ \A e \in E, t \in S \ E : stamp[e] <= stamp[t]}

Excess(S) == IF Cardinality(S) > MaxRows THEN Cardinality(S) - MaxRows ELSE 0

\* Mutant: eviction takes the oldest rows whatever their status.
EvictionsAny(rs) ==
  LET live == {t \in Task : rs[t] # None}
  IN  Oldest(live, [t \in live |-> rs[t].updated], Excess(live))

\* The terminal rows that may be evicted: the oldest, as many as exceed max_rows
\* (all of them when there are fewer); under byte pressure possibly more.
Evictions(rs) ==
  LET live  == {t \in Task : rs[t] # None}
      ended == {t \in live : rs[t].status \in Terminal}
      stamp == [t \in ended |-> rs[t].updated]
      least == IF Excess(live) < Cardinality(ended) THEN Excess(live)
               ELSE Cardinality(ended)
      most  == IF BytePressure THEN Cardinality(ended) ELSE least
  IN  UNION {Oldest(ended, stamp, n) : n \in least..most}

\* The tombstones beyond max_rows go, the first to expire first.
Trimmed(ts) ==
  LET all == {t \in Task : ts[t] # None}
  IN  {Drop(ts, X) : X \in Oldest(all, [t \in all |-> ts[t].expires], Excess(all))}

\* The tables _maintain may leave at time now.
Maintenance(rs, ts, now) ==
  LET old  == Overdue(rs, now)
      kept == Drop(rs, old)
      lapsed == {t \in Task : ts[t] # None /\ ts[t].expires <= now}
      dead == Bury(Drop(ts, lapsed), old, "expired", now)
  IN  UNION {{[rows |-> Drop(kept, E), tombs |-> ts2] :
                ts2 \in Trimmed(Bury(dead, E, "evicted", now))} :
                E \in Evictions(kept)}

-----------------------------------------------------------------------------
Init ==
  /\ clock = 0
  /\ minted = {}
  /\ rows = [t \in Task |-> None]
  /\ tombs = [t \in Task |-> None]
  /\ runs = [r \in Run |-> UnusedRun]
  /\ workers = [s \in Server |-> [t \in Task |-> None]]
  /\ reqs = [s \in Server |-> NoReq]
  /\ lastClaim = [t \in Task |-> None]

Tick ==
  /\ clock < MaxTime
  /\ clock' = clock + 1
  /\ UNCHANGED <<minted, rows, tombs, runs, workers, reqs, lastClaim>>

\* TasksExtension._schedule: at most one unfinished worker per process and task.
\* Bound: when the runs are used up no further worker is started.
Schedule(s, t) ==
  LET w == workers[s][t]
      unused == {r \in Run : runs[r].pc = "unused"}
  IN  IF unused = {} \/ (w # None /\ runs[w].pc \notin {"done", "gone"})
      THEN UNCHANGED <<runs, workers>>
      ELSE \E r \in unused :
             /\ runs' = [runs EXCEPT ![r] = [@ EXCEPT !.pc = "scheduled",
                                              !.task = t, !.server = s]]
             /\ workers' = [workers EXCEPT ![s][t] = r]

\* The UNIQUE constraint on a new row of key k.
KeyTaken(rs, k) == \E t \in Task : rs[t] # None /\ rs[t].key = k

\* create_or_get, first half: _maintain, then the INSERT, which creates the row
\* or hits the UNIQUE constraint.
CreateInsert(s, k, q) ==
  /\ LoopFree(s)
  /\ clock + TTL <= MaxTime
  /\ \E m \in Maintenance(rows, tombs, clock) :
       /\ tombs' = m.tombs
       /\ \/ /\ KeyTaken(m.rows, k)
             /\ rows' = m.rows
             /\ reqs' = [reqs EXCEPT ![s] =
                  [op |-> "create", task |-> None, key |-> k, request |-> q,
                   noLease |-> FALSE, at |-> clock]]
             /\ UNCHANGED minted
          \/ /\ ~KeyTaken(m.rows, k)
             /\ \E t \in Task \ minted :
                  /\ rows' = [m.rows EXCEPT ![t] = NewRow(k, q, clock)]
                  /\ minted' = minted \cup {t}
                  /\ reqs' = [reqs EXCEPT ![s] =
                       [op |-> "create", task |-> t, key |-> k, request |-> q,
                        noLease |-> FALSE, at |-> clock]]
  /\ UNCHANGED <<clock, runs, workers, lastClaim>>

\* create_or_get, second half, when SELECT finds no row of the key (another
\* process removed it: the assert fails) or one bound to another request
\* (ValueError): the request ends with an error.
CreateRefused(s) ==
  /\ reqs[s].op = "create"
  /\ \A t \in Task : Present(t) /\ rows[t].key = reqs[s].key
                     => rows[t].request # reqs[s].request
  /\ reqs' = [reqs EXCEPT ![s] = NoReq]
  /\ UNCHANGED <<clock, minted, rows, tombs, runs, workers, lastClaim>>

RowCount(rs) == Cardinality({t \in Task : rs[t] # None})

Fits(rs) == RowCount(rs) <= MaxRows

\* The capacity check of create_or_get.  The bytes may only still exceed their
\* budget when no terminal row is left to evict.
MayExceed(rs) ==
  \/ ~Fits(rs)
  \/ BytePressure /\ \A t \in Task : rs[t] # None => rs[t].status = "working"

\* create_or_get, second half: the row is the request's own; _maintain, then
\* either the capacity check deletes a row this request created, or the record
\* is returned and intercept_tool_call schedules a worker for it.
CreateSettle(s, t) ==
  /\ reqs[s].op = "create"
  /\ Present(t)
  /\ rows[t].key = reqs[s].key
  /\ rows[t].request = reqs[s].request
  /\ \E m \in Maintenance(rows, tombs, reqs[s].at) :
       /\ tombs' = m.tombs
       /\ \/ /\ reqs[s].task # None
             /\ MayExceed(m.rows)
             /\ rows' = Drop(m.rows, {reqs[s].task})
             /\ UNCHANGED <<runs, workers>>
          \/ /\ reqs[s].task # None => Fits(m.rows)
             /\ rows' = m.rows
             /\ Schedule(s, t)
  /\ reqs' = [reqs EXCEPT ![s] = NoReq]
  /\ UNCHANGED <<clock, minted, lastClaim>>

-----------------------------------------------------------------------------
(* tasks/get and tasks/cancel. *)

\* DurableTaskStore.get when the row is overdue: it is destroyed in the read.
Destroy(t) ==
  /\ rows' = Drop(rows, {t})
  /\ tombs' = Bury(tombs, {t}, "expired", clock)

IsOverdue(t) == t \in Overdue(rows, clock)

\* _require_record for a task with no usable row, whatever the method: an
\* overdue row is destroyed, for an absent one tombstone_reason maintains.
RequireFails(s, t) ==
  /\ LoopFree(s)
  /\ t \in minted
  /\ \/ IsOverdue(t) /\ Destroy(t)
     \/ /\ ~Present(t)
        /\ \E m \in Maintenance(rows, tombs, clock) :
             rows' = m.rows /\ tombs' = m.tombs
  /\ UNCHANGED <<clock, minted, runs, workers, reqs, lastClaim>>

\* tasks/get of a working task (re)schedules its worker: restart recovery.
Poll(s, t) ==
  /\ LoopFree(s)
  /\ Present(t) /\ ~IsOverdue(t)
  /\ rows[t].status = "working"
  /\ Schedule(s, t)
  /\ UNCHANGED <<clock, minted, rows, tombs, reqs, lastClaim>>

\* no_live_lease of request_cancel.
NoLiveLease(t) == rows[t].token = None \/ rows[t].expires <= clock

\* Mutant: the terminal status is not tested.
CancelReadAny(s, t) ==
  /\ LoopFree(s)
  /\ Present(t) /\ ~IsOverdue(t)
  /\ reqs' = [reqs EXCEPT ![s] = [NoReq EXCEPT !.op = "cancel", !.task = t,
                                               !.noLease = NoLiveLease(t),
                                               !.at = clock]]
  /\ UNCHANGED <<clock, minted, rows, tombs, runs, workers, lastClaim>>

\* request_cancel, the SELECT, for a task that is not terminal yet.
CancelRead(s, t) ==
  /\ LoopFree(s)
  /\ Present(t) /\ ~IsOverdue(t)
  /\ rows[t].status = "working"
  /\ reqs' = [reqs EXCEPT ![s] = [NoReq EXCEPT !.op = "cancel", !.task = t,
                                               !.noLease = NoLiveLease(t),
                                               !.at = clock]]
  /\ UNCHANGED <<clock, minted, rows, tombs, runs, workers, lastClaim>>

\* request_cancel, the UPDATE: WHERE task_id = ? and nothing else.
CancelRow(row, noLease, at) ==
  IF noLease
  THEN [row EXCEPT !.cancel = TRUE, !.updated = at, !.status = "cancelled",
                   !.token = None, !.expires = 0]
  ELSE [row EXCEPT !.cancel = TRUE, !.updated = at]

Cancelled(t, noLease, at) ==
  rows' = [rows EXCEPT ![t] = IF @ = None THEN @ ELSE CancelRow(@, noLease, at)]

CancelWrite(s) ==
  /\ reqs[s].op = "cancel"
  /\ Cancelled(reqs[s].task, reqs[s].noLease, reqs[s].at)
  /\ reqs' = [reqs EXCEPT ![s] = NoReq]
  /\ UNCHANGED <<clock, minted, tombs, runs, workers, lastClaim>>

-----------------------------------------------------------------------------
(* One execution of TasksExtension._run. *)

Finish(r) == runs' = [runs EXCEPT ![r].pc = "done"]

\* Mutant: the claim forgets the lease.
ClaimableAnyLease(t) ==
  Present(t) /\ rows[t].status = "working" /\ ~rows[t].cancel

\* claim, as one UPDATE.
Claimable(t) == /\ Present(t)
                /\ rows[t].status = "working"
                /\ ~rows[t].cancel
                /\ NoLiveLease(t)

\* Mutant: a worker that cannot claim keeps waiting for the lease.
ClaimWaits(r) ==
  LET t == runs[r].task
  IN  /\ runs[r].pc = "scheduled"
      /\ LoopFree(runs[r].server)
      /\ Claimable(t)
      /\ rows' = [rows EXCEPT ![t].token = r, ![t].updated = clock,
                              ![t].expires = clock + Lease]
      /\ runs' = [runs EXCEPT ![r].pc = "claimed",
                              ![r].grant = clock + Lease]
      /\ lastClaim' = [lastClaim EXCEPT ![t] = r]
      /\ UNCHANGED <<clock, minted, tombs, workers, reqs>>

Claim(r) ==
  LET t == runs[r].task
  IN  /\ runs[r].pc = "scheduled"
      /\ LoopFree(runs[r].server)
      /\ \/ /\ Claimable(t)
            /\ rows' = [rows EXCEPT ![t].token = r, ![t].updated = clock,
                                    ![t].expires = clock + Lease]
            /\ runs' = [runs EXCEPT ![r].pc = "claimed",
                                    ![r].grant = clock + Lease]
            /\ lastClaim' = [lastClaim EXCEPT ![t] = r]
         \/ /\ ~Claimable(t)
            /\ Finish(r)
            /\ UNCHANGED <<rows, lastClaim>>
      /\ UNCHANGED <<clock, minted, tombs, workers, reqs>>

\* is_cancel_requested, when the row is not overdue.
CancelRequested(t) ==
  ~Present(t) \/ rows[t].cancel \/ rows[t].status = "cancelled"

\* After the claim: get and is_cancel_requested, then the executor is awaited
\* or request_cancel is begun.  A row that has gone makes request_cancel raise
\* KeyError, an overdue one makes get raise; the fail that follows hits no row.
Begin(r) ==
  LET t == runs[r].task
  IN  /\ runs[r].pc = "claimed"
      /\ \/ ~Present(t) /\ Finish(r) /\ UNCHANGED <<rows, tombs>>
         \/ IsOverdue(t) /\ Finish(r) /\ Destroy(t)
         \/ /\ Present(t) /\ ~IsOverdue(t)
            /\ \/ /\ ~CancelRequested(t)
                  /\ runs' = [runs EXCEPT ![r].pc = "executing"]
               \/ /\ CancelRequested(t)
                  /\ IF rows[t].status \in Terminal THEN Finish(r)
                     ELSE runs' = [runs EXCEPT ![r].pc = "abandoning",
                                               ![r].noLease = NoLiveLease(t)]
            /\ UNCHANGED <<rows, tombs>>
      /\ UNCHANGED <<clock, minted, workers, reqs, lastClaim>>

Abandon(r) ==
  /\ runs[r].pc = "abandoning"
  /\ Cancelled(runs[r].task, runs[r].noLease, clock)
  /\ Finish(r)
  /\ UNCHANGED <<clock, minted, tombs, workers, reqs, lastClaim>>

\* Mutants: WHERE task_id = ? alone, or without the lease token.
HoldsAnyRow(r) == Present(runs[r].task)

HoldsAnyLease(r) == LET t == runs[r].task
                    IN  Present(t) /\ rows[t].status = "working"

\* The row is still this run's: WHERE status = 'working' AND lease_token = ?.
Holds(r) == LET t == runs[r].task
            IN  Present(t) /\ rows[t].status = "working" /\ rows[t].token = r

\* _heartbeat renews the lease whenever the loop lets it, expired or not.
Heartbeat(r) ==
  /\ runs[r].pc = "executing"
  /\ LoopFree(runs[r].server)
  /\ Holds(r)
  /\ runs[r].grant < clock + Lease
  /\ rows' = [rows EXCEPT ![runs[r].task].expires = clock + Lease,
                          ![runs[r].task].updated = clock]
  /\ runs' = [runs EXCEPT ![r].grant = clock + Lease]
  /\ UNCHANGED <<clock, minted, tombs, workers, reqs, lastClaim>>

\* The executor returned: is_cancel_requested decides between complete and
\* cancel_claimed; an overdue row makes it raise.
ExecutorReturns(r) ==
  LET t == runs[r].task
  IN  /\ runs[r].pc = "executing"
      /\ LoopFree(runs[r].server)
      /\ \/ IsOverdue(t) /\ Finish(r) /\ Destroy(t)
         \/ /\ ~IsOverdue(t)
            /\ runs' = [runs EXCEPT ![r].pc =
                          IF CancelRequested(t) THEN "discarding" ELSE "completing"]
            /\ UNCHANGED <<rows, tombs>>
      /\ UNCHANGED <<clock, minted, workers, reqs, lastClaim>>

EndRow(row, status, answer) ==
  [row EXCEPT !.status = status, !.updated = clock, !.token = None,
              !.expires = 0, !.answer = answer,
              !.cancel = IF status = "cancelled" THEN TRUE ELSE @]

\* complete, fail and cancel_claimed: no row is changed unless it is held.
EndAs(r, status, answer) ==
  rows' = [rows EXCEPT ![runs[r].task] =
             IF Holds(r) THEN EndRow(@, status, answer) ELSE @]

Settle(r) ==
  /\ \/ runs[r].pc = "completing" /\ EndAs(r, "completed", r)
     \/ runs[r].pc = "discarding" /\ EndAs(r, "cancelled", None)
  /\ Finish(r)
  /\ UNCHANGED <<clock, minted, tombs, workers, reqs, lastClaim>>

\* The executor raised: fail records the error receipt.
ExecutorRaises(r) ==
  /\ runs[r].pc = "executing"
  /\ LoopFree(runs[r].server)
  /\ EndAs(r, "failed", r)
  /\ Finish(r)
  /\ UNCHANGED <<clock, minted, tombs, workers, reqs, lastClaim>>

\* asyncio cancels the worker (orderly shutdown): release gives the lease back.
Release(r) ==
  /\ runs[r].pc = "executing"
  /\ LoopFree(runs[r].server)
  /\ rows' = [rows EXCEPT ![runs[r].task] =
                IF Holds(r) THEN [@ EXCEPT !.token = None, !.expires = 0,
                                           !.updated = clock]
                ELSE @]
  /\ Finish(r)
  /\ UNCHANGED <<clock, minted, tombs, workers, reqs, lastClaim>>

\* The done callback of _schedule pops the task's entry, whoever is in it.
DoneCallback(r) ==
  /\ runs[r].pc = "done"
  /\ LoopFree(runs[r].server)
  /\ runs' = [runs EXCEPT ![r].pc = "gone"]
  /\ workers' = [workers EXCEPT ![runs[r].server][runs[r].task] = None]
  /\ UNCHANGED <<clock, minted, rows, tombs, reqs, lastClaim>>

-----------------------------------------------------------------------------
\* A process dies and is started again: its workers and requests are gone, the
\* file stays, and the new store's _prepare maintains it.
Restart(s) ==
  /\ MayCrash
  /\ \E m \in Maintenance(rows, tombs, clock) :
       rows' = m.rows /\ tombs' = m.tombs
  /\ runs' = [r \in Run |-> IF runs[r].server = s
                            THEN [runs[r] EXCEPT !.pc = "gone"] ELSE runs[r]]
  /\ workers' = [workers EXCEPT ![s] = [t \in Task |-> None]]
  /\ reqs' = [reqs EXCEPT ![s] = NoReq]
  /\ UNCHANGED <<clock, minted, lastClaim>>

RunStep(r) ==
  \/ Claim(r) \/ Begin(r) \/ Abandon(r) \/ Heartbeat(r) \/ ExecutorReturns(r)
  \/ Settle(r) \/ ExecutorRaises(r) \/ Release(r) \/ DoneCallback(r)

RequestStep(s) ==
  \/ \E k \in Key, q \in Request : CreateInsert(s, k, q)
  \/ CreateRefused(s)
  \/ \E t \in Task : CreateSettle(s, t)
  \/ \E t \in Task : RequireFails(s, t)
  \/ \E t \in Task : Poll(s, t)
  \/ \E t \in Task : CancelRead(s, t)
  \/ CancelWrite(s)

Next ==
  \/ Tick
  \/ \E r \in Run : RunStep(r)
  \/ \E s \in Server : RequestStep(s) \/ Restart(s)

Spec == Init /\ [][Next]_vars

\* The event loop runs what is ready in FIFO order and the tool call ends, so a
\* worker or a request that can go on again and again does (strong fairness:
\* another handler may hold the loop in between); clients poll what they were
\* given, and time passes.
Fairness ==
  /\ WF_vars(Tick)
  /\ \A r \in Run :
       /\ WF_vars(Begin(r)) /\ WF_vars(Abandon(r)) /\ WF_vars(Settle(r))
       /\ SF_vars(Claim(r)) /\ SF_vars(DoneCallback(r))
       /\ SF_vars(ExecutorReturns(r) \/ ExecutorRaises(r))
  /\ \A s \in Server :
       /\ WF_vars(CancelWrite(s))
       /\ WF_vars(CreateRefused(s) \/ \E t \in Task : CreateSettle(s, t))
       /\ \A t \in Task : SF_vars(RequireFails(s, t) /\ Present(t))

FairSpec == Spec /\ Fairness

-----------------------------------------------------------------------------
(* Properties. *)

TypeOK ==
  /\ clock \in Nat
  /\ minted \in SUBSET Task
  /\ rows \in [Task -> RowType \cup {None}]
  /\ tombs \in [Task -> TombType \cup {None}]
  /\ runs \in [Run -> RunType]
  /\ workers \in [Server -> [Task -> Run \cup {None}]]
  /\ reqs \in [Server -> ReqType]
  /\ lastClaim \in [Task -> Run \cup {None}]

\* The lease excludes: two workers of one task, in whatever processes, never
\* both run inside the time their last claim or heartbeat granted them.  A
\* worker whose heartbeat was late may still be running when another claims the
\* task; it is then past its own grant.
LeaseExclusion ==
  \A r1, r2 \in Run :
    /\ r1 # r2
    /\ Active(r1) /\ Active(r2)
    /\ runs[r1].task = runs[r2].task
    => ~(clock < runs[r1].grant /\ clock < runs[r2].grant)

\* What a finished task answers was written by the worker that claimed it last:
\* a superseded worker that comes back late cannot put its result in the row.
AnswerFromLastClaim ==
  \A t \in Task :
    Present(t) /\ rows[t].status \in {"completed", "failed"}
    => /\ lastClaim[t] # None
       /\ rows[t].answer = lastClaim[t]

\* A cancelled task stays cancelled until its row is removed: no worker that was
\* executing, and no claim after a lapsed lease, brings it back.
CancelledIsFinal ==
  [][\A t \in Task :
       Present(t) /\ rows[t].status = "cancelled" /\ rows'[t] # None
       => rows'[t].status = "cancelled"]_vars

\* A cancelled row holds no result: cancellation discards the claimed result.
CancelledHoldsNoAnswer ==
  \A t \in Task :
    Present(t) /\ rows[t].status = "cancelled" => rows[t].answer = None

\* "Active work is never silently discarded": before its ttl a working row goes
\* only if the create that inserted it is refused for capacity.
ActiveWorkIsKept ==
  [][\A t \in Task :
       Present(t) /\ rows[t].status = "working" /\ rows'[t] = None
       => \/ rows[t].created + TTL <= clock
          \/ \E s \in Server : reqs[s].op = "create" /\ reqs[s].task = t]_vars

\* Every worker that is started ends: no worker or request holds the event loop
\* for ever, and the row it waits for cannot keep it.
WorkerEnds == \A r \in Run : runs[r].pc = "scheduled" ~> runs[r].pc = "gone"

\* Every task settles: it reaches a terminal status or its ttl destroys it, also
\* when its worker died or a cancellation left it unclaimable.
TaskSettles ==
  \A t \in Task : Present(t) /\ rows[t].status = "working"
                  ~> ~Present(t) \/ rows[t].status \in Terminal

-----------------------------------------------------------------------------
(* The contract the store implements. *)

Contract == INSTANCE TaskContract WITH
  state  <- [t \in Task |-> IF rows[t] # None THEN rows[t].status
                            ELSE IF t \in minted THEN "removed" ELSE "absent"],
  owner  <- lastClaim,
  answer <- [t \in Task |-> IF rows[t] # None THEN rows[t].answer ELSE None]

\* With one server process, tasks live exactly as their contract says.
ImplementsContract == Contract!Spec

\* With several, except that a racing cancellation may overrule an answer.
ImplementsSharedContract == Contract!SharedSpec
=============================================================================

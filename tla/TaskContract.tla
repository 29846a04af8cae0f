---------------------------- MODULE TaskContract ----------------------------
(***************************************************************************)
(* What a durable task promises its client, without rows, leases, clocks   *)
(* or processes.  A task is submitted once; workers take it, each          *)
(* superseding the one before; only the last taker may end it with an      *)
(* answer; a cancellation ends it without one; an ended task stays ended;  *)
(* at any time the store may remove it, for good.                          *)
(***************************************************************************)
CONSTANTS Task, Run, None

VARIABLES
  state,   \* where the task is in its life
  owner,   \* the worker that took it last
  answer   \* the worker whose result or error it holds

vars == <<state, owner, answer>>

Init ==
  /\ state = [t \in Task |-> "absent"]
  /\ owner = [t \in Task |-> None]
  /\ answer = [t \in Task |-> None]

\* A task is submitted while the store removes others (maintenance, perhaps {}).
Submit(t, T) ==
  /\ state[t] = "absent"
  /\ \A u \in T : state[u] \notin {"absent", "removed"}
  /\ state' = [u \in Task |-> IF u = t THEN "working"
                              ELSE IF u \in T THEN "removed" ELSE state[u]]
  /\ answer' = [u \in Task |-> IF u \in T THEN None ELSE answer[u]]
  /\ UNCHANGED owner

Take(t, r) ==
  /\ state[t] = "working"
  /\ owner' = [owner EXCEPT ![t] = r]
  /\ UNCHANGED <<state, answer>>

End(t, status) ==
  /\ state[t] = "working"
  /\ owner[t] # None
  /\ state' = [state EXCEPT ![t] = status]
  /\ answer' = [answer EXCEPT ![t] = owner[t]]
  /\ UNCHANGED owner

Cancel(t) ==
  /\ state[t] = "working"
  /\ state' = [state EXCEPT ![t] = "cancelled"]
  /\ UNCHANGED <<owner, answer>>

\* Removal takes any set of tasks: maintenance removes several at once.
Remove(T) ==
  /\ \A t \in T : state[t] \notin {"absent", "removed"}
  /\ state' = [t \in Task |-> IF t \in T THEN "removed" ELSE state[t]]
  /\ answer' = [t \in Task |-> IF t \in T THEN None ELSE answer[t]]
  /\ UNCHANGED owner

Next ==
  \/ \E t \in Task, T \in SUBSET Task : Submit(t, T)
  \/ \E t \in Task : Cancel(t)
  \/ \E t \in Task, r \in Run : Take(t, r)
  \/ \E t \in Task, status \in {"completed", "failed"} : End(t, status)
  \/ \E T \in SUBSET Task : Remove(T)

Spec == Init /\ [][Next]_vars

\* What is left of the promise when several processes share the store: a
\* cancellation may overrule an answer that came while it was being decided.
Overrule(t) ==
  /\ state[t] \in {"completed", "failed"}
  /\ state' = [state EXCEPT ![t] = "cancelled"]
  /\ UNCHANGED <<owner, answer>>

SharedSpec == Init /\ [][Next \/ \E t \in Task : Overrule(t)]_vars
=============================================================================

-------------------------- MODULE CommandContract --------------------------
(***************************************************************************)
(* What a table is promised of its commands, without processes, crashes,   *)
(* revisions, receipts or dice: a command takes effect once; it may stop   *)
(* at decisions of its own and goes on when they are answered, each once;  *)
(* while it waits nothing else takes effect; and a new timeline begins     *)
(* only while nothing waits.  Between several processes the last of these  *)
(* is not kept (SharedSpec).                                               *)
(***************************************************************************)
EXTENDS Naturals

CONSTANTS
  Command,    \* commands, by their idempotency key
  Choice,     \* answers to decisions, by their idempotency key
  Of(_),      \* the command an answer is for
  At(_),      \* which of its decisions it answers: the first, the second, ...
  Restore,    \* requests for an earlier state of the campaign
  None

VARIABLES
  outcome,    \* what a request has led to: nothing, a decision, or its effect
  waiting,    \* the command that waits for a decision
  open,       \* which of its decisions is open; 0 when nothing waits
  finished    \* the commands that have taken effect

vars == <<outcome, waiting, open, finished>>

Request == Command \cup Choice \cup Restore

TypeOK ==
  /\ outcome \in [Request -> {"none", "offer", "done"}]
  /\ waiting \in Command \cup {None}
  /\ open \in Nat
  /\ finished \subseteq Command

Init ==
  /\ outcome = [k \in Request |-> "none"]
  /\ waiting = None /\ open = 0
  /\ finished = {}

-----------------------------------------------------------------------------
\* A command takes effect at once.
Settle(c) ==
  /\ outcome[c] = "none" /\ waiting = None
  /\ outcome' = [outcome EXCEPT ![c] = "done"]
  /\ finished' = finished \cup {c}
  /\ UNCHANGED <<waiting, open>>

\* It stops at a decision.
Suspend(c) ==
  /\ outcome[c] = "none" /\ waiting = None
  /\ outcome' = [outcome EXCEPT ![c] = "offer"]
  /\ waiting' = c /\ open' = 1
  /\ UNCHANGED finished

\* An answer lets the waiting command take effect ...
Resume(q) ==
  /\ outcome[q] = "none" /\ waiting = Of(q) /\ open = At(q)
  /\ waiting \notin finished
  /\ outcome' = [outcome EXCEPT ![q] = "done"]
  /\ finished' = finished \cup {waiting}
  /\ waiting' = None /\ open' = 0

\* ... or brings it to its next decision.
AskAgain(q) ==
  /\ outcome[q] = "none" /\ waiting = Of(q) /\ open = At(q)
  /\ outcome' = [outcome EXCEPT ![q] = "offer"]
  /\ open' = open + 1
  /\ UNCHANGED <<waiting, finished>>

\* An earlier state of the campaign comes back.
TurnBack(r) ==
  /\ outcome[r] = "none" /\ waiting = None
  /\ outcome' = [outcome EXCEPT ![r] = "done"]
  /\ UNCHANGED <<waiting, open, finished>>

Next ==
  \/ \E c \in Command : Settle(c) \/ Suspend(c)
  \/ \E q \in Choice : Resume(q) \/ AskAgain(q)
  \/ \E r \in Restore : TurnBack(r)

Spec == Init /\ [][Next]_vars

\* What is left of the promise when several processes share the campaign: an
\* earlier state may come back while a command waits.  The command is given up,
\* it never takes effect and none of its decisions is answered any more.
GiveUp(r) ==
  /\ outcome[r] = "none" /\ waiting # None
  /\ outcome' = [outcome EXCEPT ![r] = "done"]
  /\ waiting' = None /\ open' = 0
  /\ UNCHANGED finished

SharedSpec == Init /\ [][Next \/ \E r \in Restore : GiveUp(r)]_vars

=============================================================================

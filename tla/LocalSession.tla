---------------------------- MODULE LocalSession ----------------------------
(***************************************************************************)
(* runtime/local_session.py in front of SaveCommands: the one local        *)
(* process freezes a request in a journal file before it dispatches it and *)
(* records the result afterwards.  A repeated request runs again on the    *)
(* frozen arguments, or is answered from the journal.  Other processes     *)
(* serve the same database without a journal.                              *)
(***************************************************************************)
EXTENDS SaveCommands

CONSTANT Local    \* the local process

ASSUME LocalAssumption == Local \in Proc

VARIABLES
  kept         \* journal: the result of a request, with the timeline it was kept on

allVars == <<db, receipt, lock, job, asked, fate, crashes, dice, decided, kept>>

Journaled(k) == Home[k] = Local

KeptType == [out : {"none", "offer", "done"}, epoch : Nat]

NotKept == [out |-> "none", epoch |-> 0]

LocalInit == Init /\ kept = [k \in Request |-> NotKept]

-----------------------------------------------------------------------------
\* A client of a server process makes up a request.
AskRemote(k) ==
  /\ ~Journaled(k)
  /\ Ask(k)
  /\ UNCHANGED <<db, receipt, lock, job, fate, crashes, History, kept>>

\* prepare and _save: the local session fills in the current revision and writes
\* the entry, arguments and binding, before anything is dispatched.
Freeze(k) ==
  /\ Journaled(k)
  /\ job[Local].pc = "idle"
  /\ Ask(k)
  /\ job' = [job EXCEPT ![Local] = [Idle EXCEPT !.pc = "frozen", !.req = k]]
  /\ UNCHANGED <<db, receipt, lock, fate, crashes, History, kept>>

\* The binding of the entry: a result is bound to the timeline it was kept on, a
\* pending entry to the one it was frozen on.
Bound(k) == IF kept[k].out # "none" THEN kept[k].epoch ELSE asked[k].epoch

\* A pending restore whose receipt is found has changed the binding itself.
RestoreReplay(k) == k \in Restore /\ kept[k].out = "none" /\ receipt[k] # None

\* Mutant: the restore that changed the timeline is refused like any other.
NeverRestoreReplay(k) == FALSE

\* Mutant: the revision is filled in again for a repeated request.
RefrozenBasis(k) == CurrentBasis(k)

\* A repeated request keeps the revision it was frozen with.
FrozenBasis(k) == asked[k].basis

\* The rest of execute, at once or when the request is repeated: an entry of
\* another timeline is refused, one without a result is dispatched on the frozen
\* arguments.  (Returning a kept result changes nothing.)
Dispatch(k) ==
  /\ Journaled(k) /\ asked[k] # None
  /\ \/ job[Local].pc = "idle"
     \/ job[Local].pc = "frozen" /\ job[Local].req = k
  /\ \/ /\ Bound(k) = db.epoch \/ RestoreReplay(k)
        /\ kept[k].out = "none"
        /\ Start(Local, k, FrozenBasis(k))
     \/ /\ Bound(k) # db.epoch /\ ~RestoreReplay(k)
        /\ job' = [job EXCEPT ![Local] = [Idle EXCEPT !.pc = "reply", !.req = k,
                                                       !.out = "error"]]
  /\ UNCHANGED <<db, receipt, lock, Client, History, kept>>

\* The result of a dispatched request is recorded with the binding it led to; an
\* error leaves the entry pending.
Record ==
  LET j == job[Local]
  IN  /\ j.pc = "reply"
      /\ job' = [job EXCEPT ![Local] = Idle]
      /\ kept' = IF j.out = "error" THEN kept
                 ELSE [kept EXCEPT ![j.req] = [out |-> j.out, epoch |-> db.epoch]]
      /\ UNCHANGED <<db, receipt, lock, Client, History>>

Server == Proc \ {Local}

LocalNext ==
  \/ \E k \in Request : AskRemote(k) \/ Freeze(k) \/ Dispatch(k)
  \/ \E p \in Server, k \in Request : Receive(p, k) /\ UNCHANGED kept
  \/ \E p \in Proc : (Step(p) \/ Crash(p)) /\ UNCHANGED kept
  \/ \E p \in Server : Reply(p) /\ UNCHANGED kept
  \/ Record
  \/ WriteSheet /\ UNCHANGED kept

LocalSpec == LocalInit /\ [][LocalNext]_allVars

-----------------------------------------------------------------------------
(* Fairness: a process that has taken a request goes on with it, and gets  *)
(* the write lock in its turn; the owner of a pending decision answers it, *)
(* and repeats the answer until one arrives.  Crashes are not fair.        *)

MayAnswer(k) ==
  k \in Choice /\ db.pending # None /\ k.of = db.pending.cmd /\ k.at = Len(db.pending.acts)

FormsAnswer == \E k \in Request : MayAnswer(k) /\ (AskRemote(k) \/ Freeze(k))

SendsAnswer ==
  \E k \in Request : /\ MayAnswer(k)
                    /\ \/ Dispatch(k)
                       \/ \E p \in Server : Receive(p, k) /\ UNCHANGED kept

Fairness ==
  /\ \A p \in Proc : WF_allVars(Step(p) /\ UNCHANGED kept)
  /\ \A p \in Server : WF_allVars(Reply(p) /\ UNCHANGED kept)
  /\ WF_allVars(job[Local].pc = "frozen" /\ \E k \in Request : Dispatch(k))
  /\ WF_allVars(Record)
  /\ SF_allVars(FormsAnswer)
  /\ SF_allVars(SendsAnswer)

FairSpec == LocalSpec /\ Fairness

-----------------------------------------------------------------------------
(* Properties.                                                             *)

LocalTypeOK == TypeOK /\ kept \in [Request -> KeptType]

\* The decisions of a command that led to a die or to a use.
AcceptedFor(c, kind) ==
  {i \in DOMAIN decided[c] : decided[c][i].kind = kind /\ decided[c][i].accept = "yes"}

Pending(c) == db.pending # None /\ db.pending.cmd = c

\* The request took effect in the timeline the campaign is on now.
InThisTimeline(k) ==
  /\ receipt[k] # None
  /\ db.epoch = receipt[k].epoch + IF k \in Restore THEN 1 ELSE 0

\* The positions of the stream that were drawn for a command.
Drawn(c) == {i \in DOMAIN dice : dice[i] = c}

\* A sequence of positions lists a set of them in the order they were drawn.
InOrder(draws) == \A i, j \in DOMAIN draws : i < j => draws[i] < draws[j]
Lists(draws, S) == InOrder(draws) /\ {draws[i] : i \in DOMAIN draws} = S

\* The dice of the stream are used once: however often a command was rolled back
\* and run again, it holds the dice stored with its decision, each at the position
\* where it was first drawn, and when it has taken effect it has used one die for
\* each roll and one for each inspiration that was accepted.
DiceOnce ==
  /\ Len(dice) = db.pos
  /\ \A c \in Command :
       /\ Pending(c) => Lists(db.pending.draws, Drawn(c))
       /\ ~Pending(c) /\ InThisTimeline(c)
            => Cardinality(Drawn(c)) = Len(Script[c]) + Cardinality(AcceptedFor(c, "inspire"))

\* The commands that have spent what their answers accepted.
Settled == {c \in Command : ~Pending(c)}

\* The uses of Legendary Resistance that accepted decisions of settled commands took.
TakenFrom(x) ==
  UNION {{<<c, i>> : i \in {n \in AcceptedFor(c, "resist") : decided[c][n].saver = x}} :
           c \in Settled}

\* Uses of Legendary Resistance and Bardic Inspiration dice are spent with the
\* effects of the command they were accepted for, as often as they were accepted,
\* and the answers a suspended command goes on with are those that were given.
UsesTally ==
  /\ \A x \in Saver :
       /\ db.uses[x] + Cardinality(TakenFrom(x)) = Uses[x]
       /\ x \in db.gift <=>
            x \in Gifted /\ \A c \in Settled : \A i \in AcceptedFor(c, "inspire") :
                               decided[c][i].saver # x
  /\ db.pending # None =>
       db.pending.acts = Append(decided[db.pending.cmd],
                                db.pending.acts[Len(db.pending.acts)])

\* A command committed with no decision of anybody: only its handler knows.
Undecided(k) == k \in Command /\ receipt[k] # None /\ receipt[k].out = "done"

\* A repeated request of the local session that has taken effect is answered with
\* what it led to, also when the process died before it answered, as long as its
\* timeline lasts.  It is refused only while another command is suspended, and a
\* command that committed undecided also when campaign or actors have moved while
\* the attempt went from its reads to its transaction; its next attempt meets the
\* receipt.
CommittedIsAnswered ==
  [][\A k \in Request :
       /\ job[Local].pc # "reply"
       /\ job'[Local].pc = "reply" /\ job'[Local].req = k /\ job'[Local].out = "error"
       /\ InThisTimeline(k)
       => \/ db.pending # None /\ k \notin Choice /\ db.pending.cmd # k
          \/ Undecided(k) /\ job[Local].pc = "enter" /\ ~Unchanged(job[Local])]_allVars

ForCommand(q) == q.of
ForDecision(q) == q.at

\* What a request has led to; the commands that took effect, at once or with the
\* answer to their last decision.
Outcome == [k \in Request |-> IF receipt[k] = None THEN "none" ELSE receipt[k].out]
Finished ==
  {c \in Command : Outcome[c] = "done" \/ \E q \in Choice : q.of = c /\ Outcome[q] = "done"}

Contract ==
  INSTANCE CommandContract
  WITH Of <- ForCommand, At <- ForDecision, outcome <- Outcome, finished <- Finished,
       waiting <- IF db.pending = None THEN None ELSE db.pending.cmd,
       open <- IF db.pending = None THEN 0 ELSE Len(db.pending.acts)

\* Processes, crashes, repeated and overtaken requests and revisions come to no
\* more than CommandContract allows several processes: every command takes effect
\* at most once, its decisions are answered once each and in order, nothing but a
\* restore takes effect meanwhile, and the command it gives up stays given up.
ImplementsContract == Contract!SharedSpec

\* One process alone keeps the whole contract.
ImplementsWholeContract == Contract!Spec

\* A suspended command does not stay suspended: its decisions are answered, each
\* in its turn, and then everybody else can act again.
DecisionSettles == db.pending # None ~> db.pending = None

=============================================================================

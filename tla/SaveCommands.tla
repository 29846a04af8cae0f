---------------------------- MODULE SaveCommands ----------------------------
(***************************************************************************)
(* Commands that roll saving throws, and the campaign database they commit *)
(* to: services/saving_throws.py with the random stream, the idempotency   *)
(* receipts and the compare-and-swap of campaign and actor revisions.      *)
(*                                                                         *)
(* An attempt runs inside one write transaction on the dice of the         *)
(* campaign's stream.  Where the owner of a roll may spend Bardic          *)
(* Inspiration or Legendary Resistance it is rolled back, and a second     *)
(* transaction stores the dice drawn so far with the open decision.        *)
(* Answering the decision runs the command again from its start on the     *)
(* stored dice and decisions.                                              *)
(***************************************************************************)
EXTENDS Integers, Sequences, FiniteSets

CONSTANTS
  Proc,        \* processes with the database open
  Command,     \* commands of SAVE_COMMANDS, one idempotency key each
  Restore,     \* snapshot_restore requests
  Saver,       \* creatures that roll
  Damage,      \* a roll nobody decides about
  Script,      \* what a command rolls, in order
  Legendary,   \* creatures with Legendary Resistance
  Uses,        \* its uses at the beginning
  Gifted,      \* creatures that hold a Bardic Inspiration die
  Choice,      \* answers to the at-th decision of a command, one key each
  Home,        \* the process a client sends a request to
  Stream,      \* streams of dice: whether the die at a position is a success
  MaxDie,      \* bound: dice of the stream
  MaxSheet,    \* bound: writes on a character's sheet alone
  MaxCrash,    \* bound: crashes
  None

ASSUME ScriptAssumption ==
  /\ IsFiniteSet(Command)
  /\ Script \in [Command -> Seq(Saver \cup {Damage})]
  /\ Damage \notin Saver
  /\ Legendary \subseteq Saver /\ Gifted \subseteq Saver
  /\ Uses \in [Saver -> Nat]

ASSUME ChoiceAssumption ==
  Choice \subseteq [of : Command, at : Nat \ {0}, yes : BOOLEAN]

ASSUME BoundAssumption == MaxDie \in Nat /\ MaxSheet \in Nat /\ MaxCrash \in Nat

ASSUME StreamAssumption == Stream \subseteq [1 .. MaxDie -> BOOLEAN]

Plain == Command \cup Restore

Request == Plain \cup Choice

Decision == [saver : Saver, kind : {"inspire", "resist"}, roll : Nat,
             accept : {"open", "yes", "no"}]

Continuation == [cmd : Command, draws : Seq(Nat), acts : Seq(Decision),
                 rev : Nat, arev : Nat, pos : Nat]

\* The revision a request names and the timeline it was read on; what came of it.
Named == [basis : Nat, epoch : Nat]
Result == [out : {"offer", "done"}, basis : Nat, epoch : Nat]

ASSUME NamesAssumption ==
  /\ None \notin Request \cup Proc \cup Continuation \cup Named \cup Result
  /\ Command \cap Restore = {} /\ Plain \cap Choice = {}
  /\ Home \in [Request -> Proc]

VARIABLES
  db,        \* the campaign: revisions, stream position, sheets, the pending decision
  receipt,   \* the idempotency receipts
  lock,      \* the process inside a write transaction
  job,       \* what each process is doing
  asked,     \* requests clients hold: the revision they name and its timeline
  fate,      \* the campaign's stream
  crashes,
  dice,      \* history: the command each position of the stream was drawn for
  decided    \* history: the decisions of each command that were answered

vars == <<db, receipt, lock, job, asked, fate, crashes, dice, decided>>

-----------------------------------------------------------------------------
Inside == {"roll", "inspire", "resist"}

Idle == [pc |-> "idle", req |-> None, basis |-> 0, out |-> "none",
         start |-> 0, pos |-> 0, rev |-> 0, arev |-> 0,
         cmd |-> None, prefix |-> << >>, acts |-> << >>,
         drawn |-> << >>, step |-> 1, idx |-> 0, roll |-> 0, ok |-> FALSE,
         spent |-> [s \in Saver |-> 0], used |-> {}]

JobType ==
  [pc : Inside \cup {"idle", "frozen", "begin", "enter", "restore", "offer", "reply"},
   req : Request \cup {None}, basis : Nat, out : {"none", "offer", "done", "error"},
   start : Nat, pos : Nat, rev : Nat, arev : Nat,
   cmd : Command \cup {None}, prefix : Seq(Nat), acts : Seq(Decision),
   drawn : Seq(Nat), step : Nat \ {0}, idx : Nat, roll : Nat, ok : BOOLEAN,
   spent : [Saver -> Nat], used : SUBSET Saver]

TypeOK ==
  /\ db \in [rev : Nat, arev : Nat, epoch : Nat, pos : Nat,
             uses : [Saver -> Nat], gift : SUBSET Saver,
             pending : Continuation \cup {None}]
  /\ receipt \in [Request -> Result \cup {None}]
  /\ lock \in Proc \cup {None}
  /\ job \in [Proc -> JobType]
  /\ \A p \in Proc : lock = p <=> job[p].pc \in Inside
  /\ asked \in [Request -> Named \cup {None}]
  /\ fate \in Stream
  /\ crashes \in 0 .. MaxCrash
  /\ dice \in Seq(Command)
  /\ decided \in [Command -> Seq(Decision)]

Fresh == [rev |-> 1, arev |-> 1, epoch |-> 1, pos |-> 0,
          uses |-> Uses, gift |-> Gifted, pending |-> None]

Init ==
  /\ db = Fresh
  /\ receipt = [k \in Request |-> None]
  /\ lock = None
  /\ job = [p \in Proc |-> Idle]
  /\ asked = [k \in Request |-> None]
  /\ fate \in Stream
  /\ crashes = 0
  /\ dice = << >>
  /\ decided = [c \in Command |-> << >>]

-----------------------------------------------------------------------------
(* Requests.                                                               *)

History == <<dice, decided>>
Client == <<asked, fate, crashes>>

\* The revision a request names: the campaign's, or for an answer the actor's.
CurrentBasis(k) == IF k \in Plain THEN db.rev ELSE db.arev

\* A client forms a request from what it has read.  It can answer only the
\* decision that is pending.
MayAsk(k) ==
  /\ asked[k] = None
  /\ k \in Choice => /\ db.pending # None
                     /\ k.of = db.pending.cmd /\ k.at = Len(db.pending.acts)

Ask(k) ==
  /\ MayAsk(k)
  /\ asked' = [asked EXCEPT ![k] = [basis |-> CurrentBasis(k), epoch |-> db.epoch]]

\* guard_request: while a decision is pending only its answer and the repeated
\* original request get through.
Admitted(k) ==
  db.pending # None => k \in Choice \/ k = db.pending.cmd

\* command_scope: the guard, then the stream as stored now.
Start(p, k, basis) ==
  job' = [job EXCEPT ![p] =
            IF Admitted(k)
            THEN [Idle EXCEPT !.pc = "begin", !.req = k, !.basis = basis,
                              !.start = db.pos, !.pos = db.pos]
            ELSE [Idle EXCEPT !.pc = "reply", !.req = k, !.out = "error"]]

\* A client sends a request, or sends it again unchanged, to a server process.
Receive(p, k) ==
  /\ job[p].pc = "idle"
  /\ asked[k] # None
  /\ Home[k] = p
  /\ Start(p, k, asked[k].basis)
  /\ UNCHANGED <<db, receipt, lock, Client, History>>

Ended(p, out) ==
  job' = [job EXCEPT ![p] = [Idle EXCEPT !.pc = "reply", !.req = job[p].req, !.out = out]]

\* The receipt of a request is found again only by the same request: the same
\* named revision on the same timeline, except that a restore names neither.
Replays(k, basis) ==
  k \in Restore \/ (receipt[k].basis = basis /\ receipt[k].epoch = db.epoch)

\* resolve: what the answer to a decision is compared with.
Answers(k, j) ==
  LET c == db.pending
  IN  /\ c # None
      /\ c.cmd = k.of /\ Len(c.acts) = k.at
      /\ j.basis = db.arev
      /\ c.rev = db.rev /\ c.arev = db.arev
      /\ c.pos = j.pos

\* The continuation with its open decision answered.
Answered(k) ==
  [db.pending.acts EXCEPT ![k.at].accept = IF k.yes THEN "yes" ELSE "no"]

-----------------------------------------------------------------------------
(* Outside the write transaction.                                          *)

\* The command has stopped at a decision: run finds that receipt at once, and the
\* receipt of one that committed with no decision only the handler itself.
Stopped(k) == receipt[k] # None /\ receipt[k].out = "offer"

\* run: the decision a command stopped at is offered again, a pending decision
\* refuses the others, otherwise the campaign and its actors are read.
BeginCommand(p) ==
  LET j == job[p] k == j.req
  IN  /\ j.pc = "begin" /\ k \in Command
      /\ \/ /\ Stopped(k)
            /\ Ended(p, IF Replays(k, j.basis) THEN "offer" ELSE "error")
         \/ /\ ~Stopped(k) /\ db.pending # None
            /\ Ended(p, "error")
         \/ /\ ~Stopped(k) /\ db.pending = None
            /\ job' = [job EXCEPT ![p] =
                         [j EXCEPT !.pc = "enter", !.rev = db.rev, !.arev = db.arev,
                                   !.cmd = k]]
      /\ UNCHANGED <<db, receipt, lock, Client, History>>

\* snapshot_restore up to its comparisons: a pending decision refuses, a receipt
\* answers, another revision than the one named is an error.  (The campaign is
\* read once for the decision and once for the revision, which tells any commit
\* between the two.)
BeginRestore(p) ==
  LET j == job[p] k == j.req
  IN  /\ j.pc = "begin" /\ k \in Restore
      /\ \/ /\ db.pending = None /\ receipt[k] # None
            /\ Ended(p, "done")
         \/ /\ db.pending = None /\ receipt[k] = None /\ j.basis = db.rev
            /\ job' = [job EXCEPT ![p].pc = "restore"]
         \/ /\ db.pending = None => receipt[k] = None /\ j.basis # db.rev
            /\ Ended(p, "error")
      /\ UNCHANGED <<db, receipt, lock, Client, History>>

\* resolve: the answer is compared with the pending decision, and the command
\* is taken up again under the current revision.
BeginChoice(p) ==
  LET j == job[p] k == j.req
  IN  /\ j.pc = "begin" /\ k \in Choice
      /\ \/ /\ receipt[k] # None
            /\ Ended(p, IF Replays(k, j.basis) THEN receipt[k].out ELSE "error")
         \/ /\ receipt[k] = None /\ ~Answers(k, j)
            /\ Ended(p, "error")
         \/ /\ receipt[k] = None /\ Answers(k, j)
            /\ job' = [job EXCEPT ![p] =
                         [j EXCEPT !.pc = "enter", !.rev = db.rev, !.arev = db.arev,
                                   !.basis = db.rev, !.cmd = k.of,
                                   !.prefix = db.pending.draws, !.acts = Answered(k)]]
      /\ UNCHANGED <<db, receipt, lock, Client, History>>

\* Mutant: the attempt does not compare what was read before its transaction.
UnchangedUnchecked(j) == TRUE

\* _attempt inside its transaction: campaign and actors are as they were read.
Unchanged(j) == db.rev = j.rev /\ db.arev = j.arev

\* The handler's own replay: the command committed on this timeline.
Committed(k) == receipt[k] # None /\ receipt[k].epoch = db.epoch

\* BEGIN IMMEDIATE: one writer.  The handler finds what it committed before, or
\* requires the revision that the request names.
Enter(p) ==
  LET j == job[p] k == j.req
  IN  /\ j.pc = "enter" /\ lock = None
      /\ \/ /\ Unchanged(j) /\ Committed(k)
            /\ Ended(p, "done")
            /\ UNCHANGED lock
         \/ /\ Unchanged(j) /\ ~Committed(k) /\ j.basis = db.rev
            /\ lock' = p
            /\ job' = [job EXCEPT ![p].pc = "roll"]
         \/ /\ Unchanged(j) => ~Committed(k) /\ j.basis # db.rev
            /\ Ended(p, "error")
            /\ UNCHANGED lock
      /\ UNCHANGED <<db, receipt, Client, History>>

Receipted(k, out) ==
  receipt' = [receipt EXCEPT ![k] = [out |-> out, basis |-> asked[k].basis,
                                     epoch |-> db.epoch]]

\* Another handler writes a character's sheet alone: the actor's revision moves
\* and the campaign's does not.  The guard keeps it out while a decision is
\* pending, and a request that read the actor before the decision was stored
\* names a revision the decision has left behind.
WriteSheet ==
  /\ lock = None /\ db.pending = None
  /\ db.arev < db.rev + MaxSheet
  /\ db' = [db EXCEPT !.arev = @ + 1]
  /\ UNCHANGED <<receipt, lock, job, Client, History>>

\* snapshots.restore: the saved campaign comes back as a new timeline under the
\* next revisions.  It is told neither the revision nor the decision that
\* snapshot_restore has looked at: what was committed since is left behind too.
RestoreSnapshot(p) ==
  LET j == job[p]
  IN  /\ j.pc = "restore" /\ lock = None
      /\ db' = [Fresh EXCEPT !.rev = db.rev + 1, !.arev = db.arev + 1,
                             !.epoch = db.epoch + 1]
      /\ Receipted(j.req, "done")
      /\ dice' = << >>
      /\ decided' = [c \in Command |-> << >>]
      /\ Ended(p, "done")
      /\ UNCHANGED <<lock, Client>>

-----------------------------------------------------------------------------
(* Inside the write transaction: one run of the command's script.          *)

\* randint: the recorded dice first, then the stream.
NextDie(j) == IF Len(j.drawn) < Len(j.prefix) THEN j.prefix[Len(j.drawn) + 1]
              ELSE j.pos + 1

\* Whether the die at a position is a success; beyond the stream none is.
Succeeds(n) == n \in 1 .. MaxDie /\ fate[n]

Draw(j) ==
  [j EXCEPT !.drawn = Append(@, NextDie(j)),
            !.pos = IF Len(j.drawn) < Len(j.prefix) THEN @ ELSE @ + 1]

Roller(j) == Script[j.cmd][j.step]

Roll(p) ==
  LET j == job[p]
  IN  /\ j.pc = "roll" /\ j.step <= Len(Script[j.cmd])
      /\ job' = [job EXCEPT ![p] =
                   IF Roller(j) = Damage THEN [Draw(j) EXCEPT !.step = @ + 1]
                   ELSE [Draw(j) EXCEPT !.pc = "inspire", !.roll = NextDie(j),
                                        !.ok = Succeeds(NextDie(j))]]
      /\ UNCHANGED <<db, receipt, lock, Client, History>>

\* settle_roll: the roller holds a die it has not spent in this command.
MayInspire(j) == j.pc = "inspire" /\ Roller(j) \in db.gift \ j.used

\* Mutant: the uses reserved by this command are not counted.
MayResistUncounted(j) ==
  /\ j.pc = "resist" /\ ~j.ok /\ Roller(j) \in Legendary
  /\ j.idx < Len(j.acts) \/ db.uses[Roller(j)] > 0

\* settle_save and save: a failed save of a creature with uses left.  While
\* recorded decisions remain the uses are not looked at.
MayResist(j) ==
  /\ j.pc = "resist" /\ ~j.ok /\ Roller(j) \in Legendary
  /\ j.idx < Len(j.acts) \/ db.uses[Roller(j)] > j.spent[Roller(j)]

MayDecide(j) == MayInspire(j) \/ MayResist(j)

AfterRoll(j) ==
  IF j.pc = "inspire" THEN [j EXCEPT !.pc = "resist"]
  ELSE [j EXCEPT !.pc = "roll", !.step = @ + 1]

\* Nobody has anything to decide.
Proceed(p) ==
  /\ job[p].pc \in {"inspire", "resist"} /\ ~MayDecide(job[p])
  /\ job' = [job EXCEPT ![p] = AfterRoll(job[p])]
  /\ UNCHANGED <<db, receipt, lock, Client, History>>

NewDecision(j) == [saver |-> Roller(j), kind |-> j.pc, roll |-> j.roll, accept |-> "open"]

\* Mutant: the transaction stays open under the decision that is offered.
RollbackForgotten == UNCHANGED lock

\* _speculative_work: an attempt that raises leaves its transaction.
Rollback == lock' = None

\* A new decision rolls the attempt back; dice and decisions stay in memory.
Suspend(p) ==
  LET j == job[p]
  IN  /\ MayDecide(j) /\ j.idx = Len(j.acts)
      /\ Rollback
      /\ job' = [job EXCEPT ![p] =
                   [Idle EXCEPT !.pc = "offer", !.req = j.req, !.start = j.start,
                                !.pos = j.pos, !.rev = j.rev, !.arev = j.arev,
                                !.cmd = j.cmd, !.drawn = j.drawn,
                                !.acts = Append(j.acts, NewDecision(j))]]
      /\ UNCHANGED <<db, receipt, Client, History>>

\* A recorded decision is for this very roll.
SameRoll(d, j) == d.saver = Roller(j) /\ d.kind = j.pc /\ d.roll = j.roll

\* inspire adds a die from the stream, save turns the failure around.
Accepted(j) ==
  IF j.pc = "inspire"
  THEN [Draw(j) EXCEPT !.used = @ \cup {Roller(j)}, !.ok = @ \/ Succeeds(NextDie(j))]
  ELSE [j EXCEPT !.spent[Roller(j)] = @ + 1]

\* A recorded decision is applied, or refused as not the one that was made.
Replay(p) ==
  LET j == [job[p] EXCEPT !.idx = @ + 1]
      d == job[p].acts[j.idx]
  IN  /\ MayDecide(job[p]) /\ job[p].idx < Len(job[p].acts)
      /\ IF SameRoll(d, j)
         THEN /\ job' = [job EXCEPT ![p] =
                          AfterRoll(IF d.accept = "yes" THEN Accepted(j) ELSE j)]
              /\ UNCHANGED lock
         ELSE /\ Ended(p, "error")
              /\ Rollback
      /\ UNCHANGED <<db, receipt, Client, History>>

NewDice(j) == [i \in 1 .. j.pos - j.start |-> j.cmd]

\* The decision that this request answered, for the history.
Decided(j) ==
  IF j.req \in Choice THEN [decided EXCEPT ![j.cmd] = Append(@, j.acts[j.req.at])]
  ELSE decided

\* Mutant: one use is taken, however many decisions accepted one.
SpentLast(j) ==
  [s \in Saver |-> IF j.spent[s] > 0 THEN db.uses[s] - 1 ELSE db.uses[s]]

Spent(j) == [s \in Saver |-> db.uses[s] - j.spent[s]]

\* The script is through and so are the recorded dice and decisions: finalize
\* and the handler's commit, in one transaction with the stream and the receipt.
Finish(p) ==
  LET j == job[p]
  IN  /\ j.pc = "roll" /\ j.step > Len(Script[j.cmd])
      /\ IF /\ Len(j.drawn) >= Len(j.prefix) /\ j.idx = Len(j.acts)
            /\ \A s \in Saver : j.spent[s] <= db.uses[s]
         THEN /\ db' = [db EXCEPT !.rev = @ + 1, !.arev = @ + 1, !.pos = j.pos,
                                  !.uses = Spent(j), !.gift = @ \ j.used,
                                  !.pending = None]
              /\ Receipted(j.req, "done")
              /\ dice' = dice \o NewDice(j)
              /\ decided' = Decided(j)
              /\ Ended(p, "done")
         ELSE /\ Ended(p, "error")
              /\ UNCHANGED <<db, receipt, History>>
      /\ lock' = None
      /\ UNCHANGED Client

-----------------------------------------------------------------------------
(* The second transaction.                                                 *)

\* Mutant: the stream is left where it was.
OfferedDiceLost(j) ==
  [db EXCEPT !.rev = @ + 1, !.arev = @ + 1,
             !.pending = [cmd |-> j.cmd, draws |-> j.drawn, acts |-> j.acts,
                          rev |-> j.rev + 1, arev |-> j.arev + 1, pos |-> j.start]]

\* Mutant: the revisions before this commit are recorded.
OfferedRevisions(j) ==
  [db EXCEPT !.rev = @ + 1, !.arev = @ + 1, !.pos = j.pos,
             !.pending = [cmd |-> j.cmd, draws |-> j.drawn, acts |-> j.acts,
                          rev |-> j.rev, arev |-> j.arev, pos |-> j.pos]]

\* The continuation, with the revisions that this commit itself leads to.
Offered(j) ==
  [db EXCEPT !.rev = @ + 1, !.arev = @ + 1, !.pos = j.pos,
             !.pending = [cmd |-> j.cmd, draws |-> j.drawn, acts |-> j.acts,
                          rev |-> j.rev + 1, arev |-> j.arev + 1, pos |-> j.pos]]

\* The decision and the dice drawn for it are stored, unless campaign or actors
\* have changed since they were read.
Offer(p) ==
  LET j == job[p]
  IN  /\ j.pc = "offer" /\ lock = None
      /\ IF Unchanged(j)
         THEN /\ db' = Offered(j)
              /\ Receipted(j.req, "offer")
              /\ dice' = dice \o NewDice(j)
              /\ decided' = Decided(j)
              /\ Ended(p, "offer")
         ELSE /\ Ended(p, "error")
              /\ UNCHANGED <<db, receipt, History>>
      /\ UNCHANGED <<lock, Client>>

\* The answer goes out.
Reply(p) ==
  /\ job[p].pc = "reply"
  /\ job' = [job EXCEPT ![p] = Idle]
  /\ UNCHANGED <<db, receipt, lock, Client, History>>

\* A process dies: its transaction is rolled back and its answer is lost.
Crash(p) ==
  /\ job[p].pc # "idle" /\ crashes < MaxCrash
  /\ crashes' = crashes + 1
  /\ job' = [job EXCEPT ![p] = Idle]
  /\ lock' = IF lock = p THEN None ELSE lock
  /\ UNCHANGED <<db, receipt, asked, fate, History>>

\* What a process does between taking a request and its answer.
Step(p) ==
  \/ BeginCommand(p) \/ BeginChoice(p) \/ BeginRestore(p)
  \/ Enter(p) \/ RestoreSnapshot(p)
  \/ Roll(p) \/ Proceed(p) \/ Suspend(p) \/ Replay(p) \/ Finish(p) \/ Offer(p)

=============================================================================

------------------------- MODULE LocalSessionProofs -------------------------
(***************************************************************************)
(* Proofs about LocalSession and SaveCommands, for any processes, commands, *)
(* scripts, answers, restores, dice and bounds.                            *)
(***************************************************************************)
EXTENDS LocalSession, FiniteSetTheorems, SequenceTheorems, TLAPS

(***************************************************************************)
(* The inductive invariant.                                                *)
(***************************************************************************)
\* A request a process works on was asked of this very process.
Addressed ==
  \A p \in Proc : job[p].pc # "idle" =>
    /\ job[p].req \in Request
    /\ Home[job[p].req] = p
    /\ asked[job[p].req] # None

\* What clients read was current once, and is of this timeline if it still is.
AskedOf(k) == IF k \in Plain THEN db.rev ELSE db.arev
Read ==
  \A k \in Request : asked[k] # None =>
    /\ asked[k].epoch <= db.epoch
    /\ asked[k].basis <= AskedOf(k)
    /\ asked[k].basis = AskedOf(k) => asked[k].epoch = db.epoch

\* The timeline after a request took effect.
Led(k, epoch) == epoch + (IF k \in Restore THEN 1 ELSE 0)

\* A result that was kept has a receipt.
Results(book) ==
  \A k \in Request : book[k].out # "none" =>
    /\ receipt[k] # None
    /\ Led(k, receipt[k].epoch) <= book[k].epoch /\ book[k].epoch <= db.epoch

\* A receipt names what was asked.
Receipts ==
  /\ \A k \in Request : receipt[k] # None =>
       /\ asked[k] # None
       /\ receipt[k].basis = asked[k].basis
       /\ k \notin Restore => receipt[k].epoch = asked[k].epoch
       /\ Led(k, receipt[k].epoch) <= db.epoch
  /\ Results(kept)
  /\ \A p \in Proc : job[p].pc = "reply" /\ job[p].out \in {"offer", "done"} =>
       receipt[job[p].req] # None

(***************************************************************************)
(* Dice and decisions of one command.                                      *)
(***************************************************************************)
\* The n-th decision was an inspiration accepted for this roll: a die came after it.
Inspired(acts, n, roll) ==
  n > 0 /\ acts[n].kind = "inspire" /\ acts[n].accept = "yes" /\ acts[n].roll = roll

\* The dice drawn end with this roll, or with the inspiration accepted for it.
EndsWith(drawn, acts, n, kind, roll) ==
  LET past == IF kind = "resist" /\ Inspired(acts, n, roll) THEN 1 ELSE 0
  IN  Len(drawn) > past /\ drawn[Len(drawn) - past] = roll

\* The dice end where the last of the decisions was to be made.
EndsAtLast(drawn, acts) ==
  IF acts = << >> THEN drawn = << >>
  ELSE LET n == Len(acts)
       IN  EndsWith(drawn, acts, n - 1, acts[n].kind, acts[n].roll)

\* The dice drawn are the recorded ones as far as they go, then new ones.
Continues(drawn, prefix, start, pos) ==
  /\ \A i \in 1 .. Len(drawn) :
       /\ i <= Len(prefix) => drawn[i] = prefix[i]
       /\ i > Len(prefix) => drawn[i] = start + i - Len(prefix)
  /\ Len(drawn) <= Len(prefix) => pos = start
  /\ Len(drawn) >= Len(prefix) => pos = start + Len(drawn) - Len(prefix)

\* Positions up to pos in the order they were drawn.
Recorded(drawn, pos) == InOrder(drawn) /\ \A i \in 1 .. Len(drawn) : drawn[i] \in 1 .. pos

Yes(acts, n, kind) == {i \in 1 .. n : acts[i].kind = kind /\ acts[i].accept = "yes"}
YesOf(acts, n, kind, x) == {i \in Yes(acts, n, kind) : acts[i].saver = x}

\* Rolls that were made.
Rolled(j) == IF j.pc = "roll" THEN j.step - 1 ELSE j.step

\* A running attempt has drawn, spent and decided what its script and the
\* recorded decisions say so far.
Running(j) ==
  /\ j.cmd \in Command
  /\ j.step <= Len(Script[j.cmd]) + 1
  /\ j.pc # "roll" => j.step <= Len(Script[j.cmd]) /\ Roller(j) \in Saver
  /\ j.idx <= Len(j.acts)
  /\ Recorded(j.prefix, j.start) /\ Continues(j.drawn, j.prefix, j.start, j.pos)
  /\ EndsAtLast(j.prefix, j.acts)
  /\ Len(j.drawn) = Rolled(j) + Cardinality(Yes(j.acts, j.idx, "inspire"))
  /\ \A x \in Saver : j.spent[x] = Cardinality(YesOf(j.acts, j.idx, "resist", x))
  /\ j.used = {j.acts[i].saver : i \in Yes(j.acts, j.idx, "inspire")}
  /\ \A i \in 1 .. j.idx :
       IF j.pc = "roll" THEN Len(j.drawn) > 0 /\ j.acts[i].roll <= j.drawn[Len(j.drawn)]
       ELSE IF j.pc = "inspire" THEN j.acts[i].roll < j.roll ELSE j.acts[i].roll <= j.roll
  /\ j.pc # "roll" => EndsWith(j.drawn, j.acts, j.idx, j.pc, j.roll)
  /\ j.idx = Len(j.acts) => Len(j.drawn) >= Len(j.prefix)

(***************************************************************************)
(* What a process works on is what the campaign holds, for as long as the  *)
(* campaign's revision is the one it read.                                 *)
(***************************************************************************)
Working == {"enter", "offer"} \cup Inside

\* The decisions and the dice a request goes on with.
Given(k) == IF k \in Choice THEN Answered(k) ELSE << >>
Base(k) == IF k \in Choice THEN db.pending.draws ELSE << >>
For(k) == IF k \in Choice THEN k.of ELSE IF k \in Command THEN k ELSE None

\* Nothing has been rolled yet.
AtStart(j) ==
  /\ j.pos = j.start /\ j.drawn = << >> /\ j.idx = 0 /\ j.step = 1
  /\ j.used = {} /\ j.spent = [x \in Saver |-> 0]

Here(j) ==
  /\ j.req \in Plain => db.pending = None
  /\ j.req \in Choice => /\ db.pending # None /\ db.pending.cmd = j.req.of
                         /\ Len(db.pending.acts) = j.req.at
  /\ asked[j.req].epoch = db.epoch
  /\ j.cmd = For(j.req)
  /\ j.start = db.pos
  /\ j.pc # "offer" => j.prefix = Base(j.req) /\ j.acts = Given(j.req)

\* The dice and the decision that are to be offered.
Offering(j) ==
  LET n == Len(j.acts)
  IN  /\ n > 0 /\ j.acts[n].accept = "open"
      /\ j.acts = Append(Given(j.req), j.acts[n])
      /\ Len(j.drawn) >= Len(Base(j.req))
      /\ Continues(j.drawn, Base(j.req), j.start, j.pos)
      /\ EndsAtLast(j.drawn, j.acts)

Grounded(j) ==
  /\ j.pc = "begin" =>
       /\ j.basis = asked[j.req].basis
       /\ AtStart(j) /\ j.prefix = << >> /\ j.acts = << >>
       /\ j.req \in Plain /\ j.basis = db.rev => j.start = db.pos
  /\ j.pc \in Working =>
       /\ receipt[j.req] = None \/ (j.pc = "enter" /\ Undecided(j.req))
       /\ j.rev <= db.rev
       /\ j.req \notin Restore
  /\ j.pc = "restore" => receipt[j.req] = None /\ j.req \in Restore
  /\ j.pc = "enter" =>
       /\ j.basis <= j.rev /\ AtStart(j)
       /\ j.req \in Plain => j.basis = asked[j.req].basis
       /\ j.rev = db.rev /\ j.basis = db.rev => Here(j)
  /\ j.pc \in Inside => j.rev = db.rev /\ Here(j) /\ Running(j)
  /\ j.pc = "offer" /\ j.rev = db.rev => Here(j) /\ Offering(j)

(***************************************************************************)
(* The campaign and its history.                                           *)
(***************************************************************************)
Suspended ==
  db.pending # None =>
    LET c == db.pending n == Len(db.pending.acts)
    IN  /\ receipt[c.cmd] # None /\ c.cmd \notin Finished
        /\ n > 0 /\ c.acts[n].accept = "open"
        /\ c.pos = db.pos
        /\ Recorded(c.draws, db.pos) /\ EndsAtLast(c.draws, c.acts)

\* A request that has not taken effect left no dice and no decisions.
Untouched ==
  \A c \in Command : receipt[c] = None =>
    Drawn(c) = {} /\ decided[c] = << >> /\ c \notin Finished

IInv ==
  /\ LocalTypeOK /\ Addressed /\ Read /\ Receipts
  /\ \A p \in Proc : Grounded(job[p])
  /\ Suspended /\ Untouched /\ DiceOnce /\ UsesTally

(***************************************************************************)
(* Processes and their jobs.                                               *)
(***************************************************************************)
LEMMA NoneIsNo == None \notin Request /\ None \notin Proc /\ None \notin Command
BY NamesAssumption DEF Request, Plain

LEMMA IdleIsJob == Idle \in JobType
BY DEF Idle, JobType

\* One process's job is replaced.
LEMMA JobReplaced ==
  ASSUME job \in [Proc -> JobType], NEW p \in Proc, NEW x \in JobType,
         job' = [job EXCEPT ![p] = x]
  PROVE  /\ job' \in [Proc -> JobType]
         /\ job'[p] = x /\ \A q \in Proc : q # p => job'[q] = job[q]
OBVIOUS

LEMMA EndedIs ==
  ASSUME job \in [Proc -> JobType], NEW p \in Proc, NEW out \in {"offer", "done", "error"},
         Ended(p, out)
  PROVE  /\ job'[p] \in JobType
         /\ job' = [job EXCEPT ![p] = job'[p]]
         /\ job'[p].pc = "reply" /\ job'[p].req = job[p].req /\ job'[p].out = out
<1> DEFINE x == [Idle EXCEPT !.pc = "reply", !.req = job[p].req, !.out = out]
<1>0. job[p].req \in Request \cup {None}
  BY DEF JobType
<1>1. x \in JobType /\ x.pc = "reply" /\ x.req = job[p].req /\ x.out = out
  BY <1>0, IdleIsJob DEF JobType
<1>2. job' = [job EXCEPT ![p] = x]
  BY DEF Ended
<1> HIDE DEF x
<1> QED BY <1>1, <1>2, JobReplaced

LEMMA StartIs ==
  ASSUME TypeOK, NEW p \in Proc, NEW k \in Request, NEW basis \in Nat, Start(p, k, basis)
  PROVE  /\ job'[p] \in JobType
         /\ job' = [job EXCEPT ![p] = job'[p]]
         /\ job'[p].req = k
         /\ \/ /\ Admitted(k) /\ job'[p].pc = "begin" /\ job'[p].basis = basis
               /\ job'[p].start = db.pos /\ AtStart(job'[p])
               /\ job'[p].prefix = << >> /\ job'[p].acts = << >>
            \/ ~Admitted(k) /\ job'[p].pc = "reply" /\ job'[p].out = "error"
<1> DEFINE x == [Idle EXCEPT !.pc = "begin", !.req = k, !.basis = basis,
                             !.start = db.pos, !.pos = db.pos]
           y == [Idle EXCEPT !.pc = "reply", !.req = k, !.out = "error"]
<1>0. db.pos \in Nat
  BY DEF TypeOK
<1>1. /\ x \in JobType /\ x.pc = "begin" /\ x.req = k /\ x.basis = basis
      /\ x.start = db.pos /\ AtStart(x) /\ x.prefix = << >> /\ x.acts = << >>
  <2>1. x \in JobType
    BY <1>0, IdleIsJob DEF JobType
  <2> QED BY <2>1 DEF Idle, AtStart
<1>2. y \in JobType /\ y.pc = "reply" /\ y.req = k /\ y.out = "error"
  BY IdleIsJob DEF JobType
<1>3. job' = [job EXCEPT ![p] = IF Admitted(k) THEN x ELSE y] /\ job \in [Proc -> JobType]
  BY DEF Start, TypeOK
<1> HIDE DEF x, y
<1> QED BY <1>1, <1>2, <1>3, JobReplaced

\* A process takes part in a step by its job alone.
LEMMA Parts ==
  ASSUME IInv
  PROVE  /\ TypeOK /\ db.rev \in Nat /\ db.arev \in Nat /\ db.epoch \in Nat /\ db.pos \in Nat
         /\ job \in [Proc -> JobType] /\ kept \in [Request -> KeptType]
         /\ \A p \in Proc : lock = p <=> job[p].pc \in Inside
         /\ \A k \in Request : asked[k] # None => asked[k].basis \in Nat /\ asked[k].epoch \in Nat
         /\ \A k \in Request : receipt[k] # None => receipt[k].basis \in Nat /\ receipt[k].epoch \in Nat
         /\ lock = None <=> \A p \in Proc : job[p].pc \notin Inside
<1>1. LocalTypeOK
  BY DEF IInv
<1>2. TypeOK /\ kept \in [Request -> KeptType]
  BY <1>1 DEF LocalTypeOK
<1>3. /\ db.rev \in Nat /\ db.arev \in Nat /\ db.epoch \in Nat /\ db.pos \in Nat
      /\ job \in [Proc -> JobType]
      /\ \A p \in Proc : lock = p <=> job[p].pc \in Inside
      /\ lock \in Proc \cup {None}
  BY <1>2 DEF TypeOK
<1>4. \A k \in Request : asked[k] # None => asked[k].basis \in Nat /\ asked[k].epoch \in Nat
  BY <1>2 DEF TypeOK, Named
<1>5. \A k \in Request : receipt[k] # None => receipt[k].basis \in Nat /\ receipt[k].epoch \in Nat
  BY <1>2 DEF TypeOK, Result
<1> QED BY <1>2, <1>3, <1>4, <1>5, NoneIsNo

(***************************************************************************)
(* A step of one process that changes its job alone.                       *)
(***************************************************************************)
LEMMA GroundedStays ==
  ASSUME NEW p \in Proc, UNCHANGED <<receipt, asked>>, Grounded(job'[p]),
         db'.rev = db.rev, db'.pos = db.pos, db'.epoch = db.epoch, db'.pending = db.pending
  PROVE  Grounded(job[p])'
<1>1. Here(job'[p]) => Here(job[p])'
  BY DEF Here, Base, Given, For, Answered
<1>2. Running(job'[p]) => Running(job[p])'
  BY DEF Running, Roller
<1>3. Offering(job'[p]) => Offering(job[p])'
  BY DEF Offering, Base, Given, Answered
<1> QED BY <1>1, <1>2, <1>3 DEF Grounded, AtStart, Undecided

\* The history says the same of a campaign that is the same.
LEMMA HistoryStays ==
  ASSUME UNCHANGED <<receipt, dice, decided>>, DiceOnce, UsesTally,
         db'.pos = db.pos, db'.epoch = db.epoch, db'.pending = db.pending,
         db'.uses = db.uses, db'.gift = db.gift
  PROVE  DiceOnce' /\ UsesTally'
<1>1. \A c \in Command : /\ Drawn(c)' = Drawn(c) /\ Pending(c)' = Pending(c)
                          /\ InThisTimeline(c)' = InThisTimeline(c)
  BY DEF Drawn, Pending, InThisTimeline
<1>2. \A c \in Command : /\ AcceptedFor(c, "inspire")' = AcceptedFor(c, "inspire")
                          /\ AcceptedFor(c, "resist")' = AcceptedFor(c, "resist")
  BY DEF AcceptedFor
<1>3. Settled' = Settled
  BY DEF Settled, Pending
<1>4. DiceOnce'
  <2>1. Len(dice) = db.pos /\ Len(dice)' = Len(dice) /\ db'.pos = db.pos
    BY DEF DiceOnce
  <2>2. ASSUME NEW c \in Command
        PROVE  /\ Pending(c)' => Lists(db.pending.draws, Drawn(c))'
               /\ (~Pending(c) /\ InThisTimeline(c))' =>
                    (Cardinality(Drawn(c)) = Len(Script[c]) + Cardinality(AcceptedFor(c, "inspire")))'
    BY <1>1, <1>2 DEF DiceOnce, Lists, InOrder
  <2> QED BY <2>1, <2>2 DEF DiceOnce
<1>5. UsesTally'
  <2>1. \A x \in Saver : TakenFrom(x)' = TakenFrom(x)
    BY DEF TakenFrom, AcceptedFor, Settled, Pending
  <2>2. (db.pending # None => db.pending.acts = Append(decided[db.pending.cmd],
                                db.pending.acts[Len(db.pending.acts)]))'
    BY DEF UsesTally
  <2>3. ASSUME NEW x \in Saver
        PROVE  /\ (db.uses[x] + Cardinality(TakenFrom(x)) = Uses[x])'
               /\ (x \in db.gift <=>
                     x \in Gifted /\ \A c \in Settled : \A i \in AcceptedFor(c, "inspire") :
                               decided[c][i].saver # x)'
    BY <1>3, <2>1 DEF UsesTally, AcceptedFor
  <2> QED BY <2>2, <2>3 DEF UsesTally
<1> QED BY <1>4, <1>5

\* Commands have taken effect by their receipts and those of their answers.
LEMMA FinishedStays ==
  ASSUME UNCHANGED receipt
  PROVE  Finished' = Finished
BY DEF Finished, Outcome

LEMMA JobStep ==
  ASSUME IInv, NEW p \in Proc,
         UNCHANGED <<db, receipt, asked, fate, dice, decided>>,
         kept' \in [Request -> KeptType], Results(kept'),
         job'[p] \in JobType, job' = [job EXCEPT ![p] = job'[p]],
         lock' = IF job'[p].pc \in Inside THEN p ELSE IF lock = p THEN None ELSE lock,
         job'[p].pc \in Inside => lock \in {None, p},
         crashes' \in 0 .. MaxCrash,
         job'[p].pc # "idle" => job'[p].req \in Request /\ Home[job'[p].req] = p
                                /\ asked[job'[p].req] # None,
         job'[p].pc = "reply" /\ job'[p].out \in {"offer", "done"} =>
           receipt[job'[p].req] # None,
         Grounded(job'[p])
  PROVE  IInv'
<1>1. /\ TypeOK /\ kept \in [Request -> KeptType] /\ job \in [Proc -> JobType]
      /\ \A q \in Proc : lock = q <=> job[q].pc \in Inside
  BY Parts
<1>2. job' \in [Proc -> JobType] /\ \A q \in Proc : q # p => job'[q] = job[q]
  BY <1>1, JobReplaced
<1>3. LocalTypeOK'
  <2>1. lock' \in Proc \cup {None}
    BY <1>1 DEF TypeOK
  <2>2. \A q \in Proc : lock' = q <=> job'[q].pc \in Inside
    <3>1. lock' = p <=> job'[p].pc \in Inside
      BY NoneIsNo
    <3>2. ASSUME NEW q \in Proc, q # p PROVE lock' = q <=> job'[q].pc \in Inside
      BY <3>2, <1>1, <1>2, NoneIsNo
    <3> QED BY <3>1, <3>2
  <2> QED BY <1>1, <1>2, <2>1, <2>2 DEF LocalTypeOK, TypeOK
<1>4. Addressed'
  BY <1>2 DEF IInv, Addressed
<1>5. Read'
  BY DEF IInv, Read, AskedOf
<1>6. Receipts'
  <2>1. Results(kept)'
    BY DEF Results, Led
  <2> QED BY <1>2, <2>1 DEF IInv, Receipts, Led
<1>7. ASSUME NEW q \in Proc PROVE Grounded(job[q])'
  <2>1. Grounded(job'[q])
    <3>1. CASE q = p
      BY <3>1
    <3>2. CASE q # p
      BY <3>2, <1>2 DEF IInv
    <3> QED BY <3>1, <3>2
  <2> QED BY <2>1, GroundedStays
<1>8. Suspended' /\ Untouched'
  BY FinishedStays DEF IInv, Suspended, Untouched, Drawn
<1>9. DiceOnce' /\ UsesTally'
  BY HistoryStays DEF IInv
<1> QED BY <1>3, <1>4, <1>5, <1>6, <1>7, <1>8, <1>9 DEF IInv

\* The results kept in the journal stay.
LEMMA KeptIs ==
  ASSUME IInv, UNCHANGED <<db, receipt, kept>>
  PROVE  kept' \in [Request -> KeptType] /\ Results(kept')
<1>1. kept \in [Request -> KeptType] /\ Results(kept)
  BY Parts DEF IInv, Receipts
<1> QED BY <1>1 DEF Results

\* A request that ends without taking effect, by a receipt or an error.
LEMMA EndedStep ==
  ASSUME IInv, NEW p \in Proc, NEW out \in {"offer", "done", "error"}, job[p].pc # "idle",
         Ended(p, out), lock' = IF lock = p THEN None ELSE lock,
         out # "error" => receipt[job[p].req] # None,
         UNCHANGED <<db, receipt, Client, History, kept>>
  PROVE  IInv'
<1>1. /\ job'[p] \in JobType
      /\ job' = [job EXCEPT ![p] = job'[p]]
      /\ job'[p].pc = "reply" /\ job'[p].req = job[p].req /\ job'[p].out = out
  BY Parts, EndedIs
<1>2. job[p].req \in Request /\ Home[job[p].req] = p /\ asked[job[p].req] # None
  BY DEF IInv, Addressed
<1>3. Grounded(job'[p])
  BY <1>1 DEF Grounded, Working, Inside
<1>4. crashes' \in 0 .. MaxCrash
  BY Parts DEF TypeOK, Client
<1>5. job'[p].pc \notin Inside
  BY <1>1 DEF Inside
<1> QED BY <1>1, <1>2, <1>3, <1>4, <1>5, KeptIs, JobStep DEF Client, History

\* A process forgets what it was doing.
LEMMA IdleStep ==
  ASSUME IInv, NEW p \in Proc, job' = [job EXCEPT ![p] = Idle],
         lock' = IF lock = p THEN None ELSE lock, crashes' \in 0 .. MaxCrash,
         kept' \in [Request -> KeptType], Results(kept'),
         UNCHANGED <<db, receipt, asked, fate, History>>
  PROVE  IInv'
<1>1. job'[p] = Idle /\ job' = [job EXCEPT ![p] = job'[p]]
  BY Parts
<1>2. Idle.pc = "idle"
  BY DEF Idle
<1>3. Grounded(job'[p])
  BY <1>1, <1>2 DEF Grounded, Working, Inside
<1>4. job'[p].pc \notin Inside
  BY <1>1, <1>2 DEF Inside
<1> QED BY <1>1, <1>2, <1>3, <1>4, IdleIsJob, JobStep DEF History

LEMMA LockIsMine ==
  ASSUME IInv, NEW p \in Proc, job[p].pc \notin Inside
  PROVE  lock = IF lock = p THEN None ELSE lock
BY Parts

LEMMA ReplyStep ==
  ASSUME IInv, NEW p \in Proc, Reply(p), UNCHANGED kept
  PROVE  IInv'
<1>1. job[p].pc \notin Inside
  BY DEF Reply, Inside
<1>2. crashes' \in 0 .. MaxCrash
  BY Parts DEF TypeOK, Reply, Client
<1> QED BY <1>1, <1>2, LockIsMine, KeptIs, IdleStep DEF Reply, Client

LEMMA CrashStep ==
  ASSUME IInv, NEW p \in Proc, Crash(p), UNCHANGED kept
  PROVE  IInv'
<1>1. crashes' \in 0 .. MaxCrash
  BY Parts, BoundAssumption DEF TypeOK, Crash
<1> QED BY <1>1, KeptIs, IdleStep DEF Crash

LEMMA RecordStep ==
  ASSUME IInv, Record
  PROVE  IInv'
<1> DEFINE j == job[Local]
<1>1. Local \in Proc /\ j \in JobType /\ j.pc = "reply" /\ j.pc \notin Inside
  BY Parts, LocalAssumption DEF Record, Inside
<1>2. j.req \in Request
  BY <1>1 DEF IInv, Addressed
<1>3. kept' \in [Request -> KeptType] /\ Results(kept')
  <2>1. CASE j.out = "error"
    BY <2>1, KeptIs DEF Record
  <2>2. CASE j.out # "error"
    <3>1. kept' = [kept EXCEPT ![j.req] = [out |-> j.out, epoch |-> db.epoch]]
      BY <2>2 DEF Record
    <3>2. j.out \in {"none", "offer", "done"} /\ (j.out # "none" => receipt[j.req] # None)
      BY <1>1, <2>2 DEF IInv, Receipts, JobType
    <3>3. /\ receipt[j.req] # None => Led(j.req, receipt[j.req].epoch) <= db.epoch
          /\ db.epoch \in Nat
      BY <1>2, <3>2, Parts DEF IInv, Receipts
    <3>4. kept \in [Request -> KeptType] /\ Results(kept)
      BY Parts DEF IInv, Receipts
    <3>5. [out |-> j.out, epoch |-> db.epoch] \in KeptType
      BY <3>2, <3>3 DEF KeptType
    <3> HIDE DEF j
    <3>6. kept' \in [Request -> KeptType]
      BY <3>1, <3>4, <3>5
    <3>7. ASSUME NEW k \in Request, kept'[k].out # "none"
          PROVE  /\ receipt[k] # None
                 /\ Led(k, receipt[k].epoch) <= kept'[k].epoch /\ kept'[k].epoch <= db.epoch
      <4>1. CASE k = j.req
        BY <1>2, <3>1, <3>2, <3>3, <3>4, <3>7, <4>1
      <4>2. CASE k # j.req
        BY <3>1, <3>4, <3>7, <4>2 DEF Results
      <4> QED BY <4>1, <4>2
    <3> QED BY <3>6, <3>7 DEF Results
  <2> QED BY <2>1, <2>2
<1>4. crashes' \in 0 .. MaxCrash
  BY Parts DEF TypeOK, Record, Client
<1> QED BY <1>1, <1>3, <1>4, LockIsMine, IdleStep DEF Record, Client

(***************************************************************************)
(* Requests are asked, received and begun.                                 *)
(***************************************************************************)
LEMMA StartStep ==
  ASSUME IInv, NEW p \in Proc, NEW k \in Request, asked[k] # None, Home[k] = p,
         job[p].pc \notin Inside, Start(p, k, asked[k].basis),
         UNCHANGED <<db, receipt, lock, Client, History, kept>>
  PROVE  IInv'
<1>1. asked[k].basis \in Nat /\ TypeOK
  <2>1. \A q \in Request : asked[q] # None => asked[q].basis \in Nat /\ asked[q].epoch \in Nat
    BY Parts
  <2> QED BY <2>1, Parts
<1>2. /\ job'[p] \in JobType
      /\ job' = [job EXCEPT ![p] = job'[p]]
      /\ job'[p].req = k
      /\ \/ /\ Admitted(k) /\ job'[p].pc = "begin" /\ job'[p].basis = asked[k].basis
            /\ job'[p].start = db.pos /\ AtStart(job'[p])
            /\ job'[p].prefix = << >> /\ job'[p].acts = << >>
         \/ ~Admitted(k) /\ job'[p].pc = "reply" /\ job'[p].out = "error"
  BY <1>1, StartIs
<1>3. job'[p].pc \notin Inside \cup Working /\ job'[p].pc \in {"begin", "reply"}
  BY <1>2 DEF Inside, Working
<1>4. Grounded(job'[p])
  BY <1>2, <1>3 DEF Grounded, Working, AtStart
<1>5. crashes' \in 0 .. MaxCrash
  BY <1>1 DEF TypeOK, Client
<1>6. job'[p].pc = "reply" => job'[p].out = "error"
  BY <1>2
<1> QED BY <1>2, <1>3, <1>4, <1>5, <1>6, KeptIs, LockIsMine, JobStep DEF Client, History

LEMMA ReceiveStep ==
  ASSUME IInv, NEW p \in Proc, NEW k \in Request, Receive(p, k), UNCHANGED kept
  PROVE  IInv'
<1>1. job[p].pc \notin Inside
  BY DEF Receive, Inside
<1> QED BY <1>1, StartStep DEF Receive

LEMMA DispatchStep ==
  ASSUME IInv, NEW k \in Request, Dispatch(k)
  PROVE  IInv'
<1>1. Local \in Proc /\ Home[k] = Local /\ asked[k] # None
  BY LocalAssumption DEF Dispatch, Journaled
<1>2. job[Local].pc \notin Inside
  BY DEF Dispatch, Inside
<1>3. CASE Start(Local, k, FrozenBasis(k))
  BY <1>1, <1>2, <1>3, StartStep DEF Dispatch, FrozenBasis
<1>4. CASE job' = [job EXCEPT ![Local] = [Idle EXCEPT !.pc = "reply", !.req = k, !.out = "error"]]
  <2> DEFINE x == [Idle EXCEPT !.pc = "reply", !.req = k, !.out = "error"]
  <2>1. x \in JobType
    BY IdleIsJob DEF JobType
  <2>2. x.pc = "reply" /\ x.req = k /\ x.out = "error"
    BY DEF Idle
  <2>3. job'[Local] = x /\ job' = [job EXCEPT ![Local] = job'[Local]]
    BY <1>4, <1>1, Parts
  <2> HIDE DEF x
  <2>4. Grounded(job'[Local]) /\ job'[Local].pc \notin Inside
    BY <2>2, <2>3 DEF Grounded, Working, Inside
  <2>5. crashes' \in 0 .. MaxCrash
    BY Parts DEF TypeOK, Dispatch, Client
  <2> QED BY <1>1, <1>2, <2>1, <2>2, <2>3, <2>4, <2>5, KeptIs, LockIsMine, JobStep
          DEF Dispatch, Client, History
<1> QED BY <1>3, <1>4 DEF Dispatch

\* What every process reads of a begun request.
LEMMA BeganIs ==
  ASSUME IInv, NEW p \in Proc, job[p].pc = "begin"
  PROVE  /\ job[p] \in JobType
         /\ job[p].req \in Request /\ Home[job[p].req] = p /\ asked[job[p].req] # None
         /\ job[p].basis = asked[job[p].req].basis
         /\ AtStart(job[p]) /\ job[p].prefix = << >> /\ job[p].acts = << >>
         /\ job[p].req \in Plain /\ job[p].basis = db.rev => job[p].start = db.pos
         /\ lock = IF lock = p THEN None ELSE lock
<1>1. job[p] \in JobType
  BY Parts
<1>2. Grounded(job[p]) /\ Addressed
  BY DEF IInv
<1> QED BY <1>1, <1>2, LockIsMine DEF Grounded, Addressed, Inside

LEMMA BeginCommandStep ==
  ASSUME IInv, NEW p \in Proc, BeginCommand(p), UNCHANGED kept
  PROVE  IInv'
<1> DEFINE j == job[p] k == j.req
           x == [j EXCEPT !.pc = "enter", !.rev = db.rev, !.arev = db.arev, !.cmd = k]
<1>1. j.pc = "begin" /\ k \in Command /\ k \in Plain /\ k \notin Choice /\ k \notin Restore
  BY NamesAssumption DEF BeginCommand, Plain
<1>2. CASE Stopped(k)
  BY <1>1, <1>2, BeganIs, EndedStep DEF BeginCommand, Stopped
<1>3. CASE ~Stopped(k) /\ db.pending # None
  BY <1>1, <1>3, BeganIs, EndedStep DEF BeginCommand
<1>4. CASE ~Stopped(k) /\ db.pending = None
  <2>1. job' = [job EXCEPT ![p] = x] /\ job \in [Proc -> JobType] /\ j \in JobType
    BY <1>4, Parts DEF BeginCommand
  <2>2. db.rev \in Nat /\ db.arev \in Nat
    BY Parts
  <2>3. x \in JobType /\ x.pc = "enter" /\ x.req = k /\ x.rev = db.rev /\ x.basis = j.basis
        /\ x.start = j.start /\ x.prefix = j.prefix /\ x.acts = j.acts /\ x.cmd = k
        /\ x.pos = j.pos /\ x.drawn = j.drawn /\ x.idx = j.idx /\ x.step = j.step
        /\ x.used = j.used /\ x.spent = j.spent
    <3> HIDE DEF j, k
    <3>1. x = [j EXCEPT !.pc = "enter", !.rev = db.rev, !.arev = db.arev, !.cmd = k]
          /\ k = j.req /\ k \in Command
      BY <1>1 DEF k
    <3> QED BY <2>1, <2>2, <3>1 DEF JobType
  <2>4. job'[p] = x /\ job' = [job EXCEPT ![p] = job'[p]]
    BY <2>1
  <2>5. /\ k \in Request /\ Home[k] = p /\ asked[k] # None
        /\ j.basis = asked[k].basis /\ AtStart(j) /\ j.prefix = << >> /\ j.acts = << >>
        /\ j.basis = db.rev => j.start = db.pos
        /\ lock = IF lock = p THEN None ELSE lock
    BY <1>1, BeganIs
  <2>6. j.basis <= db.rev /\ (j.basis = db.rev => asked[k].epoch = db.epoch)
    BY <1>1, <2>5 DEF IInv, Read, AskedOf
  <2>7. receipt[k] = None \/ Undecided(k)
    <3>1. receipt[k] # None => receipt[k].out \in {"offer", "done"}
      BY <2>5, Parts DEF TypeOK, Result
    <3> QED BY <1>1, <1>4, <3>1 DEF Stopped, Undecided
  <2> HIDE DEF x, j, k
  <2>8. AtStart(x)
    BY <2>3, <2>5 DEF AtStart
  <2>9. j.basis = db.rev => Here(x)
    BY <1>1, <1>4, <2>3, <2>5, <2>6 DEF Here, For, Base, Given
  <2>10. Grounded(x)
    BY <1>1, <2>2, <2>3, <2>5, <2>6, <2>7, <2>8, <2>9 DEF Grounded, Inside
  <2>11. crashes' \in 0 .. MaxCrash
    BY Parts DEF TypeOK, BeginCommand, Client
  <2> QED BY <2>3, <2>4, <2>5, <2>10, <2>11, KeptIs, JobStep
          DEF BeginCommand, Client, History, Inside
<1> QED BY <1>2, <1>3, <1>4

LEMMA BeginRestoreStep ==
  ASSUME IInv, NEW p \in Proc, BeginRestore(p), UNCHANGED kept
  PROVE  IInv'
<1> DEFINE j == job[p] k == j.req x == [j EXCEPT !.pc = "restore"]
<1>1. j.pc = "begin" /\ k \in Restore /\ UNCHANGED <<db, receipt, lock, Client, History, kept>>
  BY DEF BeginRestore
<1>2. /\ j \in JobType /\ k \in Request /\ Home[k] = p /\ asked[k] # None
      /\ lock = IF lock = p THEN None ELSE lock
  BY <1>1, BeganIs
<1>3. CASE Ended(p, "error")
  BY <1>1, <1>2, <1>3, EndedStep
<1>4. CASE Ended(p, "done") /\ receipt[k] # None
  BY <1>1, <1>2, <1>4, EndedStep
<1>5. CASE job' = [job EXCEPT ![p].pc = "restore"] /\ receipt[k] = None
  <2>1. job' = [job EXCEPT ![p] = x] /\ job \in [Proc -> JobType]
    BY <1>5, Parts
  <2>2. x \in JobType /\ x.pc = "restore" /\ x.req = k
    <3> HIDE DEF j
    <3> QED BY <1>2 DEF JobType
  <2>3. job'[p] = x /\ job' = [job EXCEPT ![p] = job'[p]]
    BY <2>1
  <2> HIDE DEF x, j, k
  <2>4. Grounded(x) /\ x.pc \notin Inside
    BY <1>1, <1>5, <2>2 DEF Grounded, Working, Inside
  <2>5. crashes' \in 0 .. MaxCrash
    BY <1>1, Parts DEF TypeOK, Client
  <2> QED BY <1>1, <1>2, <2>2, <2>3, <2>4, <2>5, KeptIs, JobStep DEF Client, History
<1> QED BY <1>3, <1>4, <1>5 DEF BeginRestore

\* The pending decision, and the decisions once it is answered.
LEMMA PendingIs ==
  ASSUME IInv, db.pending # None
  PROVE  /\ db.pending.cmd \in Command /\ receipt[db.pending.cmd] # None
         /\ db.pending.cmd \notin Finished
         /\ db.pending.draws \in Seq(Nat) /\ db.pending.acts \in Seq(Decision)
         /\ Len(db.pending.acts) > 0
         /\ db.pending.acts[Len(db.pending.acts)].accept = "open"
         /\ db.pending.pos = db.pos
         /\ Recorded(db.pending.draws, db.pos) /\ EndsAtLast(db.pending.draws, db.pending.acts)
<1>1. db.pending \in Continuation
  BY Parts DEF TypeOK
<1>2. Suspended
  BY DEF IInv
<1> QED BY <1>1, <1>2 DEF Continuation, Suspended

\* An answer changes nothing but whether the last decision was accepted.
Answer(acts, given) ==
  /\ given \in Seq(Decision) /\ Len(given) = Len(acts)
  /\ \A i \in 1 .. Len(acts) :
       /\ given[i].saver = acts[i].saver /\ given[i].kind = acts[i].kind
       /\ given[i].roll = acts[i].roll
       /\ i < Len(acts) => given[i] = acts[i]
  /\ given[Len(acts)].accept # "open"

LEMMA AnsweredIs ==
  ASSUME IInv, NEW k \in Choice, db.pending # None, Len(db.pending.acts) = k.at
  PROVE  Answer(db.pending.acts, Answered(k))
<1> DEFINE a == db.pending.acts
           v == IF k.yes THEN "yes" ELSE "no"
<1>1. a \in Seq(Decision) /\ Len(a) > 0 /\ k.at = Len(a)
  BY PendingIs
<1>2. Answered(k) = [a EXCEPT ![k.at] = [a[k.at] EXCEPT !.accept = v]] /\ v \in {"yes", "no"}
  BY DEF Answered
<1> HIDE DEF a, v
<1>3. k.at \in 1 .. Len(a) /\ a[k.at] \in Decision
  BY <1>1
<1> DEFINE d == [a[k.at] EXCEPT !.accept = v]
<1>4. d \in Decision /\ d.saver = a[k.at].saver /\ d.kind = a[k.at].kind
      /\ d.roll = a[k.at].roll /\ d.accept = v
  BY <1>2, <1>3 DEF Decision
<1> HIDE DEF d
<1>5. Answered(k) = [a EXCEPT ![k.at] = d]
  BY <1>2 DEF d
<1>6. Answered(k) \in Seq(Decision) /\ Len(Answered(k)) = Len(a)
      /\ Answered(k)[k.at] = d /\ \A i \in 1 .. Len(a) : i # k.at => Answered(k)[i] = a[i]
  BY <1>1, <1>3, <1>4, <1>5, ExceptSeq
<1> QED BY <1>1, <1>2, <1>3, <1>4, <1>6 DEF Answer, a

LEMMA BeginChoiceStep ==
  ASSUME IInv, NEW p \in Proc, BeginChoice(p), UNCHANGED kept
  PROVE  IInv'
<1> DEFINE j == job[p] k == j.req
           x == [j EXCEPT !.pc = "enter", !.rev = db.rev, !.arev = db.arev,
                          !.basis = db.rev, !.cmd = k.of,
                          !.prefix = db.pending.draws, !.acts = Answered(k)]
<1>1. j.pc = "begin" /\ k \in Choice /\ k \notin Plain
  BY NamesAssumption DEF BeginChoice
<1>2. CASE receipt[k] # None
  <2>1. Replays(k, j.basis) => receipt[k].out \in {"offer", "done"}
    BY <1>2, <1>1, Parts DEF TypeOK, Request, Result
  <2> QED BY <1>1, <1>2, <2>1, BeganIs, EndedStep DEF BeginChoice
<1>3. CASE receipt[k] = None /\ ~Answers(k, j)
  BY <1>1, <1>3, BeganIs, EndedStep DEF BeginChoice
<1>4. CASE receipt[k] = None /\ Answers(k, j)
  <2>1. job' = [job EXCEPT ![p] = x] /\ job \in [Proc -> JobType] /\ j \in JobType
    BY <1>4, Parts DEF BeginChoice
  <2>2. db.rev \in Nat /\ db.arev \in Nat
    BY Parts
  <2>3. /\ db.pending # None /\ db.pending.cmd = k.of /\ Len(db.pending.acts) = k.at
        /\ j.basis = db.arev /\ db.pending.pos = j.pos
    BY <1>4 DEF Answers
  <2>4. /\ db.pending.draws \in Seq(Nat) /\ k.of \in Command /\ db.pending.pos = db.pos
        /\ Answered(k) \in Seq(Decision)
    BY <1>1, <2>3, PendingIs, AnsweredIs DEF Answer
  <2>5. /\ k \in Request /\ Home[k] = p /\ asked[k] # None
        /\ j.basis = asked[k].basis /\ AtStart(j)
        /\ lock = IF lock = p THEN None ELSE lock
    BY <1>1, BeganIs
  <2>6. x \in JobType /\ x.pc = "enter" /\ x.req = k /\ x.rev = db.rev /\ x.basis = db.rev
        /\ x.start = j.start /\ x.prefix = db.pending.draws /\ x.acts = Answered(k)
        /\ x.cmd = k.of
        /\ x.pos = j.pos /\ x.drawn = j.drawn /\ x.idx = j.idx /\ x.step = j.step
        /\ x.used = j.used /\ x.spent = j.spent
    <3> HIDE DEF j
    <3> QED BY <2>1, <2>2, <2>4 DEF JobType
  <2>7. job'[p] = x /\ job' = [job EXCEPT ![p] = job'[p]]
    BY <2>1
  <2>8. asked[k].epoch = db.epoch
    BY <1>1, <2>3, <2>5 DEF IInv, Read, AskedOf
  <2> HIDE DEF x, j, k
  <2>9. AtStart(x) /\ x.start = db.pos
    BY <2>3, <2>4, <2>5, <2>6 DEF AtStart
  <2>10. Here(x)
    BY <1>1, <2>3, <2>6, <2>8, <2>9 DEF Here, For, Base, Given
  <2>11. k \notin Restore
    BY <1>1 DEF Plain
  <2>12. Grounded(x)
    BY <1>1, <1>4, <2>2, <2>6, <2>9, <2>10, <2>11 DEF Grounded, Inside
  <2>13. crashes' \in 0 .. MaxCrash
    BY Parts DEF TypeOK, BeginChoice, Client
  <2> QED BY <2>5, <2>6, <2>7, <2>12, <2>13, KeptIs, JobStep
          DEF BeginChoice, Client, History, Inside
<1> QED BY <1>2, <1>3, <1>4 DEF BeginChoice

\* A client forms a request, and the local session freezes it.
LEMMA AskStep ==
  ASSUME IInv, NEW k \in Request, Ask(k),
         UNCHANGED <<db, receipt, lock, fate, crashes, History, kept>>,
         job' \in [Proc -> JobType],
         \A q \in Proc : \/ job'[q] = job[q]
                         \/ /\ job[q].pc = "idle" /\ Home[k] = q
                            /\ job'[q].pc = "frozen" /\ job'[q].req = k
  PROVE  IInv'
<1> DEFINE e == [basis |-> CurrentBasis(k), epoch |-> db.epoch]
<1>1. /\ TypeOK /\ job \in [Proc -> JobType] /\ db.epoch \in Nat
      /\ kept \in [Request -> KeptType] /\ \A q \in Proc : lock = q <=> job[q].pc \in Inside
  BY Parts
<1>2. e \in Named /\ e # None /\ e.basis = CurrentBasis(k) /\ e.epoch = db.epoch
  BY Parts, NamesAssumption DEF CurrentBasis, Named
<1>3. asked[k] = None /\ asked' = [asked EXCEPT ![k] = e]
      /\ asked \in [Request -> Named \cup {None}]
  BY <1>1 DEF Ask, MayAsk, TypeOK
<1> HIDE DEF e
<1>4. /\ asked' \in [Request -> Named \cup {None}]
      /\ asked'[k] = e /\ \A m \in Request : m # k => asked'[m] = asked[m]
  BY <1>2, <1>3
<1>5. ASSUME NEW q \in Proc
      PROVE  /\ lock' = q <=> job'[q].pc \in Inside
             /\ job'[q] # job[q] => /\ job'[q].pc = "frozen" /\ job'[q].req = k
                                    /\ Home[k] = q
  BY <1>1 DEF Inside
<1>6. LocalTypeOK'
  BY <1>1, <1>4, <1>5 DEF LocalTypeOK, TypeOK, History
<1>7. Addressed'
  <2>1. \A q \in Proc : job[q].pc # "idle" => job[q].req # k
    BY <1>3 DEF IInv, Addressed
  <2> QED BY <1>2, <1>4, <1>5, <2>1 DEF IInv, Addressed
<1>8. Read'
  <2>1. CurrentBasis(k) = AskedOf(k) /\ AskedOf(k) \in Nat
    BY Parts DEF CurrentBasis, AskedOf
  <2>2. ASSUME NEW m \in Request PROVE AskedOf(m)' = AskedOf(m)
    BY DEF AskedOf
  <2> QED BY <1>1, <1>2, <1>4, <2>1, <2>2 DEF IInv, Read
<1>9. Receipts'
  <2>1. receipt[k] = None
    BY <1>3 DEF IInv, Receipts
  <2>2. Results(kept)'
    BY DEF IInv, Receipts, Results, Led
  <2> QED BY <1>4, <1>5, <2>1, <2>2 DEF IInv, Receipts, Led
<1>10. ASSUME NEW q \in Proc PROVE Grounded(job[q])'
  <2>1. CASE job'[q].pc = "frozen"
    BY <2>1 DEF Grounded, Working, Inside
  <2>2. CASE job'[q] = job[q] /\ job[q].pc \in {"begin"} \cup Working
    <3>1. job[q].req # k /\ job[q].req \in Request
      BY <1>3, <2>2 DEF IInv, Addressed, Working, Inside
    <3>2. asked'[job[q].req] = asked[job[q].req] /\ Grounded(job[q])
      BY <1>4, <3>1 DEF IInv
    <3>3. Here(job[q]) => Here(job[q])'
      BY <2>2, <3>2 DEF Here, Base, Given, For, Answered
    <3>4. Running(job[q]) => Running(job[q])'
      BY <2>2 DEF Running, Roller
    <3>5. Offering(job[q]) => Offering(job[q])'
      BY <2>2 DEF Offering, Base, Given, Answered
    <3> QED BY <2>2, <3>2, <3>3, <3>4, <3>5 DEF Grounded, AtStart, Undecided
  <2>3. CASE job'[q] = job[q] /\ job[q].pc \notin {"begin"} \cup Working
    BY <2>3 DEF IInv, Grounded, Working
  <2> QED BY <1>5, <2>1, <2>2, <2>3
<1>11. Suspended' /\ Untouched'
  BY FinishedStays DEF IInv, Suspended, Untouched, Drawn, History
<1>12. DiceOnce' /\ UsesTally'
  BY HistoryStays DEF IInv, History
<1> QED BY <1>6, <1>7, <1>8, <1>9, <1>10, <1>11, <1>12 DEF IInv

LEMMA AskRemoteStep ==
  ASSUME IInv, NEW k \in Request, AskRemote(k)
  PROVE  IInv'
BY AskStep, Parts DEF AskRemote

LEMMA FreezeStep ==
  ASSUME IInv, NEW k \in Request, Freeze(k)
  PROVE  IInv'
<1> DEFINE x == [Idle EXCEPT !.pc = "frozen", !.req = k]
<1>1. x \in JobType
  BY IdleIsJob DEF JobType
<1>2. x.pc = "frozen" /\ x.req = k
  BY DEF Idle
<1>3. job' = [job EXCEPT ![Local] = x]
  BY DEF Freeze
<1> HIDE DEF x
<1>4. job' \in [Proc -> JobType] /\ job'[Local] = x
      /\ \A q \in Proc : q # Local => job'[q] = job[q]
  BY <1>1, <1>3, Parts, LocalAssumption
<1> QED BY <1>2, <1>4, AskStep DEF Freeze, Journaled

(***************************************************************************)
(* Dice.                                                                   *)
(***************************************************************************)
\* The dice an attempt has drawn are in order, at positions of the stream.
LEMMA DrawsInOrder ==
  ASSUME NEW drawn \in Seq(Nat), NEW prefix \in Seq(Nat), NEW start \in Nat, NEW pos \in Nat,
         Recorded(prefix, start), Continues(drawn, prefix, start, pos)
  PROVE  Recorded(drawn, pos) /\ pos >= start
<1>0. Len(drawn) \in Nat /\ Len(prefix) \in Nat
  OBVIOUS
<1>1. pos >= start
  BY <1>0 DEF Continues
<1>2. ASSUME NEW i \in 1 .. Len(drawn)
      PROVE  /\ i <= Len(prefix) => drawn[i] = prefix[i] /\ prefix[i] \in 1 .. start
             /\ i > Len(prefix) => drawn[i] = start + i - Len(prefix) /\ drawn[i] <= pos
  BY <1>0 DEF Continues, Recorded
<1>3. ASSUME NEW i \in 1 .. Len(drawn) PROVE drawn[i] \in 1 .. pos
  <2>1. CASE i <= Len(prefix)
    BY <1>0, <1>1, <1>2, <2>1
  <2>2. CASE i > Len(prefix)
    <3>1. drawn[i] = start + i - Len(prefix) /\ drawn[i] <= pos
      BY <1>2, <2>2
    <3> QED BY <1>0, <2>2, <3>1
  <2> QED BY <1>0, <2>1, <2>2
<1>4. ASSUME NEW i \in 1 .. Len(drawn), NEW k \in 1 .. Len(drawn), i < k
      PROVE  drawn[i] < drawn[k]
  <2>1. CASE k <= Len(prefix)
    <3>1. i \in DOMAIN prefix /\ k \in DOMAIN prefix
      BY <1>4, <2>1
    <3>2. prefix[i] < prefix[k]
      BY <1>4, <3>1 DEF Recorded, InOrder
    <3>3. drawn[i] = prefix[i] /\ drawn[k] = prefix[k]
      BY <1>0, <1>2, <1>4, <2>1
    <3> QED BY <3>2, <3>3
  <2>2. CASE k > Len(prefix) /\ i <= Len(prefix)
    <3>1. drawn[k] = start + k - Len(prefix) /\ drawn[i] = prefix[i] /\ prefix[i] \in 1 .. start
      BY <1>2, <2>2
    <3> QED BY <1>0, <2>2, <3>1
  <2>3. CASE i > Len(prefix)
    <3>1. drawn[k] = start + k - Len(prefix) /\ drawn[i] = start + i - Len(prefix)
      BY <1>0, <1>2, <1>4, <2>3
    <3> QED BY <1>0, <1>4, <3>1
  <2> QED BY <1>0, <2>1, <2>2, <2>3
<1>5. DOMAIN drawn = 1 .. Len(drawn)
  OBVIOUS
<1> QED BY <1>1, <1>3, <1>4, <1>5 DEF Recorded, InOrder

\* What drawing a die does to an attempt.
LEMMA DrawIs ==
  ASSUME NEW j \in JobType
  PROVE  /\ NextDie(j) \in Nat /\ Draw(j) \in JobType
         /\ Draw(j).drawn = Append(j.drawn, NextDie(j))
         /\ Draw(j).pos = (IF Len(j.drawn) < Len(j.prefix) THEN j.pos ELSE j.pos + 1)
         /\ Draw(j).pc = j.pc /\ Draw(j).req = j.req /\ Draw(j).start = j.start
         /\ Draw(j).rev = j.rev /\ Draw(j).cmd = j.cmd /\ Draw(j).prefix = j.prefix
         /\ Draw(j).acts = j.acts /\ Draw(j).step = j.step /\ Draw(j).idx = j.idx
         /\ Draw(j).roll = j.roll /\ Draw(j).spent = j.spent /\ Draw(j).used = j.used
         /\ Draw(j).ok = j.ok
<1>1. j.drawn \in Seq(Nat) /\ j.prefix \in Seq(Nat) /\ j.pos \in Nat
  BY DEF JobType
<1>2. NextDie(j) \in Nat
  BY <1>1 DEF NextDie
<1> DEFINE d == Append(j.drawn, NextDie(j))
           q == IF Len(j.drawn) < Len(j.prefix) THEN j.pos ELSE j.pos + 1
<1>3. d \in Seq(Nat) /\ q \in Nat
  BY <1>1, <1>2
<1>4. Draw(j) = [j EXCEPT !.drawn = d, !.pos = q]
  BY DEF Draw
<1> HIDE DEF d, q
<1>5. Draw(j) \in JobType
  BY <1>3, <1>4 DEF JobType
<1> QED BY <1>2, <1>3, <1>4, <1>5 DEF JobType, d, q

LEMMA ContinuesOn ==
  ASSUME NEW drawn \in Seq(Nat), NEW prefix \in Seq(Nat), NEW start \in Nat, NEW pos \in Nat,
         Continues(drawn, prefix, start, pos), NEW die \in Nat, NEW next \in Nat,
         Len(drawn) < Len(prefix) => die = prefix[Len(drawn) + 1] /\ next = pos,
         Len(drawn) >= Len(prefix) => die = pos + 1 /\ next = pos + 1
  PROVE  Continues(Append(drawn, die), prefix, start, next)
<1> DEFINE n == Len(drawn) m == Len(prefix) d == Append(drawn, die)
<1>1. n \in Nat /\ m \in Nat
  OBVIOUS
<1>2. Len(d) = n + 1 /\ d[n + 1] = die /\ \A i \in 1 .. n : d[i] = drawn[i]
  OBVIOUS
<1>3. /\ \A i \in 1 .. n : /\ i <= m => drawn[i] = prefix[i]
                           /\ i > m => drawn[i] = start + i - m
      /\ n <= m => pos = start
      /\ n >= m => pos = start + n - m
  BY DEF Continues
<1>4. /\ n < m => die = prefix[n + 1] /\ next = pos
      /\ n >= m => die = pos + 1 /\ next = pos + 1
  OBVIOUS
<1> HIDE DEF n, m, d
<1>5. n >= m => die = start + (n + 1) - m /\ next = start + (n + 1) - m
  BY <1>1, <1>3, <1>4
<1>6. ASSUME NEW i \in 1 .. n + 1
      PROVE  (i <= m => d[i] = prefix[i]) /\ (i > m => d[i] = start + i - m)
  <2>1. CASE i = n + 1
    BY <1>1, <1>2, <1>4, <1>5, <2>1
  <2>2. CASE i # n + 1
    <3>1. i \in 1 .. n
      BY <1>1, <2>2
    <3> QED BY <1>2, <1>3, <3>1
  <2> QED BY <2>1, <2>2
<1>7. /\ n + 1 <= m => next = start
      /\ n + 1 >= m => next = start + (n + 1) - m
  BY <1>1, <1>3, <1>4, <1>5
<1> QED BY <1>2, <1>6, <1>7 DEF Continues, d, m

LEMMA DrawContinues ==
  ASSUME NEW j \in JobType, Continues(j.drawn, j.prefix, j.start, j.pos)
  PROVE  /\ Continues(Draw(j).drawn, j.prefix, j.start, Draw(j).pos)
         /\ Len(Draw(j).drawn) = Len(j.drawn) + 1
         /\ Draw(j).drawn[Len(j.drawn) + 1] = NextDie(j)
         /\ \A i \in 1 .. Len(j.drawn) : Draw(j).drawn[i] = j.drawn[i]
<1>1. j.drawn \in Seq(Nat) /\ j.prefix \in Seq(Nat) /\ j.pos \in Nat /\ j.start \in Nat
  BY DEF JobType
<1>2. /\ NextDie(j) \in Nat /\ Draw(j).drawn = Append(j.drawn, NextDie(j))
      /\ Draw(j).pos = (IF Len(j.drawn) < Len(j.prefix) THEN j.pos ELSE j.pos + 1)
  BY DrawIs
<1>3. Len(j.drawn) \in Nat /\ Len(j.prefix) \in Nat /\ Draw(j).pos \in Nat
  BY <1>1, <1>2
<1>4. /\ Len(j.drawn) < Len(j.prefix) =>
           NextDie(j) = j.prefix[Len(j.drawn) + 1] /\ Draw(j).pos = j.pos
      /\ Len(j.drawn) >= Len(j.prefix) => NextDie(j) = j.pos + 1 /\ Draw(j).pos = j.pos + 1
  BY <1>2, <1>3 DEF NextDie
<1>5. Continues(Append(j.drawn, NextDie(j)), j.prefix, j.start, Draw(j).pos)
  BY <1>1, <1>2, <1>3, <1>4, ContinuesOn
<1> QED BY <1>1, <1>2, <1>5

\* The dice drawn so far say where the next decision is made.
LEMMA EndsIs ==
  ASSUME NEW drawn, NEW acts, NEW n, NEW kind, NEW roll
  PROVE  /\ kind # "resist" =>
              (EndsWith(drawn, acts, n, kind, roll) <=> Len(drawn) > 0 /\ drawn[Len(drawn) - 0] = roll)
         /\ ~Inspired(acts, n, roll) =>
              (EndsWith(drawn, acts, n, kind, roll) <=> Len(drawn) > 0 /\ drawn[Len(drawn) - 0] = roll)
         /\ kind = "resist" /\ Inspired(acts, n, roll) =>
              (EndsWith(drawn, acts, n, kind, roll) <=> Len(drawn) > 1 /\ drawn[Len(drawn) - 1] = roll)
BY DEF EndsWith

\* The position of the roll is no later than the last die.
LEMMA RollIsDrawn ==
  ASSUME NEW drawn \in Seq(Nat), NEW pos \in Nat, NEW acts, NEW n, NEW kind, NEW roll \in Nat,
         Recorded(drawn, pos), EndsWith(drawn, acts, n, kind, roll)
  PROVE  Len(drawn) > 0 /\ roll <= drawn[Len(drawn)]
<1>1. Len(drawn) \in Nat /\ DOMAIN drawn = 1 .. Len(drawn)
  OBVIOUS
<1>2. CASE kind = "resist" /\ Inspired(acts, n, roll)
  <2>1. Len(drawn) > 1 /\ drawn[Len(drawn) - 1] = roll
    BY <1>2, EndsIs
  <2>2. Len(drawn) - 1 \in DOMAIN drawn /\ Len(drawn) \in DOMAIN drawn
        /\ Len(drawn) - 1 < Len(drawn)
    BY <1>1, <2>1
  <2>3. drawn[Len(drawn) - 1] < drawn[Len(drawn)]
    BY <2>2 DEF Recorded, InOrder
  <2> QED BY <2>1, <2>2, <2>3
<1>3. CASE ~(kind = "resist" /\ Inspired(acts, n, roll))
  <2>1. Len(drawn) > 0 /\ drawn[Len(drawn) - 0] = roll
    BY <1>3, EndsIs
  <2> QED BY <1>1, <2>1
<1> QED BY <1>2, <1>3

(***************************************************************************)
(* Steps inside the write transaction.                                     *)
(***************************************************************************)
LEMMA InsideIs ==
  ASSUME IInv, NEW p \in Proc, job[p].pc \in Inside
  PROVE  /\ lock = p /\ job[p] \in JobType
         /\ job[p].req \in Request /\ Home[job[p].req] = p /\ asked[job[p].req] # None
         /\ receipt[job[p].req] = None /\ job[p].req \notin Restore
         /\ job[p].rev = db.rev /\ Here(job[p]) /\ Running(job[p])
<1>1. lock = p /\ job[p] \in JobType
  BY Parts
<1>2. Grounded(job[p]) /\ Addressed
  BY DEF IInv
<1>3. job[p].pc \in Working /\ job[p].pc # "idle" /\ job[p].pc # "enter"
  BY DEF Working, Inside
<1>4. /\ job[p].req \in Request /\ Home[job[p].req] = p /\ asked[job[p].req] # None
  BY <1>2, <1>3 DEF Addressed
<1> HIDE DEF Inside
<1> QED BY <1>1, <1>2, <1>3, <1>4 DEF Grounded

LEMMA InsideStep ==
  ASSUME IInv, NEW p \in Proc, job[p].pc \in Inside,
         NEW x \in JobType, job' = [job EXCEPT ![p] = x],
         x.pc \in Inside, Running(x),
         x.req = job[p].req, x.rev = job[p].rev, x.start = job[p].start, x.cmd = job[p].cmd,
         x.prefix = job[p].prefix, x.acts = job[p].acts,
         UNCHANGED <<db, receipt, lock, Client, History, kept>>
  PROVE  IInv'
<1>1. /\ lock = p /\ job[p] \in JobType
      /\ job[p].req \in Request /\ Home[job[p].req] = p /\ asked[job[p].req] # None
      /\ receipt[job[p].req] = None /\ job[p].req \notin Restore
      /\ job[p].rev = db.rev /\ Here(job[p])
  BY InsideIs
<1>2. job'[p] = x /\ job' = [job EXCEPT ![p] = job'[p]]
  BY Parts
<1>3. x.pc \notin {"begin", "enter", "restore", "offer", "reply", "idle"}
      /\ job[p].pc \notin {"enter", "offer"}
  BY DEF Inside
<1>4. Here(x)
  BY <1>1, <1>3 DEF Here
<1>5. Grounded(x)
  BY <1>1, <1>3, <1>4, Parts DEF Grounded
<1>6. crashes' \in 0 .. MaxCrash
  BY Parts DEF TypeOK, Client
<1>7. /\ job'[p] \in JobType /\ Grounded(job'[p]) /\ job'[p].pc # "reply"
      /\ job'[p].req \in Request /\ Home[job'[p].req] = p /\ asked[job'[p].req] # None
      /\ lock' = IF job'[p].pc \in Inside THEN p ELSE IF lock = p THEN None ELSE lock
  BY <1>1, <1>2, <1>3, <1>5
<1> QED BY <1>1, <1>2, <1>6, <1>7, KeptIs, JobStep DEF Client, History

\* What Running says, with its sequences typed.
LEMMA RunningIs ==
  ASSUME NEW j \in JobType, Running(j)
  PROVE  /\ j.drawn \in Seq(Nat) /\ j.prefix \in Seq(Nat) /\ j.acts \in Seq(Decision)
         /\ j.pos \in Nat /\ j.start \in Nat /\ j.step \in Nat \ {0} /\ j.idx \in Nat /\ j.roll \in Nat
         /\ Len(j.drawn) \in Nat /\ Len(j.acts) \in Nat /\ Len(j.prefix) \in Nat
         /\ Script[j.cmd] \in Seq(Saver \cup {Damage}) /\ Len(Script[j.cmd]) \in Nat
         /\ Recorded(j.drawn, j.pos) /\ j.pos >= j.start
<1>1. /\ j.drawn \in Seq(Nat) /\ j.prefix \in Seq(Nat) /\ j.acts \in Seq(Decision)
      /\ j.pos \in Nat /\ j.start \in Nat /\ j.step \in Nat \ {0} /\ j.idx \in Nat /\ j.roll \in Nat
  BY DEF JobType
<1>2. Recorded(j.prefix, j.start) /\ Continues(j.drawn, j.prefix, j.start, j.pos)
  BY DEF Running
<1>3. Recorded(j.drawn, j.pos) /\ j.pos >= j.start
  BY <1>1, <1>2, DrawsInOrder
<1>4. Script[j.cmd] \in Seq(Saver \cup {Damage})
  BY ScriptAssumption DEF Running
<1> QED BY <1>1, <1>3, <1>4

\* The recorded decisions taken up so far stay behind a new die.
LEMMA RunningDraws ==
  ASSUME NEW j \in JobType, Running(j), j.pc = "roll"
  PROVE  \A i \in 1 .. j.idx : j.acts[i].roll < NextDie(j)
<1>1. /\ j.drawn \in Seq(Nat) /\ Len(j.drawn) \in Nat /\ j.pos \in Nat
      /\ j.acts \in Seq(Decision) /\ j.idx \in Nat
  BY RunningIs
<1>2. Continues(Draw(j).drawn, j.prefix, j.start, Draw(j).pos) /\ Recorded(j.prefix, j.start)
  BY DrawContinues DEF Running
<1>3. Draw(j) \in JobType /\ j.prefix \in Seq(Nat) /\ j.start \in Nat
  BY DrawIs, RunningIs
<1>4. Draw(j).drawn \in Seq(Nat) /\ Draw(j).pos \in Nat
  BY <1>3 DEF JobType
<1>5. Recorded(Draw(j).drawn, Draw(j).pos)
  BY <1>2, <1>3, <1>4, DrawsInOrder
<1>6. ASSUME NEW i \in 1 .. j.idx PROVE j.acts[i].roll < NextDie(j)
  <2>1. Len(j.drawn) > 0 /\ j.acts[i].roll <= j.drawn[Len(j.drawn)]
    BY <1>6 DEF Running
  <2>2. j.acts[i].roll \in Nat
    <3>1. j.idx <= Len(j.acts) /\ Len(j.acts) \in Nat
      BY RunningIs DEF Running
    <3>2. j.acts[i] \in Decision
      BY <1>1, <1>6, <3>1
    <3> QED BY <3>2 DEF Decision
  <2> DEFINE n == Len(j.drawn) d == Draw(j).drawn
  <2>3. Len(d) = n + 1 /\ d[n + 1] = NextDie(j) /\ d[n] = j.drawn[n]
    <3>1. Continues(j.drawn, j.prefix, j.start, j.pos)
      BY DEF Running
    <3>2. /\ Len(Draw(j).drawn) = Len(j.drawn) + 1
          /\ Draw(j).drawn[Len(j.drawn) + 1] = NextDie(j)
          /\ \A m \in 1 .. Len(j.drawn) : Draw(j).drawn[m] = j.drawn[m]
      BY <3>1, DrawContinues
    <3>3. Len(j.drawn) \in 1 .. Len(j.drawn)
      BY <1>1, <2>1
    <3> QED BY <3>2, <3>3
  <2>4. n \in DOMAIN d /\ n + 1 \in DOMAIN d /\ n < n + 1
    <3>1. n \in Nat /\ n > 0
      BY <1>1, <2>1
    <3>2. d \in Seq(Nat) /\ Len(d) = n + 1
      BY <1>4, <2>3
    <3> HIDE DEF n, d
    <3>3. DOMAIN d = 1 .. n + 1
      BY <3>2
    <3> QED BY <3>1, <3>3
  <2>5. d[n] < d[n + 1]
    BY <1>5, <2>4 DEF Recorded, InOrder
  <2>6. NextDie(j) \in Nat /\ j.drawn[n] \in Nat
    BY <1>1, <2>1, DrawIs
  <2> QED BY <2>1, <2>2, <2>3, <2>5, <2>6
<1> QED BY <1>6

\* Accepted decisions can be counted.
LEMMA YesIs ==
  ASSUME NEW acts, NEW n \in Nat, NEW kind
  PROVE  /\ IsFiniteSet(Yes(acts, n, kind)) /\ Cardinality(Yes(acts, n, kind)) \in Nat
         /\ \A z : /\ IsFiniteSet(YesOf(acts, n, kind, z))
                   /\ Cardinality(YesOf(acts, n, kind, z)) \in Nat
<1>1. IsFiniteSet(1 .. n)
  <2>1. 1 \in Int /\ n \in Int
    OBVIOUS
  <2> QED BY <2>1, FS_Interval
<1>2. Yes(acts, n, kind) \subseteq 1 .. n
  BY DEF Yes
<1>3. ASSUME NEW z PROVE YesOf(acts, n, kind, z) \subseteq 1 .. n
  BY <1>2 DEF YesOf
<1>4. IsFiniteSet(Yes(acts, n, kind)) /\ Cardinality(Yes(acts, n, kind)) \in Nat
  BY <1>1, <1>2, FS_Subset, FS_CardinalityType
<1>5. ASSUME NEW z
      PROVE  IsFiniteSet(YesOf(acts, n, kind, z)) /\ Cardinality(YesOf(acts, n, kind, z)) \in Nat
  BY <1>1, <1>3, FS_Subset, FS_CardinalityType
<1> QED BY <1>4, <1>5

LEMMA SucceedsIs ==
  ASSUME IInv, NEW n
  PROVE  Succeeds(n) \in BOOLEAN
<1>1. fate \in [1 .. MaxDie -> BOOLEAN]
  BY Parts, StreamAssumption DEF TypeOK
<1> QED BY <1>1 DEF Succeeds

LEMMA RollStep ==
  ASSUME IInv, NEW p \in Proc, Roll(p), UNCHANGED kept
  PROVE  IInv'
<1> DEFINE j == job[p]
           x == [Draw(j) EXCEPT !.step = @ + 1]
           y == [Draw(j) EXCEPT !.pc = "inspire", !.roll = NextDie(j), !.ok = Succeeds(NextDie(j))]
<1>1. j.pc = "roll" /\ j.pc \in Inside /\ j.step <= Len(Script[j.cmd])
  BY DEF Roll, Inside
<1>2. j \in JobType /\ Running(j)
  BY <1>1, InsideIs
<1>3. /\ j.drawn \in Seq(Nat) /\ j.prefix \in Seq(Nat) /\ j.acts \in Seq(Decision)
      /\ j.pos \in Nat /\ j.start \in Nat /\ j.step \in Nat \ {0} /\ j.idx \in Nat /\ j.roll \in Nat
      /\ Len(j.drawn) \in Nat /\ Len(j.acts) \in Nat /\ Len(j.prefix) \in Nat
      /\ Script[j.cmd] \in Seq(Saver \cup {Damage}) /\ Len(Script[j.cmd]) \in Nat
  BY <1>2, RunningIs
<1>4. Succeeds(NextDie(j)) \in BOOLEAN /\ NextDie(j) \in Nat /\ Draw(j) \in JobType
  BY <1>2, DrawIs, SucceedsIs
<1>5. job' = [job EXCEPT ![p] = IF Roller(j) = Damage THEN x ELSE y]
      /\ UNCHANGED <<db, receipt, lock, Client, History, kept>>
  BY DEF Roll
<1> HIDE DEF j
<1>6. /\ Draw(j).pc = j.pc /\ Draw(j).req = j.req /\ Draw(j).start = j.start
      /\ Draw(j).rev = j.rev /\ Draw(j).cmd = j.cmd /\ Draw(j).prefix = j.prefix
      /\ Draw(j).acts = j.acts /\ Draw(j).step = j.step /\ Draw(j).idx = j.idx
      /\ Draw(j).roll = j.roll /\ Draw(j).spent = j.spent /\ Draw(j).used = j.used
  BY <1>2, DrawIs
<1>7. /\ Continues(Draw(j).drawn, j.prefix, j.start, Draw(j).pos)
      /\ Len(Draw(j).drawn) = Len(j.drawn) + 1
      /\ Draw(j).drawn[Len(j.drawn) + 1] = NextDie(j)
  BY <1>2, DrawContinues DEF Running
<1>8. \A i \in 1 .. j.idx : j.acts[i].roll < NextDie(j)
  BY <1>1, <1>2, RunningDraws
<1>9. /\ j.cmd \in Command /\ j.idx <= Len(j.acts)
      /\ Recorded(j.prefix, j.start) /\ EndsAtLast(j.prefix, j.acts)
      /\ \A z \in Saver : j.spent[z] = Cardinality(YesOf(j.acts, j.idx, "resist", z))
      /\ j.used = {j.acts[i].saver : i \in Yes(j.acts, j.idx, "inspire")}
      /\ j.idx = Len(j.acts) => Len(j.drawn) >= Len(j.prefix)
      /\ Len(j.drawn) = j.step - 1 + Cardinality(Yes(j.acts, j.idx, "inspire"))
  BY <1>1, <1>2 DEF Running, Rolled
<1>10. Cardinality(Yes(j.acts, j.idx, "inspire")) \in Nat
  BY <1>3, YesIs
<1>11. Draw(j).drawn[Len(Draw(j).drawn)] = NextDie(j) /\ Len(Draw(j).drawn) > 0
  BY <1>3, <1>7
<1>12. \A i \in 1 .. j.idx : j.acts[i].roll \in Nat
  <2>1. \A i \in 1 .. j.idx : j.acts[i] \in Decision
    BY <1>3, <1>9
  <2> QED BY <2>1 DEF Decision
<1>13. CASE Roller(j) = Damage
  <2>1. /\ x \in JobType /\ x.pc = "roll" /\ x.step = j.step + 1
        /\ x.drawn = Draw(j).drawn /\ x.pos = Draw(j).pos /\ x.req = j.req /\ x.start = j.start
        /\ x.rev = j.rev /\ x.cmd = j.cmd /\ x.prefix = j.prefix
        /\ x.acts = j.acts /\ x.idx = j.idx /\ x.spent = j.spent /\ x.used = j.used
    <3> DEFINE d == Draw(j) n == j.step + 1
    <3>1. d \in JobType /\ n \in Nat \ {0}
      BY <1>3, <1>4
    <3>2. x = [d EXCEPT !.step = n]
      BY <1>6
    <3> HIDE DEF d, n, x
    <3>3. /\ x \in JobType /\ x.pc = d.pc /\ x.step = n
          /\ x.drawn = d.drawn /\ x.pos = d.pos /\ x.req = d.req
          /\ x.start = d.start /\ x.rev = d.rev /\ x.cmd = d.cmd
          /\ x.prefix = d.prefix /\ x.acts = d.acts /\ x.idx = d.idx
          /\ x.spent = d.spent /\ x.used = d.used
      BY <3>1, <3>2 DEF JobType
    <3> QED BY <1>1, <1>6, <3>3 DEF d, n
  <2> HIDE DEF x
  <2>2. Len(x.drawn) = Rolled(x) + Cardinality(Yes(x.acts, x.idx, "inspire"))
    BY <1>3, <1>7, <1>9, <1>10, <2>1 DEF Rolled
  <2>3. \A i \in 1 .. x.idx : Len(x.drawn) > 0 /\ x.acts[i].roll <= x.drawn[Len(x.drawn)]
    <3>1. \A i \in 1 .. j.idx : j.acts[i].roll <= NextDie(j)
      BY <1>4, <1>8, <1>12
    <3> QED BY <1>11, <2>1, <3>1
  <2>4. x.idx = Len(x.acts) => Len(x.drawn) >= Len(x.prefix)
    BY <1>3, <1>7, <1>9, <2>1
  <2>5. x.step <= Len(Script[x.cmd]) + 1
    BY <1>1, <1>3, <2>1
  <2>6. Running(x)
    BY <1>7, <1>9, <2>1, <2>2, <2>3, <2>4, <2>5 DEF Running
  <2> QED BY <1>1, <1>5, <1>13, <2>1, <2>6, InsideStep DEF j, Inside
<1>14. CASE Roller(j) # Damage
  <2>1. /\ y \in JobType /\ y.pc = "inspire" /\ y.step = j.step /\ y.roll = NextDie(j)
        /\ y.drawn = Draw(j).drawn /\ y.pos = Draw(j).pos /\ y.req = j.req /\ y.start = j.start
        /\ y.rev = j.rev /\ y.cmd = j.cmd /\ y.prefix = j.prefix
        /\ y.acts = j.acts /\ y.idx = j.idx /\ y.spent = j.spent /\ y.used = j.used
    <3> DEFINE b == Succeeds(NextDie(j)) n == NextDie(j)
    <3>1. b \in BOOLEAN /\ n \in Nat
      BY <1>4
    <3>2. y = [Draw(j) EXCEPT !.pc = "inspire", !.roll = n, !.ok = b]
      OBVIOUS
    <3> HIDE DEF b, n, y
    <3>3. /\ y \in JobType /\ y.pc = "inspire" /\ y.step = Draw(j).step /\ y.roll = n
          /\ y.drawn = Draw(j).drawn /\ y.pos = Draw(j).pos /\ y.req = Draw(j).req
          /\ y.start = Draw(j).start /\ y.rev = Draw(j).rev /\ y.cmd = Draw(j).cmd
          /\ y.prefix = Draw(j).prefix /\ y.acts = Draw(j).acts /\ y.idx = Draw(j).idx
          /\ y.spent = Draw(j).spent /\ y.used = Draw(j).used
      BY <1>4, <3>1, <3>2 DEF JobType, Inside
    <3> QED BY <1>6, <3>3 DEF n
  <2> HIDE DEF y
  <2>2. Len(y.drawn) = Rolled(y) + Cardinality(Yes(y.acts, y.idx, "inspire"))
    BY <1>3, <1>7, <1>9, <1>10, <2>1 DEF Rolled
  <2>3. \A i \in 1 .. y.idx : y.acts[i].roll < y.roll
    BY <1>8, <2>1
  <2>4. y.idx = Len(y.acts) => Len(y.drawn) >= Len(y.prefix)
    BY <1>3, <1>7, <1>9, <2>1
  <2>5. EndsWith(y.drawn, y.acts, y.idx, y.pc, y.roll)
    BY <1>3, <1>7, <1>11, <2>1, EndsIs
  <2>6. Roller(y) \in Saver /\ y.step <= Len(Script[y.cmd]) /\ y.step <= Len(Script[y.cmd]) + 1
    <3>1. Roller(y) = Roller(j) /\ Roller(j) \in Saver \cup {Damage}
      BY <1>1, <1>3, <2>1 DEF Roller
    <3> QED BY <1>1, <1>3, <1>14, <2>1, <3>1
  <2>7. Running(y)
    BY <1>7, <1>9, <2>1, <2>2, <2>3, <2>4, <2>5, <2>6 DEF Running
  <2> QED BY <1>1, <1>5, <1>14, <2>1, <2>7, InsideStep DEF j, Inside
<1> QED BY <1>13, <1>14

\* One more decision is counted.
LEMMA YesNext ==
  ASSUME NEW acts, NEW n \in Nat, NEW kind
  PROVE  /\ acts[n + 1].kind = kind /\ acts[n + 1].accept = "yes" =>
              /\ Yes(acts, n + 1, kind) = Yes(acts, n, kind) \cup {n + 1}
              /\ Cardinality(Yes(acts, n + 1, kind)) = Cardinality(Yes(acts, n, kind)) + 1
         /\ ~(acts[n + 1].kind = kind /\ acts[n + 1].accept = "yes") =>
              Yes(acts, n + 1, kind) = Yes(acts, n, kind)
<1>1. 1 .. n + 1 = (1 .. n) \cup {n + 1} /\ n + 1 \notin 1 .. n
  OBVIOUS
<1>2. Yes(acts, n + 1, kind) =
        IF acts[n + 1].kind = kind /\ acts[n + 1].accept = "yes"
        THEN Yes(acts, n, kind) \cup {n + 1} ELSE Yes(acts, n, kind)
  BY <1>1 DEF Yes
<1>3. n + 1 \notin Yes(acts, n, kind)
  BY <1>1 DEF Yes
<1>4. IsFiniteSet(Yes(acts, n, kind))
  BY YesIs
<1>5. Cardinality(Yes(acts, n, kind) \cup {n + 1}) = Cardinality(Yes(acts, n, kind)) + 1
  BY <1>3, <1>4, FS_AddElement
<1> QED BY <1>2, <1>5

LEMMA YesOfNext ==
  ASSUME NEW acts, NEW n \in Nat, NEW kind, NEW z
  PROVE  /\ acts[n + 1].kind = kind /\ acts[n + 1].accept = "yes" /\ acts[n + 1].saver = z =>
              Cardinality(YesOf(acts, n + 1, kind, z)) = Cardinality(YesOf(acts, n, kind, z)) + 1
         /\ ~(acts[n + 1].kind = kind /\ acts[n + 1].accept = "yes" /\ acts[n + 1].saver = z) =>
              YesOf(acts, n + 1, kind, z) = YesOf(acts, n, kind, z)
<1>1. n + 1 \notin 1 .. n
  OBVIOUS
<1>2. n + 1 \notin YesOf(acts, n, kind, z)
  BY <1>1 DEF Yes, YesOf
<1>3. CASE acts[n + 1].kind = kind /\ acts[n + 1].accept = "yes" /\ acts[n + 1].saver = z
  <2>1. YesOf(acts, n + 1, kind, z) = YesOf(acts, n, kind, z) \cup {n + 1}
    BY <1>3, YesNext DEF YesOf
  <2> QED BY <1>2, <1>3, <2>1, YesIs, FS_AddElement
<1>4. CASE ~(acts[n + 1].kind = kind /\ acts[n + 1].accept = "yes" /\ acts[n + 1].saver = z)
  <2>1. YesOf(acts, n + 1, kind, z) = YesOf(acts, n, kind, z)
    BY <1>4, YesNext DEF YesOf
  <2> QED BY <1>4, <2>1
<1> QED BY <1>3, <1>4

\* An attempt that has settled what could be decided about its roll.
PastDecision(j) ==
  /\ j.cmd \in Command
  /\ j.pc \in {"inspire", "resist"}
  /\ j.step <= Len(Script[j.cmd]) /\ Roller(j) \in Saver
  /\ j.idx <= Len(j.acts)
  /\ Recorded(j.prefix, j.start) /\ Continues(j.drawn, j.prefix, j.start, j.pos)
  /\ EndsAtLast(j.prefix, j.acts)
  /\ Len(j.drawn) = j.step + Cardinality(Yes(j.acts, j.idx, "inspire"))
  /\ \A x \in Saver : j.spent[x] = Cardinality(YesOf(j.acts, j.idx, "resist", x))
  /\ j.used = {j.acts[i].saver : i \in Yes(j.acts, j.idx, "inspire")}
  /\ \A i \in 1 .. j.idx : j.acts[i].roll <= j.roll
  /\ j.pc = "inspire" => EndsWith(j.drawn, j.acts, j.idx, "resist", j.roll)
  /\ j.pc = "resist" => Len(j.drawn) > 0 /\ j.roll <= j.drawn[Len(j.drawn)]
  /\ j.idx = Len(j.acts) => Len(j.drawn) >= Len(j.prefix)

LEMMA AfterRollRuns ==
  ASSUME NEW j \in JobType, PastDecision(j)
  PROVE  /\ AfterRoll(j) \in JobType /\ AfterRoll(j).pc \in Inside /\ Running(AfterRoll(j))
         /\ AfterRoll(j).req = j.req /\ AfterRoll(j).rev = j.rev /\ AfterRoll(j).start = j.start
         /\ AfterRoll(j).cmd = j.cmd /\ AfterRoll(j).prefix = j.prefix /\ AfterRoll(j).acts = j.acts
<1> DEFINE x == AfterRoll(j)
<1>1. /\ j.drawn \in Seq(Nat) /\ j.prefix \in Seq(Nat) /\ j.acts \in Seq(Decision)
      /\ j.pos \in Nat /\ j.start \in Nat /\ j.step \in Nat \ {0} /\ j.idx \in Nat /\ j.roll \in Nat
      /\ Script[j.cmd] \in Seq(Saver \cup {Damage}) /\ Len(Script[j.cmd]) \in Nat
  BY ScriptAssumption DEF JobType, PastDecision
<1>2. /\ x \in JobType
      /\ x.drawn = j.drawn /\ x.pos = j.pos /\ x.req = j.req
      /\ x.start = j.start /\ x.rev = j.rev /\ x.cmd = j.cmd
      /\ x.prefix = j.prefix /\ x.acts = j.acts /\ x.idx = j.idx
      /\ x.spent = j.spent /\ x.used = j.used /\ x.roll = j.roll
      /\ j.pc = "inspire" => x.pc = "resist" /\ x.step = j.step
      /\ j.pc # "inspire" => x.pc = "roll" /\ x.step = j.step + 1
  <2>1. CASE j.pc = "inspire"
    <3>1. x = [j EXCEPT !.pc = "resist"]
      BY <2>1 DEF AfterRoll
    <3> HIDE DEF x
    <3> QED BY <2>1, <3>1 DEF JobType, Inside
  <2>2. CASE j.pc # "inspire"
    <3> DEFINE n == j.step + 1
    <3>1. x = [j EXCEPT !.pc = "roll", !.step = n] /\ n \in Nat \ {0}
      BY <1>1, <2>2 DEF AfterRoll
    <3> HIDE DEF x, n
    <3>2. /\ x \in JobType
          /\ x.drawn = j.drawn /\ x.pos = j.pos /\ x.req = j.req
          /\ x.start = j.start /\ x.rev = j.rev /\ x.cmd = j.cmd
          /\ x.prefix = j.prefix /\ x.acts = j.acts /\ x.idx = j.idx
          /\ x.spent = j.spent /\ x.used = j.used /\ x.roll = j.roll
          /\ x.pc = "roll" /\ x.step = n
      BY <3>1 DEF JobType, Inside
    <3> QED BY <2>2, <3>2 DEF n
  <2> QED BY <2>1, <2>2
<1> HIDE DEF x
<1>3. x.pc \in Inside
  BY <1>2 DEF Inside
<1>4. CASE j.pc = "inspire"
  <2>1. Roller(x) = Roller(j)
    BY <1>2, <1>4 DEF Roller
  <2>2. x.step <= Len(Script[x.cmd]) + 1
    BY <1>1, <1>2, <1>4 DEF PastDecision
  <2> QED BY <1>2, <1>3, <1>4, <2>1, <2>2 DEF PastDecision, Running, Rolled, x
<1>5. CASE j.pc = "resist"
  <2>1. x.step <= Len(Script[x.cmd]) + 1 /\ x.pc = "roll"
    BY <1>1, <1>2, <1>5 DEF PastDecision
  <2>2. Rolled(x) = j.step
    <3>1. x.step = j.step + 1 /\ j.step \in Nat
      BY <1>1, <1>2, <1>5
    <3> QED BY <2>1, <3>1 DEF Rolled
  <2>3. ASSUME NEW i \in 1 .. j.idx
        PROVE  Len(j.drawn) > 0 /\ j.acts[i].roll <= j.drawn[Len(j.drawn)]
    <3>1. j.acts[i] \in Decision
      BY <1>1, <2>3 DEF PastDecision
    <3>2. j.acts[i].roll \in Nat /\ j.acts[i].roll <= j.roll
      BY <3>1, <2>3 DEF Decision, PastDecision
    <3>3. Len(j.drawn) > 0 /\ j.roll <= j.drawn[Len(j.drawn)]
      BY <1>5 DEF PastDecision
    <3>4. j.drawn[Len(j.drawn)] \in Nat
      BY <1>1, <3>3
    <3> QED BY <1>1, <3>2, <3>3, <3>4
  <2> QED BY <1>2, <1>3, <2>1, <2>2, <2>3 DEF PastDecision, Running, x
<1> QED BY <1>4, <1>5 DEF PastDecision

LEMMA ProceedStep ==
  ASSUME IInv, NEW p \in Proc, Proceed(p), UNCHANGED kept
  PROVE  IInv'
<1> DEFINE j == job[p]
<1>1. j.pc \in {"inspire", "resist"} /\ j.pc \in Inside /\ j.pc # "roll"
  BY DEF Proceed, Inside
<1>2. j \in JobType /\ Running(j)
  BY <1>1, InsideIs
<1>3. /\ j.drawn \in Seq(Nat) /\ j.acts \in Seq(Decision) /\ j.pos \in Nat
      /\ j.idx \in Nat /\ j.roll \in Nat /\ Recorded(j.drawn, j.pos)
      /\ Len(j.acts) \in Nat /\ j.idx <= Len(j.acts)
  BY <1>2, RunningIs DEF Running
<1>4. ASSUME NEW i \in 1 .. j.idx
      PROVE  j.acts[i].roll <= j.roll /\ (j.pc = "inspire" => j.acts[i].roll < j.roll)
  <2>1. j.acts[i] \in Decision
    BY <1>3, <1>4
  <2>2. j.acts[i].roll \in Nat
    BY <2>1 DEF Decision
  <2> QED BY <1>1, <1>2, <1>3, <1>4, <2>2 DEF Running
<1>5. j.pc = "inspire" => EndsWith(j.drawn, j.acts, j.idx, "resist", j.roll)
  <2>1. ASSUME j.pc = "inspire" PROVE ~Inspired(j.acts, j.idx, j.roll)
    <3>1. ASSUME j.idx > 0 PROVE j.acts[j.idx].roll < j.roll /\ j.acts[j.idx] \in Decision
      BY <1>3, <1>4, <2>1, <3>1
    <3> QED BY <1>3, <3>1 DEF Inspired, Decision
  <2> QED BY <1>2, <2>1, EndsIs DEF Running
<1>6. j.pc = "resist" => Len(j.drawn) > 0 /\ j.roll <= j.drawn[Len(j.drawn)]
  BY <1>1, <1>2, <1>3, RollIsDrawn DEF Running
<1>7. PastDecision(j)
  BY <1>1, <1>2, <1>4, <1>5, <1>6 DEF Running, PastDecision, Rolled
<1>8. /\ AfterRoll(j) \in JobType /\ AfterRoll(j).pc \in Inside /\ Running(AfterRoll(j))
      /\ AfterRoll(j).req = j.req /\ AfterRoll(j).rev = j.rev /\ AfterRoll(j).start = j.start
      /\ AfterRoll(j).cmd = j.cmd /\ AfterRoll(j).prefix = j.prefix /\ AfterRoll(j).acts = j.acts
  BY <1>2, <1>7, AfterRollRuns
<1> QED BY <1>1, <1>8, InsideStep DEF Proceed

\* The last recorded decision is come to only when all recorded dice are drawn.
LEMMA LastDecisionComes ==
  ASSUME NEW drawn \in Seq(Nat), NEW prefix \in Seq(Nat), NEW start \in Nat, NEW pos \in Nat,
         NEW acts \in Seq(Decision), Len(acts) > 0,
         Recorded(prefix, start), Continues(drawn, prefix, start, pos), EndsAtLast(prefix, acts),
         EndsWith(drawn, acts, Len(acts) - 1, acts[Len(acts)].kind, acts[Len(acts)].roll)
  PROVE  Len(drawn) >= Len(prefix)
<1> DEFINE n == Len(acts) kind == acts[n].kind roll == acts[n].roll
           d == Len(drawn) m == Len(prefix)
<1>1. d \in Nat /\ m \in Nat /\ DOMAIN prefix = 1 .. m /\ acts # << >>
  OBVIOUS
<1>2. EndsWith(prefix, acts, n - 1, kind, roll) /\ EndsWith(drawn, acts, n - 1, kind, roll)
  BY <1>1 DEF EndsAtLast
<1>3. \A i \in 1 .. d : i <= m => drawn[i] = prefix[i]
  BY DEF Continues
<1>4. \A i, k \in DOMAIN prefix : i < k => prefix[i] < prefix[k]
  BY DEF Recorded, InOrder
<1>5. \A i \in 1 .. m : prefix[i] \in Nat
  OBVIOUS
<1> HIDE DEF n, kind, roll
<1>6. CASE kind = "resist" /\ Inspired(acts, n - 1, roll)
  <2>1. m > 1 /\ prefix[m - 1] = roll /\ d > 1 /\ drawn[d - 1] = roll
    BY <1>2, <1>6, EndsIs
  <2> HIDE DEF d, m
  <2>2. ASSUME d < m PROVE FALSE
    <3>1. d - 1 \in 1 .. d /\ d - 1 <= m /\ d - 1 \in DOMAIN prefix /\ m - 1 \in DOMAIN prefix
          /\ d - 1 < m - 1 /\ d - 1 \in 1 .. m
      BY <1>1, <2>1, <2>2
    <3>2. drawn[d - 1] = prefix[d - 1] /\ prefix[d - 1] < prefix[m - 1] /\ prefix[d - 1] \in Nat
      BY <1>3, <1>4, <1>5, <3>1
    <3> QED BY <2>1, <3>2
  <2> QED BY <1>1, <2>2 DEF d, m
<1>7. CASE ~(kind = "resist" /\ Inspired(acts, n - 1, roll))
  <2>1. m > 0 /\ prefix[m - 0] = roll /\ d > 0 /\ drawn[d - 0] = roll
    BY <1>2, <1>7, EndsIs
  <2> HIDE DEF d, m
  <2>2. ASSUME d < m PROVE FALSE
    <3>1. d - 0 = d /\ m - 0 = m /\ d \in 1 .. d /\ d <= m /\ d \in DOMAIN prefix /\ m \in DOMAIN prefix
          /\ d \in 1 .. m
      BY <1>1, <2>1, <2>2
    <3>2. drawn[d] = prefix[d] /\ prefix[d] < prefix[m] /\ prefix[d] \in Nat
      BY <1>3, <1>4, <1>5, <2>2, <3>1
    <3> QED BY <2>1, <3>1, <3>2
  <2> QED BY <1>1, <2>2 DEF d, m
<1> QED BY <1>6, <1>7

\* What accepting a decision does to an attempt.
LEMMA AcceptedIs ==
  ASSUME IInv, NEW j \in JobType, Roller(j) \in Saver, j.pc \in {"inspire", "resist"}
  PROVE  /\ Accepted(j) \in JobType /\ Accepted(j).pc = j.pc /\ Accepted(j).req = j.req
         /\ Accepted(j).start = j.start /\ Accepted(j).rev = j.rev /\ Accepted(j).cmd = j.cmd
         /\ Accepted(j).prefix = j.prefix /\ Accepted(j).acts = j.acts
         /\ Accepted(j).step = j.step /\ Accepted(j).idx = j.idx /\ Accepted(j).roll = j.roll
         /\ j.pc = "inspire" =>
              /\ Accepted(j).drawn = Draw(j).drawn /\ Accepted(j).pos = Draw(j).pos
              /\ Accepted(j).used = j.used \cup {Roller(j)} /\ Accepted(j).spent = j.spent
         /\ j.pc = "resist" =>
              /\ Accepted(j).drawn = j.drawn /\ Accepted(j).pos = j.pos
              /\ Accepted(j).used = j.used
              /\ Accepted(j).spent = [j.spent EXCEPT ![Roller(j)] = @ + 1]
<1> DEFINE x == Accepted(j)
<1>1. CASE j.pc = "inspire"
  <2> DEFINE d == Draw(j) u == j.used \cup {Roller(j)} b == j.ok \/ Succeeds(NextDie(j))
  <2>1. /\ d \in JobType /\ d.pc = j.pc /\ d.req = j.req /\ d.start = j.start
        /\ d.rev = j.rev /\ d.cmd = j.cmd /\ d.prefix = j.prefix
        /\ d.acts = j.acts /\ d.step = j.step /\ d.idx = j.idx
        /\ d.roll = j.roll /\ d.spent = j.spent /\ d.used = j.used /\ d.ok = j.ok
    BY DrawIs
  <2>2. u \in SUBSET Saver
    BY DEF JobType
  <2>3. b \in BOOLEAN
    BY DEF JobType
  <2>4. x = [d EXCEPT !.used = u, !.ok = b]
    BY <1>1, <2>1 DEF Accepted
  <2> HIDE DEF x, d, u, b
  <2>5. x \in JobType
    BY <2>1, <2>2, <2>3, <2>4 DEF JobType
  <2>6. /\ x.pc = d.pc /\ x.req = d.req /\ x.start = d.start
        /\ x.rev = d.rev /\ x.cmd = d.cmd /\ x.prefix = d.prefix
        /\ x.acts = d.acts /\ x.step = d.step /\ x.idx = d.idx
        /\ x.roll = d.roll /\ x.spent = d.spent /\ x.used = u
        /\ x.drawn = d.drawn /\ x.pos = d.pos
    BY <2>1, <2>4 DEF JobType
  <2> QED BY <1>1, <2>1, <2>5, <2>6 DEF x, d, u
<1>2. CASE j.pc = "resist"
  <2> DEFINE s == [j.spent EXCEPT ![Roller(j)] = @ + 1]
  <2>1. j.spent \in [Saver -> Nat]
    BY DEF JobType
  <2>2. s \in [Saver -> Nat]
    BY <2>1
  <2>3. x = [j EXCEPT !.spent = s]
    BY <1>2 DEF Accepted
  <2> HIDE DEF x, s
  <2>4. x \in JobType
    BY <2>2, <2>3 DEF JobType
  <2>5. /\ x.pc = j.pc /\ x.req = j.req /\ x.start = j.start
        /\ x.rev = j.rev /\ x.cmd = j.cmd /\ x.prefix = j.prefix
        /\ x.acts = j.acts /\ x.step = j.step /\ x.idx = j.idx
        /\ x.roll = j.roll /\ x.spent = s /\ x.used = j.used
        /\ x.drawn = j.drawn /\ x.pos = j.pos
    BY <2>3 DEF JobType
  <2> QED BY <1>2, <2>4, <2>5 DEF x, s
<1> QED BY <1>1, <1>2

\* A recorded decision that is for this roll is counted, and applied.
Counted(i) == [i EXCEPT !.idx = @ + 1]

Applied(i) == IF i.acts[Counted(i).idx].accept = "yes" THEN Accepted(Counted(i)) ELSE Counted(i)

LEMMA ReplayRuns ==
  ASSUME IInv, NEW i \in JobType, Running(i), MayDecide(i), i.idx < Len(i.acts),
         NEW j, j = Counted(i), SameRoll(i.acts[j.idx], j), NEW z, z = Applied(i)
  PROVE  /\ z \in JobType /\ PastDecision(z)
         /\ z.req = i.req /\ z.rev = i.rev /\ z.start = i.start
         /\ z.cmd = i.cmd /\ z.prefix = i.prefix /\ z.acts = i.acts
<1> DEFINE n == i.idx a == i.acts[n + 1]
<1>1. /\ i.drawn \in Seq(Nat) /\ i.prefix \in Seq(Nat) /\ i.acts \in Seq(Decision)
      /\ i.pos \in Nat /\ i.start \in Nat /\ i.step \in Nat \ {0} /\ n \in Nat /\ i.roll \in Nat
      /\ Len(i.drawn) \in Nat /\ Len(i.acts) \in Nat /\ Len(i.prefix) \in Nat
      /\ Script[i.cmd] \in Seq(Saver \cup {Damage}) /\ Len(Script[i.cmd]) \in Nat
      /\ Recorded(i.drawn, i.pos)
  BY RunningIs
<1>2. /\ j \in JobType /\ j.idx = n + 1
      /\ j.pc = i.pc /\ j.req = i.req /\ j.start = i.start /\ j.pos = i.pos
      /\ j.rev = i.rev /\ j.cmd = i.cmd /\ j.prefix = i.prefix /\ j.acts = i.acts
      /\ j.step = i.step /\ j.roll = i.roll /\ j.spent = i.spent /\ j.used = i.used
      /\ j.drawn = i.drawn
  <2>1. n + 1 \in Nat /\ j = [i EXCEPT !.idx = n + 1]
    BY <1>1 DEF Counted
  <2> HIDE DEF n
  <2> QED BY <2>1 DEF JobType
<1>3. i.pc \in {"inspire", "resist"} /\ i.pc # "roll"
  BY DEF MayDecide, MayInspire, MayResist
<1>4. /\ i.cmd \in Command /\ i.step <= Len(Script[i.cmd]) /\ Roller(i) \in Saver
      /\ Recorded(i.prefix, i.start) /\ Continues(i.drawn, i.prefix, i.start, i.pos)
      /\ EndsAtLast(i.prefix, i.acts)
      /\ Len(i.drawn) = i.step + Cardinality(Yes(i.acts, n, "inspire"))
      /\ \A x \in Saver : i.spent[x] = Cardinality(YesOf(i.acts, n, "resist", x))
      /\ i.used = {i.acts[k].saver : k \in Yes(i.acts, n, "inspire")}
      /\ EndsWith(i.drawn, i.acts, n, i.pc, i.roll)
  BY <1>3 DEF Running, Rolled
<1>5. Roller(j) = Roller(i)
  BY <1>2 DEF Roller
<1>6. a.saver = Roller(i) /\ a.kind = i.pc /\ a.roll = i.roll /\ a \in Decision
  <2>1. a \in Decision
    BY <1>1
  <2> QED BY <1>2, <1>5, <2>1 DEF SameRoll
<1>7. \A k \in 1 .. n + 1 : i.acts[k].roll <= i.roll
  <2>1. ASSUME NEW k \in 1 .. n PROVE i.acts[k].roll <= i.roll
    <3>1. i.acts[k] \in Decision
      BY <1>1
    <3>2. i.acts[k].roll \in Nat
      BY <3>1 DEF Decision
    <3>3. IF i.pc = "inspire" THEN i.acts[k].roll < i.roll ELSE i.acts[k].roll <= i.roll
      BY <1>3 DEF Running
    <3> QED BY <1>1, <3>2, <3>3
  <2>2. i.acts[n + 1].roll <= i.roll
    BY <1>1, <1>6
  <2>3. \A k \in 1 .. n + 1 : k = n + 1 \/ k \in 1 .. n
    BY <1>1
  <2> QED BY <2>1, <2>2, <2>3
<1>8. Len(i.drawn) > 0 /\ i.roll <= i.drawn[Len(i.drawn)]
  BY <1>1, <1>4, RollIsDrawn
<1>9. n + 1 <= Len(i.acts)
  BY <1>1
<1>10. n + 1 = Len(i.acts) => Len(i.drawn) >= Len(i.prefix)
  <2>1. ASSUME n + 1 = Len(i.acts) PROVE Len(i.drawn) >= Len(i.prefix)
    <3>1. Len(i.acts) > 0 /\ Len(i.acts) - 1 = n /\ a = i.acts[Len(i.acts)]
      <4>1. n \in Nat /\ a = i.acts[Len(i.acts)]
        BY <1>1, <2>1
      <4> HIDE DEF n, a
      <4>2. Len(i.acts) > 0 /\ Len(i.acts) - 1 = n
        BY <2>1, <4>1
      <4> QED BY <4>1, <4>2
    <3>2. EndsWith(i.drawn, i.acts, Len(i.acts) - 1, i.acts[Len(i.acts)].kind, i.acts[Len(i.acts)].roll)
      BY <1>4, <1>6, <3>1
    <3> QED BY <1>1, <1>4, <3>1, <3>2, LastDecisionComes
  <2> QED BY <2>1
<1>11. /\ Accepted(j) \in JobType /\ Accepted(j).pc = j.pc /\ Accepted(j).req = j.req
       /\ Accepted(j).start = j.start /\ Accepted(j).rev = j.rev /\ Accepted(j).cmd = j.cmd
       /\ Accepted(j).prefix = j.prefix /\ Accepted(j).acts = j.acts
       /\ Accepted(j).step = j.step /\ Accepted(j).idx = j.idx /\ Accepted(j).roll = j.roll
       /\ j.pc = "inspire" =>
            /\ Accepted(j).drawn = Draw(j).drawn /\ Accepted(j).pos = Draw(j).pos
            /\ Accepted(j).used = j.used \cup {Roller(j)} /\ Accepted(j).spent = j.spent
       /\ j.pc = "resist" =>
            /\ Accepted(j).drawn = j.drawn /\ Accepted(j).pos = j.pos
            /\ Accepted(j).used = j.used
            /\ Accepted(j).spent = [j.spent EXCEPT ![Roller(j)] = @ + 1]
  BY <1>2, <1>3, <1>4, <1>5, AcceptedIs
<1>12. /\ z \in JobType /\ z.pc = i.pc /\ z.req = i.req /\ z.start = i.start
       /\ z.rev = i.rev /\ z.cmd = i.cmd /\ z.prefix = i.prefix /\ z.acts = i.acts
       /\ z.step = i.step /\ z.idx = n + 1 /\ z.roll = i.roll
  BY <1>2, <1>11 DEF Applied
<1>13. Roller(z) = Roller(i)
  BY <1>12 DEF Roller
<1> HIDE DEF a, n
<1>14. CASE a.accept # "yes"
  <2>1. z.drawn = i.drawn /\ z.pos = i.pos /\ z.used = i.used /\ z.spent = i.spent
    BY <1>2, <1>14 DEF a, Applied
  <2>2. /\ Yes(i.acts, n + 1, "inspire") = Yes(i.acts, n, "inspire")
        /\ \A x : YesOf(i.acts, n + 1, "resist", x) = YesOf(i.acts, n, "resist", x)
    <3>1. i.acts[n + 1].accept # "yes"
      BY <1>14 DEF a
    <3> QED BY <1>1, <3>1, YesNext, YesOfNext
  <2>3. i.pc = "inspire" => EndsWith(i.drawn, i.acts, n + 1, "resist", i.roll)
    <3>1. ~Inspired(i.acts, n + 1, i.roll)
      BY <1>14 DEF Inspired, a
    <3>2. ASSUME i.pc = "inspire" PROVE Len(i.drawn) > 0 /\ i.drawn[Len(i.drawn) - 0] = i.roll
      BY <1>4, <3>2, EndsIs
    <3> QED BY <3>1, <3>2, EndsIs
  <2> QED BY <1>3, <1>4, <1>7, <1>8, <1>9, <1>10, <1>12, <1>13, <2>1, <2>2, <2>3 DEF PastDecision
<1>15. CASE a.accept = "yes" /\ i.pc = "inspire"
  <2>1. /\ z.drawn = Draw(j).drawn /\ z.pos = Draw(j).pos
        /\ z.used = i.used \cup {Roller(i)} /\ z.spent = i.spent
    BY <1>2, <1>5, <1>11, <1>15 DEF a, Applied
  <2>2. /\ Continues(z.drawn, i.prefix, i.start, z.pos)
        /\ Len(z.drawn) = Len(i.drawn) + 1
        /\ \A k \in 1 .. Len(i.drawn) : z.drawn[k] = i.drawn[k]
    <3>1. Continues(j.drawn, j.prefix, j.start, j.pos)
      BY <1>2, <1>4
    <3>2. /\ Continues(Draw(j).drawn, j.prefix, j.start, Draw(j).pos)
          /\ Len(Draw(j).drawn) = Len(j.drawn) + 1
          /\ \A k \in 1 .. Len(j.drawn) : Draw(j).drawn[k] = j.drawn[k]
      BY <1>2, <3>1, DrawContinues
    <3> QED BY <1>2, <2>1, <3>2
  <2>3. i.acts[n + 1].kind = "inspire" /\ i.acts[n + 1].accept = "yes" /\ i.acts[n + 1].roll = i.roll
    BY <1>6, <1>15 DEF a
  <2>4. /\ Yes(i.acts, n + 1, "inspire") = Yes(i.acts, n, "inspire") \cup {n + 1}
        /\ Cardinality(Yes(i.acts, n + 1, "inspire")) = Cardinality(Yes(i.acts, n, "inspire")) + 1
    BY <1>1, <2>3, YesNext
  <2>5. \A x : YesOf(i.acts, n + 1, "resist", x) = YesOf(i.acts, n, "resist", x)
    BY <1>1, <2>3, YesOfNext
  <2>6. EndsWith(z.drawn, i.acts, n + 1, "resist", i.roll)
    <3>1. Inspired(i.acts, n + 1, i.roll)
      BY <1>1, <2>3 DEF Inspired
    <3>2. i.drawn[Len(i.drawn) - 0] = i.roll
      BY <1>4, <1>15, EndsIs
    <3>3. Len(z.drawn) > 1 /\ Len(z.drawn) - 1 = Len(i.drawn) - 0
      BY <1>1, <1>8, <2>2
    <3>4. Len(i.drawn) - 0 = Len(i.drawn) /\ Len(i.drawn) \in 1 .. Len(i.drawn)
      BY <1>1, <1>8
    <3>5. z.drawn[Len(z.drawn) - 1] = i.roll
      BY <2>2, <3>2, <3>3, <3>4
    <3> QED BY <3>1, <3>3, <3>5, EndsIs
  <2>7. Len(z.drawn) = i.step + Cardinality(Yes(i.acts, n + 1, "inspire"))
    <3> DEFINE c == Cardinality(Yes(i.acts, n, "inspire"))
               e == Cardinality(Yes(i.acts, n + 1, "inspire"))
               l == Len(i.drawn) m == Len(z.drawn)
    <3>1. c \in Nat /\ i.step \in Nat /\ e = c + 1 /\ l = i.step + c /\ m = l + 1
      <4>1. c \in Nat
        BY <1>1, YesIs
      <4> QED BY <1>1, <1>4, <2>2, <2>4, <4>1
    <3> HIDE DEF c, e, l, m
    <3>2. m = i.step + e
      BY <3>1
    <3> QED BY <3>2 DEF m, e
  <2>8. z.used = {i.acts[k].saver : k \in Yes(i.acts, n + 1, "inspire")}
    <3>1. i.acts[n + 1].saver = Roller(i)
      BY <1>6 DEF a
    <3> QED BY <1>4, <2>1, <2>4, <3>1
  <2>9. n + 1 = Len(i.acts) => Len(z.drawn) >= Len(i.prefix)
    <3> DEFINE l == Len(i.drawn) m == Len(z.drawn) q == Len(i.prefix)
    <3>1. l \in Nat /\ q \in Nat /\ m = l + 1 /\ (n + 1 = Len(i.acts) => l >= q)
      BY <1>1, <1>10, <2>2
    <3> HIDE DEF l, m, q
    <3>2. n + 1 = Len(i.acts) => m >= q
      BY <3>1
    <3> QED BY <3>2 DEF m, q
  <2>10. /\ z.cmd \in Command /\ z.pc = "inspire"
         /\ z.step <= Len(Script[z.cmd]) /\ Roller(z) \in Saver
         /\ z.idx <= Len(z.acts)
         /\ Recorded(z.prefix, z.start) /\ Continues(z.drawn, z.prefix, z.start, z.pos)
         /\ EndsAtLast(z.prefix, z.acts)
    BY <1>4, <1>9, <1>12, <1>13, <1>15, <2>2
  <2>11. \A x \in Saver : z.spent[x] = Cardinality(YesOf(z.acts, z.idx, "resist", x))
    BY <1>4, <1>12, <2>1, <2>5
  <2>12. /\ Len(z.drawn) = z.step + Cardinality(Yes(z.acts, z.idx, "inspire"))
         /\ z.used = {z.acts[k].saver : k \in Yes(z.acts, z.idx, "inspire")}
         /\ \A k \in 1 .. z.idx : z.acts[k].roll <= z.roll
         /\ EndsWith(z.drawn, z.acts, z.idx, "resist", z.roll)
         /\ z.idx = Len(z.acts) => Len(z.drawn) >= Len(z.prefix)
    BY <1>7, <1>12, <2>6, <2>7, <2>8, <2>9
  <2> QED BY <1>12, <2>10, <2>11, <2>12 DEF PastDecision
<1>16. CASE a.accept = "yes" /\ i.pc = "resist"
  <2>1. /\ z.drawn = i.drawn /\ z.pos = i.pos /\ z.used = i.used
        /\ z.spent = [i.spent EXCEPT ![Roller(i)] = @ + 1]
    BY <1>2, <1>5, <1>11, <1>16 DEF a, Applied
  <2>2. /\ i.acts[n + 1].kind = "resist" /\ i.acts[n + 1].accept = "yes"
        /\ i.acts[n + 1].saver = Roller(i)
    BY <1>6, <1>16 DEF a
  <2>3. Yes(i.acts, n + 1, "inspire") = Yes(i.acts, n, "inspire")
    BY <1>1, <2>2, YesNext
  <2>4. ASSUME NEW x \in Saver PROVE z.spent[x] = Cardinality(YesOf(i.acts, n + 1, "resist", x))
    <3>1. i.spent \in [Saver -> Nat]
      BY DEF JobType
    <3>2. CASE x = Roller(i)
      <4>1. z.spent[x] = i.spent[x] + 1
        BY <2>1, <3>1, <3>2
      <4> QED BY <1>1, <1>4, <2>2, <3>2, <4>1, YesOfNext
    <3>3. CASE x # Roller(i)
      <4>1. z.spent[x] = i.spent[x]
        BY <2>1, <3>1, <3>3
      <4> QED BY <1>1, <1>4, <2>2, <3>3, <4>1, YesOfNext
    <3> QED BY <3>2, <3>3
  <2> QED BY <1>3, <1>4, <1>7, <1>8, <1>9, <1>10, <1>12, <1>13, <1>16, <2>1, <2>3, <2>4
          DEF PastDecision
<1> QED BY <1>3, <1>12, <1>14, <1>15, <1>16

LEMMA ReplayStep ==
  ASSUME IInv, NEW p \in Proc, Replay(p), UNCHANGED kept
  PROVE  IInv'
<1> DEFINE i == job[p]
           j == Counted(i)
           z == Applied(i)
<1>1. MayDecide(i) /\ i.idx < Len(i.acts)
  BY DEF Replay
<1>2. i.pc \in Inside
  BY <1>1 DEF MayDecide, MayInspire, MayResist, Inside
<1>3. i \in JobType /\ Running(i) /\ lock = p
  BY <1>2, InsideIs
<1>4. CASE SameRoll(i.acts[j.idx], j)
  <2>1. job' = [job EXCEPT ![p] = AfterRoll(z)] /\ UNCHANGED lock
    BY <1>4 DEF Replay, Counted, Applied
  <2>2. UNCHANGED <<db, receipt, lock, Client, History, kept>>
    BY <2>1 DEF Replay
  <2>3. /\ z \in JobType /\ PastDecision(z)
        /\ z.req = i.req /\ z.rev = i.rev /\ z.start = i.start
        /\ z.cmd = i.cmd /\ z.prefix = i.prefix /\ z.acts = i.acts
    BY <1>1, <1>3, <1>4, ReplayRuns
  <2> HIDE DEF z
  <2>4. /\ AfterRoll(z) \in JobType /\ AfterRoll(z).pc \in Inside /\ Running(AfterRoll(z))
        /\ AfterRoll(z).req = z.req /\ AfterRoll(z).rev = z.rev /\ AfterRoll(z).start = z.start
        /\ AfterRoll(z).cmd = z.cmd /\ AfterRoll(z).prefix = z.prefix /\ AfterRoll(z).acts = z.acts
    BY <2>3, AfterRollRuns
  <2> QED BY <1>2, <2>1, <2>2, <2>3, <2>4, InsideStep
<1>5. CASE ~SameRoll(i.acts[j.idx], j)
  <2>1. Ended(p, "error") /\ Rollback
    BY <1>5 DEF Replay, Counted
  <2>2. UNCHANGED <<db, receipt, Client, History, kept>>
    BY DEF Replay
  <2>3. lock' = IF lock = p THEN None ELSE lock
    BY <1>3, <2>1 DEF Rollback
  <2>4. i.pc # "idle"
    BY <1>2 DEF Inside
  <2> QED BY <2>1, <2>2, <2>3, <2>4, EndedStep
<1> QED BY <1>4, <1>5

\* The dice end where the decision that is to be made comes up.
LEMMA EndsAppended ==
  ASSUME NEW drawn, NEW acts \in Seq(Decision), NEW d \in Decision,
         EndsWith(drawn, acts, Len(acts), d.kind, d.roll)
  PROVE  EndsAtLast(drawn, Append(acts, d))
<1> DEFINE b == Append(acts, d) n == Len(acts)
<1>1. n \in Nat /\ Len(b) = n + 1 /\ b # << >> /\ b[n + 1] = d /\ Len(b) - 1 = n
      /\ \A i \in 1 .. n : b[i] = acts[i]
  OBVIOUS
<1>2. Inspired(b, n, d.roll) <=> Inspired(acts, n, d.roll)
  <2>1. ASSUME n > 0 PROVE b[n] = acts[n]
    <3>1. n \in 1 .. n
      BY <1>1, <2>1
    <3> HIDE DEF b, n
    <3> QED BY <1>1, <3>1
  <2> QED BY <2>1 DEF Inspired
<1> HIDE DEF b, n
<1>3. EndsWith(drawn, b, n, d.kind, d.roll)
  BY <1>2 DEF EndsWith, n
<1> QED BY <1>1, <1>3 DEF EndsAtLast, b

LEMMA SuspendStep ==
  ASSUME IInv, NEW p \in Proc, Suspend(p), UNCHANGED kept
  PROVE  IInv'
<1> DEFINE j == job[p]
           d == NewDecision(j)
           x == [Idle EXCEPT !.pc = "offer", !.req = j.req, !.start = j.start,
                                !.pos = j.pos, !.rev = j.rev, !.arev = j.arev,
                                !.cmd = j.cmd, !.drawn = j.drawn,
                                !.acts = Append(j.acts, d)]
<1>1. MayDecide(j) /\ j.idx = Len(j.acts) /\ lock' = None
      /\ job' = [job EXCEPT ![p] = x]
      /\ UNCHANGED <<db, receipt, Client, History, kept>>
  BY DEF Suspend, Rollback
<1>2. j.pc \in Inside /\ j.pc \in {"inspire", "resist"} /\ j.pc \notin {"enter", "offer", "roll"}
  BY <1>1 DEF MayDecide, MayInspire, MayResist, Inside
<1>3. /\ lock = p /\ j \in JobType
      /\ j.req \in Request /\ Home[j.req] = p /\ asked[j.req] # None
      /\ receipt[j.req] = None /\ j.req \notin Restore
      /\ j.rev = db.rev /\ Here(j) /\ Running(j)
  BY <1>2, InsideIs
<1>4. /\ j.drawn \in Seq(Nat) /\ j.acts \in Seq(Decision) /\ j.pos \in Nat /\ j.start \in Nat
      /\ j.rev \in Nat /\ j.arev \in Nat /\ j.cmd \in Command \cup {None} /\ j.roll \in Nat
  BY <1>3 DEF JobType
<1>5. d \in Decision /\ d.kind = j.pc /\ d.roll = j.roll /\ d.accept = "open"
  BY <1>2, <1>3, <1>4 DEF NewDecision, Decision, Running
<1> HIDE DEF d, j
<1> DEFINE b == Append(j.acts, d)
<1>6. b \in Seq(Decision) /\ Len(b) = Len(j.acts) + 1 /\ b[Len(b)] = d /\ Len(b) > 0
  BY <1>4, <1>5
<1> HIDE DEF b
<1>7. x \in JobType
  BY <1>3, <1>4, <1>6, IdleIsJob DEF JobType, b
<1>8. x.pc = "offer" /\ x.req = j.req /\ x.start = j.start /\ x.pos = j.pos /\ x.rev = j.rev
      /\ x.cmd = j.cmd /\ x.drawn = j.drawn /\ x.acts = b
  BY DEF Idle, b
<1>9. job'[p] = x /\ job' = [job EXCEPT ![p] = job'[p]]
  BY <1>1, Parts
<1> HIDE DEF x
<1>10. Here(x)
  BY <1>2, <1>3, <1>8 DEF Here
<1>11. Offering(x)
  <2>1. j.prefix = Base(j.req) /\ j.acts = Given(j.req)
    BY <1>2, <1>3 DEF Here
  <2>2. Len(j.drawn) >= Len(j.prefix) /\ Continues(j.drawn, j.prefix, j.start, j.pos)
        /\ EndsWith(j.drawn, j.acts, Len(j.acts), j.pc, j.roll)
    BY <1>1, <1>2, <1>3 DEF Running, j
  <2>3. EndsAtLast(j.drawn, b)
    BY <1>4, <1>5, <2>2, EndsAppended DEF b
  <2>4. x.acts = Append(Given(x.req), x.acts[Len(x.acts)])
    BY <1>6, <1>8, <2>1 DEF b
  <2> QED BY <1>5, <1>6, <1>8, <2>1, <2>2, <2>3, <2>4 DEF Offering
<1>12. Grounded(x)
  BY <1>3, <1>8, <1>10, <1>11, Parts DEF Grounded, Inside
<1>13. crashes' \in 0 .. MaxCrash
  BY <1>1, Parts DEF TypeOK, Client
<1>14. /\ job'[p] \in JobType /\ Grounded(job'[p]) /\ job'[p].pc # "reply"
       /\ job'[p].req \in Request /\ Home[job'[p].req] = p /\ asked[job'[p].req] # None
       /\ job'[p].pc \notin Inside
       /\ lock' = IF lock = p THEN None ELSE lock
  BY <1>1, <1>3, <1>7, <1>8, <1>9, <1>12 DEF Inside
<1> QED BY <1>1, <1>9, <1>13, <1>14, KeptIs, JobStep DEF Client, History

\* An answer leaves the dice where the decision came up.
LEMMA EndsAnswered ==
  ASSUME NEW prefix, NEW acts \in Seq(Decision), NEW given, Len(acts) > 0,
         Answer(acts, given), EndsAtLast(prefix, acts)
  PROVE  EndsAtLast(prefix, given)
<1> DEFINE n == Len(acts)
<1>1. given \in Seq(Decision) /\ n \in Nat /\ n \in 1 .. n /\ acts # << >>
  BY DEF Answer
<1>2. Len(given) = n /\ given # << >> /\ given[n].kind = acts[n].kind /\ given[n].roll = acts[n].roll
  BY <1>1 DEF Answer
<1>3. Inspired(given, n - 1, acts[n].roll) <=> Inspired(acts, n - 1, acts[n].roll)
  <2>1. ASSUME n - 1 > 0 PROVE given[n - 1] = acts[n - 1]
    <3>1. n - 1 \in 1 .. n /\ n - 1 < n
      BY <1>1, <2>1
    <3> QED BY <3>1 DEF Answer
  <2> QED BY <2>1 DEF Inspired
<1>4. EndsWith(prefix, acts, n - 1, acts[n].kind, acts[n].roll)
  BY <1>1 DEF EndsAtLast
<1> HIDE DEF n
<1>5. EndsWith(prefix, given, n - 1, acts[n].kind, acts[n].roll)
  BY <1>3, <1>4 DEF EndsWith
<1> QED BY <1>2, <1>5 DEF EndsAtLast

\* What a process reads before its transaction.
LEMMA EnterIs ==
  ASSUME IInv, NEW p \in Proc, job[p].pc = "enter"
  PROVE  /\ job[p] \in JobType
         /\ job[p].req \in Request /\ Home[job[p].req] = p /\ asked[job[p].req] # None
         /\ receipt[job[p].req] = None \/ Undecided(job[p].req)
         /\ job[p].req \notin Restore
         /\ job[p].basis \in Nat /\ job[p].rev \in Nat
         /\ job[p].req \in Plain => job[p].basis = asked[job[p].req].basis
         /\ job[p].basis <= job[p].rev /\ job[p].rev <= db.rev /\ AtStart(job[p])
         /\ job[p].basis = db.rev => job[p].rev = db.rev /\ Here(job[p])
<1>1. job[p] \in JobType /\ db.rev \in Nat
  BY Parts
<1>2. job[p].basis \in Nat /\ job[p].rev \in Nat
  BY <1>1 DEF JobType
<1>3. Grounded(job[p]) /\ Addressed
  BY DEF IInv
<1>4. /\ job[p].req \in Request /\ Home[job[p].req] = p /\ asked[job[p].req] # None
  BY <1>3 DEF Addressed
<1>5. /\ receipt[job[p].req] = None \/ Undecided(job[p].req)
      /\ job[p].req \notin Restore
      /\ job[p].req \in Plain => job[p].basis = asked[job[p].req].basis
      /\ job[p].basis <= job[p].rev /\ job[p].rev <= db.rev /\ AtStart(job[p])
      /\ job[p].rev = db.rev /\ job[p].basis = db.rev => Here(job[p])
  BY <1>3 DEF Grounded, Working
<1> QED BY <1>1, <1>2, <1>4, <1>5

\* An attempt whose command is not found committed has no receipt, if its
\* revision is the current one.
LEMMA NotCommitted ==
  ASSUME IInv, NEW p \in Proc, job[p].pc = "enter", job[p].basis = db.rev,
         ~Committed(job[p].req)
  PROVE  receipt[job[p].req] = None
<1> DEFINE k == job[p].req
<1>1. k \in Request /\ asked[k] # None /\ (k \in Plain => job[p].basis = asked[k].basis)
      /\ (receipt[k] = None \/ Undecided(k))
  BY EnterIs
<1>2. SUFFICES ASSUME receipt[k] # None PROVE FALSE
  OBVIOUS
<1>3. k \in Command /\ k \in Plain /\ k \notin Restore
  BY <1>1, <1>2, NamesAssumption DEF Undecided, Plain
<1>4. asked[k].epoch = db.epoch
  BY <1>1, <1>3 DEF IInv, Read, AskedOf
<1>5. receipt[k].epoch = asked[k].epoch
  BY <1>1, <1>2, <1>3 DEF IInv, Receipts
<1> QED BY <1>2, <1>4, <1>5 DEF Committed

LEMMA EnterStep ==
  ASSUME IInv, NEW p \in Proc, Enter(p), UNCHANGED kept
  PROVE  IInv'
<1> DEFINE j == job[p] x == [j EXCEPT !.pc = "roll"] k == j.req
<1>1. j.pc = "enter" /\ lock = None
      /\ UNCHANGED <<db, receipt, Client, History, kept>>
  BY DEF Enter
<1>2. /\ j \in JobType
      /\ k \in Request /\ Home[k] = p /\ asked[k] # None /\ k \notin Restore
      /\ AtStart(j) /\ (j.basis = db.rev => j.rev = db.rev /\ Here(j))
  BY <1>1, EnterIs
<1>3. p # None
  BY NoneIsNo
<1>4. CASE Unchanged(j) /\ ~Committed(k) /\ j.basis = db.rev
  <2>0. receipt[k] = None
    BY <1>1, <1>4, NotCommitted
  <2>1. lock' = p /\ job' = [job EXCEPT ![p] = x]
    BY <1>4 DEF Enter
  <2>2. /\ x \in JobType /\ x.pc = "roll" /\ x.req = k /\ x.start = j.start /\ x.pos = j.pos
        /\ x.rev = j.rev /\ x.cmd = j.cmd /\ x.prefix = j.prefix /\ x.acts = j.acts
        /\ x.drawn = j.drawn /\ x.idx = j.idx /\ x.step = j.step /\ x.used = j.used
        /\ x.spent = j.spent
    <3> HIDE DEF j
    <3> QED BY <1>2 DEF JobType, Inside
  <2>3. job'[p] = x /\ job' = [job EXCEPT ![p] = job'[p]]
    BY <2>1, Parts
  <2> HIDE DEF j, x, k
  <2>4. j.rev = db.rev /\ Here(j)
    BY <1>2, <1>4
  <2>5. Here(x)
    BY <1>1, <2>2, <2>4 DEF Here, k
  <2>6. /\ x.drawn = << >> /\ x.idx = 0 /\ x.step = 1 /\ x.used = {}
        /\ x.spent = [y \in Saver |-> 0] /\ x.pos = x.start /\ x.start = db.pos
    BY <1>2, <2>2, <2>4 DEF AtStart, Here
  <2>7. x.cmd \in Command
    <3>1. k \in Choice \/ k \in Command
      BY <1>2 DEF Request, Plain
    <3>2. x.cmd = For(k)
      BY <2>2, <2>5 DEF Here
    <3>3. k \in Choice => db.pending # None /\ db.pending.cmd = k.of
      BY <2>2, <2>5 DEF Here
    <3> QED BY <3>1, <3>2, <3>3, PendingIs DEF For
  <2>8. /\ x.prefix \in Seq(Nat) /\ x.acts \in Seq(Decision)
        /\ Recorded(x.prefix, db.pos) /\ EndsAtLast(x.prefix, x.acts)
    <3>1. x.prefix = Base(k) /\ x.acts = Given(k) /\ x.prefix \in Seq(Nat) /\ x.acts \in Seq(Decision)
      <4>1. x.prefix = Base(k) /\ x.acts = Given(k)
        BY <2>2, <2>5 DEF Here
      <4> QED BY <2>2, <4>1 DEF JobType
    <3>2. CASE k \notin Choice
      <4>1. x.prefix = << >> /\ x.acts = << >>
        BY <3>1, <3>2 DEF Base, Given
      <4> QED BY <4>1 DEF Recorded, InOrder, EndsAtLast
    <3>3. CASE k \in Choice
      <4>1. x.prefix = db.pending.draws /\ x.acts = Answered(k)
        BY <3>1, <3>3 DEF Base, Given
      <4>2. db.pending # None /\ Len(db.pending.acts) = k.at
        BY <2>2, <2>5, <3>3 DEF Here
      <4>3. Answer(db.pending.acts, Answered(k))
        BY <3>3, <4>2, AnsweredIs
      <4>4. /\ Recorded(db.pending.draws, db.pos) /\ EndsAtLast(db.pending.draws, db.pending.acts)
            /\ db.pending.acts \in Seq(Decision) /\ Len(db.pending.acts) > 0
        BY <4>2, PendingIs
      <4> QED BY <3>1, <4>1, <4>3, <4>4, EndsAnswered
    <3> QED BY <3>2, <3>3
  <2>9. Running(x)
    <3>1. Len(x.drawn) = 0 /\ Len(x.prefix) \in Nat /\ Len(x.acts) \in Nat
      BY <2>6, <2>8
    <3>2. Continues(x.drawn, x.prefix, x.start, x.pos)
      BY <2>2, <2>6, <3>1, Parts DEF Continues
    <3>3. Yes(x.acts, x.idx, "inspire") = {} /\ \A y \in Saver : YesOf(x.acts, x.idx, "resist", y) = {}
      BY <2>6 DEF Yes, YesOf
    <3>4. Cardinality({}) = 0
      BY FS_EmptySet
    <3>5. x.idx = Len(x.acts) => Len(x.drawn) >= Len(x.prefix)
      <4>1. ASSUME x.idx = Len(x.acts) PROVE x.acts = << >>
        BY <2>6, <2>8, <4>1
      <4>2. ASSUME x.acts = << >> PROVE x.prefix = << >>
        BY <2>8, <4>2 DEF EndsAtLast
      <4>3. Len(<< >>) = 0
        OBVIOUS
      <4> QED BY <3>1, <4>1, <4>2, <4>3
    <3>6. x.step <= Len(Script[x.cmd]) + 1
      <4>1. Len(Script[x.cmd]) \in Nat
        BY <2>7, ScriptAssumption
      <4> QED BY <2>6, <4>1
    <3>7. Len(x.drawn) = Rolled(x) + Cardinality(Yes(x.acts, x.idx, "inspire"))
      <4>1. Rolled(x) = 0
        BY <2>2, <2>6 DEF Rolled
      <4>2. Cardinality(Yes(x.acts, x.idx, "inspire")) = 0
        BY <3>3, <3>4
      <4> QED BY <3>1, <4>1, <4>2
    <3>8. /\ \A y \in Saver : x.spent[y] = Cardinality(YesOf(x.acts, x.idx, "resist", y))
          /\ x.used = {x.acts[i].saver : i \in Yes(x.acts, x.idx, "inspire")}
          /\ x.idx <= Len(x.acts) /\ x.pc = "roll" /\ (1 .. x.idx) = {}
      <4>1. \A y \in Saver : x.spent[y] = 0
        BY <2>6
      <4>2. \A y \in Saver : Cardinality(YesOf(x.acts, x.idx, "resist", y)) = 0
        BY <3>3, <3>4
      <4>3. x.used = {x.acts[i].saver : i \in Yes(x.acts, x.idx, "inspire")}
        BY <2>6, <3>3
      <4>4. x.idx <= Len(x.acts) /\ x.pc = "roll" /\ (1 .. x.idx) = {}
        BY <2>2, <2>6, <3>1
      <4> QED BY <4>1, <4>2, <4>3, <4>4
    <3> QED BY <2>6, <2>7, <2>8, <3>2, <3>5, <3>6, <3>7, <3>8 DEF Running
  <2>10. Grounded(x)
    BY <1>2, <2>0, <2>2, <2>4, <2>5, <2>7, <2>9, Parts DEF Grounded, k
  <2>11. crashes' \in 0 .. MaxCrash
    BY <1>1, Parts DEF TypeOK, Client
  <2>12. /\ job'[p] \in JobType /\ Grounded(job'[p]) /\ job'[p].pc = "roll"
         /\ job'[p].req \in Request /\ Home[job'[p].req] = p /\ asked[job'[p].req] # None
         /\ job'[p].pc \in Inside
    BY <1>2, <2>2, <2>3, <2>10 DEF k, Inside
  <2> QED BY <1>1, <2>1, <2>3, <2>11, <2>12, KeptIs, JobStep DEF Client, History
<1>5. CASE ~(Unchanged(j) /\ ~Committed(k) /\ j.basis = db.rev)
  <2>1. /\ lock' = lock /\ lock # p
        /\ Ended(p, "error") \/ (Committed(k) /\ Ended(p, "done"))
    BY <1>1, <1>3, <1>5 DEF Enter
  <2> QED BY <1>1, <2>1, EndedStep DEF Committed
<1> QED BY <1>4, <1>5

(***************************************************************************)
(* Commits.                                                                *)
(***************************************************************************)
LEMMA WriteSheetStep ==
  ASSUME IInv, WriteSheet, UNCHANGED kept
  PROVE  IInv'
<1>1. /\ db' = [db EXCEPT !.arev = @ + 1]
      /\ UNCHANGED <<receipt, lock, job, asked, fate, crashes, dice, decided, kept>>
  BY DEF WriteSheet, Client, History
<1>2. TypeOK /\ db.arev \in Nat /\ kept \in [Request -> KeptType]
  BY Parts
<1> DEFINE DbType == [rev : Nat, arev : Nat, epoch : Nat, pos : Nat,
                      uses : [Saver -> Nat], gift : SUBSET Saver,
                      pending : Continuation \cup {None}]
<1>3. db \in DbType
  BY <1>2 DEF TypeOK
<1>4. db' \in DbType
  BY <1>1, <1>2, <1>3
<1>5. /\ db'.rev = db.rev /\ db'.pos = db.pos /\ db'.epoch = db.epoch
      /\ db'.pending = db.pending /\ db'.uses = db.uses /\ db'.gift = db.gift
      /\ db'.arev = db.arev + 1
  BY <1>1, <1>3
<1>6. LocalTypeOK'
  BY <1>1, <1>2, <1>4 DEF LocalTypeOK, TypeOK
<1>7. Addressed'
  BY <1>1 DEF IInv, Addressed
<1>8. Read'
  <2>1. ASSUME NEW k \in Request, asked[k] # None
        PROVE  /\ asked[k].epoch <= db.epoch /\ asked[k].basis <= AskedOf(k)'
               /\ asked[k].basis = AskedOf(k)' => asked[k].epoch = db.epoch
    <3>1. /\ asked[k].epoch <= db.epoch /\ asked[k].basis <= AskedOf(k)
          /\ asked[k].basis = AskedOf(k) => asked[k].epoch = db.epoch
      BY <2>1 DEF IInv, Read
    <3>2. \A q \in Request : asked[q] # None => asked[q].basis \in Nat /\ asked[q].epoch \in Nat
      BY Parts
    <3>3. asked[k].basis \in Nat
      BY <2>1, <3>2
    <3>4. CASE k \in Plain
      BY <1>5, <3>1, <3>4 DEF AskedOf
    <3>5. CASE k \notin Plain
      BY <1>2, <1>5, <3>1, <3>3, <3>5 DEF AskedOf
    <3> QED BY <3>4, <3>5
  <2> QED BY <1>1, <1>5, <2>1 DEF Read
<1>9. Receipts'
  <2>1. Results(kept)'
    BY <1>1, <1>5 DEF IInv, Receipts, Results, Led
  <2> QED BY <1>1, <1>5, <2>1 DEF IInv, Receipts, Led
<1>10. ASSUME NEW q \in Proc PROVE Grounded(job[q])'
  <2>1. Grounded(job'[q])
    BY <1>1 DEF IInv
  <2> QED BY <1>1, <1>5, <2>1, GroundedStays
<1>11. Suspended' /\ Untouched'
  BY <1>1, <1>5, FinishedStays DEF IInv, Suspended, Untouched, Drawn
<1>12. DiceOnce' /\ UsesTally'
  BY <1>1, <1>5, HistoryStays DEF IInv
<1> QED BY <1>6, <1>7, <1>8, <1>9, <1>10, <1>11, <1>12 DEF IInv

\* The receipt a commit leaves.
LEMMA ReceiptedIs ==
  ASSUME IInv, NEW k \in Request, asked[k] # None, NEW out \in {"offer", "done"}, Receipted(k, out)
  PROVE  /\ receipt' \in [Request -> Result \cup {None}]
         /\ receipt'[k] # None /\ receipt'[k].out = out
         /\ receipt'[k].basis = asked[k].basis /\ receipt'[k].epoch = db.epoch
         /\ \A m \in Request : m # k => receipt'[m] = receipt[m]
<1> DEFINE r == [out |-> out, basis |-> asked[k].basis, epoch |-> db.epoch]
<1>1. receipt \in [Request -> Result \cup {None}] /\ db.epoch \in Nat
  BY Parts DEF TypeOK
<1>2. \A m \in Request : asked[m] # None => asked[m].basis \in Nat /\ asked[m].epoch \in Nat
  BY Parts
<1>3. r \in Result /\ r.out = out /\ r.basis = asked[k].basis /\ r.epoch = db.epoch
  BY <1>1, <1>2 DEF Result
<1>4. r # None
  BY <1>3, NamesAssumption
<1>5. receipt' = [receipt EXCEPT ![k] = r]
  BY DEF Receipted
<1> HIDE DEF r
<1> QED BY <1>1, <1>3, <1>4, <1>5

\* A commit moves both revisions, so that what other processes read before it is
\* no longer current.
LEMMA CommitStep ==
  ASSUME IInv, NEW p \in Proc, NEW out \in {"offer", "done"},
         job[p].pc \in Working \cup {"restore"}, receipt[job[p].req] = None,
         job[p].req \notin Restore => asked[job[p].req].epoch = db.epoch,
         lock \in {None, p}, lock' = None,
         Receipted(job[p].req, out), Ended(p, out), UNCHANGED <<Client, kept>>,
         db' \in [rev : Nat, arev : Nat, epoch : Nat, pos : Nat,
                  uses : [Saver -> Nat], gift : SUBSET Saver,
                  pending : Continuation \cup {None}],
         db'.rev = db.rev + 1, db'.arev = db.arev + 1, db'.epoch = Led(job[p].req, db.epoch),
         dice' \in Seq(Command), decided' \in [Command -> Seq(Decision)]
  PROVE  LocalTypeOK' /\ Addressed' /\ Read' /\ Receipts' /\ \A q \in Proc : Grounded(job[q])'
<1> DEFINE k == job[p].req
<1>1. /\ TypeOK /\ db.rev \in Nat /\ db.arev \in Nat /\ db.epoch \in Nat
      /\ job \in [Proc -> JobType] /\ kept \in [Request -> KeptType]
      /\ \A q \in Proc : lock = q <=> job[q].pc \in Inside
  BY Parts
<1>2. k \in Request /\ Home[k] = p /\ asked[k] # None
  BY DEF IInv, Addressed, Working, Inside
<1>3. /\ receipt' \in [Request -> Result \cup {None}]
      /\ receipt'[k] # None /\ receipt'[k].out = out
      /\ receipt'[k].basis = asked[k].basis /\ receipt'[k].epoch = db.epoch
      /\ \A m \in Request : m # k => receipt'[m] = receipt[m]
  BY <1>2, ReceiptedIs
<1>4. /\ job'[p] \in JobType /\ job' = [job EXCEPT ![p] = job'[p]]
      /\ job'[p].pc = "reply" /\ job'[p].req = k /\ job'[p].out = out
  BY <1>1, EndedIs
<1>5. job' \in [Proc -> JobType] /\ \A q \in Proc : q # p => job'[q] = job[q]
  BY <1>1, <1>4, JobReplaced
<1>6. \A q \in Proc : job'[q].pc \notin Inside
  <2>1. job'[p].pc \notin Inside
    BY <1>4 DEF Inside
  <2>2. \A q \in Proc : q # p => job[q].pc \notin Inside
    BY <1>1, NoneIsNo
  <2> QED BY <1>5, <2>1, <2>2
<1>7. asked' = asked /\ fate' = fate /\ crashes' = crashes /\ kept' = kept
  BY DEF Client
<1> HIDE DEF k
<1>8. LocalTypeOK'
  <2>1. \A q \in Proc : lock' = q <=> job'[q].pc \in Inside
    BY <1>6, NoneIsNo
  <2> QED BY <1>1, <1>3, <1>5, <1>7, <2>1 DEF LocalTypeOK, TypeOK
<1>9. Addressed'
  <2>1. ASSUME NEW q \in Proc, job'[q].pc # "idle"
        PROVE  job'[q].req \in Request /\ Home[job'[q].req] = q /\ asked[job'[q].req] # None
    BY <1>2, <1>4, <1>5, <2>1 DEF IInv, Addressed
  <2> QED BY <1>7, <2>1 DEF Addressed
<1>10. db.epoch <= db'.epoch /\ db'.epoch = Led(k, db.epoch) /\ db'.epoch \in Nat
  BY <1>1 DEF Led, k
<1>11. ASSUME NEW m \in Request, asked[m] # None
       PROVE  /\ asked[m].epoch <= db'.epoch /\ asked[m].basis < AskedOf(m)'
              /\ asked[m].basis \in Nat
              /\ m \in Plain => asked[m].basis < db'.rev
  <2>1. asked[m].epoch <= db.epoch /\ asked[m].basis <= AskedOf(m)
    BY <1>11 DEF IInv, Read
  <2>2. \A n \in Request : asked[n] # None => asked[n].basis \in Nat /\ asked[n].epoch \in Nat
    BY Parts
  <2>3. asked[m].basis \in Nat /\ asked[m].epoch \in Nat
    BY <1>11, <2>2
  <2>4. asked[m].epoch <= db'.epoch
    BY <1>1, <1>10, <2>1, <2>3
  <2>5. CASE m \in Plain
    BY <1>1, <2>1, <2>3, <2>4, <2>5 DEF AskedOf
  <2>6. CASE m \notin Plain
    BY <1>1, <2>1, <2>3, <2>4, <2>6 DEF AskedOf
  <2> QED BY <2>5, <2>6
<1>12. Read'
  <2>1. ASSUME NEW m \in Request, asked[m] # None
        PROVE  /\ asked[m].epoch <= db'.epoch /\ asked[m].basis <= AskedOf(m)'
               /\ asked[m].basis # AskedOf(m)'
    <3>1. AskedOf(m)' \in Nat
      BY <1>1 DEF AskedOf
    <3> QED BY <1>11, <2>1, <3>1
  <2> QED BY <1>7, <2>1 DEF Read
<1>13. Receipts'
  <2>1. ASSUME NEW m \in Request, receipt'[m] # None
        PROVE  /\ asked[m] # None
               /\ receipt'[m].basis = asked[m].basis
               /\ m \notin Restore => receipt'[m].epoch = asked[m].epoch
               /\ Led(m, receipt'[m].epoch) <= db'.epoch
    <3>1. CASE m = k
      BY <1>2, <1>3, <1>10, <3>1 DEF k
    <3>2. CASE m # k
      <4>1. receipt'[m] = receipt[m]
        BY <1>3, <3>2
      <4>2. /\ asked[m] # None
            /\ receipt[m].basis = asked[m].basis
            /\ m \notin Restore => receipt[m].epoch = asked[m].epoch
            /\ Led(m, receipt[m].epoch) <= db.epoch
        BY <2>1, <4>1 DEF IInv, Receipts
      <4>3. \A n \in Request : receipt[n] # None => receipt[n].basis \in Nat /\ receipt[n].epoch \in Nat
        BY Parts
      <4>4. receipt[m].epoch \in Nat
        BY <2>1, <4>1, <4>3
      <4>5. Led(m, receipt[m].epoch) \in Nat
        BY <4>4 DEF Led
      <4> QED BY <1>1, <1>10, <4>1, <4>2, <4>5
    <3> QED BY <3>1, <3>2
  <2>2. ASSUME NEW m \in Request, kept[m].out # "none"
        PROVE  /\ receipt'[m] # None
               /\ Led(m, receipt'[m].epoch) <= kept[m].epoch /\ kept[m].epoch <= db'.epoch
    <3>1. /\ receipt[m] # None
          /\ Led(m, receipt[m].epoch) <= kept[m].epoch /\ kept[m].epoch <= db.epoch
      BY <2>2 DEF IInv, Receipts, Results
    <3>2. m # k /\ receipt'[m] = receipt[m]
      BY <1>3, <3>1 DEF k
    <3>3. kept[m].epoch \in Nat
      BY <1>1 DEF KeptType
    <3>4. kept[m].epoch <= db'.epoch
      BY <1>1, <1>10, <3>1, <3>3
    <3> QED BY <3>1, <3>2, <3>4
  <2>3. ASSUME NEW q \in Proc, job'[q].pc = "reply", job'[q].out \in {"offer", "done"}
        PROVE  receipt'[job'[q].req] # None
    <3>1. CASE q = p
      BY <1>3, <1>4, <3>1
    <3>2. CASE q # p
      <4>1. job'[q] = job[q]
        BY <1>5, <3>2
      <4>2. job[q].req \in Request /\ receipt[job[q].req] # None
        BY <2>3, <4>1 DEF IInv, Receipts, Addressed
      <4> QED BY <1>3, <4>1, <4>2 DEF k
    <3> QED BY <3>1, <3>2
  <2> QED BY <1>7, <2>1, <2>2, <2>3 DEF Receipts, Results, Led
<1>14. ASSUME NEW q \in Proc PROVE Grounded(job[q])'
  <2>1. CASE q = p
    BY <1>4, <2>1 DEF Grounded, Working, Inside
  <2>2. CASE q # p
    <3>1. job'[q] = job[q] /\ job[q].pc \notin Inside /\ job[q] \in JobType
      BY <1>1, <1>5, <1>6, <2>2
    <3>2. Grounded(job[q])
      BY DEF IInv
    <3>3. CASE job[q].pc = "begin"
      <4>1. job[q].req \in Request /\ asked[job[q].req] # None
        BY <3>3 DEF IInv, Addressed
      <4>2. /\ job[q].basis = asked[job[q].req].basis
            /\ AtStart(job[q]) /\ job[q].prefix = << >> /\ job[q].acts = << >>
        BY <3>2, <3>3 DEF Grounded
      <4>3. job[q].req \in Plain => job[q].basis # db'.rev
        BY <1>1, <1>11, <4>1, <4>2
      <4> QED BY <1>7, <3>1, <3>3, <4>2, <4>3 DEF Grounded, Working, Inside, AtStart
    <3>4. CASE job[q].pc \in {"enter", "offer"}
      <4>1. job[q].req \in Request /\ Home[job[q].req] = q
        BY <3>4 DEF IInv, Addressed
      <4>2. receipt'[job[q].req] = receipt[job[q].req]
        BY <1>2, <1>3, <2>2, <4>1
      <4>3. /\ receipt[job[q].req] = None \/ (job[q].pc = "enter" /\ Undecided(job[q].req))
            /\ job[q].rev <= db.rev /\ job[q].req \notin Restore
            /\ job[q].pc = "enter" =>
                 /\ job[q].basis <= job[q].rev /\ AtStart(job[q])
                 /\ job[q].req \in Plain => job[q].basis = asked[job[q].req].basis
        BY <3>2, <3>4 DEF Grounded, Working
      <4>4. job[q].rev <= db'.rev /\ job[q].rev # db'.rev
        <5>1. job[q].rev \in Nat
          BY <3>1 DEF JobType
        <5> QED BY <1>1, <4>3, <5>1
      <4>5. Undecided(job[q].req) => Undecided(job[q].req)'
        BY <3>1, <4>2 DEF Undecided
      <4> QED BY <1>7, <3>1, <3>4, <4>2, <4>3, <4>4, <4>5 DEF Grounded, AtStart, Inside
    <3>5. CASE job[q].pc = "restore"
      <4>1. job[q].req \in Request /\ Home[job[q].req] = q
        BY <3>5 DEF IInv, Addressed
      <4>2. receipt'[job[q].req] = receipt[job[q].req]
        BY <1>2, <1>3, <2>2, <4>1
      <4>3. receipt[job[q].req] = None /\ job[q].req \in Restore
        BY <3>2, <3>5 DEF Grounded
      <4> QED BY <3>1, <3>5, <4>2, <4>3 DEF Grounded, Working, Inside
    <3>6. CASE job[q].pc \notin {"begin", "enter", "offer", "restore"}
      BY <3>1, <3>6 DEF Grounded, Working
    <3> QED BY <3>3, <3>4, <3>5, <3>6
  <2> QED BY <2>1, <2>2
<1> QED BY <1>8, <1>9, <1>12, <1>13, <1>14

LEMMA RestoreStep ==
  ASSUME IInv, NEW p \in Proc, RestoreSnapshot(p), UNCHANGED kept
  PROVE  IInv'
<1> DEFINE k == job[p].req
<1>1. /\ job[p].pc = "restore" /\ lock = None /\ lock' = None /\ UNCHANGED <<Client, kept>>
      /\ db' = [Fresh EXCEPT !.rev = db.rev + 1, !.arev = db.arev + 1, !.epoch = db.epoch + 1]
      /\ Receipted(k, "done") /\ dice' = << >> /\ decided' = [c \in Command |-> << >>]
      /\ Ended(p, "done")
  BY DEF RestoreSnapshot
<1>2. k \in Request /\ asked[k] # None /\ receipt[k] = None /\ k \in Restore
  BY <1>1 DEF IInv, Addressed, Grounded
<1>3. db.rev \in Nat /\ db.arev \in Nat /\ db.epoch \in Nat
  BY Parts
<1>4. db' \in [rev : Nat, arev : Nat, epoch : Nat, pos : Nat,
               uses : [Saver -> Nat], gift : SUBSET Saver, pending : Continuation \cup {None}]
  <2> DEFINE DbType == [rev : Nat, arev : Nat, epoch : Nat, pos : Nat,
                        uses : [Saver -> Nat], gift : SUBSET Saver,
                        pending : Continuation \cup {None}]
  <2>1. Gifted \in SUBSET Saver /\ Uses \in [Saver -> Nat]
    BY ScriptAssumption
  <2>2. Fresh \in DbType
    BY <2>1 DEF Fresh
  <2>3. db' \in DbType
    <3> DEFINE r == db.rev + 1 a == db.arev + 1 e == db.epoch + 1
    <3>1. r \in Nat /\ a \in Nat /\ e \in Nat
      BY <1>3
    <3>2. db' = [Fresh EXCEPT !.rev = r, !.arev = a, !.epoch = e]
      BY <1>1
    <3> HIDE DEF r, a, e
    <3> QED BY <2>2, <3>1, <3>2
  <2> QED BY <2>3
<1>5. /\ db'.rev = db.rev + 1 /\ db'.arev = db.arev + 1 /\ db'.epoch = db.epoch + 1
      /\ db'.pos = 0 /\ db'.uses = Uses /\ db'.gift = Gifted /\ db'.pending = None
  BY <1>1 DEF Fresh
<1>6. dice' \in Seq(Command) /\ decided' \in [Command -> Seq(Decision)]
  BY <1>1
<1>7. db'.epoch = Led(job[p].req, db.epoch)
  BY <1>2, <1>5 DEF Led
<1>8. LocalTypeOK' /\ Addressed' /\ Read' /\ Receipts' /\ \A q \in Proc : Grounded(job[q])'
  BY <1>1, <1>2, <1>4, <1>5, <1>6, <1>7, CommitStep
<1>9. \A m \in Request : m # k => receipt'[m] = receipt[m]
  BY <1>1, <1>2, ReceiptedIs
<1>10. k \notin Command /\ k \notin Choice
  BY <1>2, NamesAssumption DEF Plain
<1>11. Suspended' /\ Untouched'
  <2>1. Finished' = Finished
    <3>1. /\ \A c \in Command : Outcome[c]' = Outcome[c]
          /\ \A q \in Choice : Outcome[q]' = Outcome[q]
      BY <1>9, <1>10 DEF Outcome, Request, Plain
    <3> QED BY <3>1 DEF Finished
  <2>2. \A c \in Command : receipt'[c] = receipt[c]
    BY <1>9, <1>10 DEF Request, Plain
  <2>3. \A c \in Command : Drawn(c)' = {} /\ decided'[c] = << >>
    BY <1>1 DEF Drawn
  <2> QED BY <1>5, <2>1, <2>2, <2>3 DEF IInv, Suspended, Untouched
<1>12. ASSUME NEW c \in Command PROVE ~InThisTimeline(c)'
  <2>1. c \notin Restore /\ c \in Request /\ receipt'[c] = receipt[c]
    BY <1>9, <1>10, NamesAssumption DEF Request, Plain
  <2>2. ASSUME receipt[c] # None PROVE receipt[c].epoch \in Nat /\ receipt[c].epoch <= db.epoch
    <3>1. \A n \in Request : receipt[n] # None => receipt[n].basis \in Nat /\ receipt[n].epoch \in Nat
      BY Parts
    <3>2. Led(c, receipt[c].epoch) <= db.epoch
      BY <2>1, <2>2 DEF IInv, Receipts
    <3> QED BY <2>1, <2>2, <3>1, <3>2 DEF Led
  <2> QED BY <1>3, <1>5, <2>1, <2>2 DEF InThisTimeline
<1>13. DiceOnce'
  <2>1. Len(dice') = 0
    BY <1>1
  <2>2. \A c \in Command : ~Pending(c)'
    BY <1>5 DEF Pending
  <2> QED BY <1>5, <1>12, <2>1, <2>2 DEF DiceOnce
<1>14. UsesTally'
  <2>1. \A c \in Command : /\ AcceptedFor(c, "resist")' = {}
                          /\ AcceptedFor(c, "inspire")' = {}
    BY <1>1 DEF AcceptedFor
  <2>2. \A x \in Saver : TakenFrom(x)' = {}
    BY <2>1 DEF TakenFrom, Settled
  <2>3. Cardinality({}) = 0
    BY FS_EmptySet
  <2>4. \A c \in Settled' : c \in Command
    BY DEF Settled
  <2>5. ASSUME NEW x \in Saver
        PROVE  /\ db'.uses[x] + Cardinality(TakenFrom(x)') = Uses[x]
               /\ (x \in db'.gift <=> x \in Gifted)
    <3>1. Uses[x] \in Nat
      BY ScriptAssumption
    <3>2. Cardinality(TakenFrom(x)') = 0
      BY <2>2, <2>3
    <3>3. db'.uses[x] = Uses[x]
      BY <1>5
    <3> QED BY <1>5, <3>1, <3>2, <3>3
  <2> QED BY <1>5, <2>1, <2>4, <2>5 DEF UsesTally
<1> QED BY <1>8, <1>11, <1>13, <1>14 DEF IInv

(***************************************************************************)
(* What a commit adds to the history.                                      *)
(***************************************************************************)
\* A request that commits goes on from the dice and the decisions of its command.
LEMMA BaseIs ==
  ASSUME IInv, NEW j, j.req \in Request, j.req \notin Restore, receipt[j.req] = None, Here(j)
  PROVE  /\ j.cmd \in Command /\ j.cmd \notin Finished
         /\ j.req \in Choice => j.req.of = j.cmd
         /\ Base(j.req) \in Seq(Nat) /\ Recorded(Base(j.req), db.pos)
         /\ Lists(Base(j.req), Drawn(j.cmd))
         /\ Given(j.req) \in Seq(Decision) /\ decided[j.cmd] \in Seq(Decision)
         /\ \A b \in Command : Pending(b) => b = j.cmd
         /\ j.req \in Choice =>
              /\ Pending(j.cmd) /\ receipt[j.cmd] # None
              /\ j.req.at \in 1 .. Len(Given(j.req))
              /\ Given(j.req) = Append(decided[j.cmd], Given(j.req)[j.req.at])
         /\ j.req \notin Choice =>
              /\ j.req = j.cmd /\ db.pending = None /\ ~Pending(j.cmd)
              /\ decided[j.cmd] = << >> /\ Given(j.req) = << >> /\ Base(j.req) = << >>
              /\ Drawn(j.cmd) = {}
<1> DEFINE k == j.req c == j.cmd
<1>1. k \in Command \/ k \in Choice
  BY DEF Request, Plain
<1>2. CASE k \notin Choice
  <2>1. k \in Command /\ k \in Plain
    BY <1>1, <1>2 DEF Plain
  <2>2. db.pending = None /\ c = k
    BY <1>2, <2>1 DEF Here, For
  <2>3. Drawn(c) = {} /\ decided[c] = << >> /\ c \notin Finished
    BY <2>1, <2>2 DEF IInv, Untouched
  <2>4. Base(k) = << >> /\ Given(k) = << >>
    BY <1>2 DEF Base, Given
  <2>5. \A b \in Command : ~Pending(b)
    BY <2>2 DEF Pending
  <2> HIDE DEF k, c
  <2>6. Lists(Base(k), Drawn(c)) /\ Recorded(Base(k), db.pos)
    BY <2>3, <2>4 DEF Lists, InOrder, Recorded
  <2>7. Base(k) \in Seq(Nat) /\ Given(k) \in Seq(Decision) /\ decided[c] \in Seq(Decision)
    BY <2>3, <2>4
  <2> QED BY <1>2, <2>1, <2>2, <2>3, <2>4, <2>5, <2>6, <2>7 DEF k, c
<1>3. CASE k \in Choice
  <2>1. db.pending # None /\ db.pending.cmd = k.of /\ Len(db.pending.acts) = k.at /\ c = k.of
    BY <1>3 DEF Here, For
  <2> DEFINE a == db.pending.acts g == Answered(k) e == decided[c]
  <2>2. /\ c \in Command /\ receipt[c] # None /\ c \notin Finished
        /\ db.pending.draws \in Seq(Nat) /\ a \in Seq(Decision) /\ Len(a) > 0
        /\ Recorded(db.pending.draws, db.pos)
    BY <2>1, PendingIs
  <2>3. Base(k) = db.pending.draws /\ Given(k) = g
    BY <1>3 DEF Base, Given
  <2>4. Pending(c) /\ \A b \in Command : Pending(b) => b = c
    BY <2>1 DEF Pending
  <2>5. Lists(db.pending.draws, Drawn(c))
    BY <2>2, <2>4 DEF IInv, DiceOnce
  <2>6. Answer(a, g)
    BY <1>3, <2>1, AnsweredIs
  <2>7. a = Append(e, a[Len(a)])
    BY <2>1 DEF IInv, UsesTally
  <2>8. e \in Seq(Decision)
    BY <2>2, Parts DEF TypeOK
  <2>9. Len(a) = k.at
    BY <2>1
  <2>0. c = k.of
    BY <2>1
  <2> HIDE DEF a, e, g, k, c
  <2>10. Len(e) \in Nat /\ Len(a) = Len(e) + 1 /\ \A i \in 1 .. Len(e) : e[i] = a[i]
    <3> DEFINE d == a[Len(a)]
    <3>1. d \in Decision /\ a = Append(e, d)
      BY <2>2, <2>7
    <3> HIDE DEF d
    <3> QED BY <2>8, <3>1
  <2>11. g \in Seq(Decision) /\ Len(g) = Len(a) /\ k.at \in 1 .. Len(g) /\ g[k.at] \in Decision
    <3>1. g \in Seq(Decision) /\ Len(g) = Len(a)
      BY <2>6 DEF Answer
    <3> QED BY <2>9, <2>10, <3>1
  <2>12. g = Append(e, g[k.at])
    <3> DEFINE d == g[k.at] b == Append(e, d)
    <3>1. d \in Decision
      BY <2>11
    <3>2. b \in Seq(Decision) /\ Len(b) = Len(g) /\ b[Len(g)] = d
          /\ \A i \in 1 .. Len(e) : b[i] = e[i]
      <4> HIDE DEF d
      <4> QED BY <2>8, <2>10, <2>11, <3>1
    <3>3. ASSUME NEW i \in 1 .. Len(g) PROVE b[i] = g[i]
      <4>1. CASE i = Len(g)
        BY <2>9, <2>11, <3>2, <4>1
      <4>2. CASE i # Len(g)
        <5>1. i \in 1 .. Len(e) /\ i \in 1 .. Len(a) /\ i < Len(a)
          BY <2>10, <2>11, <4>2
        <5>2. g[i] = a[i]
          BY <2>6, <5>1 DEF Answer
        <5> QED BY <2>10, <3>2, <5>1, <5>2
      <4> QED BY <4>1, <4>2
    <3> HIDE DEF b
    <3>4. b = g
      BY <2>11, <3>2, <3>3, SeqEqual
    <3> QED BY <3>4 DEF b
  <2> QED BY <1>3, <2>0, <2>2, <2>3, <2>4, <2>5, <2>8, <2>11, <2>12 DEF k, c, e
<1> QED BY <1>2, <1>3

\* A set that is listed in order is as large as the list.
LEMMA ListedIs ==
  ASSUME NEW draws \in Seq(Nat), NEW S, Lists(draws, S)
  PROVE  IsFiniteSet(S) /\ Cardinality(S) = Len(draws)
<1> DEFINE n == Len(draws) f == [i \in 1 .. n |-> draws[i]]
<1>1. n \in Nat /\ DOMAIN draws = 1 .. n /\ \A i \in 1 .. n : draws[i] \in Nat
  OBVIOUS
<1>2. S = {draws[i] : i \in 1 .. n} /\ \A i, k \in 1 .. n : i < k => draws[i] < draws[k]
  BY <1>1 DEF Lists, InOrder
<1>3. \A i, k \in 1 .. n : draws[i] = draws[k] => i = k
  BY <1>1, <1>2
<1> HIDE DEF n
<1>4. f \in [1 .. n -> S] /\ IsInjective(f) /\ \A t \in S : \E i \in 1 .. n : f[i] = t
  BY <1>2, <1>3 DEF IsInjective
<1>5. ExistsBijection(1 .. n, S)
  <2> HIDE DEF f
  <2> QED BY <1>4 DEF ExistsBijection, Bijection, Injection, Surjection
<1>6. IsFiniteSet(1 .. n) /\ Cardinality(S) = n
  <2>1. 1 \in Int /\ n \in Int
    BY <1>1
  <2> QED BY <1>1, <1>5, <2>1, FS_Interval, FS_CountingElements
<1> QED BY <1>5, <1>6, FS_Bijection DEF n

\* The dice are drawn for one command and listed with it; the answer is kept.
LEMMA HistoryGrows ==
  ASSUME IInv, NEW j \in JobType, j.req \in Request, j.req \notin Restore,
         receipt[j.req] = None, Here(j),
         Continues(j.drawn, Base(j.req), j.start, j.pos), Len(j.drawn) >= Len(Base(j.req)),
         j.req \in Choice => j.acts[j.req.at] = Given(j.req)[j.req.at],
         dice' = dice \o NewDice(j), decided' = Decided(j)
  PROVE  /\ dice' \in Seq(Command) /\ Len(dice') = j.pos /\ j.pos \in Nat
         /\ decided' \in [Command -> Seq(Decision)] /\ decided'[j.cmd] = Given(j.req)
         /\ Recorded(j.drawn, j.pos) /\ Lists(j.drawn, Drawn(j.cmd)')
         /\ Cardinality(Drawn(j.cmd)') = Len(j.drawn)
         /\ \A b \in Command : b # j.cmd => Drawn(b)' = Drawn(b) /\ decided'[b] = decided[b]
<1> DEFINE k == j.req c == j.cmd n == Len(j.drawn) m == Len(Base(k))
           new == NewDice(j) l == j.pos - j.start
<1>1. /\ c \in Command /\ Base(k) \in Seq(Nat) /\ Recorded(Base(k), db.pos)
      /\ Lists(Base(k), Drawn(c))
  BY BaseIs
<1>2. Len(dice) = db.pos /\ dice \in Seq(Command) /\ db.pos \in Nat /\ j.start = db.pos
  BY Parts DEF IInv, DiceOnce, TypeOK, Here
<1>3. /\ j.drawn \in Seq(Nat) /\ j.pos \in Nat /\ j.start \in Nat /\ n \in Nat /\ m \in Nat
      /\ DOMAIN j.drawn = 1 .. n /\ DOMAIN Base(k) = 1 .. m
  BY <1>1 DEF JobType
<1>4. Recorded(j.drawn, j.pos) /\ j.pos >= j.start
  BY <1>1, <1>2, <1>3, DrawsInOrder
<1>5. /\ n >= m /\ j.pos = j.start + n - m /\ l = n - m /\ l \in Nat
      /\ \A i \in 1 .. n : i <= m => j.drawn[i] = Base(k)[i]
      /\ \A i \in 1 .. n : i > m => j.drawn[i] = j.start + i - m
  <2>1. n >= m /\ j.pos = j.start + n - m
    BY DEF Continues
  <2>2. \A i \in 1 .. n : /\ i <= m => j.drawn[i] = Base(k)[i]
                          /\ i > m => j.drawn[i] = j.start + i - m
    BY DEF Continues
  <2>3. l = j.pos - j.start
    OBVIOUS
  <2> HIDE DEF n, m, l
  <2>4. l = n - m /\ l \in Nat
    BY <1>3, <2>1, <2>3
  <2>5. ASSUME NEW i \in 1 .. n
        PROVE  /\ i <= m => j.drawn[i] = Base(k)[i]
               /\ i > m => j.drawn[i] = j.start + i - m
    BY <2>2
  <2> QED BY <2>1, <2>4, <2>5
<1>6. new \in Seq(Command) /\ Len(new) = l /\ \A i \in 1 .. l : new[i] = c
  <2> HIDE DEF c, l
  <2>1. new = [i \in 1 .. l |-> c]
    BY DEF NewDice, l, c
  <2> HIDE DEF new
  <2> QED BY <1>1, <1>5, <2>1
<1> HIDE DEF new, l, n, m, c, k
<1>7. /\ dice' \in Seq(Command) /\ Len(dice') = db.pos + l
      /\ \A i \in 1 .. db.pos + l : dice'[i] = IF i <= db.pos THEN dice[i] ELSE c
  <2>1. /\ dice \o new \in Seq(Command) /\ Len(dice \o new) = Len(dice) + Len(new)
        /\ \A i \in 1 .. Len(dice) + Len(new) :
             (dice \o new)[i] = IF i <= Len(dice) THEN dice[i] ELSE new[i - Len(dice)]
    <3>1. dice \in Seq(Command) /\ new \in Seq(Command)
      BY <1>2, <1>6
    <3> QED BY <3>1, ConcatProperties
  <2>2. dice' = dice \o new
    BY DEF new
  <2>3. ASSUME NEW i \in 1 .. db.pos + l, ~(i <= db.pos) PROVE i - db.pos \in 1 .. l
    BY <1>2, <1>5, <2>3
  <2> QED BY <1>2, <1>6, <2>1, <2>2, <2>3
<1>8. Len(dice') = j.pos
  BY <1>2, <1>3, <1>5, <1>7
<1>9. DOMAIN dice = 1 .. db.pos /\ DOMAIN dice' = 1 .. db.pos + l
  BY <1>2, <1>7
<1>10. ASSUME NEW b \in Command
       PROVE  Drawn(b)' = Drawn(b) \cup (IF b = c THEN db.pos + 1 .. db.pos + l ELSE {})
  <2>1. 1 .. db.pos + l = (1 .. db.pos) \cup (db.pos + 1 .. db.pos + l)
    BY <1>2, <1>5
  <2>2. Drawn(b)' = {i \in 1 .. db.pos + l : dice'[i] = b}
    BY <1>9 DEF Drawn
  <2>3. Drawn(b) = {i \in 1 .. db.pos : dice[i] = b}
    BY <1>9 DEF Drawn
  <2>4. \A i \in 1 .. db.pos : dice'[i] = dice[i]
    BY <1>2, <1>5, <1>7
  <2>5. \A i \in db.pos + 1 .. db.pos + l : dice'[i] = c
    BY <1>2, <1>5, <1>7
  <2> QED BY <2>1, <2>2, <2>3, <2>4, <2>5
<1>11. {j.drawn[i] : i \in 1 .. n} = Drawn(c) \cup (db.pos + 1 .. db.pos + l)
  <2>1. Drawn(c) = {Base(k)[i] : i \in 1 .. m}
    BY <1>1, <1>3 DEF Lists
  <2>2. ASSUME NEW i \in 1 .. n PROVE j.drawn[i] \in Drawn(c) \cup (db.pos + 1 .. db.pos + l)
    <3>1. CASE i <= m
      <4>1. i \in 1 .. m /\ j.drawn[i] = Base(k)[i]
        BY <1>3, <1>5, <3>1
      <4> QED BY <2>1, <4>1
    <3>2. CASE i > m
      <4>1. j.drawn[i] = db.pos + i - m
        BY <1>2, <1>5, <3>2
      <4>2. db.pos + i - m \in db.pos + 1 .. db.pos + l
        BY <1>2, <1>3, <1>5, <3>2
      <4> QED BY <4>1, <4>2
    <3> QED BY <1>3, <3>1, <3>2
  <2>3. ASSUME NEW x \in Drawn(c) PROVE \E i \in 1 .. n : j.drawn[i] = x
    <3>1. PICK i \in 1 .. m : Base(k)[i] = x
      BY <2>1, <2>3
    <3>2. i \in 1 .. n /\ i <= m
      BY <1>3, <1>5
    <3> QED BY <1>5, <3>1, <3>2
  <2>4. ASSUME NEW x \in db.pos + 1 .. db.pos + l PROVE \E i \in 1 .. n : j.drawn[i] = x
    <3> DEFINE i == x - db.pos + m
    <3>1. i \in 1 .. n /\ i > m /\ db.pos + i - m = x
      <4>1. db.pos \in Nat /\ m \in Nat /\ n \in Nat /\ l = n - m /\ l \in Nat
        BY <1>2, <1>3, <1>5
      <4> QED BY <4>1
    <3>2. j.drawn[i] = db.pos + i - m
      BY <1>2, <1>5, <3>1
    <3> QED BY <3>1, <3>2
  <2> QED BY <2>2, <2>3, <2>4
<1>12. Lists(j.drawn, Drawn(c)')
  <2>1. {j.drawn[i] : i \in DOMAIN j.drawn} = Drawn(c)'
    BY <1>1, <1>3, <1>10, <1>11
  <2> QED BY <1>4, <2>1 DEF Lists, Recorded
<1>13. Cardinality(Drawn(c)') = n
  BY <1>3, <1>12, ListedIs DEF n
<1>14. /\ decided' \in [Command -> Seq(Decision)] /\ decided'[c] = Given(k)
       /\ \A b \in Command : b # c => decided'[b] = decided[b]
  <2>1. decided \in [Command -> Seq(Decision)]
    BY Parts DEF TypeOK
  <2>2. CASE k \in Choice
    <3>1. Given(k) \in Seq(Decision) /\ Given(k) = Append(decided[c], j.acts[k.at])
      BY <2>2, BaseIs DEF k, c
    <3>2. decided' = [decided EXCEPT ![c] = Given(k)]
      BY <2>2, <3>1 DEF Decided, k, c
    <3> QED BY <1>1, <2>1, <3>1, <3>2
  <2>3. CASE k \notin Choice
    <3>1. decided' = decided /\ decided[c] = << >> /\ Given(k) = << >>
      BY <2>3, BaseIs DEF Decided, k, c
    <3> QED BY <2>1, <3>1
  <2> QED BY <2>2, <2>3
<1>15. \A b \in Command : b # c => Drawn(b)' = Drawn(b)
  BY <1>10
<1> QED BY <1>3, <1>4, <1>7, <1>8, <1>12, <1>13, <1>14, <1>15 DEF c, k, n

\* A commit adds one outcome.
LEMMA OutcomeAdded ==
  ASSUME IInv, NEW k \in Request, asked[k] # None, receipt[k] = None,
         NEW out \in {"offer", "done"}, Receipted(k, out)
  PROVE  Outcome[k] = "none" /\ Outcome' = [Outcome EXCEPT ![k] = out]
<1>1. /\ receipt'[k] # None /\ receipt'[k].out = out
      /\ \A m \in Request : m # k => receipt'[m] = receipt[m]
  BY ReceiptedIs
<1> QED BY <1>1 DEF Outcome

\* A command that commits has taken effect; one that stops at a decision has not.
LEMMA FinishedGrows ==
  ASSUME IInv, NEW j, j.req \in Request, j.req \notin Restore, asked[j.req] # None,
         receipt[j.req] = None, Here(j),
         NEW out \in {"offer", "done"}, Receipted(j.req, out)
  PROVE  Finished' = IF out = "done" THEN Finished \cup {j.cmd} ELSE Finished
<1> DEFINE k == j.req c == j.cmd
<1>1. /\ c \in Command
      /\ k \in Choice => k.of = c
      /\ k \notin Choice => k = c
  BY BaseIs
<1>2. Outcome[k] = "none" /\ Outcome' = [Outcome EXCEPT ![k] = out]
  BY OutcomeAdded
<1>3. /\ \A b \in Command : b \in Request /\ b \notin Choice
      /\ Choice \subseteq Request /\ DOMAIN Outcome = Request
  BY NamesAssumption DEF Request, Plain, Outcome
<1>4. \A m \in Request : Outcome'[m] = IF m = k THEN out ELSE Outcome[m]
  BY <1>2, <1>3
<1> HIDE DEF k, c
<1>5. ASSUME NEW b \in Command
      PROVE  b \in Finished' <=> b \in Finished \/ (out = "done" /\ b = c)
  <2>1. Outcome'[b] = "done" <=> Outcome[b] = "done" \/ (out = "done" /\ b = k)
    BY <1>2, <1>3, <1>4
  <2>2. \A q \in Choice : Outcome'[q] = "done" <=> Outcome[q] = "done" \/ (out = "done" /\ q = k)
    BY <1>2, <1>3, <1>4
  <2>3. (\E q \in Choice : q.of = b /\ Outcome'[q] = "done") <=>
          \/ \E q \in Choice : q.of = b /\ Outcome[q] = "done"
          \/ out = "done" /\ k \in Choice /\ k.of = b
    BY <2>2
  <2> QED BY <1>1, <1>3, <2>1, <2>3 DEF Finished
<1>6. Finished' \subseteq Command /\ Finished \subseteq Command
  BY DEF Finished
<1> QED BY <1>1, <1>5, <1>6 DEF c

\* What a commit leaves as it was: the dice and decisions of other commands.
LEMMA OthersStay ==
  ASSUME IInv, NEW j, j.req \in Request, j.req \notin Restore, asked[j.req] # None,
         receipt[j.req] = None, Here(j),
         NEW out \in {"offer", "done"}, Receipted(j.req, out), db'.epoch = db.epoch,
         \A b \in Command : b # j.cmd => Drawn(b)' = Drawn(b) /\ decided'[b] = decided[b]
  PROVE  /\ receipt'[j.cmd] # None /\ Untouched'
         /\ out = "offer" => j.cmd \notin Finished'
         /\ \A b \in Command : b # j.cmd =>
              /\ ~Pending(b) /\ Drawn(b)' = Drawn(b) /\ decided'[b] = decided[b]
              /\ AcceptedFor(b, "inspire")' = AcceptedFor(b, "inspire")
              /\ AcceptedFor(b, "resist")' = AcceptedFor(b, "resist")
              /\ InThisTimeline(b)' => InThisTimeline(b)
<1> DEFINE k == j.req c == j.cmd
<1>1. /\ c \in Command /\ \A b \in Command : Pending(b) => b = c
      /\ k \in Choice => receipt[c] # None
      /\ k \notin Choice => k = c
      /\ c \notin Finished
  BY BaseIs
<1>0. Finished' = IF out = "done" THEN Finished \cup {c} ELSE Finished
  BY FinishedGrows
<1>2. receipt'[k] # None /\ \A m \in Request : m # k => receipt'[m] = receipt[m]
  BY ReceiptedIs
<1>3. c \in Request /\ \A b \in Command : b \in Request /\ b \notin Choice
  BY <1>1, NamesAssumption DEF Request, Plain
<1>4. receipt'[c] # None
  BY <1>1, <1>2, <1>3
<1>5. \A b \in Command : b # c => b # k
  BY <1>1, <1>3
<1>6. Untouched'
  <2>1. ASSUME NEW b \in Command, receipt'[b] = None
        PROVE  Drawn(b)' = {} /\ decided'[b] = << >> /\ b \notin Finished'
    <3>1. b # c /\ receipt[b] = None
      BY <1>2, <1>3, <1>4, <1>5, <2>1
    <3>2. Drawn(b) = {} /\ decided[b] = << >> /\ b \notin Finished
      BY <3>1 DEF IInv, Untouched
    <3>3. Drawn(b)' = Drawn(b) /\ decided'[b] = decided[b]
      BY <3>1
    <3> QED BY <1>0, <3>1, <3>2, <3>3
  <2> QED BY <2>1 DEF Untouched
<1>7. ASSUME NEW b \in Command, b # c
      PROVE  /\ ~Pending(b) /\ Drawn(b)' = Drawn(b) /\ decided'[b] = decided[b]
             /\ AcceptedFor(b, "inspire")' = AcceptedFor(b, "inspire")
             /\ AcceptedFor(b, "resist")' = AcceptedFor(b, "resist")
             /\ InThisTimeline(b)' => InThisTimeline(b)
  <2>1. receipt'[b] = receipt[b]
    BY <1>2, <1>3, <1>5, <1>7
  <2>2. decided'[b] = decided[b]
    BY <1>7
  <2>3. /\ AcceptedFor(b, "inspire")' = AcceptedFor(b, "inspire")
        /\ AcceptedFor(b, "resist")' = AcceptedFor(b, "resist")
    BY <2>2 DEF AcceptedFor
  <2>4. InThisTimeline(b)' => InThisTimeline(b)
    BY <2>1 DEF InThisTimeline
  <2> QED BY <1>1, <1>7, <2>2, <2>3, <2>4
<1> QED BY <1>0, <1>1, <1>4, <1>6, <1>7

(***************************************************************************)
(* Uses of Legendary Resistance.                                           *)
(***************************************************************************)
Pairs(c, S) == {<<c, i>> : i \in S}

\* The decisions of a command for which a use of this creature was taken.
UsesOf(c, x) == {n \in AcceptedFor(c, "resist") : decided[c][n].saver = x}

OthersTook(c, x) == UNION {Pairs(b, UsesOf(b, x)) : b \in Command \ {c}}

LEMMA PairsAre ==
  ASSUME NEW c, NEW S, IsFiniteSet(S)
  PROVE  IsFiniteSet(Pairs(c, S)) /\ Cardinality(Pairs(c, S)) = Cardinality(S)
<1> DEFINE f == [i \in S |-> <<c, i>>]
<1>1. f \in [S -> Pairs(c, S)] /\ IsInjective(f) /\ \A t \in Pairs(c, S) : \E i \in S : f[i] = t
  BY DEF Pairs, IsInjective
<1> HIDE DEF f
<1>2. ExistsBijection(S, Pairs(c, S))
  BY <1>1 DEF ExistsBijection, Bijection, Injection, Surjection
<1> QED BY <1>2, FS_Bijection

LEMMA OthersTookIs ==
  ASSUME decided \in [Command -> Seq(Decision)], NEW c \in Command, NEW x
  PROVE  IsFiniteSet(OthersTook(c, x)) /\ \A i : <<c, i>> \notin OthersTook(c, x)
<1> DEFINE B == Command \ {c}
           f == [b \in B |-> Pairs(b, UsesOf(b, x))]
           T == {Pairs(b, UsesOf(b, x)) : b \in B}
<1>1. IsFiniteSet(B)
  BY ScriptAssumption, FS_Subset
<1>2. ASSUME NEW b \in B PROVE IsFiniteSet(Pairs(b, UsesOf(b, x)))
  <2>1. decided[b] \in Seq(Decision)
    OBVIOUS
  <2>2. DOMAIN decided[b] = 1 .. Len(decided[b]) /\ 1 \in Int /\ Len(decided[b]) \in Int
    BY <2>1
  <2>3. IsFiniteSet(DOMAIN decided[b])
    BY <2>2, FS_Interval
  <2>4. UsesOf(b, x) \subseteq DOMAIN decided[b]
    BY DEF UsesOf, AcceptedFor
  <2> QED BY <2>3, <2>4, FS_Subset, PairsAre
<1>3. f \in Surjection(B, T)
  BY DEF Surjection
<1>4. IsFiniteSet(T)
  <2> HIDE DEF f, T, B
  <2> QED BY <1>1, <1>3, FS_Surjection
<1>5. IsFiniteSet(UNION T)
  <2>1. \A t \in T : IsFiniteSet(t)
    BY <1>2
  <2> HIDE DEF T
  <2> QED BY <1>4, <2>1, FS_UNION
<1>6. OthersTook(c, x) = UNION T
  BY DEF OthersTook
<1>7. \A i : <<c, i>> \notin OthersTook(c, x)
  BY DEF OthersTook, Pairs
<1> HIDE DEF T
<1> QED BY <1>5, <1>6, <1>7

\* Before a request commits its command has spent nothing.
LEMMA SpentByOthers ==
  ASSUME UsesTally, NEW c \in Command, \A b \in Command : Pending(b) => b = c,
         Pending(c) \/ decided[c] = << >>
  PROVE  \A x \in Saver :
           /\ db.uses[x] + Cardinality(OthersTook(c, x)) = Uses[x]
           /\ x \in db.gift <=>
                x \in Gifted /\ \A b \in Command \ {c} : \A i \in AcceptedFor(b, "inspire") :
                                  decided[b][i].saver # x
<1>1. Command \ {c} \subseteq Settled /\ Settled \subseteq Command /\ (Pending(c) => c \notin Settled)
  BY DEF Settled
<1>2. c \in Settled => AcceptedFor(c, "inspire") = {} /\ \A x : UsesOf(c, x) = {}
  <2>1. c \in Settled => decided[c] = << >>
    BY <1>1
  <2> QED BY <2>1 DEF AcceptedFor, UsesOf
<1>3. ASSUME NEW x \in Saver PROVE TakenFrom(x) = OthersTook(c, x)
  <2>1. TakenFrom(x) = UNION {Pairs(b, UsesOf(b, x)) : b \in Settled}
    BY DEF TakenFrom, Pairs, UsesOf
  <2>2. c \in Settled => Pairs(c, UsesOf(c, x)) = {}
    BY <1>2 DEF Pairs
  <2>3. \A b \in Settled : b \in Command \ {c} \/ b = c
    BY <1>1
  <2> QED BY <1>1, <2>1, <2>2, <2>3 DEF OthersTook
<1>4. ASSUME NEW x \in Saver
      PROVE  (\A b \in Settled : \A i \in AcceptedFor(b, "inspire") : decided[b][i].saver # x)
             <=> (\A b \in Command \ {c} : \A i \in AcceptedFor(b, "inspire") : decided[b][i].saver # x)
  <2>1. \A b \in Settled : b \in Command \ {c} \/ b = c
    BY <1>1
  <2> QED BY <1>1, <1>2, <2>1
<1> QED BY <1>3, <1>4 DEF UsesTally

\* When a command has come through, what it took is counted with what the others took.
LEMMA FinishTally ==
  ASSUME IInv, NEW j \in JobType, j.req \in Request, j.req \notin Restore,
         receipt[j.req] = None, Here(j), Running(j), j.idx = Len(j.acts),
         decided' \in [Command -> Seq(Decision)], decided'[j.cmd] = j.acts,
         \A b \in Command : b # j.cmd => decided'[b] = decided[b],
         db'.pending = None, db'.uses = Spent(j), db'.gift = db.gift \ j.used
  PROVE  UsesTally'
<1> DEFINE c == j.cmd n == Len(j.acts)
<1>1. /\ c \in Command /\ \A b \in Command : Pending(b) => b = c
      /\ Pending(c) \/ decided[c] = << >>
  BY BaseIs
<1>2. j.acts \in Seq(Decision) /\ n \in Nat
  BY DEF JobType
<1>3. /\ \A x \in Saver : j.spent[x] = Cardinality(YesOf(j.acts, n, "resist", x))
      /\ j.used = {j.acts[i].saver : i \in Yes(j.acts, n, "inspire")}
  BY DEF Running
<1> HIDE DEF c, n
<1>4. \A x \in Saver :
        /\ db.uses[x] + Cardinality(OthersTook(c, x)) = Uses[x]
        /\ x \in db.gift <=>
             x \in Gifted /\ \A b \in Command \ {c} : \A i \in AcceptedFor(b, "inspire") :
                               decided[b][i].saver # x
  BY <1>1, SpentByOthers DEF IInv
<1>5. Settled' = Command
  BY DEF Settled, Pending
<1>6. /\ AcceptedFor(c, "inspire")' = Yes(j.acts, n, "inspire")
      /\ \A x : UsesOf(c, x)' = YesOf(j.acts, n, "resist", x)
  <2>1. DOMAIN j.acts = 1 .. n /\ decided'[c] = j.acts
    BY <1>2 DEF n, c
  <2>2. \A kind : AcceptedFor(c, kind)' = Yes(j.acts, n, kind)
    BY <2>1 DEF AcceptedFor, Yes
  <2> QED BY <2>1, <2>2 DEF UsesOf, YesOf
<1>7. ASSUME NEW b \in Command, b # c
      PROVE  /\ AcceptedFor(b, "inspire")' = AcceptedFor(b, "inspire")
             /\ decided'[b] = decided[b]
             /\ \A x : UsesOf(b, x)' = UsesOf(b, x)
  <2>1. decided'[b] = decided[b]
    BY <1>7 DEF c
  <2> QED BY <2>1 DEF AcceptedFor, UsesOf
<1>8. ASSUME NEW x \in Saver
      PROVE  db'.uses[x] + Cardinality(TakenFrom(x)') = Uses[x]
  <2> DEFINE O == OthersTook(c, x) Y == YesOf(j.acts, n, "resist", x)
  <2>1. TakenFrom(x)' = O \cup Pairs(c, Y)
    <3>1. TakenFrom(x)' = UNION {Pairs(b, UsesOf(b, x)') : b \in Command}
      BY <1>5 DEF TakenFrom, Pairs, UsesOf
    <3>2. UsesOf(c, x)' = Y
      BY <1>6
    <3>3. \A b \in Command \ {c} : UsesOf(b, x)' = UsesOf(b, x)
      BY <1>7
    <3>4. {Pairs(b, UsesOf(b, x)') : b \in Command \ {c}} = {Pairs(b, UsesOf(b, x)) : b \in Command \ {c}}
      BY <3>3
    <3>5. {Pairs(b, UsesOf(b, x)') : b \in Command}
            = {Pairs(b, UsesOf(b, x)) : b \in Command \ {c}} \cup {Pairs(c, Y)}
      <4>1. Command = (Command \ {c}) \cup {c}
        BY <1>1
      <4> HIDE DEF Y
      <4> QED BY <3>2, <3>4, <4>1
    <3> QED BY <3>1, <3>5 DEF OthersTook
  <2>2. IsFiniteSet(O) /\ \A i : <<c, i>> \notin O
    <3>1. decided \in [Command -> Seq(Decision)]
      BY Parts DEF TypeOK
    <3> QED BY <1>1, <3>1, OthersTookIs
  <2>3. IsFiniteSet(Y) /\ Cardinality(Y) = j.spent[x]
    BY <1>2, <1>3, YesIs
  <2> HIDE DEF O, Y
  <2>4. IsFiniteSet(Pairs(c, Y)) /\ Cardinality(Pairs(c, Y)) = j.spent[x]
    BY <2>3, PairsAre
  <2>5. O \cap Pairs(c, Y) = {}
    BY <2>2 DEF Pairs
  <2>6. Cardinality(O \cup Pairs(c, Y)) = Cardinality(O) + Cardinality(Pairs(c, Y)) - Cardinality({})
    BY <2>2, <2>4, <2>5, FS_Union
  <2>7. Cardinality({}) = 0
    BY FS_EmptySet
  <2>8. /\ Cardinality(O) \in Nat /\ j.spent[x] \in Nat /\ db.uses[x] \in Nat
        /\ db'.uses[x] = db.uses[x] - j.spent[x]
        /\ db.uses[x] + Cardinality(O) = Uses[x]
    <3>1. Cardinality(O) \in Nat
      BY <2>2, FS_CardinalityType
    <3>2. j.spent[x] \in Nat
      BY DEF JobType
    <3>3. db.uses[x] \in Nat
      BY Parts DEF TypeOK
    <3>4. db'.uses[x] = db.uses[x] - j.spent[x]
      BY DEF Spent
    <3>5. db.uses[x] + Cardinality(O) = Uses[x]
      BY <1>4 DEF O
    <3> QED BY <3>1, <3>2, <3>3, <3>4, <3>5
  <2>9. Cardinality(TakenFrom(x)') = Cardinality(O) + j.spent[x]
    BY <2>1, <2>4, <2>6, <2>7, <2>8
  <2> QED BY <2>8, <2>9
<1>9. ASSUME NEW x \in Saver
      PROVE  x \in db'.gift <=>
               x \in Gifted /\ \A b \in Command : \A i \in AcceptedFor(b, "inspire")' :
                                 decided'[b][i].saver # x
  <2>1. x \in db'.gift <=> x \in db.gift /\ x \notin j.used
    OBVIOUS
  <2>2. x \notin j.used <=> \A i \in AcceptedFor(c, "inspire")' : decided'[c][i].saver # x
    BY <1>3, <1>6 DEF c
  <2>3. (\A b \in Command \ {c} : \A i \in AcceptedFor(b, "inspire") : decided[b][i].saver # x)
        <=> (\A b \in Command \ {c} : \A i \in AcceptedFor(b, "inspire")' : decided'[b][i].saver # x)
    BY <1>7
  <2> QED BY <1>1, <1>4, <2>1, <2>2, <2>3
<1> QED BY <1>5, <1>8, <1>9 DEF UsesTally

LEMMA FinishStep ==
  ASSUME IInv, NEW p \in Proc, Finish(p), UNCHANGED kept
  PROVE  IInv'
<1>0. PICK j \in JobType : j = job[p]
  BY Parts
<1> DEFINE k == j.req c == j.cmd n == Len(j.acts)
<1>1. j.pc = "roll" /\ j.step > Len(Script[c]) /\ lock' = None /\ UNCHANGED <<Client, kept>>
  BY <1>0 DEF Finish
<1>2. j.pc \in Inside /\ j.pc \in Working /\ j.pc # "offer" /\ j.pc # "idle"
  BY <1>1 DEF Inside, Working
<1>3. /\ lock = p /\ j \in JobType
      /\ k \in Request /\ asked[k] # None /\ receipt[k] = None /\ k \notin Restore
      /\ j.rev = db.rev /\ Here(j) /\ Running(j)
  BY <1>0, <1>2, InsideIs
<1>4. CASE /\ Len(j.drawn) >= Len(j.prefix) /\ j.idx = n
           /\ \A s \in Saver : j.spent[s] <= db.uses[s]
  <2>1. /\ db' = [db EXCEPT !.rev = @ + 1, !.arev = @ + 1, !.pos = j.pos,
                            !.uses = Spent(j), !.gift = @ \ j.used, !.pending = None]
        /\ Receipted(k, "done") /\ dice' = dice \o NewDice(j) /\ decided' = Decided(j)
        /\ Ended(p, "done")
    BY <1>0, <1>4 DEF Finish
  <2>2. /\ TypeOK /\ db.rev \in Nat /\ db.arev \in Nat /\ db.epoch \in Nat /\ db.pos \in Nat
    BY Parts
  <2>3. /\ db.uses \in [Saver -> Nat] /\ db.gift \in SUBSET Saver
        /\ db \in [rev : Nat, arev : Nat, epoch : Nat, pos : Nat,
                   uses : [Saver -> Nat], gift : SUBSET Saver,
                   pending : Continuation \cup {None}]
    BY <2>2 DEF TypeOK
  <2>4. j.pos \in Nat /\ j.spent \in [Saver -> Nat] /\ j.used \in SUBSET Saver /\ j.acts \in Seq(Decision)
    BY <1>3 DEF JobType
  <2> HIDE DEF k, c, n
  <2>5. Spent(j) \in [Saver -> Nat] /\ db.gift \ j.used \in SUBSET Saver
    BY <1>4, <2>3, <2>4 DEF Spent
  <2>6. /\ db' \in [rev : Nat, arev : Nat, epoch : Nat, pos : Nat,
                    uses : [Saver -> Nat], gift : SUBSET Saver,
                    pending : Continuation \cup {None}]
        /\ db'.rev = db.rev + 1 /\ db'.arev = db.arev + 1 /\ db'.epoch = db.epoch
        /\ db'.pos = j.pos /\ db'.uses = Spent(j) /\ db'.gift = db.gift \ j.used
        /\ db'.pending = None
    <3> DEFINE r == db.rev + 1 a == db.arev + 1 u == Spent(j) g == db.gift \ j.used
    <3>1. r \in Nat /\ a \in Nat /\ u \in [Saver -> Nat] /\ g \in SUBSET Saver
      BY <2>2, <2>5
    <3>2. db' = [db EXCEPT !.rev = r, !.arev = a, !.pos = j.pos,
                           !.uses = u, !.gift = g, !.pending = None]
      BY <2>1
    <3> HIDE DEF r, a, u, g
    <3>3. db' \in [rev : Nat, arev : Nat, epoch : Nat, pos : Nat,
                   uses : [Saver -> Nat], gift : SUBSET Saver,
                   pending : Continuation \cup {None}]
      BY <2>3, <2>4, <3>1, <3>2
    <3>4. /\ db'.rev = r /\ db'.arev = a /\ db'.epoch = db.epoch
          /\ db'.pos = j.pos /\ db'.uses = u /\ db'.gift = g /\ db'.pending = None
      BY <2>3, <3>2
    <3> QED BY <3>3, <3>4 DEF r, a, u, g
  <2>7. /\ j.prefix = Base(k) /\ j.acts = Given(k)
        /\ asked[k].epoch = db.epoch
    BY <1>2, <1>3 DEF Here, k
  <2>8. /\ Continues(j.drawn, Base(k), j.start, j.pos) /\ Len(j.drawn) >= Len(Base(k))
        /\ k \in Choice => j.acts[k.at] = Given(k)[k.at]
    BY <1>3, <1>4, <2>7 DEF Running
  <2>9. /\ dice' \in Seq(Command) /\ Len(dice') = j.pos
        /\ decided' \in [Command -> Seq(Decision)] /\ decided'[c] = j.acts
        /\ Cardinality(Drawn(c)') = Len(j.drawn)
        /\ \A b \in Command : b # c => Drawn(b)' = Drawn(b) /\ decided'[b] = decided[b]
    BY <1>3, <2>1, <2>7, <2>8, HistoryGrows DEF k, c
  <2>10. db'.epoch = Led(k, db.epoch)
    BY <1>3, <2>2, <2>6 DEF Led
  <2>11. LocalTypeOK' /\ Addressed' /\ Read' /\ Receipts' /\ \A q \in Proc : Grounded(job[q])'
    BY <1>0, <1>1, <1>2, <1>3, <2>1, <2>6, <2>7, <2>9, <2>10, CommitStep DEF k
  <2>12. /\ Untouched'
         /\ \A b \in Command : b # c =>
              /\ ~Pending(b) /\ Drawn(b)' = Drawn(b)
              /\ AcceptedFor(b, "inspire")' = AcceptedFor(b, "inspire")
              /\ InThisTimeline(b)' => InThisTimeline(b)
    BY <1>3, <2>1, <2>6, <2>9, OthersStay DEF k, c
  <2>13. Suspended'
    BY <2>6 DEF Suspended
  <2>14. Cardinality(Drawn(c)') = Len(Script[c]) + Cardinality(AcceptedFor(c, "inspire")')
    <3>1. /\ j.step <= Len(Script[c]) + 1
          /\ Len(j.drawn) = j.step - 1 + Cardinality(Yes(j.acts, n, "inspire"))
      BY <1>1, <1>3, <1>4 DEF Running, Rolled, c
    <3>2. Len(Script[c]) \in Nat /\ j.step \in Nat /\ n \in Nat
      BY <1>3, RunningIs DEF c, n
    <3>3. DOMAIN j.acts = 1 .. n
      BY <2>4 DEF n
    <3>4. AcceptedFor(c, "inspire")' = Yes(j.acts, n, "inspire")
      BY <2>9, <3>3 DEF AcceptedFor, Yes
    <3>5. Cardinality(Yes(j.acts, n, "inspire")) \in Nat
      BY <3>2, YesIs
    <3> QED BY <1>1, <2>9, <3>1, <3>2, <3>4, <3>5
  <2>15. DiceOnce'
    <3>1. Len(dice') = db'.pos
      BY <2>6, <2>9
    <3>2. ASSUME NEW b \in Command
          PROVE  /\ ~Pending(b)'
                 /\ InThisTimeline(b)' =>
                      Cardinality(Drawn(b)') = Len(Script[b]) + Cardinality(AcceptedFor(b, "inspire")')
      <4>1. ~Pending(b)'
        BY <2>6 DEF Pending
      <4>2. CASE b = c
        BY <2>14, <4>1, <4>2
      <4>3. CASE b # c
        <5>1. ~Pending(b) /\ InThisTimeline(b) =>
                 Cardinality(Drawn(b)) = Len(Script[b]) + Cardinality(AcceptedFor(b, "inspire"))
          BY DEF IInv, DiceOnce
        <5>2. /\ ~Pending(b) /\ Drawn(b)' = Drawn(b)
              /\ AcceptedFor(b, "inspire")' = AcceptedFor(b, "inspire")
              /\ InThisTimeline(b)' => InThisTimeline(b)
          BY <2>12, <4>3
        <5> QED BY <4>1, <5>1, <5>2
      <4> QED BY <4>2, <4>3
    <3> QED BY <3>1, <3>2 DEF DiceOnce
  <2>16. UsesTally'
    BY <1>3, <1>4, <2>6, <2>9, FinishTally DEF k, c, n
  <2> QED BY <2>11, <2>12, <2>13, <2>15, <2>16 DEF IInv
<1>5. CASE ~(/\ Len(j.drawn) >= Len(j.prefix) /\ j.idx = n
             /\ \A s \in Saver : j.spent[s] <= db.uses[s])
  <2>1. Ended(p, "error") /\ UNCHANGED <<db, receipt, History>>
    BY <1>0, <1>5 DEF Finish
  <2> QED BY <1>0, <1>1, <1>2, <1>3, <2>1, EndedStep
<1> QED BY <1>4, <1>5

\* What an attempt that stopped at a decision holds.
LEMMA OfferIs ==
  ASSUME IInv, NEW p \in Proc, job[p].pc = "offer"
  PROVE  /\ job[p].req \in Request /\ asked[job[p].req] # None
         /\ receipt[job[p].req] = None /\ job[p].req \notin Restore
         /\ job[p].rev = db.rev => Here(job[p]) /\ Offering(job[p])
<1>1. Grounded(job[p]) /\ Addressed
  BY DEF IInv
<1>2. job[p].req \in Request /\ asked[job[p].req] # None
  BY <1>1 DEF Addressed
<1> QED BY <1>1, <1>2 DEF Grounded, Working

\* A suspended command has spent nothing yet.
LEMMA OfferTally ==
  ASSUME IInv, NEW j \in JobType, j.req \in Request, j.req \notin Restore,
         receipt[j.req] = None, Here(j), Offering(j),
         decided'[j.cmd] = Given(j.req),
         \A b \in Command : b # j.cmd => decided'[b] = decided[b],
         db'.pending # None, db'.pending.cmd = j.cmd, db'.pending.acts = j.acts,
         db'.uses = db.uses, db'.gift = db.gift
  PROVE  UsesTally'
<1> DEFINE c == j.cmd
<1>1. /\ c \in Command /\ \A b \in Command : Pending(b) => b = c
      /\ Pending(c) \/ decided[c] = << >>
  BY BaseIs
<1> HIDE DEF c
<1>2. \A x \in Saver :
        /\ db.uses[x] + Cardinality(OthersTook(c, x)) = Uses[x]
        /\ x \in db.gift <=>
             x \in Gifted /\ \A b \in Command \ {c} : \A i \in AcceptedFor(b, "inspire") :
                               decided[b][i].saver # x
  BY <1>1, SpentByOthers DEF IInv
<1>3. Settled' = Command \ {c}
  BY DEF Settled, Pending, c
<1>4. ASSUME NEW b \in Command \ {c}
      PROVE  /\ AcceptedFor(b, "inspire")' = AcceptedFor(b, "inspire")
             /\ decided'[b] = decided[b]
             /\ \A x : UsesOf(b, x)' = UsesOf(b, x)
  <2>1. decided'[b] = decided[b]
    BY DEF c
  <2> QED BY <2>1 DEF AcceptedFor, UsesOf
<1>5. ASSUME NEW x \in Saver PROVE TakenFrom(x)' = OthersTook(c, x)
  <2>1. TakenFrom(x)' = UNION {Pairs(b, UsesOf(b, x)') : b \in Command \ {c}}
    BY <1>3 DEF TakenFrom, Pairs, UsesOf
  <2>2. {Pairs(b, UsesOf(b, x)') : b \in Command \ {c}} = {Pairs(b, UsesOf(b, x)) : b \in Command \ {c}}
    BY <1>4
  <2> QED BY <2>1, <2>2 DEF OthersTook
<1>6. ASSUME NEW x \in Saver
      PROVE  /\ db'.uses[x] + Cardinality(TakenFrom(x)') = Uses[x]
             /\ x \in db'.gift <=>
                  x \in Gifted /\ \A b \in Settled' : \A i \in AcceptedFor(b, "inspire")' :
                                    decided'[b][i].saver # x
  BY <1>2, <1>3, <1>4, <1>5
<1>7. db'.pending.acts = Append(decided'[db'.pending.cmd], db'.pending.acts[Len(db'.pending.acts)])
  BY DEF Offering
<1> QED BY <1>6, <1>7 DEF UsesTally

LEMMA OfferStep ==
  ASSUME IInv, NEW p \in Proc, Offer(p), UNCHANGED kept
  PROVE  IInv'
<1>0. PICK j \in JobType : j = job[p]
  BY Parts
<1> DEFINE k == j.req c == j.cmd n == Len(j.acts)
<1>1. j.pc = "offer" /\ lock = None /\ lock' = None /\ UNCHANGED <<Client, kept>>
  BY <1>0 DEF Offer
<1>2. j.pc \in Working /\ j.pc # "idle" /\ p # None
  BY <1>1, NoneIsNo DEF Working
<1>3. /\ k \in Request /\ asked[k] # None /\ receipt[k] = None /\ k \notin Restore
      /\ j.rev = db.rev => Here(j) /\ Offering(j)
  BY <1>0, <1>1, OfferIs
<1>4. CASE Unchanged(j)
  <2>1. /\ db' = Offered(j) /\ Receipted(k, "offer")
        /\ dice' = dice \o NewDice(j) /\ decided' = Decided(j)
        /\ Ended(p, "offer")
    BY <1>0, <1>4 DEF Offer
  <2>2. /\ TypeOK /\ db.rev \in Nat /\ db.arev \in Nat /\ db.epoch \in Nat
    BY Parts
  <2>3. db \in [rev : Nat, arev : Nat, epoch : Nat, pos : Nat,
                uses : [Saver -> Nat], gift : SUBSET Saver,
                pending : Continuation \cup {None}]
    BY <2>2 DEF TypeOK
  <2>4. /\ j.pos \in Nat /\ j.drawn \in Seq(Nat) /\ j.acts \in Seq(Decision)
        /\ j.rev \in Nat /\ j.arev \in Nat
    BY DEF JobType
  <2>5. j.rev = db.rev /\ Here(j) /\ Offering(j)
    BY <1>3, <1>4 DEF Unchanged
  <2>6. /\ c \in Command /\ Given(k) \in Seq(Decision)
        /\ k \in Choice => k.at \in 1 .. Len(Given(k))
    BY <1>3, <2>5, BaseIs
  <2> HIDE DEF k, c, n
  <2> DEFINE held == [cmd |-> c, draws |-> j.drawn, acts |-> j.acts,
                      rev |-> j.rev + 1, arev |-> j.arev + 1, pos |-> j.pos]
  <2>7. /\ held \in Continuation /\ held # None
        /\ held.cmd = c /\ held.draws = j.drawn /\ held.acts = j.acts /\ held.pos = j.pos
    <3>1. held \in Continuation
      BY <2>4, <2>6 DEF Continuation
    <3> QED BY <3>1, NamesAssumption
  <2>8. db' = [db EXCEPT !.rev = @ + 1, !.arev = @ + 1, !.pos = j.pos, !.pending = held]
    BY <2>1 DEF Offered, c
  <2> HIDE DEF held
  <2>9. /\ db' \in [rev : Nat, arev : Nat, epoch : Nat, pos : Nat,
                    uses : [Saver -> Nat], gift : SUBSET Saver,
                    pending : Continuation \cup {None}]
        /\ db'.rev = db.rev + 1 /\ db'.arev = db.arev + 1 /\ db'.epoch = db.epoch
        /\ db'.pos = j.pos /\ db'.uses = db.uses /\ db'.gift = db.gift
        /\ db'.pending = held
    <3> DEFINE r == db.rev + 1 a == db.arev + 1
    <3>1. r \in Nat /\ a \in Nat
      BY <2>2
    <3>2. db' = [db EXCEPT !.rev = r, !.arev = a, !.pos = j.pos, !.pending = held]
      BY <2>8
    <3> HIDE DEF r, a
    <3>3. db' \in [rev : Nat, arev : Nat, epoch : Nat, pos : Nat,
                   uses : [Saver -> Nat], gift : SUBSET Saver,
                   pending : Continuation \cup {None}]
      BY <2>3, <2>4, <2>7, <3>1, <3>2
    <3>4. /\ db'.rev = r /\ db'.arev = a /\ db'.epoch = db.epoch
          /\ db'.pos = j.pos /\ db'.uses = db.uses /\ db'.gift = db.gift
          /\ db'.pending = held
      BY <2>3, <3>2
    <3> QED BY <3>3, <3>4 DEF r, a
  <2>10. asked[k].epoch = db.epoch
    BY <2>5 DEF Here, k
  <2>11. /\ n > 0 /\ j.acts[n].accept = "open" /\ j.acts = Append(Given(k), j.acts[n])
         /\ Continues(j.drawn, Base(k), j.start, j.pos) /\ Len(j.drawn) >= Len(Base(k))
         /\ EndsAtLast(j.drawn, j.acts)
    BY <2>5 DEF Offering, n, k
  <2>12. k \in Choice => j.acts[k.at] = Given(k)[k.at]
    <3> DEFINE d == j.acts[n]
    <3>1. j.acts = Append(Given(k), d)
      BY <2>11
    <3> HIDE DEF d
    <3> QED BY <2>6, <3>1
  <2>13. /\ dice' \in Seq(Command) /\ Len(dice') = j.pos
         /\ decided' \in [Command -> Seq(Decision)] /\ decided'[c] = Given(k)
         /\ Recorded(j.drawn, j.pos) /\ Lists(j.drawn, Drawn(c)')
         /\ \A b \in Command : b # c => Drawn(b)' = Drawn(b) /\ decided'[b] = decided[b]
    BY <1>3, <2>1, <2>5, <2>11, <2>12, HistoryGrows DEF k, c
  <2>14. db'.epoch = Led(k, db.epoch)
    BY <1>3, <2>2, <2>9 DEF Led
  <2>15. LocalTypeOK' /\ Addressed' /\ Read' /\ Receipts' /\ \A q \in Proc : Grounded(job[q])'
    BY <1>0, <1>1, <1>2, <1>3, <2>1, <2>9, <2>10, <2>13, <2>14, CommitStep DEF k
  <2>16. /\ receipt'[c] # None /\ Untouched' /\ c \notin Finished'
         /\ \A b \in Command : b # c =>
              /\ ~Pending(b) /\ Drawn(b)' = Drawn(b)
              /\ AcceptedFor(b, "inspire")' = AcceptedFor(b, "inspire")
              /\ InThisTimeline(b)' => InThisTimeline(b)
    BY <1>3, <2>1, <2>5, <2>9, <2>13, OthersStay DEF k, c
  <2>17. Suspended'
    BY <2>7, <2>9, <2>11, <2>13, <2>16 DEF Suspended, n
  <2>18. DiceOnce'
    <3>1. Len(dice') = db'.pos
      BY <2>9, <2>13
    <3>2. \A b \in Command : Pending(b)' <=> b = c
      BY <2>7, <2>9 DEF Pending
    <3>3. ASSUME NEW b \in Command
          PROVE  /\ Pending(b)' => Lists(db'.pending.draws, Drawn(b)')
                 /\ ~Pending(b)' /\ InThisTimeline(b)' =>
                      Cardinality(Drawn(b)') = Len(Script[b]) + Cardinality(AcceptedFor(b, "inspire")')
      <4>1. CASE b = c
        BY <2>7, <2>9, <2>13, <3>2, <4>1
      <4>2. CASE b # c
        <5>1. ~Pending(b) /\ InThisTimeline(b) =>
                 Cardinality(Drawn(b)) = Len(Script[b]) + Cardinality(AcceptedFor(b, "inspire"))
          BY DEF IInv, DiceOnce
        <5>2. /\ ~Pending(b) /\ Drawn(b)' = Drawn(b)
              /\ AcceptedFor(b, "inspire")' = AcceptedFor(b, "inspire")
              /\ InThisTimeline(b)' => InThisTimeline(b)
          BY <2>16, <4>2
        <5> QED BY <3>2, <4>2, <5>1, <5>2
      <4> QED BY <4>1, <4>2
    <3>4. ASSUME NEW b \in Command
          PROVE  Pending(b)' => Lists(db.pending.draws, Drawn(b))'
      BY <3>3 DEF Lists, InOrder
    <3> QED BY <3>1, <3>3, <3>4 DEF DiceOnce
  <2>19. UsesTally'
    BY <1>3, <2>5, <2>7, <2>9, <2>13, OfferTally DEF k, c
  <2> QED BY <2>15, <2>16, <2>17, <2>18, <2>19 DEF IInv
<1>5. CASE ~Unchanged(j)
  <2>1. /\ Ended(p, "error") /\ UNCHANGED <<db, receipt, History>>
        /\ lock' = IF lock = p THEN None ELSE lock
    BY <1>0, <1>1, <1>5 DEF Offer
  <2> QED BY <1>0, <1>1, <1>2, <2>1, EndedStep
<1> QED BY <1>4, <1>5

(***************************************************************************)
(* The theorems.                                                           *)
(***************************************************************************)
LEMMA InitHolds == LocalInit => IInv
<1> SUFFICES ASSUME LocalInit PROVE IInv
  OBVIOUS
<1>1. /\ db = Fresh /\ receipt = [k \in Request |-> None] /\ lock = None
      /\ job = [p \in Proc |-> Idle] /\ asked = [k \in Request |-> None]
      /\ fate \in Stream /\ crashes = 0 /\ dice = << >>
      /\ decided = [c \in Command |-> << >>] /\ kept = [k \in Request |-> NotKept]
  BY DEF LocalInit, Init
<1>2. Idle.pc = "idle" /\ Idle.pc \notin Inside /\ Idle.pc \notin Working /\ Idle.pc # "reply"
  BY DEF Idle, Inside, Working
<1>3. /\ db.rev = 1 /\ db.arev = 1 /\ db.epoch = 1 /\ db.pos = 0
      /\ db.uses = Uses /\ db.gift = Gifted /\ db.pending = None
  BY <1>1 DEF Fresh
<1>4. LocalTypeOK
  <2>1. Fresh \in [rev : Nat, arev : Nat, epoch : Nat, pos : Nat,
                   uses : [Saver -> Nat], gift : SUBSET Saver,
                   pending : Continuation \cup {None}]
    BY ScriptAssumption DEF Fresh
  <2>2. job \in [Proc -> JobType] /\ \A p \in Proc : lock = p <=> job[p].pc \in Inside
    <3>1. \A p \in Proc : lock # p
      BY <1>1, NoneIsNo
    <3> QED BY <1>1, <1>2, <3>1, IdleIsJob
  <2>3. NotKept \in KeptType
    BY DEF NotKept, KeptType
  <2>4. 0 \in 0 .. MaxCrash
    BY BoundAssumption
  <2> HIDE DEF Fresh, NotKept, Idle
  <2>5. /\ receipt \in [Request -> Result \cup {None}] /\ lock \in Proc \cup {None}
        /\ asked \in [Request -> Named \cup {None}]
        /\ kept \in [Request -> KeptType]
        /\ dice \in Seq(Command) /\ decided \in [Command -> Seq(Decision)]
    BY <1>1, <2>3
  <2> QED BY <1>1, <2>1, <2>2, <2>4, <2>5 DEF LocalTypeOK, TypeOK
<1>5. Addressed /\ Read /\ Suspended /\ Untouched
  <2>1. Addressed /\ Read /\ Suspended
    BY <1>1, <1>2, <1>3 DEF Addressed, Read, Suspended
  <2>2. Finished = {}
    BY <1>1 DEF Finished, Outcome, Request, Plain
  <2> QED BY <1>1, <2>1, <2>2 DEF Untouched, Drawn
<1>6. Receipts
  BY <1>1, <1>2 DEF Receipts, Results, NotKept
<1>7. \A p \in Proc : Grounded(job[p])
  BY <1>1, <1>2 DEF Grounded, Idle
<1>8. \A c \in Command : ~Pending(c) /\ ~InThisTimeline(c)
  BY <1>1, <1>3 DEF Pending, InThisTimeline, Request, Plain
<1>9. DiceOnce
  BY <1>1, <1>3, <1>8 DEF DiceOnce
<1>10. UsesTally
  <2>1. \A c \in Command : AcceptedFor(c, "resist") = {} /\ AcceptedFor(c, "inspire") = {}
    BY <1>1 DEF AcceptedFor
  <2>2. \A x \in Saver : TakenFrom(x) = {}
    BY <2>1 DEF TakenFrom, Settled
  <2>3. \A c \in Settled : c \in Command
    BY DEF Settled
  <2>4. ASSUME NEW x \in Saver
        PROVE  /\ db.uses[x] + Cardinality(TakenFrom(x)) = Uses[x]
               /\ (x \in db.gift <=> x \in Gifted)
    <3>1. Uses[x] \in Nat
      BY ScriptAssumption
    <3>2. Cardinality(TakenFrom(x)) = 0
      BY <2>2, FS_EmptySet
    <3> QED BY <1>3, <3>1, <3>2
  <2> QED BY <1>3, <2>1, <2>3, <2>4 DEF UsesTally
<1> QED BY <1>4, <1>5, <1>6, <1>7, <1>9, <1>10 DEF IInv

LEMMA NextKeeps == IInv /\ [LocalNext]_allVars => IInv'
<1> SUFFICES ASSUME IInv, [LocalNext]_allVars PROVE IInv'
  OBVIOUS
<1>1. CASE UNCHANGED allVars
  <2>1. /\ db' = db /\ receipt' = receipt /\ lock' = lock /\ job' = job /\ asked' = asked
        /\ fate' = fate /\ crashes' = crashes /\ dice' = dice /\ decided' = decided /\ kept' = kept
    BY <1>1 DEF allVars
  <2>2. LocalTypeOK' /\ Addressed' /\ Read' /\ Receipts' /\ Suspended' /\ Untouched'
    <3>1. LocalTypeOK' /\ Addressed' /\ Read'
      BY <2>1 DEF IInv, LocalTypeOK, TypeOK, Addressed, Read, AskedOf
    <3>2. Receipts'
      BY <2>1 DEF IInv, Receipts, Results, Led
    <3>3. Suspended' /\ Untouched'
      BY <2>1, FinishedStays DEF IInv, Suspended, Recorded, InOrder, EndsAtLast, EndsWith, Inspired, Untouched, Drawn
    <3> QED BY <3>1, <3>2, <3>3
  <2>3. DiceOnce' /\ UsesTally'
    BY <2>1, HistoryStays DEF IInv
  <2>4. ASSUME NEW p \in Proc PROVE Grounded(job[p])'
    BY <2>1, GroundedStays DEF IInv
  <2> QED BY <2>2, <2>3, <2>4 DEF IInv
<1>2. CASE \E k \in Request : AskRemote(k) \/ Freeze(k) \/ Dispatch(k)
  BY <1>2, AskRemoteStep, FreezeStep, DispatchStep
<1>3. CASE \E p \in Server, k \in Request : Receive(p, k) /\ UNCHANGED kept
  BY <1>3, ReceiveStep DEF Server
<1>4. CASE \E p \in Proc : (Step(p) \/ Crash(p)) /\ UNCHANGED kept
  <2> PICK p \in Proc : (Step(p) \/ Crash(p)) /\ UNCHANGED kept
    BY <1>4
  <2>1. CASE Crash(p)
    BY <2>1, CrashStep
  <2>2. CASE BeginCommand(p) \/ BeginRestore(p) \/ BeginChoice(p)
    BY <2>2, BeginCommandStep, BeginRestoreStep, BeginChoiceStep
  <2>3. CASE Enter(p) \/ RestoreSnapshot(p)
    BY <2>3, EnterStep, RestoreStep
  <2>4. CASE Roll(p) \/ Proceed(p) \/ Suspend(p) \/ Replay(p)
    BY <2>4, RollStep, ProceedStep, SuspendStep, ReplayStep
  <2>5. CASE Finish(p) \/ Offer(p)
    BY <2>5, FinishStep, OfferStep
  <2> QED BY <2>1, <2>2, <2>3, <2>4, <2>5 DEF Step
<1>5. CASE \E p \in Server : Reply(p) /\ UNCHANGED kept
  BY <1>5, ReplyStep DEF Server
<1>6. CASE Record
  BY <1>6, RecordStep
<1>7. CASE WriteSheet /\ UNCHANGED kept
  BY <1>7, WriteSheetStep
<1> QED BY <1>1, <1>2, <1>3, <1>4, <1>5, <1>6, <1>7 DEF LocalNext

THEOREM Inductive == LocalSpec => []IInv
BY InitHolds, NextKeeps, PTL DEF LocalSpec

\* The write lock belongs to the process that is inside a transaction, and the
\* state keeps its types.
THEOREM LocalTypeCorrect == LocalSpec => []LocalTypeOK
<1>1. IInv => LocalTypeOK
  BY DEF IInv
<1> QED BY <1>1, Inductive, PTL

\* Every die of the stream is drawn for one command and used once, at the roll or
\* the inspiration it was drawn for, however often the command was rolled back.
THEOREM DiceAreUsedOnce == LocalSpec => []DiceOnce
<1>1. IInv => DiceOnce
  BY DEF IInv
<1> QED BY <1>1, Inductive, PTL

\* Legendary Resistance and Bardic Inspiration are spent as often as accepted, with
\* the effects of their command, and the decisions it goes on with are those given.
THEOREM UsesAreTallied == LocalSpec => []UsesTally
<1>1. IInv => UsesTally
  BY DEF IInv
<1> QED BY <1>1, Inductive, PTL

(***************************************************************************)
(* What took effect is found again.                                        *)
(***************************************************************************)
\* A process takes its steps alone.
LEMMA OthersJobs ==
  ASSUME job \in [Proc -> JobType], NEW p \in Proc, NEW q \in Proc, q # p,
         Step(p) \/ Crash(p) \/ Reply(p)
  PROVE  job'[q] = job[q]
<1>1. ASSUME NEW x, job' = [job EXCEPT ![p] = x] PROVE job'[q] = job[q]
  BY <1>1
<1>2. ASSUME NEW out, Ended(p, out) PROVE job'[q] = job[q]
  BY <1>2 DEF Ended
<1>3. CASE Crash(p) \/ Reply(p)
  BY <1>3 DEF Crash, Reply
<1>4. CASE BeginCommand(p) \/ BeginRestore(p)
  BY <1>2, <1>4 DEF BeginCommand, BeginRestore
<1>5. CASE BeginChoice(p)
  BY <1>2, <1>5 DEF BeginChoice
<1>6. CASE Enter(p)
  BY <1>2, <1>6 DEF Enter
<1>7. CASE RestoreSnapshot(p)
  BY <1>2, <1>7 DEF RestoreSnapshot
<1>8. CASE Roll(p)
  BY <1>8 DEF Roll
<1>9. CASE Proceed(p)
  BY <1>9 DEF Proceed
<1>10. CASE Suspend(p)
  BY <1>10 DEF Suspend
<1>11. CASE Replay(p)
  BY <1>2, <1>11 DEF Replay
<1>12. CASE Finish(p)
  BY <1>2, <1>12 DEF Finish
<1>13. CASE Offer(p)
  BY <1>2, <1>13 DEF Offer
<1> QED BY <1>3, <1>4, <1>5, <1>6, <1>7, <1>8, <1>9, <1>10, <1>11, <1>12, <1>13 DEF Step

\* In the timeline it led to a receipt answers the request that it was given for.
LEMMA ReceiptAnswers ==
  ASSUME IInv, NEW p \in Proc, job[p].pc = "begin", InThisTimeline(job[p].req)
  PROVE  Replays(job[p].req, job[p].basis)
<1> DEFINE k == job[p].req
<1>1. k \in Request /\ job[p].basis = asked[k].basis
  BY DEF IInv, Addressed, Grounded
<1>2. receipt[k] # None /\ receipt[k].basis = asked[k].basis
  BY <1>1 DEF IInv, Receipts, InThisTimeline
<1>3. receipt[k].epoch \in Nat
  BY <1>1, <1>2, Parts
<1> QED BY <1>1, <1>2, <1>3 DEF Replays, InThisTimeline

\* A process that fails a request has found that it did not take effect, unless it
\* was turned away by a pending decision, or by a commit before its handler was asked.
LEMMA StepFails ==
  ASSUME IInv, NEW p \in Proc, Step(p), job'[p].pc = "reply", job'[p].out = "error",
         InThisTimeline(job[p].req)
  PROVE  \/ db.pending # None /\ job[p].req \notin Choice /\ db.pending.cmd # job[p].req
         \/ Undecided(job[p].req) /\ job[p].pc = "enter" /\ ~Unchanged(job[p])
<1> DEFINE k == job[p].req
<1>1. job \in [Proc -> JobType]
  BY Parts
<1>2. \A out \in {"offer", "done", "error"} : Ended(p, out) => job'[p].out = out
  BY <1>1, EndedIs
<1>3. receipt[k] # None
  BY DEF InThisTimeline
<1>4. CASE BeginChoice(p)
  <2>1. Replays(k, job[p].basis)
    BY <1>4, ReceiptAnswers DEF BeginChoice
  <2>2. Ended(p, receipt[k].out)
    BY <1>3, <1>4, <2>1 DEF BeginChoice
  <2>3. receipt[k].out \in {"offer", "done"}
    <3>1. k \in Request /\ receipt \in [Request -> Result \cup {None}]
      BY <1>4, Parts DEF IInv, Addressed, TypeOK, BeginChoice
    <3> QED BY <1>3, <3>1 DEF Result
  <2> QED BY <1>2, <2>2, <2>3
<1>5. CASE BeginCommand(p)
  <2>1. job[p].pc = "begin" /\ k \in Command
    BY <1>5 DEF BeginCommand
  <2>2. ~Stopped(k)
    <3>1. Replays(k, job[p].basis)
      BY <2>1, ReceiptAnswers
    <3>2. Stopped(k) => Ended(p, "offer")
      BY <1>5, <3>1 DEF BeginCommand
    <3> QED BY <1>2, <3>2
  <2>3. db.pending # None
    <3> DEFINE x == [job[p] EXCEPT !.pc = "enter", !.rev = db.rev, !.arev = db.arev, !.cmd = k]
    <3>1. SUFFICES ASSUME db.pending = None PROVE FALSE
      OBVIOUS
    <3>2. job' = [job EXCEPT ![p] = x]
      BY <1>5, <2>2, <3>1 DEF BeginCommand
    <3>3. x.pc = "enter"
      BY <1>1 DEF JobType
    <3> HIDE DEF x
    <3> QED BY <1>1, <3>2, <3>3
  <2>4. k \in Request /\ k \notin Choice /\ receipt[k].out \in {"offer", "done"}
    <3>1. k \in Request /\ k \notin Choice
      BY <2>1, NamesAssumption DEF Request, Plain
    <3>2. receipt \in [Request -> Result \cup {None}]
      BY Parts DEF TypeOK
    <3> QED BY <1>3, <3>1, <3>2 DEF Result
  <2>5. k \in Finished
    BY <1>3, <2>1, <2>2, <2>4 DEF Stopped, Finished, Outcome
  <2> QED BY <2>3, <2>4, <2>5, PendingIs
<1>6. CASE BeginRestore(p)
  <2>1. k \in Restore /\ k \notin Choice /\ k \notin Command
    BY <1>6, NamesAssumption DEF BeginRestore, Plain
  <2>2. db.pending = None => Ended(p, "done")
    BY <1>3, <1>6 DEF BeginRestore
  <2> QED BY <1>2, <2>1, <2>2, PendingIs
<1>7. CASE Enter(p)
  <2>1. job[p].pc = "enter"
    BY <1>7 DEF Enter
  <2>2. k \notin Restore /\ Undecided(k)
    BY <1>3, <2>1, EnterIs
  <2>3. Committed(k)
    <3>1. receipt[k].epoch \in Nat
      BY <1>3, <2>1, EnterIs, Parts
    <3> QED BY <1>3, <2>2, <3>1 DEF InThisTimeline, Committed
  <2>4. Unchanged(job[p]) => Ended(p, "done")
    BY <1>7, <2>3 DEF Enter
  <2> QED BY <1>2, <2>1, <2>2, <2>4
<1>8. CASE RestoreSnapshot(p) \/ Roll(p) \/ Proceed(p) \/ Suspend(p) \/ Replay(p) \/ Finish(p) \/ Offer(p)
  <2>1. job[p].pc \in Inside \cup {"offer", "restore"}
    BY <1>8 DEF RestoreSnapshot, Roll, Proceed, Suspend, Replay, Finish, Offer,
            MayDecide, MayInspire, MayResist, Inside
  <2>2. receipt[k] = None
    BY <2>1 DEF IInv, Grounded, Working, Inside
  <2> QED BY <1>3, <2>2
<1> QED BY <1>4, <1>5, <1>6, <1>7, <1>8 DEF Step

\* The local session turns a request away only under somebody else's decision.
LEMMA DispatchFails ==
  ASSUME IInv, NEW k \in Request, Dispatch(k), job'[Local].pc = "reply",
         InThisTimeline(k)
  PROVE  job'[Local].req = k /\ db.pending # None /\ k \notin Choice /\ db.pending.cmd # k
<1>1. Local \in Proc /\ job \in [Proc -> JobType] /\ asked[k] # None
  BY LocalAssumption, Parts DEF Dispatch
<1>2. /\ receipt[k] # None /\ db.epoch = Led(k, receipt[k].epoch)
  BY DEF InThisTimeline, Led
<1>3. /\ k \notin Restore => receipt[k].epoch = asked[k].epoch
      /\ receipt[k].epoch \in Nat /\ db.epoch \in Nat
  <2>1. k \notin Restore => receipt[k].epoch = asked[k].epoch
    BY <1>2 DEF IInv, Receipts
  <2> QED BY <1>2, <2>1, Parts
<1>4. Bound(k) = db.epoch \/ RestoreReplay(k)
  <2>1. CASE kept[k].out # "none"
    <3>1. Led(k, receipt[k].epoch) <= kept[k].epoch /\ kept[k].epoch <= db.epoch
      BY <2>1 DEF IInv, Receipts, Results
    <3>2. kept[k].epoch \in Nat
      BY Parts DEF KeptType
    <3> QED BY <1>2, <1>3, <2>1, <3>1, <3>2 DEF Bound
  <2>2. CASE kept[k].out = "none" /\ k \in Restore
    BY <1>2, <2>2 DEF RestoreReplay
  <2>3. CASE kept[k].out = "none" /\ k \notin Restore
    BY <1>2, <1>3, <2>3 DEF Bound, Led
  <2> QED BY <2>1, <2>2, <2>3
<1>5. Start(Local, k, FrozenBasis(k))
  BY <1>4 DEF Dispatch
<1>6. FrozenBasis(k) \in Nat
  BY <1>1, Parts DEF FrozenBasis
<1>7. ~Admitted(k) /\ job'[Local].req = k
  BY <1>1, <1>5, <1>6, Parts, StartIs
<1> QED BY <1>7 DEF Admitted

\* A step ends with the request it was taken for.
LEMMA StepKeepsRequest ==
  ASSUME job \in [Proc -> JobType], NEW p \in Proc, Step(p), job'[p].pc = "reply"
  PROVE  job'[p].req = job[p].req
<1>1. ASSUME NEW out, Ended(p, out) PROVE job'[p].req = job[p].req
  <2>1. job'[p] = [Idle EXCEPT !.pc = "reply", !.req = job[p].req, !.out = out]
    BY <1>1 DEF Ended
  <2> QED BY <2>1 DEF Idle
<1>2. ASSUME NEW x, job' = [job EXCEPT ![p] = x] PROVE job'[p] = x
  BY <1>2
<1>3. job[p] \in JobType
  OBVIOUS
<1>14. CASE BeginRestore(p)
  BY <1>1, <1>3, <1>14 DEF BeginRestore, JobType
<1>4. CASE BeginCommand(p)
  <2> DEFINE c == job[p].req
             x == [job[p] EXCEPT !.pc = "enter", !.rev = db.rev, !.arev = db.arev, !.cmd = c]
  <2>1. (\E out : Ended(p, out)) \/ job' = [job EXCEPT ![p] = x]
    BY <1>4 DEF BeginCommand
  <2>2. x.req = job[p].req
    <3> HIDE DEF c
    <3> QED BY <1>3 DEF JobType
  <2> HIDE DEF x
  <2> QED BY <1>1, <1>2, <2>1, <2>2
<1>5. CASE BeginChoice(p)
  <2> DEFINE k == job[p].req
             x == [job[p] EXCEPT !.pc = "enter", !.rev = db.rev, !.arev = db.arev,
                                 !.basis = db.rev, !.cmd = k.of,
                                 !.prefix = db.pending.draws, !.acts = Answered(k)]
  <2>1. (\E out : Ended(p, out)) \/ job' = [job EXCEPT ![p] = x]
    BY <1>5 DEF BeginChoice
  <2>2. x.req = job[p].req
    <3> HIDE DEF k
    <3> QED BY <1>3 DEF JobType
  <2> HIDE DEF x
  <2> QED BY <1>1, <1>2, <2>1, <2>2
<1>6. CASE Enter(p)
  BY <1>1, <1>3, <1>6 DEF Enter, JobType
<1>7. CASE RestoreSnapshot(p)
  BY <1>1, <1>7 DEF RestoreSnapshot
<1>8. CASE Roll(p)
  <2>1. Draw(job[p]) \in JobType /\ Draw(job[p]).req = job[p].req
    BY <1>3, DrawIs
  <2> HIDE DEF JobType
  <2>2. job'[p] = IF Roller(job[p]) = Damage THEN [Draw(job[p]) EXCEPT !.step = @ + 1]
                  ELSE [Draw(job[p]) EXCEPT !.pc = "inspire", !.roll = NextDie(job[p]),
                                            !.ok = Succeeds(NextDie(job[p]))]
    BY <1>2, <1>8 DEF Roll
  <2> QED BY <2>1, <2>2 DEF JobType
<1>9. CASE Proceed(p)
  <2>1. job'[p] = AfterRoll(job[p])
    BY <1>2, <1>9 DEF Proceed
  <2> QED BY <1>3, <2>1 DEF AfterRoll, JobType
<1>10. CASE Suspend(p)
  BY <1>3, <1>10 DEF Suspend, Idle, JobType
<1>11. CASE Replay(p)
  <2> DEFINE i == job[p].idx + 1 j == [job[p] EXCEPT !.idx = i]
  <2>1. j \in JobType /\ j.req = job[p].req
    <3>1. i \in Nat
      BY <1>3 DEF JobType
    <3> HIDE DEF i
    <3> QED BY <1>3, <3>1 DEF JobType
  <2>2. Ended(p, "error") \/ job'[p] = AfterRoll(Accepted(j)) \/ job'[p] = AfterRoll(j)
    BY <1>2, <1>11 DEF Replay
  <2> HIDE DEF j
  <2>3. Draw(j) \in JobType /\ Draw(j).req = j.req
    BY <2>1, DrawIs
  <2>4. Accepted(j).req = j.req
    BY <2>1, <2>3 DEF Accepted, JobType
  <2>5. AfterRoll(Accepted(j)).req = j.req /\ AfterRoll(j).req = j.req
    BY <2>1, <2>3, <2>4 DEF AfterRoll, Accepted, JobType
  <2> QED BY <1>1, <2>1, <2>2, <2>5
<1>12. CASE Finish(p)
  BY <1>1, <1>12 DEF Finish
<1>13. CASE Offer(p)
  BY <1>1, <1>13 DEF Offer
<1> QED BY <1>4, <1>5, <1>6, <1>7, <1>8, <1>9, <1>10, <1>11, <1>12, <1>13, <1>14 DEF Step

\* A request of the local session that has taken effect is not refused for good: only
\* another command's decision turns it away for a while, or, where it committed with no
\* decision, a commit between an attempt's reads and its transaction.
THEOREM CommittedStaysAnswered == LocalSpec => CommittedIsAnswered
<1> DEFINE Refused(k) ==
             /\ job[Local].pc # "reply"
             /\ job'[Local].pc = "reply" /\ job'[Local].req = k /\ job'[Local].out = "error"
             /\ InThisTimeline(k)
           Excused(k) ==
             \/ db.pending # None /\ k \notin Choice /\ db.pending.cmd # k
             \/ Undecided(k) /\ job[Local].pc = "enter" /\ ~Unchanged(job[Local])
           A == \A k \in Request : Refused(k) => Excused(k)
<1>1. ASSUME IInv, LocalNext, NEW k \in Request, Refused(k)
      PROVE  Excused(k)
  <2>1. /\ Local \in Proc /\ job \in [Proc -> JobType]
        /\ job[Local].pc # "reply" /\ job'[Local].pc = "reply" /\ job'[Local].req = k
        /\ job'[Local].out = "error" /\ InThisTimeline(k) /\ job'[Local] # job[Local]
    BY <1>1, LocalAssumption, Parts
  <2>2. CASE \E m \in Request : AskRemote(m) \/ Freeze(m) \/ Dispatch(m)
    <3> PICK m \in Request : AskRemote(m) \/ Freeze(m) \/ Dispatch(m)
      BY <2>2
    <3>1. CASE AskRemote(m)
      BY <2>1, <3>1 DEF AskRemote
    <3>2. CASE Freeze(m)
      <4>1. job'[Local] = [Idle EXCEPT !.pc = "frozen", !.req = m]
        BY <2>1, <3>2 DEF Freeze
      <4>2. [Idle EXCEPT !.pc = "frozen", !.req = m].pc = "frozen"
        BY DEF Idle
      <4> QED BY <2>1, <4>1, <4>2
    <3>3. CASE Dispatch(m)
      <4>1. job'[Local].req = m
        <5>1. CASE Start(Local, m, FrozenBasis(m))
          <6>1. FrozenBasis(m) \in Nat
            BY <1>1, <3>3, Parts DEF FrozenBasis, Dispatch
          <6> QED BY <1>1, <2>1, <5>1, <6>1, Parts, StartIs
        <5>2. CASE job' = [job EXCEPT ![Local] = [Idle EXCEPT !.pc = "reply", !.req = m,
                                                             !.out = "error"]]
          <6>1. [Idle EXCEPT !.pc = "reply", !.req = m, !.out = "error"].req = m
            BY DEF Idle
          <6> QED BY <2>1, <5>2, <6>1
        <5> QED BY <3>3, <5>1, <5>2 DEF Dispatch
      <4> QED BY <1>1, <2>1, <3>3, <4>1, DispatchFails
    <3> QED BY <3>1, <3>2, <3>3
  <2>3. CASE \E p \in Server, m \in Request : Receive(p, m) /\ UNCHANGED kept
    <3> PICK p \in Server, m \in Request : Receive(p, m)
      BY <2>3
    <3>1. p \in Proc /\ p # Local
      BY DEF Server
    <3>2. job'[Local] = job[Local]
      BY <2>1, <3>1 DEF Receive, Start
    <3> QED BY <2>1, <3>2
  <2>4. CASE \E p \in Proc : (Step(p) \/ Crash(p)) /\ UNCHANGED kept
    <3> PICK p \in Proc : Step(p) \/ Crash(p)
      BY <2>4
    <3>1. p = Local
      BY <2>1, OthersJobs
    <3>2. ~Crash(Local)
      <4>1. Crash(Local) => job'[Local] = Idle
        BY <2>1 DEF Crash
      <4> QED BY <2>1, <4>1 DEF Idle
    <3>3. Step(Local)
      BY <3>1, <3>2
    <3>4. job'[Local].req = job[Local].req
      BY <1>1, <2>1, <3>3, StepKeepsRequest
    <3> QED BY <1>1, <2>1, <3>3, <3>4, StepFails
  <2>5. CASE \E p \in Server : Reply(p) /\ UNCHANGED kept
    <3> PICK p \in Server : Reply(p)
      BY <2>5
    <3>1. p \in Proc /\ p # Local
      BY DEF Server
    <3> QED BY <2>1, <3>1, OthersJobs
  <2>6. CASE Record
    BY <2>1, <2>6 DEF Record
  <2>7. CASE WriteSheet /\ UNCHANGED kept
    BY <2>1, <2>7 DEF WriteSheet
  <2> QED BY <1>1, <2>2, <2>3, <2>4, <2>5, <2>6, <2>7 DEF LocalNext
<1>2. ASSUME UNCHANGED allVars PROVE A
  BY <1>2 DEF allVars
<1>3. IInv /\ [LocalNext]_allVars => [A]_allVars
  BY <1>1, <1>2
<1> QED BY <1>3, Inductive, PTL DEF LocalSpec, CommittedIsAnswered

(***************************************************************************)
(* The contract of commands.                                               *)
(***************************************************************************)
Waiting == IF db.pending = None THEN None ELSE db.pending.cmd
Open == IF db.pending = None THEN 0 ELSE Len(db.pending.acts)

\* What the contract sees of a step that leaves receipts and decision alone.
LEMMA ContractStutters ==
  ASSUME UNCHANGED receipt, db'.pending = db.pending
  PROVE  UNCHANGED <<Outcome, Waiting, Open, Finished>>
BY FinishedStays DEF Outcome, Waiting, Open

LEMMA SeenByContract ==
  ASSUME UNCHANGED <<Outcome, Waiting, Open, Finished>>
  PROVE  UNCHANGED Contract!vars
BY DEF Contract!vars, Waiting, Open

LEMMA ContractInit == LocalInit => Contract!Init
<1> SUFFICES ASSUME LocalInit PROVE Contract!Init
  OBVIOUS
<1>1. db.pending = None /\ receipt = [k \in Request |-> None]
  BY DEF LocalInit, Init, Fresh
<1>2. Request = Contract!Request
  BY DEF Request, Plain, Contract!Request
<1>3. Outcome = [k \in Contract!Request |-> "none"]
  BY <1>1, <1>2 DEF Outcome
<1>4. Finished = {}
  BY <1>1 DEF Finished, Outcome, Request, Plain
<1> QED BY <1>1, <1>3, <1>4 DEF Contract!Init

\* Where a request that commits finds the campaign.
LEMMA WaitingIs ==
  ASSUME IInv, NEW j, j.req \in Request, j.req \notin Restore, receipt[j.req] = None, Here(j)
  PROVE  /\ j.req \in Choice => /\ Waiting = j.req.of /\ Open = j.req.at /\ j.cmd = j.req.of
                                /\ Len(Given(j.req)) = j.req.at
         /\ j.req \notin Choice => /\ j.req \in Command /\ j.cmd = j.req
                                   /\ Waiting = None /\ Open = 0 /\ Given(j.req) = << >>
<1>1. CASE j.req \in Choice
  <2>1. db.pending # None /\ db.pending.cmd = j.req.of /\ Len(db.pending.acts) = j.req.at
        /\ j.cmd = j.req.of
    BY <1>1 DEF Here, For
  <2>2. Answer(db.pending.acts, Answered(j.req))
    BY <1>1, <2>1, AnsweredIs
  <2> QED BY <1>1, <2>1, <2>2 DEF Waiting, Open, Given, Answer
<1>2. CASE j.req \notin Choice
  BY <1>2, BaseIs DEF Waiting, Open
<1> QED BY <1>1, <1>2

LEMMA ContractFinish ==
  ASSUME IInv, NEW p \in Proc, Finish(p), receipt' # receipt
  PROVE  Contract!Next
<1>0. PICK j \in JobType : j = job[p]
  BY Parts
<1> DEFINE k == j.req c == j.cmd
<1>1. j.pc \in Inside
  BY <1>0 DEF Finish, Inside
<1>2. /\ k \in Request /\ asked[k] # None /\ receipt[k] = None /\ k \notin Restore /\ Here(j)
  BY <1>0, <1>1, InsideIs
<1>3. Receipted(k, "done") /\ db'.pending = None
  <2>1. /\ Receipted(k, "done")
        /\ db' = [db EXCEPT !.rev = @ + 1, !.arev = @ + 1, !.pos = j.pos,
                            !.uses = Spent(j), !.gift = @ \ j.used, !.pending = None]
    BY <1>0 DEF Finish
  <2>2. db \in [rev : Nat, arev : Nat, epoch : Nat, pos : Nat,
                uses : [Saver -> Nat], gift : SUBSET Saver,
                pending : Continuation \cup {None}]
    BY Parts DEF TypeOK
  <2> QED BY <2>1, <2>2
<1>4. Outcome[k] = "none" /\ Outcome' = [Outcome EXCEPT ![k] = "done"]
  BY <1>2, <1>3, OutcomeAdded
<1>5. c \notin Finished /\ Finished' = Finished \cup {c}
  BY <1>2, <1>3, BaseIs, FinishedGrows
<1>6. Waiting' = None /\ Open' = 0
  BY <1>3 DEF Waiting, Open
<1>7. CASE k \in Choice
  <2>1. Waiting = k.of /\ Open = k.at /\ c = k.of
    BY <1>2, <1>7, WaitingIs
  <2>2. Contract!Resume(k)
    BY <1>4, <1>5, <1>6, <2>1 DEF Contract!Resume, Waiting, Open, ForCommand, ForDecision
  <2> QED BY <1>7, <2>2 DEF Contract!Next
<1>8. CASE k \notin Choice
  <2>1. k \in Command /\ c = k /\ Waiting = None /\ Open = 0
    BY <1>2, <1>8, WaitingIs
  <2>2. Contract!Settle(k)
    BY <1>4, <1>5, <1>6, <2>1 DEF Contract!Settle, Waiting, Open
  <2> QED BY <2>1, <2>2 DEF Contract!Next
<1> QED BY <1>7, <1>8

LEMMA ContractOffer ==
  ASSUME IInv, NEW p \in Proc, Offer(p), receipt' # receipt
  PROVE  Contract!Next
<1>0. PICK j \in JobType : j = job[p]
  BY Parts
<1> DEFINE k == j.req c == j.cmd n == Len(j.acts)
<1>1. j.pc = "offer" /\ Unchanged(j) /\ Receipted(k, "offer") /\ db' = Offered(j)
  BY <1>0 DEF Offer
<1>2. /\ k \in Request /\ asked[k] # None /\ receipt[k] = None /\ k \notin Restore
      /\ Here(j) /\ Offering(j)
  BY <1>0, <1>1, OfferIs DEF Unchanged
<1>3. db'.pending # None /\ db'.pending.cmd = c /\ db'.pending.acts = j.acts
  <2> DEFINE held == [cmd |-> c, draws |-> j.drawn, acts |-> j.acts,
                      rev |-> j.rev + 1, arev |-> j.arev + 1, pos |-> j.pos]
  <2>1. c \in Command
    BY <1>2, BaseIs
  <2>2. held \in Continuation /\ held # None
    <3>1. held \in Continuation
      BY <2>1 DEF Continuation, JobType
    <3> QED BY <3>1, NamesAssumption
  <2>3. db'.pending = held
    <3>1. db \in [rev : Nat, arev : Nat, epoch : Nat, pos : Nat,
                  uses : [Saver -> Nat], gift : SUBSET Saver,
                  pending : Continuation \cup {None}]
      BY Parts DEF TypeOK
    <3>2. db' = [db EXCEPT !.rev = @ + 1, !.arev = @ + 1, !.pos = j.pos, !.pending = held]
      BY <1>1 DEF Offered
    <3> HIDE DEF held
    <3> QED BY <3>1, <3>2
  <2> QED BY <2>2, <2>3
<1>4. Outcome[k] = "none" /\ Outcome' = [Outcome EXCEPT ![k] = "offer"]
  BY <1>1, <1>2, OutcomeAdded
<1>5. Finished' = Finished
  BY <1>1, <1>2, FinishedGrows
<1>6. Waiting' = c /\ Open' = n
  BY <1>3 DEF Waiting, Open
<1>7. n = Len(Given(k)) + 1
  <2> DEFINE d == j.acts[n]
  <2>1. Given(k) \in Seq(Decision) /\ j.acts = Append(Given(k), d)
    BY <1>2, BaseIs DEF Offering
  <2> HIDE DEF d
  <2> QED BY <2>1
<1>8. CASE k \in Choice
  <2>1. Waiting = k.of /\ Open = k.at /\ c = k.of /\ Len(Given(k)) = k.at
    BY <1>2, <1>8, WaitingIs
  <2>2. Contract!AskAgain(k)
    BY <1>4, <1>5, <1>6, <1>7, <2>1 DEF Contract!AskAgain, Waiting, Open, ForCommand, ForDecision
  <2> QED BY <1>8, <2>2 DEF Contract!Next
<1>9. CASE k \notin Choice
  <2>1. k \in Command /\ c = k /\ Waiting = None /\ Given(k) = << >>
    BY <1>2, <1>9, WaitingIs
  <2>2. n = 1
    BY <1>7, <2>1
  <2>3. Contract!Suspend(k)
    BY <1>4, <1>5, <1>6, <2>1, <2>2 DEF Contract!Suspend, Waiting, Open
  <2> QED BY <2>1, <2>3 DEF Contract!Next
<1> QED BY <1>8, <1>9

\* A restore begins a timeline, or it gives up a command that waits.
LEMMA ContractRestore ==
  ASSUME IInv, NEW p \in Proc, RestoreSnapshot(p)
  PROVE  /\ receipt' # receipt
         /\ db.pending = None => Contract!Next
         /\ db.pending # None => \E r \in Restore : Contract!GiveUp(r)
<1> DEFINE k == job[p].req
<1>1. /\ job[p].pc = "restore" /\ Receipted(k, "done")
      /\ db' = [Fresh EXCEPT !.rev = db.rev + 1, !.arev = db.arev + 1, !.epoch = db.epoch + 1]
  BY DEF RestoreSnapshot
<1>2. k \in Request /\ asked[k] # None /\ receipt[k] = None /\ k \in Restore
  BY <1>1 DEF IInv, Addressed, Grounded
<1>3. db'.pending = None
  BY <1>1 DEF Fresh
<1>4. Outcome[k] = "none" /\ Outcome' = [Outcome EXCEPT ![k] = "done"]
  BY <1>1, <1>2, OutcomeAdded
<1>5. Waiting' = None /\ Open' = 0
  BY <1>3 DEF Waiting, Open
<1>6. receipt'[k] # None /\ \A m \in Request : m # k => receipt'[m] = receipt[m]
  BY <1>1, <1>2, ReceiptedIs
<1>7. Finished' = Finished
  <2>1. k \notin Command /\ k \notin Choice
    BY <1>2, NamesAssumption DEF Plain
  <2>2. /\ \A c \in Command : Outcome[c]' = Outcome[c]
        /\ \A q \in Choice : Outcome[q]' = Outcome[q]
    BY <1>6, <2>1 DEF Outcome, Request, Plain
  <2> QED BY <2>2 DEF Finished
<1>8. CASE db.pending = None
  <2>1. Waiting = None /\ Open = 0
    BY <1>8 DEF Waiting, Open
  <2>2. Contract!TurnBack(k)
    BY <1>4, <1>5, <1>7, <2>1 DEF Contract!TurnBack, Waiting, Open
  <2> QED BY <1>2, <1>6, <1>8, <2>2 DEF Contract!Next
<1>9. CASE db.pending # None
  <2>1. Waiting # None
    BY <1>9, PendingIs, NoneIsNo DEF Waiting
  <2>2. Contract!GiveUp(k)
    BY <1>4, <1>5, <1>7, <2>1 DEF Contract!GiveUp, Waiting, Open
  <2> QED BY <1>2, <1>6, <1>9, <2>2
<1> QED BY <1>8, <1>9

\* A step is one of the whole contract, or a restore that gives up a command.
LEMMA ContractStep ==
  ASSUME IInv, [LocalNext]_allVars
  PROVE  \/ Contract!Next \/ UNCHANGED Contract!vars
         \/ /\ \E p \in Proc : RestoreSnapshot(p) /\ db.pending # None
            /\ \E r \in Restore : Contract!GiveUp(r)
<1>1. ASSUME UNCHANGED receipt, db'.pending = db.pending PROVE UNCHANGED Contract!vars
  BY <1>1, ContractStutters, SeenByContract
<1>2. CASE UNCHANGED allVars
  BY <1>1, <1>2 DEF allVars
<1>3. CASE \E k \in Request : AskRemote(k) \/ Freeze(k) \/ Dispatch(k)
  BY <1>1, <1>3 DEF AskRemote, Freeze, Dispatch
<1>4. CASE \E p \in Server, k \in Request : Receive(p, k) /\ UNCHANGED kept
  BY <1>1, <1>4 DEF Receive
<1>5. CASE \E p \in Proc : (Step(p) \/ Crash(p)) /\ UNCHANGED kept
  <2> PICK p \in Proc : Step(p) \/ Crash(p)
    BY <1>5
  <2>1. CASE Crash(p)
    BY <1>1, <2>1 DEF Crash
  <2>2. CASE BeginCommand(p) \/ BeginRestore(p) \/ BeginChoice(p) \/ Enter(p)
    BY <1>1, <2>2 DEF BeginCommand, BeginRestore, BeginChoice, Enter
  <2>3. CASE Roll(p) \/ Proceed(p) \/ Suspend(p) \/ Replay(p)
    BY <1>1, <2>3 DEF Roll, Proceed, Suspend, Replay
  <2>4. CASE Finish(p) \/ Offer(p)
    <3>1. receipt' = receipt => UNCHANGED db
      <4>1. ASSUME NEW k, NEW out, k \in Request, asked[k] # None, receipt[k] = None,
                   out \in {"offer", "done"}, Receipted(k, out)
            PROVE  receipt' # receipt
        BY <4>1, ReceiptedIs
      <4>2. CASE Finish(p)
        BY <4>1, <4>2, InsideIs DEF Finish, Inside
      <4>3. CASE Offer(p)
        BY <4>1, <4>3, OfferIs DEF Offer
      <4> QED BY <2>4, <4>2, <4>3
    <3> QED BY <1>1, <2>4, <3>1, ContractFinish, ContractOffer
  <2>5. CASE RestoreSnapshot(p)
    BY <2>5, ContractRestore
  <2> QED BY <2>1, <2>2, <2>3, <2>4, <2>5 DEF Step
<1>6. CASE \E p \in Server : Reply(p) /\ UNCHANGED kept
  BY <1>1, <1>6 DEF Reply
<1>7. CASE Record
  BY <1>1, <1>7 DEF Record
<1>8. CASE WriteSheet /\ UNCHANGED kept
  <2>1. db \in [rev : Nat, arev : Nat, epoch : Nat, pos : Nat,
                uses : [Saver -> Nat], gift : SUBSET Saver,
                pending : Continuation \cup {None}]
    BY Parts DEF TypeOK
  <2> QED BY <1>1, <1>8, <2>1 DEF WriteSheet
<1> QED BY <1>2, <1>3, <1>4, <1>5, <1>6, <1>7, <1>8 DEF LocalNext

\* What every interleaving of processes, crashes, repeated and overtaken requests comes
\* to is a behaviour of the contract between processes: each command takes effect once,
\* its decisions are answered once each and in order, nothing but a restore takes effect
\* meanwhile, and the command that a restore gives up never takes effect.
THEOREM CommandsKeepTheirContract == LocalSpec => ImplementsContract
<1>1. IInv /\ [LocalNext]_allVars =>
        [Contract!Next \/ \E r \in Restore : Contract!GiveUp(r)]_(Contract!vars)
  BY ContractStep
<1> QED BY <1>1, ContractInit, Inductive, PTL
        DEF LocalSpec, ImplementsContract, Contract!SharedSpec

(***************************************************************************)
(* One process alone.                                                      *)
(***************************************************************************)
\* No decision is pending when a restore is about to change the timeline.
Alone == \A p \in Proc : job[p].pc = "restore" => db.pending = None

LEMMA AloneStays ==
  ASSUME Proc = {Local}, IInv, Alone, [LocalNext]_allVars
  PROVE  Alone'
<1>1. IInv' /\ job \in [Proc -> JobType]
  BY NextKeeps, Parts
<1>2. SUFFICES ASSUME job'[Local].pc = "restore" PROVE db'.pending = None
  BY DEF Alone
<1>3. ASSUME job' = job, db'.pending = db.pending PROVE db'.pending = None
  BY <1>2, <1>3 DEF Alone
<1>4. ASSUME NEW out, Ended(Local, out) PROVE FALSE
  <2>1. job'[Local] = [Idle EXCEPT !.pc = "reply", !.req = job[Local].req, !.out = out]
    BY <1>1, <1>4 DEF Ended
  <2> QED BY <1>2, <2>1 DEF Idle
<1>5. ASSUME job' = [job EXCEPT ![Local] = Idle] PROVE FALSE
  <2>1. job'[Local] = Idle
    BY <1>1, <1>5
  <2> QED BY <1>2, <2>1 DEF Idle
<1>6. job'[Local].pc \notin Inside /\ lock' # Local
  BY <1>1, <1>2, Parts DEF IInv, LocalTypeOK, TypeOK, Inside
<1>7. ASSUME NEW k \in Request, Start(Local, k, asked[k].basis) PROVE FALSE
  <2>1. \/ job'[Local] = [Idle EXCEPT !.pc = "begin", !.req = k, !.basis = asked[k].basis,
                                      !.start = db.pos, !.pos = db.pos]
        \/ job'[Local] = [Idle EXCEPT !.pc = "reply", !.req = k, !.out = "error"]
    BY <1>1, <1>7 DEF Start
  <2> QED BY <1>2, <2>1 DEF Idle
<1>8. CASE UNCHANGED allVars
  BY <1>3, <1>8 DEF allVars
<1>9. CASE \E k \in Request : AskRemote(k) \/ Freeze(k) \/ Dispatch(k)
  <2> PICK k \in Request : AskRemote(k) \/ Freeze(k) \/ Dispatch(k)
    BY <1>9
  <2>1. CASE AskRemote(k)
    BY <1>3, <2>1 DEF AskRemote
  <2>2. CASE Freeze(k)
    <3>1. job'[Local] = [Idle EXCEPT !.pc = "frozen", !.req = k]
      BY <1>1, <2>2 DEF Freeze
    <3> QED BY <1>2, <3>1 DEF Idle
  <2>3. CASE Dispatch(k)
    <3>1. CASE Start(Local, k, FrozenBasis(k))
      BY <1>7, <3>1 DEF FrozenBasis
    <3>2. CASE job' = [job EXCEPT ![Local] = [Idle EXCEPT !.pc = "reply", !.req = k,
                                                         !.out = "error"]]
      <4>1. job'[Local] = [Idle EXCEPT !.pc = "reply", !.req = k, !.out = "error"]
        BY <1>1, <3>2
      <4> QED BY <1>2, <4>1 DEF Idle
    <3> QED BY <2>3, <3>1, <3>2 DEF Dispatch
  <2> QED BY <2>1, <2>2, <2>3
<1>10. CASE \E p \in Proc : (Step(p) \/ Crash(p)) /\ UNCHANGED kept
  <2>1. Step(Local) \/ Crash(Local)
    BY <1>10
  <2>2. CASE Crash(Local)
    BY <1>5, <2>2 DEF Crash
  <2>3. CASE BeginRestore(Local)
    BY <1>4, <2>3 DEF BeginRestore
  <2>4. CASE BeginCommand(Local)
    <3> DEFINE x == [job[Local] EXCEPT !.pc = "enter", !.rev = db.rev, !.arev = db.arev,
                                       !.cmd = job[Local].req]
    <3>1. job' = [job EXCEPT ![Local] = x]
      BY <1>4, <2>4 DEF BeginCommand
    <3>2. x.pc = "enter"
      BY <1>1 DEF JobType
    <3> HIDE DEF x
    <3> QED BY <1>1, <1>2, <3>1, <3>2
  <2>5. CASE BeginChoice(Local)
    <3> DEFINE k == job[Local].req
               x == [job[Local] EXCEPT !.pc = "enter", !.rev = db.rev, !.arev = db.arev,
                                       !.basis = db.rev, !.cmd = k.of,
                                       !.prefix = db.pending.draws, !.acts = Answered(k)]
    <3>1. job' = [job EXCEPT ![Local] = x]
      BY <1>4, <2>5 DEF BeginChoice
    <3>2. x.pc = "enter"
      BY <1>1 DEF JobType
    <3> HIDE DEF x
    <3> QED BY <1>1, <1>2, <3>1, <3>2
  <2>6. CASE Enter(Local)
    BY <1>4, <1>6, <2>6 DEF Enter
  <2>7. CASE Roll(Local) \/ Proceed(Local)
    <3>1. job[Local].pc \in Inside /\ lock' = lock
      BY <2>7 DEF Roll, Proceed, Inside
    <3> QED BY <1>6, <3>1, InsideIs
  <2>8. CASE Replay(Local)
    <3>1. job[Local].pc \in Inside
      BY <2>8 DEF Replay, MayDecide, MayInspire, MayResist, Inside
    <3>2. lock' = lock
      BY <1>4, <2>8 DEF Replay
    <3> QED BY <1>6, <3>1, <3>2, InsideIs
  <2>9. CASE Suspend(Local)
    <3> DEFINE j == job[Local]
               x == [Idle EXCEPT !.pc = "offer", !.req = j.req, !.start = j.start,
                                !.pos = j.pos, !.rev = j.rev, !.arev = j.arev,
                                !.cmd = j.cmd, !.drawn = j.drawn,
                                !.acts = Append(j.acts, NewDecision(j))]
    <3>1. job' = [job EXCEPT ![Local] = x]
      BY <2>9 DEF Suspend
    <3>2. x.pc = "offer"
      BY DEF Idle
    <3> HIDE DEF x
    <3> QED BY <1>1, <1>2, <3>1, <3>2
  <2>10. CASE RestoreSnapshot(Local) \/ Finish(Local) \/ Offer(Local)
    BY <1>4, <2>10 DEF RestoreSnapshot, Finish, Offer
  <2> QED BY <2>1, <2>2, <2>3, <2>4, <2>5, <2>6, <2>7, <2>8, <2>9, <2>10 DEF Step
<1>11. CASE Record
  BY <1>5, <1>11 DEF Record
<1>12. CASE WriteSheet /\ UNCHANGED kept
  <2>1. db \in [rev : Nat, arev : Nat, epoch : Nat, pos : Nat,
                uses : [Saver -> Nat], gift : SUBSET Saver,
                pending : Continuation \cup {None}]
    BY Parts DEF TypeOK
  <2> QED BY <1>3, <1>12, <2>1 DEF WriteSheet
<1> QED BY <1>8, <1>9, <1>10, <1>11, <1>12 DEF LocalNext, Server

\* One process keeps the whole contract: between the look of its own restore at the
\* pending decision and the restored campaign nobody commits, so that a new timeline
\* begins only while nothing waits.
THEOREM OneProcessKeepsTheWholeContract ==
  Proc = {Local} => (LocalSpec => ImplementsWholeContract)
<1> SUFFICES ASSUME Proc = {Local} PROVE LocalSpec => ImplementsWholeContract
  OBVIOUS
<1>1. LocalInit => Alone
  BY DEF LocalInit, Init, Alone, Idle
<1>2. IInv /\ Alone /\ [LocalNext]_allVars => Alone'
  BY AloneStays
<1>3. IInv /\ Alone /\ [LocalNext]_allVars => [Contract!Next]_(Contract!vars)
  BY ContractStep DEF Alone, RestoreSnapshot
<1> QED BY <1>1, <1>2, <1>3, ContractInit, Inductive, PTL
        DEF LocalSpec, ImplementsWholeContract, Contract!Spec

=============================================================================

--------------------------- MODULE NpcConversation ---------------------------
(***************************************************************************)
(* Durable NPC conversations: the journal of                               *)
(* packages/runtime/src/sagasmith_dnd_runtime/npc_conversations.py and the *)
(* handlers that drive it in services/continuity.py.                       *)
(*                                                                         *)
(* A conversation is one JSON file, replaced whole at every write.  A      *)
(* handler reads the file, compares the authority it was opened under with *)
(* the campaign database (require_fresh, which may save the file), reads   *)
(* the file again, changes the copy in memory and writes it back if the    *)
(* revision has not moved; closing commits to the database in between.     *)
(* Each of these accesses is an action here.  Within a server process a    *)
(* handler runs on the asyncio loop without an await, so handlers of ONE   *)
(* process never interleave; a process may die between two accesses, and   *)
(* processes that share the directory interleave freely.                   *)
(*                                                                         *)
(* uuid4 and lease ids are abstracted: an activation is its position in    *)
(* the journal and the lease of a claim is the claim's idempotency key.    *)
(* Only NPC participants appear: a player character has no runtime.        *)
(***************************************************************************)
EXTENDS Integers, SequencesExt

CONSTANTS
  Conv,       \* conversation ids
  Actor,      \* NPCs
  Proc,       \* server processes that share the journal directory
  Proposal,   \* bound: the proposals an NPC worker may submit
  MaxKey,     \* bound: idempotency keys, one for each new request
  MaxEvents,  \* MAX_CONVERSATION_EVENTS
  MaxRetry,   \* bound: requests sent again
  MaxChange,  \* bound: changes of the actors and the scene made elsewhere
  MayCrash,   \* may a process die between two file accesses?
  None,       \* no journal yet
  Removed     \* a journal cleanup_terminal_receipts unlinked

ASSUME BoundAssumption == /\ MaxKey \in Nat
                          /\ MaxEvents \in Nat
                          /\ MaxRetry \in Nat
                          /\ MaxChange \in Nat
                          /\ MayCrash \in BOOLEAN
ASSUME NoneAssumption == None # Removed /\ Removed \notin Conv /\ None \notin Conv

Key == 1 .. MaxKey  \* the client takes them in order; 0 is no key

VARIABLES
  journal,  \* the conversation files
  version,  \* revision, fact heads and knowledge heads of each actor
  fact,     \* the head of the actor's commitment in long-term memory, 0: none
  scene,    \* state_version of the current scene
  ledger,   \* the continuity commits, by idempotency key
  sent,     \* the request each key was used for
  job,      \* what each process is in the middle of
  lapsed,   \* the leases that have expired
  retries,  \* how many requests were sent again
  changes   \* how many changes were made elsewhere

vars == <<journal, version, fact, scene, ledger, sent, job, lapsed, retries, changes>>

-----------------------------------------------------------------------------
(* The journal. *)

Live(c) == journal[c] \notin {None, Removed}

ActiveStatus == {"open", "stale"}

\* What a proposal carries: words for the players, requests for a mechanic, and
\* a long-term change (a fact is upserted, knowledge is added).
ProposalType == [says: BOOLEAN, asks: BOOLEAN,
                 tells: {"none", "fact", "actor_knowledge"}]

ASSUME ProposalAssumption == Proposal \subseteq ProposalType
ASSUME ActorAssumption == IsFiniteSet(Actor)

\* Mutant: the missing lease is null.
NewActivationNullLease(a, runtime, old) ==
  [actor |-> a, runtime |-> runtime, status |-> "pending", lease |-> None,
   old |-> old, pub |-> "none", ask |-> "none", cand |-> "none",
   kind |-> "none", sourced |-> FALSE]

\* An activation and what its proposal left behind: a publication, resolution
\* requests and memory candidates, with the status each of them has.
NewActivation(a, runtime, old) ==
  [actor |-> a, runtime |-> runtime, status |-> "pending", lease |-> 0,
   old |-> old, pub |-> "none", ask |-> "none", cand |-> "none",
   kind |-> "none", sourced |-> FALSE]

Unfinished(x) == x.status \in {"pending", "claimed"}

Participants(s) == DOMAIN s.locks

\* Activations for the responding actors of S.
Activated(s, S) ==
  LET order == SetToSeq(S \cap Participants(s))
  IN  [n \in DOMAIN order |-> NewActivation(order[n], s.runtime[order[n]], 0)]

NewSession(S, k) ==
  [status |-> "open", rev |-> 0, scene |-> scene,
   locks |-> [a \in S |-> version[a]],
   runtime |-> [a \in S |-> [ver |-> version[a], at |-> 0]],
   acts |-> << >>, events |-> 0, idem |-> [x \in Key |-> 0], pend |-> 0,
   openKey |-> k]

\* Mutant: the other receipts are dropped by every write.
FinishedForgetting(s, k) ==
  [s EXCEPT !.rev = @ + 1, !.pend = 0,
            !.idem = [x \in Key |-> IF x = k THEN s.rev + 1 ELSE 0]]

\* finish_mutation: the next revision, the receipt of key k, and only that
\* receipt once the conversation is over (_compact_terminal_session).
Finished(s, k) ==
  LET done == [s EXCEPT !.rev = @ + 1, !.pend = 0, !.idem[k] = s.rev + 1]
  IN  IF s.status \in ActiveStatus THEN done
      ELSE [done EXCEPT !.acts = << >>, !.events = 0,
                        !.idem = [x \in Key |-> IF x = k THEN s.rev + 1 ELSE 0]]

\* _candidate_status = "available"
Available(x) ==
  /\ x.cand = "proposed"
  /\ x.pub \in {"none", "published"}
  /\ x.ask # "pending"

-----------------------------------------------------------------------------
(* require_fresh. *)

\* The participants whose revision, facts or knowledge have moved.
Moved(s) == {a \in Participants(s) : version[a] # s.locks[a]}

\* Mutant: the activation goes, what it said stays.
OutdatedWorkOnly(x, old) ==
  [x EXCEPT !.status = IF Unfinished(x) THEN "invalidated" ELSE @,
            !.lease  = IF Unfinished(x) THEN 0 ELSE @]

\* What becomes of an activation of a moved actor: unfinished work is
\* invalidated, and with it whatever of the old runtime is not public yet.
Outdated(x, old) ==
  LET unsaid(st, due) == IF x.runtime = old /\ st = due THEN "invalidated" ELSE st
  IN  [x EXCEPT !.status = IF Unfinished(x) THEN "invalidated" ELSE @,
                !.lease  = IF Unfinished(x) THEN 0 ELSE @,
                !.pub    = unsaid(@, "pending_audience"),
                !.ask    = unsaid(@, "pending"),
                !.cand   = IF x.sourced THEN @ ELSE unsaid(@, "proposed")]

\* Mutant: claimed work is not replaced.
LostPending(x, M) == x.actor \in M /\ x.status = "pending"

\* The work an activation of a moved actor still owed.
Lost(x, M) == x.actor \in M /\ Unfinished(x)

\* Places in the journal, first to last.
InOrder(I) ==
  CHOOSE f \in [1 .. Cardinality(I) -> I] : \A m, n \in DOMAIN f : m < n => f[m] < f[n]

\* New runtimes for the moved actors and one replacement for every activation
\* they had not finished.
Refreshed(s) ==
  LET M == Moved(s)
      runtime == [a \in Participants(s) |->
                    IF a \in M THEN [ver |-> version[a], at |-> s.rev + 1]
                    ELSE s.runtime[a]]
      lost == InOrder({i \in DOMAIN s.acts : Lost(s.acts[i], M)})
  IN  [s EXCEPT
        !.locks = [a \in Participants(s) |-> version[a]],
        !.runtime = runtime,
        !.acts = [i \in DOMAIN s.acts |->
                    IF s.acts[i].actor \in M
                    THEN Outdated(s.acts[i], s.runtime[s.acts[i].actor])
                    ELSE s.acts[i]]
                 \o [n \in DOMAIN lost |->
                       NewActivation(s.acts[lost[n]].actor,
                                     runtime[s.acts[lost[n]].actor], lost[n])]]

-----------------------------------------------------------------------------
(* Requests and the processes that serve them. *)

Ask(op, c) ==
  [op |-> op, conv |-> c, exp |-> 0, act |-> 0, lease |-> 0, who |-> {},
   picks |-> {}, proposal |-> [says |-> FALSE, asks |-> FALSE, tells |-> "none"]]

\* A request about an activation, under a lease; one that names actors and picks.
About(q, i, k) == [q EXCEPT !.act = i, !.lease = k]
Naming(q, R, T) == [q EXCEPT !.who = R, !.picks = T]

ClaimsOf(c, i) ==
  {k \in Key : sent[k] # None /\ sent[k].op = "claim" /\ sent[k].conv = c
               /\ sent[k].act = i}

\* What a client that has seen the conversation asks of it; Retry repeats a
\* request when the conversation has moved on.
Requests(c) ==
  LET s == journal[c]
      base(op) == [Ask(op, c) EXCEPT !.exp = s.rev]
      held == {i \in DOMAIN s.acts : s.acts[i].status = "claimed"}
      due == {i \in DOMAIN s.acts : Unfinished(s.acts[i])}
      unsaid == {i \in DOMAIN s.acts : s.acts[i].pub = "pending_audience"}
      asked == {i \in DOMAIN s.acts : s.acts[i].ask = "pending"}
      proposed == {i \in DOMAIN s.acts : s.acts[i].cand = "proposed"}
  IN  {Naming(base("ingest"), R, T) : R \in SUBSET Participants(s), T \in SUBSET asked}
      \cup {About(base("claim"), i, 0) : i \in due}
      \cup (UNION {{[About(base("submit"), i, k) EXCEPT !.proposal = r] :
                       k \in ClaimsOf(c, i), r \in Proposal} : i \in held})
      \cup (UNION {{About(base("cancel"), i, k) : k \in ClaimsOf(c, i)} : i \in held})
      \cup {Naming(About(base("publish"), i, 0), R, {}) :
              i \in unsaid, R \in SUBSET Participants(s)}
      \cup {Naming(base("close"), {}, T) : T \in SUBSET proposed}
      \cup {base("abort")}

Idle == [pc |-> "idle", op |-> "none", conv |-> None, key |-> 0, exp |-> 0,
         copy |-> None]

Jobs == <<job>>
Store == <<journal>>
World == <<version, fact, scene, changes>>
Client == <<sent, lapsed, retries>>

Answered(p) == job' = [job EXCEPT ![p] = Idle]

\* Mutant: abort does not look at the status.
PrepareAnyStatus(q, k, e) ==
  LET s == journal[q.conv]
      at(pc, copy) == [pc |-> pc, op |-> q.op, conv |-> q.conv, key |-> k,
                       exp |-> e, copy |-> copy]
  IN  IF q.op \in {"cancel", "abort"} THEN at("begin", None)
      ELSE IF q.op = "close" THEN at("fresh", [s EXCEPT !.pend = k])
      ELSE at("fresh", s)

\* The first access of a handler: require_owner reads the journal; close calls
\* begin_mutation at once, abort refuses a closed conversation.
Prepare(q, k, e) ==
  LET s == journal[q.conv]
      at(pc, copy) == [pc |-> pc, op |-> q.op, conv |-> q.conv, key |-> k,
                       exp |-> e, copy |-> copy]
  IN  CASE q.op = "cancel" -> at("begin", None)
        [] q.op = "abort" -> IF s.status = "closed" THEN Idle ELSE at("begin", None)
        [] q.op = "close" -> IF s.idem[k] # 0 \/ s.rev # e THEN Idle
                             ELSE at("fresh", [s EXCEPT !.pend = k])
        [] OTHER -> at("fresh", s)

-----------------------------------------------------------------------------
Init ==
  /\ journal = [c \in Conv |-> None]
  /\ version = [a \in Actor |-> 0]
  /\ fact = [a \in Actor |-> 0]
  /\ scene = 0
  /\ ledger = [k \in Key |-> None]
  /\ sent = [k \in Key |-> None]
  /\ job = [p \in Proc |-> Idle]
  /\ lapsed = {}
  /\ retries = 0
  /\ changes = 0

\* A new request, under the next key.
Send(p, k, q) ==
  /\ job[p] = Idle
  /\ sent[k] = None
  /\ \A x \in 1 .. k - 1 : sent[x] # None
  /\ Prepare(q, k, q.exp) # Idle
  /\ sent' = [sent EXCEPT ![k] = q]
  /\ job' = [job EXCEPT ![p] = Prepare(q, k, q.exp)]
  /\ UNCHANGED <<Store, World, ledger, lapsed, retries>>

\* The answer was lost, or was a conflict: the same request again under the same
\* key, expecting the same revision or the current one.
Retry(p, k) ==
  /\ job[p] = Idle
  /\ retries < MaxRetry
  /\ retries' = retries + 1
  /\ sent[k] # None
  /\ sent[k].op # "open"
  /\ Live(sent[k].conv)
  /\ \E e \in {sent[k].exp, journal[sent[k].conv].rev} :
       /\ Prepare(sent[k], k, e) # Idle
       /\ job' = [job EXCEPT ![p] = Prepare(sent[k], k, e)]
  /\ UNCHANGED <<Store, World, ledger, sent, lapsed>>

\* npc_conversation(get): a read that refreshes an open conversation.
Look(p, c) ==
  /\ job[p] = Idle
  /\ Live(c)
  /\ journal[c].status = "open"
  /\ job' = [job EXCEPT ![p] = [pc |-> "fresh", op |-> "get", conv |-> c,
                                key |-> 0, exp |-> 0, copy |-> journal[c]]]
  /\ UNCHANGED <<Store, World, Client, ledger>>

-----------------------------------------------------------------------------
(* Opening. *)

\* npc_conversation(open) of the actors S: the authority is read first.  A new
\* request takes the next key, a retry the key it had.
Open(p, k, S) ==
  /\ job[p] = Idle
  /\ S # {}
  /\ \/ /\ sent[k] = None
        /\ \A x \in 1 .. k - 1 : sent[x] # None
        /\ sent' = [sent EXCEPT ![k] = [Ask("open", None) EXCEPT !.who = S]]
        /\ UNCHANGED retries
     \/ /\ sent[k] # None
        /\ sent[k].op = "open"
        /\ sent[k].who = S
        /\ retries < MaxRetry
        /\ retries' = retries + 1
        /\ UNCHANGED sent
  /\ job' = [job EXCEPT ![p] = [Idle EXCEPT !.pc = "scan", !.op = "open",
                                            !.key = k, !.copy = NewSession(S, k)]]
  /\ UNCHANGED <<Store, World, ledger, lapsed>>

\* Mutant: only an open conversation holds its participants.
TakenByOpen(S) ==
  \E c \in Conv : /\ Live(c)
                  /\ journal[c].status = "open"
                  /\ Participants(journal[c]) \cap S # {}

Taken(S) ==
  \E c \in Conv : /\ Live(c)
                  /\ journal[c].status \in ActiveStatus
                  /\ Participants(journal[c]) \cap S # {}

\* The scan of ConversationStore.open: a journal this key opened is the answer,
\* an actor of an active conversation a refusal.
OpenScan(p) ==
  LET s == job[p].copy
      known == \E c \in Conv : Live(c) /\ journal[c].openKey = job[p].key
  IN  /\ job[p].pc = "scan"
      /\ IF known \/ Taken(Participants(s)) THEN Answered(p)
         ELSE job' = [job EXCEPT ![p].pc = "create"]
      /\ UNCHANGED <<Store, World, Client, ledger>>

OpenWrite(p, c) ==
  /\ job[p].pc = "create"
  /\ journal[c] = None
  /\ journal' = [journal EXCEPT ![c] = job[p].copy]
  /\ Answered(p)
  /\ UNCHANGED <<World, Client, ledger>>

-----------------------------------------------------------------------------
(* The freshness check. *)

\* The scene, or the branch, is not the one the conversation was opened in.
Stale(s) == scene # s.scene

\* Mutant: a stale conversation is checked again.
CheckedAgain(s) == s.status \in ActiveStatus

\* Only an open conversation goes on; stale and ended ones are refused.
Checked(s) == s.status = "open"

\* npc_conversation_require_fresh on the copy read earlier.  A changed scene
\* makes the conversation stale and refuses; a moved actor is refreshed in the
\* copy, which is saved without looking at the file again.
Fresh(p) ==
  LET s == job[p].copy
      c == job[p].conv
      t == IF Moved(s) = {} THEN s ELSE [Refreshed(s) EXCEPT !.rev = @ + 1]
      next == CASE job[p].op = "get" -> Idle
                [] job[p].op = "close" -> [job[p] EXCEPT !.pc = "commit", !.copy = t]
                [] OTHER -> [job[p] EXCEPT !.pc = "begin", !.copy = None]
  IN  /\ job[p].pc = "fresh"
      /\ \/ /\ ~Checked(s)
            /\ Answered(p)
            /\ UNCHANGED journal
         \/ /\ Checked(s)
            /\ Stale(s)
            /\ journal' = [journal EXCEPT ![c] = [Refreshed(s) EXCEPT !.status = "stale"]]
            /\ Answered(p)
         \/ /\ Checked(s)
            /\ ~Stale(s)
            /\ journal' = IF Moved(s) = {} THEN journal
                          ELSE [journal EXCEPT ![c] = t]
            /\ job' = [job EXCEPT ![p] = next]
      /\ UNCHANGED <<World, Client, ledger>>

-----------------------------------------------------------------------------
(* The mutations.  begin_mutation reads the file again: a receipt of the key   *)
(* is the answer, another revision than the expected one a conflict.           *)

Serving(p, op) == job[p].pc = "begin" /\ job[p].op = op

Now(p) == journal[job[p].conv]

\* Mutant: the receipt is not looked up.
AdmittedAgain(p) == Live(job[p].conv) /\ Now(p).rev = job[p].exp

\* begin_mutation lets the write go on.
Admitted(p) ==
  /\ Live(job[p].conv)
  /\ Now(p).idem[job[p].key] = 0
  /\ Now(p).rev = job[p].exp

\* The mutation changed the copy to s, or was refused.
Mutation(p, accepted, s) ==
  /\ IF Admitted(p) /\ accepted
     THEN job' = [job EXCEPT ![p].pc = "finish", ![p].copy = s]
     ELSE Answered(p)
  /\ UNCHANGED <<Store, World, Client, ledger>>

\* append_event: one event, the resolutions it settles, and an activation for
\* every responder.
Ingest(p) ==
  LET q == sent[job[p].key]
      s == Now(p)
  IN  /\ Serving(p, "ingest")
      /\ Mutation(p,
           /\ s.status = "open"
           /\ s.events < MaxEvents
           /\ \A i \in q.picks : i \in DOMAIN s.acts /\ s.acts[i].ask = "pending",
           [s EXCEPT
              !.events = @ + 1,
              !.acts = [i \in DOMAIN s.acts |->
                          IF i \in q.picks
                          THEN [s.acts[i] EXCEPT !.ask = "resolved",
                                                 !.sourced = (s.acts[i].cand # "none")]
                          ELSE s.acts[i]]
                       \o Activated(s, q.who)])

Leased(x) == x.lease # 0 /\ x.lease \notin lapsed

\* checkout: a lease on an activation nobody holds.
Claim(p) ==
  LET q == sent[job[p].key]
      s == Now(p)
  IN  /\ Serving(p, "claim")
      /\ Mutation(p,
           /\ q.act \in DOMAIN s.acts
           /\ s.acts[q.act].status \notin {"invalidated", "completed"}
           /\ ~Leased(s.acts[q.act]),
           [s EXCEPT !.acts[q.act].lease = job[p].key,
                     !.acts[q.act].status = "claimed"])

\* Mutant: whoever ever claimed the activation holds it.
HoldsClaimed(x, k) == x.status = "claimed"

\* The lease id presented is the one on the activation.
Holds(x, k) == x.lease = k

\* submit: the holder of a live lease completes the activation.  A proposal with
\* nothing in it is a pass; one that fails validation changes nothing.
Submit(p) ==
  LET q == sent[job[p].key]
      s == Now(p)
      r == q.proposal
  IN  /\ Serving(p, "submit")
      /\ Mutation(p,
           /\ q.act \in DOMAIN s.acts
           /\ Holds(s.acts[q.act], q.lease)
           /\ q.lease \notin lapsed,
           [s EXCEPT !.acts[q.act] =
              [@ EXCEPT !.status = "completed", !.lease = 0,
                        !.pub  = IF r.says THEN "pending_audience" ELSE "none",
                        !.ask  = IF r.asks THEN "pending" ELSE "none",
                        !.cand = IF r.tells # "none" THEN "proposed" ELSE "none",
                        !.kind = r.tells]])

\* cancel_activation: the host gives the lease back.
Cancel(p) ==
  LET q == sent[job[p].key]
      s == Now(p)
  IN  /\ Serving(p, "cancel")
      /\ Mutation(p,
           /\ q.act \in DOMAIN s.acts
           /\ Holds(s.acts[q.act], q.lease),
           [s EXCEPT !.acts[q.act].lease = 0, !.acts[q.act].status = "pending"])

\* publish: the words become an event the responders must answer, except the
\* speaker; the candidates of the publication get their source.
Publish(p) ==
  LET q == sent[job[p].key]
      s == Now(p)
  IN  /\ Serving(p, "publish")
      /\ Mutation(p,
           /\ q.act \in DOMAIN s.acts
           /\ s.acts[q.act].pub = "pending_audience"
           /\ s.events < MaxEvents,
           [s EXCEPT
              !.events = @ + 1,
              !.acts = [@ EXCEPT ![q.act].pub = "published",
                                 ![q.act].sourced = (s.acts[q.act].cand # "none")]
                       \o Activated(s, q.who \ {s.acts[q.act].actor})])

\* npc_conversation_abort_impl: the draft is discarded.
Abort(p) ==
  LET s == Now(p)
  IN  /\ Serving(p, "abort")
      /\ Mutation(p, TRUE, [s EXCEPT !.status = "aborted"])

-----------------------------------------------------------------------------
(* Closing: the database commit and the end of every mutation. *)

Speakers(s, picks, tells) ==
  {s.acts[i].actor : i \in {x \in picks : s.acts[x].kind \in tells}}

\* The logical request of the continuity commit: the transcript, the counts its
\* event reports, and the accepted candidates; an accepted fact names the head
\* it revises when there is one (expected_revision_id).
CommitPayload(p) ==
  LET s == job[p].copy
      q == sent[job[p].key]
      count(st) == Cardinality({i \in DOMAIN s.acts : st[i]})
  IN  [conv |-> job[p].conv, events |-> s.events, picks |-> q.picks,
       pubs |-> count([i \in DOMAIN s.acts |-> s.acts[i].pub # "none"]),
       asks |-> count([i \in DOMAIN s.acts |-> s.acts[i].ask = "pending"]),
       heads |-> [a \in Actor |-> IF a \in Speakers(s, q.picks, {"fact"})
                                  THEN fact[a] ELSE 0]]

\* Mutant: output nobody has seen does not hold up the close.
ClosableUnpublished(s, picks) ==
  /\ \A i \in DOMAIN s.acts : ~Unfinished(s.acts[i])
  /\ \A i \in picks : i \in DOMAIN s.acts /\ s.acts[i].cand = "proposed"

\* What close requires of the journal and of the accepted candidates.
Closable(s, picks) ==
  /\ \A i \in DOMAIN s.acts : /\ ~Unfinished(s.acts[i])
                              /\ s.acts[i].pub # "pending_audience"
  /\ \A i \in picks : i \in DOMAIN s.acts /\ Available(s.acts[i])

\* continuity_commit, idempotent by key: a commit of the same request is
\* replayed, of another one refused.  The commit moves the heads of the actors
\* it writes about.  The database may refuse it.
Commit(p) ==
  LET s == job[p].copy
      k == job[p].key
      picks == sent[k].picks
      closed == job' = [job EXCEPT ![p].pc = "finish", ![p].copy.status = "closed"]
  IN  /\ job[p].pc = "commit"
      /\ \/ /\ ~Closable(s, picks)
            /\ Answered(p)
            /\ UNCHANGED <<ledger, version, fact>>
         \/ /\ Closable(s, picks)
            /\ ledger[k] = None
            /\ ledger' = [ledger EXCEPT ![k] = CommitPayload(p)]
            /\ version' = [a \in Actor |->
                 IF a \in Speakers(s, picks, {"fact", "actor_knowledge"})
                 THEN version[a] + 1 ELSE version[a]]
            /\ fact' = [a \in Actor |-> IF a \in Speakers(s, picks, {"fact"})
                                        THEN k ELSE fact[a]]
            /\ closed
         \/ /\ Closable(s, picks)
            /\ ledger[k] = None
            /\ Answered(p)
            /\ UNCHANGED <<ledger, version, fact>>
         \/ /\ Closable(s, picks)
            /\ ledger[k] = CommitPayload(p)
            /\ closed
            /\ UNCHANGED <<ledger, version, fact>>
         \/ /\ Closable(s, picks)
            /\ ledger[k] \notin {None, CommitPayload(p)}
            /\ Answered(p)
            /\ UNCHANGED <<ledger, version, fact>>
      /\ UNCHANGED <<Store, sent, lapsed, retries, scene, changes>>

\* finish_mutation reads the file a last time and compares the revisions ...
Finish(p) ==
  LET c == job[p].conv
  IN  /\ job[p].pc = "finish"
      /\ IF Live(c) /\ journal[c].rev = job[p].copy.rev
         THEN job' = [job EXCEPT ![p].pc = "write"]
         ELSE Answered(p)
      /\ UNCHANGED <<Store, World, Client, ledger>>

\* ... and _write replaces it.
Write(p) ==
  /\ job[p].pc = "write"
  /\ journal' = [journal EXCEPT ![job[p].conv] = Finished(job[p].copy, job[p].key)]
  /\ Answered(p)
  /\ UNCHANGED <<World, Client, ledger>>

-----------------------------------------------------------------------------
(* What happens around the conversations. *)

\* Another operation, served by an idle process, changes an actor ...
ActorChange(a) ==
  /\ \E p \in Proc : job[p] = Idle
  /\ changes < MaxChange
  /\ changes' = changes + 1
  /\ version' = [version EXCEPT ![a] = @ + 1]
  /\ UNCHANGED <<Store, Jobs, Client, ledger, fact, scene>>

\* ... or moves the party to another scene or branch, or back: only the way out
\* counts against MaxChange.
SceneChange ==
  /\ \E p \in Proc : job[p] = Idle
  /\ scene' = 1 - scene
  /\ scene = 0 => changes < MaxChange
  /\ changes' = changes + scene'
  /\ UNCHANGED <<Store, Jobs, Client, ledger, fact, version>>

\* lease_ttl_s has passed.
Lapse(k) ==
  /\ sent[k] # None
  /\ sent[k].op = "claim"
  /\ Live(sent[k].conv)
  /\ \E i \in DOMAIN journal[sent[k].conv].acts :
       journal[sent[k].conv].acts[i].lease = k
  /\ lapsed' = lapsed \cup {k}
  /\ UNCHANGED <<Store, World, Jobs, ledger, sent, retries>>

\* The process dies; what it held in memory is lost.
Crash(p) ==
  /\ MayCrash
  /\ job[p] # Idle
  /\ Answered(p)
  /\ UNCHANGED <<Store, World, Client, ledger>>

\* cleanup_terminal_receipts, when a server starts: a journal that ended more
\* than thirty days ago goes.
Cleanup(c) ==
  /\ \E p \in Proc : job[p] = Idle
  /\ Live(c)
  /\ journal[c].status \notin ActiveStatus
  /\ journal' = [journal EXCEPT ![c] = Removed]
  /\ UNCHANGED <<World, Jobs, Client, ledger>>

Serve(p) ==
  \/ OpenScan(p) \/ \E c \in Conv : OpenWrite(p, c)
  \/ Fresh(p)
  \/ Ingest(p) \/ Claim(p) \/ Submit(p) \/ Cancel(p) \/ Publish(p) \/ Abort(p)
  \/ Commit(p) \/ Finish(p) \/ Write(p)

Next ==
  \/ \E p \in Proc :
       \/ \E k \in Key, S \in SUBSET Actor : Open(p, k, S)
       \/ \E c \in Conv : Live(c) /\ \E k \in Key, q \in Requests(c) : Send(p, k, q)
       \/ \E k \in Key : Retry(p, k)
       \/ \E c \in Conv : Look(p, c)
       \/ Serve(p)
       \/ Crash(p)
  \/ \E a \in Actor : ActorChange(a)
  \/ SceneChange
  \/ \E k \in Key : Lapse(k)
  \/ \E c \in Conv : Cleanup(c)

Spec == Init /\ [][Next]_vars

-----------------------------------------------------------------------------
(* Properties. *)

ActivationType ==
  [actor: Actor, runtime: [ver: Nat, at: Nat],
   status: {"pending", "claimed", "completed", "invalidated"},
   lease: Key \cup {0}, old: Nat,
   pub: {"none", "pending_audience", "published", "invalidated"},
   ask: {"none", "pending", "resolved", "invalidated"},
   cand: {"none", "proposed", "invalidated"},
   kind: {"none", "fact", "actor_knowledge"}, sourced: BOOLEAN]

\* A journal of the participants S.
SessionType(S) ==
  [status: {"open", "stale", "closed", "aborted"}, rev: Nat, scene: Nat,
   locks: [S -> Nat], runtime: [S -> [ver: Nat, at: Nat]],
   acts: Seq(ActivationType), events: Nat, idem: [Key -> Nat],
   pend: Key \cup {0}, openKey: Key]

IsSession(s) == \E S \in SUBSET Actor : s \in SessionType(S)

RequestType ==
  [op: {"open", "ingest", "claim", "submit", "cancel", "publish", "close", "abort"},
   conv: Conv \cup {None}, exp: Nat, act: Nat, lease: Key \cup {0},
   who: SUBSET Actor, picks: SUBSET Nat, proposal: ProposalType]

CommitType == [conv: Conv, events: Nat, picks: SUBSET Nat, pubs: Nat, asks: Nat,
               heads: [Actor -> Key \cup {0}]]

\* What stands for absence is no record.
ASSUME NoneIsNoRecord == /\ None \notin RequestType /\ None \notin CommitType
                         /\ ~IsSession(None) /\ ~IsSession(Removed)

\* Every variable has its type.
TypeOK ==
  /\ \A c \in Conv : Live(c) => IsSession(journal[c])
  /\ version \in [Actor -> Nat]
  /\ fact \in [Actor -> Key \cup {0}]
  /\ scene \in {0, 1}
  /\ \A k \in Key : ledger[k] # None => ledger[k] \in CommitType
  /\ \A k \in Key : sent[k] # None => sent[k] \in RequestType
  /\ \A p \in Proc :
       /\ job[p].pc \in {"idle", "scan", "create", "fresh", "begin", "commit",
                         "finish", "write"}
       /\ job[p].pc \in {"scan", "create", "fresh", "commit", "finish", "write"} =>
            IsSession(job[p].copy)
       /\ job[p].pc \in {"fresh", "begin", "commit", "finish", "write"} =>
            job[p].conv \in Conv
  /\ lapsed \subseteq Key
  /\ changes \in 0 .. MaxChange

Active(c) == Live(c) /\ journal[c].status \in ActiveStatus

\* The receipts of conversation c for an operation op.
Receipts(c, op) ==
  {k \in Key : sent[k] # None /\ sent[k].op \in op /\ journal[c].idem[k] # 0}

\* The journal of an active conversation holds exactly what its receipts say was
\* done: an event for each ingest and publish, a completed activation for each
\* submit, a published output for each publish; nothing twice, nothing lost.
EffectsReceipted ==
  \A c \in Conv : Active(c) =>
    LET s == journal[c]
        of(op, i) == {k \in Receipts(c, {op}) : sent[k].act = i}
    IN  /\ s.events = Cardinality(Receipts(c, {"ingest", "publish"}))
        /\ \A i \in DOMAIN s.acts :
             /\ Cardinality(of("submit", i)) =
                  IF s.acts[i].status = "completed" THEN 1 ELSE 0
             /\ Cardinality(of("publish", i)) =
                  IF s.acts[i].pub = "published" THEN 1 ELSE 0

\* A proposal is taken only from the host that claimed the activation last: no
\* claim of it lies between that host's claim and its submit, however leases
\* expired, were given back or were replayed.
LastClaimantSpeaks ==
  \A c \in Conv : Active(c) =>
    \A k \in Receipts(c, {"submit"}) :
      LET at(x) == journal[c].idem[x]
          claims == {x \in Receipts(c, {"claim"}) : sent[x].act = sent[k].act}
      IN  /\ sent[k].lease \in claims
          /\ \A x \in claims : at(x) <= at(sent[k].lease) /\ at(x) < at(k)

\* The answer an NPC owes survives a refresh of the NPC, once: an invalidated
\* activation has exactly one replacement, for the same actor.
ReplacedOnce ==
  \A c \in Conv : Active(c) =>
    LET acts == journal[c].acts
    IN  \A i \in DOMAIN acts :
          /\ acts[i].status = "invalidated" =>
               Cardinality({j \in DOMAIN acts : acts[j].old = i}) = 1
          /\ acts[i].old # 0 =>
               /\ acts[acts[i].old].status = "invalidated"
               /\ acts[acts[i].old].actor = acts[i].actor

\* An actor takes part in at most one active conversation.
OneConversationEach ==
  \A c, d \in Conv : c # d /\ Active(c) /\ Active(d) =>
    Participants(journal[c]) \cap Participants(journal[d]) = {}

\* A conversation whose transcript was committed is not aborted: "a committed
\* conversation cannot be aborted" (npc_conversation_abort_impl).
CommittedNotAborted ==
  \A c \in Conv, k \in Key :
    Live(c) /\ ledger[k] # None /\ ledger[k].conv = c => journal[c].status # "aborted"

\* A receipt stays, with the same answer, for as long as the conversation is
\* active: a retry is answered as the request was.
ReceiptsKept ==
  [][\A c \in Conv : Active(c) /\ Active(c)' =>
       \A k \in Key : journal[c].idem[k] # 0 =>
         journal[c].idem[k] = journal'[c].idem[k]]_vars

\* What handler q is about to commit was witnessed by the players, or was proposed
\* by an NPC that is still as it was when it was asked.
PicksAreCurrent(q) ==
  \A i \in sent[job[q].key].picks :
    LET x == job[q].copy.acts[i]
    IN  x.sourced \/ x.runtime.ver = version[x.actor]

\* A long-term change the players have not witnessed is committed only while the
\* NPC that proposed it is as it was.
CommittedIsCurrent ==
  [][\A q \in Proc : job[q].pc = "commit" /\ ledger'[job[q].key] # ledger[job[q].key] =>
       PicksAreCurrent(q)]_vars

\* A conversation ends as closed only with its whole transcript in the database,
\* and with no output or activation left over that nobody saw.
ClosedIsCommitted ==
  [][\A c \in Conv : Active(c) /\ Live(c)' /\ journal'[c].status = "closed" =>
       /\ \E k \in Key : /\ journal'[c].idem[k] # 0
                         /\ ledger[k] # None
                         /\ ledger[k].conv = c
                         /\ ledger[k].events = journal[c].events
       /\ \A i \in DOMAIN journal[c].acts :
            /\ ~Unfinished(journal[c].acts[i])
            /\ journal[c].acts[i].pub # "pending_audience"]_vars

\* A stale conversation says nothing more: it can only be aborted.
StaleIsSilent ==
  [][\A c \in Conv : Live(c) /\ journal[c].status = "stale" =>
       /\ Live(c)'
       /\ journal'[c].status \in {"stale", "aborted"}
       /\ journal'[c].events <= journal[c].events
       /\ Active(c)' => \A i \in DOMAIN journal[c].acts :
            journal'[c].acts[i].status \in {journal[c].acts[i].status, "pending"}]_vars

=============================================================================

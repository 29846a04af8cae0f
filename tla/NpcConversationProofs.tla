------------------------ MODULE NpcConversationProofs ------------------------
(***************************************************************************)
(* Proofs about NpcConversation.  Every variable keeps its type for any     *)
(* number of server processes.  The rest is about one process, for any      *)
(* number of conversations, actors, requests, retries and crashes: with two *)
(* the journal can be overwritten.                                         *)
(*                                                                         *)
(* What makes a journal sound is said of a session value and of the         *)
(* requests sent, so that it can be said of the file and of the copy a      *)
(* handler works on alike.  A handler's copy is the file, then a draft of   *)
(* the one mutation it serves; writing a draft of a sound journal leaves a  *)
(* sound journal.                                                          *)
(***************************************************************************)
EXTENDS NpcConversation, FiniteSetTheorems, SequenceTheorems, TLAPS

Ops == {"open", "ingest", "claim", "submit", "cancel", "publish", "close", "abort"}

(***************************************************************************)
(* Sound journals.  "asked" stands for sent.                               *)
(***************************************************************************)
\* The keys of the operations ops whose receipt the journal s holds.
Done(s, asked, ops) ==
  {k \in Key : asked[k] # None /\ asked[k].op \in ops /\ s.idem[k] # 0}

DoneOn(s, asked, op, i) == {k \in Done(s, asked, {op}) : asked[k].act = i}

\* An activation belongs to a participant, is leased exactly while it is claimed,
\* and is of the actor's current runtime while it is owed, or while what it
\* proposes has no source yet.
WorkOf(s, x) ==
  /\ x.actor \in Participants(s)
  /\ (x.lease # 0) <=> (x.status = "claimed")
  /\ Unfinished(x) => x.pub = "none" /\ x.runtime = s.runtime[x.actor]
  /\ x.cand = "proposed" /\ ~x.sourced => x.runtime = s.runtime[x.actor]

Works(s) == \A i \in DOMAIN s.acts : WorkOf(s, s.acts[i])

Locked(s) == \A a \in Participants(s) : s.runtime[a].ver = s.locks[a]

\* A receipt names the revision its request produced.
Numbered(s) == \A k \in Key : s.idem[k] <= s.rev

\* The lease of a claimed activation is the last claim of it.
Leases(s, asked) ==
  \A i \in DOMAIN s.acts : s.acts[i].status = "claimed" =>
    /\ s.acts[i].lease \in DoneOn(s, asked, "claim", i)
    /\ \A k \in DoneOn(s, asked, "claim", i) : s.idem[k] <= s.idem[s.acts[i].lease]

\* Receipts are of activations the journal has.
Placed(s, asked) ==
  \A k \in Done(s, asked, {"submit", "publish"}) : asked[k].act \in DOMAIN s.acts

\* The effects and the receipts are the same (EffectsReceipted).
Counted(s, asked) ==
  /\ s.events = Cardinality(Done(s, asked, {"ingest", "publish"}))
  /\ \A i \in DOMAIN s.acts :
       /\ Cardinality(DoneOn(s, asked, "submit", i)) =
            IF s.acts[i].status = "completed" THEN 1 ELSE 0
       /\ Cardinality(DoneOn(s, asked, "publish", i)) =
            IF s.acts[i].pub = "published" THEN 1 ELSE 0

\* A proposal comes from the last claim of its activation (LastClaimantSpeaks).
Spoken(s, asked) ==
  \A k \in Done(s, asked, {"submit"}) :
    LET claims == DoneOn(s, asked, "claim", asked[k].act)
    IN  /\ asked[k].lease \in claims
        /\ \A x \in claims : s.idem[x] <= s.idem[asked[k].lease] /\ s.idem[x] < s.idem[k]

\* An invalidated activation has one replacement, of the same actor.
Replaced(s) ==
  \A i \in DOMAIN s.acts :
    /\ s.acts[i].status = "invalidated" =>
         \E j \in DOMAIN s.acts : \A n \in DOMAIN s.acts : s.acts[n].old = i <=> n = j
    /\ s.acts[i].old # 0 =>
         /\ s.acts[i].old \in DOMAIN s.acts
         /\ s.acts[s.acts[i].old].status = "invalidated"
         /\ s.acts[s.acts[i].old].actor = s.acts[i].actor

Sound(s, asked) ==
  /\ Works(s) /\ Locked(s) /\ Numbered(s)
  /\ Leases(s, asked) /\ Placed(s, asked) /\ Counted(s, asked) /\ Spoken(s, asked)
  /\ Replaced(s)

(***************************************************************************)
(* Drafts: the copy t a mutation under key k, asked for by q, makes of s.   *)
(***************************************************************************)
\* Everything but the status, the transcript, the activations and pend.
Frame(s, t) ==
  /\ t.rev = s.rev /\ t.scene = s.scene /\ t.locks = s.locks /\ t.runtime = s.runtime
  /\ t.idem = s.idem /\ t.openKey = s.openKey

\* Everything but pend.
Alike(s, t) ==
  Frame(s, t) /\ t.status = s.status /\ t.acts = s.acts /\ t.events = s.events

SameWork(x, y) == y.actor = x.actor /\ y.runtime = x.runtime /\ y.old = x.old

\* What a resolved request changes of its activation, or nothing.
Settled(x, y) ==
  /\ SameWork(x, y) /\ y.status = x.status /\ y.lease = x.lease /\ y.pub = x.pub
  /\ y.cand = "proposed" /\ ~y.sourced => x.cand = "proposed" /\ ~x.sourced

NewWork(s, y) ==
  /\ y.actor \in Participants(s) /\ y.runtime = s.runtime[y.actor]
  /\ y.status = "pending" /\ y.lease = 0 /\ y.old = 0 /\ y.pub = "none" /\ y.cand = "none"

\* Activations may be added; those there were, but the ones in I, keep their work.
Grown(s, t, I) ==
  /\ DOMAIN s.acts \subseteq DOMAIN t.acts
  /\ \A i \in DOMAIN s.acts : i \notin I => Settled(s.acts[i], t.acts[i])
  /\ \A i \in DOMAIN t.acts : i \notin DOMAIN s.acts => NewWork(s, t.acts[i])

Ingested(s, t) ==
  s.status = "open" /\ t.status = "open" /\ t.events = s.events + 1 /\ Grown(s, t, {})

Published(s, t, i) ==
  /\ s.status = "open" /\ t.status = "open" /\ t.events = s.events + 1
  /\ Grown(s, t, {i}) /\ i \in DOMAIN s.acts
  /\ s.acts[i].pub = "pending_audience" /\ t.acts[i].pub = "published"
  /\ SameWork(s.acts[i], t.acts[i])
  /\ t.acts[i].status = s.acts[i].status /\ t.acts[i].lease = s.acts[i].lease
  /\ ~(t.acts[i].cand = "proposed" /\ ~t.acts[i].sourced)

\* One activation changes, the transcript does not.
Worked(s, t, i) ==
  /\ t.status = s.status /\ t.events = s.events /\ DOMAIN t.acts = DOMAIN s.acts
  /\ i \in DOMAIN s.acts /\ SameWork(s.acts[i], t.acts[i])
  /\ \A n \in DOMAIN s.acts : n # i => t.acts[n] = s.acts[n]

Claimed(s, t, i, k) ==
  /\ s.status = "open" /\ Worked(s, t, i)
  /\ Unfinished(s.acts[i]) /\ t.acts[i].status = "claimed" /\ t.acts[i].lease = k
  /\ t.acts[i].pub = s.acts[i].pub

Submitted(s, t, i, lease) ==
  /\ s.status = "open" /\ Worked(s, t, i)
  /\ s.acts[i].lease = lease
  /\ t.acts[i].status = "completed" /\ t.acts[i].lease = 0
  /\ t.acts[i].pub \in {"none", "pending_audience"}

Returned(s, t, i, lease) ==
  /\ Worked(s, t, i)
  /\ s.acts[i].lease = lease
  /\ t.acts[i].status = "pending" /\ t.acts[i].lease = 0 /\ t.acts[i].pub = s.acts[i].pub

\* What close requires, apart from the accepted candidates.
Complete(s) ==
  \A i \in DOMAIN s.acts : ~Unfinished(s.acts[i]) /\ s.acts[i].pub # "pending_audience"

Draft(s, t, q, k) ==
  /\ Frame(s, t)
  /\ \/ q.op = "ingest" /\ Ingested(s, t)
     \/ q.op = "publish" /\ Published(s, t, q.act)
     \/ q.op = "claim" /\ Claimed(s, t, q.act, k)
     \/ q.op = "submit" /\ q.lease # 0 /\ Submitted(s, t, q.act, q.lease)
     \/ q.op = "cancel" /\ q.lease # 0 /\ Returned(s, t, q.act, q.lease)
     \/ q.op = "abort" /\ t.status = "aborted"
     \/ q.op = "close" /\ s.status = "open" /\ t.status = "closed" /\ Complete(s)

(***************************************************************************)
(* The invariants.                                                         *)
(***************************************************************************)
JournalType ==
  /\ journal = [c \in Conv |-> journal[c]]
  /\ \A c \in Conv : Live(c) => IsSession(journal[c])

SentType ==
  /\ sent = [k \in Key |-> sent[k]]
  /\ \A k \in Key : sent[k] # None =>
       sent[k] \in RequestType /\ (sent[k].op # "open" => sent[k].conv \in Conv)

LedgerType ==
  /\ ledger = [k \in Key |-> ledger[k]]
  /\ \A k \in Key : ledger[k] # None => ledger[k] \in CommitType

WorldType ==
  /\ version \in [Actor -> Nat] /\ fact \in [Actor -> Key \cup {0}]
  /\ scene \in {0, 1} /\ lapsed \subseteq Key /\ changes \in 0 .. MaxChange

Writing == {"commit", "finish", "write"}

\* A handler knows the request it serves.
JobOK(j, asked) ==
  /\ j = [pc |-> j.pc, op |-> j.op, conv |-> j.conv, key |-> j.key, exp |-> j.exp,
          copy |-> j.copy]
  /\ j.key \in Key \cup {0} /\ j.exp \in Nat
  /\ j.pc \in {"idle", "scan", "create", "fresh", "begin"} \cup Writing
  /\ j.pc \in {"scan", "create", "fresh"} \cup Writing => IsSession(j.copy)
  /\ j.pc \in {"fresh", "begin"} \cup Writing => j.conv \in Conv
  /\ j.pc # "idle" /\ j.op # "get" =>
       /\ j.key \in Key /\ asked[j.key] # None /\ asked[j.key].op = j.op
       /\ j.op # "open" => asked[j.key].conv = j.conv
  /\ j.pc \notin {"idle", "fresh"} => j.op # "get"
  /\ j.pc = "commit" => j.op = "close"

JobsType ==
  /\ job = [p \in Proc |-> job[p]]
  /\ \A p \in Proc : JobOK(job[p], sent)

TypeInv == JournalType /\ SentType /\ LedgerType /\ WorldType /\ JobsType

\* A conversation nobody has answered in.
Blank(s) ==
  /\ s.acts = << >> /\ s.events = 0 /\ s.status = "open" /\ Locked(s)
  /\ \A k \in Key : s.idem[k] = 0

\* What the process p knows at each point of a handler.
JobInv(p) ==
  LET j == job[p]
      s == journal[j.conv]
      t == j.copy
      q == sent[j.key]
  IN  /\ j.pc \in {"scan", "create"} => j.op = "open" /\ Blank(t)
      /\ j.pc = "create" => ~Taken(Participants(t))
      /\ j.pc \in {"fresh", "begin"} \cup Writing => Live(j.conv) /\ j.op # "open"
      /\ j.pc = "fresh" =>
           /\ Alike(s, t) /\ j.op \notin {"cancel", "abort"}
           /\ j.op = "close" => s.idem[j.key] = 0
      /\ j.pc = "begin" =>
           /\ j.op # "close"
           /\ j.op \notin {"cancel", "abort"} => s.status = "open"
      /\ j.pc = "commit" =>
           /\ Alike(s, t) /\ s.status = "open" /\ s.idem[j.key] = 0
           /\ \A a \in Participants(s) : s.locks[a] = version[a]
      /\ j.pc \in {"finish", "write"} =>
           /\ s.idem[j.key] = 0 /\ Draft(s, t, q, j.key)
           /\ j.op = "close" =>
                /\ ledger[j.key] # None /\ ledger[j.key].conv = j.conv
                /\ ledger[j.key].events = s.events

SentInv ==
  \A k \in Key :
    /\ sent[k] # None /\ sent[k].op \in {"submit", "cancel"} => sent[k].lease # 0
    /\ sent[k] = None => \A c \in Conv : Live(c) => journal[c].idem[k] = 0

SoundInv == \A c \in Conv : Active(c) => Sound(journal[c], sent)

\* What is said of the requests, of the journals and of their participants.
RestInv == SentInv /\ SoundInv /\ OneConversationEach

SoloInv(p) == TypeInv /\ RestInv /\ JobInv(p)

-----------------------------------------------------------------------------
(* Listing a finite set, and sequences of activations. *)

\* SetToSeq lists a finite set.
LEMMA ListsAll ==
  ASSUME NEW S, IsFiniteSet(S)
  PROVE  Cardinality(S) \in Nat /\ SetToSeq(S) \in [1 .. Cardinality(S) -> S]
<1> DEFINE N == Cardinality(S)
<1>1. N \in Nat /\ ExistsBijection(1 .. N, S)
  BY FS_CardinalityType
<1>2. PICK f : f \in Bijection(1 .. N, S)
  BY <1>1 DEF ExistsBijection
<1>3. f \in [1 .. N -> S] /\ IsInjective(f)
  BY <1>2 DEF Bijection, Injection, IsInjective
<1>4. \E g \in [1 .. N -> S] : IsInjective(g)
  BY <1>3
<1> QED BY <1>1, <1>4 DEF SetToSeq

\* InOrder lists a finite set of places, each once.
LEMMA InOrderLists ==
  ASSUME NEW I \in SUBSET Nat, IsFiniteSet(I)
  PROVE  /\ Cardinality(I) \in Nat
         /\ InOrder(I) \in [1 .. Cardinality(I) -> I]
         /\ \A m, n \in 1 .. Cardinality(I) : InOrder(I)[m] = InOrder(I)[n] => m = n
         /\ \A i \in I : \E n \in 1 .. Cardinality(I) : InOrder(I)[n] = i
<1> DEFINE N == Cardinality(I)
           Upto(i) == {j \in I : j <= i}
           rank == [i \in I |-> Cardinality(Upto(i))]
<1>1. N \in Nat
  BY FS_CardinalityType
<1>2. ASSUME NEW i \in I
      PROVE  rank[i] \in 1 .. N /\ IsFiniteSet(Upto(i))
  <2>1. IsFiniteSet(Upto(i)) /\ Cardinality(Upto(i)) <= N
    BY FS_Subset
  <2>2. Cardinality(Upto(i)) \in Nat
    BY <2>1, FS_CardinalityType
  <2>3. i \in Upto(i)
    OBVIOUS
  <2>4. Cardinality(Upto(i)) # 0
    BY <2>1, <2>3, FS_EmptySet
  <2> QED BY <1>1, <2>1, <2>2, <2>4
<1>3. ASSUME NEW i \in I, NEW j \in I, i < j
      PROVE  rank[i] < rank[j]
  <2>1. Upto(i) \in SUBSET Upto(j) /\ j \in Upto(j) /\ j \notin Upto(i)
    <3>1. i \in Nat /\ j \in Nat /\ \A x \in I : x \in Nat
      OBVIOUS
    <3>2. \A x \in I : x <= i => x <= j
      BY <1>3, <3>1
    <3>3. j <= j /\ ~(j <= i)
      BY <1>3, <3>1
    <3> HIDE DEF rank
    <3> QED BY <3>2, <3>3
  <2>2. Cardinality(Upto(i)) <= Cardinality(Upto(j)) /\ Cardinality(Upto(i)) # Cardinality(Upto(j))
    BY <1>2, <2>1, FS_Subset
  <2>3. rank[i] \in Nat /\ rank[j] \in Nat /\ rank[i] = Cardinality(Upto(i))
        /\ rank[j] = Cardinality(Upto(j))
    BY <1>1, <1>2
  <2> HIDE DEF Upto, rank
  <2> QED BY <2>2, <2>3
<1>4. rank \in Injection(I, 1 .. N)
  <2>1. rank \in [I -> 1 .. N]
    BY <1>2
  <2>2. ASSUME NEW i \in I, NEW j \in I, rank[i] = rank[j] PROVE i = j
    <3>1. rank[i] \in Nat /\ rank[j] \in Nat /\ i \in Nat /\ j \in Nat
      BY <1>1, <1>2
    <3>2. i < j \/ j < i \/ i = j
      BY <3>1
    <3> HIDE DEF rank
    <3> QED BY <1>3, <2>2, <3>1, <3>2
  <2> HIDE DEF rank
  <2> QED BY <2>1, <2>2 DEF Injection, IsInjective
<1>5. rank \in Surjection(I, 1 .. N)
  <2>1. IsFiniteSet(1 .. N) /\ Cardinality(1 .. N) = N
    BY <1>1, FS_Interval
  <2> HIDE DEF rank
  <2> QED BY <1>4, <2>1, FS_Injection
<1>6. \A n \in 1 .. N : \E i \in I : rank[i] = n
  <2> HIDE DEF rank
  <2> QED BY <1>5 DEF Surjection
<1> DEFINE f == [n \in 1 .. N |-> CHOOSE i \in I : rank[i] = n]
<1> HIDE DEF Upto, rank
<1>7. \A n \in 1 .. N : f[n] \in I /\ rank[f[n]] = n
  BY <1>6
<1>8. ASSUME NEW m \in DOMAIN f, NEW n \in DOMAIN f, m < n PROVE f[m] < f[n]
  <2>1. /\ f[m] \in I /\ f[n] \in I /\ rank[f[m]] = m /\ rank[f[n]] = n
        /\ m \in Int /\ n \in Int
    BY <1>7
  <2> HIDE DEF f
  <2>2. f[m] \in Nat /\ f[n] \in Nat
    BY <2>1
  <2>3. f[n] # f[m]
    BY <1>8, <2>1
  <2>4. ~(f[n] < f[m])
    <3>1. f[n] < f[m] => rank[f[n]] < rank[f[m]]
      BY <1>3, <2>1
    <3>2. ~(n < m)
      BY <1>8, <2>1
    <3> QED BY <2>1, <3>1, <3>2
  <2> QED BY <2>2, <2>3, <2>4
<1>9. f \in [1 .. N -> I]
  BY <1>7
<1> DEFINE Rising(g) == \A m, n \in DOMAIN g : m < n => g[m] < g[n]
<1>10. InOrder(I) \in [1 .. N -> I] /\ Rising(InOrder(I))
  <2>1. \E g \in [1 .. N -> I] : Rising(g)
    <3> HIDE DEF f
    <3> QED BY <1>8, <1>9
  <2> QED BY <2>1 DEF InOrder
<1> DEFINE g == InOrder(I)
<1>11. g \in Injection(1 .. N, I)
  <2>1. ASSUME NEW m \in 1 .. N, NEW n \in 1 .. N, g[m] = g[n] PROVE m = n
    <3>1. m < n \/ n < m \/ m = n
      OBVIOUS
    <3>2. g[m] \in Nat /\ g[n] \in Nat
      BY <1>10
    <3> HIDE DEF g
    <3>3. m < n => g[m] < g[n]
      BY <1>10 DEF g
    <3>4. n < m => g[n] < g[m]
      BY <1>10 DEF g
    <3> QED BY <2>1, <3>1, <3>2, <3>3, <3>4
  <2> QED BY <1>10, <2>1 DEF Injection, IsInjective
<1>12. g \in Surjection(1 .. N, I)
  <2>1. IsFiniteSet(1 .. N) /\ Cardinality(1 .. N) = N
    BY <1>1, FS_Interval
  <2> HIDE DEF g
  <2> QED BY <1>11, <2>1, FS_Injection
<1> HIDE DEF g
<1>13. /\ \A m, n \in 1 .. N : g[m] = g[n] => m = n
       /\ \A i \in I : \E n \in 1 .. N : g[n] = i
  BY <1>11, <1>12 DEF Injection, Surjection, IsInjective
<1> QED BY <1>1, <1>10, <1>13 DEF g

LEMMA ActivationsListed ==
  ASSUME NEW S, NEW f \in Seq(S)
  PROVE  /\ Len(f) \in Nat /\ DOMAIN f = 1 .. Len(f) /\ IsFiniteSet(DOMAIN f)
         /\ \A i \in DOMAIN f : f[i] \in S
<1>1. Len(f) \in Nat /\ DOMAIN f = 1 .. Len(f)
  BY LenProperties
<1>2. IsFiniteSet(DOMAIN f)
  BY <1>1, FS_Interval
<1>3. \A i \in DOMAIN f : f[i] \in S
  BY <1>1, ElementOfSeq
<1> QED BY <1>1, <1>2, <1>3


(***************************************************************************)
(* Sessions as records.                                                    *)
(***************************************************************************)
SessionStatus == {"open", "stale", "closed", "aborted"}

LEMMA SessionFields ==
  ASSUME NEW s, IsSession(s)
  PROVE  /\ Participants(s) \in SUBSET Actor /\ s \in SessionType(Participants(s))
         /\ s.status \in SessionStatus /\ s.rev \in Nat /\ s.events \in Nat
         /\ s.locks \in [Participants(s) -> Nat]
         /\ s.runtime \in [Participants(s) -> [ver: Nat, at: Nat]]
         /\ s.acts \in Seq(ActivationType) /\ s.idem \in [Key -> Nat]
<1>1. PICK S \in SUBSET Actor : s \in SessionType(S)
  BY DEF IsSession
<1>2. s.locks \in [S -> Nat]
  BY <1>1 DEF SessionType
<1>3. Participants(s) = S
  BY <1>2 DEF Participants
<1>4. /\ s.status \in SessionStatus /\ s.rev \in Nat /\ s.events \in Nat
      /\ s.runtime \in [S -> [ver: Nat, at: Nat]]
      /\ s.acts \in Seq(ActivationType) /\ s.idem \in [Key -> Nat]
  BY <1>1 DEF SessionType, SessionStatus
<1> QED BY <1>1, <1>2, <1>3, <1>4

\* The changes the handlers make to a copy.
WithPend(s, k) == [s EXCEPT !.pend = k]

LEMMA SessionPend ==
  ASSUME NEW s, IsSession(s), NEW k \in Key \cup {0}, NEW t, t = WithPend(s, k)
  PROVE  IsSession(t) /\ Alike(s, t)
<1>1. s \in SessionType(Participants(s)) /\ Participants(s) \in SUBSET Actor
  BY SessionFields
<1>2. t \in SessionType(Participants(s))
  BY <1>1 DEF SessionType, WithPend
<1>3. Alike(s, t)
  BY <1>1 DEF SessionType, Alike, Frame, WithPend
<1> QED BY <1>1, <1>2, <1>3 DEF IsSession

WithStatus(s, st) == [s EXCEPT !.status = st]

LEMMA SessionStatusSet ==
  ASSUME NEW s, IsSession(s), NEW st \in SessionStatus, NEW t, t = WithStatus(s, st)
  PROVE  IsSession(t) /\ Frame(s, t) /\ t.status = st /\ t.acts = s.acts /\ t.events = s.events
<1>1. s \in SessionType(Participants(s)) /\ Participants(s) \in SUBSET Actor
  BY SessionFields
<1>2. t \in SessionType(Participants(s))
  BY <1>1 DEF SessionType, SessionStatus, WithStatus
<1>3. Frame(s, t) /\ t.status = st /\ t.acts = s.acts /\ t.events = s.events
  BY <1>1 DEF SessionType, Frame, WithStatus
<1> QED BY <1>1, <1>2, <1>3 DEF IsSession

WithActs(s, A) == [s EXCEPT !.acts = A]

LEMMA SessionActs ==
  ASSUME NEW s, IsSession(s), NEW A \in Seq(ActivationType), NEW t, t = WithActs(s, A)
  PROVE  IsSession(t) /\ Frame(s, t) /\ t.status = s.status /\ t.acts = A /\ t.events = s.events
<1>1. s \in SessionType(Participants(s)) /\ Participants(s) \in SUBSET Actor
  BY SessionFields
<1>2. t \in SessionType(Participants(s))
  BY <1>1 DEF SessionType, WithActs
<1>3. Frame(s, t) /\ t.status = s.status /\ t.acts = A /\ t.events = s.events
  BY <1>1 DEF SessionType, Frame, WithActs
<1> QED BY <1>1, <1>2, <1>3 DEF IsSession

WithEvent(s, A) == [s EXCEPT !.events = @ + 1, !.acts = A]

LEMMA SessionEvent ==
  ASSUME NEW s, IsSession(s), NEW A \in Seq(ActivationType), NEW t, t = WithEvent(s, A)
  PROVE  /\ IsSession(t) /\ Frame(s, t) /\ t.status = s.status /\ t.acts = A
         /\ t.events = s.events + 1
<1>1. s \in SessionType(Participants(s)) /\ Participants(s) \in SUBSET Actor
  BY SessionFields
<1> DEFINE e == s.events + 1
<1>e. e \in Nat
  BY SessionFields
<1> HIDE DEF e
<1>0. t = [s EXCEPT !.events = e, !.acts = A]
  BY DEF e, WithEvent
<1>2. t \in SessionType(Participants(s))
  BY <1>0, <1>1, <1>e DEF SessionType
<1>3. Frame(s, t) /\ t.status = s.status /\ t.acts = A /\ t.events = e
  BY <1>0, <1>1 DEF SessionType, Frame
<1> QED BY <1>1, <1>2, <1>3 DEF IsSession, e

\* finish_mutation keeps the session a session; while it is active it only takes
\* the next revision and the receipt.
LEMMA FinishedSession ==
  ASSUME NEW t, IsSession(t), NEW k, NEW w, w = Finished(t, k)
  PROVE  /\ IsSession(w) /\ w.status = t.status /\ w.locks = t.locks
         /\ w.rev = t.rev + 1
         /\ \A x \in Key : w.idem[x] = IF x = k THEN t.rev + 1
                                       ELSE IF t.status \in ActiveStatus THEN t.idem[x] ELSE 0
         /\ IF t.status \in ActiveStatus
            THEN w.acts = t.acts /\ w.events = t.events /\ w.runtime = t.runtime
            ELSE w.events = 0
<1>1. /\ t \in SessionType(Participants(t)) /\ Participants(t) \in SUBSET Actor
      /\ t.idem \in [Key -> Nat] /\ t.rev \in Nat
  BY SessionFields
<1> DEFINE r == t.rev + 1
           I == [t.idem EXCEPT ![k] = r]
           J == [x \in Key |-> IF x = k THEN r ELSE 0]
           done == [t EXCEPT !.rev = r, !.pend = 0, !.idem = I]
<1>2. r \in Nat /\ I \in [Key -> Nat] /\ J \in [Key -> Nat]
      /\ (\A x \in Key : I[x] = IF x = k THEN r ELSE t.idem[x])
      /\ (\A x \in Key : J[x] = IF x = k THEN r ELSE 0)
  <2>1. r \in Nat
    BY <1>1
  <2> HIDE DEF r
  <2> QED BY <1>1, <2>1
<1>3. w = IF t.status \in ActiveStatus THEN done
          ELSE [done EXCEPT !.acts = << >>, !.events = 0, !.idem = J]
  BY DEF Finished
<1> HIDE DEF r, I, J
<1>4. CASE t.status \in ActiveStatus
  <2>1. w = [t EXCEPT !.rev = r, !.pend = 0, !.idem = I]
    BY <1>3, <1>4
  <2>2. w \in SessionType(Participants(t))
    BY <1>1, <1>2, <2>1 DEF SessionType
  <2>3. /\ w.status = t.status /\ w.locks = t.locks /\ w.rev = r /\ w.idem = I
        /\ w.acts = t.acts /\ w.events = t.events /\ w.runtime = t.runtime
    BY <1>1, <2>1 DEF SessionType
  <2> QED BY <1>1, <1>2, <1>4, <2>2, <2>3 DEF IsSession, r
<1>5. CASE t.status \notin ActiveStatus
  <2>1. w = [t EXCEPT !.rev = r, !.pend = 0, !.idem = J, !.acts = << >>, !.events = 0]
    <3>1. done \in SessionType(Participants(t))
      BY <1>1, <1>2 DEF SessionType
    <3> QED BY <1>1, <1>3, <1>5, <3>1 DEF SessionType
  <2> DEFINE none == << >>
  <2>2. none \in Seq(ActivationType) /\ 0 \in Nat
    OBVIOUS
  <2>0. w = [t EXCEPT !.rev = r, !.pend = 0, !.idem = J, !.acts = none, !.events = 0]
    BY <2>1
  <2> HIDE DEF none
  <2>3. w \in SessionType(Participants(t))
    BY <1>1, <1>2, <2>0, <2>2 DEF SessionType
  <2>4. w.status = t.status /\ w.locks = t.locks /\ w.rev = r /\ w.idem = J /\ w.events = 0
    BY <1>1, <2>1 DEF SessionType
  <2> QED BY <1>1, <1>2, <1>5, <2>3, <2>4 DEF IsSession, r
<1> QED BY <1>4, <1>5

(***************************************************************************)
(* Activations.                                                            *)
(***************************************************************************)
LEMMA NewActivationIs ==
  ASSUME NEW a \in Actor, NEW rt \in [ver: Nat, at: Nat], NEW old \in Nat,
         NEW x, x = NewActivation(a, rt, old)
  PROVE  /\ x \in ActivationType
         /\ x.actor = a /\ x.runtime = rt /\ x.old = old /\ x.status = "pending"
         /\ x.lease = 0 /\ x.pub = "none" /\ x.cand = "none"
BY DEF NewActivation, ActivationType

LEMMA OutdatedIs ==
  ASSUME NEW x \in ActivationType, NEW rt, NEW y, y = Outdated(x, rt)
  PROVE  /\ y \in ActivationType /\ SameWork(x, y) /\ ~Unfinished(y)
         /\ y.status = (IF Unfinished(x) THEN "invalidated" ELSE x.status)
         /\ y.lease = (IF Unfinished(x) THEN 0 ELSE x.lease)
         /\ y.pub \in {x.pub, "invalidated"} /\ (x.pub = "published" => y.pub = "published")
         /\ y.cand = "proposed" /\ ~y.sourced =>
              x.cand = "proposed" /\ ~x.sourced /\ x.runtime # rt
<1> DEFINE unsaid(st, due) == IF x.runtime = rt /\ st = due THEN "invalidated" ELSE st
           a == IF Unfinished(x) THEN "invalidated" ELSE x.status
           b == IF Unfinished(x) THEN 0 ELSE x.lease
           c == unsaid(x.pub, "pending_audience")
           d == unsaid(x.ask, "pending")
           e == IF x.sourced THEN x.cand ELSE unsaid(x.cand, "proposed")
<1>1. y = [x EXCEPT !.status = a, !.lease = b, !.pub = c, !.ask = d, !.cand = e]
  BY DEF Outdated
<1>2. /\ a \in {"pending", "claimed", "completed", "invalidated"} \ {"pending", "claimed"}
      /\ b \in Key \cup {0}
      /\ c \in {"none", "pending_audience", "published", "invalidated"}
      /\ d \in {"none", "pending", "resolved", "invalidated"}
      /\ e \in {"none", "proposed", "invalidated"}
  BY DEF ActivationType, Unfinished
<1>3. /\ c \in {x.pub, "invalidated"} /\ (x.pub = "published" => c = "published")
      /\ e = "proposed" /\ ~x.sourced => x.cand = "proposed" /\ x.runtime # rt
  OBVIOUS
<1>4. a = (IF Unfinished(x) THEN "invalidated" ELSE x.status)
      /\ b = (IF Unfinished(x) THEN 0 ELSE x.lease)
  OBVIOUS
<1> HIDE DEF a, b, c, d, e
<1>5. y \in ActivationType
  BY <1>1, <1>2 DEF ActivationType
<1>6. /\ y.actor = x.actor /\ y.runtime = x.runtime /\ y.old = x.old
      /\ y.status = a /\ y.lease = b /\ y.pub = c /\ y.cand = e /\ y.sourced = x.sourced
  BY <1>1 DEF ActivationType
<1> QED BY <1>2, <1>3, <1>4, <1>5, <1>6 DEF SameWork, Unfinished


(***************************************************************************)
(* The mutations are drafts.                                               *)
(***************************************************************************)
\* One sequence after another.
LEMMA Appended ==
  ASSUME NEW S, NEW f \in Seq(S), NEW g \in Seq(S), NEW h, h = f \o g
  PROVE  /\ h \in Seq(S) /\ DOMAIN f \subseteq DOMAIN h
         /\ \A i \in DOMAIN f : h[i] = f[i]
         /\ \A i \in DOMAIN h : i \notin DOMAIN f =>
              i - Len(f) \in DOMAIN g /\ h[i] = g[i - Len(f)]
         /\ \A n \in DOMAIN g : Len(f) + n \in DOMAIN h /\ Len(f) + n \notin DOMAIN f
                                /\ h[Len(f) + n] = g[n]
<1>1. /\ Len(f) \in Nat /\ Len(g) \in Nat
      /\ DOMAIN f = 1 .. Len(f) /\ DOMAIN g = 1 .. Len(g)
  BY LenProperties
<1>2. /\ h \in Seq(S) /\ Len(h) = Len(f) + Len(g)
      /\ \A i \in 1 .. Len(f) + Len(g) :
           h[i] = IF i <= Len(f) THEN f[i] ELSE g[i - Len(f)]
  BY ConcatProperties
<1>3. DOMAIN h = 1 .. Len(f) + Len(g)
  BY <1>2, LenProperties
<1> DEFINE m == Len(f)
           n == Len(g)
<1> HIDE DEF m, n
<1>4. /\ m \in Nat /\ n \in Nat /\ DOMAIN f = 1 .. m /\ DOMAIN g = 1 .. n
      /\ DOMAIN h = 1 .. m + n
      /\ \A i \in 1 .. m + n : h[i] = IF i <= m THEN f[i] ELSE g[i - m]
  BY <1>1, <1>2, <1>3 DEF m, n
<1>5. DOMAIN f \subseteq DOMAIN h /\ \A i \in DOMAIN f : h[i] = f[i]
  BY <1>4
<1>6. \A i \in DOMAIN h : i \notin DOMAIN f => i - m \in DOMAIN g /\ h[i] = g[i - m]
  BY <1>4
<1>7. \A j \in DOMAIN g : m + j \in DOMAIN h /\ m + j \notin DOMAIN f /\ h[m + j] = g[j]
  <2> SUFFICES ASSUME NEW j \in DOMAIN g
               PROVE  m + j \in DOMAIN h /\ m + j \notin DOMAIN f /\ h[m + j] = g[j]
    OBVIOUS
  <2>1. m + j \in 1 .. m + n /\ ~(m + j <= m) /\ (m + j) - m = j
    BY <1>4
  <2> QED BY <1>4, <2>1
<1> QED BY <1>2, <1>5, <1>6, <1>7 DEF m

\* A sequence mapped place by place.
LEMMA Mapped ==
  ASSUME NEW S, NEW f \in Seq(S), NEW g, DOMAIN g = DOMAIN f, g = [i \in DOMAIN f |-> g[i]],
         \A i \in DOMAIN f : g[i] \in S
  PROVE  g \in Seq(S) /\ Len(g) = Len(f)
<1>1. Len(f) \in Nat /\ DOMAIN f = 1 .. Len(f)
  BY LenProperties
<1>2. g \in [1 .. Len(f) -> S]
  BY <1>1
<1>3. g \in Seq(S)
  BY <1>1, <1>2, IsASeq
<1>4. Len(g) = Len(f)
  BY <1>1, <1>2, <1>3, LenProperties
<1> QED BY <1>3, <1>4

LEMMA ActivatedIs ==
  ASSUME NEW s, IsSession(s), NEW S, NEW A, A = Activated(s, S)
  PROVE  A \in Seq(ActivationType) /\ \A i \in DOMAIN A : NewWork(s, A[i])
<1> DEFINE who == S \cap Participants(s)
           order == SetToSeq(who)
           N == Cardinality(who)
<1>0. Participants(s) \in SUBSET Actor /\ s.runtime \in [Participants(s) -> [ver: Nat, at: Nat]]
  BY SessionFields
<1>1. IsFiniteSet(who)
  BY <1>0, ActorAssumption, FS_Subset
<1>2. N \in Nat /\ order \in [1 .. N -> who]
  BY <1>1, ListsAll
<1>3. A = [n \in DOMAIN order |-> NewActivation(order[n], s.runtime[order[n]], 0)]
  BY DEF Activated
<1> HIDE DEF order, N
<1>4. DOMAIN A = 1 .. N
  BY <1>2, <1>3
<1>5. ASSUME NEW n \in 1 .. N PROVE A[n] \in ActivationType /\ NewWork(s, A[n])
  <2>1. order[n] \in Actor /\ order[n] \in Participants(s)
    BY <1>0, <1>2
  <2>2. s.runtime[order[n]] \in [ver: Nat, at: Nat]
    BY <1>0, <2>1
  <2>3. A[n] = NewActivation(order[n], s.runtime[order[n]], 0)
    BY <1>2, <1>3
  <2>4. 0 \in Nat
    OBVIOUS
  <2> QED BY <2>1, <2>2, <2>3, <2>4, NewActivationIs DEF NewWork
<1>6. A \in [1 .. N -> ActivationType]
  BY <1>2, <1>3, <1>5
<1>7. A \in Seq(ActivationType)
  BY <1>2, <1>6, IsASeq
<1> QED BY <1>4, <1>5, <1>7

LEMMA UnchangedIsSettled == \A x : Settled(x, x)
BY DEF Settled, SameWork

IngestCopy(s, picks, who) ==
  [s EXCEPT
     !.events = @ + 1,
     !.acts = [i \in DOMAIN s.acts |->
                 IF i \in picks
                 THEN [s.acts[i] EXCEPT !.ask = "resolved",
                                        !.sourced = (s.acts[i].cand # "none")]
                 ELSE s.acts[i]]
              \o Activated(s, who)]

LEMMA IngestIs ==
  ASSUME NEW s, IsSession(s), NEW picks, NEW who, NEW t, t = IngestCopy(s, picks, who)
  PROVE  /\ IsSession(t) /\ Frame(s, t) /\ t.status = s.status
         /\ t.events = s.events + 1 /\ Grown(s, t, {})
<1> DEFINE f == [i \in DOMAIN s.acts |->
                   IF i \in picks
                   THEN [s.acts[i] EXCEPT !.ask = "resolved",
                                          !.sourced = (s.acts[i].cand # "none")]
                   ELSE s.acts[i]]
           g == Activated(s, who)
           h == f \o g
<1>0. s.acts \in Seq(ActivationType) /\ \A i \in DOMAIN s.acts : s.acts[i] \in ActivationType
  BY SessionFields, ActivationsListed
<1>1. ASSUME NEW i \in DOMAIN s.acts
      PROVE  f[i] \in ActivationType /\ Settled(s.acts[i], f[i])
  <2> DEFINE x == s.acts[i]
             b == x.cand # "none"
             y == [x EXCEPT !.ask = "resolved", !.sourced = b]
  <2>1. x \in ActivationType /\ b \in BOOLEAN
    BY <1>0
  <2>2. f[i] = IF i \in picks THEN y ELSE x
    OBVIOUS
  <2>b. b <=> x.cand # "none"
    OBVIOUS
  <2> HIDE DEF x, b, f
  <2>3. y \in ActivationType
    BY <2>1 DEF ActivationType
  <2>4. /\ y.actor = x.actor /\ y.runtime = x.runtime /\ y.old = x.old /\ y.status = x.status
        /\ y.lease = x.lease /\ y.pub = x.pub /\ y.cand = x.cand /\ y.sourced = b
    BY <2>1 DEF ActivationType
  <2>5. Settled(x, y)
    <3> HIDE DEF y
    <3> QED BY <2>4, <2>b DEF Settled, SameWork
  <2> HIDE DEF y
  <2>6. f[i] \in ActivationType /\ Settled(x, f[i])
    BY <2>1, <2>2, <2>3, <2>5, UnchangedIsSettled
  <2> QED BY <2>6 DEF x
<1>2. f \in Seq(ActivationType)
  BY <1>0, <1>1, Mapped
<1>3. g \in Seq(ActivationType) /\ \A i \in DOMAIN g : NewWork(s, g[i])
  BY ActivatedIs
<1>d. DOMAIN f = DOMAIN s.acts
  OBVIOUS
<1>e. t = WithEvent(s, h)
  BY DEF IngestCopy, WithEvent
<1> HIDE DEF f, g
<1>4. /\ h \in Seq(ActivationType) /\ DOMAIN f \subseteq DOMAIN h
      /\ \A i \in DOMAIN f : h[i] = f[i]
      /\ \A i \in DOMAIN h : i \notin DOMAIN f =>
           i - Len(f) \in DOMAIN g /\ h[i] = g[i - Len(f)]
  BY <1>2, <1>3, Appended
<1> HIDE DEF h
<1>5. /\ IsSession(t) /\ Frame(s, t) /\ t.status = s.status /\ t.acts = h
      /\ t.events = s.events + 1
  <2>1. h \in Seq(ActivationType)
    BY <1>4
  <2> QED BY <1>e, <2>1, SessionEvent
<1>6. Grown(s, t, {})
  BY <1>1, <1>3, <1>4, <1>5, <1>d DEF Grown
<1> QED BY <1>5, <1>6


PublishCopy(s, i, who) ==
  [s EXCEPT
     !.events = @ + 1,
     !.acts = [@ EXCEPT ![i].pub = "published",
                        ![i].sourced = (s.acts[i].cand # "none")]
              \o Activated(s, who)]

LEMMA PublishIs ==
  ASSUME NEW s, IsSession(s), NEW i \in DOMAIN s.acts, s.acts[i].pub = "pending_audience",
         NEW who, NEW t, t = PublishCopy(s, i, who)
  PROVE  IsSession(t) /\ Frame(s, t) /\ (s.status = "open" => Published(s, t, i))
<1> DEFINE x == s.acts[i]
           b == x.cand # "none"
           y == [x EXCEPT !.pub = "published", !.sourced = b]
           f == [s.acts EXCEPT ![i] = y]
           g == Activated(s, who)
           h == f \o g
<1>0. s.acts \in Seq(ActivationType) /\ \A n \in DOMAIN s.acts : s.acts[n] \in ActivationType
  BY SessionFields, ActivationsListed
<1>x. x \in ActivationType /\ b \in BOOLEAN /\ (b <=> x.cand # "none")
  BY <1>0
<1>h. t = WithEvent(s, h)
  <2>1. x \in ActivationType
    BY <1>x
  <2>2. f = [s.acts EXCEPT ![i].pub = "published", ![i].sourced = (s.acts[i].cand # "none")]
    OBVIOUS
  <2> HIDE DEF f
  <2> QED BY <2>2 DEF PublishCopy, WithEvent
<1>p. x.pub = "pending_audience"
  OBVIOUS
<1> HIDE DEF b
<1>y. /\ y \in ActivationType /\ SameWork(x, y) /\ y.status = x.status /\ y.lease = x.lease
      /\ y.pub = "published" /\ ~(y.cand = "proposed" /\ ~y.sourced)
  <2> HIDE DEF x
  <2>1. y \in ActivationType
    BY <1>x DEF ActivationType
  <2>2. /\ y.actor = x.actor /\ y.runtime = x.runtime /\ y.old = x.old /\ y.status = x.status
        /\ y.lease = x.lease /\ y.pub = "published" /\ y.cand = x.cand /\ y.sourced = b
    BY <1>x DEF ActivationType
  <2> HIDE DEF y
  <2> QED BY <1>x, <2>1, <2>2 DEF SameWork
<1> HIDE DEF y
<1>1. /\ DOMAIN f = DOMAIN s.acts /\ f[i] = y
      /\ \A n \in DOMAIN s.acts : n # i => f[n] = s.acts[n]
  OBVIOUS
<1>2. f \in Seq(ActivationType)
  <2>1. \A n \in DOMAIN s.acts : f[n] \in ActivationType
    BY <1>0, <1>1, <1>y
  <2>2. f = [n \in DOMAIN s.acts |-> f[n]]
    OBVIOUS
  <2> HIDE DEF f
  <2> QED BY <1>0, <1>1, <2>1, <2>2, Mapped
<1>3. g \in Seq(ActivationType) /\ \A n \in DOMAIN g : NewWork(s, g[n])
  BY ActivatedIs
<1> HIDE DEF f, g
<1>4. /\ h \in Seq(ActivationType) /\ DOMAIN f \subseteq DOMAIN h
      /\ \A n \in DOMAIN f : h[n] = f[n]
      /\ \A n \in DOMAIN h : n \notin DOMAIN f =>
           n - Len(f) \in DOMAIN g /\ h[n] = g[n - Len(f)]
  BY <1>2, <1>3, Appended
<1> HIDE DEF h
<1>5. /\ IsSession(t) /\ Frame(s, t) /\ t.status = s.status /\ t.acts = h
      /\ t.events = s.events + 1
  <2>1. h \in Seq(ActivationType)
    BY <1>4
  <2> QED BY <1>h, <2>1, SessionEvent
<1>6. Grown(s, t, {i})
  BY <1>1, <1>3, <1>4, <1>5, UnchangedIsSettled DEF Grown
<1>7. t.acts[i] = y
  BY <1>1, <1>4, <1>5
<1> QED BY <1>5, <1>6, <1>7, <1>p, <1>y DEF Published, x

\* One activation becomes y.
LEMMA WorkedIs ==
  ASSUME NEW s, IsSession(s), NEW i \in DOMAIN s.acts, NEW y \in ActivationType,
         SameWork(s.acts[i], y), NEW t, t = WithActs(s, [s.acts EXCEPT ![i] = y])
  PROVE  IsSession(t) /\ Frame(s, t) /\ Worked(s, t, i) /\ t.acts[i] = y
<1> DEFINE f == [s.acts EXCEPT ![i] = y]
<1>0. s.acts \in Seq(ActivationType) /\ \A n \in DOMAIN s.acts : s.acts[n] \in ActivationType
  BY SessionFields, ActivationsListed
<1>1. /\ DOMAIN f = DOMAIN s.acts /\ f[i] = y /\ f = [n \in DOMAIN s.acts |-> f[n]]
      /\ \A n \in DOMAIN s.acts : n # i => f[n] = s.acts[n]
  OBVIOUS
<1>h. t = WithActs(s, f)
  OBVIOUS
<1> HIDE DEF f
<1>2. f \in Seq(ActivationType)
  <2>1. \A n \in DOMAIN s.acts : f[n] \in ActivationType
    BY <1>0, <1>1
  <2> QED BY <1>0, <1>1, <2>1, Mapped
<1>3. IsSession(t) /\ Frame(s, t) /\ t.status = s.status /\ t.acts = f /\ t.events = s.events
  BY <1>2, <1>h, SessionActs
<1> QED BY <1>1, <1>3 DEF Worked

ClaimCopy(s, i, k) == [s EXCEPT !.acts[i].lease = k, !.acts[i].status = "claimed"]

LEMMA ClaimIs ==
  ASSUME NEW s, IsSession(s), NEW i \in DOMAIN s.acts,
         s.acts[i].status \notin {"invalidated", "completed"},
         NEW k \in Key \cup {0}, NEW t, t = ClaimCopy(s, i, k)
  PROVE  IsSession(t) /\ Frame(s, t) /\ (s.status = "open" => Claimed(s, t, i, k))
<1> DEFINE x == s.acts[i]
           y == [x EXCEPT !.lease = k, !.status = "claimed"]
<1>0. x \in ActivationType
  BY SessionFields, ActivationsListed
<1>1. t = WithActs(s, [s.acts EXCEPT ![i] = y])
  <2>1. s \in SessionType(Participants(s)) /\ s.acts \in Seq(ActivationType)
    BY SessionFields
  <2> QED BY <2>1 DEF ClaimCopy, WithActs, SessionType
<1>2. Unfinished(x)
  BY <1>0 DEF Unfinished, ActivationType
<1>3. y \in ActivationType /\ SameWork(x, y)
  <2> HIDE DEF x
  <2>1. y \in ActivationType
    BY <1>0 DEF ActivationType
  <2>2. y.actor = x.actor /\ y.runtime = x.runtime /\ y.old = x.old
    BY <1>0 DEF ActivationType
  <2> QED BY <2>1, <2>2 DEF SameWork
<1>4. y.status = "claimed" /\ y.lease = k /\ y.pub = x.pub
  <2> HIDE DEF x
  <2> QED BY <1>0 DEF ActivationType
<1> HIDE DEF y
<1>5. IsSession(t) /\ Frame(s, t) /\ Worked(s, t, i) /\ t.acts[i] = y
  BY <1>1, <1>3, WorkedIs
<1> QED BY <1>2, <1>4, <1>5 DEF Claimed

SubmitCopy(s, i, r) ==
  [s EXCEPT !.acts[i] =
     [@ EXCEPT !.status = "completed", !.lease = 0,
               !.pub  = IF r.says THEN "pending_audience" ELSE "none",
               !.ask  = IF r.asks THEN "pending" ELSE "none",
               !.cand = IF r.tells # "none" THEN "proposed" ELSE "none",
               !.kind = r.tells]]

LEMMA SubmitIs ==
  ASSUME NEW s, IsSession(s), NEW i \in DOMAIN s.acts, NEW lease, s.acts[i].lease = lease,
         NEW r \in ProposalType, NEW t, t = SubmitCopy(s, i, r)
  PROVE  IsSession(t) /\ Frame(s, t) /\ (s.status = "open" => Submitted(s, t, i, lease))
<1> DEFINE x == s.acts[i]
           a == IF r.says THEN "pending_audience" ELSE "none"
           b == IF r.asks THEN "pending" ELSE "none"
           c == IF r.tells # "none" THEN "proposed" ELSE "none"
           d == r.tells
           y == [x EXCEPT !.status = "completed", !.lease = 0, !.pub = a, !.ask = b,
                          !.cand = c, !.kind = d]
<1>0. x \in ActivationType
  BY SessionFields, ActivationsListed
<1>1. t = WithActs(s, [s.acts EXCEPT ![i] = y])
  <2>1. s \in SessionType(Participants(s)) /\ s.acts \in Seq(ActivationType)
    BY SessionFields
  <2> QED BY <2>1 DEF SubmitCopy, WithActs, SessionType
<1>2. /\ a \in {"none", "pending_audience"} /\ b \in {"none", "pending"}
      /\ c \in {"none", "proposed"} /\ d \in {"none", "fact", "actor_knowledge"}
  BY DEF ProposalType
<1> HIDE DEF a, b, c, d
<1>3. y \in ActivationType /\ SameWork(x, y)
  <2> HIDE DEF x
  <2>1. y \in ActivationType
    BY <1>0, <1>2 DEF ActivationType
  <2>2. y.actor = x.actor /\ y.runtime = x.runtime /\ y.old = x.old
    BY <1>0 DEF ActivationType
  <2> QED BY <2>1, <2>2 DEF SameWork
<1>4. y.status = "completed" /\ y.lease = 0 /\ y.pub = a
  <2> HIDE DEF x
  <2> QED BY <1>0 DEF ActivationType
<1> HIDE DEF y
<1>5. IsSession(t) /\ Frame(s, t) /\ Worked(s, t, i) /\ t.acts[i] = y
  BY <1>1, <1>3, WorkedIs
<1> QED BY <1>2, <1>4, <1>5 DEF Submitted

CancelCopy(s, i) == [s EXCEPT !.acts[i].lease = 0, !.acts[i].status = "pending"]

LEMMA CancelIs ==
  ASSUME NEW s, IsSession(s), NEW i \in DOMAIN s.acts,
         NEW lease, s.acts[i].lease = lease, NEW t, t = CancelCopy(s, i)
  PROVE  IsSession(t) /\ Frame(s, t) /\ Returned(s, t, i, lease)
<1> DEFINE x == s.acts[i]
           y == [x EXCEPT !.lease = 0, !.status = "pending"]
<1>0. x \in ActivationType
  BY SessionFields, ActivationsListed
<1>1. t = WithActs(s, [s.acts EXCEPT ![i] = y])
  <2>1. s \in SessionType(Participants(s)) /\ s.acts \in Seq(ActivationType)
    BY SessionFields
  <2> QED BY <2>1 DEF CancelCopy, WithActs, SessionType
<1>3. y \in ActivationType /\ SameWork(x, y)
  <2> HIDE DEF x
  <2>1. y \in ActivationType
    BY <1>0 DEF ActivationType
  <2>2. y.actor = x.actor /\ y.runtime = x.runtime /\ y.old = x.old
    BY <1>0 DEF ActivationType
  <2> QED BY <2>1, <2>2 DEF SameWork
<1>4. y.status = "pending" /\ y.lease = 0 /\ y.pub = x.pub
  <2> HIDE DEF x
  <2> QED BY <1>0 DEF ActivationType
<1> HIDE DEF y
<1>5. IsSession(t) /\ Frame(s, t) /\ Worked(s, t, i) /\ t.acts[i] = y
  BY <1>1, <1>3, WorkedIs
<1> QED BY <1>4, <1>5 DEF Returned


(***************************************************************************)
(* The refresh of the moved actors.                                        *)
(***************************************************************************)
\* How the refreshed t differs from s in everything but the activations ...
Relocked(s, t) ==
  /\ DOMAIN t.locks = DOMAIN s.locks /\ t.idem = s.idem /\ t.events = s.events
  /\ \A a \in Participants(s) :
       /\ t.locks[a] = version[a]
       /\ IF a \in Moved(s) THEN t.runtime[a].ver = version[a]
          ELSE t.runtime[a] = s.runtime[a]

\* ... and in those: the lost ones, and no others, get a replacement each.
Owed(s, i) == Lost(s.acts[i], Moved(s))

Reworked(s, t) ==
  /\ DOMAIN s.acts \subseteq DOMAIN t.acts
  /\ \A i \in DOMAIN s.acts :
       t.acts[i] = IF s.acts[i].actor \in Moved(s)
                   THEN Outdated(s.acts[i], s.runtime[s.acts[i].actor])
                   ELSE s.acts[i]
  /\ \A j \in DOMAIN t.acts : j \notin DOMAIN s.acts =>
       LET y == t.acts[j]
       IN  /\ y.old \in DOMAIN s.acts /\ Owed(s, y.old)
           /\ y.actor = s.acts[y.old].actor /\ y.runtime = t.runtime[y.actor]
           /\ y.status = "pending" /\ y.lease = 0 /\ y.pub = "none" /\ y.cand = "none"
  /\ \A i \in DOMAIN s.acts : Owed(s, i) =>
       \E j \in DOMAIN t.acts :
         \A n \in DOMAIN t.acts : n \notin DOMAIN s.acts /\ t.acts[n].old = i <=> n = j

LEMMA RefreshedIs ==
  ASSUME version \in [Actor -> Nat], NEW s, IsSession(s), NEW t, t = Refreshed(s)
  PROVE  /\ IsSession(t) /\ t.rev = s.rev /\ t.status = s.status
         /\ Relocked(s, t) /\ Reworked(s, t)
<1> DEFINE P == Participants(s)
           M == Moved(s)
           R == [a \in P |-> IF a \in M THEN [ver |-> version[a], at |-> s.rev + 1]
                             ELSE s.runtime[a]]
           L == [a \in P |-> version[a]]
           I == {i \in DOMAIN s.acts : Lost(s.acts[i], M)}
           lost == InOrder(I)
           N == Cardinality(I)
           f == [i \in DOMAIN s.acts |->
                    IF s.acts[i].actor \in M
                    THEN Outdated(s.acts[i], s.runtime[s.acts[i].actor])
                    ELSE s.acts[i]]
           g == [n \in DOMAIN lost |->
                    NewActivation(s.acts[lost[n]].actor, R[s.acts[lost[n]].actor], lost[n])]
           h == f \o g
<1>t. t = [s EXCEPT !.locks = L, !.runtime = R, !.acts = h]
  BY DEF Refreshed
<1>0. /\ P \in SUBSET Actor /\ s \in SessionType(P) /\ s.rev \in Nat
      /\ s.locks \in [P -> Nat] /\ s.runtime \in [P -> [ver: Nat, at: Nat]]
      /\ s.acts \in Seq(ActivationType)
  BY SessionFields
<1>1. /\ Len(s.acts) \in Nat /\ DOMAIN s.acts = 1 .. Len(s.acts) /\ IsFiniteSet(DOMAIN s.acts)
      /\ \A i \in DOMAIN s.acts : s.acts[i] \in ActivationType
  BY <1>0, ActivationsListed
<1>m. M \subseteq P
  BY DEF Moved
<1>r. /\ L \in [P -> Nat] /\ R \in [P -> [ver: Nat, at: Nat]]
      /\ \A a \in P : L[a] = version[a]
      /\ \A a \in P : IF a \in M THEN R[a].ver = version[a] ELSE R[a] = s.runtime[a]
  <2>1. \A a \in P : version[a] \in Nat
    BY <1>0
  <2>2. s.rev + 1 \in Nat
    BY <1>0
  <2>3. \A a \in P : [ver |-> version[a], at |-> s.rev + 1] \in [ver: Nat, at: Nat]
    BY <2>1, <2>2
  <2> HIDE DEF P, M
  <2>4. R \in [P -> [ver: Nat, at: Nat]]
    BY <1>0, <2>3
  <2> QED BY <2>1, <2>4
<1> HIDE DEF L, R
<1>i. /\ I \in SUBSET Nat /\ IsFiniteSet(I) /\ I \subseteq DOMAIN s.acts
      /\ \A i \in DOMAIN s.acts : i \in I <=> Owed(s, i)
  BY <1>1, FS_Subset DEF Owed
<1> HIDE DEF I
<1>2. /\ N \in Nat /\ lost \in [1 .. N -> I]
      /\ \A m, n \in 1 .. N : lost[m] = lost[n] => m = n
      /\ \A i \in I : \E n \in 1 .. N : lost[n] = i
  BY <1>i, InOrderLists
<1> HIDE DEF lost, N
<1>3. f \in Seq(ActivationType)
  <2>1. \A i \in DOMAIN s.acts : f[i] \in ActivationType
    BY <1>1, OutdatedIs
  <2>2. DOMAIN f = DOMAIN s.acts /\ f = [i \in DOMAIN s.acts |-> f[i]]
    OBVIOUS
  <2> HIDE DEF f
  <2> QED BY <1>0, <2>1, <2>2, Mapped
<1>f. /\ DOMAIN f = DOMAIN s.acts
      /\ \A i \in DOMAIN s.acts :
           f[i] = IF s.acts[i].actor \in M
                  THEN Outdated(s.acts[i], s.runtime[s.acts[i].actor])
                  ELSE s.acts[i]
  OBVIOUS
<1>4. ASSUME NEW n \in 1 .. N
      PROVE  /\ lost[n] \in DOMAIN s.acts /\ Owed(s, lost[n])
             /\ g[n] \in ActivationType /\ g[n].old = lost[n]
             /\ g[n].actor = s.acts[lost[n]].actor /\ g[n].runtime = R[g[n].actor]
             /\ g[n].status = "pending" /\ g[n].lease = 0 /\ g[n].pub = "none"
             /\ g[n].cand = "none"
  <2>1. lost[n] \in DOMAIN s.acts /\ Owed(s, lost[n]) /\ lost[n] \in Nat
    BY <1>2, <1>i
  <2> DEFINE a == s.acts[lost[n]].actor
  <2>2. a \in P /\ a \in Actor
    BY <1>0, <1>m, <2>1 DEF Owed, Lost
  <2>3. R[a] \in [ver: Nat, at: Nat]
    BY <1>r, <2>2
  <2>4. g[n] = NewActivation(a, R[a], lost[n])
    BY <1>2
  <2> HIDE DEF g, a
  <2>5. /\ g[n] \in ActivationType /\ g[n].actor = a /\ g[n].runtime = R[a]
        /\ g[n].old = lost[n] /\ g[n].status = "pending" /\ g[n].lease = 0
        /\ g[n].pub = "none" /\ g[n].cand = "none"
    BY <2>1, <2>2, <2>3, <2>4, NewActivationIs
  <2> QED BY <2>1, <2>5 DEF a
<1>g. DOMAIN g = 1 .. N
  BY <1>2
<1>5. g \in Seq(ActivationType)
  <2>1. g = [n \in 1 .. N |-> g[n]]
    BY <1>g
  <2> HIDE DEF g
  <2>2. g \in [1 .. N -> ActivationType]
    BY <1>4, <2>1
  <2> QED BY <1>2, <2>2, IsASeq
<1> HIDE DEF f, g
<1> DEFINE Z == Len(f)
<1>6. /\ h \in Seq(ActivationType) /\ DOMAIN f \subseteq DOMAIN h
      /\ \A i \in DOMAIN f : h[i] = f[i]
      /\ \A i \in DOMAIN h : i \notin DOMAIN f => i - Z \in DOMAIN g /\ h[i] = g[i - Z]
      /\ \A n \in DOMAIN g : Z + n \in DOMAIN h /\ Z + n \notin DOMAIN f /\ h[Z + n] = g[n]
  BY <1>3, <1>5, Appended
<1>z. Z \in Nat /\ DOMAIN h \subseteq Nat
  BY <1>3, <1>6, ActivationsListed
<1> HIDE DEF h, Z
<1>7. /\ IsSession(t) /\ t.rev = s.rev /\ t.status = s.status /\ t.idem = s.idem
      /\ t.events = s.events /\ t.locks = L /\ t.runtime = R /\ t.acts = h
  <2> HIDE DEF P
  <2>1. t \in SessionType(P)
    BY <1>0, <1>r, <1>6, <1>t DEF SessionType
  <2>2. /\ t.rev = s.rev /\ t.status = s.status /\ t.idem = s.idem
        /\ t.events = s.events /\ t.locks = L /\ t.runtime = R /\ t.acts = h
    BY <1>0, <1>t DEF SessionType
  <2> QED BY <1>0, <2>1, <2>2 DEF IsSession
<1>8. Relocked(s, t)
  <2>1. DOMAIN t.locks = DOMAIN s.locks
    BY <1>0, <1>7, <1>r
  <2> QED BY <1>7, <1>r, <2>1 DEF Relocked
<1>9. Reworked(s, t)
  <2>1. DOMAIN s.acts \subseteq DOMAIN t.acts
    BY <1>6, <1>7, <1>f
  <2>2. \A i \in DOMAIN s.acts :
          t.acts[i] = IF s.acts[i].actor \in Moved(s)
                      THEN Outdated(s.acts[i], s.runtime[s.acts[i].actor])
                      ELSE s.acts[i]
    BY <1>6, <1>7, <1>f
  <2>3. ASSUME NEW j \in DOMAIN t.acts, j \notin DOMAIN s.acts
        PROVE  LET y == t.acts[j]
               IN  /\ y.old \in DOMAIN s.acts /\ Owed(s, y.old)
                   /\ y.actor = s.acts[y.old].actor /\ y.runtime = t.runtime[y.actor]
                   /\ y.status = "pending" /\ y.lease = 0 /\ y.pub = "none"
                   /\ y.cand = "none"
    <3>1. j - Z \in 1 .. N /\ t.acts[j] = g[j - Z]
      BY <1>6, <1>7, <1>f, <1>g, <2>3
    <3> DEFINE n == j - Z
    <3>2. n \in 1 .. N /\ t.acts[j] = g[n] /\ t.runtime = R
      BY <1>7, <3>1
    <3> HIDE DEF n
    <3> QED BY <1>4, <3>2
  <2>4. ASSUME NEW i \in DOMAIN s.acts, Owed(s, i)
        PROVE  \E j \in DOMAIN t.acts :
                 \A n \in DOMAIN t.acts : n \notin DOMAIN s.acts /\ t.acts[n].old = i <=> n = j
    <3>1. PICK m \in 1 .. N : lost[m] = i
      BY <1>2, <1>i, <2>4
    <3>2. Z + m \in DOMAIN h /\ Z + m \notin DOMAIN f /\ h[Z + m] = g[m]
      BY <1>6, <1>g
    <3>3. ASSUME NEW n \in DOMAIN h, n \notin DOMAIN f, h[n].old = i PROVE n = Z + m
      <4>1. n - Z \in 1 .. N /\ h[n] = g[n - Z]
        BY <1>6, <1>g, <3>3
      <4> DEFINE k == n - Z
      <4>2. k \in 1 .. N /\ h[n] = g[k]
        BY <4>1
      <4>3. n \in Nat /\ m \in Nat
        BY <1>2, <1>z
      <4>4. k = m => n = Z + m
        BY <1>z, <4>3
      <4> HIDE DEF k
      <4>5. g[k].old = lost[k]
        BY <1>4, <4>2
      <4>6. lost[k] = i
        BY <3>3, <4>2, <4>5
      <4>7. k = m
        BY <1>2, <3>1, <4>2, <4>6
      <4> QED BY <4>4, <4>7
    <3>4. h[Z + m].old = i
      BY <1>4, <3>1, <3>2
    <3> QED BY <1>7, <1>f, <3>2, <3>3, <3>4
  <2> QED BY <2>1, <2>2, <2>3, <2>4 DEF Reworked
<1> QED BY <1>7, <1>8, <1>9

\* The revision a refresh writes, or the status that makes it stale.
LEMMA RefreshedRev ==
  ASSUME version \in [Actor -> Nat], NEW s, IsSession(s),
         NEW t, t = [Refreshed(s) EXCEPT !.rev = @ + 1]
  PROVE  /\ IsSession(t) /\ t.rev = s.rev + 1 /\ t.status = s.status
         /\ Relocked(s, t) /\ Reworked(s, t)
<1> DEFINE u == Refreshed(s)
           r == u.rev + 1
<1>1. /\ IsSession(u) /\ u.rev = s.rev /\ u.status = s.status
      /\ Relocked(s, u) /\ Reworked(s, u)
  BY RefreshedIs
<1>2. t = [u EXCEPT !.rev = r]
  OBVIOUS
<1> HIDE DEF u
<1>3. u \in SessionType(Participants(u)) /\ Participants(u) \in SUBSET Actor /\ u.rev \in Nat
  BY <1>1, SessionFields
<1>4. r \in Nat /\ r = s.rev + 1
  BY <1>1, <1>3
<1> HIDE DEF r
<1>5. t \in SessionType(Participants(u))
  BY <1>2, <1>3, <1>4 DEF SessionType
<1>6. /\ t.rev = r /\ t.status = u.status /\ t.locks = u.locks /\ t.runtime = u.runtime
      /\ t.idem = u.idem /\ t.events = u.events /\ t.acts = u.acts
  BY <1>2, <1>3 DEF SessionType
<1>7. IsSession(t)
  BY <1>3, <1>5 DEF IsSession
<1>8. Relocked(s, t) /\ Reworked(s, t)
  BY <1>1, <1>6 DEF Relocked, Reworked
<1> QED BY <1>1, <1>4, <1>6, <1>7, <1>8

StaleCopy(s) == [Refreshed(s) EXCEPT !.status = "stale"]

LEMMA RefreshedStale ==
  ASSUME version \in [Actor -> Nat], NEW s, IsSession(s),
         NEW t, t = StaleCopy(s)
  PROVE  /\ IsSession(t) /\ t.rev = s.rev /\ t.status = "stale"
         /\ Relocked(s, t) /\ Reworked(s, t)
<1> DEFINE u == Refreshed(s)
           st == "stale"
<1>1. /\ IsSession(u) /\ u.rev = s.rev /\ Relocked(s, u) /\ Reworked(s, u)
  BY RefreshedIs
<1>2. t = WithStatus(u, st)
  BY DEF WithStatus, StaleCopy
<1>3. st \in SessionStatus /\ IsSession(u)
  BY <1>1 DEF SessionStatus
<1> HIDE DEF u, st
<1>4. IsSession(t) /\ Frame(u, t) /\ t.status = st /\ t.acts = u.acts /\ t.events = u.events
  BY <1>2, <1>3, SessionStatusSet
<1>5. Relocked(s, t) /\ Reworked(s, t) /\ t.rev = s.rev
  BY <1>1, <1>4 DEF Relocked, Reworked, Frame
<1> QED BY <1>4, <1>5 DEF st


(***************************************************************************)
(* Sound journals stay sound.                                              *)
(***************************************************************************)
LEMMA AlikeSound ==
  ASSUME NEW s, NEW t, NEW asked, Sound(s, asked), Alike(s, t)
  PROVE  Sound(t, asked)
<1>1. /\ t.rev = s.rev /\ t.locks = s.locks /\ t.runtime = s.runtime /\ t.idem = s.idem
      /\ t.acts = s.acts /\ t.events = s.events
  BY DEF Alike, Frame
<1>2. Participants(t) = Participants(s)
  BY <1>1 DEF Participants
<1>3. /\ \A ops : Done(t, asked, ops) = Done(s, asked, ops)
      /\ \A op, i : DoneOn(t, asked, op, i) = DoneOn(s, asked, op, i)
  BY <1>1 DEF Done, DoneOn
<1>4. Works(t) /\ Locked(t) /\ Numbered(t)
  BY <1>1, <1>2 DEF Sound, Works, WorkOf, Locked, Numbered
<1>5. Leases(t, asked) /\ Placed(t, asked)
  BY <1>1, <1>3 DEF Sound, Leases, Placed
<1>6. Counted(t, asked)
  BY <1>1, <1>3 DEF Sound, Counted
<1>7. Spoken(t, asked) /\ Replaced(t)
  BY <1>1, <1>3 DEF Sound, Spoken, Replaced
<1> QED BY <1>4, <1>5, <1>6, <1>7 DEF Sound

\* A request that has no receipt is no matter of the journal.
LEMMA AskedMore ==
  ASSUME NEW s, NEW asked, NEW more, NEW k \in Key, Sound(s, asked), s.idem[k] = 0,
         \A x \in Key : x # k => more[x] = asked[x]
  PROVE  Sound(s, more)
<1>1. /\ \A ops : Done(s, more, ops) = Done(s, asked, ops)
      /\ \A ops : \A x \in Done(s, more, ops) : more[x] = asked[x]
  BY DEF Done
<1>2. \A op, i : DoneOn(s, more, op, i) = DoneOn(s, asked, op, i)
  BY <1>1 DEF DoneOn
<1>3. Leases(s, more) /\ Placed(s, more) /\ Spoken(s, more)
  BY <1>1, <1>2 DEF Sound, Leases, Placed, Spoken
<1>4. Counted(s, more)
  BY <1>1, <1>2 DEF Sound, Counted
<1> QED BY <1>3, <1>4 DEF Sound

LEMMA BlankSound ==
  ASSUME NEW s, IsSession(s), Blank(s), NEW asked
  PROVE  Sound(s, asked)
<1>1. s.acts = << >> /\ s.events = 0 /\ (\A k \in Key : s.idem[k] = 0) /\ s.rev \in Nat
  BY SessionFields DEF Blank
<1>2. \A i \in DOMAIN s.acts : FALSE
  BY <1>1
<1>3. /\ \A ops : Done(s, asked, ops) = {}
      /\ Cardinality({}) = 0
  BY <1>1, FS_EmptySet DEF Done
<1>4. Works(s) /\ Locked(s) /\ Numbered(s) /\ Leases(s, asked) /\ Placed(s, asked)
  BY <1>1, <1>2, <1>3 DEF Blank, Works, Numbered, Leases, Placed
<1>5. Counted(s, asked) /\ Spoken(s, asked) /\ Replaced(s)
  BY <1>1, <1>2, <1>3 DEF Counted, Spoken, Replaced
<1> QED BY <1>4, <1>5 DEF Sound

\* A refresh keeps a journal sound.
LEMMA RefreshSound ==
  ASSUME NEW s, IsSession(s), NEW t, IsSession(t), Relocked(s, t), Reworked(s, t),
         t.rev >= s.rev, NEW asked, Sound(s, asked)
  PROVE  Sound(t, asked)
<1> DEFINE M == Moved(s)
<1>p. Participants(t) = Participants(s) /\ t.idem = s.idem /\ t.events = s.events
  BY DEF Relocked, Participants
<1>d. /\ \A ops : Done(t, asked, ops) = Done(s, asked, ops)
      /\ \A op, i : DoneOn(t, asked, op, i) = DoneOn(s, asked, op, i)
  BY <1>p DEF Done, DoneOn
<1>a. /\ \A i \in DOMAIN s.acts : s.acts[i] \in ActivationType /\ WorkOf(s, s.acts[i])
      /\ DOMAIN s.acts \subseteq DOMAIN t.acts /\ 0 \notin DOMAIN s.acts
  <2>1. DOMAIN s.acts = 1 .. Len(s.acts) /\ Len(s.acts) \in Nat
        /\ \A i \in DOMAIN s.acts : s.acts[i] \in ActivationType
    BY SessionFields, ActivationsListed
  <2>2. \A i \in DOMAIN s.acts : WorkOf(s, s.acts[i])
    BY DEF Sound, Works
  <2> QED BY <2>1, <2>2 DEF Reworked
\* What became of the activations there were ...
<1>o. ASSUME NEW i \in DOMAIN s.acts
      PROVE  LET x == s.acts[i]
                 y == t.acts[i]
             IN  /\ SameWork(x, y) /\ y.pub \in {x.pub, "invalidated"}
                 /\ x.pub = "published" => y.pub = "published"
                 /\ x.actor \notin M => y = x
                 /\ x.actor \in M =>
                      /\ ~Unfinished(y)
                      /\ y.status = (IF Unfinished(x) THEN "invalidated" ELSE x.status)
                      /\ y.lease = (IF Unfinished(x) THEN 0 ELSE x.lease)
                      /\ ~(y.cand = "proposed" /\ ~y.sourced)
  <2> DEFINE x == s.acts[i]
             y == t.acts[i]
             rt == s.runtime[x.actor]
  <2>1. y = IF x.actor \in M THEN Outdated(x, rt) ELSE x
    BY DEF Reworked
  <2>2. x \in ActivationType /\ WorkOf(s, x)
    BY <1>a
  <2>3. x.cand = "proposed" /\ ~x.sourced => x.runtime = rt
    BY <2>2 DEF WorkOf
  <2> HIDE DEF x, y, rt
  <2>4. CASE x.actor \in M
    <3>1. y = Outdated(x, rt)
      BY <2>1, <2>4
    <3>2. /\ SameWork(x, y) /\ ~Unfinished(y)
          /\ y.status = (IF Unfinished(x) THEN "invalidated" ELSE x.status)
          /\ y.lease = (IF Unfinished(x) THEN 0 ELSE x.lease)
          /\ y.pub \in {x.pub, "invalidated"} /\ (x.pub = "published" => y.pub = "published")
          /\ y.cand = "proposed" /\ ~y.sourced =>
               x.cand = "proposed" /\ ~x.sourced /\ x.runtime # rt
      BY <2>2, <3>1, OutdatedIs
    <3> QED BY <2>3, <2>4, <3>2 DEF x, y
  <2>5. CASE x.actor \notin M
    <3>1. y = x
      BY <2>1, <2>5
    <3> QED BY <2>5, <3>1 DEF x, y, SameWork
  <2> QED BY <2>4, <2>5
\* ... and the replacements.
<1>n. ASSUME NEW j \in DOMAIN t.acts, j \notin DOMAIN s.acts
      PROVE  LET y == t.acts[j]
             IN  /\ y.old \in DOMAIN s.acts /\ Owed(s, y.old)
                 /\ y.actor = s.acts[y.old].actor /\ y.runtime = t.runtime[y.actor]
                 /\ y.status = "pending" /\ y.lease = 0 /\ y.pub = "none"
                 /\ y.cand = "none"
  BY <1>n DEF Reworked
<1>1. Works(t)
  <2> SUFFICES ASSUME NEW i \in DOMAIN t.acts PROVE WorkOf(t, t.acts[i])
    BY DEF Works
  <2> DEFINE y == t.acts[i]
  <2>1. CASE i \in DOMAIN s.acts
    <3> DEFINE x == s.acts[i]
    <3>1. WorkOf(s, x)
      BY <1>a, <2>1
    <3>2. CASE x.actor \in M
      <4>1. /\ y.actor = x.actor /\ ~Unfinished(y) /\ ~(y.cand = "proposed" /\ ~y.sourced)
            /\ y.lease = (IF Unfinished(x) THEN 0 ELSE x.lease)
            /\ y.status = (IF Unfinished(x) THEN "invalidated" ELSE x.status)
        BY <1>o, <2>1, <3>2 DEF SameWork
      <4> HIDE DEF x, y
      <4>2. (y.lease # 0) <=> (y.status = "claimed")
        BY <3>1, <4>1 DEF WorkOf, Unfinished
      <4>3. WorkOf(t, y)
        BY <1>p, <3>1, <4>1, <4>2 DEF WorkOf
      <4> QED BY <4>3 DEF y
    <3>3. CASE x.actor \notin M
      <4>1. y = x
        BY <1>o, <2>1, <3>3
      <4>2. t.runtime[x.actor] = s.runtime[x.actor]
        BY <3>1, <3>3 DEF Relocked, WorkOf
      <4> HIDE DEF x, y
      <4>3. WorkOf(t, y)
        BY <1>p, <3>1, <4>1, <4>2 DEF WorkOf
      <4> QED BY <4>3 DEF y
    <3> QED BY <3>2, <3>3
  <2>2. CASE i \notin DOMAIN s.acts
    <3>1. /\ y.old \in DOMAIN s.acts /\ y.actor = s.acts[y.old].actor
          /\ y.runtime = t.runtime[y.actor] /\ y.status = "pending" /\ y.lease = 0
          /\ y.pub = "none" /\ y.cand = "none"
      BY <1>n, <2>2
    <3>2. y.actor \in Participants(t)
      BY <1>a, <1>p, <3>1 DEF WorkOf
    <3> HIDE DEF y
    <3>3. WorkOf(t, y)
      BY <3>1, <3>2 DEF WorkOf
    <3> QED BY <3>3 DEF y
  <2> QED BY <2>1, <2>2
<1>2. Locked(t)
  <2>1. \A a \in Participants(s) : a \notin Moved(s) => version[a] = s.locks[a]
    BY DEF Moved
  <2>2. Locked(s)
    BY DEF Sound
  <2> QED BY <1>p, <2>1, <2>2 DEF Locked, Relocked
<1>3. Numbered(t)
  <2>1. s.idem \in [Key -> Nat] /\ s.rev \in Nat /\ t.rev \in Nat
    BY SessionFields
  <2>2. \A k \in Key : s.idem[k] <= s.rev
    BY DEF Sound, Numbered
  <2>3. \A k \in Key : t.idem[k] \in Nat /\ t.idem[k] <= s.rev
    BY <1>p, <2>1, <2>2
  <2> DEFINE m == s.rev
             n == t.rev
  <2>4. m \in Nat /\ n \in Nat /\ n >= m /\ \A k \in Key : t.idem[k] \in Nat /\ t.idem[k] <= m
    BY <2>1, <2>3
  <2> HIDE DEF m, n
  <2>5. \A k \in Key : t.idem[k] <= n
    BY <2>4
  <2> QED BY <2>5 DEF n, Numbered
<1>4. Leases(t, asked)
  <2> SUFFICES ASSUME NEW i \in DOMAIN t.acts, t.acts[i].status = "claimed"
               PROVE  /\ t.acts[i].lease \in DoneOn(t, asked, "claim", i)
                      /\ \A k \in DoneOn(t, asked, "claim", i) :
                           t.idem[k] <= t.idem[t.acts[i].lease]
    BY DEF Leases
  <2>1. i \in DOMAIN s.acts
    BY <1>n
  <2>2. t.acts[i] = s.acts[i]
    BY <1>o, <2>1 DEF Unfinished
  <2> QED BY <1>d, <1>p, <2>1, <2>2 DEF Sound, Leases
<1>5. Placed(t, asked)
  BY <1>a, <1>d DEF Sound, Placed
<1>6. Counted(t, asked)
  <2>1. t.events = Cardinality(Done(t, asked, {"ingest", "publish"}))
    BY <1>d, <1>p DEF Sound, Counted
  <2>2. ASSUME NEW i \in DOMAIN t.acts
        PROVE  /\ Cardinality(DoneOn(t, asked, "submit", i)) =
                    IF t.acts[i].status = "completed" THEN 1 ELSE 0
               /\ Cardinality(DoneOn(t, asked, "publish", i)) =
                    IF t.acts[i].pub = "published" THEN 1 ELSE 0
    <3>1. CASE i \in DOMAIN s.acts
      <4>1. (t.acts[i].status = "completed") <=> (s.acts[i].status = "completed")
        BY <1>o, <3>1 DEF Unfinished
      <4>2. (t.acts[i].pub = "published") <=> (s.acts[i].pub = "published")
        BY <1>o, <3>1
      <4>3. /\ Cardinality(DoneOn(s, asked, "submit", i)) =
                 IF s.acts[i].status = "completed" THEN 1 ELSE 0
            /\ Cardinality(DoneOn(s, asked, "publish", i)) =
                 IF s.acts[i].pub = "published" THEN 1 ELSE 0
        BY <3>1 DEF Sound, Counted
      <4> QED BY <1>d, <4>1, <4>2, <4>3
    <3>2. CASE i \notin DOMAIN s.acts
      <4>1. DoneOn(s, asked, "submit", i) = {} /\ DoneOn(s, asked, "publish", i) = {}
        BY <3>2 DEF Sound, Placed, DoneOn, Done
      <4>2. t.acts[i].status = "pending" /\ t.acts[i].pub = "none"
        BY <1>n, <3>2
      <4> QED BY <1>d, <4>1, <4>2, FS_EmptySet
    <3> QED BY <3>1, <3>2
  <2> QED BY <2>1, <2>2 DEF Counted
<1>7. Spoken(t, asked)
  BY <1>d, <1>p DEF Sound, Spoken
<1>8. Replaced(t)
  <2>r. Replaced(s)
    BY DEF Sound
  <2>1. ASSUME NEW i \in DOMAIN t.acts, t.acts[i].status = "invalidated"
        PROVE  \E j \in DOMAIN t.acts : \A n \in DOMAIN t.acts : t.acts[n].old = i <=> n = j
    <3>1. i \in DOMAIN s.acts
      BY <1>n, <2>1
    <3>2. CASE s.acts[i].status = "invalidated"
      <4>1. PICK j \in DOMAIN s.acts : \A n \in DOMAIN s.acts : s.acts[n].old = i <=> n = j
        BY <2>r, <3>1, <3>2 DEF Replaced
      <4>2. \A n \in DOMAIN s.acts : t.acts[n].old = s.acts[n].old
        BY <1>o DEF SameWork
      <4>3. \A n \in DOMAIN t.acts : n \notin DOMAIN s.acts => t.acts[n].old # i
        BY <1>n, <3>2 DEF Owed, Lost, Unfinished
      <4> QED BY <1>a, <4>1, <4>2, <4>3
    <3>3. CASE s.acts[i].status # "invalidated"
      <4>1. Owed(s, i)
        BY <1>o, <2>1, <3>1, <3>3 DEF Owed, Lost, Unfinished
      <4>2. PICK j \in DOMAIN t.acts :
              \A n \in DOMAIN t.acts : n \notin DOMAIN s.acts /\ t.acts[n].old = i <=> n = j
        BY <3>1, <4>1 DEF Reworked
      <4>3. \A n \in DOMAIN s.acts : t.acts[n].old # i
        <5>1. ASSUME NEW n \in DOMAIN s.acts, t.acts[n].old = i PROVE FALSE
          <6>1. s.acts[n].old = i /\ i # 0
            BY <1>a, <1>o, <3>1, <5>1 DEF SameWork
          <6>2. s.acts[i].status = "invalidated"
            BY <2>r, <6>1 DEF Replaced
          <6> QED BY <3>3, <6>2
        <5> QED BY <5>1
      <4> QED BY <4>2, <4>3
    <3> QED BY <3>2, <3>3
  <2>2. ASSUME NEW i \in DOMAIN t.acts, t.acts[i].old # 0
        PROVE  /\ t.acts[i].old \in DOMAIN t.acts
               /\ t.acts[t.acts[i].old].status = "invalidated"
               /\ t.acts[t.acts[i].old].actor = t.acts[i].actor
    <3>1. CASE i \in DOMAIN s.acts
      <4> DEFINE o == s.acts[i].old
      <4>1. t.acts[i].old = o /\ t.acts[i].actor = s.acts[i].actor /\ o # 0
        BY <1>o, <2>2, <3>1 DEF SameWork
      <4>2. /\ o \in DOMAIN s.acts /\ s.acts[o].status = "invalidated"
            /\ s.acts[o].actor = s.acts[i].actor
        BY <2>r, <3>1, <4>1 DEF Replaced
      <4> HIDE DEF o
      <4>3. t.acts[o].status = "invalidated" /\ t.acts[o].actor = s.acts[o].actor
        BY <1>o, <4>2 DEF SameWork, Unfinished
      <4> QED BY <1>a, <4>1, <4>2, <4>3
    <3>2. CASE i \notin DOMAIN s.acts
      <4> DEFINE o == t.acts[i].old
      <4>1. o \in DOMAIN s.acts /\ Owed(s, o) /\ t.acts[i].actor = s.acts[o].actor
        BY <1>n, <3>2
      <4> HIDE DEF o
      <4>2. t.acts[o].status = "invalidated" /\ t.acts[o].actor = s.acts[o].actor
        BY <1>o, <4>1 DEF SameWork, Owed, Lost
      <4> QED BY <1>a, <4>1, <4>2 DEF o
    <3> QED BY <3>1, <3>2
  <2> QED BY <2>1, <2>2 DEF Replaced
<1> QED BY <1>1, <1>2, <1>3, <1>4, <1>5, <1>6, <1>7, <1>8 DEF Sound

\* What a draft makes of one activation x of s; "here" if it is the one the
\* request is about.
Changed(s, x, y, q, k, here) ==
  /\ SameWork(x, y) /\ WorkOf(s, y)
  /\ y.status = "invalidated" <=> x.status = "invalidated"
  /\ y.status = "completed" <=> x.status = "completed" \/ (q.op = "submit" /\ here)
  /\ q.op = "submit" /\ here => x.status = "claimed" /\ x.lease = q.lease
  /\ q.op = "claim" /\ here => Unfinished(x)
  /\ y.pub = "published" <=> x.pub = "published" \/ (q.op = "publish" /\ here)
  /\ q.op = "publish" /\ here => x.pub = "pending_audience"
  /\ y.status = "claimed" =>
       IF q.op = "claim" /\ here THEN y.lease = k
       ELSE x.status = "claimed" /\ y.lease = x.lease

LEMMA SettledChanged ==
  ASSUME NEW s, NEW x, NEW y, WorkOf(s, x), Settled(x, y), NEW q, NEW k, NEW here \in BOOLEAN,
         here => q.op \notin {"submit", "claim", "publish"}
  PROVE  Changed(s, x, y, q, k, here)
<1>1. WorkOf(s, y)
  BY DEF WorkOf, Settled, SameWork, Unfinished
<1>2. /\ SameWork(x, y) /\ y.status = x.status /\ y.lease = x.lease /\ y.pub = x.pub
  BY DEF Settled
<1> QED BY <1>1, <1>2 DEF Changed

LEMMA DraftChanges ==
  ASSUME NEW s, NEW t, NEW asked, Sound(s, asked), NEW k \in Key, NEW q, Draft(s, t, q, k),
         t.status \in ActiveStatus
  PROVE  /\ DOMAIN s.acts \subseteq DOMAIN t.acts
         /\ \A i \in DOMAIN t.acts : i \notin DOMAIN s.acts => NewWork(s, t.acts[i])
         /\ \A i \in DOMAIN s.acts : Changed(s, s.acts[i], t.acts[i], q, k, i = q.act)
         /\ q.op \in {"submit", "publish"} => q.act \in DOMAIN s.acts
         /\ t.events = IF q.op \in {"ingest", "publish"} THEN s.events + 1 ELSE s.events
<1>w. \A i \in DOMAIN s.acts : WorkOf(s, s.acts[i])
  BY DEF Sound, Works
<1>u. ASSUME NEW i \in DOMAIN s.acts, Settled(s.acts[i], t.acts[i]),
             q.op = "ingest" \/ q.op = "cancel" \/ i # q.act
      PROVE  Changed(s, s.acts[i], t.acts[i], q, k, i = q.act)
  <2> DEFINE here == i = q.act
  <2>1. here \in BOOLEAN /\ (here => q.op \notin {"submit", "claim", "publish"})
    BY <1>u
  <2> HIDE DEF here
  <2>2. Changed(s, s.acts[i], t.acts[i], q, k, here)
    BY <1>u, <1>w, <2>1, SettledChanged
  <2> QED BY <2>2 DEF here
<1>v. ASSUME Worked(s, t, q.act)
      PROVE  \A i \in DOMAIN s.acts : i # q.act => Settled(s.acts[i], t.acts[i])
  BY <1>v, UnchangedIsSettled DEF Worked
<1>1. CASE q.op = "ingest" /\ Ingested(s, t)
  <2>1. Grown(s, t, {}) /\ t.events = s.events + 1
    BY <1>1 DEF Ingested
  <2> QED BY <1>1, <1>u, <2>1 DEF Grown
<1>2. CASE q.op = "publish" /\ Published(s, t, q.act)
  <2>1. Grown(s, t, {q.act}) /\ t.events = s.events + 1 /\ q.act \in DOMAIN s.acts
    BY <1>2 DEF Published
  <2> DEFINE x == s.acts[q.act]
             y == t.acts[q.act]
  <2>2. Changed(s, x, y, q, k, TRUE)
    <3>1. WorkOf(s, x)
      BY <1>w, <2>1
    <3>2. /\ x.pub = "pending_audience" /\ y.pub = "published" /\ SameWork(x, y)
          /\ y.status = x.status /\ y.lease = x.lease
          /\ ~(y.cand = "proposed" /\ ~y.sourced)
      BY <1>2 DEF Published
    <3> HIDE DEF x, y
    <3>3. WorkOf(s, y)
      BY <3>1, <3>2 DEF WorkOf, SameWork, Unfinished
    <3> QED BY <1>2, <3>2, <3>3 DEF Changed
  <2>3. \A i \in DOMAIN s.acts : Changed(s, s.acts[i], t.acts[i], q, k, i = q.act)
    BY <1>u, <2>1, <2>2 DEF Grown
  <2> QED BY <1>2, <2>1, <2>3 DEF Grown
<1>3. CASE q.op = "claim" /\ Claimed(s, t, q.act, k)
  <2>1. Worked(s, t, q.act) /\ q.act \in DOMAIN s.acts /\ t.events = s.events
        /\ DOMAIN t.acts = DOMAIN s.acts
    BY <1>3 DEF Claimed, Worked
  <2> DEFINE x == s.acts[q.act]
             y == t.acts[q.act]
  <2>2. Changed(s, x, y, q, k, TRUE)
    <3>1. WorkOf(s, x)
      BY <1>w, <2>1
    <3>2. /\ Unfinished(x) /\ y.status = "claimed" /\ y.lease = k /\ y.pub = x.pub
          /\ SameWork(x, y)
      BY <1>3 DEF Claimed, Worked
    <3>3. k # 0
      BY DEF Key
    <3> HIDE DEF x, y
    <3>4. WorkOf(s, y)
      BY <3>1, <3>2, <3>3 DEF WorkOf, SameWork, Unfinished
    <3>5. x.status \in {"pending", "claimed"} /\ x.pub = "none"
      BY <3>1, <3>2 DEF Unfinished, WorkOf
    <3> QED BY <1>3, <3>2, <3>4, <3>5 DEF Changed
  <2>3. \A i \in DOMAIN s.acts : Changed(s, s.acts[i], t.acts[i], q, k, i = q.act)
    BY <1>u, <1>v, <2>1, <2>2
  <2> QED BY <1>3, <2>1, <2>3
<1>4. CASE q.op = "submit" /\ q.lease # 0 /\ Submitted(s, t, q.act, q.lease)
  <2>1. Worked(s, t, q.act) /\ q.act \in DOMAIN s.acts /\ t.events = s.events
        /\ DOMAIN t.acts = DOMAIN s.acts
    BY <1>4 DEF Submitted, Worked
  <2> DEFINE x == s.acts[q.act]
             y == t.acts[q.act]
  <2>2. Changed(s, x, y, q, k, TRUE)
    <3>1. WorkOf(s, x)
      BY <1>w, <2>1
    <3>2. /\ y.status = "completed" /\ y.lease = 0 /\ y.pub \in {"none", "pending_audience"}
          /\ x.lease = q.lease /\ SameWork(x, y)
      BY <1>4 DEF Submitted, Worked
    <3> HIDE DEF x, y
    <3>3. x.status = "claimed" /\ x.pub = "none" /\ x.runtime = s.runtime[x.actor]
      BY <1>4, <3>1, <3>2 DEF WorkOf, Unfinished
    <3>4. WorkOf(s, y)
      BY <3>1, <3>2, <3>3 DEF WorkOf, SameWork, Unfinished
    <3> QED BY <1>4, <3>2, <3>3, <3>4 DEF Changed
  <2>3. \A i \in DOMAIN s.acts : Changed(s, s.acts[i], t.acts[i], q, k, i = q.act)
    BY <1>u, <1>v, <2>1, <2>2
  <2> QED BY <1>4, <2>1, <2>3
<1>5. CASE q.op = "cancel" /\ q.lease # 0 /\ Returned(s, t, q.act, q.lease)
  <2>1. Worked(s, t, q.act) /\ q.act \in DOMAIN s.acts /\ t.events = s.events
        /\ DOMAIN t.acts = DOMAIN s.acts
    BY <1>5 DEF Returned, Worked
  <2> DEFINE x == s.acts[q.act]
             y == t.acts[q.act]
  <2>2. Changed(s, x, y, q, k, TRUE)
    <3>1. WorkOf(s, x)
      BY <1>w, <2>1
    <3>2. /\ y.status = "pending" /\ y.lease = 0 /\ y.pub = x.pub
          /\ x.lease = q.lease /\ SameWork(x, y)
      BY <1>5 DEF Returned, Worked
    <3> HIDE DEF x, y
    <3>3. x.status = "claimed" /\ x.pub = "none" /\ x.runtime = s.runtime[x.actor]
      BY <1>5, <3>1, <3>2 DEF WorkOf, Unfinished
    <3>4. WorkOf(s, y)
      BY <3>1, <3>2, <3>3 DEF WorkOf, SameWork, Unfinished
    <3> QED BY <1>5, <3>2, <3>3, <3>4 DEF Changed
  <2>3. \A i \in DOMAIN s.acts : Changed(s, s.acts[i], t.acts[i], q, k, i = q.act)
    BY <1>u, <1>v, <2>1, <2>2
  <2> QED BY <1>5, <2>1, <2>3
<1>6. t.status \notin {"aborted", "closed"}
  BY DEF ActiveStatus
<1> QED BY <1>1, <1>2, <1>3, <1>4, <1>5, <1>6 DEF Draft

\* The receipts of w are those of s and that of key k.
Receipted(s, w, k) ==
  s.idem[k] = 0 /\ w.idem[k] # 0 /\ \A x \in Key : x # k => w.idem[x] = s.idem[x]

OneMore(s, w, asked, k) ==
  /\ \A ops : /\ IsFiniteSet(Done(s, asked, ops)) /\ k \notin Done(s, asked, ops)
              /\ Done(w, asked, ops) = IF asked[k].op \in ops
                                       THEN Done(s, asked, ops) \cup {k}
                                       ELSE Done(s, asked, ops)
  /\ \A op, i : /\ IsFiniteSet(DoneOn(s, asked, op, i)) /\ k \notin DoneOn(s, asked, op, i)
                /\ DoneOn(w, asked, op, i) = IF asked[k].op = op /\ asked[k].act = i
                                             THEN DoneOn(s, asked, op, i) \cup {k}
                                             ELSE DoneOn(s, asked, op, i)

LEMMA ReceiptAdded ==
  ASSUME NEW s, NEW w, NEW asked, NEW k \in Key, asked[k] # None, Receipted(s, w, k)
  PROVE  OneMore(s, w, asked, k)
<1> USE DEF Receipted
<1>0. IsFiniteSet(Key)
  BY BoundAssumption, FS_Interval DEF Key
<1>1. ASSUME NEW ops
      PROVE  /\ IsFiniteSet(Done(s, asked, ops)) /\ k \notin Done(s, asked, ops)
             /\ Done(w, asked, ops) = IF asked[k].op \in ops
                                      THEN Done(s, asked, ops) \cup {k}
                                      ELSE Done(s, asked, ops)
  <2>1. Done(s, asked, ops) \in SUBSET Key
    BY DEF Done
  <2>2. IsFiniteSet(Done(s, asked, ops))
    BY <1>0, <2>1, FS_Subset
  <2> QED BY <2>2 DEF Done
<1>2. ASSUME NEW op, NEW i
      PROVE  /\ IsFiniteSet(DoneOn(s, asked, op, i)) /\ k \notin DoneOn(s, asked, op, i)
             /\ DoneOn(w, asked, op, i) = IF asked[k].op = op /\ asked[k].act = i
                                          THEN DoneOn(s, asked, op, i) \cup {k}
                                          ELSE DoneOn(s, asked, op, i)
  <2>1. DoneOn(s, asked, op, i) \in SUBSET Done(s, asked, {op})
    BY DEF DoneOn
  <2>2. IsFiniteSet(DoneOn(s, asked, op, i))
    BY <1>1, <2>1, FS_Subset
  <2>3. Done(w, asked, {op}) = IF asked[k].op = op THEN Done(s, asked, {op}) \cup {k}
                               ELSE Done(s, asked, {op})
    BY <1>1
  <2>4. k \notin Done(s, asked, {op})
    BY <1>1
  <2> QED BY <2>2, <2>3, <2>4 DEF DoneOn
<1> QED BY <1>1, <1>2 DEF OneMore

\* Writing a draft, with the receipt of its request, leaves a sound journal.
LEMMA DraftSound ==
  ASSUME NEW s, IsSession(s), NEW t, IsSession(t), NEW asked, Sound(s, asked),
         NEW k \in Key, asked[k] # None, s.idem[k] = 0, Draft(s, t, asked[k], k),
         NEW w, t.status \in ActiveStatus, w.acts = t.acts, w.events = t.events,
         w.runtime = t.runtime, w.locks = t.locks, w.rev = s.rev + 1,
         \A x \in Key : w.idem[x] = IF x = k THEN s.rev + 1 ELSE s.idem[x]
  PROVE  Sound(w, asked)
<1> DEFINE q == asked[k]
<1>p. Participants(w) = Participants(s) /\ w.runtime = s.runtime /\ w.locks = s.locks
  BY DEF Participants, Draft, Frame
<1>c. /\ DOMAIN s.acts \subseteq DOMAIN w.acts
      /\ \A i \in DOMAIN w.acts : i \notin DOMAIN s.acts => NewWork(s, w.acts[i])
      /\ \A i \in DOMAIN s.acts : Changed(s, s.acts[i], w.acts[i], q, k, i = q.act)
      /\ q.op \in {"submit", "publish"} => q.act \in DOMAIN s.acts
      /\ w.events = IF q.op \in {"ingest", "publish"} THEN s.events + 1 ELSE s.events
  BY DraftChanges
<1>n. /\ s.rev \in Nat /\ s.rev + 1 \in Nat /\ s.rev + 1 > s.rev
      /\ \A x \in Key : s.idem[x] \in Nat /\ s.idem[x] <= s.rev
      /\ w.idem[k] = s.rev + 1 /\ \A x \in Key : x # k => w.idem[x] = s.idem[x]
  <2>1. s.rev \in Nat /\ s.idem \in [Key -> Nat]
    BY SessionFields
  <2>2. \A x \in Key : s.idem[x] <= s.rev
    BY DEF Sound, Numbered
  <2> QED BY <2>1, <2>2
<1>a. /\ \A i \in DOMAIN s.acts : s.acts[i] \in ActivationType /\ WorkOf(s, s.acts[i])
      /\ 0 \notin DOMAIN s.acts
  <2>1. DOMAIN s.acts = 1 .. Len(s.acts) /\ Len(s.acts) \in Nat
        /\ \A i \in DOMAIN s.acts : s.acts[i] \in ActivationType
    BY SessionFields, ActivationsListed
  <2>2. \A i \in DOMAIN s.acts : WorkOf(s, s.acts[i])
    BY DEF Sound, Works
  <2> QED BY <2>1, <2>2
<1>k. w.idem[k] # 0
  BY <1>n
<1>d. /\ \A ops : /\ IsFiniteSet(Done(s, asked, ops)) /\ k \notin Done(s, asked, ops)
                  /\ Done(w, asked, ops) = IF q.op \in ops THEN Done(s, asked, ops) \cup {k}
                                           ELSE Done(s, asked, ops)
      /\ \A op, i : /\ IsFiniteSet(DoneOn(s, asked, op, i)) /\ k \notin DoneOn(s, asked, op, i)
                    /\ DoneOn(w, asked, op, i) = IF q.op = op /\ q.act = i
                                                 THEN DoneOn(s, asked, op, i) \cup {k}
                                                 ELSE DoneOn(s, asked, op, i)
  <2>1. Receipted(s, w, k)
    BY <1>k, <1>n DEF Receipted
  <2>2. OneMore(s, w, asked, k)
    BY <2>1, ReceiptAdded
  <2> QED BY <2>2 DEF OneMore
<1>m. /\ \A ops : \A x \in Done(s, asked, ops) : x \in Key
      /\ \A op, i : \A x \in DoneOn(s, asked, op, i) : x \in Key
  BY DEF Done, DoneOn
<1>s. /\ Leases(s, asked) /\ Placed(s, asked) /\ Counted(s, asked) /\ Spoken(s, asked)
      /\ Replaced(s) /\ Locked(s)
  BY DEF Sound
<1> HIDE DEF q
<1>1. Works(w)
  <2> SUFFICES ASSUME NEW i \in DOMAIN w.acts PROVE WorkOf(w, w.acts[i])
    BY DEF Works
  <2>1. WorkOf(s, w.acts[i])
    <3>1. NewWork(s, w.acts[i]) => WorkOf(s, w.acts[i])
      BY DEF NewWork, WorkOf
    <3> QED BY <1>c, <3>1 DEF Changed
  <2> QED BY <1>p, <2>1 DEF WorkOf
<1>2. Locked(w)
  BY <1>p, <1>s DEF Locked
<1>3. Numbered(w)
  <2>1. ASSUME NEW x \in Key PROVE w.idem[x] <= s.rev + 1
    <3>1. s.idem[x] <= s.rev + 1
      BY <1>n
    <3> QED BY <1>n, <3>1
  <2> QED BY <2>1 DEF Numbered
<1>4. Leases(w, asked)
  <2> SUFFICES ASSUME NEW i \in DOMAIN w.acts, w.acts[i].status = "claimed"
               PROVE  /\ w.acts[i].lease \in DoneOn(w, asked, "claim", i)
                      /\ \A x \in DoneOn(w, asked, "claim", i) :
                           w.idem[x] <= w.idem[w.acts[i].lease]
    BY DEF Leases
  <2>1. i \in DOMAIN s.acts
    BY <1>c DEF NewWork
  <2> DEFINE y == w.acts[i]
             x == s.acts[i]
  <2>2. IF q.op = "claim" /\ i = q.act THEN y.lease = k
        ELSE x.status = "claimed" /\ y.lease = x.lease
    BY <1>c, <2>1 DEF Changed
  <2>3. CASE q.op = "claim" /\ i = q.act
    <3>1. y.lease = k /\ DoneOn(w, asked, "claim", i) = DoneOn(s, asked, "claim", i) \cup {k}
      BY <1>d, <2>2, <2>3
    <3>2. ASSUME NEW z \in DoneOn(s, asked, "claim", i) PROVE w.idem[z] <= w.idem[k]
      <4>1. z \in Key /\ z # k
        BY <1>d, <1>m
      <4>2. w.idem[z] = s.idem[z] /\ w.idem[k] = s.rev + 1 /\ s.idem[z] \in Nat
            /\ s.idem[z] <= s.rev
        BY <1>n, <4>1
      <4> QED BY <1>n, <4>2
    <3>3. w.idem[k] <= w.idem[k]
      BY <1>n
    <3> QED BY <3>1, <3>2, <3>3
  <2>4. CASE ~(q.op = "claim" /\ i = q.act)
    <3>1. x.status = "claimed" /\ y.lease = x.lease
          /\ DoneOn(w, asked, "claim", i) = DoneOn(s, asked, "claim", i)
      BY <1>d, <2>2, <2>4
    <3>2. /\ x.lease \in DoneOn(s, asked, "claim", i)
          /\ \A z \in DoneOn(s, asked, "claim", i) : s.idem[z] <= s.idem[x.lease]
      BY <1>s, <2>1, <3>1 DEF Leases
    <3>3. \A z \in DoneOn(s, asked, "claim", i) : w.idem[z] = s.idem[z]
      BY <1>d, <1>m, <1>n
    <3> QED BY <3>1, <3>2, <3>3
  <2> QED BY <2>3, <2>4
<1>5. Placed(w, asked)
  <2>1. ASSUME NEW x \in Done(w, asked, {"submit", "publish"})
        PROVE  asked[x].act \in DOMAIN s.acts
    <3>1. x \in Done(s, asked, {"submit", "publish"})
          \/ (x = k /\ q.op \in {"submit", "publish"})
      BY <1>d
    <3> QED BY <1>c, <1>s, <3>1 DEF Placed, q
  <2> QED BY <1>c, <2>1 DEF Placed
<1>6. w.events = Cardinality(Done(w, asked, {"ingest", "publish"}))
  <2>1. s.events = Cardinality(Done(s, asked, {"ingest", "publish"}))
    BY <1>s DEF Counted
  <2> DEFINE D == Done(s, asked, {"ingest", "publish"})
  <2>2. IsFiniteSet(D) /\ k \notin D
    BY <1>d
  <2>3. Cardinality(D \cup {k}) = Cardinality(D) + 1
    BY <2>2, FS_AddElement
  <2> QED BY <1>c, <1>d, <2>1, <2>3
<1>u. ASSUME NEW x \in Done(s, asked, {"submit"}), NEW i, asked[x].act = i
      PROVE  i \in DOMAIN s.acts /\ s.acts[i].status = "completed"
  <2>1. x \in Done(s, asked, {"submit", "publish"}) /\ x \in DoneOn(s, asked, "submit", i)
    BY <1>u DEF Done, DoneOn
  <2>2. i \in DOMAIN s.acts
    BY <1>s, <1>u, <2>1 DEF Placed
  <2>3. Cardinality(DoneOn(s, asked, "submit", i)) # 0
    BY <1>d, <2>1, FS_EmptySet
  <2> QED BY <1>s, <2>2, <2>3 DEF Counted
<1>7. ASSUME NEW i \in DOMAIN w.acts
      PROVE  /\ Cardinality(DoneOn(w, asked, "submit", i)) =
                  IF w.acts[i].status = "completed" THEN 1 ELSE 0
             /\ Cardinality(DoneOn(w, asked, "publish", i)) =
                  IF w.acts[i].pub = "published" THEN 1 ELSE 0
  <2> DEFINE S == DoneOn(s, asked, "submit", i)
             P == DoneOn(s, asked, "publish", i)
  <2>0. /\ Cardinality(S \cup {k}) = Cardinality(S) + 1
        /\ Cardinality(P \cup {k}) = Cardinality(P) + 1
    BY <1>d, FS_AddElement
  <2>1. CASE i \in DOMAIN s.acts
    <3>1. /\ Cardinality(S) = IF s.acts[i].status = "completed" THEN 1 ELSE 0
          /\ Cardinality(P) = IF s.acts[i].pub = "published" THEN 1 ELSE 0
      BY <1>s, <2>1 DEF Counted
    <3>2. Changed(s, s.acts[i], w.acts[i], q, k, i = q.act)
      BY <1>c, <2>1
    <3>3. Cardinality(DoneOn(w, asked, "submit", i)) =
            IF w.acts[i].status = "completed" THEN 1 ELSE 0
      <4>1. CASE q.op = "submit" /\ q.act = i
        <5>1. DoneOn(w, asked, "submit", i) = S \cup {k}
          BY <1>d, <4>1
        <5>2. Cardinality(S) = 0
          BY <3>1, <3>2, <4>1 DEF Changed
        <5>3. w.acts[i].status = "completed"
          BY <3>2, <4>1 DEF Changed
        <5> QED BY <2>0, <5>1, <5>2, <5>3
      <4>2. CASE ~(q.op = "submit" /\ q.act = i)
        <5>1. DoneOn(w, asked, "submit", i) = S
          BY <1>d, <4>2
        <5>2. (w.acts[i].status = "completed") <=> (s.acts[i].status = "completed")
          BY <3>2, <4>2 DEF Changed
        <5> QED BY <3>1, <5>1, <5>2
      <4> QED BY <4>1, <4>2
    <3>4. Cardinality(DoneOn(w, asked, "publish", i)) =
            IF w.acts[i].pub = "published" THEN 1 ELSE 0
      <4>1. CASE q.op = "publish" /\ q.act = i
        <5>1. DoneOn(w, asked, "publish", i) = P \cup {k}
          BY <1>d, <4>1
        <5>2. Cardinality(P) = 0
          BY <3>1, <3>2, <4>1 DEF Changed
        <5>3. w.acts[i].pub = "published"
          BY <3>2, <4>1 DEF Changed
        <5> QED BY <2>0, <5>1, <5>2, <5>3
      <4>2. CASE ~(q.op = "publish" /\ q.act = i)
        <5>1. DoneOn(w, asked, "publish", i) = P
          BY <1>d, <4>2
        <5>2. (w.acts[i].pub = "published") <=> (s.acts[i].pub = "published")
          BY <3>2, <4>2 DEF Changed
        <5> QED BY <3>1, <5>1, <5>2
      <4> QED BY <4>1, <4>2
    <3> QED BY <3>3, <3>4
  <2>2. CASE i \notin DOMAIN s.acts
    <3>1. S = {} /\ P = {}
      BY <1>s, <2>2 DEF Placed, DoneOn, Done
    <3>2. ~(q.op \in {"submit", "publish"} /\ q.act = i)
      BY <1>c, <2>2
    <3>3. DoneOn(w, asked, "submit", i) = {} /\ DoneOn(w, asked, "publish", i) = {}
      BY <1>d, <3>1, <3>2
    <3>4. w.acts[i].status = "pending" /\ w.acts[i].pub = "none"
      BY <1>c, <2>2 DEF NewWork
    <3> QED BY <3>3, <3>4, FS_EmptySet
  <2> QED BY <2>1, <2>2
<1>8. Counted(w, asked)
  BY <1>6, <1>7 DEF Counted
<1>9. Spoken(w, asked)
  <2> SUFFICES ASSUME NEW x \in Done(w, asked, {"submit"})
               PROVE  LET claims == DoneOn(w, asked, "claim", asked[x].act)
                      IN  /\ asked[x].lease \in claims
                          /\ \A z \in claims : /\ w.idem[z] <= w.idem[asked[x].lease]
                                               /\ w.idem[z] < w.idem[x]
    BY DEF Spoken
  <2> DEFINE i == asked[x].act
             C == DoneOn(s, asked, "claim", i)
  <2>c. \A z \in C : z \in Key /\ z # k /\ w.idem[z] = s.idem[z]
    BY <1>d, <1>m, <1>n
  <2>1. CASE x = k
    <3>1. q.op = "submit"
      BY <1>d, <2>1
    <3>2. i = q.act /\ i \in DOMAIN s.acts /\ asked[x].lease = q.lease
      BY <1>c, <2>1, <3>1 DEF q
    <3>3. s.acts[i].status = "claimed" /\ s.acts[i].lease = q.lease
      BY <1>c, <3>1, <3>2 DEF Changed
    <3>4. q.lease \in C /\ \A z \in C : s.idem[z] <= s.idem[q.lease]
      BY <1>s, <3>2, <3>3 DEF Leases
    <3>5. DoneOn(w, asked, "claim", i) = C
      BY <1>d, <3>1
    <3>6. ASSUME NEW z \in C PROVE w.idem[z] <= w.idem[q.lease] /\ w.idem[z] < w.idem[k]
      <4>1. /\ w.idem[z] = s.idem[z] /\ s.idem[z] \in Nat /\ s.idem[z] <= s.rev
            /\ w.idem[k] = s.rev + 1 /\ w.idem[q.lease] = s.idem[q.lease]
        BY <1>n, <2>c, <3>4
      <4> QED BY <1>n, <3>4, <4>1
    <3> QED BY <2>1, <3>2, <3>4, <3>5, <3>6
  <2>2. CASE x # k
    <3>1. x \in Done(s, asked, {"submit"})
      BY <1>d, <2>2
    <3>2. i \in DOMAIN s.acts /\ s.acts[i].status = "completed"
      BY <1>u, <3>1
    <3>3. ~(q.op = "claim" /\ q.act = i)
      BY <1>c, <3>2 DEF Changed, Unfinished
    <3>4. DoneOn(w, asked, "claim", i) = C
      BY <1>d, <3>3
    <3>5. /\ asked[x].lease \in C
          /\ \A z \in C : s.idem[z] <= s.idem[asked[x].lease] /\ s.idem[z] < s.idem[x]
      BY <1>s, <3>1 DEF Spoken
    <3>6. w.idem[x] = s.idem[x]
      BY <1>m, <1>n, <2>2, <3>1
    <3> QED BY <2>c, <3>4, <3>5, <3>6
  <2> QED BY <2>1, <2>2
<1>10. Replaced(w)
  <2>o. \A i \in DOMAIN s.acts :
          /\ w.acts[i].old = s.acts[i].old /\ w.acts[i].actor = s.acts[i].actor
          /\ (w.acts[i].status = "invalidated") <=> (s.acts[i].status = "invalidated")
    BY <1>c DEF Changed, SameWork
  <2>n. \A i \in DOMAIN w.acts : i \notin DOMAIN s.acts =>
          w.acts[i].old = 0 /\ w.acts[i].status = "pending"
    BY <1>c DEF NewWork
  <2>1. ASSUME NEW i \in DOMAIN w.acts, w.acts[i].status = "invalidated"
        PROVE  \E j \in DOMAIN w.acts : \A n \in DOMAIN w.acts : w.acts[n].old = i <=> n = j
    <3>1. i \in DOMAIN s.acts /\ s.acts[i].status = "invalidated" /\ i # 0
      BY <1>a, <2>1, <2>n, <2>o
    <3>2. PICK j \in DOMAIN s.acts : \A n \in DOMAIN s.acts : s.acts[n].old = i <=> n = j
      BY <1>s, <3>1 DEF Replaced
    <3> QED BY <1>c, <2>n, <2>o, <3>1, <3>2
  <2>2. ASSUME NEW i \in DOMAIN w.acts, w.acts[i].old # 0
        PROVE  /\ w.acts[i].old \in DOMAIN w.acts
               /\ w.acts[w.acts[i].old].status = "invalidated"
               /\ w.acts[w.acts[i].old].actor = w.acts[i].actor
    <3> DEFINE o == s.acts[i].old
    <3>1. i \in DOMAIN s.acts /\ w.acts[i].old = o /\ o # 0
      BY <2>2, <2>n, <2>o
    <3>2. o \in DOMAIN s.acts /\ s.acts[o].status = "invalidated"
          /\ s.acts[o].actor = s.acts[i].actor
      BY <1>s, <3>1 DEF Replaced
    <3> HIDE DEF o
    <3> QED BY <1>c, <2>o, <3>1, <3>2
  <2> QED BY <2>1, <2>2 DEF Replaced
<1> QED BY <1>1, <1>2, <1>3, <1>4, <1>5, <1>8, <1>9, <1>10 DEF Sound

(***************************************************************************)
(* Requests and jobs.                                                      *)
(***************************************************************************)
LEMMA TypesFollow == ASSUME TypeInv PROVE TypeOK
<1>1. /\ \A c \in Conv : Live(c) => IsSession(journal[c])
      /\ \A k \in Key : ledger[k] # None => ledger[k] \in CommitType
      /\ \A k \in Key : sent[k] # None => sent[k] \in RequestType
  BY DEF TypeInv, JournalType, LedgerType, SentType
<1>2. /\ version \in [Actor -> Nat] /\ fact \in [Actor -> Key \cup {0}] /\ scene \in {0, 1}
      /\ lapsed \subseteq Key /\ changes \in 0 .. MaxChange
  BY DEF TypeInv, WorldType
<1>3. ASSUME NEW p \in Proc
      PROVE  /\ job[p].pc \in {"idle", "scan", "create", "fresh", "begin", "commit",
                               "finish", "write"}
             /\ job[p].pc \in {"scan", "create", "fresh", "commit", "finish", "write"} =>
                  IsSession(job[p].copy)
             /\ job[p].pc \in {"fresh", "begin", "commit", "finish", "write"} =>
                  job[p].conv \in Conv
  <2>1. JobOK(job[p], sent)
    BY DEF TypeInv, JobsType
  <2> QED BY <2>1 DEF JobOK, Writing
<1> QED BY <1>1, <1>2, <1>3 DEF TypeOK

LEMMA IdleOK == ASSUME NEW asked PROVE JobOK(Idle, asked) /\ Idle.pc = "idle"
BY DEF JobOK, Idle, Writing

LEMMA JobOKStays ==
  ASSUME NEW j, NEW asked, NEW more, JobOK(j, asked),
         \A k \in Key : asked[k] # None => more[k] = asked[k]
  PROVE  JobOK(j, more)
<1>1. j.pc # "idle" /\ j.op # "get" =>
        /\ j.key \in Key /\ more[j.key] # None /\ more[j.key].op = j.op
        /\ j.op # "open" => more[j.key].conv = j.conv
  BY DEF JobOK
<1> QED BY <1>1 DEF JobOK

\* A job at another point of its handler.
NextJob(j, pc, copy) == [j EXCEPT !.pc = pc, !.copy = copy]

LEMMA NextJobIs ==
  ASSUME NEW j, NEW asked, JobOK(j, asked), NEW pc, NEW copy,
         NEW n, n = NextJob(j, pc, copy)
  PROVE  /\ n = [pc |-> n.pc, op |-> n.op, conv |-> n.conv, key |-> n.key, exp |-> n.exp,
                 copy |-> n.copy]
         /\ n.pc = pc /\ n.copy = copy /\ n.op = j.op /\ n.conv = j.conv
         /\ n.key = j.key /\ n.exp = j.exp
<1>1. j = [pc |-> j.pc, op |-> j.op, conv |-> j.conv, key |-> j.key, exp |-> j.exp,
           copy |-> j.copy]
  BY DEF JobOK
<1> QED BY <1>1 DEF NextJob

\* The process p is at j now.
Turn(p, j) == job' = [job EXCEPT ![p] = j] /\ JobOK(j, sent')

LEMMA TurnTaken ==
  ASSUME JobsType, NEW p \in Proc, NEW j, Turn(p, j),
         \A k \in Key : sent[k] # None => sent'[k] = sent[k]
  PROVE  JobsType' /\ job'[p] = j /\ \A q \in Proc : q # p => job'[q] = job[q]
<1>1. job'[p] = j /\ (\A q \in Proc : q # p => job'[q] = job[q]) /\ job' = [q \in Proc |-> job'[q]]
  BY DEF JobsType, Turn
<1>2. ASSUME NEW q \in Proc PROVE JobOK(job'[q], sent')
  <2>1. CASE q = p
    BY <1>1, <2>1 DEF Turn
  <2>2. CASE q # p
    <3>1. JobOK(job[q], sent)
      BY DEF JobsType
    <3> DEFINE a == sent
               b == sent'
    <3>2. JobOK(job[q], a) /\ \A k \in Key : a[k] # None => b[k] = a[k]
      BY <3>1
    <3> HIDE DEF a, b
    <3>3. JobOK(job[q], b)
      BY <3>2, JobOKStays
    <3> QED BY <1>1, <2>2, <3>3 DEF b
  <2> QED BY <2>1, <2>2
<1>3. JobsType'
  BY <1>1, <1>2 DEF JobsType
<1> QED BY <1>1, <1>3

\* The first point of the handler that serves q.
Prepared(j, q) ==
  /\ j.op = q.op /\ j.conv = q.conv /\ j.key \in Key /\ Live(j.conv) /\ j.op # "open"
  /\ \/ j.pc = "begin" /\ j.op \in {"cancel", "abort"}
     \/ /\ j.pc = "fresh" /\ j.op \notin {"cancel", "abort"}
        /\ Alike(journal[j.conv], j.copy)
        /\ j.op = "close" => journal[j.conv].idem[j.key] = 0

LEMMA PrepareIs ==
  ASSUME NEW q \in RequestType, q.op # "open", q.conv \in Conv, Live(q.conv),
         IsSession(journal[q.conv]), NEW k \in Key, NEW e \in Nat,
         NEW asked, asked[k] = q, NEW j, j = Prepare(q, k, e), j # Idle
  PROVE  JobOK(j, asked) /\ Prepared(j, q) /\ j.key = k
<1> DEFINE s == journal[q.conv]
           u == WithPend(s, k)
           At(pc, copy) == [pc |-> pc, op |-> q.op, conv |-> q.conv, key |-> k,
                            exp |-> e, copy |-> copy]
<1>q. q # None /\ q.op \in Ops \ {"open"}
  BY NoneIsNoRecord DEF RequestType, Ops
<1>1. IsSession(u) /\ Alike(s, u) /\ IsSession(s) /\ Alike(s, s)
  <2>1. k \in Key \cup {0} /\ IsSession(s)
    OBVIOUS
  <2> HIDE DEF s
  <2>2. IsSession(WithPend(s, k)) /\ Alike(s, WithPend(s, k))
    BY <2>1, SessionPend
  <2> QED BY <2>1, <2>2 DEF Alike, Frame
<1>2. \/ q.op \in {"cancel", "abort"} /\ j = At("begin", None)
      \/ q.op = "close" /\ s.idem[k] = 0 /\ j = At("fresh", u)
      \/ q.op \notin {"cancel", "abort", "close"} /\ j = At("fresh", s)
  <2>1. CASE q.op = "cancel"
    BY <2>1 DEF Prepare
  <2>2. CASE q.op = "abort"
    BY <2>2 DEF Prepare
  <2>3. CASE q.op = "close"
    BY <2>3 DEF Prepare, WithPend
  <2>4. CASE q.op \notin {"cancel", "abort", "close"}
    BY <2>4 DEF Prepare
  <2> QED BY <2>1, <2>2, <2>3, <2>4
<1> HIDE DEF u
<1>3. ASSUME NEW pc \in {"begin", "fresh"}, NEW copy, pc = "fresh" => IsSession(copy),
             j = At(pc, copy)
      PROVE  /\ JobOK(j, asked) /\ j.pc = pc /\ j.op = q.op /\ j.conv = q.conv /\ j.key = k
             /\ j.copy = copy
  <2>1. /\ j.pc = pc /\ j.op = q.op /\ j.conv = q.conv /\ j.key = k /\ j.copy = copy
        /\ j.exp = e
    BY <1>3
  <2>2. j = [pc |-> j.pc, op |-> j.op, conv |-> j.conv, key |-> j.key, exp |-> j.exp,
             copy |-> j.copy]
    BY <1>3
  <2>4. j.op \notin {"get", "open"} /\ (j.pc = "fresh" => IsSession(j.copy))
    BY <1>3, <1>q, <2>1 DEF Ops
  <2>5. asked[j.key] # None /\ asked[j.key].op = j.op /\ asked[j.key].conv = j.conv
    BY <1>q, <2>1
  <2>3. JobOK(j, asked)
    <3>1. j.pc \in {"begin", "fresh"} /\ j.key \in Key /\ j.exp \in Nat /\ j.conv \in Conv
      BY <1>3, <2>1
    <3> QED BY <2>2, <2>4, <2>5, <3>1 DEF JobOK, Writing
  <2> QED BY <2>1, <2>3
<1>4. CASE q.op \in {"cancel", "abort"} /\ j = At("begin", None)
  BY <1>3, <1>4, <1>q DEF Prepared
<1>5. CASE q.op = "close" /\ s.idem[k] = 0 /\ j = At("fresh", u)
  BY <1>1, <1>3, <1>5, <1>q DEF Prepared
<1>6. CASE q.op \notin {"cancel", "abort", "close"} /\ j = At("fresh", s)
  BY <1>1, <1>3, <1>6, <1>q DEF Prepared
<1> QED BY <1>2, <1>4, <1>5, <1>6

\* What a client may ask of a conversation.
Request(op, c, e, i, l, R, T, r) ==
  [op |-> op, conv |-> c, exp |-> e, act |-> i, lease |-> l, who |-> R, picks |-> T,
   proposal |-> r]

LEMMA RequestRecord ==
  ASSUME NEW op, NEW c, NEW e, NEW i, NEW l, NEW R, NEW T, NEW r, NEW q,
         q = Request(op, c, e, i, l, R, T, r)
  PROVE  /\ \A x : [q EXCEPT !.exp = x] = Request(op, c, x, i, l, R, T, r)
         /\ \A x : [q EXCEPT !.proposal = x] = Request(op, c, e, i, l, R, T, x)
         /\ \A x : [q EXCEPT !.who = x] = Request(op, c, e, i, l, x, T, r)
         /\ \A x, y : About(q, x, y) = Request(op, c, e, x, y, R, T, r)
         /\ \A x, y : Naming(q, x, y) = Request(op, c, e, i, l, x, y, r)
<1>1. ASSUME NEW x PROVE [q EXCEPT !.exp = x] = Request(op, c, x, i, l, R, T, r)
  BY DEF Request
<1>2. ASSUME NEW x PROVE [q EXCEPT !.proposal = x] = Request(op, c, e, i, l, R, T, x)
  BY DEF Request
<1>3. ASSUME NEW x, NEW y PROVE About(q, x, y) = Request(op, c, e, x, y, R, T, r)
  <2> DEFINE u == [q EXCEPT !.act = x]
  <2>1. u = Request(op, c, e, x, l, R, T, r)
    BY DEF Request
  <2>2. About(q, x, y) = [u EXCEPT !.lease = y]
    BY DEF About
  <2> HIDE DEF u
  <2> QED BY <2>1, <2>2 DEF Request
<1>4. ASSUME NEW x, NEW y PROVE Naming(q, x, y) = Request(op, c, e, i, l, x, y, r)
  <2> DEFINE u == [q EXCEPT !.who = x]
  <2>1. u = Request(op, c, e, i, l, x, T, r)
    BY DEF Request
  <2>2. Naming(q, x, y) = [u EXCEPT !.picks = y]
    BY DEF Naming
  <2> HIDE DEF u
  <2> QED BY <2>1, <2>2 DEF Request
<1>5. ASSUME NEW x PROVE [q EXCEPT !.who = x] = Request(op, c, e, i, l, x, T, r)
  BY DEF Request
<1> QED BY <1>1, <1>2, <1>3, <1>4, <1>5

LEMMA RequestIs ==
  ASSUME NEW c \in Conv, IsSession(journal[c]), NEW q \in Requests(c)
  PROVE  /\ q \in RequestType /\ q.conv = c /\ q.op # "open"
         /\ q.op \in {"submit", "cancel"} => q.lease # 0
<1> DEFINE s == journal[c]
           none == [says |-> FALSE, asks |-> FALSE, tells |-> "none"]
           Base(op) == [Ask(op, c) EXCEPT !.exp = s.rev]
           base(op) == Request(op, c, s.rev, 0, 0, {}, {}, none)
<1>1. /\ s.rev \in Nat /\ Participants(s) \in SUBSET Actor
      /\ \A i \in DOMAIN s.acts : i \in Nat
      /\ \A i : \A k \in ClaimsOf(c, i) : k \in Key \ {0}
      /\ none \in ProposalType
  <2>1. DOMAIN s.acts = 1 .. Len(s.acts)
    BY SessionFields, ActivationsListed
  <2>2. s.rev \in Nat /\ Participants(s) \in SUBSET Actor
    BY SessionFields
  <2>3. \A i : \A k \in ClaimsOf(c, i) : k \in Key \ {0}
    BY DEF ClaimsOf, Key
  <2> HIDE DEF s
  <2> QED BY <2>1, <2>2, <2>3 DEF ProposalType
<1>2. ASSUME NEW op \in Ops \ {"open"}, NEW i \in Nat, NEW l \in Key \cup {0},
             NEW R \in SUBSET Actor, NEW T \in SUBSET Nat, NEW r \in ProposalType,
             op \in {"submit", "cancel"} => l # 0, q = Request(op, c, s.rev, i, l, R, T, r)
      PROVE  /\ q \in RequestType /\ q.conv = c /\ q.op # "open"
             /\ q.op \in {"submit", "cancel"} => q.lease # 0
  <2> DEFINE e == s.rev
  <2>1. e \in Nat
    BY <1>1
  <2> HIDE DEF e, s
  <2>2. q = [op |-> op, conv |-> c, exp |-> e, act |-> i, lease |-> l, who |-> R,
             picks |-> T, proposal |-> r]
    BY <1>2 DEF e, Request
  <2> QED BY <1>2, <2>1, <2>2 DEF RequestType, Ops
<1>b. \A op : Base(op) = base(op)
  <2> SUFFICES ASSUME NEW op PROVE Base(op) = base(op)
    OBVIOUS
  <2>1. Ask(op, c) = Request(op, c, 0, 0, 0, {}, {}, none)
    BY Zenon DEF Ask, Request
  <2> QED BY <2>1, RequestRecord
<1>3. \/ \E R \in SUBSET Participants(s), T \in SUBSET DOMAIN s.acts :
           q = Naming(Base("ingest"), R, T)
      \/ \E i \in DOMAIN s.acts : q = About(Base("claim"), i, 0)
      \/ \E i \in DOMAIN s.acts : \E k \in ClaimsOf(c, i), r \in Proposal :
           q = [About(Base("submit"), i, k) EXCEPT !.proposal = r]
      \/ \E i \in DOMAIN s.acts : \E k \in ClaimsOf(c, i) : q = About(Base("cancel"), i, k)
      \/ \E i \in DOMAIN s.acts, R \in SUBSET Participants(s) :
           q = Naming(About(Base("publish"), i, 0), R, {})
      \/ \E T \in SUBSET DOMAIN s.acts : q = Naming(Base("close"), {}, T)
      \/ q = Base("abort")
  <2> DEFINE due == {i \in DOMAIN s.acts : Unfinished(s.acts[i])}
             held == {i \in DOMAIN s.acts : s.acts[i].status = "claimed"}
             unsaid == {i \in DOMAIN s.acts : s.acts[i].pub = "pending_audience"}
             asked == {i \in DOMAIN s.acts : s.acts[i].ask = "pending"}
             proposed == {i \in DOMAIN s.acts : s.acts[i].cand = "proposed"}
             A == {Naming(Base("ingest"), R, T) : R \in SUBSET Participants(s), T \in SUBSET asked}
             B == {About(Base("claim"), i, 0) : i \in due}
             C == UNION {{[About(Base("submit"), i, k) EXCEPT !.proposal = r] :
                            k \in ClaimsOf(c, i), r \in Proposal} : i \in held}
             D == UNION {{About(Base("cancel"), i, k) : k \in ClaimsOf(c, i)} : i \in held}
             E == {Naming(About(Base("publish"), i, 0), R, {}) :
                     i \in unsaid, R \in SUBSET Participants(s)}
             F == {Naming(Base("close"), {}, T) : T \in SUBSET proposed}
  <2>0. Requests(c) = A \cup B \cup C \cup D \cup E \cup F \cup {Base("abort")}
    BY DEF Requests
  <2>1. q \in A \/ q \in B \/ q \in C \/ q \in D \/ q \in E \/ q \in F \/ q = Base("abort")
    <3> HIDE DEF A, B, C, D, E, F, Base
    <3> QED BY <2>0
  <2>2. /\ due \subseteq DOMAIN s.acts /\ held \subseteq DOMAIN s.acts
        /\ unsaid \subseteq DOMAIN s.acts /\ asked \subseteq DOMAIN s.acts
        /\ proposed \subseteq DOMAIN s.acts
    OBVIOUS
  <2> HIDE DEF due, held, unsaid, asked, proposed, Base, s
  <2>3. CASE q \in A
    BY <2>2, <2>3
  <2>4. CASE q \in B
    BY <2>2, <2>4
  <2>5. CASE q \in C
    BY <2>2, <2>5
  <2>6. CASE q \in D
    BY <2>2, <2>6
  <2>7. CASE q \in E
    BY <2>2, <2>7
  <2>8. CASE q \in F
    BY <2>2, <2>8
  <2> QED BY <2>1, <2>3, <2>4, <2>5, <2>6, <2>7, <2>8
<1> HIDE DEF Base, s, none
<1>4. CASE \E R \in SUBSET Participants(s), T \in SUBSET DOMAIN s.acts :
             q = Naming(Base("ingest"), R, T)
  <2>1. PICK R \in SUBSET Participants(s), T \in SUBSET DOMAIN s.acts :
          q = Naming(base("ingest"), R, T)
    BY <1>4, <1>b
  <2>2. q = Request("ingest", c, s.rev, 0, 0, R, T, none)
    BY <2>1, RequestRecord
  <2> QED BY <1>1, <1>2, <2>2 DEF Ops
<1>5. CASE \E i \in DOMAIN s.acts : q = About(Base("claim"), i, 0)
  <2>1. PICK i \in DOMAIN s.acts : q = About(base("claim"), i, 0)
    BY <1>5, <1>b
  <2>2. q = Request("claim", c, s.rev, i, 0, {}, {}, none)
    BY <2>1, RequestRecord
  <2> QED BY <1>1, <1>2, <2>2 DEF Ops
<1>6. CASE \E i \in DOMAIN s.acts : \E k \in ClaimsOf(c, i), r \in Proposal :
             q = [About(Base("submit"), i, k) EXCEPT !.proposal = r]
  <2>1. PICK i \in DOMAIN s.acts : \E k \in ClaimsOf(c, i), r \in Proposal :
          q = [About(base("submit"), i, k) EXCEPT !.proposal = r]
    BY <1>6, <1>b
  <2>2. PICK k \in ClaimsOf(c, i), r \in Proposal :
          q = [About(base("submit"), i, k) EXCEPT !.proposal = r]
    BY <2>1
  <2>3. About(base("submit"), i, k) = Request("submit", c, s.rev, i, k, {}, {}, none)
    BY RequestRecord
  <2>4. q = Request("submit", c, s.rev, i, k, {}, {}, r)
    BY <2>2, <2>3, RequestRecord
  <2>5. r \in ProposalType
    BY ProposalAssumption
  <2> QED BY <1>1, <1>2, <2>4, <2>5 DEF Ops
<1>7. CASE \E i \in DOMAIN s.acts : \E k \in ClaimsOf(c, i) : q = About(Base("cancel"), i, k)
  <2>0. PICK i \in DOMAIN s.acts : \E k \in ClaimsOf(c, i) : q = About(base("cancel"), i, k)
    BY <1>7, <1>b
  <2>1. PICK k \in ClaimsOf(c, i) : q = About(base("cancel"), i, k)
    BY <2>0
  <2>2. q = Request("cancel", c, s.rev, i, k, {}, {}, none)
    BY <2>1, RequestRecord
  <2> QED BY <1>1, <1>2, <2>2 DEF Ops
<1>8. CASE \E i \in DOMAIN s.acts, R \in SUBSET Participants(s) :
             q = Naming(About(Base("publish"), i, 0), R, {})
  <2>1. PICK i \in DOMAIN s.acts, R \in SUBSET Participants(s) :
          q = Naming(About(base("publish"), i, 0), R, {})
    BY <1>8, <1>b
  <2>2. About(base("publish"), i, 0) = Request("publish", c, s.rev, i, 0, {}, {}, none)
    BY RequestRecord
  <2>3. q = Request("publish", c, s.rev, i, 0, R, {}, none)
    BY <2>1, <2>2, RequestRecord
  <2> QED BY <1>1, <1>2, <2>3 DEF Ops
<1>9. CASE \E T \in SUBSET DOMAIN s.acts : q = Naming(Base("close"), {}, T)
  <2>1. PICK T \in SUBSET DOMAIN s.acts : q = Naming(base("close"), {}, T)
    BY <1>9, <1>b
  <2>2. q = Request("close", c, s.rev, 0, 0, {}, T, none)
    BY <2>1, RequestRecord
  <2> QED BY <1>1, <1>2, <2>2 DEF Ops
<1>10. CASE q = Base("abort")
  <2>1. q = Request("abort", c, s.rev, 0, 0, {}, {}, none)
    BY <1>10, <1>b
  <2> QED BY <1>1, <1>2, <2>1 DEF Ops
<1> QED BY <1>3, <1>4, <1>5, <1>6, <1>7, <1>8, <1>9, <1>10

(***************************************************************************)
(* What each access does.                                                  *)
(***************************************************************************)
Elsewhere == <<Store, World, ledger, lapsed>>

\* The request of key k is recorded, and only that one.
Recorded(k) ==
  /\ SentType' /\ k \in Key /\ sent'[k] # None
  /\ \A x \in Key : x # k \/ sent[x] # None => sent'[x] = sent[x]
  /\ sent[k] = None /\ sent'[k].op \in {"submit", "cancel"} => sent'[k].lease # 0

LEMMA SentSet ==
  ASSUME SentType, NEW k \in Key, sent[k] = None, NEW q \in RequestType,
         q.op # "open" => q.conv \in Conv, q.op \in {"submit", "cancel"} => q.lease # 0,
         sent' = [sent EXCEPT ![k] = q]
  PROVE  Recorded(k) /\ sent'[k] = q
<1>1. /\ sent'[k] = q /\ (\A x \in Key : x # k => sent'[x] = sent[x])
      /\ sent' = [x \in Key |-> sent'[x]]
  BY DEF SentType
<1>2. q # None
  BY NoneIsNoRecord
<1>3. \A x \in Key : sent'[x] # None =>
        sent'[x] \in RequestType /\ (sent'[x].op # "open" => sent'[x].conv \in Conv)
  BY <1>1 DEF SentType
<1>4. SentType'
  BY <1>1, <1>3 DEF SentType
<1> QED BY <1>1, <1>2, <1>4 DEF Recorded

LEMMA NewSessionIs ==
  ASSUME WorldType, NEW S \in SUBSET Actor, NEW k \in Key, NEW s, s = NewSession(S, k)
  PROVE  IsSession(s) /\ Blank(s)
<1> DEFINE L == [a \in S |-> version[a]]
           R == [a \in S |-> [ver |-> version[a], at |-> 0]]
           I == [x \in Key |-> 0]
           none == << >>
           n == 0
           sc == scene
           open == "open"
<1>1. /\ L \in [S -> Nat] /\ R \in [S -> [ver: Nat, at: Nat]] /\ I \in [Key -> Nat]
      /\ none \in Seq(ActivationType) /\ n \in Nat /\ sc \in Nat
      /\ open \in {"open", "stale", "closed", "aborted"} /\ n \in Key \cup {0}
  BY DEF WorldType
<1>2. (\A a \in S : R[a].ver = L[a]) /\ (\A x \in Key : I[x] = n) /\ DOMAIN L = S
  OBVIOUS
<1>3. s = [status |-> open, rev |-> n, scene |-> sc, locks |-> L, runtime |-> R,
           acts |-> none, events |-> n, idem |-> I, pend |-> n, openKey |-> k]
  BY DEF NewSession
<1>4. none = << >> /\ n = 0 /\ open = "open"
  OBVIOUS
<1> HIDE DEF L, R, I, none, n, sc, open
<1>5. s \in SessionType(S)
  BY <1>1, <1>3 DEF SessionType
<1>6. /\ s.status = open /\ s.locks = L /\ s.runtime = R /\ s.acts = none /\ s.events = n
      /\ s.idem = I
  BY <1>3
<1>7. Locked(s)
  BY <1>2, <1>6 DEF Locked, Participants
<1> QED BY <1>2, <1>4, <1>5, <1>6, <1>7 DEF IsSession, Blank

Opening(k, s) == [Idle EXCEPT !.pc = "scan", !.op = "open", !.key = k, !.copy = s]

LEMMA OpeningJob ==
  ASSUME NEW k, NEW s, NEW j, j = Opening(k, s)
  PROVE  /\ j.pc = "scan" /\ j.op = "open" /\ j.key = k /\ j.exp = 0 /\ j.copy = s
         /\ j = [pc |-> j.pc, op |-> j.op, conv |-> j.conv, key |-> j.key, exp |-> j.exp,
                 copy |-> j.copy]
<1> DEFINE a == "idle"
           b == "none"
           n == 0
           scan == "scan"
           open == "open"
<1>1. Idle = [pc |-> a, op |-> b, conv |-> None, key |-> n, exp |-> n, copy |-> None]
  BY Zenon DEF Idle
<1>2. j = [Idle EXCEPT !.pc = scan, !.op = open, !.key = k, !.copy = s]
  BY Zenon DEF Opening
<1> HIDE DEF a, b, n, scan, open
<1>3. j = [pc |-> scan, op |-> open, conv |-> None, key |-> k, exp |-> n, copy |-> s]
  BY <1>1, <1>2
<1>4. /\ j.pc = scan /\ j.op = open /\ j.key = k /\ j.exp = n /\ j.copy = s
      /\ j = [pc |-> j.pc, op |-> j.op, conv |-> j.conv, key |-> j.key, exp |-> j.exp,
              copy |-> j.copy]
  BY <1>3
<1> QED BY <1>4 DEF scan, open, n

LEMMA OpenIs ==
  ASSUME TypeInv, NEW p \in Proc, NEW k \in Key, NEW S \in SUBSET Actor, Open(p, k, S)
  PROVE  /\ UNCHANGED Elsewhere /\ Recorded(k)
         /\ \E j : Turn(p, j) /\ j.pc = "scan" /\ j.op = "open" /\ Blank(j.copy)
<1> DEFINE none == [says |-> FALSE, asks |-> FALSE, tells |-> "none"]
           q == [Ask("open", None) EXCEPT !.who = S]
           s == NewSession(S, k)
           j == Opening(k, s)
<1>s. IsSession(s) /\ Blank(s)
  BY NewSessionIs DEF TypeInv
<1>q. q \in RequestType /\ q.op = "open"
  <2>1. q = [op |-> "open", conv |-> None, exp |-> 0, act |-> 0, lease |-> 0, who |-> S,
             picks |-> {}, proposal |-> none]
    <3> DEFINE z == Ask("open", None)
    <3>1. z = Request("open", None, 0, 0, 0, {}, {}, none)
      BY Zenon DEF Ask, Request
    <3> HIDE DEF z, none
    <3>2. [z EXCEPT !.who = S] = Request("open", None, 0, 0, 0, S, {}, none)
      BY <3>1, RequestRecord
    <3> QED BY <3>2, Zenon DEF Request, z
  <2>2. none \in ProposalType /\ S \in SUBSET Actor
    BY DEF ProposalType
  <2> HIDE DEF q, none
  <2> QED BY <2>1, <2>2 DEF RequestType
<1>1. UNCHANGED Elsewhere /\ job' = [job EXCEPT ![p] = j]
  BY DEF Open, Elsewhere, Opening
<1>2. Recorded(k) /\ sent'[k].op = "open"
  <2>1. CASE sent[k] = None
    <3>1. sent' = [sent EXCEPT ![k] = q]
      BY <2>1 DEF Open
    <3> HIDE DEF q
    <3> QED BY <1>q, <2>1, <3>1, SentSet DEF TypeInv
  <2>2. CASE sent[k] # None
    <3>1. sent' = sent /\ sent[k].op = "open" /\ SentType
      BY <2>2 DEF Open, TypeInv
    <3>2. SentType'
      BY <3>1 DEF SentType
    <3> QED BY <2>2, <3>1, <3>2 DEF Recorded
  <2> QED BY <2>1, <2>2
<1>3. JobOK(j, sent') /\ j.pc = "scan" /\ j.op = "open" /\ j.copy = s
  <2> HIDE DEF s
  <2>2. /\ j.pc = "scan" /\ j.op = "open" /\ j.key = k /\ j.exp = 0 /\ j.copy = s
        /\ j = [pc |-> j.pc, op |-> j.op, conv |-> j.conv, key |-> j.key, exp |-> j.exp,
                copy |-> j.copy]
    BY OpeningJob
  <2>3. sent'[k] # None
    BY <1>2 DEF Recorded
  <2> HIDE DEF j
  <2> QED BY <1>2, <1>s, <2>2, <2>3 DEF JobOK, Writing
<1> HIDE DEF j, s
<1>4. Turn(p, j)
  BY <1>1, <1>3 DEF Turn
<1> QED BY <1>1, <1>2, <1>3, <1>4, <1>s

LEMMA SendIs ==
  ASSUME TypeInv, NEW p \in Proc, NEW c \in Conv, Live(c), NEW k \in Key,
         NEW q \in Requests(c), Send(p, k, q)
  PROVE  /\ UNCHANGED Elsewhere /\ Recorded(k) /\ sent'[k] = q
         /\ \E j : Turn(p, j) /\ Prepared(j, q)
<1>1. IsSession(journal[c])
  BY DEF TypeInv, JournalType
<1>2. /\ q \in RequestType /\ q.conv = c /\ q.op # "open"
      /\ q.op \in {"submit", "cancel"} => q.lease # 0
  BY <1>1, RequestIs
<1>3. Recorded(k) /\ sent'[k] = q
  BY <1>2, SentSet DEF Send, TypeInv
<1>4. UNCHANGED Elsewhere
  BY DEF Send, Elsewhere
<1>5. PICK j : j = Prepare(q, k, q.exp)
  OBVIOUS
<1>6. j # Idle /\ job' = [job EXCEPT ![p] = j]
  BY <1>5 DEF Send
<1>7. q.exp \in Nat
  BY <1>2 DEF RequestType
<1> DEFINE asked == sent'
<1>8. asked[k] = q
  BY <1>3
<1> HIDE DEF asked
<1>9. JobOK(j, asked) /\ Prepared(j, q)
  BY <1>1, <1>2, <1>5, <1>6, <1>7, <1>8, PrepareIs
<1>10. Turn(p, j)
  BY <1>6, <1>9 DEF Turn, asked
<1> QED BY <1>3, <1>4, <1>9, <1>10

LEMMA RetryIs ==
  ASSUME TypeInv, NEW p \in Proc, NEW k \in Key, Retry(p, k)
  PROVE  UNCHANGED <<Elsewhere, sent>> /\ \E j : Turn(p, j) /\ Prepared(j, sent[k]) /\ j.key = k
<1> DEFINE asked == sent'
<1>1. PICK q : q = sent[k]
  OBVIOUS
<1>2. /\ q \in RequestType /\ q # None /\ q.op # "open" /\ Live(q.conv)
      /\ UNCHANGED <<Elsewhere, sent>> /\ asked[k] = q /\ k \in Key
  BY <1>1 DEF TypeInv, SentType, Retry, Elsewhere
<1>3. q.conv \in Conv /\ IsSession(journal[q.conv])
  BY <1>1, <1>2 DEF TypeInv, SentType, JournalType
<1>4. PICK e \in {q.exp, journal[q.conv].rev} :
        Prepare(q, k, e) # Idle /\ job' = [job EXCEPT ![p] = Prepare(q, k, e)]
  BY <1>1 DEF Retry
<1>5. e \in Nat
  BY <1>2, <1>3, SessionFields DEF RequestType
<1>6. PICK j : j = Prepare(q, k, e)
  OBVIOUS
<1>7. j # Idle /\ job' = [job EXCEPT ![p] = j]
  BY <1>4, <1>6
<1> HIDE DEF asked
<1>8. JobOK(j, asked) /\ Prepared(j, q) /\ j.key = k
  BY <1>2, <1>3, <1>5, <1>6, <1>7, PrepareIs
<1>9. Turn(p, j)
  BY <1>7, <1>8 DEF Turn, asked
<1> QED BY <1>1, <1>2, <1>8, <1>9

LEMMA LookIs ==
  ASSUME TypeInv, NEW p \in Proc, NEW c \in Conv, Look(p, c)
  PROVE  /\ UNCHANGED <<Elsewhere, sent>>
         /\ \E j : /\ Turn(p, j) /\ j.pc = "fresh" /\ j.op = "get" /\ Live(j.conv)
                   /\ Alike(journal[j.conv], j.copy)
<1> DEFINE s == journal[c]
           j == [pc |-> "fresh", op |-> "get", conv |-> c, key |-> 0, exp |-> 0, copy |-> s]
<1>1. /\ UNCHANGED <<Elsewhere, sent>> /\ job' = [job EXCEPT ![p] = j]
      /\ Live(c) /\ IsSession(s)
  BY DEF Look, Elsewhere, TypeInv, JournalType, Client
<1>2. Alike(s, s)
  BY DEF Alike, Frame
<1>3. JobOK(j, sent') /\ j.pc = "fresh" /\ j.op = "get" /\ j.conv = c /\ j.copy = s
  <2> HIDE DEF s
  <2>1. /\ j.pc = "fresh" /\ j.op = "get" /\ j.conv = c /\ j.copy = s /\ j.key = 0 /\ j.exp = 0
        /\ j = [pc |-> j.pc, op |-> j.op, conv |-> j.conv, key |-> j.key, exp |-> j.exp,
                copy |-> j.copy]
    OBVIOUS
  <2> HIDE DEF j
  <2> QED BY <1>1, <2>1 DEF JobOK, Writing
<1> HIDE DEF j
<1>4. Turn(p, j)
  BY <1>1, <1>3 DEF Turn
<1> QED BY <1>1, <1>2, <1>3, <1>4

\* The process is done.
LEMMA AnsweredIs ==
  ASSUME NEW p \in Proc, Answered(p)
  PROVE  Turn(p, Idle) /\ Idle.pc = "idle"
BY IdleOK DEF Answered, Turn

SameJob(i, j) == j.op = i.op /\ j.conv = i.conv /\ j.key = i.key

LEMMA SameCopy ==
  ASSUME NEW j, NEW asked, JobOK(j, asked), NEW pc
  PROVE  NextJob(j, pc, j.copy) = [j EXCEPT !.pc = pc]
BY DEF JobOK, NextJob

\* The process p, which was at i, goes on to another point of the handler.
Moves(p, i, pc, copy) ==
  \E j : Turn(p, j) /\ SameJob(i, j) /\ j.pc = pc /\ j.copy = copy

LEMMA GoesOn ==
  ASSUME JobsType, sent' = sent, NEW p \in Proc, NEW i, i = job[p], i.pc # "idle", i.op # "get",
         NEW pc \in {"create", "begin"} \cup Writing, NEW copy,
         pc # "begin" => IsSession(copy),
         pc # "create" => i.conv \in Conv, pc = "commit" => i.op = "close",
         job' = [job EXCEPT ![p] = NextJob(i, pc, copy)]
  PROVE  Moves(p, i, pc, copy)
<1> DEFINE asked == sent
<1>1. JobOK(i, asked)
  BY DEF JobsType
<1>2. PICK j : j = NextJob(i, pc, copy)
  OBVIOUS
<1>3. job' = [job EXCEPT ![p] = j] /\ asked = sent'
  BY <1>2
<1> HIDE DEF asked
<1>4. /\ j = [pc |-> j.pc, op |-> j.op, conv |-> j.conv, key |-> j.key, exp |-> j.exp,
              copy |-> j.copy]
      /\ j.pc = pc /\ j.copy = copy /\ j.op = i.op /\ j.conv = i.conv
      /\ j.key = i.key /\ j.exp = i.exp
  BY <1>1, <1>2, NextJobIs
<1>5. JobOK(j, asked)
  <2>1. /\ i.key \in Key /\ i.exp \in Nat /\ asked[i.key] # None /\ asked[i.key].op = i.op
        /\ i.op # "open" => asked[i.key].conv = i.conv
    BY <1>1 DEF JobOK
  <2> QED BY <1>4, <2>1 DEF JobOK, Writing
<1>6. Turn(p, j)
  BY <1>3, <1>5 DEF Turn
<1> QED BY <1>4, <1>6 DEF SameJob, Moves

LEMMA OpenScanIs ==
  ASSUME TypeInv, NEW p \in Proc, OpenScan(p)
  PROVE  /\ UNCHANGED <<Elsewhere, sent>> /\ job[p].pc = "scan"
         /\ \E j : /\ Turn(p, j)
                   /\ \/ j.pc = "idle"
                      \/ /\ SameJob(job[p], j) /\ j.pc = "create" /\ j.copy = job[p].copy
                         /\ ~Taken(Participants(j.copy))
<1>1. UNCHANGED <<Elsewhere, sent>> /\ job[p].pc = "scan" /\ sent' = sent
  BY DEF OpenScan, Elsewhere, Client
<1>t. JobsType /\ JobOK(job[p], sent)
  BY DEF TypeInv, JobsType
<1>2. CASE Answered(p)
  BY <1>1, <1>2, AnsweredIs
<1>3. CASE /\ ~Taken(Participants(job[p].copy))
           /\ job' = [job EXCEPT ![p].pc = "create"]
  <2>0. PICK i : i = job[p]
    OBVIOUS
  <2>1. PICK copy : copy = i.copy
    OBVIOUS
  <2>p. PICK pc : pc = "create"
    OBVIOUS
  <2>r. job' = [job EXCEPT ![p] = NextJob(i, "create", copy)]
    BY <1>3, <1>t, <2>0, <2>1, SameCopy
  <2>2. job' = [job EXCEPT ![p] = NextJob(i, pc, copy)]
    BY <2>p, <2>r
  <2>q. /\ pc \in {"create", "begin"} \cup Writing /\ (pc = "commit" => i.op = "close")
        /\ (pc # "create" => i.conv \in Conv)
    BY <2>p
  <2>3. IsSession(copy) /\ i.pc # "idle" /\ i.op # "get"
    BY <1>1, <1>t, <2>0, <2>1 DEF JobOK
  <2>m. Moves(p, i, pc, copy)
    BY <1>1, <1>t, <2>0, <2>2, <2>3, <2>q, GoesOn
  <2>4. PICK j : Turn(p, j) /\ SameJob(i, j) /\ j.pc = pc /\ j.copy = copy
    BY <2>m DEF Moves
  <2>5. j.copy = job[p].copy
    BY <2>0, <2>1, <2>4
  <2>6. SameJob(job[p], j)
    BY <2>0, <2>4
  <2>7. ~Taken(Participants(j.copy))
    BY <1>3, <2>5
  <2> QED BY <1>1, <2>4, <2>5, <2>6, <2>7, <2>p
<1> QED BY <1>2, <1>3 DEF OpenScan


\* A new conversation is written.
LEMMA OpenWriteIs ==
  ASSUME TypeInv, NEW p \in Proc, NEW c \in Conv, NEW i, i = job[p], OpenWrite(p, c)
  PROVE  /\ UNCHANGED <<World, Client, ledger>> /\ i.pc = "create" /\ Turn(p, Idle)
         /\ journal[c] = None /\ IsSession(i.copy) /\ journal' = [journal EXCEPT ![c] = i.copy]
<1>1. JobOK(i, sent)
  BY DEF TypeInv, JobsType
<1>2. /\ UNCHANGED <<World, Client, ledger>> /\ i.pc = "create" /\ Answered(p)
      /\ journal[c] = None /\ journal' = [journal EXCEPT ![c] = i.copy]
  BY DEF OpenWrite
<1>3. Turn(p, Idle)
  BY <1>2, AnsweredIs
<1> QED BY <1>1, <1>2, <1>3 DEF JobOK

\* What require_fresh makes of the copy s when the world has moved.
Freshened(s, t) == IsSession(t) /\ Relocked(s, t) /\ Reworked(s, t) /\ t.rev >= s.rev

FreshRefused(p, i) == i.copy.status # "open" /\ Turn(p, Idle) /\ journal' = journal

FreshStale(p, i) ==
  /\ i.copy.status = "open" /\ Turn(p, Idle)
  /\ \E t : /\ Freshened(i.copy, t) /\ t.status = "stale" /\ t.rev = i.copy.rev
            /\ journal' = [journal EXCEPT ![i.conv] = t]

Current(t) == \A a \in Participants(t) : t.locks[a] = version[a]

\* The copy is t, and it is the file if it was refreshed.
FreshCopy(i, t) ==
  /\ IsSession(t) /\ t.status = "open" /\ Current(t)
  /\ \/ t = i.copy /\ journal' = journal
     \/ Freshened(i.copy, t) /\ journal' = [journal EXCEPT ![i.conv] = t]

FreshNext(p, i, t) ==
  \/ i.op = "get" /\ Turn(p, Idle)
  \/ i.op = "close" /\ Moves(p, i, "commit", t)
  \/ i.op \notin {"get", "close"} /\ Moves(p, i, "begin", None)

FreshOn(p, i) ==
  i.copy.status = "open" /\ \E t : FreshCopy(i, t) /\ FreshNext(p, i, t)

LEMMA FreshIs ==
  ASSUME TypeInv, NEW p \in Proc, NEW i, i = job[p], Fresh(p)
  PROVE  /\ UNCHANGED <<World, Client, ledger>> /\ i.pc = "fresh"
         /\ FreshRefused(p, i) \/ FreshStale(p, i) \/ FreshOn(p, i)
<1>1. PICK s : s = i.copy
  OBVIOUS
<1>2. PICK c : c = i.conv
  OBVIOUS
<1>3. PICK t : t = IF Moved(s) = {} THEN s ELSE [Refreshed(s) EXCEPT !.rev = @ + 1]
  OBVIOUS
<1>t. /\ JobsType /\ JobOK(i, sent) /\ version \in [Actor -> Nat]
  BY DEF TypeInv, JobsType, WorldType
<1>4. UNCHANGED <<World, Client, ledger>> /\ i.pc = "fresh" /\ sent' = sent
  BY DEF Fresh, Client
<1>5. IsSession(s) /\ c \in Conv
  BY <1>1, <1>2, <1>4, <1>t DEF JobOK
<1>6. /\ s.rev \in Nat /\ s.locks \in [Participants(s) -> Nat]
  BY <1>5, SessionFields
<1>7. CASE s.status # "open" /\ Answered(p) /\ UNCHANGED journal
  BY <1>1, <1>4, <1>7, AnsweredIs DEF FreshRefused
<1>8. CASE /\ s.status = "open" /\ Answered(p)
           /\ journal' = [journal EXCEPT ![c] = [Refreshed(s) EXCEPT !.status = "stale"]]
  <2>1. PICK u : u = StaleCopy(s)
    OBVIOUS
  <2>2. /\ IsSession(u) /\ u.rev = s.rev /\ u.status = "stale" /\ Relocked(s, u) /\ Reworked(s, u)
    BY <1>5, <1>t, <2>1, RefreshedStale
  <2>3. journal' = [journal EXCEPT ![c] = u]
    BY <1>8, <2>1 DEF StaleCopy
  <2>4. Freshened(s, u)
    BY <1>6, <2>2 DEF Freshened
  <2>5. Turn(p, Idle)
    BY <1>8, AnsweredIs
  <2> QED BY <1>1, <1>2, <1>4, <1>8, <2>2, <2>3, <2>4, <2>5 DEF FreshStale
<1>9. CASE /\ s.status = "open"
           /\ journal' = IF Moved(s) = {} THEN journal ELSE [journal EXCEPT ![c] = t]
           /\ \/ i.op = "get" /\ job' = [job EXCEPT ![p] = Idle]
              \/ i.op = "close" /\ job' = [job EXCEPT ![p] = NextJob(i, "commit", t)]
              \/ /\ i.op \notin {"get", "close"}
                 /\ job' = [job EXCEPT ![p] = NextJob(i, "begin", None)]
  <2>1. FreshCopy(i, t)
    <3>1. CASE Moved(s) = {}
      <4>1. Current(t) /\ t = s
        BY <1>3, <1>6, <3>1 DEF Moved, Current
      <4> QED BY <1>1, <1>5, <1>9, <3>1, <4>1 DEF FreshCopy
    <3>2. CASE Moved(s) # {}
      <4>0. t = [Refreshed(s) EXCEPT !.rev = @ + 1]
        BY <1>3, <3>2
      <4>1. /\ IsSession(t) /\ t.rev = s.rev + 1 /\ t.status = s.status
            /\ Relocked(s, t) /\ Reworked(s, t)
        BY <1>5, <1>t, <4>0, RefreshedRev
      <4>2. Freshened(s, t)
        BY <1>6, <4>1 DEF Freshened
      <4>3. Current(t)
        BY <4>1 DEF Relocked, Current, Participants
      <4> QED BY <1>1, <1>2, <1>9, <3>2, <4>1, <4>2, <4>3 DEF FreshCopy
    <3> QED BY <3>1, <3>2
  <2>2. IsSession(t)
    BY <2>1 DEF FreshCopy
  <2>3. CASE i.op = "get" /\ job' = [job EXCEPT ![p] = Idle]
    <3>1. Turn(p, Idle)
      BY <2>3, AnsweredIs DEF Answered
    <3> QED BY <1>1, <1>4, <1>9, <2>1, <2>3, <3>1 DEF FreshOn, FreshNext
  <2>4. CASE i.op = "close" /\ job' = [job EXCEPT ![p] = NextJob(i, "commit", t)]
    <3>1. PICK pc : pc = "commit"
      OBVIOUS
    <3>2. /\ pc \in {"create", "begin"} \cup Writing /\ (pc = "commit" => i.op = "close")
          /\ (pc # "create" => i.conv \in Conv) /\ i.pc # "idle" /\ i.op # "get"
          /\ (pc # "begin" => IsSession(t))
      BY <1>2, <1>4, <1>5, <2>2, <2>4, <3>1 DEF Writing
    <3>3. job' = [job EXCEPT ![p] = NextJob(i, pc, t)]
      BY <2>4, <3>1
    <3>4. Moves(p, i, pc, t)
      BY <1>4, <1>t, <3>2, <3>3, GoesOn
    <3> QED BY <1>1, <1>4, <1>9, <2>1, <2>4, <3>1, <3>4 DEF FreshOn, FreshNext
  <2>5. CASE /\ i.op \notin {"get", "close"}
             /\ job' = [job EXCEPT ![p] = NextJob(i, "begin", None)]
    <3>1. PICK pc : pc = "begin"
      OBVIOUS
    <3>2. /\ pc \in {"create", "begin"} \cup Writing /\ (pc = "commit" => i.op = "close")
          /\ (pc # "create" => i.conv \in Conv) /\ i.pc # "idle" /\ i.op # "get"
          /\ (pc # "begin" => IsSession(None))
      BY <1>2, <1>4, <1>5, <2>5, <3>1
    <3>3. job' = [job EXCEPT ![p] = NextJob(i, pc, None)]
      BY <2>5, <3>1
    <3>4. Moves(p, i, pc, None)
      BY <1>4, <1>t, <3>2, <3>3, GoesOn
    <3> QED BY <1>1, <1>4, <1>9, <2>1, <2>5, <3>1, <3>4 DEF FreshOn, FreshNext
  <2> QED BY <1>9, <2>3, <2>4, <2>5
<1>10. \/ s.status # "open" /\ Answered(p) /\ UNCHANGED journal
       \/ /\ s.status = "open" /\ Answered(p)
          /\ journal' = [journal EXCEPT ![c] = [Refreshed(s) EXCEPT !.status = "stale"]]
       \/ /\ s.status = "open"
          /\ journal' = IF Moved(s) = {} THEN journal ELSE [journal EXCEPT ![c] = t]
          /\ \/ i.op = "get" /\ job' = [job EXCEPT ![p] = Idle]
             \/ i.op = "close" /\ job' = [job EXCEPT ![p] = NextJob(i, "commit", t)]
             \/ /\ i.op \notin {"get", "close"}
                /\ job' = [job EXCEPT ![p] = NextJob(i, "begin", None)]
  <2> DEFINE next == CASE job[p].op = "get" -> Idle
                       [] job[p].op = "close" -> NextJob(i, "commit", t)
                       [] OTHER -> NextJob(i, "begin", None)
  <2>1. \/ s.status # "open" /\ Answered(p) /\ UNCHANGED journal
        \/ /\ s.status = "open" /\ Answered(p)
           /\ journal' = [journal EXCEPT ![c] = [Refreshed(s) EXCEPT !.status = "stale"]]
        \/ /\ s.status = "open"
           /\ journal' = IF Moved(s) = {} THEN journal ELSE [journal EXCEPT ![c] = t]
           /\ job' = [job EXCEPT ![p] = next]
    BY <1>1, <1>2, <1>3, Zenon DEF Fresh, Checked, NextJob
  <2>2. \/ i.op = "get" /\ next = Idle
        \/ i.op = "close" /\ next = NextJob(i, "commit", t)
        \/ i.op \notin {"get", "close"} /\ next = NextJob(i, "begin", None)
    OBVIOUS
  <2> HIDE DEF next
  <2> QED BY <2>1, <2>2
<1> QED BY <1>4, <1>7, <1>8, <1>9, <1>10


\* A mutation of the copy s made for the request q under key k.
Drafted(s, t, q, k) ==
  /\ IsSession(t)
  /\ (q.op \notin {"cancel", "abort"} => s.status = "open")
     /\ (q.op \in {"submit", "cancel"} => q.lease # 0) => Draft(s, t, q, k)

\* A mutation goes on with such a copy.
MutationOn(p, i) ==
  /\ Live(i.conv) /\ journal[i.conv].idem[i.key] = 0
  /\ \E t : Drafted(journal[i.conv], t, sent[i.key], i.key) /\ Moves(p, i, "finish", t)

MutationEffect(p, i) ==
  /\ UNCHANGED <<Store, World, Client, ledger>> /\ i.pc = "begin"
  /\ Turn(p, Idle) \/ MutationOn(p, i)

JobAt(p, pc, copy) == [job EXCEPT ![p].pc = pc, ![p].copy = copy]

LEMMA JobMoves ==
  ASSUME JobsType, NEW p \in Proc, NEW i, i = job[p], NEW pc, NEW copy
  PROVE  JobAt(p, pc, copy) = [job EXCEPT ![p] = NextJob(i, pc, copy)]
<1>1. job = [q \in Proc |-> job[q]]
  BY DEF JobsType
<1>2. JobOK(i, sent)
  BY DEF JobsType
<1>3. i = [pc |-> i.pc, op |-> i.op, conv |-> i.conv, key |-> i.key, exp |-> i.exp,
           copy |-> i.copy]
  BY <1>2 DEF JobOK
<1> QED BY <1>1, <1>3 DEF NextJob, JobAt

LEMMA MutationIs ==
  ASSUME TypeInv, NEW p \in Proc, NEW i, i = job[p], NEW accepted \in BOOLEAN, NEW t,
         i.pc = "begin", Mutation(p, accepted, t),
         Live(i.conv) /\ accepted => Drafted(journal[i.conv], t, sent[i.key], i.key)
  PROVE  MutationEffect(p, i)
<1>1. UNCHANGED <<Store, World, Client, ledger>> /\ sent' = sent
  BY DEF Mutation, Client
<1>2. JobsType /\ JobOK(i, sent)
  BY DEF TypeInv, JobsType
<1>3. CASE Answered(p)
  BY <1>1, <1>3, AnsweredIs DEF MutationEffect
<1>4. CASE /\ Admitted(p) /\ accepted
           /\ job' = [job EXCEPT ![p].pc = "finish", ![p].copy = t]
  <2>1. Live(i.conv) /\ journal[i.conv].idem[i.key] = 0
    BY <1>4 DEF Admitted, Now
  <2>2. Drafted(journal[i.conv], t, sent[i.key], i.key)
    BY <1>4, <2>1
  <2>3. job' = [job EXCEPT ![p] = NextJob(i, "finish", t)]
    <3>1. job' = JobAt(p, "finish", t)
      BY <1>4, Zenon DEF JobAt
    <3> QED BY <1>2, <3>1, JobMoves
  <2>4. PICK pc : pc = "finish"
    OBVIOUS
  <2>5. /\ pc \in {"create", "begin"} \cup Writing /\ (pc = "commit" => i.op = "close")
        /\ (pc # "create" => i.conv \in Conv) /\ i.pc # "idle" /\ i.op # "get"
    BY <1>2, <2>4 DEF Writing, JobOK
  <2>t. pc # "begin" => IsSession(t)
    BY <2>2 DEF Drafted
  <2>6. job' = [job EXCEPT ![p] = NextJob(i, pc, t)]
    BY <2>3, <2>4
  <2>7. Moves(p, i, pc, t)
    BY <1>1, <1>2, <2>5, <2>6, <2>t, GoesOn
  <2> QED BY <1>1, <2>1, <2>2, <2>4, <2>7 DEF MutationEffect, MutationOn
<1> QED BY <1>3, <1>4 DEF Mutation

\* What the request under service looks like.
LEMMA ServedIs ==
  ASSUME TypeInv, NEW p \in Proc, NEW i, i = job[p], i.pc = "begin"
  PROVE  /\ i.key \in Key /\ sent[i.key] \in RequestType /\ sent[i.key].op = i.op
         /\ i.conv \in Conv /\ (Live(i.conv) => IsSession(journal[i.conv]))
<1>1. JobOK(i, sent)
  BY DEF TypeInv, JobsType
<1>2. i.key \in Key /\ sent[i.key] # None /\ sent[i.key].op = i.op /\ i.conv \in Conv
  BY <1>1 DEF JobOK
<1> QED BY <1>2 DEF TypeInv, SentType, JournalType

LEMMA IngestDrafts ==
  ASSUME TypeInv, NEW p \in Proc, NEW i, i = job[p], Ingest(p)
  PROVE  MutationEffect(p, i)
<1>1. PICK s : s = journal[i.conv]
  OBVIOUS
<1>2. PICK q : q = sent[i.key]
  OBVIOUS
<1>3. PICK t : t = IngestCopy(s, q.picks, q.who)
  OBVIOUS
<1>4. PICK ok \in BOOLEAN :
        ok <=> /\ s.status = "open"
               /\ s.events < MaxEvents
               /\ \A n \in q.picks : n \in DOMAIN s.acts /\ s.acts[n].ask = "pending"
  OBVIOUS
<1>5. i.pc = "begin" /\ i.op = "ingest"
  BY DEF Ingest, Serving
<1>6. Mutation(p, s.status = "open" /\ s.events < MaxEvents /\
                  \A n \in q.picks : n \in DOMAIN s.acts /\ s.acts[n].ask = "pending", t)
  BY <1>1, <1>2, <1>3, Zenon DEF Ingest, IngestCopy, Now
<1>7. Mutation(p, ok, t)
  BY <1>4, <1>6 DEF Mutation
<1>8. ASSUME Live(i.conv), ok PROVE Drafted(s, t, q, i.key)
  <2>1. IsSession(s) /\ q.op = "ingest"
    BY <1>1, <1>2, <1>5, <1>8, ServedIs
  <2>2. IsSession(t) /\ Frame(s, t) /\ t.status = s.status /\ t.events = s.events + 1
        /\ Grown(s, t, {})
    BY <1>3, <2>1, IngestIs
  <2> QED BY <1>4, <1>8, <2>1, <2>2 DEF Drafted, Draft, Ingested
<1> QED BY <1>1, <1>2, <1>5, <1>7, <1>8, MutationIs


LEMMA ClaimDrafts ==
  ASSUME TypeInv, NEW p \in Proc, NEW i, i = job[p], Claim(p)
  PROVE  MutationEffect(p, i)
<1>1. PICK s : s = journal[i.conv]
  OBVIOUS
<1>2. PICK q : q = sent[i.key]
  OBVIOUS
<1>3. PICK t : t = ClaimCopy(s, q.act, i.key)
  OBVIOUS
<1> DEFINE may == /\ q.act \in DOMAIN s.acts
                  /\ s.acts[q.act].status \notin {"invalidated", "completed"}
                  /\ ~Leased(s.acts[q.act])
<1>4. PICK ok \in BOOLEAN : ok <=> may
  OBVIOUS
<1>5. i.pc = "begin" /\ i.op = "claim"
  BY DEF Claim, Serving
<1>6. Mutation(p, may, t)
  BY <1>1, <1>2, <1>3, Zenon DEF Claim, ClaimCopy, Now
<1>7. Mutation(p, ok, t)
  BY <1>4, <1>6 DEF Mutation
<1>8. ASSUME Live(i.conv), ok PROVE Drafted(s, t, q, i.key)
  <2>1. IsSession(s) /\ q.op = "claim" /\ i.key \in Key \cup {0}
    BY <1>1, <1>2, <1>5, <1>8, ServedIs
  <2>2. q.act \in DOMAIN s.acts /\ s.acts[q.act].status \notin {"invalidated", "completed"}
    BY <1>4, <1>8
  <2>3. IsSession(t) /\ Frame(s, t) /\ (s.status = "open" => Claimed(s, t, q.act, i.key))
    BY <1>3, <2>1, <2>2, ClaimIs
  <2> QED BY <2>1, <2>3 DEF Drafted, Draft
<1> HIDE DEF may
<1> QED BY <1>1, <1>2, <1>5, <1>7, <1>8, MutationIs

LEMMA SubmitDrafts ==
  ASSUME TypeInv, NEW p \in Proc, NEW i, i = job[p], Submit(p)
  PROVE  MutationEffect(p, i)
<1>1. PICK s : s = journal[i.conv]
  OBVIOUS
<1>2. PICK q : q = sent[i.key]
  OBVIOUS
<1>3. PICK t : t = SubmitCopy(s, q.act, q.proposal)
  OBVIOUS
<1> DEFINE may == /\ q.act \in DOMAIN s.acts
                  /\ Holds(s.acts[q.act], q.lease)
                  /\ q.lease \notin lapsed
<1>4. PICK ok \in BOOLEAN : ok <=> may
  OBVIOUS
<1>5. i.pc = "begin" /\ i.op = "submit"
  BY DEF Submit, Serving
<1>6. Mutation(p, may, t)
  BY <1>1, <1>2, <1>3, Zenon DEF Submit, SubmitCopy, Now
<1>7. Mutation(p, ok, t)
  BY <1>4, <1>6 DEF Mutation
<1>8. ASSUME Live(i.conv), ok PROVE Drafted(s, t, q, i.key)
  <2>1. IsSession(s) /\ q.op = "submit" /\ q.proposal \in ProposalType
    BY <1>1, <1>2, <1>5, <1>8, ServedIs DEF RequestType
  <2>2. q.act \in DOMAIN s.acts /\ s.acts[q.act].lease = q.lease
    BY <1>4, <1>8 DEF Holds
  <2>3. PICK lease : lease = q.lease
    OBVIOUS
  <2>4. IsSession(t) /\ Frame(s, t) /\ (s.status = "open" => Submitted(s, t, q.act, lease))
    BY <1>3, <2>1, <2>2, <2>3, SubmitIs
  <2> QED BY <2>1, <2>3, <2>4 DEF Drafted, Draft
<1> HIDE DEF may
<1> QED BY <1>1, <1>2, <1>5, <1>7, <1>8, MutationIs

LEMMA CancelDrafts ==
  ASSUME TypeInv, NEW p \in Proc, NEW i, i = job[p], Cancel(p)
  PROVE  MutationEffect(p, i)
<1>1. PICK s : s = journal[i.conv]
  OBVIOUS
<1>2. PICK q : q = sent[i.key]
  OBVIOUS
<1>3. PICK t : t = CancelCopy(s, q.act)
  OBVIOUS
<1> DEFINE may == q.act \in DOMAIN s.acts /\ Holds(s.acts[q.act], q.lease)
<1>4. PICK ok \in BOOLEAN : ok <=> may
  OBVIOUS
<1>5. i.pc = "begin" /\ i.op = "cancel"
  BY DEF Cancel, Serving
<1>6. Mutation(p, may, t)
  BY <1>1, <1>2, <1>3, Zenon DEF Cancel, CancelCopy, Now
<1>7. Mutation(p, ok, t)
  BY <1>4, <1>6 DEF Mutation
<1>8. ASSUME Live(i.conv), ok PROVE Drafted(s, t, q, i.key)
  <2>1. IsSession(s) /\ q.op = "cancel"
    BY <1>1, <1>2, <1>5, <1>8, ServedIs
  <2>2. q.act \in DOMAIN s.acts /\ s.acts[q.act].lease = q.lease
    BY <1>4, <1>8 DEF Holds
  <2>3. PICK lease : lease = q.lease
    OBVIOUS
  <2>4. IsSession(t) /\ Frame(s, t) /\ Returned(s, t, q.act, lease)
    BY <1>3, <2>1, <2>2, <2>3, CancelIs
  <2> QED BY <2>1, <2>3, <2>4 DEF Drafted, Draft
<1> HIDE DEF may
<1> QED BY <1>1, <1>2, <1>5, <1>7, <1>8, MutationIs

LEMMA PublishDrafts ==
  ASSUME TypeInv, NEW p \in Proc, NEW i, i = job[p], Publish(p)
  PROVE  MutationEffect(p, i)
<1>1. PICK s : s = journal[i.conv]
  OBVIOUS
<1>2. PICK q : q = sent[i.key]
  OBVIOUS
<1>3. PICK t : t = PublishCopy(s, q.act, q.who \ {s.acts[q.act].actor})
  OBVIOUS
<1> DEFINE may == /\ q.act \in DOMAIN s.acts
                  /\ s.acts[q.act].pub = "pending_audience"
                  /\ s.events < MaxEvents
<1>4. PICK ok \in BOOLEAN : ok <=> may
  OBVIOUS
<1>5. i.pc = "begin" /\ i.op = "publish"
  BY DEF Publish, Serving
<1>6. Mutation(p, may, t)
  BY <1>1, <1>2, <1>3, Zenon DEF Publish, PublishCopy, Now
<1>7. Mutation(p, ok, t)
  BY <1>4, <1>6 DEF Mutation
<1>8. ASSUME Live(i.conv), ok PROVE Drafted(s, t, q, i.key)
  <2>1. IsSession(s) /\ q.op = "publish"
    BY <1>1, <1>2, <1>5, <1>8, ServedIs
  <2>2. q.act \in DOMAIN s.acts /\ s.acts[q.act].pub = "pending_audience"
    BY <1>4, <1>8
  <2>3. PICK who : who = q.who \ {s.acts[q.act].actor}
    OBVIOUS
  <2>4. IsSession(t) /\ Frame(s, t) /\ (s.status = "open" => Published(s, t, q.act))
    BY <1>3, <2>1, <2>2, <2>3, PublishIs
  <2> QED BY <2>1, <2>4 DEF Drafted, Draft
<1> HIDE DEF may
<1> QED BY <1>1, <1>2, <1>5, <1>7, <1>8, MutationIs

LEMMA AbortDrafts ==
  ASSUME TypeInv, NEW p \in Proc, NEW i, i = job[p], Abort(p)
  PROVE  MutationEffect(p, i)
<1>1. PICK s : s = journal[i.conv]
  OBVIOUS
<1>2. PICK q : q = sent[i.key]
  OBVIOUS
<1>3. PICK t : t = WithStatus(s, "aborted")
  OBVIOUS
<1>4. PICK ok \in BOOLEAN : ok <=> TRUE
  OBVIOUS
<1>5. i.pc = "begin" /\ i.op = "abort"
  BY DEF Abort, Serving
<1>6. Mutation(p, TRUE, t)
  BY <1>1, <1>2, <1>3, Zenon DEF Abort, WithStatus, Now
<1>7. Mutation(p, ok, t)
  BY <1>4, <1>6 DEF Mutation
<1>8. ASSUME Live(i.conv), ok PROVE Drafted(s, t, q, i.key)
  <2>1. IsSession(s) /\ q.op = "abort"
    BY <1>1, <1>2, <1>5, <1>8, ServedIs
  <2>2. PICK st : st = "aborted"
    OBVIOUS
  <2>3. st \in SessionStatus /\ t = WithStatus(s, st)
    BY <1>3, <2>2 DEF SessionStatus
  <2>4. IsSession(t) /\ Frame(s, t) /\ t.status = st
    BY <2>1, <2>3, SessionStatusSet
  <2> QED BY <2>1, <2>2, <2>4 DEF Drafted, Draft
<1> QED BY <1>1, <1>2, <1>5, <1>7, <1>8, MutationIs


\* Closing.
LEMMA PayloadIs ==
  ASSUME TypeInv, NEW p \in Proc, NEW i, i = job[p], i.pc = "commit", NEW x, x = CommitPayload(p)
  PROVE  x \in CommitType /\ x.conv = i.conv /\ x.events = i.copy.events
<1> DEFINE s == i.copy
           q == sent[i.key]
           A == {n \in DOMAIN s.acts : [m \in DOMAIN s.acts |-> s.acts[m].pub # "none"][n]}
           B == {n \in DOMAIN s.acts : [m \in DOMAIN s.acts |-> s.acts[m].ask = "pending"][n]}
           H == [a \in Actor |-> IF a \in Speakers(s, q.picks, {"fact"}) THEN fact[a] ELSE 0]
           e == s.events
           a == Cardinality(A)
           b == Cardinality(B)
           c == i.conv
           T == q.picks
<1>1. JobOK(i, sent)
  BY DEF TypeInv, JobsType
<1>2. IsSession(s) /\ i.conv \in Conv /\ i.key \in Key /\ q # None
  BY <1>1 DEF JobOK, Writing
<1>3. q \in RequestType
  BY <1>2 DEF TypeInv, SentType
<1>4. e \in Nat /\ DOMAIN s.acts = 1 .. Len(s.acts) /\ Len(s.acts) \in Nat
  BY <1>2, SessionFields, ActivationsListed
<1>5. IsFiniteSet(DOMAIN s.acts)
  BY <1>4, FS_Interval
<1>6. a \in Nat
  <2>1. A \in SUBSET DOMAIN s.acts
    OBVIOUS
  <2> HIDE DEF A
  <2> QED BY <1>5, <2>1, FS_Subset, FS_CardinalityType
<1>7. b \in Nat
  <2>1. B \in SUBSET DOMAIN s.acts
    OBVIOUS
  <2> HIDE DEF B
  <2> QED BY <1>5, <2>1, FS_Subset, FS_CardinalityType
<1>8. H \in [Actor -> Key \cup {0}]
  <2>1. \A d \in Actor : fact[d] \in Key \cup {0}
    BY DEF TypeInv, WorldType
  <2> QED BY <2>1
<1>9. T \in SUBSET Nat /\ c \in Conv
  BY <1>2, <1>3 DEF RequestType
<1>10. x = [conv |-> c, events |-> e, picks |-> T, pubs |-> a, asks |-> b, heads |-> H]
  BY Zenon DEF CommitPayload
<1> HIDE DEF e, a, b, c, T, H
<1>11. x \in CommitType /\ x.conv = c /\ x.events = e
  BY <1>4, <1>6, <1>7, <1>8, <1>9, <1>10 DEF CommitType
<1> QED BY <1>11 DEF c, e

CommitOn(p, i) ==
  /\ \E t : /\ Frame(i.copy, t) /\ t.status = "closed" /\ Moves(p, i, "finish", t)
            /\ IsSession(t)
  /\ Complete(i.copy) /\ Closable(i.copy, sent[i.key].picks)
  /\ ledger'[i.key] # None /\ ledger'[i.key].conv = i.conv
  /\ ledger'[i.key].events = i.copy.events

CommitEffect(p, i) ==
  /\ UNCHANGED <<Store, sent, lapsed, scene, changes>> /\ i.pc = "commit"
  /\ LedgerType' /\ WorldType'
  /\ \A k \in Key : ledger[k] # None => ledger'[k] = ledger[k]
  /\ \/ Turn(p, Idle) /\ ledger' = ledger /\ version' = version
     \/ CommitOn(p, i)

LEMMA CommitIs ==
  ASSUME TypeInv, NEW p \in Proc, NEW i, i = job[p], Commit(p)
  PROVE  CommitEffect(p, i)
<1>0. PICK x : x = CommitPayload(p)
  OBVIOUS
<1>1. PICK s : s = i.copy
  OBVIOUS
<1>2. PICK k : k = i.key
  OBVIOUS
<1>3. PICK picks : picks = sent[k].picks
  OBVIOUS
<1>4. PICK t : t = WithStatus(s, "closed")
  OBVIOUS
<1>5. UNCHANGED <<Store, sent, lapsed, scene, changes>> /\ i.pc = "commit" /\ sent' = sent
      /\ scene' = scene /\ lapsed' = lapsed /\ changes' = changes
  BY DEF Commit
<1>6. /\ JobsType /\ JobOK(i, sent) /\ WorldType /\ LedgerType
  BY DEF TypeInv, JobsType
<1>7. IsSession(s) /\ i.conv \in Conv /\ k \in Key /\ i.op = "close"
  BY <1>1, <1>2, <1>5, <1>6 DEF JobOK, Writing
<1>8. x \in CommitType /\ x.conv = i.conv /\ x.events = s.events /\ x # None
  BY <1>0, <1>1, <1>5, PayloadIs, NoneIsNoRecord
<1> DEFINE closed == job' = [job EXCEPT ![p].pc = "finish", ![p].copy.status = "closed"]
<1>9. \/ Answered(p) /\ UNCHANGED <<ledger, version, fact>>
      \/ /\ Closable(s, picks) /\ ledger[k] = None /\ closed
         /\ ledger' = [ledger EXCEPT ![k] = x]
         /\ version' = [a \in Actor |->
              IF a \in Speakers(s, picks, {"fact", "actor_knowledge"})
              THEN version[a] + 1 ELSE version[a]]
         /\ fact' = [a \in Actor |-> IF a \in Speakers(s, picks, {"fact"})
                                     THEN k ELSE fact[a]]
      \/ Closable(s, picks) /\ ledger[k] = x /\ closed /\ UNCHANGED <<ledger, version, fact>>
  <2> HIDE DEF closed
  <2> QED BY <1>0, <1>1, <1>2, <1>3, Zenon DEF Commit, closed
<1>10. ASSUME ledger' = ledger, version' = version, fact' = fact
       PROVE  LedgerType' /\ WorldType'
  BY <1>5, <1>6, <1>10 DEF LedgerType, WorldType
<1>11. CASE Answered(p) /\ UNCHANGED <<ledger, version, fact>>
  BY <1>5, <1>10, <1>11, AnsweredIs DEF CommitEffect
<1>12. ASSUME Closable(s, picks), closed, ledger'[k] = x
       PROVE  CommitOn(p, i)
  <2>1. PICK st : st = "closed"
    OBVIOUS
  <2>2. st \in SessionStatus /\ t = WithStatus(s, st)
    BY <1>4, <2>1 DEF SessionStatus
  <2>3. IsSession(t) /\ Frame(s, t) /\ t.status = st
    BY <1>7, <2>2, SessionStatusSet
  <2>4. PICK pc : pc = "finish"
    OBVIOUS
  <2>5. job' = [job EXCEPT ![p] = NextJob(i, pc, t)]
    <3>1. job = [d \in Proc |-> job[d]]
      BY <1>6 DEF JobsType
    <3>2. i = [pc |-> i.pc, op |-> i.op, conv |-> i.conv, key |-> i.key, exp |-> i.exp,
               copy |-> i.copy]
      BY <1>6 DEF JobOK
    <3>3. job' = [job EXCEPT ![p].pc = pc, ![p].copy.status = st]
      BY <1>12, <2>1, <2>4
    <3>4. t = [s EXCEPT !.status = st]
      BY <2>2 DEF WithStatus
    <3> HIDE DEF closed
    <3> QED BY <1>1, <3>1, <3>2, <3>3, <3>4 DEF NextJob
  <2>6. /\ pc \in {"create", "begin"} \cup Writing /\ (pc = "commit" => i.op = "close")
        /\ (pc # "create" => i.conv \in Conv) /\ i.pc # "idle" /\ i.op # "get"
    BY <1>5, <1>7, <2>4 DEF Writing
  <2>7. pc # "begin" => IsSession(t)
    BY <2>3
  <2>8. Moves(p, i, pc, t)
    BY <1>5, <1>6, <2>5, <2>6, <2>7, GoesOn
  <2>9. Complete(s)
    BY <1>12 DEF Closable, Complete
  <2> HIDE DEF closed
  <2> QED BY <1>1, <1>2, <1>3, <1>8, <1>12, <2>1, <2>3, <2>4, <2>8, <2>9 DEF CommitOn
<1>13. CASE Closable(s, picks) /\ ledger[k] = x /\ closed /\ UNCHANGED <<ledger, version, fact>>
  <2> HIDE DEF closed
  <2> QED BY <1>5, <1>10, <1>12, <1>13 DEF CommitEffect
<1>14. CASE /\ Closable(s, picks) /\ ledger[k] = None /\ closed
            /\ ledger' = [ledger EXCEPT ![k] = x]
            /\ version' = [a \in Actor |->
                 IF a \in Speakers(s, picks, {"fact", "actor_knowledge"})
                 THEN version[a] + 1 ELSE version[a]]
            /\ fact' = [a \in Actor |-> IF a \in Speakers(s, picks, {"fact"})
                                        THEN k ELSE fact[a]]
  <2> HIDE DEF closed
  <2>1. /\ ledger'[k] = x /\ (\A y \in Key : y # k => ledger'[y] = ledger[y])
        /\ ledger' = [y \in Key |-> ledger'[y]]
    BY <1>6, <1>7, <1>14 DEF LedgerType
  <2>2. LedgerType'
    BY <1>6, <1>8, <2>1 DEF LedgerType
  <2>3. version' \in [Actor -> Nat]
    <3>1. \A a \in Actor : version[a] \in Nat
      BY <1>6 DEF WorldType
    <3> QED BY <1>14, <3>1
  <2>4. fact' \in [Actor -> Key \cup {0}]
    <3>1. \A a \in Actor : fact[a] \in Key \cup {0}
      BY <1>6 DEF WorldType
    <3> QED BY <1>7, <1>14, <3>1
  <2>5. WorldType'
    BY <1>5, <1>6, <2>3, <2>4 DEF WorldType
  <2>6. CommitOn(p, i)
    BY <1>12, <1>14, <2>1
  <2>7. \A y \in Key : ledger[y] # None => ledger'[y] = ledger[y]
    BY <1>14, <2>1
  <2> QED BY <1>5, <2>2, <2>5, <2>6, <2>7 DEF CommitEffect
<1> HIDE DEF closed
<1> QED BY <1>9, <1>11, <1>13, <1>14

\* The two accesses that end every mutation.
FinishEffect(p, i) ==
  /\ UNCHANGED <<Store, World, Client, ledger>> /\ i.pc = "finish"
  /\ \/ Turn(p, Idle)
     \/ Live(i.conv) /\ journal[i.conv].rev = i.copy.rev /\ Moves(p, i, "write", i.copy)

LEMMA FinishIs ==
  ASSUME TypeInv, NEW p \in Proc, NEW i, i = job[p], Finish(p)
  PROVE  FinishEffect(p, i)
<1>1. UNCHANGED <<Store, World, Client, ledger>> /\ sent' = sent /\ i.pc = "finish"
  BY DEF Finish, Client
<1>2. JobsType /\ JobOK(i, sent)
  BY DEF TypeInv, JobsType
<1>3. CASE Answered(p)
  BY <1>1, <1>3, AnsweredIs DEF FinishEffect
<1>4. CASE /\ Live(i.conv) /\ journal[i.conv].rev = i.copy.rev
           /\ job' = [job EXCEPT ![p].pc = "write"]
  <2>1. PICK t : t = i.copy
    OBVIOUS
  <2>2. PICK pc : pc = "write"
    OBVIOUS
  <2>3. job' = [job EXCEPT ![p] = NextJob(i, "write", t)]
    BY <1>2, <1>4, <2>1, SameCopy
  <2>4. job' = [job EXCEPT ![p] = NextJob(i, pc, t)]
    BY <2>2, <2>3
  <2>5. /\ pc \in {"create", "begin"} \cup Writing /\ (pc = "commit" => i.op = "close")
        /\ (pc # "create" => i.conv \in Conv) /\ i.pc # "idle" /\ i.op # "get"
    BY <1>1, <1>2, <2>2 DEF Writing, JobOK
  <2>6. pc # "begin" => IsSession(t)
    BY <1>1, <1>2, <2>1 DEF Writing, JobOK
  <2>7. Moves(p, i, pc, t)
    BY <1>1, <1>2, <2>4, <2>5, <2>6, GoesOn
  <2> QED BY <1>1, <1>4, <2>1, <2>2, <2>7 DEF FinishEffect
<1> QED BY <1>3, <1>4 DEF Finish

WriteEffect(p, i) ==
  /\ UNCHANGED <<World, Client, ledger>> /\ i.pc = "write" /\ Turn(p, Idle)
  /\ journal' = [journal EXCEPT ![i.conv] = Finished(i.copy, i.key)]

LEMMA WriteIs ==
  ASSUME TypeInv, NEW p \in Proc, NEW i, i = job[p], Write(p)
  PROVE  WriteEffect(p, i)
BY AnsweredIs DEF Write, WriteEffect


-----------------------------------------------------------------------------
(* Every variable keeps its type, for any number of processes. *)

LEMMA JournalSet ==
  ASSUME JournalType, NEW c \in Conv, NEW t, IsSession(t) \/ t = Removed,
         journal' = [journal EXCEPT ![c] = t]
  PROVE  JournalType' /\ journal'[c] = t /\ \A d \in Conv : d # c => journal'[d] = journal[d]
<1>1. /\ journal'[c] = t /\ (\A d \in Conv : d # c => journal'[d] = journal[d])
      /\ journal' = [d \in Conv |-> journal'[d]]
  BY DEF JournalType
<1>2. \A d \in Conv : Live(d)' => IsSession(journal'[d])
  BY <1>1 DEF JournalType, Live
<1>3. JournalType'
  BY <1>1, <1>2 DEF JournalType
<1> QED BY <1>1, <1>3

\* A session is a journal that is there.
LEMMA SessionLives ==
  ASSUME NEW t, IsSession(t) PROVE t # None /\ t # Removed
BY NoneIsNoRecord

LEMMA JournalKept ==
  ASSUME JournalType, journal' = journal PROVE JournalType'
BY DEF JournalType, Live

LEMMA SentKept ==
  ASSUME SentType, sent' = sent
  PROVE  SentType' /\ \A k \in Key : sent[k] # None => sent'[k] = sent[k]
BY DEF SentType

LEMMA LedgerKept ==
  ASSUME LedgerType, ledger' = ledger PROVE LedgerType'
BY DEF LedgerType

LEMMA WorldKept ==
  ASSUME WorldType, UNCHANGED World, lapsed' = lapsed PROVE WorldType'
BY DEF WorldType, World

LEMMA JobsKept ==
  ASSUME JobsType, job' = job, sent' = sent PROVE JobsType'
BY DEF JobsType

LEMMA TypeInit ==
  ASSUME Init PROVE TypeInv
<1>1. JournalType
  BY DEF Init, JournalType, Live
<1>2. SentType /\ LedgerType
  BY DEF Init, SentType, LedgerType
<1>3. WorldType
  BY BoundAssumption DEF Init, WorldType
<1>4. JobsType
  <2>1. job = [p \in Proc |-> Idle]
    BY DEF Init
  <2>2. \A p \in Proc : JobOK(job[p], sent)
    BY <2>1, IdleOK
  <2> QED BY <2>1, <2>2 DEF JobsType
<1> QED BY <1>1, <1>2, <1>3, <1>4 DEF TypeInv

\* A step of p that leaves the journal, the database and the world alone.
Aside == UNCHANGED <<Elsewhere, sent>>

LEMMA AsideTypes ==
  ASSUME TypeInv, NEW p \in Proc, NEW j, Turn(p, j), UNCHANGED Elsewhere,
         SentType', \A k \in Key : sent[k] # None => sent'[k] = sent[k]
  PROVE  TypeInv'
<1>1. journal' = journal /\ UNCHANGED World /\ ledger' = ledger /\ lapsed' = lapsed
  BY DEF Elsewhere, Store
<1>2. JournalType' /\ LedgerType' /\ WorldType'
  BY <1>1, JournalKept, LedgerKept, WorldKept DEF TypeInv
<1>3. JobsType'
  BY TurnTaken DEF TypeInv
<1> QED BY <1>2, <1>3 DEF TypeInv

LEMMA StoreTypes ==
  ASSUME TypeInv, NEW p \in Proc, NEW j, Turn(p, j), UNCHANGED <<World, Client, ledger>>,
         JournalType'
  PROVE  TypeInv'
<1>1. UNCHANGED World /\ ledger' = ledger /\ lapsed' = lapsed /\ sent' = sent
  BY DEF Client
<1>2. SentType' /\ LedgerType' /\ WorldType'
  BY <1>1, SentKept, LedgerKept, WorldKept DEF TypeInv
<1>3. \A k \in Key : sent[k] # None => sent'[k] = sent[k]
  BY <1>1
<1>4. JobsType'
  BY <1>3, TurnTaken DEF TypeInv
<1> QED BY <1>2, <1>4 DEF TypeInv

LEMMA MutationTypes ==
  ASSUME TypeInv, NEW p \in Proc, NEW i, MutationEffect(p, i)
  PROVE  TypeInv'
<1>1. journal' = journal /\ UNCHANGED <<World, Client, ledger>>
  BY DEF MutationEffect, Store
<1>2. PICK j : Turn(p, j)
  BY DEF MutationEffect, MutationOn, Moves
<1> QED BY <1>1, <1>2, JournalKept, StoreTypes DEF TypeInv

LEMMA RequestTypes ==
  ASSUME TypeInv, NEW p \in Proc,
         \/ \E k \in Key, S \in SUBSET Actor : Open(p, k, S)
         \/ \E c \in Conv : Live(c) /\ \E k \in Key, q \in Requests(c) : Send(p, k, q)
         \/ \E k \in Key : Retry(p, k)
         \/ \E c \in Conv : Look(p, c)
  PROVE  TypeInv'
<1>1. ASSUME NEW k \in Key, NEW S \in SUBSET Actor, Open(p, k, S) PROVE TypeInv'
  <2>1. UNCHANGED Elsewhere /\ Recorded(k) /\ \E j : Turn(p, j)
    BY <1>1, OpenIs
  <2>2. PICK j : Turn(p, j)
    BY <2>1
  <2> QED BY <2>1, <2>2, AsideTypes DEF Recorded
<1>2. ASSUME NEW c \in Conv, Live(c), NEW k \in Key, NEW q \in Requests(c), Send(p, k, q)
      PROVE  TypeInv'
  <2>1. UNCHANGED Elsewhere /\ Recorded(k) /\ \E j : Turn(p, j)
    BY <1>2, SendIs
  <2>2. PICK j : Turn(p, j)
    BY <2>1
  <2> QED BY <2>1, <2>2, AsideTypes DEF Recorded
<1>3. ASSUME NEW k \in Key, Retry(p, k) PROVE TypeInv'
  <2>1. UNCHANGED <<Elsewhere, sent>> /\ \E j : Turn(p, j)
    BY <1>3, RetryIs
  <2>2. PICK j : Turn(p, j)
    BY <2>1
  <2> QED BY <2>1, <2>2, AsideTypes, SentKept DEF TypeInv
<1>4. ASSUME NEW c \in Conv, Look(p, c) PROVE TypeInv'
  <2>1. UNCHANGED <<Elsewhere, sent>> /\ \E j : Turn(p, j)
    BY <1>4, LookIs
  <2>2. PICK j : Turn(p, j)
    BY <2>1
  <2> QED BY <2>1, <2>2, AsideTypes, SentKept DEF TypeInv
<1> QED BY <1>1, <1>2, <1>3, <1>4

LEMMA ServeTypes ==
  ASSUME TypeInv, NEW p \in Proc, Serve(p)
  PROVE  TypeInv'
<1>0. PICK i : i = job[p]
  OBVIOUS
<1>i. JobOK(i, sent) /\ JournalType
  BY <1>0 DEF TypeInv, JobsType
<1>1. CASE OpenScan(p)
  <2>1. UNCHANGED <<Elsewhere, sent>> /\ \E j : Turn(p, j)
    BY <1>1, OpenScanIs
  <2>2. PICK j : Turn(p, j)
    BY <2>1
  <2> QED BY <2>1, <2>2, AsideTypes, SentKept DEF TypeInv
<1>2. ASSUME NEW c \in Conv, OpenWrite(p, c) PROVE TypeInv'
  <2>1. /\ UNCHANGED <<World, Client, ledger>> /\ Turn(p, Idle) /\ IsSession(i.copy)
        /\ journal' = [journal EXCEPT ![c] = i.copy]
    BY <1>0, <1>2, OpenWriteIs
  <2>2. JournalType'
    BY <1>i, <2>1, JournalSet
  <2> QED BY <2>1, <2>2, StoreTypes
<1>3. CASE Fresh(p)
  <2>1. /\ UNCHANGED <<World, Client, ledger>> /\ i.pc = "fresh"
        /\ FreshRefused(p, i) \/ FreshStale(p, i) \/ FreshOn(p, i)
    BY <1>0, <1>3, FreshIs
  <2>2. i.conv \in Conv
    BY <1>i, <2>1 DEF JobOK
  <2>3. CASE FreshRefused(p, i)
    BY <1>i, <2>1, <2>3, JournalKept, StoreTypes DEF FreshRefused
  <2>4. CASE FreshStale(p, i)
    <3>1. PICK t : IsSession(t) /\ journal' = [journal EXCEPT ![i.conv] = t]
      BY <2>4 DEF FreshStale, Freshened
    <3>2. JournalType'
      BY <1>i, <2>2, <3>1, JournalSet
    <3> QED BY <2>1, <2>4, <3>2, StoreTypes DEF FreshStale
  <2>5. CASE FreshOn(p, i)
    <3>1. PICK t : FreshCopy(i, t) /\ FreshNext(p, i, t)
      BY <2>5 DEF FreshOn
    <3>2. JournalType'
      <4>1. CASE journal' = journal
        BY <1>i, <4>1, JournalKept
      <4>2. CASE journal' = [journal EXCEPT ![i.conv] = t]
        BY <1>i, <2>2, <3>1, <4>2, JournalSet DEF FreshCopy
      <4> QED BY <3>1, <4>1, <4>2 DEF FreshCopy
    <3>3. PICK j : Turn(p, j)
      BY <3>1 DEF FreshNext, Moves
    <3> QED BY <2>1, <3>2, <3>3, StoreTypes
  <2> QED BY <2>1, <2>3, <2>4, <2>5
<1>4. CASE Ingest(p) \/ Claim(p) \/ Submit(p) \/ Cancel(p) \/ Publish(p) \/ Abort(p)
  <2>1. MutationEffect(p, i)
    BY <1>0, <1>4, IngestDrafts, ClaimDrafts, SubmitDrafts, CancelDrafts, PublishDrafts,
       AbortDrafts
  <2> QED BY <2>1, MutationTypes
<1>5. CASE Commit(p)
  <2>1. CommitEffect(p, i)
    BY <1>0, <1>5, CommitIs
  <2>2. journal' = journal /\ sent' = sent /\ LedgerType' /\ WorldType'
    BY <2>1 DEF CommitEffect, Store
  <2>3. JournalType' /\ SentType' /\ \A k \in Key : sent[k] # None => sent'[k] = sent[k]
    BY <2>2, JournalKept, SentKept DEF TypeInv
  <2>4. PICK j : Turn(p, j)
    BY <2>1 DEF CommitEffect, CommitOn, Moves
  <2>5. JobsType'
    BY <2>3, <2>4, TurnTaken DEF TypeInv
  <2> QED BY <2>2, <2>3, <2>5 DEF TypeInv
<1>6. CASE Finish(p)
  <2>1. FinishEffect(p, i)
    BY <1>0, <1>6, FinishIs
  <2>2. UNCHANGED <<World, Client, ledger>> /\ journal' = journal
    BY <2>1 DEF FinishEffect, Store
  <2>3. PICK j : Turn(p, j)
    BY <2>1 DEF FinishEffect, Moves
  <2> QED BY <1>i, <2>2, <2>3, JournalKept, StoreTypes
<1>7. CASE Write(p)
  <2>1. WriteEffect(p, i)
    BY <1>0, <1>7, WriteIs
  <2>2. PICK w : w = Finished(i.copy, i.key)
    OBVIOUS
  <2>3. IsSession(i.copy) /\ i.conv \in Conv
    BY <1>i, <2>1 DEF JobOK, Writing, WriteEffect
  <2>4. IsSession(w) /\ journal' = [journal EXCEPT ![i.conv] = w]
    BY <2>1, <2>2, <2>3, FinishedSession DEF WriteEffect
  <2>5. JournalType'
    BY <1>i, <2>3, <2>4, JournalSet
  <2> QED BY <2>1, <2>5, StoreTypes DEF WriteEffect
<1> QED BY <1>1, <1>2, <1>3, <1>4, <1>5, <1>6, <1>7 DEF Serve


\* What happens around the conversations.
LEMMA ActorChangeIs ==
  ASSUME TypeInv, NEW a \in Actor, ActorChange(a)
  PROVE  TypeInv' /\ journal' = journal /\ sent' = sent /\ job' = job /\ ledger' = ledger
<1>1. /\ journal' = journal /\ job' = job /\ sent' = sent /\ ledger' = ledger
      /\ lapsed' = lapsed /\ fact' = fact /\ scene' = scene
  BY DEF ActorChange, Store, Jobs, Client
<1>2. version' \in [Actor -> Nat] /\ changes' \in 0 .. MaxChange
  <2>1. version \in [Actor -> Nat] /\ changes \in 0 .. MaxChange
    BY DEF TypeInv, WorldType
  <2>2. version' = [version EXCEPT ![a] = @ + 1] /\ changes' = changes + 1 /\ changes < MaxChange
    BY DEF ActorChange
  <2> QED BY <2>1, <2>2, BoundAssumption
<1>3. WorldType'
  BY <1>1, <1>2 DEF TypeInv, WorldType
<1> QED BY <1>1, <1>3, JournalKept, SentKept, LedgerKept, JobsKept DEF TypeInv

LEMMA SceneChangeIs ==
  ASSUME TypeInv, SceneChange
  PROVE  TypeInv' /\ journal' = journal /\ sent' = sent /\ job' = job /\ ledger' = ledger
         /\ version' = version
<1>1. /\ journal' = journal /\ job' = job /\ sent' = sent /\ ledger' = ledger
      /\ lapsed' = lapsed /\ fact' = fact /\ version' = version
  BY DEF SceneChange, Store, Jobs, Client
<1>2. scene' \in {0, 1} /\ changes' \in 0 .. MaxChange
  <2>1. scene \in {0, 1} /\ changes \in 0 .. MaxChange
    BY DEF TypeInv, WorldType
  <2>2. scene' = 1 - scene /\ changes' = changes + scene' /\ (scene = 0 => changes < MaxChange)
    BY DEF SceneChange
  <2> QED BY <2>1, <2>2, BoundAssumption
<1>3. WorldType'
  BY <1>1, <1>2 DEF TypeInv, WorldType
<1> QED BY <1>1, <1>3, JournalKept, SentKept, LedgerKept, JobsKept DEF TypeInv

LEMMA LapseIs ==
  ASSUME TypeInv, NEW k \in Key, Lapse(k)
  PROVE  TypeInv' /\ journal' = journal /\ sent' = sent /\ job' = job /\ ledger' = ledger
         /\ version' = version
<1>1. /\ journal' = journal /\ job' = job /\ sent' = sent /\ ledger' = ledger
      /\ UNCHANGED World /\ version' = version
  BY DEF Lapse, Store, Jobs, World
<1>2. lapsed' \subseteq Key
  BY DEF Lapse, TypeInv, WorldType
<1>3. WorldType'
  BY <1>1, <1>2 DEF TypeInv, WorldType, World
<1> QED BY <1>1, <1>3, JournalKept, SentKept, LedgerKept, JobsKept DEF TypeInv

LEMMA CleanupIs ==
  ASSUME TypeInv, NEW c \in Conv, Cleanup(c)
  PROVE  /\ TypeInv' /\ sent' = sent /\ job' = job /\ ledger' = ledger /\ version' = version
         /\ journal[c].status \notin ActiveStatus /\ journal'[c] = Removed
         /\ \A d \in Conv : d # c => journal'[d] = journal[d]
<1>1. /\ job' = job /\ sent' = sent /\ ledger' = ledger /\ lapsed' = lapsed
      /\ UNCHANGED World /\ version' = version /\ journal[c].status \notin ActiveStatus
  BY DEF Cleanup, Jobs, World, Client
<1>2. PICK t : t = Removed
  OBVIOUS
<1>3. journal' = [journal EXCEPT ![c] = t]
  BY <1>2 DEF Cleanup
<1>4. JournalType' /\ journal'[c] = t /\ \A d \in Conv : d # c => journal'[d] = journal[d]
  BY <1>2, <1>3, JournalSet DEF TypeInv
<1> QED BY <1>1, <1>2, <1>4, SentKept, LedgerKept, JobsKept, WorldKept DEF TypeInv

LEMMA CrashIs ==
  ASSUME TypeInv, NEW p \in Proc, Crash(p)
  PROVE  TypeInv' /\ UNCHANGED <<Store, World, Client, ledger>> /\ Turn(p, Idle)
<1>1. UNCHANGED <<Store, World, Client, ledger>> /\ journal' = journal /\ Turn(p, Idle)
  BY AnsweredIs DEF Crash, Store
<1> QED BY <1>1, JournalKept, StoreTypes DEF TypeInv

LEMMA StutterTypes ==
  ASSUME TypeInv, UNCHANGED vars PROVE TypeInv'
<1>1. /\ journal' = journal /\ job' = job /\ sent' = sent /\ ledger' = ledger
      /\ UNCHANGED World /\ lapsed' = lapsed
  BY DEF vars, World
<1> QED BY <1>1, JournalKept, SentKept, LedgerKept, JobsKept, WorldKept DEF TypeInv

LEMMA TypeStep ==
  ASSUME TypeInv, [Next]_vars PROVE TypeInv'
<1>1. ASSUME NEW p \in Proc,
             \/ \E k \in Key, S \in SUBSET Actor : Open(p, k, S)
             \/ \E c \in Conv : Live(c) /\ \E k \in Key, q \in Requests(c) : Send(p, k, q)
             \/ \E k \in Key : Retry(p, k)
             \/ \E c \in Conv : Look(p, c)
      PROVE  TypeInv'
  BY <1>1, RequestTypes
<1>2. ASSUME NEW p \in Proc, Serve(p) \/ Crash(p) PROVE TypeInv'
  BY <1>2, ServeTypes, CrashIs
<1>3. ASSUME \/ \E a \in Actor : ActorChange(a)
             \/ SceneChange
             \/ \E k \in Key : Lapse(k)
             \/ \E c \in Conv : Cleanup(c)
      PROVE  TypeInv'
  BY <1>3, ActorChangeIs, SceneChangeIs, LapseIs, CleanupIs
<1> QED BY <1>1, <1>2, <1>3, StutterTypes DEF Next

LEMMA TypesHold == Spec => []TypeInv
<1>1. Init => TypeInv
  BY TypeInit
<1>2. TypeInv /\ [Next]_vars => TypeInv'
  BY TypeStep
<1> QED BY <1>1, <1>2, PTL DEF Spec

\* Every variable has its type, however many processes share the journals and
\* wherever they die (TypeOK).
THEOREM ConversationTypeCorrect == Spec => []TypeOK
<1>1. TypeInv => TypeOK
  BY TypesFollow
<1> QED BY <1>1, TypesHold, PTL


-----------------------------------------------------------------------------
(* One process. *)

LEMMA IdleInv ==
  ASSUME NEW p \in Proc, job'[p].pc = "idle" PROVE JobInv(p)'
BY DEF JobInv, Writing

LEMMA JobInvKept ==
  ASSUME NEW p \in Proc, JobInv(p), job' = job, journal' = journal, sent' = sent,
         ledger' = ledger, version' = version
  PROVE  JobInv(p)'
BY DEF JobInv, Taken, Live

LEMMA RestKept ==
  ASSUME RestInv, journal' = journal, sent' = sent PROVE RestInv'
BY DEF RestInv, SentInv, SoundInv, OneConversationEach, Active, Live

\* A journal is replaced.
LEMMA RestSet ==
  ASSUME RestInv, sent' = sent, NEW c \in Conv, NEW t, IsSession(t) \/ t = Removed,
         journal'[c] = t, \A d \in Conv : d # c => journal'[d] = journal[d],
         t # Removed => \A k \in Key : sent[k] = None => t.idem[k] = 0,
         t # Removed /\ t.status \in ActiveStatus =>
           /\ Sound(t, sent)
           /\ \A d \in Conv : d # c /\ Active(d) => Participants(t) \cap Participants(journal[d]) = {}
  PROVE  RestInv'
<1>1. /\ Live(c)' <=> t # Removed
      /\ \A d \in Conv : d # c => (Live(d)' <=> Live(d))
  BY NoneAssumption, SessionLives DEF Live
<1>2. SentInv'
  BY <1>1 DEF RestInv, SentInv
<1>3. SoundInv'
  BY <1>1 DEF RestInv, SoundInv, Active
<1>4. /\ Active(c)' <=> t # Removed /\ t.status \in ActiveStatus
      /\ \A d \in Conv : d # c => (Active(d)' <=> Active(d))
  BY <1>1 DEF Active
<1>5. ASSUME NEW x \in Conv, NEW y \in Conv, x # y, Active(x)', Active(y)'
      PROVE  Participants(journal'[x]) \cap Participants(journal'[y]) = {}
  <2>1. CASE x = c
    BY <1>4, <1>5, <2>1
  <2>2. CASE y = c
    <3>1. Participants(journal'[y]) \cap Participants(journal'[x]) = {}
      BY <1>4, <1>5, <2>2
    <3> QED BY <3>1
  <2>3. CASE x # c /\ y # c
    BY <1>4, <1>5, <2>3 DEF RestInv, OneConversationEach
  <2> QED BY <2>1, <2>2, <2>3
<1>6. OneConversationEach'
  BY <1>5 DEF OneConversationEach
<1> QED BY <1>2, <1>3, <1>6 DEF RestInv

\* A request is recorded.
LEMMA RestAsked ==
  ASSUME TypeInv, RestInv, journal' = journal, NEW k \in Key, Recorded(k)
  PROVE  RestInv'
<1>1. OneConversationEach'
  BY DEF RestInv, OneConversationEach, Active, Live
<1>2. SentInv'
  BY DEF RestInv, SentInv, Recorded, Live
<1>3. ASSUME NEW c \in Conv, Active(c)
      PROVE  Sound(journal[c], sent')
  <2>1. PICK s : s = journal[c]
    OBVIOUS
  <2>2. PICK asked : asked = sent
    OBVIOUS
  <2>3. PICK more : more = sent'
    OBVIOUS
  <2>4. Sound(s, asked)
    BY <1>3, <2>1, <2>2 DEF RestInv, SoundInv
  <2>5. \A x \in Key : x # k \/ asked[x] # None => more[x] = asked[x]
    BY <2>2, <2>3 DEF Recorded
  <2>6. CASE asked[k] = None
    <3>1. s.idem[k] = 0
      BY <1>3, <2>1, <2>2, <2>6 DEF RestInv, SentInv, Active
    <3>2. \A x \in Key : x # k => more[x] = asked[x]
      BY <2>5
    <3>3. Sound(s, more)
      BY <2>4, <3>1, <3>2, AskedMore
    <3> QED BY <2>1, <2>3, <3>3
  <2>7. CASE asked[k] # None
    <3>1. \A x \in Key : more[x] = asked[x]
      BY <2>5, <2>7
    <3>2. more = [x \in Key |-> more[x]] /\ asked = [x \in Key |-> asked[x]]
      BY <2>2, <2>3 DEF Recorded, TypeInv, SentType
    <3>3. more = asked
      BY <3>1, <3>2
    <3> QED BY <2>1, <2>3, <2>4, <3>3
  <2> QED BY <2>6, <2>7
<1>4. SoundInv'
  BY <1>3 DEF SoundInv, Active, Live
<1> QED BY <1>1, <1>2, <1>4 DEF RestInv

LEMMA SoloRequests ==
  ASSUME NEW p \in Proc, TypeInv, RestInv, JobInv(p),
         \/ \E k \in Key, S \in SUBSET Actor : Open(p, k, S)
         \/ \E c \in Conv : Live(c) /\ \E k \in Key, q \in Requests(c) : Send(p, k, q)
         \/ \E k \in Key : Retry(p, k)
         \/ \E c \in Conv : Look(p, c)
  PROVE  RestInv' /\ JobInv(p)'
<1>0. JobsType
  BY DEF TypeInv
<1>p. ASSUME NEW j, Turn(p, j), NEW q, Prepared(j, q), journal' = journal,
             \A k \in Key : sent[k] # None => sent'[k] = sent[k]
      PROVE  JobInv(p)'
  <2>1. job'[p] = j
    BY <1>0, <1>p, TurnTaken
  <2>2. /\ Live(j.conv)' /\ j.op # "open"
        /\ \/ j.pc = "begin" /\ j.op \in {"cancel", "abort"}
           \/ /\ j.pc = "fresh" /\ j.op \notin {"cancel", "abort"}
              /\ Alike(journal'[j.conv], j.copy)
              /\ j.op = "close" => journal'[j.conv].idem[j.key] = 0
    BY <1>p DEF Prepared, Live
  <2> QED BY <2>1, <2>2 DEF JobInv, Writing
<1>1. ASSUME NEW k \in Key, NEW S \in SUBSET Actor, Open(p, k, S)
      PROVE  RestInv' /\ JobInv(p)'
  <2>1. /\ UNCHANGED Elsewhere /\ Recorded(k)
        /\ \E j : Turn(p, j) /\ j.pc = "scan" /\ j.op = "open" /\ Blank(j.copy)
    BY <1>1, OpenIs
  <2>2. PICK j : Turn(p, j) /\ j.pc = "scan" /\ j.op = "open" /\ Blank(j.copy)
    BY <2>1
  <2>3. journal' = journal /\ \A x \in Key : sent[x] # None => sent'[x] = sent[x]
    BY <2>1 DEF Elsewhere, Store, Recorded
  <2>4. job'[p] = j
    BY <1>0, <2>2, <2>3, TurnTaken
  <2>5. JobInv(p)'
    BY <2>2, <2>4 DEF JobInv, Writing, Blank, Locked, Participants
  <2> QED BY <2>1, <2>3, <2>5, RestAsked
<1>2. ASSUME NEW c \in Conv, Live(c), NEW k \in Key, NEW q \in Requests(c), Send(p, k, q)
      PROVE  RestInv' /\ JobInv(p)'
  <2>1. UNCHANGED Elsewhere /\ Recorded(k) /\ \E j : Turn(p, j) /\ Prepared(j, q)
    BY <1>2, SendIs
  <2>2. PICK j : Turn(p, j) /\ Prepared(j, q)
    BY <2>1
  <2>3. journal' = journal /\ \A x \in Key : sent[x] # None => sent'[x] = sent[x]
    BY <2>1 DEF Elsewhere, Store, Recorded
  <2> QED BY <1>p, <2>1, <2>2, <2>3, RestAsked
<1>3. ASSUME NEW k \in Key, Retry(p, k) PROVE RestInv' /\ JobInv(p)'
  <2>1. /\ UNCHANGED <<Elsewhere, sent>>
        /\ \E j : Turn(p, j) /\ Prepared(j, sent[k]) /\ j.key = k
    BY <1>3, RetryIs
  <2>2. PICK j : Turn(p, j) /\ Prepared(j, sent[k])
    BY <2>1
  <2>3. journal' = journal /\ sent' = sent
    BY <2>1 DEF Elsewhere, Store
  <2>4. PICK q : q = sent[k]
    OBVIOUS
  <2> QED BY <1>p, <2>2, <2>3, <2>4, RestKept
<1>4. ASSUME NEW c \in Conv, Look(p, c) PROVE RestInv' /\ JobInv(p)'
  <2>1. /\ UNCHANGED <<Elsewhere, sent>>
        /\ \E j : /\ Turn(p, j) /\ j.pc = "fresh" /\ j.op = "get" /\ Live(j.conv)
                  /\ Alike(journal[j.conv], j.copy)
    BY <1>4, LookIs
  <2>2. PICK j : /\ Turn(p, j) /\ j.pc = "fresh" /\ j.op = "get" /\ Live(j.conv)
                 /\ Alike(journal[j.conv], j.copy)
    BY <2>1
  <2>3. journal' = journal /\ sent' = sent
    BY <2>1 DEF Elsewhere, Store
  <2>4. job'[p] = j
    BY <1>0, <2>2, <2>3, TurnTaken
  <2>5. Live(j.conv)' /\ Alike(journal'[j.conv], j.copy)
    BY <2>2, <2>3 DEF Live
  <2>6. JobInv(p)'
    BY <2>2, <2>4, <2>5 DEF JobInv, Writing
  <2> QED BY <2>3, <2>6, RestKept
<1> QED BY <1>1, <1>2, <1>3, <1>4


LEMMA AlikeActive ==
  ASSUME NEW s, NEW t, Alike(s, t)
  PROVE  /\ t.status = s.status /\ t.idem = s.idem /\ t.acts = s.acts /\ t.events = s.events
         /\ t.locks = s.locks /\ Participants(t) = Participants(s)
BY DEF Alike, Frame, Participants

LEMMA SoloOpens ==
  ASSUME NEW p \in Proc, TypeInv, RestInv, JobInv(p),
         OpenScan(p) \/ \E c \in Conv : OpenWrite(p, c)
  PROVE  RestInv' /\ JobInv(p)'
<1>0. JobsType
  BY DEF TypeInv
<1>1. CASE OpenScan(p)
  <2>1. /\ UNCHANGED <<Elsewhere, sent>> /\ job[p].pc = "scan"
        /\ \E j : /\ Turn(p, j)
                  /\ \/ j.pc = "idle"
                     \/ /\ SameJob(job[p], j) /\ j.pc = "create" /\ j.copy = job[p].copy
                        /\ ~Taken(Participants(j.copy))
    BY <1>1, OpenScanIs
  <2>2. journal' = journal /\ sent' = sent
    BY <2>1 DEF Elsewhere, Store
  <2>3. PICK j : /\ Turn(p, j)
                 /\ \/ j.pc = "idle"
                    \/ /\ SameJob(job[p], j) /\ j.pc = "create" /\ j.copy = job[p].copy
                       /\ ~Taken(Participants(j.copy))
    BY <2>1
  <2>4. job'[p] = j
    BY <1>0, <2>2, <2>3, TurnTaken
  <2>5. CASE j.pc = "idle"
    BY <2>2, <2>4, <2>5, RestKept, IdleInv
  <2>6. CASE /\ SameJob(job[p], j) /\ j.pc = "create" /\ j.copy = job[p].copy
             /\ ~Taken(Participants(j.copy))
    <3>1. j.op = "open" /\ Blank(j.copy)
      BY <2>1, <2>6 DEF JobInv, SameJob
    <3>2. ~Taken(Participants(j.copy))'
      BY <2>2, <2>4, <2>6 DEF Taken, Live, Participants
    <3>3. JobInv(p)'
      BY <2>4, <2>6, <3>1, <3>2 DEF JobInv, Writing, Blank, Locked, Participants
    <3> QED BY <2>2, <3>3, RestKept
  <2> QED BY <2>3, <2>5, <2>6
<1>2. ASSUME NEW c \in Conv, OpenWrite(p, c) PROVE RestInv' /\ JobInv(p)'
  <2>0. PICK i : i = job[p]
    OBVIOUS
  <2>1. /\ UNCHANGED <<World, Client, ledger>> /\ i.pc = "create" /\ Turn(p, Idle)
        /\ journal[c] = None /\ IsSession(i.copy) /\ journal' = [journal EXCEPT ![c] = i.copy]
    BY <1>2, <2>0, OpenWriteIs
  <2>2. PICK t : t = i.copy
    OBVIOUS
  <2>3. /\ IsSession(t) /\ journal'[c] = t /\ \A d \in Conv : d # c => journal'[d] = journal[d]
    BY <2>1, <2>2, JournalSet DEF TypeInv
  <2>4. Blank(t) /\ ~Taken(Participants(t))
    BY <2>0, <2>1, <2>2 DEF JobInv
  <2>5. Sound(t, sent) /\ \A k \in Key : t.idem[k] = 0
    BY <2>3, <2>4, BlankSound DEF Blank
  <2>6. \A d \in Conv : Active(d) => Participants(t) \cap Participants(journal[d]) = {}
    BY <2>4 DEF Taken, Active
  <2>7. sent' = sent
    BY <2>1 DEF Client
  <2>8. RestInv'
    BY <2>3, <2>5, <2>6, <2>7, RestSet
  <2>9. job'[p] = Idle
    BY <1>0, <2>1, <2>7, TurnTaken
  <2> QED BY <2>8, <2>9, IdleInv, IdleOK
<1> QED BY <1>1, <1>2

\* The journal c is refreshed from a copy of it.
LEMMA RestFreshened ==
  ASSUME TypeInv, RestInv, sent' = sent, NEW c \in Conv, Live(c), NEW s, IsSession(s),
         Alike(journal[c], s), s.status = "open", NEW t, Freshened(s, t),
         journal' = [journal EXCEPT ![c] = t]
  PROVE  RestInv' /\ journal'[c] = t /\ Live(c)' /\ t.idem = journal[c].idem
<1>1. /\ journal'[c] = t /\ (\A d \in Conv : d # c => journal'[d] = journal[d])
      /\ IsSession(t)
  BY JournalSet DEF TypeInv, Freshened
<1>2. Active(c) /\ Sound(journal[c], sent)
  BY AlikeActive DEF RestInv, SoundInv, Active, ActiveStatus
<1>3. Sound(s, sent)
  BY <1>2, AlikeSound
<1>4. Sound(t, sent)
  BY <1>3, RefreshSound DEF Freshened
<1>5. t.idem = journal[c].idem /\ Participants(t) = Participants(journal[c])
  BY AlikeActive DEF Freshened, Relocked, Participants
<1>6. \A d \in Conv : d # c /\ Active(d) => Participants(t) \cap Participants(journal[d]) = {}
  BY <1>2, <1>5 DEF RestInv, OneConversationEach
<1>7. \A k \in Key : sent[k] = None => t.idem[k] = 0
  BY <1>5 DEF RestInv, SentInv
<1>8. RestInv'
  BY <1>1, <1>4, <1>6, <1>7, RestSet
<1>9. Live(c)'
  BY <1>1, SessionLives DEF Live
<1> QED BY <1>1, <1>5, <1>8, <1>9

LEMMA SoloFresh ==
  ASSUME NEW p \in Proc, TypeInv, RestInv, JobInv(p), Fresh(p)
  PROVE  RestInv' /\ JobInv(p)'
<1>0. PICK i : i = job[p]
  OBVIOUS
<1>1. /\ UNCHANGED <<World, Client, ledger>> /\ i.pc = "fresh"
      /\ FreshRefused(p, i) \/ FreshStale(p, i) \/ FreshOn(p, i)
  BY <1>0, FreshIs
<1>2. sent' = sent /\ version' = version
  BY <1>1 DEF Client, World
<1>3. JobOK(i, sent) /\ JobsType
  BY <1>0 DEF TypeInv, JobsType
<1>4. PICK c : c = i.conv
  OBVIOUS
<1>5. c \in Conv /\ IsSession(i.copy)
  BY <1>1, <1>3, <1>4 DEF JobOK
<1>6. /\ Live(c) /\ i.op # "open" /\ Alike(journal[c], i.copy)
      /\ i.op \notin {"cancel", "abort"} /\ (i.op = "close" => journal[c].idem[i.key] = 0)
  BY <1>0, <1>1, <1>4 DEF JobInv
<1>i. ASSUME Turn(p, Idle) PROVE JobInv(p)'
  <2>1. job'[p] = Idle
    BY <1>2, <1>3, <1>i, TurnTaken
  <2> QED BY <2>1, IdleInv, IdleOK
<1>7. CASE FreshRefused(p, i)
  BY <1>2, <1>7, <1>i, RestKept DEF FreshRefused
<1>8. CASE FreshStale(p, i)
  <2>1. PICK t : Freshened(i.copy, t) /\ journal' = [journal EXCEPT ![c] = t]
    BY <1>4, <1>8 DEF FreshStale
  <2>2. RestInv'
    BY <1>2, <1>5, <1>6, <1>8, <2>1, RestFreshened DEF FreshStale
  <2> QED BY <1>8, <1>i, <2>2 DEF FreshStale
<1>9. CASE FreshOn(p, i)
  <2>1. PICK t : FreshCopy(i, t) /\ FreshNext(p, i, t)
    BY <1>9 DEF FreshOn
  <2>2. /\ RestInv' /\ Live(c)' /\ Alike(journal'[c], t) /\ journal'[c].idem = journal[c].idem
        /\ journal'[c].status = "open"
    <3>1. CASE t = i.copy /\ journal' = journal
      <4>1. Live(c)'
        BY <1>6, <3>1 DEF Live
      <4>2. journal[c].status = "open"
        BY <1>6, <2>1, <3>1, AlikeActive DEF FreshCopy
      <4> QED BY <1>2, <1>6, <3>1, <4>1, <4>2, RestKept
    <3>2. CASE Freshened(i.copy, t) /\ journal' = [journal EXCEPT ![c] = t]
      <4>1. i.copy.status = "open"
        BY <1>9 DEF FreshOn
      <4>2. RestInv' /\ journal'[c] = t /\ Live(c)' /\ t.idem = journal[c].idem
        BY <1>2, <1>5, <1>6, <3>2, <4>1, RestFreshened
      <4>3. Alike(t, t) /\ t.status = "open"
        BY <2>1 DEF Alike, Frame, FreshCopy
      <4> QED BY <4>2, <4>3
    <3> QED BY <1>4, <2>1, <3>1, <3>2 DEF FreshCopy
  <2>3. CASE Turn(p, Idle)
    BY <1>i, <2>2, <2>3
  <2>4. CASE i.op = "close" /\ Moves(p, i, "commit", t)
    <3>1. PICK j : Turn(p, j) /\ SameJob(i, j) /\ j.pc = "commit" /\ j.copy = t
      BY <2>4 DEF Moves
    <3>2. job'[p] = j
      BY <1>2, <1>3, <3>1, TurnTaken
    <3>3. j.op = "close" /\ j.conv = c /\ journal'[c].idem[j.key] = 0
      BY <1>4, <1>6, <2>2, <2>4, <3>1 DEF SameJob
    <3>4. \A a \in Participants(journal'[c]) : journal'[c].locks[a] = version'[a]
      BY <1>2, <2>1, <2>2, AlikeActive DEF FreshCopy, Current
    <3>5. JobInv(p)'
      <4>1. \A a \in Participants(journal[c])' : journal'[c].locks[a] = version'[a]
        BY <3>4 DEF Participants
      <4> QED BY <2>2, <3>1, <3>2, <3>3, <4>1 DEF JobInv, Writing
    <3> QED BY <2>2, <3>5
  <2>5. CASE i.op \notin {"get", "close"} /\ Moves(p, i, "begin", None)
    <3>1. PICK j : Turn(p, j) /\ SameJob(i, j) /\ j.pc = "begin"
      BY <2>5 DEF Moves
    <3>2. job'[p] = j
      BY <1>2, <1>3, <3>1, TurnTaken
    <3>3. j.op \notin {"open", "close"} /\ j.conv = c
      BY <1>4, <1>6, <2>5, <3>1 DEF SameJob
    <3>4. JobInv(p)'
      BY <2>2, <3>1, <3>2, <3>3 DEF JobInv, Writing
    <3> QED BY <2>2, <3>4
  <2> QED BY <2>1, <2>3, <2>4, <2>5 DEF FreshNext
<1> QED BY <1>1, <1>7, <1>8, <1>9


LEMMA SoloMutation ==
  ASSUME NEW p \in Proc, TypeInv, RestInv, JobInv(p), MutationEffect(p, job[p])
  PROVE  RestInv' /\ JobInv(p)'
<1>0. PICK i : i = job[p]
  OBVIOUS
<1>1. /\ UNCHANGED <<Store, World, Client, ledger>> /\ i.pc = "begin"
      /\ Turn(p, Idle) \/ MutationOn(p, i)
  BY <1>0 DEF MutationEffect
<1>2. journal' = journal /\ sent' = sent /\ RestInv'
  BY <1>1, RestKept DEF Store, Client
<1>3. JobOK(i, sent) /\ JobsType
  BY <1>0 DEF TypeInv, JobsType
<1>4. CASE Turn(p, Idle)
  <2>1. job'[p] = Idle
    BY <1>2, <1>3, <1>4, TurnTaken
  <2> QED BY <1>2, <2>1, IdleInv, IdleOK
<1>5. CASE MutationOn(p, i)
  <2>1. PICK s : s = journal[i.conv]
    OBVIOUS
  <2>2. PICK q : q = sent[i.key]
    OBVIOUS
  <2>3. PICK t : Drafted(s, t, q, i.key) /\ Moves(p, i, "finish", t)
    BY <1>5, <2>1, <2>2 DEF MutationOn
  <2>4. PICK j : Turn(p, j) /\ SameJob(i, j) /\ j.pc = "finish" /\ j.copy = t
    BY <2>3 DEF Moves
  <2>5. job'[p] = j
    BY <1>2, <1>3, <2>4, TurnTaken
  <2>6. /\ Live(i.conv) /\ i.op # "open" /\ i.op # "close" /\ s.idem[i.key] = 0
        /\ i.op \notin {"cancel", "abort"} => s.status = "open"
    BY <1>0, <1>1, <1>5, <2>1 DEF JobInv, MutationOn
  <2>7. q.op = i.op /\ (q.op \in {"submit", "cancel"} => q.lease # 0)
    BY <1>1, <1>2, <1>3, <2>2 DEF JobOK, RestInv, SentInv
  <2>8. Draft(s, t, q, i.key)
    BY <2>3, <2>6, <2>7 DEF Drafted
  <2>9. Live(i.conv)'
    BY <1>2, <2>6 DEF Live
  <2>10. JobInv(p)'
    BY <1>2, <2>1, <2>2, <2>4, <2>5, <2>6, <2>8, <2>9 DEF JobInv, SameJob, Writing
  <2> QED BY <1>2, <2>10
<1> QED BY <1>1, <1>4, <1>5

LEMMA SoloCommit ==
  ASSUME NEW p \in Proc, TypeInv, RestInv, JobInv(p), Commit(p)
  PROVE  RestInv' /\ JobInv(p)'
<1>0. PICK i : i = job[p]
  OBVIOUS
<1>1. CommitEffect(p, i)
  BY <1>0, CommitIs
<1>2. journal' = journal /\ sent' = sent /\ RestInv' /\ i.pc = "commit"
  BY <1>1, RestKept DEF Store, CommitEffect
<1>3. JobOK(i, sent) /\ JobsType
  BY <1>0 DEF TypeInv, JobsType
<1>4. CASE Turn(p, Idle)
  <2>1. job'[p] = Idle
    BY <1>2, <1>3, <1>4, TurnTaken
  <2> QED BY <1>2, <2>1, IdleInv, IdleOK
<1>5. CASE CommitOn(p, i)
  <2>1. PICK s : s = journal[i.conv]
    OBVIOUS
  <2>2. PICK q : q = sent[i.key]
    OBVIOUS
  <2>3. PICK t : Frame(i.copy, t) /\ t.status = "closed" /\ Moves(p, i, "finish", t)
    BY <1>5 DEF CommitOn
  <2>4. PICK j : Turn(p, j) /\ SameJob(i, j) /\ j.pc = "finish" /\ j.copy = t
    BY <2>3 DEF Moves
  <2>5. job'[p] = j
    BY <1>2, <1>3, <2>4, TurnTaken
  <2>6. /\ Live(i.conv) /\ i.op # "open" /\ s.idem[i.key] = 0
        /\ Alike(s, i.copy) /\ s.status = "open"
    BY <1>0, <1>2, <2>1 DEF JobInv, Writing
  <2>7. q.op = "close" /\ i.op = "close"
    BY <1>2, <1>3, <2>2 DEF JobOK
  <2>8. Draft(s, t, q, i.key)
    <3>1. Frame(s, t)
      BY <2>3, <2>6 DEF Alike, Frame
    <3>2. Complete(s)
      BY <1>5, <2>6, AlikeActive DEF CommitOn, Complete
    <3> QED BY <2>3, <2>6, <2>7, <3>1, <3>2 DEF Draft
  <2>9. /\ ledger'[i.key] # None /\ ledger'[i.key].conv = i.conv
        /\ ledger'[i.key].events = s.events
    BY <1>5, <2>6, AlikeActive DEF CommitOn
  <2>10. Live(i.conv)'
    BY <1>2, <2>6 DEF Live
  <2>11. JobInv(p)'
    BY <1>2, <2>1, <2>2, <2>4, <2>5, <2>6, <2>7, <2>8, <2>9, <2>10 DEF JobInv, SameJob, Writing
  <2> QED BY <1>2, <2>11
<1> QED BY <1>1, <1>4, <1>5 DEF CommitEffect

LEMMA SoloFinish ==
  ASSUME NEW p \in Proc, TypeInv, RestInv, JobInv(p), Finish(p)
  PROVE  RestInv' /\ JobInv(p)'
<1>0. PICK i : i = job[p]
  OBVIOUS
<1>1. FinishEffect(p, i)
  BY <1>0, FinishIs
<1>2. journal' = journal /\ sent' = sent /\ ledger' = ledger /\ RestInv' /\ i.pc = "finish"
  BY <1>1, RestKept DEF Store, Client, FinishEffect
<1>3. JobOK(i, sent) /\ JobsType
  BY <1>0 DEF TypeInv, JobsType
<1>4. CASE Turn(p, Idle)
  <2>1. job'[p] = Idle
    BY <1>2, <1>3, <1>4, TurnTaken
  <2> QED BY <1>2, <2>1, IdleInv, IdleOK
<1>5. CASE Moves(p, i, "write", i.copy)
  <2>1. PICK j : Turn(p, j) /\ SameJob(i, j) /\ j.pc = "write" /\ j.copy = i.copy
    BY <1>5 DEF Moves
  <2>2. job'[p] = j
    BY <1>2, <1>3, <2>1, TurnTaken
  <2>3. /\ Live(i.conv) /\ i.op # "open" /\ journal[i.conv].idem[i.key] = 0
        /\ Draft(journal[i.conv], i.copy, sent[i.key], i.key)
        /\ i.op = "close" =>
             /\ ledger[i.key] # None /\ ledger[i.key].conv = i.conv
             /\ ledger[i.key].events = journal[i.conv].events
    BY <1>0, <1>2 DEF JobInv, Writing
  <2>4. Live(i.conv)'
    BY <1>2, <2>3 DEF Live
  <2>5. JobInv(p)'
    BY <1>2, <2>1, <2>2, <2>3, <2>4 DEF JobInv, SameJob, Writing
  <2> QED BY <1>2, <2>5
<1> QED BY <1>1, <1>4, <1>5 DEF FinishEffect

\* What the last access of a mutation knows.
LEMMA WritesDraft ==
  ASSUME NEW p \in Proc, TypeInv, RestInv, JobInv(p), NEW i, i = job[p], i.pc = "write",
         NEW s, s = journal[i.conv], NEW w, w = Finished(i.copy, i.key)
  PROVE  /\ i.conv \in Conv /\ i.key \in Key /\ Live(i.conv) /\ IsSession(s) /\ IsSession(i.copy)
         /\ IsSession(w) /\ sent[i.key] # None /\ sent[i.key].op = i.op
         /\ s.idem[i.key] = 0 /\ Draft(s, i.copy, sent[i.key], i.key)
         /\ w.status = i.copy.status /\ Participants(w) = Participants(s)
         /\ w.idem[i.key] = s.rev + 1 /\ s.rev \in Nat
         /\ \A x \in Key : x # i.key => w.idem[x] \in {0, s.idem[x]}
         /\ w.status \in ActiveStatus =>
              /\ s.status \in ActiveStatus
              /\ w.acts = i.copy.acts /\ w.events = i.copy.events /\ w.runtime = s.runtime
              /\ w.locks = s.locks /\ w.rev = s.rev + 1
              /\ \A x \in Key : w.idem[x] = IF x = i.key THEN s.rev + 1 ELSE s.idem[x]
         /\ w.status \notin ActiveStatus => w.events = 0
<1>1. JobOK(i, sent)
  BY DEF TypeInv, JobsType
<1>2. /\ i.key \in Key \cup {0} /\ i.conv \in Conv /\ IsSession(i.copy) /\ i.op # "get"
  BY <1>1 DEF JobOK, Writing
<1>3. i.key \in Key /\ sent[i.key] # None /\ sent[i.key].op = i.op
  BY <1>1, <1>2 DEF JobOK
<1>4. Live(i.conv) /\ s.idem[i.key] = 0 /\ Draft(s, i.copy, sent[i.key], i.key)
  BY DEF JobInv, Writing
<1>5. IsSession(s)
  BY <1>2, <1>4 DEF TypeInv, JournalType
<1>6. PICK t : t = i.copy
  OBVIOUS
<1>7. /\ t.rev = s.rev /\ t.locks = s.locks /\ t.runtime = s.runtime /\ t.idem = s.idem
  BY <1>4, <1>6 DEF Draft, Frame
<1>8. /\ IsSession(w) /\ w.status = t.status /\ w.locks = t.locks
      /\ w.rev = t.rev + 1
      /\ \A x \in Key : w.idem[x] = IF x = i.key THEN t.rev + 1
                                    ELSE IF t.status \in ActiveStatus THEN t.idem[x] ELSE 0
      /\ IF t.status \in ActiveStatus
         THEN w.acts = t.acts /\ w.events = t.events /\ w.runtime = t.runtime
         ELSE w.events = 0
  BY <1>2, <1>6, FinishedSession
<1>9. t.status \in ActiveStatus => s.status \in ActiveStatus
  BY <1>4, <1>6 DEF Draft, Ingested, Published, Claimed, Submitted, Returned, Worked, ActiveStatus
<1>10. Participants(w) = Participants(s) /\ s.rev \in Nat
  BY <1>5, <1>7, <1>8, SessionFields DEF Participants
<1>11. /\ w.idem[i.key] = s.rev + 1
       /\ \A x \in Key : x # i.key => w.idem[x] \in {0, s.idem[x]}
  BY <1>3, <1>7, <1>8
<1>12. w.status \in ActiveStatus =>
         /\ w.acts = t.acts /\ w.events = t.events /\ w.runtime = s.runtime
         /\ w.locks = s.locks /\ w.rev = s.rev + 1
         /\ \A x \in Key : w.idem[x] = IF x = i.key THEN s.rev + 1 ELSE s.idem[x]
  BY <1>7, <1>8
<1>13. w.status \notin ActiveStatus => w.events = 0
  BY <1>8
<1> QED BY <1>2, <1>3, <1>4, <1>5, <1>6, <1>8, <1>9, <1>10, <1>11, <1>12, <1>13

LEMMA SoloWrite ==
  ASSUME NEW p \in Proc, TypeInv, RestInv, JobInv(p), Write(p)
  PROVE  RestInv' /\ JobInv(p)'
<1>0. PICK i : i = job[p]
  OBVIOUS
<1>1. PICK s : s = journal[i.conv]
  OBVIOUS
<1>2. PICK w : w = Finished(i.copy, i.key)
  OBVIOUS
<1>3. PICK c : c = i.conv
  OBVIOUS
<1>4. PICK asked : asked = sent
  OBVIOUS
<1>5. /\ UNCHANGED <<World, Client, ledger>> /\ i.pc = "write" /\ Turn(p, Idle)
      /\ journal' = [journal EXCEPT ![c] = w] /\ sent' = sent
  BY <1>0, <1>2, <1>3, WriteIs DEF WriteEffect, Client
<1>6. /\ c \in Conv /\ i.key \in Key /\ Live(c) /\ IsSession(s) /\ IsSession(i.copy)
      /\ IsSession(w) /\ asked[i.key] # None
      /\ s.idem[i.key] = 0 /\ Draft(s, i.copy, asked[i.key], i.key)
      /\ w.status = i.copy.status /\ Participants(w) = Participants(s)
      /\ \A x \in Key : x # i.key => w.idem[x] \in {0, s.idem[x]}
      /\ w.status \in ActiveStatus =>
           /\ s.status \in ActiveStatus
           /\ w.acts = i.copy.acts /\ w.events = i.copy.events /\ w.runtime = s.runtime
           /\ w.locks = s.locks /\ w.rev = s.rev + 1
           /\ \A x \in Key : w.idem[x] = IF x = i.key THEN s.rev + 1 ELSE s.idem[x]
  BY <1>0, <1>1, <1>2, <1>3, <1>4, <1>5, WritesDraft
<1>7. journal'[c] = w /\ \A d \in Conv : d # c => journal'[d] = journal[d]
  BY <1>5, <1>6, JournalSet DEF TypeInv
<1>8. \A k \in Key : asked[k] = None => w.idem[k] = 0
  <2>1. \A k \in Key : asked[k] = None => s.idem[k] = 0
    BY <1>1, <1>3, <1>4, <1>6 DEF RestInv, SentInv
  <2> QED BY <1>6, <2>1
<1>9. ASSUME w.status \in ActiveStatus
      PROVE  /\ Sound(w, asked)
             /\ \A d \in Conv : d # c /\ Active(d) =>
                  Participants(w) \cap Participants(journal[d]) = {}
  <2>1. Active(c) /\ journal[c] = s
    BY <1>1, <1>3, <1>6, <1>9 DEF Active
  <2>2. Sound(s, asked)
    BY <1>4, <1>6, <2>1 DEF RestInv, SoundInv
  <2>3. PICK t : t = i.copy
    OBVIOUS
  <2>4. w.locks = t.locks /\ w.runtime = t.runtime /\ t.status \in ActiveStatus
    BY <1>6, <1>9, <2>3 DEF Draft, Frame
  <2>5. Sound(w, asked)
    BY <1>6, <1>9, <2>2, <2>3, <2>4, DraftSound
  <2>6. \A d \in Conv : d # c /\ Active(d) => Participants(s) \cap Participants(journal[d]) = {}
    BY <1>6, <2>1 DEF RestInv, OneConversationEach
  <2> QED BY <1>6, <2>5, <2>6
<1>10. RestInv'
  BY <1>4, <1>5, <1>6, <1>7, <1>8, <1>9, RestSet
<1>11. job'[p] = Idle
  BY <1>5, TurnTaken DEF TypeInv
<1> QED BY <1>10, <1>11, IdleInv, IdleOK


LEMMA SoloAround ==
  ASSUME NEW p \in Proc, Proc = {p}, TypeInv, RestInv, JobInv(p),
         \/ \E a \in Actor : ActorChange(a)
         \/ SceneChange
         \/ \E k \in Key : Lapse(k)
         \/ \E c \in Conv : Cleanup(c)
         \/ Crash(p)
         \/ UNCHANGED vars
  PROVE  RestInv' /\ JobInv(p)'
<1>1. ASSUME NEW a \in Actor, ActorChange(a) PROVE RestInv' /\ JobInv(p)'
  <2>1. journal' = journal /\ sent' = sent /\ job' = job
    BY <1>1, ActorChangeIs
  <2>2. job[p] = Idle
    BY <1>1 DEF ActorChange
  <2> QED BY <2>1, <2>2, RestKept, IdleInv, IdleOK
<1>2. CASE SceneChange
  BY <1>2, SceneChangeIs, RestKept, JobInvKept
<1>3. ASSUME NEW k \in Key, Lapse(k) PROVE RestInv' /\ JobInv(p)'
  BY <1>3, LapseIs, RestKept, JobInvKept
<1>4. ASSUME NEW c \in Conv, Cleanup(c) PROVE RestInv' /\ JobInv(p)'
  <2>1. /\ sent' = sent /\ job' = job /\ journal'[c] = Removed
        /\ \A d \in Conv : d # c => journal'[d] = journal[d]
    BY <1>4, CleanupIs
  <2>2. job[p] = Idle
    BY <1>4 DEF Cleanup
  <2>3. PICK t : t = Removed
    OBVIOUS
  <2>4. RestInv'
    BY <2>1, <2>3, RestSet
  <2> QED BY <2>1, <2>2, <2>4, IdleInv, IdleOK
<1>5. CASE Crash(p)
  <2>1. journal' = journal /\ sent' = sent /\ Turn(p, Idle)
    BY <1>5, CrashIs DEF Store, Client
  <2>2. job'[p] = Idle
    BY <2>1, TurnTaken DEF TypeInv
  <2> QED BY <2>1, <2>2, RestKept, IdleInv, IdleOK
<1>6. CASE UNCHANGED vars
  BY <1>6, RestKept, JobInvKept DEF vars
<1> QED BY <1>1, <1>2, <1>3, <1>4, <1>5, <1>6

LEMMA SoloStep ==
  ASSUME NEW p \in Proc, Proc = {p}, SoloInv(p), [Next]_vars
  PROVE  SoloInv(p)'
<1>1. TypeInv /\ RestInv /\ JobInv(p) /\ TypeInv'
  BY TypeStep DEF SoloInv
<1>2. CASE \/ \E k \in Key, S \in SUBSET Actor : Open(p, k, S)
           \/ \E c \in Conv : Live(c) /\ \E k \in Key, q \in Requests(c) : Send(p, k, q)
           \/ \E k \in Key : Retry(p, k)
           \/ \E c \in Conv : Look(p, c)
  BY <1>1, <1>2, SoloRequests DEF SoloInv
<1>3. CASE Serve(p)
  <2>1. CASE Ingest(p) \/ Claim(p) \/ Submit(p) \/ Cancel(p) \/ Publish(p) \/ Abort(p)
    <3>1. MutationEffect(p, job[p])
      BY <1>1, <2>1, IngestDrafts, ClaimDrafts, SubmitDrafts, CancelDrafts, PublishDrafts,
         AbortDrafts
    <3> QED BY <1>1, <3>1, SoloMutation DEF SoloInv
  <2>2. CASE \/ OpenScan(p) \/ \E c \in Conv : OpenWrite(p, c)
    BY <1>1, <2>2, SoloOpens DEF SoloInv
  <2>3. CASE Fresh(p) \/ Commit(p) \/ Finish(p) \/ Write(p)
    BY <1>1, <2>3, SoloFresh, SoloCommit, SoloFinish, SoloWrite DEF SoloInv
  <2> QED BY <1>3, <2>1, <2>2, <2>3 DEF Serve
<1>4. CASE \/ \E a \in Actor : ActorChange(a)
           \/ SceneChange
           \/ \E k \in Key : Lapse(k)
           \/ \E c \in Conv : Cleanup(c)
           \/ Crash(p)
           \/ UNCHANGED vars
  BY <1>1, <1>4, SoloAround DEF SoloInv
<1> QED BY <1>2, <1>3, <1>4 DEF Next

LEMMA SoloInit ==
  ASSUME NEW p \in Proc, Init PROVE SoloInv(p)
<1>1. TypeInv
  BY TypeInit
<1>2. \A c \in Conv : ~Live(c) /\ ~Active(c)
  BY DEF Init, Live, Active
<1>3. RestInv
  BY <1>2 DEF Init, RestInv, SentInv, SoundInv, OneConversationEach
<1>4. JobInv(p)
  <2>1. job[p].pc = "idle"
    BY IdleOK DEF Init
  <2> QED BY <2>1 DEF JobInv, Writing
<1> QED BY <1>1, <1>3, <1>4 DEF SoloInv

LEMMA SoloHolds ==
  ASSUME NEW p \in Proc, Proc = {p}
  PROVE  Spec => []SoloInv(p)
<1>1. Init => SoloInv(p)
  BY SoloInit
<1>2. SoloInv(p) /\ [Next]_vars => SoloInv(p)'
  BY SoloStep
<1> QED BY <1>1, <1>2, PTL DEF Spec

-----------------------------------------------------------------------------
(* What one process guarantees. *)

\* An actor takes part in at most one active conversation (OneConversationEach):
\* the scan of open and the write of the new journal are not separated by
\* another open.
THEOREM OneProcessOneConversation ==
  ASSUME NEW p \in Proc, Proc = {p}
  PROVE  Spec => []OneConversationEach
<1>1. SoloInv(p) => OneConversationEach
  BY DEF SoloInv, RestInv
<1> QED BY <1>1, SoloHolds, PTL

\* The receipts of an active conversation are its effects, one for one
\* (EffectsReceipted): no request is done twice and no receipt is without effect,
\* however often requests are sent again and the process dies.
THEOREM EffectsMatchReceipts ==
  ASSUME NEW p \in Proc, Proc = {p}
  PROVE  Spec => []EffectsReceipted
<1>1. ASSUME SoloInv(p), NEW c \in Conv, Active(c)
      PROVE  LET s == journal[c]
                 of(op, i) == {k \in Receipts(c, {op}) : sent[k].act = i}
             IN  /\ s.events = Cardinality(Receipts(c, {"ingest", "publish"}))
                 /\ \A i \in DOMAIN s.acts :
                      /\ Cardinality(of("submit", i)) =
                           IF s.acts[i].status = "completed" THEN 1 ELSE 0
                      /\ Cardinality(of("publish", i)) =
                           IF s.acts[i].pub = "published" THEN 1 ELSE 0
  <2>1. Counted(journal[c], sent)
    BY <1>1 DEF SoloInv, RestInv, SoundInv, Sound
  <2>2. \A ops : Receipts(c, ops) = Done(journal[c], sent, ops)
    BY DEF Receipts, Done
  <2>3. \A op, i : {k \in Receipts(c, {op}) : sent[k].act = i} = DoneOn(journal[c], sent, op, i)
    BY <2>2 DEF DoneOn
  <2> QED BY <2>1, <2>2, <2>3 DEF Counted
<1>2. SoloInv(p) => EffectsReceipted
  BY <1>1 DEF EffectsReceipted
<1> QED BY <1>2, SoloHolds, PTL

\* A proposal comes from the host that claimed the activation last
\* (LastClaimantSpeaks).
THEOREM LastClaimIsHeard ==
  ASSUME NEW p \in Proc, Proc = {p}
  PROVE  Spec => []LastClaimantSpeaks
<1>1. ASSUME SoloInv(p), NEW c \in Conv, Active(c), NEW k \in Receipts(c, {"submit"})
      PROVE  LET at(x) == journal[c].idem[x]
                 claims == {x \in Receipts(c, {"claim"}) : sent[x].act = sent[k].act}
             IN  /\ sent[k].lease \in claims
                 /\ \A x \in claims : at(x) <= at(sent[k].lease) /\ at(x) < at(k)
  <2>1. Spoken(journal[c], sent)
    BY <1>1 DEF SoloInv, RestInv, SoundInv, Sound
  <2>2. \A ops : Receipts(c, ops) = Done(journal[c], sent, ops)
    BY DEF Receipts, Done
  <2>3. {x \in Receipts(c, {"claim"}) : sent[x].act = sent[k].act} =
        DoneOn(journal[c], sent, "claim", sent[k].act)
    BY <2>2 DEF DoneOn
  <2>4. k \in Done(journal[c], sent, {"submit"})
    BY <1>1, <2>2
  <2> QED BY <2>1, <2>3, <2>4 DEF Spoken
<1>2. SoloInv(p) => LastClaimantSpeaks
  BY <1>1 DEF LastClaimantSpeaks
<1> QED BY <1>2, SoloHolds, PTL

\* The answer an NPC owes is replaced once when the NPC moves (ReplacedOnce).
THEOREM OwedAnswerIsReplacedOnce ==
  ASSUME NEW p \in Proc, Proc = {p}
  PROVE  Spec => []ReplacedOnce
<1>1. ASSUME SoloInv(p), NEW c \in Conv, Active(c), NEW i \in DOMAIN journal[c].acts
      PROVE  LET acts == journal[c].acts
             IN  /\ acts[i].status = "invalidated" =>
                      Cardinality({j \in DOMAIN acts : acts[j].old = i}) = 1
                 /\ acts[i].old # 0 =>
                      /\ acts[acts[i].old].status = "invalidated"
                      /\ acts[acts[i].old].actor = acts[i].actor
  <2>1. Replaced(journal[c])
    BY <1>1 DEF SoloInv, RestInv, SoundInv, Sound
  <2>2. ASSUME journal[c].acts[i].status = "invalidated"
        PROVE  Cardinality({j \in DOMAIN journal[c].acts : journal[c].acts[j].old = i}) = 1
    <3>1. PICK j \in DOMAIN journal[c].acts :
            \A n \in DOMAIN journal[c].acts : journal[c].acts[n].old = i <=> n = j
      BY <2>1, <2>2 DEF Replaced
    <3>2. {n \in DOMAIN journal[c].acts : journal[c].acts[n].old = i} = {j}
      BY <3>1
    <3> QED BY <3>2, FS_Singleton
  <2> QED BY <2>1, <2>2 DEF Replaced
<1>2. SoloInv(p) => ReplacedOnce
  BY <1>1 DEF ReplacedOnce
<1> QED BY <1>2, SoloHolds, PTL


(***************************************************************************)
(* What a step does to a journal.                                          *)
(***************************************************************************)
\* Only four accesses write the directory, and only Commit the database.
LEMMA WhoWrites ==
  ASSUME [Next]_vars
  PROVE  /\ \/ journal' = journal
            \/ \E q \in Proc : (\E d \in Conv : OpenWrite(q, d)) \/ Fresh(q) \/ Write(q)
            \/ \E d \in Conv : Cleanup(d)
         /\ ledger' = ledger \/ \E q \in Proc : Commit(q)
<1>1. CASE UNCHANGED vars
  BY <1>1 DEF vars
<1>2. ASSUME NEW q \in Proc,
             \/ \E k \in Key, S \in SUBSET Actor : Open(q, k, S)
             \/ \E c \in Conv : Live(c) /\ \E k \in Key, r \in Requests(c) : Send(q, k, r)
             \/ \E k \in Key : Retry(q, k)
             \/ \E c \in Conv : Look(q, c)
             \/ OpenScan(q) \/ Finish(q) \/ Crash(q)
      PROVE  journal' = journal /\ ledger' = ledger
  BY <1>2 DEF Open, Send, Retry, Look, OpenScan, Finish, Crash, Store
<1>3. ASSUME NEW q \in Proc,
             Ingest(q) \/ Claim(q) \/ Submit(q) \/ Cancel(q) \/ Publish(q) \/ Abort(q)
      PROVE  journal' = journal /\ ledger' = ledger
  BY <1>3 DEF Ingest, Claim, Submit, Cancel, Publish, Abort, Mutation, Store
<1>4. ASSUME NEW q \in Proc, Commit(q) PROVE journal' = journal
  BY <1>4 DEF Commit, Store
<1>5. ASSUME \/ \E a \in Actor : ActorChange(a)
             \/ SceneChange
             \/ \E k \in Key : Lapse(k)
      PROVE  journal' = journal /\ ledger' = ledger
  BY <1>5 DEF ActorChange, SceneChange, Lapse, Store
<1>6. ASSUME \/ \E q \in Proc : (\E d \in Conv : OpenWrite(q, d)) \/ Fresh(q) \/ Write(q)
             \/ \E d \in Conv : Cleanup(d)
      PROVE  ledger' = ledger
  BY <1>6 DEF OpenWrite, Fresh, Write, Cleanup
<1> QED BY <1>1, <1>2, <1>3, <1>4, <1>5, <1>6 DEF Next, Serve

\* The journal c is new, was refreshed, got the draft of a request, or is gone.
NewIn(c) == journal[c] = None

RefreshIn(c) ==
  /\ Live(c) /\ journal[c].status = "open" /\ Live(c)' /\ journal'[c].idem = journal[c].idem
  /\ journal'[c].status \in {"open", "stale"}

DraftIn(c) ==
  /\ Live(c) /\ Live(c)' /\ IsSession(journal[c])
  /\ \E k, t :
       /\ k \in Key
       /\ Draft(journal[c], t, sent[k], k) /\ journal[c].idem[k] = 0
       /\ journal'[c].status = t.status /\ journal'[c].idem[k] # 0
       /\ journal'[c].status \in ActiveStatus =>
            /\ journal'[c].acts = t.acts /\ journal'[c].events = t.events
            /\ \A x \in Key : x # k => journal'[c].idem[x] = journal[c].idem[x]
       /\ journal'[c].status \notin ActiveStatus => journal'[c].events = 0
       /\ sent[k].op = "close" =>
            ledger[k] # None /\ ledger[k].conv = c /\ ledger[k].events = journal[c].events

CleanedIn(c) == journal[c].status \notin ActiveStatus /\ journal'[c] = Removed

LEMMA JournalSteps ==
  ASSUME NEW p \in Proc, Proc = {p}, SoloInv(p), [Next]_vars, NEW c \in Conv
  PROVE  journal'[c] = journal[c] \/ NewIn(c) \/ RefreshIn(c) \/ DraftIn(c) \/ CleanedIn(c)
<1>0. PICK i : i = job[p]
  OBVIOUS
<1>1. /\ TypeInv /\ RestInv /\ JobInv(p) /\ JobOK(i, sent) /\ JournalType
  BY <1>0 DEF SoloInv, TypeInv, JobsType
<1>2. ASSUME NEW d \in Conv, OpenWrite(p, d)
      PROVE  journal'[c] = journal[c] \/ NewIn(c)
  <2>1. journal[d] = None /\ journal' = [journal EXCEPT ![d] = job[p].copy]
    BY <1>2 DEF OpenWrite
  <2> QED BY <1>1, <2>1 DEF JournalType, NewIn
<1>3. CASE Write(p)
  <2>1. PICK w : w = Finished(i.copy, i.key)
    OBVIOUS
  <2>2. PICK s : s = journal[i.conv]
    OBVIOUS
  <2>3. i.pc = "write" /\ journal' = [journal EXCEPT ![i.conv] = w]
    BY <1>0, <1>3, <2>1 DEF Write
  <2>4. /\ i.conv \in Conv /\ i.key \in Key /\ Live(i.conv) /\ IsSession(s)
        /\ IsSession(w) /\ sent[i.key].op = i.op
        /\ s.idem[i.key] = 0 /\ Draft(s, i.copy, sent[i.key], i.key)
        /\ w.status = i.copy.status
        /\ w.idem[i.key] = s.rev + 1 /\ s.rev \in Nat
        /\ w.status \in ActiveStatus =>
             /\ w.acts = i.copy.acts /\ w.events = i.copy.events
             /\ \A x \in Key : w.idem[x] = IF x = i.key THEN s.rev + 1 ELSE s.idem[x]
        /\ w.status \notin ActiveStatus => w.events = 0
    BY <1>0, <1>1, <2>1, <2>2, <2>3, WritesDraft
  <2>5. /\ journal'[i.conv] = w
        /\ \A d \in Conv : d # i.conv => journal'[d] = journal[d]
    BY <1>1, <2>3, <2>4, JournalSet
  <2>6. CASE c = i.conv
    <3>1. Live(c) /\ Live(c)' /\ IsSession(journal[c])
      BY <2>2, <2>4, <2>5, <2>6, SessionLives DEF Live
    <3>2. sent[i.key].op = "close" =>
            /\ ledger[i.key] # None /\ ledger[i.key].conv = c
            /\ ledger[i.key].events = s.events
      BY <1>0, <1>1, <2>2, <2>3, <2>4, <2>6 DEF JobInv
    <3>3. w.idem[i.key] # 0
      BY <2>4
    <3>4. w.status \in ActiveStatus => \A x \in Key : x # i.key => w.idem[x] = s.idem[x]
      BY <2>4
    <3> QED BY <2>2, <2>4, <2>5, <2>6, <3>1, <3>2, <3>3, <3>4 DEF DraftIn
  <2>7. CASE c # i.conv
    BY <2>5, <2>7
  <2> QED BY <2>6, <2>7
<1>4. CASE Fresh(p)
  <2>1. /\ i.pc = "fresh"
        /\ FreshRefused(p, i) \/ FreshStale(p, i) \/ FreshOn(p, i)
        /\ sent' = sent
    BY <1>0, <1>1, <1>4, FreshIs DEF Client
  <2>2. /\ i.conv \in Conv /\ IsSession(i.copy) /\ Live(i.conv)
        /\ Alike(journal[i.conv], i.copy)
    BY <1>0, <1>1, <2>1 DEF JobOK, JobInv
  <2>3. ASSUME NEW t, Freshened(i.copy, t), journal' = [journal EXCEPT ![i.conv] = t],
               i.copy.status = "open", t.status \in {"open", "stale"}
        PROVE  journal'[c] = journal[c] \/ RefreshIn(c)
    <3>1. /\ journal'[i.conv] = t /\ Live(i.conv)' /\ t.idem = journal[i.conv].idem
      BY <1>1, <2>1, <2>2, <2>3, RestFreshened
    <3>2. journal[i.conv].status = "open"
      BY <2>2, <2>3, AlikeActive
    <3>3. \A d \in Conv : d # i.conv => journal'[d] = journal[d]
      BY <1>1, <2>2, <2>3, JournalSet DEF Freshened
    <3> QED BY <2>2, <2>3, <3>1, <3>2, <3>3 DEF RefreshIn
  <2>4. CASE FreshRefused(p, i)
    BY <2>4 DEF FreshRefused
  <2>5. CASE FreshStale(p, i)
    <3>1. PICK t : Freshened(i.copy, t) /\ t.status = "stale"
                   /\ journal' = [journal EXCEPT ![i.conv] = t]
      BY <2>5 DEF FreshStale
    <3> QED BY <2>3, <2>5, <3>1 DEF FreshStale
  <2>6. CASE FreshOn(p, i)
    <3>1. PICK t : FreshCopy(i, t)
      BY <2>6 DEF FreshOn
    <3>2. CASE journal' = journal
      BY <3>2
    <3>3. CASE Freshened(i.copy, t) /\ journal' = [journal EXCEPT ![i.conv] = t]
      BY <2>3, <2>6, <3>1, <3>3 DEF FreshOn, FreshCopy
    <3> QED BY <3>1, <3>2, <3>3 DEF FreshCopy
  <2> QED BY <2>1, <2>4, <2>5, <2>6
<1>5. ASSUME NEW d \in Conv, Cleanup(d) PROVE journal'[c] = journal[c] \/ CleanedIn(c)
  BY <1>1, <1>5, CleanupIs DEF CleanedIn
<1> QED BY <1>2, <1>3, <1>4, <1>5, WhoWrites

\* A receipt stays, with the same answer, while the conversation is active
\* (ReceiptsKept).
THEOREM ReceiptsStay ==
  ASSUME NEW p \in Proc, Proc = {p}
  PROVE  Spec => ReceiptsKept
<1>1. ASSUME SoloInv(p), [Next]_vars, NEW c \in Conv, Active(c), Active(c)', NEW k \in Key,
             journal[c].idem[k] # 0
      PROVE  journal[c].idem[k] = journal'[c].idem[k]
  <2>1. ~NewIn(c) /\ ~CleanedIn(c) /\ journal'[c].status \in ActiveStatus
    BY <1>1 DEF NewIn, CleanedIn, Active, Live
  <2>2. CASE RefreshIn(c)
    BY <2>2 DEF RefreshIn
  <2>3. CASE DraftIn(c)
    BY <1>1, <2>1, <2>3 DEF DraftIn
  <2> QED BY <1>1, <2>1, <2>2, <2>3, JournalSteps
<1>2. SoloInv(p) /\ [Next]_vars =>
        [\A c \in Conv : Active(c) /\ Active(c)' =>
           \A k \in Key : journal[c].idem[k] # 0 =>
             journal[c].idem[k] = journal'[c].idem[k]]_vars
  BY <1>1
<1> QED BY <1>2, SoloHolds, PTL DEF Spec, ReceiptsKept

\* A conversation ends as closed only with its whole transcript in the database
\* and nothing left that nobody saw (ClosedIsCommitted).
THEOREM CloseCommitsFirst ==
  ASSUME NEW p \in Proc, Proc = {p}
  PROVE  Spec => ClosedIsCommitted
<1>1. ASSUME SoloInv(p), [Next]_vars, NEW c \in Conv, Active(c), Live(c)',
             journal'[c].status = "closed"
      PROVE  /\ \E k \in Key : /\ journal'[c].idem[k] # 0
                               /\ ledger[k] # None
                               /\ ledger[k].conv = c
                               /\ ledger[k].events = journal[c].events
             /\ \A i \in DOMAIN journal[c].acts :
                  /\ ~Unfinished(journal[c].acts[i])
                  /\ journal[c].acts[i].pub # "pending_audience"
  <2>1. journal[c].status \in {"open", "stale"} /\ Live(c)
    BY <1>1 DEF Active, ActiveStatus
  <2>2. DraftIn(c)
    BY <1>1, <2>1, JournalSteps DEF NewIn, RefreshIn, CleanedIn, Live, ActiveStatus
  <2>3. PICK k, t :
          /\ k \in Key
          /\ Draft(journal[c], t, sent[k], k) /\ t.status = "closed"
          /\ journal'[c].idem[k] # 0
          /\ sent[k].op = "close" =>
               ledger[k] # None /\ ledger[k].conv = c /\ ledger[k].events = journal[c].events
    BY <1>1, <2>2 DEF DraftIn
  <2>4. sent[k].op = "close" /\ Complete(journal[c])
    BY <2>1, <2>3 DEF Draft, Ingested, Published, Claimed, Submitted, Returned, Worked
  <2> QED BY <2>3, <2>4 DEF Complete
<1>2. SoloInv(p) /\ [Next]_vars =>
        [\A c \in Conv : Active(c) /\ Live(c)' /\ journal'[c].status = "closed" =>
           /\ \E k \in Key : /\ journal'[c].idem[k] # 0
                             /\ ledger[k] # None
                             /\ ledger[k].conv = c
                             /\ ledger[k].events = journal[c].events
           /\ \A i \in DOMAIN journal[c].acts :
                /\ ~Unfinished(journal[c].acts[i])
                /\ journal[c].acts[i].pub # "pending_audience"]_vars
  BY <1>1
<1> QED BY <1>2, SoloHolds, PTL DEF Spec, ClosedIsCommitted

\* A stale conversation says nothing more (StaleIsSilent).
THEOREM StaleStaysSilent ==
  ASSUME NEW p \in Proc, Proc = {p}
  PROVE  Spec => StaleIsSilent
<1>1. ASSUME SoloInv(p), [Next]_vars, NEW c \in Conv, Live(c), journal[c].status = "stale"
      PROVE  /\ Live(c)'
             /\ journal'[c].status \in {"stale", "aborted"}
             /\ journal'[c].events <= journal[c].events
             /\ Active(c)' => \A i \in DOMAIN journal[c].acts :
                  journal'[c].acts[i].status \in {journal[c].acts[i].status, "pending"}
  <2>1. IsSession(journal[c])
    BY <1>1 DEF SoloInv, TypeInv, JournalType
  <2>2. journal[c].events \in Nat
    BY <2>1, SessionFields
  <2>3. CASE journal'[c] = journal[c]
    <3>1. Live(c)'
      BY <1>1, <2>3 DEF Live
    <3> QED BY <1>1, <2>2, <2>3, <3>1
  <2>4. CASE DraftIn(c)
    <3>1. PICK k, t :
            /\ k \in Key
            /\ Draft(journal[c], t, sent[k], k)
            /\ journal'[c].status = t.status
            /\ journal'[c].status \in ActiveStatus =>
                 journal'[c].acts = t.acts /\ journal'[c].events = t.events
            /\ journal'[c].status \notin ActiveStatus => journal'[c].events = 0
      BY <2>4 DEF DraftIn
    <3>2. t.status = "aborted" \/ Returned(journal[c], t, sent[k].act, sent[k].lease)
      BY <1>1, <3>1 DEF Draft, Ingested, Published, Claimed, Submitted
    <3>3. Live(c)'
      BY <2>4 DEF DraftIn
    <3>4. CASE t.status = "aborted"
      <4>1. journal'[c].events = 0 /\ journal'[c].status = "aborted" /\ ~Active(c)'
        BY <3>1, <3>4 DEF ActiveStatus, Active
      <4> QED BY <2>2, <3>3, <4>1
    <3>5. CASE Returned(journal[c], t, sent[k].act, sent[k].lease)
      <4>1. t.status = "stale" /\ t.events = journal[c].events
        BY <1>1, <3>5 DEF Returned, Worked
      <4>2. journal'[c].acts = t.acts /\ journal'[c].events = journal[c].events
            /\ journal'[c].status = "stale"
        BY <3>1, <4>1 DEF ActiveStatus
      <4>3. \A i \in DOMAIN journal[c].acts :
              t.acts[i].status \in {journal[c].acts[i].status, "pending"}
        BY <3>5 DEF Returned, Worked
      <4> QED BY <2>2, <3>3, <4>2, <4>3
    <3> QED BY <3>2, <3>4, <3>5
  <2> QED BY <1>1, <2>3, <2>4, JournalSteps DEF NewIn, RefreshIn, CleanedIn, Live, ActiveStatus
<1>2. SoloInv(p) /\ [Next]_vars =>
        [\A c \in Conv : Live(c) /\ journal[c].status = "stale" =>
           /\ Live(c)'
           /\ journal'[c].status \in {"stale", "aborted"}
           /\ journal'[c].events <= journal[c].events
           /\ Active(c)' => \A i \in DOMAIN journal[c].acts :
                journal'[c].acts[i].status \in {journal[c].acts[i].status, "pending"}]_vars
  BY <1>1
<1> QED BY <1>2, SoloHolds, PTL DEF Spec, StaleIsSilent

\* A change the players have not witnessed is committed only while the NPC that
\* proposed it is as it was (CommittedIsCurrent).
THEOREM CommitsAreCurrent ==
  ASSUME NEW p \in Proc, Proc = {p}
  PROVE  Spec => CommittedIsCurrent
<1>1. ASSUME SoloInv(p), [Next]_vars, NEW i, i = job[p], i.pc = "commit",
             ledger'[i.key] # ledger[i.key], NEW n \in sent[i.key].picks
      PROVE  LET x == i.copy.acts[n] IN x.sourced \/ x.runtime.ver = version[x.actor]
  <2>1. TypeInv /\ RestInv /\ JobInv(p)
    BY <1>1 DEF SoloInv
  <2>2. Commit(p)
    BY <1>1, WhoWrites
  <2>3. CommitOn(p, i)
    BY <1>1, <2>1, <2>2, CommitIs DEF CommitEffect
  <2>4. Closable(i.copy, sent[i.key].picks)
    BY <2>3 DEF CommitOn
  <2>5. n \in DOMAIN i.copy.acts /\ i.copy.acts[n].cand = "proposed"
    BY <1>1, <2>4 DEF Closable, Available
  <2>6. PICK s : s = journal[i.conv]
    OBVIOUS
  <2>7. /\ Live(i.conv) /\ Alike(s, i.copy) /\ s.status = "open"
        /\ \A a \in Participants(s) : s.locks[a] = version[a]
    BY <1>1, <2>1, <2>6 DEF JobInv, Writing
  <2>8. i.conv \in Conv
    BY <1>1, <2>1 DEF TypeInv, JobsType, JobOK, Writing
  <2>9. Works(s) /\ Locked(s)
    BY <2>1, <2>6, <2>7, <2>8 DEF RestInv, SoundInv, Active, ActiveStatus, Sound
  <2>10. PICK x : x = i.copy.acts[n]
    OBVIOUS
  <2>11. i.copy.acts = s.acts
    BY <2>7, AlikeActive
  <2>12. WorkOf(s, x)
    BY <2>5, <2>9, <2>10, <2>11 DEF Works
  <2>13. x.actor \in Participants(s) /\ (~x.sourced => x.runtime = s.runtime[x.actor])
    BY <2>5, <2>10, <2>12 DEF WorkOf
  <2> QED BY <2>7, <2>9, <2>10, <2>13 DEF Locked
<1>2. SoloInv(p) /\ [Next]_vars =>
        [\A q \in Proc : job[q].pc = "commit" /\ ledger'[job[q].key] # ledger[job[q].key] =>
           PicksAreCurrent(q)]_vars
  <2> SUFFICES ASSUME SoloInv(p), [Next]_vars, NEW q \in Proc, job[q].pc = "commit",
                      ledger'[job[q].key] # ledger[job[q].key]
               PROVE  PicksAreCurrent(q)
    OBVIOUS
  <2> SUFFICES ASSUME NEW i \in sent[job[q].key].picks
               PROVE  \/ job[q].copy.acts[i].sourced
                      \/ job[q].copy.acts[i].runtime.ver = version[job[q].copy.acts[i].actor]
    BY Zenon DEF PicksAreCurrent
  <2>1. PICK j : j = job[p]
    OBVIOUS
  <2>2. /\ job[q] = j /\ j.pc = "commit" /\ ledger'[j.key] # ledger[j.key]
        /\ i \in sent[j.key].picks
    BY <2>1
  <2>3. LET x == j.copy.acts[i] IN x.sourced \/ x.runtime.ver = version[x.actor]
    BY <1>1, <2>1, <2>2
  <2> QED BY <2>2, <2>3
<1>3. Spec => []SoloInv(p)
  BY SoloHolds, PTL
<1> QED BY <1>2, <1>3, PTL DEF Spec, CommittedIsCurrent
=============================================================================

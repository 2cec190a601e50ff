-------------------------- MODULE EapSessionProofs --------------------------
(***************************************************************************)
(* Safety of the EAP sessions, for any number of supplicants, sessions and *)
(* handlers, any store size and any network.                               *)
(***************************************************************************)
EXTENDS EapSession, FiniteSetTheorems, SequenceTheorems, TLAPS

-----------------------------------------------------------------------------
(* The invariant.  A session belongs to one supplicant from the day it is  *)
(* drawn, and whatever carries its State - a packet, an answer, a handler, *)
(* the supplicant itself - belongs to that supplicant.                     *)

\* Who a session belongs to, and the supplicants that ask for a method the
\* server has.
OwnersIn(tab) == [s \in Sess |-> tab[s].owner]
Owners == OwnersIn(sess)
Able == {c \in Client : cl[c].wants # "other"}

SessionFits(r, s, pr, ab) ==
    /\ r \in SessRecord
    /\ r.st = "absent" => r.owner = None
    /\ r.st # "absent" =>
         /\ r.owner \in Client
         /\ r.inner \in {"success", "tlv"} => (r.name = r.owner /\ <<s, r.owner>> \in pr)
         /\ r.lastResp.kind # "start" => r.owner \in ab

PacketFits(p, c, own, ab) ==
    /\ p \in Packet
    /\ p.state # None => own[p.state] = c
    /\ p.type \in {"peap", "ttls"} => c \in ab

AnswerFits(a, c, own, ab, pr) ==
    /\ a \in Reply
    /\ a.state # None => own[a.state] = c
    /\ a.code = "challenge" /\ a.req.kind # "start" => c \in ab
    /\ a.code = "accept" => (<<a.to.state, a.name>> \in pr /\ a.name = c)

\* While the handler of a PEAP session waits for a push, the session has the
\* name the push is about.
HandlerFits(g, tab, own, ab) ==
    /\ g \in HandRecord
    /\ g.pc # "idle" =>
         /\ g.c \in Client
         /\ PacketFits(g.p, g.c, own, ab)
         /\ g.s # None => g.s = g.p.state
    /\ g.pc = "auth" =>
         /\ g.s # None
         /\ g.p.type \in {"peap", "ttls"}
         /\ g.p.type = "peap" => tab[g.s].name = g.c

ClientFits(k, c, own, ab) ==
    /\ k \in ClientRecord
    /\ k.state # None => own[k.state] = c
    /\ k.pc = "await" => PacketFits(k.cur, c, own, ab)

SessionsFit(tab, pr, ab) ==
    /\ tab \in [Sess -> SessRecord]
    /\ \A s \in Sess : SessionFits(tab[s], s, pr, ab)
HandlersFit(hd, tab, own, ab) ==
    /\ hd \in [Handler -> HandRecord]
    /\ \A h \in Handler : HandlerFits(hd[h], tab, own, ab)
ClientsFit(k, own, ab) ==
    /\ k \in [Client -> ClientRecord]
    /\ \A c \in Client : ClientFits(k[c], c, own, ab)
PacketsFit(n, own, ab) ==
    /\ n \in [Client -> SUBSET Packet]
    /\ \A c \in Client : \A p \in n[c] : PacketFits(p, c, own, ab)
AnswersFit(an, own, ab, pr) ==
    /\ an \in [Client -> Seq(Reply)]
    /\ \A c \in Client : \A i \in 1..Len(an[c]) : AnswerFits(an[c][i], c, own, ab, pr)

Fit ==
    /\ SessionsFit(sess, proven, Able)
    /\ HandlersFit(hand, sess, Owners, Able)
    /\ ClientsFit(cl, Owners, Able)
    /\ PacketsFit(net, Owners, Able)
    /\ AnswersFit(ans, Owners, Able, proven)
    /\ now \in Nat
    /\ verdict \in [Client -> {"none", "yes", "no", "full"}]

Capped == IsFiniteSet(Stored) /\ Cardinality(Stored) <= Cap

EInv == Fit /\ Capped

-----------------------------------------------------------------------------
(* The records.                                                            *)

LEMMA Constants ==
    /\ 0 \in Id
    /\ \A i \in Id : NextId(i) \in Id
    /\ Empty \in Message
    /\ NoRequest \in Request
    /\ \A c \in Client : c # None /\ c # Anon
    /\ \A s \in Sess : s # None
BY EapAssumption DEF Id, NextId, Empty, Message, Word, NoRequest, Request, Said

\* A session that differs from r in what the engine and the tunnel keep only.
Alike(q, r) ==
    /\ q \in SessRecord
    /\ q.st = r.st /\ q.owner = r.owner /\ q.name = r.name /\ q.inner = r.inner
    /\ q.lastResp = r.lastResp

\* A part of a session's record is of its type.
LEMMA SessionParts ==
    ASSUME NEW r \in SessRecord
    PROVE  /\ r.st \in {"absent", "live", "gone"} /\ r.owner \in Client \cup {None}
           /\ r.proto \in {"peap", "ttls"} /\ r.phase \in {"handshake", "done", "inner"}
           /\ r.inner \in {"challenge", "success", "tlv", "failed"}
           /\ r.buf \in Seq(Message) /\ r.input \in Seq(Message) /\ r.read \in Nat
           /\ r.up \in BOOLEAN /\ r.err \in BOOLEAN /\ r.app \in Seq(Word)
           /\ r.pending \in BOOLEAN /\ r.out \in Seq([no: Nat, said: Said]) /\ r.made \in Nat
           /\ r.reqID \in Id /\ r.lastReq \in Packet \cup {None} /\ r.lastResp \in Request
           /\ r.name \in Client \cup {None, Anon} /\ r.lastUsed \in Nat /\ r.early \in BOOLEAN
BY DEF SessRecord

LEMMA FragmentsFit ==
    ASSUME NEW said \in Said
    PROVE  Fragments(said) \in Seq(Said)
<1>1. "flight" \in Said /\ "more" \in Said
  BY DEF Said
<1>2. CASE said = "flight"
  <2>1. Pieces \in Nat
    BY EapAssumption
  <2>2. \A i \in 1..Pieces : (IF i = Pieces THEN "flight" ELSE "more") \in Said
    BY <1>1
  <2>3. [i \in 1..Pieces |-> IF i = Pieces THEN "flight" ELSE "more"] \in [1..Pieces -> Said]
    BY <2>2
  <2>4. [i \in 1..Pieces |-> IF i = Pieces THEN "flight" ELSE "more"] \in Seq(Said)
    BY <2>1, <2>3, SeqDef
  <2> QED
    BY <1>2, <2>4 DEF Fragments
<1>3. CASE said # "flight"
  BY <1>3 DEF Fragments
<1> QED
  BY <1>2, <1>3

LEMMA PushOutFits ==
    ASSUME NEW r \in SessRecord, NEW said \in Said
    PROVE  Alike(PushOut(r, said), r)
<1> DEFINE f == Fragments(said)
           N == Len(f)
           g == [i \in 1..N |-> [no |-> r.made + i, said |-> f[i]]]
           out == r.out \o g
           made == r.made + N
           q == [r EXCEPT !.out = out, !.made = made]
<1>1. f \in Seq(Said) /\ N \in Nat
  BY FragmentsFit, LenProperties
<1>2. r.made \in Nat /\ r.out \in Seq([no: Nat, said: Said])
  BY SessionParts
<1>3. \A i \in 1..N : [no |-> r.made + i, said |-> f[i]] \in [no: Nat, said: Said]
  BY <1>1, <1>2, ElementOfSeq
<1>4. g \in [1..N -> [no: Nat, said: Said]]
  BY <1>3
<1>5. g \in Seq([no: Nat, said: Said])
  BY <1>1, <1>4, SeqDef
<1>6. out \in Seq([no: Nat, said: Said]) /\ made \in Nat
  BY <1>1, <1>2, <1>5, ConcatProperties
<1>7. PushOut(r, said) = q
  BY DEF PushOut
<1> HIDE DEF out, made
<1>8. q \in SessRecord
  BY <1>6 DEF SessRecord
<1>9. q.st = r.st /\ q.owner = r.owner /\ q.name = r.name /\ q.inner = r.inner /\ q.lastResp = r.lastResp
  BY DEF SessRecord
<1> QED
  BY <1>7, <1>8, <1>9 DEF Alike

LEMMA PopFits ==
    ASSUME NEW r \in SessRecord
    PROVE  PopOrAck(r) \in Request /\ PopOrAck(r).kind # "start"
<1>1. r.reqID \in Id /\ r.proto \in {"peap", "ttls"} /\ r.out \in Seq([no: Nat, said: Said])
  BY SessionParts
<1>2. CASE r.out = <<>>
  BY <1>1, <1>2, Constants DEF PopOrAck, NoRequest, Request, Said
<1>3. CASE r.out # <<>>
  <2>1. Head(r.out) \in [no: Nat, said: Said]
    BY <1>1, <1>3, HeadTailProperties
  <2> QED
    BY <1>1, <1>3, <2>1 DEF PopOrAck, Request
<1> QED
  BY <1>2, <1>3

LEMMA AfterPopFits ==
    ASSUME NEW r \in SessRecord
    PROVE  LET q == AfterPop(r) IN
           /\ q \in SessRecord
           /\ q.st = r.st /\ q.owner = r.owner /\ q.name = r.name /\ q.inner = r.inner
           /\ q.lastResp = PopOrAck(r)
<1> DEFINE out == IF r.out = <<>> THEN <<>> ELSE Tail(r.out)
           id == NextId(r.reqID)
           resp == PopOrAck(r)
           q == [r EXCEPT !.out = out, !.reqID = id, !.lastResp = resp]
<1>1. resp \in Request
  BY PopFits
<1>2. id \in Id
  BY SessionParts, Constants
<1>3. out \in Seq([no: Nat, said: Said])
  BY SessionParts, HeadTailProperties
<1>4. AfterPop(r) = q
  BY DEF AfterPop
<1> HIDE DEF out, id, resp
<1>5. q \in SessRecord
  BY <1>1, <1>2, <1>3 DEF SessRecord
<1>6. q.st = r.st /\ q.owner = r.owner /\ q.name = r.name /\ q.inner = r.inner /\ q.lastResp = resp
  BY DEF SessRecord
<1> QED
  BY <1>4, <1>5, <1>6 DEF resp

-----------------------------------------------------------------------------
(* The TLS engine.                                                         *)

LEMMA AlikeChain ==
    ASSUME NEW p, NEW q, NEW r, Alike(p, q), Alike(q, r)
    PROVE  Alike(p, r)
BY DEF Alike

LEMMA WorkFits ==
    ASSUME NEW r \in SessRecord, NEW m \in Message
    PROVE  Alike(Work(r, m), r)
<1>1. m.n \in Nat /\ m.word \in Word /\ r.app \in Seq(Word)
  BY SessionParts DEF Message
<1>2. CASE r.err \/ m.n # r.read + 1
  <2>1. [r EXCEPT !.err = TRUE] \in SessRecord
    BY DEF SessRecord
  <2>2. Alike([r EXCEPT !.err = TRUE], r)
    BY <2>1 DEF Alike, SessRecord
  <2> QED
    BY <1>2, <2>2 DEF Work
<1>3. CASE ~(r.err \/ m.n # r.read + 1)
  <2> DEFINE r1 == [r EXCEPT !.read = m.n]
             app == Append(r1.app, m.word)
             up == PushOut(r1, "finish")
             said == [r1 EXCEPT !.app = app]
             done == [up EXCEPT !.up = TRUE]
  <2>1. r1 \in SessRecord
    BY <1>1 DEF SessRecord
  <2>2. Alike(r1, r) /\ r1.app = r.app
    BY <2>1 DEF Alike, SessRecord
  <2>3. Alike(PushOut(r1, "flight"), r)
    <3>1. Alike(PushOut(r1, "flight"), r1)
      BY <2>1, PushOutFits DEF Said
    <3> QED
      BY <2>2, <3>1, AlikeChain
  <2>4. app \in Seq(Word)
    BY <1>1, <2>2, AppendProperties
  <2>5. Alike(said, r)
    <3> HIDE DEF app, r1
    <3>1. said \in SessRecord
      BY <2>1, <2>4 DEF SessRecord
    <3>2. Alike(said, r1)
      BY <2>1, <3>1 DEF Alike, SessRecord
    <3> QED
      BY <2>2, <3>2, AlikeChain
  <2>6. Alike(done, r)
    <3>1. Alike(up, r1) /\ up \in SessRecord
      BY <2>1, PushOutFits DEF Said, Alike
    <3> HIDE DEF up, r1
    <3>2. done \in SessRecord
      BY <3>1 DEF SessRecord
    <3>3. Alike(done, up)
      BY <3>1, <3>2 DEF Alike, SessRecord
    <3> QED
      BY <2>2, <3>1, <3>3, AlikeChain
  <2> HIDE DEF said, done
  <2>7. Work(r, m) = IF m.word = "hello" THEN PushOut(r1, "flight")
                     ELSE IF m.word = "finish" THEN done ELSE said
    BY <1>3, Zenon DEF Work, said, done
  <2> QED
    BY <2>3, <2>5, <2>6, <2>7
<1> QED
  BY <1>2, <1>3

\* A set of numbers that has 0 and, with every number below N, the next one,
\* has N: the successor would otherwise put a finite set one to one into less
\* than itself.
LEMMA StepsReach ==
    ASSUME NEW N \in Nat, NEW G \in SUBSET (0..N),
           0 \in G, \A n \in G : n < N => n + 1 \in G
    PROVE  N \in G
<1> SUFFICES ASSUME N \notin G PROVE FALSE
  OBVIOUS
<1> DEFINE T == G \ {0}
           f == [n \in G |-> n + 1]
<1>1. IsFiniteSet(0..N)
  BY FS_Interval
<1>2. IsFiniteSet(G)
  BY <1>1, FS_Subset
<1>3. \A n \in G : n \in Nat /\ n < N
  OBVIOUS
<1>4. IsFiniteSet(T) /\ Cardinality(T) = Cardinality(G) - 1
  BY <1>2, FS_RemoveElement
<1>5. \A n \in G : n + 1 \in T
  BY <1>3
<1>6. f \in [G -> T]
  BY <1>5
<1>7. \A m, n \in G : f[m] = f[n] => m = n
  BY <1>3
<1>8. f \in Injection(G, T)
  BY <1>6, <1>7 DEF Injection, IsInjective
<1>9. Cardinality(G) <= Cardinality(T)
  BY <1>4, <1>8, FS_Injection
<1>10. Cardinality(G) \in Nat
  BY <1>2, FS_CardinalityType
<1> QED
  BY <1>4, <1>9, <1>10

\* The engine's work on a queue of messages, one after the other.
After(r, w, n) == [i \in 0..n |-> IF i = 0 THEN r ELSE Work(w[i - 1], r.input[i])]

LEMMA EngineRuns ==
    ASSUME NEW r \in SessRecord
    PROVE  \E w : w = After(r, w, Len(r.input))
<1> DEFINE N == Len(r.input)
           G == {n \in 0..N : \E w : w = After(r, w, n)}
<1>1. N \in Nat
  BY SessionParts, LenProperties
<1>2. 0 \in G
  <2> DEFINE w == [i \in 0..0 |-> r]
  <2>1. w = After(r, w, 0)
    BY DEF After
  <2> QED
    BY <1>1, <2>1
<1>3. ASSUME NEW n \in G, n < N
      PROVE  n + 1 \in G
  <2>1. PICK w : w = After(r, w, n)
    BY <1>3
  <2> DEFINE v == [i \in 0..(n + 1) |-> IF i = n + 1 THEN Work(w[n], r.input[n + 1]) ELSE w[i]]
  <2>2. n \in Nat /\ n + 1 \in 0..N
    BY <1>1, <1>3
  <2>3. w[0] = r /\ \A i \in 1..n : w[i] = Work(w[i - 1], r.input[i])
    BY <2>1, <2>2 DEF After
  <2>4. ASSUME NEW i \in 0..(n + 1)
        PROVE  v[i] = IF i = 0 THEN r ELSE Work(v[i - 1], r.input[i])
    <3>1. CASE i = 0
      BY <2>2, <2>3, <3>1
    <3>2. CASE i = n + 1
      BY <2>2, <3>2
    <3>3. CASE i \in 1..n
      <4>1. v[i] = w[i] /\ v[i - 1] = w[i - 1]
        BY <2>2, <3>3
      <4>2. w[i] = Work(w[i - 1], r.input[i])
        BY <2>3, <3>3
      <4> QED
        BY <2>2, <3>3, <4>1, <4>2
    <3> QED
      BY <2>2, <3>1, <3>2, <3>3
  <2>5. v = After(r, v, n + 1)
    <3> HIDE DEF v
    <3>1. v = [i \in 0..(n + 1) |-> v[i]]
      BY DEF v
    <3> QED
      BY <2>4, <3>1 DEF After
  <2> QED
    BY <2>2, <2>5
<1> HIDE DEF G
<1>4. G \in SUBSET (0..N)
  BY DEF G
<1>5. N \in G
  BY <1>1, <1>2, <1>3, <1>4, StepsReach
<1> QED
  BY <1>5 DEF G

LEMMA WorkedFits ==
    ASSUME NEW r \in SessRecord
    PROVE  Alike(Worked(r), r)
<1> DEFINE N == Len(r.input)
           w == CHOOSE f : f = After(r, f, N)
           G == {n \in 0..N : Alike(w[n], r)}
<1>1. N \in Nat /\ \A i \in 1..N : r.input[i] \in Message
  BY SessionParts, LenProperties, ElementOfSeq
<1>2. w = After(r, w, N)
  BY EngineRuns
<1>3. Worked(r) = [w[N] EXCEPT !.input = <<>>]
  BY DEF Worked, After
<1> HIDE DEF w
<1>4. w[0] = r /\ \A i \in 1..N : w[i] = Work(w[i - 1], r.input[i])
  BY <1>1, <1>2 DEF After
<1>5. 0 \in G
  BY <1>1, <1>4 DEF Alike
<1>6. ASSUME NEW n \in G, n < N
      PROVE  n + 1 \in G
  <2>1. n + 1 \in 1..N /\ (n + 1) - 1 = n
    BY <1>1, <1>6
  <2>2. w[n + 1] = Work(w[n], r.input[n + 1])
    BY <1>4, <2>1
  <2>3. Alike(w[n], r) /\ w[n] \in SessRecord
    BY DEF Alike
  <2>4. Alike(w[n + 1], w[n])
    BY <1>1, <2>1, <2>2, <2>3, WorkFits
  <2>5. Alike(w[n + 1], r)
    BY <2>3, <2>4, AlikeChain
  <2> QED
    BY <1>1, <2>1, <2>5
<1> HIDE DEF G
<1>7. N \in G
  <2>1. G \in SUBSET (0..N)
    BY DEF G
  <2> QED
    BY <1>1, <1>5, <1>6, <2>1, StepsReach
<1>8. Alike(w[N], r) /\ w[N] \in SessRecord
  BY <1>7 DEF G, Alike
<1> DEFINE q == w[N]
           p == [q EXCEPT !.input = <<>>]
<1>9. q \in SessRecord /\ Alike(q, r)
  BY <1>8
<1> HIDE DEF q
<1>10. p \in SessRecord
  BY <1>9, EmptySeq DEF SessRecord
<1>11. Alike(p, q)
  BY <1>9, <1>10 DEF Alike, SessRecord
<1> QED
  BY <1>3, <1>9, <1>11, AlikeChain DEF q

LEMMA FedFits ==
    ASSUME NEW r \in SessRecord, NEW m \in Message
    PROVE  Alike(Fed(r, m), r)
<1> DEFINE input == Append(r.input, m)
           q == [r EXCEPT !.input = input]
<1>1. input \in Seq(Message)
  BY SessionParts, AppendProperties
<1> HIDE DEF input
<1>2. q \in SessRecord
  BY <1>1 DEF SessRecord
<1>3. Alike(q, r)
  BY <1>2 DEF Alike, SessRecord
<1> QED
  BY <1>3 DEF Fed, input

LEMMA WaitedFits ==
    ASSUME NEW r \in SessRecord, NEW w \in Waited(r)
    PROVE  Alike(w, r)
<1>1. w = Worked(r) \/ w = [r EXCEPT !.early = TRUE] \/ w = [r EXCEPT !.err = TRUE]
  BY DEF Waited
<1>2. Alike([r EXCEPT !.early = TRUE], r)
  <2>1. [r EXCEPT !.early = TRUE] \in SessRecord
    BY DEF SessRecord
  <2> QED
    BY <2>1 DEF Alike, SessRecord
<1>3. Alike([r EXCEPT !.err = TRUE], r)
  <2>1. [r EXCEPT !.err = TRUE] \in SessRecord
    BY DEF SessRecord
  <2> QED
    BY <2>1 DEF Alike, SessRecord
<1> QED
  BY <1>1, <1>2, <1>3, WorkedFits

-----------------------------------------------------------------------------
(* What stays true of packets, answers, handlers and supplicants when the  *)
(* sessions make a step.                                                   *)

Grown(own, own2) == \A s \in Sess : own[s] # None => own2[s] = own[s]

\* A session keeps its owner; its name stays or becomes the owner.
Steps(tab, tab2, pr, ab) ==
    /\ SessionsFit(tab2, pr, ab)
    /\ \A s \in Sess : tab[s].owner # None =>
         /\ tab2[s].owner = tab[s].owner
         /\ tab2[s].name \in {tab[s].name, tab[s].owner}

LEMMA StepsGrow ==
    ASSUME NEW tab, NEW tab2, NEW pr, NEW ab, Steps(tab, tab2, pr, ab)
    PROVE  Grown(OwnersIn(tab), OwnersIn(tab2))
BY DEF Steps, Grown, OwnersIn

LEMMA PacketKept ==
    ASSUME NEW p, NEW c \in Client, NEW own, NEW own2, NEW ab,
           Grown(own, own2), PacketFits(p, c, own, ab)
    PROVE  PacketFits(p, c, own2, ab)
<1>1. p \in Packet /\ (p.state # None => p.state \in Sess)
  BY DEF PacketFits, Packet
<1> QED
  BY <1>1, Constants DEF PacketFits, Grown

LEMMA AnswerKept ==
    ASSUME NEW a, NEW c \in Client, NEW own, NEW own2, NEW ab, NEW pr, NEW pr2,
           Grown(own, own2), pr \subseteq pr2, AnswerFits(a, c, own, ab, pr)
    PROVE  AnswerFits(a, c, own2, ab, pr2)
<1>1. a \in Reply /\ (a.state # None => a.state \in Sess)
  BY DEF AnswerFits, Reply
<1> QED
  BY <1>1, Constants DEF AnswerFits, Grown

LEMMA ClientKept ==
    ASSUME NEW k, NEW c \in Client, NEW own, NEW own2, NEW ab,
           Grown(own, own2), ClientFits(k, c, own, ab)
    PROVE  ClientFits(k, c, own2, ab)
<1>1. k \in ClientRecord /\ (k.state # None => k.state \in Sess)
  BY DEF ClientFits, ClientRecord
<1> QED
  BY <1>1, Constants, PacketKept DEF ClientFits, Grown

LEMMA HandlerKept ==
    ASSUME NEW g, NEW tab, NEW tab2, NEW pr, NEW ab, Steps(tab, tab2, pr, ab),
           HandlerFits(g, tab, OwnersIn(tab), ab)
    PROVE  HandlerFits(g, tab2, OwnersIn(tab2), ab)
<1>1. Grown(OwnersIn(tab), OwnersIn(tab2))
  BY StepsGrow
<1>2. ASSUME g.pc # "idle"
      PROVE  PacketFits(g.p, g.c, OwnersIn(tab2), ab)
  BY <1>1, <1>2, PacketKept DEF HandlerFits
<1>3. ASSUME g.pc = "auth", g.p.type = "peap"
      PROVE  tab2[g.s].name = g.c
  <2>1. /\ g.s \in Sess /\ g.s = g.p.state /\ g.p.state # None /\ tab[g.s].name = g.c
        /\ g.c \in Client /\ PacketFits(g.p, g.c, OwnersIn(tab), ab)
    BY <1>3 DEF HandlerFits, HandRecord
  <2>2. tab[g.s].owner = g.c
    BY <2>1 DEF PacketFits, OwnersIn
  <2> QED
    BY <2>1, <2>2, Constants DEF Steps
<1> QED
  BY <1>2, <1>3 DEF HandlerFits

\* A step of the server: a handler, or none, moves on; what it takes comes out
\* of the network, and what it sends goes to the supplicant it works for.
LEMMA MoveStep ==
    ASSUME Fit, UNCHANGED <<cl, now>>, proven \subseteq proven',
           net' \in [Client -> SUBSET Packet], \A c \in Client : net'[c] \subseteq net[c],
           Steps(sess, sess', proven', Able),
           \/ hand' = hand
           \/ \E h \in Handler : \E g : /\ hand' = [hand EXCEPT ![h] = g]
                                          /\ HandlerFits(g, sess', OwnersIn(sess'), Able),
           \/ ans' = ans
           \/ \E c \in Client : \E a : /\ ans' = [ans EXCEPT ![c] = Append(@, a)]
                                         /\ AnswerFits(a, c, OwnersIn(sess'), Able, proven'),
           verdict' \in [Client -> {"none", "yes", "no", "full"}]
    PROVE  Fit'
<1> DEFINE own == OwnersIn(sess)
           own2 == OwnersIn(sess')
<1>1. Able' = Able
  BY DEF Able
<1>2. Grown(own, own2)
  BY StepsGrow
<1>3. SessionsFit(sess', proven', Able)
  BY DEF Steps
<1>4. HandlersFit(hand', sess', own2, Able)
  <2>1. hand \in [Handler -> HandRecord] /\ \A h \in Handler : HandlerFits(hand[h], sess, own, Able)
    BY DEF Fit, Owners, HandlersFit
  <2>2. \A h \in Handler : HandlerFits(hand[h], sess', own2, Able)
    BY <2>1, HandlerKept
  <2>3. CASE hand' = hand
    BY <2>1, <2>2, <2>3 DEF HandlersFit
  <2>4. ASSUME NEW h \in Handler, NEW g, hand' = [hand EXCEPT ![h] = g],
               HandlerFits(g, sess', own2, Able)
        PROVE  HandlersFit(hand', sess', own2, Able)
    <3>1. g \in HandRecord
      BY <2>4 DEF HandlerFits
    <3>2. hand' \in [Handler -> HandRecord]
      BY <2>1, <2>4, <3>1
    <3>3. \A k \in Handler : hand'[k] = IF k = h THEN g ELSE hand[k]
      BY <2>1, <2>4
    <3> QED
      BY <2>2, <2>4, <3>2, <3>3 DEF HandlersFit
  <2> QED
    BY <2>3, <2>4
<1>5. ClientsFit(cl, own2, Able)
  BY <1>2, ClientKept DEF Fit, Owners, ClientsFit
<1>6. PacketsFit(net', own2, Able)
  <2>1. \A c \in Client : \A p \in net[c] : PacketFits(p, c, own, Able)
    BY DEF Fit, Owners, PacketsFit
  <2> QED
    BY <1>2, <2>1, PacketKept DEF PacketsFit
<1>7. AnswersFit(ans', own2, Able, proven')
  <2>1. /\ ans \in [Client -> Seq(Reply)]
        /\ \A c \in Client : \A i \in 1..Len(ans[c]) : AnswerFits(ans[c][i], c, own, Able, proven)
    BY DEF Fit, Owners, AnswersFit
  <2>2. \A c \in Client : \A i \in 1..Len(ans[c]) : AnswerFits(ans[c][i], c, own2, Able, proven')
    BY <1>2, <2>1, AnswerKept
  <2>3. CASE ans' = ans
    BY <2>1, <2>2, <2>3 DEF AnswersFit
  <2>4. ASSUME NEW c \in Client, NEW a, ans' = [ans EXCEPT ![c] = Append(@, a)],
               AnswerFits(a, c, own2, Able, proven')
        PROVE  AnswersFit(ans', own2, Able, proven')
    <3>1. a \in Reply /\ ans[c] \in Seq(Reply)
      BY <2>1, <2>4 DEF AnswerFits
    <3>2. ans' \in [Client -> Seq(Reply)]
      BY <2>1, <2>4, <3>1, AppendProperties
    <3>3. ASSUME NEW d \in Client, NEW i \in 1..Len(ans'[d])
          PROVE  AnswerFits(ans'[d][i], d, own2, Able, proven')
      <4>1. CASE d # c
        BY <2>1, <2>2, <2>4, <4>1
      <4>2. CASE d = c
        <5>1. ans'[d] = Append(ans[c], a) /\ Len(ans'[d]) = Len(ans[c]) + 1 /\ Len(ans[c]) \in Nat
          BY <2>1, <2>4, <3>1, <4>2, AppendProperties, LenProperties
        <5>2. CASE i \in 1..Len(ans[c])
          BY <2>2, <3>1, <4>2, <5>1, <5>2, AppendProperties
        <5>3. CASE i = Len(ans[c]) + 1
          BY <2>4, <3>1, <4>2, <5>1, <5>3
        <5> QED
          BY <5>1, <5>2, <5>3
      <4> QED
        BY <4>1, <4>2
    <3> QED
      BY <3>2, <3>3 DEF AnswersFit
  <2> QED
    BY <2>3, <2>4
<1>8. now' \in Nat
  BY DEF Fit
<1> QED
  BY <1>1, <1>3, <1>4, <1>5, <1>6, <1>7, <1>8 DEF Fit, Owners

LEMMA ServerStep ==
    ASSUME Fit, UNCHANGED <<cl, net, now>>, proven \subseteq proven',
           Steps(sess, sess', proven', Able),
           \/ hand' = hand
           \/ \E h \in Handler : \E g : /\ hand' = [hand EXCEPT ![h] = g]
                                          /\ HandlerFits(g, sess', OwnersIn(sess'), Able),
           \/ ans' = ans
           \/ \E c \in Client : \E a : /\ ans' = [ans EXCEPT ![c] = Append(@, a)]
                                         /\ AnswerFits(a, c, OwnersIn(sess'), Able, proven'),
           verdict' \in [Client -> {"none", "yes", "no", "full"}]
    PROVE  Fit'
<1>1. net' \in [Client -> SUBSET Packet] /\ \A c \in Client : net'[c] \subseteq net[c]
  BY DEF Fit, PacketsFit
<1> QED
  BY <1>1, MoveStep

-----------------------------------------------------------------------------
(* The ways a handler ends its work.                                       *)

Live(tab) == {s \in Sess : tab[s].st = "live"}

\* A record that the session s of the table may go on with.
Follows(r, tab, s, pr) ==
    /\ r \in SessRecord
    /\ r.st = tab[s].st /\ r.owner = tab[s].owner /\ r.lastResp = tab[s].lastResp
    /\ r.name \in {tab[s].name, tab[s].owner}
    /\ r.inner \in {"success", "tlv"} => (r.name = r.owner /\ <<s, r.owner>> \in pr)

\* The handler h works on a session, for the supplicant it belongs to.
AtWork(h) ==
    /\ h \in Handler /\ hand[h].pc # "idle" /\ hand[h].s # None
    /\ hand[h].p.type \in {"peap", "ttls"}

LEMMA Working ==
    ASSUME Fit, NEW h, AtWork(h)
    PROVE  /\ hand \in [Handler -> HandRecord] /\ hand[h] \in HandRecord
           /\ hand[h].s \in Sess /\ hand[h].s = hand[h].p.state
           /\ hand[h].c \in Able /\ hand[h].c \in Client
           /\ hand[h].p \in Packet
           /\ PacketFits(hand[h].p, hand[h].c, Owners, Able)
           /\ sess[hand[h].s].owner = hand[h].c
           /\ sess[hand[h].s].st # "absent"
           /\ sess \in [Sess -> SessRecord]
           /\ SessionFits(sess[hand[h].s], hand[h].s, proven, Able)
<1>1. hand \in [Handler -> HandRecord] /\ HandlerFits(hand[h], sess, Owners, Able)
  BY DEF Fit, HandlersFit, AtWork
<1>2. hand[h].s \in Sess /\ hand[h].c \in Client /\ hand[h].s = hand[h].p.state
  BY <1>1 DEF HandlerFits, HandRecord, AtWork
<1>3. PacketFits(hand[h].p, hand[h].c, Owners, Able)
  BY <1>1 DEF HandlerFits, AtWork
<1>4. sess[hand[h].s].owner = hand[h].c
  BY <1>2, <1>3 DEF PacketFits, Owners, OwnersIn, AtWork
<1>5. SessionFits(sess[hand[h].s], hand[h].s, proven, Able) /\ sess \in [Sess -> SessRecord]
  BY <1>2 DEF Fit, SessionsFit
<1>6. sess[hand[h].s].st # "absent"
  BY <1>2, <1>4, <1>5, Constants DEF SessionFits
<1> QED
  BY <1>1, <1>2, <1>3, <1>4, <1>5, <1>6 DEF PacketFits, AtWork

LEMMA AlikeFollows ==
    ASSUME Fit, NEW h, AtWork(h), NEW r, Alike(r, sess[hand[h].s]), NEW pr, proven \subseteq pr
    PROVE  Follows(r, sess, hand[h].s, pr)
BY Working DEF Alike, Follows, SessionFits

LEMMA FollowsOn ==
    ASSUME NEW q, NEW r, NEW tab, NEW s, NEW pr, Alike(q, r), Follows(r, tab, s, pr)
    PROVE  Follows(q, tab, s, pr)
BY DEF Alike, Follows

LEMMA OneSession ==
    ASSUME NEW tab, NEW s \in Sess, NEW pr, NEW pr2, NEW ab, NEW q,
           SessionsFit(tab, pr, ab), pr \subseteq pr2, tab[s].st # "absent",
           q.owner = tab[s].owner, q.st \in {tab[s].st, "gone"},
           q.name \in {tab[s].name, tab[s].owner}, SessionFits(q, s, pr2, ab)
    PROVE  LET tab2 == [tab EXCEPT ![s] = q] IN
           /\ Steps(tab, tab2, pr2, ab)
           /\ Live(tab2) \subseteq Live(tab)
<1> DEFINE tab2 == [tab EXCEPT ![s] = q]
<1>1. tab \in [Sess -> SessRecord] /\ \A t \in Sess : SessionFits(tab[t], t, pr, ab)
  BY DEF SessionsFit
<1>2. q \in SessRecord
  BY DEF SessionFits
<1>3. tab2 \in [Sess -> SessRecord] /\ \A t \in Sess : tab2[t] = IF t = s THEN q ELSE tab[t]
  BY <1>1, <1>2
<1> HIDE DEF tab2
<1>4. \A t \in Sess : SessionFits(tab[t], t, pr2, ab)
  BY <1>1 DEF SessionFits
<1>5. SessionsFit(tab2, pr2, ab)
  BY <1>3, <1>4 DEF SessionsFit
<1>6. Steps(tab, tab2, pr2, ab)
  BY <1>3, <1>5 DEF Steps
<1>7. Live(tab2) \subseteq Live(tab)
  BY <1>3 DEF Live
<1> QED
  BY <1>6, <1>7 DEF tab2

LEMMA NothingSteps ==
    ASSUME Fit, proven \subseteq proven'
    PROVE  sess' = sess => Steps(sess, sess', proven', Able)
<1> SUFFICES ASSUME sess' = sess PROVE Steps(sess, sess', proven', Able)
  OBVIOUS
<1>1. SessionsFit(sess, proven, Able)
  BY DEF Fit
<1>2. SessionsFit(sess, proven', Able)
  BY <1>1 DEF SessionsFit, SessionFits
<1> QED
  BY <1>2 DEF Steps

Idle == [pc |-> "idle", c |-> None, s |-> None, p |-> None, deadline |-> 0]

LEMMA IdleFits ==
    ASSUME NEW tab, NEW own, NEW ab
    PROVE  HandlerFits(Idle, tab, own, ab)
BY DEF Idle, HandlerFits, HandRecord

\* An answer that refuses or admits.
LEMMA VerdictFits ==
    ASSUME NEW c \in Client, NEW p \in Packet, NEW code \in {"accept", "reject"},
           NEW name \in {None, c}, NEW own, NEW ab, NEW pr,
           code = "accept" => name = c /\ <<p.state, c>> \in pr
    PROVE  AnswerFits([code |-> code, to |-> p, state |-> None, req |-> NoRequest, name |-> name],
                      c, own, ab, pr)
BY Constants DEF AnswerFits, Reply

LEMMA PumpStep ==
    ASSUME Fit, NEW h, AtWork(h), NEW r, Follows(r, sess, hand[h].s, proven'), Pump(h, r),
           UNCHANGED <<cl, net, now>>, proven \subseteq proven',
           verdict' \in [Client -> {"none", "yes", "no", "full"}]
    PROVE  Fit' /\ Stored' \subseteq Stored
<1> DEFINE s == hand[h].s
           c == hand[h].c
           q == AfterPop(r)
           a == [code |-> "challenge", to |-> hand[h].p, state |-> s, req |-> PopOrAck(r), name |-> None]
<1>1. /\ s \in Sess /\ c \in Client /\ c \in Able /\ hand[h].p \in Packet /\ sess[s].owner = c
      /\ sess[s].st # "absent"
  BY Working
<1>2. r \in SessRecord /\ r.owner = c /\ r.st = sess[s].st /\ r.name \in {sess[s].name, sess[s].owner}
  BY <1>1 DEF Follows
<1>3. /\ q \in SessRecord
      /\ q.st = r.st /\ q.owner = r.owner /\ q.name = r.name /\ q.inner = r.inner
  BY <1>2, AfterPopFits
<1>4. sess' = [sess EXCEPT ![s] = q] /\ hand' = [hand EXCEPT ![h] = Idle]
      /\ ans' = [ans EXCEPT ![c] = Append(@, a)]
  BY DEF Pump, Say, Done, Idle
<1>5. PopOrAck(r) \in Request
  BY <1>2, PopFits
<1> HIDE DEF q
<1>6. SessionFits(q, s, proven', Able)
  BY <1>1, <1>2, <1>3 DEF SessionFits, Follows
<1>7. Steps(sess, sess', proven', Able) /\ Live(sess') \subseteq Live(sess)
  BY <1>1, <1>2, <1>3, <1>4, <1>6, OneSession DEF Fit
<1>8. OwnersIn(sess')[s] = c
  BY <1>1, <1>7, Constants DEF Steps, OwnersIn
<1>9. AnswerFits(a, c, OwnersIn(sess'), Able, proven')
  BY <1>1, <1>5, <1>8 DEF AnswerFits, Reply
<1> HIDE DEF a, c, s
<1>10. h \in Handler /\ c \in Client
  BY <1>1 DEF AtWork
<1>11. Fit'
  BY <1>4, <1>7, <1>9, <1>10, IdleFits, ServerStep
<1> QED
  BY <1>7, <1>11 DEF Stored, Live

\* The session, forgotten.
LEMMA Forgotten ==
    ASSUME Fit, NEW h, AtWork(h), NEW r, Follows(r, sess, hand[h].s, proven'),
           sess' = Without(hand[h].s, r), proven \subseteq proven'
    PROVE  Steps(sess, sess', proven', Able) /\ Live(sess') \subseteq Live(sess)
<1> DEFINE s == hand[h].s
           q == [r EXCEPT !.st = "gone"]
<1>1. /\ s \in Sess /\ sess[s].st # "absent" /\ SessionFits(sess[s], s, proven, Able)
      /\ sess[s].owner \in Client
  BY Working
<1>2. /\ r \in SessRecord /\ r.owner = sess[s].owner /\ r.name \in {sess[s].name, sess[s].owner}
      /\ r.lastResp = sess[s].lastResp
      /\ r.inner \in {"success", "tlv"} => (r.name = r.owner /\ <<s, r.owner>> \in proven')
  BY DEF Follows
<1>3. q \in SessRecord
  BY <1>2 DEF SessRecord
<1>4. /\ q.st = "gone" /\ q.owner = r.owner /\ q.name = r.name /\ q.inner = r.inner
      /\ q.lastResp = r.lastResp
  BY <1>2 DEF SessRecord
<1>5. sess' = [sess EXCEPT ![s] = q]
  BY DEF Without
<1> HIDE DEF q
<1>6. SessionFits(q, s, proven', Able)
  BY <1>1, <1>2, <1>3, <1>4 DEF SessionFits
<1>7. SessionsFit(sess, proven, Able)
  BY DEF Fit
<1>8. q.owner = sess[s].owner /\ q.st \in {sess[s].st, "gone"} /\ q.name \in {sess[s].name, sess[s].owner}
  BY <1>2, <1>4
<1> HIDE DEF s
<1>9. LET tab2 == [sess EXCEPT ![s] = q] IN Steps(sess, tab2, proven', Able) /\ Live(tab2) \subseteq Live(sess)
  BY <1>1, <1>6, <1>7, <1>8, OneSession
<1> QED
  BY <1>5, <1>9

LEMMA FailStep ==
    ASSUME Fit, NEW h, AtWork(h), NEW r, Follows(r, sess, hand[h].s, proven'), Fail(h, r),
           UNCHANGED <<cl, net, now>>, proven \subseteq proven',
           verdict' \in [Client -> {"none", "yes", "no", "full"}]
    PROVE  Fit' /\ Stored' \subseteq Stored
<1> DEFINE c == hand[h].c
           a == [code |-> "reject", to |-> hand[h].p, state |-> None, req |-> NoRequest, name |-> None]
<1>1. c \in Client /\ hand[h].p \in Packet /\ h \in Handler
  BY Working DEF AtWork
<1>2. Steps(sess, sess', proven', Able) /\ Live(sess') \subseteq Live(sess)
  BY Forgotten DEF Fail
<1>3. hand' = [hand EXCEPT ![h] = Idle] /\ ans' = [ans EXCEPT ![c] = Append(@, a)]
  BY DEF Fail, Reject, Say, Done, Idle
<1>4. AnswerFits(a, c, OwnersIn(sess'), Able, proven')
  BY <1>1, VerdictFits
<1> HIDE DEF a, c
<1>5. Fit'
  BY <1>1, <1>2, <1>3, <1>4, IdleFits, ServerStep
<1> QED
  BY <1>2, <1>5 DEF Stored, Live

LEMMA AdmitStep ==
    ASSUME Fit, NEW h, AtWork(h), NEW r, Follows(r, sess, hand[h].s, proven'),
           Admit(h, r, hand[h].c), <<hand[h].s, hand[h].c>> \in proven',
           UNCHANGED <<cl, net, now>>, proven \subseteq proven',
           verdict' \in [Client -> {"none", "yes", "no", "full"}]
    PROVE  Fit' /\ Stored' \subseteq Stored
<1> DEFINE c == hand[h].c
           a == [code |-> "accept", to |-> hand[h].p, state |-> None, req |-> NoRequest, name |-> c]
<1>1. c \in Client /\ hand[h].p \in Packet /\ h \in Handler /\ hand[h].s = hand[h].p.state
  BY Working DEF AtWork
<1>2. Steps(sess, sess', proven', Able) /\ Live(sess') \subseteq Live(sess)
  BY Forgotten DEF Admit
<1>3. hand' = [hand EXCEPT ![h] = Idle] /\ ans' = [ans EXCEPT ![c] = Append(@, a)]
  BY DEF Admit, Say, Done, Idle
<1>4. AnswerFits(a, c, OwnersIn(sess'), Able, proven')
  BY <1>1, VerdictFits
<1> HIDE DEF a, c
<1>5. Fit'
  BY <1>1, <1>2, <1>3, <1>4, IdleFits, ServerStep
<1> QED
  BY <1>2, <1>5 DEF Stored, Live

\* The handler waits for a push: a PEAP session has been given the name.
LEMMA WaitStep ==
    ASSUME Fit, NEW h, AtWork(h), NEW r, Follows(r, sess, hand[h].s, proven'), WaitFor(h, r),
           hand[h].p.type = "peap" => r.name = hand[h].c,
           UNCHANGED <<cl, net, now>>, proven \subseteq proven',
           verdict' \in [Client -> {"none", "yes", "no", "full"}]
    PROVE  Fit' /\ Stored' \subseteq Stored
<1> DEFINE s == hand[h].s
           g == [hand[h] EXCEPT !.pc = "auth", !.deadline = now + PushWait]
<1>1. /\ hand \in [Handler -> HandRecord] /\ h \in Handler /\ s # None /\ s \in Sess
      /\ sess \in [Sess -> SessRecord] /\ sess[s].st # "absent" /\ sess[s].owner = hand[h].c
      /\ SessionFits(sess[s], s, proven, Able)
  BY Working DEF AtWork
<1>2. sess' = [sess EXCEPT ![s] = r] /\ hand' = [hand EXCEPT ![h] = g] /\ ans' = ans
  BY <1>1 DEF WaitFor
<1>3. SessionFits(r, s, proven', Able)
  BY <1>1 DEF Follows, SessionFits
<1>4. Steps(sess, sess', proven', Able) /\ Live(sess') \subseteq Live(sess)
  BY <1>1, <1>2, <1>3, OneSession DEF Fit, Follows
<1>5. now + PushWait \in Nat
  BY EapAssumption DEF Fit
<1>6. g \in HandRecord
  BY <1>1, <1>5 DEF HandRecord
<1>7. g.pc = "auth" /\ g.c = hand[h].c /\ g.s = s /\ g.p = hand[h].p
  BY <1>1 DEF HandRecord
<1>8. HandlerFits(hand[h], sess, OwnersIn(sess), Able)
  BY <1>1 DEF Fit, Owners, HandlersFit
<1> HIDE DEF g
<1>9. HandlerFits(hand[h], sess', OwnersIn(sess'), Able)
  BY <1>4, <1>8, HandlerKept
<1>10. r.name = sess'[s].name
  BY <1>1, <1>2
<1>11. HandlerFits(g, sess', OwnersIn(sess'), Able)
  BY <1>1, <1>6, <1>7, <1>9, <1>10 DEF HandlerFits, AtWork
<1>12. Fit'
  BY <1>1, <1>2, <1>4, <1>11, ServerStep
<1> QED
  BY <1>4, <1>12 DEF Stored, Live

\* A packet is refused, and no session loses or gains by it.
LEMMA RejectStep ==
    ASSUME Fit, NEW h \in Handler, hand[h].pc # "idle", Reject(h),
           Steps(sess, sess', proven', Able), Live(sess') \subseteq Live(sess),
           UNCHANGED <<cl, net, now>>, proven \subseteq proven',
           verdict' \in [Client -> {"none", "yes", "no", "full"}]
    PROVE  Fit' /\ Stored' \subseteq Stored
<1> DEFINE c == hand[h].c
           a == [code |-> "reject", to |-> hand[h].p, state |-> None, req |-> NoRequest, name |-> None]
<1>1. c \in Client /\ hand[h].p \in Packet
  BY DEF Fit, HandlersFit, HandlerFits, PacketFits
<1>2. hand' = [hand EXCEPT ![h] = Idle] /\ ans' = [ans EXCEPT ![c] = Append(@, a)]
  BY DEF Reject, Say, Done, Idle
<1>3. AnswerFits(a, c, OwnersIn(sess'), Able, proven')
  BY <1>1, VerdictFits
<1> HIDE DEF a, c
<1>4. Fit'
  BY <1>1, <1>2, <1>3, IdleFits, ServerStep
<1> QED
  BY <1>4 DEF Stored, Live

-----------------------------------------------------------------------------
(* The steps of a handler inside the tunnel.                               *)

Tame == Fit' /\ Stored' \subseteq Stored

LEMMA InTunnelWorks ==
    ASSUME NEW h \in Handler, InTunnel(h)
    PROVE  AtWork(h)
BY DEF InTunnel, Tunnelled, NewPacket, AtWork

\* The session a step begins with.
LEMMA BegunFits ==
    ASSUME Fit, NEW h, AtWork(h)
    PROVE  /\ Body(h) \in Message
           /\ Alike(Begun(h), sess[hand[h].s])
           /\ Alike([Begun(h) EXCEPT !.buf = <<>>], sess[hand[h].s])
<1> DEFINE r == sess[hand[h].s]
           b == [r EXCEPT !.lastReq = hand[h].p]
           e == [b EXCEPT !.buf = <<>>]
<1>1. r \in SessRecord /\ hand[h].p \in Packet
  BY Working DEF SessionFits
<1>2. Begun(h) = b
  BY DEF Begun
<1> HIDE DEF r
<1>3. b \in SessRecord
  BY <1>1 DEF SessRecord
<1>4. Alike(b, r)
  BY <1>1, <1>3 DEF Alike, SessRecord
<1> HIDE DEF b
<1>5. e \in SessRecord
  BY <1>3, EmptySeq DEF SessRecord
<1>6. Alike(e, b)
  BY <1>3, <1>5 DEF Alike, SessRecord
<1>7. Alike(e, r)
  BY <1>4, <1>6, AlikeChain
<1> QED
  BY <1>1, <1>2, <1>4, <1>7 DEF Body, Packet, r

\* What a message leaves the session with, and what it said.
LEMMA HeardFits ==
    ASSUME Fit, NEW h, AtWork(h), NEW x \in Heard(h)
    PROVE  Alike(x.r, sess[hand[h].s])
<1> DEFINE e == [Begun(h) EXCEPT !.buf = <<>>]
<1>1. Body(h) \in Message /\ Alike(e, sess[hand[h].s]) /\ e \in SessRecord
  BY BegunFits DEF Alike
<1> HIDE DEF e
<1>2. \A w : Alike(w, e) => Alike([w EXCEPT !.app = <<>>], e)
  <2> SUFFICES ASSUME NEW w, Alike(w, e) PROVE Alike([w EXCEPT !.app = <<>>], e)
    OBVIOUS
  <2>1. w \in SessRecord
    BY DEF Alike
  <2>2. [w EXCEPT !.app = <<>>] \in SessRecord
    BY <2>1, EmptySeq DEF SessRecord
  <2>3. Alike([w EXCEPT !.app = <<>>], w)
    BY <2>1, <2>2 DEF Alike, SessRecord
  <2> QED
    BY <2>3, AlikeChain
<1>3. CASE Body(h) = Empty
  <2>1. x = [r |-> [e EXCEPT !.app = <<>>], said |-> TakeApp(e)]
    BY <1>3 DEF Heard, e
  <2>2. Alike(e, e)
    BY <1>1 DEF Alike
  <2>3. Alike(x.r, e)
    BY <1>2, <2>1, <2>2
  <2> QED
    BY <1>1, <2>3, AlikeChain
<1>4. CASE Body(h) # Empty
  <2>1. PICK w \in Waited(Fed(e, Body(h))) : x = [r |-> [w EXCEPT !.app = <<>>], said |-> w.app]
    BY <1>4 DEF Heard, e
  <2>2. Alike(Fed(e, Body(h)), e) /\ Fed(e, Body(h)) \in SessRecord
    BY <1>1, FedFits DEF Alike
  <2>3. Alike(w, e)
    BY <2>2, WaitedFits, AlikeChain
  <2>4. Alike(x.r, e)
    BY <1>2, <2>1, <2>3
  <2> QED
    BY <1>1, <2>4, AlikeChain
<1> QED
  BY <1>3, <1>4

LEMMA VerdictKept ==
    ASSUME Fit
    PROVE  UNCHANGED verdict => verdict' \in [Client -> {"none", "yes", "no", "full"}]
BY DEF Fit

LEMMA CollectTame ==
    ASSUME Fit, NEW h \in Handler, Collect(h)
    PROVE  Tame
<1> DEFINE b == Begun(h)
           buf == Append(b.buf, Body(h))
           q == [b EXCEPT !.buf = buf]
<1>1. AtWork(h) /\ Pump(h, q) /\ UNCHANGED <<cl, net, now, verdict, proven>>
  BY InTunnelWorks DEF Collect, envVars, historyVars
<1>2. Body(h) \in Message /\ Alike(b, sess[hand[h].s]) /\ b \in SessRecord
  BY <1>1, BegunFits DEF Alike
<1> HIDE DEF b
<1>3. buf \in Seq(Message)
  BY <1>2, SessionParts, AppendProperties
<1> HIDE DEF buf
<1>4. q \in SessRecord
  BY <1>2, <1>3 DEF SessRecord
<1>5. Alike(q, b)
  BY <1>2, <1>4 DEF Alike, SessRecord
<1>6. Follows(q, sess, hand[h].s, proven')
  BY <1>1, <1>2, <1>5, AlikeChain, AlikeFollows
<1> HIDE DEF q
<1> QED
  BY <1>1, <1>6, VerdictKept, PumpStep DEF Tame

LEMMA MisfitTame ==
    ASSUME Fit, NEW h \in Handler, Misfit(h)
    PROVE  Tame
<1>1. AtWork(h) /\ Fail(h, Begun(h)) /\ UNCHANGED <<cl, net, now, verdict, proven>>
  BY InTunnelWorks DEF Misfit, envVars, historyVars
<1>2. Follows(Begun(h), sess, hand[h].s, proven')
  BY <1>1, BegunFits, AlikeFollows
<1> QED
  BY <1>1, <1>2, VerdictKept, FailStep DEF Tame

LEMMA PhaseFits ==
    ASSUME NEW r \in SessRecord, NEW phase \in {"handshake", "done", "inner"}
    PROVE  Alike([r EXCEPT !.phase = phase], r)
<1>1. [r EXCEPT !.phase = phase] \in SessRecord
  BY DEF SessRecord
<1> QED
  BY <1>1 DEF Alike, SessRecord

LEMMA HandshakeTame ==
    ASSUME Fit, NEW h \in Handler, Handshake(h)
    PROVE  Tame
<1> DEFINE r == [Begun(h) EXCEPT !.buf = <<>>]
           next == IF r.proto = "peap" THEN "done" ELSE "inner"
           fed == Fed(r, Body(h))
<1>1. AtWork(h) /\ UNCHANGED <<cl, net, now, verdict, proven>>
  BY InTunnelWorks DEF Handshake, Complete, envVars, historyVars
<1>2. \/ Pump(h, r)
      \/ Pump(h, [fed EXCEPT !.phase = next])
      \/ \E w \in Waited(fed) : \/ Fail(h, w)
                                \/ Pump(h, w)
                                \/ Pump(h, [w EXCEPT !.phase = next])
  BY Zenon DEF Handshake
<1>3. Body(h) \in Message /\ Alike(r, sess[hand[h].s]) /\ r \in SessRecord
  BY <1>1, BegunFits DEF Alike
<1>4. next \in {"handshake", "done", "inner"}
  OBVIOUS
<1> HIDE DEF r, next
<1>5. Alike(fed, r) /\ fed \in SessRecord
  BY <1>3, FedFits DEF Alike
<1> HIDE DEF fed
<1>6. \A q : Alike(q, r) => Follows(q, sess, hand[h].s, proven')
  BY <1>1, <1>3, AlikeChain, AlikeFollows
<1>7. CASE Pump(h, r)
  <2>1. Follows(r, sess, hand[h].s, proven')
    BY <1>3, <1>6 DEF Alike
  <2> QED
    BY <1>1, <1>7, <2>1, VerdictKept, PumpStep DEF Tame
<1>8. CASE Pump(h, [fed EXCEPT !.phase = next])
  <2>1. Follows([fed EXCEPT !.phase = next], sess, hand[h].s, proven')
    BY <1>4, <1>5, <1>6, PhaseFits, AlikeChain
  <2> QED
    BY <1>1, <1>8, <2>1, VerdictKept, PumpStep DEF Tame
<1>9. ASSUME NEW w \in Waited(fed), Fail(h, w) \/ Pump(h, w) \/ Pump(h, [w EXCEPT !.phase = next])
      PROVE  Tame
  <2>1. Alike(w, r) /\ w \in SessRecord
    BY <1>5, WaitedFits, AlikeChain DEF Alike
  <2>2. Follows(w, sess, hand[h].s, proven')
    BY <1>6, <2>1
  <2>3. Follows([w EXCEPT !.phase = next], sess, hand[h].s, proven')
    BY <1>4, <1>6, <2>1, PhaseFits, AlikeChain
  <2>4. CASE Fail(h, w)
    BY <1>1, <2>2, <2>4, VerdictKept, FailStep DEF Tame
  <2>5. CASE Pump(h, w)
    BY <1>1, <2>2, <2>5, VerdictKept, PumpStep DEF Tame
  <2>6. CASE Pump(h, [w EXCEPT !.phase = next])
    BY <1>1, <2>3, <2>6, VerdictKept, PumpStep DEF Tame
  <2> QED
    BY <1>9, <2>4, <2>5, <2>6
<1> QED
  BY <1>2, <1>7, <1>8, <1>9

\* A session that the inner dialogue moves on, under the name of the user.
LEMMA InnerFits ==
    ASSUME NEW r \in SessRecord, NEW inner \in {"challenge", "success", "tlv", "failed"}
    PROVE  LET q == [r EXCEPT !.inner = inner] IN
           /\ q \in SessRecord
           /\ q.st = r.st /\ q.owner = r.owner /\ q.name = r.name /\ q.lastResp = r.lastResp
           /\ q.inner = inner
<1>1. [r EXCEPT !.inner = inner] \in SessRecord
  BY DEF SessRecord
<1> QED
  BY <1>1 DEF SessRecord

LEMMA NamedFits ==
    ASSUME NEW r \in SessRecord, NEW c \in Client
    PROVE  LET q == [r EXCEPT !.name = c] IN
           /\ q \in SessRecord
           /\ q.st = r.st /\ q.owner = r.owner /\ q.inner = r.inner /\ q.lastResp = r.lastResp
           /\ q.name = c
<1>1. [r EXCEPT !.name = c] \in SessRecord
  BY DEF SessRecord
<1> QED
  BY <1>1 DEF SessRecord

\* From what follows on a session, with its inner state or its name changed.
LEMMA InnerFollows ==
    ASSUME NEW r, NEW tab, NEW s, NEW pr, Follows(r, tab, s, pr),
           NEW inner \in {"challenge", "success", "tlv", "failed"},
           inner \in {"success", "tlv"} => (r.name = r.owner /\ <<s, r.owner>> \in pr)
    PROVE  Follows([r EXCEPT !.inner = inner], tab, s, pr)
<1> DEFINE q == [r EXCEPT !.inner = inner]
<1>1. r \in SessRecord
  BY DEF Follows
<1>2. /\ q \in SessRecord
      /\ q.st = r.st /\ q.owner = r.owner /\ q.name = r.name /\ q.lastResp = r.lastResp
      /\ q.inner = inner
  BY <1>1, InnerFits
<1> HIDE DEF q
<1>3. Follows(q, tab, s, pr)
  BY <1>2 DEF Follows
<1> QED
  BY <1>3 DEF q

LEMMA NamedFollows ==
    ASSUME NEW r, NEW tab, NEW s, NEW pr, Follows(r, tab, s, pr), NEW c \in Client, c = tab[s].owner
    PROVE  LET q == [r EXCEPT !.name = c] IN
           Follows(q, tab, s, pr) /\ q.name = c /\ q.inner = r.inner /\ q.owner = c
<1> DEFINE q == [r EXCEPT !.name = c]
<1>1. r \in SessRecord
  BY DEF Follows
<1>2. /\ q \in SessRecord
      /\ q.st = r.st /\ q.owner = r.owner /\ q.inner = r.inner /\ q.lastResp = r.lastResp
      /\ q.name = c
  BY <1>1, NamedFits
<1> HIDE DEF q
<1>3. Follows(q, tab, s, pr) /\ q.name = c /\ q.inner = r.inner /\ q.owner = c
  BY <1>2 DEF Follows
<1> QED
  BY <1>3 DEF q

LEMMA SaidFollows ==
    ASSUME NEW r, NEW tab, NEW s, NEW pr, Follows(r, tab, s, pr), NEW said \in Said
    PROVE  Follows(PushOut(r, said), tab, s, pr)
BY PushOutFits, FollowsOn DEF Follows

LEMMA FirstQuestionTame ==
    ASSUME Fit, NEW h \in Handler, FirstQuestion(h)
    PROVE  Tame
<1> DEFINE e == [Begun(h) EXCEPT !.buf = <<>>]
           p == [e EXCEPT !.phase = "inner"]
           r == [p EXCEPT !.inner = "challenge"]
           q == IF Body(h) = Empty THEN r ELSE Fed(r, Body(h))
<1>1. AtWork(h) /\ UNCHANGED <<cl, net, now, verdict, proven>>
  BY InTunnelWorks DEF FirstQuestion, Complete, envVars, historyVars
<1>2. Pump(h, PushOut(q, "chal"))
  BY Zenon DEF FirstQuestion
<1>3. Body(h) \in Message /\ Alike(e, sess[hand[h].s]) /\ e \in SessRecord
  BY <1>1, BegunFits DEF Alike
<1> HIDE DEF e
<1>4. Alike(p, e)
  BY <1>3, PhaseFits
<1>5. Follows(p, sess, hand[h].s, proven')
  BY <1>1, <1>3, <1>4, AlikeChain, AlikeFollows
<1> HIDE DEF p
<1>6. Follows(r, sess, hand[h].s, proven') /\ r \in SessRecord
  BY <1>5, InnerFollows, InnerFits DEF Follows
<1> HIDE DEF r
<1>7. Follows(q, sess, hand[h].s, proven')
  BY <1>3, <1>6, FedFits, FollowsOn
<1> HIDE DEF q
<1>8. Follows(PushOut(q, "chal"), sess, hand[h].s, proven')
  BY <1>7, SaidFollows DEF Said
<1> QED
  BY <1>1, <1>2, <1>8, VerdictKept, PumpStep DEF Tame

\* A handler that has heard something goes on with the session it has.
LEMMA Hearing ==
    ASSUME Fit, NEW h \in Handler, NEW x, Inner(h, x), NEW pr, proven \subseteq pr
    PROVE  /\ AtWork(h)
           /\ Follows(x.r, sess, hand[h].s, pr)
           /\ x.r \in SessRecord
           /\ hand[h].c \in Client /\ sess[hand[h].s].owner = hand[h].c /\ x.r.owner = hand[h].c
<1>1. AtWork(h) /\ x \in Heard(h)
  BY InTunnelWorks DEF Inner, Complete
<1>2. Follows(x.r, sess, hand[h].s, pr)
  BY <1>1, HeardFits, AlikeFollows
<1> QED
  BY <1>1, <1>2, Working DEF Follows

LEMMA ListenTame ==
    ASSUME Fit, NEW h \in Handler, NEW x, Listen(h, x)
    PROVE  Tame
<1>1. Inner(h, x) /\ UNCHANGED <<cl, net, now, verdict, proven>>
  BY DEF Listen, envVars, historyVars
<1>2. AtWork(h) /\ Follows(x.r, sess, hand[h].s, proven') /\ x.r \in SessRecord
  BY <1>1, Hearing
<1> DEFINE r == x.r
           q == [r EXCEPT !.pending = TRUE]
<1>3. Fail(h, x.r) \/ Pump(h, x.r) \/ Pump(h, q)
  BY DEF Listen
<1>4. Follows(q, sess, hand[h].s, proven')
  <2> HIDE DEF r
  <2>1. q \in SessRecord
    BY <1>2 DEF SessRecord, r
  <2>2. Alike(q, r)
    BY <1>2, <2>1 DEF Alike, SessRecord, r
  <2> QED
    BY <1>2, <2>2, FollowsOn DEF r
<1> HIDE DEF q
<1>5. CASE Fail(h, x.r)
  BY <1>1, <1>2, <1>5, VerdictKept, FailStep DEF Tame
<1>6. CASE Pump(h, x.r)
  BY <1>1, <1>2, <1>6, VerdictKept, PumpStep DEF Tame
<1>7. CASE Pump(h, q)
  BY <1>1, <1>2, <1>4, <1>7, VerdictKept, PumpStep DEF Tame
<1> QED
  BY <1>3, <1>5, <1>6, <1>7

LEMMA InnerPAPTame ==
    ASSUME Fit, NEW h \in Handler, NEW x, InnerPAP(h, x)
    PROVE  Tame
<1>1. Inner(h, x) /\ hand[h].p.type = "ttls" /\ UNCHANGED <<cl, net, now, verdict, proven>>
  BY DEF InnerPAP, Asked, envVars, historyVars
<1>2. AtWork(h) /\ Follows(x.r, sess, hand[h].s, proven') /\ x.r \in SessRecord
  BY <1>1, Hearing
<1> DEFINE r == x.r
           q == [r EXCEPT !.pending = FALSE]
<1>3. WaitFor(h, q)
  BY DEF InnerPAP
<1>4. Follows(q, sess, hand[h].s, proven')
  <2> HIDE DEF r
  <2>1. q \in SessRecord
    BY <1>2 DEF SessRecord, r
  <2>2. Alike(q, r)
    BY <1>2, <2>1 DEF Alike, SessRecord, r
  <2> QED
    BY <1>2, <2>2, FollowsOn DEF r
<1> HIDE DEF q
<1> QED
  BY <1>1, <1>2, <1>3, <1>4, VerdictKept, WaitStep DEF Tame

LEMMA InnerIdentityTame ==
    ASSUME Fit, NEW h \in Handler, NEW x, InnerIdentity(h, x)
    PROVE  Tame
<1>1. Inner(h, x) /\ UNCHANGED <<cl, net, now, verdict, proven>>
  BY DEF InnerIdentity, Asked, envVars, historyVars
<1>2. /\ AtWork(h) /\ Follows(x.r, sess, hand[h].s, proven')
      /\ hand[h].c \in Client /\ sess[hand[h].s].owner = hand[h].c
  BY <1>1, Hearing
<1> DEFINE q == [x.r EXCEPT !.name = hand[h].c]
<1>3. Pump(h, PushOut(q, "chal"))
  BY DEF InnerIdentity
<1>4. Follows(q, sess, hand[h].s, proven')
  BY <1>2, NamedFollows
<1> HIDE DEF q
<1>5. Follows(PushOut(q, "chal"), sess, hand[h].s, proven')
  BY <1>4, SaidFollows DEF Said
<1> QED
  BY <1>1, <1>2, <1>3, <1>5, VerdictKept, PumpStep DEF Tame

LEMMA SucceedStep ==
    ASSUME Fit, NEW h, AtWork(h), NEW r, Follows(r, sess, hand[h].s, proven'), Succeed(h, r),
           r.name = r.owner, <<hand[h].s, r.owner>> \in proven',
           UNCHANGED <<cl, net, now>>, proven \subseteq proven',
           verdict' \in [Client -> {"none", "yes", "no", "full"}]
    PROVE  Tame
<1> DEFINE q == [r EXCEPT !.inner = "success"]
<1>1. Pump(h, PushOut(q, "success"))
  BY DEF Succeed
<1>2. Follows(q, sess, hand[h].s, proven')
  BY InnerFollows
<1> HIDE DEF q
<1>3. Follows(PushOut(q, "success"), sess, hand[h].s, proven')
  BY <1>2, SaidFollows DEF Said
<1> QED
  BY <1>1, <1>3, PumpStep DEF Tame

LEMMA FailMSCHAPv2Step ==
    ASSUME Fit, NEW h, AtWork(h), NEW r, Follows(r, sess, hand[h].s, proven'), FailMSCHAPv2(h, r),
           UNCHANGED <<cl, net, now>>, proven \subseteq proven',
           verdict' \in [Client -> {"none", "yes", "no", "full"}]
    PROVE  Tame
<1> DEFINE q == [r EXCEPT !.inner = "failed"]
<1>1. Pump(h, PushOut(q, "fail"))
  BY DEF FailMSCHAPv2
<1>2. Follows(q, sess, hand[h].s, proven')
  BY InnerFollows
<1> HIDE DEF q
<1>3. Follows(PushOut(q, "fail"), sess, hand[h].s, proven')
  BY <1>2, SaidFollows DEF Said
<1> QED
  BY <1>1, <1>3, PumpStep DEF Tame

LEMMA Judged ==
    ASSUME Fit, NEW c \in Client, NEW yes \in BOOLEAN, Judge(c, yes)
    PROVE  verdict' \in [Client -> {"none", "yes", "no", "full"}]
BY DEF Fit, Judge

LEMMA Proved ==
    ASSUME NEW h, NEW yes \in BOOLEAN, Prove(h, yes)
    PROVE  proven \subseteq proven' /\ (yes => <<hand[h].s, hand[h].c>> \in proven')
BY DEF Prove

LEMMA InnerResponseTame ==
    ASSUME Fit, NEW h \in Handler, NEW x, InnerResponse(h, x)
    PROVE  Tame
<1> DEFINE r == [x.r EXCEPT !.name = hand[h].c]
<1>1. Inner(h, x) /\ hand[h].p.type = "peap" /\ UNCHANGED <<cl, net, now>>
  BY DEF InnerResponse, Asked, envVars
<1>2. \/ FailMSCHAPv2(h, r) /\ Judge(hand[h].c, FALSE) /\ Prove(h, FALSE)
      \/ Succeed(h, r) /\ Judge(hand[h].c, TRUE) /\ Prove(h, TRUE)
      \/ WaitFor(h, r) /\ UNCHANGED <<verdict, proven>>
  BY DEF InnerResponse, historyVars
<1>3. \A pr : proven \subseteq pr =>
        /\ AtWork(h) /\ Follows(x.r, sess, hand[h].s, pr)
        /\ hand[h].c \in Client /\ sess[hand[h].s].owner = hand[h].c
  BY <1>1, Hearing
<1>4. \A pr : proven \subseteq pr =>
        Follows(r, sess, hand[h].s, pr) /\ r.name = hand[h].c /\ r.owner = hand[h].c
  BY <1>3, NamedFollows
<1>5. AtWork(h) /\ hand[h].c \in Client
  BY <1>3
<1> HIDE DEF r
<1>6. CASE FailMSCHAPv2(h, r) /\ Judge(hand[h].c, FALSE) /\ Prove(h, FALSE)
  <2>1. proven \subseteq proven' /\ verdict' \in [Client -> {"none", "yes", "no", "full"}]
    BY <1>5, <1>6, Proved, Judged
  <2> QED
    BY <1>1, <1>4, <1>5, <1>6, <2>1, FailMSCHAPv2Step
<1>7. CASE Succeed(h, r) /\ Judge(hand[h].c, TRUE) /\ Prove(h, TRUE)
  <2>1. /\ proven \subseteq proven' /\ verdict' \in [Client -> {"none", "yes", "no", "full"}]
        /\ <<hand[h].s, hand[h].c>> \in proven'
    BY <1>5, <1>7, Proved, Judged
  <2> QED
    BY <1>1, <1>4, <1>5, <1>7, <2>1, SucceedStep
<1>8. CASE WaitFor(h, r) /\ UNCHANGED <<verdict, proven>>
  BY <1>1, <1>4, <1>5, <1>8, VerdictKept, WaitStep DEF Tame
<1> QED
  BY <1>2, <1>6, <1>7, <1>8

\* The verdict on a push, taken with the session as it is now.
LEMMA ResumeTame ==
    ASSUME Fit, NEW h \in Handler, NEW yes \in BOOLEAN, Resume(h, yes)
    PROVE  Tame
<1> DEFINE r == sess[hand[h].s]
<1>1. /\ hand[h].pc = "auth" /\ UNCHANGED <<cl, net, now>>
      /\ Judge(hand[h].c, yes) /\ Prove(h, yes)
  BY DEF Resume, envVars
<1>2. HandlerFits(hand[h], sess, Owners, Able)
  BY DEF Fit, HandlersFit
<1>3. AtWork(h) /\ (hand[h].p.type # "ttls" => r.name = hand[h].c)
  BY <1>1, <1>2 DEF HandlerFits, AtWork
<1>4. hand[h].c \in Client /\ r.owner = hand[h].c /\ r \in SessRecord
  BY <1>3, Working
<1>5. /\ proven \subseteq proven' /\ verdict' \in [Client -> {"none", "yes", "no", "full"}]
      /\ yes => <<hand[h].s, hand[h].c>> \in proven'
  BY <1>1, <1>4, Proved, Judged
<1>6. Follows(r, sess, hand[h].s, proven')
  BY <1>3, <1>4, <1>5, AlikeFollows DEF Alike
<1>7. \/ hand[h].p.type = "ttls" /\ yes /\ Admit(h, r, hand[h].c)
      \/ Fail(h, r)
      \/ hand[h].p.type # "ttls" /\ yes /\ Succeed(h, r)
      \/ FailMSCHAPv2(h, r)
  BY DEF Resume
<1> HIDE DEF r
<1>8. CASE hand[h].p.type = "ttls" /\ yes /\ Admit(h, r, hand[h].c)
  BY <1>1, <1>3, <1>5, <1>6, <1>8, AdmitStep DEF Tame
<1>9. CASE Fail(h, r)
  BY <1>1, <1>3, <1>5, <1>6, <1>9, FailStep DEF Tame
<1>10. CASE hand[h].p.type # "ttls" /\ yes /\ Succeed(h, r)
  BY <1>1, <1>3, <1>4, <1>5, <1>6, <1>10, SucceedStep
<1>11. CASE FailMSCHAPv2(h, r)
  BY <1>1, <1>3, <1>5, <1>6, <1>11, FailMSCHAPv2Step
<1> QED
  BY <1>7, <1>8, <1>9, <1>10, <1>11

\* The supplicant's last word: the name is the one that was authenticated.
LEMMA Proven ==
    ASSUME NEW h, NEW r, NEW pr, Follows(r, sess, hand[h].s, pr), r.owner = hand[h].c,
           r.inner \in {"success", "tlv"}
    PROVE  r.name = hand[h].c /\ <<hand[h].s, hand[h].c>> \in pr
BY DEF Follows

LEMMA AfterSuccessTame ==
    ASSUME Fit, NEW h \in Handler, NEW x, AfterSuccess(h, x)
    PROVE  Tame
<1> DEFINE q == [x.r EXCEPT !.inner = "tlv"]
<1>1. Inner(h, x) /\ x.r.inner = "success" /\ UNCHANGED <<cl, net, now, verdict, proven>>
  BY DEF AfterSuccess, Asked, envVars, historyVars
<1>2. /\ AtWork(h) /\ Follows(x.r, sess, hand[h].s, proven') /\ x.r.owner = hand[h].c
  BY <1>1, Hearing
<1>3. x.r.name = hand[h].c /\ <<hand[h].s, hand[h].c>> \in proven'
  BY <1>1, <1>2, Proven
<1>4. Admit(h, x.r, x.r.name) \/ Pump(h, PushOut(q, "tlv"))
  BY DEF AfterSuccess
<1>5. Follows(q, sess, hand[h].s, proven')
  BY <1>2, <1>3, InnerFollows
<1> HIDE DEF q
<1>6. Follows(PushOut(q, "tlv"), sess, hand[h].s, proven')
  BY <1>5, SaidFollows DEF Said
<1>7. CASE Admit(h, x.r, x.r.name)
  <2>1. Admit(h, x.r, hand[h].c)
    BY <1>3, <1>7
  <2> QED
    BY <1>1, <1>2, <1>3, <2>1, VerdictKept, AdmitStep DEF Tame
<1>8. CASE Pump(h, PushOut(q, "tlv"))
  BY <1>1, <1>2, <1>6, <1>8, VerdictKept, PumpStep DEF Tame
<1> QED
  BY <1>4, <1>7, <1>8

LEMMA AfterTLVTame ==
    ASSUME Fit, NEW h \in Handler, NEW x, AfterTLV(h, x)
    PROVE  Tame
<1>1. /\ Inner(h, x) /\ x.r.inner = "tlv" /\ Admit(h, x.r, x.r.name)
      /\ UNCHANGED <<cl, net, now, verdict, proven>>
  BY DEF AfterTLV, Asked, envVars, historyVars
<1>2. /\ AtWork(h) /\ Follows(x.r, sess, hand[h].s, proven') /\ x.r.owner = hand[h].c
  BY <1>1, Hearing
<1>3. x.r.name = hand[h].c /\ <<hand[h].s, hand[h].c>> \in proven'
  BY <1>1, <1>2, Proven
<1>4. Admit(h, x.r, hand[h].c)
  BY <1>1, <1>3
<1> QED
  BY <1>1, <1>2, <1>3, <1>4, VerdictKept, AdmitStep DEF Tame

LEMMA AfterFailureTame ==
    ASSUME Fit, NEW h \in Handler, NEW x, AfterFailure(h, x)
    PROVE  Tame
<1>1. Inner(h, x) /\ Fail(h, x.r) /\ UNCHANGED <<cl, net, now, verdict, proven>>
  BY DEF AfterFailure, Asked, envVars, historyVars
<1>2. AtWork(h) /\ Follows(x.r, sess, hand[h].s, proven')
  BY <1>1, Hearing
<1> QED
  BY <1>1, <1>2, VerdictKept, FailStep DEF Tame

-----------------------------------------------------------------------------
(* The other steps of the server.                                          *)

\* Some sessions are used or forgotten, none is drawn.
Similar(q, r) ==
    /\ q \in SessRecord
    /\ q.owner = r.owner /\ q.name = r.name /\ q.inner = r.inner /\ q.lastResp = r.lastResp
    /\ q.st = r.st \/ (r.st = "live" /\ q.st = "gone")

LEMMA TableSteps ==
    ASSUME NEW tab, NEW tab2, NEW pr, NEW pr2, NEW ab, SessionsFit(tab, pr, ab), pr \subseteq pr2,
           tab2 \in [Sess -> SessRecord], \A s \in Sess : Similar(tab2[s], tab[s])
    PROVE  Steps(tab, tab2, pr2, ab) /\ Live(tab2) \subseteq Live(tab)
<1>1. \A s \in Sess : SessionFits(tab[s], s, pr, ab)
  BY DEF SessionsFit
<1>2. \A s \in Sess : SessionFits(tab2[s], s, pr2, ab)
  BY <1>1 DEF SessionFits, Similar
<1>3. Steps(tab, tab2, pr2, ab)
  BY <1>2 DEF Steps, SessionsFit, Similar
<1>4. Live(tab2) \subseteq Live(tab)
  BY DEF Live, Similar
<1> QED
  BY <1>3, <1>4

LEMMA GoneSimilar ==
    ASSUME NEW r \in SessRecord, r.st = "live"
    PROVE  Similar([r EXCEPT !.st = "gone"], r)
<1>1. [r EXCEPT !.st = "gone"] \in SessRecord
  BY DEF SessRecord
<1> QED
  BY <1>1 DEF Similar, SessRecord

LEMMA UsedSimilar ==
    ASSUME NEW r \in SessRecord, NEW q, Similar(q, r), NEW t \in Nat
    PROVE  Similar([q EXCEPT !.lastUsed = t], r)
<1>1. q \in SessRecord
  BY DEF Similar
<1>2. [q EXCEPT !.lastUsed = t] \in SessRecord
  BY <1>1 DEF SessRecord
<1> QED
  BY <1>1, <1>2 DEF Similar, SessRecord

LEMMA SweptSimilar ==
    ASSUME Fit
    PROVE  Swept \in [Sess -> SessRecord] /\ \A s \in Sess : Similar(Swept[s], sess[s])
<1>1. sess \in [Sess -> SessRecord]
  BY DEF Fit, SessionsFit
<1>2. ASSUME NEW s \in Sess
      PROVE  Swept[s] \in SessRecord /\ Similar(Swept[s], sess[s])
  <2> DEFINE r == sess[s]
             q == [r EXCEPT !.st = "gone"]
  <2>1. r \in SessRecord
    BY <1>1
  <2>2. Swept[s] = IF s \in Stored /\ Overdue(s) THEN q ELSE r
    BY DEF Swept
  <2>3. s \in Stored => r.st = "live"
    BY DEF Stored
  <2> HIDE DEF r
  <2>4. s \in Stored => Similar(q, r)
    BY <2>1, <2>3, GoneSimilar
  <2>5. Similar(r, r)
    BY <2>1 DEF Similar
  <2> HIDE DEF q
  <2>6. Similar(Swept[s], r)
    BY <2>2, <2>4, <2>5
  <2> QED
    BY <2>6 DEF Similar, r
<1> QED
  BY <1>2 DEF Swept

\* A handler with a session, whatever its packet is.
LEMMA Holding ==
    ASSUME Fit, NEW h \in Handler, hand[h].pc # "idle"
    PROVE  /\ hand[h].c \in Client /\ hand[h].p \in Packet
           /\ hand[h].s # None =>
                /\ hand[h].s \in Sess
                /\ sess[hand[h].s].owner = hand[h].c
                /\ sess[hand[h].s].st # "absent"
                /\ sess[hand[h].s] \in SessRecord
                /\ SessionFits(sess[hand[h].s], hand[h].s, proven, Able)
<1>1. HandlerFits(hand[h], sess, Owners, Able)
  BY DEF Fit, HandlersFit
<1>2. /\ hand[h].c \in Client /\ hand[h].p \in Packet /\ hand[h] \in HandRecord
      /\ PacketFits(hand[h].p, hand[h].c, Owners, Able)
      /\ hand[h].s # None => hand[h].s = hand[h].p.state
  BY <1>1 DEF HandlerFits, PacketFits
<1>3. ASSUME hand[h].s # None
      PROVE  /\ hand[h].s \in Sess
             /\ sess[hand[h].s].owner = hand[h].c
             /\ sess[hand[h].s].st # "absent"
             /\ sess[hand[h].s] \in SessRecord
             /\ SessionFits(sess[hand[h].s], hand[h].s, proven, Able)
  <2>1. hand[h].s \in Sess
    BY <1>2, <1>3 DEF HandRecord
  <2>2. sess[hand[h].s].owner = hand[h].c
    BY <1>2, <1>3, <2>1 DEF PacketFits, Owners, OwnersIn
  <2>3. SessionFits(sess[hand[h].s], hand[h].s, proven, Able)
    BY <2>1 DEF Fit, SessionsFit
  <2> QED
    BY <1>2, <2>1, <2>2, <2>3, Constants DEF SessionFits
<1> QED
  BY <1>2, <1>3

\* A challenge for the session s of the supplicant c.
LEMMA ChallengeFits ==
    ASSUME NEW c \in Client, NEW p \in Packet, NEW s \in Sess, NEW req \in Request,
           NEW own, NEW ab, NEW pr, own[s] = c, req.kind # "start" => c \in ab
    PROVE  AnswerFits([code |-> "challenge", to |-> p, state |-> s, req |-> req, name |-> None],
                      c, own, ab, pr)
BY DEF AnswerFits, Reply

LEMMA SendAgainTame ==
    ASSUME Fit, NEW h \in Handler, SendAgain(h)
    PROVE  Tame
<1> DEFINE s == hand[h].s
           c == hand[h].c
           a == [code |-> "challenge", to |-> hand[h].p, state |-> s, req |-> sess[s].lastResp,
                 name |-> None]
<1>1. /\ hand[h].pc # "idle" /\ s # None
      /\ sess' = sess /\ UNCHANGED <<cl, net, now, verdict, proven>>
  BY DEF SendAgain, SamePacket, envVars, historyVars
<1>2. hand' = [hand EXCEPT ![h] = Idle] /\ ans' = [ans EXCEPT ![c] = Append(@, a)]
  BY DEF SendAgain, Say, Done, Idle
<1>3. /\ c \in Client /\ hand[h].p \in Packet /\ s \in Sess /\ sess[s].owner = c
      /\ sess[s].st # "absent" /\ sess[s] \in SessRecord /\ SessionFits(sess[s], s, proven, Able)
  BY <1>1, Holding
<1>4. sess[s].lastResp \in Request /\ (sess[s].lastResp.kind # "start" => c \in Able)
  BY <1>3, SessionParts DEF SessionFits
<1>5. OwnersIn(sess')[s] = c
  BY <1>1, <1>3 DEF OwnersIn
<1>6. AnswerFits(a, c, OwnersIn(sess'), Able, proven')
  BY <1>3, <1>4, <1>5, ChallengeFits
<1> HIDE DEF a, c, s
<1>7. Steps(sess, sess', proven', Able)
  BY <1>1, NothingSteps
<1>8. Fit'
  BY <1>1, <1>2, <1>3, <1>6, <1>7, IdleFits, VerdictKept, ServerStep
<1> QED
  BY <1>1, <1>8 DEF Tame, Stored

LEMMA NoSuchSessionTame ==
    ASSUME Fit, NEW h \in Handler, NoSuchSession(h)
    PROVE  Tame
<1>1. hand[h].pc # "idle" /\ Reject(h) /\ sess' = sess /\ UNCHANGED <<cl, net, now, verdict, proven>>
  BY DEF NoSuchSession, Tunnelled, NewPacket, envVars, historyVars
<1>2. Steps(sess, sess', proven', Able)
  BY <1>1, NothingSteps
<1> QED
  BY <1>1, <1>2, VerdictKept, RejectStep DEF Tame

LEMMA EngineTame ==
    ASSUME Fit, NEW s \in Sess, Engine(s)
    PROVE  Tame
<1> DEFINE q == Worked(sess[s])
<1>1. sess' = [sess EXCEPT ![s] = q] /\ UNCHANGED <<hand, ans, cl, net, now, verdict, proven>>
  BY DEF Engine, envVars, historyVars
<1>2. sess \in [Sess -> SessRecord]
  BY DEF Fit, SessionsFit
<1>3. Similar(q, sess[s]) /\ q \in SessRecord
  BY <1>2, WorkedFits DEF Alike, Similar
<1> HIDE DEF q
<1>4. sess' \in [Sess -> SessRecord] /\ \A t \in Sess : Similar(sess'[t], sess[t])
  BY <1>1, <1>2, <1>3 DEF Similar
<1>5. Steps(sess, sess', proven', Able) /\ Live(sess') \subseteq Live(sess)
  BY <1>1, <1>4, TableSteps DEF Fit
<1>6. Fit'
  BY <1>1, <1>5, VerdictKept, ServerStep
<1> QED
  BY <1>5, <1>6 DEF Tame, Stored, Live

LEMMA NakTame ==
    ASSUME Fit, NEW h \in Handler, Nak(h)
    PROVE  Tame
<1> DEFINE s == hand[h].s
           c == hand[h].c
           start == [id |-> NextId(hand[h].p.id), kind |-> "start", proto |-> "ttls",
                     no |-> 0, said |-> "more"]
           id2 == NextId(NextId(hand[h].p.id))
           r == sess[s]
           q == [r EXCEPT !.proto = "ttls", !.lastReq = hand[h].p, !.reqID = id2, !.lastResp = start]
           a == [code |-> "challenge", to |-> hand[h].p, state |-> s, req |-> start, name |-> None]
<1>1. hand[h].pc # "idle" /\ UNCHANGED <<cl, net, now, proven>>
  BY DEF Nak, NewPacket, envVars
<1>2. c \in Client /\ hand[h].p \in Packet
  BY <1>1, Holding
<1>3. CASE s # None /\ sess[s].proto = "peap" /\ hand[h].p.wants = "ttls"
  <2>1. /\ sess' = [sess EXCEPT ![s].proto = "ttls", ![s].lastReq = hand[h].p,
                                ![s].reqID = id2, ![s].lastResp = start]
        /\ hand' = [hand EXCEPT ![h] = Idle] /\ ans' = [ans EXCEPT ![c] = Append(@, a)]
        /\ UNCHANGED verdict
    BY <1>3 DEF Nak, Say, Done, Idle
  <2>2. /\ s \in Sess /\ r.owner = c /\ r.st # "absent" /\ r \in SessRecord
        /\ SessionFits(r, s, proven, Able) /\ sess \in [Sess -> SessRecord]
    BY <1>1, <1>3, Holding DEF Fit, SessionsFit
  <2>3. sess' = [sess EXCEPT ![s] = q]
    BY <2>1, <2>2
  <2>4. hand[h].p.id \in Id
    BY <1>2 DEF Packet
  <2>5. start \in Request /\ start.kind = "start" /\ id2 \in Id
    BY <2>4, Constants DEF Request, Said
  <2> HIDE DEF start, id2, r
  <2>6. q \in SessRecord
    BY <1>2, <2>2, <2>5 DEF SessRecord
  <2>7. q.st = r.st /\ q.owner = r.owner /\ q.name = r.name /\ q.inner = r.inner /\ q.lastResp = start
    BY <2>2 DEF SessRecord
  <2> HIDE DEF q
  <2>8. SessionFits(q, s, proven', Able)
    BY <1>1, <2>2, <2>5, <2>6, <2>7 DEF SessionFits
  <2>9. SessionsFit(sess, proven, Able)
    BY DEF Fit
  <2>10. Steps(sess, sess', proven', Able) /\ Live(sess') \subseteq Live(sess)
    BY <1>1, <2>2, <2>3, <2>7, <2>8, <2>9, OneSession DEF r
  <2>11. OwnersIn(sess')[s] = c
    BY <1>2, <2>2, <2>10, Constants DEF Steps, OwnersIn, r
  <2>12. AnswerFits(a, c, OwnersIn(sess'), Able, proven')
    BY <1>2, <2>2, <2>5, <2>11, ChallengeFits
  <2> HIDE DEF a, c
  <2>13. Fit'
    BY <1>1, <1>2, <2>1, <2>10, <2>12, IdleFits, VerdictKept, ServerStep
  <2> QED
    BY <2>10, <2>13 DEF Tame, Stored, Live
<1>4. CASE ~(s # None /\ sess[s].proto = "peap" /\ hand[h].p.wants = "ttls")
  <2>1. /\ Reject(h) /\ sess' = sess
        /\ verdict' = [verdict EXCEPT ![c] = IF @ = "none" THEN "no" ELSE @]
    BY <1>4 DEF Nak
  <2>2. verdict' \in [Client -> {"none", "yes", "no", "full"}]
    BY <2>1 DEF Fit
  <2>3. Steps(sess, sess', proven', Able)
    BY <1>1, <2>1, NothingSteps
  <2> QED
    BY <1>1, <2>1, <2>2, <2>3, RejectStep DEF Tame
<1> QED
  BY <1>3, <1>4

\* What create writes.
Drawn(h, start) ==
    [NoSession EXCEPT !.st = "live", !.owner = hand[h].c,
        !.reqID = NextId(NextId(hand[h].p.id)), !.name = Anon,
        !.lastReq = hand[h].p, !.lastResp = start, !.lastUsed = now]

LEMMA DrawnFits ==
    ASSUME NEW h, hand[h].c \in Client, hand[h].p \in Packet, now \in Nat,
           NEW start \in Request, start.kind = "start", NEW s, NEW pr, NEW ab
    PROVE  LET q == Drawn(h, start) IN
           SessionFits(q, s, pr, ab) /\ q.owner = hand[h].c /\ q.st = "live"
<1> DEFINE n == NoSession
           q == [n EXCEPT !.st = "live", !.owner = hand[h].c, !.reqID = NextId(NextId(hand[h].p.id)),
                          !.name = Anon, !.lastReq = hand[h].p, !.lastResp = start, !.lastUsed = now]
<1>1. NextId(NextId(hand[h].p.id)) \in Id
  BY Constants DEF Packet
<1>2. n \in SessRecord /\ n.inner = "challenge"
  BY EmptySeq, Constants DEF SessRecord, NoSession
<1>3. Drawn(h, start) = q
  BY DEF Drawn
<1> HIDE DEF n
<1>4. q \in SessRecord
  BY <1>1, <1>2 DEF SessRecord
<1>5. q.owner = hand[h].c /\ q.st = "live" /\ q.inner = "challenge" /\ q.lastResp = start
  BY <1>2 DEF SessRecord
<1> HIDE DEF q
<1>6. SessionFits(q, s, pr, ab)
  BY <1>4, <1>5 DEF SessionFits
<1> QED
  BY <1>3, <1>5, <1>6

LEMMA KeptCounted ==
    ASSUME Capped
    PROVE  /\ IsFiniteSet(Kept) /\ Cardinality(Kept) \in Nat /\ Cardinality(Kept) <= Cap
           /\ Kept \subseteq Stored
<1>1. Kept \in SUBSET Stored /\ IsFiniteSet(Stored)
  BY DEF Kept, Capped
<1>2. IsFiniteSet(Kept) /\ Cardinality(Kept) <= Cardinality(Stored)
  BY <1>1, FS_Subset
<1>3. Cardinality(Kept) \in Nat /\ Cardinality(Stored) \in Nat /\ Cap \in Nat
  BY <1>1, <1>2, FS_CardinalityType, EapAssumption
<1> QED
  BY <1>1, <1>2, <1>3 DEF Capped

\* A new session: into a store with room, or in the place of a victim.
LEMMA IdentityTame ==
    ASSUME EInv, NEW h \in Handler, Identity(h)
    PROVE  EInv'
<1> DEFINE c == hand[h].c
           full == Cardinality(Kept) >= Cap
           start == [id |-> NextId(hand[h].p.id), kind |-> "start", proto |-> "peap",
                     no |-> 0, said |-> "more"]
<1>1. /\ Fit /\ Capped /\ hand[h].pc # "idle" /\ UNCHANGED <<cl, net, now, proven>>
      /\ SessionsFit(sess, proven, Able) /\ now \in Nat
  BY DEF Identity, NewPacket, envVars, EInv, Fit
<1>2. c \in Client /\ hand[h].p \in Packet
  BY <1>1, Holding
<1>3. Swept \in [Sess -> SessRecord] /\ \A s \in Sess : Similar(Swept[s], sess[s])
  BY <1>1, SweptSimilar
<1>4. /\ IsFiniteSet(Kept) /\ Cardinality(Kept) \in Nat /\ Cardinality(Kept) <= Cap
      /\ Kept \subseteq Stored /\ Cap \in Nat
  BY <1>1, KeptCounted, EapAssumption
<1>5. start \in Request /\ start.kind = "start"
  BY <1>2, Constants DEF Request, Said, Packet
<1>6. CASE /\ sess' = Swept /\ Reject(h)
           /\ verdict' = [verdict EXCEPT ![c] = IF @ = "none" THEN "full" ELSE @]
  <2>1. verdict' \in [Client -> {"none", "yes", "no", "full"}]
    BY <1>1, <1>6 DEF Fit
  <2>2. Steps(sess, sess', proven', Able) /\ Live(sess') \subseteq Live(sess)
    BY <1>1, <1>3, <1>6, TableSteps
  <2>3. Fit' /\ Stored' \subseteq Stored
    BY <1>1, <1>6, <2>1, <2>2, RejectStep
  <2>4. Stored' \in SUBSET Stored /\ IsFiniteSet(Stored)
    BY <1>1, <2>3 DEF Capped
  <2>5. IsFiniteSet(Stored') /\ Cardinality(Stored') <= Cardinality(Stored)
    BY <2>4, FS_Subset
  <2>6. Cardinality(Stored') \in Nat /\ Cardinality(Stored) \in Nat
    BY <2>4, <2>5, FS_CardinalityType
  <2> QED
    BY <1>1, <1>4, <2>3, <2>5, <2>6 DEF EInv, Capped
<1>7. ASSUME NEW s \in Sess, sess[s].st = "absent",
             NEW gone \in (IF full THEN {{v} : v \in Victims} ELSE {{}}),
             sess' = [x \in Sess |-> IF x = s THEN Drawn(h, start)
                                     ELSE IF x \in gone THEN [sess[x] EXCEPT !.st = "gone"]
                                     ELSE Swept[x]],
             Say(h, "challenge", s, start, None), Done(h), UNCHANGED verdict
      PROVE  EInv'
  <2> DEFINE a == [code |-> "challenge", to |-> hand[h].p, state |-> s, req |-> start, name |-> None]
             q == Drawn(h, start)
  <2>1. SessionFits(q, s, proven', Able) /\ q \in SessRecord /\ q.owner = c /\ q.st = "live"
    BY <1>1, <1>2, <1>5, DrawnFits DEF SessionFits
  <2>2. gone \subseteq Kept
    BY <1>7 DEF Victims, Oldest
  <2>3. sess[s].owner = None /\ s \notin Kept
    BY <1>1, <1>7 DEF SessionsFit, SessionFits, Kept, Stored
  <2> HIDE DEF q
  <2>4. sess' = [x \in Sess |-> IF x = s THEN q
                                ELSE IF x \in gone THEN [sess[x] EXCEPT !.st = "gone"] ELSE Swept[x]]
    BY <1>7 DEF q
  <2>5. ASSUME NEW x \in Sess, x # s
        PROVE  sess'[x] \in SessRecord /\ Similar(sess'[x], sess[x])
    <3> DEFINE r == sess[x]
               g == [r EXCEPT !.st = "gone"]
    <3>1. r \in SessRecord
      BY <1>1 DEF SessionsFit
    <3>2. x \in gone => r.st = "live"
      BY <2>2 DEF Kept, Stored
    <3>3. sess'[x] = IF x \in gone THEN g ELSE Swept[x]
      BY <2>4, <2>5
    <3> HIDE DEF r
    <3>4. x \in gone => Similar(g, r)
      BY <3>1, <3>2, GoneSimilar
    <3> HIDE DEF g
    <3>5. Similar(sess'[x], r)
      BY <1>3, <3>3, <3>4 DEF r
    <3> QED
      BY <3>5 DEF Similar, r
  <2>6. sess'[s] = q
    BY <2>4
  <2>7. sess' \in [Sess -> SessRecord]
    <3>1. \A x \in Sess : sess'[x] \in SessRecord
      BY <2>1, <2>5, <2>6
    <3>2. sess' = [x \in Sess |-> sess'[x]]
      BY <2>4
    <3> QED
      BY <3>1, <3>2
  <2>8. Steps(sess, sess', proven', Able)
    <3>1. ASSUME NEW x \in Sess PROVE SessionFits(sess'[x], x, proven', Able)
      <4>1. CASE x = s
        BY <2>1, <2>6, <4>1
      <4>2. CASE x # s
        <5>1. SessionFits(sess[x], x, proven, Able) /\ Similar(sess'[x], sess[x])
          BY <1>1, <2>5, <4>2 DEF SessionsFit
        <5> QED
          BY <1>1, <5>1 DEF SessionFits, Similar
      <4> QED
        BY <4>1, <4>2
    <3>2. \A x \in Sess : sess[x].owner # None =>
            sess'[x].owner = sess[x].owner /\ sess'[x].name \in {sess[x].name, sess[x].owner}
      BY <2>3, <2>5 DEF Similar
    <3> QED
      BY <2>7, <3>1, <3>2 DEF Steps, SessionsFit
  <2>9. OwnersIn(sess')[s] = c
    BY <2>1, <2>6 DEF OwnersIn
  <2>10. AnswerFits(a, c, OwnersIn(sess'), Able, proven')
    BY <1>2, <1>5, <2>9, ChallengeFits
  <2>11. hand' = [hand EXCEPT ![h] = Idle] /\ ans' = [ans EXCEPT ![c] = Append(@, a)]
    BY <1>7 DEF Say, Done, Idle
  <2> HIDE DEF a
  <2>12. Fit'
    BY <1>1, <1>2, <1>7, <2>8, <2>10, <2>11, IdleFits, VerdictKept, ServerStep
  <2>13. Stored' \subseteq (Kept \ gone) \cup {s}
    <3> SUFFICES ASSUME NEW x \in Sess, sess'[x].st = "live", x # s
                 PROVE  x \in Kept /\ x \notin gone
      BY DEF Stored
    <3>1. x \notin gone
      <4> SUFFICES ASSUME x \in gone PROVE FALSE
        OBVIOUS
      <4>1. sess[x] \in SessRecord /\ sess'[x] = [sess[x] EXCEPT !.st = "gone"]
        BY <1>1, <2>4 DEF SessionsFit
      <4> QED
        BY <4>1 DEF SessRecord
    <3>2. sess'[x] = Swept[x] /\ sess[x] \in SessRecord
      BY <1>1, <2>4, <3>1 DEF SessionsFit
    <3>3. CASE x \in Stored /\ Overdue(x)
      <4>1. sess'[x] = [sess[x] EXCEPT !.st = "gone"]
        BY <3>2, <3>3 DEF Swept
      <4> QED
        BY <3>2, <4>1 DEF SessRecord
    <3>4. CASE ~(x \in Stored /\ Overdue(x))
      <4>1. sess'[x] = sess[x]
        BY <3>2, <3>4 DEF Swept
      <4> QED
        BY <3>1, <3>4, <4>1 DEF Stored, Kept
    <3> QED
      BY <3>3, <3>4
  <2>14. IsFiniteSet(Kept \ gone) /\ Cardinality(Kept \ gone) \in Nat /\ Cardinality(Kept \ gone) + 1 <= Cap
    <3>1. CASE full
      <4>1. PICK v \in Victims : gone = {v}
        BY <3>1
      <4>2. v \in Kept
        BY <2>2, <4>1
      <4>3. IsFiniteSet(Kept \ {v}) /\ Cardinality(Kept \ {v}) = Cardinality(Kept) - 1
        BY <1>4, <4>2, FS_RemoveElement
      <4>4. Cardinality(Kept \ {v}) \in Nat
        BY <4>3, FS_CardinalityType
      <4> QED
        BY <1>4, <4>1, <4>3, <4>4
    <3>2. CASE ~full
      <4>1. Kept \ gone = Kept
        BY <3>2
      <4> QED
        BY <1>4, <3>2, <4>1
    <3> QED
      BY <3>1, <3>2
  <2>15. /\ IsFiniteSet((Kept \ gone) \cup {s})
         /\ Cardinality((Kept \ gone) \cup {s}) = Cardinality(Kept \ gone) + 1
    BY <2>3, <2>14, FS_AddElement
  <2>16. IsFiniteSet(Stored') /\ Cardinality(Stored') <= Cardinality((Kept \ gone) \cup {s})
    BY <2>13, <2>15, FS_Subset
  <2>17. Cardinality(Stored') \in Nat
    BY <2>16, FS_CardinalityType
  <2> QED
    BY <1>4, <2>12, <2>14, <2>15, <2>16, <2>17 DEF EInv, Capped
<1>8. \/ /\ sess' = Swept /\ Reject(h)
         /\ verdict' = [verdict EXCEPT ![c] = IF @ = "none" THEN "full" ELSE @]
      \/ \E s \in {x \in Sess : sess[x].st = "absent"} :
         \E gone \in (IF full THEN {{v} : v \in Victims} ELSE {{}}) :
           /\ sess' = [x \in Sess |-> IF x = s THEN Drawn(h, start)
                                      ELSE IF x \in gone THEN [sess[x] EXCEPT !.st = "gone"]
                                      ELSE Swept[x]]
           /\ Say(h, "challenge", s, start, None) /\ Done(h) /\ UNCHANGED verdict
  BY Zenon DEF Identity, Drawn
<1> HIDE DEF full, start, c
<1> QED
  BY <1>6, <1>7, <1>8

\* A packet reaches a handler: it belongs to the supplicant, and so does the
\* session its State names.
LEMMA DeliverTame ==
    ASSUME Fit, NEW h \in Handler, NEW c \in Client, NEW p \in net[c], NEW keep \in BOOLEAN,
           Deliver(h, c, p, keep)
    PROVE  Tame
<1> DEFINE s == IF p.state \in Kept THEN p.state ELSE None
           g == [pc |-> "step", c |-> c, s |-> s, p |-> p, deadline |-> 0]
<1>1. /\ hand' = [hand EXCEPT ![h] = g] /\ UNCHANGED <<cl, ans, now, verdict, proven>>
      /\ net' = [net EXCEPT ![c] = IF keep THEN @ ELSE @ \ {p}]
  BY DEF Deliver
<1>2. sess' = IF p.state = None THEN sess
              ELSE IF s = None THEN Swept ELSE [Swept EXCEPT ![s].lastUsed = now]
  BY DEF Deliver
<1>3. PacketFits(p, c, Owners, Able) /\ p \in Packet
  BY DEF Fit, PacketsFit, PacketFits
<1>4. s \in Sess \cup {None} /\ (s # None => s = p.state)
  BY <1>3 DEF Packet, Kept, Stored
<1>5. /\ SessionsFit(sess, proven, Able) /\ sess \in [Sess -> SessRecord] /\ now \in Nat
      /\ Swept \in [Sess -> SessRecord] /\ \A t \in Sess : Similar(Swept[t], sess[t])
  BY SweptSimilar DEF Fit, SessionsFit
<1> HIDE DEF s
<1>6. Steps(sess, sess', proven', Able) /\ Live(sess') \subseteq Live(sess)
  <2>1. CASE sess' = sess
    <3>1. Steps(sess, sess', proven', Able)
      BY <1>1, <2>1, NothingSteps
    <3> QED
      BY <2>1, <3>1
  <2>2. CASE sess' = Swept
    BY <1>1, <1>5, <2>2, TableSteps
  <2>3. CASE s # None /\ sess' = [Swept EXCEPT ![s].lastUsed = now]
    <3> DEFINE r == Swept[s]
               q == [r EXCEPT !.lastUsed = now]
    <3>1. s \in Sess /\ sess' = [Swept EXCEPT ![s] = q]
      BY <1>4, <2>3
    <3>2. Similar(r, sess[s]) /\ sess[s] \in SessRecord
      BY <1>5, <3>1
    <3> HIDE DEF r
    <3>3. Similar(q, sess[s])
      BY <1>5, <3>2, UsedSimilar
    <3>4. q \in SessRecord
      BY <3>3 DEF Similar
    <3> HIDE DEF q
    <3>5. sess' \in [Sess -> SessRecord] /\ \A t \in Sess : Similar(sess'[t], sess[t])
      BY <1>5, <3>1, <3>3, <3>4
    <3> QED
      BY <1>1, <1>5, <3>5, TableSteps
  <2> QED
    BY <1>2, <2>1, <2>2, <2>3
<1>7. PacketFits(p, c, OwnersIn(sess'), Able)
  BY <1>3, <1>6, StepsGrow, PacketKept DEF Owners
<1>8. g \in HandRecord
  BY <1>3, <1>4 DEF HandRecord
<1>9. HandlerFits(g, sess', OwnersIn(sess'), Able)
  BY <1>4, <1>7, <1>8 DEF HandlerFits
<1> HIDE DEF g
<1>10. net' \in [Client -> SUBSET Packet] /\ \A d \in Client : net'[d] \subseteq net[d]
  BY <1>1 DEF Fit, PacketsFit
<1>11. Fit'
  BY <1>1, <1>6, <1>9, <1>10, VerdictKept, MoveStep
<1> QED
  BY <1>6, <1>11 DEF Tame, Stored, Live

-----------------------------------------------------------------------------
(* The supplicant, the network and the time.                               *)

LEMMA ClientStep ==
    ASSUME Fit, UNCHANGED <<sess, hand, verdict, proven>>, now' \in Nat,
           \/ cl' = cl
           \/ \E c \in Client : \E k : /\ cl' = [cl EXCEPT ![c] = k] /\ k.wants = cl[c].wants
                                       /\ ClientFits(k, c, Owners, Able),
           net' \in [Client -> SUBSET Packet],
           \A c \in Client : \A p \in net'[c] : p \in net[c] \/ PacketFits(p, c, Owners, Able),
           ans' = ans \/ \E c \in Client : ans[c] # <<>> /\ ans' = [ans EXCEPT ![c] = Tail(@)]
    PROVE  Tame
<1>1. cl \in [Client -> ClientRecord] /\ \A c \in Client : ClientFits(cl[c], c, Owners, Able)
  BY DEF Fit, ClientsFit
<1>2. Owners' = Owners
  BY DEF Owners
<1>3. Able' = Able
  BY <1>1 DEF Able
<1>4. ClientsFit(cl', Owners, Able)
  <2>1. CASE cl' = cl
    BY <1>1, <2>1 DEF ClientsFit
  <2>2. ASSUME NEW c \in Client, NEW k, cl' = [cl EXCEPT ![c] = k], ClientFits(k, c, Owners, Able)
        PROVE  ClientsFit(cl', Owners, Able)
    <3>1. k \in ClientRecord
      BY <2>2 DEF ClientFits
    <3> QED
      BY <1>1, <2>2, <3>1 DEF ClientsFit
  <2> QED
    BY <2>1, <2>2
<1>5. PacketsFit(net', Owners, Able)
  BY DEF Fit, PacketsFit
<1>6. AnswersFit(ans', Owners, Able, proven)
  <2>1. /\ ans \in [Client -> Seq(Reply)]
        /\ \A c \in Client : \A i \in 1..Len(ans[c]) : AnswerFits(ans[c][i], c, Owners, Able, proven)
    BY DEF Fit, AnswersFit
  <2>2. CASE ans' = ans
    BY <2>1, <2>2 DEF AnswersFit
  <2>3. ASSUME NEW c \in Client, ans[c] # <<>>, ans' = [ans EXCEPT ![c] = Tail(@)]
        PROVE  AnswersFit(ans', Owners, Able, proven)
    <3>1. /\ ans[c] \in Seq(Reply) /\ Tail(ans[c]) \in Seq(Reply) /\ Len(ans[c]) \in Nat
          /\ Len(Tail(ans[c])) = Len(ans[c]) - 1
          /\ \A i \in 1..Len(Tail(ans[c])) : Tail(ans[c])[i] = ans[c][i + 1]
      BY <2>1, <2>3, HeadTailProperties, LenProperties
    <3>2. ans' \in [Client -> Seq(Reply)]
      BY <2>1, <2>3, <3>1
    <3>3. ASSUME NEW d \in Client, NEW i \in 1..Len(ans'[d])
          PROVE  AnswerFits(ans'[d][i], d, Owners, Able, proven)
      <4>1. CASE d # c
        BY <2>1, <2>3, <4>1
      <4>2. CASE d = c
        <5>1. ans'[d] = Tail(ans[c])
          BY <2>1, <2>3, <4>2
        <5>2. i \in 1..Len(Tail(ans[c])) /\ i + 1 \in 1..Len(ans[c])
          BY <3>1, <5>1
        <5> QED
          BY <2>1, <3>1, <4>2, <5>1, <5>2
      <4> QED
        BY <4>1, <4>2
    <3> QED
      BY <3>2, <3>3 DEF AnswersFit
  <2> QED
    BY <2>2, <2>3
<1>7. Fit'
  BY <1>2, <1>3, <1>4, <1>5, <1>6 DEF Fit
<1> QED
  BY <1>7 DEF Tame, Stored

LEMMA NetKept ==
    ASSUME Fit
    PROVE  net' = net => /\ net' \in [Client -> SUBSET Packet]
                         /\ \A c \in Client : \A p \in net'[c] : p \in net[c] \/ PacketFits(p, c, Owners, Able)
BY DEF Fit, PacketsFit

LEMMA LoseRequestTame ==
    ASSUME Fit, NEW c \in Client, NEW p \in net[c], LoseRequest(c, p)
    PROVE  Tame
<1>1. UNCHANGED <<sess, hand, now, verdict, proven, cl, ans>> /\ net' = [net EXCEPT ![c] = @ \ {p}]
  BY DEF LoseRequest, serverVars
<1>2. net' \in [Client -> SUBSET Packet] /\ \A d \in Client : net'[d] \subseteq net[d]
  BY <1>1 DEF Fit, PacketsFit
<1> QED
  BY <1>1, <1>2, ClientStep DEF Fit

LEMMA LoseAnswerTame ==
    ASSUME Fit, NEW c \in Client, LoseAnswer(c)
    PROVE  Tame
<1>1. /\ UNCHANGED <<sess, hand, now, verdict, proven, cl, net>>
      /\ ans[c] # <<>> /\ ans' = [ans EXCEPT ![c] = Tail(@)]
  BY DEF LoseAnswer, serverVars
<1> QED
  BY <1>1, NetKept, ClientStep DEF Fit

LEMMA TickTame ==
    ASSUME Fit, Tick
    PROVE  Tame
<1>1. UNCHANGED <<sess, hand, verdict, proven, cl, net, ans>> /\ now' = now + 1
  BY DEF Tick
<1>2. now' \in Nat
  BY <1>1 DEF Fit
<1> QED
  BY <1>1, <1>2, NetKept, ClientStep

\* A packet added to the network.
LEMMA NetGrows ==
    ASSUME Fit, NEW c \in Client, NEW p, PacketFits(p, c, Owners, Able), NEW t,
           t \subseteq net[c], net' = [net EXCEPT ![c] = t \cup {p}]
    PROVE  /\ net' \in [Client -> SUBSET Packet]
           /\ \A d \in Client : \A x \in net'[d] : x \in net[d] \/ PacketFits(x, d, Owners, Able)
<1>1. p \in Packet /\ net \in [Client -> SUBSET Packet]
  BY DEF PacketFits, Fit, PacketsFit
<1>2. t \cup {p} \in SUBSET Packet
  BY <1>1
<1> QED
  BY <1>1, <1>2

LEMMA RetransmitTame ==
    ASSUME Fit, NEW c \in Client, Retransmit(c)
    PROVE  Tame
<1>1. /\ UNCHANGED <<sess, hand, now, verdict, proven, cl, ans>> /\ cl[c].pc = "await"
      /\ net' = [net EXCEPT ![c] = net[c] \cup {cl[c].cur}]
  BY DEF Retransmit, serverVars, Fit, PacketsFit
<1>2. PacketFits(cl[c].cur, c, Owners, Able)
  BY <1>1 DEF Fit, ClientsFit, ClientFits
<1>3. /\ net' \in [Client -> SUBSET Packet]
      /\ \A d \in Client : \A x \in net'[d] : x \in net[d] \/ PacketFits(x, d, Owners, Able)
  BY <1>1, <1>2, NetGrows
<1> QED
  BY <1>1, <1>3, ClientStep DEF Fit

\* The supplicant sends p under the State it has.
LEMMA PutFits ==
    ASSUME Fit, NEW c \in Client, NEW p, PacketFits(p, c, Owners, Able), NEW upd \in ClientRecord,
           upd.state # None => Owners[upd.state] = c, upd.wants = cl[c].wants, Put(c, p, upd),
           UNCHANGED <<sess, hand, now, verdict, proven>>,
           ans' = ans \/ (ans[c] # <<>> /\ ans' = [ans EXCEPT ![c] = Tail(@)])
    PROVE  Tame
<1> DEFINE k == [upd EXCEPT !.cur = p]
           t == IF spent.late < MaxLate THEN net[c] ELSE {}
<1>1. p \in Packet
  BY DEF PacketFits
<1>2. k \in ClientRecord
  BY <1>1 DEF ClientRecord
<1>3. k.cur = p /\ k.state = upd.state /\ k.wants = cl[c].wants
  BY DEF ClientRecord
<1>4. cl' = [cl EXCEPT ![c] = k] /\ net' = [net EXCEPT ![c] = t \cup {p}]
  BY DEF Put, Fit, PacketsFit
<1> HIDE DEF k
<1>5. ClientFits(k, c, Owners, Able)
  BY <1>2, <1>3 DEF ClientFits
<1>6. t \subseteq net[c]
  OBVIOUS
<1> HIDE DEF t
<1>7. /\ net' \in [Client -> SUBSET Packet]
      /\ \A d \in Client : \A x \in net'[d] : x \in net[d] \/ PacketFits(x, d, Owners, Able)
  BY <1>4, <1>6, NetGrows
<1> QED
  BY <1>3, <1>4, <1>5, <1>7, ClientStep DEF Fit

LEMMA StartTame ==
    ASSUME Fit, NEW c \in Client, Start(c)
    PROVE  Tame
<1> DEFINE p == [state |-> None, id |-> 0, type |-> "identity", body |-> Empty, wants |-> cl[c].wants]
           k == cl[c]
           upd == [k EXCEPT !.pc = "await"]
<1>1. Put(c, p, upd) /\ UNCHANGED <<sess, hand, now, verdict, proven, ans>>
  BY DEF Start, serverVars
<1>2. ClientFits(k, c, Owners, Able) /\ k \in ClientRecord
  BY DEF Fit, ClientsFit, ClientFits
<1>3. PacketFits(p, c, Owners, Able)
  BY <1>2, Constants DEF PacketFits, Packet, ClientRecord
<1>4. k.state # None => Owners[k.state] = c
  BY <1>2 DEF ClientFits
<1> HIDE DEF k, p
<1>5. upd \in ClientRecord /\ upd.state = k.state /\ upd.wants = k.wants
  BY <1>2 DEF ClientRecord
<1> HIDE DEF upd
<1> QED
  BY <1>1, <1>3, <1>4, <1>5, PutFits DEF k

LEMMA WholeFits ==
    ASSUME Fit, NEW c \in Client, NEW word \in Word
    PROVE  /\ Whole(c, word) \in Message
           /\ [Whole(c, word) EXCEPT !.part = "first"] \in Message
           /\ [Whole(c, word) EXCEPT !.part = "last"] \in Message
           /\ [Whole(c, word) EXCEPT !.n = @ + 1] \in Message
<1>1. cl[c].sent \in Nat
  BY DEF Fit, ClientsFit, ClientRecord
<1>2. cl[c].sent + 1 \in Nat /\ cl[c].sent + 1 + 1 \in Nat
  BY <1>1
<1> QED
  BY <1>2 DEF Whole, Message

LEMMA OneOrTwo ==
    ASSUME NEW S, NEW a \in S, NEW b \in S
    PROVE  <<a>> \in Seq(S) /\ <<a, b>> \in Seq(S) /\ <<>> \in Seq(S)
OBVIOUS

\* What a supplicant says consists of messages.
LEMMA WordsFit ==
    ASSUME Fit, NEW c \in Client, NEW req \in Request, NEW w \in Words(c, req)
    PROVE  w \in Seq(Message)
<1>1. \A word \in Word : /\ Whole(c, word) \in Message
                         /\ [Whole(c, word) EXCEPT !.part = "first"] \in Message
                         /\ [Whole(c, word) EXCEPT !.part = "last"] \in Message
                         /\ [Whole(c, word) EXCEPT !.n = @ + 1] \in Message
  BY WholeFits
<1>2. \A word \in Word : <<Whole(c, word)>> \in Seq(Message)
  BY <1>1, OneOrTwo
<1>3. <<>> \in Seq(Message)
  BY EmptySeq
<1>4. <<[Whole(c, "finish") EXCEPT !.part = "first"],
        [Whole(c, "finish") EXCEPT !.part = "last"]>> \in Seq(Message)
  BY <1>1, OneOrTwo DEF Word
<1>5. Next2(c, "half", "pap") \in Seq(Message)
  BY <1>1, OneOrTwo DEF Word, Next2
<1>6. cl[c].rest \in Seq(Message)
  BY DEF Fit, ClientsFit, ClientRecord
<1>7. req.kind \in {"start", "data", "ack"} /\ req.said \in Said
  BY DEF Request
<1>8. "hello" \in Word /\ "finish" \in Word /\ "pap" \in Word /\ "resp" \in Word
      /\ "identity" \in Word /\ "ok" \in Word /\ "tlv" \in Word /\ "failack" \in Word
  BY DEF Word
<1>9. CASE req.kind = "ack"
  BY <1>6, <1>9 DEF Words
<1>10. CASE req.kind = "start"
  BY <1>2, <1>8, <1>10 DEF Words
<1>11. ASSUME w \in Replies(c, req.said)
       PROVE  w \in Seq(Message)
  <2>1. CASE req.said = "more"
    BY <1>3, <1>11, <2>1 DEF Replies
  <2>2. CASE req.said = "flight"
    BY <1>2, <1>4, <1>8, <1>11, <2>2 DEF Replies
  <2>3. CASE req.said = "finish"
    BY <1>2, <1>3, <1>5, <1>8, <1>11, <2>3 DEF Replies
  <2>4. CASE req.said = "chal"
    BY <1>2, <1>8, <1>11, <2>4 DEF Replies
  <2>5. CASE req.said = "success"
    BY <1>2, <1>8, <1>11, <2>5 DEF Replies
  <2>6. CASE req.said = "tlv"
    BY <1>2, <1>8, <1>11, <2>6 DEF Replies
  <2>7. CASE req.said = "fail"
    BY <1>2, <1>8, <1>11, <2>7 DEF Replies
  <2> QED
    BY <1>7, <2>1, <2>2, <2>3, <2>4, <2>5, <2>6, <2>7 DEF Said
<1> QED
  BY <1>7, <1>9, <1>10, <1>11 DEF Words

\* The answer to a request goes out under the State of the request.
LEMMA AnswerSent ==
    ASSUME Fit, NEW c \in Client, ans[c] # <<>>, NEW type \in {"nak", "peap", "ttls"},
           Head(ans[c]).code = "challenge", type \in {"peap", "ttls"} => c \in Able,
           NEW body \in Message
    PROVE  PacketFits([state |-> Head(ans[c]).state, id |-> Head(ans[c]).req.id, type |-> type,
                       body |-> body, wants |-> cl[c].wants], c, Owners, Able)
<1>1. ans[c] \in Seq(Reply) /\ Len(ans[c]) \in Nat /\ Len(ans[c]) # 0
  BY LenProperties, EmptySeq DEF Fit, AnswersFit
<1>2. Head(ans[c]) = ans[c][1] /\ 1 \in 1..Len(ans[c])
  BY <1>1
<1>3. AnswerFits(Head(ans[c]), c, Owners, Able, proven)
  BY <1>2 DEF Fit, AnswersFit
<1>4. /\ Head(ans[c]).state \in Sess \cup {None} /\ Head(ans[c]).req.id \in Id
      /\ cl[c].wants \in {"peap", "ttls", "other"}
      /\ Head(ans[c]).state # None => Owners[Head(ans[c]).state] = c
  BY <1>3 DEF AnswerFits, Reply, Request, Fit, ClientsFit, ClientRecord
<1> QED
  BY <1>4 DEF PacketFits, Packet

LEMMA HearTame ==
    ASSUME Fit, NEW c \in Client, Hear(c)
    PROVE  Tame
<1> DEFINE a == Head(ans[c])
           req == a.req
           k == cl[c]
           pkt(type, body) == [state |-> a.state, id |-> req.id, type |-> type, body |-> body,
                               wants |-> cl[c].wants]
           got == IF req.kind = "data" THEN k.got + 1 ELSE k.got
           upd(w) == [k EXCEPT !.got = got,
                               !.sent = IF w # <<>> /\ Head(w).part # "first" THEN Head(w).n ELSE @,
                               !.rest = IF w = <<>> THEN <<>> ELSE Tail(w)]
<1>1. /\ ans[c] # <<>> /\ ans' = [ans EXCEPT ![c] = Tail(@)]
      /\ UNCHANGED <<sess, hand, now, verdict, proven>>
  BY DEF Hear, serverVars
<1>2. ans[c] \in Seq(Reply) /\ Len(ans[c]) \in Nat /\ Len(ans[c]) # 0
  BY <1>1, LenProperties, EmptySeq DEF Fit, AnswersFit
<1>3. a = ans[c][1] /\ 1 \in 1..Len(ans[c])
  BY <1>2
<1>4. AnswerFits(a, c, Owners, Able, proven)
  BY <1>3 DEF Fit, AnswersFit
<1>5. /\ a \in Reply /\ req \in Request /\ req.id \in Id /\ a.state \in Sess \cup {None}
      /\ req.kind \in {"start", "data", "ack"} /\ req.proto \in {"peap", "ttls"}
      /\ a.state # None => Owners[a.state] = c
      /\ (a.code = "challenge" /\ req.kind # "start") => c \in Able
  BY <1>4 DEF AnswerFits, Reply, Request
<1>6. k \in ClientRecord /\ ClientFits(k, c, Owners, Able)
  BY DEF Fit, ClientsFit, ClientFits
<1>7. \/ cl' = cl /\ net' = net
      \/ cl' = [cl EXCEPT ![c].pc = IF a.code = "accept" THEN "accepted" ELSE "rejected"] /\ net' = net
      \/ cl' = [cl EXCEPT ![c].pc = "broken"] /\ net' = net
      \/ a.code = "challenge" /\ Put(c, pkt("nak", Empty), [k EXCEPT !.state = a.state, !.lastId = req.id])
      \/ /\ a.code = "challenge" /\ (req.kind = "start" => req.proto = k.wants)
         /\ \E w \in Words(c, req) :
              Put(c, pkt(k.wants, IF w = <<>> THEN Empty ELSE Head(w)),
                  [upd(w) EXCEPT !.state = a.state, !.lastId = req.id])
  BY <1>1, Zenon DEF Hear
<1>8. CASE cl' = cl /\ net' = net
  BY <1>1, <1>8, NetKept, ClientStep DEF Fit
<1>9. ASSUME NEW pc \in {"accepted", "rejected", "broken"}, cl' = [cl EXCEPT ![c].pc = pc], net' = net
      PROVE  Tame
  <2> DEFINE q == [k EXCEPT !.pc = pc]
  <2>1. cl' = [cl EXCEPT ![c] = q]
    BY <1>9
  <2> HIDE DEF k
  <2>2. q \in ClientRecord
    BY <1>6 DEF ClientRecord
  <2>3. q.pc = pc /\ q.state = k.state /\ q.wants = k.wants
    BY <1>6 DEF ClientRecord
  <2> HIDE DEF q
  <2>4. ClientFits(q, c, Owners, Able)
    BY <1>6, <2>2, <2>3 DEF ClientFits
  <2> QED
    BY <1>1, <1>9, <2>1, <2>3, <2>4, NetKept, ClientStep DEF Fit, k
<1>10. ASSUME NEW type \in {"nak", "peap", "ttls"}, NEW body \in Message, NEW u \in ClientRecord,
              u.wants = k.wants, a.code = "challenge", type \in {"peap", "ttls"} => c \in Able,
              Put(c, pkt(type, body), [u EXCEPT !.state = a.state, !.lastId = req.id])
       PROVE  Tame
  <2> DEFINE p == pkt(type, body)
             v == [u EXCEPT !.state = a.state, !.lastId = req.id]
  <2>1. PacketFits(p, c, Owners, Able)
    BY <1>1, <1>10, AnswerSent
  <2> HIDE DEF a, req
  <2>2. v \in ClientRecord
    BY <1>5, <1>10 DEF ClientRecord
  <2>3. v.state = a.state /\ v.wants = k.wants
    BY <1>10 DEF ClientRecord
  <2> HIDE DEF v, p
  <2>4. Put(c, p, v)
    BY <1>10 DEF v, p
  <2> QED
    BY <1>1, <1>5, <2>1, <2>2, <2>3, <2>4, PutFits
<1>11. CASE a.code = "challenge" /\ Put(c, pkt("nak", Empty), [k EXCEPT !.state = a.state, !.lastId = req.id])
  BY <1>6, <1>10, <1>11, Constants
<1>12. CASE /\ a.code = "challenge" /\ (req.kind = "start" => req.proto = k.wants)
            /\ \E w \in Words(c, req) :
                 Put(c, pkt(k.wants, IF w = <<>> THEN Empty ELSE Head(w)),
                     [upd(w) EXCEPT !.state = a.state, !.lastId = req.id])
  <2>1. PICK w \in Words(c, req) :
          Put(c, pkt(k.wants, IF w = <<>> THEN Empty ELSE Head(w)),
              [upd(w) EXCEPT !.state = a.state, !.lastId = req.id])
    BY <1>12
  <2>2. w \in Seq(Message)
    BY <1>5, WordsFit
  <2> DEFINE body == IF w = <<>> THEN Empty ELSE Head(w)
             sent == IF w # <<>> /\ Head(w).part # "first" THEN Head(w).n ELSE k.sent
             rest == IF w = <<>> THEN <<>> ELSE Tail(w)
             u == [k EXCEPT !.got = got, !.sent = sent, !.rest = rest]
  <2>3. k.got \in Nat /\ k.sent \in Nat /\ k.wants \in {"peap", "ttls", "other"}
    BY <1>6 DEF ClientRecord
  <2>4. body \in Message /\ rest \in Seq(Message)
    BY <2>2, HeadTailProperties, EmptySeq, Constants
  <2>5. got \in Nat /\ sent \in Nat
    <3>1. got \in Nat
      BY <2>3
    <3>2. w # <<>> => Head(w) \in Message
      BY <2>2, HeadTailProperties
    <3>3. w # <<>> => Head(w).n \in Nat
      BY <3>2 DEF Message
    <3> QED
      BY <2>3, <3>1, <3>3
  <2>6. c \in Able /\ k.wants \in {"peap", "ttls"}
    BY <1>5, <1>12, <2>3 DEF Able
  <2>7. Put(c, pkt(k.wants, body), [u EXCEPT !.state = a.state, !.lastId = req.id])
    <3>1. u = upd(w)
      BY <1>6, Zenon
    <3> QED
      BY <2>1, <3>1, Zenon
  <2> HIDE DEF got, sent, rest, k
  <2>8. u \in ClientRecord
    BY <1>6, <2>4, <2>5 DEF ClientRecord
  <2>9. u.wants = k.wants
    BY <1>6 DEF ClientRecord
  <2> HIDE DEF u, body
  <2> QED
    BY <1>10, <1>12, <2>4, <2>6, <2>7, <2>8, <2>9
<1> HIDE DEF a, req, k, upd, pkt
<1> QED
  BY <1>7, <1>8, <1>9, <1>11, <1>12

-----------------------------------------------------------------------------
(* The theorems.                                                           *)

LEMMA InitInv == Init => EInv
<1> SUFFICES ASSUME Init PROVE EInv
  OBVIOUS
<1>1. NoSession \in SessRecord /\ NoSession.st = "absent" /\ NoSession.owner = None
  BY EmptySeq, Constants DEF SessRecord, NoSession
<1>2. SessionsFit(sess, proven, Able)
  <2>1. sess = [s \in Sess |-> NoSession]
    BY DEF Init
  <2> QED
    BY <1>1, <2>1 DEF SessionsFit, SessionFits
<1>3. HandlersFit(hand, sess, Owners, Able)
  <2>1. hand = [h \in Handler |-> Idle]
    BY DEF Init, Idle
  <2>2. Idle \in HandRecord
    BY DEF Idle, HandRecord
  <2> QED
    BY <2>1, <2>2, IdleFits DEF HandlersFit
<1>4. ClientsFit(cl, Owners, Able)
  <2>1. \A c \in Client : \E w \in Method :
          cl[c] = [pc |-> "idle", wants |-> w, cur |-> None, state |-> None,
                   lastId |-> None, got |-> 0, sent |-> 0, rest |-> <<>>]
    BY DEF Init
  <2>2. \A c \in Client : cl[c] \in ClientRecord /\ cl[c].state = None /\ cl[c].pc = "idle"
    <3> SUFFICES ASSUME NEW c \in Client
                 PROVE  cl[c] \in ClientRecord /\ cl[c].state = None /\ cl[c].pc = "idle"
      OBVIOUS
    <3>1. PICK w \in Method : cl[c] = [pc |-> "idle", wants |-> w, cur |-> None, state |-> None,
                                       lastId |-> None, got |-> 0, sent |-> 0, rest |-> <<>>]
      BY <2>1
    <3>2. w \in {"peap", "ttls", "other"} /\ <<>> \in Seq(Message)
      BY EapAssumption, EmptySeq
    <3> QED
      BY <3>1, <3>2 DEF ClientRecord
  <2>3. cl \in [Client -> ClientRecord]
    <3>1. cl = [c \in Client |-> cl[c]]
      BY DEF Init
    <3> QED
      BY <2>2, <3>1
  <2> QED
    BY <2>2, <2>3 DEF ClientsFit, ClientFits
<1>5. PacketsFit(net, Owners, Able)
  BY DEF Init, PacketsFit
<1>6. AnswersFit(ans, Owners, Able, proven)
  BY EmptySeq DEF Init, AnswersFit
<1>7. Capped
  <2>1. Stored = {}
    BY <1>1 DEF Init, Stored
  <2> QED
    BY <2>1, FS_EmptySet, EapAssumption DEF Capped
<1> QED
  BY <1>2, <1>3, <1>4, <1>5, <1>6, <1>7 DEF Init, EInv, Fit

LEMMA HandlerTame ==
    ASSUME EInv, NEW h \in Handler, HandlerStep(h)
    PROVE  Tame \/ EInv'
<1>0. Fit
  BY DEF EInv
<1>1. CASE SendAgain(h)
  BY <1>0, <1>1, SendAgainTame
<1>2. CASE Identity(h)
  BY <1>2, IdentityTame
<1>3. CASE Nak(h)
  BY <1>0, <1>3, NakTame
<1>4. CASE NoSuchSession(h)
  BY <1>0, <1>4, NoSuchSessionTame
<1>5. CASE Collect(h)
  BY <1>0, <1>5, CollectTame
<1>6. CASE Misfit(h)
  BY <1>0, <1>6, MisfitTame
<1>7. CASE Handshake(h)
  BY <1>0, <1>7, HandshakeTame
<1>8. CASE FirstQuestion(h)
  BY <1>0, <1>8, FirstQuestionTame
<1>9. ASSUME NEW x,
             \/ Listen(h, x) \/ InnerPAP(h, x) \/ InnerIdentity(h, x) \/ InnerResponse(h, x)
             \/ AfterSuccess(h, x) \/ AfterTLV(h, x) \/ AfterFailure(h, x)
      PROVE  Tame
  <2>1. CASE Listen(h, x)
    BY <1>0, <2>1, ListenTame
  <2>2. CASE InnerPAP(h, x)
    BY <1>0, <2>2, InnerPAPTame
  <2>3. CASE InnerIdentity(h, x)
    BY <1>0, <2>3, InnerIdentityTame
  <2>4. CASE InnerResponse(h, x)
    BY <1>0, <2>4, InnerResponseTame
  <2>5. CASE AfterSuccess(h, x)
    BY <1>0, <2>5, AfterSuccessTame
  <2>6. CASE AfterTLV(h, x)
    BY <1>0, <2>6, AfterTLVTame
  <2>7. CASE AfterFailure(h, x)
    BY <1>0, <2>7, AfterFailureTame
  <2> QED
    BY <1>9, <2>1, <2>2, <2>3, <2>4, <2>5, <2>6, <2>7
<1>10. ASSUME NEW yes \in BOOLEAN, Resume(h, yes)
       PROVE  Tame
  BY <1>0, <1>10, ResumeTame
<1> QED
  BY <1>1, <1>2, <1>3, <1>4, <1>5, <1>6, <1>7, <1>8, <1>9, <1>10 DEF HandlerStep

LEMMA StayCapped ==
    ASSUME EInv, Tame
    PROVE  EInv'
<1>1. Stored' \in SUBSET Stored /\ IsFiniteSet(Stored) /\ Cardinality(Stored) <= Cap /\ Cap \in Nat
  BY EapAssumption DEF EInv, Capped, Tame
<1>2. IsFiniteSet(Stored') /\ Cardinality(Stored') <= Cardinality(Stored)
  BY <1>1, FS_Subset
<1>3. Cardinality(Stored') \in Nat /\ Cardinality(Stored) \in Nat
  BY <1>1, <1>2, FS_CardinalityType
<1> QED
  BY <1>1, <1>2, <1>3 DEF EInv, Capped, Tame

LEMMA NextInv == EInv /\ [Next]_vars => EInv'
<1> SUFFICES ASSUME EInv, [Next]_vars PROVE EInv'
  OBVIOUS
<1>0. Fit
  BY DEF EInv
<1>1. ASSUME NEW h \in Handler, HandlerStep(h)
      PROVE  EInv'
  BY <1>1, HandlerTame, StayCapped
<1>2. ASSUME NEW h \in Handler, NEW c \in Client, NEW keep \in BOOLEAN, NEW p \in net[c],
             Deliver(h, c, p, keep)
      PROVE  EInv'
  BY <1>0, <1>2, DeliverTame, StayCapped
<1>3. ASSUME NEW s \in Sess, Engine(s)
      PROVE  EInv'
  BY <1>0, <1>3, EngineTame, StayCapped
<1>4. ASSUME NEW c \in Client, Start(c) \/ Hear(c) \/ Retransmit(c) \/ LoseAnswer(c)
      PROVE  EInv'
  BY <1>0, <1>4, StartTame, HearTame, RetransmitTame, LoseAnswerTame, StayCapped
<1>5. ASSUME NEW c \in Client, NEW p \in net[c], LoseRequest(c, p)
      PROVE  EInv'
  BY <1>0, <1>5, LoseRequestTame, StayCapped
<1>6. CASE Tick
  BY <1>0, <1>6, TickTame, StayCapped
<1>7. CASE UNCHANGED vars
  BY <1>7 DEF EInv, Fit, Capped, Owners, Able, Stored, vars
<1> QED
  BY <1>1, <1>2, <1>3, <1>4, <1>5, <1>6, <1>7 DEF Next

LEMMA InvMeans == EInv => TypeOK /\ AcceptIsEarned
<1> SUFFICES ASSUME EInv PROVE TypeOK /\ AcceptIsEarned
  OBVIOUS
<1>1. TypeOK
  BY DEF EInv, Fit, Capped, TypeOK, SessionsFit, HandlersFit, ClientsFit, PacketsFit, AnswersFit, Stored
<1>2. AcceptIsEarned
  BY DEF EInv, Fit, AnswersFit, AnswerFits, AcceptIsEarned
<1> QED
  BY <1>1, <1>2

LEMMA Inductive == Spec => []EInv
<1> QED
  BY InitInv, NextInv, PTL DEF Spec

\* Whatever packets arrive, in whatever order: every record has its type, the
\* identifiers stay bytes, and the store never holds more sessions than its
\* cap (create, cleanupLocked).
THEOREM TypeCorrect == Spec => []TypeOK
BY Inductive, InvMeans, PTL

\* An Access-Accept rests on an inner authentication of the very session, and
\* names the supplicant's own user, for any number of sessions and handlers
\* and whatever the network repeats, delays or loses: a session belongs to one
\* supplicant, its name is nobody else's, and the handler that waits for a
\* push finds the name it left (handlePEAPInner, finishPEAP, finishInnerPAP).
THEOREM AcceptEarned == Spec => []AcceptIsEarned
BY Inductive, InvMeans, PTL

-----------------------------------------------------------------------------
(* A supplicant the environment spared.  Server and supplicant number what  *)
(* they say; the invariant (Spared) says in which of four places of the    *)
(* exchange a spared supplicant is (InIdentity, InNak, InTurn, IsOver) and *)
(* that the numbers at both ends agree there: the session has taken what   *)
(* the supplicant sent, the supplicant has got what left the session's     *)
(* queue, and the one fragment or message between them is the packet       *)
(* outstanding (Waits) or the last answer (Replied), however often either  *)
(* is repeated.  Its session is in use (Fresh), so that nobody else's step *)
(* can take it away.                                                       *)

Tunnelling(p) == p.type \in {"peap", "ttls"}
Fresh(r, t) == r.lastUsed <= t /\ r.lastUsed + EvictIdle > t

\* The words that have a place of their own in the supplicant's stream.
Placed(m) == (m.word = "hello" <=> m.n = 1) /\ (m.word = "finish" <=> m.n = 2)
\* The certificate flight comes first in the server's.
Numbered(no, said) ==
    /\ no < Pieces => said = "more"
    /\ no = Pieces => said = "flight"
    /\ no > Pieces => said \notin {"more", "flight"}

Popped(r) == r.made - Len(r.out)
Taken(r) == r.read + Len(r.input)

Lined(r) ==
    \A i \in 1..Len(r.out) :
        r.out[i].no = Popped(r) + i /\ Numbered(r.out[i].no, r.out[i].said)

\* The engine of a session and what it has said.
Pipe(r) ==
    /\ ~r.err
    /\ r.up <=> r.read >= 2
    /\ r.read = 0 => r.made = 0
    /\ r.read = 1 => r.made = Pieces
    /\ r.read >= 2 => r.made >= Pieces
    /\ r.phase # "handshake" => r.read >= 2
    /\ Lined(r)

Queue(r) == \A i \in 1..Len(r.input) : r.input[i].n = r.read + i /\ Placed(r.input[i])

Untouched(r) ==
    /\ r.st = "live" /\ r.phase = "handshake" /\ r.inner = "challenge"
    /\ r.buf = <<>> /\ r.input = <<>> /\ r.read = 0 /\ ~r.up /\ ~r.err
    /\ r.out = <<>> /\ r.made = 0

\* What the supplicant sends and has left to send.
Carries(k) ==
    LET b == k.cur.body IN
    \/ b = Empty /\ k.rest = <<>>
    \/ /\ b.part = "whole" /\ b.n = k.sent /\ b.n >= 1 /\ Placed(b)
       /\ k.rest # <<>> =>
            /\ Len(k.rest) = 1 /\ k.sent >= 3
            /\ k.rest[1].part = "whole" /\ k.rest[1].n = k.sent + 1 /\ Placed(k.rest[1])
    \/ /\ b.part = "first" /\ b.n = 2 /\ b.word = "finish" /\ k.sent = 1 /\ k.got = Pieces
       /\ k.rest = <<[b EXCEPT !.part = "last"]>>
    \/ b.part = "last" /\ b.n = 2 /\ b.word = "finish" /\ k.sent = 2 /\ k.rest = <<>>

Speaks(k) ==
    /\ k.cur.id = k.lastId /\ k.state # None
    /\ Carries(k)
    /\ k.got < Pieces => k.sent = 1

Adds(k) == k.cur.body # Empty /\ k.cur.body.part # "first"

\* Its packet is on the way: the session is as the last answer left it.
Waits(k, r, v) ==
    /\ r.lastReq # k.cur /\ r.lastResp.id = k.lastId
    /\ Pipe(r) /\ Queue(r)
    /\ Popped(r) = k.got
    /\ Taken(r) = IF Adds(k) THEN k.sent - 1 ELSE k.sent
    /\ r.buf = IF k.cur.body.part = "last" THEN <<[k.cur.body EXCEPT !.part = "first"]>> ELSE <<>>
    /\ r.inner = "failed" => v = "no"

Served(k, r) ==
    /\ r.st = "live" /\ r.lastReq = k.cur
    /\ Pipe(r) /\ Queue(r)
    /\ Taken(r) = k.sent
    /\ r.buf = IF k.cur.body.part = "first" THEN <<k.cur.body>> ELSE <<>>

Ready(k, r) == Served(k, r) /\ r.lastResp.id = k.lastId /\ Popped(r) = k.got

Replied(k, r, v) ==
    /\ Served(k, r)
    /\ r.inner = "failed" => v = "no"
    /\ r.lastResp.kind \in {"data", "ack"}
    /\ r.lastResp.kind = "ack" => Popped(r) = k.got
    /\ r.lastResp.kind = "data" => /\ Popped(r) = k.got + 1 /\ r.lastResp.no = k.got + 1
                                   /\ Numbered(r.lastResp.no, r.lastResp.said)

To(p, an) == {i \in 1..Len(an) : an[i].to = p}
Authing(c, hd) == {h \in Handler : hd[h].pc = "auth" /\ hd[h].c = c}
Refusals(an, p, v) ==
    \A i \in To(p, an) : an[i].code = "reject" =>
        v \in {"no", "full"} \/ \E j \in To(p, an) : j < i /\ an[j].code = "accept"

InIdentity(c, k, tab, hd, an, t, v) ==
    /\ k.cur.type = "identity" /\ k.cur.state = None /\ k.state = None /\ k.lastId = None
    /\ k.got = 0 /\ k.sent = 0 /\ k.rest = <<>>
    /\ v \in {"none", "full"}
    /\ Authing(c, hd) = {}
    /\ \A i \in To(k.cur, an) :
         \/ an[i].code = "reject" /\ v = "full"
         \/ /\ an[i].code = "challenge"
            /\ an[i].state \in Sess
            /\ LET r == tab[an[i].state] IN
               /\ Untouched(r) /\ Fresh(r, t) /\ r.proto = "peap" /\ r.lastReq = k.cur
               /\ r.lastResp = an[i].req /\ an[i].req.kind = "start" /\ an[i].req.proto = "peap"

InNak(c, k, tab, hd, an, t, v) ==
    /\ k.cur.type = "nak" /\ k.state # None /\ k.cur.id = k.lastId
    /\ k.got = 0 /\ k.sent = 0 /\ k.rest = <<>>
    /\ v \in {"none", "no", "full"}
    /\ Authing(c, hd) = {}
    /\ LET r == tab[k.state] IN
       /\ Untouched(r) /\ Fresh(r, t)
       /\ \/ /\ r.lastReq # k.cur /\ r.proto = "peap"
             /\ \A i \in To(k.cur, an) : an[i].code = "reject" /\ v \in {"no", "full"} /\ k.wants # "ttls"
          \/ /\ r.lastReq = k.cur /\ r.lastResp.kind = "start" /\ r.lastResp.proto = k.wants
             /\ \A i \in To(k.cur, an) : an[i].code = "challenge" /\ an[i].req = r.lastResp /\ an[i].state = k.state

InTurn(c, k, tab, hd, an, t, v) ==
    LET r == tab[k.state] IN
    /\ k.pc = "await" /\ Tunnelling(k.cur) /\ Speaks(k)
    /\ r.st = "live" /\ Fresh(r, t)
    /\ \A i \in To(k.cur, an) : an[i].code = "challenge" /\ an[i].state = k.state
    /\ \/ Waits(k, r, v) /\ To(k.cur, an) = {} /\ Authing(c, hd) = {}
       \/ /\ Ready(k, r) /\ \A i \in To(k.cur, an) : an[i].req.id = k.lastId
          /\ k.cur.body.part # "first" /\ r.phase # "handshake"
          /\ \E h \in Handler : Authing(c, hd) = {h} /\ hd[h].deadline <= r.lastUsed + PushWait
       \/ /\ Replied(k, r, v) /\ \A i \in To(k.cur, an) : an[i].req.id = k.lastId \/ an[i].req = r.lastResp
          /\ Authing(c, hd) = {}

IsOver(c, k, tab, hd, an, t, v) ==
    LET r == tab[k.state] IN
    /\ Tunnelling(k.cur) /\ k.state # None /\ k.cur.id = k.lastId
    /\ r.st = "gone" /\ r.lastReq = k.cur /\ r.lastResp.id = k.lastId
    /\ Authing(c, hd) = {}
    /\ \A i \in To(k.cur, an) : an[i].code = "challenge" => an[i].req.id = k.lastId
    /\ Refusals(an, k.cur, v)
    /\ v \notin {"no", "full"} => \E i \in To(k.cur, an) : an[i].code = "accept"

Attended(c, k, tab, hd, t) ==
    \A h \in Handler : hd[h].pc # "idle" /\ hd[h].c = c =>
        /\ hd[h].p = k.cur
        /\ hd[h].pc = "step" /\ hd[h].s = None => k.cur.state = None \/ tab[k.cur.state].st = "gone"
        /\ hd[h].pc = "step" /\ hd[h].s # None => tab[hd[h].s].lastUsed = t \/ tab[hd[h].s].st = "gone"

Coherent(c, k, tab, hd, an, t, v) ==
    /\ k.cur.wants = k.wants /\ k.cur.state = k.state
    /\ k.pc = "rejected" => v \in {"no", "full"}
    /\ Attended(c, k, tab, hd, t)
    /\ \A i, j \in 1..Len(an) : i < j /\ an[i].to = k.cur => an[j].to = k.cur

Going(c, k, tab, hd, an, t, v) ==
    /\ Coherent(c, k, tab, hd, an, t, v)
    /\ \/ InIdentity(c, k, tab, hd, an, t, v)
       \/ InNak(c, k, tab, hd, an, t, v)
       \/ InTurn(c, k, tab, hd, an, t, v)
       \/ IsOver(c, k, tab, hd, an, t, v)

Unborn(c, k, hd, an, v) ==
    /\ k.cur = None /\ k.state = None /\ k.lastId = None /\ k.got = 0 /\ k.sent = 0 /\ k.rest = <<>>
    /\ an = <<>> /\ v = "none"
    /\ \A h \in Handler : hd[h].pc # "idle" => hd[h].c # c

Holds(c, k, tab, hd, an, t, v) ==
    /\ k.pc # "broken"
    /\ k.pc = "idle" => Unborn(c, k, hd, an, v)
    /\ k.pc \in {"await", "rejected"} => Going(c, k, tab, hd, an, t, v)

Spared == \A c \in Client \ disturbed : Holds(c, cl[c], sess, hand, ans[c], now, verdict[c])

-----------------------------------------------------------------------------
(* What the engine does to the streams.                                    *)

\* A session that differs from r in its streams only.
Steady(q, r) ==
    /\ Alike(q, r)
    /\ q.phase = r.phase /\ q.buf = r.buf /\ q.lastReq = r.lastReq /\ q.lastUsed = r.lastUsed

LEMMA SteadyChain ==
    ASSUME NEW p, NEW q, NEW r, Steady(p, q), Steady(q, r)
    PROVE  Steady(p, r)
BY DEF Steady, Alike

LEMMA PushOutSays ==
    ASSUME NEW r \in SessRecord, NEW said \in Said
    PROVE  LET q == PushOut(r, said)
               f == Fragments(said)
           IN  /\ Steady(q, r)
               /\ q.input = r.input /\ q.read = r.read /\ q.up = r.up /\ q.err = r.err
               /\ q.made = r.made + Len(f) /\ Len(f) \in Nat /\ Popped(q) = Popped(r)
               /\ \A i \in 1..Len(q.out) :
                    \/ i \in 1..Len(r.out) /\ q.out[i] = r.out[i]
                    \/ /\ i - Len(r.out) \in 1..Len(f)
                       /\ q.out[i].no = Popped(r) + i
                       /\ q.out[i].no = r.made + (i - Len(r.out))
                       /\ q.out[i].said = f[i - Len(r.out)]
<1> DEFINE f == Fragments(said)
           N == Len(f)
           g == [i \in 1..N |-> [no |-> r.made + i, said |-> f[i]]]
           out == r.out \o g
           made == r.made + N
           M == Len(r.out)
           q == [r EXCEPT !.out = out, !.made = made]
<1>1. f \in Seq(Said) /\ N \in Nat
  BY FragmentsFit, LenProperties
<1>2. r.made \in Nat /\ r.out \in Seq([no: Nat, said: Said]) /\ M \in Nat
  BY SessionParts, LenProperties
<1>3. \A i \in 1..N : [no |-> r.made + i, said |-> f[i]] \in [no: Nat, said: Said]
  BY <1>1, <1>2, ElementOfSeq
<1>4. g \in [1..N -> [no: Nat, said: Said]]
  BY <1>3
<1>5. g \in Seq([no: Nat, said: Said]) /\ Len(g) = N
  BY <1>1, <1>4, SeqDef, LenProperties
<1>6. /\ out \in Seq([no: Nat, said: Said]) /\ made \in Nat
      /\ Len(out) = M + N
      /\ \A i \in 1..(M + N) : out[i] = IF i <= M THEN r.out[i] ELSE g[i - M]
  BY <1>1, <1>2, <1>5, ConcatProperties
<1>7. PushOut(r, said) = q
  BY DEF PushOut
<1>8. ASSUME NEW i \in 1..(M + N), i > M
      PROVE  /\ i - M \in 1..N
             /\ out[i].no = (r.made - M) + i
             /\ out[i].no = r.made + (i - M)
             /\ out[i].said = f[i - M]
  <2>1. i - M \in 1..N
    BY <1>1, <1>2, <1>8
  <2>2. out[i] = g[i - M]
    BY <1>1, <1>2, <1>6, <1>8
  <2> HIDE DEF f, N, M
  <2>3. g[i - M] = [no |-> r.made + (i - M), said |-> f[i - M]]
    BY <2>1
  <2> HIDE DEF out, g
  <2>4. out[i].no = r.made + (i - M) /\ out[i].said = f[i - M]
    BY <2>2, <2>3
  <2>5. r.made + (i - M) = (r.made - M) + i
    BY <1>1, <1>2
  <2> QED
    BY <2>1, <2>4, <2>5
<1> HIDE DEF out, made, f, N, M, g
<1>9. /\ q \in SessRecord
      /\ q.out = out /\ q.made = made
      /\ q.st = r.st /\ q.owner = r.owner /\ q.name = r.name /\ q.inner = r.inner
      /\ q.lastResp = r.lastResp
  BY <1>6 DEF SessRecord
<1>10. /\ q.phase = r.phase /\ q.buf = r.buf /\ q.lastReq = r.lastReq /\ q.lastUsed = r.lastUsed
       /\ q.input = r.input /\ q.read = r.read /\ q.up = r.up /\ q.err = r.err
  BY DEF SessRecord
<1> HIDE DEF q
<1>11. Popped(q) = Popped(r)
  BY <1>1, <1>2, <1>6, <1>9 DEF Popped, made, M
<1>12. ASSUME NEW i \in 1..Len(q.out)
       PROVE  \/ i \in 1..M /\ q.out[i] = r.out[i]
              \/ /\ i - M \in 1..N
                 /\ q.out[i].no = Popped(r) + i
                 /\ q.out[i].no = r.made + (i - M)
                 /\ q.out[i].said = f[i - M]
  <2>1. i \in 1..(M + N) /\ q.out[i] = out[i]
    BY <1>6, <1>9
  <2>2. CASE i <= M
    <3>1. i \in 1..M /\ out[i] = r.out[i]
      BY <1>1, <1>2, <1>6, <2>1, <2>2
    <3> QED
      BY <2>1, <3>1
  <2>3. CASE i > M
    <3>1. i - M \in 1..N /\ out[i].no = (r.made - M) + i /\ out[i].no = r.made + (i - M) /\ out[i].said = f[i - M]
      BY <1>8, <2>1, <2>3
    <3> QED
      BY <2>1, <3>1 DEF Popped, M
  <2>4. i <= M \/ i > M
    BY <1>1, <1>2, <2>1
  <2> QED
    BY <2>2, <2>3, <2>4
<1> QED
  BY <1>1, <1>7, <1>9, <1>10, <1>11, <1>12 DEF Steady, Alike, made, N, f, M

\* The flight is numbered from 1; what comes after it is no piece of it.
LEMMA PushOutLined ==
    ASSUME NEW r \in SessRecord, NEW said \in Said, Lined(r),
           \/ said = "flight" /\ r.made = 0
           \/ said \notin {"flight", "more"} /\ r.made >= Pieces
    PROVE  /\ Lined(PushOut(r, said))
           /\ PushOut(r, said).made = r.made + (IF said = "flight" THEN Pieces ELSE 1)
<1> DEFINE q == PushOut(r, said)
           f == Fragments(said)
           M == Len(r.out)
<1>1. /\ q.made = r.made + Len(f) /\ Popped(q) = Popped(r)
      /\ \A i \in 1..Len(q.out) :
           \/ i \in 1..M /\ q.out[i] = r.out[i]
           \/ /\ i - M \in 1..Len(f)
              /\ q.out[i].no = Popped(r) + i
              /\ q.out[i].no = r.made + (i - M)
              /\ q.out[i].said = f[i - M]
  BY PushOutSays
<1>2. r.made \in Nat /\ M \in Nat /\ Pieces \in Nat
  BY SessionParts, LenProperties, EapAssumption
<1>3. CASE said = "flight"
  <2>1. f = [i \in 1..Pieces |-> IF i = Pieces THEN "flight" ELSE "more"]
    BY <1>3 DEF Fragments
  <2>2. f \in Seq({"flight", "more"}) /\ Len(f) = Pieces
    BY <1>2, <2>1, SeqDef, LenProperties
  <2>3. \A j \in 1..Pieces : f[j] = IF j = Pieces THEN "flight" ELSE "more"
    BY <2>1
  <2> HIDE DEF q, f
  <2>4. ASSUME NEW i \in 1..Len(q.out)
        PROVE  q.out[i].no = Popped(q) + i /\ Numbered(q.out[i].no, q.out[i].said)
    <3>1. CASE i \in 1..M /\ q.out[i] = r.out[i]
      BY <1>1, <3>1 DEF Lined, M
    <3>2. CASE /\ i - M \in 1..Len(f) /\ q.out[i].no = Popped(r) + i
               /\ q.out[i].no = r.made + (i - M) /\ q.out[i].said = f[i - M]
      <4>1. q.out[i].no = i - M /\ i - M \in 1..Pieces
        BY <1>2, <1>3, <2>2, <3>2
      <4>2. q.out[i].said = IF i - M = Pieces THEN "flight" ELSE "more"
        BY <2>3, <3>2, <4>1
      <4> DEFINE j == i - M
      <4>3. j \in 1..Pieces /\ q.out[i].no = j /\ q.out[i].said = IF j = Pieces THEN "flight" ELSE "more"
        BY <4>1, <4>2
      <4> HIDE DEF j
      <4>4. Numbered(q.out[i].no, q.out[i].said)
        BY <1>2, <4>3 DEF Numbered
      <4> QED
        BY <1>1, <3>2, <4>4
    <3> QED
      BY <1>1, <3>1, <3>2
  <2> QED
    BY <1>1, <1>3, <2>2, <2>4 DEF Lined, q
<1>4. CASE said # "flight"
  <2>1. f = <<said>> /\ Len(f) = 1 /\ f[1] = said
    BY <1>4 DEF Fragments
  <2> HIDE DEF q, f
  <2>2. ASSUME NEW i \in 1..Len(q.out)
        PROVE  q.out[i].no = Popped(q) + i /\ Numbered(q.out[i].no, q.out[i].said)
    <3>1. CASE i \in 1..M /\ q.out[i] = r.out[i]
      BY <1>1, <3>1 DEF Lined, M
    <3>2. CASE /\ i - M \in 1..Len(f) /\ q.out[i].no = Popped(r) + i
               /\ q.out[i].no = r.made + (i - M) /\ q.out[i].said = f[i - M]
      <4>1. i - M = 1
        BY <1>2, <2>1, <3>2
      <4> QED
        BY <1>1, <1>2, <1>4, <2>1, <3>2, <4>1 DEF Numbered
    <3> QED
      BY <1>1, <3>1, <3>2
  <2> QED
    BY <1>1, <1>4, <2>1, <2>2 DEF Lined, q
<1> QED
  BY <1>3, <1>4

\* Inside the tunnel the session may say more at any time.
LEMMA PushOutPipe ==
    ASSUME NEW r \in SessRecord, NEW said \in Said \ {"flight", "more"}, Pipe(r), r.read >= 2
    PROVE  Pipe(PushOut(r, said))
<1> DEFINE q == PushOut(r, said)
<1>1. /\ Steady(q, r) /\ q.read = r.read /\ q.up = r.up /\ q.err = r.err
      /\ Lined(q) /\ q.made = r.made + 1
  BY PushOutSays, PushOutLined DEF Pipe
<1>2. r.made \in Nat /\ r.read \in Nat /\ Pieces \in Nat
  BY SessionParts, EapAssumption
<1> HIDE DEF q
<1> QED
  BY <1>1, <1>2 DEF Pipe, Steady, q

\* One message worked through.
LEMMA WorkPipe ==
    ASSUME NEW r \in SessRecord, NEW m \in Message, Pipe(r), m.n = r.read + 1, Placed(m)
    PROVE  LET q == Work(r, m) IN
           Pipe(q) /\ Steady(q, r) /\ q.read = m.n /\ q.input = r.input /\ Popped(q) = Popped(r)
<1> DEFINE r1 == [r EXCEPT !.read = m.n]
           app == Append(r1.app, m.word)
           flight == PushOut(r1, "flight")
           up == PushOut(r1, "finish")
           said == [r1 EXCEPT !.app = app]
           done == [up EXCEPT !.up = TRUE]
           q == Work(r, m)
<1>1. /\ m.n \in Nat /\ m.word \in Word /\ r.app \in Seq(Word) /\ r.read \in Nat /\ r.made \in Nat
      /\ Pieces \in Nat /\ Pieces >= 1 /\ r.up \in BOOLEAN
  BY SessionParts, EapAssumption DEF Message
<1>2. /\ r1 \in SessRecord /\ Steady(r1, r) /\ r1.read = m.n /\ r1.input = r.input
      /\ r1.out = r.out /\ r1.made = r.made /\ r1.up = r.up /\ r1.err = r.err /\ r1.app = r.app
  <2>1. r1 \in SessRecord
    BY <1>1 DEF SessRecord
  <2> QED
    BY <2>1 DEF Steady, Alike, SessRecord
<1> HIDE DEF r1
<1>3. ~r1.err /\ Lined(r1) /\ Popped(r1) = Popped(r) /\ (r1.phase # "handshake" => m.n >= 3)
  BY <1>1, <1>2 DEF Pipe, Lined, Popped, Steady, Alike
<1>4. q = IF m.word = "hello" THEN flight ELSE IF m.word = "finish" THEN done ELSE said
  <2> HIDE DEF said, done, flight
  <2> QED
    BY Zenon DEF Work, Pipe, said, done, flight, r1
<1>5. CASE m.word = "hello"
  <2>1. m.n = 1 /\ r.read = 0 /\ r1.made = 0 /\ ~r1.up /\ r1.phase = "handshake"
    BY <1>1, <1>2, <1>3, <1>5 DEF Placed, Pipe
  <2>2. /\ Steady(flight, r1) /\ flight.read = r1.read /\ flight.up = r1.up /\ flight.err = r1.err
        /\ flight.input = r1.input /\ Popped(flight) = Popped(r1)
        /\ Lined(flight) /\ flight.made = r1.made + Pieces
    BY <1>2, <1>3, <2>1, PushOutSays, PushOutLined DEF Said
  <2> HIDE DEF flight
  <2>3. Pipe(flight)
    BY <1>1, <1>2, <1>3, <2>1, <2>2 DEF Pipe, Steady
  <2>4. q = flight
    BY <1>4, <1>5
  <2> QED
    BY <1>2, <1>3, <2>2, <2>3, <2>4, SteadyChain
<1>6. CASE m.word = "finish"
  <2>1. m.n = 2 /\ r.read = 1 /\ r1.made = Pieces /\ r1.phase = "handshake"
    BY <1>1, <1>2, <1>3, <1>6 DEF Placed, Pipe
  <2>2. /\ Steady(up, r1) /\ up.read = r1.read /\ up.err = r1.err
        /\ up.input = r1.input /\ Popped(up) = Popped(r1)
        /\ Lined(up) /\ up.made = r1.made + 1
    <3>1. "finish" \in Said /\ r1.made >= Pieces
      BY <1>1, <2>1 DEF Said
    <3>2. Lined(up) /\ up.made = r1.made + 1
      BY <1>2, <1>3, <3>1, PushOutLined
    <3>3. /\ Steady(up, r1) /\ up.read = r1.read /\ up.err = r1.err
          /\ up.input = r1.input /\ Popped(up) = Popped(r1)
      BY <1>2, <3>1, PushOutSays
    <3> QED
      BY <3>2, <3>3
  <2> HIDE DEF up
  <2>3. /\ done \in SessRecord /\ done.up = TRUE /\ done.read = up.read /\ done.err = up.err
        /\ done.input = up.input /\ done.out = up.out /\ done.made = up.made /\ Steady(done, up)
    <3>1. up \in SessRecord
      BY <2>2 DEF Steady, Alike
    <3>2. done \in SessRecord
      BY <3>1 DEF SessRecord
    <3> QED
      BY <3>1, <3>2 DEF Steady, Alike, SessRecord
  <2> HIDE DEF done
  <2>4. Popped(done) = Popped(up) /\ Lined(done)
    BY <2>2, <2>3 DEF Popped, Lined
  <2>5. Pipe(done)
    BY <1>1, <1>2, <1>3, <2>1, <2>2, <2>3, <2>4 DEF Pipe, Steady
  <2>6. q = done
    BY <1>4, <1>6
  <2> QED
    BY <1>2, <1>3, <2>2, <2>3, <2>4, <2>5, <2>6, SteadyChain
<1>7. CASE m.word \notin {"hello", "finish"}
  <2>1. m.n >= 3 /\ r.read >= 2
    BY <1>1, <1>7 DEF Placed
  <2>2. app \in Seq(Word)
    BY <1>1, <1>2, AppendProperties
  <2> HIDE DEF app
  <2>3. /\ said \in SessRecord /\ Steady(said, r1) /\ said.read = m.n /\ said.up = r1.up
        /\ said.err = r1.err /\ said.input = r1.input /\ said.out = r1.out /\ said.made = r1.made
    <3>1. said \in SessRecord
      BY <1>2, <2>2 DEF SessRecord
    <3> QED
      BY <1>2, <3>1 DEF Steady, Alike, SessRecord
  <2> HIDE DEF said
  <2>4. Popped(said) = Popped(r1) /\ Lined(said)
    BY <1>3, <2>3 DEF Popped, Lined
  <2>5. Pipe(said)
    BY <1>1, <1>2, <1>3, <2>1, <2>3, <2>4 DEF Pipe, Steady
  <2>6. q = said
    BY <1>4, <1>7
  <2> QED
    BY <1>2, <1>3, <2>3, <2>4, <2>5, <2>6, SteadyChain
<1> QED
  BY <1>5, <1>6, <1>7

Streams(r) == Pipe(r) /\ Queue(r)

\* The streams have moved on, none of them is off its place.
Goes(q, r) ==
    Steady(q, r) /\ Streams(q) /\ Popped(q) = Popped(r) /\ Taken(q) = Taken(r)

LEMMA WorkedGoes ==
    ASSUME NEW r \in SessRecord, Streams(r)
    PROVE  Goes(Worked(r), r)
<1> DEFINE N == Len(r.input)
           w == CHOOSE f : f = After(r, f, N)
           Right(n) == /\ Pipe(w[n]) /\ Steady(w[n], r) /\ w[n].read = r.read + n
                       /\ w[n].input = r.input /\ Popped(w[n]) = Popped(r)
           G == {n \in 0..N : Right(n)}
<1>1. /\ N \in Nat /\ \A i \in 1..N : r.input[i] \in Message
      /\ r.read \in Nat /\ r.made \in Nat /\ Len(r.out) \in Nat
  BY SessionParts, LenProperties, ElementOfSeq
<1>2. w = After(r, w, N)
  BY EngineRuns
<1>3. Worked(r) = [w[N] EXCEPT !.input = <<>>]
  BY DEF Worked, After
<1> HIDE DEF w
<1>4. w[0] = r /\ \A i \in 1..N : w[i] = Work(w[i - 1], r.input[i])
  BY <1>1, <1>2 DEF After
<1>5. 0 \in G
  BY <1>1, <1>4 DEF Steady, Alike, Streams
<1>6. ASSUME NEW n \in G, n < N
      PROVE  n + 1 \in G
  <2>1. n + 1 \in 1..N /\ (n + 1) - 1 = n /\ Right(n) /\ n \in Nat
    BY <1>1, <1>6
  <2> DEFINE m == r.input[n + 1]
  <2>2. w[n + 1] = Work(w[n], m) /\ m \in Message
    BY <1>1, <1>4, <2>1
  <2>3. m.n = r.read + (n + 1) /\ Placed(m)
    BY <2>1 DEF Streams, Queue
  <2> HIDE DEF m
  <2>4. w[n] \in SessRecord /\ m.n = w[n].read + 1
    <3>1. w[n].read = r.read + n /\ w[n] \in SessRecord
      BY <2>1 DEF Steady, Alike
    <3>2. m.n = (r.read + n) + 1
      BY <1>1, <2>1, <2>3
    <3> QED
      BY <3>1, <3>2
  <2>5. LET q == w[n + 1] IN
        Pipe(q) /\ Steady(q, w[n]) /\ q.read = m.n /\ q.input = w[n].input /\ Popped(q) = Popped(w[n])
    BY <2>1, <2>2, <2>3, <2>4, WorkPipe
  <2>6. Steady(w[n + 1], r)
    BY <2>1, <2>5, SteadyChain
  <2>7. Right(n + 1)
    BY <2>1, <2>3, <2>5, <2>6
  <2> QED
    BY <1>1, <2>1, <2>7
<1> HIDE DEF G
<1>7. N \in G
  <2>1. G \in SUBSET (0..N)
    BY DEF G
  <2> QED
    BY <1>1, <1>5, <1>6, <2>1, StepsReach
<1> DEFINE q == w[N]
           p == [q EXCEPT !.input = <<>>]
<1>8. /\ Pipe(q) /\ Steady(q, r) /\ q.read = r.read + N /\ Popped(q) = Popped(r)
      /\ q \in SessRecord
  BY <1>7 DEF G, Steady, Alike
<1> HIDE DEF q
<1>9. p \in SessRecord
  BY <1>8, EmptySeq DEF SessRecord
<1>10. /\ Steady(p, q) /\ p.input = <<>> /\ p.read = q.read /\ p.made = q.made /\ p.out = q.out
       /\ p.up = q.up /\ p.err = q.err
  BY <1>8, <1>9 DEF Steady, Alike, SessRecord
<1>11. Worked(r) = p
  BY <1>3 DEF q
<1> HIDE DEF p
<1>12. Popped(p) = Popped(r) /\ Lined(p) /\ Taken(p) = Taken(r)
  BY <1>1, <1>8, <1>10 DEF Popped, Lined, Taken, Pipe
<1>13. Pipe(p) /\ Queue(p)
  BY <1>8, <1>10, <1>12 DEF Pipe, Steady, Queue
<1> QED
  BY <1>8, <1>10, <1>11, <1>12, <1>13, SteadyChain DEF Goes, Streams

\* The next message joins the queue of the engine.
LEMMA FedStreams ==
    ASSUME NEW r \in SessRecord, Streams(r), NEW m \in Message, m.n = Taken(r) + 1, Placed(m)
    PROVE  LET q == Fed(r, m) IN
           Steady(q, r) /\ Streams(q) /\ Popped(q) = Popped(r) /\ Taken(q) = Taken(r) + 1
<1> DEFINE input == Append(r.input, m)
           q == [r EXCEPT !.input = input]
           N == Len(r.input)
<1>1. /\ r.input \in Seq(Message) /\ N \in Nat /\ r.read \in Nat
      /\ input \in Seq(Message) /\ Len(input) = N + 1
      /\ \A i \in 1..N : input[i] = r.input[i]
      /\ input[N + 1] = m
  BY SessionParts, LenProperties, AppendProperties
<1> HIDE DEF input, N
<1>2. q \in SessRecord
  BY <1>1 DEF SessRecord
<1>3. /\ Steady(q, r) /\ q.input = input /\ q.read = r.read /\ q.made = r.made /\ q.out = r.out
      /\ q.up = r.up /\ q.err = r.err
  BY <1>2 DEF Steady, Alike, SessRecord
<1>4. Fed(r, m) = q
  BY DEF Fed, input
<1> HIDE DEF q
<1>5. Popped(q) = Popped(r) /\ Lined(q) /\ Taken(q) = Taken(r) + 1
  <2>1. Popped(q) = Popped(r)
    BY <1>3 DEF Popped
  <2>2. Lined(q)
    BY <1>3, <2>1 DEF Lined, Streams, Pipe
  <2>3. Taken(q) = r.read + (N + 1) /\ Taken(r) = r.read + N
    BY <1>1, <1>3 DEF Taken, N
  <2> QED
    BY <1>1, <2>1, <2>2, <2>3
<1>6. Pipe(q)
  BY <1>3, <1>5 DEF Pipe, Steady, Streams
<1>7. ASSUME NEW i \in 1..Len(q.input)
      PROVE  q.input[i].n = q.read + i /\ Placed(q.input[i])
  <2>1. i \in 1..(N + 1)
    BY <1>1, <1>3
  <2>2. CASE i \in 1..N
    BY <1>1, <1>3, <2>2 DEF Streams, Queue, N
  <2>3. CASE i = N + 1
    <3>1. q.input[i] = m /\ m.n = r.read + (N + 1)
      BY <1>1, <1>3, <2>3 DEF Taken, N
    <3> QED
      BY <1>3, <2>3, <3>1
  <2> QED
    BY <1>1, <2>1, <2>2, <2>3
<1> QED
  BY <1>3, <1>4, <1>5, <1>6, <1>7 DEF Streams, Queue

\* Whenever the wait for the engine ends, the session is in order.
LEMMA WaitedGoes ==
    ASSUME NEW r \in SessRecord, Streams(r), r.st = "live", NEW w \in Waited(r)
    PROVE  Goes(w, r)
<1>1. w = Worked(r) \/ w = [r EXCEPT !.early = TRUE]
  BY DEF Waited
<1> DEFINE q == [r EXCEPT !.early = TRUE]
<1>2. q \in SessRecord
  BY DEF SessRecord
<1>3. /\ Steady(q, r) /\ q.input = r.input /\ q.read = r.read /\ q.made = r.made /\ q.out = r.out
      /\ q.up = r.up /\ q.err = r.err
  BY <1>2 DEF Steady, Alike, SessRecord
<1> HIDE DEF q
<1>4. Popped(q) = Popped(r) /\ Lined(q) /\ Taken(q) = Taken(r)
  BY <1>3 DEF Popped, Lined, Taken, Streams, Pipe
<1>5. Pipe(q) /\ Queue(q)
  BY <1>3, <1>4 DEF Pipe, Steady, Streams, Queue
<1> QED
  BY <1>1, <1>3, <1>4, <1>5, WorkedGoes DEF q, Goes, Streams

\* What a step leaves: the packet is served, and the answer kept that is sent
\* again when the packet comes again.
LEMMA PopReplied ==
    ASSUME NEW r \in SessRecord, NEW k, k.got \in Nat, NEW v, Ready(k, r), r.inner = "failed" => v = "no"
    PROVE  LET q == AfterPop(r) IN
           /\ Replied(k, q, v) /\ q.lastUsed = r.lastUsed /\ q.st = r.st
           /\ q.lastResp = PopOrAck(r)
<1> DEFINE out == IF r.out = <<>> THEN <<>> ELSE Tail(r.out)
           id == NextId(r.reqID)
           resp == PopOrAck(r)
           q == [r EXCEPT !.out = out, !.reqID = id, !.lastResp = resp]
           M == Len(r.out)
<1>1. /\ r.out \in Seq([no: Nat, said: Said]) /\ r.made \in Nat /\ M \in Nat
      /\ r.read \in Nat /\ Len(r.input) \in Nat
  BY SessionParts, LenProperties
<1>2. AfterPop(r) = q /\ AfterPop(r) \in SessRecord
  BY AfterPopFits DEF AfterPop
<1>3. /\ r.out = <<>> => out = <<>> /\ M = 0
      /\ r.out # <<>> => /\ M >= 1 /\ Len(out) = M - 1
                         /\ \A i \in 1..(M - 1) : out[i] = r.out[i + 1]
                         /\ Head(r.out) = r.out[1]
  BY <1>1, HeadTailProperties, EmptySeq, LenProperties
<1>4. /\ r.out = <<>> => resp.kind = "ack"
      /\ r.out # <<>> => resp.kind = "data" /\ resp.no = Head(r.out).no /\ resp.said = Head(r.out).said
  BY DEF PopOrAck, NoRequest
<1> HIDE DEF out, id, resp, M
<1>5. /\ q.out = out /\ q.made = r.made /\ q.lastResp = resp /\ q.input = r.input /\ q.read = r.read
      /\ q.up = r.up /\ q.err = r.err /\ q.phase = r.phase /\ q.inner = r.inner /\ q.buf = r.buf
      /\ q.st = r.st /\ q.lastReq = r.lastReq /\ q.lastUsed = r.lastUsed
  BY DEF SessRecord
<1> HIDE DEF q
<1>6. Taken(q) = Taken(r) /\ Queue(q)
  BY <1>5 DEF Taken, Queue, Ready, Served
<1>7. CASE r.out = <<>>
  <2>1. Popped(q) = Popped(r) /\ Lined(q)
    BY <1>1, <1>3, <1>5, <1>7, EmptySeq DEF Popped, M, Lined
  <2>2. Pipe(q)
    BY <1>5, <2>1 DEF Pipe, Ready, Served
  <2> QED
    BY <1>2, <1>4, <1>5, <1>6, <1>7, <2>1, <2>2 DEF Replied, Ready, Served, resp
<1>8. CASE r.out # <<>>
  <2>1. Popped(q) = r.made - (M - 1) /\ Popped(r) = r.made - M /\ Popped(q) = Popped(r) + 1
    <3>1. Popped(q) = r.made - (M - 1)
      BY <1>3, <1>5, <1>8 DEF Popped
    <3>2. Popped(r) = r.made - M
      BY DEF Popped, M
    <3> QED
      BY <1>1, <3>1, <3>2
  <2>2. ASSUME NEW i \in 1..Len(q.out)
        PROVE  q.out[i].no = Popped(q) + i /\ Numbered(q.out[i].no, q.out[i].said)
    <3>1. i \in 1..(M - 1) /\ i + 1 \in 1..M /\ q.out[i] = r.out[i + 1]
      BY <1>1, <1>3, <1>5, <1>8
    <3>2. r.out[i + 1].no = Popped(r) + (i + 1) /\ Numbered(r.out[i + 1].no, r.out[i + 1].said)
      BY <3>1 DEF Ready, Served, Pipe, Lined, M
    <3>3. Popped(r) + (i + 1) = Popped(q) + i
      <4>1. i \in Int
        BY <1>1, <3>1
      <4>2. r.made \in Int /\ M \in Int
        BY <1>1
      <4>3. (r.made - M) + (i + 1) = (r.made - (M - 1)) + i
        BY <4>1, <4>2
      <4> QED
        BY <2>1, <4>3
    <3> QED
      BY <3>1, <3>2, <3>3
  <2>3. Pipe(q)
    BY <1>5, <2>2 DEF Pipe, Lined, Ready, Served
  <2>4. r.out[1].no = Popped(r) + 1 /\ Numbered(r.out[1].no, r.out[1].said)
    <3>1. 1 \in 1..Len(r.out)
      BY <1>1, <1>3, <1>8 DEF M
    <3> QED
      BY <3>1 DEF Ready, Served, Pipe, Lined
  <2>5. resp.no = k.got + 1 /\ Numbered(resp.no, resp.said) /\ Popped(q) = k.got + 1
    BY <1>3, <1>4, <1>8, <2>1, <2>4 DEF Ready
  <2> QED
    BY <1>2, <1>4, <1>5, <1>6, <1>8, <2>3, <2>5 DEF Replied, Ready, Served, resp
<1> QED
  BY <1>7, <1>8

-----------------------------------------------------------------------------
(* A session that is ready to answer.                                      *)

\* What a step changes outside of the streams.
Level(q, r) ==
    /\ q \in SessRecord
    /\ q.st = r.st /\ q.lastReq = r.lastReq /\ q.lastResp = r.lastResp /\ q.lastUsed = r.lastUsed
    /\ q.buf = r.buf /\ q.input = r.input /\ q.read = r.read /\ q.up = r.up /\ q.err = r.err
    /\ q.out = r.out /\ q.made = r.made

LEMMA StreamsLevel ==
    ASSUME NEW q, NEW r, Level(q, r), Streams(r), q.phase # r.phase => r.read >= 2
    PROVE  Streams(q) /\ Popped(q) = Popped(r) /\ Taken(q) = Taken(r)
<1>1. Popped(q) = Popped(r) /\ Taken(q) = Taken(r) /\ Queue(q)
  BY DEF Level, Streams, Popped, Taken, Queue
<1>2. Pipe(q)
  BY <1>1 DEF Level, Streams, Pipe, Lined
<1> QED
  BY <1>1, <1>2 DEF Streams

LEMMA ReadyLevel ==
    ASSUME NEW q, NEW r, NEW k, Level(q, r), Ready(k, r), q.phase # r.phase => r.read >= 2
    PROVE  Ready(k, q)
BY StreamsLevel DEF Level, Ready, Served, Streams

LEMMA ReadyGoes ==
    ASSUME NEW q, NEW r, NEW k, Goes(q, r), Ready(k, r)
    PROVE  Ready(k, q)
BY DEF Goes, Streams, Steady, Alike, Ready, Served

LEMMA ReadyPush ==
    ASSUME NEW r \in SessRecord, NEW k, Ready(k, r), r.read >= 2, NEW said \in Said \ {"flight", "more"}
    PROVE  LET q == PushOut(r, said) IN
           /\ Ready(k, q) /\ q \in SessRecord /\ q.inner = r.inner /\ q.lastUsed = r.lastUsed
<1> DEFINE q == PushOut(r, said)
<1>1. Steady(q, r) /\ q.input = r.input /\ q.read = r.read /\ Popped(q) = Popped(r)
  BY PushOutSays
<1>2. Pipe(q)
  BY PushOutPipe DEF Ready, Served
<1> HIDE DEF q
<1>3. Taken(q) = Taken(r) /\ Queue(q)
  BY <1>1 DEF Taken, Queue, Ready, Served
<1> QED
  BY <1>1, <1>2, <1>3 DEF Ready, Served, Steady, Alike, q

\* The session takes the packet it has been waiting for: nothing of it is out
\* of its place.
BegunFor(k, r) == [r EXCEPT !.lastReq = k.cur]
ClearedFor(k, r) == [BegunFor(k, r) EXCEPT !.buf = <<>>]

LEMMA BegunReady ==
    ASSUME NEW r \in SessRecord, r.st = "live", NEW k \in ClientRecord, k.cur \in Packet, NEW v,
           Waits(k, r, v), Carries(k)
    PROVE  LET m == k.cur.body
               b == BegunFor(k, r)
               e == ClearedFor(k, r)
               f == Fed(e, m)
           IN  /\ m.part # "first" => Fits(r.buf, m)
               /\ b \in SessRecord /\ e \in SessRecord
               /\ e.phase = r.phase /\ e.inner = r.inner /\ e.up = r.up /\ e.read = r.read
               /\ e.lastUsed = r.lastUsed /\ e.app = r.app
               /\ m = Empty => Ready(k, e)
               /\ m.part = "first" =>
                    LET g == [b EXCEPT !.buf = Append(@, m)] IN
                    Ready(k, g) /\ g \in SessRecord /\ g.inner = r.inner /\ g.lastUsed = r.lastUsed
               /\ m # Empty /\ m.part # "first" => Ready(k, f) /\ Steady(f, e)
<1> DEFINE m == k.cur.body
           b == [r EXCEPT !.lastReq = k.cur]
           e == [b EXCEPT !.buf = <<>>]
           g == [b EXCEPT !.buf = Append(@, m)]
           f == Fed(e, m)
<1>1. /\ m \in Message /\ k.sent \in Nat /\ m.n \in Nat /\ m.part \in {"whole", "first", "last"}
      /\ Empty.part = "whole" /\ Empty.n = 0
      /\ r.buf \in Seq(Message) /\ r.read \in Nat /\ Len(r.input) \in Nat /\ r.made \in Nat
      /\ Len(r.out) \in Nat
  BY SessionParts, LenProperties DEF Packet, Message, ClientRecord, Empty
<1>2. /\ b \in SessRecord /\ b.lastReq = k.cur /\ b.buf = r.buf /\ b.phase = r.phase
      /\ b.inner = r.inner /\ b.lastUsed = r.lastUsed /\ b.app = r.app
      /\ b.st = r.st /\ b.lastResp = r.lastResp /\ b.input = r.input /\ b.read = r.read
      /\ b.up = r.up /\ b.err = r.err /\ b.out = r.out /\ b.made = r.made
  BY DEF SessRecord
<1>3. m.part = "first" => r.buf = <<>>
  BY DEF Waits
<1>4. Append(r.buf, m) \in Seq(Message) /\ (r.buf = <<>> => Append(r.buf, m) = <<m>>)
  <2>1. Append(r.buf, m) \in Seq(Message)
    BY <1>1, AppendProperties
  <2> HIDE DEF m
  <2>2. Append(<<>>, m) = <<m>>
    OBVIOUS
  <2> QED
    BY <2>1, <2>2
<1> HIDE DEF m, b
<1>5. /\ e \in SessRecord /\ e.lastReq = k.cur /\ e.buf = <<>> /\ e.phase = r.phase
      /\ e.inner = r.inner /\ e.lastUsed = r.lastUsed /\ e.app = r.app
      /\ e.st = r.st /\ e.lastResp = r.lastResp /\ e.input = r.input /\ e.read = r.read
      /\ e.up = r.up /\ e.err = r.err /\ e.out = r.out /\ e.made = r.made
  BY <1>2, EmptySeq DEF SessRecord
<1>6. m.part = "first" =>
      /\ g \in SessRecord /\ g.lastReq = k.cur /\ g.buf = <<m>> /\ g.phase = r.phase
      /\ g.inner = r.inner /\ g.lastUsed = r.lastUsed
      /\ g.st = r.st /\ g.lastResp = r.lastResp /\ g.input = r.input /\ g.read = r.read
      /\ g.up = r.up /\ g.err = r.err /\ g.out = r.out /\ g.made = r.made
  BY <1>2, <1>3, <1>4 DEF SessRecord
<1> HIDE DEF e, g
<1>7. /\ Streams(r) /\ Popped(r) = k.got /\ r.lastResp.id = k.lastId
      /\ Taken(r) = (IF Adds(k) THEN k.sent - 1 ELSE k.sent)
  BY DEF Waits, Streams
<1>8. Streams(e) /\ Popped(e) = Popped(r) /\ Taken(e) = Taken(r)
  <2>1. Popped(e) = Popped(r) /\ Taken(e) = Taken(r) /\ Queue(e)
    BY <1>5, <1>7 DEF Streams, Popped, Taken, Queue
  <2> QED
    BY <1>5, <1>7, <2>1 DEF Streams, Pipe, Lined
<1>9. m = Empty => Ready(k, e)
  BY <1>1, <1>5, <1>7, <1>8 DEF Ready, Served, Streams, Adds, m
<1>10. ASSUME m.part = "first"
       PROVE  Ready(k, g)
  <2>1. Popped(g) = Popped(r) /\ Taken(g) = Taken(r) /\ Queue(g)
    BY <1>6, <1>7, <1>10 DEF Streams, Popped, Taken, Queue
  <2>2. Pipe(g)
    BY <1>6, <1>7, <1>10, <2>1 DEF Streams, Pipe, Lined
  <2> QED
    BY <1>6, <1>7, <1>10, <2>1, <2>2 DEF Ready, Served, Adds, m
<1>11. ASSUME m # Empty, m.part # "first"
       PROVE  Ready(k, f) /\ Steady(f, e)
  <2>1. m.n = k.sent /\ Placed(m)
    BY <1>1, <1>11 DEF Carries, Placed, m
  <2>2. m.n = Taken(e) + 1 /\ Taken(e) + 1 = k.sent
    BY <1>1, <1>7, <1>8, <1>11, <2>1 DEF Adds, m
  <2>3. Steady(f, e) /\ Streams(f) /\ Popped(f) = Popped(e) /\ Taken(f) = Taken(e) + 1
    BY <1>1, <1>5, <1>8, <2>1, <2>2, FedStreams
  <2> HIDE DEF f
  <2> QED
    BY <1>5, <1>7, <1>8, <1>11, <2>2, <2>3 DEF Ready, Served, Streams, Steady, Alike, m
<1>12. m.part # "first" => Fits(r.buf, m)
  BY <1>1 DEF Waits, Fits, m
<1> QED
  BY <1>2, <1>5, <1>6, <1>9, <1>10, <1>11, <1>12 DEF BegunFor, ClearedFor, m, b, e, g

-----------------------------------------------------------------------------
(* What the steps of others leave alone.                                   *)

\* The settings of the server that the property is about: a push is waited
\* for less long than a session may idle before it makes room for another
\* (eapEvictIdle; radius.push_wait is 20 s unless set otherwise), and that is
\* no longer than a session lives (eapSessionTTL).
Patient == PushWait < EvictIdle /\ EvictIdle <= TTL

\* What the supplicant, its answers and its handlers speak of is its own.
Belong(c, k, hd, an, tab) ==
    /\ k.state # None => k.state \in Sess /\ tab[k.state].owner = c
    /\ \A i \in 1..Len(an) : an[i].state # None => an[i].state \in Sess /\ tab[an[i].state].owner = c
    /\ \A h \in Handler : hd[h].pc # "idle" /\ hd[h].c = c /\ hd[h].s # None =>
         /\ hd[h].s \in Sess /\ hd[h].s = hd[h].p.state
         /\ tab[hd[h].s].owner = c /\ tab[hd[h].s].st # "absent"

LEMMA Belongs ==
    ASSUME Fit, NEW c \in Client
    PROVE  /\ Belong(c, cl[c], hand, ans[c], sess)
           /\ ans[c] \in Seq(Reply) /\ cl[c] \in ClientRecord /\ now \in Nat
           /\ hand \in [Handler -> HandRecord] /\ sess \in [Sess -> SessRecord]
<1>1. ClientFits(cl[c], c, Owners, Able)
  BY DEF Fit, ClientsFit
<1>2. cl[c] \in ClientRecord
  BY <1>1 DEF ClientFits
<1>3. cl[c].state # None => cl[c].state \in Sess /\ sess[cl[c].state].owner = c
  BY <1>1, <1>2 DEF ClientFits, ClientRecord, Owners, OwnersIn
<1>4. ASSUME NEW i \in 1..Len(ans[c]), ans[c][i].state # None
      PROVE  ans[c][i].state \in Sess /\ sess[ans[c][i].state].owner = c
  <2>1. AnswerFits(ans[c][i], c, Owners, Able, proven)
    BY DEF Fit, AnswersFit
  <2>2. ans[c][i].state \in Sess
    BY <1>4, <2>1 DEF AnswerFits, Reply
  <2> QED
    BY <1>4, <2>1, <2>2 DEF AnswerFits, Owners, OwnersIn
<1>5. ASSUME NEW h \in Handler, hand[h].pc # "idle", hand[h].c = c, hand[h].s # None
      PROVE  /\ hand[h].s \in Sess /\ hand[h].s = hand[h].p.state
             /\ sess[hand[h].s].owner = c /\ sess[hand[h].s].st # "absent"
  <2>1. HandlerFits(hand[h], sess, Owners, Able)
    BY DEF Fit, HandlersFit
  <2> QED
    BY <1>5, <2>1, Holding DEF HandlerFits
<1> QED
  BY <1>2, <1>3, <1>4, <1>5 DEF Belong, Fit, AnswersFit, HandlersFit, SessionsFit

\* Nobody else's step touches a supplicant's exchange.
LEMMA BystanderKept ==
    ASSUME Patient, NEW c \in Client, NEW k, NEW tab, NEW tab2, NEW hd, NEW hd2, NEW an, NEW t \in Nat, NEW v,
           Belong(c, k, hd, an, tab), Holds(c, k, tab, hd, an, t, v),
           \A s \in Sess : /\ tab[s].owner = c /\ (tab[s].st = "gone" \/ Fresh(tab[s], t))
                           /\ s = k.state \/ Untouched(tab[s])
                           => tab2[s] = tab[s],
           \A h \in Handler : hd[h].pc # "idle" /\ hd[h].c = c => hd2[h] = hd[h],
           \A h \in Handler : hd2[h].pc # "idle" /\ hd2[h].c = c => hd2[h] = hd[h]
    PROVE  Holds(c, k, tab2, hd2, an, t, v)
<1>1. Authing(c, hd2) = Authing(c, hd)
  BY DEF Authing
<1>2. k.pc = "idle" => Unborn(c, k, hd2, an, v)
  BY DEF Holds, Unborn
<1>3. ASSUME k.pc \in {"await", "rejected"}
      PROVE  Going(c, k, tab2, hd2, an, t, v)
  <2>1. Going(c, k, tab, hd, an, t, v) /\ k.cur.state = k.state
    BY <1>3 DEF Holds, Going, Coherent
  <2>2. Attended(c, k, tab2, hd2, t)
    <3>1. EvictIdle \in Nat /\ EvictIdle > 0 /\ PushWait \in Nat
      BY EapAssumption DEF Patient
    <3>2. k.state # None /\ tab[k.state].st = "gone" => tab2[k.state] = tab[k.state]
      BY DEF Belong
    <3>3. ASSUME NEW h \in Handler, hd2[h].pc = "step", hd2[h].c = c, hd2[h].s # None
          PROVE  tab2[hd2[h].s].lastUsed = t \/ tab2[hd2[h].s].st = "gone"
      <4>1. hd2[h] = hd[h]
        BY <3>3
      <4>2. hd[h].s \in Sess /\ tab[hd[h].s].owner = c /\ hd[h].s = k.state
        BY <2>1, <3>3, <4>1 DEF Belong, Going, Coherent, Attended
      <4>3. tab[hd[h].s].lastUsed = t \/ tab[hd[h].s].st = "gone"
        BY <2>1, <3>3, <4>1 DEF Going, Coherent, Attended
      <4>4. tab[hd[h].s].lastUsed = t => Fresh(tab[hd[h].s], t)
        BY <3>1 DEF Fresh
      <4> QED
        BY <4>1, <4>2, <4>3, <4>4
    <3>4. ASSUME NEW h \in Handler, hd2[h].pc # "idle", hd2[h].c = c
          PROVE  /\ hd2[h].p = k.cur
                 /\ hd2[h].pc = "step" /\ hd2[h].s = None => k.cur.state = None \/ tab2[k.cur.state].st = "gone"
      <4>1. hd2[h] = hd[h]
        BY <3>4
      <4> QED
        BY <2>1, <3>2, <3>4, <4>1 DEF Going, Coherent, Attended
    <3> QED
      BY <3>3, <3>4 DEF Attended
  <2>3. InIdentity(c, k, tab, hd, an, t, v) => InIdentity(c, k, tab2, hd2, an, t, v)
    <3> SUFFICES ASSUME InIdentity(c, k, tab, hd, an, t, v) PROVE InIdentity(c, k, tab2, hd2, an, t, v)
      OBVIOUS
    <3>1. ASSUME NEW i \in To(k.cur, an), an[i].state \in Sess, Fresh(tab[an[i].state], t),
                 Untouched(tab[an[i].state])
          PROVE  tab2[an[i].state] = tab[an[i].state]
      <4>1. tab[an[i].state].owner = c
        BY <3>1, Constants DEF Belong, To
      <4> QED
        BY <3>1, <4>1
    <3> QED
      BY <1>1, <3>1 DEF InIdentity
  <2>4. InNak(c, k, tab, hd, an, t, v) => InNak(c, k, tab2, hd2, an, t, v)
    BY <1>1 DEF InNak, Belong
  <2>5. InTurn(c, k, tab, hd, an, t, v) => InTurn(c, k, tab2, hd2, an, t, v)
    <3> SUFFICES ASSUME InTurn(c, k, tab, hd, an, t, v) PROVE InTurn(c, k, tab2, hd2, an, t, v)
      OBVIOUS
    <3>1. tab2[k.state] = tab[k.state]
      BY DEF InTurn, Speaks, Belong
    <3>2. \A h \in Handler : Authing(c, hd) = {h} => hd2[h] = hd[h]
      BY DEF Authing
    <3> QED
      BY <1>1, <3>1, <3>2 DEF InTurn
  <2>6. IsOver(c, k, tab, hd, an, t, v) => IsOver(c, k, tab2, hd2, an, t, v)
    BY <1>1 DEF IsOver, Belong
  <2> QED
    BY <2>1, <2>2, <2>3, <2>4, <2>5, <2>6 DEF Going, Coherent
<1> QED
  BY <1>2, <1>3 DEF Holds

\* A handler of the supplicant has answered its packet.
LEMMA AuthingDone ==
    ASSUME NEW c \in Client, NEW hd \in [Handler -> HandRecord], NEW h \in Handler
    PROVE  Authing(c, [hd EXCEPT ![h] = Idle]) = Authing(c, hd) \ {h}
<1> DEFINE hd2 == [hd EXCEPT ![h] = Idle]
<1>1. /\ Idle.pc = "idle"
      /\ \A g \in Handler : hd2[g] = IF g = h THEN Idle ELSE hd[g]
  BY DEF Idle
<1> HIDE DEF hd2
<1>2. Authing(c, hd2) = Authing(c, hd) \ {h}
  BY <1>1 DEF Authing
<1> QED
  BY <1>2 DEF hd2

AddsTo(p, an2, an, a) ==
    /\ To(p, an2) = To(p, an) \cup {Len(an) + 1}
    /\ an2[Len(an) + 1] = a /\ Len(an) + 1 \notin To(p, an)
    /\ \A i \in To(p, an) : an2[i] = an[i] /\ i < Len(an) + 1

LEMMA AnswersAdd ==
    ASSUME NEW an \in Seq(Reply), NEW a \in Reply
    PROVE  AddsTo(a.to, Append(an, a), an, a)
<1> DEFINE p == a.to
           an2 == Append(an, a)
           N == Len(an) + 1
<1>2. /\ Len(an) \in Nat /\ Len(an2) = N /\ an2[N] = a
      /\ \A i \in 1..Len(an) : an2[i] = an[i]
  BY AppendProperties, LenProperties
<1>3. \A i \in 1..N : i \in 1..Len(an) \/ i = N
  BY <1>2
<1>4. N \in 1..N /\ N \notin 1..Len(an) /\ \A i \in 1..Len(an) : i \in 1..N /\ i < N
  BY <1>2
<1>5. a.to = p
  OBVIOUS
<1> HIDE DEF an2, N, p
<1>6. \A i : i \in To(p, an2) <=> (i \in 1..N /\ an2[i].to = p)
  BY <1>2 DEF To
<1>7. \A i : i \in To(p, an) <=> (i \in 1..Len(an) /\ an[i].to = p)
  BY DEF To
<1>8. \A i : i \in To(p, an2) <=> (i \in To(p, an) \/ i = N)
  BY <1>2, <1>3, <1>4, <1>5, <1>6, <1>7
<1>9. To(p, an2) = To(p, an) \cup {N}
  BY <1>8
<1> QED
  BY <1>2, <1>4, <1>7, <1>9 DEF AddsTo, an2, N, p

LEMMA AnsweredCoherent ==
    ASSUME NEW c \in Client, NEW k, NEW tab, NEW tab2, NEW hd \in [Handler -> HandRecord],
           NEW an \in Seq(Reply), NEW t, NEW v, NEW v2, NEW h \in Handler, NEW a \in Reply,
           Belong(c, k, hd, an, tab), Coherent(c, k, tab, hd, an, t, v), a.to = k.cur,
           k.state # None =>
              /\ tab[k.state].st = "gone" => tab2[k.state].st = "gone"
              /\ tab2[k.state].lastUsed = tab[k.state].lastUsed \/ tab2[k.state].st = "gone",
           k.pc = "rejected" => v2 \in {"no", "full"}
    PROVE  Coherent(c, k, tab2, [hd EXCEPT ![h] = Idle], Append(an, a), t, v2)
<1> DEFINE hd2 == [hd EXCEPT ![h] = Idle]
           an2 == Append(an, a)
           N == Len(an) + 1
<1>1. /\ Idle.pc = "idle"
      /\ \A g \in Handler : hd2[g] = IF g = h THEN Idle ELSE hd[g]
  BY DEF Idle
<1>2. /\ Len(an) \in Nat /\ Len(an2) = N /\ an2[N] = a
      /\ \A i \in 1..Len(an) : an2[i] = an[i]
  BY AppendProperties, LenProperties
<1>3. \A i \in 1..N : i \in 1..Len(an) \/ i = N
  BY <1>2
<1> HIDE DEF hd2, an2
<1>6. ASSUME NEW i \in 1..Len(an2), NEW j \in 1..Len(an2), i < j, an2[i].to = k.cur
      PROVE  an2[j].to = k.cur
  <2>1. \A m, n \in 1..Len(an) : m < n /\ an[m].to = k.cur => an[n].to = k.cur
    BY DEF Coherent
  <2>2. CASE j = N
    BY <1>2, <2>2
  <2>3. CASE j \in 1..Len(an)
    <3>1. i \in 1..Len(an)
      BY <1>2, <1>6, <2>3
    <3> QED
      BY <1>2, <1>6, <2>1, <2>3, <3>1
  <2> QED
    BY <1>2, <1>3, <2>2, <2>3
<1>7. Attended(c, k, tab2, hd2, t)
  <2>1. Attended(c, k, tab, hd, t) /\ k.cur.state = k.state
    BY DEF Coherent
  <2>2. ASSUME NEW g \in Handler, hd2[g].pc # "idle", hd2[g].c = c
        PROVE  /\ hd2[g].p = k.cur
               /\ hd2[g].pc = "step" /\ hd2[g].s = None => k.cur.state = None \/ tab2[k.cur.state].st = "gone"
               /\ hd2[g].pc = "step" /\ hd2[g].s # None => tab2[hd2[g].s].lastUsed = t \/ tab2[hd2[g].s].st = "gone"
    <3>1. hd2[g] = hd[g]
      BY <1>1, <2>2
    <3>2. hd[g].p = k.cur /\ (hd[g].s # None => hd[g].s = k.state)
      BY <2>1, <2>2, <3>1 DEF Attended, Belong
    <3> QED
      BY <2>1, <2>2, <3>1, <3>2 DEF Attended
  <2> QED
    BY <2>2 DEF Attended
<1> QED
  BY <1>6, <1>7 DEF Coherent, hd2, an2

-----------------------------------------------------------------------------
(* How a handler answers the packet of a supplicant it spared.             *)

GoingNow(c) == Going(c, cl[c], sess, hand, ans[c], now, verdict[c])

\* The handler h works on what c waits for.
AtTurn(c, h) ==
    LET k == cl[c]
        r == sess[k.state]
    IN  /\ hand[h].pc # "idle" /\ hand[h].c = c /\ hand[h].p = k.cur
        /\ k.state # None /\ hand[h].s = k.state
        /\ hand[h].pc = "step" => r.lastUsed = now
        /\ k.pc = "await" /\ Tunnelling(k.cur) /\ Speaks(k)
        /\ r.st = "live" /\ Fresh(r, now)
        /\ \A i \in To(k.cur, ans[c]) :
             ans[c][i].code = "challenge" /\ ans[c][i].state = k.state /\ ans[c][i].req.id = k.lastId
        /\ Authing(c, hand) \subseteq {h}

LEMMA PumpGoing ==
    ASSUME Fit, NEW c \in Client, NEW h \in Handler, GoingNow(c), AtTurn(c, h),
           NEW q \in SessRecord, Ready(cl[c], q), q.lastUsed = sess[cl[c].state].lastUsed,
           q.inner = "failed" => verdict'[c] = "no",
           Pump(h, q), UNCHANGED <<cl, now>>
    PROVE  GoingNow(c)'
<1> DEFINE k == cl[c]
           s == k.state
           p == AfterPop(q)
           a == [code |-> "challenge", to |-> hand[h].p, state |-> s, req |-> PopOrAck(q), name |-> None]
           an == ans[c]
           v2 == verdict'[c]
<1>1. /\ k \in ClientRecord /\ an \in Seq(Reply) /\ hand \in [Handler -> HandRecord]
      /\ sess \in [Sess -> SessRecord] /\ Belong(c, k, hand, an, sess) /\ ans \in [Client -> Seq(Reply)]
  BY Belongs DEF Fit, AnswersFit
<1>2. /\ s \in Sess /\ hand[h].p \in Packet /\ hand[h].pc # "idle" /\ hand[h].c = c
      /\ hand[h].p = k.cur /\ hand[h].s = s /\ s # None /\ sess[s].st = "live" /\ k.pc = "await"
  BY <1>1, Holding DEF AtTurn, Belong
<1>3. sess' = [sess EXCEPT ![s] = p] /\ hand' = [hand EXCEPT ![h] = Idle]
      /\ ans' = [ans EXCEPT ![c] = Append(@, a)]
  BY <1>2 DEF Pump, Say, Done, Idle
<1>4. Replied(k, p, v2) /\ p.lastUsed = q.lastUsed /\ p.st = q.st /\ p.lastResp = PopOrAck(q)
  BY <1>1, PopReplied DEF ClientRecord
<1>5. a \in Reply
  BY <1>2, PopFits DEF Reply
<1> HIDE DEF p, v2
<1>6. sess'[s] = p /\ ans'[c] = Append(an, a) /\ cl'[c] = k /\ now' = now
  BY <1>1, <1>2, <1>3
<1>7. Going(c, k, sess, hand, an, now, verdict[c])
  BY DEF GoingNow
<1> DEFINE N == Len(an) + 1
<1> HIDE DEF k
<1>8. /\ Authing(c, hand') = Authing(c, hand) \ {h}
      /\ To(k.cur, ans'[c]) = To(k.cur, an) \cup {N} /\ ans'[c][N] = a
      /\ \A i \in To(k.cur, an) : ans'[c][i] = an[i]
      /\ Coherent(c, k, sess', hand', ans'[c], now, v2)
  <2>1. /\ a.to = k.cur /\ k.pc # "rejected" /\ sess[s].st # "gone"
        /\ sess'[s].lastUsed = sess[s].lastUsed \/ sess'[s].st = "gone"
    BY <1>2, <1>4, <1>6 DEF k
  <2>2. Coherent(c, k, sess, hand, an, now, verdict[c])
    BY <1>7 DEF Going
  <2> HIDE DEF a, an, v2
  <2>3. Coherent(c, k, sess', [hand EXCEPT ![h] = Idle], Append(an, a), now, v2)
    BY <1>1, <1>2, <1>5, <2>1, <2>2, AnsweredCoherent
  <2>4. /\ Authing(c, [hand EXCEPT ![h] = Idle]) = Authing(c, hand) \ {h}
        /\ To(k.cur, Append(an, a)) = To(k.cur, an) \cup {Len(an) + 1}
        /\ Append(an, a)[Len(an) + 1] = a
        /\ \A i \in To(k.cur, an) : Append(an, a)[i] = an[i] /\ i < Len(an) + 1
    <3> HIDE DEF N
    <3>1. an \in Seq(Reply) /\ hand \in [Handler -> HandRecord] /\ a.to = k.cur /\ a \in Reply
      BY <1>1, <1>5, <2>1
    <3>2. Authing(c, [hand EXCEPT ![h] = Idle]) = Authing(c, hand) \ {h}
      BY <3>1, AuthingDone
    <3>3. AddsTo(a.to, Append(an, a), an, a)
      BY <3>1, AnswersAdd
    <3>4. AddsTo(k.cur, Append(an, a), an, a)
      BY <3>1, <3>3
    <3> HIDE DEF k
    <3> QED
      BY <3>2, <3>4 DEF AddsTo
  <2> QED
    BY <1>3, <1>6, <2>3, <2>4
<1>9. InTurn(c, k, sess', hand', ans'[c], now, v2)
  <2>1. /\ k.pc = "await" /\ Tunnelling(k.cur) /\ Speaks(k) /\ Fresh(sess[s], now)
        /\ \A i \in To(k.cur, an) : an[i].code = "challenge" /\ an[i].state = s /\ an[i].req.id = k.lastId
        /\ Authing(c, hand) \subseteq {h}
    BY DEF AtTurn, k
  <2>2. p.st = "live" /\ Fresh(p, now)
    BY <1>4, <2>1 DEF Ready, Served, Fresh, k
  <2>3. Authing(c, hand') = {}
    BY <1>8, <2>1
  <2>4. a.code = "challenge" /\ a.state = s /\ a.req = p.lastResp
    BY <1>4
  <2> HIDE DEF a, an, N
  <2>5. \A i \in To(k.cur, ans'[c]) :
          /\ ans'[c][i].code = "challenge" /\ ans'[c][i].state = s
          /\ ans'[c][i].req.id = k.lastId \/ ans'[c][i].req = p.lastResp
    BY <1>8, <2>1, <2>4
  <2> QED
    BY <1>4, <1>6, <2>1, <2>2, <2>3, <2>5 DEF InTurn
<1> QED
  BY <1>6, <1>8, <1>9 DEF GoingNow, Going, k, v2

\* The exchange is over: the session is forgotten, and the answer is the
\* verdict.
LEMMA GoneGoing ==
    ASSUME Fit, NEW c \in Client, NEW h \in Handler, GoingNow(c), AtTurn(c, h),
           NEW q \in SessRecord, q.lastReq = cl[c].cur, q.lastResp.id = cl[c].lastId,
           NEW code \in {"accept", "reject"}, NEW name \in Client \cup {None, Anon},
           code = "reject" => verdict'[c] \in {"no", "full"},
           sess' = Without(hand[h].s, q), Say(h, code, None, NoRequest, name), Done(h),
           UNCHANGED <<cl, now>>
    PROVE  GoingNow(c)'
<1> DEFINE k == cl[c]
           s == k.state
           p == [q EXCEPT !.st = "gone"]
           a == [code |-> code, to |-> hand[h].p, state |-> None, req |-> NoRequest, name |-> name]
           an == ans[c]
           v2 == verdict'[c]
<1>1. /\ k \in ClientRecord /\ an \in Seq(Reply) /\ hand \in [Handler -> HandRecord]
      /\ sess \in [Sess -> SessRecord] /\ Belong(c, k, hand, an, sess) /\ ans \in [Client -> Seq(Reply)]
  BY Belongs DEF Fit, AnswersFit
<1>2. /\ s \in Sess /\ hand[h].p \in Packet /\ hand[h].pc # "idle" /\ hand[h].c = c
      /\ hand[h].p = k.cur /\ hand[h].s = s /\ s # None /\ sess[s].st = "live" /\ k.pc = "await"
  BY <1>1, Holding DEF AtTurn, Belong
<1>3. sess' = [sess EXCEPT ![s] = p] /\ hand' = [hand EXCEPT ![h] = Idle]
      /\ ans' = [ans EXCEPT ![c] = Append(@, a)]
  BY <1>2 DEF Without, Say, Done, Idle
<1>4. p.st = "gone" /\ p.lastReq = k.cur /\ p.lastResp.id = k.lastId
  BY DEF SessRecord
<1>5. a \in Reply
  BY <1>2, Constants DEF Reply
<1> HIDE DEF p, v2
<1>6. sess'[s] = p /\ ans'[c] = Append(an, a) /\ cl'[c] = k /\ now' = now
  BY <1>1, <1>2, <1>3
<1>7. Going(c, k, sess, hand, an, now, verdict[c])
  BY DEF GoingNow
<1> DEFINE N == Len(an) + 1
<1> HIDE DEF k
<1>8. /\ Authing(c, hand') = Authing(c, hand) \ {h}
      /\ To(k.cur, ans'[c]) = To(k.cur, an) \cup {N} /\ ans'[c][N] = a
      /\ \A i \in To(k.cur, an) : ans'[c][i] = an[i]
      /\ Coherent(c, k, sess', hand', ans'[c], now, v2)
  <2>1. /\ a.to = k.cur /\ k.pc # "rejected" /\ sess[s].st # "gone"
        /\ sess'[s].lastUsed = sess[s].lastUsed \/ sess'[s].st = "gone"
    BY <1>2, <1>4, <1>6 DEF k
  <2>2. Coherent(c, k, sess, hand, an, now, verdict[c])
    BY <1>7 DEF Going
  <2> HIDE DEF a, an, v2
  <2>3. Coherent(c, k, sess', [hand EXCEPT ![h] = Idle], Append(an, a), now, v2)
    BY <1>1, <1>2, <1>5, <2>1, <2>2, AnsweredCoherent
  <2>4. /\ Authing(c, [hand EXCEPT ![h] = Idle]) = Authing(c, hand) \ {h}
        /\ To(k.cur, Append(an, a)) = To(k.cur, an) \cup {Len(an) + 1}
        /\ Append(an, a)[Len(an) + 1] = a
        /\ \A i \in To(k.cur, an) : Append(an, a)[i] = an[i] /\ i < Len(an) + 1
    <3> HIDE DEF N
    <3>1. an \in Seq(Reply) /\ hand \in [Handler -> HandRecord] /\ a.to = k.cur /\ a \in Reply
      BY <1>1, <1>5, <2>1
    <3>2. Authing(c, [hand EXCEPT ![h] = Idle]) = Authing(c, hand) \ {h}
      BY <3>1, AuthingDone
    <3>3. AddsTo(a.to, Append(an, a), an, a)
      BY <3>1, AnswersAdd
    <3>4. AddsTo(k.cur, Append(an, a), an, a)
      BY <3>1, <3>3
    <3> HIDE DEF k
    <3> QED
      BY <3>2, <3>4 DEF AddsTo
  <2> QED
    BY <1>3, <1>6, <2>3, <2>4
<1>9. IsOver(c, k, sess', hand', ans'[c], now, v2)
  <2>1. /\ Tunnelling(k.cur) /\ k.cur.id = k.lastId
        /\ \A i \in To(k.cur, an) : an[i].code = "challenge" /\ an[i].req.id = k.lastId
        /\ Authing(c, hand) \subseteq {h}
    BY DEF AtTurn, k, Speaks
  <2>2. Authing(c, hand') = {}
    BY <1>8, <2>1
  <2>3. a.code = code
    OBVIOUS
  <2>4. code = "reject" => v2 \in {"no", "full"}
    BY DEF v2
  <2> HIDE DEF a, an, N
  <2>5. \A i \in To(k.cur, ans'[c]) :
          \/ ans'[c][i].code = "challenge" /\ ans'[c][i].req.id = k.lastId
          \/ ans'[c][i].code = code
    BY <1>8, <2>1, <2>3
  <2>6. Refusals(ans'[c], k.cur, v2)
    BY <2>4, <2>5 DEF Refusals
  <2>7. v2 \notin {"no", "full"} => \E i \in To(k.cur, ans'[c]) : ans'[c][i].code = "accept"
    BY <1>8, <2>3, <2>4
  <2> QED
    BY <1>2, <1>4, <1>6, <2>1, <2>2, <2>5, <2>6, <2>7 DEF IsOver, k
<1> QED
  BY <1>6, <1>8, <1>9 DEF GoingNow, Going, k, v2

\* A push is asked for, and the handler waits.
LEMMA WaitGoing ==
    ASSUME Fit, NEW c \in Client, NEW h \in Handler, GoingNow(c), AtTurn(c, h), hand[h].pc = "step",
           NEW q \in SessRecord, Ready(cl[c], q), q.lastUsed = sess[cl[c].state].lastUsed,
           cl[c].cur.body.part # "first", q.phase # "handshake",
           WaitFor(h, q), UNCHANGED <<cl, now, verdict>>
    PROVE  GoingNow(c)'
<1> DEFINE k == cl[c]
           s == k.state
           an == ans[c]
           g == [hand[h] EXCEPT !.pc = "auth", !.deadline = now + PushWait]
<1>1. /\ k \in ClientRecord /\ an \in Seq(Reply) /\ hand \in [Handler -> HandRecord] /\ now \in Nat
      /\ sess \in [Sess -> SessRecord] /\ Belong(c, k, hand, an, sess) /\ ans \in [Client -> Seq(Reply)]
  BY Belongs DEF Fit, AnswersFit
<1>2. /\ s \in Sess /\ hand[h].c = c /\ hand[h].p = k.cur /\ hand[h].s = s /\ s # None
      /\ sess[s].st = "live" /\ sess[s].lastUsed = now
  BY <1>1 DEF AtTurn, Belong
<1>3. sess' = [sess EXCEPT ![s] = q] /\ hand' = [hand EXCEPT ![h] = g] /\ ans' = ans
  BY <1>1, <1>2 DEF WaitFor
<1>4. g.pc = "auth" /\ g.c = c /\ g.s = s /\ g.p = k.cur /\ g.deadline = now + PushWait
  BY <1>1, <1>2 DEF HandRecord
<1> HIDE DEF g
<1>5. sess'[s] = q /\ \A d \in Handler : hand'[d] = IF d = h THEN g ELSE hand[d]
  BY <1>1, <1>2, <1>3
<1>6. Going(c, k, sess, hand, an, now, verdict[c])
  BY DEF GoingNow
<1>7. Authing(c, hand) \subseteq {h}
  BY DEF AtTurn
<1>8. Authing(c, hand') = {h}
  BY <1>4, <1>5, <1>7 DEF Authing
<1> HIDE DEF k
<1>9. Attended(c, k, sess', hand', now)
  <2>1. Attended(c, k, sess, hand, now) /\ k.cur.state = s
    BY <1>6 DEF Going, Coherent
  <2>2. ASSUME NEW d \in Handler, hand'[d].pc # "idle", hand'[d].c = c
        PROVE  /\ hand'[d].p = k.cur
               /\ hand'[d].pc = "step" /\ hand'[d].s = None => k.cur.state = None \/ sess'[k.cur.state].st = "gone"
               /\ hand'[d].pc = "step" /\ hand'[d].s # None => sess'[hand'[d].s].lastUsed = now \/ sess'[hand'[d].s].st = "gone"
    <3>1. CASE d = h
      BY <1>4, <1>5, <3>1
    <3>2. CASE d # h
      <4>1. hand'[d] = hand[d]
        BY <1>5, <3>2
      <4>2. hand[d].p = k.cur /\ (hand[d].s # None => hand[d].s = s)
        BY <1>1, <2>1, <2>2, <4>1 DEF Attended, Belong
      <4>3. sess'[s].lastUsed = now
        BY <1>2, <1>5 DEF k
      <4> QED
        BY <1>2, <2>1, <2>2, <4>1, <4>2, <4>3 DEF Attended
    <3> QED
      BY <3>1, <3>2
  <2> QED
    BY <2>2 DEF Attended
<1>10. InTurn(c, k, sess', hand', an, now, verdict[c])
  <2>1. /\ k.pc = "await" /\ Tunnelling(k.cur) /\ Speaks(k) /\ Fresh(sess[s], now)
        /\ \A i \in To(k.cur, an) : an[i].code = "challenge" /\ an[i].state = s /\ an[i].req.id = k.lastId
    BY DEF AtTurn, k
  <2>2. q.st = "live" /\ Fresh(q, now) /\ Ready(k, q)
    BY <2>1 DEF Ready, Served, Fresh, k
  <2>3. hand'[h].deadline = q.lastUsed + PushWait
    BY <1>2, <1>4, <1>5 DEF k
  <2>4. now \in Nat /\ PushWait \in Nat /\ q.lastUsed \in Nat
    BY <1>1, EapAssumption, SessionParts
  <2>5. hand'[h].deadline <= q.lastUsed + PushWait
    BY <2>3, <2>4
  <2>6. k.cur.body.part # "first"
    BY DEF k
  <2> QED
    BY <1>5, <1>8, <2>1, <2>2, <2>5, <2>6 DEF InTurn
<1>11. Going(c, k, sess', hand', an, now, verdict[c])
  BY <1>6, <1>9, <1>10 DEF Going, Coherent
<1> QED
  BY <1>3, <1>11 DEF GoingNow, k

-----------------------------------------------------------------------------
(* The steps of a supplicant's own handler.                                *)

\* A packet of the tunnel that the session has not seen finds it as the last
\* answer left it.
LEMMA TurnComes ==
    ASSUME Fit, NEW c \in Client, NEW h \in Handler, GoingNow(c), hand[h].c = c, InTunnel(h)
    PROVE  /\ AtTurn(c, h)
           /\ Waits(cl[c], sess[cl[c].state], verdict[c]) /\ Carries(cl[c])
           /\ hand[h].pc = "step" /\ cl[c] \in ClientRecord /\ cl[c].cur \in Packet
           /\ sess[cl[c].state] \in SessRecord /\ sess[cl[c].state].st = "live"
           /\ hand[h].p = cl[c].cur /\ hand[h].s = cl[c].state
<1> DEFINE k == cl[c]
           r == sess[k.state]
<1>1. /\ k \in ClientRecord /\ Belong(c, k, hand, ans[c], sess) /\ sess \in [Sess -> SessRecord]
  BY Belongs
<1>2. /\ hand[h].pc = "step" /\ hand[h].s # None /\ sess[hand[h].s].lastReq # hand[h].p
      /\ Tunnelling(hand[h].p)
  BY DEF InTunnel, Tunnelled, NewPacket, SamePacket, Tunnelling
<1>3. Going(c, k, sess, hand, ans[c], now, verdict[c])
  BY DEF GoingNow
<1> HIDE DEF k
<1>4. /\ hand[h].p = k.cur /\ hand[h].p \in Packet /\ k.cur.state = k.state
      /\ hand[h].s = k.state /\ k.state \in Sess /\ k.state # None
      /\ r.lastUsed = now \/ r.st = "gone"
  BY <1>1, <1>2, <1>3, Holding DEF Going, Coherent, Attended, Belong
<1>5. InTurn(c, k, sess, hand, ans[c], now, verdict[c])
  BY <1>2, <1>3, <1>4 DEF Going, InIdentity, InNak, IsOver, Tunnelling
<1>6. /\ r.st = "live" /\ Fresh(r, now) /\ k.pc = "await" /\ Tunnelling(k.cur) /\ Speaks(k)
      /\ Waits(k, r, verdict[c]) /\ To(k.cur, ans[c]) = {} /\ Authing(c, hand) = {}
  BY <1>2, <1>4, <1>5 DEF InTurn, Ready, Replied, Served
<1>7. AtTurn(c, h)
  BY <1>2, <1>4, <1>6 DEF AtTurn, k
<1> QED
  BY <1>1, <1>2, <1>4, <1>6, <1>7 DEF k, Speaks

\* What the step begins with.
LEMMA BegunTurn ==
    ASSUME Fit, NEW c \in Client, NEW h \in Handler, GoingNow(c), hand[h].c = c, InTunnel(h)
    PROVE  /\ Begun(h) = BegunFor(cl[c], sess[cl[c].state])
           /\ [Begun(h) EXCEPT !.buf = <<>>] = ClearedFor(cl[c], sess[cl[c].state])
           /\ Body(h) = cl[c].cur.body
BY TurnComes DEF Begun, BegunFor, ClearedFor, Body

\* The session is left ready to answer.
Settled(c, q) ==
    /\ q \in SessRecord /\ Ready(cl[c], q)
    /\ q.lastUsed = sess[cl[c].state].lastUsed /\ q.inner = sess[cl[c].state].inner

LEMMA PumpSettled ==
    ASSUME Fit, NEW c \in Client, NEW h \in Handler, GoingNow(c), hand[h].c = c, InTunnel(h),
           NEW q, Settled(c, q), Pump(h, q), UNCHANGED <<envVars, historyVars>>
    PROVE  GoingNow(c)'
<1>1. AtTurn(c, h) /\ Waits(cl[c], sess[cl[c].state], verdict[c])
  BY TurnComes
<1>2. q.inner = "failed" => verdict'[c] = "no"
  BY <1>1 DEF Settled, Waits, historyVars
<1>3. UNCHANGED <<cl, now>>
  BY DEF envVars
<1> QED
  BY <1>1, <1>2, <1>3, PumpGoing DEF Settled

LEMMA CollectGoing ==
    ASSUME Fit, NEW c \in Client, NEW h \in Handler, GoingNow(c), hand[h].c = c, Collect(h)
    PROVE  GoingNow(c)'
<1> DEFINE k == cl[c]
           r == sess[k.state]
           b == BegunFor(k, r)
           g == [b EXCEPT !.buf = Append(@, k.cur.body)]
<1>1. InTunnel(h)
  BY DEF Collect
<1>2. /\ Begun(h) = b /\ Body(h) = k.cur.body
      /\ k \in ClientRecord /\ k.cur \in Packet /\ r \in SessRecord /\ r.st = "live"
      /\ Waits(k, r, verdict[c]) /\ Carries(k)
  BY <1>1, TurnComes, BegunTurn
<1>3. k.cur.body.part = "first" /\ Pump(h, g) /\ UNCHANGED <<envVars, historyVars>>
  BY <1>2 DEF Collect
<1>4. Ready(k, g) /\ g \in SessRecord /\ g.inner = r.inner /\ g.lastUsed = r.lastUsed
  BY <1>2, <1>3, BegunReady
<1>5. Settled(c, g)
  BY <1>4 DEF Settled
<1> HIDE DEF g
<1> QED
  BY <1>1, <1>3, <1>5, PumpSettled

LEMMA MisfitNever ==
    ASSUME Fit, NEW c \in Client, NEW h \in Handler, GoingNow(c), hand[h].c = c
    PROVE  ~Misfit(h)
<1> SUFFICES ASSUME Misfit(h) PROVE FALSE
  OBVIOUS
<1> DEFINE k == cl[c]
           r == sess[k.state]
<1>1. InTunnel(h)
  BY DEF Misfit
<1>2. /\ Body(h) = k.cur.body /\ hand[h].s = k.state
      /\ k \in ClientRecord /\ k.cur \in Packet /\ r \in SessRecord /\ r.st = "live"
      /\ Waits(k, r, verdict[c]) /\ Carries(k)
  BY <1>1, TurnComes, BegunTurn
<1>3. k.cur.body.part # "first"
  BY <1>2 DEF Misfit
<1> HIDE DEF k, r
<1>4. Fits(r.buf, k.cur.body)
  BY <1>2, <1>3, BegunReady
<1> QED
  BY <1>2, <1>4 DEF Misfit, r

\* The session with the message in the engine's hands, at once or worked
\* through.
LEMMA ClearedSettled ==
    ASSUME Fit, NEW c \in Client, NEW h \in Handler, GoingNow(c), hand[h].c = c, Complete(h)
    PROVE  LET e == [Begun(h) EXCEPT !.buf = <<>>]
               f == Fed(e, Body(h))
           IN  /\ e \in SessRecord /\ e.phase = Phase(h) /\ e.app = sess[hand[h].s].app
               /\ e.up = sess[hand[h].s].up /\ e.read = sess[hand[h].s].read
               /\ Body(h) = Empty => Settled(c, e)
               /\ Body(h) # Empty => /\ Settled(c, f) /\ Streams(f) /\ f.st = "live"
                                     /\ Steady(f, e)
<1> DEFINE k == cl[c]
           r == sess[k.state]
           e == ClearedFor(k, r)
           f == Fed(e, k.cur.body)
<1>1. InTunnel(h) /\ Body(h).part # "first"
  BY DEF Complete
<1>2. /\ [Begun(h) EXCEPT !.buf = <<>>] = e /\ Body(h) = k.cur.body /\ hand[h].s = k.state
      /\ k \in ClientRecord /\ k.cur \in Packet /\ r \in SessRecord /\ r.st = "live"
      /\ Waits(k, r, verdict[c]) /\ Carries(k)
  BY <1>1, TurnComes, BegunTurn
<1>3. /\ e \in SessRecord /\ e.phase = r.phase /\ e.inner = r.inner /\ e.up = r.up /\ e.read = r.read
      /\ e.lastUsed = r.lastUsed /\ e.app = r.app
      /\ k.cur.body = Empty => Ready(k, e)
      /\ k.cur.body # Empty => Ready(k, f) /\ Steady(f, e)
  <2>1. k.cur.body.part # "first"
    BY <1>1, <1>2
  <2> HIDE DEF k, r
  <2> QED
    BY <1>2, <2>1, BegunReady
<1> HIDE DEF e, f
<1>4. k.cur.body = Empty => Settled(c, e)
  BY <1>3 DEF Settled
<1>5. k.cur.body # Empty => Settled(c, f) /\ Streams(f) /\ f.st = "live"
  BY <1>3 DEF Settled, Steady, Alike, Ready, Served, Streams
<1>6. Phase(h) = r.phase
  BY <1>2 DEF Phase
<1> QED
  BY <1>2, <1>3, <1>4, <1>5, <1>6 DEF f

LEMMA SettledGoes ==
    ASSUME NEW c, NEW f, NEW w, Settled(c, f), Goes(w, f)
    PROVE  Settled(c, w)
BY ReadyGoes DEF Settled, Goes, Steady, Alike

LEMMA SettledLevel ==
    ASSUME NEW c, NEW f, NEW w, Settled(c, f), Level(w, f), w.phase # f.phase => f.read >= 2,
           w.inner = f.inner
    PROVE  Settled(c, w)
BY ReadyLevel DEF Settled, Level

LEMMA PhaseLevel ==
    ASSUME NEW r \in SessRecord, NEW phase \in {"handshake", "done", "inner"}
    PROVE  LET q == [r EXCEPT !.phase = phase] IN Level(q, r) /\ q.inner = r.inner
<1> DEFINE q == [r EXCEPT !.phase = phase]
<1>1. q \in SessRecord
  BY DEF SessRecord
<1> QED
  BY <1>1 DEF Level, SessRecord

\* The phase changes when the tunnel is up.
LEMMA PhaseSettled ==
    ASSUME NEW c, NEW f, Settled(c, f), f.up, NEW phase \in {"handshake", "done", "inner"}
    PROVE  Settled(c, [f EXCEPT !.phase = phase])
<1> DEFINE q == [f EXCEPT !.phase = phase]
<1>1. f \in SessRecord /\ f.read >= 2
  BY DEF Settled, Ready, Served, Pipe
<1>2. Level(q, f) /\ q.inner = f.inner
  BY <1>1, PhaseLevel
<1> HIDE DEF q
<1>3. Settled(c, q)
  BY <1>1, <1>2, SettledLevel
<1> QED
  BY <1>3 DEF q

LEMMA HandshakeGoing ==
    ASSUME Fit, NEW c \in Client, NEW h \in Handler, GoingNow(c), hand[h].c = c, Handshake(h)
    PROVE  GoingNow(c)'
<1> DEFINE e == [Begun(h) EXCEPT !.buf = <<>>]
           next == IF e.proto = "peap" THEN "done" ELSE "inner"
           f == Fed(e, Body(h))
<1>1. Complete(h) /\ InTunnel(h) /\ UNCHANGED <<envVars, historyVars>>
  BY DEF Handshake, Complete
<1>2. \/ Body(h) = Empty /\ Pump(h, e)
      \/ Body(h) # Empty /\ e.up /\ Pump(h, [f EXCEPT !.phase = next])
      \/ Body(h) # Empty /\ \E w \in Waited(f) :
            IF w.err THEN Fail(h, w) ELSE Pump(h, IF w.up THEN [w EXCEPT !.phase = next] ELSE w)
  BY Zenon DEF Handshake
<1>3. /\ e \in SessRecord
      /\ Body(h) = Empty => Settled(c, e)
      /\ Body(h) # Empty => Settled(c, f) /\ Streams(f) /\ f.st = "live"
  BY <1>1, ClearedSettled
<1>4. next \in {"handshake", "done", "inner"}
  OBVIOUS
<1> HIDE DEF next, e
<1>5. CASE Body(h) = Empty /\ Pump(h, e)
  BY <1>1, <1>3, <1>5, PumpSettled
<1>6. f.up = e.up
  BY <1>3 DEF Fed, SessRecord
<1> HIDE DEF f
<1>7. CASE Body(h) # Empty /\ e.up /\ Pump(h, [f EXCEPT !.phase = next])
  <2>1. Settled(c, [f EXCEPT !.phase = next])
    BY <1>3, <1>4, <1>6, <1>7, PhaseSettled
  <2> QED
    BY <1>1, <1>7, <2>1, PumpSettled
<1>8. ASSUME Body(h) # Empty, NEW w \in Waited(f),
             IF w.err THEN Fail(h, w) ELSE Pump(h, IF w.up THEN [w EXCEPT !.phase = next] ELSE w)
      PROVE  GoingNow(c)'
  <2>1. Settled(c, f) /\ Streams(f) /\ f.st = "live" /\ f \in SessRecord
    BY <1>3, <1>8 DEF Settled
  <2>2. Settled(c, w)
    BY <2>1, WaitedGoes, SettledGoes
  <2>3. ~w.err
    BY <2>2 DEF Settled, Ready, Served, Pipe
  <2>4. CASE w.up
    <3>1. Settled(c, [w EXCEPT !.phase = next])
      BY <1>4, <2>2, <2>4, PhaseSettled
    <3>2. Pump(h, [w EXCEPT !.phase = next])
      BY <1>8, <2>3, <2>4
    <3> QED
      BY <1>1, <3>1, <3>2, PumpSettled
  <2>5. CASE ~w.up
    <3>1. Pump(h, w)
      BY <1>8, <2>3, <2>5
    <3> QED
      BY <1>1, <2>2, <3>1, PumpSettled
  <2> QED
    BY <2>4, <2>5
<1> QED
  BY <1>2, <1>5, <1>7, <1>8

\* What a message of phase 2 leaves: the tunnel is up, and the engine has
\* nothing to complain of.
LEMMA HeardSettled ==
    ASSUME Fit, NEW c \in Client, NEW h \in Handler, GoingNow(c), hand[h].c = c, NEW x, Inner(h, x)
    PROVE  Settled(c, x.r) /\ x.r.read >= 2 /\ ~x.r.err /\ x.r.phase # "handshake"
<1> DEFINE e == [Begun(h) EXCEPT !.buf = <<>>]
           f == Fed(e, Body(h))
<1>1. Complete(h) /\ Phase(h) = "inner" /\ x \in Heard(h)
  BY DEF Inner
<1>2. /\ e \in SessRecord /\ e.phase = "inner"
      /\ Body(h) = Empty => Settled(c, e)
      /\ Body(h) # Empty => Settled(c, f) /\ Streams(f) /\ f.st = "live" /\ Steady(f, e)
  BY <1>1, ClearedSettled
<1>3. \/ Body(h) = Empty /\ x = [r |-> [e EXCEPT !.app = <<>>], said |-> TakeApp(e)]
      \/ Body(h) # Empty /\ \E w \in Waited(f) : x = [r |-> [w EXCEPT !.app = <<>>], said |-> w.app]
  BY <1>1 DEF Heard
<1> HIDE DEF e, f
<1>4. \E w : Settled(c, w) /\ w.phase = "inner" /\ x.r = [w EXCEPT !.app = <<>>]
  <2>1. CASE Body(h) = Empty
    BY <1>2, <1>3, <2>1
  <2>2. CASE Body(h) # Empty
    <3>1. Settled(c, f) /\ Streams(f) /\ f.st = "live" /\ Steady(f, e) /\ f \in SessRecord
      BY <1>2, <2>2 DEF Settled
    <3>2. PICK w \in Waited(f) : x.r = [w EXCEPT !.app = <<>>]
      BY <1>3, <2>2
    <3>3. Goes(w, f)
      BY <3>1, WaitedGoes
    <3>4. w.phase = "inner"
      BY <1>2, <3>1, <3>3 DEF Goes, Steady
    <3> QED
      BY <3>1, <3>2, <3>3, <3>4, SettledGoes
  <2> QED
    BY <2>1, <2>2
<1>5. PICK w : Settled(c, w) /\ w.phase = "inner" /\ x.r = [w EXCEPT !.app = <<>>]
  BY <1>4
<1> DEFINE q == [w EXCEPT !.app = <<>>]
<1>6. w \in SessRecord
  BY <1>5 DEF Settled
<1>7. q \in SessRecord
  BY <1>6, EmptySeq DEF SessRecord
<1>8. Level(q, w) /\ q.inner = w.inner /\ q.phase = w.phase
  BY <1>6, <1>7 DEF Level, SessRecord
<1> HIDE DEF q
<1>9. Settled(c, q)
  BY <1>5, <1>8, SettledLevel
<1>10. q.read >= 2 /\ ~q.err
  BY <1>5, <1>8, <1>9 DEF Settled, Ready, Served, Pipe
<1> QED
  BY <1>5, <1>8, <1>9, <1>10 DEF q

\* Another message on its way out.
LEMMA SaidSettled ==
    ASSUME NEW c, NEW q, Settled(c, q), q.read >= 2, NEW said \in Said \ {"flight", "more"}
    PROVE  Settled(c, PushOut(q, said))
BY ReadyPush DEF Settled

LEMMA FirstQuestionGoing ==
    ASSUME Fit, NEW c \in Client, NEW h \in Handler, GoingNow(c), hand[h].c = c, FirstQuestion(h)
    PROVE  GoingNow(c)'
<1> DEFINE e == [Begun(h) EXCEPT !.buf = <<>>]
           p == [e EXCEPT !.phase = "inner"]
           r == [p EXCEPT !.inner = "challenge"]
           f == Fed(e, Body(h))
           q == IF Body(h) = Empty THEN r ELSE Fed(r, Body(h))
           k == cl[c]
<1>1. Complete(h) /\ InTunnel(h) /\ Phase(h) = "done" /\ UNCHANGED <<envVars, historyVars>>
  BY DEF FirstQuestion, Complete
<1>2. Pump(h, PushOut(q, "chal"))
  BY Zenon DEF FirstQuestion
<1>3. /\ e \in SessRecord /\ e.phase = "done"
      /\ Body(h) = Empty => Settled(c, e)
      /\ Body(h) # Empty => Settled(c, f) /\ Steady(f, e)
  BY <1>1, ClearedSettled
<1> HIDE DEF e
<1>4. /\ p \in SessRecord /\ Level(p, e) /\ p.inner = e.inner /\ p.phase = "inner"
  <2>1. Level(p, e) /\ p.inner = e.inner
    BY <1>3, PhaseLevel
  <2>2. p.phase = "inner"
    BY <1>3 DEF SessRecord
  <2> QED
    BY <2>1, <2>2 DEF Level
<1>5. r \in SessRecord /\ Level(r, e) /\ r.inner = "challenge"
  <2> HIDE DEF p
  <2>1. r \in SessRecord
    BY <1>4 DEF SessRecord
  <2> QED
    BY <1>4, <2>1 DEF Level, SessRecord
<1> HIDE DEF r, p
<1>6. \E g \in SessRecord : /\ Ready(k, g) /\ g.phase = "done"
                            /\ g.lastUsed = sess[k.state].lastUsed
                            /\ Level(q, g) /\ q.inner = "challenge"
  <2>1. CASE Body(h) = Empty
    BY <1>3, <1>5, <2>1 DEF Settled
  <2>2. CASE Body(h) # Empty
    <3>1. Settled(c, f) /\ f.phase = "done"
      BY <1>3, <2>2 DEF Steady
    <3>2. Body(h) \in Message
      BY <1>1, TurnComes, BegunTurn DEF Packet
    <3>3. Fed(r, Body(h)) \in SessRecord /\ Fed(e, Body(h)) \in SessRecord
      BY <1>3, <1>5, <3>2, FedFits DEF Alike
    <3>4. Level(Fed(r, Body(h)), Fed(e, Body(h))) /\ Fed(r, Body(h)).inner = "challenge"
      BY <1>3, <1>5, <3>3 DEF Level, Fed, SessRecord
    <3> QED
      BY <2>2, <3>1, <3>3, <3>4 DEF Settled
  <2> QED
    BY <2>1, <2>2
<1> HIDE DEF q
<1>7. PICK g \in SessRecord : /\ Ready(k, g) /\ g.phase = "done"
                              /\ g.lastUsed = sess[k.state].lastUsed
                              /\ Level(q, g) /\ q.inner = "challenge"
  BY <1>6
<1>8. g.read >= 2
  BY <1>7 DEF Ready, Served, Pipe
<1>9. Ready(k, q) /\ q.read >= 2 /\ q.lastUsed = sess[k.state].lastUsed /\ q \in SessRecord
  BY <1>7, <1>8, ReadyLevel DEF Level
<1> DEFINE o == PushOut(q, "chal")
<1>10. Ready(k, o) /\ o \in SessRecord /\ o.inner = "challenge" /\ o.lastUsed = sess[k.state].lastUsed
  BY <1>7, <1>9, ReadyPush DEF Said
<1>11. AtTurn(c, h) /\ UNCHANGED <<cl, now>>
  BY <1>1, TurnComes DEF envVars
<1> HIDE DEF o
<1>12. Pump(h, o)
  BY <1>2 DEF o
<1> QED
  BY <1>10, <1>11, <1>12, PumpGoing

LEMMA PendingLevel ==
    ASSUME NEW r \in SessRecord, NEW pending \in BOOLEAN
    PROVE  LET q == [r EXCEPT !.pending = pending] IN
           Level(q, r) /\ q.inner = r.inner /\ q.phase = r.phase
<1> DEFINE q == [r EXCEPT !.pending = pending]
<1>1. q \in SessRecord
  BY DEF SessRecord
<1> QED
  BY <1>1 DEF Level, SessRecord

LEMMA InnerLevel ==
    ASSUME NEW r \in SessRecord, NEW inner \in {"challenge", "success", "tlv", "failed"}
    PROVE  LET q == [r EXCEPT !.inner = inner] IN
           Level(q, r) /\ q.inner = inner /\ q.phase = r.phase
<1> DEFINE q == [r EXCEPT !.inner = inner]
<1>1. q \in SessRecord
  BY DEF SessRecord
<1> QED
  BY <1>1 DEF Level, SessRecord

LEMMA NamedLevel ==
    ASSUME NEW r \in SessRecord, NEW c \in Client
    PROVE  LET q == [r EXCEPT !.name = c] IN
           Level(q, r) /\ q.inner = r.inner /\ q.phase = r.phase
<1> DEFINE q == [r EXCEPT !.name = c]
<1>1. q \in SessRecord
  BY DEF SessRecord
<1> QED
  BY <1>1 DEF Level, SessRecord

\* The session answers, with an inner state that the verdict explains.
Answerable(c, q) ==
    /\ q \in SessRecord /\ Ready(cl[c], q) /\ q.read >= 2 /\ q.phase # "handshake"
    /\ q.lastUsed = sess[cl[c].state].lastUsed

LEMMA AnswerableLevel ==
    ASSUME NEW c, NEW r, Answerable(c, r), NEW q, Level(q, r), q.phase = r.phase
    PROVE  Answerable(c, q)
BY ReadyLevel DEF Answerable, Level

LEMMA HeardAnswerable ==
    ASSUME Fit, NEW c \in Client, NEW h \in Handler, GoingNow(c), hand[h].c = c, NEW x, Inner(h, x)
    PROVE  /\ InTunnel(h) /\ AtTurn(c, h) /\ hand[h].pc = "step" /\ cl[c].cur.body.part # "first"
           /\ Answerable(c, x.r) /\ Settled(c, x.r)
           /\ x.r.inner = "failed" => verdict[c] = "no"
           /\ ~Broke(h, x)
<1>1. InTunnel(h) /\ Body(h).part # "first"
  BY DEF Inner, Complete
<1>2. /\ AtTurn(c, h) /\ hand[h].pc = "step" /\ cl[c].cur.body.part # "first"
      /\ Waits(cl[c], sess[cl[c].state], verdict[c])
  BY <1>1, TurnComes, BegunTurn
<1>3. Settled(c, x.r) /\ x.r.read >= 2 /\ ~x.r.err /\ x.r.phase # "handshake"
  BY HeardSettled
<1> QED
  BY <1>1, <1>2, <1>3 DEF Answerable, Settled, Waits, Broke

\* Another message, and an answer.
LEMMA SayGoing ==
    ASSUME Fit, NEW c \in Client, NEW h \in Handler, GoingNow(c), AtTurn(c, h), NEW q, Answerable(c, q),
           q.inner = "failed" => verdict'[c] = "no", NEW said \in Said \ {"flight", "more"},
           Pump(h, PushOut(q, said)), UNCHANGED <<cl, now>>
    PROVE  GoingNow(c)'
<1> DEFINE o == PushOut(q, said)
<1>1. Ready(cl[c], o) /\ o \in SessRecord /\ o.inner = q.inner /\ o.lastUsed = sess[cl[c].state].lastUsed
  BY ReadyPush DEF Answerable
<1>2. Pump(h, o)
  OBVIOUS
<1> HIDE DEF o
<1> QED
  BY <1>1, <1>2, PumpGoing

LEMMA ListenGoing ==
    ASSUME Fit, NEW c \in Client, NEW h \in Handler, GoingNow(c), hand[h].c = c, NEW x, Listen(h, x)
    PROVE  GoingNow(c)'
<1>1. Inner(h, x) /\ UNCHANGED <<envVars, historyVars>>
  BY DEF Listen, Asked
<1>2. InTunnel(h) /\ Settled(c, x.r) /\ ~Broke(h, x)
  BY <1>1, HeardAnswerable
<1> DEFINE r == x.r
           q == [r EXCEPT !.pending = TRUE]
<1>3. Pump(h, x.r) \/ Pump(h, q)
  BY <1>2 DEF Listen
<1>4. r \in SessRecord
  BY <1>2 DEF Settled
<1>5. Level(q, r) /\ q.inner = r.inner /\ q.phase = r.phase
  <2> HIDE DEF r
  <2> QED
    BY <1>4, PendingLevel
<1> HIDE DEF q
<1>6. Settled(c, q)
  BY <1>2, <1>5, SettledLevel
<1> QED
  BY <1>1, <1>2, <1>3, <1>6, PumpSettled

LEMMA InnerPAPGoing ==
    ASSUME Fit, NEW c \in Client, NEW h \in Handler, GoingNow(c), hand[h].c = c, NEW x, InnerPAP(h, x)
    PROVE  GoingNow(c)'
<1>1. Inner(h, x) /\ UNCHANGED <<cl, now, verdict>>
  BY DEF InnerPAP, Asked, envVars, historyVars
<1>2. AtTurn(c, h) /\ hand[h].pc = "step" /\ cl[c].cur.body.part # "first" /\ Answerable(c, x.r)
  BY <1>1, HeardAnswerable
<1> DEFINE r == x.r
           q == [r EXCEPT !.pending = FALSE]
<1>3. WaitFor(h, q)
  BY DEF InnerPAP
<1>4. r \in SessRecord
  BY <1>2 DEF Answerable
<1>5. Level(q, r) /\ q.inner = r.inner /\ q.phase = r.phase
  <2> HIDE DEF r
  <2> QED
    BY <1>4, PendingLevel
<1> HIDE DEF q
<1>6. Answerable(c, q)
  BY <1>2, <1>5, AnswerableLevel
<1> QED
  BY <1>1, <1>2, <1>3, <1>6, WaitGoing DEF Answerable

LEMMA InnerIdentityGoing ==
    ASSUME Fit, NEW c \in Client, NEW h \in Handler, GoingNow(c), hand[h].c = c, NEW x, InnerIdentity(h, x)
    PROVE  GoingNow(c)'
<1>1. Inner(h, x) /\ x.r.inner = "challenge" /\ UNCHANGED <<cl, now, verdict>>
  BY DEF InnerIdentity, Asked, envVars, historyVars
<1>2. AtTurn(c, h) /\ Answerable(c, x.r)
  BY <1>1, HeardAnswerable
<1> DEFINE q == [x.r EXCEPT !.name = hand[h].c]
<1>3. Pump(h, PushOut(q, "chal"))
  BY DEF InnerIdentity
<1>4. Level(q, x.r) /\ q.inner = x.r.inner /\ q.phase = x.r.phase
  BY <1>2, NamedLevel DEF Answerable
<1> HIDE DEF q
<1>5. Answerable(c, q)
  BY <1>2, <1>4, AnswerableLevel
<1> QED
  BY <1>1, <1>2, <1>3, <1>4, <1>5, SayGoing DEF Said

\* The verdict on the Response, at once or after a push.
LEMMA VerdictGoing ==
    ASSUME Fit, NEW c \in Client, NEW h \in Handler, GoingNow(c), AtTurn(c, h), NEW r, Answerable(c, r),
           NEW yes \in BOOLEAN, IF yes THEN Succeed(h, r) ELSE FailMSCHAPv2(h, r), Judge(c, yes),
           UNCHANGED <<cl, now>>
    PROVE  GoingNow(c)'
<1> DEFINE inner == IF yes THEN "success" ELSE "failed"
           said == IF yes THEN "success" ELSE "fail"
           q == [r EXCEPT !.inner = inner]
<1>1. Pump(h, PushOut(q, said))
  BY DEF Succeed, FailMSCHAPv2
<1>2. ~yes => verdict'[c] = "no"
  BY DEF Judge, Fit
<1>3. inner \in {"challenge", "success", "tlv", "failed"} /\ said \in Said \ {"flight", "more"}
      /\ (yes => inner = "success")
  BY DEF Said
<1> HIDE DEF inner, said
<1>4. Level(q, r) /\ q.inner = inner /\ q.phase = r.phase
  BY <1>3, InnerLevel DEF Answerable
<1> HIDE DEF q
<1>5. Answerable(c, q) /\ (q.inner = "failed" => verdict'[c] = "no")
  BY <1>2, <1>3, <1>4, AnswerableLevel
<1> QED
  BY <1>1, <1>3, <1>5, SayGoing

LEMMA InnerResponseGoing ==
    ASSUME Fit, NEW c \in Client, NEW h \in Handler, GoingNow(c), hand[h].c = c, NEW x, InnerResponse(h, x)
    PROVE  GoingNow(c)'
<1>1. Inner(h, x) /\ UNCHANGED <<cl, now>>
  BY DEF InnerResponse, Asked, envVars
<1>2. AtTurn(c, h) /\ hand[h].pc = "step" /\ cl[c].cur.body.part # "first" /\ Answerable(c, x.r)
  BY <1>1, HeardAnswerable
<1> DEFINE q == [x.r EXCEPT !.name = hand[h].c]
<1>3. \/ FailMSCHAPv2(h, q) /\ Judge(c, FALSE)
      \/ Succeed(h, q) /\ Judge(c, TRUE)
      \/ WaitFor(h, q) /\ UNCHANGED verdict
  BY DEF InnerResponse, historyVars
<1>4. Level(q, x.r) /\ q.inner = x.r.inner /\ q.phase = x.r.phase
  BY <1>2, NamedLevel DEF Answerable
<1> HIDE DEF q
<1>5. Answerable(c, q)
  BY <1>2, <1>4, AnswerableLevel
<1>6. CASE FailMSCHAPv2(h, q) /\ Judge(c, FALSE)
  BY <1>1, <1>2, <1>5, <1>6, VerdictGoing
<1>7. CASE Succeed(h, q) /\ Judge(c, TRUE)
  BY <1>1, <1>2, <1>5, <1>7, VerdictGoing
<1>8. CASE WaitFor(h, q) /\ UNCHANGED verdict
  BY <1>1, <1>2, <1>5, <1>8, WaitGoing DEF Answerable
<1> QED
  BY <1>3, <1>6, <1>7, <1>8

\* The last answer of an exchange.
LEMMA EndGoing ==
    ASSUME Fit, NEW c \in Client, NEW h \in Handler, GoingNow(c), AtTurn(c, h), NEW r, Answerable(c, r),
           \/ \E name \in Client \cup {None, Anon} : Admit(h, r, name)
           \/ Fail(h, r) /\ verdict'[c] \in {"no", "full"},
           UNCHANGED <<cl, now>>
    PROVE  GoingNow(c)'
<1>1. r \in SessRecord /\ r.lastReq = cl[c].cur /\ r.lastResp.id = cl[c].lastId
  BY DEF Answerable, Ready, Served
<1>2. ASSUME NEW name \in Client \cup {None, Anon}, Admit(h, r, name)
      PROVE  GoingNow(c)'
  BY <1>1, <1>2, GoneGoing DEF Admit
<1>3. CASE Fail(h, r) /\ verdict'[c] \in {"no", "full"}
  BY <1>1, <1>3, GoneGoing DEF Fail, Reject
<1> QED
  BY <1>2, <1>3

LEMMA AfterSuccessGoing ==
    ASSUME Fit, NEW c \in Client, NEW h \in Handler, GoingNow(c), hand[h].c = c, NEW x, AfterSuccess(h, x)
    PROVE  GoingNow(c)'
<1>1. Inner(h, x) /\ UNCHANGED <<cl, now, verdict>>
  BY DEF AfterSuccess, Asked, envVars, historyVars
<1>2. AtTurn(c, h) /\ Answerable(c, x.r) /\ x.r \in SessRecord
  BY <1>1, HeardAnswerable DEF Answerable
<1> DEFINE q == [x.r EXCEPT !.inner = "tlv"]
<1>3. Admit(h, x.r, x.r.name) \/ Pump(h, PushOut(q, "tlv"))
  BY DEF AfterSuccess
<1>4. Level(q, x.r) /\ q.inner = "tlv" /\ q.phase = x.r.phase
  BY <1>2, InnerLevel
<1> HIDE DEF q
<1>5. Answerable(c, q)
  BY <1>2, <1>4, AnswerableLevel
<1>6. x.r.name \in Client \cup {None, Anon}
  BY <1>2 DEF SessRecord
<1>7. CASE Admit(h, x.r, x.r.name)
  BY <1>1, <1>2, <1>6, <1>7, EndGoing
<1>8. CASE Pump(h, PushOut(q, "tlv"))
  BY <1>1, <1>2, <1>4, <1>5, <1>8, SayGoing DEF Said
<1> QED
  BY <1>3, <1>7, <1>8

LEMMA AfterTLVGoing ==
    ASSUME Fit, NEW c \in Client, NEW h \in Handler, GoingNow(c), hand[h].c = c, NEW x, AfterTLV(h, x)
    PROVE  GoingNow(c)'
<1>1. Inner(h, x) /\ Admit(h, x.r, x.r.name) /\ UNCHANGED <<cl, now>>
  BY DEF AfterTLV, Asked, envVars
<1>2. AtTurn(c, h) /\ Answerable(c, x.r) /\ x.r \in SessRecord
  BY <1>1, HeardAnswerable DEF Answerable
<1>3. x.r.name \in Client \cup {None, Anon}
  BY <1>2 DEF SessRecord
<1> QED
  BY <1>1, <1>2, <1>3, EndGoing

\* The session that is in the failed state got there with the verdict.
LEMMA AfterFailureGoing ==
    ASSUME Fit, NEW c \in Client, NEW h \in Handler, GoingNow(c), hand[h].c = c, NEW x, AfterFailure(h, x)
    PROVE  GoingNow(c)'
<1>1. Inner(h, x) /\ Fail(h, x.r) /\ x.r.inner = "failed" /\ UNCHANGED <<cl, now, verdict>>
  BY DEF AfterFailure, Asked, envVars, historyVars
<1>2. AtTurn(c, h) /\ Answerable(c, x.r) /\ verdict'[c] = "no"
  BY <1>1, HeardAnswerable
<1> QED
  BY <1>1, <1>2, EndGoing

LEMMA ResumeGoing ==
    ASSUME Fit, NEW c \in Client, NEW h \in Handler, GoingNow(c), hand[h].c = c,
           NEW yes \in BOOLEAN, Resume(h, yes)
    PROVE  GoingNow(c)'
<1> DEFINE k == cl[c]
           r == sess[k.state]
<1>1. hand[h].pc = "auth" /\ Judge(c, yes) /\ UNCHANGED <<cl, now>>
  BY DEF Resume, envVars
<1>2. HandlerFits(hand[h], sess, Owners, Able)
  BY DEF Fit, HandlersFit
<1>3. hand[h].s # None /\ hand[h].s = hand[h].p.state
  BY <1>1, <1>2 DEF HandlerFits
<1>4. Going(c, k, sess, hand, ans[c], now, verdict[c]) /\ Belong(c, k, hand, ans[c], sess)
      /\ sess \in [Sess -> SessRecord]
  BY Belongs DEF GoingNow
<1> HIDE DEF k
<1>5. hand[h].p = k.cur /\ k.cur.state = k.state /\ hand[h].s = k.state /\ k.state \in Sess
  BY <1>1, <1>3, <1>4 DEF Going, Coherent, Attended, Belong
<1>6. h \in Authing(c, hand)
  BY <1>1 DEF Authing
<1>7. InTurn(c, k, sess, hand, ans[c], now, verdict[c])
  BY <1>4, <1>6 DEF Going, InIdentity, InNak, IsOver
<1>8. /\ k.pc = "await" /\ Tunnelling(k.cur) /\ Speaks(k) /\ r.st = "live" /\ Fresh(r, now)
      /\ Ready(k, r) /\ r.phase # "handshake"
      /\ \A i \in To(k.cur, ans[c]) : ans[c][i].code = "challenge" /\ ans[c][i].state = k.state
                                      /\ ans[c][i].req.id = k.lastId
      /\ Authing(c, hand) \subseteq {h}
  BY <1>6, <1>7 DEF InTurn
<1>9. AtTurn(c, h)
  BY <1>1, <1>3, <1>5, <1>8 DEF AtTurn, k
<1>10. Answerable(c, r)
  BY <1>4, <1>5, <1>8 DEF Answerable, Ready, Served, Pipe, k
<1> HIDE DEF r
<1>11. \/ yes /\ Admit(h, r, c)
       \/ ~yes /\ Fail(h, r)
       \/ yes /\ Succeed(h, r)
       \/ ~yes /\ FailMSCHAPv2(h, r)
  BY <1>5 DEF Resume, r
<1>12. ~yes => verdict'[c] = "no"
  BY <1>1 DEF Judge, Fit
<1>13. CASE yes /\ Admit(h, r, c)
  BY <1>1, <1>9, <1>10, <1>13, EndGoing
<1>14. CASE ~yes /\ Fail(h, r)
  BY <1>1, <1>9, <1>10, <1>12, <1>14, EndGoing
<1>15. CASE yes /\ Succeed(h, r)
  BY <1>1, <1>9, <1>10, <1>15, VerdictGoing
<1>16. CASE ~yes /\ FailMSCHAPv2(h, r)
  BY <1>1, <1>9, <1>10, <1>16, VerdictGoing
<1> QED
  BY <1>11, <1>13, <1>14, <1>15, <1>16

-----------------------------------------------------------------------------
(* Outside of the tunnel.                                                  *)

\* One more answer to the packet, one handler less at work on it.
AnswersNow(c, h, a) ==
    /\ Authing(c, hand') = Authing(c, hand) \ {h}
    /\ AddsTo(cl[c].cur, ans'[c], ans[c], a)
    /\ Coherent(c, cl[c], sess', hand', ans'[c], now, verdict'[c])

LEMMA Answers ==
    ASSUME Fit, NEW c \in Client, NEW h \in Handler, GoingNow(c), hand[h].c = c, hand[h].pc # "idle",
           NEW a \in Reply, a.to = cl[c].cur,
           ans' = [ans EXCEPT ![c] = Append(@, a)], Done(h),
           cl[c].state # None =>
              /\ sess[cl[c].state].st = "gone" => sess'[cl[c].state].st = "gone"
              /\ sess'[cl[c].state].lastUsed = sess[cl[c].state].lastUsed,
           cl[c].pc = "rejected" => verdict'[c] \in {"no", "full"}
    PROVE  AnswersNow(c, h, a)
<1> DEFINE k == cl[c]
           an == ans[c]
           v2 == verdict'[c]
<1>1. /\ an \in Seq(Reply) /\ hand \in [Handler -> HandRecord] /\ ans \in [Client -> Seq(Reply)]
      /\ Belong(c, k, hand, an, sess)
  BY Belongs DEF Fit, AnswersFit
<1>2. hand' = [hand EXCEPT ![h] = Idle] /\ ans'[c] = Append(an, a)
  BY <1>1 DEF Done, Idle
<1>3. Coherent(c, k, sess, hand, an, now, verdict[c])
  BY DEF GoingNow, Going
<1> HIDE DEF k, an, v2
<1>4. Coherent(c, k, sess', [hand EXCEPT ![h] = Idle], Append(an, a), now, v2)
  <2>1. /\ k.state # None =>
              /\ sess[k.state].st = "gone" => sess'[k.state].st = "gone"
              /\ sess'[k.state].lastUsed = sess[k.state].lastUsed \/ sess'[k.state].st = "gone"
        /\ k.pc = "rejected" => v2 \in {"no", "full"}
        /\ a.to = k.cur
    BY DEF k, v2
  <2> QED
    BY <1>1, <1>3, <2>1, AnsweredCoherent
<1>5. Authing(c, [hand EXCEPT ![h] = Idle]) = Authing(c, hand) \ {h}
  BY <1>1, AuthingDone
<1>6. AddsTo(a.to, Append(an, a), an, a)
  BY <1>1, AnswersAdd
<1> QED
  BY <1>2, <1>4, <1>5, <1>6 DEF AnswersNow, k, an, v2

\* The supplicant's packet in the hands of a handler.
LEMMA AtHand ==
    ASSUME Fit, NEW c \in Client, NEW h \in Handler, GoingNow(c), hand[h].c = c, hand[h].pc = "step"
    PROVE  /\ hand[h].p = cl[c].cur /\ hand[h].p \in Packet /\ cl[c].cur.state = cl[c].state
           /\ cl[c].cur.wants = cl[c].wants
           /\ hand[h].s = None => cl[c].state = None \/ sess[cl[c].state].st = "gone"
           /\ hand[h].s # None => /\ hand[h].s = cl[c].state /\ cl[c].state \in Sess
                                  /\ cl[c].state # None
                                  /\ sess[cl[c].state] \in SessRecord
           /\ h \notin Authing(c, hand)
           /\ Going(c, cl[c], sess, hand, ans[c], now, verdict[c])
<1> DEFINE k == cl[c]
<1>1. Belong(c, k, hand, ans[c], sess) /\ Going(c, k, sess, hand, ans[c], now, verdict[c])
      /\ sess \in [Sess -> SessRecord]
  BY Belongs DEF GoingNow
<1> HIDE DEF k
<1>2. hand[h].p \in Packet /\ h \notin Authing(c, hand)
  BY Holding DEF Authing
<1> QED
  BY <1>1, <1>2 DEF Going, Coherent, Attended, Belong, k

\* What a supplicant is told a second time is what it was told.
LEMMA SendAgainGoing ==
    ASSUME Fit, NEW c \in Client, NEW h \in Handler, GoingNow(c), hand[h].c = c, SendAgain(h)
    PROVE  GoingNow(c)'
<1> DEFINE k == cl[c]
           r == sess[k.state]
           an == ans[c]
           v == verdict[c]
           a == [code |-> "challenge", to |-> k.cur, state |-> k.state, req |-> r.lastResp, name |-> None]
<1>1. hand[h].pc = "step" /\ UNCHANGED <<sess, cl, now, verdict>> /\ SamePacket(h) /\ hand[h].s # None
  BY DEF SendAgain, SamePacket, envVars, historyVars
<1>2. /\ hand[h].p = k.cur /\ k.cur \in Packet /\ hand[h].s = k.state /\ k.cur.state = k.state
      /\ k.state \in Sess /\ k.state # None
      /\ r \in SessRecord /\ h \notin Authing(c, hand) /\ Going(c, k, sess, hand, an, now, v)
  BY <1>1, AtHand
<1>3. r.lastReq = k.cur
  BY <1>1, <1>2 DEF SamePacket
<1>4. ans' = [ans EXCEPT ![c] = Append(@, a)] /\ Done(h)
  BY <1>2 DEF SendAgain, Say
<1>5. a \in Reply
  BY <1>2, SessionParts DEF Reply
<1>6. a.to = k.cur /\ a.code = "challenge" /\ a.state = k.state /\ a.req = r.lastResp
  OBVIOUS
<1>7. k.pc = "rejected" => v \in {"no", "full"}
  BY <1>2 DEF Going, Coherent
<1> HIDE DEF a
<1>8. AnswersNow(c, h, a)
  BY <1>1, <1>2, <1>4, <1>5, <1>6, <1>7, Answers
<1> DEFINE an2 == ans'[c]
           N == Len(an) + 1
           hd2 == hand'
<1>9. /\ Authing(c, hd2) = Authing(c, hand)
      /\ To(k.cur, an2) = To(k.cur, an) \cup {N} /\ an2[N] = a /\ N \notin To(k.cur, an)
      /\ \A i \in To(k.cur, an) : an2[i] = an[i] /\ i < N
      /\ Coherent(c, k, sess, hd2, an2, now, v)
  BY <1>1, <1>2, <1>8 DEF AnswersNow, AddsTo
<1>10. \A g \in Authing(c, hand) : hd2[g] = hand[g]
  BY <1>2, <1>4 DEF Done, Authing, Fit, HandlersFit
<1> HIDE DEF k, r, an, v, an2, N, hd2
<1>11. ~InIdentity(c, k, sess, hand, an, now, v)
  BY <1>2 DEF InIdentity
<1>12. InNak(c, k, sess, hand, an, now, v) => InNak(c, k, sess, hd2, an2, now, v)
  BY <1>3, <1>6, <1>9 DEF InNak, r
<1>13. InTurn(c, k, sess, hand, an, now, v) => InTurn(c, k, sess, hd2, an2, now, v)
  <2> SUFFICES ASSUME InTurn(c, k, sess, hand, an, now, v) PROVE InTurn(c, k, sess, hd2, an2, now, v)
    OBVIOUS
  <2>1. ~Waits(k, r, v)
    BY <1>3 DEF Waits
  <2>2. \A i \in To(k.cur, an2) : an2[i].code = "challenge" /\ an2[i].state = k.state
    BY <1>6, <1>9 DEF InTurn
  <2>3. CASE /\ Ready(k, r) /\ \A i \in To(k.cur, an) : an[i].req.id = k.lastId
             /\ k.cur.body.part # "first" /\ r.phase # "handshake"
             /\ \E g \in Handler : Authing(c, hand) = {g} /\ hand[g].deadline <= r.lastUsed + PushWait
    <3>1. r.lastResp.id = k.lastId
      BY <2>3 DEF Ready
    <3>2. \A i \in To(k.cur, an2) : an2[i].req.id = k.lastId
      BY <1>6, <1>9, <2>3, <3>1
    <3>3. \E g \in Handler : Authing(c, hd2) = {g} /\ hd2[g].deadline <= r.lastUsed + PushWait
      BY <1>9, <1>10, <2>3
    <3> QED
      BY <2>2, <2>3, <3>2, <3>3 DEF InTurn, r
  <2>4. CASE /\ Replied(k, r, v) /\ \A i \in To(k.cur, an) : an[i].req.id = k.lastId \/ an[i].req = r.lastResp
             /\ Authing(c, hand) = {}
    <3>1. \A i \in To(k.cur, an2) : an2[i].req.id = k.lastId \/ an2[i].req = r.lastResp
      BY <1>6, <1>9, <2>4
    <3> QED
      BY <1>9, <2>2, <2>4, <3>1 DEF InTurn, r
  <2> QED
    BY <2>1, <2>3, <2>4 DEF InTurn, r
<1>14. IsOver(c, k, sess, hand, an, now, v) => IsOver(c, k, sess, hd2, an2, now, v)
  <2> SUFFICES ASSUME IsOver(c, k, sess, hand, an, now, v) PROVE IsOver(c, k, sess, hd2, an2, now, v)
    OBVIOUS
  <2>1. \A i \in To(k.cur, an2) : an2[i].code = "challenge" => an2[i].req.id = k.lastId
    BY <1>6, <1>9 DEF IsOver, r
  <2>2. Refusals(an2, k.cur, v)
    BY <1>6, <1>9 DEF IsOver, Refusals
  <2>3. v \notin {"no", "full"} => \E i \in To(k.cur, an2) : an2[i].code = "accept"
    BY <1>9 DEF IsOver
  <2> QED
    BY <1>9, <2>1, <2>2, <2>3 DEF IsOver
<1>15. Going(c, k, sess, hd2, an2, now, v)
  BY <1>2, <1>9, <1>11, <1>12, <1>13, <1>14 DEF Going
<1> QED
  BY <1>1, <1>15 DEF GoingNow, k, v, an2, hd2

\* Only a session that is over is not found.
LEMMA NoSuchSessionGoing ==
    ASSUME Fit, NEW c \in Client, NEW h \in Handler, GoingNow(c), hand[h].c = c, NoSuchSession(h)
    PROVE  GoingNow(c)'
<1> DEFINE k == cl[c]
           an == ans[c]
           v == verdict[c]
           a == [code |-> "reject", to |-> k.cur, state |-> None, req |-> NoRequest, name |-> None]
<1>1. /\ hand[h].pc = "step" /\ UNCHANGED <<sess, cl, now, verdict>> /\ hand[h].s = None
      /\ Tunnelling(hand[h].p)
  BY DEF NoSuchSession, Tunnelled, NewPacket, Tunnelling, envVars, historyVars
<1>2. /\ hand[h].p = k.cur /\ k.cur \in Packet /\ h \notin Authing(c, hand)
      /\ Going(c, k, sess, hand, an, now, v)
      /\ k.state = None \/ sess[k.state].st = "gone"
  BY <1>1, AtHand
<1>4. ans' = [ans EXCEPT ![c] = Append(@, a)] /\ Done(h)
  BY <1>2 DEF NoSuchSession, Reject, Say
<1>5. a \in Reply
  BY <1>2, Constants DEF Reply
<1>6. a.to = k.cur /\ a.code = "reject"
  OBVIOUS
<1>7. k.pc = "rejected" => v \in {"no", "full"}
  BY <1>2 DEF Going, Coherent
<1> HIDE DEF a
<1>8. AnswersNow(c, h, a)
  BY <1>1, <1>2, <1>4, <1>5, <1>6, <1>7, Answers
<1> DEFINE an2 == ans'[c]
           N == Len(an) + 1
           hd2 == hand'
<1>9. /\ Authing(c, hd2) = Authing(c, hand)
      /\ To(k.cur, an2) = To(k.cur, an) \cup {N} /\ an2[N] = a /\ N \notin To(k.cur, an)
      /\ \A i \in To(k.cur, an) : an2[i] = an[i] /\ i < N
      /\ Coherent(c, k, sess, hd2, an2, now, v)
  BY <1>1, <1>2, <1>8 DEF AnswersNow, AddsTo
<1> HIDE DEF k, an, v, an2, N, hd2
<1>10. IsOver(c, k, sess, hand, an, now, v)
  BY <1>1, <1>2 DEF Going, InIdentity, InNak, InTurn, Tunnelling, Speaks
<1>11. IsOver(c, k, sess, hd2, an2, now, v)
  <2>1. \A i \in To(k.cur, an2) : an2[i].code = "challenge" => an2[i].req.id = k.lastId
    BY <1>6, <1>9, <1>10 DEF IsOver
  <2>2. Refusals(an2, k.cur, v)
    BY <1>6, <1>9, <1>10 DEF IsOver, Refusals
  <2>3. v \notin {"no", "full"} => \E i \in To(k.cur, an2) : an2[i].code = "accept"
    BY <1>9, <1>10 DEF IsOver
  <2> QED
    BY <1>9, <1>10, <2>1, <2>2, <2>3 DEF IsOver
<1> QED
  BY <1>1, <1>9, <1>11 DEF Going, GoingNow, k, v, an2, hd2

\* The Nak: TTLS begins, or the supplicant is told that there is nothing for
\* it.
LEMMA NakGoing ==
    ASSUME Fit, NEW c \in Client, NEW h \in Handler, GoingNow(c), hand[h].c = c, Nak(h)
    PROVE  GoingNow(c)'
<1> DEFINE k == cl[c]
           s == k.state
           r == sess[s]
           an == ans[c]
           v == verdict[c]
           an2 == ans'[c]
           N == Len(an) + 1
           hd2 == hand'
           v2 == verdict'[c]
<1>1. /\ hand[h].pc = "step" /\ UNCHANGED <<cl, now>> /\ hand[h].p.type = "nak" /\ ~SamePacket(h)
  BY DEF Nak, NewPacket, envVars
<1>2. /\ hand[h].p = k.cur /\ k.cur \in Packet /\ h \notin Authing(c, hand)
      /\ Going(c, k, sess, hand, an, now, v) /\ k.cur.wants = k.wants
      /\ hand[h].s = None => s = None \/ r.st = "gone"
      /\ hand[h].s # None => hand[h].s = s /\ s \in Sess /\ s # None /\ r \in SessRecord
  BY <1>1, AtHand
<1>3. InNak(c, k, sess, hand, an, now, v)
  <2> HIDE DEF k, an, v
  <2> QED
    BY <1>1, <1>2 DEF Going, InIdentity, InTurn, IsOver, Tunnelling
<1>4. /\ k.state # None /\ k.cur.id = k.lastId /\ k.got = 0 /\ k.sent = 0 /\ k.rest = <<>>
      /\ v \in {"none", "no", "full"} /\ Authing(c, hand) = {} /\ k.cur.type = "nak"
      /\ Untouched(r) /\ Fresh(r, now)
  BY <1>3 DEF InNak
<1>5. hand[h].s = s /\ s \in Sess /\ s # None /\ r \in SessRecord /\ r.lastReq # k.cur
  BY <1>1, <1>2, <1>4 DEF Untouched, SamePacket
<1>6. r.proto = "peap" /\ \A i \in To(k.cur, an) :
         an[i].code = "reject" /\ v \in {"no", "full"} /\ k.wants # "ttls"
  BY <1>3, <1>5 DEF InNak
<1>7. sess \in [Sess -> SessRecord] /\ ans \in [Client -> Seq(Reply)]
      /\ verdict \in [Client -> {"none", "yes", "no", "full"}]
  BY DEF Fit, SessionsFit, AnswersFit
<1>8. k.pc = "rejected" => v \in {"no", "full"}
  BY <1>2 DEF Going, Coherent
<1>9. CASE k.wants = "ttls"
  <2> DEFINE start == [id |-> NextId(k.cur.id), kind |-> "start", proto |-> "ttls",
                       no |-> 0, said |-> "more"]
             id2 == NextId(NextId(k.cur.id))
             q == [r EXCEPT !.proto = "ttls", !.lastReq = k.cur, !.reqID = id2, !.lastResp = start]
             a == [code |-> "challenge", to |-> k.cur, state |-> s, req |-> start, name |-> None]
  <2>1. /\ sess' = [sess EXCEPT ![s].proto = "ttls", ![s].lastReq = k.cur,
                                ![s].reqID = id2, ![s].lastResp = start]
        /\ ans' = [ans EXCEPT ![c] = Append(@, a)] /\ Done(h) /\ v2 = v
    BY <1>2, <1>5, <1>6, <1>9 DEF Nak, Say
  <2>2. k.cur.id \in Id
    BY <1>2 DEF Packet
  <2>3. start \in Request /\ start.kind = "start" /\ start.proto = "ttls" /\ id2 \in Id
    BY <2>2, Constants DEF Request, Said
  <2>4. sess' = [sess EXCEPT ![s] = q]
    BY <1>5, <1>7, <2>1
  <2>5. a \in Reply /\ a.to = k.cur /\ a.code = "challenge" /\ a.state = s /\ a.req = start
    BY <1>2, <1>5, <2>3 DEF Reply
  <2> HIDE DEF start, id2, a, r
  <2>6. q \in SessRecord
    BY <1>2, <1>5, <2>3 DEF SessRecord
  <2>7. /\ q.st = r.st /\ q.phase = r.phase /\ q.inner = r.inner /\ q.buf = r.buf /\ q.input = r.input
        /\ q.read = r.read /\ q.up = r.up /\ q.err = r.err /\ q.out = r.out /\ q.made = r.made
        /\ q.lastUsed = r.lastUsed /\ q.lastReq = k.cur /\ q.lastResp = start
    BY <1>5 DEF SessRecord
  <2> HIDE DEF q
  <2>8. sess'[s] = q
    BY <1>5, <1>7, <2>4
  <2>9. /\ sess[s].st # "gone" /\ sess'[s].lastUsed = sess[s].lastUsed
        /\ k.pc = "rejected" => v2 \in {"no", "full"}
    BY <1>4, <1>8, <2>1, <2>7, <2>8 DEF Untouched, r
  <2>10. AnswersNow(c, h, a)
    BY <1>1, <1>2, <2>1, <2>5, <2>9, Answers
  <2>11. /\ Authing(c, hd2) = Authing(c, hand) \ {h}
         /\ To(k.cur, an2) = To(k.cur, an) \cup {N} /\ an2[N] = a
         /\ Coherent(c, k, sess', hd2, an2, now, v2)
    BY <1>1, <2>10 DEF AnswersNow, AddsTo
  <2>12. To(k.cur, an) = {}
    BY <1>6, <1>9
  <2>13. Untouched(q) /\ Fresh(q, now)
    BY <1>4, <2>7 DEF Untouched, Fresh
  <2> HIDE DEF k, an, v, an2, N, hd2, v2
  <2>14. \A i \in To(k.cur, an2) : an2[i].code = "challenge" /\ an2[i].req = start /\ an2[i].state = k.state
    BY <2>5, <2>11, <2>12 DEF s
  <2>15. v2 \in {"none", "no", "full"} /\ Authing(c, hd2) = {}
    BY <1>4, <2>1, <2>11
  <2>16. InNak(c, k, sess', hd2, an2, now, v2)
    BY <1>4, <1>9, <2>3, <2>7, <2>8, <2>13, <2>14, <2>15 DEF InNak, s
  <2> QED
    BY <1>1, <2>11, <2>16 DEF GoingNow, Going, k, an2, hd2, v2
<1>10. CASE k.wants # "ttls"
  <2> DEFINE a == [code |-> "reject", to |-> k.cur, state |-> None, req |-> NoRequest, name |-> None]
  <2>1. /\ sess' = sess /\ ans' = [ans EXCEPT ![c] = Append(@, a)] /\ Done(h)
        /\ verdict' = [verdict EXCEPT ![c] = IF @ = "none" THEN "no" ELSE @]
    BY <1>2, <1>10 DEF Nak, Reject, Say
  <2>2. v2 \in {"no", "full"}
    BY <1>4, <1>7, <2>1
  <2>3. a \in Reply /\ a.to = k.cur /\ a.code = "reject"
    BY <1>2, Constants DEF Reply
  <2> HIDE DEF a
  <2>4. AnswersNow(c, h, a)
    BY <1>1, <1>2, <2>1, <2>2, <2>3, Answers
  <2>5. /\ Authing(c, hd2) = Authing(c, hand) \ {h}
        /\ To(k.cur, an2) = To(k.cur, an) \cup {N} /\ an2[N] = a
        /\ \A i \in To(k.cur, an) : an2[i] = an[i]
        /\ Coherent(c, k, sess', hd2, an2, now, v2)
    BY <1>1, <2>4 DEF AnswersNow, AddsTo
  <2> HIDE DEF k, an, v, an2, N, hd2, v2
  <2>6. \A i \in To(k.cur, an2) : an2[i].code = "reject"
    BY <1>6, <2>3, <2>5
  <2>7. Authing(c, hd2) = {} /\ v2 \in {"none", "no", "full"}
    BY <1>4, <2>2, <2>5
  <2>8. InNak(c, k, sess', hd2, an2, now, v2)
    BY <1>4, <1>5, <1>6, <1>10, <2>1, <2>2, <2>6, <2>7 DEF InNak, r, s
  <2> QED
    BY <1>1, <2>5, <2>8 DEF GoingNow, Going, k, an2, hd2, v2
<1> QED
  BY <1>9, <1>10

\* A session that is used is not forgotten, by the sweep nor for another.
LEMMA SweptSpares ==
    ASSUME Patient, Fit, NEW x \in Sess, sess[x].st = "gone" \/ Fresh(sess[x], now)
    PROVE  Swept[x] = sess[x] /\ x \notin Victims
<1>1. sess[x].lastUsed \in Nat /\ now \in Nat /\ EvictIdle \in Nat /\ TTL \in Nat
  BY SessionParts, EapAssumption DEF Fit, SessionsFit
<1>2. ~(x \in Stored /\ Overdue(x))
  BY <1>1 DEF Stored, Overdue, Fresh, Patient
<1>3. x \notin Victims
  BY <1>1 DEF Victims, Oldest, Victim, Kept, Stored, Fresh
<1> QED
  BY <1>2, <1>3 DEF Swept

LEMMA IdentityCases ==
    ASSUME NEW h \in Handler, Identity(h)
    PROVE  LET start == [id |-> NextId(hand[h].p.id), kind |-> "start", proto |-> "peap",
                         no |-> 0, said |-> "more"]
           IN \/ /\ sess' = Swept /\ Reject(h)
                 /\ verdict' = [verdict EXCEPT ![hand[h].c] = IF @ = "none" THEN "full" ELSE @]
              \/ \E s \in {x \in Sess : sess[x].st = "absent"} : \E gone \in SUBSET Victims :
                   /\ sess' = [x \in Sess |-> IF x = s THEN Drawn(h, start)
                                              ELSE IF x \in gone THEN [sess[x] EXCEPT !.st = "gone"]
                                              ELSE Swept[x]]
                   /\ Say(h, "challenge", s, start, None) /\ Done(h) /\ UNCHANGED verdict
<1> DEFINE start == [id |-> NextId(hand[h].p.id), kind |-> "start", proto |-> "peap",
                     no |-> 0, said |-> "more"]
           full == Cardinality(Kept) >= Cap
           New(s, gone) ==
             /\ sess' = [x \in Sess |-> IF x = s THEN Drawn(h, start)
                                        ELSE IF x \in gone THEN [sess[x] EXCEPT !.st = "gone"]
                                        ELSE Swept[x]]
             /\ Say(h, "challenge", s, start, None) /\ Done(h) /\ UNCHANGED verdict
<1>1. \/ /\ sess' = Swept /\ Reject(h)
         /\ verdict' = [verdict EXCEPT ![hand[h].c] = IF @ = "none" THEN "full" ELSE @]
      \/ \E s \in {x \in Sess : sess[x].st = "absent"} :
         \E gone \in (IF full THEN {{v} : v \in Victims} ELSE {{}}) : New(s, gone)
  BY Zenon DEF Identity, Drawn
<1> HIDE DEF New
<1>2. \A gone \in (IF full THEN {{v} : v \in Victims} ELSE {{}}) : gone \in SUBSET Victims
  OBVIOUS
<1>3. \/ /\ sess' = Swept /\ Reject(h)
         /\ verdict' = [verdict EXCEPT ![hand[h].c] = IF @ = "none" THEN "full" ELSE @]
      \/ \E s \in {x \in Sess : sess[x].st = "absent"} : \E gone \in SUBSET Victims : New(s, gone)
  BY <1>1, <1>2, Zenon
<1> QED
  BY <1>3, Zenon DEF New

LEMMA IdentitySpares ==
    ASSUME Patient, Fit, NEW h \in Handler, Identity(h), NEW x \in Sess, sess[x].st # "absent",
           sess[x].st = "gone" \/ Fresh(sess[x], now)
    PROVE  sess'[x] = sess[x]
<1>1. Swept[x] = sess[x] /\ x \notin Victims
  BY SweptSpares
<1> DEFINE start == [id |-> NextId(hand[h].p.id), kind |-> "start", proto |-> "peap",
                     no |-> 0, said |-> "more"]
<1>2. \/ sess' = Swept
      \/ \E s \in {y \in Sess : sess[y].st = "absent"} : \E gone \in SUBSET Victims :
           sess' = [y \in Sess |-> IF y = s THEN Drawn(h, start)
                                   ELSE IF y \in gone THEN [sess[y] EXCEPT !.st = "gone"]
                                   ELSE Swept[y]]
  BY IdentityCases
<1> HIDE DEF start
<1> QED
  BY <1>1, <1>2

LEMMA DrawnUntouched ==
    ASSUME Patient, NEW h, NEW start, now \in Nat
    PROVE  LET q == Drawn(h, start) IN
           /\ Untouched(q) /\ Fresh(q, now) /\ q.proto = "peap"
           /\ q.lastReq = hand[h].p /\ q.lastResp = start
<1> DEFINE q == Drawn(h, start)
<1>1. /\ q.st = "live" /\ q.phase = "handshake" /\ q.inner = "challenge" /\ q.buf = <<>>
      /\ q.input = <<>> /\ q.read = 0 /\ q.up = FALSE /\ q.err = FALSE /\ q.out = <<>> /\ q.made = 0
      /\ q.proto = "peap" /\ q.lastReq = hand[h].p /\ q.lastResp = start /\ q.lastUsed = now
  BY DEF Drawn, NoSession
<1> HIDE DEF q
<1>2. now + EvictIdle > now
  BY EapAssumption DEF Patient
<1> QED
  BY <1>1, <1>2 DEF Untouched, Fresh, q

\* The Identity: a session of its own, or no room for it.
LEMMA IdentityGoing ==
    ASSUME Patient, Fit, NEW c \in Client, NEW h \in Handler, GoingNow(c), hand[h].c = c, Identity(h)
    PROVE  GoingNow(c)'
<1> DEFINE k == cl[c]
           an == ans[c]
           v == verdict[c]
           an2 == ans'[c]
           N == Len(an) + 1
           hd2 == hand'
           v2 == verdict'[c]
<1>1. /\ hand[h].pc = "step" /\ UNCHANGED <<cl, now>> /\ hand[h].p.type = "identity"
  BY DEF Identity, NewPacket, envVars
<1>2. /\ hand[h].p = k.cur /\ k.cur \in Packet /\ h \notin Authing(c, hand)
      /\ Going(c, k, sess, hand, an, now, v)
  BY <1>1, AtHand
<1>3. /\ ans \in [Client -> Seq(Reply)] /\ verdict \in [Client -> {"none", "yes", "no", "full"}]
      /\ now \in Nat
  BY DEF Fit, AnswersFit
<1>4. k.pc = "rejected" => v \in {"no", "full"}
  BY <1>2 DEF Going, Coherent
<1>5. InIdentity(c, k, sess, hand, an, now, v)
  <2> HIDE DEF k, an, v
  <2> QED
    BY <1>1, <1>2 DEF Going, InNak, InTurn, IsOver, Tunnelling
<1>6. /\ k.cur.type = "identity" /\ k.cur.state = None /\ k.state = None /\ k.lastId = None
      /\ k.got = 0 /\ k.sent = 0 /\ k.rest = <<>>
      /\ v \in {"none", "full"} /\ Authing(c, hand) = {}
  BY <1>5 DEF InIdentity
<1> DEFINE Good(i, m, tab, w) ==
              \/ m.code = "reject" /\ w = "full"
              \/ /\ m.code = "challenge" /\ m.state \in Sess
                 /\ LET r == tab[m.state] IN
                    /\ Untouched(r) /\ Fresh(r, now) /\ r.proto = "peap" /\ r.lastReq = k.cur
                    /\ r.lastResp = m.req /\ m.req.kind = "start" /\ m.req.proto = "peap"
<1>7. \A i \in To(k.cur, an) : Good(i, an[i], sess, v)
  BY <1>5 DEF InIdentity
<1>8. \A x \in Sess : Untouched(sess[x]) /\ Fresh(sess[x], now) => sess'[x] = sess[x]
  BY IdentitySpares DEF Untouched
<1>9. \A i \in To(k.cur, an) : (v = "full" => v2 = "full") => Good(i, an[i], sess', v2)
  <2> HIDE DEF k, an, v, v2
  <2> QED
    BY <1>7, <1>8
<1> HIDE DEF Good
<1> DEFINE start == [id |-> NextId(k.cur.id), kind |-> "start", proto |-> "peap",
                     no |-> 0, said |-> "more"]
<1>10. ASSUME NEW a \in Reply, a.to = k.cur, ans' = [ans EXCEPT ![c] = Append(@, a)], Done(h),
              v2 \in {"none", "full"}, v = "full" => v2 = "full", Good(N, a, sess', v2)
       PROVE  GoingNow(c)'
  <2>1. k.state = None /\ (k.pc = "rejected" => v2 \in {"no", "full"})
    BY <1>4, <1>6, <1>10
  <2>2. AnswersNow(c, h, a)
    BY <1>1, <1>2, <1>10, <2>1, Answers
  <2>3. /\ Authing(c, hd2) = Authing(c, hand) \ {h}
        /\ To(k.cur, an2) = To(k.cur, an) \cup {N} /\ an2[N] = a
        /\ \A i \in To(k.cur, an) : an2[i] = an[i]
        /\ Coherent(c, k, sess', hd2, an2, now, v2)
    BY <1>1, <2>2 DEF AnswersNow, AddsTo
  <2> HIDE DEF k, an, v, an2, N, hd2, v2
  <2>4. \A i \in To(k.cur, an2) : Good(i, an2[i], sess', v2)
    BY <1>9, <1>10, <2>3
  <2>5. Authing(c, hd2) = {}
    BY <1>6, <2>3
  <2>6. InIdentity(c, k, sess', hd2, an2, now, v2)
    BY <1>6, <1>10, <2>4, <2>5 DEF InIdentity, Good
  <2> QED
    BY <1>1, <2>3, <2>6 DEF GoingNow, Going, k, an2, hd2, v2
<1>11. \/ /\ sess' = Swept /\ Reject(h)
          /\ verdict' = [verdict EXCEPT ![c] = IF @ = "none" THEN "full" ELSE @]
       \/ \E s \in {x \in Sess : sess[x].st = "absent"} : \E gone \in SUBSET Victims :
            /\ sess' = [x \in Sess |-> IF x = s THEN Drawn(h, start)
                                       ELSE IF x \in gone THEN [sess[x] EXCEPT !.st = "gone"]
                                       ELSE Swept[x]]
            /\ Say(h, "challenge", s, start, None) /\ Done(h) /\ UNCHANGED verdict
  <2> DEFINE start2 == [id |-> NextId(hand[h].p.id), kind |-> "start", proto |-> "peap",
                        no |-> 0, said |-> "more"]
  <2>1. start2 = start /\ hand[h].c = c
    BY <1>2
  <2>2. \/ /\ sess' = Swept /\ Reject(h)
           /\ verdict' = [verdict EXCEPT ![hand[h].c] = IF @ = "none" THEN "full" ELSE @]
        \/ \E s \in {x \in Sess : sess[x].st = "absent"} : \E gone \in SUBSET Victims :
             /\ sess' = [x \in Sess |-> IF x = s THEN Drawn(h, start2)
                                        ELSE IF x \in gone THEN [sess[x] EXCEPT !.st = "gone"]
                                        ELSE Swept[x]]
             /\ Say(h, "challenge", s, start2, None) /\ Done(h) /\ UNCHANGED verdict
    BY IdentityCases
  <2> HIDE DEF start, start2
  <2> QED
    BY <2>1, <2>2
<1>12. CASE /\ Reject(h)
            /\ verdict' = [verdict EXCEPT ![c] = IF @ = "none" THEN "full" ELSE @]
  <2> DEFINE a == [code |-> "reject", to |-> k.cur, state |-> None, req |-> NoRequest, name |-> None]
  <2>1. ans' = [ans EXCEPT ![c] = Append(@, a)] /\ Done(h)
    BY <1>2, <1>12 DEF Reject, Say
  <2>2. v2 = "full"
    BY <1>3, <1>6, <1>12
  <2>3. a \in Reply /\ a.to = k.cur /\ a.code = "reject"
    BY <1>2, Constants DEF Reply
  <2>4. Good(N, a, sess', v2)
    BY <2>2, <2>3 DEF Good
  <2> HIDE DEF a
  <2> QED
    BY <1>10, <2>1, <2>2, <2>3, <2>4
<1>13. ASSUME NEW s \in Sess, NEW gone,
              sess' = [x \in Sess |-> IF x = s THEN Drawn(h, start)
                                      ELSE IF x \in gone THEN [sess[x] EXCEPT !.st = "gone"]
                                      ELSE Swept[x]],
              Say(h, "challenge", s, start, None), Done(h), UNCHANGED verdict
       PROVE  GoingNow(c)'
  <2> DEFINE a == [code |-> "challenge", to |-> k.cur, state |-> s, req |-> start, name |-> None]
  <2>1. ans' = [ans EXCEPT ![c] = Append(@, a)] /\ Done(h) /\ v2 = v
    BY <1>2, <1>13 DEF Say
  <2>2. k.cur.id \in Id
    BY <1>2 DEF Packet
  <2>3. start \in Request /\ start.kind = "start" /\ start.proto = "peap"
    BY <2>2, Constants DEF Request, Said
  <2> HIDE DEF start
  <2>4. a \in Reply /\ a.to = k.cur /\ a.code = "challenge" /\ a.state = s /\ a.req = start
    BY <1>2, <2>3 DEF Reply
  <2>5. sess'[s] = Drawn(h, start)
    BY <1>13
  <2>6. LET q == Drawn(h, start) IN
        /\ Untouched(q) /\ Fresh(q, now) /\ q.proto = "peap"
        /\ q.lastReq = k.cur /\ q.lastResp = start
    BY <1>2, <1>3, DrawnUntouched
  <2>7. Good(N, a, sess', v2)
    BY <2>3, <2>4, <2>5, <2>6 DEF Good
  <2> HIDE DEF a
  <2> QED
    BY <1>6, <1>10, <2>1, <2>4, <2>7
<1> QED
  BY <1>11, <1>12, <1>13

-----------------------------------------------------------------------------
(* Whose step it is.                                                       *)

HoldsNow(c) == Holds(c, cl[c], sess, hand, ans[c], now, verdict[c])

\* A supplicant's own handler.
LEMMA OwnGoing ==
    ASSUME Patient, Fit, NEW c \in Client, NEW h \in Handler, GoingNow(c), hand[h].c = c,
           HandlerStep(h)
    PROVE  GoingNow(c)'
<1>1. CASE SendAgain(h) \/ Identity(h) \/ Nak(h) \/ NoSuchSession(h)
  BY <1>1, SendAgainGoing, IdentityGoing, NakGoing, NoSuchSessionGoing
<1>2. CASE Collect(h) \/ Handshake(h) \/ FirstQuestion(h)
  BY <1>2, CollectGoing, HandshakeGoing, FirstQuestionGoing
<1>3. ~Misfit(h)
  BY MisfitNever
<1>4. ASSUME NEW x, \/ Listen(h, x) \/ InnerPAP(h, x) \/ InnerIdentity(h, x) \/ InnerResponse(h, x)
                    \/ AfterSuccess(h, x) \/ AfterTLV(h, x) \/ AfterFailure(h, x)
      PROVE  GoingNow(c)'
  BY <1>4, ListenGoing, InnerPAPGoing, InnerIdentityGoing, InnerResponseGoing,
     AfterSuccessGoing, AfterTLVGoing, AfterFailureGoing
<1>5. ASSUME NEW yes \in BOOLEAN, Resume(h, yes)
      PROVE  GoingNow(c)'
  BY <1>5, ResumeGoing
<1> QED
  BY <1>1, <1>2, <1>3, <1>4, <1>5 DEF HandlerStep

LEMMA StepWorks ==
    ASSUME NEW h \in Handler, HandlerStep(h)
    PROVE  hand[h].pc # "idle" /\ UNCHANGED <<cl, now>>
BY DEF HandlerStep, SendAgain, Identity, Nak, NoSuchSession, Collect, Misfit, Handshake, FirstQuestion,
       Listen, InnerPAP, InnerIdentity, InnerResponse, AfterSuccess, AfterTLV, AfterFailure, Resume,
       Asked, Inner, Complete, InTunnel, Tunnelled, NewPacket, envVars

LEMMA OwnStep ==
    ASSUME Patient, Fit, NEW c \in Client, NEW h \in Handler, HoldsNow(c), hand[h].c = c,
           HandlerStep(h)
    PROVE  HoldsNow(c)'
<1>1. hand[h].pc # "idle" /\ UNCHANGED <<cl, now>>
  BY StepWorks
<1>2. cl[c].pc \notin {"idle", "broken"}
  BY <1>1 DEF HoldsNow, Holds, Unborn
<1>3. CASE cl[c].pc \in {"await", "rejected"}
  <2>1. GoingNow(c)
    BY <1>3 DEF HoldsNow, Holds, GoingNow
  <2>2. GoingNow(c)'
    BY <2>1, OwnGoing
  <2> QED
    BY <1>1, <1>3, <2>2 DEF HoldsNow, Holds, GoingNow
<1>4. CASE cl[c].pc \notin {"await", "rejected"}
  BY <1>1, <1>2, <1>4 DEF HoldsNow, Holds
<1> QED
  BY <1>3, <1>4

\* What a handler does with the session, the answer and itself.
Acts(h) ==
    \/ \E r : \/ Pump(h, r) \/ Fail(h, r) \/ WaitFor(h, r)
              \/ \E name : Admit(h, r, name)
    \/ Reject(h) /\ sess' = sess
    \/ SendAgain(h)
    \/ Nak(h)

Apart(c, h) ==
    /\ ans'[c] = ans[c] /\ cl' = cl /\ now' = now /\ verdict'[c] = verdict[c]
    /\ \A g \in Handler : g # h => hand'[g] = hand[g]
    /\ hand'[h].pc = "idle" \/ hand'[h].c = hand[h].c

LEMMA ActsApart ==
    ASSUME Fit, NEW c \in Client, NEW h \in Handler, hand[h].c # c, Acts(h), UNCHANGED <<cl, now>>,
           verdict' = verdict \/ (\E yes : Judge(hand[h].c, yes)) \/ Nak(h)
    PROVE  Apart(c, h) /\ \A x \in Sess : x # hand[h].s => sess'[x] = sess[x]
<1>1. /\ hand \in [Handler -> HandRecord] /\ ans \in [Client -> Seq(Reply)]
      /\ sess \in [Sess -> SessRecord] /\ verdict \in [Client -> {"none", "yes", "no", "full"}]
  BY DEF Fit, HandlersFit, AnswersFit, SessionsFit
<1>2. ans' = ans \/ \E a : ans' = [ans EXCEPT ![hand[h].c] = a]
  BY Zenon DEF Acts, Pump, Fail, WaitFor, Admit, Reject, SendAgain, Nak, Say
<1>3. sess' = sess \/ (\E q : sess' = [sess EXCEPT ![hand[h].s] = q]) \/ Nak(h)
  BY Zenon DEF Acts, Pump, Fail, WaitFor, Admit, Reject, SendAgain, Without
<1>4. Done(h) \/ \E r : WaitFor(h, r)
  BY Zenon DEF Acts, Pump, Fail, Admit, Reject, SendAgain, Nak
<1>5. verdict'[c] = verdict[c]
  BY <1>1 DEF Judge, Nak
<1>6. /\ \A g \in Handler : g # h => hand'[g] = hand[g]
      /\ hand'[h].pc = "idle" \/ hand'[h].c = hand[h].c
  <2>1. CASE Done(h)
    BY <1>1, <2>1 DEF Done
  <2>2. CASE \E r : WaitFor(h, r)
    <3>1. hand' = [hand EXCEPT ![h].pc = "auth", ![h].deadline = now + PushWait]
      BY <2>2 DEF WaitFor
    <3>2. hand[h] \in HandRecord
      BY <1>1
    <3> QED
      BY <1>1, <3>1, <3>2 DEF HandRecord
  <2> QED
    BY <1>4, <2>1, <2>2
<1>7. \A x \in Sess : x # hand[h].s => sess'[x] = sess[x]
  <2>1. CASE Nak(h)
    BY <1>1, <2>1 DEF Nak
  <2>2. CASE sess' = sess \/ \E q : sess' = [sess EXCEPT ![hand[h].s] = q]
    BY <1>1, <2>2
  <2> QED
    BY <1>3, <2>1, <2>2
<1>8. ans'[c] = ans[c]
  BY <1>1, <1>2
<1> QED
  BY <1>5, <1>6, <1>7, <1>8 DEF Apart

LEMMA StepActs ==
    ASSUME NEW h \in Handler, HandlerStep(h), ~Identity(h)
    PROVE  /\ Acts(h)
           /\ verdict' = verdict \/ (\E yes : Judge(hand[h].c, yes)) \/ Nak(h)
<1>3. verdict' = verdict \/ (\E yes : Judge(hand[h].c, yes)) \/ Nak(h)
  BY DEF HandlerStep, SendAgain, NoSuchSession, Collect, Misfit, Handshake, FirstQuestion,
         Listen, InnerPAP, InnerIdentity, InnerResponse, AfterSuccess, AfterTLV, AfterFailure, Resume,
         historyVars
<1>4. ASSUME \/ SendAgain(h) \/ Nak(h) \/ NoSuchSession(h)
             \/ Collect(h) \/ Misfit(h) \/ FirstQuestion(h)
      PROVE  Acts(h)
  <2>1. CASE SendAgain(h) \/ Nak(h)
    BY <2>1 DEF Acts
  <2>2. CASE NoSuchSession(h)
    BY <2>2 DEF Acts, NoSuchSession
  <2>3. CASE Collect(h)
    BY <2>3, Zenon DEF Acts, Collect
  <2>4. CASE Misfit(h)
    BY <2>4, Zenon DEF Acts, Misfit
  <2>5. CASE FirstQuestion(h)
    BY <2>5, Zenon DEF Acts, FirstQuestion
  <2> QED
    BY <1>4, <2>1, <2>2, <2>3, <2>4, <2>5
<1>5. ASSUME Handshake(h)
      PROVE  Acts(h)
  <2> DEFINE r == [Begun(h) EXCEPT !.buf = <<>>]
             next == IF r.proto = "peap" THEN "done" ELSE "inner"
             fed == Fed(r, Body(h))
  <2>1. \/ Pump(h, r)
        \/ Pump(h, [fed EXCEPT !.phase = next])
        \/ \E w \in Waited(fed) : \/ Fail(h, w)
                                  \/ Pump(h, w)
                                  \/ Pump(h, [w EXCEPT !.phase = next])
    BY <1>5, Zenon DEF Handshake
  <2> HIDE DEF r, next, fed
  <2> QED
    BY <2>1, Zenon DEF Acts
<1>6. ASSUME NEW x, \/ Listen(h, x) \/ InnerPAP(h, x) \/ InnerIdentity(h, x) \/ InnerResponse(h, x)
                    \/ AfterSuccess(h, x) \/ AfterTLV(h, x) \/ AfterFailure(h, x)
      PROVE  Acts(h)
  <2>1. CASE Listen(h, x)
    BY <2>1, Zenon DEF Acts, Listen
  <2>2. CASE InnerPAP(h, x) \/ InnerIdentity(h, x)
    BY <2>2, Zenon DEF Acts, InnerPAP, InnerIdentity
  <2>3. CASE InnerResponse(h, x)
    BY <2>3, Zenon DEF Acts, InnerResponse, Succeed, FailMSCHAPv2
  <2>4. CASE AfterSuccess(h, x) \/ AfterTLV(h, x) \/ AfterFailure(h, x)
    BY <2>4, Zenon DEF Acts, AfterSuccess, AfterTLV, AfterFailure
  <2> QED
    BY <1>6, <2>1, <2>2, <2>3, <2>4
<1>7. ASSUME NEW yes \in BOOLEAN, Resume(h, yes)
      PROVE  Acts(h)
  BY <1>7, Zenon DEF Acts, Resume, Succeed, FailMSCHAPv2
<1> QED
  BY <1>3, <1>4, <1>5, <1>6, <1>7 DEF HandlerStep

\* The handler of somebody else.
LEMMA OtherStep ==
    ASSUME Patient, Fit, NEW c \in Client, NEW h \in Handler, HoldsNow(c), hand[h].c # c,
           HandlerStep(h)
    PROVE  HoldsNow(c)'
<1>1. /\ Belong(c, cl[c], hand, ans[c], sess) /\ now \in Nat
      /\ hand \in [Handler -> HandRecord] /\ sess \in [Sess -> SessRecord]
      /\ ans \in [Client -> Seq(Reply)] /\ verdict \in [Client -> {"none", "yes", "no", "full"}]
  BY Belongs DEF Fit, AnswersFit
<1>2. Apart(c, h) /\ \A x \in Sess : sess[x].owner = c /\ (sess[x].st = "gone" \/ Fresh(sess[x], now))
                                     => sess'[x] = sess[x]
  <2>1. CASE Identity(h)
    <3>1. \A x \in Sess : sess[x].owner = c => sess[x].st # "absent"
      BY Constants DEF Fit, SessionsFit, SessionFits
    <3>2. \A x \in Sess : sess[x].owner = c /\ (sess[x].st = "gone" \/ Fresh(sess[x], now))
                          => sess'[x] = sess[x]
      BY <2>1, <3>1, IdentitySpares
    <3>3. Done(h) /\ UNCHANGED <<cl, now>>
      BY <2>1 DEF Identity, Reject, envVars
    <3>4. \E a : ans' = [ans EXCEPT ![hand[h].c] = a]
      BY <2>1, Zenon DEF Identity, Reject, Say
    <3>5. verdict'[c] = verdict[c]
      BY <1>1, <2>1 DEF Identity
    <3>6. ans'[c] = ans[c]
      BY <1>1, <3>4
    <3> QED
      BY <1>1, <3>2, <3>3, <3>5, <3>6 DEF Apart, Done
  <2>2. CASE ~Identity(h)
    <3>1. /\ Acts(h) /\ UNCHANGED <<cl, now>> /\ hand[h].pc # "idle"
          /\ verdict' = verdict \/ (\E yes : Judge(hand[h].c, yes)) \/ Nak(h)
      BY <2>2, StepActs, StepWorks
    <3>2. Apart(c, h) /\ \A x \in Sess : x # hand[h].s => sess'[x] = sess[x]
      BY <3>1, ActsApart
    <3>3. \A x \in Sess : sess[x].owner = c => x # hand[h].s
      BY <3>1, Holding, Constants
    <3> QED
      BY <3>2, <3>3
  <2> QED
    BY <2>1, <2>2
<1>3. /\ \A g \in Handler : hand[g].pc # "idle" /\ hand[g].c = c => hand'[g] = hand[g]
      /\ \A g \in Handler : hand'[g].pc # "idle" /\ hand'[g].c = c => hand'[g] = hand[g]
  BY <1>2 DEF Apart
<1>4. Holds(c, cl[c], sess, hand, ans[c], now, verdict[c])
  BY DEF HoldsNow
<1>5. Holds(c, cl[c], sess', hand', ans[c], now, verdict[c])
  <2> DEFINE k == cl[c]
             an == ans[c]
             v == verdict[c]
  <2>1. /\ Belong(c, k, hand, an, sess) /\ Holds(c, k, sess, hand, an, now, v) /\ now \in Nat
        /\ \A x \in Sess : sess[x].owner = c /\ (sess[x].st = "gone" \/ Fresh(sess[x], now))
                           => sess'[x] = sess[x]
    BY <1>1, <1>2, <1>4
  <2> HIDE DEF k, an, v
  <2>2. Holds(c, k, sess', hand', an, now, v)
    BY <1>3, <2>1, BystanderKept
  <2> QED
    BY <2>2 DEF k, an, v
<1> QED
  BY <1>2, <1>5 DEF HoldsNow, Apart

-----------------------------------------------------------------------------
(* Packets that arrive, and the engine.                                    *)

\* A session that differs in the time of its last use.
SameButUsed(q, r) ==
    /\ q.st = r.st /\ q.phase = r.phase /\ q.inner = r.inner /\ q.buf = r.buf
    /\ q.input = r.input /\ q.read = r.read /\ q.up = r.up /\ q.err = r.err
    /\ q.out = r.out /\ q.made = r.made /\ q.lastReq = r.lastReq /\ q.lastResp = r.lastResp
    /\ q.proto = r.proto

LEMMA UsedKeeps ==
    ASSUME NEW q, NEW r, SameButUsed(q, r), NEW k, NEW v
    PROVE  /\ Untouched(r) => Untouched(q)
           /\ Waits(k, r, v) => Waits(k, q, v)
           /\ Ready(k, r) => Ready(k, q)
           /\ Replied(k, r, v) => Replied(k, q, v)
<1>1. /\ Popped(q) = Popped(r) /\ Taken(q) = Taken(r)
      /\ Queue(r) => Queue(q)
  BY DEF SameButUsed, Popped, Taken, Queue
<1>2. Pipe(r) => Pipe(q)
  BY <1>1 DEF SameButUsed, Pipe, Lined
<1>3. Served(k, r) => Served(k, q)
  BY <1>1, <1>2 DEF SameButUsed, Served
<1>4. Untouched(r) => Untouched(q)
  BY DEF SameButUsed, Untouched
<1>5. Waits(k, r, v) => Waits(k, q, v)
  BY <1>1, <1>2 DEF SameButUsed, Waits
<1>6. Ready(k, r) => Ready(k, q)
  BY <1>1, <1>3 DEF SameButUsed, Ready
<1>7. Replied(k, r, v) => Replied(k, q, v)
  BY <1>1, <1>3 DEF SameButUsed, Replied
<1> QED
  BY <1>4, <1>5, <1>6, <1>7

\* A handler begins with the packet the supplicant waits for: the session is
\* there, unless the exchange is over.
LEMMA BegunKept ==
    ASSUME Patient, NEW c \in Client, NEW k, NEW tab \in [Sess -> SessRecord], NEW tab2,
           NEW hd \in [Handler -> HandRecord], NEW hd2, NEW an, NEW t \in Nat, NEW v, NEW h \in Handler,
           Belong(c, k, hd, an, tab), Going(c, k, tab, hd, an, t, v),
           hd[h].pc = "idle", hd2[h].pc = "step", hd2[h].p = k.cur,
           \A g \in Handler : g # h => hd2[g] = hd[g],
           k.state = None => tab2 = tab /\ hd2[h].s = None,
           k.state # None /\ tab[k.state].st = "gone" => tab2[k.state] = tab[k.state] /\ hd2[h].s = None,
           k.state # None /\ tab[k.state].st = "live" /\ Fresh(tab[k.state], t) =>
              /\ SameButUsed(tab2[k.state], tab[k.state]) /\ tab2[k.state].lastUsed = t
              /\ hd2[h].s = k.state
    PROVE  Going(c, k, tab2, hd2, an, t, v)
<1> DEFINE s == k.state
           r == tab[s]
           q == tab2[s]
<1>1. Coherent(c, k, tab, hd, an, t, v) /\ k.cur.state = k.state /\ Attended(c, k, tab, hd, t)
  BY DEF Going, Coherent
<1>2. /\ Authing(c, hd2) = Authing(c, hd)
      /\ \A g \in Authing(c, hd) : hd2[g] = hd[g]
  BY DEF Authing
<1>3. s # None => s \in Sess
  BY DEF Belong
<1>4. t + EvictIdle > t /\ t <= t
  BY EapAssumption DEF Patient
<1>5. \/ s = None /\ InIdentity(c, k, tab, hd, an, t, v)
      \/ s # None /\ Untouched(r) /\ Fresh(r, t) /\ InNak(c, k, tab, hd, an, t, v)
      \/ s # None /\ r.st = "live" /\ Fresh(r, t) /\ InTurn(c, k, tab, hd, an, t, v)
      \/ s # None /\ r.st = "gone" /\ IsOver(c, k, tab, hd, an, t, v)
  BY DEF Going, InIdentity, InNak, InTurn, IsOver, Speaks
<1>6. \/ s = None /\ tab2 = tab /\ hd2[h].s = None
      \/ s # None /\ r.st = "gone" /\ q = r /\ hd2[h].s = None
      \/ s # None /\ r.st = "live" /\ Fresh(r, t) /\ SameButUsed(q, r) /\ q.lastUsed = t /\ hd2[h].s = s
  BY <1>5 DEF Untouched
<1>7. Attended(c, k, tab2, hd2, t)
  <2>1. ASSUME NEW g \in Handler, hd2[g].pc # "idle", hd2[g].c = c
        PROVE  /\ hd2[g].p = k.cur
               /\ hd2[g].pc = "step" /\ hd2[g].s = None => k.cur.state = None \/ tab2[k.cur.state].st = "gone"
               /\ hd2[g].pc = "step" /\ hd2[g].s # None => tab2[hd2[g].s].lastUsed = t \/ tab2[hd2[g].s].st = "gone"
    <3>1. CASE g = h
      BY <1>1, <1>6, <3>1
    <3>2. CASE g # h
      <4>1. hd2[g] = hd[g]
        BY <3>2
      <4>2. hd[g].p = k.cur /\ (hd[g].s # None => hd[g].s = s)
        BY <1>1, <2>1, <4>1 DEF Attended, Belong
      <4>3. hd[g].pc = "step" /\ hd[g].s = None => s = None \/ r.st = "gone"
        BY <1>1, <2>1, <4>1 DEF Attended
      <4>4. hd[g].pc = "step" /\ hd[g].s # None => r.lastUsed = t \/ r.st = "gone"
        BY <1>1, <2>1, <4>1, <4>2 DEF Attended
      <4> QED
        BY <1>1, <1>6, <4>1, <4>2, <4>3, <4>4
    <3> QED
      BY <3>1, <3>2
  <2> QED
    BY <2>1 DEF Attended
<1>8. Coherent(c, k, tab2, hd2, an, t, v)
  BY <1>1, <1>7 DEF Coherent
<1>9. CASE s = None /\ InIdentity(c, k, tab, hd, an, t, v)
  <2>1. tab2 = tab
    BY <1>9
  <2>2. InIdentity(c, k, tab2, hd2, an, t, v)
    BY <1>2, <1>9, <2>1 DEF InIdentity
  <2> QED
    BY <1>8, <2>2 DEF Going
<1>10. CASE s # None /\ Untouched(r) /\ Fresh(r, t) /\ InNak(c, k, tab, hd, an, t, v)
  <2>1. SameButUsed(q, r) /\ q.lastUsed = t
    BY <1>6, <1>10 DEF Untouched
  <2>2. Untouched(q) /\ Fresh(q, t) /\ q.lastReq = r.lastReq /\ q.lastResp = r.lastResp /\ q.proto = r.proto
    BY <1>4, <1>10, <2>1, UsedKeeps DEF Fresh, SameButUsed
  <2> HIDE DEF q
  <2>3. InNak(c, k, tab2, hd2, an, t, v)
    BY <1>2, <1>10, <2>2 DEF InNak, q
  <2> QED
    BY <1>8, <2>3 DEF Going
<1>11. CASE s # None /\ r.st = "live" /\ Fresh(r, t) /\ InTurn(c, k, tab, hd, an, t, v)
  <2>1. SameButUsed(q, r) /\ q.lastUsed = t
    BY <1>6, <1>11
  <2>2. /\ Fresh(q, t) /\ q.st = "live" /\ q.lastResp = r.lastResp /\ q.phase = r.phase
        /\ Waits(k, r, v) => Waits(k, q, v)
        /\ Ready(k, r) => Ready(k, q)
        /\ Replied(k, r, v) => Replied(k, q, v)
    <3>1. /\ Waits(k, r, v) => Waits(k, q, v)
          /\ Ready(k, r) => Ready(k, q)
          /\ Replied(k, r, v) => Replied(k, q, v)
      BY <2>1, UsedKeeps
    <3> QED
      BY <1>4, <1>11, <2>1, <3>1 DEF Fresh, SameButUsed
  <2>3. ASSUME NEW g \in Handler, hd[g].deadline <= r.lastUsed + PushWait, Authing(c, hd) = {g}
        PROVE  hd2[g].deadline <= q.lastUsed + PushWait
    <3>1. hd2[g] = hd[g]
      BY <1>2, <2>3
    <3>2. r.lastUsed <= t /\ r.lastUsed \in Nat /\ PushWait \in Nat
      BY <1>3, <1>11, SessionParts, EapAssumption DEF Fresh
    <3>3. hd[g].deadline \in Nat
      BY DEF HandRecord
    <3> QED
      BY <2>1, <2>3, <3>1, <3>2, <3>3
  <2> HIDE DEF q, r
  <2>4. InTurn(c, k, tab2, hd2, an, t, v)
    BY <1>2, <1>11, <2>2, <2>3 DEF InTurn, q, r
  <2> QED
    BY <1>8, <2>4 DEF Going
<1>12. CASE s # None /\ r.st = "gone" /\ IsOver(c, k, tab, hd, an, t, v)
  <2>1. q = r
    BY <1>6, <1>12
  <2>2. IsOver(c, k, tab2, hd2, an, t, v)
    BY <1>2, <1>12, <2>1 DEF IsOver
  <2> QED
    BY <1>8, <2>2 DEF Going
<1> QED
  BY <1>5, <1>9, <1>10, <1>11, <1>12

\* Before it starts, a supplicant has nothing on its way.
Silent == \A c \in Client : cl[c].pc = "idle" => net[c] = {}

LEMMA LookedUp ==
    ASSUME Patient, Fit, NEW h \in Handler, NEW d \in Client, NEW p \in net[d], NEW keep,
           Deliver(h, d, p, keep)
    PROVE  /\ hand[h].pc = "idle" /\ UNCHANGED <<cl, ans, now, verdict>>
           /\ hand'[h].pc = "step" /\ hand'[h].p = p /\ hand'[h].c = d
           /\ \A g \in Handler : g # h => hand'[g] = hand[g]
           /\ p # cl[d].cur => d \in disturbed'
           /\ p \in Packet /\ (p.state # None => p.state \in Sess /\ sess[p.state].owner = d)
           /\ \A x \in Sess : /\ sess[x].st = "gone" \/ Fresh(sess[x], now)
                              /\ x # p.state \/ sess[x].st = "gone"
                              => sess'[x] = sess[x]
           /\ p.state = None => sess' = sess /\ hand'[h].s = None
           /\ p.state # None /\ sess[p.state].st = "gone" => hand'[h].s = None
           /\ p.state # None /\ sess[p.state].st = "live" /\ Fresh(sess[p.state], now) =>
                /\ SameButUsed(sess'[p.state], sess[p.state]) /\ sess'[p.state].lastUsed = now
                /\ hand'[h].s = p.state
<1> DEFINE s == IF p.state \in Kept THEN p.state ELSE None
           G == [pc |-> "step", c |-> d, s |-> s, p |-> p, deadline |-> 0]
<1>1. /\ hand[h].pc = "idle" /\ UNCHANGED <<cl, ans, now, verdict>>
      /\ disturbed' = IF p # cl[d].cur THEN disturbed \cup {d} ELSE disturbed
      /\ hand' = [hand EXCEPT ![h] = G]
      /\ sess' = IF p.state = None THEN sess
                 ELSE IF s = None THEN Swept
                 ELSE [Swept EXCEPT ![s].lastUsed = now]
  BY Zenon DEF Deliver
<1>2. hand \in [Handler -> HandRecord] /\ sess \in [Sess -> SessRecord] /\ PacketFits(p, d, Owners, Able)
  BY DEF Fit, HandlersFit, SessionsFit, PacketsFit
<1>3. p \in Packet /\ (p.state # None => p.state \in Sess /\ sess[p.state].owner = d)
  BY <1>2 DEF PacketFits, Packet, Owners, OwnersIn
<1>4. Kept \subseteq Sess /\ None \notin Sess /\ \A x \in Kept : sess[x].st = "live"
  BY Constants DEF Kept, Stored
<1>5. \A x \in Sess : sess[x].st = "gone" \/ Fresh(sess[x], now) => Swept[x] = sess[x]
  BY SweptSpares
<1>6. ASSUME NEW x \in Sess, sess[x].st = "live", Fresh(sess[x], now)
      PROVE  x \in Kept
  <2>1. sess[x].lastUsed \in Nat /\ now \in Nat /\ EvictIdle \in Nat /\ TTL \in Nat
    BY <1>2, SessionParts, EapAssumption DEF Fit
  <2> QED
    BY <1>6, <2>1 DEF Kept, Stored, Overdue, Fresh, Patient
<1>7. hand'[h] = G /\ \A g \in Handler : g # h => hand'[g] = hand[g]
  BY <1>1, <1>2
<1>8. G.pc = "step" /\ G.c = d /\ G.s = s /\ G.p = p
  OBVIOUS
<1>9. Swept = [x \in Sess |-> Swept[x]]
  BY DEF Swept
<1>10. ASSUME NEW x \in Sess, sess[x].st = "gone" \/ Fresh(sess[x], now),
              x # p.state \/ sess[x].st = "gone"
       PROVE  sess'[x] = sess[x]
  <2>1. s # None => x # s
    BY <1>4, <1>10
  <2> QED
    BY <1>1, <1>5, <1>9, <1>10, <2>1
<1>11. p.state # None /\ sess[p.state].st = "gone" => s = None
  BY <1>4
<1>12. ASSUME p.state # None, sess[p.state].st = "live", Fresh(sess[p.state], now)
       PROVE  /\ SameButUsed(sess'[p.state], sess[p.state]) /\ sess'[p.state].lastUsed = now
              /\ s = p.state
  <2>1. s = p.state
    BY <1>3, <1>6, <1>12
  <2> DEFINE r == sess[p.state]
             q == [r EXCEPT !.lastUsed = now]
  <2>2. sess'[p.state] = [Swept[p.state] EXCEPT !.lastUsed = now]
    BY <1>1, <1>3, <1>9, <1>12, <2>1
  <2>3. sess'[p.state] = q
    BY <1>3, <1>5, <1>12, <2>2
  <2>4. r \in SessRecord
    BY <1>2, <1>3, <1>12
  <2> HIDE DEF r
  <2>5. q.lastUsed = now /\ SameButUsed(q, r)
    BY <2>4 DEF SessRecord, SameButUsed
  <2> HIDE DEF q
  <2> QED
    BY <2>1, <2>3, <2>5 DEF r
<1> HIDE DEF s, G
<1> QED
  BY <1>1, <1>3, <1>7, <1>8, <1>10, <1>11, <1>12, <1>4 DEF s

LEMMA DeliverHolds ==
    ASSUME Patient, Fit, Silent, NEW c \in Client, HoldsNow(c), NEW h \in Handler, NEW d \in Client,
           NEW p \in net[d], NEW keep, Deliver(h, d, p, keep), c \notin disturbed'
    PROVE  HoldsNow(c)'
<1> DEFINE k == cl[c]
           an == ans[c]
           v == verdict[c]
           tab2 == sess'
           hd2 == hand'
<1>1. /\ Belong(c, k, hand, an, sess) /\ now \in Nat
      /\ hand \in [Handler -> HandRecord] /\ sess \in [Sess -> SessRecord]
  BY Belongs
<1>2. Holds(c, k, sess, hand, an, now, v)
  BY DEF HoldsNow
<1>3. /\ hand[h].pc = "idle" /\ hd2[h].pc = "step" /\ hd2[h].p = p /\ hd2[h].c = d
      /\ \A g \in Handler : g # h => hd2[g] = hand[g]
      /\ p # cl[d].cur => d \in disturbed'
      /\ p.state # None => p.state \in Sess /\ sess[p.state].owner = d
      /\ \A x \in Sess : /\ sess[x].st = "gone" \/ Fresh(sess[x], now)
                         /\ x # p.state \/ sess[x].st = "gone"
                         => tab2[x] = sess[x]
  BY LookedUp
<1>4. /\ p.state = None => tab2 = sess /\ hd2[h].s = None
      /\ p.state # None /\ sess[p.state].st = "gone" => hd2[h].s = None
      /\ p.state # None /\ sess[p.state].st = "live" /\ Fresh(sess[p.state], now) =>
           /\ SameButUsed(tab2[p.state], sess[p.state]) /\ tab2[p.state].lastUsed = now
           /\ hd2[h].s = p.state
  BY LookedUp
<1>5. UNCHANGED <<cl, ans, now, verdict>>
  BY LookedUp
<1>6. HoldsNow(c)' <=> Holds(c, k, tab2, hd2, an, now, v)
  BY <1>5 DEF HoldsNow
<1>7. d = c => p = k.cur /\ k.pc # "idle"
  BY <1>3 DEF Silent
<1> HIDE DEF k, an, v, tab2, hd2
<1>8. CASE d # c
  <2>1. \A x \in Sess : sess[x].owner = c /\ (sess[x].st = "gone" \/ Fresh(sess[x], now))
                        => tab2[x] = sess[x]
    <3> SUFFICES ASSUME NEW x \in Sess, sess[x].owner = c, sess[x].st = "gone" \/ Fresh(sess[x], now)
                 PROVE  tab2[x] = sess[x]
      OBVIOUS
    <3>1. x # p.state
      BY <1>3, <1>8, Constants
    <3> QED
      BY <1>3, <3>1
  <2>2. /\ \A g \in Handler : hand[g].pc # "idle" /\ hand[g].c = c => hd2[g] = hand[g]
        /\ \A g \in Handler : hd2[g].pc # "idle" /\ hd2[g].c = c => hd2[g] = hand[g]
    BY <1>3, <1>8
  <2>3. Holds(c, k, tab2, hd2, an, now, v)
    BY <1>1, <1>2, <2>1, <2>2, BystanderKept
  <2> QED
    BY <1>6, <2>3
<1>9. CASE d = c
  <2>1. CASE k.pc \in {"await", "rejected"}
    <3>1. Going(c, k, sess, hand, an, now, v) /\ k.cur.state = k.state
      BY <1>2, <2>1 DEF Holds, Going, Coherent
    <3>2. /\ k.state = None => tab2 = sess /\ hd2[h].s = None
          /\ k.state # None /\ sess[k.state].st = "gone" => tab2[k.state] = sess[k.state] /\ hd2[h].s = None
          /\ k.state # None /\ sess[k.state].st = "live" /\ Fresh(sess[k.state], now) =>
               /\ SameButUsed(tab2[k.state], sess[k.state]) /\ tab2[k.state].lastUsed = now
               /\ hd2[h].s = k.state
      BY <1>3, <1>4, <1>7, <1>9, <3>1
    <3>3. /\ hd2[h].pc = "step" /\ hd2[h].p = k.cur
          /\ \A g \in Handler : g # h => hd2[g] = hand[g]
          /\ hand[h].pc = "idle"
      BY <1>3, <1>7, <1>9
    <3>4. Going(c, k, tab2, hd2, an, now, v)
      BY <1>1, <3>1, <3>2, <3>3, BegunKept
    <3> QED
      BY <1>6, <2>1, <3>4 DEF Holds
  <2>2. CASE k.pc \notin {"await", "rejected"}
    BY <1>2, <1>6, <1>7, <1>9, <2>2 DEF Holds
  <2> QED
    BY <2>1, <2>2
<1> QED
  BY <1>8, <1>9

\* The engine catches up: the streams have moved on, nothing else has.
LEMMA EngineHolds ==
    ASSUME Patient, Fit, NEW c \in Client, HoldsNow(c), NEW s \in Sess, Engine(s)
    PROVE  HoldsNow(c)'
<1> DEFINE k == cl[c]
           an == ans[c]
           v == verdict[c]
           tab2 == sess'
           r == sess[s]
           q == Worked(r)
<1>1. /\ Belong(c, k, hand, an, sess) /\ now \in Nat
      /\ hand \in [Handler -> HandRecord] /\ sess \in [Sess -> SessRecord]
  BY Belongs
<1>2. Holds(c, k, sess, hand, an, now, v)
  BY DEF HoldsNow
<1>3. /\ r.st = "live" /\ r.input # <<>> /\ UNCHANGED <<hand, ans, cl, now, verdict>>
      /\ tab2 = [sess EXCEPT ![s] = q]
  BY DEF Engine, envVars, historyVars
<1>4. tab2[s] = q /\ \A x \in Sess : x # s => tab2[x] = sess[x]
  BY <1>1, <1>3
<1>5. HoldsNow(c)' <=> Holds(c, k, tab2, hand, an, now, v)
  BY <1>3 DEF HoldsNow
<1>6. r \in SessRecord
  BY <1>1
<1> HIDE DEF k, an, v, tab2, q
<1>7. CASE s # k.state
  <2>1. \A x \in Sess : /\ sess[x].owner = c /\ (sess[x].st = "gone" \/ Fresh(sess[x], now))
                        /\ x = k.state \/ Untouched(sess[x])
                        => tab2[x] = sess[x]
    BY <1>3, <1>4, <1>7 DEF Untouched
  <2>2. Holds(c, k, tab2, hand, an, now, v)
    BY <1>1, <1>2, <2>1, BystanderKept
  <2> QED
    BY <1>5, <2>2
<1>8. CASE s = k.state /\ k.pc \in {"await", "rejected"}
  <2>1. Going(c, k, sess, hand, an, now, v)
    BY <1>2, <1>8 DEF Holds
  <2>2. s # None
    BY Constants
  <2>3. Coherent(c, k, sess, hand, an, now, v) /\ InTurn(c, k, sess, hand, an, now, v)
    BY <1>3, <1>8, <2>1, <2>2 DEF Going, InIdentity, InNak, IsOver, Untouched
  <2>4. Streams(r)
    BY <1>8, <2>3 DEF InTurn, Waits, Ready, Replied, Served, Streams
  <2>5. Goes(q, r)
    BY <1>6, <2>4, WorkedGoes DEF q
  <2>6. /\ q.st = r.st /\ q.lastReq = r.lastReq /\ q.lastResp = r.lastResp /\ q.lastUsed = r.lastUsed
        /\ q.phase = r.phase /\ q.buf = r.buf /\ q.inner = r.inner
        /\ Pipe(q) /\ Queue(q) /\ Popped(q) = Popped(r) /\ Taken(q) = Taken(r)
    BY <2>5 DEF Goes, Steady, Alike, Streams
  <2> HIDE DEF r
  <2>7. /\ Waits(k, r, v) => Waits(k, q, v)
        /\ Ready(k, r) => Ready(k, q)
        /\ Replied(k, r, v) => Replied(k, q, v)
        /\ Fresh(r, now) => Fresh(q, now)
    BY <2>6 DEF Waits, Ready, Replied, Served, Fresh
  <2>8. InTurn(c, k, tab2, hand, an, now, v)
    <3>1. sess[k.state] = r /\ tab2[k.state] = q
      BY <1>4, <1>8 DEF r
    <3> QED
      BY <2>3, <2>6, <2>7, <3>1 DEF InTurn
  <2>9. Attended(c, k, tab2, hand, now)
    <3>1. sess[s] = r
      BY DEF r
    <3>2. \A x \in Sess : tab2[x].st = sess[x].st /\ tab2[x].lastUsed = sess[x].lastUsed
      BY <1>4, <2>6, <3>1
    <3>3. k.cur.state = k.state /\ Attended(c, k, sess, hand, now)
      BY <2>3 DEF Coherent
    <3> QED
      BY <1>1, <1>8, <3>2, <3>3 DEF Attended, Belong
  <2>10. Coherent(c, k, tab2, hand, an, now, v)
    BY <2>3, <2>9 DEF Coherent
  <2>11. Going(c, k, tab2, hand, an, now, v)
    BY <2>8, <2>10 DEF Going
  <2> QED
    BY <1>5, <1>8, <2>11 DEF Holds
<1>9. CASE s = k.state /\ k.pc \notin {"await", "rejected"}
  BY <1>2, <1>5, <1>9, Constants DEF Holds, Unborn
<1> QED
  BY <1>7, <1>8, <1>9

-----------------------------------------------------------------------------
(* The supplicant, its access point and the network.                       *)

\* Somebody else's step.
LEMMA NotItsOwn ==
    ASSUME NEW c \in Client, HoldsNow(c), UNCHANGED <<sess, hand, now>>,
           cl'[c] = cl[c], ans'[c] = ans[c], verdict'[c] = verdict[c]
    PROVE  HoldsNow(c)'
BY DEF HoldsNow

LEMMA StartHolds ==
    ASSUME Fit, NEW c \in Client, HoldsNow(c), NEW d \in Client, Start(d)
    PROVE  HoldsNow(c)'
<1> DEFINE p == [state |-> None, id |-> 0, type |-> "identity", body |-> Empty, wants |-> cl[d].wants]
           upd == [cl[d] EXCEPT !.pc = "await"]
           k2 == [upd EXCEPT !.cur = p]
<1>1. /\ UNCHANGED <<sess, hand, now, ans, verdict>> /\ cl[d].pc = "idle"
      /\ cl' = [cl EXCEPT ![d] = k2]
  BY DEF Start, Put, serverVars
<1>2. cl \in [Client -> ClientRecord] /\ cl[d] \in ClientRecord
  BY DEF Fit, ClientsFit
<1>3. CASE d # c
  BY <1>1, <1>2, <1>3, NotItsOwn
<1>4. CASE d = c
  <2> DEFINE k == cl[c]
             an == ans[c]
             v == verdict[c]
  <2>1. Unborn(c, k, hand, an, v)
    BY <1>1, <1>4 DEF HoldsNow, Holds
  <2>2. p.state = None /\ p.type = "identity" /\ p.wants = k.wants
    BY <1>4
  <2> HIDE DEF p
  <2>3. /\ k2.pc = "await" /\ k2.cur = p /\ k2.state = k.state /\ k2.lastId = k.lastId
        /\ k2.got = k.got /\ k2.sent = k.sent /\ k2.rest = k.rest /\ k2.wants = k.wants
    BY <1>2, <1>4 DEF ClientRecord
  <2>4. cl'[c] = k2
    BY <1>1, <1>2, <1>4
  <2> HIDE DEF k, an, v, k2
  <2>5. To(k2.cur, an) = {} /\ Authing(c, hand) = {} /\ Len(an) = 0
    BY <2>1 DEF Unborn, To, Authing
  <2>6. InIdentity(c, k2, sess, hand, an, now, v)
    BY <2>1, <2>2, <2>3, <2>5 DEF Unborn, InIdentity
  <2>7. Coherent(c, k2, sess, hand, an, now, v)
    BY <2>1, <2>2, <2>3, <2>5 DEF Unborn, Coherent, Attended
  <2>8. Holds(c, k2, sess, hand, an, now, v)
    BY <2>3, <2>6, <2>7 DEF Going, Holds
  <2> QED
    BY <1>1, <2>4, <2>8 DEF HoldsNow, an, v
<1> QED
  BY <1>3, <1>4

\* An answer that is gone, or was not for the packet outstanding, is not
\* missed.
LEMMA TailKept ==
    ASSUME NEW c, NEW k, NEW tab, NEW hd, NEW an \in Seq(Reply), an # <<>>, NEW t, NEW v,
           Going(c, k, tab, hd, an, t, v),
           Head(an).code = "challenge" \/ Head(an).to # k.cur \/ v \in {"no", "full"}
    PROVE  Going(c, k, tab, hd, Tail(an), t, v)
<1> DEFINE a2 == Tail(an)
           p == k.cur
<1>1. /\ Len(an) \in Nat /\ Len(a2) \in Nat /\ Len(an) = Len(a2) + 1 /\ an[1] = Head(an)
      /\ \A i \in 1..Len(a2) : a2[i] = an[i + 1] /\ i + 1 \in 1..Len(an)
  BY HeadTailProperties, LenProperties, EmptySeq
<1>2. \A i \in 2..Len(an) : i - 1 \in 1..Len(a2) /\ a2[i - 1] = an[i]
  BY <1>1
<1> HIDE DEF a2
<1>3. \A i \in To(p, a2) : i \in 1..Len(a2) /\ a2[i].to = p /\ a2[i] = an[i + 1] /\ i + 1 \in To(p, an)
  BY <1>1 DEF To
<1>4. \A j \in To(p, an) : j = 1 \/ (j - 1 \in To(p, a2) /\ a2[j - 1] = an[j] /\ j \in 2..Len(an))
  BY <1>1, <1>2 DEF To
<1>5. \A j \in To(p, an) : an[j].code = "accept" => j # 1 \/ v \in {"no", "full"}
  BY <1>1 DEF To
<1>6. Coherent(c, k, tab, hd, a2, t, v)
  <2>1. Coherent(c, k, tab, hd, an, t, v)
    BY DEF Going
  <2>2. ASSUME NEW i \in 1..Len(a2), NEW j \in 1..Len(a2), i < j, a2[i].to = p
        PROVE  a2[j].to = p
    <3>1. i + 1 \in 1..Len(an) /\ j + 1 \in 1..Len(an) /\ i + 1 < j + 1
      BY <1>1, <2>2
    <3> QED
      BY <1>1, <2>1, <2>2, <3>1 DEF Coherent
  <2> QED
    BY <2>1, <2>2 DEF Coherent
<1>7. InIdentity(c, k, tab, hd, an, t, v) => InIdentity(c, k, tab, hd, a2, t, v)
  BY <1>3 DEF InIdentity
<1>8. InNak(c, k, tab, hd, an, t, v) => InNak(c, k, tab, hd, a2, t, v)
  BY <1>3 DEF InNak
<1>9. InTurn(c, k, tab, hd, an, t, v) => InTurn(c, k, tab, hd, a2, t, v)
  <2>1. To(p, an) = {} => To(p, a2) = {}
    BY <1>3
  <2> QED
    BY <1>3, <2>1 DEF InTurn
<1>10. IsOver(c, k, tab, hd, an, t, v) => IsOver(c, k, tab, hd, a2, t, v)
  <2> SUFFICES ASSUME IsOver(c, k, tab, hd, an, t, v) PROVE IsOver(c, k, tab, hd, a2, t, v)
    OBVIOUS
  <2>1. Refusals(a2, p, v)
    <3> SUFFICES ASSUME NEW i \in To(p, a2), a2[i].code = "reject", v \notin {"no", "full"}
                 PROVE  \E j \in To(p, a2) : j < i /\ a2[j].code = "accept"
      BY DEF Refusals
    <3>1. PICK j \in To(p, an) : j < i + 1 /\ an[j].code = "accept"
      BY <1>3 DEF IsOver, Refusals
    <3>2. j \in 2..Len(an) /\ j - 1 \in To(p, a2) /\ a2[j - 1] = an[j]
      BY <1>4, <1>5, <3>1
    <3>3. j - 1 < i
      <4>1. i \in 1..Len(a2)
        BY <1>3
      <4>2. i \in Nat
        BY <1>1, <4>1
      <4>3. j \in Nat
        BY <1>1, <3>2
      <4> QED
        BY <3>1, <4>2, <4>3
    <3> QED
      BY <3>1, <3>2, <3>3
  <2>2. v \notin {"no", "full"} => \E i \in To(p, a2) : a2[i].code = "accept"
    BY <1>4, <1>5 DEF IsOver
  <2> QED
    BY <1>3, <2>1, <2>2 DEF IsOver
<1> QED
  BY <1>6, <1>7, <1>8, <1>9, <1>10 DEF Going, a2

LEMMA LoseAnswerHolds ==
    ASSUME Fit, NEW c \in Client, HoldsNow(c), NEW d \in Client, LoseAnswer(d), c \notin disturbed'
    PROVE  HoldsNow(c)'
<1>1. /\ UNCHANGED <<sess, hand, now, cl, verdict>> /\ ans[d] # <<>>
      /\ ans' = [ans EXCEPT ![d] = Tail(@)]
      /\ Head(ans[d]).code # "challenge" => d \in disturbed'
  BY DEF LoseAnswer, serverVars
<1>2. ans \in [Client -> Seq(Reply)]
  BY DEF Fit, AnswersFit
<1>3. CASE d # c
  BY <1>1, <1>2, <1>3, NotItsOwn
<1>4. CASE d = c
  <2> DEFINE k == cl[c]
             an == ans[c]
             v == verdict[c]
  <2>1. ans'[c] = Tail(an) /\ an \in Seq(Reply) /\ an # <<>> /\ Head(an).code = "challenge"
    BY <1>1, <1>2, <1>4
  <2>2. Holds(c, k, sess, hand, an, now, v)
    BY DEF HoldsNow
  <2>3. HoldsNow(c)' <=> Holds(c, k, sess, hand, ans'[c], now, v)
    BY <1>1 DEF HoldsNow
  <2> HIDE DEF k, an, v
  <2>4. Going(c, k, sess, hand, an, now, v) => Going(c, k, sess, hand, Tail(an), now, v)
    BY <2>1, TailKept
  <2>5. k.pc # "idle"
    BY <2>1, <2>2 DEF Holds, Unborn
  <2>6. Holds(c, k, sess, hand, Tail(an), now, v)
    BY <2>2, <2>4, <2>5 DEF Holds
  <2> QED
    BY <2>1, <2>3, <2>6
<1> QED
  BY <1>3, <1>4

\* Time passes: a session that no handler waits with idles, and its
\* supplicant hastens; the others are waited for less long than a session may
\* idle.
LEMMA TickHolds ==
    ASSUME Patient, Fit, NEW c \in Client, HoldsNow(c), Tick, c \notin disturbed'
    PROVE  HoldsNow(c)'
<1> DEFINE k == cl[c]
           an == ans[c]
           v == verdict[c]
           t2 == now'
<1>1. /\ UNCHANGED <<sess, hand, cl, ans, verdict>> /\ t2 = now + 1
      /\ \A h \in Handler : hand[h].pc # "step" /\ (hand[h].pc = "auth" => now < hand[h].deadline)
      /\ \/ \A x \in Offered(c) : ~(sess[x].lastUsed + EvictIdle <= t2)
         \/ \E h \in Handler : hand[h].c = c /\ hand[h].pc = "auth"
  BY DEF Tick
<1>2. /\ Belong(c, k, hand, an, sess) /\ now \in Nat
      /\ hand \in [Handler -> HandRecord] /\ sess \in [Sess -> SessRecord]
  BY Belongs
<1>3. Holds(c, k, sess, hand, an, now, v)
  BY DEF HoldsNow
<1>4. HoldsNow(c)' <=> Holds(c, k, sess, hand, an, t2, v)
  BY <1>1 DEF HoldsNow
<1>5. /\ k.state # None => k.state \in Offered(c)
      /\ \A i \in 1..Len(an) : an[i].state # None => an[i].state \in Offered(c)
  BY DEF Offered
<1>6. \A x \in Sess : sess[x].lastUsed \in Nat
  BY <1>2, SessionParts
<1>7. EvictIdle \in Nat /\ PushWait \in Nat /\ t2 \in Nat /\ None \notin Sess
  BY <1>1, <1>2, EapAssumption
<1>8. Authing(c, hand) = {} => \A x \in Offered(c) : ~(sess[x].lastUsed + EvictIdle <= t2)
  BY <1>1 DEF Authing
<1> HIDE DEF k, an, v, t2
<1>9. ASSUME NEW x \in Sess, Fresh(sess[x], now), x \in Offered(c), Authing(c, hand) = {}
      PROVE  Fresh(sess[x], t2)
  BY <1>1, <1>2, <1>6, <1>7, <1>8, <1>9 DEF Fresh
<1>10. ASSUME NEW x \in Sess, Fresh(sess[x], now), NEW h \in Handler, Authing(c, hand) = {h},
              hand[h].deadline <= sess[x].lastUsed + PushWait
       PROVE  Fresh(sess[x], t2)
  <2>1. hand[h].pc = "auth" /\ hand[h].deadline \in Nat
    BY <1>2, <1>10 DEF Authing, HandRecord
  <2>2. now < hand[h].deadline
    BY <1>1, <2>1
  <2> QED
    BY <1>1, <1>2, <1>6, <1>7, <1>10, <2>1, <2>2 DEF Fresh, Patient
<1>11. Unborn(c, k, hand, an, v) \/ k.pc # "idle"
  BY <1>3 DEF Holds
<1>12. ASSUME Going(c, k, sess, hand, an, now, v)
       PROVE  Going(c, k, sess, hand, an, t2, v)
  <2>1. Coherent(c, k, sess, hand, an, t2, v)
    <3>1. Attended(c, k, sess, hand, t2)
      BY <1>1, <1>12 DEF Going, Coherent, Attended
    <3> QED
      BY <1>12, <3>1 DEF Going, Coherent
  <2>2. InIdentity(c, k, sess, hand, an, now, v) => InIdentity(c, k, sess, hand, an, t2, v)
    BY <1>5, <1>7, <1>9 DEF InIdentity, To
  <2>3. InNak(c, k, sess, hand, an, now, v) => InNak(c, k, sess, hand, an, t2, v)
    BY <1>2, <1>5, <1>9 DEF InNak, Belong
  <2>4. ASSUME InTurn(c, k, sess, hand, an, now, v)
        PROVE  InTurn(c, k, sess, hand, an, t2, v)
    <3>1. k.state # None /\ k.state \in Sess /\ k.state \in Offered(c) /\ Fresh(sess[k.state], now)
      BY <1>2, <1>5, <2>4 DEF InTurn, Speaks, Belong
    <3>2. Fresh(sess[k.state], t2)
      <4>1. \/ Authing(c, hand) = {}
            \/ \E h \in Handler : /\ Authing(c, hand) = {h}
                                  /\ hand[h].deadline <= sess[k.state].lastUsed + PushWait
        BY <2>4 DEF InTurn
      <4> QED
        BY <1>9, <1>10, <3>1, <4>1
    <3> QED
      BY <2>4, <3>2 DEF InTurn
  <2>5. IsOver(c, k, sess, hand, an, now, v) => IsOver(c, k, sess, hand, an, t2, v)
    BY DEF IsOver
  <2> QED
    BY <1>12, <2>1, <2>2, <2>3, <2>4, <2>5 DEF Going
<1> QED
  BY <1>3, <1>4, <1>11, <1>12 DEF Holds

-----------------------------------------------------------------------------
(* What a supplicant says next is what its session waits for.              *)

\* The supplicant k has turned to a new packet with the words w.
Turned(k, k2, data, w) ==
    /\ k2.cur.body = IF w = <<>> THEN Empty ELSE Head(w)
    /\ k2.got = IF data THEN k.got + 1 ELSE k.got
    /\ k2.sent = IF w # <<>> /\ Head(w).part # "first" THEN Head(w).n ELSE k.sent
    /\ k2.rest = IF w = <<>> THEN <<>> ELSE Tail(w)

Meets(k, r) ==
    /\ Carries(k)
    /\ k.got < Pieces => k.sent = 1
    /\ Popped(r) = k.got
    /\ Taken(r) = IF Adds(k) THEN k.sent - 1 ELSE k.sent
    /\ r.buf = IF k.cur.body.part = "last" THEN <<[k.cur.body EXCEPT !.part = "first"]>> ELSE <<>>

LEMMA MeetsNothing ==
    ASSUME NEW k, NEW r, k.cur.body = Empty, k.rest = <<>>, k.got < Pieces => k.sent = 1,
           Popped(r) = k.got, Taken(r) = k.sent, r.buf = <<>>
    PROVE  Meets(k, r)
BY DEF Meets, Carries, Adds, Empty

LEMMA MeetsWhole ==
    ASSUME NEW k, NEW r, NEW m \in Message, k.cur.body = m, m.part = "whole", m.n = k.sent,
           k.sent >= 1, Placed(m),
           k.rest # <<>> => /\ Len(k.rest) = 1 /\ k.sent >= 3 /\ k.rest[1].part = "whole"
                            /\ k.rest[1].n = k.sent + 1 /\ Placed(k.rest[1]),
           k.got < Pieces => k.sent = 1,
           Popped(r) = k.got, Taken(r) = k.sent - 1, r.buf = <<>>
    PROVE  Meets(k, r)
<1>1. m.n \in Nat
  BY DEF Message
<1>2. m # Empty
  BY <1>1 DEF Empty
<1> QED
  BY <1>2 DEF Meets, Carries, Adds

\* The words of a list of one or two.
LEMMA HeadTail ==
    ASSUME NEW a, NEW b
    PROVE  /\ <<a>> # <<>> /\ Head(<<a>>) = a /\ Tail(<<a>>) = <<>>
           /\ <<a, b>> # <<>> /\ Head(<<a, b>>) = a /\ Tail(<<a, b>>) = <<b>>
           /\ Len(<<b>>) = 1 /\ <<b>>[1] = b
OBVIOUS

LEMMA StartMeets ==
    ASSUME Fit, NEW c \in Client, cl[c].got = 0, cl[c].sent = 0, NEW k2, NEW r, Untouched(r),
           Turned(cl[c], k2, FALSE, <<Whole(c, "hello")>>)
    PROVE  Meets(k2, r)
<1> DEFINE m == Whole(c, "hello")
<1>1. m \in Message
  BY WholeFits DEF Word
<1>2. m.n = 1 /\ m.part = "whole" /\ m.word = "hello"
  BY DEF Whole
<1> HIDE DEF m
<1>3. <<m>> # <<>> /\ Head(<<m>>) = m /\ Tail(<<m>>) = <<>>
  BY HeadTail
<1>4. Turned(cl[c], k2, FALSE, <<m>>)
  BY DEF m
<1>5. k2.cur.body = m /\ k2.got = 0 /\ k2.sent = 1 /\ k2.rest = <<>>
  BY <1>2, <1>3, <1>4 DEF Turned
<1>6. Popped(r) = 0 /\ Taken(r) = 0 /\ r.buf = <<>>
  <2>1. r.made = 0 /\ r.read = 0 /\ r.buf = <<>> /\ Len(r.out) = 0 /\ Len(r.input) = 0
    BY DEF Untouched
  <2> QED
    BY <2>1 DEF Popped, Taken
<1>7. Placed(m)
  BY <1>2 DEF Placed
<1> QED
  BY <1>1, <1>2, <1>5, <1>6, <1>7, MeetsWhole

\* It goes on with what it has left to say.
LEMMA AckMeets ==
    ASSUME NEW k \in ClientRecord, k.cur \in Packet, Speaks(k), NEW r, NEW v, Replied(k, r, v),
           Popped(r) = k.got, NEW k2, Turned(k, k2, FALSE, k.rest)
    PROVE  Meets(k2, r)
<1> DEFINE b == k.cur.body
           m == Head(k.rest)
<1>1. /\ k.rest \in Seq(Message) /\ k.got \in Nat /\ k.sent \in Nat /\ b \in Message
  BY DEF ClientRecord, Packet
<1>2. /\ Taken(r) = k.sent /\ r.buf = IF b.part = "first" THEN <<b>> ELSE <<>>
      /\ k.got < Pieces => k.sent = 1
  BY DEF Replied, Served, Speaks
<1>3. k2.got = k.got
  BY DEF Turned
<1>4. Pieces \in Nat
  BY EapAssumption
<1> HIDE DEF b
<1>5. CASE k.rest = <<>>
  <2>1. k2.cur.body = Empty /\ k2.sent = k.sent /\ k2.rest = <<>>
    BY <1>5 DEF Turned
  <2>2. b.part # "first"
    BY <1>5 DEF Speaks, Carries, b, Empty
  <2> QED
    BY <1>2, <1>3, <2>1, <2>2, MeetsNothing
<1>6. CASE k.rest # <<>>
  <2>1. m \in Message /\ Tail(k.rest) \in Seq(Message) /\ Len(k.rest) \in Nat /\ m = k.rest[1]
    BY <1>1, <1>6, HeadTailProperties, LenProperties
  <2>2. k2.cur.body = m /\ k2.rest = Tail(k.rest) /\ k2.sent = IF m.part # "first" THEN m.n ELSE k.sent
    BY <1>6 DEF Turned
  <2>3. \/ /\ b.part = "whole" /\ Len(k.rest) = 1 /\ k.sent >= 3
           /\ m.part = "whole" /\ m.n = k.sent + 1 /\ Placed(m)
        \/ /\ b.part = "first" /\ b.n = 2 /\ b.word = "finish" /\ k.sent = 1 /\ k.got = Pieces
           /\ k.rest = <<[b EXCEPT !.part = "last"]>>
    BY <1>6, <2>1 DEF Speaks, Carries, b
  <2> HIDE DEF m
  <2>4. CASE /\ b.part = "whole" /\ Len(k.rest) = 1 /\ k.sent >= 3
             /\ m.part = "whole" /\ m.n = k.sent + 1 /\ Placed(m)
    <3>1. Tail(k.rest) = <<>>
      <4>1. Len(Tail(k.rest)) = 0
        BY <1>1, <1>6, <2>4, HeadTailProperties
      <4> QED
        BY <2>1, <4>1, EmptySeq
    <3>2. k2.sent = k.sent + 1 /\ k2.rest = <<>> /\ r.buf = <<>>
      BY <1>2, <2>2, <2>4, <3>1
    <3>3. ~(k2.got < Pieces) /\ k2.sent >= 1 /\ Taken(r) = k2.sent - 1 /\ m.n = k2.sent
      BY <1>1, <1>2, <1>3, <1>4, <2>4, <3>2
    <3> QED
      BY <1>3, <2>1, <2>2, <2>4, <3>2, <3>3, MeetsWhole
  <2>5. CASE /\ b.part = "first" /\ b.n = 2 /\ b.word = "finish" /\ k.sent = 1 /\ k.got = Pieces
             /\ k.rest = <<[b EXCEPT !.part = "last"]>>
    <3> DEFINE l == [b EXCEPT !.part = "last"]
    <3>1. m = l /\ Tail(k.rest) = <<>>
      <4> HIDE DEF l
      <4>1. k.rest = <<l>>
        BY <2>5 DEF l
      <4> QED
        BY <4>1, HeadTail DEF m
    <3>2. l.part = "last" /\ l.n = 2 /\ l.word = "finish" /\ [l EXCEPT !.part = "first"] = b
      BY <1>1, <2>5 DEF Message
    <3> HIDE DEF l
    <3>3. k2.cur.body = l /\ k2.sent = 2 /\ k2.rest = <<>> /\ l # Empty
      BY <2>2, <3>1, <3>2 DEF Empty
    <3>4. Carries(k2)
      BY <3>2, <3>3 DEF Carries
    <3>5. Adds(k2)
      BY <3>2, <3>3 DEF Adds
    <3>6. ~(k2.got < Pieces)
      BY <1>3, <1>4, <2>5
    <3>7. Taken(r) = k2.sent - 1 /\ r.buf = <<b>>
      BY <1>2, <2>5, <3>3
    <3> QED
      BY <1>2, <1>3, <2>5, <3>2, <3>3, <3>4, <3>5, <3>6, <3>7 DEF Meets
  <2> QED
    BY <2>3, <2>4, <2>5
<1> QED
  BY <1>5, <1>6

\* After the server's Finished the messages are whole, and neither of the
\* first two.
LEMMA LaterWords ==
    ASSUME NEW c, NEW said \in Said \ {"more", "flight"}, NEW w \in Replies(c, said)
    PROVE  \/ w = <<>>
           \/ \E word \in Word \ {"hello", "finish"} : w = <<Whole(c, word)>>
           \/ w = <<Whole(c, "half"), [Whole(c, "pap") EXCEPT !.n = @ + 1]>>
<1>1. /\ "half" \in Word /\ "pap" \in Word /\ "resp" \in Word
      /\ "identity" \in Word /\ "ok" \in Word /\ "tlv" \in Word /\ "failack" \in Word
  BY DEF Word
<1>2. CASE said = "finish"
  BY <1>1, <1>2 DEF Replies, Next2
<1>3. CASE said = "chal"
  BY <1>1, <1>3 DEF Replies
<1>4. CASE said = "success"
  BY <1>1, <1>4 DEF Replies
<1>5. CASE said = "tlv"
  BY <1>1, <1>5 DEF Replies
<1>6. CASE said = "fail"
  BY <1>1, <1>6 DEF Replies
<1> QED
  BY <1>2, <1>3, <1>4, <1>5, <1>6 DEF Said

\* How far the streams of the session are.
LEMMA HowFar ==
    ASSUME NEW r \in SessRecord, Pipe(r)
    PROVE  /\ Popped(r) > Pieces => Taken(r) >= 2
           /\ Taken(r) \in Nat /\ Popped(r) \in Int
<1>1. /\ r.read \in Nat /\ r.made \in Nat /\ Len(r.out) \in Nat /\ Len(r.input) \in Nat /\ Pieces \in Nat
  BY SessionParts, LenProperties, EapAssumption
<1>2. (r.read = 0 => r.made = 0) /\ (r.read = 1 => r.made = Pieces)
  BY DEF Pipe
<1> DEFINE o == Len(r.out)
           i == Len(r.input)
<1>3. o \in Nat /\ i \in Nat
  BY <1>1
<1>4. Popped(r) = r.made - o /\ Taken(r) = r.read + i
  BY DEF Popped, Taken
<1> HIDE DEF o, i
<1> QED
  BY <1>1, <1>2, <1>3, <1>4

LEMMA DataMeets ==
    ASSUME Fit, NEW c \in Client, cl[c].cur \in Packet, Speaks(cl[c]), NEW r \in SessRecord, NEW v,
           Replied(cl[c], r, v), NEW said \in Said, Popped(r) = cl[c].got + 1,
           Numbered(cl[c].got + 1, said), NEW w \in Replies(c, said),
           NEW k2, Turned(cl[c], k2, TRUE, w)
    PROVE  Meets(k2, r)
<1> DEFINE k == cl[c]
           b == k.cur.body
           g == k.got + 1
<1>1. k \in ClientRecord /\ k.got \in Nat /\ k.sent \in Nat /\ g \in Nat /\ Pieces \in Nat
  BY EapAssumption DEF Fit, ClientsFit, ClientRecord
<1>2. /\ Taken(r) = k.sent
      /\ r.buf = IF b.part = "first" THEN <<b>> ELSE <<>>
      /\ Pipe(r)
      /\ k.got < Pieces => k.sent = 1
      /\ Popped(r) = g
  BY DEF Replied, Served, Speaks
<1>3. Popped(r) > Pieces => Taken(r) >= 2
  BY <1>2, HowFar
<1>4. b.part # "first"
  <2>1. b.part = "first" => k.sent = 1 /\ k.got = Pieces
    BY DEF Speaks, Carries, Empty
  <2> QED
    BY <1>1, <1>2, <1>3, <2>1
<1>5. r.buf = <<>> /\ k2.got = g /\ Popped(r) = k2.got /\ Numbered(g, said)
  BY <1>2, <1>4 DEF Turned
<1>6. \A word \in Word : Whole(c, word) \in Message /\ Whole(c, word).n = k.sent + 1
                         /\ Whole(c, word).word = word /\ Whole(c, word).part = "whole"
  BY WholeFits DEF Whole
<1>7. g < Pieces => k.sent = 1
  BY <1>1, <1>2
<1>8. CASE w = <<>>
  <2>1. k2.cur.body = Empty /\ k2.rest = <<>> /\ k2.sent = k.sent
    BY <1>8 DEF Turned
  <2> QED
    BY <1>2, <1>5, <1>7, <2>1, MeetsNothing
<1>9. ASSUME NEW word \in Word, w = <<Whole(c, word)>>,
             ~(g < Pieces), word # "hello", word = "finish" <=> k.sent = 1, k.sent >= 1
      PROVE  Meets(k2, r)
  <2> DEFINE m == Whole(c, word)
  <2>1. m \in Message /\ m.n = k.sent + 1 /\ m.word = word /\ m.part = "whole"
    BY <1>6
  <2> HIDE DEF m
  <2>2. w = <<m>>
    BY <1>9 DEF m
  <2>3. k2.cur.body = m /\ k2.rest = <<>> /\ k2.sent = k.sent + 1
    BY <2>1, <2>2, HeadTail DEF Turned
  <2>4. Placed(m)
    BY <1>1, <1>9, <2>1 DEF Placed
  <2>5. k2.sent >= 1 /\ m.n = k2.sent /\ Taken(r) = k2.sent - 1
    BY <1>1, <1>2, <2>1, <2>3
  <2> QED
    BY <1>5, <1>9, <2>1, <2>3, <2>4, <2>5, MeetsWhole
<1>10. CASE g = Pieces
  <2>1. said = "flight" /\ k.sent = 1
    BY <1>1, <1>2, <1>5, <1>10 DEF Numbered
  <2> DEFINE m == Whole(c, "finish")
             f == [m EXCEPT !.part = "first"]
             l == [m EXCEPT !.part = "last"]
  <2>2. w = <<m>> \/ w = <<f, l>>
    BY <2>1 DEF Replies
  <2>3. m \in Message /\ m.n = 2 /\ m.word = "finish"
    BY <1>6, <2>1 DEF Word
  <2>4. CASE w = <<m>>
    BY <1>1, <1>9, <1>10, <2>1, <2>4 DEF Word
  <2>5. CASE w = <<f, l>>
    <3> HIDE DEF m
    <3>1. f.part = "first" /\ f.n = 2 /\ f.word = "finish" /\ l = [f EXCEPT !.part = "last"]
      BY <2>3 DEF Message
    <3> HIDE DEF f, l
    <3>2. k2.cur.body = f /\ k2.rest = <<l>> /\ k2.sent = 1
      BY <2>1, <2>5, <3>1, HeadTail DEF Turned
    <3>3. Carries(k2)
      BY <1>5, <1>10, <3>1, <3>2 DEF Carries
    <3>4. ~Adds(k2)
      BY <3>1, <3>2 DEF Adds
    <3> QED
      BY <1>2, <1>5, <2>1, <3>1, <3>2, <3>3, <3>4 DEF Meets
  <2> QED
    BY <2>2, <2>4, <2>5
<1>11. CASE g < Pieces
  <2>1. said = "more"
    BY <1>5, <1>11 DEF Numbered
  <2> QED
    BY <1>8, <2>1 DEF Replies
<1>12. CASE g > Pieces
  <2>1. said \in Said \ {"more", "flight"}
    BY <1>5, <1>12 DEF Numbered
  <2>2. k.sent >= 2
    BY <1>2, <1>3, <1>5, <1>12
  <2>3. CASE \E word \in Word \ {"hello", "finish"} : w = <<Whole(c, word)>>
    <3>1. ~(g < Pieces) /\ k.sent >= 1 /\ k.sent # 1
      BY <1>1, <1>12, <2>2
    <3> QED
      BY <1>9, <2>3, <3>1
  <2>4. CASE w = <<Whole(c, "half"), [Whole(c, "pap") EXCEPT !.n = @ + 1]>>
    <3> DEFINE m == Whole(c, "half")
               p == Whole(c, "pap")
               l == [p EXCEPT !.n = @ + 1]
    <3>1. /\ m \in Message /\ m.n = k.sent + 1 /\ m.word = "half" /\ m.part = "whole"
          /\ p \in Message /\ p.n = k.sent + 1 /\ p.word = "pap" /\ p.part = "whole"
      BY <1>6 DEF Word
    <3>2. w = <<m, l>>
      BY <2>4
    <3> HIDE DEF m, p
    <3>3. l.n = k.sent + 1 + 1 /\ l.word = "pap" /\ l.part = "whole"
      BY <3>1 DEF Message
    <3> HIDE DEF l
    <3>4. k2.cur.body = m /\ k2.rest = <<l>> /\ k2.sent = k.sent + 1
      BY <3>1, <3>2, HeadTail DEF Turned
    <3>5. Len(k2.rest) = 1 /\ k2.rest[1] = l
      BY <3>4, HeadTail
    <3>6. Placed(m) /\ Placed(l)
      BY <1>1, <2>2, <3>1, <3>3 DEF Placed
    <3>7. /\ k2.sent >= 1 /\ k2.sent >= 3 /\ m.n = k2.sent /\ l.n = k2.sent + 1
          /\ Taken(r) = k2.sent - 1 /\ ~(k2.got < Pieces)
      BY <1>1, <1>2, <1>5, <1>12, <2>2, <3>1, <3>3, <3>4
    <3> QED
      BY <1>5, <3>1, <3>3, <3>4, <3>5, <3>6, <3>7, MeetsWhole
  <2> QED
    BY <1>8, <2>1, <2>3, <2>4, LaterWords
<1> QED
  BY <1>1, <1>10, <1>11, <1>12

-----------------------------------------------------------------------------
(* The supplicant hears an answer.                                         *)

\* The request r.lastResp that a supplicant turns to.
Turns(k, r, a, v) ==
    \/ /\ k.cur.type = "identity" /\ a.req.kind = "start" /\ a.req.proto = "peap"
       /\ Untouched(r) /\ r.proto = "peap" /\ k.got = 0 /\ k.sent = 0 /\ k.rest = <<>>
       /\ v \in {"none", "full"}
    \/ /\ k.cur.id = k.lastId /\ a.req.kind = "start" /\ a.req.proto = k.wants
       /\ Untouched(r) /\ k.got = 0 /\ k.sent = 0 /\ k.rest = <<>>
    \/ k.cur.id = k.lastId /\ Speaks(k) /\ Replied(k, r, v)

LEMMA Challenged ==
    ASSUME NEW c \in Client, NEW k, NEW tab \in [Sess -> SessRecord], NEW hd, NEW an \in Seq(Reply),
           an # <<>>, NEW t, NEW v, Belong(c, k, hd, an, tab), Going(c, k, tab, hd, an, t, v),
           NEW a, a = Head(an), NEW r, r = tab[a.state],
           a.to = k.cur, a.code = "challenge", a.req.id # k.lastId
    PROVE  /\ a.state \in Sess /\ r \in SessRecord /\ r.st = "live" /\ Fresh(r, t)
           /\ r.lastReq = k.cur /\ r.lastResp = a.req /\ Authing(c, hd) = {}
           /\ Turns(k, r, a, v)
<1>1. Len(an) \in Nat /\ Len(an) # 0 /\ a = an[1]
  BY LenProperties, EmptySeq
<1>2. 1 \in To(k.cur, an)
  BY <1>1 DEF To
<1>3. k.state # None => k.state \in Sess
  BY DEF Belong
<1>4. CASE InIdentity(c, k, tab, hd, an, t, v)
  BY <1>1, <1>2, <1>4 DEF InIdentity, Turns, Untouched
<1>5. CASE InNak(c, k, tab, hd, an, t, v)
  <2>1. tab[k.state].lastReq = k.cur /\ tab[k.state].lastResp = a.req /\ a.state = k.state
    BY <1>1, <1>2, <1>5 DEF InNak
  <2> QED
    BY <1>3, <1>5, <2>1 DEF InNak, Turns, Untouched
<1>6. CASE InTurn(c, k, tab, hd, an, t, v)
  <2>1. a.state = k.state /\ Replied(k, r, v) /\ a.req = r.lastResp /\ Authing(c, hd) = {}
    BY <1>1, <1>2, <1>6 DEF InTurn
  <2> QED
    BY <1>3, <1>6, <2>1 DEF InTurn, Turns, Speaks, Replied, Served
<1>7. ~IsOver(c, k, tab, hd, an, t, v)
  BY <1>1, <1>2 DEF IsOver
<1> QED
  BY <1>4, <1>5, <1>6, <1>7 DEF Going

\* No handler is at work for the supplicant.
Unattended(c, hd) == \A h \in Handler : hd[h].pc # "idle" => hd[h].c # c

LEMMA NobodyAttends ==
    ASSUME NEW c, NEW hd \in [Handler -> HandRecord], Authing(c, hd) = {},
           ~\E h \in Handler : hd[h].c = c /\ hd[h].pc = "step"
    PROVE  Unattended(c, hd)
BY DEF Authing, HandRecord, Unattended

\* It turns to a packet that nobody has seen yet.
LEMMA TurnsTo ==
    ASSUME NEW c \in Client, NEW k, NEW k2, NEW tab, NEW hd,
           NEW an \in Seq(Reply), an # <<>>, NEW t, NEW v, Coherent(c, k, tab, hd, an, t, v),
           NEW a, a = Head(an), NEW r, r.lastReq = k.cur, a.to = k.cur, a.req.id # k.lastId,
           Turns(k, r, a, v), Unattended(c, hd),
           k2.pc = "await", k2.cur.id = a.req.id, k2.cur.type # "identity",
           k2.cur.state = k2.state, k2.cur.wants = k2.wants
    PROVE  /\ Coherent(c, k2, tab, hd, Tail(an), t, v)
           /\ To(k2.cur, Tail(an)) = {} /\ r.lastReq # k2.cur
<1> DEFINE a2 == Tail(an)
<1>1. /\ Len(an) \in Nat /\ Len(a2) \in Nat /\ Len(an) = Len(a2) + 1 /\ an[1] = a
      /\ \A i \in 1..Len(a2) : a2[i] = an[i + 1] /\ i + 1 \in 1..Len(an) /\ 1 < i + 1
  BY HeadTailProperties, LenProperties, EmptySeq
<1> HIDE DEF a2
<1>2. k2.cur # k.cur
  BY DEF Turns
<1>3. \A i \in 1..Len(a2) : a2[i].to = k.cur
  <2>1. \A i, j \in 1..Len(an) : i < j /\ an[i].to = k.cur => an[j].to = k.cur
    BY DEF Coherent
  <2>2. 1 \in 1..Len(an)
    BY <1>1
  <2> QED
    BY <1>1, <2>1, <2>2
<1>4. To(k2.cur, a2) = {}
  BY <1>2, <1>3 DEF To
<1>5. Attended(c, k2, tab, hd, t)
  BY DEF Attended, Unattended
<1>6. Coherent(c, k2, tab, hd, a2, t, v)
  BY <1>2, <1>3, <1>5 DEF Coherent
<1> QED
  BY <1>2, <1>4, <1>6 DEF a2

\* What its session says next.
LEMMA TurnsWaits ==
    ASSUME NEW k, NEW k2, NEW r, NEW a, NEW v, Turns(k, r, a, v), r.lastReq # k2.cur,
           r.lastResp.id = k2.lastId, Meets(k2, r)
    PROVE  Waits(k2, r, v)
<1>1. Pipe(r) /\ Queue(r) /\ (r.inner = "failed" => v = "no")
  <2>1. CASE Untouched(r)
    BY <2>1 DEF Untouched, Pipe, Queue, Lined
  <2>2. CASE Replied(k, r, v)
    BY <2>2 DEF Replied, Served
  <2> QED
    BY <2>1, <2>2 DEF Turns
<1> QED
  BY <1>1 DEF Waits, Meets

LEMMA TurnsMeets ==
    ASSUME Fit, NEW c \in Client, cl[c].cur \in Packet, NEW r \in SessRecord, NEW a, NEW v,
           Turns(cl[c], r, a, v), r.lastResp = a.req,
           NEW w \in Words(c, a.req), a.req \in Request, NEW k2, Turned(cl[c], k2, a.req.kind = "data", w)
    PROVE  Meets(k2, r)
<1> DEFINE k == cl[c]
           req == a.req
<1>1. k \in ClientRecord /\ req.kind \in {"start", "data", "ack"} /\ req.said \in Said
  BY DEF Fit, ClientsFit, Request
<1>2. CASE req.kind = "start"
  <2>1. w = <<Whole(c, "hello")>> /\ Turned(k, k2, FALSE, w)
    BY <1>2 DEF Words
  <2>2. Untouched(r) /\ k.got = 0 /\ k.sent = 0
    BY <1>2 DEF Turns, Replied
  <2> QED
    BY <2>1, <2>2, StartMeets
<1>3. CASE req.kind = "ack"
  <2>1. w = k.rest /\ Turned(k, k2, FALSE, k.rest)
    BY <1>3 DEF Words
  <2>2. Speaks(k) /\ Replied(k, r, v) /\ Popped(r) = k.got
    BY <1>3 DEF Turns, Replied
  <2> HIDE DEF k
  <2>3. Meets(k2, r)
    <3>1. k.cur \in Packet
      BY DEF k
    <3> QED
      BY <1>1, <2>1, <2>2, <3>1, AckMeets
  <2> QED
    BY <2>3
<1>4. CASE req.kind = "data"
  <2>1. w \in Replies(c, req.said) /\ Turned(k, k2, TRUE, w)
    BY <1>4 DEF Words
  <2>2. /\ Speaks(k) /\ Replied(k, r, v) /\ Popped(r) = k.got + 1
        /\ Numbered(k.got + 1, req.said)
    BY <1>4 DEF Turns, Replied
  <2> QED
    BY <1>1, <2>1, <2>2, DataMeets
<1> QED
  BY <1>1, <1>2, <1>3, <1>4

\* A refusal is deserved.
LEMMA RefusedGoing ==
    ASSUME NEW c, NEW k \in ClientRecord, NEW tab, NEW hd, NEW an \in Seq(Reply), an # <<>>, NEW t, NEW v,
           Going(c, k, tab, hd, an, t, v), Head(an).to = k.cur, Head(an).code = "reject"
    PROVE  Going(c, [k EXCEPT !.pc = "rejected"], tab, hd, Tail(an), t, v)
<1> DEFINE q == [k EXCEPT !.pc = "rejected"]
<1>1. Len(an) \in Nat /\ Len(an) # 0 /\ Head(an) = an[1]
  BY LenProperties, EmptySeq
<1>2. 1 \in To(k.cur, an) /\ an[1].code = "reject"
  BY <1>1 DEF To
<1>3. \A j \in To(k.cur, an) : ~(j < 1)
  BY <1>1 DEF To
<1>4. ~InTurn(c, k, tab, hd, an, t, v)
  BY <1>2 DEF InTurn
<1>5. v \in {"no", "full"}
  <2>1. CASE InIdentity(c, k, tab, hd, an, t, v)
    BY <1>2, <2>1 DEF InIdentity
  <2>2. CASE InNak(c, k, tab, hd, an, t, v)
    BY <1>2, <2>2 DEF InNak
  <2>3. CASE IsOver(c, k, tab, hd, an, t, v)
    BY <1>2, <1>3, <2>3 DEF IsOver, Refusals
  <2> QED
    BY <1>4, <2>1, <2>2, <2>3 DEF Going
<1>6. /\ q.cur = k.cur /\ q.state = k.state /\ q.lastId = k.lastId /\ q.got = k.got
      /\ q.sent = k.sent /\ q.rest = k.rest /\ q.wants = k.wants
  BY DEF ClientRecord
<1> HIDE DEF q
<1>7. Coherent(c, q, tab, hd, an, t, v)
  BY <1>5, <1>6 DEF Going, Coherent, Attended
<1>8. InIdentity(c, k, tab, hd, an, t, v) => InIdentity(c, q, tab, hd, an, t, v)
  BY <1>6 DEF InIdentity
<1>9. InNak(c, k, tab, hd, an, t, v) => InNak(c, q, tab, hd, an, t, v)
  BY <1>6 DEF InNak
<1>10. IsOver(c, k, tab, hd, an, t, v) => IsOver(c, q, tab, hd, an, t, v)
  BY <1>6 DEF IsOver
<1>11. Going(c, q, tab, hd, an, t, v)
  BY <1>4, <1>7, <1>8, <1>9, <1>10 DEF Going
<1>12. Going(c, q, tab, hd, Tail(an), t, v)
  BY <1>5, <1>11, TailKept
<1> QED
  BY <1>12 DEF q

\* What Hear does, with its cases apart.
LEMMA Hears ==
    ASSUME Fit, NEW c \in Client, Hear(c)
    PROVE  LET k == cl[c]
               a == Head(ans[c])
               req == a.req
               mine == k.pc = "await" /\ a.to = k.cur
               new == mine /\ a.code = "challenge" /\ req.id # k.lastId
               p(type, body) == [state |-> a.state, id |-> req.id, type |-> type, body |-> body,
                                 wants |-> k.wants]
               upd(w) == [k EXCEPT !.got = IF req.kind = "data" THEN @ + 1 ELSE @,
                                   !.sent = IF w # <<>> /\ Head(w).part # "first" THEN Head(w).n ELSE @,
                                   !.rest = IF w = <<>> THEN <<>> ELSE Tail(w)]
           IN  /\ ans[c] # <<>> /\ ans' = [ans EXCEPT ![c] = Tail(@)]
               /\ UNCHANGED <<sess, hand, now, verdict>>
               /\ (\E h \in Handler : hand[h].c = c /\ hand[h].pc = "step") => c \in disturbed'
               /\ \/ cl' = cl /\ (~mine \/ (a.code = "challenge" /\ req.id = k.lastId))
                  \/ /\ mine /\ a.code # "challenge"
                     /\ cl' = [cl EXCEPT ![c] = [k EXCEPT !.pc = IF a.code = "accept" THEN "accepted" ELSE "rejected"]]
                  \/ /\ new /\ req.kind = "start" /\ req.proto # k.wants
                     /\ cl' = [cl EXCEPT ![c] = [[k EXCEPT !.state = a.state, !.lastId = req.id]
                                                 EXCEPT !.cur = p("nak", Empty)]]
                  \/ /\ new /\ req.kind = "data" /\ req.no # k.got + 1
                     /\ cl' = [cl EXCEPT ![c] = [k EXCEPT !.pc = "broken"]]
                  \/ /\ new /\ (req.kind = "start" => req.proto = k.wants)
                     /\ \E w \in Words(c, req) :
                          cl' = [cl EXCEPT ![c] = [[upd(w) EXCEPT !.state = a.state, !.lastId = req.id]
                                   EXCEPT !.cur = p(k.wants, IF w = <<>> THEN Empty ELSE Head(w))]]
<1>1. cl \in [Client -> ClientRecord]
  BY DEF Fit, ClientsFit
<1>2. ans[c] # <<>> /\ ans' = [ans EXCEPT ![c] = Tail(@)] /\ UNCHANGED <<sess, hand, now, verdict>>
  BY DEF Hear, serverVars
<1>3. (\E h \in Handler : hand[h].c = c /\ hand[h].pc = "step") => c \in disturbed'
  BY DEF Hear
<1> DEFINE k == cl[c]
           a == Head(ans[c])
           req == a.req
           mine == k.pc = "await" /\ a.to = k.cur
           new == mine /\ a.code = "challenge" /\ req.id # k.lastId
           p(type, body) == [state |-> a.state, id |-> req.id, type |-> type, body |-> body,
                             wants |-> k.wants]
           upd(w) == [k EXCEPT !.got = IF req.kind = "data" THEN @ + 1 ELSE @,
                               !.sent = IF w # <<>> /\ Head(w).part # "first" THEN Head(w).n ELSE @,
                               !.rest = IF w = <<>> THEN <<>> ELSE Tail(w)]
<1>4. \/ cl' = cl /\ (~mine \/ (a.code = "challenge" /\ req.id = k.lastId))
      \/ /\ mine /\ a.code # "challenge"
         /\ cl' = [cl EXCEPT ![c].pc = IF a.code = "accept" THEN "accepted" ELSE "rejected"]
      \/ /\ new /\ req.kind = "start" /\ req.proto # k.wants
         /\ cl' = [cl EXCEPT ![c] = [[k EXCEPT !.state = a.state, !.lastId = req.id]
                                     EXCEPT !.cur = p("nak", Empty)]]
      \/ /\ new /\ req.kind = "data" /\ req.no # k.got + 1
         /\ cl' = [cl EXCEPT ![c].pc = "broken"]
      \/ /\ new /\ (req.kind = "start" => req.proto = k.wants)
         /\ \E w \in Words(c, req) :
              cl' = [cl EXCEPT ![c] = [[upd(w) EXCEPT !.state = a.state, !.lastId = req.id]
                       EXCEPT !.cur = p(k.wants, IF w = <<>> THEN Empty ELSE Head(w))]]
  BY Zenon DEF Hear, Put
<1>5. ASSUME NEW pc, cl' = [cl EXCEPT ![c].pc = pc]
      PROVE  cl' = [cl EXCEPT ![c] = [k EXCEPT !.pc = pc]]
  BY <1>5
<1> QED
  BY <1>2, <1>3, <1>4, <1>5, Zenon

\* The supplicant has turned to a new packet.
LEMMA TurnedGoing ==
    ASSUME Fit, NEW c \in Client, GoingNow(c), cl[c].pc = "await", ans[c] # <<>>,
           NEW a, a = Head(ans[c]), a.to = cl[c].cur, a.code = "challenge", a.req.id # cl[c].lastId,
           ~\E h \in Handler : hand[h].c = c /\ hand[h].pc = "step",
           NEW k2, k2.pc = "await", k2.cur.id = a.req.id, k2.lastId = a.req.id, k2.state = a.state,
           k2.cur.state = a.state, k2.wants = cl[c].wants, k2.cur.wants = cl[c].wants,
           \/ /\ a.req.kind = "start" /\ a.req.proto # cl[c].wants /\ k2.cur.type = "nak"
              /\ k2.got = cl[c].got /\ k2.sent = cl[c].sent /\ k2.rest = cl[c].rest
           \/ /\ a.req.kind = "start" => a.req.proto = cl[c].wants
              /\ k2.cur.type = cl[c].wants
              /\ \E w \in Words(c, a.req) : Turned(cl[c], k2, a.req.kind = "data", w)
    PROVE  Going(c, k2, sess, hand, Tail(ans[c]), now, verdict[c])
<1> DEFINE k == cl[c]
           an == ans[c]
           v == verdict[c]
           r == sess[a.state]
           a2 == Tail(an)
<1>1. /\ Belong(c, k, hand, an, sess) /\ now \in Nat /\ an \in Seq(Reply) /\ k \in ClientRecord
      /\ hand \in [Handler -> HandRecord] /\ sess \in [Sess -> SessRecord]
  BY Belongs
<1>2. Going(c, k, sess, hand, an, now, v) /\ Coherent(c, k, sess, hand, an, now, v)
  BY DEF GoingNow, Going
<1>3. k.cur \in Packet
  BY DEF Fit, ClientsFit, ClientFits, PacketFits
<1>4. /\ a.req \in Request /\ (a.req.kind # "start" => k.wants # "other")
  <2>1. Len(an) \in Nat /\ Len(an) # 0 /\ a = an[1]
    BY <1>1, LenProperties, EmptySeq
  <2>2. AnswerFits(a, c, Owners, Able, proven)
    BY <2>1 DEF Fit, AnswersFit
  <2> QED
    BY <2>2 DEF AnswerFits, Reply, Able
<1>5. /\ a.req.proto \in {"peap", "ttls"} /\ k.wants \in {"peap", "ttls", "other"}
  BY <1>1, <1>4 DEF Request, ClientRecord
<1>6. /\ a.state \in Sess /\ r \in SessRecord /\ r.st = "live" /\ Fresh(r, now)
      /\ r.lastReq = k.cur /\ r.lastResp = a.req /\ Authing(c, hand) = {}
      /\ Turns(k, r, a, v)
  <2> HIDE DEF k, an, v
  <2>1. a.to = k.cur /\ a.req.id # k.lastId /\ a = Head(an) /\ an # <<>>
    BY DEF k, an
  <2> QED
    BY <1>1, <1>2, <2>1, Challenged
<1>7. k2.cur.type # "identity"
  BY <1>5
<1>8. /\ Coherent(c, k2, sess, hand, a2, now, v)
      /\ To(k2.cur, a2) = {} /\ r.lastReq # k2.cur
  <2> HIDE DEF k, an, v, r
  <2> HIDE DEF a2
  <2>1. /\ a.to = k.cur /\ a.req.id # k.lastId /\ a = Head(an) /\ an # <<>>
        /\ k2.cur.state = k2.state /\ k2.cur.wants = k2.wants
        /\ k2.pc = "await" /\ k2.cur.id = a.req.id /\ k2.cur.type # "identity"
    BY <1>7 DEF k, an
  <2>2. /\ Coherent(c, k, sess, hand, an, now, v) /\ Turns(k, r, a, v) /\ Authing(c, hand) = {}
        /\ r.lastReq = k.cur /\ hand \in [Handler -> HandRecord] /\ an \in Seq(Reply)
    BY <1>1, <1>2, <1>6
  <2>3. Unattended(c, hand)
    BY <1>1, <1>6, NobodyAttends
  <2>4. /\ Coherent(c, k2, sess, hand, Tail(an), now, v)
        /\ To(k2.cur, Tail(an)) = {} /\ r.lastReq # k2.cur
    BY ONLY <2>1, <2>2, <2>3, c \in Client, TurnsTo
  <2> QED
    BY <2>4 DEF a2
<1>9. a.state # None
  BY <1>6, Constants
<1>10. CASE /\ a.req.kind = "start" /\ a.req.proto # k.wants /\ k2.cur.type = "nak"
            /\ k2.got = k.got /\ k2.sent = k.sent /\ k2.rest = k.rest
  <2>1. /\ Untouched(r) /\ r.proto = "peap" /\ k.got = 0 /\ k.sent = 0 /\ k.rest = <<>>
        /\ v \in {"none", "full"} /\ a.req.proto = "peap"
    BY <1>6, <1>10 DEF Turns, Replied
  <2>2. InNak(c, k2, sess, hand, a2, now, v)
    BY <1>6, <1>8, <1>9, <1>10, <2>1 DEF InNak
  <2> QED
    BY <1>8, <2>2 DEF Going
<1>11. CASE /\ a.req.kind = "start" => a.req.proto = k.wants
            /\ k2.cur.type = k.wants
            /\ \E w \in Words(c, a.req) : Turned(k, k2, a.req.kind = "data", w)
  <2>1. Tunnelling(k2.cur)
    BY <1>4, <1>5, <1>11 DEF Tunnelling
  <2>2. Meets(k2, r)
    BY <1>3, <1>4, <1>6, <1>11, TurnsMeets
  <2>3. Waits(k2, r, v)
    BY <1>6, <1>8, <2>2, TurnsWaits
  <2>4. Speaks(k2)
    BY <1>9, <2>2 DEF Meets, Speaks
  <2> HIDE DEF k, an, v, a2
  <2>5. InTurn(c, k2, sess, hand, a2, now, v)
    BY <1>6, <1>8, <2>1, <2>3, <2>4 DEF InTurn
  <2> QED
    BY <1>8, <2>5 DEF Going, a2, an, v
<1> QED
  BY <1>10, <1>11

\* The stream has no hole.
LEMMA HoleNever ==
    ASSUME Fit, NEW c \in Client, GoingNow(c), ans[c] # <<>>, NEW a, a = Head(ans[c]),
           a.to = cl[c].cur, a.code = "challenge", a.req.id # cl[c].lastId, a.req.kind = "data"
    PROVE  a.req.no = cl[c].got + 1
<1> DEFINE k == cl[c]
           an == ans[c]
           v == verdict[c]
           r == sess[a.state]
<1>1. /\ Belong(c, k, hand, an, sess) /\ now \in Nat /\ an \in Seq(Reply)
      /\ sess \in [Sess -> SessRecord]
  BY Belongs
<1>2. Going(c, k, sess, hand, an, now, v)
  BY DEF GoingNow
<1>3. r.lastResp = a.req /\ Turns(k, r, a, v)
  <2> HIDE DEF k, an, v
  <2>1. a.to = k.cur /\ a.req.id # k.lastId /\ a = Head(an) /\ an # <<>>
    BY DEF k, an
  <2> QED
    BY <1>1, <1>2, <2>1, Challenged
<1> QED
  BY <1>3 DEF Turns, Replied

LEMMA OwnHear ==
    ASSUME Fit, NEW c \in Client, HoldsNow(c), Hear(c), c \notin disturbed'
    PROVE  HoldsNow(c)'
<1> DEFINE k == cl[c]
           an == ans[c]
           v == verdict[c]
           a == Head(an)
           req == a.req
           mine == k.pc = "await" /\ a.to = k.cur
           new == mine /\ a.code = "challenge" /\ req.id # k.lastId
           p(type, body) == [state |-> a.state, id |-> req.id, type |-> type, body |-> body,
                             wants |-> k.wants]
           upd(w) == [k EXCEPT !.got = IF req.kind = "data" THEN @ + 1 ELSE @,
                               !.sent = IF w # <<>> /\ Head(w).part # "first" THEN Head(w).n ELSE @,
                               !.rest = IF w = <<>> THEN <<>> ELSE Tail(w)]
<1>1. /\ an \in Seq(Reply) /\ k \in ClientRecord /\ cl \in [Client -> ClientRecord]
      /\ ans \in [Client -> Seq(Reply)]
  BY DEF Fit, AnswersFit, ClientsFit
<1>2. /\ an # <<>> /\ ans'[c] = Tail(an) /\ UNCHANGED <<sess, hand, now, verdict>>
      /\ ~\E h \in Handler : hand[h].c = c /\ hand[h].pc = "step"
  BY <1>1, Hears
<1>3. \/ cl' = cl /\ (~mine \/ (a.code = "challenge" /\ req.id = k.lastId))
      \/ /\ mine /\ a.code # "challenge"
         /\ cl' = [cl EXCEPT ![c] = [k EXCEPT !.pc = IF a.code = "accept" THEN "accepted" ELSE "rejected"]]
      \/ /\ new /\ req.kind = "start" /\ req.proto # k.wants
         /\ cl' = [cl EXCEPT ![c] = [[k EXCEPT !.state = a.state, !.lastId = req.id]
                                     EXCEPT !.cur = p("nak", Empty)]]
      \/ /\ new /\ req.kind = "data" /\ req.no # k.got + 1
         /\ cl' = [cl EXCEPT ![c] = [k EXCEPT !.pc = "broken"]]
      \/ /\ new /\ (req.kind = "start" => req.proto = k.wants)
         /\ \E w \in Words(c, req) :
              cl' = [cl EXCEPT ![c] = [[upd(w) EXCEPT !.state = a.state, !.lastId = req.id]
                       EXCEPT !.cur = p(k.wants, IF w = <<>> THEN Empty ELSE Head(w))]]
  BY Hears
<1>4. HoldsNow(c)' <=> Holds(c, cl'[c], sess, hand, Tail(an), now, v)
  BY <1>2 DEF HoldsNow
<1>5. Holds(c, k, sess, hand, an, now, v) /\ k.pc # "broken"
  BY DEF HoldsNow, Holds
<1>6. k.pc # "idle"
  BY <1>2, <1>5 DEF Holds, Unborn
<1>7. k.pc \in {"await", "rejected"} => Going(c, k, sess, hand, an, now, v)
  BY <1>5 DEF Holds
<1>8. CASE cl' = cl /\ (~mine \/ (a.code = "challenge" /\ req.id = k.lastId))
  <2>1. k.pc = "rejected" => v \in {"no", "full"}
    BY <1>7 DEF Going, Coherent
  <2>2. k.pc = "await" => a.to # k.cur \/ a.code = "challenge"
    BY <1>8
  <2>3. cl'[c] = k
    BY <1>8
  <2> HIDE DEF k, an, v, mine, a
  <2>4. k.pc \in {"await", "rejected"} => Going(c, k, sess, hand, Tail(an), now, v)
    <3>1. ASSUME k.pc \in {"await", "rejected"}
          PROVE  Head(an).code = "challenge" \/ Head(an).to # k.cur \/ v \in {"no", "full"}
      BY <2>1, <2>2, <3>1 DEF a
    <3> QED
      BY <1>1, <1>2, <1>7, <3>1, TailKept
  <2>5. Holds(c, k, sess, hand, Tail(an), now, v)
    BY <1>5, <1>6, <2>4 DEF Holds
  <2> QED
    BY <1>4, <2>3, <2>5
<1>9. CASE /\ mine /\ a.code # "challenge"
           /\ cl' = [cl EXCEPT ![c] = [k EXCEPT !.pc = IF a.code = "accept" THEN "accepted" ELSE "rejected"]]
  <2> DEFINE pc2 == IF a.code = "accept" THEN "accepted" ELSE "rejected"
             q == [k EXCEPT !.pc = pc2]
  <2>1. cl'[c] = q /\ q.pc = pc2
    BY <1>1, <1>9 DEF ClientRecord
  <2>2. CASE a.code = "accept"
    <3>1. q.pc = "accepted"
      BY <2>1, <2>2
    <3> HIDE DEF q
    <3>2. Holds(c, q, sess, hand, Tail(an), now, v)
      BY <3>1 DEF Holds
    <3> QED
      BY <1>4, <2>1, <3>2
  <2>3. CASE a.code # "accept"
    <3>1. a.code \in {"challenge", "accept", "reject"}
      <4>1. a \in Reply
        BY <1>1, <1>2, HeadTailProperties
      <4> QED
        BY <4>1 DEF Reply
    <3>2. /\ q = [k EXCEPT !.pc = "rejected"] /\ q.pc = "rejected" /\ a.code = "reject"
          /\ a.to = k.cur /\ k.pc = "await"
      BY <1>9, <2>1, <2>3, <3>1
    <3> HIDE DEF q, k, an, v, mine, a
    <3>3. Going(c, [k EXCEPT !.pc = "rejected"], sess, hand, Tail(an), now, v)
      <4>1. Head(an).to = k.cur /\ Head(an).code = "reject"
        BY <3>2 DEF a
      <4> QED
        BY <1>1, <1>2, <1>7, <3>2, <4>1, RefusedGoing
    <3>4. Holds(c, q, sess, hand, Tail(an), now, v)
      BY <3>2, <3>3 DEF Holds
    <3> QED
      BY <1>4, <2>1, <3>4
  <2> QED
    BY <2>2, <2>3
<1>10. ASSUME new, NEW k2, cl'[c] = k2,
              k2.pc = "await", k2.cur.id = a.req.id, k2.lastId = a.req.id, k2.state = a.state,
              k2.cur.state = a.state, k2.wants = cl[c].wants, k2.cur.wants = cl[c].wants,
              \/ /\ a.req.kind = "start" /\ a.req.proto # cl[c].wants /\ k2.cur.type = "nak"
                 /\ k2.got = cl[c].got /\ k2.sent = cl[c].sent /\ k2.rest = cl[c].rest
              \/ /\ a.req.kind = "start" => a.req.proto = cl[c].wants
                 /\ k2.cur.type = cl[c].wants
                 /\ \E w \in Words(c, a.req) : Turned(cl[c], k2, a.req.kind = "data", w)
       PROVE  HoldsNow(c)'
  <2>1. GoingNow(c)
    BY <1>7, <1>10 DEF GoingNow
  <2>2. Going(c, k2, sess, hand, Tail(an), now, v)
    BY <1>2, <1>10, <2>1, TurnedGoing
  <2> HIDE DEF an, v
  <2>3. Holds(c, k2, sess, hand, Tail(an), now, v)
    BY <1>10, <2>2 DEF Holds
  <2> QED
    BY <1>4, <1>10, <2>3
<1>11. CASE /\ new /\ req.kind = "start" /\ req.proto # k.wants
            /\ cl' = [cl EXCEPT ![c] = [[k EXCEPT !.state = a.state, !.lastId = req.id]
                                        EXCEPT !.cur = p("nak", Empty)]]
  <2> DEFINE m == p("nak", Empty)
             u == [k EXCEPT !.state = a.state, !.lastId = req.id]
             k2 == [u EXCEPT !.cur = m]
  <2>1. /\ m.id = req.id /\ m.state = a.state /\ m.wants = k.wants /\ m.type = "nak"
    OBVIOUS
  <2>2. cl'[c] = k2
    BY <1>1, <1>11
  <2> HIDE DEF m
  <2>3. /\ k2.pc = k.pc /\ k2.cur = m /\ k2.state = a.state /\ k2.lastId = req.id /\ k2.wants = k.wants
        /\ k2.got = k.got /\ k2.sent = k.sent /\ k2.rest = k.rest
    BY <1>1 DEF ClientRecord
  <2> HIDE DEF k2
  <2> QED
    BY <1>10, <1>11, <2>1, <2>2, <2>3
<1>12. ~(new /\ req.kind = "data" /\ req.no # k.got + 1)
  <2> SUFFICES ASSUME new, req.kind = "data" PROVE req.no = k.got + 1
    OBVIOUS
  <2>1. GoingNow(c)
    BY <1>7 DEF GoingNow
  <2> QED
    BY <1>2, <2>1, HoleNever
<1>13. ASSUME new, req.kind = "start" => req.proto = k.wants, NEW w \in Words(c, req),
              cl' = [cl EXCEPT ![c] = [[upd(w) EXCEPT !.state = a.state, !.lastId = req.id]
                       EXCEPT !.cur = p(k.wants, IF w = <<>> THEN Empty ELSE Head(w))]]
       PROVE  HoldsNow(c)'
  <2> DEFINE body == IF w = <<>> THEN Empty ELSE Head(w)
             m == p(k.wants, body)
             got == IF req.kind = "data" THEN k.got + 1 ELSE k.got
             sent == IF w # <<>> /\ Head(w).part # "first" THEN Head(w).n ELSE k.sent
             rest == IF w = <<>> THEN <<>> ELSE Tail(w)
             z == [k EXCEPT !.got = got, !.sent = sent, !.rest = rest]
             u == [z EXCEPT !.state = a.state, !.lastId = req.id]
             k2 == [u EXCEPT !.cur = m]
  <2>1. /\ m.id = req.id /\ m.state = a.state /\ m.wants = k.wants /\ m.type = k.wants /\ m.body = body
    OBVIOUS
  <2>2. z = upd(w)
    BY <1>1, Zenon
  <2>3. cl'[c] = k2
    <3>1. cl' = [cl EXCEPT ![c] = k2]
      BY <1>13, <2>2, Zenon
    <3> HIDE DEF k2
    <3> QED
      BY <1>1, <3>1
  <2> HIDE DEF m, got, sent, rest
  <2>4. /\ z.pc = k.pc /\ z.wants = k.wants /\ z.got = got /\ z.sent = sent /\ z.rest = rest
        /\ z = [z EXCEPT !.pc = k.pc]
    BY <1>1 DEF ClientRecord
  <2>5. /\ k2.pc = k.pc /\ k2.cur = m /\ k2.state = a.state /\ k2.lastId = req.id /\ k2.wants = k.wants
        /\ k2.got = got /\ k2.sent = sent /\ k2.rest = rest
    BY <1>1 DEF ClientRecord
  <2> HIDE DEF z, u, k2
  <2>6. Turned(k, k2, req.kind = "data", w)
    BY <2>1, <2>5 DEF Turned, got, sent, rest
  <2> HIDE DEF body
  <2> QED
    BY <1>10, <1>13, <2>1, <2>3, <2>5, <2>6
<1> HIDE DEF k, an, v, a, req, mine, new, p, upd
<1> QED
  BY <1>3, <1>8, <1>9, <1>11, <1>12, <1>13

LEMMA HearHolds ==
    ASSUME Fit, NEW c \in Client, HoldsNow(c), NEW d \in Client, Hear(d), c \notin disturbed'
    PROVE  HoldsNow(c)'
<1>1. CASE d = c
  BY <1>1, OwnHear
<1>2. CASE d # c
  <2>1. UNCHANGED <<sess, hand, now, verdict>> /\ ans' = [ans EXCEPT ![d] = Tail(@)]
    BY DEF Hear, serverVars
  <2>2. \E q : cl' = [cl EXCEPT ![d] = q]
    <3>1. cl = [cl EXCEPT ![d] = cl[d]]
      BY DEF Fit, ClientsFit
    <3> QED
      BY <3>1, Zenon DEF Hear, Put
  <2>3. cl \in [Client -> ClientRecord] /\ ans \in [Client -> Seq(Reply)]
    BY DEF Fit, ClientsFit, AnswersFit
  <2> QED
    BY <1>2, <2>1, <2>2, <2>3, NotItsOwn
<1> QED
  BY <1>1, <1>2

-----------------------------------------------------------------------------
(* Every step.                                                             *)

LEMMA SpareInit == Init => Silent /\ Spared
<1> SUFFICES ASSUME Init PROVE Silent /\ Spared
  OBVIOUS
<1>1. Silent
  BY DEF Init, Silent
<1>2. ASSUME NEW c \in Client
      PROVE  Holds(c, cl[c], sess, hand, ans[c], now, verdict[c])
  <2>1. PICK w \in Method : cl[c] = [pc |-> "idle", wants |-> w, cur |-> None, state |-> None,
                                     lastId |-> None, got |-> 0, sent |-> 0, rest |-> <<>>]
    BY DEF Init
  <2>2. \A h \in Handler : hand[h].pc = "idle"
    BY DEF Init
  <2>3. ans[c] = <<>> /\ verdict[c] = "none"
    BY DEF Init
  <2>4. Unborn(c, cl[c], hand, ans[c], verdict[c])
    BY <2>1, <2>2, <2>3 DEF Unborn
  <2>5. cl[c].pc = "idle"
    BY <2>1
  <2> QED
    BY <2>4, <2>5 DEF Holds
<1> QED
  BY <1>1, <1>2 DEF Spared

\* Who was disturbed stays so.
LEMMA DisturbedGrows ==
    ASSUME [Next]_vars
    PROVE  disturbed \subseteq disturbed'
<1>1. ASSUME NEW h \in Handler, HandlerStep(h)
      PROVE  disturbed \subseteq disturbed'
  <2>1. disturbed' = disturbed
    BY <1>1 DEF HandlerStep, SendAgain, Identity, Nak, NoSuchSession, Collect, Misfit, Handshake,
                FirstQuestion, Listen, InnerPAP, InnerIdentity, InnerResponse, AfterSuccess, AfterTLV,
                AfterFailure, Resume, envVars
  <2> QED
    BY <2>1
<1>2. ASSUME NEW h \in Handler, NEW c \in Client, NEW keep \in BOOLEAN, NEW p \in net[c],
             Deliver(h, c, p, keep)
      PROVE  disturbed \subseteq disturbed'
  BY <1>2 DEF Deliver
<1>3. ASSUME NEW s \in Sess, Engine(s)
      PROVE  disturbed \subseteq disturbed'
  BY <1>3 DEF Engine, envVars
<1>4. ASSUME NEW c \in Client, Start(c) \/ Retransmit(c) \/ LoseAnswer(c)
      PROVE  disturbed \subseteq disturbed'
  BY <1>4 DEF Start, Retransmit, LoseAnswer
<1>5. ASSUME NEW c \in Client, Hear(c)
      PROVE  disturbed \subseteq disturbed'
  <2>1. \E held : disturbed' = IF held THEN disturbed \cup {c} ELSE disturbed
    BY <1>5, Zenon DEF Hear
  <2> QED
    BY <2>1
<1>6. ASSUME NEW c \in Client, NEW p \in net[c], LoseRequest(c, p)
      PROVE  disturbed \subseteq disturbed'
  BY <1>6 DEF LoseRequest
<1>7. CASE Tick
  BY <1>7 DEF Tick
<1>8. CASE UNCHANGED vars
  BY <1>8 DEF vars
<1> QED
  BY <1>1, <1>2, <1>3, <1>4, <1>5, <1>6, <1>7, <1>8 DEF Next

\* A packet is on its way only after its supplicant has started.
LEMMA StaysSilent ==
    ASSUME Fit, Silent, [Next]_vars
    PROVE  Silent'
<1>0. /\ cl \in [Client -> ClientRecord] /\ net \in [Client -> SUBSET Packet]
  BY DEF Fit, ClientsFit, PacketsFit
<1> SUFFICES ASSUME NEW d \in Client, cl'[d].pc = "idle" PROVE net'[d] = {}
  BY DEF Silent
<1>1. ASSUME NEW h \in Handler, HandlerStep(h)
      PROVE  net'[d] = {}
  <2>1. net' = net /\ cl' = cl
    BY <1>1 DEF HandlerStep, SendAgain, Identity, Nak, NoSuchSession, Collect, Misfit, Handshake,
                FirstQuestion, Listen, InnerPAP, InnerIdentity, InnerResponse, AfterSuccess, AfterTLV,
                AfterFailure, Resume, envVars
  <2> QED
    BY <2>1 DEF Silent
<1>2. ASSUME NEW h \in Handler, NEW c \in Client, NEW keep \in BOOLEAN, NEW p \in net[c],
             Deliver(h, c, p, keep)
      PROVE  net'[d] = {}
  <2>1. cl' = cl /\ net' = [net EXCEPT ![c] = IF keep THEN net[c] ELSE net[c] \ {p}]
    BY <1>2 DEF Deliver
  <2> QED
    BY <1>0, <2>1 DEF Silent
<1>3. ASSUME NEW s \in Sess, Engine(s)
      PROVE  net'[d] = {}
  BY <1>3 DEF Engine, envVars, Silent
<1>4. ASSUME NEW c \in Client, Start(c)
      PROVE  net'[d] = {}
  <2> DEFINE p == [state |-> None, id |-> 0, type |-> "identity", body |-> Empty, wants |-> cl[c].wants]
             u == [cl[c] EXCEPT !.pc = "await"]
             k2 == [u EXCEPT !.cur = p]
             n2 == (IF spent.late < MaxLate THEN net[c] ELSE {}) \cup {p}
  <2>1. cl' = [cl EXCEPT ![c] = k2] /\ net' = [net EXCEPT ![c] = n2]
    BY <1>4 DEF Start, Put
  <2> HIDE DEF p, n2
  <2>2. k2.pc = "await"
    BY <1>0 DEF ClientRecord
  <2> HIDE DEF k2
  <2>3. d # c
    BY <1>0, <2>1, <2>2
  <2> QED
    BY <1>0, <2>1, <2>3 DEF Silent
<1>5. ASSUME NEW c \in Client, Hear(c)
      PROVE  net'[d] = {}
  <2>1. CASE d # c
    <3>1. /\ \E q : cl' = [cl EXCEPT ![c] = q]
          /\ \E q : net' = [net EXCEPT ![c] = q]
      <4>1. cl = [cl EXCEPT ![c] = cl[c]] /\ net = [net EXCEPT ![c] = net[c]]
        BY <1>0
      <4> QED
        BY <1>5, <4>1, Zenon DEF Hear, Put
    <3> QED
      BY <1>0, <2>1, <3>1 DEF Silent
  <2>2. CASE d = c /\ cl[c].pc = "await"
    <3> DEFINE k == cl[c]
               a == Head(ans[c])
               req == a.req
               mine == k.pc = "await" /\ a.to = k.cur
               new == mine /\ a.code = "challenge" /\ req.id # k.lastId
               p(type, body) == [state |-> a.state, id |-> req.id, type |-> type, body |-> body,
                                 wants |-> k.wants]
               upd(w) == [k EXCEPT !.got = IF req.kind = "data" THEN @ + 1 ELSE @,
                                   !.sent = IF w # <<>> /\ Head(w).part # "first" THEN Head(w).n ELSE @,
                                   !.rest = IF w = <<>> THEN <<>> ELSE Tail(w)]
    <3>1. \/ cl' = cl
          \/ cl' = [cl EXCEPT ![c] = [k EXCEPT !.pc = IF a.code = "accept" THEN "accepted" ELSE "rejected"]]
          \/ cl' = [cl EXCEPT ![c] = [[k EXCEPT !.state = a.state, !.lastId = req.id]
                                      EXCEPT !.cur = p("nak", Empty)]]
          \/ cl' = [cl EXCEPT ![c] = [k EXCEPT !.pc = "broken"]]
          \/ \E w \in Words(c, req) :
               cl' = [cl EXCEPT ![c] = [[upd(w) EXCEPT !.state = a.state, !.lastId = req.id]
                        EXCEPT !.cur = p(k.wants, IF w = <<>> THEN Empty ELSE Head(w))]]
      BY <1>5, Hears
    <3>2. k \in ClientRecord /\ k.pc = "await" /\ cl \in [Client -> ClientRecord]
      BY <1>0, <2>2
    <3>3. ASSUME NEW q, cl' = [cl EXCEPT ![c] = q], q.pc # "idle"
          PROVE  cl'[c].pc # "idle"
      BY <1>0, <3>3
    <3>4. CASE cl' = cl
      BY <2>2, <3>4
    <3>5. CASE cl' = [cl EXCEPT ![c] = [k EXCEPT !.pc = IF a.code = "accept" THEN "accepted" ELSE "rejected"]]
      <4>1. [k EXCEPT !.pc = IF a.code = "accept" THEN "accepted" ELSE "rejected"].pc # "idle"
        BY <3>2 DEF ClientRecord
      <4> QED
        BY <2>2, <3>3, <3>5, <4>1
    <3>6. CASE cl' = [cl EXCEPT ![c] = [[k EXCEPT !.state = a.state, !.lastId = req.id]
                                        EXCEPT !.cur = p("nak", Empty)]]
      <4>1. [[k EXCEPT !.state = a.state, !.lastId = req.id] EXCEPT !.cur = p("nak", Empty)].pc = "await"
        BY <3>2 DEF ClientRecord
      <4> QED
        BY <2>2, <3>3, <3>6, <4>1
    <3>7. CASE cl' = [cl EXCEPT ![c] = [k EXCEPT !.pc = "broken"]]
      <4>1. [k EXCEPT !.pc = "broken"].pc # "idle"
        BY <3>2 DEF ClientRecord
      <4> QED
        BY <2>2, <3>3, <3>7, <4>1
    <3>8. ASSUME NEW w \in Words(c, req),
                 cl' = [cl EXCEPT ![c] = [[upd(w) EXCEPT !.state = a.state, !.lastId = req.id]
                          EXCEPT !.cur = p(k.wants, IF w = <<>> THEN Empty ELSE Head(w))]]
          PROVE  cl'[c].pc # "idle"
      <4> DEFINE m == p(k.wants, IF w = <<>> THEN Empty ELSE Head(w))
                 u == upd(w)
                 z == [u EXCEPT !.state = a.state, !.lastId = req.id]
      <4>1. u.pc = k.pc /\ u = [x \in DOMAIN k |-> u[x]] /\ DOMAIN u = DOMAIN k
        BY <3>2 DEF ClientRecord
      <4>2. "pc" \in DOMAIN k /\ k.pc = "await"
        BY <3>2 DEF ClientRecord
      <4>3. cl' = [cl EXCEPT ![c] = [z EXCEPT !.cur = m]]
        BY <3>8, Zenon
      <4> HIDE DEF u, m
      <4>4. [z EXCEPT !.cur = m].pc = "await"
        BY <4>1, <4>2
      <4> QED
        BY <3>3, <4>3, <4>4
    <3> HIDE DEF k, a, req, mine, new, p, upd
    <3> QED
      BY <2>2, <3>1, <3>4, <3>5, <3>6, <3>7, <3>8
  <2>3. CASE cl[c].pc # "await"
    <3>1. cl' = cl /\ net' = net
      BY <1>5, <2>3 DEF Hear
    <3> QED
      BY <3>1 DEF Silent
  <2> QED
    BY <2>1, <2>2, <2>3
<1>6. ASSUME NEW c \in Client, Retransmit(c) \/ LoseAnswer(c)
      PROVE  net'[d] = {}
  BY <1>0, <1>6 DEF Retransmit, LoseAnswer, Silent
<1>7. ASSUME NEW c \in Client, NEW p \in net[c], LoseRequest(c, p)
      PROVE  net'[d] = {}
  BY <1>0, <1>7 DEF LoseRequest, Silent
<1>8. CASE Tick
  BY <1>8 DEF Tick, Silent
<1>9. CASE UNCHANGED vars
  BY <1>9 DEF vars, Silent
<1> QED
  BY <1>1, <1>2, <1>3, <1>4, <1>5, <1>6, <1>7, <1>8, <1>9 DEF Next

LEMMA SpareNext ==
    ASSUME Patient, EInv, Silent, Spared, [Next]_vars
    PROVE  Spared'
<1> SUFFICES ASSUME NEW c \in Client, c \notin disturbed'
             PROVE  HoldsNow(c)'
  BY DEF Spared, HoldsNow
<1>0. Fit /\ HoldsNow(c)
  BY DisturbedGrows DEF EInv, Spared, HoldsNow
<1>1. ASSUME NEW h \in Handler, HandlerStep(h)
      PROVE  HoldsNow(c)'
  BY <1>0, <1>1, OwnStep, OtherStep
<1>2. ASSUME NEW h \in Handler, NEW d \in Client, NEW keep \in BOOLEAN, NEW p \in net[d],
             Deliver(h, d, p, keep)
      PROVE  HoldsNow(c)'
  BY <1>0, <1>2, DeliverHolds
<1>3. ASSUME NEW s \in Sess, Engine(s)
      PROVE  HoldsNow(c)'
  BY <1>0, <1>3, EngineHolds
<1>4. ASSUME NEW d \in Client, Start(d)
      PROVE  HoldsNow(c)'
  BY <1>0, <1>4, StartHolds
<1>5. ASSUME NEW d \in Client, Hear(d)
      PROVE  HoldsNow(c)'
  BY <1>0, <1>5, HearHolds
<1>6. ASSUME NEW d \in Client, LoseAnswer(d)
      PROVE  HoldsNow(c)'
  BY <1>0, <1>6, LoseAnswerHolds
<1>7. ASSUME NEW d \in Client, Retransmit(d)
      PROVE  HoldsNow(c)'
  BY <1>0, <1>7, NotItsOwn DEF Retransmit, serverVars
<1>8. ASSUME NEW d \in Client, NEW p \in net[d], LoseRequest(d, p)
      PROVE  HoldsNow(c)'
  BY <1>0, <1>8, NotItsOwn DEF LoseRequest, serverVars
<1>9. CASE Tick
  BY <1>0, <1>9, TickHolds
<1>10. CASE UNCHANGED vars
  BY <1>0, <1>10, NotItsOwn DEF vars
<1> QED
  BY <1>1, <1>2, <1>3, <1>4, <1>5, <1>6, <1>7, <1>8, <1>9, <1>10 DEF Next

LEMMA SpareMeans == Spared => SparedClientGetsVerdict
<1> SUFFICES ASSUME Spared, NEW c \in Client \ disturbed
             PROVE  cl[c].pc # "broken" /\ (cl[c].pc = "rejected" => verdict[c] \in {"no", "full"})
  BY DEF SparedClientGetsVerdict
<1> QED
  BY DEF Spared, Holds, Going, Coherent

\* A supplicant that the environment spared fails only by the verdict on its
\* user or because the store was full of working sessions, whatever packets
\* are repeated, whatever challenges are lost, however long a push takes and
\* however early an engine announces itself, for any number of supplicants,
\* sessions and handlers: each fragment of the server's stream and each message
\* of the supplicant's is in one place only - the session's queue, the last
\* answer, the packet on its way - and the next one expected (handleEAPAuth's
\* retransmissions, Assembler.Add, popOrAck, create's eviction).  A push is
\* waited for less long than a session may idle before it makes room for
\* another, and that is no longer than a session lives.
THEOREM SparedGetVerdict ==
    ASSUME PushWait < EvictIdle, EvictIdle <= TTL
    PROVE  Spec => []SparedClientGetsVerdict
<1>1. Patient
  BY DEF Patient
<1>2. Init => EInv /\ Silent /\ Spared
  BY InitInv, SpareInit
<1>3. EInv /\ Silent /\ Spared /\ [Next]_vars => (EInv /\ Silent /\ Spared)'
  <2>1. EInv => Fit
    BY DEF EInv
  <2> QED
    BY <1>1, <2>1, NextInv, StaysSilent, SpareNext
<1> QED
  BY <1>2, <1>3, SpareMeans, PTL DEF Spec
=============================================================================

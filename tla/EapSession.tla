----------------------------- MODULE EapSession -----------------------------
(***************************************************************************)
(* The EAP half of the RADIUS server (radiusserver/eapauth.go,             *)
(* eapsession.go): PEAP and TTLS exchanges of several supplicants, each a  *)
(* dialogue of Access-Requests and Access-Challenges over UDP that ends in *)
(* an Access-Accept or an Access-Reject.                                   *)
(*                                                                         *)
(* The server runs one goroutine per packet (Handler).  A step of a        *)
(* session is taken under the mutex of the session and is one action here; *)
(* the mutex is released for one thing only, the inner authentication that *)
(* may wait for a push.  The TLS engine is a goroutine of the session that *)
(* the step feeds and waits for; the wait may end early (see Early).       *)
(*                                                                         *)
(* Around it: an access point that sends a packet again until it is        *)
(* answered, a network that loses, repeats and delays packets, and a       *)
(* supplicant that answers each new request once (RFC 3748).               *)
(***************************************************************************)
EXTENDS Naturals, Sequences, FiniteSets, SequencesExt

CONSTANTS Client,       \* the supplicants; each has a user of its own
          Sess,         \* the States drawn by create
          Handler,      \* the goroutines of the packet server
          None,
          Anon,         \* an outer identity
          Method,       \* what supplicants ask for: "peap", "ttls" or "other"
          Pieces,       \* the pieces of the server's certificate flight
          IdSpace,      \* an EAP identifier is a byte
          Cap,          \* eapSessionCap
          TTL, EvictIdle, PushWait,
          MaxDups, MaxLate, MaxLoss, MaxEarly,  \* bounds of the environment
          Horizon       \* bound of the clock

ASSUME EapAssumption ==
    /\ None \notin Sess \cup Client /\ Anon \notin Client
    /\ Method \subseteq {"peap", "ttls", "other"}
    /\ Pieces \in Nat \ {0} /\ IdSpace \in Nat \ {0} /\ Cap \in Nat \ {0}
    /\ TTL \in Nat /\ EvictIdle \in Nat /\ PushWait \in Nat
    /\ MaxDups \in Nat /\ MaxLate \in Nat /\ MaxLoss \in Nat /\ MaxEarly \in Nat
    /\ Horizon \in Nat

VARIABLES sess,         \* the sessions, the forgotten ones included (a handler may hold one)
          hand,         \* the handlers
          cl,           \* the supplicants with their access points
          net,          \* per client, the packets on their way to the server
          ans,          \* per client, the answers on their way back
          now,
          spent,        \* how much of the bounds MaxDups, ... is used
          verdict,      \* history: the outcome of the inner authentication per client
          proven,       \* history: the names a session authenticated
          disturbed     \* history: clients the network or their own delay harmed

vars == <<sess, hand, cl, net, ans, now, spent, verdict, proven, disturbed>>

-----------------------------------------------------------------------------
(* Packets.                                                                *)

Id == 0..(IdSpace - 1)
NoWrap(i) == i + 1      \* mistake: the identifier does not wrap
NextId(i) == (i + 1) % IdSpace

\* A message of the supplicant to the TLS engine: its place n in the stream
\* and what it says; a large one travels in two pieces.
Word == {"hello", "finish", "identity", "resp", "ok", "tlv", "failack", "half", "pap"}
Message == [n: Nat, word: Word, part: {"whole", "first", "last"}]
Empty == [n |-> 0, word |-> "ok", part |-> "whole"]      \* no payload: an ACK

\* An EAP-Response with the State it is sent under.
Packet == [state: Sess \cup {None}, id: Id, type: {"identity", "nak", "peap", "ttls"},
           body: Message, wants: {"peap", "ttls", "other"}]

\* A fragment of the server's stream, numbered; the last one of a message
\* says which message it was.
Said == {"more", "flight", "finish", "chal", "success", "tlv", "fail"}
Request == [id: Id, kind: {"start", "data", "ack"}, proto: {"peap", "ttls"},
            no: Nat, said: Said]
NoRequest == [id |-> 0, kind |-> "ack", proto |-> "peap", no |-> 0, said |-> "more"]

Reply == [code: {"challenge", "accept", "reject"}, to: Packet, state: Sess \cup {None},
          req: Request, name: Client \cup {None, Anon}]

SessRecord == [st: {"absent", "live", "gone"}, owner: Client \cup {None},
               proto: {"peap", "ttls"}, phase: {"handshake", "done", "inner"},
               inner: {"challenge", "success", "tlv", "failed"},
               buf: Seq(Message), input: Seq(Message), read: Nat, up: BOOLEAN, err: BOOLEAN,
               app: Seq(Word), pending: BOOLEAN,
               out: Seq([no: Nat, said: Said]), made: Nat, reqID: Id,
               lastReq: Packet \cup {None}, lastResp: Request,
               name: Client \cup {None, Anon}, lastUsed: Nat, early: BOOLEAN]

NoSession == [st |-> "absent", owner |-> None, proto |-> "peap", phase |-> "handshake",
              inner |-> "challenge", buf |-> <<>>, input |-> <<>>, read |-> 0, up |-> FALSE,
              err |-> FALSE, app |-> <<>>, pending |-> FALSE, out |-> <<>>, made |-> 0,
              reqID |-> 0, lastReq |-> None, lastResp |-> NoRequest, name |-> None,
              lastUsed |-> 0, early |-> FALSE]

HandRecord == [pc: {"idle", "step", "auth"}, c: Client \cup {None}, s: Sess \cup {None},
               p: Packet \cup {None}, deadline: Nat]
ClientRecord == [pc: {"idle", "await", "accepted", "rejected", "broken"},
                 wants: {"peap", "ttls", "other"}, cur: Packet \cup {None},
                 state: Sess \cup {None}, lastId: Id \cup {None}, got: Nat, sent: Nat,
                 rest: Seq(Message)]

\* Every record has its type, the identifiers stay bytes and the store never
\* holds more sessions than its cap.
TypeOK ==
    /\ sess \in [Sess -> SessRecord]
    /\ hand \in [Handler -> HandRecord]
    /\ cl \in [Client -> ClientRecord]
    /\ net \in [Client -> SUBSET Packet]
    /\ ans \in [Client -> Seq(Reply)]
    /\ now \in Nat
    /\ verdict \in [Client -> {"none", "yes", "no", "full"}]
    /\ Cardinality({s \in Sess : sess[s].st = "live"}) <= Cap

Init ==
    /\ sess = [s \in Sess |-> NoSession]
    /\ hand = [h \in Handler |-> [pc |-> "idle", c |-> None, s |-> None, p |-> None, deadline |-> 0]]
    /\ cl \in [Client -> {[pc |-> "idle", wants |-> w, cur |-> None, state |-> None,
                           lastId |-> None, got |-> 0, sent |-> 0, rest |-> <<>>] : w \in Method}]
    /\ net = [c \in Client |-> {}]
    /\ ans = [c \in Client |-> <<>>]
    /\ now = 0
    /\ spent = [dups |-> 0, late |-> 0, loss |-> 0]
    /\ verdict = [c \in Client |-> "none"]
    /\ proven = {}
    /\ disturbed = {}

-----------------------------------------------------------------------------
(* The store.                                                              *)

Stored == {s \in Sess : sess[s].st = "live"}

\* cleanupLocked: every look-up forgets the sessions idle for longer than TTL.
Overdue(s) == sess[s].lastUsed + TTL < now
Swept == [s \in Sess |-> IF s \in Stored /\ Overdue(s) THEN [sess[s] EXCEPT !.st = "gone"] ELSE sess[s]]
Kept == {s \in Stored : ~Overdue(s)}

AnyVictim(s) == TRUE    \* mistake: a working session is thrown out too
Victim(s) == sess[s].lastUsed + EvictIdle <= now
Oldest(ss) == {s \in ss : \A t \in ss : sess[s].lastUsed <= sess[t].lastUsed}

\* The sessions create may throw out: the longest idle one, and at the cap only.
Victims == Oldest({s \in Kept : Victim(s)})

-----------------------------------------------------------------------------
(* The stream to the supplicant and the TLS engine.                        *)

\* pushOutQueue: the certificate flight does not fit one fragment.
Fragments(said) ==
    IF said = "flight" THEN [i \in 1..Pieces |-> IF i = Pieces THEN "flight" ELSE "more"]
    ELSE <<said>>

PushOut(r, said) ==
    LET f == Fragments(said) IN
    [r EXCEPT !.out = @ \o [i \in 1..Len(f) |-> [no |-> r.made + i, said |-> f[i]]],
              !.made = @ + Len(f)]

\* popOrAck: the next fragment, or an empty request that says "go on".
PopOrAck(r) ==
    IF r.out = <<>>
      THEN [NoRequest EXCEPT !.id = r.reqID, !.proto = r.proto]
      ELSE [id |-> r.reqID, kind |-> "data", proto |-> r.proto,
            no |-> Head(r.out).no, said |-> Head(r.out).said]

AfterPop(r) ==
    [r EXCEPT !.out = IF @ = <<>> THEN <<>> ELSE Tail(@),
              !.reqID = NextId(@),
              !.lastResp = PopOrAck(r)]

\* runTLS works through one message.  Its records are numbered: one that
\* comes twice or out of its place is an error, and so is one on a closed
\* bridge.
Work(r, m) ==
    IF r.err \/ m.n # r.read + 1 THEN [r EXCEPT !.err = TRUE]
    ELSE LET r1 == [r EXCEPT !.read = m.n] IN
         IF m.word = "hello" THEN PushOut(r1, "flight")
         ELSE IF m.word = "finish" THEN [PushOut(r1, "finish") EXCEPT !.up = TRUE]
         ELSE [r1 EXCEPT !.app = Append(@, m.word)]

Worked(r) ==
    LET after[i \in 0..Len(r.input)] == IF i = 0 THEN r ELSE Work(after[i - 1], r.input[i])
    IN  [after[Len(r.input)] EXCEPT !.input = <<>>]
Fed(r, m) == [r EXCEPT !.input = Append(@, m)]

\* Early: the engine announces that it wants input (wantIn) between the look
\* into its empty buffer and the announcement itself; a message delivered in
\* between is taken for one it has already worked through.
MayBeEarly(r) == ~r.early /\ Cardinality({s \in Sess : sess[s].early}) < MaxEarly

\* What waitHandshakeStep and waitAppData may return with.
Waited(r) ==
    {Worked(r)} \cup (IF MayBeEarly(r) THEN {[r EXCEPT !.early = TRUE]} ELSE {})
                \cup (IF r.st = "gone" THEN {[r EXCEPT !.err = TRUE]} ELSE {})

-----------------------------------------------------------------------------
(* Answers.                                                                *)

Say(h, code, s, req, name) ==
    ans' = [ans EXCEPT ![hand[h].c] =
              Append(@, [code |-> code, to |-> hand[h].p, state |-> s, req |-> req, name |-> name])]

Done(h) == hand' = [hand EXCEPT ![h] = [pc |-> "idle", c |-> None, s |-> None, p |-> None, deadline |-> 0]]

\* rejectEAP: no session is touched.
Reject(h) == Say(h, "reject", None, NoRequest, None) /\ Done(h)

Without(s, r) == [sess EXCEPT ![s] = [r EXCEPT !.st = "gone"]]

\* failEAP.
Fail(h, r) == Reject(h) /\ sess' = Without(hand[h].s, r)

\* pumpPEAP and pumpTTLS with sendEAP, which keeps what it sent.
Pump(h, r) ==
    /\ sess' = [sess EXCEPT ![hand[h].s] = AfterPop(r)]
    /\ Say(h, "challenge", hand[h].s, PopOrAck(r), None)
    /\ Done(h)

\* An Access-Accept; its reply attributes are those of `name`.
Admit(h, r, name) ==
    /\ Say(h, "accept", None, NoRequest, name)
    /\ sess' = Without(hand[h].s, r)
    /\ Done(h)

-----------------------------------------------------------------------------
(* The handler of a packet (handleEAPAuth).                                *)

envVars == <<cl, net, now, spent, disturbed>>
historyVars == <<verdict, proven>>

\* A packet reaches its handler, which looks its State up: the sweep, then
\* lastUsed.  The copy may stay in the network: a duplicate, or the access
\* point's retransmission under a new RADIUS identifier (with the same one
\* the packet server drops it while the first is in work).
Deliver(h, c, p, keep) ==
    /\ hand[h].pc = "idle"
    /\ p \in net[c]
    /\ keep => spent.dups < MaxDups
    /\ p # cl[c].cur => spent.late < MaxLate
    /\ net' = [net EXCEPT ![c] = IF keep THEN @ ELSE @ \ {p}]
    /\ spent' = [spent EXCEPT !.dups = IF keep THEN @ + 1 ELSE @,
                              !.late = IF p # cl[c].cur THEN @ + 1 ELSE @]
    /\ disturbed' = IF p # cl[c].cur THEN disturbed \cup {c} ELSE disturbed
    /\ LET s == IF p.state \in Kept THEN p.state ELSE None IN
       /\ hand' = [hand EXCEPT ![h] = [pc |-> "step", c |-> c, s |-> s, p |-> p, deadline |-> 0]]
       /\ sess' = IF p.state = None THEN sess
                  ELSE IF s = None THEN Swept
                  ELSE [Swept EXCEPT ![s].lastUsed = now]
    /\ UNCHANGED <<cl, ans, now, verdict, proven>>

NeverSame(h) == FALSE   \* mistake: a repeated packet is a new one
\* The same EAP packet as the last one of the session.
SamePacket(h) == hand[h].s # None /\ sess[hand[h].s].lastReq = hand[h].p

\* A retransmission gets the last answer again, whatever that answered.
SendAgain(h) ==
    /\ hand[h].pc = "step" /\ SamePacket(h)
    /\ Say(h, "challenge", hand[h].s, sess[hand[h].s].lastResp, None)
    /\ Done(h)
    /\ UNCHANGED <<sess, envVars, historyVars>>

NewPacket(h, type) ==
    /\ hand[h].pc = "step"
    /\ ~SamePacket(h)
    /\ hand[h].p.type = type

\* A session for an Identity; at the cap one that idles makes room, or the
\* supplicant is refused.
Identity(h) ==
    /\ NewPacket(h, "identity")
    /\ LET full == Cardinality(Kept) >= Cap
           start == [id |-> NextId(hand[h].p.id), kind |-> "start", proto |-> "peap",
                     no |-> 0, said |-> "more"]
       IN \/ /\ full /\ Victims = {}
             /\ sess' = Swept
             /\ Reject(h)
             /\ verdict' = [verdict EXCEPT ![hand[h].c] = IF @ = "none" THEN "full" ELSE @]
          \/ \E s \in {x \in Sess : sess[x].st = "absent"} :
             \E gone \in (IF full THEN {{v} : v \in Victims} ELSE {{}}) :
               /\ sess' = [x \in Sess |->
                    IF x = s
                      THEN [NoSession EXCEPT !.st = "live", !.owner = hand[h].c,
                              !.reqID = NextId(NextId(hand[h].p.id)), !.name = Anon,
                              !.lastReq = hand[h].p, !.lastResp = start, !.lastUsed = now]
                    ELSE IF x \in gone THEN [sess[x] EXCEPT !.st = "gone"] ELSE Swept[x]]
               /\ Say(h, "challenge", s, start, None)
               /\ Done(h)
               /\ UNCHANGED verdict
    /\ UNCHANGED <<envVars, proven>>

\* The supplicant refuses PEAP: TTLS if it asks for it.
Nak(h) ==
    /\ NewPacket(h, "nak")
    /\ LET s == hand[h].s
           start == [id |-> NextId(hand[h].p.id), kind |-> "start", proto |-> "ttls",
                     no |-> 0, said |-> "more"]
       IN IF s # None /\ sess[s].proto = "peap" /\ hand[h].p.wants = "ttls"
            THEN /\ sess' = [sess EXCEPT ![s].proto = "ttls", ![s].lastReq = hand[h].p,
                                         ![s].reqID = NextId(NextId(hand[h].p.id)),
                                         ![s].lastResp = start]
                 /\ Say(h, "challenge", s, start, None)
                 /\ Done(h)
                 /\ UNCHANGED verdict
            ELSE /\ Reject(h)
                 /\ verdict' = [verdict EXCEPT ![hand[h].c] = IF @ = "none" THEN "no" ELSE @]
                 /\ UNCHANGED sess
    /\ UNCHANGED <<envVars, proven>>

Tunnelled(h) == NewPacket(h, "peap") \/ NewPacket(h, "ttls")

\* Data without a session: its State was never drawn, has idled out, or the
\* exchange is over.
NoSuchSession(h) ==
    /\ Tunnelled(h) /\ hand[h].s = None
    /\ Reject(h)
    /\ UNCHANGED <<sess, envVars, historyVars>>

\* The session at the beginning of a step, the packet remembered before
\* anything is answered.
Begun(h) == [sess[hand[h].s] EXCEPT !.lastReq = hand[h].p]
Body(h) == hand[h].p.body

\* Assembler.Add: what follows is all of a message, an acknowledgement, or
\* does not fit what has been collected.
Fits(buf, m) ==
    IF m.part = "last" THEN buf = <<[m EXCEPT !.part = "first"]>> ELSE buf = <<>>

InTunnel(h) == Tunnelled(h) /\ hand[h].s # None
Complete(h) == InTunnel(h) /\ Body(h).part # "first" /\ Fits(sess[hand[h].s].buf, Body(h))
Phase(h) == sess[hand[h].s].phase

\* A piece of a message: the server asks for the next one.
Collect(h) ==
    /\ InTunnel(h) /\ Body(h).part = "first"
    /\ LET r == Begun(h) IN Pump(h, [r EXCEPT !.buf = Append(@, Body(h))])
    /\ UNCHANGED <<envVars, historyVars>>

Misfit(h) ==
    /\ InTunnel(h) /\ Body(h).part # "first" /\ ~Fits(sess[hand[h].s].buf, Body(h))
    /\ Fail(h, Begun(h))
    /\ UNCHANGED <<envVars, historyVars>>

\* Phase 1.  An acknowledgement moves the outgoing queue only; a message is
\* given to the TLS engine.  PEAP then waits for the supplicant's word that it
\* has seen the server's Finished, TTLS for its attributes.
Handshake(h) ==
    /\ Complete(h) /\ Phase(h) = "handshake"
    /\ LET r == [Begun(h) EXCEPT !.buf = <<>>]
           next == IF r.proto = "peap" THEN "done" ELSE "inner"
       IN IF Body(h) = Empty THEN Pump(h, r)
          ELSE IF r.up THEN Pump(h, [Fed(r, Body(h)) EXCEPT !.phase = next])
          ELSE \E w \in Waited(Fed(r, Body(h))) :
                 IF w.err THEN Fail(h, w)
                 ELSE Pump(h, IF w.up THEN [w EXCEPT !.phase = next] ELSE w)
    /\ UNCHANGED <<envVars, historyVars>>

\* PEAP: the supplicant has acknowledged, the server asks first.
FirstQuestion(h) ==
    /\ Complete(h) /\ Phase(h) = "done"
    /\ LET r == [Begun(h) EXCEPT !.buf = <<>>, !.phase = "inner", !.inner = "challenge"]
       IN Pump(h, PushOut(IF Body(h) = Empty THEN r ELSE Fed(r, Body(h)), "chal"))
    /\ UNCHANGED <<envVars, historyVars>>

ForgetApp(r) == <<>>    \* mistake: what was deciphered between two steps is left there
\* An acknowledgement takes what the engine deciphered since.
TakeApp(r) == r.app

\* Phase 2: the session with the payload worked through, and what it said.
Heard(h) ==
    LET r == [Begun(h) EXCEPT !.buf = <<>>] IN
    IF Body(h) = Empty
      THEN {[r |-> [r EXCEPT !.app = <<>>], said |-> TakeApp(r)]}
      ELSE {[r |-> [w EXCEPT !.app = <<>>], said |-> w.app] : w \in Waited(Fed(r, Body(h)))}

Inner(h, x) == Complete(h) /\ Phase(h) = "inner" /\ x \in Heard(h)
Broke(h, x) == Body(h) # Empty /\ x.r.err
Asked(h, x, proto, words) ==
    /\ Inner(h, x) /\ ~Broke(h, x) /\ x.said # <<>>
    /\ hand[h].p.type = proto /\ Last(x.said) \in words

\* Nothing was said, or nothing that is complete: half of the attributes is
\* kept for what follows.
Listen(h, x) ==
    /\ Inner(h, x)
    /\ \/ Broke(h, x) /\ Fail(h, x.r)
       \/ ~Broke(h, x) /\ x.said = <<>> /\ Pump(h, x.r)
       \/ Asked(h, x, "ttls", {"half"}) /\ Pump(h, [x.r EXCEPT !.pending = TRUE])
    /\ UNCHANGED <<envVars, historyVars>>

-----------------------------------------------------------------------------
(* The inner authentication.                                               *)

\* The mutex is released and the handler waits for Core.RADIUSAuth.
WaitFor(h, r) ==
    /\ sess' = [sess EXCEPT ![hand[h].s] = r]
    /\ hand' = [hand EXCEPT ![h].pc = "auth", ![h].deadline = now + PushWait]
    /\ UNCHANGED ans

\* Inner Success: the session now expects the supplicant's acknowledgement.
Succeed(h, r) == Pump(h, PushOut([r EXCEPT !.inner = "success"], "success"))

SucceedAnyway(h, r) == Pump(h, PushOut([r EXCEPT !.inner = "success"], "fail"))  \* mistake: the wrong state
\* failMSCHAPv2: a Failure inside the tunnel; the next packet ends the exchange.
FailMSCHAPv2(h, r) == Pump(h, PushOut([r EXCEPT !.inner = "failed"], "fail"))

Judge(c, yes) == verdict' = [verdict EXCEPT ![c] = IF yes THEN "yes" ELSE "no"]
Prove(h, yes) == proven' = IF yes THEN proven \cup {<<hand[h].s, hand[h].c>>} ELSE proven

\* PAP inside TTLS always goes through Core.RADIUSAuth.
InnerPAP(h, x) ==
    /\ Asked(h, x, "ttls", {"pap"})
    /\ WaitFor(h, [x.r EXCEPT !.pending = FALSE])
    /\ UNCHANGED <<envVars, historyVars>>

\* PEAP: a name inside the tunnel replaces the outer one and is asked again.
InnerIdentity(h, x) ==
    /\ Asked(h, x, "peap", {"identity"})
    /\ x.r.inner = "challenge"
    /\ Pump(h, PushOut([x.r EXCEPT !.name = hand[h].c], "chal"))
    /\ UNCHANGED <<envVars, historyVars>>

\* The MS-CHAPv2 Response: refused (no such user, disabled, locked, a wrong
\* password, a spent code), admitted at once (a code, a trusted device, no push
\* configured), or a push is waited for.
InnerResponse(h, x) ==
    /\ Asked(h, x, "peap", {"resp"})
    /\ x.r.inner = "challenge"
    /\ LET r == [x.r EXCEPT !.name = hand[h].c] IN
       \/ FailMSCHAPv2(h, r) /\ Judge(hand[h].c, FALSE) /\ Prove(h, FALSE)
       \/ Succeed(h, r) /\ Judge(hand[h].c, TRUE) /\ Prove(h, TRUE)
       \/ WaitFor(h, r) /\ UNCHANGED historyVars
    /\ UNCHANGED envVars

\* RADIUSAuth has returned; the mutex is taken again and the step goes on
\* with the session as it is now, a forgotten one included.
Resume(h, yes) ==
    /\ hand[h].pc = "auth"
    /\ LET r == sess[hand[h].s] IN
       IF hand[h].p.type = "ttls"
         THEN IF yes THEN Admit(h, r, hand[h].c) ELSE Fail(h, r)
         ELSE IF yes THEN Succeed(h, r) ELSE FailMSCHAPv2(h, r)
    /\ Judge(hand[h].c, yes) /\ Prove(h, yes)
    /\ UNCHANGED envVars

\* After Success: the supplicant acknowledges, or sends its Result TLV at once.
AfterSuccess(h, x) ==
    /\ Asked(h, x, "peap", Word)
    /\ x.r.inner = "success"
    /\ IF Last(x.said) = "tlv"
         THEN Admit(h, x.r, x.r.name)
         ELSE Pump(h, PushOut([x.r EXCEPT !.inner = "tlv"], "tlv"))
    /\ UNCHANGED <<envVars, historyVars>>

\* finishPEAP.
AfterTLV(h, x) ==
    /\ Asked(h, x, "peap", Word)
    /\ x.r.inner = "tlv"
    /\ Admit(h, x.r, x.r.name)
    /\ UNCHANGED <<envVars, historyVars>>

AfterFailure(h, x) ==
    /\ Asked(h, x, "peap", Word)
    /\ x.r.inner = "failed"
    /\ Fail(h, x.r)
    /\ UNCHANGED <<envVars, historyVars>>

\* The TLS engine catches up after an early return.
Engine(s) ==
    /\ sess[s].st = "live" /\ sess[s].input # <<>>
    /\ sess' = [sess EXCEPT ![s] = Worked(sess[s])]
    /\ UNCHANGED <<hand, ans, envVars, historyVars>>

-----------------------------------------------------------------------------
(* The supplicant and its access point.                                    *)

serverVars == <<sess, hand, now, verdict, proven>>

\* The access point sends the supplicant's answer under the State it was
\* asked with.
Put(c, p, upd) ==
    /\ cl' = [cl EXCEPT ![c] = [upd EXCEPT !.cur = p]]
    /\ net' = [net EXCEPT ![c] = (IF spent.late < MaxLate THEN @ ELSE {}) \cup {p}]

Start(c) ==
    /\ cl[c].pc = "idle" /\ now < Horizon
    /\ Put(c, [state |-> None, id |-> 0, type |-> "identity", body |-> Empty, wants |-> cl[c].wants],
           [cl[c] EXCEPT !.pc = "await"])
    /\ UNCHANGED <<serverVars, ans, spent, disturbed>>

\* What a supplicant says to a request it has not seen: the pieces of the
\* messages it sends now and when it is asked to go on.
Whole(c, word) == [n |-> cl[c].sent + 1, word |-> word, part |-> "whole"]
Next2(c, w1, w2) == <<Whole(c, w1), [Whole(c, w2) EXCEPT !.n = @ + 1]>>
Replies(c, said) ==
    CASE said = "more" -> {<<>>}
      [] said = "flight" -> {<<Whole(c, "finish")>>,
                             <<[Whole(c, "finish") EXCEPT !.part = "first"],
                               [Whole(c, "finish") EXCEPT !.part = "last"]>>}
      [] said = "finish" -> IF cl[c].wants = "ttls"
                              THEN {<<Whole(c, "pap")>>, Next2(c, "half", "pap")}
                              ELSE {<<>>}
      [] said = "chal" -> {<<Whole(c, "resp")>>} \cup
                          (IF cl[c].sent = 2 THEN {<<Whole(c, "identity")>>} ELSE {})
      [] said = "success" -> {<<Whole(c, "ok")>>, <<Whole(c, "tlv")>>}
      [] said = "tlv" -> {<<Whole(c, "tlv")>>}
      [] said = "fail" -> {<<Whole(c, "failack")>>}

Words(c, req) ==
    CASE req.kind = "ack" -> {cl[c].rest}
      [] req.kind = "start" -> {<<Whole(c, "hello")>>}
      [] req.kind = "data" -> Replies(c, req.said)

\* The first answer to the packet outstanding counts; a request with the
\* identifier of the last one is a repetition.  A copy of the packet that a
\* handler has not begun with is late from here on.
Hear(c) ==
    /\ ans[c] # <<>>
    /\ LET held == \E h \in Handler : hand[h].c = c /\ hand[h].pc = "step" IN
       /\ held => spent.late < MaxLate
       /\ spent' = [spent EXCEPT !.late = IF held THEN @ + 1 ELSE @]
       /\ disturbed' = IF held THEN disturbed \cup {c} ELSE disturbed
    /\ ans' = [ans EXCEPT ![c] = Tail(@)]
    /\ LET a == Head(ans[c])
           req == a.req
           mine == cl[c].pc = "await" /\ a.to = cl[c].cur
           say(type, body, upd) ==
               Put(c, [state |-> a.state, id |-> req.id, type |-> type, body |-> body,
                       wants |-> cl[c].wants],
                   [upd EXCEPT !.state = a.state, !.lastId = req.id])
       IN \/ /\ ~mine \/ (a.code = "challenge" /\ req.id = cl[c].lastId)
             /\ UNCHANGED <<cl, net>>
          \/ /\ mine /\ a.code # "challenge"
             /\ cl' = [cl EXCEPT ![c].pc = IF a.code = "accept" THEN "accepted" ELSE "rejected"]
             /\ UNCHANGED net
          \/ /\ mine /\ a.code = "challenge" /\ req.id # cl[c].lastId
             /\ \/ /\ req.kind = "start" /\ req.proto # cl[c].wants
                   /\ say("nak", Empty, cl[c])
                \/ /\ req.kind = "data" /\ req.no # cl[c].got + 1  \* a hole in the stream
                   /\ cl' = [cl EXCEPT ![c].pc = "broken"]
                   /\ UNCHANGED net
                \/ /\ req.kind = "start" => req.proto = cl[c].wants
                   /\ req.kind = "data" => req.no = cl[c].got + 1
                   /\ \E w \in Words(c, req) :
                        say(cl[c].wants, IF w = <<>> THEN Empty ELSE Head(w),
                            [cl[c] EXCEPT !.got = IF req.kind = "data" THEN @ + 1 ELSE @,
                                          !.sent = IF w # <<>> /\ Head(w).part # "first"
                                                     THEN Head(w).n ELSE @,
                                          !.rest = IF w = <<>> THEN <<>> ELSE Tail(w)])
    /\ UNCHANGED serverVars

\* No answer in time: the access point sends the packet again.
Retransmit(c) ==
    /\ cl[c].pc = "await"
    /\ cl[c].cur \notin net[c] /\ ans[c] = <<>>
    /\ \A h \in Handler : hand[h].c = c => hand[h].p # cl[c].cur
    /\ net' = [net EXCEPT ![c] = @ \cup {cl[c].cur}]
    /\ UNCHANGED <<serverVars, cl, ans, spent, disturbed>>

\* The network loses a packet or an answer; a lost verdict is a disturbance.
LoseRequest(c, p) ==
    /\ spent.loss < MaxLoss
    /\ p \in net[c] /\ p = cl[c].cur
    /\ net' = [net EXCEPT ![c] = @ \ {p}]
    /\ spent' = [spent EXCEPT !.loss = @ + 1]
    /\ UNCHANGED <<serverVars, cl, ans, disturbed>>

LoseAnswer(c) ==
    /\ spent.loss < MaxLoss
    /\ ans[c] # <<>>
    /\ ans' = [ans EXCEPT ![c] = Tail(@)]
    /\ spent' = [spent EXCEPT !.loss = @ + 1]
    /\ disturbed' = IF Head(ans[c]).code = "challenge" THEN disturbed ELSE disturbed \cup {c}
    /\ UNCHANGED <<serverVars, cl, net>>

\* Time passes in steps that are long beside the work of a handler, and for a
\* handler that waits up to its deadline.  A client that
\* lets its session (or one it is about to hear of) idle for EvictIdle while
\* no handler waits for it is disturbed by its own delay.
Offered(c) == ({cl[c].state} \cup {ans[c][i].state : i \in 1..Len(ans[c])}) \ {None}

Tick ==
    /\ now < Horizon
    /\ \A h \in Handler : hand[h].pc # "step" /\ (hand[h].pc = "auth" => now < hand[h].deadline)
    /\ now' = now + 1
    /\ disturbed' = disturbed \cup
         {c \in Client : /\ \E s \in Offered(c) : sess[s].lastUsed + EvictIdle <= now + 1
                         /\ \A h \in Handler : hand[h].c = c => hand[h].pc # "auth"}
    /\ UNCHANGED <<sess, hand, cl, net, ans, spent, verdict, proven>>

-----------------------------------------------------------------------------

HandlerStep(h) ==
    \/ SendAgain(h) \/ Identity(h) \/ Nak(h) \/ NoSuchSession(h) \/ Collect(h) \/ Misfit(h)
    \/ Handshake(h) \/ FirstQuestion(h)
    \/ \E x \in (IF Complete(h) THEN Heard(h) ELSE {}) :
         \/ Listen(h, x) \/ InnerPAP(h, x) \/ InnerIdentity(h, x) \/ InnerResponse(h, x)
         \/ AfterSuccess(h, x) \/ AfterTLV(h, x) \/ AfterFailure(h, x)
    \/ \E yes \in BOOLEAN : Resume(h, yes)

Next ==
    \/ \E h \in Handler : HandlerStep(h)
    \/ \E h \in Handler, c \in Client, keep \in BOOLEAN : \E p \in net[c] : Deliver(h, c, p, keep)
    \/ \E s \in Sess : Engine(s)
    \/ \E c \in Client : Start(c) \/ Hear(c) \/ Retransmit(c) \/ LoseAnswer(c)
    \/ \E c \in Client : \E p \in net[c] : LoseRequest(c, p)
    \/ Tick

Spec == Init /\ [][Next]_vars

\* The scheduler runs handlers and engines, RADIUSAuth returns (PushLogin's
\* RequestAnswered), the network delivers what is not lost, the access point
\* and the supplicant go on.
Fairness ==
    /\ WF_vars(\E h \in Handler : HandlerStep(h))
    /\ WF_vars(\E s \in Sess : Engine(s))
    /\ \A c \in Client :
         /\ WF_vars(\E h \in Handler : \E p \in net[c] \cap {cl[c].cur} : Deliver(h, c, p, FALSE))
         /\ WF_vars(Hear(c))
         /\ WF_vars(Retransmit(c))

FairSpec == Spec /\ Fairness

-----------------------------------------------------------------------------
(* Properties.                                                             *)

\* An Access-Accept rests on the session's own inner authentication and
\* carries the attributes of the user it authenticated, although the name of
\* a PEAP session is a field that several packets write and the mutex is
\* released between the Response and the verdict (handlePEAPInner,
\* finishPEAP).
AcceptIsEarned ==
    \A c \in Client : \A i \in 1..Len(ans[c]) :
        LET a == ans[c][i] IN
        a.code = "accept" => /\ <<a.to.state, a.name>> \in proven
                             /\ a.name = c

\* Repeated packets, lost challenges, a push that takes its time, a full store
\* and an engine that announces itself early break no exchange: a client the
\* environment spared fails only by the verdict on its user, or because the
\* store was full of working sessions (handleEAPAuth's retransmissions,
\* Assembler.Add, create's eviction).
SparedClientGetsVerdict ==
    \A c \in Client \ disturbed :
        /\ cl[c].pc # "broken"
        /\ cl[c].pc = "rejected" => verdict[c] \in {"no", "full"}

\* Every exchange ends: TTLS whatever is lost, repeated or late, PEAP for a
\* client the environment spared and an engine that was never early (without
\* either, server and supplicant may ask each other to go on for ever, see
\* README; handlePEAP, handleTTLS, pumpPEAP: "guarantees progress").
ExchangeEnds ==
    \A c \in Client :
        cl[c].pc = "await" ~>
            \/ cl[c].pc # "await"
            \/ /\ cl[c].wants = "peap"
               /\ c \in disturbed \/ \E s \in Sess : sess[s].owner = c /\ sess[s].early
=============================================================================

------------------------------- MODULE AppHub -------------------------------
(* The push hub (delivery.AppHub): sockets and event streams registered at a *)
(* user or at a support session, broadcasts under the read lock of one       *)
(* RWMutex, registration and removal under its write lock, and of each       *)
(* socket a writer goroutine with a bounded queue and a reader.              *)
EXTENDS Integers, FiniteSets

CONSTANTS Socket, Stream,           \* WebSockets; SSE channels
          Place,                    \* users, and sessions watched by operators
          Sender,                   \* goroutines that broadcast
          QueueCap,                 \* wsSendQueueSize, and 16 of a stream
          Nowhere

VARIABLES link,         \* of each socket and stream
          sender,
          pending       \* goroutines that want the write lock, with what they want it for

hubVars == <<link, sender, pending>>

Link == Socket \cup Stream

\* place: where it is registered; open: the connection; reader: the handler.
NoLink == [place |-> Nowhere, open |-> TRUE, done |-> FALSE, queue |-> 0, writer |-> "none",
           reader |-> "none"]
NoSender == [pc |-> "idle", place |-> Nowhere, streams |-> FALSE, todo |-> {}]

HubInit ==
    /\ link = [x \in Link |-> NoLink]
    /\ sender = [s \in Sender |-> NoSender]
    /\ pending = {}

Holds(s) == sender[s].pc = "holds"

-----------------------------------------------------------------------------
(* The write lock: registration and removal.                                 *)

\* handleWS, handleSSE and the operator's socket, once upgraded.
Upgrade(x, p) ==
    /\ link[x] = NoLink
    /\ link' = [link EXCEPT ![x].reader = "joins"]
    /\ pending' = pending \cup {[what |-> "register", link |-> x, place |-> p, by |-> x]}
    /\ UNCHANGED sender

\* A removal of x: by its reader, or by a goroutine that the hub starts for it and
\* does not wait for.
Removal(x, by) == [what |-> "unregister", link |-> x, place |-> Nowhere, by |-> by]

Registered(old, op) ==
    [old EXCEPT !.place = op.place, !.reader = "reads",
                !.writer = IF op.link \in Socket THEN "runs" ELSE "none"]

\* Unregister: the socket is closed whether or not it was still registered, and
\* shutdown tells the writer.
ShutInSilence(old) == [old EXCEPT !.open = FALSE]        \* mistake: the writer is not told
Shut(old) == [old EXCEPT !.open = FALSE, !.done = TRUE]

Unregistered(old, op) ==
    LET new == IF old.place # Nowhere THEN [Shut(old) EXCEPT !.place = Nowhere]
               ELSE [old EXCEPT !.open = FALSE]
    IN IF op.by = op.link THEN [new EXCEPT !.reader = "ended"] ELSE new

\* The set a broadcast goes through: the streams are sent prompts only.
Reached(links, s) == {x \in Link : /\ links[x].place = sender[s].place
                                   /\ x \in Stream => sender[s].streams}

Locked4Read(links, s) == [sender[s] EXCEPT !.pc = "holds", !.todo = Reached(links, s)]

\* The writer runs alone; as it leaves, every reader that has waited comes in.
WithWriteLock(op) ==
    LET x == op.link
        after == [link EXCEPT ![x] = IF op.what = "register" THEN Registered(@, op)
                                     ELSE Unregistered(@, op)]
    IN /\ op \in pending /\ \A s \in Sender : ~Holds(s)
       /\ link' = after
       /\ pending' = pending \ {op}
       /\ sender' = [s \in Sender |-> IF sender[s].pc = "waits" THEN Locked4Read(after, s) ELSE sender[s]]

-----------------------------------------------------------------------------
(* Broadcasts, under the read lock.                                          *)

\* A writer that waits holds up new readers.
Broadcast(s, p, streams) ==
    /\ sender[s].pc = "idle"
    /\ sender' = [sender EXCEPT ![s] = [NoSender EXCEPT !.pc = "waits", !.place = p, !.streams = streams]]
    /\ UNCHANGED <<link, pending>>

ReadLock(s) ==
    /\ sender[s].pc = "waits" /\ pending = {}
    /\ sender' = [sender EXCEPT ![s] = Locked4Read(link, s)]
    /\ UNCHANGED <<link, pending>>

Next1(s, x) == sender' = [sender EXCEPT ![s].todo = @ \ {x}]

Enqueue(s, x) ==
    /\ Holds(s) /\ x \in sender[s].todo /\ link[x].queue < QueueCap
    /\ link' = [link EXCEPT ![x].queue = @ + 1]
    /\ Next1(s, x)
    /\ UNCHANGED pending

\* mistake: the broadcast waits for the removal, which waits for its lock.
OverflowWaits(s, x) ==
    /\ Holds(s) /\ x \in sender[s].todo \cap Socket /\ link[x].queue = QueueCap
    /\ link' = [link EXCEPT ![x] = Shut(@)]
    /\ pending' = pending \cup {Removal(x, "hub")}
    /\ UNCHANGED sender

\* tryEnqueue of a full queue: the socket is shut, its removal is started.
Overflow(s, x) ==
    /\ Holds(s) /\ x \in sender[s].todo \cap Socket /\ link[x].queue = QueueCap
    /\ link' = [link EXCEPT ![x] = Shut(@)]
    /\ pending' = pending \cup {Removal(x, "hub")}
    /\ Next1(s, x)

\* A stream that is full misses the message.
Missed(s, x) ==
    /\ Holds(s) /\ x \in sender[s].todo \cap Stream /\ link[x].queue = QueueCap
    /\ Next1(s, x)
    /\ UNCHANGED <<link, pending>>

ReadUnlock(s) ==
    /\ Holds(s) /\ sender[s].todo = {}
    /\ sender' = [sender EXCEPT ![s] = NoSender]
    /\ UNCHANGED <<link, pending>>

-----------------------------------------------------------------------------
(* The goroutines of one connection.                                         *)

\* serveWSWriter: when both cases of its select are ready either is taken.
Writes(x) ==
    /\ link[x].writer = "runs" /\ link[x].queue > 0 /\ link[x].open
    /\ link' = [link EXCEPT ![x].queue = @ - 1]
    /\ UNCHANGED <<sender, pending>>

WriteFails(x) ==
    /\ link[x].writer = "runs" /\ link[x].queue > 0
    /\ link' = [link EXCEPT ![x] = [Shut(@) EXCEPT !.queue = @ - 1, !.writer = "stopped"]]
    /\ pending' = pending \cup {Removal(x, "hub")}
    /\ UNCHANGED sender

WriterDone(x) ==
    /\ link[x].writer = "runs" /\ link[x].done
    /\ link' = [link EXCEPT ![x].writer = "stopped"]
    /\ UNCHANGED <<sender, pending>>

\* The handler of a stream writes what is queued.
StreamWrites(x) ==
    /\ x \in Stream /\ link[x].reader = "reads" /\ link[x].queue > 0
    /\ link' = [link EXCEPT ![x].queue = @ - 1]
    /\ UNCHANGED <<sender, pending>>

\* The peer leaves, or the watchdog of an operator's socket finds the session over.
Hangup(x) ==
    /\ link[x].reader = "reads" /\ link[x].open
    /\ link' = [link EXCEPT ![x].open = FALSE]
    /\ UNCHANGED <<sender, pending>>

\* ReadMessage fails (the request's context ends) and the deferred removal runs.
ReaderLeaves(x) ==
    /\ link[x].reader = "reads" /\ ~link[x].open
    /\ link' = [link EXCEPT ![x].reader = "leaves"]
    /\ pending' = pending \cup {Removal(x, x)}
    /\ UNCHANGED sender

Ended(x) ==
    /\ link[x].place = Nowhere /\ link[x].writer # "runs" /\ link[x].reader = "ended"
    /\ ~link[x].open
    /\ \A op \in pending : op.link # x

\* The name is used for another connection.
Reused(x) ==
    /\ Ended(x)
    /\ link' = [link EXCEPT ![x] = NoLink]
    /\ UNCHANGED <<sender, pending>>

HubNext ==
    \/ \E x \in Link :
          \/ \E p \in Place : Upgrade(x, p)
          \/ Writes(x) \/ WriteFails(x) \/ WriterDone(x) \/ StreamWrites(x)
          \/ Hangup(x) \/ ReaderLeaves(x) \/ Reused(x)
    \/ \E op \in pending : WithWriteLock(op)
    \/ \E s \in Sender :
          \/ \E p \in Place, streams \in BOOLEAN : Broadcast(s, p, streams)
          \/ ReadLock(s) \/ ReadUnlock(s)
          \/ \E x \in Link : Enqueue(s, x) \/ Overflow(s, x) \/ Missed(s, x)

\* Goroutines run on, a write ends by its deadline; sync.Mutex hands itself over
\* to who has waited longest, so that no goroutine waits for ever among others.
HubFairness ==
    /\ \A s \in Sender :
          /\ WF_hubVars(ReadLock(s))
          /\ WF_hubVars(ReadUnlock(s) \/ \E x \in Link : Enqueue(s, x) \/ Overflow(s, x) \/ Missed(s, x))
    /\ \A x \in Link :
          /\ WF_hubVars(Writes(x) \/ WriteFails(x) \/ WriterDone(x))
          /\ WF_hubVars(ReaderLeaves(x))
          /\ SF_hubVars(\E op \in pending : op.link = x /\ op.by = x /\ WithWriteLock(op))
          /\ SF_hubVars(\E op \in pending : op.link = x /\ op.by # x /\ WithWriteLock(op))

-----------------------------------------------------------------------------
(* Properties.                                                               *)

\* A broadcast never waits for a peer, nor for a removal it has started itself:
\* whoever calls it, a login among them, goes on.
BroadcastEnds == \A s \in Sender : (sender[s].pc # "idle") ~> (sender[s].pc = "idle")

\* A connection that was closed from either side leaves the registry, its socket
\* is closed and its writer and its reader end: none of them lingers, whichever of
\* an overflow, a failed write and the peer came first.
NothingLingers == \A x \in Link : ~link[x].open ~> Ended(x)
=============================================================================

--------------------------- MODULE SupportSession ---------------------------
(***************************************************************************)
(* Remote support: the state machine of the table support_sessions         *)
(* (internal/store/support.go) under its handlers in internal/api.  A user *)
(* asks for help from several devices, engineers connect from the          *)
(* application and from the administration pages, the user types the       *)
(* number the engineer reads out, and a sweep ends what is overdue.        *)
(*                                                                         *)
(* A handler reads the row first and writes it later with one UPDATE whose *)
(* WHERE repeats part of what was read; what it does not repeat may have   *)
(* changed.  Every step below is one statement with the code up to the     *)
(* next.  Any statement may fail when Faults is TRUE.  An operator marked  *)
(* "mistake" is a slip the definition after it could have had.             *)
(***************************************************************************)
EXTENDS Naturals, FiniteSets

CONSTANTS Session,      \* the ids of the rows
          User, Operator, Admin, Category,
          Skill,        \* support_roles of an engineer
          Code, NoCode, \* the numbers a connect may draw; number_match = ''
          None,         \* SQL NULL; as an operator, the global admin_token
          Request, Decision, Call, Keeper, Socket,   \* handlers in progress
          PendingTTL, ActiveMaxAge, SweepEvery, MaxNMAttempts,
          Faults,
          Horizon       \* bound: the clock stops there (model only)

ASSUME SupportAssumption ==
    /\ Admin \subseteq Operator
    /\ Skill \in [Operator -> SUBSET Category]
    /\ NoCode \notin Code
    /\ None \notin Session \cup Operator
    /\ {PendingTTL, ActiveMaxAge, SweepEvery, Horizon} \subseteq Nat
    /\ MaxNMAttempts \in Nat \ {0}
    /\ Faults \in BOOLEAN

VARIABLES row,          \* support_sessions
          now, nextSweep,
          req,          \* handleSupportRequest
          dec,          \* handleSupportDecision
          call,         \* an engineer's connect, transfer or end
          keeper,       \* a sweep or a cleanup
          ws,           \* the operators' sockets
          offered,      \* history: the numbers connects generated
          typed         \* history: the numbers the owner typed

vars == <<row, now, nextSweep, req, dec, call, keeper, ws, offered, typed>>

\* The states "authorizing" and "approved" of older versions are written by
\* no code any more.
Pending == {"requested", "connecting"}
Granted == {"active", "transferred"}
LiveStatus == Pending \cup Granted
Terminal == {"rejected", "completed", "cancelled", "expired", "ended_by_admin"}
Status == {"absent", "deleted"} \cup LiveStatus \cup Terminal

Row == [st: Status, owner: User \cup {None}, category: Category \cup {None}, nm: Code \cup {NoCode},
        misses: Nat, assigned: Operator \cup {None}, to: Operator \cup {None},
        created: Nat, started: Nat]

RequestState == {"idle", "end", "insert", "expire", "complete", "retry",
                 "created", "active_already", "duplicate", "unswept", "failed"}
DecisionState == {"idle", "approve", "miss", "reject", "approved", "missed", "locked", "refused", "failed"}
CallState == {"idle", "connect", "transfer", "end",
              "connected", "transferred", "ended", "taken", "invalid", "failed"}
Actor == {"operator", "assigned", "admin"}

RequestRecord == [pc: RequestState, user: User \cup {None}, category: Category \cup {None},
                  old: Session \cup {None}, at: Nat]
DecisionRecord == [pc: DecisionState, s: Session \cup {None}]
CallRecord == [pc: CallState, s: Session \cup {None}, op: Operator \cup {None},
               actor: Actor, to: Operator \cup {None}]
KeeperRecord == [pc: {"idle", "complete", "delete"}, cleanup: BOOLEAN]
SocketRecord == [pc: {"idle", "open", "closed"}, s: Session \cup {None},
                 op: Operator \cup {None}]

\* The rows, the clock and the handlers have their types.
TypeOK ==
    /\ row \in [Session -> Row]
    /\ now \in Nat /\ nextSweep \in Nat
    /\ req \in [Request -> RequestRecord]
    /\ dec \in [Decision -> DecisionRecord]
    /\ call \in [Call -> CallRecord]
    /\ keeper \in [Keeper -> KeeperRecord]
    /\ ws \in [Socket -> SocketRecord]
    /\ offered \subseteq Session \X Code
    /\ typed \subseteq Session \X (Code \cup {NoCode})

EmptyRow == [st |-> "absent", owner |-> None, category |-> None, nm |-> NoCode,
             misses |-> 0, assigned |-> None, to |-> None, created |-> 0, started |-> 0]

Init ==
    /\ row = [s \in Session |-> EmptyRow]
    /\ now = 0 /\ nextSweep = 0
    /\ req = [q \in Request |-> [pc |-> "idle", user |-> None, category |-> None,
                                 old |-> None, at |-> 0]]
    /\ dec = [d \in Decision |-> [pc |-> "idle", s |-> None]]
    /\ call = [c \in Call |-> [pc |-> "idle", s |-> None, op |-> None,
                               actor |-> "operator", to |-> None]]
    /\ keeper = [k \in Keeper |-> [pc |-> "idle", cleanup |-> FALSE]]
    /\ ws = [w \in Socket |-> [pc |-> "idle", s |-> None, op |-> None]]
    /\ offered = {} /\ typed = {}

-----------------------------------------------------------------------------
(* The statements of internal/store/support.go.                            *)

Exists(s) == row[s].st \notin {"absent", "deleted"}
IsPending(s) == row[s].st \in Pending
IsGranted(s) == row[s].st \in Granted
Live(s) == row[s].st \in LiveStatus
IsTerminal(s) == row[s].st \in Terminal

PendingOverdue(s) == IsPending(s) /\ row[s].created + PendingTTL < now
GrantOverdue(s) == IsGranted(s) /\ row[s].started + ActiveMaxAge < now
Stale(s) == PendingOverdue(s) \/ GrantOverdue(s)

\* The query leaves out what is overdue but not swept yet.
ActiveByUser(u) == {s \in Session : row[s].owner = u /\ Live(s) /\ ~Stale(s)}

\* The partial unique index support_sessions_one_live_per_user.
IndexWithoutGranted(u) == \A s \in Session : row[s].owner = u => ~IsPending(s)   \* mistake
IndexFree(u) == \A s \in Session : row[s].owner = u => ~Live(s)

Insert(s, u, category) ==
    /\ row[s].st = "absent"
    /\ IndexFree(u)
    /\ row' = [row EXCEPT ![s] = [EmptyRow EXCEPT !.st = "requested", !.owner = u,
                                                  !.category = category, !.created = now]]

ConnectAnybodys(s, op, actor) == IsPending(s)      \* mistake: the owner is not compared
Connectable(s, op, actor) ==
    /\ IsPending(s)
    /\ actor = "operator" => row[s].assigned \in {None, op}

Coalesce(x, y) == IF x = None THEN y ELSE x

\* mistake: $3 and $4 are swapped.
ConnectSwapped(s, op, code) ==
    [row EXCEPT ![s] = [@ EXCEPT !.st = "connecting", !.nm = op, !.misses = 0,
                                 !.assigned = Coalesce(row[s].assigned, code)]]

\* COALESCE(assigned_admin_id, $4): the first engineer stays.
Connect(s, op, code) ==
    [row EXCEPT ![s] = [@ EXCEPT !.st = "connecting", !.nm = code, !.misses = 0,
                                 !.assigned = Coalesce(row[s].assigned, op)]]

ApprovableUnlessDeleted(s) == Exists(s)             \* mistake: the UPDATE by id alone
Approvable(s) == IsPending(s)
Activate(s) ==
    [row EXCEPT ![s] = [@ EXCEPT !.st = "active", !.nm = NoCode, !.misses = 0,
                                 !.started = now]]

CountMiss(s) == [row EXCEPT ![s].misses = @ + 1]

\* From any live status, whatever the table of transitions says of it.
End(s, final) ==
    [row EXCEPT ![s] = IF @.st \in LiveStatus
                         THEN [@ EXCEPT !.st = final, !.nm = NoCode] ELSE @]

HandOver(s, op) ==
    [row EXCEPT ![s] = IF @.st \in Granted
                         THEN [@ EXCEPT !.st = "transferred", !.to = op] ELSE @]

ExpirePending(scope) ==
    [s \in Session |-> IF s \in scope /\ PendingOverdue(s)
                         THEN [row[s] EXCEPT !.st = "expired"] ELSE row[s]]

CompleteGranted(scope) ==
    [s \in Session |-> IF s \in scope /\ GrantOverdue(s)
                         THEN [row[s] EXCEPT !.st = "completed"] ELSE row[s]]

RemoveTerminal ==
    [s \in Session |-> IF IsTerminal(s) THEN [row[s] EXCEPT !.st = "deleted"] ELSE row[s]]

\* supportActorFor: no identity (the global token) acts as an administrator.
ActorFor(op, s) ==
    IF op \in Admin \cup {None} THEN "admin"
    ELSE IF op \in {row[s].assigned, row[s].to} THEN "assigned" ELSE "operator"

Skilled(op, s) == op \in Operator /\ row[s].category \in Skill[op]

-----------------------------------------------------------------------------
(* A new request of the user.                                              *)

RequestGo(q, pc) == req' = [req EXCEPT ![q].pc = pc]
RequestOnly == UNCHANGED <<now, nextSweep, dec, call, keeper, ws, offered, typed>>

\* A granted session refuses the request, a pending one is replaced.  An
\* error of the query is taken for "no session".
RequestRead(q) ==
    /\ req[q].pc = "idle"
    /\ \E u \in User, category \in Category :
         LET go(pc, old) == req' = [req EXCEPT ![q] =
                              [pc |-> pc, user |-> u, category |-> category, old |-> old, at |-> 0]]
         IN \/ \E s \in ActiveByUser(u) :
                  IF IsGranted(s) THEN go("active_already", s) ELSE go("end", s)
            \/ (ActiveByUser(u) = {} \/ Faults) /\ go("insert", None)
    /\ row' = row /\ RequestOnly

\* The outcome of the cancellation is only logged.
RequestCancelOld(q) ==
    /\ req[q].pc = "end"
    /\ \/ row' = End(req[q].old, "cancelled")
       \/ Faults /\ row' = row
    /\ RequestGo(q, "insert")
    /\ RequestOnly

RequestInsert(q) ==
    /\ req[q].pc = "insert"
    /\ \/ /\ \E s \in Session : Insert(s, req[q].user, req[q].category)
          /\ RequestGo(q, "created")
       \/ /\ ~IndexFree(req[q].user)
          /\ req' = [req EXCEPT ![q].pc = "expire", ![q].at = now]
          /\ row' = row
       \/ Faults /\ row' = row /\ RequestGo(q, "failed")
    /\ RequestOnly

\* SupportSessionExpireStaleByUser, two statements; an error of it is
\* reported as a duplicate as well ("unswept") ...
OwnedByNobody(u) == {}                  \* mistake: no sweep before the retry
OwnedBy(u) == {s \in Session : row[s].owner = u}

RequestExpire(q) ==
    /\ req[q].pc = "expire"
    /\ \/ row' = ExpirePending(OwnedBy(req[q].user)) /\ RequestGo(q, "complete")
       \/ Faults /\ row' = row /\ RequestGo(q, "unswept")
    /\ RequestOnly

RequestComplete(q) ==
    /\ req[q].pc = "complete"
    /\ \/ row' = CompleteGranted(OwnedBy(req[q].user)) /\ RequestGo(q, "retry")
       \/ Faults /\ row' = row /\ RequestGo(q, "unswept")
    /\ RequestOnly

\* ... and one more INSERT.
RequestRetry(q) ==
    /\ req[q].pc = "retry"
    /\ \/ /\ \E s \in Session : Insert(s, req[q].user, req[q].category)
          /\ RequestGo(q, "created")
       \/ ~IndexFree(req[q].user) /\ row' = row /\ RequestGo(q, "duplicate")
       \/ Faults /\ row' = row /\ RequestGo(q, "failed")
    /\ RequestOnly

-----------------------------------------------------------------------------
(* The decision of the owner.                                              *)

DecisionGo(d, pc) == dec' = [dec EXCEPT ![d].pc = pc]
DecisionOnly == UNCHANGED <<now, nextSweep, req, call, keeper, ws, offered>>

AnyNumber(s, number) == TRUE            \* mistake: the number is not compared
NumberMatches(s, number) == number = row[s].nm

\* "approve" up to its first write: the row it read decides.
DecisionRead(d) ==
    /\ dec[d].pc = "idle"
    /\ \E s \in Session, number \in Code \cup {NoCode} :
         /\ Exists(s)
         /\ typed' = typed \cup {<<s, number>>}
         /\ dec' = [dec EXCEPT ![d] = [s |-> s, pc |->
                      IF ~IsPending(s) \/ row[s].nm = NoCode THEN "refused"
                      ELSE IF NumberMatches(s, number) THEN "approve" ELSE "miss"]]
    /\ row' = row /\ DecisionOnly

\* The UPDATE asks for a pending row, not for the number that was compared.
DecisionApprove(d) ==
    /\ dec[d].pc = "approve"
    /\ LET s == dec[d].s IN
       \/ Approvable(s) /\ row' = Activate(s) /\ DecisionGo(d, "approved")
       \/ ~Approvable(s) /\ row' = row /\ DecisionGo(d, "refused")
       \/ Faults /\ row' = row /\ DecisionGo(d, "failed")
    /\ typed' = typed /\ DecisionOnly

\* nm_attempts + 1, whatever has become of the row; at the limit ...
LimitPlusOne == MaxNMAttempts + 1       \* mistake: the limit is missed by one
Limit == MaxNMAttempts

DecisionMiss(d) ==
    /\ dec[d].pc = "miss"
    /\ LET s == dec[d].s IN
       \/ /\ Exists(s)
          /\ row' = CountMiss(s)
          /\ DecisionGo(d, IF row[s].misses + 1 >= Limit THEN "reject" ELSE "missed")
       \/ (~Exists(s) \/ Faults) /\ row' = row /\ DecisionGo(d, "failed")
    /\ typed' = typed /\ DecisionOnly

\* ... the session is rejected by a second statement, its error dropped.
DecisionReject(d) ==
    /\ dec[d].pc = "reject"
    /\ \/ row' = End(dec[d].s, "rejected") /\ DecisionGo(d, "locked")
       \/ Faults /\ row' = row /\ DecisionGo(d, "failed")
    /\ typed' = typed /\ DecisionOnly

\* "deny", and the end of the session by its owner: of what was read only the
\* owner is used, and the owner never changes.
OwnerEnds(s) ==
    /\ Live(s)
    /\ \E final \in {"rejected", "completed"} : row' = End(s, final)
    /\ UNCHANGED <<now, nextSweep, req, dec, call, keeper, ws, offered, typed>>

-----------------------------------------------------------------------------
(* The engineers.                                                          *)

CallGo(c, pc) == call' = [call EXCEPT ![c].pc = pc]
CallOnly == UNCHANGED <<now, nextSweep, req, dec, keeper, ws, typed>>

CallRead(c, pc, s, op, actor, to) ==
    /\ call[c].pc = "idle"
    /\ Exists(s)
    /\ call' = [call EXCEPT ![c] = [pc |-> pc, s |-> s, op |-> op, actor |-> actor, to |-> to]]
    /\ row' = row /\ offered' = offered /\ CallOnly

\* handleSupportConnect of the application: never as the assigned engineer.
AppConnect(c) ==
    \E s \in Session, op \in Operator :
        /\ op \in Admin \/ Skilled(op, s)
        /\ CallRead(c, "connect", s, op, IF op \in Admin THEN "admin" ELSE "operator", None)

\* handleAdminSupportSessionConnect: the actor comes of the row read.
WebConnect(c) ==
    \E s \in Session, op \in Operator \cup {None} :
        /\ ActorFor(op, s) = "operator" => Skilled(op, s)
        /\ CallRead(c, "connect", s, op, ActorFor(op, s), None)

\* SupportSessionConnect draws a new number on every call.
ConnectUpdate(c) ==
    /\ call[c].pc = "connect"
    /\ LET s == call[c].s
           op == call[c].op
       IN \/ /\ call[c].actor # "assigned" /\ Connectable(s, op, call[c].actor)
             /\ \E code \in Code : row' = Connect(s, op, code) /\ offered' = offered \cup {<<s, code>>}
             /\ CallGo(c, "connected")
          \/ /\ call[c].actor = "assigned" \/ ~Connectable(s, op, call[c].actor)
             /\ CallGo(c, IF call[c].actor # "assigned" /\ IsPending(s) THEN "taken" ELSE "invalid")
             /\ UNCHANGED <<row, offered>>
          \/ Faults /\ CallGo(c, "failed") /\ UNCHANGED <<row, offered>>
    /\ CallOnly

\* The recipient is an administrator, an engineer of the category, or
\* whoever holds the link; one that cannot be read is not checked.
TransferRead(c) ==
    \E s \in Session, op \in Operator \cup {None}, to \in Operator \cup {None} :
        /\ IsGranted(s)
        /\ ActorFor(op, s) # "operator"
        /\ to \in Admin \cup {None} \/ Skilled(to, s) \/ Faults
        /\ CallRead(c, "transfer", s, op, ActorFor(op, s), to)

TransferUpdate(c) ==
    /\ call[c].pc = "transfer"
    /\ LET s == call[c].s IN
       \/ /\ row' = HandOver(s, call[c].to)
          /\ CallGo(c, IF IsGranted(s) THEN "transferred" ELSE "invalid")
       \/ Faults /\ row' = row /\ CallGo(c, "failed")
    /\ offered' = offered /\ CallOnly

EndRead(c) ==
    \E s \in Session, op \in Operator \cup {None} :
        /\ ActorFor(op, s) # "operator"
        /\ CallRead(c, "end", s, op, ActorFor(op, s), None)

EndUpdate(c) ==
    /\ call[c].pc = "end"
    /\ LET s == call[c].s IN
       \/ /\ row' = End(s, "ended_by_admin")
          /\ CallGo(c, IF Live(s) THEN "ended" ELSE "invalid")
       \/ Faults /\ row' = row /\ CallGo(c, "failed")
    /\ offered' = offered /\ CallOnly

\* handleAdminSupportSessionDelete asks for no status.
Delete(s) ==
    /\ Exists(s)
    /\ row' = [row EXCEPT ![s].st = "deleted"]
    /\ UNCHANGED <<now, nextSweep, req, dec, call, keeper, ws, offered, typed>>

-----------------------------------------------------------------------------
(* The sweeps, and the sockets of the engineers.                           *)

KeeperGo(k, pc) == keeper' = [keeper EXCEPT ![k].pc = pc]
KeeperOnly == UNCHANGED <<now, req, dec, call, ws, offered, typed>>

\* sweepStaleSupport, at most once in SweepEvery, or the cleanup button.
SweepStart(k) ==
    /\ keeper[k].pc = "idle"
    /\ \E cleanup \in BOOLEAN :
         /\ cleanup \/ now >= nextSweep
         /\ nextSweep' = IF cleanup THEN nextSweep ELSE now + SweepEvery
         /\ \/ /\ row' = ExpirePending(Session)
               /\ keeper' = [keeper EXCEPT ![k] = [pc |-> "complete", cleanup |-> cleanup]]
            \/ Faults /\ row' = row /\ keeper' = keeper
    /\ KeeperOnly

SweepComplete(k) ==
    /\ keeper[k].pc = "complete"
    /\ \/ /\ row' = CompleteGranted(Session)
          /\ KeeperGo(k, IF keeper[k].cleanup THEN "delete" ELSE "idle")
       \/ Faults /\ row' = row /\ KeeperGo(k, "idle")
    /\ nextSweep' = nextSweep /\ KeeperOnly

CleanupDelete(k) ==
    /\ keeper[k].pc = "delete"
    /\ \/ row' = RemoveTerminal
       \/ Faults /\ row' = row
    /\ KeeperGo(k, "idle")
    /\ nextSweep' = nextSweep /\ KeeperOnly

SocketOnly == UNCHANGED <<row, now, nextSweep, req, dec, call, keeper, offered, typed>>

\* The row is read once, when the socket opens.
SocketOpen(w) ==
    /\ ws[w].pc = "idle"
    /\ \E s \in Session, op \in Operator \cup {None} :
         /\ Live(s)
         /\ ActorFor(op, s) = "operator" => ~IsGranted(s) /\ Skilled(op, s)
         /\ ws' = [ws EXCEPT ![w] = [pc |-> "open", s |-> s, op |-> op]]
    /\ SocketOnly

\* mistake: the owner's refusal is not looked at.
TerminalUnlessRejected(s) == row[s].st \in Terminal \ {"rejected"}
Over(s) == IsTerminal(s)

\* The watcher closes on a terminal status; a row it cannot read is an error
\* like any other, and the socket stays.
SocketWatch(w) ==
    /\ ws[w].pc = "open"
    /\ Over(ws[w].s)
    /\ ws' = [ws EXCEPT ![w].pc = "closed"]
    /\ SocketOnly

SocketLeave(w) ==
    /\ ws[w].pc = "open"
    /\ ws' = [ws EXCEPT ![w].pc = "closed"]
    /\ SocketOnly

Time ==
    /\ now < Horizon
    /\ now' = now + 1
    /\ UNCHANGED <<row, nextSweep, req, dec, call, keeper, ws, offered, typed>>

RequestStep(q) ==
    \/ RequestRead(q) \/ RequestCancelOld(q) \/ RequestInsert(q)
    \/ RequestExpire(q) \/ RequestComplete(q) \/ RequestRetry(q)

DecisionStep(d) ==
    DecisionRead(d) \/ DecisionApprove(d) \/ DecisionMiss(d) \/ DecisionReject(d)

CallStep(c) ==
    \/ AppConnect(c) \/ WebConnect(c) \/ ConnectUpdate(c)
    \/ TransferRead(c) \/ TransferUpdate(c) \/ EndRead(c) \/ EndUpdate(c)

KeeperStep(k) == SweepStart(k) \/ SweepComplete(k) \/ CleanupDelete(k)

SocketStep(w) == SocketOpen(w) \/ SocketWatch(w) \/ SocketLeave(w)

Next ==
    \/ \E q \in Request : RequestStep(q)
    \/ \E d \in Decision : DecisionStep(d)
    \/ \E c \in Call : CallStep(c)
    \/ \E s \in Session : OwnerEnds(s) \/ Delete(s)
    \/ \E k \in Keeper : KeeperStep(k)
    \/ \E w \in Socket : SocketStep(w)
    \/ Time

Spec == Init /\ [][Next]_vars

\* A handler that has begun runs to its end, and the watcher's ticker fires.
Fairness ==
    /\ \A q \in Request : WF_vars(\/ RequestCancelOld(q) \/ RequestInsert(q)
                                  \/ RequestExpire(q) \/ RequestComplete(q) \/ RequestRetry(q))
    /\ \A d \in Decision : WF_vars(DecisionApprove(d) \/ DecisionMiss(d) \/ DecisionReject(d))
    /\ \A c \in Call : WF_vars(ConnectUpdate(c) \/ TransferUpdate(c) \/ EndUpdate(c))
    /\ \A w \in Socket : WF_vars(SocketWatch(w))

FairSpec == Spec /\ Fairness

-----------------------------------------------------------------------------
(* Properties.                                                             *)

\* The main invariant of support.go: a desktop is open to an engineer only
\* after its owner typed a number that a connect of this very session drew,
\* in whatever order decisions, connects, sweeps and ends overtake each other.
ActiveWasConfirmed ==
    \A s \in Session : IsGranted(s) => \E code \in Code : <<s, code>> \in typed \cap offered

\* A user has one live session, also when several devices ask at once and
\* one of the requests retries its INSERT (SupportSessionCreate).
OneLiveSession ==
    \A s, t \in Session : Live(s) /\ Live(t) /\ row[s].owner = row[t].owner => s = t

\* What has ended stays ended: no handler that read the row while it lived
\* brings it back (supportTransitionExec, SupportSessionApprove).
TerminalIsFinal ==
    [][\A s \in Session : row[s].st \in Terminal => row'[s].st \in {row[s].st, "deleted"}]_vars

\* An engineer who was told that the prompt is sent holds the session: of two
\* who connect at once one is refused, and nobody takes it over later.
EngineerKeepsSession ==
    \A c \in Call : call[c].pc = "connected" /\ call[c].actor = "operator"
                      => row[call[c].s].assigned = call[c].op

\* The session was overdue already when the INSERT of the request failed.
WasOverdue(s, at) ==
    \/ IsPending(s) /\ row[s].created + PendingTTL < at
    \/ IsGranted(s) /\ row[s].started + ActiveMaxAge < at

\* A request is refused as a duplicate only because of a session that was not
\* overdue: a forgotten row never locks its user out, unless the statement
\* that ends it fails (SupportSessionCreate).
OverdueNeverBlocks ==
    [][\A q \in Request : req[q].pc # "duplicate" /\ req'[q].pc = "duplicate"
         => \E s \in Session : /\ row[s].owner = req[q].user
                               /\ Live(s) /\ ~WasOverdue(s, req[q].at)]_vars

\* The last wrong number ends the session, even if a right one, a reconnect
\* or another wrong one comes between the count and the rejection
\* (SupportSessionFailNumberMatch).
LastMissEnds ==
    \A s \in Session : row[s].misses >= MaxNMAttempts ~> ~Live(s)

\* The socket of a session that ended, by whomever, is closed unless the row
\* is deleted first (the watcher of handleAdminSupportWS).
EndedSocketCloses ==
    \A w \in Socket, s \in Session :
        (ws[w].pc = "open" /\ ws[w].s = s /\ row[s].st \in Terminal)
            ~> (ws[w].pc = "closed" \/ row[s].st = "deleted")

-----------------------------------------------------------------------------
(* What the comments say and the code does not do.                         *)

\* support_fsm_test.go:21 and the condition of the UPDATE: the engineer
\* who holds a session may ask for a new number.
HolderMayReconnect ==
    [][\A c \in Call : call[c].pc = "connect" /\ call'[c].pc = "invalid"
         => ~(IsPending(call[c].s) /\ row[call[c].s].assigned = call[c].op)]_vars

=============================================================================

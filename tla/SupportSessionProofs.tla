------------------------ MODULE SupportSessionProofs ------------------------
(***************************************************************************)
(* Safety of SupportSession for any number of sessions, users, engineers   *)
(* and handlers, with failing statements.                                  *)
(*                                                                         *)
(* Most statements only end or annotate rows: they are Quiet, and a quiet  *)
(* step keeps what the invariant says of the rows whatever handler takes   *)
(* it.  Three are not, and have a lemma each: the INSERT, the UPDATE of a  *)
(* connect and the UPDATE that activates.                                  *)
(***************************************************************************)
EXTENDS SupportSession, TLAPS

\* What no statement of support.go does to a row.
RowKept(s) ==
    /\ row[s].st # "absent" =>
         /\ row'[s].st # "absent"
         /\ row'[s].owner = row[s].owner
         /\ row[s].assigned # None => row'[s].assigned = row[s].assigned
    /\ row[s].st \in Terminal => row'[s].st \in {row[s].st, "deleted"}

\* What the statements that only end or annotate do not do either.
Quiet(s) ==
    /\ RowKept(s)
    /\ row'[s].owner = row[s].owner
    /\ Live(s)' => Live(s)
    /\ IsGranted(s)' => IsGranted(s)
    /\ row'[s].nm \in {row[s].nm, NoCode}

RowTypeOK == row \in [Session -> Row]
Calm == RowTypeOK' /\ \A s \in Session : Quiet(s)

-----------------------------------------------------------------------------
(* The table.                                                              *)

LEMMA QuietUpdates ==
    ASSUME RowTypeOK, NEW s \in Session, NEW final \in Terminal, NEW op \in Operator \cup {None},
           row' \in {row, End(s, final), HandOver(s, op), CountMiss(s),
                     [row EXCEPT ![s].st = "deleted"]}
    PROVE  Calm
  <1>1. CASE row' = row
    BY <1>1 DEF Calm, Quiet, RowKept, RowTypeOK, Live, IsGranted, Row
  <1>2. CASE row' = End(s, final)
    <2> DEFINE new == IF Live(s) THEN [row[s] EXCEPT !.st = final, !.nm = NoCode] ELSE row[s]
    <2>1. /\ new \in Row /\ new.owner = row[s].owner /\ new.assigned = row[s].assigned
          /\ new.nm \in {row[s].nm, NoCode}
          /\ new.st = IF Live(s) THEN final ELSE row[s].st
      BY DEF Row, Status, RowTypeOK
    <2>2. row' = [row EXCEPT ![s] = new]
      BY <1>2 DEF End, Live
    <2> HIDE DEF new
    <2>3. RowTypeOK' /\ row'[s] = new /\ \A t \in Session \ {s} : row'[t] = row[t]
      BY <2>1, <2>2 DEF RowTypeOK
    <2>4. Quiet(s)
      BY <2>1, <2>3 DEF Quiet, RowKept, Live, IsGranted, LiveStatus, Pending, Granted, Terminal
    <2> QED BY <2>3, <2>4 DEF Calm, Quiet, RowKept, Live, IsGranted
  <1>3. CASE row' = HandOver(s, op)
    <2> DEFINE new == IF IsGranted(s) THEN [row[s] EXCEPT !.st = "transferred", !.to = op] ELSE row[s]
    <2>1. /\ new \in Row /\ new.owner = row[s].owner /\ new.assigned = row[s].assigned
          /\ new.nm = row[s].nm
          /\ new.st = IF IsGranted(s) THEN "transferred" ELSE row[s].st
      BY DEF Row, Status, LiveStatus, Granted, RowTypeOK
    <2>2. row' = [row EXCEPT ![s] = new]
      BY <1>3 DEF HandOver, IsGranted
    <2> HIDE DEF new
    <2>3. RowTypeOK' /\ row'[s] = new /\ \A t \in Session \ {s} : row'[t] = row[t]
      BY <2>1, <2>2 DEF RowTypeOK
    <2>4. Quiet(s)
      BY <2>1, <2>3 DEF Quiet, RowKept, Live, IsGranted, LiveStatus, Pending, Granted, Terminal
    <2> QED BY <2>3, <2>4 DEF Calm, Quiet, RowKept, Live, IsGranted
  <1>4. CASE row' = CountMiss(s)
    BY <1>4 DEF Calm, Quiet, RowKept, RowTypeOK, Live, IsGranted, Row, CountMiss
  <1>5. CASE row' = [row EXCEPT ![s].st = "deleted"]
    BY <1>5 DEF Calm, Quiet, RowKept, RowTypeOK, Live, IsGranted, Row, Status,
                LiveStatus, Pending, Granted, Terminal
  <1> QED BY <1>1, <1>2, <1>3, <1>4, <1>5

LEMMA QuietSweeps ==
    ASSUME RowTypeOK, NEW scope \in SUBSET Session,
           row' \in {row, ExpirePending(scope), CompleteGranted(scope), RemoveTerminal}
    PROVE  Calm
  <1>1. CASE row' = row
    BY <1>1 DEF Calm, Quiet, RowKept, RowTypeOK, Live, IsGranted, Row
  <1>2. CASE row' = ExpirePending(scope)
    BY <1>2 DEF Calm, Quiet, RowKept, RowTypeOK, Live, IsGranted, Row, ExpirePending, PendingOverdue,
                IsPending, Status, LiveStatus, Pending, Granted, Terminal
  <1>3. CASE row' = CompleteGranted(scope)
    BY <1>3 DEF Calm, Quiet, RowKept, RowTypeOK, Live, IsGranted, Row, CompleteGranted, GrantOverdue,
                Status, LiveStatus, Pending, Granted, Terminal
  <1>4. CASE row' = RemoveTerminal
    BY <1>4 DEF Calm, Quiet, RowKept, RowTypeOK, Live, IsGranted, Row, RemoveTerminal, IsTerminal,
                Status, LiveStatus, Pending, Granted, Terminal
  <1> QED BY <1>1, <1>2, <1>3, <1>4

\* The INSERT fills one row, and its owner has no live one besides.
LEMMA InsertKeeps ==
    ASSUME RowTypeOK, now \in Nat, NEW s \in Session, NEW u \in User, NEW k \in Category, Insert(s, u, k)
    PROVE  /\ RowTypeOK'
           /\ \A t \in Session : RowKept(t)
           /\ row'[s].st = "requested" /\ row'[s].nm = NoCode /\ row'[s].owner = u
           /\ \A t \in Session \ {s} : row'[t] = row[t]
           /\ \A t \in Session : row[t].owner = u => ~Live(t)
  <1> DEFINE new == [EmptyRow EXCEPT !.st = "requested", !.owner = u, !.category = k, !.created = now]
  <1>1. new \in Row /\ new.st = "requested" /\ new.nm = NoCode /\ new.owner = u
    BY DEF EmptyRow, Row, Status, LiveStatus, Pending
  <1>2. row' = [row EXCEPT ![s] = new] /\ row[s].st = "absent" /\ IndexFree(u)
    BY DEF Insert
  <1> HIDE DEF new
  <1>3. RowTypeOK' /\ row'[s] = new /\ \A t \in Session \ {s} : row'[t] = row[t]
    BY <1>1, <1>2 DEF RowTypeOK
  <1>4. RowKept(s)
    BY <1>2 DEF RowKept, Terminal
  <1>5. \A t \in Session \ {s} : RowKept(t)
    BY <1>3 DEF RowKept
  <1> QED BY <1>1, <1>2, <1>3, <1>4, <1>5 DEF IndexFree

\* A connect leaves the row pending, with the number it drew.
LEMMA ConnectKeeps ==
    ASSUME RowTypeOK, NEW s \in Session, NEW op \in Operator \cup {None}, NEW code \in Code,
           IsPending(s), row' = Connect(s, op, code)
    PROVE  /\ RowTypeOK'
           /\ \A t \in Session : RowKept(t)
           /\ row'[s].st = "connecting" /\ row'[s].nm = code /\ row'[s].owner = row[s].owner
           /\ row'[s].assigned = Coalesce(row[s].assigned, op)
           /\ \A t \in Session \ {s} : row'[t] = row[t]
  <1> DEFINE new == [row[s] EXCEPT !.st = "connecting", !.nm = code, !.misses = 0,
                                   !.assigned = Coalesce(row[s].assigned, op)]
  <1>1. new \in Row /\ new.st = "connecting" /\ new.nm = code /\ new.owner = row[s].owner
          /\ new.assigned = Coalesce(row[s].assigned, op)
    BY DEF Coalesce, Row, Status, LiveStatus, Pending, RowTypeOK
  <1>2. row' = [row EXCEPT ![s] = new]
    BY DEF Connect
  <1> HIDE DEF new
  <1>3. RowTypeOK' /\ row'[s] = new /\ \A t \in Session \ {s} : row'[t] = row[t]
    BY <1>1, <1>2 DEF RowTypeOK
  <1>4. RowKept(s)
    BY <1>1, <1>3 DEF RowKept, Terminal, IsPending, Pending, Coalesce
  <1>5. \A t \in Session \ {s} : RowKept(t)
    BY <1>3 DEF RowKept
  <1> QED BY <1>1, <1>3, <1>4, <1>5

\* The UPDATE of the owner's approval activates a pending row.
LEMMA ActivateKeeps ==
    ASSUME RowTypeOK, now \in Nat, NEW s \in Session, IsPending(s), row' = Activate(s)
    PROVE  /\ RowTypeOK'
           /\ \A t \in Session : RowKept(t)
           /\ row'[s].st = "active" /\ row'[s].nm = NoCode /\ row'[s].owner = row[s].owner
           /\ row'[s].assigned = row[s].assigned
           /\ \A t \in Session \ {s} : row'[t] = row[t]
  <1> DEFINE new == [row[s] EXCEPT !.st = "active", !.nm = NoCode, !.misses = 0, !.started = now]
  <1>1. new \in Row /\ new.st = "active" /\ new.nm = NoCode /\ new.owner = row[s].owner
          /\ new.assigned = row[s].assigned
    BY DEF Row, Status, LiveStatus, Granted, RowTypeOK
  <1>2. row' = [row EXCEPT ![s] = new]
    BY DEF Activate
  <1> HIDE DEF new
  <1>3. RowTypeOK' /\ row'[s] = new /\ \A t \in Session \ {s} : row'[t] = row[t]
    BY <1>1, <1>2 DEF RowTypeOK
  <1>4. RowKept(s)
    BY <1>1, <1>3 DEF RowKept, Terminal, IsPending, Pending
  <1>5. \A t \in Session \ {s} : RowKept(t)
    BY <1>3 DEF RowKept
  <1> QED BY <1>1, <1>3, <1>4, <1>5

-----------------------------------------------------------------------------
(* The inductive invariant.                                                *)

\* A number in a row was drawn by a connect of this session.
Drawn == \A s \in Session : row[s].nm # NoCode => <<s, row[s].nm>> \in offered

Confirmed(s) == \E code \in Code : <<s, code>> \in typed \cap offered

\* What a handler keeps between two statements.
RequestOK(q) ==
    /\ req[q].pc \in {"end", "insert", "expire", "complete", "retry"}
         => req[q].user \in User /\ req[q].category \in Category
    /\ req[q].pc = "end" => req[q].old \in Session

DecisionOK(d) ==
    /\ dec[d].pc \in {"approve", "miss", "reject"} => dec[d].s \in Session
    /\ dec[d].pc = "approve" => Confirmed(dec[d].s)

CallOK(c) ==
    /\ call[c].pc \in {"connect", "transfer", "end", "connected"} => call[c].s \in Session
    /\ call[c].pc \in {"connect", "connected"} /\ call[c].actor = "operator" => call[c].op \in Operator
    /\ call[c].pc = "connected" /\ call[c].actor = "operator"
         => row[call[c].s].assigned = call[c].op /\ row[call[c].s].st # "absent"

Handlers ==
    /\ \A q \in Request : RequestOK(q)
    /\ \A d \in Decision : DecisionOK(d)
    /\ \A c \in Call : CallOK(c)

IInv == TypeOK /\ Handlers /\ Drawn /\ OneLiveSession /\ ActiveWasConfirmed

\* What every step is shown to do.
Good == IInv' /\ \A s \in Session : RowKept(s)

LEMMA InitInv == Init => IInv
  <1> SUFFICES ASSUME Init PROVE IInv
    OBVIOUS
  <1>1. EmptyRow \in Row
    BY DEF EmptyRow, Row, Status
  <1>2. TypeOK
    BY <1>1 DEF Init, TypeOK, RequestRecord, DecisionRecord, CallRecord, KeeperRecord, SocketRecord,
                RequestState, DecisionState, CallState, Actor
  <1>3. Handlers
    BY DEF Init, Handlers, RequestOK, DecisionOK, CallOK
  <1>4. Drawn /\ OneLiveSession /\ ActiveWasConfirmed
    BY DEF Init, EmptyRow, Drawn, OneLiveSession, ActiveWasConfirmed, Live, IsGranted,
           LiveStatus, Pending, Granted
  <1> QED BY <1>2, <1>3, <1>4 DEF IInv

\* The handlers a step does not move keep what they hold.
LEMMA HandlersKept ==
    ASSUME IInv, \A s \in Session : RowKept(s), offered \subseteq offered', typed \subseteq typed'
    PROVE  /\ \A q \in Request : req'[q] = req[q] => RequestOK(q)'
           /\ \A d \in Decision : dec'[d] = dec[d] => DecisionOK(d)'
           /\ \A c \in Call : call'[c] = call[c] => CallOK(c)'
  <1>1. \A q \in Request : req'[q] = req[q] => RequestOK(q)'
    BY DEF IInv, Handlers, RequestOK
  <1>2. \A s \in Session : Confirmed(s) => Confirmed(s)'
    BY DEF Confirmed
  <1>3. \A d \in Decision : dec'[d] = dec[d] => DecisionOK(d)'
    BY <1>2 DEF IInv, Handlers, DecisionOK, Confirmed
  <1>4. ASSUME NEW c \in Call, call'[c] = call[c]
        PROVE  CallOK(c)'
    <2>1. CallOK(c)
      BY DEF IInv, Handlers
    <2>2. call[c].pc = "connected" /\ call[c].actor = "operator"
            => row'[call[c].s].assigned = row[call[c].s].assigned /\ row'[call[c].s].st # "absent"
      BY <2>1, SupportAssumption DEF CallOK, RowKept
    <2> QED BY <1>4, <2>1, <2>2 DEF CallOK
  <1> QED BY <1>1, <1>3, <1>4

\* A quiet step keeps what the invariant says of the rows.
LEMMA CalmKeeps ==
    ASSUME IInv, Calm, offered \subseteq offered', typed \subseteq typed', TypeOK', Handlers'
    PROVE  Good
  <1>1. Drawn'
    BY DEF Calm, Quiet, Drawn, IInv
  <1>2. OneLiveSession'
    BY DEF Calm, Quiet, OneLiveSession, IInv
  <1>3. ActiveWasConfirmed'
    BY DEF Calm, Quiet, ActiveWasConfirmed, IInv
  <1> QED BY <1>1, <1>2, <1>3 DEF Good, IInv, Calm, Quiet

-----------------------------------------------------------------------------
(* The steps.                                                              *)

\* An INSERT of a handler that holds user and category.
LEMMA InsertGood ==
    ASSUME IInv, NEW s \in Session, NEW u \in User, NEW k \in Category, Insert(s, u, k),
           offered' = offered, typed' = typed, TypeOK', Handlers'
    PROVE  Good
  <1>1. RowTypeOK /\ now \in Nat
    BY DEF IInv, TypeOK, RowTypeOK
  <1>2. /\ \A t \in Session : RowKept(t)
        /\ row'[s].st = "requested" /\ row'[s].nm = NoCode /\ row'[s].owner = u
        /\ \A t \in Session \ {s} : row'[t] = row[t]
        /\ \A t \in Session : row[t].owner = u => ~Live(t)
    BY <1>1, InsertKeeps
  <1>3. Drawn'
    BY <1>2 DEF Drawn, IInv
  <1>4. \A t \in Session \ {s} : row'[t] = row[t] /\ (Live(t)' <=> Live(t)) /\ (IsGranted(t)' <=> IsGranted(t))
    BY <1>2 DEF Live, IsGranted
  <1>5. OneLiveSession'
    BY <1>2, <1>4 DEF OneLiveSession, IInv
  <1>6. ~IsGranted(s)'
    BY <1>2 DEF IsGranted, Granted
  <1>7. ActiveWasConfirmed'
    BY <1>4, <1>6 DEF ActiveWasConfirmed, IInv
  <1> QED BY <1>2, <1>3, <1>5, <1>7 DEF Good, IInv

LEMMA RequestStepGood ==
    ASSUME IInv, NEW q \in Request, RequestStep(q)
    PROVE  Good
  <1> USE DEF IInv
  <1>1. RowTypeOK /\ now \in Nat /\ RequestOK(q) /\ req \in [Request -> RequestRecord]
    BY DEF TypeOK, RowTypeOK, Handlers
  <1>2. UNCHANGED <<now, nextSweep, dec, call, keeper, ws, offered, typed>>
    BY DEF RequestStep, RequestRead, RequestCancelOld, RequestInsert, RequestExpire,
           RequestComplete, RequestRetry, RequestOnly
  <1>3. ASSUME \A s \in Session : RowKept(s), RequestOK(q)', \A r \in Request \ {q} : req'[r] = req[r]
        PROVE  Handlers'
    BY <1>2, <1>3, HandlersKept DEF Handlers
  <1>4. ASSUME RowTypeOK', req' \in [Request -> RequestRecord]
        PROVE  TypeOK'
    BY <1>2, <1>4 DEF TypeOK, RowTypeOK
  <1>5. ASSUME Calm, RequestOK(q)', req' \in [Request -> RequestRecord],
               \A r \in Request \ {q} : req'[r] = req[r]
        PROVE  Good
    BY <1>2, <1>3, <1>4, <1>5, CalmKeeps DEF Calm, Quiet
  \* Only the program counter moves.
  <1>6. ASSUME NEW pc \in RequestState, RequestGo(q, pc),
               pc \in {"insert", "complete", "retry"} => req[q].pc \in {"end", "expire", "complete"},
               pc \notin {"end", "expire"}
        PROVE  /\ RequestOK(q)' /\ req' \in [Request -> RequestRecord]
               /\ \A r \in Request \ {q} : req'[r] = req[r]
    BY <1>1, <1>6 DEF RequestGo, RequestOK, RequestRecord
  <1>7. ASSUME NEW s \in Session, Insert(s, req[q].user, req[q].category), RequestGo(q, "created"),
               req[q].pc \in {"insert", "retry"}
        PROVE  Good
    <2>1. req[q].user \in User /\ req[q].category \in Category
      BY <1>1, <1>7 DEF RequestOK
    <2>2. RowTypeOK' /\ \A t \in Session : RowKept(t)
      BY <1>1, <1>7, <2>1, InsertKeeps
    <2>3. RequestOK(q)' /\ req' \in [Request -> RequestRecord] /\ \A r \in Request \ {q} : req'[r] = req[r]
      BY <1>6, <1>7 DEF RequestState
    <2> QED BY <1>2, <1>3, <1>4, <1>7, <2>1, <2>2, <2>3, InsertGood
  <1>8. row' = row => Calm
    BY <1>1, QuietSweeps
  <1>9. CASE RequestRead(q)
    <2>1. row' = row
      BY <1>9 DEF RequestRead
    <2>2. PICK u \in User, k \in Category, pc \in {"active_already", "end", "insert"}, old \in Session \cup {None} :
            /\ req' = [req EXCEPT ![q] = [pc |-> pc, user |-> u, category |-> k, old |-> old, at |-> 0]]
            /\ pc = "end" => old \in Session
      BY <1>9 DEF RequestRead, ActiveByUser
    <2>3. RequestOK(q)' /\ req' \in [Request -> RequestRecord] /\ \A r \in Request \ {q} : req'[r] = req[r]
      BY <1>1, <2>2 DEF RequestOK, RequestRecord, RequestState
    <2> QED BY <1>5, <1>8, <2>1, <2>3
  <1>10. CASE RequestCancelOld(q)
    <2>1. req[q].pc = "end" /\ RequestGo(q, "insert") /\ row' \in {row, End(req[q].old, "cancelled")}
      BY <1>10 DEF RequestCancelOld
    <2>2. Calm
      BY <1>1, <2>1, QuietUpdates DEF RequestOK, Terminal
    <2> QED BY <1>5, <1>6, <2>1, <2>2 DEF RequestState
  <1>11. CASE RequestInsert(q)
    <2>1. CASE \E s \in Session : Insert(s, req[q].user, req[q].category) /\ RequestGo(q, "created")
      BY <1>7, <1>11, <2>1 DEF RequestInsert
    <2>2. CASE row' = row /\ req' = [req EXCEPT ![q].pc = "expire", ![q].at = now]
      <3>1. RequestOK(q)' /\ req' \in [Request -> RequestRecord] /\ \A r \in Request \ {q} : req'[r] = req[r]
        BY <1>1, <1>11, <2>2 DEF RequestInsert, RequestOK, RequestRecord, RequestState
      <3> QED BY <1>5, <1>8, <2>2, <3>1
    <2>3. CASE row' = row /\ RequestGo(q, "failed")
      BY <1>5, <1>6, <1>8, <2>3 DEF RequestState
    <2> QED BY <1>11, <2>1, <2>2, <2>3 DEF RequestInsert
  <1>12. CASE RequestExpire(q) \/ RequestComplete(q)
    <2>1. OwnedBy(req[q].user) \in SUBSET Session
      BY DEF OwnedBy
    <2>2. row' \in {row, ExpirePending(OwnedBy(req[q].user)), CompleteGranted(OwnedBy(req[q].user))}
      BY <1>12 DEF RequestExpire, RequestComplete
    <2>3. Calm
      BY <1>1, <2>1, <2>2, QuietSweeps
    <2>4. \E pc \in {"complete", "retry", "unswept"} : RequestGo(q, pc) /\ req[q].pc \in {"expire", "complete"}
      BY <1>12 DEF RequestExpire, RequestComplete
    <2> QED BY <1>5, <1>6, <2>3, <2>4 DEF RequestState
  <1>13. CASE RequestRetry(q)
    <2>1. CASE \E s \in Session : Insert(s, req[q].user, req[q].category) /\ RequestGo(q, "created")
      BY <1>7, <1>13, <2>1 DEF RequestRetry
    <2>2. CASE row' = row /\ (RequestGo(q, "duplicate") \/ RequestGo(q, "failed"))
      BY <1>5, <1>6, <1>8, <2>2 DEF RequestState
    <2> QED BY <1>13, <2>1, <2>2 DEF RequestRetry
  <1> QED BY <1>9, <1>10, <1>11, <1>12, <1>13 DEF RequestStep

LEMMA DecisionStepGood ==
    ASSUME IInv, NEW d \in Decision, DecisionStep(d)
    PROVE  Good
  <1> USE DEF IInv
  <1>1. RowTypeOK /\ now \in Nat /\ DecisionOK(d) /\ dec \in [Decision -> DecisionRecord]
    BY DEF TypeOK, RowTypeOK, Handlers
  <1>2. UNCHANGED <<now, nextSweep, req, call, keeper, ws, offered>>
    BY DEF DecisionStep, DecisionRead, DecisionApprove, DecisionMiss, DecisionReject, DecisionOnly
  <1>3. ASSUME \A s \in Session : RowKept(s), typed \subseteq typed', DecisionOK(d)',
               \A e \in Decision \ {d} : dec'[e] = dec[e]
        PROVE  Handlers'
    BY <1>2, <1>3, HandlersKept DEF Handlers
  <1>4. ASSUME RowTypeOK', dec' \in [Decision -> DecisionRecord],
               typed' \subseteq Session \X (Code \cup {NoCode})
        PROVE  TypeOK'
    BY <1>2, <1>4 DEF TypeOK, RowTypeOK
  \* Only the program counter moves, to a miss or to an answer.
  <1>5. ASSUME NEW pc \in DecisionState, DecisionGo(d, pc), pc \notin {"approve", "miss"},
               pc = "reject" => dec[d].pc = "miss"
        PROVE  /\ DecisionOK(d)' /\ dec' \in [Decision -> DecisionRecord]
               /\ \A e \in Decision \ {d} : dec'[e] = dec[e]
    BY <1>1, <1>5 DEF DecisionGo, DecisionOK, DecisionRecord
  <1>6. ASSUME Calm, typed' = typed, NEW pc \in DecisionState, DecisionGo(d, pc),
               pc \notin {"approve", "miss"}, pc = "reject" => dec[d].pc = "miss"
        PROVE  Good
    <2>1. typed' \subseteq Session \X (Code \cup {NoCode})
      BY <1>6 DEF TypeOK
    <2> QED BY <1>2, <1>3, <1>4, <1>5, <1>6, <2>1, CalmKeeps DEF Calm, Quiet
  <1>7. row' = row => Calm
    BY <1>1, QuietSweeps
  <1>8. CASE DecisionRead(d)
    <2>1. PICK s \in Session, number \in Code \cup {NoCode} :
            /\ typed' = typed \cup {<<s, number>>}
            /\ dec' = [dec EXCEPT ![d] = [s |-> s, pc |->
                         IF ~IsPending(s) \/ row[s].nm = NoCode THEN "refused"
                         ELSE IF NumberMatches(s, number) THEN "approve" ELSE "miss"]]
      BY <1>8 DEF DecisionRead
    <2>2. row' = row
      BY <1>8 DEF DecisionRead
    <2>3. PICK pc \in {"refused", "approve", "miss"} :
            /\ dec' = [dec EXCEPT ![d] = [s |-> s, pc |-> pc]]
            /\ pc = "approve" => row[s].nm # NoCode /\ number = row[s].nm
      BY <2>1 DEF NumberMatches
    <2>4. pc = "approve" => Confirmed(s)'
      BY <1>2, <2>1, <2>3 DEF Confirmed, Drawn
    <2>5. dec'[d] = [s |-> s, pc |-> pc]
      BY <1>1, <2>3
    <2>6. DecisionOK(d)' /\ \A e \in Decision \ {d} : dec'[e] = dec[e]
      BY <1>1, <2>3, <2>4, <2>5 DEF DecisionOK, Confirmed
    <2>7. dec' \in [Decision -> DecisionRecord] /\ typed' \subseteq Session \X (Code \cup {NoCode})
      BY <1>1, <2>1, <2>3 DEF DecisionRecord, DecisionState, TypeOK
    <2> QED BY <1>2, <1>3, <1>4, <1>7, <2>1, <2>2, <2>6, <2>7, CalmKeeps DEF Calm, Quiet
  <1>9. CASE DecisionApprove(d)
    <2> DEFINE s == dec[d].s
    <2>1. s \in Session /\ Confirmed(s) /\ typed' = typed
      BY <1>1, <1>9 DEF DecisionOK, DecisionApprove
    <2>2. CASE row' = row /\ (DecisionGo(d, "refused") \/ DecisionGo(d, "failed"))
      BY <1>6, <1>7, <2>1, <2>2 DEF DecisionState
    <2>3. CASE IsPending(s) /\ row' = Activate(s) /\ DecisionGo(d, "approved")
      <3>1. /\ RowTypeOK' /\ \A t \in Session : RowKept(t)
            /\ row'[s].st = "active" /\ row'[s].nm = NoCode /\ row'[s].owner = row[s].owner
            /\ \A t \in Session \ {s} : row'[t] = row[t]
        BY <1>1, <2>1, <2>3, ActivateKeeps
      <3>2. TypeOK' /\ Handlers'
        BY <1>3, <1>4, <1>5, <2>1, <2>3, <3>1 DEF DecisionState, TypeOK
      <3>3. Live(s) /\ \A t \in Session \ {s} : (Live(t)' <=> Live(t)) /\ (IsGranted(t)' <=> IsGranted(t))
        BY <2>3, <3>1 DEF Live, IsGranted, IsPending, LiveStatus
      <3>4. OneLiveSession'
        BY <2>1, <3>1, <3>3 DEF OneLiveSession
      <3>5. ActiveWasConfirmed'
        BY <1>2, <2>1, <3>3 DEF ActiveWasConfirmed, Confirmed
      <3>6. Drawn'
        BY <1>2, <3>1 DEF Drawn
      <3> QED BY <3>1, <3>2, <3>4, <3>5, <3>6 DEF Good
    <2> QED BY <1>9, <2>2, <2>3 DEF DecisionApprove, Approvable
  <1>10. CASE DecisionMiss(d)
    <2>1. dec[d].s \in Session /\ dec[d].pc = "miss" /\ typed' = typed
      BY <1>1, <1>10 DEF DecisionOK, DecisionMiss
    <2>2. row' \in {row, CountMiss(dec[d].s)}
      BY <1>10 DEF DecisionMiss
    <2>3. Calm
      <3>1. CASE row' = row
        BY <1>7, <3>1
      <3>2. CASE row' = CountMiss(dec[d].s)
        BY <1>1, <2>1, <3>2, QuietUpdates DEF Terminal
      <3> QED BY <2>2, <3>1, <3>2
    <2>4. \E pc \in {"reject", "missed", "failed"} : DecisionGo(d, pc)
      BY <1>10 DEF DecisionMiss
    <2> QED BY <1>6, <2>1, <2>3, <2>4 DEF DecisionState
  <1>11. CASE DecisionReject(d)
    <2>1. dec[d].s \in Session /\ typed' = typed
      BY <1>1, <1>11 DEF DecisionOK, DecisionReject
    <2>2. Calm
      <3>1. CASE row' = row
        BY <1>7, <3>1
      <3>2. CASE row' = End(dec[d].s, "rejected")
        BY <1>1, <2>1, <3>2, QuietUpdates DEF Terminal
      <3> QED BY <1>11, <3>1, <3>2 DEF DecisionReject
    <2>3. \E pc \in {"locked", "failed"} : DecisionGo(d, pc)
      BY <1>11 DEF DecisionReject
    <2> QED BY <1>6, <2>1, <2>2, <2>3 DEF DecisionState
  <1> QED BY <1>8, <1>9, <1>10, <1>11 DEF DecisionStep

LEMMA CallStepGood ==
    ASSUME IInv, NEW c \in Call, CallStep(c)
    PROVE  Good
  <1> USE DEF IInv
  <1>1. RowTypeOK /\ now \in Nat /\ CallOK(c) /\ call \in [Call -> CallRecord]
    BY DEF TypeOK, RowTypeOK, Handlers
  <1>2. UNCHANGED <<now, nextSweep, req, dec, keeper, ws, typed>>
    BY DEF CallStep, AppConnect, WebConnect, ConnectUpdate, TransferRead, TransferUpdate,
           EndRead, EndUpdate, CallRead, CallOnly
  <1>3. ASSUME \A s \in Session : RowKept(s), offered \subseteq offered', CallOK(c)',
               \A e \in Call \ {c} : call'[e] = call[e]
        PROVE  Handlers'
    BY <1>2, <1>3, HandlersKept DEF Handlers
  <1>4. ASSUME RowTypeOK', call' \in [Call -> CallRecord], offered' \subseteq Session \X Code
        PROVE  TypeOK'
    BY <1>2, <1>4 DEF TypeOK, RowTypeOK
  <1>5. ASSUME Calm, offered' = offered, CallOK(c)', call' \in [Call -> CallRecord],
               \A e \in Call \ {c} : call'[e] = call[e]
        PROVE  Good
    <2>1. offered' \subseteq Session \X Code
      BY <1>5 DEF TypeOK
    <2> QED BY <1>2, <1>3, <1>4, <1>5, <2>1, CalmKeeps DEF Calm, Quiet
  \* A handler reads and goes on with what it read.
  <1>6. ASSUME NEW pc \in {"connect", "transfer", "end"}, NEW s \in Session,
               NEW op \in Operator \cup {None}, NEW actor \in Actor, NEW to \in Operator \cup {None},
               CallRead(c, pc, s, op, actor, to), pc = "connect" /\ actor = "operator" => op \in Operator
        PROVE  Good
    <2> DEFINE new == [pc |-> pc, s |-> s, op |-> op, actor |-> actor, to |-> to]
    <2>1. new \in CallRecord /\ call' = [call EXCEPT ![c] = new] /\ row' = row /\ offered' = offered
      BY <1>6 DEF CallRead, CallRecord, CallState
    <2>2. CallOK(c)' /\ call' \in [Call -> CallRecord] /\ \A e \in Call \ {c} : call'[e] = call[e]
      BY <1>1, <1>6, <2>1 DEF CallOK
    <2>3. Calm
      BY <1>1, <2>1, QuietSweeps
    <2> QED BY <1>5, <2>1, <2>2, <2>3
  \* A handler answers without a connect.
  <1>7. ASSUME Calm, offered' = offered, NEW pc \in CallState, CallGo(c, pc),
               pc \notin {"connect", "transfer", "end", "connected"}
        PROVE  Good
    <2>1. CallOK(c)' /\ call' \in [Call -> CallRecord] /\ \A e \in Call \ {c} : call'[e] = call[e]
      BY <1>1, <1>7 DEF CallOK, CallGo, CallRecord
    <2> QED BY <1>5, <1>7, <2>1
  <1>8. \A op \in Operator \cup {None}, s \in Session :
          /\ ActorFor(op, s) \in Actor
          /\ ActorFor(op, s) = "operator" => op \in Operator
    BY DEF ActorFor, Actor
  <1>9. CASE AppConnect(c)
    <2>1. PICK s \in Session, op \in Operator :
            CallRead(c, "connect", s, op, IF op \in Admin THEN "admin" ELSE "operator", None)
      BY <1>9 DEF AppConnect
    <2>2. (IF op \in Admin THEN "admin" ELSE "operator") \in Actor
      BY DEF Actor
    <2> QED BY <1>6, <2>1, <2>2
  <1>10. CASE WebConnect(c)
    <2>1. PICK s \in Session, op \in Operator \cup {None} : CallRead(c, "connect", s, op, ActorFor(op, s), None)
      BY <1>10 DEF WebConnect
    <2> QED BY <1>6, <1>8, <2>1
  <1>11. CASE TransferRead(c)
    <2>1. PICK s \in Session, op \in Operator \cup {None}, to \in Operator \cup {None} :
            CallRead(c, "transfer", s, op, ActorFor(op, s), to)
      BY <1>11 DEF TransferRead
    <2> QED BY <1>6, <1>8, <2>1
  <1>12. CASE EndRead(c)
    <2>1. PICK s \in Session, op \in Operator \cup {None} : CallRead(c, "end", s, op, ActorFor(op, s), None)
      BY <1>12 DEF EndRead
    <2> QED BY <1>6, <1>8, <2>1
  <1>13. CASE TransferUpdate(c)
    <2>1. call[c].s \in Session /\ call[c].to \in Operator \cup {None} /\ offered' = offered
      BY <1>1, <1>13 DEF TransferUpdate, CallOK, CallRecord
    <2>2. Calm
      <3>1. row' \in {row, HandOver(call[c].s, call[c].to)}
        BY <1>13 DEF TransferUpdate
      <3> QED BY <1>1, <2>1, <3>1, QuietUpdates DEF Terminal
    <2>3. \E pc \in {"transferred", "invalid", "failed"} : CallGo(c, pc)
      BY <1>13 DEF TransferUpdate
    <2> QED BY <1>7, <2>1, <2>2, <2>3 DEF CallState
  <1>14. CASE EndUpdate(c)
    <2>1. call[c].s \in Session /\ offered' = offered
      BY <1>1, <1>14 DEF EndUpdate, CallOK
    <2>2. Calm
      <3>1. row' \in {row, End(call[c].s, "ended_by_admin")}
        BY <1>14 DEF EndUpdate
      <3> QED BY <1>1, <2>1, <3>1, QuietUpdates DEF Terminal
    <2>3. \E pc \in {"ended", "invalid", "failed"} : CallGo(c, pc)
      BY <1>14 DEF EndUpdate
    <2> QED BY <1>7, <2>1, <2>2, <2>3 DEF CallState
  <1>15. CASE ConnectUpdate(c)
    <2>0. PICK s, op : s = call[c].s /\ op = call[c].op
      OBVIOUS
    <2>1. /\ s \in Session /\ op \in Operator \cup {None}
          /\ call[c].actor = "operator" => op \in Operator
      BY <1>1, <2>0, <1>15 DEF ConnectUpdate, CallOK, CallRecord
    <2>2. CASE /\ row' = row /\ offered' = offered
               /\ \E pc \in {"taken", "invalid", "failed"} : CallGo(c, pc)
      <3>1. Calm
        BY <1>1, <2>2, QuietSweeps
      <3> QED BY <1>7, <2>2, <3>1 DEF CallState
    <2>3. ASSUME Connectable(s, op, call[c].actor), CallGo(c, "connected"),
                 NEW code \in Code, row' = Connect(s, op, code), offered' = offered \cup {<<s, code>>}
          PROVE  Good
      <3>1. /\ RowTypeOK' /\ \A t \in Session : RowKept(t)
            /\ row'[s].st = "connecting" /\ row'[s].nm = code /\ row'[s].owner = row[s].owner
            /\ row'[s].assigned = Coalesce(row[s].assigned, op)
            /\ \A t \in Session \ {s} : row'[t] = row[t]
        BY <1>1, <2>1, <2>3, ConnectKeeps DEF Connectable
      <3>2. call[c].actor = "operator" => row'[s].assigned = op
        BY <2>1, <2>3, <3>1 DEF Connectable, Coalesce
      <3>3. call'[c] = [call[c] EXCEPT !.pc = "connected"] /\ call' \in [Call -> CallRecord]
              /\ \A e \in Call \ {c} : call'[e] = call[e]
        BY <1>1, <2>3 DEF CallGo, CallRecord, CallState
      <3>4. CallOK(c)'
        BY <1>1, <2>0, <2>1, <3>1, <3>2, <3>3 DEF CallOK, CallRecord
      <3>5. offered' \subseteq Session \X Code /\ offered \subseteq offered'
        BY <2>1, <2>3 DEF TypeOK
      <3>6. TypeOK' /\ Handlers'
        BY <1>3, <1>4, <3>1, <3>3, <3>4, <3>5
      <3>7. /\ Live(s) /\ ~IsGranted(s)'
            /\ \A t \in Session \ {s} : (Live(t)' <=> Live(t)) /\ (IsGranted(t)' <=> IsGranted(t))
        BY <2>3, <3>1 DEF Connectable, Live, IsGranted, IsPending, LiveStatus, Granted
      <3>8. OneLiveSession'
        BY <2>1, <3>1, <3>7 DEF OneLiveSession
      <3>9. ActiveWasConfirmed'
        BY <1>2, <3>5, <3>7 DEF ActiveWasConfirmed
      <3>10. Drawn'
        BY <2>3, <3>1, <3>5 DEF Drawn
      <3> QED BY <3>1, <3>6, <3>8, <3>9, <3>10 DEF Good
    <2> QED BY <1>15, <2>0, <2>2, <2>3 DEF ConnectUpdate
  <1> QED BY <1>9, <1>10, <1>11, <1>12, <1>13, <1>14, <1>15 DEF CallStep

\* Sweeps, sockets, the owner's refusal, a deletion and the clock.
LEMMA OtherStepsGood ==
    ASSUME IInv, \/ \E s \in Session : OwnerEnds(s) \/ Delete(s)
                 \/ \E k \in Keeper : KeeperStep(k)
                 \/ \E w \in Socket : SocketStep(w)
                 \/ Time \/ UNCHANGED vars
    PROVE  Good
  <1> USE DEF IInv
  <1>1. RowTypeOK
    BY DEF TypeOK, RowTypeOK
  <1>2. UNCHANGED <<req, dec, call, offered, typed>>
    BY DEF OwnerEnds, Delete, KeeperStep, SweepStart, SweepComplete, CleanupDelete, KeeperOnly,
           SocketStep, SocketOpen, SocketWatch, SocketLeave, SocketOnly, Time, vars
  <1>3. Calm
    <2>1. CASE \E s \in Session : OwnerEnds(s) \/ Delete(s)
      <3>1. PICK s \in Session, final \in {"rejected", "completed"} :
              row' \in {End(s, final), [row EXCEPT ![s].st = "deleted"]}
        BY <2>1 DEF OwnerEnds, Delete
      <3> QED BY <1>1, <3>1, QuietUpdates DEF Terminal
    <2>2. CASE \E k \in Keeper : KeeperStep(k)
      <3>1. row' \in {row, ExpirePending(Session), CompleteGranted(Session), RemoveTerminal}
        BY <2>2 DEF KeeperStep, SweepStart, SweepComplete, CleanupDelete
      <3> QED BY <1>1, <3>1, QuietSweeps
    <2>3. CASE row' = row
      BY <1>1, <2>3, QuietSweeps
    <2> QED BY <2>1, <2>2, <2>3 DEF SocketStep, SocketOpen, SocketWatch, SocketLeave, SocketOnly, Time, vars
  <1>4. now' \in Nat /\ nextSweep' \in Nat
    BY SupportAssumption DEF TypeOK, OwnerEnds, Delete, KeeperStep, SweepStart, SweepComplete, CleanupDelete,
       KeeperOnly, SocketStep, SocketOpen, SocketWatch, SocketLeave, SocketOnly, Time, vars
  <1>5. keeper' \in [Keeper -> KeeperRecord]
    BY DEF TypeOK, OwnerEnds, Delete, KeeperStep, KeeperGo, KeeperRecord, SweepStart, SweepComplete,
       CleanupDelete, SocketStep, SocketOpen, SocketWatch, SocketLeave, SocketOnly, Time, vars
  <1>6. ws' \in [Socket -> SocketRecord]
    BY DEF TypeOK, OwnerEnds, Delete, KeeperStep, SocketRecord, SweepStart, SweepComplete,
       CleanupDelete, KeeperOnly, SocketStep, SocketOpen, SocketWatch, SocketLeave, Time, vars
  <1>7. TypeOK'
    BY <1>2, <1>3, <1>4, <1>5, <1>6 DEF TypeOK, Calm, RowTypeOK
  <1>8. Handlers'
    BY <1>2, <1>3, HandlersKept DEF Handlers, Calm, Quiet
  <1> QED BY <1>2, <1>3, <1>7, <1>8, CalmKeeps

LEMMA StepGood ==
    ASSUME IInv, [Next]_vars
    PROVE  Good
  <1>1. ASSUME NEW q \in Request, RequestStep(q) PROVE Good
    BY <1>1, RequestStepGood
  <1>2. ASSUME NEW d \in Decision, DecisionStep(d) PROVE Good
    BY <1>2, DecisionStepGood
  <1>3. ASSUME NEW c \in Call, CallStep(c) PROVE Good
    BY <1>3, CallStepGood
  <1> QED BY <1>1, <1>2, <1>3, OtherStepsGood DEF Next

-----------------------------------------------------------------------------
(* The sweep before the retry.                                             *)

\* A row that is pending, or granted, dates from this step unless it was so
\* before, with the same date and the same owner.
Dated(s) ==
    /\ IsPending(s)' => \/ row'[s].created = now
                        \/ /\ IsPending(s) /\ row'[s].owner = row[s].owner
                           /\ row'[s].created = row[s].created
    /\ IsGranted(s)' => \/ row'[s].started = now
                        \/ /\ IsGranted(s) /\ row'[s].owner = row[s].owner
                           /\ row'[s].started = row[s].started

\* Since the sweep of its user no pending row, and since the second statement
\* no granted one, was overdue when the INSERT failed.
RequestSwept(q) ==
    /\ req[q].pc \in {"expire", "complete", "retry"} => req[q].at <= now
    /\ req[q].pc \in {"complete", "retry"} =>
         \A s \in Session : row[s].owner = req[q].user /\ IsPending(s)
                              => req[q].at <= row[s].created + PendingTTL
    /\ req[q].pc = "retry" =>
         \A s \in Session : row[s].owner = req[q].user /\ IsGranted(s)
                              => req[q].at <= row[s].started + ActiveMaxAge
Swept == \A q \in Request : RequestSwept(q)

LEMMA UpdatesDated ==
    ASSUME RowTypeOK, NEW s \in Session, NEW final \in Terminal, NEW op \in Operator \cup {None},
           row' \in {row, End(s, final), HandOver(s, op), CountMiss(s),
                     [row EXCEPT ![s].st = "deleted"]}
    PROVE  \A t \in Session : Dated(t)
  <1>1. Calm
    BY QuietUpdates
  <1>2. \A t \in Session : /\ row'[t].created = row[t].created
                           /\ row'[t].started = row[t].started
                           /\ IsPending(t)' => IsPending(t)
    <2> DEFINE ended == IF Live(s) THEN [row[s] EXCEPT !.st = final, !.nm = NoCode] ELSE row[s]
               handed == IF IsGranted(s) THEN [row[s] EXCEPT !.st = "transferred", !.to = op] ELSE row[s]
               missed == [row[s] EXCEPT !.misses = @ + 1]
               deleted == [row[s] EXCEPT !.st = "deleted"]
    <2>1. \A new \in {row[s], ended, handed, missed, deleted} :
             /\ new.created = row[s].created /\ new.started = row[s].started
             /\ new.st \in {row[s].st, "transferred", "deleted"} \cup Terminal
      <3> DEFINE Like(new) == /\ new.created = row[s].created /\ new.started = row[s].started
                              /\ new.st \in {row[s].st, "transferred", "deleted"} \cup Terminal
      <3>0. row[s] \in Row
        BY DEF RowTypeOK
      <3>1. Like(row[s])
        OBVIOUS
      <3>2. Like(ended)
        BY <3>0 DEF Row
      <3>3. Like(handed)
        BY <3>0 DEF Row
      <3>4. Like(missed)
        BY <3>0 DEF Row
      <3>5. Like(deleted)
        BY <3>0 DEF Row
      <3> HIDE DEF ended, handed, missed, deleted, Like
      <3>6. \A new \in {row[s], ended, handed, missed, deleted} : Like(new)
        BY <3>1, <3>2, <3>3, <3>4, <3>5
      <3> QED BY <3>6 DEF Like
    <2>2. PICK new \in {row[s], ended, handed, missed, deleted} : row' = [row EXCEPT ![s] = new]
      <3>1. CASE row' = row
        BY <3>1 DEF RowTypeOK
      <3>2. CASE row' = End(s, final)
        BY <3>2 DEF End, Live
      <3>3. CASE row' = HandOver(s, op)
        BY <3>3 DEF HandOver, IsGranted
      <3>4. CASE row' = CountMiss(s)
        BY <3>4 DEF CountMiss
      <3>5. CASE row' = [row EXCEPT ![s].st = "deleted"]
        BY <3>5
      <3> QED BY <3>1, <3>2, <3>3, <3>4, <3>5
    <2> HIDE DEF ended, handed, missed, deleted
    <2>3. row'[s] = new /\ \A t \in Session \ {s} : row'[t] = row[t]
      BY <2>2 DEF RowTypeOK
    <2> QED BY <2>1, <2>3 DEF IsPending, Pending, Terminal
  <1> QED BY <1>1, <1>2 DEF Dated, Calm, Quiet

LEMMA SweepsDated ==
    ASSUME RowTypeOK, NEW scope \in SUBSET Session,
           row' \in {row, ExpirePending(scope), CompleteGranted(scope), RemoveTerminal}
    PROVE  \A t \in Session : Dated(t)
  <1>1. Calm
    BY QuietSweeps
  <1>2. \A t \in Session : /\ row'[t].created = row[t].created
                           /\ row'[t].started = row[t].started
                           /\ row'[t].st \in {row[t].st, "expired", "completed", "deleted"}
    BY DEF RowTypeOK, Row, ExpirePending, CompleteGranted, RemoveTerminal
  <1> QED BY <1>1, <1>2 DEF Dated, Calm, Quiet, IsPending, Pending

\* The statements a step may send.
LEMMA OneStatement ==
    ASSUME IInv, Next
    PROVE  \/ \E s \in Session, final \in Terminal, op \in Operator \cup {None} :
                row' \in {row, End(s, final), HandOver(s, op), CountMiss(s),
                          [row EXCEPT ![s].st = "deleted"]}
           \/ \E scope \in SUBSET Session :
                row' \in {row, ExpirePending(scope), CompleteGranted(scope), RemoveTerminal}
           \/ \E s \in Session, u \in User, k \in Category : Insert(s, u, k)
           \/ \E s \in Session, op \in Operator \cup {None}, code \in Code :
                IsPending(s) /\ row' = Connect(s, op, code)
           \/ \E s \in Session : IsPending(s) /\ row' = Activate(s)
  <1>1. TypeOK /\ Handlers
    BY DEF IInv
  <1>2. Session \in SUBSET Session /\ {} \in SUBSET Session
        /\ \A u \in User : OwnedBy(u) \in SUBSET Session
    BY DEF OwnedBy
  <1>3. {"cancelled", "rejected", "completed", "ended_by_admin"} \subseteq Terminal
    BY DEF Terminal
  <1>4. ASSUME NEW q \in Request, RequestStep(q), row' # row
        PROVE  \/ \E s \in Session : row' = End(s, "cancelled")
               \/ \E scope \in SUBSET Session :
                    row' \in {ExpirePending(scope), CompleteGranted(scope)}
               \/ \E s \in Session, u \in User, k \in Category : Insert(s, u, k)
    <2>1. RequestOK(q)
      BY <1>1 DEF Handlers
    <2> QED BY <1>2, <1>4, <2>1
         DEF RequestOK, RequestStep, RequestRead, RequestCancelOld, RequestInsert, RequestExpire,
             RequestComplete, RequestRetry
  <1>5. ASSUME NEW d \in Decision, DecisionStep(d), row' # row
        PROVE  \/ \E s \in Session : row' \in {End(s, "rejected"), CountMiss(s)}
               \/ \E s \in Session : IsPending(s) /\ row' = Activate(s)
    <2>1. DecisionOK(d)
      BY <1>1 DEF Handlers
    <2> QED BY <1>5, <2>1
         DEF DecisionOK, DecisionStep, DecisionRead, DecisionApprove, Approvable, DecisionMiss,
             DecisionReject
  <1>6. ASSUME NEW c \in Call, CallStep(c), row' # row
        PROVE  \/ \E s \in Session, op \in Operator \cup {None} :
                    row' \in {End(s, "ended_by_admin"), HandOver(s, op)}
               \/ \E s \in Session, op \in Operator \cup {None}, code \in Code :
                    IsPending(s) /\ row' = Connect(s, op, code)
    <2>1. CallOK(c) /\ call[c].op \in Operator \cup {None} /\ call[c].to \in Operator \cup {None}
      BY <1>1 DEF Handlers, TypeOK, CallRecord
    <2> QED BY <1>6, <2>1
         DEF CallOK, CallStep, AppConnect, WebConnect, CallRead, ConnectUpdate, Connectable,
             TransferRead, TransferUpdate, EndRead, EndUpdate
  <1>7. ASSUME NEW s \in Session, OwnerEnds(s) \/ Delete(s)
        PROVE  \E final \in {"rejected", "completed"} :
                 row' \in {End(s, final), [row EXCEPT ![s].st = "deleted"]}
    BY <1>7 DEF OwnerEnds, Delete
  <1>8. ASSUME NEW k \in Keeper, KeeperStep(k)
        PROVE  row' \in {row, ExpirePending(Session), CompleteGranted(Session), RemoveTerminal}
    BY <1>8 DEF KeeperStep, SweepStart, SweepComplete, CleanupDelete
  <1>9. ASSUME (\E w \in Socket : SocketStep(w)) \/ Time
        PROVE  row' = row
    BY <1>9 DEF SocketStep, SocketOpen, SocketWatch, SocketLeave, SocketOnly, Time
  <1>10. CASE row' = row
    BY <1>2, <1>10
  <1>11. CASE \E q \in Request : RequestStep(q)
    BY <1>3, <1>4, <1>10, <1>11
  <1>12. CASE \E d \in Decision : DecisionStep(d)
    BY <1>3, <1>5, <1>10, <1>12
  <1>13. CASE \E c \in Call : CallStep(c)
    BY <1>3, <1>6, <1>10, <1>13
  <1>14. CASE \E s \in Session : OwnerEnds(s) \/ Delete(s)
    BY <1>3, <1>7, <1>14
  <1>15. CASE \E k \in Keeper : KeeperStep(k)
    BY <1>2, <1>8, <1>15
  <1> QED BY <1>9, <1>10, <1>11, <1>12, <1>13, <1>14, <1>15 DEF Next

LEMMA StepDated ==
    ASSUME IInv, Next
    PROVE  /\ \A s \in Session : Dated(s)
           /\ now \in Nat /\ now' \in {now, now + 1}
  <1>1. RowTypeOK /\ now \in Nat
    BY DEF IInv, TypeOK, RowTypeOK
  <1>2. now' \in {now, now + 1}
    BY DEF Next, RequestStep, RequestRead, RequestCancelOld, RequestInsert, RequestExpire,
           RequestComplete, RequestRetry, RequestOnly, DecisionStep, DecisionRead, DecisionApprove,
           DecisionMiss, DecisionReject, DecisionOnly, CallStep, AppConnect, WebConnect, CallRead,
           ConnectUpdate, TransferRead, TransferUpdate, EndRead, EndUpdate, CallOnly, OwnerEnds,
           Delete, KeeperStep, SweepStart, SweepComplete, CleanupDelete, KeeperOnly, SocketStep,
           SocketOpen, SocketWatch, SocketLeave, SocketOnly, Time
  <1>3. ASSUME NEW s \in Session, NEW u \in User, NEW k \in Category, Insert(s, u, k)
        PROVE  \A t \in Session : Dated(t)
    <2>1. /\ \A t \in Session \ {s} : row'[t] = row[t]
          /\ row'[s].st = "requested"
      BY <1>1, <1>3, InsertKeeps
    <2>2. row'[s].created = now
      BY <1>1, <1>3 DEF Insert, EmptyRow, RowTypeOK
    <2> QED BY <2>1, <2>2 DEF Dated, IsPending, IsGranted, Granted
  <1>4. ASSUME NEW s \in Session, NEW op \in Operator \cup {None}, NEW code \in Code,
               IsPending(s), row' = Connect(s, op, code)
        PROVE  \A t \in Session : Dated(t)
    <2>1. /\ \A t \in Session \ {s} : row'[t] = row[t]
          /\ row'[s].st = "connecting" /\ row'[s].owner = row[s].owner
      BY <1>1, <1>4, ConnectKeeps
    <2>2. row'[s].created = row[s].created
      BY <1>1, <1>4 DEF Connect, RowTypeOK, Row
    <2> QED BY <1>4, <2>1, <2>2 DEF Dated, IsPending, IsGranted, Granted
  <1>5. ASSUME NEW s \in Session, IsPending(s), row' = Activate(s)
        PROVE  \A t \in Session : Dated(t)
    <2>1. /\ \A t \in Session \ {s} : row'[t] = row[t]
          /\ row'[s].st = "active"
      BY <1>1, <1>5, ActivateKeeps
    <2>2. row'[s].started = now
      BY <1>1, <1>5 DEF Activate, RowTypeOK, Row
    <2> QED BY <2>1, <2>2 DEF Dated, IsPending, Pending, IsGranted
  <1>6. \A s \in Session : Dated(s)
    BY <1>1, <1>3, <1>4, <1>5, OneStatement, UpdatesDated, SweepsDated
  <1> QED BY <1>1, <1>2, <1>6

\* A handler that does not move: what others write is newer than its failure.
LEMMA SweptStays ==
    ASSUME IInv, Next, NEW q \in Request, RequestSwept(q), req'[q] = req[q]
    PROVE  RequestSwept(q)'
  <1>1. /\ PendingTTL \in Nat /\ ActiveMaxAge \in Nat
        /\ now \in Nat /\ now' \in {now, now + 1} /\ \A s \in Session : Dated(s)
        /\ req[q].at \in Nat
    BY StepDated, SupportAssumption DEF IInv, TypeOK, RequestRecord
  <1>2. req[q].pc \in {"expire", "complete", "retry"} => req[q].at <= now /\ req[q].at <= now'
    BY <1>1 DEF RequestSwept
  <1>3. ASSUME req[q].pc \in {"complete", "retry"}, NEW s \in Session,
               row'[s].owner = req[q].user, IsPending(s)'
        PROVE  req[q].at <= row'[s].created + PendingTTL
    BY <1>1, <1>2, <1>3 DEF Dated, RequestSwept
  <1>4. ASSUME req[q].pc = "retry", NEW s \in Session,
               row'[s].owner = req[q].user, IsGranted(s)'
        PROVE  req[q].at <= row'[s].started + ActiveMaxAge
    BY <1>1, <1>2, <1>4 DEF Dated, RequestSwept
  <1> QED BY <1>2, <1>3, <1>4 DEF RequestSwept, IsPending, IsGranted

LEMMA StepSwept ==
    ASSUME IInv, Swept, Next
    PROVE  Swept'
  <1>1. /\ RowTypeOK /\ now \in Nat /\ req \in [Request -> RequestRecord]
        /\ PendingTTL \in Nat /\ ActiveMaxAge \in Nat
    BY SupportAssumption DEF IInv, TypeOK, RowTypeOK
  <1>2. ASSUME NEW q \in Request, RequestStep(q)
        PROVE  /\ now' = now /\ RequestSwept(q)'
               /\ \A p \in Request \ {q} : req'[p] = req[p]
    <2>1. now' = now
      BY <1>2 DEF RequestStep, RequestRead, RequestCancelOld, RequestInsert, RequestExpire,
                  RequestComplete, RequestRetry, RequestOnly
    <2>2. ASSUME NEW pc \in RequestState, RequestGo(q, pc)
          PROVE  /\ req'[q].pc = pc /\ req'[q].at = req[q].at /\ req'[q].user = req[q].user
                 /\ \A p \in Request \ {q} : req'[p] = req[p]
      BY <1>1, <2>2 DEF RequestGo, RequestRecord
    <2>3. ASSUME NEW pc \in RequestState \ {"expire", "complete", "retry"}, RequestGo(q, pc)
          PROVE  RequestSwept(q)' /\ \A p \in Request \ {q} : req'[p] = req[p]
      BY <2>2, <2>3 DEF RequestSwept
    <2>4. CASE RequestRead(q)
      <3>1. PICK u \in User, k \in Category, pc \in {"active_already", "end", "insert"},
                 old \in Session \cup {None} :
              req' = [req EXCEPT ![q] = [pc |-> pc, user |-> u, category |-> k, old |-> old, at |-> 0]]
        BY <2>4 DEF RequestRead, ActiveByUser
      <3>2. req'[q].pc = pc /\ \A p \in Request \ {q} : req'[p] = req[p]
        BY <1>1, <3>1
      <3> QED BY <2>1, <3>1, <3>2 DEF RequestSwept
    <2>5. CASE RequestInsert(q)
      <3>1. CASE req' = [req EXCEPT ![q].pc = "expire", ![q].at = now]
        <4>1. /\ req'[q].pc = "expire" /\ req'[q].at = now
              /\ \A p \in Request \ {q} : req'[p] = req[p]
          BY <1>1, <3>1 DEF RequestRecord
        <4> QED BY <1>1, <2>1, <4>1 DEF RequestSwept
      <3> QED BY <2>1, <2>3, <2>5, <3>1 DEF RequestInsert, RequestState
    <2>6. CASE RequestCancelOld(q) \/ RequestRetry(q)
      BY <2>1, <2>3, <2>6 DEF RequestCancelOld, RequestRetry, RequestState
    <2>7. CASE RequestExpire(q)
      <3>1. CASE row' = ExpirePending(OwnedBy(req[q].user)) /\ RequestGo(q, "complete")
        <4>1. /\ req'[q].pc = "complete" /\ req'[q].at = req[q].at /\ req'[q].user = req[q].user
              /\ \A p \in Request \ {q} : req'[p] = req[p]
          BY <2>2, <3>1 DEF RequestState
        <4>2. req[q].at <= now /\ req[q].at \in Nat
          BY <1>1, <2>7 DEF RequestExpire, Swept, RequestSwept, RequestRecord
        <4>3. ASSUME NEW s \in Session, row'[s].owner = req[q].user, IsPending(s)'
              PROVE  req[q].at <= row'[s].created + PendingTTL
          <5>1. row'[s].owner = row[s].owner
            BY <1>1, <3>1 DEF ExpirePending, RowTypeOK, Row
          <5>2. s \in OwnedBy(req[q].user)
            BY <4>3, <5>1 DEF OwnedBy
          <5>3. ~PendingOverdue(s) /\ row'[s] = row[s]
            BY <1>1, <3>1, <4>3, <5>2 DEF ExpirePending, RowTypeOK, Row, IsPending, Pending
          <5>4. IsPending(s) /\ row[s].created \in Nat
            BY <1>1, <4>3, <5>3 DEF IsPending, RowTypeOK, Row
          <5> QED BY <1>1, <4>2, <5>3, <5>4 DEF PendingOverdue
        <4> QED BY <2>1, <4>1, <4>2, <4>3 DEF RequestSwept, IsPending
      <3> QED BY <2>1, <2>3, <2>7, <3>1 DEF RequestExpire, RequestState
    <2>8. CASE RequestComplete(q)
      <3>1. CASE row' = CompleteGranted(OwnedBy(req[q].user)) /\ RequestGo(q, "retry")
        <4>1. /\ req'[q].pc = "retry" /\ req'[q].at = req[q].at /\ req'[q].user = req[q].user
              /\ \A p \in Request \ {q} : req'[p] = req[p]
          BY <2>2, <3>1 DEF RequestState
        <4>2. /\ req[q].at <= now /\ req[q].at \in Nat
              /\ \A s \in Session : row[s].owner = req[q].user /\ IsPending(s)
                                      => req[q].at <= row[s].created + PendingTTL
          BY <1>1, <2>8 DEF RequestComplete, Swept, RequestSwept, RequestRecord
        <4>3. \A s \in Session : row'[s].owner = row[s].owner /\ row'[s].created = row[s].created
          BY <1>1, <3>1 DEF CompleteGranted, RowTypeOK, Row
        <4>4. ASSUME NEW s \in Session, row'[s].owner = req[q].user, IsPending(s)'
              PROVE  req[q].at <= row'[s].created + PendingTTL
          <5>1. IsPending(s)
            BY <1>1, <3>1, <4>4 DEF CompleteGranted, RowTypeOK, Row, IsPending, Pending
          <5> QED BY <4>2, <4>3, <4>4, <5>1
        <4>5. ASSUME NEW s \in Session, row'[s].owner = req[q].user, IsGranted(s)'
              PROVE  req[q].at <= row'[s].started + ActiveMaxAge
          <5>1. s \in OwnedBy(req[q].user)
            BY <4>3, <4>5 DEF OwnedBy
          <5>2. ~GrantOverdue(s) /\ row'[s] = row[s]
            BY <1>1, <3>1, <4>5, <5>1 DEF CompleteGranted, RowTypeOK, Row, IsGranted, Granted
          <5>3. IsGranted(s) /\ row[s].started \in Nat
            BY <1>1, <4>5, <5>2 DEF IsGranted, RowTypeOK, Row
          <5> QED BY <1>1, <4>2, <5>2, <5>3 DEF GrantOverdue
        <4> QED BY <2>1, <4>1, <4>2, <4>4, <4>5 DEF RequestSwept, IsPending, IsGranted
      <3> QED BY <2>1, <2>3, <2>8, <3>1 DEF RequestComplete, RequestState
    <2> QED BY <1>2, <2>1, <2>4, <2>5, <2>6, <2>7, <2>8 DEF RequestStep
  <1>3. CASE UNCHANGED req
    BY <1>3, SweptStays DEF Swept
  <1>4. CASE \E q \in Request : RequestStep(q)
    BY <1>2, <1>4, SweptStays DEF Swept
  <1>5. UNCHANGED req \/ \E q \in Request : RequestStep(q)
    BY DEF Next, DecisionStep, DecisionRead, DecisionApprove,
           DecisionMiss, DecisionReject, DecisionOnly, CallStep, AppConnect, WebConnect, CallRead,
           ConnectUpdate, TransferRead, TransferUpdate, EndRead, EndUpdate, CallOnly, OwnerEnds,
           Delete, KeeperStep, SweepStart, SweepComplete, CleanupDelete, KeeperOnly, SocketStep,
           SocketOpen, SocketWatch, SocketLeave, SocketOnly, Time
  <1> QED BY <1>3, <1>4, <1>5

-----------------------------------------------------------------------------
(* The theorems.                                                           *)

\* Every reachable state satisfies the inductive invariant.
THEOREM Invariance == Spec => []IInv
  <1>1. IInv /\ [Next]_vars => IInv'
    BY StepGood DEF Good
  <1> QED BY <1>1, InitInv, PTL DEF Spec

\* The rows, the clock and the handlers keep their types.
THEOREM TypeCorrect == Spec => []TypeOK
  <1>1. IInv => TypeOK
    BY DEF IInv
  <1> QED BY <1>1, Invariance, PTL

\* No desktop is open to an engineer whose number its owner has not typed.
THEOREM AccessNeedsOwner == Spec => []ActiveWasConfirmed
  <1>1. IInv => ActiveWasConfirmed
    BY DEF IInv
  <1> QED BY <1>1, Invariance, PTL

\* A user never has two live sessions.
THEOREM OneSessionPerUser == Spec => []OneLiveSession
  <1>1. IInv => OneLiveSession
    BY DEF IInv
  <1> QED BY <1>1, Invariance, PTL

\* An engineer to whom the session was promised is not replaced.
THEOREM EngineerIsKept == Spec => []EngineerKeepsSession
  <1>1. IInv => EngineerKeepsSession
    BY DEF IInv, Handlers, CallOK, EngineerKeepsSession
  <1> QED BY <1>1, Invariance, PTL

\* No step of any handler brings back a session that has ended.
THEOREM EndIsFinal == Spec => TerminalIsFinal
  <1>1. IInv /\ [Next]_vars
          => [\A s \in Session : row[s].st \in Terminal => row'[s].st \in {row[s].st, "deleted"}]_vars
    BY StepGood DEF Good, RowKept
  <1> QED BY <1>1, Invariance, PTL DEF Spec, TerminalIsFinal

\* A request is refused as a duplicate only because of a session that was not
\* overdue when the INSERT failed: the two statements before the retry end
\* those that were, and what comes to be pending or granted later is newer
\* (SupportSessionExpireStaleByUser).
THEOREM StaleNeverBlocks == Spec => OverdueNeverBlocks
  <1> DEFINE Blocked ==
               \A q \in Request : req[q].pc # "duplicate" /\ req'[q].pc = "duplicate"
                 => \E s \in Session : /\ row[s].owner = req[q].user
                                       /\ Live(s) /\ ~WasOverdue(s, req[q].at)
  <1>1. Init => Swept
    BY DEF Init, Swept, RequestSwept
  <1>2. IInv /\ Swept /\ [Next]_vars => Swept'
    <2>1. ASSUME Swept, UNCHANGED vars
          PROVE  Swept'
      BY <2>1 DEF vars, Swept, RequestSwept, IsPending, IsGranted
    <2> QED BY <2>1, StepSwept
  <1>3. ASSUME IInv, Swept, Next
        PROVE  Blocked
    <2> SUFFICES ASSUME NEW q \in Request, req[q].pc # "duplicate", req'[q].pc = "duplicate"
                 PROVE  \E s \in Session : /\ row[s].owner = req[q].user
                                           /\ Live(s) /\ ~WasOverdue(s, req[q].at)
      OBVIOUS
    <2>1. req \in [Request -> RequestRecord] /\ row \in [Session -> Row]
      BY <1>3 DEF IInv, TypeOK
    <2>2. RequestRetry(q) /\ RequestGo(q, "duplicate")
      <3>1. PICK p \in Request : RequestStep(p)
        BY <1>3 DEF Next, DecisionStep, DecisionRead, DecisionApprove, DecisionMiss,
               DecisionReject, DecisionOnly, CallStep, AppConnect, WebConnect, CallRead,
               ConnectUpdate, TransferRead, TransferUpdate, EndRead, EndUpdate, CallOnly, OwnerEnds,
               Delete, KeeperStep, SweepStart, SweepComplete, CleanupDelete, KeeperOnly, SocketStep,
               SocketOpen, SocketWatch, SocketLeave, SocketOnly, Time
      <3>2. ASSUME NEW pc, RequestGo(p, pc)
            PROVE  p = q /\ pc = "duplicate"
        BY <2>1, <3>2 DEF RequestGo, RequestRecord
      <3>3. ~RequestRead(p)
        <4> SUFFICES ASSUME RequestRead(p) PROVE FALSE
          OBVIOUS
        <4>1. PICK u \in User, k \in Category, pc \in {"active_already", "end", "insert"},
                   old \in Session \cup {None} :
                req' = [req EXCEPT ![p] = [pc |-> pc, user |-> u, category |-> k, old |-> old, at |-> 0]]
          BY DEF RequestRead, ActiveByUser
        <4> QED BY <2>1, <4>1
      <3>4. ~(req' = [req EXCEPT ![p].pc = "expire", ![p].at = now])
        BY <2>1 DEF RequestRecord
      <3> QED BY <3>1, <3>2, <3>3, <3>4
           DEF RequestStep, RequestCancelOld, RequestInsert, RequestExpire, RequestComplete,
               RequestRetry
    <2>3. req[q].pc = "retry" /\ ~IndexFree(req[q].user)
      <3>1. ~RequestGo(q, "created") /\ ~RequestGo(q, "failed")
        BY <2>1, <2>2 DEF RequestGo, RequestRecord
      <3> QED BY <2>2, <3>1 DEF RequestRetry
    <2>4. PICK s \in Session : row[s].owner = req[q].user /\ Live(s)
      BY <2>3 DEF IndexFree
    <2>5. RequestSwept(q)
      BY <1>3 DEF Swept
    <2>6. /\ req[q].at \in Nat /\ row[s].created \in Nat /\ row[s].started \in Nat
          /\ PendingTTL \in Nat /\ ActiveMaxAge \in Nat
      BY <2>1, SupportAssumption DEF RequestRecord, Row
    <2>7. ~WasOverdue(s, req[q].at)
      BY <2>3, <2>4, <2>5, <2>6 DEF WasOverdue, RequestSwept
    <2> QED BY <2>4, <2>7
  <1>4. IInv /\ Swept /\ [Next]_vars => [Blocked]_vars
    BY <1>3
  <1> HIDE DEF Blocked
  <1>5. Spec => [][Blocked]_vars
    BY <1>1, <1>2, <1>4, Invariance, PTL DEF Spec
  <1> QED BY <1>5 DEF OverdueNeverBlocks, Blocked

=============================================================================

-------------------------- MODULE PushLoginProofs --------------------------
(***************************************************************************)
(* Safety of PushLogin for any number of requests, tabs, answers and rows. *)
(*                                                                         *)
(* The lemmas of ChallengeTableProofs say what one SQL statement does to   *)
(* any row; the inductive invariant relates the goroutines to the rows     *)
(* they hold.                                                              *)
(***************************************************************************)
EXTENDS PushLogin, ChallengeTableProofs

-----------------------------------------------------------------------------
(* The inductive invariant.                                                *)

\* A goroutine past the INSERT holds a row, and a channel was picked before.
Places ==
    /\ \A r \in Request : req[r].pc \in {"send", "wait", "claim", "accept"} => req[r].ch # None
    /\ \A t \in Tab :
         /\ tab[t].pc \in {"send", "poll", "select", "mark", "session"} => tab[t].ch # None
         /\ tab[t].pc \in {"limit", "create", "send"} => tab[t].at <= Len(Prefer)
    /\ \A a \in Tap : tap[a].pc \in {"set", "miss", "close"} => tap[a].ch # None

\* The rows the goroutines hold are of their own flow; the rows of a push
\* are of one of the two flows; a push is approved by an answer only.
Rows ==
    /\ \A r \in Request : req[r].ch # None =>
         db[req[r].ch].st # "absent" /\ db[req[r].ch].purpose = "radius"
    /\ \A t \in Tab : tab[t].ch # None =>
         db[tab[t].ch].st # "absent" /\ db[tab[t].ch].purpose = "api"
    /\ \A c \in Challenge :
         /\ db[c].st # "absent" => db[c].purpose \in {"api", "radius"}
         /\ db[c].push = "approved" => c \in approved

\* A session has spent its row, and nobody else's.
Sessions ==
    /\ \A t \in Tab : tab[t].pc = "session" => Spent(tab[t].ch)
    /\ SessionOncePerPush

IInv == TypeOK /\ Places /\ Rows /\ GrantWasApproved /\ Sessions

LEMMA InitInv == Init => IInv
  <1> SUFFICES ASSUME Init PROVE IInv
    OBVIOUS
  <1>1. EmptyRow \in Row
    BY DEF EmptyRow, Row, Purpose, Channel, PushState
  <1>2. 1 \in 1..Len(Prefer) + 1 /\ MaxGetFails \in Nat \ {0}
    BY PushLoginAssumption
  <1>3. TypeOK
    BY <1>1, <1>2 DEF Init, TableInit, TypeOK, ChallengeTypeOK, ReqRecord, TabRecord, TapRecord,
                        ReqState, TabState, TapState
  <1>4. Places /\ Rows
    BY DEF Init, TableInit, Places, Rows, EmptyRow
  <1>5. GrantWasApproved /\ Sessions
    BY DEF Init, GrantWasApproved, Sessions, SessionOncePerPush
  <1> QED BY <1>3, <1>4, <1>5 DEF IInv

\* What a step does to the table, whoever takes it.
TableKept ==
    /\ db' \in [Challenge -> Row]
    /\ \A c \in Challenge : RowKept(c)

LEMMA NextKeepsTable ==
    ASSUME IInv, Next
    PROVE  TableKept
  <1> USE DEF TableKept
  <1>a. ChallengeTypeOK
    BY DEF IInv, TypeOK
  <1>b. CASE db' = db
    BY <1>a, <1>b DEF RowKept, Spent, Claimable, Live, ChallengeTypeOK
  <1>c. ASSUME NEW c \in Challenge, NEW s \in PushState,
               db' \in {db, MarkUsed(c), DecrAttempt(c), SetPush(c, s), DeleteRow(c)}
        PROVE  TableKept
    BY <1>a, <1>c, UpdateKeeps
  <1>d. "pending" \in PushState /\ "approved" \in PushState /\ "denied" \in PushState
    BY DEF PushState
  <1>1. ASSUME NEW r \in Request, RadiusStep(r)
        PROVE  TableKept
    <2>1. CASE RadiusCreate(r)
      <3> DEFINE h == IF RadiusApp THEN "app_push" ELSE "telegram_push"
      <3>1. h \in Channel /\ "radius" \in Purpose /\ 1 \in Nat /\ CodeTTL \in Nat
        BY PushLoginAssumption DEF Channel, Purpose
      <3>2. CASE \E c \in Challenge :
                   ChallengeCreate(c, "radius", h, "pending", NoCode, 1, CodeTTL)
        BY <1>a, <1>d, <3>1, <3>2, CreateKeeps
      <3> QED BY <1>b, <2>1, <3>2 DEF RadiusCreate
    <2>2. CASE RadiusSend(r)
      <3>1. req[r].ch \in Challenge
        BY <2>2 DEF IInv, TypeOK, ReqRecord, TabRecord, TapRecord, Places, RadiusSend
      <3> QED BY <1>c, <1>d, <2>2, <3>1 DEF RadiusSend
    <2>3. CASE RadiusClaim(r)
      <3>1. req[r].ch \in Challenge
        BY <2>3 DEF IInv, TypeOK, ReqRecord, TabRecord, TapRecord, Places, RadiusClaim
      <3> QED BY <1>c, <1>d, <2>3, <3>1 DEF RadiusClaim
    <2> QED BY <1>b, <1>1, <2>1, <2>2, <2>3
            DEF RadiusStep, RadiusArrive, RadiusCheckLimit, RadiusPoll, RadiusCancel
  <1>2. ASSUME NEW t \in Tab, WebStep(t)
        PROVE  TableKept
    <2>1. CASE WebCreate(t)
      <3>1. /\ Prefer[tab[t].at] \in Channel
            /\ "api" \in Purpose /\ 1 \in Nat /\ CodeTTL \in Nat
        BY <2>1, PushLoginAssumption
           DEF IInv, TypeOK, ReqRecord, TabRecord, TapRecord, Places, WebCreate, Channel, PushChannel, Purpose
      <3>2. CASE \E c \in Challenge :
                   ChallengeCreate(c, "api", Prefer[tab[t].at], "pending", NoCode, 1, CodeTTL)
        BY <1>a, <1>d, <3>1, <3>2, CreateKeeps
      <3> QED BY <1>b, <2>1, <3>2 DEF WebCreate
    <2>2. CASE WebSend(t)
      <3>1. tab[t].ch \in Challenge
        BY <2>2 DEF IInv, TypeOK, ReqRecord, TabRecord, TapRecord, Places, WebSend
      <3> QED BY <1>c, <1>d, <2>2, <3>1 DEF WebSend
    <2>3. CASE WebMark(t)
      <3>1. tab[t].ch \in Challenge
        BY <2>3 DEF IInv, TypeOK, ReqRecord, TabRecord, TapRecord, Places, WebMark
      <3> QED BY <1>c, <1>d, <2>3, <3>1 DEF WebMark
    <2> QED BY <1>b, <1>2, <2>1, <2>2, <2>3
            DEF WebStep, WebStart, WebShare, WebCheckLimit, WebPoll, WebSelect
  <1>3. ASSUME NEW a \in Tap, TapStep(a)
        PROVE  TableKept
    <2>1. CASE AppMiss(a) \/ AppClose(a) \/ SetAnswer(a)
      <3>1. tap[a].ch \in Challenge /\ tap[a].verdict \in PushState
        BY <2>1 DEF IInv, TypeOK, ReqRecord, TabRecord, TapRecord, Places, AppMiss, AppClose, SetAnswer, PushState
      <3> QED BY <1>c, <1>d, <2>1, <3>1 DEF AppMiss, AppClose, SetAnswer
    <2> QED BY <1>b, <1>3, <2>1 DEF TapStep, AppAnswer, BotAnswer, SetAnswerFails
  <1>4. CASE Time
    BY <1>b, <1>4 DEF Time
  <1> QED BY <1>1, <1>2, <1>3, <1>4 DEF Next

-----------------------------------------------------------------------------
(* What the assignments of the program counters do.                        *)

LEMMA AnswerStep ==
    ASSUME TypeOK, NEW r \in Request, NEW reason \in ReqState, Answer(r, reason)
    PROVE  /\ req' \in [Request -> ReqRecord]
           /\ req'[r].pc = reason /\ req'[r].ch = req[r].ch
           /\ \A s \in Request \ {r} : req'[s] = req[s]
  <1>1. [req[r] EXCEPT !.pc = reason] \in ReqRecord
    BY DEF TypeOK, ReqRecord
  <1>2. /\ [req[r] EXCEPT !.pc = reason].pc = reason
        /\ [req[r] EXCEPT !.pc = reason].ch = req[r].ch
    BY DEF TypeOK, ReqRecord
  <1>3. req' = [req EXCEPT ![r] = [req[r] EXCEPT !.pc = reason]]
    BY DEF Answer
  <1> HIDE DEF ReqRecord, ReqState
  <1> QED BY <1>1, <1>2, <1>3 DEF TypeOK

LEMMA StartWaitStep ==
    ASSUME TypeOK, NEW r \in Request, NEW c \in Challenge, StartWait(r, c)
    PROVE  /\ req' \in [Request -> ReqRecord]
           /\ req'[r].pc = "wait" /\ req'[r].ch = c
           /\ \A s \in Request \ {r} : req'[s] = req[s]
  <1> DEFINE x == [pc |-> "wait", ch |-> c, deadline |-> now + PushWait, fails |-> 0]
  <1>1. x \in ReqRecord
    BY PushLoginAssumption DEF TypeOK, ChallengeTypeOK, ReqRecord, ReqState
  <1>2. req' = [req EXCEPT ![r] = x]
    BY DEF StartWait
  <1> QED BY <1>1, <1>2 DEF TypeOK

LEMMA TabGoStep ==
    ASSUME TypeOK, NEW t \in Tab, NEW pc \in TabState, TabGo(t, pc)
    PROVE  /\ tab' \in [Tab -> TabRecord]
           /\ tab'[t].pc = pc /\ tab'[t].ch = tab[t].ch /\ tab'[t].at = tab[t].at
           /\ \A u \in Tab \ {t} : tab'[u] = tab[u]
  <1> DEFINE x == [tab[t] EXCEPT !.pc = pc]
  <1>1. x \in TabRecord /\ x.pc = pc /\ x.ch = tab[t].ch /\ x.at = tab[t].at
    BY DEF TypeOK, TabRecord
  <1>2. tab' = [tab EXCEPT ![t] = x]
    BY DEF TabGo
  <1> HIDE DEF x
  <1> QED BY <1>1, <1>2 DEF TypeOK

LEMMA TapGoStep ==
    ASSUME TypeOK, NEW a \in Tap, NEW pc \in TapState, TapGo(a, pc)
    PROVE  /\ tap' \in [Tap -> TapRecord]
           /\ tap'[a].pc = pc /\ tap'[a].ch = tap[a].ch
           /\ \A b \in Tap \ {a} : tap'[b] = tap[b]
  <1> DEFINE x == [tap[a] EXCEPT !.pc = pc]
  <1>1. x \in TapRecord /\ x.pc = pc /\ x.ch = tap[a].ch
    BY DEF TypeOK, TapRecord
  <1>2. tap' = [tap EXCEPT ![a] = x]
    BY DEF TapGo
  <1> HIDE DEF x
  <1> QED BY <1>1, <1>2 DEF TypeOK

-----------------------------------------------------------------------------
(* One step of each kind of goroutine: what it holds afterwards, and what  *)
(* it saw in the table.                                                    *)

\* A request keeps its row, resumes a pending push or draws a new one; it is
\* let in only by way of a row it saw approved.
RadiusMove(r) ==
    /\ req' \in [Request -> ReqRecord]
    /\ \A s \in Request \ {r} : req'[s] = req[s]
    /\ req'[r].pc \in {"send", "wait", "claim", "accept"} => req'[r].ch # None
    /\ \/ req'[r].ch = req[r].ch
       \/ req'[r].ch \in LivePendingPush /\ db' = db
       \/ \E c \in Challenge :
            /\ req'[r].ch = c
            /\ db'[c].st # "absent" /\ db'[c].purpose = "radius"
    /\ req'[r].pc \in {"claim", "accept"} =>
         /\ req'[r].ch = req[r].ch
         /\ \/ req[r].pc = "claim"
            \/ req[r].pc = "wait" /\ IsApproved(req[r].ch)

LEMMA RadiusShape ==
    ASSUME IInv, NEW r \in Request, RadiusStep(r)
    PROVE  RadiusMove(r)
  <1>1. TypeOK /\ Places /\ ChallengeTypeOK
    BY DEF IInv, TypeOK
  <1>2. {"limit", "create", "send", "wait", "claim", "accept", "cooldown", "over_limit",
         "unsent", "denied", "timeout", "cancelled"} \subseteq ReqState
    BY DEF ReqState
  <1>3. None \notin Challenge
    BY PushLoginAssumption
  <1>4. LivePendingPush \subseteq Challenge
    BY DEF LivePendingPush
  <1>5. ASSUME NEW reason \in {"limit", "create", "cooldown", "over_limit", "unsent",
                               "denied", "timeout", "cancelled"},
               Answer(r, reason)
        PROVE  RadiusMove(r)
    BY <1>1, <1>2, <1>5, AnswerStep DEF RadiusMove
  <1>6. CASE RadiusArrive(r)
    <2>1. ASSUME NEW c \in LivePendingPush, StartWait(r, c), db' = db
          PROVE  RadiusMove(r)
      BY <1>1, <1>3, <1>4, <2>1, StartWaitStep DEF RadiusMove
    <2> QED BY <1>5, <1>6, <2>1 DEF RadiusArrive
  <1>7. CASE RadiusCheckLimit(r)
    BY <1>5, <1>7 DEF RadiusCheckLimit
  <1>8. CASE RadiusCreate(r)
    <2>1. ASSUME NEW c \in Challenge,
                 ChallengeCreate(c, "radius", IF RadiusApp THEN "app_push" ELSE "telegram_push",
                                 "pending", NoCode, 1, CodeTTL),
                 req' = [req EXCEPT ![r].pc = "send", ![r].ch = c]
          PROVE  RadiusMove(r)
      <3> DEFINE x == [[req[r] EXCEPT !.pc = "send"] EXCEPT !.ch = c]
      <3>1. x \in ReqRecord /\ x.pc = "send" /\ x.ch = c
        BY <1>1, <1>2 DEF TypeOK, ReqRecord
      <3>2. req' = [req EXCEPT ![r] = x]
        BY <1>1, <2>1 DEF TypeOK
      <3> DEFINE h == IF RadiusApp THEN "app_push" ELSE "telegram_push"
      <3>4. /\ "radius" \in Purpose /\ h \in Channel /\ "pending" \in PushState
            /\ CodeTTL \in Nat
        BY PushLoginAssumption DEF Purpose, Channel, PushState
      <3> HIDE DEF h
      <3>5. ChallengeCreate(c, "radius", h, "pending", NoCode, 1, CodeTTL)
        BY <2>1 DEF h
      <3>3. db'[c].st # "absent" /\ db'[c].purpose = "radius"
        BY <1>1, <3>4, <3>5, CreateKeeps
      <3> HIDE DEF x
      <3> QED BY <1>1, <1>3, <3>1, <3>2, <3>3 DEF TypeOK, RadiusMove
    <2> QED BY <1>5, <1>8, <2>1 DEF RadiusCreate
  <1>9. CASE RadiusSend(r)
    <2>1. req[r].ch \in Challenge
      BY <1>1, <1>9 DEF TypeOK, ReqRecord, Places, RadiusSend
    <2>2. ASSUME StartWait(r, req[r].ch)
          PROVE  RadiusMove(r)
      BY <1>1, <1>3, <2>1, <2>2, StartWaitStep DEF RadiusMove
    <2> QED BY <1>5, <1>9, <2>2 DEF RadiusSend
  <1>10. CASE RadiusPoll(r)
    <2>1. ASSUME Answer(r, "claim"), IsApproved(req[r].ch)
          PROVE  RadiusMove(r)
      <3>1. req[r].pc = "wait" /\ req[r].ch # None
        BY <1>1, <1>10 DEF RadiusPoll, Places
      <3> QED BY <1>1, <1>2, <2>1, <3>1, AnswerStep DEF RadiusMove
    <2>2. ASSUME NEW n \in 0..MaxGetFails, req' = [req EXCEPT ![r].fails = n]
          PROVE  RadiusMove(r)
      <3> DEFINE x == [req[r] EXCEPT !.fails = n]
      <3>1. x \in ReqRecord /\ x.pc = req[r].pc /\ x.ch = req[r].ch
        BY <1>1 DEF TypeOK, ReqRecord
      <3>2. req' = [req EXCEPT ![r] = x]
        BY <1>1, <2>2 DEF TypeOK
      <3>3. req[r].pc = "wait" /\ req[r].ch # None
        BY <1>1, <1>10 DEF RadiusPoll, Places
      <3> HIDE DEF x
      <3> QED BY <1>1, <3>1, <3>2, <3>3 DEF TypeOK, RadiusMove
    <2>3. req[r].fails \in 0..MaxGetFails /\ MaxGetFails \in Nat \ {0}
      BY <1>1, PushLoginAssumption DEF TypeOK, ReqRecord
    <2>4. ~(req[r].fails + 1 >= MaxGetFails) => req[r].fails + 1 \in 0..MaxGetFails
      BY <2>3
    <2>5. 0 \in 0..MaxGetFails
      BY <2>3
    <2>6. ASSUME ~(req[r].fails + 1 >= MaxGetFails),
                 req' = [req EXCEPT ![r].fails = req[r].fails + 1]
          PROVE  RadiusMove(r)
      <3>1. req[r].fails + 1 \in 0..MaxGetFails
        BY <2>4, <2>6
      <3> QED BY <2>2, <2>6, <3>1
    <2> QED BY <1>5, <1>10, <2>1, <2>2, <2>5, <2>6 DEF RadiusPoll
  <1>11. CASE RadiusClaim(r)
    <2>1. req[r].pc = "claim" /\ req[r].ch # None /\ Answer(r, "accept")
      BY <1>1, <1>11 DEF RadiusClaim, Places
    <2> QED BY <1>1, <1>2, <2>1, AnswerStep DEF RadiusMove
  <1>12. CASE RadiusCancel(r)
    BY <1>5, <1>12 DEF RadiusCancel
  <1> QED BY <1>6, <1>7, <1>8, <1>9, <1>10, <1>11, <1>12 DEF RadiusStep

\* A tab keeps its row, takes another tab's, draws a new one or drops it; it
\* gets its session by the claim alone, on a row it saw approved.
WebMove(t) ==
    /\ tab' \in [Tab -> TabRecord]
    /\ \A u \in Tab \ {t} : tab'[u] = tab[u]
    /\ tab'[t].pc \in {"send", "poll", "select", "mark", "session"} => tab'[t].ch # None
    /\ tab'[t].pc \in {"limit", "create", "send"} => tab'[t].at <= Len(Prefer)
    /\ \/ tab'[t].ch = None
       \/ tab'[t].ch = tab[t].ch
       \/ \E u \in Tab : tab'[t].ch = tab[u].ch /\ tab[u].ch # None
       \/ \E c \in Challenge :
            /\ tab'[t].ch = c
            /\ db'[c].st # "absent" /\ db'[c].purpose = "api"
    /\ tab'[t].pc = "mark" => tab'[t].ch = tab[t].ch /\ IsApproved(tab[t].ch)
    /\ tab'[t].pc = "session" =>
         /\ tab[t].pc = "mark" /\ tab'[t].ch = tab[t].ch
         /\ Claimable(tab[t].ch) /\ db' = MarkUsed(tab[t].ch)
    /\ tab[t].pc # "session"

LEMMA WebShape ==
    ASSUME IInv, NEW t \in Tab, WebStep(t)
    PROVE  WebMove(t)
  <1>1. TypeOK /\ Places /\ ChallengeTypeOK
    BY DEF IInv, TypeOK
  <1>2. {"idle", "limit", "create", "send", "poll", "select", "mark", "session", "failed"}
          \subseteq TabState
    BY DEF TabState
  <1>3. None \notin Challenge
    BY PushLoginAssumption
  <1>4. ASSUME tab[t].pc # "session", TabGo(t, "failed")
        PROVE  WebMove(t)
    BY <1>1, <1>2, <1>4, TabGoStep DEF WebMove
  <1>5. CASE WebStart(t)
    <2>1. ASSUME tab[t].at <= Len(Prefer), tab[t].pc = "idle", TabGo(t, "limit")
          PROVE  WebMove(t)
      BY <1>1, <1>2, <2>1, TabGoStep DEF WebMove
    <2> QED BY <1>4, <1>5, <2>1 DEF WebStart
  <1>6. CASE WebCheckLimit(t)
    <2>1. ASSUME tab[t].pc = "limit", TabGo(t, "create")
          PROVE  WebMove(t)
      BY <1>1, <1>2, <2>1, TabGoStep DEF Places, WebMove
    <2> QED BY <1>4, <1>6, <2>1 DEF WebCheckLimit
  <1>7. CASE WebShare(t)
    <2>1. PICK u \in Tab : /\ tab[u].pc \in {"poll", "select", "mark", "session"}
                           /\ tab' = [tab EXCEPT ![t].pc = "poll", ![t].ch = tab[u].ch]
      BY <1>7 DEF WebShare
    <2> DEFINE x == [[tab[t] EXCEPT !.pc = "poll"] EXCEPT !.ch = tab[u].ch]
    <2>2. tab[u].ch \in Challenge
      BY <1>1, <2>1 DEF TypeOK, TabRecord, Places
    <2>3. x \in TabRecord /\ x.pc = "poll" /\ x.ch = tab[u].ch
      BY <1>1, <1>2, <2>2 DEF TypeOK, TabRecord
    <2>4. tab' = [tab EXCEPT ![t] = x]
      BY <1>1, <2>1 DEF TypeOK
    <2>5. tab[t].pc = "idle"
      BY <1>7 DEF WebShare
    <2> HIDE DEF x
    <2> QED BY <1>1, <1>3, <2>2, <2>3, <2>4, <2>5 DEF TypeOK, WebMove
  <1>8. CASE WebCreate(t)
    <2>1. ASSUME NEW c \in Challenge,
                 ChallengeCreate(c, "api", Prefer[tab[t].at], "pending", NoCode, 1, CodeTTL),
                 tab' = [tab EXCEPT ![t].pc = "send", ![t].ch = c]
          PROVE  WebMove(t)
      <3> DEFINE x == [[tab[t] EXCEPT !.pc = "send"] EXCEPT !.ch = c]
      <3>1. x \in TabRecord /\ x.pc = "send" /\ x.ch = c /\ x.at = tab[t].at
        BY <1>1, <1>2 DEF TypeOK, TabRecord
      <3>2. tab' = [tab EXCEPT ![t] = x]
        BY <1>1, <2>1 DEF TypeOK
      <3>3. tab[t].pc = "create" /\ tab[t].at <= Len(Prefer) /\ Prefer[tab[t].at] \in Channel
        BY <1>1, <1>8, PushLoginAssumption
           DEF WebCreate, Places, TypeOK, TabRecord, PushChannel, Channel
      <3>5. "api" \in Purpose /\ "pending" \in PushState /\ CodeTTL \in Nat
        BY PushLoginAssumption DEF Purpose, PushState
      <3>4. db'[c].st # "absent" /\ db'[c].purpose = "api"
        BY <1>1, <2>1, <3>3, <3>5, CreateKeeps
      <3> HIDE DEF x
      <3> QED BY <1>1, <1>3, <3>1, <3>2, <3>3, <3>4 DEF TypeOK, WebMove
    <2> QED BY <1>4, <1>8, <2>1 DEF WebCreate
  <1>9. CASE WebSend(t)
    <2>1. /\ tab[t].pc = "send" /\ tab[t].ch # None
          /\ tab[t].at \in 1..Len(Prefer) /\ Len(Prefer) \in Nat
      BY <1>1, <1>9, PushLoginAssumption DEF WebSend, Places, TypeOK, TabRecord
    <2>2. ASSUME TabGo(t, "poll")
          PROVE  WebMove(t)
      BY <1>1, <1>2, <2>1, <2>2, TabGoStep DEF WebMove
    <2>3. ASSUME tab' = [tab EXCEPT ![t] = [pc |-> "idle", ch |-> None, at |-> tab[t].at + 1]]
          PROVE  WebMove(t)
      <3> DEFINE x == [pc |-> "idle", ch |-> None, at |-> tab[t].at + 1]
      <3>1. x \in TabRecord /\ x.pc = "idle" /\ x.ch = None
        BY <1>2, <2>1 DEF TabRecord
      <3>2. tab' = [tab EXCEPT ![t] = x]
        BY <2>3
      <3> HIDE DEF x
      <3> QED BY <1>1, <2>1, <3>1, <3>2 DEF TypeOK, WebMove
    <2> QED BY <1>9, <2>2, <2>3 DEF WebSend
  <1>10. CASE WebPoll(t)
    <2>1. ASSUME tab[t].pc = "poll", TabGo(t, "select")
          PROVE  WebMove(t)
      BY <1>1, <1>2, <2>1, TabGoStep DEF Places, WebMove
    <2> QED BY <1>4, <1>10, <2>1 DEF WebPoll
  <1>11. CASE WebSelect(t)
    <2>1. ASSUME tab[t].pc = "select", IsApproved(tab[t].ch), TabGo(t, "mark")
          PROVE  WebMove(t)
      BY <1>1, <1>2, <2>1, TabGoStep DEF Places, WebMove
    <2> QED BY <1>4, <1>11, <2>1 DEF WebSelect
  <1>12. CASE WebMark(t)
    <2>1. ASSUME tab[t].pc = "mark", db' = MarkUsed(tab[t].ch), Claimable(tab[t].ch),
                 TabGo(t, "session")
          PROVE  WebMove(t)
      BY <1>1, <1>2, <2>1, TabGoStep DEF Places, WebMove
    <2> QED BY <1>4, <1>12, <2>1 DEF WebMark
  <1> QED BY <1>5, <1>6, <1>7, <1>8, <1>9, <1>10, <1>11, <1>12 DEF WebStep

\* An answer takes a row when it starts and keeps it.
LEMMA TapShape ==
    ASSUME IInv, NEW a \in Tap, TapStep(a)
    PROVE  /\ tap' \in [Tap -> TapRecord]
           /\ \A b \in Tap \ {a} : tap'[b] = tap[b]
           /\ tap'[a].pc \in {"set", "miss", "close"} => tap'[a].ch # None
  <1>1. TypeOK /\ Places
    BY DEF IInv
  <1>2. {"idle", "set", "miss", "close", "done", "missed"} \subseteq TapState
    BY DEF TapState
  <1>3. None \notin Challenge
    BY PushLoginAssumption
  <1>4. CASE AppAnswer(a)
    <2>1. PICK c \in Challenge, verdict \in {"approved", "denied"}, right \in BOOLEAN :
            tap' = [tap EXCEPT ![a] =
              [ch |-> c, by |-> "app", verdict |-> verdict,
               pc |-> IF verdict = "approved" /\ NumberMatch(c) /\ ~right
                        THEN "miss" ELSE "set"]]
      BY <1>4 DEF AppAnswer
    <2> DEFINE pc == IF verdict = "approved" /\ NumberMatch(c) /\ ~right THEN "miss" ELSE "set"
               x == [ch |-> c, by |-> "app", verdict |-> verdict, pc |-> pc]
    <2>2. x \in TapRecord /\ x.ch = c
      BY <1>2 DEF TapRecord
    <2>3. tap' = [tap EXCEPT ![a] = x]
      BY <2>1
    <2> HIDE DEF x
    <2> QED BY <1>1, <1>3, <2>2, <2>3 DEF TypeOK
  <1>5. CASE BotAnswer(a)
    <2>1. PICK c \in sentTg, verdict \in {"approved", "denied"} :
            tap' = [tap EXCEPT ![a] =
              [ch |-> c, by |-> "bot", verdict |-> verdict, pc |-> "set"]]
      BY <1>5 DEF BotAnswer
    <2> DEFINE x == [ch |-> c, by |-> "bot", verdict |-> verdict, pc |-> "set"]
    <2>2. c \in Challenge
      BY <1>1, <2>1 DEF TypeOK
    <2>3. x \in TapRecord /\ x.ch = c
      BY <1>2, <2>2 DEF TapRecord
    <2>4. tap' = [tap EXCEPT ![a] = x]
      BY <2>1
    <2> HIDE DEF x
    <2> QED BY <1>1, <1>3, <2>2, <2>3, <2>4 DEF TypeOK
  <1>6. ASSUME NEW pc \in {"close", "missed", "done"},
               tap[a].pc \in {"set", "miss", "close"}, TapGo(a, pc)
        PROVE  /\ tap' \in [Tap -> TapRecord]
               /\ \A b \in Tap \ {a} : tap'[b] = tap[b]
               /\ tap'[a].pc \in {"set", "miss", "close"} => tap'[a].ch # None
    BY <1>1, <1>2, <1>6, TapGoStep DEF Places
  <1>7. CASE AppMiss(a) \/ AppClose(a) \/ SetAnswer(a) \/ SetAnswerFails(a)
    BY <1>6, <1>7 DEF AppMiss, AppClose, SetAnswer, SetAnswerFails
  <1> QED BY <1>4, <1>5, <1>7 DEF TapStep

\* Which answers write the history, and how the states of the pushes move.
LEMMA ApprovalShape ==
    ASSUME IInv, Next
    PROVE  /\ approved \subseteq approved' /\ approved' \subseteq Challenge
           /\ \A c \in Challenge : db'[c].push = "approved" => c \in approved'
  <1> DEFINE Kept == \A c \in Challenge : db'[c].push = "approved" => db[c].push = "approved"
  <1>1. TypeOK /\ Places /\ ChallengeTypeOK /\ approved \subseteq Challenge
    BY DEF IInv, TypeOK
  <1>2. \A c \in Challenge : db[c].push = "approved" => c \in approved
    BY DEF IInv, Rows
  <1>a. ASSUME db' = db
        PROVE  Kept
    BY <1>a
  <1>b. ASSUME NEW c \in Challenge, db' \in {MarkUsed(c), DecrAttempt(c), DeleteRow(c)}
        PROVE  Kept
    BY <1>1, <1>b, PushKept
  <1>c. ASSUME NEW c \in Challenge, NEW p \in Purpose, NEW h \in Channel,
               ChallengeCreate(c, p, h, "pending", NoCode, 1, CodeTTL)
        PROVE  Kept
    <2>1. "pending" \in PushState /\ 1 \in Nat /\ CodeTTL \in Nat
      BY PushLoginAssumption DEF PushState
    <2>2. db'[c].push = "pending" /\ \A d \in Challenge \ {c} : db'[d].push = db[d].push
      BY <1>1, <1>c, <2>1, CreateKeeps
    <2> QED BY <2>2
  <1>3. ASSUME NEW r \in Request, RadiusStep(r)
        PROVE  Kept /\ approved' = approved
    <2>1. CASE RadiusCreate(r)
      <3>1. "radius" \in Purpose /\ (IF RadiusApp THEN "app_push" ELSE "telegram_push") \in Channel
        BY DEF Purpose, Channel
      <3> QED BY <1>a, <1>c, <2>1, <3>1 DEF RadiusCreate
    <2>2. CASE RadiusSend(r) \/ RadiusClaim(r)
      <3>1. req[r].ch \in Challenge
        BY <1>1, <2>2 DEF TypeOK, ReqRecord, Places, RadiusSend, RadiusClaim
      <3> QED BY <1>a, <1>b, <2>2, <3>1 DEF RadiusSend, RadiusClaim
    <2> QED BY <1>a, <1>3, <2>1, <2>2
            DEF RadiusStep, RadiusArrive, RadiusCheckLimit, RadiusPoll, RadiusCancel
  <1>4. ASSUME NEW t \in Tab, WebStep(t)
        PROVE  Kept /\ approved' = approved
    <2>1. CASE WebCreate(t)
      <3>1. "api" \in Purpose /\ Prefer[tab[t].at] \in Channel
        BY <1>1, <2>1, PushLoginAssumption
           DEF TypeOK, TabRecord, Places, WebCreate, Purpose, PushChannel, Channel
      <3> QED BY <1>a, <1>c, <2>1, <3>1 DEF WebCreate
    <2>2. CASE WebSend(t) \/ WebMark(t)
      <3>1. tab[t].ch \in Challenge
        BY <1>1, <2>2 DEF TypeOK, TabRecord, Places, WebSend, WebMark
      <3> QED BY <1>a, <1>b, <2>2, <3>1 DEF WebSend, WebMark
    <2> QED BY <1>a, <1>4, <2>1, <2>2
            DEF WebStep, WebStart, WebShare, WebCheckLimit, WebPoll, WebSelect
  <1>5. ASSUME NEW a \in Tap, TapStep(a), ~SetAnswer(a)
        PROVE  Kept /\ approved' = approved
    <2>1. CASE AppMiss(a) \/ AppClose(a)
      <3>1. tap[a].ch \in Challenge
        BY <1>1, <2>1 DEF TypeOK, TapRecord, Places, AppMiss, AppClose
      <3> QED BY <1>a, <1>b, <2>1, <3>1 DEF AppMiss, AppClose
    <2> QED BY <1>a, <1>5, <2>1 DEF TapStep, AppAnswer, BotAnswer, SetAnswerFails
  <1>6. ASSUME NEW a \in Tap, SetAnswer(a)
        PROVE  /\ approved \subseteq approved' /\ approved' \subseteq Challenge
               /\ \A c \in Challenge : db'[c].push = "approved" => c \in approved'
    <2>1. tap[a].ch \in Challenge
      BY <1>1, <1>6 DEF TypeOK, TapRecord, Places, SetAnswer
    <2>2. \A d \in Challenge \ {tap[a].ch} : db'[d] = db[d]
      BY <1>1, <1>6, <2>1 DEF SetAnswer, SetPush, ChallengeTypeOK
    <2>3. Live(tap[a].ch) => db'[tap[a].ch].push = tap[a].verdict
      BY <1>1, <1>6, <2>1 DEF SetAnswer, SetPush, ChallengeTypeOK, Row
    <2>4. ~Live(tap[a].ch) => db'[tap[a].ch].push = db[tap[a].ch].push
      BY <1>1, <1>6, <2>1 DEF SetAnswer, SetPush, ChallengeTypeOK, Row
    <2>5. approved' = IF Live(tap[a].ch) /\ tap[a].verdict = "approved"
                        THEN approved \cup {tap[a].ch} ELSE approved
      BY <1>6 DEF SetAnswer
    <2> QED BY <1>1, <1>2, <2>1, <2>2, <2>3, <2>4, <2>5
  <1>7. CASE Time
    BY <1>1, <1>2, <1>7 DEF Time
  <1> QED BY <1>1, <1>2, <1>3, <1>4, <1>5, <1>6, <1>7 DEF Next

-----------------------------------------------------------------------------
(* Every step keeps the invariant.                                         *)

\* What a step of one kind of goroutine leaves to the others.
LEMMA StepFrame ==
    ASSUME Next
    PROVE  \/ /\ \E r \in Request : RadiusStep(r)
              /\ UNCHANGED <<now, tab, tap>>
           \/ /\ \E t \in Tab : WebStep(t)
              /\ UNCHANGED <<now, req, tap>>
           \/ /\ \E a \in Tap : TapStep(a)
              /\ UNCHANGED <<now, req, tab>>
           \/ /\ Time
              /\ UNCHANGED <<db, req, tab, tap, approved>>
  <1>1. ASSUME NEW r \in Request, RadiusStep(r)
        PROVE  UNCHANGED <<now, tab, tap>>
    BY <1>1 DEF RadiusStep, RadiusArrive, RadiusCheckLimit, RadiusCreate, RadiusSend,
                RadiusPoll, RadiusClaim, RadiusCancel
  <1>2. ASSUME NEW t \in Tab, WebStep(t)
        PROVE  UNCHANGED <<now, req, tap>>
    BY <1>2 DEF WebStep, WebStart, WebShare, WebCheckLimit, WebCreate, WebSend,
                WebPoll, WebSelect, WebMark
  <1>3. ASSUME NEW a \in Tap, TapStep(a)
        PROVE  UNCHANGED <<now, req, tab>>
    BY <1>3 DEF TapStep, AppAnswer, AppMiss, AppClose, BotAnswer, SetAnswer, SetAnswerFails
  <1> QED BY <1>1, <1>2, <1>3 DEF Next, Time

LEMMA SentTgTyped ==
    ASSUME IInv, Next
    PROVE  sentTg' \subseteq Challenge
  <1>1. sentTg \subseteq Challenge
    BY DEF IInv, TypeOK
  <1>2. ASSUME NEW r \in Request, RadiusSend(r)
        PROVE  sentTg' \subseteq Challenge
    <2>1. req[r].ch \in Challenge
      BY <1>2 DEF IInv, TypeOK, ReqRecord, Places, RadiusSend
    <2> QED BY <1>1, <1>2, <2>1 DEF RadiusSend
  <1>3. ASSUME NEW t \in Tab, WebSend(t)
        PROVE  sentTg' \subseteq Challenge
    <2>1. tab[t].ch \in Challenge
      BY <1>3 DEF IInv, TypeOK, TabRecord, Places, WebSend
    <2> QED BY <1>1, <1>3, <2>1 DEF WebSend
  <1> QED
    BY <1>1, <1>2, <1>3
       DEF Next, Time, RadiusStep, RadiusArrive, RadiusCheckLimit, RadiusCreate, RadiusPoll,
           RadiusClaim, RadiusCancel, WebStep, WebStart, WebShare, WebCheckLimit, WebCreate,
           WebPoll, WebSelect, WebMark, TapStep, AppAnswer, AppMiss, AppClose, BotAnswer,
           SetAnswer, SetAnswerFails

LEMMA NextKeepsTypes ==
    ASSUME IInv, Next
    PROVE  TypeOK' /\ Places'
  <1>1. /\ TypeOK /\ Places /\ now \in Nat
        /\ db' \in [Challenge -> Row] /\ approved' \subseteq Challenge /\ sentTg' \subseteq Challenge
    BY NextKeepsTable, ApprovalShape, SentTgTyped DEF IInv, TypeOK, ChallengeTypeOK, TableKept
  <1>2. CASE (\E r \in Request : RadiusStep(r)) /\ UNCHANGED <<now, tab, tap>>
    <2>1. PICK r \in Request : RadiusMove(r)
      BY <1>2, RadiusShape
    <2> QED BY <1>1, <1>2, <2>1 DEF TypeOK, ChallengeTypeOK, Places, RadiusMove
  <1>3. CASE (\E t \in Tab : WebStep(t)) /\ UNCHANGED <<now, req, tap>>
    <2>1. PICK t \in Tab : WebMove(t)
      BY <1>3, WebShape
    <2> QED BY <1>1, <1>3, <2>1 DEF TypeOK, ChallengeTypeOK, Places, WebMove
  <1>4. CASE (\E a \in Tap : TapStep(a)) /\ UNCHANGED <<now, req, tab>>
    <2>1. PICK a \in Tap : TapStep(a)
      BY <1>4
    <2> QED BY <1>1, <1>4, <2>1, TapShape DEF TypeOK, ChallengeTypeOK, Places
  <1>5. CASE Time /\ UNCHANGED <<db, req, tab, tap, approved>>
    BY <1>1, <1>5 DEF TypeOK, ChallengeTypeOK, Places, Time
  <1> QED BY <1>2, <1>3, <1>4, <1>5, StepFrame

\* A new row is a push of one of the two flows.
LEMMA NewRows ==
    ASSUME IInv, Next, NEW c \in Challenge, db'[c].st # "absent"
    PROVE  db'[c].purpose \in {"api", "radius"}
  <1> DEFINE Known == db[c].st # "absent" /\ db'[c].purpose = db[c].purpose
             New == db'[c].purpose \in {"api", "radius"}
  <1>1. /\ TypeOK /\ Places /\ ChallengeTypeOK
        /\ db[c].st # "absent" => db[c].purpose \in {"api", "radius"}
    BY DEF IInv, TypeOK, Rows
  <1>a. ASSUME db' = db
        PROVE  Known
    BY <1>a
  <1>b. ASSUME NEW d \in Challenge, NEW s \in PushState,
               db' \in {MarkUsed(d), DecrAttempt(d), SetPush(d, s), DeleteRow(d)}
        PROVE  Known
    BY <1>1, <1>b, UpdateKeeps
  <1>c. ASSUME NEW d \in Challenge, NEW p \in {"api", "radius"}, NEW h \in Channel,
               ChallengeCreate(d, p, h, "pending", NoCode, 1, CodeTTL)
        PROVE  Known \/ New
    <2>1. "pending" \in PushState /\ 1 \in Nat /\ CodeTTL \in Nat /\ p \in Purpose
      BY PushLoginAssumption DEF PushState, Purpose
    <2>2. /\ db'[d].purpose = p
          /\ \A e \in Challenge \ {d} :
               /\ db'[e].purpose = db[e].purpose
               /\ db'[e].st # "absent" => db[e].st # "absent"
      BY <1>1, <1>c, <2>1, CreateKeeps
    <2> QED BY <2>2
  <1>2. ASSUME NEW r \in Request, RadiusStep(r)
        PROVE  Known \/ New
    <2>1. CASE RadiusCreate(r)
      <3>1. (IF RadiusApp THEN "app_push" ELSE "telegram_push") \in Channel
        BY DEF Channel
      <3> QED BY <1>a, <1>c, <2>1, <3>1 DEF RadiusCreate
    <2>2. CASE RadiusSend(r) \/ RadiusClaim(r)
      <3>1. req[r].ch \in Challenge /\ "denied" \in PushState
        BY <1>1, <2>2 DEF TypeOK, ReqRecord, Places, RadiusSend, RadiusClaim, PushState
      <3> QED BY <1>a, <1>b, <2>2, <3>1 DEF RadiusSend, RadiusClaim
    <2> QED BY <1>a, <1>2, <2>1, <2>2
            DEF RadiusStep, RadiusArrive, RadiusCheckLimit, RadiusPoll, RadiusCancel
  <1>3. ASSUME NEW t \in Tab, WebStep(t)
        PROVE  Known \/ New
    <2>1. CASE WebCreate(t)
      <3>1. Prefer[tab[t].at] \in Channel
        BY <1>1, <2>1, PushLoginAssumption
           DEF TypeOK, TabRecord, Places, WebCreate, PushChannel, Channel
      <3> QED BY <1>a, <1>c, <2>1, <3>1 DEF WebCreate
    <2>2. CASE WebSend(t) \/ WebMark(t)
      <3>1. tab[t].ch \in Challenge /\ "denied" \in PushState
        BY <1>1, <2>2 DEF TypeOK, TabRecord, Places, WebSend, WebMark, PushState
      <3> QED BY <1>a, <1>b, <2>2, <3>1 DEF WebSend, WebMark
    <2> QED BY <1>a, <1>3, <2>1, <2>2
            DEF WebStep, WebStart, WebShare, WebCheckLimit, WebPoll, WebSelect
  <1>4. ASSUME NEW a \in Tap, TapStep(a)
        PROVE  Known
    <2>1. CASE AppMiss(a) \/ AppClose(a) \/ SetAnswer(a)
      <3>1. tap[a].ch \in Challenge /\ tap[a].verdict \in PushState
        BY <1>1, <2>1 DEF TypeOK, TapRecord, Places, AppMiss, AppClose, SetAnswer, PushState
      <3> QED BY <1>a, <1>b, <2>1, <3>1 DEF AppMiss, AppClose, SetAnswer
    <2> QED BY <1>a, <1>4, <2>1 DEF TapStep, AppAnswer, BotAnswer, SetAnswerFails
  <1>5. CASE Time
    BY <1>a, <1>1, <1>5 DEF Time
  <1> QED BY <1>1, <1>2, <1>3, <1>4, <1>5 DEF Next

\* The rows a goroutine may hold exist, so no INSERT draws them again and no
\* statement moves them to the other flow.
LEMMA NextKeepsRows ==
    ASSUME IInv, Next
    PROVE  Rows'
  <1>1. /\ TypeOK /\ Rows /\ None \notin Challenge
        /\ \A c \in Challenge : RowKept(c)
        /\ \A c \in Challenge : db'[c].push = "approved" => c \in approved'
    BY NextKeepsTable, ApprovalShape, PushLoginAssumption DEF IInv, TableKept
  <1>2. \A c \in Challenge : db[c].st # "absent" =>
          db'[c].st # "absent" /\ db'[c].purpose = db[c].purpose
    BY <1>1 DEF RowKept
  <1>3. \A c \in Challenge : db'[c].st # "absent" => db'[c].purpose \in {"api", "radius"}
    BY <1>1, NewRows DEF Rows
  <1>4. \A r \in Request : req'[r].ch # None =>
          db'[req'[r].ch].st # "absent" /\ db'[req'[r].ch].purpose = "radius"
    <2>0. \A r \in Request : req[r].ch \in Challenge \cup {None}
      BY <1>1 DEF TypeOK, ReqRecord
    <2>1. \A r \in Request : req[r].ch # None =>
            db'[req[r].ch].st # "absent" /\ db'[req[r].ch].purpose = "radius"
      BY <1>1, <1>2, <2>0 DEF Rows
    <2>2. CASE (\E r \in Request : RadiusStep(r)) /\ UNCHANGED <<now, tab, tap>>
      <3>1. PICK r \in Request : RadiusMove(r)
        BY <2>2, RadiusShape
      <3>2. \A c \in LivePendingPush :
              c \in Challenge /\ db[c].st # "absent" /\ db[c].purpose = "radius"
        BY <1>1 DEF LivePendingPush, LivePending, Open, Live, Rows
      <3> QED BY <1>2, <2>1, <3>1, <3>2 DEF RadiusMove
    <2>3. CASE UNCHANGED req
      BY <2>1, <2>3
    <2> QED BY <2>2, <2>3, StepFrame
  <1>5. \A t \in Tab : tab'[t].ch # None =>
          db'[tab'[t].ch].st # "absent" /\ db'[tab'[t].ch].purpose = "api"
    <2>0. \A t \in Tab : tab[t].ch \in Challenge \cup {None}
      BY <1>1 DEF TypeOK, TabRecord
    <2>1. \A t \in Tab : tab[t].ch # None =>
            db'[tab[t].ch].st # "absent" /\ db'[tab[t].ch].purpose = "api"
      BY <1>1, <1>2, <2>0 DEF Rows
    <2>2. CASE (\E t \in Tab : WebStep(t)) /\ UNCHANGED <<now, req, tap>>
      <3>1. PICK t \in Tab : WebMove(t)
        BY <2>2, WebShape
      <3> QED BY <2>1, <3>1 DEF WebMove
    <2>3. CASE UNCHANGED tab
      BY <2>1, <2>3
    <2> QED BY <2>2, <2>3, StepFrame
  <1> QED BY <1>1, <1>3, <1>4, <1>5 DEF Rows

LEMMA NextKeepsGrants ==
    ASSUME IInv, Next
    PROVE  GrantWasApproved'
  <1>1. /\ TypeOK /\ Places /\ GrantWasApproved /\ approved \subseteq approved'
        /\ \A c \in Challenge : IsApproved(c) => c \in approved
    BY ApprovalShape DEF IInv, Rows, IsApproved
  <1>2. CASE (\E r \in Request : RadiusStep(r)) /\ UNCHANGED <<now, tab, tap>>
    <2>1. PICK r \in Request : RadiusMove(r)
      BY <1>2, RadiusShape
    <2>2. req[r].pc \in {"wait", "claim"} => req[r].ch \in Challenge
      BY <1>1 DEF TypeOK, ReqRecord, Places
    <2> QED BY <1>1, <1>2, <2>1, <2>2 DEF GrantWasApproved, RadiusMove
  <1>3. CASE (\E t \in Tab : WebStep(t)) /\ UNCHANGED <<now, req, tap>>
    <2>1. PICK t \in Tab : WebMove(t)
      BY <1>3, WebShape
    <2>2. tab'[t].pc = "mark" => tab[t].ch \in Challenge
      BY <1>1, <2>1 DEF TypeOK, TabRecord, WebMove
    <2> QED BY <1>1, <1>3, <2>1, <2>2 DEF GrantWasApproved, WebMove
  <1>4. CASE UNCHANGED <<req, tab>>
    BY <1>1, <1>4 DEF GrantWasApproved
  <1> QED BY <1>2, <1>3, <1>4, StepFrame

\* The claim of WebMark is the only way into a session, it needs a claimable
\* row, and it leaves a spent one: two sessions cannot share a row.
LEMMA NextKeepsSessions ==
    ASSUME IInv, Next
    PROVE  Sessions'
  <1>1. /\ TypeOK /\ Places /\ Sessions /\ ChallengeTypeOK
        /\ \A c \in Challenge : RowKept(c)
    BY NextKeepsTable DEF IInv, TypeOK, TableKept
  <1>2. ASSUME NEW t \in Tab, tab[t].pc = "session"
        PROVE  /\ tab[t].ch \in Challenge
               /\ \A c \in Challenge : c = tab[t].ch => Spent(c) /\ Spent(c)'
    <2>1. tab[t].ch \in Challenge
      BY <1>1, <1>2 DEF TypeOK, TabRecord, Places
    <2>2. Spent(tab[t].ch)
      BY <1>1, <1>2 DEF Sessions
    <2>3. \A c \in Challenge : c = tab[t].ch => Spent(c) /\ db[c].st # "absent"
      BY <2>2 DEF Spent
    <2> QED BY <1>1, <2>1, <2>3 DEF RowKept
  <1>3. CASE UNCHANGED tab
    <2>1. ASSUME NEW t \in Tab, tab'[t].pc = "session"
          PROVE  Spent(tab[t].ch)'
      <3>1. tab[t].pc = "session" /\ tab'[t].ch = tab[t].ch
        BY <1>3, <2>1
      <3> QED BY <1>2, <3>1 DEF Spent, Claimable, Live
    <2>2. SessionOncePerPush'
      BY <1>1, <1>3 DEF Sessions, SessionOncePerPush
    <2> QED BY <1>3, <2>1, <2>2 DEF Sessions
  <1>4. CASE (\E t \in Tab : WebStep(t)) /\ UNCHANGED <<now, req, tap>>
    <2>1. PICK t \in Tab : WebMove(t)
      BY <1>4, WebShape
    <2>2. CASE tab'[t].pc # "session"
      <3>1. ASSUME NEW u \in Tab, tab'[u].pc = "session"
            PROVE  u # t /\ tab[u].pc = "session" /\ tab'[u] = tab[u]
        BY <2>1, <2>2, <3>1 DEF WebMove
      <3>2. ASSUME NEW u \in Tab, tab'[u].pc = "session"
            PROVE  Spent(tab[u].ch)'
        <4>1. tab[u].pc = "session" /\ tab'[u].ch = tab[u].ch
          BY <3>1, <3>2
        <4> QED BY <1>2, <4>1 DEF Spent, Claimable, Live
      <3>3. SessionOncePerPush'
        BY <1>1, <3>1 DEF Sessions, SessionOncePerPush
      <3> QED BY <3>2, <3>3 DEF Sessions
    <2>3. CASE tab'[t].pc = "session"
      <3>1. /\ tab[t].pc = "mark" /\ tab'[t].ch = tab[t].ch
            /\ Claimable(tab[t].ch) /\ db' = MarkUsed(tab[t].ch)
            /\ \A u \in Tab \ {t} : tab'[u] = tab[u]
        BY <2>1, <2>3 DEF WebMove
      <3>2. tab[t].ch \in Challenge
        BY <1>1, <3>1 DEF TypeOK, TabRecord, Places
      <3>3. db'[tab[t].ch].used /\ db'[tab[t].ch].st # "absent"
        BY <1>1, <3>1, <3>2 DEF MarkUsed, Claimable, Live, ChallengeTypeOK, Row
      <3>4. ASSUME NEW u \in Tab, u # t, tab'[u].pc = "session"
            PROVE  tab[u].pc = "session" /\ tab'[u].ch = tab[u].ch /\ tab[u].ch # tab[t].ch
        <4>1. tab[u].pc = "session" /\ tab'[u].ch = tab[u].ch
          BY <3>1, <3>4
        <4>2. Spent(tab[u].ch)
          BY <1>1, <4>1 DEF Sessions
        <4> QED BY <3>1, <4>1, <4>2 DEF Spent
      <3>5. ASSUME NEW u \in Tab, tab'[u].pc = "session"
            PROVE  Spent(tab[u].ch)'
        <4>1. CASE u = t
          BY <3>1, <3>3, <4>1 DEF Spent, Claimable, Live
        <4>2. CASE u # t
          BY <1>2, <3>4, <3>5, <4>2 DEF Spent, Claimable, Live
        <4> QED BY <4>1, <4>2
      <3>6. SessionOncePerPush'
        BY <1>1, <3>1, <3>4 DEF Sessions, SessionOncePerPush
      <3> QED BY <3>5, <3>6 DEF Sessions
    <2> QED BY <2>2, <2>3
  <1> QED BY <1>3, <1>4, StepFrame

LEMMA StutterInv == IInv /\ UNCHANGED vars => IInv'
  BY DEF vars, IInv, TypeOK, ChallengeTypeOK, Places, Rows, GrantWasApproved,
         Sessions, SessionOncePerPush, Spent, Claimable, Live

LEMMA NextInv == IInv /\ [Next]_vars => IInv'
  BY NextKeepsTypes, NextKeepsRows, NextKeepsGrants, NextKeepsSessions, StutterInv DEF IInv

-----------------------------------------------------------------------------
(* The theorems.                                                           *)

\* The invariant holds throughout.
THEOREM Invariance == Spec => []IInv
  BY InitInv, NextInv, PTL DEF Spec

\* The table and the program counters keep their types (ChallengeTable's rows:
\* attempts_left never falls below zero).
THEOREM TypeCorrect == Spec => []TypeOK
  <1>1. IInv => TypeOK
    BY DEF IInv
  <1> QED BY <1>1, Invariance, PTL

\* Nobody is let in, by RADIUS or on the web, but on an approval of the user
\* (the poll of Core.RADIUSAuth, consumePushApproved).
THEOREM NoAccessWithoutApproval == Spec => []GrantWasApproved
  <1>1. IInv => GrantWasApproved
    BY DEF IInv
  <1> QED BY <1>1, Invariance, PTL

\* One approved push opens at most one web session (ChallengeMarkUsed).
THEOREM OneSessionPerPush == Spec => []SessionOncePerPush
  <1>1. IInv => SessionOncePerPush
    BY DEF IInv, Sessions
  <1> QED BY <1>1, Invariance, PTL

\* A push of one flow never admits to the other (livePendingPush,
\* consumePushApproved).
THEOREM FlowsApart == Spec => []PurposeIsolation
  <1>1. IInv => PurposeIsolation
    BY DEF IInv, Places, Rows, PurposeIsolation
  <1> QED BY <1>1, Invariance, PTL

-----------------------------------------------------------------------------
(* The wrong number.                                                       *)

\* A push has one attempt, and an answer that is told "wrong number" has left
\* a row that is spent or deleted.
OneAttempt == \A c \in Challenge : db[c].left <= 1
MissesSpent ==
    \A a \in Tap :
      /\ tap[a].pc \in {"miss", "close"} => db[tap[a].ch].st # "absent"
      /\ tap[a].pc = "missed" => tap[a].ch \in Challenge /\ Spent(tap[a].ch)

\* The statements a step may send: at most one, and every INSERT is that of a
\* push with one attempt.
LEMMA OneStatement ==
    ASSUME IInv, Next
    PROVE  \/ db' = db
           \/ \E c \in Challenge, s \in PushState :
                db' \in {MarkUsed(c), DecrAttempt(c), SetPush(c, s), DeleteRow(c)}
           \/ \E c \in Challenge, p \in Purpose, h \in Channel :
                ChallengeCreate(c, p, h, "pending", NoCode, 1, CodeTTL)
  <1>1. TypeOK /\ Places
    BY DEF IInv
  <1>2. ASSUME NEW r \in Request, RadiusCreate(r), db' # db
        PROVE  \E c \in Challenge, p \in Purpose, h \in Channel :
                 ChallengeCreate(c, p, h, "pending", NoCode, 1, CodeTTL)
    <2>1. "radius" \in Purpose /\ (IF RadiusApp THEN "app_push" ELSE "telegram_push") \in Channel
      BY DEF Purpose, Channel
    <2> QED BY <1>2, <2>1 DEF RadiusCreate
  <1>3. ASSUME NEW t \in Tab, WebCreate(t), db' # db
        PROVE  \E c \in Challenge, p \in Purpose, h \in Channel :
                 ChallengeCreate(c, p, h, "pending", NoCode, 1, CodeTTL)
    <2>1. "api" \in Purpose /\ Prefer[tab[t].at] \in Channel
      BY <1>1, <1>3, PushLoginAssumption
         DEF TypeOK, TabRecord, Places, WebCreate, Purpose, PushChannel, Channel
    <2> QED BY <1>3, <2>1 DEF WebCreate
  <1>4. "denied" \in PushState
    BY DEF PushState
  <1>5. ASSUME NEW r \in Request, RadiusSend(r) \/ RadiusClaim(r)
        PROVE  req[r].ch \in Challenge /\ db' \in {db, MarkUsed(req[r].ch), DeleteRow(req[r].ch)}
    BY <1>1, <1>5 DEF TypeOK, ReqRecord, Places, RadiusSend, RadiusClaim
  <1>6. ASSUME NEW t \in Tab, WebSend(t) \/ WebMark(t)
        PROVE  tab[t].ch \in Challenge /\ db' \in {db, MarkUsed(tab[t].ch), DeleteRow(tab[t].ch)}
    BY <1>1, <1>6 DEF TypeOK, TabRecord, Places, WebSend, WebMark
  <1>7. ASSUME NEW a \in Tap, AppMiss(a) \/ AppClose(a) \/ SetAnswer(a)
        PROVE  /\ tap[a].ch \in Challenge /\ tap[a].verdict \in PushState
               /\ db' \in {db, MarkUsed(tap[a].ch), DecrAttempt(tap[a].ch),
                           SetPush(tap[a].ch, tap[a].verdict)}
    BY <1>1, <1>7 DEF TypeOK, TapRecord, Places, AppMiss, AppClose, SetAnswer, PushState
  <1>8. CASE \E r \in Request : RadiusStep(r)
    BY <1>2, <1>4, <1>5, <1>8
       DEF RadiusStep, RadiusArrive, RadiusCheckLimit, RadiusPoll, RadiusCancel
  <1>9. CASE \E t \in Tab : WebStep(t)
    BY <1>3, <1>4, <1>6, <1>9
       DEF WebStep, WebStart, WebShare, WebCheckLimit, WebPoll, WebSelect
  <1>10. CASE \E a \in Tap : TapStep(a)
    BY <1>4, <1>7, <1>10 DEF TapStep, AppAnswer, BotAnswer, SetAnswerFails
  <1> QED BY <1>8, <1>9, <1>10 DEF Next, Time

\* No statement gives an attempt back.
LEMMA NextKeepsAttempts ==
    ASSUME IInv, OneAttempt, Next
    PROVE  OneAttempt'
  <1>1. ChallengeTypeOK
    BY DEF IInv, TypeOK
  <1>2. ASSUME NEW c \in Challenge, NEW s \in PushState,
               db' \in {MarkUsed(c), DecrAttempt(c), SetPush(c, s), DeleteRow(c)}
        PROVE  \A d \in Challenge : db'[d].left <= db[d].left
    <2>1. \A d \in Challenge : db[d] \in Row /\ db[d].left \in Nat
      BY <1>1 DEF ChallengeTypeOK, Row
    <2>2. \A d \in Challenge \ {c} : db'[d] = db[d]
      BY <1>1, <1>2 DEF ChallengeTypeOK, MarkUsed, DecrAttempt, SetPush, DeleteRow
    <2>3. CASE db' = DecrAttempt(c)
      <3>1. db'[c].left \in {db[c].left, AttemptsAfter(c)}
        BY <1>1, <2>1, <2>3 DEF ChallengeTypeOK, DecrAttempt, Row
      <3> QED BY <2>1, <2>2, <3>1 DEF AttemptsAfter
    <2>4. CASE db' \in {MarkUsed(c), SetPush(c, s), DeleteRow(c)}
      <3>1. db'[c].left = db[c].left
        BY <1>1, <2>1, <2>4 DEF ChallengeTypeOK, MarkUsed, SetPush, DeleteRow, Row
      <3> QED BY <2>1, <2>2, <3>1
    <2> QED BY <1>2, <2>3, <2>4
  <1>3. ASSUME NEW c \in Challenge, NEW p \in Purpose, NEW h \in Channel,
               ChallengeCreate(c, p, h, "pending", NoCode, 1, CodeTTL)
        PROVE  \A d \in Challenge : db'[d].left \in {1, db[d].left}
    <2>1. \A d \in Challenge : Janitor[d].left = db[d].left
      BY <1>1 DEF ChallengeTypeOK, Janitor, Row
    <2> QED BY <1>3, <2>1 DEF ChallengeCreate, Janitor
  <1>4. \A d \in Challenge : db[d].left \in Nat /\ db'[d].left \in Nat /\ db[d].left <= 1
    BY <1>1, NextKeepsTable DEF TableKept, OneAttempt, ChallengeTypeOK, Row
  <1>5. CASE db' = db
    BY <1>4, <1>5 DEF OneAttempt
  <1>6. CASE \E c \in Challenge, s \in PushState :
               db' \in {MarkUsed(c), DecrAttempt(c), SetPush(c, s), DeleteRow(c)}
    <2>1. \A d \in Challenge : db'[d].left <= db[d].left
      BY <1>2, <1>6
    <2> QED BY <1>4, <2>1 DEF OneAttempt
  <1>7. CASE \E c \in Challenge, p \in Purpose, h \in Channel :
               ChallengeCreate(c, p, h, "pending", NoCode, 1, CodeTTL)
    <2>1. \A d \in Challenge : db'[d].left \in {1, db[d].left}
      BY <1>3, <1>7
    <2> QED BY <1>4, <2>1 DEF OneAttempt
  <1> QED BY <1>5, <1>6, <1>7, OneStatement

\* The only attempt is gone with the first miss, so a miss goes on to close
\* the row before it is told; and what is spent stays spent.
LEMMA NextKeepsMisses ==
    ASSUME IInv, OneAttempt, MissesSpent, Next
    PROVE  MissesSpent'
  <1>1. /\ TypeOK /\ Places /\ None \notin Challenge
        /\ \A c \in Challenge : db[c].st # "absent" => db'[c].st # "absent"
        /\ \A c \in Challenge : Spent(c) => Spent(c)'
    BY NextKeepsTable, PushLoginAssumption DEF IInv, TableKept, RowKept, Spent
  <1> DEFINE Missed(b) == /\ tap'[b].pc \in {"miss", "close"} => db'[tap'[b].ch].st # "absent"
                          /\ tap'[b].pc = "missed" => tap'[b].ch \in Challenge /\ Spent(tap[b].ch)'
  <1>2. ASSUME NEW b \in Tap, tap'[b] = tap[b]
        PROVE  Missed(b)
    <2>1. tap[b].pc \in {"miss", "close"} => tap[b].ch \in Challenge
      BY <1>1 DEF TypeOK, TapRecord, Places
    <2>2. tap[b].pc = "missed" => Spent(tap[b].ch)'
      <3> SUFFICES ASSUME tap[b].pc = "missed" PROVE Spent(tap[b].ch)'
        OBVIOUS
      <3>1. PICK c \in Challenge : c = tap[b].ch /\ Spent(c)
        BY DEF MissesSpent
      <3> QED BY <1>1, <1>2, <3>1 DEF Spent, Claimable, Live
    <2> QED BY <1>1, <1>2, <2>1, <2>2 DEF MissesSpent
  <1>3. ASSUME NEW a \in Tap, TapStep(a)
        PROVE  Missed(a)
    <2>1. CASE AppAnswer(a)
      <3>1. PICK c \in Challenge, verdict \in {"approved", "denied"}, right \in BOOLEAN :
              /\ Open(c)
              /\ tap' = [tap EXCEPT ![a] =
                   [ch |-> c, by |-> "app", verdict |-> verdict,
                    pc |-> IF verdict = "approved" /\ NumberMatch(c) /\ ~right
                             THEN "miss" ELSE "set"]]
        BY <2>1 DEF AppAnswer
      <3>2. tap'[a].ch = c /\ tap'[a].pc \in {"miss", "set"} /\ db[c].st # "absent"
        BY <1>1, <3>1 DEF TypeOK, Open, Live
      <3> QED BY <1>1, <3>2
    <2>2. CASE AppMiss(a)
      <3>1. PICK c \in Challenge : c = tap[a].ch /\ db[c].st # "absent" /\ AttemptsAfter(c) = 0
        BY <1>1, <2>2
           DEF TypeOK, TapRecord, Places, AppMiss, MissesSpent, OneAttempt, AttemptsAfter,
               ChallengeTypeOK, Row
      <3>2. TapGo(a, "close") \/ TapGo(a, "done")
        BY <2>2, <3>1 DEF AppMiss
      <3>3. tap'[a].pc \in {"close", "done"} /\ tap'[a].ch = c
        BY <1>1, <3>1, <3>2, TapGoStep DEF TapState
      <3> QED BY <1>1, <3>1, <3>3
    <2>3. CASE AppClose(a)
      <3>1. PICK c \in Challenge : c = tap[a].ch /\ db[c].st # "absent"
        BY <1>1, <2>3 DEF TypeOK, TapRecord, Places, AppClose, MissesSpent
      <3>2. CASE TapGo(a, "done")
        <4>1. tap'[a].pc = "done"
          BY <1>1, <3>2, TapGoStep DEF TapState
        <4> QED BY <4>1
      <3>3. CASE db' = MarkUsed(c) /\ TapGo(a, "missed")
        <4>1. tap'[a].pc = "missed" /\ tap'[a].ch = c
          BY <1>1, <3>1, <3>3, TapGoStep DEF TapState
        <4>2. Spent(c)'
          <5>1. CASE Claimable(c)
            <6>1. db' = [db EXCEPT ![c].used = TRUE]
              BY <3>3, <5>1 DEF MarkUsed
            <6>2. db'[c].used /\ db'[c].st = db[c].st
              BY <1>1, <6>1 DEF TypeOK, ChallengeTypeOK, Row
            <6> QED BY <3>1, <6>2 DEF Spent, Claimable, Live
          <5>2. CASE ~Claimable(c)
            BY <1>1, <3>1, <5>2 DEF Spent
          <5> QED BY <5>1, <5>2
        <4> QED BY <4>1, <4>2 DEF Spent, Claimable, Live
      <3> QED BY <2>3, <3>1, <3>2, <3>3 DEF AppClose
    <2>4. CASE BotAnswer(a)
      <3>1. tap'[a].pc = "set"
        BY <1>1, <2>4 DEF BotAnswer, TypeOK
      <3> QED BY <3>1
    <2>5. CASE SetAnswer(a) \/ SetAnswerFails(a)
      <3>1. TapGo(a, "done") /\ "done" \in TapState
        BY <2>5 DEF SetAnswer, SetAnswerFails, TapState
      <3>2. tap'[a].pc = "done"
        BY <1>1, <3>1, TapGoStep
      <3> QED BY <3>2
    <2> QED BY <1>3, <2>1, <2>2, <2>3, <2>4, <2>5 DEF TapStep
  <1>4. \A b \in Tap : Missed(b)
    <2>1. CASE UNCHANGED tap
      BY <1>2, <2>1
    <2>2. ASSUME NEW a \in Tap, TapStep(a)
          PROVE  \A b \in Tap : Missed(b)
      <3>1. \A b \in Tap \ {a} : tap'[b] = tap[b]
        BY <2>2, TapShape
      <3> QED BY <1>2, <1>3, <2>2, <3>1
    <2> QED BY <2>1, <2>2, StepFrame
  <1> QED BY <1>4 DEF MissesSpent, Spent, Claimable, Live

\* Once a wrong number is told, no tab gets a session by that push: the claim
\* finds the row spent, however far it had got (handleChallengeDecision,
\* consumePushApproved).
THEOREM MissClosesPush == Spec => NoSessionAfterMiss
  <1> DEFINE Kept == OneAttempt /\ MissesSpent
             NoneAfterMiss == \A t \in Tab, a \in Tap :
                tap[a].pc = "missed" /\ tap[a].ch = tab[t].ch /\ tab'[t].pc = "session"
                  => tab[t].pc = "session"
  <1>1. Init => Kept
    BY DEF Init, TableInit, EmptyRow, OneAttempt, MissesSpent
  <1>2. IInv /\ Kept /\ [Next]_vars => Kept'
    <2>1. ASSUME Kept, UNCHANGED vars
          PROVE  Kept'
      BY <2>1 DEF vars, OneAttempt, MissesSpent, Spent, Claimable, Live
    <2> QED BY <2>1, NextKeepsAttempts, NextKeepsMisses
  <1>3. ASSUME IInv, Kept, Next
        PROVE  NoneAfterMiss
    <2> SUFFICES ASSUME NEW t \in Tab, NEW a \in Tap, tap[a].pc = "missed",
                        tap[a].ch = tab[t].ch, tab'[t].pc = "session", tab[t].pc # "session"
                 PROVE  FALSE
      OBVIOUS
    <2>1. PICK u \in Tab : WebMove(u)
      BY <1>3, StepFrame, WebShape
    <2>2. u = t
      BY <2>1 DEF WebMove
    <2>3. Claimable(tab[t].ch)
      BY <2>1, <2>2 DEF WebMove
    <2> QED BY <1>3, <2>3 DEF MissesSpent, Spent
  <1>4. IInv /\ Kept /\ [Next]_vars => [NoneAfterMiss]_vars
    BY <1>3
  <1> HIDE DEF Kept, NoneAfterMiss
  <1>5. Spec => [][NoneAfterMiss]_vars
    BY <1>1, <1>2, <1>4, Invariance, PTL DEF Spec
  <1> QED BY <1>5 DEF NoSessionAfterMiss, NoneAfterMiss

-----------------------------------------------------------------------------
(* The web login implements OneTimeGrant.                                  *)

LEMMA RedeemedStep ==
    ASSUME IInv, IInv', Next
    PROVE  [WebGrant!Next]_<<approved, Redeemed>>
  <1>1. TypeOK /\ Places /\ TypeOK' /\ Places'
    BY DEF IInv
  <1>2. CASE (\E r \in Request : RadiusStep(r)) /\ UNCHANGED <<now, tab, tap>>
    <2>1. approved' = approved
      BY <1>2 DEF RadiusStep, RadiusArrive, RadiusCheckLimit, RadiusCreate, RadiusSend,
                  RadiusPoll, RadiusClaim, RadiusCancel
    <2> QED BY <1>2, <2>1 DEF Redeemed
  <1>3. CASE (\E t \in Tab : WebStep(t)) /\ UNCHANGED <<now, req, tap>>
    <2>1. PICK t \in Tab : WebMove(t)
      BY <1>3, WebShape
    <2>2. approved' = approved
      BY <1>3 DEF WebStep, WebStart, WebShare, WebCheckLimit, WebCreate, WebSend,
                  WebPoll, WebSelect, WebMark
    <2>3. tab[t].pc # "session" /\ \A u \in Tab \ {t} : tab'[u] = tab[u]
      BY <2>1 DEF WebMove
    <2>4. CASE tab'[t].pc # "session"
      <3>1. \A ct \in Challenge \X Tab : ct \in Redeemed' <=> ct \in Redeemed
        BY <2>3, <2>4 DEF Redeemed
      <3> QED BY <2>2, <3>1 DEF Redeemed
    <2>5. CASE tab'[t].pc = "session"
      <3>1. tab[t].pc = "mark" /\ tab'[t].ch = tab[t].ch /\ Claimable(tab[t].ch)
        BY <2>1, <2>5 DEF WebMove
      <3>2. PICK c \in Challenge : c = tab[t].ch
        BY <1>1, <3>1 DEF TypeOK, TabRecord, Places
      <3>3. c \in approved
        BY <3>1, <3>2 DEF IInv, GrantWasApproved
      <3>4. \A u \in Tab : <<c, u>> \notin Redeemed
        BY <3>1, <3>2 DEF IInv, Sessions, Spent, Redeemed
      <3>5. Redeemed' = Redeemed \cup {<<c, t>>}
        <4>1. \A d \in Challenge, u \in Tab :
                <<d, u>> \in Redeemed' <=> <<d, u>> \in Redeemed \/ (d = c /\ u = t)
          BY <2>3, <2>5, <3>1, <3>2 DEF Redeemed
        <4>2. \A ct \in Challenge \X Tab : ct = <<ct[1], ct[2]>>
          OBVIOUS
        <4> QED BY <3>2, <4>1, <4>2 DEF Redeemed
      <3>6. WebGrant!Redeem(c, t)
        BY <2>2, <3>3, <3>4, <3>5 DEF WebGrant!Redeem
      <3> QED BY <3>6 DEF WebGrant!Next
    <2> QED BY <2>4, <2>5
  <1>4. CASE (\E a \in Tap : TapStep(a)) /\ UNCHANGED <<now, req, tab>>
    <2>1. Redeemed' = Redeemed
      BY <1>4 DEF Redeemed
    <2>2. PICK a \in Tap : TapStep(a)
      BY <1>4
    <2>3. CASE SetAnswer(a)
      <3>1. tap[a].ch \in Challenge
        BY <1>1, <2>3 DEF TypeOK, TapRecord, Places, SetAnswer
      <3>2. approved' = approved \/ approved' = approved \cup {tap[a].ch}
        BY <2>3 DEF SetAnswer
      <3> QED BY <2>1, <3>1, <3>2 DEF WebGrant!Next, WebGrant!Prove
    <2>4. CASE ~SetAnswer(a)
      BY <2>1, <2>2, <2>4 DEF TapStep, AppAnswer, AppMiss, AppClose, BotAnswer, SetAnswerFails
    <2> QED BY <2>3, <2>4
  <1>5. CASE Time /\ UNCHANGED <<db, req, tab, tap, approved>>
    BY <1>5 DEF Redeemed
  <1> QED BY <1>2, <1>3, <1>4, <1>5, StepFrame

\* Every behaviour of the push login, read through its history of approvals
\* and its sessions, is one of OneTimeGrant: the web side of the challenges
\* table is a one-time token (ChallengeMarkUsed, consumePushApproved).
THEOREM WebImplementsGrant == Spec => WebGrantSpec
  <1>1. Init => WebGrant!Init
    BY DEF Init, WebGrant!Init, Redeemed
  <1>2. IInv /\ IInv' /\ [Next]_vars => [WebGrant!Next]_<<approved, Redeemed>>
    <2>1. UNCHANGED vars => UNCHANGED <<approved, Redeemed>>
      BY DEF vars, Redeemed
    <2> QED BY <2>1, RedeemedStep
  <1> QED BY <1>1, <1>2, Invariance, PTL DEF Spec, WebGrantSpec, WebGrant!Spec

=============================================================================

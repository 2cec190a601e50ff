----------------------------- MODULE PushLogin -----------------------------
(***************************************************************************)
(* The push second factor: how an approval pressed on a phone becomes a    *)
(* RADIUS Access-Accept (Core.RADIUSAuth) or a web session (the push_claim *)
(* form of the login page).                                                *)
(*                                                                         *)
(* Three kinds of goroutines meet at the rows of ChallengeTable:           *)
(*   - a RADIUS request whose password is already verified: cooldown and   *)
(*     limit checks, ChallengeCreate, delivery, then a poll once a second; *)
(*   - a web login (StartWithService, the poll endpoint, push_claim);      *)
(*   - an answer: handleChallengeDecision of a device, or the callback of  *)
(*     the Telegram bot's one update loop.                                 *)
(* Every step below is one SQL statement or one call of a sender with the  *)
(* code up to the next one, so any interleaving the server allows is a     *)
(* behaviour of this module.  An operator marked "mistake" is a slip the   *)
(* definition after it could have had; no action uses it.                  *)
(***************************************************************************)
EXTENDS ChallengeTable, Sequences

CONSTANTS Request,      \* the RADIUS Access-Requests of the user
          Tab,          \* the web logins of the user
          Tap,          \* the answers the user gives
          None,
          Prefer,       \* the bound push channels of the user's prefer_channels, in order
          RadiusApp,    \* an AppPushNotifier is registered (sendApp)
          RadiusTg,     \* the user's Telegram is linked (sendTg)
          AppErrors,    \* may SendAppPush return an error? {FALSE} for AppHub
          CodeTTL, PushCooldown, PushWait, Hour, PushPerHour,
          MaxGetFails,  \* pushGetRetries
          Horizon       \* bound: no request or answer starts later (model only)

ASSUME PushLoginAssumption ==
    /\ None \notin Challenge
    /\ Prefer \in Seq(PushChannel)
    /\ RadiusApp \in BOOLEAN /\ RadiusTg \in BOOLEAN
    /\ AppErrors \subseteq BOOLEAN
    /\ CodeTTL \in Nat /\ PushCooldown \in Nat /\ PushWait \in Nat
    /\ Hour \in Nat /\ PushPerHour \in Nat /\ MaxGetFails \in Nat \ {0}
    /\ Horizon \in Nat

VARIABLES req,          \* the RADIUS requests
          tab,          \* the web logins
          tap,          \* the answers
          sentTg,       \* the challenges whose buttons were sent to Telegram
          approved      \* history: the challenges an answer approved

vars == <<db, now, req, tab, tap, sentTg, approved>>

ReqState == {"idle", "limit", "create", "send", "wait", "claim",
             "accept", "cooldown", "over_limit", "unsent", "denied", "timeout", "cancelled"}
ReqAnswer == {"accept", "cooldown", "over_limit", "unsent", "denied", "timeout", "cancelled"}
TabState == {"idle", "limit", "create", "send", "poll", "select", "mark",
             "session", "failed"}
TapState == {"idle", "set", "miss", "close", "done", "missed"}

ReqRecord == [pc: ReqState, ch: Challenge \cup {None}, deadline: Nat, fails: 0..MaxGetFails]
TabRecord == [pc: TabState, ch: Challenge \cup {None}, at: 1..Len(Prefer) + 1]
TapRecord == [pc: TapState, ch: Challenge \cup {None},
              by: {"app", "bot"}, verdict: {"approved", "denied"}]

\* The table, the clock and the program counters have their types (the rows
\* of ChallengeTable: attempts_left stays a natural number).
TypeOK ==
    /\ ChallengeTypeOK
    /\ req \in [Request -> ReqRecord]
    /\ tab \in [Tab -> TabRecord]
    /\ tap \in [Tap -> TapRecord]
    /\ sentTg \subseteq Challenge
    /\ approved \subseteq Challenge

Init ==
    /\ TableInit
    /\ req = [r \in Request |-> [pc |-> "idle", ch |-> None, deadline |-> 0, fails |-> 0]]
    /\ tab = [t \in Tab |-> [pc |-> "idle", ch |-> None, at |-> 1]]
    /\ tap = [a \in Tap |-> [pc |-> "idle", ch |-> None, by |-> "app", verdict |-> "denied"]]
    /\ sentTg = {}
    /\ approved = {}

-----------------------------------------------------------------------------
(* The RADIUS request.                                                     *)

NotRefused(c) == db[c].push # "denied"  \* mistake: a pending push admits
IsApproved(c) == db[c].push = "approved"

Answer(r, reason) == req' = [req EXCEPT ![r].pc = reason]

\* mistake: any flow's pending push is resumed.
LivePendingOfAnyFlow(c) ==
    Open(c) /\ db[c].channel \in PushChannel /\ db[c].push = "pending"

\* livePendingPush: the newest pending push that is not another flow's.
LivePending(c) ==
    /\ Open(c)
    /\ db[c].channel \in PushChannel
    /\ db[c].push = "pending"
    /\ db[c].purpose \notin {"api", "ui_confirm", "tg_link"}

LivePendingPush ==
    {c \in Challenge : /\ LivePending(c)
                       /\ \A d \in Challenge : LivePending(d) => db[d].created <= db[c].created}

StartWait(r, c) ==
    req' = [req EXCEPT ![r] = [pc |-> "wait", ch |-> c, deadline |-> now + PushWait, fails |-> 0]]

\* The password is right and no code was recognised.  Inside the cooldown
\* the request resumes the wait of a pending push, or is refused.
RadiusArrive(r) ==
    /\ req[r].pc = "idle"
    /\ now <= Horizon
    /\ RadiusApp \/ RadiusTg
    /\ \/ /\ PushedWithin(PushCooldown)
          /\ \/ \E c \in LivePendingPush : StartWait(r, c)
             \/ LivePendingPush = {} /\ Answer(r, "cooldown")
       \/ ~PushedWithin(PushCooldown) /\ Answer(r, "limit")
       \/ Answer(r, "unsent")                      \* the query failed
    /\ UNCHANGED <<db, now, tab, tap, sentTg, approved>>

RadiusCheckLimit(r) ==
    /\ req[r].pc = "limit"
    /\ \/ PushCountSince(Hour) >= PushPerHour /\ Answer(r, "over_limit")
       \/ PushCountSince(Hour) < PushPerHour /\ Answer(r, "create")
       \/ Answer(r, "unsent")                      \* the query failed
    /\ UNCHANGED <<db, now, tab, tap, sentTg, approved>>

RadiusCreate(r) ==
    /\ req[r].pc = "create"
    /\ \/ \E c \in Challenge :
            /\ ChallengeCreate(c, "radius", IF RadiusApp THEN "app_push" ELSE "telegram_push",
                               "pending", NoCode, 1, CodeTTL)
            /\ req' = [req EXCEPT ![r].pc = "send", ![r].ch = c]
       \/ db' = db /\ Answer(r, "unsent")         \* the INSERT failed
    /\ UNCHANGED <<now, tab, tap, sentTg, approved>>

\* The fan-out: the app's connections (and its pending list), then Telegram.
\* The row is deleted only when the app's sender failed and the bot did not
\* deliver either.
RadiusSend(r) ==
    /\ req[r].pc = "send"
    /\ \E appErr \in (IF RadiusApp THEN AppErrors ELSE {FALSE}),
          tgOK \in (IF RadiusTg THEN BOOLEAN ELSE {FALSE}) :
         /\ sentTg' = IF tgOK THEN sentTg \cup {req[r].ch} ELSE sentTg
         /\ IF appErr /\ ~tgOK
              THEN db' = DeleteRow(req[r].ch) /\ Answer(r, "unsent")
              ELSE db' = db /\ StartWait(r, req[r].ch)
    /\ UNCHANGED <<now, tab, tap, approved>>

\* mistake: the poll runs until the user decides.
RadiusPollUntilDecided(r) ==
    /\ req[r].pc = "wait"
    /\ LET c == req[r].ch IN
       \/ Live(c) /\ IsApproved(c) /\ Answer(r, "claim")
       \/ Live(c) /\ db[c].push = "denied" /\ Answer(r, "denied")
    /\ UNCHANGED <<db, now, tab, tap, sentTg, approved>>

\* One tick of the poll.  A row that is gone is a read error like any other.
RadiusPoll(r) ==
    /\ req[r].pc = "wait"
    /\ LET c == req[r].ch IN
       IF now > req[r].deadline
         THEN Answer(r, "timeout")
         ELSE \/ IF req[r].fails + 1 >= MaxGetFails
                   THEN Answer(r, "timeout")
                   ELSE req' = [req EXCEPT ![r].fails = @ + 1]
              \/ /\ Live(c)
                 /\ \/ (db[c].used \/ Expired(c)) /\ Answer(r, "timeout")
                    \/ Open(c) /\ IsApproved(c) /\ Answer(r, "claim")
                    \/ Open(c) /\ db[c].push = "denied" /\ Answer(r, "denied")
                    \/ /\ Open(c) /\ ~IsApproved(c) /\ db[c].push # "denied"
                       /\ req' = [req EXCEPT ![r].fails = 0]
    /\ UNCHANGED <<db, now, tab, tap, sentTg, approved>>

\* `_ = ChallengeMarkUsed(...)`: the outcome of the claim, an error of the
\* database included, is dropped and the request is accepted.
RadiusClaim(r) ==
    /\ req[r].pc = "claim"
    /\ db' \in {MarkUsed(req[r].ch), db}
    /\ Answer(r, "accept")
    /\ UNCHANGED <<now, tab, tap, sentTg, approved>>

\* The server stops: the wait ends through ctx.Done().
RadiusCancel(r) ==
    /\ req[r].pc = "wait"
    /\ Answer(r, "cancelled")
    /\ UNCHANGED <<db, now, tab, tap, sentTg, approved>>

-----------------------------------------------------------------------------
(* The web login.                                                          *)

TabGo(t, pc) == tab' = [tab EXCEPT ![t].pc = pc]

\* StartWithService at the next push channel of the user's list; the loop
\* is left with ErrCooldown, ErrNoChannel or an error of the database.
WebStart(t) ==
    /\ tab[t].pc = "idle"
    /\ now <= Horizon
    /\ \/ tab[t].at <= Len(Prefer) /\ ~PushedWithin(PushCooldown) /\ TabGo(t, "limit")
       \/ TabGo(t, "failed")
    /\ UNCHANGED <<db, now, req, tap, sentTg, approved>>

WebCheckLimit(t) ==
    /\ tab[t].pc = "limit"
    /\ \/ PushCountSince(Hour) < PushPerHour /\ TabGo(t, "create")
       \/ TabGo(t, "failed")
    /\ UNCHANGED <<db, now, req, tap, sentTg, approved>>

WebCreate(t) ==
    /\ tab[t].pc = "create"
    /\ \/ \E c \in Challenge :
            /\ ChallengeCreate(c, "api", Prefer[tab[t].at], "pending", NoCode, 1, CodeTTL)
            /\ tab' = [tab EXCEPT ![t].pc = "send", ![t].ch = c]
       \/ db' = db /\ TabGo(t, "failed")
    /\ UNCHANGED <<now, req, tap, sentTg, approved>>

\* A sender that fails costs the row, and the loop goes to the next channel.
WebSend(t) ==
    /\ tab[t].pc = "send"
    /\ LET c == tab[t].ch
           bot == db[c].channel = "telegram_push"
       IN \/ /\ TabGo(t, "poll")
             /\ db' = db
             /\ sentTg' = IF bot THEN sentTg \cup {c} ELSE sentTg
          \/ /\ bot \/ TRUE \in AppErrors
             /\ db' = DeleteRow(c)
             /\ tab' = [tab EXCEPT ![t] = [pc |-> "idle", ch |-> None, at |-> @.at + 1]]
             /\ UNCHANGED sentTg
    /\ UNCHANGED <<now, req, tap, approved>>

\* The same form posted by a second tab of the browser: challenge_id is a
\* field of the form, and any posted id is looked up.
WebShare(t) ==
    /\ tab[t].pc = "idle"
    /\ \E u \in Tab : /\ tab[u].pc \in {"poll", "select", "mark", "session"}
                      /\ tab' = [tab EXCEPT ![t].pc = "poll", ![t].ch = tab[u].ch]
    /\ UNCHANGED <<db, now, req, tap, sentTg, approved>>

\* mistake: the poll endpoint does not look at the expiry.
PollStatusForever(c) ==
    IF ~Live(c) \/ db[c].left = 0 THEN "expired"
    ELSE IF db[c].push \in {"approved", "denied"} THEN db[c].push
    ELSE IF db[c].used THEN "expired"
    ELSE "pending"

\* pollStatus, with a row that is gone reported as expired.  The page's
\* script posts push_claim at "approved" and stops at a terminal status.
PollStatus(c) ==
    IF ~Live(c) \/ Expired(c) \/ db[c].left = 0 THEN "expired"
    ELSE IF db[c].push \in {"approved", "denied"} THEN db[c].push
    ELSE IF db[c].used THEN "expired"
    ELSE "pending"

WebPoll(t) ==
    /\ tab[t].pc = "poll"
    /\ \/ PollStatus(tab[t].ch) = "approved" /\ TabGo(t, "select")
       \/ PollStatus(tab[t].ch) \in {"denied", "expired"} /\ TabGo(t, "failed")
    /\ UNCHANGED <<db, now, req, tap, sentTg, approved>>

\* consumePushApproved: the SELECT, then the one-time claim.
WebSelect(t) ==
    /\ tab[t].pc = "select"
    /\ LET c == tab[t].ch IN
       TabGo(t, IF /\ Open(c)
                   /\ IsApproved(c)
                   /\ db[c].purpose = "api"
                   /\ db[c].channel \in PushChannel
                THEN "mark" ELSE "failed")
    /\ UNCHANGED <<db, now, req, tap, sentTg, approved>>

WebMark(t) ==
    /\ tab[t].pc = "mark"
    /\ \/ /\ db' = MarkUsed(tab[t].ch)
          /\ TabGo(t, IF Claimable(tab[t].ch) THEN "session" ELSE "failed")
       \/ db' = db /\ TabGo(t, "failed")           \* the UPDATE failed
    /\ UNCHANGED <<now, req, tap, sentTg, approved>>

-----------------------------------------------------------------------------
(* The answer.                                                             *)

TapGo(a, pc) == tap' = [tap EXCEPT ![a].pc = pc]

\* A push to an app of a web login shows a two-digit number to type in.
NumberMatch(c) == db[c].channel = "app_push" /\ db[c].purpose = "api"

\* handleChallengeDecision up to its first write.  The state of the push is
\* not looked at, so an answer may follow another answer.
AppAnswer(a) ==
    /\ tap[a].pc = "idle"
    /\ \E c \in Challenge, verdict \in {"approved", "denied"}, right \in BOOLEAN :
         /\ Open(c)
         /\ db[c].channel = "app_push"
         /\ tap' = [tap EXCEPT ![a] =
              [ch |-> c, by |-> "app", verdict |-> verdict,
               pc |-> IF verdict = "approved" /\ NumberMatch(c) /\ ~right
                        THEN "miss" ELSE "set"]]
    /\ UNCHANGED <<db, now, req, tab, sentTg, approved>>

\* A wrong number costs the attempt ...
AppMiss(a) ==
    /\ tap[a].pc = "miss"
    /\ LET c == tap[a].ch IN
       \/ /\ Live(c)
          /\ db' = DecrAttempt(c)
          /\ TapGo(a, IF AttemptsAfter(c) = 0 THEN "close" ELSE "missed")
       \/ db' = db /\ TapGo(a, "done")             \* the UPDATE failed
    /\ UNCHANGED <<now, req, tab, sentTg, approved>>

\* ... and with no attempt left the challenge is spent (`_ = ChallengeMarkUsed`).
AppClose(a) ==
    /\ tap[a].pc = "close"
    /\ \/ db' = MarkUsed(tap[a].ch) /\ TapGo(a, "missed")
       \/ db' = db /\ TapGo(a, "done")             \* the UPDATE failed
    /\ UNCHANGED <<now, req, tab, sentTg, approved>>

\* handleCallback: one update at a time, and only of a pending push.
BotAnswer(a) ==
    /\ tap[a].pc = "idle"
    /\ \A b \in Tap : tap[b].by = "bot" => tap[b].pc # "set"
    /\ \E c \in sentTg, verdict \in {"approved", "denied"} :
         /\ Open(c)
         /\ db[c].push = "pending"
         /\ tap' = [tap EXCEPT ![a] =
              [ch |-> c, by |-> "bot", verdict |-> verdict, pc |-> "set"]]
    /\ UNCHANGED <<db, now, req, tab, sentTg, approved>>

\* ChallengeSetPush of either handler.
SetAnswer(a) ==
    /\ tap[a].pc = "set"
    /\ LET c == tap[a].ch IN
       /\ db' = SetPush(c, tap[a].verdict)
       /\ approved' = IF Live(c) /\ tap[a].verdict = "approved"
                        THEN approved \cup {c} ELSE approved
    /\ TapGo(a, "done")
    /\ UNCHANGED <<now, req, tab, sentTg>>

\* ... or its UPDATE fails: the push keeps its state.
SetAnswerFails(a) ==
    /\ tap[a].pc = "set"
    /\ TapGo(a, "done")
    /\ UNCHANGED <<db, now, req, tab, sentTg, approved>>

-----------------------------------------------------------------------------

\* The clock; past the horizon it runs only while somebody still waits.
Time ==
    /\ \/ now < Horizon
       \/ \E r \in Request : req[r].pc = "wait" /\ now <= req[r].deadline
       \/ \E t \in Tab : tab[t].pc = "poll" /\ ~Expired(tab[t].ch)
    /\ now' = now + 1
    /\ UNCHANGED <<db, req, tab, tap, sentTg, approved>>

RadiusStep(r) ==
    \/ RadiusArrive(r) \/ RadiusCheckLimit(r) \/ RadiusCreate(r) \/ RadiusSend(r)
    \/ RadiusPoll(r) \/ RadiusClaim(r) \/ RadiusCancel(r)

WebStep(t) ==
    \/ WebStart(t) \/ WebShare(t) \/ WebCheckLimit(t) \/ WebCreate(t) \/ WebSend(t)
    \/ WebPoll(t) \/ WebSelect(t) \/ WebMark(t)

TapStep(a) ==
    \/ AppAnswer(a) \/ AppMiss(a) \/ AppClose(a) \/ BotAnswer(a)
    \/ SetAnswer(a) \/ SetAnswerFails(a)

Next ==
    \/ \E r \in Request : RadiusStep(r)
    \/ \E t \in Tab : WebStep(t)
    \/ \E a \in Tap : TapStep(a)
    \/ Time

Spec == Init /\ [][Next]_vars

\* The scheduler runs a goroutine that can run, the ticker fires, the page's
\* script goes on polling, and time passes.  Nothing makes a client arrive,
\* the user answer or the server stop.
Fairness ==
    /\ \A r \in Request : WF_vars(\/ RadiusCheckLimit(r) \/ RadiusCreate(r)
                                  \/ RadiusSend(r) \/ RadiusPoll(r) \/ RadiusClaim(r))
    /\ \A t \in Tab : WF_vars(\/ WebCheckLimit(t) \/ WebCreate(t) \/ WebSend(t)
                              \/ WebPoll(t) \/ WebSelect(t) \/ WebMark(t))
    /\ WF_vars(Time)

FairSpec == Spec /\ Fairness

-----------------------------------------------------------------------------
(* Properties.                                                             *)

\* No access without a yes: a request that is let in, or is about to be,
\* holds a challenge that an answer of the user approved (core.go, the
\* "approved" case of the poll; session.go, consumePushApproved).
GrantWasApproved ==
    /\ \A r \in Request : req[r].pc \in {"claim", "accept"} => req[r].ch \in approved
    /\ \A t \in Tab : tab[t].pc \in {"mark", "session"} => tab[t].ch \in approved

\* A push of one flow never admits to the other: RADIUS waits only for RADIUS
\* pushes, also when it resumes one inside the cooldown (livePendingPush), and
\* a web session comes only of a web login's push (consumePushApproved).
PurposeIsolation ==
    /\ \A r \in Request : req[r].ch # None => db[req[r].ch].purpose = "radius"
    /\ \A t \in Tab : tab[t].pc \in {"mark", "session"} => db[tab[t].ch].purpose = "api"

\* However often and from however many tabs the form is posted, one approved
\* push opens one web session (ChallengeMarkUsed is a one-time claim).
SessionOncePerPush ==
    \A t, u \in Tab :
        tab[t].pc = "session" /\ tab[u].pc = "session" /\ tab[t].ch = tab[u].ch => t = u

\* Once a device has typed a wrong number and both its UPDATEs went through,
\* the challenge opens no session any more, whatever another device approves
\* meanwhile and however far a claim has got (handleChallengeDecision: the
\* miss spends the challenge; consumePushApproved: the claim is conditional).
NoSessionAfterMiss ==
    [][\A t \in Tab, a \in Tap :
         tap[a].pc = "missed" /\ tap[a].ch = tab[t].ch /\ tab'[t].pc = "session"
            => tab[t].pc = "session"]_vars

\* A RADIUS request that has got as far as the push is answered: "one request
\* of the client, one answer", whatever the poll's reads return.
RequestAnswered ==
    \A r \in Request : req[r].pc # "idle" ~> req[r].pc \in ReqAnswer

\* A page that polls learns a final status: the challenge is decided or runs
\* out, and the login ends in a session or in an error.
LoginSettled ==
    \A t \in Tab : tab[t].pc = "poll" ~> tab[t].pc \in {"session", "failed"}

\* The pairs of a challenge and the tab that got a session for it.
Redeemed == {ct \in Challenge \X Tab : tab[ct[2]].pc = "session" /\ tab[ct[2]].ch = ct[1]}

WebGrant == INSTANCE OneTimeGrant WITH
    Token <- Challenge, Redeemer <- Tab, proved <- approved, redeemed <- Redeemed

\* The web login implements the one-time token: an approval is the proof, the
\* claim of consumePushApproved redeems it, and every other step stutters.
WebGrantSpec == WebGrant!Spec

-----------------------------------------------------------------------------
(* What the documents say and the code does not do.                        *)

\* README.md:799, challenges are one-time: one approval lets in one request.
OneAcceptPerApproval ==
    \A r, s \in Request :
        req[r].pc = "accept" /\ req[s].pc = "accept" /\ req[r].ch = req[s].ch => r = s

\* README.md:811, at most push_per_hour pushes in any hour.
HourlyLimitKept ==
    \A c \in Challenge :
        Cardinality({d \in Challenge : /\ db[d].st # "absent"
                                      /\ db[d].created <= db[c].created
                                      /\ db[d].created + Hour > db[c].created}) <= PushPerHour

=============================================================================

--------------------------- MODULE ChallengeTable ---------------------------
(***************************************************************************)
(* The `challenges` table of internal/store/challenges.go, seen by one     *)
(* user: every query of that file filters on user_id or on the id of a row *)
(* the caller already holds, so the rows of two users never meet.          *)
(*                                                                         *)
(* A row is one delivered code or one push.  An operator below is one SQL  *)
(* statement, which PostgreSQL runs atomically; a handler of the program   *)
(* is several of them, and the modules that extend this one interleave the *)
(* handlers between the statements.                                        *)
(***************************************************************************)
EXTENDS Naturals, FiniteSets

CONSTANTS Challenge,    \* the uuids ChallengeCreate may draw
          Code,         \* the codes a sender may deliver
          NoCode        \* code_hash IS NULL

ASSUME ChallengeTableAssumption ==
    /\ IsFiniteSet(Challenge)
    /\ NoCode \notin Code

VARIABLES db,           \* the table
          now           \* PostgreSQL's and the process's clock, in seconds

\* The purposes a row is written for: the public login ("api"), a RADIUS
\* push (whose purpose is the service's name), the confirmation of a cabinet
\* operation, the Telegram link code, a passkey ceremony and its window.
Purpose == {"api", "radius", "ui_confirm", "tg_link",
            "webauthn_session", "webauthn_web_pending"}
Channel == {"email", "telegram_push", "app_push", "totp", "webauthn"}
PushChannel == {"telegram_push", "app_push"}
PushState == {"null", "pending", "approved", "denied"}

Row == [st: {"absent", "live", "deleted"}, purpose: Purpose, channel: Channel,
        push: PushState, code: Code \cup {NoCode}, left: Nat,
        used: BOOLEAN, expires: Nat, created: Nat]

ChallengeTypeOK == db \in [Challenge -> Row] /\ now \in Nat

EmptyRow == [st |-> "absent", purpose |-> "api", channel |-> "totp",
             push |-> "null", code |-> NoCode, left |-> 0,
             used |-> FALSE, expires |-> 0, created |-> 0]

TableInit == db = [c \in Challenge |-> EmptyRow] /\ now = 0

-----------------------------------------------------------------------------
(* Reading a row.                                                          *)

Live(c) == db[c].st = "live"

\* The id is a uuid no row ever had.
Fresh(c) == db[c].st = "absent"

\* ExpiresAt against the clock: !now.Before(ExpiresAt), NOT expires_at > now().
Expired(c) == now >= db[c].expires

Open(c) == Live(c) /\ ~db[c].used /\ ~Expired(c)

\* The rows a query over the last `age` seconds counts, created_at > now-age.
CreatedWithin(c, age) == Live(c) /\ db[c].created + age > now

\* LastPushAt(user) lies less than `cooldown` ago.
PushedWithin(cooldown) ==
    \E c \in Challenge : db[c].channel \in PushChannel /\ CreatedWithin(c, cooldown)

\* PushCountSince(user, now - hour).
PushCountSince(hour) ==
    Cardinality({c \in Challenge : db[c].channel \in PushChannel /\ CreatedWithin(c, hour)})

\* ActiveCodeChallenges(user, purposes).
ActiveCodeChallenges(purposes) ==
    {c \in Challenge : Open(c) /\ db[c].code # NoCode /\ db[c].purpose \in purposes}

-----------------------------------------------------------------------------
(* Writing rows.  Each operator is the table after the statement.  An      *)
(* operator marked "mistake" is no part of the program: it is a slip the   *)
(* definition below it could have had, and the properties must notice it.  *)

\* The lazy janitor that ChallengeCreate runs first deletes every expired
\* row of the table, whatever its channel, purpose or state.
Janitor == [c \in Challenge |->
               IF Live(c) /\ db[c].expires < now
                 THEN [db[c] EXCEPT !.st = "deleted"]
                 ELSE db[c]]

ChallengeCreate(c, purpose, channel, push, code, left, ttl) ==
    /\ Fresh(c)
    /\ db' = [Janitor EXCEPT ![c] =
                [st |-> "live", purpose |-> purpose, channel |-> channel,
                 push |-> push, code |-> code, left |-> left,
                 used |-> FALSE, expires |-> now + ttl, created |-> now]]

\* UPDATE ... SET used_at = now() WHERE id = $1 AND used_at IS NULL: the
\* one-time claim.  It fails (ErrNotFound) when Claimable is false.
ClaimAnyLive(c) == Live(c)              \* mistake: the UPDATE without its condition
Claimable(c) == Live(c) /\ ~db[c].used
MarkUsed(c) == IF Claimable(c) THEN [db EXCEPT ![c].used = TRUE] ELSE db

\* SET attempts_left = GREATEST(attempts_left - 1, 0) ... RETURNING.
AttemptsUnbounded(c) == db[c].left - 1  \* mistake: no GREATEST
AttemptsKept(c) == db[c].left           \* mistake: a wrong guess costs nothing
AttemptsAfter(c) == IF db[c].left = 0 THEN 0 ELSE db[c].left - 1
DecrAttempt(c) == [db EXCEPT ![c].left = IF Live(c) THEN AttemptsAfter(c) ELSE @]

\* SET push_state = $2 WHERE id = $1: no condition on the row's state.
SetPush(c, state) == [db EXCEPT ![c].push = IF Live(c) THEN state ELSE @]

\* DELETE FROM challenges WHERE id = $1.
DeleteRow(c) == [db EXCEPT ![c].st = IF Live(c) THEN "deleted" ELSE @]

=============================================================================

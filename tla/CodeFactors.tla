---------------------------- MODULE CodeFactors ----------------------------
(***************************************************************************)
(* The typed second factors of one user: backup codes, TOTP and delivered  *)
(* codes.  Core.VerifyAnyCode tries the three in turn for every login      *)
(* (web, combined, RADIUS, app) and every cabinet operation;               *)
(* Core.VerifyChallengeCode checks one named challenge; the cabinet        *)
(* enrols, confirms and deletes the TOTP secret and replaces the backup    *)
(* codes.  All of them are HTTP or RADIUS goroutines that meet only in     *)
(* PostgreSQL: a step below is one statement and the code up to the next.  *)
(*                                                                         *)
(* A slot of Request serves one call after another.  A string split of the *)
(* RADIUS password field is a call of its own: VerifyAnyCode runs for each *)
(* until one succeeds.  What follows an accepted code changes no state of  *)
(* this module but where it deletes the secret or replaces the backup      *)
(* codes: the other operations of the cabinet only spend, like a login.    *)
(* An operator marked "mistake" is a slip the definition after it could    *)
(* have had; no action uses it.                                            *)
(***************************************************************************)
EXTENDS ChallengeTable, Sequences

CONSTANTS Request,          \* the calls in flight at once
          BackupCode,       \* the values secrets.GenBackupCodes may draw
          BatchSize,        \* codes in one batch of backup codes
          None,
          TotpCode(_, _),   \* the code of a secret at a counter
          Skew,             \* totp.skew, in periods
          CodeTTL, ResendCooldown, MaxAttempts,
          MaxSecrets,       \* bound: TOTPSave calls (model only)
          MaxTime           \* bound: the clock, in TOTP periods (model only)

ASSUME CodeFactorsAssumption ==
    /\ IsFiniteSet(BackupCode)
    /\ None \notin Challenge
    /\ BackupCode \cap Code = {}
    /\ Skew \in Nat /\ CodeTTL \in Nat /\ ResendCooldown \in Nat
    /\ MaxAttempts \in Nat /\ BatchSize \in Nat
    /\ MaxSecrets \in Nat /\ MaxTime \in Nat

VARIABLES totp,         \* the user's row of totp_secrets
          secrets,      \* how many TOTP secrets were ever drawn
          backup,       \* the user's rows of backup_codes
          req,          \* the calls in flight
          spent,        \* history: how often each factor was spent
          exhausted,    \* history: the challenges closed by their last wrong code
          proven        \* history: the secrets of which a code was shown

vars == <<db, now, totp, secrets, backup, req, spent, exhausted, proven>>

Kind == {"login", "verify", "unenroll", "regenerate", "confirm", "issue"}

\* The counter of the current period.  Its origin is far in the past: the
\* window never reaches the 0 a new secret's last_timestep starts from.
Counter == now + Skew + 1
Window == (Counter - Skew) .. (Counter + Skew)
LastCounter == MaxTime + 2 * Skew + 1

\* One use of a factor.  A TOTP counter is spent against the secret then on
\* file, whatever secret the call had read before.
CodeFactor == {"code"} \X Challenge
BackupFactor == {"backup"} \X BackupCode
TotpFactor == {"totp"} \X ((1..MaxSecrets) \X (1..LastCounter))
Factor == CodeFactor \cup BackupFactor \cup TotpFactor

\* gen 0: the user has no row.
TotpRow == [gen: 0..MaxSecrets, confirmed: BOOLEAN, last: 0..LastCounter]
NoTotp == [gen |-> 0, confirmed |-> FALSE, last |-> 0]

Pc == {"idle", "create", "backup", "totp", "advance", "codes", "claim", "miss",
       "close", "confirm", "remove", "replace", "insert"}

\* ctr is the counter verifyTOTP matched; shown and shownAt are the secret
\* and the counter handleTOTPConfirm validated.
RequestRecord == [pc: Pc, kind: Kind, guess: Code \cup BackupCode \cup {NoCode},
                  ch: Challenge \cup {None}, channel: {"email", "totp"},
                  purpose: {"api", "ui_confirm"},
                  ctr: 0..LastCounter,
                  shown: 0..MaxSecrets, shownAt: 0..LastCounter,
                  old: SUBSET BackupCode]
Idle == [pc |-> "idle", kind |-> "login", guess |-> NoCode, ch |-> None,
         channel |-> "email", purpose |-> "api", ctr |-> 0,
         shown |-> 0, shownAt |-> 0, old |-> {}]

\* The rows, the clock, the calls and the history have their types.
TypeOK ==
    /\ ChallengeTypeOK /\ now <= MaxTime
    /\ totp \in TotpRow
    /\ secrets \in 0..MaxSecrets
    /\ backup \in [BackupCode -> {"none", "live", "used", "deleted"}]
    /\ req \in [Request -> RequestRecord]
    /\ spent \in [Factor -> Nat]
    /\ exhausted \subseteq Challenge
    /\ proven \subseteq 1..MaxSecrets

Init ==
    /\ TableInit
    /\ totp = NoTotp /\ secrets = 0
    /\ backup = [b \in BackupCode |-> "none"]
    /\ req = [r \in Request |-> Idle]
    /\ spent = [f \in Factor |-> 0]
    /\ exhausted = {} /\ proven = {}

-----------------------------------------------------------------------------
(* The calls.                                                              *)

Finish(r) == req' = [req EXCEPT ![r] = Idle]
Go(r, pc) == req' = [req EXCEPT ![r].pc = pc]
Begin(kind, pc) == [Idle EXCEPT !.kind = kind, !.pc = pc]

\* The call goes on without the code it was made with.
GoOn(r, pc) == req' = [req EXCEPT ![r].pc = pc, ![r].guess = NoCode,
                                  ![r].ctr = 0]

\* The purposes a call passes to VerifyAnyCode; handleVerify filters its own
\* challenge by the same list, and a confirmation passes none.
Purposes(kind) ==
    CASE kind \in {"login", "verify"} -> {"api"}
      [] kind \in {"unenroll", "regenerate"} -> {"ui_confirm"}
      [] OTHER -> {}

LoginCodePurposes == Purposes("verify")

\* The counters of the window that yield the code, and the highest of them.
Matching(gen, code) == {t \in Window : TotpCode(gen, t) = code}
Highest(gen, code) == {t \in Matching(gen, code) : \A u \in Matching(gen, code) : u <= t}

Guess == Code \cup BackupCode

\* StartWithService on a code channel: the cooldown of the channel, then the
\* delivery (that may fail: nothing is written), then ChallengeCreate.
IssueCode(r, purpose) ==
    /\ req[r].pc = "idle"
    /\ ~\E c \in Challenge : db[c].channel = "email" /\ CreatedWithin(c, ResendCooldown)
    /\ req' = [req EXCEPT ![r] = [Begin("issue", "create") EXCEPT !.purpose = purpose]]
    /\ UNCHANGED <<db, now, totp, secrets, backup, spent, exhausted, proven>>

\* StartWithService on the TOTP channel: only for a confirmed secret, and
\* only for the login (the cabinet asks for a delivered code).
IssueTotp(r) ==
    /\ req[r].pc = "idle"
    /\ totp.gen # 0 /\ totp.confirmed
    /\ req' = [req EXCEPT ![r] = [Begin("issue", "create") EXCEPT !.channel = "totp"]]
    /\ UNCHANGED <<db, now, totp, secrets, backup, spent, exhausted, proven>>

Create(r) ==
    /\ req[r].pc = "create"
    /\ \E c \in Challenge, k \in IF req[r].channel = "totp" THEN {NoCode} ELSE Code :
          ChallengeCreate(c, req[r].purpose, req[r].channel, "null", k, MaxAttempts, CodeTTL)
    /\ Finish(r)
    /\ UNCHANGED <<now, totp, secrets, backup, spent, exhausted, proven>>

\* A login or a cabinet operation with a code in it: VerifyAnyCode begins.
\* A backup code is written in another alphabet than the codes of digits, so
\* each meets only the rows of its own table.
FirstFactor(guess) == IF guess \in BackupCode THEN "backup" ELSE "totp"

EnterCode(r, kind, guess) ==
    /\ req[r].pc = "idle"
    /\ kind \in {"login", "unenroll", "regenerate"}
    /\ req' = [req EXCEPT ![r] = [Begin(kind, FirstFactor(guess)) EXCEPT !.guess = guess]]
    /\ UNCHANGED <<db, now, totp, secrets, backup, spent, exhausted, proven>>

\* handleVerify: the challenge is read and the closed one or the one of
\* another purpose refused; VerifyChallengeCode compares with the copy read.
VerifyRead(r, c, guess) ==
    /\ req[r].pc = "idle"
    /\ Open(c) /\ db[c].left > 0
    /\ db[c].purpose \in LoginCodePurposes
    /\ req' = [req EXCEPT ![r] =
                 IF db[c].channel = "totp"
                   THEN [Begin("verify", "totp") EXCEPT !.guess = guess, !.ch = c]
                   ELSE [Begin("verify", IF db[c].code = guess THEN "claim" ELSE "miss")
                           EXCEPT !.ch = c]]
    /\ UNCHANGED <<db, now, totp, secrets, backup, spent, exhausted, proven>>

\* handleTOTPConfirm: the code must be one of the secret just read,
\* confirmed or not, whatever last_timestep says.
ConfirmRead(r, guess) ==
    /\ req[r].pc = "idle"
    /\ totp.gen # 0
    /\ \E t \in Highest(totp.gen, guess) :
         req' = [req EXCEPT ![r] = [Begin("confirm", "confirm") EXCEPT
                                      !.guess = guess, !.shown = totp.gen, !.shownAt = t]]
    /\ proven' = proven \cup {totp.gen}
    /\ UNCHANGED <<db, now, totp, secrets, backup, spent, exhausted>>

-----------------------------------------------------------------------------
(* The steps of VerifyAnyCode and VerifyChallengeCode.                     *)

Spend(f) == spent' = [spent EXCEPT ![f] = spent[f] + 1]

\* Where a call goes with its code accepted, and where with ErrBadCode.  A
\* confirmation goes on in both cases: the failed burn is only logged.
Accepted(r) ==
    CASE req[r].kind = "unenroll" -> GoOn(r, "remove")
      [] req[r].kind \in {"regenerate", "confirm"} -> GoOn(r, "replace")
      [] OTHER -> Finish(r)
BadCode(r) == IF req[r].kind = "confirm" THEN GoOn(r, "replace") ELSE Finish(r)

BackupAnyState(b) == b \in BackupCode           \* mistake: no used_at IS NULL
BackupUsable(b) == b \in BackupCode /\ backup[b] = "live"

\* BackupConsume: the UPDATE finds one unused row, or none.
UseBackup(r) ==
    /\ req[r].pc = "backup"
    /\ BackupUsable(req[r].guess)
    /\ backup' = [backup EXCEPT ![req[r].guess] = "used"]
    /\ Spend(<<"backup", req[r].guess>>)
    /\ Accepted(r)
    /\ UNCHANGED <<db, now, totp, secrets, exhausted, proven>>

BackupMiss(r) ==
    /\ req[r].pc = "backup"
    /\ ~BackupUsable(req[r].guess)
    /\ BadCode(r)
    /\ UNCHANGED <<db, now, totp, secrets, backup, spent, exhausted, proven>>

\* verifyTOTP up to the replay check on the row it read.
TotpAccepts(code, t) ==
    /\ totp.gen # 0 /\ totp.confirmed
    /\ t \in Highest(totp.gen, code)
    /\ t > totp.last

ReadTotp(r) ==
    /\ req[r].pc = "totp"
    /\ \E t \in Window :
         /\ TotpAccepts(req[r].guess, t)
         /\ req' = [req EXCEPT ![r].pc = "advance", ![r].ctr = t]
    /\ UNCHANGED <<db, now, totp, secrets, backup, spent, exhausted, proven>>

\* VerifyAnyCode tries the delivered codes next.  VerifyChallengeCode counts
\* a wrong code, but not the lack of a secret (an error to its caller).
TotpRefused(r) ==
    IF req[r].kind # "verify"
      THEN req' = [req EXCEPT ![r].pc = "codes", ![r].ctr = 0]
    ELSE IF totp.gen = 0 THEN Finish(r)
    ELSE GoOn(r, "miss")

TotpMiss(r) ==
    /\ req[r].pc = "totp"
    /\ \A t \in Window : ~TotpAccepts(req[r].guess, t)
    /\ TotpRefused(r)
    /\ UNCHANGED <<db, now, totp, secrets, backup, spent, exhausted, proven>>

TimestepAlways(t) == totp.gen # 0               \* mistake: no last_timestep < $2
TimestepFree(t) == totp.gen # 0 /\ totp.last < t

\* TOTPSetTimestep: UPDATE ... WHERE user_id = $1 AND last_timestep < $2.
Advance(r) ==
    /\ req[r].pc = "advance"
    /\ TimestepFree(req[r].ctr)
    /\ totp' = [totp EXCEPT !.last = req[r].ctr]
    /\ Spend(<<"totp", <<totp.gen, req[r].ctr>>>>)
    /\ IF req[r].kind = "verify" THEN GoOn(r, "claim") ELSE Accepted(r)
    /\ UNCHANGED <<db, now, secrets, backup, exhausted, proven>>

AdvanceLost(r) ==
    /\ req[r].pc = "advance"
    /\ ~TimestepFree(req[r].ctr)
    /\ TotpRefused(r)
    /\ UNCHANGED <<db, now, totp, secrets, backup, spent, exhausted, proven>>

\* The delivered codes of the call's purposes, the newest first; the first
\* equal one is claimed.
CandidatesOfAny(r) ==                           \* mistake: codes are not kept apart
    {c \in ActiveCodeChallenges({"api", "ui_confirm"}) : db[c].code = req[r].guess}
Candidates(r) == {c \in ActiveCodeChallenges(Purposes(req[r].kind)) : db[c].code = req[r].guess}

FindCode(r) ==
    /\ req[r].pc = "codes"
    /\ \E c \in Candidates(r) :
         /\ \A d \in Candidates(r) : db[d].created <= db[c].created
         /\ req' = [req EXCEPT ![r].pc = "claim", ![r].guess = NoCode, ![r].ch = c]
    /\ UNCHANGED <<db, now, totp, secrets, backup, spent, exhausted, proven>>

NoSuchCode(r) ==
    /\ req[r].pc = "codes"
    /\ Candidates(r) = {}
    /\ BadCode(r)
    /\ UNCHANGED <<db, now, totp, secrets, backup, spent, exhausted, proven>>

\* ChallengeMarkUsed, won or lost.
Claim(r) ==
    /\ req[r].pc = "claim"
    /\ Claimable(req[r].ch)
    /\ db' = MarkUsed(req[r].ch)
    /\ Spend(<<"code", req[r].ch>>)
    /\ Accepted(r)
    /\ UNCHANGED <<now, totp, secrets, backup, exhausted, proven>>

ClaimLost(r) ==
    /\ req[r].pc = "claim"
    /\ ~Claimable(req[r].ch)
    /\ Finish(r)
    /\ UNCHANGED <<db, now, totp, secrets, backup, spent, exhausted, proven>>

\* failAttempt: one attempt less, and the challenge is closed at zero.
CountMiss(r) ==
    /\ req[r].pc = "miss"
    /\ db' = DecrAttempt(req[r].ch)
    /\ IF Live(req[r].ch) /\ AttemptsAfter(req[r].ch) = 0 THEN Go(r, "close") ELSE Finish(r)
    /\ UNCHANGED <<now, totp, secrets, backup, spent, exhausted, proven>>

Untouched(c) == db                              \* mistake: the last miss does not close
ClosedTable(c) == MarkUsed(c)

CloseExhausted(r) ==
    /\ req[r].pc = "close"
    /\ db' = ClosedTable(req[r].ch)
    /\ exhausted' = exhausted \cup {req[r].ch}
    /\ Finish(r)
    /\ UNCHANGED <<now, totp, secrets, backup, spent, proven>>

-----------------------------------------------------------------------------
(* The factors themselves.                                                 *)

\* handleTOTPEnroll: TOTPSave stores a new secret, unconfirmed, counter 0.
Enroll ==
    /\ secrets < MaxSecrets
    /\ secrets' = secrets + 1
    /\ totp' = [gen |-> secrets + 1, confirmed |-> FALSE, last |-> 0]
    /\ UNCHANGED <<db, now, backup, req, spent, exhausted, proven>>

NoBurn == "replace"                             \* mistake: the confirmed code is not burnt
AfterConfirm == "totp"

\* TOTPConfirm, by user_id alone; then VerifyAnyCode burns the code.
ConfirmWrite(r) ==
    /\ req[r].pc = "confirm"
    /\ IF totp.gen # 0
         THEN totp' = [totp EXCEPT !.confirmed = TRUE] /\ Go(r, AfterConfirm)
         ELSE Finish(r) /\ UNCHANGED totp
    /\ UNCHANGED <<db, now, secrets, backup, spent, exhausted, proven>>

\* TOTPDelete, from the cabinet.
Remove(r) ==
    /\ req[r].pc = "remove"
    /\ totp' = NoTotp
    /\ Finish(r)
    /\ UNCHANGED <<db, now, secrets, backup, spent, exhausted, proven>>

\* handleResetTOTP of the administrator: TOTPDelete, then a new batch.
Reset(r) ==
    /\ req[r].pc = "idle"
    /\ totp' = NoTotp
    /\ req' = [req EXCEPT ![r] = Begin("regenerate", "replace")]
    /\ UNCHANGED <<db, now, secrets, backup, spent, exhausted, proven>>

\* BackupReplace: the DELETE of the transaction takes the rows its snapshot
\* shows; they go, and the new ones come, with the COMMIT.
ReplaceDelete(r) ==
    /\ req[r].pc = "replace"
    /\ req' = [req EXCEPT ![r].pc = "insert",
                          ![r].old = {b \in BackupCode : backup[b] \in {"live", "used"}}]
    /\ UNCHANGED <<db, now, totp, secrets, backup, spent, exhausted, proven>>

ReplaceCommit(r) ==
    /\ req[r].pc = "insert"
    /\ \E batch \in SUBSET {b \in BackupCode : backup[b] = "none"} :
         /\ Cardinality(batch) = BatchSize
         /\ backup' = [b \in BackupCode |->
                         IF b \in batch THEN "live"
                         ELSE IF b \in req[r].old THEN "deleted" ELSE backup[b]]
    /\ Finish(r)
    /\ UNCHANGED <<db, now, totp, secrets, spent, exhausted, proven>>

Tick ==
    /\ now < MaxTime
    /\ now' = now + 1
    /\ UNCHANGED <<db, totp, secrets, backup, req, spent, exhausted, proven>>

Arrive(r) ==
    \/ \E p \in {"api", "ui_confirm"} : IssueCode(r, p)
    \/ IssueTotp(r)
    \/ \E k \in Kind, g \in Guess : EnterCode(r, k, g)
    \/ \E c \in Challenge, g \in Guess : VerifyRead(r, c, g)
    \/ \E g \in Guess : ConfirmRead(r, g)
    \/ Reset(r)

Proceed(r) ==
    \/ Create(r)
    \/ UseBackup(r) \/ BackupMiss(r)
    \/ ReadTotp(r) \/ TotpMiss(r)
    \/ Advance(r) \/ AdvanceLost(r)
    \/ FindCode(r) \/ NoSuchCode(r)
    \/ Claim(r) \/ ClaimLost(r)
    \/ CountMiss(r) \/ CloseExhausted(r)
    \/ ConfirmWrite(r) \/ Remove(r)
    \/ ReplaceDelete(r) \/ ReplaceCommit(r)

Next == Enroll \/ Tick \/ \E r \in Request : Arrive(r) \/ Proceed(r)

Spec == Init /\ [][Next]_vars

-----------------------------------------------------------------------------
(* What makes the factors one-time.                                        *)

\* No interleaving of logins, verifications and cabinet operations spends a
\* factor twice: not a delivered code (ChallengeMarkUsed), not a backup code
\* (BackupConsume), not one counter of TOTP against one secret on file
\* (TOTPSetTimestep), though each of them is read long before it is written.
FactorSpentOnce == \A f \in Factor : spent[f] <= 1

\* Who spends a delivered code in this step is a call of that code's purpose.
SpentForItsPurpose ==
    \A c \in Challenge : spent'[<<"code", c>>] # spent[<<"code", c>>] =>
        \E r \in Request : /\ req[r].pc = "claim" /\ req[r].ch = c /\ req'[r] # req[r]
                           /\ db[c].purpose \in Purposes(req[r].kind)

\* A delivered code is spent only by a call of its own purpose: a code sent
\* to confirm a cabinet operation lets nobody in, and the other way round
\* (LoginCodePurposes, purposeUIConfirm).
PurposeKept == [][SpentForItsPurpose]_vars

\* Once the miss that used up the attempts of a challenge is answered
\* (failAttempt), no call spends that challenge, whichever way it came to it
\* and whenever it read the row.
ExhaustedIsClosed ==
    [][\A c \in exhausted : spent'[<<"code", c>>] = spent[<<"code", c>>]]_vars

\* When a confirmation goes on to the backup codes, the code it was made with
\* can no longer be spent: its counter is used up or has left the window
\* (handleTOTPConfirm burns it through VerifyAnyCode, whose failure it only
\* logs).
ConfirmCodeBurnt ==
    \A r \in Request :
        /\ req[r].kind = "confirm" /\ req[r].pc \in {"replace", "insert"}
        /\ req[r].shown = totp.gen
        => totp.last >= req[r].shownAt \/ req[r].shownAt \notin Window

\* A confirmed secret is one of which some confirmation was shown a code: a
\* new secret needs a new confirmation (the comment of TOTPSave).
ConfirmedWasProven == totp.gen # 0 /\ totp.confirmed => totp.gen \in proven
=============================================================================

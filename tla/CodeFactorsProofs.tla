------------------------- MODULE CodeFactorsProofs -------------------------
(***************************************************************************)
(* Safety of CodeFactors for any number of calls, challenges, backup       *)
(* codes, secrets and periods, and any code function.                      *)
(*                                                                         *)
(* A call is a record of its own, and no step writes two of them: a step   *)
(* is safe when the record it writes fits the table (Fit), and a record    *)
(* that fits goes on fitting whatever the other calls do to the rows.      *)
(***************************************************************************)
EXTENDS CodeFactors, ChallengeTableProofs, FiniteSetTheorems

\* A call that verifies a challenge, or is about to claim one, holds a row
\* of its own purpose; a counter about to be spent is a counter.
Fit(q) ==
    /\ q.kind = "verify" \/ q.pc \in {"claim", "miss", "close"} =>
         q.ch \in Challenge /\ db[q.ch].st # "absent"
    /\ q.kind = "verify" \/ q.pc = "claim" => db[q.ch].purpose \in Purposes(q.kind)
    /\ q.pc = "advance" => q.ctr \in 1..LastCounter

CallsFit == \A r \in Request : Fit(req[r])

\* A factor that was spent can be spent no more.
CodesSpent ==
    \A c \in Challenge : /\ spent[<<"code", c>>] <= 1
                         /\ spent[<<"code", c>>] # 0 => Spent(c)
BackupsSpent ==
    \A b \in BackupCode : /\ spent[<<"backup", b>>] <= 1
                          /\ spent[<<"backup", b>>] # 0 => backup[b] \in {"used", "deleted"}
CountersSpent ==
    /\ totp.gen <= secrets
    /\ \A g \in 1..MaxSecrets, t \in 1..LastCounter :
         /\ spent[<<"totp", <<g, t>>>>] <= 1
         /\ spent[<<"totp", <<g, t>>>>] # 0 => g <= secrets /\ (g = totp.gen => t <= totp.last)

ExhaustedSpent == \A c \in exhausted : Spent(c)

IInv == /\ TypeOK /\ CallsFit
        /\ CodesSpent /\ BackupsSpent /\ CountersSpent /\ ExhaustedSpent

\* What every step does to the table.
TableKept ==
    /\ db' \in [Challenge -> Row]
    /\ \A c \in Challenge : RowKept(c)

\* A step writes at most one call, and leaves it fit.
CallsKept ==
    \/ req' = req
    \/ \E r \in Request, q \in RequestRecord : Fit(q) /\ req' = [req EXCEPT ![r] = q]

-----------------------------------------------------------------------------
(* The clock, the factors and the records.                                 *)

LEMMA WindowInside == TypeOK => Window \subseteq 1..LastCounter
  BY CodeFactorsAssumption DEF TypeOK, ChallengeTypeOK, Window, Counter, LastCounter

LEMMA IdleFits == Idle \in RequestRecord /\ Fit(Idle)
  BY CodeFactorsAssumption DEF Idle, RequestRecord, Pc, Kind, LastCounter, Fit

LEMMA FactorForms ==
    /\ \A c \in Challenge : <<"code", c>> \in Factor
    /\ \A b \in BackupCode : <<"backup", b>> \in Factor
    /\ \A g \in 1..MaxSecrets, t \in 1..LastCounter : <<"totp", <<g, t>>>> \in Factor
    /\ \A f \in Factor : \/ \E c \in Challenge : f = <<"code", c>>
                         \/ \E b \in BackupCode : f = <<"backup", b>>
                         \/ \E g \in 1..MaxSecrets, t \in 1..LastCounter : f = <<"totp", <<g, t>>>>
  BY DEF Factor, CodeFactor, BackupFactor, TotpFactor

LEMMA SpendOne ==
    ASSUME TypeOK, NEW f \in Factor, Spend(f)
    PROVE  /\ spent' \in [Factor -> Nat]
           /\ spent'[f] = spent[f] + 1
           /\ \A g \in Factor \ {f} : spent'[g] = spent[g]
  BY DEF TypeOK, Spend

\* A record that fits the table fits it after any step.
LEMMA FitStays ==
    ASSUME TableKept, NEW q, Fit(q)
    PROVE  Fit(q)'
  BY DEF Fit, TableKept, RowKept

LEMMA FinishFits ==
    ASSUME NEW r \in Request, Finish(r)
    PROVE  CallsKept
  BY IdleFits DEF Finish, CallsKept

\* Go and GoOn rewrite the program counter of a call that fits.
LEMMA GoFits ==
    ASSUME TypeOK, CallsFit, NEW r \in Request, NEW pc \in Pc,
           pc # "advance", pc = "claim" => req[r].kind = "verify",
           pc \in {"miss", "close"} => req[r].kind = "verify" \/ req[r].pc = "miss",
           Go(r, pc) \/ GoOn(r, pc)
    PROVE  CallsKept
  <1> DEFINE a == [req[r] EXCEPT !.pc = pc]
             b == [req[r] EXCEPT !.pc = pc, !.guess = NoCode, !.ctr = 0]
  <1>1. req[r] \in RequestRecord /\ Fit(req[r]) /\ 0 \in 0..LastCounter
    BY CodeFactorsAssumption DEF TypeOK, CallsFit, LastCounter
  <1>2. a \in RequestRecord /\ b \in RequestRecord
    BY <1>1 DEF RequestRecord
  <1>3. /\ a.pc = pc /\ a.kind = req[r].kind /\ a.ch = req[r].ch
        /\ b.pc = pc /\ b.kind = req[r].kind /\ b.ch = req[r].ch
    BY <1>1 DEF RequestRecord
  <1>4. Fit(a) /\ Fit(b)
    BY <1>1, <1>3 DEF Fit
  <1>5. CASE Go(r, pc)
    <2>1. req' = [req EXCEPT ![r] = a]
      BY <1>5 DEF Go
    <2> QED BY <1>2, <1>4, <2>1 DEF CallsKept
  <1>6. CASE GoOn(r, pc)
    <2>1. req' = [req EXCEPT ![r] = b]
      BY <1>6 DEF GoOn
    <2> QED BY <1>2, <1>4, <2>1 DEF CallsKept
  <1> QED BY <1>5, <1>6

LEMMA AcceptedFits ==
    ASSUME TypeOK, CallsFit, NEW r \in Request, Accepted(r) \/ BadCode(r)
    PROVE  CallsKept
  <1>1. "remove" \in Pc /\ "replace" \in Pc
    BY DEF Pc
  <1>2. CASE Finish(r)
    BY <1>2, FinishFits
  <1>3. CASE GoOn(r, "remove") \/ GoOn(r, "replace")
    BY <1>1, <1>3, GoFits
  <1> QED BY <1>2, <1>3 DEF Accepted, BadCode

\* A call that begins has a row only to verify it.
LEMMA BeginFits ==
    ASSUME TypeOK, NEW r \in Request, NEW q \in RequestRecord,
           q.kind # "verify", q.pc \notin {"claim", "miss", "close", "advance"},
           req' = [req EXCEPT ![r] = q]
    PROVE  CallsKept
  BY DEF CallsKept, Fit

-----------------------------------------------------------------------------
(* The initial state.                                                      *)

LEMMA InitInv == Init => IInv
  <1> SUFFICES ASSUME Init PROVE IInv
    OBVIOUS
  <1>1. EmptyRow \in Row
    BY DEF EmptyRow, Row, Purpose, Channel, PushState
  <1>2. 0 \in 0..MaxSecrets /\ 0 \in 0..LastCounter /\ 0 <= MaxTime
    BY CodeFactorsAssumption DEF LastCounter
  <1>3. TypeOK
    BY <1>1, <1>2, IdleFits DEF Init, TableInit, TypeOK, ChallengeTypeOK, TotpRow, NoTotp
  <1>4. CallsFit
    BY IdleFits DEF Init, CallsFit
  <1>5. CodesSpent /\ BackupsSpent /\ CountersSpent /\ ExhaustedSpent
    BY <1>2, FactorForms
       DEF Init, NoTotp, CodesSpent, BackupsSpent, CountersSpent, ExhaustedSpent
  <1> QED BY <1>3, <1>4, <1>5 DEF IInv

-----------------------------------------------------------------------------
(* What a step does to the table and to the calls.                         *)

LEMMA NextKeepsTable ==
    ASSUME IInv, Next
    PROVE  TableKept
  <1>a. ChallengeTypeOK /\ "null" \in PushState
    BY DEF IInv, TypeOK, PushState
  <1>b. CASE db' = db
    BY <1>a, <1>b DEF TableKept, RowKept, Spent, Claimable, Live, ChallengeTypeOK
  <1>1. ASSUME NEW r \in Request, Create(r)
        PROVE  TableKept
    <2>1. PICK c \in Challenge, k \in Code \cup {NoCode} :
            ChallengeCreate(c, req[r].purpose, req[r].channel, "null", k, MaxAttempts, CodeTTL)
      BY <1>1 DEF Create
    <2>2. /\ req[r].purpose \in Purpose /\ req[r].channel \in Channel
          /\ MaxAttempts \in Nat /\ CodeTTL \in Nat
      BY CodeFactorsAssumption DEF IInv, TypeOK, RequestRecord, Purpose, Channel
    <2> QED BY <1>a, <2>1, <2>2, CreateKeeps DEF TableKept
  <1>2. ASSUME NEW r \in Request, Claim(r) \/ CountMiss(r) \/ CloseExhausted(r)
        PROVE  TableKept
    <2>1. req[r].ch \in Challenge
      BY <1>2 DEF IInv, CallsFit, Fit, Claim, CountMiss, CloseExhausted
    <2>2. db' \in {db, MarkUsed(req[r].ch), DecrAttempt(req[r].ch)}
      BY <1>2 DEF Claim, CountMiss, CloseExhausted, ClosedTable
    <2> QED BY <1>a, <2>1, <2>2, UpdateKeeps DEF TableKept
  <1>3. ASSUME NEW r \in Request, Arrive(r)
        PROVE  db' = db
    BY <1>3 DEF Arrive, IssueCode, IssueTotp, EnterCode, VerifyRead, ConfirmRead, Reset
  <1>4. ASSUME NEW r \in Request, Proceed(r)
        PROVE  TableKept
    BY <1>b, <1>1, <1>2, <1>4
       DEF Proceed, UseBackup, BackupMiss, ReadTotp, TotpMiss, Advance, AdvanceLost, FindCode,
           NoSuchCode, ClaimLost, ConfirmWrite, Remove, ReplaceDelete, ReplaceCommit
  <1>5. CASE Enroll \/ Tick
    BY <1>b, <1>5 DEF Enroll, Tick
  <1> QED BY <1>b, <1>3, <1>4, <1>5 DEF Next

LEMMA ArriveFits ==
    ASSUME IInv, NEW r \in Request, Arrive(r)
    PROVE  CallsKept
  <1>a. /\ TypeOK /\ totp.gen \in 0..MaxSecrets /\ NoCode \in Code \cup BackupCode \cup {NoCode}
        /\ 0 \in 0..MaxSecrets /\ 0 \in 0..LastCounter
    BY CodeFactorsAssumption DEF IInv, TypeOK, TotpRow, LastCounter
  <1> USE DEF Begin, Idle, RequestRecord, Pc, Kind
  <1>1. ASSUME NEW p \in {"api", "ui_confirm"}, IssueCode(r, p)
        PROVE  CallsKept
    <2> DEFINE q == [Begin("issue", "create") EXCEPT !.purpose = p]
    <2>1. q \in RequestRecord /\ q.kind = "issue" /\ q.pc = "create"
      BY <1>a
    <2> QED BY <1>a, <1>1, <2>1, BeginFits DEF IssueCode
  <1>2. CASE IssueTotp(r)
    <2> DEFINE q == [Begin("issue", "create") EXCEPT !.channel = "totp"]
    <2>1. q \in RequestRecord /\ q.kind = "issue" /\ q.pc = "create"
      BY <1>a
    <2> QED BY <1>a, <1>2, <2>1, BeginFits DEF IssueTotp
  <1>3. ASSUME NEW k \in Kind, NEW g \in Guess, EnterCode(r, k, g)
        PROVE  CallsKept
    <2> DEFINE q == [Begin(k, FirstFactor(g)) EXCEPT !.guess = g]
    <2>1. k # "verify" /\ g \in Code \cup BackupCode
      BY <1>3 DEF EnterCode, Guess
    <2>2. q \in RequestRecord /\ q.kind = k /\ q.pc \in {"backup", "totp"}
      BY <1>a, <2>1 DEF FirstFactor
    <2> QED BY <1>a, <1>3, <2>1, <2>2, BeginFits DEF EnterCode
  <1>4. ASSUME NEW c \in Challenge, NEW g \in Guess, VerifyRead(r, c, g)
        PROVE  CallsKept
    <2>1. /\ db[c].st = "live" /\ db[c].purpose \in Purposes("verify")
          /\ g \in Code \cup BackupCode
      BY <1>4 DEF VerifyRead, Open, Live, LoginCodePurposes, Guess
    <2>2. PICK q \in RequestRecord : /\ q.kind = "verify" /\ q.ch = c
                                     /\ q.pc \in {"totp", "claim", "miss"}
                                     /\ req' = [req EXCEPT ![r] = q]
      <3>1. CASE db[c].channel = "totp"
        <4> DEFINE q == [Begin("verify", "totp") EXCEPT !.guess = g, !.ch = c]
        <4>1. q \in RequestRecord /\ q.kind = "verify" /\ q.ch = c /\ q.pc = "totp"
          BY <1>a, <2>1
        <4> QED BY <1>4, <3>1, <4>1 DEF VerifyRead
      <3>2. ASSUME NEW pc \in {"claim", "miss"},
                   req' = [req EXCEPT ![r] = [Begin("verify", pc) EXCEPT !.ch = c]]
            PROVE  \E q \in RequestRecord : /\ q.kind = "verify" /\ q.ch = c
                                            /\ q.pc \in {"totp", "claim", "miss"}
                                            /\ req' = [req EXCEPT ![r] = q]
        <4> DEFINE q == [Begin("verify", pc) EXCEPT !.ch = c]
        <4>1. q \in RequestRecord /\ q.kind = "verify" /\ q.ch = c /\ q.pc = pc
          BY <1>a
        <4> QED BY <3>2, <4>1
      <3>3. CASE db[c].channel # "totp"
        BY <1>4, <3>2, <3>3 DEF VerifyRead
      <3> QED BY <3>1, <3>3
    <2>3. Fit(q)
      BY <2>1, <2>2 DEF Fit
    <2> QED BY <2>2, <2>3 DEF CallsKept
  <1>5. ASSUME NEW g \in Guess, ConfirmRead(r, g)
        PROVE  CallsKept
    <2>1. PICK t \in Highest(totp.gen, g) :
            req' = [req EXCEPT ![r] = [Begin("confirm", "confirm") EXCEPT
                                         !.guess = g, !.shown = totp.gen, !.shownAt = t]]
      BY <1>5 DEF ConfirmRead
    <2>2. t \in 0..LastCounter /\ g \in Code \cup BackupCode
      BY <1>a, WindowInside DEF Highest, Matching, Guess
    <2> DEFINE q == [Begin("confirm", "confirm") EXCEPT
                       !.guess = g, !.shown = totp.gen, !.shownAt = t]
    <2>3. q \in RequestRecord /\ q.kind = "confirm" /\ q.pc = "confirm"
      BY <1>a, <2>2
    <2> QED BY <1>a, <2>1, <2>3, BeginFits
  <1>6. CASE Reset(r)
    <2> DEFINE q == Begin("regenerate", "replace")
    <2>1. q \in RequestRecord /\ q.kind = "regenerate" /\ q.pc = "replace"
      BY <1>a
    <2> QED BY <1>a, <1>6, <2>1, BeginFits DEF Reset
  <1> QED BY <1>1, <1>2, <1>3, <1>4, <1>5, <1>6 DEF Arrive

LEMMA ProceedFits ==
    ASSUME IInv, NEW r \in Request, Proceed(r)
    PROVE  CallsKept
  <1>a. /\ TypeOK /\ CallsFit /\ req[r] \in RequestRecord /\ Fit(req[r])
    BY DEF IInv, TypeOK, CallsFit
  <1>b. {"totp", "codes", "claim", "miss", "close", "remove", "replace", "insert"} \subseteq Pc
    BY DEF Pc
  <1>c. ASSUME TotpRefused(r), req[r].pc \in {"totp", "advance"}
        PROVE  CallsKept
    <2>1. CASE req[r].kind # "verify"
      <3> DEFINE q == [req[r] EXCEPT !.pc = "codes", !.ctr = 0]
      <3>1. 0 \in 0..LastCounter
        BY CodeFactorsAssumption DEF LastCounter
      <3>2. q \in RequestRecord /\ q.kind = req[r].kind /\ q.pc = "codes"
        BY <1>a, <1>b, <3>1 DEF RequestRecord
      <3>3. req' = [req EXCEPT ![r] = q]
        BY <1>c, <2>1 DEF TotpRefused
      <3> QED BY <1>a, <2>1, <3>2, <3>3, BeginFits
    <2>2. CASE req[r].kind = "verify" /\ GoOn(r, "miss")
      BY <1>a, <1>b, <2>2, GoFits
    <2>3. CASE Finish(r)
      BY <2>3, FinishFits
    <2> QED BY <1>c, <2>1, <2>2, <2>3 DEF TotpRefused
  <1>1. CASE Create(r) \/ ClaimLost(r) \/ CloseExhausted(r) \/ Remove(r) \/ ReplaceCommit(r)
    BY <1>1, FinishFits DEF Create, ClaimLost, CloseExhausted, Remove, ReplaceCommit
  <1>2. CASE UseBackup(r) \/ BackupMiss(r) \/ NoSuchCode(r) \/ Claim(r)
    BY <1>a, <1>2, AcceptedFits DEF UseBackup, BackupMiss, NoSuchCode, Claim
  <1>3. CASE ReadTotp(r)
    <2>1. PICK t \in Window : req' = [req EXCEPT ![r].pc = "advance", ![r].ctr = t]
      BY <1>3 DEF ReadTotp
    <2> DEFINE q == [req[r] EXCEPT !.pc = "advance", !.ctr = t]
    <2>2. t \in 1..LastCounter /\ t \in 0..LastCounter /\ "advance" \in Pc
      BY <1>a, <2>1, WindowInside DEF Pc
    <2>3. /\ q \in RequestRecord /\ q.kind = req[r].kind /\ q.ch = req[r].ch
          /\ q.pc = "advance" /\ q.ctr = t
      BY <1>a, <2>2 DEF RequestRecord
    <2>4. Fit(q)
      BY <1>a, <2>2, <2>3 DEF Fit
    <2>5. req' = [req EXCEPT ![r] = q]
      BY <2>1
    <2> QED BY <2>3, <2>4, <2>5 DEF CallsKept
  <1>4. CASE TotpMiss(r) \/ AdvanceLost(r)
    BY <1>4, <1>c DEF TotpMiss, AdvanceLost
  <1>5. CASE Advance(r)
    <2>1. CASE req[r].kind = "verify"
      <3>1. GoOn(r, "claim")
        BY <1>5, <2>1 DEF Advance
      <3> QED BY <1>a, <1>b, <2>1, <3>1, GoFits
    <2>2. CASE Accepted(r)
      BY <1>a, <2>2, AcceptedFits
    <2> QED BY <1>5, <2>1, <2>2 DEF Advance
  <1>6. CASE FindCode(r)
    <2>1. PICK c \in Candidates(r) :
            req' = [req EXCEPT ![r].pc = "claim", ![r].guess = NoCode, ![r].ch = c]
      BY <1>6 DEF FindCode
    <2> DEFINE q == [req[r] EXCEPT !.pc = "claim", !.guess = NoCode, !.ch = c]
    <2>2. /\ c \in Challenge /\ db[c].st # "absent"
          /\ db[c].purpose \in Purposes(req[r].kind)
      BY <2>1 DEF Candidates, ActiveCodeChallenges, Open, Live
    <2>3. /\ q \in RequestRecord /\ q.kind = req[r].kind /\ q.ch = c /\ q.pc = "claim"
      BY <1>a, <1>b, <2>2 DEF RequestRecord
    <2>4. Fit(q)
      BY <2>2, <2>3 DEF Fit
    <2>5. req' = [req EXCEPT ![r] = q]
      BY <2>1
    <2> QED BY <2>3, <2>4, <2>5 DEF CallsKept
  <1>7. CASE CountMiss(r)
    <2>1. CASE Go(r, "close")
      <3>1. req[r].pc = "miss"
        BY <1>7 DEF CountMiss
      <3> QED BY <1>a, <1>b, <2>1, <3>1, GoFits
    <2> QED BY <1>7, <2>1, FinishFits DEF CountMiss
  <1>8. CASE ConfirmWrite(r)
    <2>1. CASE Go(r, "totp")
      BY <1>a, <1>b, <2>1, GoFits
    <2> QED BY <1>8, <2>1, FinishFits DEF ConfirmWrite, AfterConfirm
  <1>9. CASE ReplaceDelete(r)
    <2> DEFINE old == {b \in BackupCode : backup[b] \in {"live", "used"}}
               q == [req[r] EXCEPT !.pc = "insert", !.old = old]
    <2>1. /\ q \in RequestRecord /\ q.kind = req[r].kind /\ q.ch = req[r].ch /\ q.pc = "insert"
      BY <1>a, <1>b DEF RequestRecord
    <2>2. Fit(q)
      BY <1>a, <2>1 DEF Fit
    <2>3. req' = [req EXCEPT ![r] = q]
      BY <1>9 DEF ReplaceDelete
    <2> QED BY <2>1, <2>2, <2>3 DEF CallsKept
  <1> QED BY <1>1, <1>2, <1>3, <1>4, <1>5, <1>6, <1>7, <1>8, <1>9 DEF Proceed

\* Every call stays a record that fits.
LEMMA NextKeepsCalls ==
    ASSUME IInv, Next
    PROVE  req' \in [Request -> RequestRecord] /\ CallsFit'
  <1>1. CallsKept
    <2>1. CASE Enroll \/ Tick
      BY <2>1 DEF Enroll, Tick, CallsKept
    <2> QED BY <2>1, ArriveFits, ProceedFits DEF Next
  <1>2. TableKept
    BY NextKeepsTable
  <1>3. \A s \in Request : req[s] \in RequestRecord /\ Fit(req[s])
    BY DEF IInv, TypeOK, CallsFit
  <1>4. req' \in [Request -> RequestRecord]
    BY <1>1 DEF CallsKept, IInv, TypeOK
  <1>5. ASSUME NEW s \in Request
        PROVE  Fit(req[s])'
    <2>1. PICK q : q = req'[s] /\ Fit(q)
      BY <1>1, <1>3 DEF CallsKept, IInv, TypeOK
    <2>2. Fit(q)'
      BY <1>2, <2>1, FitStays
    <2> QED BY <2>1, <2>2 DEF Fit
  <1> QED BY <1>4, <1>5 DEF CallsFit

-----------------------------------------------------------------------------
(* What a step does to the factors.                                        *)

\* A backup code that is used or deleted never becomes live.
LEMMA NextKeepsBackups ==
    ASSUME IInv, Next
    PROVE  /\ backup' \in [BackupCode -> {"none", "live", "used", "deleted"}]
           /\ \A b \in BackupCode : backup[b] \in {"used", "deleted"} =>
                                     backup'[b] \in {"used", "deleted"}
  <1>a. backup \in [BackupCode -> {"none", "live", "used", "deleted"}]
    BY DEF IInv, TypeOK
  <1>1. ASSUME NEW r \in Request, UseBackup(r)
        PROVE  backup' = [backup EXCEPT ![req[r].guess] = "used"]
    BY <1>1 DEF UseBackup
  <1>2. ASSUME NEW r \in Request, ReplaceCommit(r)
        PROVE  \E batch \in SUBSET {b \in BackupCode : backup[b] = "none"} :
                 backup' = [b \in BackupCode |->
                              IF b \in batch THEN "live"
                              ELSE IF b \in req[r].old THEN "deleted" ELSE backup[b]]
    BY <1>2 DEF ReplaceCommit
  <1>3. \/ backup' = backup
        \/ \E r \in Request : UseBackup(r) \/ ReplaceCommit(r)
    BY DEF Next, Enroll, Tick, Arrive, IssueCode, IssueTotp, EnterCode, VerifyRead, ConfirmRead,
           Reset, Proceed, Create, BackupMiss, ReadTotp, TotpMiss, Advance, AdvanceLost, FindCode,
           NoSuchCode, Claim, ClaimLost, CountMiss, CloseExhausted, ConfirmWrite, Remove,
           ReplaceDelete
  <1> QED BY <1>a, <1>1, <1>2, <1>3

\* A spent counter stays below last_timestep as long as its secret is on
\* file, and the number of a secret is never used again.
LEMMA NextKeepsTotp ==
    ASSUME IInv, Next
    PROVE  /\ totp' \in TotpRow /\ secrets' \in 0..MaxSecrets
           /\ totp'.gen <= secrets' /\ secrets <= secrets'
           /\ \A g \in 1..MaxSecrets, t \in 1..LastCounter :
                g <= secrets /\ (g = totp.gen => t <= totp.last)
                  => (g = totp'.gen => t <= totp'.last)
  <1>a. /\ totp \in TotpRow /\ secrets \in 0..MaxSecrets /\ totp.gen <= secrets
        /\ LastCounter \in Nat
    BY CodeFactorsAssumption DEF IInv, TypeOK, CountersSpent, LastCounter
  <1> USE DEF TotpRow
  <1>1. CASE Enroll
    BY <1>a, <1>1, CodeFactorsAssumption DEF Enroll
  <1>2. CASE totp' = NoTotp /\ secrets' = secrets
    BY <1>a, <1>2, CodeFactorsAssumption DEF NoTotp
  <1>3. ASSUME NEW r \in Request, Advance(r)
        PROVE  totp' = [totp EXCEPT !.last = req[r].ctr] /\ secrets' = secrets
               /\ req[r].ctr \in 0..LastCounter /\ totp.last < req[r].ctr
    BY <1>3 DEF Advance, TimestepFree, IInv, TypeOK, RequestRecord
  <1>4. CASE totp' = totp /\ secrets' = secrets
    BY <1>a, <1>4
  <1>5. CASE totp' = [totp EXCEPT !.confirmed = TRUE] /\ secrets' = secrets
    <2>1. totp'.gen = totp.gen /\ totp'.last = totp.last /\ totp' \in TotpRow
      BY <1>a, <1>5
    <2> QED BY <1>a, <1>5, <2>1
  <1>6. CASE \E r \in Request : Advance(r)
    <2>1. PICK r \in Request : Advance(r)
      BY <1>6
    <2>2. /\ totp' = [totp EXCEPT !.last = req[r].ctr] /\ secrets' = secrets
          /\ req[r].ctr \in 0..LastCounter /\ totp.last < req[r].ctr
      BY <1>3, <2>1
    <2>3. totp'.gen = totp.gen /\ totp'.last = req[r].ctr /\ totp' \in TotpRow
      BY <1>a, <2>2
    <2> QED BY <1>a, <2>2, <2>3
  <1>7. \/ Enroll
        \/ totp' = NoTotp /\ secrets' = secrets
        \/ totp' = totp /\ secrets' = secrets
        \/ totp' = [totp EXCEPT !.confirmed = TRUE] /\ secrets' = secrets
        \/ \E r \in Request : Advance(r)
    BY DEF Next, Tick, Arrive, IssueCode, IssueTotp, EnterCode, VerifyRead, ConfirmRead,
           Reset, Proceed, Create, UseBackup, BackupMiss, ReadTotp, TotpMiss, AdvanceLost,
           FindCode, NoSuchCode, Claim, ClaimLost, CountMiss, CloseExhausted, ConfirmWrite,
           Remove, ReplaceDelete, ReplaceCommit
  <1> QED BY <1>1, <1>2, <1>4, <1>5, <1>6, <1>7

\* Three statements spend a factor.
LEMMA NextSpends ==
    ASSUME Next
    PROVE  \/ spent' = spent
           \/ \E r \in Request : UseBackup(r) \/ Advance(r) \/ Claim(r)
  BY DEF Next, Enroll, Tick, Arrive, IssueCode, IssueTotp, EnterCode, VerifyRead, ConfirmRead,
         Reset, Proceed, Create, BackupMiss, ReadTotp, TotpMiss, AdvanceLost, FindCode,
         NoSuchCode, ClaimLost, CountMiss, CloseExhausted, ConfirmWrite, Remove,
         ReplaceDelete, ReplaceCommit

\* What was spent stays spent.
LEMMA OldSpendingKept ==
    ASSUME IInv, Next
    PROVE  /\ \A c \in Challenge : Spent(c) => Spent(c)'
           /\ \A c \in Challenge : spent[<<"code", c>>] # 0 => Spent(c)'
           /\ \A b \in BackupCode :
                spent[<<"backup", b>>] # 0 => backup'[b] \in {"used", "deleted"}
           /\ \A g \in 1..MaxSecrets, t \in 1..LastCounter :
                spent[<<"totp", <<g, t>>>>] # 0 =>
                  g <= secrets' /\ (g = totp'.gen => t <= totp'.last)
  <1>1. \A c \in Challenge : Spent(c) => Spent(c)'
    BY NextKeepsTable DEF TableKept, RowKept, Spent
  <1>2. \A g \in 1..MaxSecrets : g <= secrets => g <= secrets'
    BY NextKeepsTotp DEF IInv, TypeOK
  <1> QED BY <1>1, <1>2, NextKeepsBackups, NextKeepsTotp
          DEF IInv, CodesSpent, BackupsSpent, CountersSpent

\* The claim takes a row nobody has spent, and leaves it spent.
LEMMA ClaimSpends ==
    ASSUME IInv, NEW r \in Request, Claim(r), NEW c, c = req[r].ch
    PROVE  /\ c \in Challenge /\ Spend(<<"code", c>>)
           /\ ~Spent(c) /\ Spent(c)'
  <1>1. c \in Challenge
    BY DEF IInv, CallsFit, Fit, Claim
  <1>2. db' = [db EXCEPT ![c].used = TRUE] /\ Claimable(c) /\ Spend(<<"code", c>>)
    BY DEF Claim, MarkUsed
  <1>3. db'[c].used = TRUE /\ db'[c].st = db[c].st
    BY <1>1, <1>2 DEF IInv, TypeOK, ChallengeTypeOK, Row
  <1> QED BY <1>1, <1>2, <1>3 DEF Spent, Claimable, Live

\* No factor is spent but the one a step spends, and that one was not.
LEMMA NextKeepsSpending ==
    ASSUME IInv, Next
    PROVE  /\ spent' \in [Factor -> Nat]
           /\ CodesSpent' /\ BackupsSpent' /\ CountersSpent'
  <1>a. /\ TypeOK /\ spent \in [Factor -> Nat]
        /\ CodesSpent /\ BackupsSpent /\ CountersSpent
    BY DEF IInv, TypeOK
  <1>b. totp'.gen <= secrets'
    BY NextKeepsTotp
  <1>1. CASE spent' = spent
    BY <1>a, <1>b, <1>1, OldSpendingKept DEF CodesSpent, BackupsSpent, CountersSpent
  <1>2. ASSUME NEW r \in Request, Claim(r)
        PROVE  /\ spent' \in [Factor -> Nat]
               /\ CodesSpent' /\ BackupsSpent' /\ CountersSpent'
    <2>1. PICK c : c = req[r].ch
      OBVIOUS
    <2>2. /\ c \in Challenge /\ Spend(<<"code", c>>) /\ ~Spent(c) /\ Spent(c)'
      BY <1>2, <2>1, ClaimSpends
    <2>3. spent[<<"code", c>>] = 0
      BY <1>a, <2>2, FactorForms DEF CodesSpent
    <2>4. /\ spent' \in [Factor -> Nat] /\ spent'[<<"code", c>>] = 1
          /\ \A g \in Factor \ {<<"code", c>>} : spent'[g] = spent[g]
      BY <1>a, <2>2, <2>3, FactorForms, SpendOne
    <2>5. CodesSpent'
      <3> SUFFICES ASSUME NEW d \in Challenge
                   PROVE  /\ spent'[<<"code", d>>] <= 1
                          /\ spent'[<<"code", d>>] # 0 => Spent(d)'
        BY DEF CodesSpent
      <3>1. CASE d = c
        BY <2>2, <2>4, <3>1
      <3>2. CASE d # c
        BY <1>a, <2>4, <3>2, FactorForms, OldSpendingKept DEF CodesSpent
      <3> QED BY <3>1, <3>2
    <2>6. BackupsSpent' /\ CountersSpent'
      BY <1>a, <1>b, <2>4, FactorForms, OldSpendingKept DEF BackupsSpent, CountersSpent
    <2> QED BY <2>4, <2>5, <2>6
  <1>3. ASSUME NEW r \in Request, UseBackup(r)
        PROVE  /\ spent' \in [Factor -> Nat]
               /\ CodesSpent' /\ BackupsSpent' /\ CountersSpent'
    <2>1. PICK b : b = req[r].guess
      OBVIOUS
    <2>2. /\ b \in BackupCode /\ backup[b] = "live" /\ Spend(<<"backup", b>>)
          /\ backup' = [backup EXCEPT ![b] = "used"]
      BY <1>3, <2>1 DEF UseBackup, BackupUsable
    <2>3. spent[<<"backup", b>>] = 0 /\ backup'[b] = "used"
      BY <1>a, <2>2, FactorForms DEF BackupsSpent, TypeOK
    <2>4. /\ spent' \in [Factor -> Nat] /\ spent'[<<"backup", b>>] = 1
          /\ \A g \in Factor \ {<<"backup", b>>} : spent'[g] = spent[g]
      BY <1>a, <2>2, <2>3, FactorForms, SpendOne
    <2>5. BackupsSpent'
      <3> SUFFICES ASSUME NEW d \in BackupCode
                   PROVE  /\ spent'[<<"backup", d>>] <= 1
                          /\ spent'[<<"backup", d>>] # 0 => backup'[d] \in {"used", "deleted"}
        BY DEF BackupsSpent
      <3>1. CASE d = b
        BY <2>2, <2>3, <2>4, <3>1
      <3>2. CASE d # b
        BY <1>a, <2>4, <3>2, FactorForms, OldSpendingKept DEF BackupsSpent
      <3> QED BY <3>1, <3>2
    <2>6. CodesSpent' /\ CountersSpent'
      BY <1>a, <1>b, <2>4, FactorForms, OldSpendingKept DEF CodesSpent, CountersSpent
    <2> QED BY <2>4, <2>5, <2>6
  <1>4. ASSUME NEW r \in Request, Advance(r)
        PROVE  /\ spent' \in [Factor -> Nat]
               /\ CodesSpent' /\ BackupsSpent' /\ CountersSpent'
    <2>1. PICK g, t : g = totp.gen /\ t = req[r].ctr
      OBVIOUS
    <2>2. /\ g \in 1..MaxSecrets /\ t \in 1..LastCounter
          /\ totp.last < t /\ g <= secrets
      BY <1>a, <1>4, <2>1
         DEF IInv, CallsFit, Fit, Advance, TimestepFree, TypeOK, TotpRow, CountersSpent
    <2>3. /\ Spend(<<"totp", <<g, t>>>>)
          /\ totp'.gen = g /\ totp'.last = t /\ secrets' = secrets
      BY <1>4, <2>1, <1>a DEF Advance, TypeOK, TotpRow
    <2>4. spent[<<"totp", <<g, t>>>>] = 0
      <3>1. spent[<<"totp", <<g, t>>>>] # 0 => (g = totp.gen => t <= totp.last)
        BY <1>a, <2>2 DEF CountersSpent
      <3>2. t \in Nat /\ totp.last \in Nat /\ spent[<<"totp", <<g, t>>>>] \in Nat
        BY <1>a, <2>2, FactorForms DEF TypeOK, TotpRow
      <3> QED BY <2>1, <2>2, <3>1, <3>2
    <2>5. /\ spent' \in [Factor -> Nat] /\ spent'[<<"totp", <<g, t>>>>] = 1
          /\ \A h \in Factor \ {<<"totp", <<g, t>>>>} : spent'[h] = spent[h]
      BY <1>a, <2>2, <2>3, <2>4, FactorForms, SpendOne
    <2>6. CountersSpent'
      <3> SUFFICES ASSUME NEW h \in 1..MaxSecrets, NEW u \in 1..LastCounter
                   PROVE  /\ spent'[<<"totp", <<h, u>>>>] <= 1
                          /\ spent'[<<"totp", <<h, u>>>>] # 0 =>
                               h <= secrets' /\ (h = totp'.gen => u <= totp'.last)
        BY <1>b DEF CountersSpent
      <3>1. CASE <<h, u>> = <<g, t>>
        BY <2>2, <2>3, <2>5, <3>1
      <3>2. CASE <<h, u>> # <<g, t>>
        BY <1>a, <2>5, <3>2, FactorForms, OldSpendingKept DEF CountersSpent
      <3> QED BY <3>1, <3>2
    <2>7. CodesSpent' /\ BackupsSpent'
      BY <1>a, <2>5, FactorForms, OldSpendingKept DEF CodesSpent, BackupsSpent
    <2> QED BY <2>5, <2>6, <2>7
  <1> QED BY <1>1, <1>2, <1>3, <1>4, NextSpends

\* A challenge is closed by its last miss for good.
LEMMA NextKeepsExhausted ==
    ASSUME IInv, Next
    PROVE  exhausted' \subseteq Challenge /\ ExhaustedSpent'
  <1>1. CASE exhausted' = exhausted
    BY <1>1, OldSpendingKept DEF IInv, TypeOK, ExhaustedSpent
  <1>2. ASSUME NEW r \in Request, CloseExhausted(r)
        PROVE  exhausted' \subseteq Challenge /\ ExhaustedSpent'
    <2>1. PICK c : c = req[r].ch
      OBVIOUS
    <2>2. /\ c \in Challenge /\ db[c].st # "absent" /\ db' = MarkUsed(c)
          /\ exhausted' = exhausted \cup {c}
      BY <1>2, <2>1 DEF IInv, CallsFit, Fit, CloseExhausted, ClosedTable
    <2>3. Spent(c)'
      <3>1. CASE Claimable(c)
        <4>1. db' = [db EXCEPT ![c].used = TRUE]
          BY <2>2, <3>1 DEF MarkUsed
        <4>2. db'[c].used = TRUE /\ db'[c].st = db[c].st
          BY <2>2, <4>1 DEF IInv, TypeOK, ChallengeTypeOK, Row
        <4> QED BY <2>2, <4>2 DEF Spent, Claimable, Live
      <3>2. CASE ~Claimable(c)
        BY <2>2, <3>2, OldSpendingKept DEF Spent
      <3> QED BY <3>1, <3>2
    <2> QED BY <2>2, <2>3, OldSpendingKept DEF IInv, TypeOK, ExhaustedSpent
  <1>3. exhausted' = exhausted \/ \E r \in Request : CloseExhausted(r)
    BY DEF Next, Enroll, Tick, Arrive, IssueCode, IssueTotp, EnterCode, VerifyRead, ConfirmRead,
           Reset, Proceed, Create, UseBackup, BackupMiss, ReadTotp, TotpMiss, Advance,
           AdvanceLost, FindCode, NoSuchCode, Claim, ClaimLost, CountMiss, ConfirmWrite, Remove,
           ReplaceDelete, ReplaceCommit
  <1> QED BY <1>1, <1>2, <1>3

LEMMA NextKeepsRest ==
    ASSUME IInv, Next
    PROVE  now' \in Nat /\ now' <= MaxTime /\ proven' \subseteq 1..MaxSecrets
  <1>1. now' = now \/ (now < MaxTime /\ now' = now + 1)
    BY DEF Next, Enroll, Tick, Arrive, IssueCode, IssueTotp, EnterCode, VerifyRead, ConfirmRead,
           Reset, Proceed, Create, UseBackup, BackupMiss, ReadTotp, TotpMiss, Advance,
           AdvanceLost, FindCode, NoSuchCode, Claim, ClaimLost, CountMiss, CloseExhausted,
           ConfirmWrite, Remove, ReplaceDelete, ReplaceCommit
  <1>2. proven' = proven \/ (totp.gen # 0 /\ proven' = proven \cup {totp.gen})
    BY DEF Next, Enroll, Tick, Arrive, IssueCode, IssueTotp, EnterCode, VerifyRead, ConfirmRead,
           Reset, Proceed, Create, UseBackup, BackupMiss, ReadTotp, TotpMiss, Advance,
           AdvanceLost, FindCode, NoSuchCode, Claim, ClaimLost, CountMiss, CloseExhausted,
           ConfirmWrite, Remove, ReplaceDelete, ReplaceCommit
  <1>3. /\ now \in Nat /\ now <= MaxTime /\ MaxTime \in Nat /\ MaxSecrets \in Nat
        /\ totp.gen \in 0..MaxSecrets /\ proven \subseteq 1..MaxSecrets
    BY CodeFactorsAssumption DEF IInv, TypeOK, ChallengeTypeOK, TotpRow
  <1>4. totp.gen # 0 => totp.gen \in 1..MaxSecrets
    BY <1>3
  <1>5. now' \in Nat /\ now' <= MaxTime
    BY <1>1, <1>3
  <1> QED BY <1>2, <1>3, <1>4, <1>5

-----------------------------------------------------------------------------
(* The theorems.                                                           *)

LEMMA NextInv == IInv /\ [Next]_vars => IInv'
  <1>1. ASSUME IInv, Next
        PROVE  IInv'
    <2>1. TypeOK'
      BY <1>1, NextKeepsTable, NextKeepsTotp, NextKeepsBackups, NextKeepsCalls,
         NextKeepsSpending, NextKeepsExhausted, NextKeepsRest
         DEF TypeOK, ChallengeTypeOK, TableKept
    <2> QED BY <1>1, <2>1, NextKeepsCalls, NextKeepsSpending, NextKeepsExhausted DEF IInv
  <1>2. ASSUME IInv, UNCHANGED vars
        PROVE  IInv'
    BY <1>2 DEF vars, IInv, TypeOK, ChallengeTypeOK, CallsFit, Fit, CodesSpent, BackupsSpent,
                CountersSpent, ExhaustedSpent, Spent, Claimable, Live
  <1> QED BY <1>1, <1>2

\* Every reachable state satisfies the inductive invariant.
THEOREM Invariance == Spec => []IInv
  BY InitInv, NextInv, PTL DEF Spec

\* The rows, the clock, the calls and the history keep their types.
THEOREM TypeCorrect == Spec => []TypeOK
  <1>1. IInv => TypeOK
    BY DEF IInv
  <1> QED BY <1>1, Invariance, PTL

\* No factor is spent twice, whatever the calls and their order: the
\* conditional UPDATEs are the only places that spend, and none undoes another.
THEOREM SpentOnce == Spec => []FactorSpentOnce
  <1>1. IInv => FactorSpentOnce
    BY FactorForms DEF IInv, FactorSpentOnce, CodesSpent, BackupsSpent, CountersSpent
  <1> QED BY <1>1, Invariance, PTL

\* A delivered code is spent only by a call of its purpose.
THEOREM PurposesApart == Spec => PurposeKept
  <1>1. ASSUME IInv, Next
        PROVE  SpentForItsPurpose
    <2> SUFFICES ASSUME NEW c \in Challenge, spent'[<<"code", c>>] # spent[<<"code", c>>]
                 PROVE  \E r \in Request : /\ req[r].pc = "claim" /\ req[r].ch = c
                                           /\ req'[r] # req[r]
                                           /\ db[c].purpose \in Purposes(req[r].kind)
      BY DEF SpentForItsPurpose
    <2>a. TypeOK /\ spent \in [Factor -> Nat] /\ req \in [Request -> RequestRecord]
      BY <1>1 DEF IInv, TypeOK
    <2>1. ASSUME NEW r \in Request, UseBackup(r)
          PROVE  FALSE
      <3>1. req[r].guess \in BackupCode /\ Spend(<<"backup", req[r].guess>>)
        BY <2>1 DEF UseBackup, BackupUsable
      <3> QED BY <2>a, <3>1, FactorForms, SpendOne
    <2>2. ASSUME NEW r \in Request, Advance(r)
          PROVE  FALSE
      <3>1. /\ totp.gen \in 1..MaxSecrets /\ req[r].ctr \in 1..LastCounter
            /\ Spend(<<"totp", <<totp.gen, req[r].ctr>>>>)
        BY <1>1, <2>2 DEF IInv, CallsFit, Fit, Advance, TimestepFree, TypeOK, TotpRow
      <3> QED BY <2>a, <3>1, FactorForms, SpendOne
    <2>3. PICK r \in Request : Claim(r)
      BY <1>1, <2>1, <2>2, NextSpends
    <2>4. req[r].ch \in Challenge /\ Spend(<<"code", req[r].ch>>)
      BY <1>1, <2>3, ClaimSpends
    <2>5. req[r].ch = c
      BY <2>a, <2>4, FactorForms, SpendOne
    <2>6. req[r].pc = "claim" /\ db[c].purpose \in Purposes(req[r].kind)
      BY <1>1, <2>3, <2>5 DEF IInv, CallsFit, Fit, Claim
    <2>7. req'[r].pc # "claim"
      BY <2>a, <2>3 DEF Claim, Accepted, Finish, GoOn, Idle, RequestRecord
    <2> QED BY <2>5, <2>6, <2>7
  <1>2. IInv /\ [Next]_vars => [SpentForItsPurpose]_vars
    BY <1>1
  <1> QED BY <1>2, Invariance, PTL DEF Spec, PurposeKept

\* A challenge whose last attempt was used up is spent by nobody.
THEOREM ExhaustedStaysClosed == Spec => ExhaustedIsClosed
  <1> DEFINE A == \A c \in exhausted : spent'[<<"code", c>>] = spent[<<"code", c>>]
  <1>1. ASSUME IInv, Next
        PROVE  A
    <2> SUFFICES ASSUME NEW c \in exhausted
                 PROVE  spent'[<<"code", c>>] = spent[<<"code", c>>]
      OBVIOUS
    <2>a. /\ TypeOK /\ spent \in [Factor -> Nat] /\ c \in Challenge /\ Spent(c)
      BY <1>1 DEF IInv, TypeOK, ExhaustedSpent
    <2>1. ASSUME NEW r \in Request, UseBackup(r)
          PROVE  spent'[<<"code", c>>] = spent[<<"code", c>>]
      <3>1. req[r].guess \in BackupCode /\ Spend(<<"backup", req[r].guess>>)
        BY <2>1 DEF UseBackup, BackupUsable
      <3> QED BY <2>a, <3>1, FactorForms, SpendOne
    <2>2. ASSUME NEW r \in Request, Advance(r)
          PROVE  spent'[<<"code", c>>] = spent[<<"code", c>>]
      <3>1. /\ totp.gen \in 1..MaxSecrets /\ req[r].ctr \in 1..LastCounter
            /\ Spend(<<"totp", <<totp.gen, req[r].ctr>>>>)
        BY <1>1, <2>2 DEF IInv, CallsFit, Fit, Advance, TimestepFree, TypeOK, TotpRow
      <3> QED BY <2>a, <3>1, FactorForms, SpendOne
    <2>3. ASSUME NEW r \in Request, Claim(r)
          PROVE  spent'[<<"code", c>>] = spent[<<"code", c>>]
      <3>1. PICK d : d = req[r].ch
        OBVIOUS
      <3>2. d \in Challenge /\ Spend(<<"code", d>>) /\ ~Spent(d)
        BY <1>1, <2>3, <3>1, ClaimSpends
      <3>3. d # c
        BY <2>a, <3>2
      <3> QED BY <2>a, <3>2, <3>3, FactorForms, SpendOne
    <2> QED BY <1>1, <2>1, <2>2, <2>3, NextSpends
  <1>2. IInv /\ [Next]_vars => [A]_vars
    BY <1>1
  <1> QED BY <1>2, Invariance, PTL DEF Spec, ExhaustedIsClosed
-----------------------------------------------------------------------------
(* The code a confirmation was made with.                                  *)

\* A bounded set of numbers has a highest one: without it every number below
\* some member would have its successor below some member too, and a finite
\* set would go one to one into less than itself.
LEMMA BoundedHasHighest ==
    ASSUME NEW m \in Nat, NEW T \in SUBSET (0..m), T # {}
    PROVE  \E t \in T : \A u \in T : u <= t
  <1> SUFFICES ASSUME \A t \in T : \E u \in T : u > t
               PROVE  FALSE
    OBVIOUS
  <1> DEFINE G == {n \in 0..m : \E t \in T : n <= t}
             f == [n \in G |-> n + 1]
  <1>1. IsFiniteSet(0..m)
    BY FS_Interval
  <1>2. IsFiniteSet(G) /\ Cardinality(G) \in Nat
    BY <1>1, FS_Subset, FS_CardinalityType
  <1>3. 0 \in G
    <2>1. PICK t \in T : TRUE
      OBVIOUS
    <2>2. t \in Nat /\ 0 <= t
      OBVIOUS
    <2> QED BY <2>2
  <1>4. \A n \in G : n \in Nat /\ n + 1 \in G \ {0}
    OBVIOUS
  <1>5. Cardinality(G \ {0}) = Cardinality(G) - 1 /\ IsFiniteSet(G \ {0})
    BY <1>2, <1>3, FS_RemoveElement
  <1> HIDE DEF G
  <1>6. f \in [G -> G \ {0}] /\ \A a, b \in G : f[a] = f[b] => a = b
    BY <1>4
  <1>7. f \in Injection(G, G \ {0})
    BY <1>6 DEF Injection, IsInjective
  <1>8. Cardinality(G) <= Cardinality(G \ {0})
    BY <1>5, <1>7, FS_Injection
  <1> QED BY <1>2, <1>5, <1>8

\* A counter of the window that yields the code has a highest one above it.
LEMMA HighestAbove ==
    ASSUME TypeOK, NEW gen, NEW code, NEW t \in Window, TotpCode(gen, t) = code
    PROVE  \E h \in Highest(gen, code) : t <= h
  <1>1. /\ Matching(gen, code) \in SUBSET (0..LastCounter)
        /\ t \in Matching(gen, code) /\ LastCounter \in Nat
    BY WindowInside, CodeFactorsAssumption DEF Matching, LastCounter
  <1>2. PICK h \in Matching(gen, code) : \A u \in Matching(gen, code) : u <= h
    BY <1>1, BoundedHasHighest
  <1> QED BY <1>1, <1>2 DEF Highest

\* A counter is behind a mark, or the window has left it behind.
Behind(c, mark) == c <= mark \/ c \notin Window

\* What a confirmation knows of its code: it is that of the secret shown at
\* the counter shown.  Once it has passed verifyTOTP with this secret still
\* on file, that counter is behind.
ConfirmFits(q) ==
    q.kind = "confirm" =>
      /\ q.pc \in {"confirm", "totp", "advance", "codes", "replace", "insert"}
      /\ q.shown \in 1..secrets
      /\ q.shownAt <= Counter + Skew
      /\ q.pc \in {"confirm", "totp"} => TotpCode(q.shown, q.shownAt) = q.guess
      /\ q.shown = totp.gen =>
           /\ q.pc # "confirm" => totp.confirmed
           /\ q.pc = "advance" => Behind(q.shownAt, q.ctr)
           /\ q.pc \in {"codes", "replace", "insert"} => Behind(q.shownAt, totp.last)
ConfirmsFit == \A r \in Request : ConfirmFits(req[r])

\* A secret on file keeps its confirmation and its counter only moves on; one
\* that was replaced or deleted never comes back.
LEMMA NextKeepsSecret ==
    ASSUME IInv, Next
    PROVE  /\ now \in Nat /\ now' \in {now, now + 1}
           /\ secrets \in Nat /\ secrets' \in Nat /\ secrets <= secrets'
           /\ \A g \in 1..secrets : g = totp'.gen =>
                /\ g = totp.gen
                /\ totp.confirmed => totp'.confirmed
                /\ totp.last <= totp'.last
  <1>a. /\ totp \in TotpRow /\ secrets \in 0..MaxSecrets /\ totp.gen <= secrets
        /\ LastCounter \in Nat /\ now \in Nat /\ MaxSecrets \in Nat
    BY CodeFactorsAssumption DEF IInv, TypeOK, CountersSpent, LastCounter, ChallengeTypeOK
  <1> USE DEF TotpRow
  <1>b. now' \in {now, now + 1}
    BY DEF Next, Enroll, Tick, Arrive, IssueCode, IssueTotp, EnterCode, VerifyRead, ConfirmRead,
           Reset, Proceed, Create, UseBackup, BackupMiss, ReadTotp, TotpMiss, Advance,
           AdvanceLost, FindCode, NoSuchCode, Claim, ClaimLost, CountMiss, CloseExhausted,
           ConfirmWrite, Remove, ReplaceDelete, ReplaceCommit
  <1>1. CASE Enroll
    BY <1>a, <1>b, <1>1 DEF Enroll
  <1>2. CASE totp' = NoTotp /\ secrets' = secrets
    BY <1>a, <1>b, <1>2 DEF NoTotp
  <1>3. CASE totp' = totp /\ secrets' = secrets
    BY <1>a, <1>b, <1>3
  <1>4. CASE totp' = [totp EXCEPT !.confirmed = TRUE] /\ secrets' = secrets
    BY <1>a, <1>b, <1>4
  <1>5. ASSUME NEW r \in Request, Advance(r)
        PROVE  /\ totp' = [totp EXCEPT !.last = req[r].ctr] /\ secrets' = secrets
               /\ req[r].ctr \in 0..LastCounter /\ totp.last < req[r].ctr
    BY <1>5 DEF Advance, TimestepFree, IInv, TypeOK, RequestRecord
  <1>6. CASE \E r \in Request : Advance(r)
    BY <1>a, <1>b, <1>5, <1>6
  <1>7. \/ Enroll
        \/ totp' = NoTotp /\ secrets' = secrets
        \/ totp' = totp /\ secrets' = secrets
        \/ totp' = [totp EXCEPT !.confirmed = TRUE] /\ secrets' = secrets
        \/ \E r \in Request : Advance(r)
    BY DEF Next, Tick, Arrive, IssueCode, IssueTotp, EnterCode, VerifyRead, ConfirmRead,
           Reset, Proceed, Create, UseBackup, BackupMiss, ReadTotp, TotpMiss, AdvanceLost,
           FindCode, NoSuchCode, Claim, ClaimLost, CountMiss, CloseExhausted, ConfirmWrite,
           Remove, ReplaceDelete, ReplaceCommit
  <1> QED BY <1>1, <1>2, <1>3, <1>4, <1>6, <1>7

\* The window moves up only: what it left stays behind.
LEMMA BehindStays ==
    ASSUME IInv, Next, NEW c \in Nat, c <= Counter + Skew, NEW m \in Nat, NEW n \in Nat, m <= n
    PROVE  /\ c <= Counter' + Skew
           /\ Behind(c, m) => Behind(c, n)'
  BY NextKeepsSecret, CodeFactorsAssumption DEF Behind, Window, Counter

LEMMA ConfirmStays ==
    ASSUME IInv, Next, NEW q \in RequestRecord, ConfirmFits(q)
    PROVE  ConfirmFits(q)'
  <1> SUFFICES ASSUME q.kind = "confirm"
               PROVE  ConfirmFits(q)'
    BY DEF ConfirmFits
  <1>1. /\ q.shownAt \in Nat /\ q.ctr \in Nat /\ totp.last \in Nat /\ totp'.last \in Nat
        /\ q.shown \in 1..secrets /\ q.shownAt <= Counter + Skew
    BY NextKeepsTotp, CodeFactorsAssumption
       DEF IInv, TypeOK, RequestRecord, ConfirmFits, TotpRow, LastCounter
  <1>2. /\ q.shownAt <= Counter' + Skew
        /\ Behind(q.shownAt, q.ctr) => Behind(q.shownAt, q.ctr)'
    BY <1>1, BehindStays
  <1>3. totp.last <= totp'.last =>
          (Behind(q.shownAt, totp.last) => Behind(q.shownAt, totp.last)')
    <2> DEFINE m == totp.last
    <2>1. PICK n \in Nat : n = totp'.last
      BY <1>1
    <2>2. m <= n => (Behind(q.shownAt, m) => Behind(q.shownAt, n)')
      BY <1>1, BehindStays
    <2> QED BY <2>1, <2>2 DEF Behind
  <1>4. /\ q.shown \in 1..secrets'
        /\ q.shown = totp'.gen => /\ q.shown = totp.gen
                                  /\ totp.confirmed => totp'.confirmed
                                  /\ totp.last <= totp'.last
    BY <1>1, NextKeepsSecret
  <1> QED BY <1>1, <1>2, <1>3, <1>4 DEF ConfirmFits

\* The confirmation reads the secret, and shows a counter of the window.
LEMMA ConfirmBegins ==
    ASSUME IInv, NEW r \in Request, Arrive(r)
    PROVE  ConfirmFits(req[r])'
  <1>a. /\ req \in [Request -> RequestRecord] /\ totp \in TotpRow /\ now \in Nat
        /\ totp.gen <= secrets /\ secrets \in 0..MaxSecrets /\ MaxSecrets \in Nat
    BY CodeFactorsAssumption DEF IInv, TypeOK, CountersSpent, ChallengeTypeOK
  <1>1. ASSUME NEW g \in Guess, ConfirmRead(r, g)
        PROVE  ConfirmFits(req[r])'
    <2>1. PICK t \in Highest(totp.gen, g) :
            req' = [req EXCEPT ![r] = [Begin("confirm", "confirm") EXCEPT
                                         !.guess = g, !.shown = totp.gen, !.shownAt = t]]
      BY <1>1 DEF ConfirmRead
    <2>2. PICK q : q = req'[r]
      OBVIOUS
    <2>3. q.kind = "confirm" /\ q.pc = "confirm" /\ q.guess = g
          /\ q.shown = totp.gen /\ q.shownAt = t
      BY <1>a, <2>1, <2>2 DEF Begin, Idle
    <2>4. t \in Window /\ TotpCode(totp.gen, t) = g
      BY <2>1 DEF Highest, Matching
    <2>5. /\ totp.gen # 0 /\ secrets' = secrets /\ now' = now
      BY <1>1 DEF ConfirmRead
    <2>6. t <= Counter + Skew /\ totp.gen \in 1..secrets
      BY <1>a, <2>4, <2>5, CodeFactorsAssumption DEF Window, Counter, TotpRow
    <2>7. ConfirmFits(q)'
      BY <2>3, <2>4, <2>5, <2>6 DEF ConfirmFits, Counter
    <2> QED BY <2>2, <2>7 DEF ConfirmFits
  <1>2. ASSUME ~\E g \in Guess : ConfirmRead(r, g)
        PROVE  req'[r].kind # "confirm"
    <2>1. CASE IssueTotp(r)
      <3> DEFINE q == [Begin("issue", "create") EXCEPT !.channel = "totp"]
      <3>1. req'[r] = q /\ q.kind = "issue"
        BY <1>a, <2>1 DEF IssueTotp, Begin, Idle
      <3> QED BY <3>1
    <2>2. CASE Reset(r)
      BY <1>a, <2>2 DEF Reset, Begin, Idle
    <2>3. ASSUME NEW p \in {"api", "ui_confirm"}, IssueCode(r, p)
          PROVE  req'[r].kind # "confirm"
      <3> DEFINE q == [Begin("issue", "create") EXCEPT !.purpose = p]
      <3>1. req'[r] = q /\ q.kind = "issue"
        BY <1>a, <2>3 DEF IssueCode, Begin, Idle
      <3> QED BY <3>1
    <2>4. ASSUME NEW k \in Kind, NEW g \in Guess, EnterCode(r, k, g)
          PROVE  req'[r].kind # "confirm"
      BY <1>a, <2>4 DEF EnterCode, Begin, Idle
    <2>5. ASSUME NEW c \in Challenge, NEW g \in Guess, VerifyRead(r, c, g)
          PROVE  req'[r].kind # "confirm"
      BY <1>a, <2>5 DEF VerifyRead, Begin, Idle
    <2> QED BY <1>2, <2>1, <2>2, <2>3, <2>4, <2>5 DEF Arrive
  <1> QED BY <1>1, <1>2 DEF ConfirmFits

\* The confirmed code is burnt: the counter verifyTOTP takes is no lower than
\* the one shown, and it takes none only when a counter as high was taken.
LEMMA ConfirmProceeds ==
    ASSUME IInv, ConfirmsFit, Next, NEW r \in Request, Proceed(r)
    PROVE  ConfirmFits(req[r])'
  <1>a. /\ TypeOK /\ req \in [Request -> RequestRecord] /\ req[r] \in RequestRecord
        /\ totp \in TotpRow /\ Fit(req[r]) /\ ConfirmFits(req[r])
    BY DEF IInv, TypeOK, CallsFit, ConfirmsFit
  <1>b. req'[r] = Idle \/ req'[r].kind = req[r].kind
    BY <1>a DEF Proceed, Create, UseBackup, BackupMiss, ReadTotp, TotpMiss, Advance,
         AdvanceLost, FindCode, NoSuchCode, Claim, ClaimLost, CountMiss, CloseExhausted,
         ConfirmWrite, Remove, ReplaceDelete, ReplaceCommit, Accepted, BadCode, TotpRefused,
         Finish, Go, GoOn, RequestRecord
  <1> SUFFICES ASSUME req'[r].kind = "confirm", req[r].kind = "confirm"
               PROVE  ConfirmFits(req[r])'
    BY <1>b DEF ConfirmFits, Idle
  <1>c. PICK p, q : p = req[r] /\ q = req'[r] /\ p \in RequestRecord
    BY <1>a
  <1>d. /\ p.kind = "confirm" /\ q.kind = "confirm" /\ ConfirmFits(p)
        /\ p.pc \in {"confirm", "totp", "advance", "codes", "replace", "insert"}
        /\ p.shown \in 1..secrets /\ p.shownAt <= Counter + Skew
    BY <1>a, <1>c DEF ConfirmFits
  <1>e. p.shownAt \in Nat /\ p.ctr \in Nat /\ totp.last \in Nat /\ totp.gen \in Nat /\ secrets \in Nat
    BY <1>a, <1>c, CodeFactorsAssumption DEF RequestRecord, TotpRow, TypeOK, LastCounter
  \* What the step leaves of the call, and where it goes.
  <1>1. CASE ConfirmWrite(r)
    <2>1. /\ q.pc = "totp" /\ q.shown = p.shown /\ q.shownAt = p.shownAt /\ q.guess = p.guess
          /\ totp' = [totp EXCEPT !.confirmed = TRUE] /\ secrets' = secrets /\ now' = now
          /\ p.pc = "confirm"
      BY <1>a, <1>c, <1>d, <1>1
         DEF ConfirmWrite, AfterConfirm, Go, Finish, Idle, RequestRecord
    <2>2. totp'.confirmed
      BY <1>a, <2>1 DEF TotpRow
    <2>3. ConfirmFits(q)'
      BY <1>d, <2>1, <2>2 DEF ConfirmFits, Counter
    <2> QED BY <1>c, <2>3 DEF ConfirmFits
  <1>2. CASE ReadTotp(r)
    <2>1. PICK t \in Window : /\ TotpAccepts(p.guess, t) /\ p.pc = "totp"
                              /\ req' = [req EXCEPT ![r].pc = "advance", ![r].ctr = t]
      BY <1>c, <1>2 DEF ReadTotp
    <2>2. /\ q.pc = "advance" /\ q.shown = p.shown /\ q.shownAt = p.shownAt /\ q.ctr = t
          /\ totp' = totp /\ secrets' = secrets /\ now' = now
      BY <1>a, <1>c, <1>2, <2>1 DEF ReadTotp, RequestRecord
    <2>3. p.shown = totp.gen => totp.confirmed /\ Behind(p.shownAt, t)
      BY <1>d, <2>1 DEF ConfirmFits, TotpAccepts, Highest, Matching, Behind
    <2>4. ConfirmFits(q)'
      BY <1>d, <2>2, <2>3 DEF ConfirmFits, Counter, Behind, Window
    <2> QED BY <1>c, <2>4 DEF ConfirmFits
  <1>3. CASE TotpMiss(r)
    <2>1. /\ q.pc = "codes" /\ q.shown = p.shown /\ q.shownAt = p.shownAt
          /\ totp' = totp /\ secrets' = secrets /\ now' = now /\ p.pc = "totp"
          /\ \A t \in Window : ~TotpAccepts(p.guess, t)
      BY <1>a, <1>c, <1>d, <1>3 DEF TotpMiss, TotpRefused, RequestRecord
    <2>2. p.shown = totp.gen => totp.confirmed /\ Behind(p.shownAt, totp.last)
      <3> SUFFICES ASSUME p.shown = totp.gen, p.shownAt \in Window
                   PROVE  p.shownAt <= totp.last
        BY <1>d, <2>1 DEF ConfirmFits, Behind
      <3>1. TotpCode(totp.gen, p.shownAt) = p.guess /\ totp.confirmed /\ totp.gen # 0
        BY <1>d, <2>1 DEF ConfirmFits
      <3>2. PICK h \in Highest(totp.gen, p.guess) : p.shownAt <= h
        BY <1>a, <3>1, HighestAbove
      <3>3. h \in Window /\ h \in Nat
        BY <1>a, WindowInside DEF Highest, Matching
      <3>4. ~(h > totp.last)
        BY <2>1, <3>1, <3>3 DEF TotpAccepts
      <3> QED BY <1>e, <3>2, <3>3, <3>4
    <2>3. ConfirmFits(q)'
      BY <1>d, <2>1, <2>2 DEF ConfirmFits, Counter, Behind, Window
    <2> QED BY <1>c, <2>3 DEF ConfirmFits
  <1>4. CASE Advance(r)
    <2>1. /\ q.pc = "replace" /\ q.shown = p.shown /\ q.shownAt = p.shownAt
          /\ totp' = [totp EXCEPT !.last = p.ctr] /\ secrets' = secrets /\ now' = now
          /\ p.pc = "advance"
      BY <1>a, <1>c, <1>d, <1>4 DEF Advance, Accepted, GoOn, RequestRecord
    <2>2. totp'.last = p.ctr /\ totp'.gen = totp.gen /\ totp'.confirmed = totp.confirmed
      BY <1>a, <2>1 DEF TotpRow
    <2>3. ConfirmFits(q)'
      BY <1>d, <2>1, <2>2 DEF ConfirmFits, Counter, Behind, Window
    <2> QED BY <1>c, <2>3 DEF ConfirmFits
  <1>5. CASE AdvanceLost(r)
    <2>1. /\ q.pc = "codes" /\ q.shown = p.shown /\ q.shownAt = p.shownAt
          /\ totp' = totp /\ secrets' = secrets /\ now' = now /\ p.pc = "advance"
          /\ ~TimestepFree(p.ctr)
      BY <1>a, <1>c, <1>d, <1>5 DEF AdvanceLost, TotpRefused, RequestRecord
    <2>2. p.shown = totp.gen => totp.confirmed /\ p.ctr <= totp.last /\ Behind(p.shownAt, p.ctr)
      BY <1>d, <1>e, <2>1 DEF ConfirmFits, TimestepFree
    <2>3. p.shown = totp.gen => Behind(p.shownAt, totp.last)
      BY <1>e, <2>2 DEF Behind
    <2>4. ConfirmFits(q)'
      BY <1>d, <2>1, <2>2, <2>3 DEF ConfirmFits, Counter, Behind, Window
    <2> QED BY <1>c, <2>4 DEF ConfirmFits
  <1>6. CASE NoSuchCode(r)
    <2>1. /\ q.pc = "replace" /\ q.shown = p.shown /\ q.shownAt = p.shownAt
          /\ totp' = totp /\ secrets' = secrets /\ now' = now /\ p.pc = "codes"
      BY <1>a, <1>c, <1>d, <1>6 DEF NoSuchCode, BadCode, GoOn, RequestRecord
    <2>2. ConfirmFits(q)'
      BY <1>d, <2>1 DEF ConfirmFits, Counter, Behind, Window
    <2> QED BY <1>c, <2>2 DEF ConfirmFits
  <1>7. CASE ReplaceDelete(r)
    <2>1. /\ q.pc = "insert" /\ q.shown = p.shown /\ q.shownAt = p.shownAt
          /\ totp' = totp /\ secrets' = secrets /\ now' = now /\ p.pc = "replace"
      BY <1>a, <1>c, <1>d, <1>7 DEF ReplaceDelete, RequestRecord
    <2>2. ConfirmFits(q)'
      BY <1>d, <2>1 DEF ConfirmFits, Counter, Behind, Window
    <2> QED BY <1>c, <2>2 DEF ConfirmFits
  <1>8. CASE FindCode(r)
    <2>1. Purposes(p.kind) = {}
      BY <1>d DEF Purposes
    <2>2. Candidates(r) = {}
      BY <1>c, <2>1 DEF Candidates, ActiveCodeChallenges
    <2> QED BY <1>8, <2>2 DEF FindCode
  <1>9. CASE ReplaceCommit(r)
    <2>1. req'[r] = Idle
      BY <1>a, <1>9 DEF ReplaceCommit, Finish
    <2> QED BY <1>c, <1>d, <2>1 DEF Idle
  <1> QED
    BY <1>c, <1>d, <1>1, <1>2, <1>3, <1>4, <1>5, <1>6, <1>7, <1>8, <1>9
       DEF Proceed, Create, UseBackup, BackupMiss, Claim, ClaimLost, CountMiss, CloseExhausted,
           Remove

LEMMA NextKeepsConfirms ==
    ASSUME IInv, ConfirmsFit, Next
    PROVE  ConfirmsFit'
  <1> SUFFICES ASSUME NEW s \in Request
               PROVE  ConfirmFits(req[s])'
    BY DEF ConfirmsFit, ConfirmFits
  <1>1. req \in [Request -> RequestRecord] /\ req[s] \in RequestRecord /\ ConfirmFits(req[s])
    BY DEF IInv, TypeOK, ConfirmsFit
  <1>2. CASE req'[s] = req[s]
    <2>1. PICK q \in RequestRecord : q = req[s] /\ ConfirmFits(q)
      BY <1>1
    <2>2. ConfirmFits(q)'
      BY <2>1, ConfirmStays
    <2> QED BY <1>2, <2>1, <2>2 DEF ConfirmFits
  <1>3. CASE req'[s] # req[s]
    <2>1. PICK r \in Request : Arrive(r) \/ Proceed(r)
      BY <1>3 DEF Next, Enroll, Tick
    <2>2. ASSUME NEW v, req' = [req EXCEPT ![r] = v]
          PROVE  r = s
      BY <1>1, <1>3, <2>2
    <2>3. \E v : req' = [req EXCEPT ![r] = v]
      <3>1. CASE Arrive(r)
        BY <3>1, Zenon DEF Arrive, IssueCode, IssueTotp, EnterCode, VerifyRead, ConfirmRead, Reset
      <3>2. CASE Proceed(r)
        <4>1. ASSUME Finish(r) \/ (\E pc \in Pc : Go(r, pc) \/ GoOn(r, pc))
              PROVE  \E v : req' = [req EXCEPT ![r] = v]
          BY <4>1 DEF Finish, Go, GoOn
        <4>2. ASSUME Accepted(r) \/ BadCode(r)
              PROVE  \E v : req' = [req EXCEPT ![r] = v]
          BY <4>1, <4>2 DEF Accepted, BadCode, Pc
        <4>3. ASSUME TotpRefused(r)
              PROVE  \E v : req' = [req EXCEPT ![r] = v]
          BY <4>1, <4>3 DEF TotpRefused, Pc
        <4> QED
          BY <3>2, <4>1, <4>2, <4>3
             DEF Proceed, Create, UseBackup, BackupMiss, ReadTotp, TotpMiss, Advance,
                 AdvanceLost, FindCode, NoSuchCode, Claim, ClaimLost, CountMiss, CloseExhausted,
                 ConfirmWrite, AfterConfirm, Remove, ReplaceDelete, ReplaceCommit, Pc
      <3> QED BY <2>1, <3>1, <3>2
    <2>4. r = s
      BY <2>2, <2>3
    <2> QED BY <2>1, <2>4, ConfirmBegins, ConfirmProceeds
  <1> QED BY <1>2, <1>3

\* A confirmation goes on to the backup codes only when nobody can spend the
\* code it was made with any more: its counter is at or below last_timestep,
\* or the window has left it, whatever the failed burn it only logs.
THEOREM ConfirmedCodeIsBurnt == Spec => []ConfirmCodeBurnt
  <1>1. Init => ConfirmsFit
    BY DEF Init, Idle, ConfirmsFit, ConfirmFits
  <1>2. IInv /\ ConfirmsFit /\ [Next]_vars => ConfirmsFit'
    <2>1. ASSUME ConfirmsFit, UNCHANGED vars
          PROVE  ConfirmsFit'
      BY <2>1 DEF vars, ConfirmsFit, ConfirmFits, Behind, Window, Counter
    <2> QED BY <2>1, NextKeepsConfirms
  <1>3. ConfirmsFit => ConfirmCodeBurnt
    BY DEF ConfirmsFit, ConfirmFits, ConfirmCodeBurnt, Behind
  <1> QED BY <1>1, <1>2, <1>3, Invariance, PTL DEF Spec
=============================================================================

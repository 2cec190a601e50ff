---------------------------- MODULE RadiusAccess ----------------------------
(* An Access-Request of a NAS (radiusserver.handleAuth): the trusted device, *)
(* the locks that count failures in the audit log, the password with a code  *)
(* or a push, the window the second factor opens.  A web login is here for   *)
(* the failures it counts.  The wait for a push is module PushLogin.         *)
EXTENDS Clock, FiniteSets, Sequences

CONSTANTS Attempt,      \* requests under way
          Station,      \* Calling-Station-Ids, normalised; None is an empty one
          Days,         \* values of radius.trust_days
          RequireMA,    \* radius.require_message_authenticator
          FailWindow, LockTime, MaxFails,       \* policy.fail_window, ban_time, max_fail
          RadiusWindow, MaxFailPerUser,         \* radius.fail_window, max_fail_per_user
          Retention     \* audit.retention_days

\* As the defaults are: a lock is not over while its failures still count, and
\* the log keeps what is counted.
ASSUME RadiusAssumption ==
    /\ IsFiniteSet(Attempt) /\ None \notin {"code_ok", "push_ok", "trust_skip"}
    /\ {FailWindow, LockTime, MaxFails, RadiusWindow, Retention} \subseteq Nat \ {0}
    /\ MaxFailPerUser \in Nat /\ Days \subseteq Nat
    /\ None \notin [at: Moment, days: Days]
    /\ LockTime >= FailWindow
    /\ Retention >= FailWindow /\ Retention >= RadiusWindow

VARIABLES enabled,      \* the user's row
          days,         \* radius.trust_days
          trusted,      \* the table radius_trusted_devices: until when
          log,          \* the failures in audit_log, by their id
          attempt,
          guessed,      \* history: the moments of all the failures
          proved        \* history: when a second factor last was right at a station, and for how long

raVars == <<enabled, days, trusted, log, attempt, guessed, proved>>

NoAttempt == [pc |-> "idle", kind |-> "radius", station |-> None, password |-> FALSE, code |-> FALSE,
              reason |-> None, factor |-> FALSE]

RadiusInit ==
    /\ now = 0
    /\ enabled = TRUE
    /\ days \in Days
    /\ trusted = [s \in Station |-> None]
    /\ log = [i \in {} |-> None]
    /\ attempt = [a \in Attempt |-> NoAttempt]
    /\ guessed = <<>>
    /\ proved = [s \in Station |-> None]

On(a, pc) == attempt[a].pc = pc
Step(a, pc) == attempt' = [attempt EXCEPT ![a].pc = pc]
Answer(a, reason) == attempt' = [attempt EXCEPT ![a].pc = "answer", ![a].reason = reason]
Accepted == {"code_ok", "push_ok", "trust_skip"}

\* checkRequestMessageAuthenticator.
MessageAuthenticated(ma) == ma = "valid" \/ (ma = "missing" /\ ~RequireMA)

Receive(a, ma, station, password, code) ==
    /\ On(a, "idle") /\ MessageAuthenticated(ma)
    /\ attempt' = [attempt EXCEPT ![a] = [NoAttempt EXCEPT !.pc = "gate", !.station = station,
                                              !.password = password, !.code = code]]
    /\ UNCHANGED <<enabled, days, trusted, log, guessed, proved>>

WebLogin(a, password, code) ==
    /\ On(a, "idle")
    /\ attempt' = [attempt EXCEPT ![a] = [NoAttempt EXCEPT !.pc = "locks", !.kind = "web",
                                              !.password = password, !.code = code]]
    /\ UNCHANGED <<enabled, days, trusted, log, guessed, proved>>

\* radiusTrustGate: the row first, the password after it.
TrustedNow(s) == days > 0 /\ s # None /\ enabled /\ trusted[s] # None /\ trusted[s] > now

TrustGate(a) ==
    /\ On(a, "gate")
    /\ Step(a, IF TrustedNow(attempt[a].station) THEN "password" ELSE "lookup")
    /\ UNCHANGED <<enabled, days, trusted, log, guessed, proved>>

\* mistake: an acceptance without a factor opens the window anew.
TrustSlides(a) ==
    /\ On(a, "password")
    /\ attempt' = [attempt EXCEPT ![a].pc = IF attempt[a].password THEN "remember" ELSE "lookup"]
    /\ UNCHANGED <<enabled, days, trusted, log, guessed, proved>>

TrustPassword(a) ==
    /\ On(a, "password")
    /\ IF attempt[a].password THEN Answer(a, "trust_skip") ELSE Step(a, "lookup")
    /\ UNCHANGED <<enabled, days, trusted, log, guessed, proved>>

\* RADIUSAuth: the user, the counter of radius_fail, FailLocked.
Lookup(a) ==
    /\ On(a, "lookup")
    /\ IF enabled THEN Step(a, "counter") ELSE Answer(a, "disabled")
    /\ UNCHANGED <<enabled, days, trusted, log, guessed, proved>>

Since(events, span) == {i \in DOMAIN log : log[i].event \in events /\ log[i].ts > now - span}

RadiusCounter(a) ==
    /\ On(a, "counter")
    /\ IF MaxFailPerUser > 0 /\ Cardinality(Since({"radius_fail"}, RadiusWindow)) >= MaxFailPerUser
       THEN Answer(a, "locked") ELSE Step(a, "locks")
    /\ UNCHANGED <<enabled, days, trusted, log, guessed, proved>>

\* mistake: the failures of the web do not count.
LockedByRadius ==
    LET recent == Since({"radius_fail"}, FailWindow)
    IN Cardinality(recent) >= MaxFails /\ \E i \in recent : now - log[i].ts < LockTime

Locked ==
    LET recent == Since({"radius_fail", "login_fail"}, FailWindow)
    IN /\ Cardinality(recent) >= MaxFails
       /\ \E i \in recent : now - log[i].ts < LockTime

FailLocked(a) ==
    /\ On(a, "locks")
    /\ IF Locked THEN Answer(a, "locked") ELSE Step(a, "verify")
    /\ UNCHANGED <<enabled, days, trusted, log, guessed, proved>>

Failure(a) == [event |-> IF attempt[a].kind = "web" THEN "login_fail" ELSE "radius_fail", ts |-> now]

\* The codes are tried first and burn whatever the password is; a web login that
\* has only its password right fails as well, a RADIUS one goes on to the push.
Wrong(a) == ~attempt[a].password \/ (attempt[a].kind = "web" /\ ~attempt[a].code)

BadCredentials(a) ==
    /\ On(a, "verify") /\ Wrong(a)
    /\ guessed' = Append(guessed, now)
    /\ log' = [i \in DOMAIN log \cup {Len(guessed')} |-> IF i \in DOMAIN log THEN log[i] ELSE Failure(a)]
    /\ Answer(a, "bad_credentials")
    /\ UNCHANGED <<enabled, days, trusted, proved>>

CodeRight(a) ==
    /\ On(a, "verify") /\ ~Wrong(a) /\ attempt[a].code
    /\ attempt' = [attempt EXCEPT ![a].pc = IF attempt[a].kind = "web" THEN "answer" ELSE "remember",
                                  ![a].reason = "code_ok", ![a].factor = TRUE]
    /\ UNCHANGED <<enabled, days, trusted, log, guessed, proved>>

Push(a) ==
    /\ On(a, "verify") /\ ~Wrong(a) /\ ~attempt[a].code
    /\ Step(a, "push")
    /\ UNCHANGED <<enabled, days, trusted, log, guessed, proved>>

PushApproved(a) ==
    /\ On(a, "push")
    /\ attempt' = [attempt EXCEPT ![a].pc = "remember", ![a].reason = "push_ok", ![a].factor = TRUE]
    /\ UNCHANGED <<enabled, days, trusted, log, guessed, proved>>

PushRefused(a) ==
    /\ On(a, "push")
    /\ Answer(a, "push_timeout")
    /\ UNCHANGED <<enabled, days, trusted, log, guessed, proved>>

\* radiusTrustRemember: RadiusTrustUpsert forgets, as it writes, windows that are
\* long over; they say the same as no row.
Opened(a) == days > 0 /\ attempt[a].station # None

Remember(a) ==
    LET s == attempt[a].station
    IN /\ On(a, "remember")
       /\ trusted' = IF Opened(a) THEN [trusted EXCEPT ![s] = now + days] ELSE trusted
       /\ proved' = IF Opened(a) /\ attempt[a].factor
                    THEN [proved EXCEPT ![s] = [at |-> now, days |-> days]] ELSE proved
       /\ Step(a, "answer")
       /\ UNCHANGED <<enabled, days, log, guessed>>

Answered(a) ==
    /\ On(a, "answer")
    /\ attempt' = [attempt EXCEPT ![a] = NoAttempt]
    /\ UNCHANGED <<enabled, days, trusted, log, guessed, proved>>

-----------------------------------------------------------------------------
(* Around the requests.                                                      *)

SetTrustDays(d) ==
    /\ d # days
    /\ days' = d
    /\ UNCHANGED <<enabled, trusted, log, attempt, guessed, proved>>

SwitchUser ==
    /\ enabled' = ~enabled
    /\ UNCHANGED <<days, trusted, log, attempt, guessed, proved>>

\* The daily janitors of audit_log and radius_trusted_devices.
Expired(i) == log[i].ts < now - Retention

Janitor ==
    /\ log' = [i \in {j \in DOMAIN log : ~Expired(j)} |-> log[i]]
    /\ trusted' = [s \in Station |->
           IF trusted[s] # None /\ trusted[s] < now THEN None ELSE trusted[s]]
    /\ <<log', trusted'>> # <<log, trusted>>
    /\ UNCHANGED <<enabled, days, attempt, guessed, proved>>

RadiusNext ==
    \/ /\ \/ \E a \in Attempt :
                \/ \E ma \in {"valid", "invalid", "missing"}, s \in Station \cup {None},
                      password, code \in BOOLEAN : Receive(a, ma, s, password, code)
                \/ \E password, code \in BOOLEAN : WebLogin(a, password, code)
                \/ TrustGate(a) \/ TrustPassword(a) \/ Lookup(a) \/ RadiusCounter(a) \/ FailLocked(a)
                \/ BadCredentials(a) \/ CodeRight(a) \/ Push(a) \/ PushApproved(a) \/ PushRefused(a)
                \/ Remember(a) \/ Answered(a)
          \/ \E d \in Days : SetTrustDays(d)
          \/ SwitchUser
          \/ Janitor
       /\ UNCHANGED now
    \/ Tick /\ UNCHANGED raVars

-----------------------------------------------------------------------------
(* Properties.                                                               *)

\* radiusAuthWithTrust: a request is accepted without a second factor of its own
\* only with the right password, from a station from which a second factor was
\* right less than the days of trust of that moment ago, and while the setting is
\* on; every other acceptance has a factor of its own.
Founded(a) ==
    LET q == attempt'[a]
    IN IF q.reason = "trust_skip"
       THEN q.password
       ELSE q.factor

\* The read that decides: the row is read before the password is verified.
SkipFounded(s) == days > 0 /\ enabled /\ proved[s] # None /\ now < proved[s].at + proved[s].days

FoundedStep ==
    \A a \in Attempt :
        /\ On(a, "gate") /\ attempt'[a].pc = "password" => SkipFounded(attempt[a].station)
        /\ ~On(a, "answer") /\ attempt'[a].reason \in Accepted => Founded(a)
AcceptIsFounded == [][FoundedStep]_<<now, raVars>>

\* FailLocked and the audit log behind it: in no window of fail_window does a user
\* fail more often than max_fail - 1 times and once for every request that had
\* passed the lock before the failures were written.
GuessesBounded ==
    \A j \in DOMAIN guessed :
        Cardinality({i \in DOMAIN guessed : i <= j /\ guessed[i] > guessed[j] - FailWindow})
            <= MaxFails - 1 + Cardinality(Attempt)
=============================================================================

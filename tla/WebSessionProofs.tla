--------------------------- MODULE WebSessionProofs ---------------------------
(***************************************************************************)
(* What one step of WebSession does to the requests, the rows and the      *)
(* history, for any number of requests, cookies and challenges.            *)
(*                                                                         *)
(* A request moves alone, and most of its moves are Calm: it takes hold of *)
(* no passkey window and no ceremony, and no row but what a statement      *)
(* deletes or adds for nobody in particular changes.  The others have a    *)
(* lemma each.  OidcProviderProofs puts the lemmas together.               *)
(***************************************************************************)
EXTENDS WebSession, ChallengeTableProofs

\* A passkey window this request has claimed and has not yet made a session
\* of; a ceremony it has claimed and has not yet made a window of.
HasWindow(r) == /\ r.pc \in {"verify", "lock", "lockwrite", "sync", "syncwrite", "enc", "create"}
                /\ r.ch # None
HasCeremony(r) == r.pc \in {"assert", "signin", "approve", "window"}
HasSigned(r) == r.pc \in {"signin", "approve", "window"}

\* The user was seen enabled since the request began.
Admitted(r) ==
    \/ r.kind = "window"
    \/ r.pc \in {"factor", "select", "mark", "enc", "pending", "device", "methods", "create", "trust"}

\* What a request's own fields say of one another.
Fit(r) ==
    /\ r \in CallRecord
    /\ r.u.st = "live"
    /\ r.kind = "push" => r.html
    /\ r.pc = "idle" => r.kind # "window"
    /\ r.pc = "lookup" => r.kind \in {"second", "window", "push"}
    /\ r.pc \in {"select", "mark"} => r.kind \in {"second", "window"}
    /\ r.pc \in {"load", "lookup", "factor", "select", "pending", "device", "methods"} => r.ch = None
    /\ HasWindow(r) => r.kind \in {"second", "window"}
    /\ r.pc \in {"mark", "claim"} \/ HasCeremony(r) => r.ch \in Challenge

Fitting == /\ user \in UserRow
           /\ call \in [Call -> CallRecord]
           /\ \A c \in Call : Fit(call[c])

\* Request c goes on as r, and is not admitted but by an enabled user.
Moves(c, r) ==
    /\ Fit(r)
    /\ call' = [call EXCEPT ![c] = r]
    /\ Admitted(r) => Admitted(call[c]) \/ Usable' \/ (Usable /\ call[c].pc # "idle")

\* r takes hold of nothing that q did not hold.
Carries(q, r) ==
    /\ HasWindow(r) => HasWindow(q) /\ r.ch = q.ch
    /\ HasCeremony(r) => HasCeremony(q) /\ r.ch = q.ch
    /\ HasSigned(r) => HasSigned(q)
    /\ r.pc # "mark"

PlainMove(c) == \E r \in CallRecord : Moves(c, r) /\ Carries(call[c], r)
CalmMove(c) == \E r \in CallRecord :
    Moves(c, r) /\ Carries(call[c], r) /\ r.pc \notin {"sessions", "devices"}

-----------------------------------------------------------------------------
(* A request arrives.                                                      *)

LEMMA IdleFits ==
    /\ AnyPassword \in Password /\ AnyUser \in UserRow /\ AnyUser.st = "live"
    /\ Idle \in CallRecord /\ Idle.u = AnyUser /\ Idle.pc = "idle" /\ Idle.kind = "first"
    /\ Idle.ch = None /\ ~Idle.html /\ Fit(Idle)
    /\ ~HasWindow(Idle) /\ ~HasCeremony(Idle) /\ ~Admitted(Idle)
  <1>1. AnyPassword \in Password
    BY WebSessionAssumption DEF AnyPassword
  <1>2. AnyUser \in UserRow /\ AnyUser.st = "live"
    BY <1>1 DEF AnyUser, UserRow
  <1>3. /\ Idle \in CallRecord /\ Idle.u = AnyUser /\ Idle.pc = "idle" /\ Idle.kind = "first"
        /\ Idle.ch = None /\ ~Idle.html
    BY <1>1, <1>2 DEF Idle, CallRecord, Pc, Kind, LoginKind, Mode
  <1> QED BY <1>1, <1>2, <1>3 DEF Fit, HasWindow, HasCeremony, Admitted

\* A request that ends, and one that is refused.
LEMMA Leaving ==
    ASSUME Fitting, NEW c \in Call, Leave(c)
    PROVE  CalmMove(c)
  BY IdleFits DEF Leave, CalmMove, Moves, Carries, HasSigned, HasCeremony

LEMMA Refusing ==
    ASSUME Fitting, NEW c \in Call, Refuse(c)
    PROVE  CalmMove(c)
  <1>1. CASE call[c].kind = "window"
    <2> DEFINE r == [call[c] EXCEPT !.kind = "first", !.pc = "device", !.ch = None]
    <2>1. call[c] \in CallRecord /\ call[c].u.st = "live"
      BY DEF Fitting, Fit
    <2>2. /\ r \in CallRecord /\ r.u = call[c].u /\ r.kind = "first" /\ r.pc = "device"
          /\ r.ch = None
      BY <2>1 DEF CallRecord, Kind, LoginKind, Pc
    <2>3. call' = [call EXCEPT ![c] = r]
      BY <1>1, <2>1 DEF Refuse
    <2> HIDE DEF r
    <2> QED BY <1>1, <2>1, <2>2, <2>3
            DEF CalmMove, Moves, Carries, Fit, HasWindow, HasCeremony, HasSigned, Admitted
  <1>2. CASE call[c].kind # "window"
    BY <1>2, Leaving DEF Refuse
  <1> QED BY <1>1, <1>2

LEMMA Arriving ==
    ASSUME Fitting, NEW c \in Call, Arrive(c), db \in [Challenge -> Row]
    PROVE  CalmMove(c)
  <1>1. ASSUME NEW r \in CallRecord, call' = [call EXCEPT ![c] = r], r.u.st = "live",
               \/ r.pc \in {"verify", "load", "write"} /\ r.ch = None /\ r.kind \notin {"window", "push"}
               \/ r.pc = "lookup" /\ r.ch = None /\ r.kind \in {"second", "push"}
               \/ r.pc = "claim" /\ r.ch \in Challenge /\ r.kind = "finish",
               r.kind = "push" => r.html
        PROVE  CalmMove(c)
    BY <1>1 DEF CalmMove, Moves, Carries, Fit, HasWindow, HasCeremony, HasSigned, Admitted
  <1>2. ASSUME NEW p \in Password, NEW d \in Device \cup {None}, FirstStep(c, p, d)
        PROVE  CalmMove(c)
    <2>1. PICK html \in BOOLEAN, remember \in BOOLEAN :
             call' = [call EXCEPT ![c] = [Idle EXCEPT !.pc = "verify", !.typed = p, !.d = d,
                                                      !.html = html, !.remember = remember]]
      BY <1>2 DEF FirstStep
    <2> DEFINE r == [Idle EXCEPT !.pc = "verify", !.typed = p, !.d = d,
                                 !.html = html, !.remember = remember]
    <2>2. /\ r \in CallRecord /\ r.u = AnyUser /\ r.pc = "verify" /\ r.ch = None /\ r.kind = "first"
      BY IdleFits DEF CallRecord, Pc, Idle
    <2> HIDE DEF r
    <2> QED BY <1>1, <2>1, <2>2, IdleFits DEF r
  <1>3. ASSUME NEW p \in Password, SecondStep(c, p)
        PROVE  CalmMove(c)
    <2>1. PICK html \in BOOLEAN, remember \in BOOLEAN :
             call' = [call EXCEPT ![c] = [Idle EXCEPT
                        !.pc = "lookup", !.kind = "second", !.mode = "password+code",
                        !.typed = p, !.html = html, !.remember = remember]]
      BY <1>3 DEF SecondStep
    <2> DEFINE r == [Idle EXCEPT !.pc = "lookup", !.kind = "second", !.mode = "password+code",
                                 !.typed = p, !.html = html, !.remember = remember]
    <2>2. /\ r \in CallRecord /\ r.u = AnyUser /\ r.pc = "lookup" /\ r.ch = None /\ r.kind = "second"
      BY IdleFits DEF CallRecord, Pc, Kind, LoginKind, Mode, Idle
    <2> HIDE DEF r
    <2> QED BY <1>1, <2>1, <2>2, IdleFits DEF r
  <1>4. ASSUME NEW p \in Password, BeginPasskey(c, p)
        PROVE  CalmMove(c)
    <2> DEFINE r == [Idle EXCEPT !.pc = "verify", !.kind = "begin", !.typed = p]
    <2>1. /\ r \in CallRecord /\ r.u = AnyUser /\ r.pc = "verify" /\ r.ch = None /\ r.kind = "begin"
      BY IdleFits DEF CallRecord, Pc, Kind
    <2>2. call' = [call EXCEPT ![c] = r]
      BY <1>4 DEF BeginPasskey
    <2> HIDE DEF r
    <2> QED BY <1>1, <2>1, <2>2, IdleFits
  <1>5. ASSUME NEW s \in Session, NEW kind \in CabinetKind, NEW p \in Password, Cabinet(c, s, kind, p)
        PROVE  CalmMove(c)
    <2> DEFINE r == [Idle EXCEPT !.pc = "load", !.kind = kind, !.s = s, !.typed = p]
    <2>1. /\ r \in CallRecord /\ r.u = AnyUser /\ r.pc = "load" /\ r.ch = None /\ r.kind = kind
      BY IdleFits DEF CallRecord, Pc, Kind
    <2>2. call' = [call EXCEPT ![c] = r]
      BY <1>5 DEF Cabinet
    <2> HIDE DEF r
    <2> QED BY <1>1, <2>1, <2>2, IdleFits DEF CabinetKind
  <1>6. ASSUME PushClaim(c)
        PROVE  CalmMove(c)
    <2>1. PICK remember \in BOOLEAN :
             call' = [call EXCEPT ![c] = [Idle EXCEPT
                        !.pc = "lookup", !.kind = "push", !.mode = "push_match",
                        !.html = TRUE, !.remember = remember]]
      BY <1>6 DEF PushClaim
    <2> DEFINE r == [Idle EXCEPT !.pc = "lookup", !.kind = "push", !.mode = "push_match",
                                 !.html = TRUE, !.remember = remember]
    <2>2. /\ r \in CallRecord /\ r.u = AnyUser /\ r.pc = "lookup" /\ r.ch = None
          /\ r.kind = "push" /\ r.html
      BY IdleFits DEF CallRecord, Pc, Kind, LoginKind, Mode, Idle
    <2> HIDE DEF r
    <2> QED BY <1>1, <2>1, <2>2, IdleFits DEF r
  <1>7. ASSUME NEW x \in Challenge, ReadCeremony(c, x)
        PROVE  CalmMove(c)
    <2> DEFINE r == [Idle EXCEPT !.pc = "claim", !.kind = "finish", !.ch = x]
    <2>1. /\ r \in CallRecord /\ r.u = AnyUser /\ r.pc = "claim" /\ r.ch = x /\ r.kind = "finish"
      BY IdleFits DEF CallRecord, Pc, Kind
    <2>2. call' = [call EXCEPT ![c] = r]
      BY <1>7 DEF ReadCeremony
    <2> HIDE DEF r
    <2> QED BY <1>1, <2>1, <2>2, IdleFits
  <1>8. ASSUME NEW edit \in {"none", "enable", "disable", "password"}, Patch(c, edit)
        PROVE  CalmMove(c)
    <2> DEFINE r == [Idle EXCEPT !.pc = "write", !.kind = "patch", !.u = user, !.edit = edit]
    <2>0. user \in UserRow
      BY DEF Fitting
    <2>1. /\ r \in CallRecord /\ r.u = user /\ r.pc = "write" /\ r.ch = None /\ r.kind = "patch"
      BY <2>0, IdleFits DEF CallRecord, Pc, Kind, Idle
    <2>2. call' = [call EXCEPT ![c] = r] /\ user.st = "live"
      BY <1>8 DEF Patch, Exists
    <2> HIDE DEF r
    <2> QED BY <1>1, <2>1, <2>2
  <1> QED BY <1>2, <1>3, <1>4, <1>5, <1>6, <1>7, <1>8 DEF Arrive

-----------------------------------------------------------------------------
(* A request goes on.                                                      *)

LEMMA Going ==
    ASSUME Fitting, NEW c \in Call, NEW pc \in Pc, Goto(c, pc)
    PROVE  \E r \in CallRecord :
              /\ call' = [call EXCEPT ![c] = r]
              /\ r.pc = pc /\ r.kind = call[c].kind /\ r.u = call[c].u /\ r.html = call[c].html
              /\ r.ch = call[c].ch /\ r.old = call[c].old
  <1> DEFINE r == [call[c] EXCEPT !.pc = pc]
  <1>1. call[c] \in CallRecord
    BY DEF Fitting
  <1>2. /\ r \in CallRecord
        /\ r.pc = pc /\ r.kind = call[c].kind /\ r.u = call[c].u /\ r.html = call[c].html
        /\ r.ch = call[c].ch /\ r.old = call[c].old
    BY <1>1 DEF CallRecord
  <1>3. call' = [call EXCEPT ![c] = r]
    BY DEF Goto
  <1> HIDE DEF r
  <1> QED BY <1>2, <1>3

\* Most moves change pc only.
LEMMA CalmGoto ==
    ASSUME Fitting, NEW c \in Call, NEW pc \in Pc, Goto(c, pc),
           pc \notin {"mark", "sessions", "devices", "claim", "load", "lookup", "select", "idle"},
           pc \in {"assert", "signin", "approve", "window"} => HasCeremony(call[c]),
           pc \in {"signin", "approve", "window"} => HasSigned(call[c]),
           pc \in {"verify", "lock", "lockwrite", "sync", "syncwrite", "enc", "create"} =>
              call[c].ch = None \/ HasWindow(call[c]),
           pc \in {"factor", "pending", "device", "methods"} => call[c].ch = None,
           pc \in {"factor", "enc", "pending", "device", "methods", "create", "trust"} =>
              Admitted(call[c])
    PROVE  CalmMove(c)
  <1>1. PICK r \in CallRecord :
          /\ call' = [call EXCEPT ![c] = r]
          /\ r.pc = pc /\ r.kind = call[c].kind /\ r.u = call[c].u /\ r.html = call[c].html
          /\ r.ch = call[c].ch /\ r.old = call[c].old
    BY Going
  <1>2. Fit(call[c])
    BY DEF Fitting
  <1>3. Fit(r)
    BY <1>1, <1>2 DEF Fit, HasWindow, HasCeremony
  <1>4. Carries(call[c], r)
    BY <1>1, <1>2 DEF Carries, Fit, HasWindow, HasCeremony, HasSigned
  <1>5. Admitted(r) => Admitted(call[c])
    BY <1>1, <1>2 DEF Admitted
  <1> QED BY <1>1, <1>3, <1>4, <1>5 DEF CalmMove, Moves

\* A password that fits, of a user who is enabled.
LEMMA Verifying ==
    ASSUME Fitting, NEW c \in Call, Here(c, "verify") \/ Here(c, "sync") \/ Here(c, "syncwrite"),
           NEW row \in UserRow, row.st = "live", Usable \/ Usable', Verified(c, row)
    PROVE  CalmMove(c)
  <1> DEFINE q == call[c]
             u == IF q.kind \in {"first", "begin"} THEN row ELSE q.u
             pc == AfterPassword(q, u)
             v == Copy(pc, u)
             r == [q EXCEPT !.pc = pc, !.u = v]
  <1>1. Fit(q) /\ q \in CallRecord /\ q.u.st = "live" /\ q.u \in UserRow
        /\ q.pc \in {"verify", "sync", "syncwrite"}
    BY DEF Fitting, Fit, CallRecord, Here
  <1>2. u \in UserRow /\ u.st = "live"
    BY <1>1
  <1>3. call' = [call EXCEPT ![c] = r]
    BY DEF Verified
  <1>4. /\ pc \in {"keys", "write", "enc", "create", "pending", "device"}
        /\ pc \in {"pending", "device"} => q.kind = "first"
    BY DEF AfterPassword, AfterEnc
  <1> HIDE DEF pc, u
  <1>5. v \in UserRow /\ v.st = "live"
    BY <1>2, IdleFits DEF Copy
  <1> HIDE DEF v, q
  <1>6. /\ r \in CallRecord /\ r.pc = pc /\ r.u = v /\ r.kind = q.kind /\ r.ch = q.ch
        /\ r.html = q.html
    <2>1. pc \in Pc /\ q \in CallRecord /\ v \in UserRow
      BY <1>1, <1>4, <1>5 DEF Pc
    <2> QED BY <2>1 DEF CallRecord
  <1> HIDE DEF r
  <1>7. Fit(r)
    BY <1>1, <1>4, <1>5, <1>6 DEF Fit, HasWindow, HasCeremony
  <1>8. Carries(q, r)
    BY <1>1, <1>4, <1>6 DEF Carries, HasWindow, HasCeremony, HasSigned
  <1> QED BY <1>1, <1>3, <1>4, <1>6, <1>7, <1>8 DEF CalmMove, Moves, q

\* The steps of Verify.
LEMMA CalmVerify ==
    ASSUME Fitting, NEW c \in Call,
           \/ VerifyLocal(c) \/ VerifyLdap(c) \/ LdapLock(c) \/ LdapLockWrite(c)
           \/ LdapSync(c) \/ LdapSyncWrite(c) \/ StorePasswordEnc(c)
    PROVE  CalmMove(c)
  <1> DEFINE q == call[c]
  <1>1. Fit(q) /\ q \in CallRecord /\ q.u.st = "live" /\ q.u \in UserRow /\ user \in UserRow
    BY DEF Fitting, Fit, CallRecord
  \* The request goes on with a copy u of the row.
  <1>2. ASSUME NEW pc \in {"lockwrite", "syncwrite", "create", "pending", "device"},
               NEW u \in UserRow, u.st = "live",
               call' = [call EXCEPT ![c].pc = pc, ![c].u = u],
               pc \in {"lockwrite", "syncwrite", "create"} => q.ch = None \/ HasWindow(q),
               pc \in {"pending", "device"} => q.ch = None,
               pc \in {"create", "pending", "device"} => Admitted(q)
        PROVE  CalmMove(c)
    <2> DEFINE r == [q EXCEPT !.pc = pc, !.u = u]
    <2>1. call' = [call EXCEPT ![c] = r]
      BY <1>2
    <2> HIDE DEF q
    <2>2. pc \in Pc
      BY DEF Pc
    <2>3. /\ r \in CallRecord /\ r.pc = pc /\ r.u = u /\ r.kind = q.kind /\ r.ch = q.ch
          /\ r.html = q.html
      BY <1>1, <2>2 DEF CallRecord
    <2> HIDE DEF r
    <2>4. Fit(r) /\ Carries(q, r) /\ (Admitted(r) => Admitted(q))
      BY <1>1, <1>2, <2>3 DEF Fit, Carries, HasWindow, HasCeremony, HasSigned, Admitted
    <2> QED BY <2>1, <2>3, <2>4 DEF CalmMove, Moves, q
  <1>3. CASE VerifyLocal(c)
    <2>1. CASE Usable /\ Verified(c, user)
      BY <1>1, <1>3, <2>1, Verifying DEF VerifyLocal, Usable, Exists
    <2> QED BY <1>3, <2>1, Refusing DEF VerifyLocal
  <1>4. CASE VerifyLdap(c)
    <2>1. q.ch = None \/ HasWindow(q)
      BY <1>4 DEF VerifyLdap, Here, HasWindow
    <2>2. ASSUME NEW pc \in {"lock", "sync"}, Goto(c, pc)
          PROVE  CalmMove(c)
      <3>1. pc \in Pc
        BY DEF Pc
      <3> QED BY <2>1, <2>2, <3>1, CalmGoto
    <2> QED BY <1>4, <2>2, Refusing DEF VerifyLdap
  <1>5. CASE LdapLock(c)
    <2> DEFINE u == [user EXCEPT !.enabled = FALSE, !.locked = TRUE]
    <2>1. u \in UserRow /\ u.st = user.st
      BY <1>1 DEF UserRow
    <2>2. q.ch = None \/ HasWindow(q)
      BY <1>5 DEF LdapLock, Here, HasWindow
    <2>3. CASE Exists /\ call' = [call EXCEPT ![c].pc = "lockwrite", ![c].u = u]
      <3> HIDE DEF u
      <3> QED BY <1>2, <2>1, <2>2, <2>3 DEF Exists
    <2> QED BY <1>5, <2>3, Refusing DEF LdapLock
  <1>6. CASE LdapLockWrite(c)
    BY <1>6, Refusing DEF LdapLockWrite
  <1>7. CASE LdapSync(c)
    <2> DEFINE u == Resync(user)
    <2>1. u \in UserRow /\ u.st = user.st
      BY <1>1 DEF UserRow, Resync
    <2>2. q.ch = None \/ HasWindow(q)
      BY <1>7 DEF LdapSync, Here, HasWindow
    <2>3. CASE Exists /\ call' = [call EXCEPT ![c].pc = "syncwrite", ![c].u = u]
      <3> HIDE DEF u
      <3> QED BY <1>2, <2>1, <2>2, <2>3 DEF Exists
    <2>4. CASE Exists /\ user.enabled /\ Verified(c, user)
      BY <1>1, <1>7, <2>4, Verifying DEF LdapSync, Usable, Exists
    <2> QED BY <1>7, <2>3, <2>4, Refusing DEF LdapSync, LdapAccept
  <1>8. CASE LdapSyncWrite(c)
    <2>1. CASE Exists /\ q.u.enabled /\ Verified(c, q.u)
      <3>1. Usable'
        BY <1>1, <1>8, <2>1 DEF LdapSyncWrite, UserUpdate, Usable, Exists
      <3> QED BY <1>1, <1>8, <2>1, <3>1, Verifying DEF LdapSyncWrite
    <2> QED BY <1>8, <2>1, Refusing DEF LdapSyncWrite, LdapAccept
  <1>9. CASE StorePasswordEnc(c)
    <2> DEFINE pc == AfterEnc(q)
    <2>1. pc \in {"create", "pending", "device"} /\ (pc \in {"pending", "device"} => q.kind = "first")
      BY DEF AfterEnc
    <2>2. q.pc = "enc" /\ call' = [call EXCEPT ![c].pc = pc, ![c].u = AnyUser]
      BY <1>9 DEF StorePasswordEnc, Here
    <2> HIDE DEF pc
    <2> QED BY <1>1, <1>2, <2>1, <2>2, IdleFits DEF Fit, HasWindow, Admitted
  <1> QED BY <1>3, <1>4, <1>5, <1>6, <1>7, <1>8, <1>9

\* The steps of a login from the form's pending window to its cookies.
LEMMA CalmLogin ==
    ASSUME Fitting, NEW c \in Call,
           \/ LookForWindow(c) \/ Lookup(c) \/ Factor(c) \/ CheckDevice(c) \/ CheckMethods(c)
           \/ \E s \in Session : CreateSession(c, s)
           \/ \E d \in Device : TrustDevice(c, d)
    PROVE  CalmMove(c)
  <1> DEFINE q == call[c]
  <1>1. Fit(q) /\ q \in CallRecord /\ user \in UserRow
    BY DEF Fitting, Fit
  <1>2. CASE LookForWindow(c)
    <2> DEFINE r == [q EXCEPT !.pc = "lookup", !.kind = "window", !.mode = "passkey"]
    <2>1. /\ r \in CallRecord /\ r.pc = "lookup" /\ r.u = q.u /\ r.kind = "window" /\ r.ch = q.ch
          /\ r.html = q.html
      <3>1. "lookup" \in Pc /\ "window" \in Kind /\ "passkey" \in Mode
        BY DEF Pc, Kind, LoginKind, Mode
      <3> HIDE DEF q
      <3> QED BY <1>1, <3>1 DEF CallRecord
    <2>2. q.pc = "pending"
      BY <1>2 DEF LookForWindow, Here
    <2>3. CASE call' = [call EXCEPT ![c] = r]
      <3> HIDE DEF r, q
      <3>1. Fit(r) /\ Carries(q, r) /\ Admitted(q)
        BY <1>1, <2>1, <2>2 DEF Fit, Carries, HasWindow, HasCeremony, HasSigned, Admitted
      <3> QED BY <2>1, <2>3, <3>1 DEF CalmMove, Moves, q
    <2>4. CASE Goto(c, "device")
      <3>1. "device" \in Pc /\ q.ch = None /\ Admitted(q)
        BY <1>1, <2>2 DEF Pc, Fit, Admitted
      <3> QED BY <2>4, <3>1, CalmGoto
    <2> QED BY <1>2, <2>3, <2>4 DEF LookForWindow
  <1>3. CASE Lookup(c)
    <2>1. q.pc = "lookup"
      BY <1>3 DEF Lookup, Here
    <2>2. CASE Usable
      <3>1. PICK pc \in {"factor", "select"} :
              /\ pc = "select" => q.kind = "window" \/ ~q.html
              /\ q.kind = "window" => pc = "select"
              /\ call' = [call EXCEPT ![c].pc = pc,
                                      ![c].u = IF q.kind = "second" /\ q.html
                                                   THEN user ELSE AnyUser]
        BY <1>3, <2>2 DEF Lookup
      <3> DEFINE u == IF q.kind = "second" /\ q.html THEN user ELSE AnyUser
      <3>2. u \in UserRow /\ u.st = "live"
        BY <1>1, <2>2, IdleFits DEF Usable, Exists
      <3> DEFINE r == [q EXCEPT !.pc = pc, !.u = u]
      <3>3. call' = [call EXCEPT ![c] = r]
        BY <3>1
      <3> HIDE DEF u, q
      <3>4. /\ r \in CallRecord /\ r.pc = pc /\ r.u = u /\ r.kind = q.kind /\ r.ch = q.ch
            /\ r.html = q.html
        <4>1. pc \in Pc
          BY DEF Pc
        <4> QED BY <1>1, <3>2, <4>1 DEF CallRecord
      <3> HIDE DEF r
      <3>5. Fit(r) /\ Carries(q, r)
        BY <1>1, <2>1, <3>1, <3>2, <3>4 DEF Fit, Carries, HasWindow, HasCeremony, HasSigned
      <3> QED BY <2>1, <2>2, <3>3, <3>4, <3>5 DEF CalmMove, Moves, q
    <2> QED BY <1>3, <2>2, Refusing DEF Lookup
  <1>4. CASE Factor(c)
    <2>1. q.ch = None /\ Admitted(q)
      BY <1>1, <1>4 DEF Factor, Here, Fit, Admitted
    <2>2. ASSUME NEW pc \in {"create", "verify"}, Goto(c, pc)
          PROVE  CalmMove(c)
      <3>1. pc \in Pc
        BY DEF Pc
      <3> QED BY <2>1, <2>2, <3>1, CalmGoto
    <2> QED BY <1>4, <2>2, Refusing DEF Factor
  <1>5. CASE CheckDevice(c)
    <2>1. q.pc = "device" /\ q.ch = None /\ Admitted(q)
      BY <1>1, <1>5 DEF CheckDevice, Here, Fit, Admitted
    <2>2. CASE Goto(c, "methods")
      <3>1. "methods" \in Pc
        BY DEF Pc
      <3> QED BY <2>1, <2>2, <3>1, CalmGoto
    <2> DEFINE r == [q EXCEPT !.pc = "create", !.mode = "trusted_device"]
    <2>3. /\ r \in CallRecord /\ r.pc = "create" /\ r.u = q.u /\ r.kind = q.kind /\ r.ch = q.ch
          /\ r.html = q.html
      <3>1. "create" \in Pc /\ "trusted_device" \in Mode
        BY DEF Pc, Mode
      <3> HIDE DEF q
      <3> QED BY <1>1, <3>1 DEF CallRecord
    <2>4. CASE call' = [call EXCEPT ![c] = r]
      <3> HIDE DEF r, q
      <3>1. Fit(r) /\ Carries(q, r)
        BY <1>1, <2>1, <2>3 DEF Fit, Carries, HasWindow, HasCeremony, HasSigned
      <3> QED BY <2>1, <2>3, <2>4, <3>1 DEF CalmMove, Moves, q
    <2> QED BY <1>5, <2>2, <2>4 DEF CheckDevice
  <1>6. CASE CheckMethods(c)
    <2>1. q.pc = "methods" /\ q.ch = None /\ Admitted(q)
      BY <1>1, <1>6 DEF CheckMethods, Here, Fit, Admitted
    <2> DEFINE remember == q.remember /\ q.html
               r == [q EXCEPT !.pc = "create", !.mode = "password_only", !.remember = remember]
    <2>2. remember \in BOOLEAN
      OBVIOUS
    <2>3. CASE call' = [call EXCEPT ![c] = r]
      <3> HIDE DEF remember, q
      <3>1. /\ r \in CallRecord /\ r.pc = "create" /\ r.u = q.u /\ r.kind = q.kind /\ r.ch = q.ch
            /\ r.html = q.html
        <4>1. "create" \in Pc /\ "password_only" \in Mode
          BY DEF Pc, Mode
        <4> QED BY <1>1, <2>2, <4>1 DEF CallRecord
      <3> HIDE DEF r
      <3>2. Fit(r) /\ Carries(q, r)
        BY <1>1, <2>1, <3>1 DEF Fit, Carries, HasWindow, HasCeremony, HasSigned
      <3> QED BY <2>1, <2>3, <3>1, <3>2 DEF CalmMove, Moves, q
    <2> QED BY <1>6, <2>3, Leaving DEF CheckMethods
  <1>7. ASSUME NEW s \in Session, CreateSession(c, s)
        PROVE  CalmMove(c)
    <2>1. CASE Goto(c, "trust")
      <3>1. "trust" \in Pc /\ Admitted(q)
        BY <1>7 DEF Pc, CreateSession, Here, Admitted
      <3> QED BY <2>1, <3>1, CalmGoto
    <2> QED BY <1>7, <2>1, Leaving DEF CreateSession
  <1>8. ASSUME NEW d \in Device, TrustDevice(c, d)
        PROVE  CalmMove(c)
    BY <1>8, Leaving DEF TrustDevice
  <1> QED BY <1>2, <1>3, <1>4, <1>5, <1>6, <1>7, <1>8

\* The two ends of a ceremony and the cabinet.
LEMMA CalmCabinet ==
    ASSUME Fitting, NEW c \in Call,
           \/ ReadKeys(c) \/ SignIn(c) \/ ApproveCeremony(c)
           \/ \E x \in Challenge : SaveCeremony(c, x) \/ OpenWindow(c, x)
           \/ LoadUser(c) \/ Logout(c) \/ DeleteKey(c) \/ RevokeDevices(c)
           \/ \E d \in Device : ForgetDevice(c, d)
    PROVE  CalmMove(c)
  <1> DEFINE q == call[c]
  <1>1. Fit(q) /\ q \in CallRecord /\ user \in UserRow
    BY DEF Fitting, Fit
  <1>2. CASE ReadKeys(c)
    <2>1. CASE Goto(c, "ceremony")
      <3>1. "ceremony" \in Pc
        BY DEF Pc
      <3> QED BY <2>1, <3>1, CalmGoto
    <2> QED BY <1>2, <2>1, Leaving DEF ReadKeys
  <1>3. CASE SignIn(c) \/ ApproveCeremony(c)
    <2>1. HasCeremony(q) /\ HasSigned(q)
      BY <1>3 DEF SignIn, ApproveCeremony, Here, HasCeremony, HasSigned
    <2>2. ASSUME NEW pc \in {"approve", "window"}, Goto(c, pc)
          PROVE  CalmMove(c)
      <3>1. pc \in Pc
        BY DEF Pc
      <3> QED BY <2>1, <2>2, <3>1, CalmGoto
    <2> QED BY <1>3, <2>2, Leaving DEF SignIn, ApproveCeremony
  <1>4. CASE LoadUser(c)
    <2> DEFINE u == IF q.kind \in {"password", "profile"} THEN user ELSE q.u
               pc == CASE q.kind = "password" -> "verify" [] q.kind = "profile" -> "write"
                       [] OTHER -> "operate"
               r == [q EXCEPT !.u = u, !.pc = pc]
    <2>1. CASE Usable /\ call' = [call EXCEPT ![c] = r]
      <3>1. u \in UserRow /\ u.st = "live"
        BY <1>1, <2>1 DEF Usable, Exists, Fit, CallRecord
      <3>2. pc \in {"verify", "write", "operate"} /\ q.pc = "load"
            /\ (pc = "verify" => q.kind = "password")
        BY <1>4 DEF LoadUser, Here
      <3> HIDE DEF u, pc, q
      <3>3. pc \in Pc
        BY <3>2 DEF Pc
      <3>4. /\ r \in CallRecord /\ r.pc = pc /\ r.u = u /\ r.kind = q.kind /\ r.ch = q.ch
            /\ r.html = q.html
        BY <1>1, <3>1, <3>3 DEF CallRecord
      <3> HIDE DEF r
      <3> QED BY <1>1, <2>1, <3>1, <3>2, <3>4
              DEF CalmMove, Moves, q, Fit, Carries, HasWindow, HasCeremony, HasSigned, Admitted
    <2> QED BY <1>4, <2>1, Leaving DEF LoadUser
  <1> QED BY <1>2, <1>3, <1>4, Leaving
          DEF SaveCeremony, OpenWindow, Logout, DeleteKey, RevokeDevices, ForgetDevice

-----------------------------------------------------------------------------
(* The moves that take hold of something.                                  *)

\* A passkey window this user has, used or not.
WindowRow(w) == db[w].st # "absent" /\ db[w].purpose = "webauthn_web_pending"

LEMMA Selecting ==
    ASSUME Fitting, NEW c \in Call, SelectWindow(c)
    PROVE  CalmMove(c) \/ \E r \in CallRecord : Moves(c, r) /\ r.pc = "mark" /\ WindowRow(r.ch)
  <1> DEFINE q == call[c]
  <1>1. Fit(q) /\ q \in CallRecord /\ q.pc = "select"
    BY DEF Fitting, Fit, SelectWindow, Here
  <1>2. ASSUME NEW w \in Windows, call' = [call EXCEPT ![c].pc = "mark", ![c].ch = w]
        PROVE  \E r \in CallRecord : Moves(c, r) /\ r.pc = "mark" /\ WindowRow(r.ch)
    <2>1. w \in Challenge /\ WindowRow(w) /\ "mark" \in Pc
      BY DEF Windows, Open, Live, WindowRow, Pc
    <2> DEFINE r == [q EXCEPT !.pc = "mark", !.ch = w]
    <2>2. call' = [call EXCEPT ![c] = r]
      BY <1>2
    <2> HIDE DEF q
    <2>3. /\ r \in CallRecord /\ r.pc = "mark" /\ r.u = q.u /\ r.kind = q.kind /\ r.ch = w
          /\ r.html = q.html
      BY <1>1, <2>1 DEF CallRecord
    <2> HIDE DEF r
    <2>4. Fit(r) /\ Admitted(q)
      BY <1>1, <2>1, <2>3 DEF Fit, HasWindow, HasCeremony, Admitted
    <2> QED BY <2>1, <2>2, <2>3, <2>4 DEF Moves, q
  <1> QED BY <1>2, Refusing DEF SelectWindow

\* The moves of one request that change pc only.
LEMMA HoldingGoto ==
    ASSUME Fitting, NEW c \in Call, NEW pc \in Pc, Goto(c, pc),
           \/ call[c].pc = "mark" /\ pc = "verify"
           \/ call[c].pc = "claim" /\ pc = "assert"
           \/ call[c].pc = "assert" /\ pc = "signin"
           \/ call[c].pc = "sessions" /\ pc = "devices"
    PROVE  \E r \in CallRecord :
              Moves(c, r) /\ r.pc = pc /\ r.ch = call[c].ch /\ r.old = call[c].old
  <1>1. PICK r \in CallRecord :
          /\ call' = [call EXCEPT ![c] = r]
          /\ r.pc = pc /\ r.kind = call[c].kind /\ r.u = call[c].u /\ r.html = call[c].html
          /\ r.ch = call[c].ch /\ r.old = call[c].old
    BY Going
  <1>2. Fit(call[c])
    BY DEF Fitting
  <1>3. Fit(r) /\ (Admitted(r) => Admitted(call[c]))
    BY <1>1, <1>2 DEF Fit, HasWindow, HasCeremony, Admitted
  <1> QED BY <1>1, <1>3 DEF Moves

\* The request that wrote a new password notes the cookies it must revoke.
LEMMA Writing ==
    ASSUME Fitting, NEW c \in Call, NEW p \in Password, WriteUser(c, p)
    PROVE  CalmMove(c) \/ \E r \in CallRecord :
                             Moves(c, r) /\ Carries(call[c], r) /\ r.pc = "sessions" /\ r.old = LiveCookies
  <1> DEFINE q == call[c]
             r == [q EXCEPT !.pc = "sessions", !.old = LiveCookies]
  <1>1. Fit(q) /\ q \in CallRecord /\ q.pc = "write"
    BY DEF Fitting, Fit, WriteUser, Here
  <1>2. CASE call' = [call EXCEPT ![c].pc = "sessions", ![c].old = LiveCookies]
    <2>1. call' = [call EXCEPT ![c] = r]
      BY <1>2
    <2>2. LiveCookies \in SUBSET (Session \cup Device) /\ "sessions" \in Pc
      BY DEF LiveCookies, Pc
    <2> HIDE DEF q
    <2>3. /\ r \in CallRecord /\ r.pc = "sessions" /\ r.u = q.u /\ r.kind = q.kind /\ r.ch = q.ch
          /\ r.html = q.html /\ r.old = LiveCookies
      BY <1>1, <2>2 DEF CallRecord
    <2> HIDE DEF r
    <2>4. Fit(r) /\ Carries(q, r) /\ (Admitted(r) => Admitted(q))
      BY <1>1, <2>3 DEF Fit, Carries, HasWindow, HasCeremony, HasSigned, Admitted
    <2> QED BY <2>1, <2>3, <2>4 DEF Moves, q
  <1> QED BY <1>2, Leaving DEF WriteUser

\* No handler leaves the table of users a row that is no account, and none
\* brings an account back.
LEMMA UserWrites ==
    ASSUME Fitting, NEW c \in Call, NEW p \in Password,
           \/ UserUpdate(call[c].u) \/ UserUpdate([call[c].u EXCEPT !.enc = TRUE])
           \/ UserUpdate(Edited(call[c], p))
    PROVE  user' \in UserRow /\ Exists' = Exists
  <1> DEFINE u == call[c].u
  <1>1. u \in UserRow /\ u.st = "live" /\ user \in UserRow
    BY DEF Fitting, Fit, CallRecord
  <1>2. ASSUME NEW row \in UserRow, row.st = "live", UserUpdate(row)
        PROVE  user' \in UserRow /\ Exists' = Exists
    BY <1>1, <1>2 DEF UserUpdate, Exists
  <1>3. ASSUME NEW on \in BOOLEAN
        PROVE  /\ [u EXCEPT !.pwd = p, !.enc = TRUE] \in UserRow
               /\ [u EXCEPT !.pwd = p, !.enc = TRUE].st = "live"
               /\ [u EXCEPT !.enabled = on] \in UserRow
               /\ [u EXCEPT !.enabled = on].st = "live"
               /\ [u EXCEPT !.enc = TRUE] \in UserRow
               /\ [u EXCEPT !.enc = TRUE].st = "live"
    <2> HIDE DEF u
    <2> QED BY <1>1 DEF UserRow
  <1>4. Edited(call[c], p) \in UserRow /\ Edited(call[c], p).st = "live"
    BY <1>1, <1>3 DEF Edited
  <1> QED BY <1>1, <1>2, <1>3, <1>4

-----------------------------------------------------------------------------
(* The rows.                                                               *)

RowsTypeOK == /\ sess \in [Session -> SessionRow] /\ dev \in [Device -> DeviceRow]
              /\ ChallengeTypeOK

\* What no statement does to a session or a trusted browser.
SessionKept(s) ==
    /\ sess[s].st # "absent" =>
          /\ sess'[s].st # "absent" /\ sess'[s].created = sess[s].created
          /\ sess'[s].mode = sess[s].mode /\ sess'[s].via = sess[s].via
    /\ sess[s].st = "deleted" => sess'[s].st = "deleted"
DeviceKept(d) ==
    /\ dev[d].st # "absent" => dev'[d].st # "absent"
    /\ dev[d].st = "deleted" => dev'[d].st = "deleted"

\* What no step does to the rows: nothing comes alive for a deleted user.
SafeRows ==
    /\ sess' \in [Session -> SessionRow] /\ dev' \in [Device -> DeviceRow]
    /\ db' \in [Challenge -> Row]
    /\ \A s \in Session : SessionKept(s) /\ (sess'[s].st = "live" => sess[s].st = "live" \/ Exists)
    /\ \A d \in Device : DeviceKept(d) /\ (dev'[d].st = "live" => dev[d].st = "live" \/ Exists)
    /\ \A x \in Challenge : RowKept(x) /\ (db'[x].st = "live" => db[x].st = "live" \/ Exists)

\* Nor do most of them make a session or a passkey window.
QuietRows ==
    /\ SafeRows
    /\ \A s \in Session : sess'[s].via = sess[s].via
    /\ \A w \in Challenge : WindowRow(w)' => WindowRow(w)
    /\ ceremony' = ceremony /\ signed \subseteq signed'

SessionsSame == /\ sess' \in [Session -> SessionRow]
                /\ \A s \in Session : /\ SessionKept(s) /\ sess'[s].via = sess[s].via
                                      /\ sess'[s].st = "live" => sess[s].st = "live"
DevicesSame == /\ dev' \in [Device -> DeviceRow]
               /\ \A d \in Device : DeviceKept(d) /\ (dev'[d].st = "live" => dev[d].st = "live")
TableSame == /\ db' \in [Challenge -> Row]
             /\ \A x \in Challenge : /\ RowKept(x) /\ (WindowRow(x)' => WindowRow(x))
                                     /\ db'[x].st = "live" => db[x].st = "live"

LEMMA Unchanged ==
    ASSUME RowsTypeOK
    PROVE  /\ UNCHANGED sess => SessionsSame
           /\ UNCHANGED dev => DevicesSame
           /\ UNCHANGED db => TableSame
  BY DEF RowsTypeOK, SessionsSame, DevicesSame, TableSame, SessionKept, DeviceKept, RowKept,
         Spent, Claimable, Live, WindowRow, ChallengeTypeOK

LEMMA SameIsQuiet ==
    ASSUME RowsTypeOK, SessionsSame, DevicesSame, TableSame, ceremony' = ceremony,
           signed \subseteq signed'
    PROVE  QuietRows
  BY DEF QuietRows, SafeRows, SessionsSame, DevicesSame, TableSame

\* DELETE FROM sessions WHERE ...
LEMMA SessionsDeleted ==
    ASSUME RowsTypeOK, NEW s \in Session \cup {None},
           sess' \in {DeletedRows(sess), [sess EXCEPT ![s].st = "deleted"]}
    PROVE  SessionsSame /\ (sess' = DeletedRows(sess) => \A r \in Session : sess'[r].st # "live")
  <1>1. sess \in [Session -> SessionRow]
    BY DEF RowsTypeOK
  <1>2. CASE sess' = DeletedRows(sess)
    <2>1. ASSUME NEW r \in Session
          PROVE  /\ sess'[r] \in SessionRow /\ SessionKept(r) /\ sess'[r].via = sess[r].via
                 /\ sess'[r].st # "live"
      <3> DEFINE st == IF sess[r].st = "live" THEN "deleted" ELSE sess[r].st
                 q == [sess[r] EXCEPT !.st = st]
      <3>1. sess[r] \in SessionRow
        BY <1>1
      <3>2. sess'[r] = q
        BY <1>1, <1>2 DEF DeletedRows
      <3>3. st \in State /\ st # "live" /\ (st = sess[r].st \/ (sess[r].st = "live" /\ st = "deleted"))
        BY <3>1 DEF SessionRow, State
      <3> HIDE DEF st
      <3>4. /\ q \in SessionRow /\ q.st = st /\ q.via = sess[r].via
            /\ q.created = sess[r].created /\ q.mode = sess[r].mode
        BY <3>1, <3>3 DEF SessionRow
      <3> HIDE DEF q
      <3> QED BY <3>2, <3>3, <3>4 DEF SessionKept
    <2>2. sess' = [r \in Session |-> sess'[r]]
      BY <1>1, <1>2 DEF DeletedRows
    <2> QED BY <2>1, <2>2 DEF SessionsSame
  <1>3. CASE sess' = [sess EXCEPT ![s].st = "deleted"]
    <2> DEFINE q == [sess[s] EXCEPT !.st = "deleted"]
    <2>1. CASE s \in Session
      <3>1. /\ q \in SessionRow /\ q.st = "deleted" /\ q.via = sess[s].via
            /\ q.created = sess[s].created /\ q.mode = sess[s].mode
        BY <1>1, <2>1 DEF SessionRow, State
      <3>2. sess' = [sess EXCEPT ![s] = q]
        BY <1>3
      <3> HIDE DEF q
      <3>3. sess' \in [Session -> SessionRow] /\ sess'[s] = q /\ \A r \in Session \ {s} : sess'[r] = sess[r]
        BY <1>1, <2>1, <3>1, <3>2
      <3>4. \A r \in Session : /\ SessionKept(r) /\ sess'[r].via = sess[r].via
                               /\ sess'[r].st = "live" => sess[r].st = "live"
        BY <2>1, <3>1, <3>3 DEF SessionKept
      <3>5. sess' = DeletedRows(sess) => \A r \in Session : sess'[r].st # "live"
        BY <1>2, <3>3, <3>4 DEF SessionsSame
      <3> QED BY <3>3, <3>4, <3>5 DEF SessionsSame
    <2>2. CASE s \notin Session
      <3>1. sess' = sess
        BY <1>1, <1>3, <2>2
      <3> QED BY <1>2, <3>1, Unchanged
    <2> QED BY <2>1, <2>2
  <1> QED BY <1>2, <1>3

\* DELETE FROM trusted_devices WHERE ...
LEMMA DevicesDeleted ==
    ASSUME RowsTypeOK, NEW d \in Device,
           dev' \in {DeletedRows(dev),
                     [dev EXCEPT ![d].st = IF @ = "live" THEN "deleted" ELSE @]}
    PROVE  DevicesSame /\ (dev' = DeletedRows(dev) => \A e \in Device : dev'[e].st # "live")
  <1>1. dev \in [Device -> DeviceRow]
    BY DEF RowsTypeOK
  <1> DEFINE Gone(e) == [dev[e] EXCEPT !.st = IF dev[e].st = "live" THEN "deleted" ELSE dev[e].st]
  <1>2. ASSUME NEW e \in Device
        PROVE  /\ Gone(e) \in DeviceRow /\ Gone(e).st # "live"
               /\ Gone(e).st = dev[e].st \/ (dev[e].st = "live" /\ Gone(e).st = "deleted")
    BY <1>1 DEF DeviceRow, State
  <1>3. \A e \in Device : dev'[e] \in {dev[e], Gone(e)}
    BY <1>1 DEF DeletedRows
  <1>4. dev' = DeletedRows(dev) => \A e \in Device : dev'[e] = Gone(e)
    BY <1>1 DEF DeletedRows
  <1>5. dev' = [e \in Device |-> dev'[e]]
    BY <1>1 DEF DeletedRows
  <1> HIDE DEF Gone
  <1>6. dev' \in [Device -> DeviceRow]
    BY <1>1, <1>2, <1>3, <1>5
  <1> QED BY <1>2, <1>3, <1>4, <1>6 DEF DevicesSame, DeviceKept

\* The statements on challenges that open no row.
LEMMA TableKept ==
    ASSUME RowsTypeOK, NEW x \in Challenge, NEW s \in PushState,
           db' \in {DeletedRows(db), MarkUsed(x), SetPush(x, s)}
    PROVE  TableSame /\ (db' = DeletedRows(db) => \A y \in Challenge : db'[y].st # "live")
  <1>1. db \in [Challenge -> Row] /\ ChallengeTypeOK
    BY DEF RowsTypeOK, ChallengeTypeOK
  <1> DEFINE Gone(y) == [db[y] EXCEPT !.st = IF db[y].st = "live" THEN "deleted" ELSE db[y].st]
  <1>2. ASSUME NEW y \in Challenge
        PROVE  /\ Gone(y) \in Row /\ Gone(y).st # "live"
               /\ Gone(y).purpose = db[y].purpose /\ Gone(y).channel = db[y].channel
               /\ Gone(y).st = db[y].st \/ (db[y].st = "live" /\ Gone(y).st = "deleted")
    <2> DEFINE st == IF db[y].st = "live" THEN "deleted" ELSE db[y].st
    <2>1. db[y] \in Row
      BY <1>1
    <2>2. st \in {"absent", "deleted"} /\ (st = db[y].st \/ (db[y].st = "live" /\ st = "deleted"))
      BY <2>1 DEF Row
    <2> HIDE DEF st
    <2>3. /\ [db[y] EXCEPT !.st = st] \in Row
          /\ [db[y] EXCEPT !.st = st].st = st
          /\ [db[y] EXCEPT !.st = st].purpose = db[y].purpose
          /\ [db[y] EXCEPT !.st = st].channel = db[y].channel
      BY <2>1, <2>2 DEF Row
    <2> QED BY <2>2, <2>3 DEF st
  <1>3. CASE db' = DeletedRows(db)
    <2>1. \A y \in Challenge : db'[y] = Gone(y)
      BY <1>1, <1>3 DEF DeletedRows
    <2>2. db' = [y \in Challenge |-> db'[y]]
      BY <1>1, <1>3 DEF DeletedRows
    <2> HIDE DEF Gone
    <2>3. db' \in [Challenge -> Row]
      BY <1>2, <2>1, <2>2
    <2> QED BY <1>2, <2>1, <2>3
            DEF TableSame, RowKept, Spent, Claimable, Live, WindowRow
  <1>4. CASE db' \in {MarkUsed(x), SetPush(x, s)}
    <2>1. /\ db' \in [Challenge -> Row]
          /\ \A y \in Challenge : /\ RowKept(y) /\ db'[y].purpose = db[y].purpose
                                  /\ db'[y].st # "absent" => db[y].st # "absent"
      BY <1>1, <1>4, UpdateKeeps
    <2>2. \A y \in Challenge : db'[y].st = db[y].st
      BY <1>1, <1>4 DEF MarkUsed, SetPush, Row
    <2>3. db' = DeletedRows(db) => \A y \in Challenge : db'[y].st # "live"
      BY <1>3
    <2> QED BY <2>1, <2>2, <2>3 DEF TableSame, WindowRow
  <1> QED BY <1>3, <1>4

-----------------------------------------------------------------------------
(* What the steps of a request do to the rows.                             *)

\* An INSERT that fills one row: janitor and all, nothing else is touched
\* but to be deleted, and no row revives.
LEMMA CreateIsSafe ==
    ASSUME RowsTypeOK, NEW x \in Challenge, NEW p \in Purpose, NEW k \in Code \cup {NoCode},
           NEW ttl \in Nat, Exists, ChallengeCreate(x, p, "webauthn", "null", k, 1, ttl)
    PROVE  /\ db' \in [Challenge -> Row]
           /\ \A y \in Challenge : RowKept(y)
           /\ db[x].st = "absent" /\ db'[x].st = "live" /\ ~db'[x].used /\ db'[x].purpose = p
           /\ \A y \in Challenge \ {x} : WindowRow(y)' => WindowRow(y)
  <1>1. ChallengeTypeOK /\ "webauthn" \in Channel /\ "null" \in PushState /\ 1 \in Nat
    BY DEF RowsTypeOK, Channel, PushState
  <1> QED BY <1>1, CreateKeeps DEF WindowRow

LEMMA SavedCeremony ==
    ASSUME RowsTypeOK, NEW c \in Call, NEW x \in Challenge, SaveCeremony(c, x)
    PROVE  QuietRows
  <1>1. UNCHANGED <<sess, dev, signed, ceremony>>
    BY DEF SaveCeremony
  <1>2. CASE Exists /\ ChallengeCreate(x, "webauthn_session", "webauthn", "null", Handle, 1, CeremonyTTL)
    <2>1. Handle \in Code \cup {NoCode} /\ "webauthn_session" \in Purpose /\ CeremonyTTL \in Nat
      BY WebSessionAssumption DEF Handle, Purpose
    <2>2. /\ db' \in [Challenge -> Row]
          /\ \A y \in Challenge : RowKept(y)
          /\ \A y \in Challenge : WindowRow(y)' => WindowRow(y)
      BY <1>2, <2>1, CreateIsSafe DEF WindowRow
    <2> QED BY <1>1, <1>2, <2>2, Unchanged DEF QuietRows, SafeRows, SessionsSame, DevicesSame
  <1>3. CASE UNCHANGED db
    BY <1>1, <1>3, Unchanged, SameIsQuiet
  <1> QED BY <1>2, <1>3 DEF SaveCeremony

LEMMA QuietSteps ==
    ASSUME RowsTypeOK, Fitting, NEW c \in Call,
           \/ Arrive(c)
           \/ VerifyLocal(c) \/ VerifyLdap(c) \/ LdapLock(c) \/ LdapLockWrite(c)
           \/ LdapSync(c) \/ LdapSyncWrite(c) \/ StorePasswordEnc(c)
           \/ LookForWindow(c) \/ Lookup(c) \/ Factor(c) \/ SelectWindow(c) \/ MarkWindow(c)
           \/ CheckDevice(c) \/ CheckMethods(c)
           \/ \E d \in Device : TrustDevice(c, d) \/ ForgetDevice(c, d)
           \/ ReadKeys(c) \/ ClaimCeremony(c) \/ VerifySignature(c) \/ SignIn(c) \/ ApproveCeremony(c)
           \/ \E x \in Challenge : SaveCeremony(c, x)
           \/ LoadUser(c) \/ Logout(c) \/ DeleteKey(c)
           \/ \E p \in Password : WriteUser(c, p)
           \/ RevokeSessions(c) \/ RevokeDevices(c)
    PROVE  QuietRows
  <1>1. ASSUME UNCHANGED <<sess, dev, db, ceremony>>, signed \subseteq signed'
        PROVE  QuietRows
    BY <1>1, Unchanged, SameIsQuiet
  <1>2. call[c].pc \in {"mark", "claim", "approve"} => call[c].ch \in Challenge
    BY DEF Fitting, Fit, HasCeremony
  <1>3. call[c].s \in Session \cup {None}
    BY DEF Fitting, CallRecord
  <1>4. CASE \/ Arrive(c)
             \/ VerifyLocal(c) \/ VerifyLdap(c) \/ LdapLock(c) \/ LdapLockWrite(c)
             \/ LdapSync(c) \/ LdapSyncWrite(c) \/ StorePasswordEnc(c)
    BY <1>1, <1>4 DEF Arrive, FirstStep, SecondStep, BeginPasskey, Cabinet, PushClaim, ReadCeremony,
                      Patch, VerifyLocal, VerifyLdap, LdapLock, LdapLockWrite, LdapSync,
                      LdapSyncWrite, StorePasswordEnc, rowVars, passkeyVars
  <1>5. CASE \/ LookForWindow(c) \/ Lookup(c) \/ Factor(c) \/ SelectWindow(c)
             \/ CheckDevice(c) \/ CheckMethods(c) \/ ReadKeys(c) \/ VerifySignature(c) \/ SignIn(c)
             \/ LoadUser(c) \/ DeleteKey(c) \/ \E p \in Password : WriteUser(c, p)
    BY <1>1, <1>5 DEF LookForWindow, Lookup, Factor, SelectWindow, CheckDevice, CheckMethods,
                      ReadKeys, VerifySignature, SignIn, LoadUser, DeleteKey, WriteUser,
                      rowVars, passkeyVars
  <1>6. CASE MarkWindow(c) \/ ClaimCeremony(c) \/ ApproveCeremony(c)
    <2>1. UNCHANGED <<sess, dev, ceremony, signed>> /\ call[c].ch \in Challenge
      BY <1>2, <1>6 DEF MarkWindow, ClaimCeremony, ApproveCeremony, Here
    <2>2. "approved" \in PushState
      BY DEF PushState
    <2>3. db' = MarkUsed(call[c].ch) \/ db' = SetPush(call[c].ch, "approved")
      BY <1>6 DEF MarkWindow, ClaimCeremony, ApproveCeremony
    <2>4. TableSame
      BY <2>1, <2>2, <2>3, TableKept
    <2> QED BY <2>1, <2>4, Unchanged, SameIsQuiet
  <1>7. CASE Logout(c) \/ RevokeSessions(c)
    <2>1. UNCHANGED <<dev, db, ceremony, signed>>
      BY <1>7 DEF Logout, RevokeSessions, passkeyVars
    <2>2. SessionsSame
      BY <1>3, <1>7, SessionsDeleted DEF Logout, RevokeSessions
    <2> QED BY <2>1, <2>2, Unchanged, SameIsQuiet
  <1>8. CASE RevokeDevices(c) \/ \E d \in Device : ForgetDevice(c, d)
    <2>1. UNCHANGED <<sess, db, ceremony, signed>>
      BY <1>8 DEF ForgetDevice, RevokeDevices, passkeyVars
    <2>2. CASE Device = {}
      BY <1>8, <2>1, <2>2, Unchanged, SameIsQuiet DEF RevokeDevices, DeletedRows, RowsTypeOK, DevicesSame
    <2>3. CASE Device # {}
      <3>1. DevicesSame
        BY <1>8, <2>3, DevicesDeleted DEF ForgetDevice, RevokeDevices
      <3> QED BY <2>1, <3>1, Unchanged, SameIsQuiet
    <2> QED BY <2>2, <2>3
  <1>9. ASSUME NEW d \in Device, TrustDevice(c, d)
        PROVE  QuietRows
    <2>1. UNCHANGED <<sess, db, ceremony, signed>> /\ dev[d].st = "absent"
          /\ dev \in [Device -> DeviceRow]
      BY <1>9 DEF TrustDevice, passkeyVars, RowsTypeOK
    <2>2. CASE Exists
      <3> DEFINE q == [st |-> "live", expires |-> now + DeviceTTL]
      <3>1. q \in DeviceRow /\ q.st = "live"
        BY WebSessionAssumption DEF DeviceRow, State, RowsTypeOK, ChallengeTypeOK
      <3>2. dev' = [dev EXCEPT ![d] = q]
        BY <1>9, <2>2 DEF TrustDevice
      <3> HIDE DEF q
      <3>3. dev' \in [Device -> DeviceRow] /\ \A e \in Device : DeviceKept(e)
        BY <2>1, <3>1, <3>2 DEF DeviceKept
      <3> QED BY <2>1, <2>2, <3>3, Unchanged DEF QuietRows, SafeRows, SessionsSame, TableSame
    <2>3. CASE ~Exists
      BY <1>1, <1>9, <2>1, <2>3 DEF TrustDevice
    <2> QED BY <2>2, <2>3
  <1>10. CASE \E x \in Challenge : SaveCeremony(c, x)
    BY <1>10, SavedCeremony
  <1> QED BY <1>4, <1>5, <1>6, <1>7, <1>8, <1>9, <1>10

LEMMA CreatedSession ==
    ASSUME RowsTypeOK, Fitting, NEW c \in Call, NEW s \in Session, CreateSession(c, s)
    PROVE  /\ SafeRows
           /\ UNCHANGED <<dev, db, signed, ceremony>>
           /\ \/ QuietRows
              \/ /\ sess[s].st = "absent" /\ sess'[s].via = call[c].ch
                 /\ \A r \in Session \ {s} : sess'[r] = sess[r]
                 /\ sess'[s].st # "absent"
  <1>1. /\ UNCHANGED <<dev, db, signed, ceremony>>
        /\ sess[s].st = "absent" /\ sess \in [Session -> SessionRow]
    BY DEF CreateSession, passkeyVars, RowsTypeOK
  <1>2. CASE Exists
    <2> DEFINE q == [st |-> "live", created |-> now, expires |-> now + SessionTTL,
                     mode |-> call[c].mode, via |-> call[c].ch]
    <2>1. q \in SessionRow /\ q.st = "live" /\ q.via = call[c].ch
      BY WebSessionAssumption
         DEF SessionRow, State, RowsTypeOK, ChallengeTypeOK, Fitting, CallRecord
    <2>2. sess' = [sess EXCEPT ![s] = q]
      BY <1>2 DEF CreateSession
    <2> HIDE DEF q
    <2>3. /\ sess' \in [Session -> SessionRow] /\ sess'[s] = q
          /\ \A r \in Session \ {s} : sess'[r] = sess[r]
      BY <1>1, <2>1, <2>2
    <2>4. \A r \in Session : SessionKept(r)
      BY <1>1, <2>3 DEF SessionKept
    <2>5. SafeRows
      BY <1>1, <1>2, <2>3, <2>4, Unchanged DEF SafeRows, DevicesSame, TableSame
    <2> QED BY <1>1, <2>1, <2>3, <2>5
  <1>3. CASE ~Exists
    <2>1. QuietRows
      BY <1>1, <1>3, Unchanged, SameIsQuiet DEF CreateSession
    <2> QED BY <1>1, <2>1 DEF QuietRows
  <1> QED BY <1>2, <1>3

LEMMA OpenedWindow ==
    ASSUME RowsTypeOK, NEW c \in Call, NEW w \in Challenge, OpenWindow(c, w)
    PROVE  /\ SafeRows
           /\ UNCHANGED <<sess, dev, signed>>
           /\ \/ QuietRows
              \/ /\ db[w].st = "absent" /\ ceremony' = [ceremony EXCEPT ![w] = call[c].ch]
                 /\ \A v \in Challenge \ {w} : WindowRow(v)' => WindowRow(v)
  <1>1. UNCHANGED <<sess, dev, signed>>
    BY DEF OpenWindow
  <1>2. CASE Exists /\ ChallengeCreate(w, "webauthn_web_pending", "webauthn", "null", NoCode, 1, WindowTTL)
    <2>1. "webauthn_web_pending" \in Purpose /\ WindowTTL \in Nat
      BY WebSessionAssumption DEF Purpose
    <2>2. /\ db' \in [Challenge -> Row] /\ \A y \in Challenge : RowKept(y)
          /\ db[w].st = "absent"
          /\ \A v \in Challenge \ {w} : WindowRow(v)' => WindowRow(v)
      BY <1>2, <2>1, CreateIsSafe
    <2>3. SafeRows
      BY <1>1, <1>2, <2>2, Unchanged DEF SafeRows, SessionsSame, DevicesSame
    <2>4. ceremony' = [ceremony EXCEPT ![w] = call[c].ch]
      <3>1. CASE UNCHANGED <<db, ceremony>>
        <4>1. db'[w].st = "live"
          BY <1>2, <2>1, CreateIsSafe
        <4> QED BY <2>2, <3>1, <4>1
      <3> QED BY <3>1 DEF OpenWindow
    <2> QED BY <1>1, <2>2, <2>3, <2>4
  <1>3. CASE UNCHANGED <<db, ceremony>>
    <2>1. QuietRows
      BY <1>1, <1>3, Unchanged, SameIsQuiet
    <2> QED BY <1>1, <2>1 DEF QuietRows
  <1> QED BY <1>2, <1>3 DEF OpenWindow

-----------------------------------------------------------------------------
(* A ceremony opens one window, and a window one session.                  *)

WindowRows == {w \in Challenge : WindowRow(w)}
SpentRows == {x \in Challenge : Spent(x)}

\* A window comes from a ceremony whose signature was verified, and whose
\* row is spent.
WindowsSigned ==
    \A w \in WindowRows : ceremony[w] \in signed /\ ceremony[w] \in SpentRows

OneWindowEach ==
    \A v, w \in WindowRows : ceremony[v] = ceremony[w] => v = w

SessionsFromWindows ==
    \A s \in Session :
        /\ sess[s].st = "absent" => sess[s].via = None
        /\ sess[s].via # None => sess[s].via \in WindowRows /\ sess[s].via \in SpentRows

\* What a request holds is spent, and was not yet made anything of.
Holding ==
    \A c \in Call :
        LET r == call[c]
        IN /\ r.pc = "mark" => r.ch \in WindowRows
           /\ HasWindow(r) => /\ r.ch \in WindowRows /\ r.ch \in SpentRows
                              /\ \A s \in Session : sess[s].via # r.ch
           /\ HasCeremony(r) => /\ r.ch \in SpentRows
                                /\ \A w \in WindowRows : ceremony[w] # r.ch
           /\ HasSigned(r) => r.ch \in signed

\* No two requests hold one row.
HoldersApart ==
    \A c, d \in Call :
        /\ c # d
        /\ \/ HasWindow(call[c]) /\ HasWindow(call[d])
           \/ HasCeremony(call[c]) /\ HasCeremony(call[d])
        => call[c].ch # call[d].ch

PasskeyInv == WindowsSigned /\ OneWindowEach /\ SessionsFromWindows /\ Holding /\ HoldersApart

HistoryTypeOK == signed \subseteq Challenge /\ ceremony \in [Challenge -> Challenge \cup {None}]

\* The requests go on without taking hold of anything.
Carried ==
    /\ call' \in [Call -> CallRecord]
    /\ \A c \in Call : Fit(call'[c]) /\ (call'[c] = call[c] \/ Carries(call[c], call'[c]))

LEMMA PlainIsCarried ==
    ASSUME Fitting, NEW c \in Call, PlainMove(c) \/ UNCHANGED call
    PROVE  Carried
  BY DEF Fitting, PlainMove, Moves, Carried

LEMMA KeptSets ==
    ASSUME RowsTypeOK, \A x \in Challenge : RowKept(x)
    PROVE  /\ SpentRows \subseteq SpentRows' /\ WindowRows \subseteq WindowRows'
           /\ QuietRows => WindowRows' = WindowRows
  BY DEF RowKept, Spent, WindowRow, SpentRows, WindowRows, QuietRows

\* The rows of the invariant, when no window and no session is made.
LEMMA RowsOfPasskeys ==
    ASSUME RowsTypeOK, HistoryTypeOK, PasskeyInv, QuietRows
    PROVE  WindowsSigned' /\ OneWindowEach' /\ SessionsFromWindows'
  <1>1. /\ SpentRows \subseteq SpentRows' /\ WindowRows' = WindowRows
        /\ \A s \in Session : SessionKept(s) /\ sess'[s].via = sess[s].via
        /\ ceremony' = ceremony /\ signed \subseteq signed'
    BY KeptSets DEF QuietRows, SafeRows
  <1>2. WindowsSigned' /\ OneWindowEach'
    BY <1>1 DEF PasskeyInv, WindowsSigned, OneWindowEach
  <1>3. SessionsFromWindows'
    BY <1>1 DEF PasskeyInv, SessionsFromWindows, SessionKept
  <1> QED BY <1>2, <1>3

LEMMA PasskeyCalm ==
    ASSUME RowsTypeOK, Fitting, HistoryTypeOK, PasskeyInv, QuietRows, Carried
    PROVE  PasskeyInv'
  <1>1. WindowsSigned' /\ OneWindowEach' /\ SessionsFromWindows'
    BY RowsOfPasskeys
  <1>2. /\ SpentRows \subseteq SpentRows' /\ WindowRows' = WindowRows
        /\ \A s \in Session : sess'[s].via = sess[s].via
        /\ ceremony' = ceremony /\ signed \subseteq signed'
    BY KeptSets DEF QuietRows, SafeRows
  <1>3. Holding'
    <2> SUFFICES ASSUME NEW c \in Call
                 PROVE  LET r == call'[c]
                        IN /\ r.pc = "mark" => r.ch \in WindowRows'
                           /\ HasWindow(r) => /\ r.ch \in WindowRows' /\ r.ch \in SpentRows'
                                              /\ \A s \in Session : sess'[s].via # r.ch
                           /\ HasCeremony(r) => /\ r.ch \in SpentRows'
                                                /\ \A w \in WindowRows' : ceremony'[w] # r.ch
                           /\ HasSigned(r) => r.ch \in signed'
      BY DEF Holding, HasWindow, HasCeremony, HasSigned
    <2> DEFINE q == call[c]
               r == call'[c]
    <2>1. r = q \/ Carries(q, r)
      BY DEF Carried
    <2>2. /\ q.pc = "mark" => q.ch \in WindowRows
          /\ HasWindow(q) => /\ q.ch \in WindowRows /\ q.ch \in SpentRows
                             /\ \A s \in Session : sess[s].via # q.ch
          /\ HasCeremony(q) => /\ q.ch \in SpentRows
                               /\ \A w \in WindowRows : ceremony[w] # q.ch
          /\ HasSigned(q) => q.ch \in signed
      BY DEF PasskeyInv, Holding
    <2>3. /\ r.pc = "mark" => q.pc = "mark" /\ r.ch = q.ch
          /\ HasWindow(r) => HasWindow(q) /\ r.ch = q.ch
          /\ HasCeremony(r) => HasCeremony(q) /\ r.ch = q.ch
          /\ HasSigned(r) => HasSigned(q) /\ r.ch = q.ch
      BY <2>1 DEF Carries, HasSigned, HasCeremony
    <2> HIDE DEF q, r
    <2> QED BY <1>2, <2>2, <2>3 DEF r
  <1>4. HoldersApart'
    <2>1. \A c \in Call : /\ HasWindow(call'[c]) => HasWindow(call[c]) /\ call'[c].ch = call[c].ch
                          /\ HasCeremony(call'[c]) => HasCeremony(call[c]) /\ call'[c].ch = call[c].ch
      BY DEF Carried, Carries
    <2> QED BY <2>1 DEF PasskeyInv, HoldersApart, HasWindow, HasCeremony
  <1> QED BY <1>1, <1>3, <1>4 DEF PasskeyInv

\* Request c takes hold of a row that nobody holds and nothing came from.
LEMMA PasskeyGrab ==
    ASSUME RowsTypeOK, Fitting, HistoryTypeOK, PasskeyInv, QuietRows,
           NEW c \in Call, NEW r \in CallRecord, call' = [call EXCEPT ![c] = r],
           r.pc = "mark" => r.ch \in WindowRows,
           HasWindow(r) => /\ r.ch \in WindowRows /\ r.ch \in SpentRows'
                           /\ \A s \in Session : sess[s].via # r.ch
                           /\ \A d \in Call \ {c} : HasWindow(call[d]) => call[d].ch # r.ch,
           HasCeremony(r) => /\ r.ch \in SpentRows' /\ \A w \in WindowRows : ceremony[w] # r.ch
                             /\ \A d \in Call \ {c} : HasCeremony(call[d]) => call[d].ch # r.ch,
           HasSigned(r) => r.ch \in signed'
    PROVE  PasskeyInv'
  <1>1. WindowsSigned' /\ OneWindowEach' /\ SessionsFromWindows'
    BY RowsOfPasskeys
  <1>2. /\ SpentRows \subseteq SpentRows' /\ WindowRows' = WindowRows
        /\ \A s \in Session : sess'[s].via = sess[s].via
        /\ ceremony' = ceremony /\ signed \subseteq signed'
    BY KeptSets DEF QuietRows, SafeRows
  <1>3. call'[c] = r /\ \A d \in Call \ {c} : call'[d] = call[d]
    BY DEF Fitting
  <1>4. Holding'
    <2>1. \A d \in Call \ {c} :
            /\ call[d].pc = "mark" => call[d].ch \in WindowRows'
            /\ HasWindow(call[d]) => /\ call[d].ch \in WindowRows' /\ call[d].ch \in SpentRows'
                                     /\ \A s \in Session : sess'[s].via # call[d].ch
            /\ HasCeremony(call[d]) => /\ call[d].ch \in SpentRows'
                                       /\ \A w \in WindowRows' : ceremony'[w] # call[d].ch
            /\ HasSigned(call[d]) => call[d].ch \in signed'
      BY <1>2 DEF PasskeyInv, Holding
    <2>2. /\ r.pc = "mark" => r.ch \in WindowRows'
          /\ HasWindow(r) => /\ r.ch \in WindowRows' /\ r.ch \in SpentRows'
                             /\ \A s \in Session : sess'[s].via # r.ch
          /\ HasCeremony(r) => /\ r.ch \in SpentRows' /\ \A w \in WindowRows' : ceremony'[w] # r.ch
          /\ HasSigned(r) => r.ch \in signed'
      BY <1>2
    <2> SUFFICES ASSUME NEW d \in Call
                 PROVE  LET q == call'[d]
                        IN /\ q.pc = "mark" => q.ch \in WindowRows'
                           /\ HasWindow(q) => /\ q.ch \in WindowRows' /\ q.ch \in SpentRows'
                                              /\ \A s \in Session : sess'[s].via # q.ch
                           /\ HasCeremony(q) => /\ q.ch \in SpentRows'
                                                /\ \A w \in WindowRows' : ceremony'[w] # q.ch
                           /\ HasSigned(q) => q.ch \in signed'
      BY DEF Holding, HasWindow, HasCeremony, HasSigned
    <2>3. CASE d = c
      BY <1>3, <2>2, <2>3
    <2>4. CASE d # c
      BY <1>3, <2>1, <2>4
    <2> QED BY <2>3, <2>4
  <1>5. HoldersApart'
    <2> SUFFICES ASSUME NEW d \in Call, NEW e \in Call, d # e,
                        \/ HasWindow(call'[d]) /\ HasWindow(call'[e])
                        \/ HasCeremony(call'[d]) /\ HasCeremony(call'[e])
                 PROVE  call'[d].ch # call'[e].ch
      BY DEF HoldersApart, HasWindow, HasCeremony
    <2>1. CASE d # c /\ e # c
      BY <1>3, <2>1 DEF PasskeyInv, HoldersApart
    <2>2. CASE d = c \/ e = c
      BY <1>3, <2>2
    <2> QED BY <2>1, <2>2
  <1> QED BY <1>1, <1>4, <1>5 DEF PasskeyInv

\* The four moves that do: a window is selected, then claimed; a ceremony is
\* claimed, then signed.
LEMMA PasskeyHolds ==
    ASSUME RowsTypeOK, Fitting, HistoryTypeOK, PasskeyInv, NEW c \in Call,
           SelectWindow(c) \/ MarkWindow(c) \/ ClaimCeremony(c) \/ VerifySignature(c)
    PROVE  PasskeyInv'
  <1> DEFINE q == call[c]
  <1>1. QuietRows
    BY QuietSteps
  <1>2. CASE PlainMove(c)
    BY <1>1, <1>2, PasskeyCalm, PlainIsCarried
  <1>3. CASE SelectWindow(c)
    <2>1. ASSUME NEW r \in CallRecord, Moves(c, r), r.pc = "mark", WindowRow(r.ch)
          PROVE  PasskeyInv'
      <3>1. r.ch \in WindowRows /\ ~HasWindow(r) /\ ~HasCeremony(r) /\ ~HasSigned(r)
        BY <2>1 DEF Moves, Fit, WindowRows, HasWindow, HasCeremony, HasSigned
      <3> QED BY <1>1, <2>1, <3>1, PasskeyGrab DEF Moves
    <2> QED BY <1>2, <1>3, <2>1, Selecting DEF CalmMove, PlainMove
  \* The claim of a row that was not spent spends it.
  <1>4. ASSUME q.pc \in {"mark", "claim"}, db' = MarkUsed(q.ch), Claimable(q.ch)
        PROVE  /\ q.ch \in Challenge /\ q.ch \notin SpentRows /\ q.ch \in SpentRows'
               /\ \A w \in WindowRows : ceremony[w] # q.ch
               /\ \A s \in Session : sess[s].via = q.ch => q.ch = None
               /\ \A d \in Call : HasWindow(call[d]) \/ HasCeremony(call[d]) => call[d].ch # q.ch
    <2>1. q.ch \in Challenge
      BY <1>4 DEF Fitting, Fit
    <2>2. q.ch \notin SpentRows
      BY <1>4 DEF SpentRows, Spent
    <2>3. q.ch \in SpentRows'
      <3> DEFINE x == q.ch
                 row == [db[x] EXCEPT !.used = TRUE]
      <3>1. row.used /\ row.st = "live"
        BY <1>4, <2>1 DEF Claimable, Live, RowsTypeOK, ChallengeTypeOK, Row
      <3>2. db'[x] = row
        BY <1>4, <2>1 DEF MarkUsed, RowsTypeOK, ChallengeTypeOK
      <3> QED
        BY <2>1, <3>1, <3>2 DEF SpentRows, Spent, Claimable, Live
    <2> QED BY <2>1, <2>2, <2>3 DEF PasskeyInv, WindowsSigned, SessionsFromWindows, Holding
  <1>5. CASE MarkWindow(c)
    <2>1. CASE Claimable(q.ch) /\ Goto(c, "verify")
      <3>1. q.pc = "mark" /\ db' = MarkUsed(q.ch) /\ "verify" \in Pc
        BY <1>5 DEF MarkWindow, Here, Pc
      <3>2. PICK r \in CallRecord : Moves(c, r) /\ r.pc = "verify" /\ r.ch = q.ch
        BY <2>1, <3>1, HoldingGoto
      <3>3. q.ch \in WindowRows /\ q.ch # None
        BY <3>1, WebSessionAssumption DEF PasskeyInv, Holding, Fitting, Fit
      <3>4. ~HasCeremony(r) /\ ~HasSigned(r)
        BY <3>2 DEF HasCeremony, HasSigned
      <3> QED BY <1>1, <1>4, <2>1, <3>1, <3>2, <3>3, <3>4, PasskeyGrab DEF Moves
    <2> QED BY <1>2, <1>5, <2>1, Refusing DEF MarkWindow, CalmMove, PlainMove
  <1>6. CASE ClaimCeremony(c)
    <2>1. CASE Claimable(q.ch) /\ Goto(c, "assert")
      <3>1. q.pc = "claim" /\ db' = MarkUsed(q.ch) /\ "assert" \in Pc
        BY <1>6 DEF ClaimCeremony, Here, Pc
      <3>2. PICK r \in CallRecord : Moves(c, r) /\ r.pc = "assert" /\ r.ch = q.ch
        BY <2>1, <3>1, HoldingGoto
      <3>3. ~HasWindow(r) /\ ~HasSigned(r)
        BY <3>2 DEF HasWindow, HasSigned
      <3> QED BY <1>1, <1>4, <2>1, <3>1, <3>2, <3>3, PasskeyGrab DEF Moves
    <2> QED BY <1>2, <1>6, <2>1, Leaving DEF ClaimCeremony, CalmMove, PlainMove
  <1>7. CASE VerifySignature(c)
    <2>1. CASE signed' = signed \cup {q.ch} /\ Goto(c, "signin")
      <3>1. q.pc = "assert" /\ "signin" \in Pc /\ HasCeremony(q) /\ UNCHANGED db
        BY <1>7 DEF VerifySignature, Here, Pc, HasCeremony
      <3>2. PICK r \in CallRecord : Moves(c, r) /\ r.pc = "signin" /\ r.ch = q.ch
        BY <2>1, <3>1, HoldingGoto
      <3>3. ~HasWindow(r) /\ r.ch \in signed'
        BY <2>1, <3>2 DEF HasWindow
      <3>4. /\ r.ch \in SpentRows /\ \A w \in WindowRows : ceremony[w] # r.ch
            /\ \A d \in Call \ {c} : HasCeremony(call[d]) => call[d].ch # r.ch
        BY <3>1, <3>2 DEF PasskeyInv, Holding, HoldersApart
      <3>5. SpentRows \subseteq SpentRows'
        BY <1>1, KeptSets DEF QuietRows, SafeRows
      <3> QED BY <1>1, <3>2, <3>3, <3>4, <3>5, PasskeyGrab DEF Moves
    <2> QED BY <1>2, <1>7, <2>1, Leaving DEF VerifySignature, CalmMove, PlainMove
  <1> QED BY <1>3, <1>5, <1>6, <1>7

LEMMA PasskeyCreates ==
    ASSUME RowsTypeOK, Fitting, HistoryTypeOK, PasskeyInv,
           NEW c \in Call, NEW s \in Session, CreateSession(c, s)
    PROVE  PasskeyInv'
  <1> DEFINE q == call[c]
             w == call[c].ch
  <1>1. CASE QuietRows
    BY <1>1, PasskeyCalm, PlainIsCarried, CalmLogin DEF CalmMove, PlainMove
  <1>2. CASE /\ sess[s].st = "absent" /\ sess'[s].via = w /\ sess'[s].st # "absent"
             /\ \A r \in Session \ {s} : sess'[r] = sess[r]
    <2>1. /\ call' \in [Call -> CallRecord] /\ \A d \in Call \ {c} : call'[d] = call[d]
          /\ call'[c].pc \in {"trust", "idle"} /\ q.pc = "create"
      <3>1. PICK r \in CallRecord : call' = [call EXCEPT ![c] = r]
        BY CalmLogin DEF CalmMove, Moves
      <3>2. CASE Goto(c, "trust")
        <4>1. "trust" \in Pc
          BY DEF Pc
        <4>2. call'[c].pc = "trust"
          BY <3>2, <4>1, Going DEF Fitting
        <4> QED BY <3>1, <4>2 DEF CreateSession, Here, Fitting
      <3>3. CASE Leave(c)
        BY <3>1, <3>3, IdleFits DEF CreateSession, Here, Leave, Fitting
      <3> QED BY <3>2, <3>3 DEF CreateSession
    <2>2. ~HasWindow(call'[c]) /\ ~HasCeremony(call'[c]) /\ ~HasSigned(call'[c])
      BY <2>1 DEF HasWindow, HasCeremony, HasSigned
    <2>3. UNCHANGED <<db, signed, ceremony>> /\ WindowRows' = WindowRows /\ SpentRows' = SpentRows
      BY DEF CreateSession, passkeyVars, WindowRows, WindowRow, SpentRows, Spent, Claimable, Live
    <2>4. w # None => /\ w \in WindowRows /\ w \in SpentRows
                      /\ \A d \in Call \ {c} : HasWindow(call[d]) => call[d].ch # w
      BY <2>1 DEF PasskeyInv, Holding, HoldersApart, HasWindow
    <2>5. WindowsSigned' /\ OneWindowEach'
      BY <2>3 DEF PasskeyInv, WindowsSigned, OneWindowEach
    <2>6. SessionsFromWindows'
      BY <1>2, <2>3, <2>4 DEF PasskeyInv, SessionsFromWindows
    <2>7. ASSUME NEW d \in Call \ {c}
          PROVE  /\ call[d].pc = "mark" => call[d].ch \in WindowRows'
                 /\ HasWindow(call[d]) => /\ call[d].ch \in WindowRows' /\ call[d].ch \in SpentRows'
                                          /\ \A r \in Session : sess'[r].via # call[d].ch
                 /\ HasCeremony(call[d]) => /\ call[d].ch \in SpentRows'
                                            /\ \A v \in WindowRows' : ceremony'[v] # call[d].ch
                 /\ HasSigned(call[d]) => call[d].ch \in signed'
      <3>1. HasWindow(call[d]) => /\ \A r \in Session : sess[r].via # call[d].ch
                                  /\ call[d].ch # None /\ call[d].ch # w
        BY <2>4 DEF PasskeyInv, Holding, HasWindow
      <3>2. HasWindow(call[d]) => \A r \in Session : sess'[r].via # call[d].ch
        BY <1>2, <3>1
      <3> QED BY <2>3, <3>2 DEF PasskeyInv, Holding
    <2>8. Holding'
      <3> SUFFICES ASSUME NEW d \in Call
                   PROVE  LET r == call'[d]
                          IN /\ r.pc = "mark" => r.ch \in WindowRows'
                             /\ HasWindow(r) => /\ r.ch \in WindowRows' /\ r.ch \in SpentRows'
                                                /\ \A x \in Session : sess'[x].via # r.ch
                             /\ HasCeremony(r) => /\ r.ch \in SpentRows'
                                                  /\ \A v \in WindowRows' : ceremony'[v] # r.ch
                             /\ HasSigned(r) => r.ch \in signed'
        BY DEF Holding, HasWindow, HasCeremony, HasSigned
      <3>1. CASE d = c
        BY <2>1, <2>2, <3>1
      <3>2. CASE d # c
        BY <2>1, <2>7, <3>2
      <3> QED BY <3>1, <3>2
    <2>9. HoldersApart'
      BY <2>1, <2>2 DEF PasskeyInv, HoldersApart, HasWindow, HasCeremony
    <2> QED BY <2>5, <2>6, <2>8, <2>9 DEF PasskeyInv
  <1> QED BY <1>1, <1>2, CreatedSession

LEMMA PasskeyOpens ==
    ASSUME RowsTypeOK, Fitting, HistoryTypeOK, PasskeyInv,
           NEW c \in Call, NEW w \in Challenge, OpenWindow(c, w)
    PROVE  PasskeyInv'
  <1> DEFINE x == call[c].ch
  <1>1. CASE QuietRows
    BY <1>1, PasskeyCalm, PlainIsCarried, CalmCabinet DEF CalmMove, PlainMove
  <1>2. CASE /\ db[w].st = "absent" /\ ceremony' = [ceremony EXCEPT ![w] = x]
             /\ \A v \in Challenge \ {w} : WindowRow(v)' => WindowRow(v)
    <2>1. /\ call' \in [Call -> CallRecord] /\ \A d \in Call \ {c} : call'[d] = call[d]
          /\ call'[c] = Idle /\ call[c].pc = "window"
      BY IdleFits DEF OpenWindow, Here, Leave, Fitting
    <2>2. HasCeremony(call[c]) /\ HasSigned(call[c])
      BY <2>1 DEF HasCeremony, HasSigned
    <2>3. /\ UNCHANGED <<sess, signed>>
          /\ SpentRows \subseteq SpentRows' /\ WindowRows \subseteq WindowRows'
          /\ WindowRows' \subseteq WindowRows \cup {w} /\ w \notin WindowRows
      BY <1>2, OpenedWindow, KeptSets DEF SafeRows, WindowRows, WindowRow
    <2>4. /\ x \in SpentRows /\ x \in signed /\ \A v \in WindowRows : ceremony[v] # x
          /\ \A d \in Call \ {c} : HasCeremony(call[d]) => call[d].ch # x
      BY <2>2 DEF PasskeyInv, Holding, HoldersApart
    <2>5. ceremony'[w] = x /\ \A v \in WindowRows : ceremony'[v] = ceremony[v]
      BY <1>2, <2>3 DEF HistoryTypeOK, WindowRows
    <2>6. WindowsSigned' /\ OneWindowEach' /\ SessionsFromWindows'
      <3>1. WindowsSigned'
        BY <2>3, <2>4, <2>5 DEF PasskeyInv, WindowsSigned
      <3>2. OneWindowEach'
        BY <2>3, <2>4, <2>5 DEF PasskeyInv, OneWindowEach
      <3>3. SessionsFromWindows'
        BY <2>3 DEF PasskeyInv, SessionsFromWindows
      <3> QED BY <3>1, <3>2, <3>3
    <2>7. ASSUME NEW d \in Call \ {c}
          PROVE  /\ call[d].pc = "mark" => call[d].ch \in WindowRows'
                 /\ HasWindow(call[d]) => /\ call[d].ch \in WindowRows' /\ call[d].ch \in SpentRows'
                                          /\ \A r \in Session : sess'[r].via # call[d].ch
                 /\ HasCeremony(call[d]) => /\ call[d].ch \in SpentRows'
                                            /\ \A v \in WindowRows' : ceremony'[v] # call[d].ch
                 /\ HasSigned(call[d]) => call[d].ch \in signed'
      <3>1. HasCeremony(call[d]) => \A v \in WindowRows' : ceremony'[v] # call[d].ch
        BY <2>3, <2>4, <2>5 DEF PasskeyInv, Holding
      <3> QED BY <2>3, <3>1 DEF PasskeyInv, Holding
    <2>8. Holding'
      <3> SUFFICES ASSUME NEW d \in Call
                   PROVE  LET r == call'[d]
                          IN /\ r.pc = "mark" => r.ch \in WindowRows'
                             /\ HasWindow(r) => /\ r.ch \in WindowRows' /\ r.ch \in SpentRows'
                                                /\ \A y \in Session : sess'[y].via # r.ch
                             /\ HasCeremony(r) => /\ r.ch \in SpentRows'
                                                  /\ \A v \in WindowRows' : ceremony'[v] # r.ch
                             /\ HasSigned(r) => r.ch \in signed'
        BY DEF Holding, HasWindow, HasCeremony, HasSigned
      <3>1. CASE d = c
        <4>1. Idle.pc # "mark" /\ ~HasWindow(Idle) /\ ~HasCeremony(Idle) /\ ~HasSigned(Idle)
          BY IdleFits DEF HasSigned
        <4> QED BY <2>1, <3>1, <4>1
      <3>2. CASE d # c
        BY <2>1, <2>7, <3>2
      <3> QED BY <3>1, <3>2
    <2>9. HoldersApart'
      <3>1. ~HasWindow(call'[c]) /\ ~HasCeremony(call'[c])
        BY <2>1, IdleFits
      <3> QED BY <2>1, <3>1 DEF PasskeyInv, HoldersApart, HasWindow, HasCeremony
    <2> QED BY <2>6, <2>8, <2>9 DEF PasskeyInv
  <1> QED BY <1>1, <1>2, OpenedWindow

-----------------------------------------------------------------------------
(* One step of the web, whoever takes it.                                  *)

AccountTypeOK == /\ directory \in [locked: BOOLEAN, pwd: Password]
                 /\ passkey \in BOOLEAN /\ banned \in BOOLEAN /\ late \subseteq Call

LEMMA WebTypes ==
    WebTypeOK <=> /\ RowsTypeOK /\ HistoryTypeOK /\ AccountTypeOK
                  /\ user \in UserRow /\ call \in [Call -> CallRecord]
  BY DEF WebTypeOK, RowsTypeOK, HistoryTypeOK, AccountTypeOK

\* The steps that no request takes.
Outside == DeleteUser \/ DeleteDevices \/ ResetKeys \/ DirectoryChanges \/ Tick

\* Every step of a request moves it.
LEMMA StepMoves ==
    ASSUME Fitting, RowsTypeOK, NEW c \in Call, Arrive(c) \/ Proceed(c)
    PROVE  \E r \in CallRecord : Moves(c, r)
  <1>1. CASE CalmMove(c)
    BY <1>1 DEF CalmMove
  <1>2. CASE MarkWindow(c)
    <2>1. call[c].pc = "mark" /\ "verify" \in Pc
      BY <1>2 DEF MarkWindow, Here, Pc
    <2> QED BY <1>1, <1>2, <2>1, HoldingGoto, Refusing DEF MarkWindow
  <1>3. CASE ClaimCeremony(c)
    <2>1. call[c].pc = "claim" /\ "assert" \in Pc
      BY <1>3 DEF ClaimCeremony, Here, Pc
    <2> QED BY <1>1, <1>3, <2>1, HoldingGoto, Leaving DEF ClaimCeremony
  <1>4. CASE VerifySignature(c)
    <2>1. call[c].pc = "assert" /\ "signin" \in Pc
      BY <1>4 DEF VerifySignature, Here, Pc
    <2> QED BY <1>1, <1>4, <2>1, HoldingGoto, Leaving DEF VerifySignature
  <1>5. CASE RevokeSessions(c)
    <2>1. call[c].pc = "sessions" /\ "devices" \in Pc
      BY <1>5 DEF RevokeSessions, Here, Pc
    <2> QED BY <1>5, <2>1, HoldingGoto DEF RevokeSessions
  <1>6. CASE SelectWindow(c) \/ \E p \in Password : WriteUser(c, p)
    BY <1>1, <1>6, Selecting, Writing
  <1>7. CASE Arrive(c)
    BY <1>1, <1>7, Arriving DEF RowsTypeOK, ChallengeTypeOK
  <1> QED BY <1>1, <1>2, <1>3, <1>4, <1>5, <1>6, <1>7, CalmVerify, CalmLogin, CalmCabinet DEF Proceed

\* No request brings a deleted account back, or deletes one.
LEMMA StepKeepsUser ==
    ASSUME Fitting, NEW c \in Call, Arrive(c) \/ Proceed(c)
    PROVE  user' \in UserRow /\ Exists' = Exists
  <1>1. CASE UNCHANGED user
    BY <1>1 DEF Fitting, Exists
  <1>2. CASE LdapLockWrite(c) \/ LdapSyncWrite(c) \/ StorePasswordEnc(c) \/ \E p \in Password : WriteUser(c, p)
    BY <1>2, UserWrites, IdleFits DEF LdapLockWrite, LdapSyncWrite, StorePasswordEnc, WriteUser
  <1>3. CASE Arrive(c)
    BY <1>1, <1>3 DEF Arrive, FirstStep, SecondStep, BeginPasskey, Cabinet, PushClaim,
                      ReadCeremony, Patch, rowVars
  <1> QED BY <1>1, <1>2, <1>3
          DEF Proceed, VerifyLocal, VerifyLdap, LdapLock, LdapSync, LookForWindow, Lookup, Factor,
              SelectWindow, MarkWindow, CheckDevice, CheckMethods, CreateSession, TrustDevice,
              ForgetDevice, ReadKeys, ClaimCeremony, VerifySignature, SignIn, ApproveCeremony,
              SaveCeremony, OpenWindow, LoadUser, Logout, DeleteKey, RevokeSessions,
              RevokeDevices, rowVars, accountVars

LEMMA StepSafeRows ==
    ASSUME Fitting, RowsTypeOK, NEW c \in Call, Arrive(c) \/ Proceed(c)
    PROVE  SafeRows
  BY QuietSteps, CreatedSession, OpenedWindow DEF Proceed, QuietRows

\* The rows after a step of the administrator, the directory or time.
LEMMA OutsideRows ==
    ASSUME Fitting, RowsTypeOK, Outside
    PROVE  /\ QuietRows /\ UNCHANGED call /\ user' \in UserRow
           /\ Exists' => Exists
           /\ Exists /\ ~Exists' => /\ \A s \in Session : sess'[s].st # "live"
                                    /\ \A d \in Device : dev'[d].st # "live"
                                    /\ \A x \in Challenge : db'[x].st # "live"
  <1>1. user \in UserRow
    BY DEF Fitting
  <1>2. ASSUME dev' = DeletedRows(dev)
        PROVE  DevicesSame /\ \A d \in Device : dev'[d].st # "live"
    <2>1. CASE Device = {}
      BY <1>2, <2>1 DEF DeletedRows, RowsTypeOK, DevicesSame
    <2>2. CASE Device # {}
      BY <1>2, <2>2, DevicesDeleted
    <2> QED BY <2>1, <2>2
  <1>3. CASE DeleteUser
    <2>1. user' = [user EXCEPT !.st = "deleted"]
      BY <1>3 DEF DeleteUser
    <2>2. user' \in UserRow /\ ~Exists'
      BY <1>1, <2>1 DEF UserRow, Exists
    <2>3. SessionsSame /\ \A s \in Session : sess'[s].st # "live"
      BY <1>3, SessionsDeleted DEF DeleteUser
    <2>4. DevicesSame /\ \A d \in Device : dev'[d].st # "live"
      BY <1>2, <1>3 DEF DeleteUser
    <2>5. TableSame /\ \A x \in Challenge : db'[x].st # "live"
      <3>1. CASE Challenge = {}
        BY <1>3, <3>1 DEF DeleteUser, DeletedRows, RowsTypeOK, ChallengeTypeOK, TableSame
      <3>2. CASE Challenge # {}
        <4>1. "null" \in PushState
          BY DEF PushState
        <4> QED BY <1>3, <3>2, <4>1, TableKept DEF DeleteUser
      <3> QED BY <3>1, <3>2
    <2> QED BY <1>3, <2>2, <2>3, <2>4, <2>5, SameIsQuiet DEF DeleteUser
  <1>4. CASE DeleteDevices
    <2>1. DevicesSame /\ UNCHANGED <<user, sess, db, signed, ceremony, call>>
      BY <1>2, <1>4 DEF DeleteDevices, accountVars, passkeyVars
    <2> QED BY <1>1, <2>1, Unchanged, SameIsQuiet DEF Exists
  <1>5. CASE ResetKeys \/ DirectoryChanges \/ Tick
    <2>1. UNCHANGED <<user, sess, dev, db, signed, ceremony, call>>
      BY <1>5 DEF ResetKeys, DirectoryChanges, Tick, accountVars, passkeyVars, rowVars
    <2> QED BY <1>1, <2>1, Unchanged, SameIsQuiet DEF Exists
  <1> QED BY <1>3, <1>4, <1>5 DEF Outside

-----------------------------------------------------------------------------
(* The invariant of the web, and its steps.                                *)

\* A call counts as late only while the user is not enabled, and no call
\* that saw the user enabled does.
LateInv == /\ Usable => late = {}
           /\ \A c \in Call : Admitted(call[c]) => c \notin late

\* The deleted user has nothing in these tables.
NothingLeft == ~Exists => /\ \A s \in Session : sess[s].st # "live"
                          /\ \A d \in Device : dev[d].st # "live"
                          /\ \A x \in Challenge : db[x].st # "live"

\* The cookies a password change must revoke were drawn, and between its two
\* statements those of them that are sessions are gone.
OldCookies ==
    \A c \in Call :
        LET r == call[c]
        IN /\ r.pc \in {"sessions", "devices"} =>
                 \A x \in r.old : IF x \in Session THEN sess[x].st # "absent"
                                                   ELSE dev[x].st # "absent"
           /\ r.pc = "devices" => \A x \in r.old : x \in Session => sess[x].st = "deleted"

WebInv == /\ WebTypeOK /\ \A c \in Call : Fit(call[c])
          /\ LateInv /\ NothingLeft /\ OldCookies /\ PasskeyInv

LEMMA LateKept ==
    ASSUME Fitting, late \subseteq Call, LateInv, Remember,
           UNCHANGED call \/ \E c \in Call, r \in CallRecord : Moves(c, r)
    PROVE  late' \subseteq Call /\ LateInv'
  <1>1. late' \subseteq Call /\ (Usable' => late' = {})
    BY DEF Remember
  <1>2. ASSUME NEW d \in Call, Admitted(call'[d]), d \in late'
        PROVE  FALSE
    <2>1. ~Usable' /\ (d \in late \/ call[d].pc = "idle")
      BY <1>2 DEF Remember
    <2>2. \/ Admitted(call[d])
          \/ Usable /\ call[d].pc # "idle"
      BY <1>2, <2>1 DEF Moves, Fitting
    <2>3. call[d].pc # "idle"
      BY <2>2 DEF Fitting, Fit, Admitted
    <2> QED BY <2>1, <2>2, <2>3 DEF LateInv
  <1> QED BY <1>1, <1>2 DEF LateInv, Admitted

LEMMA NothingLeftKept ==
    ASSUME RowsTypeOK, NothingLeft, SafeRows,
           \/ Exists' = Exists
           \/ /\ Exists' => Exists
              /\ Exists /\ ~Exists' => /\ \A s \in Session : sess'[s].st # "live"
                                       /\ \A d \in Device : dev'[d].st # "live"
                                       /\ \A x \in Challenge : db'[x].st # "live"
    PROVE  NothingLeft'
  BY DEF NothingLeft, SafeRows

\* How a request comes to owe a revocation.
LEMMA StepOwes ==
    ASSUME Fitting, RowsTypeOK, NEW c \in Call, Arrive(c) \/ Proceed(c)
    PROVE  \E r \in CallRecord :
              /\ call' = [call EXCEPT ![c] = r]
              /\ \/ r.pc \notin {"sessions", "devices"}
                 \/ r.pc = "sessions" /\ r.old = LiveCookies /\ UNCHANGED <<sess, dev>>
                 \/ /\ r.pc = "devices" /\ call[c].pc = "sessions" /\ r.old = call[c].old
                    /\ sess' = DeletedRows(sess)
  <1>1. CASE CalmMove(c)
    BY <1>1 DEF CalmMove, Moves
  <1>2. ASSUME NEW p \in Password, WriteUser(c, p)
        PROVE  \E r \in CallRecord :
                  /\ call' = [call EXCEPT ![c] = r]
                  /\ \/ r.pc \notin {"sessions", "devices"}
                     \/ r.pc = "sessions" /\ r.old = LiveCookies /\ UNCHANGED <<sess, dev>>
    BY <1>2, Writing DEF WriteUser, CalmMove, Moves
  <1>3. CASE RevokeSessions(c)
    <2>1. call[c].pc = "sessions" /\ "devices" \in Pc /\ sess' = DeletedRows(sess) /\ Goto(c, "devices")
      BY <1>3 DEF RevokeSessions, Here, Pc
    <2>2. PICK r \in CallRecord : Moves(c, r) /\ r.pc = "devices" /\ r.ch = call[c].ch /\ r.old = call[c].old
      BY <2>1, HoldingGoto
    <2> QED BY <2>1, <2>2 DEF Moves
  <1>4. CASE SelectWindow(c)
    BY <1>1, <1>4, Selecting DEF Moves
  <1>5. CASE MarkWindow(c) \/ ClaimCeremony(c) \/ VerifySignature(c)
    <2>1. ASSUME NEW pc \in {"verify", "assert", "signin"}, Goto(c, pc)
          PROVE  \E r \in CallRecord : call' = [call EXCEPT ![c] = r] /\ r.pc \notin {"sessions", "devices"}
      <3>1. pc \in Pc
        BY DEF Pc
      <3> QED BY <2>1, <3>1, Going
    <2> QED BY <1>1, <1>5, <2>1, Refusing, Leaving DEF MarkWindow, ClaimCeremony, VerifySignature
  <1>6. CASE Arrive(c)
    BY <1>1, <1>6, Arriving DEF RowsTypeOK, ChallengeTypeOK
  <1> QED BY <1>1, <1>2, <1>3, <1>4, <1>5, <1>6, CalmVerify, CalmLogin, CalmCabinet DEF Proceed

\* The cookies a request owes stay what they are.
LEMMA OldKept ==
    ASSUME Fitting, RowsTypeOK, OldCookies, SafeRows,
           NEW d \in Call, call'[d] = call[d]
    PROVE  LET r == call'[d]
           IN /\ r.pc \in {"sessions", "devices"} =>
                    \A x \in r.old : IF x \in Session THEN sess'[x].st # "absent"
                                                      ELSE dev'[x].st # "absent"
              /\ r.pc = "devices" => \A x \in r.old : x \in Session => sess'[x].st = "deleted"
  <1>1. call[d].old \subseteq Session \cup Device
    BY DEF Fitting, CallRecord
  <1> QED BY <1>1 DEF OldCookies, SafeRows, SessionKept, DeviceKept

LEMMA OldCookiesKept ==
    ASSUME Fitting, RowsTypeOK, OldCookies, SafeRows,
           UNCHANGED call \/ \E c \in Call : Arrive(c) \/ Proceed(c)
    PROVE  OldCookies'
  <1>1. CASE UNCHANGED call
    BY <1>1, OldKept DEF OldCookies
  <1>2. ASSUME NEW c \in Call, Arrive(c) \/ Proceed(c)
        PROVE  OldCookies'
    <2>1. PICK r \in CallRecord :
              /\ call' = [call EXCEPT ![c] = r]
              /\ \/ r.pc \notin {"sessions", "devices"}
                 \/ r.pc = "sessions" /\ r.old = LiveCookies /\ UNCHANGED <<sess, dev>>
                 \/ /\ r.pc = "devices" /\ call[c].pc = "sessions" /\ r.old = call[c].old
                    /\ sess' = DeletedRows(sess)
      BY <1>2, StepOwes
    <2>2. call'[c] = r /\ \A d \in Call \ {c} : call'[d] = call[d]
      BY <2>1 DEF Fitting
    <2>3. r.old \subseteq Session \cup Device /\ call[c].old \subseteq Session \cup Device
      BY DEF Fitting, CallRecord
    <2>4. CASE r.pc = "sessions" /\ r.old = LiveCookies /\ UNCHANGED <<sess, dev>>
      <3>1. \A x \in r.old : IF x \in Session THEN sess'[x].st # "absent" ELSE dev'[x].st # "absent"
        BY <2>4, WebSessionAssumption DEF LiveCookies
      <3> QED BY <2>2, <2>4, <3>1, OldKept DEF OldCookies
    <2>5. CASE /\ r.pc = "devices" /\ call[c].pc = "sessions" /\ r.old = call[c].old
               /\ sess' = DeletedRows(sess)
      <3>1. \A x \in r.old : IF x \in Session THEN sess[x].st # "absent" ELSE dev[x].st # "absent"
        BY <2>5 DEF OldCookies
      <3>2. \A x \in r.old : IF x \in Session THEN sess'[x].st # "absent" ELSE dev'[x].st # "absent"
        BY <2>3, <3>1 DEF SafeRows, SessionKept, DeviceKept
      <3>3. \A s \in Session : sess'[s].st # "live" /\ sess'[s].st \in State
        BY <2>5, SessionsDeleted DEF SafeRows, SessionRow
      <3>4. \A x \in r.old : x \in Session => sess'[x].st = "deleted"
        BY <3>2, <3>3 DEF State
      <3> QED BY <2>2, <2>5, <3>2, <3>4, OldKept DEF OldCookies
    <2>6. CASE r.pc \notin {"sessions", "devices"}
      BY <2>2, <2>6, OldKept DEF OldCookies
    <2> QED BY <2>1, <2>4, <2>5, <2>6
  <1> QED BY <1>1, <1>2

\* The rest of the types.
LEMMA StepAccount ==
    ASSUME Fitting, AccountTypeOK, HistoryTypeOK,
           Outside \/ \E c \in Call : Arrive(c) \/ Proceed(c)
    PROVE  /\ directory' \in [locked: BOOLEAN, pwd: Password]
           /\ passkey' \in BOOLEAN /\ banned' \in BOOLEAN /\ HistoryTypeOK'
  <1>1. CASE Outside
    BY <1>1 DEF AccountTypeOK, HistoryTypeOK, Outside, DeleteUser, DeleteDevices, ResetKeys,
                DirectoryChanges, Tick, accountVars, passkeyVars, rowVars
  <1>2. ASSUME NEW c \in Call, Arrive(c)
        PROVE  UNCHANGED rowVars
    BY <1>2 DEF Arrive, FirstStep, SecondStep, BeginPasskey, Cabinet, PushClaim, ReadCeremony, Patch
  <1>3. ASSUME NEW c \in Call, Proceed(c)
        PROVE  UNCHANGED directory /\ passkey' \in BOOLEAN
    BY <1>3 DEF AccountTypeOK, Proceed, VerifyLocal, VerifyLdap, LdapLock, LdapLockWrite, LdapSync, LdapSyncWrite,
                StorePasswordEnc, LookForWindow, Lookup, Factor, SelectWindow, MarkWindow,
                CheckDevice, CheckMethods, CreateSession, TrustDevice, ForgetDevice, ReadKeys,
                ClaimCeremony, VerifySignature, SignIn, ApproveCeremony, SaveCeremony, OpenWindow,
                LoadUser, Logout, DeleteKey, WriteUser, RevokeSessions, RevokeDevices,
                rowVars, accountVars
  <1>4. ASSUME NEW c \in Call, Proceed(c)
        PROVE  banned' \in BOOLEAN
    BY <1>4 DEF AccountTypeOK, Proceed, VerifyLocal, VerifyLdap, LdapLock, LdapLockWrite, LdapSync, LdapSyncWrite,
                StorePasswordEnc, LookForWindow, Lookup, Factor, SelectWindow, MarkWindow,
                CheckDevice, CheckMethods, CreateSession, TrustDevice, ForgetDevice, ReadKeys,
                ClaimCeremony, VerifySignature, SignIn, ApproveCeremony, SaveCeremony, OpenWindow,
                LoadUser, Logout, DeleteKey, WriteUser, RevokeSessions, RevokeDevices,
                rowVars, accountVars
  <1>5. ASSUME NEW c \in Call, Proceed(c)
        PROVE  HistoryTypeOK'
    <2>1. Fit(call[c])
      BY DEF Fitting
    <2>2. CASE VerifySignature(c)
      BY <2>1, <2>2 DEF VerifySignature, HistoryTypeOK, Here, Fit, HasCeremony
    <2>3. CASE \E w \in Challenge : OpenWindow(c, w)
      <3>1. call[c].ch \in Challenge
        BY <2>1, <2>3 DEF OpenWindow, Here, Fit, HasCeremony
      <3> QED BY <2>3, <3>1 DEF OpenWindow, HistoryTypeOK
    <2> QED BY <1>5, <2>2, <2>3
            DEF HistoryTypeOK, Proceed, VerifyLocal, VerifyLdap, LdapLock, LdapLockWrite, LdapSync, LdapSyncWrite,
                StorePasswordEnc, LookForWindow, Lookup, Factor, SelectWindow, MarkWindow,
                CheckDevice, CheckMethods, CreateSession, TrustDevice, ForgetDevice, ReadKeys,
                ClaimCeremony, SignIn, ApproveCeremony, SaveCeremony,
                LoadUser, Logout, DeleteKey, WriteUser, RevokeSessions, RevokeDevices,
                rowVars, passkeyVars
  <1>6. ASSUME NEW c \in Call, Arrive(c)
        PROVE  /\ directory' \in [locked: BOOLEAN, pwd: Password]
               /\ passkey' \in BOOLEAN /\ banned' \in BOOLEAN /\ HistoryTypeOK'
    BY <1>2, <1>6 DEF AccountTypeOK, HistoryTypeOK, rowVars
  <1>7. ASSUME NEW c \in Call, Proceed(c)
        PROVE  directory' \in [locked: BOOLEAN, pwd: Password]
    BY <1>3, <1>7 DEF AccountTypeOK
  <1> QED BY <1>1, <1>3, <1>4, <1>5, <1>6, <1>7

LEMMA StepPasskeys ==
    ASSUME Fitting, RowsTypeOK, HistoryTypeOK, PasskeyInv, NEW c \in Call, Arrive(c) \/ Proceed(c)
    PROVE  PasskeyInv'
  <1>1. CASE QuietRows /\ PlainMove(c)
    BY <1>1, PasskeyCalm, PlainIsCarried
  <1>2. CASE Arrive(c)
    BY <1>1, <1>2, QuietSteps, Arriving DEF CalmMove, PlainMove, RowsTypeOK, ChallengeTypeOK
  <1>3. CASE \E p \in Password : WriteUser(c, p)
    BY <1>1, <1>3, QuietSteps, Writing DEF CalmMove, PlainMove
  <1>4. CASE RevokeSessions(c)
    <2>1. "devices" \in Pc /\ Goto(c, "devices")
      BY <1>4 DEF RevokeSessions, Pc
    <2>2. PICK r \in CallRecord : Moves(c, r) /\ r.pc = "devices"
      BY <1>4, <2>1, HoldingGoto DEF RevokeSessions, Here
    <2>3. PlainMove(c)
      BY <2>2 DEF PlainMove, Carries, HasWindow, HasCeremony, HasSigned
    <2> QED BY <1>1, <1>4, <2>3, QuietSteps
  <1>5. CASE SelectWindow(c) \/ MarkWindow(c) \/ ClaimCeremony(c) \/ VerifySignature(c)
    BY <1>5, PasskeyHolds
  <1>6. CASE \E s \in Session : CreateSession(c, s)
    BY <1>6, PasskeyCreates
  <1>7. CASE \E w \in Challenge : OpenWindow(c, w)
    BY <1>7, PasskeyOpens
  <1>8. CASE \/ VerifyLocal(c) \/ VerifyLdap(c) \/ LdapLock(c) \/ LdapLockWrite(c)
             \/ LdapSync(c) \/ LdapSyncWrite(c) \/ StorePasswordEnc(c)
    BY <1>1, <1>8, QuietSteps, CalmVerify DEF CalmMove, PlainMove
  <1>9. CASE \/ LookForWindow(c) \/ Lookup(c) \/ Factor(c) \/ CheckDevice(c) \/ CheckMethods(c)
             \/ \E d \in Device : TrustDevice(c, d)
    BY <1>1, <1>9, QuietSteps, CalmLogin DEF CalmMove, PlainMove
  <1>10. CASE \/ ReadKeys(c) \/ SignIn(c) \/ ApproveCeremony(c)
              \/ \E x \in Challenge : SaveCeremony(c, x)
              \/ LoadUser(c) \/ Logout(c) \/ DeleteKey(c) \/ RevokeDevices(c)
              \/ \E d \in Device : ForgetDevice(c, d)
    BY <1>1, <1>10, QuietSteps, CalmCabinet DEF CalmMove, PlainMove
  <1> QED BY <1>2, <1>3, <1>4, <1>5, <1>6, <1>7, <1>8, <1>9, <1>10 DEF Proceed

\* The invariant of the web is inductive.
LEMMA WebInvKept ==
    ASSUME WebInv, WebStep
    PROVE  WebInv' /\ SafeRows
  <1>1. /\ Fitting /\ RowsTypeOK /\ HistoryTypeOK /\ AccountTypeOK
        /\ LateInv /\ NothingLeft /\ OldCookies /\ PasskeyInv /\ Remember
    BY WebTypes DEF WebInv, Fitting, WebStep
  <1>2. now' \in Nat
    BY <1>1 DEF WebStep, Tick, RowsTypeOK, ChallengeTypeOK
  <1>3. CASE Outside
    <2>1. /\ QuietRows /\ UNCHANGED call /\ user' \in UserRow
          /\ Exists' => Exists
          /\ Exists /\ ~Exists' => /\ \A s \in Session : sess'[s].st # "live"
                                   /\ \A d \in Device : dev'[d].st # "live"
                                   /\ \A x \in Challenge : db'[x].st # "live"
      BY <1>1, <1>3, OutsideRows
    <2>2. SafeRows /\ PasskeyInv'
      BY <1>1, <2>1, PasskeyCalm, PlainIsCarried, IdleFits DEF QuietRows, Carried, Fitting
    <2>3. NothingLeft' /\ OldCookies' /\ LateInv' /\ late' \subseteq Call
      BY <1>1, <2>1, <2>2, NothingLeftKept, OldCookiesKept, LateKept DEF AccountTypeOK
    <2>4. AccountTypeOK' /\ HistoryTypeOK' /\ RowsTypeOK' /\ Fitting'
      BY <1>1, <1>2, <1>3, <2>1, <2>2, <2>3, StepAccount
         DEF AccountTypeOK, RowsTypeOK, SafeRows, ChallengeTypeOK, Fitting
    <2>5. WebTypeOK'
      BY <2>4 DEF WebTypeOK, RowsTypeOK, HistoryTypeOK, AccountTypeOK, Fitting
    <2> QED BY <2>2, <2>3, <2>4, <2>5 DEF WebInv, Fitting
  <1>4. ASSUME NEW c \in Call, Arrive(c) \/ Proceed(c)
        PROVE  WebInv' /\ SafeRows
    <2>1. PICK r \in CallRecord : Moves(c, r)
      BY <1>1, <1>4, StepMoves
    <2>2. user' \in UserRow /\ Exists' = Exists
      BY <1>1, <1>4, StepKeepsUser
    <2>3. SafeRows /\ PasskeyInv'
      BY <1>1, <1>4, StepSafeRows, StepPasskeys
    <2>4. LateInv' /\ late' \subseteq Call
      BY <1>1, <2>1, LateKept DEF AccountTypeOK
    <2>5. NothingLeft' /\ OldCookies'
      BY <1>1, <1>4, <2>2, <2>3, NothingLeftKept, OldCookiesKept
    <2>6. Fitting'
      BY <1>1, <2>1, <2>2 DEF Fitting, Moves
    <2>7. AccountTypeOK' /\ HistoryTypeOK' /\ RowsTypeOK'
      BY <1>1, <1>2, <1>4, <2>3, <2>4, StepAccount
         DEF AccountTypeOK, RowsTypeOK, SafeRows, ChallengeTypeOK
    <2>8. WebTypeOK'
      BY <2>6, <2>7 DEF WebTypeOK, RowsTypeOK, HistoryTypeOK, AccountTypeOK, Fitting
    <2> QED BY <2>3, <2>4, <2>5, <2>6, <2>8 DEF WebInv, Fitting
  <1> QED BY <1>3, <1>4 DEF WebStep, Outside

LEMMA WebInvInit ==
    ASSUME WebInit
    PROVE  WebInv
  <1>1. user \in UserRow
    <2>1. PICK source \in {"local", "ldap"}, enc \in BOOLEAN :
             user = [AnyUser EXCEPT !.source = source, !.enc = enc]
      BY DEF WebInit
    <2>2. AnyUser \in UserRow
      BY IdleFits
    <2> QED BY <2>1, <2>2 DEF UserRow
  <1>2. RowsTypeOK
    BY DEF WebInit, TableInit, EmptyRow, RowsTypeOK, ChallengeTypeOK, Row, Purpose, Channel, PushState,
           SessionRow, DeviceRow, State, Mode
  <1>3. HistoryTypeOK /\ AccountTypeOK
    BY IdleFits DEF WebInit, HistoryTypeOK, AccountTypeOK
  <1>4. call \in [Call -> CallRecord] /\ \A c \in Call : call[c] = Idle
    BY IdleFits DEF WebInit
  <1>5. LateInv /\ NothingLeft
    BY <1>4, IdleFits DEF WebInit, TableInit, EmptyRow, LateInv, NothingLeft
  <1>6. OldCookies
    BY <1>4, IdleFits DEF OldCookies
  <1>7. WindowRows = {} /\ \A s \in Session : sess[s].via = None
    BY DEF WebInit, TableInit, EmptyRow, WindowRows, WindowRow
  <1>8. PasskeyInv
    BY <1>4, <1>7, IdleFits DEF PasskeyInv, WindowsSigned, OneWindowEach, SessionsFromWindows, Holding,
                              HoldersApart, HasSigned
  <1> QED BY <1>1, <1>2, <1>3, <1>4, <1>5, <1>6, <1>8, WebTypes, IdleFits DEF WebInv

-----------------------------------------------------------------------------
(* What a step may do, beside keeping the invariant.                       *)

\* Only the last statement of a password change ends one that has got there.
LEMMA StepRevokes ==
    ASSUME WebInv, WebStep
    PROVE  \A c \in Call : Here(c, "devices") /\ Here(c, "idle")' =>
              \A x \in call[c].old : IF x \in Session THEN sess'[x].st = "deleted"
                                                      ELSE dev'[x].st = "deleted"
  <1>1. Fitting /\ RowsTypeOK /\ OldCookies /\ SafeRows
    BY WebInvKept, WebTypes DEF WebInv, Fitting
  <1> SUFFICES ASSUME NEW c \in Call, Here(c, "devices"), Here(c, "idle")'
               PROVE  \A x \in call[c].old : IF x \in Session THEN sess'[x].st = "deleted"
                                                              ELSE dev'[x].st = "deleted"
    OBVIOUS
  <1>2. RevokeDevices(c)
    <2>1. call' # call
      BY DEF Here
    <2>2. PICK d \in Call : Arrive(d) \/ Proceed(d)
      BY <1>1, <2>1, OutsideRows DEF WebStep, Outside
    <2>3. d = c
      <3>1. PICK r \in CallRecord : call' = [call EXCEPT ![d] = r]
        BY <1>1, <2>2, StepOwes
      <3> QED BY <1>1, <3>1 DEF Here, Fitting
    <2>4. call[c].pc = "devices"
      BY DEF Here
    <2>5. ~Arrive(c)
      BY <2>4 DEF Arrive, FirstStep, SecondStep, BeginPasskey, Cabinet, PushClaim, ReadCeremony, Patch, Here
    <2> QED BY <2>2, <2>3, <2>4, <2>5
            DEF Proceed, VerifyLocal, VerifyLdap, LdapLock, LdapLockWrite, LdapSync, LdapSyncWrite,
                StorePasswordEnc, LookForWindow, Lookup, Factor, SelectWindow, MarkWindow,
                CheckDevice, CheckMethods, CreateSession, TrustDevice, ForgetDevice, ReadKeys,
                ClaimCeremony, VerifySignature, SignIn, ApproveCeremony, SaveCeremony, OpenWindow,
                LoadUser, Logout, DeleteKey, WriteUser, RevokeSessions, Here
  <1>3. dev' = DeletedRows(dev) /\ sess' = sess
    BY <1>2 DEF RevokeDevices
  <1>4. \A d \in Device : dev'[d].st # "live" /\ dev'[d].st \in State
    BY <1>1, <1>3, DevicesDeleted DEF SafeRows, DeviceRow
  <1>5. call[c].old \subseteq Session \cup Device
    BY <1>1 DEF Fitting, CallRecord
  <1>6. ASSUME NEW x \in call[c].old
        PROVE  IF x \in Session THEN sess'[x].st = "deleted" ELSE dev'[x].st = "deleted"
    <2>1. CASE x \in Session
      BY <1>1, <1>3, <1>6, <2>1 DEF OldCookies, Here
    <2>2. CASE x \notin Session
      <3>1. x \in Device /\ dev[x].st # "absent"
        BY <1>1, <1>5, <2>2 DEF OldCookies, Here
      <3> QED BY <1>1, <1>4, <2>2, <3>1 DEF SafeRows, DeviceKept, State
    <2> QED BY <2>1, <2>2
  <1> QED BY <1>6

\* The sessions that a passkey opened, with the ceremonies they come from.
Redemptions == {<<ceremony[sess[s].via], s>> :
                   s \in {r \in Session : sess[r].st # "absent" /\ sess[r].via # None}}

\* A step verifies a signature, or makes a session of a window, or neither.
LEMMA StepRedeems ==
    ASSUME WebInv, WebStep
    PROVE  \/ signed' = signed /\ Redemptions' = Redemptions
           \/ \E k \in Challenge : signed' = signed \cup {k} /\ Redemptions' = Redemptions
           \/ \E k \in Challenge, s \in Session :
                 /\ k \in signed /\ signed' = signed
                 /\ \A r \in Session : <<k, r>> \notin Redemptions
                 /\ Redemptions' = Redemptions \cup {<<k, s>>}
  <1>1. Fitting /\ RowsTypeOK /\ HistoryTypeOK /\ PasskeyInv
    BY WebTypes DEF WebInv, Fitting
  <1>2. WebInv' /\ PasskeyInv'
    BY WebInvKept DEF WebInv
  <1>3. Redemptions = {<<ceremony[sess[s].via], s>> : s \in {r \in Session : sess[r].via # None}}
    BY <1>1 DEF Redemptions, PasskeyInv, SessionsFromWindows
  <1>4. Redemptions' = {<<ceremony'[sess'[s].via], s>> : s \in {r \in Session : sess'[r].via # None}}
    BY <1>2 DEF Redemptions, PasskeyInv, SessionsFromWindows
  <1>5. ASSUME QuietRows
        PROVE  Redemptions' = Redemptions
    BY <1>3, <1>4, <1>5 DEF QuietRows
  <1>6. ASSUME NEW c \in Call, NEW s \in Session, CreateSession(c, s), ~QuietRows
        PROVE  \/ signed' = signed /\ Redemptions' = Redemptions
               \/ \E k \in Challenge :
                     /\ k \in signed /\ signed' = signed
                     /\ \A r \in Session : <<k, r>> \notin Redemptions
                     /\ Redemptions' = Redemptions \cup {<<k, s>>}
    <2> DEFINE w == call[c].ch
               k == ceremony[w]
    <2>1. /\ UNCHANGED <<signed, ceremony>> /\ sess[s].st = "absent" /\ sess'[s].via = w
          /\ \A r \in Session \ {s} : sess'[r] = sess[r]
      BY <1>1, <1>6, CreatedSession
    <2>2. sess[s].via = None
      BY <1>1, <2>1 DEF PasskeyInv, SessionsFromWindows
    <2>3. CASE w = None
      <3>1. \A r \in Session : sess'[r].via = sess[r].via
        BY <2>1, <2>2, <2>3
      <3> QED BY <1>3, <1>4, <2>1, <3>1
    <2>4. CASE w # None
      <3>1. HasWindow(call[c])
        BY <1>6, <2>4 DEF CreateSession, Here, HasWindow
      <3>2. w \in WindowRows /\ \A r \in Session : sess[r].via # w
        BY <1>1, <3>1 DEF PasskeyInv, Holding
      <3>3. k \in signed /\ k \in Challenge
        BY <1>1, <3>2 DEF PasskeyInv, WindowsSigned, HistoryTypeOK
      <3>4. \A r \in Session : sess[r].via # None => ceremony[sess[r].via] # k
        BY <1>1, <3>2 DEF PasskeyInv, OneWindowEach, SessionsFromWindows
      <3> HIDE DEF w, k
      <3>5. \A r \in Session : <<k, r>> \notin Redemptions
        BY <1>3, <3>4
      <3>6. Redemptions' = Redemptions \cup {<<k, s>>}
        <4>1. \A r \in Session \ {s} : sess'[r].via = sess[r].via
          BY <2>1
        <4>2. {r \in Session : sess'[r].via # None} = {r \in Session : sess[r].via # None} \cup {s}
          BY <2>1, <2>4, <4>1
        <4>3. \A r \in Session \ {s} : <<ceremony'[sess'[r].via], r>> = <<ceremony[sess[r].via], r>>
          BY <2>1, <4>1
        <4>4. <<ceremony'[sess'[s].via], s>> = <<k, s>>
          BY <2>1 DEF k, w
        <4> QED BY <1>3, <1>4, <2>2, <4>2, <4>3, <4>4
      <3> QED BY <2>1, <3>3, <3>5, <3>6
    <2> QED BY <2>3, <2>4
  <1>7. ASSUME NEW c \in Call, NEW w \in Challenge, OpenWindow(c, w)
        PROVE  signed' = signed /\ Redemptions' = Redemptions
    <2>1. CASE QuietRows
      BY <1>1, <1>5, <1>7, <2>1, OpenedWindow
    <2>2. CASE db[w].st = "absent" /\ ceremony' = [ceremony EXCEPT ![w] = call[c].ch]
      <3>1. \A s \in Session : sess[s].via # w
        BY <1>1, <2>2, WebSessionAssumption DEF PasskeyInv, SessionsFromWindows, WindowRows, WindowRow
      <3>2. \A s \in Session : sess[s].via # None => ceremony'[sess[s].via] = ceremony[sess[s].via]
        BY <1>1, <2>2, <3>1 DEF PasskeyInv, SessionsFromWindows, WindowRows, HistoryTypeOK
      <3>3. UNCHANGED <<sess, signed>>
        BY <1>7 DEF OpenWindow
      <3> QED BY <1>3, <1>4, <3>2, <3>3
    <2> QED BY <1>1, <1>7, <2>1, <2>2, OpenedWindow
  <1>8. ASSUME NEW c \in Call, VerifySignature(c)
        PROVE  /\ Redemptions' = Redemptions
               /\ signed' = signed \/ \E k \in Challenge : signed' = signed \cup {k}
    <2>1. call[c].ch \in Challenge
      BY <1>1, <1>8 DEF Fitting, Fit, VerifySignature, Here, HasCeremony
    <2> QED BY <1>1, <1>5, <1>8, <2>1, QuietSteps DEF VerifySignature
  <1>9. CASE Outside
    <2>1. signed' = signed
      BY <1>9 DEF Outside, DeleteUser, DeleteDevices, ResetKeys, DirectoryChanges, Tick, rowVars, passkeyVars
    <2> QED BY <1>1, <1>5, <1>9, <2>1, OutsideRows
  <1>10. ASSUME NEW c \in Call, Arrive(c) \/ Proceed(c), ~VerifySignature(c)
         PROVE  signed' = signed
    BY <1>10 DEF Arrive, FirstStep, SecondStep, BeginPasskey, Cabinet, PushClaim, ReadCeremony, Patch,
                 Proceed, VerifyLocal, VerifyLdap, LdapLock, LdapLockWrite, LdapSync, LdapSyncWrite,
                 StorePasswordEnc, LookForWindow, Lookup, Factor, SelectWindow, MarkWindow,
                 CheckDevice, CheckMethods, CreateSession, TrustDevice, ForgetDevice, ReadKeys,
                 ClaimCeremony, SignIn, ApproveCeremony, SaveCeremony, OpenWindow,
                 LoadUser, Logout, DeleteKey, WriteUser, RevokeSessions, RevokeDevices,
                 rowVars, passkeyVars
  <1>11. ASSUME NEW c \in Call, Arrive(c) \/ Proceed(c),
                \A s \in Session : ~CreateSession(c, s), \A w \in Challenge : ~OpenWindow(c, w)
         PROVE  QuietRows
    BY <1>1, <1>11, QuietSteps DEF Proceed
  <1> QED BY <1>5, <1>6, <1>7, <1>8, <1>9, <1>10, <1>11 DEF WebStep, Outside

=============================================================================

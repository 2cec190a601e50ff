----------------------------- MODULE WebSession -----------------------------
(***************************************************************************)
(* The account of one user and what a web login makes of it: the row of    *)
(* `users`, the sessions, the trusted browsers and the passkey login.      *)
(*                                                                         *)
(* UserUpdate writes every column of the row, so each handler that changes *)
(* one field writes back all the others as it read them; a call keeps that *)
(* copy in its field u.  A step is one SQL statement, or one exchange with *)
(* the directory, with the code up to the next; statements do not fail     *)
(* here but where a row they need is gone.  Codes and pushes are accepted  *)
(* or refused by choice: CodeFactors and PushLogin model them.  The lock   *)
(* of failed logins and the rate limits only refuse more and are left out. *)
(* An operator marked "mistake" is a slip the definition after it could    *)
(* have had; no action uses it.                                            *)
(***************************************************************************)
EXTENDS ChallengeTable

CONSTANTS Call,         \* the requests in flight; a slot serves one after another
          Session,      \* the cookies createSession may draw
          Device,       \* the cookies trustDevice may draw
          Password,
          None,
          OtherFactor,  \* does twoFactorMethods find anything but a passkey?
          SessionTTL, DeviceTTL, CeremonyTTL, WindowTTL,
          MaxTime       \* bound: the clock (model only)

ASSUME WebSessionAssumption ==
    /\ None \notin Session \cup Device \cup Challenge
    /\ Session \cap Device = {}     \* two cookies, two tables
    /\ Password # {} /\ Code # {}
    /\ OtherFactor \in BOOLEAN
    /\ {SessionTTL, DeviceTTL, CeremonyTTL, WindowTTL, MaxTime} \subseteq Nat

VARIABLES user,         \* the row of users
          directory,    \* the LDAP directory's word on an ldap user
          passkey,      \* does the user have a row of webauthn_credentials?
          sess, dev,    \* sessions, trusted_devices
          call,
          banned,       \* history: an administrator's last word was "disabled"
          late,         \* history: calls during which the user was never enabled
          signed,       \* history: the ceremonies whose signature was verified
          ceremony      \* history: the ceremony a passkey window comes from

State == {"absent", "live", "deleted"}
Mode == {"password+code", "passkey", "push_match", "trusted_device", "password_only"}

\* locked is ldap_locked; enc: password_enc is not empty.
UserRow == [st: {"live", "deleted"}, source: {"local", "ldap"}, enabled: BOOLEAN,
            locked: BOOLEAN, pwd: Password, enc: BOOLEAN]
SessionRow == [st: State, created: Nat, expires: Nat, mode: Mode, via: Challenge \cup {None}]
DeviceRow == [st: State, expires: Nat]

\* The first step of a login, its second step (a typed code, or an empty one
\* for a passkey window), the window the HTML form finds at its first step,
\* the claim of a push; the two ends of a passkey ceremony; the cabinet; the
\* administrator's change of a user.
LoginKind == {"first", "second", "window", "push"}
CabinetKind == {"password", "profile", "logout", "forget", "unkey"}
Kind == LoginKind \cup {"begin", "finish"} \cup CabinetKind \cup {"patch"}
Pc == {"idle", "lookup", "factor", "select", "mark", "verify", "lock", "lockwrite",
       "sync", "syncwrite", "enc", "pending", "device", "methods", "create", "trust",
       "keys", "ceremony", "claim", "assert", "signin", "approve", "window",
       "load", "operate", "write", "sessions", "devices"}

\* u: the copy of the row; typed: the password sent; html: the form, not the
\* JSON API; d, s: the cookies; ch: the challenge in hand; edit: what the
\* administrator changes; old: the cookies a password change must revoke.
CallRecord == [pc: Pc, kind: Kind, u: UserRow, typed: Password, html: BOOLEAN,
               remember: BOOLEAN, mode: Mode, s: Session \cup {None}, d: Device \cup {None},
               ch: Challenge \cup {None}, edit: {"none", "enable", "disable", "password"},
               old: SUBSET (Session \cup Device)]

\* The rows, the calls and the history have their types.
WebTypeOK ==
    /\ ChallengeTypeOK
    /\ user \in UserRow
    /\ directory \in [locked: BOOLEAN, pwd: Password]
    /\ passkey \in BOOLEAN
    /\ sess \in [Session -> SessionRow]
    /\ dev \in [Device -> DeviceRow]
    /\ call \in [Call -> CallRecord]
    /\ banned \in BOOLEAN
    /\ late \subseteq Call
    /\ signed \subseteq Challenge
    /\ ceremony \in [Challenge -> Challenge \cup {None}]

AnyPassword == CHOOSE p \in Password : TRUE
AnyUser == [st |-> "live", source |-> "local", enabled |-> TRUE, locked |-> FALSE,
            pwd |-> AnyPassword, enc |-> TRUE]
Idle == [pc |-> "idle", kind |-> "first", u |-> AnyUser, typed |-> AnyPassword,
         html |-> FALSE, remember |-> FALSE, mode |-> "password_only",
         s |-> None, d |-> None, ch |-> None, edit |-> "none", old |-> {}]

WebInit ==
    /\ TableInit
    /\ \E source \in {"local", "ldap"}, enc \in BOOLEAN :
          user = [AnyUser EXCEPT !.source = source, !.enc = enc]
    /\ directory = [locked |-> FALSE, pwd |-> AnyPassword]
    /\ passkey = TRUE
    /\ sess = [s \in Session |-> [st |-> "absent", created |-> 0, expires |-> 0,
                                  mode |-> "password_only", via |-> None]]
    /\ dev = [d \in Device |-> [st |-> "absent", expires |-> 0]]
    /\ call = [c \in Call |-> Idle]
    /\ banned = FALSE /\ late = {} /\ signed = {}
    /\ ceremony = [c \in Challenge |-> None]

accountVars == <<user, directory, passkey, banned>>
passkeyVars == <<db, signed, ceremony>>
rowVars == <<user, directory, passkey, banned, db, signed, ceremony, sess, dev>>

Here(c, pc) == call[c].pc = pc
Goto(c, pc) == call' = [call EXCEPT ![c].pc = pc]
Leave(c) == call' = [call EXCEPT ![c] = Idle]

\* A refusal answers the request; only a passkey window that fails lets the
\* form go on as if there had been none.
Refuse(c) == IF call[c].kind = "window"
               THEN call' = [call EXCEPT ![c].kind = "first", ![c].pc = "device", ![c].ch = None]
               ELSE Leave(c)

Exists == user.st = "live"
Usable == Exists /\ user.enabled

-----------------------------------------------------------------------------
(* A request arrives.                                                      *)

\* The first step of a login: the JSON API or the HTML form, with a device
\* cookie or without.
FirstStep(c, p, d) ==
    /\ Here(c, "idle")
    /\ \E html, remember \in BOOLEAN :
          call' = [call EXCEPT ![c] = [Idle EXCEPT !.pc = "verify", !.typed = p, !.d = d,
                                                   !.html = html, !.remember = remember]]
    /\ UNCHANGED rowVars

SecondStep(c, p) ==
    /\ Here(c, "idle")
    /\ \E html, remember \in BOOLEAN :
          call' = [call EXCEPT ![c] = [Idle EXCEPT
                      !.pc = "lookup", !.kind = "second", !.mode = "password+code",
                      !.typed = p, !.html = html, !.remember = remember]]
    /\ UNCHANGED rowVars

\* The form claims an approved push: no password is asked for.
PushClaim(c) ==
    /\ Here(c, "idle")
    /\ \E remember \in BOOLEAN :
          call' = [call EXCEPT ![c] = [Idle EXCEPT
                      !.pc = "lookup", !.kind = "push", !.mode = "push_match",
                      !.html = TRUE, !.remember = remember]]
    /\ UNCHANGED rowVars

BeginPasskey(c, p) ==
    /\ Here(c, "idle")
    /\ call' = [call EXCEPT ![c] = [Idle EXCEPT !.pc = "verify", !.kind = "begin", !.typed = p]]
    /\ UNCHANGED rowVars

-----------------------------------------------------------------------------
(* pv.Verify: the local password, or the directory's answer and the row's  *)
(* synchronisation with it.                                                *)

\* The copy of the row is dropped when nothing will write it back.
Copy(pc, u) == IF pc \in {"enc", "write"} THEN u ELSE AnyUser

AfterEnc(r) == IF r.kind # "first" THEN "create" ELSE IF r.html THEN "pending" ELSE "device"

\* ensurePasswordEnc follows on the form when the row has no password_enc.
AfterPassword(r, row) ==
    CASE r.kind = "begin" -> "keys"
      [] r.kind = "password" -> "write"
      [] r.kind \in {"first", "second"} /\ r.html /\ row.source = "local" /\ ~row.enc -> "enc"
      [] OTHER -> AfterEnc(r)

\* Only the first steps go on with the row Verify returns; the others have
\* one they read before.
Verified(c, row) ==
    LET r == call[c]
        u == IF r.kind \in {"first", "begin"} THEN row ELSE r.u
        pc == AfterPassword(r, u)
    IN call' = [call EXCEPT ![c].pc = pc, ![c].u = Copy(pc, u)]

VerifyLocal(c) ==
    /\ Here(c, "verify") /\ user.source = "local"
    /\ IF Usable /\ user.pwd = call[c].typed THEN Verified(c, user) ELSE Refuse(c)
    /\ UNCHANGED rowVars

\* authenticate: the directory refuses a locked account before its password.
VerifyLdap(c) ==
    /\ Here(c, "verify") /\ user.source = "ldap"
    /\ IF ~Exists THEN Refuse(c)
       ELSE IF directory.locked THEN Goto(c, "lock")
       ELSE IF directory.pwd = call[c].typed THEN Goto(c, "sync")
       ELSE Refuse(c)
    /\ UNCHANGED rowVars

UserUpdate(row) == user' = IF Exists THEN row ELSE user

\* The row of a locked account is disabled; the branch that learns of the
\* lock from a search does not write what is there already.
LdapLock(c) ==
    /\ Here(c, "lock")
    /\ \/ /\ Exists
          /\ call' = [call EXCEPT ![c].pc = "lockwrite",
                                  ![c].u = [user EXCEPT !.enabled = FALSE, !.locked = TRUE]]
       \/ ~Exists /\ Refuse(c)
       \/ user.locked /\ ~user.enabled /\ Refuse(c)
    /\ UNCHANGED rowVars

LdapLockWrite(c) ==
    /\ Here(c, "lockwrite")
    /\ UserUpdate(call[c].u)
    /\ Refuse(c)
    /\ UNCHANGED <<directory, passkey, banned, passkeyVars, sess, dev>>

\* syncUser: an account the directory had locked is enabled again; the row is
\* written when that or an attribute of the directory has changed.
Resync(row) == IF row.locked THEN [row EXCEPT !.locked = FALSE, !.enabled = TRUE] ELSE row

\* mistake: the synchronised row is not looked at again
LdapAcceptAny(c, row) == Verified(c, row)
LdapAccept(c, row) == IF row.enabled THEN Verified(c, row) ELSE Refuse(c)

LdapSync(c) ==
    /\ Here(c, "sync")
    /\ \/ Exists /\ call' = [call EXCEPT ![c].pc = "syncwrite", ![c].u = Resync(user)]
       \/ Exists /\ ~user.locked /\ LdapAccept(c, user)
       \/ ~Exists /\ Refuse(c)
    /\ UNCHANGED rowVars

LdapSyncWrite(c) ==
    /\ Here(c, "syncwrite")
    /\ UserUpdate(call[c].u)
    /\ IF Exists THEN LdapAccept(c, call[c].u) ELSE Refuse(c)
    /\ UNCHANGED <<directory, passkey, banned, passkeyVars, sess, dev>>

-----------------------------------------------------------------------------
(* The login goes on.                                                      *)

\* ensurePasswordEnc: the row as it was read, and its error is dropped.
StorePasswordEnc(c) ==
    /\ Here(c, "enc")
    /\ UserUpdate([call[c].u EXCEPT !.enc = TRUE])
    /\ call' = [call EXCEPT ![c].pc = AfterEnc(call[c]), ![c].u = AnyUser]
    /\ UNCHANGED <<directory, passkey, banned, passkeyVars, sess, dev>>

\* The passkey windows consumeWebauthnPending and HasWebauthnPending see.
Windows == {w \in Challenge : Open(w) /\ db[w].purpose = "webauthn_web_pending"}

\* HasWebauthnPending: the form tries loginStep2 with an empty code.
LookForWindow(c) ==
    /\ Here(c, "pending")
    /\ IF Windows # {}
         THEN call' = [call EXCEPT ![c].pc = "lookup", ![c].kind = "window", ![c].mode = "passkey"]
         ELSE Goto(c, "device")
    /\ UNCHANGED rowVars

\* UserByUsername of loginStep2 and of the push claim.  An empty code of the
\* form is its first step, never its second.
Lookup(c) ==
    /\ Here(c, "lookup")
    /\ IF Usable
         THEN \E pc \in {"factor", "select"} :
                 /\ pc = "select" => call[c].kind = "window" \/ ~call[c].html
                 /\ call[c].kind = "window" => pc = "select"
                 /\ call' = [call EXCEPT ![c].pc = pc,
                                         ![c].u = IF call[c].kind = "second" /\ call[c].html
                                                      THEN user ELSE AnyUser]
         ELSE Refuse(c)
    /\ UNCHANGED rowVars

\* A typed code or an approved push, accepted or refused.
Factor(c) ==
    /\ Here(c, "factor")
    /\ \/ Goto(c, IF call[c].kind = "push" THEN "create" ELSE "verify")
       \/ Refuse(c)
    /\ UNCHANGED rowVars

\* ORDER BY created_at DESC LIMIT 1.
SelectWindow(c) ==
    /\ Here(c, "select")
    /\ \/ \E w \in Windows :
             /\ \A v \in Windows : db[v].created <= db[w].created
             /\ call' = [call EXCEPT ![c].pc = "mark", ![c].ch = w]
       \/ Windows = {} /\ Refuse(c)
    /\ UNCHANGED rowVars

MarkWindow(c) ==
    /\ Here(c, "mark")
    /\ db' = MarkUsed(call[c].ch)
    /\ IF Claimable(call[c].ch) THEN Goto(c, "verify") ELSE Refuse(c)
    /\ UNCHANGED <<accountVars, signed, ceremony, sess, dev>>

\* DeviceGet: expires_at > now().
Trusted(d) == d # None /\ dev[d].st = "live" /\ dev[d].expires > now

CheckDevice(c) ==
    /\ Here(c, "device")
    /\ IF Trusted(call[c].d)
         THEN call' = [call EXCEPT ![c].pc = "create", ![c].mode = "trusted_device"]
         ELSE Goto(c, "methods")
    /\ UNCHANGED rowVars

\* Without a second factor the password is enough; only the form still
\* trusts the browser then.
CheckMethods(c) ==
    /\ Here(c, "methods")
    /\ IF OtherFactor \/ passkey
         THEN Leave(c)
         ELSE call' = [call EXCEPT ![c].pc = "create", ![c].mode = "password_only",
                                   ![c].remember = @ /\ call[c].html]
    /\ UNCHANGED rowVars

\* createSession: no session without its user, ON DELETE CASCADE.
CreateSession(c, s) ==
    /\ Here(c, "create") /\ sess[s].st = "absent"
    /\ sess' = IF Exists
                 THEN [sess EXCEPT ![s] = [st |-> "live", created |-> now,
                                           expires |-> now + SessionTTL,
                                           mode |-> call[c].mode, via |-> call[c].ch]]
                 ELSE sess
    /\ IF Exists /\ call[c].remember THEN Goto(c, "trust") ELSE Leave(c)
    /\ UNCHANGED <<accountVars, passkeyVars, dev>>

TrustDevice(c, d) ==
    /\ Here(c, "trust") /\ dev[d].st = "absent"
    /\ dev' = IF Exists THEN [dev EXCEPT ![d] = [st |-> "live", expires |-> now + DeviceTTL]]
                        ELSE dev
    /\ Leave(c)
    /\ UNCHANGED <<accountVars, passkeyVars, sess>>

-----------------------------------------------------------------------------
(* The passkey ceremony: after the password a row of challenges, after the *)
(* signature a window that one login may use.                              *)

\* The hash of the ceremony's handle: no query here asks which.  push_state
\* holds the ceremony's data, which is no state of a push.
Handle == CHOOSE k \in Code : TRUE

ReadKeys(c) ==
    /\ Here(c, "keys")
    /\ IF passkey THEN Goto(c, "ceremony") ELSE Leave(c)
    /\ UNCHANGED rowVars

SaveCeremony(c, x) ==
    /\ Here(c, "ceremony")
    /\ \/ /\ Exists
          /\ ChallengeCreate(x, "webauthn_session", "webauthn", "null", Handle, 1, CeremonyTTL)
       \/ ~Exists /\ UNCHANGED db
    /\ Leave(c)
    /\ UNCHANGED <<accountVars, signed, ceremony, sess, dev>>

\* waSessionUser and the reading half of claimSession.
ReadCeremony(c, x) ==
    /\ Here(c, "idle")
    /\ Exists /\ Open(x) /\ db[x].purpose = "webauthn_session"
    /\ call' = [call EXCEPT ![c] = [Idle EXCEPT !.pc = "claim", !.kind = "finish", !.ch = x]]
    /\ UNCHANGED rowVars

ClaimCeremony(c) ==
    /\ Here(c, "claim")
    /\ db' = MarkUsed(call[c].ch)
    /\ IF Claimable(call[c].ch) THEN Goto(c, "assert") ELSE Leave(c)
    /\ UNCHANGED <<accountVars, signed, ceremony, sess, dev>>

\* FinishLogin of the library, over the credentials the user has now.
VerifySignature(c) ==
    /\ Here(c, "assert")
    /\ \/ passkey /\ signed' = signed \cup {call[c].ch} /\ Goto(c, "signin")
       \/ Leave(c) /\ UNCHANGED signed
    /\ UNCHANGED <<accountVars, db, ceremony, sess, dev>>

\* WACredUpdateSignIn finds no row of a key deleted since.
SignIn(c) ==
    /\ Here(c, "signin")
    /\ IF passkey THEN Goto(c, "approve") ELSE Leave(c)
    /\ UNCHANGED rowVars

ApproveCeremony(c) ==
    /\ Here(c, "approve")
    /\ db' = SetPush(call[c].ch, "approved")
    /\ Goto(c, "window")
    /\ UNCHANGED <<accountVars, signed, ceremony, sess, dev>>

OpenWindow(c, w) ==
    /\ Here(c, "window")
    /\ \/ /\ Exists
          /\ ChallengeCreate(w, "webauthn_web_pending", "webauthn", "null", NoCode, 1, WindowTTL)
          /\ ceremony' = [ceremony EXCEPT ![w] = call[c].ch]
       \/ ~Exists /\ UNCHANGED <<db, ceremony>>
    /\ Leave(c)
    /\ UNCHANGED <<accountVars, signed, sess, dev>>

-----------------------------------------------------------------------------
(* The cabinet, behind RequireSession and requirePage.                     *)

\* SessionGet: expires_at > now().
Cabinet(c, s, kind, p) ==
    /\ Here(c, "idle")
    /\ sess[s].st = "live" /\ sess[s].expires > now
    /\ call' = [call EXCEPT ![c] = [Idle EXCEPT !.pc = "load", !.kind = kind,
                                                !.s = s, !.typed = p]]
    /\ UNCHANGED rowVars

\* UserByID.  The password of an LDAP user is changed in the directory only.
LoadUser(c) ==
    /\ Here(c, "load")
    /\ LET k == call[c].kind
       IN IF ~Usable \/ (k = "password" /\ user.source = "ldap") THEN Leave(c)
          ELSE call' = [call EXCEPT
                          ![c].u = IF k \in {"password", "profile"} THEN user ELSE @,
                          ![c].pc = CASE k = "password" -> "verify"
                                      [] k = "profile" -> "write"
                                      [] OTHER -> "operate"]
    /\ UNCHANGED rowVars

Logout(c) ==
    /\ Here(c, "operate") /\ call[c].kind = "logout"
    /\ LET s == call[c].s
       IN sess' = [sess EXCEPT ![s].st = "deleted"]
    /\ Leave(c)
    /\ UNCHANGED <<accountVars, passkeyVars, dev>>

ForgetDevice(c, d) ==
    /\ Here(c, "operate") /\ call[c].kind = "forget"
    /\ dev' = [dev EXCEPT ![d].st = IF @ = "live" THEN "deleted" ELSE @]
    /\ Leave(c)
    /\ UNCHANGED <<accountVars, passkeyVars, sess>>

DeleteKey(c) ==
    /\ Here(c, "operate") /\ call[c].kind = "unkey"
    /\ passkey' = FALSE
    /\ Leave(c)
    /\ UNCHANGED <<user, directory, banned, passkeyVars, sess, dev>>

\* handleUserPatch loads the row and changes what the administrator sent; an
\* edit "none" is a change of other columns, and handleUnlinkTelegram.
Patch(c, edit) ==
    /\ Here(c, "idle") /\ Exists
    /\ call' = [call EXCEPT ![c] = [Idle EXCEPT !.pc = "write", !.kind = "patch",
                                                !.u = user, !.edit = edit]]
    /\ UNCHANGED rowVars

\* What a cabinet operation or a patch makes of the row it read: the whole
\* row is written, whatever the table holds by now.
Edited(r, p) ==
    CASE r.kind = "password" \/ r.edit = "password" -> [r.u EXCEPT !.pwd = p, !.enc = TRUE]
      [] r.edit = "enable" -> [r.u EXCEPT !.enabled = TRUE]
      [] r.edit = "disable" -> [r.u EXCEPT !.enabled = FALSE]
      [] OTHER -> r.u

LiveCookies == {s \in Session : sess[s].st = "live"} \cup {d \in Device : dev[d].st = "live"}

WriteUser(c, p) ==
    /\ Here(c, "write")
    /\ UserUpdate(Edited(call[c], p))
    /\ banned' = IF Exists /\ call[c].edit \in {"enable", "disable"}
                   THEN call[c].edit = "disable" ELSE banned
    /\ IF Exists /\ call[c].kind = "password"
         THEN call' = [call EXCEPT ![c].pc = "sessions", ![c].old = LiveCookies]
         ELSE Leave(c)
    /\ UNCHANGED <<directory, passkey, passkeyVars, sess, dev>>

\* mistake: only what has expired goes
ExpiredRows(rows) == [x \in DOMAIN rows |-> [rows[x] EXCEPT
                        !.st = IF @ = "live" /\ rows[x].expires < now THEN "deleted" ELSE @]]
DeletedRows(rows) == [x \in DOMAIN rows |-> [rows[x] EXCEPT
                        !.st = IF @ = "live" THEN "deleted" ELSE @]]

\* mistake: only the session that asked is closed
RevokeOwnSession(c) ==
    /\ Here(c, "sessions")
    /\ LET s == call[c].s
       IN sess' = [sess EXCEPT ![s].st = "deleted"]
    /\ Goto(c, "devices")
    /\ UNCHANGED <<accountVars, passkeyVars, dev>>

RevokeSessions(c) ==
    /\ Here(c, "sessions")
    /\ sess' = DeletedRows(sess)
    /\ Goto(c, "devices")
    /\ UNCHANGED <<accountVars, passkeyVars, dev>>

RevokeDevices(c) ==
    /\ Here(c, "devices")
    /\ dev' = DeletedRows(dev)
    /\ Leave(c)
    /\ UNCHANGED <<accountVars, passkeyVars, sess>>

-----------------------------------------------------------------------------
(* The administrator, the directory and time.                              *)

\* ON DELETE CASCADE of the tables that refer to the user.
DeleteUser ==
    /\ Exists
    /\ user' = [user EXCEPT !.st = "deleted"]
    /\ sess' = DeletedRows(sess)
    /\ dev' = DeletedRows(dev)
    /\ db' = DeletedRows(db)
    /\ passkey' = FALSE
    /\ UNCHANGED <<directory, banned, signed, ceremony, call>>

DeleteDevices ==
    /\ Exists
    /\ dev' = DeletedRows(dev)
    /\ UNCHANGED <<accountVars, passkeyVars, sess, call>>

ResetKeys ==
    /\ Exists
    /\ passkey' = FALSE
    /\ UNCHANGED <<user, directory, banned, passkeyVars, sess, dev, call>>

DirectoryChanges ==
    /\ user.source = "ldap"
    /\ directory' \in [locked: BOOLEAN, pwd: Password]
    /\ UNCHANGED <<user, passkey, banned, passkeyVars, sess, dev, call>>

Tick ==
    /\ now < MaxTime
    /\ now' = now + 1
    /\ UNCHANGED <<rowVars, call>>

Arrive(c) ==
    \/ \E p \in Password : \/ \E d \in Device \cup {None} : FirstStep(c, p, d)
                           \/ SecondStep(c, p) \/ BeginPasskey(c, p)
                           \/ \E s \in Session, kind \in CabinetKind : Cabinet(c, s, kind, p)
    \/ PushClaim(c)
    \/ \E x \in Challenge : ReadCeremony(c, x)
    \/ \E edit \in {"none", "enable", "disable", "password"} : Patch(c, edit)

Proceed(c) ==
    \/ VerifyLocal(c) \/ VerifyLdap(c) \/ LdapLock(c) \/ LdapLockWrite(c)
    \/ LdapSync(c) \/ LdapSyncWrite(c) \/ StorePasswordEnc(c)
    \/ LookForWindow(c) \/ Lookup(c) \/ Factor(c) \/ SelectWindow(c) \/ MarkWindow(c)
    \/ CheckDevice(c) \/ CheckMethods(c)
    \/ \E s \in Session : CreateSession(c, s)
    \/ \E d \in Device : TrustDevice(c, d) \/ ForgetDevice(c, d)
    \/ ReadKeys(c) \/ ClaimCeremony(c) \/ VerifySignature(c) \/ SignIn(c) \/ ApproveCeremony(c)
    \/ \E x \in Challenge : SaveCeremony(c, x) \/ OpenWindow(c, x)
    \/ LoadUser(c) \/ Logout(c) \/ DeleteKey(c)
    \/ \E p \in Password : WriteUser(c, p)
    \/ RevokeSessions(c) \/ RevokeDevices(c)

\* The user was never enabled since the call began.
Remember ==
    late' = IF Usable' THEN {}
            ELSE {c \in Call : call'[c].pc # "idle" /\ (c \in late \/ call[c].pc = "idle")}

WebStep ==
    /\ \/ (\E c \in Call : Arrive(c) \/ Proceed(c)) /\ UNCHANGED now
       \/ (DeleteUser \/ DeleteDevices \/ ResetKeys \/ DirectoryChanges) /\ UNCHANGED now
       \/ Tick
    /\ Remember
=============================================================================

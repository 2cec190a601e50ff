---------------------------- MODULE OidcProvider ----------------------------
(***************************************************************************)
(* The OIDC provider over the web sessions of one user: the consent turns  *)
(* a session into an authorization code, the token endpoint turns a code   *)
(* into an access token, and the administrator edits and deletes clients.  *)
(* A step is one SQL statement with the code up to the next.               *)
(*                                                                         *)
(* The checks of the request (scope, redirect_uri, PKCE, the client's      *)
(* secret) are choices; userinfo only reads.                               *)
(***************************************************************************)
EXTENDS WebSession

CONSTANTS Flow,         \* the requests to the provider in flight
          Client,
          AuthCode,     \* the codes handleAuthorizeConfirm may draw
          Token,        \* the access tokens handleToken may draw
          CodeLife, TokenLife

ASSUME OidcAssumption ==
    /\ None \notin Client \cup AuthCode
    /\ CodeLife \in Nat /\ TokenLife \in Nat

VARIABLES client,       \* oidc_clients, and whether the user may use each
          code, token,  \* oidc_codes, oidc_tokens
          flow

oidcVars == <<client, code, token, flow>>
webVars == <<rowVars, call, late, now>>
vars == <<webVars, oidcVars>>

Methods == {"pwd", "pwd,dvc", "pwd,mfa"}
CodeRow == [st: State, used: BOOLEAN, expires: Nat, client: Client \cup {None},
            authTime: Nat, amr: Methods, from: Session \cup {None}]
TokenRow == [st: State, expires: Nat, client: Client \cup {None}, amr: Methods,
             code: AuthCode \cup {None}]

\* s: the session of the consent; code: the code presented; the rest is what
\* was read so far.
FlowRecord == [pc: {"idle", "mode", "owner", "client", "save",
                    "claim", "holder", "issue", "tokens", "remove"},
               client: Client \cup {None}, s: Session \cup {None},
               code: AuthCode \cup {None}, authTime: Nat, amr: Methods]

NoCodeRow == [st |-> "absent", used |-> FALSE, expires |-> 0, client |-> None,
              authTime |-> 0, amr |-> "pwd,mfa", from |-> None]
NoToken == [st |-> "absent", expires |-> 0, client |-> None, amr |-> "pwd,mfa", code |-> None]
NoFlow == [pc |-> "idle", client |-> None, s |-> None, code |-> None,
           authTime |-> 0, amr |-> "pwd,mfa"]

\* The rows, the calls and the history have their types.
TypeOK ==
    /\ WebTypeOK
    /\ client \in [Client -> [st: {"live", "deleted"}, allowed: BOOLEAN]]
    /\ code \in [AuthCode -> CodeRow]
    /\ token \in [Token -> TokenRow]
    /\ flow \in [Flow -> FlowRecord]

Init ==
    /\ WebInit
    /\ client = [k \in Client |-> [st |-> "live", allowed |-> TRUE]]
    /\ code = [x \in AuthCode |-> NoCodeRow]
    /\ token = [t \in Token |-> NoToken]
    /\ flow = [f \in Flow |-> NoFlow]

At(f, pc) == flow[f].pc = pc
Jump(f, pc) == flow' = [flow EXCEPT ![f].pc = pc]
End(f) == flow' = [flow EXCEPT ![f] = NoFlow]

Purged(rows) == [x \in DOMAIN rows |-> IF rows[x].st = "live" /\ rows[x].expires < now
                                         THEN [rows[x] EXCEPT !.st = "deleted"] ELSE rows[x]]

-----------------------------------------------------------------------------
(* The consent: sessionUser, loadClient, isUserAllowed, OIDCCodeSave.      *)

\* OIDCSessionInfo: expires_at > now().
Consent(f, s, k) ==
    /\ At(f, "idle")
    /\ sess[s].st = "live" /\ sess[s].expires > now
    /\ flow' = [flow EXCEPT ![f] = [NoFlow EXCEPT !.pc = "mode", !.client = k, !.s = s,
                                                  !.authTime = sess[s].created]]
    /\ UNCHANGED <<client, code, token>>

AMRRaw(mode) == mode             \* mistake: the mode is taken for a method
AMRForMode(mode) == CASE mode = "password_only" -> "pwd"
                      [] mode = "trusted_device" -> "pwd,dvc"
                      [] OTHER -> "pwd,mfa"

\* SessionAuthMode, whose error is dropped: no row is no mode.
ReadMode(f) ==
    /\ At(f, "mode")
    /\ LET s == flow[f].s
       IN flow' = [flow EXCEPT ![f].pc = "owner",
                     ![f].amr = AMRForMode(IF sess[s].st = "live" THEN sess[s].mode ELSE "")]
    /\ UNCHANGED <<client, code, token>>

ReadOwner(f) ==
    /\ At(f, "owner")
    /\ IF Usable THEN Jump(f, "client") ELSE End(f)
    /\ UNCHANGED <<client, code, token>>

ReadClient(f) ==
    /\ At(f, "client")
    /\ LET k == flow[f].client
       IN IF client[k].st = "live" /\ client[k].allowed THEN Jump(f, "save") ELSE End(f)
    /\ UNCHANGED <<client, code, token>>

\* The row refers to its user but not to its client.
SaveCode(f, x) ==
    /\ At(f, "save") /\ code[x].st = "absent"
    /\ code' = IF Exists
                 THEN [Purged(code) EXCEPT ![x] =
                         [st |-> "live", used |-> FALSE, expires |-> now + CodeLife,
                          client |-> flow[f].client, authTime |-> flow[f].authTime,
                          amr |-> flow[f].amr, from |-> flow[f].s]]
                 ELSE code
    /\ End(f)
    /\ UNCHANGED <<client, token>>

-----------------------------------------------------------------------------
(* The token endpoint.                                                     *)

Present(f, x, k) ==
    /\ At(f, "idle") /\ code[x].st # "absent"
    /\ client[k].st = "live"
    /\ flow' = [flow EXCEPT ![f] = [NoFlow EXCEPT !.pc = "claim", !.client = k, !.code = x]]
    /\ UNCHANGED <<client, code, token>>

\* OIDCCodeClaim: UPDATE ... WHERE used_at IS NULL AND expires_at > now().
CodeUnexpired(x) == code[x].st = "live" /\ code[x].expires > now   \* mistake: used or not
CodeOpen(x) == code[x].st = "live" /\ ~code[x].used /\ code[x].expires > now

\* The row goes to the client that consented, with a verifier that fits; it
\* is spent whoever presents it.
AnyGrant(x, k) == TRUE           \* mistake: whoever presents the code gets the token
GrantFits(x, k) == code[x].client = k

ClaimCode(f) ==
    /\ At(f, "claim")
    /\ LET x == flow[f].code
       IN \/ /\ CodeOpen(x)
             /\ code' = [code EXCEPT ![x].used = TRUE]
             /\ \/ /\ GrantFits(x, flow[f].client)
                   /\ flow' = [flow EXCEPT ![f].pc = "holder", ![f].amr = code[x].amr]
                \/ End(f)
          \/ ~CodeOpen(x) /\ End(f) /\ UNCHANGED code
    /\ UNCHANGED <<client, token>>

\* UserByID: the user must exist, enabled or not.
ReadHolder(f) ==
    /\ At(f, "holder")
    /\ IF Exists THEN Jump(f, "issue") ELSE End(f)
    /\ UNCHANGED <<client, code, token>>

SaveToken(f, t) ==
    /\ At(f, "issue") /\ token[t].st = "absent"
    /\ token' = IF Exists
                  THEN [Purged(token) EXCEPT ![t] =
                          [st |-> "live", expires |-> now + TokenLife, client |-> flow[f].client,
                           amr |-> flow[f].amr, code |-> flow[f].code]]
                  ELSE token
    /\ End(f)
    /\ UNCHANGED <<client, code>>

-----------------------------------------------------------------------------
(* The administrator's clients.                                            *)

UpdateClient(k) ==
    /\ client[k].st = "live"
    /\ \E allowed \in BOOLEAN : client' = [client EXCEPT ![k].allowed = allowed]
    /\ UNCHANGED <<code, token, flow>>

DeletedOf(rows, k) == [x \in DOMAIN rows |-> IF rows[x].st = "live" /\ rows[x].client = k
                                               THEN [rows[x] EXCEPT !.st = "deleted"]
                                               ELSE rows[x]]

\* OIDCClientDelete: the codes, the tokens, the client, in three statements.
DeleteClientCodes(f, k) ==
    /\ At(f, "idle") /\ client[k].st = "live"
    /\ code' = DeletedOf(code, k)
    /\ flow' = [flow EXCEPT ![f] = [NoFlow EXCEPT !.pc = "tokens", !.client = k]]
    /\ UNCHANGED <<client, token>>

\* The subquery finds no client when another request was faster.
DeleteClientTokens(f) ==
    /\ At(f, "tokens")
    /\ LET k == flow[f].client
       IN token' = IF client[k].st = "live" THEN DeletedOf(token, k) ELSE token
    /\ Jump(f, "remove")
    /\ UNCHANGED <<client, code>>

DeleteClient(f) ==
    /\ At(f, "remove")
    /\ LET k == flow[f].client
       IN client' = [client EXCEPT ![k].st = "deleted"]
    /\ End(f)
    /\ UNCHANGED <<code, token>>

OidcStep ==
    \/ \E f \in Flow :
          \/ \E k \in Client : \/ \E s \in Session : Consent(f, s, k)
                               \/ \E x \in AuthCode : Present(f, x, k)
                               \/ DeleteClientCodes(f, k)
          \/ ReadMode(f) \/ ReadOwner(f) \/ ReadClient(f)
          \/ \E x \in AuthCode : SaveCode(f, x)
          \/ ClaimCode(f) \/ ReadHolder(f)
          \/ \E t \in Token : SaveToken(f, t)
          \/ DeleteClientTokens(f) \/ DeleteClient(f)
    \/ \E k \in Client : UpdateClient(k)

\* The codes and tokens of a deleted user go with the row.
Cascade ==
    IF Exists /\ ~Exists'
      THEN code' = DeletedRows(code) /\ token' = DeletedRows(token) /\ UNCHANGED <<client, flow>>
      ELSE UNCHANGED oidcVars

Next == \/ WebStep /\ Cascade
        \/ OidcStep /\ UNCHANGED webVars

Spec == Init /\ [][Next]_vars

-----------------------------------------------------------------------------
(* Properties.                                                             *)

\* A passkey that signed one ceremony opens at most one session, and none is
\* opened through a passkey window without a verified signature
\* (claimSession, handleWAFinish, consumeWebauthnPending).
PasskeyGrant ==
    INSTANCE OneTimeGrant WITH
        Token <- Challenge, Redeemer <- Session, proved <- signed,
        redeemed <- {<<ceremony[sess[s].via], s>> :
                        s \in {r \in Session : sess[r].st # "absent" /\ sess[r].via # None}}
PasskeyGrantSpec == PasskeyGrant!Spec

\* A consent buys at most one access token, whatever clients and retries
\* present its code (OIDCCodeClaim before OIDCTokenSave).
TokenGrant ==
    INSTANCE OneTimeGrant WITH
        Token <- AuthCode, Redeemer <- Token,
        proved <- {x \in AuthCode : code[x].st # "absent"},
        redeemed <- {<<token[t].code, t>> : t \in {u \in Token : token[u].st # "absent"}}
TokenGrantSpec == TokenGrant!Spec

\* A token is for the client that its user consented to, with the moment and
\* the methods of the session that consented; only a session deleted while
\* the consent was read leaves the default methods (sessionUser).
ConsentKept ==
    /\ \A t \in Token : token[t].st # "absent" =>
          LET x == code[token[t].code]
          IN token[t].client = x.client /\ token[t].amr = x.amr
    /\ \A x \in AuthCode : code[x].st # "absent" =>
          LET s == sess[code[x].from]
          IN /\ code[x].authTime = s.created
             /\ \/ code[x].amr = AMRForMode(s.mode)
                \/ code[x].amr = AMRForMode("") /\ s.st = "deleted"

\* A deleted user has no session, trusted browser, challenge, code or token,
\* and no request that was under way leaves one behind (ON DELETE CASCADE
\* and the foreign keys of the inserts).
DeletedLeavesNothing ==
    ~Exists => /\ LiveCookies = {}
               /\ \A c \in Challenge : ~Live(c)
               /\ \A x \in AuthCode : code[x].st # "live"
               /\ \A t \in Token : token[t].st # "live"

\* Nobody gets a session or trusts a browser by a request during which the
\* account was never enabled, whatever stale rows, directory answers and
\* administrators do meanwhile (Verify, Lookup).
OnlyEnabledEnter ==
    \A c \in Call : call[c].pc \in {"create", "trust"} => c \notin late

\* When a password change is over, every session and trusted browser the user
\* had when the new password was written is gone, though logins go on
\* (handlePasswordChange).
CookiesRevoked ==
    \A c \in Call : Here(c, "devices") /\ Here(c, "idle")' =>
        \A x \in call[c].old : IF x \in Session THEN sess'[x].st = "deleted"
                                                ELSE dev'[x].st = "deleted"
PasswordRevokes == [][CookiesRevoked]_vars

\* README.md:203: an account an administrator has disabled stays disabled,
\* the synchronisation with the directory does not enable it again.
DisabledStays == banned /\ Exists => ~user.enabled
=============================================================================

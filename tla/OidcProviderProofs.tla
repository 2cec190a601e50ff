-------------------------- MODULE OidcProviderProofs --------------------------
(***************************************************************************)
(* Safety of the web login and of the OIDC provider, for any number of     *)
(* requests, cookies, challenges, clients, codes and tokens.               *)
(*                                                                         *)
(* WebSessionProofs says what a step of the web does; here are the rows    *)
(* and the requests of the provider, and the theorems about both.          *)
(***************************************************************************)
EXTENDS OidcProvider, WebSessionProofs

-----------------------------------------------------------------------------
(* The invariant.                                                          *)

\* A request that turns a session into a code; one whose code's methods are
\* read; one that has claimed a code and has not made a token of it.
Consenting(r) == r.pc \in {"mode", "owner", "client", "save"}
ModeRead(r) == r.pc \in {"owner", "client", "save"}
HasCode(r) == r.pc \in {"holder", "issue"}

\* The methods are those of the session, or its row is gone and they are the
\* default.
AmrOf(row, amr) == \/ amr = AMRForMode(row.mode)
                   \/ amr = AMRForMode("") /\ row.st = "deleted"

CodesVouched ==
    \A x \in AuthCode : code[x].st # "absent" =>
        /\ code[x].from \in Session
        /\ sess[code[x].from].st # "absent"
        /\ code[x].authTime = sess[code[x].from].created
        /\ AmrOf(sess[code[x].from], code[x].amr)

FlowsVouched ==
    \A f \in Flow :
        LET r == flow[f]
        IN /\ Consenting(r) => /\ r.s \in Session /\ sess[r.s].st # "absent"
                               /\ r.authTime = sess[r.s].created
           /\ ModeRead(r) => AmrOf(sess[r.s], r.amr)
           /\ r.pc = "claim" => r.code \in AuthCode

\* A token comes from a spent code, and carries its client and methods.
TokensGranted ==
    \A t \in Token : token[t].st # "absent" =>
        /\ token[t].code \in AuthCode
        /\ code[token[t].code].st # "absent" /\ code[token[t].code].used
        /\ token[t].client = code[token[t].code].client
        /\ token[t].amr = code[token[t].code].amr

\* So does a request that is about to make one, and its code has none yet.
FlowsGranted ==
    \A f \in Flow :
        LET r == flow[f]
        IN HasCode(r) =>
              /\ r.code \in AuthCode
              /\ code[r.code].st # "absent" /\ code[r.code].used
              /\ r.client = code[r.code].client /\ r.amr = code[r.code].amr
              /\ \A t \in Token : token[t].st # "absent" => token[t].code # r.code

\* No two requests have claimed one code.
GrantsApart ==
    \A f, g \in Flow : f # g /\ HasCode(flow[f]) /\ HasCode(flow[g]) => flow[f].code # flow[g].code

NoGrantLeft == ~Exists => /\ \A x \in AuthCode : code[x].st # "live"
                          /\ \A t \in Token : token[t].st # "live"

OidcTypeOK == /\ client \in [Client -> [st: {"live", "deleted"}, allowed: BOOLEAN]]
              /\ code \in [AuthCode -> CodeRow]
              /\ token \in [Token -> TokenRow]
              /\ flow \in [Flow -> FlowRecord]

GrantInv == CodesVouched /\ FlowsVouched /\ TokensGranted /\ FlowsGranted /\ GrantsApart

IInv == WebInv /\ OidcTypeOK /\ GrantInv /\ NoGrantLeft

-----------------------------------------------------------------------------
(* The rows of the provider.                                               *)

\* What no statement does to a code or to a token.
CodeKept(x) ==
    /\ code[x].st # "absent" =>
          /\ code'[x].st # "absent" /\ code'[x].client = code[x].client
          /\ code'[x].authTime = code[x].authTime /\ code'[x].amr = code[x].amr
          /\ code'[x].from = code[x].from
          /\ code[x].used => code'[x].used
TokenKept(t) ==
    token[t].st # "absent" =>
        /\ token'[t].st # "absent" /\ token'[t].client = token[t].client
        /\ token'[t].amr = token[t].amr /\ token'[t].code = token[t].code

\* The statements that make no row keep them all, and revive none.
CodesSame == /\ code' \in [AuthCode -> CodeRow]
             /\ \A x \in AuthCode : /\ CodeKept(x)
                                    /\ code'[x].st # "absent" => code[x].st # "absent"
                                    /\ code'[x].st = "live" => code[x].st = "live"
TokensSame == /\ token' \in [Token -> TokenRow]
              /\ \A t \in Token : /\ TokenKept(t)
                                  /\ token'[t].st # "absent" => token[t].st # "absent"
                                  /\ token'[t].st = "live" => token[t].st = "live"

LEMMA GrantsUnchanged ==
    ASSUME OidcTypeOK
    PROVE  /\ UNCHANGED code => CodesSame
           /\ UNCHANGED token => TokensSame
  BY DEF OidcTypeOK, CodesSame, TokensSame, CodeKept, TokenKept

LEMMA CodesDeleted ==
    ASSUME OidcTypeOK, NEW rows \in {Purged(code), DeletedRows(code)} \cup {DeletedOf(code, k) : k \in Client \cup {None}}
    PROVE  /\ code' = rows => CodesSame
           /\ rows \in [AuthCode -> CodeRow]
           /\ \A x \in AuthCode :
                 \/ rows[x] = code[x]
                 \/ code[x].st = "live" /\ rows[x] = [code[x] EXCEPT !.st = "deleted"]
           /\ rows = DeletedRows(code) => \A x \in AuthCode : rows[x].st # "live"
  <1>1. code \in [AuthCode -> CodeRow]
    BY DEF OidcTypeOK
  <1> DEFINE Gone(x) == [code[x] EXCEPT !.st = "deleted"]
  <1>2. ASSUME NEW x \in AuthCode
        PROVE  /\ Gone(x) \in CodeRow /\ Gone(x).st = "deleted" /\ Gone(x).used = code[x].used
               /\ Gone(x).client = code[x].client /\ Gone(x).authTime = code[x].authTime
               /\ Gone(x).amr = code[x].amr /\ Gone(x).from = code[x].from
    BY <1>1 DEF CodeRow, State
  <1>3. \A x \in AuthCode : /\ rows[x] = code[x] \/ (code[x].st = "live" /\ rows[x] = Gone(x))
                            /\ rows = DeletedRows(code) => rows[x].st # "live"
    <2> TAKE x \in AuthCode
    <2>1. code[x] \in CodeRow
      BY <1>1
    <2>2. CASE rows = DeletedRows(code)
      <3>1. rows[x] = [code[x] EXCEPT !.st = IF code[x].st = "live" THEN "deleted" ELSE code[x].st]
        BY <1>1, <2>2 DEF DeletedRows
      <3>2. CASE code[x].st = "live"
        BY <1>2, <3>1, <3>2
      <3>3. CASE code[x].st # "live"
        BY <2>1, <3>1, <3>3 DEF CodeRow
      <3> QED BY <3>2, <3>3
    <2>3. CASE rows = Purged(code)
      <3>1. rows[x] = IF code[x].st = "live" /\ code[x].expires < now THEN Gone(x) ELSE code[x]
        BY <1>1, <2>3 DEF Purged
      <3>2. rows[x] = code[x] \/ (code[x].st = "live" /\ rows[x] = Gone(x))
        BY <3>1
      <3> QED BY <2>2, <3>2
    <2>4. ASSUME NEW k \in Client \cup {None}, rows = DeletedOf(code, k)
          PROVE  /\ rows[x] = code[x] \/ (code[x].st = "live" /\ rows[x] = Gone(x))
                 /\ rows = DeletedRows(code) => rows[x].st # "live"
      <3>1. rows[x] = IF code[x].st = "live" /\ code[x].client = k THEN Gone(x) ELSE code[x]
        BY <1>1, <2>4 DEF DeletedOf
      <3>2. rows[x] = code[x] \/ (code[x].st = "live" /\ rows[x] = Gone(x))
        BY <3>1
      <3> QED BY <2>2, <3>2
    <2> QED BY <2>2, <2>3, <2>4
  <1>4. rows = [x \in AuthCode |-> rows[x]]
    BY <1>1 DEF DeletedRows, Purged, DeletedOf
  <1>5. rows \in [AuthCode -> CodeRow]
    BY <1>1, <1>2, <1>3, <1>4
  <1>6. ASSUME code' = rows
        PROVE  CodesSame
    <2> HIDE DEF Gone
    <2> QED BY <1>2, <1>3, <1>5, <1>6 DEF CodesSame, CodeKept
  <1> QED BY <1>3, <1>5, <1>6

LEMMA TokensDeleted ==
    ASSUME OidcTypeOK, NEW rows \in {Purged(token), DeletedRows(token)} \cup {DeletedOf(token, k) : k \in Client \cup {None}}
    PROVE  /\ token' = rows => TokensSame
           /\ rows \in [Token -> TokenRow]
           /\ \A t \in Token :
                 \/ rows[t] = token[t]
                 \/ token[t].st = "live" /\ rows[t] = [token[t] EXCEPT !.st = "deleted"]
           /\ rows = DeletedRows(token) => \A t \in Token : rows[t].st # "live"
  <1>1. token \in [Token -> TokenRow]
    BY DEF OidcTypeOK
  <1> DEFINE Gone(t) == [token[t] EXCEPT !.st = "deleted"]
  <1>2. ASSUME NEW t \in Token
        PROVE  /\ Gone(t) \in TokenRow /\ Gone(t).st = "deleted"
               /\ Gone(t).client = token[t].client /\ Gone(t).amr = token[t].amr
               /\ Gone(t).code = token[t].code
    BY <1>1 DEF TokenRow, State
  <1>3. \A t \in Token : /\ rows[t] = token[t] \/ (token[t].st = "live" /\ rows[t] = Gone(t))
                         /\ rows = DeletedRows(token) => rows[t].st # "live"
    <2> TAKE t \in Token
    <2>1. token[t] \in TokenRow
      BY <1>1
    <2>2. CASE rows = DeletedRows(token)
      <3>1. rows[t] = [token[t] EXCEPT !.st = IF token[t].st = "live" THEN "deleted" ELSE token[t].st]
        BY <1>1, <2>2 DEF DeletedRows
      <3>2. CASE token[t].st = "live"
        BY <1>2, <3>1, <3>2
      <3>3. CASE token[t].st # "live"
        BY <2>1, <3>1, <3>3 DEF TokenRow
      <3> QED BY <3>2, <3>3
    <2>3. CASE rows = Purged(token)
      <3>1. rows[t] = IF token[t].st = "live" /\ token[t].expires < now THEN Gone(t) ELSE token[t]
        BY <1>1, <2>3 DEF Purged
      <3>2. rows[t] = token[t] \/ (token[t].st = "live" /\ rows[t] = Gone(t))
        BY <3>1
      <3> QED BY <2>2, <3>2
    <2>4. ASSUME NEW k \in Client \cup {None}, rows = DeletedOf(token, k)
          PROVE  /\ rows[t] = token[t] \/ (token[t].st = "live" /\ rows[t] = Gone(t))
                 /\ rows = DeletedRows(token) => rows[t].st # "live"
      <3>1. rows[t] = IF token[t].st = "live" /\ token[t].client = k THEN Gone(t) ELSE token[t]
        BY <1>1, <2>4 DEF DeletedOf
      <3>2. rows[t] = token[t] \/ (token[t].st = "live" /\ rows[t] = Gone(t))
        BY <3>1
      <3> QED BY <2>2, <3>2
    <2> QED BY <2>2, <2>3, <2>4
  <1>4. rows = [t \in Token |-> rows[t]]
    BY <1>1 DEF DeletedRows, Purged, DeletedOf
  <1>5. rows \in [Token -> TokenRow]
    BY <1>1, <1>2, <1>3, <1>4
  <1>6. ASSUME token' = rows
        PROVE  TokensSame
    <2> HIDE DEF Gone
    <2> QED BY <1>2, <1>3, <1>5, <1>6 DEF TokensSame, TokenKept
  <1> QED BY <1>3, <1>5, <1>6

-----------------------------------------------------------------------------
(* The requests to the provider.                                           *)

\* What the invariant says of one request, over the rows of one state.
Sound(r, sessions, codes, tokens) ==
    /\ Consenting(r) => /\ r.s \in Session /\ sessions[r.s].st # "absent"
                        /\ r.authTime = sessions[r.s].created
    /\ ModeRead(r) => AmrOf(sessions[r.s], r.amr)
    /\ r.pc = "claim" => r.code \in AuthCode
    /\ HasCode(r) => /\ r.code \in AuthCode
                     /\ codes[r.code].st # "absent" /\ codes[r.code].used
                     /\ r.client = codes[r.code].client /\ r.amr = codes[r.code].amr
                     /\ \A t \in Token : tokens[t].st # "absent" => tokens[t].code # r.code

LEMMA SoundFlows ==
    /\ FlowsVouched /\ FlowsGranted <=> \A f \in Flow : Sound(flow[f], sess, code, token)
    /\ FlowsVouched' /\ FlowsGranted' <=> \A f \in Flow : Sound(flow'[f], sess', code', token')
  BY DEF FlowsVouched, FlowsGranted, Sound, Consenting, ModeRead, HasCode, AmrOf

\* A request that does not move stays sound.
LEMMA SoundKept ==
    ASSUME sess \in [Session -> SessionRow], OidcTypeOK, \A s \in Session : SessionKept(s),
           \A x \in AuthCode : CodeKept(x),
           NEW r \in FlowRecord, Sound(r, sess, code, token),
           HasCode(r) => \A t \in Token : token'[t].st # "absent" =>
                            \/ token[t].st # "absent" /\ token'[t].code = token[t].code
                            \/ token'[t].code # r.code
    PROVE  Sound(r, sess', code', token')
  <1>1. Consenting(r) => /\ r.s \in Session /\ sess'[r.s].st # "absent"
                         /\ r.authTime = sess'[r.s].created
    BY DEF Sound, SessionKept
  <1>2. ModeRead(r) => AmrOf(sess'[r.s], r.amr)
    <2>1. ModeRead(r) => Consenting(r)
      BY DEF ModeRead, Consenting
    <2> QED BY <2>1 DEF Sound, SessionKept, AmrOf
  <1>3. r.pc = "claim" => r.code \in AuthCode
    BY DEF Sound
  <1>4. HasCode(r) => /\ r.code \in AuthCode
                      /\ code'[r.code].st # "absent" /\ code'[r.code].used
                      /\ r.client = code'[r.code].client /\ r.amr = code'[r.code].amr
    BY DEF Sound, CodeKept
  <1>5. HasCode(r) => \A t \in Token : token'[t].st # "absent" => token'[t].code # r.code
    BY DEF Sound
  <1> QED BY <1>1, <1>2, <1>3, <1>4, <1>5 DEF Sound

\* The rows of the invariant, when no code and no token is made.
LEMMA GrantRowsKept ==
    ASSUME sess \in [Session -> SessionRow], OidcTypeOK, \A s \in Session : SessionKept(s),
           CodesSame, TokensSame, GrantInv
    PROVE  CodesVouched' /\ TokensGranted'
  <1>1. CodesVouched'
    <2> SUFFICES ASSUME NEW x \in AuthCode, code'[x].st # "absent"
                 PROVE  /\ code'[x].from \in Session
                        /\ sess'[code'[x].from].st # "absent"
                        /\ code'[x].authTime = sess'[code'[x].from].created
                        /\ AmrOf(sess'[code'[x].from], code'[x].amr)
      BY DEF CodesVouched, AmrOf
    <2>1. /\ code[x].st # "absent" /\ code'[x].from = code[x].from
          /\ code'[x].authTime = code[x].authTime /\ code'[x].amr = code[x].amr
      BY DEF CodesSame, CodeKept
    <2>2. PICK s \in Session : s = code[x].from
      BY <2>1 DEF GrantInv, CodesVouched
    <2>3. sess[s].st # "absent" /\ code[x].authTime = sess[s].created /\ AmrOf(sess[s], code[x].amr)
      BY <2>1, <2>2 DEF GrantInv, CodesVouched
    <2>4. sess'[s].st # "absent" /\ code[x].authTime = sess'[s].created /\ AmrOf(sess'[s], code[x].amr)
      BY <2>3 DEF SessionKept, AmrOf
    <2> QED BY <2>1, <2>2, <2>4
  <1>2. TokensGranted'
    BY DEF CodesSame, CodeKept, TokensSame, TokenKept, GrantInv, TokensGranted
  <1> QED BY <1>1, <1>2

\* One request goes on as r, and no row is made.
LEMMA FlowMoves ==
    ASSUME sess \in [Session -> SessionRow], OidcTypeOK, GrantInv, UNCHANGED sess,
           CodesSame, TokensSame, NEW f \in Flow, NEW r \in FlowRecord,
           flow' = [flow EXCEPT ![f] = r], Sound(r, sess', code', token'),
           HasCode(r) => \A g \in Flow \ {f} : HasCode(flow[g]) => flow[g].code # r.code
    PROVE  GrantInv' /\ flow' \in [Flow -> FlowRecord]
  <1>1. \A s \in Session : SessionKept(s)
    BY DEF SessionKept
  <1>2. CodesVouched' /\ TokensGranted'
    BY <1>1, GrantRowsKept
  <1>3. /\ flow' \in [Flow -> FlowRecord] /\ flow'[f] = r
        /\ \A g \in Flow \ {f} : flow'[g] = flow[g]
    BY DEF OidcTypeOK
  <1>4. \A g \in Flow : Sound(flow'[g], sess', code', token')
    <2> TAKE g \in Flow
    <2>1. CASE g = f
      BY <1>3, <2>1
    <2>2. CASE g # f
      <3>1. flow[g] \in FlowRecord /\ Sound(flow[g], sess, code, token)
        BY SoundFlows DEF OidcTypeOK, GrantInv
      <3>2. Sound(flow[g], sess', code', token')
        BY <1>1, <3>1, SoundKept DEF CodesSame, TokensSame, TokenKept
      <3> QED BY <1>3, <2>2, <3>2
    <2> QED BY <2>1, <2>2
  <1>5. GrantsApart'
    <2> SUFFICES ASSUME NEW g \in Flow, NEW h \in Flow, g # h, HasCode(flow'[g]), HasCode(flow'[h])
                 PROVE  flow'[g].code # flow'[h].code
      BY DEF GrantsApart, HasCode
    <2> QED BY <1>3 DEF GrantInv, GrantsApart
  <1> QED BY <1>2, <1>3, <1>4, <1>5, SoundFlows DEF GrantInv

\* A request that ends, and one that goes on with what it has.
LEMMA FlowEnds ==
    ASSUME NEW f \in Flow
    PROVE  /\ NoFlow \in FlowRecord
           /\ Sound(NoFlow, sess', code', token') /\ ~HasCode(NoFlow)
           /\ End(f) => flow' = [flow EXCEPT ![f] = NoFlow]
  BY DEF NoFlow, FlowRecord, Methods, Sound, Consenting, ModeRead, HasCode, End

LEMMA FlowJumps ==
    ASSUME OidcTypeOK, GrantInv, sess \in [Session -> SessionRow], UNCHANGED sess, CodesSame, TokensSame,
           NEW f \in Flow, NEW pc \in {"client", "save", "issue", "remove"}, Jump(f, pc),
           pc \in {"client", "save"} => ModeRead(flow[f]),
           pc = "issue" => HasCode(flow[f])
    PROVE  GrantInv' /\ flow' \in [Flow -> FlowRecord]
  <1> DEFINE q == flow[f]
             r == [q EXCEPT !.pc = pc]
  <1>1. q \in FlowRecord /\ Sound(q, sess, code, token)
    BY SoundFlows DEF OidcTypeOK, GrantInv
  <1>2. flow' = [flow EXCEPT ![f] = r]
    BY DEF Jump
  <1> HIDE DEF q
  <1>3. /\ r \in FlowRecord /\ r.pc = pc /\ r.s = q.s /\ r.client = q.client /\ r.code = q.code
        /\ r.authTime = q.authTime /\ r.amr = q.amr
    BY <1>1 DEF FlowRecord
  <1> HIDE DEF r
  <1>4. Sound(r, sess, code, token)
    BY <1>1, <1>3 DEF Sound, Consenting, ModeRead, HasCode, q
  <1>5. Sound(r, sess', code', token')
    BY <1>3, <1>4, SoundKept DEF CodesSame, TokensSame, TokenKept, SessionKept
  <1>6. HasCode(r) => \A g \in Flow \ {f} : HasCode(flow[g]) => flow[g].code # r.code
    BY <1>3 DEF HasCode, GrantInv, GrantsApart, q
  <1> QED BY <1>2, <1>3, <1>5, <1>6, FlowMoves

-----------------------------------------------------------------------------
(* The steps.                                                              *)

\* A step of the provider changes nothing of the web.
Provider == sess \in [Session -> SessionRow] /\ now \in Nat /\ OidcTypeOK /\ GrantInv /\ UNCHANGED webVars

\* The consent up to the code.
LEMMA ConsentSteps ==
    ASSUME Provider, NEW f \in Flow,
           \/ \E k \in Client, s \in Session : Consent(f, s, k)
           \/ ReadMode(f) \/ ReadOwner(f) \/ ReadClient(f)
    PROVE  OidcTypeOK' /\ GrantInv' /\ UNCHANGED <<code, token>>
  <1>1. UNCHANGED <<sess, client, code, token>> /\ CodesSame /\ TokensSame
    BY GrantsUnchanged DEF Provider, webVars, rowVars, Consent, ReadMode, ReadOwner, ReadClient
  <1>2. SUFFICES GrantInv' /\ flow' \in [Flow -> FlowRecord]
    BY <1>1 DEF Provider, OidcTypeOK
  <1>3. ASSUME NEW r \in FlowRecord, flow' = [flow EXCEPT ![f] = r], ~HasCode(r),
               Sound(r, sess, code, token)
        PROVE  GrantInv' /\ flow' \in [Flow -> FlowRecord]
    BY <1>1, <1>3, FlowMoves DEF Provider
  <1>4. ASSUME End(f)
        PROVE  GrantInv' /\ flow' \in [Flow -> FlowRecord]
    BY <1>1, <1>4, FlowEnds, FlowMoves DEF Provider
  <1>5. ASSUME NEW k \in Client, NEW s \in Session, Consent(f, s, k)
        PROVE  GrantInv' /\ flow' \in [Flow -> FlowRecord]
    <2> DEFINE r == [NoFlow EXCEPT !.pc = "mode", !.client = k, !.s = s, !.authTime = sess[s].created]
    <2>1. sess[s].created \in Nat /\ sess[s].st # "absent"
      BY <1>5 DEF Consent, Provider, SessionRow
    <2>2. r \in FlowRecord /\ r.pc = "mode" /\ r.s = s /\ r.authTime = sess[s].created
      BY <2>1 DEF FlowRecord, NoFlow, Methods
    <2>3. flow' = [flow EXCEPT ![f] = r]
      BY <1>5 DEF Consent
    <2> HIDE DEF r
    <2>4. ~HasCode(r) /\ Sound(r, sess, code, token)
      BY <2>1, <2>2 DEF HasCode, Sound, Consenting, ModeRead
    <2> QED BY <1>3, <2>2, <2>3, <2>4
  <1>6. CASE ReadMode(f)
    <2> DEFINE q == flow[f]
               amr == AMRForMode(IF sess[q.s].st = "live" THEN sess[q.s].mode ELSE "")
               r == [q EXCEPT !.pc = "owner", !.amr = amr]
    <2>1. q \in FlowRecord /\ Sound(q, sess, code, token) /\ Consenting(q)
      BY <1>6, SoundFlows DEF ReadMode, At, Provider, OidcTypeOK, GrantInv, Consenting
    <2>2. amr \in Methods
      BY DEF AMRForMode, Methods
    <2>3. sess[q.s].st \in State /\ sess[q.s].st # "absent"
      BY <2>1 DEF Sound, Provider, SessionRow
    <2>4. AmrOf(sess[q.s], amr)
      BY <2>3 DEF AmrOf, State
    <2>5. flow' = [flow EXCEPT ![f] = r]
      BY <1>6 DEF ReadMode
    <2> HIDE DEF q, amr
    <2>6. /\ r \in FlowRecord /\ r.pc = "owner" /\ r.s = q.s /\ r.authTime = q.authTime /\ r.amr = amr
      BY <2>1, <2>2 DEF FlowRecord
    <2> HIDE DEF r
    <2>7. ~HasCode(r) /\ Sound(r, sess, code, token)
      BY <2>1, <2>4, <2>6 DEF HasCode, Sound, Consenting, ModeRead
    <2> QED BY <1>3, <2>5, <2>6, <2>7
  <1>7. CASE ReadOwner(f) \/ ReadClient(f)
    <2>1. ModeRead(flow[f])
      BY <1>7 DEF ReadOwner, ReadClient, At, ModeRead
    <2> QED BY <1>1, <1>4, <1>7, <2>1, FlowJumps DEF ReadOwner, ReadClient, Provider
  <1> QED BY <1>5, <1>6, <1>7

\* The code.
LEMMA CodeSaved ==
    ASSUME Provider, NEW f \in Flow, NEW x \in AuthCode, SaveCode(f, x)
    PROVE  /\ OidcTypeOK' /\ GrantInv' /\ UNCHANGED token
           /\ code[x].st = "absent"
           /\ \/ CodesSame
              \/ /\ Exists /\ code'[x].st # "absent" /\ \A y \in AuthCode : CodeKept(y)
                 /\ \A y \in AuthCode \ {x} : code'[y].st # "absent" => code[y].st # "absent"
  <1> DEFINE q == flow[f]
  <1>1. /\ UNCHANGED <<sess, client, token>> /\ TokensSame /\ code[x].st = "absent"
        /\ End(f) /\ ModeRead(q)
    BY GrantsUnchanged DEF Provider, webVars, rowVars, SaveCode, At, ModeRead
  <1>2. q \in FlowRecord /\ Sound(q, sess, code, token)
    BY SoundFlows DEF Provider, OidcTypeOK, GrantInv
  <1>3. CASE ~Exists
    <2>1. CodesSame /\ UNCHANGED code
      BY <1>3, GrantsUnchanged DEF SaveCode, Provider
    <2>2. GrantInv' /\ flow' \in [Flow -> FlowRecord]
      BY <1>1, <2>1, FlowEnds, FlowMoves DEF Provider
    <2> QED BY <1>1, <2>1, <2>2 DEF Provider, OidcTypeOK
  <1>4. CASE Exists
    <2> DEFINE row == [st |-> "live", used |-> FALSE, expires |-> now + CodeLife,
                       client |-> q.client, authTime |-> q.authTime, amr |-> q.amr, from |-> q.s]
               rows == Purged(code)
    <2>1. row \in CodeRow
      BY <1>2, OidcAssumption DEF CodeRow, State, FlowRecord, Provider
    <2>2. code' = [rows EXCEPT ![x] = row]
      BY <1>4 DEF SaveCode
    <2>3. /\ rows \in [AuthCode -> CodeRow]
          /\ \A y \in AuthCode : \/ rows[y] = code[y]
                                 \/ code[y].st = "live" /\ rows[y] = [code[y] EXCEPT !.st = "deleted"]
      BY CodesDeleted DEF Provider
    <2>4. /\ row.st = "live" /\ row.from = q.s /\ row.authTime = q.authTime /\ row.amr = q.amr
      OBVIOUS
    <2> HIDE DEF row, rows
    <2>5. /\ code' \in [AuthCode -> CodeRow] /\ code'[x] = row
          /\ \A y \in AuthCode \ {x} : code'[y] = rows[y]
      BY <2>1, <2>2, <2>3
    <2>6. \A y \in AuthCode \ {x} : CodeKept(y) /\ (code'[y].st # "absent" => code[y].st # "absent")
      <3> TAKE y \in AuthCode \ {x}
      <3> DEFINE gone == [code[y] EXCEPT !.st = "deleted"]
      <3>1. /\ gone.st = "deleted" /\ gone.used = code[y].used
            /\ gone.client = code[y].client /\ gone.authTime = code[y].authTime
            /\ gone.amr = code[y].amr /\ gone.from = code[y].from
        BY DEF Provider, OidcTypeOK, CodeRow
      <3>2. code'[y] = code[y] \/ (code[y].st = "live" /\ code'[y] = gone)
        BY <2>3, <2>5
      <3> HIDE DEF gone
      <3> QED BY <3>1, <3>2 DEF CodeKept
    <2>7. \A y \in AuthCode : CodeKept(y)
      BY <1>1, <2>6 DEF CodeKept
    <2>8. CodesVouched'
      <3> SUFFICES ASSUME NEW y \in AuthCode, code'[y].st # "absent"
                   PROVE  /\ code'[y].from \in Session
                          /\ sess'[code'[y].from].st # "absent"
                          /\ code'[y].authTime = sess'[code'[y].from].created
                          /\ AmrOf(sess'[code'[y].from], code'[y].amr)
        BY DEF CodesVouched, AmrOf
      <3>1. CASE y = x
        <4>1. ModeRead(q) => Consenting(q)
          BY DEF ModeRead, Consenting
        <4> QED BY <1>1, <1>2, <2>4, <2>5, <3>1, <4>1 DEF Sound
      <3>2. CASE y # x
        BY <1>1, <2>6, <3>2 DEF CodeKept, Provider, GrantInv, CodesVouched
      <3> QED BY <3>1, <3>2
    <2>9. TokensGranted'
      BY <1>1, <2>7 DEF Provider, GrantInv, TokensGranted, CodeKept
    <2>10. /\ flow' \in [Flow -> FlowRecord] /\ flow'[f] = NoFlow
           /\ \A g \in Flow \ {f} : flow'[g] = flow[g]
      BY <1>1, FlowEnds DEF Provider, OidcTypeOK
    <2>11. \A g \in Flow : Sound(flow'[g], sess', code', token')
      <3> TAKE g \in Flow
      <3>1. CASE g # f
        <4>1. flow[g] \in FlowRecord /\ Sound(flow[g], sess, code, token)
          BY SoundFlows DEF Provider, OidcTypeOK, GrantInv
        <4>2. Sound(flow[g], sess', code', token')
          BY <1>1, <2>7, <4>1, SoundKept DEF Provider, SessionKept
        <4> QED BY <2>10, <3>1, <4>2
      <3>2. CASE g = f
        BY <2>10, <3>2, FlowEnds
      <3> QED BY <3>1, <3>2
    <2>12. GrantsApart'
      <3> SUFFICES ASSUME NEW g \in Flow, NEW h \in Flow, g # h, HasCode(flow'[g]), HasCode(flow'[h])
                   PROVE  flow'[g].code # flow'[h].code
        BY DEF GrantsApart, HasCode
      <3> QED BY <2>10, FlowEnds DEF Provider, GrantInv, GrantsApart
    <2>13. GrantInv'
      BY <2>8, <2>9, <2>11, <2>12, SoundFlows DEF GrantInv
    <2> QED BY <1>1, <1>4, <2>4, <2>5, <2>6, <2>7, <2>10, <2>13 DEF Provider, OidcTypeOK
  <1> QED BY <1>3, <1>4

\* The token endpoint up to the token.
LEMMA ClaimSteps ==
    ASSUME Provider, NEW f \in Flow,
           \/ \E x \in AuthCode, k \in Client : Present(f, x, k)
           \/ ClaimCode(f) \/ ReadHolder(f)
    PROVE  OidcTypeOK' /\ GrantInv' /\ CodesSame /\ UNCHANGED token
  <1> DEFINE q == flow[f]
  <1>1. UNCHANGED <<sess, client, token>> /\ TokensSame
    BY GrantsUnchanged DEF Provider, webVars, rowVars, Present, ClaimCode, ReadHolder
  <1>2. SUFFICES CodesSame /\ GrantInv' /\ flow' \in [Flow -> FlowRecord]
    BY <1>1 DEF Provider, OidcTypeOK, CodesSame
  <1>3. q \in FlowRecord /\ Sound(q, sess, code, token)
    BY SoundFlows DEF Provider, OidcTypeOK, GrantInv
  <1>4. ASSUME End(f), CodesSame
        PROVE  GrantInv' /\ flow' \in [Flow -> FlowRecord]
    BY <1>1, <1>4, FlowEnds, FlowMoves DEF Provider
  <1>5. ASSUME NEW x \in AuthCode, NEW k \in Client, Present(f, x, k)
        PROVE  CodesSame /\ GrantInv' /\ flow' \in [Flow -> FlowRecord]
    <2> DEFINE r == [NoFlow EXCEPT !.pc = "claim", !.client = k, !.code = x]
    <2>1. r \in FlowRecord /\ r.pc = "claim" /\ r.code = x
      BY DEF FlowRecord, NoFlow, Methods
    <2>2. flow' = [flow EXCEPT ![f] = r] /\ CodesSame
      BY <1>5, GrantsUnchanged DEF Present, Provider
    <2> HIDE DEF r
    <2>3. ~HasCode(r) /\ Sound(r, sess', code', token')
      BY <2>1 DEF HasCode, Sound, Consenting, ModeRead
    <2> QED BY <1>1, <2>1, <2>2, <2>3, FlowMoves DEF Provider
  <1>6. CASE ReadHolder(f)
    <2>1. CodesSame /\ HasCode(q)
      BY <1>6, GrantsUnchanged DEF ReadHolder, At, HasCode, Provider
    <2> QED BY <1>1, <1>4, <1>6, <2>1, FlowJumps DEF ReadHolder, Provider
  <1>7. CASE ClaimCode(f)
    <2> DEFINE x == q.code
    <2>1. x \in AuthCode
      BY <1>3, <1>7 DEF ClaimCode, At, Sound
    <2>2. CASE ~CodeOpen(x)
      BY <1>4, <1>7, <2>2, GrantsUnchanged DEF ClaimCode, Provider
    <2>3. CASE CodeOpen(x)
      <3> DEFINE row == [code[x] EXCEPT !.used = TRUE]
      <3>1. code[x].st = "live" /\ ~code[x].used /\ code[x] \in CodeRow
        BY <2>1, <2>3 DEF CodeOpen, Provider, OidcTypeOK
      <3>2. /\ row \in CodeRow /\ row.used /\ row.st = code[x].st /\ row.client = code[x].client
            /\ row.authTime = code[x].authTime /\ row.amr = code[x].amr /\ row.from = code[x].from
        BY <3>1 DEF CodeRow
      <3>3. code' = [code EXCEPT ![x] = row]
        BY <1>7, <2>3 DEF ClaimCode
      <3> HIDE DEF row
      <3>4. /\ code' \in [AuthCode -> CodeRow] /\ code'[x] = row
            /\ \A y \in AuthCode \ {x} : code'[y] = code[y]
        BY <2>1, <3>2, <3>3 DEF Provider, OidcTypeOK
      <3>5. CodesSame
        BY <3>1, <3>2, <3>4 DEF CodesSame, CodeKept
      <3> DEFINE r == [q EXCEPT !.pc = "holder", !.amr = code[x].amr]
      <3>6. CASE GrantFits(x, q.client) /\ flow' = [flow EXCEPT ![f] = r]
        <4> HIDE DEF q
        <4>1. /\ r \in FlowRecord /\ r.pc = "holder" /\ r.code = q.code /\ r.client = q.client
              /\ r.amr = code[x].amr
          BY <1>3, <3>1 DEF FlowRecord, CodeRow
        <4> HIDE DEF r
        <4>2. \A t \in Token : token[t].st # "absent" => token[t].code # x
          BY <3>1 DEF Provider, GrantInv, TokensGranted
        <4>3. \A g \in Flow : HasCode(flow[g]) => flow[g].code # x
          BY <3>1 DEF Provider, GrantInv, FlowsGranted
        <4>4. Sound(r, sess', code', token')
          BY <1>1, <2>1, <3>1, <3>2, <3>4, <3>6, <4>1, <4>2
             DEF Sound, Consenting, ModeRead, HasCode, GrantFits
        <4> QED BY <1>1, <3>5, <3>6, <4>1, <4>3, <4>4, FlowMoves DEF Provider
      <3> QED BY <1>4, <1>7, <2>3, <3>5, <3>6 DEF ClaimCode
    <2> QED BY <2>2, <2>3
  <1> QED BY <1>5, <1>6, <1>7

\* The token.
LEMMA TokenSaved ==
    ASSUME Provider, NEW f \in Flow, NEW t \in Token, SaveToken(f, t)
    PROVE  /\ OidcTypeOK' /\ GrantInv' /\ UNCHANGED code
           /\ token[t].st = "absent"
           /\ \/ TokensSame
              \/ /\ Exists /\ HasCode(flow[f]) /\ token'[t].st # "absent" /\ token'[t].code = flow[f].code
                 /\ \A u \in Token : TokenKept(u)
                 /\ \A u \in Token \ {t} : token'[u].st # "absent" => token[u].st # "absent"
  <1> DEFINE q == flow[f]
  <1>1. /\ UNCHANGED <<sess, client, code>> /\ CodesSame /\ token[t].st = "absent"
        /\ End(f) /\ HasCode(q)
    BY GrantsUnchanged DEF Provider, webVars, rowVars, SaveToken, At, HasCode
  <1>2. q \in FlowRecord /\ Sound(q, sess, code, token)
    BY SoundFlows DEF Provider, OidcTypeOK, GrantInv
  <1>3. CASE ~Exists
    <2>1. TokensSame /\ UNCHANGED token
      BY <1>3, GrantsUnchanged DEF SaveToken, Provider
    <2>2. GrantInv' /\ flow' \in [Flow -> FlowRecord]
      BY <1>1, <2>1, FlowEnds, FlowMoves DEF Provider
    <2> QED BY <1>1, <2>1, <2>2 DEF Provider, OidcTypeOK
  <1>4. CASE Exists
    <2> DEFINE row == [st |-> "live", expires |-> now + TokenLife, client |-> q.client,
                       amr |-> q.amr, code |-> q.code]
               rows == Purged(token)
    <2>1. row \in TokenRow
      BY <1>2, OidcAssumption DEF TokenRow, State, FlowRecord, Provider
    <2>2. token' = [rows EXCEPT ![t] = row]
      BY <1>4 DEF SaveToken
    <2>3. /\ rows \in [Token -> TokenRow]
          /\ \A u \in Token : \/ rows[u] = token[u]
                              \/ token[u].st = "live" /\ rows[u] = [token[u] EXCEPT !.st = "deleted"]
      BY TokensDeleted DEF Provider
    <2>4. row.st = "live" /\ row.client = q.client /\ row.amr = q.amr /\ row.code = q.code
      OBVIOUS
    <2> HIDE DEF row, rows
    <2>5. /\ token' \in [Token -> TokenRow] /\ token'[t] = row
          /\ \A u \in Token \ {t} : token'[u] = rows[u]
      BY <2>1, <2>2, <2>3
    <2>6. \A u \in Token \ {t} : TokenKept(u) /\ (token'[u].st # "absent" => token[u].st # "absent")
      <3> TAKE u \in Token \ {t}
      <3> DEFINE gone == [token[u] EXCEPT !.st = "deleted"]
      <3>1. /\ gone.st = "deleted" /\ gone.client = token[u].client
            /\ gone.amr = token[u].amr /\ gone.code = token[u].code
        BY DEF Provider, OidcTypeOK, TokenRow
      <3>2. token'[u] = token[u] \/ (token[u].st = "live" /\ token'[u] = gone)
        BY <2>3, <2>5
      <3> HIDE DEF gone
      <3> QED BY <3>1, <3>2 DEF TokenKept
    <2>7. \A u \in Token : TokenKept(u)
      BY <1>1, <2>6 DEF TokenKept
    <2>8. CodesVouched'
      BY <1>1 DEF Provider, GrantInv, CodesVouched
    <2>9. TokensGranted'
      <3> SUFFICES ASSUME NEW u \in Token, token'[u].st # "absent"
                   PROVE  /\ token'[u].code \in AuthCode
                          /\ code'[token'[u].code].st # "absent" /\ code'[token'[u].code].used
                          /\ token'[u].client = code'[token'[u].code].client
                          /\ token'[u].amr = code'[token'[u].code].amr
        BY DEF TokensGranted
      <3>1. CASE u = t
        BY <1>1, <1>2, <2>4, <2>5, <3>1 DEF Sound
      <3>2. CASE u # t
        BY <1>1, <2>6, <3>2 DEF TokenKept, Provider, GrantInv, TokensGranted
      <3> QED BY <3>1, <3>2
    <2>10. /\ flow' \in [Flow -> FlowRecord] /\ flow'[f] = NoFlow
           /\ \A g \in Flow \ {f} : flow'[g] = flow[g]
      BY <1>1, FlowEnds DEF Provider, OidcTypeOK
    <2>11. \A g \in Flow : Sound(flow'[g], sess', code', token')
      <3> TAKE g \in Flow
      <3>1. CASE g # f
        <4>1. flow[g] \in FlowRecord /\ Sound(flow[g], sess, code, token)
          BY SoundFlows DEF Provider, OidcTypeOK, GrantInv
        <4>2. HasCode(flow[g]) => flow[g].code # q.code
          BY <1>1, <3>1 DEF Provider, GrantInv, GrantsApart
        <4>3. HasCode(flow[g]) => \A u \in Token : token'[u].st # "absent" =>
                                     \/ token[u].st # "absent" /\ token'[u].code = token[u].code
                                     \/ token'[u].code # flow[g].code
          BY <2>4, <2>5, <2>6, <4>2 DEF TokenKept
        <4>4. Sound(flow[g], sess', code', token')
          BY <1>1, <4>1, <4>3, SoundKept DEF Provider, SessionKept, CodesSame
        <4> QED BY <2>10, <3>1, <4>4
      <3>2. CASE g = f
        BY <2>10, <3>2, FlowEnds
      <3> QED BY <3>1, <3>2
    <2>12. GrantsApart'
      <3> SUFFICES ASSUME NEW g \in Flow, NEW h \in Flow, g # h, HasCode(flow'[g]), HasCode(flow'[h])
                   PROVE  flow'[g].code # flow'[h].code
        BY DEF GrantsApart, HasCode
      <3> QED BY <2>10, FlowEnds DEF Provider, GrantInv, GrantsApart
    <2>13. GrantInv'
      BY <2>8, <2>9, <2>11, <2>12, SoundFlows DEF GrantInv
    <2> QED BY <1>1, <1>4, <2>4, <2>5, <2>6, <2>7, <2>10, <2>13 DEF Provider, OidcTypeOK
  <1> QED BY <1>3, <1>4

\* The administrator's clients.
LEMMA ClientSteps ==
    ASSUME Provider,
           \/ \E k \in Client : UpdateClient(k) \/ \E f \in Flow : DeleteClientCodes(f, k)
           \/ \E f \in Flow : DeleteClientTokens(f) \/ DeleteClient(f)
    PROVE  OidcTypeOK' /\ GrantInv' /\ CodesSame /\ TokensSame
  <1>1. UNCHANGED sess
    BY DEF Provider, webVars, rowVars
  <1>2. ASSUME NEW f \in Flow, End(f), CodesSame, TokensSame
        PROVE  GrantInv' /\ flow' \in [Flow -> FlowRecord]
    BY <1>1, <1>2, FlowEnds, FlowMoves DEF Provider
  <1>3. ASSUME NEW k \in Client, UpdateClient(k)
        PROVE  OidcTypeOK' /\ GrantInv' /\ CodesSame /\ TokensSame
    <2>1. UNCHANGED <<sess, code, token, flow>>
      BY <1>1, <1>3 DEF UpdateClient
    <2>2. GrantInv'
      BY <2>1 DEF Provider, GrantInv, CodesVouched, FlowsVouched, TokensGranted, FlowsGranted, GrantsApart
    <2> QED BY <1>3, <2>1, <2>2, GrantsUnchanged DEF Provider, OidcTypeOK, UpdateClient
  <1>4. ASSUME NEW k \in Client, NEW f \in Flow, DeleteClientCodes(f, k)
        PROVE  OidcTypeOK' /\ GrantInv' /\ CodesSame /\ TokensSame
    <2> DEFINE r == [NoFlow EXCEPT !.pc = "tokens", !.client = k]
    <2>1. r \in FlowRecord /\ r.pc = "tokens"
      BY DEF FlowRecord, NoFlow, Methods
    <2>2. flow' = [flow EXCEPT ![f] = r] /\ UNCHANGED <<client, token>> /\ code' = DeletedOf(code, k)
      BY <1>4 DEF DeleteClientCodes
    <2> HIDE DEF r
    <2>3. CodesSame /\ TokensSame
      BY <2>2, CodesDeleted, GrantsUnchanged DEF Provider
    <2>4. ~HasCode(r) /\ Sound(r, sess', code', token')
      BY <2>1 DEF HasCode, Sound, Consenting, ModeRead
    <2>5. GrantInv' /\ flow' \in [Flow -> FlowRecord]
      BY <1>1, <2>1, <2>2, <2>3, <2>4, FlowMoves DEF Provider
    <2> QED BY <2>2, <2>3, <2>5 DEF Provider, OidcTypeOK, CodesSame, TokensSame
  <1>5. ASSUME NEW f \in Flow, DeleteClientTokens(f)
        PROVE  OidcTypeOK' /\ GrantInv' /\ CodesSame /\ TokensSame
    <2>1. flow[f].client \in Client \cup {None}
      BY DEF Provider, OidcTypeOK, FlowRecord
    <2>2. CodesSame /\ TokensSame /\ UNCHANGED client /\ Jump(f, "remove")
      BY <1>5, <2>1, TokensDeleted, GrantsUnchanged DEF DeleteClientTokens, Provider
    <2>3. GrantInv' /\ flow' \in [Flow -> FlowRecord]
      BY <1>1, <2>2, FlowJumps DEF Provider
    <2> QED BY <2>2, <2>3 DEF Provider, OidcTypeOK, CodesSame, TokensSame
  <1>6. ASSUME NEW f \in Flow, DeleteClient(f)
        PROVE  OidcTypeOK' /\ GrantInv' /\ CodesSame /\ TokensSame
    <2>1. CodesSame /\ TokensSame
      BY <1>6, GrantsUnchanged DEF DeleteClient, Provider
    <2>2. client' \in [Client -> [st: {"live", "deleted"}, allowed: BOOLEAN]]
      BY <1>6 DEF DeleteClient, Provider, OidcTypeOK
    <2> QED BY <1>2, <1>6, <2>1, <2>2 DEF DeleteClient, OidcTypeOK, CodesSame, TokensSame
  <1> QED BY <1>3, <1>4, <1>5, <1>6

-----------------------------------------------------------------------------
(* The invariant.                                                          *)

\* A step of the web leaves the requests and the clients alone; the codes
\* and tokens go when their user does.
LEMMA WebStepKeepsGrants ==
    ASSUME IInv, WebStep, Cascade
    PROVE  OidcTypeOK' /\ GrantInv' /\ NoGrantLeft' /\ CodesSame /\ TokensSame
  <1>1. /\ Fitting /\ RowsTypeOK /\ SafeRows /\ OidcTypeOK /\ GrantInv /\ NoGrantLeft
        /\ sess \in [Session -> SessionRow] /\ \A s \in Session : SessionKept(s)
    BY WebInvKept, WebTypes DEF IInv, WebInv, Fitting, RowsTypeOK, SafeRows
  <1>2. /\ UNCHANGED <<client, flow>> /\ CodesSame /\ TokensSame
        /\ Exists /\ ~Exists' => /\ \A x \in AuthCode : code'[x].st # "live"
                                 /\ \A t \in Token : token'[t].st # "live"
    <2>1. CASE Exists /\ ~Exists'
      <3>1. code' = DeletedRows(code) /\ token' = DeletedRows(token) /\ UNCHANGED <<client, flow>>
        BY <2>1 DEF Cascade
      <3> QED BY <1>1, <3>1, CodesDeleted, TokensDeleted
    <2>2. CASE ~(Exists /\ ~Exists')
      <3>1. UNCHANGED oidcVars
        BY <2>2 DEF Cascade
      <3> QED BY <1>1, <2>2, <3>1, GrantsUnchanged DEF oidcVars
    <2> QED BY <2>1, <2>2
  <1>3. Exists' => Exists
    <2>1. CASE Outside
      BY <1>1, <2>1, OutsideRows
    <2>2. ASSUME NEW c \in Call, Arrive(c) \/ Proceed(c)
          PROVE  Exists' => Exists
      BY <1>1, <2>2, StepKeepsUser
    <2> QED BY <2>1, <2>2 DEF WebStep, Outside
  <1>4. NoGrantLeft'
    BY <1>1, <1>2, <1>3 DEF NoGrantLeft, CodesSame, TokensSame
  <1>5. OidcTypeOK'
    BY <1>1, <1>2 DEF OidcTypeOK, CodesSame, TokensSame
  <1>6. CodesVouched' /\ TokensGranted'
    BY <1>1, <1>2, GrantRowsKept
  <1>7. \A f \in Flow : Sound(flow'[f], sess', code', token')
    <2> TAKE f \in Flow
    <2>1. flow[f] \in FlowRecord /\ Sound(flow[f], sess, code, token) /\ flow'[f] = flow[f]
      BY <1>1, <1>2, SoundFlows DEF OidcTypeOK, GrantInv
    <2> QED BY <1>1, <1>2, <2>1, SoundKept DEF CodesSame, TokensSame, TokenKept
  <1>8. GrantsApart'
    BY <1>1, <1>2 DEF GrantInv, GrantsApart
  <1> QED BY <1>2, <1>4, <1>5, <1>6, <1>7, <1>8, SoundFlows DEF GrantInv

\* What a step of the provider does to the codes and tokens.
LEMMA ProviderSteps ==
    ASSUME Provider, OidcStep
    PROVE  /\ OidcTypeOK' /\ GrantInv'
           /\ \/ CodesSame /\ TokensSame
              \/ \E f \in Flow, x \in AuthCode : SaveCode(f, x)
              \/ \E f \in Flow, t \in Token : SaveToken(f, t)
  <1>1. ASSUME NEW f \in Flow, \/ \E k \in Client, s \in Session : Consent(f, s, k)
                               \/ ReadMode(f) \/ ReadOwner(f) \/ ReadClient(f)
        PROVE  OidcTypeOK' /\ GrantInv' /\ CodesSame /\ TokensSame
    BY <1>1, ConsentSteps, GrantsUnchanged DEF Provider
  <1>2. ASSUME NEW f \in Flow, \/ \E x \in AuthCode, k \in Client : Present(f, x, k)
                               \/ ClaimCode(f) \/ ReadHolder(f)
        PROVE  OidcTypeOK' /\ GrantInv' /\ CodesSame /\ TokensSame
    BY <1>2, ClaimSteps, GrantsUnchanged DEF Provider
  <1>3. ASSUME NEW f \in Flow, NEW x \in AuthCode, SaveCode(f, x)
        PROVE  OidcTypeOK' /\ GrantInv'
    BY <1>3, CodeSaved
  <1>4. ASSUME NEW f \in Flow, NEW t \in Token, SaveToken(f, t)
        PROVE  OidcTypeOK' /\ GrantInv'
    BY <1>4, TokenSaved
  <1>5. ASSUME \/ \E k \in Client : UpdateClient(k) \/ \E f \in Flow : DeleteClientCodes(f, k)
               \/ \E f \in Flow : DeleteClientTokens(f) \/ DeleteClient(f)
        PROVE  OidcTypeOK' /\ GrantInv' /\ CodesSame /\ TokensSame
    BY <1>5, ClientSteps
  <1> QED BY <1>1, <1>2, <1>3, <1>4, <1>5 DEF OidcStep

LEMMA InvInit == Init => IInv
  <1> SUFFICES ASSUME Init PROVE IInv
    OBVIOUS
  <1>1. WebInv
    BY WebInvInit DEF Init
  <1>2. /\ NoCodeRow \in CodeRow /\ NoCodeRow.st = "absent"
        /\ NoToken \in TokenRow /\ NoToken.st = "absent"
        /\ NoFlow \in FlowRecord /\ NoFlow.pc = "idle"
    BY DEF NoCodeRow, CodeRow, NoToken, TokenRow, NoFlow, FlowRecord, State, Methods
  <1>3. /\ \A x \in AuthCode : code[x] = NoCodeRow
        /\ \A t \in Token : token[t] = NoToken
        /\ \A f \in Flow : flow[f] = NoFlow
        /\ client \in [Client -> [st: {"live", "deleted"}, allowed: BOOLEAN]]
    BY DEF Init
  <1>4. OidcTypeOK
    BY <1>2, <1>3 DEF Init, OidcTypeOK
  <1>5. GrantInv /\ NoGrantLeft
    BY <1>2, <1>3 DEF GrantInv, NoGrantLeft, CodesVouched, FlowsVouched, TokensGranted, FlowsGranted,
                      GrantsApart, Consenting, ModeRead, HasCode
  <1> QED BY <1>1, <1>4, <1>5 DEF IInv

LEMMA InvUnchanged == IInv /\ UNCHANGED webVars => WebInv'
  <1> SUFFICES ASSUME IInv, UNCHANGED webVars PROVE WebInv'
    OBVIOUS
  <1>1. UNCHANGED <<user, directory, passkey, banned, db, signed, ceremony, sess, dev, call, late, now>>
    BY DEF webVars, rowVars
  <1>2. WebTypeOK' /\ \A c \in Call : Fit(call'[c])
    BY <1>1 DEF IInv, WebInv, WebTypeOK, ChallengeTypeOK
  <1>3. LateInv' /\ NothingLeft' /\ OldCookies'
    BY <1>1 DEF IInv, WebInv, LateInv, NothingLeft, OldCookies, Usable, Exists, Admitted
  <1>4. WindowRows' = WindowRows /\ SpentRows' = SpentRows
    BY <1>1 DEF WindowRows, SpentRows, WindowRow, Spent, Claimable, Live
  <1>5. WindowsSigned' /\ OneWindowEach' /\ SessionsFromWindows'
    BY <1>1, <1>4 DEF IInv, WebInv, PasskeyInv, WindowsSigned, OneWindowEach, SessionsFromWindows
  <1>6. Holding' /\ HoldersApart'
    BY <1>1, <1>4 DEF IInv, WebInv, PasskeyInv, Holding, HoldersApart, HasWindow, HasCeremony, HasSigned
  <1> QED BY <1>2, <1>3, <1>5, <1>6 DEF WebInv, PasskeyInv

LEMMA InvNext == IInv /\ [Next]_vars => IInv'
  <1> SUFFICES ASSUME IInv, [Next]_vars PROVE IInv'
    OBVIOUS
  <1>1. CASE WebStep /\ Cascade
    BY <1>1, WebInvKept, WebStepKeepsGrants DEF IInv
  <1>2. CASE OidcStep /\ UNCHANGED webVars
    <2>1. Provider
      BY <1>2 DEF Provider, IInv, WebInv, WebTypeOK, ChallengeTypeOK
    <2>2. WebInv' /\ Exists' = Exists
      BY <1>2, InvUnchanged DEF webVars, rowVars, Exists
    <2>3. OidcTypeOK' /\ GrantInv'
      BY <1>2, <2>1, ProviderSteps
    <2>4. NoGrantLeft'
      <3> SUFFICES ASSUME ~Exists
                   PROVE  /\ \A x \in AuthCode : code'[x].st # "live"
                          /\ \A t \in Token : token'[t].st # "live"
        BY <2>2 DEF NoGrantLeft
      <3>1. CASE CodesSame /\ TokensSame
        BY <3>1 DEF CodesSame, TokensSame, IInv, NoGrantLeft
      <3>2. ASSUME NEW f \in Flow, NEW x \in AuthCode, SaveCode(f, x)
            PROVE  UNCHANGED <<code, token>>
        BY <3>2 DEF SaveCode
      <3>3. ASSUME NEW f \in Flow, NEW t \in Token, SaveToken(f, t)
            PROVE  UNCHANGED <<code, token>>
        BY <3>3 DEF SaveToken
      <3> QED BY <1>2, <2>1, <3>1, <3>2, <3>3, ProviderSteps DEF IInv, NoGrantLeft
    <2> QED BY <2>2, <2>3, <2>4 DEF IInv
  <1>3. CASE UNCHANGED vars
    <2>1. WebInv'
      BY <1>3, InvUnchanged DEF vars
    <2>2. OidcTypeOK' /\ GrantInv' /\ NoGrantLeft'
      BY <1>3 DEF vars, webVars, rowVars, oidcVars, IInv, OidcTypeOK, GrantInv, NoGrantLeft, CodesVouched,
                  FlowsVouched, TokensGranted, FlowsGranted, GrantsApart, AmrOf, Exists
    <2> QED BY <2>1, <2>2 DEF IInv
  <1> QED BY <1>1, <1>2, <1>3 DEF Next

-----------------------------------------------------------------------------
(* The theorems.                                                           *)

\* The strengthened invariant holds in every reachable state.
LEMMA InvHolds == Spec => []IInv
  <1>1. Init => IInv
    BY InvInit
  <1>2. IInv /\ [Next]_vars => IInv'
    BY InvNext
  <1> QED BY <1>1, <1>2, PTL DEF Spec

\* The rows of the account, the cookies, the challenges, the clients, the
\* codes and the tokens, the requests and the history have their types,
\* whatever the requests do (internal/api, internal/store).
THEOREM TypeCorrect == Spec => []TypeOK
  <1>1. IInv => TypeOK
    BY DEF IInv, WebInv, OidcTypeOK, TypeOK
  <1> QED BY <1>1, InvHolds, PTL

\* Nobody gets a session or trusts a browser by a request during which the
\* account was never enabled (Verify of internal/auth, Lookup of
\* loginStep2): for any number of requests, directories' answers and
\* administrators.
THEOREM OnlyEnabledEnterHolds == Spec => []OnlyEnabledEnter
  <1>1. IInv => OnlyEnabledEnter
    BY DEF IInv, WebInv, LateInv, OnlyEnabledEnter, Admitted
  <1> QED BY <1>1, InvHolds, PTL

\* A token is for the client the user consented to, with the moment and the
\* methods of the session that consented (sessionUser, OIDCCodeSave,
\* OIDCCodeClaim, OIDCTokenSave).
THEOREM ConsentKeptHolds == Spec => []ConsentKept
  <1>1. IInv => ConsentKept
    BY DEF IInv, GrantInv, CodesVouched, TokensGranted, ConsentKept, AmrOf
  <1> QED BY <1>1, InvHolds, PTL

\* A deleted user has no session, trusted browser, challenge, code or token,
\* and no request that was under way leaves one behind (ON DELETE CASCADE
\* and the foreign keys of the inserts).
THEOREM DeletedLeavesNothingHolds == Spec => []DeletedLeavesNothing
  <1>1. IInv => DeletedLeavesNothing
    BY DEF IInv, WebInv, NothingLeft, NoGrantLeft, DeletedLeavesNothing, LiveCookies, Live
  <1> QED BY <1>1, InvHolds, PTL

\* When a password change is over, every session and trusted browser the user
\* had when the new password was written is gone, though logins go on
\* (handlePasswordChange).
THEOREM PasswordChangeRevokes == Spec => PasswordRevokes
  <1>1. IInv /\ [Next]_vars => [CookiesRevoked]_vars
    <2> SUFFICES ASSUME IInv, Next PROVE CookiesRevoked
      BY DEF vars
    <2>1. CASE WebStep /\ Cascade
      BY <2>1, StepRevokes DEF IInv, CookiesRevoked
    <2>2. CASE OidcStep /\ UNCHANGED webVars
      BY <2>2 DEF webVars, CookiesRevoked, Here
    <2> QED BY <2>1, <2>2 DEF Next
  <1> QED BY <1>1, InvHolds, PTL DEF Spec, PasswordRevokes

\* A passkey that signed one ceremony opens at most one session, and none is
\* opened through a passkey window without a verified signature: the passkey
\* login implements OneTimeGrant (claimSession, handleWAFinish,
\* consumeWebauthnPending).
THEOREM PasskeyGranted == Spec => PasskeyGrantSpec
  <1>1. Init => PasskeyGrant!Init
    BY DEF Init, WebInit, PasskeyGrant!Init
  <1>2. IInv /\ [Next]_vars => [PasskeyGrant!Next]_<<signed, Redemptions>>
    <2> SUFFICES ASSUME IInv, [Next]_vars PROVE [PasskeyGrant!Next]_<<signed, Redemptions>>
      OBVIOUS
    <2>1. CASE WebStep /\ Cascade
      <3>1. CASE signed' = signed /\ Redemptions' = Redemptions
        BY <3>1
      <3>2. ASSUME NEW k \in Challenge, signed' = signed \cup {k}, Redemptions' = Redemptions
            PROVE  PasskeyGrant!Next
        <4>1. PasskeyGrant!Prove(k)
          BY <3>2 DEF PasskeyGrant!Prove, Redemptions
        <4> QED BY <4>1 DEF PasskeyGrant!Next
      <3>3. ASSUME NEW k \in Challenge, NEW s \in Session, k \in signed, signed' = signed,
                   \A r \in Session : <<k, r>> \notin Redemptions,
                   Redemptions' = Redemptions \cup {<<k, s>>}
            PROVE  PasskeyGrant!Next
        <4>1. PasskeyGrant!Redeem(k, s)
          BY <3>3 DEF PasskeyGrant!Redeem, Redemptions
        <4> QED BY <4>1 DEF PasskeyGrant!Next
      <3> QED BY <2>1, <3>1, <3>2, <3>3, StepRedeems DEF IInv
    <2>2. CASE UNCHANGED webVars
      BY <2>2 DEF webVars, rowVars, Redemptions
    <2> QED BY <2>1, <2>2 DEF Next, vars
  <1>3. IInv /\ [Next]_vars => [PasskeyGrant!Next]_<<signed,
            {<<ceremony[sess[s].via], s>> : s \in {r \in Session : sess[r].st # "absent" /\ sess[r].via # None}}>>
    BY <1>2 DEF Redemptions
  <1> QED BY <1>1, <1>3, InvHolds, PTL DEF Spec, PasskeyGrantSpec, PasskeyGrant!Spec

\* What the token endpoint has proved and redeemed so far.
Consents == {x \in AuthCode : code[x].st # "absent"}
TokensOf == {<<token[t].code, t>> : t \in {u \in Token : token[u].st # "absent"}}

LEMMA SameGrants ==
    /\ CodesSame => Consents' = Consents
    /\ TokensSame => TokensOf' = TokensOf
  <1>1. CodesSame => Consents' = Consents
    BY DEF CodesSame, CodeKept, Consents
  <1>2. ASSUME TokensSame
        PROVE  TokensOf' = TokensOf
    <2>1. \A t \in Token : /\ token'[t].st # "absent" <=> token[t].st # "absent"
                           /\ token[t].st # "absent" => token'[t].code = token[t].code
      BY <1>2 DEF TokensSame, TokenKept
    <2> QED BY <2>1 DEF TokensOf
  <1> QED BY <1>1, <1>2

\* A step makes a code, or makes a token of a code that has none, or neither.
LEMMA StepGrants ==
    ASSUME IInv, [Next]_vars
    PROVE  \/ Consents' = Consents /\ TokensOf' = TokensOf
           \/ \E x \in AuthCode : Consents' = Consents \cup {x} /\ TokensOf' = TokensOf
           \/ \E x \in AuthCode, t \in Token :
                 /\ x \in Consents /\ Consents' = Consents
                 /\ \A u \in Token : <<x, u>> \notin TokensOf
                 /\ TokensOf' = TokensOf \cup {<<x, t>>}
  <1>1. CASE WebStep /\ Cascade
    BY <1>1, WebStepKeepsGrants, SameGrants
  <1>2. CASE OidcStep /\ UNCHANGED webVars
    <2>1. Provider
      BY <1>2 DEF Provider, IInv, WebInv, WebTypeOK, ChallengeTypeOK
    <2>2. ASSUME NEW f \in Flow, NEW x \in AuthCode, SaveCode(f, x)
          PROVE  \/ Consents' = Consents /\ TokensOf' = TokensOf
                 \/ Consents' = Consents \cup {x} /\ TokensOf' = TokensOf
      <3>1. UNCHANGED token /\ TokensOf' = TokensOf
        BY <2>1, <2>2, CodeSaved DEF TokensOf
      <3>2. CASE CodesSame
        BY <3>1, <3>2, SameGrants
      <3>3. CASE /\ code'[x].st # "absent" /\ \A y \in AuthCode : CodeKept(y)
                 /\ \A y \in AuthCode \ {x} : code'[y].st # "absent" => code[y].st # "absent"
        BY <3>1, <3>3 DEF CodeKept, Consents
      <3> QED BY <2>1, <2>2, <3>2, <3>3, CodeSaved
    <2>3. ASSUME NEW f \in Flow, NEW t \in Token, SaveToken(f, t)
          PROVE  \/ Consents' = Consents /\ TokensOf' = TokensOf
                 \/ \E x \in AuthCode : /\ x \in Consents /\ Consents' = Consents
                                        /\ \A u \in Token : <<x, u>> \notin TokensOf
                                        /\ TokensOf' = TokensOf \cup {<<x, t>>}
      <3>1. UNCHANGED code /\ Consents' = Consents /\ token[t].st = "absent"
        BY <2>1, <2>3, TokenSaved DEF Consents
      <3>2. CASE TokensSame
        BY <3>1, <3>2, SameGrants
      <3>3. CASE /\ HasCode(flow[f]) /\ token'[t].st # "absent" /\ token'[t].code = flow[f].code
                 /\ \A u \in Token : TokenKept(u)
                 /\ \A u \in Token \ {t} : token'[u].st # "absent" => token[u].st # "absent"
        <4> DEFINE x == flow[f].code
        <4>1. /\ x \in AuthCode /\ x \in Consents
              /\ \A u \in Token : token[u].st # "absent" => token[u].code # x
          BY <3>3 DEF IInv, GrantInv, FlowsGranted, Consents
        <4>2. \A u \in Token : <<x, u>> \notin TokensOf
          BY <4>1 DEF TokensOf
        <4> HIDE DEF x
        <4>3. \A u \in Token : /\ token'[u].st # "absent" <=> (token[u].st # "absent" \/ u = t)
                               /\ token[u].st # "absent" => token'[u].code = token[u].code
          BY <3>3 DEF TokenKept
        <4>4. token'[t].code = x
          BY <3>3 DEF x
        <4>5. TokensOf' = TokensOf \cup {<<x, t>>}
          <5>1. ASSUME NEW u \in Token, token'[u].st # "absent"
                PROVE  <<token'[u].code, u>> \in TokensOf \cup {<<x, t>>}
            BY <4>3, <4>4, <5>1 DEF TokensOf
          <5>2. ASSUME NEW u \in Token, token[u].st # "absent"
                PROVE  <<token[u].code, u>> \in TokensOf'
            BY <4>3, <5>2 DEF TokensOf
          <5>3. <<x, t>> \in TokensOf'
            BY <4>3, <4>4 DEF TokensOf
          <5> QED BY <5>1, <5>2, <5>3 DEF TokensOf
        <4> QED BY <3>1, <4>1, <4>2, <4>5
      <3> QED BY <2>1, <2>3, <3>2, <3>3, TokenSaved
    <2> QED BY <1>2, <2>1, <2>2, <2>3, ProviderSteps, SameGrants
  <1>3. CASE UNCHANGED vars
    BY <1>3 DEF vars, oidcVars, Consents, TokensOf
  <1> QED BY <1>1, <1>2, <1>3 DEF Next

\* A consent buys at most one access token, whatever clients and retries
\* present its code: the provider implements OneTimeGrant (OIDCCodeClaim
\* before OIDCTokenSave).
THEOREM TokenGranted == Spec => TokenGrantSpec
  <1>1. Init => TokenGrant!Init
    <2> SUFFICES ASSUME Init PROVE TokenGrant!Init
      OBVIOUS
    <2>1. /\ \A x \in AuthCode : code[x].st = "absent"
          /\ \A t \in Token : token[t].st = "absent"
      BY DEF Init, NoCodeRow, NoToken
    <2> QED BY <2>1 DEF TokenGrant!Init
  <1>2. IInv /\ [Next]_vars => [TokenGrant!Next]_<<Consents, TokensOf>>
    <2> SUFFICES ASSUME IInv, [Next]_vars PROVE [TokenGrant!Next]_<<Consents, TokensOf>>
      OBVIOUS
    <2>1. CASE Consents' = Consents /\ TokensOf' = TokensOf
      BY <2>1
    <2>2. ASSUME NEW x \in AuthCode, Consents' = Consents \cup {x}, TokensOf' = TokensOf
          PROVE  TokenGrant!Next
      <3>1. TokenGrant!Prove(x)
        BY <2>2 DEF TokenGrant!Prove, Consents, TokensOf
      <3> QED BY <3>1 DEF TokenGrant!Next
    <2>3. ASSUME NEW x \in AuthCode, NEW t \in Token, x \in Consents, Consents' = Consents,
                 \A u \in Token : <<x, u>> \notin TokensOf, TokensOf' = TokensOf \cup {<<x, t>>}
          PROVE  TokenGrant!Next
      <3>1. TokenGrant!Redeem(x, t)
        BY <2>3 DEF TokenGrant!Redeem, Consents, TokensOf
      <3> QED BY <3>1 DEF TokenGrant!Next
    <2> QED BY <2>1, <2>2, <2>3, StepGrants
  <1>3. IInv /\ [Next]_vars => [TokenGrant!Next]_<<{x \in AuthCode : code[x].st # "absent"},
            {<<token[t].code, t>> : t \in {u \in Token : token[u].st # "absent"}}>>
    BY <1>2 DEF Consents, TokensOf
  <1> QED BY <1>1, <1>3, InvHolds, PTL DEF Spec, TokenGrantSpec, TokenGrant!Spec

=============================================================================

---------------------------- MODULE ServicesProofs ----------------------------
(***************************************************************************)
(* Safety of the services around the logins, each by itself, for any       *)
(* number of requests, rows and processes and any order of their steps:    *)
(* without the scopes that MCServices puts on its small instance.          *)
(***************************************************************************)
EXTENDS MCServices, FiniteSetTheorems, TLAPS

-----------------------------------------------------------------------------
(* AppDevice.  A revoked row stays inactive whatever is written back to    *)
(* it, so a request that came later never passes FindToken; and whoever    *)
(* passed CheckUser or LoginUser found the account enabled.                *)

DeviceSpec == DeviceInit /\ [][DeviceNext]_<<now, adVars>>

DeviceRow == [active: BOOLEAN, exp: Nat, posture: Posture \cup {None}]
ClientRecord == [pc: {"idle", "login", "create", "token", "user", "seen", "touch", "serve"},
                 what: {"call", "telemetry", "logout"}, d: Device \cup {None},
                 posture: Posture \cup {None}, exp: Nat, late: BOOLEAN, known: BOOLEAN]

DeviceTypeOK ==
    /\ now \in Nat
    /\ device \in [Device -> DeviceRow \cup {None}]
    /\ account \in BOOLEAN
    /\ client \in [Client -> ClientRecord]
    /\ revoked \subseteq Device

\* A row that was revoked is gone or inactive.
Inactive(d) == device[d] = None \/ (device[d] \in DeviceRow /\ ~device[d].active)

\* What a request knows of its device and its account.
Informed(r) ==
    /\ r.pc \in {"token", "user", "seen", "touch", "serve"} => r.d \in Device
    /\ r.late => r.pc \in {"idle", "token"} /\ r.d \in revoked
    /\ r.pc \in {"create", "seen", "touch", "serve"} => r.known
    /\ r.pc # "idle" /\ account => r.known

DeviceInv ==
    /\ DeviceTypeOK
    /\ \A d \in revoked : Inactive(d)
    /\ \A c \in Client : Informed(client[c])

LEMMA NoClientIsInformed ==
    /\ NoClient \in ClientRecord /\ NoClient.pc = "idle" /\ ~NoClient.late
    /\ NoClient.d = None
  BY DEF NoClient, ClientRecord

\* One request goes on as r; a row is written so that it stays inactive if it
\* was revoked.
LEMMA ClientMoves ==
    ASSUME DeviceInv, NEW c \in Client, NEW r \in ClientRecord,
           client' = [client EXCEPT ![c] = r], Informed(r),
           UNCHANGED <<now, account>>,
           device' \in [Device -> DeviceRow \cup {None}],
           revoked \subseteq revoked', revoked' \subseteq Device,
           \A d \in revoked' : Inactive(d)'
    PROVE  DeviceInv'
  <1>1. \A b \in Client : client'[b] = IF b = c THEN r ELSE client[b]
    BY DEF DeviceInv, DeviceTypeOK
  <1>2. ASSUME NEW b \in Client
        PROVE  Informed(client[b])' /\ client'[b] \in ClientRecord
    <2>1. CASE b = c
      <3>1. client'[b] = r
        BY <1>1, <2>1
      <3> QED BY <3>1 DEF Informed
    <2>2. CASE b # c
      <3>1. client'[b] = client[b] /\ client[b] \in ClientRecord /\ Informed(client[b])
        BY <1>1, <2>2 DEF DeviceInv, DeviceTypeOK
      <3> QED BY <3>1 DEF Informed
    <2> QED BY <2>1, <2>2
  <1>3. DeviceTypeOK'
    BY <1>1, <1>2 DEF DeviceInv, DeviceTypeOK
  <1> QED BY <1>2, <1>3 DEF DeviceInv

\* The same when no row changes.
LEMMA ClientGoes ==
    ASSUME DeviceInv, NEW c \in Client, NEW r \in ClientRecord,
           client' = [client EXCEPT ![c] = r], Informed(r),
           UNCHANGED <<now, device, account, revoked>>
    PROVE  DeviceInv'
  <1>1. /\ device' \in [Device -> DeviceRow \cup {None}] /\ revoked' \subseteq Device
        /\ \A d \in revoked' : Inactive(d)'
    BY DEF DeviceInv, DeviceTypeOK, Inactive
  <1> QED BY <1>1, ClientMoves

\* A request that goes on with what it has, or is answered.
LEMMA ClientThen ==
    ASSUME DeviceInv, NEW c \in Client, NEW r \in ClientRecord,
           \/ r = NoClient
           \/ /\ \E pc \in {"create", "user", "seen", "touch", "serve"} :
                    r = [client[c] EXCEPT !.pc = pc]
              /\ client[c].pc # "idle" /\ ~client[c].late
              /\ r.pc \in {"user", "seen", "touch", "serve"} => client[c].d \in Device
              /\ r.pc \in {"create", "seen", "touch", "serve"} => client[c].known
    PROVE  Informed(r)
  <1>1. CASE r = NoClient
    BY <1>1, NoClientIsInformed DEF Informed
  <1>2. CASE r # NoClient
    <2>1. PICK pc \in {"create", "user", "seen", "touch", "serve"} : r = [client[c] EXCEPT !.pc = pc]
      BY <1>2
    <2>2. client[c] \in ClientRecord /\ Informed(client[c])
      BY DEF DeviceInv, DeviceTypeOK
    <2>3. /\ r.pc = pc /\ r.d = client[c].d /\ r.late = client[c].late /\ r.known = client[c].known
      BY <2>1, <2>2 DEF ClientRecord
    <2> QED BY <1>2, <2>2, <2>3, NoClientIsInformed DEF Informed
  <1> QED BY <1>1, <1>2

\* A row is written again, no more active than it was.
LEMMA RowWritten ==
    ASSUME DeviceInv, NEW d \in Device, NEW row \in DeviceRow,
           device' = [device EXCEPT ![d] = row], UNCHANGED revoked,
           device[d] # None, row.active => device[d].active
    PROVE  /\ device' \in [Device -> DeviceRow \cup {None}]
           /\ \A x \in revoked' : Inactive(x)'
  <1>1. /\ device' \in [Device -> DeviceRow \cup {None}] /\ device'[d] = row
        /\ \A x \in Device \ {d} : device'[x] = device[x]
    BY DEF DeviceInv, DeviceTypeOK
  <1>2. ASSUME NEW x \in revoked
        PROVE  Inactive(x)'
    <2>1. x \in Device /\ Inactive(x)
      BY DEF DeviceInv, DeviceTypeOK
    <2>2. CASE x = d
      BY <1>1, <2>1, <2>2 DEF Inactive
    <2>3. CASE x # d
      BY <1>1, <2>1, <2>3 DEF Inactive
    <2> QED BY <2>2, <2>3
  <1> QED BY <1>1, <1>2

\* What becomes of the rows when they are not written.
LEMMA RowsAsTheyWere ==
    ASSUME DeviceInv, UNCHANGED <<device, revoked>>
    PROVE  /\ device' \in [Device -> DeviceRow \cup {None}]
           /\ \A x \in revoked' : Inactive(x)'
  BY DEF DeviceInv, DeviceTypeOK, Inactive

\* The steps of a request.
LEMMA ClientSteps ==
    ASSUME DeviceInv, NEW c \in Client, UNCHANGED now,
           \/ AppLogin(c) \/ LoginUser(c)
           \/ \E d \in Device, p \in Posture : CreateDevice(c, d, p)
           \/ \E d \in Device, what \in {"call", "telemetry", "logout"} : Call(c, d, what)
           \/ FindToken(c) \/ CheckUser(c) \/ UpdateSeen(c) \/ Touch(c) \/ Serve(c)
           \/ \E p \in Posture : Telemetry(c, p)
           \/ AppLogout(c)
    PROVE  DeviceInv'
  <1> DEFINE q == client[c]
  <1>1. q \in ClientRecord /\ Informed(q) /\ account \in BOOLEAN
    BY DEF DeviceInv, DeviceTypeOK
  <1>2. ASSUME NEW pc \in {"create", "user", "seen", "touch", "serve"}
        PROVE  [q EXCEPT !.pc = pc] \in ClientRecord /\ [q EXCEPT !.pc = pc].pc = pc
    BY <1>1 DEF ClientRecord
  <1>3. q.pc \in {"login", "create", "user", "seen", "touch", "serve"} => ~q.late
    BY <1>1 DEF Informed
  <1>4. q.pc \in {"token", "user", "seen", "touch", "serve"} => q.d \in Device
    BY <1>1 DEF Informed
  <1>5. q.pc \in {"create", "seen", "touch", "serve"} => q.known
    BY <1>1 DEF Informed
  <1>6. NoClient \in ClientRecord /\ Informed(NoClient)
    BY NoClientIsInformed, ClientThen
  <1>7. ASSUME Refuse(c), UNCHANGED <<device, account, revoked>>
        PROVE  DeviceInv'
    BY <1>6, <1>7, ClientGoes DEF Refuse
  <1>8. CASE AppLogin(c)
    <2> DEFINE r == [NoClient EXCEPT !.pc = "login", !.known = account]
    <2>1. /\ r \in ClientRecord /\ r.pc = "login" /\ r.known = account /\ r.late = FALSE
      BY <1>1, NoClientIsInformed DEF ClientRecord, NoClient
    <2>2. client' = [client EXCEPT ![c] = r] /\ UNCHANGED <<device, account, revoked>>
      BY <1>8 DEF AppLogin
    <2> HIDE DEF r
    <2>3. Informed(r)
      BY <2>1 DEF Informed
    <2> QED BY <2>1, <2>2, <2>3, ClientGoes
  <1>9. CASE LoginUser(c)
    <2>1. q.pc = "login" /\ UNCHANGED <<device, account, revoked>>
      BY <1>9 DEF LoginUser, Does
    <2>2. CASE account
      <3> DEFINE r == [q EXCEPT !.pc = "create"]
      <3>1. client' = [client EXCEPT ![c] = r]
        BY <1>9, <2>2 DEF LoginUser, Then
      <3>2. r \in ClientRecord /\ r.pc = "create" /\ q.known
        BY <1>1, <1>2, <2>1, <2>2 DEF Informed
      <3>3. Informed(r)
        BY <1>3, <2>1, <3>2, ClientThen
      <3> QED BY <2>1, <3>1, <3>2, <3>3, ClientGoes
    <2>3. CASE ~account
      BY <1>7, <1>9, <2>1, <2>3 DEF LoginUser
    <2> QED BY <2>2, <2>3
  <1>10. ASSUME NEW d \in Device, NEW p \in Posture, CreateDevice(c, d, p)
         PROVE  DeviceInv'
    <2> DEFINE row == [active |-> TRUE, exp |-> now + DeviceLife, posture |-> p]
    <2>1. row \in DeviceRow
      BY DeviceAssumption DEF DeviceRow, DeviceInv, DeviceTypeOK
    <2>2. device' = [device EXCEPT ![d] = row] /\ UNCHANGED <<account, revoked>> /\ d \notin revoked
      BY <1>10 DEF CreateDevice
    <2> HIDE DEF row
    <2>3. /\ device' \in [Device -> DeviceRow \cup {None}]
          /\ \A x \in revoked' : Inactive(x)'
      BY <2>1, <2>2 DEF DeviceInv, DeviceTypeOK, Inactive
    <2> QED BY <1>6, <1>10, <2>2, <2>3, ClientMoves DEF CreateDevice, Refuse, DeviceInv, DeviceTypeOK
  <1>11. ASSUME NEW d \in Device, NEW what \in {"call", "telemetry", "logout"}, Call(c, d, what)
         PROVE  DeviceInv'
    <2>1. PICK late \in BOOLEAN : late <=> d \in revoked
      OBVIOUS
    <2> DEFINE r == [NoClient EXCEPT !.pc = "token", !.d = d, !.what = what,
                                     !.late = late, !.known = account]
    <2>2. /\ r \in ClientRecord /\ r.pc = "token" /\ r.d = d /\ r.late = late /\ r.known = account
      BY <1>1, NoClientIsInformed DEF ClientRecord, NoClient
    <2>3. client' = [client EXCEPT ![c] = r] /\ UNCHANGED <<device, account, revoked>>
      <3>1. late = (d \in revoked)
        BY <2>1
      <3> QED BY <1>11, <3>1 DEF Call
    <2> HIDE DEF r
    <2>4. Informed(r)
      BY <2>1, <2>2 DEF Informed
    <2> QED BY <2>2, <2>3, <2>4, ClientGoes
  <1>12. CASE FindToken(c)
    <2> DEFINE d == q.d
    <2>1. q.pc = "token" /\ d \in Device /\ UNCHANGED <<device, account, revoked>>
      BY <1>4, <1>12 DEF FindToken, Does
    <2>2. CASE Valid(d)
      <3> DEFINE r == [q EXCEPT !.pc = "user", !.exp = Row(d).exp, !.posture = Row(d).posture]
      <3>1. client' = [client EXCEPT ![c] = r]
        BY <1>12, <2>2 DEF FindToken
      <3>2. device[d] \in DeviceRow /\ d \notin revoked
        BY <2>1, <2>2 DEF Valid, Row, DeviceInv, DeviceTypeOK, Inactive
      <3>3. Row(d).exp \in Nat /\ Row(d).posture \in Posture \cup {None}
        BY <3>2 DEF Row, DeviceRow
      <3> HIDE DEF q
      <3>4. /\ r \in ClientRecord /\ r.pc = "user" /\ r.d = d /\ r.late = q.late /\ r.known = q.known
        BY <1>1, <3>3 DEF ClientRecord
      <3> HIDE DEF r
      <3>5. Informed(r)
        BY <1>1, <2>1, <3>2, <3>4 DEF Informed
      <3> QED BY <2>1, <3>1, <3>4, <3>5, ClientGoes
    <2>3. CASE ~Valid(d)
      BY <1>7, <1>12, <2>1, <2>3 DEF FindToken
    <2> QED BY <2>2, <2>3
  <1>13. CASE CheckUser(c)
    <2>1. q.pc = "user" /\ UNCHANGED <<device, account, revoked>>
      BY <1>13 DEF CheckUser, Does
    <2>2. CASE account
      <3> DEFINE r == [q EXCEPT !.pc = "seen"]
      <3>1. client' = [client EXCEPT ![c] = r]
        BY <1>13, <2>2 DEF CheckUser, Then
      <3>2. r \in ClientRecord /\ r.pc = "seen" /\ q.known
        BY <1>1, <1>2, <2>1, <2>2 DEF Informed
      <3>3. Informed(r)
        BY <1>3, <1>4, <2>1, <3>2, ClientThen
      <3> QED BY <2>1, <3>1, <3>2, <3>3, ClientGoes
    <2>3. CASE ~account
      BY <1>7, <1>13, <2>1, <2>3 DEF CheckUser
    <2> QED BY <2>2, <2>3
  <1>14. ASSUME NEW pc \in {"touch", "serve"}, Then(c, pc), q.pc \in {"seen", "touch"},
                device' \in [Device -> DeviceRow \cup {None}], \A x \in revoked' : Inactive(x)',
                UNCHANGED <<account, revoked>>
         PROVE  DeviceInv'
    <2> DEFINE r == [q EXCEPT !.pc = pc]
    <2>1. r \in ClientRecord /\ r.pc = pc /\ client' = [client EXCEPT ![c] = r]
      BY <1>2, <1>14 DEF Then
    <2>2. Informed(r)
      BY <1>3, <1>4, <1>5, <1>14, <2>1, ClientThen
    <2> QED BY <1>14, <2>1, <2>2, ClientMoves DEF DeviceInv, DeviceTypeOK
  <1>15. ASSUME NEW d \in Device, device[d] # None, UNCHANGED revoked,
                \/ \E p \in Posture \cup {None} : device' = [device EXCEPT ![d] = [device[d] EXCEPT !.posture = p]]
                \/ device' = [device EXCEPT ![d] = [device[d] EXCEPT !.exp = now + DeviceLife]]
         PROVE  /\ device' \in [Device -> DeviceRow \cup {None}]
                /\ \A x \in revoked' : Inactive(x)'
    <2>1. device[d] \in DeviceRow /\ now + DeviceLife \in Nat
      BY <1>15, DeviceAssumption DEF DeviceInv, DeviceTypeOK
    <2>2. PICK row \in DeviceRow : device' = [device EXCEPT ![d] = row] /\ row.active = device[d].active
      <3>1. CASE device' = [device EXCEPT ![d] = [device[d] EXCEPT !.exp = now + DeviceLife]]
        <4> DEFINE row == [device[d] EXCEPT !.exp = now + DeviceLife]
        <4>1. row \in DeviceRow /\ row.active = device[d].active
          BY <2>1 DEF DeviceRow
        <4> QED BY <3>1, <4>1
      <3>2. ASSUME NEW p \in Posture \cup {None}, device' = [device EXCEPT ![d] = [device[d] EXCEPT !.posture = p]]
            PROVE  \E row \in DeviceRow : device' = [device EXCEPT ![d] = row] /\ row.active = device[d].active
        <4> DEFINE row == [device[d] EXCEPT !.posture = p]
        <4>1. row \in DeviceRow /\ row.active = device[d].active
          BY <2>1 DEF DeviceRow
        <4> QED BY <3>2, <4>1
      <3> QED BY <1>15, <3>1, <3>2
    <2> QED BY <1>15, <2>2, RowWritten
  <1>16. CASE UpdateSeen(c)
    <2>1. q.pc = "seen" /\ q.d \in Device /\ q.posture \in Posture \cup {None} /\ UNCHANGED <<account, revoked>>
      BY <1>1, <1>4, <1>16 DEF UpdateSeen, Does, ClientRecord
    <2>2. /\ device' \in [Device -> DeviceRow \cup {None}] /\ \A x \in revoked' : Inactive(x)'
      <3>1. CASE device[q.d] = None
        BY <1>16, <2>1, <3>1, RowsAsTheyWere DEF UpdateSeen, Row
      <3>2. CASE device[q.d] # None
        <4>1. device' = [device EXCEPT ![q.d] = [device[q.d] EXCEPT !.posture = q.posture]]
          BY <1>16, <2>1, <3>2 DEF UpdateSeen, Row, Seen
        <4> QED BY <1>15, <2>1, <3>2, <4>1
      <3> QED BY <3>1, <3>2
    <2>3. PICK pc \in {"touch", "serve"} : Then(c, pc)
      BY <1>16 DEF UpdateSeen
    <2> QED BY <1>14, <2>1, <2>2, <2>3
  <1>17. CASE Touch(c)
    <2>1. q.pc = "touch" /\ q.d \in Device /\ UNCHANGED <<account, revoked>> /\ Then(c, "serve")
      BY <1>4, <1>17 DEF Touch, Does
    <2>2. /\ device' \in [Device -> DeviceRow \cup {None}] /\ \A x \in revoked' : Inactive(x)'
      <3>1. CASE device' = device
        BY <2>1, <3>1, RowsAsTheyWere
      <3>2. CASE device' # device
        <4>1. device[q.d] # None /\ device' = [device EXCEPT ![q.d] = [device[q.d] EXCEPT !.exp = now + DeviceLife]]
          BY <1>17, <3>2 DEF Touch, Row
        <4> QED BY <1>15, <2>1, <4>1
      <3> QED BY <3>1, <3>2
    <2> QED BY <1>14, <2>1, <2>2
  <1>18. CASE Serve(c)
    BY <1>7, <1>18 DEF Serve
  <1>19. ASSUME NEW p \in Posture, Telemetry(c, p)
         PROVE  DeviceInv'
    <2>1. q.pc = "serve" /\ q.d \in Device /\ UNCHANGED <<account, revoked>> /\ Refuse(c)
      BY <1>4, <1>19 DEF Telemetry, Does
    <2>2. /\ device' \in [Device -> DeviceRow \cup {None}] /\ \A x \in revoked' : Inactive(x)'
      <3>1. CASE device[q.d] = None
        BY <1>19, <2>1, <3>1, RowsAsTheyWere DEF Telemetry, Row
      <3>2. CASE device[q.d] # None
        <4>1. device' = [device EXCEPT ![q.d] = [device[q.d] EXCEPT !.posture = p]]
          BY <1>19, <2>1, <3>2 DEF Telemetry, Row
        <4> QED BY <1>15, <2>1, <3>2, <4>1
      <3> QED BY <3>1, <3>2
    <2> QED BY <1>6, <2>1, <2>2, ClientMoves DEF Refuse, DeviceInv, DeviceTypeOK
  <1>20. CASE AppLogout(c)
    <2>1. /\ q.pc = "serve" /\ q.d \in Device /\ revoked' = revoked \cup {q.d} /\ UNCHANGED account
          /\ Refuse(c)
      BY <1>4, <1>20 DEF AppLogout, Does
    <2>0. PICK d \in Device : d = q.d
      BY <2>1
    <2> DEFINE row == [device[d] EXCEPT !.active = FALSE]
    <2>2. /\ device' \in [Device -> DeviceRow \cup {None}] /\ Inactive(d)'
          /\ \A x \in Device \ {d} : device'[x] = device[x]
      <3>1. CASE device[d] = None
        BY <1>20, <2>0, <3>1 DEF AppLogout, Row, DeviceInv, DeviceTypeOK, Inactive
      <3>2. CASE device[d] # None
        <4>1. device[d] \in DeviceRow
          BY <3>2 DEF DeviceInv, DeviceTypeOK
        <4>2. row \in DeviceRow /\ ~row.active
          BY <4>1 DEF DeviceRow
        <4>3. device' = [device EXCEPT ![d] = row]
          BY <1>20, <2>0, <3>2 DEF AppLogout, Row
        <4> HIDE DEF row
        <4> QED BY <4>2, <4>3 DEF DeviceInv, DeviceTypeOK, Inactive
      <3> QED BY <3>1, <3>2
    <2>3. \A x \in revoked' : Inactive(x)'
      <3> SUFFICES ASSUME NEW x \in revoked', x # d PROVE Inactive(x)'
        BY <2>2
      <3>1. x \in Device /\ Inactive(x)
        BY <2>1, <2>0 DEF DeviceInv, DeviceTypeOK
      <3> QED BY <2>2, <3>1 DEF Inactive
    <2> QED BY <1>6, <2>1, <2>2, <2>3, <2>0, ClientMoves DEF Refuse, DeviceInv, DeviceTypeOK
  <1> QED BY <1>8, <1>9, <1>10, <1>11, <1>12, <1>13, <1>16, <1>17, <1>18, <1>19, <1>20

\* Revocations, the account and the clock.
LEMMA DeviceOutside ==
    ASSUME DeviceInv,
           \/ (RevokeAll \/ (\E d \in Device : DeleteDevice(d)) \/ SwitchAccount) /\ UNCHANGED now
           \/ Tick /\ UNCHANGED adVars
           \/ UNCHANGED <<now, adVars>>
    PROVE  DeviceInv'
  <1>1. ASSUME UNCHANGED <<client, account>>, now' \in Nat, device' \in [Device -> DeviceRow \cup {None}],
               revoked \subseteq revoked', revoked' \subseteq Device, \A x \in revoked' : Inactive(x)'
        PROVE  DeviceInv'
    BY <1>1 DEF DeviceInv, DeviceTypeOK, Informed
  <1>2. CASE RevokeAll /\ UNCHANGED now
    <2>1. ASSUME NEW d \in Device, device[d] # None
          PROVE  [device[d] EXCEPT !.active = FALSE] \in DeviceRow /\ ~[device[d] EXCEPT !.active = FALSE].active
      BY <2>1 DEF DeviceInv, DeviceTypeOK, DeviceRow
    <2>2. device' = [d \in Device |-> IF device[d] = None THEN None ELSE [device[d] EXCEPT !.active = FALSE]]
      BY <1>2 DEF RevokeAll, Row
    <2>3. device' \in [Device -> DeviceRow \cup {None}] /\ \A d \in Device : Inactive(d)'
      BY <2>1, <2>2 DEF Inactive
    <2>4. revoked' = revoked \cup {d \in Device : device[d] # None} /\ UNCHANGED <<client, account>>
      BY <1>2 DEF RevokeAll, Row
    <2> QED BY <1>1, <1>2, <2>3, <2>4 DEF DeviceInv, DeviceTypeOK
  <1>3. ASSUME NEW d \in Device, DeleteDevice(d), UNCHANGED now
        PROVE  DeviceInv'
    <2>1. /\ device' = [device EXCEPT ![d] = None] /\ revoked' = revoked \cup {d}
          /\ UNCHANGED <<client, account>>
      BY <1>3 DEF DeleteDevice
    <2>2. device' \in [Device -> DeviceRow \cup {None}] /\ \A x \in revoked' : Inactive(x)'
      BY <2>1 DEF DeviceInv, DeviceTypeOK, Inactive
    <2> QED BY <1>1, <1>3, <2>1, <2>2 DEF DeviceInv, DeviceTypeOK
  <1>4. CASE SwitchAccount /\ UNCHANGED now
    <2>1. /\ account' = ~account /\ UNCHANGED <<device, revoked>> /\ account \in BOOLEAN
          /\ client' = [c \in Client |-> IF client[c].pc # "idle" /\ ~account
                                           THEN [client[c] EXCEPT !.known = TRUE] ELSE client[c]]
      BY <1>4 DEF SwitchAccount, Does, DeviceInv, DeviceTypeOK
    <2>2. ASSUME NEW c \in Client
          PROVE  client'[c] \in ClientRecord /\ Informed(client[c])'
      <3> DEFINE q == client[c]
                 r == [q EXCEPT !.known = TRUE]
      <3>1. q \in ClientRecord /\ Informed(q)
        BY DEF DeviceInv, DeviceTypeOK
      <3>2. /\ r \in ClientRecord /\ r.pc = q.pc /\ r.d = q.d /\ r.late = q.late /\ r.known
        BY <3>1 DEF ClientRecord
      <3>3. CASE q.pc # "idle" /\ ~account
        <4>1. client'[c] = r
          BY <2>1, <3>3
        <4> HIDE DEF r
        <4>2. Informed(r) /\ UNCHANGED <<device, revoked>>
          BY <2>1, <3>1, <3>2 DEF Informed
        <4>3. r.known /\ UNCHANGED revoked
          BY <2>1, <3>2
        <4> QED BY <3>2, <4>1, <4>2, <4>3 DEF Informed
      <3>4. CASE q.pc = "idle" \/ account
        <4>1. client'[c] = q
          BY <2>1, <3>4
        <4> QED BY <2>1, <3>1, <3>4, <4>1 DEF Informed
      <3> QED BY <3>3, <3>4
    <2>3. client' \in [Client -> ClientRecord]
      BY <2>1, <2>2
    <2> QED BY <1>4, <2>1, <2>2, <2>3 DEF DeviceInv, DeviceTypeOK, Inactive
  <1>5. CASE Tick /\ UNCHANGED adVars
    <2>1. now' \in Nat
      BY <1>5 DEF Tick, DeviceInv, DeviceTypeOK
    <2> QED BY <1>1, <1>5, <2>1, RowsAsTheyWere DEF adVars, DeviceInv, DeviceTypeOK
  <1>6. CASE UNCHANGED <<now, adVars>>
    BY <1>1, <1>6, RowsAsTheyWere DEF adVars, DeviceInv, DeviceTypeOK
  <1> QED BY <1>2, <1>3, <1>4, <1>5, <1>6

LEMMA DeviceInvHolds == DeviceSpec => []DeviceInv
  <1>1. DeviceInit => DeviceInv
    BY NoClientIsInformed DEF DeviceInit, DeviceInv, DeviceTypeOK, Informed
  <1>2. DeviceInv /\ [DeviceNext]_<<now, adVars>> => DeviceInv'
    BY ClientSteps, DeviceOutside DEF DeviceNext
  <1> QED BY <1>1, <1>2, PTL DEF DeviceSpec

\* authMiddleware: whatever other requests with the token write meanwhile from
\* what they have read, no handler serves a request that came after its device
\* was revoked, nor one all of whose time the account was disabled, and neither
\* gets a new token.
THEOREM RevokedDevicesStayOut == DeviceSpec => RevokedStaysOut
  <1>1. DeviceInv => ServedInTime
    BY DEF DeviceInv, DeviceTypeOK, Informed, ServedInTime
  <1>2. DeviceInv /\ [DeviceNext]_<<now, adVars>> => [ServedInTime]_<<now, adVars>>
    BY <1>1
  <1> QED BY <1>2, DeviceInvHolds, PTL DEF DeviceSpec, RevokedStaysOut

-----------------------------------------------------------------------------
(* Licence.  The file and its revocation are read one after the other, so  *)
(* a request may pair a file that was since replaced with a lapse that     *)
(* came later; its limit is then the free one.  That was room enough under *)
(* the file as well, when no file allows less than none: licgen accepts    *)
(* such a file, and for it the claim does not hold.                        *)

LicenceSpec == LicenceInit /\ [][LicenceNext]_<<now, licVars>>

Generous == \A l \in Licences : l.limit = 0 \/ l.limit >= FreeUserLimit

\* A limit m lets in whom a limit n lets in.
Covers(m, n) == m = 0 \/ (n # 0 /\ m >= n)

Limits == {n \in Nat : Covers(n, FreeUserLimit)}

CreatorRecord == [pc: {"idle", "blob", "crl", "count", "over", "clear", "save", "create", "grace", "refused"},
                  blob: Licences \cup {None}, limit: Limits, since: Nat \cup {None}, blind: BOOLEAN]

LicenceTypeOK ==
    /\ now \in Nat
    /\ blob \in Licences \cup {None}
    /\ upload \in Licences \cup {None}
    /\ over \in Nat \cup {None}
    /\ active \in 0 .. MaxUsers
    /\ creator \in [Creator -> CreatorRecord]
    /\ seen \in [Creator -> [limits: SUBSET Limits, low: Nat]]

\* UserLimit at a moment t.
LimitAt(file, rev, t) ==
    IF file = None THEN FreeUserLimit
    ELSE IF \/ Revocable(file) /\ rev = file.id
            \/ file.plan = "demo" /\ t >= file.expires
            \/ file.plan = "subscription" /\ t > file.expires + LicenceGrace
           THEN FreeUserLimit ELSE file.limit

\* What a request r has read was in force since it came, which s remembers, or
\* less than what was: with n active users, a revocation rev and at a moment t.
Admissible(r, s, n, rev, t) ==
    /\ r.pc # "idle" => s.low <= n
    /\ r.pc = "crl" => \E m \in s.limits : Covers(m, LimitAt(r.blob, rev, t))
    /\ r.pc = "count" => \E m \in s.limits : Covers(m, r.limit)
    /\ r.pc = "clear" => \E m \in s.limits : Fits(m, s.low)

\* A request that is about to write the row o down found none, a moment ago.
Recent(r, o, t) ==
    /\ r.since # None => r.since \in {t, t - 1}
    /\ r.pc = "save" => r.since # None /\ (o # None => o >= r.since - 1)

LicenceInv ==
    /\ Generous
    /\ LicenceTypeOK
    /\ first = over
    /\ \A c \in Creator : /\ Admissible(creator[c], seen[c], active, crl, now)
                             /\ Recent(creator[c], over, now)

LEMMA UserLimitNow ==
    ASSUME NEW file, NEW rev
    PROVE  /\ UserLimit(file, rev) = LimitAt(file, rev, now)
           /\ UserLimit(file, rev)' = LimitAt(file, rev, now')
  BY DEF UserLimit, LimitAt

LEMMA LimitAtIsLimit ==
    ASSUME Generous, NEW file \in Licences \cup {None}, NEW rev, NEW t \in Nat
    PROVE  LimitAt(file, rev, t) \in Limits
  BY LicenceAssumption DEF LimitAt, Limits, Covers, Generous

\* What has lapsed stays so, until another revocation.
LEMMA LapsesStay ==
    ASSUME NEW file \in Licences \cup {None}, NEW rev, NEW rev2, rev2 = rev \/ rev = None,
           NEW t \in Nat, NEW t2 \in Nat, t <= t2
    PROVE  LimitAt(file, rev2, t2) \in {LimitAt(file, rev, t), FreeUserLimit}
  <1>1. CASE file = None
    BY <1>1 DEF LimitAt
  <1>2. CASE file # None
    <2>1. file \in Licences /\ file.id # None /\ file.expires \in Nat
      BY <1>2, LicenceAssumption
    <2>2. LicenceGrace \in Nat
      BY LicenceAssumption
    <2>3. CASE Revocable(file) /\ rev = file.id
      BY <1>2, <2>1, <2>3 DEF LimitAt
    <2>4. CASE file.plan = "demo" /\ t >= file.expires
      BY <1>2, <2>1, <2>4 DEF LimitAt
    <2>5. CASE file.plan = "subscription" /\ t > file.expires + LicenceGrace
      BY <1>2, <2>1, <2>2, <2>5 DEF LimitAt
    <2>6. CASE ~(\/ Revocable(file) /\ rev = file.id
                 \/ file.plan = "demo" /\ t >= file.expires
                 \/ file.plan = "subscription" /\ t > file.expires + LicenceGrace)
      BY <1>2, <2>6 DEF LimitAt
    <2> QED BY <2>3, <2>4, <2>5, <2>6
  <1> QED BY <1>1, <1>2

LEMMA CoversFree ==
    ASSUME NEW m \in Limits, NEW n \in Nat, NEW k \in {n, FreeUserLimit}, Covers(m, n)
    PROVE  Covers(m, k)
  BY LicenceAssumption DEF Covers, Limits

\* Who fits under a limit fits under one that covers it, and so do fewer.
LEMMA CoversFits ==
    ASSUME NEW m \in Nat, NEW n \in Nat, Covers(m, n), NEW a \in Nat, NEW b \in Nat, b <= a, Fits(n, a)
    PROVE  Fits(m, b)
  BY DEF Covers, Fits

\* What seen becomes of a request that is under way.
Seeing(s, s2) == /\ s2 \in [limits: SUBSET Limits, low: Nat]
                 /\ s.limits \subseteq s2.limits /\ UserLimit(blob, crl)' \in s2.limits
                 /\ s2.low <= s.low /\ s2.low <= active'

Watched == seen' = [c \in Creator |->
           IF creator'[c].pc = "idle" THEN NotSeen
           ELSE [limits |-> seen[c].limits \cup {UserLimit(blob, crl)'},
                 low |-> IF active' < seen[c].low THEN active' ELSE seen[c].low]]

LEMMA NoCreatorIsIdle ==
    /\ NoCreator \in CreatorRecord /\ NoCreator.pc = "idle" /\ NoCreator.since = None
    /\ NotSeen \in [limits: SUBSET Limits, low: Nat] /\ NotSeen.low = MaxUsers
  BY LicenceAssumption DEF NoCreator, CreatorRecord, NotSeen, Limits, Covers

LEMMA WatchedSees ==
    ASSUME LicenceInv, Watched, blob' \in Licences \cup {None}, now' \in Nat,
           active' \in 0 .. MaxUsers, NEW c \in Creator
    PROVE  /\ creator'[c].pc # "idle" => Seeing(seen[c], seen'[c])
           /\ creator'[c].pc = "idle" => seen'[c] = NotSeen
           /\ seen'[c] \in [limits: SUBSET Limits, low: Nat]
  <1>1. seen[c] \in [limits: SUBSET Limits, low: Nat] /\ Generous
    BY DEF LicenceInv, LicenceTypeOK
  <1>2. UserLimit(blob, crl)' = LimitAt(blob', crl', now')
    BY DEF UserLimit, LimitAt
  <1>3. UserLimit(blob, crl)' \in Limits
    BY <1>1, <1>2, LimitAtIsLimit
  <1> DEFINE u == UserLimit(blob, crl)'
             s2 == [limits |-> seen[c].limits \cup {u},
                    low |-> IF active' < seen[c].low THEN active' ELSE seen[c].low]
  <1>4. seen'[c] = IF creator'[c].pc = "idle" THEN NotSeen ELSE s2
    BY DEF Watched
  <1> HIDE DEF u
  <1>5. s2.limits = seen[c].limits \cup {u} /\ s2.low = IF active' < seen[c].low THEN active' ELSE seen[c].low
    OBVIOUS
  <1>6. s2 \in [limits: SUBSET Limits, low: Nat]
    BY <1>1, <1>3 DEF u
  <1>7. s2.low <= seen[c].low /\ s2.low <= active'
    BY <1>1, <1>5
  <1>8. seen[c].limits \subseteq s2.limits /\ u \in s2.limits
    BY <1>5
  <1> HIDE DEF s2
  <1> QED BY <1>4, <1>6, <1>7, <1>8, NoCreatorIsIdle DEF Seeing, u

\* A request that does not move keeps what it has read.
LEMMA AdmissibleStays ==
    ASSUME LicenceInv, NEW q \in CreatorRecord, NEW s \in [limits: SUBSET Limits, low: Nat],
           Admissible(q, s, active, crl, now), NEW s2, q.pc # "idle" => Seeing(s, s2),
           now' \in {now, now + 1}, q.pc = "crl" => crl' = crl \/ crl = None
    PROVE  Admissible(q, s2, active', crl', now')
  <1>1. CASE q.pc = "idle"
    BY <1>1 DEF Admissible
  <1>2. CASE q.pc # "idle"
    <2>1. Seeing(s, s2) /\ s2.low <= active'
      BY <1>2 DEF Seeing
    <2>2. ASSUME q.pc = "crl"
          PROVE  \E m \in s2.limits : Covers(m, LimitAt(q.blob, crl', now'))
      <3>1. PICK m \in s.limits : Covers(m, LimitAt(q.blob, crl, now))
        BY <2>2 DEF Admissible
      <3>3. q.blob \in Licences \cup {None} /\ Generous /\ now \in Nat /\ now' \in Nat /\ now <= now'
        BY DEF CreatorRecord, LicenceInv, LicenceTypeOK
      <3>4. LimitAt(q.blob, crl', now') \in {LimitAt(q.blob, crl, now), FreeUserLimit}
        BY <2>2, <3>3, LapsesStay
      <3>5. m \in Limits /\ LimitAt(q.blob, crl, now) \in Nat
        BY <3>3, LimitAtIsLimit DEF Limits
      <3>6. Covers(m, LimitAt(q.blob, crl', now'))
        BY <3>1, <3>4, <3>5, CoversFree
      <3> QED BY <2>1, <3>6 DEF Seeing
    <2>3. q.pc = "count" => \E m \in s2.limits : Covers(m, q.limit)
      BY <2>1 DEF Admissible, Seeing
    <2>4. ASSUME q.pc = "clear"
          PROVE  \E m \in s2.limits : Fits(m, s2.low)
      <3>1. PICK m \in s.limits : Fits(m, s.low)
        BY <2>4 DEF Admissible
      <3>2. m \in Nat /\ s.low \in Nat /\ s2.low \in Nat /\ s2.low <= s.low
        BY <2>1 DEF Seeing, Limits
      <3>3. Fits(m, s2.low)
        BY <3>1, <3>2 DEF Fits
      <3> QED BY <2>1, <3>3 DEF Seeing
    <2> QED BY <2>1, <2>2, <2>3, <2>4 DEF Admissible
  <1> QED BY <1>1, <1>2

\* The row of the excess is kept, cleared, or written by a request that found
\* none a moment ago.
OverMoves == \/ over' \in {over, None}
             \/ over = None /\ over' \in Nat /\ over' \in {now, now - 1}

LEMMA RecentStays ==
    ASSUME LicenceInv, NEW q \in CreatorRecord, Recent(q, over, now),
           \/ now' = now /\ OverMoves
           \/ now' = now + 1 /\ over' = over /\ (q.since # None => q.since = now)
    PROVE  Recent(q, over', now')
  <1>1. now \in Nat /\ over \in Nat \cup {None} /\ q.since \in Nat \cup {None} /\ None \notin Int
    BY ClockAssumption DEF LicenceInv, LicenceTypeOK, CreatorRecord
  <1> QED BY <1>1 DEF Recent, OverMoves

\* The requests after a step of one of them, or of none.
LEMMA LicenceKept ==
    ASSUME LicenceInv, Watched,
           blob' \in Licences \cup {None}, upload' \in Licences \cup {None}, over' \in Nat \cup {None},
           active' \in 0 .. MaxUsers, first' = over',
           \/ now' = now /\ OverMoves
           \/ now' = now + 1 /\ over' = over /\ \A c \in Creator : creator[c].since # None => creator[c].since = now,
           (\A c \in Creator : creator[c].pc # "crl") \/ crl' = crl \/ crl = None,
           \/ creator' = creator
           \/ \E c \in Creator, r \in CreatorRecord :
                 /\ creator' = [creator EXCEPT ![c] = r]
                 /\ Recent(r, over', now')
                 /\ r.pc # "idle" /\ Seeing(seen[c], seen'[c]) => Admissible(r, seen'[c], active', crl', now')
    PROVE  LicenceInv'
  <1>1. now' \in Nat /\ now' \in {now, now + 1}
    BY DEF LicenceInv, LicenceTypeOK
  <1>2. \A c \in Creator : /\ creator'[c].pc # "idle" => Seeing(seen[c], seen'[c])
                           /\ seen'[c] \in [limits: SUBSET Limits, low: Nat]
    BY <1>1, WatchedSees
  <1>3. \A c \in Creator : /\ creator[c] \in CreatorRecord /\ Recent(creator[c], over, now)
                           /\ seen[c] \in [limits: SUBSET Limits, low: Nat]
                           /\ Admissible(creator[c], seen[c], active, crl, now)
    BY DEF LicenceInv, LicenceTypeOK
  <1>4. ASSUME NEW c \in Creator, NEW q \in CreatorRecord, q = creator[c], creator'[c] = q
        PROVE  Recent(q, over', now') /\ Admissible(q, seen'[c], active', crl', now')
    <2>1. Recent(q, over', now')
      BY <1>3, <1>4, RecentStays
    <2>2. PICK s \in [limits: SUBSET Limits, low: Nat] : s = seen[c]
      BY <1>3
    <2>3. PICK s2 : s2 = seen'[c]
      OBVIOUS
    <2>4. Admissible(q, s2, active', crl', now')
      BY <1>1, <1>2, <1>3, <1>4, <2>2, <2>3, AdmissibleStays
    <2> QED BY <2>1, <2>3, <2>4
  <1>5. /\ creator' \in [Creator -> CreatorRecord]
        /\ \A c \in Creator : Recent(creator'[c], over', now') /\ Admissible(creator'[c], seen'[c], active', crl', now')
    <2>1. CASE creator' = creator
      <3>1. creator' \in [Creator -> CreatorRecord]
        BY <2>1 DEF LicenceInv, LicenceTypeOK
      <3> QED BY <1>3, <1>4, <2>1, <3>1
    <2>2. ASSUME NEW c \in Creator, NEW r \in CreatorRecord, creator' = [creator EXCEPT ![c] = r],
                 Recent(r, over', now'), r.pc # "idle" /\ Seeing(seen[c], seen'[c]) => Admissible(r, seen'[c], active', crl', now')
          PROVE  /\ creator' \in [Creator -> CreatorRecord]
                 /\ \A d \in Creator : Recent(creator'[d], over', now') /\ Admissible(creator'[d], seen'[d], active', crl', now')
      <3>1. /\ creator' \in [Creator -> CreatorRecord] /\ creator'[c] = r
            /\ \A d \in Creator \ {c} : creator'[d] = creator[d]
        BY <2>2 DEF LicenceInv, LicenceTypeOK
      <3>2. Recent(creator'[c], over', now') /\ Admissible(creator'[c], seen'[c], active', crl', now')
        <4>1. r.pc = "idle" => Admissible(r, seen'[c], active', crl', now')
          BY DEF Admissible
        <4> QED BY <1>2, <2>2, <3>1, <4>1
      <3> QED BY <1>3, <1>4, <3>1, <3>2
    <2> QED BY <2>1, <2>2
  <1>6. seen' \in [Creator -> [limits: SUBSET Limits, low: Nat]]
    BY <1>2 DEF Watched
  <1> QED BY <1>1, <1>5, <1>6 DEF LicenceInv, LicenceTypeOK, Generous

\* The steps of a request.
LEMMA CreatorSteps ==
    ASSUME LicenceInv, Watched, NEW c \in Creator, UNCHANGED now,
           \/ Wants(c) \/ ReadBlob(c) \/ ReadCRL(c) \/ CountUsers(c) \/ ClearOverLimit(c)
           \/ ReadOverLimit(c) \/ SaveOverLimit(c) \/ LicenceUnread(c)
           \/ CreateUser(c) \/ Refused(c)
    PROVE  LicenceInv'
  <1> DEFINE q == creator[c]
  <1>1. /\ q \in CreatorRecord /\ Admissible(q, seen[c], active, crl, now) /\ Recent(q, over, now)
        /\ seen[c] \in [limits: SUBSET Limits, low: Nat]
        /\ Generous /\ LicenceTypeOK /\ first = over
    BY DEF LicenceInv, LicenceTypeOK
  <1>2. /\ now \in Nat /\ blob \in Licences \cup {None} /\ upload \in Licences \cup {None}
        /\ over \in Nat \cup {None} /\ active \in 0 .. MaxUsers /\ MaxUsers \in Nat
        /\ None \notin Int /\ q.since \in Nat \cup {None}
    BY <1>1, LicenceAssumption, ClockAssumption DEF LicenceTypeOK, CreatorRecord
  <1>3. ASSUME NEW r \in CreatorRecord, creator' = [creator EXCEPT ![c] = r],
               UNCHANGED <<blob, crl, upload>>, over' \in Nat \cup {None}, first' = over', OverMoves,
               active' \in 0 .. MaxUsers, Recent(r, over', now'),
               r.pc # "idle" /\ Seeing(seen[c], seen'[c]) => Admissible(r, seen'[c], active', crl', now')
        PROVE  LicenceInv'
    BY <1>2, <1>3, LicenceKept
  <1>4. ASSUME NEW r \in CreatorRecord, creator' = [creator EXCEPT ![c] = r],
               UNCHANGED <<blob, crl, upload, over, first, active>>, Recent(r, over, now),
               r.pc # "idle" /\ Seeing(seen[c], seen'[c]) => Admissible(r, seen'[c], active, crl, now)
        PROVE  LicenceInv'
    <2>1. OverMoves
      BY <1>4 DEF OverMoves
    <2> QED BY <1>1, <1>2, <1>3, <1>4, <2>1
  <1>5. ASSUME NEW pc \in {"blob", "over", "clear", "create", "grace", "refused"}
        PROVE  LET r == [q EXCEPT !.pc = pc]
               IN r \in CreatorRecord /\ r.pc = pc /\ r.since = q.since /\ r.limit = q.limit /\ r.blob = q.blob
    BY <1>1 DEF CreatorRecord
  <1>6. \* to a state that asks nothing
        ASSUME NEW r \in CreatorRecord, r.pc \in {"blob", "over", "create", "grace", "refused"},
               Seeing(seen[c], seen'[c])
        PROVE  Admissible(r, seen'[c], active', crl', now')
    BY <1>6 DEF Admissible, Seeing
  <1>7. \* the two ways of going on without a write of the row
        ASSUME NEW pc \in {"blob", "over", "create", "grace", "refused"}, To(c, pc),
               UNCHANGED <<blob, crl, upload, over, first, active>>
        PROVE  LicenceInv'
    <2> DEFINE r == [q EXCEPT !.pc = pc]
    <2>1. r \in CreatorRecord /\ r.pc = pc /\ r.since = q.since /\ creator' = [creator EXCEPT ![c] = r]
      BY <1>5, <1>7 DEF To
    <2>2. Recent(r, over, now)
      BY <1>1, <1>7, <2>1 DEF Recent
    <2> HIDE DEF r
    <2>3. Seeing(seen[c], seen'[c]) => Admissible(r, seen'[c], active, crl, now)
      BY <1>6, <1>7, <2>1
    <2> QED BY <1>4, <1>7, <2>1, <2>2, <2>3
  <1>8. CASE Wants(c)
    BY <1>7, <1>8 DEF Wants
  <1>9. CASE ReadBlob(c)
    <2> DEFINE r == [q EXCEPT !.pc = "crl", !.blob = blob]
    <2>1. creator' = [creator EXCEPT ![c] = r] /\ UNCHANGED <<blob, crl, upload, over, first, active>>
      BY <1>9 DEF ReadBlob
    <2> HIDE DEF q
    <2>2. r \in CreatorRecord /\ r.pc = "crl" /\ r.blob = blob /\ r.since = q.since
      BY <1>1, <1>2 DEF CreatorRecord
    <2> HIDE DEF r
    <2>3. Recent(r, over, now)
      BY <1>1, <2>2 DEF Recent
    <2>4. ASSUME Seeing(seen[c], seen'[c])
          PROVE  Admissible(r, seen'[c], active, crl, now)
      <3>1. LimitAt(blob, crl, now) \in seen'[c].limits
        BY <2>1, <2>4, UserLimitNow DEF Seeing
      <3>2. LimitAt(blob, crl, now) \in Nat
        BY <1>1, <1>2, LimitAtIsLimit DEF Limits
      <3>3. Covers(LimitAt(blob, crl, now), LimitAt(blob, crl, now))
        BY <3>2 DEF Covers
      <3>4. seen'[c].low <= active
        BY <2>1, <2>4 DEF Seeing
      <3> QED BY <2>2, <3>1, <3>3, <3>4 DEF Admissible
    <2> QED BY <1>4, <2>1, <2>2, <2>3, <2>4
  <1>10. CASE ReadCRL(c)
    <2> DEFINE u == UserLimit(q.blob, crl)
               r == [q EXCEPT !.pc = "count", !.blob = None, !.limit = u]
    <2>1. creator' = [creator EXCEPT ![c] = r] /\ UNCHANGED <<blob, crl, upload, over, first, active>>
      BY <1>10 DEF ReadCRL
    <2>2. q.pc = "crl" /\ q.blob \in Licences \cup {None}
      BY <1>1, <1>10 DEF ReadCRL, Is, CreatorRecord
    <2>3. u = LimitAt(q.blob, crl, now)
      BY DEF UserLimit, LimitAt
    <2>4. u \in Limits
      BY <1>1, <1>2, <2>2, <2>3, LimitAtIsLimit
    <2> HIDE DEF q, u
    <2>5. r \in CreatorRecord /\ r.pc = "count" /\ r.limit = u /\ r.since = q.since
      BY <1>1, <2>4 DEF CreatorRecord
    <2> HIDE DEF r
    <2>6. Recent(r, over, now)
      BY <1>1, <2>5 DEF Recent
    <2>7. ASSUME Seeing(seen[c], seen'[c])
          PROVE  Admissible(r, seen'[c], active, crl, now)
      <3>1. PICK m \in seen[c].limits : Covers(m, u)
        BY <1>1, <2>2, <2>3 DEF Admissible
      <3>2. m \in seen'[c].limits /\ seen'[c].low <= active
        BY <2>1, <2>7, <3>1 DEF Seeing
      <3> QED BY <2>5, <3>1, <3>2 DEF Admissible
    <2> QED BY <1>4, <2>1, <2>5, <2>6, <2>7
  <1>11. CASE CountUsers(c)
    <2>1. q.pc = "count" /\ UNCHANGED <<blob, crl, upload, over, first, active>> /\ q.limit \in Limits
      BY <1>1, <1>11 DEF CountUsers, Is, CreatorRecord
    <2>2. CASE Fits(q.limit, active) /\ q.limit # 0
      <3> DEFINE r == [q EXCEPT !.pc = "clear"]
      <3>1. r \in CreatorRecord /\ r.pc = "clear" /\ r.since = q.since /\ creator' = [creator EXCEPT ![c] = r]
        BY <1>5, <1>11, <2>2 DEF CountUsers, To
      <3> HIDE DEF r
      <3>2. Recent(r, over, now)
        BY <1>1, <3>1 DEF Recent
      <3>3. ASSUME Seeing(seen[c], seen'[c])
            PROVE  Admissible(r, seen'[c], active, crl, now)
        <4>1. PICK m \in seen[c].limits : Covers(m, q.limit)
          BY <1>1, <2>1 DEF Admissible
        <4>2. m \in seen'[c].limits /\ seen'[c].low <= active /\ seen'[c].low \in Nat
          BY <2>1, <3>3, <4>1 DEF Seeing
        <4>3. m \in Nat /\ q.limit \in Nat /\ active \in Nat
          BY <1>1, <1>2, <2>1, <4>1 DEF Limits
        <4>4. Fits(m, seen'[c].low)
          BY <2>2, <4>1, <4>2, <4>3, CoversFits
        <4> QED BY <3>1, <4>2, <4>4 DEF Admissible
      <3> QED BY <1>4, <2>1, <3>1, <3>2, <3>3
    <2>3. CASE ~Fits(q.limit, active) \/ q.limit = 0
      BY <1>7, <1>11, <2>1, <2>3 DEF CountUsers
    <2> QED BY <2>2, <2>3
  <1>12. CASE ReadOverLimit(c)
    <2>1. UNCHANGED <<blob, crl, upload, over, first, active>>
      BY <1>12 DEF ReadOverLimit
    <2>2. CASE over = None
      <3> DEFINE r == [q EXCEPT !.pc = "save", !.since = now]
      <3>1. creator' = [creator EXCEPT ![c] = r]
        BY <1>12, <2>2 DEF ReadOverLimit
      <3> HIDE DEF q
      <3>2. r \in CreatorRecord /\ r.pc = "save" /\ r.since = now
        BY <1>1, <1>2 DEF CreatorRecord
      <3> HIDE DEF r
      <3>3. Recent(r, over, now)
        BY <1>2, <2>2, <3>2 DEF Recent
      <3>4. Seeing(seen[c], seen'[c]) => Admissible(r, seen'[c], active, crl, now)
        BY <2>1, <3>2 DEF Admissible, Seeing
      <3> QED BY <1>4, <2>1, <3>1, <3>2, <3>3, <3>4
    <2>3. CASE over # None
      BY <1>7, <1>12, <2>1, <2>3 DEF ReadOverLimit
    <2> QED BY <2>2, <2>3
  <1>13. CASE ClearOverLimit(c) \/ SaveOverLimit(c)
    <2>1. PICK pc \in {"create", "grace"} : To(c, pc)
      BY <1>13 DEF ClearOverLimit, SaveOverLimit
    <2> DEFINE r == [q EXCEPT !.pc = pc]
    <2>2. r \in CreatorRecord /\ r.pc = pc /\ r.since = q.since /\ creator' = [creator EXCEPT ![c] = r]
      BY <1>5, <2>1 DEF To
    <2>3. /\ UNCHANGED <<blob, crl, upload, active>> /\ over' \in Nat \cup {None} /\ first' = over' /\ OverMoves
      <3>1. CASE ClearOverLimit(c)
        BY <3>1 DEF ClearOverLimit, OverMoves
      <3>2. CASE SaveOverLimit(c)
        <4>1. q.pc = "save" /\ over' = (IF over = None THEN q.since ELSE over) /\ first' = over'
          BY <1>1, <3>2 DEF SaveOverLimit, Is, SavedOver
        <4>2. q.since \in Nat /\ q.since \in {now, now - 1}
          BY <1>1, <1>2, <4>1 DEF Recent
        <4> QED BY <1>2, <3>2, <4>1, <4>2 DEF SaveOverLimit, OverMoves
      <3> QED BY <1>13, <3>1, <3>2
    <2>4. Recent(r, over', now')
      BY <1>1, <2>2 DEF Recent
    <2> HIDE DEF r
    <2>5. Seeing(seen[c], seen'[c]) => Admissible(r, seen'[c], active', crl', now')
      BY <1>6, <2>2
    <2> QED BY <1>2, <1>3, <2>2, <2>3, <2>4, <2>5
  <1>14. CASE LicenceUnread(c)
    <2> DEFINE r == [q EXCEPT !.pc = "create", !.blind = TRUE]
    <2>1. creator' = [creator EXCEPT ![c] = r] /\ UNCHANGED <<blob, crl, upload, over, first, active>>
      BY <1>14 DEF LicenceUnread
    <2> HIDE DEF q
    <2>2. r \in CreatorRecord /\ r.pc = "create" /\ r.since = q.since
      BY <1>1 DEF CreatorRecord
    <2> HIDE DEF r
    <2>3. Recent(r, over, now)
      BY <1>1, <2>2 DEF Recent
    <2>4. Seeing(seen[c], seen'[c]) => Admissible(r, seen'[c], active, crl, now)
      BY <1>6, <2>1, <2>2
    <2> QED BY <1>4, <2>1, <2>2, <2>3, <2>4
  <1>15. CASE CreateUser(c) \/ Refused(c)
    <2>1. /\ creator' = [creator EXCEPT ![c] = NoCreator] /\ UNCHANGED <<blob, crl, upload, over, first>>
          /\ active' \in 0 .. MaxUsers
      BY <1>2, <1>15 DEF CreateUser, Refused
    <2>2. OverMoves /\ Recent(NoCreator, over', now')
      BY <2>1, NoCreatorIsIdle DEF OverMoves, Recent
    <2> QED BY <1>1, <1>2, <1>3, <2>1, <2>2, NoCreatorIsIdle
  <1> QED BY <1>8, <1>9, <1>10, <1>11, <1>12, <1>13, <1>14, <1>15

\* The administrator and time.
LEMMA LicenceOutside ==
    ASSUME LicenceInv, Watched,
           \/ /\ DisableUser \/ (\E l \in Licences : Upload(l) \/ UploadCRL(l)) \/ SaveBlob \/ RemoveLicence
              /\ UNCHANGED now
           \/ LicenceTick
    PROVE  LicenceInv'
  <1>1. /\ now \in Nat /\ blob \in Licences \cup {None} /\ upload \in Licences \cup {None}
        /\ over \in Nat \cup {None} /\ active \in 0 .. MaxUsers /\ first = over /\ MaxUsers \in Nat
    BY LicenceAssumption DEF LicenceInv, LicenceTypeOK
  <1>2. CASE LicenceTick
    BY <1>1, <1>2, LicenceKept DEF LicenceTick, Tick
  <1>3. ASSUME UNCHANGED now,
               DisableUser \/ (\E l \in Licences : Upload(l) \/ UploadCRL(l)) \/ SaveBlob \/ RemoveLicence
        PROVE  LicenceInv'
    <2>1. UNCHANGED <<over, creator, first>> /\ OverMoves
      BY <1>3 DEF DisableUser, Upload, UploadCRL, SaveBlob, RemoveLicence, OverMoves
    <2>2. blob' \in Licences \cup {None} /\ upload' \in Licences \cup {None} /\ active' \in 0 .. MaxUsers
      BY <1>1, <1>3 DEF DisableUser, Upload, UploadCRL, SaveBlob, RemoveLicence
    <2>3. (\A c \in Creator : creator[c].pc # "crl") \/ crl' = crl \/ crl = None
      BY <1>3 DEF DisableUser, Upload, UploadCRL, SaveBlob, RemoveLicence, Is
    <2> QED BY <1>1, <1>3, <2>1, <2>2, <2>3, LicenceKept
  <1> QED BY <1>2, <1>3

LEMMA LicenceInvHolds == Generous /\ LicenceSpec => []LicenceInv
  <1>1. Generous /\ LicenceInit => LicenceInv
    <2> SUFFICES ASSUME Generous, LicenceInit PROVE LicenceInv
      OBVIOUS
    <2>1. \A c \in Creator : creator[c] = NoCreator /\ seen[c] = NotSeen
      BY DEF LicenceInit
    <2>2. LicenceTypeOK
      BY NoCreatorIsIdle, LicenceAssumption DEF LicenceInit, LicenceTypeOK
    <2>3. \A c \in Creator : Admissible(creator[c], seen[c], active, crl, now) /\ Recent(creator[c], over, now)
      BY <2>1, NoCreatorIsIdle DEF Admissible, Recent
    <2> QED BY <2>2, <2>3 DEF LicenceInv, LicenceInit
  <1>2. LicenceInv /\ [LicenceNext]_<<now, licVars>> => LicenceInv'
    <2> SUFFICES ASSUME LicenceInv, [LicenceNext]_<<now, licVars>> PROVE LicenceInv'
      OBVIOUS
    <2>1. CASE LicenceNext
      BY <2>1, CreatorSteps, LicenceOutside DEF LicenceNext, Watched
    <2>2. CASE UNCHANGED <<now, licVars>>
      BY <2>2 DEF licVars, LicenceInv, LicenceTypeOK, Generous
    <2> QED BY <2>1, <2>2
  <1> QED BY <1>1, <1>2, PTL DEF LicenceSpec

\* licenseExceeded and ldapLicenseGate: one more user is let in only when a
\* limit in force since the request came had room for a number of users active
\* since it came, or within the grace counted from what was first written down
\* of the excess, whoever wrote it again meanwhile.  For files that allow no
\* less than having none does.
THEOREM LicenceGraceKept == Generous /\ LicenceSpec => GraceKept
  <1>1. LicenceInv /\ [LicenceNext]_<<now, licVars>> => [LetInByTheLicence]_<<now, licVars>>
    <2> SUFFICES ASSUME LicenceInv, LicenceNext, NEW c \in Creator
                 PROVE  /\ ~Is(c, "create") /\ creator'[c].pc = "create" /\ ~creator'[c].blind =>
                               \E limit \in seen[c].limits : Fits(limit, seen[c].low)
                        /\ ~Is(c, "grace") /\ creator'[c].pc = "grace" =>
                               first' # None /\ now - first' <= OverGrace
      BY DEF LetInByTheLicence
    <2>1. /\ creator[c] \in CreatorRecord /\ Admissible(creator[c], seen[c], active, crl, now)
          /\ Recent(creator[c], over, now) /\ first = over
          /\ seen[c] \in [limits: SUBSET Limits, low: Nat]
          /\ now \in Nat /\ over \in Nat \cup {None} /\ None \notin Int /\ OverGrace \in Nat /\ OverGrace > 1
      BY LicenceAssumption, ClockAssumption DEF LicenceInv, LicenceTypeOK
    <2>2. creator \in [Creator -> CreatorRecord]
      BY DEF LicenceInv, LicenceTypeOK
    <2>3. CASE creator'[c] = creator[c]
      BY <2>3 DEF Is
    <2>4. CASE creator'[c] # creator[c]
      <3>1. \/ Wants(c) \/ ReadBlob(c) \/ ReadCRL(c) \/ CountUsers(c) \/ ClearOverLimit(c)
            \/ ReadOverLimit(c) \/ SaveOverLimit(c) \/ LicenceUnread(c)
            \/ CreateUser(c) \/ Refused(c)
        <4>1. ASSUME NEW d \in Creator, d # c,
                     \/ Wants(d) \/ ReadBlob(d) \/ ReadCRL(d) \/ CountUsers(d) \/ ClearOverLimit(d)
                     \/ ReadOverLimit(d) \/ SaveOverLimit(d) \/ LicenceUnread(d)
                     \/ CreateUser(d) \/ Refused(d)
              PROVE  FALSE
          <5>1. creator'[c] = creator[c]
            BY <2>2, <4>1 DEF Wants, ReadBlob, ReadCRL, CountUsers, ClearOverLimit, ReadOverLimit,
                              SaveOverLimit, LicenceUnread, CreateUser, Refused, To
          <5> QED BY <2>4, <5>1
        <4> QED BY <2>4, <4>1 DEF LicenceNext, DisableUser, Upload, UploadCRL, SaveBlob, RemoveLicence, LicenceTick
      <3>2. CASE Wants(c) \/ ReadBlob(c) \/ ReadCRL(c) \/ LicenceUnread(c) \/ CreateUser(c) \/ Refused(c)
        BY <2>1, <2>2, <3>2, NoCreatorIsIdle
           DEF Wants, ReadBlob, ReadCRL, LicenceUnread, CreateUser, Refused, To, CreatorRecord
      <3>3. CASE CountUsers(c)
        <4>1. creator[c].pc = "count" /\ creator'[c].pc # "grace"
          BY <2>1, <2>2, <3>3 DEF CountUsers, Is, To, CreatorRecord
        <4>2. ASSUME creator'[c].pc = "create"
              PROVE  \E limit \in seen[c].limits : Fits(limit, seen[c].low)
          <5>1. creator[c].limit = 0
            BY <2>1, <2>2, <3>3, <4>2 DEF CountUsers, Is, To, CreatorRecord
          <5>2. PICK m \in seen[c].limits : Covers(m, creator[c].limit)
            BY <2>1, <4>1 DEF Admissible
          <5> QED BY <5>1, <5>2 DEF Covers, Fits
        <4> QED BY <4>1, <4>2
      <3>4. CASE ClearOverLimit(c)
        BY <2>1, <2>2, <3>4 DEF ClearOverLimit, Is, To, CreatorRecord, Admissible
      <3>5. CASE ReadOverLimit(c)
        BY <2>1, <2>2, <3>5 DEF ReadOverLimit, Is, To, CreatorRecord
      <3>6. CASE SaveOverLimit(c)
        <4>1. creator[c].pc = "save" /\ creator'[c].pc = "grace"
          BY <2>1, <2>2, <3>6 DEF SaveOverLimit, Is, To, CreatorRecord
        <4>2. first' = IF over = None THEN creator[c].since ELSE over
          BY <2>1, <3>6 DEF SaveOverLimit
        <4>3. /\ creator[c].since \in Nat /\ creator[c].since \in {now, now - 1}
              /\ over # None => over >= creator[c].since - 1
          BY <2>1, <4>1 DEF Recent, CreatorRecord
        <4> QED BY <2>1, <4>1, <4>2, <4>3
      <3> QED BY <3>1, <3>2, <3>3, <3>4, <3>5, <3>6
    <2> QED BY <2>3, <2>4
  <1> QED BY <1>1, LicenceInvHolds, PTL DEF LicenceSpec, GraceKept

-----------------------------------------------------------------------------
(* RadiusAccess.  A row of the trusted devices says what its last proof of *)
(* a second factor says.  The lock: what was guessed within fail_window    *)
(* still stands in the log, so whoever passes the lock does so with fewer  *)
(* than max_fail of it, and those who have passed it are counted with it.  *)

RadiusSpec == RadiusInit /\ [][RadiusNext]_<<now, raVars>>

AttemptRecord ==
    [pc: {"idle", "gate", "password", "lookup", "counter", "locks", "verify", "push", "remember", "answer"},
     kind: {"radius", "web"}, station: Station \cup {None}, password: BOOLEAN, code: BOOLEAN,
     reason: {None, "disabled", "locked", "bad_credentials", "push_timeout"} \cup Accepted, factor: BOOLEAN]

RadiusTypeOK ==
    /\ now \in Moment /\ enabled \in BOOLEAN /\ days \in Days
    /\ trusted \in [Station -> Nat \cup {None}]
    /\ proved \in [Station -> [at: Moment, days: Days] \cup {None}]
    /\ attempt \in [Attempt -> AttemptRecord]
    /\ guessed \in Seq(Nat)

\* A window is the one its last right factor opened.
Opener(s) == trusted[s] # None =>
                 /\ proved[s] # None
                 /\ trusted[s] = proved[s].at + proved[s].days

\* What a request has for its acceptance.
Reasoned(r) ==
    /\ r.pc = "remember" => r.factor /\ r.reason \in {"code_ok", "push_ok"}
    /\ r.pc \notin {"remember", "answer"} => r.reason = None

\* What is guessed stands in the log as long as it counts.
Logged ==
    /\ \A i \in DOMAIN guessed : guessed[i] <= now
    /\ \A i \in DOMAIN guessed : guessed[i] > now - FailWindow => i \in DOMAIN log
    /\ \A i \in DOMAIN log : /\ i \in DOMAIN guessed
                             /\ log[i].ts = guessed[i]
                             /\ log[i].event \in {"radius_fail", "login_fail"}

\* The failures that count, and the requests that are past the lock.
Guesses == {i \in DOMAIN guessed : guessed[i] > now - FailWindow}
PastLock == {a \in Attempt : attempt[a].pc = "verify"}
MostGuesses == MaxFails - 1 + Cardinality(Attempt)

RadiusInv ==
    /\ RadiusTypeOK
    /\ \A s \in Station : Opener(s)
    /\ \A a \in Attempt : Reasoned(attempt[a])
    /\ Logged
    /\ PastLock # {} => Cardinality(Guesses) + Cardinality(PastLock) <= MostGuesses
    /\ GuessesBounded

LEMMA NoAttemptIsNothing ==
    /\ NoAttempt \in AttemptRecord /\ NoAttempt.pc = "idle" /\ NoAttempt.reason = None /\ Reasoned(NoAttempt)
  BY DEF NoAttempt, AttemptRecord, Reasoned

LEMMA GuessesAreFinite ==
    ASSUME RadiusTypeOK
    PROVE  /\ IsFiniteSet(DOMAIN guessed)
           /\ IsFiniteSet(Guesses) /\ Cardinality(Guesses) \in Nat
           /\ IsFiniteSet(PastLock) /\ Cardinality(PastLock) \in Nat
           /\ Cardinality(PastLock) <= Cardinality(Attempt) /\ Cardinality(Attempt) \in Nat
  <1>1. DOMAIN guessed = 1 .. Len(guessed) /\ Len(guessed) \in Nat
    BY DEF RadiusTypeOK
  <1>2. IsFiniteSet(DOMAIN guessed)
    BY <1>1, FS_Interval
  <1>3. Guesses \in SUBSET DOMAIN guessed /\ PastLock \in SUBSET Attempt
    BY DEF Guesses, PastLock
  <1> QED BY <1>2, <1>3, FS_Subset, FS_CardinalityType, RadiusAssumption

\* FailLocked: who is not locked out has fewer than max_fail guesses behind him.
LEMMA UnlockedHasFew ==
    ASSUME RadiusInv, ~Locked
    PROVE  Cardinality(Guesses) <= MaxFails - 1
  <1> DEFINE recent == Since({"radius_fail", "login_fail"}, FailWindow)
  <1>1. /\ MaxFails \in Nat /\ MaxFails > 0 /\ FailWindow \in Nat /\ LockTime \in Nat /\ LockTime >= FailWindow
        /\ now \in Nat /\ guessed \in Seq(Nat)
    BY RadiusAssumption, ClockAssumption DEF RadiusInv, RadiusTypeOK, Moment
  <1>2. recent \in SUBSET DOMAIN guessed /\ Guesses \in SUBSET recent
    BY DEF Since, Guesses, RadiusInv, Logged
  <1>3. IsFiniteSet(recent) /\ Cardinality(recent) \in Nat
    BY <1>2, GuessesAreFinite, FS_Subset, FS_CardinalityType DEF RadiusInv
  <1>4. Cardinality(Guesses) <= Cardinality(recent) /\ Cardinality(Guesses) \in Nat
    BY <1>2, <1>3, FS_Subset, GuessesAreFinite DEF RadiusInv
  <1>5. CASE Cardinality(recent) >= MaxFails
    <2>1. PICK i \in recent : TRUE
      BY <1>1, <1>3, <1>5, FS_EmptySet
    <2>2. now - log[i].ts < LockTime
      <3>1. i \in DOMAIN guessed /\ log[i].ts = guessed[i] /\ log[i].ts > now - FailWindow
        BY <2>1, <1>2 DEF Since, RadiusInv, Logged
      <3>2. guessed[i] \in Nat
        BY <1>1, <3>1
      <3> QED BY <1>1, <3>1, <3>2
    <2>3. Locked
      BY <1>5, <2>1, <2>2 DEF Locked
    <2> QED BY <2>3
  <1> HIDE DEF recent
  <1> QED BY <1>1, <1>3, <1>4, <1>5

\* A request goes on as r, and nothing is guessed.
LEMMA AttemptMoves ==
    ASSUME RadiusInv, NEW a \in Attempt, NEW r \in AttemptRecord, Reasoned(r),
           attempt' = [attempt EXCEPT ![a] = r], UNCHANGED <<now, enabled, days, log, guessed>>,
           r.pc = "verify" => attempt[a].pc = "verify" \/ ~Locked,
           trusted' \in [Station -> Nat \cup {None}],
           proved' \in [Station -> [at: Moment, days: Days] \cup {None}],
           \A s \in Station : Opener(s)'
    PROVE  RadiusInv'
  <1>1. RadiusTypeOK'
    BY DEF RadiusInv, RadiusTypeOK
  <1>2. \A b \in Attempt : attempt'[b] = IF b = a THEN r ELSE attempt[b]
    BY DEF RadiusInv, RadiusTypeOK
  <1>3. \A b \in Attempt : Reasoned(attempt'[b])
    BY <1>2 DEF RadiusInv
  <1>4. Logged' /\ GuessesBounded'
    BY DEF RadiusInv, Logged, GuessesBounded
  <1>5. Guesses' = Guesses
    BY DEF Guesses
  <1>6. PastLock' # {} => Cardinality(Guesses') + Cardinality(PastLock') <= MostGuesses'
    <2>1. /\ Cardinality(Guesses) \in Nat /\ IsFiniteSet(PastLock)
          /\ Cardinality(PastLock) \in Nat /\ Cardinality(PastLock') \in Nat
          /\ Cardinality(PastLock') <= Cardinality(Attempt) /\ Cardinality(Attempt) \in Nat
          /\ MaxFails \in Nat /\ MaxFails > 0 /\ MostGuesses' = MostGuesses
          /\ MostGuesses = MaxFails - 1 + Cardinality(Attempt)
      <3>1. RadiusTypeOK
        BY DEF RadiusInv
      <3>2. RadiusTypeOK' => Cardinality(PastLock') \in Nat /\ Cardinality(PastLock') <= Cardinality(Attempt)
        <4>1. PastLock' \in SUBSET Attempt
          BY DEF PastLock
        <4> QED BY <4>1, FS_Subset, FS_CardinalityType, RadiusAssumption
      <3> QED BY <1>1, <3>1, <3>2, GuessesAreFinite, RadiusAssumption DEF MostGuesses
    <2>2. CASE r.pc = "verify" /\ ~Locked
      BY <1>5, <2>1, <2>2, UnlockedHasFew
    <2>3. CASE r.pc # "verify" \/ attempt[a].pc = "verify"
      <3>1. PastLock' \in SUBSET PastLock
        BY <1>2, <2>3 DEF PastLock
      <3>2. Cardinality(PastLock') <= Cardinality(PastLock)
        BY <2>1, <3>1, FS_Subset
      <3> QED BY <1>5, <2>1, <3>1, <3>2 DEF RadiusInv
    <2> QED BY <2>2, <2>3
  <1> QED BY <1>1, <1>3, <1>4, <1>6 DEF RadiusInv

\* The same when the tables stay.
LEMMA AttemptGoes ==
    ASSUME RadiusInv, NEW a \in Attempt, NEW r \in AttemptRecord, Reasoned(r),
           attempt' = [attempt EXCEPT ![a] = r], UNCHANGED <<now, enabled, days, trusted, log, guessed, proved>>,
           r.pc = "verify" => ~Locked
    PROVE  RadiusInv'
  <1>1. /\ trusted' \in [Station -> Nat \cup {None}]
        /\ proved' \in [Station -> [at: Moment, days: Days] \cup {None}]
        /\ \A s \in Station : Opener(s)'
    BY DEF RadiusInv, RadiusTypeOK, Opener
  <1> QED BY <1>1, AttemptMoves

\* A failure is guessed, logged, and the request leaves the lock behind it.
LEMMA GuessIsCounted ==
    ASSUME RadiusInv, NEW a \in Attempt, BadCredentials(a), UNCHANGED now
    PROVE  RadiusInv'
  <1> DEFINE n == Len(guessed)
             q == attempt[a]
             r == [q EXCEPT !.pc = "answer", !.reason = "bad_credentials"]
  <1>1. /\ guessed \in Seq(Nat) /\ now \in Nat /\ n \in Nat /\ DOMAIN guessed = 1 .. n
        /\ attempt \in [Attempt -> AttemptRecord] /\ RadiusTypeOK
        /\ MaxFails \in Nat /\ MaxFails > 0 /\ FailWindow \in Nat /\ FailWindow > 0
        /\ q \in AttemptRecord /\ q.pc = "verify"
    BY RadiusAssumption, ClockAssumption DEF RadiusInv, RadiusTypeOK, BadCredentials, On, Moment
  <1>2. guessed' = Append(guessed, now) /\ UNCHANGED <<enabled, days, trusted, proved>>
        /\ attempt' = [attempt EXCEPT ![a] = r]
    BY DEF BadCredentials, Answer
  <1>3. /\ guessed' \in Seq(Nat) /\ Len(guessed') = n + 1 /\ DOMAIN guessed' = 1 .. n + 1
        /\ guessed'[n + 1] = now /\ \A i \in 1 .. n : guessed'[i] = guessed[i]
    BY <1>1, <1>2
  <1>4. log' = [i \in DOMAIN log \cup {n + 1} |-> IF i \in DOMAIN log THEN log[i] ELSE Failure(a)]
    BY <1>3 DEF BadCredentials
  <1>5. r \in AttemptRecord /\ r.pc = "answer"
    <2> HIDE DEF q
    <2> QED BY <1>1 DEF AttemptRecord
  <1> HIDE DEF n, r
  <1>6. attempt'[a] = r /\ \A b \in Attempt \ {a} : attempt'[b] = attempt[b]
    BY <1>1, <1>2
  <1>7. RadiusTypeOK'
    BY <1>1, <1>2, <1>3, <1>5 DEF RadiusTypeOK
  <1>8. (\A s \in Station : Opener(s)') /\ \A b \in Attempt : Reasoned(attempt'[b])
    BY <1>2, <1>5, <1>6 DEF RadiusInv, Opener, Reasoned
  <1>9. Logged'
    <2>1. \A i \in DOMAIN guessed' : guessed'[i] <= now'
      BY <1>1, <1>3 DEF RadiusInv, Logged
    <2>2. DOMAIN log' = DOMAIN log \cup {n + 1} /\ \A i \in DOMAIN log : log'[i] = log[i]
      BY <1>4
    <2>3. \A i \in DOMAIN guessed' : guessed'[i] > now' - FailWindow' => i \in DOMAIN log'
      BY <1>1, <1>3, <2>2 DEF RadiusInv, Logged
    <2>4. ASSUME NEW i \in DOMAIN log'
          PROVE  /\ i \in DOMAIN guessed' /\ log'[i].ts = guessed'[i]
                 /\ log'[i].event \in {"radius_fail", "login_fail"}
      <3>1. CASE i \in DOMAIN log
        BY <1>1, <1>3, <2>2, <3>1 DEF RadiusInv, Logged
      <3>2. CASE i \notin DOMAIN log
        BY <1>1, <1>3, <1>4, <2>2, <2>4, <3>2 DEF Failure
      <3> QED BY <3>1, <3>2
    <2> QED BY <2>1, <2>3, <2>4 DEF Logged
  <1>10. /\ Guesses' = Guesses \cup {n + 1} /\ n + 1 \notin Guesses
         /\ IsFiniteSet(Guesses) /\ Cardinality(Guesses) \in Nat
         /\ Cardinality(Guesses') = Cardinality(Guesses) + 1
    <2>1. Guesses' = Guesses \cup {n + 1} /\ n + 1 \notin Guesses
      BY <1>1, <1>3 DEF Guesses
    <2>2. IsFiniteSet(Guesses) /\ Cardinality(Guesses) \in Nat
      BY <1>1, GuessesAreFinite
    <2> QED BY <2>1, <2>2, FS_AddElement
  <1>11. /\ PastLock' = PastLock \ {a} /\ a \in PastLock /\ Cardinality(PastLock) \in Nat
         /\ Cardinality(PastLock') = Cardinality(PastLock) - 1 /\ Cardinality(PastLock') \in Nat
    <2>1. PastLock' = PastLock \ {a} /\ a \in PastLock
      BY <1>1, <1>5, <1>6 DEF PastLock
    <2>2. IsFiniteSet(PastLock) /\ Cardinality(PastLock) \in Nat
      BY <1>1, GuessesAreFinite
    <2>3. IsFiniteSet(PastLock') /\ Cardinality(PastLock') = Cardinality(PastLock) - 1
      BY <2>1, <2>2, FS_RemoveElement
    <2> QED BY <2>1, <2>2, <2>3, FS_CardinalityType
  <1>12. Cardinality(Guesses) + Cardinality(PastLock) <= MostGuesses
    BY <1>11 DEF RadiusInv
  <1>13. MostGuesses' = MostGuesses /\ MostGuesses \in Int /\ MostGuesses = MaxFails - 1 + Cardinality(Attempt)
    BY <1>1, GuessesAreFinite DEF MostGuesses
  <1>14. PastLock' # {} => Cardinality(Guesses') + Cardinality(PastLock') <= MostGuesses'
    BY <1>10, <1>11, <1>12, <1>13
  <1>15. GuessesBounded'
    <2> SUFFICES ASSUME NEW j \in DOMAIN guessed'
                 PROVE  Cardinality({i \in DOMAIN guessed' : i <= j /\ guessed'[i] > guessed'[j] - FailWindow})
                            <= MaxFails - 1 + Cardinality(Attempt)
      BY DEF GuessesBounded
    <2>1. CASE j = n + 1
      <3>1. {i \in DOMAIN guessed' : i <= j /\ guessed'[i] > guessed'[j] - FailWindow} = Guesses'
        BY <1>1, <1>3, <2>1 DEF Guesses
      <3>2. Cardinality(Guesses') <= MaxFails - 1 + Cardinality(Attempt)
        BY <1>10, <1>11, <1>12, <1>13
      <3> QED BY <3>1, <3>2
    <2>2. CASE j \in 1 .. n
      <3>1. {i \in DOMAIN guessed' : i <= j /\ guessed'[i] > guessed'[j] - FailWindow}
              = {i \in DOMAIN guessed : i <= j /\ guessed[i] > guessed[j] - FailWindow}
        BY <1>1, <1>3, <2>2
      <3> QED BY <1>1, <2>2, <3>1 DEF RadiusInv, GuessesBounded
    <2> QED BY <1>1, <1>3, <2>1, <2>2
  <1> QED BY <1>7, <1>8, <1>9, <1>14, <1>15 DEF RadiusInv

LEMMA AttemptSteps ==
    ASSUME RadiusInv, NEW a \in Attempt, UNCHANGED now,
           \/ \E ma \in {"valid", "invalid", "missing"}, s \in Station \cup {None},
                 password, code \in BOOLEAN : Receive(a, ma, s, password, code)
           \/ \E password, code \in BOOLEAN : WebLogin(a, password, code)
           \/ TrustGate(a) \/ TrustPassword(a) \/ Lookup(a) \/ RadiusCounter(a) \/ FailLocked(a)
           \/ BadCredentials(a) \/ CodeRight(a) \/ Push(a) \/ PushApproved(a) \/ PushRefused(a)
           \/ Remember(a) \/ Answered(a)
    PROVE  RadiusInv'
  <1> DEFINE q == attempt[a]
  <1>1. q \in AttemptRecord /\ Reasoned(q)
    BY DEF RadiusInv, RadiusTypeOK
  <1>2. ASSUME NEW pc \in {"password", "lookup", "counter", "locks", "verify", "push"}, Step(a, pc),
               q.pc \notin {"remember", "answer"},
               UNCHANGED <<enabled, days, trusted, log, guessed, proved>>, pc = "verify" => ~Locked
        PROVE  RadiusInv'
    <2> DEFINE r == [q EXCEPT !.pc = pc]
    <2>1. attempt' = [attempt EXCEPT ![a] = r]
      BY <1>2 DEF Step
    <2> HIDE DEF q
    <2>2. r \in AttemptRecord /\ r.pc = pc /\ r.reason = q.reason
      BY <1>1 DEF AttemptRecord
    <2> HIDE DEF r
    <2>3. Reasoned(r)
      BY <1>1, <1>2, <2>2 DEF Reasoned
    <2> QED BY <1>2, <2>1, <2>2, <2>3, AttemptGoes
  <1>3. ASSUME NEW reason \in {"disabled", "locked", "push_timeout", "trust_skip"}, Answer(a, reason),
               UNCHANGED <<enabled, days, trusted, log, guessed, proved>>
        PROVE  RadiusInv'
    <2> DEFINE r == [q EXCEPT !.pc = "answer", !.reason = reason]
    <2>1. attempt' = [attempt EXCEPT ![a] = r]
      BY <1>3 DEF Answer
    <2> HIDE DEF q
    <2>2. r \in AttemptRecord /\ r.pc = "answer"
      BY <1>1 DEF AttemptRecord, Accepted
    <2> HIDE DEF r
    <2>3. Reasoned(r)
      BY <2>2 DEF Reasoned
    <2> QED BY <1>3, <2>1, <2>2, <2>3, AttemptGoes
  <1>4. ASSUME NEW pc \in {"remember", "answer"}, NEW reason \in {"code_ok", "push_ok"},
               attempt' = [attempt EXCEPT ![a] = [q EXCEPT !.pc = pc, !.reason = reason, !.factor = TRUE]],
               UNCHANGED <<enabled, days, trusted, log, guessed, proved>>
        PROVE  RadiusInv'
    <2> DEFINE r == [q EXCEPT !.pc = pc, !.reason = reason, !.factor = TRUE]
    <2>1. attempt' = [attempt EXCEPT ![a] = r]
      BY <1>4
    <2> HIDE DEF q
    <2>2. r \in AttemptRecord /\ r.pc = pc /\ r.reason = reason /\ r.factor
      BY <1>1 DEF AttemptRecord, Accepted
    <2> HIDE DEF r
    <2>3. Reasoned(r)
      BY <2>2 DEF Reasoned
    <2> QED BY <1>4, <2>1, <2>2, <2>3, AttemptGoes
  <1>5. ASSUME NEW ma, NEW s \in Station \cup {None}, NEW password \in BOOLEAN, NEW code \in BOOLEAN,
               Receive(a, ma, s, password, code) \/ WebLogin(a, password, code)
        PROVE  RadiusInv'
    <2>1. UNCHANGED <<enabled, days, trusted, log, guessed, proved>>
      BY <1>5 DEF Receive, WebLogin
    <2>2. CASE Receive(a, ma, s, password, code)
      <3> DEFINE r == [NoAttempt EXCEPT !.pc = "gate", !.station = s, !.password = password, !.code = code]
      <3>1. r \in AttemptRecord /\ r.pc = "gate" /\ r.reason = None
        BY NoAttemptIsNothing DEF AttemptRecord, NoAttempt
      <3>2. attempt' = [attempt EXCEPT ![a] = r]
        BY <2>2 DEF Receive
      <3> HIDE DEF r
      <3>3. Reasoned(r)
        BY <3>1 DEF Reasoned
      <3> QED BY <2>1, <3>1, <3>2, <3>3, AttemptGoes
    <2>3. CASE WebLogin(a, password, code)
      <3> DEFINE r == [NoAttempt EXCEPT !.pc = "locks", !.kind = "web", !.password = password, !.code = code]
      <3>1. r \in AttemptRecord /\ r.pc = "locks" /\ r.reason = None
        BY NoAttemptIsNothing DEF AttemptRecord, NoAttempt
      <3>2. attempt' = [attempt EXCEPT ![a] = r]
        BY <2>3 DEF WebLogin
      <3> HIDE DEF r
      <3>3. Reasoned(r)
        BY <3>1 DEF Reasoned
      <3> QED BY <2>1, <3>1, <3>2, <3>3, AttemptGoes
    <2> QED BY <1>5, <2>2, <2>3
  <1>6. CASE Remember(a)
    <2> DEFINE s == q.station
               r == [q EXCEPT !.pc = "answer"]
    <2>1. q.pc = "remember" /\ q.factor /\ s \in Station \cup {None}
      BY <1>1, <1>6 DEF Remember, On, AttemptRecord, Reasoned
    <2>2. attempt' = [attempt EXCEPT ![a] = r] /\ UNCHANGED <<enabled, days, log, guessed>>
      BY <1>6 DEF Remember, Step
    <2>3. /\ trusted' \in [Station -> Nat \cup {None}]
          /\ proved' \in [Station -> [at: Moment, days: Days] \cup {None}]
          /\ \A x \in Station : Opener(x)'
      <3>1. /\ now \in Moment /\ now \in Nat /\ days \in Days /\ days \in Nat /\ now + days \in Nat
            /\ trusted \in [Station -> Nat \cup {None}]
            /\ proved \in [Station -> [at: Moment, days: Days] \cup {None}]
        BY RadiusAssumption, ClockAssumption DEF RadiusInv, RadiusTypeOK, Moment
      <3>2. CASE ~Opened(a)
        <4>1. UNCHANGED <<trusted, proved>>
          BY <1>6, <3>2 DEF Remember
        <4> QED BY <3>1, <4>1 DEF RadiusInv, Opener
      <3>3. CASE Opened(a)
        <4>1. /\ trusted' = [trusted EXCEPT ![s] = now + days]
              /\ proved' = [proved EXCEPT ![s] = [at |-> now, days |-> days]] /\ s \in Station
          BY <1>6, <2>1, <3>3 DEF Remember, Opened
        <4> DEFINE new == [at |-> now, days |-> days]
        <4>2. new \in [at: Moment, days: Days] /\ new # None /\ new.at = now /\ new.days = days
          BY <3>1, RadiusAssumption
        <4>3. proved' = [proved EXCEPT ![s] = new]
          BY <4>1
        <4> HIDE DEF s, new
        <4>4. \A x \in Station : Opener(x)'
          <5> SUFFICES ASSUME NEW x \in Station PROVE Opener(x)'
            OBVIOUS
          <5>1. CASE x = s
            BY <3>1, <4>1, <4>2, <4>3, <5>1 DEF Opener
          <5>2. CASE x # s
            BY <3>1, <4>1, <4>3, <5>2 DEF Opener, RadiusInv
          <5> QED BY <5>1, <5>2
        <4> QED BY <3>1, <4>1, <4>2, <4>3, <4>4
      <3> QED BY <3>2, <3>3
    <2> HIDE DEF q
    <2>4. r \in AttemptRecord /\ r.pc = "answer"
      BY <1>1 DEF AttemptRecord
    <2> HIDE DEF r
    <2>5. Reasoned(r)
      BY <2>4 DEF Reasoned
    <2> QED BY <2>2, <2>3, <2>4, <2>5, AttemptMoves
  <1>7. CASE Answered(a)
    BY <1>7, NoAttemptIsNothing, AttemptGoes DEF Answered
  <1>8. CASE TrustGate(a)
    BY <1>2, <1>8 DEF TrustGate, On
  <1>9. CASE TrustPassword(a)
    BY <1>2, <1>3, <1>9 DEF TrustPassword, On
  <1>10. CASE Lookup(a)
    BY <1>2, <1>3, <1>10 DEF Lookup, On
  <1>11. CASE RadiusCounter(a)
    BY <1>2, <1>3, <1>11 DEF RadiusCounter, On
  <1>12. CASE FailLocked(a)
    BY <1>2, <1>3, <1>12 DEF FailLocked, On
  <1>13. CASE CodeRight(a)
    BY <1>4, <1>13 DEF CodeRight
  <1>14. CASE Push(a)
    BY <1>2, <1>14 DEF Push, On
  <1>15. CASE PushApproved(a)
    BY <1>4, <1>15 DEF PushApproved
  <1>16. CASE PushRefused(a)
    BY <1>3, <1>16 DEF PushRefused
  <1> QED BY <1>5, <1>6, <1>7, <1>8, <1>9, <1>10, <1>11, <1>12, <1>13, <1>14, <1>15, <1>16, GuessIsCounted

\* Whatever happens to no request: no more stands in the log or counts after it.
LEMMA RadiusOutside ==
    ASSUME RadiusInv,
           \/ ((\E d \in Days : SetTrustDays(d)) \/ SwitchUser \/ Janitor) /\ UNCHANGED now
           \/ Tick /\ UNCHANGED raVars
           \/ UNCHANGED <<now, raVars>>
    PROVE  RadiusInv'
  <1>1. /\ now \in Nat /\ guessed \in Seq(Nat) /\ RadiusTypeOK
        /\ FailWindow \in Nat /\ Retention \in Nat /\ Retention >= FailWindow
    BY RadiusAssumption DEF RadiusInv, RadiusTypeOK, Moment
  <1>2. UNCHANGED <<attempt, guessed, proved>> /\ now' \in {now, now + 1}
    BY DEF SetTrustDays, SwitchUser, Janitor, Tick, raVars
  <1>3. /\ trusted' \in [Station -> Nat \cup {None}]
        /\ \A s \in Station : trusted'[s] \in {None, trusted[s]}
    BY <1>1 DEF SetTrustDays, SwitchUser, Janitor, Tick, raVars, RadiusTypeOK
  <1>4. /\ DOMAIN log' \subseteq DOMAIN log /\ \A i \in DOMAIN log' : log'[i] = log[i]
        /\ \A i \in DOMAIN log : log[i].ts >= now - Retention => i \in DOMAIN log'
    <2>1. CASE Janitor
      <3>1. \A i \in DOMAIN log : log[i].ts \in Nat
        BY <1>1 DEF RadiusInv, Logged
      <3> QED BY <1>1, <2>1, <3>1 DEF Janitor, Expired
    <2>2. CASE UNCHANGED log
      BY <2>2
    <2> QED BY <2>1, <2>2 DEF SetTrustDays, SwitchUser, Tick, raVars
  <1>5. RadiusTypeOK'
    <2>1. days' \in Days
      BY <1>1 DEF RadiusTypeOK, SetTrustDays, SwitchUser, Janitor, Tick, raVars
    <2>2. enabled' \in {enabled, ~enabled}
      BY DEF SetTrustDays, SwitchUser, Janitor, Tick, raVars
    <2>3. now' \in Moment
      BY <1>1, ClockAssumption DEF RadiusTypeOK, SetTrustDays, SwitchUser, Janitor, Tick, raVars, Moment
    <2> QED BY <1>1, <1>2, <1>3, <2>1, <2>2, <2>3 DEF RadiusTypeOK
  <1>6. (\A s \in Station : Opener(s)') /\ \A a \in Attempt : Reasoned(attempt'[a])
    BY <1>2, <1>3 DEF RadiusInv, Opener
  <1>7. Logged'
    <2>1. \A i \in DOMAIN guessed : guessed[i] \in Nat
      BY <1>1
    <2>2. \A i \in DOMAIN guessed' : guessed'[i] <= now'
      BY <1>1, <1>2, <2>1 DEF RadiusInv, Logged
    <2>3. \A i \in DOMAIN guessed' : guessed'[i] > now' - FailWindow' => i \in DOMAIN log'
      <3> SUFFICES ASSUME NEW i \in DOMAIN guessed, guessed[i] > now' - FailWindow
                   PROVE  i \in DOMAIN log'
        BY <1>2
      <3>1. guessed[i] > now - FailWindow /\ guessed[i] >= now - Retention
        BY <1>1, <1>2, <2>1
      <3>2. i \in DOMAIN log /\ log[i].ts = guessed[i]
        BY <3>1 DEF RadiusInv, Logged
      <3> QED BY <1>4, <3>1, <3>2
    <2> QED BY <1>2, <1>4, <2>2, <2>3 DEF RadiusInv, Logged
  <1>8. Guesses' \in SUBSET Guesses /\ PastLock' = PastLock
    BY <1>1, <1>2 DEF Guesses, PastLock
  <1>9. PastLock' # {} => Cardinality(Guesses') + Cardinality(PastLock') <= MostGuesses'
    <2>1. /\ IsFiniteSet(Guesses) /\ Cardinality(Guesses') <= Cardinality(Guesses)
          /\ Cardinality(Guesses) \in Nat /\ Cardinality(Guesses') \in Nat
          /\ Cardinality(PastLock) \in Nat /\ Cardinality(Attempt) \in Nat
      BY <1>1, <1>8, GuessesAreFinite, FS_Subset, FS_CardinalityType
    <2> QED BY <1>8, <2>1, RadiusAssumption DEF RadiusInv, MostGuesses
  <1>10. GuessesBounded'
    BY <1>2 DEF RadiusInv, GuessesBounded
  <1> QED BY <1>5, <1>6, <1>7, <1>9, <1>10 DEF RadiusInv

LEMMA RadiusInvStarts == RadiusInit => RadiusInv
  <1> SUFFICES ASSUME RadiusInit PROVE RadiusInv
    OBVIOUS
  <1>1. \A a \in Attempt : attempt[a] = NoAttempt
    BY DEF RadiusInit
  <1>2. RadiusTypeOK
    <2>1. now \in Moment /\ guessed \in Seq(Nat) /\ enabled \in BOOLEAN /\ days \in Days
      BY ClockAssumption DEF RadiusInit, Moment
    <2> QED BY <1>1, <2>1, NoAttemptIsNothing DEF RadiusInit, RadiusTypeOK
  <1>3. PastLock = {}
    BY <1>1, NoAttemptIsNothing DEF PastLock
  <1>4. Logged /\ GuessesBounded
    BY DEF RadiusInit, Logged, GuessesBounded
  <1>5. (\A s \in Station : Opener(s)) /\ \A a \in Attempt : Reasoned(attempt[a])
    BY <1>1, NoAttemptIsNothing DEF RadiusInit, Opener
  <1> QED BY <1>2, <1>3, <1>4, <1>5 DEF RadiusInv

LEMMA RadiusInvKept == RadiusInv /\ [RadiusNext]_<<now, raVars>> => RadiusInv'
  BY AttemptSteps, RadiusOutside DEF RadiusNext

\* handleAuth with FailLocked and the audit log: for any number of requests and
\* any limits, in no window of fail_window does a user fail more often than
\* max_fail - 1 times and once for every request that was past the lock.
THEOREM GuessesStayBounded == RadiusSpec => []GuessesBounded
  <1>1. RadiusInv => GuessesBounded
    BY DEF RadiusInv
  <1> QED BY <1>1, RadiusInvStarts, RadiusInvKept, PTL DEF RadiusSpec

\* radiusAuthWithTrust: no acceptance without a factor of its own, except with the
\* right password in a window that a factor has opened; for any number of
\* requests, stations and settings of the days.
THEOREM AcceptsAreFounded == RadiusSpec => AcceptIsFounded
  <1>1. RadiusInv /\ [RadiusNext]_<<now, raVars>> => [FoundedStep]_<<now, raVars>>
    <2> SUFFICES ASSUME RadiusInv, RadiusNext, NEW a \in Attempt
                 PROVE  /\ On(a, "gate") /\ attempt'[a].pc = "password" => SkipFounded(attempt[a].station)
                        /\ ~On(a, "answer") /\ attempt'[a].reason \in Accepted => Founded(a)
      BY DEF FoundedStep
    <2> DEFINE q == attempt[a]
    <2>1. /\ attempt \in [Attempt -> AttemptRecord] /\ q \in AttemptRecord /\ Reasoned(q)
          /\ None \notin Accepted
      BY RadiusAssumption DEF RadiusInv, RadiusTypeOK, Accepted
    <2>2. CASE attempt'[a] = q
      BY <2>1, <2>2 DEF On, Reasoned, Founded, Accepted
    <2>3. CASE attempt'[a] # q
      <3>1. \/ \E ma \in {"valid", "invalid", "missing"}, s \in Station \cup {None},
                  password, code \in BOOLEAN : Receive(a, ma, s, password, code)
            \/ \E password, code \in BOOLEAN : WebLogin(a, password, code)
            \/ TrustGate(a) \/ TrustPassword(a) \/ Lookup(a) \/ RadiusCounter(a) \/ FailLocked(a)
            \/ BadCredentials(a) \/ CodeRight(a) \/ Push(a) \/ PushApproved(a) \/ PushRefused(a)
            \/ Remember(a) \/ Answered(a)
        <4>1. ASSUME NEW b \in Attempt, b # a,
                     \/ \E ma \in {"valid", "invalid", "missing"}, s \in Station \cup {None},
                           password, code \in BOOLEAN : Receive(b, ma, s, password, code)
                     \/ \E password, code \in BOOLEAN : WebLogin(b, password, code)
                     \/ TrustGate(b) \/ TrustPassword(b) \/ Lookup(b) \/ RadiusCounter(b) \/ FailLocked(b)
                     \/ BadCredentials(b) \/ CodeRight(b) \/ Push(b) \/ PushApproved(b) \/ PushRefused(b)
                     \/ Remember(b) \/ Answered(b)
              PROVE  FALSE
          <5>1. attempt'[a] = q
            BY <2>1, <4>1 DEF Receive, WebLogin, TrustGate, TrustPassword, Lookup, RadiusCounter, FailLocked,
                              BadCredentials, CodeRight, Push, PushApproved, PushRefused, Remember, Answered,
                              Step, Answer
          <5> QED BY <2>3, <5>1
        <4> QED BY <2>3, <4>1 DEF RadiusNext, SetTrustDays, SwitchUser, Janitor, Tick, raVars
      <3>2. CASE TrustGate(a)
        <4>1. /\ attempt'[a].reason = None
              /\ attempt'[a].pc = "password" => TrustedNow(q.station)
          BY <2>1, <3>2 DEF TrustGate, Step, On, Reasoned, AttemptRecord
        <4>2. ASSUME TrustedNow(q.station)
              PROVE  SkipFounded(q.station)
          <5>1. q.station \in Station /\ Opener(q.station)
            BY <2>1, <4>2 DEF TrustedNow, AttemptRecord, RadiusInv
          <5>2. proved[q.station] # None
            BY <4>2, <5>1, ClockAssumption DEF TrustedNow, Opener, RadiusInv, RadiusTypeOK
          <5> QED BY <4>2, <5>1, <5>2 DEF TrustedNow, SkipFounded, Opener, RadiusInv, RadiusTypeOK
        <4> QED BY <2>1, <4>1, <4>2
      <3>3. CASE TrustPassword(a) \/ Remember(a)
        BY <2>1, <3>3 DEF TrustPassword, Remember, Step, Answer, On, Reasoned, Founded, AttemptRecord, Accepted
      <3>4. CASE CodeRight(a) \/ PushApproved(a)
        BY <2>1, <3>4 DEF CodeRight, PushApproved, On, Founded, AttemptRecord, Accepted
      <3>5. CASE \/ Lookup(a) \/ RadiusCounter(a) \/ FailLocked(a) \/ BadCredentials(a)
                 \/ Push(a) \/ PushRefused(a)
        BY <2>1, <3>5 DEF Lookup, RadiusCounter, FailLocked, BadCredentials, Push, PushRefused, Step, Answer,
                          On, Reasoned, AttemptRecord, Accepted
      <3>6. CASE Answered(a)
        BY <2>1, <3>6 DEF Answered, On
      <3>7. ASSUME NEW ma, NEW s, NEW password, NEW code,
                   Receive(a, ma, s, password, code) \/ WebLogin(a, password, code)
            PROVE  On(a, "idle") /\ attempt'[a].reason = None
        BY <2>1, <3>7 DEF Receive, WebLogin, NoAttempt
      <3>8. On(a, "idle") => ~On(a, "gate")
        BY DEF On
      <3> QED BY <2>1, <3>1, <3>2, <3>3, <3>4, <3>5, <3>6, <3>7, <3>8
    <2> QED BY <2>2, <2>3
  <1> QED BY <1>1, RadiusInvStarts, RadiusInvKept, PTL DEF RadiusSpec, AcceptIsFounded

-----------------------------------------------------------------------------
(* RateLimit.  What a key may still spend, in the map or with those who    *)
(* have found a forgotten bucket, is bounded by what it has spent.  An     *)
(* idle bucket is full, so nothing is given when one is forgotten but to   *)
(* whoever has found it.                                                   *)

RateSpec == RateInit /\ [][RateNext]_<<now, rlVars>>

Bucket == [tokens: 0 .. TokenBurst, seen: Moment]
Pass == [at: Nat, gen: Nat]
CallRecord == [pc: {"idle", "find", "take"}, l: Limiter \cup {None}, keys: Seq(Key), orphan: Bucket \cup {None}]

RateTypeOK ==
    /\ now \in Moment /\ swept \in Nat
    /\ buckets \in [Limiter -> [Key -> Bucket \cup {None}]]
    /\ caller \in [Caller -> CallRecord]
    /\ passed \in [Limiter -> [Key -> Seq(Pass)]]
    /\ forgot \in [Key -> Nat]

\* A bucket was last touched by now.
Touched(b, t) == b # None => b.seen <= t

\* A request that charges has a key to charge; only one of the API finds first,
\* and what it has found is in the map or in its hands.
Calling(r, map) ==
    /\ r.pc # "idle" => r.l \in Limiter /\ r.keys # <<>>
    /\ r.pc = "take" => r.l = "api"
    /\ r.pc # "take" => r.orphan = None
    /\ r.pc = "take" /\ r.orphan = None => map[Head(r.keys)] # None

\* The tokens of a bucket at a moment; no bucket is a full one.
Tokens(b, t) == IF b = None THEN TokenBurst
                ELSE IF b.tokens + TokenRate * (t - b.seen) > TokenBurst THEN TokenBurst
                ELSE b.tokens + TokenRate * (t - b.seen)

Late(k) == {c \in Caller : Orphaned(c, k)}
Spare(l, k) == Tokens(buckets[l][k], now)
Owing(l, k) == IF l = "api" THEN Cardinality(Late(k)) ELSE 0
Most(l) == IF l = "api" THEN Cardinality(Caller) ELSE 0

\* From every pass p[i] on, what went through and what may still go.
Budget(p, i, left, gen, t, most) ==
    /\ p[i].at <= t /\ p[i].gen <= gen
    /\ Len(p) - i + 1 + left <= TokenBurst + TokenRate * (t - p[i].at) + most * (gen - p[i].gen + 1)

Between(p, i, j, most) ==
    i <= j => j - i + 1 <= TokenBurst + TokenRate * (p[j].at - p[i].at) + most * (p[j].gen - p[i].gen + 1)

Lane(p, left, gen, t, most) ==
    /\ \A i \in DOMAIN p : Budget(p, i, left, gen, t, most)
    /\ \A i, j \in DOMAIN p : Between(p, i, j, most)

Left(l, k) == Spare(l, k) + Owing(l, k)

RateInv ==
    /\ RateTypeOK
    /\ \A l \in Limiter, k \in Key : Touched(buckets[l][k], now)
    /\ \A c \in Caller : Touched(caller[c].orphan, now) /\ Calling(caller[c], buckets.api)
    /\ \A l \in Limiter, k \in Key : Lane(passed[l][k], Left(l, k), forgot[k], now, Most(l))

\* Arithmetic the provers have to be told.
LEMMA TimesMore ==
    ASSUME NEW n \in Nat, NEW x \in Int, NEW y \in Int
    PROVE  n * (x + y) = n * x + n * y
  OBVIOUS

LEMMA TimesMonotone ==
    ASSUME NEW n \in Nat, NEW x \in Int, NEW y \in Int, x <= y
    PROVE  n * x <= n * y /\ n * x \in Int /\ n * y \in Int
  <1>1. n * (y - x) >= 0
    OBVIOUS
  <1> QED BY <1>1

LEMMA TimesIsInt ==
    ASSUME NEW n \in Nat, NEW x \in Int
    PROVE  n * x \in Int
  OBVIOUS

LEMMA PassIsTimed ==
    ASSUME NEW p \in Seq(Pass), NEW i \in DOMAIN p
    PROVE  p[i].at \in Nat /\ p[i].gen \in Nat /\ i \in Nat /\ Len(p) \in Nat
  <1>1. p[i] \in Pass /\ i \in 1 .. Len(p) /\ Len(p) \in Nat
    OBVIOUS
  <1> QED BY <1>1 DEF Pass

LEMMA RateConstants ==
    /\ TokenRate \in Nat /\ TokenRate > 0 /\ TokenBurst \in Nat /\ TokenBurst > 0
    /\ BucketIdle \in Nat /\ BucketIdle > 0 /\ TokenRate * BucketIdle >= TokenBurst
    /\ None \notin Bucket /\ Cardinality(Caller) \in Nat
    /\ \A t \in Moment : t \in Nat
  BY RateAssumption, ClockAssumption, FS_CardinalityType DEF Bucket, Moment

LEMMA Rates == TokenRate \in Nat /\ TokenBurst \in Nat
  BY RateConstants

Slack(most, times) == most * times
Allowed(n, j, left, x, g, gen, t, most) ==
    n - j + 1 + left <= TokenBurst + TokenRate * (t - x) + most * (gen - g + 1)

LEMMA BudgetStays ==
    ASSUME NEW n \in Nat, NEW j \in Nat, NEW x \in Nat, NEW g \in Nat, NEW left \in Int, NEW after \in Int,
           NEW gen \in Nat, NEW then \in Nat, NEW t \in Nat, NEW most \in Nat,
           after <= left + Slack(most, then - gen), Allowed(n, j, left, x, g, gen, t, most)
    PROVE  Allowed(n, j, after, x, g, then, t, most)
  <1> DEFINE a == most * (then - g + 1)
             b == most * (gen - g + 1)
             e == TokenRate * (t - x)
             d == Slack(most, then - gen)
  <1>1. b \in Int /\ e \in Int /\ d \in Int
    BY Rates, TimesIsInt DEF Slack
  <1>2. a = b + d
    <2>1. then - g + 1 = (gen - g + 1) + (then - gen)
      OBVIOUS
    <2>2. gen - g + 1 \in Int /\ then - gen \in Int
      OBVIOUS
    <2> QED BY <2>1, <2>2, TimesMore DEF Slack
  <1>3. n - j + 1 + left <= TokenBurst + e + b /\ after <= left + d
    BY DEF Allowed
  <1> HIDE DEF a, b, e, d
  <1>4. n - j + 1 + after <= TokenBurst + e + a
    BY <1>1, <1>2, <1>3, Rates
  <1> QED BY <1>4 DEF Allowed, a, e

\* A lane on which nobody passes, and what the API forgets its callers may take.
LEMMA LaneStays ==
    ASSUME NEW p \in Seq(Pass), NEW left \in Int, NEW after \in Int, NEW gen \in Nat, NEW then \in Nat,
           NEW t \in Nat, NEW most \in Nat, Lane(p, left, gen, t, most),
           gen <= then, after <= left + Slack(most, then - gen)
    PROVE  Lane(p, after, then, t, most)
  <1> SUFFICES ASSUME NEW i \in DOMAIN p PROVE Budget(p, i, after, then, t, most)
    BY DEF Lane
  <1>1. p[i].at \in Nat /\ p[i].gen \in Nat /\ i \in Nat /\ Len(p) \in Nat /\ Budget(p, i, left, gen, t, most)
    BY PassIsTimed DEF Lane
  <1>2. PICK x \in Nat, g \in Nat, n \in Nat, j \in Nat : x = p[i].at /\ g = p[i].gen /\ n = Len(p) /\ j = i
    BY <1>1
  <1>3. x <= t /\ g <= gen /\ Allowed(n, j, left, x, g, gen, t, most)
    BY <1>1, <1>2 DEF Budget, Allowed
  <1>4. Allowed(n, j, after, x, g, then, t, most)
    BY <1>3, BudgetStays
  <1>5. g <= then
    BY <1>3
  <1> QED BY <1>2, <1>3, <1>4, <1>5 DEF Budget, Allowed

\* One passes, and less is left by one.
LEMMA LaneGrows ==
    ASSUME NEW p \in Seq(Pass), NEW left \in Int, NEW after \in Int, NEW gen \in Nat,
           NEW t \in Nat, NEW most \in Nat, Lane(p, left, gen, t, most),
           after >= 0, after + 1 <= left, left <= TokenBurst + most
    PROVE  Lane(Append(p, [at |-> t, gen |-> gen]), after, gen, t, most)
  <1> DEFINE new == [at |-> t, gen |-> gen]
             q == Append(p, new)
             n == Len(p)
  <1>1. /\ n \in Nat /\ q \in Seq(Pass) /\ Len(q) = n + 1 /\ DOMAIN q = 1 .. n + 1 /\ DOMAIN p = 1 .. n
        /\ q[n + 1] = new /\ \A i \in 1 .. n : q[i] = p[i]
    BY DEF Pass
  <1>2. new.at = t /\ new.gen = gen
    OBVIOUS
  <1> HIDE DEF new, q, n
  <1>3. ASSUME NEW i \in DOMAIN q
        PROVE  Budget(q, i, after, gen, t, most)
    <2>1. CASE i \in 1 .. n
      <3> DEFINE e == TokenRate * (t - p[i].at)
                 b == most * (gen - p[i].gen + 1)
      <3>1. p[i].at \in Nat /\ p[i].gen \in Nat
        BY <1>1, <2>1, PassIsTimed
      <3>2. n - i + 1 + left <= TokenBurst + e + b /\ p[i].at <= t /\ p[i].gen <= gen
        BY <1>1, <2>1 DEF Lane, Budget, n
      <3>3. e \in Int /\ b \in Int
        <4>1. t - p[i].at \in Int
          BY <3>1
        <4>2. gen - p[i].gen + 1 \in Int
          BY <3>1
        <4> QED BY <4>1, <4>2, Rates, TimesIsInt
      <3> HIDE DEF e, b
      <3>4. (n + 1) - i + 1 + after <= TokenBurst + e + b
        BY <1>1, <2>1, <3>2, <3>3, RateConstants
      <3> QED BY <1>1, <2>1, <3>2, <3>4 DEF Budget, e, b
    <2>2. CASE i = n + 1
      <3>1. TokenRate * (t - t) = 0 /\ most * (gen - gen + 1) = most
        BY RateConstants
      <3>2. (n + 1) - i + 1 + after <= TokenBurst + TokenRate * (t - t) + most * (gen - gen + 1)
        BY <1>1, <2>2, <3>1, RateConstants
      <3> QED BY <1>1, <1>2, <2>2, <3>2 DEF Budget
    <2> QED BY <1>1, <2>1, <2>2
  <1>4. ASSUME NEW i \in DOMAIN q, NEW j \in DOMAIN q
        PROVE  Between(q, i, j, most)
    <2>1. CASE j \in 1 .. n
      BY <1>1, <2>1 DEF Between, Lane
    <2>2. CASE j = n + 1
      <3>0. t - q[i].at \in Int /\ gen - q[i].gen + 1 \in Int
        BY <1>1, PassIsTimed
      <3> DEFINE e == TokenRate * (t - q[i].at)
                 b == most * (gen - q[i].gen + 1)
      <3>1. q[i].at \in Nat /\ q[i].gen \in Nat
        BY <1>1, PassIsTimed
      <3>2. (n + 1) - i + 1 + after <= TokenBurst + e + b
        BY <1>1, <1>3 DEF Budget
      <3>3. e \in Int /\ b \in Int
        BY <3>0, Rates, TimesIsInt
      <3> HIDE DEF e, b
      <3>4. j - i + 1 <= TokenBurst + e + b
        BY <1>1, <2>2, <3>2, <3>3, RateConstants
      <3> QED BY <1>1, <1>2, <2>2, <3>4 DEF Between, e, b
    <2> QED BY <1>1, <2>1, <2>2
  <1> QED BY <1>3, <1>4 DEF Lane, q, new

LEMMA BudgetWaits ==
    ASSUME NEW n \in Nat, NEW j \in Nat, NEW x \in Nat, NEW g \in Nat, NEW left \in Int, NEW after \in Int,
           NEW gen \in Nat, NEW t \in Nat, NEW most \in Nat,
           after <= left + TokenRate, Allowed(n, j, left, x, g, gen, t, most)
    PROVE  Allowed(n, j, after, x, g, gen, t + 1, most)
  <1> DEFINE b == most * (gen - g + 1)
             e == TokenRate * (t - x)
             f == TokenRate * ((t + 1) - x)
  <1>1. b \in Int /\ e \in Int
    BY Rates, TimesIsInt
  <1>2. f = e + TokenRate
    <2>1. (t + 1) - x = (t - x) + 1
      OBVIOUS
    <2>2. t - x \in Int /\ 1 \in Int
      OBVIOUS
    <2>3. TokenRate * 1 = TokenRate
      BY Rates
    <2> QED BY <2>1, <2>2, <2>3, Rates, TimesMore
  <1>3. n - j + 1 + left <= TokenBurst + e + b
    BY DEF Allowed
  <1> HIDE DEF b, e, f
  <1>4. n - j + 1 + after <= TokenBurst + f + b
    BY <1>1, <1>2, <1>3, Rates
  <1> QED BY <1>4 DEF Allowed, b, f

\* Time fills a bucket no faster than the bound grows.
LEMMA LaneWaits ==
    ASSUME NEW p \in Seq(Pass), NEW left \in Int, NEW after \in Int, NEW gen \in Nat,
           NEW t \in Nat, NEW most \in Nat, Lane(p, left, gen, t, most), after <= left + TokenRate
    PROVE  Lane(p, after, gen, t + 1, most)
  <1> SUFFICES ASSUME NEW i \in DOMAIN p PROVE Budget(p, i, after, gen, t + 1, most)
    BY DEF Lane
  <1>1. p[i].at \in Nat /\ p[i].gen \in Nat /\ i \in Nat /\ Len(p) \in Nat /\ Budget(p, i, left, gen, t, most)
    BY PassIsTimed DEF Lane
  <1>2. PICK x \in Nat, g \in Nat, n \in Nat, j \in Nat : x = p[i].at /\ g = p[i].gen /\ n = Len(p) /\ j = i
    BY <1>1
  <1>3. x <= t /\ g <= gen /\ Allowed(n, j, left, x, g, gen, t, most)
    BY <1>1, <1>2 DEF Budget, Allowed
  <1>4. Allowed(n, j, after, x, g, gen, t + 1, most)
    BY <1>3, BudgetWaits
  <1>5. x <= t + 1
    BY <1>3
  <1> QED BY <1>2, <1>3, <1>4, <1>5 DEF Budget, Allowed

\* Tokens of a bucket: within the burst, no more than the rate adds with time,
\* all of them once it is idle, one less when it is charged.
LEMMA TokensCount ==
    ASSUME NEW b \in Bucket \cup {None}, NEW t \in Nat, Touched(b, t)
    PROVE  Tokens(b, t) \in 0 .. TokenBurst
  <1>1. CASE b = None
    BY <1>1, RateConstants DEF Tokens
  <1>2. CASE b # None
    <2>1. b.tokens \in 0 .. TokenBurst /\ b.seen \in Nat /\ b.seen <= t
      BY <1>2, RateConstants DEF Bucket, Touched
    <2>2. TokenRate * (t - b.seen) >= TokenRate * 0 /\ TokenRate * (t - b.seen) \in Int /\ TokenRate * 0 = 0
      BY <2>1, RateConstants, TimesMonotone
    <2> QED BY <1>2, <2>1, <2>2, RateConstants DEF Tokens
  <1> QED BY <1>1, <1>2

LEMMA TokensWait ==
    ASSUME NEW b \in Bucket \cup {None}, NEW t \in Nat, Touched(b, t)
    PROVE  Tokens(b, t + 1) <= Tokens(b, t) + TokenRate
  <1>1. CASE b = None
    BY <1>1, RateConstants DEF Tokens
  <1>2. CASE b # None
    <2>1. b.tokens \in 0 .. TokenBurst /\ b.seen \in Nat
      BY <1>2, RateConstants DEF Bucket
    <2> DEFINE e == TokenRate * (t - b.seen)
               f == TokenRate * ((t + 1) - b.seen)
    <2>2. f = e + TokenRate
      <3>1. (t + 1) - b.seen = (t - b.seen) + 1 /\ TokenRate * 1 = TokenRate
        BY <2>1, RateConstants
      <3> QED BY <2>1, <3>1, RateConstants, TimesMore
    <2>3. e \in Int
      BY <2>1, RateConstants, TimesIsInt
    <2>4. Tokens(b, t) = IF b.tokens + e > TokenBurst THEN TokenBurst ELSE b.tokens + e
      BY <1>2, Zenon DEF Tokens
    <2>5. Tokens(b, t + 1) = IF b.tokens + f > TokenBurst THEN TokenBurst ELSE b.tokens + f
      BY <1>2, Zenon DEF Tokens
    <2> HIDE DEF e, f
    <2> QED BY <2>1, <2>2, <2>3, <2>4, <2>5, Rates
  <1> QED BY <1>1, <1>2

LEMMA IdleIsFull ==
    ASSUME NEW b \in Bucket \cup {None}, now \in Moment, Idle(b)
    PROVE  Tokens(b, now) = TokenBurst
  <1>1. b # None /\ b.tokens \in 0 .. TokenBurst /\ b.seen \in Nat /\ now \in Nat /\ BucketIdle <= now - b.seen
    BY RateConstants DEF Idle, Bucket
  <1>2. TokenRate * BucketIdle <= TokenRate * (now - b.seen) /\ TokenRate * (now - b.seen) \in Int
        /\ TokenRate * BucketIdle \in Int
    BY <1>1, RateConstants, TimesMonotone
  <1> DEFINE e == TokenRate * (now - b.seen)
  <1>3. Tokens(b, now) = IF b.tokens + e > TokenBurst THEN TokenBurst ELSE b.tokens + e
    BY <1>1, Zenon DEF Tokens
  <1>4. e \in Int /\ e >= TokenBurst
    BY <1>1, <1>2, RateConstants
  <1> HIDE DEF e
  <1> QED BY <1>1, <1>3, <1>4, RateConstants

LEMMA SpentIsLess ==
    ASSUME NEW b \in Bucket, now \in Moment, Touched(b, now)
    PROVE  /\ Spent(b) \in Bucket /\ Touched(Spent(b), now)
           /\ Refilled(b).tokens = Tokens(b, now)
           /\ Tokens(Spent(b), now) = IF Refilled(b).tokens >= 1 THEN Tokens(b, now) - 1 ELSE Tokens(b, now)
  <1>1. b # None /\ now \in Nat
    BY RateConstants
  <1>2. Refilled(b) = [tokens |-> Tokens(b, now), seen |-> now]
    BY <1>1 DEF Refilled, Tokens
  <1>3. Tokens(b, now) \in 0 .. TokenBurst
    BY <1>1, TokensCount
  <1> DEFINE n == IF Tokens(b, now) >= 1 THEN Tokens(b, now) - 1 ELSE Tokens(b, now)
             r == [tokens |-> n, seen |-> now]
  <1>4. Spent(b) = r
    BY <1>2, <1>3 DEF Spent
  <1>5. r \in Bucket /\ r.seen = now /\ r.tokens = n /\ n \in 0 .. TokenBurst
    BY <1>3, RateConstants DEF Bucket
  <1>6. r # None
    BY <1>5, RateConstants
  <1>7. TokenRate * (now - now) = 0
    BY <1>1, RateConstants
  <1>8. Tokens(r, now) = n
    BY <1>5, <1>6, <1>7, RateConstants DEF Tokens
  <1>9. Touched(r, now)
    BY <1>1, <1>5 DEF Touched
  <1> QED BY <1>2, <1>4, <1>5, <1>8, <1>9

LEMMA OwingIsCounted ==
    ASSUME NEW l, NEW k
    PROVE  /\ IsFiniteSet(Late(k)) /\ Owing(l, k) \in Nat /\ Owing(l, k) <= Most(l) /\ Most(l) \in Nat
  <1>1. Late(k) \in SUBSET Caller
    BY DEF Late
  <1> QED BY <1>1, RateAssumption, FS_Subset, FS_CardinalityType DEF Owing, Most

LEMMA SpareIsCounted ==
    ASSUME RateInv, NEW l \in Limiter, NEW k \in Key
    PROVE  Spare(l, k) \in 0 .. TokenBurst /\ Left(l, k) \in Nat /\ Left(l, k) <= TokenBurst + Most(l)
  <1>1. buckets[l][k] \in Bucket \cup {None} /\ Touched(buckets[l][k], now) /\ now \in Nat
    BY RateConstants DEF RateInv, RateTypeOK
  <1>2. Spare(l, k) \in 0 .. TokenBurst
    BY <1>1, TokensCount DEF Spare
  <1> QED BY <1>2, OwingIsCounted, Rates DEF Left

\* A step keeps the bound of every lane when it passes nobody there and leaves no
\* more than it was, but for what the API has forgotten; or passes one and leaves
\* less by one.
LEMMA LanesKept ==
    ASSUME RateInv, RateTypeOK', UNCHANGED now,
           \A l \in Limiter, k \in Key : Touched(buckets'[l][k], now),
           \A l \in Limiter, k \in Key :
               \/ /\ passed'[l][k] = passed[l][k] /\ forgot'[k] >= forgot[k]
                  /\ Left(l, k)' <= Left(l, k) + Most(l) * (forgot'[k] - forgot[k])
               \/ /\ passed'[l][k] = Append(passed[l][k], [at |-> now, gen |-> forgot[k]])
                  /\ forgot'[k] = forgot[k]
                  /\ Left(l, k)' + 1 <= Left(l, k)
    PROVE  \A l \in Limiter, k \in Key : Lane(passed'[l][k], Left(l, k)', forgot'[k], now', Most(l)')
  <1> SUFFICES ASSUME NEW l \in Limiter, NEW k \in Key
               PROVE  Lane(passed'[l][k], Left(l, k)', forgot'[k], now, Most(l))
    BY DEF Most
  <1>1. /\ passed[l][k] \in Seq(Pass) /\ forgot[k] \in Nat /\ forgot'[k] \in Nat /\ now \in Nat
        /\ Most(l) \in Nat /\ Left(l, k) \in Nat /\ Left(l, k) <= TokenBurst + Most(l)
        /\ Lane(passed[l][k], Left(l, k), forgot[k], now, Most(l))
    BY SpareIsCounted, OwingIsCounted, RateConstants DEF RateInv, RateTypeOK
  <1>2. Left(l, k)' \in Nat
    <2>1. buckets'[l][k] \in Bucket \cup {None} /\ Touched(buckets'[l][k], now)
      BY DEF RateTypeOK
    <2>2. Spare(l, k)' \in 0 .. TokenBurst
      BY <1>1, <2>1, TokensCount DEF Spare
    <2>3. Owing(l, k)' \in Nat
      <3>1. Late(k)' \in SUBSET Caller
        BY DEF Late
      <3> QED BY <3>1, RateAssumption, FS_Subset, FS_CardinalityType DEF Owing
    <2> QED BY <2>2, <2>3, Rates DEF Left
  <1>3. PICK p \in Seq(Pass), left \in Int, after \in Int, gen \in Nat, then \in Nat, most \in Nat, t \in Nat :
           /\ p = passed[l][k] /\ left = Left(l, k) /\ after = Left(l, k)' /\ gen = forgot[k]
           /\ then = forgot'[k] /\ most = Most(l) /\ t = now
    BY <1>1, <1>2
  <1>4. Lane(p, left, gen, t, most) /\ after >= 0 /\ left <= TokenBurst + most
    BY <1>1, <1>2, <1>3
  <1>5. CASE passed'[l][k] = p /\ then >= gen /\ after <= left + most * (then - gen)
    <2>1. after <= left + Slack(most, then - gen)
      BY <1>5 DEF Slack
    <2>2. gen <= then
      BY <1>5
    <2>3. Lane(p, after, then, t, most)
      BY <1>4, <2>1, <2>2, LaneStays
    <2> QED BY <1>3, <1>5, <2>3
  <1>6. CASE passed'[l][k] = Append(p, [at |-> t, gen |-> gen]) /\ then = gen /\ after + 1 <= left
    <2>1. Lane(Append(p, [at |-> t, gen |-> gen]), after, gen, t, most)
      BY <1>4, <1>6, LaneGrows
    <2> QED BY <1>3, <1>6, <2>1
  <1> QED BY <1>3, <1>5, <1>6

\* A request with a bucket in its hands, and what it does when it is answered or
\* goes on to its next key.
LEMMA NextCall ==
    ASSUME RateInv, NEW c \in Caller, caller[c].pc # "idle", NEW ok \in BOOLEAN, NEW map
    PROVE  LET r == IF ok /\ Len(caller[c].keys) > 1
                    THEN [NoCall EXCEPT !.pc = "find", !.l = caller[c].l, !.keys = Tail(caller[c].keys)] ELSE NoCall
           IN r \in CallRecord /\ r.pc # "take" /\ r.orphan = None /\ Calling(r, map)
  <1> DEFINE q == caller[c]
             s == [NoCall EXCEPT !.pc = "find", !.l = q.l, !.keys = Tail(q.keys)]
  <1>1. q \in CallRecord /\ q.l \in Limiter /\ q.keys \in Seq(Key) /\ q.keys # <<>>
    BY DEF RateInv, RateTypeOK, Calling, CallRecord
  <1>2. Tail(q.keys) \in Seq(Key) /\ (Len(q.keys) > 1 => Tail(q.keys) # <<>>)
    <2>1. PICK ks \in Seq(Key) : ks = q.keys /\ ks # <<>>
      BY <1>1
    <2>2. Tail(ks) \in Seq(Key) /\ Len(Tail(ks)) = Len(ks) - 1 /\ Len(ks) \in Nat
      BY <2>1
    <2>3. Len(ks) > 1 => Tail(ks) # <<>>
      <3>1. ASSUME Tail(ks) = <<>> PROVE Len(ks) - 1 = 0
        <4>1. Len(<<>>) = 0
          OBVIOUS
        <4>2. PICK t : t = Tail(ks)
          OBVIOUS
        <4>3. Len(t) = Len(<<>>)
          BY <3>1, <4>2, Zenon
        <4>4. Len(t) = Len(ks) - 1
          BY <2>2, <4>2, Zenon
        <4> QED BY <4>1, <4>3, <4>4, Zenon
      <3> QED BY <2>2, <3>1
    <2> QED BY <2>1, <2>2, <2>3
  <1> HIDE DEF q
  <1>3. NoCall \in CallRecord /\ NoCall.pc = "idle" /\ NoCall.orphan = None
    BY DEF NoCall, CallRecord
  <1>4. /\ s \in CallRecord /\ s.pc = "find" /\ s.orphan = None /\ s.l = q.l /\ s.keys = Tail(q.keys)
    BY <1>1, <1>2, <1>3 DEF CallRecord, NoCall
  <1> HIDE DEF s
  <1>5. CASE ok /\ Len(q.keys) > 1
    BY <1>1, <1>2, <1>4, <1>5 DEF Calling, s, q
  <1>6. CASE ~(ok /\ Len(q.keys) > 1)
    BY <1>3, <1>6 DEF Calling, q
  <1> QED BY <1>5, <1>6

\* What is forgotten goes to those who have found it.
LEMMA DetachedHold ==
    ASSUME RateInv, NEW map, NEW d \in Caller
    PROVE  LET r == Detached(map)[d]
           IN /\ r \in CallRecord /\ Touched(r.orphan, now)
              /\ r.pc = caller[d].pc /\ r.l = caller[d].l /\ r.keys = caller[d].keys
              /\ Calling(r, map)
              /\ r.orphan # caller[d].orphan => Found(d) /\ Forgotten(map, Head(caller[d].keys))
              /\ caller[d].orphan # None => r.orphan # None
  <1> DEFINE q == caller[d]
             k == Head(q.keys)
             s == [q EXCEPT !.orphan = buckets.api[k]]
  <1>1. q \in CallRecord /\ Touched(q.orphan, now) /\ Calling(q, buckets.api)
    BY DEF RateInv, RateTypeOK
  <1>2. CASE ~(Found(d) /\ Forgotten(map, k))
    <2>1. Detached(map)[d] = q
      BY <1>2 DEF Detached
    <2>2. Calling(q, map)
      <3>1. CASE Found(d)
        <4>1. q.pc = "take" /\ q.orphan = None /\ q.keys \in Seq(Key) /\ q.keys # <<>>
          BY <1>1, <3>1 DEF Found, Calling, CallRecord
        <4> QED BY <1>1, <1>2, <3>1, <4>1 DEF Calling, Forgotten
      <3>2. CASE ~Found(d)
        BY <1>1, <3>2 DEF Calling, Found
      <3> QED BY <3>1, <3>2
    <2> QED BY <1>1, <2>1, <2>2
  <1>3. CASE Found(d) /\ Forgotten(map, k)
    <2>1. Detached(map)[d] = s
      BY <1>3 DEF Detached
    <2>2. q.pc = "take" /\ q.orphan = None /\ q.keys \in Seq(Key) /\ q.keys # <<>>
      BY <1>1, <1>3 DEF Found, Calling, CallRecord
    <2>3. k \in Key
      BY <2>2
    <2>4. PICK b \in Bucket : b = buckets.api[k] /\ Touched(b, now)
      <3>1. buckets.api[k] # None
        BY <1>3 DEF Forgotten
      <3> QED BY <2>3, <3>1 DEF RateInv, RateTypeOK, Limiter
    <2> HIDE DEF q
    <2>5. s \in CallRecord /\ s.pc = q.pc /\ s.l = q.l /\ s.keys = q.keys /\ s.orphan = b
      BY <1>1, <2>4 DEF CallRecord
    <2>6. b # None
      BY RateConstants
    <2> HIDE DEF s
    <2>7. Calling(s, map)
      BY <1>1, <2>2, <2>5, <2>6 DEF Calling
    <2> QED BY <1>3, <2>1, <2>2, <2>4, <2>5, <2>6, <2>7 DEF q
  <1> QED BY <1>2, <1>3

\* The requests with a forgotten bucket are more only on a key that is forgotten.
LEMMA LateOnes ==
    ASSUME RateInv, NEW map, Forgets(map),
           \A d \in Caller : \/ caller'[d] = Detached(map)[d]
                             \/ caller'[d].pc # "take" /\ caller[d].pc # "take",
           NEW l \in Limiter, NEW x \in Key
    PROVE  /\ forgot'[x] >= forgot[x]
           /\ Owing(l, x)' <= Owing(l, x) + Most(l) * (forgot'[x] - forgot[x])
           /\ ~Forgotten(map, x) => forgot'[x] = forgot[x] /\ Owing(l, x)' = Owing(l, x)
  <1>1. /\ forgot[x] \in Nat /\ Most(l) \in Nat /\ Owing(l, x) \in Nat
    BY OwingIsCounted DEF RateInv, RateTypeOK
  <1>2. Owing(l, x)' \in Nat /\ Owing(l, x)' <= Most(l)
    <2>1. Late(x)' \in SUBSET Caller
      BY DEF Late
    <2> QED BY <2>1, RateAssumption, FS_Subset, FS_CardinalityType DEF Owing, Most
  <1>3. CASE Forgotten(map, x)
    <2>1. forgot'[x] = forgot[x] + 1
      BY <1>3 DEF Forgets
    <2>2. Most(l) * (forgot'[x] - forgot[x]) = Most(l)
      BY <1>1, <2>1
    <2> QED BY <1>1, <1>2, <1>3, <2>1, <2>2
  <1>4. CASE ~Forgotten(map, x)
    <2>1. forgot'[x] = forgot[x]
      BY <1>4 DEF Forgets
    <2>2. \A d \in Caller : Orphaned(d, x)' <=> Orphaned(d, x)
      BY <1>4, DetachedHold DEF Orphaned
    <2>3. Late(x)' = Late(x)
      BY <2>2 DEF Late
    <2>4. Owing(l, x)' = Owing(l, x) /\ Most(l) * (forgot'[x] - forgot[x]) = 0
      BY <1>1, <2>1, <2>3 DEF Owing
    <2> QED BY <1>1, <1>4, <2>1, <2>4
  <1> QED BY <1>3, <1>4

\* A cleaned map gives the same tokens.
LEMMA CleanedIsAsFull ==
    ASSUME RateInv, NEW l \in Limiter
    PROVE  /\ Cleaned(buckets[l]) \in [Key -> Bucket \cup {None}]
           /\ \A x \in Key : /\ Touched(Cleaned(buckets[l])[x], now)
                             /\ Tokens(Cleaned(buckets[l])[x], now) = Spare(l, x)
  <1>1. buckets[l] \in [Key -> Bucket \cup {None}] /\ now \in Moment
    BY DEF RateInv, RateTypeOK
  <1>2. ASSUME NEW x \in Key
        PROVE  /\ Cleaned(buckets[l])[x] \in Bucket \cup {None}
               /\ Touched(Cleaned(buckets[l])[x], now)
               /\ Tokens(Cleaned(buckets[l])[x], now) = Spare(l, x)
    <2>1. CASE Idle(buckets[l][x])
      <3>1. Cleaned(buckets[l])[x] = None /\ Tokens(None, now) = TokenBurst
        BY <2>1 DEF Cleaned, Tokens
      <3>2. Spare(l, x) = TokenBurst
        BY <1>1, <2>1, IdleIsFull DEF Spare
      <3> QED BY <3>1, <3>2 DEF Touched
    <2>2. CASE ~Idle(buckets[l][x])
      <3>1. Cleaned(buckets[l])[x] = buckets[l][x]
        BY <2>2 DEF Cleaned
      <3> QED BY <1>1, <3>1 DEF Spare, RateInv
    <2> QED BY <2>1, <2>2
  <1> QED BY <1>2 DEF Cleaned

\* What one key is charged.
LEMMA ChargeOne ==
    ASSUME RateInv, NEW l \in Limiter, NEW k \in Key, NEW map \in [Key -> Bucket \cup {None}],
           \A x \in Key : Touched(map[x], now) /\ Tokens(map[x], now) = Spare(l, x),
           NEW b, b = IF map[k] = None THEN Full ELSE map[k]
    PROVE  /\ b \in Bucket /\ Touched(b, now) /\ Spent(b) \in Bucket /\ Touched(Spent(b), now)
           /\ Tokens(Spent(b), now) = IF Refilled(b).tokens >= 1 THEN Spare(l, k) - 1 ELSE Spare(l, k)
  <1>1. now \in Moment /\ now \in Nat
    BY RateConstants DEF RateInv, RateTypeOK
  <1>2. b \in Bucket /\ Touched(b, now) /\ Tokens(b, now) = Spare(l, k)
    <2>1. CASE map[k] # None
      BY <2>1
    <2>2. CASE map[k] = None
      <3>1. b = Full /\ Full \in Bucket /\ Full.tokens = TokenBurst /\ Full.seen = now
        BY <1>1, <2>2, RateConstants DEF Full, Bucket
      <3>2. TokenRate * (now - now) = 0 /\ Full # None
        BY <1>1, <3>1, RateConstants
      <3>3. Tokens(Full, now) = TokenBurst
        BY <3>1, <3>2, Rates DEF Tokens
      <3>4. Spare(l, k) = TokenBurst
        BY <2>2 DEF Tokens
      <3> QED BY <1>1, <3>1, <3>3, <3>4 DEF Touched
    <2> QED BY <2>1, <2>2
  <1> QED BY <1>1, <1>2, SpentIsLess

\* The request that charges and the others.
LEMMA CallersKept ==
    ASSUME RateInv, NEW c \in Caller, NEW r \in CallRecord, NEW callers, NEW map,
           r.orphan = None, Calling(r, map),
           caller' = [callers EXCEPT ![c] = r], callers \in [Caller -> CallRecord],
           \A d \in Caller \ {c} : Touched(callers[d].orphan, now) /\ Calling(callers[d], map)
    PROVE  /\ caller' \in [Caller -> CallRecord]
           /\ \A d \in Caller : Touched(caller'[d].orphan, now) /\ Calling(caller'[d], map)
  <1>1. caller'[c] = r /\ \A d \in Caller \ {c} : caller'[d] = callers[d]
    OBVIOUS
  <1> QED BY <1>1 DEF Touched

LEMMA ChargeKeeps ==
    ASSUME RateInv, NEW c \in Caller, Charge(c), UNCHANGED now
    PROVE  RateInv'
  <1> DEFINE q == caller[c]
  <1>1. /\ q \in CallRecord /\ Calling(q, buckets.api) /\ q.pc = "find" /\ q.l \in Limiter
        /\ q.keys \in Seq(Key) /\ q.keys # <<>> /\ now \in Moment /\ now \in Nat /\ swept \in Nat
    BY RateConstants DEF RateInv, RateTypeOK, Charge, Calling, CallRecord
  <1>2. PICK l \in Limiter, k \in Key : l = q.l /\ k = Head(q.keys)
    BY <1>1
  <1> DEFINE map == IF Sweeps(l) THEN Cleaned(buckets[l]) ELSE Room(l, k)
             b == IF map[k] = None THEN Full ELSE map[k]
             shut == l # "radius" /\ map[k] = None /\ Crowded(map)
             row == IF shut THEN map ELSE [map EXCEPT ![k] = Spent(b)]
             after == [buckets EXCEPT ![l] = row]
             ok == ~shut /\ Refilled(b).tokens >= 1
             r == IF ok /\ Len(q.keys) > 1
                  THEN [NoCall EXCEPT !.pc = "find", !.l = q.l, !.keys = Tail(q.keys)] ELSE NoCall
  <1>3. /\ buckets' = after /\ swept' \in Nat /\ (l = "api" => buckets[l][k] = None)
        /\ caller' = [Detached(after.api) EXCEPT ![c] = r] /\ Forgets(after.api)
        /\ passed' = IF ok THEN [passed EXCEPT ![l][k] = Append(passed[l][k], [at |-> now, gen |-> forgot[k]])]
                     ELSE passed
    BY <1>1, <1>2 DEF Charge, Charged
  <1>4. /\ map \in [Key -> Bucket \cup {None}]
        /\ \A x \in Key : Touched(map[x], now) /\ Tokens(map[x], now) = Spare(l, x)
    <2>1. CASE map = Cleaned(buckets[l])
      BY <2>1, CleanedIsAsFull
    <2>2. CASE map = buckets[l]
      BY <2>2 DEF RateInv, RateTypeOK, Spare
    <2> QED BY <2>1, <2>2 DEF Room
  <1> HIDE DEF map
  <1>5. /\ Spent(b) \in Bucket /\ Touched(Spent(b), now)
        /\ Tokens(Spent(b), now) = IF Refilled(b).tokens >= 1 THEN Spare(l, k) - 1 ELSE Spare(l, k)
    BY <1>4, ChargeOne
  <1>6. PICK passes \in BOOLEAN : passes <=> ok
    OBVIOUS
  <1> HIDE DEF b
  <1>7. /\ row \in [Key -> Bucket \cup {None}]
        /\ \A x \in Key : /\ Touched(row[x], now)
                          /\ Tokens(row[x], now) = IF x = k /\ passes THEN Spare(l, k) - 1 ELSE Spare(l, x)
        /\ ~shut => row[k] # None
    <2>1. CASE shut
      BY <1>4, <1>6, <2>1
    <2>2. CASE ~shut
      <3>1. row = [map EXCEPT ![k] = Spent(b)]
        BY <2>2
      <3> HIDE DEF row, shut
      <3>2. row[k] = Spent(b) /\ (\A x \in Key \ {k} : row[x] = map[x]) /\ row \in [Key -> Bucket \cup {None}]
        BY <1>4, <1>5, <3>1
      <3> QED BY <1>4, <1>5, <1>6, <2>2, <3>2, RateConstants
    <2> QED BY <2>1, <2>2
  <1> HIDE DEF row
  <1>8. /\ after \in [Limiter -> [Key -> Bucket \cup {None}]] /\ after[l] = row
        /\ \A m \in Limiter \ {l} : after[m] = buckets[m]
    BY <1>7 DEF RateInv, RateTypeOK
  <1> HIDE DEF after, shut
  <1>9. /\ r \in CallRecord /\ r.pc # "take" /\ r.orphan = None /\ Calling(r, after.api)
    BY <1>1, <1>6, NextCall
  <1> HIDE DEF r
  <1>10. Detached(after.api) \in [Caller -> CallRecord]
    BY DetachedHold DEF Detached
  <1>11. \A d \in Caller \ {c} : caller'[d] = Detached(after.api)[d]
    BY <1>3, <1>10
  <1>12. caller'[c] = r
    BY <1>3, <1>10
  <1>13. /\ caller' \in [Caller -> CallRecord]
         /\ \A d \in Caller : Touched(caller'[d].orphan, now) /\ Calling(caller'[d], buckets'.api)
    BY <1>3, <1>9, <1>10, CallersKept, DetachedHold
  <1>14. \A m \in Limiter, x \in Key : Touched(buckets'[m][x], now)
    BY <1>3, <1>7, <1>8 DEF RateInv
  <1>15. ASSUME NEW m \in Limiter, NEW x \in Key
         PROVE  /\ forgot'[x] >= forgot[x]
                /\ Owing(m, x)' <= Owing(m, x) + Most(m) * (forgot'[x] - forgot[x])
                /\ ~Forgotten(after.api, x) => forgot'[x] = forgot[x] /\ Owing(m, x)' = Owing(m, x)
    BY <1>1, <1>3, <1>9, <1>11, <1>12, LateOnes
  <1>16. passes => ~Forgotten(after.api, k)
    <2>1. CASE l = "api"
      BY <1>3, <2>1 DEF Forgotten
    <2>2. CASE l # "api"
      BY <1>8, <2>2 DEF Forgotten, Limiter
    <2> QED BY <2>1, <2>2
  <1>17. /\ passed' \in [Limiter -> [Key -> Seq(Pass)]] /\ forgot' \in [Key -> Nat]
         /\ \A m \in Limiter, x \in Key :
               passed'[m][x] = IF m = l /\ x = k /\ passes
                               THEN Append(passed[m][x], [at |-> now, gen |-> forgot[x]]) ELSE passed[m][x]
    <2>1. forgot' \in [Key -> Nat]
      BY <1>3 DEF Forgets, RateInv, RateTypeOK
    <2> DEFINE p == Append(passed[l][k], [at |-> now, gen |-> forgot[k]])
    <2>2. passed[l][k] \in Seq(Pass) /\ passed \in [Limiter -> [Key -> Seq(Pass)]] /\ forgot[k] \in Nat
      BY DEF RateInv, RateTypeOK
    <2>3. p \in Seq(Pass)
      BY <1>1, <2>2 DEF Pass
    <2>4. passed' = IF passes THEN [passed EXCEPT ![l][k] = p] ELSE passed
      BY <1>3, <1>6
    <2> HIDE DEF p
    <2>5. /\ passed' \in [Limiter -> [Key -> Seq(Pass)]]
          /\ \A m \in Limiter, x \in Key : passed'[m][x] = IF m = l /\ x = k /\ passes THEN p ELSE passed[m][x]
      BY <2>2, <2>3, <2>4
    <2> QED BY <2>1, <2>5 DEF p
  <1>18. RateTypeOK'
    BY <1>1, <1>3, <1>8, <1>13, <1>17 DEF RateTypeOK
  <1>19. ASSUME NEW m \in Limiter, NEW x \in Key
         PROVE  Spare(m, x)' = IF m = l /\ x = k /\ passes THEN Spare(m, x) - 1 ELSE Spare(m, x)
    BY <1>3, <1>7, <1>8 DEF Spare
  <1>20. ASSUME NEW m \in Limiter, NEW x \in Key
         PROVE  \/ /\ passed'[m][x] = passed[m][x] /\ forgot'[x] >= forgot[x]
                   /\ Left(m, x)' <= Left(m, x) + Most(m) * (forgot'[x] - forgot[x])
                \/ /\ passed'[m][x] = Append(passed[m][x], [at |-> now, gen |-> forgot[x]])
                   /\ forgot'[x] = forgot[x]
                   /\ Left(m, x)' + 1 <= Left(m, x)
    <2>1. Spare(m, x) \in Nat /\ Owing(m, x) \in Nat /\ Left(m, x) = Spare(m, x) + Owing(m, x)
      BY SpareIsCounted, OwingIsCounted DEF Left
    <2>2. Left(m, x)' = Spare(m, x)' + Owing(m, x)'
      BY DEF Left
    <2>3. CASE m = l /\ x = k /\ passes
      <3>1. /\ forgot'[x] = forgot[x] /\ Owing(m, x)' = Owing(m, x) /\ Spare(m, x)' = Spare(m, x) - 1
        BY <1>15, <1>16, <1>19, <2>3
      <3>2. Left(m, x)' + 1 <= Left(m, x)
        BY <2>1, <2>2, <3>1
      <3>3. passed'[m][x] = Append(passed[m][x], [at |-> now, gen |-> forgot[x]])
        BY <1>17, <2>3
      <3> QED BY <3>1, <3>2, <3>3
    <2>4. CASE ~(m = l /\ x = k /\ passes)
      <3>1. Spare(m, x)' = Spare(m, x) /\ passed'[m][x] = passed[m][x]
        BY <1>17, <1>19, <2>4
      <3>2. PICK n \in Int : n = Most(m) * (forgot'[x] - forgot[x])
        <4>1. forgot'[x] - forgot[x] \in Int
          BY <1>17 DEF RateInv, RateTypeOK
        <4> QED BY <4>1, OwingIsCounted, TimesIsInt
      <3>3. Owing(m, x)' <= Owing(m, x) + n /\ Owing(m, x)' \in Int
        <4>1. Late(x)' \in SUBSET Caller
          BY DEF Late
        <4> QED BY <1>15, <3>2, <4>1, RateAssumption, FS_Subset, FS_CardinalityType DEF Owing
      <3> QED BY <1>15, <2>1, <2>2, <3>1, <3>2, <3>3
    <2> QED BY <2>3, <2>4
  <1> QED BY <1>13, <1>14, <1>18, <1>20, LanesKept DEF RateInv

LEMMA TakeKeeps ==
    ASSUME RateInv, NEW c \in Caller, Take(c), UNCHANGED now
    PROVE  RateInv'
  <1> DEFINE q == caller[c]
  <1>1. /\ q \in CallRecord /\ Calling(q, buckets.api) /\ Touched(q.orphan, now) /\ q.pc = "take" /\ q.l = "api"
        /\ q.keys \in Seq(Key) /\ q.keys # <<>> /\ now \in Moment /\ now \in Nat
    BY RateConstants DEF RateInv, RateTypeOK, Take, Calling, CallRecord
  <1>2. PICK k \in Key : k = Head(q.keys)
    BY <1>1
  <1>3. PICK b \in Bucket : b = (IF q.orphan = None THEN buckets.api[k] ELSE q.orphan) /\ Touched(b, now)
    <2>1. CASE q.orphan = None
      <3>1. buckets.api[k] # None
        BY <1>1, <1>2, <2>1 DEF Calling
      <3> QED BY <2>1, <3>1 DEF RateInv, RateTypeOK, Limiter
    <2>2. CASE q.orphan # None
      BY <1>1, <2>2 DEF CallRecord
    <2> QED BY <2>1, <2>2
  <1> DEFINE own == q.orphan # None
             callers == IF own THEN Shared(k, Spent(b)) ELSE caller
             r == IF Refilled(b).tokens >= 1 /\ Len(q.keys) > 1
                  THEN [NoCall EXCEPT !.pc = "find", !.l = q.l, !.keys = Tail(q.keys)] ELSE NoCall
  <1>4. PICK passes \in BOOLEAN : passes <=> Refilled(b).tokens >= 1
    OBVIOUS
  <1>5. /\ buckets' = IF own THEN buckets ELSE [buckets EXCEPT !.api[k] = Spent(b)]
        /\ UNCHANGED <<swept, forgot>> /\ caller' = [callers EXCEPT ![c] = r]
        /\ passed' = IF passes
                     THEN [passed EXCEPT !["api"][k] = Append(passed["api"][k], [at |-> now, gen |-> forgot[k]])]
                     ELSE passed
    BY <1>1, <1>2, <1>3, <1>4 DEF Take, Charged
  <1>6. /\ Spent(b) \in Bucket /\ Touched(Spent(b), now) /\ Spent(b) # None
        /\ Tokens(Spent(b), now) = IF passes THEN Tokens(b, now) - 1 ELSE Tokens(b, now)
    BY <1>1, <1>3, <1>4, SpentIsLess, RateConstants
  <1>7. /\ buckets' \in [Limiter -> [Key -> Bucket \cup {None}]]
        /\ \A m \in Limiter, x \in Key : /\ Touched(buckets'[m][x], now)
                                         /\ buckets[m][x] # None => buckets'[m][x] # None
                                         /\ Spare(m, x)' = IF ~own /\ m = "api" /\ x = k /\ passes
                                                           THEN Spare(m, x) - 1 ELSE Spare(m, x)
    <2>1. CASE own
      BY <1>5, <2>1 DEF RateInv, RateTypeOK, Spare
    <2>2. CASE ~own
      <3>1. /\ buckets' \in [Limiter -> [Key -> Bucket \cup {None}]]
            /\ \A m \in Limiter, x \in Key : buckets'[m][x] = IF m = "api" /\ x = k THEN Spent(b) ELSE buckets[m][x]
        BY <1>5, <1>6, <2>2 DEF RateInv, RateTypeOK, Limiter
      <3>2. b = buckets["api"][k]
        BY <1>3, <2>2
      <3> QED BY <1>6, <2>2, <3>1, <3>2 DEF RateInv, Spare
    <2> QED BY <2>1, <2>2
  <1>8. /\ r \in CallRecord /\ r.pc # "take" /\ r.orphan = None /\ Calling(r, buckets'.api)
    <2>1. q.pc # "idle"
      BY <1>1
    <2> QED BY <1>4, <2>1, NextCall
  <1> HIDE DEF r
  <1>9. ASSUME NEW d \in Caller \ {c}
        PROVE  /\ callers[d] \in CallRecord /\ Touched(callers[d].orphan, now) /\ Calling(callers[d], buckets'.api)
               /\ callers[d].pc = caller[d].pc /\ callers[d].keys = caller[d].keys
               /\ callers[d].orphan = None <=> caller[d].orphan = None
    <2> DEFINE p == caller[d]
               s == [p EXCEPT !.orphan = Spent(b)]
    <2>1. p \in CallRecord /\ Touched(p.orphan, now) /\ Calling(p, buckets.api)
      BY DEF RateInv, RateTypeOK
    <2>2. Calling(p, buckets'.api)
      <3>1. p.pc = "take" => Head(p.keys) \in Key
        BY <2>1 DEF CallRecord, Calling
      <3> QED BY <1>7, <2>1, <3>1 DEF Calling, Limiter
    <2>3. CASE ~(own /\ Orphaned(d, k))
      <3>1. callers[d] = p
        BY <2>3 DEF Shared
      <3> QED BY <2>1, <2>2, <3>1
    <2>4. CASE own /\ Orphaned(d, k)
      <3>1. callers[d] = s /\ p.pc = "take" /\ p.orphan # None
        BY <2>4 DEF Shared, Orphaned
      <3> HIDE DEF p
      <3>2. s \in CallRecord /\ s.pc = p.pc /\ s.l = p.l /\ s.keys = p.keys /\ s.orphan = Spent(b)
        BY <1>6, <2>1 DEF CallRecord
      <3> HIDE DEF s, callers
      <3>3. Calling(s, buckets'.api)
        BY <1>6, <2>2, <3>1, <3>2 DEF Calling
      <3> QED BY <1>6, <2>1, <3>1, <3>2, <3>3 DEF p
    <2> QED BY <2>3, <2>4
  <1>10. callers \in [Caller -> CallRecord]
    <2>1. CASE own
      <3>1. ASSUME NEW d \in Caller PROVE callers[d] \in CallRecord
        <4>1. CASE d # c
          BY <1>9, <4>1
        <4>2. CASE d = c
          <5> DEFINE s == [q EXCEPT !.orphan = Spent(b)]
          <5>1. callers[d] \in {q, s}
            BY <2>1, <4>2 DEF Shared
          <5> HIDE DEF q
          <5>2. s \in CallRecord
            BY <1>1, <1>6 DEF CallRecord
          <5> QED BY <1>1, <5>1, <5>2
        <4> QED BY <4>1, <4>2
      <3> QED BY <2>1, <3>1 DEF Shared
    <2>2. CASE ~own
      BY <2>2 DEF RateInv, RateTypeOK
    <2> QED BY <2>1, <2>2
  <1> HIDE DEF callers
  <1>11. caller'[c] = r /\ \A d \in Caller \ {c} : caller'[d] = callers[d]
    BY <1>5, <1>10
  <1>12. /\ caller' \in [Caller -> CallRecord]
         /\ \A d \in Caller : Touched(caller'[d].orphan, now) /\ Calling(caller'[d], buckets'.api)
    BY <1>5, <1>8, <1>9, <1>10, CallersKept
  <1>13. \A x \in Key : Late(x)' = IF x = k /\ own THEN Late(x) \ {c} ELSE Late(x)
    <2> SUFFICES ASSUME NEW x \in Key, NEW d \in Caller
                 PROVE  d \in Late(x)' <=> d \in (IF x = k /\ own THEN Late(x) \ {c} ELSE Late(x))
      BY DEF Late
    <2>1. CASE d = c
      <3>1. d \notin Late(x)'
        BY <1>8, <1>11, <2>1 DEF Late, Orphaned
      <3>2. d \in Late(x) <=> own /\ x = k
        BY <1>1, <1>2, <2>1 DEF Late, Orphaned
      <3> QED BY <2>1, <3>1, <3>2
    <2>2. CASE d # c
      <3>1. Orphaned(d, x)' <=> Orphaned(d, x)
        BY <1>9, <1>11, <2>2 DEF Orphaned
      <3> QED BY <2>2, <3>1 DEF Late
    <2> QED BY <2>1, <2>2
  <1>14. ASSUME NEW m \in Limiter, NEW x \in Key
         PROVE  Owing(m, x)' = IF own /\ m = "api" /\ x = k THEN Owing(m, x) - 1 ELSE Owing(m, x)
    <2>1. CASE own /\ m = "api" /\ x = k
      <3>1. c \in Late(x) /\ IsFiniteSet(Late(x))
        BY <1>1, <1>2, <2>1, OwingIsCounted DEF Late, Orphaned
      <3>2. Cardinality(Late(x)') = Cardinality(Late(x)) - 1
        BY <1>13, <2>1, <3>1, FS_RemoveElement
      <3> QED BY <2>1, <3>2 DEF Owing
    <2>2. CASE ~(own /\ m = "api" /\ x = k)
      BY <1>13, <2>2 DEF Owing
    <2> QED BY <2>1, <2>2
  <1>15. /\ passed' \in [Limiter -> [Key -> Seq(Pass)]]
         /\ \A m \in Limiter, x \in Key :
               passed'[m][x] = IF m = "api" /\ x = k /\ passes
                               THEN Append(passed[m][x], [at |-> now, gen |-> forgot[x]]) ELSE passed[m][x]
    <2> DEFINE p == Append(passed["api"][k], [at |-> now, gen |-> forgot[k]])
    <2>1. passed["api"][k] \in Seq(Pass) /\ passed \in [Limiter -> [Key -> Seq(Pass)]] /\ forgot[k] \in Nat
      BY DEF RateInv, RateTypeOK, Limiter
    <2>2. p \in Seq(Pass)
      BY <1>1, <2>1 DEF Pass
    <2>3. passed' = IF passes THEN [passed EXCEPT !["api"][k] = p] ELSE passed
      BY <1>5
    <2> HIDE DEF p
    <2>4. /\ passed' \in [Limiter -> [Key -> Seq(Pass)]]
          /\ \A m \in Limiter, x \in Key : passed'[m][x] = IF m = "api" /\ x = k /\ passes THEN p ELSE passed[m][x]
      BY <2>1, <2>2, <2>3
    <2> QED BY <2>4 DEF p
  <1>16. RateTypeOK'
    BY <1>1, <1>5, <1>7, <1>12, <1>15 DEF RateInv, RateTypeOK
  <1>17. ASSUME NEW m \in Limiter, NEW x \in Key
         PROVE  \/ /\ passed'[m][x] = passed[m][x] /\ forgot'[x] >= forgot[x]
                   /\ Left(m, x)' <= Left(m, x) + Most(m) * (forgot'[x] - forgot[x])
                \/ /\ passed'[m][x] = Append(passed[m][x], [at |-> now, gen |-> forgot[x]])
                   /\ forgot'[x] = forgot[x]
                   /\ Left(m, x)' + 1 <= Left(m, x)
    <2>1. Spare(m, x) \in Nat /\ Owing(m, x) \in Nat /\ Left(m, x) = Spare(m, x) + Owing(m, x)
      BY SpareIsCounted, OwingIsCounted DEF Left
    <2>2. Left(m, x)' = Spare(m, x)' + Owing(m, x)' /\ forgot'[x] = forgot[x] /\ forgot[x] \in Nat
      BY <1>5 DEF Left, RateInv, RateTypeOK
    <2>3. Spare(m, x)' = IF ~own /\ m = "api" /\ x = k /\ passes THEN Spare(m, x) - 1 ELSE Spare(m, x)
      BY <1>7
    <2>4. CASE m = "api" /\ x = k /\ passes
      <3>1. Left(m, x)' + 1 <= Left(m, x)
        BY <1>14, <2>1, <2>2, <2>3, <2>4
      <3>2. passed'[m][x] = Append(passed[m][x], [at |-> now, gen |-> forgot[x]])
        BY <1>15, <2>4
      <3> QED BY <2>2, <3>1, <3>2
    <2>5. CASE ~(m = "api" /\ x = k /\ passes)
      <3>0. Spare(m, x)' = Spare(m, x) /\ Owing(m, x)' <= Owing(m, x) /\ Owing(m, x)' \in Int
        <4>1. Owing(m, x)' \in {Owing(m, x), Owing(m, x) - 1}
          BY <1>14
        <4> QED BY <2>1, <2>3, <2>5, <4>1
      <3>1. Left(m, x)' <= Left(m, x) /\ passed'[m][x] = passed[m][x]
        <4>1. passed'[m][x] = passed[m][x]
          BY <1>15, <2>5
        <4> QED BY <2>1, <2>2, <3>0, <4>1
      <3>2. Most(m) * (forgot'[x] - forgot[x]) = 0
        <4>1. Most(m) \in Nat /\ forgot'[x] - forgot[x] = 0
          BY <2>2, OwingIsCounted
        <4> QED BY <4>1
      <3> QED BY <2>1, <2>2, <3>1, <3>2
    <2> QED BY <2>4, <2>5
  <1> QED BY <1>7, <1>12, <1>16, <1>17, LanesKept DEF RateInv

\* Steps that charge nothing.
LEMMA NothingCharged ==
    ASSUME RateInv, NEW c \in Caller, UNCHANGED now,
           Find(c) \/ \E l \in Limiter, keys \in Keys : Ask(c, l, keys)
    PROVE  RateInv'
  <1> DEFINE q == caller[c]
  <1>1. q \in CallRecord /\ Calling(q, buckets.api) /\ UNCHANGED <<buckets, swept, passed, forgot>>
    BY DEF RateInv, RateTypeOK, Find, Ask
  <1>2. PICK r \in CallRecord : /\ caller' = [caller EXCEPT ![c] = r]
                                /\ r.orphan = None /\ q.orphan = None /\ Calling(r, buckets.api)
    <2>1. CASE Find(c)
      <3> DEFINE r == [q EXCEPT !.pc = "take"]
      <3>1. /\ q.pc = "find" /\ q.l = "api" /\ buckets.api[Head(q.keys)] # None /\ q.orphan = None /\ q.keys # <<>>
            /\ caller' = [caller EXCEPT ![c] = r]
        BY <1>1, <2>1 DEF Find, Calling
      <3> HIDE DEF q
      <3>2. r \in CallRecord /\ r.pc = "take" /\ r.l = q.l /\ r.keys = q.keys /\ r.orphan = q.orphan
        BY <1>1 DEF CallRecord
      <3> HIDE DEF r
      <3>3. Calling(r, buckets.api)
        BY <3>1, <3>2 DEF Calling, Limiter
      <3> QED BY <3>1, <3>2, <3>3 DEF q
    <2>2. ASSUME NEW l \in Limiter, NEW keys \in Keys, Ask(c, l, keys)
          PROVE  \E r \in CallRecord : /\ caller' = [caller EXCEPT ![c] = r]
                                       /\ r.orphan = None /\ q.orphan = None /\ Calling(r, buckets.api)
      <3> DEFINE r == [NoCall EXCEPT !.pc = "find", !.l = l, !.keys = keys]
      <3>1. q.pc = "idle" /\ q.orphan = None /\ caller' = [caller EXCEPT ![c] = r]
        BY <1>1, <2>2 DEF Ask, Calling
      <3>2. keys \in Seq(Key) /\ keys # <<>>
        <4>1. keys \in Seq({keys[i] : i \in DOMAIN keys}) /\ keys # <<>>
          BY RateAssumption
        <4>2. \A i \in DOMAIN keys : keys[i] \in Key
          BY DEF Key
        <4>3. {keys[i] : i \in DOMAIN keys} \subseteq Key
          BY <4>2
        <4> QED BY <4>1, <4>3
      <3>3. r \in CallRecord /\ r.pc = "find" /\ r.l = l /\ r.keys = keys /\ r.orphan = None
        BY <3>2 DEF CallRecord, NoCall
      <3> HIDE DEF r
      <3>4. Calling(r, buckets.api)
        BY <3>2, <3>3 DEF Calling
      <3> QED BY <3>1, <3>3, <3>4
    <2> QED BY <2>1, <2>2
  <1>3. \A d \in Caller : caller'[d] = IF d = c THEN r ELSE caller[d]
    BY <1>2 DEF RateInv, RateTypeOK
  <1>4. RateTypeOK'
    BY <1>1, <1>2 DEF RateInv, RateTypeOK
  <1>5. \A d \in Caller : Touched(caller'[d].orphan, now) /\ Calling(caller'[d], buckets'.api)
    BY <1>1, <1>2, <1>3 DEF RateInv, Touched
  <1>6. \A x \in Key : Late(x)' = Late(x)
    BY <1>2, <1>3 DEF Late, Orphaned
  <1>7. \A l \in Limiter, k \in Key : Left(l, k)' = Left(l, k)
    BY <1>1, <1>6 DEF Left, Spare, Owing
  <1>8. \A l \in Limiter, k \in Key : Lane(passed[l][k], Left(l, k)', forgot[k], now, Most(l))
    BY <1>7 DEF RateInv
  <1> QED BY <1>1, <1>4, <1>5, <1>8 DEF RateInv, Most

LEMMA CleanupKeeps ==
    ASSUME RateInv, Cleanup, UNCHANGED now
    PROVE  RateInv'
  <1> DEFINE map == Cleaned(buckets.api)
  <1>1. /\ buckets' = [buckets EXCEPT !.api = map] /\ caller' = Detached(map) /\ Forgets(map)
        /\ UNCHANGED <<swept, passed>>
    BY DEF Cleanup
  <1>2. /\ map \in [Key -> Bucket \cup {None}]
        /\ \A x \in Key : Touched(map[x], now) /\ Tokens(map[x], now) = Spare("api", x)
    BY CleanedIsAsFull DEF Limiter
  <1> HIDE DEF map
  <1>3. /\ buckets' \in [Limiter -> [Key -> Bucket \cup {None}]] /\ buckets'.api = map
        /\ \A l \in Limiter \ {"api"} : buckets'[l] = buckets[l]
    BY <1>1, <1>2 DEF RateInv, RateTypeOK, Limiter
  <1>4. \A l \in Limiter, x \in Key : Touched(buckets'[l][x], now) /\ Spare(l, x)' = Spare(l, x)
    BY <1>2, <1>3 DEF RateInv, Spare
  <1>5. /\ caller' \in [Caller -> CallRecord]
        /\ \A d \in Caller : Touched(caller'[d].orphan, now) /\ Calling(caller'[d], buckets'.api)
    <2>1. \A d \in Caller : caller'[d] = Detached(map)[d]
      BY <1>1
    <2>2. \A d \in Caller : /\ Detached(map)[d] \in CallRecord /\ Touched(Detached(map)[d].orphan, now)
                            /\ Calling(Detached(map)[d], map)
      BY DetachedHold
    <2>3. caller' \in [Caller -> CallRecord]
      BY <1>1, <2>2 DEF Detached
    <2> QED BY <1>3, <2>1, <2>2, <2>3
  <1>6. RateTypeOK'
    <2>1. forgot' \in [Key -> Nat]
      BY <1>1 DEF Forgets, RateInv, RateTypeOK
    <2> QED BY <1>1, <1>3, <1>5, <2>1 DEF RateInv, RateTypeOK
  <1>7. ASSUME NEW l \in Limiter, NEW x \in Key
        PROVE  /\ passed'[l][x] = passed[l][x] /\ forgot'[x] >= forgot[x]
               /\ Left(l, x)' <= Left(l, x) + Most(l) * (forgot'[x] - forgot[x])
    <2>1. /\ forgot'[x] >= forgot[x]
          /\ Owing(l, x)' <= Owing(l, x) + Most(l) * (forgot'[x] - forgot[x])
      BY <1>1, LateOnes
    <2>2. PICK n \in Int : n = Most(l) * (forgot'[x] - forgot[x])
      <3>1. forgot'[x] - forgot[x] \in Int
        BY <1>6 DEF RateInv, RateTypeOK
      <3> QED BY <3>1, OwingIsCounted, TimesIsInt
    <2>3. Spare(l, x) \in Nat /\ Owing(l, x) \in Nat /\ Left(l, x) = Spare(l, x) + Owing(l, x)
      BY SpareIsCounted, OwingIsCounted DEF Left
    <2>4. Left(l, x)' = Spare(l, x)' + Owing(l, x)' /\ Owing(l, x)' \in Int
      <3>1. Late(x)' \in SUBSET Caller
        BY DEF Late
      <3> QED BY <3>1, RateAssumption, FS_Subset, FS_CardinalityType DEF Owing, Left
    <2>5. Left(l, x)' <= Left(l, x) + n
      BY <1>4, <2>1, <2>2, <2>3, <2>4
    <2> QED BY <1>1, <2>1, <2>2, <2>5
  <1> QED BY <1>4, <1>5, <1>6, <1>7, LanesKept DEF RateInv

LEMMA RateWaits ==
    ASSUME RateInv, Tick, UNCHANGED rlVars
    PROVE  RateInv'
  <1>1. now' = now + 1 /\ now' \in Moment /\ now \in Nat /\ UNCHANGED <<buckets, swept, caller, passed, forgot>>
    BY ClockAssumption DEF Tick, rlVars, RateInv, RateTypeOK, Moment
  <1>2. RateTypeOK'
    BY <1>1 DEF RateInv, RateTypeOK
  <1>3. ASSUME NEW b \in Bucket \cup {None}, Touched(b, now)
        PROVE  Touched(b, now')
    <2>1. b # None => b.seen \in Nat /\ b.seen <= now
      BY <1>3, ClockAssumption DEF Touched, Bucket, Moment
    <2> QED BY <1>1, <2>1 DEF Touched
  <1>4. /\ \A l \in Limiter, k \in Key : Touched(buckets'[l][k], now')
        /\ \A c \in Caller : Touched(caller'[c].orphan, now') /\ Calling(caller'[c], buckets'.api)
    BY <1>1, <1>3 DEF RateInv, RateTypeOK, CallRecord
  <1>5. ASSUME NEW l \in Limiter, NEW k \in Key
        PROVE  Lane(passed'[l][k], Left(l, k)', forgot'[k], now', Most(l)')
    <2>1. Spare(l, k)' <= Spare(l, k) + TokenRate /\ Spare(l, k)' \in Nat
      <3>1. buckets[l][k] \in Bucket \cup {None} /\ Touched(buckets[l][k], now) /\ Touched(buckets[l][k], now + 1)
        BY <1>1, <1>4 DEF RateInv, RateTypeOK
      <3>2. Tokens(buckets[l][k], now + 1) <= Tokens(buckets[l][k], now) + TokenRate
        BY <1>1, <3>1, TokensWait
      <3>3. now + 1 \in Nat
        BY <1>1
      <3>4. Tokens(buckets[l][k], now + 1) \in 0 .. TokenBurst
        BY <3>1, <3>3, TokensCount
      <3> QED BY <1>1, <3>2, <3>4, Rates DEF Spare
    <2>2. Owing(l, k)' = Owing(l, k) /\ Most(l)' = Most(l)
      BY <1>1 DEF Owing, Late, Orphaned, Most
    <2>3. PICK left \in Int, after \in Int : left = Left(l, k) /\ after = Left(l, k)' /\ after <= left + TokenRate
      <3>1. Spare(l, k) \in Nat /\ Owing(l, k) \in Nat
        BY SpareIsCounted, OwingIsCounted
      <3> QED BY <2>1, <2>2, <3>1, Rates DEF Left
    <2>4. /\ passed[l][k] \in Seq(Pass) /\ forgot[k] \in Nat /\ Most(l) \in Nat
          /\ Lane(passed[l][k], left, forgot[k], now, Most(l))
      BY <2>3, OwingIsCounted DEF RateInv, RateTypeOK
    <2>5. Lane(passed[l][k], after, forgot[k], now + 1, Most(l))
      BY <1>1, <2>3, <2>4, LaneWaits
    <2> QED BY <1>1, <2>2, <2>3, <2>5
  <1> QED BY <1>2, <1>4, <1>5 DEF RateInv

LEMMA RateInvKept == RateInv /\ [RateNext]_<<now, rlVars>> => RateInv'
  <1> SUFFICES ASSUME RateInv, [RateNext]_<<now, rlVars>> PROVE RateInv'
    OBVIOUS
  <1>1. CASE RateNext
    BY <1>1, ChargeKeeps, TakeKeeps, NothingCharged, CleanupKeeps, RateWaits DEF RateNext, RateTick
  <1>2. CASE UNCHANGED <<now, rlVars>>
    <2>1. UNCHANGED <<now, buckets, swept, caller, passed, forgot>>
      BY <1>2 DEF rlVars
    <2>2. RateTypeOK'
      BY <2>1 DEF RateInv, RateTypeOK
    <2>3. \A l, k : Left(l, k)' = Left(l, k) /\ Most(l)' = Most(l)
      BY <2>1 DEF Left, Spare, Owing, Late, Orphaned, Most
    <2> QED BY <2>1, <2>2, <2>3 DEF RateInv
  <1> QED BY <1>1, <1>2

LEMMA RateInvStarts == RateInit => RateInv
  <1> SUFFICES ASSUME RateInit PROVE RateInv
    OBVIOUS
  <1>1. NoCall \in CallRecord /\ NoCall.pc = "idle" /\ NoCall.orphan = None
    BY DEF NoCall, CallRecord
  <1>2. RateTypeOK
    BY <1>1, ClockAssumption DEF RateInit, RateTypeOK, Moment
  <1>3. /\ \A l \in Limiter, k \in Key : buckets[l][k] = None /\ passed[l][k] = <<>>
        /\ \A c \in Caller : caller[c] = NoCall
    BY DEF RateInit
  <1>4. \A c \in Caller : Touched(caller[c].orphan, now) /\ Calling(caller[c], buckets.api)
    BY <1>1, <1>3 DEF Touched, Calling
  <1>5. \A l \in Limiter, k \in Key : /\ Touched(buckets[l][k], now)
                                      /\ Lane(passed[l][k], Left(l, k), forgot[k], now, Most(l))
    BY <1>3 DEF Touched, Lane
  <1> QED BY <1>2, <1>4, <1>5 DEF RateInv

LEMMA RateInvKeeps == RateInv => RateKept
  <1> SUFFICES ASSUME RateInv, NEW l \in Limiter, NEW k \in Key,
                      NEW i \in DOMAIN passed[l][k], NEW j \in DOMAIN passed[l][k], i <= j
               PROVE  LET p == passed[l][k]
                          late == IF l = "api" THEN Cardinality(Caller) * (p[j].gen - p[i].gen + 1) ELSE 0
                      IN j - i + 1 <= TokenBurst + TokenRate * (p[j].at - p[i].at) + late
    BY DEF RateKept
  <1> DEFINE p == passed[l][k]
  <1>1. p \in Seq(Pass)
    BY DEF RateInv, RateTypeOK
  <1>2. j - i + 1 <= TokenBurst + TokenRate * (p[j].at - p[i].at) + Most(l) * (p[j].gen - p[i].gen + 1)
    BY DEF RateInv, Lane, Between
  <1>3. CASE l = "api"
    BY <1>2, <1>3 DEF Most
  <1>4. CASE l # "api"
    <2>1. p[j].gen - p[i].gen + 1 \in Int
      BY <1>1, PassIsTimed
    <2>2. Most(l) * (p[j].gen - p[i].gen + 1) = 0
      BY <1>4, <2>1 DEF Most
    <2> QED BY <1>2, <1>4, <2>2
  <1> QED BY <1>3, <1>4

\* The three maps of buckets: for any number of requests and keys, whatever is
\* forgotten, swept or crowded out, no key ever lets more through between two
\* passes than its burst, the refill of that time, and, on the API's map, those
\* who had found a bucket each time it was forgotten.
THEOREM RateStaysKept == RateSpec => []RateKept
  BY RateInvStarts, RateInvKept, RateInvKeeps, PTL DEF RateSpec

\* Both limits of the RADIUS server hold when the two run beside each other on one
\* clock: on the packets of a source and on the failures of a user.
THEOREM TriesStayBounded == RateSpec /\ RadiusSpec => []TriesBounded
  <1>1. RateKept /\ GuessesBounded => TriesBounded
    BY DEF TriesBounded
  <1> QED BY <1>1, RateStaysKept, GuessesStayBounded, PTL


-----------------------------------------------------------------------------
(* SettingsStore.  master_key is written by whoever inserts it first and by *)
(* nobody after, so what a task or a process has read of it is the table's; *)
(* and an edit with masks in it comes when every row is there to be merged. *)

SettingsSpec == SettingsInit /\ [][SettingsNext]_<<now, setVars>>

Value(k) == IF k \in Document THEN StoredDocument ELSE Secret
Table == {r \in [SettingKey -> SettingValue] : \A k \in SettingKey : r[k] \in Value(k) \cup {None}}
SentDocument == [plain: Plain \cup {Broken}, secret: Secret \cup {Mask}]

TaskRecord == [pc: {"idle", "read", "fill", "select", "sign", "next", "write"},
               p: Process \cup {None},
               kind: {"none", "start", "sign", "reload", "put", "import", "regenerate", "support"},
               todo: SUBSET SettingKey,
               sent: [SettingKey -> {None, Mask} \cup Secret \cup SentDocument],
               value: SettingValue, raw: Table]

Starting == {"start", "sign"}
Editing == {"put", "import"}

Complete(tab) == \A k \in SettingKey \ {"oidc.keys"} : tab[k] # None

\* What has been read of a table that has only been written to since.
Read(raw, tab) ==
    /\ \A k \in SettingKey : raw[k] # None => tab[k] # None
    /\ raw["master_key"] \in {None, tab["master_key"]}

SnapFits(s, tab) == s # None => Read(s, tab) /\ Complete(s)

\* What a task may hold beside a table, the snapshots and the signing keys.
TaskFits(q, tab, sn, sg) ==
    /\ q.pc # "idle" => q.p \in Process
    /\ q.pc = "sign" => q.kind \in Starting
    /\ q.kind \in Starting => q.p \in Process /\ sg[q.p] = None
    /\ q.pc = "sign" \/ q.kind = "sign" => sn[q.p] # None
    /\ q.kind = "put" => Complete(tab)
    /\ q.kind \in Editing => /\ q.todo \subseteq Document
                             /\ \A k \in q.todo : q.sent[k] \in IF q.kind = "put" THEN SentDocument ELSE Exported
    /\ q.pc = "next" => q.kind \in Editing
    /\ q.pc = "write" => q.todo # {} /\ q.value \in Value(FirstOf(q.todo))
    /\ "master_key" \notin q.todo
    /\ Read(q.raw, tab)

SettingsInv ==
    /\ table \in Table
    /\ snap \in [Process -> Table \cup {None}]
    /\ signing \in [Process -> SettingValue]
    /\ task \in [Task -> TaskRecord]
    /\ \A p \in Process : SnapFits(snap[p], table) /\ (Serves(p) => Runs(p))
    /\ \A t \in Task : TaskFits(task[t], table, snap, signing)
    /\ \A t, u \in Task : t # u /\ task[t].kind \in Starting => task[u].p # task[t].p

\* Rows are added and replaced, master_key is not replaced.
Written(tab, new) ==
    /\ new \in Table
    /\ \A k \in SettingKey : tab[k] # None => new[k] # None
    /\ tab["master_key"] # None => new["master_key"] = tab["master_key"]

LEMMA KeysAreFew ==
    /\ SettingKey = {"admin_token", "master_key", "oidc.keys", "smtp", "support"}
    /\ Document = {"smtp", "support"}
  BY DEF SettingKey, Protected, Generated, Document

LEMMA FirstIsOne ==
    ASSUME NEW keys \in SUBSET SettingKey, keys # {}
    PROVE  FirstOf(keys) \in keys
  <1> DEFINE First(i) == Order[i] \in keys /\ \A j \in 1 .. i - 1 : Order[j] \notin keys
  <1>1. /\ DOMAIN Order = 1 .. 5
        /\ Order[1] = "admin_token" /\ Order[2] = "master_key" /\ Order[3] = "oidc.keys"
        /\ Order[4] = "smtp" /\ Order[5] = "support"
    BY DEF Order
  <1>2. \E i \in 1 .. 5 : First(i)
    <2>1. CASE Order[1] \in keys
      BY <2>1
    <2>2. CASE Order[1] \notin keys /\ Order[2] \in keys
      BY <2>2
    <2>3. CASE Order[1] \notin keys /\ Order[2] \notin keys /\ Order[3] \in keys
      BY <2>3
    <2>4. CASE Order[1] \notin keys /\ Order[2] \notin keys /\ Order[3] \notin keys /\ Order[4] \in keys
      BY <2>4
    <2>5. CASE /\ Order[1] \notin keys /\ Order[2] \notin keys /\ Order[3] \notin keys /\ Order[4] \notin keys
               /\ Order[5] \in keys
      BY <2>5
    <2>6. Order[1] \in keys \/ Order[2] \in keys \/ Order[3] \in keys \/ Order[4] \in keys \/ Order[5] \in keys
      BY <1>1, KeysAreFew
    <2> QED BY <2>1, <2>2, <2>3, <2>4, <2>5, <2>6
  <1>3. FirstOf(keys) = Order[CHOOSE i \in DOMAIN Order : First(i)]
    BY DEF FirstOf
  <1>4. First(CHOOSE i \in DOMAIN Order : First(i))
    BY <1>1, <1>2
  <1> QED BY <1>3, <1>4

LEMMA DrawnIsSecret == Drawn \in Secret
  <1>1. \E s \in Secret : Secret \subseteq Held \/ s \notin Held
    BY SettingsAssumption
  <1> QED BY <1>1 DEF Drawn

LEMMA EmptyReads ==
    /\ Empty \in Table
    /\ \A k \in SettingKey : Empty[k] = None
    /\ \A tab : Read(Empty, tab)
  <1>1. Empty \in [SettingKey -> SettingValue] /\ \A k \in SettingKey : Empty[k] = None
    BY DEF Empty, SettingValue
  <1>2. "master_key" \in SettingKey
    BY KeysAreFew
  <1> QED BY <1>1, <1>2 DEF Table, Read

LEMMA NoTaskFits ==
    /\ NoTask \in TaskRecord /\ NoTask.pc = "idle" /\ NoTask.p = None /\ NoTask.kind = "none"
    /\ \A tab, sn, sg : TaskFits(NoTask, tab, sn, sg)
  <1>1. /\ NoTask.pc = "idle" /\ NoTask.p = None /\ NoTask.kind = "none" /\ NoTask.todo = {} /\ NoTask.raw = Empty
    BY DEF NoTask
  <1>2. NoTask \in TaskRecord
    <2>1. Empty \in [SettingKey -> {None, Mask} \cup Secret \cup SentDocument]
      BY DEF Empty
    <2>2. None \in SettingValue
      BY DEF SettingValue
    <2> QED BY <2>1, <2>2, EmptyReads DEF NoTask, TaskRecord
  <1>3. \A tab, sn, sg : TaskFits(NoTask, tab, sn, sg)
    BY <1>1, EmptyReads DEF TaskFits, Starting, Editing
  <1> QED BY <1>1, <1>2, <1>3

\* What was read of a table is read of it once it has been written to.
LEMMA ReadStays ==
    ASSUME NEW tab \in Table, NEW new, Written(tab, new), NEW raw \in Table, Read(raw, tab)
    PROVE  Read(raw, new) /\ (Complete(tab) => Complete(new))
  <1>1. "master_key" \in SettingKey
    BY KeysAreFew
  <1>2. raw["master_key"] \in {None, new["master_key"]}
    BY <1>1 DEF Read, Written
  <1> QED BY <1>2 DEF Read, Written, Complete

LEMMA FitsStays ==
    ASSUME NEW tab \in Table, NEW new, Written(tab, new), NEW sn, NEW sg, NEW q \in TaskRecord,
           TaskFits(q, tab, sn, sg)
    PROVE  TaskFits(q, new, sn, sg)
  <1>1. q.raw \in Table
    BY DEF TaskRecord
  <1>2. Read(q.raw, new)
    BY <1>1, ReadStays DEF TaskFits
  <1>3. q.kind = "put" => Complete(new)
    BY <1>1, ReadStays DEF TaskFits
  <1> QED BY <1>2, <1>3 DEF TaskFits

LEMMA SameIsWritten == ASSUME NEW tab \in Table PROVE Written(tab, tab)
  BY DEF Written

\* One task goes on as r, and writes to the table at most.
LEMMA TaskMoves ==
    ASSUME SettingsInv, NEW t \in Task, NEW r \in TaskRecord, task' = [task EXCEPT ![t] = r],
           Written(table, table'), UNCHANGED <<snap, signing>>, TaskFits(r, table', snap, signing),
           \A u \in Task \ {t} : r.kind \in Starting \/ task[u].kind \in Starting => task[u].p # r.p
    PROVE  SettingsInv'
  <1>1. \A u \in Task : task'[u] = IF u = t THEN r ELSE task[u]
    BY DEF SettingsInv
  <1>2. table' \in Table /\ task' \in [Task -> TaskRecord]
    BY DEF SettingsInv, Written
  <1>3. ASSUME NEW p \in Process
        PROVE  SnapFits(snap[p], table') /\ (signing[p] # None => snap[p] # None)
    <2>1. snap[p] \in Table \cup {None} /\ SnapFits(snap[p], table)
      BY DEF SettingsInv
    <2>2. SnapFits(snap[p], table')
      BY <2>1, ReadStays DEF SettingsInv, SnapFits
    <2> QED BY <2>2 DEF SettingsInv, Serves, Runs
  <1>4. ASSUME NEW u \in Task
        PROVE  TaskFits(task'[u], table', snap, signing)
    <2>1. CASE u = t
      BY <1>1, <2>1
    <2>2. CASE u # t
      BY <1>1, <2>2, FitsStays DEF SettingsInv
    <2> QED BY <2>1, <2>2
  <1>5. ASSUME NEW u \in Task, NEW w \in Task, u # w, task'[u].kind \in Starting
        PROVE  task'[w].p # task'[u].p
    <2>1. CASE u = t
      BY <1>1, <1>5, <2>1
    <2>2. CASE w = t
      BY <1>1, <1>5, <2>2
    <2>3. CASE u # t /\ w # t
      BY <1>1, <1>5, <2>3 DEF SettingsInv
    <2> QED BY <2>1, <2>2, <2>3
  <1> QED BY <1>2, <1>3, <1>4, <1>5 DEF SettingsInv, Serves, Runs

\* A task that goes on stays with its process and does not begin a start.
LEMMA TaskGoes ==
    ASSUME SettingsInv, NEW t \in Task, NEW r \in TaskRecord, task' = [task EXCEPT ![t] = r],
           Written(table, table'), UNCHANGED <<snap, signing>>, TaskFits(r, table', snap, signing),
           r.p = task[t].p, r.kind \in Starting => task[t].kind \in Starting
    PROVE  SettingsInv'
  <1>1. \A u \in Task \ {t} : r.kind \in Starting \/ task[u].kind \in Starting => task[u].p # r.p
    BY DEF SettingsInv
  <1> QED BY <1>1, TaskMoves

LEMMA TaskEnds ==
    ASSUME SettingsInv, NEW t \in Task, task' = [task EXCEPT ![t] = NoTask], UNCHANGED <<table, snap, signing>>
    PROVE  SettingsInv'
  <1>1. \A u \in Task \ {t} : NoTask.kind \in Starting \/ task[u].kind \in Starting => task[u].p # NoTask.p
    BY NoTaskFits, SettingsAssumption DEF SettingsInv, TaskFits, Starting
  <1>2. Written(table, table')
    BY SameIsWritten DEF SettingsInv
  <1>3. NoTask \in TaskRecord /\ TaskFits(NoTask, table', snap, signing)
    BY NoTaskFits
  <1> QED BY <1>1, <1>2, <1>3, TaskMoves

\* A process that serves has a whole snapshot, and the table was whole before.
LEMMA ServesWhole ==
    ASSUME SettingsInv, NEW p \in Process, Serves(p)
    PROVE  /\ snap[p] \in Table /\ Complete(snap[p]) /\ Complete(table)
           /\ snap[p]["smtp"] \in StoredDocument /\ snap[p]["support"] \in StoredDocument
  <1>1. snap[p] # None /\ snap[p] \in Table
    BY DEF SettingsInv, Runs
  <1>2. Complete(snap[p]) /\ Complete(table)
    BY <1>1 DEF SettingsInv, SnapFits, Read, Complete
  <1>3. {"smtp", "support"} \subseteq SettingKey \ {"oidc.keys"}
    BY KeysAreFew
  <1>4. \A k \in {"smtp", "support"} : snap[p][k] \in Value(k) /\ Value(k) = StoredDocument
    BY <1>1, <1>2, <1>3, KeysAreFew DEF Table, Complete, Value
  <1> QED BY <1>1, <1>2, <1>4

\* A task of a process that serves begins.
LEMMA TaskBegins ==
    ASSUME SettingsInv, NEW t \in Task, NEW p \in Process, Serves(p), NEW r \in TaskRecord,
           task' = [task EXCEPT ![t] = r], UNCHANGED <<table, snap, signing>>,
           TaskFits(r, table, snap, signing), r.p = p, r.kind \notin Starting
    PROVE  SettingsInv'
  <1>1. \A u \in Task \ {t} : r.kind \in Starting \/ task[u].kind \in Starting => task[u].p # r.p
    BY DEF SettingsInv, TaskFits, Serves
  <1>2. Written(table, table')
    BY SameIsWritten DEF SettingsInv
  <1> QED BY <1>1, <1>2, TaskMoves

\* The documents an editor sends are those of its snapshot, with what it changed
\* or did not see.
LEMMA EditedIsSent ==
    ASSUME NEW doc \in StoredDocument
    PROVE  Edited(doc) \subseteq SentDocument
  <1>1. Shown(doc).plain = doc.plain /\ Shown(doc).secret = Mask
    BY DEF Shown, StoredDocument
  <1>2. doc.plain \in Plain \cup {Broken}
    BY DEF StoredDocument
  <1> QED BY <1>1, <1>2 DEF Edited, SentDocument

LEMMA EditBegins ==
    ASSUME SettingsInv, NEW t \in Task, NEW p \in Process, Serves(p), NEW kind \in Editing,
           NEW sent \in [SettingKey -> {None, Mask} \cup Secret \cup SentDocument],
           \A k \in Document : sent[k] \in {None, Mask} \cup
                                           (IF kind = "put" THEN SentDocument ELSE Exported),
           EditSettings(t, p, kind, sent)
    PROVE  SettingsInv'
  <1> DEFINE r == [NoTask EXCEPT !.pc = "next", !.p = p, !.kind = kind, !.sent = sent,
                                 !.todo = Changed(kind, sent)]
  <1>1. /\ r.pc = "next" /\ r.p = p /\ r.kind = kind /\ r.sent = sent /\ r.todo = Changed(kind, sent)
        /\ r.raw = Empty
    BY DEF NoTask
  <1>2. /\ Changed(kind, sent) \in SUBSET Document
        /\ \A k \in Changed(kind, sent) : sent[k] \notin {None, Mask}
    BY DEF Changed, Admitted, Editing, EditSettings, SettingKey
  <1>3. "master_key" \notin Changed(kind, sent)
    BY <1>2, KeysAreFew
  <1>4. r \in TaskRecord
    <2>1. Changed(kind, sent) \in SUBSET SettingKey
      BY DEF Changed
    <2> QED BY <2>1, NoTaskFits DEF TaskRecord, Editing
  <1>5. TaskFits(r, table, snap, signing)
    <2>1. Complete(table)
      BY ServesWhole
    <2>2. \A k \in r.todo : r.sent[k] \in IF r.kind = "put" THEN SentDocument ELSE Exported
      BY <1>1, <1>2
    <2> HIDE DEF r
    <2> QED BY <1>1, <1>2, <1>3, <2>1, <2>2, EmptyReads DEF TaskFits, Editing, Starting
  <1>6. r.kind \notin Starting
    BY <1>1 DEF Editing, Starting
  <1>7. task' = [task EXCEPT ![t] = r] /\ UNCHANGED <<table, snap, signing>>
    BY DEF EditSettings
  <1> HIDE DEF r
  <1> QED BY <1>1, <1>4, <1>5, <1>6, <1>7, TaskBegins

LEMMA TasksBegin ==
    ASSUME SettingsInv, NEW t \in Task, NEW p \in Process,
           \/ StartProcess(t, p) \/ ReloadSignal(t, p) \/ Regenerate(t, p)
           \/ \E plain \in Plain : SaveSupport(t, p, plain)
           \/ PutSettings(t, p) \/ ImportSettings(t, p)
    PROVE  SettingsInv'
  <1>1. CASE StartProcess(t, p)
    <2> DEFINE r == [NoTask EXCEPT !.pc = "read", !.p = p, !.kind = "start"]
    <2>1. r.pc = "read" /\ r.p = p /\ r.kind = "start" /\ r.todo = {} /\ r.raw = Empty
      BY DEF NoTask
    <2>2. r \in TaskRecord
      BY NoTaskFits DEF TaskRecord
    <2>3. task' = [task EXCEPT ![t] = r] /\ UNCHANGED <<table, snap, signing>>
      BY <1>1 DEF StartProcess
    <2>4. \A u \in Task : task[u].p # p
      BY <1>1 DEF StartProcess
    <2>5. signing[p] = None
      BY <1>1 DEF StartProcess, SettingsInv, Serves
    <2> HIDE DEF r
    <2>6. TaskFits(r, table, snap, signing)
      BY <2>1, <2>5, EmptyReads DEF TaskFits, Editing, Starting
    <2>7. Written(table, table')
      BY <2>3, SameIsWritten DEF SettingsInv
    <2>8. \A u \in Task \ {t} : r.kind \in Starting \/ task[u].kind \in Starting => task[u].p # r.p
      BY <2>1, <2>4
    <2> QED BY <2>2, <2>3, <2>6, <2>7, <2>8, TaskMoves
  <1>2. CASE ReloadSignal(t, p)
    <2> DEFINE r == [NoTask EXCEPT !.pc = "read", !.p = p, !.kind = "reload"]
    <2>1. r.pc = "read" /\ r.p = p /\ r.kind = "reload" /\ r.todo = {} /\ r.raw = Empty
      BY DEF NoTask
    <2>2. r \in TaskRecord
      BY NoTaskFits DEF TaskRecord
    <2>3. task' = [task EXCEPT ![t] = r] /\ UNCHANGED <<table, snap, signing>> /\ Serves(p)
      BY <1>2 DEF ReloadSignal
    <2> HIDE DEF r
    <2>4. TaskFits(r, table, snap, signing) /\ r.kind \notin Starting
      BY <2>1, EmptyReads DEF TaskFits, Editing, Starting
    <2> QED BY <2>1, <2>2, <2>3, <2>4, TaskBegins
  <1>3. CASE Regenerate(t, p)
    <2> DEFINE r == [NoTask EXCEPT !.pc = "write", !.p = p, !.value = Drawn, !.kind = "regenerate",
                                   !.todo = {"admin_token"}]
    <2>1. /\ r.pc = "write" /\ r.p = p /\ r.kind = "regenerate" /\ r.todo = {"admin_token"}
          /\ r.value = Drawn /\ r.raw = Empty
      BY DEF NoTask
    <2>2. r \in TaskRecord
      <3>1. {"admin_token"} \in SUBSET SettingKey /\ Drawn \in SettingValue
        BY KeysAreFew, DrawnIsSecret DEF SettingValue
      <3> QED BY <3>1, NoTaskFits DEF TaskRecord
    <2>3. task' = [task EXCEPT ![t] = r] /\ UNCHANGED <<table, snap, signing>> /\ Serves(p)
      BY <1>3 DEF Regenerate
    <2> HIDE DEF r
    <2>4. r.value \in Value(FirstOf(r.todo))
      <3>1. FirstOf({"admin_token"}) = "admin_token"
        BY FirstIsOne, KeysAreFew
      <3> QED BY <2>1, <3>1, DrawnIsSecret, KeysAreFew DEF Value
    <2>5. TaskFits(r, table, snap, signing) /\ r.kind \notin Starting
      BY <2>1, <2>4, EmptyReads DEF TaskFits, Editing, Starting
    <2> QED BY <2>1, <2>2, <2>3, <2>5, TaskBegins
  <1>4. ASSUME NEW plain \in Plain, SaveSupport(t, p, plain)
        PROVE  SettingsInv'
    <2> DEFINE doc == [snap[p]["support"] EXCEPT !.plain = plain]
               r == [NoTask EXCEPT !.pc = "write", !.p = p, !.kind = "support", !.todo = {"support"},
                                   !.value = doc]
    <2>0. Serves(p)
      BY <1>4 DEF SaveSupport
    <2>1. /\ r.pc = "write" /\ r.p = p /\ r.kind = "support" /\ r.todo = {"support"}
          /\ r.value = doc /\ r.raw = Empty
      BY DEF NoTask
    <2>2. doc \in StoredDocument
      BY <2>0, ServesWhole DEF StoredDocument
    <2> HIDE DEF doc
    <2>3. r \in TaskRecord
      <3>1. {"support"} \in SUBSET SettingKey /\ doc \in SettingValue
        BY <2>2, KeysAreFew DEF SettingValue
      <3> QED BY <3>1, NoTaskFits DEF TaskRecord
    <2>4. task' = [task EXCEPT ![t] = r] /\ UNCHANGED <<table, snap, signing>>
      BY <1>4 DEF SaveSupport, doc
    <2> HIDE DEF r
    <2>5. r.value \in Value(FirstOf(r.todo))
      <3>1. FirstOf({"support"}) = "support"
        BY FirstIsOne, KeysAreFew
      <3> QED BY <2>1, <2>2, <3>1, KeysAreFew DEF Value
    <2>6. TaskFits(r, table, snap, signing) /\ r.kind \notin Starting
      <3>1. "master_key" \notin r.todo
        BY <2>1
      <3> QED BY <2>1, <2>5, <3>1, EmptyReads DEF TaskFits, Editing, Starting
    <2> QED BY <2>0, <2>1, <2>3, <2>4, <2>6, TaskBegins
  <1>5. CASE PutSettings(t, p)
    <2>1. Serves(p)
      BY <1>5 DEF PutSettings
    <2>2. PICK master \in {None, Mask} \cup Secret, smtp \in {None, Mask} \cup Edited(snap[p]["smtp"]) :
             EditSettings(t, p, "put", [Empty EXCEPT !["master_key"] = master, !["smtp"] = smtp])
      BY <1>5 DEF PutSettings
    <2> DEFINE sent == [Empty EXCEPT !["master_key"] = master, !["smtp"] = smtp]
    <2>3. smtp \in {None, Mask} \cup SentDocument
      BY <2>1, ServesWhole, EditedIsSent
    <2>4. /\ sent \in [SettingKey -> {None, Mask} \cup Secret \cup SentDocument]
          /\ sent["smtp"] = smtp /\ sent["support"] = None
      BY <2>3, KeysAreFew DEF Empty
    <2>5. \A k \in Document : sent[k] \in {None, Mask} \cup SentDocument
      BY <2>3, <2>4, KeysAreFew
    <2>6. EditSettings(t, p, "put", sent)
      BY <2>2
    <2> HIDE DEF sent
    <2>7. "put" \in Editing
      BY DEF Editing
    <2> QED BY <2>1, <2>4, <2>5, <2>6, <2>7, EditBegins
  <1>6. CASE ImportSettings(t, p)
    <2>1. Serves(p)
      BY <1>6 DEF ImportSettings
    <2>2. PICK master \in {None} \cup Secret, smtp \in {None} \cup Exported, support \in {None} \cup Exported :
             EditSettings(t, p, "import", [Empty EXCEPT !["master_key"] = master, !["smtp"] = smtp,
                                                       !["support"] = support])
      BY <1>6 DEF ImportSettings
    <2> DEFINE sent == [Empty EXCEPT !["master_key"] = master, !["smtp"] = smtp, !["support"] = support]
    <2>3. Exported \subseteq SentDocument
      BY DEF Exported, SentDocument
    <2>4. /\ sent \in [SettingKey -> {None, Mask} \cup Secret \cup SentDocument]
          /\ sent["smtp"] = smtp /\ sent["support"] = support
      BY <2>3, KeysAreFew DEF Empty
    <2>5. \A k \in Document : sent[k] \in {None, Mask} \cup Exported
      BY <2>4, KeysAreFew
    <2>6. EditSettings(t, p, "import", sent)
      BY <2>2
    <2> HIDE DEF sent
    <2>7. "import" \in Editing /\ "import" # "put"
      BY DEF Editing
    <2> QED BY <2>1, <2>4, <2>5, <2>6, <2>7, EditBegins
  <1> QED BY <1>1, <1>2, <1>3, <1>4, <1>5, <1>6

\* An edit writes what it was sent, merged into the row that is there: with no
\* mask left.
LEMMA MergedIsStored ==
    ASSUME NEW cur \in StoredDocument, NEW inc \in SentDocument
    PROVE  Merge(cur, inc) \in StoredDocument
  <1> DEFINE m == Merge(cur, inc)
  <1>1. /\ cur.plain \in Plain \cup {Broken} /\ cur.secret \in Secret \cup Plain
        /\ inc.plain \in Plain \cup {Broken} /\ inc.secret \in Secret \cup {Mask}
    BY DEF StoredDocument, SentDocument
  <1>2. Unmasked(cur.plain, inc.plain) \in Plain \cup {Broken}
    BY <1>1 DEF Unmasked
  <1>3. Unmasked(cur.secret, inc.secret) \in Secret \cup Plain
    BY <1>1 DEF Unmasked
  <1> QED BY <1>2, <1>3 DEF Merge, StoredDocument

\* What a task that is under way has of its own.
LEMMA TaskOwns ==
    ASSUME SettingsInv, NEW t \in Task
    PROVE  /\ task[t] \in TaskRecord /\ TaskFits(task[t], table, snap, signing)
           /\ table \in Table
  BY DEF SettingsInv

LEMMA MergeKeeps ==
    ASSUME SettingsInv, NEW t \in Task, MergeValue(t)
    PROVE  SettingsInv'
  <1> DEFINE q == task[t]
             k == FirstOf(q.todo)
             inc == q.sent[k]
             value == IF q.kind = "put" /\ table[k] # None THEN Merge(table[k], inc) ELSE inc
             r == [q EXCEPT !.pc = "write", !.value = value]
  <1>1. q \in TaskRecord /\ TaskFits(q, table, snap, signing) /\ table \in Table
    BY TaskOwns
  <1>2. q.pc = "next" /\ q.todo # {}
    BY DEF MergeValue, Stage
  <1>3. q.kind \in Editing /\ q.p \in Process
    BY <1>1, <1>2 DEF TaskFits
  <1>4. k \in q.todo /\ k \in Document
    <2>1. q.todo \in SUBSET SettingKey
      BY <1>1 DEF TaskRecord
    <2> QED BY <1>1, <1>2, <1>3, <2>1, FirstIsOne DEF TaskFits
  <1>5. value \in StoredDocument
    <2>1. CASE q.kind = "put"
      <3>1. inc \in SentDocument /\ table[k] # None
        BY <1>1, <1>3, <1>4, <2>1, KeysAreFew DEF TaskFits, Complete
      <3>2. table[k] \in StoredDocument
        BY <1>1, <1>4, <3>1, KeysAreFew DEF Table, Value
      <3>3. Merge(table[k], inc) \in StoredDocument
        BY <3>1, <3>2, MergedIsStored
      <3> QED BY <2>1, <3>1, <3>3
    <2>2. CASE q.kind # "put"
      <3>1. inc \in Exported
        BY <1>1, <1>3, <1>4, <2>2 DEF TaskFits
      <3>2. Exported \subseteq StoredDocument
        BY DEF Exported, StoredDocument
      <3> QED BY <2>2, <3>1, <3>2
    <2> QED BY <2>1, <2>2
  <1>6. /\ r.pc = "write" /\ r.value = value /\ r.p = q.p /\ r.kind = q.kind /\ r.todo = q.todo
        /\ r.sent = q.sent /\ r.raw = q.raw
    BY <1>1 DEF TaskRecord
  <1>7. task' = [task EXCEPT ![t] = r] /\ UNCHANGED <<table, snap, signing>>
    BY DEF MergeValue
  <1>8. r \in TaskRecord
    <2>1. value \in SettingValue
      BY <1>5 DEF SettingValue
    <2> HIDE DEF value, q
    <2> QED BY <1>1, <2>1 DEF TaskRecord
  <1>9. r.value \in Value(FirstOf(r.todo))
    BY <1>4, <1>5, <1>6 DEF Value
  <1> HIDE DEF q, k, inc, value, r
  <1>10. TaskFits(r, table, snap, signing)
    BY <1>1, <1>2, <1>3, <1>6, <1>9 DEF TaskFits, Editing, Starting
  <1>11. Written(table, table')
    BY <1>1, <1>7, SameIsWritten
  <1> QED BY <1>6, <1>7, <1>8, <1>10, <1>11, TaskGoes DEF q

LEMMA EditEndKeeps ==
    ASSUME SettingsInv, NEW t \in Task, EditEnds(t)
    PROVE  SettingsInv'
  <1> DEFINE q == task[t]
             r == [NoTask EXCEPT !.pc = "read", !.p = q.p, !.kind = "reload"]
  <1>1. q \in TaskRecord /\ TaskFits(q, table, snap, signing) /\ table \in Table
    BY TaskOwns
  <1>2. UNCHANGED <<table, snap, signing>> /\ q.pc = "next"
    BY DEF EditEnds, Stage
  <1>3. CASE q.kind # "import"
    <2>1. task' = [task EXCEPT ![t] = NoTask]
      BY <1>3 DEF EditEnds
    <2> QED BY <1>2, <2>1, TaskEnds
  <1>4. CASE q.kind = "import"
    <2>1. task' = [task EXCEPT ![t] = r]
      BY <1>4 DEF EditEnds
    <2>2. r.pc = "read" /\ r.p = q.p /\ r.kind = "reload" /\ r.todo = {} /\ r.raw = Empty
      BY DEF NoTask
    <2>3. q.p \in Process
      BY <1>1, <1>2 DEF TaskFits
    <2>4. r \in TaskRecord
      BY <2>3, NoTaskFits DEF TaskRecord
    <2> HIDE DEF q, r
    <2>5. TaskFits(r, table, snap, signing) /\ r.kind \notin Starting
      BY <2>2, <2>3, EmptyReads DEF TaskFits, Editing, Starting
    <2>6. Written(table, table')
      BY <1>1, <1>2, SameIsWritten
    <2>7. table' = table /\ snap' = snap /\ signing' = signing
      BY <1>2
    <2> QED BY <2>1, <2>2, <2>4, <2>5, <2>6, <2>7, TaskGoes DEF q
  <1> QED BY <1>3, <1>4

LEMMA PutKeeps ==
    ASSUME SettingsInv, NEW t \in Task, Put(t)
    PROVE  SettingsInv'
  <1> DEFINE q == task[t]
             k == FirstOf(q.todo)
             r == [q EXCEPT !.pc = "read", !.todo = q.todo \ {k}]
  <1>1. q \in TaskRecord /\ TaskFits(q, table, snap, signing) /\ table \in Table
    BY TaskOwns
  <1>2. q.pc = "write"
    BY DEF Put, Stage
  <1>3. q.todo # {} /\ q.value \in Value(k) /\ "master_key" \notin q.todo /\ q.p \in Process
    BY <1>1, <1>2 DEF TaskFits
  <1>4. k \in q.todo /\ k \in SettingKey
    <2>1. q.todo \in SUBSET SettingKey
      BY <1>1 DEF TaskRecord
    <2> QED BY <1>3, <2>1, FirstIsOne
  <1>5. /\ task' = [task EXCEPT ![t] = r] /\ table' = [table EXCEPT ![k] = q.value]
        /\ UNCHANGED <<snap, signing>>
    BY DEF Put
  <1>6. /\ r.pc = "read" /\ r.todo = q.todo \ {k} /\ r.p = q.p /\ r.kind = q.kind
        /\ r.sent = q.sent /\ r.value = q.value /\ r.raw = q.raw
    BY <1>1 DEF TaskRecord
  <1>7. r \in TaskRecord
    <2> HIDE DEF q, k
    <2>1. q.todo \ {k} \in SUBSET SettingKey
      BY <1>1 DEF TaskRecord
    <2> QED BY <1>1, <2>1 DEF TaskRecord
  <1> HIDE DEF q, k, r
  <1>8. Written(table, table')
    <2>1. \A j \in SettingKey : table'[j] = IF j = k THEN q.value ELSE table[j]
      BY <1>1, <1>5 DEF Table
    <2>2. q.value # None
      BY <1>3, SettingsAssumption DEF Value
    <2>3. q.value \in SettingValue
      BY <1>3 DEF Value, SettingValue
    <2>4. table' \in Table
      BY <1>1, <1>3, <1>5, <2>1, <2>3 DEF Table
    <2>5. k # "master_key" /\ "master_key" \in SettingKey
      BY <1>3, <1>4, KeysAreFew
    <2> QED BY <2>1, <2>2, <2>4, <2>5 DEF Written
  <1>9. TaskFits(r, table', snap, signing)
    <2>1. TaskFits(q, table', snap, signing)
      BY <1>1, <1>8, FitsStays
    <2> QED BY <1>3, <1>6, <2>1 DEF TaskFits
  <1> QED BY <1>5, <1>6, <1>7, <1>8, <1>9, TaskGoes DEF q

LEMMA ReadKeeps ==
    ASSUME SettingsInv, NEW t \in Task, ReadAll(t)
    PROVE  SettingsInv'
  <1> DEFINE q == task[t]
             r == [q EXCEPT !.pc = "fill", !.raw = table]
  <1>1. q \in TaskRecord /\ TaskFits(q, table, snap, signing) /\ table \in Table
    BY TaskOwns
  <1>2. q.pc = "read" /\ q.p \in Process
    BY <1>1 DEF ReadAll, Stage, TaskFits
  <1>3. task' = [task EXCEPT ![t] = r] /\ UNCHANGED <<table, snap, signing>>
    BY DEF ReadAll
  <1>4. /\ r.pc = "fill" /\ r.raw = table /\ r.p = q.p /\ r.kind = q.kind /\ r.todo = q.todo
        /\ r.sent = q.sent /\ r.value = q.value
    BY <1>1 DEF TaskRecord
  <1>5. r \in TaskRecord
    <2> HIDE DEF q
    <2> QED BY <1>1 DEF TaskRecord
  <1> HIDE DEF q, r
  <1>6. Read(table, table)
    BY DEF Read
  <1>7. TaskFits(r, table, snap, signing)
    BY <1>1, <1>2, <1>4, <1>6 DEF TaskFits
  <1>8. Written(table, table')
    BY <1>1, <1>3, SameIsWritten
  <1> QED BY <1>3, <1>4, <1>5, <1>7, <1>8, TaskGoes DEF q

LEMMA FillKeeps ==
    ASSUME SettingsInv, NEW t \in Task, FillMissing(t)
    PROVE  SettingsInv'
  <1> DEFINE q == task[t]
             k == FirstOf(Missing(t))
             v == IF k \in Generated THEN Drawn ELSE Blank
             pc == IF Returned(k, v) = None THEN "select" ELSE "fill"
             raw == [q.raw EXCEPT ![k] = Returned(k, v)]
             r == [q EXCEPT !.raw = raw, !.pc = pc]
  <1>1. q \in TaskRecord /\ TaskFits(q, table, snap, signing) /\ table \in Table /\ q.raw \in Table
    BY TaskOwns DEF TaskRecord
  <1>2. q.pc = "fill" /\ q.p \in Process
    BY <1>1 DEF FillMissing, Stage, TaskFits
  <1>3. k \in SettingKey /\ k # "oidc.keys" /\ q.raw[k] = None
    <2>1. Missing(t) \in SUBSET SettingKey /\ Missing(t) # {}
      BY DEF FillMissing, Missing
    <2>2. k \in Missing(t)
      BY <2>1, FirstIsOne
    <2> QED BY <2>2 DEF Missing
  <1>4. /\ task' = [task EXCEPT ![t] = r] /\ table' = [table EXCEPT ![k] = Inserted(k, v)]
        /\ UNCHANGED <<snap, signing>>
    BY DEF FillMissing
  <1>5. /\ r.pc = pc /\ r.raw = raw /\ r.p = q.p /\ r.kind = q.kind /\ r.todo = q.todo
        /\ r.sent = q.sent /\ r.value = q.value
    BY <1>1 DEF TaskRecord
  <1>6. v \in Value(k) /\ v # None /\ Value(k) \subseteq SettingValue
    <2>1. Blank \in StoredDocument
      BY SettingsAssumption DEF Blank, StoredDocument
    <2>2. k \in Document <=> k \notin Generated
      BY <1>3, KeysAreFew DEF Generated
    <2>3. v \in Value(k)
      BY <2>1, <2>2, DrawnIsSecret DEF Value
    <2> QED BY <2>3, SettingsAssumption DEF Value, SettingValue
  <1>7. pc \in {"select", "fill"}
    OBVIOUS
  <1> HIDE DEF v, pc
  <1>8. Returned(k, v) \in Value(k) \cup {None} /\ Inserted(k, v) \in Value(k)
    BY <1>1, <1>3, <1>6 DEF Returned, Inserted, Table
  <1> HIDE DEF q, k
  <1>9. \A j \in SettingKey : /\ raw[j] = IF j = k THEN Returned(k, v) ELSE q.raw[j]
                              /\ table'[j] = IF j = k THEN Inserted(k, v) ELSE table[j]
    BY <1>1, <1>4 DEF Table
  <1>10. raw \in Table /\ table' \in Table
    <2>1. Returned(k, v) \in SettingValue /\ Inserted(k, v) \in SettingValue
      BY <1>6, <1>8 DEF SettingValue
    <2>2. raw \in [SettingKey -> SettingValue] /\ table' \in [SettingKey -> SettingValue]
      BY <1>1, <1>4, <2>1 DEF Table
    <2>3. \A j \in SettingKey : raw[j] \in Value(j) \cup {None} /\ table'[j] \in Value(j) \cup {None}
      BY <1>1, <1>8, <1>9 DEF Table
    <2> QED BY <2>2, <2>3 DEF Table
  <1>11. Written(table, table')
    <2>1. "master_key" \in SettingKey
      BY KeysAreFew
    <2>2. \A j \in SettingKey : table[j] # None => table'[j] = table[j]
      BY <1>9 DEF Inserted
    <2> QED BY <1>10, <2>1, <2>2 DEF Written
  <1>12. Read(raw, table')
    <2>1. Read(q.raw, table')
      BY <1>1, <1>11, ReadStays DEF TaskFits
    <2>2. Returned(k, v) \in {None, table'[k]}
      BY <1>3, <1>9 DEF Returned, Inserted
    <2>3. "master_key" \in SettingKey
      BY KeysAreFew
    <2>4. \A j \in SettingKey : raw[j] \in {None, q.raw[j], table'[j]}
      BY <1>9, <2>2
    <2>5. raw["master_key"] \in {None, table'["master_key"]}
      BY <2>1, <2>3, <2>4 DEF Read
    <2> QED BY <2>1, <2>4, <2>5 DEF Read
  <1> HIDE DEF raw
  <1>13. r \in TaskRecord
    BY <1>1, <1>7, <1>10 DEF TaskRecord
  <1> HIDE DEF r
  <1>14. TaskFits(r, table', snap, signing)
    <2>1. TaskFits(q, table', snap, signing)
      BY <1>1, <1>11, FitsStays
    <2> QED BY <1>2, <1>5, <1>7, <1>12, <2>1 DEF TaskFits
  <1>15. snap' = snap /\ signing' = signing
    BY <1>4
  <1> QED BY <1>4, <1>5, <1>11, <1>13, <1>14, <1>15, TaskGoes DEF q

LEMMA SelectKeeps ==
    ASSUME SettingsInv, NEW t \in Task, SelectStored(t)
    PROVE  SettingsInv'
  <1> DEFINE q == task[t]
             k == FirstOf(Missing(t))
             raw == [q.raw EXCEPT ![k] = table[k]]
             r == [q EXCEPT !.raw = raw, !.pc = "fill"]
  <1>1. q \in TaskRecord /\ TaskFits(q, table, snap, signing) /\ table \in Table /\ q.raw \in Table
    BY TaskOwns DEF TaskRecord
  <1>2. q.pc = "select" /\ q.p \in Process
    BY <1>1 DEF SelectStored, Stage, TaskFits
  <1>3. task' = [task EXCEPT ![t] = r] /\ UNCHANGED <<table, snap, signing>>
    BY DEF SelectStored
  <1>4. /\ r.pc = "fill" /\ r.raw = raw /\ r.p = q.p /\ r.kind = q.kind /\ r.todo = q.todo
        /\ r.sent = q.sent /\ r.value = q.value
    BY <1>1 DEF TaskRecord
  <1> HIDE DEF q, k
  <1>5. raw \in Table /\ \A j \in SettingKey : raw[j] \in {q.raw[j], table[j]}
    <2>1. \A j \in SettingKey : raw[j] = IF j = k THEN table[j] ELSE q.raw[j]
      BY <1>1 DEF Table
    <2>2. raw \in [SettingKey -> SettingValue]
      BY <1>1, <2>1 DEF Table
    <2> QED BY <1>1, <2>1, <2>2 DEF Table
  <1>6. Read(raw, table)
    <2>1. Read(q.raw, table) /\ "master_key" \in SettingKey
      BY <1>1, KeysAreFew DEF TaskFits
    <2> QED BY <1>5, <2>1 DEF Read
  <1> HIDE DEF raw
  <1>7. r \in TaskRecord
    BY <1>1, <1>5 DEF TaskRecord
  <1> HIDE DEF r
  <1>8. TaskFits(r, table, snap, signing)
    BY <1>1, <1>2, <1>4, <1>6 DEF TaskFits
  <1>9. Written(table, table')
    BY <1>1, <1>3, SameIsWritten
  <1> QED BY <1>3, <1>4, <1>7, <1>8, <1>9, TaskGoes DEF q

LEMMA SnapshotReads ==
    ASSUME NEW raw \in Table, Complete(raw), NEW tab, Read(raw, tab)
    PROVE  /\ Snapshot(raw) \in Table /\ Snapshot(raw) # None
           /\ Read(Snapshot(raw), tab) /\ Complete(Snapshot(raw))
  <1> DEFINE s == Snapshot(raw)
             doc(k) == [raw[k] EXCEPT !.plain = Parsed(raw[k].plain)]
  <1>1. \A k \in SettingKey : s[k] = IF k \in Document THEN doc(k) ELSE raw[k]
    BY DEF Snapshot
  <1>2. ASSUME NEW k \in Document
        PROVE  raw[k] \in StoredDocument /\ doc(k) \in StoredDocument /\ doc(k) # None
    <2>1. k \in SettingKey \ {"oidc.keys"}
      BY KeysAreFew
    <2>2. raw[k] \in Value(k) /\ Value(k) = StoredDocument
      BY <2>1 DEF Table, Complete, Value
    <2>3. Parsed(raw[k].plain) \in Plain \cup {Broken}
      BY <2>2, SettingsAssumption DEF Parsed, StoredDocument
    <2>4. doc(k) \in StoredDocument
      BY <2>2, <2>3 DEF StoredDocument
    <2> QED BY <2>2, <2>4, SettingsAssumption
  <1>3. DOMAIN s = SettingKey
    BY DEF Snapshot
  <1> HIDE DEF doc
  <1>4. \A k \in SettingKey : s[k] \in Value(k) \cup {None} /\ s[k] \in SettingValue
    <2> SUFFICES ASSUME NEW k \in SettingKey PROVE s[k] \in Value(k) \cup {None} /\ s[k] \in SettingValue
      OBVIOUS
    <2>1. CASE k \in Document
      BY <1>1, <1>2, <2>1 DEF Value, SettingValue
    <2>2. CASE k \notin Document
      BY <1>1, <2>2 DEF Table
    <2> QED BY <2>1, <2>2
  <1>5. s \in [SettingKey -> SettingValue]
    BY <1>4 DEF Snapshot
  <1> HIDE DEF s
  <1>6. s \in Table /\ s # None
    BY <1>4, <1>5, SettingsAssumption DEF Table
  <1>7. \A k \in SettingKey : s[k] # None <=> raw[k] # None
    BY <1>1, <1>2, SettingsAssumption
  <1>8. s["master_key"] = raw["master_key"]
    BY <1>1, KeysAreFew
  <1>9. Read(s, tab)
    BY <1>7, <1>8 DEF Read
  <1>10. Complete(s)
    BY <1>7 DEF Complete
  <1> QED BY <1>6, <1>9, <1>10 DEF s

LEMMA PublishKeeps ==
    ASSUME SettingsInv, NEW t \in Task, Publish(t)
    PROVE  SettingsInv'
  <1> DEFINE q == task[t]
             sign == [q EXCEPT !.pc = "sign"]
             next == [q EXCEPT !.pc = "next", !.raw = Empty, !.value = None]
  <1>1. /\ q \in TaskRecord /\ TaskFits(q, table, snap, signing) /\ table \in Table /\ q.raw \in Table
        /\ Read(q.raw, table)
    BY TaskOwns DEF TaskRecord, TaskFits
  <1>2. q.pc = "fill" /\ q.p \in Process
    BY <1>1 DEF Publish, Stage, TaskFits
  <1>3. Complete(q.raw)
    BY DEF Publish, Missing, Complete
  <1>4. PICK s : s = Snapshot(q.raw) /\ s \in Table /\ s # None /\ SnapFits(s, table)
    BY <1>1, <1>3, SnapshotReads DEF SnapFits
  <1>5. PICK p \in Process : p = q.p
    BY <1>2
  <1>6. snap' = [snap EXCEPT ![p] = s] /\ UNCHANGED <<table, signing>>
    BY <1>4, <1>5 DEF Publish
  <1>7. \A o \in Process : /\ snap'[o] = IF o = p THEN s ELSE snap[o]
                           /\ snap[o] # None => snap'[o] # None
    BY <1>4, <1>6 DEF SettingsInv
  <1>8. PICK r \in {sign, next, NoTask} :
           /\ task' = [task EXCEPT ![t] = r]
           /\ \/ q.kind \in Starting /\ r = sign
              \/ q.kind \in Editing /\ r = next
              \/ r = NoTask
    <2>1. q.kind \in Starting \/ q.kind \in Editing \/ q.kind \notin Starting \cup Editing
      OBVIOUS
    <2>2. CASE q.kind \in Starting
      <3>1. task' = [task EXCEPT ![t] = sign]
        BY <2>2 DEF Publish, Starting
      <3> QED BY <2>2, <3>1
    <2>3. CASE q.kind \in Editing
      <3>1. task' = [task EXCEPT ![t] = next]
        BY <2>3 DEF Publish, Editing
      <3> QED BY <2>3, <3>1
    <2>4. CASE q.kind \notin Starting \cup Editing
      <3>1. task' = [task EXCEPT ![t] = NoTask]
        BY <2>4 DEF Publish, Editing, Starting
      <3> QED BY <3>1
    <2> QED BY <2>1, <2>2, <2>3, <2>4
  <1>9. /\ sign.pc = "sign" /\ sign.p = q.p /\ sign.kind = q.kind /\ sign.todo = q.todo
        /\ sign.sent = q.sent /\ sign.value = q.value /\ sign.raw = q.raw
        /\ next.pc = "next" /\ next.p = q.p /\ next.kind = q.kind /\ next.todo = q.todo
        /\ next.sent = q.sent /\ next.value = None /\ next.raw = Empty
    BY <1>1 DEF TaskRecord
  <1>10. sign \in TaskRecord /\ next \in TaskRecord
    <2> HIDE DEF q
    <2>1. None \in SettingValue
      BY DEF SettingValue
    <2>2. sign \in TaskRecord
      BY <1>1 DEF TaskRecord
    <2>3. next \in TaskRecord
      BY <1>1, <2>1, EmptyReads DEF TaskRecord
    <2> QED BY <2>2, <2>3
  <1> HIDE DEF q, sign, next
  <1>11. \A u \in Task : TaskFits(task[u], table, snap', signing)
    <2> SUFFICES ASSUME NEW u \in Task PROVE TaskFits(task[u], table, snap', signing)
      OBVIOUS
    <2>1. TaskFits(task[u], table, snap, signing)
      BY TaskOwns
    <2>2. task[u].pc = "sign" \/ task[u].kind = "sign" => task[u].p \in Process
      BY <2>1 DEF TaskFits, Starting
    <2> QED BY <1>7, <2>1, <2>2 DEF TaskFits
  <1>12. TaskFits(r, table, snap', signing) /\ r \in TaskRecord
    <2>1. CASE q.kind \in Starting /\ r = sign
      <3>1. TaskFits(q, table, snap', signing) /\ snap'[q.p] # None
        BY <1>4, <1>5, <1>7, <1>11 DEF q
      <3> QED BY <1>9, <1>10, <2>1, <1>2, <3>1 DEF TaskFits
    <2>2. CASE q.kind \in Editing /\ r = next
      <3>1. TaskFits(q, table, snap', signing)
        BY <1>11 DEF q
      <3>2. q.kind \notin Starting
        BY <2>2 DEF Editing, Starting
      <3> QED BY <1>2, <1>9, <1>10, <2>2, <3>1, <3>2, EmptyReads DEF TaskFits, Editing, Starting
    <2>3. CASE r = NoTask
      BY <2>3, NoTaskFits
    <2> QED BY <1>8, <2>1, <2>2, <2>3
  <1>13. r.p \in {q.p, None} /\ (r.kind \in Starting => q.kind \in Starting /\ r.p = q.p)
    BY <1>8, <1>9, NoTaskFits DEF Starting
  <1>14. \A u \in Task : task'[u] = IF u = t THEN r ELSE task[u]
    BY <1>8 DEF SettingsInv
  <1>15. task' \in [Task -> TaskRecord] /\ \A u \in Task : TaskFits(task'[u], table, snap', signing)
    BY <1>8, <1>11, <1>12, <1>14 DEF SettingsInv
  <1>16. ASSUME NEW u \in Task, NEW w \in Task, u # w, task'[u].kind \in Starting
         PROVE  task'[w].p # task'[u].p
    <2>1. task[u].kind \in Starting /\ task'[u].p = task[u].p /\ task[u].p \in Process
      <3>1. task[u].kind \in Starting /\ task'[u].p = task[u].p
        BY <1>13, <1>14, <1>16 DEF q
      <3> QED BY <3>1 DEF SettingsInv, TaskFits
    <2>2. task'[w].p \in {task[w].p, None}
      BY <1>13, <1>14 DEF q
    <2>3. task[w].p # task[u].p
      BY <1>16, <2>1 DEF SettingsInv
    <2> QED BY <2>1, <2>2, <2>3, SettingsAssumption
  <1>17. snap' \in [Process -> Table \cup {None}]
    BY <1>4, <1>6 DEF SettingsInv
  <1>18. \A o \in Process : SnapFits(snap'[o], table) /\ (signing[o] # None => snap'[o] # None)
    BY <1>4, <1>7 DEF SettingsInv, Serves, Runs
  <1> QED BY <1>6, <1>15, <1>16, <1>17, <1>18 DEF SettingsInv, Serves, Runs

\* Tasks end, and of one process the snapshot and the signing key change while
\* none of its tasks that go on is its start.
LEMMA TasksLeft ==
    ASSUME SettingsInv, NEW p \in Process, UNCHANGED table,
           snap' \in [Process -> Table \cup {None}], signing' \in [Process -> SettingValue],
           \A o \in Process \ {p} : snap'[o] = snap[o] /\ signing'[o] = signing[o],
           snap'[p] \in {snap[p], None}, signing'[p] # None => snap'[p] # None,
           task' \in [Task -> TaskRecord],
           \A u \in Task : \/ task'[u] = NoTask
                           \/ task'[u] = task[u] /\ (task[u].kind \in Starting => task[u].p # p)
    PROVE  SettingsInv'
  <1>1. \A o \in Process : SnapFits(snap'[o], table) /\ (signing'[o] # None => snap'[o] # None)
    BY DEF SettingsInv, SnapFits, Serves, Runs
  <1>2. ASSUME NEW u \in Task
        PROVE  TaskFits(task'[u], table, snap', signing')
    <2>1. CASE task'[u] = NoTask
      BY <2>1, NoTaskFits
    <2>2. CASE task'[u] = task[u] /\ (task[u].kind \in Starting => task[u].p # p)
      <3>1. TaskFits(task[u], table, snap, signing)
        BY TaskOwns
      <3>2. task[u].pc = "sign" \/ task[u].kind = "sign" => task[u].kind \in Starting
        BY <3>1 DEF TaskFits, Starting
      <3>3. task[u].kind \in Starting => /\ snap'[task[u].p] = snap[task[u].p]
                                         /\ signing'[task[u].p] = signing[task[u].p]
        BY <2>2, <3>1 DEF TaskFits
      <3> QED BY <2>2, <3>1, <3>2, <3>3 DEF TaskFits
    <2> QED BY <2>1, <2>2
  <1>3. ASSUME NEW u \in Task, NEW w \in Task, u # w, task'[u].kind \in Starting
        PROVE  task'[w].p # task'[u].p
    <2>1. task'[u] = task[u] /\ task[u].kind \in Starting /\ task[u].p \in Process
      <3>1. task'[u] # NoTask
        BY <1>3, NoTaskFits DEF Starting
      <3> QED BY <1>3, <3>1 DEF SettingsInv, TaskFits
    <2>2. task[w].p # task[u].p
      BY <1>3, <2>1 DEF SettingsInv
    <2>3. task'[w] = task[w] \/ task'[w].p = None
      BY NoTaskFits
    <2> QED BY <2>1, <2>2, <2>3, SettingsAssumption
  <1> QED BY <1>1, <1>2, <1>3 DEF SettingsInv, Serves, Runs

LEMMA SigningKeeps ==
    ASSUME SettingsInv, NEW t \in Task, SigningKey(t)
    PROVE  SettingsInv'
  <1> DEFINE q == task[t]
             found == q.raw["oidc.keys"]
             r == [q EXCEPT !.pc = "write", !.kind = "sign", !.value = Drawn, !.todo = {"oidc.keys"}]
  <1>1. /\ q \in TaskRecord /\ TaskFits(q, table, snap, signing) /\ table \in Table /\ q.raw \in Table
    BY TaskOwns DEF TaskRecord
  <1>2. q.pc = "sign"
    BY DEF SigningKey, Stage
  <1>3. /\ q.p \in Process /\ q.kind \in Starting /\ signing[q.p] = None /\ snap[q.p] # None
        /\ Read(q.raw, table)
    BY <1>1, <1>2 DEF TaskFits
  <1>4. UNCHANGED <<table, snap>>
    BY DEF SigningKey
  <1>5. CASE task' = [task EXCEPT ![t] = r] /\ UNCHANGED signing
    <2>1. /\ r.pc = "write" /\ r.p = q.p /\ r.kind = "sign" /\ r.todo = {"oidc.keys"}
          /\ r.sent = q.sent /\ r.value = Drawn /\ r.raw = q.raw
      BY <1>1 DEF TaskRecord
    <2>2. r \in TaskRecord
      <3> HIDE DEF q
      <3>1. {"oidc.keys"} \in SUBSET SettingKey /\ Drawn \in SettingValue
        BY KeysAreFew, DrawnIsSecret DEF SettingValue
      <3> QED BY <1>1, <3>1 DEF TaskRecord
    <2> HIDE DEF q, found, r
    <2>3. r.value \in Value(FirstOf(r.todo))
      <3>1. FirstOf({"oidc.keys"}) = "oidc.keys"
        BY FirstIsOne, KeysAreFew
      <3> QED BY <2>1, <3>1, DrawnIsSecret, KeysAreFew DEF Value
    <2>4. TaskFits(r, table, snap, signing)
      <3>1. "master_key" \notin r.todo /\ r.todo # {}
        BY <2>1
      <3>2. r.kind \notin Editing /\ r.kind \in Starting
        BY <2>1 DEF Editing, Starting
      <3> QED BY <1>3, <2>1, <2>3, <3>1, <3>2 DEF TaskFits
    <2>5. Written(table, table')
      BY <1>1, <1>4, SameIsWritten
    <2>6. table' = table /\ snap' = snap /\ signing' = signing
      BY <1>4, <1>5
    <2> QED BY <1>3, <1>5, <2>1, <2>2, <2>4, <2>5, <2>6, TaskGoes DEF q
  <1>6. CASE /\ signing' = [signing EXCEPT ![q.p] = IF q.kind = "sign" THEN q.value ELSE found]
             /\ q.kind = "sign" \/ found # None
             /\ task' = [task EXCEPT ![t] = NoTask]
    <2> DEFINE key == IF q.kind = "sign" THEN q.value ELSE found
    <2>1. key \in SettingValue
      <3>1. found \in SettingValue
        BY <1>1, KeysAreFew DEF Table
      <3>2. q.value \in SettingValue
        BY <1>1 DEF TaskRecord
      <3> QED BY <3>1, <3>2
    <2> HIDE DEF key
    <2>2. signing' = [signing EXCEPT ![q.p] = key]
      BY <1>6 DEF key
    <2>3. PICK p \in Process : p = q.p
      BY <1>3
    <2>4. signing' \in [Process -> SettingValue] /\ \A o \in Process \ {p} : signing'[o] = signing[o]
      BY <2>1, <2>2, <2>3 DEF SettingsInv
    <2>5. task' \in [Task -> TaskRecord]
      BY <1>6, NoTaskFits DEF SettingsInv
    <2>6. \A u \in Task : \/ task'[u] = NoTask
                          \/ task'[u] = task[u] /\ (task[u].kind \in Starting => task[u].p # p)
      BY <1>3, <1>6, <2>3 DEF SettingsInv
    <2>7. snap'[p] = snap[p] /\ snap'[p] # None /\ snap' = snap /\ table' = table
      BY <1>3, <1>4, <2>3
    <2>8. snap' \in [Process -> Table \cup {None}]
      BY <2>7 DEF SettingsInv
    <2> QED BY <2>4, <2>5, <2>6, <2>7, <2>8, TasksLeft
  <1> QED BY <1>5, <1>6 DEF SigningKey

LEMMA TaskFailKeeps ==
    ASSUME SettingsInv, NEW t \in Task, TaskFails(t)
    PROVE  SettingsInv'
  <1>1. task' = [task EXCEPT ![t] = NoTask] /\ UNCHANGED <<table, signing>>
    BY DEF TaskFails
  <1>2. CASE task[t].kind \notin Starting
    <2>1. snap' = snap
      BY <1>2 DEF TaskFails, Starting
    <2> QED BY <1>1, <2>1, TaskEnds
  <1>3. CASE task[t].kind \in Starting
    <2>1. TaskFits(task[t], table, snap, signing)
      BY TaskOwns
    <2>2. PICK p \in Process : p = task[t].p /\ signing[p] = None
      BY <1>3, <2>1 DEF TaskFits
    <2>3. snap' = [snap EXCEPT ![p] = None]
      BY <1>3, <2>2 DEF TaskFails, Starting
    <2>4. /\ snap' \in [Process -> Table \cup {None}] /\ snap'[p] = None
          /\ \A o \in Process \ {p} : snap'[o] = snap[o]
      BY <2>3 DEF SettingsInv
    <2>5. signing' = signing /\ signing' \in [Process -> SettingValue] /\ table' = table
      BY <1>1 DEF SettingsInv
    <2>6. task' \in [Task -> TaskRecord]
      BY <1>1, NoTaskFits DEF SettingsInv
    <2>7. \A u \in Task : \/ task'[u] = NoTask
                          \/ task'[u] = task[u] /\ (task[u].kind \in Starting => task[u].p # p)
      BY <1>1, <1>3, <2>2 DEF SettingsInv
    <2> QED BY <2>2, <2>4, <2>5, <2>6, <2>7, TasksLeft
  <1> QED BY <1>2, <1>3

LEMMA ProcessDeathKeeps ==
    ASSUME SettingsInv, NEW p \in Process, ProcessDies(p)
    PROVE  SettingsInv'
  <1>1. /\ table' = table /\ snap' = [snap EXCEPT ![p] = None] /\ signing' = [signing EXCEPT ![p] = None]
        /\ task' = [t \in Task |-> IF task[t].p = p THEN NoTask ELSE task[t]]
    BY DEF ProcessDies
  <1>2. /\ snap' \in [Process -> Table \cup {None}] /\ snap'[p] = None
        /\ \A o \in Process \ {p} : snap'[o] = snap[o]
    BY <1>1 DEF SettingsInv
  <1>3. None \in SettingValue
    BY DEF SettingValue
  <1>4. /\ signing' \in [Process -> SettingValue] /\ signing'[p] = None
        /\ \A o \in Process \ {p} : signing'[o] = signing[o]
    BY <1>1, <1>3 DEF SettingsInv
  <1>5. task' \in [Task -> TaskRecord]
    BY <1>1, NoTaskFits DEF SettingsInv
  <1>6. \A u \in Task : \/ task'[u] = NoTask
                        \/ task'[u] = task[u] /\ (task[u].kind \in Starting => task[u].p # p)
    BY <1>1
  <1> QED BY <1>1, <1>2, <1>4, <1>5, <1>6, TasksLeft

LEMMA SettingsInvStarts == SettingsInit => SettingsInv
  <1> SUFFICES ASSUME SettingsInit PROVE SettingsInv
    OBVIOUS
  <1>1. table = Empty /\ snap = [p \in Process |-> None] /\ signing = [p \in Process |-> None]
        /\ task = [t \in Task |-> NoTask]
    BY DEF SettingsInit
  <1>2. None \in SettingValue
    BY DEF SettingValue
  <1>3. NoTask.kind \notin Starting
    BY NoTaskFits DEF Starting
  <1> QED BY <1>1, <1>2, <1>3, NoTaskFits, EmptyReads DEF SettingsInv, SnapFits, Serves, Runs

LEMMA SettingsInvKept == SettingsInv /\ [SettingsNext]_<<now, setVars>> => SettingsInv'
  <1> SUFFICES ASSUME SettingsInv, [SettingsNext]_<<now, setVars>> PROVE SettingsInv'
    OBVIOUS
  <1>1. CASE UNCHANGED <<now, setVars>>
    BY <1>1 DEF setVars, SettingsInv, Serves, Runs
  <1>2. ASSUME NEW t \in Task, NEW p \in Process,
               \/ StartProcess(t, p) \/ ReloadSignal(t, p) \/ Regenerate(t, p)
               \/ \E plain \in Plain : SaveSupport(t, p, plain)
               \/ PutSettings(t, p) \/ ImportSettings(t, p)
        PROVE  SettingsInv'
    BY <1>2, TasksBegin
  <1>3. ASSUME NEW t \in Task,
               \/ MergeValue(t) \/ EditEnds(t) \/ Put(t) \/ ReadAll(t) \/ FillMissing(t)
               \/ SelectStored(t) \/ Publish(t) \/ SigningKey(t) \/ TaskFails(t)
        PROVE  SettingsInv'
    BY <1>3, MergeKeeps, EditEndKeeps, PutKeeps, ReadKeeps, FillKeeps, SelectKeeps, PublishKeeps,
       SigningKeeps, TaskFailKeeps
  <1>4. ASSUME NEW p \in Process, ProcessDies(p)
        PROVE  SettingsInv'
    BY <1>4, ProcessDeathKeeps
  <1> QED BY <1>1, <1>2, <1>3, <1>4 DEF SettingsNext

LEMMA SettingsInvSaves == SettingsInv => SecretsKept
  <1> SUFFICES ASSUME SettingsInv PROVE SecretsKept
    OBVIOUS
  <1>1. "master_key" \in SettingKey /\ "master_key" # "oidc.keys" /\ "master_key" \notin Document
    BY KeysAreFew
  <1>2. ASSUME NEW p \in Process, Runs(p)
        PROVE  snap[p]["master_key"] \in Secret /\ snap[p]["master_key"] = table["master_key"]
    <2>1. snap[p] \in Table /\ Complete(snap[p]) /\ Read(snap[p], table)
      BY <1>2 DEF SettingsInv, SnapFits, Runs
    <2>2. snap[p]["master_key"] \in Secret
      BY <1>1, <2>1 DEF Complete, Table, Value
    <2> QED BY <1>1, <2>1, <2>2 DEF Complete, Read
  <1>3. ASSUME NEW k \in SettingKey
        PROVE  /\ table[k] # Mask
               /\ k \in Document /\ table[k] # None => Mask \notin {table[k].plain, table[k].secret}
    <2>1. table[k] \in Value(k) \cup {None}
      BY DEF SettingsInv, Table
    <2>2. table[k] # Mask
      BY <2>1, SettingsAssumption DEF Value
    <2>3. k \in Document /\ table[k] # None => Mask \notin {table[k].plain, table[k].secret}
      BY <2>1, SettingsAssumption DEF Value, StoredDocument
    <2> QED BY <2>2, <2>3
  <1> QED BY <1>2, <1>3 DEF SecretsKept

\* M.Load and its inserts, the editors and the import of another server's
\* settings: for any number of processes and edits in any order, with failures
\* between two rows, every running process has the master_key of the table, and
\* no mask is ever stored for a value.
THEOREM SecretsStayKept == SettingsSpec => []SecretsKept
  BY SettingsInvStarts, SettingsInvKept, SettingsInvSaves, PTL DEF SettingsSpec
-----------------------------------------------------------------------------
(* Firewall.  The lists that a request is judged by are a version that was *)
(* read after its floor was set, or one that a cache younger than ListTTL  *)
(* holds, and such a cache was read after every version that is older than *)
(* it and after every Invalidate.  The row of a ban counts what the last   *)
(* MaxFail failures tell.                                                  *)

FirewallSpec == FirewallInit /\ [][FirewallNext]_<<now, fwVars>>

VisitRecord ==
    [pc: {"idle", "load", "query", "store", "look", "ban", "in", "refused", "count"},
     a: Address \cup {None}, client: Address \cup {None}, goal: {"verdict", "deny", "allow"},
     read: SUBSET Entry, floor: Nat, blind: BOOLEAN]
ListVersion == [rows: SUBSET Entry, at: Nat]
BanRow == [fails: Nat, at: Nat, until: Nat]

FirewallTypeOK ==
    /\ now \in Nat
    /\ tables \in Seq(ListVersion)
    /\ invalidated \in DOMAIN tables
    /\ \A i \in DOMAIN tables : tables[i].at <= now
    /\ cache \in [rows: SUBSET Entry, loaded: Nat \cup {None}]
    /\ visit \in [Visit -> VisitRecord]
    /\ edit \in [Curator -> Nat \cup {None}]
    /\ \A k \in Curator : edit[k] # None => edit[k] \in DOMAIN tables

\* loadIfStale holds the mutex from the test to the store.
OneLoads == \A v \in Visit : visit[v].pc \in {"query", "store"} => mutex = v

\* A request is judged for the address its client has; its floor had been
\* invalidated when it came, or was then ListTTL old.
Arrived(r, versions, last, t) ==
    r.pc # "idle" =>
      /\ r.client \in Address /\ r.a = r.client
      /\ r.floor \in DOMAIN versions
      /\ r.floor <= last \/ versions[r.floor].at + ListTTL <= t

\* A request with lists that were read in time, and what they are.
Looks(r) == r.pc = "look" /\ ~r.blind
Sees(r, rows, versions) ==
    Looks(r) => \E c \in DOMAIN versions : r.floor <= c /\ rows = versions[c].rows

\* Lists read at the moment t: nothing that was committed before is missing,
\* nor what was invalidated or what a request that looks must see.
ReadAt(rows, t, versions, last, requests) ==
    \E c \in DOMAIN versions :
        /\ rows = versions[c].rows
        /\ last <= c
        /\ \A i \in DOMAIN versions : versions[i].at < t => i <= c
        /\ \A v \in Visit : Looks(requests[v]) => requests[v].floor <= c

ListsFit ==
    /\ cache.loaded # None =>
           cache.loaded <= now /\ ReadAt(cache.rows, cache.loaded, tables, invalidated, visit)
    /\ \A v \in Visit : visit[v].pc = "store" => ReadAt(visit[v].read, now, tables, invalidated, visit)
    /\ \A v \in Visit : Sees(visit[v], cache.rows, tables)

\* Failures counted back from the last one, and the time before each.
Back(times, j) == times[Len(times) - j]
Gap(times, j) == Back(times, j - 1) - Back(times, j)

\* The last k failures came in a row, and the one before them did not.
RunOf(times, k) ==
    /\ k >= 1 /\ k <= Len(times)
    /\ \A j \in 1 .. k - 1 : Gap(times, j) < BanWindow
    /\ k < Len(times) => Gap(times, k) >= BanWindow

Counts(k, times) == IF k >= MaxFail THEN InARow(times) ELSE RunOf(times, k)

\* The row of an address, its last failures and when they were MaxFail in a row.
BanFits(row, times, trip, t) ==
    IF times = <<>> THEN row = None /\ trip = None
    ELSE /\ row \in BanRow
         /\ Len(times) <= MaxFail
         /\ row.at = times[Len(times)]
         /\ Counts(row.fails, times)
         /\ IF trip = None THEN row.until <= t ELSE row.until = trip + BanTime

BansFit ==
    /\ bans \in [Address -> BanRow \cup {None}]
    /\ failed \in [Address -> Seq(Nat)]
    /\ tripped \in [Address -> Nat \cup {None}]
    /\ \A a \in Address : BanFits(bans[a], failed[a], tripped[a], now)

FirewallInv ==
    /\ FirewallTypeOK
    /\ OneLoads
    /\ \A v \in Visit : Arrived(visit[v], tables, invalidated, now)
    /\ ListsFit
    /\ BansFit

LEMMA FirewallConstants ==
    /\ ListTTL \in Nat /\ ListTTL >= 1 /\ BanWindow \in Nat /\ BanWindow >= 1
    /\ BanTime \in Nat /\ BanTime >= 1 /\ MaxFail \in Nat /\ MaxFail >= 2
    /\ None \notin Visit /\ None \notin Address /\ None \notin BanRow /\ None \notin Int
    /\ Trusted \subseteq Address
  BY FirewallAssumption, ClockAssumption DEF BanRow

\* RealIPFrom: whatever the header of the client says, and whether it comes
\* straight or by a trusted proxy that added its address, the address judged
\* is the client's.
LEMMA RealIPIsClient ==
    ASSUME NEW guest \in Address \ Trusted, NEW header \in Header, NEW proxy \in Trusted \cup {None}
    PROVE  guest = IF proxy = None THEN RealIP(guest, header)
                                    ELSE RealIP(proxy, Append(header, guest))
  <1>1. CASE proxy = None
    BY <1>1 DEF RealIP
  <1>2. CASE proxy # None
    <2> DEFINE chain == Append(header, guest)
               last == Len(header) + 1
               valid == {i \in DOMAIN chain : chain[i] # None}
               far == {i \in valid : chain[i] \notin Trusted}
    <2>1. /\ header \in Seq(Address \cup {None}) /\ guest # None
          /\ proxy \in Trusted
      BY <1>2, FirewallAssumption
    <2>2. /\ DOMAIN chain = 1 .. last /\ chain[last] = guest /\ last \in Nat
      BY <2>1
    <2>3. last \in far /\ far \subseteq 1 .. last /\ last \in valid
      BY <2>1, <2>2
    <2>4. (CHOOSE i \in far : \A j \in far : j <= i) = last
      <3>1. \A j \in far : j <= last
        BY <2>2, <2>3
      <3>2. \A i \in far : (\A j \in far : j <= i) => i = last
        BY <2>2, <2>3
      <3> HIDE DEF far
      <3> QED BY <2>3, <3>1, <3>2
    <2>5. RealIP(proxy, chain) = chain[CHOOSE i \in far : \A j \in far : j <= i]
      <3>1. valid # {} /\ far # {}
        BY <2>3
      <3> QED BY <2>1, <3>1 DEF RealIP
    <2> QED BY <1>2, <2>2, <2>4, <2>5
  <1> QED BY <1>1, <1>2

\* A set of numbers with a bound has a highest one: otherwise adding one would
\* map those at or below a member into themselves, and never to 0.
LEMMA BoundedHasHighest ==
    ASSUME NEW m \in Nat, NEW T \in SUBSET (0 .. m), T # {}
    PROVE  \E t \in T : \A u \in T : u <= t
  <1> SUFFICES ASSUME \A t \in T : \E u \in T : u > t
               PROVE  FALSE
    OBVIOUS
  <1> DEFINE G == {n \in 0 .. m : \E t \in T : n <= t}
             f == [n \in G |-> n + 1]
  <1>1. IsFiniteSet(G) /\ Cardinality(G) \in Nat
    <2>1. IsFiniteSet(0 .. m) /\ G \in SUBSET (0 .. m)
      BY FS_Interval
    <2> QED BY <2>1, FS_Subset, FS_CardinalityType
  <1>2. 0 \in G
    <2>1. PICK t \in T : TRUE
      OBVIOUS
    <2>2. t \in Nat /\ 0 <= t
      OBVIOUS
    <2> QED BY <2>2
  <1>3. \A n \in G : n \in Nat /\ n + 1 \in G \ {0}
    OBVIOUS
  <1>4. Cardinality(G \ {0}) = Cardinality(G) - 1 /\ IsFiniteSet(G \ {0})
    BY <1>1, <1>2, FS_RemoveElement
  <1> HIDE DEF G
  <1>5. f \in [G -> G \ {0}] /\ \A a, b \in G : f[a] = f[b] => a = b
    BY <1>3
  <1>6. f \in Injection(G, G \ {0})
    BY <1>5 DEF Injection, IsInjective
  <1> QED BY <1>1, <1>4, <1>6, FS_Injection

LEMMA FloorIsThere ==
    ASSUME FirewallTypeOK
    PROVE  /\ Floor \in DOMAIN tables
           /\ Floor <= invalidated \/ tables[Floor].at + ListTTL <= now
  <1> DEFINE aged == {i \in DOMAIN tables : tables[i].at + ListTTL <= now}
             T == {invalidated} \cup aged
             IsFloor(i) == /\ i = invalidated \/ (i > invalidated /\ tables[i].at + ListTTL <= now)
                           /\ \A j \in DOMAIN tables : tables[j].at + ListTTL <= now => j <= i
  <1>1. DOMAIN tables = 1 .. Len(tables) /\ Len(tables) \in Nat /\ invalidated \in DOMAIN tables
    BY DEF FirewallTypeOK
  <1>2. T \subseteq DOMAIN tables /\ T \in SUBSET (0 .. Len(tables)) /\ T # {}
    BY <1>1
  <1>3. PICK t \in T : \A u \in T : u <= t
    BY <1>1, <1>2, BoundedHasHighest
  <1>4. t \in DOMAIN tables /\ IsFloor(t)
    <2>1. t \in Nat /\ invalidated \in Nat /\ invalidated <= t
      BY <1>1, <1>2, <1>3
    <2>2. t = invalidated \/ (t > invalidated /\ tables[t].at + ListTTL <= now)
      BY <1>3, <2>1
    <2> QED BY <1>2, <1>3, <2>2
  <1>5. Floor = CHOOSE i \in DOMAIN tables : IsFloor(i)
    BY DEF Floor
  <1> HIDE DEF Is
  <1>6. Floor \in DOMAIN tables /\ IsFloor(Floor)
    BY <1>4, <1>5
  <1>7. Floor \in Nat /\ invalidated \in Nat
    BY <1>1, <1>6
  <1> QED BY <1>6, <1>7 DEF Is

\* Lists that were read stay so while the versions only grow by one that comes
\* no earlier and no other request looks.
LEMMA ReadAtStays ==
    ASSUME NEW rows, NEW t \in Nat, NEW versions \in Seq(ListVersion), NEW last, NEW requests, NEW next,
           ReadAt(rows, t, versions, last, requests),
           NEW grown \in Seq(ListVersion),
           grown = versions \/ \E e \in ListVersion : e.at >= t /\ grown = Append(versions, e),
           \A v \in Visit : Looks(next[v]) => Looks(requests[v]) /\ next[v].floor = requests[v].floor
    PROVE  ReadAt(rows, t, grown, last, next)
  <1>1. PICK c \in DOMAIN versions :
            /\ rows = versions[c].rows
            /\ last <= c
            /\ \A i \in DOMAIN versions : versions[i].at < t => i <= c
            /\ \A v \in Visit : Looks(requests[v]) => requests[v].floor <= c
    BY DEF ReadAt
  <1>2. /\ c \in DOMAIN grown /\ grown[c] = versions[c]
        /\ \A i \in DOMAIN grown : grown[i].at < t => i <= c
    <2>1. CASE grown = versions
      BY <1>1, <2>1
    <2>2. CASE grown # versions
      <3>1. PICK e \in ListVersion : e.at >= t /\ grown = Append(versions, e)
        BY <2>2
      <3>2. /\ DOMAIN versions = 1 .. Len(versions) /\ Len(versions) \in Nat
            /\ DOMAIN grown = 1 .. Len(versions) + 1
            /\ \A i \in DOMAIN versions : grown[i] = versions[i]
            /\ grown[Len(versions) + 1] = e
        BY <3>1
      <3>3. e.at \in Nat /\ ~(e.at < t)
        BY <3>1 DEF ListVersion
      <3> QED BY <1>1, <3>2, <3>3
    <2> QED BY <2>1, <2>2
  <1>3. \A v \in Visit : Looks(next[v]) => next[v].floor <= c
    BY <1>1
  <1> QED BY <1>1, <1>2, <1>3 DEF ReadAt

\* Lists that were read show a request what it came for, unless they are as
\* old as its floor was when it came.
LEMMA ReadAtShows ==
    ASSUME NEW rows, NEW t \in Nat, NEW s \in Nat, NEW versions \in Seq(ListVersion),
           NEW last \in DOMAIN versions, NEW requests, NEW r \in VisitRecord,
           ReadAt(rows, t, versions, last, requests),
           r.pc # "idle", Arrived(r, versions, last, s), s < t + ListTTL,
           NEW next, \A v \in Visit : Looks(next[v]) => \/ Looks(requests[v]) /\ next[v].floor = requests[v].floor
                                                        \/ next[v].floor = r.floor
    PROVE  /\ ReadAt(rows, t, versions, last, next)
           /\ \E c \in DOMAIN versions : r.floor <= c /\ rows = versions[c].rows
  <1>1. PICK c \in DOMAIN versions :
            /\ rows = versions[c].rows
            /\ last <= c
            /\ \A i \in DOMAIN versions : versions[i].at < t => i <= c
            /\ \A v \in Visit : Looks(requests[v]) => requests[v].floor <= c
    BY DEF ReadAt
  <1>2. r.floor <= c
    <2>1. /\ r.floor \in DOMAIN versions
          /\ r.floor <= last \/ versions[r.floor].at + ListTTL <= s
      BY DEF Arrived
    <2>2. versions[r.floor] \in ListVersion /\ r.floor \in Nat /\ last \in Nat /\ c \in Nat
      BY <2>1
    <2>3. versions[r.floor].at \in Nat /\ ListTTL \in Nat
      BY <2>2, FirewallConstants DEF ListVersion
    <2>4. CASE versions[r.floor].at + ListTTL <= s
      BY <1>1, <2>1, <2>2, <2>3, <2>4
    <2>5. CASE r.floor <= last
      BY <1>1, <2>2, <2>5
    <2> QED BY <2>1, <2>4, <2>5
  <1>3. \A v \in Visit : Looks(next[v]) => next[v].floor <= c
    BY <1>1, <1>2
  <1> QED BY <1>1, <1>2, <1>3 DEF ReadAt

\* A request goes on as r and leaves the lists alone.
LEMMA VisitMoves ==
    ASSUME FirewallInv, NEW v \in Visit, NEW r \in VisitRecord, visit' = [visit EXCEPT ![v] = r],
           UNCHANGED <<now, tables, cache, edit, invalidated>>, BansFit',
           Arrived(r, tables, invalidated, now),
           mutex' # mutex => mutex \in {None, v},
           r.pc \in {"query", "store"} => mutex' = v,
           r.pc = "store" => ReadAt(r.read, now, tables, invalidated, visit),
           Looks(r) => Looks(visit[v]) /\ r.floor = visit[v].floor
    PROVE  FirewallInv'
  <1>1. /\ visit \in [Visit -> VisitRecord] /\ now \in Nat /\ tables \in Seq(ListVersion)
        /\ cache.loaded \in Nat \cup {None}
    BY DEF FirewallInv, FirewallTypeOK
  <1>2. \A w \in Visit : visit'[w] = IF w = v THEN r ELSE visit[w]
    BY <1>1
  <1>3. FirewallTypeOK'
    BY <1>1 DEF FirewallInv, FirewallTypeOK
  <1>4. OneLoads'
    BY <1>2, FirewallConstants DEF FirewallInv, OneLoads
  <1>5. \A w \in Visit : Arrived(visit'[w], tables, invalidated, now)
    BY <1>2 DEF FirewallInv
  <1>6. \A w \in Visit : Looks(visit'[w]) => Looks(visit[w]) /\ visit'[w].floor = visit[w].floor
    BY <1>2
  <1>7. \A w \in Visit : Sees(visit'[w], cache.rows, tables)
    BY <1>6 DEF FirewallInv, ListsFit, Sees
  <1>8. cache.loaded # None =>
            cache.loaded <= now /\ ReadAt(cache.rows, cache.loaded, tables, invalidated, visit')
    BY <1>1, <1>6, ReadAtStays DEF FirewallInv, ListsFit
  <1>9. \A w \in Visit : visit'[w].pc = "store" => ReadAt(visit'[w].read, now, tables, invalidated, visit')
    <2> SUFFICES ASSUME NEW w \in Visit, visit'[w].pc = "store"
                 PROVE  ReadAt(visit'[w].read, now, tables, invalidated, visit')
      OBVIOUS
    <2>1. ReadAt(visit'[w].read, now, tables, invalidated, visit)
      BY <1>2 DEF FirewallInv, ListsFit
    <2> QED BY <1>1, <1>6, <2>1, ReadAtStays
  <1>10. ListsFit'
    BY <1>7, <1>8, <1>9 DEF ListsFit
  <1> QED BY <1>3, <1>4, <1>5, <1>10 DEF FirewallInv

\* A request goes on as r and has the lists it came for: from the cache, or
\* from what it has read.
LEMMA VisitLooks ==
    ASSUME FirewallInv, NEW v \in Visit, NEW r \in VisitRecord, visit' = [visit EXCEPT ![v] = r],
           UNCHANGED <<now, tables, edit, invalidated>>, BansFit',
           Arrived(r, tables, invalidated, now), r.pc = "look",
           cache' \in [rows: SUBSET Entry, loaded: Nat],
           cache'.loaded <= now, now < cache'.loaded + ListTTL,
           ReadAt(cache'.rows, cache'.loaded, tables, invalidated, visit),
           \A w \in Visit \ {v} : visit[w].pc \notin {"query", "store"}
    PROVE  FirewallInv'
  <1>1. /\ visit \in [Visit -> VisitRecord] /\ now \in Nat /\ tables \in Seq(ListVersion)
        /\ invalidated \in DOMAIN tables /\ cache'.loaded \in Nat
    BY DEF FirewallInv, FirewallTypeOK
  <1>2. \A w \in Visit : visit'[w] = IF w = v THEN r ELSE visit[w]
    BY <1>1
  <1>3. FirewallTypeOK'
    BY <1>1 DEF FirewallInv, FirewallTypeOK
  <1>4. OneLoads' /\ \A w \in Visit : visit'[w].pc \notin {"query", "store"}
    BY <1>2 DEF OneLoads
  <1>5. \A w \in Visit : Arrived(visit'[w], tables, invalidated, now)
    BY <1>2 DEF FirewallInv
  <1>6. \A w \in Visit : Looks(visit'[w]) => \/ Looks(visit[w]) /\ visit'[w].floor = visit[w].floor
                                             \/ visit'[w].floor = r.floor
    BY <1>2
  <1>7. /\ ReadAt(cache'.rows, cache'.loaded, tables, invalidated, visit')
        /\ \E c \in DOMAIN tables : r.floor <= c /\ cache'.rows = tables[c].rows
    <2> DEFINE t == cache'.loaded
               rows == cache'.rows
               next == visit'
    <2>1. /\ r.pc # "idle" /\ t \in Nat /\ now < t + ListTTL
          /\ ReadAt(rows, t, tables, invalidated, visit)
          /\ \A w \in Visit : Looks(next[w]) => \/ Looks(visit[w]) /\ next[w].floor = visit[w].floor
                                               \/ next[w].floor = r.floor
      BY <1>1, <1>6
    <2> HIDE DEF t, rows, next
    <2>2. /\ ReadAt(rows, t, tables, invalidated, next)
          /\ \E c \in DOMAIN tables : r.floor <= c /\ rows = tables[c].rows
      BY <1>1, <2>1, ReadAtShows
    <2> QED BY <2>2 DEF t, rows, next
  <1>8. \A w \in Visit : Sees(visit'[w], cache'.rows, tables)
    BY <1>7 DEF Sees, ReadAt
  <1>9. ListsFit'
    BY <1>4, <1>7, <1>8 DEF ListsFit
  <1> QED BY <1>3, <1>4, <1>5, <1>9 DEF FirewallInv

\* MaxFail in a row, counted back.
LEMMA InARowBack ==
    ASSUME NEW times \in Seq(Nat)
    PROVE  InARow(times) <=> /\ Len(times) = MaxFail
                             /\ \A j \in 1 .. MaxFail - 1 : Gap(times, j) < BanWindow
  <1> DEFINE Before(i) == times[i + 1] - times[i] < BanWindow
  <1>1. MaxFail \in Nat /\ MaxFail >= 2
    BY FirewallConstants
  <1> SUFFICES ASSUME Len(times) = MaxFail
               PROVE  (\A i \in 1 .. MaxFail - 1 : Before(i))
                        <=> \A j \in 1 .. MaxFail - 1 : Gap(times, j) < BanWindow
    BY DEF InARow
  <1>2. \A j \in 1 .. MaxFail - 1 :
            MaxFail - j \in 1 .. MaxFail - 1 /\ MaxFail - (MaxFail - j) = j
    BY <1>1
  <1>3. \A j \in 1 .. MaxFail - 1 : Gap(times, j) < BanWindow <=> Before(MaxFail - j)
    <2> SUFFICES ASSUME NEW j \in 1 .. MaxFail - 1
                 PROVE  Gap(times, j) = times[MaxFail - j + 1] - times[MaxFail - j]
      OBVIOUS
    <2>1. Len(times) - (j - 1) = MaxFail - j + 1
      BY <1>1
    <2> QED BY <2>1 DEF Gap, Back
  <1> HIDE DEF Before
  <1> QED BY <1>2, <1>3

\* The failure just counted is the last, the others move back by one.
LEMMA LatestMovesBack ==
    ASSUME NEW times \in Seq(Nat), NEW n \in Nat, n = Len(times), n >= 1, n <= MaxFail, NEW t \in Nat,
           NEW next, next = Latest(Append(times, t))
    PROVE  /\ next \in Seq(Nat)
           /\ Len(next) = IF n < MaxFail THEN n + 1 ELSE n
           /\ Back(next, 0) = t
           /\ \A j \in 1 .. Len(next) - 1 : Back(next, j) = Back(times, j - 1)
  <1> DEFINE all == Append(times, t)
  <1>1. MaxFail \in Nat /\ MaxFail >= 2
    BY FirewallConstants
  <1>2. /\ all \in Seq(Nat) /\ Len(all) = n + 1 /\ all[n + 1] = t
        /\ \A i \in 1 .. n : all[i] = times[i]
    OBVIOUS
  <1> HIDE DEF all
  <1>3. CASE n = MaxFail
    <2>1. next = Tail(all)
      BY <1>1, <1>2, <1>3 DEF Latest, all
    <2>2. /\ next \in Seq(Nat) /\ Len(next) = n
          /\ \A i \in 1 .. n : next[i] = all[i + 1]
      BY <1>2, <2>1
    <2>3. next[n] = t /\ n - 0 = n
      BY <1>2, <2>2
    <2>4. ASSUME NEW j \in 1 .. n - 1
          PROVE  next[n - j] = times[n - (j - 1)]
      <3>1. n - j \in 1 .. n /\ n - j + 1 \in 1 .. n /\ n - j + 1 = n - (j - 1)
        OBVIOUS
      <3> QED BY <1>2, <2>2, <3>1
    <2> QED BY <1>1, <1>3, <2>2, <2>3, <2>4 DEF Back
  <1>4. CASE n < MaxFail
    <2>1. next = all
      BY <1>1, <1>2, <1>4 DEF Latest, all
    <2>2. n + 1 - 0 = n + 1
      OBVIOUS
    <2>3. ASSUME NEW j \in 1 .. n
          PROVE  next[n + 1 - j] = times[n - (j - 1)]
      <3>1. n + 1 - j \in 1 .. n /\ n + 1 - j = n - (j - 1)
        OBVIOUS
      <3> QED BY <1>2, <2>1, <3>1
    <2> QED BY <1>2, <1>4, <2>1, <2>2, <2>3 DEF Back
  <1> QED BY <1>1, <1>3, <1>4

\* One more failure: the run grows, or starts anew.
LEMMA RunGrows ==
    ASSUME NEW times \in Seq(Nat), NEW n \in Nat, n = Len(times), n >= 1, n <= MaxFail, NEW t \in Nat,
           NEW k \in Nat, Counts(k, times), NEW next, next = Latest(Append(times, t)),
           NEW k2 \in Nat, k2 = IF t - times[n] < BanWindow THEN k + 1 ELSE 1
    PROVE  /\ next \in Seq(Nat) /\ next # <<>> /\ Len(next) <= MaxFail
           /\ next[Len(next)] = t
           /\ Counts(k2, next)
           /\ InARow(next) <=> k2 >= MaxFail
  <1> DEFINE m == Len(next)
             gap == t - times[n]
  <1>1. /\ MaxFail \in Nat /\ MaxFail >= 2 /\ BanWindow \in Nat
        /\ next \in Seq(Nat) /\ m = IF n < MaxFail THEN n + 1 ELSE n
        /\ Back(next, 0) = t
        /\ \A j \in 1 .. m - 1 : Back(next, j) = Back(times, j - 1)
    BY FirewallConstants, LatestMovesBack
  <1>2. Back(times, 0) = times[n] /\ Back(next, 0) = next[m]
    <2>1. n - 0 = n /\ m - 0 = m /\ m \in Nat
      BY <1>1
    <2> QED BY <2>1 DEF Back
  <1>3. m \in Nat /\ m >= 2 /\ m <= MaxFail
    BY <1>1
  <1>4. Gap(next, 1) = gap
    <2>1. Back(next, 1) = Back(times, 0)
      BY <1>1, <1>3
    <2> QED BY <1>1, <1>2, <2>1 DEF Gap
  <1>5. \A j \in 2 .. m - 1 : Gap(next, j) = Gap(times, j - 1)
    <2> SUFFICES ASSUME NEW j \in 2 .. m - 1 PROVE Gap(next, j) = Gap(times, j - 1)
      OBVIOUS
    <2>1. j \in 1 .. m - 1 /\ j - 1 \in 1 .. m - 1
      BY <1>3
    <2> QED BY <1>1, <2>1 DEF Gap
  <1>6. \A j \in 1 .. m - 1 : Gap(next, j) \in Int
    <2> SUFFICES ASSUME NEW j \in 1 .. m - 1 PROVE Gap(next, j) \in Int
      OBVIOUS
    <2>1. m - j \in 1 .. m /\ m - (j - 1) \in 1 .. m
      BY <1>3
    <2>2. \A i \in 1 .. m : next[i] \in Nat
      BY <1>1
    <2> HIDE DEF m
    <2>3. next[m - j] \in Nat /\ next[m - (j - 1)] \in Nat
      BY <2>1, <2>2
    <2> QED BY <2>3 DEF m, Gap, Back
  <1>7. gap \in Int
    BY <1>3, <1>4, <1>6
  <1> HIDE DEF gap
  <1>8. k2 = IF gap < BanWindow THEN k + 1 ELSE 1
    BY DEF gap
  <1>9. k >= MaxFail - 1 =>
            /\ n >= MaxFail - 1
            /\ \A j \in 1 .. MaxFail - 2 : Gap(times, j) < BanWindow
    BY <1>1, InARowBack DEF Counts, RunOf
  <1>10. k < MaxFail => RunOf(times, k)
    BY <1>1 DEF Counts
  <1> HIDE DEF m
  <1>11. m = Len(next)
    BY DEF m
  <1>12. CASE k2 >= MaxFail
    <2>1. gap < BanWindow /\ k >= MaxFail - 1
      BY <1>1, <1>7, <1>8, <1>12
    <2>2. m = MaxFail
      BY <1>1, <1>9, <2>1
    <2>3. \A j \in 1 .. MaxFail - 1 : Gap(next, j) < BanWindow
      <3> SUFFICES ASSUME NEW j \in 1 .. MaxFail - 1, j # 1 PROVE Gap(next, j) < BanWindow
        BY <1>4, <2>1
      <3>1. j \in 2 .. m - 1 /\ j - 1 \in 1 .. MaxFail - 2
        BY <1>1, <2>2
      <3> QED BY <1>5, <1>9, <2>1, <3>1
    <2>4. InARow(next)
      BY <1>1, <1>11, <2>2, <2>3, InARowBack
    <2> QED BY <1>1, <1>2, <1>3, <1>11, <1>12, <2>4 DEF Counts
  <1>13. CASE k2 < MaxFail
    <2>1. RunOf(next, k2)
      <3>1. CASE gap < BanWindow
        <4>1. k2 = k + 1 /\ RunOf(times, k)
          BY <1>1, <1>8, <1>10, <1>13, <3>1
        <4>2. k >= 1 /\ k <= n /\ k2 <= m
          BY <1>1, <1>13, <4>1 DEF RunOf
        <4>3. \A j \in 1 .. k2 - 1 : Gap(next, j) < BanWindow
          <5> SUFFICES ASSUME NEW j \in 1 .. k2 - 1, j # 1 PROVE Gap(next, j) < BanWindow
            BY <1>4, <3>1
          <5>1. j \in 2 .. m - 1 /\ j - 1 \in 1 .. k - 1
            BY <1>3, <4>1, <4>2
          <5> QED BY <1>5, <4>1, <5>1 DEF RunOf
        <4>4. k2 < m => Gap(next, k2) >= BanWindow
          <5> SUFFICES ASSUME k2 < m PROVE Gap(next, k2) >= BanWindow
            OBVIOUS
          <5>1. k2 \in 2 .. m - 1 /\ k2 - 1 = k /\ k < n
            BY <1>1, <1>3, <4>1, <4>2
          <5> QED BY <1>5, <4>1, <5>1 DEF RunOf
        <4> QED BY <1>11, <4>1, <4>2, <4>3, <4>4 DEF RunOf
      <3>2. CASE ~(gap < BanWindow)
        <4>1. k2 = 1 /\ gap >= BanWindow
          BY <1>1, <1>7, <1>8, <3>2
        <4> QED BY <1>3, <1>4, <1>11, <4>1 DEF RunOf
      <3> QED BY <3>1, <3>2
    <2>2. ~InARow(next)
      <3>1. InARow(next) => m = MaxFail /\ \A j \in 1 .. MaxFail - 1 : Gap(next, j) < BanWindow
        BY <1>1, <1>11, InARowBack
      <3>2. k2 >= 1 /\ (k2 < m => Gap(next, k2) >= BanWindow)
        BY <1>11, <2>1 DEF RunOf
      <3>3. m = MaxFail => k2 \in 1 .. m - 1
        BY <1>1, <1>13, <3>2
      <3> SUFFICES ASSUME InARow(next) PROVE FALSE
        OBVIOUS
      <3>4. k2 \in 1 .. m - 1 /\ k2 < m /\ k2 \in 1 .. MaxFail - 1
        BY <1>3, <3>1, <3>3
      <3>5. Gap(next, k2) < BanWindow /\ Gap(next, k2) >= BanWindow /\ Gap(next, k2) \in Int
        BY <1>6, <3>1, <3>2, <3>4
      <3> HIDE DEF Gap
      <3> QED BY <1>1, <3>5
    <2>3. ~(k2 >= MaxFail)
      BY <1>1, <1>13
    <2> QED BY <1>1, <1>2, <1>3, <1>11, <2>1, <2>2, <2>3 DEF Counts
  <1> QED BY <1>1, <1>12, <1>13

\* A ban is on just while BanTime has not passed since the last run of failures.
LEMMA BanTells ==
    ASSUME NEW a \in Address, now \in Nat, BansFit
    PROVE  BanActive(a) <=> BanRuns(a)
  <1>1. /\ BanFits(bans[a], failed[a], tripped[a], now)
        /\ tripped[a] \in Nat \cup {None} /\ bans[a] \in BanRow \cup {None}
    BY DEF BansFit
  <1>2. CASE failed[a] = <<>>
    BY <1>1, <1>2 DEF BanFits, BanActive, BanRuns
  <1>3. CASE failed[a] # <<>>
    <2>1. /\ bans[a] # None /\ bans[a].until \in Nat
          /\ IF tripped[a] = None THEN bans[a].until <= now ELSE bans[a].until = tripped[a] + BanTime
      BY <1>1, <1>3, FirewallConstants DEF BanFits, BanRow
    <2> QED BY <1>1, <2>1, FirewallConstants DEF BanActive, BanRuns
  <1> QED BY <1>2, <1>3

\* BanFail keeps the row and the failures it stands for together.
LEMMA PunishedFits ==
    ASSUME NEW a \in Address, now \in Nat, BansFit,
           NEW times, times = Latest(Append(failed[a], now)),
           NEW trip, trip = IF InARow(times) /\ ~BanRuns(a) THEN now ELSE tripped[a]
    PROVE  /\ Punished(bans[a]) \in BanRow /\ times \in Seq(Nat) /\ trip \in Nat \cup {None}
           /\ BanFits(Punished(bans[a]), times, trip, now)
  <1> DEFINE row == bans[a]
             old == failed[a]
             new == Punished(row)
             k2 == Counted(row)
  <1>1. /\ BanFits(row, old, tripped[a], now)
        /\ old \in Seq(Nat) /\ tripped[a] \in Nat \cup {None} /\ row \in BanRow \cup {None}
        /\ MaxFail \in Nat /\ MaxFail >= 2 /\ BanWindow \in Nat /\ BanWindow >= 1
        /\ BanTime \in Nat /\ BanTime >= 1 /\ None \notin Int /\ None \notin BanRow
    BY FirewallConstants DEF BansFit
  <1>2. CASE old = <<>>
    <2>1. row = None /\ tripped[a] = None
      BY <1>1, <1>2 DEF BanFits
    <2>2. times = <<now>> /\ times # <<>> /\ Len(times) = 1 /\ times[1] = now
      BY <1>1, <1>2 DEF Latest
    <2>3. ~InARow(times) /\ trip = None
      BY <1>1, <2>1, <2>2 DEF InARow
    <2>4. new \in BanRow /\ new.fails = 1 /\ new.at = now /\ new.until = now
      BY <2>1 DEF Punished, Counted, BanRow
    <2>5. RunOf(times, 1)
      BY <2>2 DEF RunOf
    <2> QED BY <1>1, <2>2, <2>3, <2>4, <2>5 DEF BanFits, Counts
  <1>3. CASE old # <<>>
    <2>1. /\ row \in BanRow /\ row # None /\ row.fails \in Nat /\ row.at \in Nat /\ row.until \in Nat
          /\ Len(old) <= MaxFail /\ row.at = old[Len(old)] /\ Counts(row.fails, old)
          /\ IF tripped[a] = None THEN row.until <= now ELSE row.until = tripped[a] + BanTime
      BY <1>1, <1>3 DEF BanFits, BanRow
    <2>2. k2 \in Nat /\ k2 = IF now - old[Len(old)] < BanWindow THEN row.fails + 1 ELSE 1
      <3>1. row.at > now - BanWindow <=> now - row.at < BanWindow
        BY <1>1, <2>1
      <3>2. k2 = IF row.at > now - BanWindow THEN row.fails + 1 ELSE 1
        BY <2>1 DEF Counted
      <3> QED BY <2>1, <3>1, <3>2
    <2>3. new = [fails |-> k2, at |-> now,
                 until |-> IF k2 >= MaxFail /\ row.until <= now THEN now + BanTime ELSE row.until]
      BY <2>1 DEF Punished
    <2> HIDE DEF k2, new, row, old
    <2>4. /\ times \in Seq(Nat) /\ times # <<>> /\ Len(times) <= MaxFail /\ times[Len(times)] = now
          /\ Counts(k2, times) /\ (InARow(times) <=> k2 >= MaxFail)
      <3>1. times = Latest(Append(old, now))
        BY DEF old
      <3>2. Len(old) \in Nat /\ Len(old) >= 1
        BY <1>1, <1>3
      <3> DEFINE n == Len(old)
                 k == row.fails
      <3>3. /\ n \in Nat /\ n = Len(old) /\ n >= 1 /\ n <= MaxFail /\ k \in Nat /\ Counts(k, old)
            /\ k2 = IF now - old[n] < BanWindow THEN k + 1 ELSE 1
            /\ old \in Seq(Nat) /\ now \in Nat /\ k2 \in Nat
        BY <1>1, <2>1, <2>2, <3>2
      <3> HIDE DEF n, k
      <3> QED BY <3>1, <3>3, RunGrows
    <2>5. new \in BanRow /\ new.fails = k2 /\ new.at = now
          /\ new.until = IF k2 >= MaxFail /\ row.until <= now THEN now + BanTime ELSE row.until
      BY <1>1, <2>1, <2>2, <2>3 DEF BanRow
    <2>6. BanRuns(a) <=> row.until > now
      BY <1>1, <2>1 DEF BanRuns
    <2>7. trip \in Nat \cup {None} /\ IF trip = None THEN new.until <= now ELSE new.until = trip + BanTime
      BY <1>1, <2>1, <2>4, <2>5, <2>6
    <2>8. BanFits(new, times, trip, now)
      BY <2>4, <2>5, <2>7 DEF BanFits
    <2> QED BY <2>4, <2>5, <2>7, <2>8 DEF new, row
  <1> QED BY <1>2, <1>3

\* Failures that no step counts keep their row.
LEMMA BansStay ==
    ASSUME FirewallInv, UNCHANGED <<now, bans, failed, tripped>>
    PROVE  BansFit'
  BY DEF FirewallInv, BansFit

\* One request: middleware, loadIfStale, CheckUntil, Fail and BanFail.
LEMMA VisitSteps ==
    ASSUME FirewallInv, NEW v \in Visit, UNCHANGED now,
           \/ \E guest \in Address, header \in Header, proxy \in Trusted \cup {None} :
                  Visits(v, guest, header, proxy)
           \/ StillFresh(v) \/ TooOld(v) \/ Query(v) \/ QueryFails(v) \/ StoreLists(v)
           \/ Judge(v) \/ LookUpBan(v) \/ BanUnknown(v) \/ Leaves(v)
           \/ Fails(v) \/ ContainsListed(v) \/ BanFail(v)
    PROVE  FirewallInv'
  <1> DEFINE q == visit[v]
  <1>1. /\ visit \in [Visit -> VisitRecord] /\ q \in VisitRecord /\ now \in Nat
        /\ tables \in Seq(ListVersion) /\ invalidated \in DOMAIN tables
        /\ cache \in [rows: SUBSET Entry, loaded: Nat \cup {None}]
        /\ Arrived(q, tables, invalidated, now)
        /\ q.pc \in {"query", "store"} => mutex = v
    BY DEF FirewallInv, FirewallTypeOK, OneLoads
  <1>2. /\ NoVisit \in VisitRecord /\ NoVisit.pc = "idle" /\ ~Looks(NoVisit)
        /\ Arrived(NoVisit, tables, invalidated, now)
    BY DEF NoVisit, VisitRecord, Looks, Arrived
  <1>3. ASSUME NEW guest \in Address, NEW header \in Header, NEW proxy \in Trusted \cup {None},
               Visits(v, guest, header, proxy)
        PROVE  FirewallInv'
    <2> DEFINE a == IF proxy = None THEN RealIP(guest, header) ELSE RealIP(proxy, Append(header, guest))
               r == [NoVisit EXCEPT !.pc = "load", !.a = a, !.client = guest, !.floor = Floor]
    <2>1. guest \notin Trusted /\ visit' = [visit EXCEPT ![v] = r]
          /\ UNCHANGED <<tables, cache, mutex, bans, edit, invalidated, failed, tripped>>
      BY <1>3 DEF Visits
    <2>2. a = guest
      BY <2>1, RealIPIsClient
    <2> HIDE DEF a
    <2>3. /\ Floor \in DOMAIN tables /\ Floor \in Nat
          /\ Floor <= invalidated \/ tables[Floor].at + ListTTL <= now
      BY <1>1, FloorIsThere DEF FirewallInv
    <2>4. r \in VisitRecord /\ r.pc = "load" /\ r.a = guest /\ r.client = guest /\ r.floor = Floor
      BY <2>2, <2>3 DEF NoVisit, VisitRecord
    <2> HIDE DEF r
    <2>5. Arrived(r, tables, invalidated, now) /\ ~Looks(r)
      BY <2>3, <2>4 DEF Arrived, Looks
    <2> QED BY <2>1, <2>4, <2>5, VisitMoves, BansStay
  <1>4. CASE StillFresh(v)
    <2> DEFINE r == [q EXCEPT !.pc = "look"]
    <2>1. /\ r \in VisitRecord /\ r.pc = "look" /\ r.floor = q.floor /\ r.a = q.a /\ r.client = q.client
          /\ q.pc = "load"
      BY <1>1, <1>4 DEF VisitRecord, StillFresh, At
    <2>2. visit' = [visit EXCEPT ![v] = r]
          /\ UNCHANGED <<tables, cache, mutex, bans, edit, invalidated, failed, tripped>>
      BY <1>4 DEF StillFresh, Goto
    <2> HIDE DEF r
    <2>3. Arrived(r, tables, invalidated, now)
      BY <1>1, <2>1 DEF Arrived
    <2>4. cache.loaded # None /\ cache.loaded \in Nat /\ now < cache.loaded + ListTTL
      BY <1>1, <1>4, FirewallConstants DEF StillFresh, Fresh
    <2>5. cache.loaded <= now /\ ReadAt(cache.rows, cache.loaded, tables, invalidated, visit)
      BY <2>4 DEF FirewallInv, ListsFit
    <2>6. \A w \in Visit \ {v} : visit[w].pc \notin {"query", "store"}
      BY <1>4, FirewallConstants DEF StillFresh, FirewallInv, OneLoads
    <2> QED BY <1>1, <2>1, <2>2, <2>3, <2>4, <2>5, <2>6, VisitLooks, BansStay
  <1>5. CASE TooOld(v)
    <2> DEFINE r == [q EXCEPT !.pc = "query"]
    <2>1. /\ r \in VisitRecord /\ r.pc = "query" /\ r.floor = q.floor /\ r.a = q.a /\ r.client = q.client
          /\ q.pc = "load"
      BY <1>1, <1>5 DEF VisitRecord, TooOld, At
    <2>2. visit' = [visit EXCEPT ![v] = r] /\ mutex' = v
          /\ UNCHANGED <<tables, cache, bans, edit, invalidated, failed, tripped>>
      BY <1>5 DEF TooOld, Goto, HoldMutex
    <2> HIDE DEF r
    <2>3. Arrived(r, tables, invalidated, now) /\ ~Looks(r)
      BY <1>1, <2>1 DEF Arrived, Looks
    <2>4. mutex = None
      BY <1>5 DEF TooOld
    <2> QED BY <2>1, <2>2, <2>3, <2>4, VisitMoves, BansStay
  <1>6. CASE Query(v)
    <2> DEFINE r == [q EXCEPT !.pc = "store", !.read = Lists]
    <2>1. Lists \in SUBSET Entry /\ Len(tables) \in DOMAIN tables
      <3>1. Len(tables) \in Nat /\ Len(tables) >= 1
        BY <1>1
      <3>2. tables[Len(tables)] \in ListVersion
        BY <1>1, <3>1
      <3> QED BY <1>1, <3>1, <3>2 DEF Lists, ListVersion
    <2>2. /\ r \in VisitRecord /\ r.pc = "store" /\ r.floor = q.floor /\ r.a = q.a /\ r.client = q.client
          /\ r.read = Lists /\ q.pc = "query"
      BY <1>1, <1>6, <2>1 DEF VisitRecord, Query, At
    <2>3. visit' = [visit EXCEPT ![v] = r]
          /\ UNCHANGED <<tables, cache, mutex, bans, edit, invalidated, failed, tripped>>
      BY <1>6 DEF Query
    <2> HIDE DEF r
    <2>4. Arrived(r, tables, invalidated, now) /\ ~Looks(r)
      BY <1>1, <2>2 DEF Arrived, Looks
    <2>5. ReadAt(Lists, now, tables, invalidated, visit)
      <3>1. \A i \in DOMAIN tables : i <= Len(tables)
        BY <1>1
      <3>2. \A w \in Visit : Looks(visit[w]) => visit[w].floor \in DOMAIN tables
        BY DEF FirewallInv, Arrived, Looks
      <3> QED BY <1>1, <2>1, <3>1, <3>2 DEF ReadAt, Lists
    <2> QED BY <1>1, <2>2, <2>3, <2>4, <2>5, VisitMoves, BansStay
  <1>7. CASE QueryFails(v)
    <2> DEFINE r == [q EXCEPT !.pc = "look", !.blind = TRUE]
    <2>1. /\ r \in VisitRecord /\ r.pc = "look" /\ r.floor = q.floor /\ r.a = q.a /\ r.client = q.client
          /\ r.blind /\ q.pc = "query"
      BY <1>1, <1>7 DEF VisitRecord, QueryFails, At
    <2>2. visit' = [visit EXCEPT ![v] = r] /\ mutex' = None
          /\ UNCHANGED <<tables, cache, bans, edit, invalidated, failed, tripped>>
      BY <1>7 DEF QueryFails
    <2> HIDE DEF r
    <2>3. Arrived(r, tables, invalidated, now) /\ ~Looks(r)
      BY <1>1, <2>1 DEF Arrived, Looks
    <2> QED BY <1>1, <2>1, <2>2, <2>3, VisitMoves, BansStay
  <1>8. CASE StoreLists(v)
    <2> DEFINE r == [q EXCEPT !.pc = "look"]
    <2>1. /\ r \in VisitRecord /\ r.pc = "look" /\ r.floor = q.floor /\ r.a = q.a /\ r.client = q.client
          /\ q.pc = "store" /\ q.read \in SUBSET Entry
      BY <1>1, <1>8 DEF VisitRecord, StoreLists, At
    <2>2. visit' = [visit EXCEPT ![v] = r] /\ cache' = [rows |-> q.read, loaded |-> now]
          /\ UNCHANGED <<tables, bans, edit, invalidated, failed, tripped>>
      BY <1>8 DEF StoreLists, Goto
    <2> HIDE DEF r
    <2>3. Arrived(r, tables, invalidated, now)
      BY <1>1, <2>1 DEF Arrived
    <2>4. ReadAt(q.read, now, tables, invalidated, visit)
      BY <2>1 DEF FirewallInv, ListsFit
    <2>5. /\ cache' \in [rows: SUBSET Entry, loaded: Nat] /\ cache'.loaded = now /\ cache'.rows = q.read
          /\ now <= now /\ now < now + ListTTL
      BY <1>1, <2>1, <2>2, FirewallConstants
    <2>6. \A w \in Visit \ {v} : visit[w].pc \notin {"query", "store"}
      BY <1>1, <2>1 DEF FirewallInv, OneLoads
    <2> QED BY <1>1, <2>1, <2>2, <2>3, <2>4, <2>5, <2>6, VisitLooks, BansStay
  <1>9. CASE Judge(v) \/ LookUpBan(v) \/ BanUnknown(v) \/ Fails(v)
    <2>1. PICK r \in VisitRecord :
             /\ visit' = [visit EXCEPT ![v] = r]
             /\ r.pc \in {"refused", "in", "ban", "load"}
             /\ r.floor = q.floor /\ r.a = q.a /\ r.client = q.client /\ q.pc # "idle"
      <3>1. CASE Judge(v) \/ LookUpBan(v)
        <4>1. PICK pc \in {"refused", "in", "ban"} : visit' = [visit EXCEPT ![v].pc = pc]
          BY <3>1 DEF Judge, LookUpBan, Goto
        <4>2. q.pc # "idle"
          BY <3>1 DEF Judge, LookUpBan, At
        <4> DEFINE r == [q EXCEPT !.pc = pc]
        <4>3. r \in VisitRecord /\ r.pc = pc /\ r.floor = q.floor /\ r.a = q.a /\ r.client = q.client
          BY <1>1 DEF VisitRecord
        <4>4. visit' = [visit EXCEPT ![v] = r]
          BY <4>1
        <4> HIDE DEF r
        <4> QED BY <4>2, <4>3, <4>4
      <3>2. CASE BanUnknown(v)
        <4> DEFINE r == [q EXCEPT !.pc = "in", !.blind = TRUE]
        <4>1. r \in VisitRecord /\ r.pc = "in" /\ r.floor = q.floor /\ r.a = q.a /\ r.client = q.client
          BY <1>1 DEF VisitRecord
        <4>2. visit' = [visit EXCEPT ![v] = r] /\ q.pc # "idle"
          BY <3>2 DEF BanUnknown, At
        <4> HIDE DEF r
        <4> QED BY <4>1, <4>2
      <3>3. CASE Fails(v)
        <4> DEFINE r == [q EXCEPT !.pc = "load", !.goal = "deny"]
        <4>1. r \in VisitRecord /\ r.pc = "load" /\ r.floor = q.floor /\ r.a = q.a /\ r.client = q.client
          BY <1>1 DEF VisitRecord
        <4>2. visit' = [visit EXCEPT ![v] = r] /\ q.pc # "idle"
          BY <3>3 DEF Fails, At
        <4> HIDE DEF r
        <4> QED BY <4>1, <4>2
      <3> QED BY <1>9, <3>1, <3>2, <3>3
    <2>2. UNCHANGED <<tables, cache, mutex, bans, edit, invalidated, failed, tripped>>
      BY <1>9 DEF Judge, LookUpBan, BanUnknown, Fails
    <2>3. Arrived(r, tables, invalidated, now) /\ ~Looks(r)
      BY <1>1, <2>1 DEF Arrived, Looks
    <2> QED BY <2>1, <2>2, <2>3, VisitMoves, BansStay
  <1>10. CASE Leaves(v)
    <2>1. visit' = [visit EXCEPT ![v] = NoVisit]
          /\ UNCHANGED <<tables, cache, mutex, bans, edit, invalidated, failed, tripped>>
      BY <1>10 DEF Leaves
    <2> QED BY <1>2, <2>1, VisitMoves, BansStay
  <1>11. CASE ContainsListed(v)
    <2>1. PICK r \in VisitRecord :
             /\ visit' = [visit EXCEPT ![v] = r]
             /\ \/ r = NoVisit
                \/ /\ r.pc \in {"load", "count"}
                   /\ r.floor = q.floor /\ r.a = q.a /\ r.client = q.client /\ q.pc # "idle"
      <3> DEFINE again == [q EXCEPT !.goal = "allow", !.pc = "load"]
                 counted == [q EXCEPT !.pc = "count"]
                 r == CASE Listed(cache.rows, q.goal, q.a) -> NoVisit
                        [] q.goal = "deny" /\ ~Listed(cache.rows, "deny", q.a) -> again
                        [] OTHER -> counted
      <3>1. again \in VisitRecord /\ again.pc = "load" /\ again.floor = q.floor
            /\ again.a = q.a /\ again.client = q.client
        BY <1>1 DEF VisitRecord
      <3>2. counted \in VisitRecord /\ counted.pc = "count" /\ counted.floor = q.floor
            /\ counted.a = q.a /\ counted.client = q.client
        BY <1>1 DEF VisitRecord
      <3>3. visit' = [visit EXCEPT ![v] = r] /\ q.pc # "idle"
        BY <1>11 DEF ContainsListed, At
      <3> HIDE DEF again, counted
      <3>4. r \in {NoVisit, again, counted}
        OBVIOUS
      <3> HIDE DEF r
      <3> QED BY <1>2, <3>1, <3>2, <3>3, <3>4
    <2>2. UNCHANGED <<tables, cache, mutex, bans, edit, invalidated, failed, tripped>>
      BY <1>11 DEF ContainsListed
    <2>3. Arrived(r, tables, invalidated, now) /\ ~Looks(r) /\ r.pc \notin {"query", "store"}
      BY <1>1, <1>2, <2>1 DEF Arrived, Looks
    <2> QED BY <2>1, <2>2, <2>3, VisitMoves, BansStay
  <1>12. CASE BanFail(v)
    <2> DEFINE a == q.a
               times == Latest(Append(failed[a], now))
               trip == IF InARow(times) /\ ~BanRuns(a) THEN now ELSE tripped[a]
    <2>1. /\ bans' = [bans EXCEPT ![a] = Punished(bans[a])]
          /\ failed' = [failed EXCEPT ![a] = times]
          /\ tripped' = [tripped EXCEPT ![a] = trip]
          /\ visit' = [visit EXCEPT ![v] = NoVisit]
          /\ UNCHANGED <<tables, cache, mutex, edit, invalidated>>
          /\ q.pc # "idle"
      BY <1>12 DEF BanFail, At
    <2>2. a \in Address /\ BansFit
      BY <1>1, <2>1 DEF Arrived, FirewallInv
    <2>3. /\ Punished(bans[a]) \in BanRow /\ times \in Seq(Nat) /\ trip \in Nat \cup {None}
          /\ BanFits(Punished(bans[a]), times, trip, now)
      BY <1>1, <2>2, PunishedFits
    <2> HIDE DEF a, times, trip
    <2>4. BansFit'
      BY <2>1, <2>2, <2>3 DEF BansFit
    <2> QED BY <1>2, <2>1, <2>4, VisitMoves
  <1> QED BY <1>3, <1>4, <1>5, <1>6, <1>7, <1>8, <1>9, <1>10, <1>11, <1>12

\* The administrators and the clock.
LEMMA FirewallOutside ==
    ASSUME FirewallInv,
           \/ /\ \/ \E k \in Curator : (\E e \in Entry : Commit(k, e)) \/ Invalidate(k) \/ Elsewhere(k)
                 \/ \E a \in Address : Unban(a)
              /\ UNCHANGED now
           \/ FirewallTick
           \/ UNCHANGED <<now, fwVars>>
    PROVE  FirewallInv'
  <1>1. /\ visit \in [Visit -> VisitRecord] /\ now \in Nat
        /\ tables \in Seq(ListVersion) /\ invalidated \in DOMAIN tables
        /\ cache \in [rows: SUBSET Entry, loaded: Nat \cup {None}]
        /\ edit \in [Curator -> Nat \cup {None}]
    BY DEF FirewallInv, FirewallTypeOK
  <1>2. CASE UNCHANGED <<now, fwVars>>
    BY <1>2 DEF fwVars, FirewallInv, FirewallTypeOK, OneLoads, ListsFit, BansFit
  <1>3. ASSUME NEW k \in Curator, NEW e \in Entry, Commit(k, e), UNCHANGED now
        PROVE  FirewallInv'
    <2> DEFINE rows == IF e \in Lists THEN Lists \ {e} ELSE Lists \cup {e}
               new == [rows |-> rows, at |-> now]
    <2>1. /\ tables' = Append(tables, new) /\ edit' = [edit EXCEPT ![k] = Len(tables) + 1]
          /\ UNCHANGED <<cache, mutex, bans, visit, invalidated, failed, tripped>>
      BY <1>3 DEF Commit
    <2>2. /\ Len(tables) \in Nat /\ Len(tables) >= 1 /\ DOMAIN tables = 1 .. Len(tables)
      BY <1>1
    <2>3. tables[Len(tables)] \in ListVersion
      BY <1>1, <2>2
    <2>4. new \in ListVersion /\ new.at = now
      BY <1>1, <2>3 DEF Lists, ListVersion
    <2> HIDE DEF new
    <2>5. /\ tables' \in Seq(ListVersion) /\ DOMAIN tables' = 1 .. Len(tables) + 1
          /\ DOMAIN tables \subseteq DOMAIN tables'
          /\ \A i \in DOMAIN tables : tables'[i] = tables[i]
          /\ tables'[Len(tables) + 1] = new
      BY <1>1, <2>1, <2>2, <2>4
    <2>6. FirewallTypeOK'
      <3>1. now' \in Nat /\ cache' \in [rows: SUBSET Entry, loaded: Nat \cup {None}]
            /\ visit' \in [Visit -> VisitRecord] /\ invalidated' \in DOMAIN tables'
        BY <1>1, <1>3, <2>1, <2>5
      <3>2. \A i \in DOMAIN tables' : tables'[i].at <= now'
        BY <1>1, <1>3, <2>2, <2>4, <2>5 DEF FirewallInv, FirewallTypeOK
      <3>3. edit' \in [Curator -> Nat \cup {None}] /\ \A c \in Curator : edit'[c] # None => edit'[c] \in DOMAIN tables'
        BY <1>1, <2>1, <2>2, <2>5 DEF FirewallInv, FirewallTypeOK
      <3> QED BY <2>5, <3>1, <3>2, <3>3 DEF FirewallTypeOK
    <2>7. \A v \in Visit : Arrived(visit'[v], tables', invalidated', now')
      BY <1>3, <2>1, <2>5 DEF FirewallInv, Arrived
    <2>8. ASSUME NEW set, NEW t \in Nat, t <= now, ReadAt(set, t, tables, invalidated, visit)
          PROVE  ReadAt(set, t, tables', invalidated, visit)
      <3>1. \E x \in ListVersion : x.at >= t /\ tables' = Append(tables, x)
        BY <2>1, <2>4, <2>8
      <3> QED BY <1>1, <2>5, <2>8, <3>1, ReadAtStays
    <2>9. ListsFit'
      <3>1. cache'.loaded # None =>
                cache'.loaded <= now' /\ ReadAt(cache'.rows, cache'.loaded, tables', invalidated', visit')
        <4> SUFFICES ASSUME cache.loaded # None
                     PROVE  cache.loaded <= now /\ ReadAt(cache.rows, cache.loaded, tables', invalidated, visit)
          BY <1>3, <2>1
        <4>1. cache.loaded \in Nat /\ cache.loaded <= now
              /\ ReadAt(cache.rows, cache.loaded, tables, invalidated, visit)
          BY <1>1 DEF FirewallInv, ListsFit
        <4> QED BY <2>8, <4>1
      <3>2. \A v \in Visit : visit'[v].pc = "store" => ReadAt(visit'[v].read, now', tables', invalidated', visit')
        <4> SUFFICES ASSUME NEW v \in Visit, visit[v].pc = "store"
                     PROVE  ReadAt(visit[v].read, now, tables', invalidated, visit)
          BY <1>3, <2>1
        <4>1. ReadAt(visit[v].read, now, tables, invalidated, visit) /\ now <= now
          BY <1>1 DEF FirewallInv, ListsFit
        <4> QED BY <1>1, <2>8, <4>1
      <3>3. \A v \in Visit : Sees(visit'[v], cache'.rows, tables')
        BY <2>1, <2>5 DEF FirewallInv, ListsFit, Sees
      <3> QED BY <3>1, <3>2, <3>3 DEF ListsFit
    <2>10. OneLoads' /\ BansFit'
      BY <1>3, <2>1 DEF FirewallInv, OneLoads, BansFit
    <2> QED BY <2>6, <2>7, <2>9, <2>10 DEF FirewallInv
  <1>4. ASSUME NEW k \in Curator, Invalidate(k), UNCHANGED now
        PROVE  FirewallInv'
    <2>1. /\ mutex = None /\ edit[k] # None /\ edit' = [edit EXCEPT ![k] = None]
          /\ cache' = [cache EXCEPT !.loaded = None]
          /\ invalidated' = IF edit[k] > invalidated THEN edit[k] ELSE invalidated
          /\ UNCHANGED <<tables, mutex, bans, visit, failed, tripped>>
      BY <1>4 DEF Invalidate
    <2>2. /\ invalidated' \in DOMAIN tables /\ invalidated' \in Nat /\ invalidated \in Nat
          /\ invalidated <= invalidated'
      <3>1. edit[k] \in DOMAIN tables
        BY <2>1 DEF FirewallInv, FirewallTypeOK
      <3> QED BY <1>1, <2>1, <3>1
    <2>3. /\ cache' \in [rows: SUBSET Entry, loaded: Nat \cup {None}]
          /\ cache'.loaded = None /\ cache'.rows = cache.rows
      BY <1>1, <2>1
    <2>4. FirewallTypeOK'
      BY <1>1, <1>4, <2>1, <2>2, <2>3 DEF FirewallInv, FirewallTypeOK
    <2>5. \A v \in Visit : visit[v].pc \notin {"query", "store"}
      BY <2>1, FirewallConstants DEF FirewallInv, OneLoads
    <2>6. ListsFit'
      BY <2>1, <2>3, <2>5 DEF FirewallInv, ListsFit
    <2>7. \A v \in Visit : Arrived(visit'[v], tables', invalidated', now')
      <3> SUFFICES ASSUME NEW v \in Visit, visit[v].pc # "idle"
                   PROVE  Arrived(visit[v], tables, invalidated', now)
        BY <1>4, <2>1 DEF Arrived
      <3>1. Arrived(visit[v], tables, invalidated, now) /\ visit[v].floor \in Nat
        BY <1>1 DEF FirewallInv, VisitRecord
      <3> QED BY <2>2, <3>1 DEF Arrived
    <2>8. OneLoads' /\ BansFit'
      BY <1>4, <2>1 DEF FirewallInv, OneLoads, BansFit
    <2> QED BY <2>4, <2>6, <2>7, <2>8 DEF FirewallInv
  <1>5. ASSUME NEW k \in Curator, Elsewhere(k), UNCHANGED now
        PROVE  FirewallInv'
    <2>1. /\ edit' = [edit EXCEPT ![k] = None]
          /\ UNCHANGED <<tables, cache, mutex, bans, visit, invalidated, failed, tripped>>
      BY <1>5 DEF Elsewhere
    <2>2. FirewallTypeOK'
      BY <1>1, <1>5, <2>1 DEF FirewallInv, FirewallTypeOK
    <2> QED BY <1>5, <2>1, <2>2 DEF FirewallInv, OneLoads, ListsFit, BansFit
  <1>6. ASSUME NEW a \in Address, Unban(a), UNCHANGED now
        PROVE  FirewallInv'
    <2>1. /\ bans' = [bans EXCEPT ![a] = None] /\ failed' = [failed EXCEPT ![a] = <<>>]
          /\ tripped' = [tripped EXCEPT ![a] = None]
          /\ UNCHANGED <<tables, cache, mutex, visit, edit, invalidated>>
      BY <1>6 DEF Unban
    <2>2. BansFit'
      <3>1. BanFits(None, <<>>, None, now) /\ <<>> \in Seq(Nat)
        BY DEF BanFits
      <3> QED BY <1>6, <2>1, <3>1 DEF FirewallInv, BansFit
    <2>3. FirewallTypeOK'
      BY <1>1, <1>6, <2>1 DEF FirewallInv, FirewallTypeOK
    <2> QED BY <1>6, <2>1, <2>2, <2>3 DEF FirewallInv, OneLoads, ListsFit
  <1>7. CASE FirewallTick
    <2>1. /\ \A v \in Visit : visit[v].pc \notin {"query", "store"}
          /\ now' = now + 1
          /\ UNCHANGED <<tables, cache, mutex, bans, visit, edit, invalidated, failed, tripped>>
      BY <1>7 DEF FirewallTick, Tick, fwVars
    <2>2. FirewallTypeOK'
      <3>1. \A i \in DOMAIN tables : tables[i].at \in Nat /\ tables[i].at <= now
        <4>1. \A i \in DOMAIN tables : tables[i] \in ListVersion
          BY <1>1
        <4> QED BY <4>1 DEF FirewallInv, FirewallTypeOK, ListVersion
      <3>2. \A i \in DOMAIN tables' : tables'[i].at <= now'
        BY <1>1, <2>1, <3>1
      <3> QED BY <1>1, <2>1, <3>2 DEF FirewallInv, FirewallTypeOK
    <2>3. \A v \in Visit : Arrived(visit'[v], tables', invalidated', now')
      <3> SUFFICES ASSUME NEW v \in Visit, visit[v].pc # "idle"
                   PROVE  Arrived(visit[v], tables, invalidated, now + 1)
        BY <2>1 DEF Arrived
      <3>1. Arrived(visit[v], tables, invalidated, now)
        BY DEF FirewallInv
      <3>2. tables[visit[v].floor] \in ListVersion
        BY <1>1, <3>1 DEF Arrived
      <3>3. tables[visit[v].floor].at + ListTTL \in Nat
        BY <3>2, FirewallConstants DEF ListVersion
      <3> QED BY <1>1, <3>1, <3>3 DEF Arrived
    <2>4. ListsFit'
      BY <1>1, <2>1 DEF FirewallInv, ListsFit
    <2>5. BansFit'
      <3> SUFFICES ASSUME NEW a \in Address, BanFits(bans[a], failed[a], tripped[a], now)
                   PROVE  BanFits(bans[a], failed[a], tripped[a], now + 1)
        BY <2>1 DEF FirewallInv, BansFit
      <3> QED BY <1>1 DEF BanFits, BanRow
    <2> QED BY <2>1, <2>2, <2>3, <2>4, <2>5 DEF FirewallInv, OneLoads
  <1> QED BY <1>2, <1>3, <1>4, <1>5, <1>6, <1>7

LEMMA FirewallInvStarts == FirewallInit => FirewallInv
  <1> SUFFICES ASSUME FirewallInit PROVE FirewallInv
    OBVIOUS
  <1>1. /\ NoVisit \in VisitRecord /\ NoVisit.pc = "idle" /\ ~Looks(NoVisit)
        /\ Arrived(NoVisit, tables, invalidated, now)
    BY DEF NoVisit, VisitRecord, Looks, Arrived
  <1>2. \A v \in Visit : visit[v] = NoVisit
    BY DEF FirewallInit
  <1>3. FirewallTypeOK
    <2> DEFINE begun == [rows |-> {}, at |-> 0]
    <2>1. begun \in ListVersion /\ tables = <<begun>> /\ begun.at = 0
      BY DEF ListVersion, FirewallInit
    <2> HIDE DEF begun
    <2>2. tables \in Seq(ListVersion) /\ DOMAIN tables = {1} /\ tables[1] = begun
      BY <2>1
    <2> QED BY <1>1, <2>1, <2>2 DEF FirewallInit, FirewallTypeOK
  <1>4. ListsFit
    BY <1>1, <1>2 DEF ListsFit, Sees, FirewallInit
  <1>5. BansFit
    <2>1. BanFits(None, <<>>, None, now) /\ <<>> \in Seq(Nat)
      BY DEF BanFits
    <2> QED BY <2>1 DEF BansFit, FirewallInit
  <1> QED BY <1>1, <1>2, <1>3, <1>4, <1>5 DEF FirewallInv, OneLoads

LEMMA FirewallInvKept == FirewallInv /\ [FirewallNext]_<<now, fwVars>> => FirewallInv'
  <1> SUFFICES ASSUME FirewallInv, [FirewallNext]_<<now, fwVars>> PROVE FirewallInv'
    OBVIOUS
  <1> QED BY VisitSteps, FirewallOutside DEF FirewallNext

\* Guard.CheckUntil with loadIfStale, Invalidate, BanFail and RealIPFrom: for
\* any number of requests, addresses, proxies, prefixes and edits of the
\* lists, no verdict rests on lists that were invalidated, or ListTTL out of
\* date, when the request came; nor is anybody let in whose ban runs, or
\* refused when no ban does and no list says so.
THEOREM OnlyCleanOnesEnter == FirewallSpec => OnlyCleanEnter
  <1>1. FirewallInv /\ [FirewallNext]_<<now, fwVars>> => [CleanVerdict]_<<now, fwVars>>
    <2> SUFFICES ASSUME FirewallInv, FirewallNext, NEW v \in Visit, ~visit'[v].blind
                 PROVE  VerdictFounded(v)
      BY DEF CleanVerdict
    <2> DEFINE q == visit[v]
    <2>1. /\ visit \in [Visit -> VisitRecord] /\ q \in VisitRecord /\ now \in Nat
          /\ Arrived(q, tables, invalidated, now) /\ BansFit
          /\ Sees(q, cache.rows, tables)
          /\ tables \in Seq(ListVersion)
      BY DEF FirewallInv, FirewallTypeOK, ListsFit
    <2>2. CASE ~Reaches(v, "in") /\ ~Reaches(v, "ban") /\ ~Reaches(v, "refused")
      BY <2>2 DEF VerdictFounded
    <2>3. CASE Judge(v)
      <3>1. /\ q.pc = "look" /\ q.goal = "verdict"
            /\ visit' = [visit EXCEPT ![v].pc =
                 IF Listed(cache.rows, "deny", q.a) THEN "refused"
                 ELSE IF Listed(cache.rows, "allow", q.a) THEN "in" ELSE "ban"]
        BY <2>3 DEF Judge, At, Goto
      <3>2. /\ visit'[v].blind = q.blind
            /\ visit'[v].pc = IF Listed(cache.rows, "deny", q.a) THEN "refused"
                              ELSE IF Listed(cache.rows, "allow", q.a) THEN "in" ELSE "ban"
        BY <2>1, <3>1 DEF VisitRecord
      <3>3. q.a = q.client
        BY <2>1, <3>1 DEF Arrived
      <3>4. cache.rows \in Judges(v)
        <4>1. PICK c \in DOMAIN tables : q.floor <= c /\ cache.rows = tables[c].rows
          BY <2>1, <3>1, <3>2 DEF Sees, Looks
        <4>2. c \in q.floor .. Len(tables)
          BY <2>1, <4>1 DEF VisitRecord
        <4> QED BY <4>1, <4>2 DEF Judges
      <3> QED BY <3>1, <3>2, <3>3, <3>4 DEF VerdictFounded, Reaches, At
    <2>4. CASE LookUpBan(v)
      <3>1. q.pc = "ban" /\ visit' = [visit EXCEPT ![v].pc = IF BanActive(q.a) THEN "refused" ELSE "in"]
        BY <2>4 DEF LookUpBan, At, Goto
      <3>2. visit'[v].pc = IF BanActive(q.a) THEN "refused" ELSE "in"
        BY <2>1, <3>1 DEF VisitRecord
      <3>3. q.a = q.client /\ q.client \in Address
        BY <2>1, <3>1 DEF Arrived
      <3>4. BanActive(q.a) <=> BanRuns(q.client)
        BY <2>1, <3>3, BanTells
      <3> QED BY <3>1, <3>2, <3>4 DEF VerdictFounded, Reaches, At
    <2>5. CASE BanUnknown(v)
      BY <2>1, <2>5 DEF BanUnknown, VisitRecord
    <2>6. ASSUME \/ Reaches(v, "in") \/ Reaches(v, "ban") \/ Reaches(v, "refused")
          PROVE  Judge(v) \/ LookUpBan(v) \/ BanUnknown(v)
      <3>1. visit'[v].pc \in {"in", "ban", "refused"} /\ visit'[v].pc # q.pc
        BY <2>6 DEF Reaches, At
      <3>2. ~FirewallTick /\ \A k \in Curator : ~Invalidate(k) /\ ~Elsewhere(k) /\ \A e \in Entry : ~Commit(k, e)
        BY <3>1 DEF FirewallTick, fwVars, Invalidate, Elsewhere, Commit
      <3>3. \A a \in Address : ~Unban(a)
        BY <3>1 DEF Unban
      <3>4. ASSUME NEW w \in Visit, NEW guest \in Address, NEW header \in Header, NEW proxy \in Trusted \cup {None},
                   Visits(w, guest, header, proxy)
            PROVE  FALSE
        BY <2>1, <3>1, <3>4 DEF Visits, NoVisit
      <3>5. ASSUME NEW w \in Visit,
                   \/ StillFresh(w) \/ TooOld(w) \/ Query(w) \/ QueryFails(w) \/ StoreLists(w)
                   \/ Leaves(w) \/ Fails(w) \/ BanFail(w)
            PROVE  FALSE
        <4>1. CASE StillFresh(w) \/ TooOld(w) \/ StoreLists(w)
          BY <2>1, <3>1, <4>1 DEF StillFresh, TooOld, StoreLists, Goto, VisitRecord
        <4>2. CASE Query(w) \/ QueryFails(w) \/ Fails(w)
          <5>1. PICK r : visit' = [visit EXCEPT ![w] = r] /\ r.pc \in {"store", "look", "load"}
            <6>1. visit[w] \in VisitRecord
              BY <2>1
            <6>2. CASE Query(w)
              <7>1. [visit[w] EXCEPT !.pc = "store", !.read = Lists].pc = "store"
                BY <6>1 DEF VisitRecord
              <7> QED BY <6>2, <7>1 DEF Query
            <6>3. CASE QueryFails(w)
              <7>1. [visit[w] EXCEPT !.pc = "look", !.blind = TRUE].pc = "look"
                BY <6>1 DEF VisitRecord
              <7> QED BY <6>3, <7>1 DEF QueryFails
            <6>4. CASE Fails(w)
              <7>1. [visit[w] EXCEPT !.pc = "load", !.goal = "deny"].pc = "load"
                BY <6>1 DEF VisitRecord
              <7> QED BY <6>4, <7>1 DEF Fails
            <6> QED BY <4>2, <6>2, <6>3, <6>4
          <5> QED BY <2>1, <3>1, <5>1
        <4>3. CASE Leaves(w) \/ BanFail(w)
          BY <2>1, <3>1, <4>3 DEF Leaves, BanFail, NoVisit
        <4> QED BY <3>5, <4>1, <4>2, <4>3
      <3>6. ASSUME NEW w \in Visit, ContainsListed(w)
            PROVE  FALSE
        BY <2>1, <3>1, <3>6 DEF ContainsListed, NoVisit, VisitRecord
      <3>7. ASSUME NEW w \in Visit, w # v, Judge(w) \/ LookUpBan(w) \/ BanUnknown(w)
            PROVE  FALSE
        BY <2>1, <3>1, <3>7 DEF Judge, LookUpBan, BanUnknown, Goto
      <3> QED BY <3>2, <3>3, <3>4, <3>5, <3>6, <3>7 DEF FirewallNext
    <2> QED BY <2>2, <2>3, <2>4, <2>5, <2>6
  <1> QED BY <1>1, FirewallInvStarts, FirewallInvKept, PTL DEF FirewallSpec, OnlyCleanEnter
=============================================================================

------------------------------ MODULE AppDevice ------------------------------
(* The tokens of the client applications (app_devices): a login makes one, a *)
(* request shows it to authMiddleware, which reads the row, then the user,   *)
(* then writes the row twice before the handler runs.                        *)
EXTENDS Clock

CONSTANTS Device, Client,       \* rows; requests under way
          DeviceLife, RenewWindow,      \* AppDeviceTTL, AppDeviceRenewWindow
          Posture               \* what the telemetry of a device says

ASSUME DeviceAssumption ==
    /\ {DeviceLife, RenewWindow} \subseteq Nat \ {0}
    /\ RenewWindow < DeviceLife

VARIABLES device,       \* the table app_devices
          account,      \* whether the user is enabled
          client,
          revoked       \* history: devices that were revoked or deleted

adVars == <<device, account, client, revoked>>

\* late: the device was revoked before the request came; known: the account was
\* enabled at some moment since it came.
NoClient == [pc |-> "idle", what |-> "call", d |-> None, posture |-> None, exp |-> 0,
             late |-> FALSE, known |-> FALSE]

DeviceInit ==
    /\ now = 0
    /\ device = [d \in Device |-> None]
    /\ account = TRUE
    /\ client = [c \in Client |-> NoClient]
    /\ revoked = {}

Does(c, pc) == client[c].pc = pc
Then(c, pc) == client' = [client EXCEPT ![c].pc = pc]
Refuse(c) == client' = [client EXCEPT ![c] = NoClient]

Row(d) == device[d]
Valid(d) == Row(d) # None /\ Row(d).active /\ Row(d).exp > now

-----------------------------------------------------------------------------
(* handleLogin.                                                              *)

AppLogin(c) ==
    /\ Does(c, "idle")
    /\ client' = [client EXCEPT ![c] = [NoClient EXCEPT !.pc = "login", !.known = account]]
    /\ UNCHANGED <<device, account, revoked>>

\* The user is read before the password and the code are verified.
LoginUser(c) ==
    /\ Does(c, "login")
    /\ IF account THEN Then(c, "create") ELSE Refuse(c)
    /\ UNCHANGED <<device, account, revoked>>

CreateDevice(c, d, posture) ==
    /\ Does(c, "create") /\ device[d] = None /\ d \notin revoked
    /\ device' = [device EXCEPT ![d] = [active |-> TRUE, exp |-> now + DeviceLife, posture |-> posture]]
    /\ Refuse(c)
    /\ UNCHANGED <<account, revoked>>

-----------------------------------------------------------------------------
(* authMiddleware, and the handler behind it.                                *)

Call(c, d, what) ==
    /\ Does(c, "idle")
    /\ client' = [client EXCEPT ![c] = [NoClient EXCEPT !.pc = "token", !.d = d, !.what = what,
                                            !.late = d \in revoked, !.known = account]]
    /\ UNCHANGED <<device, account, revoked>>

FindToken(c) ==
    LET d == client[c].d
    IN /\ Does(c, "token")
       /\ IF Valid(d)
          THEN client' = [client EXCEPT ![c].pc = "user", ![c].exp = Row(d).exp,
                                        ![c].posture = Row(d).posture]
          ELSE Refuse(c)
       /\ UNCHANGED <<device, account, revoked>>

CheckUser(c) ==
    /\ Does(c, "user")
    /\ IF account THEN Then(c, "seen") ELSE Refuse(c)
    /\ UNCHANGED <<device, account, revoked>>

\* mistake: the row is written as it was read.
SeenAsRead(row, c) == [row EXCEPT !.posture = client[c].posture, !.active = TRUE]

\* What UpdateSeen writes: the telemetry the request has read.
Seen(row, c) == [row EXCEPT !.posture = client[c].posture]

UpdateSeen(c) ==
    LET d == client[c].d
    IN /\ Does(c, "seen")
       /\ device' = IF Row(d) = None THEN device ELSE [device EXCEPT ![d] = Seen(@, c)]
       /\ Then(c, IF client[c].exp < now + RenewWindow THEN "touch" ELSE "serve")
       /\ UNCHANGED <<account, revoked>>

Touch(c) ==
    LET d == client[c].d
    IN /\ Does(c, "touch")
       /\ device' = IF Row(d) = None \/ Row(d).exp >= now + RenewWindow THEN device
                    ELSE [device EXCEPT ![d].exp = now + DeviceLife]
       /\ Then(c, "serve")
       /\ UNCHANGED <<account, revoked>>

Serve(c) ==
    /\ Does(c, "serve") /\ client[c].what = "call"
    /\ Refuse(c)
    /\ UNCHANGED <<device, account, revoked>>

Telemetry(c, posture) ==
    LET d == client[c].d
    IN /\ Does(c, "serve") /\ client[c].what = "telemetry"
       /\ device' = IF Row(d) = None THEN device ELSE [device EXCEPT ![d].posture = posture]
       /\ Refuse(c)
       /\ UNCHANGED <<account, revoked>>

AppLogout(c) ==
    LET d == client[c].d
    IN /\ Does(c, "serve") /\ client[c].what = "logout"
       /\ device' = IF Row(d) = None THEN device ELSE [device EXCEPT ![d].active = FALSE]
       /\ revoked' = revoked \cup {d}
       /\ Refuse(c)
       /\ UNCHANGED account

-----------------------------------------------------------------------------
(* Revocation, by the user or an administrator.                              *)

\* AppDeviceRevokeAllForUser: a new password, or the administrator's button.
RevokeAll ==
    /\ \E d \in Device : Row(d) # None /\ Row(d).active
    /\ device' = [d \in Device |-> IF Row(d) = None THEN None ELSE [Row(d) EXCEPT !.active = FALSE]]
    /\ revoked' = revoked \cup {d \in Device : Row(d) # None}
    /\ UNCHANGED <<account, client>>

DeleteDevice(d) ==
    /\ Row(d) # None
    /\ device' = [device EXCEPT ![d] = None]
    /\ revoked' = revoked \cup {d}
    /\ UNCHANGED <<account, client>>

SwitchAccount ==
    /\ account' = ~account
    /\ client' = [c \in Client |->
           IF ~Does(c, "idle") /\ ~account THEN [client[c] EXCEPT !.known = TRUE] ELSE client[c]]
    /\ UNCHANGED <<device, revoked>>

DeviceNext ==
    \/ /\ \/ \E c \in Client :
                \/ AppLogin(c) \/ LoginUser(c)
                \/ \E d \in Device, p \in Posture : CreateDevice(c, d, p)
                \/ \E d \in Device, what \in {"call", "telemetry", "logout"} : Call(c, d, what)
                \/ FindToken(c) \/ CheckUser(c) \/ UpdateSeen(c) \/ Touch(c) \/ Serve(c)
                \/ \E p \in Posture : Telemetry(c, p)
                \/ AppLogout(c)
          \/ RevokeAll
          \/ \E d \in Device : DeleteDevice(d)
          \/ SwitchAccount
       /\ UNCHANGED now
    \/ Tick /\ UNCHANGED adVars

-----------------------------------------------------------------------------
(* Properties.                                                               *)

\* authMiddleware: whatever other requests with the token write meanwhile from
\* what they have read, no handler serves a request that came after the token
\* was revoked or deleted, nor one all of whose time the account was disabled, and
\* neither gets a new token.
ServedInTime ==
    \A c \in Client :
        client[c].pc \in {"serve", "create"} /\ client'[c].pc = "idle" =>
            ~client[c].late /\ client[c].known
RevokedStaysOut == [][ServedInTime]_<<now, adVars>>
=============================================================================

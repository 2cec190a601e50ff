------------------------------- MODULE Licence -------------------------------
(* The licence (license.Manager, three rows of settings) and what it gates:  *)
(* licenseExceeded and ldapLicenseGate, asked before a user is created or    *)
(* enabled.  Each row is read by a query of its own.                         *)
EXTENDS Clock

CONSTANTS Licences,     \* signed files: [id, plan, limit, expires]; a limit of 0 is none
          FreeUserLimit, LicenceGrace,      \* graceLic
          OverGrace,    \* overLimitGrace
          Creator,      \* requests that want one more active user
          MaxUsers      \* bound

ASSUME LicenceAssumption ==
    /\ {FreeUserLimit, LicenceGrace, OverGrace, MaxUsers} \subseteq Nat
    /\ FreeUserLimit > 0
    /\ OverGrace > 1        \* of two requests neither lasts so long
    /\ \A l \in Licences : /\ l.plan \in {"demo", "subscription", "perpetual"} /\ l.id # None
                           /\ l.limit \in Nat /\ l.expires \in Nat

VARIABLES blob, crl,    \* license.blob; the licence that license.crl revokes
          over,         \* license.over_limit_since
          active,       \* enabled users
          upload,       \* a licence that has passed its check
          creator,
          first,        \* history: since when the excess is, as first written down
          seen          \* history: the limits in force since a request came, and the
                        \* fewest users active since then

licVars == <<blob, crl, over, active, upload, creator, first, seen>>

NoCreator == [pc |-> "idle", blob |-> None, limit |-> 0, since |-> None, blind |-> FALSE]
NotSeen == [limits |-> {}, low |-> MaxUsers]

LicenceInit ==
    /\ now = 0
    /\ blob = None /\ crl = None /\ over = None
    /\ active = 0
    /\ upload = None
    /\ creator = [c \in Creator |-> NoCreator]
    /\ first = None
    /\ seen = [c \in Creator |-> NotSeen]

Revocable(l) == l.plan \in {"demo", "subscription"}

\* computeStatus: how many may be active under a file and a revocation; 0 is any.
UserLimit(file, rev) ==
    IF file = None THEN FreeUserLimit
    ELSE LET lapsed == \/ Revocable(file) /\ rev = file.id
                       \/ file.plan = "demo" /\ now >= file.expires
                       \/ file.plan = "subscription" /\ now > file.expires + LicenceGrace
         IN IF lapsed THEN FreeUserLimit ELSE file.limit

Fits(limit, count) == limit = 0 \/ count + 1 <= limit

-----------------------------------------------------------------------------
(* One more active user.                                                     *)

Is(c, pc) == creator[c].pc = pc
To(c, pc) == creator' = [creator EXCEPT ![c].pc = pc]

Wants(c) ==
    /\ Is(c, "idle")
    /\ To(c, "blob")
    /\ UNCHANGED <<blob, crl, over, active, upload, first>>

ReadBlob(c) ==
    /\ Is(c, "blob")
    /\ creator' = [creator EXCEPT ![c].pc = "crl", ![c].blob = blob]
    /\ UNCHANGED <<blob, crl, over, active, upload, first>>

ReadCRL(c) ==
    /\ Is(c, "crl")
    /\ creator' = [creator EXCEPT ![c].pc = "count", ![c].blob = None,
                                  ![c].limit = UserLimit(creator[c].blob, crl)]
    /\ UNCHANGED <<blob, crl, over, active, upload, first>>

\* UserList, then the comparison with the limit.
CountUsers(c) ==
    LET limit == creator[c].limit
    IN /\ Is(c, "count")
       /\ To(c, IF ~Fits(limit, active) THEN "over" ELSE IF limit = 0 THEN "create" ELSE "clear")
       /\ UNCHANGED <<blob, crl, over, active, upload, first>>

ClearOverLimit(c) ==
    /\ Is(c, "clear")
    /\ over' = None /\ first' = None
    /\ To(c, "create")
    /\ UNCHANGED <<blob, crl, active, upload>>

\* OverLimit: the row says since when; nobody has written it yet, or it is older
\* than the grace, or not.
ReadOverLimit(c) ==
    /\ Is(c, "over")
    /\ IF over = None THEN creator' = [creator EXCEPT ![c].pc = "save", ![c].since = now]
       ELSE To(c, IF now - over <= OverGrace THEN "grace" ELSE "refused")
    /\ UNCHANGED <<blob, crl, over, active, upload, first>>

\* saveTime: INSERT ... ON CONFLICT DO NOTHING.
SavedAgain(c) == creator[c].since          \* mistake: DO UPDATE
SavedOver(c) == IF over = None THEN creator[c].since ELSE over

SaveOverLimit(c) ==
    /\ Is(c, "save")
    /\ over' = SavedOver(c)
    /\ first' = IF first = None THEN creator[c].since ELSE first
    /\ To(c, "grace")
    /\ UNCHANGED <<blob, crl, active, upload>>

\* An error of the database lets the user in.
LicenceUnread(c) ==
    /\ creator[c].pc \in {"blob", "crl", "count", "over", "save"}
    /\ creator' = [creator EXCEPT ![c].pc = "create", ![c].blind = TRUE]
    /\ UNCHANGED <<blob, crl, over, active, upload, first>>

CreateUser(c) ==
    /\ creator[c].pc \in {"create", "grace"} /\ active < MaxUsers
    /\ active' = active + 1
    /\ creator' = [creator EXCEPT ![c] = NoCreator]
    /\ UNCHANGED <<blob, crl, over, upload, first>>

Refused(c) ==
    /\ Is(c, "refused")
    /\ creator' = [creator EXCEPT ![c] = NoCreator]
    /\ UNCHANGED <<blob, crl, over, active, upload, first>>

-----------------------------------------------------------------------------
(* The administrator.                                                        *)

DisableUser ==
    /\ active > 0
    /\ active' = active - 1
    /\ UNCHANGED <<blob, crl, over, upload, creator, first>>

\* Upload reads the revocation, then saves.
Upload(l) ==
    /\ upload = None /\ ~(Revocable(l) /\ crl = l.id)
    /\ upload' = l
    /\ UNCHANGED <<blob, crl, over, active, creator, first>>

SaveBlob ==
    /\ upload # None
    /\ blob' = upload /\ upload' = None
    /\ UNCHANGED <<crl, over, active, creator, first>>

\* The model has no second revocation between the two reads of a request, which
\* then pairs a file with a revocation that never were in force together.
UploadCRL(l) ==
    /\ crl # None => \A c \in Creator : ~Is(c, "crl")
    /\ crl' = l.id
    /\ UNCHANGED <<blob, over, active, upload, creator, first>>

RemoveLicence ==
    /\ blob # None
    /\ blob' = None
    /\ UNCHANGED <<crl, over, active, upload, creator, first>>

\* A request does not last from one midnight to the next but one.
LicenceTick ==
    /\ \A c \in Creator : creator[c].since # None => creator[c].since = now
    /\ Tick
    /\ UNCHANGED <<blob, crl, over, active, upload, creator, first>>

LicenceNext ==
    /\ \/ /\ \/ \E c \in Creator :
                   \/ Wants(c) \/ ReadBlob(c) \/ ReadCRL(c) \/ CountUsers(c) \/ ClearOverLimit(c)
                   \/ ReadOverLimit(c) \/ SaveOverLimit(c) \/ LicenceUnread(c)
                   \/ CreateUser(c) \/ Refused(c)
             \/ DisableUser
             \/ \E l \in Licences : Upload(l) \/ UploadCRL(l)
             \/ SaveBlob \/ RemoveLicence
          /\ UNCHANGED now
       \/ LicenceTick
    /\ seen' = [c \in Creator |->
           IF creator'[c].pc = "idle" THEN NotSeen
           ELSE [limits |-> seen[c].limits \cup {UserLimit(blob, crl)'},
                 low |-> IF active' < seen[c].low THEN active' ELSE seen[c].low]]

-----------------------------------------------------------------------------
(* Properties.                                                               *)

\* licenseExceeded and ldapLicenseGate: one more user is let in only when a limit
\* in force since the request came had room for a number of users active since it
\* came, or within the grace counted from what was first written down of the
\* excess, whoever wrote it again meanwhile.  An unread database lets everybody in.
LetInByTheLicence ==
    \A c \in Creator :
        /\ ~Is(c, "create") /\ creator'[c].pc = "create" /\ ~creator'[c].blind =>
               \E limit \in seen[c].limits : Fits(limit, seen[c].low)
        /\ ~Is(c, "grace") /\ creator'[c].pc = "grace" =>
               first' # None /\ now - first' <= OverGrace
GraceKept == [][LetInByTheLicence]_<<now, licVars>>
=============================================================================

------------------------------ MODULE MCServices ------------------------------
(* A small instance of the services around the logins, for TLC. *)
EXTENDS Firewall, RateLimit, RadiusAccess, AppHub, AppDevice, Licence, SettingsStore

CONSTANTS Themes, Guest, Lone, Server, Typed, FirstToken

\* A behaviour explores one service, some of them in two scopes; the others
\* stay as they began.
VARIABLE theme

svcVars == <<now, fwVars, rlVars, raVars, hubVars, adVars, licVars, setVars, theme>>

\* The last moment of each theme.
Reach == [lists |-> 1, bans |-> 3, rate |-> 4, trust |-> 2, locks |-> 1, hub |-> 0,
          device |-> 2, limit |-> 1, grace |-> 3, start |-> 0, edit |-> 0]

\* What TLC's configurations cannot write: with and without a forged header, a
\* name and an address, a licence for ever and a trial.
CONSTANT Forged
Headers == {<<>>, <<None>>, <<Forged>>}
KeyLists == {<<"u">>, <<"u", "ip">>}
Files == {[id |-> 1, plan |-> "subscription", limit |-> 0, expires |-> 0],
          [id |-> 2, plan |-> "demo", limit |-> 2, expires |-> 1]}

-----------------------------------------------------------------------------
(* The firewall. Lists: no bans. Bans: no lists.                             *)

OneClient == \A v \in Visit : visit'[v].client \in {None, Guest}

ListsScope ==
    /\ UNCHANGED bans
    /\ \A v \in Visit : visit'[v].goal = "verdict"

BansScope ==
    /\ UNCHANGED tables
    /\ \A v \in Visit : ~visit'[v].blind

-----------------------------------------------------------------------------
(* The limits: one limiter. *)

Used(l) == (\E c \in Caller : caller'[c].l = l) \/ \E k \in Key : passed'[l][k] # <<>>

RateScope == \A l, m \in Limiter : Used(l) /\ Used(m) => l = m

-----------------------------------------------------------------------------
(* RADIUS. Trust: no failures, one station at a time. Locks: nothing else.   *)

Busy(a) == attempt'[a].pc # "idle"

TrustScope ==
    /\ UNCHANGED guessed
    /\ enabled' \/ days' = 1
    /\ \A a \in Attempt : /\ attempt'[a].kind = "radius"
                          /\ Busy(a) => attempt'[a].password \/ attempt'[a].code
    /\ \A a, b \in Attempt : Busy(a) /\ Busy(b) => attempt'[a].station = attempt'[b].station

LocksScope ==
    /\ days = 0 /\ enabled' /\ Len(guessed') <= 4
    /\ \A a \in Attempt : attempt'[a].station = None /\ ~attempt'[a].password /\ ~attempt'[a].code

-----------------------------------------------------------------------------
(* The licence. Limit: one request. Grace: no other file, no failed query.   *)

LimitScope == \A c \in Creator \ {Lone} : creator'[c].pc = "idle"

GraceScope ==
    /\ UNCHANGED <<upload, crl>>
    /\ \A c \in Creator : ~creator'[c].blind

-----------------------------------------------------------------------------
(* The settings. Start: processes only. Edit: tasks of one process.          *)

Begun == {t \in Task : task[t].pc = "idle" /\ task'[t].pc # "idle"}

StartScope == \A t \in Begun : task'[t].kind = "start"

EditScope ==
    /\ Runs(Server) => snap'[Server] # None
    /\ \A t \in Begun :
          LET q == task'[t]
          IN /\ q.p = Server
             /\ q.kind = "reload" => \E u \in Task : task[u].pc # "idle"
             /\ q.kind = "regenerate" => table["admin_token"] = FirstToken
             /\ q.sent["master_key"] \in {None, Typed}
             /\ q.kind \in {"put", "import"} => q.todo # {} /\ q.sent["support"] = None
             /\ q.sent["smtp"] \notin {None, Mask} => q.sent["smtp"].secret \in {Typed, Mask}

-----------------------------------------------------------------------------

ServicesInit ==
    /\ FirewallInit /\ RateInit /\ RadiusInit /\ HubInit /\ DeviceInit /\ LicenceInit /\ SettingsInit
    /\ theme \in Themes /\ days = (IF theme = "trust" THEN 1 ELSE 0)

OnlyFirewall == FirewallNext /\ UNCHANGED <<rlVars, raVars, hubVars, adVars, licVars, setVars>>
OnlyRate == RateNext /\ UNCHANGED <<fwVars, raVars, hubVars, adVars, licVars, setVars>>
OnlyRadius == RadiusNext /\ UNCHANGED <<fwVars, rlVars, hubVars, adVars, licVars, setVars>>
OnlyHub == HubNext /\ UNCHANGED <<now, fwVars, rlVars, raVars, adVars, licVars, setVars>>
OnlyDevice == DeviceNext /\ UNCHANGED <<fwVars, rlVars, raVars, hubVars, licVars, setVars>>
OnlyLicence == LicenceNext /\ UNCHANGED <<fwVars, rlVars, raVars, hubVars, adVars, setVars>>
OnlySettings == SettingsNext /\ UNCHANGED <<fwVars, rlVars, raVars, hubVars, adVars, licVars>>

ServicesNext ==
    /\ \/ theme \in {"lists", "bans"} /\ OnlyFirewall
       \/ theme = "rate" /\ OnlyRate
       \/ theme \in {"trust", "locks"} /\ OnlyRadius
       \/ theme = "hub" /\ OnlyHub
       \/ theme = "device" /\ OnlyDevice
       \/ theme \in {"limit", "grace"} /\ OnlyLicence
       \/ theme \in {"start", "edit"} /\ OnlySettings
    /\ now' <= Reach[theme]
    /\ theme \in {"lists", "bans"} => OneClient
    /\ theme = "lists" => ListsScope
    /\ theme = "bans" => BansScope
    /\ theme = "rate" => RateScope
    /\ theme = "trust" => TrustScope
    /\ theme = "locks" => LocksScope
    /\ theme = "limit" => LimitScope
    /\ theme = "grace" => GraceScope
    /\ theme = "start" => StartScope
    /\ theme = "edit" => EditScope
    /\ UNCHANGED theme

ServicesSpec == ServicesInit /\ [][ServicesNext]_svcVars /\ HubFairness

\* The limits of the RADIUS server: on the packets of a source and on the
\* failures of a user.
TriesBounded == RateKept /\ GuessesBounded
=============================================================================

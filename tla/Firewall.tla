------------------------------ MODULE Firewall ------------------------------
(* The IP firewall (firewall.Guard, the tables ip_lists and ip_bans): the    *)
(* verdict on an address, from a cache of the lists that curators invalidate *)
(* and from the row that counts the failures of the address.                 *)
EXTENDS Clock, FiniteSets, Sequences

CONSTANTS Visit,        \* requests the guard looks at: HTTP, RADIUS
          Curator,      \* administrators and other instances that edit the lists
          Address, Loopback,
          Trusted,      \* addresses of the proxies, proxy.trusted_networks
          Header,       \* chains of addresses a client may send in X-Forwarded-For
          Net,          \* prefixes: sets of addresses
          ListTTL,      \* listTTL
          BanWindow, BanTime, MaxFail,      \* settings fail2ban.*
          MaxTables     \* bound: versions of the lists

ASSUME FirewallAssumption ==
    /\ {ListTTL, BanWindow, BanTime} \subseteq Nat \ {0}
    /\ MaxFail \in Nat /\ MaxFail >= 2
    /\ Net \subseteq SUBSET Address /\ Loopback \cup Trusted \subseteq Address
    /\ Header \subseteq Seq(Address \cup {None})
    /\ None \notin Visit \cup Address
    /\ None \notin [fails: Nat, at: Nat, until: Nat]

VARIABLES tables,       \* every version of ip_lists that was committed, in order
          cache,        \* Guard.allow, Guard.deny and Guard.loaded
          mutex,        \* who holds Guard.mu across a query
          bans,         \* the table ip_bans
          visit, edit,
          invalidated,  \* history: the last version whose Invalidate has returned
          failed,       \* history: the last MaxFail counted failures of an address
          tripped       \* history: when they last were MaxFail in a row

fwVars == <<tables, cache, mutex, bans, visit, edit, invalidated, failed, tripped>>

Entry == [kind : {"allow", "deny"}, net : Net]
Lists == tables[Len(tables)].rows
Listed(rows, kind, a) == \E e \in rows : e.kind = kind /\ a \in e.net

NoVisit == [pc |-> "idle", a |-> None, client |-> None, goal |-> "verdict",
            read |-> {}, floor |-> 1, blind |-> FALSE]

FirewallInit ==
    /\ now = 0
    /\ tables = <<[rows |-> {}, at |-> 0]>>
    /\ cache = [rows |-> {}, loaded |-> None]
    /\ mutex = None
    /\ bans = [a \in Address |-> None]
    /\ visit = [v \in Visit |-> NoVisit]
    /\ edit = [k \in Curator |-> None]
    /\ invalidated = 1
    /\ failed = [a \in Address |-> <<>>]
    /\ tripped = [a \in Address |-> None]

Fresh == cache.loaded # None /\ now - cache.loaded < ListTTL

-----------------------------------------------------------------------------
(* One request.                                                              *)

At(v, pc) == visit[v].pc = pc
Goto(v, pc) == visit' = [visit EXCEPT ![v].pc = pc]

\* The oldest version a request that arrives now may be judged by.
Floor == CHOOSE i \in DOMAIN tables :
             /\ i = invalidated \/ (i > invalidated /\ tables[i].at + ListTTL <= now)
             /\ \A j \in DOMAIN tables : tables[j].at + ListTTL <= now => j <= i

\* RealIPFrom: the header counts only when the peer is a trusted proxy, and
\* then for the last address in it that is not one (None is what does not parse).
RealIP(peer, header) ==
    LET valid == {i \in DOMAIN header : header[i] # None}
        far == {i \in valid : header[i] \notin Trusted}
    IN IF peer \notin Trusted \/ valid = {} THEN peer
       ELSE IF far = {} THEN header[CHOOSE i \in valid : \A j \in valid : i <= j]
       ELSE header[CHOOSE i \in far : \A j \in far : j <= i]

\* The middleware takes the address of the request and asks for a verdict.  The
\* client comes straight or through a proxy, which adds the client's address.
Visits(v, client, header, proxy) ==
    LET a == IF proxy = None THEN RealIP(client, header)
             ELSE RealIP(proxy, Append(header, client))
    IN
    /\ At(v, "idle") /\ client \notin Trusted
    /\ visit' = [visit EXCEPT ![v] = [NoVisit EXCEPT !.pc = "load", !.a = a, !.client = client,
                                                    !.floor = Floor]]
    /\ UNCHANGED <<tables, cache, mutex, bans, edit, invalidated, failed, tripped>>

\* loadIfStale, with the mutex held from the test to the store.
StillFresh(v) ==
    /\ At(v, "load") /\ mutex = None /\ Fresh
    /\ Goto(v, "look")
    /\ UNCHANGED <<tables, cache, mutex, bans, edit, invalidated, failed, tripped>>

LeaveMutex(v) == mutex' = mutex          \* mistake: the query runs without it
HoldMutex(v) == mutex' = v

TooOld(v) ==
    /\ At(v, "load") /\ mutex = None /\ ~Fresh
    /\ HoldMutex(v)
    /\ Goto(v, "query")
    /\ UNCHANGED <<tables, cache, bans, edit, invalidated, failed, tripped>>

Query(v) ==
    /\ At(v, "query")
    /\ visit' = [visit EXCEPT ![v].pc = "store", ![v].read = Lists]
    /\ UNCHANGED <<tables, cache, mutex, bans, edit, invalidated, failed, tripped>>

\* The old lists stay in use.
QueryFails(v) ==
    /\ At(v, "query")
    /\ mutex' = None
    /\ visit' = [visit EXCEPT ![v].pc = "look", ![v].blind = TRUE]
    /\ UNCHANGED <<tables, cache, bans, edit, invalidated, failed, tripped>>

StoreLists(v) ==
    /\ At(v, "store")
    /\ cache' = [rows |-> visit[v].read, loaded |-> now]
    /\ mutex' = None
    /\ Goto(v, "look")
    /\ UNCHANGED <<tables, bans, edit, invalidated, failed, tripped>>

\* CheckUntil: the black list, the white list, then the ban.
Judge(v) ==
    /\ At(v, "look") /\ visit[v].goal = "verdict" /\ mutex = None
    /\ Goto(v, IF Listed(cache.rows, "deny", visit[v].a) THEN "refused"
               ELSE IF Listed(cache.rows, "allow", visit[v].a) THEN "in" ELSE "ban")
    /\ UNCHANGED <<tables, cache, mutex, bans, edit, invalidated, failed, tripped>>

BanActive(a) == bans[a] # None /\ bans[a].until > now

LookUpBan(v) ==
    /\ At(v, "ban")
    /\ Goto(v, IF BanActive(visit[v].a) THEN "refused" ELSE "in")
    /\ UNCHANGED <<tables, cache, mutex, bans, edit, invalidated, failed, tripped>>

\* An error of the database lets the request pass.
BanUnknown(v) ==
    /\ At(v, "ban")
    /\ visit' = [visit EXCEPT ![v].pc = "in", ![v].blind = TRUE]
    /\ UNCHANGED <<tables, cache, mutex, bans, edit, invalidated, failed, tripped>>

Leaves(v) ==
    /\ visit[v].pc \in {"in", "refused"}
    /\ visit' = [visit EXCEPT ![v] = NoVisit]
    /\ UNCHANGED <<tables, cache, mutex, bans, edit, invalidated, failed, tripped>>

\* A wrong password or code: core.audit calls Fail, which asks both lists.
Fails(v) ==
    /\ At(v, "in") /\ visit[v].a \notin Loopback
    /\ visit' = [visit EXCEPT ![v].pc = "load", ![v].goal = "deny"]
    /\ UNCHANGED <<tables, cache, mutex, bans, edit, invalidated, failed, tripped>>

ContainsListed(v) ==
    /\ At(v, "look") /\ visit[v].goal # "verdict" /\ mutex = None
    /\ visit' = [visit EXCEPT ![v] =
           CASE Listed(cache.rows, @.goal, @.a) -> NoVisit
             [] @.goal = "deny" /\ ~Listed(cache.rows, "deny", @.a) ->
                    [@ EXCEPT !.goal = "allow", !.pc = "load"]
             [] OTHER -> [@ EXCEPT !.pc = "count"]]
    /\ UNCHANGED <<tables, cache, mutex, bans, edit, invalidated, failed, tripped>>

\* The counter is carried on while the row is younger than the window.
Counted(row) == IF row # None /\ row.at > now - BanWindow THEN row.fails + 1 ELSE 1

Punished(row) ==
    [fails |-> Counted(row), at |-> now,
     until |-> IF row = None THEN now
               ELSE IF Counted(row) >= MaxFail /\ row.until <= now THEN now + BanTime ELSE row.until]

\* MaxFail failures, each less than a window after the one before.
InARow(times) ==
    /\ Len(times) = MaxFail
    /\ \A i \in 1 .. MaxFail - 1 : times[i + 1] - times[i] < BanWindow

Latest(times) == IF Len(times) > MaxFail THEN Tail(times) ELSE times

BanRuns(a) == tripped[a] # None /\ now < tripped[a] + BanTime

\* BanFail is one statement; its counter stops mattering at MaxFail.
BanFail(v) ==
    LET a == visit[v].a
        times == Latest(Append(failed[a], now))
    IN /\ At(v, "count")
       /\ bans' = [bans EXCEPT ![a] = Punished(@)]
       /\ failed' = [failed EXCEPT ![a] = times]
       /\ tripped' = [tripped EXCEPT ![a] = IF InARow(times) /\ ~BanRuns(a) THEN now ELSE @]
       /\ visit' = [visit EXCEPT ![v] = NoVisit]
       /\ UNCHANGED <<tables, cache, mutex, edit, invalidated>>

-----------------------------------------------------------------------------
(* The administrator.                                                        *)

\* IPListAdd and IPListDelete.
Commit(k, e) ==
    LET rows == IF e \in Lists THEN Lists \ {e} ELSE Lists \cup {e}
    IN /\ edit[k] = None /\ Len(tables) < MaxTables
       /\ tables' = Append(tables, [rows |-> rows, at |-> now])
       /\ edit' = [edit EXCEPT ![k] = Len(tables) + 1]
       /\ UNCHANGED <<cache, mutex, bans, visit, invalidated, failed, tripped>>

Invalidate(k) ==
    /\ edit[k] # None /\ mutex = None
    /\ cache' = [cache EXCEPT !.loaded = None]
    /\ edit' = [edit EXCEPT ![k] = None]
    /\ invalidated' = IF edit[k] > invalidated THEN edit[k] ELSE invalidated
    /\ UNCHANGED <<tables, mutex, bans, visit, failed, tripped>>

\* The edit was another instance's: nobody invalidates this cache.
Elsewhere(k) ==
    /\ edit[k] # None
    /\ edit' = [edit EXCEPT ![k] = None]
    /\ UNCHANGED <<tables, cache, mutex, bans, visit, invalidated, failed, tripped>>

Unban(a) ==
    /\ bans[a] # None
    /\ bans' = [bans EXCEPT ![a] = None]
    /\ failed' = [failed EXCEPT ![a] = <<>>]
    /\ tripped' = [tripped EXCEPT ![a] = None]
    /\ UNCHANGED <<tables, cache, mutex, visit, edit, invalidated>>

\* A query is taken to last less than one unit of the clock.
FirewallTick ==
    /\ \A v \in Visit : visit[v].pc \notin {"query", "store"}
    /\ Tick
    /\ UNCHANGED fwVars

FirewallNext ==
    \/ /\ \/ \E v \in Visit :
                \/ \E client \in Address, header \in Header, proxy \in Trusted \cup {None} :
                       Visits(v, client, header, proxy)
                \/ StillFresh(v) \/ TooOld(v) \/ Query(v) \/ QueryFails(v) \/ StoreLists(v)
                \/ Judge(v) \/ LookUpBan(v) \/ BanUnknown(v) \/ Leaves(v)
                \/ Fails(v) \/ ContainsListed(v) \/ BanFail(v)
          \/ \E k \in Curator :
                \/ \E e \in Entry : Commit(k, e)
                \/ Invalidate(k) \/ Elsewhere(k)
          \/ \E a \in Address : Unban(a)
       /\ UNCHANGED now
    \/ FirewallTick

-----------------------------------------------------------------------------
(* Properties.                                                               *)

Reaches(v, pc) == ~At(v, pc) /\ visit'[v].pc = pc

\* Versions the verdict on a request may be taken from.
Judges(v) == {tables[i].rows : i \in visit[v].floor .. Len(tables)}

VerdictFounded(v) ==
    LET a == visit[v].client
    IN /\ Reaches(v, "in") /\ At(v, "look") =>
              \E rows \in Judges(v) : Listed(rows, "allow", a) /\ ~Listed(rows, "deny", a)
       /\ Reaches(v, "ban") =>
              \E rows \in Judges(v) : ~Listed(rows, "allow", a) /\ ~Listed(rows, "deny", a)
       /\ Reaches(v, "refused") =>
              BanRuns(a) \/ \E rows \in Judges(v) : Listed(rows, "deny", a)
       /\ Reaches(v, "in") /\ At(v, "ban") => ~BanRuns(a)

\* Guard.CheckUntil with loadIfStale, Invalidate and BanFail: a request is
\* judged by a version of the lists that was current at some moment since its
\* arrival, or since ListTTL before it when another instance made the edit, never
\* by one whose Invalidate had returned before it came; and it is let past the
\* ban only when the last MaxFail failures of its address did not come in a row,
\* or BanTime has passed since.  A failed query is the code's exception.
CleanVerdict == \A v \in Visit : visit'[v].blind \/ VerdictFounded(v)
OnlyCleanEnter == [][CleanVerdict]_<<now, fwVars>>
=============================================================================

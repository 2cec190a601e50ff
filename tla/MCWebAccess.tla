----------------------------- MODULE MCWebAccess -----------------------------
(* A small instance of OidcProvider for TLC. *)
EXTENDS OidcProvider, TLC

CONSTANTS Themes,
          Main          \* the client that is edited and deleted

\* A behaviour explores one meeting of requests, two at a time: with stale
\* rows and the directory, passkeys and their windows, cookies and a change
\* of the password, or the OIDC provider.
VARIABLE theme

Meeting == [account |-> {"first", "second", "push", "patch", "profile"},
            passkey |-> {"begin", "finish", "first", "window", "second", "unkey"},
            cookies |-> {"first", "password", "logout", "forget"},
            consent |-> {"first", "logout"}]

Started == {call'[c] : c \in {d \in Call : call'[d].pc # "idle"}}
Busy == Cardinality({c \in Call : call'[c].pc # "idle"})
          + Cardinality({f \in Flow : flow'[f].pc # "idle"})
Used(rows) == Cardinality({x \in DOMAIN rows : rows[x].st # "absent"})

\* New rows take the smallest number that is free: the names mean nothing.
InOrder(rows) == \A i, j \in DOMAIN rows :
                     i < j /\ rows[j].st # "absent" => rows[i].st # "absent"

Plain(r) == ~r.remember /\ r.typed = AnyPassword /\ r.d = None

\* Stale copies of the row, the directory and the administrator's word.
AccountScope ==
    /\ now' = 0 /\ ~passkey' /\ Exists' /\ Used(sess') <= 1
    /\ user'.pwd = AnyPassword /\ directory'.pwd = AnyPassword
    /\ \A r \in Started : /\ Plain(r) /\ (r.kind = "patch" => r.edit # "none")
                          /\ r.kind \in {"first", "second"} => r.html = (user.source = "local")

\* Two ceremonies and two windows at one moment, or two rows over time.
PasskeyScope ==
    /\ \A r \in Started : /\ Plain(r) /\ r.pc # "factor"
                          /\ r.kind = "first" => r.html
                          /\ r.kind = "second" => ~r.html
    /\ Used(db') > 2 =>
          now' = 0 /\ Exists' /\ \A r \in Started : r.kind \in {"begin", "finish", "second"}

\* Two sessions at one moment, or one over time, around one new password.
CookiesScope ==
    /\ ~passkey' /\ \A r \in Started : r.kind = "first" => r.html
    /\ user.pwd # AnyPassword => user'.pwd = user.pwd
    /\ now' > 0 => Used(sess') <= 1

\* One session, two requests to the provider, one client that changes.
ConsentScope ==
    /\ Used(sess') <= 1
    /\ \A k \in Client : k # Main => client'[k] = client[k]
    /\ \A r \in Started : Plain(r) /\ ~r.html

Scope ==
    /\ InOrder(sess') /\ InOrder(dev') /\ InOrder(db') /\ InOrder(code') /\ InOrder(token')
    /\ Busy <= 2
    /\ \A r \in Started : r.kind \in Meeting[theme]
    /\ \A c \in Call : Here(c, "idle") => call'[c].typed \in {AnyPassword, user.pwd}
    /\ theme # "account" => user.source = "local" /\ user.enc
    /\ theme # "consent" => UNCHANGED <<flow, client>>
    /\ CASE theme = "account" -> AccountScope
         [] theme = "passkey" -> PasskeyScope
         [] theme = "cookies" -> CookiesScope
         [] theme = "consent" -> ConsentScope

ScopedInit == Init /\ theme \in Themes
ScopedNext == Next /\ Scope /\ UNCHANGED theme
ScopedSpec == ScopedInit /\ [][ScopedNext]_<<vars, theme>>

Sym == Permutations(Call) \cup Permutations(Flow)
=============================================================================

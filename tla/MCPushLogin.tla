---------------------------- MODULE MCPushLogin ----------------------------
(* A small instance of PushLogin for TLC. *)
EXTENDS PushLogin, TLC, Integers

PreferBoth == <<"app_push", "telegram_push">>
PreferApp == <<"app_push">>

\* The client sends its next request when the last one is answered.
Serial ==
    \A r \in Request : req[r].pc = "idle" /\ req'[r].pc # "idle"
        => \A s \in Request \ {r} : req[s].pc \in ReqAnswer \cup {"idle"}

SerialSpec == Init /\ [][Next /\ Serial]_vars

\* What one behaviour of the run "push" explores: one web login with every
\* tab and every answer, or a RADIUS request beside one tab and one answer.
\* Rows, tabs and answers, which are numbers there, are taken in their order:
\* nothing but the name tells them apart.
Meeting ==
    \/ /\ \A r \in Request : req[r].pc = "idle"
       /\ \A c \in Challenge \ 1..2 : db[c].st = "absent"
    \/ /\ \A t \in Tab \ {1} : tab[t].pc = "idle"
       /\ \A a \in Tap \ {1} : tap[a].pc = "idle"

InOrder ==
    /\ \A c, d \in Challenge : d < c /\ db[c].st # "absent" => db[d].st # "absent"
    /\ \A t, u \in Tab : u < t /\ tab[t].pc # "idle" => tab[u] # [pc |-> "idle", ch |-> None, at |-> 1]
    /\ \A a, b \in Tap : b < a /\ tap[a].pc # "idle" => tap[b].pc # "idle"

MeetingSpec == Init /\ [][Next /\ (Meeting /\ InOrder)']_vars /\ Fairness

Sym == Permutations(Request) \cup Permutations(Tab) \cup Permutations(Tap)
          \cup Permutations(Challenge)
=============================================================================

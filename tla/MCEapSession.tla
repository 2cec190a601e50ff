---------------------------- MODULE MCEapSession ----------------------------
(* A small instance of EapSession for TLC. *)
EXTENDS EapSession, TLC

\* What one behaviour explores: one supplicant and what the network and the
\* TLS engine do to it, two mishaps at most; or time passing for a supplicant
\* that shares a full store with another and with a session nobody uses.
Mishaps == spent.dups + spent.late + spent.loss + Cardinality({s \in Sess : sess[s].early})
Faults == now = 0 /\ cl[2].pc = "idle" /\ Mishaps <= 2
FullStore ==
    /\ \A s \in Sess : ~sess[s].early /\ sess[s].buf = <<>> /\ ~sess[s].pending
    /\ spent.late = 0 /\ spent.loss = 0
    /\ spent.dups > 0 => \/ Cardinality({s \in Sess : sess[s].owner = 1}) = 2
                         \/ \E h \in Handler : hand[h].p # None /\ hand[h].p.type = "identity"

\* Handlers and sessions are taken in their order.
InOrder ==
    /\ \A s, t \in Sess : s < t /\ sess'[t].st # "absent" => sess'[s].st # "absent"
    /\ \A g, h \in Handler : g < h /\ hand[g].pc = "idle" => hand'[h] = hand[h] \/ hand'[h].pc = "idle"

MCSpec == Init /\ cl[2].wants = "other" /\ [][Next /\ InOrder /\ (Faults \/ FullStore)']_vars /\ Fairness
=============================================================================

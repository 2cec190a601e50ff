--------------------------- MODULE MCCodeFactors ---------------------------
(* A small instance of CodeFactors for TLC. *)
EXTENDS CodeFactors, TLC

CONSTANTS k1, k2

\* Two codes that alternate along the counters: with a window of three, one
\* code is that of two counters, and codes of two secrets collide.
AlternatingCode(gen, t) == IF (gen + t) % 2 = 0 THEN k1 ELSE k2

\* A behaviour explores one meeting of the factors in breadth: two delivered
\* codes, or a challenge beside one secret, or two secrets, or two batches of
\* backup codes; the whole clock is left to what lives alone.
Delivered == {c \in Challenge : db'[c].st # "absent"}
Drawn == {b \in BackupCode : backup'[b] # "none"}

Scope ==
    /\ Cardinality(Delivered) > 1 => secrets' = 0 /\ Drawn = {}
    /\ \A c \in Delivered : db'[c].channel = "email" => Drawn = {}
    /\ Delivered # {} => secrets' <= 1
    /\ Delivered # {} \/ secrets' > 1 => Cardinality(Drawn) <= 1
    /\ Cardinality(Delivered) + secrets' + Cardinality(Drawn) > 1 => now' <= 1

ScopedSpec == Init /\ [][Next /\ Scope]_vars

Sym == Permutations(Request) \cup Permutations(BackupCode) \cup Permutations(Challenge)
=============================================================================

---------------------------- MODULE OneTimeGrant ----------------------------
(***************************************************************************)
(* What a one-time token promises, whatever table it lives in: a token is  *)
(* redeemed only after its owner's proof was given (a push approved, a     *)
(* code typed, a ceremony finished), and at most one request redeems it.   *)
(* The challenges of internal/store/challenges.go make this promise with   *)
(* the conditional UPDATE of ChallengeMarkUsed.                            *)
(***************************************************************************)
CONSTANTS Token, Redeemer

VARIABLES proved,       \* the tokens whose proof was given
          redeemed      \* the pairs <<token, redeemer>> that succeeded

Init == proved = {} /\ redeemed = {}

Prove(k) == proved' = proved \cup {k} /\ UNCHANGED redeemed

Redeem(k, r) ==
    /\ k \in proved
    /\ \A s \in Redeemer : <<k, s>> \notin redeemed
    /\ redeemed' = redeemed \cup {<<k, r>>}
    /\ UNCHANGED proved

Next == \E k \in Token : Prove(k) \/ \E r \in Redeemer : Redeem(k, r)

Spec == Init /\ [][Next]_<<proved, redeemed>>
=============================================================================

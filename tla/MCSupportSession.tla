-------------------------- MODULE MCSupportSession --------------------------
(* Small instances of SupportSession for TLC. *)
EXTENDS SupportSession, TLC

\* Every engineer serves every category.
AllSkills == [o \in Operator |-> Category]

\* The handlers of a kind are alike, and so are the values they draw.
Sym == Permutations(Session) \cup Permutations(Code) \cup Permutations(Operator \ Admin)
         \cup Permutations(Request) \cup Permutations(Decision) \cup Permutations(Call)
=============================================================================

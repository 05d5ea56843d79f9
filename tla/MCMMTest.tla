------------------------------ MODULE MCMMTest ------------------------------
(* Values for the constants of MMTest.                                     *)
EXTENDS MMTest, TLC

CONSTANTS n1, n2, n3

MCNodes == {n1, n2, n3}

\* What 1, 2 and 3 blocks of 32 bytes just hold.
MCRequests == {16, 48, 80}
MCPolicies == {"FirstFit", "NextFit", "BestFit"}

\* The client's data are the number 32: a free block of one unit.
MCPayload == [size |-> 1, status |-> FREE]

Symmetry == Permutations(MCNodes)

=============================================================================

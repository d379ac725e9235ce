-------------------------- MODULE MCBudgetGovernor --------------------------
(* The governor in a word of 2^14: the smallest power of two in which the   *)
(* percentage of a remainder fits, as it does in 64 bits.                   *)
EXTENDS BudgetGovernor

Hand(r, s, h) == [enabled |-> TRUE, resume |-> r, soft |-> s, hard |-> h]

\* A disabled policy, a narrow and a wide valid one, and two invalid ones.
MCPolicies == {Disabled, Hand(3, 4, 5), Hand(2, 6, 8), Hand(3, 2, 4), Hand(2, 2, 9)}

MCEnvelopes == {0, 1, 4, 5, 10, 199, 16383}

MCLoads == [Critical : {0, 2, 4}, Important : {0, 2}, Optional : {0, 1, 3}]
=============================================================================

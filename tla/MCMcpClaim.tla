----------------------------- MODULE MCMcpClaim -----------------------------
(* Model-checking instance of McpClaim.                                    *)
EXTENDS McpClaim, TLC

CONSTANTS g1, g2, i1, i2

OneEffect == {[a \in 1..7 |-> 0]}
=============================================================================

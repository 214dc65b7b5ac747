----------------------------- MODULE MCSignedLog -----------------------------
(* Model-checking instance of SignedLog.                                   *)
EXTENDS SignedLog, TLC

CONSTANTS p1, p2

\* Store instances are interchangeable.
InstanceSymmetry == Permutations({p1, p2})
=============================================================================

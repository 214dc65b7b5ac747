---------------------------- MODULE MCStagedCommit ----------------------------
(* Small instances of StagedCommit. *)
EXTENDS StagedCommit, TLC

CONSTANTS s1, s2, k1, k2, t1

\* What consume compares, all of it equal but the world epoch and the mode.
Binding(e, m) == [i \in 1..7 |-> IF i = 3 THEN e ELSE IF i = 6 THEN m ELSE 0]

OneWorld == {Binding(0, "execute")}

TwoWorlds == {Binding(0, "execute"), Binding(1, "simulate")}

Payment ==
  [id |-> s1, key |-> k1, auth |-> t1, binding |-> Binding(0, "execute"),
   until |-> MaxTime, sealed |-> TRUE, mapped |-> TRUE]

\* The same effect a second time, with a key of its own or with the payment's;
\* a copy of the payment with its key changed.
SameGrant == [Payment EXCEPT !.id = s2, !.key = k2]
SameKey == [Payment EXCEPT !.id = s2]
MovedCopy == [Payment EXCEPT !.key = k2]

Contested == {Payment, SameGrant, SameKey, MovedCopy}

\* A rehearsal, in a world that comes later.
Rehearsal ==
  [Payment EXCEPT !.id = s2, !.key = k2, !.binding = Binding(1, "simulate")]

Successive == {Payment, Rehearsal}

AlikeCommitters == Permutations(Committers)
=============================================================================

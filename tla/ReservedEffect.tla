---------------------------- MODULE ReservedEffect ----------------------------
(***************************************************************************)
(* What a commit promises for one idempotency key (docs/staged-effect-     *)
(* commit.md): the key is reserved before anything is sent, its effect     *)
(* happens at most once, it settles once, and what it settles to is true.  *)
(* "ambiguous" is the honest answer when nobody knows, and the only one    *)
(* after which the effect may still arrive.                                *)
(***************************************************************************)
EXTENDS Naturals

CONSTANTS Effects

VARIABLES
  fate,      \* of each key: "open", "reserved" or an outcome
  happened   \* how often its effect was applied

rvars == <<fate, happened>>

Outcomes == {"committed", "simulated", "rejected", "failed", "ambiguous"}

RInit ==
  /\ fate = [k \in Effects |-> "open"]
  /\ happened = [k \in Effects |-> 0]

Reserve(k) ==
  /\ fate[k] = "open"
  /\ fate' = [fate EXCEPT ![k] = "reserved"]
  /\ UNCHANGED happened

Happen(k) ==
  /\ fate[k] \in {"reserved", "ambiguous"}
  /\ happened[k] = 0
  /\ happened' = [happened EXCEPT ![k] = 1]
  /\ UNCHANGED fate

Settle(k) ==
  /\ fate[k] = "reserved"
  /\ \E o \in Outcomes :
       /\ o = "committed" => happened[k] = 1
       /\ o \in {"simulated", "rejected", "failed"} => happened[k] = 0
       /\ fate' = [fate EXCEPT ![k] = o]
  /\ UNCHANGED happened

RNext == \E k \in Effects : Reserve(k) \/ Happen(k) \/ Settle(k)

RSpec == RInit /\ [][RNext]_rvars
=============================================================================

---------------------------- MODULE ApprovalStore ----------------------------
(***************************************************************************)
(* The durable authorization instances of crates/trace-store/src/          *)
(* approval.rs and crates/harness-types/src/approval.rs: the state machine *)
(* of one grant and the operations of a store over them.                   *)
(*                                                                         *)
(* An operation holds the store lock from its reload to its append, so its *)
(* effect on the log is one step (SignedLog and DurableLog justify this);  *)
(* `tokens` is the fold of the log.  What the CALLER learns of that step   *)
(* is a matter of the modules that extend this one: the append may have    *)
(* reached the log although the call returned an error or the caller died. *)
(*                                                                         *)
(* A binding is the tuple of what consume compares, in the order it does.  *)
(***************************************************************************)
EXTENDS Naturals

CONSTANTS
  Ids,        \* authorization ids
  Bindings,   \* effect bindings: functions on 1..7, one value per aspect
  NoBinding,  \* of an id that was never minted
  MaxTime     \* bound: the clock stops here

ASSUME StoreAssumption ==
  /\ \A b \in Bindings : b = [i \in 1..7 |-> b[i]]
  /\ NoBinding \notin Bindings
  /\ MaxTime \in Nat

VARIABLES
  tokens,     \* id -> authorization instance
  now         \* wall clock, in the unit of valid_until_unix_ms

States == {"absent", "pending", "approved", "rejected", "revoked",
           "consumed", "executed"}

Tokens == [state   : States,
           binding : Bindings \union {NoBinding},
           until   : Nat,
           uses    : {0, 1}]

Absent == [state |-> "absent", binding |-> NoBinding, until |-> 0, uses |-> 0]

-----------------------------------------------------------------------------
(* Why consume refuses, or "none".                                         *)

MismatchReasons ==
  <<"principal_mismatch", "resource_mismatch", "world_epoch_mismatch",
    "schema_epoch_mismatch", "provenance_mismatch", "effect_mode_mismatch",
    "effect_mismatch">>

\* The first aspect in which the bindings differ, 0 when there is none.
FirstMismatch(a, b) ==
  IF a = b THEN 0
  ELSE CHOOSE i \in 1..7 : a[i] # b[i] /\ \A j \in 1..(i - 1) : a[j] = b[j]

\* Why a grant that is not approved cannot be consumed.
UnusableReason(t) ==
  IF t.state = "revoked" THEN "revoked"
  ELSE IF t.uses = 0 \/ t.state \in {"consumed", "executed"} THEN "exhausted"
  ELSE "not_approved"

rejection_reason(t, binding, at) ==
  LET mismatch == FirstMismatch(t.binding, binding)
  IN  IF t.state # "approved" THEN UnusableReason(t)
      ELSE IF t.uses = 0 THEN "exhausted"
      ELSE IF at >= t.until THEN "expired"
      ELSE IF mismatch # 0 THEN MismatchReasons[mismatch]
      ELSE "none"

-----------------------------------------------------------------------------
(* The operations, each the line it appends folded into the state.         *)

StoreInit ==
  /\ tokens = [id \in Ids |-> Absent]
  /\ now = 0

\* Variant: a grant for two calls.
Mint_ForTwo(id, binding, until) ==
  /\ tokens[id].state = "absent"
  /\ tokens' = [tokens EXCEPT ![id] =
       [state |-> "pending", binding |-> binding, until |-> until, uses |-> 2]]

Mint(id, binding, until) ==
  /\ tokens[id].state = "absent"
  /\ until # 0
  /\ tokens' = [tokens EXCEPT ![id] =
       [state |-> "pending", binding |-> binding, until |-> until, uses |-> 1]]

Transition(id, from, to) ==
  /\ tokens[id].state \in from
  /\ tokens' = [tokens EXCEPT ![id].state = to]

Approve(id) == Transition(id, {"pending"}, "approved")

Reject(id) == Transition(id, {"pending"}, "rejected")

Revoke(id) == Transition(id, {"pending", "approved"}, "revoked")

MarkExecuted(id) == Transition(id, {"consumed"}, "executed")

\* Variant: the grant is only spent by mark_executed.
Consume_Kept(id, binding, at) ==
  /\ tokens[id].state # "absent"
  /\ rejection_reason(tokens[id], binding, at) = "none"
  /\ UNCHANGED tokens

Consume(id, binding, at) ==
  /\ tokens[id].state # "absent"
  /\ rejection_reason(tokens[id], binding, at) = "none"
  /\ tokens' = [tokens EXCEPT ![id].state = "consumed",
                              ![id].uses = 0]

Tick ==
  /\ now < MaxTime
  /\ now' = now + 1
=============================================================================

------------------------------- MODULE McpClaim -------------------------------
(***************************************************************************)
(* Out-of-band consent in the MCP gateway: mcp_approval.rs (claim, finish) *)
(* and the tools/call arm of mcp_gateway.rs from an ASK verdict on, run by *)
(* several gateway processes over one ApprovalStore, with the operators of *)
(* `harness approvals` (and embedders that revoke) acting between any two  *)
(* of their steps.                                                         *)
(*                                                                         *)
(* A request is its effect binding: the canonical hash covers the request, *)
(* the lowered call, the upstream command and the world, so claim's        *)
(* comparison of hashes is equality of bindings.  What the two kernel      *)
(* decisions say is left open: the first was ASK, the second, with the     *)
(* approval, may allow or block.                                           *)
(***************************************************************************)
EXTENDS ApprovalStore, FiniteSets

CONSTANTS
  Gateways,    \* gateway processes
  NoId,        \* no authorization id
  Ttl,         \* lifetime of a grant (TTL_MS)
  MaxCrashes   \* bound: gateway deaths in one behaviour

ASSUME ClaimAssumption ==
  /\ NoId \notin Ids
  /\ Ttl \in Nat \ {0}
  /\ MaxCrashes \in Nat

VARIABLES
  pc,        \* where each gateway is with its current request
  request,   \* the binding of that request
  at,        \* the clock as claim sampled it, before it opened the store
  grant,     \* the id it works with
  caution,   \* claim saw a consumed grant for the same effect
  alive,     \* the upstream child runs
  crashes,
  sent,      \* history: calls sent upstream under each id
  replied,   \* history: ids whose upstream reply arrived
  spentEarlier  \* history: ids consumed for the request's effect when it came

gateway == <<pc, request, at, grant, caution, alive, crashes>>
history == <<sent, replied, spentEarlier>>
vars == <<tokens, now, gateway, history>>

Labels == {"ready", "opening", "consume", "mint", "answer", "claimed",
           "forward", "awaiting", "finish"}

Init ==
  /\ StoreInit
  /\ pc = [g \in Gateways |-> "ready"]
  /\ request = [g \in Gateways |-> NoBinding]
  /\ at = [g \in Gateways |-> 0]
  /\ grant = [g \in Gateways |-> NoId]
  /\ caution = [g \in Gateways |-> FALSE]
  /\ alive = [g \in Gateways |-> TRUE]
  /\ crashes = 0
  /\ sent = [id \in Ids |-> 0]
  /\ replied = {}
  /\ spentEarlier = [g \in Gateways |-> {}]

Goto(g, l) == pc' = [pc EXCEPT ![g] = l]

\* The gateway answers the host and forgets the request; a Claim is dropped.
Answered(g) ==
  /\ Goto(g, "ready")
  /\ request' = [request EXCEPT ![g] = NoBinding]
  /\ at' = [at EXCEPT ![g] = 0]
  /\ grant' = [grant EXCEPT ![g] = NoId]
  /\ caution' = [caution EXCEPT ![g] = FALSE]
  /\ spentEarlier' = [spentEarlier EXCEPT ![g] = {}]

ConsumedFor(binding) ==
  {id \in Ids : tokens[id].state = "consumed" /\ tokens[id].binding = binding}

-----------------------------------------------------------------------------
(* claim.                                                                  *)

\* A tools/call whose verdict is ASK; the clock is read before the store is
\* opened.
Call(g) ==
  /\ pc[g] = "ready"
  /\ \E b \in Bindings :
       /\ request' = [request EXCEPT ![g] = b]
       /\ spentEarlier' = [spentEarlier EXCEPT ![g] = ConsumedFor(b)]
  /\ at' = [at EXCEPT ![g] = now]
  /\ Goto(g, "opening")
  /\ UNCHANGED <<tokens, now, grant, caution, alive, crashes, sent, replied>>

\* Grants for this very effect that are still live at the sampled time.
Matching(g, state) ==
  {id \in Ids : /\ tokens[id].state = state
                /\ tokens[id].binding = request[g]
                /\ tokens[id].until > at[g]
                /\ tokens[id].uses > 0}

\* Variant: `uncertain` asks for live grants, which a consumed one never is.
Uncertain_Live(g) == Matching(g, "consumed") # {}

Uncertain(g) == ConsumedFor(request[g]) # {}

\* One snapshot of the store decides: consume an approved grant, point to a
\* pending one, or mint.
OpenStore(g) ==
  /\ pc[g] = "opening"
  /\ caution' = [caution EXCEPT ![g] = Uncertain(g)]
  /\ \/ \E id \in Matching(g, "approved") :
          grant' = [grant EXCEPT ![g] = id] /\ Goto(g, "consume")
     \/ /\ Matching(g, "approved") = {}
        /\ \E id \in Matching(g, "pending") :
             grant' = [grant EXCEPT ![g] = id] /\ Goto(g, "answer")
     \/ /\ Matching(g, "approved") = {}
        /\ Matching(g, "pending") = {}
        /\ Goto(g, "mint") /\ UNCHANGED grant
  /\ UNCHANGED <<tokens, now, request, at, alive, crashes, history>>

\* The store does not open: no call is forwarded.
OpenFails(g) ==
  /\ pc[g] = "opening"
  /\ Answered(g)
  /\ UNCHANGED <<tokens, now, alive, crashes, sent, replied>>

\* The durable claim.  An error may come before the Consumed line or after it;
\* a rejection appends evidence only.  Neither forwards anything.
ClaimGrant(g) ==
  /\ pc[g] = "consume"
  /\ Consume(grant[g], request[g], at[g])
  /\ \/ Goto(g, "claimed") /\ UNCHANGED <<request, at, grant, caution, spentEarlier>>
     \/ Answered(g)
  /\ UNCHANGED <<now, alive, crashes, sent, replied>>

ClaimRefused(g) ==
  /\ pc[g] = "consume"
  /\ Answered(g)
  /\ UNCHANGED <<tokens, now, alive, crashes, sent, replied>>

\* The id is made of the process id and the clock: no other request has it.
MintGrant(g) ==
  /\ pc[g] = "mint"
  /\ \E id \in Ids :
       /\ Mint(id, request[g], at[g] + Ttl)
       /\ \/ /\ grant' = [grant EXCEPT ![g] = id]
             /\ Goto(g, "answer")
             /\ UNCHANGED <<request, at, caution, spentEarlier>>
          \/ Answered(g)
  /\ UNCHANGED <<now, alive, crashes, sent, replied>>

MintFails(g) ==
  /\ pc[g] = "mint"
  /\ Answered(g)
  /\ UNCHANGED <<tokens, now, alive, crashes, sent, replied>>

\* "pending approval <id> ...", with the caution or without it.
AnswerPending(g) ==
  /\ pc[g] = "answer"
  /\ Answered(g)
  /\ UNCHANGED <<tokens, now, alive, crashes, sent, replied>>

-----------------------------------------------------------------------------
(* From the claim to the answer.                                           *)

\* The kernel decides again with the approval.  A block, or a call that
\* cannot be lowered, leaves the grant spent and sends nothing.
Reevaluate(g) ==
  /\ pc[g] = "claimed"
  /\ \/ Goto(g, "forward") /\ UNCHANGED <<request, at, grant, caution, spentEarlier>>
     \/ Answered(g)
  /\ UNCHANGED <<tokens, now, alive, crashes, sent, replied>>

\* The request is written to the upstream's stdin: from here on its effect
\* may happen.
Forward(g) ==
  /\ pc[g] = "forward"
  /\ alive[g]
  /\ sent' = [sent EXCEPT ![grant[g]] = @ + 1]
  /\ Goto(g, "awaiting")
  /\ UNCHANGED <<tokens, now, request, at, grant, caution, alive, crashes, replied, spentEarlier>>

\* Variant: the gateway waits for the upstream to come back.
ForwardFails_Waits(g) ==
  /\ pc[g] = "forward"
  /\ ~alive[g]
  /\ UNCHANGED vars

\* The upstream is gone and is not started again.
ForwardFails(g) ==
  /\ pc[g] = "forward"
  /\ ~alive[g]
  /\ Answered(g)
  /\ UNCHANGED <<tokens, now, alive, crashes, sent, replied>>

Reply(g) ==
  /\ pc[g] = "awaiting"
  /\ replied' = replied \union {grant[g]}
  /\ Goto(g, "finish")
  /\ UNCHANGED <<tokens, now, request, at, grant, caution, alive, crashes, sent, spentEarlier>>

\* Variant: a lost reply is retried under the same grant.
ReplyLost_Retry(g) ==
  /\ pc[g] = "awaiting"
  /\ Goto(g, "forward")
  /\ UNCHANGED <<tokens, now, request, at, grant, caution, alive, crashes, history>>

\* Variant: a lost reply is recorded as executed.
ReplyLost_Recorded(g) ==
  /\ pc[g] = "awaiting"
  /\ MarkExecuted(grant[g])
  /\ Answered(g)
  /\ UNCHANGED <<now, alive, crashes, sent, replied>>

\* The connection ends, or what comes back is no answer: "outcome unknown".
ReplyLost(g) ==
  /\ pc[g] = "awaiting"
  /\ \/ alive' = [alive EXCEPT ![g] = FALSE]
     \/ UNCHANGED alive
  /\ Answered(g)
  /\ UNCHANGED <<tokens, now, crashes, sent, replied>>

\* mark_executed, whose error is reported and not retried.
Finish(g) ==
  /\ pc[g] = "finish"
  /\ \/ MarkExecuted(grant[g])
     \/ UNCHANGED tokens
  /\ Answered(g)
  /\ UNCHANGED <<now, alive, crashes, sent, replied>>

-----------------------------------------------------------------------------
\* The gateway dies and the host starts another, with a new upstream.
Crash(g) ==
  /\ crashes < MaxCrashes
  /\ pc[g] # "ready"
  /\ crashes' = crashes + 1
  /\ alive' = [alive EXCEPT ![g] = TRUE]
  /\ Answered(g)
  /\ UNCHANGED <<tokens, now, sent, replied>>

Operate ==
  /\ \E id \in Ids : Approve(id) \/ Reject(id) \/ Revoke(id)
  /\ UNCHANGED <<now, gateway, history>>

Time == Tick /\ UNCHANGED <<tokens, gateway, history>>

\* What the gateway does by itself; the upstream's part is up to the upstream.
Own(g) ==
  \/ OpenStore(g) \/ OpenFails(g)
  \/ ClaimGrant(g) \/ ClaimRefused(g)
  \/ MintGrant(g) \/ MintFails(g) \/ AnswerPending(g)
  \/ Reevaluate(g) \/ Forward(g) \/ ForwardFails(g) \/ Finish(g)

Step(g) == Own(g) \/ Reply(g) \/ ReplyLost(g)

Next ==
  \/ \E g \in Gateways : Step(g) \/ Call(g) \/ Crash(g)
  \/ Operate
  \/ Time

Spec == Init /\ [][Next]_vars

\* A gateway keeps running, and waits at most five seconds for the store lock.
\* Nothing makes the upstream answer: Upstream::rpc reads without a timeout.
FairSpec == Spec /\ \A g \in Gateways : WF_vars(Own(g))

-----------------------------------------------------------------------------
(* Properties.                                                             *)

\* Each variable has its type.
TypeOK ==
  /\ tokens \in [Ids -> Tokens]
  /\ now \in Nat
  /\ pc \in [Gateways -> Labels]
  /\ request \in [Gateways -> Bindings \union {NoBinding}]
  /\ at \in [Gateways -> Nat]
  /\ grant \in [Gateways -> Ids \union {NoId}]
  /\ caution \in [Gateways -> BOOLEAN]
  /\ alive \in [Gateways -> BOOLEAN]
  /\ crashes \in Nat
  /\ sent \in [Ids -> Nat]
  /\ replied \subseteq Ids
  /\ spentEarlier \in [Gateways -> SUBSET Ids]

\* At-most-once forwarding per grant: however gateways, operators, errors and
\* deaths interleave, one "yes" sends at most one call (mcp_gateway.rs:656).
OnceForwarded == \A id \in Ids : sent[id] <= 1

\* A call was only ever sent under a grant that is spent now: one that was
\* rejected, withdrawn, or never approved has sent nothing, and the store
\* cannot hand out again what was used.
SentOnlyWhenSpent ==
  \A id \in Ids : sent[id] > 0 => tokens[id].state \in {"consumed", "executed"}

\* The Executed line is evidence of a reply, never of an attempt.
ExecutedMeansReplied ==
  \A id \in Ids : tokens[id].state = "executed" => id \in replied /\ sent[id] = 1

\* When a grant for the same effect was spent before the request came and its
\* outcome is still open, the answer that asks for a new approval says so.
CautionGiven ==
  \A g \in Gateways :
    (pc[g] = "answer" /\ \E id \in spentEarlier[g] : tokens[id].state = "consumed")
      => caution[g]

\* Every call comes to its answer or to a live upstream that has it, whatever
\* the store, the operators and the other gateways do: claim and finish never
\* wait for a person, and a dead upstream is noticed (mcp_gateway.rs:545-708).
CallAnswered ==
  \A g \in Gateways : pc[g] # "ready" ~> pc[g] \in {"ready", "awaiting"}

StatusOf(state) ==
  CASE state = "absent" -> "none"
    [] state = "pending" -> "asked"
    [] state = "approved" -> "granted"
    [] state \in {"rejected", "revoked"} -> "withdrawn"
    [] state \in {"consumed", "executed"} -> "spent"

GrantStatus == [id \in Ids |-> StatusOf(tokens[id].state)]

SingleUse == INSTANCE SingleUseGrant WITH
  Grants    <- Ids,
  status    <- GrantStatus,
  performed <- sent

\* The store and its gateways implement single-use grants.
ImplementsSingleUse == SingleUse!GSpec
=============================================================================

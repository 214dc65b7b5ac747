---------------------------- MODULE McpClaimProofs ----------------------------
(***************************************************************************)
(* McpClaim for any number of gateways, grants, effects and crashes: type  *)
(* correctness, at-most-once forwarding per grant, and the implementation  *)
(* of SingleUseGrant.                                                      *)
(*                                                                         *)
(* OnceForwarded is not inductive: nothing in it says why a gateway that   *)
(* is about to forward is the first.  The strengthening Claims follows a    *)
(* claim from the Consumed line to the answer: whoever holds it holds it   *)
(* alone, the store says consumed, and `sent` says how far it came.        *)
(***************************************************************************)
EXTENDS McpClaim, TLAPS

-----------------------------------------------------------------------------
(* What the operations of the store keep.                                  *)

\* consume goes through for an approved grant only (approval.rs:417-470).
LEMMA NoReasonMeansApproved ==
  ASSUME NEW t, NEW binding, NEW when,
         rejection_reason(t, binding, when) = "none"
  PROVE  t.state = "approved"
BY DEF rejection_reason, UnusableReason

\* Every operation of the store keeps the tokens well-typed.
LEMMA MintTypes ==
  ASSUME tokens \in [Ids -> Tokens], NEW id \in Ids,
         NEW b \in Bindings \union {NoBinding}, NEW until \in Nat, Mint(id, b, until)
  PROVE  tokens' \in [Ids -> Tokens]
<1>1. [state |-> "pending", binding |-> b, until |-> until, uses |-> 1] \in Tokens
  BY DEF Tokens, States
<1> QED BY <1>1 DEF Mint

LEMMA TransitionTypes ==
  ASSUME tokens \in [Ids -> Tokens], NEW id \in Ids,
         NEW from, NEW to \in States, Transition(id, from, to)
  PROVE  tokens' \in [Ids -> Tokens]
<1>1. [tokens[id] EXCEPT !.state = to] \in Tokens
  BY DEF Tokens
<1> QED BY <1>1 DEF Transition

LEMMA ConsumeTypes ==
  ASSUME tokens \in [Ids -> Tokens], NEW id \in Ids,
         NEW b, NEW when, Consume(id, b, when)
  PROVE  tokens' \in [Ids -> Tokens]
<1>1. [tokens[id] EXCEPT !.state = "consumed", !.uses = 0] \in Tokens
  BY DEF Tokens, States
<1> QED BY <1>1 DEF Consume

\* A grant that was spent is out of the store's reach.
SpentUntouched ==
  \A id \in Ids : tokens[id].state \in {"consumed", "executed"} => tokens'[id] = tokens[id]

LEMMA MintLeavesSpent ==
  ASSUME tokens \in [Ids -> Tokens], NEW id \in Ids, NEW b, NEW until, Mint(id, b, until)
  PROVE  SpentUntouched
BY DEF Mint, SpentUntouched

LEMMA TransitionLeavesSpent ==
  ASSUME tokens \in [Ids -> Tokens], NEW id \in Ids, NEW from, NEW to,
         from \cap {"consumed", "executed"} = {}, Transition(id, from, to)
  PROVE  SpentUntouched
BY DEF Transition, SpentUntouched

LEMMA ConsumeLeavesSpent ==
  ASSUME tokens \in [Ids -> Tokens], NEW id \in Ids, NEW b, NEW when, Consume(id, b, when)
  PROVE  SpentUntouched
<1>1. tokens[id].state = "approved"
  BY NoReasonMeansApproved DEF Consume
<1> QED BY <1>1 DEF Consume, SpentUntouched

\* A minted id keeps the effect it was minted for.
BindingsKept ==
  \A id \in Ids : tokens[id].state # "absent" =>
    tokens'[id].binding = tokens[id].binding /\ tokens'[id].state # "absent"

\* No operation of the store moves a grant to another effect.
LEMMA MintKeepsBindings ==
  ASSUME tokens \in [Ids -> Tokens], NEW id \in Ids, NEW b, NEW until, Mint(id, b, until)
  PROVE  BindingsKept
BY DEF Mint, BindingsKept

LEMMA TransitionKeepsBindings ==
  ASSUME tokens \in [Ids -> Tokens], NEW id \in Ids, NEW from,
         NEW to \in States \ {"absent"}, Transition(id, from, to)
  PROVE  BindingsKept
BY DEF Transition, BindingsKept, Tokens

LEMMA ConsumeKeepsBindings ==
  ASSUME tokens \in [Ids -> Tokens], NEW id \in Ids, NEW b, NEW when, Consume(id, b, when)
  PROVE  BindingsKept
BY DEF Consume, BindingsKept, Tokens

-----------------------------------------------------------------------------
Holding == {"claimed", "forward", "awaiting", "finish"}

\* A request works with an id of the store.
GrantIsId ==
  \A g \in Gateways :
    pc[g] \in Holding \union {"consume", "answer"} => grant[g] \in Ids

\* No two gateways hold one claim.
ClaimHeldAlone ==
  \A g, h \in Gateways :
    (g # h /\ pc[g] \in Holding /\ pc[h] \in Holding) => grant[g] # grant[h]

\* What the store and the upstream know of a claim that is held.
ClaimProgress ==
  \A g \in Gateways :
    /\ pc[g] \in Holding => tokens[grant[g]].state = "consumed"
    /\ pc[g] \in {"claimed", "forward"} => sent[grant[g]] = 0
    /\ pc[g] \in {"awaiting", "finish"} => sent[grant[g]] = 1
    /\ pc[g] = "finish" => grant[g] \in replied

-----------------------------------------------------------------------------
(* Type correctness is inductive by itself, with GrantIsId.                *)

LEMMA AnsweredTypes ==
  ASSUME TypeOK, GrantIsId, NEW g \in Gateways, Answered(g)
  PROVE  /\ pc' \in [Gateways -> Labels]
         /\ request' \in [Gateways -> Bindings \union {NoBinding}]
         /\ at' \in [Gateways -> Nat]
         /\ grant' \in [Gateways -> Ids \union {NoId}]
         /\ caution' \in [Gateways -> BOOLEAN]
         /\ spentEarlier' \in [Gateways -> SUBSET Ids]
         /\ GrantIsId'
BY DEF Answered, Goto, TypeOK, GrantIsId, Labels, Holding

Typed == TypeOK /\ GrantIsId

LEMMA TypedInit == Init => Typed
BY StoreAssumption, ClaimAssumption
DEF Init, StoreInit, Typed, TypeOK, GrantIsId, Tokens, States, Absent, Labels, Holding

LEMMA TypedStep ==
  ASSUME Typed, NEW g \in Gateways, Step(g)
  PROVE  Typed'
<1> USE DEF Typed
<1>1. CASE OpenStore(g)
  <2>1. caution' \in [Gateways -> BOOLEAN]
    BY <1>1 DEF OpenStore, TypeOK, Uncertain
  <2>2. grant' \in [Gateways -> Ids \union {NoId}] /\ pc' \in [Gateways -> Labels] /\ GrantIsId'
    BY <1>1 DEF OpenStore, TypeOK, GrantIsId, Matching, Goto, Labels, Holding
  <2> QED BY <1>1, <2>1, <2>2 DEF OpenStore, TypeOK, history
<1>2. CASE OpenFails(g)
  BY <1>2, AnsweredTypes DEF OpenFails, TypeOK
<1>3. CASE ClaimGrant(g)
  <2>1. grant[g] \in Ids
    BY <1>3 DEF ClaimGrant, GrantIsId
  <2>2. tokens' \in [Ids -> Tokens]
    BY <1>3, <2>1, ConsumeTypes DEF ClaimGrant, TypeOK
  <2>3. CASE Answered(g)
    BY <1>3, <2>2, <2>3, AnsweredTypes DEF ClaimGrant, TypeOK
  <2>4. CASE Goto(g, "claimed") /\ UNCHANGED <<request, at, grant, caution, spentEarlier>>
    BY <1>3, <2>1, <2>2, <2>4 DEF ClaimGrant, Goto, TypeOK, GrantIsId, Labels, Holding
  <2> QED BY <1>3, <2>3, <2>4 DEF ClaimGrant
<1>4. CASE ClaimRefused(g)
  BY <1>4, AnsweredTypes DEF ClaimRefused, TypeOK
<1>5. CASE MintGrant(g)
  <2> PICK id \in Ids :
        /\ Mint(id, request[g], at[g] + Ttl)
        /\ \/ /\ grant' = [grant EXCEPT ![g] = id]
              /\ Goto(g, "answer")
              /\ UNCHANGED <<request, at, caution, spentEarlier>>
           \/ Answered(g)
    BY <1>5 DEF MintGrant
  <2>1. tokens' \in [Ids -> Tokens]
    BY MintTypes, ClaimAssumption DEF TypeOK
  <2>2. CASE Answered(g)
    BY <1>5, <2>1, <2>2, AnsweredTypes DEF MintGrant, TypeOK
  <2>3. CASE /\ grant' = [grant EXCEPT ![g] = id]
             /\ Goto(g, "answer")
             /\ UNCHANGED <<request, at, caution, spentEarlier>>
    BY <1>5, <2>1, <2>3 DEF MintGrant, Goto, TypeOK, GrantIsId, Labels, Holding
  <2> QED BY <2>2, <2>3
<1>6. CASE MintFails(g)
  BY <1>6, AnsweredTypes DEF MintFails, TypeOK
<1>7. CASE AnswerPending(g)
  BY <1>7, AnsweredTypes DEF AnswerPending, TypeOK
<1>8. CASE Reevaluate(g)
  <2>1. CASE Answered(g)
    BY <1>8, <2>1, AnsweredTypes DEF Reevaluate, TypeOK
  <2>2. CASE Goto(g, "forward") /\ UNCHANGED <<request, at, grant, caution, spentEarlier>>
    BY <1>8, <2>2 DEF Reevaluate, Goto, TypeOK, GrantIsId, Labels, Holding
  <2> QED BY <1>8, <2>1, <2>2 DEF Reevaluate
<1>9. CASE Forward(g)
  BY <1>9 DEF Forward, Goto, TypeOK, GrantIsId, Labels, Holding
<1>10. CASE ForwardFails(g)
  BY <1>10, AnsweredTypes DEF ForwardFails, TypeOK
<1>11. CASE Reply(g)
  BY <1>11 DEF Reply, Goto, TypeOK, GrantIsId, Labels, Holding
<1>12. CASE ReplyLost(g)
  BY <1>12, AnsweredTypes DEF ReplyLost, TypeOK
<1>13. CASE Finish(g)
  <2>1. tokens' \in [Ids -> Tokens]
    BY <1>13, TransitionTypes DEF Finish, MarkExecuted, TypeOK, GrantIsId, States, Holding
  <2> QED BY <1>13, <2>1, AnsweredTypes DEF Finish, TypeOK
<1> QED
  BY <1>1, <1>2, <1>3, <1>4, <1>5, <1>6, <1>7, <1>8, <1>9, <1>10, <1>11,
     <1>12, <1>13 DEF Step, Own

LEMMA TypedNext == Typed /\ [Next]_vars => Typed'
<1> SUFFICES ASSUME Typed, [Next]_vars PROVE Typed'
  OBVIOUS
<1> USE DEF Typed
<1>1. CASE \E g \in Gateways : Step(g)
  BY <1>1, TypedStep
<1>2. CASE \E g \in Gateways : Call(g)
  BY <1>2 DEF Call, ConsumedFor, Goto, TypeOK, GrantIsId, Labels, Holding
<1>3. CASE \E g \in Gateways : Crash(g)
  BY <1>3, AnsweredTypes DEF Crash, TypeOK
<1>4. CASE Operate
  <2>1. tokens' \in [Ids -> Tokens]
    BY <1>4, TransitionTypes DEF Operate, Approve, Reject, Revoke, TypeOK, States
  <2> QED BY <1>4, <2>1 DEF Operate, TypeOK, GrantIsId, gateway, history
<1>5. CASE Time
  BY <1>5 DEF Time, Tick, TypeOK, GrantIsId, gateway, history
<1>6. CASE UNCHANGED vars
  BY <1>6 DEF vars, TypeOK, GrantIsId, gateway, history
<1> QED BY <1>1, <1>2, <1>3, <1>4, <1>5, <1>6 DEF Next

\* Every variable of the gateways and of the store keeps its type
\* (mcp_gateway.rs:545-708, approval.rs:253-384).
THEOREM TypeCorrect == Spec => []TypeOK
<1>1. Init => Typed
  BY TypedInit
<1>2. Typed /\ [Next]_vars => Typed'
  BY TypedNext
<1>3. Typed => TypeOK
  BY DEF Typed
<1> QED BY <1>1, <1>2, <1>3, PTL DEF Spec

-----------------------------------------------------------------------------
(* At-most-once forwarding.                                                *)

Claims == ClaimHeldAlone /\ ClaimProgress /\ OnceForwarded
            /\ SentOnlyWhenSpent /\ ExecutedMeansReplied

Spent == {"consumed", "executed"}

\* No grant is spent, or stops being spent.
SpentUnchanged ==
  \A id \in Ids :
    (tokens[id].state \in Spent \/ tokens'[id].state \in Spent)
      => tokens'[id].state = tokens[id].state

\* No gateway begins to hold a claim or goes on with one.
ClaimsUnchanged ==
  \A g \in Gateways :
    pc'[g] \in Holding => pc'[g] = pc[g] /\ grant'[g] = grant[g]

LEMMA QuietStep ==
  ASSUME Typed, Claims, SpentUnchanged, ClaimsUnchanged, UNCHANGED <<sent, replied>>
  PROVE  Claims'
<1> USE DEF Typed, Claims
<1>1. ClaimHeldAlone'
  BY DEF ClaimsUnchanged, ClaimHeldAlone
<1>2. ClaimProgress'
  BY DEF ClaimsUnchanged, SpentUnchanged, ClaimProgress, GrantIsId, Holding, Spent
<1>3. SentOnlyWhenSpent' /\ ExecutedMeansReplied'
  BY DEF SpentUnchanged, SentOnlyWhenSpent, ExecutedMeansReplied, Spent
<1>4. OnceForwarded'
  BY DEF OnceForwarded
<1> QED BY <1>1, <1>2, <1>3, <1>4

LEMMA AnsweredLetsGo ==
  ASSUME Typed, NEW g \in Gateways, Answered(g)
  PROVE  ClaimsUnchanged
BY DEF Typed, TypeOK, Answered, Goto, ClaimsUnchanged, Holding

LEMMA MintSpendsNothing ==
  ASSUME Typed, NEW id \in Ids, NEW b, NEW until, Mint(id, b, until)
  PROVE  SpentUnchanged
BY DEF Typed, TypeOK, Mint, SpentUnchanged, Spent

LEMMA OperateSpendsNothing ==
  ASSUME Typed, Operate
  PROVE  SpentUnchanged
BY DEF Typed, TypeOK, Tokens, Operate, Approve, Reject, Revoke, Transition,
       SpentUnchanged, Spent

LEMMA SameTokensSpendNothing ==
  ASSUME UNCHANGED tokens
  PROVE  SpentUnchanged
BY DEF SpentUnchanged

\* The Consumed line: the one step by which a gateway comes to hold a claim.
LEMMA ClaimGrantStep ==
  ASSUME Typed, Claims, NEW g \in Gateways, ClaimGrant(g)
  PROVE  Claims'
<1> USE DEF Typed, Claims
<1> DEFINE id == grant[g]
<1>1. id \in Ids /\ tokens[id].state = "approved"
  BY NoReasonMeansApproved DEF ClaimGrant, Consume, GrantIsId
<1>2. /\ tokens'[id].state = "consumed"
      /\ \A i \in Ids : i # id => tokens'[i] = tokens[i]
  BY <1>1 DEF ClaimGrant, Consume, TypeOK, Tokens
<1>3. sent[id] = 0
  BY <1>1 DEF SentOnlyWhenSpent, TypeOK
<1>4. UNCHANGED <<sent, replied>>
  BY DEF ClaimGrant
<1>5. \A h \in Gateways : pc[h] \in Holding => grant[h] # id
  BY <1>1 DEF ClaimProgress
<1>6. /\ \A h \in Gateways : h # g => pc'[h] = pc[h] /\ grant'[h] = grant[h]
      /\ pc'[g] \in {"claimed", "ready"}
      /\ pc'[g] = "claimed" => grant'[g] = id
  BY DEF ClaimGrant, Goto, Answered, TypeOK
<1>7. ClaimHeldAlone'
  BY <1>5, <1>6 DEF ClaimHeldAlone, Holding
<1>8. ClaimProgress'
  BY <1>1, <1>2, <1>3, <1>4, <1>6 DEF ClaimProgress, GrantIsId, Holding
<1>9. SentOnlyWhenSpent' /\ ExecutedMeansReplied' /\ OnceForwarded'
  BY <1>1, <1>2, <1>3, <1>4 DEF SentOnlyWhenSpent, ExecutedMeansReplied, OnceForwarded
<1> QED BY <1>7, <1>8, <1>9

\* The request goes out: the only step that counts in `sent`.
LEMMA ForwardStep ==
  ASSUME Typed, Claims, NEW g \in Gateways, Forward(g)
  PROVE  Claims'
<1> USE DEF Typed, Claims
<1> DEFINE id == grant[g]
<1>1. id \in Ids /\ tokens[id].state = "consumed" /\ sent[id] = 0
  BY DEF Forward, GrantIsId, ClaimProgress, Holding
<1>2. sent'[id] = 1 /\ \A i \in Ids : i # id => sent'[i] = sent[i]
  BY <1>1 DEF Forward, TypeOK
<1>3. pc'[g] = "awaiting" /\ \A h \in Gateways : h # g => pc'[h] = pc[h]
  BY DEF Forward, Goto, TypeOK
<1>4. UNCHANGED <<tokens, replied, grant>>
  BY DEF Forward
<1>5. pc[g] = "forward" /\ \A h \in Gateways : (h # g /\ pc[h] \in Holding) => grant[h] # id
  BY DEF Forward, ClaimHeldAlone, Holding
<1>6. ClaimHeldAlone'
  BY <1>3, <1>4, <1>5 DEF ClaimHeldAlone, Holding
<1>7. ClaimProgress'
  BY <1>1, <1>2, <1>3, <1>4, <1>5 DEF ClaimProgress, GrantIsId, Holding
<1>8. SentOnlyWhenSpent' /\ OnceForwarded'
  BY <1>1, <1>2, <1>4 DEF SentOnlyWhenSpent, OnceForwarded
<1>9. ExecutedMeansReplied'
  BY <1>1, <1>2, <1>4 DEF ExecutedMeansReplied
<1> QED BY <1>6, <1>7, <1>8, <1>9

\* The reply is recorded: only the holder can do it.
LEMMA FinishStep ==
  ASSUME Typed, Claims, NEW g \in Gateways, Finish(g)
  PROVE  Claims'
<1> USE DEF Typed, Claims
<1> DEFINE id == grant[g]
<1>1. /\ id \in Ids /\ tokens[id].state = "consumed"
      /\ sent[id] = 1 /\ id \in replied
  BY DEF Finish, GrantIsId, ClaimProgress, Holding
<1>2. ClaimsUnchanged /\ pc'[g] = "ready" /\ UNCHANGED <<sent, replied>>
  BY AnsweredLetsGo DEF Finish, Answered, Goto, TypeOK
<1>3. CASE UNCHANGED tokens
  BY <1>2, <1>3, QuietStep, SameTokensSpendNothing
<1>4. CASE MarkExecuted(id)
  <2>1. /\ tokens'[id].state = "executed"
        /\ \A i \in Ids : i # id => tokens'[i] = tokens[i]
    BY <1>1, <1>4 DEF MarkExecuted, Transition, TypeOK, Tokens
  <2>2. \A h \in Gateways : pc'[h] \in Holding => grant'[h] # id
    BY <1>2 DEF Finish, ClaimHeldAlone, ClaimsUnchanged, Holding
  <2>3. ClaimHeldAlone'
    BY <1>2 DEF ClaimHeldAlone, ClaimsUnchanged
  <2>4. ClaimProgress'
    BY <1>2, <2>1, <2>2 DEF ClaimProgress, ClaimsUnchanged, GrantIsId, Holding
  <2>5. SentOnlyWhenSpent' /\ ExecutedMeansReplied' /\ OnceForwarded'
    BY <1>1, <1>2, <2>1 DEF SentOnlyWhenSpent, ExecutedMeansReplied, OnceForwarded
  <2> QED BY <2>3, <2>4, <2>5
<1> QED BY <1>3, <1>4 DEF Finish

LEMMA ClaimsStep ==
  ASSUME Typed, Claims, NEW g \in Gateways, Step(g)
  PROVE  Claims'
<1> USE DEF Typed
<1>1. CASE OpenStore(g)
  <2>1. ClaimsUnchanged
    BY <1>1 DEF OpenStore, Goto, TypeOK, ClaimsUnchanged, Holding
  <2> QED BY <1>1, <2>1, QuietStep, SameTokensSpendNothing DEF OpenStore, history
<1>2. CASE OpenFails(g)
  BY <1>2, QuietStep, SameTokensSpendNothing, AnsweredLetsGo DEF OpenFails
<1>3. CASE ClaimGrant(g)
  BY <1>3, ClaimGrantStep
<1>4. CASE ClaimRefused(g)
  BY <1>4, QuietStep, SameTokensSpendNothing, AnsweredLetsGo DEF ClaimRefused
<1>5. CASE MintGrant(g)
  <2>1. SpentUnchanged
    BY <1>5, MintSpendsNothing DEF MintGrant
  <2>2. ClaimsUnchanged
    BY <1>5, AnsweredLetsGo DEF MintGrant, Goto, TypeOK, ClaimsUnchanged, Holding
  <2> QED BY <1>5, <2>1, <2>2, QuietStep DEF MintGrant
<1>6. CASE MintFails(g)
  BY <1>6, QuietStep, SameTokensSpendNothing, AnsweredLetsGo DEF MintFails
<1>7. CASE AnswerPending(g)
  BY <1>7, QuietStep, SameTokensSpendNothing, AnsweredLetsGo DEF AnswerPending
<1>8. CASE Reevaluate(g)
  <2>1. CASE Answered(g)
    BY <1>8, <2>1, QuietStep, SameTokensSpendNothing, AnsweredLetsGo DEF Reevaluate
  <2>2. CASE Goto(g, "forward") /\ UNCHANGED <<request, at, grant, caution, spentEarlier>>
    BY <1>8, <2>2 DEF Reevaluate, Goto, TypeOK, Claims, ClaimHeldAlone, ClaimProgress,
                      OnceForwarded, SentOnlyWhenSpent, ExecutedMeansReplied, Holding
  <2> QED BY <1>8, <2>1, <2>2 DEF Reevaluate
<1>9. CASE Forward(g)
  BY <1>9, ForwardStep
<1>10. CASE ForwardFails(g)
  BY <1>10, QuietStep, SameTokensSpendNothing, AnsweredLetsGo DEF ForwardFails
<1>11. CASE Reply(g)
  BY <1>11 DEF Reply, Goto, TypeOK, GrantIsId, Claims, ClaimHeldAlone, ClaimProgress,
               OnceForwarded, SentOnlyWhenSpent, ExecutedMeansReplied, Holding
<1>12. CASE ReplyLost(g)
  BY <1>12, QuietStep, SameTokensSpendNothing, AnsweredLetsGo DEF ReplyLost
<1>13. CASE Finish(g)
  BY <1>13, FinishStep
<1> QED
  BY <1>1, <1>2, <1>3, <1>4, <1>5, <1>6, <1>7, <1>8, <1>9, <1>10, <1>11,
     <1>12, <1>13 DEF Step, Own

LEMMA ClaimsNext == Typed /\ Claims /\ [Next]_vars => Claims'
<1> SUFFICES ASSUME Typed, Claims, [Next]_vars PROVE Claims'
  OBVIOUS
<1>1. CASE \E g \in Gateways : Step(g)
  BY <1>1, ClaimsStep
<1>2. CASE \E g \in Gateways : Call(g)
  <2>1. ClaimsUnchanged
    BY <1>2 DEF Call, Goto, Typed, TypeOK, ClaimsUnchanged, Holding
  <2> QED BY <1>2, <2>1, QuietStep, SameTokensSpendNothing DEF Call
<1>3. CASE \E g \in Gateways : Crash(g)
  BY <1>3, QuietStep, SameTokensSpendNothing, AnsweredLetsGo DEF Crash
<1>4. CASE Operate
  <2>1. ClaimsUnchanged /\ UNCHANGED <<sent, replied>>
    BY <1>4 DEF Operate, gateway, history, ClaimsUnchanged
  <2> QED BY <1>4, <2>1, QuietStep, OperateSpendsNothing
<1>5. CASE Time \/ UNCHANGED vars
  <2>1. ClaimsUnchanged /\ UNCHANGED <<tokens, sent, replied>>
    BY <1>5 DEF Time, vars, gateway, history, ClaimsUnchanged
  <2> QED BY <2>1, QuietStep, SameTokensSpendNothing
<1> QED BY <1>1, <1>2, <1>3, <1>4, <1>5 DEF Next

LEMMA ClaimsInit == Init => Claims
BY DEF Init, StoreInit, Absent, Claims, ClaimHeldAlone, ClaimProgress, OnceForwarded,
       SentOnlyWhenSpent, ExecutedMeansReplied, Holding

\* The inductive invariant holds in every reachable state.
THEOREM ClaimInvariant == Spec => [](Typed /\ Claims)
<1>1. Init => Typed /\ Claims
  BY TypedInit, ClaimsInit
<1>2. Typed /\ Claims /\ [Next]_vars => (Typed /\ Claims)'
  BY TypedNext, ClaimsNext
<1> QED BY <1>1, <1>2, PTL DEF Spec

\* One "yes" sends at most one call upstream, for any number of gateways,
\* operators, crashes and lost replies (mcp_gateway.rs:566-667).
THEOREM AtMostOnceForwarding == Spec => []OnceForwarded
<1>1. Typed /\ Claims => OnceForwarded
  BY DEF Claims
<1> QED BY <1>1, ClaimInvariant, PTL

\* What was rejected, revoked or never approved has sent nothing.
THEOREM NothingSentUnspent == Spec => []SentOnlyWhenSpent
<1>1. Typed /\ Claims => SentOnlyWhenSpent
  BY DEF Claims
<1> QED BY <1>1, ClaimInvariant, PTL

\* An Executed line is evidence of one call and its reply.
THEOREM ExecutedIsEvidence == Spec => []ExecutedMeansReplied
<1>1. Typed /\ Claims => ExecutedMeansReplied
  BY DEF Claims
<1> QED BY <1>1, ClaimInvariant, PTL

-----------------------------------------------------------------------------
(* What is sent is what was approved.                                      *)

\* A gateway with a grant works for the very effect the grant is for.
GrantFitsRequest ==
  \A g \in Gateways : pc[g] \in Holding \union {"consume"} =>
    /\ tokens[grant[g]].state # "absent"
    /\ tokens[grant[g]].binding = request[g]

\* No gateway takes up a grant; one that goes on with a grant keeps it.
GrantsUnchanged ==
  \A g \in Gateways : pc'[g] \in Holding \union {"consume"} =>
    /\ pc[g] \in Holding \union {"consume"}
    /\ grant'[g] = grant[g] /\ request'[g] = request[g]

LEMMA FitKept ==
  ASSUME Typed, GrantFitsRequest, BindingsKept, GrantsUnchanged
  PROVE  GrantFitsRequest'
BY DEF Typed, GrantIsId, GrantFitsRequest, BindingsKept, GrantsUnchanged

LEMMA AnsweredFits ==
  ASSUME Typed, NEW g \in Gateways, Answered(g)
  PROVE  GrantsUnchanged
BY DEF Typed, TypeOK, Answered, Goto, GrantsUnchanged, Holding

LEMMA FitStep ==
  ASSUME Typed, GrantFitsRequest, NEW g \in Gateways, Step(g)
  PROVE  GrantFitsRequest'
<1>1. CASE OpenStore(g)
  <2>1. UNCHANGED <<tokens, request>> /\ \A h \in Gateways : h # g =>
          pc'[h] = pc[h] /\ grant'[h] = grant[h]
    BY <1>1 DEF OpenStore, Typed, TypeOK, Goto
  <2>2. pc'[g] \in {"consume", "answer", "mint"}
    BY <1>1 DEF OpenStore, Typed, TypeOK, Goto
  <2>3. pc'[g] = "consume" => grant'[g] \in Matching(g, "approved")
    BY <1>1 DEF OpenStore, Typed, TypeOK, Goto
  <2>4. pc'[g] = "consume" =>
          tokens[grant'[g]].state = "approved" /\ tokens[grant'[g]].binding = request[g]
    BY <2>3 DEF Matching
  <2> QED BY <2>1, <2>2, <2>4 DEF GrantFitsRequest, Holding
<1>2. CASE Answered(g) /\ UNCHANGED tokens
  BY <1>2, FitKept, AnsweredFits DEF BindingsKept
<1>3. CASE ClaimGrant(g)
  <2>1. BindingsKept
    BY <1>3, ConsumeKeepsBindings DEF ClaimGrant, Typed, TypeOK, GrantIsId
  <2>2. GrantsUnchanged
    BY <1>3, AnsweredFits DEF ClaimGrant, Typed, TypeOK, Goto, GrantsUnchanged, Holding
  <2> QED BY <2>1, <2>2, FitKept
<1>4. CASE MintGrant(g)
  <2>1. BindingsKept
    BY <1>4, MintKeepsBindings DEF MintGrant, Typed, TypeOK
  <2>2. GrantsUnchanged
    BY <1>4, AnsweredFits DEF MintGrant, Typed, TypeOK, Goto, GrantsUnchanged, Holding
  <2> QED BY <2>1, <2>2, FitKept
<1>5. CASE Finish(g)
  <2>1. grant[g] \in Ids /\ tokens \in [Ids -> Tokens]
    BY <1>5 DEF Finish, Typed, TypeOK, GrantIsId, Holding
  <2>2. MarkExecuted(grant[g]) => BindingsKept
    BY <2>1, TransitionKeepsBindings DEF MarkExecuted, States
  <2>3. UNCHANGED tokens => BindingsKept
    BY DEF BindingsKept
  <2> QED BY <1>5, <2>2, <2>3, FitKept, AnsweredFits DEF Finish
<1>6. CASE Reevaluate(g) \/ Forward(g) \/ Reply(g)
  <2>1. GrantsUnchanged
    BY <1>6, AnsweredFits DEF Reevaluate, Forward, Reply, Typed, TypeOK, Goto,
                              GrantsUnchanged, Holding
  <2>2. UNCHANGED tokens
    BY <1>6 DEF Reevaluate, Forward, Reply
  <2> QED BY <2>1, <2>2, FitKept DEF BindingsKept
<1> QED
  BY <1>1, <1>2, <1>3, <1>4, <1>5, <1>6 DEF Step, Own, OpenFails, ClaimRefused, MintFails,
     AnswerPending, ForwardFails, ReplyLost

LEMMA FitNext == Typed /\ GrantFitsRequest /\ [Next]_vars => GrantFitsRequest'
<1> SUFFICES ASSUME Typed, GrantFitsRequest, [Next]_vars PROVE GrantFitsRequest'
  OBVIOUS
<1>1. CASE \E g \in Gateways : Step(g)
  BY <1>1, FitStep
<1>2. CASE \E g \in Gateways : Call(g)
  <2>1. GrantsUnchanged /\ UNCHANGED tokens
    BY <1>2 DEF Call, Goto, Typed, TypeOK, GrantsUnchanged, Holding
  <2> QED BY <2>1, FitKept DEF BindingsKept
<1>3. CASE \E g \in Gateways : Crash(g)
  BY <1>3, FitKept, AnsweredFits DEF Crash, BindingsKept
<1>4. CASE Operate
  <2>1. BindingsKept
    BY <1>4, TransitionKeepsBindings DEF Operate, Approve, Reject, Revoke, Typed, TypeOK, States
  <2> QED BY <1>4, <2>1, FitKept DEF Operate, gateway, GrantsUnchanged
<1>5. CASE Time \/ UNCHANGED vars
  BY <1>5, FitKept DEF Time, vars, gateway, GrantsUnchanged, BindingsKept
<1> QED BY <1>1, <1>2, <1>3, <1>4, <1>5 DEF Next

\* A gateway that holds a claim, and so whatever it then forwards, is about the
\* very effect a person approved: the one with the grant's binding, which no
\* interleaving of store operations changes (mcp_approval.rs:79-103).
THEOREM ForwardedIsApproved ==
  Spec => [](\A g \in Gateways :
               pc[g] \in {"claimed", "forward", "awaiting", "finish"} =>
                 tokens[grant[g]].binding = request[g])
<1>1. Init => GrantFitsRequest
  BY DEF Init, GrantFitsRequest, Holding
<1>2. Typed /\ GrantFitsRequest /\ [Next]_vars => GrantFitsRequest'
  BY FitNext
<1>3. GrantFitsRequest => \A g \in Gateways :
        pc[g] \in {"claimed", "forward", "awaiting", "finish"} =>
          tokens[grant[g]].binding = request[g]
  BY DEF GrantFitsRequest, Holding
<1> QED BY <1>1, <1>2, <1>3, ClaimInvariant, PTL DEF Spec

-----------------------------------------------------------------------------
(* The refinement of SingleUseGrant.                                       *)

\* A change of one token is a change of one grant.
LEMMA OneStatusChanges ==
  ASSUME Typed, NEW id \in Ids, NEW to \in States,
         tokens' = [tokens EXCEPT ![id] = tokens'[id]],
         tokens'[id].state = to
  PROVE  GrantStatus' = [GrantStatus EXCEPT ![id] = StatusOf(to)]
BY DEF Typed, TypeOK, GrantStatus

LEMMA TransitionStatus ==
  ASSUME Typed, NEW id \in Ids, NEW from, NEW to \in States, Transition(id, from, to)
  PROVE  GrantStatus' = [GrantStatus EXCEPT ![id] = StatusOf(to)]
<1>1. tokens' = [tokens EXCEPT ![id] = tokens'[id]] /\ tokens'[id].state = to
  BY DEF Transition, Typed, TypeOK, Tokens
<1> QED BY <1>1, OneStatusChanges

LEMMA OperateRefines ==
  ASSUME Typed, Operate
  PROVE  SingleUse!GNext
<1>1. UNCHANGED sent
  BY DEF Operate, history
<1> PICK id \in Ids : Approve(id) \/ Reject(id) \/ Revoke(id)
  BY DEF Operate
<1>2. CASE Approve(id)
  <2>1. GrantStatus[id] = "asked"
    BY <1>2 DEF Approve, Transition, GrantStatus, StatusOf
  <2>2. GrantStatus' = [GrantStatus EXCEPT ![id] = "granted"]
    BY <1>2, TransitionStatus DEF Approve, States, StatusOf
  <2>3. SingleUse!Grant(id)
    BY <1>1, <2>1, <2>2 DEF SingleUse!Grant, SingleUse!Become
  <2> QED BY <2>3 DEF SingleUse!GNext
<1>3. CASE Reject(id) \/ Revoke(id)
  <2>1. GrantStatus[id] \in {"asked", "granted"}
    BY <1>3 DEF Reject, Revoke, Transition, GrantStatus, StatusOf
  <2>2. GrantStatus' = [GrantStatus EXCEPT ![id] = "withdrawn"]
    BY <1>3, TransitionStatus DEF Reject, Revoke, States, StatusOf
  <2>3. SingleUse!Withdraw(id)
    BY <1>1, <2>1, <2>2 DEF SingleUse!Withdraw, SingleUse!Become
  <2> QED BY <2>3 DEF SingleUse!GNext
<1> QED BY <1>2, <1>3

LEMMA MintRefines ==
  ASSUME Typed, NEW g \in Gateways, MintGrant(g)
  PROVE  SingleUse!GNext
<1> PICK id \in Ids : Mint(id, request[g], at[g] + Ttl)
  BY DEF MintGrant
<1>1. GrantStatus[id] = "none" /\ UNCHANGED sent
  BY DEF Mint, MintGrant, GrantStatus, StatusOf
<1>2. GrantStatus' = [GrantStatus EXCEPT ![id] = "asked"]
  <2>1. tokens' = [tokens EXCEPT ![id] = tokens'[id]] /\ tokens'[id].state = "pending"
    BY DEF Mint, Typed, TypeOK
  <2> QED BY <2>1, OneStatusChanges DEF States, StatusOf
<1>3. SingleUse!Ask(id)
  BY <1>1, <1>2 DEF SingleUse!Ask, SingleUse!Become
<1> QED BY <1>3 DEF SingleUse!GNext

LEMMA ClaimRefines ==
  ASSUME Typed, NEW g \in Gateways, ClaimGrant(g)
  PROVE  SingleUse!GNext
<1> DEFINE id == grant[g]
<1>1. id \in Ids /\ tokens[id].state = "approved" /\ UNCHANGED sent
  BY NoReasonMeansApproved DEF ClaimGrant, Consume, Typed, GrantIsId
<1>2. GrantStatus[id] = "granted"
  BY <1>1 DEF GrantStatus, StatusOf
<1>3. GrantStatus' = [GrantStatus EXCEPT ![id] = "spent"]
  <2>1. tokens' = [tokens EXCEPT ![id] = tokens'[id]] /\ tokens'[id].state = "consumed"
    BY <1>1 DEF ClaimGrant, Consume, Typed, TypeOK, Tokens
  <2> QED BY <1>1, <2>1, OneStatusChanges DEF States, StatusOf
<1>4. SingleUse!Spend(id)
  BY <1>1, <1>2, <1>3 DEF SingleUse!Spend, SingleUse!Become
<1> QED BY <1>1, <1>4 DEF SingleUse!GNext

LEMMA ForwardRefines ==
  ASSUME Typed, Claims, NEW g \in Gateways, Forward(g)
  PROVE  SingleUse!GNext
<1> DEFINE id == grant[g]
<1>1. id \in Ids /\ tokens[id].state = "consumed" /\ sent[id] = 0
  BY DEF Forward, Typed, GrantIsId, Claims, ClaimProgress, Holding
<1>2. GrantStatus[id] = "spent" /\ UNCHANGED GrantStatus
  BY <1>1 DEF GrantStatus, StatusOf, Forward
<1>3. sent' = [sent EXCEPT ![id] = 1]
  BY <1>1 DEF Forward
<1>4. SingleUse!Perform(id)
  BY <1>1, <1>2, <1>3 DEF SingleUse!Perform
<1> QED BY <1>1, <1>4 DEF SingleUse!GNext

\* consumed -> executed is a stutter of the abstract grant.
LEMMA FinishRefines ==
  ASSUME Typed, NEW g \in Gateways, Finish(g)
  PROVE  UNCHANGED <<GrantStatus, sent>>
<1>1. CASE MarkExecuted(grant[g])
  <2>1. grant[g] \in Ids /\ tokens[grant[g]].state = "consumed"
    BY <1>1 DEF Finish, MarkExecuted, Transition, Typed, GrantIsId, Holding
  <2>2. GrantStatus' = [GrantStatus EXCEPT ![grant[g]] = "spent"]
    BY <1>1, <2>1, TransitionStatus DEF MarkExecuted, States, StatusOf
  <2>3. GrantStatus[grant[g]] = "spent"
    BY <2>1 DEF GrantStatus, StatusOf
  <2>4. GrantStatus' = GrantStatus
    BY <2>1, <2>2, <2>3 DEF GrantStatus
  <2> QED BY <2>4 DEF Finish
<1>2. CASE UNCHANGED tokens
  BY <1>2 DEF Finish, GrantStatus
<1> QED BY <1>1, <1>2 DEF Finish

LEMMA StepRefines ==
  Typed /\ Claims /\ [Next]_vars => [SingleUse!GNext]_(SingleUse!gvars)
<1> SUFFICES ASSUME Typed, Claims, [Next]_vars
             PROVE  SingleUse!GNext \/ UNCHANGED <<GrantStatus, sent>>
  BY DEF SingleUse!gvars
<1>1. CASE \E g \in Gateways : Step(g)
  <2> PICK g \in Gateways : Step(g)
    BY <1>1
  <2>1. CASE ClaimGrant(g)
    BY <2>1, ClaimRefines
  <2>2. CASE MintGrant(g)
    BY <2>2, MintRefines
  <2>3. CASE Forward(g)
    BY <2>3, ForwardRefines
  <2>4. CASE Finish(g)
    BY <2>4, FinishRefines
  <2>5. CASE \/ OpenStore(g) \/ OpenFails(g) \/ ClaimRefused(g) \/ MintFails(g)
             \/ AnswerPending(g) \/ Reevaluate(g) \/ ForwardFails(g)
             \/ Reply(g) \/ ReplyLost(g)
    <3>1. UNCHANGED <<tokens, sent>>
      BY <2>5 DEF OpenStore, OpenFails, ClaimRefused, MintFails, AnswerPending,
                  Reevaluate, ForwardFails, Reply, ReplyLost, history
    <3> QED BY <3>1 DEF GrantStatus
  <2> QED BY <2>1, <2>2, <2>3, <2>4, <2>5 DEF Step, Own
<1>2. CASE Operate
  BY <1>2, OperateRefines
<1>3. CASE (\E g \in Gateways : Call(g) \/ Crash(g)) \/ Time \/ UNCHANGED vars
  <2>1. UNCHANGED <<tokens, sent>>
    BY <1>3 DEF Call, Crash, Time, vars, history
  <2> QED BY <2>1 DEF GrantStatus
<1> QED BY <1>1, <1>2, <1>3 DEF Next

\* The gateways, the store and the operators together implement single-use
\* grants, crashes and lost replies included.
THEOREM Refinement == Spec => ImplementsSingleUse
<1>1. Init => SingleUse!GInit
  BY DEF Init, StoreInit, Absent, GrantStatus, StatusOf, SingleUse!GInit
<1>2. Typed /\ Claims /\ [Next]_vars => [SingleUse!GNext]_(SingleUse!gvars)
  BY StepRefines
<1> QED BY <1>1, <1>2, ClaimInvariant, PTL DEF Spec, ImplementsSingleUse, SingleUse!GSpec

-----------------------------------------------------------------------------
(* The caution.  CautionGiven speaks of the moment of the answer only.     *)

\* What was spent for a request's effect when it came is still spent, for that
\* effect; and from the snapshot of the store on, the request has the caution
\* when the outcome of one of these grants is open.
SpentRemembered ==
  \A g \in Gateways : \A id \in spentEarlier[g] :
    /\ tokens[id].state \in {"consumed", "executed"}
    /\ tokens[id].binding = request[g]
    /\ pc[g] # "opening" /\ tokens[id].state = "consumed" => caution[g]

\* A spent grant stays spent for its effect, and an outcome once known stays known.
SpentStays ==
  \A id \in Ids : tokens[id].state \in {"consumed", "executed"} =>
    /\ tokens'[id].state \in {"consumed", "executed"}
    /\ tokens'[id].state = "consumed" => tokens[id].state = "consumed"
    /\ tokens'[id].binding = tokens[id].binding

LEMMA UntouchedStays ==
  ASSUME SpentUntouched
  PROVE  SpentStays
BY DEF SpentUntouched, SpentStays

LEMMA ExecutedStays ==
  ASSUME Typed, NEW id \in Ids, MarkExecuted(id)
  PROVE  SpentStays
BY DEF MarkExecuted, Transition, SpentStays, Typed, TypeOK, Tokens

\* No step of a request takes up grants spent before it, or drops its caution.
RequestKept(g) ==
  \A id \in spentEarlier'[g] :
    /\ id \in spentEarlier[g]
    /\ request'[g] = request[g]
    /\ pc'[g] # "opening" => pc[g] # "opening" /\ caution'[g] = caution[g]

LEMMA RememberedKept ==
  ASSUME Typed, SpentRemembered, SpentStays, \A g \in Gateways : RequestKept(g)
  PROVE  SpentRemembered'
<1> SUFFICES ASSUME NEW g \in Gateways, NEW id \in spentEarlier'[g]
             PROVE  /\ tokens'[id].state \in {"consumed", "executed"}
                    /\ tokens'[id].binding = request'[g]
                    /\ pc'[g] # "opening" /\ tokens'[id].state = "consumed" => caution'[g]
  BY DEF SpentRemembered
<1>1. /\ id \in spentEarlier[g] /\ id \in Ids /\ request'[g] = request[g]
      /\ pc'[g] # "opening" => pc[g] # "opening" /\ caution'[g] = caution[g]
  BY DEF RequestKept, Typed, TypeOK
<1>2. /\ tokens[id].state \in {"consumed", "executed"}
      /\ tokens[id].binding = request[g]
      /\ pc[g] # "opening" /\ tokens[id].state = "consumed" => caution[g]
  BY <1>1 DEF SpentRemembered
<1> QED BY <1>1, <1>2 DEF SpentStays

LEMMA AnsweredKeeps ==
  ASSUME Typed, NEW g \in Gateways, Answered(g)
  PROVE  \A h \in Gateways : RequestKept(h)
<1> SUFFICES ASSUME NEW h \in Gateways PROVE RequestKept(h)
  OBVIOUS
<1>1. CASE h = g
  BY <1>1 DEF Answered, RequestKept, Typed, TypeOK
<1>2. CASE h # g
  BY <1>2 DEF Answered, Goto, RequestKept, Typed, TypeOK
<1> QED BY <1>1, <1>2

LEMMA MovesKeep ==
  ASSUME Typed, NEW g \in Gateways, NEW l \in Labels, Goto(g, l), pc[g] # "opening",
         UNCHANGED <<request, caution, spentEarlier>>
  PROVE  \A h \in Gateways : RequestKept(h)
BY DEF Goto, RequestKept, Typed, TypeOK

LEMMA StoreStepLeavesSpent ==
  ASSUME Typed, NEW g \in Gateways, Step(g)
  PROVE  SpentStays
<1>1. CASE UNCHANGED tokens
  BY <1>1 DEF SpentStays
<1>2. CASE ClaimGrant(g)
  BY <1>2, ConsumeLeavesSpent, UntouchedStays DEF ClaimGrant, Typed, TypeOK, GrantIsId
<1>3. CASE MintGrant(g)
  BY <1>3, MintLeavesSpent, UntouchedStays DEF MintGrant, Typed, TypeOK
<1>4. CASE Finish(g)
  BY <1>1, <1>4, ExecutedStays DEF Finish, Typed, GrantIsId, Holding
<1> QED
  BY <1>1, <1>2, <1>3, <1>4 DEF Step, Own, OpenStore, OpenFails, ClaimRefused, MintFails,
     AnswerPending, Reevaluate, Forward, ForwardFails, Reply, ReplyLost, history

LEMMA CautionTaken ==
  ASSUME Typed, SpentRemembered, NEW g \in Gateways, OpenStore(g)
  PROVE  SpentRemembered'
<1> SUFFICES ASSUME NEW h \in Gateways, NEW id \in spentEarlier'[h]
             PROVE  /\ tokens'[id].state \in {"consumed", "executed"}
                    /\ tokens'[id].binding = request'[h]
                    /\ pc'[h] # "opening" /\ tokens'[id].state = "consumed" => caution'[h]
  BY DEF SpentRemembered
<1>1. UNCHANGED <<tokens, request, spentEarlier>>
  BY DEF OpenStore, history
<1>2. /\ id \in Ids /\ tokens[id].state \in {"consumed", "executed"}
      /\ tokens[id].binding = request[h]
      /\ pc[h] # "opening" /\ tokens[id].state = "consumed" => caution[h]
  BY <1>1 DEF SpentRemembered, Typed, TypeOK
<1>3. CASE h = g
  <2>1. caution'[g] = Uncertain(g)
    BY DEF OpenStore, Typed, TypeOK
  <2>2. tokens[id].state = "consumed" => id \in ConsumedFor(request[g])
    BY <1>2, <1>3 DEF ConsumedFor
  <2> QED BY <1>1, <1>2, <1>3, <2>1, <2>2 DEF Uncertain
<1>4. CASE h # g
  <2>1. pc'[h] = pc[h] /\ caution'[h] = caution[h]
    BY <1>4 DEF OpenStore, Goto, Typed, TypeOK
  <2> QED BY <1>1, <1>2, <2>1
<1> QED BY <1>3, <1>4

LEMMA RequestsKept ==
  ASSUME Typed, NEW g \in Gateways, Step(g), ~OpenStore(g)
  PROVE  \A h \in Gateways : RequestKept(h)
<1>1. CASE Answered(g)
  BY <1>1, AnsweredKeeps
<1>2. CASE ClaimGrant(g) \/ MintGrant(g) \/ Reevaluate(g)
  BY <1>1, <1>2, MovesKeep DEF ClaimGrant, MintGrant, Reevaluate, Labels
<1>3. CASE Forward(g) \/ Reply(g)
  BY <1>3, MovesKeep DEF Forward, Reply, Labels
<1> QED
  BY <1>1, <1>2, <1>3 DEF Step, Own, OpenFails, ClaimRefused, MintFails, AnswerPending,
     ForwardFails, ReplyLost, Finish

\* A request takes up what was spent for its effect when it came.
LEMMA CallRemembers ==
  ASSUME Typed, SpentRemembered, NEW g \in Gateways, Call(g)
  PROVE  SpentRemembered'
<1> SUFFICES ASSUME NEW h \in Gateways, NEW id \in spentEarlier'[h]
             PROVE  /\ tokens'[id].state \in {"consumed", "executed"}
                    /\ tokens'[id].binding = request'[h]
                    /\ pc'[h] # "opening" /\ tokens'[id].state = "consumed" => caution'[h]
  BY DEF SpentRemembered
<1>1. PICK b \in Bindings : /\ request' = [request EXCEPT ![g] = b]
                            /\ spentEarlier' = [spentEarlier EXCEPT ![g] = ConsumedFor(b)]
  BY DEF Call
<1>2. UNCHANGED <<tokens, caution>> /\ pc' = [pc EXCEPT ![g] = "opening"]
  BY DEF Call, Goto
<1>3. CASE h = g
  <2>1. request'[h] = b /\ id \in ConsumedFor(b) /\ pc'[h] = "opening"
    BY <1>1, <1>2, <1>3 DEF Typed, TypeOK
  <2> QED BY <1>2, <2>1 DEF ConsumedFor
<1>4. CASE h # g
  <2>1. /\ request'[h] = request[h] /\ pc'[h] = pc[h]
        /\ spentEarlier'[h] = spentEarlier[h]
    BY <1>1, <1>2, <1>4 DEF Typed, TypeOK
  <2> QED BY <1>2, <2>1 DEF SpentRemembered
<1> QED BY <1>3, <1>4

LEMMA RememberedNext == Typed /\ SpentRemembered /\ [Next]_vars => SpentRemembered'
<1> SUFFICES ASSUME Typed, SpentRemembered, [Next]_vars PROVE SpentRemembered'
  OBVIOUS
<1>1. CASE \E g \in Gateways : Step(g)
  BY <1>1, CautionTaken, StoreStepLeavesSpent, RequestsKept, RememberedKept
<1>2. CASE \E g \in Gateways : Call(g)
  BY <1>2, CallRemembers
<1>3. CASE \E g \in Gateways : Crash(g)
  BY <1>3, RememberedKept, AnsweredKeeps DEF Crash, SpentStays
<1>4. CASE Operate
  <2>1. SpentStays
    BY <1>4, TransitionLeavesSpent, UntouchedStays
    DEF Operate, Approve, Reject, Revoke, Typed, TypeOK
  <2> QED BY <1>4, <2>1, RememberedKept DEF Operate, gateway, history, RequestKept
<1>5. CASE Time \/ UNCHANGED vars
  BY <1>5, RememberedKept DEF Time, vars, gateway, history, RequestKept, SpentStays
<1> QED BY <1>1, <1>2, <1>3, <1>4, <1>5 DEF Next

\* A request for an effect whose last call has an unknown outcome is never sent
\* to a person for a fresh approval without the caution, whatever the other
\* gateways and the operators did since it came (mcp_approval.rs:60-103).
THEOREM UnknownOutcomeSaid == Spec => []CautionGiven
<1>1. Init => SpentRemembered
  BY DEF Init, SpentRemembered
<1>2. Typed /\ SpentRemembered /\ [Next]_vars => SpentRemembered'
  BY RememberedNext
<1>3. SpentRemembered => CautionGiven
  BY DEF SpentRemembered, CautionGiven
<1> QED BY <1>1, <1>2, <1>3, ClaimInvariant, PTL DEF Spec
=============================================================================

-------------------------------- MODULE AgentHost --------------------------------
(***************************************************************************)
(* The agent loop (agent-core: orchestrator.rs, arg_provenance.rs): a      *)
(* model proposes one call a turn; the kernel decides, a person may be     *)
(* asked, and the executor runs what was allowed.  Every result is         *)
(* tainted; what the user wrote is the one source that is not.             *)
(*                                                                         *)
(* The decision trace is only written here, never read: it is no variable, *)
(* and what a decision puts into it is Recorded.                           *)
(***************************************************************************)
EXTENDS Replay, Command

CONSTANTS
  UserRequest,  \* the user's request, if there is one: a set of at most one text
  Trivial,      \* texts of fewer than MIN_MATCH_LEN bytes
  MaxSteps,     \* config.max_steps
  ApprovalModes \* bound: the approval modes of the sessions looked at

ASSUME AgentBound == MaxSteps \in Nat

VARIABLES
  agent_mode, effect_mode, approval,  \* the config of the session
  agent_taint,  \* run's taint
  agent_usage,  \* run's usage
  payloads,     \* the texts of the perceptions, all of them tainted
  steps,        \* turns of the model so far
  question,     \* the call a person is being asked about, if any
  token,        \* the authorization of the last question, if it was minted
  doing,        \* the call handed to the executor, if any, with its spec
  wrote,        \* history: the files written
  fetched,      \* history: the URLs fetched
  agent_spent   \* history: what the calls that came back count

loop_vars == <<agent_mode, effect_mode, approval, agent_taint, agent_usage, payloads, steps,
               question, token, doing, wrote, fetched, agent_spent>>
agent_vars == <<loop_vars, command_vars>>

AgentInit ==
  /\ agent_mode \in Setting("agent", {"Interactive", "Background"})
  /\ effect_mode \in Setting("agent", {"Execute", "Simulate"})
  /\ approval \in Setting("agent", ApprovalModes)
  /\ agent_taint = "Clean"
  /\ agent_usage = NoUsage
  /\ payloads = {}
  /\ steps = 0
  /\ question = {}
  /\ token = {}
  /\ doing = {}
  /\ wrote = {}
  /\ fetched = {}
  /\ agent_spent = NewUsage
  /\ CommandInit

-----------------------------------------------------------------------------
(* arg_provenance.rs                                                       *)

corpus_contains(corpus, needle) ==
  /\ needle \notin Trivial
  /\ \E hay \in corpus : \E at \in 1 .. Len(hay) - Len(needle) + 1 :
       SubSeq(hay, at, at + Len(needle) - 1) = needle

\* The strings in a value, which nests no deeper than this.
own_string(v) == IF is(v, "str") THEN {v.str} ELSE {}
inner_values(v) ==
  (IF is(v, "list") THEN {v.list[i] : i \in DOMAIN v.list} ELSE {})
    \cup (IF is(v, "obj") THEN {v.obj[k] : k \in DOMAIN v.obj} ELSE {})
string_leaves(v) == own_string(v) \cup UNION {own_string(u) : u \in inner_values(v)}

\* Nothing, when neither origin can be proved.
provenance_of(v, tainted, clean) ==
  IF string_leaves(v) = {} THEN {}
  ELSE IF \E s \in string_leaves(v) : corpus_contains(tainted, s) THEN {"Tainted"}
  ELSE IF \A s \in string_leaves(v) : corpus_contains(clean, s) THEN {"Clean"}
  ELSE {}

arg_taint(arguments, tainted, clean) ==
  LET known(a) == provenance_of(members(arguments)[a], tainted, clean)
  IN  [a \in {b \in DOMAIN members(arguments) : known(b) # {}} |-> CHOOSE t \in known(a) : TRUE]

-----------------------------------------------------------------------------
(* The loop.                                                               *)

\* The tools the model is offered every turn.
tool_surface(w) == w.projected \cap DOMAIN w.descriptors

\* This loop has no resolved path to offer.
Classified(call) == classify_call(world, call.tool, call.arguments, {})

EvalContext(call, approved) ==
  [taint |-> with_arg_taint(from_taint(agent_taint),
                            arg_taint(call.arguments, payloads, UserRequest)),
   mode |-> agent_mode, usage |-> agent_usage, approval_granted |-> approved]

Decided(call, approved) ==
  decide(world, Classified(call), call.arguments, "Trusted", EvalContext(call, approved))

\* Every decision is recorded.
Recorded(call, approved) ==
  record_decision(Classified(call), call.arguments, "Trusted", EvalContext(call, approved),
                  Decided(call, approved))

\* What an allowed call is lowered to, in the effect mode of the session.
Lowered(call, consent) ==
  {[r |-> Running(Classified(call), call.arguments, p, consent), spec |-> s] :
     p \in effective_params(world, Classified(call), call.arguments, ExecEnv),
     s \in build_execution_spec(world, Classified(call), call.arguments, effect_mode, ExecEnv)}

idle == question = {} /\ doing = {} /\ steps < MaxSteps
settings == <<agent_mode, effect_mode, approval>>
session == <<agent_taint, agent_usage, payloads, wrote, fetched, agent_spent>>

\* A turn that is no tool call the adapter can read.
TurnMalformed ==
  /\ idle
  /\ steps' = steps + 1
  /\ UNCHANGED <<settings, session, question, token, doing>>

\* A call that may not run, or cannot be lowered, is feedback to the model.
CallRefused(call, decision) ==
  /\ idle
  /\ decision # "Ask"
  /\ decision = "Allow" => Lowered(call, FALSE) = {}
  /\ steps' = steps + 1
  /\ UNCHANGED <<settings, session, question, token, doing>>

CallAllowed(call, decision) ==
  /\ idle
  /\ decision = "Allow"
  /\ \E d \in Lowered(call, FALSE) : doing' = {d}
  /\ steps' = steps + 1
  /\ UNCHANGED <<settings, session, question, token>>

\* resolve_approval: an authorization is minted for exactly this call, unless
\* the store fails; only some sessions have somebody to ask.
CallAsks(call, decision) ==
  /\ idle
  /\ decision = "Ask"
  /\ \/ /\ token' = {[state |-> "pending", action |-> Classified(call),
                      arguments |-> call.arguments]}
        /\ question' = IF approval = "Manual" THEN {} ELSE {call}
     \/ UNCHANGED <<token, question>>
  /\ steps' = steps + 1
  /\ UNCHANGED <<settings, session, doing>>

Becomes(state) == token' = {[t EXCEPT !.state = state] : t \in token}

\* Rejected, by the session's policy or the person; the store may fail.
Declined ==
  /\ question # {}
  /\ approval \in {"AutoReject", "Interactive"}
  /\ Becomes("rejected") \/ UNCHANGED token
  /\ question' = {}
  /\ UNCHANGED <<settings, session, steps, doing>>

\* The store fails on the approval or on the claim, or refuses the claim.
ClaimFails ==
  /\ question # {}
  /\ approval \in {"AutoApprove", "Interactive"}
  /\ \E state \in {"pending", "approved", "consumed"} : Becomes(state)
  /\ question' = {}
  /\ UNCHANGED <<settings, session, steps, doing>>

\* Approved and claimed; the kernel decides again before anything runs.
Claimed ==
  \E call \in question :
    /\ approval \in {"AutoApprove", "Interactive"}
    /\ Becomes("consumed")
    /\ question' = {}
    /\ doing' = IF Decided(call, TRUE).decision = "Allow" THEN Lowered(call, TRUE) ELSE {}
    /\ UNCHANGED <<settings, session, steps>>

\* A command that is executed is a child of its own; or it cannot be started.
CommandStarts == (\E d \in doing : spawns(d.spec)) /\ Spawns

\* The executor comes back with output: the session is tainted and charged.
\* That a claimed call was executed is recorded, unless the store fails.
Returned ==
  \E d \in doing : \E result \in run(d.spec) :
    /\ result.ok
    /\ spawns(d.spec) => Succeeded
    /\ CommandOver
    /\ agent_taint' = join(agent_taint, "Tainted")
    /\ agent_usage' = charge(agent_usage, world.action_types[d.r.action],
                             world.side_effects[d.r.action])
    /\ payloads' = payloads \cup {result.text}
    /\ wrote' = wrote \cup result.wrote
    /\ fetched' = fetched \cup result.fetched
    /\ agent_spent' = Spent(agent_spent, d.r.action)
    /\ doing' = {}
    /\ \/ UNCHANGED token
       \/ d.r.consent /\ Becomes("executed")
    /\ UNCHANGED <<settings, steps, question>>

\* It comes back with an error, whatever was done before it: nothing changes.
Errored ==
  \E d \in doing : \E result \in run(d.spec) :
    /\ ~result.ok
    /\ spawns(d.spec) => Failed
    /\ CommandOver
    /\ wrote' = wrote \cup result.wrote
    /\ fetched' = fetched \cup result.fetched
    /\ doing' = {}
    /\ UNCHANGED <<settings, agent_taint, agent_usage, payloads, agent_spent, steps, question,
                   token>>

\* A turn that proposes a call.
CallProposed(call, decision) ==
  CallRefused(call, decision) \/ CallAllowed(call, decision) \/ CallAsks(call, decision)

AgentNext ==
  /\ host = "agent"
  /\ \/ /\ \/ TurnMalformed
           \/ \E call \in Requests[manifest] : CallProposed(call, Decided(call, FALSE).decision)
           \/ Declined \/ ClaimFails \/ Claimed
        /\ UNCHANGED command_vars
     \/ Returned \/ Errored
     \/ (CommandStarts \/ CommandNext) /\ UNCHANGED loop_vars
=============================================================================

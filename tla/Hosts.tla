--------------------------------- MODULE Hosts ---------------------------------
(***************************************************************************)
(* A session of one host over a world compiled from a manifest: the MCP    *)
(* gateway, a host of the gate ABI, the agent loop, an agent with hooks;   *)
(* or, as "logged", the hooks and the readers of one log.  The properties  *)
(* speak of the calls a host runs and of what is true of them outside the  *)
(* kernel: who said a value, what a file is, what was spent.               *)
(***************************************************************************)
EXTENDS GatewayHost, WireHost, AgentHost, HookHost, HookLog

CONSTANT
  LogSettings   \* bound: how often the hook is registered, whether its observer is, and
                \* whether the host sends ids, in the logged sessions under each manifest

ASSUME LogSettingsAssumption ==
  \A m \in DOMAIN Manifests :
    validate_manifest(Manifests[m]) =>
      LogSettings[m] # {} /\ LogSettings[m] \subseteq Nat \X BOOLEAN \X BOOLEAN

world_vars == <<manifest, world, host>>
vars == <<world_vars, gateway_vars, wire_vars, agent_vars, hook_vars, log_vars>>

Init ==
  /\ StartHost
  /\ GatewayInit /\ WireInit /\ AgentInit /\ HookInit
  /\ LogInit(Setting("logged", LogSettings[manifest]))

Next ==
  \/ GatewayNext /\ UNCHANGED <<world_vars, wire_vars, agent_vars, hook_vars, log_vars>>
  \/ WireNext /\ UNCHANGED <<world_vars, gateway_vars, agent_vars, hook_vars, log_vars>>
  \/ AgentNext /\ UNCHANGED <<world_vars, gateway_vars, wire_vars, hook_vars, log_vars>>
  \/ HookNext /\ UNCHANGED <<world_vars, gateway_vars, wire_vars, agent_vars, log_vars>>
  \/ /\ host = "logged" /\ LogNext
     /\ UNCHANGED <<world_vars, gateway_vars, wire_vars, agent_vars, hook_vars>>

Spec == Init /\ [][Next]_vars

-----------------------------------------------------------------------------
\* The calls that are being run, by whatever host.
ByAgent == {d.r : d \in doing}
Allowed == {r \in running : r.allowed}
ByHook == {r \in using : r.decision = "Allow"}
Ongoing == sent \cup Allowed \cup ByAgent \cup ByHook

\* Labels, taints, modes and authorizations range over what the code gives them;
\* requests, answers, verdicts and specs have their types, of a session's first
\* call and of one that waits for a person; and every call that runs is of an
\* action that discovery shows this session (project.rs: project; context.rs:
\* tool_surface).
Mark == {"Untrusted", "Private"}
Opening ==
  IF forwarded + runs + proposed > 0 THEN {}
  ELSE CASE host = "gateway" -> {GatewayRequest(call) : call \in Requests[manifest]}
         [] host = "wire" -> {WireRequest(call) : call \in Requests[manifest]}
         [] host \in HookHosts -> {hook_request(call) : call \in HookCalls[host][manifest]}
         [] OTHER -> {}
TypeOK ==
  /\ manifest \in DOMAIN Manifests /\ host \in Hosts
  /\ IsCompiledWorld(world)
  /\ \A r \in Opening : IsGateRequest(r) /\ IsGateResponse(gate(world, r, FALSE))
  /\ \A a \in asked : IsGateRequest(WireRequest(a.call)) /\ IsGateResponse(a.answer)
  /\ \A call \in question : /\ IsEvalContext(EvalContext(call, TRUE))
                           /\ IsKernelOutcome(Decided(call, TRUE))
  /\ \A d \in doing : IsExecutionSpec(d.spec)
  /\ CommandTypeOK
  /\ offered \subseteq world.projected
  /\ session_taint \in BOOLEAN /\ upstream \in {"open", "closed"}
  /\ forwarded \in 0 .. MaxForwards /\ runs \in 0 .. MaxRuns /\ steps \in 0 .. MaxSteps
  /\ \A u \in {session_usage, wire_usage, agent_usage} \cup usage_file :
       u \in [commands_run : Nat, network_calls : Nat, file_writes : Nat, tokens_used : {0}]
  /\ wire_taint \in {"clean", "tainted"} /\ agent_taint \in {"Clean", "Tainted"}
  /\ ambient \subseteq Mark /\ DOMAIN labels \subseteq Results
  /\ \A v \in DOMAIN labels : labels[v] \subseteq Mark
  /\ \A t \in token : t.state \in {"pending", "approved", "rejected", "consumed", "executed"}
  /\ Cardinality(sent) + Cardinality(running) + Cardinality(doing) + Cardinality(using) <= 1
  /\ \A r \in sent : r.action \in project(world, world.ontology, source)
  /\ \A r \in Allowed : r.action \in project(world, world.ontology, "user_prompt")
  /\ \A r \in ByAgent : r.action \in tool_surface(world)
  /\ \A r \in ByHook : r.action \in project(world, world.ontology, hook_source)

\* Once a session was given what an untrusted source said, an effect that leaves
\* it goes out only where the world itself, the user's own request or a trusted
\* label chose every argument that says where it goes, what it runs or with which
\* credential (invariants.rs: effective_floor_taint; gate.rs: out_taint; the
\* taint every host carries on).
Trusts(v) == v \in DOMAIN origin /\ "Untrusted" \notin origin[v]
SaidByUser(v) ==
  /\ string_leaves(v) # {}
  /\ \A s \in string_leaves(v) :
       corpus_contains(UserRequest, s) /\ ~corpus_contains(payloads, s)
Nobody(v) == FALSE

FloorAfterIngest ==
  /\ heard => \A r \in sent : FloorHolds(r, Nobody)
  /\ ingested => \A r \in ByHook : FloorHolds(r, Nobody)
  /\ "Untrusted" \in brought => \A r \in Allowed : FloorHolds(r, Trusts)
  /\ payloads # {} => \A r \in ByAgent : FloorHolds(r, SaidByUser)

\* The same, also for a session that was given it by a call it had to ask for
\* and that the host ran when the person said yes in the host's own prompt.
AskedFloor ==
  "Untrusted" \in brought \cup brought_asked => \A r \in Allowed : FloorHolds(r, Trusts)

\* A scoped capability is run with the world's literals and with nothing of the
\* caller's but what the capability lets it choose, and a client of the gateway
\* that named an argument it was shown gave a value it was shown to be good
\* (spec.rs: effective_call; schema.rs: model_facing_schema).
ScopedAsWritten ==
  /\ \A r \in Ongoing \cup running : AsScoped(r)
  /\ \A r \in sent : AsShown(r)

\* Nothing private reaches a sink that must be public, nothing untrusted one that
\* must be trusted, whatever the value went through on its way; and a host that
\* carries no labels runs no call with a contract (invariants.rs: check_flow).
SinksHold ==
  /\ \A r \in sent \cup ByAgent \cup ByHook : Contract(r) = {}
  /\ \A r \in Allowed : \A c \in Contract(r) : \A i \in DOMAIN c.sinks :
       LET arg == c.sinks[i].arg
       IN  arg \in DOMAIN r.args /\ ~is_literal(world, r.action, arg) =>
             violated_axis(c.sinks[i], Marks(r.args[arg])) = None

\* The usage a host carries is what it ran, no more and no less, after a call that
\* could not be forwarded too, and it stays within the budget of the world
\* (disposition.rs: charge, budget_exceeded; mcp_gateway.rs: the usage put back).
Counts(usage, s) ==
  /\ usage.commands_run = s.commands
  /\ usage.network_calls = s.network
  /\ usage.file_writes = s.writes
BudgetKept ==
  /\ Counts(session_usage, spent) /\ Counts(agent_usage, agent_spent)
  /\ WithinBudget(spent) /\ WithinBudget(wire_spent) /\ WithinBudget(agent_spent)
  /\ ~damaged => WithinBudget(hook_spent)

\* A file is reached only if the innermost root above it lets it: also by a host
\* that does not say which file a call reaches, by a call that was proposed under
\* another tool's name, and through a symbolic link, unless an agent's own tool is
\* let through a link that leads to nothing (gate.rs: path_scope,
\* requires_resolved_path; compiled.rs: classify_path; fs_guard.rs: contained;
\* hostkit.rs: canonicalize_action_path).  A fetch connects to a host of the network
\* policy, and to a local one only if the policy names it (web.rs: check_egress,
\* host_of).
Innermost(p) ==
  UNION {LET above == {i \in DOMAIN r.rules : IsPrefix(r.rules[i].path, p)}
         IN  IF above = {} THEN {r.default}
             ELSE {r.rules[i].access :
                     i \in {j \in above : \A k \in above :
                              Len(r.rules[k].path) <= Len(r.rules[j].path)}} : r \in world.roots}
Writes(r) ==
  \/ world.side_effects[r.action] = "FilesystemWrite"
  \/ world.action_types[r.action] \in {"Write", "Patch"}
KeepsRoots(r) ==
  \A p \in r.path :
    Innermost(p) \cap (IF Writes(r) THEN {"Read", "Ask", "Deny"} ELSE {"Ask", "Deny"}) = {}

\* What a client of a URL connects to: the first symbol of the authority, behind what
\* is said of a user (external).
Reaches(url) ==
  LET authority == {i \in 2 .. Len(url) : \A j \in 2 .. i : url[j] \notin {"/", "?", "#"}}
      address == {i \in authority : \A j \in authority : url[j] = "@" => j < i}
  IN  {Canonical[url[i]] :
         i \in {k \in address : url[k] \in DOMAIN Canonical /\ \A j \in address : k <= j}}

LedToNothing(r) == \E path \in named_path(r.args) : Dangles(path)

ReachConfined ==
  /\ \A r \in Allowed : KeepsRoots(r)
  /\ \A r \in ByHook : KeepsRoots(r) \/ LedToNothing(r)
  /\ \A p \in wrote : \E root \in Writable : \E r \in canonicalize(root) : IsPrefix(r, p)
  /\ \A url \in fetched : \E name \in Reaches(url) :
       /\ \E entry \in AllowedHosts : host_matches(name, entry)
       /\ name \in LocalTargets => name \in AllowedHosts

\* A call that needs approval is run only when somebody approved it; by the agent
\* loop, under an authorization of exactly this call, claimed before and not yet
\* executed (compile.rs: approval_required; orchestrator.rs: resolve_approval).
RunUnderGrant ==
  /\ \A r \in Ongoing \cup running : Guarded(r.action) => r.consent
  /\ \A r \in ByAgent : r.consent =>
       \E t \in token : /\ t.state = "consumed" /\ t.action = r.action
                        /\ members(t.arguments) = r.asked
  /\ \A r \in using : r.decision \in {"Allow", "Ask"} /\ Guarded(r.action) => r.consent \/ soft_ask

\* What is kept of a session decides it again.  A bundle of an agent's trace gives
\* the verdict of every call the model may propose now, and of one that a person
\* just approved: only the marks of single arguments, which no record keeps, and a
\* redacted argument that the world no longer admits make a difference.  And a
\* transcript carries over its calls the taint and the counters that the hooks of
\* the session had on disk (trace-store: record_decision, recompute; bundle.rs:
\* replay_bundle; replay_transcripts.rs: run).
Decidable == (IF idle THEN Requests[manifest] \X {FALSE} ELSE {}) \cup (question \X {TRUE})
LostMarks(r, ctx) ==
  effective_floor_taint(world, r.action, ctx.taint)
    # effective_floor_taint(world, r.action, from_taint(ctx.taint.taint))
LostValue(r, arguments) ==
  /\ r.action \in world.ontology
  /\ admissible(world, r.action, arguments) # admissible(world, r.action, r.params)
ReplayReproduces ==
  /\ \A s \in replayed : s.tainted = tainted /\ {s.usage} = usage_file
  /\ host = "agent" => \A d \in Decidable :
       LET r == Recorded(d[1], d[2])
       IN  \/ replay(<<r>>, Bundled[manifest]) = {}
           \/ LostMarks(r, EvalContext(d[1], d[2]))
           \/ LostValue(r, d[1].arguments)
=============================================================================

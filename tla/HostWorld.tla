------------------------------- MODULE HostWorld -------------------------------
(***************************************************************************)
(* What the hosts share: the world they compiled at their start, and what  *)
(* the properties of every host are stated with.  A host holds one world   *)
(* for its whole life (mcp_gateway.rs: run; orchestrator.rs: run).         *)
(***************************************************************************)
EXTENDS WorldTypes, HostPaths

CONSTANTS
  Manifests,     \* the manifests an operator may have written, by name
  Hosts,         \* the hosts that may be started
  Requests,      \* the calls a model may propose under each manifest: tool, arguments,
                 \* and the file they reach
  Home, Base,    \* what relative paths of roots are relative to, where known
  AllowedHosts   \* the network policy of the session: the hosts a fetch may reach

ASSUME PlacesAssumption ==
  /\ Option(Home, Seq(STRING) \ {<<>>}) /\ Option(Base, Seq(STRING) \ {<<>>})
  /\ AllowedHosts \subseteq Name
ASSUME ManifestsAssumption == \A m \in DOMAIN Manifests : IsWorldManifest(Manifests[m])
\* What a model proposes, and the file it reaches.
IsCall(call) ==
  /\ call.tool \in Name /\ IsArguments(call.arguments)
  /\ AtMostOne(call.path) /\ \A p \in call.path : IsText(p)

Validated == {m \in DOMAIN Manifests : validate_manifest(Manifests[m])}

ASSUME RequestsAssumption == \A m \in Validated : \A call \in Requests[m] : IsCall(call)

VARIABLES
  manifest,   \* the manifest this session's host was started with
  world,      \* what it was compiled to
  host        \* the host of this session

\* The roots of a manifest are made absolute and canonical before it is compiled.
load_compiled_world(m) ==
  compile([m EXCEPT !.roots =
             {canonicalize_root_paths(resolve_root_paths(r, Home, Base)) : r \in @}])

\* A manifest that does not validate has no world: the host does not start.  The
\* gateway leaves the roots as written; it has no path to compare with them.
StartHost == /\ manifest \in Validated
             /\ host \in Hosts
             /\ world = IF host = "gateway" THEN compile(Manifests[manifest])
                        ELSE load_compiled_world(Manifests[manifest])

\* A setting of host h; those of a host that is not started decide nothing.
Setting(h, choices) == IF host = h THEN choices ELSE {CHOOSE c \in choices : TRUE}

\* Nothing of the context is known to a host of its own accord.
ExecEnv == [context |-> Empty, default_timeout_ms |-> 30000, network |-> AllowedHosts]

NewUsage == [commands |-> 0, network |-> 0, writes |-> 0]

\* A call of this action counts against these limits, whatever the code charges.
Spent(s, action) ==
  LET at == world.action_types[action]
      se == world.side_effects[action]
  IN  [commands |-> s.commands + One(at \in {"Command", "Pty"}),
       network |-> s.network + One(at = "Web" \/ se = "Network"),
       writes |-> s.writes + One(se \in {"FilesystemWrite", "PersistentWrite"})]

WithinBudget(s) ==
  /\ \A max \in world.budget.max_commands_per_task : s.commands <= max
  /\ \A max \in world.budget.max_network_calls : s.network <= max
  /\ \A max \in world.budget.max_file_writes : s.writes <= max

\* A call that is being run: the action decided on, the arguments as proposed,
\* the arguments it is run with, under the base action's names, and whether
\* somebody approved exactly this call.
Running(action, proposed, args, consent) ==
  [action |-> action, asked |-> members(proposed), args |-> members(args), consent |-> consent]

External(r) == world.side_effects[r.action] \in EXTERNALLY_EFFECTFUL

\* Its result may hold what an untrusted source said; `path` is the file it reaches.
Foreign(r) ==
  \/ remote_backed(world, r.action)
  \/ \E p \in r.path : path_taints(world, p)
  \/ side_effect_taint(world.side_effects[r.action], world.action_types[r.action]) = "Tainted"

\* The arguments of a running call that say where it goes, what it runs or with
\* which credential.
AuthorityArgs(r) ==
  LET roles == world.descriptors[r.action].arg_roles
  IN  {a \in DOMAIN roles \cap DOMAIN r.args : roles[a] \in AUTHORITY}

LiteralOf(r, a) == cap_args(world, r.action)[a].value

\* An external effect that went out although the session holds what untrusted
\* sources said: only with authority arguments that somebody trusted chose.
FloorHolds(r, Vouched(_)) ==
  External(r) =>
    /\ DOMAIN world.descriptors[r.action].arg_roles # {}
    /\ \A a \in AuthorityArgs(r) :
         \/ is_literal(world, r.action, a) /\ r.args[a] = LiteralOf(r, a)
         \/ Vouched(r.args[a])

\* An action whose manifest asks for approval, of it or of what it narrows.
Guarded(action) ==
  \E base \in {b \in ToSet(Manifests[manifest].base_actions) : b.approval_required} :
    \/ base.name = action
    \/ \E cap \in ToSet(Manifests[manifest].scoped_capabilities) :
         cap.name = action /\ cap.base_action = base.name

\* What an argument of the base action may hold, by where the capability takes it
\* from, and what its caller asked.
FromSource(from, a, v, said) ==
  CASE from.from = "literal" -> v = from.value
    [] from.from = "actor" -> a \in DOMAIN said /\ v = said[a]
    [] from.from = "input" -> /\ from.one_of # {} => v \in from.one_of
                              /\ \E n \in DOMAIN said : said[n] = v
    [] OTHER -> FALSE

\* What a scoped capability runs with: its literals as the world wrote them,
\* the actor's values under the rules, and nothing else.
AsScoped(r) ==
  scoped(world, r.action) =>
    LET sources == cap_args(world, r.action)
    IN  /\ DOMAIN r.args \subseteq DOMAIN sources
        /\ literals(world, r.action) \subseteq DOMAIN r.args
        /\ \A a \in DOMAIN r.args : FromSource(sources[a], a, r.args[a], r.asked)
=============================================================================

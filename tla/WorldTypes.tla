------------------------------- MODULE WorldTypes -------------------------------
(***************************************************************************)
(* What a manifest, a compiled world, a verdict, a request of a host and   *)
(* an execution spec are (harness-types: manifest.rs, compiled.rs,         *)
(* flow.rs, provenance.rs, descriptor.rs, execution.rs; world-kernel;      *)
(* gate.rs). Types are sets where TLC can decide membership, and           *)
(* predicates Is... of the same name elsewhere.  An Option is a set of at  *)
(* most one element, a Vec whose order decides nothing a set, a BTreeMap a *)
(* function.  Fields that no decision reads are left out: ids, hashes,     *)
(* descriptions, actors, data classes.                                     *)
(***************************************************************************)
EXTENDS Compile, FiniteSets

AtMostOne(v) == v = {} \/ \E x \in v : v = {x}
Option(v, T) == AtMostOne(v) /\ v \subseteq T
Name == STRING
IsText(t) == t \in Seq(STRING)
Kinds == {"null", "bool", "num", "str", "list", "obj"}
IsValue(v) == /\ \E kind \in Kinds : DOMAIN v \cap Kinds = {kind}
              /\ is(v, "str") => IsText(v.str)
IsArguments(v) == /\ IsValue(v) /\ DOMAIN members(v) \subseteq Name
                  /\ \A a \in DOMAIN members(v) : IsValue(members(v)[a])
IsList(s) == Len(s) \in Nat /\ DOMAIN s = 1 .. Len(s)
All(list, Is(_)) == IsList(list) /\ \A i \in DOMAIN list : Is(list[i])
IsMap(f, Is(_)) == DOMAIN f \subseteq Name /\ \A k \in DOMAIN f : Is(f[k])

-----------------------------------------------------------------------------
(* Provenance, labels and roles.                                           *)

TrustLevel == {"Trusted", "SemiTrusted", "Untrusted", "Derived"}
SourceChannel ==
  {"UserPrompt", "WorkspaceFile", "ShellOutput", "McpOutput", "Web", "Memory", "Generated"}
Taint == {"Clean", "Tainted"}
ActionType == {"Read", "Write", "Patch", "Command", "Pty", "Mcp", "Web", "Memory"}
Decision == {"Absent", "Allow", "Deny", "Ask", "Replan"}
EffectMode == {"Execute", "Simulate", "Proxy", "Sanitize", "Truncate", "Defer"}
ExecutionMode == {"Interactive", "Background"}
ArgRole == AUTHORITY \cup {"Content", "Selector", "Control"}
SideEffectClass ==
  {"None", "Read", "FilesystemWrite", "PersistentWrite", "Process", "Network", "Credential",
   "Memory", "External"}

\* One mark for each axis on which a label is not the bottom; the join of labels
\* is their union.
Integrity == {"Trusted", "Untrusted"}
Confidentiality == {"Public", "Private"}
FlowLabel == SUBSET {"Untrusted", "Private"}

IsSinkConstraint(s) ==
  /\ DOMAIN s = {"arg", "integrity", "confidentiality"} /\ s.arg \in Name
  /\ Option(s.integrity, Integrity) /\ Option(s.confidentiality, Confidentiality)

IsFlowContract(c) ==
  /\ DOMAIN c = {"output", "inherits", "sinks"}
  /\ Option(c.output, FlowLabel) /\ c.inherits \subseteq Name
  /\ IsList(c.sinks)
  /\ \A i \in DOMAIN c.sinks :
       /\ IsSinkConstraint(c.sinks[i])
       /\ \A j \in DOMAIN c.sinks : c.sinks[i].arg = c.sinks[j].arg => i = j

IsFlowContext(f) ==
  /\ DOMAIN f = {"ambient", "args"} /\ f.ambient \in FlowLabel
  /\ DOMAIN f.args \subseteq Name /\ \A a \in DOMAIN f.args : f.args[a] \in FlowLabel

IsTaintContext(ctx) ==
  /\ DOMAIN ctx = {"taint", "arg_taint", "flow"} /\ ctx.taint \in Taint
  /\ DOMAIN ctx.arg_taint \subseteq Name
  /\ \A a \in DOMAIN ctx.arg_taint : ctx.arg_taint[a] \in Taint
  /\ AtMostOne(ctx.flow) /\ \A f \in ctx.flow : IsFlowContext(f)

-----------------------------------------------------------------------------
(* The manifest.                                                           *)

CapabilityGrant == [trust : TrustLevel, actions : SUBSET ActionType]
ChannelDef == [name : Name, trust : TrustLevel, taint : BOOLEAN]
BackingIdentity ==
  [kind : {"local"}, handler : Name] \cup [kind : {"mcp"}, server : Name, tool : Name]

IsBaseActionDef(a) ==
  /\ DOMAIN a = {"name", "action_type", "side_effect", "schema", "arg_constraints", "arg_roles",
                 "backing", "approval_required", "projected", "flow_contract"}
  /\ a.name \in Name /\ a.action_type \in ActionType /\ a.side_effect \in SideEffectClass
  /\ DOMAIN a.schema \subseteq Name /\ DOMAIN a.arg_constraints \subseteq Name
  /\ DOMAIN a.arg_roles \subseteq Name /\ \A k \in DOMAIN a.arg_roles : a.arg_roles[k] \in ArgRole
  /\ Option(a.backing, BackingIdentity)
  /\ a.approval_required \in BOOLEAN /\ a.projected \in BOOLEAN
  /\ AtMostOne(a.flow_contract) /\ \A c \in a.flow_contract : IsFlowContract(c)

\* A source is of one kind; the fields of the other kinds say nothing.
IsInputRule(s) ==
  /\ Option(s.as, Name) /\ \A v \in s.one_of : IsValue(v)
  /\ AtMostOne(s.prefix) /\ \A p \in s.prefix : IsText(p)
IsArgSource(s) ==
  /\ DOMAIN s = {"from", "as", "one_of", "prefix", "value", "key"}
  /\ s.from \in {"literal", "actor", "input", "context"}
  /\ s.from = "literal" => IsValue(s.value)
  /\ s.from = "input" => IsInputRule(s)
  /\ s.from = "context" => s.key \in Name

IsScopedCapabilityDef(c) ==
  /\ DOMAIN c = {"name", "base_action", "args"}
  /\ c.name \in Name /\ c.base_action \in Name /\ IsMap(c.args, IsArgSource)

McpSurfaceDef == [name : Name, upstream : Name]

IsCommandClassRule(c) ==
  /\ DOMAIN c = {"to", "patterns"}
  /\ c.to \in Name /\ \A p \in c.patterns : IsText(p)
IsCommandClassDef(d) ==
  /\ DOMAIN d = {"action", "arg", "default_to", "classes"}
  /\ d.action \in Name /\ d.arg \in Name /\ Option(d.default_to, Name)
  /\ \A c \in d.classes : IsCommandClassRule(c)

PathClassSource == [action : Name, arg : Name]
IsPathClassDef(d) ==
  /\ DOMAIN d = {"to", "from", "patterns"}
  /\ d.to \in Name /\ d.from \subseteq PathClassSource /\ \A p \in d.patterns : IsText(p)

RootAccess == {"Read", "ReadWrite", "Ask", "Deny"}
RootRule == [path : Seq(STRING) \ {<<>>}, access : RootAccess, taint_source : BOOLEAN]
RootsDef == [default : RootAccess, rules : Seq(RootRule)]

IsTransitionPolicy(t) ==
  /\ DOMAIN t = {"from_taint", "side_effect", "decision", "rule"}
  /\ t.from_taint \in Taint /\ t.side_effect \in SideEffectClass /\ t.decision \in Decision
  /\ t.rule # None

Budget_limits == {"max_commands_per_task", "max_network_calls", "max_file_writes",
                  "max_tokens_per_session", "command_timeout_ms"}
IsBudget(b) == DOMAIN b = Budget_limits /\ \A k \in Budget_limits : Option(b[k], Nat)

IsWorldManifest(m) ==
  /\ DOMAIN m = {"channels", "capabilities", "base_actions", "scoped_capabilities",
                 "command_classes", "path_classes", "transition_policies", "roots",
                 "mcp_surface", "budget"}
  /\ m.channels \in Seq(ChannelDef)
  /\ All(m.capabilities, LAMBDA c : c \in CapabilityGrant)
  /\ All(m.base_actions, IsBaseActionDef)
  /\ All(m.scoped_capabilities, IsScopedCapabilityDef)
  /\ All(m.command_classes, IsCommandClassDef) /\ All(m.path_classes, IsPathClassDef)
  /\ All(m.transition_policies, IsTransitionPolicy)
  /\ Option(m.roots, RootsDef) /\ Option(m.mcp_surface, McpSurfaceDef)
  /\ IsBudget(m.budget)

-----------------------------------------------------------------------------
(* The compiled world.                                                     *)

IsDescriptor(d) ==
  /\ DOMAIN d = {"schema", "arg_constraints", "backing", "arg_roles", "flow_contract"}
  /\ d.backing \in BackingIdentity
  /\ DOMAIN d.arg_roles \subseteq Name /\ \A k \in DOMAIN d.arg_roles : d.arg_roles[k] \in ArgRole
  /\ AtMostOne(d.flow_contract) /\ \A c \in d.flow_contract : IsFlowContract(c)

ChannelPolicy == [trust : TrustLevel, taint : Taint]
EffectRule == [action : Name, effect_mode : EffectMode]

\* Every table has a row for each action of the ontology, and what a table
\* names is in it: no lookup of an action that can be proposed comes back empty.
IsCompiledWorld(w) ==
  /\ w.projected \cup w.approval_required \subseteq w.ontology
  /\ {DOMAIN w.descriptors, DOMAIN w.action_types, DOMAIN w.side_effects} = {w.ontology}
  /\ \A a \in w.ontology : /\ IsDescriptor(w.descriptors[a])
                           /\ w.action_types[a] \in ActionType
                           /\ w.side_effects[a] \in SideEffectClass
  /\ DOMAIN w.scoped_capabilities \subseteq w.projected
  /\ \A c \in DOMAIN w.scoped_capabilities :
       /\ IsScopedCapabilityDef(w.scoped_capabilities[c])
       /\ w.scoped_capabilities[c].base_action
            \in w.ontology \ DOMAIN w.scoped_capabilities
  /\ DOMAIN w.channel_policies \subseteq SourceChannel
  /\ \A c \in DOMAIN w.channel_policies : w.channel_policies[c] \in ChannelPolicy
  /\ DOMAIN w.capability_matrix \subseteq TrustLevel
  /\ \A t \in DOMAIN w.capability_matrix : w.capability_matrix[t] \subseteq ActionType
  /\ All(w.taint_rules, IsTransitionPolicy) /\ w.effect_rules \in Seq(EffectRule)
  /\ All(w.command_classes, IsCommandClassDef) /\ All(w.path_classes, IsPathClassDef)
  /\ Option(w.roots, RootsDef) /\ Option(w.mcp_surface, McpSurfaceDef) /\ IsBudget(w.budget)

-----------------------------------------------------------------------------
(* A decision and what is made of it.                                      *)

BudgetUsage == [commands_run : Nat, network_calls : Nat, file_writes : Nat, tokens_used : Nat]

IsEvalContext(ctx) ==
  /\ DOMAIN ctx = {"taint", "mode", "usage", "approval_granted"}
  /\ IsTaintContext(ctx.taint) /\ ctx.mode \in ExecutionMode
  /\ ctx.usage \in BudgetUsage /\ ctx.approval_granted \in BOOLEAN

\* What keeps a call from being sealed.  Two of the code's errors have no name
\* here: no intent is built with a descriptor that drifted, and approval and
\* budget are judged of sealed calls only.
BuildError ==
  {"unknown_to_ontology", "absent", "capability", "schema_violation", "missing_flow_context",
   "confidentiality_violation", "integrity_violation", "taint_invariant"}

\* Only an allowed call has an effect mode, and only a call that is not sealed
\* has one of the errors.
IsKernelOutcome(k) ==
  /\ k.decision \in Decision /\ k.sealed \in BOOLEAN /\ Option(k.effect_mode, EffectMode)
  /\ ~k.sealed => k.rule \in BuildError /\ k.decision = classify(k.rule)
  /\ k.effect_mode # {} => k.sealed /\ k.decision = "Allow"

IsEffectiveCall(e) ==
  /\ DOMAIN e = {"base_action", "arguments", "context_refs", "stripped"}
  /\ e.base_action \in Name /\ IsValue(e.arguments)
  /\ IsMap(e.context_refs, LAMBDA key : key \in Name) /\ e.stripped \subseteq Name

\* A structured operation is told apart by its handler.
Operation_kinds == {"read", "patch", "argv", "fetch", "mcp"}
IsExecutionSpec(s) ==
  /\ DOMAIN s = {"action", "operation", "effect_mode", "timeout_ms", "network", "descriptor"}
  /\ s.action \in Name /\ s.operation.op \in Operation_kinds
  /\ s.operation.op = "argv" => s.operation.argv # <<>>
  /\ s.effect_mode \in EffectMode /\ s.timeout_ms \in Nat /\ s.network \subseteq Name
  /\ IsDescriptor(s.descriptor)

-----------------------------------------------------------------------------
(* The wire of the gate.                                                   *)

IsGateLabel(l) == l = BadLabel \/ l \in FlowLabel
IsGateFlowContext(f) ==
  /\ DOMAIN f = {"ambient", "args"}
  /\ AtMostOne(f.ambient) /\ \A l \in f.ambient : IsGateLabel(l)
  /\ IsMap(f.args, IsGateLabel)

\* Any text may be sent, those that the gate knows among them.
WireName(known) == Name \cup known

IsGateContext(c) ==
  /\ Option(c.mode, WireName({"interactive", "background"}))
  /\ Option(c.taint, WireName(DOMAIN parse_taint))
  /\ Option(c.source_channel, WireName(DOMAIN from_name))
  /\ Option(c.usage, BudgetUsage)
  /\ AtMostOne(c.flow) /\ \A f \in c.flow : IsGateFlowContext(f)

\* The context is spread over the request.
IsGateRequest(r) ==
  /\ DOMAIN r = {"tool", "arguments", "path", "mode", "taint", "source_channel", "usage", "flow"}
  /\ r.tool \in Name /\ IsArguments(r.arguments)
  /\ AtMostOne(r.path) /\ \A p \in r.path : IsText(p)
  /\ IsGateContext(r)

IsGateFlowResponse(f) ==
  DOMAIN f = {"ambient", "result"} /\ f.ambient \in FlowLabel /\ Option(f.result, FlowLabel)

IsGateResponseContext(r) ==
  /\ r.taint \in Taint /\ r.usage \in BudgetUsage
  /\ AtMostOne(r.flow) /\ \A f \in r.flow : IsGateFlowResponse(f)

\* A call is handed back exactly when it may run or may be asked for, and is
\* lowered only when it runs; an allowed call has no rule.
IsGateResponse(r) ==
  /\ r.decision \in Decision /\ r.action \in Name
  /\ IsGateResponseContext(r)
  /\ AtMostOne(r.effective) /\ \A e \in r.effective : IsEffectiveCall(e)
  /\ r.effective # {} <=> r.decision \in {"Allow", "Ask"}
  /\ Option(r.lowered, EffectMode) /\ (r.lowered # {} => r.decision = "Allow")
  /\ r.decision = "Allow" <=> r.rule = None
=============================================================================

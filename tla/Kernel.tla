-------------------------------- MODULE Kernel --------------------------------
(***************************************************************************)
(* The decision of the kernel on one call (world-kernel: intent.rs,        *)
(* invariants.rs, disposition.rs, taint.rs, lib.rs; harness-types: flow.rs,*)
(* provenance.rs).  Everything here is a pure function of the compiled     *)
(* world, the call and the context its caller supplies.                    *)
(*                                                                         *)
(* An optional value is a set with at most one element.  A flow label is   *)
(* the set of its conservative marks, "Untrusted" and "Private": its join  *)
(* is the union.  A world is a record of the parts of CompiledWorldParts;  *)
(* where an argument comes from, when a scoped capability narrows a base   *)
(* action, is a record with field `from`.                                  *)
(***************************************************************************)
EXTENDS ArgSchema, SequencesExt

None == "none"   \* no rule refuses

-----------------------------------------------------------------------------
(* Taint and flow labels.                                                  *)

join(s, t) == IF s = "Clean" /\ t = "Clean" THEN "Clean" ELSE "Tainted"

\* The axis on which a sink refuses a label; confidentiality is judged first.
violated_axis(sink, label) ==
  IF "Public" \in sink.confidentiality /\ "Private" \in label
  THEN "confidentiality_violation"
  ELSE IF "Trusted" \in sink.integrity /\ "Untrusted" \in label
  THEN "integrity_violation"
  ELSE None

sink_is_empty(sink) == sink.integrity = {} /\ sink.confidentiality = {}
declares_result(contract) == contract.output # {} \/ contract.inherits # {}
contract_is_empty(contract) == ~declares_result(contract) /\ contract.sinks = <<>>

derived(label) == IF "Untrusted" \in label THEN "Tainted" ELSE "Clean"

\* What the caller knows: the ambient taint, the taint of single arguments and
\* its flow labels.
from_taint(t) == [taint |-> t, arg_taint |-> Empty, flow |-> {}]
with_arg_taint(ctx, known) == [ctx EXCEPT !.arg_taint = known]

\* The integrity of a label joins into the taint, never the other way.
with_flow(ctx, flow) ==
  LET known == ctx.arg_taint
      labelled(a) == derived(flow.args[a])
      taint_of(a) == IF a \notin DOMAIN flow.args THEN known[a]
                     ELSE IF a \in DOMAIN known THEN join(known[a], labelled(a))
                     ELSE labelled(a)
  IN  [taint |-> join(ctx.taint, derived(flow.ambient)),
       arg_taint |-> [a \in DOMAIN known \cup DOMAIN flow.args |-> taint_of(a)],
       flow |-> {flow}]

-----------------------------------------------------------------------------
(* Scoped capabilities: where each argument of the base action comes from. *)

scoped(w, action) == action \in DOMAIN w.scoped_capabilities
cap_args(w, action) == w.scoped_capabilities[action].args

\* The name the actor supplies an argument under, if the actor supplies it.
actor_name(source, arg) ==
  CASE source.from = "actor" -> {arg}
    [] source.from = "input" -> IF source.as = {} THEN {arg} ELSE source.as
    [] source.from \in {"literal", "context"} -> {}

\* An argument's value is the actor's, a literal of the world, or neither.
binding(w, action, arg) ==
  IF ~scoped(w, action) THEN {arg}
  ELSE IF arg \in DOMAIN cap_args(w, action) THEN actor_name(cap_args(w, action)[arg], arg)
  ELSE {}
is_literal(w, action, arg) ==
  /\ scoped(w, action)
  /\ arg \in DOMAIN cap_args(w, action)
  /\ cap_args(w, action)[arg].from = "literal"

\* What is known of the value bound to an argument: under the name the actor
\* used, else the ambient.
bound(known, ambient, names) ==
  LET told == {known[n] : n \in names \cap DOMAIN known}
  IN  IF told = {} THEN ambient ELSE CHOOSE x \in told : TRUE

-----------------------------------------------------------------------------
(* Whether the call is representable at all (IRBuilder::build).            *)

admits(rule, v) ==
  /\ rule.one_of # {} => v \in rule.one_of
  /\ \A p \in rule.prefix : is(v, "str") /\ IsPrefix(p, v.str)

members(args) == IF is(args, "obj") THEN args.obj ELSE Empty

check_input_rules(w, action, args) ==
  \A arg \in DOMAIN cap_args(w, action) :
    LET source == cap_args(w, action)[arg]
    IN  source.from = "input" =>
          \A n \in actor_name(source, arg) \cap DOMAIN members(args) :
            admits(source, members(args)[n])

\* The arguments of the base action a scoped call stands for: what the actor
\* may set, under the base action's names, and the literals.
given(w, action, args) ==
  {a \in DOMAIN cap_args(w, action) :
     actor_name(cap_args(w, action)[a], a) \cap DOMAIN members(args) # {}}
scoped_value(w, action, args, a) ==
  LET source == cap_args(w, action)[a]
  IN  IF source.from = "literal" THEN source.value
      ELSE members(args)[CHOOSE n \in actor_name(source, a) : TRUE]
literals(w, action) ==
  {a \in DOMAIN cap_args(w, action) : cap_args(w, action)[a].from = "literal"}
context_args(w, action) ==
  {a \in DOMAIN cap_args(w, action) : cap_args(w, action)[a].from = "context"}

\* A context reference stands as a text until the host resolves it.
schema_args_for(w, action, args) ==
  IF ~scoped(w, action) THEN args
  ELSE Obj([a \in given(w, action, args) \cup literals(w, action)
                    \cup context_args(w, action) |->
              IF a \in context_args(w, action) THEN Str(<<"context">>)
              ELSE scoped_value(w, action, args, a)])

admissible(w, action, args) ==
  /\ scoped(w, action) => check_input_rules(w, action, args)
  /\ validate(schema_args_for(w, action, args), w.descriptors[action].schema,
              w.descriptors[action].arg_constraints)

\* Why the flow contract refuses: no labels, or the first sink that does.
check_flow(w, action, ctx) ==
  LET contract == CHOOSE c \in w.descriptors[action].flow_contract : TRUE
      flow == CHOOSE f \in ctx.flow : TRUE
      axis(i) ==
        LET arg == contract.sinks[i].arg
        IN  IF is_literal(w, action, arg) THEN None
            ELSE violated_axis(contract.sinks[i],
                               bound(flow.args, flow.ambient, binding(w, action, arg)))
      refusing == {i \in DOMAIN contract.sinks : axis(i) # None}
  IN  IF w.descriptors[action].flow_contract = {} THEN None
      ELSE IF ctx.flow = {} THEN "missing_flow_context"
      ELSE IF refusing = {} THEN None
      ELSE axis(CHOOSE i \in refusing : \A j \in refusing : i <= j)

\* Variant: what a result inherits from its arguments is lost on the way.
result_label_floor_Laundered(w, action, ctx) ==
  {UNION c.output : c \in {d \in w.descriptors[action].flow_contract : declares_result(d)}}

\* The least label of the result: what the contract declares, and what the
\* arguments it inherits from carry.  None when it says nothing of its result.
result_label_floor(w, action, ctx) ==
  UNION {UNION {
    LET inherited == {bound(f.args, f.ambient, binding(w, action, arg)) :
                        arg \in {a \in c.inherits : ~is_literal(w, action, a)}}
    IN  IF c.output \cup inherited = {} THEN {}
        ELSE {UNION (c.output \cup inherited)}
    : f \in ctx.flow} : c \in w.descriptors[action].flow_contract}

AUTHORITY == {"Target", "Command", "Credential"}   \* ArgRole::is_authority_bearing

\* The taint the floor judges: the ambient, or where the arguments have roles,
\* that of the ones that bind authority.
effective_floor_taint(w, action, ctx) ==
  LET roles == w.descriptors[action].arg_roles
      judged == {a \in DOMAIN roles : roles[a] \in AUTHORITY /\ ~is_literal(w, action, a)}
      taint_of(a) == bound(ctx.arg_taint, ctx.taint, binding(w, action, a))
  IN  IF DOMAIN roles = {} THEN ctx.taint
      ELSE IF \E a \in judged : taint_of(a) = "Tainted" THEN "Tainted" ELSE "Clean"

\* Side effects that leave the session.
EXTERNALLY_EFFECTFUL == {"Network", "External", "Credential", "Memory", "PersistentWrite"}

can_perform(w, trust, action_type) ==
  /\ trust \in DOMAIN w.capability_matrix
  /\ action_type \in w.capability_matrix[trust]

\* The floor under every world: no policy and no approval comes before it.
taint_floor(w, action, ctx) ==
  /\ effective_floor_taint(w, action, ctx) = "Tainted"
  /\ w.side_effects[action] \in EXTERNALLY_EFFECTFUL

\* Variant: a base action the world keeps off its surface can be called.
build_error_Unprojected(w, action, args, trust, ctx) ==
  IF action \notin w.ontology THEN "unknown_to_ontology"
  ELSE IF ~can_perform(w, trust, w.action_types[action]) THEN "capability"
  ELSE IF ~admissible(w, action, args) THEN "schema_violation"
  ELSE IF check_flow(w, action, ctx) # None THEN check_flow(w, action, ctx)
  ELSE IF taint_floor(w, action, ctx) THEN "taint_invariant"
  ELSE None

\* The first check that fails.
build_error(w, action, args, trust, ctx) ==
  IF action \notin w.ontology THEN "unknown_to_ontology"
  ELSE IF action \notin w.projected THEN "absent"
  ELSE IF ~can_perform(w, trust, w.action_types[action]) THEN "capability"
  ELSE IF ~admissible(w, action, args) THEN "schema_violation"
  ELSE IF check_flow(w, action, ctx) # None THEN check_flow(w, action, ctx)
  ELSE IF taint_floor(w, action, ctx) THEN "taint_invariant"
  ELSE None

\* An absence is not a refusal.
classify(rule) ==
  IF rule \in {"unknown_to_ontology", "absent", "capability"} THEN "Absent" ELSE "Deny"

-----------------------------------------------------------------------------
(* What a representable call is answered (disposition).                    *)

is_command(action_type) == action_type \in {"Command", "Pty"}
is_networky(action_type, side_effect) == action_type = "Web" \/ side_effect = "Network"
is_write(side_effect) == side_effect \in {"FilesystemWrite", "PersistentWrite"}

NoUsage == [commands_run |-> 0, network_calls |-> 0, file_writes |-> 0, tokens_used |-> 0]

reached(limit, used) == \E max \in limit : used >= max

\* The first budget that a call of this kind finds used up.
budget_exceeded(budget, usage, at, se) ==
  IF is_command(at) /\ reached(budget.max_commands_per_task, usage.commands_run)
  THEN "max_commands_per_task"
  ELSE IF is_networky(at, se) /\ reached(budget.max_network_calls, usage.network_calls)
  THEN "max_network_calls"
  ELSE IF is_write(se) /\ reached(budget.max_file_writes, usage.file_writes)
  THEN "max_file_writes"
  ELSE IF reached(budget.max_tokens_per_session, usage.tokens_used)
  THEN "max_tokens_per_session"
  ELSE None

counts_calls(budget) ==
  budget.max_commands_per_task \cup budget.max_network_calls
    \cup budget.max_file_writes \cup budget.max_tokens_per_session # {}

One(b) == IF b THEN 1 ELSE 0

charge(usage, at, se) ==
  [usage EXCEPT !.commands_run = @ + One(is_command(at)),
                !.network_calls = @ + One(is_networky(at, se)),
                !.file_writes = @ + One(is_write(se))]

answer(decision, mode, rule) == [decision |-> decision, effect_mode |-> mode, rule |-> rule]

\* The world's own taint rules, approval, budgets, and allow.  `ctx.mode` is
\* whether somebody can be asked, `ctx.approval_granted` whether a grant covers
\* exactly this call.
evaluate(w, action, ctx) ==
  LET at == w.action_types[action]
      se == w.side_effects[action]
      matching == {i \in DOMAIN w.taint_rules :
                     /\ w.taint_rules[i].from_taint = effective_floor_taint(w, action, ctx.taint)
                     /\ w.taint_rules[i].side_effect = se}
      rule == w.taint_rules[CHOOSE i \in matching : \A j \in matching : i <= j]
      over == budget_exceeded(w.budget, ctx.usage, at, se)
      pinned == {i \in DOMAIN w.effect_rules : w.effect_rules[i].action = action}
      first == CHOOSE i \in pinned : \A j \in pinned : i <= j
  IN  IF matching # {} THEN answer(rule.decision, {}, rule.rule)
      ELSE IF action \in w.approval_required /\ ~ctx.approval_granted
      THEN IF ctx.mode = "Background" THEN answer("Deny", {}, "background_denies_ask")
           ELSE answer("Ask", {}, "approval_required")
      ELSE IF over # None THEN answer("Replan", {}, over)
      ELSE answer("Allow", IF pinned = {} THEN {"Execute"}
                           ELSE {w.effect_rules[first].effect_mode}, "default_allow")

\* What the gate and the orchestrator get: the answer, and whether the call was
\* sealed, that is, representable.
decide(w, action, args, trust, ctx) ==
  LET error == build_error(w, action, args, trust, ctx.taint)
      a == evaluate(w, action, ctx)
  IN  IF error # None
      THEN [decision |-> classify(error), effect_mode |-> {}, rule |-> error,
            sealed |-> FALSE]
      ELSE [decision |-> a.decision, effect_mode |-> a.effect_mode, rule |-> a.rule,
            sealed |-> TRUE]
=============================================================================

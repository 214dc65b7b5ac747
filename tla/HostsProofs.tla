------------------------------- MODULE HostsProofs -------------------------------
(***************************************************************************)
(* What is proved of a session of any host under any manifests.            *)
(***************************************************************************)
EXTENDS Hosts, HookLogProofs

-----------------------------------------------------------------------------
(* The kernel's decision about any world, call and context: the floor comes *)
(* before every policy (FloorStands), an ALLOW says that every check passed *)
(* (AllowMeansAll), a charge stays within the budget (ChargeWithin), a      *)
(* result carries what it was made from (NothingLaundered), and where no    *)
(* policy speaks of what is clean, what is allowed in the more tainted of   *)
(* two contexts is allowed in the other (TaintOnlyTightens).                *)

\* A call that is not representable is refused or absent, whatever the policies,
\* the grants and the usage are.
LEMMA UnrepresentableIsRefused ==
  ASSUME NEW w, NEW action, NEW args, NEW trust, NEW ctx,
         build_error(w, action, args, trust, ctx.taint) # None
  PROVE  /\ decide(w, action, args, trust, ctx).decision \in {"Absent", "Deny"}
         /\ ~decide(w, action, args, trust, ctx).sealed
BY DEF decide, classify

\* The floor: a call whose authority is tainted and whose effect leaves the
\* session is refused in every world, under every grant (invariants.rs:
\* check_taint_floor; intent.rs: build; lib.rs: decide).
THEOREM FloorStands ==
  ASSUME NEW w, NEW action, NEW args, NEW trust, NEW ctx,
         taint_floor(w, action, ctx.taint)
  PROVE  /\ decide(w, action, args, trust, ctx).decision \in {"Absent", "Deny"}
         /\ ~decide(w, action, args, trust, ctx).sealed
<1>1. build_error(w, action, args, trust, ctx.taint) # None
  BY DEF build_error, None
<1> QED
  BY <1>1, UnrepresentableIsRefused

\* No rule on a taint transition lets a call pass by itself.
OnlyTightens(w) ==
  \E n \in Nat : /\ DOMAIN w.taint_rules = 1 .. n
                 /\ \A i \in 1 .. n : w.taint_rules[i].decision # "Allow"

\* The first index of a sequence that has a property.
LEMMA FirstMatch ==
  ASSUME NEW n \in Nat, NEW matching, matching \subseteq 1 .. n, matching # {}
  PROVE  (CHOOSE i \in matching : \A j \in matching : i <= j) \in matching
<1> DEFINE before(i) == {j \in matching : j < i}
           sets == {before(i) : i \in matching}
<1>1. IsWellFoundedOn(StrictSubsetOrdering(matching), SUBSET matching)
  <2>1. IsFiniteSet(1 .. n)
    BY FS_Interval
  <2>2. IsFiniteSet(matching)
    BY <2>1, FS_Subset
  <2> QED
    BY <2>2, FS_FiniteSubsetsOfFinite, FS_StrictSubsetOrderingWellFounded
<1>2. sets \subseteq SUBSET matching /\ sets # {}
  OBVIOUS
<1>3. \E x \in sets : \A y \in sets : <<y, x>> \notin StrictSubsetOrdering(matching)
  <2> HIDE DEF sets
  <2> QED
    BY <1>1, <1>2, WFMin, Zenon
<1>4. PICK i \in matching : \A k \in matching : <<before(k), before(i)>> \notin StrictSubsetOrdering(matching)
  BY <1>3
<1>5. ASSUME NEW k \in matching, k < i PROVE FALSE
  <2>1. k \in before(i) /\ k \notin before(k) /\ before(k) \in SUBSET matching /\ before(i) \in SUBSET matching
    BY <1>5
  <2>2. before(k) \subseteq before(i)
    <3>1. ASSUME NEW j \in matching, j < k PROVE j < i
      BY <1>5, <3>1
    <3> QED
      BY <3>1
  <2>3. <<before(k), before(i)>> \in StrictSubsetOrdering(matching)
    <3> HIDE DEF before
    <3> QED
      BY <2>1, <2>2 DEF StrictSubsetOrdering
  <2> QED
    BY <1>4, <2>3
<1>6. \A k \in matching : i <= k
  BY <1>5
<1> QED
  BY <1>6

\* A transition policy is about calls with this effect in contexts of this taint.
SpeaksOf(rule, w, action, ctx) ==
  /\ rule.from_taint = effective_floor_taint(w, action, ctx)
  /\ rule.side_effect = w.side_effects[action]

\* An ALLOW means that every check of the kernel passed: the world has the call
\* and shows it, its trust may make it, its arguments are as they must be, no
\* sink and not the floor refuses, no transition policy speaks of it, a needed approval
\* was granted, and no budget is used up (intent.rs: build; disposition.rs: evaluate).
THEOREM AllowMeansAll ==
  ASSUME NEW w, NEW action, NEW args, NEW trust, NEW ctx, OnlyTightens(w),
         decide(w, action, args, trust, ctx).decision = "Allow"
  PROVE  /\ action \in w.ontology /\ action \in w.projected
         /\ can_perform(w, trust, w.action_types[action])
         /\ admissible(w, action, args)
         /\ check_flow(w, action, ctx.taint) = None
         /\ ~taint_floor(w, action, ctx.taint)
         /\ \A i \in DOMAIN w.taint_rules : ~SpeaksOf(w.taint_rules[i], w, action, ctx.taint)
         /\ action \in w.approval_required => ctx.approval_granted
         /\ budget_exceeded(w.budget, ctx.usage, w.action_types[action], w.side_effects[action]) = None
<1>1. build_error(w, action, args, trust, ctx.taint) = None
  BY UnrepresentableIsRefused
<1>2. evaluate(w, action, ctx).decision = "Allow"
  BY <1>1 DEF decide
<1> DEFINE matching == {i \in DOMAIN w.taint_rules :
                          /\ w.taint_rules[i].from_taint = effective_floor_taint(w, action, ctx.taint)
                          /\ w.taint_rules[i].side_effect = w.side_effects[action]}
           first == CHOOSE i \in matching : \A j \in matching : i <= j
           over == budget_exceeded(w.budget, ctx.usage, w.action_types[action], w.side_effects[action])
<1>3. matching = {}
  <2>1. SUFFICES ASSUME matching # {} PROVE FALSE
    OBVIOUS
  <2>2. first \in matching
    <3>1. PICK n \in Nat : DOMAIN w.taint_rules = 1 .. n
      BY DEF OnlyTightens
    <3>2. matching \subseteq 1 .. n
      BY <3>1
    <3> HIDE DEF matching
    <3> QED
      BY <2>1, <3>2, FirstMatch
  <2>3. evaluate(w, action, ctx).decision = w.taint_rules[first].decision
    BY <2>1 DEF evaluate, answer
  <2> QED
    BY <1>2, <2>2, <2>3 DEF OnlyTightens
<1>4. (action \in w.approval_required => ctx.approval_granted) /\ over = None
  BY <1>2, <1>3 DEF evaluate, answer
<1>5. /\ action \in w.ontology /\ action \in w.projected
      /\ can_perform(w, trust, w.action_types[action])
      /\ admissible(w, action, args)
      /\ check_flow(w, action, ctx.taint) = None
      /\ ~taint_floor(w, action, ctx.taint)
  BY <1>1 DEF build_error, None
<1> QED
  BY <1>3, <1>4, <1>5 DEF SpeaksOf

-----------------------------------------------------------------------------
(* The budget.                                                             *)

Usages == [commands_run : Nat, network_calls : Nat, file_writes : Nat, tokens_used : Nat]
Budgets == [max_commands_per_task : SUBSET Nat, max_network_calls : SUBSET Nat,
            max_file_writes : SUBSET Nat, max_tokens_per_session : SUBSET Nat]

Within(budget, usage) ==
  /\ \A max \in budget.max_commands_per_task : usage.commands_run <= max
  /\ \A max \in budget.max_network_calls : usage.network_calls <= max
  /\ \A max \in budget.max_file_writes : usage.file_writes <= max

\* A call for which no budget was used up can be charged: the usage stays within
\* every limit (disposition.rs: budget_exceeded, charge).
THEOREM ChargeWithin ==
  ASSUME NEW budget \in Budgets, NEW usage \in Usages, NEW at, NEW se, Within(budget, usage),
         budget_exceeded(budget, usage, at, se) = None
  PROVE  /\ charge(usage, at, se) \in Usages
         /\ Within(budget, charge(usage, at, se))
<1> DEFINE charged == charge(usage, at, se)
<1>1. /\ charged \in Usages
      /\ charged.commands_run = usage.commands_run + One(is_command(at))
      /\ charged.network_calls = usage.network_calls + One(is_networky(at, se))
      /\ charged.file_writes = usage.file_writes + One(is_write(se))
  <2> DEFINE c == One(is_command(at))
             n == One(is_networky(at, se))
             f == One(is_write(se))
  <2>1. c \in Nat /\ n \in Nat /\ f \in Nat
    BY DEF One
  <2>2. charged = [usage EXCEPT !.commands_run = @ + c, !.network_calls = @ + n, !.file_writes = @ + f]
    BY DEF charge
  <2>3. usage = [commands_run |-> usage.commands_run, network_calls |-> usage.network_calls,
                 file_writes |-> usage.file_writes, tokens_used |-> usage.tokens_used]
    BY DEF Usages
  <2> HIDE DEF charged, c, n, f
  <2>4. charged = [commands_run |-> usage.commands_run + c, network_calls |-> usage.network_calls + n,
                 file_writes |-> usage.file_writes + f, tokens_used |-> usage.tokens_used]
    BY <2>2, <2>3
  <2>5. charged \in Usages
    BY <2>1, <2>4 DEF Usages
  <2> QED
    BY <2>4, <2>5 DEF c, n, f
<1>2. /\ is_command(at) => ~reached(budget.max_commands_per_task, usage.commands_run)
      /\ is_networky(at, se) => ~reached(budget.max_network_calls, usage.network_calls)
      /\ is_write(se) => ~reached(budget.max_file_writes, usage.file_writes)
  BY DEF budget_exceeded, None
<1>3. \A max \in budget.max_commands_per_task : charged.commands_run <= max
  BY <1>1, <1>2 DEF Within, reached, One, Usages, Budgets
<1>4. \A max \in budget.max_network_calls : charged.network_calls <= max
  BY <1>1, <1>2 DEF Within, reached, One, Usages, Budgets
<1>5. \A max \in budget.max_file_writes : charged.file_writes <= max
  BY <1>1, <1>2 DEF Within, reached, One, Usages, Budgets
<1> QED
  BY <1>1, <1>3, <1>4, <1>5 DEF Within

-----------------------------------------------------------------------------
(* Flow labels.                                                            *)

\* A call that the flow contract lets pass comes with labels, and with a label at
\* every sink that this sink takes (invariants.rs: check_flow).
THEOREM SinksTake ==
  ASSUME NEW w, NEW action, NEW ctx, NEW contract, NEW flow, NEW n \in Nat,
         w.descriptors[action].flow_contract = {contract}, DOMAIN contract.sinks = 1 .. n,
         check_flow(w, action, ctx) = None
  PROVE  /\ ctx.flow # {}
         /\ ctx.flow = {flow} =>
              \A i \in DOMAIN contract.sinks :
                \/ is_literal(w, action, contract.sinks[i].arg)
                \/ violated_axis(contract.sinks[i],
                     bound(flow.args, flow.ambient, binding(w, action, contract.sinks[i].arg))) = None
<1> DEFINE c == CHOOSE d \in w.descriptors[action].flow_contract : TRUE
           f == CHOOSE g \in ctx.flow : TRUE
           axis(i) == IF is_literal(w, action, c.sinks[i].arg) THEN None
                      ELSE violated_axis(c.sinks[i],
                             bound(f.args, f.ambient, binding(w, action, c.sinks[i].arg)))
           refusing == {i \in DOMAIN c.sinks : axis(i) # None}
           first == CHOOSE i \in refusing : \A j \in refusing : i <= j
<1>1. c = contract
  OBVIOUS
<1>2. ctx.flow # {} /\ IF refusing = {} THEN TRUE ELSE axis(first) = None
  BY DEF check_flow, None
<1>3. refusing = {}
  <2>1. refusing \subseteq 1 .. n
    BY <1>1
  <2>2. refusing # {} => first \in refusing
    <3> HIDE DEF refusing
    <3> QED
      BY <2>1, FirstMatch
  <2> QED
    BY <1>2, <2>2
<1>4. ctx.flow = {flow} => f = flow
  OBVIOUS
<1>5. \A i \in DOMAIN c.sinks : axis(i) = None
  BY <1>3
<1> HIDE DEF c, f
<1> QED
  BY <1>1, <1>2, <1>4, <1>5

\* The result of a call carries at least the marks of every argument that its
\* contract says it inherits from, but for the literals of the world (invariants.rs:
\* result_label_floor).
THEOREM NothingLaundered ==
  ASSUME NEW w, NEW action, NEW ctx, NEW contract \in w.descriptors[action].flow_contract,
         NEW flow \in ctx.flow, NEW arg \in contract.inherits, ~is_literal(w, action, arg)
  PROVE  \E floor \in result_label_floor(w, action, ctx) :
           bound(flow.args, flow.ambient, binding(w, action, arg)) \subseteq floor
<1> DEFINE inherited(c, f) == {bound(f.args, f.ambient, binding(w, action, a)) :
                                 a \in {b \in c.inherits : ~is_literal(w, action, b)}}
           floor(c, f) == UNION (c.output \cup inherited(c, f))
<1>1. bound(flow.args, flow.ambient, binding(w, action, arg)) \in inherited(contract, flow)
  OBVIOUS
<1>2. bound(flow.args, flow.ambient, binding(w, action, arg)) \subseteq floor(contract, flow)
  BY <1>1
<1>3. floor(contract, flow) \in IF contract.output \cup inherited(contract, flow) = {} THEN {}
                                ELSE {floor(contract, flow)}
  BY <1>1
<1>4. result_label_floor(w, action, ctx) =
        UNION {UNION {IF c.output \cup inherited(c, f) = {} THEN {} ELSE {floor(c, f)} : f \in ctx.flow}
               : c \in w.descriptors[action].flow_contract}
  BY DEF result_label_floor
<1> HIDE DEF floor, inherited
<1> QED
  BY <1>2, <1>3, <1>4

-----------------------------------------------------------------------------
(* More taint, and more marks, never make a call representable.            *)

\* The same arguments are known, and each is at least as tainted.
Dirtier(known, rest, more, around) ==
  /\ rest = "Tainted" => around = "Tainted"
  /\ DOMAIN more = DOMAIN known
  /\ \A a \in DOMAIN known : known[a] = "Tainted" => more[a] = "Tainted"

\* A source names one argument of the actor at most.
SourcesNameOne(w, action) ==
  scoped(w, action) =>
    \A a \in DOMAIN cap_args(w, action) :
      LET src == cap_args(w, action)[a]
      IN  /\ src.from \in {"actor", "input", "literal", "context"}
          /\ src.from = "input" => src.as = {} \/ \E n : src.as = {n}

LEMMA BindingNamesOne ==
  ASSUME NEW w, NEW action, SourcesNameOne(w, action), NEW arg
  PROVE  binding(w, action, arg) = {} \/ \E n : binding(w, action, arg) = {n}
<1>1. CASE ~scoped(w, action) \/ arg \notin DOMAIN cap_args(w, action)
  BY <1>1 DEF binding
<1>2. CASE scoped(w, action) /\ arg \in DOMAIN cap_args(w, action)
  <2> DEFINE src == cap_args(w, action)[arg]
  <2>1. binding(w, action, arg) = actor_name(src, arg)
    BY <1>2 DEF binding
  <2>2. CASE src.from = "actor"
    BY <2>1, <2>2 DEF actor_name
  <2>3. CASE src.from = "input"
    BY <1>2, <2>1, <2>3 DEF actor_name, SourcesNameOne
  <2>4. CASE src.from \in {"literal", "context"}
    BY <2>1, <2>4 DEF actor_name
  <2> QED
    BY <1>2, <2>2, <2>3, <2>4 DEF SourcesNameOne
<1> QED
  BY <1>1, <1>2

LEMMA BoundDirtier ==
  ASSUME NEW known, NEW rest, NEW more, NEW around, Dirtier(known, rest, more, around),
         NEW keys, keys = {} \/ \E n : keys = {n},
         bound(known, rest, keys) = "Tainted"
  PROVE  bound(more, around, keys) = "Tainted"
<1>1. CASE keys \cap DOMAIN known = {}
  BY <1>1 DEF bound, Dirtier
<1>2. CASE keys \cap DOMAIN known # {}
  <2>1. PICK n \in DOMAIN known : keys = {n}
    BY <1>2
  <2>2. bound(known, rest, keys) = known[n]
    BY <2>1 DEF bound
  <2>3. bound(more, around, keys) = more[n]
    BY <2>1 DEF bound, Dirtier
  <2> QED
    BY <2>1, <2>2, <2>3 DEF Dirtier
<1> QED
  BY <1>1, <1>2

LEMMA FloorDirtier ==
  ASSUME NEW w, NEW action, SourcesNameOne(w, action), NEW ctx, NEW dirty,
         Dirtier(ctx.arg_taint, ctx.taint, dirty.arg_taint, dirty.taint),
         effective_floor_taint(w, action, ctx) = "Tainted"
  PROVE  effective_floor_taint(w, action, dirty) = "Tainted"
<1> DEFINE roles == w.descriptors[action].arg_roles
           judged == {a \in DOMAIN roles : roles[a] \in AUTHORITY /\ ~is_literal(w, action, a)}
           of(c, a) == bound(c.arg_taint, c.taint, binding(w, action, a))
<1>2. CASE DOMAIN roles = {}
  <2>1. ctx.taint = "Tainted"
    BY <1>2 DEF effective_floor_taint
  <2>2. dirty.taint = "Tainted"
    BY <2>1 DEF Dirtier
  <2> QED
    BY <1>2, <2>2 DEF effective_floor_taint
<1>3. CASE DOMAIN roles # {}
  <2>1. PICK a \in judged : of(ctx, a) = "Tainted"
    BY <1>3 DEF effective_floor_taint
  <2>2. binding(w, action, a) = {} \/ \E n : binding(w, action, a) = {n}
    BY BindingNamesOne
  <2>3. of(dirty, a) = "Tainted"
    BY <2>1, <2>2, BoundDirtier
  <2> QED
    BY <1>3, <2>1, <2>3 DEF effective_floor_taint
<1> QED
  BY <1>2, <1>3

\* Two contexts of the same person, grant, usage and labels, the second of more taint.
SameButDirtier(ctx, dirty) ==
  /\ Dirtier(ctx.taint.arg_taint, ctx.taint.taint, dirty.taint.arg_taint, dirty.taint.taint)
  /\ dirty.taint.flow = ctx.taint.flow
  /\ dirty.usage = ctx.usage /\ dirty.approval_granted = ctx.approval_granted

\* Taint only takes away: a call that is allowed in the more tainted of two contexts is
\* allowed in the other, in every world whose transition policies let nothing pass by
\* themselves and speak of tainted contexts only; so no order of reads and calls gains a
\* session a call (lib.rs: decide; invariants.rs: effective_floor_taint; intent.rs: build;
\* disposition.rs: evaluate).
THEOREM TaintOnlyTightens ==
  ASSUME NEW w, NEW action, NEW args, NEW trust, SourcesNameOne(w, action), OnlyTightens(w),
         \A i \in DOMAIN w.taint_rules : w.taint_rules[i].from_taint = "Tainted",
         NEW ctx, NEW dirty, SameButDirtier(ctx, dirty),
         decide(w, action, args, trust, dirty).decision = "Allow"
  PROVE  decide(w, action, args, trust, ctx).decision = "Allow"
<1>1. /\ action \in w.ontology /\ action \in w.projected
      /\ can_perform(w, trust, w.action_types[action])
      /\ admissible(w, action, args)
      /\ check_flow(w, action, dirty.taint) = None
      /\ ~taint_floor(w, action, dirty.taint)
      /\ \A i \in DOMAIN w.taint_rules : ~SpeaksOf(w.taint_rules[i], w, action, dirty.taint)
      /\ action \in w.approval_required => dirty.approval_granted
      /\ budget_exceeded(w.budget, dirty.usage, w.action_types[action], w.side_effects[action]) = None
  BY AllowMeansAll
<1>2. effective_floor_taint(w, action, ctx.taint) = "Tainted"
        => effective_floor_taint(w, action, dirty.taint) = "Tainted"
  BY FloorDirtier DEF SameButDirtier
<1>3. check_flow(w, action, ctx.taint) = None
  <2>1. check_flow(w, action, dirty.taint) = check_flow(w, action, ctx.taint)
    BY DEF check_flow, SameButDirtier
  <2> QED
    BY <1>1, <2>1
<1>4. build_error(w, action, args, trust, ctx.taint) = None
  BY <1>1, <1>2, <1>3 DEF build_error, taint_floor
<1>5. \A i \in DOMAIN w.taint_rules : ~SpeaksOf(w.taint_rules[i], w, action, ctx.taint)
  BY <1>1, <1>2 DEF SpeaksOf
<1> DEFINE matching == {i \in DOMAIN w.taint_rules :
                          /\ w.taint_rules[i].from_taint = effective_floor_taint(w, action, ctx.taint)
                          /\ w.taint_rules[i].side_effect = w.side_effects[action]}
<1>6. matching = {}
  BY <1>5 DEF SpeaksOf
<1>7. /\ action \in w.approval_required => ctx.approval_granted
      /\ budget_exceeded(w.budget, ctx.usage, w.action_types[action], w.side_effects[action]) = None
  BY <1>1 DEF SameButDirtier
<1>8. evaluate(w, action, ctx).decision = "Allow"
  BY <1>6, <1>7 DEF evaluate, answer
<1> QED
  BY <1>4, <1>8 DEF decide

-----------------------------------------------------------------------------
(* The world of a session.                                                 *)

\* No manifest has a transition policy that lets a call pass by itself: such a
\* policy comes before approval and budget (disposition.rs: evaluate).
ManifestsTighten ==
  \A m \in DOMAIN Manifests : OnlyTightens([taint_rules |-> Manifests[m].transition_policies])

\* The world is that of a manifest that validates, and stays what it was.
WorldKnown ==
  /\ manifest \in DOMAIN Manifests /\ validate_manifest(Manifests[manifest])
  /\ host \in Hosts
  /\ world = IF host = "gateway" THEN compile(Manifests[manifest])
             ELSE load_compiled_world(Manifests[manifest])

\* A world is compiled from a manifest that differs from the author's in its roots
\* at most.
LEMMA CompiledFrom ==
  ASSUME WorldKnown
  PROVE  \E m : /\ world = compile(m) /\ IsWorldManifest(Manifests[manifest])
                /\ \A k \in {"channels", "capabilities", "base_actions", "scoped_capabilities",
                             "command_classes", "path_classes", "transition_policies",
                             "mcp_surface", "budget"} : m[k] = Manifests[manifest][k]
<1> DEFINE m == Manifests[manifest]
           ks == {"channels", "capabilities", "base_actions", "scoped_capabilities",
                  "command_classes", "path_classes", "transition_policies", "mcp_surface", "budget"}
<1>1. IsWorldManifest(m)
  BY ManifestsAssumption DEF WorldKnown
<1>2. CASE host = "gateway"
  BY <1>1, <1>2 DEF WorldKnown
<1>3. CASE host # "gateway"
  <2> DEFINE n == [m EXCEPT !.roots =
                     {canonicalize_root_paths(resolve_root_paths(r, Home, Base)) : r \in @}]
  <2>1. world = compile(n)
    BY <1>3 DEF WorldKnown, load_compiled_world
  <2>2. DOMAIN m = ks \cup {"roots"}
    BY <1>1 DEF IsWorldManifest
  <2>3. \A k \in ks : n[k] = m[k]
    BY <2>2
  <2> HIDE DEF n
  <2> QED
    BY <1>1, <2>1, <2>3
<1> QED
  BY <1>2, <1>3

LEMMA WorldTightens == WorldKnown /\ ManifestsTighten => OnlyTightens(world)
<1> SUFFICES ASSUME WorldKnown, ManifestsTighten
             PROVE  OnlyTightens(world)
  OBVIOUS
<1> DEFINE policies == Manifests[manifest].transition_policies
<1>1. PICK m : /\ world = compile(m) /\ IsWorldManifest(Manifests[manifest])
               /\ m.transition_policies = policies
  BY CompiledFrom
<1>2. PICK n \in Nat : DOMAIN policies = 1 .. n /\ \A i \in 1 .. n : policies[i].decision # "Allow"
  BY DEF WorldKnown, ManifestsTighten, OnlyTightens
<1>3. world.taint_rules = [i \in DOMAIN policies |->
        [policies[i] EXCEPT !.rule = IF @ = "" THEN "transition" ELSE @]]
  BY <1>1 DEF compile
<1>4. \A i \in 1 .. n : "decision" \in DOMAIN policies[i]
  BY <1>1, <1>2 DEF IsWorldManifest, All, IsTransitionPolicy
<1>5. \A i \in 1 .. n : world.taint_rules[i].decision = policies[i].decision
  BY <1>2, <1>3, <1>4
<1> HIDE DEF policies
<1> QED
  BY <1>2, <1>3, <1>5 DEF OnlyTightens

\* What a validated manifest guards is what the kernel asks for, under the name of
\* the base action and of everything that narrows it (compile.rs: approval_required).
LEMMA GuardedIsAsked ==
  ASSUME WorldKnown, NEW action, Guarded(action)
  PROVE  action \in world.approval_required
<1> DEFINE bases == Manifests[manifest].base_actions
           caps == Manifests[manifest].scoped_capabilities
<1>1. PICK m : world = compile(m) /\ m.base_actions = bases /\ m.scoped_capabilities = caps
  BY CompiledFrom
<1>2. /\ \A i, j \in DOMAIN bases : bases[i].name = bases[j].name => i = j
      /\ \A i, j \in DOMAIN caps : caps[i].name = caps[j].name => i = j
      /\ \A i \in DOMAIN caps : caps[i].name \notin names(bases)
  BY DEF WorldKnown, validate_manifest, unique
<1>3. world.approval_required =
        {a \in names(bases) \cup names(caps) : base_of(m, a).approval_required}
  BY <1>1 DEF compile, approval_required
<1>4. PICK i \in DOMAIN bases :
        /\ bases[i].approval_required
        /\ \/ bases[i].name = action
           \/ \E c \in ToSet(caps) : c.name = action /\ c.base_action = bases[i].name
  BY DEF Guarded, ToSet
<1>5. named(bases, bases[i].name) = bases[i]
  BY <1>2 DEF named
<1>6. bases[i].name \in names(bases)
  BY DEF names
<1> HIDE DEF bases, caps
<1>7. CASE bases[i].name = action
  BY <1>1, <1>3, <1>4, <1>5, <1>6, <1>7 DEF base_of
<1>8. CASE \E c \in ToSet(caps) : c.name = action /\ c.base_action = bases[i].name
  <2>1. PICK j \in DOMAIN caps : caps[j].name = action /\ caps[j].base_action = bases[i].name
    BY <1>8 DEF ToSet
  <2>2. named(caps, action) = caps[j]
    BY <1>2, <2>1 DEF named
  <2>3. action \in names(caps) /\ action \notin names(bases)
    BY <1>2, <2>1 DEF names
  <2>4. base_of(m, action) = bases[i]
    BY <1>1, <1>5, <2>1, <2>2, <2>3 DEF base_of
  <2> QED
    BY <1>3, <1>4, <2>3, <2>4
<1> QED
  BY <1>4, <1>7, <1>8

\* The limits of a world are natural numbers.
LEMMA LimitsAreNat ==
  ASSUME WorldKnown
  PROVE  /\ world.budget.max_commands_per_task \subseteq Nat
         /\ world.budget.max_network_calls \subseteq Nat
         /\ world.budget.max_file_writes \subseteq Nat
         /\ world.budget.max_tokens_per_session \subseteq Nat
<1>1. PICK m : /\ world = compile(m) /\ IsWorldManifest(Manifests[manifest])
               /\ m.budget = Manifests[manifest].budget
  BY CompiledFrom
<1>2. world.budget = m.budget /\ IsBudget(m.budget)
  BY <1>1 DEF compile, IsWorldManifest
<1> QED
  BY <1>2 DEF IsBudget, Budget_limits, Option

-----------------------------------------------------------------------------
(* The gate.                                                               *)

\* Whatever the gate answers, the usage it hands back is what it was given, and is
\* charged if the call is allowed (gate.rs: out_usage).
LEMMA GateCharges ==
  ASSUME NEW w, NEW req, NEW granted
  PROVE  LET verdict == gate(w, req, granted)
             action == classify_call(w, req.tool, req.arguments, req.path)
         IN  /\ verdict.action = action
             /\ verdict.usage =
                  IF verdict.decision = "Allow"
                  THEN charge(carried(req), w.action_types[action], w.side_effects[action])
                  ELSE carried(req)
<1> DEFINE action == classify_call(w, req.tool, req.arguments, req.path)
           policy == CHOOSE p \in UNION {channel_policy(w, c) : c \in req.source_channel} : TRUE
<1>1. CASE malformed(w, req) # None
  <2>1. gate(w, req, granted) = refused(w, req, action, malformed(w, req))
    BY <1>1 DEF gate
  <2> QED
    BY <2>1 DEF refused, denied_response
<1>2. CASE malformed(w, req) = None
  <2>1. gate(w, req, granted) = governed(w, req, granted, action, policy)
    BY <1>2 DEF gate
  <2>2. PICK inbound, tc, kernel, final :
          gate(w, req, granted) = response(w, req, action, inbound, tc, kernel, final)
    BY <2>1 DEF governed, decided, scoped_response
  <2> HIDE DEF action
  <2>3. /\ gate(w, req, granted).action = action
        /\ gate(w, req, granted).usage =
             out_usage(w, action, carried(req), gate(w, req, granted).decision = "Allow")
    BY <2>2 DEF response
  <2> QED
    BY <2>3 DEF out_usage, action
<1> QED
  BY <1>1, <1>2

\* A call that the gate allows was allowed by the kernel, under the usage that the
\* host carries; a host that should carry one does.
LEMMA GateAllows ==
  ASSUME NEW w, NEW req, NEW granted, gate(w, req, granted).decision = "Allow"
  PROVE  /\ malformed(w, req) = None
         /\ \E trust, tc, how :
              decide(w, classify_call(w, req.tool, req.arguments, req.path), req.arguments, trust,
                     [taint |-> tc, mode |-> how, usage |-> carried(req),
                      approval_granted |-> granted]).decision = "Allow"
<1> DEFINE action == classify_call(w, req.tool, req.arguments, req.path)
           policy == CHOOSE p \in UNION {channel_policy(w, c) : c \in req.source_channel} : TRUE
<1>1. malformed(w, req) = None
  <2> SUFFICES ASSUME malformed(w, req) # None PROVE FALSE
    OBVIOUS
  <2>1. gate(w, req, granted) = refused(w, req, action, malformed(w, req))
    BY DEF gate
  <2> QED
    BY <2>1 DEF refused, denied_response
<1>2. gate(w, req, granted) = governed(w, req, granted, action, policy)
  BY <1>1 DEF gate
<1> HIDE DEF action, policy
<1>3. PICK inbound, tc :
        gate(w, req, granted) = decided(w, req, granted, action, policy.trust, inbound, tc)
  BY <1>2 DEF governed
<1> DEFINE kernel == decide(w, action, req.arguments, policy.trust,
                            [taint |-> tc, mode |-> parse_mode(req.mode), usage |-> carried(req),
                             approval_granted |-> granted])
           final == tightened(kernel, path_scope(w, action, req.path, parse_mode(req.mode)))
<1>4. gate(w, req, granted) = response(w, req, action, inbound, tc, kernel, final)
  BY <1>3 DEF decided, scoped_response
<1>5. final.decision = "Allow"
  <2> HIDE DEF final, kernel
  <2> QED
    BY <1>4 DEF response
<1>6. kernel.decision = "Allow"
  <2> HIDE DEF kernel
  <2> QED
    BY <1>5 DEF tightened
<1> QED
  BY <1>1, <1>6 DEF action

\* The two promises of an allowed call that reach beyond one request: an action that
\* needs approval had it granted, and no budget was used up.
LEMMA GateGrants ==
  ASSUME NEW w, NEW req, NEW granted, OnlyTightens(w), gate(w, req, granted).decision = "Allow"
  PROVE  LET action == gate(w, req, granted).action
         IN  /\ action \in w.approval_required => granted
             /\ budget_exceeded(w.budget, carried(req), w.action_types[action],
                                w.side_effects[action]) = None
<1> DEFINE action == classify_call(w, req.tool, req.arguments, req.path)
<1>1. gate(w, req, granted).action = action
  BY GateCharges
<1>2. PICK trust, tc, how :
        decide(w, action, req.arguments, trust,
               [taint |-> tc, mode |-> how, usage |-> carried(req),
                approval_granted |-> granted]).decision = "Allow"
  BY GateAllows
<1> HIDE DEF action
<1> DEFINE ctx == [taint |-> tc, mode |-> how, usage |-> carried(req), approval_granted |-> granted]
<1>3. /\ action \in w.approval_required => ctx.approval_granted
      /\ budget_exceeded(w.budget, ctx.usage, w.action_types[action], w.side_effects[action]) = None
  <2> HIDE DEF ctx
  <2>1. decide(w, action, req.arguments, trust, ctx).decision = "Allow"
    BY <1>2 DEF ctx
  <2> QED
    BY <2>1, AllowMeansAll
<1> QED
  BY <1>1, <1>3

-----------------------------------------------------------------------------
(* What calls count.                                                       *)

Spends == [commands : Nat, network : Nat, writes : Nat]

LEMMA NothingSpent ==
  ASSUME WorldKnown
  PROVE  /\ NewUsage \in Spends /\ NoUsage \in Usages /\ Counts(NoUsage, NewUsage)
         /\ WithinBudget(NewUsage) /\ Within(world.budget, NoUsage)
BY LimitsAreNat DEF NewUsage, NoUsage, Spends, Usages, Counts, WithinBudget, Within

\* What a host counts and what the code charges grow alike.
LEMMA SpentIsCharged ==
  ASSUME NEW s \in Spends, NEW u \in Usages, NEW action
  PROVE  LET spend == Spent(s, action)
             used == charge(u, world.action_types[action], world.side_effects[action])
         IN  /\ spend \in Spends /\ used \in Usages
             /\ Counts(u, s) => Counts(used, spend)
             /\ s.commands <= u.commands_run /\ s.network <= u.network_calls /\ s.writes <= u.file_writes
                => /\ spend.commands <= used.commands_run /\ spend.network <= used.network_calls
                   /\ spend.writes <= used.file_writes
<1> DEFINE at == world.action_types[action]
           se == world.side_effects[action]
           c == One(is_command(at))
           n == One(is_networky(at, se))
           f == One(is_write(se))
<1>1. c \in Nat /\ n \in Nat /\ f \in Nat
  BY DEF One
<1>2. Spent(s, action) = [commands |-> s.commands + c, network |-> s.network + n, writes |-> s.writes + f]
  BY DEF Spent, is_command, is_networky, is_write
<1>3. charge(u, at, se) = [u EXCEPT !.commands_run = @ + c, !.network_calls = @ + n, !.file_writes = @ + f]
  BY DEF charge
<1>4. u = [commands_run |-> u.commands_run, network_calls |-> u.network_calls,
           file_writes |-> u.file_writes, tokens_used |-> u.tokens_used]
  BY DEF Usages
<1> HIDE DEF c, n, f
<1>5. charge(u, at, se) = [commands_run |-> u.commands_run + c, network_calls |-> u.network_calls + n,
                           file_writes |-> u.file_writes + f, tokens_used |-> u.tokens_used]
  BY <1>3, <1>4
<1> HIDE DEF at, se
<1>6. /\ u.commands_run \in Nat /\ u.network_calls \in Nat /\ u.file_writes \in Nat /\ u.tokens_used \in Nat
      /\ s.commands \in Nat /\ s.network \in Nat /\ s.writes \in Nat
  BY DEF Usages, Spends
<1>7. Spent(s, action) \in Spends /\ charge(u, at, se) \in Usages
  BY <1>1, <1>2, <1>5, <1>6 DEF Spends, Usages
<1>8. Counts(u, s) => Counts(charge(u, at, se), Spent(s, action))
  BY <1>1, <1>2, <1>5, <1>6 DEF Counts
<1>9. s.commands <= u.commands_run /\ s.network <= u.network_calls /\ s.writes <= u.file_writes
      => /\ Spent(s, action).commands <= charge(u, at, se).commands_run
         /\ Spent(s, action).network <= charge(u, at, se).network_calls
         /\ Spent(s, action).writes <= charge(u, at, se).file_writes
  BY <1>1, <1>2, <1>5, <1>6
<1> QED
  BY <1>7, <1>8, <1>9 DEF at, se

\* A host whose usage is what it ran is within the budget when its usage is; and a
\* usage for which no budget was used up stays within when it is charged.
LEMMA BudgetOfUsage ==
  ASSUME NEW s \in Spends, NEW u \in Usages, Counts(u, s)
  PROVE  WithinBudget(s) <=> Within(world.budget, u)
BY DEF Counts, WithinBudget, Within

LEMMA ChargedStaysWithin ==
  ASSUME WorldKnown, NEW u \in Usages, Within(world.budget, u), NEW action,
         budget_exceeded(world.budget, u, world.action_types[action], world.side_effects[action]) = None
  PROVE  Within(world.budget, charge(u, world.action_types[action], world.side_effects[action]))
<1> DEFINE b == [max_commands_per_task |-> world.budget.max_commands_per_task,
                 max_network_calls |-> world.budget.max_network_calls,
                 max_file_writes |-> world.budget.max_file_writes,
                 max_tokens_per_session |-> world.budget.max_tokens_per_session]
           at == world.action_types[action]
           se == world.side_effects[action]
<1>1. b \in Budgets
  BY LimitsAreNat DEF Budgets
<1>2. budget_exceeded(b, u, at, se) = budget_exceeded(world.budget, u, at, se)
  BY DEF budget_exceeded
<1>3. \A v : Within(b, v) <=> Within(world.budget, v)
  BY DEF Within
<1> HIDE DEF b, at, se
<1>4. Within(b, charge(u, at, se))
  BY <1>1, <1>2, <1>3, ChargeWithin DEF at, se
<1> QED
  BY <1>3, <1>4 DEF at, se

-----------------------------------------------------------------------------
(* The gateway.                                                            *)

GatewayUsageKept ==
  /\ session_usage \in Usages /\ spent \in Spends
  /\ Counts(session_usage, spent) /\ WithinBudget(spent)
SentUnderGrant == \A r \in sent : Guarded(r.action) => r.consent
GatewaySafe == GatewayUsageKept /\ SentUnderGrant

LEMMA GatewayStarts == WorldKnown /\ GatewayInit => GatewaySafe
BY NothingSpent DEF GatewayInit, GatewaySafe, GatewayUsageKept, SentUnderGrant

\* One verdict, of a call that a grant may have been claimed for.
LEMMA GatewayDecides ==
  ASSUME WorldKnown, ManifestsTighten, GatewaySafe, UNCHANGED world_vars,
         NEW call, NEW claimed \in BOOLEAN,
         CallDecided(call, claimed, govern(call, claimed))
  PROVE  GatewaySafe'
<1> DEFINE req == GatewayRequest(call)
           verdict == govern(call, claimed)
           action == verdict.action
           at == world.action_types[action]
           se == world.side_effects[action]
<1>1. carried(req) = session_usage /\ verdict = gate(world, req, claimed)
  BY DEF GatewayRequest, carried, govern
<1>2. verdict.usage = IF verdict.decision = "Allow" THEN charge(session_usage, at, se)
                      ELSE session_usage
  <2> HIDE DEF req
  <2> QED
    BY <1>1, GateCharges
<1>3. OnlyTightens(world)
  BY WorldTightens
<1>4. ASSUME verdict.decision = "Allow"
      PROVE  /\ action \in world.approval_required => claimed
             /\ budget_exceeded(world.budget, session_usage, at, se) = None
  <2> HIDE DEF req
  <2> QED
    BY <1>1, <1>3, <1>4, GateGrants
<1>5. world' = world /\ manifest' = manifest
  BY DEF world_vars
<1> HIDE DEF req, verdict, at, se
<1>6. CASE CallBlocked(verdict)
  BY <1>2, <1>5, <1>6
    DEF CallBlocked, GatewaySafe, GatewayUsageKept, SentUnderGrant, Counts, WithinBudget, Guarded
<1>7. CASE CallNotForwardable(call, verdict)
  BY <1>5, <1>7
    DEF CallNotForwardable, GatewaySafe, GatewayUsageKept, SentUnderGrant, Counts, WithinBudget, Guarded
<1>8. CASE CallForwarded(call, claimed, verdict)
  <2>1. /\ verdict.decision = "Allow" /\ session_usage' = verdict.usage /\ spent' = Spent(spent, action)
        /\ \E target : sent' = {Running(action, call.arguments, target.input, claimed)}
    BY <1>8 DEF CallForwarded, action
  <2>2. session_usage' = charge(session_usage, at, se)
    BY <1>2, <2>1
  <2>3. session_usage' \in Usages /\ spent' \in Spends /\ Counts(session_usage', spent')
    BY <2>1, <2>2, SpentIsCharged DEF GatewaySafe, GatewayUsageKept, at, se
  <2>4. Within(world.budget, session_usage)
    BY BudgetOfUsage DEF GatewaySafe, GatewayUsageKept
  <2>5. Within(world.budget, session_usage')
    BY <1>4, <2>1, <2>2, <2>4, ChargedStaysWithin DEF GatewaySafe, GatewayUsageKept, at, se
  <2>6. WithinBudget(spent')
    BY <2>3, <2>5, BudgetOfUsage
  <2>7. GatewayUsageKept'
    BY <1>5, <2>3, <2>6 DEF GatewayUsageKept, WithinBudget, Counts
  <2>8. Guarded(action) => claimed
    BY <1>4, <2>1, GuardedIsAsked
  <2>9. \A r \in sent' : r.action = action /\ r.consent = claimed
    BY <2>1 DEF Running
  <2>10. SentUnderGrant'
    BY <1>5, <2>8, <2>9 DEF SentUnderGrant, Guarded
  <2> QED
    BY <2>7, <2>10 DEF GatewaySafe
<1> QED
  BY <1>6, <1>7, <1>8 DEF CallDecided, verdict

LEMMA GatewayStays ==
  ASSUME WorldKnown, ManifestsTighten, GatewaySafe, GatewayNext, UNCHANGED world_vars
  PROVE  GatewaySafe'
<1>1. world' = world /\ manifest' = manifest
  BY DEF world_vars
<1>2. CASE ToolsList
  BY <1>1, <1>2 DEF ToolsList, GatewaySafe, GatewayUsageKept, SentUnderGrant, Counts, WithinBudget, Guarded
<1>3. ASSUME NEW call, CallGoverned(call, govern(call, FALSE)) PROVE GatewaySafe'
  <2>1. PICK claimed \in BOOLEAN :
          CallDecided(call, claimed, IF claimed THEN govern(call, TRUE) ELSE govern(call, FALSE))
    BY <1>3 DEF CallGoverned, claims
  <2>2. CallDecided(call, claimed, govern(call, claimed))
    BY <2>1
  <2> QED
    BY <2>2, GatewayDecides
<1>4. CASE CallAnswered
  BY <1>1, <1>4 DEF CallAnswered, GatewaySafe, GatewayUsageKept, SentUnderGrant, Counts, WithinBudget, Guarded
<1>5. CASE CallDemandsInput
  BY <1>1, <1>5 DEF CallDemandsInput, GatewaySafe, GatewayUsageKept, SentUnderGrant, Counts, WithinBudget, Guarded
<1>6. CASE CallBroken
  BY <1>1, <1>6 DEF CallBroken, GatewaySafe, GatewayUsageKept, SentUnderGrant, Counts, WithinBudget, Guarded
<1>7. CASE UpstreamCloses
  BY <1>1, <1>7 DEF UpstreamCloses, GatewaySafe, GatewayUsageKept, SentUnderGrant, Counts, WithinBudget, Guarded
<1> QED
  BY <1>2, <1>3, <1>4, <1>5, <1>6, <1>7 DEF GatewayNext

-----------------------------------------------------------------------------
(* The host of the gate ABI.                                               *)

WireUsageKept ==
  /\ wire_usage \in Usages /\ wire_spent \in Spends /\ WithinBudget(wire_spent)
  /\ "usage" \notin forgets => Counts(wire_usage, wire_spent)
RunningUnderGrant == \A r \in running : Guarded(r.action) => r.consent
WireSafe == WireUsageKept /\ RunningUnderGrant

LEMMA WireStarts == WorldKnown /\ WireInit => WireSafe
BY NothingSpent DEF WireInit, WireSafe, WireUsageKept, RunningUnderGrant

\* A call that is started is of the action decided on.
LEMMA StartedAs ==
  ASSUME NEW call, NEW res, NEW consent, NEW r \in Started(call, res, consent)
  PROVE  r.action = res.action /\ r.consent = consent /\ r.allowed = (res.decision = "Allow")
BY DEF Started

LEMMA WireGoverns ==
  ASSUME WorldKnown, ManifestsTighten, WireSafe, UNCHANGED world_vars,
         NEW call, NEW authorized \in BOOLEAN, Govern(call, authorized)
  PROVE  WireSafe'
<1> DEFINE req == WireRequest(call)
           verdict == gate(world, req, authorized)
           action == verdict.action
           at == world.action_types[action]
           se == world.side_effects[action]
           usage == carried(req)
<1>1. /\ "usage" \in forgets => req.usage = {} /\ usage = NoUsage
      /\ "usage" \notin forgets => usage = wire_usage
  BY DEF WireRequest, Sends, carried
<1>2. usage \in Usages
  BY <1>1, NothingSpent DEF WireSafe, WireUsageKept
<1>3. verdict.usage = IF verdict.decision = "Allow" THEN charge(usage, at, se) ELSE usage
  <2> HIDE DEF req
  <2> QED
    BY GateCharges
<1>4. OnlyTightens(world)
  BY WorldTightens
<1>5. ASSUME verdict.decision = "Allow"
      PROVE  /\ action \in world.approval_required => authorized
             /\ budget_exceeded(world.budget, usage, at, se) = None
             /\ counts_calls(world.budget) => req.usage # {}
  <2> HIDE DEF req
  <2>1. malformed(world, req) = None
    BY <1>5, GateAllows
  <2>2. counts_calls(world.budget) => req.usage # {}
    BY <2>1 DEF malformed, None
  <2> QED
    BY <1>4, <1>5, <2>2, GateGrants
<1>6. world' = world /\ manifest' = manifest
  BY DEF world_vars
<1>7. /\ wire_usage' = verdict.usage /\ forgets' = forgets
      /\ running' = IF verdict.decision = "Allow" THEN Started(call, verdict, authorized) ELSE {}
      /\ wire_spent' = IF verdict.decision = "Allow" THEN Spent(wire_spent, action) ELSE wire_spent
  BY DEF Govern, Carry, persist
<1> HIDE DEF req, verdict, at, se, usage
<1>8. CASE verdict.decision # "Allow"
  <2>1. WireUsageKept'
    BY <1>1, <1>2, <1>3, <1>6, <1>7, <1>8 DEF WireSafe, WireUsageKept, WithinBudget, Counts
  <2> QED
    BY <1>7, <1>8, <2>1 DEF WireSafe, RunningUnderGrant
<1>9. CASE verdict.decision = "Allow"
  <2>1. wire_usage' = charge(usage, at, se) /\ wire_spent' = Spent(wire_spent, action)
    BY <1>3, <1>7, <1>9
  <2>2. /\ wire_usage' \in Usages /\ wire_spent' \in Spends
        /\ Counts(usage, wire_spent) => Counts(wire_usage', wire_spent')
    BY <1>2, <2>1, SpentIsCharged DEF WireSafe, WireUsageKept, at, se
  <2>3. ASSUME "usage" \notin forgets PROVE WireUsageKept'
    <3>1. Counts(usage, wire_spent) /\ Within(world.budget, usage)
      BY <1>1, <1>2, <2>3, BudgetOfUsage DEF WireSafe, WireUsageKept
    <3>2. Within(world.budget, wire_usage')
      BY <1>2, <1>5, <1>9, <2>1, <3>1, ChargedStaysWithin DEF at, se
    <3>3. WithinBudget(wire_spent')
      BY <2>2, <3>1, <3>2, BudgetOfUsage
    <3> QED
      BY <1>6, <1>7, <2>2, <3>1, <3>3 DEF WireUsageKept, WithinBudget, Counts
  <2>4. ASSUME "usage" \in forgets PROVE WireUsageKept'
    <3>1. ~counts_calls(world.budget)
      BY <1>1, <1>5, <1>9, <2>4
    <3>2. WithinBudget(wire_spent')
      BY <3>1 DEF counts_calls, WithinBudget
    <3> QED
      BY <1>6, <1>7, <2>2, <2>4, <3>2 DEF WireUsageKept, WithinBudget
  <2>5. Guarded(action) => authorized
    BY <1>5, <1>9, GuardedIsAsked
  <2>6. \A r \in running' : r.action = action /\ r.consent = authorized
    BY <1>7, <1>9, StartedAs
  <2>7. RunningUnderGrant'
    BY <1>6, <2>5, <2>6 DEF RunningUnderGrant, Guarded
  <2> QED
    BY <2>3, <2>4, <2>7 DEF WireSafe
<1> QED
  BY <1>8, <1>9

LEMMA WireStays ==
  ASSUME WorldKnown, ManifestsTighten, WireSafe, WireNext, UNCHANGED world_vars
  PROVE  WireSafe'
<1>1. world' = world /\ manifest' = manifest
  BY DEF world_vars
<1>2. CASE Call
  BY <1>2, WireGoverns DEF Call
<1>3. CASE CallAuthorized
  BY <1>3, WireGoverns DEF CallAuthorized
<1>4. CASE PersonApproves
  <2>1. PICK a \in asked : running' = Started(a.call, a.answer, TRUE)
    BY <1>4 DEF PersonApproves
  <2>2. ASSUME NEW r \in running' PROVE r.consent
    BY <2>1 DEF Started
  <2>3. RunningUnderGrant'
    BY <2>2 DEF RunningUnderGrant
  <2> QED
    BY <1>1, <1>4, <2>3 DEF PersonApproves, WireSafe, WireUsageKept, Counts, WithinBudget
<1>5. CASE CallReturns
  BY <1>1, <1>5 DEF CallReturns, WireSafe, WireUsageKept, RunningUnderGrant, Counts, WithinBudget
<1>6. CASE CallFails
  BY <1>1, <1>6 DEF CallFails, WireSafe, WireUsageKept, RunningUnderGrant, Counts, WithinBudget
<1> QED
  BY <1>2, <1>3, <1>4, <1>5, <1>6 DEF WireNext

-----------------------------------------------------------------------------
(* The agent loop.                                                         *)

\* The call that is run was decided under what was spent before it.
AgentUsageKept ==
  /\ agent_usage \in Usages /\ agent_spent \in Spends
  /\ Counts(agent_usage, agent_spent) /\ WithinBudget(agent_spent)
  /\ \A d \in doing : WithinBudget(Spent(agent_spent, d.r.action))

\* A question has the authorization that was minted for it, and nothing runs while
\* it is open.
QuestionsMinted ==
  /\ question # {} => doing = {}
  /\ \A t \in token : DOMAIN t = {"state", "action", "arguments"}
  /\ \A call \in question :
       \E t \in token : t.action = Classified(call) /\ t.arguments = call.arguments
DoingUnderGrant ==
  \A d \in doing :
    /\ Guarded(d.r.action) => d.r.consent
    /\ d.r.consent => \E t \in token : /\ t.state = "consumed" /\ t.action = d.r.action
                                       /\ members(t.arguments) = d.r.asked
AgentSafe == AgentUsageKept /\ QuestionsMinted /\ DoingUnderGrant

LEMMA AgentStarts == WorldKnown /\ AgentInit => AgentSafe
BY NothingSpent DEF AgentInit, AgentSafe, AgentUsageKept, QuestionsMinted, DoingUnderGrant

\* An allowed call of the loop: approved if it must be, and with room in the budget.
LEMMA LoopAllows ==
  ASSUME WorldKnown, ManifestsTighten, AgentUsageKept, NEW call, NEW approved \in BOOLEAN,
         Decided(call, approved).decision = "Allow"
  PROVE  /\ Guarded(Classified(call)) => approved
         /\ WithinBudget(Spent(agent_spent, Classified(call)))
<1> DEFINE ctx == EvalContext(call, approved)
           action == Classified(call)
           at == world.action_types[action]
           se == world.side_effects[action]
<1>1. ctx.usage = agent_usage /\ ctx.approval_granted = approved
  BY DEF EvalContext
<1>2. decide(world, action, call.arguments, "Trusted", ctx).decision = "Allow"
  BY DEF Decided
<1> HIDE DEF ctx, action
<1>3. /\ action \in world.approval_required => ctx.approval_granted
      /\ budget_exceeded(world.budget, ctx.usage, at, se) = None
  BY <1>2, WorldTightens, AllowMeansAll
<1>4. Guarded(action) => approved
  BY <1>1, <1>3, GuardedIsAsked
<1>5. agent_usage \in Usages /\ Within(world.budget, agent_usage)
  BY BudgetOfUsage DEF AgentUsageKept
<1>6. Within(world.budget, charge(agent_usage, at, se))
  BY <1>1, <1>3, <1>5, ChargedStaysWithin
<1>7. /\ Spent(agent_spent, action) \in Spends /\ charge(agent_usage, at, se) \in Usages
      /\ Counts(charge(agent_usage, at, se), Spent(agent_spent, action))
  BY SpentIsCharged DEF AgentUsageKept
<1>8. WithinBudget(Spent(agent_spent, action))
  BY <1>6, <1>7, BudgetOfUsage
<1> QED
  BY <1>4, <1>8 DEF action

LEMMA LoweredAs ==
  ASSUME NEW call, NEW consent, NEW d \in Lowered(call, consent)
  PROVE  /\ d.r.action = Classified(call) /\ d.r.consent = consent
         /\ d.r.asked = members(call.arguments)
BY DEF Lowered, Running

LEMMA AgentStays ==
  ASSUME WorldKnown, ManifestsTighten, AgentSafe, AgentNext, UNCHANGED world_vars
  PROVE  AgentSafe'
<1>1. world' = world /\ manifest' = manifest
  BY DEF world_vars
<1> DEFINE calm == /\ agent_usage' = agent_usage /\ agent_spent' = agent_spent
<1>2. ASSUME calm, doing' \subseteq doing PROVE AgentUsageKept'
  BY <1>1, <1>2 DEF AgentSafe, AgentUsageKept, Counts, WithinBudget, Spent
<1>3. CASE UNCHANGED loop_vars
  <2>1. /\ question' = question /\ token' = token /\ doing' = doing /\ calm
    BY <1>3 DEF loop_vars
  <2>2. QuestionsMinted' /\ DoingUnderGrant'
    BY <1>1, <2>1 DEF AgentSafe, QuestionsMinted, DoingUnderGrant, Guarded, Classified
  <2> QED
    BY <1>2, <2>1, <2>2 DEF AgentSafe
<1>4. CASE TurnMalformed
  <2>1. /\ question' = question /\ token' = token /\ doing' = doing /\ calm
    BY <1>4 DEF TurnMalformed, session
  <2>2. QuestionsMinted' /\ DoingUnderGrant'
    BY <1>1, <2>1 DEF AgentSafe, QuestionsMinted, DoingUnderGrant, Guarded, Classified
  <2> QED
    BY <1>2, <2>1, <2>2 DEF AgentSafe
<1>5. ASSUME NEW call, CallProposed(call, Decided(call, FALSE).decision) PROVE AgentSafe'
  <2> DEFINE decision == Decided(call, FALSE).decision
  <2>1. CASE CallRefused(call, decision)
    <3>1. /\ question' = question /\ token' = token /\ doing' = doing /\ calm
      BY <2>1 DEF CallRefused, session
    <3>2. QuestionsMinted' /\ DoingUnderGrant'
      BY <1>1, <3>1 DEF AgentSafe, QuestionsMinted, DoingUnderGrant, Guarded, Classified
    <3> QED
      BY <1>2, <3>1, <3>2 DEF AgentSafe
  <2>2. CASE CallAllowed(call, decision)
    <3>1. /\ question' = question /\ question = {} /\ token' = token /\ calm
          /\ decision = "Allow" /\ \E d \in Lowered(call, FALSE) : doing' = {d}
      BY <2>2 DEF CallAllowed, session, idle
    <3>2. PICK d \in Lowered(call, FALSE) : doing' = {d}
      BY <3>1
    <3>3. d.r.action = Classified(call) /\ ~d.r.consent
      BY LoweredAs
    <3>4. ~Guarded(Classified(call)) /\ WithinBudget(Spent(agent_spent, Classified(call)))
      BY <3>1, LoopAllows DEF AgentSafe
    <3>5. AgentUsageKept'
      BY <1>1, <3>1, <3>2, <3>3, <3>4 DEF AgentSafe, AgentUsageKept, Counts, WithinBudget, Spent
    <3>6. QuestionsMinted' /\ DoingUnderGrant'
      BY <1>1, <3>1, <3>2, <3>3, <3>4 DEF AgentSafe, QuestionsMinted, DoingUnderGrant, Guarded
    <3> QED
      BY <3>5, <3>6 DEF AgentSafe
  <2>3. CASE CallAsks(call, decision)
    <3>1. /\ question = {} /\ doing = {} /\ doing' = {} /\ calm
          /\ \/ /\ token' = {[state |-> "pending", action |-> Classified(call),
                             arguments |-> call.arguments]}
                /\ question' = {} \/ question' = {call}
             \/ token' = token /\ question' = question
      BY <2>3 DEF CallAsks, session, idle
    <3>2. \A t \in token' : DOMAIN t = {"state", "action", "arguments"}
      BY <3>1 DEF AgentSafe, QuestionsMinted
    <3>3. \A c \in question' :
            \E t \in token' : t.action = Classified(c) /\ t.arguments = c.arguments
      <4> DEFINE minted == [state |-> "pending", action |-> Classified(call),
                            arguments |-> call.arguments]
      <4>1. minted.action = Classified(call) /\ minted.arguments = call.arguments
        OBVIOUS
      <4>2. question' = {} \/ (question' = {call} /\ token' = {minted})
        BY <3>1
      <4> HIDE DEF minted
      <4> QED
        BY <4>1, <4>2
    <3>4. QuestionsMinted' /\ DoingUnderGrant'
      BY <1>1, <3>1, <3>2, <3>3 DEF QuestionsMinted, DoingUnderGrant, Classified
    <3> QED
      BY <1>2, <3>1, <3>4 DEF AgentSafe
  <2> QED
    BY <1>5, <2>1, <2>2, <2>3 DEF CallProposed
<1>6. ASSUME NEW state, Becomes(state), \A t \in token : DOMAIN t = {"state", "action", "arguments"}
      PROVE  /\ \A t \in token' : DOMAIN t = {"state", "action", "arguments"}
             /\ \A t \in token : \E u \in token' :
                  u.state = state /\ u.action = t.action /\ u.arguments = t.arguments
  <2> DEFINE turned(t) == [t EXCEPT !.state = state]
  <2>1. token' = {turned(t) : t \in token}
    BY <1>6 DEF Becomes
  <2>2. ASSUME NEW t \in token
        PROVE  /\ DOMAIN turned(t) = {"state", "action", "arguments"} /\ turned(t).state = state
               /\ turned(t).action = t.action /\ turned(t).arguments = t.arguments
    <3>1. DOMAIN t = {"state", "action", "arguments"}
      BY <1>6
    <3> QED
      BY <3>1
  <2> HIDE DEF turned
  <2> QED
    BY <2>1, <2>2
<1>7. CASE Declined \/ ClaimFails
  <2>1. /\ question # {} /\ question' = {} /\ doing' = doing /\ calm
        /\ token' = token \/ \E state : Becomes(state)
    BY <1>7 DEF Declined, ClaimFails, session
  <2>2. doing = {}
    BY <2>1 DEF AgentSafe, QuestionsMinted
  <2>3. QuestionsMinted' /\ DoingUnderGrant'
    BY <1>6, <2>1, <2>2 DEF AgentSafe, QuestionsMinted, DoingUnderGrant
  <2> QED
    BY <1>2, <2>1, <2>3 DEF AgentSafe
<1>8. CASE Claimed
  <2>1. PICK call \in question :
          /\ Becomes("consumed") /\ question' = {} /\ calm
          /\ doing' = IF Decided(call, TRUE).decision = "Allow" THEN Lowered(call, TRUE) ELSE {}
    BY <1>8 DEF Claimed, session
  <2>2. PICK u \in token' : /\ u.state = "consumed" /\ u.action = Classified(call)
                            /\ u.arguments = call.arguments
    <3>1. PICK t \in token : t.action = Classified(call) /\ t.arguments = call.arguments
      BY DEF AgentSafe, QuestionsMinted
    <3> QED
      BY <1>6, <2>1, <3>1 DEF AgentSafe, QuestionsMinted
  <2>3. ASSUME NEW d \in doing'
        PROVE  /\ d.r.action = Classified(call) /\ d.r.consent /\ d.r.asked = members(call.arguments)
               /\ WithinBudget(Spent(agent_spent, d.r.action))
    <3>1. d \in Lowered(call, TRUE) /\ Decided(call, TRUE).decision = "Allow"
      BY <2>1
    <3>2. WithinBudget(Spent(agent_spent, Classified(call)))
      BY <3>1, LoopAllows DEF AgentSafe
    <3>3. d.r.action = Classified(call) /\ d.r.consent = TRUE /\ d.r.asked = members(call.arguments)
      BY <3>1 DEF Lowered, Running
    <3> QED
      BY <3>2, <3>3
  <2>4. DoingUnderGrant'
    BY <2>2, <2>3 DEF DoingUnderGrant
  <2>5. QuestionsMinted'
    BY <1>6, <2>1 DEF AgentSafe, QuestionsMinted
  <2>6. AgentUsageKept'
    <3>1. agent_usage' = agent_usage /\ agent_spent' = agent_spent /\ world' = world
      BY <1>1, <2>1
    <3>2. \A d \in doing' : WithinBudget(Spent(agent_spent, d.r.action))'
      <4> SUFFICES ASSUME NEW d \in doing'
                   PROVE  WithinBudget(Spent(agent_spent, d.r.action))'
        OBVIOUS
      <4>1. WithinBudget(Spent(agent_spent, d.r.action))
        BY <2>3
      <4> QED
        BY <3>1, <4>1 DEF WithinBudget, Spent
    <3>3. Counts(agent_usage, agent_spent)' /\ WithinBudget(agent_spent)'
      BY <3>1 DEF AgentSafe, AgentUsageKept, Counts, WithinBudget
    <3> QED
      BY <3>1, <3>2, <3>3 DEF AgentSafe, AgentUsageKept
  <2> QED
    BY <2>4, <2>5, <2>6 DEF AgentSafe
<1>9. CASE Returned
  <2>1. PICK d \in doing :
          /\ agent_usage' = charge(agent_usage, world.action_types[d.r.action],
                                   world.side_effects[d.r.action])
          /\ agent_spent' = Spent(agent_spent, d.r.action)
          /\ doing' = {} /\ question' = question
          /\ token' = token \/ Becomes("executed")
    BY <1>9 DEF Returned
  <2>2. question = {}
    BY DEF AgentSafe, QuestionsMinted
  <2>3. QuestionsMinted' /\ DoingUnderGrant'
    BY <1>6, <2>1, <2>2 DEF AgentSafe, QuestionsMinted, DoingUnderGrant
  <2>4. agent_usage' \in Usages /\ agent_spent' \in Spends /\ Counts(agent_usage', agent_spent')
    BY <2>1, SpentIsCharged DEF AgentSafe, AgentUsageKept
  <2>5. WithinBudget(agent_spent')
    BY <2>1 DEF AgentSafe, AgentUsageKept
  <2>6. AgentUsageKept'
    BY <1>1, <2>1, <2>4, <2>5 DEF AgentUsageKept, Counts, WithinBudget
  <2> QED
    BY <2>3, <2>6 DEF AgentSafe
<1>10. CASE Errored
  <2>1. doing # {} /\ doing' = {} /\ question' = question /\ token' = token /\ calm
    BY <1>10 DEF Errored
  <2>2. QuestionsMinted' /\ DoingUnderGrant'
    BY <2>1 DEF AgentSafe, QuestionsMinted, DoingUnderGrant
  <2> QED
    BY <1>2, <2>1, <2>2 DEF AgentSafe
<1> QED
  BY <1>3, <1>4, <1>5, <1>7, <1>8, <1>9, <1>10 DEF AgentNext

-----------------------------------------------------------------------------
(* The hooks of an agent.                                                  *)

\* As long as every sidecar was written whole, it holds at least what the calls
\* that were let through count: a refused call may have been charged too.
AtMost(s, u) ==
  s.commands <= u.commands_run /\ s.network <= u.network_calls /\ s.writes <= u.file_writes
HookUsageKept ==
  ~damaged => /\ hook_spent \in Spends
              /\ \E u \in Usages : /\ usage_file = {u} /\ Within(world.budget, u)
                                   /\ AtMost(hook_spent, u)
ToldUnderGrant ==
  \A a \in told : /\ a.decision = "Allow" => ~Guarded(a.action)
                  /\ a.decision = "Ask" => a.answer \in {"ask", "deny"} \/ soft_ask
UsingUnderGrant ==
  \A r \in using : /\ r.decision = "Allow" => ~Guarded(r.action)
                   /\ r.decision = "Ask" => r.consent \/ soft_ask
HookSafe == HookUsageKept /\ ToldUnderGrant /\ UsingUnderGrant

LEMMA HookStarts == WorldKnown /\ HookInit => HookSafe
<1> SUFFICES ASSUME WorldKnown, HookInit
             PROVE  HookSafe
  OBVIOUS
<1>1. HookUsageKept
  <2>1. AtMost(NewUsage, NoUsage)
    BY DEF AtMost, NewUsage, NoUsage
  <2> QED
    BY <2>1, NothingSpent DEF HookInit, HookUsageKept
<1> QED
  BY <1>1 DEF HookInit, HookSafe, ToldUnderGrant, UsingUnderGrant

\* A hook's verdict, whatever of it can be recorded.
LEMMA HookDecidesSafely ==
  ASSUME WorldKnown, ManifestsTighten, HookSafe, UNCHANGED world_vars, NEW call,
         HookDecides(call, gate(world, hook_request(call), FALSE))
  PROVE  HookSafe'
<1> DEFINE req == hook_request(call)
           res == gate(world, req, FALSE)
           at == world.action_types[res.action]
           se == world.side_effects[res.action]
<1>1. req.usage = usage_file
  BY DEF hook_request
<1> HIDE DEF req
<1>2. world' = world /\ manifest' = manifest
  BY DEF world_vars
<1>3. res.usage = IF res.decision = "Allow" THEN charge(carried(req), at, se) ELSE carried(req)
  BY GateCharges
<1>4. ASSUME res.decision = "Allow"
      PROVE  /\ ~Guarded(res.action)
             /\ budget_exceeded(world.budget, carried(req), at, se) = None
  <2>1. /\ res.action \notin world.approval_required
        /\ budget_exceeded(world.budget, carried(req), at, se) = None
    BY <1>4, WorldTightens, GateGrants
  <2> QED
    BY <2>1, GuardedIsAsked
<1>5. RefusedUncounted(call, res) \/ RefusedUntracked(call, res) \/ Judged(call, res)
  BY DEF HookDecides, req
<1> HIDE DEF res, at, se
<1>6. ~damaged => /\ hook_spent \in Spends /\ res.usage \in Usages
                  /\ Within(world.budget, res.usage) /\ AtMost(hook_spent, res.usage)
                  /\ res.decision = "Allow" =>
                       /\ Spent(hook_spent, res.action) \in Spends
                       /\ AtMost(Spent(hook_spent, res.action), res.usage)
  <2> SUFFICES ASSUME ~damaged
               PROVE  /\ hook_spent \in Spends /\ res.usage \in Usages
                      /\ Within(world.budget, res.usage) /\ AtMost(hook_spent, res.usage)
                      /\ res.decision = "Allow" =>
                           /\ Spent(hook_spent, res.action) \in Spends
                           /\ AtMost(Spent(hook_spent, res.action), res.usage)
    OBVIOUS
  <2>1. PICK u \in Usages : usage_file = {u} /\ Within(world.budget, u) /\ AtMost(hook_spent, u)
    BY DEF HookSafe, HookUsageKept
  <2>2. hook_spent \in Spends
    BY DEF HookSafe, HookUsageKept
  <2>3. carried(req) = u
    BY <1>1, <2>1 DEF carried
  <2>4. CASE res.decision # "Allow"
    BY <1>3, <2>1, <2>2, <2>3, <2>4
  <2>5. CASE res.decision = "Allow"
    <3>1. res.usage = charge(u, at, se)
      BY <1>3, <2>3, <2>5
    <3>2. /\ Spent(hook_spent, res.action) \in Spends /\ res.usage \in Usages
          /\ AtMost(Spent(hook_spent, res.action), res.usage)
      BY <2>1, <2>2, <3>1, SpentIsCharged DEF AtMost, at, se
    <3>3. Within(world.budget, res.usage)
      BY <1>4, <2>1, <2>3, <2>5, <3>1, ChargedStaysWithin DEF at, se
    <3>4. /\ hook_spent.commands <= Spent(hook_spent, res.action).commands
          /\ hook_spent.network <= Spent(hook_spent, res.action).network
          /\ hook_spent.writes <= Spent(hook_spent, res.action).writes
      BY <2>2 DEF Spent, Spends, One
    <3>5. AtMost(hook_spent, res.usage)
      BY <2>2, <3>2, <3>4 DEF AtMost, Spends, Usages
    <3> QED
      BY <2>2, <3>2, <3>3, <3>5
  <2> QED
    BY <2>4, <2>5
<1>7. ASSUME NEW text, Answered(call, res, text),
             text = "deny" \/ (res.decision = "Ask" => text = "ask" \/ soft_ask)
      PROVE  ToldUnderGrant' /\ UsingUnderGrant'
  <2>1. /\ \A a \in told' : a.action = res.action /\ a.decision = res.decision /\ a.answer = text
        /\ using' = using /\ soft_ask' = soft_ask
    BY <1>7 DEF Answered, hook_flags
  <2>2. ToldUnderGrant'
    BY <1>2, <1>4, <1>7, <2>1 DEF ToldUnderGrant, Guarded
  <2> QED
    BY <1>2, <2>1, <2>2 DEF HookSafe, UsingUnderGrant, Guarded
<1>8. CASE RefusedUncounted(call, res)
  <2>1. /\ usage_file' \in {usage_file, {}, {res.usage}} /\ damaged' = (damaged \/ usage_file' = {})
        /\ hook_spent' = hook_spent /\ Answered(call, res, "deny")
    BY <1>8 DEF RefusedUncounted, persist_usage
  <2>2. HookUsageKept'
    BY <1>2, <1>6, <2>1 DEF HookSafe, HookUsageKept
  <2> QED
    BY <1>7, <2>1, <2>2 DEF HookSafe
<1>9. CASE RefusedUntracked(call, res)
  <2>1. /\ usage_file' = {res.usage} /\ damaged' = damaged
        /\ hook_spent' = hook_spent /\ Answered(call, res, "deny")
    BY <1>9 DEF RefusedUntracked
  <2>2. HookUsageKept'
    BY <1>2, <1>6, <2>1 DEF HookUsageKept
  <2> QED
    BY <1>7, <2>1, <2>2 DEF HookSafe
<1>10. CASE Judged(call, res)
  <2>1. /\ usage_file' = {res.usage} /\ damaged' = damaged
        /\ hook_spent' = IF res.decision = "Allow" THEN Spent(hook_spent, res.action) ELSE hook_spent
        /\ Answered(call, res, hook_answer(res.decision))
    BY <1>10 DEF Judged
  <2>2. HookUsageKept'
    BY <1>2, <1>6, <2>1 DEF HookUsageKept
  <2>3. res.decision = "Ask" => hook_answer(res.decision) = "ask" \/ soft_ask
    BY DEF hook_answer, host_outcome
  <2> QED
    BY <1>7, <2>1, <2>2, <2>3 DEF HookSafe
<1> QED
  BY <1>5, <1>8, <1>9, <1>10

LEMMA HookStays ==
  ASSUME WorldKnown, ManifestsTighten, HookSafe, HookNext, UNCHANGED world_vars
  PROVE  HookSafe'
<1>1. world' = world /\ manifest' = manifest
  BY DEF world_vars
<1>2. ASSUME UNCHANGED <<hook_flags, usage_file, damaged, hook_spent>>
      PROVE  HookUsageKept' /\ soft_ask' = soft_ask
  BY <1>1, <1>2 DEF HookSafe, HookUsageKept, hook_flags
<1>3. ASSUME NEW call, HookDecides(call, gate(world, hook_request(call), FALSE))
      PROVE  HookSafe'
  BY <1>3, HookDecidesSafely
<1>4. CASE HostRuns
  <2>1. PICK a \in told :
          /\ a.answer # "deny" /\ told' = {}
          /\ \E yes \in Consents(a) :
               using' = {[action |-> a.action, asked |-> a.args, args |-> a.args, consent |-> yes,
                          path |-> a.call.path, decision |-> a.decision]}
    BY <1>4 DEF HostRuns
  <2>2. PICK yes \in Consents(a) :
          using' = {[action |-> a.action, asked |-> a.args, args |-> a.args, consent |-> yes,
                     path |-> a.call.path, decision |-> a.decision]}
    BY <2>1
  <2>3. a.answer = "ask" => yes = TRUE
    BY <2>2 DEF Consents
  <2>4. soft_ask' = soft_ask
    BY <1>2, <1>4 DEF HostRuns
  <2>5. UsingUnderGrant'
    <3>1. \A r \in using' : r.action = a.action /\ r.decision = a.decision /\ r.consent = yes
      BY <2>2
    <3>2. /\ a.decision = "Allow" => ~Guarded(a.action)
          /\ a.decision = "Ask" => a.answer = "ask" \/ soft_ask
      BY <2>1 DEF HookSafe, ToldUnderGrant
    <3> QED
      BY <1>1, <2>3, <2>4, <3>1, <3>2 DEF UsingUnderGrant, Guarded
  <2> QED
    BY <1>2, <1>4, <2>1, <2>5 DEF HostRuns, HookSafe, ToldUnderGrant
<1>5. CASE HostSkips
  BY <1>1, <1>2, <1>5 DEF HostSkips, HookSafe, ToldUnderGrant, UsingUnderGrant, Guarded
<1>6. CASE ToolReturns
  BY <1>1, <1>2, <1>6 DEF ToolReturns, HookSafe, ToldUnderGrant, UsingUnderGrant, Guarded
<1> QED
  BY <1>3, <1>4, <1>5, <1>6 DEF HookNext

-----------------------------------------------------------------------------
(* The whole session.                                                      *)

HostsSafe == WorldKnown /\ GatewaySafe /\ WireSafe /\ AgentSafe /\ HookSafe

\* A step leaves the session's world alone, and the state of every host but one.
LEMMA OneHostSteps ==
  ASSUME [Next]_vars
  PROVE  /\ UNCHANGED world_vars
         /\ GatewayNext \/ UNCHANGED gateway_vars
         /\ WireNext \/ UNCHANGED wire_vars
         /\ AgentNext \/ UNCHANGED agent_vars
         /\ HookNext \/ UNCHANGED hook_vars
         /\ LogNext \/ UNCHANGED log_vars
BY DEF Next, vars

LEMMA WorldStays == WorldKnown /\ [Next]_vars => WorldKnown'
BY OneHostSteps DEF WorldKnown, world_vars

LEMMA HostsStart == Init => HostsSafe
<1> SUFFICES ASSUME Init
             PROVE  HostsSafe
  OBVIOUS
<1>1. WorldKnown
  BY DEF Init, StartHost, Validated, WorldKnown
<1> QED
  BY <1>1, GatewayStarts, WireStarts, AgentStarts, HookStarts DEF Init, HostsSafe

LEMMA HostsStay == ManifestsTighten /\ HostsSafe /\ [Next]_vars => HostsSafe'
<1> SUFFICES ASSUME ManifestsTighten, HostsSafe, [Next]_vars
             PROVE  HostsSafe'
  OBVIOUS
<1>1. WorldKnown'
  BY WorldStays DEF HostsSafe
<1>2. world' = world /\ manifest' = manifest /\ UNCHANGED world_vars
  BY OneHostSteps DEF world_vars
<1>3. GatewaySafe'
  <2>1. CASE GatewayNext
    BY <1>2, <2>1, GatewayStays DEF HostsSafe
  <2>2. CASE UNCHANGED gateway_vars
    BY <1>2, <2>2 DEF gateway_vars, HostsSafe, GatewaySafe, GatewayUsageKept, SentUnderGrant, Counts,
                      WithinBudget, Guarded
  <2> QED
    BY <2>1, <2>2, OneHostSteps
<1>4. WireSafe'
  <2>1. CASE WireNext
    BY <1>2, <2>1, WireStays DEF HostsSafe
  <2>2. CASE UNCHANGED wire_vars
    BY <1>2, <2>2 DEF wire_vars, HostsSafe, WireSafe, WireUsageKept, RunningUnderGrant, Counts,
                      WithinBudget, Guarded
  <2> QED
    BY <2>1, <2>2, OneHostSteps
<1>5. AgentSafe'
  <2>1. CASE AgentNext
    BY <1>2, <2>1, AgentStays DEF HostsSafe
  <2>2. CASE UNCHANGED agent_vars
    <3>1. /\ question' = question /\ token' = token /\ doing' = doing
          /\ agent_usage' = agent_usage /\ agent_spent' = agent_spent
      BY <2>2 DEF agent_vars, loop_vars
    <3>2. AgentUsageKept'
      BY <1>2, <3>1 DEF HostsSafe, AgentSafe, AgentUsageKept, Counts, WithinBudget, Spent
    <3>3. QuestionsMinted' /\ DoingUnderGrant'
      BY <1>2, <3>1 DEF HostsSafe, AgentSafe, QuestionsMinted, DoingUnderGrant, Guarded, Classified
    <3> QED
      BY <3>2, <3>3 DEF AgentSafe
  <2> QED
    BY <2>1, <2>2, OneHostSteps
<1>6. HookSafe'
  <2>1. CASE HookNext
    BY <1>2, <2>1, HookStays DEF HostsSafe
  <2>2. CASE UNCHANGED hook_vars
    <3>1. /\ told' = told /\ using' = using /\ soft_ask' = soft_ask
          /\ damaged' = damaged /\ usage_file' = usage_file /\ hook_spent' = hook_spent
      BY <2>2 DEF hook_vars
    <3> QED
      BY <1>2, <3>1 DEF HostsSafe, HookSafe, HookUsageKept, ToldUnderGrant, UsingUnderGrant, Guarded
  <2> QED
    BY <2>1, <2>2, OneHostSteps
<1> QED
  BY <1>1, <1>3, <1>4, <1>5, <1>6 DEF HostsSafe

\* In every session under manifests whose policies only tighten, a call that the
\* manifest guards, by its name or through what narrows it, is run by whatever host
\* only when somebody approved it; by the agent loop, under an authorization of
\* exactly this call, claimed and not executed (compile.rs: approval_required;
\* orchestrator.rs: resolve_approval; cc_hook.rs).
THEOREM GuardedRunUnderGrant ==
  ASSUME ManifestsTighten
  PROVE  Spec => []RunUnderGrant
<1>1. HostsSafe => RunUnderGrant
  <2> SUFFICES ASSUME HostsSafe
               PROVE  RunUnderGrant
    OBVIOUS
  <2>1. \A r \in Ongoing \cup running : Guarded(r.action) => r.consent
    BY DEF HostsSafe, Ongoing, Allowed, ByAgent, ByHook, GatewaySafe, SentUnderGrant, WireSafe,
           RunningUnderGrant, AgentSafe, DoingUnderGrant, HookSafe, UsingUnderGrant
  <2>2. \A r \in ByAgent : r.consent =>
          \E t \in token : /\ t.state = "consumed" /\ t.action = r.action
                           /\ members(t.arguments) = r.asked
    BY DEF HostsSafe, ByAgent, AgentSafe, DoingUnderGrant
  <2>3. \A r \in using : r.decision \in {"Allow", "Ask"} /\ Guarded(r.action) => r.consent \/ soft_ask
    BY DEF HostsSafe, HookSafe, UsingUnderGrant
  <2> QED
    BY <2>1, <2>2, <2>3 DEF RunUnderGrant
<1> QED
  BY <1>1, HostsStart, HostsStay, PTL DEF Spec

\* In every such session the usage that the gateway and the agent loop carry is what
\* they ran, no more and no less, and no host spends beyond the budget of its world,
\* but for hooks whose sidecar was damaged (disposition.rs: charge, budget_exceeded;
\* mcp_gateway.rs: the usage put back; cc_hook.rs: the sidecar).
THEOREM BudgetStaysKept ==
  ASSUME ManifestsTighten
  PROVE  Spec => []BudgetKept
<1>1. HostsSafe => BudgetKept
  <2> SUFFICES ASSUME HostsSafe
               PROVE  BudgetKept
    OBVIOUS
  <2>1. ASSUME ~damaged PROVE WithinBudget(hook_spent)
    <3>1. PICK u \in Usages : Within(world.budget, u) /\ AtMost(hook_spent, u)
      BY <2>1 DEF HostsSafe, HookSafe, HookUsageKept
    <3>2. hook_spent \in Spends
      BY <2>1 DEF HostsSafe, HookSafe, HookUsageKept
    <3> QED
      BY <3>1, <3>2, LimitsAreNat DEF HostsSafe, Within, WithinBudget, AtMost, Usages, Spends
  <2> QED
    BY <2>1 DEF HostsSafe, BudgetKept, GatewaySafe, GatewayUsageKept, WireSafe, WireUsageKept,
                AgentSafe, AgentUsageKept
<1> QED
  BY <1>1, HostsStart, HostsStay, PTL DEF Spec

-----------------------------------------------------------------------------
(* What is kept of a session decides it again.                             *)

\* The replay of the transcript is where the session's files are.
TranscriptFollows == \A s \in replayed : s.tainted = tainted /\ {s.usage} = usage_file

LEMMA TranscriptStarts == HookInit => TranscriptFollows
<1> SUFFICES ASSUME HookInit
             PROVE  TranscriptFollows
  OBVIOUS
<1>1. /\ replayed \subseteq {[tainted |-> FALSE, usage |-> NoUsage]}
      /\ tainted = FALSE /\ usage_file = {NoUsage}
  BY DEF HookInit
<1>2. \A s \in replayed : s.tainted = FALSE /\ s.usage = NoUsage
  BY <1>1
<1> QED
  BY <1>1, <1>2 DEF TranscriptFollows

\* The replay builds the request that the hook built, as long as it follows.
LEMMA TranscriptStays == TranscriptFollows /\ [Next]_vars => TranscriptFollows'
<1> SUFFICES ASSUME TranscriptFollows, [Next]_vars
             PROVE  TranscriptFollows'
  OBVIOUS
<1>1. ASSUME UNCHANGED <<tainted, usage_file, replayed>> PROVE TranscriptFollows'
  BY <1>1 DEF TranscriptFollows
<1>2. ASSUME NEW call, HookDecides(call, gate(world, hook_request(call), FALSE))
      PROVE  TranscriptFollows'
  <2> DEFINE req == hook_request(call)
             res == gate(world, req, FALSE)
  <2>1. /\ req.usage = usage_file /\ req.taint = {IF tainted THEN "tainted" ELSE "clean"}
        /\ req = [x \in DOMAIN req |-> req[x]] /\ {"taint", "usage"} \subseteq DOMAIN req
    BY DEF hook_request
  <2>2. RefusedUncounted(call, res) \/ RefusedUntracked(call, res) \/ Judged(call, res)
    BY <1>2 DEF HookDecides
  <2> HIDE DEF req, res
  <2>3. CASE RefusedUncounted(call, res) \/ RefusedUntracked(call, res)
    BY <2>3 DEF RefusedUncounted, RefusedUntracked, TranscriptFollows
  <2>4. CASE Judged(call, res)
    <3>1. /\ usage_file' = {res.usage} /\ tainted' = (tainted \/ res.taint = "Tainted")
          /\ replayed' = {transcript_call(s, call) : s \in replayed}
      BY <2>4 DEF Judged
    <3>2. ASSUME NEW s \in replayed
          PROVE  transcript_call(s, call) = [tainted |-> tainted', usage |-> res.usage]
      <4>1. s.tainted = tainted /\ {s.usage} = usage_file
        BY DEF TranscriptFollows
      <4>2. [req EXCEPT !.taint = {IF s.tainted THEN "tainted" ELSE "clean"}, !.usage = {s.usage}] = req
        BY <2>1, <4>1
      <4> QED
        BY <3>1, <4>1, <4>2 DEF transcript_call, req, res
    <3> QED
      BY <3>1, <3>2 DEF TranscriptFollows
  <2> QED
    BY <2>2, <2>3, <2>4
<1>3. CASE HookNext
  <2>1. CASE HostRuns \/ HostSkips \/ ToolReturns
    BY <1>1, <2>1 DEF HostRuns, HostSkips, ToolReturns
  <2> QED
    BY <1>2, <1>3, <2>1 DEF HookNext
<1>4. CASE UNCHANGED hook_vars
  BY <1>1, <1>4 DEF hook_vars
<1> QED
  BY <1>3, <1>4, OneHostSteps

\* Two worlds that differ in nothing the kernel reads, which is not their roots.
KernelSees == {"ontology", "projected", "descriptors", "action_types", "side_effects",
               "approval_required", "scoped_capabilities", "capability_matrix", "taint_rules",
               "budget", "effect_rules"}
AlikeToKernel(v, w) == \A k \in KernelSees : v[k] = w[k]

\* Two contexts that the kernel tells apart by the marks of single arguments only,
\* and those do not matter to this action.
AlikeContexts(w, action, ctx, other) ==
  /\ ctx.mode = other.mode /\ ctx.usage = other.usage
  /\ ctx.approval_granted = other.approval_granted
  /\ ctx.taint.flow = {} /\ other.taint.flow = {}
  /\ effective_floor_taint(w, action, ctx.taint) = effective_floor_taint(w, action, other.taint)

LEMMA EvaluatesAlike ==
  ASSUME NEW v, NEW w, AlikeToKernel(v, w), NEW action, NEW ctx, NEW other,
         AlikeContexts(w, action, ctx, other),
         effective_floor_taint(v, action, other.taint) = effective_floor_taint(w, action, other.taint)
  PROVE  evaluate(v, action, other) = evaluate(w, action, ctx)
<1> DEFINE of(rules, pins, floor, at, se, asks, over, how) ==
             LET matching == {i \in DOMAIN rules : /\ rules[i].from_taint = floor
                                                  /\ rules[i].side_effect = se}
                 rule == rules[CHOOSE i \in matching : \A j \in matching : i <= j]
                 pinned == {i \in DOMAIN pins : pins[i].action = action}
                 first == CHOOSE i \in pinned : \A j \in pinned : i <= j
             IN  IF matching # {} THEN answer(rule.decision, {}, rule.rule)
                 ELSE IF asks
                 THEN IF how = "Background" THEN answer("Deny", {}, "background_denies_ask")
                      ELSE answer("Ask", {}, "approval_required")
                 ELSE IF over # None THEN answer("Replan", {}, over)
                 ELSE answer("Allow", IF pinned = {} THEN {"Execute"}
                                      ELSE {pins[first].effect_mode}, "default_allow")
<1>1. \A x, c : evaluate(x, action, c) =
        of(x.taint_rules, x.effect_rules, effective_floor_taint(x, action, c.taint),
           x.action_types[action], x.side_effects[action],
           action \in x.approval_required /\ ~c.approval_granted,
           budget_exceeded(x.budget, c.usage, x.action_types[action], x.side_effects[action]),
           c.mode)
  BY DEF evaluate
<1>2. /\ v.taint_rules = w.taint_rules /\ v.effect_rules = w.effect_rules
      /\ v.action_types = w.action_types /\ v.side_effects = w.side_effects
      /\ v.approval_required = w.approval_required /\ v.budget = w.budget
  BY DEF AlikeToKernel, KernelSees
<1> HIDE DEF of
<1>3. (action \in v.approval_required /\ ~other.approval_granted)
        = (action \in w.approval_required /\ ~ctx.approval_granted)
  BY <1>2 DEF AlikeContexts
<1> QED
  BY <1>1, <1>2, <1>3 DEF AlikeContexts

LEMMA CapabilitiesAlike ==
  ASSUME NEW v, NEW w, AlikeToKernel(v, w), NEW action
  PROVE  /\ v.descriptors = w.descriptors
         /\ scoped(v, action) = scoped(w, action) /\ cap_args(v, action) = cap_args(w, action)
         /\ \A a : /\ binding(v, action, a) = binding(w, action, a)
                  /\ is_literal(v, action, a) = is_literal(w, action, a)
<1>1. v.scoped_capabilities = w.scoped_capabilities /\ v.descriptors = w.descriptors
  BY DEF AlikeToKernel, KernelSees
<1>2. scoped(v, action) = scoped(w, action) /\ cap_args(v, action) = cap_args(w, action)
  BY <1>1 DEF scoped, cap_args
<1> QED
  BY <1>1, <1>2 DEF binding, is_literal

LEMMA FloorAlike ==
  ASSUME NEW v, NEW w, AlikeToKernel(v, w), NEW action, NEW ctx
  PROVE  effective_floor_taint(v, action, ctx) = effective_floor_taint(w, action, ctx)
<1> DEFINE roles == w.descriptors[action].arg_roles
           judged(x) == {a \in DOMAIN roles : roles[a] \in AUTHORITY /\ ~is_literal(x, action, a)}
           dirty(x) == \E a \in judged(x) :
                         bound(ctx.arg_taint, ctx.taint, binding(x, action, a)) = "Tainted"
<1>1. \A x : x.descriptors = w.descriptors =>
        effective_floor_taint(x, action, ctx) =
          IF DOMAIN roles = {} THEN ctx.taint ELSE IF dirty(x) THEN "Tainted" ELSE "Clean"
  BY DEF effective_floor_taint
<1>2. judged(v) = judged(w) /\ dirty(v) = dirty(w)
  BY CapabilitiesAlike
<1> HIDE DEF dirty, roles
<1> QED
  BY <1>1, <1>2, CapabilitiesAlike

LEMMA AdmitsAlike ==
  ASSUME NEW v, NEW w, AlikeToKernel(v, w), NEW action, NEW args
  PROVE  admissible(v, action, args) = admissible(w, action, args)
<1>1. /\ v.descriptors = w.descriptors /\ scoped(v, action) = scoped(w, action)
      /\ cap_args(v, action) = cap_args(w, action)
  BY CapabilitiesAlike
<1>2. check_input_rules(v, action, args) = check_input_rules(w, action, args)
  BY <1>1 DEF check_input_rules
<1>3. /\ given(v, action, args) = given(w, action, args)
      /\ literals(v, action) = literals(w, action)
      /\ context_args(v, action) = context_args(w, action)
  BY <1>1 DEF given, literals, context_args
<1>4. \A a : scoped_value(v, action, args, a) = scoped_value(w, action, args, a)
  BY <1>1 DEF scoped_value
<1>5. schema_args_for(v, action, args) = schema_args_for(w, action, args)
  BY <1>1, <1>3, <1>4 DEF schema_args_for
<1> QED
  BY <1>1, <1>2, <1>5 DEF admissible

\* The decision again: the world of the bundle, the redacted arguments and the kept
\* context give what they gave.
LEMMA DecidesAlike ==
  ASSUME NEW v, NEW w, AlikeToKernel(v, w), NEW action, NEW ctx, NEW other,
         AlikeContexts(w, action, ctx, other), NEW args, NEW kept, NEW trust,
         action \in w.ontology => admissible(w, action, args) = admissible(w, action, kept)
  PROVE  decide(v, action, kept, trust, other) = decide(w, action, args, trust, ctx)
<1>1. effective_floor_taint(v, action, other.taint) = effective_floor_taint(w, action, other.taint)
  BY FloorAlike
<1>2. evaluate(v, action, other) = evaluate(w, action, ctx)
  BY <1>1, EvaluatesAlike
<1>3. /\ v.ontology = w.ontology /\ v.projected = w.projected /\ v.side_effects = w.side_effects
      /\ v.action_types = w.action_types /\ v.capability_matrix = w.capability_matrix
      /\ v.descriptors = w.descriptors
  BY DEF AlikeToKernel, KernelSees
<1>4. can_perform(v, trust, v.action_types[action]) = can_perform(w, trust, w.action_types[action])
  BY <1>3 DEF can_perform
<1>5. admissible(v, action, kept) = admissible(w, action, kept)
  BY AdmitsAlike
<1>6. check_flow(v, action, other.taint) = check_flow(w, action, ctx.taint)
  BY <1>3 DEF check_flow, AlikeContexts
<1>7. taint_floor(v, action, other.taint) = taint_floor(w, action, ctx.taint)
  BY <1>1, <1>3 DEF taint_floor, AlikeContexts
<1>8. build_error(v, action, kept, trust, other.taint) = build_error(w, action, args, trust, ctx.taint)
  <2>1. CASE action \notin w.ontology
    BY <1>3, <2>1 DEF build_error
  <2>2. CASE action \in w.ontology
    <3>1. admissible(v, action, kept) = admissible(w, action, args)
      BY <1>5, <2>2
    <3> QED
      BY <1>3, <1>4, <1>6, <1>7, <2>2, <3>1 DEF build_error
  <2> QED
    BY <2>1, <2>2
<1> QED
  BY <1>2, <1>8 DEF decide

\* The manifest of a bundle compiles to the world of the session, roots aside.
LEMMA BundleIsTheWorld ==
  ASSUME WorldKnown
  PROVE  AlikeToKernel(Bundled[manifest], world)
<1> DEFINE m == Manifests[manifest]
<1>1. PICK n : /\ world = compile(n)
               /\ \A k \in {"channels", "capabilities", "base_actions", "scoped_capabilities",
                             "command_classes", "path_classes", "transition_policies",
                             "mcp_surface", "budget"} : n[k] = m[k]
  BY CompiledFrom
<1>2. Bundled[manifest] = compile(m)
  BY DEF WorldKnown, Bundled
<1>3. /\ n.capabilities = m.capabilities /\ n.base_actions = m.base_actions
      /\ n.scoped_capabilities = m.scoped_capabilities
      /\ n.transition_policies = m.transition_policies /\ n.budget = m.budget
  BY <1>1
<1> HIDE DEF m
<1>4. \A a : base_of(n, a) = base_of(m, a)
  BY <1>3 DEF base_of
<1>5. approval_required(n) = approval_required(m)
  BY <1>3, <1>4 DEF approval_required
<1> DEFINE v == compile(n)
           w == compile(m)
<1>6. v.ontology = w.ontology /\ v.approval_required = w.approval_required /\ v.projected = w.projected
  BY <1>3, <1>4, <1>5 DEF compile
<1>7. /\ v.descriptors = w.descriptors /\ v.action_types = w.action_types
      /\ v.side_effects = w.side_effects
  BY <1>3, <1>4 DEF compile
<1>8. /\ v.scoped_capabilities = w.scoped_capabilities /\ v.capability_matrix = w.capability_matrix
      /\ v.budget = w.budget /\ v.effect_rules = w.effect_rules
  BY <1>3 DEF compile
<1>9. v.taint_rules = w.taint_rules
  BY <1>3 DEF compile
<1> HIDE DEF v, w
<1> QED
  BY <1>1, <1>2, <1>6, <1>7, <1>8, <1>9 DEF AlikeToKernel, KernelSees, v, w

\* A record of the loop replays to its outcome, but for what no record keeps.
LEMMA RecordReplays ==
  ASSUME WorldKnown, NEW call, NEW approved,
         ~LostMarks(Recorded(call, approved), EvalContext(call, approved)),
         ~LostValue(Recorded(call, approved), call.arguments)
  PROVE  replay(<<Recorded(call, approved)>>, Bundled[manifest]) = {}
<1> DEFINE r == Recorded(call, approved)
           ctx == EvalContext(call, approved)
           action == Classified(call)
           kept == redact(call.arguments)
           other == [taint |-> from_taint(ctx.taint.taint), mode |-> ctx.mode, usage |-> ctx.usage,
                     approval_granted |-> ctx.approval_granted]
<1>1. /\ r.action = action /\ r.params = kept /\ r.provenance = "Trusted"
      /\ r.context = [taint |-> ctx.taint.taint, mode |-> ctx.mode, usage |-> ctx.usage,
                      approval_granted |-> ctx.approval_granted]
      /\ r.outcome = decide(world, action, call.arguments, "Trusted", ctx)
  BY DEF Recorded, record_decision, ContextSnapshot, Decided
<1>2. [r.context EXCEPT !.taint = from_taint(@)] = other
  BY <1>1
<1>3. recompute(Bundled[manifest], r) = decide(Bundled[manifest], action, kept, "Trusted", other)
  BY <1>1, <1>2 DEF recompute
<1>4. ctx.taint.flow = {} /\ other.taint.flow = {}
  BY DEF EvalContext, with_arg_taint, from_taint
<1>5. effective_floor_taint(world, action, ctx.taint) = effective_floor_taint(world, action, other.taint)
  BY <1>1 DEF LostMarks
<1>6. action \in world.ontology =>
        admissible(world, action, call.arguments) = admissible(world, action, kept)
  BY <1>1 DEF LostValue
<1> HIDE DEF r, ctx, action, kept
<1>7. AlikeContexts(world, action, ctx, other)
  BY <1>4, <1>5 DEF AlikeContexts
<1> HIDE DEF other
<1>8. decide(Bundled[manifest], action, kept, "Trusted", other)
        = decide(world, action, call.arguments, "Trusted", ctx)
  BY <1>6, <1>7, BundleIsTheWorld, DecidesAlike
<1>9. recompute(Bundled[manifest], r) = r.outcome
  BY <1>1, <1>3, <1>8
<1>10. replay(<<r>>, Bundled[manifest]) = {}
  BY <1>9 DEF replay
<1> QED
  BY <1>10 DEF r

\* In every session, under any manifests: a record of the agent loop, decided again
\* in the world its bundle compiles to, has the outcome that was recorded, unless
\* the marks of single arguments or a redacted value made the difference; and the
\* transcript of a session with hooks carries the taint and the counters that are on
\* disk (record.rs; replay.rs: replay_bundle; replay_transcripts.rs: run).
THEOREM RecordsReproduce == Spec => []ReplayReproduces
<1>1. WorldKnown /\ TranscriptFollows => ReplayReproduces
  BY RecordReplays DEF TranscriptFollows, ReplayReproduces
<1>2. Init => WorldKnown /\ TranscriptFollows
  BY TranscriptStarts DEF Init, StartHost, Validated, WorldKnown
<1> QED
  BY <1>1, <1>2, WorldStays, TranscriptStays, PTL DEF Spec

-----------------------------------------------------------------------------
(* The commands that are run, whatever they do with their processes: a     *)
(* handler that killed has nothing of the group left, and waits for a      *)
(* process that left it.                                                   *)

\* No member of a group is started after the group was killed: a descendant starts
\* others like itself, and only the child starts one in the group.
Contained ==
  /\ CommandTypeOK
  /\ handler = "late" => late
  /\ handler = "killed" => /\ late /\ child = "ended"
                           /\ \A p \in family : p.left

\* What the processes do leaves the handler as it is, within the bound.
LEMMA DescendantsCounted ==
  ASSUME NEW kinds \in SUBSET Descendant, Cardinality(kinds) <= MaxDescendants, Lives(kinds),
         CommandTypeOK
  PROVE  CommandTypeOK' /\ UNCHANGED <<handler, child, late>> /\ family' = kinds
BY DEF Lives, CommandTypeOK

LEMMA ContainedInit == CommandInit => Contained
<1> SUFFICES ASSUME CommandInit
             PROVE  Contained
  OBVIOUS
<1>1. Cardinality(family) <= MaxDescendants
  BY FS_EmptySet, CommandAssumption DEF CommandInit
<1> QED
  BY <1>1 DEF CommandInit, Contained, CommandTypeOK

LEMMA ContainedNext ==
  Contained /\ [Spawns \/ CommandNext \/ CommandOver]_command_vars => Contained'
<1> SUFFICES ASSUME Contained, [Spawns \/ CommandNext \/ CommandOver]_command_vars
             PROVE  Contained'
  OBVIOUS
<1>1. Cardinality({}) = 0 /\ 0 <= MaxDescendants
  BY FS_EmptySet, CommandAssumption
<1>2. CASE Spawns
  <2>1. Cardinality(family') <= MaxDescendants
    BY <1>1, <1>2 DEF Spawns
  <2> QED
    BY <1>2, <2>1 DEF Spawns, Contained, CommandTypeOK
<1>3. CASE DescendantStarts
  <2>1. [left |-> FALSE, holds |-> TRUE] \in Descendant
    BY DEF Descendant
  <2>2. handler # "killed" /\ handler' = handler /\ CommandTypeOK' /\ late' = late
    BY <1>3, <2>1, DescendantsCounted DEF DescendantStarts, Lives, Contained, CommandTypeOK
  <2> QED
    BY <2>2 DEF Contained
<1>4. CASE DescendantChanges
  <2>1. PICK p \in family : \E q \in {[p EXCEPT !.left = TRUE], [p EXCEPT !.holds = FALSE]} :
               Lives(family \cup {q}) \/ Lives((family \ {p}) \cup {q})
    BY <1>4 DEF DescendantChanges
  <2>2. PICK q \in {[p EXCEPT !.left = TRUE], [p EXCEPT !.holds = FALSE]} :
               Lives(family \cup {q}) \/ Lives((family \ {p}) \cup {q})
    BY <2>1
  <2>3. p \in Descendant
    BY <2>1 DEF Contained, CommandTypeOK
  <2>4. q \in Descendant /\ (p.left => q.left)
    BY <2>2, <2>3 DEF Descendant
  <2>5. /\ UNCHANGED <<handler, child, late>> /\ CommandTypeOK'
        /\ family' \subseteq family \cup {q}
    BY <2>2, <2>4 DEF Lives, Contained, CommandTypeOK
  <2> QED
    BY <2>1, <2>4, <2>5 DEF Contained
<1>5. CASE DescendantEnds
  BY <1>5 DEF DescendantEnds, Lives, Contained, CommandTypeOK
<1>6. CASE ChildEnds
  BY <1>6 DEF ChildEnds, Contained, CommandTypeOK
<1>7. CASE DeadlinePasses
  BY <1>7 DEF DeadlinePasses, Contained, CommandTypeOK
<1>8. CASE Polls
  BY <1>8 DEF Polls, Contained, CommandTypeOK
<1>9. CASE Kills
  <2>1. IsFiniteSet(family)
    <3> DEFINE kind(left, holds) == [left |-> left, holds |-> holds]
               kinds == {kind(FALSE, FALSE)} \cup {kind(FALSE, TRUE)}
                          \cup {kind(TRUE, FALSE)} \cup {kind(TRUE, TRUE)}
    <3>1. ASSUME NEW p \in Descendant
          PROVE  p \in kinds
      <4>1. p = kind(p.left, p.holds) /\ p.left \in BOOLEAN /\ p.holds \in BOOLEAN
        BY DEF Descendant
      <4> QED
        BY <4>1, Zenon
    <3> HIDE DEF kind
    <3>2. IsFiniteSet(kinds)
      <4>1. IsFiniteSet({kind(FALSE, FALSE)} \cup {kind(FALSE, TRUE)})
        BY FS_Singleton, FS_AddElement
      <4>2. IsFiniteSet({kind(FALSE, FALSE)} \cup {kind(FALSE, TRUE)} \cup {kind(TRUE, FALSE)})
        BY <4>1, FS_AddElement
      <4> QED
        BY <4>2, FS_AddElement
    <3> QED
      BY <3>1, <3>2, FS_Subset DEF Contained, CommandTypeOK
  <2>2. family' \subseteq family /\ \A p \in family' : p.left
    BY <1>9 DEF Kills, kill_tree
  <2>3. Cardinality(family) \in Nat /\ Cardinality(family') \in Nat
    BY <2>1, <2>2, FS_Subset, FS_CardinalityType
  <2>4. Cardinality(family') <= Cardinality(family)
    BY <2>1, <2>2, FS_Subset
  <2>5. Cardinality(family) <= MaxDescendants
    BY DEF Contained, CommandTypeOK
  <2>6. Cardinality(family') <= MaxDescendants
    BY <2>3, <2>4, <2>5, CommandAssumption
  <2> QED
    BY <2>2, <2>6, <1>9 DEF Kills, kill_tree, Contained, CommandTypeOK
<1>10. CASE CommandOver
  <2>1. Cardinality(family') <= MaxDescendants
    BY <1>1, <1>10 DEF CommandOver
  <2> QED
    BY <1>10, <2>1 DEF CommandOver, Contained, CommandTypeOK
<1>11. CASE UNCHANGED command_vars
  BY <1>11 DEF command_vars, Contained, CommandTypeOK
<1> QED
  BY <1>2, <1>3, <1>4, <1>5, <1>6, <1>7, <1>8, <1>9, <1>10, <1>11 DEF CommandNext

LEMMA HandlerContains == CommandSpec => []Contained
<1>1. Contained /\ [Spawns \/ CommandNext \/ Concludes]_command_vars => Contained'
  BY ContainedNext DEF Concludes
<1> QED
  BY <1>1, ContainedInit, PTL DEF CommandSpec

\* The handler and its processes keep their types.
THEOREM CommandTyped == CommandSpec => []CommandTypeOK
<1>1. Contained => CommandTypeOK
  BY DEF Contained
<1> QED
  BY <1>1, HandlerContains, PTL

LEMMA ContainedMeans == Contained => CommandContained
BY DEF Contained, CommandContained, drained

\* Whatever a command starts, and however its end races its deadline: what was
\* stopped is stopped, but for what left its group (command.rs: kill_tree).
THEOREM CommandStaysContained == CommandSpec => []CommandContained
BY HandlerContains, ContainedMeans, PTL

\* The same of every command that an agent loop has run, in every session
\* (orchestrator.rs; executor: command.rs).
THEOREM SessionsContainCommands == Spec => []CommandContained
<1>1. Init => Contained
  BY ContainedInit DEF Init, AgentInit
<1>2. AgentNext => [Spawns \/ CommandNext \/ CommandOver]_command_vars
  BY DEF AgentNext, CommandStarts, Returned, Errored
<1>3. Contained /\ [Next]_vars => Contained'
  <2>1. UNCHANGED agent_vars => UNCHANGED command_vars
    BY DEF agent_vars
  <2> QED
    BY <1>2, <2>1, OneHostSteps, ContainedNext
<1> QED
  BY <1>1, <1>3, ContainedMeans, PTL DEF Spec

-----------------------------------------------------------------------------
(* What runs: the floor and the arguments.                                 *)

\* Every argument source of a capability is one of the manifest.
LEMMA SourceTyped ==
  ASSUME WorldKnown, NEW action, scoped(world, action), NEW a \in DOMAIN cap_args(world, action)
  PROVE  IsArgSource(cap_args(world, action)[a])
<1> DEFINE caps == Manifests[manifest].scoped_capabilities
<1>1. PICK m : /\ world = compile(m) /\ IsWorldManifest(Manifests[manifest])
               /\ m.scoped_capabilities = caps
  BY CompiledFrom
<1>2. world.scoped_capabilities = [c \in names(caps) |-> named(caps, c)]
  BY <1>1 DEF compile
<1>3. action \in names(caps) /\ cap_args(world, action) = named(caps, action).args
  BY <1>2 DEF scoped, cap_args
<1>4. \A i \in DOMAIN caps : IsScopedCapabilityDef(caps[i])
  BY <1>1 DEF IsWorldManifest, All
<1>5. PICK i \in DOMAIN caps : named(caps, action) = caps[i]
  BY <1>3 DEF names, named
<1> HIDE DEF caps
<1> QED
  BY <1>3, <1>4, <1>5 DEF IsScopedCapabilityDef, IsMap


\* A source names one argument of the actor at most, in every world of a session
\* (manifest.rs: ArgSource).
LEMMA SourcesKnown ==
  ASSUME WorldKnown, NEW action
  PROVE  SourcesNameOne(world, action)
<1> SUFFICES ASSUME scoped(world, action), NEW a \in DOMAIN cap_args(world, action)
             PROVE  /\ cap_args(world, action)[a].from \in {"actor", "input", "literal", "context"}
                    /\ cap_args(world, action)[a].from = "input" =>
                         \/ cap_args(world, action)[a].as = {}
                         \/ \E n : cap_args(world, action)[a].as = {n}
  BY DEF SourcesNameOne
<1> QED
  BY SourceTyped DEF IsArgSource, IsInputRule, Option, AtMostOne

\* An action of the world is one of the manifest, under its own name or narrowed.
LEMMA ActionKnown ==
  ASSUME WorldKnown, NEW action \in world.ontology
  PROVE  \E i \in DOMAIN Manifests[manifest].base_actions :
           LET base == Manifests[manifest].base_actions[i]
           IN  /\ IsBaseActionDef(base) /\ validate_flow_contract(base)
               /\ world.descriptors[action] = descriptor_of(base)
               /\ world.side_effects[action] = base.side_effect
               /\ world.action_types[action] = base.action_type
<1> DEFINE bases == Manifests[manifest].base_actions
           caps == Manifests[manifest].scoped_capabilities
<1>1. PICK m : /\ world = compile(m) /\ IsWorldManifest(Manifests[manifest])
               /\ m.base_actions = bases /\ m.scoped_capabilities = caps
  BY CompiledFrom
<1>2. /\ \A i \in DOMAIN bases : validate_flow_contract(bases[i])
      /\ \A i \in DOMAIN caps : caps[i].base_action \in names(bases)
  BY DEF WorldKnown, validate_manifest
<1>3. \A i \in DOMAIN bases : IsBaseActionDef(bases[i])
  BY <1>1 DEF IsWorldManifest, All
<1>4. /\ world.ontology = names(bases) \cup names(caps)
      /\ world.descriptors = [a \in names(bases) \cup names(caps) |-> descriptor_of(base_of(m, a))]
      /\ world.action_types = [a \in names(bases) \cup names(caps) |-> base_of(m, a).action_type]
      /\ world.side_effects = [a \in names(bases) \cup names(caps) |-> base_of(m, a).side_effect]
  BY <1>1 DEF compile
<1> HIDE DEF bases, caps
<1>5. \A n \in names(bases) : \E i \in DOMAIN bases : named(bases, n) = bases[i]
  BY DEF names, named
<1>6. action \in names(caps) => named(caps, action).base_action \in names(bases)
  BY <1>2 DEF names, named
<1>7. PICK i \in DOMAIN bases : base_of(m, action) = bases[i]
  BY <1>1, <1>4, <1>5, <1>6 DEF base_of
<1>8. /\ world.descriptors[action] = descriptor_of(bases[i])
      /\ world.side_effects[action] = bases[i].side_effect
      /\ world.action_types[action] = bases[i].action_type
  BY <1>4, <1>7
<1> QED
  BY <1>2, <1>3, <1>8 DEF bases

\* At most one contract, whose sinks are a list.
LEMMA ContractKnown ==
  ASSUME WorldKnown, NEW action \in world.ontology,
         NEW c \in world.descriptors[action].flow_contract
  PROVE  /\ world.descriptors[action].flow_contract = {c}
         /\ \E n \in Nat : DOMAIN c.sinks = 1 .. n
<1>1. PICK i \in DOMAIN Manifests[manifest].base_actions :
        LET base == Manifests[manifest].base_actions[i]
        IN  /\ IsBaseActionDef(base)
            /\ world.descriptors[action] = descriptor_of(base)
  BY ActionKnown
<1> DEFINE base == Manifests[manifest].base_actions[i]
<1>2. IsBaseActionDef(base) /\ world.descriptors[action].flow_contract = base.flow_contract
  BY <1>1 DEF descriptor_of
<1> HIDE DEF base
<1>3. AtMostOne(base.flow_contract) /\ IsFlowContract(c)
  BY <1>2 DEF IsBaseActionDef
<1>4. IsList(c.sinks)
  BY <1>3 DEF IsFlowContract
<1> QED
  BY <1>2, <1>3, <1>4 DEF AtMostOne, IsList

\* In a tainted session the floor lets an external effect pass only if every argument
\* that binds authority is a literal of the world, or bound to a value that is known
\* and not tainted (invariants.rs: effective_floor_taint).
LEMMA FloorBinds ==
  ASSUME NEW w, NEW action, SourcesNameOne(w, action), NEW ctx, ctx.taint = "Tainted",
         ~taint_floor(w, action, ctx), w.side_effects[action] \in EXTERNALLY_EFFECTFUL
  PROVE  LET roles == w.descriptors[action].arg_roles
         IN  /\ DOMAIN roles # {}
             /\ \A a \in DOMAIN roles : roles[a] \in AUTHORITY =>
                  \/ is_literal(w, action, a)
                  \/ \E n \in DOMAIN ctx.arg_taint :
                       binding(w, action, a) = {n} /\ ctx.arg_taint[n] # "Tainted"
<1> DEFINE roles == w.descriptors[action].arg_roles
           taint_of(a) == bound(ctx.arg_taint, ctx.taint, binding(w, action, a))
<1>1. effective_floor_taint(w, action, ctx) # "Tainted"
  BY DEF taint_floor
<1>2. DOMAIN roles # {}
  BY <1>1 DEF effective_floor_taint
<1>3. ASSUME NEW a \in DOMAIN roles, roles[a] \in AUTHORITY, ~is_literal(w, action, a)
      PROVE  \E n \in DOMAIN ctx.arg_taint :
               binding(w, action, a) = {n} /\ ctx.arg_taint[n] # "Tainted"
  <2>1. taint_of(a) # "Tainted"
    BY <1>1, <1>2, <1>3 DEF effective_floor_taint
  <2>2. binding(w, action, a) \cap DOMAIN ctx.arg_taint # {}
    BY <2>1 DEF bound
  <2>3. PICK n \in DOMAIN ctx.arg_taint : binding(w, action, a) = {n}
    BY <2>2, BindingNamesOne
  <2>4. taint_of(a) = ctx.arg_taint[n]
    BY <2>3 DEF bound
  <2> QED
    BY <2>1, <2>3, <2>4
<1> QED
  BY <1>2, <1>3

\* What an argument of the effective call holds: the world's literal, or the value
\* that the actor gave under the name it is bound to (spec.rs: effective_call).
LEMMA EffectiveArgs ==
  ASSUME NEW w, NEW action, NEW args, NEW a \in DOMAIN members(effective_call(w, action, args).arguments)
  PROVE  LET gets == members(effective_call(w, action, args).arguments)
         IN  /\ is_literal(w, action, a) => gets[a] = cap_args(w, action)[a].value
             /\ ~is_literal(w, action, a) =>
                  \A n : binding(w, action, a) = {n} =>
                    n \in DOMAIN members(args) /\ gets[a] = members(args)[n]
<1> DEFINE gets == members(effective_call(w, action, args).arguments)
<1>1. CASE ~scoped(w, action)
  <2>1. gets = members(args)
    BY <1>1 DEF effective_call
  <2>2. ~is_literal(w, action, a) /\ binding(w, action, a) = {a}
    BY <1>1 DEF is_literal, binding
  <2> QED
    BY <2>1, <2>2
<1>2. CASE scoped(w, action)
  <2> DEFINE value(b) == scoped_value(w, action, args, b)
             f == [b \in given(w, action, args) \cup literals(w, action) |-> value(b)]
  <2>1. effective_call(w, action, args).arguments = Obj(f)
    BY <1>2 DEF effective_call
  <2>2. gets = f
    <3> HIDE DEF f
    <3> QED
      BY <2>1 DEF members, is, Obj
  <2>3. a \in given(w, action, args) \cup literals(w, action) /\ gets[a] = value(a)
    BY <2>2
  <2>4. a \in DOMAIN cap_args(w, action)
    BY <2>3 DEF given, literals
  <2>5. is_literal(w, action, a) => gets[a] = cap_args(w, action)[a].value
    BY <2>3 DEF is_literal, scoped_value
  <2>6. ASSUME ~is_literal(w, action, a), NEW n, binding(w, action, a) = {n}
        PROVE  n \in DOMAIN members(args) /\ gets[a] = members(args)[n]
    <3>1. cap_args(w, action)[a].from # "literal"
      BY <1>2, <2>4, <2>6 DEF is_literal
    <3>2. a \in given(w, action, args)
      BY <2>3, <3>1 DEF literals
    <3>3. actor_name(cap_args(w, action)[a], a) = {n}
      BY <1>2, <2>4, <2>6 DEF binding
    <3>4. n \in DOMAIN members(args)
      BY <3>2, <3>3 DEF given
    <3>5. value(a) = members(args)[n]
      <4>1. (CHOOSE x \in {n} : TRUE) = n
        OBVIOUS
      <4> QED
        BY <3>1, <3>3, <4>1 DEF scoped_value
    <3> QED
      BY <2>3, <3>4, <3>5
  <2> QED
    BY <2>5, <2>6
<1> QED
  BY <1>1, <1>2

\* A host that knows nothing of the context runs the effective call as it is.
LEMMA ParamsAreEffective ==
  ASSUME NEW w, NEW action, NEW args, NEW p \in effective_params(w, action, args, ExecEnv)
  PROVE  members(p) = members(effective_call(w, action, args).arguments)
<1> DEFINE e == effective_call(w, action, args)
           refs == DOMAIN e.context_refs
           known == members(e.arguments)
           value(a) == IF a \in refs THEN Str(ExecEnv.context[e.context_refs[a]]) ELSE known[a]
           whole == [a \in DOMAIN known \cup refs |-> value(a)]
<1>1. CASE ~scoped(w, action)
  BY <1>1 DEF effective_params
<1>2. CASE scoped(w, action)
  <2>1. (\A a \in refs : e.context_refs[a] \in DOMAIN ExecEnv.context) /\ p = Obj(whole)
    BY <1>2 DEF effective_params
  <2>2. DOMAIN ExecEnv.context = {}
    BY DEF ExecEnv, Empty
  <2>3. refs = {}
    BY <2>1, <2>2
  <2> DEFINE f == [b \in given(w, action, args) \cup literals(w, action) |->
                     scoped_value(w, action, args, b)]
  <2>4. e.arguments = Obj(f)
    BY <1>2 DEF effective_call
  <2>5. known = f
    <3> HIDE DEF f, e
    <3> QED
      BY <2>4 DEF members, is, Obj
  <2>6. known = [b \in DOMAIN known |-> known[b]]
    BY <2>5
  <2> HIDE DEF e, known
  <2>7. whole = known
    BY <2>3, <2>6
  <2> HIDE DEF whole
  <2>8. members(p) = whole
    BY <2>1 DEF members, is, Obj
  <2> QED
    BY <2>7, <2>8 DEF known, e
<1> QED
  BY <1>1, <1>2

\* What the kernel is told of a request that parses.
PolicyOf(w, req) == CHOOSE p \in UNION {channel_policy(w, c) : c \in req.source_channel} : TRUE
Inbound(w, req) == join(parse_taint[CHOOSE t \in req.taint : TRUE], PolicyOf(w, req).taint)
Known(w, req) == taint_context(req, Inbound(w, req))

\* What a call that runs brings in, and the labels of what it returns.
Brings(w, action, path, inbound) == out_taint(w, action, path, inbound, TRUE)
Labelled(w, action, path, tc, out) == flow_out(w, action, path, tc, out, TRUE)
Unlabelled(w, action, path, tc, out) == flow_out(w, action, path, tc, out, FALSE)

\* The answer to a call that may run, and to one that may not (gate.rs: gate).
LEMMA AllowedResponse ==
  ASSUME NEW w, NEW req, NEW action, NEW inbound, NEW tc, NEW kernel, NEW final,
         final.decision = "Allow", kernel.sealed
  PROVE  LET res == response(w, req, action, inbound, tc, kernel, final)
             out == Brings(w, action, req.path, inbound)
         IN  /\ res.action = action /\ res.taint = out
             /\ res.flow = Labelled(w, action, req.path, tc, out)
             /\ res.effective = {effective_call(w, action, req.arguments)}
<1> DEFINE allowed == final.decision = "Allow"
           both == allowed /\ kernel.sealed
           out(b) == out_taint(w, action, req.path, inbound, b)
           res == response(w, req, action, inbound, tc, kernel, final)
<1>1. /\ res.action = action /\ res.taint = out(allowed)
      /\ res.flow = flow_out(w, action, req.path, tc, out(allowed), both)
      /\ res.effective = {effective_call(w, action, req.arguments)}
  BY DEF response
<1>2. allowed = TRUE /\ both = TRUE
  OBVIOUS
<1> HIDE DEF allowed, both, res, out
<1>3. /\ res.action = action /\ res.taint = out(TRUE)
      /\ res.flow = flow_out(w, action, req.path, tc, out(TRUE), TRUE)
      /\ res.effective = {effective_call(w, action, req.arguments)}
  BY <1>1, <1>2
<1> QED
  BY <1>3 DEF res, out, Brings, Labelled

LEMMA HeldResponse ==
  ASSUME NEW w, NEW req, NEW action, NEW inbound, NEW tc, NEW kernel, NEW final,
         final.decision # "Allow"
  PROVE  LET res == response(w, req, action, inbound, tc, kernel, final)
         IN  /\ res.taint = inbound
             /\ res.flow = Unlabelled(w, action, req.path, tc, inbound)
<1> DEFINE allowed == final.decision = "Allow"
           both == allowed /\ kernel.sealed
           out(b) == out_taint(w, action, req.path, inbound, b)
           res == response(w, req, action, inbound, tc, kernel, final)
<1>1. res.taint = out(allowed) /\ res.flow = flow_out(w, action, req.path, tc, out(allowed), both)
  BY DEF response
<1>2. allowed = FALSE /\ both = FALSE
  OBVIOUS
<1>3. out(FALSE) = inbound
  BY DEF out_taint
<1> HIDE DEF allowed, both, res, out
<1>4. res.taint = inbound /\ res.flow = Unlabelled(w, action, req.path, tc, inbound)
  BY <1>1, <1>2, <1>3 DEF Unlabelled
<1> QED
  BY <1>4 DEF res

\* Whatever the answer, its taint is the inbound one or worse.
LEMMA ResponseTaint ==
  ASSUME NEW w, NEW req, NEW action, NEW inbound, NEW tc, NEW kernel, NEW final
  PROVE  \E allowed \in BOOLEAN :
           response(w, req, action, inbound, tc, kernel, final).taint
             = out_taint(w, action, req.path, inbound, allowed)
<1> DEFINE allowed == final.decision = "Allow"
<1>1. response(w, req, action, inbound, tc, kernel, final).taint
        = out_taint(w, action, req.path, inbound, allowed)
  BY DEF response
<1>2. allowed \in BOOLEAN
  OBVIOUS
<1> HIDE DEF allowed
<1> QED
  BY <1>1, <1>2

LEMMA ResponseDecision ==
  ASSUME NEW w, NEW req, NEW action, NEW inbound, NEW tc, NEW kernel, NEW final
  PROVE  response(w, req, action, inbound, tc, kernel, final).decision = final.decision
BY DEF response

\* What the gate lets pass was representable, and its answer says of the session what
\* the call brings in; with roots, a file action that passes named its file
\* (gate.rs: gate, path_scope, out_taint, flow_out).
LEMMA GatePasses ==
  ASSUME NEW w, NEW req, NEW granted, OnlyTightens(w), gate(w, req, granted).decision = "Allow"
  PROVE  LET action == classify_call(w, req.tool, req.arguments, req.path)
             tc == Known(w, req)
             out == Brings(w, action, req.path, Inbound(w, req))
         IN  /\ malformed(w, req) = None
             /\ action \in w.ontology /\ admissible(w, action, req.arguments)
             /\ check_flow(w, action, tc) = None /\ ~taint_floor(w, action, tc)
             /\ gate(w, req, granted).action = action
             /\ gate(w, req, granted).taint = out
             /\ gate(w, req, granted).flow = Labelled(w, action, req.path, tc, out)
             /\ gate(w, req, granted).effective = {effective_call(w, action, req.arguments)}
             /\ w.roots # {} /\ requires_resolved_path(w, action) => req.path # {}
             /\ path_scope(w, action, req.path, parse_mode(req.mode)).decision = "Allow"
<1> DEFINE action == classify_call(w, req.tool, req.arguments, req.path)
           tc == Known(w, req)
           ctx == [taint |-> tc, mode |-> parse_mode(req.mode), usage |-> carried(req),
                   approval_granted |-> granted]
           kernel == decide(w, action, req.arguments, PolicyOf(w, req).trust, ctx)
           scope == path_scope(w, action, req.path, parse_mode(req.mode))
           final == tightened(kernel, scope)
           out == Brings(w, action, req.path, Inbound(w, req))
<1>1. malformed(w, req) = None
  BY GateAllows
<1>2. gate(w, req, granted) = governed(w, req, granted, action, PolicyOf(w, req))
  BY <1>1 DEF gate, PolicyOf
<1>3. governed(w, req, granted, action, PolicyOf(w, req))
        = decided(w, req, granted, action, PolicyOf(w, req).trust, Inbound(w, req), tc)
  BY DEF governed, Inbound, Known
<1>4. gate(w, req, granted) = response(w, req, action, Inbound(w, req), tc, kernel, final)
  <2> HIDE DEF action, tc
  <2> QED
    BY <1>2, <1>3 DEF decided, scoped_response
<1> HIDE DEF action, tc, scope, kernel, final, out
<1>5. final.decision = "Allow"
  BY <1>4 DEF response
<1>6. kernel.decision = "Allow" /\ scope.decision = "Allow"
  BY <1>5 DEF final, tightened
<1>7. kernel.sealed
  <2> HIDE DEF ctx
  <2> QED
    BY <1>6, UnrepresentableIsRefused DEF kernel, decide
<1>8. /\ action \in w.ontology /\ admissible(w, action, req.arguments)
      /\ check_flow(w, action, tc) = None /\ ~taint_floor(w, action, tc)
  <2>1. ctx.taint = tc
    OBVIOUS
  <2> HIDE DEF ctx
  <2> QED
    BY <1>6, <2>1, AllowMeansAll DEF kernel
<1>9. /\ gate(w, req, granted).action = action
      /\ gate(w, req, granted).taint = out
      /\ gate(w, req, granted).flow = Labelled(w, action, req.path, tc, out)
      /\ gate(w, req, granted).effective = {effective_call(w, action, req.arguments)}
  <2> DEFINE res == response(w, req, action, Inbound(w, req), tc, kernel, final)
  <2>1. /\ res.action = action /\ res.taint = out
        /\ res.flow = Labelled(w, action, req.path, tc, out)
        /\ res.effective = {effective_call(w, action, req.arguments)}
    BY <1>5, <1>7, AllowedResponse DEF out
  <2> HIDE DEF res
  <2>2. gate(w, req, granted) = res
    BY <1>4 DEF res
  <2> QED
    BY <2>1, <2>2
<1>10. w.roots # {} /\ requires_resolved_path(w, action) => req.path # {}
  BY <1>6 DEF scope, path_scope, answer
<1>11. path_scope(w, action, req.path, parse_mode(req.mode)).decision = "Allow"
  BY <1>6 DEF scope
<1> QED
  BY <1>1, <1>8, <1>9, <1>10, <1>11 DEF action, tc, out

\* A call that the gate does not let pass gets no label for a result.
LEMMA GateHolds ==
  ASSUME NEW w, NEW req, NEW granted, gate(w, req, granted).decision # "Allow",
         NEW f \in gate(w, req, granted).flow
  PROVE  f.result = {}
<1> DEFINE action == classify_call(w, req.tool, req.arguments, req.path)
           policy == CHOOSE p \in UNION {channel_policy(w, c) : c \in req.source_channel} : TRUE
<1>1. CASE malformed(w, req) # None
  <2>1. gate(w, req, granted) = refused(w, req, action, malformed(w, req))
    BY <1>1 DEF gate
  <2> QED
    BY <2>1 DEF refused, denied_response
<1>2. CASE malformed(w, req) = None
  <2>1. gate(w, req, granted) = governed(w, req, granted, action, policy)
    BY <1>2 DEF gate
  <2>2. PICK inbound, tc, kernel, final :
          gate(w, req, granted) = response(w, req, action, inbound, tc, kernel, final)
    BY <2>1 DEF governed, decided, scoped_response
  <2> HIDE DEF action
  <2>3. gate(w, req, granted).flow = Unlabelled(w, action, req.path, tc, inbound)
    <3>1. final.decision # "Allow"
      BY <2>2, ResponseDecision
    <3> QED
      BY <2>2, <3>1, HeldResponse
  <2> QED
    BY <2>3 DEF Unlabelled, flow_out
<1> QED
  BY <1>1, <1>2

\* A session that is tainted stays so, whatever the gate answers; one whose taint is
\* not sent is tainted from then on (gate.rs: out_taint, denied_response).
LEMMA GateKeepsTaint ==
  ASSUME NEW w, NEW req, NEW granted, req.taint \in {{}, {"tainted"}}
  PROVE  gate(w, req, granted).taint = "Tainted"
<1> DEFINE action == classify_call(w, req.tool, req.arguments, req.path)
           policy == CHOOSE p \in UNION {channel_policy(w, c) : c \in req.source_channel} : TRUE
<1>1. req.taint # {} => parse_taint[CHOOSE t \in req.taint : TRUE] = "Tainted"
  BY DEF parse_taint
<1>2. CASE malformed(w, req) # None
  <2>1. gate(w, req, granted) = refused(w, req, action, malformed(w, req))
    BY <1>2 DEF gate
  <2>2. req.taint = {} => malformed(w, req) = "missing_taint"
    BY DEF malformed
  <2> QED
    BY <1>1, <2>1, <2>2 DEF refused, denied_response
<1>3. CASE malformed(w, req) = None
  <2>1. gate(w, req, granted) = governed(w, req, granted, action, policy)
    BY <1>3 DEF gate
  <2>2. req.taint # {}
    BY <1>3 DEF malformed, None
  <2> DEFINE inbound == join(parse_taint[CHOOSE t \in req.taint : TRUE], policy.taint)
  <2>3. inbound = "Tainted"
    BY <1>1, <2>2 DEF join
  <2> HIDE DEF inbound
  <2>4. PICK tc, kernel, final :
          gate(w, req, granted) = response(w, req, action, inbound, tc, kernel, final)
    BY <2>1 DEF governed, decided, scoped_response, inbound
  <2> HIDE DEF action
  <2>5. \E allowed \in BOOLEAN :
          gate(w, req, granted).taint = out_taint(w, action, req.path, inbound, allowed)
    BY <2>4, ResponseTaint
  <2> QED
    BY <2>3, <2>5 DEF out_taint, join
<1> QED
  BY <1>2, <1>3

\* An inbound taint is the caller's at least.
LEMMA InboundTainted ==
  ASSUME NEW w, NEW req, req.taint = {"tainted"}
  PROVE  Inbound(w, req) = "Tainted"
<1>1. parse_taint[CHOOSE t \in req.taint : TRUE] = "Tainted"
  BY DEF parse_taint
<1> QED
  BY <1>1 DEF Inbound, join

\* The answer to an allowed call is tainted if its result may be.
LEMMA AllowTaints ==
  ASSUME NEW w, NEW req, NEW granted, OnlyTightens(w), gate(w, req, granted).decision = "Allow"
  PROVE  LET action == gate(w, req, granted).action
         IN  \/ remote_backed(w, action)
             \/ \E p \in req.path : path_taints(w, p)
             \/ side_effect_taint(w.side_effects[action], w.action_types[action]) = "Tainted"
             => gate(w, req, granted).taint = "Tainted"
<1> DEFINE action == classify_call(w, req.tool, req.arguments, req.path)
<1>1. /\ gate(w, req, granted).action = action
      /\ gate(w, req, granted).taint = Brings(w, action, req.path, Inbound(w, req))
  BY GatePasses
<1> HIDE DEF action
<1> QED
  BY <1>1 DEF Brings, out_taint, ingress, join

-----------------------------------------------------------------------------
(* What a host runs, and what was judged.                                  *)

\* A host that carries no labels runs no call with a contract (check_flow).
LEMMA NoLabelsNoContract ==
  ASSUME NEW w, NEW action, NEW ctx, check_flow(w, action, ctx) = None, ctx.flow = {}
  PROVE  w.descriptors[action].flow_contract = {}
BY DEF check_flow, None

\* An external effect whose authority arguments are the world's, or values that the
\* caller gave and that are known and not tainted.
FloorJudged(r, known, args) ==
  External(r) =>
    /\ DOMAIN world.descriptors[r.action].arg_roles # {}
    /\ \A a \in AuthorityArgs(r) :
         \/ is_literal(world, r.action, a) /\ r.args[a] = LiteralOf(r, a)
         \/ \E n \in DOMAIN known \cap DOMAIN members(args) :
              known[n] # "Tainted" /\ r.args[a] = members(args)[n]

\* What runs with the effective arguments was judged so in a tainted session.
LEMMA FloorOfRun ==
  ASSUME WorldKnown, NEW r, NEW args, NEW ctx, ctx.taint = "Tainted",
         ~taint_floor(world, r.action, ctx),
         r.args = members(effective_call(world, r.action, args).arguments)
  PROVE  FloorJudged(r, ctx.arg_taint, args)
<1> SUFFICES ASSUME External(r)
             PROVE  /\ DOMAIN world.descriptors[r.action].arg_roles # {}
                    /\ \A a \in AuthorityArgs(r) :
                         \/ is_literal(world, r.action, a) /\ r.args[a] = LiteralOf(r, a)
                         \/ \E n \in DOMAIN ctx.arg_taint \cap DOMAIN members(args) :
                              ctx.arg_taint[n] # "Tainted" /\ r.args[a] = members(args)[n]
  BY DEF FloorJudged
<1> DEFINE action == r.action
           roles == world.descriptors[action].arg_roles
<1>1. SourcesNameOne(world, action)
  BY SourcesKnown
<1>2. world.side_effects[action] \in EXTERNALLY_EFFECTFUL
  BY DEF External
<1>3. /\ DOMAIN roles # {}
      /\ \A a \in DOMAIN roles : roles[a] \in AUTHORITY =>
           \/ is_literal(world, action, a)
           \/ \E n \in DOMAIN ctx.arg_taint :
                binding(world, action, a) = {n} /\ ctx.arg_taint[n] # "Tainted"
  BY <1>1, <1>2, FloorBinds
<1>4. ASSUME NEW a \in AuthorityArgs(r)
      PROVE  \/ is_literal(world, action, a) /\ r.args[a] = LiteralOf(r, a)
             \/ \E n \in DOMAIN ctx.arg_taint \cap DOMAIN members(args) :
                  ctx.arg_taint[n] # "Tainted" /\ r.args[a] = members(args)[n]
  <2>1. a \in DOMAIN roles /\ roles[a] \in AUTHORITY /\ a \in DOMAIN r.args
    BY DEF AuthorityArgs
  <2>2. a \in DOMAIN members(effective_call(world, action, args).arguments)
    BY <2>1
  <2> DEFINE gets == members(effective_call(world, action, args).arguments)
  <2>3. /\ is_literal(world, action, a) => gets[a] = cap_args(world, action)[a].value
        /\ ~is_literal(world, action, a) =>
             \A n : binding(world, action, a) = {n} =>
               n \in DOMAIN members(args) /\ gets[a] = members(args)[n]
    BY <2>2, EffectiveArgs
  <2>4. gets = r.args
    OBVIOUS
  <2> HIDE DEF gets, roles, action
  <2>5. CASE is_literal(world, action, a)
    BY <2>3, <2>4, <2>5 DEF LiteralOf, action
  <2>6. CASE ~is_literal(world, action, a)
    BY <1>3, <2>1, <2>3, <2>4, <2>6
  <2> QED
    BY <2>5, <2>6
<1> QED
  BY <1>3, <1>4

\* A call to another process is lowered to its effective arguments.
LEMMA LoweredInput ==
  ASSUME NEW w, NEW req, NEW verdict, NEW tools,
         NEW i \in lowered_input(lower(w, req, verdict, ExecEnv), tools)
  PROVE  members(i) = members(effective_call(w, verdict.action, req.arguments).arguments)
<1> DEFINE action == verdict.action
           backing == w.descriptors[action].backing
           params == effective_params(w, action, req.arguments, ExecEnv)
           call_of(p) == [op |-> "mcp", server |-> backing.server, tool |-> backing.tool, input |-> p]
           ops(p) == IF backing.kind = "mcp" THEN {call_of(p)}
                     ELSE operation_for(backing.handler, p, param_contract(w, action))
<1>1. PICK s \in lower(w, req, verdict, ExecEnv) : s.operation.op = "mcp" /\ i = s.operation.input
  BY DEF lowered_input
<1>2. PICK how \in verdict.lowered :
        s \in build_execution_spec(w, action, req.arguments, how, ExecEnv)
  BY <1>1 DEF lower
<1>3. PICK p \in params : s.operation \in ops(p)
  BY <1>2 DEF build_execution_spec
<1>4. backing.kind = "mcp"
  <2> SUFFICES ASSUME backing.kind # "mcp" PROVE FALSE
    OBVIOUS
  <2>1. s.operation \in operation_for(backing.handler, p, param_contract(w, action))
    BY <1>3
  <2> HIDE DEF backing, action
  <2> QED
    BY <1>1, <2>1 DEF operation_for
<1>5. s.operation = call_of(p)
  BY <1>3, <1>4
<1>6. i = p
  BY <1>1, <1>5
<1> QED
  BY <1>3, <1>6, ParamsAreEffective

\* What the gateway sends upstream is the call it decided on (mcp_gateway.rs: forward_target).
LEMMA TargetInput ==
  ASSUME NEW call, NEW verdict, NEW target \in Target(call, verdict)
  PROVE  members(target.input)
           = members(effective_call(world, verdict.action, call.arguments).arguments)
<1> DEFINE action == verdict.action
           specs == lower(world, GatewayRequest(call), verdict, ExecEnv)
<1>1. target \in forward_target(world, call.tool, action, call.arguments, specs)
  BY DEF Target
<1>2. GatewayRequest(call).arguments = call.arguments
  BY DEF GatewayRequest
<1> HIDE DEF specs
<1>3. CASE ~scoped(world, action) /\ target.input = call.arguments
  BY <1>3 DEF effective_call
<1>4. ASSUME NEW tools, target.input \in lowered_input(specs, tools)
      PROVE  members(target.input) = members(effective_call(world, action, call.arguments).arguments)
  BY <1>2, <1>4, LoweredInput DEF specs
<1>5. \/ ~scoped(world, action) /\ target.input = call.arguments
      \/ \E tools : target.input \in lowered_input(specs, tools)
  BY <1>1 DEF forward_target
<1> QED
  BY <1>3, <1>4, <1>5

-----------------------------------------------------------------------------
(* What the hosts were given, and what they run then: the gateway.         *)

\* What a remote tool says taints the session before it is heard; a call that is sent
\* after it was heard is under the floor, and has no contract.
GatewayHeard ==
  /\ heard => session_taint
  /\ \A r \in sent : /\ remote_backed(world, r.action) => session_taint
                     /\ heard => FloorHolds(r, Nobody)
                     /\ Contract(r) = {}

LEMMA GatewayPasses ==
  ASSUME WorldKnown, ManifestsTighten, NEW call, NEW claimed,
         govern(call, claimed).decision = "Allow",
         NEW target \in Target(call, govern(call, claimed))
  PROVE  LET verdict == govern(call, claimed)
             r == Running(verdict.action, call.arguments, target.input, claimed)
         IN  /\ Contract(r) = {}
             /\ session_taint => FloorHolds(r, Nobody)
             /\ remote_backed(world, r.action) => verdict.taint = "Tainted"
<1> DEFINE req == GatewayRequest(call)
           verdict == govern(call, claimed)
           action == verdict.action
           tc == Known(world, req)
           r == Running(action, call.arguments, target.input, claimed)
<1>1. verdict = gate(world, req, claimed)
  BY DEF govern
<1>2. r.action = action /\ r.args = members(target.input)
  BY DEF Running
<1>3. /\ req.flow = {} /\ req.arguments = call.arguments
      /\ session_taint => req.taint = {"tainted"}
  BY DEF GatewayRequest
<1>4. tc.flow = {} /\ tc.arg_taint = Empty /\ tc.taint = Inbound(world, req)
  BY <1>3 DEF Known, taint_context, from_taint
<1>5. session_taint => tc.taint = "Tainted"
  BY <1>3, <1>4, InboundTainted
<1>6. r.args = members(effective_call(world, action, call.arguments).arguments)
  BY <1>2, TargetInput
<1> HIDE DEF req, verdict, tc, r
<1>7. OnlyTightens(world) /\ gate(world, req, claimed).decision = "Allow"
  BY <1>1, WorldTightens DEF verdict
<1>8. check_flow(world, action, tc) = None /\ ~taint_floor(world, action, tc)
  BY <1>1, <1>7, GatePasses DEF tc
<1>9. Contract(r) = {}
  BY <1>2, <1>4, <1>8, NoLabelsNoContract DEF Contract
<1>10. ASSUME session_taint PROVE FloorHolds(r, Nobody)
  <2>1. FloorJudged(r, tc.arg_taint, call.arguments)
    BY <1>2, <1>5, <1>6, <1>8, <1>10, FloorOfRun
  <2>2. DOMAIN tc.arg_taint = {}
    BY <1>4 DEF Empty
  <2> QED
    BY <2>1, <2>2 DEF FloorHolds, FloorJudged
<1>11. remote_backed(world, r.action) => verdict.taint = "Tainted"
  BY <1>1, <1>2, <1>7, AllowTaints
<1> QED
  BY <1>9, <1>10, <1>11 DEF verdict, r

LEMMA GatewayHears ==
  ASSUME WorldKnown, ManifestsTighten, GatewayHeard, GatewayNext, UNCHANGED world_vars
  PROVE  GatewayHeard'
<1>1. world' = world
  BY DEF world_vars
<1>2. \A r : /\ Contract(r)' = Contract(r) /\ FloorHolds(r, Nobody)' = FloorHolds(r, Nobody)
             /\ remote_backed(world, r.action)' = remote_backed(world, r.action)
  BY <1>1 DEF Contract, FloorHolds, Nobody, External, AuthorityArgs, LiteralOf
<1>3. ASSUME sent' \subseteq sent, heard' = heard, session_taint' = session_taint
      PROVE  GatewayHeard'
  BY <1>2, <1>3 DEF GatewayHeard
<1>4. ASSUME NEW call, CallGoverned(call, govern(call, FALSE))
      PROVE  GatewayHeard'
  <2>1. PICK claimed \in BOOLEAN :
          CallDecided(call, claimed, IF claimed THEN govern(call, TRUE) ELSE govern(call, FALSE))
    BY <1>4 DEF CallGoverned, claims
  <2> DEFINE verdict == govern(call, claimed)
  <2>2. CallDecided(call, claimed, verdict)
    BY <2>1
  <2>3. CASE CallForwarded(call, claimed, verdict)
    <3>1. PICK target \in Target(call, verdict) :
            sent' = {Running(verdict.action, call.arguments, target.input, claimed)}
      BY <2>3 DEF CallForwarded
    <3>2. /\ verdict.decision = "Allow" /\ heard' = heard
          /\ session_taint' = (session_taint \/ verdict.taint = "Tainted")
      BY <2>3 DEF CallForwarded
    <3> DEFINE r == Running(verdict.action, call.arguments, target.input, claimed)
    <3>3. /\ Contract(r) = {}
          /\ session_taint => FloorHolds(r, Nobody)
          /\ remote_backed(world, r.action) => verdict.taint = "Tainted"
      BY <3>2, GatewayPasses
    <3> HIDE DEF r, verdict
    <3>4. sent' = {r}
      BY <3>1 DEF r
    <3> QED
      BY <1>2, <3>2, <3>3, <3>4 DEF GatewayHeard
  <2>4. CASE CallBlocked(verdict) \/ CallNotForwardable(call, verdict)
    <3>1. sent' = sent /\ heard' = heard /\ session_taint' = session_taint
      BY <2>4 DEF CallBlocked, CallNotForwardable
    <3> QED
      BY <1>3, <3>1
  <2> QED
    BY <2>2, <2>3, <2>4 DEF CallDecided
<1>5. CASE ToolsList
  BY <1>3, <1>5 DEF ToolsList
<1>6. CASE CallAnswered
  <2>1. PICK r \in sent : /\ heard' = (heard \/ remote_backed(world, r.action))
                          /\ sent' = {} /\ session_taint' = session_taint
    BY <1>6 DEF CallAnswered
  <2>2. heard' => heard \/ remote_backed(world, r.action)
    BY <2>1
  <2>3. heard' => session_taint'
    BY <2>1, <2>2 DEF GatewayHeard
  <2> QED
    BY <2>1, <2>3 DEF GatewayHeard
<1>7. CASE CallDemandsInput \/ CallBroken \/ UpstreamCloses
  BY <1>3, <1>7 DEF CallDemandsInput, CallBroken, UpstreamCloses
<1> QED
  BY <1>4, <1>5, <1>6, <1>7 DEF GatewayNext

-----------------------------------------------------------------------------
(* The agent loop.                                                         *)

\* A result taints the loop for good, and what it runs after one is under the floor:
\* only what the user's own words prove is trusted.
AgentHeard ==
  /\ payloads # {} => agent_taint = "Tainted"
  /\ \A d \in doing : /\ payloads # {} => FloorHolds(d.r, SaidByUser)
                      /\ Contract(d.r) = {}

\* A value is marked clean only when all of it is in the user's words and none of it in
\* a result (arg_provenance.rs: provenance_of).
LEMMA CleanIsSaid ==
  ASSUME NEW args, NEW n \in DOMAIN arg_taint(args, payloads, UserRequest),
         arg_taint(args, payloads, UserRequest)[n] # "Tainted"
  PROVE  SaidByUser(members(args)[n])
<1> DEFINE v == members(args)[n]
           known == provenance_of(v, payloads, UserRequest)
<1>1. known # {} /\ arg_taint(args, payloads, UserRequest)[n] = (CHOOSE t \in known : TRUE)
  BY DEF arg_taint
<1>2. known = {} \/ known = {"Tainted"} \/ known = {"Clean"}
  BY DEF provenance_of
<1>3. known # {"Tainted"}
  BY <1>1
<1>4. known = {"Clean"}
  BY <1>1, <1>2, <1>3
<1> HIDE DEF v
<1>5. /\ string_leaves(v) # {}
      /\ ~\E s \in string_leaves(v) : corpus_contains(payloads, s)
      /\ \A s \in string_leaves(v) : corpus_contains(UserRequest, s)
  BY <1>4 DEF provenance_of
<1> QED
  BY <1>5 DEF SaidByUser, v

LEMMA AgentPasses ==
  ASSUME WorldKnown, ManifestsTighten, NEW call, NEW approved, NEW d \in Lowered(call, approved),
         Decided(call, approved).decision = "Allow",
         payloads # {} => agent_taint = "Tainted"
  PROVE  /\ payloads # {} => FloorHolds(d.r, SaidByUser)
         /\ Contract(d.r) = {}
<1> DEFINE action == Classified(call)
           context == EvalContext(call, approved)
           marks == arg_taint(call.arguments, payloads, UserRequest)
           r == d.r
<1>1. PICK p \in effective_params(world, action, call.arguments, ExecEnv) :
        r = Running(action, call.arguments, p, approved)
  BY DEF Lowered
<1>2. r.action = action /\ r.args = members(p)
  BY <1>1 DEF Running
<1>3. r.args = members(effective_call(world, action, call.arguments).arguments)
  BY <1>2, ParamsAreEffective
<1>4. /\ context.taint.taint = agent_taint /\ context.taint.arg_taint = marks
      /\ context.taint.flow = {}
  BY DEF EvalContext, with_arg_taint, from_taint
<1>5. decide(world, action, call.arguments, "Trusted", context).decision = "Allow"
  BY DEF Decided
<1> HIDE DEF context, action, marks, r
<1>6. check_flow(world, action, context.taint) = None /\ ~taint_floor(world, action, context.taint)
  BY <1>5, WorldTightens, AllowMeansAll
<1>7. Contract(r) = {}
  BY <1>2, <1>4, <1>6, NoLabelsNoContract DEF Contract
<1>8. ASSUME payloads # {} PROVE FloorHolds(r, SaidByUser)
  <2>1. FloorJudged(r, marks, call.arguments)
    <3> DEFINE tc == context.taint
    <3>1. tc.taint = "Tainted" /\ tc.arg_taint = marks
      BY <1>4, <1>8
    <3>2. ~taint_floor(world, r.action, tc)
      BY <1>2, <1>6
    <3>3. r.args = members(effective_call(world, r.action, call.arguments).arguments)
      BY <1>2, <1>3
    <3> HIDE DEF tc
    <3>4. FloorJudged(r, tc.arg_taint, call.arguments)
      BY <3>1, <3>2, <3>3, FloorOfRun
    <3> QED
      BY <3>1, <3>4
  <2>2. \A n \in DOMAIN marks : marks[n] # "Tainted" => SaidByUser(members(call.arguments)[n])
    BY CleanIsSaid DEF marks
  <2> QED
    BY <2>1, <2>2 DEF FloorHolds, FloorJudged
<1> QED
  BY <1>7, <1>8 DEF r

LEMMA AgentHears ==
  ASSUME WorldKnown, ManifestsTighten, AgentHeard, AgentNext, UNCHANGED world_vars
  PROVE  AgentHeard'
<1>1. world' = world
  BY DEF world_vars
<1>2. ASSUME payloads' = payloads
      PROVE  \A r : Contract(r)' = Contract(r) /\ FloorHolds(r, SaidByUser)' = FloorHolds(r, SaidByUser)
  BY <1>1, <1>2 DEF Contract, FloorHolds, SaidByUser, External, AuthorityArgs, LiteralOf
<1>3. ASSUME doing' \subseteq doing, payloads' = payloads, agent_taint' = agent_taint
      PROVE  AgentHeard'
  BY <1>2, <1>3 DEF AgentHeard
<1>4. ASSUME NEW call, NEW approved, NEW d \in Lowered(call, approved), doing' \subseteq {d},
             Decided(call, approved).decision = "Allow",
             payloads' = payloads, agent_taint' = agent_taint
      PROVE  AgentHeard'
  <2>1. /\ payloads # {} => FloorHolds(d.r, SaidByUser)
        /\ Contract(d.r) = {}
    BY <1>4, AgentPasses DEF AgentHeard
  <2> QED
    BY <1>2, <1>4, <2>1 DEF AgentHeard
<1>5. CASE UNCHANGED loop_vars \/ TurnMalformed
  BY <1>3, <1>5 DEF loop_vars, TurnMalformed, session
<1>6. ASSUME NEW call, CallProposed(call, Decided(call, FALSE).decision)
      PROVE  AgentHeard'
  <2> DEFINE decision == Decided(call, FALSE).decision
  <2>1. CASE CallRefused(call, decision) \/ CallAsks(call, decision)
    BY <1>3, <2>1 DEF CallRefused, CallAsks, session
  <2>2. CASE CallAllowed(call, decision)
    <3>1. PICK d \in Lowered(call, FALSE) : doing' = {d}
      BY <2>2 DEF CallAllowed
    <3>2. payloads' = payloads /\ agent_taint' = agent_taint /\ decision = "Allow"
      BY <2>2 DEF CallAllowed, session
    <3> QED
      BY <1>4, <3>1, <3>2
  <2> QED
    BY <1>6, <2>1, <2>2 DEF CallProposed
<1>7. CASE Declined \/ ClaimFails
  BY <1>3, <1>7 DEF Declined, ClaimFails, session
<1>8. CASE Claimed
  <2>1. PICK call \in question :
          /\ doing' = IF Decided(call, TRUE).decision = "Allow" THEN Lowered(call, TRUE) ELSE {}
          /\ payloads' = payloads /\ agent_taint' = agent_taint
    BY <1>8 DEF Claimed, session
  <2>2. ASSUME NEW d \in doing'
        PROVE  /\ payloads # {} => FloorHolds(d.r, SaidByUser)
               /\ Contract(d.r) = {}
    <3>1. d \in Lowered(call, TRUE) /\ Decided(call, TRUE).decision = "Allow"
      BY <2>1
    <3> QED
      BY <3>1, AgentPasses DEF AgentHeard
  <2> QED
    BY <1>2, <2>1, <2>2 DEF AgentHeard
<1>9. CASE Returned
  <2>1. agent_taint' = "Tainted" /\ doing' = {}
    BY <1>9 DEF Returned, join
  <2> QED
    BY <2>1 DEF AgentHeard
<1>10. CASE Errored
  <2>1. doing' = {} /\ payloads' = payloads /\ agent_taint' = agent_taint
    BY <1>10 DEF Errored
  <2> QED
    BY <1>3, <2>1
<1> QED
  BY <1>5, <1>6, <1>7, <1>8, <1>9, <1>10 DEF AgentNext

-----------------------------------------------------------------------------
(* An agent with hooks.                                                    *)

\* The gate is told the file a call reaches; or it is told none, and the action of the
\* call is one that the gate lets act on a file only if it is told which.
NamesItsFile(req, path) ==
  \/ path \subseteq req.path
  \/ req.path = {} /\ requires_resolved_path(world,
                        classify_call(world, req.tool, req.arguments, req.path))

\* Every file that taints what is read of it is one that the gate is told of.
HooksNameSources ==
  \A call \in HookCalls[host][manifest] :
    \/ NamesItsFile(hook_request(call), call.path)
    \/ \A p \in call.path : ~path_taints(world, p)

\* A scoped capability is not the host's own tool, and what the hook judged of it is
\* not what the host would run.
HooksOwnTools ==
  \A call \in HookCalls[host][manifest] :
    ~scoped(world, classify_call(world, hook_request(call).tool, hook_request(call).arguments,
                                 hook_request(call).path))

HookFits(r) ==
  /\ Foreign(r) => tainted
  /\ ingested => FloorHolds(r, Nobody)
  /\ Contract(r) = {}

\* What the host will run once it was told so, as its tool gets it.
RunsAs(a, r) == r.action = a.action /\ r.args = a.args /\ r.path = a.call.path

HookHeard ==
  /\ ingested => tainted
  /\ told = {} \/ using = {}
  /\ \A a \in told : a.decision = "Allow" /\ a.answer # "deny" => \A r : RunsAs(a, r) => HookFits(r)
  /\ \A r \in using : r.decision = "Allow" => HookFits(r)

\* The file a call reaches has a tainting root above it only if its answer is tainted.
LEMMA NamedFilesTaint ==
  ASSUME WorldKnown, NEW req, NEW granted, NEW path, OnlyTightens(world),
         gate(world, req, granted).decision = "Allow",
         NamesItsFile(req, path), NEW p \in path, path_taints(world, p)
  PROVE  gate(world, req, granted).taint = "Tainted"
<1> DEFINE action == classify_call(world, req.tool, req.arguments, req.path)
<1>1. CASE path \subseteq req.path
  BY <1>1, AllowTaints
<1>2. CASE req.path = {} /\ requires_resolved_path(world, action)
  <2>1. world.roots = {}
    BY <1>2, GatePasses
  <2> QED
    BY <2>1 DEF path_taints
<1> QED
  BY <1>1, <1>2 DEF NamesItsFile

LEMMA HookPasses ==
  ASSUME WorldKnown, ManifestsTighten, HooksNameSources, HooksOwnTools,
         NEW call \in HookCalls[host][manifest],
         gate(world, hook_request(call), FALSE).decision = "Allow", ingested => tainted,
         NEW r, r.action = gate(world, hook_request(call), FALSE).action,
         r.args = hook_args(call), r.path = call.path
  PROVE  /\ Foreign(r) => gate(world, hook_request(call), FALSE).taint = "Tainted"
         /\ ingested => FloorHolds(r, Nobody)
         /\ Contract(r) = {}
<1> DEFINE req == hook_request(call)
           res == gate(world, req, FALSE)
           action == classify_call(world, req.tool, req.arguments, req.path)
           tc == Known(world, req)
<1>1. /\ req.flow = {} /\ req.arguments = Obj(hook_args(call))
      /\ tainted => req.taint = {"tainted"}
  BY DEF hook_request
<1>2. /\ NamesItsFile(req, r.path) \/ \A p \in r.path : ~path_taints(world, p)
      /\ ~scoped(world, action)
  BY DEF HooksNameSources, HooksOwnTools
<1>3. tc.flow = {} /\ tc.arg_taint = Empty /\ tc.taint = Inbound(world, req)
  BY <1>1 DEF Known, taint_context, from_taint
<1>4. tainted => tc.taint = "Tainted"
  BY <1>1, <1>3, InboundTainted
<1> HIDE DEF req, tc, action
<1>5. OnlyTightens(world) /\ res.decision = "Allow"
  BY WorldTightens DEF req
<1>6. r.action = action /\ check_flow(world, action, tc) = None /\ ~taint_floor(world, action, tc)
  <2>1. /\ check_flow(world, action, tc) = None /\ ~taint_floor(world, action, tc)
        /\ gate(world, req, FALSE).action = action
    BY <1>5, GatePasses DEF tc, action
  <2> QED
    BY <2>1 DEF req
<1>7. Contract(r) = {}
  BY <1>3, <1>6, NoLabelsNoContract DEF Contract
<1>8. r.args = members(effective_call(world, r.action, req.arguments).arguments)
  <2>1. effective_call(world, r.action, req.arguments).arguments = Obj(r.args)
    BY <1>1, <1>2, <1>6 DEF effective_call
  <2> DEFINE f == r.args
             e == effective_call(world, r.action, req.arguments).arguments
  <2>2. e = Obj(f)
    BY <2>1
  <2> HIDE DEF e, f
  <2>3. members(e) = f
    BY <2>2 DEF members, is, Obj
  <2> QED
    BY <2>3 DEF e, f
<1>9. ASSUME ingested PROVE FloorHolds(r, Nobody)
  <2>1. FloorJudged(r, tc.arg_taint, req.arguments)
    BY <1>4, <1>6, <1>8, <1>9, FloorOfRun
  <2>2. DOMAIN tc.arg_taint = {}
    BY <1>3 DEF Empty
  <2> QED
    BY <2>1, <2>2 DEF FloorHolds, FloorJudged
<1>10. ASSUME Foreign(r) PROVE res.taint = "Tainted"
  <2>1. CASE \E p \in r.path : path_taints(world, p)
    BY <1>2, <1>5, <2>1, NamedFilesTaint
  <2>2. CASE remote_backed(world, r.action)
             \/ side_effect_taint(world.side_effects[r.action], world.action_types[r.action]) = "Tainted"
    <3>1. r.action = res.action
      BY DEF req
    <3> QED
      BY <1>5, <2>2, <3>1, AllowTaints
  <2> QED
    BY <1>10, <2>1, <2>2 DEF Foreign
<1> QED
  BY <1>7, <1>9, <1>10 DEF req

LEMMA HookHears ==
  ASSUME WorldKnown, ManifestsTighten, HooksNameSources, HooksOwnTools, HookHeard, HookNext,
         UNCHANGED world_vars
  PROVE  HookHeard'
<1>1. world' = world
  BY DEF world_vars
<1>2. \A r : /\ Foreign(r)' = Foreign(r) /\ Contract(r)' = Contract(r)
             /\ FloorHolds(r, Nobody)' = FloorHolds(r, Nobody)
  BY <1>1 DEF Foreign, Contract, FloorHolds, Nobody, External, AuthorityArgs, LiteralOf
<1>3. ASSUME NEW call \in HookCalls[host][manifest],
             HookDecides(call, gate(world, hook_request(call), FALSE))
      PROVE  HookHeard'
  <2> DEFINE res == gate(world, hook_request(call), FALSE)
  <2>1. told = {} /\ using = {}
    BY <1>3 DEF HookDecides
  <2>2. ASSUME ingested' = ingested, using' = {}, ingested => tainted', NEW a, told' = {a},
               a.answer = "deny"
        PROVE  HookHeard'
    BY <2>2 DEF HookHeard
  <2>3. CASE RefusedUncounted(call, res)
    BY <2>1, <2>2, <2>3 DEF RefusedUncounted, Answered, HookHeard
  <2>4. CASE RefusedUntracked(call, res)
    BY <2>1, <2>2, <2>4 DEF RefusedUntracked, Answered, HookHeard
  <2>5. CASE Judged(call, res)
    <3> DEFINE a == [call |-> call, args |-> hook_args(call), action |-> res.action,
                     decision |-> res.decision, answer |-> hook_answer(res.decision)]
    <3>1. /\ told' = {a} /\ ingested' = ingested /\ using' = {}
          /\ tainted' = (tainted \/ res.taint = "Tainted")
      BY <2>1, <2>5 DEF Judged, Answered
    <3>2. ASSUME a.decision = "Allow", NEW r, RunsAs(a, r)
          PROVE  /\ Foreign(r) => res.taint = "Tainted"
                 /\ ingested => FloorHolds(r, Nobody)
                 /\ Contract(r) = {}
      <4>1. /\ res.decision = "Allow" /\ r.action = res.action
            /\ r.args = hook_args(call) /\ r.path = call.path
        BY <3>2 DEF RunsAs
      <4>2. ingested => tainted
        BY DEF HookHeard
      <4> QED
        BY <4>1, <4>2, HookPasses
    <3> HIDE DEF a, res
    <3>3. ASSUME a.decision = "Allow", NEW r, RunsAs(a, r)
          PROVE  HookFits(r)'
      BY <1>2, <3>1, <3>2, <3>3 DEF HookFits
    <3> QED
      BY <3>1, <3>3 DEF HookHeard, RunsAs
  <2> QED
    BY <1>3, <2>3, <2>4, <2>5 DEF HookDecides
<1>4. CASE HostRuns
  <2>1. PICK a \in told, yes \in BOOLEAN :
          /\ a.answer # "deny"
          /\ using' = {[action |-> a.action, asked |-> a.args, args |-> a.args, consent |-> yes,
                        path |-> a.call.path, decision |-> a.decision]}
    BY <1>4 DEF HostRuns, Consents
  <2>2. told' = {} /\ tainted' = tainted /\ ingested' = ingested
    BY <1>4 DEF HostRuns
  <2> DEFINE r == [action |-> a.action, asked |-> a.args, args |-> a.args, consent |-> yes,
                   path |-> a.call.path, decision |-> a.decision]
  <2>3. RunsAs(a, r) /\ r.decision = a.decision
    BY DEF RunsAs
  <2> HIDE DEF r
  <2>4. using' = {r}
    BY <2>1 DEF r
  <2>5. r.decision = "Allow" => HookFits(r)
    BY <2>1, <2>3 DEF HookHeard
  <2>6. r.decision = "Allow" => HookFits(r)'
    BY <1>2, <2>2, <2>5 DEF HookFits
  <2> QED
    BY <2>2, <2>4, <2>6 DEF HookHeard
<1>5. ASSUME told' \subseteq told, using' \subseteq using, ingested' = ingested, tainted' = tainted
      PROVE  HookHeard'
  <2>1. \A r : HookFits(r)' = HookFits(r)
    BY <1>2, <1>5 DEF HookFits
  <2> QED
    BY <1>5, <2>1 DEF HookHeard, RunsAs
<1>6. CASE HostSkips
  BY <1>5, <1>6 DEF HostSkips
<1>7. CASE ToolReturns
  <2>1. PICK r \in using : ingested' = (ingested \/ (r.decision = "Allow" /\ Foreign(r)))
    BY <1>7 DEF ToolReturns
  <2>2. using' = {} /\ told' = told /\ tainted' = tainted
    BY <1>7 DEF ToolReturns
  <2>3. told = {}
    BY <2>1 DEF HookHeard
  <2>4. ingested' => tainted
    <3>1. ingested' => ingested \/ (r.decision = "Allow" /\ Foreign(r))
      BY <2>1
    <3> QED
      BY <2>1, <3>1 DEF HookHeard, HookFits
  <2> QED
    BY <2>2, <2>3, <2>4 DEF HookHeard
<1> QED
  BY <1>3, <1>4, <1>6, <1>7 DEF HookNext

-----------------------------------------------------------------------------
(* The host of the gate ABI: what it knows of its values.                  *)

\* A label is never better than where its value came from, nothing that was brought in
\* is missing from the ambient, and a session that was given what an untrusted source
\* said carries it, in its taint or in its ambient.
WireBooks ==
  /\ DOMAIN labels = DOMAIN origin
  /\ \A v \in DOMAIN origin : origin[v] \subseteq labels[v] /\ origin[v] \subseteq brought
  /\ "flow" \notin forgets => brought \subseteq ambient
  /\ "Untrusted" \in brought =>
       wire_taint = "tainted" \/ ("flow" \notin forgets /\ "Untrusted" \in ambient)

\* The labels a call is sent with.
LabelledArgs(call) ==
  LET args == members(call.arguments)
  IN  {a \in DOMAIN args : is(args[a], "str") /\ args[a] \in DOMAIN labels}
SentLabels(call) ==
  [ambient |-> ambient, args |-> [a \in LabelledArgs(call) |-> labels[members(call.arguments)[a]]]]

\* What the kernel knows of a call of this host.
KnownOf(call, tc) ==
  /\ "flow" \in forgets => tc.flow = {} /\ DOMAIN tc.arg_taint = {}
  /\ "flow" \notin forgets =>
       /\ tc.flow = {SentLabels(call)}
       /\ DOMAIN tc.arg_taint = LabelledArgs(call)
       /\ \A n \in LabelledArgs(call) : tc.arg_taint[n] = derived(SentLabels(call).args[n])

LEMMA WireKnown ==
  ASSUME NEW call
  PROVE  /\ KnownOf(call, Known(world, WireRequest(call)))
         /\ Inbound(world, WireRequest(call)) = "Tainted" =>
              Known(world, WireRequest(call)).taint = "Tainted"
         /\ "flow" \notin forgets /\ "Untrusted" \in ambient =>
              Known(world, WireRequest(call)).taint = "Tainted"
<1> DEFINE req == WireRequest(call)
           inbound == Inbound(world, req)
           tc == Known(world, req)
           F == SentLabels(call)
<1>1. "flow" \in forgets => req.flow = {}
  BY DEF WireRequest, Sends
<1>2. "flow" \notin forgets => req.flow = {[ambient |-> {ambient}, args |-> F.args]}
  BY DEF WireRequest, Sends, SentLabels, LabelledArgs
<1>3. F.ambient = ambient /\ DOMAIN F.args = LabelledArgs(call)
  BY DEF SentLabels
<1>4. tc = taint_context(req, inbound)
  BY DEF Known
<1>5. F = [ambient |-> ambient, args |-> F.args]
  BY DEF SentLabels
<1> HIDE DEF req, inbound, tc, F
<1>6. CASE "flow" \in forgets
  <2>1. tc = [taint |-> inbound, arg_taint |-> Empty, flow |-> {}]
    BY <1>1, <1>4, <1>6 DEF taint_context, from_taint
  <2> QED
    BY <1>6, <2>1 DEF KnownOf, Empty, req, inbound, tc
<1>7. CASE "flow" \notin forgets
  <2> DEFINE g == [ambient |-> {ambient}, args |-> F.args]
  <2>1. parse_flow({g}) = {F}
    <3>1. (CHOOSE l \in {ambient} : TRUE) = ambient
      OBVIOUS
    <3> QED
      BY <1>5, <3>1 DEF parse_flow
  <2> HIDE DEF g
  <2>2. req.flow = {g}
    BY <1>2, <1>7 DEF g
  <2>3. (CHOOSE f \in parse_flow(req.flow) : TRUE) = F
    BY <2>1, <2>2
  <2>4. tc = with_flow(from_taint(inbound), F)
    BY <1>4, <2>2, <2>3 DEF taint_context
  <2> DEFINE ctx == from_taint(inbound)
  <2>5. ctx.arg_taint = Empty /\ ctx.taint = inbound /\ DOMAIN Empty = {}
    BY DEF from_taint, Empty
  <2> HIDE DEF ctx
  <2>6. tc = with_flow(ctx, F)
    BY <2>4 DEF ctx
  <2>7. /\ tc.taint = join(inbound, derived(ambient)) /\ tc.flow = {F}
        /\ DOMAIN tc.arg_taint = LabelledArgs(call)
    BY <1>3, <2>5, <2>6 DEF with_flow
  <2>8. \A n \in LabelledArgs(call) : tc.arg_taint[n] = derived(F.args[n])
    BY <1>3, <2>5, <2>6 DEF with_flow
  <2>9. KnownOf(call, tc)
    BY <1>7, <2>7, <2>8 DEF KnownOf, F
  <2>10. (inbound = "Tainted" \/ "Untrusted" \in ambient) => tc.taint = "Tainted"
    BY <2>7 DEF join, derived
  <2> QED
    BY <2>9, <2>10 DEF req, inbound, tc
<1> QED
  BY <1>6, <1>7

\* What is known of an argument that a call runs with is at least what its value is.
LEMMA BoundCovers ==
  ASSUME WorldKnown, WireBooks, "flow" \notin forgets, NEW call, NEW action,
         NEW a \in DOMAIN members(effective_call(world, action, call.arguments).arguments),
         ~is_literal(world, action, a)
  PROVE  Marks(members(effective_call(world, action, call.arguments).arguments)[a])
           \subseteq bound(SentLabels(call).args, ambient, binding(world, action, a))
<1> DEFINE gets == members(effective_call(world, action, call.arguments).arguments)
           actual == members(call.arguments)
           known == SentLabels(call).args
           v == gets[a]
<1>1. \A n : binding(world, action, a) = {n} => n \in DOMAIN actual /\ v = actual[n]
  BY EffectiveArgs
<1>2. Marks(v) \subseteq ambient
  BY DEF WireBooks, Marks
<1>3. binding(world, action, a) = {} \/ \E n : binding(world, action, a) = {n}
  BY SourcesKnown, BindingNamesOne
<1>4. /\ DOMAIN known = LabelledArgs(call)
      /\ \A n \in LabelledArgs(call) : known[n] = labels[actual[n]]
  BY DEF SentLabels
<1>5. \A n \in LabelledArgs(call) : actual[n] \in DOMAIN labels
  BY DEF LabelledArgs
<1> HIDE DEF gets, known, v, actual
<1>6. CASE binding(world, action, a) \cap DOMAIN known = {}
  <2>1. bound(known, ambient, binding(world, action, a)) = ambient
    BY <1>6 DEF bound
  <2> QED
    BY <1>2, <2>1 DEF v, gets, known
<1>7. CASE binding(world, action, a) \cap DOMAIN known # {}
  <2>1. PICK n \in DOMAIN known : binding(world, action, a) = {n}
    BY <1>3, <1>7
  <2>2. bound(known, ambient, binding(world, action, a)) = known[n]
    BY <2>1 DEF bound
  <2>3. v = actual[n] /\ known[n] = labels[v] /\ v \in DOMAIN origin
    BY <1>1, <1>4, <1>5, <2>1 DEF WireBooks
  <2>4. Marks(v) \subseteq labels[v]
    BY <2>3 DEF Marks, WireBooks
  <2> QED
    BY <2>2, <2>3, <2>4 DEF v, gets, known
<1> QED
  BY <1>6, <1>7

\* What the kernel judged not tainted under its own label is trusted.
LEMMA FloorTrusted ==
  ASSUME WireBooks, NEW call, NEW r, NEW tc, KnownOf(call, tc),
         FloorJudged(r, tc.arg_taint, call.arguments)
  PROVE  FloorHolds(r, Trusts)
<1> DEFINE actual == members(call.arguments)
<1>1. ASSUME NEW n \in DOMAIN tc.arg_taint, tc.arg_taint[n] # "Tainted"
      PROVE  Trusts(actual[n])
  <2>1. n \in LabelledArgs(call) /\ tc.arg_taint[n] = derived(SentLabels(call).args[n])
    BY <1>1 DEF KnownOf
  <2>2. actual[n] \in DOMAIN labels /\ SentLabels(call).args[n] = labels[actual[n]]
    BY <2>1 DEF LabelledArgs, SentLabels
  <2>3. "Untrusted" \notin labels[actual[n]]
    BY <1>1, <2>1, <2>2 DEF derived
  <2> QED
    BY <2>2, <2>3 DEF WireBooks, Trusts
<1> QED
  BY <1>1 DEF FloorJudged, FloorHolds

\* The sinks of a contract refuse nothing that its arguments really carry.
SinksTakeMarks(r) ==
  \A c \in Contract(r) : \A i \in DOMAIN c.sinks :
    LET arg == c.sinks[i].arg
    IN  arg \in DOMAIN r.args /\ ~is_literal(world, r.action, arg) =>
          violated_axis(c.sinks[i], Marks(r.args[arg])) = None

\* What the kernel was told at every sink is what the sink takes.
SinksTold(w, action, contract, flow) ==
  \A i \in DOMAIN contract.sinks :
    \/ is_literal(w, action, contract.sinks[i].arg)
    \/ violated_axis(contract.sinks[i],
         bound(flow.args, flow.ambient, binding(w, action, contract.sinks[i].arg))) = None

LEMMA SinksAreTold ==
  ASSUME NEW w, NEW action, NEW ctx, NEW contract, NEW flow, NEW n \in Nat,
         w.descriptors[action].flow_contract = {contract}, DOMAIN contract.sinks = 1 .. n,
         check_flow(w, action, ctx) = None, ctx.flow = {flow}
  PROVE  SinksTold(w, action, contract, flow)
<1>1. ctx.flow = {flow} => SinksTold(w, action, contract, flow)
  BY SinksTake DEF SinksTold
<1> QED
  BY <1>1

LEMMA SinksOfRun ==
  ASSUME WorldKnown, WireBooks, "flow" \notin forgets, NEW call, NEW r, r.action \in world.ontology,
         r.args = members(effective_call(world, r.action, call.arguments).arguments),
         NEW tc, tc.flow = {SentLabels(call)}, check_flow(world, r.action, tc) = None
  PROVE  SinksTakeMarks(r)
<1> SUFFICES ASSUME NEW c \in Contract(r), NEW i \in DOMAIN c.sinks, NEW arg, arg = c.sinks[i].arg,
                    arg \in DOMAIN r.args, ~is_literal(world, r.action, arg)
             PROVE  violated_axis(c.sinks[i], Marks(r.args[arg])) = None
  BY DEF SinksTakeMarks
<1> DEFINE F == SentLabels(call)
           descriptor == world.descriptors[r.action]
           label == bound(F.args, F.ambient, binding(world, r.action, arg))
<1>1. PICK n \in Nat : DOMAIN c.sinks = 1 .. n
  BY ContractKnown DEF Contract
<1>2. descriptor.flow_contract = {c}
  BY ContractKnown DEF Contract
<1>3. F.ambient = ambient
  BY DEF SentLabels
<1>4. Marks(r.args[arg]) \subseteq bound(F.args, ambient, binding(world, r.action, arg))
  BY BoundCovers
<1>5. tc.flow = {F}
  OBVIOUS
<1> HIDE DEF F
<1>6. SinksTold(world, r.action, c, F)
  BY <1>1, <1>2, <1>5, SinksAreTold
<1>7. violated_axis(c.sinks[i], label) = None
  BY <1>6 DEF SinksTold
<1>8. Marks(r.args[arg]) \subseteq label
  BY <1>3, <1>4
<1> HIDE DEF label
<1> QED
  BY <1>7, <1>8 DEF violated_axis, None

-----------------------------------------------------------------------------
(* The host of the gate ABI: what its calls return.                        *)

\* The marks that a contract gives a result, besides where the result comes from.
DeclaredMarks(r) ==
  UNION {(UNION c.output) \cup UNION {Marks(r.args[a]) : a \in Inherited(r, c) \cap DOMAIN r.args} :
           c \in Contract(r)}

\* The kernel's floor of a result is there when the contract says something of it, and
\* holds every mark that it then has.
LEMMA FloorOfResult ==
  ASSUME WorldKnown, WireBooks, "flow" \notin forgets, NEW call, NEW r, r.action \in world.ontology,
         r.args = members(effective_call(world, r.action, call.arguments).arguments),
         NEW tc, tc.flow = {SentLabels(call)}
  PROVE  /\ Declared(r) <=> result_label_floor(world, r.action, tc) # {}
         /\ DeclaredMarks(r) \subseteq UNION result_label_floor(world, r.action, tc)
<1> DEFINE F == SentLabels(call)
           floor == result_label_floor(world, r.action, tc)
           label(a) == bound(F.args, F.ambient, binding(world, r.action, a))
           carries(c) == {label(a) : a \in {b \in c.inherits : ~is_literal(world, r.action, b)}}
           of(c) == IF c.output \cup carries(c) = {} THEN {} ELSE {UNION (c.output \cup carries(c))}
<1>1. F.ambient = ambient
  BY DEF SentLabels
<1>2. floor = UNION {UNION {
          LET inherited == {bound(f.args, f.ambient, binding(world, r.action, arg)) :
                              arg \in {a \in c.inherits : ~is_literal(world, r.action, a)}}
          IN  IF c.output \cup inherited = {} THEN {} ELSE {UNION (c.output \cup inherited)}
          : f \in tc.flow} : c \in Contract(r)}
  BY DEF result_label_floor, Contract
<1>3. floor = UNION {of(c) : c \in Contract(r)}
  BY <1>2
<1>4. ASSUME NEW a \in DOMAIN r.args, ~is_literal(world, r.action, a)
      PROVE  Marks(r.args[a]) \subseteq label(a)
  BY <1>1, <1>4, BoundCovers
<1>5. \A c : carries(c) = {label(a) : a \in Inherited(r, c)}
  BY DEF Inherited
<1> HIDE DEF floor, label, carries, of
<1>6. CASE Contract(r) = {}
  <2>1. floor = {} /\ DeclaredMarks(r) = {} /\ ~Declared(r)
    BY <1>3, <1>6 DEF DeclaredMarks, Declared
  <2> QED
    BY <2>1 DEF floor
<1>7. CASE Contract(r) # {}
  <2>1. PICK c : Contract(r) = {c}
    BY <1>7, ContractKnown DEF Contract
  <2>2. floor = of(c)
    BY <1>3, <2>1
  <2>3. Declared(r) <=> c.output # {} \/ Inherited(r, c) # {}
    BY <2>1 DEF Declared
  <2>4. DeclaredMarks(r) =
          (UNION c.output) \cup UNION {Marks(r.args[a]) : a \in Inherited(r, c) \cap DOMAIN r.args}
    BY <2>1 DEF DeclaredMarks
  <2>5. carries(c) # {} <=> Inherited(r, c) # {}
    BY <1>5
  <2>6. Declared(r) <=> floor # {}
    BY <2>2, <2>3, <2>5 DEF of
  <2>7. ASSUME NEW m \in DeclaredMarks(r)
        PROVE  m \in UNION floor
    <3>1. CASE m \in UNION c.output
      BY <2>2, <3>1 DEF of
    <3>2. ASSUME NEW a \in Inherited(r, c) \cap DOMAIN r.args, m \in Marks(r.args[a])
          PROVE  m \in UNION floor
      <4>1. m \in label(a)
        BY <1>4, <3>2 DEF Inherited
      <4>2. label(a) \in carries(c)
        BY <1>5
      <4> QED
        BY <2>2, <4>1, <4>2 DEF of
    <3> DEFINE from == UNION {Marks(r.args[a]) : a \in Inherited(r, c) \cap DOMAIN r.args}
    <3>3. m \in from => \E a \in Inherited(r, c) \cap DOMAIN r.args : m \in Marks(r.args[a])
      OBVIOUS
    <3> HIDE DEF from
    <3>4. m \in (UNION c.output) \cup from
      BY <2>4, <2>7 DEF from
    <3>5. m \in UNION c.output \/ m \in from
      BY <3>4
    <3> QED
      BY <3>1, <3>2, <3>3, <3>5
  <2> QED
    BY <2>6, <2>7 DEF floor
<1> QED
  BY <1>6, <1>7

\* What the labels of an answer hold, when the caller sent some.
AnswerHolds(f, w, action, path, floor, out) ==
  /\ UNION f.result \subseteq f.ambient /\ UNION floor \subseteq UNION f.result
  /\ f.result = {} <=> floor = {}
  /\ floor # {} /\ ingress(w, action, path) => "Untrusted" \in UNION f.result
  /\ out = "Tainted" => "Untrusted" \in f.ambient

LEMMA LabelledOf ==
  ASSUME NEW w, NEW action, NEW path, NEW tc, NEW out, NEW F, tc.flow = {F}
  PROVE  \E f : /\ Labelled(w, action, path, tc, out) = {f}
                /\ AnswerHolds(f, w, action, path, result_label_floor(w, action, tc), out)
<1> DEFINE floor == result_label_floor(w, action, tc)
           mark == IF ingress(w, action, path) THEN {"Untrusted"} ELSE {}
           result == {l \cup mark : l \in floor}
           tainted_by == IF out = "Tainted" THEN {"Untrusted"} ELSE {}
           f == [ambient |-> F.ambient \cup (UNION result) \cup tainted_by, result |-> result]
<1>1. Labelled(w, action, path, tc, out) = {f}
  BY DEF Labelled, flow_out
<1>2. f.result = result /\ f.ambient = F.ambient \cup (UNION result) \cup tainted_by
  OBVIOUS
<1>3. ingress(w, action, path) => "Untrusted" \in mark
  OBVIOUS
<1>4. out = "Tainted" => "Untrusted" \in tainted_by
  OBVIOUS
<1> HIDE DEF f, mark, tainted_by, floor
<1>5. \A l \in floor : l \cup mark \in result
  OBVIOUS
<1>6. result = {} <=> floor = {}
  OBVIOUS
<1> HIDE DEF result
<1>7. UNION floor \subseteq UNION result
  BY <1>5
<1>8. floor # {} /\ ingress(w, action, path) => "Untrusted" \in UNION result
  BY <1>3, <1>5
<1>9. UNION f.result \subseteq f.ambient
  BY <1>2
<1>10. out = "Tainted" => "Untrusted" \in f.ambient
  <2>1. tainted_by \subseteq f.ambient
    BY <1>2
  <2> QED
    BY <1>4, <2>1
<1> QED
  BY <1>1, <1>2, <1>6, <1>7, <1>8, <1>9, <1>10 DEF AnswerHolds, floor

WireNamesFiles == \A call \in Requests[manifest] : NamesItsFile(WireRequest(call), call.path)

\* A local action whose results taint by their side effect says so in what it declares
\* of them (manifest validation asks it of remote actions only).
ContractsOwnUp ==
  \A action \in world.ontology :
    /\ ~remote_backed(world, action)
    /\ side_effect_taint(world.side_effects[action], world.action_types[action]) = "Tainted"
    => \A c \in world.descriptors[action].flow_contract :
         declares_result(c) => "Untrusted" \in UNION c.output

\* What a host is promised of a call that it may run.
WirePromised(r, answered) ==
  /\ Foreign(r) => answered.taint = "Tainted"
  /\ "flow" \in forgets => Contract(r) = {}
  /\ "flow" \notin forgets => ResultMarks(r) \subseteq UNION {f.ambient : f \in answered.flow}
  /\ Declared(r) <=> r.floor # {}
  /\ Declared(r) => ResultMarks(r) \subseteq UNION r.floor
  /\ SinksTakeMarks(r)
  /\ "Untrusted" \in brought => FloorHolds(r, Trusts)

\* A foreign result has its mark in the floor of the answer.
LEMMA ForeignIsMarked ==
  ASSUME WorldKnown, ContractsOwnUp, NEW req, NEW granted, NEW r, OnlyTightens(world),
         gate(world, req, granted).decision = "Allow", NamesItsFile(req, r.path),
         r.action = classify_call(world, req.tool, req.arguments, req.path),
         r.action \in world.ontology, Foreign(r), Declared(r)
  PROVE  ingress(world, r.action, req.path) \/ "Untrusted" \in DeclaredMarks(r)
<1>1. CASE remote_backed(world, r.action)
  BY <1>1 DEF ingress
<1>2. CASE \E p \in r.path : path_taints(world, p)
  <2>1. CASE r.path \subseteq req.path
    BY <1>2, <2>1 DEF ingress
  <2>2. CASE req.path = {} /\ requires_resolved_path(world, r.action)
    <3>1. world.roots = {}
      BY <2>2, GatePasses
    <3> QED
      BY <1>2, <3>1 DEF path_taints
  <2> QED
    BY <2>1, <2>2 DEF NamesItsFile
<1>3. CASE /\ ~remote_backed(world, r.action)
           /\ side_effect_taint(world.side_effects[r.action], world.action_types[r.action]) = "Tainted"
  <2>1. PICK c \in Contract(r) : c.output # {} \/ Inherited(r, c) # {}
    BY DEF Declared
  <2>2. declares_result(c)
    BY <2>1 DEF declares_result, Inherited
  <2>3. "Untrusted" \in UNION c.output
    BY <1>3, <2>2 DEF ContractsOwnUp, Contract
  <2> QED
    BY <2>3 DEF DeclaredMarks
<1> QED
  BY <1>1, <1>2, <1>3 DEF Foreign

\* Of the result, for a host that carries labels.
LEMMA ResultLabelled ==
  ASSUME WorldKnown, WireBooks, ContractsOwnUp, "flow" \notin forgets, OnlyTightens(world),
         NEW call, NEW granted, NamesItsFile(WireRequest(call), call.path), NEW r,
         gate(world, WireRequest(call), granted).decision = "Allow",
         r \in Started(call, gate(world, WireRequest(call), granted), granted),
         r.action \in world.ontology,
         r.args = members(effective_call(world, r.action, call.arguments).arguments),
         Foreign(r) => gate(world, WireRequest(call), granted).taint = "Tainted"
  PROVE  LET answered == gate(world, WireRequest(call), granted)
         IN  /\ ResultMarks(r) \subseteq UNION {f.ambient : f \in answered.flow}
             /\ Declared(r) <=> r.floor # {}
             /\ Declared(r) => ResultMarks(r) \subseteq UNION r.floor
<1> DEFINE req == WireRequest(call)
           answered == gate(world, req, granted)
           action == classify_call(world, req.tool, req.arguments, req.path)
           tc == Known(world, req)
           out == Brings(world, action, req.path, Inbound(world, req))
           floor == result_label_floor(world, action, tc)
<1>1. /\ answered.action = action /\ answered.taint = out
      /\ answered.flow = Labelled(world, action, req.path, tc, out)
  BY GatePasses
<1>2. /\ r.action = answered.action /\ r.path = call.path
      /\ r.floor = UNION {f.result : f \in answered.flow}
  BY DEF Started
<1>3. tc.flow = {SentLabels(call)}
  BY WireKnown DEF KnownOf
<1> HIDE DEF req, action, tc, out, floor
<1>4. PICK f : /\ Labelled(world, action, req.path, tc, out) = {f}
               /\ AnswerHolds(f, world, action, req.path, floor, out)
  BY <1>3, LabelledOf DEF floor
<1>5. answered.flow = {f}
  BY <1>1, <1>4
<1>6. r.floor = f.result /\ UNION {g.ambient : g \in answered.flow} = f.ambient
  BY <1>2, <1>5
<1>7. r.action = action
  BY <1>1, <1>2
<1>8. (Declared(r) <=> floor # {}) /\ DeclaredMarks(r) \subseteq UNION floor
  BY <1>3, <1>7, FloorOfResult DEF floor
<1>9. Foreign(r) /\ Declared(r) => "Untrusted" \in UNION f.result
  <2> SUFFICES ASSUME Foreign(r), Declared(r)
               PROVE  "Untrusted" \in UNION f.result
    OBVIOUS
  <2>1. ingress(world, action, req.path) \/ "Untrusted" \in DeclaredMarks(r)
    BY <1>2, <1>7, ForeignIsMarked DEF req, action
  <2> QED
    BY <1>4, <1>8, <2>1 DEF AnswerHolds
<1>10. Foreign(r) => "Untrusted" \in f.ambient
  BY <1>1, <1>4 DEF req, AnswerHolds
<1>11. ResultMarks(r) = (IF Foreign(r) THEN {"Untrusted"} ELSE {}) \cup DeclaredMarks(r)
  BY DEF ResultMarks, DeclaredMarks
<1>12. ResultMarks(r) \subseteq f.ambient
  BY <1>4, <1>8, <1>10, <1>11 DEF AnswerHolds
<1>13. Declared(r) => ResultMarks(r) \subseteq UNION f.result
  BY <1>4, <1>8, <1>9, <1>11 DEF AnswerHolds
<1>14. Declared(r) <=> f.result # {}
  BY <1>4, <1>8 DEF AnswerHolds
<1> QED
  BY <1>6, <1>12, <1>13, <1>14 DEF req

\* What the gate lets this host run is what it was promised.
LEMMA WirePasses ==
  ASSUME WorldKnown, ManifestsTighten, ContractsOwnUp, WireNamesFiles, WireBooks,
         NEW call \in Requests[manifest], NEW granted,
         gate(world, WireRequest(call), granted).decision = "Allow",
         NEW r \in Started(call, gate(world, WireRequest(call), granted), granted)
  PROVE  r.allowed /\ WirePromised(r, gate(world, WireRequest(call), granted))
<1> DEFINE req == WireRequest(call)
           answered == gate(world, req, granted)
           action == classify_call(world, req.tool, req.arguments, req.path)
           tc == Known(world, req)
<1>1. OnlyTightens(world) /\ answered.decision = "Allow" /\ NamesItsFile(req, call.path)
  BY WorldTightens DEF WireNamesFiles
<1>2. /\ malformed(world, req) = None /\ action \in world.ontology
      /\ check_flow(world, action, tc) = None /\ ~taint_floor(world, action, tc)
      /\ answered.action = action
      /\ answered.effective = {effective_call(world, action, req.arguments)}
  BY <1>1, GatePasses
<1>3. req.arguments = call.arguments
  BY DEF WireRequest
<1>4. /\ r.action = answered.action /\ r.path = call.path /\ r.allowed = (answered.decision = "Allow")
      /\ \E e \in answered.effective : r.args = members(e.arguments)
  BY DEF Started
<1>5. KnownOf(call, tc)
  BY WireKnown
<1>6. /\ Inbound(world, req) = "Tainted" => tc.taint = "Tainted"
      /\ "flow" \notin forgets /\ "Untrusted" \in ambient => tc.taint = "Tainted"
  BY WireKnown
<1>7. wire_taint = "tainted" => Inbound(world, req) = "Tainted"
  <2> SUFFICES ASSUME wire_taint = "tainted"
               PROVE  Inbound(world, req) = "Tainted"
    OBVIOUS
  <2>1. req.taint = {} \/ req.taint = {"tainted"}
    BY DEF WireRequest, Sends
  <2> HIDE DEF req
  <2>2. req.taint # {}
    BY <1>2 DEF malformed, None
  <2> QED
    BY <2>1, <2>2, InboundTainted
<1> HIDE DEF req, action, tc
<1>8. /\ r.action = action /\ r.action \in world.ontology
      /\ r.args = members(effective_call(world, r.action, call.arguments).arguments)
  BY <1>2, <1>3, <1>4
<1>9. Foreign(r) => answered.taint = "Tainted"
  <2>1. CASE \E p \in r.path : path_taints(world, p)
    BY <1>1, <1>4, <2>1, NamedFilesTaint
  <2>2. CASE remote_backed(world, r.action)
             \/ side_effect_taint(world.side_effects[r.action], world.action_types[r.action]) = "Tainted"
    BY <1>1, <1>4, <2>2, AllowTaints
  <2> QED
    BY <2>1, <2>2 DEF Foreign
<1>10. ASSUME "Untrusted" \in brought PROVE FloorHolds(r, Trusts)
  <2>1. tc.taint = "Tainted"
    BY <1>6, <1>7, <1>10 DEF WireBooks
  <2>2. FloorJudged(r, tc.arg_taint, call.arguments)
    BY <1>2, <1>8, <2>1, FloorOfRun
  <2> QED
    BY <1>5, <2>2, FloorTrusted
<1>11. CASE "flow" \in forgets
  <2>1. tc.flow = {}
    BY <1>5, <1>11 DEF KnownOf
  <2>2. Contract(r) = {}
    BY <1>2, <1>8, <2>1, NoLabelsNoContract DEF Contract
  <2>3. answered.flow = {}
    <3>1. answered.flow = Labelled(world, action, req.path, tc, Brings(world, action, req.path, Inbound(world, req)))
      BY <1>1, GatePasses DEF action, tc
    <3> QED
      BY <2>1, <3>1 DEF Labelled, flow_out
  <2>4. r.floor = {}
    <3>1. r.floor = UNION {f.result : f \in answered.flow}
      BY DEF Started, req
    <3> QED
      BY <2>3, <3>1
  <2>5. ~Declared(r) /\ SinksTakeMarks(r)
    BY <2>2 DEF Declared, SinksTakeMarks
  <2> QED
    BY <1>1, <1>4, <1>9, <1>10, <1>11, <2>2, <2>4, <2>5 DEF WirePromised, req
<1>12. CASE "flow" \notin forgets
  <2>1. tc.flow = {SentLabels(call)}
    BY <1>5, <1>12 DEF KnownOf
  <2>2. SinksTakeMarks(r)
    BY <1>2, <1>8, <1>12, <2>1, SinksOfRun
  <2>3. /\ ResultMarks(r) \subseteq UNION {f.ambient : f \in answered.flow}
        /\ Declared(r) <=> r.floor # {}
        /\ Declared(r) => ResultMarks(r) \subseteq UNION r.floor
    BY <1>1, <1>8, <1>9, <1>12, ResultLabelled DEF req
  <2> QED
    BY <1>1, <1>4, <1>9, <1>10, <1>12, <2>2, <2>3 DEF WirePromised, req
<1> QED
  BY <1>11, <1>12

\* What runs, and what was only asked for: a call that the gate let pass is what it was
\* promised; the result of any other gets no label.
WireFits(r) ==
  /\ Foreign(r) => wire_taint = "tainted"
  /\ "flow" \in forgets => Contract(r) = {}
  /\ "flow" \notin forgets => ResultMarks(r) \subseteq ambient
  /\ Declared(r) <=> r.floor # {}
  /\ Declared(r) => ResultMarks(r) \subseteq UNION r.floor
  /\ SinksTakeMarks(r)
  /\ "Untrusted" \in brought => FloorHolds(r, Trusts)
WireRuns ==
  \A r \in running : (r.allowed => WireFits(r)) /\ (~r.allowed => r.floor = {})
WireAsked ==
  \A a \in asked : /\ a.call \in Requests[manifest] /\ a.answer.decision # "Allow"
                   /\ \A f \in a.answer.flow : f.result = {}
WireHeard == WireBooks /\ WireRuns /\ WireAsked

LEMMA WireGovernsHeard ==
  ASSUME WorldKnown, ManifestsTighten, ContractsOwnUp, WireNamesFiles, WireHeard,
         UNCHANGED world_vars,
         NEW call \in Requests[manifest], NEW granted \in BOOLEAN, Govern(call, granted)
  PROVE  WireHeard'
<1> DEFINE req == WireRequest(call)
           answered == gate(world, req, granted)
<1>1. world' = world /\ manifest' = manifest
  BY DEF world_vars
<1>2. /\ wire_taint' = IF answered.taint = "Tainted" THEN "tainted" ELSE "clean"
      /\ ambient' = ambient \cup UNION {f.ambient : f \in answered.flow}
      /\ asked' = Asked(call, answered)
      /\ running' = IF answered.decision = "Allow" THEN Started(call, answered, granted) ELSE {}
      /\ labels' = labels /\ brought' = brought /\ origin' = origin /\ forgets' = forgets
  BY DEF Govern, Carry, persist
<1>3. wire_taint = "tainted" => wire_taint' = "tainted"
  <2> SUFFICES ASSUME wire_taint = "tainted"
               PROVE  wire_taint' = "tainted"
    OBVIOUS
  <2>1. req.taint = {} \/ req.taint = {"tainted"}
    BY DEF WireRequest, Sends
  <2> HIDE DEF req
  <2> QED
    BY <1>2, <2>1, GateKeepsTaint
<1>4. WireBooks'
  BY <1>2, <1>3 DEF WireHeard, WireBooks
<1>5. WireAsked'
  <2>1. CASE answered.decision = "Ask"
    <3>1. asked' = {[call |-> call, answer |-> answered]}
      BY <1>2, <2>1 DEF Asked
    <3>2. \A f \in answered.flow : f.result = {}
      BY <2>1, GateHolds
    <3> HIDE DEF answered, req
    <3> QED
      BY <1>1, <2>1, <3>1, <3>2 DEF WireAsked
  <2>2. CASE answered.decision # "Ask"
    BY <1>2, <2>2 DEF Asked, WireAsked
  <2> QED
    BY <2>1, <2>2
<1>6. \A r : /\ Foreign(r)' = Foreign(r) /\ Contract(r)' = Contract(r)
             /\ ResultMarks(r)' = ResultMarks(r) /\ Declared(r)' = Declared(r)
             /\ SinksTakeMarks(r)' = SinksTakeMarks(r) /\ FloorHolds(r, Trusts)' = FloorHolds(r, Trusts)
  BY <1>1, <1>2 DEF Foreign, Contract, ResultMarks, Declared, Inherited, SinksTakeMarks, Marks,
                    FloorHolds, Trusts, External, AuthorityArgs, LiteralOf
<1>7. WireRuns'
  <2>1. CASE answered.decision = "Allow"
    <3> SUFFICES ASSUME NEW r \in running'
                 PROVE  r.allowed /\ WireFits(r)'
      BY DEF WireRuns
    <3>1. r.allowed /\ WirePromised(r, answered)
      BY <1>2, <2>1, WirePasses DEF WireHeard
    <3> HIDE DEF answered, req
    <3> QED
      BY <1>2, <1>6, <3>1 DEF WireFits, WirePromised
  <2>2. CASE answered.decision # "Allow"
    BY <1>2, <2>2 DEF WireRuns
  <2> QED
    BY <2>1, <2>2
<1> QED
  BY <1>4, <1>5, <1>7 DEF WireHeard

\* Labels and origins are bound to the same values, and what a result brings is in its
\* label.
LEMMA ReturnsBooked ==
  ASSUME WireHeard, CallReturns
  PROVE  WireBooks'
<1>1. PICK r \in running, v \in Results :
        /\ labels' = IF r.floor = {} THEN labels ELSE bind(labels, v, UNION r.floor)
        /\ origin' = IF Declared(r) /\ r.allowed THEN bind(origin, v, ResultMarks(r)) ELSE origin
        /\ brought' = brought \cup (IF r.allowed THEN ResultMarks(r) ELSE {})
  BY DEF CallReturns
<1>2. wire_taint' = wire_taint /\ ambient' = ambient /\ forgets' = forgets
  BY DEF CallReturns
<1>3. CASE ~r.allowed
  <2>1. labels' = labels /\ origin' = origin /\ brought' = brought
    BY <1>1, <1>3 DEF WireHeard, WireRuns
  <2> QED
    BY <1>2, <2>1 DEF WireHeard, WireBooks
<1>4. CASE r.allowed
  <2> DEFINE marks == ResultMarks(r)
             label == UNION r.floor
  <2>1. WireFits(r)
    BY <1>4 DEF WireHeard, WireRuns
  <2>2. brought' = brought \cup marks
    BY <1>1, <1>4
  <2>3. /\ "flow" \notin forgets => marks \subseteq ambient
        /\ Declared(r) <=> r.floor # {}
        /\ Declared(r) => marks \subseteq label
    BY <2>1 DEF WireFits
  <2>4. "Untrusted" \in marks => wire_taint = "tainted" \/ ("flow" \notin forgets /\ "Untrusted" \in ambient)
    <3>1. CASE "flow" \notin forgets
      BY <2>3, <3>1
    <3>2. CASE "flow" \in forgets
      <4>1. Contract(r) = {} /\ (Foreign(r) => wire_taint = "tainted")
        BY <2>1, <3>2 DEF WireFits
      <4>2. marks = IF Foreign(r) THEN {"Untrusted"} ELSE {}
        BY <4>1 DEF ResultMarks
      <4> QED
        BY <4>1, <4>2
    <3> QED
      BY <3>1, <3>2
  <2> HIDE DEF marks, label
  <2>5. CASE Declared(r)
    <3>1. labels' = bind(labels, v, label) /\ origin' = bind(origin, v, marks)
      BY <1>1, <1>4, <2>3, <2>5 DEF marks, label
    <3>2. marks \subseteq label
      BY <2>3, <2>5
    <3>3. DOMAIN labels = DOMAIN origin
      BY DEF WireHeard, WireBooks
    <3>4. DOMAIN labels' = DOMAIN labels \cup {v} /\ DOMAIN origin' = DOMAIN origin \cup {v}
      BY <3>1 DEF bind
    <3>5. ASSUME NEW u \in DOMAIN origin'
          PROVE  origin'[u] \subseteq labels'[u] /\ origin'[u] \subseteq brought'
      <4>1. /\ labels'[u] = (IF u \in DOMAIN labels THEN labels[u] ELSE {})
                              \cup (IF u = v THEN label ELSE {})
            /\ origin'[u] = (IF u \in DOMAIN origin THEN origin[u] ELSE {})
                              \cup (IF u = v THEN marks ELSE {})
        BY <3>1, <3>3, <3>4, <3>5 DEF bind
      <4>2. u \in DOMAIN origin => origin[u] \subseteq labels[u] /\ origin[u] \subseteq brought
        BY DEF WireHeard, WireBooks
      <4> QED
        BY <2>2, <3>2, <3>3, <4>1, <4>2
    <3> QED
      BY <1>2, <2>2, <2>3, <2>4, <3>3, <3>4, <3>5 DEF WireHeard, WireBooks
  <2>6. CASE ~Declared(r)
    <3>1. labels' = labels /\ origin' = origin
      BY <1>1, <2>3, <2>6
    <3> QED
      BY <1>2, <2>2, <2>3, <2>4, <3>1 DEF WireHeard, WireBooks
  <2> QED
    BY <2>5, <2>6
<1> QED
  BY <1>3, <1>4

LEMMA WireHears ==
  ASSUME WorldKnown, ManifestsTighten, ContractsOwnUp, WireNamesFiles, WireHeard, WireNext,
         UNCHANGED world_vars
  PROVE  WireHeard'
<1>1. world' = world /\ manifest' = manifest
  BY DEF world_vars
<1>2. CASE Call
  BY <1>2, WireGovernsHeard DEF Call
<1>3. CASE CallAuthorized
  <2>1. PICK a \in asked : Govern(a.call, TRUE)
    BY <1>3 DEF CallAuthorized
  <2>2. a.call \in Requests[manifest]
    BY DEF WireHeard, WireAsked
  <2> QED
    BY <2>1, <2>2, WireGovernsHeard
<1>4. CASE PersonApproves
  <2>1. PICK a \in asked : running' = Started(a.call, a.answer, TRUE)
    BY <1>4 DEF PersonApproves
  <2>2. /\ asked' = {} /\ forgets' = forgets /\ wire_taint' = wire_taint /\ ambient' = ambient
        /\ labels' = labels /\ brought' = brought /\ origin' = origin
    BY <1>4 DEF PersonApproves
  <2>3. a.answer.decision # "Allow" /\ UNION {f.result : f \in a.answer.flow} = {}
    <3>1. a.answer.decision # "Allow" /\ \A f \in a.answer.flow : f.result = {}
      BY DEF WireHeard, WireAsked
    <3> QED
      BY <3>1
  <2>4. ASSUME NEW r \in running' PROVE ~r.allowed /\ r.floor = {}
    <3>1. /\ r.allowed = (a.answer.decision = "Allow")
          /\ r.floor = UNION {f.result : f \in a.answer.flow}
      BY <2>1 DEF Started
    <3> QED
      BY <2>3, <3>1
  <2> QED
    BY <2>2, <2>4 DEF WireHeard, WireBooks, WireRuns, WireAsked
<1>5. CASE CallReturns
  <2>1. running' = {} /\ asked' = asked
    BY <1>5 DEF CallReturns
  <2>2. WireBooks'
    BY <1>5, ReturnsBooked
  <2> QED
    BY <1>1, <2>1, <2>2 DEF WireHeard, WireRuns, WireAsked
<1>6. CASE CallFails
  BY <1>1, <1>6 DEF CallFails, WireHeard, WireBooks, WireRuns, WireAsked
<1> QED
  BY <1>2, <1>3, <1>4, <1>5, <1>6 DEF WireNext

-----------------------------------------------------------------------------
(* What every host was given, and what it runs then.                       *)

\* What is asked of a session: its gate is told the file of every call that opens one,
\* the contracts of its world own up to what their results are, and no hook judges a
\* call of a scoped capability, which its host would not run as it was judged.
SessionFits ==
  /\ host = "wire" => WireNamesFiles /\ ContractsOwnUp
  /\ host \in HookHosts => HooksNameSources /\ HooksOwnTools

\* What a session may propose, and what its gate is told of it, never change.
LEMMA RequestsStay ==
  ASSUME [Next]_vars, NEW call
  PROVE  /\ WireRequest(call)'.tool = WireRequest(call).tool
         /\ WireRequest(call)'.arguments = WireRequest(call).arguments
         /\ WireRequest(call)'.path = WireRequest(call).path
         /\ hook_request(call)'.tool = hook_request(call).tool
         /\ hook_request(call)'.arguments = hook_request(call).arguments
         /\ hook_request(call)'.path = hook_request(call).path
<1>1. world' = world /\ host' = host
  BY OneHostSteps DEF world_vars
<1>2. forgets' = forgets
  <2>1. CASE WireNext
    BY <2>1 DEF WireNext, Call, CallAuthorized, Govern, Carry, PersonApproves, CallReturns, CallFails
  <2>2. CASE UNCHANGED wire_vars
    BY <2>2 DEF wire_vars
  <2> QED
    BY <2>1, <2>2, OneHostSteps
<1>3. hook_args(call)' = hook_args(call) /\ normalize_tool(call.tool)' = normalize_tool(call.tool)
  BY <1>1 DEF hook_args, normalize_tool
<1> QED
  BY <1>2, <1>3 DEF WireRequest, hook_request

\* It is so from the start or never: a session changes nothing that decides it.
LEMMA FitsStays == SessionFits /\ [Next]_vars => SessionFits'
<1> SUFFICES ASSUME SessionFits, [Next]_vars
             PROVE  SessionFits'
  OBVIOUS
<1>1. world' = world /\ manifest' = manifest /\ host' = host
  BY OneHostSteps DEF world_vars
<1> QED
  BY <1>1, RequestsStay DEF SessionFits, WireNamesFiles, HooksNameSources, HooksOwnTools, ContractsOwnUp,
                            NamesItsFile

HostsHeard == WorldKnown /\ GatewayHeard /\ WireHeard /\ AgentHeard /\ HookHeard

LEMMA HeardStarts == Init => HostsHeard
<1> SUFFICES ASSUME Init
             PROVE  HostsHeard
  OBVIOUS
<1>1. WorldKnown
  BY DEF Init, StartHost, Validated, WorldKnown
<1>2. GatewayHeard
  BY DEF Init, GatewayInit, GatewayHeard
<1>3. WireHeard
  BY DEF Init, WireInit, WireHeard, WireBooks, WireRuns, WireAsked, Empty
<1>4. AgentHeard
  BY DEF Init, AgentInit, AgentHeard
<1>5. HookHeard
  BY DEF Init, HookInit, HookHeard
<1> QED
  BY <1>1, <1>2, <1>3, <1>4, <1>5 DEF HostsHeard

LEMMA HeardStays ==
  ManifestsTighten /\ SessionFits /\ HostsHeard /\ [Next]_vars => HostsHeard'
<1> SUFFICES ASSUME ManifestsTighten, SessionFits, HostsHeard, [Next]_vars
             PROVE  HostsHeard'
  OBVIOUS
<1>1. WorldKnown'
  BY WorldStays DEF HostsHeard
<1>2. world' = world /\ manifest' = manifest /\ host' = host /\ UNCHANGED world_vars
  BY OneHostSteps DEF world_vars
<1>3. \A r : /\ FloorHolds(r, Nobody)' = FloorHolds(r, Nobody) /\ Contract(r)' = Contract(r)
             /\ Foreign(r)' = Foreign(r) /\ remote_backed(world, r.action)' = remote_backed(world, r.action)
  BY <1>2 DEF FloorHolds, Nobody, Contract, Foreign, External, AuthorityArgs, LiteralOf
<1>4. GatewayHeard'
  <2>1. CASE GatewayNext
    BY <1>2, <2>1, GatewayHears DEF HostsHeard
  <2>2. CASE UNCHANGED gateway_vars
    BY <1>3, <2>2 DEF gateway_vars, HostsHeard, GatewayHeard
  <2> QED
    BY <2>1, <2>2, OneHostSteps
<1>5. WireHeard'
  <2>1. CASE WireNext
    <3>1. WireNamesFiles /\ ContractsOwnUp
      BY <2>1 DEF WireNext, SessionFits
    <3> QED
      BY <1>2, <2>1, <3>1, WireHears DEF HostsHeard
  <2>2. CASE UNCHANGED wire_vars
    <3>1. \A r : WireFits(r)' = WireFits(r)
      BY <1>2, <2>2 DEF wire_vars, WireFits, Foreign, Contract, ResultMarks, Declared, Inherited,
                        SinksTakeMarks, Marks, FloorHolds, Trusts, External, AuthorityArgs, LiteralOf
    <3> QED
      BY <1>2, <2>2, <3>1 DEF wire_vars, HostsHeard, WireHeard, WireBooks, WireRuns, WireAsked
  <2> QED
    BY <2>1, <2>2, OneHostSteps
<1>6. AgentHeard'
  <2>1. CASE AgentNext
    BY <1>2, <2>1, AgentHears DEF HostsHeard
  <2>2. CASE UNCHANGED agent_vars
    <3>1. payloads' = payloads /\ agent_taint' = agent_taint /\ doing' = doing
      BY <2>2 DEF agent_vars, loop_vars
    <3>2. \A r : FloorHolds(r, SaidByUser)' = FloorHolds(r, SaidByUser)
      BY <1>2, <3>1 DEF FloorHolds, SaidByUser, External, AuthorityArgs, LiteralOf
    <3> QED
      BY <1>3, <3>1, <3>2 DEF HostsHeard, AgentHeard
  <2> QED
    BY <2>1, <2>2, OneHostSteps
<1>7. HookHeard'
  <2>1. CASE HookNext
    <3>1. HooksNameSources /\ HooksOwnTools
      BY <2>1 DEF HookNext, SessionFits
    <3> QED
      BY <1>2, <2>1, <3>1, HookHears DEF HostsHeard
  <2>2. CASE UNCHANGED hook_vars
    <3>1. told' = told /\ using' = using /\ tainted' = tainted /\ ingested' = ingested
      BY <2>2 DEF hook_vars
    <3>2. \A r : HookFits(r)' = HookFits(r)
      BY <1>3, <3>1 DEF HookFits
    <3> QED
      BY <3>1, <3>2 DEF HostsHeard, HookHeard, RunsAs
  <2> QED
    BY <2>1, <2>2, OneHostSteps
<1> QED
  BY <1>1, <1>4, <1>5, <1>6, <1>7 DEF HostsHeard

\* In every session under manifests whose policies only tighten, and whose gate is told
\* the files of its calls, what goes out after an untrusted source was heard goes where
\* the world, the user's own words or a trusted label say (invariants.rs:
\* effective_floor_taint; gate.rs: out_taint; orchestrator.rs; cc_hook.rs: the marker).
THEOREM FloorStaysAfterIngest ==
  ASSUME ManifestsTighten
  PROVE  Spec /\ SessionFits => []FloorAfterIngest
<1>1. HostsHeard => FloorAfterIngest
  BY DEF HostsHeard, FloorAfterIngest, GatewayHeard, ByHook, HookHeard, HookFits, Allowed, WireHeard,
         WireRuns, WireFits, ByAgent, AgentHeard
<1> QED
  BY <1>1, HeardStarts, HeardStays, FitsStays, PTL DEF Spec

\* In every such session no sink is given what it refuses, however the value was made,
\* and a host without labels runs no call with a contract (invariants.rs: check_flow;
\* gate.rs: flow_out).
THEOREM SinksStayHeld ==
  ASSUME ManifestsTighten
  PROVE  Spec /\ SessionFits => []SinksHold
<1>1. HostsHeard => SinksHold
  <2> SUFFICES ASSUME HostsHeard
               PROVE  SinksHold
    OBVIOUS
  <2>1. \A r \in sent \cup ByAgent \cup ByHook : Contract(r) = {}
    BY DEF HostsHeard, GatewayHeard, ByAgent, AgentHeard, ByHook, HookHeard, HookFits
  <2>2. \A r \in Allowed : SinksTakeMarks(r)
    BY DEF HostsHeard, Allowed, WireHeard, WireRuns, WireFits
  <2> QED
    BY <2>1, <2>2 DEF SinksHold, SinksTakeMarks
<1> QED
  BY <1>1, HeardStarts, HeardStays, FitsStays, PTL DEF Spec

-----------------------------------------------------------------------------
(* The arguments of what runs.                                             *)

\* The input of an object keyword is an object: another kind is out of place, or the
\* root's type refuses it (schema.rs: check_object).
LEMMA ObjectsAreObjects ==
  ASSUME NEW v, NEW spec, NEW also, check(v, spec, also),
         "type" \in DOMAIN spec => spec.type = {"object"},
         OBJECT \cap DOMAIN spec # {}
  PROVE  /\ is(v, "obj")
         /\ required(spec) \subseteq DOMAIN v.obj
         /\ \A p \in DOMAIN properties(spec) \cap DOMAIN v.obj : ArgHolds(v.obj[p], properties(spec)[p])
<1>1. /\ "type" \in DOMAIN spec => type_admits(spec.type, v)
      /\ check_object(ArgHolds, v, spec, also)
  BY DEF check, check_value
<1>2. is(v, "obj")
  <2>1. CASE "type" \in DOMAIN spec
    BY <1>1, <2>1 DEF type_admits, type_matches, TagOf
  <2>2. CASE "type" \notin DOMAIN spec
    BY <1>1, <2>2 DEF check_object, misplaced
  <2> QED
    BY <2>1, <2>2
<1>3. applies(OBJECT, "obj", v, spec)
  BY <1>2 DEF applies
<1> QED
  BY <1>1, <1>2, <1>3 DEF check_object

\* A value that is admitted by a schema that the code can enforce is accepted by it.
LEMMA EnforcedIsAccepted ==
  ASSUME NEW v, NEW spec, ArgSpec(spec), ArgHolds(v, spec)
  PROVE  Accepts(spec, v)
<1>1. "pattern" \notin DOMAIN spec
  BY DEF ArgSpec, check_keywords, ASSERTION_KEYWORDS, ANNOTATION_KEYWORDS, BOUNDS, LENGTHS, ARRAY, OBJECT
<1>2. /\ "type" \in DOMAIN spec => type_admits(spec.type, v)
      /\ "enum" \in DOMAIN spec => v \in spec.enum
  BY DEF ArgHolds, check_value
<1> QED
  BY <1>1, <1>2 DEF Accepts

\* The properties of an enforceable schema are enforceable.
LEMMA PropertiesEnforced ==
  ASSUME NEW schema, NEW constraints, check_action_schema(schema, constraints)
  PROVE  /\ "type" \in DOMAIN schema => schema.type = {"object"}
         /\ \A p \in DOMAIN properties(schema) : ArgSpec(properties(schema)[p])
<1>1. "type" \in DOMAIN schema => schema.type = {"object"}
  BY DEF check_action_schema
<1>2. check_keywords(ArgSpec, schema)
  BY DEF check_action_schema, check_spec
<1>3. CASE "properties" \in DOMAIN schema
  <2>1. \A p \in DOMAIN schema.properties : ArgSpec(schema.properties[p])
    BY <1>2, <1>3 DEF check_keywords, ANNOTATION_KEYWORDS
  <2> QED
    BY <1>1, <1>3, <2>1 DEF properties
<1>4. CASE "properties" \notin DOMAIN schema
  BY <1>1, <1>4 DEF properties, Empty
<1> QED
  BY <1>3, <1>4

\* What the schema of an action admitted has what it requires, and what it has is
\* accepted (schema.rs: validate).
LEMMA ValidIsAccepted ==
  ASSUME NEW args, NEW schema, NEW constraints, validate(args, schema, constraints),
         is(args, "obj") => ~is(args, "null")
  PROVE  /\ required(schema) \subseteq DOMAIN members(args)
         /\ \A p \in DOMAIN properties(schema) \cap DOMAIN members(args) :
              /\ ArgSpec(properties(schema)[p])
              /\ ArgHolds(members(args)[p], properties(schema)[p])
<1> DEFINE actual == IF is(args, "null") THEN Obj(Empty) ELSE args
           also == declared_arg_names(schema, constraints)
<1>1. /\ check_action_schema(schema, constraints)
      /\ DOMAIN schema # {} => check(actual, schema, also)
  BY DEF validate
<1>2. /\ "type" \in DOMAIN schema => schema.type = {"object"}
      /\ \A p \in DOMAIN properties(schema) : ArgSpec(properties(schema)[p])
  BY <1>1, PropertiesEnforced
<1> HIDE DEF also
<1>3. CASE OBJECT \cap DOMAIN schema = {}
  <2>1. "properties" \notin DOMAIN schema /\ "required" \notin DOMAIN schema
    BY <1>3 DEF OBJECT
  <2>2. DOMAIN properties(schema) = {} /\ required(schema) = {}
    BY <2>1 DEF properties, required, Empty
  <2> QED
    BY <2>2
<1>4. CASE OBJECT \cap DOMAIN schema # {}
  <2>1. check(actual, schema, also)
    BY <1>1, <1>4
  <2>2. /\ is(actual, "obj") /\ required(schema) \subseteq DOMAIN actual.obj
        /\ \A p \in DOMAIN properties(schema) \cap DOMAIN actual.obj :
             ArgHolds(actual.obj[p], properties(schema)[p])
    <3> HIDE DEF actual
    <3> QED
      BY <1>2, <1>4, <2>1, ObjectsAreObjects
  <2>3. CASE is(args, "null")
    <3>1. members(args) = Empty
      BY <2>3 DEF members
    <3>2. actual.obj = Empty
      BY <2>3 DEF Obj
    <3> HIDE DEF actual
    <3> QED
      BY <1>2, <2>2, <3>1, <3>2
  <2>4. CASE ~is(args, "null")
    <3>1. actual = args
      BY <2>4
    <3> HIDE DEF actual
    <3>2. members(args) = args.obj
      BY <2>2, <3>1 DEF members
    <3> QED
      BY <1>2, <2>2, <3>1, <3>2
  <2> QED
    BY <2>3, <2>4
<1> QED
  BY <1>3, <1>4

\* The effective call of a scoped capability is as the capability says (spec.rs:
\* effective_call).
LEMMA EffectiveIsScoped ==
  ASSUME NEW w, NEW action, NEW args, scoped(w, action), SourcesNameOne(w, action),
         check_input_rules(w, action, args)
  PROVE  LET gets == members(effective_call(w, action, args).arguments)
             sources == cap_args(w, action)
         IN  /\ DOMAIN gets \subseteq DOMAIN sources
             /\ literals(w, action) \subseteq DOMAIN gets
             /\ \A a \in DOMAIN gets : FromSource(sources[a], a, gets[a], members(args))
<1> DEFINE gets == members(effective_call(w, action, args).arguments)
           sources == cap_args(w, action)
           f == [b \in given(w, action, args) \cup literals(w, action) |->
                   scoped_value(w, action, args, b)]
<1>1. gets = f
  <2>1. effective_call(w, action, args).arguments = Obj(f)
    BY DEF effective_call
  <2> HIDE DEF f
  <2> QED
    BY <2>1 DEF members, is, Obj
<1>2. /\ DOMAIN gets = given(w, action, args) \cup literals(w, action)
      /\ \A a \in DOMAIN gets : gets[a] = scoped_value(w, action, args, a)
  BY <1>1
<1> HIDE DEF gets, f
<1>3. DOMAIN gets \subseteq DOMAIN sources /\ literals(w, action) \subseteq DOMAIN gets
  BY <1>2 DEF given, literals
<1>4. ASSUME NEW a \in DOMAIN gets
      PROVE  FromSource(sources[a], a, gets[a], members(args))
  <2> DEFINE src == sources[a]
             v == gets[a]
  <2>1. /\ a \in DOMAIN sources
        /\ a \in given(w, action, args) \/ src.from = "literal"
        /\ v = scoped_value(w, action, args, a)
    BY <1>2, <1>3 DEF literals
  <2>2. CASE src.from = "literal"
    BY <2>1, <2>2 DEF scoped_value, FromSource
  <2>3. CASE src.from # "literal"
    <3>1. actor_name(src, a) \cap DOMAIN members(args) # {}
      BY <2>1, <2>3 DEF given
    <3>2. binding(w, action, a) = actor_name(src, a)
      BY <2>1 DEF binding
    <3>3. PICK n : actor_name(src, a) = {n}
      BY <3>1, <3>2, BindingNamesOne
    <3>4. v = members(args)[n] /\ n \in DOMAIN members(args)
      <4>1. (CHOOSE m \in actor_name(src, a) : TRUE) = n
        BY <3>3
      <4> QED
        BY <2>1, <2>3, <3>1, <3>3, <4>1 DEF scoped_value
    <3>5. src.from \in {"actor", "input", "literal", "context"}
      BY <2>1 DEF SourcesNameOne
    <3>6. CASE src.from = "actor"
      <4>1. n = a
        BY <3>3, <3>6 DEF actor_name
      <4> QED
        BY <3>4, <3>6, <4>1 DEF FromSource
    <3>7. CASE src.from = "input"
      <4>1. admits(src, members(args)[n])
        BY <2>1, <3>3, <3>4, <3>7 DEF check_input_rules
      <4> QED
        BY <3>4, <3>7, <4>1 DEF FromSource, admits
    <3>8. CASE src.from = "context"
      BY <3>1, <3>8 DEF actor_name
    <3> QED
      BY <2>3, <3>5, <3>6, <3>7, <3>8
  <2> QED
    BY <2>2, <2>3
<1> QED
  BY <1>3, <1>4 DEF gets

\* The limits of an input rule over those of the base action (schema.rs:
\* model_facing_schema).
Limited(base, one_of, prefix) ==
  [k \in DOMAIN base \cup (IF one_of = {} THEN {} ELSE {"enum"})
           \cup (IF prefix = {} THEN {} ELSE {"type", "pattern"}) |->
     CASE k = "enum" /\ one_of # {} -> one_of
       [] k = "type" /\ prefix # {} -> {"string"}
       [] k = "pattern" /\ prefix # {} -> prefix
       [] OTHER -> base[k]]

LEMMA LimitedIsAccepted ==
  ASSUME NEW base, NEW one_of, NEW prefix, NEW v, Accepts(base, v),
         one_of # {} => v \in one_of,
         \A p \in prefix : is(v, "str") /\ IsPrefix(p, v.str)
  PROVE  Accepts(Limited(base, one_of, prefix), v)
<1> DEFINE shown == Limited(base, one_of, prefix)
<1>1. /\ "enum" \in DOMAIN shown => shown["enum"] = IF one_of # {} THEN one_of ELSE base["enum"]
      /\ "enum" \in DOMAIN shown /\ one_of = {} => "enum" \in DOMAIN base
  BY DEF Limited
<1>2. /\ "type" \in DOMAIN shown => shown["type"] = IF prefix # {} THEN {"string"} ELSE base["type"]
      /\ "type" \in DOMAIN shown /\ prefix = {} => "type" \in DOMAIN base
  BY DEF Limited
<1>3. /\ "pattern" \in DOMAIN shown => shown["pattern"] = IF prefix # {} THEN prefix ELSE base["pattern"]
      /\ "pattern" \in DOMAIN shown /\ prefix = {} => "pattern" \in DOMAIN base
  BY DEF Limited
<1> HIDE DEF shown
<1>4. "enum" \in DOMAIN shown => v \in shown["enum"]
  BY <1>1 DEF Accepts
<1>5. "pattern" \in DOMAIN shown => \A p \in shown["pattern"] : is(v, "str") /\ IsPrefix(p, v.str)
  BY <1>3 DEF Accepts
<1>6. "type" \in DOMAIN shown => type_admits(shown["type"], v)
  <2>1. CASE prefix = {}
    BY <1>2, <2>1 DEF Accepts
  <2>2. CASE prefix # {}
    <3>1. is(v, "str")
      BY <2>2
    <3>2. type_admits({"string"}, v)
      BY <3>1 DEF type_admits, type_matches, TagOf
    <3> QED
      BY <1>2, <2>2, <3>2
  <2> QED
    BY <2>1, <2>2
<1> QED
  BY <1>4, <1>5, <1>6 DEF Accepts, shown

\* What the model is shown of a scoped capability.
ShownArgs(w, action) == {a \in DOMAIN cap_args(w, action) : actor_name(cap_args(w, action)[a], a) # {}}
ShownName(w, action, a) == CHOOSE n \in actor_name(cap_args(w, action)[a], a) : TRUE
BaseLimits(w, action, a) ==
  LET schema == w.descriptors[action].schema
  IN  IF a \in DOMAIN properties(schema) THEN properties(schema)[a] ELSE Empty
ShownLimits(w, action, a) ==
  LET src == cap_args(w, action)[a]
      rule == IF src.from = "input" THEN [one_of |-> src.one_of, prefix |-> src.prefix]
              ELSE [one_of |-> {}, prefix |-> {}]
  IN  Limited(BaseLimits(w, action, a), rule.one_of, rule.prefix)

LEMMA ShownIs ==
  ASSUME NEW w, NEW action, scoped(w, action)
  PROVE  LET shown == model_facing_schema(w, action)
         IN  /\ required(shown) = {ShownName(w, action, a) :
                                     a \in ShownArgs(w, action) \cap required(w.descriptors[action].schema)}
             /\ \A n \in DOMAIN properties(shown) : \E a \in ShownArgs(w, action) :
                  ShownName(w, action, a) = n /\ properties(shown)[n] = ShownLimits(w, action, a)
<1> DEFINE shown == model_facing_schema(w, action)
           all == {ShownName(w, action, a) : a \in ShownArgs(w, action)}
           of(n) == CHOOSE a \in ShownArgs(w, action) : ShownName(w, action, a) = n
<1>1. /\ required(shown) = {ShownName(w, action, a) :
                              a \in ShownArgs(w, action) \cap required(w.descriptors[action].schema)}
      /\ DOMAIN properties(shown) = all
      /\ \A n \in all : properties(shown)[n] = ShownLimits(w, action, of(n))
  BY DEF model_facing_schema, required, properties, ShownArgs, ShownName, ShownLimits, BaseLimits, Limited
<1>2. \A n \in all : of(n) \in ShownArgs(w, action) /\ ShownName(w, action, of(n)) = n
  OBVIOUS
<1> HIDE DEF shown, all, of
<1>3. \A n \in DOMAIN properties(shown) : \E a \in ShownArgs(w, action) :
        ShownName(w, action, a) = n /\ properties(shown)[n] = ShownLimits(w, action, a)
  BY <1>1, <1>2
<1> QED
  BY <1>1, <1>3 DEF shown

\* An actor's value of a shown argument is in the arguments that the kernel judged.
LEMMA JudgedValue ==
  ASSUME NEW w, NEW action, NEW args, SourcesNameOne(w, action), scoped(w, action),
         NEW a \in ShownArgs(w, action)
  PROVE  LET judged == members(schema_args_for(w, action, args))
             n == ShownName(w, action, a)
         IN  /\ actor_name(cap_args(w, action)[a], a) = {n}
             /\ a \in DOMAIN judged <=> n \in DOMAIN members(args)
             /\ a \in DOMAIN judged => judged[a] = members(args)[n]
<1> DEFINE domain == given(w, action, args) \cup literals(w, action) \cup context_args(w, action)
           f == [b \in domain |-> IF b \in context_args(w, action) THEN Str(<<"context">>)
                                  ELSE scoped_value(w, action, args, b)]
           judged == members(schema_args_for(w, action, args))
           src == cap_args(w, action)[a]
           n == ShownName(w, action, a)
<1>1. judged = f
  <2>1. schema_args_for(w, action, args) = Obj(f)
    BY DEF schema_args_for
  <2> HIDE DEF f
  <2> QED
    BY <2>1 DEF members, is, Obj
<1>2. /\ a \in DOMAIN judged <=> a \in domain
      /\ a \in domain /\ a \notin context_args(w, action) => judged[a] = scoped_value(w, action, args, a)
  BY <1>1
<1> HIDE DEF judged, f
<1>3. a \in DOMAIN cap_args(w, action) /\ actor_name(src, a) # {}
  BY DEF ShownArgs
<1>4. actor_name(src, a) = {n}
  <2>1. binding(w, action, a) = actor_name(src, a)
    BY <1>3 DEF binding
  <2>2. PICK m : actor_name(src, a) = {m}
    BY <1>3, <2>1, BindingNamesOne
  <2> QED
    BY <2>2 DEF ShownName
<1>5. src.from # "literal" /\ src.from # "context"
  BY <1>3 DEF actor_name
<1>6. a \notin literals(w, action) /\ a \notin context_args(w, action)
  BY <1>5 DEF literals, context_args
<1>7. a \in given(w, action, args) <=> n \in DOMAIN members(args)
  BY <1>3, <1>4 DEF given
<1>8. scoped_value(w, action, args, a) = members(args)[n]
  BY <1>4, <1>5 DEF scoped_value
<1> QED
  BY <1>2, <1>4, <1>6, <1>7, <1>8 DEF judged

\* What a client sends of a tool, once it is admitted, is what it was shown to be good.
LEMMA AdmittedIsShown ==
  ASSUME NEW w, NEW action, NEW args, SourcesNameOne(w, action), admissible(w, action, args),
         is(args, "obj") => ~is(args, "null")
  PROVE  LET shown == model_facing_schema(w, action)
         IN  /\ required(shown) \subseteq DOMAIN members(args)
             /\ \A n \in DOMAIN members(args) \cap DOMAIN properties(shown) :
                  Accepts(properties(shown)[n], members(args)[n])
<1> DEFINE schema == w.descriptors[action].schema
           shown == model_facing_schema(w, action)
           judged == schema_args_for(w, action, args)
<1>1. /\ validate(judged, schema, w.descriptors[action].arg_constraints)
      /\ scoped(w, action) => check_input_rules(w, action, args)
  BY DEF admissible
<1>2. is(judged, "obj") => ~is(judged, "null")
  BY DEF schema_args_for, is, Obj
<1>3. /\ required(schema) \subseteq DOMAIN members(judged)
      /\ \A p \in DOMAIN properties(schema) \cap DOMAIN members(judged) :
           Accepts(properties(schema)[p], members(judged)[p])
  <2> HIDE DEF schema, judged
  <2> QED
    BY <1>1, <1>2, ValidIsAccepted, EnforcedIsAccepted
<1>4. CASE ~scoped(w, action)
  <2>1. shown = schema /\ judged = args
    BY <1>4 DEF model_facing_schema, schema_args_for
  <2> HIDE DEF shown, schema, judged
  <2> QED
    BY <1>3, <2>1 DEF shown
<1>5. CASE scoped(w, action)
  <2>1. ASSUME NEW a \in ShownArgs(w, action)
        PROVE  LET n == ShownName(w, action, a)
               IN  /\ actor_name(cap_args(w, action)[a], a) = {n}
                   /\ a \in DOMAIN members(judged) <=> n \in DOMAIN members(args)
                   /\ a \in DOMAIN members(judged) => members(judged)[a] = members(args)[n]
    BY <1>5, JudgedValue
  <2>0. /\ required(shown) = {ShownName(w, action, a) : a \in ShownArgs(w, action) \cap required(schema)}
        /\ \A n \in DOMAIN properties(shown) : \E a \in ShownArgs(w, action) :
             ShownName(w, action, a) = n /\ properties(shown)[n] = ShownLimits(w, action, a)
    BY <1>5, ShownIs
  <2> HIDE DEF schema, judged, shown
  <2>2. required(shown) \subseteq DOMAIN members(args)
    <3> SUFFICES ASSUME NEW a \in ShownArgs(w, action) \cap required(schema)
                 PROVE  ShownName(w, action, a) \in DOMAIN members(args)
      BY <2>0
    <3> QED
      BY <1>3, <2>1
  <2>3. ASSUME NEW n \in DOMAIN members(args) \cap DOMAIN properties(shown)
        PROVE  Accepts(properties(shown)[n], members(args)[n])
    <3>1. PICK a \in ShownArgs(w, action) :
            ShownName(w, action, a) = n /\ properties(shown)[n] = ShownLimits(w, action, a)
      BY <2>0
    <3>2. properties(shown)[n] = ShownLimits(w, action, a)
      BY <3>1
    <3> DEFINE src == cap_args(w, action)[a]
               v == members(args)[n]
    <3>3. a \in DOMAIN members(judged) /\ members(judged)[a] = v /\ actor_name(src, a) = {n}
      BY <2>1, <3>1
    <3>4. Accepts(BaseLimits(w, action, a), v)
      <4>1. CASE a \in DOMAIN properties(schema)
        <5>1. Accepts(properties(schema)[a], v)
          BY <1>3, <3>3, <4>1
        <5> QED
          BY <4>1, <5>1 DEF BaseLimits, schema
      <4>2. CASE a \notin DOMAIN properties(schema)
        <5>1. BaseLimits(w, action, a) = Empty
          BY <4>2 DEF BaseLimits, schema
        <5> QED
          BY <5>1 DEF Accepts, Empty
      <4> QED
        BY <4>1, <4>2
    <3>5. CASE src.from = "input"
      <4>1. a \in DOMAIN cap_args(w, action)
        BY <3>1 DEF ShownArgs
      <4>2. admits(src, v)
        BY <1>1, <1>5, <3>3, <3>5, <4>1 DEF check_input_rules
      <4>3. Accepts(Limited(BaseLimits(w, action, a), src.one_of, src.prefix), v)
        BY <3>4, <4>2, LimitedIsAccepted DEF admits
      <4> QED
        BY <3>2, <3>5, <4>3 DEF ShownLimits
    <3>6. CASE src.from # "input"
      <4>1. Accepts(Limited(BaseLimits(w, action, a), {}, {}), v)
        BY <3>4, LimitedIsAccepted
      <4> QED
        BY <3>2, <3>6, <4>1 DEF ShownLimits
    <3> QED
      BY <3>5, <3>6
  <2> QED
    BY <2>2, <2>3 DEF shown
<1> QED
  BY <1>4, <1>5

\* What the gate lets run, or be asked for, was admitted, and its effective call is the
\* one that would run (gate.rs: response).
LEMMA GateAdmits ==
  ASSUME NEW w, NEW req, NEW granted
  PROVE  LET res == gate(w, req, granted)
         IN  /\ res.decision = "Allow" => admissible(w, res.action, req.arguments)
             /\ \A e \in res.effective : /\ e = effective_call(w, res.action, req.arguments)
                                         /\ admissible(w, res.action, req.arguments)
<1> DEFINE action == classify_call(w, req.tool, req.arguments, req.path)
           policy == CHOOSE p \in UNION {channel_policy(w, c) : c \in req.source_channel} : TRUE
           res == gate(w, req, granted)
<1>1. CASE malformed(w, req) # None
  <2>1. res = refused(w, req, action, malformed(w, req))
    BY <1>1 DEF gate
  <2>2. res.decision = "Deny" /\ res.effective = {}
    BY <2>1 DEF refused, denied_response
  <2> HIDE DEF res
  <2> QED
    BY <2>2 DEF res
<1>2. CASE malformed(w, req) = None
  <2>1. res = governed(w, req, granted, action, policy)
    BY <1>2 DEF gate
  <2> DEFINE inbound == join(parse_taint[CHOOSE t \in req.taint : TRUE], policy.taint)
             ctx == [taint |-> taint_context(req, inbound), mode |-> parse_mode(req.mode),
                     usage |-> carried(req), approval_granted |-> granted]
             kernel == decide(w, action, req.arguments, policy.trust, ctx)
             final == tightened(kernel, path_scope(w, action, req.path, parse_mode(req.mode)))
  <2>2. res = response(w, req, action, inbound, taint_context(req, inbound), kernel, final)
    <3>1. governed(w, req, granted, action, policy)
            = decided(w, req, granted, action, policy.trust, inbound, taint_context(req, inbound))
      BY DEF governed
    <3> HIDE DEF action, policy, inbound, res
    <3> QED
      BY <2>1, <3>1 DEF decided, scoped_response, inbound
  <2> HIDE DEF action, policy, inbound, ctx, res, final
  <2>3. /\ res.action = action /\ res.decision = final.decision
        /\ \A e \in res.effective : kernel.sealed /\ e = effective_call(w, action, req.arguments)
    <3> HIDE DEF kernel
    <3> QED
      BY <2>2 DEF response
  <2>4. final.decision = "Allow" => kernel.decision = "Allow"
    <3> HIDE DEF kernel
    <3> QED
      BY DEF final, tightened
  <2>5. kernel.decision = "Allow" \/ kernel.sealed
          => build_error(w, action, req.arguments, policy.trust, ctx.taint) = None
    BY UnrepresentableIsRefused
  <2>6. kernel.decision = "Allow" \/ kernel.sealed => admissible(w, action, req.arguments)
    BY <2>5 DEF build_error, None
  <2> HIDE DEF kernel
  <2> QED
    BY <2>3, <2>4, <2>6 DEF res
<1> QED
  BY <1>1, <1>2

\* A call that runs with the effective arguments of what was admitted is as scoped.
LEMMA RunsAsScoped ==
  ASSUME WorldKnown, NEW r, NEW args, admissible(world, r.action, args), r.asked = members(args),
         r.args = members(effective_call(world, r.action, args).arguments)
  PROVE  AsScoped(r)
<1> SUFFICES ASSUME scoped(world, r.action)
             PROVE  AsScoped(r)
  BY DEF AsScoped
<1> DEFINE action == r.action
           gets == members(effective_call(world, action, args).arguments)
<1>1. SourcesNameOne(world, action) /\ check_input_rules(world, action, args)
  BY SourcesKnown DEF admissible
<1>2. /\ DOMAIN gets \subseteq DOMAIN cap_args(world, action)
      /\ literals(world, action) \subseteq DOMAIN gets
      /\ \A a \in DOMAIN gets : FromSource(cap_args(world, action)[a], a, gets[a], members(args))
  BY <1>1, EffectiveIsScoped
<1>3. r.args = gets
  OBVIOUS
<1> HIDE DEF gets
<1> QED
  BY <1>2, <1>3 DEF AsScoped

\* What runs is as scoped, and what waits for a person would be.
AskedAsScoped(a) ==
  \A e \in a.answer.effective : /\ e = effective_call(world, a.answer.action, a.call.arguments)
                                /\ admissible(world, a.answer.action, a.call.arguments)
ScopedRuns ==
  /\ \A r \in sent : AsScoped(r) /\ AsShown(r)
  /\ \A r \in running : AsScoped(r)
  /\ \A a \in asked : AskedAsScoped(a)
  /\ \A d \in doing : AsScoped(d.r)
  /\ \A a \in told : ~scoped(world, a.action)
  /\ \A r \in using : AsScoped(r)

LEMMA GatewayScopes ==
  ASSUME WorldKnown, ScopedRuns, GatewayNext, world' = world
  PROVE  \A r \in sent' : AsScoped(r)' /\ AsShown(r)'
<1>1. \A r : AsScoped(r)' = AsScoped(r) /\ AsShown(r)' = AsShown(r)
  BY DEF AsScoped, AsShown
<1>2. CASE sent' \subseteq sent
  BY <1>1, <1>2 DEF ScopedRuns
<1>3. ASSUME NEW call \in Requests[manifest], CallGoverned(call, govern(call, FALSE)),
             ~(sent' \subseteq sent)
      PROVE  \A r \in sent' : AsScoped(r) /\ AsShown(r)
  <2>1. PICK claimed \in BOOLEAN :
          CallDecided(call, claimed, IF claimed THEN govern(call, TRUE) ELSE govern(call, FALSE))
    BY <1>3 DEF CallGoverned, claims
  <2> DEFINE verdict == govern(call, claimed)
  <2>2. CallForwarded(call, claimed, verdict)
    BY <1>3, <2>1 DEF CallDecided, CallBlocked, CallNotForwardable
  <2>3. PICK target \in Target(call, verdict) :
          sent' = {Running(verdict.action, call.arguments, target.input, claimed)}
    BY <2>2 DEF CallForwarded
  <2> DEFINE r == Running(verdict.action, call.arguments, target.input, claimed)
  <2>4. verdict.decision = "Allow"
    BY <2>2 DEF CallForwarded
  <2>5. admissible(world, verdict.action, call.arguments)
    <3>1. GatewayRequest(call).arguments = call.arguments
      BY DEF GatewayRequest
    <3> QED
      BY <2>4, <3>1, GateAdmits DEF govern
  <2> HIDE DEF verdict
  <2>6. /\ r.action = verdict.action /\ r.asked = members(call.arguments)
        /\ r.args = members(effective_call(world, verdict.action, call.arguments).arguments)
    BY TargetInput DEF Running
  <2> HIDE DEF r
  <2>7. AsScoped(r)
    BY <2>5, <2>6, RunsAsScoped
  <2>8. AsShown(r)
    <3>1. IsValue(call.arguments)
      BY RequestsAssumption DEF WorldKnown, Validated, IsCall, IsArguments
    <3>2. is(call.arguments, "obj") => ~is(call.arguments, "null")
      BY <3>1 DEF IsValue, Kinds, is
    <3>3. SourcesNameOne(world, r.action)
      BY SourcesKnown
    <3> QED
      BY <2>5, <2>6, <3>2, <3>3, AdmittedIsShown DEF AsShown
  <2> QED
    BY <2>3, <2>7, <2>8 DEF r
<1>4. CASE ToolsList \/ CallAnswered \/ CallDemandsInput \/ CallBroken \/ UpstreamCloses
  <2>1. sent' \subseteq sent
    BY <1>4 DEF ToolsList, CallAnswered, CallDemandsInput, CallBroken, UpstreamCloses
  <2> QED
    BY <1>2, <2>1
<1> QED
  BY <1>1, <1>2, <1>3, <1>4 DEF GatewayNext

LEMMA WireScopes ==
  ASSUME WorldKnown, ScopedRuns, WireNext, world' = world
  PROVE  /\ \A r \in running' : AsScoped(r)'
         /\ \A a \in asked' : AskedAsScoped(a)'
<1>1. /\ \A r : AsScoped(r)' = AsScoped(r)
      /\ \A a : AskedAsScoped(a)' = AskedAsScoped(a)
  BY DEF AsScoped, AskedAsScoped
<1>2. ASSUME NEW call, NEW res, NEW consent, NEW r \in Started(call, res, consent),
             \A e \in res.effective : /\ e = effective_call(world, res.action, call.arguments)
                                      /\ admissible(world, res.action, call.arguments)
      PROVE  AsScoped(r)
  <2>1. PICK e \in res.effective : /\ r.action = res.action /\ r.asked = members(call.arguments)
                                   /\ r.args = members(e.arguments)
    BY DEF Started
  <2>2. /\ admissible(world, r.action, call.arguments)
        /\ r.args = members(effective_call(world, r.action, call.arguments).arguments)
    BY <1>2, <2>1
  <2> QED
    BY <2>1, <2>2, RunsAsScoped
<1>3. ASSUME NEW call, NEW granted, Govern(call, granted)
      PROVE  /\ \A r \in running' : AsScoped(r)
             /\ \A a \in asked' : AskedAsScoped(a)
  <2> DEFINE res == gate(world, WireRequest(call), granted)
  <2>1. \A e \in res.effective : /\ e = effective_call(world, res.action, call.arguments)
                                 /\ admissible(world, res.action, call.arguments)
    <3>1. WireRequest(call).arguments = call.arguments
      BY DEF WireRequest
    <3> QED
      BY <3>1, GateAdmits
  <2>2. /\ running' \subseteq Started(call, res, granted)
        /\ asked' = Asked(call, res)
    BY <1>3 DEF Govern, Carry
  <2> HIDE DEF res
  <2>3. \A r \in running' : AsScoped(r)
    BY <1>2, <2>1, <2>2
  <2>4. ASSUME NEW a \in asked' PROVE AskedAsScoped(a)
    <3>1. a.call = call /\ a.answer = res
      BY <2>2 DEF Asked
    <3> QED
      BY <2>1, <3>1 DEF AskedAsScoped
  <2> QED
    BY <2>3, <2>4
<1>4. CASE Call \/ CallAuthorized
  <2>1. PICK call, granted : Govern(call, granted)
    BY <1>4 DEF Call, CallAuthorized
  <2> QED
    BY <1>1, <1>3, <2>1
<1>5. CASE PersonApproves
  <2>1. PICK a \in asked : running' = Started(a.call, a.answer, TRUE)
    BY <1>5 DEF PersonApproves
  <2>2. asked' = {}
    BY <1>5 DEF PersonApproves
  <2>3. AskedAsScoped(a)
    BY DEF ScopedRuns
  <2>4. \A r \in running' : AsScoped(r)
    BY <1>2, <2>1, <2>3 DEF AskedAsScoped
  <2> QED
    BY <1>1, <2>2, <2>4
<1>6. CASE CallReturns \/ CallFails
  <2>1. running' = {} /\ asked' = asked
    BY <1>6 DEF CallReturns, CallFails
  <2> QED
    BY <1>1, <2>1 DEF ScopedRuns
<1> QED
  BY <1>4, <1>5, <1>6 DEF WireNext

LEMMA AgentScopes ==
  ASSUME WorldKnown, ScopedRuns, AgentNext, world' = world
  PROVE  \A d \in doing' : AsScoped(d.r)'
<1>1. \A r : AsScoped(r)' = AsScoped(r)
  BY DEF AsScoped
<1>2. CASE doing' \subseteq doing
  BY <1>1, <1>2 DEF ScopedRuns
<1>3. ASSUME NEW call, NEW consent, Decided(call, consent).decision = "Allow",
             NEW d \in Lowered(call, consent)
      PROVE  AsScoped(d.r)
  <2> DEFINE action == Classified(call)
             ctx == EvalContext(call, consent)
  <2>1. decide(world, action, call.arguments, "Trusted", ctx).decision = "Allow"
    BY <1>3 DEF Decided
  <2>2. PICK p \in effective_params(world, action, call.arguments, ExecEnv) :
          d.r = Running(action, call.arguments, p, consent)
    BY DEF Lowered
  <2> HIDE DEF action, ctx
  <2>3. build_error(world, action, call.arguments, "Trusted", ctx.taint) = None
    BY <2>1, UnrepresentableIsRefused
  <2>4. admissible(world, action, call.arguments)
    BY <2>3 DEF build_error, None
  <2> DEFINE r == d.r
  <2>5. /\ r.action = action /\ r.asked = members(call.arguments)
        /\ r.args = members(effective_call(world, action, call.arguments).arguments)
    BY <2>2, ParamsAreEffective DEF Running
  <2> HIDE DEF r
  <2>6. AsScoped(r)
    BY <2>4, <2>5, RunsAsScoped
  <2> QED
    BY <2>6 DEF r
<1>4. CASE UNCHANGED loop_vars
  BY <1>2, <1>4 DEF loop_vars
<1>5. CASE TurnMalformed \/ Declined \/ ClaimFails
  <2>1. doing' = doing
    BY <1>5 DEF TurnMalformed, Declined, ClaimFails
  <2> QED
    BY <1>2, <2>1
<1>6. ASSUME NEW call, CallProposed(call, Decided(call, FALSE).decision)
      PROVE  \A d \in doing' : AsScoped(d.r)'
  <2> DEFINE decision == Decided(call, FALSE).decision
  <2>1. CASE CallRefused(call, decision) \/ CallAsks(call, decision)
    <3>1. doing' = doing
      BY <2>1 DEF CallRefused, CallAsks
    <3> QED
      BY <1>2, <3>1
  <2>2. CASE CallAllowed(call, decision)
    <3>1. decision = "Allow" /\ \E d \in Lowered(call, FALSE) : doing' = {d}
      BY <2>2 DEF CallAllowed
    <3>2. PICK d \in Lowered(call, FALSE) : doing' = {d}
      BY <3>1
    <3>3. AsScoped(d.r)
      BY <1>3, <3>1
    <3> QED
      BY <1>1, <3>2, <3>3
  <2> QED
    BY <1>6, <2>1, <2>2 DEF CallProposed
<1>7. CASE Claimed
  <2>1. PICK call \in question :
          doing' = IF Decided(call, TRUE).decision = "Allow" THEN Lowered(call, TRUE) ELSE {}
    BY <1>7 DEF Claimed
  <2>2. ASSUME NEW d \in doing' PROVE AsScoped(d.r)
    <3>1. Decided(call, TRUE).decision = "Allow" /\ d \in Lowered(call, TRUE)
      BY <2>1
    <3> QED
      BY <1>3, <3>1
  <2> QED
    BY <1>1, <2>2
<1>8. CASE Returned \/ Errored
  <2>1. doing' = {}
    BY <1>8 DEF Returned, Errored
  <2> QED
    BY <1>2, <2>1
<1> QED
  BY <1>4, <1>5, <1>6, <1>7, <1>8 DEF AgentNext

\* Whatever the gate decides, it is about the action that the call really is.
LEMMA GateClassifies ==
  ASSUME NEW w, NEW req, NEW granted
  PROVE  gate(w, req, granted).action = classify_call(w, req.tool, req.arguments, req.path)
<1> DEFINE action == classify_call(w, req.tool, req.arguments, req.path)
           policy == CHOOSE p \in UNION {channel_policy(w, c) : c \in req.source_channel} : TRUE
           res == gate(w, req, granted)
<1>1. CASE malformed(w, req) # None
  <2>1. res = refused(w, req, action, malformed(w, req))
    BY <1>1 DEF gate
  <2> HIDE DEF action, res
  <2>2. res.action = action
    BY <2>1 DEF refused, denied_response
  <2> QED
    BY <2>2 DEF action, res
<1>2. CASE malformed(w, req) = None
  <2>1. res = governed(w, req, granted, action, policy)
    BY <1>2 DEF gate
  <2> HIDE DEF action, policy, res
  <2>2. res.action = action
    <3>1. \A inbound, tc, kernel, final : response(w, req, action, inbound, tc, kernel, final).action = action
      BY DEF response
    <3> QED
      BY <2>1, <3>1 DEF governed, decided, scoped_response
  <2> QED
    BY <2>2 DEF action, res
<1> QED
  BY <1>1, <1>2

LEMMA HookScopes ==
  ASSUME ScopedRuns, HooksOwnTools, HookNext, world' = world
  PROVE  /\ \A a \in told' : ~scoped(world, a.action)'
         /\ \A r \in using' : AsScoped(r)'
<1>1. \A r : AsScoped(r)' = AsScoped(r) /\ scoped(world, r.action)' = scoped(world, r.action)
  BY DEF AsScoped, scoped
<1>2. CASE told' \subseteq told /\ using' \subseteq using
  BY <1>1, <1>2 DEF ScopedRuns
<1>3. ASSUME NEW call \in HookCalls[host][manifest],
             HookDecides(call, gate(world, hook_request(call), FALSE))
      PROVE  /\ \A a \in told' : ~scoped(world, a.action)
             /\ using' = using
  <2> DEFINE res == gate(world, hook_request(call), FALSE)
  <2>1. PICK text : Answered(call, res, text)
    BY <1>3 DEF HookDecides, RefusedUncounted, RefusedUntracked, Judged
  <2>2. ~scoped(world, res.action)
    BY GateClassifies DEF HooksOwnTools
  <2> HIDE DEF res
  <2>3. using' = using /\ \A a \in told' : a.action = res.action
    BY <2>1 DEF Answered
  <2> QED
    BY <2>2, <2>3
<1>4. CASE HostRuns
  <2>1. told' = {} /\ \A r \in using' : \E a \in told : r.action = a.action
    BY <1>4 DEF HostRuns
  <2> QED
    BY <1>1, <2>1 DEF ScopedRuns, AsScoped
<1>5. CASE HostSkips \/ ToolReturns
  <2>1. told' \subseteq told /\ using' \subseteq using
    BY <1>5 DEF HostSkips, ToolReturns
  <2> QED
    BY <1>2, <2>1
<1>6. ASSUME NEW call \in HookCalls[host][manifest],
             HookDecides(call, gate(world, hook_request(call), FALSE))
      PROVE  /\ \A a \in told' : ~scoped(world, a.action)'
             /\ \A r \in using' : AsScoped(r)'
  BY <1>1, <1>3, <1>6 DEF ScopedRuns
<1> QED
  BY <1>4, <1>5, <1>2, <1>6 DEF HookNext

OwnToolsOnly == host \in HookHosts => HooksOwnTools

LEMMA OwnToolsStay == OwnToolsOnly /\ [Next]_vars => OwnToolsOnly'
<1> SUFFICES ASSUME OwnToolsOnly, [Next]_vars
             PROVE  OwnToolsOnly'
  OBVIOUS
<1>1. world' = world /\ manifest' = manifest /\ host' = host
  BY OneHostSteps DEF world_vars
<1> QED
  BY <1>1, RequestsStay DEF OwnToolsOnly, HooksOwnTools

LEMMA ScopedStarts == Init => WorldKnown /\ ScopedRuns
<1> SUFFICES ASSUME Init
             PROVE  WorldKnown /\ ScopedRuns
  OBVIOUS
<1>1. WorldKnown
  BY DEF Init, StartHost, Validated, WorldKnown
<1>2. ScopedRuns
  BY DEF Init, GatewayInit, WireInit, AgentInit, HookInit, ScopedRuns
<1> QED
  BY <1>1, <1>2

LEMMA ScopedStays == OwnToolsOnly /\ WorldKnown /\ ScopedRuns /\ [Next]_vars => ScopedRuns'
<1> SUFFICES ASSUME OwnToolsOnly, WorldKnown, ScopedRuns, [Next]_vars
             PROVE  ScopedRuns'
  OBVIOUS
<1>1. world' = world
  BY OneHostSteps DEF world_vars
<1>2. /\ \A r : /\ AsScoped(r)' = AsScoped(r) /\ AsShown(r)' = AsShown(r)
                /\ scoped(world, r.action)' = scoped(world, r.action)
      /\ \A a : AskedAsScoped(a)' = AskedAsScoped(a)
  BY <1>1 DEF AsScoped, AsShown, AskedAsScoped, scoped
<1>3. \A r \in sent' : AsScoped(r)' /\ AsShown(r)'
  <2>1. CASE GatewayNext
    BY <1>1, <2>1, GatewayScopes
  <2>2. CASE UNCHANGED gateway_vars
    BY <1>2, <2>2 DEF gateway_vars, ScopedRuns
  <2> QED
    BY <2>1, <2>2, OneHostSteps
<1>4. /\ \A r \in running' : AsScoped(r)'
      /\ \A a \in asked' : AskedAsScoped(a)'
  <2>1. CASE WireNext
    BY <1>1, <2>1, WireScopes
  <2>2. CASE UNCHANGED wire_vars
    BY <1>2, <2>2 DEF wire_vars, ScopedRuns
  <2> QED
    BY <2>1, <2>2, OneHostSteps
<1>5. \A d \in doing' : AsScoped(d.r)'
  <2>1. CASE AgentNext
    BY <1>1, <2>1, AgentScopes
  <2>2. CASE UNCHANGED agent_vars
    BY <1>2, <2>2 DEF agent_vars, loop_vars, ScopedRuns
  <2> QED
    BY <2>1, <2>2, OneHostSteps
<1>6. /\ \A a \in told' : ~scoped(world, a.action)'
      /\ \A r \in using' : AsScoped(r)'
  <2>1. CASE HookNext
    <3>1. HooksOwnTools
      BY <2>1 DEF HookNext, OwnToolsOnly
    <3> QED
      BY <1>1, <2>1, <3>1, HookScopes
  <2>2. CASE UNCHANGED hook_vars
    BY <1>2, <2>2 DEF hook_vars, ScopedRuns
  <2> QED
    BY <2>1, <2>2, OneHostSteps
<1> QED
  BY <1>3, <1>4, <1>5, <1>6 DEF ScopedRuns

\* In every session, of whatever manifest, a scoped capability runs with the literals of
\* the world and the values it lets its caller choose, also when a person said yes to it
\* in the host's own prompt; and what a client of the gateway sent of a tool is what that
\* tool was shown to take.  A host with hooks runs what was proposed and not the effective
\* call: there it is so as long as no call it proposes is judged as a capability (spec.rs:
\* effective_call; schema.rs: model_facing_schema; cc_hook.rs: decide).
THEOREM CapabilitiesRunAsWritten ==
  Spec /\ (host \in HookHosts => HooksOwnTools) => []ScopedAsWritten
<1>1. ScopedRuns => ScopedAsWritten
  BY DEF ScopedRuns, ScopedAsWritten, Ongoing, Allowed, ByAgent, ByHook
<1>2. WorldKnown /\ [Next]_vars => WorldKnown'
  BY WorldStays
<1> QED
  BY <1>1, <1>2, ScopedStarts, ScopedStays, OwnToolsStay, PTL DEF Spec, OwnToolsOnly


-----------------------------------------------------------------------------
(* Where paths lead and what a client connects to.                         *)

LEMMA FilesStand ==
  /\ Files \subseteq Seq(STRING) /\ <<"">> \in Files
  /\ \A d \in Files : Len(d) > 1 => Front(d) \in Files
  /\ Files \cap DOMAIN Links = {}
<1>1. Len(<<"">>) = 1
  OBVIOUS
<1>2. ~(1 > 1)
  OBVIOUS
<1>3. \A d : Len(d) > 1 => d # <<"">>
  BY <1>1, <1>2, Zenon
<1> QED
  BY <1>3, FileSystemAssumption, Zenon

LEMMA FollowedFiles ==
  ASSUME NEW d \in Files, NEW seg
  PROVE  Follow(d, seg) \subseteq Files
BY FilesStand DEF Follow

\* Where a path leads is found segment by segment, and what is found is there.
LEMMA FollowedIs ==
  ASSUME NEW path, Len(path) \in Nat
  PROVE  /\ Followed(path)[0] = {<<"">>}
         /\ \A n \in 1 .. Len(path) :
              Followed(path)[n] = UNION {Follow(d, path[n]) : d \in Followed(path)[n - 1]}
         /\ \A n \in 0 .. Len(path) : Followed(path)[n] \subseteq Files
<1> DEFINE m == Len(path)
           root == {<<"">>}
           next(n, D) == UNION {Follow(d, path[n]) : d \in D}
           F == [n \in 1 .. m |-> [D \in SUBSET Files |-> next(n, D)]]
           Is(at) == at = [n \in 0 .. m |-> IF n = 0 THEN root ELSE next(n, at[n - 1])]
           goes(at, n) == IF n = 0 THEN root ELSE next(n, at[n - 1])
<1>1. /\ root \in SUBSET Files
      /\ \A n \in 1 .. m : \A D \in SUBSET Files : next(n, D) \in SUBSET Files
  BY FilesStand, FollowedFiles
<1> HIDE DEF next, root
<1>2. \A n \in 1 .. m : \A D \in SUBSET Files : F[n][D] = next(n, D)
  BY Zenon
<1>3. \E at : Is(at)
  <2> HIDE DEF F
  <2>1. PICK at \in [0 .. m -> SUBSET Files] :
          at[0] = root /\ \A n \in 1 .. m : at[n] = F[n][at[n - 1]]
    <3>1. Steps(F, m, SUBSET Files)
      BY <1>1, <1>2 DEF Steps
    <3>2. \E at : Walk(at, root, F, m, SUBSET Files)
      BY <1>1, <3>1, WalkIs
    <3> QED
      BY <3>2 DEF Walk
  <2>2. ASSUME NEW n \in 0 .. m PROVE at[n] = goes(at, n)
    <3>1. n = 0 \/ (n # 0 /\ n \in 1 .. m /\ n - 1 \in 0 .. m)
      OBVIOUS
    <3> QED
      BY <1>2, <2>1, <3>1
  <2>3. [n \in 0 .. m |-> at[n]] = [n \in 0 .. m |-> goes(at, n)]
    BY <2>2, Zenon
  <2> QED
    BY <2>1, <2>3, Zenon
<1>4. Is(Followed(path))
  <2>1. Is(CHOOSE g : Is(g))
    BY <1>3, Zenon
  <2> QED
    BY <2>1 DEF Followed, root, next
<1>5. \A n \in 0 .. m : Followed(path)[n] = goes(Followed(path), n)
  <2> DEFINE f == Followed(path)
             g == [n \in 0 .. m |-> goes(f, n)]
  <2>1. \A n \in 0 .. m : g[n] = goes(f, n)
    BY Zenon
  <2>2. f = g
    BY <1>4, Zenon
  <2> QED
    BY <2>1, <2>2, Zenon
<1>6. /\ Followed(path)[0] = root
      /\ \A n \in 1 .. m : Followed(path)[n] = next(n, Followed(path)[n - 1])
  <2>1. 0 \in 0 .. m /\ \A n \in 1 .. m : n \in 0 .. m /\ n # 0
    OBVIOUS
  <2> QED
    BY <1>5, <2>1, Zenon
<1>7. \A n \in 0 .. m : Followed(path)[n] \in SUBSET Files
  <2> DEFINE f == Followed(path)
  <2>1. f[0] \in SUBSET Files /\ \A n \in 1 .. m : f[n - 1] \in SUBSET Files => f[n] \in SUBSET Files
    BY <1>1, <1>6
  <2> HIDE DEF f
  <2>2. \A n \in 0 .. m : f[n] \in SUBSET Files
    BY <2>1, Along
  <2> QED
    BY <2>2 DEF f
<1> QED
  BY <1>6, <1>7, Zenon DEF root, next

LEMMA CanonicalIsThere ==
  ASSUME NEW path, Len(path) \in Nat
  PROVE  canonicalize(path) \subseteq Files
<1>1. Len(path) \in 0 .. Len(path)
  OBVIOUS
<1> QED
  BY <1>1, FollowedIs DEF canonicalize

RootsExist == \A root \in Writable : canonicalize(root) # {}

\* What is contained in the writable roots is no link, and is under one of them
\* (fs_guard.rs: contained, resolve).
LEMMA ContainedIs ==
  ASSUME RootsExist, NEW path \in Seq(STRING), NEW p \in contained(path, Writable)
  PROVE  /\ Lands(p) = p
         /\ \E root \in Writable : \E r \in canonicalize(root) : IsPrefix(r, p)
<1> DEFINE joined == IF Head(path) = "" THEN path ELSE Cwd \o path
<1>1. /\ p \in resolve(joined)
      /\ \E root \in Writable : \E r \in resolve(root) : IsPrefix(r, p)
  BY DEF contained
<1>2. Len(joined) \in Nat
  <2>1. Cwd \in Seq(STRING)
    BY FileSystemAssumption
  <2>2. Cwd \o path \in Seq(STRING)
    BY <2>1
  <2>3. joined \in {path, Cwd \o path}
    OBVIOUS
  <2> HIDE DEF joined
  <2> QED
    BY <2>2, <2>3
<1> HIDE DEF joined
<1>3. \A root \in Writable : resolve(root) = canonicalize(root)
  BY DEF RootsExist, resolve
<1>4. p \notin DOMAIN Links
  <2>1. CASE canonicalize(joined) # {}
    <3>1. p \in canonicalize(joined)
      BY <1>1, <2>1 DEF resolve
    <3> QED
      BY <1>2, <3>1, CanonicalIsThere, FilesStand
  <2>2. CASE canonicalize(joined) = {}
    <3>1. ~is_symlink_leaf(joined)
      BY <1>1, <2>2 DEF resolve
    <3>2. p \in {Append(d, Last(joined)) : d \in canonicalize(Front(joined))}
      BY <1>1, <2>2 DEF resolve
    <3>3. PICK d \in canonicalize(Front(joined)) : p = Append(d, Last(joined))
      BY <3>2
    <3> QED
      BY <3>1, <3>3 DEF is_symlink_leaf
  <2> QED
    BY <2>1, <2>2
<1> QED
  BY <1>1, <1>3, <1>4 DEF Lands

\* The part of a text up to the first of some symbols.
LEMMA UptoIs ==
  ASSUME NEW S, NEW text \in Seq(S), NEW stops
  PROVE  \E m \in 0 .. Len(text) :
           /\ upto(text, stops) \in Seq(S) /\ Len(upto(text, stops)) = m
           /\ \A k \in 1 .. m : upto(text, stops)[k] = text[k] /\ text[k] \notin stops
           /\ m < Len(text) => text[m + 1] \in stops
<1> DEFINE I == {i \in 1 .. Len(text) : text[i] \in stops}
           at == SelectInSeq(text, LAMBDA s : s \in stops)
<1>1. at = IF I # {} THEN Min(I) ELSE 0
  BY Zenon DEF SelectInSeq
<1>2. I \in SUBSET Nat
  OBVIOUS
<1>3. CASE I = {}
  <2>1. upto(text, stops) = text
    BY <1>1, <1>3 DEF upto
  <2>2. \A k \in 1 .. Len(text) : text[k] \notin stops
    BY <1>3
  <2>3. Len(text) \in 0 .. Len(text) /\ ~(Len(text) < Len(text))
    OBVIOUS
  <2> QED
    BY <2>1, <2>2, <2>3
<1>4. CASE I # {}
  <2>1. \E i \in I : \A j \in I : i <= j
    <3> HIDE DEF I
    <3> QED
      BY <1>2, <1>4, LeastPlace
  <2>2. at \in I /\ \A j \in I : at <= j
    <3>1. at = CHOOSE x \in I : \A y \in I : x <= y
      BY <1>1, <1>4, Zenon DEF Min
    <3> HIDE DEF at, I
    <3> QED
      BY <2>1, <3>1
  <2>3. at # 0
    BY <2>2
  <2>4. upto(text, stops) = SubSeq(text, 1, at - 1)
    BY <2>3, Zenon DEF upto
  <2> HIDE DEF at
  <2>5. at \in 1 .. Len(text) /\ text[at] \in stops
    BY <2>2
  <2>6. \A k \in 1 .. at - 1 : text[k] \notin stops
    <3> SUFFICES ASSUME NEW k \in 1 .. at - 1, text[k] \in stops
                 PROVE  FALSE
      OBVIOUS
    <3>1. k \in I /\ ~(at <= k)
      BY <2>5
    <3> QED
      BY <2>2, <3>1
  <2>7. /\ SubSeq(text, 1, at - 1) \in Seq(S) /\ Len(SubSeq(text, 1, at - 1)) = at - 1
        /\ \A k \in 1 .. at - 1 : SubSeq(text, 1, at - 1)[k] = text[k]
    BY <2>5
  <2>8. at - 1 \in 0 .. Len(text) /\ (at - 1) + 1 = at
    BY <2>5
  <2> QED
    BY <2>4, <2>5, <2>6, <2>7, <2>8
<1> QED
  BY <1>3, <1>4

\* The part of a text behind the last of a symbol.
LEMMA AfterIs ==
  ASSUME NEW S, NEW text \in Seq(S), NEW sep
  PROVE  \E m \in 0 .. Len(text) :
           /\ after(text, sep) \in Seq(S) /\ Len(after(text, sep)) = Len(text) - m
           /\ \A k \in 1 .. Len(text) - m : after(text, sep)[k] = text[m + k] /\ text[m + k] # sep
           /\ m > 0 => text[m] = sep
<1> DEFINE I == {i \in 1 .. Len(text) : text[i] = sep}
           at == SelectLastInSeq(text, LAMBDA s : s = sep)
<1>1. at = IF I # {} THEN Max(I) ELSE 0
  BY Zenon DEF SelectLastInSeq
<1>2. after(text, sep) = SubSeq(text, at + 1, Len(text))
  BY Zenon DEF after
<1>3. /\ at \in 0 .. Len(text) /\ (at > 0 => text[at] = sep)
      /\ \A i \in at + 1 .. Len(text) : text[i] # sep
  <2>1. CASE I = {}
    <3>1. at = 0
      BY <1>1, <2>1
    <3> HIDE DEF at
    <3> QED
      BY <2>1, <3>1
  <2>2. CASE I # {}
    <3>1. \E i \in I : \A j \in I : i >= j
      <4>1. ArePlaces(I)
        BY DEF ArePlaces
      <4>2. I \subseteq Int
        OBVIOUS
      <4> HIDE DEF I
      <4>3. PICK i \in I : \A k \in I : k <= i
        BY <2>2, <4>1, LastPlace
      <4> QED
        BY <4>2, <4>3
    <3>2. at \in I /\ \A j \in I : at >= j
      <4>1. at = CHOOSE x \in I : \A y \in I : x >= y
        BY <1>1, <2>2, Zenon DEF Max
      <4> HIDE DEF at, I
      <4> QED
        BY <3>1, <4>1
    <3> HIDE DEF at
    <3>3. at \in 1 .. Len(text) /\ text[at] = sep
      BY <3>2
    <3>4. ASSUME NEW i \in at + 1 .. Len(text), text[i] = sep
          PROVE  FALSE
      <4>1. i \in I /\ ~(at >= i)
        BY <3>3, <3>4
      <4> QED
        BY <3>2, <4>1
    <3> QED
      BY <3>3, <3>4
  <2> QED
    BY <2>1, <2>2
<1> HIDE DEF at, I
<1>4. /\ SubSeq(text, at + 1, Len(text)) \in Seq(S)
      /\ Len(SubSeq(text, at + 1, Len(text))) = Len(text) - at
      /\ \A k \in 1 .. Len(text) - at : SubSeq(text, at + 1, Len(text))[k] = text[at + k]
  BY <1>3
<1>5. \A k \in 1 .. Len(text) - at : at + k \in at + 1 .. Len(text)
  BY <1>3
<1> QED
  BY <1>2, <1>3, <1>4, <1>5

\* A client connects to the host that was looked up in the policy, whatever the URL
\* says of a user or a port (web.rs: host_of).
LEMMA ReachedIsLookedUp ==
  ASSUME NEW S, NEW url \in Seq(S), NEW name \in host_of(url)
  PROVE  name \in Reaches(url)
<1> DEFINE stops == {"/", "?", "#"}
           authority == upto(Tail(url), stops)
           address == after(authority, "@")
           server == upto(address, {":"})
           places == {i \in 2 .. Len(url) : \A j \in 2 .. i : url[j] \notin {"/", "?", "#"}}
           behind == {i \in places : \A j \in places : url[j] = "@" => j < i}
<1>1. /\ url # <<>>
      /\ \E t \in DOMAIN Canonical : server = <<t>> /\ name = Canonical[t]
  BY Zenon DEF host_of
<1>2. PICK t : t \in DOMAIN Canonical /\ server = <<t>> /\ name = Canonical[t]
  BY <1>1
<1>3. Tail(url) \in Seq(S) /\ Len(Tail(url)) = Len(url) - 1 /\ Len(url) \in Nat \ {0}
      /\ \A i \in 1 .. Len(url) - 1 : Tail(url)[i] = url[i + 1]
  BY <1>1
<1>4. PICK m \in 0 .. Len(Tail(url)) :
           /\ authority \in Seq(S) /\ Len(authority) = m
           /\ \A i \in 1 .. m : authority[i] = Tail(url)[i] /\ Tail(url)[i] \notin stops
           /\ m < Len(Tail(url)) => Tail(url)[m + 1] \in stops
  BY <1>3, UptoIs
<1> HIDE DEF authority
<1>5. PICK a \in 0 .. Len(authority) :
           /\ address \in Seq(S) /\ Len(address) = Len(authority) - a
           /\ \A i \in 1 .. Len(authority) - a : address[i] = authority[a + i] /\ authority[a + i] # "@"
           /\ a > 0 => authority[a] = "@"
  <2>1. authority \in Seq(S)
    BY <1>4
  <2> QED
    BY <2>1, AfterIs, Zenon
<1>6. PICK h \in 0 .. Len(address) :
           /\ server \in Seq(S) /\ Len(server) = h
           /\ \A i \in 1 .. h : server[i] = address[i] /\ address[i] \notin {":"}
           /\ h < Len(address) => address[h + 1] \in {":"}
  BY <1>5, UptoIs
<1> HIDE DEF server
<1>7. h = 1 /\ server[1] = t
  BY <1>2, <1>6
<1> HIDE DEF address
<1>8. address[1] = t /\ Len(address) >= 1
  BY <1>6, <1>7
<1>9. m - a >= 1 /\ authority[a + 1] = t
  BY <1>4, <1>5, <1>8
<1>10. a + 1 \in 1 .. m /\ m \in 0 .. Len(url) - 1 /\ a \in 0 .. m
  BY <1>3, <1>4, <1>5, <1>9
<1>11. url[a + 2] = t
  <2>1. authority[a + 1] = Tail(url)[a + 1]
    BY <1>4, <1>10
  <2>2. Tail(url)[a + 1] = url[(a + 1) + 1]
    BY <1>3, <1>10
  <2>3. (a + 1) + 1 = a + 2
    BY <1>10
  <2> QED
    BY <1>9, <2>1, <2>2, <2>3
<1>12. \A i \in 2 .. m + 1 : url[i] \notin stops /\ authority[i - 1] = url[i]
  <2> TAKE i \in 2 .. m + 1
  <2>1. i - 1 \in 1 .. m /\ i - 1 \in 1 .. Len(url) - 1 /\ (i - 1) + 1 = i
    BY <1>10
  <2>2. Tail(url)[i - 1] = url[(i - 1) + 1]
    BY <1>3, <2>1
  <2> QED
    BY <1>4, <2>1, <2>2
<1>13. \A i \in places : i \in 2 .. m + 1
  <2> SUFFICES ASSUME NEW i \in places, i > m + 1
               PROVE  FALSE
    BY <1>10
  <2>1. m < Len(Tail(url)) /\ m + 2 \in 2 .. i /\ m + 1 \in 1 .. Len(url) - 1 /\ (m + 1) + 1 = m + 2
    BY <1>3, <1>10
  <2>2. Tail(url)[m + 1] = url[m + 2]
    <3>1. Tail(url)[m + 1] = url[(m + 1) + 1]
      BY <1>3, <2>1
    <3> QED
      BY <2>1, <3>1
  <2>3. url[m + 2] \in stops
    BY <1>4, <2>1, <2>2
  <2> QED
    BY <2>1, <2>3
<1>14. \A i \in 2 .. m + 1 : i \in places
  BY <1>10, <1>12
<1> HIDE DEF stops
<1>15. ASSUME NEW j \in places, url[j] = "@"
       PROVE  j < a + 2
  <2> SUFFICES ASSUME j >= a + 2
               PROVE  FALSE
    BY <1>10, <1>13
  <2>1. j \in 2 .. m + 1 /\ j - 1 - a \in 1 .. m - a /\ a + (j - 1 - a) = j - 1
    BY <1>10, <1>13
  <2>2. authority[a + (j - 1 - a)] # "@"
    BY <1>4, <1>5, <2>1
  <2> QED
    BY <1>12, <1>15, <2>1, <2>2
<1>16. a + 2 \in behind
  BY <1>10, <1>14, <1>15
<1>17. ASSUME NEW k \in behind
       PROVE  a + 2 <= k
  <2>1. CASE a = 0
    BY <1>13, <2>1
  <2>2. CASE a > 0
    <3>1. a + 1 \in 2 .. m + 1 /\ (a + 1) - 1 = a
      BY <1>10, <2>2
    <3>2. url[a + 1] = "@"
      BY <1>5, <1>12, <2>2, <3>1
    <3>3. a + 1 < k
      BY <1>14, <1>17, <3>1, <3>2
    <3> QED
      BY <1>10, <1>13, <1>17, <3>3
  <2> QED
    BY <1>10, <2>1, <2>2
<1> QED
  BY <1>2, <1>11, <1>16, <1>17 DEF Reaches

-----------------------------------------------------------------------------
(* The roots of a world and what they let.                                 *)

\* A text path without the segments that say nothing is a path (hostkit.rs:
\* normalize_dots).
LEMMA DotsNormalized ==
  ASSUME NEW path \in Seq(STRING)
  PROVE  normalize_dots(path) \in Seq(STRING) \ {<<>>}
<1> DEFINE m == Len(path)
           S == Seq(STRING) \ {<<>>}
           root == <<"">>
           next(n, d) == Onward(d, path[n])
           F == [n \in 1 .. m |-> [d \in S |-> next(n, d)]]
           Is(at) == at = [n \in 0 .. m |-> IF n = 0 THEN root ELSE next(n, at[n - 1])]
           goes(at, n) == IF n = 0 THEN root ELSE next(n, at[n - 1])
<1>1. root \in S /\ m \in Nat
  <2>1. <<"">> \in Seq(STRING)
    BY FilesStand
  <2>2. <<"">> # <<>>
    OBVIOUS
  <2>3. m \in Nat
    OBVIOUS
  <2> QED
    BY <2>1, <2>2, <2>3
<1>2. ASSUME NEW n \in 1 .. m, NEW d \in S PROVE next(n, d) \in S
  <2>1. path[n] \in STRING /\ Append(d, path[n]) \in S
    OBVIOUS
  <2>2. Len(d) > 1 => Front(d) \in S
    <3> DEFINE k == Len(d) - 1
    <3> SUFFICES ASSUME Len(d) > 1
                 PROVE  Front(d) \in S
      OBVIOUS
    <3>1. k \in 1 .. Len(d) /\ Front(d) = SubSeq(d, 1, k)
      BY DEF Front
    <3> HIDE DEF k
    <3>2. SubSeq(d, 1, k) \in Seq(STRING) /\ Len(SubSeq(d, 1, k)) = k
      BY <3>1
    <3> QED
      BY <3>1, <3>2
  <2> HIDE DEF S
  <2> QED
    BY <2>1, <2>2 DEF Onward
<1> HIDE DEF next, root
<1>3. \A n \in 1 .. m : \A d \in S : F[n][d] = next(n, d)
  BY Zenon
<1>4. \E at : Is(at) /\ at \in [0 .. m -> S]
  <2> HIDE DEF F, S
  <2>1. PICK at \in [0 .. m -> S] :
          at[0] = root /\ \A n \in 1 .. m : at[n] = F[n][at[n - 1]]
    <3>1. Steps(F, m, S)
      BY <1>2, <1>3 DEF Steps
    <3>2. \E at : Walk(at, root, F, m, S)
      BY <1>1, <3>1, WalkIs
    <3> QED
      BY <3>2 DEF Walk
  <2>2. ASSUME NEW n \in 0 .. m PROVE at[n] = goes(at, n)
    <3>1. n = 0 \/ (n # 0 /\ n \in 1 .. m /\ n - 1 \in 0 .. m)
      BY <1>1
    <3> QED
      BY <1>3, <2>1, <3>1
  <2>3. [n \in 0 .. m |-> at[n]] = [n \in 0 .. m |-> goes(at, n)]
    BY <2>2, Zenon
  <2> QED
    BY <2>1, <2>3, Zenon
<1> DEFINE out == CHOOSE g : Is(g)
<1>5. Is(out)
  BY <1>4, Zenon
<1>6. normalize_dots(path) = out[m]
  BY DEF normalize_dots, root, next
<1> HIDE DEF out
<1>7. /\ out[0] = root
      /\ \A n \in 1 .. m : out[n] = next(n, out[n - 1])
  <2>1. \A n \in 0 .. m : out[n] = goes(out, n)
    <3> DEFINE g == [n \in 0 .. m |-> goes(out, n)]
    <3>1. \A n \in 0 .. m : g[n] = goes(out, n)
      BY Zenon
    <3>2. out = g
      BY <1>5, Zenon
    <3> QED
      BY <3>1, <3>2, Zenon
  <2>2. 0 \in 0 .. m /\ \A n \in 1 .. m : n \in 0 .. m /\ n # 0
    BY <1>1
  <2> QED
    BY <2>1, <2>2, Zenon
<1>8. \A n \in 0 .. m : out[n] \in S
  <2> HIDE DEF S
  <2>1. out[0] \in S /\ \A n \in 1 .. m : out[n - 1] \in S => out[n] \in S
    BY <1>1, <1>2, <1>7
  <2> QED
    BY <1>1, <2>1, Along
<1>9. m \in 0 .. m
  BY <1>1
<1> QED
  BY <1>6, <1>8, <1>9

\* Without the slashes at its end, a path is a path (hostkit.rs: resolve_root_paths).
LEMMA TrimmedPath ==
  ASSUME NEW path \in Seq(STRING) \ {<<>>}
  PROVE  trim(path) \in Seq(STRING) \ {<<>>}
<1> DEFINE n == Len(Reverse(path))
           holds(i) == Reverse(path)[i] # ""
           I == {i \in 1 .. n : holds(i)}
<1>1. trimmed(path) = IF I # {} THEN Min(I) ELSE 0
  BY Zenon DEF trimmed, SelectInSeq
<1>2. Len(path) \in Nat \ {0} /\ path[1] \in STRING
  OBVIOUS
<1>3. n = Len(path)
  BY DEF Reverse
<1> HIDE DEF n, holds
<1>4. CASE I = {}
  <2>1. trimmed(path) = 0
    BY <1>1, <1>4
  <2>2. trim(path) = SubSeq(path, 1, 1)
    BY <2>1 DEF trim
  <2> QED
    BY <1>2, <2>2
<1>5. CASE I # {}
  <2>1. I \in SUBSET Nat
    BY <1>2, <1>3
  <2>2. \E i \in I : \A j \in I : i <= j
    <3> HIDE DEF I
    <3> QED
      BY <1>5, <2>1, LeastPlace
  <2>3. trimmed(path) \in I
    <3>1. trimmed(path) = CHOOSE x \in I : \A y \in I : x <= y
      BY <1>1, <1>5, Zenon DEF Min
    <3> HIDE DEF I
    <3> QED
      BY <2>2, <3>1
  <2>4. trimmed(path) \in 1 .. Len(path) /\ trimmed(path) # 0
    BY <1>2, <1>3, <2>3
  <2>5. trim(path) = SubSeq(path, 1, Len(path) - trimmed(path) + 1)
    BY <2>4 DEF trim
  <2>6. Len(path) - trimmed(path) + 1 \in 1 .. Len(path)
    BY <1>2, <2>4
  <2> DEFINE k == Len(path) - trimmed(path) + 1
  <2> HIDE DEF k
  <2>7. k \in 1 .. Len(path) /\ trim(path) = SubSeq(path, 1, k)
    BY <2>5, <2>6 DEF k
  <2>8. SubSeq(path, 1, k) \in Seq(STRING) /\ Len(SubSeq(path, 1, k)) = k
    BY <1>2, <2>7
  <2>9. SubSeq(path, 1, k) # <<>>
    BY <2>7, <2>8
  <2> QED
    BY <2>7, <2>8, <2>9
<1> QED
  BY <1>4, <1>5

LEMMA JoinedPath ==
  ASSUME NEW p \in Seq(STRING) \ {<<>>}, NEW q \in Seq(STRING)
  PROVE  p \o q \in Seq(STRING) \ {<<>>}
<1>1. p \o q \in Seq(STRING) /\ Len(p \o q) = Len(p) + Len(q) /\ Len(p) > 0 /\ Len(q) >= 0
  OBVIOUS
<1> QED
  BY <1>1

LEMMA RootExpanded ==
  ASSUME NEW p \in Seq(STRING) \ {<<>>}
  PROVE  expand_root_path(p, Home, Base) \in Seq(STRING) \ {<<>>}
<1> DEFINE S == Seq(STRING) \ {<<>>}
           rel == IF Len(p) > 1 /\ Head(p) = "." THEN Tail(p) ELSE p
           from == IF Head(p) = "~" THEN IF Home = {} THEN {p} ELSE Home
                   ELSE IF Base = {} THEN {p} ELSE Base
           under == CHOOSE q \in Home \cup Base \cup {p} : q \in from
<1>1. rel \in S
  <2>1. Len(p) > 1 => Tail(p) \in Seq(STRING) /\ Len(Tail(p)) = Len(p) - 1 /\ Len(p) - 1 > 0
    OBVIOUS
  <2>2. \A q \in Seq(STRING) : Len(q) > 0 => q \in S
    OBVIOUS
  <2>3. Len(p) > 1 => Tail(p) \in S
    <3> HIDE DEF S
    <3> QED
      BY <2>1, <2>2
  <2> QED
    BY <2>3
<1>2. Tail(p) \in Seq(STRING)
  OBVIOUS
<1>3. under \in S
  <2>1. \E q \in Home \cup Base \cup {p} : q \in from
    OBVIOUS
  <2>2. Home \cup Base \cup {p} \subseteq S
    BY PlacesAssumption DEF Option
  <2> HIDE DEF from, S
  <2> QED
    BY <2>1, <2>2
<1>4. expand_root_path(p, Home, Base)
        = IF Head(p) = "" \/ under = p THEN trim(p)
          ELSE IF Head(p) = "~" THEN trim(trim(under) \o Tail(p))
          ELSE IF rel = <<".">> THEN trim(under)
          ELSE trim(trim(under) \o rel)
  BY Zenon DEF expand_root_path
<1> HIDE DEF under, rel, from
<1>5. trim(p) \in S /\ trim(under) \in S
  BY <1>3, TrimmedPath
<1>6. trim(under) \o Tail(p) \in S /\ trim(under) \o rel \in S
  BY <1>1, <1>2, <1>5, JoinedPath
<1>7. trim(trim(under) \o Tail(p)) \in S /\ trim(trim(under) \o rel) \in S
  BY <1>6, TrimmedPath
<1> HIDE DEF S
<1>8. expand_root_path(p, Home, Base) \in S
  BY <1>4, <1>5, <1>7
<1> QED
  BY <1>8 DEF S

\* The roots of a world have the shape of a manifest's, absolute and canonical or not.
LEMMA RootCanonical ==
  ASSUME NEW p \in Seq(STRING) \ {<<>>}
  PROVE  canonical_root(p) \in Seq(STRING) \ {<<>>}
<1>1. ASSUME NEW q \in canonicalize(p) PROVE q \in Seq(STRING) \ {<<>>}
  <2>1. Len(p) \in Nat
    OBVIOUS
  <2>2. q \in Files
    BY <2>1, CanonicalIsThere
  <2>3. <<"">> # <<>> /\ ~(Len(<<>>) > 1)
    OBVIOUS
  <2>4. q # <<>>
    BY <2>2, <2>3, FileSystemAssumption
  <2> QED
    BY <2>2, <2>4, FilesStand
<1>2. normalize_dots(p) \in Seq(STRING) \ {<<>>}
  BY DotsNormalized
<1> QED
  BY <1>1, <1>2 DEF canonical_root

LEMMA RewrittenRoots ==
  ASSUME NEW roots \in RootsDef,
         NEW F \in [Seq(STRING) \ {<<>>} -> Seq(STRING) \ {<<>>}]
  PROVE  LET rules == roots.rules
         IN  [roots EXCEPT !.rules =
                [i \in DOMAIN rules |-> [rules[i] EXCEPT !.path = F[rules[i].path]]]] \in RootsDef
<1> DEFINE rules == roots.rules
           new(i) == [rules[i] EXCEPT !.path = F[rules[i].path]]
           list == [i \in DOMAIN rules |-> new(i)]
<1>1. /\ roots.default \in RootAccess /\ rules \in Seq(RootRule)
      /\ roots = [default |-> roots.default, rules |-> roots.rules]
  BY DEF RootsDef
<1>2. \A i \in DOMAIN rules : rules[i] \in RootRule
  BY <1>1
<1>3. \A i \in DOMAIN rules : new(i) \in RootRule
  BY <1>2 DEF RootRule
<1> HIDE DEF new, rules
<1>4. DOMAIN rules = 1 .. Len(rules) /\ Len(rules) \in Nat
  BY <1>1
<1>5. list \in Seq(RootRule)
  BY <1>3, <1>4
<1> HIDE DEF list
<1>6. [roots EXCEPT !.rules = list] \in RootsDef
  BY <1>1, <1>5 DEF RootsDef
<1> QED
  BY <1>6 DEF list, new, rules

LEMMA RootsKnown == WorldKnown => world.roots \subseteq RootsDef
<1> SUFFICES ASSUME WorldKnown
             PROVE  world.roots \subseteq RootsDef
  OBVIOUS
<1> DEFINE m == Manifests[manifest]
           S == Seq(STRING) \ {<<>>}
           F == [p \in S |-> expand_root_path(p, Home, Base)]
           G == [p \in S |-> canonical_root(p)]
<1>1. IsWorldManifest(m)
  BY ManifestsAssumption DEF WorldKnown
<1>2. m.roots \subseteq RootsDef
  BY <1>1 DEF IsWorldManifest, Option
<1>3. F \in [S -> S] /\ G \in [S -> S]
  BY RootExpanded, RootCanonical
<1>4. \A p \in S : F[p] = expand_root_path(p, Home, Base) /\ G[p] = canonical_root(p)
  OBVIOUS
<1> HIDE DEF F, G
<1>5. ASSUME NEW r \in RootsDef
      PROVE  r.rules \in Seq(RootRule) /\ \A i \in DOMAIN r.rules : r.rules[i].path \in S
  <2>1. r.rules \in Seq(RootRule)
    BY DEF RootsDef
  <2>2. \A i \in DOMAIN r.rules : r.rules[i] \in RootRule
    BY <2>1
  <2> QED
    BY <2>1, <2>2 DEF RootRule
<1> HIDE DEF S
<1>6. ASSUME NEW r \in RootsDef PROVE resolve_root_paths(r, Home, Base) \in RootsDef
  <2> DEFINE rules == r.rules
             new(i) == [rules[i] EXCEPT !.path = F[rules[i].path]]
             old(i) == [rules[i] EXCEPT !.path = expand_root_path(rules[i].path, Home, Base)]
  <2>1. \A i \in DOMAIN rules : new(i) = old(i)
    BY <1>4, <1>5
  <2>2. [r EXCEPT !.rules = [i \in DOMAIN rules |-> new(i)]] \in RootsDef
    BY <1>3, RewrittenRoots DEF S
  <2>3. resolve_root_paths(r, Home, Base) = [r EXCEPT !.rules = [i \in DOMAIN rules |-> old(i)]]
    BY Zenon DEF resolve_root_paths
  <2> HIDE DEF rules, new, old
  <2> QED
    BY <2>1, <2>2, <2>3
<1>7. ASSUME NEW r \in RootsDef PROVE canonicalize_root_paths(r) \in RootsDef
  <2> DEFINE rules == r.rules
             new(i) == [rules[i] EXCEPT !.path = G[rules[i].path]]
             old(i) == [rules[i] EXCEPT !.path = canonical_root(rules[i].path)]
  <2>1. \A i \in DOMAIN rules : new(i) = old(i)
    BY <1>4, <1>5
  <2>2. [r EXCEPT !.rules = [i \in DOMAIN rules |-> new(i)]] \in RootsDef
    BY <1>3, RewrittenRoots DEF S
  <2>3. canonicalize_root_paths(r) = [r EXCEPT !.rules = [i \in DOMAIN rules |-> old(i)]]
    BY Zenon DEF canonicalize_root_paths
  <2> HIDE DEF rules, new, old
  <2> QED
    BY <2>1, <2>2, <2>3
<1>8. CASE host = "gateway"
  <2>1. world.roots = m.roots
    BY <1>8 DEF WorldKnown, compile
  <2> QED
    BY <1>2, <2>1
<1>9. CASE host # "gateway"
  <2> DEFINE roots == {canonicalize_root_paths(resolve_root_paths(r, Home, Base)) : r \in m.roots}
             n == [m EXCEPT !.roots = roots]
  <2>1. world = compile(n)
    BY <1>9 DEF WorldKnown, load_compiled_world
  <2>2. "roots" \in DOMAIN m
    BY <1>1 DEF IsWorldManifest
  <2>3. roots \subseteq RootsDef
    BY <1>2, <1>6, <1>7
  <2>4. n.roots = roots
    BY <2>2
  <2> HIDE DEF n, roots
  <2>5. world.roots = n.roots
    BY <2>1 DEF compile
  <2> QED
    BY <2>3, <2>4, <2>5
<1> QED
  BY <1>8, <1>9

\* No two roots of the world lead to one folder and differ in what they let: of two such,
\* the later in the manifest decides (compiled.rs: best_root_rule).
RootsAreApart ==
  \A roots \in world.roots : \A i, j \in DOMAIN roots.rules :
    roots.rules[i].path = roots.rules[j].path => roots.rules[i].access = roots.rules[j].access

\* The longest of the rules above a path, and the last of them.
LEMMA BestRootRule ==
  ASSUME NEW roots \in RootsDef, NEW path, matching_rules(roots, path) # {}
  PROVE  /\ best_root_rule(roots, path) \in matching_rules(roots, path)
         /\ \A j \in matching_rules(roots, path) :
              Len(roots.rules[j].path) <= Len(roots.rules[best_root_rule(roots, path)].path)
<1> DEFINE I == matching_rules(roots, path)
           len == [i \in DOMAIN roots.rules |-> Len(roots.rules[i].path)]
           best(J, i) == i \in J /\ \A j \in J : len[j] < len[i] \/ (len[j] = len[i] /\ j <= i)
           T == {n \in Nat : LET J == I \cap (1 .. n) IN J # {} => \E i \in J : best(J, i)}
<1>1. /\ roots.rules \in Seq(RootRule) /\ I \subseteq DOMAIN roots.rules
  BY DEF RootsDef, matching_rules
<1>2. /\ Len(roots.rules) \in Nat /\ DOMAIN roots.rules = 1 .. Len(roots.rules)
      /\ \A i \in DOMAIN roots.rules : roots.rules[i] \in RootRule
  BY <1>1
<1>3. \A i \in I : len[i] \in Nat /\ len[i] = Len(roots.rules[i].path)
  BY <1>1, <1>2 DEF RootRule
<1>4. I \subseteq 1 .. Len(roots.rules) /\ I # {}
  BY <1>1, <1>2
<1> HIDE DEF I, len
<1>5. 0 \in T
  OBVIOUS
<1>6. ASSUME NEW n \in Nat, n \in T PROVE n + 1 \in T
  <2> DEFINE J == I \cap (1 .. n)
             K == I \cap (1 .. n + 1)
  <2>1. /\ \A j \in J : j \in K /\ j \in Nat /\ j <= n
        /\ \A k \in K : k \in J \/ k = n + 1
    OBVIOUS
  <2>2. \A j \in K : len[j] \in Nat
    BY <1>3
  <2>3. J # {} => \E i \in J : best(J, i)
    BY <1>6
  <2> SUFFICES ASSUME K # {}
               PROVE  \E i \in K : best(K, i)
    OBVIOUS
  <2> HIDE DEF J, K
  <2>4. CASE n + 1 \notin K
    <3>1. J # {} /\ \A k \in K : k \in J
      BY <2>1, <2>4
    <3> QED
      BY <2>1, <2>3, <3>1
  <2>5. CASE n + 1 \in K /\ J = {}
    <3>1. best(K, n + 1)
      BY <2>1, <2>5
    <3> QED
      BY <2>5, <3>1
  <2>6. CASE n + 1 \in K /\ J # {}
    <3>1. PICK i \in J : best(J, i)
      BY <2>3, <2>6
    <3>2. len[i] \in Nat /\ len[n + 1] \in Nat /\ i \in Nat /\ i <= n
      BY <2>1, <2>2, <2>6
    <3>3. CASE len[n + 1] < len[i]
      <4>1. best(K, i)
        BY <2>1, <3>1, <3>3
      <4> QED
        BY <2>1, <4>1
    <3>4. CASE ~(len[n + 1] < len[i])
      <4>1. ASSUME NEW k \in K
            PROVE  len[k] < len[n + 1] \/ (len[k] = len[n + 1] /\ k <= n + 1)
        <5>1. CASE k = n + 1
          BY <5>1
        <5>2. CASE k \in J
          BY <2>1, <2>2, <3>1, <3>2, <3>4, <5>2
        <5> QED
          BY <2>1, <5>1, <5>2
      <4> QED
        BY <2>6, <4>1
    <3> QED
      BY <3>3, <3>4
  <2> QED
    BY <2>4, <2>5, <2>6
<1>7. \E i \in I : best(I, i)
  <2>1. Nat \subseteq T
    <3> HIDE DEF T
    <3> QED
      BY <1>5, <1>6, EveryPlace
  <2>2. Len(roots.rules) \in T
    BY <1>2, <2>1
  <2>3. I \cap (1 .. Len(roots.rules)) = I
    BY <1>4
  <2> QED
    BY <1>4, <2>2, <2>3
<1>8. PICK i \in I : best(I, i)
  BY <1>7
<1> DEFINE longest(k) == \A j \in I : \/ Len(roots.rules[j].path) < Len(roots.rules[k].path)
                                      \/ Len(roots.rules[j].path) = Len(roots.rules[k].path) /\ j <= k
<1>9. longest(i)
  BY <1>3, <1>8
<1>10. best_root_rule(roots, path) = CHOOSE k \in I : longest(k)
  BY DEF best_root_rule, I
<1> HIDE DEF longest
<1>11. best_root_rule(roots, path) \in I /\ longest(best_root_rule(roots, path))
  BY <1>8, <1>9, <1>10
<1>12. \A j \in I : Len(roots.rules[j].path) \in Nat
  BY <1>3
<1> QED
  BY <1>11, <1>12 DEF longest, I

\* What the code says of a path is what its innermost root lets.
LEMMA InnermostIs ==
  ASSUME WorldKnown, RootsAreApart, NEW p
  PROVE  Innermost(p) \subseteq classify_path(world, p)
<1> SUFFICES ASSUME NEW access \in Innermost(p)
             PROVE  access \in classify_path(world, p)
  OBVIOUS
<1> DEFINE above(r) == {i \in DOMAIN r.rules : IsPrefix(r.rules[i].path, p)}
<1>1. PICK r \in world.roots :
        access \in IF above(r) = {} THEN {r.default}
                   ELSE {r.rules[i].access :
                           i \in {j \in above(r) : \A k \in above(r) :
                                    Len(r.rules[k].path) <= Len(r.rules[j].path)}}
  BY DEF Innermost
<1>2. above(r) = matching_rules(r, p)
  BY DEF matching_rules
<1> HIDE DEF above
<1>3. CASE above(r) = {}
  BY <1>1, <1>2, <1>3 DEF classify_path
<1>4. CASE above(r) # {}
  <2> DEFINE best == best_root_rule(r, p)
             P(i) == r.rules[i].path
  <2>1. PICK i \in above(r) : access = r.rules[i].access /\ \A k \in above(r) : Len(P(k)) <= Len(P(i))
    BY <1>1, <1>4
  <2>2. r \in RootsDef
    BY RootsKnown
  <2>3. best \in above(r) /\ \A k \in above(r) : Len(P(k)) <= Len(P(best))
    BY <1>2, <1>4, <2>2, BestRootRule
  <2> HIDE DEF best
  <2>4. \A k \in above(r) : k \in DOMAIN r.rules /\ P(k) \in Seq(STRING) /\ IsPrefix(P(k), p)
    <3>1. r.rules \in Seq(RootRule)
      BY <2>2 DEF RootsDef
    <3>2. \A k \in DOMAIN r.rules : r.rules[k] \in RootRule
      BY <3>1
    <3>3. \A rule \in RootRule : rule.path \in Seq(STRING)
      BY DEF RootRule
    <3> QED
      BY <3>2, <3>3 DEF above
  <2>5. /\ P(best) \in Seq(STRING) /\ P(i) \in Seq(STRING)
        /\ IsPrefix(P(best), p) /\ IsPrefix(P(i), p)
    BY <2>1, <2>3, <2>4
  <2>6. Len(P(best)) = Len(P(i))
    BY <2>1, <2>3, <2>5
  <2>7. \A s \in Seq(STRING) : IsPrefix(s, p) => s = SubSeq(p, 1, Len(s))
    <3> TAKE s \in Seq(STRING)
    <3>1. SubSeq(s, 1, Len(s)) = s
      OBVIOUS
    <3> QED
      BY <3>1 DEF IsPrefix
  <2>8. P(best) = P(i)
    BY <2>5, <2>6, <2>7
  <2>9. access = r.rules[best].access
    BY <2>1, <2>3, <2>4, <2>8 DEF RootsAreApart
  <2> QED
    BY <1>2, <1>4, <2>9 DEF classify_path, best
<1> QED
  BY <1>3, <1>4

\* What writes files by its effect is of a type that says so: the roots look at the type
\* alone (gate.rs: path_scope).
EffectsFitTypes ==
  \A m \in DOMAIN Manifests : \A i \in DOMAIN Manifests[m].base_actions :
    Manifests[m].base_actions[i].side_effect = "FilesystemWrite" =>
      Manifests[m].base_actions[i].action_type \in {"Write", "Patch"}

\* A call that the gate lets pass reaches no file that its innermost root keeps from it
\* (gate.rs: path_scope).
LEMMA ScopeKeepsRoots ==
  ASSUME WorldKnown, ManifestsTighten, RootsAreApart, EffectsFitTypes,
         NEW req, NEW granted, gate(world, req, granted).decision = "Allow",
         NEW r, r.action = gate(world, req, granted).action, NamesItsFile(req, r.path)
  PROVE  KeepsRoots(r)
<1> DEFINE action == classify_call(world, req.tool, req.arguments, req.path)
           access == UNION {classify_path(world, p) : p \in req.path}
<1>1. /\ r.action = action /\ action \in world.ontology
      /\ path_scope(world, action, req.path, parse_mode(req.mode)).decision = "Allow"
      /\ world.roots # {} /\ requires_resolved_path(world, action) => req.path # {}
  BY WorldTightens, GatePasses
<1>2. Writes(r) => world.action_types[r.action] \in {"Write", "Patch"}
  <2>1. PICK i \in DOMAIN Manifests[manifest].base_actions :
          LET base == Manifests[manifest].base_actions[i]
          IN  /\ world.side_effects[action] = base.side_effect
              /\ world.action_types[action] = base.action_type
    BY <1>1, ActionKnown
  <2>2. manifest \in DOMAIN Manifests
    BY DEF WorldKnown
  <2> HIDE DEF action
  <2> QED
    BY <1>1, <2>1, <2>2 DEF Writes, EffectsFitTypes
<1> HIDE DEF action
<1>3. CASE r.path \subseteq req.path
  <2>1. \A p \in r.path : Innermost(p) \subseteq access
    BY <1>3, InnermostIs
  <2>2. /\ "Deny" \notin access /\ "Ask" \notin access
        /\ world.action_types[action] \in {"Write", "Patch"} => "Read" \notin access
    BY <1>1 DEF path_scope, answer
  <2> HIDE DEF access
  <2> QED
    BY <1>1, <1>2, <2>1, <2>2 DEF KeepsRoots
<1>4. CASE req.path = {} /\ requires_resolved_path(world, action)
  <2>1. world.roots = {}
    BY <1>1, <1>4
  <2>2. \A p : Innermost(p) = {}
    BY <2>1 DEF Innermost
  <2> QED
    BY <2>2 DEF KeepsRoots
<1> QED
  BY <1>3, <1>4 DEF NamesItsFile, action

-----------------------------------------------------------------------------
(* The arguments a call is run with.                                       *)

\* A value of the effective call is one the world or the caller wrote.
LEMMA ArgumentsAreValues ==
  ASSUME WorldKnown, NEW action, NEW args, IsArguments(args),
         NEW a \in DOMAIN members(effective_call(world, action, args).arguments)
  PROVE  IsValue(members(effective_call(world, action, args).arguments)[a])
<1> DEFINE gets == members(effective_call(world, action, args).arguments)
<1>1. /\ is_literal(world, action, a) => gets[a] = cap_args(world, action)[a].value
      /\ ~is_literal(world, action, a) =>
           \A n : binding(world, action, a) = {n} =>
             n \in DOMAIN members(args) /\ gets[a] = members(args)[n]
  BY EffectiveArgs
<1> HIDE DEF gets
<1>2. CASE is_literal(world, action, a)
  <2>1. IsValue(cap_args(world, action)[a].value)
    <3>1. IsArgSource(cap_args(world, action)[a])
      BY <1>2, SourceTyped DEF is_literal
    <3> QED
      BY <1>2, <3>1 DEF is_literal, IsArgSource
  <2> QED
    BY <1>1, <1>2, <2>1 DEF gets
<1>3. CASE ~is_literal(world, action, a)
  <2>1. \E n : binding(world, action, a) = {n}
    <3>1. CASE ~scoped(world, action)
      BY <3>1 DEF binding
    <3>2. CASE scoped(world, action)
      <4> DEFINE f == [b \in given(world, action, args) \cup literals(world, action) |->
                         scoped_value(world, action, args, b)]
      <4>1. effective_call(world, action, args).arguments = Obj(f)
        BY <3>2 DEF effective_call
      <4>2. members(effective_call(world, action, args).arguments) = f
        <5> HIDE DEF f
        <5> QED
          BY <4>1 DEF members, is, Obj
      <4>3. a \in given(world, action, args) \cup literals(world, action)
        BY <4>2
      <4>4. a \in DOMAIN cap_args(world, action)
        BY <4>3 DEF given, literals
      <4>5. a \in given(world, action, args)
        BY <1>3, <3>2, <4>3, <4>4 DEF literals, is_literal
      <4>6. binding(world, action, a) = actor_name(cap_args(world, action)[a], a)
        BY <1>3, <3>2, <4>4 DEF binding, is_literal
      <4>7. binding(world, action, a) # {}
        BY <4>5, <4>6 DEF given
      <4>8. SourcesNameOne(world, action)
        BY SourcesKnown
      <4>9. PICK n \in binding(world, action, a) : TRUE
        BY <4>7
      <4> QED
        BY <4>8, <4>9, BindingNamesOne
    <3> QED
      BY <3>1, <3>2
  <2>2. PICK n : binding(world, action, a) = {n}
    BY <2>1
  <2>3. n \in DOMAIN members(args) /\ gets[a] = members(args)[n]
    BY <1>1, <1>3, <2>2
  <2> QED
    BY <2>3 DEF IsArguments, gets
<1> QED
  BY <1>2, <1>3

-----------------------------------------------------------------------------
(* What the agent loop writes and fetches.                                 *)

\* A file under a writable root; a URL whose client connects to a host of the policy.
WithinRoots(p) == \E root \in Writable : \E r \in canonicalize(root) : IsPrefix(r, p)
Permitted(url) ==
  \E name \in Reaches(url) :
    /\ \E entry \in AllowedHosts : host_matches(name, entry)
    /\ name \in LocalTargets => name \in AllowedHosts

\* What the executor is handed: an operation of a kind it knows, and texts where it
\* reads texts.
SpecReads(spec) ==
  LET o == spec.operation
  IN  /\ spec.network = AllowedHosts
      /\ o.op \in {"read", "patch", "argv", "fetch", "mcp"}
      /\ o.op = "patch" => o.path \in Seq(STRING)
      /\ o.op = "fetch" => o.url \in Seq(STRING)

\* What the executor did was inside the roots and the policy, also when the call came
\* back with an error.
LEMMA RunReaches ==
  ASSUME RootsExist, NEW spec, SpecReads(spec), NEW result \in run(spec)
  PROVE  /\ \A p \in result.wrote : WithinRoots(p)
         /\ \A url \in result.fetched : Permitted(url)
<1> DEFINE o == spec.operation
           quiet(res) == res.wrote = {} /\ res.fetched = {}
<1>1. quiet(Failure) /\ \A text : quiet(Output(text))
  BY DEF Failure, Output
<1>2. \A res \in PatchHandler(o) : quiet(res) \/ \E p \in contained(o.path, Writable) :
                                              res.wrote = {Lands(p)} /\ res.fetched = {}
  <2> SUFFICES ASSUME NEW res \in PatchHandler(o), res # Failure
               PROVE  \E p \in contained(o.path, Writable) : res.wrote = {Lands(p)} /\ res.fetched = {}
    BY <1>1
  <2>1. PICK p \in contained(o.path, Writable) :
          \/ res = [Output(<<"wrote">> \o p) EXCEPT !.wrote = {Lands(p)}]
          \/ res = [Failure EXCEPT !.wrote = {Lands(p)}]
    BY DEF PatchHandler
  <2> QED
    BY <2>1 DEF Output, Failure
<1>3. \A res \in WebHandler(o, spec.network) :
         quiet(res) \/ (res.wrote = {} /\ res.fetched = {o.url} /\ check_egress(o.url, spec.network))
  BY <1>1 DEF WebHandler, Output, Failure
<1>4. /\ \A res \in ReadHandler(o) \cup CommandHandler \cup McpHandler(o) : quiet(res)
      /\ \A res \in ReadHandler_simulate(o) \cup PatchHandler_simulate(o) \cup CommandHandler_simulate(o)
                    \cup WebHandler_simulate(o, spec.network) \cup McpHandler_simulate(o) : quiet(res)
  BY <1>1 DEF ReadHandler, CommandHandler, McpHandler, ReadHandler_simulate, PatchHandler_simulate,
              CommandHandler_simulate, WebHandler_simulate, McpHandler_simulate
<1>5. o.op \in {"read", "patch", "argv", "fetch", "mcp"}
  BY DEF SpecReads
<1>6. /\ o.op = "patch" => execute(o, spec.network) = PatchHandler(o)
      /\ o.op = "fetch" => execute(o, spec.network) = WebHandler(o, spec.network)
      /\ o.op \in {"read", "argv", "mcp"} =>
           execute(o, spec.network) \in {ReadHandler(o), CommandHandler, McpHandler(o)}
      /\ simulate(o, spec.network) \in
           {ReadHandler_simulate(o), PatchHandler_simulate(o), CommandHandler_simulate(o),
            WebHandler_simulate(o, spec.network), McpHandler_simulate(o)}
  <2> HIDE DEF o
  <2> QED
    BY <1>5 DEF execute, simulate
<1>7. quiet(result) \/ result \in execute(o, spec.network)
  BY <1>1, <1>4, <1>6 DEF run
<1>8. CASE quiet(result)
  BY <1>8
<1>9. CASE ~quiet(result) /\ o.op = "patch"
  <2>1. PICK p \in contained(o.path, Writable) : result.wrote = {Lands(p)} /\ result.fetched = {}
    BY <1>2, <1>6, <1>7, <1>9
  <2>2. o.path \in Seq(STRING)
    BY <1>9 DEF SpecReads
  <2>3. WithinRoots(Lands(p))
    BY <2>2, ContainedIs DEF WithinRoots
  <2> QED
    BY <2>1, <2>3
<1>10. CASE ~quiet(result) /\ o.op = "fetch"
  <2>1. result.wrote = {} /\ result.fetched = {o.url} /\ check_egress(o.url, spec.network)
    BY <1>3, <1>6, <1>7, <1>10
  <2>2. o.url \in Seq(STRING) /\ spec.network = AllowedHosts
    BY <1>10 DEF SpecReads
  <2>3. PICK name \in host_of(o.url) :
          /\ \E entry \in AllowedHosts : host_matches(name, entry)
          /\ name \in LocalTargets => name \in AllowedHosts
    BY <2>1, <2>2 DEF check_egress
  <2>4. Permitted(o.url)
    <3>1. name \in Reaches(o.url)
      BY <2>2, <2>3, ReachedIsLookedUp
    <3> QED
      BY <2>3, <3>1 DEF Permitted
  <2> QED
    BY <2>1, <2>4
<1>11. CASE o.op \in {"read", "argv", "mcp"}
  BY <1>4, <1>6, <1>7, <1>11
<1> QED
  BY <1>5, <1>8, <1>9, <1>10, <1>11

\* Of a text the executor is handed, it is a text that was in the arguments (spec.rs:
\* str_param).
LEMMA ParamIsText ==
  ASSUME NEW p, \A a \in DOMAIN members(p) : IsValue(members(p)[a]),
         NEW declared, NEW key, NEW t \in str_param(p, declared, key)
  PROVE  t \in Seq(STRING)
<1>1. /\ key \in DOMAIN members(p) /\ is(members(p)[key], "str")
      /\ t = members(p)[key].str
  BY DEF str_param
<1> QED
  BY <1>1 DEF IsValue, IsText

LEMMA OperationReads ==
  ASSUME NEW p, \A a \in DOMAIN members(p) : IsValue(members(p)[a]),
         NEW h, NEW declared, NEW o \in operation_for(h, p, declared)
  PROVE  /\ o.op \in {"read", "patch", "argv", "fetch"}
         /\ o.op = "patch" => o.path \in Seq(STRING)
         /\ o.op = "fetch" => o.url \in Seq(STRING)
<1>1. CASE h = "read_workspace"
  <2>1. operation_for(h, p, declared)
          = {[op |-> "read", path |-> t] : t \in str_param(p, declared, "path")}
    BY <1>1 DEF operation_for
  <2> QED
    BY <2>1
<1>2. CASE h = "apply_patch"
  <2>1. operation_for(h, p, declared)
          = {[op |-> "patch", path |-> t, contents |-> c] :
               t \in str_param(p, declared, "path"), c \in str_param(p, declared, "contents")}
    BY <1>2 DEF operation_for
  <2>2. PICK t \in str_param(p, declared, "path"), c \in str_param(p, declared, "contents") :
          o = [op |-> "patch", path |-> t, contents |-> c]
    BY <2>1
  <2>3. t \in Seq(STRING)
    BY ParamIsText
  <2> QED
    BY <2>2, <2>3
<1>3. CASE h = "run_command"
  <2>1. operation_for(h, p, declared)
          = {[op |-> "argv", argv |-> a] : a \in argv_from(p, declared)}
    BY <1>3 DEF operation_for
  <2> QED
    BY <2>1
<1>4. CASE h = "fetch_web"
  <2>1. operation_for(h, p, declared)
          = {[op |-> "fetch", url |-> t] : t \in str_param(p, declared, "url")}
    BY <1>4 DEF operation_for
  <2>2. PICK t \in str_param(p, declared, "url") : o = [op |-> "fetch", url |-> t]
    BY <2>1
  <2>3. t \in Seq(STRING)
    BY ParamIsText
  <2> QED
    BY <2>2, <2>3
<1>5. CASE h \notin {"read_workspace", "apply_patch", "run_command", "fetch_web"}
  <2>1. operation_for(h, p, declared) = {}
    BY <1>5 DEF operation_for
  <2> QED
    BY <2>1
<1> QED
  BY <1>1, <1>2, <1>3, <1>4, <1>5

\* What the loop lowers, the executor reads.
LEMMA LoweredReads ==
  ASSUME WorldKnown, NEW call, IsArguments(call.arguments), NEW consent,
         NEW d \in Lowered(call, consent)
  PROVE  SpecReads(d.spec)
<1> DEFINE action == Classified(call)
           backing == world.descriptors[action].backing
           declared == param_contract(world, action)
           operations(p) ==
             IF backing.kind = "mcp"
             THEN {[op |-> "mcp", server |-> backing.server, tool |-> backing.tool, input |-> p]}
             ELSE operation_for(backing.handler, p, declared)
<1>1. d.spec \in build_execution_spec(world, action, call.arguments, effect_mode, ExecEnv)
  BY DEF Lowered
<1> HIDE DEF action
<1>2. /\ d.spec.network = AllowedHosts
      /\ \E p \in effective_params(world, action, call.arguments, ExecEnv) :
           d.spec.operation \in operations(p)
  <2>1. ExecEnv.network = AllowedHosts
    BY DEF ExecEnv
  <2> QED
    BY <1>1, <2>1 DEF build_execution_spec
<1>3. PICK p \in effective_params(world, action, call.arguments, ExecEnv) :
        d.spec.operation \in operations(p)
  BY <1>2
<1>4. \A a \in DOMAIN members(p) : IsValue(members(p)[a])
  BY ParamsAreEffective, ArgumentsAreValues
<1>5. CASE backing.kind = "mcp"
  <2>1. d.spec.operation.op = "mcp"
    BY <1>3, <1>5
  <2> QED
    BY <1>2, <2>1 DEF SpecReads
<1>6. CASE backing.kind # "mcp"
  <2>1. d.spec.operation \in operation_for(backing.handler, p, declared)
    BY <1>3, <1>6
  <2> HIDE DEF backing, declared
  <2>2. LET o == d.spec.operation
        IN  /\ o.op \in {"read", "patch", "argv", "fetch"}
            /\ o.op = "patch" => o.path \in Seq(STRING)
            /\ o.op = "fetch" => o.url \in Seq(STRING)
    BY <1>4, <2>1, OperationReads
  <2> QED
    BY <1>2, <2>2 DEF SpecReads
<1> QED
  BY <1>5, <1>6

-----------------------------------------------------------------------------
(* What every host reaches.                                                *)

\* A question is a call of the session, what is handed to the executor it reads, and
\* what was done so far was inside.
AgentReaches ==
  /\ \A call \in question : IsArguments(call.arguments)
  /\ \A d \in doing : SpecReads(d.spec)
  /\ \A p \in wrote : WithinRoots(p)
  /\ \A url \in fetched : Permitted(url)

LEMMA AgentReachesOn ==
  ASSUME WorldKnown, RootsExist, AgentReaches, AgentNext
  PROVE  AgentReaches'
<1>1. ASSUME doing' \subseteq doing, question' \subseteq question,
             wrote' = wrote, fetched' = fetched
      PROVE  AgentReaches'
  BY <1>1 DEF AgentReaches
<1>2. CASE UNCHANGED loop_vars
  BY <1>1, <1>2 DEF loop_vars
<1>3. CASE TurnMalformed \/ Declined \/ ClaimFails
  BY <1>1, <1>3 DEF TurnMalformed, Declined, ClaimFails, session
<1>4. ASSUME NEW call \in Requests[manifest], CallProposed(call, Decided(call, FALSE).decision)
      PROVE  AgentReaches'
  <2> DEFINE decision == Decided(call, FALSE).decision
  <2>1. IsArguments(call.arguments)
    BY RequestsAssumption DEF WorldKnown, Validated, IsCall
  <2>2. CASE CallRefused(call, decision)
    BY <1>1, <2>2 DEF CallRefused, session
  <2>3. CASE CallAllowed(call, decision)
    <3>1. PICK d \in Lowered(call, FALSE) : doing' = {d}
      BY <2>3 DEF CallAllowed
    <3>2. SpecReads(d.spec)
      BY <2>1, LoweredReads
    <3>3. question' = question /\ wrote' = wrote /\ fetched' = fetched
      BY <2>3 DEF CallAllowed, session
    <3> QED
      BY <3>1, <3>2, <3>3 DEF AgentReaches
  <2>4. CASE CallAsks(call, decision)
    <3>1. question' \subseteq question \cup {call}
      BY <2>4 DEF CallAsks
    <3>2. doing' = doing /\ wrote' = wrote /\ fetched' = fetched
      BY <2>4 DEF CallAsks, session
    <3> QED
      BY <2>1, <3>1, <3>2 DEF AgentReaches
  <2> QED
    BY <1>4, <2>2, <2>3, <2>4 DEF CallProposed
<1>5. CASE Claimed
  <2>1. PICK call \in question :
          /\ question' = {}
          /\ doing' = IF Decided(call, TRUE).decision = "Allow" THEN Lowered(call, TRUE) ELSE {}
          /\ wrote' = wrote /\ fetched' = fetched
    BY <1>5 DEF Claimed, session
  <2>2. \A d \in Lowered(call, TRUE) : SpecReads(d.spec)
    BY LoweredReads DEF AgentReaches
  <2> QED
    BY <2>1, <2>2 DEF AgentReaches
<1>6. CASE Returned \/ Errored
  <2>1. PICK d \in doing : \E result \in run(d.spec) :
          /\ wrote' = wrote \cup result.wrote /\ fetched' = fetched \cup result.fetched
          /\ doing' = {} /\ question' = question
    BY <1>6 DEF Returned, Errored
  <2>2. PICK result \in run(d.spec) :
          /\ wrote' = wrote \cup result.wrote /\ fetched' = fetched \cup result.fetched
          /\ doing' = {} /\ question' = question
    BY <2>1
  <2>3. /\ \A p \in result.wrote : WithinRoots(p)
        /\ \A url \in result.fetched : Permitted(url)
    BY RunReaches DEF AgentReaches
  <2> QED
    BY <2>2, <2>3 DEF AgentReaches
<1> QED
  BY <1>2, <1>3, <1>4, <1>5, <1>6 DEF AgentNext

\* A call that runs keeps to the roots of the world; and so will one that a hook let
\* pass, once its host runs it.
WireReaches ==
  /\ \A a \in asked : a.call \in Requests[manifest] /\ a.answer.decision # "Allow"
  /\ \A r \in running : r.allowed => KeepsRoots(r)
HookConfined(r) == KeepsRoots(r) \/ LedToNothing(r)
HookReaches ==
  /\ told = {} \/ using = {}
  /\ \A a \in told :
       a.decision = "Allow" /\ a.answer # "deny" => \A r : RunsAs(a, r) => HookConfined(r)
  /\ \A r \in using : r.decision = "Allow" => HookConfined(r)

\* A hook tells the gate the file that its host's tool opens, unless the tool gets there
\* by a link that leads to nothing.
HooksNameFiles ==
  \A call \in HookCalls[host][manifest] :
    \/ NamesItsFile(hook_request(call), call.path)
    \/ \E path \in named_path(hook_args(call)) : Dangles(path)

\* The roots of a world, of which no two rules say different things of one path, and
\* whose manifest gives effects their types.
RootsFit == ManifestsTighten /\ RootsAreApart /\ EffectsFitTypes

LEMMA WireReachesOn ==
  ASSUME WorldKnown, RootsFit, WireNamesFiles, WireReaches, WireNext, UNCHANGED world_vars
  PROVE  WireReaches'
<1>1. manifest' = manifest /\ \A r : KeepsRoots(r)' = KeepsRoots(r)
  BY DEF world_vars, KeepsRoots, Innermost, Writes
<1>2. ASSUME NEW call \in Requests[manifest], NEW granted, Govern(call, granted)
      PROVE  WireReaches'
  <2> DEFINE req == WireRequest(call)
             answered == gate(world, req, granted)
  <2>1. /\ asked' = IF answered.decision = "Ask" THEN {[call |-> call, answer |-> answered]} ELSE {}
        /\ running' = IF answered.decision = "Allow" THEN Started(call, answered, granted) ELSE {}
    BY <1>2 DEF Govern, Carry, Asked
  <2>2. ASSUME answered.decision = "Allow", NEW r \in Started(call, answered, granted)
        PROVE  KeepsRoots(r)
    <3>1. r.action = answered.action /\ r.path = call.path
      BY DEF Started
    <3>2. NamesItsFile(req, r.path)
      BY <3>1 DEF WireNamesFiles
    <3> HIDE DEF req
    <3> QED
      BY <2>2, <3>1, <3>2, ScopeKeepsRoots DEF RootsFit
  <2> HIDE DEF answered
  <2>3. \A a \in asked' : a.call = call /\ a.answer.decision # "Allow"
    BY <2>1
  <2> QED
    BY <1>1, <2>1, <2>2, <2>3 DEF WireReaches
<1>3. CASE Call
  BY <1>2, <1>3 DEF Call
<1>4. CASE CallAuthorized
  BY <1>2, <1>4 DEF CallAuthorized, WireReaches
<1>5. CASE PersonApproves
  <2>1. PICK a \in asked : running' = Started(a.call, a.answer, TRUE) /\ asked' = {}
    BY <1>5 DEF PersonApproves
  <2>2. \A r \in running' : ~r.allowed
    <3>1. a.answer.decision # "Allow"
      BY DEF WireReaches
    <3>2. \A r \in Started(a.call, a.answer, TRUE) : r.allowed = (a.answer.decision = "Allow")
      BY DEF Started
    <3> QED
      BY <2>1, <3>1, <3>2
  <2> QED
    BY <2>1, <2>2 DEF WireReaches
<1>6. CASE CallReturns \/ CallFails
  <2>1. running' = {} /\ asked' = asked
    BY <1>6 DEF CallReturns, CallFails
  <2> QED
    BY <1>1, <2>1 DEF WireReaches
<1> QED
  BY <1>3, <1>4, <1>5, <1>6 DEF WireNext

LEMMA HookReachesOn ==
  ASSUME WorldKnown, RootsFit, HooksNameFiles, HookReaches, HookNext, UNCHANGED world_vars
  PROVE  HookReaches'
<1>1. \A r : HookConfined(r)' = HookConfined(r)
  BY DEF world_vars, KeepsRoots, Innermost, Writes, HookConfined, LedToNothing, named_path
<1>2. ASSUME NEW call \in HookCalls[host][manifest],
             HookDecides(call, gate(world, hook_request(call), FALSE))
      PROVE  HookReaches'
  <2> DEFINE req == hook_request(call)
             res == gate(world, req, FALSE)
  <2>1. told = {} /\ using = {} /\ \E text : Answered(call, res, text)
    BY <1>2 DEF HookDecides, RefusedUncounted, RefusedUntracked, Judged
  <2>2. using' = {} /\ \A a \in told' : /\ a.call = call /\ a.args = hook_args(call)
                                         /\ a.action = res.action /\ a.decision = res.decision
    BY <2>1 DEF Answered, hook_flags
  <2>3. ASSUME res.decision = "Allow",
               NEW r, r.action = res.action, r.path = call.path, r.args = hook_args(call)
        PROVE  HookConfined(r)
    <3>1. NamesItsFile(req, r.path) \/ LedToNothing(r)
      BY <2>3 DEF HooksNameFiles, LedToNothing
    <3> HIDE DEF req
    <3> QED
      BY <2>3, <3>1, ScopeKeepsRoots DEF RootsFit, HookConfined
  <2> HIDE DEF res
  <2> QED
    BY <1>1, <2>2, <2>3 DEF HookReaches, RunsAs
<1>3. CASE HostRuns
  <2>1. PICK a \in told : /\ a.answer # "deny" /\ told' = {}
                          /\ \A r \in using' : /\ r.action = a.action /\ r.args = a.args
                                               /\ r.path = a.call.path /\ r.decision = a.decision
    BY <1>3 DEF HostRuns
  <2>2. \A r \in using' : r.decision = "Allow" => HookConfined(r)
    BY <2>1 DEF HookReaches, RunsAs
  <2> QED
    BY <1>1, <2>1, <2>2 DEF HookReaches
<1>4. CASE HostSkips \/ ToolReturns
  <2>1. told' \subseteq told /\ using' \subseteq using
    BY <1>4 DEF HostSkips, ToolReturns
  <2> QED
    BY <1>1, <2>1 DEF HookReaches, RunsAs
<1> QED
  BY <1>2, <1>3, <1>4 DEF HookNext

FilesNamed ==
  /\ host = "wire" => WireNamesFiles
  /\ host \in HookHosts => HooksNameFiles

HostsReach == WorldKnown /\ WireReaches /\ AgentReaches /\ HookReaches

LEMMA ReachStarts == Init => HostsReach
<1> SUFFICES ASSUME Init
             PROVE  HostsReach
  OBVIOUS
<1>1. WorldKnown
  BY DEF Init, StartHost, Validated, WorldKnown
<1>2. WireReaches
  BY DEF Init, WireInit, WireReaches
<1>3. AgentReaches
  BY DEF Init, AgentInit, AgentReaches
<1>4. HookReaches
  BY DEF Init, HookInit, HookReaches
<1> QED
  BY <1>1, <1>2, <1>3, <1>4 DEF HostsReach

LEMMA HookReachesStays ==
  ASSUME WorldKnown, RootsFit, host \in HookHosts => HooksNameFiles, HookReaches, [Next]_vars
  PROVE  HookReaches'
<1>1. CASE HookNext
  <2>1. HooksNameFiles
    BY <1>1 DEF HookNext
  <2>2. UNCHANGED world_vars
    BY OneHostSteps
  <2> QED
    BY <1>1, <2>1, <2>2, HookReachesOn
<1>2. CASE UNCHANGED hook_vars
  <2>1. world' = world
    BY OneHostSteps DEF world_vars
  <2>2. \A r : HookConfined(r)' = HookConfined(r)
    BY <2>1 DEF KeepsRoots, Innermost, Writes, HookConfined, LedToNothing, named_path
  <2> QED
    BY <1>2, <2>2 DEF hook_vars, HookReaches, RunsAs
<1> QED
  BY <1>1, <1>2, OneHostSteps

LEMMA ReachStays ==
  RootsExist /\ RootsFit /\ FilesNamed /\ HostsReach /\ [Next]_vars => HostsReach'
<1> SUFFICES ASSUME RootsExist, RootsFit, FilesNamed, HostsReach, [Next]_vars
             PROVE  HostsReach'
  OBVIOUS
<1>1. WorldKnown' /\ UNCHANGED world_vars
  BY WorldStays, OneHostSteps DEF HostsReach
<1>2. manifest' = manifest /\ \A r : KeepsRoots(r)' = KeepsRoots(r)
  BY <1>1 DEF world_vars, KeepsRoots, Innermost, Writes
<1>3. WireReaches'
  <2>1. CASE WireNext
    <3>1. WireNamesFiles
      BY <2>1 DEF WireNext, FilesNamed
    <3> QED
      BY <1>1, <2>1, <3>1, WireReachesOn DEF HostsReach
  <2>2. CASE UNCHANGED wire_vars
    BY <1>2, <2>2 DEF wire_vars, HostsReach, WireReaches
  <2> QED
    BY <2>1, <2>2, OneHostSteps
<1>4. AgentReaches'
  <2>1. CASE AgentNext
    BY <2>1, AgentReachesOn DEF HostsReach
  <2>2. CASE UNCHANGED agent_vars
    BY <2>2 DEF agent_vars, loop_vars, HostsReach, AgentReaches
  <2> QED
    BY <2>1, <2>2, OneHostSteps
<1>5. HookReaches'
  BY HookReachesStays DEF HostsReach, FilesNamed
<1> QED
  BY <1>1, <1>3, <1>4, <1>5 DEF HostsReach

LEMMA FilesNamedStay == FilesNamed /\ RootsFit /\ [Next]_vars => FilesNamed' /\ RootsFit'
<1> SUFFICES ASSUME FilesNamed, RootsFit, [Next]_vars
             PROVE  FilesNamed' /\ RootsFit'
  OBVIOUS
<1>1. world' = world /\ manifest' = manifest /\ host' = host
  BY OneHostSteps DEF world_vars
<1>2. FilesNamed'
  <2>1. \A call : hook_args(call)' = hook_args(call)
    BY <1>1 DEF hook_args
  <2>2. \A args : named_path(args)' = named_path(args)
    BY DEF named_path
  <2> QED
    BY <1>1, <2>1, <2>2, RequestsStay DEF FilesNamed, WireNamesFiles, HooksNameFiles, NamesItsFile
<1>3. RootsFit'
  BY <1>1 DEF RootsFit, RootsAreApart, ManifestsTighten, EffectsFitTypes
<1> QED
  BY <1>2, <1>3

\* No call reaches a file that the innermost root above it keeps from it, but by an agent's
\* own tool through a link to nothing; no patch of the agent loop leaves the writable
\* roots, through whatever link, and no fetch connects to a host outside the policy, also
\* when the call comes back with an error (gate.rs: path_scope; fs_guard.rs: contained;
\* web.rs: check_egress; hostkit.rs: canonicalize_action_path).
THEOREM ReachStaysConfined ==
  ASSUME ManifestsTighten, RootsExist, EffectsFitTypes
  PROVE  Spec /\ FilesNamed /\ RootsAreApart => []ReachConfined
<1>1. HostsReach => ReachConfined
  BY DEF HostsReach, ReachConfined, Allowed, ByHook, WireReaches, HookReaches, HookConfined,
         AgentReaches, WithinRoots, Permitted
<1>2. FilesNamed /\ RootsAreApart => FilesNamed /\ RootsFit
  BY DEF RootsFit
<1> QED
  BY <1>1, <1>2, ReachStarts, ReachStays, FilesNamedStay, PTL DEF Spec

-----------------------------------------------------------------------------
(* Links.  That a hook's calls name their files is a hypothesis on the     *)
(* tools of the host above.  Here it is derived, for tools that open what  *)
(* their call names: a path that goes through no link to nothing is judged *)
(* as the very file that it opens, whatever other links and missing        *)
(* folders it goes through.                                                *)

LEMMA FrontIs ==
  ASSUME NEW d \in Seq(STRING), Len(d) > 1
  PROVE  Front(d) \in Seq(STRING) \ {<<>>}
<1> DEFINE k == Len(d) - 1
<1>1. k \in 1 .. Len(d) /\ Front(d) = SubSeq(d, 1, k)
  BY DEF Front
<1> HIDE DEF k
<1>2. SubSeq(d, 1, k) \in Seq(STRING) /\ Len(SubSeq(d, 1, k)) = k
  BY <1>1
<1> QED
  BY <1>1, <1>2

\* Every link leads to something that is there.
NoLinkDangles == \A q \in DOMAIN Links : Links[q] \in Files

\* The file that is opened is found segment by segment (hostkit.rs:
\* canonicalize_action_path; the tools of a host).
LEMMA ReachedIs ==
  ASSUME NEW path \in Seq(STRING)
  PROVE  LET at == Walked(path)
         IN  /\ at \in [0 .. Len(path) -> Seq(STRING)] /\ at[0] = <<"">>
             /\ \A n \in 1 .. Len(path) : at[n] = Opened(at[n - 1], path[n])
             /\ Reached(path) = at[Len(path)]
<1> DEFINE m == Len(path)
           S == Seq(STRING)
           root == <<"">>
           next(n, d) == Opened(d, path[n])
           F == [n \in 1 .. m |-> [d \in S |-> next(n, d)]]
           Is(at) == at = [n \in 0 .. m |-> IF n = 0 THEN root ELSE next(n, at[n - 1])]
           goes(at, n) == IF n = 0 THEN root ELSE next(n, at[n - 1])
<1>1. root \in S /\ m \in Nat
  <2>1. m \in Nat
    OBVIOUS
  <2> QED
    BY <2>1, FilesStand
<1>2. ASSUME NEW n \in 1 .. m, NEW d \in S PROVE next(n, d) \in S
  <2>1. path[n] \in STRING /\ Append(d, path[n]) \in S
    OBVIOUS
  <2>2. Len(d) > 1 => Front(d) \in S
    BY FrontIs
  <2>3. Onward(d, path[n]) \in S
    BY <2>1, <2>2 DEF Onward
  <2>4. \A q \in DOMAIN Links : Links[q] \in S
    BY FileSystemAssumption
  <2> HIDE DEF S
  <2> QED
    BY <2>3, <2>4 DEF Opened, IsLink
<1> HIDE DEF next, root
<1>3. \A n \in 1 .. m : \A d \in S : F[n][d] = next(n, d)
  BY Zenon
<1>4. \E at : Is(at)
  <2> HIDE DEF F, S
  <2>1. PICK at \in [0 .. m -> S] :
          at[0] = root /\ \A n \in 1 .. m : at[n] = F[n][at[n - 1]]
    <3>1. Steps(F, m, S)
      BY <1>2, <1>3 DEF Steps
    <3>2. \E at : Walk(at, root, F, m, S)
      BY <1>1, <3>1, WalkIs
    <3> QED
      BY <3>2 DEF Walk
  <2>2. ASSUME NEW n \in 0 .. m PROVE at[n] = goes(at, n)
    <3>1. n = 0 \/ (n # 0 /\ n \in 1 .. m /\ n - 1 \in 0 .. m)
      BY <1>1
    <3> QED
      BY <1>3, <2>1, <3>1
  <2>3. [n \in 0 .. m |-> at[n]] = [n \in 0 .. m |-> goes(at, n)]
    BY <2>2, Zenon
  <2> QED
    BY <2>1, <2>3, Zenon
<1> DEFINE out == CHOOSE g : Is(g)
<1>5. Is(out)
  BY <1>4, Zenon
<1>6. Walked(path) = out /\ Reached(path) = out[m]
  BY DEF Reached, Walked, root, next
<1> HIDE DEF out
<1>7. /\ out[0] = root
      /\ \A n \in 1 .. m : out[n] = next(n, out[n - 1])
  <2>1. \A n \in 0 .. m : out[n] = goes(out, n)
    <3> DEFINE g == [n \in 0 .. m |-> goes(out, n)]
    <3>1. \A n \in 0 .. m : g[n] = goes(out, n)
      BY Zenon
    <3>2. out = g
      BY <1>5, Zenon
    <3> QED
      BY <3>1, <3>2, Zenon
  <2>2. 0 \in 0 .. m /\ \A n \in 1 .. m : n \in 0 .. m /\ n # 0
    BY <1>1
  <2> QED
    BY <2>1, <2>2, Zenon
<1>8. \A n \in 0 .. m : out[n] \in S
  <2> HIDE DEF S
  <2>1. out[0] \in S /\ \A n \in 1 .. m : out[n - 1] \in S => out[n] \in S
    BY <1>1, <1>2, <1>7
  <2> QED
    BY <1>1, <2>1, Along
<1>9. out \in [0 .. m -> S]
  BY <1>5, <1>8
<1> QED
  BY <1>6, <1>7, <1>9 DEF next, root

LEMMA AppendedIs ==
  ASSUME NEW S, NEW d \in Seq(S), NEW e \in S
  PROVE  /\ Append(d, e) \in Seq(S) /\ Append(d, e) # d
         /\ Front(Append(d, e)) = d /\ Last(Append(d, e)) = e
<1> DEFINE q == Append(d, e)
           k == Len(d)
<1>1. k \in Nat /\ q \in Seq(S) /\ Len(q) = k + 1
  OBVIOUS
<1>2. q[k + 1] = e
  OBVIOUS
<1>3. SubSeq(q, 1, k) = d
  OBVIOUS
<1> HIDE DEF q, k
<1>4. Len(q) - 1 = k /\ Len(q) # k /\ q[Len(q)] = e
  BY <1>1, <1>2
<1>5. Front(q) = d /\ Last(q) = e
  BY <1>3, <1>4 DEF Front, Last
<1>6. q # d
  BY <1>4 DEF k
<1> QED
  BY <1>1, <1>5, <1>6 DEF q

\* Nothing is below what is not there (executor: the file system of a session).
LEMMA NothingBelow ==
  ASSUME NEW d \in Seq(STRING), d \notin Files, NEW seg \in STRING \ {"", ".", ".."}
  PROVE  Append(d, seg) \notin Files \cup DOMAIN Links
<1>1. Front(Append(d, seg)) = d /\ Last(Append(d, seg)) = seg
  BY AppendedIs
<1>2. Last(<<"">>) = ""
  BY DEF Last
<1>3. Append(d, seg) # <<"">>
  BY <1>1, <1>2
<1> QED
  BY <1>1, <1>3, FileSystemAssumption

\* How a path is pinned, segment by segment (hostkit.rs: canonicalize_action_path).
LEMMA PinnedIs ==
  ASSUME NEW path \in Seq(STRING)
  PROVE  /\ Pinned(path)[0] = {<<"">>}
         /\ \A n \in 1 .. Len(path) :
              Pinned(path)[n] = IF Followed(path)[n] # {} THEN Followed(path)[n]
                                ELSE IF path[n] \in {"", "."} THEN Pinned(path)[n - 1]
                                ELSE IF path[n] = ".." THEN {}
                                ELSE {Append(d, path[n]) : d \in Pinned(path)[n - 1]}
<1> DEFINE m == Len(path)
           S == SUBSET Seq(STRING)
           to == Followed(path)
           next(n, D) == IF to[n] # {} THEN to[n]
                         ELSE CASE path[n] \in {"", "."} -> D
                                [] path[n] = ".." -> {}
                                [] OTHER -> {Append(d, path[n]) : d \in D}
           F == [n \in 1 .. m |-> [D \in S |-> next(n, D)]]
           Is(at) == at = [n \in 0 .. m |-> next(n, at[n - 1])]
<1>0. m \in Nat /\ \A n \in 1 .. m : n \in 0 .. m /\ n - 1 \in 0 .. m /\ n # 0
  <2>1. m \in Nat
    OBVIOUS
  <2> HIDE DEF m
  <2> QED
    BY <2>1
<1> HIDE DEF F, Is, next
<1>1. to[0] = {<<"">>} /\ \A n \in 0 .. m : to[n] \in S
  <2>1. to[0] = {<<"">>} /\ \A n \in 0 .. m : to[n] \subseteq Files
    BY <1>0, FollowedIs
  <2>2. Files \subseteq Seq(STRING)
    BY FileSystemAssumption
  <2> QED
    BY <2>1, <2>2
<1> HIDE DEF to
<1>2. ASSUME NEW n \in 1 .. m, NEW D \in S PROVE next(n, D) \in S
  <2>1. to[n] \in S
    BY <1>0, <1>1
  <2>2. {Append(d, path[n]) : d \in D} \in S
    OBVIOUS
  <2>3. {} \in S
    OBVIOUS
  <2> DEFINE longer == {Append(d, path[n]) : d \in D}
  <2> HIDE DEF S, longer
  <2>4. next(n, D) \in {to[n], D, {}, longer}
    BY DEF longer, next
  <2> QED
    BY <2>1, <2>2, <2>3, <2>4 DEF longer
<1>3. \A D : next(0, D) = to[0]
  <2>1. to[0] # {}
    BY <1>1
  <2> QED
    BY <2>1 DEF next
<1>10. \A n, D : next(n, D) = IF to[n] # {} THEN to[n]
                              ELSE IF path[n] \in {"", "."} THEN D
                              ELSE IF path[n] = ".." THEN {}
                              ELSE {Append(d, path[n]) : d \in D}
  <2> SUFFICES ASSUME NEW n, NEW D
               PROVE  next(n, D) = IF to[n] # {} THEN to[n]
                              ELSE IF path[n] \in {"", "."} THEN D
                              ELSE IF path[n] = ".." THEN {}
                              ELSE {Append(d, path[n]) : d \in D}
    OBVIOUS
  <2> DEFINE longer == {Append(d, path[n]) : d \in D}
             seg == path[n]
  <2>1. next(n, D) = IF to[n] # {} THEN to[n]
                     ELSE CASE seg \in {"", "."} -> D
                            [] seg = ".." -> {}
                            [] OTHER -> longer
    BY DEF next
  <2> HIDE DEF longer, seg
  <2>2. CASE seg \in {"", "."}
    BY <2>1, <2>2 DEF longer, seg
  <2>3. CASE seg = ".."
    BY <2>1, <2>3 DEF longer, seg
  <2>4. CASE seg \notin {"", ".", ".."}
    BY <2>1, <2>4 DEF longer, seg
  <2> QED
    BY <2>2, <2>3, <2>4
<1>11. 0 \in 0 .. m /\ to[0] \in S
  <2> HIDE DEF S, m
  <2>1. 0 \in 0 .. m
    BY <1>0
  <2> QED
    BY <1>1, <2>1
<1> HIDE DEF next, m
<1>4. \A n \in 1 .. m : \A D \in S : F[n][D] = next(n, D)
  BY Zenon DEF F
<1>5. \E at : Is(at)
  <2> HIDE DEF F, S
  <2>1. PICK at \in [0 .. m -> S] :
          at[0] = to[0] /\ \A n \in 1 .. m : at[n] = F[n][at[n - 1]]
    <3>1. Steps(F, m, S)
      BY <1>2, <1>4 DEF Steps
    <3>2. \E at : Walk(at, to[0], F, m, S)
      BY <1>0, <1>11, <3>1, WalkIs
    <3> QED
      BY <3>2 DEF Walk
  <2>2. ASSUME NEW n \in 0 .. m PROVE at[n] = next(n, at[n - 1])
    <3>1. n = 0 \/ (n # 0 /\ n \in 1 .. m /\ n - 1 \in 0 .. m)
      BY <1>0
    <3> QED
      BY <1>3, <1>4, <2>1, <3>1
  <2>3. [n \in 0 .. m |-> at[n]] = [n \in 0 .. m |-> next(n, at[n - 1])]
    BY <2>2, Zenon
  <2> QED
    BY <2>1, <2>3, Zenon DEF Is
<1> DEFINE out == CHOOSE g : Is(g)
<1>6. Is(out)
  BY <1>5, Zenon
<1>7. Pinned(path) = out
  BY DEF Pinned, Is, next, to, m
<1> HIDE DEF out
<1>8. \A n \in 0 .. m : out[n] = next(n, out[n - 1])
  <2> DEFINE g == [n \in 0 .. m |-> next(n, out[n - 1])]
  <2>1. \A n \in 0 .. m : g[n] = next(n, out[n - 1])
    BY Zenon
  <2>2. out = g
    BY <1>6, Zenon DEF Is
  <2> QED
    BY <2>1, <2>2, Zenon
<1>9. out[0] = {<<"">>} /\ \A n \in 1 .. m : out[n] = next(n, out[n - 1])
  <2>1. out[0] = next(0, out[0 - 1]) /\ \A n \in 1 .. m : out[n] = next(n, out[n - 1])
    BY <1>0, <1>8, <1>11, Zenon
  <2> QED
    BY <1>1, <1>3, <2>1, Zenon
<1>12. \A n \in 1 .. m :
         out[n] = IF to[n] # {} THEN to[n]
                  ELSE IF path[n] \in {"", "."} THEN out[n - 1]
                  ELSE IF path[n] = ".." THEN {}
                  ELSE {Append(d, path[n]) : d \in out[n - 1]}
  BY <1>9, <1>10, Zenon
<1> QED
  BY <1>7, <1>9, <1>12, Zenon DEF to, m

\* Where no link on its way dangles, a path is judged as the file that it opens.
LEMMA PinnedIsReached ==
  ASSUME NEW path \in Seq(STRING), ~Dangles(path), NEW p \in canonicalize_action_path(path)
  PROVE  p = Reached(path)
<1> DEFINE m == Len(path)
           to == Followed(path)
           pinned == Pinned(path)
<1> DEFINE at == Walked(path)
<1>1. /\ at \in [0 .. m -> Seq(STRING)] /\ at[0] = <<"">>
      /\ \A n \in 1 .. m : at[n] = Opened(at[n - 1], path[n])
      /\ Reached(path) = at[m]
  BY ReachedIs
<1>2. m \in Nat /\ DOMAIN path = 1 .. m /\ \A n \in 1 .. m : path[n] \in STRING
  OBVIOUS
<1>10. \A n \in 1 .. m : IsLink(at[n - 1], path[n]) => Links[Onward(at[n - 1], path[n])] \in Files
  BY <1>2 DEF Dangles
<1> HIDE DEF at
<1>3. /\ to[0] = {<<"">>} /\ \A n \in 0 .. m : to[n] \subseteq Files
      /\ \A n \in 1 .. m : to[n] = UNION {Follow(d, path[n]) : d \in to[n - 1]}
  BY <1>2, FollowedIs
<1>4. /\ pinned[0] = {<<"">>}
      /\ \A n \in 1 .. m :
           pinned[n] = IF to[n] # {} THEN to[n]
                       ELSE IF path[n] \in {"", "."} THEN pinned[n - 1]
                       ELSE IF path[n] = ".." THEN {}
                       ELSE {Append(d, path[n]) : d \in pinned[n - 1]}
  BY PinnedIs
<1> DEFINE Good(n) == /\ to[n] # {} => to[n] = {at[n]} /\ pinned[n] = {at[n]}
                      /\ to[n] = {} => pinned[n] = {} \/ (pinned[n] = {at[n]} /\ at[n] \notin Files)
           T == {n \in Nat : n <= m => Good(n)}
<1> HIDE DEF to, pinned
<1>5. Good(0)
  BY <1>1, <1>3, <1>4
<1>6. ASSUME NEW n \in 1 .. m, Good(n - 1) PROVE Good(n)
  <2> DEFINE a == at[n - 1]
             seg == path[n]
             q == Append(a, seg)
             before == to[n - 1]
  <2>1. n - 1 \in 0 .. m
    BY <1>2
  <2>2. /\ a \in Seq(STRING) /\ seg \in STRING /\ at[n] = Opened(a, seg)
        /\ before \subseteq Files /\ to[n] = UNION {Follow(d, seg) : d \in before}
    BY <1>1, <1>2, <1>3, <2>1
  <2>3. q \in Seq(STRING) /\ q # a
    BY <2>2, AppendedIs
  <2>4. pinned[n] = IF to[n] # {} THEN to[n]
                    ELSE IF seg \in {"", "."} THEN pinned[n - 1]
                    ELSE IF seg = ".." THEN {}
                    ELSE {Append(d, seg) : d \in pinned[n - 1]}
    BY <1>4
  <2> HIDE DEF a, seg, before
  <2>5. CASE before # {}
    <3>1. a \in Files /\ before = {a} /\ pinned[n - 1] = {a}
      BY <1>6, <2>2, <2>5 DEF a, before
    <3>2. to[n] = Follow(a, seg)
      BY <2>2, <3>1
    <3>3. CASE seg \in {"", ".", ".."}
      <4>1. Follow(a, seg) = {Onward(a, seg)}
        <5>1. CASE seg \in {"", "."}
          <6>1. Onward(a, seg) = a
            BY <5>1 DEF Onward
          <6>2. Follow(a, seg) = {a}
            BY <5>1 DEF Follow
          <6> QED
            BY <6>1, <6>2
        <5>2. CASE seg = ".."
          <6>1. Onward(a, seg) = IF Len(a) > 1 THEN Front(a) ELSE a
            BY <5>2 DEF Onward
          <6>2. Follow(a, seg) = {IF Len(a) > 1 THEN Front(a) ELSE a}
            BY <5>2 DEF Follow
          <6> QED
            BY <6>1, <6>2
        <5> QED
          BY <3>3, <5>1, <5>2
      <4>2. Opened(a, seg) = Onward(a, seg)
        BY <3>3 DEF Opened, IsLink, Onward
      <4> QED
        BY <2>2, <2>4, <3>2, <4>1, <4>2
    <3>4. CASE seg \notin {"", ".", ".."}
      <4>1. Onward(a, seg) = q
        BY <3>4 DEF Onward
      <4>2. Opened(a, seg) = IF q \in DOMAIN Links THEN Links[q] ELSE q
        BY <2>3, <3>4, <4>1 DEF Opened, IsLink
      <4>3. Follow(a, seg) = {IF q \in DOMAIN Links THEN Links[q] ELSE q} \cap Files
        BY <3>4 DEF Follow
      <4> HIDE DEF q
      <4>4. CASE q \in DOMAIN Links \/ q \in Files
        <5>1. Follow(a, seg) = {Opened(a, seg)}
          <6>1. q \in DOMAIN Links => Links[q] \in Files
            BY <1>10, <2>3, <3>4, <4>1 DEF IsLink, a, seg
          <6> QED
            BY <4>2, <4>3, <4>4, <6>1
        <5> QED
          BY <2>2, <2>4, <3>2, <5>1
      <4>5. CASE q \notin DOMAIN Links /\ q \notin Files
        <5>1. Follow(a, seg) = {} /\ Opened(a, seg) = q
          BY <4>2, <4>3, <4>5
        <5>4. to[n] = {} /\ at[n] = q
          BY <2>2, <3>2, <5>1
        <5>2. pinned[n] = {q}
          BY <2>4, <3>1, <3>4, <5>4 DEF q
        <5> QED
          BY <4>5, <5>2, <5>4
      <4> QED
        BY <4>4, <4>5
    <3> QED
      BY <3>3, <3>4
  <2>6. CASE before = {}
    <3>1. to[n] = {}
      BY <2>2, <2>6
    <3>2. pinned[n - 1] = {} \/ (pinned[n - 1] = {a} /\ a \notin Files)
      BY <1>6, <2>6 DEF a, before
    <3>3. CASE pinned[n - 1] = {}
      BY <2>4, <3>1, <3>3
    <3>4. CASE pinned[n - 1] = {a} /\ a \notin Files
      <4>1. CASE seg \in {"", "."}
        <5>1. Opened(a, seg) = a
          BY <4>1 DEF Opened, IsLink, Onward
        <5> QED
          BY <2>2, <2>4, <3>1, <3>4, <4>1, <5>1
      <4>2. CASE seg = ".."
        BY <2>4, <3>1, <4>2
      <4>3. CASE seg \notin {"", ".", ".."}
        <5>1. q \notin Files \cup DOMAIN Links
          BY <2>2, <3>4, <4>3, NothingBelow
        <5>2. Opened(a, seg) = q
          BY <4>3, <5>1 DEF Opened, IsLink, Onward
        <5>3. pinned[n] = {q}
          BY <2>4, <3>1, <3>4, <4>3
        <5> QED
          BY <2>2, <3>1, <5>1, <5>2, <5>3
      <4> QED
        BY <4>1, <4>2, <4>3
    <3> QED
      BY <3>2, <3>3, <3>4
  <2> QED
    BY <2>5, <2>6
<1> HIDE DEF Good
<1>7. 0 \in T /\ \A n \in Nat : n \in T => n + 1 \in T
  <2>1. 0 \in T
    BY <1>5
  <2>2. ASSUME NEW n \in Nat, n \in T PROVE n + 1 \in T
    <3> SUFFICES ASSUME n + 1 <= m
                 PROVE  Good(n + 1)
      OBVIOUS
    <3>1. n + 1 \in 1 .. m /\ (n + 1) - 1 = n /\ n <= m
      BY <1>2
    <3> QED
      BY <1>6, <2>2, <3>1
  <2> QED
    BY <2>1, <2>2
<1>8. Good(m)
  <2> HIDE DEF T
  <2>1. m \in T
    BY <1>2, <1>7, EveryPlace
  <2> QED
    BY <1>2, <2>1 DEF T
<1>9. p \in pinned[m]
  BY DEF canonicalize_action_path, pinned
<1> QED
  BY <1>1, <1>8, <1>9 DEF Good

\* What a call opens is the one path it names, and it is of a class whose paths are
\* looked at.
ToolsOpenWhatTheyName ==
  \A call \in HookCalls[host][manifest] :
    call.path # {} =>
      /\ \E path \in Seq(STRING) : /\ named_path(hook_args(call)) \subseteq {path}
                                   /\ call.path \subseteq {Reached(path)}
      /\ requires_resolved_path(world,
           classify_call(world, hook_request(call).tool, hook_request(call).arguments,
                         hook_request(call).path))

LEMMA OpenedIsNamed ==
  ASSUME ToolsOpenWhatTheyName
  PROVE  HooksNameFiles
<1> SUFFICES ASSUME NEW call \in HookCalls[host][manifest],
                    \A path \in named_path(hook_args(call)) : ~Dangles(path)
             PROVE  NamesItsFile(hook_request(call), call.path)
  BY DEF HooksNameFiles
<1>1. CASE call.path = {}
  BY <1>1 DEF NamesItsFile
<1>2. CASE call.path # {}
  <2>1. PICK path \in Seq(STRING) : /\ named_path(hook_args(call)) \subseteq {path}
                                   /\ call.path \subseteq {Reached(path)}
    BY <1>2 DEF ToolsOpenWhatTheyName
  <2>2. hook_request(call).path
          = UNION {canonicalize_action_path(p) : p \in named_path(hook_args(call))}
    BY DEF hook_request, resolve_action_path
  <2>3. path \in named_path(hook_args(call)) =>
          \A p \in canonicalize_action_path(path) : p = Reached(path)
    BY PinnedIsReached
  <2>4. CASE hook_request(call).path = {}
    BY <1>2, <2>4 DEF NamesItsFile, ToolsOpenWhatTheyName
  <2>5. CASE hook_request(call).path # {}
    <3>1. Reached(path) \in hook_request(call).path
      BY <2>1, <2>2, <2>3, <2>5
    <3> QED
      BY <2>1, <3>1 DEF NamesItsFile
  <2> QED
    BY <2>4, <2>5
<1> QED
  BY <1>1, <1>2

LEMMA ToolsStay ==
  ASSUME [Next]_vars, host \in HookHosts => ToolsOpenWhatTheyName
  PROVE  (host \in HookHosts => ToolsOpenWhatTheyName)'
<1>1. world' = world /\ manifest' = manifest /\ host' = host
  BY OneHostSteps DEF world_vars
<1>2. \A call : hook_args(call)' = hook_args(call)
  BY <1>1 DEF hook_args
<1> QED
  BY <1>1, <1>2, RequestsStay DEF ToolsOpenWhatTheyName

\* No link chooses its own root for what a hook lets through, as the comment on
\* resolve_action_path says of every link in the project (hostkit.rs).
LinksChooseNoRoot == \A r \in ByHook : KeepsRoots(r)

\* Where no link leads to nothing, no link in a project chooses its own root: what a hook
\* lets through opens no file that the innermost root above that file keeps from it
\* (hostkit.rs: resolve_action_path).  A link to nothing may: it is judged by its own
\* name, and opened where it points (hostkit.rs: canonicalize_action_path).
THEOREM LinksKeepRoots ==
  ASSUME ManifestsTighten, EffectsFitTypes, NoLinkDangles
  PROVE  Spec /\ (host \in HookHosts => ToolsOpenWhatTheyName) /\ RootsAreApart
           => []LinksChooseNoRoot
<1> DEFINE Inv == WorldKnown /\ HookReaches /\ RootsFit
                  /\ (host \in HookHosts => ToolsOpenWhatTheyName)
<1>1. Init /\ (host \in HookHosts => ToolsOpenWhatTheyName) /\ RootsAreApart => Inv
  BY DEF Init, StartHost, Validated, WorldKnown, HookInit, HookReaches, RootsFit
<1>2. Inv /\ [Next]_vars => Inv'
  <2> SUFFICES ASSUME Inv, [Next]_vars
               PROVE  Inv'
    OBVIOUS
  <2>1. HookReaches'
    BY HookReachesStays, OpenedIsNamed
  <2>2. RootsFit'
    BY OneHostSteps DEF world_vars, RootsFit, RootsAreApart, ManifestsTighten, EffectsFitTypes
  <2> QED
    BY <2>1, <2>2, WorldStays, ToolsStay
<1>3. Inv => LinksChooseNoRoot
  <2>1. \A path : ~Dangles(path)
    BY DEF Dangles, IsLink, NoLinkDangles
  <2> QED
    BY <2>1 DEF HookReaches, HookConfined, LedToNothing, LinksChooseNoRoot, ByHook
<1> QED
  BY <1>1, <1>2, <1>3, PTL DEF Spec

-----------------------------------------------------------------------------
(* The types of a session (SessionsTyped).  What a manifest that validates  *)
(* is compiled to is a world whose tables are complete and whose names are  *)
(* in them (WorldCompiled).  In such a world the kernel and the gate answer *)
(* in kind, whatever they are sent (OutcomeTyped, GateTyped); so each       *)
(* host's own state stays what the next request is made of.                 *)

\* Every base action, and what a capability narrows, is an action of the manifest.
LEMMA BaseKnown ==
  ASSUME NEW m, IsWorldManifest(m), validate_manifest(m),
         NEW a \in names(m.base_actions) \cup names(m.scoped_capabilities)
  PROVE  IsBaseActionDef(base_of(m, a))
<1>1. /\ \A i \in DOMAIN m.base_actions : IsBaseActionDef(m.base_actions[i])
      /\ \A i \in DOMAIN m.scoped_capabilities :
           m.scoped_capabilities[i].base_action \in names(m.base_actions)
  BY DEF IsWorldManifest, All, validate_manifest
<1>2. \A n \in names(m.base_actions) :
        \E i \in DOMAIN m.base_actions : named(m.base_actions, n) = m.base_actions[i]
  BY DEF names, named
<1>3. a \in names(m.scoped_capabilities) =>
        named(m.scoped_capabilities, a).base_action \in names(m.base_actions)
  BY <1>1 DEF names, named
<1>4. PICK i \in DOMAIN m.base_actions : base_of(m, a) = m.base_actions[i]
  BY <1>2, <1>3 DEF base_of
<1> QED
  BY <1>1, <1>4

LEMMA DescriptorKnown ==
  ASSUME NEW base, IsBaseActionDef(base)
  PROVE  IsDescriptor(descriptor_of(base))
<1>1. backing_of(base) \in BackingIdentity
  <2>1. CASE base.backing = {}
    <3>1. backing_of(base) = [kind |-> "local", handler |-> base.name] /\ base.name \in Name
      BY <2>1 DEF backing_of, IsBaseActionDef
    <3>2. backing_of(base) \in [kind : {"local"}, handler : Name]
      BY <3>1
    <3> QED
      BY <3>2 DEF BackingIdentity
  <2>2. CASE base.backing # {}
    <3>1. backing_of(base) \in base.backing
      BY <2>2 DEF backing_of
    <3> QED
      BY <3>1 DEF IsBaseActionDef, Option
  <2> QED
    BY <2>1, <2>2
<1> QED
  BY <1>1 DEF IsDescriptor, descriptor_of, IsBaseActionDef

LEMMA ChannelsKnown ==
  ASSUME NEW m, IsWorldManifest(m), validate_manifest(m),
         NEW c \in DOMAIN compile_channel_policies(m.channels)
  PROVE  c \in SourceChannel /\ compile_channel_policies(m.channels)[c] \in ChannelPolicy
<1> DEFINE policies == compile_channel_policies(m.channels)
<1>1. CASE m.channels = <<>>
  <2>1. policies = [d \in DOMAIN default_trust |-> [trust |-> default_trust[d], taint |-> default_taint[d]]]
    BY <1>1 DEF compile_channel_policies
  <2>2. DOMAIN default_trust = SourceChannel
    BY DEF default_trust, SourceChannel
  <2>3. default_trust[c] \in TrustLevel
    BY <2>1, <2>2 DEF default_trust, TrustLevel, SourceChannel
  <2>4. default_taint[c] \in Taint
    BY <2>1, <2>2 DEF default_taint, Taint
  <2> QED
    BY <2>1, <2>2, <2>3, <2>4 DEF ChannelPolicy
<1>2. CASE m.channels # <<>>
  <2> DEFINE first(d) == CHOOSE i \in DOMAIN m.channels : from_name[m.channels[i].name] = d
  <2>1. policies = [d \in {from_name[n] : n \in names(m.channels)} |->
                      [trust |-> m.channels[first(d)].trust,
                       taint |-> IF m.channels[first(d)].taint THEN "Tainted" ELSE "Clean"]]
    BY <1>2 DEF compile_channel_policies
  <2>2. PICK n \in names(m.channels) : c = from_name[n]
    BY <2>1
  <2>3. PICK j \in DOMAIN m.channels : n = m.channels[j].name
    BY DEF names
  <2>4. first(c) \in DOMAIN m.channels
    BY <2>2, <2>3
  <2>5. m.channels \in Seq(ChannelDef)
    BY DEF IsWorldManifest
  <2>6. m.channels[first(c)] \in ChannelDef
    <3> HIDE DEF first
    <3> QED
      BY <2>4, <2>5
  <2>7. c \in SourceChannel
    <3>1. n \in DOMAIN from_name
      BY DEF validate_manifest, validate_channels
    <3>2. \A k \in DOMAIN from_name : from_name[k] \in SourceChannel
      BY DEF from_name, SourceChannel
    <3> QED
      BY <2>2, <3>1, <3>2
  <2> HIDE DEF first
  <2>8. policies[c] = [trust |-> m.channels[first(c)].trust,
                       taint |-> IF m.channels[first(c)].taint THEN "Tainted" ELSE "Clean"]
    BY <2>1, <2>2
  <2> QED
    BY <2>6, <2>7, <2>8 DEF ChannelDef, ChannelPolicy, Taint
<1> QED
  BY <1>1, <1>2

\* The world of a session is a compiled world (compile.rs: compile).
LEMMA WorldCompiled == WorldKnown => IsCompiledWorld(world)
<1> SUFFICES ASSUME WorldKnown
             PROVE  IsCompiledWorld(world)
  OBVIOUS
<1> DEFINE o == Manifests[manifest]
           bases == names(o.base_actions)
           caps == names(o.scoped_capabilities)
<1>1. IsWorldManifest(o) /\ validate_manifest(o)
  BY ManifestsAssumption DEF WorldKnown
<1>2. PICK m : /\ world = compile(m)
               /\ \A k \in {"channels", "capabilities", "base_actions", "scoped_capabilities",
                            "command_classes", "path_classes", "transition_policies",
                            "mcp_surface", "budget"} : m[k] = o[k]
  BY CompiledFrom
<1> HIDE DEF o
<1>3. /\ m.base_actions = o.base_actions /\ m.scoped_capabilities = o.scoped_capabilities
      /\ m.channels = o.channels /\ m.capabilities = o.capabilities
      /\ m.command_classes = o.command_classes /\ m.path_classes = o.path_classes
      /\ m.transition_policies = o.transition_policies
      /\ m.mcp_surface = o.mcp_surface /\ m.budget = o.budget
  BY <1>2
<1> DEFINE base(a) == base_of(m, a)
<1>4. \A a : base(a) = base_of(o, a)
  BY <1>3 DEF base_of
<1>5. /\ world.ontology = bases \cup caps
      /\ world.projected = {a \in bases : base(a).projected} \cup caps
      /\ world.descriptors = [a \in bases \cup caps |-> descriptor_of(base(a))]
      /\ world.action_types = [a \in bases \cup caps |-> base(a).action_type]
      /\ world.side_effects = [a \in bases \cup caps |-> base(a).side_effect]
      /\ world.approval_required = {a \in bases \cup caps : base(a).approval_required}
      /\ world.scoped_capabilities = [a \in caps |-> named(o.scoped_capabilities, a)]
  BY <1>2, <1>3 DEF compile, approval_required
<1>6. /\ world.projected \cup world.approval_required \subseteq world.ontology
      /\ {DOMAIN world.descriptors, DOMAIN world.action_types, DOMAIN world.side_effects}
           = {world.ontology}
  <2> HIDE DEF base, bases, caps
  <2> QED
    BY <1>5
<1>7. \A a \in world.ontology : /\ IsDescriptor(world.descriptors[a])
                                /\ world.action_types[a] \in ActionType
                                /\ world.side_effects[a] \in SideEffectClass
  <2> SUFFICES ASSUME NEW a \in bases \cup caps
               PROVE  /\ IsDescriptor(world.descriptors[a])
                      /\ world.action_types[a] \in ActionType
                      /\ world.side_effects[a] \in SideEffectClass
    BY <1>5
  <2>1. IsBaseActionDef(base(a))
    BY <1>1, <1>4, BaseKnown
  <2>2. IsDescriptor(descriptor_of(base(a)))
    BY <2>1, DescriptorKnown
  <2> HIDE DEF base, bases, caps
  <2> QED
    BY <1>5, <2>1, <2>2 DEF IsBaseActionDef
<1>8. /\ DOMAIN world.scoped_capabilities \subseteq world.projected
      /\ \A c \in DOMAIN world.scoped_capabilities :
           /\ IsScopedCapabilityDef(world.scoped_capabilities[c])
           /\ world.scoped_capabilities[c].base_action
                \in world.ontology \ DOMAIN world.scoped_capabilities
  <2>1. DOMAIN world.scoped_capabilities = caps
    BY <1>5
  <2>2. ASSUME NEW c \in caps
        PROVE  /\ IsScopedCapabilityDef(world.scoped_capabilities[c])
               /\ world.scoped_capabilities[c].base_action \in bases \ caps
    <3>1. PICK i \in DOMAIN o.scoped_capabilities :
            named(o.scoped_capabilities, c) = o.scoped_capabilities[i]
      BY DEF names, named
    <3>2. world.scoped_capabilities[c] = o.scoped_capabilities[i]
      BY <1>5, <3>1
    <3>3. IsScopedCapabilityDef(o.scoped_capabilities[i])
      BY <1>1 DEF IsWorldManifest, All
    <3>4. o.scoped_capabilities[i].base_action \in bases
      BY <1>1 DEF validate_manifest
    <3>5. bases \cap caps = {}
      BY <1>1 DEF validate_manifest, names
    <3> QED
      BY <3>2, <3>3, <3>4, <3>5
  <2> QED
    BY <1>5, <2>1, <2>2
<1>9. /\ DOMAIN world.channel_policies \subseteq SourceChannel
      /\ \A c \in DOMAIN world.channel_policies : world.channel_policies[c] \in ChannelPolicy
  <2>1. world.channel_policies = compile_channel_policies(o.channels)
    BY <1>2, <1>3 DEF compile
  <2> QED
    BY <1>1, <2>1, ChannelsKnown
<1>10. /\ DOMAIN world.capability_matrix \subseteq TrustLevel
       /\ \A t \in DOMAIN world.capability_matrix : world.capability_matrix[t] \subseteq ActionType
  <2> DEFINE granted(t) == UNION {m.capabilities[i].actions :
                             i \in {j \in DOMAIN m.capabilities : m.capabilities[j].trust = t}}
             trusts == {m.capabilities[i].trust : i \in DOMAIN m.capabilities}
  <2>1. world.capability_matrix = [t \in trusts |-> granted(t)]
    BY <1>2 DEF compile
  <2>2. \A i \in DOMAIN m.capabilities : m.capabilities[i] \in CapabilityGrant
    BY <1>1, <1>3 DEF IsWorldManifest, All
  <2>3. \A i \in DOMAIN m.capabilities :
          m.capabilities[i].trust \in TrustLevel /\ m.capabilities[i].actions \subseteq ActionType
    BY <2>2 DEF CapabilityGrant
  <2>4. trusts \subseteq TrustLevel /\ \A t : granted(t) \subseteq ActionType
    BY <2>3
  <2> HIDE DEF granted, trusts
  <2> QED
    BY <2>1, <2>4
<1>11. All(world.taint_rules, IsTransitionPolicy)
  <2> DEFINE policies == o.transition_policies
             named_rule(i) == [policies[i] EXCEPT !.rule = IF @ = "" THEN "transition" ELSE @]
  <2>1. world.taint_rules = [i \in DOMAIN policies |-> named_rule(i)]
    BY <1>2, <1>3 DEF compile
  <2>2. IsList(policies) /\ \A i \in DOMAIN policies : IsTransitionPolicy(policies[i])
    BY <1>1 DEF IsWorldManifest, All
  <2>3. \A i \in DOMAIN policies : IsTransitionPolicy(named_rule(i))
    <3> SUFFICES ASSUME NEW i \in DOMAIN policies
                 PROVE  IsTransitionPolicy(named_rule(i))
      OBVIOUS
    <3>1. IsTransitionPolicy(policies[i])
      BY <2>2
    <3> DEFINE p == policies[i]
               rule == IF p.rule = "" THEN "transition" ELSE p.rule
    <3>2. rule # None
      BY <3>1 DEF IsTransitionPolicy, None
    <3>3. named_rule(i) = [p EXCEPT !.rule = rule]
      OBVIOUS
    <3> HIDE DEF p, rule, named_rule
    <3> QED
      BY <3>1, <3>2, <3>3 DEF IsTransitionPolicy, p
  <2>4. IsList(world.taint_rules)
    <3> HIDE DEF named_rule, policies
    <3>1. Len(policies) \in Nat /\ DOMAIN policies = 1 .. Len(policies)
      BY <2>2 DEF IsList
    <3>2. Len(world.taint_rules) = Len(policies)
      BY <2>1, <3>1
    <3> QED
      BY <2>1, <3>1, <3>2 DEF IsList
  <2> HIDE DEF named_rule, policies
  <2> QED
    BY <2>1, <2>3, <2>4 DEF All
<1>12. /\ world.effect_rules \in Seq(EffectRule)
       /\ All(world.command_classes, IsCommandClassDef) /\ All(world.path_classes, IsPathClassDef)
       /\ Option(world.mcp_surface, McpSurfaceDef) /\ IsBudget(world.budget)
  <2>1. /\ world.effect_rules = <<>> /\ world.command_classes = o.command_classes
        /\ world.path_classes = o.path_classes /\ world.mcp_surface = o.mcp_surface
        /\ world.budget = o.budget
    BY <1>2, <1>3 DEF compile
  <2> QED
    BY <1>1, <2>1 DEF IsWorldManifest
<1>13. Option(world.roots, RootsDef)
  <2>1. AtMostOne(o.roots)
    BY <1>1 DEF IsWorldManifest, Option
  <2>2. AtMostOne(world.roots)
    <3>1. CASE host = "gateway"
      BY <2>1, <3>1 DEF WorldKnown, compile, o
    <3>2. CASE host # "gateway"
      <4> DEFINE resolved(r) == canonicalize_root_paths(resolve_root_paths(r, Home, Base))
                 n == [o EXCEPT !.roots = {resolved(r) : r \in @}]
      <4>1. world = compile(n)
        BY <3>2 DEF WorldKnown, load_compiled_world, o
      <4>2. n.roots = {resolved(r) : r \in o.roots}
        BY <1>1 DEF IsWorldManifest
      <4> HIDE DEF n, resolved
      <4>3. world.roots = {resolved(r) : r \in o.roots}
        BY <4>1, <4>2 DEF compile
      <4> QED
        BY <2>1, <4>3 DEF AtMostOne
    <3> QED
      BY <3>1, <3>2
  <2> QED
    BY <2>2, RootsKnown DEF Option
<1> QED
  BY <1>6, <1>7, <1>8, <1>9, <1>10, <1>11, <1>12, <1>13 DEF IsCompiledWorld

-----------------------------------------------------------------------------
(* What the kernel and the gate answer, in any compiled world.             *)

\* A call is of an action that has a name, whatever class it falls into.
LEMMA CommandNamed ==
  ASSUME NEW w, IsCompiledWorld(w), NEW tool \in Name, NEW args
  PROVE  classify_command(w, tool, args) \in Name
<1> DEFINE defs == {i \in DOMAIN w.command_classes : w.command_classes[i].action = tool}
           def == w.command_classes[CHOOSE i \in defs : \A j \in defs : i <= j]
           fallback == IF def.default_to = {} THEN tool ELSE CHOOSE d \in def.default_to : TRUE
           targets == {c.to : c \in {k \in def.classes :
                        \E p \in k.patterns :
                          left_word_match(raw_words(members(args)[def.arg].str), p)}}
           target == CHOOSE t \in targets : TRUE
<1>1. /\ Len(w.command_classes) \in Nat /\ DOMAIN w.command_classes = 1 .. Len(w.command_classes)
      /\ \A i \in DOMAIN w.command_classes : IsCommandClassDef(w.command_classes[i])
  BY DEF IsCompiledWorld, All, IsList
<1>2. defs # {} => IsCommandClassDef(def)
  <2> SUFFICES ASSUME defs # {}
               PROVE  IsCommandClassDef(def)
    OBVIOUS
  <2>1. defs \subseteq 1 .. Len(w.command_classes)
    BY <1>1
  <2>2. (CHOOSE i \in defs : \A j \in defs : i <= j) \in defs
    <3> HIDE DEF defs
    <3> QED
      BY <1>1, <2>1, FirstMatch
  <2> QED
    BY <1>1, <2>2
<1>3. classify_command(w, tool, args) \in {tool, fallback}
      \/ /\ defs # {} /\ classify_command(w, tool, args) = target
         /\ \E t \in targets : targets = {t}
  BY DEF classify_command
<1> HIDE DEF defs, def
<1>4. defs # {} => fallback \in Name /\ targets \subseteq Name
  BY <1>2 DEF IsCommandClassDef, IsCommandClassRule, Option
<1>5. defs = {} => classify_command(w, tool, args) = tool
  BY DEF classify_command, defs
<1> HIDE DEF fallback, targets
<1> QED
  BY <1>3, <1>4, <1>5

LEMMA ActionNamed ==
  ASSUME NEW w, IsCompiledWorld(w), NEW tool \in Name, NEW args, NEW path
  PROVE  classify_call(w, tool, args, path) \in Name
<1>1. /\ Len(w.path_classes) \in Nat /\ DOMAIN w.path_classes = 1 .. Len(w.path_classes)
      /\ \A i \in DOMAIN w.path_classes : IsPathClassDef(w.path_classes[i])
  BY DEF IsCompiledWorld, All, IsList
<1> DEFINE class(i) == w.path_classes[i]
           written(i) == {members(args)[s.arg].str :
             s \in {u \in class(i).from : /\ u.action = tool /\ u.arg \in DOMAIN members(args)
                                          /\ is(members(args)[u.arg], "str")}}
           hit(i) == /\ \E s \in class(i).from : s.action = tool
                     /\ \E p \in path \cup written(i), g \in class(i).patterns : path_glob_match(p, g)
           hits == {i \in DOMAIN w.path_classes : hit(i)}
<1>2. classify_call(w, tool, args, path)
        = IF classify_command(w, tool, args) # tool THEN classify_command(w, tool, args)
          ELSE IF hits # {} THEN class(CHOOSE i \in hits : \A j \in hits : i <= j).to
          ELSE tool
  BY DEF classify_call
<1>3. hits \subseteq 1 .. Len(w.path_classes)
  BY <1>1
<1> HIDE DEF hits
<1>4. CASE hits # {}
  <2>1. (CHOOSE i \in hits : \A j \in hits : i <= j) \in hits
    BY <1>1, <1>3, <1>4, FirstMatch
  <2>2. class(CHOOSE i \in hits : \A j \in hits : i <= j).to \in Name
    BY <1>1, <1>3, <2>1 DEF IsPathClassDef
  <2> QED
    BY <1>2, <2>2, CommandNamed
<1>5. CASE hits = {}
  BY <1>2, <1>5, CommandNamed
<1> QED
  BY <1>4, <1>5

\* What keeps a call from being sealed has a name, and what is sealed is of the world.
LEMMA ErrorsNamed ==
  ASSUME NEW w, NEW action, NEW args, NEW trust, NEW ctx
  PROVE  /\ build_error(w, action, args, trust, ctx) \in BuildError \cup {None}
         /\ build_error(w, action, args, trust, ctx) = None => action \in w.ontology
<1>1. check_flow(w, action, ctx) \in {None, "missing_flow_context", "confidentiality_violation",
                                      "integrity_violation"}
  <2>1. \A sink, label : violated_axis(sink, label) \in {None, "confidentiality_violation",
                                                         "integrity_violation"}
    BY DEF violated_axis
  <2> QED
    BY <2>1 DEF check_flow
<1> QED
  BY <1>1 DEF build_error, BuildError, None

\* An answer that does not let a call pass has a reason.
LEMMA EvaluationTyped ==
  ASSUME NEW w, IsCompiledWorld(w), NEW action, NEW ctx
  PROVE  LET a == evaluate(w, action, ctx)
         IN  /\ a.decision \in Decision /\ Option(a.effect_mode, EffectMode)
             /\ a.effect_mode # {} => a.decision = "Allow"
             /\ a.decision # "Allow" => a.rule # None
<1> DEFINE at == w.action_types[action]
           se == w.side_effects[action]
           matching == {i \in DOMAIN w.taint_rules :
                          /\ w.taint_rules[i].from_taint = effective_floor_taint(w, action, ctx.taint)
                          /\ w.taint_rules[i].side_effect = se}
           rule == w.taint_rules[CHOOSE i \in matching : \A j \in matching : i <= j]
           over == budget_exceeded(w.budget, ctx.usage, at, se)
           pinned == {i \in DOMAIN w.effect_rules : w.effect_rules[i].action = action}
           first == CHOOSE i \in pinned : \A j \in pinned : i <= j
           a == evaluate(w, action, ctx)
<1>1. matching # {} => IsTransitionPolicy(rule)
  <2> SUFFICES ASSUME matching # {}
               PROVE  IsTransitionPolicy(rule)
    OBVIOUS
  <2>1. /\ Len(w.taint_rules) \in Nat /\ DOMAIN w.taint_rules = 1 .. Len(w.taint_rules)
        /\ \A i \in DOMAIN w.taint_rules : IsTransitionPolicy(w.taint_rules[i])
    BY DEF IsCompiledWorld, All, IsList
  <2>2. matching \subseteq 1 .. Len(w.taint_rules)
    BY <2>1
  <2>3. (CHOOSE i \in matching : \A j \in matching : i <= j) \in matching
    <3> HIDE DEF matching
    <3> QED
      BY <2>1, <2>2, FirstMatch
  <2> QED
    BY <2>1, <2>3
<1>2. pinned # {} => w.effect_rules[first].effect_mode \in EffectMode
  <2> SUFFICES ASSUME pinned # {}
               PROVE  w.effect_rules[first].effect_mode \in EffectMode
    OBVIOUS
  <2>1. w.effect_rules \in Seq(EffectRule)
    BY DEF IsCompiledWorld
  <2>2. pinned \subseteq 1 .. Len(w.effect_rules) /\ Len(w.effect_rules) \in Nat
    BY <2>1
  <2>3. first \in pinned
    <3> HIDE DEF pinned
    <3> QED
      BY <2>2, FirstMatch
  <2>4. w.effect_rules[first] \in EffectRule
    <3> HIDE DEF first
    <3> QED
      BY <2>1, <2>3
  <2> QED
    BY <2>4 DEF EffectRule
<1>3. over \in {None, "max_commands_per_task", "max_network_calls", "max_file_writes",
                "max_tokens_per_session"}
  BY DEF budget_exceeded
<1>4. a = IF matching # {} THEN answer(rule.decision, {}, rule.rule)
          ELSE IF action \in w.approval_required /\ ~ctx.approval_granted
          THEN IF ctx.mode = "Background" THEN answer("Deny", {}, "background_denies_ask")
               ELSE answer("Ask", {}, "approval_required")
          ELSE IF over # None THEN answer("Replan", {}, over)
          ELSE answer("Allow", IF pinned = {} THEN {"Execute"}
                               ELSE {w.effect_rules[first].effect_mode}, "default_allow")
  BY DEF evaluate
<1>5. {} \subseteq EffectMode /\ "Execute" \in EffectMode
  BY DEF EffectMode
<1> HIDE DEF matching, rule, over, pinned, first, a
<1>6. CASE matching # {}
  <2>1. a = answer(rule.decision, {}, rule.rule) /\ IsTransitionPolicy(rule)
    BY <1>1, <1>4, <1>6
  <2> QED
    BY <1>5, <2>1 DEF answer, IsTransitionPolicy, Option, AtMostOne, a
<1>7. CASE matching = {}
  <2>1. \/ a = answer("Deny", {}, "background_denies_ask")
        \/ a = answer("Ask", {}, "approval_required")
        \/ over # None /\ a = answer("Replan", {}, over)
        \/ \E m \in EffectMode : a = answer("Allow", {m}, "default_allow")
    BY <1>2, <1>4, <1>5, <1>7
  <2> QED
    BY <1>5, <2>1 DEF answer, Decision, Option, AtMostOne, None, a
<1> QED
  BY <1>6, <1>7

\* The outcome of the kernel (lib.rs: decide).
LEMMA OutcomeTyped ==
  ASSUME NEW w, IsCompiledWorld(w), NEW action, NEW args, NEW trust, NEW ctx
  PROVE  LET k == decide(w, action, args, trust, ctx)
         IN  /\ IsKernelOutcome(k)
             /\ k.sealed => action \in w.ontology
             /\ k.decision # "Allow" => k.rule # None
<1> DEFINE error == build_error(w, action, args, trust, ctx.taint)
           a == evaluate(w, action, ctx)
           k == decide(w, action, args, trust, ctx)
<1>1. error \in BuildError \cup {None} /\ (error = None => action \in w.ontology)
  BY ErrorsNamed
<1>2. /\ a.decision \in Decision /\ Option(a.effect_mode, EffectMode)
      /\ a.effect_mode # {} => a.decision = "Allow"
      /\ a.decision # "Allow" => a.rule # None
  BY EvaluationTyped
<1>3. k = IF error # None
          THEN [decision |-> classify(error), effect_mode |-> {}, rule |-> error, sealed |-> FALSE]
          ELSE [decision |-> a.decision, effect_mode |-> a.effect_mode, rule |-> a.rule,
                sealed |-> TRUE]
  BY DEF decide
<1> HIDE DEF error, a, k
<1>4. CASE error # None
  <2>1. k = [decision |-> classify(error), effect_mode |-> {}, rule |-> error, sealed |-> FALSE]
    BY <1>3, <1>4
  <2>2. classify(error) \in Decision /\ error \in BuildError
    BY <1>1, <1>4 DEF classify, Decision
  <2>3. Option({}, EffectMode)
    BY DEF Option, AtMostOne
  <2> QED
    BY <1>4, <2>1, <2>2, <2>3 DEF IsKernelOutcome, k
<1>5. CASE error = None
  <2>1. k = [decision |-> a.decision, effect_mode |-> a.effect_mode, rule |-> a.rule, sealed |-> TRUE]
    BY <1>3, <1>5
  <2> QED
    BY <1>1, <1>2, <1>5, <2>1 DEF IsKernelOutcome, k
<1> QED
  BY <1>4, <1>5

\* What a call of the world is handed back as, under the base action's names.
LEMMA EffectiveTyped ==
  ASSUME NEW w, IsCompiledWorld(w), NEW action \in w.ontology, action \in Name,
         NEW args, IsArguments(args)
  PROVE  IsEffectiveCall(effective_call(w, action, args))
<1> DEFINE e == effective_call(w, action, args)
<1>1. CASE ~scoped(w, action)
  <2>1. e = [base_action |-> action, arguments |-> args, context_refs |-> Empty, stripped |-> {}]
    BY <1>1 DEF effective_call
  <2>2. IsMap(Empty, LAMBDA key : key \in Name)
    BY DEF IsMap, Empty
  <2>3. IsValue(args)
    BY DEF IsArguments
  <2> HIDE DEF e
  <2> QED
    BY <2>1, <2>2, <2>3 DEF IsEffectiveCall, e
<1>2. CASE scoped(w, action)
  <2> DEFINE cap == w.scoped_capabilities[action]
             f == [a \in given(w, action, args) \cup literals(w, action) |->
                     scoped_value(w, action, args, a)]
             refs == [a \in context_args(w, action) |-> cap.args[a].key]
             supplied == UNION {actor_name(cap.args[a], a) : a \in DOMAIN cap.args}
             left == DOMAIN members(args) \ supplied
  <2>1. e = [base_action |-> cap.base_action, arguments |-> Obj(f), context_refs |-> refs,
             stripped |-> left]
    BY <1>2 DEF effective_call
  <2>2. IsScopedCapabilityDef(cap)
    BY <1>2 DEF scoped, IsCompiledWorld
  <2>3. cap.base_action \in Name /\ DOMAIN cap.args \subseteq Name
        /\ \A a \in DOMAIN cap.args : IsArgSource(cap.args[a])
    BY <2>2 DEF IsScopedCapabilityDef, IsMap
  <2>4. IsMap(refs, LAMBDA key : key \in Name)
    <3>1. DOMAIN refs \subseteq DOMAIN cap.args /\ \A a \in DOMAIN refs : cap.args[a].from = "context"
      BY DEF context_args, cap_args
    <3>2. \A a \in DOMAIN refs : refs[a] \in Name
      BY <2>3, <3>1 DEF IsArgSource
    <3> HIDE DEF refs
    <3> QED
      BY <2>3, <3>1, <3>2 DEF IsMap
  <2>5. IsValue(Obj(f))
    <3> HIDE DEF f
    <3> QED
      BY DEF IsValue, Obj, Kinds, is
  <2>6. left \subseteq Name
    BY DEF IsArguments
  <2> HIDE DEF e, f, refs, left, cap
  <2> QED
    BY <2>1, <2>3, <2>4, <2>5, <2>6 DEF IsEffectiveCall, e
<1> QED
  BY <1>1, <1>2

\* What is known of an argument is the ambient label, or one that was sent.
LEMMA BoundTyped ==
  ASSUME NEW known, NEW around, NEW names_of, NEW T,
         around \in T, \A n \in DOMAIN known : known[n] \in T
  PROVE  bound(known, around, names_of) \in T
<1> DEFINE labels_sent == {known[n] : n \in names_of \cap DOMAIN known}
<1>1. bound(known, around, names_of) = IF labels_sent = {} THEN around ELSE CHOOSE x \in labels_sent : TRUE
  BY DEF bound
<1>2. labels_sent \subseteq T
  OBVIOUS
<1> HIDE DEF labels_sent
<1> QED
  BY <1>1, <1>2

\* The least label of a result.
LEMMA ResultFloorTyped ==
  ASSUME NEW w, IsCompiledWorld(w), NEW action \in w.ontology, NEW ctx,
         AtMostOne(ctx.flow), \A f \in ctx.flow : IsFlowContext(f)
  PROVE  Option(result_label_floor(w, action, ctx), FlowLabel)
<1> DEFINE contracts == w.descriptors[action].flow_contract
           inherited(f, c) == {bound(f.args, f.ambient, binding(w, action, arg)) :
                                 arg \in {a \in c.inherits : ~is_literal(w, action, a)}}
           floor(f, c) == IF c.output \cup inherited(f, c) = {} THEN {}
                          ELSE {UNION (c.output \cup inherited(f, c))}
<1>1. result_label_floor(w, action, ctx) = UNION {UNION {floor(f, c) : f \in ctx.flow} : c \in contracts}
  BY DEF result_label_floor
<1>2. AtMostOne(contracts) /\ \A c \in contracts : IsFlowContract(c)
  BY DEF IsCompiledWorld, IsDescriptor
<1>3. ASSUME NEW f \in ctx.flow, NEW c \in contracts
      PROVE  Option(floor(f, c), FlowLabel)
  <2>1. inherited(f, c) \subseteq FlowLabel
    BY BoundTyped DEF IsFlowContext
  <2>2. c.output \subseteq FlowLabel
    BY <1>2 DEF IsFlowContract, Option
  <2> HIDE DEF inherited
  <2>3. UNION (c.output \cup inherited(f, c)) \in FlowLabel
    BY <2>1, <2>2 DEF FlowLabel
  <2> QED
    BY <2>3 DEF Option, AtMostOne
<1> HIDE DEF contracts, floor
<1>4. CASE ctx.flow = {} \/ contracts = {}
  <2>1. result_label_floor(w, action, ctx) = {}
    BY <1>1, <1>4
  <2> QED
    BY <2>1 DEF Option, AtMostOne
<1>5. CASE ctx.flow # {} /\ contracts # {}
  <2>1. PICK f, c : ctx.flow = {f} /\ contracts = {c}
    BY <1>2, <1>5 DEF AtMostOne
  <2>2. result_label_floor(w, action, ctx) = floor(f, c)
    BY <1>1, <2>1
  <2> QED
    BY <1>3, <2>1, <2>2
<1> QED
  BY <1>4, <1>5

LEMMA ChargeTyped ==
  ASSUME NEW T, NEW at, NEW se,
         NEW u \in [commands_run : Nat, network_calls : Nat, file_writes : Nat, tokens_used : T]
  PROVE  charge(u, at, se)
           \in [commands_run : Nat, network_calls : Nat, file_writes : Nat, tokens_used : T]
<1> DEFINE c == One(is_command(at))
           n == One(is_networky(at, se))
           f == One(is_write(se))
<1>1. c \in Nat /\ n \in Nat /\ f \in Nat
  BY DEF One
<1>2. charge(u, at, se)
        = [u EXCEPT !.commands_run = @ + c, !.network_calls = @ + n, !.file_writes = @ + f]
  BY DEF charge
<1> HIDE DEF c, n, f
<1>3. charge(u, at, se) = [commands_run |-> u.commands_run + c, network_calls |-> u.network_calls + n,
                           file_writes |-> u.file_writes + f, tokens_used |-> u.tokens_used]
  BY <1>2
<1> QED
  BY <1>1, <1>3

\* The labels that go back to the caller.
LEMMA FlowTyped ==
  ASSUME NEW w, IsCompiledWorld(w), NEW action, NEW path, NEW tc, NEW out, NEW runs_it \in BOOLEAN,
         runs_it => action \in w.ontology, AtMostOne(tc.flow), \A f \in tc.flow : IsFlowContext(f)
  PROVE  LET flow == flow_out(w, action, path, tc, out, runs_it)
         IN  AtMostOne(flow) /\ \A f \in flow : IsGateFlowResponse(f)
<1> DEFINE floor == IF runs_it THEN result_label_floor(w, action, tc) ELSE {}
           foreign == IF ingress(w, action, path) THEN {"Untrusted"} ELSE {}
           result == {l \cup foreign : l \in floor}
           brings == IF out = "Tainted" THEN {"Untrusted"} ELSE {}
           back(f) == [ambient |-> f.ambient \cup (UNION result) \cup brings, result |-> result]
<1>1. flow_out(w, action, path, tc, out, runs_it) = {back(f) : f \in tc.flow}
  BY DEF flow_out
<1>2. Option(floor, FlowLabel)
  <2>1. runs_it => Option(result_label_floor(w, action, tc), FlowLabel)
    BY ResultFloorTyped
  <2> QED
    BY <2>1 DEF Option, AtMostOne
<1>3. foreign \in FlowLabel /\ brings \in FlowLabel
  BY DEF FlowLabel
<1> HIDE DEF floor, foreign, brings
<1>4. Option(result, FlowLabel) /\ UNION result \in FlowLabel
  <2>1. CASE floor = {}
    BY <2>1 DEF Option, AtMostOne, FlowLabel
  <2>2. ASSUME NEW l, floor = {l} PROVE Option(result, FlowLabel) /\ UNION result \in FlowLabel
    <3>1. result = {l \cup foreign} /\ l \cup foreign \in FlowLabel
      BY <1>2, <1>3, <2>2 DEF Option, FlowLabel
    <3>2. UNION {l \cup foreign} = l \cup foreign
      OBVIOUS
    <3> HIDE DEF result
    <3> QED
      BY <3>1, <3>2 DEF Option, AtMostOne
  <2> QED
    BY <1>2, <2>1, <2>2 DEF Option, AtMostOne
<1>5. ASSUME NEW f \in tc.flow PROVE IsGateFlowResponse(back(f))
  <2>1. f.ambient \in FlowLabel
    BY DEF IsFlowContext
  <2>2. f.ambient \cup (UNION result) \cup brings \in FlowLabel
    BY <1>3, <1>4, <2>1 DEF FlowLabel
  <2> HIDE DEF result
  <2> QED
    BY <1>4, <2>2 DEF IsGateFlowResponse
<1> HIDE DEF back
<1> QED
  BY <1>1, <1>5 DEF AtMostOne

\* The answer to a call that was decided on.
LEMMA ResponseTyped ==
  ASSUME NEW w, IsCompiledWorld(w), NEW req, IsGateRequest(req), NEW action \in Name,
         NEW inbound \in Taint, NEW tc, AtMostOne(tc.flow), \A f \in tc.flow : IsFlowContext(f),
         NEW kernel, IsKernelOutcome(kernel), kernel.sealed => action \in w.ontology,
         NEW final, final.decision \in Decision,
         final.decision = "Allow" => kernel.sealed /\ kernel.decision = "Allow",
         final.decision = "Ask" => kernel.sealed,
         final.decision # "Allow" => final.rule # None,
         carried(req) \in BudgetUsage
  PROVE  IsGateResponse(response(w, req, action, inbound, tc, kernel, final))
<1> DEFINE allowed == final.decision = "Allow"
           both == allowed /\ kernel.sealed
           out == out_taint(w, action, req.path, inbound, allowed)
           usage == out_usage(w, action, carried(req), allowed)
           flow == flow_out(w, action, req.path, tc, out, both)
           held == final.decision \in {"Allow", "Ask"} /\ kernel.sealed
           effective == IF held THEN {effective_call(w, action, req.arguments)} ELSE {}
           lowered == IF both THEN kernel.effect_mode ELSE {}
           rule == IF allowed THEN None ELSE final.rule
           res == response(w, req, action, inbound, tc, kernel, final)
<1>1. res = [decision |-> final.decision, action |-> action, rule |-> rule, taint |-> out,
             usage |-> usage, flow |-> flow, effective |-> effective, lowered |-> lowered]
  BY DEF response
<1>2. out \in Taint
  BY DEF out_taint, join, Taint
<1>3. usage \in BudgetUsage
  BY ChargeTyped DEF out_usage, BudgetUsage
<1>4. AtMostOne(flow) /\ \A f \in flow : IsGateFlowResponse(f)
  <2>1. both \in BOOLEAN /\ (both => action \in w.ontology)
    OBVIOUS
  <2> HIDE DEF both, out
  <2> QED
    BY <2>1, FlowTyped
<1>5. /\ AtMostOne(effective) /\ \A e \in effective : IsEffectiveCall(e)
      /\ effective # {} <=> final.decision \in {"Allow", "Ask"}
  <2>1. held => IsEffectiveCall(effective_call(w, action, req.arguments))
    BY EffectiveTyped DEF IsGateRequest
  <2>2. held <=> final.decision \in {"Allow", "Ask"}
    OBVIOUS
  <2> HIDE DEF held
  <2> QED
    BY <2>1, <2>2 DEF AtMostOne
<1>6. Option(lowered, EffectMode) /\ (lowered # {} => final.decision = "Allow")
  BY DEF IsKernelOutcome, Option, AtMostOne
<1>7. final.decision = "Allow" <=> rule = None
  OBVIOUS
<1> HIDE DEF out, usage, flow, effective, lowered, rule, res
<1> QED
  BY <1>1, <1>2, <1>3, <1>4, <1>5, <1>6, <1>7 DEF IsGateResponse, IsGateResponseContext, res

\* What a request says of its session, once it parses.
LEMMA RequestTyped ==
  ASSUME NEW req, IsGateRequest(req)
  PROVE  /\ carried(req) \in BudgetUsage
         /\ req.taint # {} /\ req.taint \subseteq DOMAIN parse_taint =>
              parse_taint[CHOOSE t \in req.taint : TRUE] \in Taint
         /\ flow_is_valid(req.flow) => \A inbound :
              LET tc == taint_context(req, inbound)
              IN  AtMostOne(tc.flow) /\ \A f \in tc.flow : IsFlowContext(f)
<1>1. IsGateContext(req)
  BY DEF IsGateRequest
<1>2. carried(req) \in BudgetUsage
  <2>1. Option(req.usage, BudgetUsage)
    BY <1>1 DEF IsGateContext
  <2>2. NoUsage \in BudgetUsage
    BY DEF NoUsage, BudgetUsage
  <2> QED
    BY <2>1, <2>2 DEF carried, Option
<1>3. ASSUME req.taint # {}, req.taint \subseteq DOMAIN parse_taint
      PROVE  parse_taint[CHOOSE t \in req.taint : TRUE] \in Taint
  <2>1. (CHOOSE t \in req.taint : TRUE) \in DOMAIN parse_taint
    BY <1>3
  <2>2. \A t \in DOMAIN parse_taint : parse_taint[t] \in Taint
    BY DEF parse_taint, Taint
  <2> QED
    BY <2>1, <2>2
<1>4. ASSUME flow_is_valid(req.flow), NEW inbound
      PROVE  LET tc == taint_context(req, inbound)
             IN  AtMostOne(tc.flow) /\ \A f \in tc.flow : IsFlowContext(f)
  <2> DEFINE tc == taint_context(req, inbound)
             parsed == CHOOSE f \in parse_flow(req.flow) : TRUE
  <2>1. CASE req.flow = {}
    <3>1. tc.flow = {}
      BY <2>1 DEF taint_context, from_taint
    <3> QED
      BY <3>1 DEF AtMostOne
  <2>2. CASE req.flow # {}
    <3>1. tc.flow = {parsed}
      <4> HIDE DEF parsed
      <4>1. tc = with_flow(from_taint(inbound), parsed)
        BY <2>2 DEF taint_context, parsed
      <4> QED
        BY <4>1 DEF with_flow
    <3>2. parsed \in parse_flow(req.flow)
      BY <2>2 DEF parse_flow
    <3>3. PICK f \in req.flow : parsed = [ambient |-> CHOOSE l \in f.ambient : TRUE, args |-> f.args]
      BY <3>2 DEF parse_flow
    <3>4. /\ IsGateFlowContext(f) /\ f.ambient # {} /\ \A l \in f.ambient : l # BadLabel
          /\ \A a \in DOMAIN f.args : f.args[a] # BadLabel
      BY <1>1, <1>4 DEF IsGateContext, flow_is_valid
    <3>5. (CHOOSE l \in f.ambient : TRUE) \in FlowLabel
      BY <3>4 DEF IsGateFlowContext, IsGateLabel
    <3>6. DOMAIN f.args \subseteq Name /\ \A a \in DOMAIN f.args : f.args[a] \in FlowLabel
      BY <3>4 DEF IsGateFlowContext, IsMap, IsGateLabel
    <3> HIDE DEF parsed, tc
    <3>7. IsFlowContext(parsed)
      BY <3>3, <3>5, <3>6 DEF IsFlowContext
    <3> QED
      BY <3>1, <3>7 DEF AtMostOne, tc
  <2> QED
    BY <2>1, <2>2
<1> QED
  BY <1>2, <1>3, <1>4

\* The roots answer a file action with a reason, unless they let it be.
LEMMA ScopeTyped ==
  ASSUME NEW w, NEW action, NEW path, NEW how
  PROVE  LET scope == path_scope(w, action, path, how)
         IN  scope.decision \in {"Allow", "Ask", "Deny"} /\ (scope.decision # "Allow" => scope.rule # None)
BY DEF path_scope, answer, None

\* Every answer of the gate, in a compiled world, is a response: a call is handed back
\* exactly when it may run or may be asked for, and is lowered only when it runs; a
\* refusal has a reason, and what the session carries on is a taint, a usage and labels
\* (gate.rs: gate, response).
THEOREM GateTyped ==
  ASSUME NEW w, IsCompiledWorld(w), NEW req, IsGateRequest(req), NEW granted
  PROVE  IsGateResponse(gate(w, req, granted))
<1> DEFINE action == classify_call(w, req.tool, req.arguments, req.path)
<1>1. action \in Name
  <2>1. req.tool \in Name
    BY DEF IsGateRequest
  <2> QED
    BY <2>1, ActionNamed
<1>2. CASE malformed(w, req) # None
  <2> DEFINE rule == malformed(w, req)
             taint == IF rule \in {"missing_taint", "invalid_taint"} THEN "Tainted"
                      ELSE parse_taint[CHOOSE t \in req.taint : TRUE]
             res == denied_response(action, rule, taint, carried(req))
  <2>1. gate(w, req, granted) = res
    BY <1>2 DEF gate, refused
  <2>2. rule \notin {"missing_taint", "invalid_taint"} =>
          req.taint # {} /\ req.taint \subseteq DOMAIN parse_taint
    BY DEF malformed
  <2>3. taint \in Taint
    BY <2>2, RequestTyped DEF Taint
  <2>4. carried(req) \in BudgetUsage
    BY RequestTyped
  <2> HIDE DEF action, rule, taint
  <2>5. /\ res = [decision |-> "Deny", action |-> action, rule |-> rule, taint |-> taint,
                  usage |-> carried(req), flow |-> {}, effective |-> {}, lowered |-> {}]
        /\ rule # None
    BY <1>2 DEF denied_response, rule
  <2> HIDE DEF res
  <2>6. IsGateResponse(res)
    BY <1>1, <2>3, <2>4, <2>5
      DEF IsGateResponse, IsGateResponseContext, Decision, Option, AtMostOne
  <2> QED
    BY <2>1, <2>6
<1>3. CASE malformed(w, req) = None
  <2> DEFINE tc == Known(w, req)
             ctx == [taint |-> tc, mode |-> parse_mode(req.mode), usage |-> carried(req),
                     approval_granted |-> granted]
             kernel == decide(w, action, req.arguments, PolicyOf(w, req).trust, ctx)
             scope == path_scope(w, action, req.path, parse_mode(req.mode))
             final == tightened(kernel, scope)
  <2>1. gate(w, req, granted) = governed(w, req, granted, action, PolicyOf(w, req))
    BY <1>3 DEF gate, PolicyOf
  <2>2. governed(w, req, granted, action, PolicyOf(w, req))
          = decided(w, req, granted, action, PolicyOf(w, req).trust, Inbound(w, req), tc)
    BY DEF governed, Inbound, Known
  <2>3. gate(w, req, granted) = response(w, req, action, Inbound(w, req), tc, kernel, final)
    <3> HIDE DEF action, tc
    <3> QED
      BY <2>1, <2>2 DEF decided, scoped_response
  <2>4. Inbound(w, req) \in Taint
    BY DEF Inbound, join, Taint
  <2>5. AtMostOne(tc.flow) /\ \A f \in tc.flow : IsFlowContext(f)
    <3>1. flow_is_valid(req.flow)
      BY <1>3 DEF malformed, None
    <3> QED
      BY <3>1, RequestTyped DEF Known
  <2>6. /\ IsKernelOutcome(kernel) /\ (kernel.sealed => action \in w.ontology)
        /\ kernel.decision # "Allow" => kernel.rule # None
    <3> HIDE DEF action, ctx
    <3> QED
      BY OutcomeTyped
  <2>7. scope.decision \in {"Allow", "Ask", "Deny"} /\ (scope.decision # "Allow" => scope.rule # None)
    BY ScopeTyped
  <2> HIDE DEF action, tc, ctx, kernel, scope
  <2>8. kernel.decision \in {"Allow", "Ask"} => kernel.sealed
    BY <2>6 DEF IsKernelOutcome, classify
  <2>9. /\ final.decision \in Decision
        /\ final.decision = "Allow" => kernel.sealed /\ kernel.decision = "Allow"
        /\ final.decision = "Ask" => kernel.sealed
        /\ final.decision # "Allow" => final.rule # None
    BY <2>6, <2>7, <2>8 DEF tightened, IsKernelOutcome, Decision
  <2> HIDE DEF final
  <2>10. carried(req) \in BudgetUsage
    BY RequestTyped
  <2> QED
    BY <1>1, <2>3, <2>4, <2>5, <2>6, <2>9, <2>10, ResponseTyped
<1> QED
  BY <1>2, <1>3

\* What the gate lets pass is a call that discovery shows to its source (gate.rs: gate;
\* project.rs: project).
LEMMA GateShows ==
  ASSUME NEW w, NEW req, NEW granted, NEW c, req.source_channel = {c},
         gate(w, req, granted).decision = "Allow"
  PROVE  gate(w, req, granted).action \in project(w, w.ontology, c)
<1> DEFINE action == classify_call(w, req.tool, req.arguments, req.path)
           trust == PolicyOf(w, req).trust
           tc == Known(w, req)
           ctx == [taint |-> tc, mode |-> parse_mode(req.mode), usage |-> carried(req),
                   approval_granted |-> granted]
           kernel == decide(w, action, req.arguments, trust, ctx)
           scope == path_scope(w, action, req.path, parse_mode(req.mode))
           final == tightened(kernel, scope)
<1>1. malformed(w, req) = None
  BY GateAllows
<1>2. PolicyOf(w, req) \in channel_policy(w, c)
  <2>1. channel_policy(w, c) # {}
    BY <1>1 DEF malformed, None
  <2> QED
    BY <2>1 DEF PolicyOf
<1>3. gate(w, req, granted) = governed(w, req, granted, action, PolicyOf(w, req))
  BY <1>1 DEF gate, PolicyOf
<1>4. governed(w, req, granted, action, PolicyOf(w, req))
        = decided(w, req, granted, action, trust, Inbound(w, req), tc)
  BY DEF governed, Inbound, Known
<1>5. gate(w, req, granted) = response(w, req, action, Inbound(w, req), tc, kernel, final)
  <2> HIDE DEF action, tc, trust
  <2> QED
    BY <1>3, <1>4 DEF decided, scoped_response
<1> HIDE DEF action, tc, scope, kernel, final, ctx, trust
<1>6. final.decision = "Allow" /\ gate(w, req, granted).action = action
  BY <1>5 DEF response
<1>7. kernel.decision = "Allow"
  BY <1>6 DEF final, tightened
<1>8. build_error(w, action, req.arguments, trust, ctx.taint) = None
  BY <1>7, UnrepresentableIsRefused DEF kernel
<1>9. /\ action \in w.ontology /\ action \in w.projected
      /\ can_perform(w, trust, w.action_types[action])
  BY <1>8 DEF build_error, None
<1> QED
  BY <1>2, <1>6, <1>9 DEF project, trust

-----------------------------------------------------------------------------
(* What a host sends and is handed.                                        *)

\* A path leads to one file at most.
LEMMA PinnedTyped ==
  ASSUME NEW path \in Seq(STRING)
  PROVE  /\ AtMostOne(canonicalize_action_path(path))
         /\ canonicalize_action_path(path) \subseteq Seq(STRING)
<1> DEFINE m == Len(path)
           to == Followed(path)
           pinned == Pinned(path)
           S == {D \in SUBSET Seq(STRING) : AtMostOne(D)}
<1>1. m \in Nat /\ \A n \in 1 .. m : path[n] \in STRING /\ n - 1 \in 0 .. m /\ n \in 0 .. m
  OBVIOUS
<1>2. /\ to[0] = {<<"">>} /\ \A n \in 0 .. m : to[n] \subseteq Files
      /\ \A n \in 1 .. m : to[n] = UNION {Follow(d, path[n]) : d \in to[n - 1]}
  BY <1>1, FollowedIs
<1>3. /\ pinned[0] = {<<"">>}
      /\ \A n \in 1 .. m :
           pinned[n] = IF to[n] # {} THEN to[n]
                       ELSE IF path[n] \in {"", "."} THEN pinned[n - 1]
                       ELSE IF path[n] = ".." THEN {}
                       ELSE {Append(d, path[n]) : d \in pinned[n - 1]}
  BY PinnedIs
<1> HIDE DEF to, pinned, m
<1>4. {<<"">>} \in S
  BY FilesStand DEF AtMostOne
<1>5. \A n \in 0 .. m : to[n] \in S
  <2>1. ASSUME NEW n \in 1 .. m, to[n - 1] \in S PROVE to[n] \in S
    <3>1. \A d : AtMostOne(Follow(d, path[n]))
      BY DEF Follow, AtMostOne
    <3>2. to[n] \subseteq Seq(STRING)
      BY <1>1, <1>2, FilesStand
    <3>3. to[n] = UNION {Follow(d, path[n]) : d \in to[n - 1]}
      BY <1>2
    <3>4. AtMostOne(to[n])
      <4>1. CASE to[n - 1] = {}
        <5>1. to[n] = {}
          BY <3>3, <4>1
        <5> QED
          BY <5>1 DEF AtMostOne
      <4>2. ASSUME NEW d, to[n - 1] = {d} PROVE AtMostOne(to[n])
        <5>1. to[n] = Follow(d, path[n])
          BY <3>3, <4>2
        <5> QED
          BY <3>1, <5>1
      <4> QED
        BY <2>1, <4>1, <4>2 DEF AtMostOne
    <3> QED
      BY <3>2, <3>4
  <2>2. to[0] \in S
    BY <1>2, <1>4
  <2> HIDE DEF S
  <2> QED
    BY <1>1, <2>1, <2>2, Along
<1>6. \A n \in 0 .. m : pinned[n] \in S
  <2>1. ASSUME NEW n \in 1 .. m, pinned[n - 1] \in S PROVE pinned[n] \in S
    <3>1. to[n] \in S /\ {} \in S
      BY <1>1, <1>5 DEF AtMostOne
    <3>2. {Append(d, path[n]) : d \in pinned[n - 1]} \in S
      <4>1. CASE pinned[n - 1] = {}
        <5>1. {Append(d, path[n]) : d \in pinned[n - 1]} = {}
          BY <4>1
        <5> QED
          BY <3>1, <5>1
      <4>2. ASSUME NEW d, pinned[n - 1] = {d}
            PROVE  {Append(e, path[n]) : e \in pinned[n - 1]} \in S
        <5>1. {Append(e, path[n]) : e \in pinned[n - 1]} = {Append(d, path[n])}
          BY <4>2
        <5>2. d \in Seq(STRING) /\ path[n] \in STRING
          BY <1>1, <2>1, <4>2
        <5>3. Append(d, path[n]) \in Seq(STRING)
          BY <5>2
        <5> QED
          BY <5>1, <5>3 DEF AtMostOne
      <4> QED
        BY <2>1, <4>1, <4>2 DEF AtMostOne
    <3> HIDE DEF S
    <3> QED
      BY <1>3, <2>1, <3>1, <3>2
  <2>2. pinned[0] \in S
    BY <1>3, <1>4
  <2> HIDE DEF S
  <2> QED
    BY <1>1, <2>1, <2>2, Along
<1>7. Pinned(path)[Len(path)] \in S
  <2>1. m \in 0 .. m
    BY <1>1
  <2> QED
    BY <1>6, <2>1 DEF pinned, m
<1> QED
  BY <1>7 DEF canonicalize_action_path, AtMostOne

LEMMA WholeContext ==
  ASSUME NEW r, r.mode \in {{"interactive"}, {"background"}}, r.taint \in {{}, {"clean"}, {"tainted"}},
         r.source_channel \in {{"user_prompt"}, {"mcp_output"}}, Option(r.usage, BudgetUsage),
         AtMostOne(r.flow), \A f \in r.flow : IsGateFlowContext(f)
  PROVE  IsGateContext(r)
BY DEF IsGateContext, WireName, Option, AtMostOne, parse_taint, from_name

\* A call of the session, as a model proposes it.
LEMMA CallsTyped ==
  ASSUME WorldKnown
  PROVE  /\ \A call \in Requests[manifest] : IsCall(call)
         /\ host \in Hosts \cap HookHosts => \A call \in HookCalls[host][manifest] :
              IsCall(call) /\ is(call.arguments, "obj")
<1>1. manifest \in Validated
  BY DEF WorldKnown, Validated
<1> QED
  BY <1>1, RequestsAssumption, HooksAssumption

\* The counters of a host that counts no tokens.
Counters == [commands_run : Nat, network_calls : Nat, file_writes : Nat, tokens_used : {0}]

LEMMA NothingCounted == NoUsage \in Counters
BY DEF NoUsage, Counters

LEMMA CountersAreUsages ==
  ASSUME NEW u \in Counters
  PROVE  u \in BudgetUsage
BY DEF Counters, BudgetUsage

\* The gate hands back counters of the same kind.
LEMMA CountersStay ==
  ASSUME NEW w, NEW req, NEW granted, carried(req) \in Counters
  PROVE  gate(w, req, granted).usage \in Counters
<1> DEFINE action == classify_call(w, req.tool, req.arguments, req.path)
           at == w.action_types[action]
           se == w.side_effects[action]
<1>1. gate(w, req, granted).usage \in {carried(req), charge(carried(req), at, se)}
  BY GateCharges
<1>2. charge(carried(req), at, se) \in Counters
  <2> DEFINE T == {0}
  <2>1. Counters = [commands_run : Nat, network_calls : Nat, file_writes : Nat, tokens_used : T]
    BY DEF Counters
  <2> HIDE DEF at, se, T
  <2> QED
    BY <2>1, ChargeTyped
<1> QED
  BY <1>1, <1>2

-----------------------------------------------------------------------------
(* What the gateway keeps.                                                 *)

\* Its charges are counters, and what was sent is shown to the source it acts for.
GatewayTyped ==
  /\ source \in {"user_prompt", "mcp_output"} /\ mode \in {"interactive", "background"}
  /\ session_taint \in BOOLEAN /\ upstream \in {"open", "closed"}
  /\ session_usage \in Counters /\ forwarded \in 0 .. MaxForwards
  /\ offered \subseteq world.projected
  /\ AtMostOne(sent) /\ (host # "gateway" => sent = {})
  /\ \A r \in sent : r.action \in project(world, world.ontology, source)

LEMMA GatewayRequestTyped ==
  ASSUME GatewayTyped, NEW call, IsCall(call)
  PROVE  IsGateRequest(GatewayRequest(call)) /\ carried(GatewayRequest(call)) = session_usage
<1> DEFINE req == GatewayRequest(call)
<1>1. req = [tool |-> call.tool, arguments |-> call.arguments, path |-> {}, mode |-> {mode},
             taint |-> {IF session_taint THEN "tainted" ELSE "clean"},
             source_channel |-> {source}, usage |-> {session_usage}, flow |-> {}]
  BY DEF GatewayRequest
<1> HIDE DEF req
<1>2. session_usage \in BudgetUsage
  BY CountersAreUsages DEF GatewayTyped
<1>3. IsGateContext(req)
  <2>1. /\ req.mode \in {{"interactive"}, {"background"}} /\ req.taint \in {{}, {"clean"}, {"tainted"}}
        /\ req.source_channel \in {{"user_prompt"}, {"mcp_output"}} /\ req.flow = {}
        /\ req.usage = {session_usage}
    BY <1>1 DEF GatewayTyped
  <2>2. Option(req.usage, BudgetUsage) /\ AtMostOne(req.flow) /\ \A f \in req.flow : IsGateFlowContext(f)
    BY <1>2, <2>1 DEF Option, AtMostOne
  <2> QED
    BY <2>1, <2>2, WholeContext
<1>4. carried(req) = session_usage
  BY <1>1 DEF carried
<1> QED
  BY <1>1, <1>3, <1>4 DEF IsCall, IsGateRequest, AtMostOne, req

LEMMA GatewayTypedFirst == WorldKnown /\ GatewayInit => GatewayTyped
<1> SUFFICES ASSUME WorldKnown, GatewayInit
             PROVE  GatewayTyped
  OBVIOUS
<1>1. /\ source \in {"user_prompt", "mcp_output"} /\ mode \in {"interactive", "background"}
      /\ session_taint \in BOOLEAN
  BY DEF GatewayInit, Setting
<1> QED
  BY <1>1, NothingCounted, GatewayBound DEF GatewayInit, GatewayTyped, AtMostOne

LEMMA GatewayTypedStays ==
  ASSUME WorldKnown, GatewayTyped, GatewayNext, UNCHANGED world_vars
  PROVE  GatewayTyped'
<1>1. world' = world /\ manifest' = manifest /\ host' = host /\ host = "gateway"
  BY DEF world_vars, GatewayNext
<1>2. CASE ToolsList
  <2>1. surface_tools(world, Upstream) \subseteq world.projected
    BY DEF surface_tools
  <2> QED
    BY <1>1, <1>2, <2>1 DEF ToolsList, GatewayTyped, AtMostOne
<1>3. ASSUME NEW call \in Requests[manifest], CallGoverned(call, govern(call, FALSE))
      PROVE  GatewayTyped'
  <2>1. PICK claimed \in BOOLEAN :
          CallDecided(call, claimed, IF claimed THEN govern(call, TRUE) ELSE govern(call, FALSE))
    BY <1>3 DEF CallGoverned, claims
  <2> DEFINE verdict == govern(call, claimed)
  <2>2. CallDecided(call, claimed, verdict)
    BY <2>1
  <2>3. verdict.usage \in Counters
    <3>1. IsCall(call)
      BY <1>3, CallsTyped
    <3>2. carried(GatewayRequest(call)) \in Counters
      BY <3>1, GatewayRequestTyped DEF GatewayTyped
    <3> QED
      BY <3>2, CountersStay DEF govern
  <2>4. verdict.decision = "Allow" => verdict.action \in project(world, world.ontology, source)
    <3>1. GatewayRequest(call).source_channel = {source}
      BY DEF GatewayRequest
    <3> QED
      BY <3>1, GateShows DEF govern
  <2> HIDE DEF verdict
  <2>5. CASE CallBlocked(verdict)
    BY <1>1, <2>3, <2>5 DEF CallBlocked, GatewayTyped
  <2>6. CASE CallNotForwardable(call, verdict)
    BY <1>1, <2>6 DEF CallNotForwardable, GatewayTyped
  <2>7. CASE CallForwarded(call, claimed, verdict)
    <3>1. /\ source' = source /\ mode' = mode /\ upstream' = upstream /\ offered' = offered
          /\ session_usage' = verdict.usage /\ session_taint' \in BOOLEAN
          /\ forwarded < MaxForwards /\ forwarded' = forwarded + 1 /\ verdict.decision = "Allow"
          /\ \E input : sent' = {Running(verdict.action, call.arguments, input, claimed)}
      BY <2>7 DEF CallForwarded
    <3>2. AtMostOne(sent') /\ \A r \in sent' : r.action = verdict.action
      BY <3>1 DEF AtMostOne, Running
    <3>3. forwarded' \in 0 .. MaxForwards
      BY <3>1, GatewayBound DEF GatewayTyped
    <3> QED
      BY <1>1, <2>3, <2>4, <3>1, <3>2, <3>3 DEF GatewayTyped
  <2> QED
    BY <2>2, <2>5, <2>6, <2>7 DEF CallDecided
<1>4. CASE CallAnswered
  BY <1>1, <1>4 DEF CallAnswered, GatewayTyped, AtMostOne
<1>5. CASE CallDemandsInput
  BY <1>1, <1>5 DEF CallDemandsInput, GatewayTyped, AtMostOne
<1>6. CASE CallBroken
  BY <1>1, <1>6 DEF CallBroken, GatewayTyped, AtMostOne
<1>7. CASE UpstreamCloses
  BY <1>1, <1>7 DEF UpstreamCloses, GatewayTyped, AtMostOne
<1> QED
  BY <1>2, <1>3, <1>4, <1>5, <1>6, <1>7 DEF GatewayNext

-----------------------------------------------------------------------------
(* What the host of the gate ABI keeps.                                    *)

\* It keeps what it is handed; a call that waits for a person was answered "Ask".
WireTyped ==
  /\ wire_mode \in {"interactive", "background"} /\ wire_taint \in {"clean", "tainted"}
  /\ wire_usage \in Counters /\ runs \in 0 .. MaxRuns
  /\ ambient \in FlowLabel /\ DOMAIN labels \subseteq Results
  /\ \A v \in DOMAIN labels : labels[v] \in FlowLabel
  /\ \A a \in asked : IsCall(a.call) /\ IsGateResponse(a.answer) /\ a.answer.decision = "Ask"
  /\ AtMostOne(running) /\ (host # "wire" => running = {})
  /\ running # {} => runs < MaxRuns
  /\ \A r \in running : /\ r.floor \subseteq FlowLabel
                        /\ r.allowed => r.action \in project(world, world.ontology, "user_prompt")

LEMMA WireRequestTyped ==
  ASSUME WireTyped, NEW call, IsCall(call)
  PROVE  IsGateRequest(WireRequest(call)) /\ carried(WireRequest(call)) \in Counters
<1> DEFINE req == WireRequest(call)
           args == members(call.arguments)
           labelled == {a \in DOMAIN args : is(args[a], "str") /\ args[a] \in DOMAIN labels}
           told_of == [a \in labelled |-> labels[args[a]]]
           flow == [ambient |-> {ambient}, args |-> told_of]
<1>1. req = [tool |-> call.tool, arguments |-> call.arguments,
             path |-> IF "path" \in forgets THEN {} ELSE call.path,
             mode |-> {wire_mode}, taint |-> Sends("taint", wire_taint),
             source_channel |-> {"user_prompt"}, usage |-> Sends("usage", wire_usage),
             flow |-> Sends("flow", flow)]
  BY DEF WireRequest
<1>2. IsMap(told_of, IsGateLabel)
  <2>1. DOMAIN args \subseteq Name
    BY DEF IsCall, IsArguments
  <2>2. \A a \in labelled : told_of[a] \in FlowLabel
    BY DEF WireTyped
  <2> QED
    BY <2>1, <2>2 DEF IsMap, IsGateLabel
<1>3. IsGateFlowContext(flow)
  <2> HIDE DEF told_of
  <2>1. ambient \in FlowLabel
    BY DEF WireTyped
  <2> QED
    BY <1>2, <2>1 DEF IsGateFlowContext, IsGateLabel, AtMostOne
<1> HIDE DEF req, flow
<1>4. IsGateContext(req)
  <2>1. /\ req.mode \in {{"interactive"}, {"background"}} /\ req.taint \in {{}, {"clean"}, {"tainted"}}
        /\ req.source_channel \in {{"user_prompt"}, {"mcp_output"}} /\ req.flow \in {{}, {flow}}
        /\ req.usage \in {{}, {wire_usage}}
    BY <1>1 DEF WireTyped, Sends
  <2>2. wire_usage \in BudgetUsage
    BY CountersAreUsages DEF WireTyped
  <2>3. Option(req.usage, BudgetUsage) /\ AtMostOne(req.flow) /\ \A f \in req.flow : IsGateFlowContext(f)
    BY <1>3, <2>1, <2>2 DEF Option, AtMostOne
  <2> QED
    BY <2>1, <2>3, WholeContext
<1>5. carried(req) \in Counters
  <2>1. req.usage \in {{}, {wire_usage}}
    BY <1>1 DEF Sends
  <2>2. wire_usage \in Counters /\ NoUsage \in Counters
    BY NothingCounted DEF WireTyped
  <2> QED
    BY <2>1, <2>2 DEF carried
<1>6. IsGateRequest(req)
  <2>1. /\ DOMAIN req = {"tool", "arguments", "path", "mode", "taint", "source_channel", "usage", "flow"}
        /\ req.tool = call.tool /\ req.arguments = call.arguments /\ req.path \in {{}, call.path}
    BY <1>1
  <2> QED
    BY <1>4, <2>1 DEF IsCall, IsGateRequest, AtMostOne
<1> QED
  BY <1>5, <1>6 DEF req

LEMMA WireTypedFirst == WorldKnown /\ WireInit => WireTyped
<1> SUFFICES ASSUME WorldKnown, WireInit
             PROVE  WireTyped
  OBVIOUS
<1>1. wire_mode \in {"interactive", "background"}
  BY DEF WireInit, Setting
<1>2. {} \in FlowLabel
  BY DEF FlowLabel
<1> QED
  BY <1>1, <1>2, NothingCounted, WireBound DEF WireInit, WireTyped, AtMostOne, Empty

\* A call that is started has labels for its result.
LEMMA StartedTyped ==
  ASSUME NEW call, NEW res, IsGateResponse(res), NEW consent
  PROVE  LET started == Started(call, res, consent)
         IN  /\ AtMostOne(started)
             /\ \A r \in started : /\ r.floor \subseteq FlowLabel /\ r.action = res.action
                                   /\ r.allowed = (res.decision = "Allow")
<1> DEFINE floor == UNION {f.result : f \in res.flow}
           allowed == res.decision = "Allow"
           as(e) == [action |-> res.action, asked |-> members(call.arguments),
                     args |-> members(e.arguments), consent |-> consent, path |-> call.path,
                     floor |-> floor, allowed |-> allowed]
           handed == {x \in res.effective : DOMAIN x.context_refs = {}}
<1>1. Started(call, res, consent) = {as(e) : e \in handed}
  BY DEF Started
<1>2. floor \subseteq FlowLabel
  BY DEF IsGateResponse, IsGateResponseContext, IsGateFlowResponse, Option
<1>3. AtMostOne(handed)
  BY DEF IsGateResponse, AtMostOne
<1>4. \A e : as(e).floor = floor /\ as(e).action = res.action /\ as(e).allowed = allowed
  OBVIOUS
<1> HIDE DEF floor, as, handed
<1>5. AtMostOne(Started(call, res, consent))
  <2>1. CASE handed = {}
    <3>1. Started(call, res, consent) = {}
      BY <1>1, <2>1
    <3> QED
      BY <3>1 DEF AtMostOne
  <2>2. ASSUME NEW e, handed = {e} PROVE AtMostOne(Started(call, res, consent))
    <3>1. Started(call, res, consent) = {as(e)}
      BY <1>1, <2>2
    <3> QED
      BY <3>1 DEF AtMostOne
  <2> QED
    BY <1>3, <2>1, <2>2 DEF AtMostOne
<1> QED
  BY <1>1, <1>2, <1>4, <1>5

LEMMA WireTypedGoverns ==
  ASSUME WorldKnown, WireTyped, UNCHANGED world_vars, host = "wire",
         NEW call, IsCall(call), NEW authorized \in BOOLEAN, Govern(call, authorized)
  PROVE  WireTyped'
<1> DEFINE req == WireRequest(call)
           res == gate(world, req, authorized)
<1>1. /\ world' = world /\ host' = host /\ runs' = runs /\ runs < MaxRuns
      /\ wire_mode' = wire_mode /\ labels' = labels
      /\ wire_taint' = IF res.taint = "Tainted" THEN "tainted" ELSE "clean"
      /\ wire_usage' = res.usage /\ ambient' = ambient \cup UNION {f.ambient : f \in res.flow}
      /\ asked' = Asked(call, res)
      /\ running' = IF res.decision = "Allow" THEN Started(call, res, authorized) ELSE {}
  BY DEF Govern, Carry, persist, world_vars
<1>2. IsGateRequest(req) /\ carried(req) \in Counters /\ req.source_channel = {"user_prompt"}
  BY WireRequestTyped DEF WireRequest
<1>3. IsCompiledWorld(world)
  BY WorldCompiled
<1> HIDE DEF req
<1>4. IsGateResponse(res)
  BY <1>2, <1>3, GateTyped
<1>5. res.usage \in Counters
  BY <1>2, CountersStay
<1>6. res.decision = "Allow" => res.action \in project(world, world.ontology, "user_prompt")
  BY <1>2, GateShows
<1> HIDE DEF res
<1>7. ambient' \in FlowLabel
  <2>1. UNION {f.ambient : f \in res.flow} \in FlowLabel
    BY <1>4 DEF IsGateResponse, IsGateResponseContext, IsGateFlowResponse, FlowLabel
  <2> QED
    BY <1>1, <2>1 DEF WireTyped, FlowLabel
<1>8. \A a \in asked' : IsCall(a.call) /\ IsGateResponse(a.answer) /\ a.answer.decision = "Ask"
  BY <1>1, <1>4 DEF Asked
<1>9. AtMostOne(running')
      /\ \A r \in running' : /\ r.floor \subseteq FlowLabel
                             /\ r.action \in project(world, world.ontology, "user_prompt")
  BY <1>1, <1>4, <1>6, StartedTyped DEF AtMostOne
<1> QED
  BY <1>1, <1>5, <1>7, <1>8, <1>9 DEF WireTyped

LEMMA WireTypedStays ==
  ASSUME WorldKnown, WireTyped, WireNext, UNCHANGED world_vars
  PROVE  WireTyped'
<1>1. world' = world /\ manifest' = manifest /\ host' = host /\ host = "wire"
  BY DEF world_vars, WireNext
<1>2. CASE Call
  BY <1>1, <1>2, CallsTyped, WireTypedGoverns DEF Call
<1>3. CASE CallAuthorized
  <2>1. PICK a \in asked : Govern(a.call, TRUE)
    BY <1>3 DEF CallAuthorized
  <2>2. IsCall(a.call)
    BY DEF WireTyped
  <2> QED
    BY <1>1, <2>1, <2>2, WireTypedGoverns
<1>4. CASE PersonApproves
  <2>1. PICK a \in asked :
          /\ runs < MaxRuns /\ running' = Started(a.call, a.answer, TRUE) /\ asked' = {}
          /\ UNCHANGED <<wire_mode, wire_taint, wire_usage, ambient, labels, runs>>
    BY <1>4 DEF PersonApproves
  <2>2. IsGateResponse(a.answer) /\ a.answer.decision = "Ask"
    BY DEF WireTyped
  <2>3. AtMostOne(running') /\ \A r \in running' : r.floor \subseteq FlowLabel /\ ~r.allowed
    BY <2>1, <2>2, StartedTyped
  <2> QED
    BY <1>1, <2>1, <2>3 DEF WireTyped
<1>5. CASE CallReturns
  <2>1. PICK r \in running, v \in Results :
          /\ labels' = IF r.floor = {} THEN labels ELSE bind(labels, v, UNION r.floor)
          /\ runs' = runs + 1 /\ running' = {}
          /\ UNCHANGED <<wire_mode, wire_taint, wire_usage, ambient, asked>>
    BY <1>5 DEF CallReturns
  <2>2. UNION r.floor \in FlowLabel
    BY DEF WireTyped, FlowLabel
  <2>3. DOMAIN labels' \subseteq Results /\ \A u \in DOMAIN labels' : labels'[u] \in FlowLabel
    BY <2>1, <2>2 DEF WireTyped, bind, FlowLabel
  <2>4. runs' \in 0 .. MaxRuns
    BY <2>1, WireBound DEF WireTyped
  <2> QED
    BY <1>1, <2>1, <2>3, <2>4 DEF WireTyped, AtMostOne
<1>6. CASE CallFails
  <2>1. runs' \in 0 .. MaxRuns
    BY <1>6, WireBound DEF CallFails, WireTyped
  <2> QED
    BY <1>1, <1>6, <2>1 DEF CallFails, WireTyped, AtMostOne
<1> QED
  BY <1>2, <1>3, <1>4, <1>5, <1>6 DEF WireNext

-----------------------------------------------------------------------------
(* What the agent loop keeps, and what it hands to the executor.           *)

LEMMA Once ==
  ASSUME NEW S
  PROVE  AtMostOne(S) <=> \A x, y \in S : x = y
BY DEF AtMostOne

\* A call has one argv at most, and no empty one (spec.rs: argv_from).
LEMMA ArgvOnce ==
  ASSUME NEW params, NEW declared
  PROVE  /\ AtMostOne(argv_from(params, declared))
         /\ \A argv \in argv_from(params, declared) : argv # <<>>
<1> DEFINE sent_of == DOMAIN members(params)
           commands == str_param(params, declared, "command")
           lines == UNION {split(c) : c \in commands}
           given_args == IF "args" \in sent_of THEN list_param(params, declared, "args") ELSE {<<>>}
           listed == list_param(params, declared, "argv")
           cat(l, a) == l \o a
           typed == {cat(l, a) : l \in lines, a \in given_args}
<1>1. argv_from(params, declared)
        = IF "argv" \in sent_of THEN {argv \in listed : argv # <<>>}
          ELSE {argv \in typed : argv # <<>>}
  BY DEF argv_from
<1>2. \A x, y \in listed : x = y
  BY DEF list_param
<1>3. \A x, y \in given_args : x = y
  BY DEF list_param
<1>4. \A x, y \in lines : x = y
  <2>1. \A x, y \in commands : x = y
    BY DEF str_param
  <2>2. \A c : \A x, y \in split(c) : x = y
    BY DEF split
  <2> HIDE DEF commands
  <2> QED
    BY <2>1, <2>2
<1> HIDE DEF lines, given_args, listed, sent_of, cat
<1>5. \A x, y \in typed : x = y
  BY <1>3, <1>4
<1> HIDE DEF typed
<1>6. \A x, y \in argv_from(params, declared) : x = y /\ x # <<>>
  BY <1>1, <1>2, <1>5
<1> QED
  BY <1>6, Once

LEMMA OperationOnce ==
  ASSUME NEW h, NEW params, NEW declared
  PROVE  /\ AtMostOne(operation_for(h, params, declared))
         /\ \A o \in operation_for(h, params, declared) :
              o.op \in {"read", "patch", "argv", "fetch"} /\ (o.op = "argv" => o.argv # <<>>)
<1> DEFINE ops == operation_for(h, params, declared)
<1>1. \A key : \A x, y \in str_param(params, declared, key) : x = y
  BY DEF str_param
<1>2. CASE h = "read_workspace"
  <2>1. ops = {[op |-> "read", path |-> t] : t \in str_param(params, declared, "path")}
    BY <1>2 DEF operation_for
  <2> HIDE DEF ops
  <2>2. \A x, y \in ops : x = y
    BY <1>1, <2>1
  <2> QED
    BY <2>1, <2>2, Once DEF ops
<1>3. CASE h = "apply_patch"
  <2> DEFINE paths == str_param(params, declared, "path")
             texts == str_param(params, declared, "contents")
  <2>1. ops = {[op |-> "patch", path |-> t, contents |-> c] : t \in paths, c \in texts}
    BY <1>3 DEF operation_for
  <2>2. (\A x, y \in paths : x = y) /\ (\A x, y \in texts : x = y)
    BY <1>1
  <2> HIDE DEF ops, paths, texts
  <2>3. \A x, y \in ops : x = y
    BY <2>1, <2>2
  <2> QED
    BY <2>1, <2>3, Once DEF ops
<1>4. CASE h = "run_command"
  <2> DEFINE argvs == argv_from(params, declared)
  <2>1. ops = {[op |-> "argv", argv |-> a] : a \in argvs}
    BY <1>4 DEF operation_for
  <2>2. \A x, y \in argvs : x = y /\ x # <<>>
    BY ArgvOnce, Once
  <2> HIDE DEF ops, argvs
  <2>3. \A x, y \in ops : x = y
    BY <2>1, <2>2
  <2>4. \A o \in ops : o.op = "argv" /\ o.argv # <<>>
    BY <2>1, <2>2
  <2> QED
    BY <2>3, <2>4, Once DEF ops
<1>5. CASE h = "fetch_web"
  <2>1. ops = {[op |-> "fetch", url |-> t] : t \in str_param(params, declared, "url")}
    BY <1>5 DEF operation_for
  <2> HIDE DEF ops
  <2>2. \A x, y \in ops : x = y
    BY <1>1, <2>1
  <2> QED
    BY <2>1, <2>2, Once DEF ops
<1>6. CASE h \notin {"read_workspace", "apply_patch", "run_command", "fetch_web"}
  <2>1. ops = {}
    BY <1>6 DEF operation_for
  <2> QED
    BY <2>1, Once
<1> QED
  BY <1>2, <1>3, <1>4, <1>5, <1>6

\* A call is lowered to one spec at most (spec.rs: build_execution_spec).
LEMMA SpecOnce ==
  ASSUME NEW w, NEW action, NEW args, NEW how, NEW env
  PROVE  /\ AtMostOne(effective_params(w, action, args, env))
         /\ AtMostOne(build_execution_spec(w, action, args, how, env))
         /\ \A s \in build_execution_spec(w, action, args, how, env) :
              /\ \E o : /\ s = [action |-> action, operation |-> o, effect_mode |-> how,
                                timeout_ms |-> timeout_ms(w, action, env), network |-> env.network,
                                descriptor |-> w.descriptors[action]]
                        /\ o.op \in Operation_kinds /\ (o.op = "argv" => o.argv # <<>>)
<1> DEFINE params == effective_params(w, action, args, env)
           backing == w.descriptors[action].backing
           by(p) == IF backing.kind = "mcp"
                    THEN {[op |-> "mcp", server |-> backing.server, tool |-> backing.tool, input |-> p]}
                    ELSE operation_for(backing.handler, p, param_contract(w, action))
           operations == UNION {by(p) : p \in params}
           spec(o) == [action |-> action, operation |-> o, effect_mode |-> how,
                       timeout_ms |-> timeout_ms(w, action, env), network |-> env.network,
                       descriptor |-> w.descriptors[action]]
           specs == build_execution_spec(w, action, args, how, env)
<1>1. \A x, y \in params : x = y
  BY DEF effective_params
<1>2. ASSUME NEW p
      PROVE  /\ \A x, y \in by(p) : x = y
             /\ \A o \in by(p) : o.op \in Operation_kinds /\ (o.op = "argv" => o.argv # <<>>)
  <2>1. CASE backing.kind = "mcp"
    BY <2>1 DEF Operation_kinds
  <2>2. CASE backing.kind # "mcp"
    <3>1. by(p) = operation_for(backing.handler, p, param_contract(w, action))
      BY <2>2
    <3> HIDE DEF by
    <3> QED
      BY <3>1, OperationOnce, Once DEF Operation_kinds
  <2> QED
    BY <2>1, <2>2
<1>3. specs = {spec(o) : o \in operations}
  BY DEF build_execution_spec
<1> HIDE DEF params, by, specs
<1>4. /\ \A x, y \in operations : x = y
      /\ \A o \in operations : o.op \in Operation_kinds /\ (o.op = "argv" => o.argv # <<>>)
  BY <1>1, <1>2
<1> HIDE DEF operations
<1>5. \A x, y \in specs : x = y
  BY <1>3, <1>4
<1>6. \A s \in specs : \E o : s = spec(o) /\ o.op \in Operation_kinds /\ (o.op = "argv" => o.argv # <<>>)
  BY <1>3, <1>4
<1>7. AtMostOne(params) /\ AtMostOne(specs)
  BY <1>1, <1>5, Once
<1> QED
  BY <1>6, <1>7 DEF params, specs

\* One question is open at most, and one call runs at most, of an offered tool.
AgentTyped ==
  /\ agent_mode \in {"Interactive", "Background"} /\ effect_mode \in {"Execute", "Simulate"}
  /\ agent_taint \in {"Clean", "Tainted"} /\ agent_usage \in Counters
  /\ steps \in 0 .. MaxSteps
  /\ AtMostOne(question) /\ \A call \in question : IsCall(call)
  /\ \A t \in token :
       /\ DOMAIN t = {"state", "action", "arguments"}
       /\ t.state \in {"pending", "approved", "rejected", "consumed", "executed"}
  /\ AtMostOne(doing) /\ (host # "agent" => doing = {})
  /\ \A d \in doing : IsExecutionSpec(d.spec) /\ d.r.action \in tool_surface(world)

\* What the loop knows of a call is a context of the kernel (orchestrator.rs: run).
LEMMA EvalContextTyped ==
  ASSUME AgentTyped, NEW call, IsCall(call), NEW approved \in BOOLEAN
  PROVE  IsEvalContext(EvalContext(call, approved))
<1> DEFINE known == arg_taint(call.arguments, payloads, UserRequest)
           ctx == EvalContext(call, approved)
<1>1. DOMAIN known \subseteq Name /\ \A a \in DOMAIN known : known[a] \in Taint
  <2> DEFINE origins(a) == provenance_of(members(call.arguments)[a], payloads, UserRequest)
             labels_sent == {b \in DOMAIN members(call.arguments) : origins(b) # {}}
  <2>1. known = [a \in labels_sent |-> CHOOSE t \in origins(a) : TRUE]
    BY DEF arg_taint
  <2>2. \A a : origins(a) \subseteq Taint
    BY DEF provenance_of, Taint
  <2>3. labels_sent \subseteq Name /\ \A a \in labels_sent : origins(a) # {}
    BY DEF IsCall, IsArguments
  <2> HIDE DEF known, origins, labels_sent
  <2> QED
    BY <2>1, <2>2, <2>3
<1> HIDE DEF known
<1>2. ctx = [taint |-> [taint |-> agent_taint, arg_taint |-> known, flow |-> {}],
             mode |-> agent_mode, usage |-> agent_usage, approval_granted |-> approved]
  <2>1. with_arg_taint(from_taint(agent_taint), known)
          = [taint |-> agent_taint, arg_taint |-> known, flow |-> {}]
    BY DEF with_arg_taint, from_taint
  <2> QED
    BY <2>1 DEF EvalContext, known
<1> HIDE DEF ctx
<1>3. IsTaintContext(ctx.taint)
  BY <1>1, <1>2 DEF IsTaintContext, AgentTyped, Taint, AtMostOne
<1>4. ctx.usage \in BudgetUsage
  BY <1>2, CountersAreUsages DEF AgentTyped
<1>5. ctx.mode \in ExecutionMode
  BY <1>2 DEF AgentTyped, ExecutionMode
<1>6. DOMAIN ctx = {"taint", "mode", "usage", "approval_granted"} /\ ctx.approval_granted \in BOOLEAN
  BY <1>2
<1> QED
  BY <1>3, <1>4, <1>5, <1>6 DEF IsEvalContext, ctx

\* A call the loop allows is one the model is offered.
LEMMA LoopShows ==
  ASSUME WorldKnown, NEW call, NEW approved, Decided(call, approved).decision = "Allow"
  PROVE  Classified(call) \in tool_surface(world)
<1> DEFINE action == Classified(call)
           ctx == EvalContext(call, approved)
<1>1. build_error(world, action, call.arguments, "Trusted", ctx.taint) = None
  <2> HIDE DEF action, ctx
  <2>1. decide(world, action, call.arguments, "Trusted", ctx).decision = "Allow"
    BY DEF Decided, action, ctx
  <2> QED
    BY <2>1, UnrepresentableIsRefused
<1> HIDE DEF action, ctx
<1>2. action \in world.ontology /\ action \in world.projected
  BY <1>1 DEF build_error, None
<1>3. DOMAIN world.descriptors = world.ontology
  BY WorldCompiled DEF IsCompiledWorld
<1> QED
  BY <1>2, <1>3 DEF tool_surface, action

\* What it is lowered to is one call and a spec of the executor (spec.rs:
\* build_execution_spec).
LEMMA LoweredTyped ==
  ASSUME WorldKnown, AgentTyped, NEW call, IsCall(call), NEW approved, NEW consent,
         Decided(call, approved).decision = "Allow"
  PROVE  /\ AtMostOne(Lowered(call, consent))
         /\ \A d \in Lowered(call, consent) :
              IsExecutionSpec(d.spec) /\ d.r.action \in tool_surface(world)
<1> DEFINE action == Classified(call)
           params == effective_params(world, action, call.arguments, ExecEnv)
           specs == build_execution_spec(world, action, call.arguments, effect_mode, ExecEnv)
           runs_as(p) == Running(action, call.arguments, p, consent)
<1>1. AtMostOne(params) /\ AtMostOne(specs)
  BY SpecOnce
<1>2. \A s \in specs :
        \E o : /\ s = [action |-> action, operation |-> o, effect_mode |-> effect_mode,
                       timeout_ms |-> timeout_ms(world, action, ExecEnv),
                       network |-> ExecEnv.network, descriptor |-> world.descriptors[action]]
               /\ o.op \in Operation_kinds /\ (o.op = "argv" => o.argv # <<>>)
  BY SpecOnce
<1>3. action \in tool_surface(world)
  BY LoopShows
<1>4. action \in Name
  BY WorldCompiled, ActionNamed DEF Classified, IsCall
<1>5. IsDescriptor(world.descriptors[action])
  BY <1>3, WorldCompiled DEF IsCompiledWorld, tool_surface
<1>6. timeout_ms(world, action, ExecEnv) \in Nat /\ ExecEnv.network \subseteq Name
  <2>1. Option(world.budget.command_timeout_ms, Nat)
    BY WorldCompiled DEF IsCompiledWorld, IsBudget, Budget_limits
  <2>2. timeout_ms(world, action, ExecEnv) \in world.budget.command_timeout_ms \cup {30000}
    BY DEF timeout_ms, ExecEnv
  <2> QED
    BY <2>1, <2>2, PlacesAssumption DEF Option, ExecEnv
<1>7. effect_mode \in EffectMode
  BY DEF AgentTyped, EffectMode
<1>8. Lowered(call, consent) = {[r |-> runs_as(p), spec |-> s] : p \in params, s \in specs}
  BY DEF Lowered
<1>9. \A p : runs_as(p).action = action
  BY DEF Running
<1> HIDE DEF params, specs, runs_as, action
<1>10. \A s \in specs : IsExecutionSpec(s)
  BY <1>2, <1>4, <1>5, <1>6, <1>7 DEF IsExecutionSpec
<1>11. (\A x, y \in params : x = y) /\ (\A x, y \in specs : x = y)
  BY <1>1, Once
<1> DEFINE L == Lowered(call, consent)
<1>12. L = {[r |-> runs_as(p), spec |-> s] : p \in params, s \in specs}
  BY <1>8
<1> HIDE DEF L
<1>13. \A x, y \in L : x = y
  BY <1>11, <1>12
<1>14. AtMostOne(L)
  BY <1>13, Once
<1>15. \A d \in L : d.spec \in specs /\ \E p : d.r = runs_as(p)
  BY <1>12
<1> QED
  BY <1>3, <1>9, <1>10, <1>14, <1>15 DEF L

LEMMA AgentTypedFirst == WorldKnown /\ AgentInit => AgentTyped
<1> SUFFICES ASSUME WorldKnown, AgentInit
             PROVE  AgentTyped
  OBVIOUS
<1>1. agent_mode \in {"Interactive", "Background"} /\ effect_mode \in {"Execute", "Simulate"}
  BY DEF AgentInit, Setting
<1> QED
  BY <1>1, NothingCounted, AgentBound DEF AgentInit, AgentTyped, AtMostOne

LEMMA AgentTypedStays ==
  ASSUME WorldKnown, AgentTyped, AgentNext, UNCHANGED world_vars
  PROVE  AgentTyped'
<1>1. world' = world /\ manifest' = manifest /\ host' = host /\ host = "agent"
  BY DEF world_vars, AgentNext
<1>2. CASE UNCHANGED loop_vars
  BY <1>1, <1>2 DEF loop_vars, AgentTyped
<1> DEFINE states == {"pending", "approved", "rejected", "consumed", "executed"}
           kept == \A t \in token' : DOMAIN t = {"state", "action", "arguments"} /\ t.state \in states
<1>3. token' = token => kept
  BY DEF AgentTyped
<1>4. ASSUME NEW state \in states, Becomes(state) PROVE kept
  <2> DEFINE turned(t) == [t EXCEPT !.state = state]
  <2>1. token' = {turned(t) : t \in token}
    BY <1>4 DEF Becomes
  <2>2. ASSUME NEW t \in token
        PROVE  DOMAIN turned(t) = {"state", "action", "arguments"} /\ turned(t).state = state
    <3>1. DOMAIN t = {"state", "action", "arguments"}
      BY DEF AgentTyped
    <3> QED
      BY <3>1
  <2> HIDE DEF turned
  <2> QED
    BY <2>1, <2>2
<1> DEFINE set == agent_mode' = agent_mode /\ effect_mode' = effect_mode
           counted == agent_taint' \in {"Clean", "Tainted"} /\ agent_usage' \in Counters
           stepped == steps' \in 0 .. MaxSteps
           asks == AtMostOne(question') /\ \A call \in question' : IsCall(call)
           does == /\ AtMostOne(doing')
                   /\ \A d \in doing' : IsExecutionSpec(d.spec) /\ d.r.action \in tool_surface(world)
<1>5. set /\ counted /\ stepped /\ asks /\ kept /\ does => AgentTyped'
  BY <1>1 DEF AgentTyped
<1>6. /\ agent_taint' = agent_taint /\ agent_usage' = agent_usage => counted
      /\ steps' = steps => stepped
      /\ steps < MaxSteps /\ steps' = steps + 1 => stepped
      /\ question' \in {question, {}} => asks
      /\ doing' \in {doing, {}} => does
  BY AgentBound DEF AgentTyped, AtMostOne
<1> HIDE DEF kept, counted, stepped, asks, does
<1>7. CASE TurnMalformed
  BY <1>3, <1>5, <1>6, <1>7 DEF TurnMalformed, idle, settings, session
<1>8. ASSUME NEW call \in Requests[manifest], CallProposed(call, Decided(call, FALSE).decision)
      PROVE  AgentTyped'
  <2> DEFINE decision == Decided(call, FALSE).decision
  <2>1. IsCall(call)
    BY CallsTyped
  <2>2. CASE CallRefused(call, decision)
    BY <1>3, <1>5, <1>6, <2>2 DEF CallRefused, idle, settings, session
  <2>3. CASE CallAllowed(call, decision)
    <3>1. /\ set /\ agent_taint' = agent_taint /\ agent_usage' = agent_usage /\ token' = token
          /\ question' = question /\ steps < MaxSteps /\ steps' = steps + 1
          /\ decision = "Allow" /\ \E d \in Lowered(call, FALSE) : doing' = {d}
      BY <2>3 DEF CallAllowed, idle, settings, session
    <3>2. does
      <4>1. \A d \in Lowered(call, FALSE) :
              IsExecutionSpec(d.spec) /\ d.r.action \in tool_surface(world)
        BY <2>1, <3>1, LoweredTyped
      <4> QED
        BY <3>1, <4>1 DEF does, AtMostOne
    <3> QED
      BY <1>3, <1>5, <1>6, <3>1, <3>2
  <2>4. CASE CallAsks(call, decision)
    <3>1. /\ set /\ agent_taint' = agent_taint /\ agent_usage' = agent_usage
          /\ steps < MaxSteps /\ steps' = steps + 1 /\ doing' = doing
          /\ \/ /\ token' = {[state |-> "pending", action |-> Classified(call),
                             arguments |-> call.arguments]}
                /\ question' \in {{}, {call}}
             \/ token' = token /\ question' = question
      BY <2>4 DEF CallAsks, idle, settings, session
    <3>2. asks
      BY <1>6, <2>1, <3>1 DEF asks, AtMostOne
    <3>3. kept
      <4> DEFINE minted == [state |-> "pending", action |-> Classified(call),
                            arguments |-> call.arguments]
      <4>1. DOMAIN minted = {"state", "action", "arguments"} /\ minted.state = "pending"
        OBVIOUS
      <4>2. token' = {minted} \/ token' = token
        BY <3>1
      <4> HIDE DEF minted
      <4> QED
        BY <1>3, <4>1, <4>2 DEF kept
    <3> QED
      BY <1>5, <1>6, <3>1, <3>2, <3>3
  <2> QED
    BY <1>8, <2>2, <2>3, <2>4 DEF CallProposed
<1>9. CASE Declined
  <2>1. Becomes("rejected") \/ token' = token
    BY <1>9 DEF Declined
  <2>2. kept
    BY <1>3, <1>4, <2>1
  <2> QED
    BY <1>5, <1>6, <1>9, <2>2 DEF Declined, settings, session
<1>10. CASE ClaimFails
  <2>1. kept
    BY <1>4, <1>10 DEF ClaimFails
  <2> QED
    BY <1>5, <1>6, <1>10, <2>1 DEF ClaimFails, settings, session
<1>11. CASE Claimed
  <2>1. PICK call \in question :
          /\ Becomes("consumed") /\ question' = {} /\ set /\ steps' = steps
          /\ agent_taint' = agent_taint /\ agent_usage' = agent_usage
          /\ doing' = IF Decided(call, TRUE).decision = "Allow" THEN Lowered(call, TRUE) ELSE {}
    BY <1>11 DEF Claimed, settings, session
  <2>2. kept
    BY <1>4, <2>1
  <2>3. does
    <3>1. IsCall(call)
      BY DEF AgentTyped
    <3>2. CASE Decided(call, TRUE).decision = "Allow"
      <4>1. /\ AtMostOne(Lowered(call, TRUE))
            /\ \A d \in Lowered(call, TRUE) :
                 IsExecutionSpec(d.spec) /\ d.r.action \in tool_surface(world)
        BY <3>1, <3>2, LoweredTyped
      <4>2. doing' = Lowered(call, TRUE)
        BY <2>1, <3>2
      <4> QED
        BY <4>1, <4>2 DEF does
    <3>3. CASE Decided(call, TRUE).decision # "Allow"
      BY <1>6, <2>1, <3>3
    <3> QED
      BY <3>2, <3>3
  <2> QED
    BY <1>5, <1>6, <2>1, <2>2, <2>3
<1>12. CASE Returned
  <2>1. PICK d \in doing :
          /\ agent_taint' = join(agent_taint, "Tainted")
          /\ agent_usage' = charge(agent_usage, world.action_types[d.r.action],
                                   world.side_effects[d.r.action])
          /\ set /\ steps' = steps /\ doing' = {} /\ question' = question
          /\ token' = token \/ Becomes("executed")
    BY <1>12 DEF Returned, settings
  <2>2. kept
    BY <1>3, <1>4, <2>1
  <2>3. counted
    <3> DEFINE T == {0}
               at == world.action_types[d.r.action]
               se == world.side_effects[d.r.action]
    <3>1. Counters = [commands_run : Nat, network_calls : Nat, file_writes : Nat, tokens_used : T]
      BY DEF Counters
    <3>2. charge(agent_usage, at, se) \in Counters
      <4> HIDE DEF T, at, se
      <4> QED
        BY <3>1, ChargeTyped DEF AgentTyped
    <3>3. join(agent_taint, "Tainted") \in {"Clean", "Tainted"}
      BY DEF join
    <3> QED
      BY <2>1, <3>2, <3>3 DEF counted
  <2> QED
    BY <1>5, <1>6, <2>1, <2>2, <2>3
<1>13. CASE Errored
  BY <1>3, <1>5, <1>6, <1>13 DEF Errored, settings
<1> QED
  BY <1>2, <1>7, <1>8, <1>9, <1>10, <1>11, <1>12, <1>13 DEF AgentNext

-----------------------------------------------------------------------------
(* What the hooks keep in the files of a session.                          *)

\* An object of arguments is one.
LEMMA ObjectTyped ==
  ASSUME NEW args, DOMAIN args \subseteq Name, \A a \in DOMAIN args : IsValue(args[a])
  PROVE  IsArguments(Obj(args)) /\ members(Obj(args)) = args
<1> DEFINE v == Obj(args)
<1>1. DOMAIN v = {"obj"} /\ v.obj = args
  BY DEF Obj
<1> HIDE DEF v
<1>2. members(v) = args
  BY <1>1 DEF members, is
<1>3. DOMAIN v \cap Kinds = {"obj"} /\ "obj" \in Kinds /\ "str" \notin DOMAIN v
  BY <1>1 DEF Kinds
<1>4. IsValue(v)
  BY <1>3 DEF IsValue, is
<1>5. IsArguments(v)
  BY <1>2, <1>4 DEF IsArguments
<1> QED
  BY <1>2, <1>5 DEF v

\* The neutral names are names, of what the host sent (hostkit.rs: alias_neutral_args).
LEMMA AliasTyped ==
  ASSUME NEW args, DOMAIN args \subseteq Name, \A a \in DOMAIN args : IsValue(args[a])
  PROVE  LET neutral == alias_neutral_args(args)
         IN  DOMAIN neutral \subseteq Name /\ \A a \in DOMAIN neutral : IsValue(neutral[a])
<1> DEFINE neutral == alias_neutral_args(args)
           host_name(i) == ALIASES[i][1]
           neutral_name(i) == ALIASES[i][2]
           here == {i \in DOMAIN ALIASES : host_name(i) \in DOMAIN args}
           kept == DOMAIN args \ {host_name(i) : i \in here}
           is_first(k, i) == /\ neutral_name(i) = k
                             /\ \A j \in here : neutral_name(j) = k => i <= j
           first(k) == CHOOSE i \in here : is_first(k, i)
<1>1. neutral = [k \in kept \cup {neutral_name(i) : i \in here} |->
                   IF k \in kept THEN args[k] ELSE args[host_name(first(k))]]
  BY DEF alias_neutral_args
<1>2. \A i \in DOMAIN ALIASES : neutral_name(i) \in Name
  BY HooksAssumption
<1>3. here \subseteq {1, 2, 3, 4, 5} /\ here \subseteq DOMAIN ALIASES
  BY DEF ALIASES
<1>4. \A i \in here : host_name(i) \in DOMAIN args
  OBVIOUS
<1> HIDE DEF neutral, host_name, neutral_name, here
<1>5. ASSUME NEW i \in here
      PROVE  first(neutral_name(i)) \in here
  <2> DEFINE k == neutral_name(i)
             same == {j \in here : neutral_name(j) = k}
  <2>1. same \subseteq {1, 2, 3, 4, 5} /\ i \in same
    BY <1>3
  <2> HIDE DEF same
  <2>2. PICK m \in same : \A j \in same : m <= j
    <3>1. CASE 1 \in same
      BY <2>1, <3>1
    <3>2. CASE 1 \notin same /\ 2 \in same
      BY <2>1, <3>2
    <3>3. CASE 1 \notin same /\ 2 \notin same /\ 3 \in same
      BY <2>1, <3>3
    <3>4. CASE 1 \notin same /\ 2 \notin same /\ 3 \notin same /\ 4 \in same
      BY <2>1, <3>4
    <3>5. CASE 1 \notin same /\ 2 \notin same /\ 3 \notin same /\ 4 \notin same
      BY <2>1, <3>5
    <3> QED
      BY <3>1, <3>2, <3>3, <3>4, <3>5
  <2>3. m \in here /\ is_first(k, m)
    BY <2>2 DEF same
  <2> HIDE DEF is_first
  <2> QED
    BY <2>3
<1> HIDE DEF first, kept
<1>6. kept \subseteq DOMAIN args
  BY DEF kept
<1>7. DOMAIN neutral \subseteq Name
  BY <1>1, <1>2, <1>3, <1>6
<1>8. ASSUME NEW k \in DOMAIN neutral
      PROVE  IsValue(neutral[k])
  <2>1. CASE k \in kept
    BY <1>1, <1>6, <2>1
  <2>2. CASE k \notin kept
    <3>1. PICK i \in here : k = neutral_name(i)
      BY <1>1, <2>2
    <3>2. neutral[k] = args[host_name(first(k))]
      BY <1>1, <2>2
    <3>3. host_name(first(k)) \in DOMAIN args
      BY <1>4, <1>5, <3>1
    <3> QED
      BY <3>2, <3>3
  <2> QED
    BY <2>1, <2>2
<1> QED
  BY <1>7, <1>8 DEF neutral

\* A call names one path at most (hostkit.rs: resolve_action_path).
LEMMA NamedTyped ==
  ASSUME NEW args, \A a \in DOMAIN args : IsValue(args[a])
  PROVE  AtMostOne(named_path(args)) /\ named_path(args) \subseteq Seq(STRING)
<1> DEFINE held == {i \in DOMAIN PATH_KEYS : /\ PATH_KEYS[i] \in DOMAIN args
                                             /\ is(args[PATH_KEYS[i]], "str")}
           first == CHOOSE i \in held : \A j \in held : i <= j
           raw == args[PATH_KEYS[first]].str
           below(h) == h \o Tail(raw)
           under(b) == b \o raw
           path == named_path(args)
<1>1. path = IF held = {} THEN {}
             ELSE IF raw = <<"~">> THEN Home
             ELSE IF raw # <<>> /\ Head(raw) = "~" THEN {below(h) : h \in Home}
             ELSE IF raw # <<>> /\ Head(raw) = "" THEN {raw}
             ELSE {under(b) : b \in Base}
  BY DEF named_path
<1>2. held # {} => raw \in Seq(STRING)
  <2> SUFFICES ASSUME held # {}
               PROVE  raw \in Seq(STRING)
    OBVIOUS
  <2>1. held \subseteq 1 .. 3
    BY DEF PATH_KEYS
  <2>2. first \in held
    <3> HIDE DEF held
    <3> QED
      BY <2>1, FirstMatch
  <2>3. PATH_KEYS[first] \in DOMAIN args /\ is(args[PATH_KEYS[first]], "str")
    BY <2>2
  <2> HIDE DEF first
  <2> QED
    BY <2>3 DEF IsValue, IsText
<1> HIDE DEF held, raw, path
<1>3. /\ AtMostOne(Home) /\ Home \subseteq Seq(STRING)
      /\ AtMostOne(Base) /\ Base \subseteq Seq(STRING)
  BY PlacesAssumption DEF Option
<1>4. held # {} => /\ \A b \in Base : under(b) \in Seq(STRING)
                   /\ raw # <<>> => \A h \in Home : below(h) \in Seq(STRING)
  BY <1>2, <1>3
<1> HIDE DEF below, under
<1>5. path \subseteq Seq(STRING)
  BY <1>1, <1>2, <1>3, <1>4
<1>6. (\A x, y \in Home : x = y) /\ (\A x, y \in Base : x = y)
  BY <1>3, Once
<1>7. \A x, y \in path : x = y
  BY <1>1, <1>6
<1> QED
  BY <1>5, <1>7, Once DEF path

LEMMA ResolvedTyped ==
  ASSUME NEW args, \A a \in DOMAIN args : IsValue(args[a])
  PROVE  AtMostOne(resolve_action_path(args)) /\ \A p \in resolve_action_path(args) : IsText(p)
<1> DEFINE named_at == named_path(args)
           path == resolve_action_path(args)
<1>1. (\A x, y \in named_at : x = y) /\ named_at \subseteq Seq(STRING)
  BY NamedTyped, Once
<1>2. \A p \in named_at : /\ \A x, y \in canonicalize_action_path(p) : x = y
                          /\ canonicalize_action_path(p) \subseteq Seq(STRING)
  BY <1>1, PinnedTyped, Once
<1>3. path = UNION {canonicalize_action_path(p) : p \in named_at}
  BY DEF resolve_action_path
<1> HIDE DEF path, named_at
<1>4. (\A x, y \in path : x = y) /\ path \subseteq Seq(STRING)
  BY <1>1, <1>2, <1>3
<1>5. AtMostOne(path)
  BY <1>4, Once
<1> QED
  BY <1>4, <1>5 DEF IsText, path

\* The sidecar holds counters or nothing that parses.
HookTyped ==
  /\ hook_mode \in {"interactive", "background"} /\ hook_source \in {"user_prompt", "mcp_output"}
  /\ tainted \in BOOLEAN
  /\ AtMostOne(usage_file) /\ usage_file \subseteq Counters
  /\ AtMostOne(told) /\ AtMostOne(using) /\ (host \notin HookHosts => using = {})
  /\ \A a \in told \cup using :
       a.decision = "Allow" => a.action \in project(world, world.ontology, hook_source)

LEMMA HookRequestTyped ==
  ASSUME HookTyped, NEW call, IsCall(call), is(call.arguments, "obj")
  PROVE  IsGateRequest(hook_request(call)) /\ carried(hook_request(call)) \in Counters
<1> DEFINE req == hook_request(call)
           sent_args == call.arguments.obj
           args == hook_args(call)
<1>1. DOMAIN sent_args \subseteq Name /\ \A a \in DOMAIN sent_args : IsValue(sent_args[a])
  BY DEF IsCall, IsArguments, members
<1>2. args = sent_args \/ args = alias_neutral_args(sent_args)
  BY DEF hook_args
<1>3. DOMAIN args \subseteq Name /\ \A a \in DOMAIN args : IsValue(args[a])
  <2> HIDE DEF args, sent_args
  <2> QED
    BY <1>1, <1>2, AliasTyped
<1>4. req = [tool |-> normalize_tool(call.tool), arguments |-> Obj(args),
             path |-> resolve_action_path(args), mode |-> {hook_mode},
             taint |-> {IF tainted THEN "tainted" ELSE "clean"},
             source_channel |-> {hook_source}, usage |-> usage_file, flow |-> {}]
  BY DEF hook_request
<1> HIDE DEF req, args
<1>5. normalize_tool(call.tool) \in Name
  BY HooksAssumption DEF normalize_tool, IsCall
<1>6. IsArguments(Obj(args))
  BY <1>3, ObjectTyped
<1>7. AtMostOne(resolve_action_path(args)) /\ \A p \in resolve_action_path(args) : IsText(p)
  BY <1>3, ResolvedTyped
<1>8. IsGateContext(req)
  <2>1. /\ req.mode \in {{"interactive"}, {"background"}} /\ req.taint \in {{}, {"clean"}, {"tainted"}}
        /\ req.source_channel \in {{"user_prompt"}, {"mcp_output"}} /\ req.flow = {}
        /\ req.usage = usage_file
    BY <1>4 DEF HookTyped
  <2>2. Option(req.usage, BudgetUsage)
    BY <2>1, CountersAreUsages DEF HookTyped, Option
  <2>3. AtMostOne(req.flow) /\ \A f \in req.flow : IsGateFlowContext(f)
    BY <2>1 DEF AtMostOne
  <2> QED
    BY <2>1, <2>2, <2>3, WholeContext
<1>9. carried(req) \in Counters
  <2>1. req.usage = usage_file
    BY <1>4
  <2> QED
    BY <2>1, NothingCounted DEF carried, HookTyped, AtMostOne
<1>10. IsGateRequest(req)
  <2>1. /\ DOMAIN req = {"tool", "arguments", "path", "mode", "taint", "source_channel", "usage", "flow"}
        /\ req.tool = normalize_tool(call.tool) /\ req.arguments = Obj(args)
        /\ req.path = resolve_action_path(args)
    BY <1>4
  <2> QED
    BY <1>5, <1>6, <1>7, <1>8, <2>1 DEF IsGateRequest
<1> QED
  BY <1>9, <1>10 DEF req

LEMMA HookTypedFirst == WorldKnown /\ HookInit => HookTyped
<1> SUFFICES ASSUME WorldKnown, HookInit
             PROVE  HookTyped
  OBVIOUS
<1>1. hook_mode \in {"interactive", "background"} /\ hook_source \in {"user_prompt", "mcp_output"}
  BY DEF HookInit, HookSetting
<1> QED
  BY <1>1, NothingCounted DEF HookInit, HookTyped, AtMostOne

LEMMA HookTypedStays ==
  ASSUME WorldKnown, HookTyped, HookNext, UNCHANGED world_vars
  PROVE  HookTyped'
<1>1. world' = world /\ manifest' = manifest /\ host' = host /\ host \in HookHosts
  BY DEF world_vars, HookNext
<1> DEFINE kept == /\ tainted' \in BOOLEAN /\ AtMostOne(usage_file') /\ usage_file' \subseteq Counters
           shown(a) == a.decision = "Allow" => a.action \in project(world, world.ontology, hook_source)
           holds == /\ AtMostOne(told') /\ AtMostOne(using')
                    /\ \A a \in told' \cup using' : shown(a)
<1>2. UNCHANGED hook_flags /\ kept /\ holds => HookTyped'
  BY <1>1 DEF HookTyped, hook_flags
<1>3. ASSUME NEW call \in HookCalls[host][manifest],
             HookDecides(call, gate(world, hook_request(call), FALSE))
      PROVE  HookTyped'
  <2> DEFINE req == hook_request(call)
             res == gate(world, req, FALSE)
  <2>1. HookDecides(call, res)
    BY <1>3
  <2>2. host \in Hosts \cap HookHosts
    BY <1>1 DEF WorldKnown
  <2>3. IsCall(call) /\ is(call.arguments, "obj")
    BY <2>2, CallsTyped
  <2>4. res.usage \in Counters
    <3>1. carried(req) \in Counters
      BY <2>3, HookRequestTyped
    <3> HIDE DEF req
    <3> QED
      BY <3>1, CountersStay
  <2>5. res.decision = "Allow" => res.action \in project(world, world.ontology, hook_source)
    <3>1. req.source_channel = {hook_source}
      BY DEF hook_request
    <3> HIDE DEF req
    <3> QED
      BY <3>1, GateShows
  <2> HIDE DEF res
  <2>6. ASSUME NEW text, Answered(call, res, text)
        PROVE  holds /\ UNCHANGED hook_flags
    <3>1. /\ told' = {[call |-> call, args |-> hook_args(call), action |-> res.action,
                       decision |-> res.decision, answer |-> text]}
          /\ using' = using /\ UNCHANGED hook_flags
      BY <2>6 DEF Answered
    <3>2. AtMostOne(told') /\ \A a \in told' : a.decision = res.decision /\ a.action = res.action
      BY <3>1 DEF AtMostOne
    <3> QED
      BY <2>5, <3>1, <3>2 DEF HookTyped
  <2>7. CASE RefusedUncounted(call, res)
    <3>1. usage_file' \in {usage_file, {}, {res.usage}} /\ tainted' = tainted /\ Answered(call, res, "deny")
      BY <2>7 DEF RefusedUncounted, persist_usage
    <3>2. kept
      BY <2>4, <3>1 DEF HookTyped, AtMostOne
    <3> QED
      BY <1>2, <2>6, <3>1, <3>2
  <2>8. CASE RefusedUntracked(call, res)
    <3>1. usage_file' = {res.usage} /\ tainted' \in BOOLEAN /\ Answered(call, res, "deny")
      BY <2>8 DEF RefusedUntracked
    <3>2. kept
      BY <2>4, <3>1 DEF AtMostOne
    <3> QED
      BY <1>2, <2>6, <3>1, <3>2
  <2>9. CASE Judged(call, res)
    <3>1. /\ usage_file' = {res.usage} /\ tainted' = (tainted \/ res.taint = "Tainted")
          /\ Answered(call, res, hook_answer(res.decision))
      BY <2>9 DEF Judged
    <3>2. kept
      BY <2>4, <3>1 DEF AtMostOne
    <3> QED
      BY <1>2, <2>6, <3>1, <3>2
  <2> QED
    BY <2>1, <2>7, <2>8, <2>9 DEF HookDecides
<1>4. ASSUME tainted' = tainted, usage_file' = usage_file
      PROVE  kept
  BY <1>4 DEF HookTyped
<1>5. CASE HostRuns
  <2>1. PICK a \in told :
          /\ told' = {}
          /\ \E yes \in Consents(a) :
               using' = {[action |-> a.action, asked |-> a.args, args |-> a.args, consent |-> yes,
                          path |-> a.call.path, decision |-> a.decision]}
    BY <1>5 DEF HostRuns
  <2>2. PICK yes \in Consents(a) :
          using' = {[action |-> a.action, asked |-> a.args, args |-> a.args, consent |-> yes,
                     path |-> a.call.path, decision |-> a.decision]}
    BY <2>1
  <2>3. AtMostOne(using') /\ \A r \in using' : r.decision = a.decision /\ r.action = a.action
    BY <2>2 DEF AtMostOne
  <2>4. holds
    BY <2>1, <2>3 DEF HookTyped, AtMostOne
  <2> QED
    BY <1>2, <1>4, <1>5, <2>4 DEF HostRuns
<1>6. CASE HostSkips
  BY <1>2, <1>4, <1>6 DEF HostSkips, HookTyped, AtMostOne
<1>7. CASE ToolReturns
  BY <1>2, <1>4, <1>7 DEF ToolReturns, HookTyped, AtMostOne
<1> QED
  BY <1>3, <1>5, <1>6, <1>7 DEF HookNext

-----------------------------------------------------------------------------
(* The types of the whole session.                                         *)

HostsTyped ==
  WorldKnown /\ GatewayTyped /\ WireTyped /\ AgentTyped /\ HookTyped /\ Contained

LEMMA TypedFirst == Init => HostsTyped
<1> SUFFICES ASSUME Init
             PROVE  HostsTyped
  OBVIOUS
<1>1. WorldKnown
  BY DEF Init, StartHost, Validated, WorldKnown
<1>2. Contained
  BY ContainedInit DEF Init, AgentInit
<1> QED
  BY <1>1, <1>2, GatewayTypedFirst, WireTypedFirst, AgentTypedFirst, HookTypedFirst
     DEF Init, HostsTyped

LEMMA TypedStays == HostsTyped /\ [Next]_vars => HostsTyped'
<1> SUFFICES ASSUME HostsTyped, [Next]_vars
             PROVE  HostsTyped'
  OBVIOUS
<1>1. WorldKnown'
  BY WorldStays DEF HostsTyped
<1>2. world' = world /\ manifest' = manifest /\ host' = host /\ UNCHANGED world_vars
  BY OneHostSteps DEF world_vars
<1>3. GatewayTyped'
  <2>1. CASE GatewayNext
    BY <1>2, <2>1, GatewayTypedStays DEF HostsTyped
  <2>2. CASE UNCHANGED gateway_vars
    BY <1>2, <2>2 DEF gateway_vars, HostsTyped, GatewayTyped
  <2> QED
    BY <2>1, <2>2, OneHostSteps
<1>4. WireTyped'
  <2>1. CASE WireNext
    BY <1>2, <2>1, WireTypedStays DEF HostsTyped
  <2>2. CASE UNCHANGED wire_vars
    BY <1>2, <2>2 DEF wire_vars, HostsTyped, WireTyped
  <2> QED
    BY <2>1, <2>2, OneHostSteps
<1>5. AgentTyped'
  <2>1. CASE AgentNext
    BY <1>2, <2>1, AgentTypedStays DEF HostsTyped
  <2>2. CASE UNCHANGED agent_vars
    BY <1>2, <2>2 DEF agent_vars, loop_vars, HostsTyped, AgentTyped
  <2> QED
    BY <2>1, <2>2, OneHostSteps
<1>6. HookTyped'
  <2>1. CASE HookNext
    BY <1>2, <2>1, HookTypedStays DEF HostsTyped
  <2>2. CASE UNCHANGED hook_vars
    BY <1>2, <2>2 DEF hook_vars, HostsTyped, HookTyped
  <2> QED
    BY <2>1, <2>2, OneHostSteps
<1>7. Contained'
  <2>1. AgentNext => [Spawns \/ CommandNext \/ CommandOver]_command_vars
    BY DEF AgentNext, CommandStarts, Returned, Errored
  <2>2. UNCHANGED agent_vars => UNCHANGED command_vars
    BY DEF agent_vars
  <2> QED
    BY <2>1, <2>2, OneHostSteps, ContainedNext DEF HostsTyped
<1> QED
  BY <1>1, <1>3, <1>4, <1>5, <1>6, <1>7 DEF HostsTyped

\* One host runs one call at most.
LEMMA OneCallRuns ==
  ASSUME HostsTyped
  PROVE  Cardinality(sent) + Cardinality(running) + Cardinality(doing) + Cardinality(using) <= 1
<1>1. \A S : AtMostOne(S) => Cardinality(S) \in {0, 1}
  <2> SUFFICES ASSUME NEW S, AtMostOne(S)
               PROVE  Cardinality(S) \in {0, 1}
    OBVIOUS
  <2>1. S = {} \/ \E x \in S : S = {x}
    BY DEF AtMostOne
  <2> QED
    BY <2>1, FS_EmptySet, FS_Singleton
<1>2. /\ host # "gateway" => sent = {}
      /\ host # "wire" => running = {}
      /\ host # "agent" => doing = {}
      /\ host \notin {"claude", "agy"} => using = {}
  BY HooksAssumption DEF HostsTyped, GatewayTyped, WireTyped, AgentTyped, HookTyped
<1>3. /\ Cardinality(sent) \in {0, 1} /\ Cardinality(running) \in {0, 1}
      /\ Cardinality(doing) \in {0, 1} /\ Cardinality(using) \in {0, 1}
  BY <1>1 DEF HostsTyped, GatewayTyped, WireTyped, AgentTyped, HookTyped
<1>4. /\ host # "gateway" => Cardinality(sent) = 0
      /\ host # "wire" => Cardinality(running) = 0
      /\ host # "agent" => Cardinality(doing) = 0
      /\ host \notin {"claude", "agy"} => Cardinality(using) = 0
  BY <1>2, FS_EmptySet
<1> QED
  BY <1>3, <1>4

\* A session's first call is a request of the gate, and has an answer of it.
LEMMA OpeningTyped ==
  ASSUME HostsTyped
  PROVE  \A r \in Opening : IsGateRequest(r) /\ IsGateResponse(gate(world, r, FALSE))
<1>1. ASSUME NEW r, IsGateRequest(r)
      PROVE  IsGateResponse(gate(world, r, FALSE))
  BY <1>1, WorldCompiled, GateTyped DEF HostsTyped
<1>2. /\ \A call \in Requests[manifest] : IsCall(call)
      /\ host \in Hosts \cap HookHosts => \A call \in HookCalls[host][manifest] :
           IsCall(call) /\ is(call.arguments, "obj")
  BY CallsTyped DEF HostsTyped
<1>3. \A r \in Opening :
        \/ \E call \in Requests[manifest] : r = GatewayRequest(call) \/ r = WireRequest(call)
        \/ /\ host \in HookHosts
           /\ \E call \in HookCalls[host][manifest] : r = hook_request(call)
  BY DEF Opening
<1>4. \A call \in Requests[manifest] :
        IsGateRequest(GatewayRequest(call)) /\ IsGateRequest(WireRequest(call))
  BY <1>2, GatewayRequestTyped, WireRequestTyped DEF HostsTyped
<1>5. host \in HookHosts =>
        \A call \in HookCalls[host][manifest] : IsGateRequest(hook_request(call))
  BY <1>2, HookRequestTyped DEF HostsTyped, WorldKnown
<1> QED
  BY <1>1, <1>3, <1>4, <1>5

LEMMA TypedMeans == HostsTyped => TypeOK
<1> SUFFICES ASSUME HostsTyped
             PROVE  TypeOK
  OBVIOUS
<1>1. manifest \in DOMAIN Manifests /\ host \in Hosts
  BY DEF HostsTyped, WorldKnown
<1>2. IsCompiledWorld(world)
  BY WorldCompiled DEF HostsTyped
<1>3. \A r \in Opening : IsGateRequest(r) /\ IsGateResponse(gate(world, r, FALSE))
  BY OpeningTyped
<1>4. \A a \in asked : IsGateRequest(WireRequest(a.call)) /\ IsGateResponse(a.answer)
  <2>1. \A a \in asked : IsCall(a.call) /\ IsGateResponse(a.answer)
    BY DEF HostsTyped, WireTyped
  <2> QED
    BY <2>1, WireRequestTyped DEF HostsTyped
<1>5. \A call \in question : /\ IsEvalContext(EvalContext(call, TRUE))
                            /\ IsKernelOutcome(Decided(call, TRUE))
  <2> SUFFICES ASSUME NEW call \in question
               PROVE  /\ IsEvalContext(EvalContext(call, TRUE))
                      /\ IsKernelOutcome(Decided(call, TRUE))
    OBVIOUS
  <2>1. IsCall(call)
    BY DEF HostsTyped, AgentTyped
  <2>2. IsEvalContext(EvalContext(call, TRUE))
    BY <2>1, EvalContextTyped DEF HostsTyped
  <2>3. IsKernelOutcome(Decided(call, TRUE))
    BY <1>2, OutcomeTyped DEF Decided
  <2> QED
    BY <2>2, <2>3
<1>6. \A d \in doing : IsExecutionSpec(d.spec) /\ d.r.action \in tool_surface(world)
  BY DEF HostsTyped, AgentTyped
<1>7. CommandTypeOK
  BY DEF HostsTyped, Contained
<1>8. /\ offered \subseteq world.projected
      /\ session_taint \in BOOLEAN /\ upstream \in {"open", "closed"}
      /\ forwarded \in 0 .. MaxForwards /\ session_usage \in Counters
      /\ \A r \in sent : r.action \in project(world, world.ontology, source)
  BY DEF HostsTyped, GatewayTyped
<1>9. /\ runs \in 0 .. MaxRuns /\ wire_usage \in Counters /\ wire_taint \in {"clean", "tainted"}
      /\ ambient \subseteq Mark /\ DOMAIN labels \subseteq Results
      /\ \A v \in DOMAIN labels : labels[v] \subseteq Mark
      /\ \A r \in Allowed : r.action \in project(world, world.ontology, "user_prompt")
  BY DEF HostsTyped, WireTyped, FlowLabel, Mark, Allowed
<1>10. /\ steps \in 0 .. MaxSteps /\ agent_usage \in Counters /\ agent_taint \in {"Clean", "Tainted"}
       /\ \A t \in token : t.state \in {"pending", "approved", "rejected", "consumed", "executed"}
       /\ \A r \in ByAgent : r.action \in tool_surface(world)
  BY DEF HostsTyped, AgentTyped, ByAgent
<1>11. /\ usage_file \subseteq Counters
       /\ \A r \in ByHook : r.action \in project(world, world.ontology, hook_source)
  BY DEF HostsTyped, HookTyped, ByHook
<1>12. \A u \in {session_usage, wire_usage, agent_usage} \cup usage_file :
         u \in [commands_run : Nat, network_calls : Nat, file_writes : Nat, tokens_used : {0}]
  BY <1>8, <1>9, <1>10, <1>11 DEF Counters
<1>13. Cardinality(sent) + Cardinality(running) + Cardinality(doing) + Cardinality(using) <= 1
  BY OneCallRuns
<1> HIDE DEF HostsTyped
<1> QED
  BY <1>1, <1>2, <1>3, <1>4, <1>5, <1>6, <1>7, <1>8, <1>9, <1>10, <1>11, <1>12, <1>13 DEF TypeOK

\* In every session of every host, under every manifest that validates: the world is
\* complete and names only what is in it; what a host sends to the gate is a request of
\* it and is answered in kind; one call runs at most, of an action that discovery shows
\* the session (compile.rs: compile; gate.rs: gate; project.rs: project; spec.rs:
\* build_execution_spec).
THEOREM SessionsTyped == Spec => []TypeOK
BY TypedFirst, TypedStays, TypedMeans, PTL DEF Spec

-----------------------------------------------------------------------------
(* The log of the hooks, as the last component of a session.               *)

LEMMA LogRuns ==
  ASSUME LogSound, [Next]_vars
  PROVE  LogSound'
BY LogStays, LogRests, OneHostSteps

\* In every logged session the hook log never lies, at whatever moment it is read and
\* whichever of its lines a killed hook or a full disk kept from it: what the join infers of
\* a call is so, every decision has a span of its own that says the same, and where one hook
\* judges a call the report of its transcript shows its one decision (outcome.rs: join;
\* otlp.rs: export; replay_transcripts.rs: print_live).
THEOREM LogNeverLies == Spec => []LogTruthful
<1>1. Init => LogSound
  <2> SUFFICES ASSUME Init
               PROVE  LogSound
    OBVIOUS
  <2> DEFINE Settings == Setting("logged", LogSettings[manifest])
  <2>1. manifest \in DOMAIN Manifests /\ validate_manifest(Manifests[manifest])
    BY DEF Init, StartHost, Validated
  <2>2. Settings \in SUBSET (Nat \X BOOLEAN \X BOOLEAN)
    BY <2>1, LogSettingsAssumption DEF Setting
  <2>3. LogInit(Settings)
    BY DEF Init
  <2> HIDE DEF Settings
  <2> QED
    BY <2>2, <2>3, LogStarts
<1> QED
  BY <1>1, LogRuns, SoundIsTruthful, PTL DEF Spec
=============================================================================

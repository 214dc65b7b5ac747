------------------------------- MODULE Lowering -------------------------------
(***************************************************************************)
(* From an admitted call to what is executed (world-kernel: spec.rs): the  *)
(* arguments a scoped capability runs with, and the operation its backing  *)
(* performs.  A failure to lower is the empty set, an operation a singleton.*)
(*                                                                         *)
(* A command is a text, that is, the sequence of its words; a word in      *)
(* Unbalanced is a quote that is never closed.                             *)
(***************************************************************************)
EXTENDS Kernel

CONSTANT Unbalanced  \* words that shell_words cannot split at

\* Variant: what the actor sent besides rides along.
effective_call_Unstripped(w, action, args) ==
  IF ~scoped(w, action)
  THEN [base_action |-> action, arguments |-> args,
        context_refs |-> Empty, stripped |-> {}]
  ELSE LET cap == w.scoped_capabilities[action]
           sent == DOMAIN members(args)
       IN  [base_action |-> cap.base_action,
            arguments |-> Obj([a \in given(w, action, args) \cup literals(w, action) \cup sent |->
                                 IF a \in sent THEN members(args)[a]
                                 ELSE scoped_value(w, action, args, a)]),
            context_refs |-> [a \in context_args(w, action) |-> cap.args[a].key],
            stripped |-> {}]

\* The call a host must make for an admitted call: under the base action's
\* names, without what the actor may not set, with the literals.  Context
\* references are left to the host.
effective_call(w, action, args) ==
  IF ~scoped(w, action)
  THEN [base_action |-> action, arguments |-> args,
        context_refs |-> Empty, stripped |-> {}]
  ELSE LET cap == w.scoped_capabilities[action]
           supplied == UNION {actor_name(cap.args[a], a) : a \in DOMAIN cap.args}
       IN  [base_action |-> cap.base_action,
            arguments |-> Obj([a \in given(w, action, args) \cup literals(w, action) |->
                                 scoped_value(w, action, args, a)]),
            context_refs |-> [a \in context_args(w, action) |-> cap.args[a].key],
            stripped |-> DOMAIN members(args) \ supplied]

\* Context references resolve against the environment, all of them or none.
effective_params(w, action, args, env) ==
  LET e == effective_call(w, action, args)
      refs == DOMAIN e.context_refs
      known == members(e.arguments)
      value(a) == IF a \in refs THEN Str(env.context[e.context_refs[a]]) ELSE known[a]
  IN  IF ~scoped(w, action) THEN {e.arguments}
      ELSE IF \A a \in refs : e.context_refs[a] \in DOMAIN env.context
      THEN {Obj([a \in DOMAIN known \cup refs |-> value(a)])}
      ELSE {}

\* The arguments a local handler may read.
param_contract(w, action) ==
  IF scoped(w, action) THEN DOMAIN cap_args(w, action)
  ELSE declared_arg_names(w.descriptors[action].schema, w.descriptors[action].arg_constraints)

str_param(params, declared, key) ==
  IF /\ key \in declared
     /\ key \in DOMAIN members(params)
     /\ is(members(params)[key], "str")
  THEN {members(params)[key].str} ELSE {}

string_array(list) ==
  LET texts == SelectSeq(list, LAMBDA v : is(v, "str"))
  IN  [i \in DOMAIN texts |-> texts[i].str]

\* A word is itself a text.
split(command) ==
  IF \E i \in DOMAIN command : command[i] \in Unbalanced THEN {}
  ELSE {[i \in DOMAIN command |-> <<command[i]>>]}

list_param(params, declared, key) ==
  IF key \in declared /\ is(members(params)[key], "list")
  THEN {string_array(members(params)[key].list)} ELSE {}

\* Either an argv, or a command line with optional arguments; never empty.
argv_from(params, declared) ==
  LET sent == DOMAIN members(params)
      lines == UNION {split(c) : c \in str_param(params, declared, "command")}
      given_args == IF "args" \in sent THEN list_param(params, declared, "args") ELSE {<<>>}
  IN  IF "argv" \in sent
      THEN {argv \in list_param(params, declared, "argv") : argv # <<>>}
      ELSE {argv \in {l \o a : l \in lines, a \in given_args} : argv # <<>>}

operation_for(handler, params, declared) ==
  CASE handler = "read_workspace" ->
         {[op |-> "read", path |-> p] : p \in str_param(params, declared, "path")}
    [] handler = "apply_patch" ->
         {[op |-> "patch", path |-> p, contents |-> c] :
            p \in str_param(params, declared, "path"),
            c \in str_param(params, declared, "contents")}
    [] handler = "run_command" ->
         {[op |-> "argv", argv |-> a] : a \in argv_from(params, declared)}
    [] handler = "fetch_web" ->
         {[op |-> "fetch", url |-> u] : u \in str_param(params, declared, "url")}
    [] OTHER -> {}

timeout_ms(w, action, env) ==
  IF is_command(w.action_types[action]) /\ w.budget.command_timeout_ms # {}
  THEN CHOOSE t \in w.budget.command_timeout_ms : TRUE
  ELSE env.default_timeout_ms

\* The spec of an allowed call: its operation, the policy of the environment,
\* and the descriptor it was decided under.
build_execution_spec(w, action, args, effect_mode, env) ==
  LET backing == w.descriptors[action].backing
      operations == UNION {
        IF backing.kind = "mcp"
        THEN {[op |-> "mcp", server |-> backing.server, tool |-> backing.tool, input |-> p]}
        ELSE operation_for(backing.handler, p, param_contract(w, action))
        : p \in effective_params(w, action, args, env)}
  IN  {[action |-> action, operation |-> o, effect_mode |-> effect_mode,
        timeout_ms |-> timeout_ms(w, action, env), network |-> env.network,
        descriptor |-> w.descriptors[action]] : o \in operations}
=============================================================================

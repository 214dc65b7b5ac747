--------------------------------- MODULE Gate ---------------------------------
(***************************************************************************)
(* The gate: one request of a host, one response (harness-preview:         *)
(* gate.rs).  The session lives with the host: it carries taint, usage and *)
(* flow labels in and must carry back what the response says.              *)
(***************************************************************************)
EXTENDS Classify

CONSTANT BadLabel  \* a flow label on the wire that does not parse

from_name ==
  [user_prompt |-> "UserPrompt", user_cli |-> "UserPrompt", cli |-> "UserPrompt",
   workspace_file |-> "WorkspaceFile", workspace_files |-> "WorkspaceFile",
   shell_output |-> "ShellOutput", mcp_output |-> "McpOutput",
   web |-> "Web", web_fetch |-> "Web", memory |-> "Memory", generated |-> "Generated"]

\* The policy of the channel a request names, if the world declares it.
channel_policy(w, name) ==
  {w.channel_policies[c] :
     c \in {from_name[n] : n \in {name} \cap DOMAIN from_name} \cap DOMAIN w.channel_policies}

\* Discovery: of the tools a host offers, those the source of a session is shown.
project(w, offered, source) ==
  {a \in offered \cap w.projected :
     \E p \in channel_policy(w, source) : can_perform(w, p.trust, w.action_types[a])}

parse_taint == [clean |-> "Clean", tainted |-> "Tainted"]
parse_mode(mode) == IF mode = {"background"} THEN "Background" ELSE "Interactive"

\* A sidecar that is there must have an ambient, and every label must parse.
flow_is_valid(flow) ==
  \A f \in flow : /\ f.ambient # {}
                  /\ \A l \in f.ambient : l # BadLabel
                  /\ \A a \in DOMAIN f.args : f.args[a] # BadLabel
parse_flow(flow) == {[ambient |-> CHOOSE l \in f.ambient : TRUE, args |-> f.args] : f \in flow}

\* What a request is refused for before the kernel sees it.
malformed(w, req) ==
  IF req.taint = {} THEN "missing_taint"
  ELSE IF ~(req.taint \subseteq DOMAIN parse_taint) THEN "invalid_taint"
  ELSE IF req.source_channel = {} THEN "missing_source_channel"
  ELSE IF \A c \in req.source_channel : channel_policy(w, c) = {} THEN "invalid_source_channel"
  ELSE IF counts_calls(w.budget) /\ req.usage = {} THEN "missing_usage"
  ELSE IF ~flow_is_valid(req.flow) THEN "invalid_flow_context"
  ELSE None

\* A file action must say which file: a path argument makes a read one.
PATH_ARGS == {"path", "file_path", "notebook_path"}
requires_resolved_path(w, action) ==
  LET at == w.action_types[action]
  IN  \/ at \in {"Write", "Patch"}
      \/ at = "Read" /\ PATH_ARGS \cap DOMAIN properties(w.descriptors[action].schema) # {}

\* The scope of the roots, for an allowed call; it can only tighten.
path_scope(w, action, path, mode) ==
  LET access == UNION {classify_path(w, p) : p \in path}
  IN  IF w.roots # {} /\ requires_resolved_path(w, action) /\ path = {}
      THEN answer("Deny", {}, "missing_path")
      ELSE IF "Deny" \in access THEN answer("Deny", {}, "path_scope_denied")
      ELSE IF "Read" \in access /\ w.action_types[action] \in {"Write", "Patch"}
      THEN answer("Deny", {}, "path_scope_readonly")
      ELSE IF "Ask" \in access
      THEN IF mode = "Background" THEN answer("Deny", {}, "path_scope_ask_background")
           ELSE answer("Ask", {}, "path_scope_ask")
      ELSE answer("Allow", {}, None)

\* The taint an action's output brings in, by its side effect.
side_effect_taint(se, at) ==
  IF se = "Memory" /\ at \in {"Write", "Patch"} THEN "Clean"
  ELSE IF se \in {"Network", "External", "Memory"} THEN "Tainted"
  ELSE "Clean"

remote_backed(w, action) ==
  action \in DOMAIN w.descriptors /\ w.descriptors[action].backing.kind = "mcp"

\* Variant: a remote action that says it only reads is believed.
ingress_ByPath(w, action, path) == \E p \in path : path_taints(w, p)

\* Bytes from another process, or from under a tainting root.
ingress(w, action, path) ==
  remote_backed(w, action) \/ \E p \in path : path_taints(w, p)

\* Only a call that runs brings anything in.
out_taint(w, action, path, inbound, allowed) ==
  IF ~allowed THEN inbound
  ELSE join(join(inbound, side_effect_taint(w.side_effects[action], w.action_types[action])),
            IF ingress(w, action, path) THEN "Tainted" ELSE "Clean")

\* The labels a caller that carried some gets back.
flow_out(w, action, path, tc, out, runs) ==
  {LET floor == IF runs THEN result_label_floor(w, action, tc) ELSE {}
       result == {l \cup (IF ingress(w, action, path) THEN {"Untrusted"} ELSE {}) : l \in floor}
   IN  [ambient |-> f.ambient \cup (UNION result)
                      \cup (IF out = "Tainted" THEN {"Untrusted"} ELSE {}),
        result |-> result]
   : f \in tc.flow}

out_usage(w, action, usage, allowed) ==
  IF allowed THEN charge(usage, w.action_types[action], w.side_effects[action]) ELSE usage

denied_response(action, rule, taint, usage) ==
  [decision |-> "Deny", action |-> action, rule |-> rule, taint |-> taint,
   usage |-> usage, flow |-> {}, effective |-> {}, lowered |-> {}]

\* The context of the kernel for a request that parses.
taint_context(req, inbound) ==
  IF req.flow = {} THEN from_taint(inbound)
  ELSE with_flow(from_taint(inbound), CHOOSE f \in parse_flow(req.flow) : TRUE)

carried(req) == IF req.usage = {} THEN NoUsage ELSE CHOOSE u \in req.usage : TRUE

\* The response to a call that was decided on; `lowered` holds the effect mode of
\* an allowed call that was sealed and got one: what gate_and_lower builds a spec of.
response(w, req, action, inbound, tc, kernel, final) ==
  LET allowed == final.decision = "Allow"
      out == out_taint(w, action, req.path, inbound, allowed)
  IN  [decision |-> final.decision, action |-> action,
       rule |-> IF allowed THEN None ELSE final.rule,
       taint |-> out,
       usage |-> out_usage(w, action, carried(req), allowed),
       flow |-> flow_out(w, action, req.path, tc, out, allowed /\ kernel.sealed),
       effective |-> IF final.decision \in {"Allow", "Ask"} /\ kernel.sealed
                     THEN {effective_call(w, action, req.arguments)} ELSE {},
       lowered |-> IF allowed /\ kernel.sealed THEN kernel.effect_mode ELSE {}]

\* The roots can only tighten what the kernel allowed.
tightened(kernel, scope) ==
  IF kernel.decision = "Allow" /\ scope.decision # "Allow" THEN scope ELSE kernel

scoped_response(w, req, action, inbound, tc, kernel) ==
  response(w, req, action, inbound, tc, kernel,
           tightened(kernel, path_scope(w, action, req.path, parse_mode(req.mode))))

decided(w, req, approval_granted, action, trust, inbound, tc) ==
  scoped_response(w, req, action, inbound, tc,
    decide(w, action, req.arguments, trust,
           [taint |-> tc, mode |-> parse_mode(req.mode), usage |-> carried(req),
            approval_granted |-> approval_granted]))

\* A request that parses, under the policy of its channel.
governed(w, req, approval_granted, action, policy) ==
  LET inbound == join(parse_taint[CHOOSE t \in req.taint : TRUE], policy.taint)
  IN  decided(w, req, approval_granted, action, policy.trust, inbound,
              taint_context(req, inbound))

refused(w, req, action, rule) ==
  denied_response(action, rule,
                  IF rule \in {"missing_taint", "invalid_taint"} THEN "Tainted"
                  ELSE parse_taint[CHOOSE t \in req.taint : TRUE],
                  carried(req))

gate(w, req, approval_granted) ==
  LET action == classify_call(w, req.tool, req.arguments, req.path)
      policy == CHOOSE p \in UNION {channel_policy(w, c) : c \in req.source_channel} : TRUE
  IN  IF malformed(w, req) # None THEN refused(w, req, action, malformed(w, req))
      ELSE governed(w, req, approval_granted, action, policy)

\* The execution spec of an allowed call, if it can be lowered.
lower(w, req, verdict, env) ==
  UNION {build_execution_spec(w, verdict.action, req.arguments, mode, env) :
           mode \in verdict.lowered}
=============================================================================

------------------------------ MODULE GatewayHost ------------------------------
(***************************************************************************)
(* `harness mcp-gateway` (cli-harness: mcp_gateway.rs): a process between  *)
(* a client and an upstream MCP server.  It answers one request after the  *)
(* other, carries the session's taint and usage in memory, and forwards    *)
(* what the gate allows and the kernel could lower.  The approvals it      *)
(* claims are McpClaim's; here a claim is granted or refused.              *)
(***************************************************************************)
EXTENDS HostWorld

CONSTANTS
  Upstream,    \* the tools the upstream server advertises
  MaxForwards  \* bound: calls sent upstream in a session

ASSUME GatewayBound == MaxForwards \in Nat

VARIABLES
  source, mode, approvals,  \* the flags of `run`: channel, mode, whether there is a store
  session_taint,   \* run's session_taint
  session_usage,   \* run's session_usage
  offered,         \* the actions of the last tools/list answer
  sent,            \* the call the upstream was sent and has not answered, if any
  upstream,        \* "open", or "closed" for good
  reply,           \* the kind of the last answer to the client
  heard,           \* history: the client was given something an MCP tool said
  forwarded,       \* history: the number of calls sent upstream
  spent            \* history: what they count against the budget

gateway_vars == <<source, mode, approvals, session_taint, session_usage, offered, sent,
                  upstream, reply, heard, forwarded, spent>>

GatewayInit ==
  /\ source \in Setting("gateway", {"user_prompt", "mcp_output"})
  /\ mode \in Setting("gateway", {"interactive", "background"})
  /\ approvals \in Setting("gateway", BOOLEAN)
  /\ session_taint \in Setting("gateway", BOOLEAN)
  /\ session_usage = NoUsage
  /\ offered = {}
  /\ sent = {}
  /\ upstream = "open"
  /\ reply = "none"
  /\ heard = FALSE
  /\ forwarded = 0
  /\ spent = NewUsage

-----------------------------------------------------------------------------
(* The surface.                                                            *)

\* The upstream tool that serves an action: its backing's in a world that
\* declares a surface, else the one of its name.
served_tool(w, action) ==
  IF w.mcp_surface = {} THEN {action}
  ELSE {b.tool : b \in {c \in {w.descriptors[action].backing} :
                          c.kind = "mcp" /\ \E s \in w.mcp_surface : c.server = s.upstream}}

\* The actions offered for the tools the upstream advertises.
surface_tools(w, tools) == {a \in w.projected : served_tool(w, a) \cap tools # {}}

\* The schema the model is shown of an action: what it supplies of a scoped
\* capability, under its own names, with the limits of the input rules.
model_facing_schema(w, action) ==
  LET schema == w.descriptors[action].schema
      base(a) == IF a \in DOMAIN properties(schema) THEN properties(schema)[a] ELSE Empty
      shown == {a \in DOMAIN cap_args(w, action) : actor_name(cap_args(w, action)[a], a) # {}}
      name(a) == CHOOSE n \in actor_name(cap_args(w, action)[a], a) : TRUE
      rule(a) == IF cap_args(w, action)[a].from = "input"
                 THEN [one_of |-> cap_args(w, action)[a].one_of,
                       prefix |-> cap_args(w, action)[a].prefix]
                 ELSE [one_of |-> {}, prefix |-> {}]
      limited(a) == [k \in DOMAIN base(a) \cup (IF rule(a).one_of = {} THEN {} ELSE {"enum"})
                             \cup (IF rule(a).prefix = {} THEN {} ELSE {"type", "pattern"}) |->
                       CASE k = "enum" /\ rule(a).one_of # {} -> rule(a).one_of
                         [] k = "type" /\ rule(a).prefix # {} -> {"string"}
                         [] k = "pattern" /\ rule(a).prefix # {} -> rule(a).prefix
                         [] OTHER -> base(a)[k]]
  IN  IF ~scoped(w, action) THEN schema
      ELSE [type |-> {"object"},
            properties |-> [n \in {name(a) : a \in shown} |->
                              limited(CHOOSE a \in shown : name(a) = n)],
            required |-> {name(a) : a \in shown \cap required(schema)},
            additionalProperties |-> FALSE]

ToolsList ==
  /\ sent = {}
  /\ offered' = IF upstream = "open" THEN surface_tools(world, Upstream) ELSE {}
  /\ reply' = "tools"
  /\ UNCHANGED <<source, mode, approvals, session_taint, session_usage, sent, upstream,
                 heard, forwarded, spent>>

-----------------------------------------------------------------------------
(* tools/call.                                                             *)

GatewayRequest(call) ==
  [tool |-> call.tool, arguments |-> call.arguments, path |-> {}, mode |-> {mode},
   taint |-> {IF session_taint THEN "tainted" ELSE "clean"},
   source_channel |-> {source}, usage |-> {session_usage}, flow |-> {}]

govern(call, claimed) == gate(world, GatewayRequest(call), claimed)

\* A first verdict ASK is decided again when a stored grant could be claimed.
claims(first) == IF approvals /\ first.decision = "Ask" THEN BOOLEAN ELSE {FALSE}

\* The input of the kernel's lowering, if it is a call of the tool.
lowered_input(specs, tools) ==
  {s.operation.input :
     s \in {t \in specs : t.operation.op = "mcp" /\ (tools # {} => t.operation.tool \in tools)}}

\* What goes upstream for an allowed call, if anything.
forward_target(w, requested, action, args, specs) ==
  IF w.mcp_surface = {}
  THEN IF ~scoped(w, action) THEN {[tool |-> requested, input |-> args]}
       ELSE {[tool |-> w.scoped_capabilities[action].base_action, input |-> i] :
               i \in lowered_input(specs, {})}
  ELSE {[tool |-> t, input |-> i] :
          t \in served_tool(w, action),
          i \in lowered_input(specs, served_tool(w, action))}

Target(call, verdict) ==
  forward_target(world, call.tool, verdict.action, call.arguments,
                 lower(world, GatewayRequest(call), verdict, ExecEnv))

\* Everything but ALLOW is answered without the upstream.
CallBlocked(verdict) ==
  /\ sent = {}
  /\ verdict.decision # "Allow"
  /\ session_usage' = verdict.usage
  /\ reply' = verdict.decision
  /\ UNCHANGED <<source, mode, approvals, session_taint, offered, sent, upstream, heard,
                 forwarded, spent>>

\* Variant: the charge stays although nothing ran.
CallNotForwardable_Charged(call, verdict) ==
  /\ sent = {}
  /\ verdict.decision = "Allow"
  /\ Target(call, verdict) = {}
  /\ session_usage' = verdict.usage
  /\ reply' = "not_forwardable"
  /\ UNCHANGED <<source, mode, approvals, session_taint, offered, sent, upstream, heard,
                 forwarded, spent>>

\* Allowed and charged, but nothing can be sent: the usage is put back.
CallNotForwardable(call, verdict) ==
  /\ sent = {}
  /\ verdict.decision = "Allow"
  /\ Target(call, verdict) = {}
  /\ session_usage' = session_usage
  /\ reply' = "not_forwardable"
  /\ UNCHANGED <<source, mode, approvals, session_taint, offered, sent, upstream, heard,
                 forwarded, spent>>

\* The taint is recorded before the call crosses to the upstream.
CallForwarded(call, claimed, verdict) ==
  /\ sent = {}
  /\ forwarded < MaxForwards
  /\ verdict.decision = "Allow"
  /\ \E target \in Target(call, verdict) :
       sent' = {Running(verdict.action, call.arguments, target.input, claimed)}
  /\ session_usage' = verdict.usage
  /\ session_taint' = (session_taint \/ verdict.taint = "Tainted")
  /\ forwarded' = forwarded + 1
  /\ spent' = Spent(spent, verdict.action)
  /\ UNCHANGED <<source, mode, approvals, offered, upstream, reply, heard>>

\* The upstream's result, or its JSON-RPC error, is handed to the client.
CallAnswered ==
  \E r \in sent :
    /\ upstream = "open"
    /\ reply' \in {"result", "error"}
    /\ heard' = (heard \/ remote_backed(world, r.action))
    /\ sent' = {}
    /\ UNCHANGED <<source, mode, approvals, session_taint, session_usage, offered, upstream,
                   forwarded, spent>>

\* A result that demands input is not relayed.
CallDemandsInput ==
  /\ sent # {}
  /\ upstream = "open"
  /\ reply' = "input_required"
  /\ sent' = {}
  /\ UNCHANGED <<source, mode, approvals, session_taint, session_usage, offered, upstream,
                 heard, forwarded, spent>>

UpstreamCloses ==
  /\ upstream = "open"
  /\ upstream' = "closed"
  /\ UNCHANGED <<source, mode, approvals, session_taint, session_usage, offered, sent, reply,
                 heard, forwarded, spent>>

\* The connection ended before the answer: the call may have been performed.
CallBroken ==
  /\ sent # {}
  /\ upstream = "closed"
  /\ reply' = "upstream_error"
  /\ sent' = {}
  /\ UNCHANGED <<source, mode, approvals, session_taint, session_usage, offered, upstream,
                 heard, forwarded, spent>>

\* Decided once more if a grant could be claimed, then answered or forwarded.
CallDecided(call, claimed, verdict) ==
  CallBlocked(verdict) \/ CallNotForwardable(call, verdict) \/ CallForwarded(call, claimed, verdict)
CallGoverned(call, first) ==
  \E claimed \in claims(first) :
    CallDecided(call, claimed, IF claimed THEN govern(call, TRUE) ELSE first)

GatewayNext ==
  /\ host = "gateway"
  /\ \/ ToolsList
     \/ \E call \in Requests[manifest] : CallGoverned(call, govern(call, FALSE))
     \/ CallAnswered \/ CallDemandsInput \/ CallBroken
     \/ UpstreamCloses

-----------------------------------------------------------------------------
(* What the client of an advertised tool may expect: an argument it names  *)
(* is admitted by the schema it was shown (JSON Schema, external).         *)
Accepts(schema, v) ==
  /\ "pattern" \in DOMAIN schema => \A p \in schema.pattern : is(v, "str") /\ IsPrefix(p, v.str)
  /\ "type" \in DOMAIN schema => type_admits(schema.type, v)
  /\ "enum" \in DOMAIN schema => v \in schema.enum

AsShown(r) ==
  LET shown == model_facing_schema(world, r.action)
  IN  /\ required(shown) \subseteq DOMAIN r.asked
      /\ \A n \in DOMAIN r.asked \cap DOMAIN properties(shown) :
           Accepts(properties(shown)[n], r.asked[n])
=============================================================================

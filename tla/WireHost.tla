-------------------------------- MODULE WireHost --------------------------------
(***************************************************************************)
(* A host that asks the gate over its ABI and carries flow labels: the one *)
(* the repository drives the gate with (harness-preview: tests,            *)
(* flow_slice.rs).  Labels belong to values, by their content.  A host may *)
(* also be one that never sends some part of the context, and one that     *)
(* shows ASK in a prompt of its own, as the hooks of an agent do.          *)
(***************************************************************************)
EXTENDS HostWorld

CONSTANTS
  Results,   \* the texts a tool may answer with
  MaxRuns    \* bound: calls run in a session

ASSUME WireBound == MaxRuns \in Nat

VARIABLES
  forgets,      \* the parts of the context this host never sends
  wire_mode,    \* context.mode
  wire_taint,   \* FlowHost.taint
  wire_usage,   \* FlowHost.usage
  ambient,      \* FlowHost.ambient
  labels,       \* FlowHost.labels: of every labelled value, its marks
  asked,        \* the call whose last answer was ASK, and that answer, if any
  running,      \* the call that is being run, if any
  brought,      \* history: the marks of what allowed calls returned
  brought_asked,\* history: the marks of what calls run on a person's yes returned
  origin,       \* history: the marks of the values that contracts speak of
  runs,         \* history: the number of calls run
  wire_spent    \* history: what the allowed ones count against the budget

wire_vars == <<forgets, wire_mode, wire_taint, wire_usage, ambient, labels, asked, running,
               brought, brought_asked, origin, runs, wire_spent>>

WireInit ==
  /\ forgets \in Setting("wire", {{}, {"taint"}, {"usage"}, {"flow"}, {"path"}})
  /\ wire_mode \in Setting("wire", {"interactive", "background"})
  /\ wire_taint = "clean"
  /\ wire_usage = NoUsage
  /\ ambient = {}
  /\ labels = Empty
  /\ asked = {}
  /\ running = {}
  /\ brought = {}
  /\ brought_asked = {}
  /\ origin = Empty
  /\ runs = 0
  /\ wire_spent = NewUsage

\* Joins a label to a value's, so that a later claim can only raise it.
bind(table, value, label) ==
  [v \in DOMAIN table \cup {value} |->
     (IF v \in DOMAIN table THEN table[v] ELSE {}) \cup (IF v = value THEN label ELSE {})]

Sends(part, value) == IF part \in forgets THEN {} ELSE {value}

\* Every string argument that has a label is sent with it.
WireRequest(call) ==
  LET args == members(call.arguments)
      labelled == {a \in DOMAIN args : is(args[a], "str") /\ args[a] \in DOMAIN labels}
  IN  [tool |-> call.tool, arguments |-> call.arguments,
       path |-> IF "path" \in forgets THEN {} ELSE call.path,
       mode |-> {wire_mode}, taint |-> Sends("taint", wire_taint),
       source_channel |-> {"user_prompt"}, usage |-> Sends("usage", wire_usage),
       flow |-> Sends("flow", [ambient |-> {ambient},
                               args |-> [a \in labelled |-> labels[args[a]]]])]

\* What the answer says of the session replaces or joins what the host carries.
persist(res) ==
  /\ wire_taint' = IF res.taint = "Tainted" THEN "tainted" ELSE "clean"
  /\ wire_usage' = res.usage
  /\ ambient' = ambient \cup UNION {f.ambient : f \in res.flow}

\* The effective call is what a host runs, with the floor of its result.  A
\* call that names trusted context this host does not have is not run.
Started(call, res, consent) ==
  {[action |-> res.action, asked |-> members(call.arguments), args |-> members(e.arguments),
    consent |-> consent, path |-> call.path, floor |-> UNION {f.result : f \in res.flow},
    allowed |-> res.decision = "Allow"] :
     e \in {x \in res.effective : DOMAIN x.context_refs = {}}}

Asked(call, res) == IF res.decision = "Ask" THEN {[call |-> call, answer |-> res]} ELSE {}

\* FlowHost.govern: the answer is carried, and an allowed call is run.
Carry(call, authorized, res) ==
  /\ persist(res)
  /\ asked' = Asked(call, res)
  /\ running' = IF res.decision = "Allow" THEN Started(call, res, authorized) ELSE {}
  /\ wire_spent' = IF res.decision = "Allow" THEN Spent(wire_spent, res.action)
                   ELSE wire_spent
  /\ UNCHANGED <<forgets, wire_mode, labels, brought, brought_asked, origin, runs>>

Govern(call, authorized) ==
  /\ running = {} /\ runs < MaxRuns
  /\ Carry(call, authorized, gate(world, WireRequest(call), authorized))

Call == \E call \in Requests[manifest] : Govern(call, FALSE)

\* The person said yes, and the host decides again.
CallAuthorized == \E a \in asked : Govern(a.call, TRUE)

\* The person said yes in the host's own prompt: the host runs what it asked
\* for, and the gate hears nothing of it.
PersonApproves ==
  \E a \in asked :
    /\ running = {} /\ runs < MaxRuns
    /\ running' = Started(a.call, a.answer, TRUE)
    /\ asked' = {}
    /\ UNCHANGED <<forgets, wire_mode, wire_taint, wire_usage, ambient, labels, brought,
                   brought_asked, origin, runs, wire_spent>>

\* What is known of a value: what contracts said of it, else that it may hold
\* anything that was brought in.
Marks(v) == IF v \in DOMAIN origin THEN origin[v] ELSE brought

Contract(r) == world.descriptors[r.action].flow_contract
Inherited(r, c) == {a \in c.inherits : ~is_literal(world, r.action, a)}
ResultMarks(r) ==
  (IF Foreign(r) THEN {"Untrusted"} ELSE {})
    \cup UNION {(UNION c.output)
                  \cup UNION {Marks(r.args[a]) : a \in Inherited(r, c) \cap DOMAIN r.args} :
                  c \in Contract(r)}
\* A contract says nothing of a result that inherits from literals alone.
Declared(r) == \E c \in Contract(r) : c.output # {} \/ Inherited(r, c) # {}

\* The handler returns; a floor binds to the value it returned.
CallReturns ==
  \E r \in running, v \in Results :
    /\ labels' = IF r.floor = {} THEN labels ELSE bind(labels, v, UNION r.floor)
    /\ origin' = IF Declared(r) /\ r.allowed THEN bind(origin, v, ResultMarks(r)) ELSE origin
    /\ brought' = brought \cup (IF r.allowed THEN ResultMarks(r) ELSE {})
    /\ brought_asked' = brought_asked \cup (IF r.allowed THEN {} ELSE ResultMarks(r))
    /\ runs' = runs + 1
    /\ running' = {}
    /\ UNCHANGED <<forgets, wire_mode, wire_taint, wire_usage, ambient, asked, wire_spent>>

\* The handler fails before it did anything.
CallFails ==
  /\ running # {}
  /\ running' = {}
  /\ runs' = runs + 1
  /\ UNCHANGED <<forgets, wire_mode, wire_taint, wire_usage, ambient, labels, asked, brought,
                 brought_asked, origin, wire_spent>>

WireNext ==
  /\ host = "wire"
  /\ Call \/ CallAuthorized \/ PersonApproves \/ CallReturns \/ CallFails
=============================================================================

-------------------------------- MODULE HookHost --------------------------------
(***************************************************************************)
(* An agent whose tool calls pass through a hook (cli-harness: cc_hook.rs, *)
(* agy_hook.rs, hostkit.rs; harness-preview: host.rs).  For every call the *)
(* host starts a hook process, which judges it with the world, writes the  *)
(* session's files and answers; then the host runs its own tool, or not.   *)
(* Hooks that overlap, and their deaths, are HookSession's; here one call  *)
(* follows the other and a write may fail.                                 *)
(***************************************************************************)
EXTENDS HostWorld

CONSTANTS
  HookHosts,   \* the hosts that call a hook: "claude", "agy"
  HookCalls,   \* of every hook host and manifest, the calls its model may propose: tool
               \* and arguments in the host's spelling, and the file its tool opens
  LowerCase,   \* of the tool names that are not in lower case, the name that is
  MaxCalls     \* bound: calls in a session

\* The host's names of arguments, and the neutral ones.
ALIASES == <<<<"CommandLine", "command">>, <<"AbsolutePath", "path">>, <<"TargetFile", "path">>,
             <<"FilePath", "path">>, <<"Url", "url">>>>

\* A hook is given an object of arguments (external: the hosts' hook protocols).
ASSUME HooksAssumption ==
  /\ \A i \in DOMAIN ALIASES : ALIASES[i] \in Name \X Name
  /\ HookHosts \subseteq {"claude", "agy"}
  /\ \A h \in Hosts \cap HookHosts, m \in Validated : \A call \in HookCalls[h][m] :
       IsCall(call) /\ is(call.arguments, "obj")
  /\ \A tool \in DOMAIN LowerCase : LowerCase[tool] \in Name

VARIABLES
  hook_mode, hook_source,      \* --mode, --source-channel
  enforce_absent, grant,       \* --enforce-absent, --grant
  soft_ask,                    \* --soft-ask (agy)
  tainted,     \* the taint marker of the session exists
  usage_file,  \* the usage sidecar: its counters; none when it does not parse
  told,        \* the call the host holds with the hook's answer, if any
  using,       \* the call whose tool is running in the host, if any
  proposed,    \* the number of calls so far
  damaged,     \* history: a write left a sidecar that does not parse
  ingested,    \* history: the session was given the result of an untrusted source
  hook_spent,  \* history: what the calls that were let through count
  replayed     \* the session as replay-transcripts carries it over the calls so far:
               \* none once a file of the session could not be written

hook_vars == <<hook_mode, hook_source, enforce_absent, grant, soft_ask, tainted, usage_file, told,
               using, proposed, damaged, ingested, hook_spent, replayed>>
hook_flags == <<hook_mode, hook_source, enforce_absent, grant, soft_ask>>

HookSetting(choices) == IF host \in HookHosts THEN choices ELSE {CHOOSE c \in choices : TRUE}

HookInit ==
  /\ hook_mode \in HookSetting({"interactive", "background"})
  /\ hook_source \in HookSetting({"user_prompt", "mcp_output"})
  /\ enforce_absent \in HookSetting(BOOLEAN)
  /\ grant \in HookSetting(BOOLEAN)
  /\ soft_ask \in Setting("agy", BOOLEAN)
  /\ tainted = FALSE
  /\ usage_file = {NoUsage}
  /\ told = {}
  /\ using = {}
  /\ proposed = 0
  /\ damaged = FALSE
  /\ ingested = FALSE
  /\ hook_spent = NewUsage
  /\ replayed = IF host = "claude" THEN {[tainted |-> FALSE, usage |-> NoUsage]} ELSE {}

-----------------------------------------------------------------------------
(* The request of a hook.                                                  *)

\* The host's argument names become the neutral ones; one that is there already
\* is not overwritten, nor by a later name of the host for the same.
alias_neutral_args(args) ==
  LET sent == {i \in DOMAIN ALIASES : ALIASES[i][1] \in DOMAIN args}
      kept == DOMAIN args \ {ALIASES[i][1] : i \in sent}
      first(k) == CHOOSE i \in sent : /\ ALIASES[i][2] = k
                                     /\ \A j \in sent : ALIASES[j][2] = k => i <= j
  IN  [k \in kept \cup {ALIASES[i][2] : i \in sent} |->
         IF k \in kept THEN args[k] ELSE args[ALIASES[first(k)][1]]]

normalize_tool(tool) ==
  IF tool \in world.ontology \/ tool \notin DOMAIN LowerCase THEN tool
  ELSE IF LowerCase[tool] \in world.ontology THEN LowerCase[tool]
  ELSE tool

PATH_KEYS == <<"file_path", "path", "notebook_path">>

\* The absolute path that a call names: the first path key that holds a text.
named_path(args) ==
  LET held == {i \in DOMAIN PATH_KEYS : /\ PATH_KEYS[i] \in DOMAIN args
                                        /\ is(args[PATH_KEYS[i]], "str")}
      first == CHOOSE i \in held : \A j \in held : i <= j
      joined(raw) == IF raw = <<"~">> THEN Home
                     ELSE IF raw # <<>> /\ Head(raw) = "~" THEN {h \o Tail(raw) : h \in Home}
                     ELSE IF raw # <<>> /\ Head(raw) = "" THEN {raw}
                     ELSE {b \o raw : b \in Base}
  IN  IF held = {} THEN {} ELSE joined(args[PATH_KEYS[first]].str)

\* The path of a file action, judged where it leads.
resolve_action_path(args) == UNION {canonicalize_action_path(p) : p \in named_path(args)}

hook_args(call) == IF host = "agy" THEN alias_neutral_args(call.arguments.obj)
                   ELSE call.arguments.obj

hook_request(call) ==
  [tool |-> normalize_tool(call.tool), arguments |-> Obj(hook_args(call)),
   path |-> resolve_action_path(hook_args(call)),
   mode |-> {hook_mode}, taint |-> {IF tainted THEN "tainted" ELSE "clean"},
   source_channel |-> {hook_source}, usage |-> usage_file, flow |-> {}]

-----------------------------------------------------------------------------
(* The answer of a hook.                                                   *)

host_outcome(decision) ==
  CASE decision = "Allow" -> "proceed"
    [] decision = "Ask" -> "needs_approval"
    [] OTHER -> decision

\* "silent" leaves the call to the host's own permission flow.
hook_answer(decision) ==
  CASE host_outcome(decision) = "proceed" -> IF grant THEN "allow" ELSE "silent"
    [] host_outcome(decision) = "needs_approval" -> IF soft_ask THEN "ask_cached" ELSE "ask"
    [] host_outcome(decision) = "Absent" -> IF enforce_absent THEN "deny" ELSE "silent"
    [] host_outcome(decision) = "Replan" -> "silent"
    [] OTHER -> "deny"

-----------------------------------------------------------------------------
(* The session read again from its transcript (replay_transcripts.rs).     *)

\* The request and the gate are the hook's; the taint and the counters are those of
\* the calls replayed before.
transcript_call(s, call) ==
  LET res == gate(world, [hook_request(call) EXCEPT
                            !.taint = {IF s.tainted THEN "tainted" ELSE "clean"},
                            !.usage = {s.usage}], FALSE)
  IN  [tainted |-> s.tainted \/ res.taint = "Tainted", usage |-> res.usage]

-----------------------------------------------------------------------------
(* A hook process.                                                         *)

\* Create may fail, which changes nothing, or the write after it, or only the sync.
persist_usage(usage) == {usage_file, {}, {usage}}

Answered(call, res, text) ==
  /\ told' = {[call |-> call, args |-> hook_args(call), action |-> res.action,
               decision |-> res.decision, answer |-> text]}
  /\ proposed' = proposed + 1
  /\ UNCHANGED <<hook_flags, using, ingested>>

\* The counters cannot be recorded: the call is refused.
RefusedUncounted(call, res) ==
  /\ usage_file # {res.usage}
  /\ usage_file' \in persist_usage(res.usage)
  /\ damaged' = (damaged \/ usage_file' = {})
  /\ replayed' = {}
  /\ UNCHANGED <<tainted, hook_spent>>
  /\ Answered(call, res, "deny")

\* The taint cannot be recorded, though the marker may be there: refused, and
\* charged by then.
RefusedUntracked(call, res) ==
  /\ res.taint = "Tainted" /\ ~tainted
  /\ usage_file' = {res.usage}
  /\ tainted' \in BOOLEAN
  /\ replayed' = {}
  /\ UNCHANGED <<damaged, hook_spent>>
  /\ Answered(call, res, "deny")

\* Both are recorded before the answer.
Judged(call, res) ==
  /\ usage_file' = {res.usage}
  /\ tainted' = (tainted \/ res.taint = "Tainted")
  /\ hook_spent' = IF res.decision = "Allow" THEN Spent(hook_spent, res.action) ELSE hook_spent
  /\ replayed' = {transcript_call(s, call) : s \in replayed}
  /\ UNCHANGED damaged
  /\ Answered(call, res, hook_answer(res.decision))

HookDecides(call, res) ==
  /\ told = {} /\ using = {} /\ proposed < MaxCalls
  /\ RefusedUncounted(call, res) \/ RefusedUntracked(call, res) \/ Judged(call, res)

-----------------------------------------------------------------------------
(* The host and the person in front of it (external).                      *)

\* An explicit "allow", or the host's own flow; "ask" reaches a person, who says
\* yes, or one who said "always" before.
Consents(a) ==
  CASE a.answer = "ask" -> {TRUE}
    [] a.answer = "ask_cached" -> BOOLEAN
    [] OTHER -> {FALSE}

HostRuns ==
  \E a \in told :
    /\ a.answer # "deny"
    /\ \E yes \in Consents(a) :
         using' = {[action |-> a.action, asked |-> a.args, args |-> a.args, consent |-> yes,
                    path |-> a.call.path, decision |-> a.decision]}
    /\ told' = {}
    /\ UNCHANGED <<hook_flags, tainted, usage_file, proposed, damaged, ingested, hook_spent,
                   replayed>>

\* Denied, or the person or the host's own rules say no.
HostSkips ==
  /\ told # {}
  /\ told' = {}
  /\ UNCHANGED <<hook_flags, tainted, usage_file, using, proposed, damaged, ingested, hook_spent,
                   replayed>>

\* The result of an allowed call is one the hook knew of.
ToolReturns ==
  \E r \in using :
    /\ using' = {}
    /\ ingested' = (ingested \/ (r.decision = "Allow" /\ Foreign(r)))
    /\ UNCHANGED <<hook_flags, tainted, usage_file, told, proposed, damaged, hook_spent, replayed>>

HookNext ==
  /\ host \in HookHosts
  /\ \/ \E call \in HookCalls[host][manifest] :
          HookDecides(call, gate(world, hook_request(call), FALSE))
     \/ HostRuns \/ HostSkips \/ ToolReturns
=============================================================================

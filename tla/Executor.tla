-------------------------------- MODULE Executor --------------------------------
(***************************************************************************)
(* The execution boundary (executor: lib.rs, fs_guard.rs, handlers): what  *)
(* an ExecutionSpec does when it is run.  A run is a set of possible       *)
(* results, for the world outside may fail.                                *)
(*                                                                         *)
(* A path is the sequence of its segments, "" first when it is absolute. A *)
(* URL is the sequence of its symbols: scheme, user, "@", host, ":", port, *)
(* "/", and so on.                                                         *)
(***************************************************************************)
EXTENDS Integers, SequencesExt

CONSTANTS
  Registry,       \* of every registered action, "current", or "drifted" when it was
                  \* registered under the descriptor of another world
  Confined,       \* whether commands need a sandbox (Confinement::Required)
  Cwd, Readable, Writable,   \* the working directory and the roots of the spec
  Files,          \* the canonical paths that exist
  Links,          \* of every symbolic link, the canonical path it points to
  Schemes,        \* the symbols that end in "://"
  Canonical,      \* of every host symbol, the name in lower case without end dots
  Subdomains,     \* the pairs <<host, entry>> of a host and a ".suffix" entry over it
  LocalTargets    \* the hosts that are loopback, link-local or private

\* A file has a name and is in a folder, and so is a link, which is no file of its own.
ASSUME FileSystemAssumption ==
  /\ <<"">> \in Files /\ Files \subseteq Seq(STRING) /\ DOMAIN Links \subseteq Seq(STRING)
  /\ \A p \in (Files \ {<<"">>}) \cup DOMAIN Links :
       Len(p) > 1 /\ Last(p) \notin {"", ".", ".."} /\ Front(p) \in Files
  /\ Files \cap DOMAIN Links = {} /\ \A q \in DOMAIN Links : Links[q] \in Seq(STRING)
  /\ {Cwd} \cup Readable \cup Writable \subseteq Seq(STRING)

-----------------------------------------------------------------------------
(* fs_guard.rs                                                             *)

\* One segment on from a canonical path; nothing if there is nothing.
Follow(d, seg) ==
  LET q == Append(d, seg)
  IN  CASE seg \in {"", "."} -> {d}
        [] seg = ".." -> {IF Len(d) > 1 THEN Front(d) ELSE d}
        [] OTHER -> {IF q \in DOMAIN Links THEN Links[q] ELSE q} \cap Files

\* Where the first segments of a path lead, for any number of them.
Followed(path) ==
  LET at[n \in 0 .. Len(path)] ==
        IF n = 0 THEN {<<"">>} ELSE UNION {Follow(d, path[n]) : d \in at[n - 1]}
  IN  at

\* Follows every link; nothing if some part does not exist.
canonicalize(path) == Followed(path)[Len(path)]

\* lstat of the last part.
is_symlink_leaf(path) ==
  \E d \in canonicalize(Front(path)) : Append(d, Last(path)) \in DOMAIN Links

\* A file that does not exist yet is pinned to its directory.
resolve(path) ==
  IF canonicalize(path) # {} THEN canonicalize(path)
  ELSE IF Len(path) < 2 \/ Last(path) = ".." \/ is_symlink_leaf(path) THEN {}
  ELSE {Append(d, Last(path)) : d \in canonicalize(Front(path))}

contained(target, roots) ==
  LET joined == IF Head(target) = "" THEN target ELSE Cwd \o target
  IN  {p \in resolve(joined) : \E root \in roots : \E r \in resolve(root) : IsPrefix(r, p)}

\* Where a write to a resolved path ends up: a link is followed (external).
Lands(path) == IF path \in DOMAIN Links THEN Links[path] ELSE path

-----------------------------------------------------------------------------
(* handlers/web.rs                                                         *)

upto(text, stops) ==
  LET at == SelectInSeq(text, LAMBDA s : s \in stops)
  IN  IF at = 0 THEN text ELSE SubSeq(text, 1, at - 1)
after(text, sep) ==
  LET at == SelectLastInSeq(text, LAMBDA s : s = sep)
  IN  SubSeq(text, at + 1, Len(text))

\* The host of a URL: the authority after the last "@", without the port.
host_of(url) ==
  IF url = <<>> \/ Head(url) \notin Schemes THEN {}
  ELSE LET name == upto(after(upto(Tail(url), {"/", "?", "#"}), "@"), {":"})
       IN  {Canonical[s] : s \in {t \in DOMAIN Canonical : name = <<t>>}}

host_matches(name, entry) == name = entry \/ <<name, entry>> \in Subdomains

\* A local target must be named itself.
check_egress(url, allowed) ==
  \E name \in host_of(url) :
    /\ \E entry \in allowed : host_matches(name, entry)
    /\ name \in LocalTargets => name \in allowed

-----------------------------------------------------------------------------
(* Executor::run.  A result says whether the call came back with output,   *)
(* the text that describes the output (orchestrator.rs: describe_output),  *)
(* and what was done: files written, URLs fetched.                         *)

Failure == [ok |-> FALSE, text |-> <<>>, wrote |-> {}, fetched |-> {}]
Output(text) == [Failure EXCEPT !.ok = TRUE, !.text = text]

\* Reads a file under any root of the spec.
ReadHandler(o) ==
  {Failure} \cup {Output(<<"read">>) : p \in contained(o.path, Readable \cup Writable)}
ReadHandler_simulate(o) == {Output(<<"simulated">> \o o.path)}

\* Writes a file under a writable root, where a link may be followed; and may fail
\* after it wrote.
PatchHandler(o) ==
  {Failure} \cup
    UNION {{[Output(<<"wrote">> \o p) EXCEPT !.wrote = {Lands(p)}],
            [Failure EXCEPT !.wrote = {Lands(p)}]} : p \in contained(o.path, Writable)}
PatchHandler_simulate(o) ==
  {IF contained(o.path, Writable) = {} THEN Failure ELSE Output(<<"simulated">> \o o.path)}

\* Starts a process, which needs a sandbox unless the handler was built without.
CommandHandler == {Failure} \cup IF Confined THEN {} ELSE {Output(<<"exit">>)}
CommandHandler_simulate(o) == {Output(<<"simulated">> \o FlattenSeq(o.argv))}

\* Fetches a URL, or fails after it did.
WebHandler(o, network) ==
  {Failure} \cup
    IF ~check_egress(o.url, network) THEN {}
    ELSE {[Output(<<"web:">> \o o.url) EXCEPT !.fetched = {o.url}],
          [Failure EXCEPT !.fetched = {o.url}]}
WebHandler_simulate(o, network) ==
  {IF check_egress(o.url, network) THEN Output(<<"simulated">> \o o.url) ELSE Failure}

McpHandler(o) == {Failure, Output(<<"mcp:", o.server, o.tool>>)}
McpHandler_simulate(o) == {Output(<<"simulated", o.server, o.tool>>)}

execute(o, network) ==
  CASE o.op = "read" -> ReadHandler(o)
    [] o.op = "patch" -> PatchHandler(o)
    [] o.op = "argv" -> CommandHandler
    [] o.op = "fetch" -> WebHandler(o, network)
    [] o.op = "mcp" -> McpHandler(o)

\* Nothing is done, but what would be refused is refused.
simulate(o, network) ==
  CASE o.op = "read" -> ReadHandler_simulate(o)
    [] o.op = "patch" -> PatchHandler_simulate(o)
    [] o.op = "argv" -> CommandHandler_simulate(o)
    [] o.op = "fetch" -> WebHandler_simulate(o, network)
    [] o.op = "mcp" -> McpHandler_simulate(o)

\* A closed registry, and no handler behind a descriptor that changed.
refuses(spec) == spec.action \notin DOMAIN Registry \/ Registry[spec.action] = "drifted"

run(spec) ==
  IF refuses(spec) THEN {Failure}
  ELSE IF spec.effect_mode \in {"Execute", "Truncate"} THEN execute(spec.operation, spec.network)
  ELSE IF spec.effect_mode = "Simulate" THEN simulate(spec.operation, spec.network)
  ELSE {Failure}

\* Whether a process is started for it: no command is executed without a sandbox
\* unless the handler was built to (Confinement).
spawns(spec) ==
  /\ ~refuses(spec) /\ spec.effect_mode \in {"Execute", "Truncate"}
  /\ spec.operation.op = "argv" /\ ~Confined
=============================================================================

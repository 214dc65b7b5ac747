-------------------------------- MODULE MCHosts --------------------------------
(***************************************************************************)
(* Two worlds, one with an MCP surface and one of local actions, and a     *)
(* manifest that does not validate.                                        *)
(***************************************************************************)
EXTENDS Hosts

CONSTANTS i1, i2

t(word) == Str(<<word>>)
Text == [type |-> {"string"}]
Schema(props, need) == [type |-> {"object"}, properties |-> props, required |-> need]
Args(f) == Obj(f)

NoBudget == [max_commands_per_task |-> {}, max_network_calls |-> {}, max_file_writes |-> {},
             max_tokens_per_session |-> {}, command_timeout_ms |-> {}]
Action(name, type, effect, schema) ==
  [name |-> name, action_type |-> type, side_effect |-> effect, schema |-> schema,
   arg_constraints |-> Empty, arg_roles |-> Empty, backing |-> {},
   approval_required |-> FALSE, projected |-> TRUE, flow_contract |-> {}]
Mcp(tool) == {[kind |-> "mcp", server |-> "notes", tool |-> tool]}
Sends2 == Schema([key |-> Text, body |-> Text], {"key"})
Roles == [key |-> "Target", body |-> "Content"]
Sink(arg, integrity, confidentiality) ==
  [arg |-> arg, integrity |-> integrity, confidentiality |-> confidentiality]
Source(from) == [from |-> from, as |-> {}, one_of |-> {}, prefix |-> {}, value |-> Null, key |-> ""]

Everything == {"Read", "Write", "Patch", "Command", "Pty", "Mcp", "Web", "Memory"}
Trusts2 == <<[trust |-> "Trusted", actions |-> Everything],
             [trust |-> "Untrusted", actions |-> {"Read", "Mcp"}]>>

\* A world in front of an MCP server.
Surface ==
  [channels |-> <<>>,
   base_actions |-> <<
     [Action("list", "Read", "Read", Schema(Empty, {})) EXCEPT !.backing = Mcp("list")],
     [Action("note", "Mcp", "PersistentWrite", Schema(Empty, {})) EXCEPT !.backing = Mcp("note")],
     [Action("secret", "Read", "Read", Schema(Empty, {})) EXCEPT
        !.flow_contract = {[output |-> {{"Private"}}, inherits |-> {}, sinks |-> <<>>]}],
     [Action("digest", "Read", "Read", Schema([body |-> Text], {"body"})) EXCEPT
        !.flow_contract = {[output |-> {}, inherits |-> {"body"}, sinks |-> <<>>]}],
     [Action("post", "Mcp", "External", Sends2) EXCEPT
        !.backing = Mcp("post"), !.arg_roles = Roles],
     [Action("publish", "Mcp", "External", Sends2) EXCEPT
        !.backing = Mcp("publish"), !.arg_roles = Roles,
        !.flow_contract = {[output |-> {}, inherits |-> {},
                            sinks |-> <<Sink("body", {}, {"Public"}), Sink("key", {"Trusted"}, {})>>]}],
     [Action("remember", "Mcp", "PersistentWrite", Sends2) EXCEPT
        !.backing = Mcp("remember"), !.approval_required = TRUE],
     [Action("wipe", "Mcp", "External", Sends2) EXCEPT
        !.backing = Mcp("wipe"), !.projected = FALSE]>>,
   scoped_capabilities |-> <<
     [name |-> "comment", base_action |-> "wipe",
      args |-> [key |-> [Source("literal") EXCEPT !.value = t("ours")],
                body |-> [Source("input") EXCEPT !.as = {"text"}, !.prefix = {<<"ok">>}]]],
     [name |-> "memo", base_action |-> "remember",
      args |-> [key |-> [Source("literal") EXCEPT !.value = t("ours")],
                body |-> Source("actor")]],
     [name |-> "mine", base_action |-> "note",
      args |-> [owner |-> [Source("context") EXCEPT !.key = "user"]]]>>,
   mcp_surface |-> {[name |-> "notes", upstream |-> "notes"]},
   command_classes |-> <<>>, path_classes |-> <<>>,
   capabilities |-> Trusts2, transition_policies |-> <<>>, roots |-> {},
   budget |-> [NoBudget EXCEPT !.max_file_writes = {1}]]

\* A world of local actions over files, commands and the web.
Rule(path, access, taints) == [path |-> path, access |-> access, taint_source |-> taints]
Local ==
  [channels |-> <<>>,
   base_actions |-> <<
     Action("read_workspace", "Read", "Read", Schema([path |-> Text], {"path"})),
     Action("apply_patch", "Patch", "FilesystemWrite",
            Schema([path |-> Text, contents |-> Text], {"path"})),
     [Action("settings", "Patch", "FilesystemWrite",
             Schema([path |-> Text, contents |-> Text], {"path"})) EXCEPT
        !.approval_required = TRUE, !.backing = {[kind |-> "local", handler |-> "apply_patch"]}],
     Action("run_command", "Command", "Process", Schema([command |-> Text], {"command"})),
     [Action("git_push", "Command", "Network", Schema([command |-> Text], {"command"})) EXCEPT
        !.backing = {[kind |-> "local", handler |-> "run_command"]}],
     [Action("fetch_web", "Web", "Read", Schema([url |-> Text], {"url"})) EXCEPT
        !.backing = {}],
     [Action("send", "Web", "Network", Schema([url |-> Text], {"url"})) EXCEPT
        !.backing = {[kind |-> "local", handler |-> "fetch_web"]},
        !.arg_roles = [url |-> "Target"]]>>,
   scoped_capabilities |-> <<>>, mcp_surface |-> {},
   command_classes |-> <<
     [action |-> "run_command", arg |-> "command", default_to |-> {"git_push"},
      classes |-> {[to |-> "run_command", patterns |-> {<<"ls">>}]}]>>,
   path_classes |-> <<
     [to |-> "settings", from |-> {[action |-> "apply_patch", arg |-> "path"]},
      patterns |-> {<<"**", "conf">>}]>>,
   capabilities |-> Trusts2,
   transition_policies |->
     <<[from_taint |-> "Tainted", side_effect |-> "FilesystemWrite", decision |-> "Deny", rule |-> ""]>>,
   roots |-> {[default |-> "Deny",
               rules |-> <<Rule(<<".">>, "ReadWrite", FALSE),
                           Rule(<<".", "ro", "">>, "Read", FALSE),
                           Rule(<<"~", "in">>, "Read", TRUE)>>]},
   budget |-> [NoBudget EXCEPT !.max_commands_per_task = {1}, !.max_network_calls = {1}]]

\* The same without a class for what no pattern matches: it has no world.
NoDefault == [Local EXCEPT !.command_classes = <<[@[1] EXCEPT !.default_to = {}]>>]

MCManifests == [surface |-> Surface, local |-> Local, invalid |-> NoDefault]

Request(tool, args, path) == [tool |-> tool, arguments |-> Args(args), path |-> path]
File(p) == <<"", "w", p>>
SurfaceRequests ==
  {Request("list", Empty, {}), Request("secret", Empty, {}), Request("mine", Empty, {}),
   Request("wipe", [key |-> t("evil"), body |-> t("doc")], {})}
  \cup {Request("digest", [body |-> t(b)], {}) : b \in {"doc", "hi"}}
  \cup {Request("post", [key |-> t(k), body |-> t("doc")], {}) : k \in {"hi", "doc"}}
  \cup {Request("publish", [key |-> t(k), body |-> t(b)], {}) : k \in {"hi", "doc"}, b \in {"hi", "doc"}}
  \cup {Request("comment", a, {}) : a \in {[text |-> Str(<<"ok", "x">>)], [text |-> t("no")],
                                           [text |-> t("ok"), key |-> t("evil")]}}
  \cup {Request("memo", [body |-> t("doc")], {}), Request("read_workspace", Empty, {})}
LocalRequests ==
  {Request("read_workspace", [path |-> Str(p)], {p}) : p \in {File("a"), <<"", "home", "in", "f">>}}
  \cup {Request("apply_patch", [path |-> Str(p), contents |-> t("x")], {r}) :
          <<p, r>> \in {<<File("a"), File("a")>>, <<File("gone"), <<"", "out">>>>,
                        <<File("conf"), File("conf")>>,
                        <<<<"", "w", "ro", "b">>, <<"", "w", "ro", "b">>>>}}
  \cup {Request("run_command", [command |-> Str(c)], {}) :
          c \in {<<"ls">>, <<"ls", ";", "push">>}}
  \cup {Request("fetch_web", [url |-> Str(<<"https://", "docs", "@", h>>)], {}) : h \in {"evil", "docs"}}
  \cup {Request("send", [url |-> Str(<<"https://", h>>)], {}) : h \in {"docs", "local"}}

MCRequests == [surface |-> SurfaceRequests, local |-> LocalRequests]

\* What the model of an agent with hooks proposes, as its host spells it.
LowerCaseNames == [List |-> "list", Secret |-> "secret", Post |-> "post", Publish |-> "publish",
                   Read_Workspace |-> "read_workspace", Apply_Patch |-> "apply_patch",
                   Run_Command |-> "run_command", Fetch_Web |-> "fetch_web", Send |-> "send"]
Spelt(agy, tool) ==
  IF agy THEN tool ELSE CHOOSE n \in DOMAIN LowerCaseNames : LowerCaseNames[n] = tool
Arg(agy, host_name, neutral) == IF agy THEN host_name ELSE neutral
Opens == {<<"a">>, <<".", "link", "b">>, <<"~", "in", "f">>, <<"new", "conf">>,
          <<"ro", "..", "a">>, <<"new", "..", "ro", "b">>}
OpenedBy(p) == Reached(IF Head(p) = "~" THEN <<"", "home">> \o Tail(p) ELSE <<"", "w">> \o p)
HookCallsOf(agy, m) ==
  LET path == Arg(agy, "TargetFile", "path")
  IN  IF m = "surface"
      THEN {Request(Spelt(agy, tool), Empty, {}) : tool \in {"list", "secret"}}
           \cup {Request(Spelt(agy, tool), [key |-> t("hi"), body |-> t("hi")], {}) :
                   tool \in {"post", "publish"}}
      ELSE {Request(Spelt(agy, "read_workspace"), (path :> Str(o)), {OpenedBy(o)}) : o \in Opens}
           \cup {Request(Spelt(agy, "apply_patch"), (path :> Str(o)) @@ [contents |-> t("x")],
                         {OpenedBy(o)}) : o \in Opens \cup {<<"gone">>}}
           \cup {Request(Spelt(agy, "run_command"),
                         (Arg(agy, "CommandLine", "command") :> Str(c)), {}) :
                   c \in {<<"ls">>, <<"push">>}}
           \cup {Request(Spelt(agy, tool), (Arg(agy, "Url", "url") :> Str(<<"https://", "docs">>)), {}) :
                   tool \in {"fetch_web", "send"}}
           \cup {Request("Unknown", Empty, {})}
MCHookCalls == [h \in {"claude", "agy"} |->
                 [m \in {"surface", "local"} |-> HookCallsOf(h = "agy", m)]]

MCHosts_ == {"gateway", "wire", "agent", "claude", "agy", "logged"}
MCUpstream == {"list", "note", "post", "publish", "remember", "wipe"}
MCResults == {t("doc"), t("hi")}
MCUserRequest == {<<"send", "to", "https://", "docs">>}
MCRedactedKeys == {<<"text">>}
MCTrivial == {<<"x">>, <<"hi">>}

MCRegistry == [a \in {"list", "post", "comment", "memo", "remember", "read_workspace",
                      "apply_patch", "settings", "run_command", "git_push", "fetch_web", "send"} |->
                 IF a = "post" THEN "drifted" ELSE "current"]
Dir == <<"", "w">>
MCFiles == {<<"">>, Dir, File("a"), <<"", "w", "ro">>, <<"", "home">>, <<"", "home", "in">>,
            <<"", "home", "in", "f">>}
MCLinks == (File("gone") :> <<"", "out">>) @@ (File("link") :> <<"", "w", "ro">>)
MCCanonical == [docs |-> "docs", evil |-> "evil", local |-> "local"]
MCCwd == Dir
MCBase == {Dir}
MCHome == {<<"", "home", "">>}
MCRoots == {Dir}
MCNone == {}
MCInside == Empty
MCSubdomains == {<<"local", ".">>}
MCAllowedHosts == {"docs", "."}

\* Two hooks with and without an observer; one, and one whose host sends no ids.
MCLogSettings ==
  [surface |-> {<<2, TRUE, TRUE>>, <<1, TRUE, FALSE>>},
   local |-> {<<2, FALSE, TRUE>>, <<1, TRUE, TRUE>>}]
=============================================================================

---------------------------------- MODULE Setup ----------------------------------
(***************************************************************************)
(* `harness init`: how a project (init.rs), an account and a machine       *)
(* (init_machine.rs) come to be governed, and stop being it.               *)
(*                                                                         *)
(* Each scope has a world, a shim that execs a kernel, and an entry in a   *)
(* settings file that is somebody else's; a project that is the home       *)
(* directory shares that file with the account.  An installer plans        *)
(* everything, reading only, and then replaces file by file; it may die or *)
(* fail after any of them.  Between two installers anybody may change      *)
(* anything.  What Claude Code makes of the files is external: it runs the *)
(* hooks of every scope, and takes one that is missing or does not start   *)
(* for no answer (docs/machine-wide-governance.md).                        *)
(***************************************************************************)
EXTENDS Filtered

CONSTANTS
  Documents,   \* what a person may leave in a settings file
  Original,    \* those that may be there at first, none with hooks of ours
  MaxInstalls, MaxChanges   \* bounds: runs of an installer, changes by others

VARIABLES
  at_home,     \* the project is the home directory
  settings,    \* of every scope, the document in its settings file
  shim,        \* of every scope, its shim, if there is one
  manifest,    \* of every scope, what its world file holds
  last_good,   \* of every scope, whose world its cache holds: "none", "own", "other"
  kernel,      \* of every kernel binary, what is there
  ignored,     \* the state directory is in the project's .gitignore
  switches,    \* the switch files that exist
  env,         \* HARNESS_BIN, if there is a bash, and if CLAUDE_PROJECT_DIR is
               \* another folder where doctor runs
  setup,       \* what the installer is doing
  installs, changes,   \* history: how many there were
  promised,    \* history: the scopes an installer called governed, with nothing in
               \* the way, while nobody touched anything but installers
  touched,     \* history: somebody touched something that installers look after
  given,       \* history: of every settings file, the document its owner left there
  lost         \* history: the settings files that were replaced unread

machine == <<at_home, settings, shim, manifest, last_good, kernel, ignored, switches, env>>
told == <<promised, touched, given, lost>>
setup_vars == <<machine, setup, installs, changes, told>>

Scopes == {"project", "user", "managed"}
Observers == {"PostToolUse", "PostToolUseFailure"}
Events == Observers \cup {"PreToolUse"}
Folders == {"project", "elsewhere"}
Tools == {"Bash", "Write"}

-----------------------------------------------------------------------------
(* A settings document: what can be made of the text, its hooks, the       *)
(* disableAllHooks key, and whether the file is a symbolic link.  A        *)
(* command runs the shim of a scope, in today's form or an older one, or   *)
(* it is somebody else's.                                                  *)

Command(runs, form) == [runs |-> runs, form |-> form]
hook_command(scope) == Command(scope, "now")

\* HOOK_MARKER: any shim, of any scope.
marked(command) == command.runs \in Scopes

Entry(matcher, hooks) == [matcher |-> matcher, hooks |-> hooks]
carries(entry) == \E j \in DOMAIN entry.hooks : marked(entry.hooks[j])

Commands == [runs : Scopes \cup {"other"}, form : {"now", "old"}]
\* "" is no matcher at all.
MatcherForms == {"*", "", "other"} \cup Tools
Entries == [matcher : MatcherForms, hooks : Seq(Commands)]
SettingsDocuments ==
  [kind : {"missing", "valid", "garbled", "odd", "unreadable"}, hooks : [Events -> Seq(Entries)],
   off : BOOLEAN, link : BOOLEAN]

Missing == [kind |-> "missing", hooks |-> [e \in Events |-> <<>>], off |-> FALSE, link |-> FALSE]

\* Our commands are rewritten where they are.
upgrade(entries, command) ==
  [i \in DOMAIN entries |->
     [entries[i] EXCEPT !.hooks = [j \in DOMAIN @ |-> IF marked(@[j]) THEN command ELSE @[j]]]]

\* An entry for every tool is added unless one of ours is there.
merge_settings(entries, command) ==
  LET up == upgrade(entries, command)
  IN  IF \E i \in DOMAIN up : carries(up[i]) /\ up[i].matcher = "*" THEN up
      ELSE Append(up, Entry("*", <<command>>))

merge_observer(entries, command) ==
  LET up == upgrade(entries, command)
  IN  IF \E i \in DOMAIN up : carries(up[i]) THEN up
      ELSE Append(up, Entry("*", <<command>>))

\* The merged document, if there is one.  A file that cannot be read is taken for
\* one that is not there.
merged(doc, command) ==
  LET from == IF doc.kind = "unreadable" THEN Missing ELSE doc
  IN  IF doc.kind \in {"garbled", "odd"} THEN {}
      ELSE {[from EXCEPT !.kind = "valid",
                         !.hooks = [e \in Events |-> IF e = "PreToolUse"
                                                     THEN merge_settings(@[e], command)
                                                     ELSE merge_observer(@[e], command)]]}

ours(command, scope) == command.runs = scope

without(commands, scope) == Filtered(commands, {j \in DOMAIN commands : ~ours(commands[j], scope)})
with_hooks(entries) == Filtered(entries, {i \in DOMAIN entries : entries[i].hooks # <<>>})

\* Variant: the entry goes with the command.
unmerge_event_Entry(entries, scope) ==
  Filtered(entries, {i \in DOMAIN entries :
                       \A j \in DOMAIN entries[i].hooks : ~ours(entries[i].hooks[j], scope)})

\* The commands go that run this scope's shim, and the entries that are empty then.
unmerge_event(entries, scope) ==
  with_hooks([i \in DOMAIN entries |-> [entries[i] EXCEPT !.hooks = without(@, scope)]])

unmerge_settings(doc, scope) == [doc EXCEPT !.hooks = [e \in Events |-> unmerge_event(@[e], scope)]]

registers(doc, scope) ==
  \E e \in Events : \E i \in DOMAIN doc.hooks[e] : \E j \in DOMAIN doc.hooks[e][i].hooks :
    ours(doc.hooks[e][i].hooks[j], scope)

ASSUME DocumentsAssumption ==
  /\ Documents \subseteq SettingsDocuments /\ Original \subseteq SettingsDocuments
  /\ \A doc \in Original, s \in Scopes : ~registers(doc, s)

-----------------------------------------------------------------------------
(* What Claude Code makes of it (external).                                *)

\* In the home directory the project's settings file is the account's.
SettingsFile(scope) == IF scope = "project" /\ at_home THEN "user" ELSE scope

Loaded(folder) == {"user", "managed"} \cup (IF folder = "project" THEN {SettingsFile("project")} ELSE {})

\* disableAllHooks does not reach the hooks of the managed file from another one.
Disabled(scope, folder) ==
  \/ settings["managed"].off
  \/ scope # "managed" /\ \E f \in Loaded(folder) : settings[f].off

Covers(entry, tool) == entry.matcher \in {"*", "", tool}

\* The host runs the shim of this scope for a call of the tool in that folder.
Runs(scope, folder, tool) ==
  /\ ~Disabled(scope, folder)
  /\ \E f \in Loaded(folder) : \E i \in DOMAIN settings[f].hooks["PreToolUse"] :
       LET entry == settings[f].hooks["PreToolUse"][i]
       IN  Covers(entry, tool) /\ \E j \in DOMAIN entry.hooks : ours(entry.hooks[j], scope)

-----------------------------------------------------------------------------
(* What the shim makes of a call.                                          *)

Shim(scope, bin) ==
  [bin |-> IF scope = "managed" THEN "copy" ELSE bin, text |-> "init",
   mode |-> IF scope = "managed" THEN "closed" ELSE "last-good"]

off_files(scope) ==
  CASE scope = "project" -> {"project_off", "global"}
    [] scope = "user" -> {"user_off", "global"}
    [] scope = "managed" -> {}

\* The kernel that the shim execs: HARNESS_BIN, unless the scope is managed, or
\* the one baked into it.
Execs(scope, bin) ==
  IF scope # "managed" /\ env.harness_bin # "unset" THEN env.harness_bin ELSE kernel[bin]

Compiles(text) == text \in {"starter", "tuned"}

\* A project's shim looks for the world in the folder of the session.
World(scope, folder) == IF scope = "project" /\ folder # "project" THEN "none" ELSE manifest[scope]
Cache(scope, folder) == IF scope = "project" /\ folder # "project" THEN "none" ELSE last_good[scope]

\* Who decides the call: the scope's own world, the last one that compiled, a
\* refusal of every call; or nobody, and it passes.  Somebody may have edited the
\* shim, so that it runs all the same, exits early, or names another world.
ShimAnswer(scope, folder) ==
  IF shim[scope] = {} \/ ~env.bash THEN "passes"
  ELSE LET s == CHOOSE x \in shim[scope] : TRUE
       IN  IF s.text \in {"unreadable", "exits"} \/ switches \cap off_files(scope) # {} THEN "passes"
           ELSE IF Execs(scope, s.bin) # "fine" THEN "passes"
           ELSE IF s.text = "astray" THEN "another"
           ELSE IF Compiles(World(scope, folder)) THEN "decided"
           ELSE IF s.mode = "open" THEN "passes"
           ELSE IF s.mode # "closed" /\ Cache(scope, folder) = "own" THEN "last"
           ELSE "refused"

-----------------------------------------------------------------------------
(* The installer.                                                          *)

Idle == [pc |-> "idle"]

\* Variant: the settings come before what they point to.
plan_SettingsFirst(scope, bin, force, doc) ==
  <<[what |-> "settings", doc |-> doc]>>
  \o (IF manifest[scope] = "none" \/ force THEN <<[what |-> "manifest"]>> ELSE <<>>)
  \o <<[what |-> "shim", shim |-> Shim(scope, bin)]>>
  \o (IF scope = "project" /\ ~ignored THEN <<[what |-> "gitignore"]>> ELSE <<>>)

\* What init writes, in order: the world unless there is one to keep, the shim,
\* the settings, and a project's .gitignore.
plan(scope, bin, force, doc) ==
  (IF manifest[scope] = "none" \/ force THEN <<[what |-> "manifest"]>> ELSE <<>>)
  \o <<[what |-> "shim", shim |-> Shim(scope, bin)]>>
  \o <<[what |-> "settings", doc |-> doc]>>
  \o (IF scope = "project" /\ ~ignored THEN <<[what |-> "gitignore"]>> ELSE <<>>)

Starts(scope, pc, bin, todo) ==
  setup' = [pc |-> pc, scope |-> scope, bin |-> bin, todo |-> todo, alone |-> TRUE,
            read |-> settings[SettingsFile(scope)]]

\* init plans.  It writes nothing if the settings cannot be merged or lead through
\* a link, or if its kernel lies in the project it would govern.
Install ==
  \E scope \in Scopes, force \in BOOLEAN, bin \in {"global", "local"} :
    LET doc == settings[SettingsFile(scope)]
    IN  /\ setup.pc = "idle" /\ installs < MaxInstalls
        /\ kernel[bin] = "fine"
        /\ scope = "project" /\ bin = "local" => force
        /\ ~doc.link
        /\ \E new \in merged(doc, hook_command(scope)) :
             Starts(scope, IF scope = "managed" THEN "copy" ELSE "write", bin,
                    plan(scope, bin, force, new))
        /\ installs' = installs + 1
        /\ UNCHANGED <<machine, changes, told>>

\* The managed kernel is overwritten where it is.
Copy ==
  /\ setup.pc = "copy"
  /\ kernel' = [kernel EXCEPT !["copy"] = "torn"]
  /\ setup' = [setup EXCEPT !.pc = "copied"]
  /\ UNCHANGED <<at_home, settings, shim, manifest, last_good, ignored, switches, env, installs, changes, told>>

Copied ==
  /\ setup.pc = "copied"
  /\ kernel' = [kernel EXCEPT !["copy"] = "fine"]
  /\ setup' = [setup EXCEPT !.pc = "write"]
  /\ UNCHANGED <<at_home, settings, shim, manifest, last_good, ignored, switches, env, installs, changes, told>>

Sharing(scope) == {s \in Scopes : SettingsFile(s) = SettingsFile(scope)} \ {scope}

\* apply: the next file is replaced.  In a settings file that scopes share, our
\* command is now this scope's.
ApplyOne ==
  /\ setup.pc = "write" /\ setup.todo # <<>>
  /\ setup' = [setup EXCEPT !.todo = Tail(@)]
  /\ LET s == setup.scope
         w == Head(setup.todo)
         file == SettingsFile(s)
     IN  /\ manifest' = IF w.what = "manifest" THEN [manifest EXCEPT ![s] = "starter"] ELSE manifest
         /\ shim' = CASE w.what = "shim" -> [shim EXCEPT ![s] = {w.shim}]
                      [] w.what = "no_shim" -> [shim EXCEPT ![s] = {}]
                      [] OTHER -> shim
         /\ ignored' = (ignored \/ w.what = "gitignore")
         /\ IF w.what = "settings"
            THEN /\ settings' = [settings EXCEPT ![file] = w.doc]
                 /\ promised' = promised \ Sharing(s)
                 /\ lost' = IF setup.read.kind = "unreadable" \/ settings[file] # setup.read
                            THEN lost \cup {file} ELSE lost
            ELSE UNCHANGED <<settings, promised, lost>>
  /\ UNCHANGED <<at_home, last_good, kernel, switches, env, installs, changes, touched, given>>

\* A write fails, or the installer dies: what is done is done.
Stops ==
  /\ setup.pc # "idle"
  /\ setup' = Idle
  /\ UNCHANGED <<machine, installs, changes, told>>

\* What init does not look at: hooks that are disabled, switches, HARNESS_BIN, a
\* world that it keeps.
Hindered(scope) ==
  \/ ~Compiles(manifest[scope])
  \/ switches \cap off_files(scope) # {}
  \/ ~env.bash
  \/ Execs(scope, IF scope = "managed" THEN "copy" ELSE setup.bin) # "fine"
  \/ \E folder \in Folders : Disabled(scope, folder)

\* It ends with 0, and init has said "Governed".
Finish ==
  /\ setup.pc = "write" /\ setup.todo = <<>>
  /\ setup' = Idle
  /\ promised' = IF setup.bin # "none" /\ setup.alone /\ ~Hindered(setup.scope)
                 THEN promised \cup {setup.scope} ELSE promised
  /\ UNCHANGED <<machine, installs, changes, touched, given, lost>>

\* init --remove, for an account or a machine: the entry, and then the shim.  The
\* world, the state and the managed kernel stay.
RemoveHook ==
  \E scope \in {"user", "managed"} :
    LET doc == settings[scope]
        there == doc.kind = "valid" /\ registers(doc, scope)
    IN  /\ setup.pc = "idle" /\ installs < MaxInstalls
        /\ doc.kind # "garbled"
        /\ there => ~doc.link
        /\ Starts(scope, "write", "none",
                  (IF there THEN <<[what |-> "settings", doc |-> unmerge_settings(doc, scope)]>>
                   ELSE <<>>)
                  \o (IF shim[scope] # {} THEN <<[what |-> "no_shim"]>> ELSE <<>>))
        /\ promised' = promised \ {scope}
        /\ installs' = installs + 1
        /\ UNCHANGED <<machine, changes, touched, given, lost>>

-----------------------------------------------------------------------------
(* Everybody else: the owners of the files, other programs, the sessions.  *)

Somebody ==
  /\ changes < MaxChanges /\ changes' = changes + 1
  /\ setup' = IF setup.pc = "idle" THEN setup ELSE [setup EXCEPT !.alone = FALSE]
  /\ promised' = {} /\ touched' = TRUE
  /\ UNCHANGED <<at_home, ignored, installs>>

EditsSettings ==
  \E file \in {SettingsFile(s) : s \in Scopes}, doc \in Documents :
    /\ Somebody
    /\ settings' = [settings EXCEPT ![file] = doc]
    /\ given' = [given EXCEPT ![file] = doc]
    /\ lost' = lost \ {file}
    /\ UNCHANGED <<shim, manifest, last_good, kernel, switches, env>>

\* A world is tuned, broken, deleted; a session remembers it, or the project with
\* its state is copied from elsewhere.
EditsWorld ==
  /\ Somebody
  /\ \/ \E s \in Scopes, text \in {"none", "tuned", "broken", "unreadable"} :
          /\ manifest' = [manifest EXCEPT ![s] = text]
          /\ last_good' = IF Compiles(manifest[s]) THEN [last_good EXCEPT ![s] = "own"] ELSE last_good
     \/ /\ last_good' = [last_good EXCEPT !["project"] = "other"]
        /\ UNCHANGED manifest
  /\ UNCHANGED <<settings, shim, kernel, switches, env, given, lost>>

EditsShim ==
  \E s \in Scopes : \E old \in shim[s] :
    /\ Somebody
    /\ \E new \in {{}} \cup {{[old EXCEPT !.text = t]} : t \in {"other", "exits", "astray", "unreadable"}}
                       \cup {{[old EXCEPT !.mode = m]} : m \in {"open", "closed", "default"}} :
         shim' = [shim EXCEPT ![s] = new]
    /\ UNCHANGED <<settings, manifest, last_good, kernel, switches, env, given, lost>>

ChangesKernel ==
  \E bin \in DOMAIN kernel, state \in {"gone", "torn", "no_exec", "directory", "fine"} :
    /\ Somebody
    /\ kernel' = [kernel EXCEPT ![bin] = state]
    /\ UNCHANGED <<settings, shim, manifest, last_good, switches, env, given, lost>>

Switches == {"project_off", "user_off", "global", "legacy"}

ChangesSwitch ==
  \E s \in Switches :
    /\ Somebody
    /\ switches' = IF s \in switches THEN switches \ {s} ELSE switches \cup {s}
    /\ UNCHANGED <<settings, shim, manifest, last_good, kernel, env, given, lost>>

ChangesEnv ==
  /\ Somebody
  /\ \/ \E value \in {"unset", "relative", "fine", "no_exec"} :
          env' = [env EXCEPT !.harness_bin = value]
     \/ env' = [env EXCEPT !.bash = ~@]
     \/ env' = [env EXCEPT !.strayed = ~@]
  /\ UNCHANGED <<settings, shim, manifest, last_good, kernel, switches, given, lost>>

-----------------------------------------------------------------------------

SetupInit ==
  /\ at_home \in BOOLEAN
  /\ \E doc \in Original : settings = [s \in Scopes |-> IF s = "user" THEN doc ELSE Missing]
  /\ shim = [s \in Scopes |-> {}]
  /\ manifest = [s \in Scopes |-> "none"]
  /\ last_good = [s \in Scopes |-> "none"]
  /\ kernel = [bin \in {"global", "local", "copy"} |-> IF bin = "copy" THEN "gone" ELSE "fine"]
  /\ ignored = FALSE
  /\ switches = {}
  /\ env = [harness_bin |-> "unset", bash |-> TRUE, strayed |-> FALSE]
  /\ setup = Idle
  /\ installs = 0 /\ changes = 0
  /\ promised = {} /\ touched = FALSE
  /\ given = settings /\ lost = {}

SetupNext ==
  \/ Install \/ Copy \/ Copied \/ ApplyOne \/ Stops \/ Finish \/ RemoveHook
  \/ EditsSettings \/ EditsWorld \/ EditsShim \/ ChangesKernel \/ ChangesSwitch \/ ChangesEnv

-----------------------------------------------------------------------------

\* Once init has said that a scope is governed, with nothing in the way, its world
\* decides every call, whatever other installers do or leave half done, except
\* while the managed kernel is being replaced.  And a settings file that nobody
\* else touched never names a shim that is not there, or has no world
\* (init.rs: merge_settings, plan, apply; init_machine.rs: plan, remove).
CoverageKept ==
  /\ \A s \in promised : \A folder \in IF s = "project" THEN {"project"} ELSE Folders :
       \/ s = "managed" /\ kernel["copy"] = "torn"
       \/ /\ \A tool \in Tools : Runs(s, folder, tool)
          /\ ShimAnswer(s, folder) = "decided"
  /\ ~touched => \A s \in Scopes : registers(settings[SettingsFile(s)], s) =>
                   shim[s] # {} /\ manifest[s] # "none"

OthersIn(entries) ==
  UNION {{<<e.matcher, e.hooks[j]>> : j \in {k \in DOMAIN e.hooks : ~marked(e.hooks[k])}} :
           e \in {entries[i] : i \in DOMAIN entries}}

\* Of a settings file that installers have read before they replaced it, the owner
\* loses nothing: the hooks of others and the other keys stay as they were left,
\* and where nothing of ours is registered any more the entries are the owner's,
\* but for those that have no hooks (init.rs: merge_settings, merge_observers;
\* init_machine.rs: unmerge_settings).
DocumentKept ==
  \A f \in Scopes \ lost :
    /\ settings[f].off = given[f].off
    /\ \A e \in Events : OthersIn(settings[f].hooks[e]) = OthersIn(given[f].hooks[e])
    /\ (\A s \in Scopes : ~registers(settings[f], s) /\ ~registers(given[f], s)) =>
         \A e \in Events : with_hooks(settings[f].hooks[e]) = with_hooks(given[f].hooks[e])
=============================================================================

--------------------------------- MODULE Doctor ---------------------------------
(***************************************************************************)
(* `harness doctor`: what a reader of the files can say about the hook of  *)
(* the project it is run in, without running anything (doctor.rs,          *)
(* doctor_collector.rs).  Every section of the inspection adds findings;   *)
(* the worst of them is the installation's status.  Text, and findings     *)
(* that only inform, are left out: they change no status.                  *)
(***************************************************************************)
EXTENDS Setup

Finding(code, severity, affects) == [code |-> code, severity |-> severity, affects |-> affects]
Error(code) == Finding(code, "error", TRUE)
Warning(code) == Finding(code, "warning", TRUE)
Note(code) == Finding(code, "warning", FALSE)
FoundIf(condition, finding) == IF condition THEN {finding} ELSE {}

-----------------------------------------------------------------------------
(* The settings, and what is registered in them.                           *)

Inspected == settings[SettingsFile("project")]

inspect_settings ==
  CASE Inspected.kind = "missing" -> "missing"
    [] Inspected.kind = "unreadable" -> "unreadable"
    [] Inspected.kind \in {"garbled", "odd"} -> "invalid"
    [] OTHER -> "valid"

SettingsFindings ==
  FoundIf(inspect_settings = "missing", Error("CC_SETTINGS_MISSING"))
  \cup FoundIf(inspect_settings = "invalid", Error("CC_SETTINGS_INVALID"))
  \cup FoundIf(inspect_settings = "unreadable", Error("CC_SETTINGS_UNREADABLE"))

\* Every PreToolUse command, with its place and the matcher it is under.
HookRegistrations ==
  LET entries == Inspected.hooks["PreToolUse"]
  IN  UNION {{[entry |-> i, hook |-> j, matcher |-> entries[i].matcher, command |-> entries[i].hooks[j]] :
                j \in DOMAIN entries[i].hooks} : i \in DOMAIN entries}

Before(r, q) == r.entry < q.entry \/ (r.entry = q.entry /\ r.hook <= q.hook)

Several == \E r, q \in HookRegistrations : r # q
has_match_all == \E r \in HookRegistrations : r.matcher = "*"
narrow_matchers == {r.matcher : r \in HookRegistrations} \ {"*", ""}

\* extract_shim_path: the last command of today's form says where the shim is.
ShimPaths == {r \in HookRegistrations : marked(r.command) /\ r.command.form = "now"}
shim_path == {r.command.runs : r \in {q \in ShimPaths : \A p \in ShimPaths : Before(p, q)}}

RegistrationFindings ==
  IF HookRegistrations = {} THEN {Error("CC_PRETOOLUSE_MISSING")}
  ELSE FoundIf(~has_match_all /\ narrow_matchers # {}, Warning("CC_PRETOOLUSE_NARROW"))
       \cup FoundIf(has_match_all /\ Several, Note("CC_PRETOOLUSE_AMBIGUOUS"))
       \cup FoundIf(shim_path = {}, Error("CC_SHIM_UNSUPPORTED"))

-----------------------------------------------------------------------------
(* The shim, the bash and the kernel.                                      *)

\* recognize_shim takes any text for a project's shim that has its title, a quoted
\* TRUSTED_BIN, a line that tests the off files, and cc-hook: what else an edit
\* made of it does not show.
Recognizable == {"init", "exits", "astray"}
recognize_shim ==
  {s \in UNION {shim[scope] : scope \in shim_path} : s.text \in Recognizable /\ shim_path = {"project"}}

ShimFindings ==
  UNION {IF shim[scope] = {} THEN {Error("CC_SHIM_MISSING")}
         ELSE IF \E s \in shim[scope] : s.text = "unreadable" THEN {Error("CC_SHIM_UNREADABLE")}
         ELSE FoundIf(recognize_shim = {}, Warning("CC_SHIM_UNSUPPORTED")) : scope \in shim_path}

hook_status ==
  IF HookRegistrations = {} THEN "missing"
  ELSE IF shim_path = {} THEN "unsupported"
  ELSE IF Warning("CC_SHIM_UNSUPPORTED") \in ShimFindings THEN "unsupported"
  ELSE IF has_match_all /\ Several THEN "ambiguous"
  ELSE IF ~has_match_all /\ narrow_matchers # {} THEN "unsupported"
  ELSE IF recognize_shim # {} THEN "recognized" ELSE "unknown"

EnvironmentFindings ==
  FoundIf(env.strayed, Error("CC_SHIM_PROJECT_MISMATCH"))
  \cup FoundIf(~env.bash, Error("CC_INTERPRETER_MISSING"))

\* What a path leads to.  A file with the execute bit counts, whatever is in it.
resolve_path(there) ==
  [resolved |-> there \notin {"gone", "relative"},
   executable |-> IF there \in {"fine", "torn"} THEN {TRUE}
                  ELSE IF there = "no_exec" THEN {FALSE} ELSE {}]

\* Variant: the baked kernel is looked at, whatever the environment says.
harness_binary_Baked ==
  IF recognize_shim # {} THEN resolve_path(kernel[(CHOOSE s \in recognize_shim : TRUE).bin])
  ELSE resolve_path("gone")

\* The kernel that the hook would exec: HARNESS_BIN, or the one baked into the shim.
harness_binary ==
  IF env.harness_bin # "unset" THEN resolve_path(env.harness_bin)
  ELSE IF recognize_shim # {} THEN resolve_path(kernel[(CHOOSE s \in recognize_shim : TRUE).bin])
  ELSE resolve_path("gone")

hook_harness_status ==
  IF harness_binary.executable = {TRUE} THEN "found"
  ELSE IF ~harness_binary.resolved THEN "missing" ELSE "unknown"

\* A baked kernel that is there but cannot be executed is no finding.
BinaryFindings ==
  FoundIf(env.harness_bin # "unset" /\ harness_binary.executable # {TRUE},
          Error("CC_HARNESS_OVERRIDE_INVALID"))
  \cup FoundIf(hook_harness_status = "missing", Error("CC_EXECUTABLE_MISSING"))
  \cup FoundIf(env.harness_bin = "unset" /\ \E s \in recognize_shim : s.bin = "local",
               Note("CC_BINARY_IN_PROJECT"))

-----------------------------------------------------------------------------
(* The switches and the world.                                             *)

\* The old switch inside the project is looked at, though no shim of today does.
observe_kill_switches ==
  switches \cap ({"global", "legacy"} \cup IF recognize_shim # {} THEN {"project_off"} ELSE {})

reduce_kill_switches == IF observe_kill_switches # {} THEN "on" ELSE "off"

SwitchFindings ==
  FoundIf("legacy" \in observe_kill_switches, Note("CC_KILL_SWITCH_LEGACY"))
  \cup FoundIf(reduce_kill_switches = "on", Warning("CC_KILL_SWITCH_ENABLED"))

manifest_status ==
  CASE manifest["project"] = "none" -> "missing"
    [] manifest["project"] = "broken" -> "invalid"
    [] manifest["project"] = "unreadable" -> "unknown"
    [] OTHER -> "ok"

ManifestFindings ==
  FoundIf(manifest_status = "missing", Error("CC_MANIFEST_MISSING"))
  \cup FoundIf(manifest_status = "invalid", Error("CC_MANIFEST_INVALID"))
  \cup FoundIf(manifest_status = "unknown", Error("CC_MANIFEST_UNREADABLE"))

broken_world_mode ==
  IF recognize_shim = {} THEN "unknown"
  ELSE LET s == CHOOSE x \in recognize_shim : TRUE
       IN  IF s.mode = "default" THEN "last-good" ELSE s.mode

\* cached_last_good reads what is cached, not for which world.
cached_last_good == last_good["project"] # "none"

\* What the report says of the calls while the world does not compile.
BrokenWorld ==
  CASE broken_world_mode = "open" -> "passes"
    [] broken_world_mode = "last-good" /\ cached_last_good -> "last"
    [] broken_world_mode = "last-good" /\ ~cached_last_good -> "refused"
    [] broken_world_mode = "closed" -> "refused"
    [] OTHER -> "unknown"

BrokenWorldFindings ==
  IF manifest_status \notin {"invalid", "unknown"} THEN {}
  ELSE {IF BrokenWorld \in {"last", "unknown"} THEN Warning("CC_BROKEN_WORLD_MODE")
        ELSE Error("CC_BROKEN_WORLD_MODE")}

-----------------------------------------------------------------------------
(* The report.                                                             *)

findings ==
  UNION {SettingsFindings, RegistrationFindings, ShimFindings, EnvironmentFindings,
         BinaryFindings, SwitchFindings, ManifestFindings, BrokenWorldFindings}

\* The switch comes before what is broken.
installation_status(found) ==
  IF reduce_kill_switches = "on" THEN "disabled"
  ELSE IF \E f \in found : f.severity = "error" /\ f.affects THEN "broken"
  ELSE IF \E f \in found : f.severity = "warning" /\ f.affects THEN "partial"
  ELSE IF hook_status = "recognized" /\ inspect_settings = "valid" /\ manifest_status = "ok" THEN "ok"
  ELSE "unknown"

coverage_status(installation) ==
  CASE installation = "ok" -> "partial"
    [] installation \in {"broken", "disabled"} -> "none"
    [] OTHER -> "unknown"

reduce_exit_code_from_status(installation) ==
  CASE installation = "broken" -> 2
    [] installation \in {"disabled", "partial", "unknown"} -> 1
    [] OTHER -> 0

DoctorReport ==
  LET found == findings
      installation == installation_status(found)
  IN  [installation |-> installation,
       coverage |-> coverage_status(installation),
       exit_code |-> reduce_exit_code_from_status(installation),
       broken_world |-> broken_world_mode,
       findings |-> found]

-----------------------------------------------------------------------------

\* What no finding tells: hooks that a settings file disables, a kernel that is there
\* and does not start, and a shim that was edited and keeps what recognize_shim
\* looks for, though its comment says it knows the one of init exactly.
Unseen ==
  \/ Disabled("project", "project")
  \/ \E s \in recognize_shim : \/ s.text # "init"
                               \/ Execs("project", s.bin) \in {"torn", "no_exec", "directory"}

\* What the report says of the calls of this project is what happens to them: exit
\* code 0, that its world decides every one; while the world is broken, what is done
\* instead, if that world's own cache is there or none; "disabled", that they pass,
\* unless the switch is the old one (doctor.rs: inspect, its broken-world finding
\* and its reduction; the shim and broken_world.rs).
DoctorTruthful ==
  setup = Idle =>
    LET report == DoctorReport
        answer == ShimAnswer("project", "project")
    IN  /\ report.exit_code = 0 =>
             \/ Unseen
             \/ answer = "decided" /\ \A tool \in Tools : Runs("project", "project", tool)
        /\ /\ BrokenWorldFindings # {}
           /\ \A f \in report.findings : f.affects => f \in ManifestFindings \cup BrokenWorldFindings
           => Unseen \/ last_good["project"] = "other" \/ answer = BrokenWorld
        /\ report.installation = "disabled" =>
             answer = "passes" \/ switches \cap off_files("project") = {}
=============================================================================

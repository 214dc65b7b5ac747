------------------------------- MODULE WorldFiles -------------------------------
(***************************************************************************)
(* The files a project is governed by, and who shares them without a lock: *)
(* the world file, which the console rewrites (console.rs) and an editor   *)
(* too; the decision log, which holds the console's markers; and the cache *)
(* of the last world that compiled, which hooks fill and fall back to      *)
(* (broken_world.rs).  A hook process answers one call and is gone; one    *)
(* that is killed is one that takes no further step.                       *)
(*                                                                         *)
(* A world text is a record: the flags of every base action, the base      *)
(* actions that scoped capabilities narrow, and if it compiles.  What does *)
(* not even parse, or is not there, is Broken.  The console parses a world *)
(* and compiles only what it will write; a hook compiles what it reads.    *)
(* Files are replaced by a rename, so a reader gets one text or another    *)
(* (local_page.rs: write_atomically).                                      *)
(***************************************************************************)
EXTENDS Integers, Sequences

CONSTANTS
  Hooks,        \* the hook processes: one for each call the agent proposes
  Paths,        \* the world files whose hooks share a state directory
  Governed,     \* the one that the console serves
  Actions,      \* the base actions of every world here
  Effectful,    \* those whose side effect is neither None nor Read
  Broken,       \* a text that is no world at all
  First,        \* the world that every path holds at first
  Edits,        \* the texts an editor may write
  Changes,      \* what the page's profiles and switches set: positions of some actions
  MaxEdits, MaxRequests   \* bounds: edits, requests to the console

ASSUME FilesAssumption ==
  /\ Effectful \subseteq Actions
  /\ Governed \in Paths

VARIABLES
  world,     \* of every path, the text of the world file
  log,       \* the markers and the ABSENT verdicts of the decision log, in order
  cache,     \* last-good-world.json: a path and a text, if there is one
  mode,      \* the hooks' --on-broken-world
  console,   \* what the console is doing
  hook,      \* what every hook process is doing
  edits, requests,         \* history: how many there were
  compiled,  \* history: of every path, the texts a hook read there and compiled
  replaced,  \* history: the flags that the last Stop replaced in the file
  unkept,    \* history: no marker of that Stop keeps them
  fresh      \* history: the hooks that read the governed file as it is now

files == <<world, log, cache>>
counters == <<edits, requests>>
history == <<compiled, replaced, unkept, fresh>>
vars == <<files, mode, console, hook, counters, history>>

Resting == [pc |-> "idle"]

\* What a hook can decide by.
Whole(text) == text # Broken /\ text.compiles

Init ==
  /\ world = [p \in Paths |-> First]
  /\ log = <<>>
  /\ cache = {}
  /\ mode \in {"closed", "open", "last-good"}
  /\ console = Resting
  /\ hook = [h \in Hooks |-> Resting]
  /\ edits = 0 /\ requests = 0
  /\ compiled = [p \in Paths |-> {}]
  /\ replaced = First.flags
  /\ unkept = TRUE
  /\ fresh = {}

-----------------------------------------------------------------------------
(* The policy of a world, and what the console makes of it.                *)

set_action(at) == [projected |-> at # "off", approval_required |-> at = "ask"]

set(text, change) ==
  [text EXCEPT !.flags = [a \in Actions |-> IF a \in DOMAIN change THEN set_action(change[a])
                                             ELSE @[a]]]

\* A capability stays projected when its base is hidden.
stop_unsupported(text) == text.caps \cap Effectful # {}

apply_stop(text) ==
  [text EXCEPT !.flags = [a \in Actions |-> IF a \in Effectful
                                             THEN [@[a] EXCEPT !.projected = FALSE] ELSE @[a]]]

apply_kept(text, kept) == [text EXCEPT !.flags = kept]

\* profile_matches for the Stop profile.
in_force(text) ==
  /\ ~stop_unsupported(text)
  /\ \A a \in Effectful : ~text.flags[a].projected

Policy(before) == [kind |-> "policy", before |-> before]
Absent(answer) == [kind |-> "absent", answer |-> answer]

markers == {i \in DOMAIN log : log[i].kind = "policy"}
verdicts == {i \in DOMAIN log : log[i].kind = "absent"}
Latest(lines) == CHOOSE i \in lines : \A j \in lines : j <= i

\* stop_record: the Stop in force is the last marker, if that is a Stop; a call
\* was refused since; the last ABSENT verdict was enforced, or let through.
open_stop == IF markers = {} THEN {} ELSE log[Latest(markers)].before
refused == \E i \in verdicts : /\ \A m \in markers : m < i
                               /\ log[i].answer = "deny"

\* Variant: an ABSENT verdict is taken for a refusal.
absent_enforced_Assumed == IF verdicts = {} THEN {} ELSE {TRUE}

absent_enforced == {log[i].answer = "deny" : i \in {j \in verdicts : j = Latest(verdicts)}}

\* stop_state: what the page shows, of any world that parses.
status ==
  IF world[Governed] = Broken THEN "error"
  ELSE IF ~in_force(world[Governed]) THEN "off"
  ELSE IF FALSE \in absent_enforced THEN "not_binding"
  ELSE IF open_stop # {} /\ refused THEN "stopped"
  ELSE "pending"

-----------------------------------------------------------------------------
(* The console: one request at a time, from load to answer.                *)

\* What a request makes of the world it loaded: the new text and the fields of
\* the marker, or nothing if it is refused.
Wanted(request, text) ==
  CASE request.kind = "stop" ->
         IF stop_unsupported(text) THEN {}
         ELSE {[target |-> apply_stop(text), mark |-> {text.flags}]}
    [] request.kind = "restore" ->
         {[target |-> apply_kept(text, kept), mark |-> {}] : kept \in open_stop}
    [] request.kind = "change" ->
         {[target |-> set(text, request.change), mark |-> {}]}

Requested == {[kind |-> "stop"], [kind |-> "restore"]}
               \cup {[kind |-> "change", change |-> c] : c \in Changes}

\* Variant: a policy that changes nothing is written and recorded all the same.
NextStep_Always(request, text, target) == "write"

\* A policy that changes nothing is not written; a Restore still ends the Stop.  One
\* that changes something is refused if the result does not compile; the flags alone
\* never decide that.
NextStep(request, text, target) ==
  IF target = text THEN IF request.kind = "restore" THEN "record" ELSE "idle"
  ELSE IF target.compiles THEN "write"
  ELSE "idle"

Load ==
  \E request \in Requested :
    /\ console.pc = "idle" /\ requests < MaxRequests
    /\ world[Governed] # Broken
    /\ \E w \in Wanted(request, world[Governed]) :
         console' = [pc |-> NextStep(request, world[Governed], w.target),
                     kind |-> request.kind, loaded |-> world[Governed],
                     target |-> w.target, mark |-> w.mark]
    /\ requests' = requests + 1
    /\ UNCHANGED <<files, mode, hook, edits, history>>

\* The file is replaced, whatever it holds by now.
Write ==
  /\ console.pc = "write"
  /\ world' = [world EXCEPT ![Governed] = console.target]
  /\ console' = [console EXCEPT !.pc = "record"]
  /\ fresh' = {}
  /\ IF console.kind = "stop" /\ world[Governed] # console.target
     THEN /\ replaced' = IF world[Governed] = Broken THEN replaced ELSE world[Governed].flags
          /\ unkept' = TRUE
     ELSE UNCHANGED <<replaced, unkept>>
  /\ UNCHANGED <<log, cache, mode, hook, counters, compiled>>

WriteFails ==
  /\ console.pc = "write"
  /\ console' = Resting
  /\ UNCHANGED <<files, mode, hook, counters, history>>

\* The marker keeps what was loaded, which is what was replaced unless somebody
\* wrote in between.
Record ==
  /\ console.pc = "record"
  /\ log' = Append(log, Policy(console.mark))
  /\ console' = Resting
  /\ unkept' = IF console.kind = "stop" /\ console.target # console.loaded
               THEN console.loaded.flags # replaced ELSE unkept
  /\ UNCHANGED <<world, cache, mode, hook, counters, compiled, replaced, fresh>>

\* The log cannot be written: the page is answered ok all the same.
RecordFails ==
  /\ console.pc = "record"
  /\ console' = Resting
  /\ UNCHANGED <<files, mode, hook, counters, history>>

\* The console is killed, and started again.
ConsoleDies ==
  /\ console.pc # "idle"
  /\ console' = Resting
  /\ UNCHANGED <<files, mode, hook, counters, history>>

\* Somebody else writes a world file: an editor, an installer, the agent.
Edit ==
  \E p \in Paths, text \in Edits :
    /\ edits < MaxEdits
    /\ text # world[p]
    /\ world' = [world EXCEPT ![p] = text]
    /\ fresh' = IF p = Governed THEN {} ELSE fresh
    /\ edits' = edits + 1
    /\ UNCHANGED <<log, cache, mode, console, hook, requests, compiled, replaced, unkept>>

-----------------------------------------------------------------------------
(* A hook process: from the world it reads to its answer.                  *)

\* Variant: the cache of another world is as good as one's own.
recall_AnyPath(path) == {c.text : c \in cache}

\* The cached text of this path.
recall(path) == {c.text : c \in {d \in cache : d.path = path}}

Set(h, state) == hook' = [hook EXCEPT ![h] = state]

\* A hook reads its world file.
Read(h) ==
  \E path \in Paths :
    /\ hook[h].pc = "idle"
    /\ Set(h, [pc |-> "read", path |-> path, text |-> world[path]])
    /\ fresh' = IF path = Governed THEN fresh \cup {h} ELSE fresh
    /\ compiled' = IF Whole(world[path]) THEN [compiled EXCEPT ![path] = @ \cup {world[path]}]
                   ELSE compiled
    /\ UNCHANGED <<files, mode, console, counters, replaced, unkept>>

Remembers(h) ==
  /\ hook[h].pc = "read" /\ Whole(hook[h].text)
  /\ mode = "last-good" /\ hook[h].text \notin recall(hook[h].path)

\* remember: under last-good a world that compiles is cached, unless it is there.
Differs(h) ==
  /\ Remembers(h)
  /\ Set(h, [hook[h] EXCEPT !.pc = "remember"])
  /\ UNCHANGED <<files, mode, console, counters, history>>

\* The cache is replaced, unless that fails.
Remember(h) ==
  /\ hook[h].pc = "remember"
  /\ cache' \in {cache, {[path |-> hook[h].path, text |-> hook[h].text]}}
  /\ Set(h, [hook[h] EXCEPT !.pc = "loaded"])
  /\ UNCHANGED <<world, log, mode, console, counters, history>>

Answered(h, by, call, answer, line) ==
  [pc |-> "answered", path |-> hook[h].path, text |-> hook[h].text,
   by |-> by, call |-> call, answer |-> answer, line |-> line]

\* The answer to the host, by the flags of the world: under --enforce-absent an
\* absent action is refused, "silent" leaves it to the host's own prompt.
AnswerOf(flags, enforce) ==
  IF ~flags.projected THEN IF enforce THEN "deny" ELSE "silent"
  ELSE IF flags.approval_required THEN "ask" ELSE "allow"

\* The verdict is logged, in the log of the console if the hook is its project's,
\* unless that fails, and then given.  Each host runs the hook with its own flag.
DecideBy(h, by) ==
  \E call \in Actions, enforce \in BOOLEAN :
    LET answer == AnswerOf(by.flags[call], enforce)
    IN  /\ \/ /\ UNCHANGED log
              /\ Set(h, Answered(h, by, call, answer, 0))
           \/ /\ hook[h].path = Governed /\ ~by.flags[call].projected
              /\ log' = Append(log, Absent(answer))
              /\ Set(h, Answered(h, by, call, answer, Len(log) + 1))
        /\ UNCHANGED <<world, cache, mode, console, counters, history>>

Decide(h) ==
  /\ \/ hook[h].pc = "loaded"
     \/ hook[h].pc = "read" /\ Whole(hook[h].text) /\ ~Remembers(h)
  /\ DecideBy(h, hook[h].text)

\* The world does not compile: the mode says what happens to the call.
FallsBack(h) ==
  /\ hook[h].pc = "read" /\ ~Whole(hook[h].text) /\ mode = "last-good"
  /\ \E text \in recall(hook[h].path) : DecideBy(h, text)

Unworlded(h) ==
  \E call \in Actions :
    /\ hook[h].pc = "read" /\ ~Whole(hook[h].text)
    /\ mode = "last-good" => recall(hook[h].path) = {}
    /\ Set(h, Answered(h, Broken, call, IF mode = "open" THEN "unworlded" ELSE "deny", 0))
    /\ UNCHANGED <<files, mode, console, counters, history>>

Next ==
  \/ Load \/ Write \/ WriteFails \/ Record \/ RecordFails \/ ConsoleDies
  \/ Edit
  \/ \E h \in Hooks : Read(h) \/ Differs(h) \/ Remember(h) \/ Decide(h) \/ FallsBack(h) \/ Unworlded(h)

Spec == Init /\ [][Next]_vars

-----------------------------------------------------------------------------
Flags == [projected : BOOLEAN, approval_required : BOOLEAN]
Texts == [flags : [Actions -> Flags], caps : SUBSET Actions, compiles : BOOLEAN]

ASSUME TextsAssumption == First \in Texts /\ Edits \subseteq Texts \cup {Broken}

TypeOK ==
  /\ world \in [Paths -> Texts \cup {Broken}]
  /\ \A i \in DOMAIN log : \/ log[i].kind = "policy" /\ log[i].before \subseteq [Actions -> Flags]
                           \/ log[i].kind = "absent" /\ log[i].answer \in {"deny", "silent"}
  /\ cache \subseteq [path : Paths, text : Texts]
  /\ compiled \in [Paths -> SUBSET Texts]
  /\ replaced \in [Actions -> Flags]
  /\ fresh \subseteq Hooks

Passed(h) == hook[h].pc = "answered" /\ hook[h].answer # "deny"

\* Whoever breaks, removes or swaps world files, a call gets past its hook only by
\* a world that was whole at this hook's own path when a hook read it, and that
\* has the call; another one than the hook itself read only if that was broken.
\* `open` alone lets a call pass without a world (broken_world.rs: load, remember, recall).
OwnWorldGoverns ==
  \A h \in Hooks : Passed(h) =>
    IF hook[h].by = Broken THEN mode = "open" /\ ~Whole(hook[h].text)
    ELSE /\ hook[h].by \in compiled[hook[h].path]
         /\ hook[h].by # hook[h].text => ~Whole(hook[h].text)
         /\ hook[h].by.flags[hook[h].call].projected \/ hook[h].answer = "silent"

\* A call with an effect that got past its hook did so by its absence from the world,
\* before a refusal that the log of that hook holds, or unlogged.
LeftToPrompt(h) ==
  /\ hook[h].by # Broken /\ ~hook[h].by.flags[hook[h].call].projected
  /\ hook[h].line = 0 \/ \E i \in verdicts : i > hook[h].line /\ log[i].answer = "deny"

EffectPassed(h) == Passed(h) /\ hook[h].call \in Effectful

\* While the page says "stopped" of a world file that compiles as it stands, no hook
\* that read it answers a call with an effect by anything but its absence; and one
\* that got to the host's own prompt is older than a refusal, or could not be logged
\* (console.rs: stop_record, stop_state).
StoppedHolds ==
  status = "stopped" /\ Whole(world[Governed]) =>
    \A h \in fresh : EffectPassed(h) => LeftToPrompt(h)

\* A Restore puts back the flags that the last Stop replaced in the file, unless
\* that Stop left no marker or somebody wrote while the console had it loaded
\* (console.rs: policy, record_policy, apply_kept).
Restores == console.pc = "write" /\ console.kind = "restore" /\ world' # world /\ console'.pc = "record"
RestorePutsBack == [][Restores => unkept \/ world'[Governed].flags = replaced]_vars
=============================================================================

----------------------------- MODULE MachineProofs -----------------------------
(***************************************************************************)
(* WorldFiles, by itself and as the second half of a machine's life, for   *)
(* any number of hooks, paths, texts and changes; and Setup as its first,  *)
(* for any documents, installers and changes by others.                    *)
(*                                                                         *)
(* OwnWorldGoverns needs to know of every hook where its text comes from   *)
(* (HookGoverned), and of the cache that what it keeps for a path was      *)
(* compiled at that path (Cached); what the console writes may be any      *)
(* text.  RestorePutsBack needs the open Stop to keep what was replaced at *)
(* every moment between the two (StopKept), StoppedHolds the log to say of *)
(* every logged answer what was answered (Evidence).                       *)
(*                                                                         *)
(* CoverageKept and DocumentKept need to know how far an installer has     *)
(* come, and that while it is alone what it has read is still what is      *)
(* there (InstallerSound); of a document, how it came from its owner's     *)
(* (FromOwner).  DoctorTruthful needs no more than that every part is in a *)
(* state the doctor knows (PartsTyped): it holds of all of those, not only *)
(* of what installers make.                                                *)
(***************************************************************************)
EXTENDS Machine, FilteredProofs

\* A hook that has not answered knows its path, and the text it read there: if that
\* is whole it was compiled there; one that goes on from the cache read none that is.
HookGoverned(s, hooks_mode, known) ==
  \/ s = Resting
  \/ /\ s = [pc |-> s.pc, path |-> s.path, text |-> s.text]
     /\ s.pc \in {"read", "remember", "loaded"}
     /\ s.path \in Paths
     /\ Whole(s.text) => s.text \in known[s.path]
     /\ s.pc # "read" => Whole(s.text)
  \/ /\ s.pc = "answered" /\ s.path \in Paths
     /\ s.answer # "deny" =>
          IF s.by = Broken THEN hooks_mode = "open" /\ ~Whole(s.text)
          ELSE /\ s.by \in known[s.path]
               /\ s.by # s.text => ~Whole(s.text)
               /\ s.by.flags[s.call].projected \/ s.answer = "silent"

Cached ==
  /\ compiled = [p \in Paths |-> compiled[p]]
  /\ \A p \in Paths : Broken \notin compiled[p]
  /\ \A c \in cache : c.path \in Paths /\ c.text \in compiled[c.path]

Governance ==
  /\ hook = [h \in Hooks |-> hook[h]]
  /\ Cached
  /\ \A h \in Hooks : HookGoverned(hook[h], mode, compiled)

\* At the start nothing was read.
LEMMA GovernanceInit == Init => Governance
BY DEF Init, Governance, Cached, HookGoverned, Resting

\* What is compiled only grows: a state that was right stays right.
LEMMA StaysGoverned ==
  ASSUME NEW s, NEW m, NEW known, NEW more, HookGoverned(s, m, known),
         \A p \in Paths : known[p] \subseteq more[p]
  PROVE  HookGoverned(s, m, more)
BY DEF HookGoverned, Resting

\* A step that takes one hook to a right state and leaves what is compiled.
LEMMA OneHookMoves ==
  ASSUME Governance, NEW h \in Hooks, NEW s, Set(h, s), HookGoverned(s, mode, compiled),
         UNCHANGED <<cache, compiled, mode>>
  PROVE  Governance'
<1>1. ASSUME NEW k \in Hooks PROVE HookGoverned(hook'[k], mode', compiled')
  BY DEF Governance, Set
<1> QED
  BY <1>1 DEF Governance, Cached, Set

\* A step that leaves the hooks, the cache and what is compiled.
LEMMA NoHookMoves ==
  ASSUME Governance, UNCHANGED <<hook, cache, compiled, mode>>
  PROVE  Governance'
BY DEF Governance, Cached, HookGoverned, Resting

\* A text of the own path decides, in the place of a broken one or of itself.
LEMMA DecidesGoverned ==
  ASSUME Governance, NEW h \in Hooks, hook[h].path \in Paths, NEW by, DecideBy(h, by),
         by \in compiled[hook[h].path], by = hook[h].text \/ ~Whole(hook[h].text)
  PROVE  Governance'
<1>1. by # Broken
  BY DEF Governance, Cached
<1>2. PICK call \in Actions, enforce \in BOOLEAN :
        /\ \E line : Set(h, Answered(h, by, call, AnswerOf(by.flags[call], enforce), line))
        /\ UNCHANGED <<world, cache, mode, console, counters, history>>
  BY DEF DecideBy
<1>3. PICK line : Set(h, Answered(h, by, call, AnswerOf(by.flags[call], enforce), line))
  BY <1>2
<1> DEFINE s == Answered(h, by, call, AnswerOf(by.flags[call], enforce), line)
<1>4. HookGoverned(s, mode, compiled)
  BY <1>1 DEF HookGoverned, Answered, AnswerOf
<1> QED
  BY <1>2, <1>3, <1>4, OneHookMoves DEF history

LEMMA GovernanceNext == Governance /\ [Next]_vars => Governance'
<1> SUFFICES ASSUME Governance, [Next]_vars PROVE Governance'
  OBVIOUS
<1>1. ASSUME Load \/ Write \/ WriteFails \/ Record \/ RecordFails \/ ConsoleDies \/ Edit
      PROVE  Governance'
  BY <1>1, NoHookMoves DEF Load, Write, WriteFails, Record, RecordFails, ConsoleDies, Edit,
                           files, counters, history
<1>2. ASSUME NEW h \in Hooks, Read(h) PROVE Governance'
  <2>1. PICK path \in Paths :
          /\ Set(h, [pc |-> "read", path |-> path, text |-> world[path]])
          /\ compiled' = IF Whole(world[path]) THEN [compiled EXCEPT ![path] = @ \cup {world[path]}]
                         ELSE compiled
          /\ UNCHANGED <<cache, mode>>
    BY <1>2 DEF Read, files
  <2>2. \A p \in Paths : compiled[p] \subseteq compiled'[p]
    BY <2>1 DEF Governance, Cached
  <2>3. Cached'
    BY <2>1, <2>2 DEF Governance, Cached, Whole
  <2>4. Whole(world[path]) => world[path] \in compiled'[path]
    BY <2>1 DEF Governance, Cached
  <2>5. ASSUME NEW k \in Hooks PROVE HookGoverned(hook'[k], mode', compiled')
    <3>1. CASE k = h
      BY <2>1, <2>4, <3>1 DEF Governance, Set, HookGoverned
    <3>2. CASE k # h
      <4>1. hook'[k] = hook[k] /\ HookGoverned(hook[k], mode, compiled)
        BY <2>1, <3>2 DEF Governance, Set
      <4>2. HookGoverned(hook[k], mode, compiled')
        BY <2>2, <4>1, StaysGoverned
      <4> QED
        BY <2>1, <4>1, <4>2
    <3> QED
      BY <3>1, <3>2
  <2> QED
    BY <2>1, <2>3, <2>5 DEF Governance, Set
<1>3. ASSUME NEW h \in Hooks, Differs(h) PROVE Governance'
  <2>1. HookGoverned([hook[h] EXCEPT !.pc = "remember"], mode, compiled)
    BY <1>3 DEF Differs, Remembers, Governance, HookGoverned, Resting
  <2> QED
    BY <1>3, <2>1, OneHookMoves DEF Differs, files, history
<1>4. ASSUME NEW h \in Hooks, Remember(h) PROVE Governance'
  <2>1. HookGoverned([hook[h] EXCEPT !.pc = "loaded"], mode, compiled)
    BY <1>4 DEF Remember, Governance, HookGoverned, Resting
  <2>2. hook[h].path \in Paths /\ hook[h].text \in compiled[hook[h].path]
    BY <1>4 DEF Remember, Governance, HookGoverned, Resting
  <2>3. Cached'
    BY <1>4, <2>2 DEF Remember, Governance, Cached, history
  <2>4. ASSUME NEW k \in Hooks PROVE HookGoverned(hook'[k], mode', compiled')
    BY <1>4, <2>1 DEF Remember, Set, Governance, history
  <2> QED
    BY <1>4, <2>3, <2>4 DEF Remember, Set, Governance
<1>5. ASSUME NEW h \in Hooks, Decide(h) PROVE Governance'
  <2>1. /\ hook[h].path \in Paths /\ hook[h].text \in compiled[hook[h].path]
    BY <1>5 DEF Decide, Governance, HookGoverned, Resting
  <2> QED
    BY <1>5, <2>1, DecidesGoverned DEF Decide
<1>6. ASSUME NEW h \in Hooks, FallsBack(h) PROVE Governance'
  <2>1. PICK text \in recall(hook[h].path) : DecideBy(h, text)
    BY <1>6 DEF FallsBack
  <2>2. hook[h].path \in Paths /\ ~Whole(hook[h].text)
    BY <1>6 DEF FallsBack, Governance, HookGoverned, Resting
  <2>3. text \in compiled[hook[h].path]
    BY <2>1 DEF recall, Governance, Cached
  <2> QED
    BY <2>1, <2>2, <2>3, DecidesGoverned
<1>7. ASSUME NEW h \in Hooks, Unworlded(h) PROVE Governance'
  <2>1. PICK call \in Actions :
          Set(h, Answered(h, Broken, call, IF mode = "open" THEN "unworlded" ELSE "deny", 0))
    BY <1>7 DEF Unworlded
  <2>2. hook[h].path \in Paths /\ ~Whole(hook[h].text)
    BY <1>7 DEF Unworlded, Governance, HookGoverned, Resting
  <2>3. HookGoverned(Answered(h, Broken, call, IF mode = "open" THEN "unworlded" ELSE "deny", 0),
                     mode, compiled)
    BY <2>2 DEF HookGoverned, Answered
  <2> QED
    BY <1>7, <2>1, <2>3, OneHookMoves DEF Unworlded, files, history
<1>8. CASE UNCHANGED vars
  BY <1>8, NoHookMoves DEF vars, files, history
<1> QED
  BY <1>1, <1>2, <1>3, <1>4, <1>5, <1>6, <1>7, <1>8 DEF Next

LEMMA GovernanceSuffices == Governance => OwnWorldGoverns
BY DEF Governance, HookGoverned, OwnWorldGoverns, Passed, Resting

\* Whoever writes world files: only a world that was whole at a hook's own path
\* lets a call past it (broken_world.rs: load, remember, recall).
THEOREM OwnWorldAlwaysGoverns == Spec => []OwnWorldGoverns
<1>1. Spec => []Governance
  BY GovernanceInit, GovernanceNext, PTL DEF Spec
<1> QED
  BY <1>1, GovernanceSuffices, PTL

-----------------------------------------------------------------------------
(* The log: its last line of a kind.                                       *)

LEMMA LatestIsLast ==
  ASSUME NEW n \in Nat, NEW lines, lines \subseteq 1 .. n, lines # {}
  PROVE  Latest(lines) \in lines /\ \A j \in lines : j <= Latest(lines)
<1> DEFINE above(i) == {j \in lines : j > i}
           sets == {above(i) : i \in lines}
<1>1. IsWellFoundedOn(StrictSubsetOrdering(lines), SUBSET lines)
  <2>1. IsFiniteSet(1 .. n)
    BY FS_Interval
  <2>2. IsFiniteSet(lines)
    BY <2>1, FS_Subset
  <2> QED
    BY <2>2, FS_FiniteSubsetsOfFinite, FS_StrictSubsetOrderingWellFounded
<1>2. sets \subseteq SUBSET lines /\ sets # {}
  OBVIOUS
<1>3. \E x \in sets : \A y \in sets : <<y, x>> \notin StrictSubsetOrdering(lines)
  <2> HIDE DEF sets
  <2> QED
    BY <1>1, <1>2, WFMin, Zenon
<1>4. PICK i \in lines : \A k \in lines : <<above(k), above(i)>> \notin StrictSubsetOrdering(lines)
  BY <1>3
<1>5. ASSUME NEW k \in lines, k > i PROVE FALSE
  <2>1. k \in above(i) /\ k \notin above(k) /\ above(k) \in SUBSET lines /\ above(i) \in SUBSET lines
    BY <1>5
  <2>2. above(k) \subseteq above(i)
    <3>1. ASSUME NEW j \in lines, j > k PROVE j > i
      BY <1>5, <3>1
    <3> QED
      BY <3>1
  <2>3. <<above(k), above(i)>> \in StrictSubsetOrdering(lines)
    <3> HIDE DEF above
    <3> QED
      BY <2>1, <2>2 DEF StrictSubsetOrdering
  <2> QED
    BY <1>4, <2>3
<1>6. \A k \in lines : k <= i
  BY <1>5
<1> QED
  BY <1>6 DEF Latest

Flagged == [Actions -> Flags]
Lines == [kind : {"policy"}, before : SUBSET Flagged]
           \cup [kind : {"absent"}, answer : {"deny", "silent"}]
Doing == {Resting} \cup [pc : {"idle", "write", "record"}, kind : {"stop", "restore", "change"},
                         loaded : Texts, target : Texts, mark : SUBSET Flagged]

FilesTyped ==
  /\ world \in [Paths -> Texts \cup {Broken}]
  /\ log \in Seq(Lines)
  /\ cache \subseteq [path : Paths, text : Texts]
  /\ console \in Doing
  /\ compiled \in [Paths -> SUBSET Texts]
  /\ replaced \in Flagged
  /\ fresh \subseteq Hooks

\* The markers are lines of the log.
LEMMA MarkersInLog ==
  ASSUME log \in Seq(Lines)
  PROVE  /\ markers \subseteq DOMAIN log
         /\ markers # {} => Latest(markers) \in markers
<1>1. Len(log) \in Nat /\ DOMAIN log = 1 .. Len(log) /\ markers \subseteq 1 .. Len(log)
  BY DEF markers
<1> HIDE DEF markers
<1> QED
  BY <1>1, LatestIsLast

LEMMA OpenStopTyped ==
  ASSUME log \in Seq(Lines)
  PROVE  open_stop \subseteq Flagged
<1>1. CASE markers = {}
  BY <1>1 DEF open_stop
<1>2. CASE markers # {}
  <2>1. Latest(markers) \in markers
    BY <1>2, MarkersInLog
  <2>2. log[Latest(markers)] \in Lines /\ log[Latest(markers)].kind = "policy"
    BY <2>1 DEF markers
  <2> QED
    BY <1>2, <2>2 DEF open_stop, Lines
<1> QED
  BY <1>1, <1>2

LEMMA MarkerOpens ==
  ASSUME log \in Seq(Lines), NEW line \in Lines, line.kind = "policy", log' = Append(log, line)
  PROVE  open_stop' = line.before
<1>1. log' \in Seq(Lines) /\ Len(log') = Len(log) + 1 /\ log'[Len(log')] = line
  OBVIOUS
<1>2. markers' \subseteq 1 .. Len(log') /\ Len(log') \in markers'
  BY <1>1 DEF markers
<1>3. Latest(markers') = Len(log')
  <2>1. markers' # {} /\ Len(log') \in Nat
    BY <1>1, <1>2
  <2>2. Latest(markers') \in markers' /\ Len(log') <= Latest(markers')
    BY <1>2, <2>1, LatestIsLast
  <2>3. Latest(markers') \in 1 .. Len(log')
    BY <1>2, <2>2
  <2> QED
    BY <2>1, <2>2, <2>3
<1> QED
  BY <1>1, <1>2, <1>3 DEF open_stop

LEMMA VerdictOpensNothing ==
  ASSUME log \in Seq(Lines), NEW line \in Lines, line.kind = "absent", log' = Append(log, line)
  PROVE  open_stop' = open_stop
<1>1. \A i \in DOMAIN log : log'[i] = log[i]
  OBVIOUS
<1>2. markers' = markers
  BY DEF markers
<1>3. CASE markers = {}
  BY <1>2, <1>3 DEF open_stop
<1>4. CASE markers # {}
  <2>1. Latest(markers) \in DOMAIN log
    BY <1>4, MarkersInLog
  <2> QED
    BY <1>1, <1>2, <1>4, <2>1 DEF open_stop
<1> QED
  BY <1>3, <1>4

\* What a decision does to the log.
LEMMA VerdictLogged ==
  ASSUME log \in Seq(Lines), NEW h \in Hooks, NEW by, DecideBy(h, by)
  PROVE  /\ log' \in Seq(Lines)
         /\ open_stop' = open_stop
<1>1. PICK call \in Actions, enforce \in BOOLEAN :
        \/ UNCHANGED log
        \/ ~by.flags[call].projected /\ log' = Append(log, Absent(AnswerOf(by.flags[call], enforce)))
  BY DEF DecideBy
<1>2. ~by.flags[call].projected =>
        /\ Absent(AnswerOf(by.flags[call], enforce)) \in Lines
        /\ Absent(AnswerOf(by.flags[call], enforce)).kind = "absent"
  BY DEF Absent, AnswerOf, Lines
<1>3. CASE UNCHANGED log
  BY <1>3 DEF open_stop, markers
<1>4. CASE ~by.flags[call].projected /\ log' = Append(log, Absent(AnswerOf(by.flags[call], enforce)))
  BY <1>2, <1>4, VerdictOpensNothing
<1> QED
  BY <1>1, <1>3, <1>4

LEMMA WantedTyped ==
  ASSUME log \in Seq(Lines), NEW request \in Requested, NEW text \in Texts, NEW w \in Wanted(request, text)
  PROVE  w.target \in Texts /\ w.mark \in SUBSET Flagged
<1>1. CASE request.kind = "stop"
  <2>1. apply_stop(text) \in Texts /\ text.flags \in Flagged
    BY DEF apply_stop, Texts, Flags, Flagged
  <2> QED
    BY <1>1, <2>1 DEF Wanted
<1>2. CASE request.kind = "restore"
  <2>1. \A kept \in open_stop : apply_kept(text, kept) \in Texts
    BY OpenStopTyped DEF apply_kept, Texts, Flagged
  <2> QED
    BY <1>2, <2>1 DEF Wanted
<1>3. CASE request.kind = "change"
  <2>1. \A at : set_action(at) \in Flags
    BY DEF set_action, Flags
  <2>2. set(text, request.change) \in Texts
    BY <2>1 DEF set, Texts
  <2> QED
    BY <1>3, <2>2 DEF Wanted
<1> QED
  BY <1>1, <1>2, <1>3 DEF Requested

LEMMA FilesTypedInit == Init => FilesTyped
<1> SUFFICES ASSUME Init PROVE FilesTyped
  OBVIOUS
<1>1. First \in Texts /\ First.flags \in Flagged
  BY TextsAssumption DEF Texts, Flagged
<1> QED
  BY <1>1 DEF Init, FilesTyped, Doing

LEMMA FilesTypedNext == Governance /\ FilesTyped /\ [Next]_vars => FilesTyped'
<1> SUFFICES ASSUME Governance, FilesTyped, [Next]_vars PROVE FilesTyped'
  OBVIOUS
<1> USE FilesAssumption
<1>1. ASSUME Load PROVE FilesTyped'
  <2>1. PICK request \in Requested :
          /\ world[Governed] # Broken
          /\ \E w \in Wanted(request, world[Governed]) :
               console' = [pc |-> NextStep(request, world[Governed], w.target),
                           kind |-> request.kind, loaded |-> world[Governed],
                           target |-> w.target, mark |-> w.mark]
    BY <1>1 DEF Load
  <2>2. world[Governed] \in Texts
    BY <2>1 DEF FilesTyped
  <2>3. PICK w \in Wanted(request, world[Governed]) :
               console' = [pc |-> NextStep(request, world[Governed], w.target),
                           kind |-> request.kind, loaded |-> world[Governed],
                           target |-> w.target, mark |-> w.mark]
    BY <2>1
  <2>4. w.target \in Texts /\ w.mark \in SUBSET Flagged
    BY <2>2, WantedTyped DEF FilesTyped
  <2>5. request.kind \in {"stop", "restore", "change"}
    BY DEF Requested
  <2>6. console' \in Doing
    BY <2>2, <2>3, <2>4, <2>5 DEF Doing, NextStep
  <2> QED
    BY <1>1, <2>6 DEF Load, FilesTyped, files, history
<1>2. ASSUME Write PROVE FilesTyped'
  <2>1. console.target \in Texts /\ console' \in Doing
    BY <1>2 DEF Write, FilesTyped, Doing, Resting
  <2>2. replaced' \in Flagged
    BY <1>2 DEF Write, FilesTyped, Texts, Flagged
  <2> QED
    BY <1>2, <2>1, <2>2 DEF Write, FilesTyped
<1>3. ASSUME Record PROVE FilesTyped'
  <2>1. Policy(console.mark) \in Lines
    BY <1>3 DEF Record, FilesTyped, Doing, Resting, Policy, Lines
  <2> QED
    BY <1>3, <2>1 DEF Record, FilesTyped, Doing
<1>4. ASSUME WriteFails \/ RecordFails \/ ConsoleDies PROVE FilesTyped'
  BY <1>4 DEF WriteFails, RecordFails, ConsoleDies, FilesTyped, Doing, files, history
<1>5. ASSUME Edit PROVE FilesTyped'
  BY <1>5, TextsAssumption DEF Edit, FilesTyped
<1>6. ASSUME NEW h \in Hooks, Read(h) PROVE FilesTyped'
  BY <1>6 DEF Read, FilesTyped, files, Whole
<1>7. ASSUME NEW h \in Hooks, Differs(h) \/ Unworlded(h) PROVE FilesTyped'
  BY <1>7 DEF Differs, Unworlded, FilesTyped, files, history
<1>8. ASSUME NEW h \in Hooks, Remember(h) PROVE FilesTyped'
  <2>1. hook[h].path \in Paths /\ hook[h].text \in compiled[hook[h].path]
    BY <1>8 DEF Remember, Governance, HookGoverned, Resting
  <2> QED
    BY <1>8, <2>1 DEF Remember, FilesTyped, history
<1>9. ASSUME NEW h \in Hooks, Decide(h) \/ FallsBack(h) PROVE FilesTyped'
  <2>1. PICK by : DecideBy(h, by)
    BY <1>9 DEF Decide, FallsBack
  <2>2. log' \in Seq(Lines)
    BY <2>1, VerdictLogged DEF FilesTyped
  <2> QED
    BY <2>1, <2>2 DEF DecideBy, FilesTyped, history
<1>10. CASE UNCHANGED vars
  BY <1>10 DEF vars, FilesTyped, files, history
<1> QED
  BY <1>1, <1>2, <1>3, <1>4, <1>5, <1>6, <1>7, <1>8, <1>9, <1>10 DEF Next

\* The shared files hold what their readers expect: worlds or broken texts, markers and
\* verdicts, and a cache of worlds (console.rs, broken_world.rs).  Of the variables of
\* WorldFiles, TypeOK types world, log, cache, compiled, replaced and fresh.
THEOREM FilesAlwaysTyped == Spec => []TypeOK
<1>1. FilesTyped => TypeOK
  <2> SUFFICES ASSUME FilesTyped, NEW i \in DOMAIN log
               PROVE  \/ log[i].kind = "policy" /\ log[i].before \subseteq Flagged
                      \/ log[i].kind = "absent" /\ log[i].answer \in {"deny", "silent"}
    BY DEF FilesTyped, TypeOK, Flagged
  <2>1. log[i] \in Lines
    BY DEF FilesTyped
  <2> QED
    BY <2>1 DEF Lines
<1>2. Init => Governance /\ FilesTyped
  BY GovernanceInit, FilesTypedInit
<1>3. Governance /\ FilesTyped /\ [Next]_vars => (Governance /\ FilesTyped)'
  BY GovernanceNext, FilesTypedNext
<1> QED
  BY <1>1, <1>2, <1>3, PTL DEF Spec

-----------------------------------------------------------------------------
(* A Stop and its Restore.                                                 *)

\* The open Stop keeps what was replaced, and so does a Restore that is under
\* way; a Stop under way will leave the marker of what it loaded.
StopKept ==
  /\ ~unkept => open_stop \subseteq {replaced}
  /\ console.pc = "write" /\ console.kind = "restore" => unkept \/ console.target.flags = replaced
  /\ console.pc \in {"write", "record"} =>
       IF console.kind = "stop" THEN console.mark = {console.loaded.flags} /\ console.target # console.loaded
       ELSE console.mark = {}

LEMMA StopKeptInit == Init => StopKept
BY DEF Init, StopKept, Resting

\* A step of somebody else.
LEMMA StopKeptAside ==
  ASSUME StopKept, open_stop' = open_stop, UNCHANGED <<console, unkept, replaced>>
  PROVE  StopKept'
BY DEF StopKept

\* The request of the console is over.
LEMMA StopKeptOver ==
  ASSUME StopKept, open_stop' = open_stop, console' = Resting, UNCHANGED <<unkept, replaced>>
  PROVE  StopKept'
BY DEF StopKept, Resting

LEMMA SameLogSameStop == UNCHANGED log => open_stop' = open_stop
BY DEF open_stop, markers

LEMMA StopKeptNext == FilesTyped /\ StopKept /\ [Next]_vars => StopKept'
<1> SUFFICES ASSUME FilesTyped, StopKept, [Next]_vars PROVE StopKept'
  OBVIOUS
<1>1. ASSUME Load PROVE StopKept'
  <2>1. PICK request \in Requested :
          \E w \in Wanted(request, world[Governed]) :
            console' = [pc |-> NextStep(request, world[Governed], w.target),
                        kind |-> request.kind, loaded |-> world[Governed],
                        target |-> w.target, mark |-> w.mark]
    BY <1>1 DEF Load
  <2>2. PICK w \in Wanted(request, world[Governed]) :
            console' = [pc |-> NextStep(request, world[Governed], w.target),
                        kind |-> request.kind, loaded |-> world[Governed],
                        target |-> w.target, mark |-> w.mark]
    BY <2>1
  <2>3. UNCHANGED <<unkept, replaced>> /\ open_stop' = open_stop
    BY <1>1, SameLogSameStop DEF Load, files, history
  <2>4. CASE request.kind = "stop"
    <3>1. w.mark = {world[Governed].flags}
      BY <2>4 DEF Wanted
    <3>2. console'.pc \in {"write", "record"} => w.target # world[Governed]
      BY <2>2, <2>4 DEF NextStep
    <3> QED
      BY <2>2, <2>3, <2>4, <3>1, <3>2 DEF StopKept
  <2>5. CASE request.kind = "restore"
    <3>1. w.mark = {} /\ w.target.flags \in open_stop
      <4>1. PICK kept \in open_stop : w = [target |-> apply_kept(world[Governed], kept), mark |-> {}]
        BY <2>5 DEF Wanted
      <4>2. world[Governed] \in Texts
        BY <1>1, FilesAssumption DEF Load, FilesTyped
      <4> QED
        BY <4>1, <4>2 DEF apply_kept, Texts
    <3> QED
      BY <2>2, <2>3, <2>5, <3>1 DEF StopKept
  <2>6. CASE request.kind = "change"
    <3>1. w.mark = {}
      BY <2>6 DEF Wanted
    <3> QED
      BY <2>2, <2>3, <2>6, <3>1 DEF StopKept
  <2> QED
    BY <2>4, <2>5, <2>6 DEF Requested
<1>2. ASSUME Write PROVE StopKept'
  <2>1. /\ console.pc = "write" /\ open_stop' = open_stop
        /\ console'.pc = "record" /\ console'.kind = console.kind /\ console'.mark = console.mark
        /\ console'.loaded = console.loaded /\ console'.target = console.target
        /\ unkept' = TRUE \/ UNCHANGED <<replaced, unkept>>
    BY <1>2, SameLogSameStop DEF Write, FilesTyped, Doing, Resting
  <2> QED
    BY <2>1 DEF StopKept
<1>3. ASSUME Record PROVE StopKept'
  <2>1. Policy(console.mark) \in Lines /\ console.pc = "record"
    BY <1>3 DEF Record, FilesTyped, Doing, Resting, Policy, Lines
  <2>2. open_stop' = console.mark
    BY <1>3, <2>1, MarkerOpens DEF Record, FilesTyped, Policy
  <2>3. console' = Resting /\ replaced' = replaced
    BY <1>3 DEF Record
  <2>4. unkept' = IF console.kind = "stop" /\ console.target # console.loaded
                  THEN console.loaded.flags # replaced ELSE unkept
    BY <1>3 DEF Record
  <2> QED
    BY <2>1, <2>2, <2>3, <2>4 DEF StopKept, Resting
<1>4. ASSUME WriteFails \/ RecordFails \/ ConsoleDies PROVE StopKept'
  BY <1>4, StopKeptOver, SameLogSameStop DEF WriteFails, RecordFails, ConsoleDies, files, history
<1>5. ASSUME Edit PROVE StopKept'
  BY <1>5, StopKeptAside, SameLogSameStop DEF Edit
<1>6. ASSUME NEW h \in Hooks, Read(h) \/ Differs(h) \/ Remember(h) \/ Unworlded(h) PROVE StopKept'
  BY <1>6, StopKeptAside, SameLogSameStop DEF Read, Differs, Remember, Unworlded, files, history
<1>7. ASSUME NEW h \in Hooks, Decide(h) \/ FallsBack(h) PROVE StopKept'
  <2>1. PICK by : DecideBy(h, by)
    BY <1>7 DEF Decide, FallsBack
  <2>2. open_stop' = open_stop
    BY <2>1, VerdictLogged DEF FilesTyped
  <2> QED
    BY <2>1, <2>2, StopKeptAside DEF DecideBy, history
<1>8. CASE UNCHANGED vars
  BY <1>8, StopKeptAside, SameLogSameStop DEF vars, files, history
<1> QED
  BY <1>1, <1>2, <1>3, <1>4, <1>5, <1>6, <1>7, <1>8 DEF Next

LEMMA RestoreStep ==
  ASSUME FilesTyped, StopKept, [Next]_vars
  PROVE  [Restores => unkept \/ world'[Governed].flags = replaced]_vars
<1> SUFFICES ASSUME Next, Restores PROVE unkept \/ world'[Governed].flags = replaced
  BY DEF Restores
<1>1. Write
  <2>1. ASSUME NEW h \in Hooks,
               Read(h) \/ Differs(h) \/ Remember(h) \/ Decide(h) \/ FallsBack(h) \/ Unworlded(h)
        PROVE  UNCHANGED world
    BY <2>1 DEF Read, Differs, Remember, Decide, FallsBack, DecideBy, Unworlded, files
  <2>2. world' # world /\ console.pc = "write" /\ console'.pc = "record"
    BY DEF Restores
  <2> QED
    BY <2>1, <2>2 DEF Next, Load, WriteFails, Record, RecordFails, ConsoleDies, Edit, files
<1>2. world'[Governed] = console.target
  BY <1>1, FilesAssumption DEF Write, FilesTyped
<1> QED
  BY <1>2 DEF Restores, StopKept

\* Between a Stop that left its marker and a Restore that nobody wrote into, no
\* setting is lost: the flags of before the Stop are back (console.rs: policy,
\* record_policy, apply_kept).
THEOREM RestoreAlwaysPutsBack == Spec => RestorePutsBack
<1> DEFINE Inv == Governance /\ FilesTyped /\ StopKept
<1>1. Init => Inv
  BY GovernanceInit, FilesTypedInit, StopKeptInit
<1>2. Inv /\ [Next]_vars => Inv'
  BY GovernanceNext, FilesTypedNext, StopKeptNext
<1> QED
  BY <1>1, <1>2, RestoreStep, PTL DEF Spec, RestorePutsBack

-----------------------------------------------------------------------------
(* The evidence of the page.                                               *)

\* What the log says of an answer that was logged is that answer.
Witnessed(s, lines) ==
  s.pc = "answered" /\ s.line # 0 => s.line \in DOMAIN lines /\ lines[s.line] = Absent(s.answer)

\* A fresh hook goes by the text that the governed file holds.
Reads(s, text) == s.pc # "idle" /\ s.path = Governed /\ s.text = text

Evidence ==
  /\ \A h \in Hooks : Witnessed(hook[h], log)
  /\ \A h \in fresh : Reads(hook[h], world[Governed])

LEMMA EvidenceInit == Init => Evidence
BY DEF Init, Evidence, Witnessed, Resting

\* The log grows and nobody looks.
LEMMA EvidenceAside ==
  ASSUME Evidence, log \in Seq(Lines), UNCHANGED hook, fresh' = {} \/ (fresh' = fresh /\ world'[Governed] = world[Governed]),
         UNCHANGED log \/ \E line : log' = Append(log, line)
  PROVE  Evidence'
<1>1. \A i \in DOMAIN log : i \in DOMAIN log' /\ log'[i] = log[i]
  OBVIOUS
<1>2. \A h \in Hooks : Witnessed(hook'[h], log')
  BY <1>1 DEF Evidence, Witnessed
<1> QED
  BY <1>2 DEF Evidence, Reads

\* One hook goes on, with the text it read.
LEMMA EvidenceOneHook ==
  ASSUME Governance, FilesTyped, Evidence, NEW h \in Hooks, NEW s, Set(h, s), UNCHANGED <<world, fresh>>,
         s.pc # "idle", s.path = hook[h].path, s.text = hook[h].text,
         UNCHANGED log \/ \E line : log' = Append(log, line), Witnessed(s, log')
  PROVE  Evidence'
<1>1. \A i \in DOMAIN log : i \in DOMAIN log' /\ log'[i] = log[i]
  BY DEF FilesTyped
<1>2. hook' = [hook EXCEPT ![h] = s] /\ hook'[h] = s /\ \A k \in Hooks : k # h => hook'[k] = hook[k]
  BY DEF Set, Governance
<1>3. \A k \in Hooks : Witnessed(hook'[k], log')
  BY <1>1, <1>2 DEF Evidence, Witnessed
<1>4. \A k \in fresh : Reads(hook'[k], world[Governed])
  BY <1>2 DEF Evidence, Reads, FilesTyped
<1> QED
  BY <1>3, <1>4 DEF Evidence

LEMMA EvidenceDecides ==
  ASSUME Governance, FilesTyped, Evidence, NEW h \in Hooks, NEW by, DecideBy(h, by)
  PROVE  Evidence'
<1>1. PICK call \in Actions, enforce \in BOOLEAN :
        LET answer == AnswerOf(by.flags[call], enforce)
        IN  /\ \/ /\ UNCHANGED log
                  /\ Set(h, Answered(h, by, call, answer, 0))
               \/ /\ log' = Append(log, Absent(answer))
                  /\ Set(h, Answered(h, by, call, answer, Len(log) + 1))
            /\ UNCHANGED <<world, fresh>>
  BY DEF DecideBy, history
<1> DEFINE answer == AnswerOf(by.flags[call], enforce)
<1>2. CASE UNCHANGED log /\ Set(h, Answered(h, by, call, answer, 0))
  BY <1>1, <1>2, EvidenceOneHook DEF Answered, Witnessed
<1>3. CASE log' = Append(log, Absent(answer)) /\ Set(h, Answered(h, by, call, answer, Len(log) + 1))
  <2>1. Len(log) + 1 \in DOMAIN log' /\ log'[Len(log) + 1] = Absent(answer)
    BY <1>3 DEF FilesTyped
  <2> QED
    BY <1>1, <1>3, <2>1, EvidenceOneHook DEF Answered, Witnessed
<1> QED
  BY <1>1, <1>2, <1>3

LEMMA EvidenceNext == Governance /\ FilesTyped /\ Evidence /\ [Next]_vars => Evidence'
<1> SUFFICES ASSUME Governance, FilesTyped, Evidence, [Next]_vars PROVE Evidence'
  OBVIOUS
<1>1. ASSUME Load \/ Write \/ WriteFails \/ Record \/ RecordFails \/ ConsoleDies PROVE Evidence'
  <2>1. /\ hook' = hook
        /\ fresh' = {} \/ (fresh' = fresh /\ world'[Governed] = world[Governed])
    <3>1. CASE Load
      BY <3>1 DEF Load, files, history
    <3>2. CASE Write
      BY <3>2 DEF Write
    <3>3. CASE Record
      BY <3>3 DEF Record
    <3>4. CASE WriteFails \/ RecordFails \/ ConsoleDies
      BY <3>4 DEF WriteFails, RecordFails, ConsoleDies, files, history
    <3> QED
      BY <1>1, <3>1, <3>2, <3>3, <3>4
  <2>2. UNCHANGED log \/ \E line : log' = Append(log, line)
    BY <1>1 DEF Load, Write, WriteFails, Record, RecordFails, ConsoleDies, files
  <2>3. log \in Seq(Lines)
    BY DEF FilesTyped
  <2> QED
    BY <2>1, <2>2, <2>3, EvidenceAside
<1>2. ASSUME Edit PROVE Evidence'
  <2>1. hook' = hook /\ log' = log /\ log \in Seq(Lines)
    BY <1>2 DEF Edit, FilesTyped
  <2>2. PICK p \in Paths, text \in Edits :
          /\ world' = [world EXCEPT ![p] = text]
          /\ fresh' = IF p = Governed THEN {} ELSE fresh
    BY <1>2 DEF Edit
  <2>3. p # Governed => world'[Governed] = world[Governed]
    BY <2>2, FilesAssumption DEF FilesTyped
  <2> QED
    <3>1. fresh' = {} \/ (fresh' = fresh /\ world'[Governed] = world[Governed])
      BY <2>2, <2>3
    <3> QED
      BY <2>1, <3>1, EvidenceAside
<1>3. ASSUME NEW h \in Hooks, Read(h) PROVE Evidence'
  <2>1. PICK path \in Paths :
          /\ hook[h].pc = "idle"
          /\ Set(h, [pc |-> "read", path |-> path, text |-> world[path]])
          /\ fresh' = IF path = Governed THEN fresh \cup {h} ELSE fresh
          /\ UNCHANGED <<log, world>>
    BY <1>3 DEF Read, files
  <2>2. hook'[h] = [pc |-> "read", path |-> path, text |-> world[path]]
    BY <2>1 DEF Set, Governance
  <2>3. \A k \in Hooks : k # h => hook'[k] = hook[k]
    BY <2>1 DEF Set, Governance
  <2>4. h \notin fresh
    BY <2>1 DEF Evidence, Reads
  <2>5. \A k \in Hooks : Witnessed(hook'[k], log')
    BY <2>1, <2>2, <2>3 DEF Evidence, Witnessed
  <2>6. \A k \in fresh' : Reads(hook'[k], world'[Governed])
    BY <2>1, <2>2, <2>3, <2>4 DEF Evidence, Reads, FilesTyped
  <2> QED
    BY <2>5, <2>6 DEF Evidence
<1>4. ASSUME NEW h \in Hooks, NEW at, Set(h, [hook[h] EXCEPT !.pc = at]), hook[h].pc \in {"read", "remember"},
             at \in {"remember", "loaded"}, UNCHANGED <<world, log, fresh>>
      PROVE  Evidence'
  <2>1. hook[h] = [pc |-> hook[h].pc, path |-> hook[h].path, text |-> hook[h].text]
    BY <1>4 DEF Governance, HookGoverned, Resting
  <2>2. [hook[h] EXCEPT !.pc = at] = [pc |-> at, path |-> hook[h].path, text |-> hook[h].text]
    BY <2>1
  <2> QED
    BY <1>4, <2>2, EvidenceOneHook DEF Witnessed
<1>5. ASSUME NEW h \in Hooks, Differs(h) \/ Remember(h) PROVE Evidence'
  BY <1>4, <1>5 DEF Differs, Remembers, Remember, files, history
<1>6. ASSUME NEW h \in Hooks, Decide(h) \/ FallsBack(h) PROVE Evidence'
  BY <1>6, EvidenceDecides DEF Decide, FallsBack
<1>7. ASSUME NEW h \in Hooks, Unworlded(h) PROVE Evidence'
  <2>1. PICK call \in Actions :
          Set(h, Answered(h, Broken, call, IF mode = "open" THEN "unworlded" ELSE "deny", 0))
    BY <1>7 DEF Unworlded
  <2> QED
    BY <1>7, <2>1, EvidenceOneHook DEF Unworlded, Answered, Witnessed, files, history
<1>8. CASE UNCHANGED vars
  BY <1>8, EvidenceAside DEF vars, FilesTyped, files, history
<1> QED
  BY <1>1, <1>2, <1>3, <1>5, <1>6, <1>7, <1>8 DEF Next

\* The verdicts are lines of the log.
LEMMA VerdictsInLog ==
  ASSUME log \in Seq(Lines)
  PROVE  /\ verdicts \subseteq 1 .. Len(log)
         /\ verdicts # {} => Latest(verdicts) \in verdicts /\ \A j \in verdicts : j <= Latest(verdicts)
<1>1. Len(log) \in Nat /\ verdicts \subseteq 1 .. Len(log)
  BY DEF verdicts
<1> HIDE DEF verdicts
<1> QED
  BY <1>1, LatestIsLast

LEMMA EvidenceSuffices == Governance /\ FilesTyped /\ Evidence => StoppedHolds
<1> SUFFICES ASSUME Governance, FilesTyped, Evidence, status = "stopped", Whole(world[Governed]),
                    NEW h \in fresh, EffectPassed(h)
             PROVE  LeftToPrompt(h)
  BY DEF StoppedHolds
<1> USE DEF EffectPassed
<1>1. /\ world[Governed] # Broken
      /\ \A a \in Effectful : ~world[Governed].flags[a].projected
      /\ FALSE \notin absent_enforced
  BY DEF status, in_force
<1>2. /\ h \in Hooks /\ hook[h].by = world[Governed] /\ hook[h].by # Broken
      /\ OwnWorldGoverns
  BY <1>1, GovernanceSuffices DEF FilesTyped, Evidence, Reads, OwnWorldGoverns
<1>3. ~hook[h].by.flags[hook[h].call].projected /\ hook[h].answer = "silent"
  BY <1>1, <1>2 DEF OwnWorldGoverns
<1>4. ASSUME hook[h].line # 0
      PROVE  \E i \in verdicts : i > hook[h].line /\ log[i].answer = "deny"
  <2>1. hook[h].line \in verdicts /\ log[hook[h].line].answer = "silent"
    <3>1. hook[h].line \in DOMAIN log /\ log[hook[h].line] = Absent("silent")
      BY <1>2, <1>3, <1>4 DEF Evidence, Witnessed, Passed
    <3>2. log[hook[h].line].kind = "absent" /\ log[hook[h].line].answer = "silent"
      BY <3>1 DEF Absent
    <3> QED
      BY <3>1, <3>2 DEF verdicts
  <2>2. /\ verdicts \subseteq 1 .. Len(log)
        /\ Latest(verdicts) \in verdicts
        /\ hook[h].line <= Latest(verdicts)
    BY <2>1, VerdictsInLog DEF FilesTyped
  <2>3. log[Latest(verdicts)].answer = "deny"
    BY <1>1, <2>2 DEF absent_enforced
  <2> QED
    BY <2>1, <2>2, <2>3 DEF FilesTyped
<1> QED
  BY <1>2, <1>3, <1>4 DEF LeftToPrompt

\* Whatever is edited, and whenever the hooks run: while "stopped" is said of a world
\* that compiles, a hook that read the file as it is gives an effectful call no answer
\* but a refusal or the silence of its absence, and a silence only before a refusal
\* that is logged, or unlogged (console.rs: stop_record, stop_state).
THEOREM StoppedAlwaysHolds == Spec => []StoppedHolds
<1> DEFINE Inv == Governance /\ FilesTyped /\ Evidence
<1>1. Init => Inv
  BY GovernanceInit, FilesTypedInit, EvidenceInit
<1>2. Inv /\ [Next]_vars => Inv'
  BY GovernanceNext, FilesTypedNext, EvidenceNext
<1> QED
  BY <1>1, <1>2, EvidenceSuffices, PTL DEF Spec

-----------------------------------------------------------------------------
(* The machine: until it is opened no hook has run, and opening it changes *)
(* the mode they run in and nothing else here.                             *)

MachineInv ==
  /\ Governance /\ FilesTyped /\ StopKept /\ Evidence
  /\ ~opened => \A h \in Hooks : hook[h] = Resting

LEMMA MachineInvInit == MachineInit => MachineInv
BY GovernanceInit, FilesTypedInit, StopKeptInit, EvidenceInit DEF MachineInit, MachineInv, Init

\* A step of the machine that is one of WorldFiles, or none.
LEMMA MachineInvLives ==
  ASSUME MachineInv, [Next]_vars, ~opened' => UNCHANGED <<opened, hook>>
  PROVE  MachineInv'
BY GovernanceNext, FilesTypedNext, StopKeptNext, EvidenceNext DEF MachineInv

LEMMA MachineInvOpens ==
  ASSUME MachineInv, Open
  PROVE  MachineInv'
<1>1. /\ UNCHANGED <<world, log, cache, console, hook, compiled, replaced, unkept, fresh>>
      /\ opened' = TRUE /\ \A h \in Hooks : hook[h] = Resting
  BY DEF Open, MachineInv, files, history
<1>2. Governance'
  BY <1>1 DEF MachineInv, Governance, Cached, HookGoverned
<1>3. FilesTyped'
  BY <1>1 DEF MachineInv, FilesTyped
<1>4. StopKept'
  BY <1>1, SameLogSameStop DEF MachineInv, StopKept
<1>5. Evidence'
  BY <1>1 DEF MachineInv, Evidence, Witnessed, Reads
<1> QED
  BY <1>1, <1>2, <1>3, <1>4, <1>5 DEF MachineInv

LEMMA MachineInvNext == MachineInv /\ [MachineNext]_machine_vars => MachineInv'
<1> SUFFICES ASSUME MachineInv, [MachineNext]_machine_vars PROVE MachineInv'
  OBVIOUS
<1>1. CASE ~opened /\ UNCHANGED <<opened, vars>>
  BY <1>1, MachineInvLives DEF vars
<1>2. CASE Open
  BY <1>2, MachineInvOpens
<1>3. CASE opened /\ Next /\ UNCHANGED opened
  BY <1>3, MachineInvLives
<1>4. CASE UNCHANGED machine_vars
  BY <1>4, MachineInvLives DEF machine_vars, vars
<1> QED
  BY <1>1, <1>2, <1>3, <1>4 DEF MachineNext

\* What holds of every project holds of one that was set up before, whatever its
\* installers did and whichever mode its shim asks for (init.rs; broken_world.rs).
THEOREM MachineGoverned == MachineSpec => []OwnWorldGoverns
BY MachineInvInit, MachineInvNext, GovernanceSuffices, PTL DEF MachineSpec, MachineInv

THEOREM MachineStopped == MachineSpec => []StoppedHolds
BY MachineInvInit, MachineInvNext, EvidenceSuffices, PTL DEF MachineSpec, MachineInv

THEOREM MachinePutsBack == MachineSpec => RestorePutsBack
<1>1. MachineInv /\ [MachineNext]_machine_vars => [Restores => unkept \/ world'[Governed].flags = replaced]_vars
  <2>1. [MachineNext]_machine_vars => [Next]_vars \/ UNCHANGED world
    BY DEF MachineNext, machine_vars, vars, Open, files
  <2>2. UNCHANGED world => ~Restores
    BY DEF Restores
  <2> QED
    BY <2>1, <2>2, RestoreStep DEF MachineInv
<1> QED
  BY <1>1, MachineInvInit, MachineInvNext, PTL DEF MachineSpec, RestorePutsBack

-----------------------------------------------------------------------------
(* What merging and removing do to the entries of one event.               *)

\* An entry of a list has our command for this scope.
Names(entries, scope) ==
  \E i \in DOMAIN entries : \E j \in DOMAIN entries[i].hooks : ours(entries[i].hooks[j], scope)

\* It does so under the matcher of every tool.
NamesForAll(entries, scope) ==
  \E i \in DOMAIN entries :
    entries[i].matcher = "*" /\ \E j \in DOMAIN entries[i].hooks : ours(entries[i].hooks[j], scope)

LEMMA CommandTyped ==
  ASSUME NEW s \in Scopes
  PROVE  /\ hook_command(s) \in Commands /\ hook_command(s).runs = s /\ marked(hook_command(s))
         /\ Entry("*", <<hook_command(s)>>) \in Entries
<1> DEFINE c == hook_command(s)
<1>1. c.runs = s /\ marked(c)
  BY DEF hook_command, Command, marked
<1>2. c \in Commands
  BY DEF hook_command, Command, Commands
<1> HIDE DEF c
<1>3. <<c>> \in Seq(Commands)
  BY <1>2
<1>4. "*" \in MatcherForms
  BY DEF MatcherForms
<1>5. Entry("*", <<c>>) \in Entries
  BY <1>3, <1>4 DEF Entry, Entries
<1> QED
  BY <1>1, <1>2, <1>5 DEF c

LEMMA EntryFields ==
  ASSUME NEW entries \in Seq(Entries), NEW i \in DOMAIN entries
  PROVE  /\ entries[i] \in Entries /\ entries[i].matcher \in MatcherForms
         /\ entries[i].hooks \in Seq(Commands)
         /\ entries[i] = [matcher |-> entries[i].matcher, hooks |-> entries[i].hooks]
<1>1. entries[i] \in Entries
  OBVIOUS
<1> QED
  BY <1>1 DEF Entries

LEMMA Upgraded ==
  ASSUME NEW entries \in Seq(Entries), NEW c \in Commands
  PROVE  /\ upgrade(entries, c) \in Seq(Entries)
         /\ Len(upgrade(entries, c)) = Len(entries)
         /\ DOMAIN upgrade(entries, c) = DOMAIN entries
         /\ \A i \in DOMAIN entries :
              /\ upgrade(entries, c)[i].matcher = entries[i].matcher
              /\ DOMAIN upgrade(entries, c)[i].hooks = DOMAIN entries[i].hooks
              /\ \A j \in DOMAIN entries[i].hooks :
                   upgrade(entries, c)[i].hooks[j] =
                     IF marked(entries[i].hooks[j]) THEN c ELSE entries[i].hooks[j]
<1> DEFINE up == upgrade(entries, c)
           hooks(i) == [j \in DOMAIN entries[i].hooks |->
                          IF marked(entries[i].hooks[j]) THEN c ELSE entries[i].hooks[j]]
<1>1. ASSUME NEW i \in DOMAIN entries
      PROVE  hooks(i) \in Seq(Commands) /\ up[i] = [matcher |-> entries[i].matcher, hooks |-> hooks(i)]
  <2>1. entries[i].hooks \in Seq(Commands)
    BY EntryFields
  <2>2. hooks(i) \in Seq(Commands)
    BY <2>1
  <2>3. up[i] = [entries[i] EXCEPT !.hooks = hooks(i)]
    BY DEF upgrade
  <2> HIDE DEF up, hooks
  <2> QED
    BY <2>2, <2>3, EntryFields
<1>2. up = [i \in DOMAIN entries |-> up[i]]
  BY DEF upgrade
<1> HIDE DEF up, hooks
<1>3. \A i \in DOMAIN entries : up[i] \in Entries
  <2> SUFFICES ASSUME NEW i \in DOMAIN entries
               PROVE  up[i] \in Entries
    OBVIOUS
  <2>1. entries[i].matcher \in MatcherForms
    BY EntryFields
  <2>2. up[i] = [matcher |-> entries[i].matcher, hooks |-> hooks(i)] /\ hooks(i) \in Seq(Commands)
    BY <1>1
  <2> QED
    BY <2>1, <2>2 DEF Entries
<1>4. up \in Seq(Entries) /\ Len(up) = Len(entries) /\ DOMAIN up = DOMAIN entries
  <2>1. Len(entries) \in Nat /\ DOMAIN entries = 1 .. Len(entries)
    OBVIOUS
  <2> QED
    BY <1>2, <1>3, <2>1
<1>5. ASSUME NEW i \in DOMAIN entries
      PROVE  up[i].matcher = entries[i].matcher /\ up[i].hooks = hooks(i)
  <2>1. up[i] = [matcher |-> entries[i].matcher, hooks |-> hooks(i)]
    BY <1>1
  <2> QED
    BY <2>1
<1>6. \A i \in DOMAIN entries :
        /\ DOMAIN hooks(i) = DOMAIN entries[i].hooks
        /\ \A j \in DOMAIN entries[i].hooks :
             hooks(i)[j] = IF marked(entries[i].hooks[j]) THEN c ELSE entries[i].hooks[j]
  BY DEF hooks
<1> QED
  BY <1>4, <1>5, <1>6 DEF up

\* Merging leaves the upgraded entries, or has them and a new one for every tool.
LEMMA MergedIs ==
  ASSUME NEW entries \in Seq(Entries), NEW s \in Scopes, NEW merge,
         \/ merge = merge_settings(entries, hook_command(s))
         \/ merge = merge_observer(entries, hook_command(s))
  PROVE  /\ merge \in Seq(Entries)
         /\ \/ merge = upgrade(entries, hook_command(s))
            \/ merge = Append(upgrade(entries, hook_command(s)), Entry("*", <<hook_command(s)>>))
<1>1. upgrade(entries, hook_command(s)) \in Seq(Entries) /\ Entry("*", <<hook_command(s)>>) \in Entries
  BY CommandTyped, Upgraded
<1>2. \/ merge = upgrade(entries, hook_command(s))
      \/ merge = Append(upgrade(entries, hook_command(s)), Entry("*", <<hook_command(s)>>))
  BY DEF merge_settings, merge_observer
<1> QED
  BY <1>1, <1>2

\* What an upgraded list has of ours is the command it was given.
LEMMA UpgradedNames ==
  ASSUME NEW entries \in Seq(Entries), NEW s \in Scopes, NEW i \in DOMAIN entries,
         NEW j \in DOMAIN entries[i].hooks
  PROVE  LET up == upgrade(entries, hook_command(s))
         IN  /\ i \in DOMAIN up /\ j \in DOMAIN up[i].hooks
             /\ marked(up[i].hooks[j]) <=> marked(entries[i].hooks[j])
             /\ marked(up[i].hooks[j]) => up[i].hooks[j] = hook_command(s)
             /\ ~marked(entries[i].hooks[j]) => up[i].hooks[j] = entries[i].hooks[j]
<1> DEFINE up == upgrade(entries, hook_command(s))
<1>1. hook_command(s) \in Commands /\ marked(hook_command(s))
  BY CommandTyped
<1>2. /\ DOMAIN up = DOMAIN entries /\ DOMAIN up[i].hooks = DOMAIN entries[i].hooks
      /\ up[i].hooks[j] = IF marked(entries[i].hooks[j]) THEN hook_command(s) ELSE entries[i].hooks[j]
  BY <1>1, Upgraded
<1> HIDE DEF up
<1> QED
  BY <1>1, <1>2 DEF up

LEMMA MergedNames ==
  ASSUME NEW entries \in Seq(Entries), NEW s \in Scopes, NEW merge,
         \/ merge = merge_settings(entries, hook_command(s))
         \/ merge = merge_observer(entries, hook_command(s)),
         NEW i \in DOMAIN merge, NEW j \in DOMAIN merge[i].hooks, marked(merge[i].hooks[j])
  PROVE  merge[i].hooks[j] = hook_command(s)
<1> DEFINE up == upgrade(entries, hook_command(s))
           new == Entry("*", <<hook_command(s)>>)
<1>1. /\ up \in Seq(Entries) /\ new \in Entries /\ Len(up) = Len(entries)
      /\ \A k \in DOMAIN entries : DOMAIN up[k].hooks = DOMAIN entries[k].hooks
  BY CommandTyped, Upgraded
<1>2. merge = up \/ merge = Append(up, new)
  BY MergedIs
<1>3. \A k \in DOMAIN up : \A m \in DOMAIN up[k].hooks : marked(up[k].hooks[m]) => up[k].hooks[m] = hook_command(s)
  <2>1. DOMAIN up = DOMAIN entries
    BY CommandTyped, Upgraded
  <2> QED
    BY <1>1, <2>1, UpgradedNames
<1>4. new.hooks = <<hook_command(s)>>
  BY DEF Entry
<1> HIDE DEF up, new
<1>5. merge[i] = new \/ (i \in DOMAIN up /\ merge[i] = up[i])
  BY <1>1, <1>2
<1> QED
  BY <1>3, <1>4, <1>5

LEMMA MergedNamesForAll ==
  ASSUME NEW entries \in Seq(Entries), NEW s \in Scopes
  PROVE  NamesForAll(merge_settings(entries, hook_command(s)), s)
<1> DEFINE up == upgrade(entries, hook_command(s))
           new == Entry("*", <<hook_command(s)>>)
<1>1. /\ up \in Seq(Entries) /\ new \in Entries /\ Len(up) = Len(entries) /\ DOMAIN up = DOMAIN entries
      /\ \A k \in DOMAIN entries : DOMAIN up[k].hooks = DOMAIN entries[k].hooks
  BY CommandTyped, Upgraded
<1>2. new.hooks = <<hook_command(s)>> /\ new.matcher = "*" /\ hook_command(s).runs = s
  BY CommandTyped DEF Entry
<1>3. \A k \in DOMAIN up : \A m \in DOMAIN up[k].hooks : marked(up[k].hooks[m]) => up[k].hooks[m] = hook_command(s)
  BY <1>1, UpgradedNames
<1>4. CASE \E i \in DOMAIN up : carries(up[i]) /\ up[i].matcher = "*"
  <2>1. merge_settings(entries, hook_command(s)) = up
    BY <1>4 DEF merge_settings
  <2>2. PICK i \in DOMAIN up : carries(up[i]) /\ up[i].matcher = "*"
    BY <1>4
  <2>3. PICK j \in DOMAIN up[i].hooks : marked(up[i].hooks[j])
    BY <2>2 DEF carries
  <2>4. up[i].hooks[j] = hook_command(s)
    BY <1>3, <2>3
  <2> HIDE DEF up
  <2> QED
    BY <1>2, <2>1, <2>2, <2>3, <2>4 DEF NamesForAll, ours
<1>5. CASE ~\E i \in DOMAIN up : carries(up[i]) /\ up[i].matcher = "*"
  <2>1. merge_settings(entries, hook_command(s)) = Append(up, new)
    BY <1>5 DEF merge_settings
  <2> HIDE DEF up, new
  <2>2. /\ Len(up) + 1 \in DOMAIN Append(up, new) /\ Append(up, new)[Len(up) + 1] = new
    BY <1>1
  <2> QED
    BY <1>2, <2>1, <2>2 DEF NamesForAll, ours
<1> QED
  BY <1>4, <1>5

\* The commands of others are those of the entries that are not ours.
LEMMA OthersAre ==
  ASSUME NEW entries, NEW x
  PROVE  x \in OthersIn(entries) <=>
           \E i \in DOMAIN entries : \E j \in DOMAIN entries[i].hooks :
             ~marked(entries[i].hooks[j]) /\ x = <<entries[i].matcher, entries[i].hooks[j]>>
<1> DEFINE of(e) == {<<e.matcher, e.hooks[j]>> : j \in {k \in DOMAIN e.hooks : ~marked(e.hooks[k])}}
<1>1. OthersIn(entries) = UNION {of(e) : e \in {entries[i] : i \in DOMAIN entries}}
  BY DEF OthersIn
<1>2. \A e : x \in of(e) <=> \E j \in DOMAIN e.hooks : ~marked(e.hooks[j]) /\ x = <<e.matcher, e.hooks[j]>>
  OBVIOUS
<1> DEFINE es == {entries[i] : i \in DOMAIN entries}
<1>4. \A e : e \in es <=> \E i \in DOMAIN entries : e = entries[i]
  OBVIOUS
<1> HIDE DEF of, es
<1>3. x \in OthersIn(entries) <=> \E i \in DOMAIN entries : x \in of(entries[i])
  <2>1. OthersIn(entries) = UNION {of(e) : e \in es}
    BY <1>1 DEF es
  <2>2. x \in OthersIn(entries) <=> \E e \in es : x \in of(e)
    BY <2>1
  <2> QED
    BY <1>4, <2>2
<1> QED
  BY <1>2, <1>3

LEMMA UpgradedOthers ==
  ASSUME NEW entries \in Seq(Entries), NEW s \in Scopes
  PROVE  OthersIn(upgrade(entries, hook_command(s))) = OthersIn(entries)
<1> DEFINE up == upgrade(entries, hook_command(s))
<1>1. /\ DOMAIN up = DOMAIN entries
      /\ \A i \in DOMAIN entries : up[i].matcher = entries[i].matcher /\ DOMAIN up[i].hooks = DOMAIN entries[i].hooks
  <2>1. hook_command(s) \in Commands
    BY CommandTyped
  <2> QED
    BY <2>1, Upgraded
<1>2. \A i \in DOMAIN entries : \A j \in DOMAIN entries[i].hooks :
        /\ marked(up[i].hooks[j]) <=> marked(entries[i].hooks[j])
        /\ ~marked(entries[i].hooks[j]) => up[i].hooks[j] = entries[i].hooks[j]
  BY UpgradedNames
<1> HIDE DEF up
<1>3. \A x : x \in OthersIn(up) <=> x \in OthersIn(entries)
  BY <1>1, <1>2, OthersAre
<1> QED
  BY <1>3 DEF up

LEMMA MergedOthers ==
  ASSUME NEW entries \in Seq(Entries), NEW s \in Scopes, NEW merge,
         \/ merge = merge_settings(entries, hook_command(s))
         \/ merge = merge_observer(entries, hook_command(s))
  PROVE  OthersIn(merge) = OthersIn(entries)
<1> DEFINE up == upgrade(entries, hook_command(s))
           new == Entry("*", <<hook_command(s)>>)
<1>1. up \in Seq(Entries) /\ new \in Entries /\ OthersIn(up) = OthersIn(entries)
  BY CommandTyped, Upgraded, UpgradedOthers
<1>2. merge = up \/ merge = Append(up, new)
  BY MergedIs
<1>3. new.hooks = <<hook_command(s)>> /\ marked(hook_command(s))
  BY CommandTyped DEF Entry
<1> HIDE DEF up, new
<1>4. ASSUME merge = Append(up, new)
      PROVE  OthersIn(merge) = OthersIn(up)
  <2>1. /\ DOMAIN merge = DOMAIN up \cup {Len(up) + 1} /\ merge[Len(up) + 1] = new
        /\ \A i \in DOMAIN up : merge[i] = up[i]
    BY <1>1, <1>4
  <2>2. \A j \in DOMAIN new.hooks : marked(new.hooks[j])
    BY <1>3
  <2>3. \A x : x \in OthersIn(merge) <=> x \in OthersIn(up)
    BY <2>1, <2>2, OthersAre
  <2> QED
    BY <2>3
<1> QED
  BY <1>1, <1>2, <1>4

\* The commands and the entries that are left.
LEMMA WithoutIs ==
  ASSUME NEW commands \in Seq(Commands), NEW s
  PROVE  /\ without(commands, s) \in Seq(Commands)
         /\ \A k \in DOMAIN without(commands, s) :
              \E j \in DOMAIN commands : ~ours(commands[j], s) /\ without(commands, s)[k] = commands[j]
         /\ \A j \in DOMAIN commands : ~ours(commands[j], s) =>
              \E k \in DOMAIN without(commands, s) : without(commands, s)[k] = commands[j]
         /\ (\A j \in DOMAIN commands : ~ours(commands[j], s)) => without(commands, s) = commands
         /\ (\A j \in DOMAIN commands : ours(commands[j], s)) => without(commands, s) = <<>>
<1> DEFINE at == {j \in DOMAIN commands : ~ours(commands[j], s)}
           left == Filtered(commands, at)
<1>1. without(commands, s) = left
  BY DEF without
<1>2. ArePlaces(at)
  <2>1. Len(commands) \in Nat /\ at \in SUBSET (1 .. Len(commands))
    OBVIOUS
  <2> QED
    BY <2>1 DEF ArePlaces
<1>3. \A j : j \in at <=> j \in DOMAIN commands /\ ~ours(commands[j], s)
  OBVIOUS
<1>4. (\A j \in DOMAIN commands : ~ours(commands[j], s)) => at = DOMAIN commands
  OBVIOUS
<1>5. (\A j \in DOMAIN commands : ours(commands[j], s)) => at = {}
  OBVIOUS
<1> HIDE DEF at
<1>6. /\ Cardinality(at) \in Nat /\ DOMAIN left = 1 .. Cardinality(at) /\ Len(left) = Cardinality(at)
      /\ \A i \in at : Rank(at, i) \in 1 .. Cardinality(at) /\ left[Rank(at, i)] = commands[i]
      /\ \A k \in 1 .. Cardinality(at) : \E i \in at : Rank(at, i) = k /\ left[k] = commands[i]
  BY <1>2, FilteredIs
<1>7. left \in Seq(Commands)
  BY <1>2, <1>3, FilteredIsSeq
<1>8. at = DOMAIN commands => left = commands
  BY FilteredAll
<1>9. at = {} => left = <<>>
  BY <1>6, <1>7
<1> HIDE DEF left
<1>10. \A k \in DOMAIN left : \E j \in DOMAIN commands : ~ours(commands[j], s) /\ left[k] = commands[j]
  BY <1>3, <1>6
<1>11. \A j \in DOMAIN commands : ~ours(commands[j], s) => \E k \in DOMAIN left : left[k] = commands[j]
  BY <1>3, <1>6
<1> QED
  BY <1>1, <1>4, <1>5, <1>7, <1>8, <1>9, <1>10, <1>11

LEMMA WithHooksIs ==
  ASSUME NEW entries \in Seq(Entries)
  PROVE  /\ with_hooks(entries) \in Seq(Entries)
         /\ \A k \in DOMAIN with_hooks(entries) :
              \E i \in DOMAIN entries : entries[i].hooks # <<>> /\ with_hooks(entries)[k] = entries[i]
         /\ \A i \in DOMAIN entries : entries[i].hooks # <<>> =>
              \E k \in DOMAIN with_hooks(entries) : with_hooks(entries)[k] = entries[i]
         /\ (\A i \in DOMAIN entries : entries[i].hooks # <<>>) => with_hooks(entries) = entries
<1> DEFINE at == {i \in DOMAIN entries : entries[i].hooks # <<>>}
           left == Filtered(entries, at)
<1>1. with_hooks(entries) = left
  BY DEF with_hooks
<1>2. ArePlaces(at)
  <2>1. Len(entries) \in Nat /\ at \in SUBSET (1 .. Len(entries))
    OBVIOUS
  <2> QED
    BY <2>1 DEF ArePlaces
<1>3. \A j : j \in at <=> j \in DOMAIN entries /\ entries[j].hooks # <<>>
  OBVIOUS
<1>4. (\A i \in DOMAIN entries : entries[i].hooks # <<>>) => at = DOMAIN entries
  OBVIOUS
<1> HIDE DEF at
<1>5. /\ Cardinality(at) \in Nat /\ DOMAIN left = 1 .. Cardinality(at)
      /\ \A i \in at : Rank(at, i) \in 1 .. Cardinality(at) /\ left[Rank(at, i)] = entries[i]
      /\ \A k \in 1 .. Cardinality(at) : \E i \in at : Rank(at, i) = k /\ left[k] = entries[i]
  BY <1>2, FilteredIs
<1>6. left \in Seq(Entries)
  BY <1>2, <1>3, FilteredIsSeq
<1>7. at = DOMAIN entries => left = entries
  BY FilteredAll
<1> HIDE DEF left
<1>8. \A k \in DOMAIN left : \E i \in DOMAIN entries : entries[i].hooks # <<>> /\ left[k] = entries[i]
  BY <1>3, <1>5
<1>9. \A i \in DOMAIN entries : entries[i].hooks # <<>> => \E k \in DOMAIN left : left[k] = entries[i]
  BY <1>3, <1>5
<1> QED
  BY <1>1, <1>4, <1>6, <1>7, <1>8, <1>9

LEMMA WithHooksAgain ==
  ASSUME NEW entries \in Seq(Entries)
  PROVE  with_hooks(with_hooks(entries)) = with_hooks(entries)
<1> DEFINE left == with_hooks(entries)
<1>1. left \in Seq(Entries) /\ \A k \in DOMAIN left : left[k].hooks # <<>>
  BY WithHooksIs
<1> HIDE DEF left
<1>2. with_hooks(left) = left
  BY <1>1, WithHooksIs
<1> QED
  BY <1>2 DEF left

\* The entries before the empty ones go.
stripped(entries, s) == [i \in DOMAIN entries |-> [entries[i] EXCEPT !.hooks = without(@, s)]]

LEMMA StrippedIs ==
  ASSUME NEW entries \in Seq(Entries), NEW s
  PROVE  /\ stripped(entries, s) \in Seq(Entries)
         /\ DOMAIN stripped(entries, s) = DOMAIN entries
         /\ Len(stripped(entries, s)) = Len(entries)
         /\ \A i \in DOMAIN entries :
              /\ stripped(entries, s)[i] =
                   [matcher |-> entries[i].matcher, hooks |-> without(entries[i].hooks, s)]
              /\ stripped(entries, s)[i].matcher = entries[i].matcher
              /\ stripped(entries, s)[i].hooks = without(entries[i].hooks, s)
<1> DEFINE st == stripped(entries, s)
<1>1. ASSUME NEW i \in DOMAIN entries
      PROVE  /\ st[i] = [matcher |-> entries[i].matcher, hooks |-> without(entries[i].hooks, s)]
             /\ st[i] \in Entries
  <2>1. st[i] = [entries[i] EXCEPT !.hooks = without(entries[i].hooks, s)]
    BY DEF stripped
  <2>2. /\ entries[i] = [matcher |-> entries[i].matcher, hooks |-> entries[i].hooks]
        /\ entries[i].matcher \in MatcherForms /\ entries[i].hooks \in Seq(Commands)
    BY EntryFields
  <2>3. without(entries[i].hooks, s) \in Seq(Commands)
    BY <2>2, WithoutIs
  <2> HIDE DEF st
  <2>4. st[i] = [matcher |-> entries[i].matcher, hooks |-> without(entries[i].hooks, s)]
    BY <2>1, <2>2
  <2> QED
    BY <2>2, <2>3, <2>4 DEF Entries
<1>2. st = [i \in DOMAIN entries |-> st[i]]
  BY DEF stripped
<1> HIDE DEF st
<1>3. st \in Seq(Entries) /\ Len(st) = Len(entries) /\ DOMAIN st = DOMAIN entries
  <2>1. Len(entries) \in Nat /\ DOMAIN entries = 1 .. Len(entries)
    OBVIOUS
  <2> QED
    BY <1>1, <1>2, <2>1
<1>4. ASSUME NEW i \in DOMAIN entries
      PROVE  st[i].matcher = entries[i].matcher /\ st[i].hooks = without(entries[i].hooks, s)
  <2>1. st[i] = [matcher |-> entries[i].matcher, hooks |-> without(entries[i].hooks, s)]
    BY <1>1
  <2> QED
    BY <2>1
<1> QED
  BY <1>1, <1>3, <1>4 DEF st

LEMMA UnmergedIs ==
  ASSUME NEW entries \in Seq(Entries), NEW s
  PROVE  unmerge_event(entries, s) = with_hooks(stripped(entries, s))
BY DEF unmerge_event, stripped

\* What is left was there and is not ours, and all of it that was not ours is left.
LEMMA UnmergedNames ==
  ASSUME NEW entries \in Seq(Entries), NEW s
  PROVE  /\ unmerge_event(entries, s) \in Seq(Entries)
         /\ \A k \in DOMAIN unmerge_event(entries, s) :
              \E i \in DOMAIN entries :
                /\ unmerge_event(entries, s)[k].matcher = entries[i].matcher
                /\ \A j \in DOMAIN unmerge_event(entries, s)[k].hooks :
                     \E m \in DOMAIN entries[i].hooks :
                       /\ ~ours(entries[i].hooks[m], s)
                       /\ unmerge_event(entries, s)[k].hooks[j] = entries[i].hooks[m]
         /\ \A i \in DOMAIN entries : \A m \in DOMAIN entries[i].hooks :
              ~ours(entries[i].hooks[m], s) =>
                \E k \in DOMAIN unmerge_event(entries, s) :
                  /\ unmerge_event(entries, s)[k].matcher = entries[i].matcher
                  /\ \E j \in DOMAIN unmerge_event(entries, s)[k].hooks :
                       unmerge_event(entries, s)[k].hooks[j] = entries[i].hooks[m]
<1> DEFINE st == stripped(entries, s)
           un == unmerge_event(entries, s)
<1>1. /\ st \in Seq(Entries) /\ DOMAIN st = DOMAIN entries
      /\ \A i \in DOMAIN entries : /\ st[i].matcher = entries[i].matcher
                                    /\ st[i].hooks = without(entries[i].hooks, s)
  BY StrippedIs
<1>2. un = with_hooks(st)
  BY UnmergedIs
<1> HIDE DEF st, un
<1>3. /\ un \in Seq(Entries)
      /\ \A k \in DOMAIN un : \E i \in DOMAIN st : un[k] = st[i]
      /\ \A i \in DOMAIN st : st[i].hooks # <<>> => \E k \in DOMAIN un : un[k] = st[i]
  BY <1>1, <1>2, WithHooksIs
<1>4. ASSUME NEW i \in DOMAIN entries
      PROVE  /\ \A k \in DOMAIN st[i].hooks :
                  \E j \in DOMAIN entries[i].hooks :
                    ~ours(entries[i].hooks[j], s) /\ st[i].hooks[k] = entries[i].hooks[j]
             /\ \A j \in DOMAIN entries[i].hooks : ~ours(entries[i].hooks[j], s) =>
                  \E k \in DOMAIN st[i].hooks : st[i].hooks[k] = entries[i].hooks[j]
  <2> DEFINE cs == entries[i].hooks
             left == without(cs, s)
  <2>1. cs \in Seq(Commands) /\ st[i].hooks = left
    BY <1>1, EntryFields
  <2> HIDE DEF cs
  <2>2. /\ \A k \in DOMAIN left : \E j \in DOMAIN cs : ~ours(cs[j], s) /\ left[k] = cs[j]
        /\ \A j \in DOMAIN cs : ~ours(cs[j], s) => \E k \in DOMAIN left : left[k] = cs[j]
    BY <2>1, WithoutIs
  <2> HIDE DEF left
  <2> QED
    BY <2>1, <2>2 DEF cs
<1>5. ASSUME NEW k \in DOMAIN un
      PROVE  \E i \in DOMAIN entries :
                /\ un[k].matcher = entries[i].matcher
                /\ \A j \in DOMAIN un[k].hooks :
                     \E m \in DOMAIN entries[i].hooks :
                       ~ours(entries[i].hooks[m], s) /\ un[k].hooks[j] = entries[i].hooks[m]
  <2>1. PICK i \in DOMAIN entries : un[k] = st[i]
    BY <1>1, <1>3
  <2> QED
    BY <1>1, <1>4, <2>1
<1>6. ASSUME NEW i \in DOMAIN entries, NEW m \in DOMAIN entries[i].hooks, ~ours(entries[i].hooks[m], s)
      PROVE  \E k \in DOMAIN un :
               /\ un[k].matcher = entries[i].matcher
               /\ \E j \in DOMAIN un[k].hooks : un[k].hooks[j] = entries[i].hooks[m]
  <2>1. PICK j \in DOMAIN st[i].hooks : st[i].hooks[j] = entries[i].hooks[m]
    BY <1>4, <1>6
  <2>2. st[i].hooks # <<>>
    BY <2>1
  <2>3. PICK k \in DOMAIN un : un[k] = st[i]
    BY <1>1, <1>3, <2>2
  <2> QED
    BY <1>1, <2>1, <2>3
<1> QED
  BY <1>3, <1>5, <1>6 DEF un

LEMMA UnmergedOthers ==
  ASSUME NEW entries \in Seq(Entries), NEW s \in Scopes
  PROVE  OthersIn(unmerge_event(entries, s)) = OthersIn(entries)
<1> DEFINE un == unmerge_event(entries, s)
<1>1. \A c : ~marked(c) => ~ours(c, s)
  BY DEF marked, ours
<1>2. \A k \in DOMAIN un :
        \E i \in DOMAIN entries :
          /\ un[k].matcher = entries[i].matcher
          /\ \A j \in DOMAIN un[k].hooks :
               \E m \in DOMAIN entries[i].hooks : un[k].hooks[j] = entries[i].hooks[m]
  BY UnmergedNames
<1>3. \A i \in DOMAIN entries : \A m \in DOMAIN entries[i].hooks :
        ~ours(entries[i].hooks[m], s) =>
          \E k \in DOMAIN un : /\ un[k].matcher = entries[i].matcher
                               /\ \E j \in DOMAIN un[k].hooks : un[k].hooks[j] = entries[i].hooks[m]
  BY UnmergedNames
<1> HIDE DEF un
<1>4. \A x : x \in OthersIn(un) => x \in OthersIn(entries)
  BY <1>2, OthersAre
<1>5. \A x : x \in OthersIn(entries) => x \in OthersIn(un)
  BY <1>1, <1>3, OthersAre
<1> QED
  BY <1>4, <1>5 DEF un

-----------------------------------------------------------------------------
(* An owner's entries, and with one of ours behind them.                   *)

Unmarked(entries) == \A i \in DOMAIN entries : ~carries(entries[i])
OurEntry(s) == Entry("*", <<hook_command(s)>>)

LEMMA OurEntryIs ==
  ASSUME NEW s \in Scopes
  PROVE  /\ OurEntry(s) \in Entries /\ OurEntry(s).matcher = "*"
         /\ OurEntry(s).hooks = <<hook_command(s)>> /\ carries(OurEntry(s))
         /\ 1 \in DOMAIN OurEntry(s).hooks /\ OurEntry(s).hooks[1] = hook_command(s)
<1>1. OurEntry(s).hooks = <<hook_command(s)>> /\ OurEntry(s).matcher = "*"
  BY DEF OurEntry, Entry
<1>2. 1 \in DOMAIN OurEntry(s).hooks /\ OurEntry(s).hooks[1] = hook_command(s)
  BY <1>1
<1>3. carries(OurEntry(s))
  BY <1>2, CommandTyped DEF carries
<1> QED
  BY <1>1, <1>2, <1>3, CommandTyped DEF OurEntry

LEMMA UpgradedBase ==
  ASSUME NEW base \in Seq(Entries), Unmarked(base), NEW s \in Scopes
  PROVE  upgrade(base, hook_command(s)) = base
<1> DEFINE up == upgrade(base, hook_command(s))
<1>1. hook_command(s) \in Commands
  BY CommandTyped
<1>2. ASSUME NEW i \in DOMAIN base
      PROVE  up[i] = base[i]
  <2>1. /\ base[i].hooks \in Seq(Commands)
        /\ base[i] = [matcher |-> base[i].matcher, hooks |-> base[i].hooks]
    BY EntryFields
  <2>2. \A j \in DOMAIN base[i].hooks : ~marked(base[i].hooks[j])
    BY DEF Unmarked, carries
  <2>3. up[i] = [base[i] EXCEPT !.hooks = [j \in DOMAIN base[i].hooks |->
                    IF marked(base[i].hooks[j]) THEN hook_command(s) ELSE base[i].hooks[j]]]
    BY DEF upgrade
  <2>4. [j \in DOMAIN base[i].hooks |->
            IF marked(base[i].hooks[j]) THEN hook_command(s) ELSE base[i].hooks[j]] = base[i].hooks
    BY <2>1, <2>2
  <2> HIDE DEF up
  <2> QED
    BY <2>1, <2>3, <2>4
<1>3. up = [i \in DOMAIN base |-> up[i]]
  BY DEF upgrade
<1> HIDE DEF up
<1>4. up = base
  BY <1>2, <1>3
<1> QED
  BY <1>4 DEF up

LEMMA UpgradedOurs ==
  ASSUME NEW base \in Seq(Entries), Unmarked(base), NEW s \in Scopes, NEW t \in Scopes
  PROVE  upgrade(Append(base, OurEntry(t)), hook_command(s)) = Append(base, OurEntry(s))
<1> DEFINE l == Append(base, OurEntry(t))
           up == upgrade(l, hook_command(s))
           n == Len(base) + 1
<1>1. /\ hook_command(s) \in Commands /\ hook_command(t) \in Commands /\ marked(hook_command(t))
      /\ OurEntry(t) \in Entries /\ OurEntry(s) \in Entries
  BY CommandTyped, OurEntryIs
<1>2. /\ l \in Seq(Entries) /\ Len(l) = n /\ DOMAIN l = 1 .. n /\ DOMAIN base = 1 .. Len(base)
      /\ \A i \in DOMAIN base : l[i] = base[i]
      /\ l[n] = OurEntry(t) /\ Len(base) \in Nat
  BY <1>1
<1>3. ASSUME NEW i \in DOMAIN base
      PROVE  up[i] = base[i]
  <2>1. upgrade(base, hook_command(s)) = base
    BY UpgradedBase
  <2>2. i \in DOMAIN l /\ l[i] = base[i]
    BY <1>2
  <2>3. up[i] = [l[i] EXCEPT !.hooks = [j \in DOMAIN l[i].hooks |->
                    IF marked(l[i].hooks[j]) THEN hook_command(s) ELSE l[i].hooks[j]]]
    BY <2>2 DEF upgrade
  <2>4. upgrade(base, hook_command(s))[i] = [base[i] EXCEPT !.hooks = [j \in DOMAIN base[i].hooks |->
                    IF marked(base[i].hooks[j]) THEN hook_command(s) ELSE base[i].hooks[j]]]
    BY DEF upgrade
  <2> HIDE DEF up, l
  <2> QED
    BY <2>1, <2>2, <2>3, <2>4
<1>4. up[n] = OurEntry(s)
  <2>1. /\ n \in DOMAIN l /\ l[n] = OurEntry(t)
    BY <1>2
  <2>2. up[n] = [OurEntry(t) EXCEPT !.hooks = [j \in DOMAIN OurEntry(t).hooks |->
                    IF marked(OurEntry(t).hooks[j]) THEN hook_command(s) ELSE OurEntry(t).hooks[j]]]
    BY <2>1 DEF upgrade
  <2>3. OurEntry(t).hooks = <<hook_command(t)>>
    BY OurEntryIs
  <2>4. [j \in DOMAIN OurEntry(t).hooks |->
           IF marked(OurEntry(t).hooks[j]) THEN hook_command(s) ELSE OurEntry(t).hooks[j]]
         = <<hook_command(s)>>
    BY <1>1, <2>3
  <2> HIDE DEF up, l
  <2> QED
    BY <2>2, <2>4 DEF OurEntry, Entry
<1>5. up = [i \in DOMAIN l |-> up[i]]
  BY DEF upgrade
<1> HIDE DEF l, up
<1>6. up = Append(base, OurEntry(s))
  <2> DEFINE m == Append(base, OurEntry(s))
  <2>1. /\ m \in Seq(Entries) /\ DOMAIN m = 1 .. n /\ m[n] = OurEntry(s)
        /\ \A i \in DOMAIN base : m[i] = base[i]
    BY <1>1
  <2>2. up \in Seq(Entries) /\ Len(up) = n /\ Len(m) = n
    BY <1>1, <1>2, Upgraded DEF up
  <2> HIDE DEF m
  <2>3. \A i \in 1 .. n : up[i] = m[i]
    BY <1>2, <1>3, <1>4, <2>1
  <2>4. up = m
    BY <2>1, <2>2, <2>3
  <2> QED
    BY <2>4 DEF m
<1> QED
  BY <1>6 DEF up, l

LEMMA WithHooksAppend ==
  ASSUME NEW base \in Seq(Entries), NEW x \in Entries
  PROVE  with_hooks(Append(base, x)) =
           IF x.hooks = <<>> THEN with_hooks(base) ELSE Append(with_hooks(base), x)
<1> DEFINE l == Append(base, x)
           at == {i \in DOMAIN base : base[i].hooks # <<>>}
           all == {i \in DOMAIN l : l[i].hooks # <<>>}
<1>1. /\ DOMAIN l = DOMAIN base \cup {Len(base) + 1} /\ l[Len(base) + 1] = x
      /\ \A i \in DOMAIN base : l[i] = base[i]
  OBVIOUS
<1>2. at \in SUBSET DOMAIN base
  OBVIOUS
<1>3. /\ Filtered(l, at) = Filtered(base, at)
      /\ Filtered(l, at \cup {Len(base) + 1}) = Append(Filtered(base, at), x)
  <2> HIDE DEF at
  <2> QED
    BY <1>2, FilteredAppend
<1>4. with_hooks(l) = Filtered(l, all) /\ with_hooks(base) = Filtered(base, at)
  BY DEF with_hooks
<1> HIDE DEF l
<1>5. x.hooks = <<>> => all = at
  BY <1>1
<1>6. x.hooks # <<>> => all = at \cup {Len(base) + 1}
  BY <1>1
<1> HIDE DEF all, at
<1> QED
  BY <1>3, <1>4, <1>5, <1>6 DEF l

LEMMA StrippedBase ==
  ASSUME NEW base \in Seq(Entries), Unmarked(base), NEW s \in Scopes
  PROVE  stripped(base, s) = base
<1> DEFINE st == stripped(base, s)
<1>1. /\ st \in Seq(Entries) /\ DOMAIN st = DOMAIN base /\ Len(st) = Len(base)
      /\ \A i \in DOMAIN base : st[i] = [matcher |-> base[i].matcher, hooks |-> without(base[i].hooks, s)]
  BY StrippedIs
<1>2. ASSUME NEW i \in DOMAIN base
      PROVE  st[i] = base[i]
  <2>1. /\ base[i].hooks \in Seq(Commands)
        /\ base[i] = [matcher |-> base[i].matcher, hooks |-> base[i].hooks]
    BY EntryFields
  <2>2. \A j \in DOMAIN base[i].hooks : ~ours(base[i].hooks[j], s)
    BY DEF Unmarked, carries, marked, ours
  <2>3. without(base[i].hooks, s) = base[i].hooks
    BY <2>1, <2>2, WithoutIs
  <2> HIDE DEF st
  <2> QED
    BY <1>1, <2>1, <2>3
<1> HIDE DEF st
<1>3. st = base
  BY <1>1, <1>2
<1> QED
  BY <1>3 DEF st

LEMMA EmptyEntry == Entry("*", <<>>) \in Entries /\ Entry("*", <<>>).hooks = <<>>
<1>1. <<>> \in Seq(Commands) /\ "*" \in MatcherForms
  BY DEF MatcherForms
<1> QED
  BY <1>1 DEF Entry, Entries

LEMMA StrippedOurs ==
  ASSUME NEW base \in Seq(Entries), Unmarked(base), NEW s \in Scopes, NEW t \in Scopes
  PROVE  stripped(Append(base, OurEntry(t)), s) =
           Append(base, IF t = s THEN Entry("*", <<>>) ELSE OurEntry(t))
<1> DEFINE l == Append(base, OurEntry(t))
           st == stripped(l, s)
           x == IF t = s THEN Entry("*", <<>>) ELSE OurEntry(t)
           n == Len(base) + 1
           m == Append(base, x)
<1>1. /\ hook_command(t) \in Commands /\ OurEntry(t) \in Entries
      /\ OurEntry(t).matcher = "*" /\ OurEntry(t).hooks = <<hook_command(t)>>
      /\ hook_command(t).runs = t
  BY CommandTyped, OurEntryIs
<1>2. x \in Entries
  BY <1>1, EmptyEntry
<1>3. /\ l \in Seq(Entries) /\ Len(l) = n /\ DOMAIN l = 1 .. n /\ DOMAIN base = 1 .. Len(base)
      /\ \A i \in DOMAIN base : l[i] = base[i]
      /\ l[n] = OurEntry(t) /\ Len(base) \in Nat
  BY <1>1
<1> HIDE DEF x
<1>4. /\ m \in Seq(Entries) /\ Len(m) = n /\ DOMAIN m = 1 .. n /\ m[n] = x
      /\ \A i \in DOMAIN base : m[i] = base[i]
  BY <1>2
<1> HIDE DEF l
<1>5. /\ st \in Seq(Entries) /\ DOMAIN st = 1 .. n /\ Len(st) = n
      /\ \A i \in 1 .. n : st[i] = [matcher |-> l[i].matcher, hooks |-> without(l[i].hooks, s)]
  BY <1>3, StrippedIs
<1>6. \A i \in DOMAIN base : stripped(base, s)[i] = [matcher |-> base[i].matcher, hooks |-> without(base[i].hooks, s)]
  BY StrippedIs
<1>7. stripped(base, s) = base
  BY StrippedBase
<1> HIDE DEF st, m
<1>8. \A i \in DOMAIN base : st[i] = m[i]
  BY <1>3, <1>4, <1>5, <1>6, <1>7
<1>9. st[n] = m[n]
  <2>1. n \in 1 .. n /\ st[n] = [matcher |-> "*", hooks |-> without(<<hook_command(t)>>, s)]
    <3>1. n \in 1 .. n
      BY <1>3
    <3>2. st[n] = [matcher |-> l[n].matcher, hooks |-> without(l[n].hooks, s)]
      BY <1>5, <3>1
    <3>3. l[n] = OurEntry(t)
      BY <1>3
    <3> HIDE DEF n
    <3> QED
      BY <1>1, <3>1, <3>2, <3>3
  <2> DEFINE c == <<hook_command(t)>>
  <2>2. c \in Seq(Commands) /\ DOMAIN c = {1} /\ c[1].runs = t
    BY <1>1
  <2>3. \A j \in DOMAIN c : ours(c[j], s) <=> t = s
    BY <2>2 DEF ours
  <2> HIDE DEF c
  <2>4. without(c, s) = IF t = s THEN <<>> ELSE c
    BY <2>2, <2>3, WithoutIs
  <2>5. OurEntry(t) = [matcher |-> "*", hooks |-> c]
    BY DEF OurEntry, Entry, c
  <2> QED
    BY <1>4, <2>1, <2>4, <2>5 DEF x, c, Entry
<1>10. \A i \in 1 .. n : st[i] = m[i]
  BY <1>3, <1>8, <1>9
<1>11. st = m
  BY <1>4, <1>5, <1>10
<1> QED
  BY <1>11 DEF st, m, l, x

\* The entries of an owner that has none of ours, as they were or without the empty
\* ones, and at most one of ours behind them.
FromBase(entries, own) ==
  \E base \in Seq(Entries) :
    /\ Unmarked(base) /\ with_hooks(base) = with_hooks(own)
    /\ entries = base \/ \E s \in Scopes : entries = Append(base, OurEntry(s))

LEMMA MergedBase ==
  ASSUME NEW own, NEW entries, FromBase(entries, own), NEW s \in Scopes, NEW merge,
         \/ merge = merge_settings(entries, hook_command(s))
         \/ merge = merge_observer(entries, hook_command(s))
  PROVE  FromBase(merge, own)
<1>1. PICK base \in Seq(Entries) :
        /\ Unmarked(base) /\ with_hooks(base) = with_hooks(own)
        /\ entries = base \/ \E t \in Scopes : entries = Append(base, OurEntry(t))
  BY DEF FromBase
<1> DEFINE up == upgrade(entries, hook_command(s))
<1>2. \/ merge = up /\ \E i \in DOMAIN up : carries(up[i])
      \/ merge = Append(up, OurEntry(s)) /\ ~\E i \in DOMAIN up : carries(up[i]) /\ up[i].matcher = "*"
  BY DEF merge_settings, merge_observer, OurEntry
<1>3. CASE entries = base
  <2>1. up = base
    BY <1>1, <1>3, UpgradedBase
  <2>2. merge = Append(base, OurEntry(s))
    BY <1>1, <1>2, <2>1 DEF Unmarked
  <2> QED
    BY <1>1, <2>2 DEF FromBase
<1>4. ASSUME NEW t \in Scopes, entries = Append(base, OurEntry(t))
      PROVE  FromBase(merge, own)
  <2>1. up = Append(base, OurEntry(s))
    BY <1>1, <1>4, UpgradedOurs
  <2>2. carries(OurEntry(s)) /\ OurEntry(s).matcher = "*" /\ OurEntry(s) \in Entries
    BY OurEntryIs
  <2>3. Len(base) + 1 \in DOMAIN up /\ up[Len(base) + 1] = OurEntry(s)
    BY <2>1, <2>2
  <2> HIDE DEF up
  <2>4. merge = up
    BY <1>2, <2>2, <2>3
  <2> QED
    BY <1>1, <2>1, <2>4 DEF FromBase
<1> QED
  BY <1>1, <1>3, <1>4

LEMMA UnmergedBase ==
  ASSUME NEW own, NEW entries, FromBase(entries, own), NEW s \in Scopes
  PROVE  FromBase(unmerge_event(entries, s), own)
<1>1. PICK base \in Seq(Entries) :
        /\ Unmarked(base) /\ with_hooks(base) = with_hooks(own)
        /\ entries = base \/ \E t \in Scopes : entries = Append(base, OurEntry(t))
  BY DEF FromBase
<1> DEFINE left == with_hooks(base)
<1>2. /\ left \in Seq(Entries) /\ with_hooks(left) = left
      /\ \A k \in DOMAIN left : \E i \in DOMAIN base : left[k] = base[i]
  BY WithHooksIs, WithHooksAgain
<1>3. Unmarked(left) /\ with_hooks(left) = with_hooks(own)
  BY <1>1, <1>2 DEF Unmarked
<1>4. entries = base => unmerge_event(entries, s) = left
  BY <1>1, StrippedBase, UnmergedIs
<1>5. ASSUME NEW t \in Scopes, entries = Append(base, OurEntry(t))
      PROVE  unmerge_event(entries, s) = IF t = s THEN left ELSE Append(left, OurEntry(t))
  <2> DEFINE x == IF t = s THEN Entry("*", <<>>) ELSE OurEntry(t)
  <2>1. OurEntry(t) \in Entries /\ OurEntry(t).hooks # <<>>
    BY OurEntryIs
  <2>2. x \in Entries /\ (t = s => x.hooks = <<>>) /\ (t # s => x = OurEntry(t))
    BY <2>1, EmptyEntry
  <2>3. entries \in Seq(Entries)
    BY <1>5, <2>1
  <2>4. stripped(entries, s) = Append(base, x)
    BY <1>1, <1>5, StrippedOurs
  <2> HIDE DEF x
  <2>5. with_hooks(Append(base, x)) = IF x.hooks = <<>> THEN left ELSE Append(left, x)
    BY <2>2, WithHooksAppend
  <2>6. unmerge_event(entries, s) = with_hooks(stripped(entries, s))
    BY <2>3, UnmergedIs
  <2> QED
    BY <2>1, <2>2, <2>4, <2>5, <2>6
<1> HIDE DEF left
<1> QED
  BY <1>1, <1>2, <1>3, <1>4, <1>5 DEF FromBase

-----------------------------------------------------------------------------
(* The documents.                                                          *)

LEMMA DocumentFields ==
  ASSUME NEW doc \in SettingsDocuments
  PROVE  /\ doc.kind \in {"missing", "valid", "garbled", "odd", "unreadable"}
         /\ doc.hooks \in [Events -> Seq(Entries)] /\ doc.off \in BOOLEAN /\ doc.link \in BOOLEAN
         /\ doc = [kind |-> doc.kind, hooks |-> doc.hooks, off |-> doc.off, link |-> doc.link]
         /\ \A e \in Events : doc.hooks[e] \in Seq(Entries)
BY DEF SettingsDocuments

LEMMA MissingIs ==
  /\ Missing \in SettingsDocuments /\ Missing.kind = "missing" /\ Missing.off = FALSE
  /\ \A e \in Events : Missing.hooks[e] = <<>>
<1>1. <<>> \in Seq(Entries)
  OBVIOUS
<1>2. [e \in Events |-> <<>>] \in [Events -> Seq(Entries)]
  BY <1>1
<1> QED
  BY <1>2 DEF Missing, SettingsDocuments

LEMMA RegistersIs ==
  ASSUME NEW doc, NEW s
  PROVE  registers(doc, s) <=> \E e \in Events : Names(doc.hooks[e], s)
BY DEF registers, Names

LEMMA MissingRegisters ==
  ASSUME NEW s
  PROVE  ~registers(Missing, s)
BY MissingIs, RegistersIs DEF Names

\* How a document is merged: its events, one by one.
MergedFrom(doc, s) ==
  [doc EXCEPT !.kind = "valid",
              !.hooks = [e \in Events |-> IF e = "PreToolUse"
                                          THEN merge_settings(@[e], hook_command(s))
                                          ELSE merge_observer(@[e], hook_command(s))]]

LEMMA MergedFromIs ==
  ASSUME NEW doc \in SettingsDocuments, NEW s \in Scopes
  PROVE  /\ MergedFrom(doc, s) \in SettingsDocuments
         /\ MergedFrom(doc, s).kind = "valid" /\ MergedFrom(doc, s).off = doc.off
         /\ \A e \in Events :
              \/ MergedFrom(doc, s).hooks[e] = merge_settings(doc.hooks[e], hook_command(s))
              \/ MergedFrom(doc, s).hooks[e] = merge_observer(doc.hooks[e], hook_command(s))
         /\ MergedFrom(doc, s).hooks["PreToolUse"] =
              merge_settings(doc.hooks["PreToolUse"], hook_command(s))
<1> DEFINE new == MergedFrom(doc, s)
           hooks == [e \in Events |-> IF e = "PreToolUse"
                                       THEN merge_settings(doc.hooks[e], hook_command(s))
                                       ELSE merge_observer(doc.hooks[e], hook_command(s))]
<1>1. new = [doc EXCEPT !.kind = "valid", !.hooks = hooks]
  BY DEF MergedFrom
<1>2. /\ doc = [kind |-> doc.kind, hooks |-> doc.hooks, off |-> doc.off, link |-> doc.link]
      /\ doc.off \in BOOLEAN /\ doc.link \in BOOLEAN
  BY DocumentFields
<1>3. hooks \in [Events -> Seq(Entries)]
  <2>1. \A e \in Events : doc.hooks[e] \in Seq(Entries)
    BY DocumentFields
  <2>2. \A e \in Events : /\ merge_settings(doc.hooks[e], hook_command(s)) \in Seq(Entries)
                          /\ merge_observer(doc.hooks[e], hook_command(s)) \in Seq(Entries)
    BY <2>1, MergedIs
  <2> QED
    BY <2>2
<1>4. /\ \A e \in Events : \/ hooks[e] = merge_settings(doc.hooks[e], hook_command(s))
                            \/ hooks[e] = merge_observer(doc.hooks[e], hook_command(s))
      /\ hooks["PreToolUse"] = merge_settings(doc.hooks["PreToolUse"], hook_command(s))
  BY DEF Events
<1> HIDE DEF new, hooks
<1>5. new = [kind |-> "valid", hooks |-> hooks, off |-> doc.off, link |-> doc.link]
  BY <1>1, <1>2
<1>6. new.kind = "valid" /\ new.off = doc.off /\ new.hooks = hooks /\ new \in SettingsDocuments
  BY <1>2, <1>3, <1>5 DEF SettingsDocuments
<1> QED
  BY <1>4, <1>6 DEF new

LEMMA MergedDocument ==
  ASSUME NEW doc \in SettingsDocuments, NEW s \in Scopes, NEW new \in merged(doc, hook_command(s))
  PROVE  /\ new \in SettingsDocuments /\ new.kind = "valid" /\ (new.off => doc.off)
         /\ NamesForAll(new.hooks["PreToolUse"], s)
         /\ \A t \in Scopes : registers(new, t) => t = s
         /\ doc.kind # "unreadable" => new = MergedFrom(doc, s)
<1> DEFINE from == IF doc.kind = "unreadable" THEN Missing ELSE doc
<1>1. new = MergedFrom(from, s)
  BY DEF merged, MergedFrom
<1>2. from \in SettingsDocuments /\ (from.off => doc.off)
  BY MissingIs
<1>3. doc.kind # "unreadable" => from = doc
  OBVIOUS
<1> HIDE DEF from
<1>4. /\ new \in SettingsDocuments /\ new.kind = "valid" /\ new.off = from.off
      /\ \A e \in Events : \/ new.hooks[e] = merge_settings(from.hooks[e], hook_command(s))
                            \/ new.hooks[e] = merge_observer(from.hooks[e], hook_command(s))
      /\ new.hooks["PreToolUse"] = merge_settings(from.hooks["PreToolUse"], hook_command(s))
  BY <1>1, <1>2, MergedFromIs
<1>5. \A e \in Events : from.hooks[e] \in Seq(Entries)
  BY <1>2, DocumentFields
<1>6. NamesForAll(new.hooks["PreToolUse"], s)
  <2>1. "PreToolUse" \in Events
    BY DEF Events
  <2> QED
    BY <1>4, <1>5, <2>1, MergedNamesForAll
<1>7. ASSUME NEW t \in Scopes, registers(new, t)
      PROVE  t = s
  <2>1. PICK e \in Events : \E i \in DOMAIN new.hooks[e] : \E j \in DOMAIN new.hooks[e][i].hooks :
          ours(new.hooks[e][i].hooks[j], t)
    BY <1>7 DEF registers
  <2> DEFINE merge == new.hooks[e]
  <2>2. PICK i \in DOMAIN merge : \E j \in DOMAIN merge[i].hooks : ours(merge[i].hooks[j], t)
    BY <2>1
  <2>3. PICK j \in DOMAIN merge[i].hooks : ours(merge[i].hooks[j], t)
    BY <2>2
  <2>4. \/ merge = merge_settings(from.hooks[e], hook_command(s))
        \/ merge = merge_observer(from.hooks[e], hook_command(s))
    BY <1>4
  <2>5. from.hooks[e] \in Seq(Entries)
    BY <1>5
  <2>6. marked(merge[i].hooks[j]) /\ merge[i].hooks[j].runs = t
    BY <2>3 DEF marked, ours
  <2> HIDE DEF merge
  <2>7. merge[i].hooks[j] = hook_command(s)
    BY <2>4, <2>5, <2>6, MergedNames
  <2> QED
    BY <2>6, <2>7, CommandTyped
<1> QED
  BY <1>1, <1>2, <1>3, <1>4, <1>6, <1>7

LEMMA UnmergedDocument ==
  ASSUME NEW doc \in SettingsDocuments, NEW s \in Scopes
  PROVE  /\ unmerge_settings(doc, s) \in SettingsDocuments
         /\ unmerge_settings(doc, s).kind = doc.kind /\ unmerge_settings(doc, s).off = doc.off
         /\ \A e \in Events : unmerge_settings(doc, s).hooks[e] = unmerge_event(doc.hooks[e], s)
         /\ \A t : registers(unmerge_settings(doc, s), t) => registers(doc, t) /\ t # s
<1> DEFINE new == unmerge_settings(doc, s)
           hooks == [e \in Events |-> unmerge_event(doc.hooks[e], s)]
<1>1. new = [doc EXCEPT !.hooks = hooks]
  BY DEF unmerge_settings
<1>2. /\ doc = [kind |-> doc.kind, hooks |-> doc.hooks, off |-> doc.off, link |-> doc.link]
      /\ doc.off \in BOOLEAN /\ doc.link \in BOOLEAN
      /\ doc.kind \in {"missing", "valid", "garbled", "odd", "unreadable"}
      /\ \A e \in Events : doc.hooks[e] \in Seq(Entries)
  BY DocumentFields
<1>3. hooks \in [Events -> Seq(Entries)]
  BY <1>2, UnmergedNames
<1>4. \A e \in Events : hooks[e] = unmerge_event(doc.hooks[e], s)
  OBVIOUS
<1> HIDE DEF new, hooks
<1>5. new = [kind |-> doc.kind, hooks |-> hooks, off |-> doc.off, link |-> doc.link]
  BY <1>1, <1>2
<1>6. new.kind = doc.kind /\ new.off = doc.off /\ new.hooks = hooks /\ new \in SettingsDocuments
  BY <1>2, <1>3, <1>5 DEF SettingsDocuments
<1>7. ASSUME NEW t, registers(new, t)
      PROVE  registers(doc, t) /\ t # s
  <2>1. PICK e \in Events : Names(unmerge_event(doc.hooks[e], s), t)
    BY <1>4, <1>6, <1>7, RegistersIs
  <2> DEFINE was == doc.hooks[e]
             un == unmerge_event(was, s)
  <2>2. was \in Seq(Entries)
    BY <1>2
  <2>4. \E k \in DOMAIN un : \E j \in DOMAIN un[k].hooks : ours(un[k].hooks[j], t)
    BY <2>1 DEF Names
  <2> HIDE DEF was
  <2>3. \A k \in DOMAIN un : \E i \in DOMAIN was : \A j \in DOMAIN un[k].hooks :
          \E m \in DOMAIN was[i].hooks : ~ours(was[i].hooks[m], s) /\ un[k].hooks[j] = was[i].hooks[m]
    <3>1. \A k \in DOMAIN un : \E i \in DOMAIN was :
            /\ un[k].matcher = was[i].matcher
            /\ \A j \in DOMAIN un[k].hooks : \E m \in DOMAIN was[i].hooks :
                 ~ours(was[i].hooks[m], s) /\ un[k].hooks[j] = was[i].hooks[m]
      BY <2>2, UnmergedNames
    <3> QED
      BY <3>1
  <2> HIDE DEF un
  <2>5. \E i \in DOMAIN was : \E m \in DOMAIN was[i].hooks :
          ~ours(was[i].hooks[m], s) /\ ours(was[i].hooks[m], t)
    BY <2>3, <2>4
  <2>6. Names(was, t) /\ t # s
    BY <2>5 DEF Names, ours
  <2> QED
    BY <2>6, RegistersIs DEF was
<1> QED
  BY <1>4, <1>6, <1>7 DEF new

\* What a document that installers wrote is of the one its owner left there.
FromOwner(doc, own) ==
  /\ doc.off = own.off
  /\ \A e \in Events : OthersIn(doc.hooks[e]) = OthersIn(own.hooks[e])
  /\ (\A s \in Scopes : ~registers(own, s)) => \A e \in Events : FromBase(doc.hooks[e], own.hooks[e])

LEMMA Unregistered ==
  ASSUME NEW doc, \A s \in Scopes : ~registers(doc, s), NEW e \in Events
  PROVE  Unmarked(doc.hooks[e])
<1> SUFFICES ASSUME NEW i \in DOMAIN doc.hooks[e], NEW j \in DOMAIN doc.hooks[e][i].hooks,
                    marked(doc.hooks[e][i].hooks[j])
             PROVE  FALSE
  BY DEF Unmarked, carries
<1>1. PICK s \in Scopes : ours(doc.hooks[e][i].hooks[j], s)
  BY DEF marked, ours
<1> QED
  BY <1>1 DEF registers

LEMMA OwnersOwn ==
  ASSUME NEW own \in SettingsDocuments
  PROVE  FromOwner(own, own)
<1>1. ASSUME \A s \in Scopes : ~registers(own, s), NEW e \in Events
      PROVE  FromBase(own.hooks[e], own.hooks[e])
  BY <1>1, Unregistered, DocumentFields DEF FromBase
<1> QED
  BY <1>1 DEF FromOwner

LEMMA MergedFromOwner ==
  ASSUME NEW own, NEW doc \in SettingsDocuments, FromOwner(doc, own), NEW s \in Scopes
  PROVE  FromOwner(MergedFrom(doc, s), own)
<1> DEFINE new == MergedFrom(doc, s)
<1>1. /\ new.off = doc.off
      /\ \A e \in Events : \/ new.hooks[e] = merge_settings(doc.hooks[e], hook_command(s))
                            \/ new.hooks[e] = merge_observer(doc.hooks[e], hook_command(s))
  BY MergedFromIs
<1>2. \A e \in Events : doc.hooks[e] \in Seq(Entries)
  BY DocumentFields
<1> HIDE DEF new
<1>3. \A e \in Events : OthersIn(new.hooks[e]) = OthersIn(doc.hooks[e])
  BY <1>1, <1>2, MergedOthers
<1>4. \A e \in Events : FromBase(doc.hooks[e], own.hooks[e]) => FromBase(new.hooks[e], own.hooks[e])
  BY <1>1, MergedBase
<1>5. FromOwner(new, own)
  BY <1>1, <1>3, <1>4 DEF FromOwner
<1> QED
  BY <1>5 DEF new

LEMMA UnmergedFromOwner ==
  ASSUME NEW own, NEW doc \in SettingsDocuments, FromOwner(doc, own), NEW s \in Scopes
  PROVE  FromOwner(unmerge_settings(doc, s), own)
<1> DEFINE new == unmerge_settings(doc, s)
<1>1. new.off = doc.off /\ \A e \in Events : new.hooks[e] = unmerge_event(doc.hooks[e], s)
  BY UnmergedDocument
<1>2. \A e \in Events : doc.hooks[e] \in Seq(Entries)
  BY DocumentFields
<1> HIDE DEF new
<1>3. \A e \in Events : OthersIn(new.hooks[e]) = OthersIn(doc.hooks[e])
  BY <1>1, <1>2, UnmergedOthers
<1>4. \A e \in Events : FromBase(doc.hooks[e], own.hooks[e]) => FromBase(new.hooks[e], own.hooks[e])
  BY <1>1, UnmergedBase
<1>5. FromOwner(new, own)
  BY <1>1, <1>3, <1>4 DEF FromOwner
<1> QED
  BY <1>5 DEF new

LEMMA OwnerKeeps ==
  ASSUME NEW own, NEW doc, FromOwner(doc, own)
  PROVE  /\ doc.off = own.off
         /\ \A e \in Events : OthersIn(doc.hooks[e]) = OthersIn(own.hooks[e])
         /\ (\A s \in Scopes : ~registers(doc, s) /\ ~registers(own, s)) =>
              \A e \in Events : with_hooks(doc.hooks[e]) = with_hooks(own.hooks[e])
<1>1. ASSUME \A s \in Scopes : ~registers(doc, s) /\ ~registers(own, s), NEW e \in Events
      PROVE  with_hooks(doc.hooks[e]) = with_hooks(own.hooks[e])
  <2> DEFINE entries == doc.hooks[e]
  <2>1. Unmarked(entries) /\ FromBase(entries, own.hooks[e])
    BY <1>1, Unregistered DEF FromOwner
  <2>2. PICK base \in Seq(Entries) :
          /\ with_hooks(base) = with_hooks(own.hooks[e])
          /\ entries = base \/ \E s \in Scopes : entries = Append(base, OurEntry(s))
    BY <2>1 DEF FromBase
  <2> HIDE DEF entries
  <2>3. ASSUME NEW s \in Scopes, entries = Append(base, OurEntry(s))
        PROVE  FALSE
    <3>1. OurEntry(s) \in Entries /\ carries(OurEntry(s))
      BY OurEntryIs
    <3>2. Len(base) + 1 \in DOMAIN entries /\ entries[Len(base) + 1] = OurEntry(s)
      BY <2>3, <3>1
    <3> QED
      BY <2>1, <3>1, <3>2 DEF Unmarked
  <2> QED
    BY <2>2, <2>3 DEF entries
<1> QED
  BY <1>1 DEF FromOwner

-----------------------------------------------------------------------------
(* A run of an installer.                                                  *)

WriteWorld == [what |-> "manifest"]
WriteShim(u) == [what |-> "shim", shim |-> Shim(u.scope, u.bin)]
WriteSettings(doc) == [what |-> "settings", doc |-> doc]
WriteIgnore == [what |-> "gitignore"]
DropShim == [what |-> "no_shim"]

\* How far init has come, and what it has left to write.
AtWorld(u, doc) ==
  u.todo \in {<<WriteWorld, WriteShim(u), WriteSettings(doc)>>,
              <<WriteWorld, WriteShim(u), WriteSettings(doc), WriteIgnore>>}
AtShim(u, doc) ==
  u.todo \in {<<WriteShim(u), WriteSettings(doc)>>,
              <<WriteShim(u), WriteSettings(doc), WriteIgnore>>}
AtSettings(u, doc) == u.todo \in {<<WriteSettings(doc)>>, <<WriteSettings(doc), WriteIgnore>>}
AtEnd(u) == u.todo \in {<<>>, <<WriteIgnore>>}

HasRead(u) == settings[SettingsFile(u.scope)] = u.read
HasWorld(u) == manifest[u.scope] # "none"
HasShim(u) == shim[u.scope] = {Shim(u.scope, u.bin)}
HasHook(u) == NamesForAll(settings[SettingsFile(u.scope)].hooks["PreToolUse"], u.scope)

\* What init has written is there, and what it has read is what it read, as long as
\* nobody else touches anything.
InitSound(u) ==
  /\ u.bin \in {"global", "local"}
  /\ \E doc \in merged(u.read, hook_command(u.scope)) :
       \/ AtWorld(u, doc) /\ (u.alone => HasRead(u))
       \/ AtShim(u, doc) /\ (u.alone => HasRead(u) /\ HasWorld(u))
       \/ AtSettings(u, doc) /\ (u.alone => HasRead(u) /\ HasWorld(u) /\ HasShim(u))
       \/ AtEnd(u) /\ (u.alone => HasWorld(u) /\ HasShim(u) /\ HasHook(u))
  /\ u.alone =>
       /\ kernel[u.bin] = "fine"
       /\ u.scope = "managed" /\ u.pc = "write" => kernel["copy"] = "fine"

\* A remover takes the shim away when nothing is registered for it.
RemoveSound(u) ==
  /\ u.bin = "none" /\ u.scope \in {"user", "managed"} /\ u.scope \notin promised
  /\ \/ /\ \/ u.todo = <<WriteSettings(unmerge_settings(u.read, u.scope))>>
           \/ u.todo = <<WriteSettings(unmerge_settings(u.read, u.scope)), DropShim>>
        /\ u.read.kind = "valid" /\ (u.alone => HasRead(u))
     \/ /\ u.todo \in {<<>>, <<DropShim>>}
        /\ ~touched => ~registers(settings[u.scope], u.scope)

RunTyped(u) ==
  /\ u = [pc |-> u.pc, scope |-> u.scope, bin |-> u.bin, todo |-> u.todo, alone |-> u.alone,
          read |-> u.read]
  /\ u.pc \in {"copy", "copied", "write"} /\ u.scope \in Scopes /\ u.alone \in BOOLEAN
  /\ u.read \in SettingsDocuments

InstallerSound ==
  \/ setup = Idle
  \/ /\ RunTyped(setup)
     /\ InitSound(setup) \/ RemoveSound(setup)
     /\ promised # {} \/ ~touched => setup.alone

\* What makes the world of a scope decide every call.
PromiseKept(s) ==
  /\ NamesForAll(settings[SettingsFile(s)].hooks["PreToolUse"], s)
  /\ \A folder \in Folders : ~Disabled(s, folder)
  /\ \E bin \in {"global", "local"} :
       /\ shim[s] = {Shim(s, bin)}
       /\ IF s = "managed" THEN kernel["copy"] \in {"fine", "torn"} ELSE Execs(s, bin) = "fine"
  /\ switches \cap off_files(s) = {} /\ env.bash /\ Compiles(manifest[s])

\* A scope that nobody touched is registered when it has its shim and its world.
ScopeSound(s) ==
  /\ registers(settings[SettingsFile(s)], s) => shim[s] # {} /\ manifest[s] # "none"
  /\ settings[s].kind = "valid" \/ \A t \in Scopes : ~registers(settings[s], t)

MachineTyped ==
  /\ at_home \in BOOLEAN
  /\ settings \in [Scopes -> SettingsDocuments] /\ given \in [Scopes -> SettingsDocuments]
  /\ shim = [s \in Scopes |-> shim[s]] /\ manifest = [s \in Scopes |-> manifest[s]]
  /\ kernel = [bin \in {"global", "local", "copy"} |-> kernel[bin]]
  /\ promised \subseteq Scopes

SetupSound ==
  /\ MachineTyped /\ InstallerSound
  /\ \A s \in promised : PromiseKept(s)
  /\ ~touched => \A s \in Scopes : ScopeSound(s)
  /\ \A f \in Scopes \ lost : FromOwner(settings[f], given[f])

LEMMA Added ==
  ASSUME NEW S, NEW s \in Seq(S), NEW x \in S
  PROVE  /\ s \o <<x>> \in Seq(S) /\ Len(s \o <<x>>) = Len(s) + 1
         /\ \A i \in 1 .. Len(s) : (s \o <<x>>)[i] = s[i]
         /\ (s \o <<x>>)[Len(s) + 1] = x
OBVIOUS

LEMMA SameList ==
  ASSUME NEW S, NEW s \in Seq(S), NEW t \in Seq(S), Len(s) = Len(t), \A i \in 1 .. Len(s) : s[i] = t[i]
  PROVE  s = t
OBVIOUS

LEMMA Extends ==
  ASSUME NEW S, NEW s \in Seq(S), NEW x \in S, NEW t \in Seq(S), Len(t) = Len(s) + 1,
         \A i \in 1 .. Len(s) : t[i] = s[i], t[Len(s) + 1] = x
  PROVE  s \o <<x>> = t
<1> DEFINE l == s \o <<x>>
<1>1. l \in Seq(S) /\ Len(l) = Len(s) + 1 /\ (\A i \in 1 .. Len(s) : l[i] = s[i]) /\ l[Len(s) + 1] = x
  BY Added
<1> HIDE DEF l
<1>3. Len(s) \in Nat
  OBVIOUS
<1>2. \A i \in 1 .. Len(l) : l[i] = t[i]
  <2> TAKE i \in 1 .. Len(l)
  <2>1. i \in 1 .. Len(s) \/ i = Len(s) + 1
    BY <1>1, <1>3
  <2> QED
    BY <1>1, <2>1
<1>4. l = t
  BY <1>1, <1>2, SameList
<1> QED
  BY <1>4 DEF l

LEMMA Lists ==
  ASSUME NEW a, NEW b, NEW c, NEW d
  PROVE  /\ <<>> \o <<b>> = <<b>> /\ <<a>> \o <<b>> = <<a, b>>
         /\ <<a, b>> \o <<c>> = <<a, b, c>> /\ <<a, b, c>> \o <<d>> = <<a, b, c, d>>
<1> DEFINE S == {a, b, c, d}
           l1 == <<b>>
           l2 == <<a, b>>
           l3 == <<a, b, c>>
           l4 == <<a, b, c, d>>
           m0 == <<>>
           m1 == <<a>>
<1>1. a \in S /\ b \in S /\ c \in S /\ d \in S
  OBVIOUS
<1>2. /\ l1 \in Seq(S) /\ l2 \in Seq(S) /\ l3 \in Seq(S) /\ l4 \in Seq(S) /\ m0 \in Seq(S) /\ m1 \in Seq(S)
      /\ Len(m0) = 0 /\ Len(m1) = 1 /\ Len(l1) = 1 /\ Len(l2) = 2 /\ Len(l3) = 3 /\ Len(l4) = 4
      /\ l1[1] = b /\ m1[1] = a /\ l2[1] = a /\ l2[2] = b /\ l3[1] = a /\ l3[2] = b /\ l3[3] = c
      /\ l4[1] = a /\ l4[2] = b /\ l4[3] = c /\ l4[4] = d
  OBVIOUS
<1> HIDE DEF S, l1, l2, l3, l4, m0, m1
<1>3. m0 \o <<b>> = l1
  <2>1. \A i \in 1 .. Len(m0) : l1[i] = m0[i]
    <3>1. \A i \in 1 .. 0 : FALSE
      OBVIOUS
    <3> QED
      BY <1>2, <3>1
  <2>2. Len(l1) = Len(m0) + 1 /\ l1[Len(m0) + 1] = b
    BY <1>2
  <2> QED
    BY <1>1, <1>2, <2>1, <2>2, Extends
<1>4. m1 \o <<b>> = l2
  <2>1. \A i \in 1 .. Len(m1) : l2[i] = m1[i]
    <3>1. \A i \in 1 .. 1 : i = 1
      OBVIOUS
    <3> QED
      BY <1>2, <3>1
  <2>2. Len(l2) = Len(m1) + 1 /\ l2[Len(m1) + 1] = b
    BY <1>2
  <2> QED
    BY <1>1, <1>2, <2>1, <2>2, Extends
<1>5. l2 \o <<c>> = l3
  <2>1. \A i \in 1 .. Len(l2) : l3[i] = l2[i]
    <3>1. \A i \in 1 .. 2 : i = 1 \/ i = 2
      OBVIOUS
    <3> QED
      BY <1>2, <3>1
  <2>2. Len(l3) = Len(l2) + 1 /\ l3[Len(l2) + 1] = c
    BY <1>2
  <2> QED
    BY <1>1, <1>2, <2>1, <2>2, Extends
<1>6. l3 \o <<d>> = l4
  <2>1. \A i \in 1 .. Len(l3) : l4[i] = l3[i]
    <3>1. \A i \in 1 .. 3 : i = 1 \/ i = 2 \/ i = 3
      OBVIOUS
    <3> QED
      BY <1>2, <3>1
  <2>2. Len(l4) = Len(l3) + 1 /\ l4[Len(l3) + 1] = d
    BY <1>2
  <2> QED
    BY <1>1, <1>2, <2>1, <2>2, Extends
<1> QED
  BY <1>3, <1>4, <1>5, <1>6 DEF m0, m1, l1, l2, l3, l4

LEMMA NothingAdded ==
  ASSUME NEW S, NEW s \in Seq(S)
  PROVE  s \o <<>> = s
OBVIOUS

LEMMA ListEnds ==
  ASSUME NEW a, NEW b, NEW c, NEW d
  PROVE  /\ Head(<<a>>) = a /\ Tail(<<a>>) = <<>>
         /\ Head(<<a, b>>) = a /\ Tail(<<a, b>>) = <<b>>
         /\ Head(<<a, b, c>>) = a /\ Tail(<<a, b, c>>) = <<b, c>>
         /\ Head(<<a, b, c, d>>) = a /\ Tail(<<a, b, c, d>>) = <<b, c, d>>
         /\ <<a>> # <<>> /\ <<a, b>> # <<>> /\ <<a, b, c>> # <<>> /\ <<a, b, c, d>> # <<>>
OBVIOUS

LEMMA ListsOf ==
  ASSUME NEW a, NEW b, NEW c
  PROVE  <<a>> \o <<>> = <<a>> /\ <<a, b>> \o <<>> = <<a, b>> /\ <<a, b, c>> \o <<>> = <<a, b, c>>
         /\ <<>> \o <<>> = <<>>
<1> DEFINE S == {a, b, c}
<1>1. <<>> \in Seq(S) /\ <<a>> \in Seq(S) /\ <<a, b>> \in Seq(S) /\ <<a, b, c>> \in Seq(S)
  OBVIOUS
<1> HIDE DEF S
<1> QED
  BY <1>1, NothingAdded

LEMMA PlanIs ==
  ASSUME NEW s, NEW bin, NEW force, NEW doc, NEW put, put = [what |-> "shim", shim |-> Shim(s, bin)]
  PROVE  \/ plan(s, bin, force, doc) \in {<<WriteWorld, put, WriteSettings(doc)>>,
                                         <<WriteWorld, put, WriteSettings(doc), WriteIgnore>>}
         \/ /\ manifest[s] # "none"
            /\ plan(s, bin, force, doc) \in {<<put, WriteSettings(doc)>>,
                                             <<put, WriteSettings(doc), WriteIgnore>>}
<1> DEFINE m == WriteWorld
           t == WriteSettings(doc)
           n == WriteIgnore
           w == IF manifest[s] = "none" \/ force THEN <<m>> ELSE <<>>
           g == IF s = "project" /\ ~ignored THEN <<n>> ELSE <<>>
<1>1. plan(s, bin, force, doc) = w \o <<put>> \o <<t>> \o g
  BY DEF plan, WriteWorld, WriteSettings, WriteIgnore
<1>2. w = <<m>> \/ (w = <<>> /\ manifest[s] # "none")
  OBVIOUS
<1>3. g = <<n>> \/ g = <<>>
  OBVIOUS
<1> HIDE DEF w, g, m, n, t
<1>4. /\ <<m>> \o <<put>> = <<m, put>> /\ <<m, put>> \o <<t>> = <<m, put, t>>
      /\ <<m, put, t>> \o <<n>> = <<m, put, t, n>> /\ <<m, put, t>> \o <<>> = <<m, put, t>>
  BY Lists, ListsOf
<1>5. <<>> \o <<put>> = <<put>> /\ <<put>> \o <<t>> = <<put, t>> /\ <<put, t>> \o <<>> = <<put, t>>
  BY Lists, ListsOf
<1>6. <<put, t>> \o <<n>> = <<put, t, n>>
  BY Lists
<1>7. CASE w = <<m>>
  <2>1. w \o <<put>> \o <<t>> = <<m, put, t>>
    BY <1>4, <1>7
  <2>2. plan(s, bin, force, doc) \in {<<m, put, t>>, <<m, put, t, n>>}
    BY <1>1, <1>3, <1>4, <2>1
  <2> QED
    BY <2>2 DEF m, t, n
<1>8. CASE w = <<>> /\ manifest[s] # "none"
  <2>1. w \o <<put>> \o <<t>> = <<put, t>>
    BY <1>5, <1>8
  <2>2. plan(s, bin, force, doc) \in {<<put, t>>, <<put, t, n>>}
    BY <1>1, <1>3, <1>5, <1>6, <2>1
  <2> QED
    BY <1>8, <2>2 DEF t, n
<1> QED
  BY <1>2, <1>7, <1>8

\* Nothing is left to write only at the end of what init writes.
LEMMA Ended ==
  ASSUME NEW u, u.todo = <<>>, NEW doc, AtWorld(u, doc) \/ AtShim(u, doc) \/ AtSettings(u, doc)
  PROVE  FALSE
BY ListEnds DEF AtWorld, AtShim, AtSettings

\* A command that names a scope in a document of its own is somebody's.
LEMMA SetupStarts ==
  ASSUME DocumentsAssumption, SetupInit
  PROVE  SetupSound
<1>1. PICK doc \in Original : settings = [s \in Scopes |-> IF s = "user" THEN doc ELSE Missing]
  BY DEF SetupInit
<1>2. doc \in SettingsDocuments /\ \A s \in Scopes : ~registers(doc, s)
  BY DEF DocumentsAssumption
<1>3. settings \in [Scopes -> SettingsDocuments]
  BY <1>1, <1>2, MissingIs
<1>4. given = settings
  BY DEF SetupInit
<1>5. \A f \in Scopes : \A s \in Scopes : ~registers(settings[f], s)
  BY <1>1, <1>2, MissingRegisters
<1>6. MachineTyped
  BY <1>3, <1>4 DEF MachineTyped, SetupInit, Scopes
<1>7. InstallerSound /\ promised = {}
  BY DEF InstallerSound, SetupInit
<1>8. \A s \in Scopes : ScopeSound(s)
  <2> TAKE s \in Scopes
  <2>1. SettingsFile(s) \in Scopes
    BY DEF SettingsFile, Scopes
  <2> QED
    BY <1>5, <2>1 DEF ScopeSound
<1>9. \A f \in Scopes : FromOwner(settings[f], given[f])
  BY <1>3, <1>4, OwnersOwn
<1> QED
  BY <1>6, <1>7, <1>8, <1>9 DEF SetupSound

LEMMA TypedRun ==
  ASSUME NEW u, RunTyped(u), NEW pc \in {"copy", "copied", "write"}, NEW alone \in BOOLEAN, NEW todo,
         NEW v, v = [pc |-> pc, scope |-> u.scope, bin |-> u.bin, todo |-> todo, alone |-> alone,
                     read |-> u.read]
  PROVE  /\ RunTyped(v) /\ v.pc = pc /\ v.scope = u.scope /\ v.bin = u.bin /\ v.todo = todo
         /\ v.alone = alone /\ v.read = u.read
<1>1. /\ v.pc = pc /\ v.scope = u.scope /\ v.bin = u.bin /\ v.todo = todo
      /\ v.alone = alone /\ v.read = u.read
  OBVIOUS
<1>2. u.scope \in Scopes /\ u.read \in SettingsDocuments
  BY DEF RunTyped
<1>3. v = [pc |-> v.pc, scope |-> v.scope, bin |-> v.bin, todo |-> v.todo, alone |-> v.alone,
           read |-> v.read]
  BY <1>1
<1>4. RunTyped(v)
  BY <1>1, <1>2, <1>3 DEF RunTyped
<1> QED
  BY <1>1, <1>4

\* What an installer has found and written so far, in fields that only it writes.
LEMMA Moved ==
  ASSUME NEW u, NEW pc, NEW todo, NEW alone, NEW v,
         v = [u EXCEPT !.alone = alone] \/ v = [u EXCEPT !.pc = pc] \/ v = [u EXCEPT !.todo = todo],
         RunTyped(u)
  PROVE  /\ v = [u EXCEPT !.alone = alone] =>
              v = [pc |-> u.pc, scope |-> u.scope, bin |-> u.bin, todo |-> u.todo, alone |-> alone,
                   read |-> u.read]
         /\ v = [u EXCEPT !.pc = pc] =>
              v = [pc |-> pc, scope |-> u.scope, bin |-> u.bin, todo |-> u.todo, alone |-> u.alone,
                   read |-> u.read]
         /\ v = [u EXCEPT !.todo = todo] =>
              v = [pc |-> u.pc, scope |-> u.scope, bin |-> u.bin, todo |-> todo, alone |-> u.alone,
                   read |-> u.read]
BY DEF RunTyped

\* Whoever else touches anything, the installer is no longer alone, and no promise and
\* no entry is held against it.
LEMMA SomebodyKeeps ==
  ASSUME SetupSound, Somebody, MachineTyped',
         \A f \in Scopes \ lost' : FromOwner(settings'[f], given'[f])
  PROVE  SetupSound'
<1>1. promised' = {} /\ touched' = TRUE
  BY DEF Somebody
<1>2. (\A s \in promised : PromiseKept(s))' /\ (~touched => \A s \in Scopes : ScopeSound(s))'
  BY <1>1
<1>3. (\A f \in Scopes \ lost : FromOwner(settings[f], given[f]))'
  OBVIOUS
<1>4. InstallerSound'
  <2>1. CASE setup = Idle
    <3>1. setup.pc = "idle"
      BY <2>1 DEF Idle
    <3>2. setup' = Idle
      BY <2>1, <3>1 DEF Somebody
    <3> QED
      BY <3>2 DEF InstallerSound, Idle
  <2>2. CASE RunTyped(setup) /\ (InitSound(setup) \/ RemoveSound(setup))
    <3>0. PICK no \in BOOLEAN : no = FALSE
      OBVIOUS
    <3>1. setup' = [setup EXCEPT !.alone = no]
      BY <2>2, <3>0 DEF Somebody, RunTyped
    <3> DEFINE u == setup
               v == setup'
    <3>2. u.pc \in {"copy", "copied", "write"}
      BY <2>2 DEF RunTyped
    <3>3. v = [pc |-> u.pc, scope |-> u.scope, bin |-> u.bin, todo |-> u.todo, alone |-> no,
               read |-> u.read]
      BY <2>2, <3>1, Moved
    <3>4. /\ RunTyped(v) /\ v.scope = u.scope /\ v.bin = u.bin /\ v.todo = u.todo
          /\ v.alone = no /\ v.read = u.read
      BY <2>2, <3>2, <3>3, TypedRun
    <3>5. RunTyped(setup)'
      BY <3>4 DEF RunTyped
    <3>6. ASSUME InitSound(setup)
          PROVE  InitSound(setup)'
      <4>1. u.bin \in {"global", "local"}
        BY <3>6 DEF InitSound
      <4>2. PICK doc \in merged(u.read, hook_command(u.scope)) :
              AtWorld(u, doc) \/ AtShim(u, doc) \/ AtSettings(u, doc) \/ AtEnd(u)
        BY <3>6 DEF InitSound
      <4>3. (AtWorld(v, doc) \/ AtShim(v, doc) \/ AtSettings(v, doc) \/ AtEnd(v))
        BY <3>4, <4>2 DEF AtWorld, AtShim, AtSettings, AtEnd, WriteShim
      <4> QED
        BY <3>0, <3>4, <4>1, <4>2, <4>3 DEF InitSound, AtWorld, AtShim, AtSettings, AtEnd
    <3>7. ASSUME RemoveSound(setup)
          PROVE  RemoveSound(setup)'
      BY <1>1, <3>0, <3>4, <3>7 DEF RemoveSound
    <3> QED
      BY <1>1, <2>2, <3>5, <3>6, <3>7 DEF InstallerSound
  <2> QED
    BY <2>1, <2>2 DEF SetupSound, InstallerSound
<1> QED
  BY <1>2, <1>3, <1>4 DEF SetupSound

LEMMA OwnersKeep ==
  ASSUME SetupSound, UNCHANGED <<settings, given, lost>>
  PROVE  \A f \in Scopes \ lost' : FromOwner(settings'[f], given'[f])
BY DEF SetupSound

LEMMA OthersKeepSetup ==
  ASSUME DocumentsAssumption, SetupSound,
         EditsSettings \/ EditsWorld \/ EditsShim \/ ChangesKernel \/ ChangesSwitch \/ ChangesEnv
  PROVE  SetupSound'
<1>1. CASE EditsSettings
  <2>1. PICK file \in {SettingsFile(s) : s \in Scopes} : \E doc \in Documents :
          /\ Somebody /\ settings' = [settings EXCEPT ![file] = doc]
          /\ given' = [given EXCEPT ![file] = doc] /\ lost' = lost \ {file}
          /\ UNCHANGED <<shim, manifest, last_good, kernel, switches, env>>
    BY <1>1 DEF EditsSettings
  <2>2. PICK doc \in Documents :
          /\ Somebody /\ settings' = [settings EXCEPT ![file] = doc]
          /\ given' = [given EXCEPT ![file] = doc] /\ lost' = lost \ {file}
          /\ UNCHANGED <<shim, manifest, last_good, kernel, switches, env>>
    BY <2>1
  <2>3. doc \in SettingsDocuments /\ file \in Scopes
    BY DEF DocumentsAssumption, SettingsFile, Scopes
  <2>4. MachineTyped'
    BY <2>2, <2>3 DEF SetupSound, MachineTyped, Somebody
  <2>5. \A f \in Scopes \ lost' : FromOwner(settings'[f], given'[f])
    <3> TAKE f \in Scopes \ lost'
    <3>1. CASE f = file
      BY <2>2, <2>3, <3>1, OwnersOwn DEF SetupSound, MachineTyped
    <3>2. CASE f # file
      BY <2>2, <3>2 DEF SetupSound, MachineTyped
    <3> QED
      BY <3>1, <3>2
  <2> QED
    BY <2>2, <2>4, <2>5, SomebodyKeeps
<1>2. CASE EditsWorld
  <2>1. /\ Somebody /\ UNCHANGED <<settings, shim, kernel, given, lost>>
        /\ \/ \E s \in Scopes, text \in {"none", "tuned", "broken", "unreadable"} :
                manifest' = [manifest EXCEPT ![s] = text]
           \/ UNCHANGED manifest
    BY <1>2 DEF EditsWorld
  <2>2. MachineTyped'
    BY <2>1 DEF SetupSound, MachineTyped, Somebody
  <2> QED
    BY <2>1, <2>2, SomebodyKeeps, OwnersKeep
<1>3. CASE EditsShim
  <2>1. /\ Somebody /\ UNCHANGED <<settings, manifest, kernel, given, lost>>
        /\ \E s \in Scopes : \E new : shim' = [shim EXCEPT ![s] = new]
    BY <1>3 DEF EditsShim
  <2>2. MachineTyped'
    BY <2>1 DEF SetupSound, MachineTyped, Somebody
  <2> QED
    BY <2>1, <2>2, SomebodyKeeps, OwnersKeep
<1>4. CASE ChangesKernel
  <2>1. /\ Somebody /\ UNCHANGED <<settings, shim, manifest, given, lost>>
        /\ \E bin \in DOMAIN kernel, state \in {"gone", "torn", "no_exec", "directory", "fine"} :
             kernel' = [kernel EXCEPT ![bin] = state]
    BY <1>4 DEF ChangesKernel
  <2>2. MachineTyped'
    BY <2>1 DEF SetupSound, MachineTyped, Somebody
  <2> QED
    BY <2>1, <2>2, SomebodyKeeps, OwnersKeep
<1>5. CASE ChangesSwitch \/ ChangesEnv
  <2>1. Somebody /\ UNCHANGED <<settings, shim, manifest, kernel, given, lost>>
    BY <1>5 DEF ChangesSwitch, ChangesEnv
  <2>2. MachineTyped'
    BY <2>1 DEF SetupSound, MachineTyped, Somebody
  <2> QED
    BY <2>1, <2>2, SomebodyKeeps, OwnersKeep
<1> QED
  BY <1>1, <1>2, <1>3, <1>4, <1>5

\* A promise is kept by what it is about.
LEMMA SameFilesKeep ==
  ASSUME SetupSound, UNCHANGED <<at_home, settings, shim, manifest, kernel, switches, env>>,
         promised' \subseteq promised, UNCHANGED <<touched, given, lost>>
  PROVE  /\ MachineTyped'
         /\ (\A s \in promised : PromiseKept(s))'
         /\ (~touched => \A s \in Scopes : ScopeSound(s))'
         /\ (\A f \in Scopes \ lost : FromOwner(settings[f], given[f]))'
<1>1. /\ at_home' = at_home /\ settings' = settings /\ shim' = shim /\ manifest' = manifest
      /\ kernel' = kernel /\ switches' = switches /\ env' = env
      /\ touched' = touched /\ given' = given /\ lost' = lost
  OBVIOUS
<1>2. MachineTyped'
  BY <1>1 DEF SetupSound, MachineTyped
<1>3. (\A s \in promised : PromiseKept(s))'
  BY <1>1 DEF SetupSound, PromiseKept, SettingsFile, Disabled, Loaded, Execs
<1>4. (~touched => \A s \in Scopes : ScopeSound(s))'
  BY <1>1 DEF SetupSound, ScopeSound, SettingsFile
<1>5. (\A f \in Scopes \ lost : FromOwner(settings[f], given[f]))'
  BY <1>1 DEF SetupSound
<1> QED
  BY <1>2, <1>3, <1>4, <1>5

LEMMA StopsKeeps ==
  ASSUME SetupSound, Stops
  PROVE  SetupSound'
<1>1. InstallerSound'
  BY DEF Stops, InstallerSound
<1>2. UNCHANGED machine /\ promised' \subseteq promised /\ UNCHANGED <<touched, given, lost>>
  BY DEF Stops, told
<1> QED
  BY <1>1, <1>2, SameFilesKeep DEF SetupSound, machine

LEMMA FinishKeeps ==
  ASSUME SetupSound, Finish
  PROVE  SetupSound'
<1> DEFINE u == setup
<1>0. /\ at_home' = at_home /\ settings' = settings /\ shim' = shim /\ manifest' = manifest
      /\ kernel' = kernel /\ switches' = switches /\ env' = env
      /\ touched' = touched /\ given' = given /\ lost' = lost
  BY DEF Finish, machine
<1>1. InstallerSound'
  BY DEF Finish, InstallerSound
<1>2. MachineTyped /\ RunTyped(u) /\ (InitSound(u) \/ RemoveSound(u)) /\ u.todo = <<>> /\ u.pc = "write"
  BY DEF SetupSound, InstallerSound, Idle, Finish
<1>3. ASSUME u.bin # "none", u.alone, ~Hindered(u.scope)
      PROVE  PromiseKept(u.scope)
  <2>1. InitSound(u)
    BY <1>2, <1>3 DEF RemoveSound
  <2>2. /\ u.bin \in {"global", "local"} /\ kernel[u.bin] = "fine"
        /\ u.scope = "managed" => kernel["copy"] = "fine"
    BY <1>2, <1>3, <2>1 DEF InitSound
  <2>3. HasWorld(u) /\ HasShim(u) /\ HasHook(u)
    BY <1>2, <1>3, <2>1, Ended DEF InitSound
  <2>4. /\ Compiles(manifest[u.scope]) /\ switches \cap off_files(u.scope) = {} /\ env.bash
        /\ Execs(u.scope, IF u.scope = "managed" THEN "copy" ELSE u.bin) = "fine"
        /\ \A folder \in Folders : ~Disabled(u.scope, folder)
    BY <1>3 DEF Hindered
  <2> QED
    BY <2>2, <2>3, <2>4 DEF PromiseKept, HasShim, HasHook
<1>4. (\A s \in promised : PromiseKept(s))'
  <2> SUFFICES ASSUME NEW s \in promised'
               PROVE  PromiseKept(s)'
    OBVIOUS
  <2>1. PromiseKept(s)
    BY <1>3 DEF Finish, SetupSound
  <2> QED
    BY <1>0, <2>1 DEF PromiseKept, SettingsFile, Disabled, Loaded, Execs
<1>5. MachineTyped'
  BY <1>0, <1>2 DEF MachineTyped, Finish, RunTyped
<1>6. (~touched => \A s \in Scopes : ScopeSound(s))'
  BY <1>0 DEF SetupSound, ScopeSound, SettingsFile
<1>7. (\A f \in Scopes \ lost : FromOwner(settings[f], given[f]))'
  BY <1>0 DEF SetupSound
<1> QED
  BY <1>1, <1>4, <1>5, <1>6, <1>7 DEF SetupSound

LEMMA InstallKeeps ==
  ASSUME SetupSound, Install
  PROVE  SetupSound'
<1>1. PICK scope \in Scopes : \E force \in BOOLEAN, bin \in {"global", "local"} :
        /\ kernel[bin] = "fine"
        /\ \E new \in merged(settings[SettingsFile(scope)], hook_command(scope)) :
             Starts(scope, IF scope = "managed" THEN "copy" ELSE "write", bin,
                    plan(scope, bin, force, new))
  BY DEF Install
<1>2. PICK force \in BOOLEAN, bin \in {"global", "local"} :
        /\ kernel[bin] = "fine"
        /\ \E new \in merged(settings[SettingsFile(scope)], hook_command(scope)) :
             Starts(scope, IF scope = "managed" THEN "copy" ELSE "write", bin,
                    plan(scope, bin, force, new))
  BY <1>1
<1>3. PICK new \in merged(settings[SettingsFile(scope)], hook_command(scope)) :
        Starts(scope, IF scope = "managed" THEN "copy" ELSE "write", bin,
               plan(scope, bin, force, new))
  BY <1>2
<1> DEFINE v == setup'
           todo == plan(scope, bin, force, new)
           pc == IF scope = "managed" THEN "copy" ELSE "write"
           read == settings[SettingsFile(scope)]
<1>4. PICK yes \in BOOLEAN : yes = TRUE
  OBVIOUS
<1>5. v = [pc |-> pc, scope |-> scope, bin |-> bin, todo |-> todo, alone |-> yes, read |-> read]
  BY <1>3, <1>4 DEF Starts
<1>6. read \in SettingsDocuments
  BY DEF SetupSound, MachineTyped, SettingsFile, Scopes
<1> HIDE DEF todo, read
<1>7. /\ v.pc = pc /\ v.scope = scope /\ v.bin = bin /\ v.todo = todo /\ v.alone = yes /\ v.read = read
  BY <1>5
<1>8. UNCHANGED machine /\ UNCHANGED told
  BY DEF Install
<1>9. RunTyped(setup)'
  <2>1. v = [pc |-> v.pc, scope |-> v.scope, bin |-> v.bin, todo |-> v.todo, alone |-> v.alone, read |-> v.read]
    BY <1>5, <1>7
  <2> QED
    BY <1>6, <1>7, <2>1 DEF RunTyped
<1>10. InitSound(setup)'
  <2>1. PICK put : put = [what |-> "shim", shim |-> Shim(scope, bin)]
    OBVIOUS
  <2>2. \/ todo \in {<<WriteWorld, put, WriteSettings(new)>>, <<WriteWorld, put, WriteSettings(new), WriteIgnore>>}
        \/ /\ manifest[scope] # "none"
           /\ todo \in {<<put, WriteSettings(new)>>, <<put, WriteSettings(new), WriteIgnore>>}
    BY <2>1, PlanIs DEF todo
  <2>3. WriteShim(v) = put
    BY <1>7, <2>1 DEF WriteShim
  <2>4. AtWorld(v, new) \/ (manifest[scope] # "none" /\ AtShim(v, new))
    BY <1>7, <2>2, <2>3 DEF AtWorld, AtShim
  <2>5. HasRead(setup)'
    BY <1>7, <1>8 DEF HasRead, machine, SettingsFile, read
  <2>6. new \in merged(v.read, hook_command(v.scope))
    BY <1>7 DEF read
  <2>7. kernel'[v.bin] = "fine" /\ ~(v.scope = "managed" /\ v.pc = "write")
    BY <1>2, <1>7, <1>8 DEF machine
  <2>8. manifest[scope] # "none" => HasWorld(setup)'
    BY <1>7, <1>8 DEF machine, HasWorld
  <2> QED
    BY <1>4, <1>7, <2>4, <2>5, <2>6, <2>7, <2>8 DEF InitSound, AtWorld, AtShim, WriteShim
<1>11. InstallerSound'
  BY <1>4, <1>7, <1>9, <1>10 DEF InstallerSound
<1> QED
  BY <1>8, <1>11, SameFilesKeep DEF told, SetupSound, machine

LEMMA CopyKeeps ==
  ASSUME SetupSound, Copy \/ Copied
  PROVE  SetupSound'
<1> DEFINE u == setup
           v == setup'
<1>1. u.pc \in {"copy", "copied"}
  BY DEF Copy, Copied
<1>2. RunTyped(u) /\ (InitSound(u) \/ RemoveSound(u))
  BY <1>1 DEF SetupSound, InstallerSound, Idle
<1>3. PICK pc \in {"copied", "write"} : v = [u EXCEPT !.pc = pc] /\ (pc = "write" => kernel'["copy"] = "fine")
  BY DEF Copy, Copied, SetupSound, MachineTyped
<1>4. /\ RunTyped(v) /\ v.pc = pc /\ v.scope = u.scope /\ v.bin = u.bin /\ v.todo = u.todo
      /\ v.alone = u.alone /\ v.read = u.read
  <2>1. v = [pc |-> pc, scope |-> u.scope, bin |-> u.bin, todo |-> u.todo, alone |-> u.alone, read |-> u.read]
    BY <1>2, <1>3, Moved
  <2>2. u.alone \in BOOLEAN
    BY <1>2 DEF RunTyped
  <2> QED
    BY <1>2, <2>1, <2>2, TypedRun
<1>5. UNCHANGED <<at_home, settings, shim, manifest, switches, env, promised, touched, given, lost>>
  BY DEF Copy, Copied, told
<1>6. /\ kernel' = [bin \in {"global", "local", "copy"} |-> kernel'[bin]]
      /\ \A bin \in {"global", "local"} : kernel'[bin] = kernel[bin]
      /\ kernel'["copy"] \in {"fine", "torn"}
  BY DEF Copy, Copied, SetupSound, MachineTyped
<1>7. MachineTyped'
  BY <1>5, <1>6 DEF SetupSound, MachineTyped
<1>8. InstallerSound'
  <2>1. ASSUME InitSound(u)
        PROVE  InitSound(u)'
    <3>1. u.bin \in {"global", "local"} /\ (u.alone => kernel[u.bin] = "fine")
      BY <2>1 DEF InitSound
    <3>2. PICK doc \in merged(u.read, hook_command(u.scope)) :
            \/ AtWorld(u, doc) /\ (u.alone => HasRead(u))
            \/ AtShim(u, doc) /\ (u.alone => HasRead(u) /\ HasWorld(u))
            \/ AtSettings(u, doc) /\ (u.alone => HasRead(u) /\ HasWorld(u) /\ HasShim(u))
            \/ AtEnd(u) /\ (u.alone => HasWorld(u) /\ HasShim(u) /\ HasHook(u))
      BY <2>1 DEF InitSound
    <3>3. /\ HasRead(u)' <=> HasRead(u)
          /\ HasWorld(u)' <=> HasWorld(u)
          /\ HasShim(u)' <=> HasShim(u)
          /\ HasHook(u)' <=> HasHook(u)
      BY <1>4, <1>5 DEF HasRead, HasWorld, HasShim, HasHook, SettingsFile
    <3>4. /\ AtWorld(u, doc)' <=> AtWorld(u, doc)
          /\ AtShim(u, doc)' <=> AtShim(u, doc)
          /\ AtSettings(u, doc)' <=> AtSettings(u, doc)
          /\ AtEnd(u)' <=> AtEnd(u)
      BY <1>4 DEF AtWorld, AtShim, AtSettings, AtEnd, WriteShim
    <3>5. u'.alone => kernel'[u'.bin] = "fine" /\ (u'.scope = "managed" /\ u'.pc = "write" => kernel'["copy"] = "fine")
      BY <1>3, <1>4, <1>6, <3>1
    <3> QED
      BY <1>4, <3>1, <3>2, <3>3, <3>4, <3>5 DEF InitSound
  <2>2. ASSUME RemoveSound(u)
        PROVE  RemoveSound(u)'
    BY <1>4, <1>5, <2>2 DEF RemoveSound, HasRead, SettingsFile
  <2>3. (promised # {} \/ ~touched => u.alone)'
    BY <1>1, <1>4, <1>5 DEF SetupSound, InstallerSound, Idle
  <2>4. RunTyped(setup)'
    BY <1>4 DEF RunTyped
  <2> QED
    BY <1>2, <2>1, <2>2, <2>3, <2>4 DEF InstallerSound
<1>9. (\A s \in promised : PromiseKept(s))'
  BY <1>5, <1>6 DEF SetupSound, PromiseKept, SettingsFile, Disabled, Loaded, Execs
<1>10. (~touched => \A s \in Scopes : ScopeSound(s))'
  BY <1>5 DEF SetupSound, ScopeSound, SettingsFile
<1> QED
  BY <1>5, <1>7, <1>8, <1>9, <1>10 DEF SetupSound

LEMMA RemoveKeeps ==
  ASSUME SetupSound, RemoveHook
  PROVE  SetupSound'
<1>1. PICK scope \in {"user", "managed"} :
        LET doc == settings[scope]
            there == doc.kind = "valid" /\ registers(doc, scope)
        IN  /\ Starts(scope, "write", "none",
                      (IF there THEN <<[what |-> "settings", doc |-> unmerge_settings(doc, scope)]>>
                       ELSE <<>>)
                      \o (IF shim[scope] # {} THEN <<[what |-> "no_shim"]>> ELSE <<>>))
            /\ promised' = promised \ {scope}
  BY DEF RemoveHook
<1> DEFINE v == setup'
           read == settings[scope]
           there == read.kind = "valid" /\ registers(read, scope)
           first == IF there THEN <<WriteSettings(unmerge_settings(read, scope))>> ELSE <<>>
           last == IF shim[scope] # {} THEN <<DropShim>> ELSE <<>>
           todo == first \o last
<1>2. SettingsFile(scope) = scope /\ scope \in Scopes
  BY DEF SettingsFile, Scopes
<1>3. PICK yes \in BOOLEAN : yes = TRUE
  OBVIOUS
<1>4. v = [pc |-> "write", scope |-> scope, bin |-> "none", todo |-> todo, alone |-> yes, read |-> read]
  BY <1>1, <1>2, <1>3 DEF Starts, WriteSettings, DropShim
<1>5. read \in SettingsDocuments
  BY <1>2 DEF SetupSound, MachineTyped
<1>6. UNCHANGED machine /\ promised' = promised \ {scope} /\ UNCHANGED <<touched, given, lost>>
  BY <1>1 DEF RemoveHook
<1>7. PICK d : d = WriteSettings(unmerge_settings(read, scope))
  OBVIOUS
<1>8. (there /\ todo \in {<<d>>, <<d, DropShim>>}) \/ (~there /\ todo \in {<<>>, <<DropShim>>})
  <2>1. PICK drop : drop = DropShim
    OBVIOUS
  <2>2. (there => first = <<d>>) /\ (~there => first = <<>>) /\ last \in {<<>>, <<drop>>}
    BY <1>7, <2>1
  <2> HIDE DEF first, last, there
  <2>3. <<d>> \o <<>> = <<d>> /\ <<>> \o <<>> = <<>>
    BY ListsOf
  <2>4. <<d>> \o <<drop>> = <<d, drop>> /\ <<>> \o <<drop>> = <<drop>>
    BY Lists
  <2> QED
    BY <2>1, <2>2, <2>3, <2>4
<1> HIDE DEF todo
<1>9. /\ v.pc = "write" /\ v.scope = scope /\ v.bin = "none" /\ v.todo = todo /\ v.alone = yes
      /\ v.read = read
  BY <1>4
<1>10. RunTyped(setup)'
  <2>1. v = [pc |-> v.pc, scope |-> v.scope, bin |-> v.bin, todo |-> v.todo, alone |-> v.alone, read |-> v.read]
    BY <1>4, <1>9
  <2> QED
    BY <1>2, <1>5, <1>9, <2>1 DEF RunTyped
<1>11. RemoveSound(setup)'
  <2>1. HasRead(setup)'
    BY <1>2, <1>6, <1>9 DEF HasRead, machine, SettingsFile
  <2>2. ~there /\ ~touched => ~registers(settings[scope], scope)
    BY <1>2 DEF SetupSound, ScopeSound
  <2>3. settings' = settings /\ touched' = touched
    BY <1>6 DEF machine
  <2> QED
    BY <1>2, <1>6, <1>7, <1>8, <1>9, <2>1, <2>2, <2>3 DEF RemoveSound
<1>12. InstallerSound'
  BY <1>3, <1>9, <1>10, <1>11 DEF InstallerSound
<1> QED
  BY <1>6, <1>12, SameFilesKeep DEF SetupSound, machine

\* A world that init writes compiles.
LEMMA WorldKeeps ==
  ASSUME SetupSound, NEW s \in Scopes, manifest' = [manifest EXCEPT ![s] = "starter"],
         UNCHANGED <<at_home, settings, shim, kernel, switches, env, told>>
  PROVE  /\ MachineTyped' /\ manifest'[s] = "starter"
         /\ (\A t \in promised : PromiseKept(t))'
         /\ (~touched => \A t \in Scopes : ScopeSound(t))'
         /\ (\A f \in Scopes \ lost : FromOwner(settings[f], given[f]))'
<1>1. /\ at_home' = at_home /\ settings' = settings /\ shim' = shim
      /\ kernel' = kernel /\ switches' = switches /\ env' = env
      /\ touched' = touched /\ given' = given /\ lost' = lost /\ promised' = promised
  BY DEF told
<1>2. manifest = [t \in Scopes |-> manifest[t]]
  BY DEF SetupSound, MachineTyped
<1>3. \A t \in Scopes : manifest'[t] = "starter" \/ manifest'[t] = manifest[t]
  BY <1>2
<1>4. MachineTyped' /\ manifest'[s] = "starter"
  BY <1>1, <1>2 DEF SetupSound, MachineTyped
<1>5. \A t \in promised : PromiseKept(t)'
  <2> TAKE t \in promised
  <2>1. t \in Scopes /\ PromiseKept(t)
    BY DEF SetupSound, MachineTyped
  <2>2. Compiles(manifest'[t])
    BY <1>3, <2>1 DEF PromiseKept, Compiles
  <2> QED
    BY <1>1, <2>1, <2>2 DEF PromiseKept, SettingsFile, Disabled, Loaded, Execs
<1>6. (~touched => \A t \in Scopes : ScopeSound(t))'
  BY <1>1, <1>3 DEF SetupSound, ScopeSound, SettingsFile
<1>7. (\A f \in Scopes \ lost : FromOwner(settings[f], given[f]))'
  BY <1>1 DEF SetupSound
<1> QED
  BY <1>1, <1>4, <1>5, <1>6, <1>7

\* So does a shim over a kernel that runs.
LEMMA ShimKeeps ==
  ASSUME SetupSound, NEW s \in Scopes, NEW bin \in {"global", "local"},
         s \in promised => kernel[bin] = "fine",
         shim' = [shim EXCEPT ![s] = {Shim(s, bin)}],
         UNCHANGED <<at_home, settings, manifest, kernel, switches, env, told>>
  PROVE  /\ MachineTyped' /\ shim'[s] = {Shim(s, bin)}
         /\ (\A t \in promised : PromiseKept(t))'
         /\ (~touched => \A t \in Scopes : ScopeSound(t))'
         /\ (\A f \in Scopes \ lost : FromOwner(settings[f], given[f]))'
<1>1. /\ at_home' = at_home /\ settings' = settings /\ manifest' = manifest
      /\ kernel' = kernel /\ switches' = switches /\ env' = env
      /\ touched' = touched /\ given' = given /\ lost' = lost /\ promised' = promised
  BY DEF told
<1>2. shim = [t \in Scopes |-> shim[t]]
  BY DEF SetupSound, MachineTyped
<1>3. shim'[s] = {Shim(s, bin)} /\ \A t \in Scopes \ {s} : shim'[t] = shim[t]
  BY <1>2
<1>4. MachineTyped'
  BY <1>1, <1>2 DEF SetupSound, MachineTyped
<1>5. \A t \in promised : PromiseKept(t)'
  <2> TAKE t \in promised
  <2>1. t \in Scopes /\ PromiseKept(t)
    BY DEF SetupSound, MachineTyped
  <2>2. \E b \in {"global", "local"} :
          /\ shim'[t] = {Shim(t, b)}
          /\ IF t = "managed" THEN kernel["copy"] \in {"fine", "torn"} ELSE Execs(t, b) = "fine"
    <3>1. CASE t = s
      BY <1>3, <2>1, <3>1 DEF PromiseKept, Execs
    <3>2. CASE t # s
      BY <1>3, <2>1, <3>2 DEF PromiseKept
    <3> QED
      BY <3>1, <3>2
  <2> QED
    BY <1>1, <2>1, <2>2 DEF PromiseKept, SettingsFile, Disabled, Loaded, Execs
<1>6. (~touched => \A t \in Scopes : ScopeSound(t))'
  BY <1>1, <1>3 DEF SetupSound, ScopeSound, SettingsFile
<1>7. (\A f \in Scopes \ lost : FromOwner(settings[f], given[f]))'
  BY <1>1 DEF SetupSound
<1> QED
  BY <1>1, <1>3, <1>4, <1>5, <1>6, <1>7

\* A shim that goes is one that nobody promised and nothing names.
LEMMA DropKeeps ==
  ASSUME SetupSound, NEW s \in Scopes, s \notin promised,
         ~touched => ~registers(settings[SettingsFile(s)], s),
         shim' = [shim EXCEPT ![s] = {}],
         UNCHANGED <<at_home, settings, manifest, kernel, switches, env, told>>
  PROVE  /\ MachineTyped'
         /\ (\A t \in promised : PromiseKept(t))'
         /\ (~touched => \A t \in Scopes : ScopeSound(t))'
         /\ (\A f \in Scopes \ lost : FromOwner(settings[f], given[f]))'
<1>1. /\ at_home' = at_home /\ settings' = settings /\ manifest' = manifest
      /\ kernel' = kernel /\ switches' = switches /\ env' = env
      /\ touched' = touched /\ given' = given /\ lost' = lost /\ promised' = promised
  BY DEF told
<1>2. shim = [t \in Scopes |-> shim[t]]
  BY DEF SetupSound, MachineTyped
<1>3. \A t \in Scopes \ {s} : shim'[t] = shim[t]
  BY <1>2
<1>4. MachineTyped'
  BY <1>1, <1>2 DEF SetupSound, MachineTyped
<1>5. \A t \in promised : PromiseKept(t)'
  <2> TAKE t \in promised
  <2>1. t \in Scopes /\ PromiseKept(t) /\ t # s
    BY DEF SetupSound, MachineTyped
  <2>2. shim'[t] = shim[t]
    BY <1>3, <2>1
  <2> QED
    BY <1>1, <2>1, <2>2 DEF PromiseKept, SettingsFile, Disabled, Loaded, Execs
<1>6. (~touched => \A t \in Scopes : ScopeSound(t))'
  <2> SUFFICES ASSUME ~touched, NEW t \in Scopes
               PROVE  ScopeSound(t)'
    BY <1>1
  <2>1. ScopeSound(t)
    BY DEF SetupSound
  <2>2. t # s => shim'[t] = shim[t]
    BY <1>3
  <2> QED
    BY <1>1, <2>1, <2>2 DEF ScopeSound, SettingsFile
<1>7. (\A f \in Scopes \ lost : FromOwner(settings[f], given[f]))'
  BY <1>1 DEF SetupSound
<1> QED
  BY <1>1, <1>4, <1>5, <1>6, <1>7

\* So do settings that still disable nothing new, still name the scope if it was
\* promised, and name no other that has no shim.
LEMMA SettingsKeep ==
  ASSUME SetupSound, NEW s \in Scopes, NEW file, file = SettingsFile(s),
         NEW read \in SettingsDocuments, NEW new \in SettingsDocuments,
         promised # {} \/ ~touched => settings[file] = read,
         new.off => read.off, new.kind = "valid",
         read.kind # "unreadable" => \A own : FromOwner(read, own) => FromOwner(new, own),
         s \in promised => NamesForAll(new.hooks["PreToolUse"], s),
         ~touched => \A t \in Scopes :
                       registers(new, t) => \/ t = s /\ shim[s] # {} /\ manifest[s] # "none"
                                            \/ registers(read, t),
         settings' = [settings EXCEPT ![file] = new], promised' = promised \ Sharing(s),
         lost' = IF read.kind = "unreadable" \/ settings[file] # read THEN lost \cup {file} ELSE lost,
         UNCHANGED <<at_home, shim, manifest, kernel, switches, env, touched, given>>
  PROVE  /\ MachineTyped' /\ settings'[file] = new
         /\ (\A t \in promised : PromiseKept(t))'
         /\ (~touched => \A t \in Scopes : ScopeSound(t))'
         /\ (\A f \in Scopes \ lost : FromOwner(settings[f], given[f]))'
<1>1. /\ at_home' = at_home /\ shim' = shim /\ manifest' = manifest
      /\ kernel' = kernel /\ switches' = switches /\ env' = env
      /\ touched' = touched /\ given' = given
  OBVIOUS
<1>2. settings \in [Scopes -> SettingsDocuments] /\ file \in Scopes
  BY DEF SetupSound, MachineTyped, SettingsFile, Scopes
<1>3. settings'[file] = new /\ \A f \in Scopes \ {file} : settings'[f] = settings[f]
  BY <1>2
<1>4. MachineTyped'
  BY <1>1, <1>2 DEF SetupSound, MachineTyped
<1>5. \A t \in Scopes : SettingsFile(t)' = SettingsFile(t) /\ SettingsFile(t) \in Scopes
  BY <1>1 DEF SettingsFile, Scopes
<1>6. (\A t \in promised : PromiseKept(t))'
  <2> SUFFICES ASSUME NEW t \in promised'
               PROVE  PromiseKept(t)'
    OBVIOUS
  <2>1. t \in Scopes /\ t \in promised /\ PromiseKept(t) /\ settings[file] = read
    BY DEF SetupSound, MachineTyped
  <2>2. t = s \/ SettingsFile(t) # file
    BY <2>1 DEF Sharing
  <2>3. NamesForAll(settings'[SettingsFile(t)].hooks["PreToolUse"], t)
    BY <1>3, <1>5, <2>1, <2>2 DEF PromiseKept
  <2>4. \A f \in Scopes : settings'[f].off => settings[f].off
    BY <1>3, <2>1
  <2>5. \A folder \in Folders : ~Disabled(t, folder)'
    <3> TAKE folder \in Folders
    <3>1. ~Disabled(t, folder)
      BY <2>1 DEF PromiseKept
    <3>2. Loaded(folder)' = Loaded(folder) /\ Loaded(folder) \subseteq Scopes /\ "managed" \in Scopes
      BY <1>1, <1>5 DEF Loaded, Scopes, SettingsFile
    <3> QED
      BY <2>4, <3>1, <3>2 DEF Disabled
  <2>6. /\ \E bin \in {"global", "local"} :
             /\ shim'[t] = {Shim(t, bin)}
             /\ IF t = "managed" THEN kernel'["copy"] \in {"fine", "torn"} ELSE Execs(t, bin)' = "fine"
        /\ switches' \cap off_files(t) = {} /\ env'.bash /\ Compiles(manifest'[t])
    BY <1>1, <2>1 DEF PromiseKept, Execs
  <2> QED
    BY <1>5, <2>1, <2>3, <2>5, <2>6 DEF PromiseKept
<1>7. (~touched => \A t \in Scopes : ScopeSound(t))'
  <2> SUFFICES ASSUME ~touched, NEW t \in Scopes
               PROVE  ScopeSound(t)'
    BY <1>1
  <2>1. ScopeSound(t) /\ settings[file] = read
    BY DEF SetupSound
  <2>2. registers(settings'[SettingsFile(t)], t) => shim[t] # {} /\ manifest[t] # "none"
    <3>1. CASE SettingsFile(t) = file
      BY <1>3, <2>1, <3>1 DEF ScopeSound
    <3>2. CASE SettingsFile(t) # file
      BY <1>3, <1>5, <2>1, <3>2 DEF ScopeSound
    <3> QED
      BY <3>1, <3>2
  <2>3. settings'[t].kind = "valid" \/ \A r \in Scopes : ~registers(settings'[t], r)
    BY <1>3, <2>1 DEF ScopeSound
  <2> QED
    BY <1>1, <1>5, <2>2, <2>3 DEF ScopeSound
<1>8. (\A f \in Scopes \ lost : FromOwner(settings[f], given[f]))'
  <2> SUFFICES ASSUME NEW f \in Scopes, f \notin lost'
               PROVE  FromOwner(settings'[f], given'[f])
    BY <1>1
  <2>1. f \notin lost /\ FromOwner(settings[f], given[f])
    BY DEF SetupSound
  <2>2. CASE f = file
    <3>1. read.kind # "unreadable" /\ settings[file] = read
      BY <2>2
    <3> QED
      BY <1>1, <1>3, <2>1, <2>2, <3>1
  <2>3. CASE f # file
    BY <1>1, <1>3, <2>1, <2>3
  <2> QED
    BY <2>2, <2>3
<1> QED
  BY <1>3, <1>4, <1>6, <1>7, <1>8

\* What is written next, and what is left then.
LEMMA Next1 ==
  ASSUME NEW u, NEW doc, NEW v, v.todo = Tail(u.todo), v.scope = u.scope, v.bin = u.bin
  PROVE  /\ AtWorld(u, doc) => Head(u.todo) = WriteWorld /\ AtShim(v, doc)
         /\ AtShim(u, doc) => Head(u.todo) = WriteShim(u) /\ AtSettings(v, doc)
         /\ AtSettings(u, doc) => Head(u.todo) = WriteSettings(doc) /\ AtEnd(v)
         /\ AtEnd(u) /\ u.todo # <<>> => Head(u.todo) = WriteIgnore /\ AtEnd(v)
<1>1. WriteShim(v) = WriteShim(u)
  BY DEF WriteShim
<1> DEFINE w == WriteWorld
           p == WriteShim(u)
           d == WriteSettings(doc)
           n == WriteIgnore
<1>2. AtWorld(u, doc) => Head(u.todo) = w /\ v.todo \in {<<p, d>>, <<p, d, n>>}
  <2> HIDE DEF w, p, d, n
  <2>1. AtWorld(u, doc) => u.todo = <<w, p, d>> \/ u.todo = <<w, p, d, n>>
    BY DEF AtWorld, w, p, d, n
  <2>2. Head(<<w, p, d>>) = w /\ Tail(<<w, p, d>>) = <<p, d>>
    OBVIOUS
  <2>3. Head(<<w, p, d, n>>) = w /\ Tail(<<w, p, d, n>>) = <<p, d, n>>
    OBVIOUS
  <2> QED
    BY <2>1, <2>2, <2>3
<1>3. AtShim(u, doc) => Head(u.todo) = p /\ v.todo \in {<<d>>, <<d, n>>}
  <2> HIDE DEF w, p, d, n
  <2>1. AtShim(u, doc) => u.todo = <<p, d>> \/ u.todo = <<p, d, n>>
    BY DEF AtShim, p, d, n
  <2>2. Head(<<p, d>>) = p /\ Tail(<<p, d>>) = <<d>>
    OBVIOUS
  <2>3. Head(<<p, d, n>>) = p /\ Tail(<<p, d, n>>) = <<d, n>>
    OBVIOUS
  <2> QED
    BY <2>1, <2>2, <2>3
<1>4. AtSettings(u, doc) => Head(u.todo) = d /\ v.todo \in {<<>>, <<n>>}
  <2> HIDE DEF w, p, d, n
  <2>1. AtSettings(u, doc) => u.todo = <<d>> \/ u.todo = <<d, n>>
    BY DEF AtSettings, d, n
  <2>2. Head(<<d>>) = d /\ Tail(<<d>>) = <<>>
    OBVIOUS
  <2>3. Head(<<d, n>>) = d /\ Tail(<<d, n>>) = <<n>>
    OBVIOUS
  <2> QED
    BY <2>1, <2>2, <2>3
<1>5. AtEnd(u) /\ u.todo # <<>> => Head(u.todo) = n /\ v.todo = <<>>
  <2> HIDE DEF w, p, d, n
  <2>1. AtEnd(u) /\ u.todo # <<>> => u.todo = <<n>>
    BY DEF AtEnd, n
  <2> QED
    BY <2>1, ListEnds
<1> QED
  BY <1>1, <1>2, <1>3, <1>4, <1>5 DEF AtShim, AtSettings, AtEnd

\* What one step of apply does, by what is next.
LEMMA Applied ==
  ASSUME ApplyOne, NEW s, s = setup.scope, NEW w, w = Head(setup.todo), NEW file, file = SettingsFile(s)
  PROVE  /\ setup' = [setup EXCEPT !.todo = Tail(setup.todo)]
         /\ UNCHANGED <<at_home, kernel, switches, env, touched, given>>
         /\ w = WriteWorld => /\ manifest' = [manifest EXCEPT ![s] = "starter"]
                              /\ UNCHANGED <<shim, settings, promised, lost>>
         /\ \A new : w = [what |-> "shim", shim |-> new] =>
              shim' = [shim EXCEPT ![s] = {new}] /\ UNCHANGED <<manifest, settings, promised, lost>>
         /\ \A doc : w = WriteSettings(doc) =>
              /\ settings' = [settings EXCEPT ![file] = doc] /\ promised' = promised \ Sharing(s)
              /\ lost' = IF setup.read.kind = "unreadable" \/ settings[file] # setup.read
                         THEN lost \cup {file} ELSE lost
              /\ UNCHANGED <<manifest, shim>>
         /\ w = WriteIgnore => UNCHANGED <<manifest, shim, settings, promised, lost>>
         /\ w = DropShim => /\ shim' = [shim EXCEPT ![s] = {}]
                            /\ UNCHANGED <<manifest, settings, promised, lost>>
<1>1. setup' = [setup EXCEPT !.todo = Tail(setup.todo)] /\ UNCHANGED <<at_home, kernel, switches, env, touched, given>>
  BY DEF ApplyOne
<1>2. /\ manifest' = IF w.what = "manifest" THEN [manifest EXCEPT ![s] = "starter"] ELSE manifest
      /\ w.what # "shim" /\ w.what # "no_shim" => shim' = shim
      /\ w.what = "shim" => shim' = [shim EXCEPT ![s] = {w.shim}]
      /\ w.what = "no_shim" => shim' = [shim EXCEPT ![s] = {}]
      /\ w.what # "settings" => UNCHANGED <<settings, promised, lost>>
      /\ w.what = "settings" =>
           /\ settings' = [settings EXCEPT ![file] = w.doc] /\ promised' = promised \ Sharing(s)
           /\ lost' = IF setup.read.kind = "unreadable" \/ settings[file] # setup.read
                      THEN lost \cup {file} ELSE lost
  BY DEF ApplyOne
<1>3. w = WriteWorld => w.what = "manifest"
  BY DEF WriteWorld
<1>4. \A new : w = [what |-> "shim", shim |-> new] => w.what = "shim" /\ w.shim = new
  OBVIOUS
<1>5. \A doc : w = WriteSettings(doc) => w.what = "settings" /\ w.doc = doc
  BY DEF WriteSettings
<1>6. (w = WriteIgnore => w.what = "gitignore") /\ (w = DropShim => w.what = "no_shim")
  BY DEF WriteIgnore, DropShim
<1>7. \A doc : w = WriteSettings(doc) =>
        /\ settings' = [settings EXCEPT ![file] = doc] /\ promised' = promised \ Sharing(s)
        /\ lost' = IF setup.read.kind = "unreadable" \/ settings[file] # setup.read
                   THEN lost \cup {file} ELSE lost
        /\ UNCHANGED <<manifest, shim>>
  BY <1>2, <1>5
<1>8. \A new : w = [what |-> "shim", shim |-> new] =>
        shim' = [shim EXCEPT ![s] = {new}] /\ UNCHANGED <<manifest, settings, promised, lost>>
  BY <1>2, <1>4
<1> QED
  BY <1>1, <1>2, <1>3, <1>6, <1>7, <1>8

LEMMA InitApplies ==
  ASSUME SetupSound, ApplyOne, RunTyped(setup), InitSound(setup),
         promised # {} \/ ~touched => setup.alone
  PROVE  SetupSound'
<1> DEFINE u == setup
           v == setup'
           s == u.scope
           w == Head(u.todo)
           file == SettingsFile(s)
<1>1. /\ u.todo # <<>> /\ s \in Scopes /\ u.alone \in BOOLEAN /\ u.read \in SettingsDocuments
      /\ u.pc = "write"
  BY DEF ApplyOne, RunTyped
<1>2. setup' = [u EXCEPT !.todo = Tail(u.todo)] /\ UNCHANGED <<at_home, kernel, switches, env, touched, given>>
  BY DEF ApplyOne
<1>3. /\ RunTyped(v) /\ v.pc = u.pc /\ v.scope = s /\ v.bin = u.bin /\ v.todo = Tail(u.todo)
      /\ v.alone = u.alone /\ v.read = u.read
  <2>1. PICK todo : todo = Tail(u.todo)
    OBVIOUS
  <2>2. v = [u EXCEPT !.todo = todo]
    BY <1>2, <2>1
  <2>3. v = [pc |-> u.pc, scope |-> s, bin |-> u.bin, todo |-> todo, alone |-> u.alone, read |-> u.read]
    BY <2>2, Moved
  <2>4. u.pc \in {"copy", "copied", "write"}
    BY <1>1
  <2> QED
    BY <1>1, <2>1, <2>3, <2>4, TypedRun
<1>4. PICK doc \in merged(u.read, hook_command(s)) :
        \/ AtWorld(u, doc) /\ (u.alone => HasRead(u))
        \/ AtShim(u, doc) /\ (u.alone => HasRead(u) /\ HasWorld(u))
        \/ AtSettings(u, doc) /\ (u.alone => HasRead(u) /\ HasWorld(u) /\ HasShim(u))
        \/ AtEnd(u) /\ (u.alone => HasWorld(u) /\ HasShim(u) /\ HasHook(u))
  BY DEF InitSound
<1>5. /\ u.bin \in {"global", "local"}
      /\ u.alone => kernel[u.bin] = "fine" /\ (s = "managed" => kernel["copy"] = "fine")
  BY <1>1 DEF InitSound
<1>6. ASSUME promised' \subseteq promised,
             \/ AtShim(v, doc) /\ (u.alone => HasRead(u)' /\ HasWorld(u)')
             \/ AtSettings(v, doc) /\ (u.alone => HasRead(u)' /\ HasWorld(u)' /\ HasShim(u)')
             \/ AtEnd(v) /\ (u.alone => HasWorld(u)' /\ HasShim(u)' /\ HasHook(u)')
      PROVE  InstallerSound'
  <2>1. InitSound(setup)'
    BY <1>2, <1>3, <1>4, <1>5, <1>6 DEF InitSound, AtShim, AtSettings, AtEnd, WriteShim
  <2>2. RunTyped(setup)'
    BY <1>3 DEF RunTyped
  <2> QED
    BY <1>2, <1>3, <1>6, <2>1, <2>2 DEF InstallerSound
<1>7. CASE AtWorld(u, doc) /\ (u.alone => HasRead(u))
  <2>1. w = WriteWorld /\ AtShim(v, doc)
    BY <1>3, <1>7, Next1
  <2>2. manifest' = [manifest EXCEPT ![s] = "starter"] /\ UNCHANGED <<shim, settings, promised, lost>>
    BY <2>1, Applied
  <2>3. /\ MachineTyped' /\ manifest'[s] = "starter"
        /\ (\A t \in promised : PromiseKept(t))'
        /\ (~touched => \A t \in Scopes : ScopeSound(t))'
        /\ (\A f \in Scopes \ lost : FromOwner(settings[f], given[f]))'
    <3>1. UNCHANGED <<at_home, settings, shim, kernel, switches, env, told>>
      BY <1>2, <2>2 DEF told
    <3> QED
      BY <1>1, <2>2, <3>1, WorldKeeps
  <2>4. u.alone => HasRead(u)' /\ HasWorld(u)'
    BY <1>2, <1>3, <1>7, <2>2, <2>3 DEF HasRead, HasWorld, SettingsFile
  <2>5. InstallerSound'
    BY <1>6, <2>1, <2>2, <2>4
  <2> QED
    BY <2>3, <2>5 DEF SetupSound
<1>8. CASE AtShim(u, doc) /\ (u.alone => HasRead(u) /\ HasWorld(u))
  <2>1. w = WriteShim(u) /\ AtSettings(v, doc)
    BY <1>3, <1>8, Next1
  <2>2. shim' = [shim EXCEPT ![s] = {Shim(s, u.bin)}] /\ UNCHANGED <<manifest, settings, promised, lost>>
    BY <2>1, Applied DEF WriteShim
  <2>3. /\ MachineTyped' /\ shim'[s] = {Shim(s, u.bin)}
        /\ (\A t \in promised : PromiseKept(t))'
        /\ (~touched => \A t \in Scopes : ScopeSound(t))'
        /\ (\A f \in Scopes \ lost : FromOwner(settings[f], given[f]))'
    <3>1. UNCHANGED <<at_home, settings, manifest, kernel, switches, env, told>>
      BY <1>2, <2>2 DEF told
    <3>2. s \in promised => kernel[u.bin] = "fine"
      BY <1>5
    <3> QED
      BY <1>1, <1>5, <2>2, <3>1, <3>2, ShimKeeps
  <2>4. u.alone => HasRead(u)' /\ HasWorld(u)' /\ HasShim(u)'
    BY <1>2, <1>3, <1>8, <2>2, <2>3 DEF HasRead, HasWorld, HasShim, SettingsFile
  <2>5. InstallerSound'
    BY <1>6, <2>1, <2>2, <2>4
  <2> QED
    BY <2>3, <2>5 DEF SetupSound
<1>9. CASE AtSettings(u, doc) /\ (u.alone => HasRead(u) /\ HasWorld(u) /\ HasShim(u))
  <2>1. w = WriteSettings(doc) /\ AtEnd(v)
    BY <1>3, <1>9, Next1
  <2>2. /\ settings' = [settings EXCEPT ![file] = doc] /\ promised' = promised \ Sharing(s)
        /\ lost' = IF u.read.kind = "unreadable" \/ settings[file] # u.read
                   THEN lost \cup {file} ELSE lost
        /\ UNCHANGED <<manifest, shim>>
    BY <2>1, Applied
  <2>3. /\ doc \in SettingsDocuments /\ doc.kind = "valid" /\ (doc.off => u.read.off)
        /\ NamesForAll(doc.hooks["PreToolUse"], s)
        /\ \A t \in Scopes : registers(doc, t) => t = s
        /\ u.read.kind # "unreadable" => doc = MergedFrom(u.read, s)
    BY <1>1, MergedDocument
  <2>4. u.read.kind # "unreadable" => \A own : FromOwner(u.read, own) => FromOwner(doc, own)
    BY <1>1, <2>3, MergedFromOwner
  <2>5. promised # {} \/ ~touched => settings[file] = u.read
    BY <1>9 DEF HasRead
  <2>6. ~touched => \A t \in Scopes :
                      registers(doc, t) => \/ t = s /\ shim[s] # {} /\ manifest[s] # "none"
                                           \/ registers(u.read, t)
    BY <1>9, <2>3 DEF HasShim, HasWorld
  <2>7. /\ MachineTyped' /\ settings'[file] = doc
        /\ (\A t \in promised : PromiseKept(t))'
        /\ (~touched => \A t \in Scopes : ScopeSound(t))'
        /\ (\A f \in Scopes \ lost : FromOwner(settings[f], given[f]))'
    <3>1. UNCHANGED <<at_home, shim, manifest, kernel, switches, env, touched, given>>
      BY <1>2, <2>2
    <3>2. s \in promised => NamesForAll(doc.hooks["PreToolUse"], s)
      BY <2>3
    <3>3. doc.off => u.read.off
      BY <2>3
    <3> HIDE DEF s
    <3>4. s \in Scopes /\ u.read \in SettingsDocuments /\ doc \in SettingsDocuments /\ doc.kind = "valid"
      BY <1>1, <2>3
    <3> QED
      BY <2>2, <2>4, <2>5, <2>6, <3>1, <3>2, <3>3, <3>4, SettingsKeep
  <2>8. u.alone => HasWorld(u)' /\ HasShim(u)' /\ HasHook(u)'
    BY <1>2, <1>3, <1>9, <2>2, <2>3, <2>7 DEF HasWorld, HasShim, HasHook, SettingsFile
  <2>9. InstallerSound'
    BY <1>6, <2>1, <2>2, <2>8
  <2> QED
    BY <2>7, <2>9 DEF SetupSound
<1>10. CASE AtEnd(u) /\ (u.alone => HasWorld(u) /\ HasShim(u) /\ HasHook(u))
  <2>1. w = WriteIgnore /\ AtEnd(v)
    BY <1>1, <1>3, <1>10, Next1
  <2>2. UNCHANGED <<manifest, shim, settings, promised, lost>>
    BY <2>1, Applied
  <2>3. /\ MachineTyped'
        /\ (\A t \in promised : PromiseKept(t))'
        /\ (~touched => \A t \in Scopes : ScopeSound(t))'
        /\ (\A f \in Scopes \ lost : FromOwner(settings[f], given[f]))'
    BY <1>2, <2>2, SameFilesKeep
  <2>4. u.alone => HasWorld(u)' /\ HasShim(u)' /\ HasHook(u)'
    BY <1>2, <1>3, <1>10, <2>2 DEF HasWorld, HasShim, HasHook, SettingsFile
  <2>5. InstallerSound'
    BY <1>6, <2>1, <2>2, <2>4
  <2> QED
    BY <2>3, <2>5 DEF SetupSound
<1> QED
  BY <1>4, <1>7, <1>8, <1>9, <1>10

LEMMA RemoveApplies ==
  ASSUME SetupSound, ApplyOne, RunTyped(setup), RemoveSound(setup),
         promised # {} \/ ~touched => setup.alone
  PROVE  SetupSound'
<1> DEFINE u == setup
           v == setup'
           s == u.scope
           w == Head(u.todo)
           file == SettingsFile(s)
           doc == unmerge_settings(u.read, s)
<1>1. /\ u.todo # <<>> /\ s \in Scopes /\ u.alone \in BOOLEAN /\ u.read \in SettingsDocuments
      /\ u.pc = "write" /\ u.bin = "none" /\ s \in {"user", "managed"} /\ s \notin promised
      /\ file = s
  BY DEF ApplyOne, RunTyped, RemoveSound, SettingsFile
<1>2. setup' = [u EXCEPT !.todo = Tail(u.todo)] /\ UNCHANGED <<at_home, kernel, switches, env, touched, given>>
  BY DEF ApplyOne
<1>3. /\ RunTyped(v) /\ v.pc = u.pc /\ v.scope = s /\ v.bin = u.bin /\ v.todo = Tail(u.todo)
      /\ v.alone = u.alone /\ v.read = u.read
  <2>1. PICK todo : todo = Tail(u.todo)
    OBVIOUS
  <2>2. v = [u EXCEPT !.todo = todo]
    BY <1>2, <2>1
  <2>3. v = [pc |-> u.pc, scope |-> s, bin |-> u.bin, todo |-> todo, alone |-> u.alone, read |-> u.read]
    BY <2>2, Moved
  <2>4. u.pc \in {"copy", "copied", "write"}
    BY <1>1
  <2> QED
    BY <1>1, <2>1, <2>3, <2>4, TypedRun
<1>4. ASSUME promised' \subseteq promised, v.todo \in {<<>>, <<DropShim>>},
             ~touched => ~registers(settings'[s], s)
      PROVE  InstallerSound'
  <2>1. RemoveSound(setup)'
    BY <1>1, <1>2, <1>3, <1>4 DEF RemoveSound
  <2>2. RunTyped(setup)'
    BY <1>3 DEF RunTyped
  <2> QED
    BY <1>2, <1>3, <1>4, <2>1, <2>2 DEF InstallerSound
<1>5. CASE /\ u.todo = <<WriteSettings(doc)>> \/ u.todo = <<WriteSettings(doc), DropShim>>
           /\ u.read.kind = "valid" /\ (u.alone => HasRead(u))
  <2>1. w = WriteSettings(doc) /\ v.todo \in {<<>>, <<DropShim>>}
    <3>1. PICK d : d = WriteSettings(doc)
      OBVIOUS
    <3>2. PICK n : n = DropShim
      OBVIOUS
    <3>3. Head(<<d>>) = d /\ Tail(<<d>>) = <<>> /\ Head(<<d, n>>) = d /\ Tail(<<d, n>>) = <<n>>
      OBVIOUS
    <3>4. u.todo = <<d>> \/ u.todo = <<d, n>>
      BY <1>5, <3>1, <3>2
    <3>5. w = d /\ v.todo \in {<<>>, <<n>>}
      BY <1>3, <3>3, <3>4
    <3> QED
      BY <3>1, <3>2, <3>5
  <2>2. /\ settings' = [settings EXCEPT ![file] = doc] /\ promised' = promised \ Sharing(s)
        /\ lost' = IF u.read.kind = "unreadable" \/ settings[file] # u.read
                   THEN lost \cup {file} ELSE lost
        /\ UNCHANGED <<manifest, shim>>
    BY <2>1, Applied
  <2>3. /\ doc \in SettingsDocuments /\ doc.kind = "valid" /\ doc.off = u.read.off
        /\ \A t \in Scopes : registers(doc, t) => registers(u.read, t) /\ t # s
    BY <1>1, <1>5, UnmergedDocument
  <2>4. u.read.kind # "unreadable" => \A own : FromOwner(u.read, own) => FromOwner(doc, own)
    BY <1>1, UnmergedFromOwner
  <2>5. promised # {} \/ ~touched => settings[file] = u.read
    BY <1>5 DEF HasRead
  <2>6. ~touched => \A t \in Scopes :
                      registers(doc, t) => \/ t = s /\ shim[s] # {} /\ manifest[s] # "none"
                                           \/ registers(u.read, t)
    BY <2>3
  <2>7. /\ MachineTyped' /\ settings'[file] = doc
        /\ (\A t \in promised : PromiseKept(t))'
        /\ (~touched => \A t \in Scopes : ScopeSound(t))'
        /\ (\A f \in Scopes \ lost : FromOwner(settings[f], given[f]))'
    <3>1. UNCHANGED <<at_home, shim, manifest, kernel, switches, env, touched, given>>
      BY <1>2, <2>2
    <3>2. s \in promised => NamesForAll(doc.hooks["PreToolUse"], s)
      BY <1>1
    <3>3. doc.off => u.read.off
      BY <2>3
    <3>4. /\ s \in Scopes /\ u.read \in SettingsDocuments /\ doc \in SettingsDocuments
          /\ doc.kind = "valid"
      BY <1>1, <2>3
    <3> HIDE DEF s, doc
    <3> QED
      BY <2>2, <2>4, <2>5, <2>6, <3>1, <3>2, <3>3, <3>4, SettingsKeep
  <2>8. ~registers(settings'[s], s)
    BY <1>1, <2>3, <2>7
  <2>9. InstallerSound'
    BY <1>4, <2>1, <2>2, <2>8
  <2> QED
    BY <2>7, <2>9 DEF SetupSound
<1>6. CASE u.todo = <<DropShim>> /\ (~touched => ~registers(settings[s], s))
  <2>1. w = DropShim /\ v.todo = <<>>
    <3>1. PICK n : n = DropShim
      OBVIOUS
    <3>2. Head(<<n>>) = n /\ Tail(<<n>>) = <<>>
      OBVIOUS
    <3> QED
      BY <1>3, <1>6, <3>1, <3>2
  <2>2. shim' = [shim EXCEPT ![s] = {}] /\ UNCHANGED <<manifest, settings, promised, lost>>
    BY <2>1, Applied
  <2>3. /\ MachineTyped'
        /\ (\A t \in promised : PromiseKept(t))'
        /\ (~touched => \A t \in Scopes : ScopeSound(t))'
        /\ (\A f \in Scopes \ lost : FromOwner(settings[f], given[f]))'
    <3>1. UNCHANGED <<at_home, settings, manifest, kernel, switches, env, told>>
      BY <1>2, <2>2 DEF told
    <3>2. ~touched => ~registers(settings[SettingsFile(s)], s)
      BY <1>1, <1>6
    <3> QED
      BY <1>1, <2>2, <3>1, <3>2, DropKeeps
  <2>4. InstallerSound'
    BY <1>4, <1>6, <2>1, <2>2
  <2> QED
    BY <2>3, <2>4 DEF SetupSound
<1> QED
  BY <1>1, <1>5, <1>6 DEF RemoveSound

\* Every step of an installer and of everybody else keeps it.
LEMMA SetupSteps ==
  ASSUME DocumentsAssumption, SetupSound, SetupNext
  PROVE  SetupSound'
<1>1. ASSUME ApplyOne
      PROVE  SetupSound'
  <2>1. /\ RunTyped(setup) /\ (InitSound(setup) \/ RemoveSound(setup))
        /\ promised # {} \/ ~touched => setup.alone
    BY <1>1 DEF SetupSound, InstallerSound, ApplyOne, Idle
  <2> QED
    BY <1>1, <2>1, InitApplies, RemoveApplies
<1> QED
  BY <1>1, InstallKeeps, CopyKeeps, StopsKeeps, FinishKeeps, RemoveKeeps, OthersKeepSetup DEF SetupNext

\* A scope whose promise is kept is asked about every call, and its world answers.
LEMMA PromiseCovers ==
  ASSUME NEW s \in Scopes, PromiseKept(s), NEW folder \in Folders, s = "project" => folder = "project"
  PROVE  \/ s = "managed" /\ kernel["copy"] = "torn"
         \/ /\ \A tool \in Tools : Runs(s, folder, tool)
            /\ ShimAnswer(s, folder) = "decided"
<1>1. SettingsFile(s) \in Loaded(folder)
  BY DEF SettingsFile, Loaded, Scopes
<1>2. \A tool \in Tools : Runs(s, folder, tool)
  <2> TAKE tool \in Tools
  <2>1. PICK i \in DOMAIN settings[SettingsFile(s)].hooks["PreToolUse"] :
          LET entry == settings[SettingsFile(s)].hooks["PreToolUse"][i]
          IN  entry.matcher = "*" /\ \E j \in DOMAIN entry.hooks : ours(entry.hooks[j], s)
    BY DEF PromiseKept, NamesForAll
  <2>2. ~Disabled(s, folder)
    BY DEF PromiseKept
  <2> QED
    BY <1>1, <2>1, <2>2 DEF Runs, Covers
<1>3. PICK bin \in {"global", "local"} :
        /\ shim[s] = {Shim(s, bin)}
        /\ IF s = "managed" THEN kernel["copy"] \in {"fine", "torn"} ELSE Execs(s, bin) = "fine"
  BY DEF PromiseKept
<1>4. ASSUME ~(s = "managed" /\ kernel["copy"] = "torn")
      PROVE  ShimAnswer(s, folder) = "decided"
  <2> DEFINE x == CHOOSE y \in shim[s] : TRUE
  <2>1. x = Shim(s, bin) /\ shim[s] # {}
    BY <1>3
  <2> HIDE DEF x
  <2>2. x.text = "init" /\ x.bin = (IF s = "managed" THEN "copy" ELSE bin)
    BY <2>1 DEF Shim
  <2>3. Execs(s, x.bin) = "fine"
    BY <1>3, <1>4, <2>2 DEF Execs
  <2>4. Compiles(World(s, folder)) /\ env.bash /\ switches \cap off_files(s) = {}
    BY DEF PromiseKept, World
  <2>5. shim[s] # {} /\ env.bash /\ x.text = "init" /\ switches \cap off_files(s) = {}
    BY <2>1, <2>2, <2>4
  <2> QED
    BY <2>3, <2>4, <2>5 DEF ShimAnswer, x
<1> QED
  BY <1>2, <1>4

LEMMA SoundIsCovered ==
  ASSUME SetupSound
  PROVE  CoverageKept /\ DocumentKept
<1>1. ASSUME NEW s \in promised, NEW folder \in IF s = "project" THEN {"project"} ELSE Folders
      PROVE  \/ s = "managed" /\ kernel["copy"] = "torn"
             \/ /\ \A tool \in Tools : Runs(s, folder, tool)
                /\ ShimAnswer(s, folder) = "decided"
  <2>1. s \in Scopes /\ PromiseKept(s) /\ folder \in Folders /\ (s = "project" => folder = "project")
    BY DEF SetupSound, MachineTyped, Folders
  <2> QED
    BY <2>1, PromiseCovers
<1>2. ~touched => \A s \in Scopes : registers(settings[SettingsFile(s)], s) =>
                    shim[s] # {} /\ manifest[s] # "none"
  BY DEF SetupSound, ScopeSound
<1>3. \A f \in Scopes \ lost :
        /\ settings[f].off = given[f].off
        /\ \A e \in Events : OthersIn(settings[f].hooks[e]) = OthersIn(given[f].hooks[e])
        /\ (\A s \in Scopes : ~registers(settings[f], s) /\ ~registers(given[f], s)) =>
             \A e \in Events : with_hooks(settings[f].hooks[e]) = with_hooks(given[f].hooks[e])
  <2> TAKE f \in Scopes \ lost
  <2>1. FromOwner(settings[f], given[f])
    BY DEF SetupSound
  <2> QED
    BY <2>1, OwnerKeeps
<1> QED
  BY <1>1, <1>2, <1>3 DEF CoverageKept, DocumentKept

-----------------------------------------------------------------------------
(* What there is to be found: every part is in one of the states that the  *)
(* doctor knows.                                                           *)

Shims == [bin : {"global", "local", "copy"}, text : {"init", "other", "exits", "astray", "unreadable"},
          mode : {"closed", "last-good", "open", "default"}]
KernelStates == {"gone", "torn", "no_exec", "directory", "fine"}

PartsTyped ==
  /\ \A s \in Scopes : shim[s] \subseteq Shims /\ \A x, y \in shim[s] : x = y
  /\ \A s \in Scopes : manifest[s] \in {"none", "starter", "tuned", "broken", "unreadable"}
  /\ last_good = [s \in Scopes |-> last_good[s]]
  /\ \A s \in Scopes : last_good[s] \in {"none", "own", "other"}
  /\ \A bin \in {"global", "local", "copy"} : kernel[bin] \in KernelStates
  /\ env = [harness_bin |-> env.harness_bin, bash |-> env.bash, strayed |-> env.strayed]
  /\ env.harness_bin \in {"unset", "relative", "fine", "no_exec"}
  /\ env.bash \in BOOLEAN /\ env.strayed \in BOOLEAN
  /\ switches \subseteq Switches

LEMMA PartsStart ==
  ASSUME SetupInit
  PROVE  PartsTyped
BY DEF SetupInit, PartsTyped, Scopes, KernelStates, Switches

\* What apply writes next is one of five things.
LEMMA NextItem ==
  ASSUME SetupSound, ApplyOne
  PROVE  LET w == Head(setup.todo)
         IN  \/ w \in {WriteWorld, WriteIgnore, DropShim}
             \/ w = WriteShim(setup) /\ setup.bin \in {"global", "local"}
             \/ \E doc : w = WriteSettings(doc)
<1> DEFINE u == setup
           w == Head(u.todo)
<1>1. u.todo # <<>> /\ (InitSound(u) \/ RemoveSound(u))
  BY DEF SetupSound, InstallerSound, ApplyOne, Idle
<1>2. PICK v : v = [todo |-> Tail(u.todo), scope |-> u.scope, bin |-> u.bin]
  OBVIOUS
<1>3. v.todo = Tail(u.todo) /\ v.scope = u.scope /\ v.bin = u.bin
  BY <1>2
<1>4. CASE InitSound(u)
  <2>1. PICK doc \in merged(u.read, hook_command(u.scope)) :
          AtWorld(u, doc) \/ AtShim(u, doc) \/ AtSettings(u, doc) \/ AtEnd(u)
    BY <1>4 DEF InitSound
  <2>2. w = WriteWorld \/ w = WriteShim(u) \/ w = WriteSettings(doc) \/ w = WriteIgnore
    BY <1>1, <1>3, <2>1, Next1
  <2>3. u.bin \in {"global", "local"}
    BY <1>4 DEF InitSound
  <2> QED
    BY <2>2, <2>3
<1>5. CASE RemoveSound(u)
  <2>1. PICK d : d = WriteSettings(unmerge_settings(u.read, u.scope))
    OBVIOUS
  <2>2. PICK n : n = DropShim
    OBVIOUS
  <2>3. u.todo = <<d>> \/ u.todo = <<d, n>> \/ u.todo = <<n>>
    BY <1>1, <1>5, <2>1, <2>2 DEF RemoveSound
  <2>4. Head(<<d>>) = d /\ Head(<<d, n>>) = d /\ Head(<<n>>) = n
    OBVIOUS
  <2>5. w = d \/ w = n
    BY <2>3, <2>4
  <2> QED
    BY <2>1, <2>2, <2>5
<1> QED
  BY <1>1, <1>4, <1>5

LEMMA ShimIs ==
  ASSUME NEW s \in Scopes, NEW bin \in {"global", "local"}
  PROVE  Shim(s, bin) \in Shims
BY DEF Shim, Shims, Scopes

LEMMA ApplyTyped ==
  ASSUME SetupSound, PartsTyped, ApplyOne
  PROVE  PartsTyped'
<1> DEFINE s == setup.scope
           w == Head(setup.todo)
<1>1. s \in Scopes
  BY DEF SetupSound, InstallerSound, ApplyOne, Idle, RunTyped
<1>2. UNCHANGED <<kernel, switches, env, last_good>>
  BY DEF ApplyOne
<1>3. /\ shim = [t \in Scopes |-> shim[t]]
      /\ manifest = [t \in Scopes |-> manifest[t]]
  BY DEF SetupSound, MachineTyped
<1>4. manifest' = manifest \/ manifest' = [manifest EXCEPT ![s] = "starter"]
  BY DEF ApplyOne
<1>5. \/ shim' = shim \/ shim' = [shim EXCEPT ![s] = {}]
      \/ setup.bin \in {"global", "local"} /\ shim' = [shim EXCEPT ![s] = {Shim(s, setup.bin)}]
  BY NextItem, Applied DEF WriteShim
<1>6. \A t \in Scopes : manifest'[t] \in {"none", "starter", "tuned", "broken", "unreadable"}
  BY <1>1, <1>3, <1>4 DEF PartsTyped
<1>7. \A t \in Scopes : shim'[t] \subseteq Shims /\ \A x, y \in shim'[t] : x = y
  <2> TAKE t \in Scopes
  <2>1. CASE shim'[t] = shim[t]
    BY <2>1 DEF PartsTyped
  <2>2. CASE shim'[t] = {}
    BY <2>2
  <2>3. CASE setup.bin \in {"global", "local"} /\ shim'[t] = {Shim(s, setup.bin)}
    BY <1>1, <2>3, ShimIs
  <2> QED
    BY <1>1, <1>3, <1>5, <2>1, <2>2, <2>3
<1> QED
  BY <1>2, <1>6, <1>7 DEF PartsTyped

LEMMA PartsStay ==
  ASSUME SetupSound, PartsTyped, SetupNext
  PROVE  PartsTyped'
<1>0. /\ shim = [t \in Scopes |-> shim[t]] /\ manifest = [t \in Scopes |-> manifest[t]]
      /\ kernel = [bin \in {"global", "local", "copy"} |-> kernel[bin]]
  BY DEF SetupSound, MachineTyped
<1>1. CASE Install \/ Stops \/ Finish \/ RemoveHook \/ EditsSettings
  <2>1. UNCHANGED <<shim, manifest, last_good, kernel, switches, env>>
    BY <1>1 DEF Install, Stops, Finish, RemoveHook, EditsSettings, machine
  <2> QED
    BY <2>1 DEF PartsTyped
<1>2. CASE Copy \/ Copied \/ ChangesKernel
  <2>1. /\ UNCHANGED <<shim, manifest, last_good, switches, env>>
        /\ \E bin \in {"global", "local", "copy"}, state \in KernelStates :
             kernel' = [kernel EXCEPT ![bin] = state]
    BY <1>0, <1>2 DEF Copy, Copied, ChangesKernel, KernelStates
  <2>2. \A bin \in {"global", "local", "copy"} : kernel'[bin] \in KernelStates
    BY <1>0, <2>1 DEF PartsTyped
  <2> QED
    BY <2>1, <2>2 DEF PartsTyped
<1>3. CASE ApplyOne
  BY <1>3, ApplyTyped
<1>4. CASE EditsWorld
  <2>1. /\ UNCHANGED <<shim, kernel, switches, env>>
        /\ \/ \E s \in Scopes, text \in {"none", "tuned", "broken", "unreadable"} :
                /\ manifest' = [manifest EXCEPT ![s] = text]
                /\ last_good' = last_good \/ last_good' = [last_good EXCEPT ![s] = "own"]
           \/ manifest' = manifest /\ last_good' = [last_good EXCEPT !["project"] = "other"]
    BY <1>4 DEF EditsWorld
  <2>2. \A t \in Scopes : manifest'[t] \in {"none", "starter", "tuned", "broken", "unreadable"}
    BY <1>0, <2>1 DEF PartsTyped
  <2>3. last_good = [t \in Scopes |-> last_good[t]]
    BY DEF PartsTyped
  <2>4. /\ last_good' = [t \in Scopes |-> last_good'[t]]
        /\ \A t \in Scopes : last_good'[t] \in {"none", "own", "other"}
    <3>1. \A t \in Scopes : last_good[t] \in {"none", "own", "other"}
      BY DEF PartsTyped
    <3> QED
      BY <2>1, <2>3, <3>1
  <2> QED
    BY <2>1, <2>2, <2>4 DEF PartsTyped
<1>5. CASE EditsShim
  <2> DEFINE edited == {"other", "exits", "astray", "unreadable"}
  <2>1. PICK s \in Scopes : \E old \in shim[s] :
          /\ \E new \in {{}} \cup {{[old EXCEPT !.text = t]} : t \in edited}
                        \cup {{[old EXCEPT !.mode = m]} : m \in {"open", "closed", "default"}} :
               shim' = [shim EXCEPT ![s] = new]
          /\ UNCHANGED <<manifest, last_good, kernel, switches, env>>
    BY <1>5 DEF EditsShim
  <2>2. PICK old \in shim[s] :
          /\ \E new \in {{}} \cup {{[old EXCEPT !.text = t]} : t \in edited}
                        \cup {{[old EXCEPT !.mode = m]} : m \in {"open", "closed", "default"}} :
               shim' = [shim EXCEPT ![s] = new]
          /\ UNCHANGED <<manifest, last_good, kernel, switches, env>>
    BY <2>1
  <2>3. old \in Shims
    BY DEF PartsTyped
  <2>4. \A t \in edited : [old EXCEPT !.text = t] \in Shims
    BY <2>3 DEF Shims
  <2>5. \A m \in {"open", "closed", "default"} : [old EXCEPT !.mode = m] \in Shims
    BY <2>3 DEF Shims
  <2>6. shim' = [shim EXCEPT ![s] = {}] \/ \E x \in Shims : shim' = [shim EXCEPT ![s] = {x}]
    BY <2>2, <2>4, <2>5
  <2>7. \A t \in Scopes : shim'[t] \subseteq Shims /\ \A x, y \in shim'[t] : x = y
    BY <1>0, <2>6 DEF PartsTyped
  <2> QED
    BY <2>2, <2>7 DEF PartsTyped
<1>6. CASE ChangesSwitch
  BY <1>6 DEF ChangesSwitch, PartsTyped
<1>7. CASE ChangesEnv
  <2>1. UNCHANGED <<shim, manifest, last_good, kernel, switches>>
    BY <1>7 DEF ChangesEnv
  <2>2. env = [harness_bin |-> env.harness_bin, bash |-> env.bash, strayed |-> env.strayed]
    BY DEF PartsTyped
  <2>3. \E value \in {"unset", "relative", "fine", "no_exec"}, b \in BOOLEAN, r \in BOOLEAN :
          env' = [harness_bin |-> value, bash |-> b, strayed |-> r]
    <3> DEFINE value == env.harness_bin
               b == env.bash
               r == env.strayed
    <3>1. value \in {"unset", "relative", "fine", "no_exec"} /\ b \in BOOLEAN /\ r \in BOOLEAN
      BY DEF PartsTyped
    <3>2. env = [harness_bin |-> value, bash |-> b, strayed |-> r]
      BY <2>2
    <3>3. \/ \E x \in {"unset", "relative", "fine", "no_exec"} : env' = [env EXCEPT !.harness_bin = x]
          \/ \E x \in BOOLEAN : env' = [env EXCEPT !.bash = x]
          \/ \E x \in BOOLEAN : env' = [env EXCEPT !.strayed = x]
      BY <1>7, <3>1 DEF ChangesEnv
    <3> HIDE DEF value, b, r
    <3>4. \/ \E x \in {"unset", "relative", "fine", "no_exec"} : env' = [harness_bin |-> x, bash |-> b, strayed |-> r]
          \/ \E x \in BOOLEAN : env' = [harness_bin |-> value, bash |-> x, strayed |-> r]
          \/ \E x \in BOOLEAN : env' = [harness_bin |-> value, bash |-> b, strayed |-> x]
      BY <3>2, <3>3
    <3> QED
      BY <3>1, <3>4
  <2>4. /\ env' = [harness_bin |-> env'.harness_bin, bash |-> env'.bash, strayed |-> env'.strayed]
        /\ env'.harness_bin \in {"unset", "relative", "fine", "no_exec"}
        /\ env'.bash \in BOOLEAN /\ env'.strayed \in BOOLEAN
    BY <2>3
  <2> QED
    BY <2>1, <2>4 DEF PartsTyped
<1> QED
  BY <1>1, <1>2, <1>3, <1>4, <1>5, <1>6, <1>7 DEF SetupNext

-----------------------------------------------------------------------------
(* What the findings say, one by one.                                      *)

\* What the report is silent about is as it should be: all but the world.
Silent ==
  /\ inspect_settings = "valid"
  /\ HookRegistrations # {} /\ shim_path # {}
  /\ has_match_all \/ narrow_matchers = {}
  /\ \A scope \in shim_path : shim[scope] # {} /\ ~\E s \in shim[scope] : s.text = "unreadable"
  /\ recognize_shim # {}
  /\ env.bash
  /\ env.harness_bin # "unset" => harness_binary.executable = {TRUE}
  /\ hook_harness_status # "missing"
  /\ reduce_kill_switches = "off"

\* The codes of the two sections about the world.
LEMMA WorldCodes ==
  ASSUME NEW f \in ManifestFindings \cup BrokenWorldFindings
  PROVE  f.code \in {"CC_MANIFEST_MISSING", "CC_MANIFEST_INVALID", "CC_MANIFEST_UNREADABLE",
                    "CC_BROKEN_WORLD_MODE"}
BY DEF ManifestFindings, BrokenWorldFindings, FoundIf, Error, Warning, Finding

LEMMA FindingFields ==
  ASSUME NEW code
  PROVE  /\ Error(code).code = code /\ Error(code).affects = TRUE /\ Error(code).severity = "error"
         /\ Warning(code).code = code /\ Warning(code).affects = TRUE
         /\ Warning(code).severity = "warning"
BY DEF Error, Warning, Finding

\* If every finding that counts is about the world, the rest is as it should be.
LEMMA WorldOnly ==
  ASSUME \A f \in findings : f.affects =>
           f.code \in {"CC_MANIFEST_MISSING", "CC_MANIFEST_INVALID", "CC_MANIFEST_UNREADABLE",
                       "CC_BROKEN_WORLD_MODE"}
  PROVE  Silent
<1> DEFINE Codes == {"CC_MANIFEST_MISSING", "CC_MANIFEST_INVALID", "CC_MANIFEST_UNREADABLE",
                     "CC_BROKEN_WORLD_MODE"}
<1>1. ASSUME NEW code, code \notin Codes
      PROVE  Error(code) \notin findings /\ Warning(code) \notin findings
  BY <1>1, FindingFields
<1>2. inspect_settings = "valid"
  <2>1. /\ "CC_SETTINGS_MISSING" \notin Codes /\ "CC_SETTINGS_INVALID" \notin Codes
        /\ "CC_SETTINGS_UNREADABLE" \notin Codes
    OBVIOUS
  <2>2. /\ Error("CC_SETTINGS_MISSING") \notin findings /\ Error("CC_SETTINGS_INVALID") \notin findings
        /\ Error("CC_SETTINGS_UNREADABLE") \notin findings
    BY <1>1, <2>1
  <2>3. inspect_settings \in {"missing", "unreadable", "invalid", "valid"}
    BY DEF inspect_settings
  <2> QED
    BY <2>2, <2>3 DEF findings, SettingsFindings, FoundIf
<1>3. HookRegistrations # {} /\ shim_path # {} /\ (has_match_all \/ narrow_matchers = {})
  <2>1. /\ "CC_PRETOOLUSE_MISSING" \notin Codes /\ "CC_PRETOOLUSE_NARROW" \notin Codes
        /\ "CC_SHIM_UNSUPPORTED" \notin Codes
    OBVIOUS
  <2>2. /\ Error("CC_PRETOOLUSE_MISSING") \notin findings
        /\ Warning("CC_PRETOOLUSE_NARROW") \notin findings /\ Error("CC_SHIM_UNSUPPORTED") \notin findings
    BY <1>1, <2>1
  <2> QED
    BY <2>2 DEF findings, RegistrationFindings, FoundIf
<1>4. /\ \A scope \in shim_path : shim[scope] # {} /\ ~\E s \in shim[scope] : s.text = "unreadable"
      /\ recognize_shim # {}
  <2>1. /\ "CC_SHIM_MISSING" \notin Codes /\ "CC_SHIM_UNREADABLE" \notin Codes
        /\ "CC_SHIM_UNSUPPORTED" \notin Codes
    OBVIOUS
  <2>2. /\ Error("CC_SHIM_MISSING") \notin ShimFindings /\ Error("CC_SHIM_UNREADABLE") \notin ShimFindings
        /\ Warning("CC_SHIM_UNSUPPORTED") \notin ShimFindings
    BY <1>1, <2>1 DEF findings
  <2> QED
    BY <1>3, <2>2 DEF ShimFindings, FoundIf
<1>5. env.bash
  <2>1. "CC_INTERPRETER_MISSING" \notin Codes
    OBVIOUS
  <2>2. Error("CC_INTERPRETER_MISSING") \notin findings
    BY <1>1, <2>1
  <2> QED
    BY <2>2 DEF findings, EnvironmentFindings, FoundIf
<1>6. /\ env.harness_bin # "unset" => harness_binary.executable = {TRUE}
      /\ hook_harness_status # "missing"
  <2>1. "CC_HARNESS_OVERRIDE_INVALID" \notin Codes /\ "CC_EXECUTABLE_MISSING" \notin Codes
    OBVIOUS
  <2>2. Error("CC_HARNESS_OVERRIDE_INVALID") \notin findings /\ Error("CC_EXECUTABLE_MISSING") \notin findings
    BY <1>1, <2>1
  <2> QED
    BY <2>2 DEF findings, BinaryFindings, FoundIf
<1>7. reduce_kill_switches = "off"
  <2>1. "CC_KILL_SWITCH_ENABLED" \notin Codes
    OBVIOUS
  <2>2. Warning("CC_KILL_SWITCH_ENABLED") \notin findings
    BY <1>1, <2>1
  <2> QED
    BY <2>2 DEF findings, SwitchFindings, FoundIf, reduce_kill_switches
<1> QED
  BY <1>2, <1>3, <1>4, <1>5, <1>6, <1>7 DEF Silent

\* Then the project's shim is there and its kernel starts, as far as can be seen.
LEMMA SilentShim ==
  ASSUME PartsTyped, Silent, ~Unseen
  PROVE  \E s \in Shims :
           /\ shim["project"] = {s} /\ recognize_shim = {s} /\ s.text = "init" /\ env.bash
           /\ shim_path = {"project"} /\ switches \cap off_files("project") = {}
           /\ Execs("project", s.bin) = "fine"
<1>1. shim_path = {"project"} /\ \E s \in shim["project"] : s.text = "init" /\ s \in recognize_shim
  BY DEF Silent, recognize_shim, Unseen
<1>2. PICK s \in shim["project"] : s.text = "init" /\ s \in recognize_shim
  BY <1>1
<1>3. s \in Shims /\ shim["project"] = {s}
  BY <1>2 DEF PartsTyped, Scopes
<1>4. recognize_shim = {s}
  BY <1>1, <1>2, <1>3 DEF recognize_shim
<1>5. switches \cap off_files("project") = {}
  BY <1>4 DEF Silent, reduce_kill_switches, observe_kill_switches, off_files
<1>6. Execs("project", s.bin) \notin {"torn", "no_exec", "directory"}
  BY <1>4 DEF Unseen
<1>7. Execs("project", s.bin) = "fine"
  <2>1. CASE env.harness_bin # "unset"
    <3>1. harness_binary = resolve_path(env.harness_bin) /\ harness_binary.executable = {TRUE}
      BY <2>1 DEF Silent, harness_binary
    <3>2. env.harness_bin \in {"fine", "torn"}
      BY <3>1 DEF resolve_path
    <3>3. Execs("project", s.bin) = env.harness_bin
      BY <2>1 DEF Execs
    <3> QED
      BY <1>6, <3>2, <3>3
  <2>2. CASE env.harness_bin = "unset"
    <3>1. (CHOOSE x \in recognize_shim : TRUE) = s
      BY <1>4
    <3>2. harness_binary = resolve_path(kernel[s.bin])
      BY <1>4, <2>2, <3>1 DEF harness_binary
    <3>3. kernel[s.bin] # "gone"
      BY <3>2 DEF Silent, hook_harness_status, resolve_path
    <3>4. kernel[s.bin] \in KernelStates
      BY <1>3 DEF PartsTyped, Shims
    <3>5. Execs("project", s.bin) = kernel[s.bin]
      BY <2>2 DEF Execs
    <3> QED
      BY <1>6, <3>3, <3>4, <3>5 DEF KernelStates
  <2> QED
    BY <2>1, <2>2
<1> QED
  BY <1>1, <1>2, <1>3, <1>4, <1>5, <1>7 DEF Silent

\* And the hook that is registered is asked about every call.
LEMMA SilentRuns ==
  ASSUME Silent, ~Unseen, shim_path = {"project"}, ~(has_match_all /\ Several)
  PROVE  \A tool \in Tools : Runs("project", "project", tool)
<1> DEFINE entries == Inspected.hooks["PreToolUse"]
<1>1. PICK r \in HookRegistrations : r.command.runs = "project"
  BY DEF shim_path, ShimPaths
<1>2. r.matcher \in {"*", ""}
  BY <1>1 DEF Silent, has_match_all, narrow_matchers, Several
<1>3. PICK i \in DOMAIN entries : \E j \in DOMAIN entries[i].hooks :
        r = [entry |-> i, hook |-> j, matcher |-> entries[i].matcher, command |-> entries[i].hooks[j]]
  BY DEF HookRegistrations
<1>4. PICK j \in DOMAIN entries[i].hooks :
        r = [entry |-> i, hook |-> j, matcher |-> entries[i].matcher, command |-> entries[i].hooks[j]]
  BY <1>3
<1>5. entries[i].matcher \in {"*", ""} /\ ours(entries[i].hooks[j], "project")
  BY <1>1, <1>2, <1>4 DEF ours
<1>6. ~Disabled("project", "project")
  BY DEF Unseen
<1>7. SettingsFile("project") \in Loaded("project")
  BY DEF Loaded
<1>8. entries = settings[SettingsFile("project")].hooks["PreToolUse"]
  BY DEF Inspected
<1> HIDE DEF entries
<1> QED
  BY <1>5, <1>6, <1>7, <1>8 DEF Runs, Covers

\* A finding that counts is an error or a warning, and either keeps the status from
\* being ok.
LEMMA Severities ==
  ASSUME NEW f \in findings
  PROVE  f.severity \in {"error", "warning"}
<1>1. \A code : /\ Error(code).severity = "error" /\ Warning(code).severity = "warning"
                /\ Note(code).severity = "warning"
  BY DEF Error, Warning, Note, Finding
<1>2. f \in SettingsFindings => f.severity \in {"error", "warning"}
  BY <1>1 DEF SettingsFindings, FoundIf
<1>3. f \in RegistrationFindings => f.severity \in {"error", "warning"}
  BY <1>1 DEF RegistrationFindings, FoundIf
<1>4. f \in ShimFindings => f.severity \in {"error", "warning"}
  BY <1>1 DEF ShimFindings, FoundIf
<1>5. f \in EnvironmentFindings => f.severity \in {"error", "warning"}
  BY <1>1 DEF EnvironmentFindings, FoundIf
<1>6. f \in BinaryFindings => f.severity \in {"error", "warning"}
  BY <1>1 DEF BinaryFindings, FoundIf
<1>7. f \in SwitchFindings => f.severity \in {"error", "warning"}
  BY <1>1 DEF SwitchFindings, FoundIf
<1>8. f \in ManifestFindings => f.severity \in {"error", "warning"}
  BY <1>1 DEF ManifestFindings, FoundIf
<1>9. f \in BrokenWorldFindings => f.severity \in {"error", "warning"}
  BY <1>1 DEF BrokenWorldFindings
<1> QED
  BY <1>2, <1>3, <1>4, <1>5, <1>6, <1>7, <1>8, <1>9 DEF findings

LEMMA ManifestIs ==
  ASSUME PartsTyped
  PROVE  /\ manifest_status = "ok" => Compiles(World("project", "project"))
         /\ manifest_status \in {"invalid", "unknown"} => ~Compiles(World("project", "project"))
BY DEF PartsTyped, manifest_status, Compiles, World, Scopes

\* What a shim that runs makes of a call.
LEMMA Answers ==
  ASSUME NEW s \in Shims, shim["project"] = {s}, s.text = "init", env.bash,
         switches \cap off_files("project") = {}, Execs("project", s.bin) = "fine"
  PROVE  ShimAnswer("project", "project") =
           IF Compiles(World("project", "project")) THEN "decided"
           ELSE IF s.mode = "open" THEN "passes"
           ELSE IF s.mode # "closed" /\ last_good["project"] = "own" THEN "last"
           ELSE "refused"
<1> DEFINE x == CHOOSE y \in shim["project"] : TRUE
<1>1. x = s
  OBVIOUS
<1> HIDE DEF x
<1>2. shim["project"] # {} /\ x.text = "init"
  BY <1>1
<1>3. Cache("project", "project") = last_good["project"]
  BY DEF Cache
<1> QED
  BY <1>1, <1>2, <1>3 DEF ShimAnswer, x

LEMMA DoctorIsRight ==
  ASSUME PartsTyped
  PROVE  DoctorTruthful
<1> DEFINE report == DoctorReport
           answer == ShimAnswer("project", "project")
           outcome == installation_status(findings)
<1>1. /\ report.findings = findings /\ report.installation = outcome
      /\ report.exit_code = reduce_exit_code_from_status(outcome)
  BY DEF DoctorReport
<1> HIDE DEF report
<1>2. ASSUME report.exit_code = 0, ~Unseen
      PROVE  answer = "decided" /\ \A tool \in Tools : Runs("project", "project", tool)
  <2>1. outcome = "ok"
    BY <1>1, <1>2 DEF reduce_exit_code_from_status, installation_status
  <2>2. /\ \A f \in findings : ~(f.severity = "error" /\ f.affects) /\ ~(f.severity = "warning" /\ f.affects)
        /\ hook_status = "recognized" /\ manifest_status = "ok"
    BY <2>1 DEF installation_status
  <2>3. Silent
    BY <2>2, Severities, WorldOnly
  <2>4. PICK s \in Shims :
           /\ shim["project"] = {s} /\ recognize_shim = {s} /\ s.text = "init" /\ env.bash
           /\ shim_path = {"project"} /\ switches \cap off_files("project") = {}
           /\ Execs("project", s.bin) = "fine"
    BY <1>2, <2>3, SilentShim
  <2>5. answer = "decided"
    BY <2>2, <2>4, Answers, ManifestIs
  <2>6. ~(has_match_all /\ Several)
    BY <2>2 DEF hook_status
  <2> QED
    BY <1>2, <2>3, <2>4, <2>5, <2>6, SilentRuns
<1>3. ASSUME BrokenWorldFindings # {},
             \A f \in report.findings : f.affects => f \in ManifestFindings \cup BrokenWorldFindings,
             ~Unseen, last_good["project"] # "other"
      PROVE  answer = BrokenWorld
  <2>1. Silent
    BY <1>1, <1>3, WorldCodes, WorldOnly
  <2>2. PICK s \in Shims :
           /\ shim["project"] = {s} /\ recognize_shim = {s} /\ s.text = "init" /\ env.bash
           /\ shim_path = {"project"} /\ switches \cap off_files("project") = {}
           /\ Execs("project", s.bin) = "fine"
    BY <1>3, <2>1, SilentShim
  <2>3. ~Compiles(World("project", "project"))
    BY <1>3, ManifestIs DEF BrokenWorldFindings
  <2>4. answer = IF s.mode = "open" THEN "passes"
                 ELSE IF s.mode # "closed" /\ last_good["project"] = "own" THEN "last"
                 ELSE "refused"
    BY <2>2, <2>3, Answers
  <2>5. broken_world_mode = IF s.mode = "default" THEN "last-good" ELSE s.mode
    <3>1. (CHOOSE x \in recognize_shim : TRUE) = s
      BY <2>2
    <3> QED
      BY <2>2, <3>1 DEF broken_world_mode
  <2>6. s.mode \in {"closed", "last-good", "open", "default"}
    BY DEF Shims
  <2>7. cached_last_good <=> last_good["project"] = "own"
    BY <1>3 DEF cached_last_good, PartsTyped, Scopes
  <2> QED
    BY <2>4, <2>5, <2>6, <2>7 DEF BrokenWorld
<1>4. switches \cap off_files("project") # {} => answer = "passes"
  BY DEF ShimAnswer
<1> QED
  BY <1>2, <1>3, <1>4 DEF DoctorTruthful, report

-----------------------------------------------------------------------------
(* The machine's first half: once it is opened, Setup promises nothing     *)
(* more.                                                                   *)

SetupInv ==
  /\ ~opened => SetupSound /\ PartsTyped
  /\ opened => setup = Over /\ promised = {} /\ touched = TRUE /\ lost = Scopes

LEMMA SetupInvInit == MachineInit => SetupInv
BY DocumentsAssumption, SetupStarts, PartsStart DEF MachineInit, SetupInv

LEMMA SetupSame ==
  ASSUME SetupSound, UNCHANGED setup_vars
  PROVE  SetupSound'
<1>1. UNCHANGED <<at_home, settings, shim, manifest, kernel, switches, env>>
      /\ UNCHANGED <<setup, promised, touched, given, lost>>
  BY DEF setup_vars, machine, told
<1>2. InstallerSound'
  BY <1>1 DEF SetupSound, InstallerSound, RunTyped, InitSound, RemoveSound, AtWorld, AtShim, AtSettings,
     AtEnd, WriteShim, HasRead, HasWorld, HasShim, HasHook, SettingsFile
<1> QED
  BY <1>1, <1>2, SameFilesKeep DEF SetupSound

LEMMA SetupInvNext == SetupInv /\ [MachineNext]_machine_vars => SetupInv'
<1> SUFFICES ASSUME SetupInv, [MachineNext]_machine_vars PROVE SetupInv'
  OBVIOUS
<1>1. CASE ~opened /\ SetupNext /\ UNCHANGED opened
  BY <1>1, DocumentsAssumption, SetupSteps, PartsStay DEF SetupInv
<1>2. CASE Open
  BY <1>2 DEF Open, SetupInv
<1>3. CASE UNCHANGED <<opened, setup_vars>>
  <2>1. /\ UNCHANGED <<setup, promised, touched, lost>>
        /\ UNCHANGED <<shim, manifest, last_good, kernel, switches, env>>
    BY <1>3 DEF setup_vars, told, machine
  <2>2. PartsTyped => PartsTyped'
    BY <2>1 DEF PartsTyped
  <2> QED
    BY <1>3, <2>1, <2>2, SetupSame DEF SetupInv
<1> QED
  BY <1>1, <1>2, <1>3 DEF MachineNext, machine_vars

LEMMA SetupInvSuffices == SetupInv => CoverageKept /\ DocumentKept /\ DoctorTruthful
<1>1. CASE opened /\ SetupInv
  BY <1>1, OverAssumption DEF SetupInv, CoverageKept, DocumentKept, DoctorTruthful
<1>2. CASE ~opened /\ SetupInv
  BY <1>2, SoundIsCovered, DoctorIsRight DEF SetupInv
<1> QED
  BY <1>1, <1>2

\* Whatever installers do, die and leave half done, and however many there are: once
\* init has said that a scope is governed, its world decides every call until somebody
\* else touches something, and settings never name a shim or a world that is not
\* there (init.rs: merge_settings, plan, apply; init_machine.rs: plan, remove).
THEOREM CoverageStaysKept == MachineSpec => []CoverageKept
BY SetupInvInit, SetupInvNext, SetupInvSuffices, PTL DEF MachineSpec

\* Any document, through any merges and removals in any order, keeps what its owner
\* left in it (init.rs: merge_settings, merge_observers; init_machine.rs:
\* unmerge_settings).
THEOREM DocumentStaysKept == MachineSpec => []DocumentKept
BY SetupInvInit, SetupInvNext, SetupInvSuffices, PTL DEF MachineSpec

\* However the files came to be as they are, while no installer is under way: exit code 0
\* means that the project's world decides every call, and what the doctor says of a broken
\* world is what is done, both unless hooks are disabled, the kernel that is there does
\* not start or the shim it recognizes was edited, the second also unless the cache is
\* another world's; "disabled" means that calls pass, unless only the old switch is set
\* (doctor.rs: inspect, reduce_exit_code_from_status; doctor_collector.rs).
THEOREM DoctorStaysTruthful == MachineSpec => []DoctorTruthful
BY SetupInvInit, SetupInvNext, SetupInvSuffices, PTL DEF MachineSpec
=============================================================================

------------------------------ MODULE SignedLog ------------------------------
(***************************************************************************)
(* The signed, chained and head-anchored log file shared by the approval   *)
(* store and the staged-commit store (crates/trace-store/src/chain.rs with *)
(* `open`, `reload`, `append`, `load` and `StoreLock` of approval.rs and   *)
(* staged.rs).  Several processes hold store instances over the same file. *)
(* Every mutation is: take the lock, reload, write one line, sync it, move *)
(* the head anchor, release.  Each of those is a step here, so a fault can *)
(* fall between any two of them.                                           *)
(*                                                                         *)
(* The MAC of line n is an HMAC over (seq, prev MAC, payload): without     *)
(* collisions it names the whole prefix of payloads that ends at line n.   *)
(* A MAC is therefore that sequence of payloads, GENESIS is <<>>, and      *)
(* `next_seq` is its length.  A payload is the process that wrote it.      *)
(***************************************************************************)
EXTENDS Naturals, Sequences, FiniteSets

CONSTANTS
  Procs,       \* store instances, each in a process of its own
  MaxLines,    \* bound: no new mutation starts once the log has so many lines
  MaxFaults,   \* bound: faults injected in one behaviour
  Faults,      \* which kinds of fault happen
  NoProc,      \* the lock is free
  NoHead       \* the head file does not exist

FaultKinds == {"kill", "kill_midline", "torn", "io", "power"}

ASSUME NoProcAssumption == NoProc \notin Procs
ASSUME NoHeadAssumption == NoHead \notin Seq(Procs)
ASSUME FaultsAssumption == Faults \subseteq FaultKinds
ASSUME BoundsAssumption == MaxLines \in Nat /\ MaxFaults \in Nat

VARIABLES
  key,       \* key file: "none", "short" (created, not yet written), "good"
  log,       \* physical lines of the log file
  synced,    \* how many of them a power loss cannot take back
  head,      \* the MAC the head file anchors, or NoHead
  headDisk,  \* the head a power loss would bring back
  lock,      \* holder of the advisory lock, or NoProc
  pc,        \* where each process is
  ret,       \* where it goes once its head write is complete
  view,      \* the lines its last load read
  seen,      \* its high-water mark
  acked,     \* history: MACs of the lines whose append returned Ok
  faults     \* faults so far

disk == <<key, log, synced, head, headDisk>>
mem  == <<pc, ret, view, seen>>
vars == <<disk, lock, mem, acked, faults>>

-----------------------------------------------------------------------------
(* Reading the log.                                                        *)

Genesis == <<>>

\* A line as serialised: what it chains to, its payload, and how much of it
\* reached the file: "whole", "unended" (text without its newline, which a
\* line reader accepts at end of file) or "garbled" (does not parse).
Lines == [prev : Seq(Procs), ev : Procs, form : {"whole", "unended", "garbled"}]

line_mac(l) == Append(l.prev, l.ev)

MacAt(lines, i) == IF i = 0 THEN Genesis ELSE line_mac(lines[i])

verify_line(lines, i) ==
  /\ lines[i].form # "garbled"
  /\ lines[i].prev = MacAt(lines, i - 1)

Chained(lines) == \A i \in 1..Len(lines) : verify_line(lines, i)

TailOf(lines) == MacAt(lines, Len(lines))

\* Line number that a head anchors: the log must reach it ...
Reaches(lines, h) == Len(h) <= Len(lines) /\ MacAt(lines, Len(h)) = h

\* Variant: no slack for the line a crash leaves.
verify_head_NoSlack(lines, h) ==
  /\ h # NoHead
  /\ Reaches(lines, h)
  /\ Len(lines) = Len(h)

\* ... and may run at most one line past it.
verify_head(lines, h) ==
  /\ h # NoHead
  /\ Reaches(lines, h)
  /\ Len(lines) <= Len(h) + 1

LoadOk(lines, h) == Chained(lines) /\ verify_head(lines, h)

Ahead(lines, h) == Len(lines) > Len(h)

check_high_water(lines, mark) == Reaches(lines, mark)

-----------------------------------------------------------------------------
Init ==
  /\ key = "none" /\ log = <<>> /\ synced = 0
  /\ head = NoHead /\ headDisk = NoHead
  /\ lock = NoProc
  /\ pc = [p \in Procs |-> "closed"]
  /\ ret = [p \in Procs |-> "none"]
  /\ view = [p \in Procs |-> <<>>]
  /\ seen = [p \in Procs |-> Genesis]
  /\ acked = {}
  /\ faults = 0

Goto(p, l) == pc' = [pc EXCEPT ![p] = l]

\* Variant: an early return that keeps the lock.
Release_Kept(p) == lock' = IF lock = p /\ pc[p] = "dirsync" THEN NoProc ELSE lock

Release(p) == lock' = IF lock = p THEN NoProc ELSE lock

\* An early return with an error: the guard drops the lock.
Fail(p, l) ==
  /\ Goto(p, l)
  /\ Release(p)
  /\ ret' = [ret EXCEPT ![p] = "none"]
  /\ view' = [view EXCEPT ![p] = <<>>]

-----------------------------------------------------------------------------
(* open.  The key file is created outside the lock; the load is first      *)
(* tried without it.                                                       *)

\* load_or_create_key: a key that is there must be whole, or open returns an error.
OpenKey(p) ==
  /\ pc[p] = "closed"
  /\ \/ key = "none" /\ key' = "short" /\ Goto(p, "key_write")
     \/ key = "good" /\ UNCHANGED key /\ Goto(p, "open_read")
  /\ UNCHANGED <<log, synced, head, headDisk, lock, ret, view, seen, acked, faults>>

KeyWrite(p) ==
  /\ pc[p] = "key_write"
  /\ key' = "good"
  /\ Goto(p, "open_read")
  /\ UNCHANGED <<log, synced, head, headDisk, lock, ret, view, seen, acked, faults>>

\* Log first, head second, and another process may append in between.
OpenReadLog(p) ==
  /\ pc[p] = "open_read"
  /\ view' = [view EXCEPT ![p] = log]
  /\ Goto(p, "open_head")
  /\ UNCHANGED <<disk, lock, ret, seen, acked, faults>>

OpenReadHead(p) ==
  /\ pc[p] = "open_head"
  /\ IF LoadOk(view[p], head) /\ ~Ahead(view[p], head)
     THEN Goto(p, "idle") /\ seen' = [seen EXCEPT ![p] = TailOf(view[p])]
     ELSE Goto(p, "open_wait") /\ UNCHANGED seen
  /\ view' = [view EXCEPT ![p] = <<>>]
  /\ UNCHANGED <<disk, lock, ret, acked, faults>>

\* Variant: the lock does not exclude.
Acquire_Shared(p) ==
  /\ pc[p] \in {"open_wait", "wait"}
  /\ lock' = p
  /\ Goto(p, IF pc[p] = "wait" THEN "reload" ELSE "open_ensure")
  /\ UNCHANGED <<disk, ret, view, seen, acked, faults>>

\* StoreLock::acquire: taken when free, given up after the wait when not.
Acquire(p) ==
  /\ pc[p] \in {"open_wait", "wait"}
  /\ lock = NoProc
  /\ lock' = p
  /\ Goto(p, IF pc[p] = "wait" THEN "reload" ELSE "open_ensure")
  /\ UNCHANGED <<disk, ret, view, seen, acked, faults>>

LockTimeout(p) ==
  /\ pc[p] \in {"open_wait", "wait"}
  /\ lock \notin {NoProc, p}
  /\ Goto(p, IF pc[p] = "wait" THEN "idle" ELSE "closed")
  /\ UNCHANGED <<disk, lock, ret, view, seen, acked, faults>>

\* Variant: open writes the genesis head even when there is a head.
OpenEnsure_Always(p) ==
  /\ pc[p] = "open_ensure"
  /\ head' = Genesis
  /\ ret' = [ret EXCEPT ![p] = "open_load"]
  /\ Goto(p, "dirsync")
  /\ UNCHANGED <<key, log, synced, headDisk, lock, view, seen, acked, faults>>

\* ensure_head: a genesis head for a fresh store, an error for a log that has
\* lines and no head.
OpenEnsure(p) ==
  /\ pc[p] = "open_ensure"
  /\ IF head = NoHead /\ log # <<>>
     THEN Fail(p, "closed") /\ UNCHANGED head
     ELSE /\ head' = IF head = NoHead THEN Genesis ELSE head
          /\ ret' = [ret EXCEPT ![p] = "open_load"]
          /\ Goto(p, IF head = NoHead THEN "dirsync" ELSE "open_load")
          /\ UNCHANGED <<lock, view>>
  /\ UNCHANGED <<key, log, synced, headDisk, seen, acked, faults>>

\* Load under the lock.  A log one line past its head is anchored again.
OpenLoad(p) ==
  /\ pc[p] = "open_load"
  /\ \/ /\ ~LoadOk(log, head)
        /\ Fail(p, "closed") /\ UNCHANGED seen
     \/ /\ LoadOk(log, head) /\ Ahead(log, head)
        /\ view' = [view EXCEPT ![p] = log]
        /\ Goto(p, "open_anchor") /\ UNCHANGED <<lock, ret, seen>>
     \/ /\ LoadOk(log, head) /\ ~Ahead(log, head)
        /\ seen' = [seen EXCEPT ![p] = TailOf(log)]
        /\ Fail(p, "idle")
  /\ UNCHANGED <<disk, acked, faults>>

OpenAnchor(p) ==
  /\ pc[p] = "open_anchor"
  /\ head' = TailOf(view[p])
  /\ seen' = [seen EXCEPT ![p] = TailOf(view[p])]
  /\ ret' = [ret EXCEPT ![p] = "idle"]
  /\ Goto(p, "dirsync")
  /\ UNCHANGED <<key, log, synced, headDisk, lock, view, acked, faults>>

-----------------------------------------------------------------------------
(* One mutation of an open store.                                          *)

Begin(p) ==
  /\ pc[p] = "idle"
  /\ Len(log) < MaxLines
  /\ Goto(p, "wait")
  /\ UNCHANGED <<disk, lock, ret, view, seen, acked, faults>>

\* Variant: a mutation chains to what this instance saw last.
Reload_Stale(p) ==
  /\ pc[p] = "reload"
  /\ view' = [view EXCEPT ![p] = SubSeq(log, 1, Len(seen[p]))]
  /\ Goto(p, "write")
  /\ UNCHANGED <<disk, lock, ret, seen, acked, faults>>

\* reload ignores `ahead`.  The operation itself may also refuse what it
\* finds (unknown id, illegal transition) and append nothing.
Reload(p) ==
  /\ pc[p] = "reload"
  /\ \/ /\ LoadOk(log, head) /\ check_high_water(log, seen[p])
        /\ view' = [view EXCEPT ![p] = log]
        /\ Goto(p, "write") /\ UNCHANGED <<lock, ret>>
     \/ Fail(p, "idle")
  /\ UNCHANGED <<disk, seen, acked, faults>>

NewLine(p) == [prev |-> TailOf(view[p]), ev |-> p, form |-> "unended"]

EndsCleanly(lines) == lines = <<>> \/ lines[Len(lines)].form = "whole"

\* The file after `form` of a new line's text was written at its end.  Text
\* that follows an unended line lands on that same line.
AfterText(p, form) ==
  IF EndsCleanly(log)
  THEN Append(log, [NewLine(p) EXCEPT !.form = form])
  ELSE [log EXCEPT ![Len(log)].form = "garbled"]

\* writeln! on an unbuffered File is one write for the text ...
WriteText(p) ==
  /\ pc[p] = "write"
  /\ log' = AfterText(p, "unended")
  /\ synced' = IF EndsCleanly(log) THEN synced ELSE Len(log) - 1
  /\ Goto(p, "newline")
  /\ UNCHANGED <<key, head, headDisk, lock, ret, view, seen, acked, faults>>

\* Variant: write! where writeln! is meant.
WriteNewline_Missing(p) ==
  /\ pc[p] = "newline"
  /\ Goto(p, "sync")
  /\ UNCHANGED <<disk, lock, ret, view, seen, acked, faults>>

\* ... and one for the newline.
WriteNewline(p) ==
  /\ pc[p] = "newline"
  /\ log' = [log EXCEPT ![Len(log)].form =
               IF @ = "unended" THEN "whole" ELSE @]
  /\ Goto(p, "sync")
  /\ UNCHANGED <<key, synced, head, headDisk, lock, ret, view, seen, acked, faults>>

\* Variant: flush without sync_data.
Sync_Skipped(p) ==
  /\ pc[p] = "sync"
  /\ seen' = [seen EXCEPT ![p] = line_mac(NewLine(p))]
  /\ Goto(p, "head")
  /\ UNCHANGED <<disk, lock, ret, view, acked, faults>>

Sync(p) ==
  /\ pc[p] = "sync"
  /\ synced' = Len(log)
  /\ seen' = [seen EXCEPT ![p] = line_mac(NewLine(p))]
  /\ Goto(p, "head")
  /\ UNCHANGED <<key, log, head, headDisk, lock, ret, view, acked, faults>>

\* write_head: the rename makes the new anchor visible at once ...
WriteHead(p) ==
  /\ pc[p] = "head"
  /\ head' = seen[p]
  /\ ret' = [ret EXCEPT ![p] = "acked"]
  /\ Goto(p, "dirsync")
  /\ UNCHANGED <<key, log, synced, headDisk, lock, view, seen, acked, faults>>

\* What follows a head write: open loads, a mutation returns Ok.
HeadWritten(p) ==
  /\ IF ret[p] = "open_load"
     THEN Goto(p, "open_load") /\ UNCHANGED <<lock, ret, view, acked>>
     ELSE /\ acked' = IF ret[p] = "acked" THEN acked \union {seen[p]} ELSE acked
          /\ Fail(p, "idle")
  /\ UNCHANGED <<key, log, synced, head, seen>>

\* ... and sync_parent makes it durable.
SyncParent(p) ==
  /\ pc[p] = "dirsync"
  /\ headDisk' = head
  /\ HeadWritten(p)
  /\ UNCHANGED faults

-----------------------------------------------------------------------------
(* Faults.                                                                 *)

Fault(kind) ==
  /\ kind \in Faults
  /\ faults < MaxFaults
  /\ faults' = faults + 1

Die(p) ==
  /\ Fail(p, "closed")
  /\ seen' = [seen EXCEPT ![p] = Genesis]

\* The process ends.  The operating system drops its lock.
Kill(p) ==
  /\ pc[p] \notin {"closed", "newline"}
  /\ Fault("kill")
  /\ Die(p)
  /\ UNCHANGED <<disk, acked>>

\* It ends between the two writes of writeln!.
KillMidLine(p) ==
  /\ pc[p] = "newline"
  /\ Fault("kill_midline")
  /\ Die(p)
  /\ UNCHANGED <<disk, acked>>

\* Only a part of the text reaches the file: killed, or the disk is full.
Torn(p) ==
  /\ pc[p] = "write"
  /\ Fault("torn")
  /\ log' = AfterText(p, "garbled")
  /\ synced' = IF EndsCleanly(log) THEN synced ELSE Len(log) - 1
  /\ \/ Die(p)
     \/ Fail(p, "idle") /\ UNCHANGED seen
  /\ UNCHANGED <<key, head, headDisk, acked>>

\* sync_data, or a step of write_head before its rename, returns an error.
IoError(p) ==
  /\ pc[p] \in {"sync", "head", "open_anchor"}
  /\ Fault("io")
  /\ Fail(p, IF pc[p] = "open_anchor" THEN "closed" ELSE "idle")
  /\ UNCHANGED <<disk, seen, acked>>

\* sync_parent is best effort: its error is dropped.
SyncParentFails(p) ==
  /\ pc[p] = "dirsync"
  /\ Fault("io")
  /\ HeadWritten(p)
  /\ UNCHANGED headDisk

\* What is left of the log: lines that were not synced may be gone, and the
\* last one of those that are left may have reached the disk in part.
AfterPowerLoss ==
  {SubSeq(log, 1, n) : n \in synced..Len(log)} \union
  {[SubSeq(log, 1, n) EXCEPT ![n].form = f] :
       n \in (synced + 1)..Len(log), f \in {"unended", "garbled"}}

\* Every process ends; a head whose rename was not synced may be gone, and of a
\* key, which is never synced, a part.
PowerLoss ==
  /\ Fault("power")
  /\ log' \in AfterPowerLoss
  /\ synced' = Len(log')
  /\ head' \in {head, headDisk}
  /\ headDisk' = head'
  /\ key' \in IF key = "good" THEN {"good", "short"} ELSE {key}
  /\ lock' = NoProc
  /\ pc' = [p \in Procs |-> "closed"]
  /\ ret' = [p \in Procs |-> "none"]
  /\ view' = [p \in Procs |-> <<>>]
  /\ seen' = [p \in Procs |-> Genesis]
  /\ UNCHANGED acked

-----------------------------------------------------------------------------
Step(p) ==
  \/ OpenKey(p) \/ KeyWrite(p)
  \/ OpenReadLog(p) \/ OpenReadHead(p)
  \/ Acquire(p) \/ LockTimeout(p)
  \/ OpenEnsure(p) \/ OpenLoad(p) \/ OpenAnchor(p)
  \/ Reload(p) \/ WriteText(p) \/ WriteNewline(p) \/ Sync(p)
  \/ WriteHead(p) \/ SyncParent(p)

Next ==
  \/ \E p \in Procs : Step(p) \/ Begin(p)
  \/ \E p \in Procs : Kill(p) \/ KillMidLine(p) \/ Torn(p)
                     \/ IoError(p) \/ SyncParentFails(p)
  \/ PowerLoss

Spec == Init /\ [][Next]_vars

\* A running process keeps executing; nothing makes it start an operation.
FairSpec == Spec /\ \A p \in Procs : WF_vars(Step(p))
-----------------------------------------------------------------------------
(* Properties.                                                             *)

\* Two processes never extend the same tail: whatever the interleaving of
\* opens, appends and deaths, every line that parses chains to the line
\* physically before it (LineFault::OutOfChain never happens by itself).
ChainNeverForks ==
  \A i \in 1..Len(log) : log[i].form # "garbled" => verify_line(log, i)

\* The log holds every line that was synced, every line that the head anchors and
\* every line that a running instance has seen: no store finds its own log "cut"
\* because of a crash (verify_head's first refusal), and none refuses it as "rolled
\* back while in use" when nobody rolled it back (check_high_water).  And the head
\* anchors every append that returned Ok, from then on, although openers and writers
\* of several processes rewrite it: cutting such a line away would be noticed (D78's
\* purpose).
MarksWithinLog ==
  /\ Chained(log) =>
       /\ head # NoHead => Reaches(log, head)
       /\ \A p \in Procs : check_high_water(log, seen[p])
  /\ synced \in 0 .. Len(log)
  /\ \A m \in acked : head # NoHead /\ Len(m) <= Len(head)

\* An append that returned Ok is part of everything a later load accepts.
AckedNeverLost ==
  LoadOk(log, head) => \A m \in acked : Reaches(log, m)

\* The log was never written, or loads for whoever opens it.
Loadable == (head = NoHead /\ log = <<>>) \/ (key = "good" /\ LoadOk(log, head))

WholeLines == \A i \in 1..Len(log) : log[i].form = "whole"

\* The one line of slack is enough for one fault: after a single crash, I/O
\* error or power loss that left neither a partial line nor a short key behind,
\* the log still loads whenever nobody is writing it.  (A power loss may cut the
\* key, which load_or_create_key never syncs, and then nobody opens the store.)
SlackCoversOneFault ==
  (faults <= 1 /\ lock = NoProc /\ WholeLines /\ key # "short") => Loadable

\* What chain.rs:17-20 says: a log that a crash left one line past its head
\* is anchored again, "so the slack never accumulates" and no further crash
\* or failed head write can put the log out of reach.
SlackNeverAccumulates == lock = NoProc => Loadable

\* A tail that a load tolerates stays good: an append after it that returned
\* Ok left a log that loads (approval.rs:496-497, "refuses or tolerates"), and
\* signed it by a key that is on the disk as a whole, whoever created that
\* without the lock or died over it (load_or_create_key).
AckMeansLoadable == [][acked' # acked => Loadable']_vars

\* The lock is released by every path, the holder's death included (AI2-75), and
\* an operation always returns: it gets the lock or gives up waiting.
OperationReturns ==
  /\ lock # NoProc ~> lock = NoProc
  /\ \A p \in Procs : pc[p] = "wait" ~> pc[p] \in {"idle", "closed"}

(* The abstraction the stores are written against.                         *)
LoadedPrefix ==
  Cardinality({i \in 1..Len(log) : Chained(SubSeq(log, 1, i))})

Promise == INSTANCE DurableLog WITH
  Writers   <- Procs,
  entries   <- MacAt(log, LoadedPrefix),
  confirmed <- acked,
  readable  <- Chained(log)

\* Without power loss and half-written lines, the file is a durable log.
ImplementsDurableLog == Promise!DSpec

=============================================================================

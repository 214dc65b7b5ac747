------------------------------ MODULE HookSession ------------------------------
(***************************************************************************)
(* The session state of the host hooks (cli-harness: cc_hook.rs,           *)
(* agy_hook.rs, hostkit.rs): every tool call starts a process that reads   *)
(* the taint marker and the usage sidecar, asks the gate, writes both back *)
(* and answers the host.  No lock is taken; hosts start hooks side by side.*)
(*                                                                         *)
(* The world is one that counts calls; its counters are one number, and a  *)
(* trusted source channel adds no taint.  What the host does with an       *)
(* answer other than a plain ALLOW (a person's yes, its own permission     *)
(* flow after REPLAN or a dead hook) is outside the hook's session state:  *)
(* such calls are neither charged nor marked by the code, nor counted here.*)
(***************************************************************************)
EXTENDS Naturals

CONSTANTS
  Hooks,      \* hook processes that may run at once
  Calls,      \* kinds of calls the host makes
  Limit,      \* the budget of the world
  NoFile,     \* there is no usage sidecar
  Damaged,    \* the sidecar is empty, or does not parse
  NoCall,
  MaxCalls,   \* bound: calls in one behaviour
  MaxFaults   \* bound: deaths and failed writes in one behaviour

\* `counted`: it costs budget.  `ingests`: its result taints the session.
\* `external`: the taint floor applies.  `consent`: the world asks a person.
CallShape == [counted : BOOLEAN, ingests : BOOLEAN, external : BOOLEAN,
              consent : BOOLEAN]

ASSUME HookAssumption ==
  /\ Calls \subseteq CallShape
  /\ NoCall \notin Calls
  /\ Limit \in Nat /\ MaxCalls \in Nat /\ MaxFaults \in Nat
  /\ NoFile \notin Nat /\ Damaged \notin Nat /\ NoFile # Damaged

VARIABLES
  marker,     \* the taint marker exists
  sidecar,    \* the usage sidecar: NoFile, Damaged or the counter
  pc, call,   \* of each hook
  tainted,    \* whether it found the marker
  carried,    \* the counter it read, or Damaged
  calls, faults,
  ingested,   \* history: an ingesting call was let through
  sawIngest,  \* history: ... before this hook was started
  charged,    \* history: counted calls that were let through
  overlapped, \* history: two hooks ran at once
  sawDamage   \* history: a hook read a damaged sidecar

files == <<marker, sidecar>>
hook == <<pc, call, tainted, carried>>
history == <<ingested, sawIngest, charged, overlapped, sawDamage>>
vars == <<files, hook, calls, faults, history>>

Init ==
  /\ marker = FALSE
  /\ sidecar = NoFile
  /\ pc = [h \in Hooks |-> "idle"]
  /\ call = [h \in Hooks |-> NoCall]
  /\ tainted = [h \in Hooks |-> FALSE]
  /\ carried = [h \in Hooks |-> 0]
  /\ calls = 0 /\ faults = 0
  /\ ingested = FALSE
  /\ sawIngest = [h \in Hooks |-> FALSE]
  /\ charged = 0
  /\ overlapped = FALSE
  /\ sawDamage = FALSE

-----------------------------------------------------------------------------
(* The gate, for one call with the carried taint and counter.              *)

\* missing_usage, the taint floor, approval, budget: the first that applies.
verdict(c, t, n) ==
  IF n = Damaged THEN "deny"
  ELSE IF t /\ c.external THEN "deny"
  ELSE IF c.consent THEN "ask"
  ELSE IF c.counted /\ n >= Limit THEN "replan"
  ELSE "allow"

\* Variant: a call that is not allowed gives a charge back.
out_usage_Refund(c, t, n) ==
  IF n = Damaged THEN 0
  ELSE IF verdict(c, t, n) # "allow" THEN n - 1
  ELSE IF c.counted THEN n + 1
  ELSE n

\* The counter the response carries; a refusal without counters says zero.
out_usage(c, t, n) ==
  IF n = Damaged THEN 0
  ELSE IF verdict(c, t, n) = "allow" /\ c.counted THEN n + 1
  ELSE n

\* The taint the response carries: only a call that runs ingests anything.
out_taint(c, t, n) == t \/ (verdict(c, t, n) = "allow" /\ c.ingests)

-----------------------------------------------------------------------------
(* One hook process.                                                       *)

Goto(h, l) == pc' = [pc EXCEPT ![h] = l]

\* The process ends; what it knew goes with it.
Exit(h) ==
  /\ Goto(h, "idle")
  /\ call' = [call EXCEPT ![h] = NoCall]
  /\ tainted' = [tainted EXCEPT ![h] = FALSE]
  /\ carried' = [carried EXCEPT ![h] = 0]
  /\ sawIngest' = [sawIngest EXCEPT ![h] = FALSE]

\* The host is about to run a tool.
Invoke(h) ==
  /\ pc[h] = "idle"
  /\ calls < MaxCalls
  /\ calls' = calls + 1
  /\ \E c \in Calls : call' = [call EXCEPT ![h] = c]
  /\ Goto(h, "taint")
  /\ sawIngest' = [sawIngest EXCEPT ![h] = ingested]
  /\ overlapped' = (overlapped \/ \E k \in Hooks : pc[k] # "idle")
  /\ UNCHANGED <<files, tainted, carried, faults, ingested, charged, sawDamage>>

ReadTaint(h) ==
  /\ pc[h] = "taint"
  /\ tainted' = [tainted EXCEPT ![h] = marker]
  /\ Goto(h, "usage")
  /\ UNCHANGED <<files, call, carried, calls, faults, history>>

\* Where a hook goes when its counter is on disk: the escalation has to be
\* recorded before the answer.
AfterUsage(c, t, n) == IF out_taint(c, t, n) /\ ~t THEN "mark" ELSE "answer"

\* Counters that could not be read are always written back.
read_usage(h) ==
  LET n == IF sidecar = NoFile THEN 0 ELSE sidecar
      c == call[h]
      t == tainted[h]
  IN  /\ pc[h] = "usage"
      /\ carried' = [carried EXCEPT ![h] = n]
      /\ sawDamage' = (sawDamage \/ n = Damaged)
      /\ Goto(h, IF out_usage(c, t, n) # n THEN "create" ELSE AfterUsage(c, t, n))
      /\ UNCHANGED <<files, call, tainted, calls, faults, ingested, sawIngest,
                     charged, overlapped>>

\* File::create empties the sidecar ...
CreateUsage(h) ==
  /\ pc[h] = "create"
  /\ sidecar' = Damaged
  /\ Goto(h, "write")
  /\ UNCHANGED <<marker, call, tainted, carried, calls, faults, history>>

\* ... and the counter is written to it and synced.
WriteUsage(h) ==
  LET u == out_usage(call[h], tainted[h], carried[h])
  IN  /\ pc[h] = "write"
      /\ sidecar' = u
      /\ Goto(h, AfterUsage(call[h], tainted[h], carried[h]))
      /\ UNCHANGED <<marker, call, tainted, carried, calls, faults, history>>

persist_taint(h) ==
  /\ pc[h] = "mark"
  /\ marker' = TRUE
  /\ Goto(h, "answer")
  /\ UNCHANGED <<sidecar, call, tainted, carried, calls, faults, history>>

\* The host gets its answer, and runs what is allowed.
Answer(h) ==
  LET c == call[h]
      allowed == verdict(c, tainted[h], carried[h]) = "allow"
  IN  /\ pc[h] = "answer"
      /\ Exit(h)
      /\ ingested' = (ingested \/ (allowed /\ c.ingests))
      /\ charged' = IF allowed /\ c.counted THEN charged + 1 ELSE charged
      /\ UNCHANGED <<files, calls, faults, overlapped, sawDamage>>

-----------------------------------------------------------------------------
(* Faults.                                                                 *)

Fault == faults < MaxFaults /\ faults' = faults + 1

\* Variant: a counter that was not recorded does not stop the call.
UsageFails_Ignored(h) ==
  /\ Fault
  /\ pc[h] = "create"
  /\ Goto(h, AfterUsage(call[h], tainted[h], carried[h]))
  /\ UNCHANGED <<files, call, tainted, carried, calls, history>>

\* The sidecar cannot be created, or not written, or not synced: the call is
\* refused ("untracked_budget").
UsageFails(h) ==
  /\ Fault
  /\ \/ pc[h] = "create" /\ UNCHANGED sidecar
     \/ /\ pc[h] = "write"
        /\ sidecar' \in {sidecar, Damaged,
                         out_usage(call[h], tainted[h], carried[h])}
  /\ Exit(h)
  /\ UNCHANGED <<marker, calls, ingested, charged, overlapped, sawDamage>>

\* Variant: a taint that was not recorded does not stop the call (before D59).
TaintFails_Ignored(h) ==
  /\ Fault
  /\ pc[h] = "mark"
  /\ Goto(h, "answer")
  /\ UNCHANGED <<files, call, tainted, carried, calls, history>>

\* The marker cannot be created, or not written or synced once it exists: the
\* call is refused ("untracked_taint"), its charge stays.
TaintFails(h) ==
  /\ Fault
  /\ pc[h] = "mark"
  /\ marker' \in {marker, TRUE}
  /\ Exit(h)
  /\ UNCHANGED <<sidecar, calls, ingested, charged, overlapped, sawDamage>>

\* The process is killed.
Die(h) ==
  /\ Fault
  /\ pc[h] # "idle"
  /\ Exit(h)
  /\ UNCHANGED <<files, calls, ingested, charged, overlapped, sawDamage>>

-----------------------------------------------------------------------------
Next ==
  \E h \in Hooks :
    \/ Invoke(h) \/ ReadTaint(h) \/ read_usage(h)
    \/ CreateUsage(h) \/ WriteUsage(h) \/ persist_taint(h) \/ Answer(h)
    \/ UsageFails(h) \/ TaintFails(h) \/ Die(h)

Spec == Init /\ [][Next]_vars

-----------------------------------------------------------------------------
(* Properties.                                                             *)

Places == {"idle", "taint", "usage", "create", "write", "mark", "answer"}

Counters == Nat \union {Damaged}

\* Every variable is of its type; a hook that runs has a call (cc_hook.rs run).
TypeOK ==
  /\ marker \in BOOLEAN
  /\ sidecar \in Counters \union {NoFile}
  /\ pc \in [Hooks -> Places]
  /\ call \in [Hooks -> Calls \union {NoCall}]
  /\ \A h \in Hooks : pc[h] # "idle" => call[h] \in Calls
  /\ tainted \in [Hooks -> BOOLEAN]
  /\ carried \in [Hooks -> Counters]
  /\ calls \in Nat /\ faults \in Nat
  /\ ingested \in BOOLEAN
  /\ sawIngest \in [Hooks -> BOOLEAN]
  /\ charged \in Nat
  /\ overlapped \in BOOLEAN /\ sawDamage \in BOOLEAN

\* Once an ingesting call was let through, no hook that starts later lets an
\* external call through, nor asks for it: whichever hooks run side by side,
\* die, or fail to write (D59, persist_taint before the answer).
FloorAfterIngest ==
  \A h \in Hooks :
    (pc[h] = "answer" /\ sawIngest[h] /\ call[h].external)
      => verdict(call[h], tainted[h], carried[h]) = "deny"

AllIdle == \A h \in Hooks : pc[h] = "idle"

\* The sidecar does not count less than what was let through.
KeepsUp ==
  /\ sidecar = NoFile => charged = 0
  /\ sidecar \in Nat => charged <= sidecar

\* Hooks that run one after the other let no more calls through than the
\* budget has, through deaths and failed writes too, as long as none of them
\* met a damaged sidecar (D64, persist_usage before the answer).
BudgetBinds ==
  (~overlapped /\ ~sawDamage) => charged <= Limit /\ (AllIdle => KeepsUp)

\* What cc_hook.rs:333-334 says: "a corrupt sidecar fails closed rather than
\* silently restarting the budget at zero".
BudgetNeverRestarts == (~overlapped /\ AllIdle) => KeepsUp
=============================================================================

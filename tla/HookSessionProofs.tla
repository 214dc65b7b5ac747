--------------------------- MODULE HookSessionProofs ---------------------------
(***************************************************************************)
(* HookSession for any number of hooks, calls and faults.                  *)
(*                                                                         *)
(* FloorAfterIngest needs to know that an ingesting call is let through    *)
(* only when the marker exists (Marked), and what a hook that started      *)
(* later has therefore read (Informed).                                    *)
(*                                                                         *)
(* BudgetBinds needs what a hook in the middle of its writing knows: the   *)
(* counter it read is not below what was let through, and what it left on  *)
(* disk before its answer is the counter of its response (Counted).  Both  *)
(* hold because an undisturbed hook runs alone (Alone).                    *)
(***************************************************************************)
EXTENDS HookSession, TLAPS

\* Lets the type checker of the prover see a call's fields.
LEMMA CallFields ==
  ASSUME NEW c \in Calls
  PROVE  /\ c.counted \in BOOLEAN /\ c.ingests \in BOOLEAN
         /\ c.external \in BOOLEAN /\ c.consent \in BOOLEAN
BY HookAssumption DEF CallShape

\* The counter of the response is a number.
LEMMA UsageIsNumber ==
  ASSUME NEW c, NEW t, NEW n \in Counters
  PROVE  out_usage(c, t, n) \in Nat
BY DEF Counters, out_usage

LEMMA ExitTypes ==
  ASSUME TypeOK, NEW h \in Hooks, Exit(h)
  PROVE  /\ pc' \in [Hooks -> Places]
         /\ call' \in [Hooks -> Calls \union {NoCall}]
         /\ \A k \in Hooks : pc'[k] # "idle" => call'[k] \in Calls
         /\ tainted' \in [Hooks -> BOOLEAN]
         /\ carried' \in [Hooks -> Counters]
         /\ sawIngest' \in [Hooks -> BOOLEAN]
BY DEF Exit, Goto, TypeOK, Places, Counters

LEMMA TypesNext == TypeOK /\ [Next]_vars => TypeOK'
<1> SUFFICES ASSUME TypeOK, [Next]_vars PROVE TypeOK'
  OBVIOUS
<1> USE HookAssumption
<1>1. ASSUME NEW h \in Hooks, Invoke(h) PROVE TypeOK'
  BY <1>1 DEF Invoke, Goto, files, TypeOK, Places
<1>2. ASSUME NEW h \in Hooks, ReadTaint(h) PROVE TypeOK'
  BY <1>2 DEF ReadTaint, Goto, files, history, TypeOK, Places
<1>3. ASSUME NEW h \in Hooks, read_usage(h) PROVE TypeOK'
  <2> DEFINE n == IF sidecar = NoFile THEN 0 ELSE sidecar
             place == IF out_usage(call[h], tainted[h], n) # n THEN "create"
                      ELSE AfterUsage(call[h], tainted[h], n)
  <2>1. n \in Counters
    BY DEF TypeOK, Counters
  <2>2. place \in Places \ {"idle"}
    BY DEF AfterUsage, Places
  <2>3. pc[h] # "idle" /\ pc' = [pc EXCEPT ![h] = place]
        /\ carried' = [carried EXCEPT ![h] = n] /\ sawDamage' \in BOOLEAN
    BY <1>3 DEF read_usage, Goto, TypeOK
  <2> HIDE DEF n, place
  <2>4. UNCHANGED <<files, call, tainted, calls, faults, ingested, sawIngest,
                    charged, overlapped>>
    BY <1>3 DEF read_usage
  <2> QED BY <2>1, <2>2, <2>3, <2>4 DEF files, TypeOK
<1>4. ASSUME NEW h \in Hooks, CreateUsage(h) PROVE TypeOK'
  BY <1>4 DEF CreateUsage, Goto, history, TypeOK, Places, Counters
<1>5. ASSUME NEW h \in Hooks, WriteUsage(h) PROVE TypeOK'
  <2>1. sidecar' \in Nat
    BY <1>5, UsageIsNumber DEF WriteUsage, TypeOK
  <2>2. AfterUsage(call[h], tainted[h], carried[h]) \in Places \ {"idle"}
    BY DEF AfterUsage, Places
  <2> QED BY <1>5, <2>1, <2>2 DEF WriteUsage, Goto, history, TypeOK, Counters
<1>6. ASSUME NEW h \in Hooks, persist_taint(h) PROVE TypeOK'
  BY <1>6 DEF persist_taint, Goto, history, TypeOK, Places
<1>7. ASSUME NEW h \in Hooks, Answer(h) PROVE TypeOK'
  <2>1. call[h] \in Calls
    BY <1>7 DEF Answer, TypeOK
  <2>2. ingested' \in BOOLEAN /\ charged' \in Nat
    BY <1>7, <2>1, CallFields DEF Answer, TypeOK
  <2> QED BY <1>7, <2>2, ExitTypes DEF Answer, files, TypeOK
<1>8. ASSUME NEW h \in Hooks, UsageFails(h) PROVE TypeOK'
  <2>1. out_usage(call[h], tainted[h], carried[h]) \in Nat
    BY UsageIsNumber DEF TypeOK
  <2>2. sidecar' \in {sidecar, Damaged, out_usage(call[h], tainted[h], carried[h])}
    BY <1>8 DEF UsageFails
  <2>3. sidecar' \in Counters \union {NoFile}
    BY <2>1, <2>2 DEF TypeOK, Counters
  <2> QED BY <1>8, <2>3, ExitTypes DEF UsageFails, Fault, TypeOK
<1>9. ASSUME NEW h \in Hooks, TaintFails(h) \/ Die(h) PROVE TypeOK'
  <2>1. marker' \in BOOLEAN
    BY <1>9 DEF TaintFails, Die, files, TypeOK
  <2>2. faults' \in Nat
    <3>1. Fault
      BY <1>9 DEF TaintFails, Die
    <3> QED BY <3>1 DEF Fault, TypeOK
  <2>3. Exit(h) /\ UNCHANGED <<sidecar, calls, ingested, charged, overlapped, sawDamage>>
    BY <1>9 DEF TaintFails, Die, files
  <2> QED BY <2>1, <2>2, <2>3, ExitTypes DEF TypeOK
<1>10. CASE UNCHANGED vars
  BY <1>10 DEF vars, files, hook, history, TypeOK
<1> QED
  BY <1>1, <1>2, <1>3, <1>4, <1>5, <1>6, <1>7, <1>8, <1>9, <1>10 DEF Next

LEMMA TypesInit == Init => TypeOK
<1> SUFFICES ASSUME Init PROVE TypeOK
  OBVIOUS
<1>1. /\ sidecar \in Counters \union {NoFile} /\ carried \in [Hooks -> Counters]
      /\ calls \in Nat /\ faults \in Nat /\ charged \in Nat
  BY DEF Init, Counters
<1>2. /\ pc \in [Hooks -> Places] /\ call \in [Hooks -> Calls \union {NoCall}]
      /\ \A h \in Hooks : pc[h] # "idle" => call[h] \in Calls
  BY DEF Init, Places
<1>3. /\ tainted \in [Hooks -> BOOLEAN] /\ sawIngest \in [Hooks -> BOOLEAN]
      /\ marker \in BOOLEAN /\ ingested \in BOOLEAN
      /\ overlapped \in BOOLEAN /\ sawDamage \in BOOLEAN
  BY DEF Init
<1> QED BY <1>1, <1>2, <1>3 DEF TypeOK

\* Every variable keeps its type: no hook runs on without its call
\* (cc_hook.rs:288-448).
THEOREM HookTypeCorrect == Spec => []TypeOK
BY TypesInit, TypesNext, PTL DEF Spec

-----------------------------------------------------------------------------
(* The taint floor.                                                        *)

\* What taints is on disk before the host hears of it, and stays there.
Marked ==
  /\ ingested => marker
  /\ \A h \in Hooks :
       /\ tainted[h] => marker
       /\ (pc[h] = "answer" /\ out_taint(call[h], tainted[h], carried[h])) => marker

\* A hook that started after an ingesting call has read the marker.
Informed ==
  \A h \in Hooks :
    sawIngest[h] => ingested /\ (pc[h] \in Places \ {"idle", "taint"} => tainted[h])

\* An answer that was not preceded by the writing of counters, and any other.
LEMMA ExitKeepsFloor ==
  ASSUME TypeOK, Marked, Informed, NEW h \in Hooks, Exit(h),
         marker => marker', ingested => ingested', ingested' => marker'
  PROVE  Marked' /\ Informed'
<1>1. \A k \in Hooks : k # h =>
        /\ pc'[k] = pc[k] /\ call'[k] = call[k] /\ tainted'[k] = tainted[k]
        /\ carried'[k] = carried[k] /\ sawIngest'[k] = sawIngest[k]
  BY DEF Exit, Goto, TypeOK
<1>2. pc'[h] = "idle" /\ tainted'[h] = FALSE /\ sawIngest'[h] = FALSE
  BY DEF Exit, Goto, TypeOK
<1>3. Marked'
  BY <1>1, <1>2 DEF Marked, out_taint, verdict
<1>4. Informed'
  BY <1>1, <1>2 DEF Informed
<1> QED BY <1>3, <1>4

\* A step by which one hook goes on and no history changes.
LEMMA StepKeepsFloor ==
  ASSUME TypeOK, Marked, Informed, NEW h \in Hooks,
         \A k \in Hooks : k # h =>
           /\ pc'[k] = pc[k] /\ call'[k] = call[k] /\ tainted'[k] = tainted[k]
           /\ carried'[k] = carried[k],
         UNCHANGED <<ingested, sawIngest>>, marker => marker',
         tainted'[h] => marker',
         (pc'[h] = "answer" /\ out_taint(call[h], tainted[h], carried[h])') => marker',
         sawIngest[h] /\ pc'[h] \in Places \ {"idle", "taint"} => tainted'[h]
  PROVE  Marked' /\ Informed'
<1>1. Marked'
  BY DEF Marked, out_taint, verdict
<1>2. Informed'
  BY DEF Informed
<1> QED BY <1>1, <1>2

LEMMA FloorNext ==
  TypeOK /\ Marked /\ Informed /\ [Next]_vars => Marked' /\ Informed'
<1> SUFFICES ASSUME TypeOK, Marked, Informed, [Next]_vars
             PROVE  Marked' /\ Informed'
  OBVIOUS
<1>1. ASSUME NEW h \in Hooks, Invoke(h) PROVE Marked' /\ Informed'
  BY <1>1 DEF Invoke, Goto, files, TypeOK, Marked, Informed, out_taint, verdict
<1>2. ASSUME NEW h \in Hooks, ReadTaint(h) PROVE Marked' /\ Informed'
  <2>1. tainted'[h] = marker /\ pc'[h] = "usage" /\ (sawIngest[h] => ingested)
    BY <1>2 DEF ReadTaint, Goto, TypeOK, Informed
  <2>2. UNCHANGED <<marker, ingested, sawIngest>> /\ (ingested => marker)
    BY <1>2 DEF ReadTaint, files, history, Marked
  <2>3. \A k \in Hooks : k # h =>
          /\ pc'[k] = pc[k] /\ call'[k] = call[k] /\ tainted'[k] = tainted[k]
          /\ carried'[k] = carried[k]
    BY <1>2 DEF ReadTaint, Goto, TypeOK
  <2> QED BY <2>1, <2>2, <2>3, StepKeepsFloor
<1>3. ASSUME NEW h \in Hooks, read_usage(h) PROVE Marked' /\ Informed'
  <2> DEFINE n == IF sidecar = NoFile THEN 0 ELSE sidecar
  <2>1. /\ carried'[h] = n /\ call'[h] = call[h] /\ tainted'[h] = tainted[h]
        /\ pc[h] = "usage"
        /\ pc'[h] = IF out_usage(call[h], tainted[h], n) # n THEN "create"
                    ELSE AfterUsage(call[h], tainted[h], n)
    BY <1>3 DEF read_usage, Goto, TypeOK
  <2>2. \A k \in Hooks : k # h =>
          /\ pc'[k] = pc[k] /\ call'[k] = call[k] /\ tainted'[k] = tainted[k]
          /\ carried'[k] = carried[k]
    BY <1>3 DEF read_usage, Goto, TypeOK
  <2>3. UNCHANGED <<marker, ingested, sawIngest>>
    BY <1>3 DEF read_usage, files
  <2> HIDE DEF n
  <2>4. pc'[h] = "answer" => (out_taint(call[h], tainted[h], n) => tainted[h])
    BY <2>1 DEF AfterUsage
  <2>5. (pc'[h] = "answer" /\ out_taint(call[h], tainted[h], carried[h])') => marker'
    BY <2>1, <2>3, <2>4 DEF Marked, out_taint, verdict
  <2>6. tainted'[h] => marker'
    BY <2>1, <2>3 DEF Marked
  <2>7. sawIngest[h] => tainted'[h]
    BY <2>1 DEF Informed, Places
  <2> QED BY <2>2, <2>3, <2>5, <2>6, <2>7, StepKeepsFloor
<1>4. ASSUME NEW h \in Hooks, CreateUsage(h) \/ WriteUsage(h) \/ persist_taint(h)
      PROVE  Marked' /\ Informed'
  <2>1. UNCHANGED <<call, tainted, carried, ingested, sawIngest>>
    BY <1>4 DEF CreateUsage, WriteUsage, persist_taint, history
  <2>2. pc[h] \in {"create", "write", "mark"} /\ (marker => marker')
    BY <1>4 DEF CreateUsage, WriteUsage, persist_taint
  <2>3. \A k \in Hooks : k # h => pc'[k] = pc[k]
    BY <1>4 DEF CreateUsage, WriteUsage, persist_taint, Goto, TypeOK
  <2>4. pc'[h] = "answer" =>
          marker' \/ (out_taint(call[h], tainted[h], carried[h]) => tainted[h])
    BY <1>4 DEF CreateUsage, WriteUsage, persist_taint, Goto, AfterUsage, TypeOK
  <2>5. (pc'[h] = "answer" /\ out_taint(call[h], tainted[h], carried[h])') => marker'
    BY <2>1, <2>2, <2>4 DEF Marked, out_taint, verdict
  <2>6. sawIngest[h] => tainted'[h]
    BY <2>1, <2>2 DEF Informed, Places
  <2>7. tainted'[h] => marker'
    BY <2>1, <2>2 DEF Marked
  <2> QED BY <2>1, <2>2, <2>3, <2>5, <2>6, <2>7, StepKeepsFloor
<1>5. ASSUME NEW h \in Hooks, Answer(h) PROVE Marked' /\ Informed'
  <2>1. call[h] \in Calls /\ UNCHANGED marker /\ Exit(h) /\ pc[h] = "answer"
    BY <1>5 DEF Answer, files, TypeOK
  <2>2. ingested' = (ingested \/ (verdict(call[h], tainted[h], carried[h]) = "allow"
                                  /\ call[h].ingests))
    BY <1>5 DEF Answer
  <2>3. ingested' => marker
    BY <2>1, <2>2 DEF Marked, out_taint
  <2>4. ingested => ingested'
    BY <2>2
  <2> QED BY <2>1, <2>3, <2>4, ExitKeepsFloor
<1>6. ASSUME NEW h \in Hooks, UsageFails(h) \/ TaintFails(h) \/ Die(h)
      PROVE  Marked' /\ Informed'
  <2>1. Exit(h) /\ UNCHANGED ingested
    BY <1>6 DEF UsageFails, TaintFails, Die
  <2>2. marker => marker'
    BY <1>6 DEF UsageFails, TaintFails, Die, files
  <2>3. ingested' => marker'
    BY <2>1, <2>2 DEF Marked
  <2> QED BY <2>1, <2>2, <2>3, ExitKeepsFloor
<1>7. CASE UNCHANGED vars
  BY <1>7 DEF vars, files, hook, history, Marked, Informed, out_taint, verdict
<1> QED BY <1>1, <1>2, <1>3, <1>4, <1>5, <1>6, <1>7 DEF Next

\* After an ingesting call was let through, no hook that starts later lets an
\* external call through or asks for one, whatever runs beside it, dies or
\* fails to write (cc_hook.rs:425-437, hostkit.rs:72-86).
THEOREM FloorHolds == Spec => []FloorAfterIngest
<1>1. Init => Marked /\ Informed
  BY DEF Init, Marked, Informed
<1>2. TypeOK /\ Marked /\ Informed /\ [Next]_vars => (Marked /\ Informed)'
  BY FloorNext
<1>3. TypeOK /\ Marked /\ Informed => FloorAfterIngest
  <2> SUFFICES ASSUME Informed, NEW h \in Hooks, pc[h] = "answer", sawIngest[h],
                      call[h].external
               PROVE  verdict(call[h], tainted[h], carried[h]) = "deny"
    BY DEF FloorAfterIngest
  <2> QED BY DEF Informed, Places, verdict
<1> QED BY <1>1, <1>2, <1>3, HookTypeCorrect, PTL DEF Spec

-----------------------------------------------------------------------------
(* The budget, for hooks that run one after the other.                     *)

Alone == \A g, h \in Hooks : pc[g] # "idle" /\ pc[h] # "idle" => g = h

Response(h) == out_usage(call[h], tainted[h], carried[h])

\* What a hook that has read the counter knows, and what it left on disk once
\* it goes on to the answer.
Counted(h) ==
  /\ pc[h] \in {"create", "write", "mark", "answer"} =>
       carried[h] \in Nat /\ charged <= carried[h]
  /\ pc[h] \in {"mark", "answer"} =>
       sidecar = Response(h) \/ (sidecar = NoFile /\ Response(h) = 0)

Kept == Alone /\ charged <= Limit /\ KeepsUp /\ \A h \in Hooks : Counted(h)

Undisturbed == ~overlapped /\ ~sawDamage

BudgetInv == Undisturbed => Kept

\* The one hook that runs goes on: nothing is to be known of the others.
LEMMA AloneStep ==
  ASSUME Alone, NEW h \in Hooks, pc[h] # "idle",
         \A k \in Hooks : k # h => pc'[k] = pc[k],
         charged' <= Limit, KeepsUp', Counted(h)'
  PROVE  Kept'
<1>1. \A k \in Hooks : k # h => pc'[k] = "idle"
  BY DEF Alone
<1>2. Alone'
  BY <1>1 DEF Alone
<1>3. \A k \in Hooks : k # h => Counted(k)'
  BY <1>1 DEF Counted
<1> QED BY <1>2, <1>3 DEF Kept

\* It ends, having let nothing through.
LEMMA ExitKeepsBudget ==
  ASSUME TypeOK, Kept, NEW h \in Hooks, pc[h] # "idle", Exit(h),
         UNCHANGED charged, KeepsUp'
  PROVE  Kept'
<1>1. pc'[h] = "idle" /\ \A k \in Hooks : k # h => pc'[k] = pc[k]
  BY DEF Exit, Goto, TypeOK
<1>2. Counted(h)'
  BY <1>1 DEF Counted
<1> QED BY <1>1, <1>2, AloneStep DEF Kept

\* A response never counts less than what the hook read, and more only for a
\* call within the limit.
LEMMA ResponseCounts ==
  ASSUME NEW c, NEW t, NEW n \in Nat
  PROVE  /\ n <= out_usage(c, t, n)
         /\ verdict(c, t, n) = "allow" /\ c.counted =>
              out_usage(c, t, n) = n + 1 /\ n < Limit
<1>1. n # Damaged
  BY HookAssumption
<1> QED BY <1>1, HookAssumption DEF out_usage, verdict

LEMMA ReadKeepsBudget ==
  ASSUME TypeOK, Kept, NEW h \in Hooks, read_usage(h), ~sawDamage'
  PROVE  Kept'
<1> DEFINE n == IF sidecar = NoFile THEN 0 ELSE sidecar
<1>1. n # Damaged
  BY DEF read_usage
<1>2. n \in Nat /\ charged <= n
  BY <1>1, HookAssumption DEF TypeOK, Counters, Kept, KeepsUp
<1>3. /\ carried'[h] = n /\ call'[h] = call[h] /\ tainted'[h] = tainted[h]
      /\ pc[h] = "usage"
      /\ pc'[h] = IF out_usage(call[h], tainted[h], n) # n THEN "create"
                  ELSE AfterUsage(call[h], tainted[h], n)
  BY DEF read_usage, Goto, TypeOK
<1>4. \A k \in Hooks : k # h => pc'[k] = pc[k]
  BY DEF read_usage, Goto, TypeOK
<1>5. UNCHANGED <<sidecar, charged>>
  BY DEF read_usage, files
<1>6. sidecar = n \/ (sidecar = NoFile /\ n = 0)
  OBVIOUS
<1> HIDE DEF n
<1>7. pc'[h] \in {"mark", "answer"} => out_usage(call[h], tainted[h], n) = n
  BY <1>3
<1>8. Response(h)' = out_usage(call[h], tainted[h], n)
  BY <1>3 DEF Response, out_usage, verdict
<1>9. Counted(h)'
  BY <1>2, <1>3, <1>5, <1>6, <1>7, <1>8 DEF Counted
<1>10. KeepsUp' /\ charged' <= Limit
  BY <1>5 DEF Kept, KeepsUp
<1> QED BY <1>3, <1>4, <1>9, <1>10, AloneStep DEF Kept

LEMMA WriteKeepsBudget ==
  ASSUME TypeOK, Kept, NEW h \in Hooks, WriteUsage(h)
  PROVE  Kept'
<1>1. /\ pc[h] = "write" /\ sidecar' = Response(h)
      /\ UNCHANGED <<call, tainted, carried, charged>>
  BY DEF WriteUsage, Response, history
<1>2. carried[h] \in Nat /\ charged <= carried[h]
  BY <1>1 DEF Kept, Counted
<1>3. carried[h] <= Response(h)
  BY <1>2, ResponseCounts DEF Response
<1>4. Response(h) \in Nat
  BY UsageIsNumber DEF Response, TypeOK
<1>5. KeepsUp'
  BY <1>1, <1>2, <1>3, <1>4, HookAssumption DEF KeepsUp, TypeOK
<1>6. Response(h)' = Response(h)
  BY <1>1 DEF Response, out_usage, verdict
<1>7. Counted(h)'
  BY <1>1, <1>2, <1>6 DEF Counted
<1>8. \A k \in Hooks : k # h => pc'[k] = pc[k]
  BY DEF WriteUsage, Goto, TypeOK
<1> QED BY <1>1, <1>5, <1>7, <1>8, AloneStep DEF Kept

LEMMA AnswerKeepsBudget ==
  ASSUME TypeOK, Kept, NEW h \in Hooks, Answer(h)
  PROVE  Kept'
<1> DEFINE spends == verdict(call[h], tainted[h], carried[h]) = "allow" /\ call[h].counted
<1>1. pc[h] = "answer" /\ Exit(h) /\ UNCHANGED sidecar
  BY DEF Answer, files
<1>2. charged' = IF spends THEN charged + 1 ELSE charged
  BY DEF Answer
<1>3. /\ carried[h] \in Nat /\ charged <= carried[h]
      /\ sidecar = Response(h) \/ (sidecar = NoFile /\ Response(h) = 0)
  BY <1>1 DEF Kept, Counted
<1>4. spends => Response(h) = carried[h] + 1 /\ carried[h] < Limit
  BY <1>3, ResponseCounts DEF Response
<1> HIDE DEF spends
<1>5. charged \in Nat /\ Limit \in Nat
  BY HookAssumption DEF TypeOK
<1>6. CASE ~spends
  <2>1. UNCHANGED charged /\ KeepsUp'
    BY <1>1, <1>2, <1>6 DEF Kept, KeepsUp
  <2> QED BY <1>1, <2>1, ExitKeepsBudget
<1>7. CASE spends
  <2>1. sidecar' = carried[h] + 1 /\ charged' = charged + 1
    BY <1>1, <1>2, <1>3, <1>4, <1>7
  <2>2. charged' <= Limit
    BY <1>3, <1>4, <1>5, <1>7, <2>1
  <2>3. KeepsUp'
    BY <1>3, <1>5, <2>1, HookAssumption DEF KeepsUp
  <2>4. pc'[h] = "idle" /\ \A k \in Hooks : k # h => pc'[k] = pc[k]
    BY <1>1 DEF Exit, Goto, TypeOK
  <2>5. Counted(h)'
    BY <2>4 DEF Counted
  <2> QED BY <1>1, <2>2, <2>3, <2>4, <2>5, AloneStep DEF Kept
<1> QED BY <1>6, <1>7

LEMMA BudgetNext == TypeOK /\ BudgetInv /\ [Next]_vars => BudgetInv'
<1> SUFFICES ASSUME TypeOK, BudgetInv, [Next]_vars, Undisturbed' PROVE Kept'
  BY DEF BudgetInv
<1>1. ASSUME NEW h \in Hooks, Invoke(h) PROVE Kept'
  <2>1. Kept /\ \A k \in Hooks : pc[k] = "idle"
    BY <1>1 DEF Invoke, BudgetInv, Undisturbed
  <2>2. pc'[h] = "taint" /\ \A k \in Hooks : k # h => pc'[k] = "idle"
    BY <1>1, <2>1 DEF Invoke, Goto, TypeOK
  <2>3. UNCHANGED <<sidecar, charged>>
    BY <1>1 DEF Invoke, files
  <2> QED BY <2>1, <2>2, <2>3 DEF Kept, Alone, KeepsUp, Counted
<1>2. ASSUME NEW h \in Hooks, read_usage(h) PROVE Kept'
  <2>1. Undisturbed /\ ~sawDamage'
    BY <1>2 DEF read_usage, Undisturbed
  <2> QED BY <1>2, <2>1, ReadKeepsBudget DEF BudgetInv
<1>3. ASSUME NEW h \in Hooks, ReadTaint(h) \/ CreateUsage(h) \/ persist_taint(h)
      PROVE  Kept'
  <2>1. Kept
    BY <1>3 DEF ReadTaint, CreateUsage, persist_taint, history, BudgetInv, Undisturbed
  <2>2. pc[h] # "idle" /\ UNCHANGED <<call, carried, charged>>
        /\ \A k \in Hooks : k # h => pc'[k] = pc[k]
    BY <1>3 DEF ReadTaint, CreateUsage, persist_taint, Goto, TypeOK, history
  <2>3. CASE ReadTaint(h)
    <3>1. pc'[h] = "usage" /\ UNCHANGED sidecar
      BY <2>3 DEF ReadTaint, Goto, TypeOK, files
    <3> QED BY <2>1, <2>2, <3>1, AloneStep DEF Kept, KeepsUp, Counted
  <2>4. CASE CreateUsage(h)
    <3>1. pc[h] = "create" /\ pc'[h] = "write" /\ sidecar' = Damaged
      BY <2>4 DEF CreateUsage, Goto, TypeOK
    <3>2. KeepsUp'
      BY <3>1, HookAssumption DEF KeepsUp
    <3>3. Counted(h)'
      BY <2>1, <2>2, <3>1 DEF Kept, Counted
    <3> QED BY <2>1, <2>2, <3>2, <3>3, AloneStep DEF Kept
  <2>5. CASE persist_taint(h)
    <3>1. pc[h] = "mark" /\ pc'[h] = "answer" /\ UNCHANGED <<sidecar, tainted>>
      BY <2>5 DEF persist_taint, Goto, TypeOK
    <3>2. Response(h)' = Response(h)
      BY <2>2, <3>1 DEF Response, out_usage, verdict
    <3>3. Counted(h)' /\ KeepsUp'
      BY <2>1, <2>2, <3>1, <3>2 DEF Kept, Counted, KeepsUp
    <3> QED BY <2>1, <2>2, <3>3, AloneStep DEF Kept
  <2> QED BY <1>3, <2>3, <2>4, <2>5
<1>4. ASSUME NEW h \in Hooks, WriteUsage(h) PROVE Kept'
  BY <1>4, WriteKeepsBudget DEF WriteUsage, history, BudgetInv, Undisturbed
<1>5. ASSUME NEW h \in Hooks, Answer(h) PROVE Kept'
  BY <1>5, AnswerKeepsBudget DEF Answer, BudgetInv, Undisturbed
<1>6. ASSUME NEW h \in Hooks, UsageFails(h) PROVE Kept'
  <2>1. Kept /\ Exit(h) /\ UNCHANGED charged /\ pc[h] \in {"create", "write"}
    BY <1>6 DEF UsageFails, BudgetInv, Undisturbed
  <2>2. sidecar' \in {sidecar, Damaged, Response(h)}
    BY <1>6 DEF UsageFails, Response
  <2>3. carried[h] \in Nat /\ charged <= carried[h]
    BY <2>1 DEF Kept, Counted
  <2>4. carried[h] <= Response(h) /\ Response(h) \in Nat
    BY <2>3, ResponseCounts, UsageIsNumber DEF Response, TypeOK
  <2>5. KeepsUp'
    BY <2>1, <2>2, <2>3, <2>4, HookAssumption DEF Kept, KeepsUp, TypeOK
  <2> QED BY <2>1, <2>5, ExitKeepsBudget
<1>7. ASSUME NEW h \in Hooks, TaintFails(h) \/ Die(h) PROVE Kept'
  <2>1. Kept /\ Exit(h) /\ UNCHANGED <<charged, sidecar>> /\ pc[h] # "idle"
    BY <1>7 DEF TaintFails, Die, files, BudgetInv, Undisturbed
  <2> QED BY <2>1, ExitKeepsBudget DEF Kept, KeepsUp
<1>8. CASE UNCHANGED vars
  BY <1>8 DEF vars, files, hook, history, BudgetInv, Undisturbed, Kept, Alone, KeepsUp,
              Counted, Response, out_usage, verdict
<1> QED BY <1>1, <1>2, <1>3, <1>4, <1>5, <1>6, <1>7, <1>8 DEF Next

\* Hooks that run one after the other never let more counted calls through than
\* the budget has, and the sidecar never counts less than they did: deaths and
\* failed writes included, until one of them meets a damaged sidecar
\* (cc_hook.rs:411-423, hostkit.rs:103-121, disposition.rs:134-153).
THEOREM BudgetHolds == Spec => []BudgetBinds
<1>1. Init => BudgetInv
  BY HookAssumption DEF Init, BudgetInv, Kept, Alone, KeepsUp, Counted
<1>2. TypeOK /\ BudgetInv /\ [Next]_vars => BudgetInv'
  BY BudgetNext
<1>3. BudgetInv => BudgetBinds
  BY DEF BudgetInv, Undisturbed, Kept, BudgetBinds
<1> QED BY <1>1, <1>2, <1>3, HookTypeCorrect, PTL DEF Spec
=============================================================================

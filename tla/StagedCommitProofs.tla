-------------------------- MODULE StagedCommitProofs --------------------------
(***************************************************************************)
(* StagedCommit for any number of committers, artifacts, keys, grants and  *)
(* faults.                                                                 *)
(*                                                                         *)
(* AtMostOnceApplied is not inductive: it does not say why the committer   *)
(* that is about to call the actuator is the only one, nor what the log    *)
(* knows of a request somebody else left behind.  The lock gives the first *)
(* (LockHeld), the reservation the second (KeyTruth), and CommitProgress   *)
(* ties the committer that holds the lock to both.                         *)
(***************************************************************************)
EXTENDS StagedCommit, TLAPS

-----------------------------------------------------------------------------
(* What the operations of the store keep.                                  *)

\* consume goes through for an approved grant only (approval.rs:417-470).
LEMMA NoReasonMeansApproved ==
  ASSUME NEW t, NEW binding, NEW when,
         rejection_reason(t, binding, when) = "none"
  PROVE  t.state = "approved"
BY DEF rejection_reason, UnusableReason

\* Every operation of the store keeps the tokens well-typed.
LEMMA MintTypes ==
  ASSUME tokens \in [Ids -> Tokens], NEW id \in Ids,
         NEW b \in Bindings \union {NoBinding}, NEW until \in Nat, Mint(id, b, until)
  PROVE  tokens' \in [Ids -> Tokens]
<1>1. [state |-> "pending", binding |-> b, until |-> until, uses |-> 1] \in Tokens
  BY DEF Tokens, States
<1> QED BY <1>1 DEF Mint

LEMMA TransitionTypes ==
  ASSUME tokens \in [Ids -> Tokens], NEW id \in Ids,
         NEW from, NEW to \in States, Transition(id, from, to)
  PROVE  tokens' \in [Ids -> Tokens]
<1>1. [tokens[id] EXCEPT !.state = to] \in Tokens
  BY DEF Tokens
<1> QED BY <1>1 DEF Transition

LEMMA ConsumeTypes ==
  ASSUME tokens \in [Ids -> Tokens], NEW id \in Ids,
         NEW b, NEW when, Consume(id, b, when)
  PROVE  tokens' \in [Ids -> Tokens]
<1>1. [tokens[id] EXCEPT !.state = "consumed", !.uses = 0] \in Tokens
  BY DEF Tokens, States
<1> QED BY <1>1 DEF Consume

\* Of two bindings that differ, one aspect is the first in which they do.
LEMMA FirstDifference ==
  ASSUME NEW a \in Bindings, NEW b \in Bindings, a # b
  PROVE  \E i \in 1..7 : a[i] # b[i] /\ \A j \in 1..(i - 1) : a[j] = b[j]
<1> DEFINE First(i) == a[i] # b[i] /\ \A j \in 1..(i - 1) : a[j] = b[j]
<1>1. ASSUME \A i \in 1..7 : a[i] = b[i] PROVE FALSE
  <2>1. [i \in 1..7 |-> a[i]] = [i \in 1..7 |-> b[i]]
    BY <1>1
  <2> QED BY <2>1, StoreAssumption
<1>2. CASE a[1] # b[1] \/ a[2] # b[2]
  <2>1. First(1) \/ First(2)
    BY <1>2
  <2> QED BY <2>1
<1>3. CASE a[1] = b[1] /\ a[2] = b[2] /\ (a[3] # b[3] \/ a[4] # b[4])
  <2>1. First(3) \/ First(4)
    BY <1>3
  <2> QED BY <2>1
<1>4. CASE /\ a[1] = b[1] /\ a[2] = b[2] /\ a[3] = b[3] /\ a[4] = b[4]
           /\ a[5] # b[5] \/ a[6] # b[6] \/ a[7] # b[7]
  <2>1. First(5) \/ First(6) \/ First(7)
    BY <1>4
  <2> QED BY <2>1
<1>5. CASE \A i \in 1..7 : a[i] = b[i]
  BY <1>1, <1>5
<1>6. (\A i \in 1..7 : a[i] = b[i]) \/ a[1] # b[1] \/ a[2] # b[2] \/ a[3] # b[3]
      \/ a[4] # b[4] \/ a[5] # b[5] \/ a[6] # b[6] \/ a[7] # b[7]
  OBVIOUS
<1> QED BY <1>2, <1>3, <1>4, <1>5, <1>6

\* consume spends a grant for the very effect it was given for, in every aspect
\* (approval.rs:417-470).
LEMMA NoReasonMeansSameBinding ==
  ASSUME NEW t, t.binding \in Bindings, NEW binding \in Bindings, NEW when,
         rejection_reason(t, binding, when) = "none"
  PROVE  t.binding = binding
<1> SUFFICES ASSUME t.binding # binding PROVE FALSE
  OBVIOUS
<1> DEFINE m == FirstMismatch(t.binding, binding)
<1>1. m \in 1..7
  BY FirstDifference DEF FirstMismatch
<1>2. t.state = "approved"
  BY NoReasonMeansApproved
<1> HIDE DEF m
<1>3. m # 0 /\ MismatchReasons[m] # "none"
  BY <1>1 DEF MismatchReasons
<1> QED BY <1>2, <1>3 DEF rejection_reason, m

\* A grant that was spent is out of the store's reach.
SpentUntouched ==
  \A id \in Ids : tokens[id].state \in {"consumed", "executed"} => tokens'[id] = tokens[id]

LEMMA MintLeavesSpent ==
  ASSUME tokens \in [Ids -> Tokens], NEW id \in Ids, NEW b, NEW until, Mint(id, b, until)
  PROVE  SpentUntouched
BY DEF Mint, SpentUntouched

LEMMA TransitionLeavesSpent ==
  ASSUME tokens \in [Ids -> Tokens], NEW id \in Ids, NEW from, NEW to,
         from \cap {"consumed", "executed"} = {}, Transition(id, from, to)
  PROVE  SpentUntouched
BY DEF Transition, SpentUntouched

LEMMA ConsumeLeavesSpent ==
  ASSUME tokens \in [Ids -> Tokens], NEW id \in Ids, NEW b, NEW when, Consume(id, b, when)
  PROVE  SpentUntouched
<1>1. tokens[id].state = "approved"
  BY NoReasonMeansApproved DEF Consume
<1> QED BY <1>1 DEF Consume, SpentUntouched

-----------------------------------------------------------------------------
Inside == {"decide", "reserve", "consume", "actuate", "actuating", "record"}

\* Between its reload and its last append a committer holds the lock.
LockHeld == \A p \in Committers : pc[p] \in Inside => lock = p

RecordHasOutcome == \A p \in Committers : pc[p] = "record" => outcome[p] # "none"

Typed == TypeOK /\ LockHeld /\ RecordHasOutcome

-----------------------------------------------------------------------------
(* Types and the lock.                                                     *)

\* A committer that is in commit has an artifact, with everything in it.
LEMMA PresentedIsArtifact ==
  ASSUME TypeOK, NEW p \in Committers, pc[p] # "idle"
  PROVE  /\ presented[p] \in Artifacts
         /\ presented[p].id \in EffectIds /\ presented[p].id # None
         /\ presented[p].key \in Keys /\ presented[p].auth \in Ids
<1>1. presented[p] \in Artifacts
  BY DEF TypeOK
<1> QED BY <1>1, StagedAssumption DEF ArtifactShape

\* The holder of the lock is alone between the reload and the last append.
LEMMA OthersOutside ==
  ASSUME Typed, NEW p \in Committers, lock = p
  PROVE  \A q \in Committers : q # p => pc[q] \notin Inside
BY DEF Typed, LockHeld

LEMMA ReturnTypes ==
  ASSUME Typed, NEW p \in Committers, Return(p)
  PROVE  /\ pc' \in [Committers -> Places]
         /\ presented' \in [Committers -> Artifacts \union {None}]
         /\ \A q \in Committers : pc'[q] # "idle" => presented'[q] # None
         /\ at' \in [Committers -> Nat] /\ world' \in [Committers -> Nat]
         /\ attempt' \in [Committers -> Nat]
         /\ outcome' \in [Committers -> Outcomes \union {"none"}]
         /\ lock' \in Committers \union {NoProc}
         /\ LockHeld' /\ RecordHasOutcome'
BY DEF Typed, TypeOK, LockHeld, RecordHasOutcome, Return, Goto, Places, Inside

LEMMA StartedTypes ==
  ASSUME Typed, NEW p \in Committers, pc[p] # "idle", Started(p)
  PROVE  /\ staged' \in [EffectIds -> Artifacts \union {None}]
         /\ attempts' \in [Keys -> Nat]
         /\ started' \in [Keys -> EffectIds \union {None}]
         /\ primary' \in [Keys -> Receipts \union {None}]
BY PresentedIsArtifact DEF Typed, TypeOK, Started

LEMMA ReceiptTypes ==
  ASSUME Typed, NEW p \in Committers, pc[p] = "record"
  PROVE  ReceiptOf(p) \in Receipts
BY PresentedIsArtifact DEF Typed, TypeOK, RecordHasOutcome, ReceiptOf, Receipts

LEMMA FinishedTypes ==
  ASSUME Typed, NEW p \in Committers, pc[p] = "record", Finished(p)
  PROVE  /\ staged' \in [EffectIds -> Artifacts \union {None}]
         /\ attempts' \in [Keys -> Nat]
         /\ started' \in [Keys -> EffectIds \union {None}]
         /\ primary' \in [Keys -> Receipts \union {None}]
         /\ receipts' \subseteq Receipts
<1> DEFINE r == ReceiptOf(p)
<1>1. r \in Receipts /\ r.key \in Keys /\ r.attempt \in Nat
  BY ReceiptTypes DEF Receipts
<1> HIDE DEF r
<1> QED BY <1>1 DEF Typed, TypeOK, Finished, r

LEMMA PaidTypes ==
  ASSUME Typed, NEW p \in Committers, pc[p] # "idle", PutPaid(p)
  PROVE  paid' \subseteq Ids \X Artifacts
BY PresentedIsArtifact DEF Typed, TypeOK, PutPaid

LEMMA TypedInit == Init => Typed
BY StoreAssumption, StagedAssumption
DEF Init, StoreInit, Typed, TypeOK, LockHeld, RecordHasOutcome, Tokens, States, Absent,
    Places, Inside

LEMMA TypedProgress ==
  ASSUME Typed, NEW p \in Committers, Progress(p)
  PROVE  Typed'
<1> USE DEF Typed
<1>1. CASE Acquire(p)
  BY <1>1, StagedAssumption
  DEF Acquire, Goto, TypeOK, LockHeld, RecordHasOutcome, Places, Inside, commitLog, args,
      downstream, history, environment
<1>2. CASE LockTimeout(p)
  BY <1>2, ReturnTypes
  DEF LockTimeout, TypeOK, commitLog, downstream, history, environment
<1>3. CASE Decide(p)
  <2>1. EarlyOutcome(p) \in Outcomes \union {"none"}
    BY DEF EarlyOutcome, Outcomes
  <2>2. attempts[presented[p].key] + 1 \in Nat
    BY <1>3, PresentedIsArtifact DEF Decide, TypeOK
  <2> QED
    BY <1>3, <2>1, <2>2
    DEF Decide, Goto, TypeOK, LockHeld, RecordHasOutcome, Places, Inside, commitLog,
        args, downstream, history, environment
<1>4. CASE Reserve(p)
  BY <1>4, StartedTypes
  DEF Reserve, Goto, TypeOK, LockHeld, RecordHasOutcome, Places, Inside, args,
      downstream, history, environment
<1>5. CASE ConsumeGranted(p)
  <2>1. tokens' \in [Ids -> Tokens]
    BY <1>5, PresentedIsArtifact, ConsumeTypes DEF ConsumeGranted, TypeOK
  <2>2. paid' \subseteq Ids \X Artifacts
    BY <1>5, PaidTypes DEF ConsumeGranted
  <2> QED
    BY <1>5, <2>1, <2>2
    DEF ConsumeGranted, Goto, TypeOK, LockHeld, RecordHasOutcome, Places, Inside, commitLog,
        args, downstream, history, environment
<1>6. CASE ConsumeRefused(p)
  BY <1>6
  DEF ConsumeRefused, Goto, TypeOK, LockHeld, RecordHasOutcome, Places, Inside, Outcomes,
      commitLog, args, downstream, history, environment
<1>7. CASE ConsumeUnknown(p)
  BY <1>7, ReturnTypes
  DEF ConsumeUnknown, TypeOK, commitLog, downstream, history, environment
<1>8. CASE Actuate(p)
  BY <1>8, PresentedIsArtifact
  DEF Actuate, Goto, TypeOK, LockHeld, RecordHasOutcome, Places, Inside, Outcomes,
      commitLog, args, history, environment
<1>9. CASE ActuatorAnswers(p)
  BY <1>9, PresentedIsArtifact
  DEF ActuatorAnswers, Goto, TypeOK, LockHeld, RecordHasOutcome, Places, Inside, Outcomes,
      commitLog, args, history, environment
<1>10. CASE Record(p)
  BY <1>10, ReturnTypes, FinishedTypes
  DEF Record, TypeOK, downstream, environment
<1> QED
  BY <1>1, <1>2, <1>3, <1>4, <1>5, <1>6, <1>7, <1>8, <1>9, <1>10 DEF Progress

LEMMA TypedFails ==
  ASSUME Typed, NEW p \in Committers, Fails(p)
  PROVE  Typed'
<1>1. pc[p] # "idle" /\ Return(p) /\ faults' \in Nat
      /\ UNCHANGED <<inflight, applied, now, epoch>>
  BY DEF Fails, Typed, TypeOK, downstream
<1>2. CASE UNCHANGED <<tokens, commitLog, history>>
  BY <1>1, <1>2, ReturnTypes DEF Typed, TypeOK, commitLog, history
<1>3. CASE Started(p) /\ UNCHANGED <<tokens, history>>
  BY <1>1, <1>3, ReturnTypes, StartedTypes DEF Typed, TypeOK, history
<1>4. CASE /\ Consume(presented[p].auth, presented[p].binding, at[p])
           /\ PutPaid(p)
           /\ UNCHANGED <<commitLog, receipts>>
  <2>1. tokens' \in [Ids -> Tokens]
    BY <1>1, <1>4, PresentedIsArtifact, ConsumeTypes DEF Typed, TypeOK
  <2> QED BY <1>1, <1>4, <2>1, ReturnTypes, PaidTypes DEF Typed, TypeOK, commitLog
<1>5. CASE pc[p] = "record" /\ Finished(p) /\ UNCHANGED <<tokens, paid>>
  BY <1>1, <1>5, ReturnTypes, FinishedTypes DEF Typed, TypeOK
<1> QED BY <1>2, <1>3, <1>4, <1>5 DEF Fails

LEMMA AuthorizeTypes ==
  ASSUME Typed, Authorize
  PROVE  tokens' \in [Ids -> Tokens]
<1> PICK id \in Ids :
      \/ \E b \in Bindings, d \in 1..MaxTime : Mint(id, b, d)
      \/ Approve(id) \/ Reject(id) \/ Revoke(id)
  BY DEF Authorize
<1>1. \A d \in 1..MaxTime : d \in Nat
  BY StoreAssumption
<1>2. CASE \E b \in Bindings, d \in 1..MaxTime : Mint(id, b, d)
  BY <1>1, <1>2, MintTypes DEF Typed, TypeOK
<1>3. CASE Approve(id) \/ Reject(id) \/ Revoke(id)
  BY <1>3, TransitionTypes DEF Typed, TypeOK, Approve, Reject, Revoke, States
<1> QED BY <1>2, <1>3

LEMMA TypedNext == Typed /\ [Next]_vars => Typed'
<1> SUFFICES ASSUME Typed, [Next]_vars PROVE Typed'
  OBVIOUS
<1> USE DEF Typed
<1>1. CASE Stage
  BY <1>1, StagedAssumption
  DEF Stage, TypeOK, LockHeld, RecordHasOutcome, ArtifactShape, caller, args, downstream,
      history, environment
<1>2. CASE \E p \in Committers : Begin(p)
  BY <1>2, StagedAssumption
  DEF Begin, Goto, TypeOK, LockHeld, RecordHasOutcome, Places, Inside, commitLog, downstream,
      history, environment
<1>3. CASE \E p \in Committers : Progress(p)
  BY <1>3, TypedProgress
<1>4. CASE \E p \in Committers : Fails(p)
  BY <1>4, TypedFails
<1>5. CASE \E k \in Keys : Downstream(k)
  BY <1>5
  DEF Downstream, TypeOK, LockHeld, RecordHasOutcome, commitLog, caller, args, history,
      environment
<1>6. CASE Authorize
  <2>1. tokens' \in [Ids -> Tokens]
    BY <1>6, AuthorizeTypes
  <2> QED
    BY <1>6, <2>1
    DEF Authorize, TypeOK, LockHeld, RecordHasOutcome, commitLog, caller, args, downstream,
        history, environment
<1>7. CASE NewWorld \/ Time \/ UNCHANGED vars
  BY <1>7
  DEF NewWorld, Time, Tick, vars, TypeOK, LockHeld, RecordHasOutcome, commitLog, caller,
      args, downstream, history, environment
<1> QED BY <1>1, <1>2, <1>3, <1>4, <1>5, <1>6, <1>7 DEF Next

\* Every variable keeps its type: no path of commit records an attempt without
\* an outcome or goes on without its artifact (staged.rs:225-363).
THEOREM StagedTypeCorrect == Spec => []TypeOK
<1>1. Init => Typed
  BY TypedInit
<1>2. Typed /\ [Next]_vars => Typed'
  BY TypedNext
<1>3. Typed => TypeOK
  BY DEF Typed
<1> QED BY <1>1, <1>2, <1>3, PTL DEF Spec

-----------------------------------------------------------------------------
(* The reservation and what the log knows.                                 *)

\* Nothing of the key was ever sent that may have or still have an effect.
Quiet(k) == inflight[k] = 0 /\ applied[k] = 0

\* An outcome says the truth about a key, now and for good.
Truth(o, k) ==
  /\ o = "committed" => inflight[k] = 0 /\ applied[k] = 1
  /\ o \in {"rejected", "failed", "simulated"} => Quiet(k)

\* What a key's place in the log says of its effect.
KeyTruth ==
  \A k \in Keys :
    /\ inflight[k] + applied[k] <= 1
    /\ started[k] # None => primary[k] = None
    /\ started[k] = None /\ primary[k] = None => Quiet(k)
    /\ primary[k] # None =>
         primary[k].outcome # "duplicate" /\ Truth(primary[k].outcome, k)

\* How far a committer came, and what it may rely on.
Progressed(p) ==
  LET k == presented[p].key
      reserved == started[k] = presented[p].id /\ primary[k] = None
  IN  /\ pc[p] = "reserve" => started[k] = None /\ primary[k] = None /\ Quiet(k)
      /\ pc[p] \in {"consume", "actuate"} => reserved /\ Quiet(k)
      /\ pc[p] = "actuating" => reserved /\ inflight[k] + applied[k] = 1
      /\ (pc[p] = "record" /\ started[k] # None) =>
           outcome[p] # "duplicate" /\ Truth(outcome[p], k)

CommitProgress == \A p \in Committers : Progressed(p)

CommitInv == KeyTruth /\ CommitProgress

\* A step of one committer that leaves the others outside: only its own
\* progress is in question.
LEMMA AloneInside ==
  ASSUME Typed, NEW p \in Committers, pc[p] \in Inside,
         \A q \in Committers : q # p => pc'[q] = pc[q], Progressed(p)'
  PROVE  CommitProgress'
<1>1. lock = p
  BY DEF Typed, LockHeld
<1>2. \A q \in Committers : q # p => pc'[q] \notin Inside
  BY <1>1, OthersOutside
<1>3. \A q \in Committers : pc'[q] \notin Inside => Progressed(q)'
  BY DEF Progressed, Inside
<1> QED BY <1>2, <1>3 DEF CommitProgress

\* Leaving commit leaves nothing to rely on.
LEMMA ReturnProgress ==
  ASSUME Typed, CommitProgress, NEW p \in Committers, Return(p),
         UNCHANGED <<started, primary, inflight, applied>>
  PROVE  CommitProgress'
<1>1. pc'[p] = "idle" /\ \A q \in Committers : q # p =>
        pc'[q] = pc[q] /\ presented'[q] = presented[q] /\ outcome'[q] = outcome[q]
  BY DEF Return, Goto, Typed, TypeOK
<1>2. Progressed(p)'
  BY <1>1 DEF Progressed
<1>3. ASSUME NEW q \in Committers, q # p
      PROVE  Progressed(q)'
  BY <1>1, <1>3 DEF CommitProgress, Progressed, Quiet, Truth
<1> QED BY <1>2, <1>3 DEF CommitProgress

LEMMA ReturnPlace ==
  ASSUME Typed, NEW p \in Committers, Return(p)
  PROVE  /\ pc'[p] = "idle" /\ Progressed(p)'
         /\ \A q \in Committers : q # p => pc'[q] = pc[q]
BY DEF Return, Goto, Typed, TypeOK, Progressed

\* Nobody's part of the log and nothing of the downstream changes.
LEMMA KeyTruthKept ==
  ASSUME KeyTruth, UNCHANGED <<started, primary, inflight, applied>>
  PROVE  KeyTruth'
BY DEF KeyTruth, Quiet, Truth

\* AttemptStarted goes to a key that is open.
LEMMA StartedTruth ==
  ASSUME Typed, CommitInv, NEW p \in Committers, pc[p] = "reserve", Started(p),
         UNCHANGED <<inflight, applied>>
  PROVE  KeyTruth'
<1> DEFINE k == presented[p].key
<1>1. k \in Keys /\ presented[p].id # None
  BY PresentedIsArtifact DEF Typed
<1>2. started[k] = None /\ primary[k] = None /\ Quiet(k)
  BY DEF CommitInv, CommitProgress, Progressed
<1>3. started' = [started EXCEPT ![k] = presented[p].id] /\ UNCHANGED primary
  BY DEF Started
<1> HIDE DEF k
<1> QED BY <1>1, <1>2, <1>3 DEF CommitInv, KeyTruth, Quiet, Truth, Typed, TypeOK

\* AttemptFinished settles a reserved key truthfully and no other key at all.
LEMMA FinishedSettles ==
  ASSUME Typed, CommitInv, NEW p \in Committers, pc[p] = "record", Finished(p)
  PROVE  LET k == presented[p].key
             r == ReceiptOf(p)
         IN  /\ k \in Keys /\ r \in Receipts /\ r # None /\ r.outcome = outcome[p]
             /\ started' = [started EXCEPT ![k] = None]
             /\ primary' = IF started[k] # None THEN [primary EXCEPT ![k] = r] ELSE primary
             /\ started[k] # None =>
                  primary[k] = None /\ outcome[p] # "duplicate" /\ Truth(outcome[p], k)
<1> DEFINE k == presented[p].key
           r == ReceiptOf(p)
<1>1. k \in Keys /\ r \in Receipts /\ r # None /\ r.outcome = outcome[p] /\ r.key = k
  BY PresentedIsArtifact, ReceiptTypes, StagedAssumption DEF Typed, ReceiptOf
<1>2. started[k] # None =>
        primary[k] = None /\ outcome[p] # "duplicate" /\ Truth(outcome[p], k)
  BY <1>1 DEF CommitInv, KeyTruth, CommitProgress, Progressed
<1>3. started' = [started EXCEPT ![k] = None]
      /\ primary' = [primary EXCEPT ![k] = IF TakesKey(r) THEN r ELSE @]
  BY <1>1 DEF Finished
<1>4. TakesKey(r) <=> started[k] # None
  BY <1>1, <1>2 DEF TakesKey
<1>5. started[k] = None => primary' = primary
  BY <1>1, <1>3, <1>4 DEF Typed, TypeOK
<1> QED BY <1>1, <1>2, <1>3, <1>4, <1>5

LEMMA FinishedTruth ==
  ASSUME Typed, CommitInv, NEW p \in Committers, pc[p] = "record", Finished(p),
         UNCHANGED <<inflight, applied>>
  PROVE  KeyTruth'
<1> DEFINE k == presented[p].key
           r == ReceiptOf(p)
<1>1. /\ k \in Keys /\ r \in Receipts /\ r # None /\ r.outcome = outcome[p]
      /\ started' = [started EXCEPT ![k] = None]
      /\ primary' = IF started[k] # None THEN [primary EXCEPT ![k] = r] ELSE primary
      /\ started[k] # None =>
           primary[k] = None /\ outcome[p] # "duplicate" /\ Truth(outcome[p], k)
  BY FinishedSettles
<1> HIDE DEF k, r
<1>2. CASE started[k] # None
  BY <1>1, <1>2 DEF CommitInv, KeyTruth, Quiet, Truth, Typed, TypeOK
<1>3. CASE started[k] = None
  BY <1>1, <1>3 DEF CommitInv, KeyTruth, Quiet, Truth, Typed, TypeOK
<1> QED BY <1>2, <1>3

LEMMA InvInit == Init => CommitInv
BY DEF Init, CommitInv, KeyTruth, CommitProgress, Progressed, Quiet

\* Each step of commit keeps the log and the downstream in agreement.
LEMMA InvProgress ==
  ASSUME Typed, CommitInv, NEW p \in Committers, Progress(p)
  PROVE  CommitInv'
<1> DEFINE k == presented[p].key
<1> USE DEF CommitInv
<1>1. CASE Acquire(p)
  <2>1. UNCHANGED <<started, primary, inflight, applied, presented, outcome>>
    BY <1>1 DEF Acquire, commitLog, args, downstream
  <2>2. pc'[p] = "decide" /\ \A q \in Committers : q # p => pc'[q] = pc[q]
    BY <1>1 DEF Acquire, Goto, Typed, TypeOK
  <2>3. CommitProgress'
    BY <2>1, <2>2 DEF CommitProgress, Progressed, Quiet, Truth
  <2> QED BY <2>1, <2>3, KeyTruthKept
<1>2. CASE LockTimeout(p) \/ ConsumeUnknown(p)
  <2>1. Return(p) /\ UNCHANGED <<started, primary, inflight, applied>>
    BY <1>2 DEF LockTimeout, ConsumeUnknown, commitLog, downstream
  <2> QED BY <2>1, ReturnProgress, KeyTruthKept
<1>3. CASE Decide(p)
  <2>1. /\ pc[p] = "decide" /\ k \in Keys
        /\ UNCHANGED <<started, primary, inflight, applied, presented>>
        /\ outcome'[p] = EarlyOutcome(p)
        /\ pc'[p] = IF EarlyOutcome(p) = "none" THEN "reserve" ELSE "record"
        /\ \A q \in Committers : q # p => pc'[q] = pc[q]
    BY <1>3, PresentedIsArtifact DEF Decide, Goto, Typed, TypeOK, commitLog, args, downstream
  <2>2. EarlyOutcome(p) = "none" => started[k] = None /\ primary[k] = None
    BY DEF EarlyOutcome
  <2>3. started[k] # None => EarlyOutcome(p) = "ambiguous"
    BY <2>1 DEF EarlyOutcome, KeyTruth
  <2>4. Progressed(p)'
    BY <2>1, <2>2, <2>3 DEF Progressed, KeyTruth, Quiet, Truth
  <2> QED BY <2>1, <2>4, AloneInside, KeyTruthKept DEF Inside
<1>4. CASE Reserve(p)
  <2>1. /\ pc[p] = "reserve" /\ k \in Keys /\ Started(p)
        /\ UNCHANGED <<primary, inflight, applied, presented>>
        /\ pc'[p] = "consume"
        /\ \A q \in Committers : q # p => pc'[q] = pc[q]
    BY <1>4, PresentedIsArtifact
    DEF Reserve, Started, Goto, Typed, TypeOK, args, downstream
  <2>2. started'[k] = presented[p].id /\ primary[k] = None /\ Quiet(k)
    BY <2>1 DEF Started, CommitProgress, Progressed, Typed, TypeOK
  <2>3. Progressed(p)'
    BY <2>1, <2>2 DEF Progressed, Quiet
  <2> QED BY <2>1, <2>3, AloneInside, StartedTruth DEF Inside
<1>5. CASE ConsumeGranted(p) \/ ConsumeRefused(p)
  <2>1. /\ pc[p] = "consume" /\ k \in Keys
        /\ UNCHANGED <<started, primary, inflight, applied, presented>>
        /\ pc'[p] = "actuate" \/ (pc'[p] = "record" /\ outcome'[p] = "rejected")
        /\ \A q \in Committers : q # p => pc'[q] = pc[q]
    BY <1>5, PresentedIsArtifact
    DEF ConsumeGranted, ConsumeRefused, Goto, Typed, TypeOK, commitLog, args, downstream
  <2>2. Progressed(p)
    BY DEF CommitProgress
  <2>3. Progressed(p)'
    BY <2>1, <2>2 DEF Progressed, Quiet, Truth
  <2> QED BY <2>1, <2>3, AloneInside, KeyTruthKept DEF Inside
<1>6. CASE Actuate(p)
  <2>1. /\ pc[p] = "actuate" /\ k \in Keys
        /\ UNCHANGED <<started, primary, applied, presented>>
        /\ \A q \in Committers : q # p => pc'[q] = pc[q]
        /\ \/ pc'[p] = "record" /\ outcome'[p] = "simulated" /\ UNCHANGED inflight
           \/ pc'[p] = "actuating" /\ inflight' = [inflight EXCEPT ![k] = @ + 1]
    BY <1>6, PresentedIsArtifact DEF Actuate, Goto, Typed, TypeOK, commitLog, args
  <2>2. started[k] = presented[p].id /\ primary[k] = None /\ Quiet(k) /\ started[k] # None
    BY <2>1, PresentedIsArtifact DEF CommitProgress, Progressed, Typed
  <2>3. inflight \in [Keys -> Nat] /\ applied \in [Keys -> Nat]
    BY DEF Typed, TypeOK
  <2>4. Progressed(p)'
    BY <2>1, <2>2, <2>3 DEF Progressed, Quiet, Truth
  <2>5. UNCHANGED inflight => KeyTruth'
    BY <2>1, KeyTruthKept
  <2>6. ASSUME inflight' = [inflight EXCEPT ![k] = @ + 1], NEW j \in Keys
        PROVE  /\ inflight'[j] + applied'[j] <= 1
               /\ started'[j] # None => primary'[j] = None
               /\ started'[j] = None /\ primary'[j] = None => Quiet(j)'
               /\ primary'[j] # None =>
                    primary'[j].outcome # "duplicate" /\ Truth(primary[j].outcome, j)'
    <3>1. CASE j = k
      BY <2>1, <2>2, <2>3, <2>6, <3>1 DEF Quiet
    <3>2. CASE j # k
      BY <2>1, <2>3, <2>6, <3>2 DEF KeyTruth, Quiet, Truth
    <3> QED BY <3>1, <3>2
  <2>7. inflight' = [inflight EXCEPT ![k] = @ + 1] => KeyTruth'
    BY <2>6 DEF KeyTruth
  <2> QED BY <2>1, <2>4, <2>5, <2>7, AloneInside DEF Inside
<1>7. CASE ActuatorAnswers(p)
  <2>1. /\ pc[p] = "actuating" /\ k \in Keys /\ pc'[p] = "record"
        /\ UNCHANGED <<started, primary, applied, presented>>
        /\ \A q \in Committers : q # p => pc'[q] = pc[q]
        /\ \/ inflight[k] = 0 /\ outcome'[p] = "committed" /\ UNCHANGED inflight
           \/ /\ inflight[k] > 0 /\ outcome'[p] = "failed"
              /\ inflight' = [inflight EXCEPT ![k] = @ - 1]
           \/ outcome'[p] = "ambiguous" /\ UNCHANGED inflight
    BY <1>7, PresentedIsArtifact DEF ActuatorAnswers, Goto, Typed, TypeOK, commitLog, args
  <2>2. /\ started[k] = presented[p].id /\ primary[k] = None /\ started[k] # None
        /\ inflight[k] + applied[k] = 1
    BY <2>1, PresentedIsArtifact DEF CommitProgress, Progressed, Typed
  <2>3. inflight \in [Keys -> Nat] /\ applied \in [Keys -> Nat]
    BY DEF Typed, TypeOK
  <2>4. Progressed(p)'
    BY <2>1, <2>2, <2>3 DEF Progressed, Quiet, Truth
  <2>5. KeyTruth'
    BY <2>1, <2>2, <2>3 DEF KeyTruth, Quiet, Truth
  <2> QED BY <2>1, <2>4, <2>5, AloneInside DEF Inside
<1>8. CASE Record(p)
  <2>1. pc[p] = "record" /\ Finished(p) /\ Return(p) /\ UNCHANGED <<inflight, applied>>
    BY <1>8 DEF Record, downstream
  <2> QED BY <2>1, ReturnPlace, AloneInside, FinishedTruth DEF Inside
<1> QED BY <1>1, <1>2, <1>3, <1>4, <1>5, <1>6, <1>7, <1>8 DEF Progress

LEMMA InvFails ==
  ASSUME Typed, CommitInv, NEW p \in Committers, Fails(p)
  PROVE  CommitInv'
<1> USE DEF CommitInv
<1>1. Return(p) /\ UNCHANGED <<inflight, applied>>
  BY DEF Fails, downstream
<1>2. CASE UNCHANGED commitLog
  BY <1>1, <1>2, ReturnProgress, KeyTruthKept DEF commitLog
<1>3. CASE pc[p] = "reserve" /\ Started(p)
  BY <1>1, <1>3, ReturnPlace, AloneInside, StartedTruth DEF Inside
<1>4. CASE pc[p] = "record" /\ Finished(p)
  BY <1>1, <1>4, ReturnPlace, AloneInside, FinishedTruth DEF Inside
<1> QED BY <1>2, <1>3, <1>4 DEF Fails

\* A late application finds a key that is reserved or ambiguous.
LEMMA InvDownstream ==
  ASSUME Typed, CommitInv, NEW k \in Keys, Downstream(k)
  PROVE  CommitInv'
<1> USE DEF CommitInv
<1>1. /\ inflight[k] > 0
      /\ inflight' = [inflight EXCEPT ![k] = @ - 1]
      /\ applied' = [applied EXCEPT ![k] = @ + 1]
      /\ UNCHANGED <<started, primary, pc, presented, outcome>>
  BY DEF Downstream, commitLog, caller, args
<1>2. inflight \in [Keys -> Nat] /\ applied \in [Keys -> Nat]
  BY DEF Typed, TypeOK
<1>3. KeyTruth'
  BY <1>1, <1>2 DEF KeyTruth, Quiet, Truth
<1>4. ASSUME NEW p \in Committers
      PROVE  Progressed(p)'
  <2>1. CASE pc[p] \notin Inside
    BY <1>1, <2>1 DEF Progressed, Inside
  <2>2. CASE pc[p] \in Inside
    <3>1. presented[p].key \in Keys
      BY <2>2, PresentedIsArtifact DEF Typed, Inside
    <3> QED BY <1>1, <1>2, <3>1 DEF CommitProgress, Progressed, Quiet, Truth
  <2> QED BY <2>1, <2>2
<1> QED BY <1>3, <1>4 DEF CommitProgress

LEMMA InvNext == Typed /\ CommitInv /\ [Next]_vars => CommitInv'
<1> SUFFICES ASSUME Typed, CommitInv, [Next]_vars PROVE CommitInv'
  OBVIOUS
<1>1. CASE \E p \in Committers : Begin(p)
  <2> PICK p \in Committers : Begin(p)
    BY <1>1
  <2>1. UNCHANGED <<started, primary, inflight, applied, outcome>>
    BY DEF Begin, commitLog, downstream
  <2>2. pc'[p] = "wait" /\ \A q \in Committers : q # p =>
          pc'[q] = pc[q] /\ presented'[q] = presented[q]
    BY DEF Begin, Goto, Typed, TypeOK
  <2>3. CommitProgress'
    BY <2>1, <2>2 DEF CommitInv, CommitProgress, Progressed, Quiet, Truth
  <2> QED BY <2>1, <2>3, KeyTruthKept DEF CommitInv
<1>2. CASE \E p \in Committers : Progress(p)
  BY <1>2, InvProgress
<1>3. CASE \E p \in Committers : Fails(p)
  BY <1>3, InvFails
<1>4. CASE \E k \in Keys : Downstream(k)
  BY <1>4, InvDownstream
<1>5. CASE Stage \/ Authorize \/ NewWorld \/ Time \/ UNCHANGED vars
  <2>1. UNCHANGED <<started, primary, inflight, applied, pc, presented, outcome>>
    BY <1>5 DEF Stage, Authorize, NewWorld, Time, vars, commitLog, caller, args, downstream
  <2>2. CommitProgress'
    BY <2>1 DEF CommitInv, CommitProgress, Progressed, Quiet, Truth
  <2> QED BY <2>1, <2>2, KeyTruthKept DEF CommitInv
<1> QED BY <1>1, <1>2, <1>3, <1>4, <1>5 DEF Next

\* The inductive invariant holds in every reachable state.
THEOREM CommitInvariant == Spec => [](Typed /\ CommitInv)
<1>1. Init => Typed /\ CommitInv
  BY TypedInit, InvInit
<1>2. Typed /\ CommitInv /\ [Next]_vars => (Typed /\ CommitInv)'
  BY TypedNext, InvNext
<1> QED BY <1>1, <1>2, PTL DEF Spec

\* The effect of an idempotency key is asked for and applied at most once, for
\* any number of committers, deaths, failed appends and late answers
\* (staged.rs:225-363, apply_event).
THEOREM AtMostOnceApplication == Spec => []AtMostOnceApplied
<1>1. CommitInv => AtMostOnceApplied
  BY DEF CommitInv, KeyTruth, AtMostOnceApplied
<1> QED BY <1>1, CommitInvariant, PTL

-----------------------------------------------------------------------------
(* The refinement of ReservedEffect.                                       *)

\* AttemptStarted reserves the key.
LEMMA StartedRefines ==
  ASSUME Typed, CommitInv, NEW p \in Committers, pc[p] = "reserve", Started(p),
         UNCHANGED applied
  PROVE  Promise!RNext
<1> DEFINE k == presented[p].key
<1>1. k \in Keys /\ presented[p].id # None
  BY PresentedIsArtifact DEF Typed
<1>2. started[k] = None /\ primary[k] = None
  BY DEF CommitInv, CommitProgress, Progressed
<1>3. started' = [started EXCEPT ![k] = presented[p].id] /\ UNCHANGED primary
  BY DEF Started
<1>4. started \in [Keys -> EffectIds \union {None}]
  BY DEF Typed, TypeOK
<1> HIDE DEF k
<1>5. Fates[k] = "open"
  BY <1>1, <1>2 DEF Fates, Fate
<1>6. Fates' = [Fates EXCEPT ![k] = "reserved"]
  BY <1>1, <1>2, <1>3, <1>4 DEF Fates, Fate
<1>7. Promise!Reserve(k)
  BY <1>5, <1>6 DEF Promise!Reserve
<1> QED BY <1>1, <1>7 DEF Promise!RNext

\* AttemptFinished settles a reserved key and is a stutter for any other.
LEMMA FinishedRefines ==
  ASSUME Typed, CommitInv, NEW p \in Committers, pc[p] = "record", Finished(p),
         UNCHANGED <<inflight, applied>>
  PROVE  Promise!RNext \/ UNCHANGED <<Fates, applied>>
<1> DEFINE k == presented[p].key
           r == ReceiptOf(p)
           o == outcome[p]
<1>1. /\ k \in Keys /\ r \in Receipts /\ r # None /\ r.outcome = o
      /\ started' = [started EXCEPT ![k] = None]
      /\ primary' = IF started[k] # None THEN [primary EXCEPT ![k] = r] ELSE primary
      /\ started[k] # None => primary[k] = None /\ o # "duplicate" /\ Truth(o, k)
  BY FinishedSettles
<1>2. started \in [Keys -> EffectIds \union {None}]
      /\ primary \in [Keys -> Receipts \union {None}]
  BY DEF Typed, TypeOK
<1>3. o \in Outcomes
  BY <1>1 DEF Receipts
<1> HIDE DEF k, r, o
<1>4. CASE started[k] # None
  <2>1. Fates[k] = "reserved"
    BY <1>1, <1>4 DEF Fates, Fate
  <2>2. Fates' = [Fates EXCEPT ![k] = o]
    BY <1>1, <1>2, <1>4 DEF Fates, Fate
  <2>3. o \in Promise!Outcomes
    BY <1>1, <1>3, <1>4 DEF Outcomes, Promise!Outcomes
  <2>4. /\ o = "committed" => applied[k] = 1
        /\ o \in {"simulated", "rejected", "failed"} => applied[k] = 0
    BY <1>1, <1>4 DEF Truth, Quiet
  <2>5. Promise!Settle(k)
    BY <2>1, <2>2, <2>3, <2>4 DEF Promise!Settle
  <2> QED BY <1>1, <2>5 DEF Promise!RNext
<1>5. CASE started[k] = None
  BY <1>1, <1>2, <1>5 DEF Fates, Fate
<1> QED BY <1>4, <1>5

\* What arrives late is the one application of a reserved or ambiguous key.
LEMMA DownstreamRefines ==
  ASSUME Typed, CommitInv, NEW k \in Keys, Downstream(k)
  PROVE  Promise!RNext
<1>1. inflight \in [Keys -> Nat] /\ applied \in [Keys -> Nat]
      /\ primary \in [Keys -> Receipts \union {None}]
  BY DEF Typed, TypeOK
<1>2. applied[k] = 0 /\ inflight[k] > 0
  <2>1. inflight[k] + applied[k] <= 1 /\ inflight[k] \in Nat /\ applied[k] \in Nat
    BY <1>1 DEF CommitInv, KeyTruth
  <2>2. inflight[k] > 0
    BY DEF Downstream
  <2> QED BY <2>1, <2>2
<1>3. primary[k] # None => primary[k].outcome \in Outcomes
  BY <1>1 DEF Receipts
<1>4. Fates[k] \in {"reserved", "ambiguous"}
  BY <1>2, <1>3 DEF CommitInv, KeyTruth, Truth, Quiet, Fates, Fate, Outcomes
<1>5. UNCHANGED Fates
  BY DEF Downstream, commitLog, Fates, Fate
<1>6. applied' = [applied EXCEPT ![k] = 1]
  BY <1>1, <1>2 DEF Downstream
<1>7. Promise!Happen(k)
  BY <1>2, <1>4, <1>5, <1>6 DEF Promise!Happen
<1> QED BY <1>7 DEF Promise!RNext

LEMMA CommitStepRefines ==
  Typed /\ CommitInv /\ [Next]_vars => [Promise!RNext]_(Promise!rvars)
<1> SUFFICES ASSUME Typed, CommitInv, [Next]_vars
             PROVE  Promise!RNext \/ UNCHANGED <<Fates, applied>>
  BY DEF Promise!rvars
<1>1. CASE \E p \in Committers : Progress(p)
  <2> PICK p \in Committers : Progress(p)
    BY <1>1
  <2>1. CASE Reserve(p)
    BY <2>1, StartedRefines DEF Reserve, downstream
  <2>2. CASE Record(p)
    BY <2>2, FinishedRefines DEF Record, downstream
  <2>3. CASE \/ Acquire(p) \/ LockTimeout(p) \/ Decide(p) \/ ConsumeGranted(p)
             \/ ConsumeRefused(p) \/ ConsumeUnknown(p) \/ Actuate(p) \/ ActuatorAnswers(p)
    <3>1. UNCHANGED <<started, primary, applied>>
      BY <2>3 DEF Acquire, LockTimeout, Decide, ConsumeGranted, ConsumeRefused,
                  ConsumeUnknown, Actuate, ActuatorAnswers, commitLog, downstream
    <3> QED BY <3>1 DEF Fates, Fate
  <2> QED BY <2>1, <2>2, <2>3 DEF Progress
<1>2. CASE \E p \in Committers : Fails(p)
  <2> PICK p \in Committers : Fails(p)
    BY <1>2
  <2>1. UNCHANGED <<inflight, applied>>
    BY DEF Fails, downstream
  <2>2. CASE UNCHANGED commitLog
    BY <2>1, <2>2 DEF commitLog, Fates, Fate
  <2>3. CASE pc[p] = "reserve" /\ Started(p)
    BY <2>1, <2>3, StartedRefines
  <2>4. CASE pc[p] = "record" /\ Finished(p)
    BY <2>1, <2>4, FinishedRefines
  <2> QED BY <2>2, <2>3, <2>4 DEF Fails
<1>3. CASE \E k \in Keys : Downstream(k)
  BY <1>3, DownstreamRefines
<1>4. CASE (\E p \in Committers : Begin(p)) \/ Stage \/ Authorize \/ NewWorld \/ Time
             \/ UNCHANGED vars
  <2>1. UNCHANGED <<started, primary, applied>>
    BY <1>4 DEF Begin, Stage, Authorize, NewWorld, Time, vars, commitLog, downstream
  <2> QED BY <2>1 DEF Fates, Fate
<1> QED BY <1>1, <1>2, <1>3, <1>4 DEF Next

\* The staged-effect store implements ReservedEffect: a key is reserved before
\* anything is sent, its effect happens at most once, and it settles once, to
\* the truth (docs/staged-effect-commit.md).
THEOREM CommitRefinement == Spec => ImplementsReservedEffect
<1>1. Init => Promise!RInit
  BY DEF Init, Fates, Fate, Promise!RInit
<1>2. Typed /\ CommitInv /\ [Next]_vars => [Promise!RNext]_(Promise!rvars)
  BY CommitStepRefines
<1> QED
  BY <1>1, <1>2, CommitInvariant, PTL DEF Spec, ImplementsReservedEffect, Promise!RSpec

-----------------------------------------------------------------------------
(* What the receipts in the commit log are worth: they are told apart by   *)
(* their attempt, they stay true, and who owns a key.                      *)

\* The step leaves the log, the receipts and the committers' arguments alone.
Aside ==
  /\ UNCHANGED <<attempts, started, primary, receipts>>
  /\ \A p \in Committers : pc'[p] \in Inside =>
       /\ pc[p] \in Inside /\ presented'[p] = presented[p]
       /\ pc'[p] = pc[p] /\ outcome'[p] = outcome[p] /\ attempt'[p] = attempt[p]

LEMMA ReturnAside ==
  ASSUME Typed, NEW p \in Committers, Return(p),
         UNCHANGED <<attempts, started, primary, receipts>>
  PROVE  Aside
BY DEF Typed, TypeOK, Return, Goto, Aside, Inside

\* The steps of everybody who does not hold the lock.
LEMMA OthersAside ==
  ASSUME Typed,
         \/ Stage \/ Authorize \/ NewWorld \/ Time \/ UNCHANGED vars
         \/ \E p \in Committers : Begin(p) \/ LockTimeout(p) \/ ConsumeUnknown(p)
         \/ \E k \in Keys : Downstream(k)
  PROVE  Aside
<1>1. CASE Stage \/ Authorize \/ NewWorld \/ Time \/ UNCHANGED vars
           \/ \E k \in Keys : Downstream(k)
  BY <1>1 DEF Stage, Authorize, NewWorld, Time, Downstream, vars, commitLog, caller, args,
              history, Aside
<1>2. CASE \E p \in Committers : Begin(p)
  BY <1>2 DEF Begin, Goto, Typed, TypeOK, commitLog, history, Aside, Inside
<1>3. CASE \E p \in Committers : LockTimeout(p) \/ ConsumeUnknown(p)
  BY <1>3, ReturnAside DEF LockTimeout, ConsumeUnknown, commitLog, history
<1> QED BY <1>1, <1>2, <1>3

-----------------------------------------------------------------------------
(* Attempts are told apart.                                                *)

\* The log counts every attempt it has a receipt of.
AttemptsCounted == \A r \in receipts : r.attempt <= attempts[r.key]

\* The number of a committer's attempt is new.
Numbered(p) ==
  pc[p] \in Inside \ {"decide"} =>
    /\ attempts[presented[p].key] <= attempt[p]
    /\ \A r \in receipts : r.key = presented[p].key => r.attempt < attempt[p]

NumberInv ==
  AttemptsDistinct /\ AttemptsCounted /\ \A p \in Committers : Numbered(p)

LEMMA NumberAside ==
  ASSUME NumberInv, Aside
  PROVE  NumberInv'
BY DEF NumberInv, AttemptsDistinct, AttemptsCounted, Numbered, Aside

LEMMA NumberAlone ==
  ASSUME Typed, NEW p \in Committers, pc[p] \in Inside,
         \A q \in Committers : q # p => pc'[q] = pc[q], Numbered(p)'
  PROVE  \A q \in Committers : Numbered(q)'
<1>1. \A q \in Committers : q # p => pc'[q] \notin Inside
  BY OthersOutside DEF Typed, LockHeld
<1> QED BY <1>1 DEF Numbered

LEMMA NumberStarted ==
  ASSUME Typed, NumberInv, NEW p \in Committers, pc[p] = "reserve", Started(p),
         UNCHANGED receipts
  PROVE  AttemptsDistinct' /\ AttemptsCounted' /\ attempts'[presented[p].key] = attempt[p]
<1> DEFINE k == presented[p].key
<1>1. k \in Keys /\ attempt[p] \in Nat /\ attempts \in [Keys -> Nat]
      /\ receipts \subseteq Receipts
  BY PresentedIsArtifact DEF Typed, TypeOK
<1>2. \A r \in receipts : r.key = k => r.attempt < attempt[p]
  BY DEF NumberInv, Numbered, Inside
<1>3. attempts' = [attempts EXCEPT ![k] = attempt[p]]
  BY DEF Started
<1> HIDE DEF k
<1>4. AttemptsCounted'
  BY <1>1, <1>2, <1>3 DEF NumberInv, AttemptsCounted, Receipts
<1>5. attempts'[k] = attempt[p]
  BY <1>1, <1>3
<1> QED BY <1>4, <1>5 DEF NumberInv, AttemptsDistinct, k

LEMMA NumberFinished ==
  ASSUME Typed, NumberInv, NEW p \in Committers, pc[p] = "record", Finished(p)
  PROVE  AttemptsDistinct' /\ AttemptsCounted'
<1> DEFINE k == presented[p].key
           r == ReceiptOf(p)
<1>1. /\ k \in Keys /\ attempt[p] \in Nat /\ attempts \in [Keys -> Nat]
      /\ receipts \subseteq Receipts /\ r.key = k /\ r.attempt = attempt[p]
  BY PresentedIsArtifact DEF Typed, TypeOK, ReceiptOf
<1>2. /\ \A x \in receipts : x.key = k => x.attempt < attempt[p]
      /\ attempts[k] <= attempt[p]
  BY DEF NumberInv, Numbered, Inside
<1>3. attempts' = [attempts EXCEPT ![k] = attempt[p]] /\ receipts' = receipts \union {r}
  BY <1>1 DEF Finished
<1> HIDE DEF k, r
<1>4. AttemptsCounted'
  BY <1>1, <1>2, <1>3 DEF NumberInv, AttemptsCounted, Receipts
<1>5. AttemptsDistinct'
  BY <1>1, <1>2, <1>3 DEF NumberInv, AttemptsDistinct, Receipts
<1> QED BY <1>4, <1>5

LEMMA NumberProgress ==
  ASSUME Typed, NumberInv, NEW p \in Committers, Progress(p)
  PROVE  NumberInv'
<1> DEFINE k == presented[p].key
<1>1. CASE LockTimeout(p) \/ ConsumeUnknown(p)
  BY <1>1, OthersAside, NumberAside
<1>2. CASE Acquire(p)
  BY <1>2 DEF Acquire, Goto, commitLog, args, history, Typed, TypeOK, NumberInv,
              AttemptsDistinct, AttemptsCounted, Numbered, Inside
<1>3. CASE Decide(p)
  <2>1. /\ UNCHANGED <<attempts, receipts, presented>> /\ pc[p] \in Inside /\ k \in Keys
        /\ attempt'[p] = attempts[k] + 1 /\ attempts[k] \in Nat
        /\ \A q \in Committers : q # p => pc'[q] = pc[q]
    BY <1>3, PresentedIsArtifact
    DEF Decide, Goto, commitLog, args, history, Typed, TypeOK, Inside
  <2>2. \A r \in receipts : r.key = k => r.attempt \in Nat /\ r.attempt <= attempts[k]
    BY DEF Typed, TypeOK, Receipts, NumberInv, AttemptsCounted
  <2>3. Numbered(p)'
    BY <2>1, <2>2 DEF Numbered
  <2> QED BY <2>1, <2>3, NumberAlone DEF NumberInv, AttemptsDistinct, AttemptsCounted
<1>4. CASE Reserve(p)
  <2>1. /\ pc[p] = "reserve" /\ Started(p) /\ UNCHANGED <<receipts, attempt, presented>>
        /\ \A q \in Committers : q # p => pc'[q] = pc[q]
    BY <1>4 DEF Reserve, Goto, args, history, Typed, TypeOK
  <2>2. AttemptsDistinct' /\ AttemptsCounted' /\ attempts'[k] = attempt[p]
    BY <2>1, NumberStarted
  <2>3. attempt[p] \in Nat /\ \A r \in receipts : r.key = k => r.attempt < attempt[p]
    BY <2>1 DEF Typed, TypeOK, NumberInv, Numbered, Inside
  <2>4. Numbered(p)'
    BY <2>1, <2>2, <2>3 DEF Numbered
  <2> QED BY <2>1, <2>2, <2>4, NumberAlone DEF NumberInv, Inside
<1>5. CASE ConsumeGranted(p) \/ ConsumeRefused(p) \/ Actuate(p) \/ ActuatorAnswers(p)
  <2>1. /\ pc[p] \in Inside \ {"decide"}
        /\ UNCHANGED <<attempts, receipts, attempt, presented>>
        /\ \A q \in Committers : q # p => pc'[q] = pc[q]
    BY <1>5 DEF ConsumeGranted, ConsumeRefused, Actuate, ActuatorAnswers, Goto, commitLog,
                args, history, Typed, TypeOK, Inside
  <2>2. Numbered(p)'
    BY <2>1 DEF NumberInv, Numbered
  <2> QED BY <2>1, <2>2, NumberAlone DEF NumberInv, AttemptsDistinct, AttemptsCounted
<1>6. CASE Record(p)
  <2>1. pc[p] = "record" /\ Finished(p) /\ Return(p)
    BY <1>6 DEF Record
  <2>2. Numbered(p)' /\ \A q \in Committers : q # p => pc'[q] = pc[q]
    BY <2>1, ReturnPlace DEF Numbered, Inside
  <2> QED BY <2>1, <2>2, NumberAlone, NumberFinished DEF NumberInv, Inside
<1> QED BY <1>1, <1>2, <1>3, <1>4, <1>5, <1>6 DEF Progress

LEMMA NumberFails ==
  ASSUME Typed, NumberInv, NEW p \in Committers, Fails(p)
  PROVE  NumberInv'
<1>1. /\ Return(p) /\ Numbered(p)'
      /\ \A q \in Committers : q # p => pc'[q] = pc[q]
  BY ReturnPlace DEF Fails, Numbered, Inside
<1>2. CASE UNCHANGED <<commitLog, receipts>>
  BY <1>1, <1>2, ReturnAside, NumberAside DEF commitLog
<1>3. CASE pc[p] = "reserve" /\ Started(p) /\ UNCHANGED receipts
  BY <1>1, <1>3, NumberAlone, NumberStarted DEF NumberInv, Inside
<1>4. CASE pc[p] = "record" /\ Finished(p)
  BY <1>1, <1>4, NumberAlone, NumberFinished DEF NumberInv, Inside
<1> QED BY <1>2, <1>3, <1>4 DEF Fails, history

LEMMA NumberNext == Typed /\ NumberInv /\ [Next]_vars => NumberInv'
<1> SUFFICES ASSUME Typed, NumberInv, [Next]_vars PROVE NumberInv'
  OBVIOUS
<1>1. CASE \E p \in Committers : Progress(p)
  BY <1>1, NumberProgress
<1>2. CASE \E p \in Committers : Fails(p)
  BY <1>2, NumberFails
<1>3. CASE \/ Stage \/ Authorize \/ NewWorld \/ Time \/ UNCHANGED vars
           \/ (\E p \in Committers : Begin(p)) \/ (\E k \in Keys : Downstream(k))
  BY <1>3, OthersAside, NumberAside
<1> QED BY <1>1, <1>2, <1>3 DEF Next

\* No two receipts of a key share an attempt number, so no two share the id
\* that is made of it (receipt, staged.rs:575-599), however often a commit dies
\* between its lines.
THEOREM ReceiptsToldApart == Spec => []AttemptsDistinct
<1>1. Init => NumberInv
  BY DEF Init, NumberInv, AttemptsDistinct, AttemptsCounted, Numbered, Inside
<1>2. Typed /\ NumberInv /\ [Next]_vars => NumberInv'
  BY NumberNext
<1>3. NumberInv => AttemptsDistinct
  BY DEF NumberInv
<1> QED BY <1>1, <1>2, <1>3, CommitInvariant, PTL DEF Spec

-----------------------------------------------------------------------------
(* Receipts are true, and who owns a key.                                  *)

Known == {"committed", "failed", "simulated"}

\* A receipt with a known result owns its key; a duplicate's key has one.
ReceiptOwners ==
  \A r \in receipts :
    /\ r.outcome \in Known => primary[r.key] = r
    /\ r.outcome = "duplicate" =>
         primary[r.key] # None /\ primary[r.key].outcome # "ambiguous"

IsStaged(s, k) == staged[s] # None /\ staged[s].key = k

\* A reserved key is a staged artifact's.
ReservedByStaged == \A k \in Keys : started[k] # None => IsStaged(started[k], k)

\* What a committer found staged, and what it is about to record, fits the log.
Founded(p) ==
  LET a == presented[p]
  IN  /\ pc[p] \in {"reserve", "consume", "actuate", "actuating"} => staged[a.id] = a
      /\ pc[p] = "record" =>
           /\ outcome[p] \in Known => started[a.key] # None
           /\ outcome[p] = "duplicate" =>
                primary[a.key] # None /\ primary[a.key].outcome # "ambiguous"
           /\ (started[a.key] # None /\ outcome[p] # "ambiguous") =>
                started[a.key] = a.id

OwnerInv ==
  /\ ReceiptOwners /\ ReservedByStaged /\ KeyOwnedByStaged
  /\ \A p \in Committers : Founded(p)

\* Staging adds artifacts and changes none.
StagedGrows == \A s \in EffectIds : staged[s] # None => staged'[s] = staged[s]

LEMMA OwnerAside ==
  ASSUME Typed, OwnerInv, Aside, StagedGrows
  PROVE  OwnerInv'
<1>1. UNCHANGED <<started, primary, receipts>>
  BY DEF Aside
<1>2. ReceiptOwners'
  BY <1>1 DEF OwnerInv, ReceiptOwners
<1>3. \A s \in EffectIds, k \in Keys : IsStaged(s, k) => IsStaged(s, k)'
  BY DEF StagedGrows, IsStaged
<1>4. ReservedByStaged'
  BY <1>1, <1>3 DEF OwnerInv, ReservedByStaged, Typed, TypeOK
<1>5. KeyOwnedByStaged'
  <2>1. \A k \in Keys : primary[k] # None => primary[k].id \in EffectIds
    BY DEF Typed, TypeOK, Receipts
  <2> QED BY <1>1, <1>3, <2>1 DEF OwnerInv, KeyOwnedByStaged, IsStaged
<1>6. ASSUME NEW p \in Committers PROVE Founded(p)'
  <2>1. CASE pc'[p] \notin Inside
    BY <2>1 DEF Founded, Inside
  <2>2. CASE pc'[p] \in Inside
    <3>1. /\ pc[p] \in Inside /\ presented'[p] = presented[p]
          /\ pc'[p] = pc[p] /\ outcome'[p] = outcome[p]
      BY <2>2 DEF Aside
    <3>2. presented[p] \in Artifacts /\ presented[p] # None /\ presented[p].id \in EffectIds
      BY <3>1, PresentedIsArtifact, StagedAssumption DEF Typed, Inside
    <3>3. staged[presented[p].id] = presented[p] => staged'[presented[p].id] = presented[p]
      BY <3>2 DEF StagedGrows
    <3> QED BY <1>1, <3>1, <3>3 DEF OwnerInv, Founded
  <2> QED BY <2>1, <2>2
<1> QED BY <1>2, <1>4, <1>5, <1>6 DEF OwnerInv

LEMMA FoundedAlone ==
  ASSUME Typed, NEW p \in Committers, pc[p] \in Inside,
         \A q \in Committers : q # p => pc'[q] = pc[q], Founded(p)'
  PROVE  \A q \in Committers : Founded(q)'
<1>1. \A q \in Committers : q # p => pc'[q] \notin Inside
  BY OthersOutside DEF Typed, LockHeld
<1> QED BY <1>1 DEF Founded, Inside

\* The reservation is the staged artifact's own.
LEMMA OwnerStarted ==
  ASSUME Typed, CommitInv, OwnerInv, NEW p \in Committers, pc[p] = "reserve", Started(p),
         UNCHANGED receipts
  PROVE  ReceiptOwners' /\ ReservedByStaged' /\ KeyOwnedByStaged'
<1> DEFINE a == presented[p]
<1>1. a.key \in Keys /\ a.id \in EffectIds /\ staged[a.id] = a /\ a # None
  BY PresentedIsArtifact, StagedAssumption DEF Typed, OwnerInv, Founded
<1>2. started' = [started EXCEPT ![a.key] = a.id] /\ UNCHANGED <<staged, primary>>
  BY DEF Started
<1>3. started \in [Keys -> EffectIds \union {None}]
  BY DEF Typed, TypeOK
<1> HIDE DEF a
<1>4. ReservedByStaged'
  BY <1>1, <1>2, <1>3 DEF OwnerInv, ReservedByStaged, IsStaged
<1> QED BY <1>2, <1>4 DEF OwnerInv, ReceiptOwners, KeyOwnedByStaged

\* The end of an attempt gives a reserved key to the artifact that reserved it.
LEMMA OwnerFinished ==
  ASSUME Typed, CommitInv, OwnerInv, NEW p \in Committers, pc[p] = "record", Finished(p)
  PROVE  ReceiptOwners' /\ ReservedByStaged' /\ KeyOwnedByStaged'
<1> DEFINE a == presented[p]
           k == presented[p].key
           r == ReceiptOf(p)
<1>1. /\ k \in Keys /\ r \in Receipts /\ r # None /\ r.outcome = outcome[p]
      /\ started' = [started EXCEPT ![k] = None]
      /\ primary' = IF started[k] # None THEN [primary EXCEPT ![k] = r] ELSE primary
      /\ started[k] # None => primary[k] = None
  BY FinishedSettles
<1>2. r.key = k /\ r.id = a.id /\ receipts' = receipts \union {r} /\ UNCHANGED staged
  BY DEF ReceiptOf, Finished
<1>3. /\ outcome[p] \in Known => started[k] # None
      /\ outcome[p] = "duplicate" => primary[k] # None /\ primary[k].outcome # "ambiguous"
      /\ (started[k] # None /\ outcome[p] # "ambiguous") => started[k] = a.id
  BY DEF OwnerInv, Founded
<1>4. /\ started \in [Keys -> EffectIds \union {None}]
      /\ primary \in [Keys -> Receipts \union {None}]
      /\ receipts \subseteq Receipts
  BY DEF Typed, TypeOK
<1> HIDE DEF a, k, r
<1>5. ReservedByStaged'
  BY <1>1, <1>2, <1>4 DEF OwnerInv, ReservedByStaged, IsStaged
<1>6. KeyOwnedByStaged'
  <2>1. started[k] # None => started[k] \in EffectIds /\ IsStaged(started[k], k)
    BY <1>1, <1>4 DEF OwnerInv, ReservedByStaged
  <2>2. CASE started[k] = None
    BY <1>1, <1>2, <2>2 DEF OwnerInv, KeyOwnedByStaged
  <2>3. CASE started[k] # None
    <3>1. primary' = [primary EXCEPT ![k] = r]
      BY <1>1, <2>3
    <3>2. \E s \in EffectIds : staged[s] # None /\ staged[s].key = k
      BY <2>1, <2>3 DEF IsStaged
    <3>3. r.outcome # "ambiguous" => staged[r.id] # None /\ staged[r.id].key = k
      BY <1>1, <1>2, <1>3, <2>1, <2>3 DEF IsStaged
    <3> QED BY <1>2, <1>4, <3>1, <3>2, <3>3 DEF OwnerInv, KeyOwnedByStaged
  <2> QED BY <2>2, <2>3
<1>7. ReceiptOwners'
  <2>1. ASSUME NEW x \in receipts
        PROVE  /\ x.outcome \in Known => primary'[x.key] = x
               /\ x.outcome = "duplicate" =>
                    primary'[x.key] # None /\ primary'[x.key].outcome # "ambiguous"
    <3>1. x \in Receipts /\ x # None /\ x.key \in Keys
      BY <1>4, StagedAssumption DEF Receipts
    <3>2. /\ x.outcome \in Known => primary[x.key] = x
          /\ x.outcome = "duplicate" =>
               primary[x.key] # None /\ primary[x.key].outcome # "ambiguous"
      BY DEF OwnerInv, ReceiptOwners
    <3>3. primary[x.key] # None => primary'[x.key] = primary[x.key]
      BY <1>1, <1>4, <3>1
    <3> QED BY <3>1, <3>2, <3>3
  <2>2. /\ r.outcome \in Known => primary'[r.key] = r
        /\ r.outcome = "duplicate" =>
             primary'[r.key] # None /\ primary'[r.key].outcome # "ambiguous"
    BY <1>1, <1>2, <1>3, <1>4
  <2> QED BY <1>2, <2>1, <2>2 DEF ReceiptOwners
<1> QED BY <1>5, <1>6, <1>7

LEMMA OwnerProgress ==
  ASSUME Typed, CommitInv, OwnerInv, NEW p \in Committers, Progress(p)
  PROVE  OwnerInv'
<1> DEFINE a == presented[p]
<1>1. CASE LockTimeout(p) \/ ConsumeUnknown(p)
  BY <1>1, OthersAside, OwnerAside
  DEF LockTimeout, ConsumeUnknown, commitLog, StagedGrows
<1>2. CASE Acquire(p)
  BY <1>2 DEF Acquire, Goto, commitLog, args, history, Typed, TypeOK, OwnerInv, ReceiptOwners,
              ReservedByStaged, KeyOwnedByStaged, IsStaged, Founded
<1>3. CASE Decide(p)
  <2>1. /\ UNCHANGED <<staged, started, primary, receipts, presented>> /\ pc[p] \in Inside
        /\ outcome'[p] = EarlyOutcome(p)
        /\ pc'[p] = IF EarlyOutcome(p) = "none" THEN "reserve" ELSE "record"
        /\ \A q \in Committers : q # p => pc'[q] = pc[q]
    BY <1>3 DEF Decide, Goto, commitLog, args, history, Typed, TypeOK, Inside
  <2>2. EarlyOutcome(p) = "none" => staged[a.id] = a
    BY DEF EarlyOutcome, validate_for_commit
  <2>3. /\ EarlyOutcome(p) \notin Known
        /\ EarlyOutcome(p) = "duplicate" =>
             primary[a.key] # None /\ primary[a.key].outcome # "ambiguous"
    BY DEF EarlyOutcome, Known
  <2>4. started[a.key] # None => EarlyOutcome(p) = "ambiguous"
    <3>1. a.key \in Keys
      BY <2>1, PresentedIsArtifact DEF Typed, Inside
    <3> QED BY <3>1 DEF EarlyOutcome, CommitInv, KeyTruth
  <2>5. Founded(p)'
    BY <2>1, <2>2, <2>3, <2>4 DEF Founded
  <2> QED
    BY <2>1, <2>5, FoundedAlone
    DEF OwnerInv, ReceiptOwners, ReservedByStaged, KeyOwnedByStaged, IsStaged
<1>4. CASE Reserve(p)
  <2>1. /\ pc[p] = "reserve" /\ Started(p) /\ UNCHANGED <<staged, receipts, presented>>
        /\ pc'[p] = "consume" /\ \A q \in Committers : q # p => pc'[q] = pc[q]
    BY <1>4 DEF Reserve, Started, Goto, args, history, Typed, TypeOK
  <2>2. Founded(p)'
    BY <2>1 DEF OwnerInv, Founded
  <2> QED BY <2>1, <2>2, FoundedAlone, OwnerStarted DEF OwnerInv, Inside
<1>5. CASE ConsumeGranted(p) \/ ConsumeRefused(p) \/ Actuate(p) \/ ActuatorAnswers(p)
  <2>1. /\ pc[p] \in {"consume", "actuate", "actuating"}
        /\ UNCHANGED <<staged, started, primary, receipts, presented>>
        /\ \A q \in Committers : q # p => pc'[q] = pc[q]
        /\ pc'[p] \in {"actuate", "actuating", "record"}
        /\ pc'[p] = "record" => outcome'[p] # "duplicate"
    BY <1>5 DEF ConsumeGranted, ConsumeRefused, Actuate, ActuatorAnswers, Goto, commitLog,
                args, history, Typed, TypeOK
  <2>2. started[a.key] = a.id /\ started[a.key] # None
    BY <2>1, PresentedIsArtifact DEF CommitInv, CommitProgress, Progressed, Typed
  <2>3. Founded(p)'
    BY <2>1, <2>2 DEF OwnerInv, Founded
  <2> QED
    BY <2>1, <2>3, FoundedAlone
    DEF OwnerInv, ReceiptOwners, ReservedByStaged, KeyOwnedByStaged, IsStaged, Inside
<1>6. CASE Record(p)
  <2>1. pc[p] = "record" /\ Finished(p) /\ Return(p)
    BY <1>6 DEF Record
  <2>2. Founded(p)' /\ \A q \in Committers : q # p => pc'[q] = pc[q]
    BY <2>1, ReturnPlace DEF Founded
  <2> QED BY <2>1, <2>2, FoundedAlone, OwnerFinished DEF OwnerInv, Inside
<1> QED BY <1>1, <1>2, <1>3, <1>4, <1>5, <1>6 DEF Progress

LEMMA OwnerFails ==
  ASSUME Typed, CommitInv, OwnerInv, NEW p \in Committers, Fails(p)
  PROVE  OwnerInv'
<1>1. Return(p) /\ Founded(p)' /\ \A q \in Committers : q # p => pc'[q] = pc[q]
  BY ReturnPlace DEF Fails, Founded
<1>2. CASE UNCHANGED <<commitLog, receipts>>
  BY <1>1, <1>2, ReturnAside, OwnerAside DEF commitLog, StagedGrows
<1>3. CASE pc[p] = "reserve" /\ Started(p) /\ UNCHANGED receipts
  BY <1>1, <1>3, FoundedAlone, OwnerStarted DEF OwnerInv, Inside
<1>4. CASE pc[p] = "record" /\ Finished(p)
  BY <1>1, <1>4, FoundedAlone, OwnerFinished DEF OwnerInv, Inside
<1> QED BY <1>2, <1>3, <1>4 DEF Fails, history

LEMMA OwnerNext == Typed /\ CommitInv /\ OwnerInv /\ [Next]_vars => OwnerInv'
<1> SUFFICES ASSUME Typed, CommitInv, OwnerInv, [Next]_vars PROVE OwnerInv'
  OBVIOUS
<1>1. CASE \E p \in Committers : Progress(p)
  BY <1>1, OwnerProgress
<1>2. CASE \E p \in Committers : Fails(p)
  BY <1>2, OwnerFails
<1>3. CASE \/ Stage \/ Authorize \/ NewWorld \/ Time \/ UNCHANGED vars
           \/ (\E p \in Committers : Begin(p)) \/ (\E k \in Keys : Downstream(k))
  <2>1. Aside
    BY <1>3, OthersAside
  <2>2. CASE Stage
    BY <2>1, <2>2, OwnerAside DEF Stage, StageAllowed, StagedGrows, Typed, TypeOK
  <2>3. CASE UNCHANGED staged
    BY <2>1, <2>3, OwnerAside DEF StagedGrows
  <2> QED
    BY <1>3, <2>2, <2>3 DEF Authorize, NewWorld, Time, Begin, Downstream, vars, commitLog
<1> QED BY <1>1, <1>2, <1>3 DEF Next

\* The invariant about owners holds in every reachable state.
THEOREM OwnerInvariant == Spec => [](Typed /\ CommitInv /\ OwnerInv)
<1>1. Init => OwnerInv
  BY DEF Init, OwnerInv, ReceiptOwners, ReservedByStaged, KeyOwnedByStaged, Founded
<1>2. Typed /\ CommitInv /\ OwnerInv /\ [Next]_vars => OwnerInv'
  BY OwnerNext
<1> QED BY <1>1, <1>2, CommitInvariant, PTL DEF Spec

\* Every receipt ever written stays true: no late application turns a failure,
\* a rejection or a rehearsal into an effect (commit, staged.rs:339-362).
THEOREM ReceiptsStayTrue == Spec => []ReceiptsTruthful
<1>1. Typed /\ CommitInv /\ OwnerInv => ReceiptsTruthful
  <2> SUFFICES ASSUME Typed, CommitInv, OwnerInv, NEW r \in receipts
               PROVE  /\ r.outcome = "committed" => applied[r.key] = 1
                      /\ r.outcome \in {"failed", "simulated"} =>
                           inflight[r.key] + applied[r.key] = 0
                      /\ r.outcome = "duplicate" =>
                           primary[r.key] # None /\ primary[r.key].outcome # "ambiguous"
                      /\ (r.outcome = "rejected" /\ primary[r.key] = r) =>
                           inflight[r.key] + applied[r.key] = 0
    BY DEF ReceiptsTruthful
  <2>1. r \in Receipts /\ r # None /\ r.key \in Keys
    BY StagedAssumption DEF Typed, TypeOK, Receipts
  <2>2. /\ r.outcome \in Known => primary[r.key] = r
        /\ r.outcome = "duplicate" =>
             primary[r.key] # None /\ primary[r.key].outcome # "ambiguous"
    BY DEF OwnerInv, ReceiptOwners
  <2>3. primary[r.key] = r => Truth(r.outcome, r.key)
    BY <2>1 DEF CommitInv, KeyTruth
  <2> QED BY <2>1, <2>2, <2>3 DEF Known, Truth, Quiet
<1> QED BY <1>1, OwnerInvariant, PTL

\* A key is only ever owned by a receipt of a staged artifact that has it, or by
\* the admission that nobody knows (the comment in apply_event).
THEOREM KeysNotPoisoned == Spec => []KeyOwnedByStaged
<1>1. OwnerInv => KeyOwnedByStaged
  BY DEF OwnerInv
<1> QED BY <1>1, OwnerInvariant, PTL

-----------------------------------------------------------------------------
(* Consent.  AppliedUnderConsent does not say what a committer between its *)
(* validation and the actuator call knows: that it works with the staged   *)
(* copy, in a world that was in force, and, at the call, that it has paid. *)

BindingsMinted ==
  \A id \in Ids : tokens[id].state # "absent" => tokens[id].binding \in Bindings

\* No caller has compiled a world that is still to come.
WorldsKnown == \A p \in Committers : world[p] <= epoch

PaidOnce ==
  \A x \in paid :
    /\ tokens[x[1]].state = "consumed"
    /\ tokens[x[1]].binding = x[2].binding
    /\ WorldEpoch(x[2]) \in 0..epoch
    /\ \A y \in paid : y[1] = x[1] => y = x

SentPaid ==
  \A k \in Keys : inflight[k] + applied[k] > 0 =>
    \E a \in Artifacts :
      /\ a.key = k /\ staged[a.id] = a /\ EffectMode(a) = "execute"
      /\ <<a.auth, a>> \in paid

Validated == {"reserve", "consume", "actuate"}

Cleared(p) ==
  LET a == presented[p]
  IN  /\ pc[p] \in Validated =>
           /\ staged[a.id] = a /\ WorldEpoch(a) = world[p]
           /\ EffectMode(a) \in {"execute", "simulate"}
      /\ pc[p] = "actuate" => <<a.auth, a>> \in paid

ConsentInv ==
  /\ BindingsMinted /\ WorldsKnown /\ PaidOnce /\ SentPaid
  /\ \A p \in Committers : Cleared(p)

\* A step that clears nobody.
StaysClear(p) ==
  /\ pc'[p] \in Validated =>
       pc[p] \in Validated /\ presented'[p] = presented[p] /\ world'[p] = world[p]
  /\ pc'[p] = "actuate" => pc[p] = "actuate"

\* A step that sends nothing.
SendsNothing ==
  \A k \in Keys : inflight'[k] + applied'[k] > 0 => inflight[k] + applied[k] > 0

LEMMA PaidKept ==
  ASSUME Typed, PaidOnce, UNCHANGED paid, SpentUntouched, epoch' \in Nat, epoch <= epoch'
  PROVE  PaidOnce'
<1> SUFFICES ASSUME NEW x \in paid
             PROVE  /\ tokens'[x[1]].state = "consumed"
                    /\ tokens'[x[1]].binding = x[2].binding
                    /\ WorldEpoch(x[2]) \in 0..epoch'
                    /\ \A y \in paid : y[1] = x[1] => y = x
  BY DEF PaidOnce, WorldEpoch
<1>1. x[1] \in Ids /\ epoch \in Nat
  BY DEF Typed, TypeOK
<1>2. tokens'[x[1]] = tokens[x[1]]
  BY <1>1 DEF PaidOnce, SpentUntouched
<1>3. WorldEpoch(x[2]) \in 0..epoch
  BY DEF PaidOnce
<1>4. WorldEpoch(x[2]) \in 0..epoch'
  BY <1>1, <1>3
<1> QED BY <1>2, <1>4 DEF PaidOnce

LEMMA SentKept ==
  ASSUME Typed, SentPaid, StagedGrows, paid \subseteq paid', SendsNothing
  PROVE  SentPaid'
<1> SUFFICES ASSUME NEW k \in Keys, inflight'[k] + applied'[k] > 0
             PROVE  \E a \in Artifacts :
                      /\ a.key = k /\ staged'[a.id] = a /\ EffectMode(a) = "execute"
                      /\ <<a.auth, a>> \in paid'
  BY DEF SentPaid, EffectMode
<1>1. PICK a \in Artifacts :
        /\ a.key = k /\ staged[a.id] = a /\ EffectMode(a) = "execute"
        /\ <<a.auth, a>> \in paid
  BY DEF SentPaid, SendsNothing
<1>2. a.id \in EffectIds /\ a # None
  BY StagedAssumption DEF ArtifactShape
<1> QED BY <1>1, <1>2 DEF StagedGrows

LEMMA ClearKept ==
  ASSUME Typed, NEW p \in Committers, Cleared(p), StaysClear(p), StagedGrows,
         paid \subseteq paid'
  PROVE  Cleared(p)'
<1>1. CASE pc'[p] \in Validated
  <2>1. pc[p] \in Validated /\ presented'[p] = presented[p] /\ world'[p] = world[p]
    BY <1>1 DEF StaysClear
  <2>2. presented[p].id \in EffectIds /\ presented[p] # None
    BY <2>1, PresentedIsArtifact, StagedAssumption DEF Typed, Validated
  <2>3. staged'[presented[p].id] = presented[p]
    BY <2>1, <2>2 DEF Cleared, StagedGrows
  <2>4. pc'[p] = "actuate" => <<presented[p].auth, presented[p]>> \in paid'
    BY DEF Cleared, StaysClear
  <2> QED BY <2>1, <2>3, <2>4 DEF Cleared, WorldEpoch, EffectMode
<1>2. CASE pc'[p] \notin Validated
  BY <1>2 DEF Cleared, Validated
<1> QED BY <1>1, <1>2

\* A step that consumes nothing, clears nobody and sends nothing.
LEMMA ConsentKept ==
  ASSUME Typed, ConsentInv, UNCHANGED paid, StagedGrows, SpentUntouched, SendsNothing,
         BindingsMinted', WorldsKnown', epoch' \in Nat, epoch <= epoch',
         \A p \in Committers : StaysClear(p)
  PROVE  ConsentInv'
BY PaidKept, SentKept, ClearKept DEF ConsentInv

LEMMA AuthorizeBinds ==
  ASSUME Typed, BindingsMinted, Authorize
  PROVE  BindingsMinted' /\ SpentUntouched
<1> PICK id \in Ids :
      \/ \E b \in Bindings, d \in 1..MaxTime : Mint(id, b, d)
      \/ Approve(id) \/ Reject(id) \/ Revoke(id)
  BY DEF Authorize
<1>1. tokens \in [Ids -> Tokens]
  BY DEF Typed, TypeOK
<1>2. CASE \E b \in Bindings, d \in 1..MaxTime : Mint(id, b, d)
  <2> PICK b \in Bindings, d \in 1..MaxTime : Mint(id, b, d)
    BY <1>2
  <2>1. SpentUntouched
    BY <1>1, MintLeavesSpent
  <2>2. BindingsMinted'
    BY <1>1 DEF Mint, BindingsMinted
  <2> QED BY <2>1, <2>2
<1>3. CASE Approve(id) \/ Reject(id) \/ Revoke(id)
  <2>1. \E from, to : /\ Transition(id, from, to)
                      /\ from \cap {"consumed", "executed"} = {} /\ "absent" \notin from
    BY <1>3 DEF Approve, Reject, Revoke
  <2>2. SpentUntouched
    BY <1>1, <2>1, TransitionLeavesSpent
  <2>3. BindingsMinted'
    BY <1>1, <2>1 DEF Transition, BindingsMinted, Tokens
  <2> QED BY <2>2, <2>3
<1> QED BY <1>2, <1>3

LEMMA ConsumeBinds ==
  ASSUME Typed, BindingsMinted, NEW id \in Ids, NEW b, NEW when, Consume(id, b, when)
  PROVE  BindingsMinted' /\ SpentUntouched
<1>1. tokens \in [Ids -> Tokens]
  BY DEF Typed, TypeOK
<1>2. SpentUntouched
  BY <1>1, ConsumeLeavesSpent
<1>3. BindingsMinted'
  BY <1>1 DEF Consume, BindingsMinted, Tokens
<1> QED BY <1>2, <1>3

\* A consumption pays for one artifact, with a grant that paid for nothing.
LEMMA ConsumePays ==
  ASSUME Typed, ConsentInv, NEW p \in Committers, pc[p] = "consume",
         Consume(presented[p].auth, presented[p].binding, at[p]), PutPaid(p),
         UNCHANGED epoch
  PROVE  PaidOnce' /\ paid \subseteq paid'
<1> DEFINE a == presented[p]
<1>1. /\ a \in Artifacts /\ a.auth \in Ids /\ a.binding \in Bindings
      /\ tokens \in [Ids -> Tokens] /\ world[p] \in Nat /\ epoch \in Nat
  BY PresentedIsArtifact, StagedAssumption DEF Typed, TypeOK, ArtifactShape
<1>2. WorldEpoch(a) \in 0..epoch
  <2>1. WorldEpoch(a) = world[p]
    BY DEF ConsentInv, Cleared, Validated
  <2>2. world[p] <= epoch
    BY DEF ConsentInv, WorldsKnown
  <2> HIDE DEF a
  <2> QED BY <1>1, <2>1, <2>2
<1>3. /\ tokens[a.auth].state = "approved"
      /\ tokens' = [tokens EXCEPT ![a.auth].state = "consumed", ![a.auth].uses = 0]
  BY NoReasonMeansApproved DEF Consume
<1>4. tokens[a.auth].binding = a.binding
  BY <1>1, <1>3, NoReasonMeansSameBinding DEF Consume, ConsentInv, BindingsMinted
<1>5. paid' = paid \union {<<a.auth, a>>}
  BY DEF PutPaid
<1> HIDE DEF a
<1>6. tokens'[a.auth].state = "consumed" /\ tokens'[a.auth].binding = a.binding
  BY <1>1, <1>3, <1>4 DEF Tokens
<1>7. \A id \in Ids : id # a.auth => tokens'[id] = tokens[id]
  BY <1>1, <1>3
<1>8. \A x \in paid : x[1] \in Ids /\ x[1] # a.auth
  BY <1>3 DEF ConsentInv, PaidOnce, Typed, TypeOK
<1>9. ASSUME NEW x \in paid'
      PROVE  /\ tokens'[x[1]].state = "consumed"
             /\ tokens'[x[1]].binding = x[2].binding
             /\ WorldEpoch(x[2]) \in 0..epoch
             /\ \A y \in paid' : y[1] = x[1] => y = x
  <2>1. CASE x \in paid
    <3>1. /\ tokens[x[1]].state = "consumed"
          /\ tokens[x[1]].binding = x[2].binding
          /\ WorldEpoch(x[2]) \in 0..epoch
          /\ \A y \in paid : y[1] = x[1] => y = x
      BY <2>1 DEF ConsentInv, PaidOnce
    <3>2. tokens'[x[1]] = tokens[x[1]]
      BY <1>7, <1>8, <2>1
    <3>3. \A y \in paid' : y[1] = x[1] => y \in paid
      BY <1>5, <1>8, <2>1
    <3> QED BY <3>1, <3>2, <3>3
  <2>2. CASE x = <<a.auth, a>>
    <3>1. x[1] = a.auth /\ x[2] = a
      BY <2>2
    <3>2. \A y \in paid' : y[1] = x[1] => y = x
      BY <1>5, <1>8, <2>2, <3>1
    <3> QED BY <1>2, <1>6, <3>1, <3>2
  <2> QED BY <1>5, <2>1, <2>2
<1> QED BY <1>5, <1>9 DEF PaidOnce, WorldEpoch

\* Who returns is cleared of nothing.
LEMMA ReturnClears ==
  ASSUME Typed, WorldsKnown, NEW p \in Committers, Return(p), UNCHANGED epoch
  PROVE  WorldsKnown' /\ \A q \in Committers : StaysClear(q)
BY DEF Typed, TypeOK, WorldsKnown, Return, Goto, StaysClear, Validated

\* A move along commit that validates nothing and does not reach the actuator.
LEMMA MoveClears ==
  ASSUME Typed, WorldsKnown, NEW p \in Committers, NEW l, Goto(p, l), l # "actuate",
         l \in Validated => pc[p] \in Validated, UNCHANGED <<args, epoch>>
  PROVE  WorldsKnown' /\ \A q \in Committers : StaysClear(q)
BY DEF Typed, TypeOK, WorldsKnown, Goto, StaysClear, Validated, args

LEMMA SameStore ==
  ASSUME BindingsMinted, UNCHANGED tokens
  PROVE  BindingsMinted' /\ SpentUntouched
BY DEF BindingsMinted, SpentUntouched

LEMMA SameDownstream ==
  ASSUME UNCHANGED <<inflight, applied>>
  PROVE  SendsNothing
BY DEF SendsNothing

LEMMA ConsentProgress ==
  ASSUME Typed, ConsentInv, NEW p \in Committers, Progress(p)
  PROVE  ConsentInv'
<1>1. epoch \in Nat /\ epoch <= epoch
  BY DEF Typed, TypeOK
<1>2. CASE LockTimeout(p) \/ ConsumeUnknown(p) \/ Record(p)
  <2>1. /\ Return(p) /\ UNCHANGED <<tokens, staged, inflight, applied, paid, epoch>>
    BY <1>2 DEF LockTimeout, ConsumeUnknown, Record, Finished, commitLog, downstream,
                history, environment
  <2>2. StagedGrows
    BY <2>1 DEF StagedGrows
  <2> QED BY <1>1, <2>1, <2>2, ReturnClears, SameStore, SameDownstream, ConsentKept
          DEF ConsentInv
<1>3. CASE Acquire(p) \/ Reserve(p) \/ ConsumeRefused(p)
  <2>1. \E l : /\ Goto(p, l) /\ l # "actuate" /\ UNCHANGED args
               /\ l \in Validated => pc[p] \in Validated
    BY <1>3 DEF Acquire, Reserve, ConsumeRefused, Validated
  <2>2. UNCHANGED <<tokens, staged, inflight, applied, paid, epoch>>
    BY <1>3 DEF Acquire, Reserve, Started, ConsumeRefused, commitLog, downstream, history,
                environment
  <2>3. StagedGrows
    BY <2>2 DEF StagedGrows
  <2>4. WorldsKnown' /\ \A q \in Committers : StaysClear(q)
    <3>1. WorldsKnown /\ UNCHANGED epoch
      BY <2>2 DEF ConsentInv
    <3> QED BY <2>1, <3>1, MoveClears
  <2> QED BY <1>1, <2>2, <2>3, <2>4, SameStore, SameDownstream, ConsentKept DEF ConsentInv
<1>4. CASE ActuatorAnswers(p)
  <2>1. /\ pc[p] = "actuating" /\ Goto(p, "record") /\ UNCHANGED args
        /\ UNCHANGED <<tokens, staged, applied, paid, epoch>>
        /\ \/ UNCHANGED inflight
           \/ /\ inflight[presented[p].key] > 0
              /\ inflight' = [inflight EXCEPT ![presented[p].key] = @ - 1]
    BY <1>4 DEF ActuatorAnswers, commitLog, history, environment
  <2>2. SendsNothing
    <3>1. presented[p].key \in Keys
      BY <2>1, PresentedIsArtifact DEF Typed
    <3>2. CASE UNCHANGED inflight
      BY <2>1, <3>2, SameDownstream
    <3>3. ASSUME inflight[presented[p].key] > 0,
                 inflight' = [inflight EXCEPT ![presented[p].key] = @ - 1],
                 NEW k \in Keys, inflight'[k] + applied'[k] > 0
          PROVE  inflight[k] + applied[k] > 0
      <4>1. inflight[k] \in Nat /\ applied[k] \in Nat /\ applied'[k] = applied[k]
        BY <2>1 DEF Typed, TypeOK
      <4>2. CASE k = presented[p].key
        BY <3>3, <4>1, <4>2
      <4>3. CASE k # presented[p].key
        <5>1. inflight'[k] = inflight[k]
          BY <3>1, <3>3, <4>3 DEF Typed, TypeOK
        <5> QED BY <3>3, <4>1, <5>1
      <4> QED BY <4>2, <4>3
    <3> QED BY <2>1, <3>2, <3>3 DEF SendsNothing
  <2>3. StagedGrows
    BY <2>1 DEF StagedGrows
  <2>4. WorldsKnown' /\ \A q \in Committers : StaysClear(q)
    BY <2>1, MoveClears DEF ConsentInv, Validated
  <2> QED BY <1>1, <2>1, <2>2, <2>3, <2>4, SameStore, ConsentKept DEF ConsentInv
<1>5. CASE Decide(p)
  <2>1. /\ pc[p] = "decide"
        /\ UNCHANGED <<tokens, staged, inflight, applied, paid, epoch, presented, world>>
        /\ pc'[p] = IF EarlyOutcome(p) = "none" THEN "reserve" ELSE "record"
        /\ \A q \in Committers : q # p => pc'[q] = pc[q]
    BY <1>5 DEF Decide, Goto, Typed, TypeOK, commitLog, args, downstream, history,
                environment
  <2>2. StagedGrows
    BY <2>1 DEF StagedGrows
  <2>3. EarlyOutcome(p) = "none" => validate_for_commit(presented[p], world[p], at[p])
    BY DEF EarlyOutcome
  <2>4. Cleared(p)'
    BY <2>1, <2>3 DEF Cleared, Validated, validate_for_commit, WorldEpoch, EffectMode
  <2>5. ASSUME NEW q \in Committers, q # p
        PROVE  Cleared(q)'
    <3>1. StaysClear(q)
      BY <2>1, <2>5 DEF StaysClear
    <3> QED BY <2>1, <2>2, <3>1, ClearKept DEF ConsentInv
  <2>6. WorldsKnown'
    BY <2>1 DEF ConsentInv, WorldsKnown
  <2>7. PaidOnce' /\ SentPaid'
    BY <1>1, <2>1, <2>2, SameStore, SameDownstream, PaidKept, SentKept DEF ConsentInv
  <2> QED BY <2>1, <2>4, <2>5, <2>6, <2>7, SameStore DEF ConsentInv
<1>6. CASE ConsumeGranted(p)
  <2>1. /\ pc[p] = "consume" /\ presented[p].auth \in Ids
        /\ Consume(presented[p].auth, presented[p].binding, at[p]) /\ PutPaid(p)
        /\ UNCHANGED <<staged, inflight, applied, epoch, presented, world>>
        /\ pc'[p] = "actuate"
        /\ \A q \in Committers : q # p => pc'[q] = pc[q]
    BY <1>6, PresentedIsArtifact
    DEF ConsumeGranted, Goto, Typed, TypeOK, commitLog, args, downstream, environment
  <2>2. StagedGrows
    BY <2>1 DEF StagedGrows
  <2>3. PaidOnce' /\ paid \subseteq paid'
    BY <2>1, ConsumePays
  <2>4. Cleared(p)'
    <3>1. /\ staged[presented[p].id] = presented[p] /\ WorldEpoch(presented[p]) = world[p]
          /\ EffectMode(presented[p]) \in {"execute", "simulate"}
      BY <2>1 DEF ConsentInv, Cleared, Validated
    <3>2. <<presented[p].auth, presented[p]>> \in paid'
      BY <2>1 DEF PutPaid
    <3> QED BY <2>1, <3>1, <3>2 DEF Cleared, WorldEpoch, EffectMode
  <2>5. ASSUME NEW q \in Committers, q # p
        PROVE  Cleared(q)'
    <3>1. StaysClear(q)
      BY <2>1, <2>5 DEF StaysClear
    <3> QED BY <2>2, <2>3, <3>1, ClearKept DEF ConsentInv
  <2>6. WorldsKnown'
    BY <2>1 DEF ConsentInv, WorldsKnown
  <2>7. SentPaid'
    BY <2>1, <2>2, <2>3, SameDownstream, SentKept DEF ConsentInv
  <2>8. BindingsMinted'
    BY <2>1, ConsumeBinds DEF ConsentInv
  <2> QED BY <2>3, <2>4, <2>5, <2>6, <2>7, <2>8 DEF ConsentInv
<1>7. CASE Actuate(p)
  <2> DEFINE a == presented[p]
  <2>1. /\ pc[p] = "actuate" /\ a \in Artifacts /\ a.key \in Keys
        /\ UNCHANGED <<tokens, staged, applied, paid, epoch, args>>
        /\ Goto(p, "record") \/ Goto(p, "actuating")
        /\ \/ UNCHANGED inflight
           \/ EffectMode(a) # "simulate" /\ inflight' = [inflight EXCEPT ![a.key] = @ + 1]
    BY <1>7, PresentedIsArtifact
    DEF Actuate, Typed, TypeOK, commitLog, history, environment
  <2>2. StagedGrows
    BY <2>1 DEF StagedGrows
  <2>3. WorldsKnown' /\ \A q \in Committers : StaysClear(q)
    BY <2>1, MoveClears DEF ConsentInv, Validated
  <2>4. CASE UNCHANGED inflight
    BY <1>1, <2>1, <2>2, <2>3, <2>4, SameStore, SameDownstream, ConsentKept DEF ConsentInv
  <2>5. CASE EffectMode(a) # "simulate" /\ inflight' = [inflight EXCEPT ![a.key] = @ + 1]
    <3>1. staged[a.id] = a /\ EffectMode(a) = "execute" /\ <<a.auth, a>> \in paid
      BY <2>1, <2>5 DEF ConsentInv, Cleared, Validated
    <3>2. ASSUME NEW k \in Keys, inflight'[k] + applied'[k] > 0
          PROVE  \E b \in Artifacts :
                   /\ b.key = k /\ staged'[b.id] = b /\ EffectMode(b) = "execute"
                   /\ <<b.auth, b>> \in paid'
      <4>1. CASE k = a.key
        BY <2>1, <3>1, <4>1
      <4>2. CASE k # a.key
        <5>1. inflight'[k] = inflight[k] /\ applied'[k] = applied[k]
          BY <2>1, <2>5, <4>2 DEF Typed, TypeOK
        <5> QED BY <2>1, <3>2, <5>1 DEF ConsentInv, SentPaid
      <4> QED BY <4>1, <4>2
    <3>3. SentPaid'
      BY <3>2 DEF SentPaid, EffectMode
    <3>4. PaidOnce'
      BY <1>1, <2>1, SameStore, PaidKept DEF ConsentInv
    <3>5. \A q \in Committers : Cleared(q)'
      BY <2>1, <2>2, <2>3, ClearKept DEF ConsentInv
    <3> QED BY <2>1, <2>3, <3>3, <3>4, <3>5, SameStore DEF ConsentInv
  <2> QED BY <2>1, <2>4, <2>5
<1> QED BY <1>2, <1>3, <1>4, <1>5, <1>6, <1>7 DEF Progress

LEMMA ConsentFails ==
  ASSUME Typed, ConsentInv, NEW p \in Committers, Fails(p)
  PROVE  ConsentInv'
<1>1. /\ Return(p) /\ UNCHANGED <<staged, inflight, applied, epoch>>
      /\ epoch \in Nat /\ epoch <= epoch
  BY DEF Fails, Started, Finished, commitLog, downstream, Typed, TypeOK
<1>2. StagedGrows
  BY <1>1 DEF StagedGrows
<1>3. WorldsKnown' /\ \A q \in Committers : StaysClear(q)
  BY <1>1, ReturnClears DEF ConsentInv
<1>4. CASE UNCHANGED <<tokens, paid>>
  BY <1>1, <1>2, <1>3, <1>4, SameStore, SameDownstream, ConsentKept DEF ConsentInv
<1>5. CASE /\ pc[p] = "consume" /\ PutPaid(p)
           /\ Consume(presented[p].auth, presented[p].binding, at[p])
  <2>1. PaidOnce' /\ paid \subseteq paid'
    BY <1>1, <1>5, ConsumePays
  <2>2. BindingsMinted'
    BY <1>5, PresentedIsArtifact, ConsumeBinds DEF ConsentInv, Typed
  <2>3. SentPaid' /\ \A q \in Committers : Cleared(q)'
    BY <1>1, <1>2, <1>3, <2>1, SameDownstream, SentKept, ClearKept DEF ConsentInv
  <2> QED BY <1>3, <2>1, <2>2, <2>3 DEF ConsentInv
<1> QED BY <1>4, <1>5 DEF Fails, history

LEMMA ConsentNext == Typed /\ ConsentInv /\ [Next]_vars => ConsentInv'
<1> SUFFICES ASSUME Typed, ConsentInv, [Next]_vars PROVE ConsentInv'
  OBVIOUS
<1>1. epoch \in Nat /\ epoch <= epoch
  BY DEF Typed, TypeOK
<1>2. CASE Stage
  <2>1. UNCHANGED <<tokens, pc, presented, world, inflight, applied, paid, epoch>>
    BY <1>2 DEF Stage, caller, args, downstream, history, environment
  <2>2. StagedGrows
    BY <1>2, StagedAssumption
    DEF Stage, StageAllowed, StagedGrows, ArtifactShape, Typed, TypeOK
  <2>3. WorldsKnown' /\ \A q \in Committers : StaysClear(q)
    BY <2>1 DEF ConsentInv, WorldsKnown, StaysClear
  <2> QED BY <1>1, <2>1, <2>2, <2>3, SameStore, SameDownstream, ConsentKept DEF ConsentInv
<1>3. CASE \E p \in Committers : Begin(p)
  <2> PICK p \in Committers : Begin(p)
    BY <1>3
  <2>1. UNCHANGED <<tokens, staged, inflight, applied, paid, epoch>>
    BY DEF Begin, commitLog, downstream, history, environment
  <2>2. StagedGrows
    BY <2>1 DEF StagedGrows
  <2>3. \A q \in Committers : StaysClear(q)
    BY DEF Begin, Goto, StaysClear, Validated, Typed, TypeOK
  <2>4. WorldsKnown'
    BY <1>1, <2>1 DEF Begin, ConsentInv, WorldsKnown, Typed, TypeOK
  <2> QED BY <1>1, <2>1, <2>2, <2>3, <2>4, SameStore, SameDownstream, ConsentKept
          DEF ConsentInv
<1>4. CASE \E p \in Committers : Progress(p)
  BY <1>4, ConsentProgress
<1>5. CASE \E p \in Committers : Fails(p)
  BY <1>5, ConsentFails
<1>6. CASE \E k \in Keys : Downstream(k)
  <2> PICK k \in Keys : Downstream(k)
    BY <1>6
  <2>1. UNCHANGED <<tokens, staged, pc, presented, world, paid, epoch>>
    BY DEF Downstream, commitLog, caller, args, history, environment
  <2>2. SendsNothing
    BY DEF Downstream, SendsNothing, Typed, TypeOK
  <2>3. StagedGrows
    BY <2>1 DEF StagedGrows
  <2>4. WorldsKnown' /\ \A q \in Committers : StaysClear(q)
    BY <2>1 DEF ConsentInv, WorldsKnown, StaysClear
  <2> QED BY <1>1, <2>1, <2>2, <2>3, <2>4, SameStore, ConsentKept DEF ConsentInv
<1>7. CASE Authorize \/ NewWorld \/ Time \/ UNCHANGED vars
  <2>1. UNCHANGED <<staged, pc, presented, world, inflight, applied, paid>>
    BY <1>7 DEF Authorize, NewWorld, Time, vars, commitLog, caller, args, downstream, history
  <2>2. epoch' \in Nat /\ epoch <= epoch'
    BY <1>1, <1>7 DEF Authorize, NewWorld, Time, vars, environment
  <2>3. BindingsMinted' /\ SpentUntouched
    BY <1>7, AuthorizeBinds, SameStore DEF ConsentInv, NewWorld, Time, vars
  <2>4. StagedGrows
    BY <2>1 DEF StagedGrows
  <2>5. \A q \in Committers : StaysClear(q)
    BY <2>1 DEF StaysClear
  <2>6. WorldsKnown'
    BY <1>1, <2>1, <2>2 DEF ConsentInv, WorldsKnown, Typed, TypeOK
  <2> QED BY <2>1, <2>2, <2>3, <2>4, <2>5, <2>6, SameDownstream, ConsentKept DEF ConsentInv
<1> QED BY <1>2, <1>3, <1>4, <1>5, <1>6, <1>7 DEF Next

\* Whatever committers, operators, errors and deaths do: what the downstream was
\* ever sent is a staged artifact of a world that was in force, paid for with a
\* spent grant of exactly its binding, and no grant paid for two
\* (staged.rs:225-363, approval.rs:417-470).
THEOREM ConsentBehindEffects == Spec => []AppliedUnderConsent
<1>1. Init => ConsentInv
  BY StoreAssumption
  DEF Init, StoreInit, Absent, ConsentInv, BindingsMinted, WorldsKnown, PaidOnce, SentPaid,
      Cleared, Validated
<1>2. Typed /\ ConsentInv /\ [Next]_vars => ConsentInv'
  BY ConsentNext
<1>3. Typed /\ ConsentInv => AppliedUnderConsent
  <2> SUFFICES ASSUME Typed, ConsentInv
               PROVE  AppliedUnderConsent
    OBVIOUS
  <2>1. epoch \in Nat
    BY DEF Typed, TypeOK
  <2>2. PaidOnce /\ SentPaid
    BY DEF ConsentInv
  <2>3. ASSUME NEW x \in paid
        PROVE  WorldEpoch(x[2]) <= epoch
    BY <2>1, <2>2 DEF PaidOnce
  <2> QED BY <2>2, <2>3 DEF PaidOnce, SentPaid, AppliedUnderConsent
<1> QED BY <1>1, <1>2, <1>3, CommitInvariant, PTL DEF Spec
=============================================================================

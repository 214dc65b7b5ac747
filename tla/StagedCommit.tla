----------------------------- MODULE StagedCommit -----------------------------
(***************************************************************************)
(* Staged external effects and their independent commit (crates/           *)
(* trace-store/src/staged.rs), over the ApprovalStore, a compiled world    *)
(* whose epoch the operator may move, and a downstream system that takes   *)
(* its time: several committers, errors and deaths between any two steps.  *)
(*                                                                         *)
(* commit holds the commit-store lock from its reload to its last append,  *)
(* across the authorization's consumption and the actuator call.  The lock *)
(* is the operating system's: it goes with its holder.  The four maps of   *)
(* CommitState are the fold of the commit log, changed by apply_event.     *)
(***************************************************************************)
EXTENDS ApprovalStore, FiniteSets

CONSTANTS
  Committers,   \* processes that call commit
  Artifacts,    \* every staged artifact somebody may stage or present
  Keys,         \* idempotency keys
  EffectIds,    \* staged effect ids
  NoProc,       \* nobody holds the lock
  None,         \* no artifact, no receipt, no reservation
  MaxEpoch,     \* bound: how often the operator changes the world
  MaxAttempts,  \* bound: no new commit call once a key has so many attempts
  MaxFaults     \* bound: deaths and failed appends in one behaviour

\* `sealed`: its hash is the hash of its contents; `mapped`: the actuator
\* supports its operation.  The other fields are the binding's.
ArtifactShape ==
  [id : EffectIds, key : Keys, auth : Ids, binding : Bindings, until : Nat,
   sealed : BOOLEAN, mapped : BOOLEAN]

WorldEpoch(a) == a.binding[3]

EffectMode(a) == a.binding[6]

Outcomes == {"committed", "simulated", "rejected", "failed", "ambiguous", "duplicate"}

Receipts == [id : EffectIds, key : Keys, attempt : Nat, outcome : Outcomes]

ASSUME StagedAssumption ==
  /\ Artifacts \subseteq ArtifactShape
  /\ None \notin Artifacts \union EffectIds \union Receipts
  /\ NoProc \notin Committers
  /\ MaxEpoch \in Nat /\ MaxAttempts \in Nat /\ MaxFaults \in Nat

VARIABLES
  staged,     \* effect id -> persisted artifact, or None
  attempts,   \* key -> number of the last attempt
  started,    \* key -> effect id of an attempt without its end, or None
  primary,    \* key -> the terminal receipt that owns it, or None
  lock,       \* the commit-store lock
  epoch,      \* manifest hash of the world in force
  pc, presented, at, world,  \* of each committer: place and arguments
  attempt, outcome,  \* number of its attempt, what it is about to record
  inflight,   \* key -> requests the downstream has and has not dealt with
  applied,    \* key -> how often the downstream applied the effect
  receipts,   \* history: receipts in the log
  paid,       \* history: auth ids consumed by commit, with the artifact
  faults

commitLog == <<staged, attempts, started, primary>>
args == <<presented, at, world>>
caller == <<pc, args, attempt, outcome>>
downstream == <<inflight, applied>>
history == <<receipts, paid>>
environment == <<now, epoch, faults>>  \* changed by no operation of the store
vars == <<tokens, commitLog, lock, caller, downstream, history, environment>>

Init ==
  /\ StoreInit
  /\ staged = [s \in EffectIds |-> None]
  /\ attempts = [k \in Keys |-> 0]
  /\ started = [k \in Keys |-> None]
  /\ primary = [k \in Keys |-> None]
  /\ lock = NoProc
  /\ epoch = 0
  /\ pc = [p \in Committers |-> "idle"]
  /\ presented = [p \in Committers |-> None]
  /\ at = [p \in Committers |-> 0]
  /\ world = [p \in Committers |-> 0]
  /\ attempt = [p \in Committers |-> 0]
  /\ outcome = [p \in Committers |-> "none"]
  /\ inflight = [k \in Keys |-> 0]
  /\ applied = [k \in Keys |-> 0]
  /\ receipts = {}
  /\ paid = {}
  /\ faults = 0

Goto(p, l) == pc' = [pc EXCEPT ![p] = l]

\* commit returns, with a receipt or an error; the guard drops the lock.
Return(p) ==
  /\ Goto(p, "idle")
  /\ presented' = [presented EXCEPT ![p] = None]
  /\ at' = [at EXCEPT ![p] = 0]
  /\ world' = [world EXCEPT ![p] = 0]
  /\ attempt' = [attempt EXCEPT ![p] = 0]
  /\ outcome' = [outcome EXCEPT ![p] = "none"]
  /\ lock' = IF lock = p THEN NoProc ELSE lock

-----------------------------------------------------------------------------
(* stage.                                                                  *)

StageAllowed(a) ==
  /\ a.sealed
  /\ staged[a.id] = None
  /\ \A s \in EffectIds : staged[s] # None => staged[s].key # a.key

\* One locked operation; nothing else runs in the commit store meanwhile.
Stage ==
  /\ lock = NoProc
  /\ \E a \in Artifacts :
       /\ StageAllowed(a)
       /\ staged' = [staged EXCEPT ![a.id] = a]
  /\ UNCHANGED <<tokens, attempts, started, primary, lock, caller, downstream,
                 history, environment>>

-----------------------------------------------------------------------------
(* commit, up to the reservation.                                          *)

\* The caller hands over an artifact, the world it compiled, which may be an
\* earlier one, and the time it read.
Begin(p) ==
  /\ pc[p] = "idle"
  /\ \E a \in Artifacts, w \in 0..epoch :
       /\ attempts[a.key] < MaxAttempts
       /\ presented' = [presented EXCEPT ![p] = a]
       /\ world' = [world EXCEPT ![p] = w]
  /\ at' = [at EXCEPT ![p] = now]
  /\ Goto(p, "wait")
  /\ UNCHANGED <<tokens, commitLog, lock, attempt, outcome, downstream, history,
                 environment>>

\* Variant: two commits run side by side.
Acquire_Shared(p) ==
  /\ pc[p] = "wait"
  /\ Goto(p, "decide")
  /\ UNCHANGED <<tokens, commitLog, lock, args, attempt, outcome, downstream, history,
                 environment>>

Acquire(p) ==
  /\ pc[p] = "wait"
  /\ lock = NoProc
  /\ lock' = p
  /\ Goto(p, "decide")
  /\ UNCHANGED <<tokens, commitLog, args, attempt, outcome, downstream, history,
                 environment>>

LockTimeout(p) ==
  /\ pc[p] = "wait"
  /\ lock # NoProc
  /\ Return(p)
  /\ UNCHANGED <<tokens, commitLog, downstream, history, environment>>

\* Variant: the world's epoch is not compared.
validate_for_commit_AnyEpoch(a, w, t) ==
  /\ a.sealed
  /\ staged[a.id] = a
  /\ t < a.until
  /\ EffectMode(a) \in {"execute", "simulate"}
  /\ a.mapped

\* Variant: the presented copy is trusted.
validate_for_commit_AnyCopy(a, w, t) ==
  /\ a.sealed
  /\ t < a.until
  /\ WorldEpoch(a) = w
  /\ EffectMode(a) \in {"execute", "simulate"}
  /\ a.mapped

\* The exact persisted artifact, unexpired, of this world, in a mode and with an
\* operation the actuator has.
validate_for_commit(a, w, t) ==
  /\ a.sealed
  /\ staged[a.id] = a
  /\ t < a.until
  /\ WorldEpoch(a) = w
  /\ EffectMode(a) \in {"execute", "simulate"}
  /\ a.mapped

\* How an attempt ends that reserves nothing, or "none".
EarlyOutcome(p) ==
  LET a == presented[p]
  IN  IF primary[a.key] # None
      THEN IF primary[a.key].outcome = "ambiguous" THEN "ambiguous" ELSE "duplicate"
      ELSE IF started[a.key] # None THEN "ambiguous"
      ELSE IF ~validate_for_commit(a, world[p], at[p]) THEN "rejected"
      ELSE "none"

Decide(p) ==
  /\ pc[p] = "decide"
  /\ attempt' = [attempt EXCEPT ![p] = attempts[presented[p].key] + 1]
  /\ outcome' = [outcome EXCEPT ![p] = EarlyOutcome(p)]
  /\ Goto(p, IF EarlyOutcome(p) = "none" THEN "reserve" ELSE "record")
  /\ UNCHANGED <<tokens, commitLog, lock, args, downstream, history, environment>>

\* AttemptStarted in the log.
Started(p) ==
  LET a == presented[p]
  IN  /\ attempts' = [attempts EXCEPT ![a.key] = attempt[p]]
      /\ started' = [started EXCEPT ![a.key] = a.id]
      /\ UNCHANGED <<staged, primary>>

\* Variant: the reservation is not written down.
Reserve_Forgotten(p) ==
  /\ pc[p] = "reserve"
  /\ Goto(p, "consume")
  /\ UNCHANGED <<tokens, commitLog, lock, args, attempt, outcome, downstream, history,
                 environment>>

Reserve(p) ==
  /\ pc[p] = "reserve"
  /\ Started(p)
  /\ Goto(p, "consume")
  /\ UNCHANGED <<tokens, lock, args, attempt, outcome, downstream, history,
                 environment>>

-----------------------------------------------------------------------------
(* Authorization, actuation.                                               *)

PutPaid(p) == paid' = paid \union {<<presented[p].auth, presented[p]>>}

ConsumeGranted(p) ==
  /\ pc[p] = "consume"
  /\ Consume(presented[p].auth, presented[p].binding, at[p])
  /\ PutPaid(p)
  /\ Goto(p, "actuate")
  /\ UNCHANGED <<commitLog, lock, args, attempt, outcome, downstream, receipts,
                 environment>>

\* Variant: the refusal is recorded without its outcome.
ConsumeRefused_NoOutcome(p) ==
  /\ pc[p] = "consume"
  /\ tokens[presented[p].auth].state # "absent"
  /\ Goto(p, "record")
  /\ UNCHANGED <<tokens, commitLog, lock, args, attempt, outcome, downstream, history,
                 environment>>

\* Any reason is evidence in the approval log and a rejected receipt here.
ConsumeRefused(p) ==
  LET t == tokens[presented[p].auth]
  IN  /\ pc[p] = "consume"
      /\ t.state # "absent"
      /\ rejection_reason(t, presented[p].binding, at[p]) # "none"
      /\ outcome' = [outcome EXCEPT ![p] = "rejected"]
      /\ Goto(p, "record")
      /\ UNCHANGED <<tokens, commitLog, lock, args, attempt, downstream, history,
                     environment>>

\* An unknown id is an error: commit returns it and leaves the attempt open.
ConsumeUnknown(p) ==
  /\ pc[p] = "consume"
  /\ tokens[presented[p].auth].state = "absent"
  /\ Return(p)
  /\ UNCHANGED <<tokens, commitLog, downstream, history, environment>>

\* actuator.commit: the downstream takes the request, unless it is simulated.
Actuate(p) ==
  LET a == presented[p]
  IN  /\ pc[p] = "actuate"
      /\ IF EffectMode(a) = "simulate"
         THEN /\ outcome' = [outcome EXCEPT ![p] = "simulated"]
              /\ Goto(p, "record") /\ UNCHANGED inflight
         ELSE /\ inflight' = [inflight EXCEPT ![a.key] = @ + 1]
              /\ Goto(p, "actuating") /\ UNCHANGED outcome
      /\ UNCHANGED <<tokens, commitLog, lock, args, attempt, applied, history,
                     environment>>

\* Variant: a timeout is reported as a failure before the effect.
ActuatorAnswers_TimeoutIsFailure(p) ==
  LET k == presented[p].key
  IN  /\ pc[p] = "actuating"
      /\ \/ /\ inflight[k] = 0
            /\ outcome' = [outcome EXCEPT ![p] = "committed"]
         \/ outcome' = [outcome EXCEPT ![p] = "failed"]
      /\ Goto(p, "record")
      /\ UNCHANGED <<tokens, commitLog, lock, args, attempt, downstream, history,
                     environment>>

\* Variant: after a timeout the actuator is called again.
ActuatorAnswers_Retry(p) ==
  LET k == presented[p].key
  IN  /\ pc[p] = "actuating"
      /\ IF inflight[k] = 0
         THEN /\ outcome' = [outcome EXCEPT ![p] = "committed"]
              /\ Goto(p, "record")
         ELSE Goto(p, "actuate") /\ UNCHANGED outcome
      /\ UNCHANGED <<tokens, commitLog, lock, args, attempt, downstream, history,
                     environment>>

\* Variant: the actuator is waited for as long as it takes.
ActuatorAnswers_NoTimeout(p) ==
  LET k == presented[p].key
  IN  /\ pc[p] = "actuating"
      /\ inflight[k] = 0
      /\ outcome' = [outcome EXCEPT ![p] = "committed"]
      /\ Goto(p, "record")
      /\ UNCHANGED <<tokens, commitLog, lock, args, attempt, downstream, history,
                     environment>>

\* A known result, a known failure, or a timeout: what comes later finds
\* nobody waiting.
ActuatorAnswers(p) ==
  LET k == presented[p].key
  IN  /\ pc[p] = "actuating"
      /\ \/ /\ inflight[k] = 0
            /\ outcome' = [outcome EXCEPT ![p] = "committed"]
            /\ UNCHANGED inflight
         \/ /\ inflight[k] > 0
            /\ outcome' = [outcome EXCEPT ![p] = "failed"]
            /\ inflight' = [inflight EXCEPT ![k] = @ - 1]
         \/ /\ outcome' = [outcome EXCEPT ![p] = "ambiguous"]
            /\ UNCHANGED inflight
      /\ Goto(p, "record")
      /\ UNCHANGED <<tokens, commitLog, lock, args, attempt, applied, history,
                     environment>>

\* The downstream system applies a request it has, sooner, later or never.
Downstream(k) ==
  /\ inflight[k] > 0
  /\ inflight' = [inflight EXCEPT ![k] = @ - 1]
  /\ applied' = [applied EXCEPT ![k] = @ + 1]
  /\ UNCHANGED <<tokens, commitLog, lock, caller, history, environment>>

-----------------------------------------------------------------------------
(* AttemptFinished.                                                        *)

ReceiptOf(p) ==
  [id |-> presented[p].id, key |-> presented[p].key, attempt |-> attempt[p],
   outcome |-> outcome[p]]

\* Variant: every receipt owns its key.
TakesKey_Always(r) == primary[r.key] = None

\* Only a receipt that ends a reservation owns the key, and only the first.
TakesKey(r) ==
  /\ started[r.key] # None
  /\ r.outcome # "duplicate"
  /\ primary[r.key] = None

Finished(p) ==
  LET r == ReceiptOf(p)
  IN  /\ attempts' = [attempts EXCEPT ![r.key] = r.attempt]
      /\ started' = [started EXCEPT ![r.key] = None]
      /\ primary' = [primary EXCEPT ![r.key] = IF TakesKey(r) THEN r ELSE @]
      /\ receipts' = receipts \union {r}
      /\ UNCHANGED staged

Record(p) ==
  /\ pc[p] = "record"
  /\ Finished(p)
  /\ Return(p)
  /\ UNCHANGED <<tokens, downstream, paid, environment>>

-----------------------------------------------------------------------------
(* Errors, deaths and the rest of the world.                               *)

\* The process dies, or a store operation fails, before its line reached the
\* log or after: commit is over either way.
Fails(p) ==
  /\ pc[p] # "idle"
  /\ faults < MaxFaults
  /\ faults' = faults + 1
  /\ Return(p)
  /\ \/ UNCHANGED <<tokens, commitLog, history>>
     \/ /\ pc[p] = "reserve" /\ Started(p)
        /\ UNCHANGED <<tokens, history>>
     \/ /\ pc[p] = "consume"
        /\ Consume(presented[p].auth, presented[p].binding, at[p])
        /\ PutPaid(p)
        /\ UNCHANGED <<commitLog, receipts>>
     \/ /\ pc[p] = "record" /\ Finished(p)
        /\ UNCHANGED <<tokens, paid>>
  /\ UNCHANGED <<downstream, now, epoch>>

\* A host mints for a known effect; the operator approves, rejects, revokes.
Authorize ==
  /\ \E id \in Ids :
       \/ \E b \in Bindings, d \in 1..MaxTime : Mint(id, b, d)
       \/ Approve(id)
       \/ Reject(id)
       \/ Revoke(id)
  /\ UNCHANGED <<commitLog, lock, caller, downstream, history, environment>>

\* The world is edited and compiled anew.
NewWorld ==
  /\ epoch < MaxEpoch
  /\ epoch' = epoch + 1
  /\ UNCHANGED <<tokens, commitLog, lock, caller, downstream, history, now, faults>>

Time ==
  /\ Tick
  /\ UNCHANGED <<tokens, commitLog, lock, caller, downstream, history, epoch, faults>>

Progress(p) ==
  \/ Acquire(p) \/ LockTimeout(p) \/ Decide(p) \/ Reserve(p)
  \/ ConsumeGranted(p) \/ ConsumeRefused(p) \/ ConsumeUnknown(p)
  \/ Actuate(p) \/ ActuatorAnswers(p) \/ Record(p)

Next ==
  \/ Stage
  \/ \E p \in Committers : Begin(p) \/ Progress(p) \/ Fails(p)
  \/ \E k \in Keys : Downstream(k)
  \/ Authorize
  \/ NewWorld
  \/ Time

Spec == Init /\ [][Next]_vars

\* A running process goes on.  The lock wait is bounded by the code; that the
\* actuator answers within its own timeout is asked of its implementation.
FairSpec == Spec /\ \A p \in Committers : WF_vars(Progress(p))

-----------------------------------------------------------------------------
(* Properties.                                                             *)

Places == {"idle", "wait", "decide", "reserve", "consume", "actuate",
           "actuating", "record"}

\* Every variable is of its type; in particular a committer that is in commit
\* has an artifact, and an outcome is one of the receipt's (staged.rs).
TypeOK ==
  /\ tokens \in [Ids -> Tokens]
  /\ now \in Nat
  /\ staged \in [EffectIds -> Artifacts \union {None}]
  /\ attempts \in [Keys -> Nat]
  /\ started \in [Keys -> EffectIds \union {None}]
  /\ primary \in [Keys -> Receipts \union {None}]
  /\ lock \in Committers \union {NoProc}
  /\ epoch \in Nat
  /\ pc \in [Committers -> Places]
  /\ presented \in [Committers -> Artifacts \union {None}]
  /\ \A p \in Committers : pc[p] # "idle" => presented[p] # None
  /\ at \in [Committers -> Nat]
  /\ world \in [Committers -> Nat]
  /\ attempt \in [Committers -> Nat]
  /\ outcome \in [Committers -> Outcomes \union {"none"}]
  /\ inflight \in [Keys -> Nat]
  /\ applied \in [Keys -> Nat]
  /\ receipts \subseteq Receipts
  /\ paid \subseteq Ids \X Artifacts
  /\ faults \in Nat

\* No interleaving of commits, deaths, failed appends and late downstream
\* answers asks the downstream twice for the effect of one idempotency key:
\* what the reservation before the actuator call is for (commit).
AtMostOnceApplied == \A k \in Keys : inflight[k] + applied[k] <= 1

\* Nothing is sent downstream but a persisted artifact, paid for with a spent
\* authorization of exactly its binding, which paid for nothing else: one
\* grant never moves two keys, and none of a world that was never in force
\* (commit, consume, validate_for_commit).
AppliedUnderConsent ==
  /\ \A k \in Keys : inflight[k] + applied[k] > 0 =>
       \E a \in Artifacts :
         /\ a.key = k /\ staged[a.id] = a /\ EffectMode(a) = "execute"
         /\ <<a.auth, a>> \in paid
  /\ \A x \in paid :
       /\ tokens[x[1]].state = "consumed"
       /\ tokens[x[1]].binding = x[2].binding
       /\ WorldEpoch(x[2]) <= epoch
       /\ \A y \in paid : y[1] = x[1] => y = x

\* A receipt in the log is true now and stays true, whatever arrives late:
\* "committed" was applied; "failed", "simulated" and a final "rejected" were
\* not and will not be; "duplicate" points at a known result (commit).
ReceiptsTruthful ==
  \A r \in receipts :
    /\ r.outcome = "committed" => applied[r.key] = 1
    /\ r.outcome \in {"failed", "simulated"} => inflight[r.key] + applied[r.key] = 0
    /\ r.outcome = "duplicate" =>
         primary[r.key] # None /\ primary[r.key].outcome # "ambiguous"
    /\ (r.outcome = "rejected" /\ primary[r.key] = r) =>
         inflight[r.key] + applied[r.key] = 0

\* Two receipts of one key never share an attempt number, from which, with the
\* effect id, the receipt's own id is made (receipt, apply_event): also when
\* an attempt died between its lines.
AttemptsDistinct ==
  \A q, r \in receipts : q.key = r.key /\ q.attempt = r.attempt => q = r

\* A request refused before its reservation leaves evidence but does not
\* poison the key: only a staged artifact that passed validation comes to
\* own it, unless what it ended like is unknown (the comment in apply_event).
KeyOwnedByStaged ==
  \A k \in Keys : primary[k] # None =>
    /\ \E s \in EffectIds : staged[s] # None /\ staged[s].key = k
    /\ primary[k].outcome # "ambiguous" =>
         staged[primary[k].id] # None /\ staged[primary[k].id].key = k

\* The promise for one key.
Fate(k) ==
  IF primary[k] # None THEN primary[k].outcome
  ELSE IF started[k] # None THEN "reserved"
  ELSE "open"

Fates == [k \in Keys |-> Fate(k)]

Promise == INSTANCE ReservedEffect WITH
  Effects  <- Keys,
  fate     <- Fates,
  happened <- applied

\* The store keeps the promise of ReservedEffect: reserve, then the effect at
\* most once, then one final truth (docs/staged-effect-commit.md).
ImplementsReservedEffect == Promise!RSpec

\* A commit always returns, also behind a committer that died with the lock or
\* an actuator that never learns what became of its request.
CommitReturns == \A p \in Committers : pc[p] # "idle" ~> pc[p] = "idle"
=============================================================================

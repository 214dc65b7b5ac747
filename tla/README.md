# A verification project for ai2rules

ai2rules ("harness") governs the tools of AI agents. A *world manifest* says which
tools exist, what each may do, what costs budget, and what a person has to
approve; a pure decision kernel answers every proposed call with ALLOW, DENY,
ASK, REPLAN or SIMULATE; hooks, gateways and an agent loop put that answer
between an agent and its tools. Two things make the answer worth something. The
decision itself must hold over a whole session, whichever host asks and in
whatever order the calls come; and the state around the decision (grants that are
used once, effects that happen once, taint and budgets that survive from call to
call, world files, installed hooks) must survive concurrent processes, deaths and
failed writes. This project models both.

The TLA+ modules here are translated from the source under `src/` (paths below
are relative to it; `crates/` is the Rust workspace). TLC checks small instances
of them, TLAPS proves the theorems for every value of the constants.

* [Inventory](#inventory)
* [Modules and how they correspond to the code](#modules)
* [Runs, bounds, fairness](#runs)
* [Where the code and its documents disagree](#findings)
* [What is proved, and how](#proofs)
* [What is only model-checked](#only-checked)
* [What is not modelled](#not-modelled)
* [Plan](#plan)

<a name="inventory"></a>
## Inventory

### Components, their state, and what makes them correct

| component | state it keeps | operations | hard because | correct when |
|---|---|---|---|---|
| **signed log** (`trace-store/src/chain.rs`; `open`, `reload`, `append`, `load`, `StoreLock` in `approval.rs` and `staged.rs`) | on disk: key file, log of MAC-chained lines, head anchor, lock file; in memory: the folded log and a high-water mark | open, append under the lock, reload | several processes, one file; a death between any two writes; power loss | the chain never forks, an acknowledged line is never lost and never un-anchored, a crash leaves a file that loads |
| **approval store** (`trace-store/src/approval.rs`, `harness-types/src/approval.rs`) | per authorization id: state, binding, expiry, remaining uses | mint, approve, reject, revoke, consume, mark_executed | consume races with consume, revoke and expiry | a grant is used once, for exactly what was approved |
| **staged effects** (`trace-store/src/staged.rs`) | staged artifacts, attempts and dangling attempts per idempotency key, terminal receipts | stage, commit (reserve, validate, consume, actuate, record) | a commit dies between any two of its steps; the actuator times out and answers late | an effect is applied at most once, under a consent of its own; every receipt is true |
| **MCP approvals** (`cli-harness/src/mcp_approval.rs`) | none of its own: the approval store | claim, finish, operator's `harness approvals` | two gateways see the same approved grant; the upstream dies after it was sent the call | one approval forwards at most one call |
| **world kernel** (`world-kernel`), **types** (`harness-types`) | none | classify, build the intent, taint floor, flow labels, rules, budgets, approvals, schema limits, lowering | order of the checks; scoped capabilities are second names of base actions | a tainted session reaches no external effect; nothing is laundered; a call runs as its capability is written |
| **gate** (`harness-preview/src/gate.rs`) | none: context in, context out | decide one call in a carried session context | many early returns, each with its taint and usage | the response's context follows the verdict |
| **compiler** (`compiler`) | none | manifest to compiled world | a scoped capability must not loosen its base | what validates means what it says |
| **MCP gateway** (`cli-harness/src/mcp_gateway.rs`) | session taint and usage, the upstream child and its tool map | initialize, tools/list, tools/call | state is charged before the outcome is known | budget and taint of a session follow what was forwarded |
| **host hooks** (`cli-harness/src/cc_hook.rs`, `agy_hook.rs`, `hostkit.rs`, `harness-preview/src/host.rs`) | per session: taint marker, usage sidecar | one process for each tool call: read, decide, write back, answer | side-by-side processes without a lock; a death between truncation and write; paths through links | taint is durable before an ingesting call runs; the budget binds; a path is judged where it leads |
| **decision log** (`cli-harness/src/outcome.rs`, `otlp.rs`, `replay_transcripts.rs`) | one file of decision and outcome lines | append a decision, append an outcome, join, export, replay a transcript | lines of parallel calls, of two registrations, and missing lines | no reader is told a lie |
| **broken-world modes** (`cli-harness/src/broken_world.rs`) | last-good copy of the world | load or fall back to closed, open, last-good | the world changes under a running hook | a broken world never widens what is allowed, unless its mode says so |
| **policy console** (`cli-harness/src/console.rs`) | the world file, a marker of the world that Stop replaced | Save, Stop, Restore | two files written one after the other | Restore returns the world that was stopped; "stopped" is true |
| **installers and doctor** (`cli-harness/src/init*.rs`, `doctor*.rs`) | settings files, shims, worlds, a managed kernel | init, init --user, init --managed, removal; doctor | files of somebody else, shared by scopes; a death between two files | who was told "governed" is; nobody's settings are lost; OK means covered |
| **agent loop** (`agent-core/src/orchestrator.rs`) | one run: taint, usage, argument provenance, one authorization | propose, decide, approve, execute, record | approval decided in one step, used in a later one | what ran was decided, recorded and charged |
| **executor** (`executor`) | none; for a command a process group | run an ExecutionSpec through its handler | partial failure; processes that outlive a command | only what the spec allows is reached; a killed command leaves nothing of its group |
| **records and replay** (`trace-store/src/record.rs`, `replay.rs`, `redact.rs`, `bundle.rs`) | JSONL traces | append, bundle, redact, verify, replay | a record keeps less than the decision read | replay says again what was decided |
| **commands** (serve, reports, demos), **provider-adapters**, **harness-wasm**, **govbench**, labs, add-ons, packaging | files they write | reports, conversion, benchmarks | none of the above | outside the governed path |

### How they interact

* The **compiler** turns a manifest into the world that every host holds for its
  life. A **hook** reads it anew for every call (through broken-world modes).
* Every host (gateway, hook, a host of the gate's ABI) carries a session's taint and
  usage into the **gate**, which asks the **kernel**, and stores the taint and usage
  of the response: hooks in two files, the others in memory. The **agent loop**
  asks the kernel directly and runs what was allowed through the **executor**.
* A gateway whose world asks for a person's consent goes to **MCP approvals**, which
  share an **approval store** with the operator's command line. Nothing but the
  log file and its lock connects them. The agent loop mints and claims in the same
  kind of store.
* A **staged commit** takes the commit log's lock, consumes a grant in the approval
  store (with that store's own lock inside), calls an actuator, and records the
  receipt before it releases the lock.
* Both stores are a fold of a **signed log**.
* The **console** rewrites the world file that hooks and gateways load; an
  **installer** writes it, the shim that starts the hooks, and the shim's mode.
* Hooks and the console write the **decision log**; reports, exports and the console
  read it while it is written.

### What is hard to test

`PROJECT.json` lists each hazard at its line. The main groups: a death between two
writes (log and head, truncation and counter, reservation and receipt, consumption
and forwarding, settings and shim, world and marker); two processes between each
other's steps (reload and append, claim and consume, two hooks of one session, hook
and console); late and lost answers (actuator, upstream, a command past its
deadline); state checked and then used (world epoch, world text, settings
document); what is charged or marked when a later step fails; and sessions in which
every call is fine by itself and their order is not.

<a name="modules"></a>
## Modules and how they correspond to the code

```
 stores                                            decision
 DurableLog   SingleUseGrant   ReservedEffect      ArgSchema <- Kernel <- Lowering <- Classify
     ^             ^                ^                    <- Gate <- Compile <- WorldTypes
 SignedLog     McpClaim        StagedCommit        paths and effects
     :             |                |              Executor <- HostPaths        Command
     :.........ApprovalStore......../
                                                   hosts
 hooks of one session                              HostWorld (WorldTypes, HostPaths)
 HookSession                                          <- GatewayHost, WireHost, HookHost,
                                                         Replay <- AgentHost (also Command)
 files                                             Filtered <- HookLog
 WorldFiles   Filtered <- Setup <- Doctor          Hosts (all five, and the properties)
        \_______  _____/
                Machine
```

`A <- B` means that B EXTENDS A; `^` that the lower module implements the upper, which
is abstract; `:` that the lower is why operations are atomic in the upper. `MCx`
instantiates x for TLC. `SignedLogProofs`, `McpClaimProofs`, `StagedCommitProofs`,
`HookSessionProofs`, `HostsProofs` and `MachineProofs` hold the theorems,
`HookLogProofs` the invariant of the log that HostsProofs ends with, and
`FilteredProofs` the lemmas on lists that it and MachineProofs need. `Filtered` is
what `retain` and `filter` leave of a list, defined by places and without recursion, so
that proofs can expand it.

### The stores

**SignedLog** has one action for each step of `open`, `reload` and `append` that
another process or a fault can see: `OpenKey`, `KeyWrite` (create_new, then write);
`OpenReadLog`, `OpenReadHead`; `Acquire`, `LockTimeout`; `OpenEnsure`, `OpenLoad`,
`OpenAnchor` (genesis head, load, re-anchoring of a log that is ahead of its head);
`Begin`, `Reload` (load plus `check_high_water`), `WriteText`, `WriteNewline`
(`writeln!` on an unbuffered file is two writes), `Sync`, `WriteHead`,
`HeadWritten`, `SyncParent`. Faults: `Kill`, `KillMidLine`, `Torn`, `IoError`,
`SyncParentFails`, `PowerLoss`. The MAC of a line is abstracted to the sequence of
payloads it authenticates, which is what an HMAC chain means without collisions.
**DurableLog** is its promise: one totally ordered sequence, each entry whole,
confirmed prefixes never lost, and a file that does not load confirms nothing more.

**ApprovalStore** has the states of an authorization instance (`tokens`) and the
store's operations: `Mint`, `Approve`, `Reject`, `Revoke`, `Consume`,
`MarkExecuted`, with `rejection_reason` in the order the code compares. An
operation holds the store lock from reload to append, so it is one step; SignedLog
and DurableLog are the reason that this is sound. That a *caller* may not learn of
a step that reached the log is modelled where the callers are: an append that
fails after the write is a separate outcome of the same action there.

**McpClaim** composes the store with gateways (`claim`, `finish`, and the arm of
`tools/call` that follows an ASK) and with operators. Actions: `Call`, `OpenStore`,
`OpenFails`, `ClaimGrant`, `ClaimRefused`, `MintGrant`, `MintFails`,
`AnswerPending`, `Reevaluate`, `Forward`, `ForwardFails`, `Reply`, `ReplyLost`,
`Finish`, `Crash`, `Operate`, `Time`. claim compares canonical hashes of request,
lowered call, upstream command and world; that is equality of bindings here. The
clock is sampled before the store is opened, as in the code (so a grant may be
consumed in the instant after its expiry). **SingleUseGrant** is the promise:
asked, granted or withdrawn, spent once, performed once and only when spent.

**StagedCommit** composes the store with `stage` and `commit`: `Stage`; `Begin`,
`Acquire`, `LockTimeout`, `Decide` (`validate_for_commit`, duplicates, dangling
attempts), `Reserve`, `ConsumeGranted`, `ConsumeRefused`, `ConsumeUnknown`,
`Actuate`, `ActuatorAnswers`, `Record`; `Fails` is a death or a failed append at
any of them, releasing the operating system's lock. `Downstream` is the system
that receives the effect and may apply it after the actuator gave up waiting;
`NewWorld` moves the epoch, `Authorize` mints and approves. The repository's fake
actuator is idempotent per key; the model's is any implementation of the trait,
so at-most-once does not rest on it. **ReservedEffect** is the promise for one
key: reserve before anything is sent, at most one effect, one settlement, which
is true ("ambiguous" being the only one after which the effect may still come).

### The decision

Everything here is a pure function, as in the code; an `Option` is a set of at most
one element, a failure to build or lower the empty set.

* **ArgSchema**: which schema keywords a world may use (`check_keywords`) and whether
  a JSON value satisfies them. Schemas nest three deep.
* **Kernel**: `build_error` (ontology, projection, capabilities, schema), the roles of
  arguments, `effective_floor_taint` and `taint_floor`, `check_flow` with sinks
  and inherited labels, `evaluate` (transition policies, approval, budget) in the
  kernel's order, `budget_exceeded` and `charge`, `result_label_floor`.
* **Lowering**: what runs: `effective_params` of a scoped capability, and
  `build_execution_spec` per backing.
* **Classify**: `classify_call`: command classes over compound lines (operators,
  quotes, substitutions), path classes with globs, roots by the innermost rule.
* **Gate**: `gate`: the early returns, the channel, the flow sidecar, the decision,
  path scope, and the taint, labels and usage of the response; `project`.
* **Compile**: `validate` and `compile` of a manifest, with the resolution of roots.
* **WorldTypes**: what a manifest, compiled world, request, response, outcome and spec
  may be. Its predicates state the type invariant of the hosts and the assumption on
  `Manifests`.

**Executor** is what an ExecutionSpec does: the closed registry with its drift
check, `execute` and `simulate` of each handler, the containment of paths through links
(`canonicalize`, `resolve`, `contained`) and the egress check on URLs. A run is a
set of possible results, since files, processes and servers may fail, also after the
effect. **Command** is `run_with_timeout` with what it cannot control: a child in a
process group, descendants that leave the group or close the pipes, readers that end
when nobody holds a pipe, the poll loop (`Polls`) and its deadline, `kill_tree`.
**HostPaths** is how a hook makes canonical paths of a manifest's and a call's. A path is
walked by a function on its places (`Followed`, `Pinned`, `Reached`), not by a recursive
operator, so that proofs can walk along.

### The hosts

**HostWorld** starts a session: a manifest, compiled; it also has what the
properties are stated with (who said a value, what a call counts).

* **GatewayHost**: `tools/list`, `tools/call` with each verdict, `CallNotForwardable`
  (the charge put back), the upstream's answers and its end.
* **WireHost**: a host that carries labels over the gate's ABI, one that leaves parts
  of the context out, and one that shows ASK in a prompt of its own (as hooks do).
* **AgentHost**: `run`, `resolve_approval` (`CallAsks`, `Declined`, `ClaimFails`,
  `Claimed`) and `run_allowed` (`Returned`, `Errored`), with the provenance of
  arguments by text; a command it runs takes the steps of Command.
* **HookHost**: one call from the host's spelling of tool and arguments to the answer
  and what the host makes of it (`HostRuns`, `HostSkips`, `ToolReturns`), and the
  session files as far as calls in sequence see them; also the session that
  `replay_transcripts` carries from call to call.
* **Replay**: what a record keeps (`ContextSnapshot`, redaction) and the decision
  made again from it.
* **HookLog**: the lines of hooks and observers of parallel calls, under one or two
  registrations, and what `join`, `export` and the transcript report make of them
  at any time.
* **Hosts** runs one of these at a time (`host`) and has the properties, stated about
  the calls that are running, by whatever host.

**HookSession** is the two session files and overlapping hook processes around them:
`Invoke`, `ReadTaint`, `read_usage`, `CreateUsage` (`File::create` truncates: the
sidecar does not parse until it is written), `WriteUsage`, `persist_taint`,
`Answer`, and the faults `UsageFails`, `TaintFails`, `Die`. `verdict`, `out_usage`
and `out_taint` are the gate's answer as far as the session state depends on it. What
the host does with an answer other than ALLOW is in HookHost and WireHost.

### The files

**WorldFiles**: the world file, the decision log with the console's markers, the
last-good cache. A hook is `Read`, `Remembers`, `Differs`, `Remember`, `FallsBack`,
`Unworlded`, `Decide`; the console `Load`, `Write`, `WriteFails`, `Record`,
`RecordFails`, `ConsoleDies`; anybody may `Edit`.

**Setup**: the installers of three scopes over settings documents, shims, worlds and
the managed kernel. An installer plans by reading everything, then applies file by
file and may die after any; between two installers anybody may change anything.
**Doctor** is the reader: the findings of each section and their reduction to a
status, over the same files. **Machine** ties them to WorldFiles: the project is
opened with the mode its installed shim carries.

Definitions named `X_Something` are variants of `X`: the same handler with a
plausible bug in it. No specification uses them; they are what each property is
tested against (`mutants` in `PROJECT.json`).

<a name="runs"></a>
## Runs, bounds, fairness

| run | instance | properties | shows |
|---|---|---|---|
| `signed_log_crash` | 2 processes, 3 lines, 2 faults of kill, torn line, I/O error | ChainNeverForks, MarksWithinLog, AckMeansLoadable, ImplementsDurableLog, OperationReturns | the file is a durable log whichever process dies where |
| `signed_log_power` | the same, with power loss and deaths inside a line; symmetric processes | SlackCoversOneFault, AckedNeverLost | one fault leaves a log that loads, unless it left a partial line or a short key; an acknowledged line is in whatever still loads |
| `signed_log_slack` | 2 kills | SlackNeverAccumulates (violated) | finding 1 |
| `signed_log_midline` | 1 death inside a line | AckMeansLoadable (violated) | finding 2 |
| `mcp_claim` | 2 gateways, 2 ids, 1 effect, lifetime 1, clock to 1, 1 crash | TypeOK, OnceForwarded, ExecutedMeansReplied, CautionGiven, ImplementsSingleUse, CallAnswered | one approval forwards at most one call; no call is left hanging by the gateway |
| `staged_commit` | 2 committers, 4 artifacts that share ids, keys and one grant, 2 keys, 1 fault | TypeOK, AtMostOnceApplied, AppliedUnderConsent, AttemptsDistinct, KeyOwnedByStaged, ImplementsReservedEffect | at most one application per key, each under a consent that only it used |
| `staged_return` | a payment and a simulate-only rehearsal in two successive worlds | AppliedUnderConsent, ReceiptsTruthful, CommitReturns | receipts stay true, an old world's effect is not committed, each commit returns |
| `hook_session` | 2 overlapping hooks, 4 kinds of call, budget 2, 4 calls, 2 faults | FloorAfterIngest, BudgetBinds | the taint floor holds whatever fails; hooks in sequence keep within the budget |
| `hook_restart` | the same with 1 fault | BudgetNeverRestarts (violated) | finding 3 |
| `hosts` | every host over two worlds: one in front of an MCP server (8 base actions, 3 scoped capabilities, contracts) and one of local actions (classes, roots, links, budgets); and the decision log | TypeOK, FloorAfterIngest, ScopedAsWritten, SinksHold, BudgetKept, ReachConfined, CommandContained, RunUnderGrant, ReplayReproduces, LogTruthful | what runs, in any order of calls, keeps the floor, the scoping, the sinks, the budget, the roots and the approvals; what is recorded decides it again |
| `asked_floor` | the same worlds | AskedFloor (violated) | finding 4 |
| `machine` | 3 scopes, 2 installer runs, 1 change by others; then 2 hooks, 2 world paths, 3 console requests, 1 edit | OwnWorldGoverns, StoppedHolds, RestorePutsBack, CoverageKept, DocumentKept, DoctorTruthful | files that several programs share, replaced one by one, with deaths and failed writes anywhere |

**What the properties of `hosts` and `machine` say.** They are stated about the world
outside the code's own records, so that no guard implies them by itself:

* `FloorAfterIngest`: once the *session* was given untrusted content (a history of what
  tools returned, not the taint the host carries), an effect that leaves it runs only
  with every authority-bearing argument chosen by the world, the user or a trusted label.
* `ScopedAsWritten`: what a capability runs with, compared to the manifest's text.
* `SinksHold`: marks follow values (who said a text), labels follow the code.
* `BudgetKept`: the carried usage equals a count of what ran, also after a refund.
* `ReachConfined`: the file that is *reached* (through links, aliases, missing folders),
  and the host that a client of a URL would connect to. A call that a hook lets through a
  link to nothing (`LedToNothing`) is excepted by name: see "Also worth knowing".
* `RunUnderGrant`: approval required by the manifest of the base or the capability, by
  a definition that does not go through the compiled world.
* `ReplayReproduces`: up to the two losses a record has by design, which it names.
* `CommandContained`: what a killed command leaves running.
* `LogTruthful`: what a reader infers against what the person and the tool really did.
* `OwnWorldGoverns`, `RestorePutsBack`: which text a hook judged by, what Restore writes.
  `StoppedHolds`: while the page says "stopped" of a file that compiles, a hook that has read that
  file lets a call with an effect past it only by leaving a hidden action to the host's own prompt
  (`LeftToPrompt`), and not once the log says otherwise. A file that parses and does not
  compile is excepted by name: the page may go on saying "stopped" of it.
* `CoverageKept`: an installer that ended well leaves calls covered, until somebody else
  touches something; no scope is registered without its shim and world.
  `DocumentKept`: the hooks of others and their other keys are never lost, and where
  nothing of ours is registered any more, the entries are those of the owner, in order,
  but for entries without hooks. `DoctorTruthful`: exit 0 means
  covered, whatever the history; `Unseen` names what doctor cannot see: hooks that are disabled,
  a kernel that does not start, and a shim that was edited but keeps the words it looks for.

**Bounds.** Two processes are enough for every interleaving the code
distinguishes: a lock has a holder and the others, a reader has one writer that
overtakes it. Three log lines let the head be two behind, which is the
first distance `verify_head` refuses. Two ids let a request find a second grant
for the same effect while the first is spent, which `CautionGiven` is about. The
four contested artifacts are the four ways of asking for one effect twice: the same
grant under a new key, the same key under a new id, a copy whose key was changed
after staging, and the payment itself. In `hook_session` the budget of 2 with 4 calls
exceeds it by two. In `hosts` the budgets are 1, so that a second call of a kind meets the limit;
`MaxForwards` = 3, `MaxCalls` = 3, `MaxRuns` = 4 and `MaxSteps` = 4 let a session read
something private, something untrusted, pass it through a local action and then try a sink. `MaxDescendants` = 2
kinds of descendants of a command (left the group or not, holds a pipe or not; alike
ones are one) is the least that has one which holds the reader and one which the kill
must find. Two log calls, with one or two registrations, overlap in every order. The tree of
files has a link to a folder and one to nothing, which a hook's patches go through. In `machine` two installer runs are
the least in which one undoes or upgrades the other's work; three console requests
are Stop, a Save and Restore. The one edit writes any of four texts: no world, a world with
other flags and a capability, and two that parse and do not compile, one of them with every effect hidden.

Fault bounds are of two faults wherever one fault prepares the
ground for the next (log, hooks); in StagedCommit one death leaves the dangling attempt that
the second committer meets. An installer or the console may die in every run of
it. Every bound is a
constant that guards the environment (`MaxLines` on new appends, `MaxCalls` on new
calls, `MaxAttempts` on new commits, `MaxTime` on the clock, `MaxEpoch` on the
operator, `MaxFaults`, `MaxCrashes`, `MaxLogFaults` on faults, `MaxInstalls`, `MaxChanges`, `MaxEdits`,
`MaxRequests` on people), never the code's own steps, but for `MaxSteps`, which is the
code's `max_steps`. Because
behaviours end when the environment does, the configurations turn deadlock checking
off; the liveness properties say that nothing is left waiting.

Hosts are checked one at a time in one run: they share no state but the world, which none
of them writes. Symmetry is used only in runs without liveness properties, over processes
that no constant and no `CHOOSE` tells apart.

**Fairness.** Weak fairness of each process's own steps, nothing else:

* SignedLog: `WF(Step(p))`. A process that holds the lock keeps running, or dies,
  and then the operating system takes its lock; a process that waits gives up after
  five seconds (`LockTimeout`), so no fairness between lock seekers is needed.
* McpClaim: `WF(Own(g))`, without the upstream's `Reply` and `ReplyLost`:
  `Upstream::rpc` reads without a timeout, so a silent upstream holds a call for
  ever. `CallAnswered` therefore promises an answer *or* a live upstream that
  has the call. Operators are not fair either: a claim never waits for a person.
* StagedCommit: `WF(Progress(p))`. The lock wait is bounded by the code; that
  the actuator returns within its own timeout is what the trait's documentation asks
  of its implementers.
* The hosts, hooks and files have no liveness property. A hook, an installer or the
  console that is killed owes nothing; a session goes on as the model or person
  likes. That a command comes back is not a promise the code can keep: see
  "Also worth knowing".

<a name="findings"></a>
## Where the code and its documents disagree

1. **The head's slack does accumulate** (`signed_log_slack`). `chain.rs:19-21` says a
   log one line ahead of its head is re-anchored by `open`, "so the slack never
   accumulates". A store that is already open does not re-anchor: `reload`
   (`approval.rs:388-392`, `staged.rs:367-376`) drops `ahead`. A process dies between
   line and head; another, already open, appends a line and dies at the same
   place: two lines past the head, and the log never loads again.
2. **A tolerated tail is refused one append later** (`signed_log_midline`).
   `approval.rs:496-498` says a crash mid-append leaves at most a tail that is refused
   or tolerated. A death between the text and its newline leaves a tail that
   loads; the next append returns Ok and puts its text on the same line.
3. **A damaged sidecar restarts the budget** (`hook_restart`). `cc_hook.rs:333-334` says
   a corrupt sidecar "fails closed rather than silently restarting the budget at
   zero". The call that meets it is refused, with zero counters in the response,
   and the hook writes these back (`cc_hook.rs:411-414`, `agy_hook.rs:358-361`): the
   next call has the whole budget.
4. **A person's yes brings content in unseen** (`asked_floor`).
   `docs/compliance-evidence-map.md:58` says that a session that read untrusted content
   cannot reach the network, and that a human approval cannot override it. A call
   answered ASK, and run by the host on a yes in its own prompt, is neither
   charged nor marked (`gate.rs:580`), so the session stays clean after it.

Also worth knowing; these were met while reading, and no run is given to them:

* Stores: an attempt left dangling can be settled as "ambiguous" by presenting an
  artifact with its key that was never staged. A grant may be consumed just after its expiry,
  because the clock is read before the store is opened. `store.rs:3-4` says
  a crash leaves a prefix of valid lines; a torn last line makes `read` fail as a whole.
  The signing key is created without the lock and is never synced (`approval.rs:601-604`): a death before
  its bytes are written, or a power loss soon after, leaves a short key for good. Nobody opens the store
  then (`SlackCoversOneFault` excepts it by name), and deleting the key, as the error advises
  (`approval.rs:588`), makes every line it signed unverifiable.
* Paths: `hostkit.rs:127-128` says that links "cannot choose their own root", `166-168` of the part of a
  path below its nearest existing ancestor that "none of them can be a symlink". A link whose target is
  not there does not resolve either, so it counts as part of that tail and is judged in the folder it
  stands in (`hostkit.rs:180-192`), while a tool that writes through it makes its target, wherever that
  is. (A tool that writes a new file beside it and renames replaces the link instead.) The run `hosts` has such calls, and
  `LinksChooseNoRoot` fails of them; where no link leads to nothing `LinksKeepRoots` proves it.
* Hooks that run side by side lose each other's charges (both read, both write), so the
  hook budget is a promise about hooks in sequence only, which is what
  `BudgetBinds` states. A slow hook may remember an older world after a newer one.
* Command: the "hard timeout" of `command.rs:1` ends the child, not the wait. `join` on a
  reader waits for every holder of the pipe: a background process of a child that
  ended by itself (line 139), or one that left the group (line 157), holds the
  handler for as long as it lives. A `try_wait` that fails returns and leaves the child
  running. The file's header still says that only the direct child is killed.
* Gateway: without an `mcp_surface`, an action without a backing counts as a local
  handler, though the gateway forwards it, so its result does not mark the session
  (`gate.rs:504-513`; D50 in `DECISIONS.md`). The gateway does not resolve roots.
* Agent loop: it asks the kernel directly, so roots do not apply to it; an
  executor's error text reaches the model without marking the session
  (`orchestrator.rs:567`); the error of `mark_executed` is dropped.
* Policies: a transition policy that answers ALLOW decides before approval and budget
  (`disposition.rs:87`): `AllowMeansAll` has the hypothesis that there is none.
* Console: the page only parses the world (`console.rs:271-277`, `493-531`), a hook compiles it. A stopped
  world that is edited to one that parses and does not compile stays "stopped" by an old refusal, while hooks
  answer by their broken-world mode: `open` lets an effect pass. `docs/demos/policy-console/README.md:255-262` says that
  every effect is absent then, and `DECISIONS.md:3549-3551` that an old refusal cannot prove what was
  added since. The page's warning about a broken world shows beside it, once such a call was logged. A Restore of the
  same flags ends such a Stop with a marker; one that changes a flag is refused (`console.rs:655-671`).
  A death between the world and the marker leaves a Stop that Restore does not
  know (D85).
* Installers: `init` exits 0 and says "Governed" although `disableAllHooks`, a kill
  switch, a kept world that does not compile or a bad `HARNESS_BIN` leaves calls
  uncovered (`init.rs:225`); a settings file it cannot read is taken for absent and
  overwritten (`init.rs:232`); an edit between plan and apply is lost; at home, `init`
  turns the user's hook into the project's; `init --user` upgrades a project-style
  hook in the user's settings and removal then deletes it (`init_machine.rs:449-456`).
  Removal leaves everything else "as it was" (`init_machine.rs:450`), but
  an owner's own entry with an empty list of hooks goes too (`init_machine.rs:482-486`).
* Doctor: `doctor_collector.rs:266` says that the shim of `init` is recognized exactly; `parse_current_init_shim` (`296-334`)
  looks for three words, a quoted `TRUSTED_BIN` and a line that tests an off file. A shim that exits before
  its `exec`, or names another world, keeps them: exit code 0, and the calls pass or another world decides
  them. It also says OK when the baked kernel is there but cannot be executed, or when
  hooks are disabled altogether; a legacy `.claude/gate-off` makes it say DISABLED
  though the shim never looks (`doctor_collector.rs:597`, `doctor.rs:842-849`); its
  comment ranks error over disabled, its code the other way (`doctor.rs:1080-1086`).
* Replay: "same world, all matched" (`replay.rs:37-38`) does not hold where the marks of an
  argument decided, or where redaction masked a value that a schema checks. The join of
  outcomes reads a lost line, another hook's deny or a hook that was killed after its line
  as an answer of the person, and says "inferred"; `replay_transcripts` keeps only
  the last decision of a call, so that with two registrations it may hide one.
  `ReplayReproduces` and `LogTruthful` are stated up to exactly these.

<a name="proofs"></a>
## What is proved, and how

The theorems hold for any number of processes, ids, keys, artifacts, calls, files and
faults, and the ones about hosts for every manifest, request, script and proposal, from
the named assumptions on the constants (`NoProcAssumption`, `NoHeadAssumption`,
`FaultsAssumption`, `BoundsAssumption`, `StoreAssumption`, `ClaimAssumption`,
`StagedAssumption`, `HookAssumption`, `FilesAssumption`, `TextsAssumption`,
`CommandAssumption`, `LogSettingsAssumption`, `OverAssumption`, `PlacesAssumption`, `GatewayBound`,
`WireBound`, `AgentBound`). They say that sentinel values are not members of the sets they
are sentinels of, that bounds are naturals, and that artifacts, bindings and world texts
have the shape of the Rust structs. `DocumentsAssumption` says the same of settings documents, and that
the ones nobody has installed into name no hook of ours. Three more are about a session's inputs:
`ManifestsAssumption` (every manifest has the shape of `WorldManifest`, invalid ones
included), `RequestsAssumption` (under a manifest that validates a call has a tool name, one path at most, and
arguments that are JSON values, each of one kind, so that values can be compared) and `HooksAssumption`
(the same of the calls a hook is given, whose arguments are an object). `FileSystemAssumption`
says what a tree of files is: a file or link has a name and stands in a folder, and is one of
the two. TLC evaluates all of
them on every run whose modules declare them. Hypotheses that are not assumptions on types are in the
theorem's statement, and are named below.

**SignedLogProofs**: `KeyAlwaysWhole`, `NoFork`, `NothingAckedIsLost`, `MarksAlwaysWithin`,
`OneFaultCovered`, `AcksLoad`, `LogRefinement`, over `LogInvariant`. `LogInv` is
inductive under every fault the model has. None of the properties is inductive: they say
nothing of where a writer stands. `WriterAt` says for each place of `append` and
`open` what is between the file and the line that is to be written (the holder of
the lock alone has a line in the log that is not anchored); `LogShaped`, that the lines chain and only the last one can be
broken; `AckedSynced`, that an acknowledged line is under the synced mark, unless the log is
`Dead`: its last line is garbled for good, by a death between the text and its
newline and the next append after it, and no load accepts anything more. Three invariants stand on it, each for the faults it holds under:
`MarksReached` (without power loss the log reaches the head and every mark an
instance has seen, and the head anchors all that was acknowledged), `SlackLeft` (up to the first
fault, of whatever kind, the log is ahead of its head by the line somebody is writing and the one the fault left) and
`WholeWrites` (where no write is cut before its newline and none is taken back, a line is unended only
while its writer is about to end it, so that no text lands while its writer is about to end it, so that no text lands on another line). The last gives
the refinement of DurableLog. `OneFaultCovered` excepts the faults that leave a partial line or a
short key; without power loss `KeyAlwaysWhole` says that nobody works under a short one (`KeyWhole` adds
the head that is on disk, which a later step could bring back).

**McpClaimProofs**: `TypeCorrect`, `AtMostOnceForwarding`, `NothingSentUnspent`,
`ExecutedIsEvidence`, `ForwardedIsApproved`, `Refinement`, `UnknownOutcomeSaid`.
`OnceForwarded` is not
inductive: nothing in it prevents two gateways from holding the same claimed grant.
The invariant `Claims` adds what the store's atomic consume buys: `ClaimHeldAlone`
(between claim and answer a grant has one holder), `ClaimProgress` (before
`Forward` it is consumed and has sent nothing, after it it has sent one), and the three
properties. Consume is the only way to become a holder, and it requires "approved",
which no held grant is. The refinement is a step for each action: every one is
Ask, Grant, Withdraw, Spend, Perform or a stutter of `SingleUseGrant`. The caution an
answer carries follows from `SpentRemembered`: a grant that was spent when the request came was bound to
the same effect and stays spent, and as long as its outcome is open the gateway has the caution on.

**StagedCommitProofs**: `StagedTypeCorrect`, `AtMostOnceApplication`,
`CommitRefinement`. The invariant `CommitInv` says what a key's records tell about
the world: `KeyTruth` (never more than one request for a key; none sent or applied while the key is open;
what the terminal receipt says is what happened) and `CommitProgress` (the committer past the reservation is the holder of the
lock, its attempt is the dangling one, and whether its effect was sent follows from
its place). The lock (`LockHeld`) makes that committer unique; without the reservation
written first, a death would leave an open key with an effect in flight.
`ReceiptsToldApart` comes from `NumberInv` (no receipt's number
exceeds the key's attempt count, and the attempt in progress is above every receipt of its
key), `ReceiptsStayTrue` from `CommitInv` and `OwnerInv`, `KeysNotPoisoned` from `OwnerInv`
(`ReceiptOwners`: a receipt that settles a key is the key's; `ReservedByStaged`: a
reserved key is a staged artifact's; `Founded`: from the reservation to the answer
of the actuator a committer holds the staged artifact itself). `ConsentBehindEffects`
comes from `ConsentInv`: a committer at the actuator has just consumed an authorization that is bound to
exactly its artifact, which no earlier effect was paid with.

**HookSessionProofs**: `HookTypeCorrect`, `FloorHolds`, `BudgetHolds`. The floor
needs `Marked` (an ingesting call is let through only when the marker is on disk)
and `Informed` (a hook that started after it read the marker). The budget needs
`Alone` (hooks in sequence: one is running at a time), `KeepsUp` (the sidecar does not
count less than was let through) and `Counted` (what a hook in the middle of
writing read, and what it left on disk).

**HostsProofs** begins with the decision itself, for every world, call and context:
`FloorStands` (what the taint floor refuses is never sealed, whatever policies and
approvals say), `AllowMeansAll` (an ALLOW implies ontology, projection,
authority, schema, flow, floor, approval and budget, all of them, and that no transition policy speaks of
the call, unless a policy of the world allows outright), `ChargeWithin` (what was admitted and charged is within the
budget), `SinksTake` and `NothingLaundered` (labels at sinks and of results),
`TaintOnlyTightens` (what is decided ALLOW in a context stays so in one that differs in less taint only). The
last needs a hypothesis on the policies: one that speaks of clean contexts may refuse there what it lets pass in a tainted one.

It carries that over whole sessions of all five hosts, for any manifests.
Every proof starts from `WorldKnown`: the world of a session is compiled from a
manifest that validates, and stays what it was. There is an invariant for each host and
property, since hosts carry their context in different places, and a step for each
action of each host.

* `GuardedRunUnderGrant` and `BudgetStaysKept`, from `GatewaySafe`, `WireSafe`,
  `AgentSafe` and `HookSafe`: a call that was decided and has not run yet was decided in
  this world with the usage that is still carried; what ran is what was counted. The first has the hypothesis
  `ManifestsTighten`, no transition policy decides Allow: such a policy comes before
  approval and budget (`disposition.rs: evaluate`), and a world that has one asks for exactly that.
* `RecordsReproduce`: a record holds the call, context, answer and decision of
  the world its bundle compiles to, and a transcript what is on disk.
* `CommandTyped` and `CommandStaysContained`. `CommandContained` lacks
  what the kill starts from: that a handler about to kill is past its deadline
  (`Contained`). After the kill only those who left the group are there to start others, and
  these start outside it. `SessionsContainCommands` is the same of the commands of the agent
  loop.
* `FloorStaysAfterIngest` and `SinksStayHeld`, from `HostsHeard`: what a session has heard is in the context the next call is
  decided in. For the wire that is three statements (`WireBooks`, the runtime's record of each pending call; `WireRuns`,
  what it has run; `WireAsked`, what waits for a person), since marks arrive with the result, after other calls were decided.
  The hypothesis `SessionFits` says what the
  hosts cannot see for themselves: `WireNamesFiles` (the file a request touches is the one its call names), `HooksNameSources`
  and `HooksOwnTools` (a hook's call that touches a file whose class taints names it, and is not classified as a scoped capability: a hook can only let run what the
  model proposed, `cc_hook.rs:140`), and `ContractsOwnUp` (a local action
  whose side effect taints declares an Untrusted result; `loader.rs:279` asks that only of
  actions with an MCP backing).
* `CapabilitiesRunAsWritten`, from `ScopedRuns`: what runs is the lowered request, an asked call's effective call was
  admitted, and an answer that only tells a host to go on concerns no capability. It rests on
  `EffectiveIsScoped` and `AdmittedIsShown` (the literals of the world and the slots of the
  caller, the client's arguments as it was shown them) and, of the hypotheses above, needs only `HooksOwnTools`.
* `ReachStaysConfined`, from `HostsReach`: whatever was allowed, and waits or runs, keeps to the roots
  of the world (`KeepsRoots`); what a handler will do is known from its spec (`RunReaches`: a patch lands under a
  writable root, a fetch connects to a host that the egress check took, `ReachedIsLookedUp`). It goes
  through every step a path takes: `FollowedIs` (links), `ContainedIs` (what is contained
  is no link), `RootsKnown` (roots are expanded and canonical), `InnermostIs` (the rule the code
  picks is the innermost one) and `ScopeKeepsRoots`. The recursion over a path is on its places, which are
  finitely many, so that `WalkIs` of FilteredProofs can follow it. Hypotheses: `RootsExist` (the writable roots
  of the executor are there), `FilesNamed` (the gate is told the file that a call
  touches: `HooksNameFiles` and `WireNamesFiles`), `RootsAreApart` (of two roots with
  one path that differ in what they let, the later decides, `compiled.rs: best_root_rule`) and
  `EffectsFitTypes` (an action that writes files is of type Write or Patch: the roots look at the type alone).
  `HooksNameFiles` excepts the calls that go through a link to nothing, as the property does (`HookConfined`).
* `LinksKeepRoots` derives `HooksNameFiles` instead of assuming it: the path that is judged is the one that
  is opened, unless its way leads through a link to nothing (`PinnedIsReached`), for tools that open
  what their call names. Where no link does (`NoLinkDangles`) it proves `LinksChooseNoRoot`, which fails without
  that hypothesis.
* `SessionsTyped`, from `HostsTyped`, with no hypothesis. `TypeOK` is not inductive: it types the first request of a
  session and the calls that wait, while every later request is made of what the gate handed back before. So it
  rests on what holds of any world and request: `WorldCompiled` (a manifest that validates compiles to a world
  whose tables have a row for every action and name nothing else), `OutcomeTyped` and
  `GateTyped` (in such a world, whatever the kernel or the gate are sent, they answer in kind: a refusal has its
  rule, a call is handed back exactly when it may run or be asked for, the counters stay counters); and
  `GateShows` and `LoopShows`: what is let pass is what discovery shows this session. `HostsTyped` then says of each
  host that what it keeps makes the next request one of the gate (`GatewayRequestTyped`,
  `WireRequestTyped`, `HookRequestTyped`; the last goes through alias names and paths) and that it runs one call at most,
  which for the agent loop is that a call is lowered to one spec at most (`SpecOnce`).
* `LogNeverLies`, from `LogSound` of **HookLogProofs**, which every step of the log keeps. `LogTruthful` speaks of what a reader infers from the lines; the invariant says of
  each line what it is evidence of (`LineTrue`: a decision is an answer that its hook gave, whether
  or not the host heard it; an outcome is how the call ended), of each call what must have been said by
  where it stands (`CallTrue`: an ended call has its outcome line, or an observer that
  has not written yet or never will; nobody ran against an answer that was heard), and that one
  registration judges a call once (`JudgedOnce`). The lemmas on the reader, `join`, `export` and the
  transcript, then hold for every list of such lines, since they filter by places.

**MachineProofs** is about WorldFiles and, through `MachineInv`, the machine that was set up
first: `OwnWorldAlwaysGoverns` from `Governance` (the cache and every hook in flight hold
a text that was compiled from their own path), `StoppedAlwaysHolds` from `Evidence`
(what the log says of a logged answer is that answer, and a hook that read the governed
file since it last changed goes by its text, or by its mode if that does not compile), `RestoreAlwaysPutsBack`
from `StopKept` (the open Stop's marker is the text it replaced). The machine's steps are the files' steps once opened, and
leave them at rest before.

The rest of the module is about setting up:

* `CoverageStaysKept` and `DocumentStaysKept`, from `SetupSound`. Neither property is inductive: an
  installer plans first and writes later. `InstallerSound` says how far it has come, file by
  file, what each file it has written holds by then, and that as long as it is alone what it read is still
  what is there; `PromiseKept`, what the words "Governed" rest on, part by part (registration for every
  tool, shim, kernel, switches, world); `ScopeSound`, that in an untouched scope the registration goes in last and out
  first; `FromOwner`, how a document that was written comes from its owner's: the
  same hooks of others, and, if the owner's names none of ours, its entries in their order with at
  most one of ours behind them. Merging and removing keep it for every document, of any length.
* `DoctorStaysTruthful` needs no history: from the types of the parts alone (`PartsTyped`) the findings of each
  section and their reduction agree with what the shim does, so that it holds of any files while no installer
  is under way, not only of those installers and people lead to, up to the exceptions the property names: `Unseen`, the cache
  of another world, the old switch.

**FilteredProofs**: `WalkIs` (a function that goes from place to place exists and is what its
equations say) and `FilteredIs` and its corollaries say where in the filtered list each element that stays
is, that the order is kept, what it begins with, and what appending does to it. It stands on the
order of places in a finite set (`RankPlaces`).

What the operations of ApprovalStore keep is stated at the head of McpClaimProofs and of
StagedCommitProofs, each as far as it needs it: the types, the grants that were spent, and that
what is spent was given for the very effect.

<a name="only-checked"></a>
## What is only model-checked

Every invariant that a passing run checks is proved, and so are its action properties. What is left:

* Liveness (`OperationReturns`, `CallAnswered`, `CommitReturns`): the proof system does
  not reason about ENABLED.

<a name="not-modelled"></a>
## What is not modelled

* The HTTP server of the console, its token, its page and its event feed; `serve`,
  reports, stories and demos; drafts of worlds; argument parsing: they present or
  start what is modelled.
* The YAML reader, JSON framing, provider adapters and the WebAssembly binding: format
  conversion. A turn the adapter cannot read is `TurnMalformed`.
* The benchmark, labs, add-ons, packaging, scripts and prose: outside the governed path.
* In what is modelled: cryptography and hashes (a MAC is what it authenticates; equal
  hashes are equal texts), serialisation, the wording of answers, truncation of
  output, the command handler of other systems than Unix, two installers at the same
  instant, replaced directories, which commands a model-made shell line really starts
  beyond operators, quotes and substitutions.

<a name="plan"></a>
## Plan

Done: the stores and their clients; kernel, gate, compiler and executor; every host; the
decision log; installers, doctor, console and broken-world modes.

1. **Hosts**: two sessions of different hosts over one project (a hook and a gateway
   share worlds and logs, not session state); the gateway's claim as McpClaim's step.
2. **Setup**: two installers at the same instant.

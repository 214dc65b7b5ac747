SPECIFICATION Spec
CONSTANTS
  BadShape = BadShape
  BadLabel = BadLabel
  Unbalanced <- MCNone
  Inside <- MCInside
  Opaque <- MCNone
  Glob <- MCNone
  Manifests <- MCManifests
  Hosts <- MCHosts_
  Requests <- MCRequests
  Home <- MCHome
  Base <- MCBase
  AllowedHosts <- MCAllowedHosts
  Upstream <- MCUpstream
  MaxForwards = 3
  Results <- MCResults
  MaxRuns = 4
  UserRequest <- MCUserRequest
  Trivial <- MCTrivial
  MaxSteps = 4
  RedactedKeys <- MCRedactedKeys
  SecretShaped = {"doc"}
  ApprovalModes = {"Manual", "Interactive"}
  HookHosts = {"claude", "agy"}
  HookCalls <- MCHookCalls
  LowerCase <- LowerCaseNames
  MaxCalls = 3
  Registry <- MCRegistry
  Confined = FALSE
  MaxDescendants = 2
  Cwd <- MCCwd
  Readable <- MCRoots
  Writable <- MCRoots
  Files <- MCFiles
  Links <- MCLinks
  Schemes = {"https://"}
  Canonical <- MCCanonical
  Subdomains <- MCSubdomains
  LocalTargets = {"local"}
  i1 = i1
  i2 = i2
  LogCalls = {i1, i2}
  MaxLogFaults = 1
  LogSettings <- MCLogSettings
INVARIANTS
  TypeOK
  FloorAfterIngest
  ScopedAsWritten
  SinksHold
  BudgetKept
  ReachConfined
  CommandContained
  RunUnderGrant
  ReplayReproduces
  LogTruthful
CHECK_DEADLOCK FALSE

SPECIFICATION Spec
CONSTANTS
  BadShape = BadShape
  BadLabel = BadLabel
  Unbalanced <- MCNone
  Inside <- MCInside
  Opaque <- MCNone
  Glob <- MCNone
  Manifests <- MCManifests
  Hosts = {"wire"}
  Requests <- MCRequests
  Home <- MCHome
  Base <- MCBase
  AllowedHosts <- MCAllowedHosts
  Upstream <- MCUpstream
  MaxForwards = 2
  Results <- MCResults
  MaxRuns = 3
  UserRequest <- MCUserRequest
  Trivial <- MCTrivial
  MaxSteps = 3
  RedactedKeys <- MCRedactedKeys
  SecretShaped = {"doc"}
  ApprovalModes = {"Manual", "Interactive"}
  HookHosts = {"claude", "agy"}
  HookCalls <- MCHookCalls
  LowerCase <- LowerCaseNames
  MaxCalls = 3
  Registry <- MCRegistry
  Confined = FALSE
  MaxDescendants = 2
  Cwd <- MCCwd
  Readable <- MCRoots
  Writable <- MCRoots
  Files <- MCFiles
  Links <- MCLinks
  Schemes = {"https://"}
  Canonical <- MCCanonical
  Subdomains <- MCSubdomains
  LocalTargets = {"local"}
  i1 = i1
  i2 = i2
  LogCalls = {}
  MaxLogFaults = 0
  LogSettings <- MCLogSettings
INVARIANT AskedFloor
CHECK_DEADLOCK FALSE

-------------------------------- MODULE HostPaths --------------------------------
(***************************************************************************)
(* How a host turns the paths of a manifest and of a call into canonical   *)
(* ones, before the kernel compares them segment by segment (cli-harness:  *)
(* hostkit.rs).  Paths are those of Executor.  A path may be canonicalized *)
(* to nothing: a set of at most one.                                       *)
(***************************************************************************)
EXTENDS Executor

\* One segment on, by the text alone.
Onward(d, seg) ==
  IF seg \in {"", "."} THEN d
  ELSE IF seg # ".." THEN Append(d, seg)
  ELSE IF Len(d) > 1 THEN Front(d) ELSE d

\* Without empty, "." and ".." segments.
normalize_dots(path) ==
  LET out[n \in 0 .. Len(path)] ==
        IF n = 0 THEN <<"">> ELSE Onward(out[n - 1], path[n])
  IN  out[Len(path)]

\* lstat finds something there, be it a link to nothing.
exists(path) ==
  \/ canonicalize(path) # {}
  \/ is_symlink_leaf(path)

\* A ".." after a part that does not exist.
dotdot_after_missing(path) ==
  \E i \in DOMAIN path : path[i] = ".." /\ \E j \in 2 .. i - 1 : ~exists(SubSeq(path, 1, j))

\* Variant: what does not exist is taken as it is written.
canonicalize_action_path_Lexical(path) ==
  IF canonicalize(path) # {} THEN canonicalize(path) ELSE {normalize_dots(path)}

\* As far as a path is there, where it leads; below, as it is written, but not
\* back up.
Pinned(path) ==
  LET out[n \in 0 .. Len(path)] ==
        IF Followed(path)[n] # {} THEN Followed(path)[n]
        ELSE CASE path[n] \in {"", "."} -> out[n - 1]
               [] path[n] = ".." -> {}
               [] OTHER -> {Append(d, path[n]) : d \in out[n - 1]}
  IN  out

\* A file that is not there yet is classified by its nearest ancestor that is,
\* and the rest of its path as written.
canonicalize_action_path(path) ==
  IF dotdot_after_missing(path) THEN {} ELSE Pinned(path)[Len(path)]

\* The file that a tool opens by a path, with the folders it makes for it: every link
\* leads where it points, whether there is something or not (external).
IsLink(d, seg) ==
  LET q == Onward(d, seg)
  IN  q # d /\ seg # ".." /\ q \in DOMAIN Links
Opened(d, seg) == IF IsLink(d, seg) THEN Links[Onward(d, seg)] ELSE Onward(d, seg)
Walked(path) ==
  LET at[n \in 0 .. Len(path)] == IF n = 0 THEN <<"">> ELSE Opened(at[n - 1], path[n])
  IN  at
Reached(path) == Walked(path)[Len(path)]

\* On its way there is a link that leads to nothing.
Dangles(path) ==
  \E n \in DOMAIN path :
    LET d == Walked(path)[n - 1]
    IN  IsLink(d, path[n]) /\ Links[Onward(d, path[n])] \notin Files

\* A root that does not exist stays as it is written.
canonical_root(path) ==
  IF canonicalize(path) # {} THEN CHOOSE p \in canonicalize(path) : TRUE
  ELSE IF Head(path) = "" THEN normalize_dots(path) ELSE path

canonicalize_root_paths(roots) ==
  LET rules == roots.rules
  IN  [roots EXCEPT !.rules =
         [i \in DOMAIN rules |-> [rules[i] EXCEPT !.path = canonical_root(rules[i].path)]]]
=============================================================================

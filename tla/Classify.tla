------------------------------- MODULE Classify -------------------------------
(***************************************************************************)
(* Which action a call really is: the command and path classifiers and the *)
(* root rules of a world (harness-types: compiled.rs).                     *)
(*                                                                         *)
(* A command line is a sequence of symbols: words, operators, quoted spans *)
(* and what a split cannot see through.  A path is the sequence of its     *)
(* segments, a glob pattern the sequence of its own.                       *)
(***************************************************************************)
EXTENDS Lowering

CONSTANTS
  Inside,   \* of every quoted symbol, the words it holds
  Opaque,   \* symbols that hide a command: substitutions, heredocs, open quotes
  Glob      \* the pairs <<segment, pattern segment>> that match, besides a
            \* segment and itself, and anything and "*"

-----------------------------------------------------------------------------
(* Commands.                                                               *)

SEPARATORS == {";", "&", "|", "nl"}
runs_nothing(part) == \A i \in DOMAIN part : part[i] \in {":", "{", "}", "(", ")"}

\* The words of a line, those in quotes and comments included.
raw_words(cmd) ==
  FlattenSeq([i \in DOMAIN cmd |-> IF cmd[i] \in DOMAIN Inside THEN Inside[cmd[i]]
                                   ELSE <<cmd[i]>>])

\* pat occurs in text where a word begins.
left_word_match(text, pat) ==
  /\ pat # <<>>
  /\ \E at \in 1 .. Len(text) - Len(pat) + 1 : SubSeq(text, at, at + Len(pat) - 1) = pat

\* The simple commands of a line, without comments; a quoted span stays one
\* symbol, which no pattern names.
simple_commands(cmd) ==
  LET commented(i) == \E j \in 1 .. i : cmd[j] = "#" /\ \A k \in j .. i : cmd[k] # "nl"
      live == {i \in DOMAIN cmd : ~commented(i) /\ cmd[i] \notin SEPARATORS}
      first(i) == i = 1 \/ i - 1 \notin live
      last(i) == CHOOSE j \in live : /\ i <= j /\ j + 1 \notin live
                                     /\ \A k \in i .. j : k \in live
  IN  {SubSeq(cmd, i, last(i)) : i \in {j \in live : first(j)}}

\* The class of a command line: the one target whose patterns the line holds,
\* if they account for every simple command on it; else the default.
classify_command(w, tool, args) ==
  LET defs == {i \in DOMAIN w.command_classes : w.command_classes[i].action = tool}
      def == w.command_classes[CHOOSE i \in defs : \A j \in defs : i <= j]
      fallback == IF def.default_to = {} THEN tool ELSE CHOOSE d \in def.default_to : TRUE
      line == members(args)[def.arg]
      cmd == line.str
      targets == {c.to : c \in {k \in def.classes :
                   \E p \in k.patterns : left_word_match(raw_words(cmd), p)}}
      target == CHOOSE t \in targets : TRUE
      covered(part) == \E c \in def.classes : /\ c.to = target
                                              /\ \E p \in c.patterns : left_word_match(part, p)
      parts == simple_commands(cmd)
  IN  IF defs = {} THEN tool
      ELSE IF def.arg \notin DOMAIN members(args) \/ ~is(line, "str") THEN fallback
      ELSE IF \/ \A t \in targets : targets # {t}
              \/ \E i \in DOMAIN cmd : cmd[i] \in Opaque
      THEN fallback
      ELSE IF /\ \E part \in parts : covered(part)
              /\ \A part \in parts : covered(part) \/ runs_nothing(part)
      THEN target
      ELSE fallback

-----------------------------------------------------------------------------
(* Paths.                                                                  *)

\* "." and empty segments go, ".." takes back the segment before it.
path_segments(path) ==
  LET step(out, seg) ==
        IF seg \in {"", "."} THEN out
        ELSE IF seg = ".." /\ out # <<>> /\ Last(out) # ".." THEN Front(out)
        ELSE Append(out, seg)
  IN  FoldLeft(step, <<>>, path)

segment_match(seg, pat) == pat = "*" \/ seg = pat \/ <<seg, pat>> \in Glob

\* "**" stands for any number of segments.
segments_match(path, pattern) ==
  LET n == Len(path) + 1
      k == Len(pattern) + 1
      from[i \in 1 .. n, j \in 1 .. k] ==
        IF j = k THEN i = n
        ELSE IF pattern[j] = "**" THEN \E s \in i .. n : from[s, j + 1]
        ELSE i < n /\ segment_match(path[i], pattern[j]) /\ from[i + 1, j + 1]
  IN  from[1, 1]

path_glob_match(path, pattern) == segments_match(path_segments(path), pattern)

\* The action of a call: the command class, else the first path class that
\* either the resolved path or an argument as written falls into.
classify_call(w, tool, args, path) ==
  LET class(i) == w.path_classes[i]
      written(i) == {members(args)[s.arg].str :
        s \in {t \in class(i).from : /\ t.action = tool /\ t.arg \in DOMAIN members(args)
                                     /\ is(members(args)[t.arg], "str")}}
      hit(i) == /\ \E s \in class(i).from : s.action = tool
                /\ \E p \in path \cup written(i), g \in class(i).patterns : path_glob_match(p, g)
      hits == {i \in DOMAIN w.path_classes : hit(i)}
  IN  IF classify_command(w, tool, args) # tool THEN classify_command(w, tool, args)
      ELSE IF hits # {} THEN class(CHOOSE i \in hits : \A j \in hits : i <= j).to
      ELSE tool

-----------------------------------------------------------------------------
(* Roots: the access of the longest rule above a path.                     *)

matching_rules(roots, path) == {i \in DOMAIN roots.rules : IsPrefix(roots.rules[i].path, path)}

best_root_rule(roots, path) ==
  CHOOSE i \in matching_rules(roots, path) :
    \A j \in matching_rules(roots, path) :
      \/ Len(roots.rules[j].path) < Len(roots.rules[i].path)
      \/ Len(roots.rules[j].path) = Len(roots.rules[i].path) /\ j <= i

\* The accesses of a path: one in a world with roots, else none.
classify_path(w, path) ==
  {IF matching_rules(r, path) = {} THEN r.default ELSE r.rules[best_root_rule(r, path)].access :
     r \in w.roots}

path_taints(w, path) ==
  \E r \in w.roots : /\ matching_rules(r, path) # {}
                     /\ r.rules[best_root_rule(r, path)].taint_source
=============================================================================

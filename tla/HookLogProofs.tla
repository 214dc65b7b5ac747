----------------------------- MODULE HookLogProofs -----------------------------
(***************************************************************************)
(* HookLog for any number of calls, hooks, observers and faults.           *)
(*                                                                         *)
(* LogTruthful compares what a reader infers with what became of a call;   *)
(* the invariant says what each line is evidence of (LineTrue), how far    *)
(* each call has come with its hooks, its person and its observers         *)
(* (CallTrue), and that one hook leaves one decision (JudgedOnce).         *)
(***************************************************************************)
EXTENDS HookLog, FilteredProofs

LogLines ==
  [kind : {"decision", "outcome"}, id : SUBSET LogCalls, answer : Answers,
   status : Ended \cup {""}]

Stages == {"new", "judged", "asked", "running", "refused"} \cup Ended

LogTyped ==
  /\ registrations \in Nat
  /\ decision_log \in Seq(LogLines)
  /\ stage \in [LogCalls -> Stages]
  /\ judging \in [LogCalls -> Nat]
  /\ answers \in [LogCalls -> SUBSET Answers]
  /\ reporting \in [LogCalls -> Nat]
  /\ person \in [LogCalls -> {"unasked", "yes", "no"}]
  /\ unwritten \in [LogCalls -> Nat]

\* A decision was the answer of a hook, or of one that was killed; an outcome is how
\* the call ended, and somebody observed it.
DecisionTrue(l, c) ==
  /\ l.kind = "decision" /\ l.id = stamp(c)
  /\ stage[c] # "new"
  /\ l.answer \in answers[c] \/ c \in unheard

OutcomeTrue(l, c) ==
  /\ l.kind = "outcome" /\ l.id = stamp(c)
  /\ stage[c] \in Ended /\ l.status = stage[c] /\ observer

LineTrue(l) == \E c \in LogCalls : DecisionTrue(l, c) \/ OutcomeTrue(l, c)

LinesTrue == \A i \in DOMAIN decision_log : LineTrue(decision_log[i])

\* Some line says that the call, or one that cannot be told from it, has ended.
OutcomeLine(c) ==
  \E i \in DOMAIN decision_log : decision_log[i].kind = "outcome" /\ decision_log[i].id = stamp(c)

\* Its hooks judge a call before the host decides, and its observers see its end.
HooksPlaced(c) ==
  /\ judging[c] > 0 => stage[c] = "judged"
  /\ reporting[c] > 0 => stage[c] \in Ended /\ observer
  /\ stage[c] \notin Ended => unwritten[c] = 0
  /\ stage[c] \in Ended /\ observer => OutcomeLine(c) \/ reporting[c] + unwritten[c] = registrations

\* No call runs against a hook's answer that was heard, nor without the person if a
\* hook asked; a call that was asked about and not refused by a hook was declined.
AnswersHeeded(c) ==
  /\ stage[c] \in {"asked", "running"} \cup Ended => "deny" \notin answers[c]
  /\ stage[c] \in {"running"} \cup Ended /\ "ask" \in answers[c] => person[c] = "yes"
  /\ stage[c] = "refused" /\ "ask" \in answers[c] /\ "deny" \notin answers[c] => person[c] = "no"

CallTrue(c) == HooksPlaced(c) /\ AnswersHeeded(c)

DecisionsOf(c) ==
  {i \in DOMAIN decision_log : decision_log[i].kind = "decision" /\ decision_log[i].id = {c}}

\* Where one hook is registered a call has one decision, once the hook is done.
JudgedOnce ==
  registrations = 1 =>
    \A c \in LogCalls :
      /\ judging[c] <= 1
      /\ judging[c] = 1 => DecisionsOf(c) = {}
      /\ \A i, k \in DecisionsOf(c) : i = k

LogSound == LogTyped /\ LinesTrue /\ (\A c \in LogCalls : CallTrue(c)) /\ JudgedOnce

-----------------------------------------------------------------------------
(* What a reader makes of the lines.                                       *)

LEMMA DecisionsAre ==
  ASSUME NEW lines \in Seq(LogLines)
  PROVE  /\ decisions(lines) \in Seq(LogLines)
         /\ \A k \in DOMAIN decisions(lines) :
              \E i \in DOMAIN lines :
                /\ lines[i].kind = "decision" /\ decisions(lines)[k] = lines[i]
                /\ k = Rank({j \in DOMAIN lines : lines[j].kind = "decision"}, i)
<1> DEFINE at == {i \in DOMAIN lines : lines[i].kind = "decision"}
<1>1. ArePlaces(at)
  <2>1. Len(lines) \in Nat /\ at \in SUBSET (1 .. Len(lines))
    OBVIOUS
  <2> QED
    BY <2>1 DEF ArePlaces
<1>2. \A i \in at : i \in DOMAIN lines /\ lines[i] \in LogLines /\ lines[i].kind = "decision"
  OBVIOUS
<1>3. decisions(lines) = Filtered(lines, at)
  BY DEF decisions
<1> HIDE DEF at
<1>4. Filtered(lines, at) \in Seq(LogLines)
  BY <1>1, <1>2, FilteredIsSeq
<1>5. \A k \in DOMAIN Filtered(lines, at) :
        \E i \in at : Rank(at, i) = k /\ Filtered(lines, at)[k] = lines[i]
  BY <1>1, FilteredIs
<1>6. \A k \in DOMAIN decisions(lines) :
        \E i \in DOMAIN lines :
          lines[i].kind = "decision" /\ decisions(lines)[k] = lines[i] /\ k = Rank(at, i)
  BY <1>2, <1>3, <1>5
<1> QED
  BY <1>3, <1>4, <1>6 DEF at

\* The place of a decision among those that have an id.
JoinedAt(all) == {i \in DOMAIN all : all[i].id # {}}

LEMMA JoinedAre ==
  ASSUME NEW lines \in Seq(LogLines)
  PROVE  /\ \A i \in JoinedAt(decisions(lines)) :
              /\ Rank(JoinedAt(decisions(lines)), i) \in DOMAIN joined_lines(lines)
              /\ joined_lines(lines)[Rank(JoinedAt(decisions(lines)), i)] =
                   Joined(lines, decisions(lines)[i])
         /\ \A k \in DOMAIN joined_lines(lines) :
              \E i \in JoinedAt(decisions(lines)) :
                /\ k = Rank(JoinedAt(decisions(lines)), i)
                /\ joined_lines(lines)[k] = Joined(lines, decisions(lines)[i])
<1> DEFINE all == decisions(lines)
           at == JoinedAt(all)
           ds == Filtered(all, at)
<1>1. all \in Seq(LogLines)
  BY DecisionsAre
<1>2. joined_lines(lines) = [i \in DOMAIN ds |-> Joined(lines, ds[i])]
  BY DEF joined_lines, JoinedAt
<1> HIDE DEF all
<1>3. ArePlaces(at)
  <2>1. Len(all) \in Nat /\ DOMAIN all = 1 .. Len(all)
    BY <1>1
  <2>2. at \in SUBSET (1 .. Len(all))
    BY <2>1 DEF JoinedAt
  <2> QED
    BY <2>1, <2>2 DEF ArePlaces
<1> HIDE DEF at
<1>4. /\ \A i \in at : Rank(at, i) \in DOMAIN ds /\ ds[Rank(at, i)] = all[i]
      /\ \A k \in DOMAIN ds : \E i \in at : Rank(at, i) = k /\ ds[k] = all[i]
  BY <1>3, FilteredIs
<1> HIDE DEF ds
<1>5. \A k \in DOMAIN ds : joined_lines(lines)[k] = Joined(lines, ds[k])
  BY <1>2
<1>6. DOMAIN joined_lines(lines) = DOMAIN ds
  BY <1>2
<1>7. \A i \in at : /\ Rank(at, i) \in DOMAIN joined_lines(lines)
                    /\ joined_lines(lines)[Rank(at, i)] = Joined(lines, all[i])
  BY <1>4, <1>5, <1>6
<1>8. \A k \in DOMAIN joined_lines(lines) :
        \E i \in at : k = Rank(at, i) /\ joined_lines(lines)[k] = Joined(lines, all[i])
  BY <1>4, <1>5, <1>6
<1> QED
  BY <1>7, <1>8 DEF at, all

\* What a reader joins to a decision.
LEMMA JoinedIs ==
  ASSUME NEW lines \in Seq(LogLines), NEW k \in DOMAIN joined_lines(lines)
  PROVE  \E i \in DOMAIN lines :
           /\ lines[i].kind = "decision" /\ lines[i].id # {}
           /\ joined_lines(lines)[k] = Joined(lines, lines[i])
<1>1. PICK n \in JoinedAt(decisions(lines)) :
        joined_lines(lines)[k] = Joined(lines, decisions(lines)[n])
  BY JoinedAre
<1>2. n \in DOMAIN decisions(lines) /\ decisions(lines)[n].id # {}
  BY DEF JoinedAt
<1>3. PICK i \in DOMAIN lines : lines[i].kind = "decision" /\ decisions(lines)[n] = lines[i]
  BY <1>2, DecisionsAre
<1> QED
  BY <1>1, <1>2, <1>3

\* The outcome a reader finds by an id.
LEMMA OutcomeFound ==
  ASSUME NEW lines \in Seq(LogLines), NEW id, id # {}
  PROVE  /\ \A o \in outcome_of(lines, id) :
              \E i \in DOMAIN lines : o = lines[i] /\ lines[i].kind = "outcome" /\ lines[i].id = id
         /\ (\E i \in DOMAIN lines : lines[i].kind = "outcome" /\ lines[i].id = id) =>
              outcome_of(lines, id) # {}
<1> DEFINE at == {i \in DOMAIN lines : lines[i].kind = "outcome" /\ lines[i].id = id /\ id # {}}
<1>1. outcome_of(lines, id) = {lines[i] : i \in {j \in at : \A k \in at : k <= j}}
  BY DEF outcome_of
<1>2. \A i \in at : i \in DOMAIN lines /\ lines[i].kind = "outcome" /\ lines[i].id = id
  OBVIOUS
<1>3. ASSUME at # {}
      PROVE  \E j \in at : \A k \in at : k <= j
  <2>1. ArePlaces(at)
    <3>1. Len(lines) \in Nat /\ at \in SUBSET (1 .. Len(lines))
      OBVIOUS
    <3> QED
      BY <3>1 DEF ArePlaces
  <2> HIDE DEF at
  <2> QED
    BY <2>1, <1>3, LastPlace
<1>4. (\E i \in DOMAIN lines : lines[i].kind = "outcome" /\ lines[i].id = id) => at # {}
  OBVIOUS
<1> HIDE DEF at
<1>5. at # {} => outcome_of(lines, id) # {}
  BY <1>1, <1>3
<1>6. \A o \in outcome_of(lines, id) : \E i \in at : o = lines[i]
  BY <1>1
<1> QED
  BY <1>2, <1>4, <1>5, <1>6

\* What the lines of a call are evidence of.
LEMMA Evidence ==
  ASSUME LogSound, NEW c \in LogCalls, NEW i \in DOMAIN decision_log,
         c \in decision_log[i].id
  PROVE  /\ decision_log[i].id = {c} /\ stamp(c) = {c}
         /\ decision_log[i].kind = "decision" => DecisionTrue(decision_log[i], c)
         /\ decision_log[i].kind = "outcome" => OutcomeTrue(decision_log[i], c)
<1>1. PICK d \in LogCalls : DecisionTrue(decision_log[i], d) \/ OutcomeTrue(decision_log[i], d)
  BY DEF LogSound, LinesTrue, LineTrue
<1>2. decision_log[i].id = stamp(d)
  BY <1>1 DEF DecisionTrue, OutcomeTrue
<1>3. d = c /\ stamp(d) = {c}
  BY <1>2 DEF stamp
<1> QED
  BY <1>1, <1>2, <1>3 DEF DecisionTrue, OutcomeTrue

\* Whether a reader finds that a call ran.
LEMMA RanIs ==
  ASSUME LogSound, NEW c \in LogCalls, stamp(c) = {c}
  PROVE  /\ outcome_of(decision_log, {c}) # {} => stage[c] \in Ended /\ observer
         /\ \A o \in outcome_of(decision_log, {c}) : o.status = stage[c]
         /\ outcome_of(decision_log, {c}) = {} /\ observed(decision_log) => ~Reported(c)
         /\ stage[c] \in Ended /\ observer /\ Reported(c) =>
              outcome_of(decision_log, {c}) # {} /\ observed(decision_log)
<1> DEFINE found == outcome_of(decision_log, {c})
<1>1. decision_log \in Seq(LogLines) /\ {c} # {}
  BY DEF LogSound, LogTyped
<1>0. /\ \A o \in found : \E i \in DOMAIN decision_log :
           o = decision_log[i] /\ decision_log[i].kind = "outcome" /\ decision_log[i].id = {c}
      /\ (\E i \in DOMAIN decision_log : decision_log[i].kind = "outcome" /\ decision_log[i].id = {c}) =>
           found # {}
  BY <1>1, OutcomeFound, Zenon
<1> HIDE DEF found
<1>2. OutcomeLine(c) => found # {}
  BY <1>0 DEF OutcomeLine
<1>3. \A o \in found : stage[c] \in Ended /\ observer /\ o.status = stage[c]
  BY <1>0, Evidence DEF OutcomeTrue
<1>4. observed(decision_log) => observer
  BY DEF observed, LogSound, LinesTrue, LineTrue, DecisionTrue, OutcomeTrue
<1>5. OutcomeLine(c) => observed(decision_log)
  BY DEF observed, OutcomeLine
<1>6. stage[c] \in Ended /\ observer /\ Reported(c) => OutcomeLine(c)
  BY DEF LogSound, CallTrue, HooksPlaced, Reported, LogTyped
<1> QED
  BY <1>2, <1>3, <1>4, <1>5, <1>6 DEF found, Reported

LEMMA JoinIsTruthful ==
  ASSUME LogSound
  PROVE  JoinTruthful(decision_log)
<1> SUFFICES ASSUME NEW k \in DOMAIN joined_lines(decision_log),
                    NEW c \in joined_lines(decision_log)[k].id
             PROVE  LET j == joined_lines(decision_log)[k]
                    IN  /\ j.ran = {TRUE} => stage[c] \in Ended
                        /\ j.ran = {FALSE} => ~Reported(c)
                        /\ j.human_answer = "approved" => person[c] = "yes" \/ c \in unheard
                        /\ j.human_answer = "declined_or_abandoned" =>
                             \/ person[c] = "no" \/ stage[c] \in {"judged", "asked", "running"}
                             \/ stage[c] \in Ended /\ ~Reported(c)
                             \/ "deny" \in answers[c] \/ c \in unheard
                        /\ j.ran_despite_deny => c \in unheard
                        /\ (j.answer = "deny" /\ observer /\ Reported(c)) =>
                             j.ran_despite_deny
  BY DEF JoinTruthful
<1> DEFINE j == joined_lines(decision_log)[k]
<1>1. decision_log \in Seq(LogLines)
  BY DEF LogSound, LogTyped
<1>2. PICK i \in DOMAIN decision_log :
        /\ decision_log[i].kind = "decision" /\ decision_log[i].id # {}
        /\ j = Joined(decision_log, decision_log[i])
  BY <1>1, JoinedIs
<1> DEFINE d == decision_log[i]
           found == outcome_of(decision_log, {c})
<1>3. c \in d.id /\ d.id \in SUBSET LogCalls
  <2>1. j.id = d.id
    BY <1>2 DEF Joined
  <2>2. d \in LogLines
    BY <1>1
  <2> QED
    BY <2>1, <2>2 DEF LogLines
<1>4. /\ c \in LogCalls /\ d.id = {c} /\ stamp(c) = {c}
      /\ stage[c] # "new" /\ (d.answer \in answers[c] \/ c \in unheard)
  BY <1>2, <1>3, Evidence DEF DecisionTrue
<1>5. /\ found # {} => stage[c] \in Ended /\ observer
      /\ found = {} /\ observed(decision_log) => ~Reported(c)
      /\ stage[c] \in Ended /\ observer /\ Reported(c) => found # {} /\ observed(decision_log)
  BY <1>4, RanIs
<1>6. /\ j.answer = d.answer
      /\ j.ran = IF observed(decision_log) THEN {found # {}} ELSE {}
      /\ j.human_answer = IF d.answer # "ask" THEN NoAnswer
                          ELSE IF j.ran = {} THEN "unobserved"
                          ELSE IF j.ran = {TRUE} THEN "approved"
                          ELSE "declined_or_abandoned"
      /\ j.ran_despite_deny = (d.answer = "deny" /\ j.ran = {TRUE})
  BY <1>2, <1>4 DEF Joined
<1>7. CallTrue(c) /\ stage[c] \in Stages
  BY <1>4 DEF LogSound, LogTyped
<1> HIDE DEF j, d, found
<1>8. j.ran = {TRUE} <=> (observed(decision_log) /\ found # {})
  BY <1>6
<1>9. j.ran = {FALSE} <=> (observed(decision_log) /\ found = {})
  BY <1>6
<1>10. j.human_answer = "approved" => d.answer = "ask" /\ j.ran = {TRUE}
  BY <1>6 DEF NoAnswer
<1>11. j.human_answer = "declined_or_abandoned" => d.answer = "ask" /\ j.ran = {FALSE}
  BY <1>6, <1>8, <1>9 DEF NoAnswer
<1>12. j.ran_despite_deny <=> d.answer = "deny" /\ j.ran = {TRUE}
  BY <1>6
<1>13. j.human_answer = "approved" => person[c] = "yes" \/ c \in unheard
  BY <1>4, <1>5, <1>7, <1>8, <1>10 DEF CallTrue, AnswersHeeded
<1>14. j.human_answer = "declined_or_abandoned" =>
         \/ person[c] = "no" \/ stage[c] \in {"judged", "asked", "running"}
         \/ stage[c] \in Ended /\ ~Reported(c)
         \/ "deny" \in answers[c] \/ c \in unheard
  BY <1>4, <1>5, <1>7, <1>9, <1>11 DEF CallTrue, AnswersHeeded, Stages
<1>15. j.ran_despite_deny => c \in unheard
  BY <1>4, <1>5, <1>7, <1>8, <1>12 DEF CallTrue, AnswersHeeded
<1>16. j.answer = "deny" /\ observer /\ Reported(c) => j.ran_despite_deny
  BY <1>5, <1>6, <1>8, <1>12 DEF Reported
<1>17. /\ j.ran = {TRUE} => stage[c] \in Ended
       /\ j.ran = {FALSE} => ~Reported(c)
  BY <1>5, <1>8, <1>9
<1> QED
  BY <1>13, <1>14, <1>15, <1>16, <1>17 DEF j

\* The n-th of the places where something holds has n - 1 of them before it.
LEMMA PlacesBefore ==
  ASSUME NEW list, NEW at \in SUBSET DOMAIN list, DOMAIN list = 1 .. Len(list), Len(list) \in Nat,
         NEW i \in at, NEW k \in at,
         Cardinality({j \in at : j <= i - 1}) = Cardinality({j \in at : j <= k - 1})
  PROVE  i = k
<1>1. at \in SUBSET (1 .. Len(list)) /\ ArePlaces(at)
  BY DEF ArePlaces
<1>2. /\ i \in 1 .. Len(list) /\ k \in 1 .. Len(list)
      /\ Rank(at, i - 1) = Rank(at, k - 1)
  BY DEF Rank
<1>3. \A n \in 1 .. Len(list) : Rank(at, n) = Rank(at, n - 1) + (IF n \in at THEN 1 ELSE 0)
  BY <1>1, RankSteps
<1>4. Rank(at, i) = Rank(at, i - 1) + 1 /\ Rank(at, k) = Rank(at, k - 1) + 1
  BY <1>2, <1>3
<1>5. Rank(at, i) = Rank(at, k)
  BY <1>2, <1>4
<1> QED
  BY <1>1, <1>5, FilteredOrder

LEMMA SpansAreTruthful ==
  ASSUME LogSound
  PROVE  SpansTruthful(decision_log)
<1> DEFINE ds == decisions(decision_log)
           s == export(decision_log)
<1>1. /\ decision_log \in Seq(LogLines) /\ ds \in Seq(LogLines)
      /\ \A k \in DOMAIN ds : \E i \in DOMAIN decision_log :
           decision_log[i].kind = "decision" /\ ds[k] = decision_log[i]
  BY DecisionsAre DEF LogSound, LogTyped
<1>2. /\ DOMAIN s = DOMAIN ds
      /\ \A i \in DOMAIN ds :
           /\ s[i].call = ds[i].id /\ s[i].answer = ds[i].answer
           /\ s[i].decision_index = Cardinality({j \in 1 .. i - 1 : ds[j].id = ds[i].id})
           /\ s[i].joined = IF ds[i].id = {} THEN {}
                            ELSE {joined_lines(decision_log)[Cardinality({j \in 1 .. i : ds[j].id # {}})]}
           /\ s[i].status = span_status(ds[i].answer, outcome_of(decision_log, ds[i].id))
  BY DEF export
<1>3. DOMAIN ds = 1 .. Len(ds) /\ Len(ds) \in Nat
  BY <1>1
<1>4. /\ \A i \in JoinedAt(ds) : joined_lines(decision_log)[Rank(JoinedAt(ds), i)] = Joined(decision_log, ds[i])
  BY <1>1, JoinedAre
<1> HIDE DEF ds, s
<1>5. ASSUME NEW i \in DOMAIN ds, NEW k \in DOMAIN ds, ds[i].id = ds[k].id,
             s[i].decision_index = s[k].decision_index
      PROVE  i = k
  <2> DEFINE same == {j \in DOMAIN ds : ds[j].id = ds[i].id}
  <2>1. same \in SUBSET DOMAIN ds /\ i \in same /\ k \in same
    BY <1>5
  <2>2. ASSUME NEW n \in 1 .. Len(ds)
        PROVE  {j \in 1 .. n - 1 : ds[j].id = ds[i].id} = {j \in same : j <= n - 1}
    <3>1. \A j : (j \in 1 .. n - 1 /\ ds[j].id = ds[i].id) <=> (j \in same /\ j <= n - 1)
      BY <1>3
    <3> QED
      BY <3>1
  <2>3. s[i].decision_index = Cardinality({j \in same : j <= i - 1})
    <3>1. {j \in 1 .. i - 1 : ds[j].id = ds[i].id} = {j \in same : j <= i - 1}
      BY <1>3, <2>2
    <3> QED
      BY <1>2, <3>1
  <2>4. s[k].decision_index = Cardinality({j \in same : j <= k - 1})
    <3>1. {j \in 1 .. k - 1 : ds[j].id = ds[i].id} = {j \in same : j <= k - 1}
      BY <1>3, <2>2
    <3>2. {j \in 1 .. k - 1 : ds[j].id = ds[k].id} = {j \in 1 .. k - 1 : ds[j].id = ds[i].id}
      BY <1>5
    <3>3. s[k].decision_index = Cardinality({j \in 1 .. k - 1 : ds[j].id = ds[k].id})
      BY <1>2
    <3> QED
      BY <3>1, <3>2, <3>3
  <2>5. Cardinality({j \in same : j <= i - 1}) = Cardinality({j \in same : j <= k - 1})
    BY <1>5, <2>3, <2>4
  <2> HIDE DEF same
  <2> QED
    BY <1>3, <2>1, <2>5, PlacesBefore
<1>6. ASSUME NEW i \in DOMAIN ds, NEW j \in s[i].joined
      PROVE  j.id = ds[i].id /\ j.answer = ds[i].answer
  <2>1. ds[i].id # {} /\ j = joined_lines(decision_log)[Cardinality({n \in 1 .. i : ds[n].id # {}})]
    BY <1>2, <1>6
  <2>2. {n \in 1 .. i : ds[n].id # {}} = {n \in JoinedAt(ds) : n <= i}
    <3>1. \A n : (n \in 1 .. i /\ ds[n].id # {}) <=> (n \in JoinedAt(ds) /\ n <= i)
      BY <1>3 DEF JoinedAt
    <3> QED
      BY <3>1
  <2>3. j = joined_lines(decision_log)[Rank(JoinedAt(ds), i)]
    BY <2>1, <2>2 DEF Rank
  <2>4. i \in JoinedAt(ds)
    BY <2>1 DEF JoinedAt
  <2>5. j = Joined(decision_log, ds[i])
    BY <1>4, <2>3, <2>4
  <2> QED
    BY <2>5 DEF Joined
<1>7. ASSUME NEW i \in DOMAIN ds, s[i].status = "OK", NEW c \in ds[i].id
      PROVE  stage[c] = "ok"
  <2>1. PICK m \in DOMAIN decision_log : decision_log[m].kind = "decision" /\ ds[i] = decision_log[m]
    BY <1>1
  <2>2. c \in LogCalls
    <3>1. ds[i] \in LogLines
      BY <1>1
    <3> QED
      BY <3>1, <1>7 DEF LogLines
  <2>3. ds[i].id = {c} /\ stamp(c) = {c}
    BY <1>7, <2>1, <2>2, Evidence
  <2>4. \A o \in outcome_of(decision_log, {c}) : o.status = stage[c]
    BY <2>2, <2>3, RanIs
  <2>5. span_status(ds[i].answer, outcome_of(decision_log, {c})) = "OK"
    BY <1>2, <1>7, <2>3
  <2>6. \E o \in outcome_of(decision_log, {c}) : o.status = "ok"
    BY <2>5 DEF span_status
  <2> QED
    BY <2>4, <2>6
<1>8. ASSUME NEW i \in DOMAIN s, NEW k \in DOMAIN s,
             s[i].call = s[k].call, s[i].decision_index = s[k].decision_index
      PROVE  i = k
  BY <1>2, <1>5, <1>8
<1>9. ASSUME NEW i \in DOMAIN s
      PROVE  /\ \A j \in s[i].joined : j.id = s[i].call /\ j.answer = s[i].answer
             /\ s[i].status = "OK" => \A c \in s[i].call : stage[c] = "ok"
  <2>1. i \in DOMAIN ds /\ s[i].call = ds[i].id
    BY <1>2
  <2>2. \A j \in s[i].joined : j.id = ds[i].id /\ j.answer = ds[i].answer
    BY <1>6, <2>1
  <2>3. s[i].status = "OK" => \A c \in ds[i].id : stage[c] = "ok"
    BY <1>7, <2>1
  <2>4. \A j \in s[i].joined : j.id = s[i].call /\ j.answer = s[i].answer
    <3>1. s[i].answer = ds[i].answer
      BY <1>2, <2>1
    <3> QED
      BY <2>1, <2>2, <3>1
  <2> QED
    BY <2>1, <2>3, <2>4
<1> QED
  BY <1>8, <1>9 DEF SpansTruthful, s

LEMMA OneDecisionShown ==
  ASSUME LogSound, registrations = 1, NEW c \in LogCalls,
         NEW i \in DOMAIN joined_lines(decision_log), joined_lines(decision_log)[i].id = {c}
  PROVE  live(decision_log, c) = {joined_lines(decision_log)[i]}
<1> DEFINE ds == decisions(decision_log)
           js == joined_lines(decision_log)
           first == {j \in DOMAIN decision_log : decision_log[j].kind = "decision"}
<1>1. /\ decision_log \in Seq(LogLines)
      /\ \A n \in DOMAIN ds : \E m \in DOMAIN decision_log :
           decision_log[m].kind = "decision" /\ ds[n] = decision_log[m] /\ n = Rank(first, m)
  BY DecisionsAre DEF LogSound, LogTyped
<1>2. \A k \in DOMAIN js : \E n \in JoinedAt(ds) :
        k = Rank(JoinedAt(ds), n) /\ js[k] = Joined(decision_log, ds[n])
  BY <1>1, JoinedAre
<1>3. live(decision_log, c) =
        {js[n] : n \in {j \in {k \in DOMAIN js : js[k].id = {c}} :
                          \A k \in {m \in DOMAIN js : js[m].id = {c}} : k <= j}}
  BY DEF live
<1>4. \A n, m \in DecisionsOf(c) : n = m
  BY DEF LogSound, JudgedOnce
<1>5. i \in DOMAIN js /\ js[i].id = {c}
  OBVIOUS
<1> HIDE DEF ds, js, first
<1>6. ASSUME NEW k \in DOMAIN js, js[k].id = {c}
      PROVE  \E n : \E m \in DecisionsOf(c) : n = Rank(first, m) /\ k = Rank(JoinedAt(ds), n)
  <2>1. PICK n \in JoinedAt(ds) : k = Rank(JoinedAt(ds), n) /\ js[k] = Joined(decision_log, ds[n])
    BY <1>2
  <2>2. n \in DOMAIN ds /\ ds[n].id = {c}
    BY <1>6, <2>1 DEF JoinedAt, Joined
  <2>3. PICK m \in DOMAIN decision_log :
          decision_log[m].kind = "decision" /\ ds[n] = decision_log[m] /\ n = Rank(first, m)
    BY <1>1, <2>2
  <2> QED
    BY <2>1, <2>2, <2>3 DEF DecisionsOf
<1>7. \A k \in DOMAIN js : js[k].id = {c} => k = i
  BY <1>4, <1>5, <1>6
<1>8. i <= i
  <2>1. PICK n \in JoinedAt(ds) : i = Rank(JoinedAt(ds), n)
    BY <1>2, <1>5
  <2>2. ds \in Seq(LogLines)
    BY DecisionsAre DEF LogSound, LogTyped, ds
  <2>3. ArePlaces(JoinedAt(ds))
    <3>1. Len(ds) \in Nat /\ JoinedAt(ds) \in SUBSET (1 .. Len(ds))
      BY <2>2 DEF JoinedAt
    <3> QED
      BY <3>1 DEF ArePlaces
  <2>4. Rank(JoinedAt(ds), n) \in Nat
    BY <2>3, FilteredOrder
  <2> QED
    BY <2>1, <2>4
<1>9. {k \in DOMAIN js : js[k].id = {c}} = {i}
  BY <1>5, <1>7
<1> QED
  BY <1>3, <1>8, <1>9 DEF js

LEMMA SoundIsTruthful == LogSound => LogTruthful
BY JoinIsTruthful, SpansAreTruthful, OneDecisionShown DEF LogTruthful

-----------------------------------------------------------------------------
(* The steps of the hooks, the host and its person.                        *)

\* A step adds no line, or one.
Adds(l) == l \in LogLines /\ decision_log' = Append(decision_log, l)
LogGrows == decision_log' = decision_log \/ \E l \in LogLines : Adds(l) /\ LineTrue(l)'

CallSame(d) ==
  /\ stage'[d] = stage[d] /\ judging'[d] = judging[d] /\ answers'[d] = answers[d]
  /\ reporting'[d] = reporting[d] /\ person'[d] = person[d] /\ unwritten'[d] = unwritten[d]

\* What a call has come through stays so.
CallGoesOn(d) ==
  /\ stage[d] # "new" => stage'[d] # "new"
  /\ stage[d] \in Ended => stage'[d] = stage[d]
  /\ answers[d] \subseteq answers'[d]

LEMMA Appended ==
  ASSUME LogTyped, NEW l, Adds(l)
  PROVE  /\ decision_log' \in Seq(LogLines)
         /\ DOMAIN decision_log' = DOMAIN decision_log \cup {Len(decision_log) + 1}
         /\ Len(decision_log) + 1 \notin DOMAIN decision_log
         /\ decision_log'[Len(decision_log) + 1] = l
         /\ \A i \in DOMAIN decision_log : decision_log'[i] = decision_log[i]
BY DEF LogTyped, Adds

LEMMA LinesStay ==
  ASSUME LogTyped, LinesTrue, UNCHANGED log_settings, LogGrows, unheard \subseteq unheard',
         \A d \in LogCalls : CallGoesOn(d)
  PROVE  LinesTrue'
<1>1. \A d : stamp(d)' = stamp(d)
  BY DEF stamp, log_settings
<1>2. ASSUME NEW l, LineTrue(l)
      PROVE  LineTrue(l)'
  <2>1. PICK d \in LogCalls : DecisionTrue(l, d) \/ OutcomeTrue(l, d)
    BY <1>2 DEF LineTrue
  <2>2. DecisionTrue(l, d) => DecisionTrue(l, d)'
    BY <1>1 DEF DecisionTrue, CallGoesOn
  <2>3. OutcomeTrue(l, d) => OutcomeTrue(l, d)'
    BY <1>1 DEF OutcomeTrue, CallGoesOn, log_settings
  <2> QED
    BY <2>1, <2>2, <2>3 DEF LineTrue
<1>3. \A i \in DOMAIN decision_log : \A l : l = decision_log[i] => LineTrue(l)'
  BY <1>2 DEF LinesTrue
<1>4. ASSUME NEW i \in DOMAIN decision_log'
      PROVE  \E l : l = decision_log'[i] /\ LineTrue(l)'
  <2>1. CASE decision_log' = decision_log
    BY <1>3, <2>1, <1>4
  <2>2. ASSUME NEW l \in LogLines, Adds(l), LineTrue(l)'
        PROVE  \E k : k = decision_log'[i] /\ LineTrue(k)'
    BY <1>3, <1>4, <2>2, Appended
  <2> QED
    BY <2>1, <2>2 DEF LogGrows
<1> QED
  BY <1>4 DEF LinesTrue

LEMMA OutcomeStays ==
  ASSUME LogTyped, UNCHANGED log_settings, LogGrows, NEW d \in LogCalls, OutcomeLine(d)
  PROVE  OutcomeLine(d)'
<1>1. stamp(d)' = stamp(d)
  BY DEF stamp, log_settings
<1>2. PICK i \in DOMAIN decision_log : decision_log[i].kind = "outcome" /\ decision_log[i].id = stamp(d)
  BY DEF OutcomeLine
<1>3. i \in DOMAIN decision_log' /\ decision_log'[i] = decision_log[i]
  BY <1>2, Appended DEF LogGrows
<1> QED
  BY <1>1, <1>2, <1>3 DEF OutcomeLine

LEMMA OthersStay ==
  ASSUME LogTyped, UNCHANGED log_settings, LogGrows, NEW d \in LogCalls, CallTrue(d), CallSame(d)
  PROVE  CallTrue(d)'
<1>1. OutcomeLine(d) => OutcomeLine(d)'
  BY OutcomeStays
<1>2. HooksPlaced(d)'
  BY <1>1 DEF CallSame, CallTrue, HooksPlaced, log_settings
<1>3. AnswersHeeded(d)'
  BY DEF CallSame, CallTrue, AnswersHeeded
<1> QED
  BY <1>2, <1>3 DEF CallTrue

\* A line that is no decision of a call leaves the call's decisions.
LEMMA DecisionsStay ==
  ASSUME LogTyped, NEW d \in LogCalls,
         decision_log' = decision_log \/ \E l \in LogLines : Adds(l) /\ ~(l.kind = "decision" /\ l.id = {d})
  PROVE  DecisionsOf(d)' = DecisionsOf(d)
<1>1. CASE decision_log' = decision_log
  BY <1>1 DEF DecisionsOf
<1>2. ASSUME NEW l \in LogLines, Adds(l), ~(l.kind = "decision" /\ l.id = {d})
      PROVE  DecisionsOf(d)' = DecisionsOf(d)
  <2>1. \A i : i \in DecisionsOf(d)' <=>
                 i \in DOMAIN decision_log' /\ decision_log'[i].kind = "decision" /\ decision_log'[i].id = {d}
    BY DEF DecisionsOf
  <2>2. \A i : i \in DecisionsOf(d) <=>
                 i \in DOMAIN decision_log /\ decision_log[i].kind = "decision" /\ decision_log[i].id = {d}
    BY DEF DecisionsOf
  <2>3. \A i : i \in DecisionsOf(d)' <=> i \in DecisionsOf(d)
    BY <1>2, <2>1, <2>2, Appended
  <2> QED
    BY <2>3
<1> QED
  BY <1>1, <1>2

LEMMA OnceStays ==
  ASSUME LogTyped, JudgedOnce, UNCHANGED log_settings,
         \A d \in LogCalls : judging'[d] = judging[d],
         \A d \in LogCalls : DecisionsOf(d)' = DecisionsOf(d)
  PROVE  JudgedOnce'
BY DEF JudgedOnce, log_settings

LEMMA StepKeeps ==
  ASSUME LogSound, LogTyped', UNCHANGED log_settings, LogGrows, unheard \subseteq unheard',
         NEW c \in LogCalls, \A d \in LogCalls : d # c => CallSame(d),
         CallGoesOn(c), CallTrue(c)', JudgedOnce'
  PROVE  LogSound'
<1>1. \A d \in LogCalls : CallGoesOn(d)
  BY DEF CallSame, CallGoesOn
<1>2. LinesTrue'
  BY <1>1, LinesStay DEF LogSound
<1>3. \A d \in LogCalls : CallTrue(d)'
  BY OthersStay DEF LogSound
<1> QED
  BY <1>2, <1>3 DEF LogSound

LEMMA ProposedKeeps ==
  ASSUME LogSound, NEW c \in LogCalls, Proposed(c)
  PROVE  LogSound'
<1>1. /\ stage[c] = "new" /\ stage' = [stage EXCEPT ![c] = "judged"]
      /\ judging' = [judging EXCEPT ![c] = registrations]
      /\ UNCHANGED <<registrations, observer, sends_ids, decision_log, answers, reporting, person,
                     unheard, unwritten>>
  BY DEF Proposed, log_settings
<1>2. LogTyped /\ CallTrue(c) /\ JudgedOnce
  BY DEF LogSound
<1>3. LogTyped'
  BY <1>1, <1>2 DEF LogTyped, Stages
<1>4. /\ stage'[c] = "judged" /\ judging'[c] = registrations
      /\ \A d \in LogCalls : d # c => CallSame(d)
  BY <1>1, <1>2 DEF LogTyped, CallSame
<1>5. CallGoesOn(c)
  BY <1>1, <1>4 DEF CallGoesOn, Ended
<1>6. CallTrue(c)'
  BY <1>1, <1>2, <1>4 DEF CallTrue, HooksPlaced, AnswersHeeded, Ended
<1>7. JudgedOnce'
  <2>1. DecisionsOf(c) = {}
    BY <1>1, Evidence DEF DecisionsOf, DecisionTrue
  <2>2. \A d \in LogCalls : DecisionsOf(d)' = DecisionsOf(d)
    BY <1>1 DEF DecisionsOf
  <2> QED
    BY <1>1, <1>2, <1>4, <2>1, <2>2 DEF JudgedOnce, CallSame
<1>8. LogGrows /\ UNCHANGED log_settings /\ unheard \subseteq unheard'
  BY <1>1 DEF LogGrows, log_settings
<1> QED
  BY <1>3, <1>4, <1>5, <1>6, <1>7, <1>8, StepKeeps

\* A hook is heard, with or without its noted.
LEMMA HeardKeeps ==
  ASSUME LogSound, NEW c \in LogCalls, NEW noted \in Answers, NEW said \in Answers,
         Heard(c, said),
         \/ UNCHANGED decision_log
         \/ /\ append_line(decision_line(c, noted))
            /\ noted = said \/ c \in unheard',
         unheard \subseteq unheard'
  PROVE  LogSound'
<1>1. /\ judging[c] > 0 /\ judging' = [judging EXCEPT ![c] = @ - 1]
      /\ answers' = [answers EXCEPT ![c] = @ \cup {said}]
      /\ UNCHANGED <<registrations, observer, sends_ids, stage, reporting, person, unwritten>>
  BY DEF Heard, log_settings
<1>2. LogTyped /\ CallTrue(c) /\ JudgedOnce
  BY DEF LogSound
<1>3. stage[c] = "judged" /\ stage'[c] = "judged"
  BY <1>1, <1>2 DEF CallTrue, HooksPlaced
<1>4. /\ judging[c] \in Nat /\ judging'[c] = judging[c] - 1 /\ answers'[c] = answers[c] \cup {said}
      /\ \A d \in LogCalls : d # c => CallSame(d)
  BY <1>1, <1>2 DEF LogTyped, CallSame
<1>5. UNCHANGED log_settings /\ \A d : stamp(d)' = stamp(d)
  BY <1>1 DEF log_settings, stamp
<1>6. PICK l \in LogLines : /\ l = decision_line(c, noted)
                            /\ l.kind = "decision" /\ l.id = stamp(c) /\ l.answer = noted
  <2>1. stamp(c) \in SUBSET LogCalls
    BY DEF stamp
  <2>2. decision_line(c, noted) \in LogLines
    BY <2>1 DEF decision_line, LogLines
  <2>3. /\ decision_line(c, noted).kind = "decision" /\ decision_line(c, noted).id = stamp(c)
        /\ decision_line(c, noted).answer = noted
    BY DEF decision_line
  <2> QED
    BY <2>2, <2>3
<1>7. decision_log' = decision_log \/ (Adds(l) /\ LineTrue(l)')
  <2>1. CASE UNCHANGED decision_log
    BY <2>1
  <2>2. CASE append_line(l) /\ (noted = said \/ c \in unheard')
    <3>1. Adds(l)
      BY <1>6, <2>2 DEF append_line, Adds
    <3>2. DecisionTrue(l, c)'
      BY <1>3, <1>4, <1>5, <1>6, <2>2 DEF DecisionTrue
    <3> QED
      BY <3>1, <3>2 DEF LineTrue
  <2> QED
    BY <1>6, <2>1, <2>2
<1>8. LogGrows
  BY <1>6, <1>7 DEF LogGrows
<1>9. LogTyped'
  <2>1. decision_log' \in Seq(LogLines)
    BY <1>2, <1>7, Appended DEF LogTyped
  <2>2. judging' \in [LogCalls -> Nat]
    BY <1>1, <1>2, <1>4 DEF LogTyped
  <2>3. answers' \in [LogCalls -> SUBSET Answers]
    BY <1>1, <1>2 DEF LogTyped
  <2> QED
    BY <1>1, <1>2, <2>1, <2>2, <2>3 DEF LogTyped
<1>10. CallGoesOn(c)
  BY <1>3, <1>4 DEF CallGoesOn, Ended
<1>11. CallTrue(c)'
  <2>1. HooksPlaced(c)'
    BY <1>1, <1>2, <1>3, <1>4 DEF CallTrue, HooksPlaced, Ended
  <2>2. AnswersHeeded(c)'
    BY <1>3 DEF AnswersHeeded, Ended
  <2> QED
    BY <2>1, <2>2 DEF CallTrue
<1>12. JudgedOnce'
  <2> SUFFICES ASSUME registrations' = 1, NEW d \in LogCalls
               PROVE  /\ judging'[d] <= 1
                      /\ judging'[d] = 1 => DecisionsOf(d)' = {}
                      /\ \A i, k \in DecisionsOf(d)' : i = k
    BY DEF JudgedOnce
  <2>1. /\ judging[d] <= 1 /\ judging[d] \in Nat
        /\ judging[d] = 1 => DecisionsOf(d) = {}
        /\ \A i, k \in DecisionsOf(d) : i = k
    BY <1>1, <1>2 DEF JudgedOnce, LogTyped
  <2>2. CASE d # c
    <3>1. l.id # {d}
      BY <1>6, <2>2 DEF stamp
    <3>2. DecisionsOf(d)' = DecisionsOf(d)
      BY <1>2, <1>6, <1>7, <3>1, DecisionsStay
    <3> QED
      BY <1>4, <2>1, <2>2, <3>2 DEF CallSame
  <2>3. CASE d = c
    <3>1. judging[c] = 1 /\ judging'[c] = 0 /\ DecisionsOf(c) = {}
      BY <1>1, <1>4, <2>1, <2>3
    <3>2. \A i \in DecisionsOf(c)' : i = Len(decision_log) + 1
      <4>1. \A i : i \notin DOMAIN decision_log \/ ~(decision_log[i].kind = "decision" /\ decision_log[i].id = {c})
        BY <3>1 DEF DecisionsOf
      <4>2. \A i \in DecisionsOf(c)' :
              i \in DOMAIN decision_log' /\ decision_log'[i].kind = "decision" /\ decision_log'[i].id = {c}
        BY DEF DecisionsOf
      <4>3. CASE decision_log' = decision_log
        BY <4>1, <4>2, <4>3
      <4>4. CASE Adds(l)
        BY <1>2, <4>1, <4>2, <4>4, Appended
      <4> QED
        BY <1>7, <4>3, <4>4
    <3> QED
      BY <2>3, <3>1, <3>2
  <2> QED
    BY <2>2, <2>3
<1> QED
  BY <1>4, <1>5, <1>8, <1>9, <1>10, <1>11, <1>12, StepKeeps

LEMMA DecidesKeeps ==
  ASSUME LogSound, NEW c \in LogCalls, HostDecides(c)
  PROVE  LogSound'
<1>1. /\ stage[c] = "judged" /\ judging[c] = 0
      /\ \/ stage' = [stage EXCEPT ![c] = "refused"] /\ ("ask" \in answers[c] => "deny" \in answers[c])
         \/ /\ stage' = [stage EXCEPT ![c] = "asked"]
            /\ "ask" \in answers[c] /\ "deny" \notin answers[c]
         \/ /\ stage' = [stage EXCEPT ![c] = "running"]
            /\ "ask" \notin answers[c] /\ "deny" \notin answers[c]
      /\ UNCHANGED <<registrations, observer, sends_ids, decision_log, judging, answers,
                     reporting, person, unheard, unwritten>>
  <2>1. CASE "deny" \in answers[c]
    BY <2>1 DEF HostDecides, Decides, log_settings
  <2>2. CASE "ask" \in answers[c] /\ "deny" \notin answers[c]
    BY <2>2 DEF HostDecides, Decides, log_settings
  <2>3. CASE "ask" \notin answers[c] /\ "deny" \notin answers[c]
    BY <2>3 DEF HostDecides, Decides, log_settings
  <2> QED
    BY <2>1, <2>2, <2>3
<1>2. LogTyped /\ CallTrue(c) /\ JudgedOnce
  BY DEF LogSound
<1>3. LogTyped'
  BY <1>1, <1>2 DEF LogTyped, Stages
<1>4. /\ \/ stage'[c] = "refused" /\ ("ask" \in answers[c] => "deny" \in answers[c])
         \/ stage'[c] = "asked" /\ "ask" \in answers[c] /\ "deny" \notin answers[c]
         \/ stage'[c] = "running" /\ "ask" \notin answers[c] /\ "deny" \notin answers[c]
      /\ \A d \in LogCalls : d # c => CallSame(d)
  BY <1>1, <1>2 DEF LogTyped, CallSame
<1>5. CallGoesOn(c)
  BY <1>1, <1>4 DEF CallGoesOn, Ended
<1>6. CallTrue(c)'
  BY <1>1, <1>2, <1>4 DEF CallTrue, HooksPlaced, AnswersHeeded, Ended
<1>7. JudgedOnce'
  BY <1>1, <1>2 DEF JudgedOnce, DecisionsOf
<1>8. LogGrows /\ UNCHANGED log_settings /\ unheard \subseteq unheard'
  BY <1>1 DEF LogGrows, log_settings
<1> QED
  BY <1>3, <1>4, <1>5, <1>6, <1>7, <1>8, StepKeeps

LEMMA PersonKeeps ==
  ASSUME LogSound, NEW c \in LogCalls, NEW says \in {"yes", "no"}, PersonSays(c, says)
  PROVE  LogSound'
<1>1. /\ stage[c] = "asked" /\ person' = [person EXCEPT ![c] = says]
      /\ stage' = [stage EXCEPT ![c] = IF says = "yes" THEN "running" ELSE "refused"]
      /\ UNCHANGED <<registrations, observer, sends_ids, decision_log, judging, answers,
                     reporting, unheard, unwritten>>
  BY DEF PersonSays, log_settings
<1>2. LogTyped /\ CallTrue(c) /\ JudgedOnce
  BY DEF LogSound
<1>3. LogTyped'
  BY <1>1, <1>2 DEF LogTyped, Stages
<1>4. /\ person'[c] = says /\ stage'[c] = (IF says = "yes" THEN "running" ELSE "refused")
      /\ \A d \in LogCalls : d # c => CallSame(d)
  BY <1>1, <1>2 DEF LogTyped, CallSame
<1>5. CallGoesOn(c)
  BY <1>1, <1>4 DEF CallGoesOn, Ended
<1>6. CallTrue(c)'
  BY <1>1, <1>2, <1>4 DEF CallTrue, HooksPlaced, AnswersHeeded, Ended
<1>7. JudgedOnce'
  BY <1>1, <1>2 DEF JudgedOnce, DecisionsOf
<1>8. LogGrows /\ UNCHANGED log_settings /\ unheard \subseteq unheard'
  BY <1>1 DEF LogGrows, log_settings
<1> QED
  BY <1>3, <1>4, <1>5, <1>6, <1>7, <1>8, StepKeeps

LEMMA ToolEndsKeeps ==
  ASSUME LogSound, NEW c \in LogCalls, NEW status \in Ended, ToolEnds(c, status)
  PROVE  LogSound'
<1>1. /\ stage[c] = "running" /\ stage' = [stage EXCEPT ![c] = status]
      /\ reporting' = [reporting EXCEPT ![c] = IF observer THEN registrations ELSE 0]
      /\ UNCHANGED <<registrations, observer, sends_ids, decision_log, judging, answers,
                     person, unheard, unwritten>>
  BY DEF ToolEnds, log_settings
<1>2. LogTyped /\ CallTrue(c) /\ JudgedOnce
  BY DEF LogSound
<1>3. LogTyped'
  BY <1>1, <1>2 DEF LogTyped, Stages
<1>4. /\ stage'[c] = status /\ reporting'[c] = (IF observer THEN registrations ELSE 0)
      /\ \A d \in LogCalls : d # c => CallSame(d)
  BY <1>1, <1>2 DEF LogTyped, CallSame
<1>5. CallGoesOn(c)
  BY <1>1, <1>4 DEF CallGoesOn, Ended
<1>6. CallTrue(c)'
  <2>1. unwritten[c] = 0 /\ registrations \in Nat
    BY <1>1, <1>2 DEF CallTrue, HooksPlaced, Ended, LogTyped
  <2>2. HooksPlaced(c)'
    BY <1>1, <1>2, <1>4, <2>1 DEF CallTrue, HooksPlaced, Ended
  <2>3. AnswersHeeded(c)'
    BY <1>1, <1>2, <1>4 DEF CallTrue, AnswersHeeded, Ended
  <2> QED
    BY <2>2, <2>3 DEF CallTrue
<1>7. JudgedOnce'
  BY <1>1, <1>2 DEF JudgedOnce, DecisionsOf
<1>8. LogGrows /\ UNCHANGED log_settings /\ unheard \subseteq unheard'
  BY <1>1 DEF LogGrows, log_settings
<1> QED
  BY <1>3, <1>4, <1>5, <1>6, <1>7, <1>8, StepKeeps

LEMMA ReportedKeeps ==
  ASSUME LogSound, NEW c \in LogCalls, OutcomeReported(c)
  PROVE  LogSound'
<1>1. /\ reporting[c] > 0 /\ reporting' = [reporting EXCEPT ![c] = @ - 1]
      /\ append_line(outcome_line(c, stage[c]))
      /\ UNCHANGED <<registrations, observer, sends_ids, stage, judging, answers,
                     person, unheard, unwritten>>
  BY DEF OutcomeReported, log_settings
<1>2. LogTyped /\ CallTrue(c) /\ JudgedOnce
  BY DEF LogSound
<1>3. stage[c] \in Ended /\ observer /\ reporting[c] \in Nat
  BY <1>1, <1>2 DEF CallTrue, HooksPlaced, LogTyped
<1>4. /\ reporting'[c] = reporting[c] - 1
      /\ \A d \in LogCalls : d # c => CallSame(d)
  BY <1>1, <1>2 DEF LogTyped, CallSame
<1>5. UNCHANGED log_settings /\ \A d : stamp(d)' = stamp(d)
  BY <1>1 DEF log_settings, stamp
<1>6. PICK l \in LogLines : /\ l = outcome_line(c, stage[c]) /\ l.kind = "outcome"
                            /\ l.id = stamp(c) /\ l.status = stage[c]
  <2>1. stamp(c) \in SUBSET LogCalls
    BY DEF stamp
  <2>2. outcome_line(c, stage[c]) \in LogLines
    BY <1>3, <2>1 DEF outcome_line, LogLines, Answers
  <2>3. /\ outcome_line(c, stage[c]).kind = "outcome" /\ outcome_line(c, stage[c]).id = stamp(c)
        /\ outcome_line(c, stage[c]).status = stage[c]
    BY DEF outcome_line
  <2> QED
    BY <2>2, <2>3
<1>7. Adds(l)
  BY <1>1, <1>6 DEF append_line, Adds
<1>8. LogGrows
  <2>1. OutcomeTrue(l, c)'
    BY <1>1, <1>3, <1>5, <1>6 DEF OutcomeTrue
  <2> QED
    BY <1>7, <2>1 DEF LogGrows, LineTrue
<1>9. LogTyped'
  <2>1. decision_log' \in Seq(LogLines)
    BY <1>2, <1>7, Appended
  <2>2. reporting' \in [LogCalls -> Nat]
    BY <1>1, <1>2, <1>3 DEF LogTyped
  <2> QED
    BY <1>1, <1>2, <2>1, <2>2 DEF LogTyped
<1>10. CallGoesOn(c)
  BY <1>1 DEF CallGoesOn
<1>11. CallTrue(c)'
  <2>1. OutcomeLine(c)'
    BY <1>2, <1>5, <1>6, <1>7, Appended DEF OutcomeLine
  <2>2. HooksPlaced(c)'
    BY <1>1, <1>2, <1>3, <2>1 DEF CallTrue, HooksPlaced
  <2>3. AnswersHeeded(c)'
    BY <1>1, <1>2 DEF CallTrue, AnswersHeeded
  <2> QED
    BY <2>2, <2>3 DEF CallTrue
<1>12. JudgedOnce'
  <2>1. \A d \in LogCalls : DecisionsOf(d)' = DecisionsOf(d)
    BY <1>2, <1>6, <1>7, DecisionsStay
  <2> QED
    BY <1>1, <1>2, <1>5, <2>1, OnceStays
<1> QED
  BY <1>1, <1>4, <1>5, <1>8, <1>9, <1>10, <1>11, <1>12, StepKeeps

LEMMA OutcomeLostKeeps ==
  ASSUME LogSound, NEW c \in LogCalls, OutcomeLost(c)
  PROVE  LogSound'
<1>1. /\ reporting[c] > 0 /\ reporting' = [reporting EXCEPT ![c] = @ - 1]
      /\ unwritten' = [unwritten EXCEPT ![c] = @ + 1]
      /\ UNCHANGED <<registrations, observer, sends_ids, decision_log, stage, judging, answers,
                     person, unheard>>
  BY DEF OutcomeLost, log_settings
<1>2. LogTyped /\ CallTrue(c) /\ JudgedOnce
  BY DEF LogSound
<1>3. /\ reporting[c] \in Nat /\ unwritten[c] \in Nat /\ registrations \in Nat
      /\ reporting'[c] = reporting[c] - 1 /\ unwritten'[c] = unwritten[c] + 1
      /\ stage[c] \in Ended /\ observer
      /\ \A d \in LogCalls : d # c => CallSame(d)
  BY <1>1, <1>2 DEF LogTyped, CallSame, CallTrue, HooksPlaced
<1>4. LogTyped'
  <2>1. reporting' \in [LogCalls -> Nat] /\ unwritten' \in [LogCalls -> Nat]
    BY <1>1, <1>2, <1>3 DEF LogTyped
  <2> QED
    BY <1>1, <1>2, <2>1 DEF LogTyped
<1>5. CallGoesOn(c)
  BY <1>1 DEF CallGoesOn
<1>6. CallTrue(c)'
  <2>1. OutcomeLine(c)' = OutcomeLine(c)
    BY <1>1 DEF OutcomeLine, stamp
  <2>2. HooksPlaced(c)'
    BY <1>1, <1>2, <1>3, <2>1 DEF CallTrue, HooksPlaced
  <2>3. AnswersHeeded(c)'
    BY <1>1, <1>2 DEF CallTrue, AnswersHeeded
  <2> QED
    BY <2>2, <2>3 DEF CallTrue
<1>7. JudgedOnce'
  BY <1>1, <1>2 DEF JudgedOnce, DecisionsOf
<1>8. LogGrows /\ UNCHANGED log_settings /\ unheard \subseteq unheard'
  BY <1>1 DEF LogGrows, log_settings
<1> QED
  BY <1>3, <1>4, <1>5, <1>6, <1>7, <1>8, StepKeeps

LEMMA LogStays ==
  ASSUME LogSound, LogNext
  PROVE  LogSound'
<1>1. PICK c \in LogCalls :
        \/ Proposed(c) \/ HostDecides(c) \/ OutcomeReported(c) \/ OutcomeLost(c)
        \/ \E noted \in Answers : HookAnswers(c, noted) \/ LineLost(c, noted) \/ HookKilled(c, noted)
        \/ \E says \in {"yes", "no"} : PersonSays(c, says)
        \/ \E status \in Ended : ToolEnds(c, status)
  BY DEF LogNext
<1>2. ASSUME NEW noted \in Answers,
             HookAnswers(c, noted) \/ LineLost(c, noted) \/ HookKilled(c, noted)
      PROVE  LogSound'
  <2>1. NoAnswer \in Answers
    BY DEF Answers
  <2>2. CASE HookAnswers(c, noted)
    BY <2>2, HeardKeeps DEF HookAnswers
  <2>3. CASE LineLost(c, noted)
    BY <2>3, HeardKeeps DEF LineLost
  <2>4. CASE HookKilled(c, noted)
    <3>1. Heard(c, NoAnswer) /\ unheard \subseteq unheard'
      BY <2>4 DEF HookKilled
    <3>2. (UNCHANGED decision_log) \/ (append_line(decision_line(c, noted)) /\ c \in unheard')
      BY <2>4 DEF HookKilled
    <3> QED
      BY <2>1, <3>1, <3>2, HeardKeeps
  <2> QED
    BY <1>2, <2>2, <2>3, <2>4
<1> QED
  BY <1>1, <1>2, ProposedKeeps, DecidesKeeps, ReportedKeeps, OutcomeLostKeeps, PersonKeeps,
     ToolEndsKeeps

LEMMA LogStarts ==
  ASSUME NEW Settings \in SUBSET (Nat \X BOOLEAN \X BOOLEAN), LogInit(Settings)
  PROVE  LogSound
<1>1. PICK set \in Settings : registrations = set[1]
  BY DEF LogInit
<1>2. /\ decision_log = <<>> /\ stage = [c \in LogCalls |-> "new"]
      /\ judging = [c \in LogCalls |-> 0] /\ answers = [c \in LogCalls |-> {}]
      /\ reporting = [c \in LogCalls |-> 0] /\ person = [c \in LogCalls |-> "unasked"]
      /\ unwritten = [c \in LogCalls |-> 0]
  BY DEF LogInit
<1>3. registrations \in Nat
  BY <1>1
<1>4. LogTyped
  BY <1>2, <1>3 DEF LogTyped, Stages, LogLines
<1>5. \A c \in LogCalls : CallTrue(c)
  BY <1>2 DEF CallTrue, HooksPlaced, AnswersHeeded, Ended
<1>6. LinesTrue /\ JudgedOnce
  BY <1>2 DEF LinesTrue, JudgedOnce, DecisionsOf
<1> QED
  BY <1>4, <1>5, <1>6 DEF LogSound

LEMMA LogRests ==
  ASSUME LogSound, UNCHANGED log_vars
  PROVE  LogSound'
<1>1. /\ UNCHANGED <<registrations, observer, sends_ids, decision_log, stage, judging, answers,
                     reporting, person, unheard, unwritten>>
  BY DEF log_vars
<1>2. LogTyped' /\ LinesTrue'
  BY <1>1 DEF LogSound, LogTyped, LinesTrue, LineTrue, DecisionTrue, OutcomeTrue, stamp
<1>3. \A c \in LogCalls : CallTrue(c)'
  BY <1>1 DEF LogSound, CallTrue, HooksPlaced, AnswersHeeded, OutcomeLine, stamp
<1>4. JudgedOnce'
  BY <1>1 DEF LogSound, JudgedOnce, DecisionsOf
<1> QED
  BY <1>2, <1>3, <1>4 DEF LogSound
================================================================================

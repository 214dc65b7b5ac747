------------------------------- MODULE HookLog -------------------------------
(***************************************************************************)
(* The decision log of the hooks and what is read out of it (cli-harness:  *)
(* cc_hook.rs, outcome.rs, otlp.rs, replay_transcripts.rs).  Every hook    *)
(* that judges a call appends a line with its answer; when the call has    *)
(* ended, every observer appends a line that it ran.  A reader joins the   *)
(* two by the host's id of the call, at any time, and infers from whether  *)
(* the call ran what the person said to an ASK.                            *)
(*                                                                         *)
(* One session.  Its calls run side by side; where the hook is registered  *)
(* twice, two hooks and two observers see every call.  What a hook answers *)
(* is HookSession's and HookHost's; here it may be anything.               *)
(***************************************************************************)
EXTENDS Filtered

CONSTANTS
  LogCalls,      \* the calls of the session, by the host's id
  MaxLogFaults   \* bound: hooks and observers that are killed or cannot write

VARIABLES
  registrations, \* how often the hook is registered
  observer,      \* the observer is registered with it
  sends_ids,     \* the host sends the ids of its calls
  decision_log,  \* the lines of the log
  stage,         \* of every call: new, judged, asked, running, refused, or how it ended
  judging,       \* hooks that still judge it
  answers,       \* what the host heard from those that did
  reporting,     \* observers that still report its end
  person,        \* what the person said, if anybody was asked
  log_faults,
  unheard,       \* history: calls a hook was killed over between its line and its answer
  unwritten      \* history: of every call, the observers that did not report its end

log_vars == <<registrations, observer, sends_ids, decision_log, stage, judging, answers,
              reporting, person, log_faults, unheard, unwritten>>
log_settings == <<registrations, observer, sends_ids>>

NoAnswer == "none"   \* a hook stays silent, allows, or is killed
Answers == {"deny", "ask", NoAnswer}
Ended == {"ok", "error"}

\* `Settings` are those of the session that is started.
LogInit(Settings) ==
  /\ \E set \in Settings :
       registrations = set[1] /\ observer = set[2] /\ sends_ids = set[3]
  /\ decision_log = <<>>
  /\ stage = [c \in LogCalls |-> "new"]
  /\ judging = [c \in LogCalls |-> 0]
  /\ answers = [c \in LogCalls |-> {}]
  /\ reporting = [c \in LogCalls |-> 0]
  /\ person = [c \in LogCalls |-> "unasked"]
  /\ log_faults = 0
  /\ unheard = {}
  /\ unwritten = [c \in LogCalls |-> 0]

-----------------------------------------------------------------------------
(* The hooks.                                                              *)

\* The id a line carries, if the host sent one.
stamp(c) == IF sends_ids THEN {c} ELSE {}

decision_line(c, answer) == [kind |-> "decision", id |-> stamp(c), answer |-> answer, status |-> ""]
outcome_line(c, status) == [kind |-> "outcome", id |-> stamp(c), answer |-> NoAnswer, status |-> status]

\* One write on a file opened to append: lines never mix.
append_line(line) == decision_log' = Append(decision_log, line)

LogFault == log_faults < MaxLogFaults /\ log_faults' = log_faults + 1

\* The host starts every hook that is registered.
Proposed(c) ==
  /\ stage[c] = "new"
  /\ stage' = [stage EXCEPT ![c] = "judged"]
  /\ judging' = [judging EXCEPT ![c] = registrations]
  /\ UNCHANGED <<log_settings, decision_log, answers, reporting, person, log_faults, unheard,
                 unwritten>>

Heard(c, answer) ==
  /\ judging[c] > 0
  /\ judging' = [judging EXCEPT ![c] = @ - 1]
  /\ answers' = [answers EXCEPT ![c] = @ \cup {answer}]
  /\ UNCHANGED <<log_settings, stage, reporting, person, unwritten>>

\* The answer is recorded, then given.
HookAnswers(c, answer) ==
  /\ Heard(c, answer)
  /\ append_line(decision_line(c, answer))
  /\ UNCHANGED <<log_faults, unheard>>

\* A log that cannot be written changes no answer.
LineLost(c, answer) ==
  /\ LogFault
  /\ Heard(c, answer)
  /\ UNCHANGED <<decision_log, unheard>>

\* A hook that is killed has answered nothing, whether its line is there or not.
HookKilled(c, answer) ==
  /\ LogFault
  /\ Heard(c, NoAnswer)
  /\ \/ UNCHANGED <<decision_log, unheard>>
     \/ /\ append_line(decision_line(c, answer))
        /\ unheard' = unheard \cup {c}

-----------------------------------------------------------------------------
(* The host and the person in front of it (external).                      *)

Decides(c, next) ==
  /\ stage[c] = "judged" /\ judging[c] = 0
  /\ stage' = [stage EXCEPT ![c] = next]
  /\ UNCHANGED <<log_settings, decision_log, judging, answers, reporting, person, log_faults,
                 unheard, unwritten>>

\* The strictest answer counts; where there is none, the host's own rules.
HostDecides(c) ==
  CASE "deny" \in answers[c] -> Decides(c, "refused")
    [] "ask" \in answers[c] /\ "deny" \notin answers[c] -> Decides(c, "asked")
    [] OTHER -> Decides(c, "running") \/ Decides(c, "refused")

PersonSays(c, says) ==
  /\ stage[c] = "asked"
  /\ person' = [person EXCEPT ![c] = says]
  /\ stage' = [stage EXCEPT ![c] = IF says = "yes" THEN "running" ELSE "refused"]
  /\ UNCHANGED <<log_settings, decision_log, judging, answers, reporting, log_faults, unheard,
                 unwritten>>

ToolEnds(c, status) ==
  /\ stage[c] = "running"
  /\ stage' = [stage EXCEPT ![c] = status]
  /\ reporting' = [reporting EXCEPT ![c] = IF observer THEN registrations ELSE 0]
  /\ UNCHANGED <<log_settings, decision_log, judging, answers, person, log_faults, unheard,
                 unwritten>>

\* The observer writes one line, or is killed, or cannot.
OutcomeReported(c) ==
  /\ reporting[c] > 0
  /\ reporting' = [reporting EXCEPT ![c] = @ - 1]
  /\ append_line(outcome_line(c, stage[c]))
  /\ UNCHANGED <<log_settings, stage, judging, answers, person, log_faults, unheard, unwritten>>

OutcomeLost(c) ==
  /\ reporting[c] > 0
  /\ LogFault
  /\ reporting' = [reporting EXCEPT ![c] = @ - 1]
  /\ unwritten' = [unwritten EXCEPT ![c] = @ + 1]
  /\ UNCHANGED <<log_settings, decision_log, stage, judging, answers, person, unheard>>

LogNext ==
  \E c \in LogCalls :
    \/ Proposed(c) \/ HostDecides(c) \/ OutcomeReported(c) \/ OutcomeLost(c)
    \/ \E answer \in Answers : HookAnswers(c, answer) \/ LineLost(c, answer) \/ HookKilled(c, answer)
    \/ \E says \in {"yes", "no"} : PersonSays(c, says)
    \/ \E status \in Ended : ToolEnds(c, status)

-----------------------------------------------------------------------------
(* Reading the log.                                                        *)

decisions(lines) == Filtered(lines, {i \in DOMAIN lines : lines[i].kind = "decision"})

\* The last outcome line of a call, if there is one.
outcome_of(lines, id) ==
  LET at == {i \in DOMAIN lines : lines[i].kind = "outcome" /\ lines[i].id = id /\ id # {}}
  IN  {lines[i] : i \in {j \in at : \A k \in at : k <= j}}

\* Variant: without an outcome line nothing ran, whether anybody watched or not.
observed_Always(lines) == TRUE

\* Where no call left an outcome line there is no observer: its absence proves
\* nothing.
observed(lines) == \E i \in DOMAIN lines : lines[i].kind = "outcome"

\* One decision with what followed it.
Joined(lines, d) ==
  LET ran == IF observed(lines) THEN {outcome_of(lines, d.id) # {}} ELSE {}
  IN  [id |-> d.id, answer |-> d.answer, ran |-> ran,
       human_answer |-> IF d.answer # "ask" THEN NoAnswer
                        ELSE IF ran = {} THEN "unobserved"
                        ELSE IF ran = {TRUE} THEN "approved"
                        ELSE "declined_or_abandoned",
       ran_despite_deny |-> d.answer = "deny" /\ ran = {TRUE}]

\* A decision without an id cannot be joined.
joined_lines(lines) ==
  LET all == decisions(lines)
      ds == Filtered(all, {i \in DOMAIN all : all[i].id # {}})
  IN  [i \in DOMAIN ds |-> Joined(lines, ds[i])]

\* What `--decisions` shows of a call: the last of its decisions.
live(lines, c) ==
  LET at == {i \in DOMAIN joined_lines(lines) : joined_lines(lines)[i].id = {c}}
  IN  {joined_lines(lines)[i] : i \in {j \in at : \A k \in at : k <= j}}

\* The status of a span: a refusal and a failure are errors, a call that did not
\* run for any other reason is not.
span_status(answer, outcome) ==
  CASE outcome = {} -> IF answer = "deny" THEN "ERROR" ELSE "UNSET"
    [] \E o \in outcome : o.status = "ok" -> "OK"
    [] OTHER -> "ERROR"

\* One span per decision line.  The joined decisions are taken in their order, one
\* for every line that has an id; the index tells the decisions of one call apart.
export(lines) ==
  LET ds == decisions(lines)
      nth(i) == Cardinality({j \in 1 .. i - 1 : ds[j].id = ds[i].id})
      next(i) == Cardinality({j \in 1 .. i : ds[j].id # {}})
  IN  [i \in DOMAIN ds |->
         [call |-> ds[i].id, decision_index |-> nth(i), answer |-> ds[i].answer,
          joined |-> IF ds[i].id = {} THEN {} ELSE {joined_lines(lines)[next(i)]},
          status |-> span_status(ds[i].answer, outcome_of(lines, ds[i].id))]]

-----------------------------------------------------------------------------
(* Properties.                                                             *)

\* The call has ended, and its observers are done and did not all fail.
Reported(c) == stage[c] \in Ended /\ reporting[c] = 0 /\ unwritten[c] < registrations

\* What a joined decision says is so.  A call it says ran has ended; one it says
\* did not run did not, or its observers all failed or are not done.  Who is said
\* to have approved did, and who is said to have declined or gone away did, unless
\* the lines of the end are missing, another hook refused the call, or a killed
\* hook's answer never reached the host.  Only such a hook's refusal is overridden.
JoinTruthful(lines) ==
  \A i \in DOMAIN joined_lines(lines) :
    LET j == joined_lines(lines)[i]
    IN  \A c \in j.id :
          /\ j.ran = {TRUE} => stage[c] \in Ended
          /\ j.ran = {FALSE} => ~Reported(c)
          /\ j.human_answer = "approved" => person[c] = "yes" \/ c \in unheard
          /\ j.human_answer = "declined_or_abandoned" =>
               \/ person[c] = "no" \/ stage[c] \in {"judged", "asked", "running"}
               \/ stage[c] \in Ended /\ ~Reported(c)
               \/ "deny" \in answers[c] \/ c \in unheard
          /\ j.ran_despite_deny => c \in unheard
          /\ (j.answer = "deny" /\ observer /\ Reported(c)) =>
               j.ran_despite_deny

\* Every decision has its own span, which says what the join says of it, and its
\* status what became of the call.
SpansTruthful(lines) ==
  LET s == export(lines)
  IN  /\ \A i, k \in DOMAIN s :
           s[i].call = s[k].call /\ s[i].decision_index = s[k].decision_index => i = k
      /\ \A i \in DOMAIN s :
           /\ \A j \in s[i].joined : j.id = s[i].call /\ j.answer = s[i].answer
           /\ s[i].status = "OK" => \A c \in s[i].call : stage[c] = "ok"

\* The hook log never lies, at whatever moment it is read and whichever lines are
\* missing, to the readers of it: the join, the exported spans and, where one hook
\* judges a call, the report of a transcript (outcome.rs: join; otlp.rs: export;
\* replay_transcripts.rs: print_live).
LogTruthful ==
  /\ JoinTruthful(decision_log)
  /\ SpansTruthful(decision_log)
  /\ registrations = 1 =>
       \A c \in LogCalls : \A i \in DOMAIN joined_lines(decision_log) :
         joined_lines(decision_log)[i].id = {c} => live(decision_log, c) = {joined_lines(decision_log)[i]}
=============================================================================

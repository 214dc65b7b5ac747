--------------------------- MODULE SignedLogProofs ---------------------------
(***************************************************************************)
(* Proofs about SignedLog, for any number of store instances, lines and    *)
(* faults.                                                                 *)
(*                                                                         *)
(* LogInv is inductive under every fault.  It says where the holder of the *)
(* lock is between the file and what it means to write (WriterAt), that    *)
(* the lines chain and only the last one can be broken (LogShaped), and    *)
(* that an acknowledged line is synced, or the log is Dead: its last line  *)
(* is garbled for good.  More invariants stand on it, each under the      *)
(* faults it holds for: KeyFirst always, KeyWhole and MarksReached without *)
(* power loss, SlackLeft up to the first fault whatever it is, WholeWrites *)
(* where no write is cut at its newline and none is taken back.            *)
(***************************************************************************)
EXTENDS SignedLog, SequenceTheorems, FiniteSetTheorems, TLAPS

-----------------------------------------------------------------------------
(* The invariants.                                                         *)

Places == {"closed", "key_write", "open_read", "open_head", "open_wait", "open_ensure",
           "open_load", "open_anchor", "idle", "wait", "reload", "write", "newline",
           "sync", "head", "dirsync"}

\* Where the code holds the lock, and where its line is in the log and not anchored.
Holding == {"open_ensure", "open_load", "open_anchor", "reload", "write", "newline",
            "sync", "head", "dirsync"}
Writing == {"newline", "sync", "head"}

\* The types of the state.
LogTyped ==
  /\ key \in {"none", "short", "good"}
  /\ log \in Seq(Lines)
  /\ synced \in Nat
  /\ head \in Seq(Procs) \union {NoHead}
  /\ headDisk \in Seq(Procs) \union {NoHead}
  /\ lock \in Procs \union {NoProc}
  /\ pc \in [Procs -> Places]
  /\ ret \in [Procs -> {"none", "open_load", "idle", "acked"}]
  /\ view \in [Procs -> Seq(Lines)]
  /\ seen \in [Procs -> Seq(Procs)]
  /\ acked \in SUBSET Seq(Procs)
  /\ faults \in Nat

\* Every line, garbled or not, was written after the one before it: its MAC is
\* that of a prefix of its own length.
Spine(l) == \A i \in 1..Len(l) : l[i].prev = MacAt(l, i - 1) /\ Len(l[i].prev) = i - 1

\* An append under the lock refuses a garbled log and garbles an unended one.
OnlyLastBroken(l) == \A i \in 1..Len(l) : i < Len(l) => l[i].form = "whole"

Garbled(l) == l # <<>> /\ l[Len(l)].form = "garbled"

LogShaped == Spine(log) /\ OnlyLastBroken(log) /\ synced <= Len(log)

LockHeld == \A p \in Procs : pc[p] \in Holding => lock = p

\* The MAC of the line that p writes.
NewMac(p) == Append(TailOf(view[p]), p)

\* The text of p is the last line of the log, or has spoilt the unended line that
\* was there; p does not notice, and goes on with a MAC one line past the log.
Landed(p, form) ==
  /\ log # <<>>
  /\ \/ NewMac(p) = TailOf(log) /\ log[Len(log)].form = form
     \/ Garbled(log) /\ Len(NewMac(p)) = Len(log) + 1

\* What p knows of the file at each place under the lock.
WriterAt(p) ==
  /\ pc[p] = "write" => view[p] = log /\ LoadOk(log, head)
  /\ pc[p] = "open_anchor" => view[p] = log /\ LoadOk(log, head) /\ Ahead(log, head)
  /\ pc[p] \in Writing =>
       /\ Landed(p, IF pc[p] = "newline" THEN "unended" ELSE "whole")
       /\ head # NoHead
       /\ Len(head) < Len(NewMac(p))
  /\ pc[p] = "head" => seen[p] = NewMac(p) /\ synced = Len(log)
  /\ pc[p] = "dirsync" /\ ret[p] = "acked" =>
       /\ Landed(p, "whole")
       /\ seen[p] = NewMac(p)
       /\ head = seen[p]
       /\ synced = Len(log)

WritersPlaced == \A p \in Procs : WriterAt(p)

\* A garbled last line that no power loss can take back.
Dead == Garbled(log) /\ synced = Len(log)

\* An acknowledged line is on the disk, and no later text can land on it.
AckedSynced ==
  \A m \in acked :
    \/ Dead
    \/ /\ Reaches(log, m)
       /\ Len(m) <= synced
       /\ Len(m) = Len(log) => EndsCleanly(log)

\* Every mark that somebody keeps is one that the log reaches: the head's, those of
\* the instances, and what an opener read before the head without the lock.
MarksReached ==
  /\ head # NoHead => Garbled(log) \/ Reaches(log, head)
  /\ \A p \in Procs : Garbled(log) \/ Reaches(log, seen[p])
  /\ \A p \in Procs : pc[p] = "open_head" => Garbled(log) \/ Reaches(log, TailOf(view[p]))
  /\ \A m \in acked : head # NoHead /\ Len(m) <= Len(head)

\* Somebody has written a line that no head anchors yet.
Busy == \E p \in Procs : pc[p] \in Writing

\* The log reaches h and is at most k lines longer.
Within(h, k) ==
  \/ h = NoHead /\ log = <<>>
  \/ h # NoHead /\ Reaches(log, h) /\ Len(log) <= Len(h) + k

\* How far the log may be ahead of the head, by the faults so far.
Slack == IF Busy THEN faults + 1 ELSE faults

NearHead == Garbled(log) \/ Within(head, Slack)

\* Before the first fault: the head a power loss would bring back is as good, and
\* neither head is ahead of what was synced.
Faultless ==
  /\ ~Garbled(log)
  /\ EndsCleanly(log) \/ \E p \in Procs : pc[p] = "newline"
  /\ headDisk = head \/ \E p \in Procs : pc[p] = "dirsync"
  /\ Within(headDisk, 1)
  /\ head # NoHead => Len(head) <= synced
  /\ headDisk # NoHead => Len(headDisk) <= synced

SlackLeft == (faults <= 1 => NearHead) /\ (faults = 0 => Faultless)

\* A line is unended only while its writer is about to end it, so that no text
\* lands on another line.
WholeWrites ==
  /\ ~EndsCleanly(log) => Garbled(log) \/ \E p \in Procs : pc[p] = "newline"
  /\ \A p \in Procs : pc[p] \in Writing \/ (pc[p] = "dirsync" /\ ret[p] = "acked") => ~Garbled(log)

LogInv == LogTyped /\ LogShaped /\ LockHeld /\ WritersPlaced /\ AckedSynced

-----------------------------------------------------------------------------
(* Lines, cuts and marks.                                                  *)

Forms == {"whole", "unended", "garbled"}

\* The first n lines of l and k say the same, whatever reached the disk of them.
Agree(l, k, n) ==
  /\ n \in 0..Len(l) /\ n <= Len(k)
  /\ \A i \in 1..n : k[i].prev = l[i].prev /\ k[i].ev = l[i].ev

LEMMA MacTyped ==
  ASSUME NEW l \in Seq(Lines), NEW i \in 0..Len(l)
  PROVE  MacAt(l, i) \in Seq(Procs)
<1>1. CASE i = 0 BY <1>1 DEF MacAt, Genesis
<1>2. CASE i # 0
  <2>1. l[i] \in Lines BY <1>2
  <2>2. l[i].prev \in Seq(Procs) /\ l[i].ev \in Procs BY <2>1 DEF Lines
  <2> QED BY <1>2, <2>2 DEF MacAt, line_mac
<1> QED BY <1>1, <1>2

LEMMA MacLen ==
  ASSUME NEW l \in Seq(Lines), Spine(l), NEW i \in 0..Len(l)
  PROVE  Len(MacAt(l, i)) = i
<1>1. CASE i = 0 BY <1>1 DEF MacAt, Genesis
<1>2. CASE i # 0
  <2>1. l[i] \in Lines BY <1>2
  <2>2. l[i].prev \in Seq(Procs) /\ l[i].ev \in Procs BY <2>1 DEF Lines
  <2>3. Len(l[i].prev) = i - 1 BY <1>2 DEF Spine
  <2> QED BY <1>2, <2>2, <2>3 DEF MacAt, line_mac
<1> QED BY <1>1, <1>2

LEMMA AgreeMac ==
  ASSUME NEW l, NEW k, NEW n, Agree(l, k, n), NEW i \in 0..n
  PROVE  MacAt(k, i) = MacAt(l, i)
BY DEF Agree, MacAt, line_mac

LEMMA AgreeReaches ==
  ASSUME NEW l \in Seq(Lines), NEW k \in Seq(Lines), NEW n, Agree(l, k, n),
         NEW m \in Seq(Procs), Len(m) <= n
  PROVE  Reaches(k, m) <=> Reaches(l, m)
<1>1. Len(m) \in 0..n /\ Len(m) <= Len(l) /\ Len(m) <= Len(k)
  BY DEF Agree
<1> QED BY <1>1, AgreeMac DEF Reaches

LEMMA AgreeSpine ==
  ASSUME NEW l \in Seq(Lines), NEW k \in Seq(Lines), Agree(l, k, Len(k)), Spine(l)
  PROVE  Spine(k)
<1> SUFFICES ASSUME NEW i \in 1..Len(k)
             PROVE  k[i].prev = MacAt(k, i - 1) /\ Len(k[i].prev) = i - 1
  BY DEF Spine
<1>1. i \in 1..Len(l) /\ k[i].prev = l[i].prev
  BY DEF Agree
<1>2. MacAt(k, i - 1) = MacAt(l, i - 1)
  BY AgreeMac
<1> QED BY <1>1, <1>2 DEF Spine

\* With whole lines before the last one, a log loads unless its last line is garbled.
LEMMA ChainedIff ==
  ASSUME NEW l \in Seq(Lines), Spine(l), OnlyLastBroken(l)
  PROVE  Chained(l) <=> ~Garbled(l)
<1>1. ASSUME Chained(l) PROVE ~Garbled(l)
  <2>1. CASE l = <<>> BY <2>1 DEF Garbled
  <2>2. CASE l # <<>>
    <3>1. Len(l) \in 1..Len(l) BY <2>2, EmptySeq
    <3> QED BY <1>1, <3>1 DEF Chained, verify_line, Garbled
  <2> QED BY <2>1, <2>2
<1>2. ASSUME ~Garbled(l) PROVE Chained(l)
  <2> SUFFICES ASSUME NEW i \in 1..Len(l) PROVE verify_line(l, i)
    BY DEF Chained
  <2>1. l[i].prev = MacAt(l, i - 1) BY DEF Spine
  <2>2. l[i].form # "garbled"
    <3>1. CASE i < Len(l) BY <3>1 DEF OnlyLastBroken
    <3>2. CASE i = Len(l)
      <4>1. l # <<>> BY <3>2, EmptySeq
      <4> QED BY <3>2, <4>1, <1>2 DEF Garbled
    <3> QED BY <3>1, <3>2
  <2> QED BY <2>1, <2>2 DEF verify_line
<1> QED BY <1>1, <1>2

\* One more line, chained to the tail.
LEMMA Appended ==
  ASSUME NEW l \in Seq(Lines), Spine(l), OnlyLastBroken(l), EndsCleanly(l),
         NEW n \in Lines, n.prev = TailOf(l)
  PROVE  /\ Append(l, n) \in Seq(Lines) /\ Append(l, n) # <<>>
         /\ Len(Append(l, n)) = Len(l) + 1
         /\ Agree(l, Append(l, n), Len(l))
         /\ Spine(Append(l, n)) /\ OnlyLastBroken(Append(l, n))
         /\ TailOf(Append(l, n)) = line_mac(n)
         /\ Append(l, n)[Len(Append(l, n))] = n
<1> DEFINE k == Append(l, n)
<1>1. k \in Seq(Lines) /\ k # <<>> /\ Len(k) = Len(l) + 1 /\ k[Len(l) + 1] = n
  BY AppendProperties
<1>2. \A i \in 1..Len(l) : k[i] = l[i]
  BY AppendProperties
<1>3. Len(l) \in Nat
  BY LenProperties
<1>4. Agree(l, k, Len(l))
  BY <1>1, <1>2, <1>3 DEF Agree
<1>5. ASSUME NEW i \in 1..Len(k) PROVE k[i].prev = MacAt(k, i - 1) /\ Len(k[i].prev) = i - 1
  <2>1. MacAt(k, i - 1) = MacAt(l, i - 1)
    BY <1>1, <1>3, <1>4, AgreeMac
  <2>2. CASE i \in 1..Len(l)
    BY <2>1, <2>2, <1>2 DEF Spine
  <2>3. CASE i = Len(l) + 1
    <3>1. n.prev = MacAt(l, i - 1) /\ Len(n.prev) = i - 1
      BY <2>3, <1>3, MacLen DEF TailOf
    <3> QED BY <3>1, <2>1, <2>3, <1>1
  <2> QED BY <2>2, <2>3, <1>1, <1>3
<1>6. Spine(k)
  BY <1>5 DEF Spine
<1>7. OnlyLastBroken(k)
  <2> SUFFICES ASSUME NEW i \in 1..Len(k), i < Len(k) PROVE k[i].form = "whole"
    BY DEF OnlyLastBroken
  <2>1. i \in 1..Len(l) /\ k[i] = l[i] /\ l # <<>>
    BY <1>1, <1>2, <1>3
  <2>2. CASE i < Len(l) BY <2>1, <2>2 DEF OnlyLastBroken
  <2>3. CASE i = Len(l) BY <2>1, <2>3 DEF EndsCleanly
  <2> QED BY <2>1, <2>2, <2>3, <1>3
<1>8. TailOf(k) = line_mac(n)
  BY <1>1, <1>3 DEF TailOf, MacAt
<1> HIDE DEF k
<1> QED BY <1>1, <1>4, <1>6, <1>7, <1>8 DEF k

\* Another form for the last line.
LEMMA Reformed ==
  ASSUME NEW l \in Seq(Lines), Spine(l), OnlyLastBroken(l), l # <<>>, NEW f \in Forms
  PROVE  LET k == [l EXCEPT ![Len(l)].form = f] IN
         /\ k \in Seq(Lines) /\ k # <<>> /\ Len(k) = Len(l)
         /\ Agree(l, k, Len(l))
         /\ Spine(k) /\ OnlyLastBroken(k)
         /\ k[Len(k)].form = f
         /\ f = l[Len(l)].form => k = l
<1> DEFINE e == [l[Len(l)] EXCEPT !.form = f]
           k == [l EXCEPT ![Len(l)] = e]
<1>0. Len(l) \in 1..Len(l) /\ Len(l) \in Nat
  BY EmptySeq
<1>1. l[Len(l)] \in Lines
  BY <1>0
<1>2. e \in Lines /\ e.prev = l[Len(l)].prev /\ e.ev = l[Len(l)].ev /\ e.form = f
  BY <1>1 DEF Lines, Forms
<1>3. k \in Seq(Lines) /\ Len(k) = Len(l)
      /\ \A j \in 1..Len(l) : k[j] = IF j = Len(l) THEN e ELSE l[j]
  BY <1>0, <1>2, ExceptSeq
<1>4. Agree(l, k, Len(l))
  BY <1>0, <1>2, <1>3 DEF Agree
<1>5. Spine(k)
  BY <1>3, <1>4, AgreeSpine
<1>6. OnlyLastBroken(k)
  BY <1>3 DEF OnlyLastBroken
<1>7. k # <<>> /\ k[Len(k)].form = f
  BY <1>0, <1>2, <1>3
<1>8. ASSUME f = l[Len(l)].form PROVE k = l
  <2>1. e = l[Len(l)] BY <1>1, <1>8 DEF Lines
  <2> QED BY <2>1, <1>3, SeqEqual
<1>9. k = [l EXCEPT ![Len(l)].form = f]
  OBVIOUS
<1> HIDE DEF k
<1> QED BY <1>3, <1>4, <1>5, <1>6, <1>7, <1>8, <1>9

LEMMA Cut ==
  ASSUME NEW l \in Seq(Lines), Spine(l), OnlyLastBroken(l), NEW n \in 0..Len(l)
  PROVE  LET k == SubSeq(l, 1, n) IN
         /\ k \in Seq(Lines) /\ Len(k) = n
         /\ Agree(l, k, n)
         /\ Spine(k) /\ OnlyLastBroken(k)
         /\ n < Len(l) => EndsCleanly(k)
         /\ n = Len(l) => k = l
<1> DEFINE k == SubSeq(l, 1, n)
<1>1. n \in Nat /\ \A i \in 1..n : l[i] \in Lines
  OBVIOUS
<1>2. k \in Seq(Lines) /\ Len(k) = n /\ \A i \in 1..n : k[i] = l[i]
  BY <1>1, SubSeqProperties
<1> HIDE DEF k
<1>3. Agree(l, k, n)
  BY <1>2 DEF Agree
<1>4. Spine(k)
  BY <1>2, <1>3, AgreeSpine
<1>5. OnlyLastBroken(k)
  BY <1>2 DEF OnlyLastBroken
<1>6. ASSUME n < Len(l) PROVE EndsCleanly(k)
  <2>1. CASE n = 0 BY <1>2, <2>1, EmptySeq DEF EndsCleanly
  <2>2. CASE n # 0 BY <1>2, <2>2, <1>6 DEF EndsCleanly, OnlyLastBroken
  <2> QED BY <2>1, <2>2
<1>7. ASSUME n = Len(l) PROVE k = l
  BY <1>2, <1>7, SeqEqual
<1> QED BY <1>2, <1>3, <1>4, <1>5, <1>6, <1>7 DEF k

-----------------------------------------------------------------------------
(* What the steps that change the file make of it.                         *)

\* The text of a new line: a line of its own, or the end of an unended one.
LEMMA TextWritten ==
  ASSUME LogInv, NEW p \in Procs, pc[p] = "write", NEW f \in Forms, NEW l, l = AfterText(p, f)
  PROVE  /\ l \in Seq(Lines) /\ l # <<>> /\ Spine(l) /\ OnlyLastBroken(l)
         /\ Agree(log, l, Len(log))
         /\ EndsCleanly(log) => /\ Len(l) = Len(log) + 1
                                /\ TailOf(l) = NewMac(p) /\ l[Len(l)].form = f
         /\ ~EndsCleanly(log) => /\ log # <<>> /\ Len(l) = Len(log)
                                 /\ Garbled(l) /\ Len(NewMac(p)) = Len(l) + 1
<1>1. log \in Seq(Lines) /\ Spine(log) /\ OnlyLastBroken(log) /\ Len(log) \in Nat
  BY LenProperties DEF LogInv, LogTyped, LogShaped
<1>2. view[p] = log
  BY DEF LogInv, WritersPlaced, WriterAt
<1>3. TailOf(log) \in Seq(Procs) /\ Len(TailOf(log)) = Len(log)
  BY <1>1, MacTyped, MacLen DEF TailOf
<1> DEFINE n == [prev |-> TailOf(log), ev |-> p, form |-> f]
<1>4. n \in Lines /\ n.prev = TailOf(log) /\ line_mac(n) = NewMac(p) /\ n.form = f
  BY <1>2, <1>3 DEF Lines, Forms, line_mac, NewMac
<1>5. n = [NewLine(p) EXCEPT !.form = f]
  BY <1>2 DEF NewLine
<1> HIDE DEF n
<1>6. CASE EndsCleanly(log)
  <2>1. l = Append(log, n)
    BY <1>5, <1>6 DEF AfterText
  <2> QED BY <2>1, <1>1, <1>4, <1>6, Appended
<1>7. CASE ~EndsCleanly(log)
  <2>1. log # <<>> /\ l = [log EXCEPT ![Len(log)].form = "garbled"]
    BY <1>7 DEF AfterText, EndsCleanly
  <2>2. l \in Seq(Lines) /\ l # <<>> /\ Len(l) = Len(log) /\ Agree(log, l, Len(log))
        /\ Spine(l) /\ OnlyLastBroken(l) /\ l[Len(l)].form = "garbled"
    BY ZenonT(30), <2>1, <1>1, Reformed DEF Forms
  <2>3. Len(NewMac(p)) = Len(l) + 1
    BY <1>2, <1>3, <2>2, AppendProperties DEF NewMac
  <2> QED BY <2>1, <2>2, <2>3, <1>7 DEF Garbled
<1> QED BY <1>6, <1>7

\* The newline ends the text just written, and leaves a spoilt line spoilt.
LEMMA NewlineWritten ==
  ASSUME LogInv, NEW p \in Procs, WriteNewline(p)
  PROVE  /\ log' \in Seq(Lines) /\ log' # <<>> /\ Spine(log') /\ OnlyLastBroken(log')
         /\ log # <<>> /\ Len(log') = Len(log) /\ Agree(log, log', Len(log))
         /\ \/ Garbled(log) /\ log' = log
            \/ ~Garbled(log) /\ EndsCleanly(log') /\ log'[Len(log)].form = "whole"
<1>1. log \in Seq(Lines) /\ Spine(log) /\ OnlyLastBroken(log) /\ pc[p] = "newline"
  BY DEF LogInv, LogTyped, LogShaped, WriteNewline
<1>2. Landed(p, "unended")
  BY <1>1 DEF LogInv, WritersPlaced, WriterAt, Writing
<1>3. log # <<>> /\ (Garbled(log) \/ log[Len(log)].form = "unended")
  BY <1>2 DEF Landed
<1> DEFINE f == IF log[Len(log)].form = "unended" THEN "whole" ELSE log[Len(log)].form
<1>4. log' = [log EXCEPT ![Len(log)].form = f]
  BY DEF WriteNewline
<1>5. f \in Forms /\ (Garbled(log) => f = log[Len(log)].form) /\ (~Garbled(log) => f = "whole")
  BY <1>3 DEF Forms, Garbled
<1> HIDE DEF f
<1>6. /\ log' \in Seq(Lines) /\ log' # <<>> /\ Len(log') = Len(log)
      /\ Agree(log, log', Len(log)) /\ Spine(log') /\ OnlyLastBroken(log')
      /\ log'[Len(log)].form = f
      /\ f = log[Len(log)].form => log' = log
  BY <1>1, <1>3, <1>4, <1>5, Reformed
<1>7. CASE Garbled(log)
  BY <1>3, <1>5, <1>6, <1>7
<1>8. CASE ~Garbled(log)
  BY <1>3, <1>5, <1>6, <1>8 DEF EndsCleanly
<1> QED BY <1>7, <1>8

\* A power loss cuts the log at or after what was synced; only a line after
\* that may be left in part.
LEMMA PowerCut ==
  ASSUME LogInv, PowerLoss
  PROVE  /\ log' \in Seq(Lines) /\ Spine(log') /\ OnlyLastBroken(log')
         /\ synced <= Len(log') /\ Len(log') <= Len(log)
         /\ synced' = Len(log')
         /\ Agree(log, log', Len(log'))
         /\ \/ log' = log
            \/ Len(log') < Len(log) /\ EndsCleanly(log')
            \/ Len(log') > synced /\ log' # <<>> /\ ~EndsCleanly(log')
<1>1. log \in Seq(Lines) /\ Spine(log) /\ OnlyLastBroken(log)
      /\ Len(log) \in Nat /\ synced \in Nat /\ synced <= Len(log)
  BY LenProperties DEF LogInv, LogTyped, LogShaped
<1>2. log' \in AfterPowerLoss /\ synced' = Len(log')
  BY DEF PowerLoss
<1>3. CASE \E n \in synced..Len(log) : log' = SubSeq(log, 1, n)
  <2>1. PICK n \in synced..Len(log) : log' = SubSeq(log, 1, n)
    BY <1>3
  <2>2. n \in 0..Len(log)
    BY <1>1
  <2>3. /\ log' \in Seq(Lines) /\ Len(log') = n /\ Agree(log, log', n)
        /\ Spine(log') /\ OnlyLastBroken(log')
        /\ n < Len(log) => EndsCleanly(log')
        /\ n = Len(log) => log' = log
    BY <2>1, <2>2, <1>1, Cut
  <2> QED BY <2>1, <2>2, <2>3, <1>1, <1>2
<1>4. CASE \E n \in (synced + 1)..Len(log), f \in {"unended", "garbled"} :
             log' = [SubSeq(log, 1, n) EXCEPT ![n].form = f]
  <2>1. PICK n \in (synced + 1)..Len(log), f \in {"unended", "garbled"} :
               log' = [SubSeq(log, 1, n) EXCEPT ![n].form = f]
    BY <1>4
  <2> DEFINE k == SubSeq(log, 1, n)
  <2>2. n \in 0..Len(log) /\ n > synced /\ n > 0
    BY <1>1
  <2>3. /\ k \in Seq(Lines) /\ Len(k) = n /\ Agree(log, k, n)
        /\ Spine(k) /\ OnlyLastBroken(k)
    BY <2>2, <1>1, Cut
  <2>4. log' = [k EXCEPT ![Len(k)].form = f]
    BY <2>1, <2>3
  <2> HIDE DEF k
  <2>5. k # <<>> /\ f \in Forms
    BY <2>2, <2>3, EmptySeq DEF Forms
  <2>6. /\ log' \in Seq(Lines) /\ log' # <<>> /\ Len(log') = n /\ Agree(k, log', n)
        /\ Spine(log') /\ OnlyLastBroken(log') /\ log'[Len(log')].form = f
    BY <2>3, <2>4, <2>5, Reformed
  <2>7. Agree(log, log', n)
    BY <2>3, <2>6 DEF Agree
  <2>8. ~EndsCleanly(log')
    BY <2>6 DEF EndsCleanly
  <2> QED BY <2>2, <2>6, <2>7, <2>8, <1>1, <1>2
<1> QED BY <1>2, <1>3, <1>4 DEF AfterPowerLoss

-----------------------------------------------------------------------------
(* LogInv is inductive.                                                    *)

\* One step of a process, by itself or cut short by a fault.
Move(p) ==
  Step(p) \/ Begin(p) \/ Kill(p) \/ KillMidLine(p) \/ Torn(p) \/ IoError(p) \/ SyncParentFails(p)

\* It leaves every other process where it is, and the file too without the lock.
MovesAlone(p) ==
  /\ \A q \in Procs \ {p} : /\ pc'[q] = pc[q] /\ ret'[q] = ret[q]
                            /\ view'[q] = view[q] /\ seen'[q] = seen[q]
  /\ pc[p] \in Holding \/ UNCHANGED <<log, synced, head, headDisk, acked>>

LEMMA MoveIsLocal ==
  ASSUME LogTyped, NEW p \in Procs, Move(p)
  PROVE  MovesAlone(p)
<1> USE DEF LogTyped, MovesAlone, Goto, Fail, Release, disk, mem, Holding
<1>1. CASE OpenKey(p) BY <1>1 DEF OpenKey
<1>2. CASE KeyWrite(p) BY <1>2 DEF KeyWrite
<1>3. CASE OpenReadLog(p) BY <1>3 DEF OpenReadLog
<1>4. CASE OpenReadHead(p) BY <1>4 DEF OpenReadHead
<1>5. CASE Acquire(p) BY <1>5 DEF Acquire
<1>6. CASE LockTimeout(p) BY <1>6 DEF LockTimeout
<1>7. CASE OpenEnsure(p) BY <1>7 DEF OpenEnsure
<1>8. CASE OpenLoad(p) BY <1>8 DEF OpenLoad
<1>9. CASE OpenAnchor(p) BY <1>9 DEF OpenAnchor
<1>10. CASE Reload(p) BY SMTT(30), <1>10 DEF Reload
<1>11. CASE WriteText(p) BY <1>11 DEF WriteText
<1>12. CASE WriteNewline(p) BY <1>12 DEF WriteNewline
<1>13. CASE Sync(p) BY <1>13 DEF Sync
<1>14. CASE WriteHead(p) BY <1>14 DEF WriteHead
<1>15. CASE SyncParent(p) BY <1>15 DEF SyncParent, HeadWritten
<1>16. CASE Begin(p) BY <1>16 DEF Begin
<1>17. CASE Kill(p) BY <1>17 DEF Kill, Die
<1>18. CASE KillMidLine(p) BY <1>18 DEF KillMidLine, Die
<1>19. CASE Torn(p) BY <1>19 DEF Torn, Die
<1>20. CASE IoError(p) BY <1>20 DEF IoError
<1>21. CASE SyncParentFails(p) BY <1>21 DEF SyncParentFails, HeadWritten
<1> QED BY <1>1, <1>2, <1>3, <1>4, <1>5, <1>6, <1>7, <1>8, <1>9, <1>10, <1>11, <1>12,
           <1>13, <1>14, <1>15, <1>16, <1>17, <1>18, <1>19, <1>20, <1>21 DEF Move, Step

\* Only the holder of the lock is where the code holds it (StoreLock, RAII).
LEMMA LockHeldKept ==
  ASSUME LogTyped, LockHeld, NEW p \in Procs, Move(p)
  PROVE  LockHeld'
<1> USE DEF LogTyped, LockHeld, Goto, Fail, Release, disk, mem, Holding
<1>1. CASE OpenKey(p) BY <1>1 DEF OpenKey
<1>2. CASE KeyWrite(p) BY <1>2 DEF KeyWrite
<1>3. CASE OpenReadLog(p) BY <1>3 DEF OpenReadLog
<1>4. CASE OpenReadHead(p) BY <1>4 DEF OpenReadHead
<1>5. CASE Acquire(p) BY <1>5, NoProcAssumption DEF Acquire
<1>6. CASE LockTimeout(p) BY <1>6 DEF LockTimeout
<1>7. CASE OpenEnsure(p) BY ZenonT(30), <1>7 DEF OpenEnsure
<1>8. CASE OpenLoad(p)
  <2>1. CASE Goto(p, "open_anchor") /\ UNCHANGED lock BY <1>8, <2>1 DEF OpenLoad
  <2>2. CASE Fail(p, "closed") \/ Fail(p, "idle") BY <2>2
  <2> QED BY <1>8, <2>1, <2>2 DEF OpenLoad
<1>9. CASE OpenAnchor(p) BY <1>9 DEF OpenAnchor
<1>10. CASE Reload(p) BY <1>10 DEF Reload
<1>11. CASE WriteText(p) BY <1>11 DEF WriteText
<1>12. CASE WriteNewline(p) BY <1>12 DEF WriteNewline
<1>13. CASE Sync(p) BY <1>13 DEF Sync
<1>14. CASE WriteHead(p) BY <1>14 DEF WriteHead
<1>15. CASE SyncParent(p) BY <1>15 DEF SyncParent, HeadWritten
<1>16. CASE Begin(p) BY <1>16 DEF Begin
<1>17. CASE Kill(p) BY <1>17 DEF Kill, Die
<1>18. CASE KillMidLine(p) BY <1>18 DEF KillMidLine, Die
<1>19. CASE Torn(p) BY <1>19 DEF Torn, Die
<1>20. CASE IoError(p) BY <1>20 DEF IoError
<1>21. CASE SyncParentFails(p) BY <1>21 DEF SyncParentFails, HeadWritten
<1> QED BY <1>1, <1>2, <1>3, <1>4, <1>5, <1>6, <1>7, <1>8, <1>9, <1>10, <1>11, <1>12,
           <1>13, <1>14, <1>15, <1>16, <1>17, <1>18, <1>19, <1>20, <1>21 DEF Move, Step

\* The types.
LEMMA TypesKept ==
  ASSUME LogInv, NEW p \in Procs, Move(p)
  PROVE  LogTyped'
<1>0. LogTyped /\ log \in Seq(Lines) /\ Len(log) \in Nat /\ <<>> \in Seq(Lines) /\ <<>> \in Seq(Procs)
  BY LenProperties DEF LogInv, LogTyped
<1>m. TailOf(log) \in Seq(Procs) /\ TailOf(view[p]) \in Seq(Procs) /\ NewMac(p) \in Seq(Procs)
  <2>1. view[p] \in Seq(Lines) /\ Len(view[p]) \in 0..Len(view[p]) /\ Len(log) \in 0..Len(log)
    BY <1>0, LenProperties DEF LogTyped
  <2>2. TailOf(log) \in Seq(Procs) /\ TailOf(view[p]) \in Seq(Procs)
    BY <1>0, <2>1, MacTyped DEF TailOf
  <2> QED BY <2>2, AppendProperties DEF NewMac
<1> USE <1>0 DEF LogTyped, Goto, Fail, Release, disk, mem, Places, Genesis
<1>1. CASE OpenKey(p) BY <1>1 DEF OpenKey
<1>2. CASE KeyWrite(p) BY <1>2 DEF KeyWrite
<1>3. CASE OpenReadLog(p) BY <1>3 DEF OpenReadLog
<1>4. CASE OpenReadHead(p) BY <1>4, <1>m DEF OpenReadHead
<1>5. CASE Acquire(p) BY <1>5 DEF Acquire
<1>6. CASE LockTimeout(p) BY <1>6 DEF LockTimeout
<1>7. CASE OpenEnsure(p) BY <1>7 DEF OpenEnsure
<1>8. CASE OpenLoad(p)
  <2>1. CASE Goto(p, "open_anchor") /\ view' = [view EXCEPT ![p] = log] /\ UNCHANGED <<lock, ret, seen>>
    BY <1>8, <2>1 DEF OpenLoad
  <2>2. CASE Fail(p, "closed") /\ UNCHANGED seen
    BY <1>8, <2>2 DEF OpenLoad
  <2>3. CASE Fail(p, "idle") /\ seen' = [seen EXCEPT ![p] = TailOf(log)]
    BY <1>8, <1>m, <2>3 DEF OpenLoad
  <2> QED BY <1>8, <2>1, <2>2, <2>3 DEF OpenLoad
<1>9. CASE OpenAnchor(p) BY <1>9, <1>m DEF OpenAnchor
<1>10. CASE Reload(p) BY <1>10 DEF Reload
<1>11. CASE WriteText(p)
  <2>1. log' \in Seq(Lines) /\ (~EndsCleanly(log) => log # <<>>)
    BY <1>11, TextWritten DEF WriteText, Forms
  <2>2. synced' \in Nat
    BY <1>11, <2>1, EmptySeq DEF WriteText
  <2> QED BY <1>11, <2>1, <2>2 DEF WriteText
<1>12. CASE WriteNewline(p)
  <2>1. log' \in Seq(Lines) BY <1>12, NewlineWritten
  <2> QED BY <1>12, <2>1 DEF WriteNewline
<1>13. CASE Sync(p)
  <2>1. line_mac(NewLine(p)) = NewMac(p) BY DEF line_mac, NewLine, NewMac
  <2> QED BY <1>13, <1>m, <2>1 DEF Sync
<1>14. CASE WriteHead(p) BY <1>14 DEF WriteHead
<1>h. ASSUME HeadWritten(p), pc[p] = "dirsync"
      PROVE  /\ key' = key /\ log' = log /\ synced' = synced /\ head' = head /\ seen' = seen
             /\ lock' \in Procs \union {NoProc} /\ pc' \in [Procs -> Places]
             /\ ret' \in [Procs -> {"none", "open_load", "idle", "acked"}]
             /\ view' \in [Procs -> Seq(Lines)] /\ acked' \in SUBSET Seq(Procs)
  <2>1. CASE ret[p] = "open_load" BY <1>h, <2>1 DEF HeadWritten
  <2>2. CASE ret[p] # "open_load"
    <3>1. acked' \in SUBSET Seq(Procs) BY <1>h, <2>2 DEF HeadWritten
    <3> QED BY <1>h, <2>2, <3>1 DEF HeadWritten
  <2> QED BY <2>1, <2>2
<1>15. CASE SyncParent(p) BY <1>15, <1>h DEF SyncParent
<1>16. CASE Begin(p) BY <1>16 DEF Begin
<1>17. CASE Kill(p) BY <1>17 DEF Kill, Die, Fault
<1>18. CASE KillMidLine(p) BY <1>18 DEF KillMidLine, Die, Fault
<1>19. CASE Torn(p)
  <2>1. log' \in Seq(Lines) /\ (~EndsCleanly(log) => log # <<>>)
    BY <1>19, TextWritten DEF Torn, Forms
  <2>2. synced' \in Nat
    BY <1>19, <2>1, EmptySeq DEF Torn
  <2>3. CASE Die(p)
    BY <1>19, <2>1, <2>2, <2>3 DEF Torn, Die, Fault
  <2>4. CASE Fail(p, "idle") /\ UNCHANGED seen
    BY <1>19, <2>1, <2>2, <2>4 DEF Torn, Fault
  <2> QED BY <1>19, <2>3, <2>4 DEF Torn
<1>20. CASE IoError(p) BY <1>20 DEF IoError, Fault
<1>21. CASE SyncParentFails(p) BY <1>21, <1>h DEF SyncParentFails, Fault
<1> QED BY <1>1, <1>2, <1>3, <1>4, <1>5, <1>6, <1>7, <1>8, <1>9, <1>10, <1>11, <1>12,
           <1>13, <1>14, <1>15, <1>16, <1>17, <1>18, <1>19, <1>20, <1>21 DEF Move, Step

\* The chain and its forms.
LEMMA ShapeKept ==
  ASSUME LogInv, NEW p \in Procs, Move(p)
  PROVE  LogShaped'
<1>0. log \in Seq(Lines) /\ Len(log) \in Nat /\ Spine(log) /\ OnlyLastBroken(log)
      /\ synced \in Nat /\ synced <= Len(log)
  BY LenProperties DEF LogInv, LogTyped, LogShaped
<1>1. CASE UNCHANGED <<log, synced>>
  BY <1>0, <1>1 DEF LogShaped, Spine, OnlyLastBroken, MacAt
<1>2. CASE WriteText(p) \/ Torn(p)
  <2>1. pc[p] = "write" /\ synced' = (IF EndsCleanly(log) THEN synced ELSE Len(log) - 1)
    BY <1>2 DEF WriteText, Torn
  <2>2. PICK f \in Forms : log' = AfterText(p, f)
    BY <1>2 DEF WriteText, Torn, Forms
  <2>3. /\ log' \in Seq(Lines) /\ Spine(log') /\ OnlyLastBroken(log')
        /\ Len(log') = Len(log) + 1 \/ Len(log') = Len(log)
    BY <2>1, <2>2, TextWritten
  <2>4. Len(log') \in Nat
    BY <2>3, LenProperties
  <2>5. synced' <= Len(log')
    <3>1. CASE EndsCleanly(log)
      BY <1>0, <2>1, <2>3, <2>4, <3>1
    <3>2. CASE ~EndsCleanly(log)
      BY <1>0, <2>1, <2>3, <2>4, <3>2
    <3> QED BY <3>1, <3>2
  <2>6. Spine(log)' /\ OnlyLastBroken(log)'
    BY <2>3 DEF Spine, OnlyLastBroken, MacAt
  <2> QED BY <2>5, <2>6 DEF LogShaped
<1>3. CASE WriteNewline(p)
  BY <1>0, <1>3, NewlineWritten DEF LogShaped, Spine, OnlyLastBroken, MacAt, WriteNewline
<1>4. CASE Sync(p)
  BY <1>0, <1>4 DEF LogShaped, Spine, OnlyLastBroken, MacAt, Sync
<1>5. Move(p) => UNCHANGED <<log, synced>> \/ WriteText(p) \/ Torn(p) \/ WriteNewline(p) \/ Sync(p)
  BY DEF Move, Step, OpenKey, KeyWrite, OpenReadLog, OpenReadHead, Acquire, LockTimeout, OpenEnsure,
     OpenLoad, OpenAnchor, Reload, WriteHead, SyncParent, HeadWritten, Begin, Kill, KillMidLine,
     IoError, SyncParentFails, disk
<1> QED BY <1>1, <1>2, <1>3, <1>4, <1>5

\* A process that is not moving keeps its place: the file changes only under a
\* lock it does not hold.
LEMMA OthersPlaced ==
  ASSUME LogInv, NEW p \in Procs, Move(p), NEW q \in Procs \ {p}
  PROVE  WriterAt(q)'
<1>0. WriterAt(q) /\ pc'[q] = pc[q] /\ ret'[q] = ret[q] /\ view'[q] = view[q] /\ seen'[q] = seen[q]
  BY MoveIsLocal DEF LogInv, WritersPlaced, MovesAlone
<1>1. CASE pc[p] \in Holding
  <2>1. pc[q] \notin Holding
    BY <1>1 DEF LogInv, LockHeld
  <2> QED BY <1>0, <2>1 DEF WriterAt, Holding, Writing
<1>2. CASE UNCHANGED <<log, synced, head>>
  BY <1>0, <1>2 DEF WriterAt, Landed, NewMac
<1> QED BY <1>1, <1>2, MoveIsLocal DEF LogInv, MovesAlone

\* Places at which nothing is claimed of a process.
LEMMA NoClaim ==
  ASSUME NEW p \in Procs, pc'[p] \notin {"write", "open_anchor", "newline", "sync", "head", "dirsync"}
  PROVE  WriterAt(p)'
BY DEF WriterAt, Writing

\* The process that moves: what it learns of the file it still knows at its next place.
LEMMA MoverPlaced ==
  ASSUME LogInv, NEW p \in Procs, Move(p)
  PROVE  WriterAt(p)'
<1>0. /\ pc \in [Procs -> Places] /\ view \in [Procs -> Seq(Lines)] /\ log \in Seq(Lines) /\ Len(log) \in Nat
      /\ ret \in [Procs -> {"none", "open_load", "idle", "acked"}] /\ seen \in [Procs -> Seq(Procs)]
      /\ WriterAt(p) /\ Spine(log) /\ OnlyLastBroken(log)
      /\ head # NoHead => head \in Seq(Procs) /\ Len(head) \in Nat
  BY LenProperties DEF LogInv, LogTyped, LogShaped, WritersPlaced
<1>a. CASE OpenKey(p) \/ KeyWrite(p) \/ OpenReadLog(p) \/ OpenReadHead(p) \/ Acquire(p) \/ LockTimeout(p)
           \/ Begin(p) \/ Kill(p) \/ KillMidLine(p) \/ Torn(p) \/ IoError(p) \/ SyncParent(p) \/ SyncParentFails(p)
  <2>1. pc'[p] \notin {"write", "open_anchor", "newline", "sync", "head", "dirsync"}
    BY <1>0, <1>a DEF OpenKey, KeyWrite, OpenReadLog, OpenReadHead, Acquire, LockTimeout, Begin, Kill,
       KillMidLine, Torn, IoError, SyncParent, SyncParentFails, HeadWritten, Goto, Fail, Die
  <2> QED BY <2>1, NoClaim
<1>7. CASE OpenEnsure(p)
  <2>1. CASE pc'[p] = "dirsync" /\ ret'[p] = "open_load"
    BY <1>0, <2>1 DEF WriterAt, Writing
  <2>2. CASE pc'[p] \notin {"write", "open_anchor", "newline", "sync", "head", "dirsync"}
    BY <2>2, NoClaim
  <2> QED BY <1>0, <1>7, <2>1, <2>2 DEF OpenEnsure, Goto, Fail
<1>8. CASE OpenLoad(p)
  <2>1. CASE pc'[p] = "open_anchor" /\ view'[p] = log /\ LoadOk(log, head) /\ Ahead(log, head)
    BY <1>0, <1>8, <2>1 DEF WriterAt, Writing, OpenLoad, disk
  <2>2. CASE pc'[p] \notin {"write", "open_anchor", "newline", "sync", "head", "dirsync"}
    BY <2>2, NoClaim
  <2> QED BY <1>0, <1>8, <2>1, <2>2 DEF OpenLoad, Goto, Fail
<1>9. CASE OpenAnchor(p)
  <2>1. pc'[p] = "dirsync" /\ ret'[p] = "idle"
    BY <1>0, <1>9 DEF OpenAnchor, Goto
  <2> QED BY <2>1 DEF WriterAt, Writing
<1>10. CASE Reload(p)
  <2>1. CASE pc'[p] = "write" /\ view'[p] = log /\ LoadOk(log, head)
    BY <1>0, <1>10, <2>1 DEF WriterAt, Writing, Reload, disk
  <2>2. CASE pc'[p] \notin {"write", "open_anchor", "newline", "sync", "head", "dirsync"}
    BY <2>2, NoClaim
  <2> QED BY <1>0, <1>10, <2>1, <2>2 DEF Reload, Goto, Fail
<1>11. CASE WriteText(p)
  <2>0. /\ pc[p] = "write" /\ log' = AfterText(p, "unended") /\ pc'[p] = "newline"
        /\ view'[p] = view[p] /\ head' = head /\ "unended" \in Forms
    BY <1>0, <1>11 DEF WriteText, Goto, Forms
  <2>1. view[p] = log /\ head # NoHead /\ Len(head) <= Len(log)
    BY <1>0, <2>0 DEF WriterAt, LoadOk, verify_head, Reaches
  <2>2. TailOf(log) \in Seq(Procs) /\ Len(TailOf(log)) = Len(log)
    BY <1>0, MacTyped, MacLen DEF TailOf
  <2>3. Len(NewMac(p)) = Len(log) + 1
    BY <2>1, <2>2, AppendProperties DEF NewMac
  <2>4. NewMac(p)' = NewMac(p)
    BY <2>0 DEF NewMac
  <2>5. Landed(p, "unended")'
    <3>1. CASE EndsCleanly(log)
      <4>1. log' # <<>> /\ TailOf(log') = NewMac(p) /\ log'[Len(log')].form = "unended"
        BY <2>0, <3>1, TextWritten
      <4> QED BY <4>1, <2>4 DEF Landed
    <3>2. CASE ~EndsCleanly(log)
      <4>1. log' # <<>> /\ Garbled(log') /\ Len(NewMac(p)) = Len(log') + 1
        BY <2>0, <3>2, TextWritten
      <4> QED BY <4>1, <2>4 DEF Landed
    <3> QED BY <3>1, <3>2
  <2>6. head' # NoHead /\ Len(head') < Len(NewMac(p)')
    BY <1>0, <2>0, <2>1, <2>3, <2>4
  <2> QED BY <2>0, <2>5, <2>6 DEF WriterAt, Writing
<1>12. CASE WriteNewline(p)
  <2>0. /\ pc[p] = "newline" /\ pc'[p] = "sync" /\ view'[p] = view[p] /\ head' = head
    BY <1>0, <1>12 DEF WriteNewline, Goto
  <2>1. Landed(p, "unended") /\ head # NoHead /\ Len(head) < Len(NewMac(p))
    BY <1>0, <2>0 DEF WriterAt, Writing
  <2>2. NewMac(p)' = NewMac(p)
    BY <2>0 DEF NewMac
  <2>3. Landed(p, "whole")'
    <3>1. CASE Garbled(log) /\ log' = log
      <4>1. log # <<>> /\ Len(NewMac(p)) = Len(log) + 1
        BY <2>1, <3>1 DEF Landed, Garbled
      <4> QED BY <3>1, <4>1, <2>2 DEF Landed, Garbled
    <3>2. CASE ~Garbled(log) /\ log'[Len(log)].form = "whole"
      <4>1. NewMac(p) = TailOf(log)
        BY <2>1, <3>2 DEF Landed
      <4>2. log' # <<>> /\ Len(log') = Len(log) /\ Agree(log, log', Len(log))
        BY <1>12, NewlineWritten
      <4>3. TailOf(log') = TailOf(log)
        BY <4>2, <1>0, AgreeMac DEF TailOf
      <4> QED BY <4>1, <4>2, <4>3, <3>2, <2>2 DEF Landed
    <3> QED BY <3>1, <3>2, <1>12, NewlineWritten
  <2> QED BY <2>0, <2>1, <2>2, <2>3 DEF WriterAt, Writing
<1>13. CASE Sync(p)
  <2>0. /\ pc[p] = "sync" /\ pc'[p] = "head" /\ UNCHANGED <<view, log, head>> /\ synced' = Len(log)
        /\ seen'[p] = line_mac(NewLine(p))
    BY <1>0, <1>13 DEF Sync, Goto
  <2>1. Landed(p, "whole") /\ head # NoHead /\ Len(head) < Len(NewMac(p))
    BY <1>0, <2>0 DEF WriterAt, Writing
  <2>2. NewMac(p)' = NewMac(p) /\ seen'[p] = NewMac(p)
    BY <2>0 DEF NewMac, line_mac, NewLine
  <2>3. Landed(p, "whole")'
    BY <2>0, <2>1, <2>2 DEF Landed, Garbled
  <2> QED BY <2>0, <2>1, <2>2, <2>3 DEF WriterAt, Writing
<1>14. CASE WriteHead(p)
  <2>0. /\ pc[p] = "head" /\ pc'[p] = "dirsync" /\ UNCHANGED <<view, log, synced, seen>> /\ head' = seen[p]
    BY <1>0, <1>14 DEF WriteHead, Goto
  <2>1. Landed(p, "whole") /\ seen[p] = NewMac(p) /\ synced = Len(log)
    BY <1>0, <2>0 DEF WriterAt, Writing
  <2>2. NewMac(p)' = NewMac(p)
    BY <2>0 DEF NewMac
  <2>3. Landed(p, "whole")'
    BY <2>0, <2>1, <2>2 DEF Landed, Garbled
  <2> QED BY <2>0, <2>1, <2>2, <2>3 DEF WriterAt, Writing
<1> QED BY <1>a, <1>7, <1>8, <1>9, <1>10, <1>11, <1>12, <1>13, <1>14 DEF Move, Step

\* What was acknowledged stays synced.
LEMMA AckedKept ==
  ASSUME LogInv, NEW p \in Procs, Move(p)
  PROVE  AckedSynced'
<1>0. /\ log \in Seq(Lines) /\ Len(log) \in Nat /\ Spine(log) /\ OnlyLastBroken(log)
      /\ synced \in Nat /\ synced <= Len(log) /\ pc \in [Procs -> Places]
      /\ acked \in SUBSET Seq(Procs) /\ AckedSynced /\ WriterAt(p) /\ LogTyped'
  BY TypesKept, LenProperties DEF LogInv, LogTyped, LogShaped, WritersPlaced
<1>1. CASE UNCHANGED <<log, synced, acked>>
  BY <1>0, <1>1 DEF AckedSynced, Dead
<1>2. CASE WriteText(p) \/ Torn(p)
  <2>1. /\ pc[p] = "write" /\ synced' = (IF EndsCleanly(log) THEN synced ELSE Len(log) - 1)
        /\ acked' = acked
    BY <1>2 DEF WriteText, Torn
  <2>2. PICK f \in Forms : log' = AfterText(p, f)
    BY <1>2 DEF WriteText, Torn, Forms
  <2>3. /\ log' \in Seq(Lines) /\ Agree(log, log', Len(log))
        /\ EndsCleanly(log) => Len(log') = Len(log) + 1
        /\ ~EndsCleanly(log) => Len(log') = Len(log)
    BY <2>1, <2>2, TextWritten
  <2>4. ~Dead
    <3>1. LoadOk(log, head) BY <1>0, <2>1 DEF WriterAt
    <3> QED BY <3>1, <1>0, ChainedIff DEF LoadOk, Dead
  <2> SUFFICES ASSUME NEW m \in acked
               PROVE  Reaches(log', m) /\ Len(m) <= synced' /\ Len(m) # Len(log')
    BY <2>1 DEF AckedSynced
  <2>5. /\ Reaches(log, m) /\ Len(m) <= synced /\ m \in Seq(Procs) /\ Len(m) \in Nat
        /\ Len(m) = Len(log) => EndsCleanly(log)
    BY <1>0, <2>4, LenProperties DEF AckedSynced
  <2>6. Reaches(log', m)
    BY <1>0, <2>3, <2>5, AgreeReaches
  <2> QED BY <1>0, <2>1, <2>3, <2>5, <2>6
<1>3. CASE WriteNewline(p)
  <2>1. UNCHANGED <<synced, acked>>
    BY <1>3 DEF WriteNewline
  <2>2. CASE log' = log
    BY <1>1, <2>1, <2>2
  <2>3. CASE ~Garbled(log) /\ EndsCleanly(log')
    <3>1. log' \in Seq(Lines) /\ Len(log') = Len(log) /\ Agree(log, log', Len(log))
      BY <1>3, NewlineWritten
    <3> SUFFICES ASSUME NEW m \in acked
                 PROVE  Reaches(log', m) /\ Len(m) <= synced /\ EndsCleanly(log')
      BY <2>1 DEF AckedSynced
    <3>2. Reaches(log, m) /\ Len(m) <= synced /\ m \in Seq(Procs) /\ Len(m) \in Nat
      BY <1>0, <2>3, LenProperties DEF AckedSynced, Dead
    <3> QED BY <1>0, <2>3, <3>1, <3>2, AgreeReaches
  <2> QED BY <2>2, <2>3, <1>3, NewlineWritten
<1>4. CASE Sync(p)
  <2>1. synced' = Len(log) /\ UNCHANGED <<log, acked>>
    BY <1>4 DEF Sync
  <2> SUFFICES ASSUME NEW m \in acked
               PROVE  \/ Garbled(log)
                      \/ /\ Reaches(log, m) /\ Len(m) <= Len(log)
                         /\ Len(m) = Len(log) => EndsCleanly(log)
    BY <2>1 DEF AckedSynced, Dead
  <2> QED BY <1>0 DEF AckedSynced, Dead, Reaches
<1>5. CASE SyncParent(p) \/ SyncParentFails(p)
  <2>1. UNCHANGED <<log, synced>> /\ pc[p] = "dirsync"
        /\ acked' = (IF ret[p] = "acked" THEN acked \union {seen[p]} ELSE acked)
    BY <1>5 DEF SyncParent, SyncParentFails, HeadWritten
  <2>2. CASE ret[p] # "acked"
    BY <1>1, <2>1, <2>2
  <2>3. CASE ret[p] = "acked"
    <3>0. seen[p] \in Seq(Procs) /\ acked' = acked \union {seen[p]}
      BY <2>1, <2>3 DEF LogInv, LogTyped
    <3>1. Landed(p, "whole") /\ seen[p] = NewMac(p) /\ synced = Len(log)
      BY <1>0, <2>1, <2>3 DEF WriterAt
    <3>2. \/ Dead
          \/ Reaches(log, seen[p]) /\ Len(seen[p]) <= synced /\ EndsCleanly(log)
      <4>1. CASE Garbled(log) BY <3>1, <4>1 DEF Dead
      <4>2. CASE seen[p] = TailOf(log) /\ log[Len(log)].form = "whole"
        <5>1. Len(TailOf(log)) = Len(log)
          BY <1>0, MacLen DEF TailOf
        <5> QED BY <1>0, <3>1, <4>2, <5>1 DEF Reaches, TailOf, EndsCleanly
      <4> QED BY <3>1, <4>1, <4>2 DEF Landed
    <3>3. ASSUME NEW m \in acked'
          PROVE  \/ Dead
                 \/ /\ Reaches(log, m) /\ Len(m) <= synced
                    /\ Len(m) = Len(log) => EndsCleanly(log)
      <4>1. CASE m \in acked BY <1>0, <4>1 DEF AckedSynced
      <4>2. CASE m = seen[p] BY <3>2, <4>2
      <4> QED BY <3>0, <4>1, <4>2
    <3> QED BY <2>1, <3>3 DEF AckedSynced, Dead
  <2> QED BY <2>2, <2>3
<1>6. Move(p) => \/ UNCHANGED <<log, synced, acked>> \/ WriteText(p) \/ Torn(p) \/ WriteNewline(p)
                 \/ Sync(p) \/ SyncParent(p) \/ SyncParentFails(p)
  BY DEF Move, Step, OpenKey, KeyWrite, OpenReadLog, OpenReadHead, Acquire, LockTimeout, OpenEnsure,
     OpenLoad, OpenAnchor, Reload, WriteHead, Begin, Kill, KillMidLine, IoError, disk
<1> QED BY <1>1, <1>2, <1>3, <1>4, <1>5, <1>6

\* A power loss sends every process home and cuts what was not synced.
LEMMA PowerKeeps ==
  ASSUME LogInv, PowerLoss
  PROVE  LogInv'
<1>0. /\ log \in Seq(Lines) /\ Len(log) \in Nat /\ Spine(log) /\ OnlyLastBroken(log)
      /\ synced \in Nat /\ synced <= Len(log) /\ acked \in SUBSET Seq(Procs) /\ AckedSynced
  BY LenProperties DEF LogInv, LogTyped, LogShaped
<1>1. /\ log' \in Seq(Lines) /\ Spine(log') /\ OnlyLastBroken(log') /\ Len(log') \in Nat
      /\ synced <= Len(log') /\ Len(log') <= Len(log) /\ synced' = Len(log')
      /\ Agree(log, log', Len(log'))
      /\ \/ log' = log
         \/ Len(log') < Len(log) /\ EndsCleanly(log')
         \/ Len(log') > synced /\ log' # <<>> /\ ~EndsCleanly(log')
  BY PowerCut, LenProperties
<1>2. /\ pc' = [p \in Procs |-> "closed"] /\ ret' = [p \in Procs |-> "none"]
      /\ view' = [p \in Procs |-> <<>>] /\ seen' = [p \in Procs |-> Genesis]
      /\ lock' = NoProc /\ acked' = acked /\ faults' = faults + 1
      /\ head' \in {head, headDisk} /\ headDisk' = head' /\ key' \in {key, "short"}
  BY DEF PowerLoss, Fault
<1>3. LogTyped'
  BY <1>1, <1>2 DEF LogInv, LogTyped, Places, Genesis
<1>4. LogShaped'
  BY <1>1 DEF LogShaped
<1>5. LockHeld' /\ WritersPlaced'
  BY <1>2 DEF LockHeld, Holding, WritersPlaced, WriterAt, Writing
<1>6. AckedSynced'
  <2> SUFFICES ASSUME NEW m \in acked, ~(Dead')
               PROVE  Reaches(log', m) /\ Len(m) <= synced' /\ (Len(m) = Len(log') => EndsCleanly(log'))
    BY <1>2 DEF AckedSynced
  <2>1. ~Dead
    <3>1. ASSUME Dead PROVE FALSE
      <4>1. Garbled(log) /\ Len(log') = Len(log) /\ synced = Len(log)
        BY <3>1, <1>0, <1>1 DEF Dead
      <4>2. log' = log
        BY <4>1, <1>0, <1>1
      <4> QED BY <4>1, <4>2, <1>1 DEF Dead
    <3> QED BY <3>1
  <2>2. /\ Reaches(log, m) /\ Len(m) <= synced /\ m \in Seq(Procs) /\ Len(m) \in Nat
        /\ Len(m) = Len(log) => EndsCleanly(log)
    BY <1>0, <2>1, LenProperties DEF AckedSynced
  <2>3. Reaches(log', m)
    BY <1>0, <1>1, <2>2, AgreeReaches
  <2> QED BY <1>0, <1>1, <2>2, <2>3
<1> QED BY <1>3, <1>4, <1>5, <1>6 DEF LogInv

LEMMA LogInvStep == LogInv /\ [Next]_vars => LogInv'
<1> SUFFICES ASSUME LogInv, [Next]_vars PROVE LogInv'
  OBVIOUS
<1>1. ASSUME NEW p \in Procs, Move(p) PROVE LogInv'
  <2>1. LogTyped' /\ LogShaped' /\ AckedSynced'
    BY <1>1, TypesKept, ShapeKept, AckedKept
  <2>2. LockHeld'
    BY <1>1, LockHeldKept DEF LogInv
  <2>3. WritersPlaced'
    BY <1>1, MoverPlaced, OthersPlaced DEF WritersPlaced
  <2> QED BY <2>1, <2>2, <2>3 DEF LogInv
<1>2. CASE PowerLoss
  BY <1>2, PowerKeeps
<1>3. CASE UNCHANGED vars
  BY <1>3 DEF LogInv, LogTyped, LogShaped, LockHeld, WritersPlaced, WriterAt, Landed, NewMac,
     AckedSynced, Dead, vars, disk, mem
<1> QED BY <1>1, <1>2, <1>3 DEF Next, Move

LEMMA LogInvInit == Init => LogInv
BY DEF Init, LogInv, LogTyped, LogShaped, LockHeld, WritersPlaced, WriterAt, AckedSynced, Spine,
   OnlyLastBroken, Genesis, Places, Holding, Writing

\* Under every kind of fault, any number of times: the lock excludes, the lines
\* chain, only the last one can be broken, each writer stands where its line is,
\* and what was acknowledged is synced (append, load and StoreLock).
THEOREM LogInvariant == Spec => []LogInv
<1> QED BY LogInvInit, LogInvStep, PTL DEF Spec

-----------------------------------------------------------------------------
(* What LogInv shows by itself.                                            *)

LEMMA LinesChain == LogInv => ChainNeverForks
<1> SUFFICES ASSUME LogInv, NEW i \in 1..Len(log), log[i].form # "garbled"
             PROVE  verify_line(log, i)
  BY DEF ChainNeverForks
<1> QED BY DEF LogInv, LogShaped, Spine, verify_line

LEMMA LoadsMeansNotGarbled ==
  ASSUME LogInv
  PROVE  Chained(log) <=> ~Garbled(log)
BY ChainedIff DEF LogInv, LogTyped, LogShaped

LEMMA AckedFound == LogInv => AckedNeverLost
<1> SUFFICES ASSUME LogInv, LoadOk(log, head), NEW m \in acked PROVE Reaches(log, m)
  BY DEF AckedNeverLost
<1>1. ~Dead
  BY LoadsMeansNotGarbled DEF LoadOk, Dead
<1> QED BY <1>1 DEF LogInv, AckedSynced

\* Two processes do not extend the same tail: every line that parses chains
\* to the one before it, whatever dies when (chain.rs, LineFault::OutOfChain).
THEOREM NoFork == Spec => []ChainNeverForks
<1> QED BY LogInvariant, LinesChain, PTL

\* An append that returned Ok is in everything a load accepts later, after any
\* number of kills, torn lines, I/O errors and power losses.
THEOREM NothingAckedIsLost == Spec => []AckedNeverLost
<1> QED BY LogInvariant, AckedFound, PTL

-----------------------------------------------------------------------------
(* Without power loss.                                                     *)

\* The log never gets shorter: a mark it reaches it keeps reaching, until a line
\* is spoilt for good.
LEMMA MarksStay ==
  ASSUME LogInv, NEW p \in Procs, Move(p), NEW m \in Seq(Procs), Garbled(log) \/ Reaches(log, m)
  PROVE  Garbled(log') \/ Reaches(log', m)
<1>0. log \in Seq(Lines) /\ Len(log) \in Nat /\ Len(m) \in Nat
  BY LenProperties DEF LogInv, LogTyped
<1>1. CASE UNCHANGED log
  BY <1>1
<1>2. CASE WriteText(p) \/ Torn(p)
  <2>1. pc[p] = "write"
    BY <1>2 DEF WriteText, Torn
  <2>2. PICK f \in Forms : log' = AfterText(p, f)
    BY <1>2 DEF WriteText, Torn, Forms
  <2>3. log' \in Seq(Lines) /\ Agree(log, log', Len(log))
    BY <2>1, <2>2, TextWritten
  <2>4. ~Garbled(log)
    BY <2>1, LoadsMeansNotGarbled DEF LogInv, WritersPlaced, WriterAt, LoadOk
  <2>5. Reaches(log, m) /\ Len(m) <= Len(log)
    BY <2>4 DEF Reaches
  <2> QED BY <1>0, <2>3, <2>5, AgreeReaches
<1>3. CASE WriteNewline(p)
  <2>1. CASE log' = log BY <2>1
  <2>2. CASE ~Garbled(log)
    <3>1. log' \in Seq(Lines) /\ Agree(log, log', Len(log))
      BY <1>3, NewlineWritten
    <3>2. Reaches(log, m) /\ Len(m) <= Len(log)
      BY <2>2 DEF Reaches
    <3> QED BY <1>0, <3>1, <3>2, AgreeReaches
  <2> QED BY <2>1, <2>2, <1>3, NewlineWritten
<1>4. Move(p) => UNCHANGED log \/ WriteText(p) \/ Torn(p) \/ WriteNewline(p)
  BY DEF Move, Step, OpenKey, KeyWrite, OpenReadLog, OpenReadHead, Acquire, LockTimeout, OpenEnsure,
     OpenLoad, OpenAnchor, Reload, Sync, WriteHead, SyncParent, SyncParentFails, HeadWritten, Begin, Kill,
     KillMidLine, IoError, disk
<1> QED BY <1>1, <1>2, <1>3, <1>4

\* What a step may make the head and the high-water mark of its process be.
LEMMA HeadMoves ==
  ASSUME LogInv, NEW p \in Procs, Move(p), head' # head
  PROVE  /\ head' \in Seq(Procs) /\ log' = log /\ acked' = acked
         /\ \/ head = NoHead /\ head' = Genesis
            \/ head # NoHead /\ head' = TailOf(log) /\ Len(head) <= Len(head')
            \/ head # NoHead /\ head' = seen[p] /\ Len(head) <= Len(head')
<1>0. /\ log \in Seq(Lines) /\ Len(log) \in Nat /\ Spine(log) /\ WriterAt(p) /\ seen[p] \in Seq(Procs)
      /\ view[p] \in Seq(Lines) /\ <<>> \in Seq(Procs)
      /\ head # NoHead => head \in Seq(Procs) /\ Len(head) \in Nat
  BY LenProperties DEF LogInv, LogTyped, LogShaped, WritersPlaced
<1>1. CASE OpenEnsure(p)
  BY <1>0, <1>1 DEF OpenEnsure, Fail, Genesis
<1>2. CASE OpenAnchor(p)
  <2>1. view[p] = log /\ head # NoHead /\ Len(head) <= Len(log)
    BY <1>0, <1>2 DEF OpenAnchor, WriterAt, LoadOk, verify_head, Reaches
  <2>2. TailOf(log) \in Seq(Procs) /\ Len(TailOf(log)) = Len(log)
    BY <1>0, MacTyped, MacLen DEF TailOf
  <2> QED BY <1>2, <2>1, <2>2 DEF OpenAnchor
<1>3. CASE WriteHead(p)
  <2>1. head # NoHead /\ Len(head) < Len(seen[p]) /\ head' = seen[p]
    BY <1>0, <1>3 DEF WriteHead, WriterAt, Writing
  <2>2. Len(seen[p]) \in Nat
    BY <1>0, LenProperties
  <2> QED BY <1>0, <1>3, <2>1, <2>2 DEF WriteHead
<1>4. Move(p) => UNCHANGED head \/ OpenEnsure(p) \/ OpenAnchor(p) \/ WriteHead(p)
  BY DEF Move, Step, OpenKey, KeyWrite, OpenReadLog, OpenReadHead, Acquire, LockTimeout,
     OpenLoad, Reload, WriteText, WriteNewline, Torn, Sync, SyncParent, SyncParentFails, HeadWritten, Begin,
     Kill, KillMidLine, IoError, disk
<1> QED BY <1>1, <1>2, <1>3, <1>4

LEMMA SeenMoves ==
  ASSUME LogInv, NEW p \in Procs, Move(p), seen'[p] # seen[p]
  PROVE  \/ seen'[p] = Genesis
         \/ pc[p] = "open_head" /\ log' = log /\ seen'[p] = TailOf(view[p])
         \/ log' = log /\ seen'[p] = TailOf(log)
         \/ log' = log /\ Garbled(log)
<1>0. seen \in [Procs -> Seq(Procs)] /\ WriterAt(p)
  BY DEF LogInv, LogTyped, WritersPlaced
<1>1. CASE OpenReadHead(p)
  BY <1>0, <1>1 DEF OpenReadHead, disk
<1>2. CASE OpenLoad(p)
  BY <1>0, <1>2 DEF OpenLoad, disk
<1>3. CASE OpenAnchor(p)
  BY <1>0, <1>3 DEF OpenAnchor, WriterAt
<1>4. CASE Sync(p)
  <2>1. Landed(p, "whole") /\ log' = log /\ seen'[p] = line_mac(NewLine(p))
    BY <1>0, <1>4 DEF Sync, WriterAt, Writing
  <2>2. line_mac(NewLine(p)) = NewMac(p)
    BY DEF line_mac, NewLine, NewMac
  <2> QED BY <2>1, <2>2 DEF Landed
<1>5. CASE Kill(p) \/ KillMidLine(p) \/ Torn(p)
  BY <1>0, <1>5 DEF Kill, KillMidLine, Torn, Die
<1>6. Move(p) => \/ UNCHANGED seen \/ OpenReadHead(p) \/ OpenLoad(p) \/ OpenAnchor(p) \/ Sync(p)
                 \/ Kill(p) \/ KillMidLine(p) \/ Torn(p)
  BY DEF Move, Step, OpenKey, KeyWrite, OpenReadLog, Acquire, LockTimeout, OpenEnsure,
     Reload, WriteText, WriteNewline, WriteHead, SyncParent, SyncParentFails, HeadWritten, Begin,
     IoError, mem
<1> QED BY <1>1, <1>2, <1>3, <1>4, <1>5, <1>6

LEMMA MarksKept ==
  ASSUME LogInv, MarksReached, NEW p \in Procs, Move(p)
  PROVE  MarksReached'
<1>0. /\ log \in Seq(Lines) /\ Len(log) \in Nat /\ Spine(log) /\ pc \in [Procs -> Places]
      /\ seen \in [Procs -> Seq(Procs)] /\ view \in [Procs -> Seq(Lines)] /\ Genesis \in Seq(Procs)
      /\ head # NoHead => head \in Seq(Procs) /\ Len(head) \in Nat
      /\ WriterAt(p) /\ acked \in SUBSET Seq(Procs) /\ LogTyped'
  <2>1. LogTyped'
    BY TypesKept DEF LogInv
  <2>2. Genesis \in Seq(Procs)
    BY DEF Genesis
  <2>3. LogTyped /\ LogShaped /\ WriterAt(p)
    BY DEF LogInv, WritersPlaced
  <2> QED BY <2>1, <2>2, <2>3, LenProperties DEF LogTyped, LogShaped
<1>1. Reaches(log, TailOf(log)) /\ TailOf(log) \in Seq(Procs)
  <2>1. TailOf(log) \in Seq(Procs) /\ Len(TailOf(log)) = Len(log)
    BY <1>0, MacTyped, MacLen DEF TailOf
  <2> QED BY <1>0, <2>1 DEF Reaches, TailOf
<1>2. \A l : l \in Seq(Lines) => Reaches(l, Genesis)
  BY LenProperties DEF Reaches, Genesis, MacAt
<1>3. head' # NoHead => Garbled(log') \/ Reaches(log', head')
  <2>1. CASE head' = head
    BY <2>1, <1>0, MarksStay DEF MarksReached
  <2>2. CASE head' # head
    <3>1. log' = log
      BY <2>2, HeadMoves
    <3>2. Garbled(log) \/ Reaches(log, seen[p])
      BY DEF MarksReached
    <3> QED BY <2>2, <3>1, <3>2, <1>0, <1>1, <1>2, HeadMoves
  <2> QED BY <2>1, <2>2
<1>4. ASSUME NEW q \in Procs PROVE Garbled(log') \/ Reaches(log', seen'[q])
  <2>1. CASE seen'[q] = seen[q]
    BY <2>1, <1>0, MarksStay DEF MarksReached
  <2>2. CASE seen'[q] # seen[q]
    <3>1. q = p
      BY <2>2, MoveIsLocal DEF MovesAlone, LogInv
    <3>2. log' \in Seq(Lines)
      BY <1>0 DEF LogTyped
    <3>3. pc[p] = "open_head" => Garbled(log) \/ Reaches(log, TailOf(view[p]))
      BY DEF MarksReached
    <3> QED BY <2>2, <3>1, <3>2, <3>3, <1>1, <1>2, SeenMoves
  <2> QED BY <2>1, <2>2
<1>5. ASSUME NEW q \in Procs, pc'[q] = "open_head"
      PROVE  Garbled(log') \/ Reaches(log', TailOf(view'[q]))
  <2>1. CASE pc[q] = "open_head" /\ view'[q] = view[q]
    <3>1. TailOf(view[q]) \in Seq(Procs)
      BY <1>0, LenProperties, MacTyped DEF TailOf
    <3> QED BY <2>1, <3>1, MarksStay DEF MarksReached
  <2>2. CASE view'[q] = log /\ log' = log
    BY <2>2, <1>1
  <2>3. OpenReadLog(p) \/ pc'[p] # "open_head"
    BY <1>0 DEF Move, Step, OpenKey, KeyWrite, OpenReadHead, Acquire, LockTimeout, OpenEnsure, OpenLoad,
       OpenAnchor, Reload, WriteText, WriteNewline, Torn, Sync, WriteHead, SyncParent, SyncParentFails,
       HeadWritten, Begin, Kill, KillMidLine, IoError, Goto, Fail, Die
  <2>4. q = p => view'[q] = log /\ log' = log
    BY <1>0, <1>5, <2>3 DEF OpenReadLog, disk
  <2>5. q # p => pc[q] = "open_head" /\ view'[q] = view[q]
    BY <1>5, MoveIsLocal DEF MovesAlone, LogInv
  <2> QED BY <2>1, <2>2, <2>4, <2>5
<1>6. ASSUME NEW m \in acked' PROVE head' # NoHead /\ Len(m) <= Len(head')
  <2>1. CASE m \in acked
    <3>1. head # NoHead /\ Len(m) <= Len(head) /\ Len(m) \in Nat
      BY <2>1, <1>0, LenProperties DEF MarksReached
    <3>2. CASE head' = head BY <3>1, <3>2
    <3>3. CASE head' # head
      <4>1. head' \in Seq(Procs) /\ Len(head) <= Len(head') /\ Len(head') \in Nat
        BY <3>1, <3>3, HeadMoves, LenProperties
      <4> QED BY <3>1, <4>1, <1>0, NoHeadAssumption
    <3> QED BY <3>2, <3>3
  <2>2. CASE m \notin acked
    <3>1. /\ pc[p] = "dirsync" /\ ret[p] = "acked" /\ m = seen[p] /\ head' = head
      BY <1>6, <2>2 DEF Move, Step, OpenKey, KeyWrite, OpenReadLog, OpenReadHead, Acquire, LockTimeout,
         OpenEnsure, OpenLoad, OpenAnchor, Reload, WriteText, WriteNewline, Torn, Sync, WriteHead, SyncParent,
         SyncParentFails, HeadWritten, Begin, Kill, KillMidLine, IoError
    <3>2. head = seen[p] /\ seen[p] \in Seq(Procs)
      BY <1>0, <3>1 DEF WriterAt
    <3> QED BY <3>1, <3>2, NoHeadAssumption, LenProperties
  <2> QED BY <2>1, <2>2
<1> QED BY <1>3, <1>4, <1>5, <1>6 DEF MarksReached

LEMMA MarksStep ==
  ASSUME "power" \notin Faults
  PROVE  LogInv /\ MarksReached /\ [Next]_vars => MarksReached'
<1> SUFFICES ASSUME LogInv, MarksReached, [Next]_vars PROVE MarksReached'
  OBVIOUS
<1>1. ASSUME NEW p \in Procs, Move(p) PROVE MarksReached'
  BY <1>1, MarksKept
<1>2. ~PowerLoss
  BY DEF PowerLoss, Fault
<1>3. CASE UNCHANGED vars
  BY <1>3 DEF MarksReached, vars, disk, mem
<1> QED BY <1>1, <1>2, <1>3 DEF Next, Move

LEMMA MarksInit == Init => MarksReached
BY DEF Init, MarksReached, Reaches, Genesis, MacAt

LEMMA MarksHold == LogInv /\ MarksReached => MarksWithinLog
<1> SUFFICES ASSUME LogInv, MarksReached PROVE MarksWithinLog
  OBVIOUS
<1>1. Chained(log) <=> ~Garbled(log)
  BY LoadsMeansNotGarbled
<1>2. Len(log) \in Nat /\ synced \in Nat /\ synced <= Len(log)
  BY LenProperties DEF LogInv, LogTyped, LogShaped
<1> QED BY <1>1, <1>2 DEF MarksReached, MarksWithinLog, check_high_water

\* Where nothing but power loss is excluded, the log holds what was synced, what
\* the head anchors and what any running instance has seen, and the head anchors
\* every append that returned Ok (D78: cutting such a line away is noticed, and no
\* store refuses its own log because of a crash).
THEOREM MarksAlwaysWithin ==
  ASSUME "power" \notin Faults
  PROVE  Spec => []MarksWithinLog
<1>1. Init => MarksReached BY MarksInit
<1>2. LogInv /\ MarksReached /\ [Next]_vars => MarksReached' BY MarksStep
<1>3. LogInv /\ MarksReached => MarksWithinLog BY MarksHold
<1> QED BY <1>1, <1>2, <1>3, LogInvariant, PTL DEF Spec

-----------------------------------------------------------------------------
(* The key.                                                                *)

\* Before a key is created nobody has got anywhere.
KeyFirst ==
  key = "none" => /\ log = <<>> /\ head = NoHead /\ headDisk = NoHead
                  /\ \A p \in Procs : pc[p] = "closed"

\* Nothing is signed under a key that is not on the disk as a whole: while its
\* creator is between create_new and the write, or dead there, no other opener
\* gets past it and the log is not begun.
SignedUnderWholeKey ==
  key # "good" =>
    /\ log = <<>> /\ head = NoHead
    /\ \A p \in Procs : pc[p] \in {"closed", "key_write"}

\* And there is no head on the disk that a power loss would bring back.
KeyWhole == SignedUnderWholeKey /\ (key # "good" => headDisk = NoHead)

\* What a process does that has not got past the key.
LEMMA KeyMoves ==
  ASSUME LogTyped, NEW p \in Procs, Move(p)
  PROVE  /\ pc[p] = "closed" => OpenKey(p)
         /\ pc[p] = "key_write" => KeyWrite(p) \/ Kill(p)
         /\ key' = key \/ OpenKey(p) \/ KeyWrite(p)
<1> USE DEF disk
<1>1. CASE OpenKey(p) BY <1>1 DEF OpenKey
<1>2. CASE KeyWrite(p) BY <1>2 DEF KeyWrite
<1>3. CASE OpenReadLog(p) BY <1>3 DEF OpenReadLog
<1>4. CASE OpenReadHead(p) BY <1>4 DEF OpenReadHead
<1>5. CASE Acquire(p) BY <1>5 DEF Acquire
<1>6. CASE LockTimeout(p) BY <1>6 DEF LockTimeout
<1>7. CASE OpenEnsure(p) BY <1>7 DEF OpenEnsure
<1>8. CASE OpenLoad(p) BY <1>8 DEF OpenLoad
<1>9. CASE OpenAnchor(p) BY <1>9 DEF OpenAnchor
<1>10. CASE Reload(p) BY <1>10 DEF Reload
<1>11. CASE WriteText(p) BY <1>11 DEF WriteText
<1>12. CASE WriteNewline(p) BY <1>12 DEF WriteNewline
<1>13. CASE Sync(p) BY <1>13 DEF Sync
<1>14. CASE WriteHead(p) BY <1>14 DEF WriteHead
<1>15. CASE SyncParent(p) BY <1>15 DEF SyncParent, HeadWritten
<1>16. CASE Begin(p) BY <1>16 DEF Begin
<1>17. CASE Kill(p) BY <1>17 DEF Kill
<1>18. CASE KillMidLine(p) BY <1>18 DEF KillMidLine
<1>19. CASE Torn(p) BY <1>19 DEF Torn
<1>20. CASE IoError(p) BY <1>20 DEF IoError
<1>21. CASE SyncParentFails(p) BY <1>21 DEF SyncParentFails, HeadWritten
<1> QED BY <1>1, <1>2, <1>3, <1>4, <1>5, <1>6, <1>7, <1>8, <1>9, <1>10, <1>11, <1>12,
           <1>13, <1>14, <1>15, <1>16, <1>17, <1>18, <1>19, <1>20, <1>21 DEF Move, Step

LEMMA KeyFirstInit == Init => KeyFirst
BY DEF Init, KeyFirst

LEMMA KeyFirstStep == LogInv /\ KeyFirst /\ [Next]_vars => KeyFirst'
<1> SUFFICES ASSUME LogInv, KeyFirst, [Next]_vars, key' = "none" PROVE KeyFirst'
  BY DEF KeyFirst
<1>1. ASSUME NEW p \in Procs, Move(p) PROVE KeyFirst'
  <2>1. key' # "none" \/ key' = key
    BY <1>1, KeyMoves DEF LogInv, OpenKey, KeyWrite
  <2>2. OpenKey(p)
    BY <1>1, <2>1, KeyMoves DEF LogInv, KeyFirst
  <2> QED BY <2>1, <2>2 DEF OpenKey
<1>2. CASE PowerLoss
  <2>1. key = "none"
    BY <1>2 DEF PowerLoss
  <2>2. log = <<>> /\ head = NoHead /\ headDisk = NoHead /\ synced \in Nat /\ Len(log) = 0
    BY <2>1, EmptySeq DEF KeyFirst, LogInv, LogTyped
  <2>3. \A l \in AfterPowerLoss : l = <<>>
    <3>1. ASSUME NEW n \in synced .. 0 PROVE SubSeq(log, 1, n) = <<>>
      BY <2>2
    <3>2. (synced + 1) .. 0 = {}
      BY <2>2
    <3> QED BY <2>2, <3>1, <3>2 DEF AfterPowerLoss
  <2> QED BY <1>2, <2>2, <2>3 DEF PowerLoss, KeyFirst
<1>3. CASE UNCHANGED vars
  BY <1>3 DEF KeyFirst, vars, disk, mem
<1> QED BY <1>1, <1>2, <1>3 DEF Next, Move

LEMMA KeyWholeInit == Init => KeyWhole
BY DEF Init, KeyWhole, SignedUnderWholeKey

LEMMA KeyWholeStep ==
  ASSUME "power" \notin Faults
  PROVE  LogInv /\ KeyWhole /\ [Next]_vars => KeyWhole'
<1> SUFFICES ASSUME LogInv, KeyWhole, [Next]_vars, key' # "good" PROVE KeyWhole'
  BY DEF KeyWhole, SignedUnderWholeKey
<1>1. ASSUME NEW p \in Procs, Move(p) PROVE KeyWhole'
  <2>1. key # "good"
    BY <1>1, KeyMoves DEF LogInv, OpenKey, KeyWrite
  <2>2. OpenKey(p) \/ Kill(p)
    BY <1>1, <2>1, KeyMoves DEF LogInv, KeyWhole, SignedUnderWholeKey, KeyWrite
  <2>3. CASE OpenKey(p)
    BY <2>1, <2>3 DEF OpenKey, Goto, KeyWhole, SignedUnderWholeKey, LogInv, LogTyped
  <2>4. CASE Kill(p)
    BY <2>1, <2>4 DEF Kill, Die, Fail, Goto, disk, KeyWhole, SignedUnderWholeKey, LogInv, LogTyped
  <2> QED BY <2>2, <2>3, <2>4
<1>2. CASE PowerLoss
  BY <1>2 DEF PowerLoss, Fault
<1>3. CASE UNCHANGED vars
  BY <1>3 DEF KeyWhole, SignedUnderWholeKey, vars, disk, mem
<1> QED BY <1>1, <1>2, <1>3 DEF Next, Move

\* Without power loss no line and no head is written before the key is whole, and
\* nobody opens the store with a short one (load_or_create_key, approval.rs).
THEOREM KeyAlwaysWhole ==
  ASSUME "power" \notin Faults
  PROVE  Spec => []SignedUnderWholeKey
<1>1. LogInv /\ KeyWhole /\ [Next]_vars => KeyWhole' BY KeyWholeStep
<1>2. KeyWhole => SignedUnderWholeKey BY DEF KeyWhole
<1> QED BY <1>1, <1>2, KeyWholeInit, LogInvariant, PTL DEF Spec

-----------------------------------------------------------------------------
(* One fault.                                                              *)

\* With the lock held, its holder alone can be busy.
LEMMA BusyHolder ==
  ASSUME LogInv, NEW p \in Procs, Move(p), pc[p] \in Holding
  PROVE  /\ Busy <=> pc[p] \in Writing
         /\ Busy' <=> pc'[p] \in Writing
         /\ \A q \in Procs \ {p} : pc[q] \notin Holding /\ pc'[q] \notin Holding
<1>1. \A q \in Procs \ {p} : pc[q] \notin Holding /\ pc'[q] = pc[q]
  BY MoveIsLocal DEF LogInv, LockHeld, MovesAlone
<1> QED BY <1>1 DEF Busy, Writing, Holding

\* A process that does not hold the lock does not become a writer.
LEMMA NotBusyOutside ==
  ASSUME LogInv, NEW p \in Procs, Move(p), pc[p] \notin Holding
  PROVE  /\ Busy' <=> Busy
         /\ UNCHANGED <<log, synced, head, headDisk, acked>>
         /\ pc'[p] \notin {"newline", "dirsync"}
<1>0. pc \in [Procs -> Places]
  BY DEF LogInv, LogTyped
<1>1. pc'[p] \notin Writing /\ pc'[p] # "dirsync"
  BY <1>0 DEF Move, Step, OpenKey, KeyWrite, OpenReadLog, OpenReadHead, Acquire, LockTimeout, OpenEnsure,
     OpenLoad, OpenAnchor, Reload, WriteText, WriteNewline, Torn, Sync, WriteHead, SyncParent, SyncParentFails,
     HeadWritten, Begin, Kill, KillMidLine, IoError, Goto, Fail, Die, Holding, Writing
<1>2. \A q \in Procs \ {p} : pc'[q] = pc[q]
  BY MoveIsLocal DEF LogInv, MovesAlone
<1> QED BY <1>1, <1>2, MoveIsLocal DEF Busy, Writing, Holding, LogInv, MovesAlone

\* A step that leaves log and head alone does not use up slack: a process
\* leaves its write unfinished only by a fault.
LEMMA QuietMoves ==
  ASSUME LogInv, NEW p \in Procs, Move(p), log' = log, head' = head
  PROVE  /\ faults' \in {faults, faults + 1}
         /\ Busy /\ ~(Busy') => faults' = faults + 1
<1>0. pc \in [Procs -> Places]
  BY DEF LogInv, LogTyped
<1>1. faults' \in {faults, faults + 1}
  BY DEF Move, Step, OpenKey, KeyWrite, OpenReadLog, OpenReadHead, Acquire, LockTimeout, OpenEnsure,
     OpenLoad, OpenAnchor, Reload, WriteText, WriteNewline, Torn, Sync, WriteHead, SyncParent, SyncParentFails,
     HeadWritten, Begin, Kill, KillMidLine, IoError, Fault
<1>2. CASE pc[p] \in Holding
  <2>1. ASSUME pc[p] \in Writing, pc'[p] \notin Writing PROVE faults' = faults + 1
    <3>1. CASE WriteHead(p)
      <4>1. seen[p] = head /\ pc[p] = "head" /\ Len(head) < Len(NewMac(p)) /\ seen[p] = NewMac(p)
        BY <3>1 DEF WriteHead, LogInv, WritersPlaced, WriterAt, Writing
      <4>2. seen[p] \in Seq(Procs) /\ Len(seen[p]) \in Nat
        BY LenProperties DEF LogInv, LogTyped
      <4> QED BY <4>1, <4>2
    <3>2. CASE ~WriteHead(p)
      BY <1>0, <2>1, <3>2 DEF Move, Step, OpenKey, KeyWrite, OpenReadLog, OpenReadHead, Acquire, LockTimeout,
         OpenEnsure, OpenLoad, OpenAnchor, Reload, WriteText, WriteNewline, Torn, Sync, SyncParent,
         SyncParentFails, HeadWritten, Begin, Kill, KillMidLine, IoError, Goto, Fail, Die, Writing, Fault
    <3> QED BY <3>1, <3>2
  <2> QED BY <1>1, <1>2, <2>1, BusyHolder
<1>3. CASE pc[p] \notin Holding
  BY <1>1, <1>3, NotBusyOutside
<1> QED BY <1>1, <1>2, <1>3

LEMMA TailReached ==
  ASSUME LogInv
  PROVE  /\ TailOf(log) \in Seq(Procs) /\ Len(TailOf(log)) = Len(log) /\ Reaches(log, TailOf(log))
         /\ \A k \in Nat : Within(TailOf(log), k)
<1>0. log \in Seq(Lines) /\ Len(log) \in Nat /\ Spine(log)
  BY LenProperties DEF LogInv, LogTyped, LogShaped
<1>1. TailOf(log) \in Seq(Procs) /\ Len(TailOf(log)) = Len(log)
  BY <1>0, MacTyped, MacLen DEF TailOf
<1>2. Reaches(log, TailOf(log))
  BY <1>0, <1>1 DEF Reaches, TailOf
<1> QED BY <1>0, <1>1, <1>2, NoHeadAssumption DEF Within

LEMMA NearKept ==
  ASSUME LogInv, NearHead, NEW p \in Procs, Move(p)
  PROVE  NearHead'
<1>0. /\ log \in Seq(Lines) /\ Len(log) \in Nat /\ Spine(log) /\ OnlyLastBroken(log)
      /\ faults \in Nat /\ WriterAt(p) /\ pc \in [Procs -> Places]
      /\ head # NoHead => head \in Seq(Procs) /\ Len(head) \in Nat
      /\ LogTyped' /\ faults' \in Nat /\ log' \in Seq(Lines) /\ Len(log') \in Nat
  BY TypesKept, LenProperties DEF LogInv, LogTyped, LogShaped, WritersPlaced
<1>n. faults \in Nat /\ faults' \in Nat
  BY <1>0
<1>1. CASE log' = log /\ head' = head
  <2>0. faults' \in {faults, faults + 1} /\ (Busy /\ ~(Busy') => faults' = faults + 1)
    BY <1>1, QuietMoves
  <2>1. Slack <= Slack' /\ Slack \in Nat /\ Slack' \in Nat
    <3>0. PICK f \in Nat : f = faults'
      BY <1>n
    <3>1. Slack = (IF Busy THEN faults + 1 ELSE faults) /\ Slack' = (IF Busy' THEN f + 1 ELSE f)
      BY <3>0 DEF Slack
    <3>2. f \in {faults, faults + 1} /\ (Busy /\ ~(Busy') => f = faults + 1)
      BY <2>0, <3>0
    <3> HIDE DEF Slack
    <3> QED BY <1>n, <3>1, <3>2
  <2>2. Within(head, Slack) => Within(head, Slack')
    BY <1>0, <2>1 DEF Within
  <2> QED BY <1>1, <2>2 DEF NearHead, Slack, Within
<1>2. CASE WriteText(p)
  <2>0. pc[p] = "write" /\ log' = AfterText(p, "unended") /\ "unended" \in Forms /\ head' = head
        /\ faults' = faults /\ pc'[p] = "newline"
    BY <1>0, <1>2 DEF WriteText, Forms, Goto
  <2>1. view[p] = log /\ LoadOk(log, head) /\ head # NoHead /\ Reaches(log, head) /\ Len(head) <= Len(log)
    BY <1>0, <2>0 DEF WriterAt, LoadOk, verify_head, Reaches
  <2>2. CASE ~EndsCleanly(log)
    BY <2>0, <2>2, TextWritten DEF Slack, NearHead
  <2>3. CASE EndsCleanly(log)
    <3>1. Len(log') = Len(log) + 1 /\ Agree(log, log', Len(log))
      BY <2>0, <2>3, TextWritten
    <3>2. ~Busy /\ Busy'
      BY <1>2, <2>0, BusyHolder DEF Holding, Writing, Move, Step
    <3>3. ~Garbled(log)
      BY <2>1, LoadsMeansNotGarbled DEF LoadOk
    <3>4. Len(log) <= Len(head) + faults
      BY <2>1, <3>2, <3>3 DEF Slack, NearHead, Within
    <3>5. Reaches(log', head)
      BY <1>0, <2>1, <3>1, AgreeReaches
    <3>6. Within(head, faults + 1)'
      BY <1>0, <2>0, <2>1, <3>1, <3>4, <3>5 DEF Within
    <3> QED BY <3>2, <3>6 DEF Slack, NearHead
  <2> QED BY <2>2, <2>3
<1>3. CASE Torn(p)
  <2>0. pc[p] = "write" /\ log' = AfterText(p, "garbled") /\ "garbled" \in Forms
    BY <1>3 DEF Torn, Forms
  <2>1. Garbled(log')
    BY <2>0, TextWritten DEF Garbled
  <2> QED BY <2>1 DEF Slack, NearHead
<1>4. CASE WriteNewline(p)
  <2>0. pc[p] = "newline" /\ pc'[p] = "sync" /\ head' = head /\ faults' = faults
    BY <1>0, <1>4 DEF WriteNewline, Goto
  <2>1. Busy /\ Busy'
    BY <1>4, <2>0, BusyHolder DEF Holding, Writing, Move, Step
  <2>2. CASE log' = log
    BY <1>1, <2>0, <2>2
  <2>3. CASE ~Garbled(log)
    <3>1. Len(log') = Len(log) /\ Agree(log, log', Len(log)) /\ log # <<>> /\ log' # <<>>
      BY <1>4, NewlineWritten
    <3>2. head # NoHead /\ Reaches(log, head) /\ Len(log) <= Len(head) + (faults + 1)
      BY <2>1, <2>3, <3>1 DEF Slack, NearHead, Within
    <3>3. Reaches(log', head)
      BY <1>0, <3>1, <3>2, AgreeReaches DEF Reaches
    <3>4. Within(head, faults + 1)'
      BY <1>0, <2>0, <3>1, <3>2, <3>3 DEF Within
    <3> QED BY <2>1, <3>4 DEF Slack, NearHead
  <2> QED BY <2>2, <2>3, <1>4, NewlineWritten
<1>5. CASE head' # head
  <2>0. Slack' \in Nat
    <3>1. PICK f \in Nat : f = faults'
      BY <1>n
    <3>2. Slack' \in {f, f + 1}
      BY <3>1 DEF Slack
    <3> QED BY <3>2
  <2>1. log' = log
    BY <1>5, HeadMoves
  <2>2. \A k \in Nat : Within(TailOf(log), k)
    BY TailReached
  <2>3. CASE head' = Genesis /\ head = NoHead
    <3>1. Garbled(log) \/ log = <<>>
      BY <2>3 DEF Slack, NearHead, Within
    <3>2. log = <<>> => TailOf(log) = Genesis
      BY DEF TailOf, MacAt, Genesis
    <3> QED BY <2>0, <2>1, <2>2, <2>3, <3>1, <3>2 DEF NearHead, Slack, Within
  <2>4. CASE head' = TailOf(log)
    <3> QED BY <2>0, <2>1, <2>2, <2>4 DEF NearHead, Slack, Within
  <2>5. CASE WriteHead(p)
    <3>1. Landed(p, "whole") /\ head' = NewMac(p)
      BY <1>0, <2>5 DEF WriteHead, WriterAt, Writing
    <3> QED BY <2>1, <2>4, <3>1 DEF Slack, Landed, NearHead
  <2>6. CASE OpenAnchor(p) \/ OpenEnsure(p)
    BY <1>0, <1>5, <2>3, <2>4, <2>6 DEF OpenAnchor, OpenEnsure, WriterAt
  <2>7. Move(p) => UNCHANGED head \/ OpenEnsure(p) \/ OpenAnchor(p) \/ WriteHead(p)
    BY DEF Move, Step, OpenKey, KeyWrite, OpenReadLog, OpenReadHead, Acquire, LockTimeout,
       OpenLoad, Reload, WriteText, WriteNewline, Torn, Sync, SyncParent, SyncParentFails, HeadWritten, Begin,
       Kill, KillMidLine, IoError, disk
  <2> QED BY <1>5, <2>5, <2>6, <2>7
<1>6. Move(p) => UNCHANGED log \/ WriteText(p) \/ Torn(p) \/ WriteNewline(p)
  BY DEF Move, Step, OpenKey, KeyWrite, OpenReadLog, OpenReadHead, Acquire, LockTimeout, OpenEnsure,
     OpenLoad, OpenAnchor, Reload, Sync, WriteHead, SyncParent, SyncParentFails, HeadWritten, Begin, Kill,
     KillMidLine, IoError, disk
<1> QED BY <1>1, <1>2, <1>3, <1>4, <1>5, <1>6

\* Before any fault.
LEMMA FaultlessKept ==
  ASSUME LogInv, SlackLeft, faults = 0, NEW p \in Procs, Move(p), faults' = 0
  PROVE  Faultless'
<1>0. /\ log \in Seq(Lines) /\ Len(log) \in Nat /\ Spine(log) /\ OnlyLastBroken(log)
      /\ WriterAt(p) /\ pc \in [Procs -> Places] /\ synced \in Nat /\ synced <= Len(log)
      /\ head # NoHead => head \in Seq(Procs) /\ Len(head) \in Nat
      /\ headDisk # NoHead => headDisk \in Seq(Procs) /\ Len(headDisk) \in Nat
      /\ NearHead /\ Faultless /\ ~Garbled(log)
      /\ log' \in Seq(Lines) /\ Len(log') \in Nat
  <2>1. LogTyped'
    BY TypesKept
  <2>2. NearHead /\ Faultless /\ ~Garbled(log)
    BY DEF SlackLeft, Faultless
  <2>3. log' \in Seq(Lines) /\ Len(log') \in Nat
    BY <2>1, LenProperties DEF LogTyped
  <2> QED BY <2>2, <2>3, LenProperties DEF LogInv, LogTyped, LogShaped, WritersPlaced
<1>1. CASE pc[p] \notin Holding
  <2>1. UNCHANGED <<log, synced, head, headDisk>> /\ pc'[p] \notin {"newline", "dirsync"}
        /\ \A q \in Procs \ {p} : pc'[q] = pc[q]
    BY <1>1, NotBusyOutside, MoveIsLocal DEF MovesAlone, LogInv
  <2> QED BY <1>0, <1>1, <2>1 DEF Faultless, Within, Holding
<1> SUFFICES ASSUME pc[p] \in Holding PROVE Faultless'
  BY <1>1
<1>2. \A q \in Procs \ {p} : pc[q] \notin Holding /\ pc'[q] \notin Holding
  BY BusyHolder
<1>3. pc[p] # "newline" => EndsCleanly(log)
  BY <1>0, <1>2 DEF Faultless, Holding
<1>4. pc[p] # "dirsync" => headDisk = head
  BY <1>0, <1>2 DEF Faultless, Holding
<1>5. Busy <=> pc[p] \in Writing
  BY BusyHolder
<1>6. pc[p] \notin Writing => Within(head, 0)
  BY <1>0, <1>5 DEF Slack, NearHead
<1>7. CASE UNCHANGED <<log, synced, head, headDisk>> /\ pc[p] \notin {"newline", "dirsync"}
  BY <1>0, <1>3, <1>4, <1>7 DEF Faultless, Within
<1>8. CASE OpenEnsure(p) /\ head' # head
  <2>1. head = NoHead /\ head' = Genesis /\ pc'[p] = "dirsync" /\ UNCHANGED <<log, synced, headDisk>>
    BY <1>0, <1>8 DEF OpenEnsure, Goto, Fail
  <2>2. Len(Genesis) = 0
    BY DEF Genesis
  <2> QED BY <1>0, <1>3, <1>8, <2>1, <2>2 DEF Faultless, Within, OpenEnsure
<1>9. CASE OpenAnchor(p)
  <2>1. Ahead(log, head) /\ head # NoHead /\ pc[p] = "open_anchor"
    BY <1>0, <1>9 DEF OpenAnchor, WriterAt, LoadOk, verify_head
  <2>2. Len(log) <= Len(head)
    BY <1>0, <1>6, <2>1 DEF Within, Writing
  <2> QED BY <1>0, <2>1, <2>2 DEF Ahead
<1>10. CASE WriteText(p)
  <2>0. pc[p] = "write" /\ log' = AfterText(p, "unended") /\ "unended" \in Forms
        /\ UNCHANGED <<head, headDisk>> /\ pc'[p] = "newline" /\ EndsCleanly(log)
        /\ synced' = synced
    BY <1>0, <1>3, <1>10 DEF WriteText, Forms, Goto
  <2>1. /\ Len(log') = Len(log) + 1 /\ Agree(log, log', Len(log))
        /\ log'[Len(log')].form = "unended"
    BY <2>0, TextWritten
  <2>2. head # NoHead /\ Reaches(log, head) /\ Len(log) <= Len(head) /\ headDisk = head
    BY <1>0, <1>4, <1>6, <2>0 DEF Within, Writing, WriterAt, LoadOk, verify_head
  <2>3. Reaches(log', head)
    BY <1>0, <2>1, <2>2, AgreeReaches DEF Reaches
  <2>4. Within(headDisk, 1)'
    BY <1>0, <2>0, <2>1, <2>2, <2>3 DEF Within
  <2>5. ~Garbled(log)'
    BY <2>1 DEF Garbled
  <2> QED BY <1>0, <2>0, <2>2, <2>4, <2>5 DEF Faultless
<1>11. CASE WriteNewline(p)
  <2>0. UNCHANGED <<head, headDisk, synced>> /\ pc[p] = "newline"
    BY <1>11 DEF WriteNewline
  <2>1. /\ Len(log') = Len(log) /\ Agree(log, log', Len(log)) /\ log # <<>>
        /\ EndsCleanly(log') /\ log'[Len(log)].form = "whole"
    BY <1>0, <1>11, NewlineWritten
  <2>2. headDisk = head /\ headDisk # NoHead /\ Reaches(log, headDisk) /\ Len(log) <= Len(headDisk) + 1
    BY <1>0, <1>4, <2>0, <2>1 DEF Faultless, Within
  <2>3. Reaches(log', headDisk)
    BY <1>0, <2>1, <2>2, AgreeReaches DEF Reaches
  <2>4. Within(headDisk, 1)'
    BY <1>0, <2>0, <2>1, <2>2, <2>3 DEF Within
  <2>5. ~Garbled(log)'
    BY <2>1 DEF Garbled
  <2> QED BY <1>0, <2>0, <2>1, <2>2, <2>4, <2>5 DEF Faultless
<1>12. CASE Sync(p)
  <2>1. UNCHANGED <<log, head, headDisk>> /\ synced' = Len(log) /\ pc[p] = "sync"
    BY <1>12 DEF Sync
  <2> QED BY <1>0, <1>3, <1>4, <2>1 DEF Faultless, Within
<1>13. CASE WriteHead(p)
  <2>1. UNCHANGED <<log, synced, headDisk>> /\ head' = seen[p] /\ pc'[p] = "dirsync" /\ pc[p] = "head"
    BY <1>0, <1>13 DEF WriteHead, Goto
  <2>2. seen[p] = TailOf(log) /\ synced = Len(log)
    BY <1>0, <2>1 DEF WriterAt, Writing, Landed
  <2>3. Len(head') = Len(log)
    BY <2>1, <2>2, TailReached
  <2> QED BY <1>0, <1>3, <2>1, <2>2, <2>3 DEF Faultless, Within
<1>14. CASE SyncParent(p)
  <2>1. UNCHANGED <<log, synced, head>> /\ headDisk' = head /\ pc[p] = "dirsync"
    BY <1>14 DEF SyncParent, HeadWritten
  <2>2. Within(head, 1)
    BY <1>0, <1>6, <2>1 DEF Within, Writing
  <2> QED BY <1>0, <1>3, <2>1, <2>2 DEF Faultless, Within
<1>15. \/ UNCHANGED <<log, synced, head, headDisk>> /\ pc[p] \notin {"newline", "dirsync"}
       \/ OpenEnsure(p) /\ head' # head
       \/ OpenAnchor(p) \/ WriteText(p) \/ WriteNewline(p) \/ Sync(p) \/ WriteHead(p) \/ SyncParent(p)
  BY DEF Move, Step, OpenKey, KeyWrite, OpenReadLog, OpenReadHead, Acquire, LockTimeout, OpenEnsure,
     OpenLoad, Reload, Begin, Kill, KillMidLine, Torn, IoError, SyncParentFails, Fault, disk
<1> QED BY <1>7, <1>8, <1>9, <1>10, <1>11, <1>12, <1>13, <1>14, <1>15

\* The first fault is a power loss: what is left of the log is at most one
\* line ahead of either head.
LEMMA SlackAfterPower ==
  ASSUME LogInv, SlackLeft, PowerLoss
  PROVE  SlackLeft'
<1>0. /\ log \in Seq(Lines) /\ Len(log) \in Nat /\ faults \in Nat /\ faults' = faults + 1
      /\ synced \in Nat /\ synced <= Len(log)
      /\ head # NoHead => head \in Seq(Procs) /\ Len(head) \in Nat
      /\ headDisk # NoHead => headDisk \in Seq(Procs) /\ Len(headDisk) \in Nat
      /\ pc' = [p \in Procs |-> "closed"] /\ head' \in {head, headDisk}
  BY LenProperties DEF LogInv, LogTyped, LogShaped, PowerLoss, Fault
<1>1. /\ log' \in Seq(Lines) /\ Len(log') \in Nat /\ synced <= Len(log') /\ Len(log') <= Len(log)
      /\ Agree(log, log', Len(log'))
  BY PowerCut, LenProperties
<1>2. ~(Busy') /\ faults' # 0
  BY <1>0 DEF Busy, Writing
<1>3. CASE faults' <= 1
  <2>1. faults = 0 /\ NearHead /\ Faultless
    BY <1>0, <1>3 DEF SlackLeft
  <2>2. Within(head, 1) /\ Within(headDisk, 1)
    BY <1>0, <2>1 DEF Slack, NearHead, Faultless, Within
  <2>3. ASSUME NEW h \in {head, headDisk}
        PROVE  \/ h = NoHead /\ log' = <<>>
               \/ h # NoHead /\ Reaches(log', h) /\ Len(log') <= Len(h) + 1
    <3>1. CASE h = NoHead
      <4>1. Len(log') = 0
        BY <3>1, <2>2, <2>3, <1>1 DEF Within
      <4> QED BY <3>1, <4>1, <1>1, EmptySeq
    <3>2. CASE h # NoHead
      <4>1. h \in Seq(Procs) /\ Len(h) \in Nat /\ Len(h) <= synced
        BY <1>0, <2>1, <2>3, <3>2 DEF Faultless
      <4>2. Reaches(log, h) /\ Len(log) <= Len(h) + 1
        BY <2>2, <2>3, <3>2 DEF Within
      <4>3. Reaches(log', h)
        BY <1>0, <1>1, <4>1, <4>2, AgreeReaches
      <4> QED BY <1>0, <1>1, <3>2, <4>1, <4>2, <4>3
    <3> QED BY <3>1, <3>2
  <2>4. NearHead'
    BY <1>0, <1>2, <2>1, <2>3 DEF Slack, NearHead, Within
  <2> QED BY <1>2, <2>4 DEF SlackLeft
<1>4. CASE ~(faults' <= 1)
  BY <1>2, <1>4 DEF SlackLeft
<1> QED BY <1>3, <1>4

LEMMA SlackStep == LogInv /\ SlackLeft /\ [Next]_vars => SlackLeft'
<1> SUFFICES ASSUME LogInv, SlackLeft, [Next]_vars PROVE SlackLeft'
  OBVIOUS
<1>1. ASSUME NEW p \in Procs, Move(p) PROVE SlackLeft'
  <2>1. faults \in Nat /\ faults' \in {faults, faults + 1}
    BY <1>1 DEF LogInv, LogTyped, Move, Step, OpenKey, KeyWrite, OpenReadLog, OpenReadHead, Acquire,
       LockTimeout, OpenEnsure, OpenLoad, OpenAnchor, Reload, WriteText, WriteNewline, Torn, Sync, WriteHead,
       SyncParent, SyncParentFails, HeadWritten, Begin, Kill, KillMidLine, IoError, Fault
  <2>2. faults' <= 1 => NearHead'
    BY <1>1, <2>1, NearKept DEF SlackLeft
  <2>3. faults' = 0 => Faultless'
    BY <1>1, <2>1, FaultlessKept
  <2> QED BY <2>2, <2>3 DEF SlackLeft
<1>2. CASE PowerLoss
  BY <1>2, SlackAfterPower
<1>3. CASE UNCHANGED vars
  BY <1>3 DEF Slack, SlackLeft, NearHead, Faultless, Within, Busy, vars, disk, mem
<1> QED BY <1>1, <1>2, <1>3 DEF Next, Move

LEMMA SlackInit == Init => SlackLeft
BY DEF Slack, Init, SlackLeft, NearHead, Faultless, Within, Garbled, EndsCleanly, Busy

LEMMA SlackEnough == LogInv /\ SlackLeft /\ KeyFirst => SlackCoversOneFault
<1> SUFFICES ASSUME LogInv, SlackLeft, KeyFirst, faults <= 1, lock = NoProc, WholeLines, key # "short"
             PROVE  Loadable
  BY DEF SlackCoversOneFault
<1>0. log \in Seq(Lines) /\ Len(log) \in Nat /\ faults \in Nat
      /\ (head # NoHead => head \in Seq(Procs) /\ Len(head) \in Nat)
  BY LenProperties DEF LogInv, LogTyped
<1>1. ~Busy
  BY NoProcAssumption DEF LogInv, LockHeld, Busy, Writing, Holding
<1>2. ~Garbled(log)
  <2>1. log # <<>> => Len(log) \in 1..Len(log)
    BY <1>0, EmptySeq
  <2> QED BY <2>1 DEF WholeLines, Garbled
<1>3. Within(head, faults)
  BY <1>1, <1>2 DEF Slack, SlackLeft, NearHead
<1>4. Chained(log)
  BY <1>2, LoadsMeansNotGarbled
<1>5. key = "good" \/ (log = <<>> /\ head = NoHead)
  BY DEF KeyFirst, LogInv, LogTyped
<1> QED BY <1>0, <1>3, <1>4, <1>5 DEF Within, Loadable, LoadOk, verify_head

\* The one line of slack is enough for one crash, one I/O error or one power loss that
\* does not cut the key, for any number of processes and lines (chain.rs:10-20).
THEOREM OneFaultCovered == Spec => []SlackCoversOneFault
<1> QED BY SlackInit, SlackStep, SlackEnough, KeyFirstInit, KeyFirstStep, LogInvariant, PTL DEF Spec

-----------------------------------------------------------------------------
(* Writes that are never cut at the newline and never taken back.          *)

LEMMA WholeStep ==
  ASSUME Faults \cap {"power", "kill_midline"} = {}
  PROVE  LogInv /\ WholeWrites /\ [Next]_vars => WholeWrites'
<1> SUFFICES ASSUME LogInv, WholeWrites, [Next]_vars PROVE WholeWrites'
  OBVIOUS
<1>1. ASSUME NEW p \in Procs, Move(p) PROVE WholeWrites'
  <2>0. /\ pc \in [Procs -> Places] /\ WriterAt(p) /\ ret \in [Procs -> {"none", "open_load", "idle", "acked"}]
    BY DEF LogInv, LogTyped, WritersPlaced
  <2>a. ~KillMidLine(p)
    BY DEF KillMidLine, Fault
  <2>b. \A q \in Procs \ {p} : pc'[q] = pc[q] /\ ret'[q] = ret[q]
    BY <1>1, MoveIsLocal DEF LogInv, MovesAlone
  <2>1. CASE pc[p] \notin Holding
    <3>1. log' = log /\ pc'[p] \notin {"newline", "dirsync"} /\ pc'[p] \notin Writing
      <4>1. log' = log /\ pc'[p] \notin {"newline", "dirsync"}
        BY <1>1, <2>1, NotBusyOutside
      <4>2. pc'[p] \notin {"sync", "head"}
        BY <2>0, <1>1, <2>1 DEF Move, Step, OpenKey, KeyWrite, OpenReadLog, OpenReadHead, Acquire, LockTimeout,
           OpenEnsure, OpenLoad, OpenAnchor, Reload, WriteText, WriteNewline, Torn, Sync, WriteHead, SyncParent,
           SyncParentFails, HeadWritten, Begin, Kill, KillMidLine, IoError, Goto, Fail, Die, Holding
      <4> QED BY <4>1, <4>2 DEF Writing
    <3> QED BY <2>1, <2>b, <3>1 DEF WholeWrites, Holding
  <2> SUFFICES ASSUME pc[p] \in Holding PROVE WholeWrites'
    BY <2>1
  <2>c. \A q \in Procs \ {p} : pc[q] \notin Holding /\ pc'[q] \notin Holding
    BY <1>1, BusyHolder
  <2>d. pc[p] # "newline" => EndsCleanly(log) \/ Garbled(log)
    BY <2>c DEF WholeWrites, Holding
  <2>2. CASE WriteText(p)
    <3>1. /\ pc[p] = "write" /\ log' = AfterText(p, "unended") /\ "unended" \in Forms /\ pc'[p] = "newline"
      BY <2>0, <2>2 DEF WriteText, Forms, Goto
    <3>2. ~Garbled(log)
      BY <2>0, <3>1, LoadsMeansNotGarbled DEF WriterAt, LoadOk
    <3>3. log'[Len(log')].form = "unended"
      BY <2>d, <3>1, <3>2, TextWritten
    <3>4. ~Garbled(log')
      BY <3>3 DEF Garbled
    <3> QED BY <2>c, <3>1, <3>4 DEF WholeWrites, Holding, Writing
  <2>3. CASE Torn(p)
    <3>1. pc[p] = "write" /\ log' = AfterText(p, "garbled") /\ "garbled" \in Forms
          /\ pc'[p] \in {"closed", "idle"}
      BY <2>0, <2>3 DEF Torn, Forms, Die, Fail, Goto
    <3>2. Garbled(log')
      BY <3>1, TextWritten DEF Garbled
    <3> QED BY <2>c, <3>1, <3>2 DEF WholeWrites, Holding, Writing
  <2>4. CASE WriteNewline(p)
    <3>1. pc[p] = "newline" /\ ~Garbled(log)
      BY <2>4 DEF WriteNewline, WholeWrites, Writing
    <3>2. EndsCleanly(log') /\ log' # <<>> /\ ~Garbled(log')
      BY <2>4, <3>1, NewlineWritten DEF EndsCleanly, Garbled
    <3> QED BY <3>2 DEF WholeWrites
  <2>5. CASE log' = log /\ pc[p] # "newline" /\ ~WriteText(p)
    <3>1. pc'[p] \in Writing \/ (pc'[p] = "dirsync" /\ ret'[p] = "acked") => pc[p] \in Writing
      BY <2>0, <1>1, <2>5 DEF Move, Step, OpenKey, KeyWrite, OpenReadLog, OpenReadHead, Acquire, LockTimeout,
         OpenEnsure, OpenLoad, OpenAnchor, Reload, WriteNewline, Torn, Sync, WriteHead, SyncParent,
         SyncParentFails, HeadWritten, Begin, Kill, KillMidLine, IoError, Goto, Fail, Die, Writing
    <3> QED BY <2>c, <2>d, <2>5, <3>1 DEF WholeWrites, Holding, Writing
  <2>6. WriteText(p) \/ Torn(p) \/ WriteNewline(p) \/ (log' = log /\ pc[p] # "newline")
    BY <1>1, <2>a DEF Move, Step, OpenKey, KeyWrite, OpenReadLog, OpenReadHead, Acquire, LockTimeout, OpenEnsure,
       OpenLoad, OpenAnchor, Reload, Sync, WriteHead, SyncParent, SyncParentFails, HeadWritten, Begin, Kill,
       IoError, disk
  <2> QED BY <2>2, <2>3, <2>4, <2>5, <2>6
<1>2. ~PowerLoss
  BY DEF PowerLoss, Fault
<1>3. CASE UNCHANGED vars
  BY <1>3 DEF WholeWrites, vars, disk, mem
<1> QED BY <1>1, <1>2, <1>3 DEF Next, Move

LEMMA WholeInit == Init => WholeWrites
BY DEF Init, WholeWrites, EndsCleanly, Writing

\* Only a complete head write acknowledges, and then the whole log is anchored.
LEMMA AckSeesTail ==
  ASSUME LogInv, WholeWrites, NEW p \in Procs, Move(p), acked' # acked
  PROVE  /\ log' = log /\ head' = head /\ ~Garbled(log) /\ log # <<>>
         /\ head = TailOf(log) /\ acked' = acked \union {TailOf(log)}
<1>1. /\ pc[p] = "dirsync" /\ ret[p] = "acked" /\ acked' = acked \union {seen[p]}
      /\ log' = log /\ head' = head
  BY DEF Move, Step, OpenKey, KeyWrite, OpenReadLog, OpenReadHead, Acquire, LockTimeout,
     OpenEnsure, OpenLoad, OpenAnchor, Reload, WriteText, WriteNewline, Torn, Sync, WriteHead, SyncParent,
     SyncParentFails, HeadWritten, Begin, Kill, KillMidLine, IoError, disk
<1>2. Landed(p, "whole") /\ seen[p] = NewMac(p) /\ head = seen[p]
  BY <1>1 DEF LogInv, WritersPlaced, WriterAt
<1>3. ~Garbled(log)
  BY <1>1 DEF WholeWrites
<1> QED BY <1>1, <1>2, <1>3 DEF Landed

LEMMA AckLoads == LogInv /\ WholeWrites /\ [Next]_vars => (acked' # acked => LoadOk(log', head'))
<1> SUFFICES ASSUME LogInv, WholeWrites, [Next]_vars, acked' # acked PROVE LoadOk(log', head')
  OBVIOUS
<1>1. ASSUME NEW p \in Procs, Move(p) PROVE LoadOk(log', head')
  <2>1. log' = log /\ head' = head /\ ~Garbled(log) /\ head = TailOf(log)
    BY <1>1, AckSeesTail
  <2>2. Chained(log)
    BY <2>1, LoadsMeansNotGarbled
  <2>3. TailOf(log) # NoHead /\ Reaches(log, TailOf(log)) /\ Len(log) <= Len(TailOf(log)) + 1
    BY TailReached, NoHeadAssumption, LenProperties DEF LogInv, LogTyped
  <2> QED BY <2>1, <2>2, <2>3 DEF LoadOk, verify_head
<1>2. ~PowerLoss /\ ~UNCHANGED vars
  BY DEF PowerLoss, vars
<1> QED BY <1>1, <1>2 DEF Next, Move

\* An append that returned Ok left a log that loads, unless a process can die
\* between the two writes of a line (which the run signed_log_midline shows).
THEOREM AcksLoad ==
  ASSUME Faults \cap {"power", "kill_midline"} = {}
  PROVE  Spec => AckMeansLoadable
<1>1. Init => WholeWrites BY WholeInit
<1>2. LogInv /\ WholeWrites /\ [Next]_vars => WholeWrites' BY WholeStep
<1>3. LogInv /\ WholeWrites /\ KeyWhole /\ [Next]_vars => [acked' # acked => Loadable']_vars
  <2> SUFFICES ASSUME LogInv, WholeWrites, KeyWhole, Next, acked' # acked
               PROVE  Loadable'
    BY DEF vars
  <2>1. LoadOk(log', head')
    BY AckLoads
  <2>2. KeyWhole'
    BY KeyWholeStep
  <2>3. key' = "good"
    <3>1. PICK p \in Procs : Move(p)
      BY DEF Next, Move, PowerLoss
    <3> QED BY <2>2, <3>1, AckSeesTail DEF KeyWhole, SignedUnderWholeKey
  <2> QED BY <2>1, <2>3 DEF Loadable
<1>4. LogInv /\ KeyWhole /\ [Next]_vars => KeyWhole' BY KeyWholeStep
<1> QED BY <1>1, <1>2, <1>3, <1>4, KeyWholeInit, LogInvariant, PTL DEF Spec, AckMeansLoadable

-----------------------------------------------------------------------------
(* The file as the durable log its users are written against.              *)

Entries == MacAt(log, LoadedPrefix)

LEMMA UpToCount ==
  ASSUME NEW n \in Nat
  PROVE  Cardinality(1..n) = n
<1>1. Cardinality(1..n) = IF 1 > n THEN 0 ELSE n - 1 + 1
  BY FS_Interval
<1> QED BY <1>1

\* What parses of a shaped log: all of it, or all but a garbled last line.
LEMMA PrefixOf ==
  ASSUME NEW l \in Seq(Lines), Spine(l), OnlyLastBroken(l)
  PROVE  Cardinality({i \in 1..Len(l) : Chained(SubSeq(l, 1, i))}) =
           IF Garbled(l) THEN Len(l) - 1 ELSE Len(l)
<1>0. Len(l) \in Nat
  BY LenProperties
<1>1. ASSUME NEW i \in 1..Len(l)
      PROVE  Chained(SubSeq(l, 1, i)) <=> i < Len(l) \/ ~Garbled(l)
  <2> DEFINE k == SubSeq(l, 1, i)
  <2>1. /\ k \in Seq(Lines) /\ Spine(k) /\ OnlyLastBroken(k)
        /\ i < Len(l) => EndsCleanly(k)
        /\ i = Len(l) => k = l
    BY <1>0, Cut
  <2>2. Chained(k) <=> ~Garbled(k)
    BY <2>1, ChainedIff
  <2>3. EndsCleanly(k) => ~Garbled(k)
    BY DEF EndsCleanly, Garbled
  <2> HIDE DEF k
  <2>4. Chained(k) <=> i < Len(l) \/ ~Garbled(l)
    BY <1>0, <2>1, <2>2, <2>3
  <2> QED BY <2>4 DEF k
<1>2. CASE Garbled(l)
  <2>1. Len(l) # 0
    BY <1>2, EmptySeq DEF Garbled
  <2>2. {i \in 1..Len(l) : Chained(SubSeq(l, 1, i))} = 1..(Len(l) - 1)
    BY <1>0, <1>1, <1>2
  <2>3. Cardinality(1..(Len(l) - 1)) = Len(l) - 1
    BY <1>0, <2>1, UpToCount
  <2> QED BY <1>2, <2>2, <2>3
<1>3. CASE ~Garbled(l)
  <2>1. {i \in 1..Len(l) : Chained(SubSeq(l, 1, i))} = 1..Len(l)
    BY <1>1, <1>3
  <2>2. Cardinality(1..Len(l)) = Len(l)
    BY <1>0, UpToCount
  <2> QED BY <1>3, <2>1, <2>2
<1> QED BY <1>2, <1>3

LEMMA EntriesAre ==
  ASSUME LogTyped, LogShaped
  PROVE  /\ ~Garbled(log) => Entries = TailOf(log)
         /\ Garbled(log) => Entries = MacAt(log, Len(log) - 1)
BY PrefixOf DEF LogTyped, LogShaped, Entries, LoadedPrefix, TailOf

LEMMA LogStepRefines ==
  ASSUME Faults \cap {"power", "kill_midline"} = {}
  PROVE  LogInv /\ WholeWrites /\ [Next]_vars => [Promise!DNext]_(Promise!dvars)
<1> SUFFICES ASSUME LogInv, WholeWrites, [Next]_vars
             PROVE  Promise!DNext \/ UNCHANGED <<Entries, acked, Chained(log)>>
  BY DEF Promise!dvars, Entries
<1>0. /\ log \in Seq(Lines) /\ Len(log) \in Nat /\ Spine(log) /\ OnlyLastBroken(log)
      /\ LogTyped /\ LogShaped /\ pc \in [Procs -> Places]
  BY LenProperties DEF LogInv, LogTyped, LogShaped
<1>i. LogInv' /\ LogTyped' /\ LogShaped' /\ log' \in Seq(Lines) /\ Len(log') \in Nat
  <2>1. LogInv' BY LogInvStep
  <2> QED BY <2>1, LenProperties DEF LogInv, LogTyped
<1>c. (Chained(log) <=> ~Garbled(log)) /\ (Chained(log') <=> ~Garbled(log'))
  BY <1>0, <1>i, ChainedIff DEF LogShaped
<1>e. /\ ~Garbled(log) => Entries = TailOf(log)
      /\ ~Garbled(log') => Entries' = TailOf(log')
      /\ Garbled(log') => Entries' = MacAt(log', Len(log') - 1)
  <2>1. \A l \in Seq(Lines) : Spine(l) /\ OnlyLastBroken(l) =>
           Cardinality({i \in 1..Len(l) : Chained(SubSeq(l, 1, i))}) =
             IF Garbled(l) THEN Len(l) - 1 ELSE Len(l)
    BY PrefixOf
  <2>2. LoadedPrefix' = Cardinality({i \in 1..Len(log') : Chained(SubSeq(log', 1, i))})
    BY DEF LoadedPrefix
  <2>3. Entries' = MacAt(log', LoadedPrefix')
    BY DEF Entries
  <2>4. LoadedPrefix' = IF Garbled(log') THEN Len(log') - 1 ELSE Len(log')
    BY <1>i, <2>1, <2>2 DEF LogShaped
  <2> QED BY <1>0, <2>3, <2>4, EntriesAre DEF TailOf
<1>1. ASSUME NEW p \in Procs, Move(p)
      PROVE  Promise!DNext \/ UNCHANGED <<Entries, acked, Chained(log)>>
  <2>1. CASE UNCHANGED <<log, acked>>
    BY <2>1 DEF Entries, LoadedPrefix
  <2>2. CASE acked' # acked
    <3>1. log' = log /\ ~Garbled(log) /\ log # <<>> /\ acked' = acked \union {TailOf(log)}
      BY <1>1, <2>2, AckSeesTail
    <3>2. TailOf(log) # <<>>
      <4>1. Len(log) # 0 /\ Len(TailOf(log)) = Len(log)
        BY <1>0, <3>1, EmptySeq, TailReached
      <4> QED BY <4>1
    <3>3. Entries = TailOf(log) /\ Entries' = Entries
      BY <1>e, <3>1 DEF Entries, LoadedPrefix
    <3>4. Promise!Confirm
      BY <1>c, <3>1, <3>2, <3>3 DEF Promise!Confirm, Entries
    <3> QED BY <3>4 DEF Promise!DNext
  <2>w. ASSUME pc[p] = "write" PROVE ~Garbled(log) /\ EndsCleanly(log) /\ view[p] = log
    <3>1. LoadOk(log, head) /\ view[p] = log
      BY <2>w DEF LogInv, WritersPlaced, WriterAt
    <3>2. ~Garbled(log)
      BY <1>c, <3>1 DEF LoadOk
    <3>3. \A q \in Procs : pc[q] # "newline"
      BY <2>w DEF LogInv, LockHeld, Holding
    <3> QED BY <3>1, <3>2, <3>3 DEF WholeWrites
  <2>3. CASE WriteText(p)
    <3>1. pc[p] = "write" /\ log' = AfterText(p, "unended") /\ "unended" \in Forms /\ acked' = acked
      BY <2>3 DEF WriteText, Forms
    <3>2. TailOf(log') = NewMac(p) /\ log'[Len(log')].form = "unended"
      BY <2>w, <3>1, TextWritten
    <3>3. ~Garbled(log')
      BY <3>2 DEF Garbled
    <3>4. Entries' = Append(Entries, p)
      BY <1>e, <2>w, <3>1, <3>2, <3>3 DEF NewMac
    <3>5. Promise!Record
      BY <1>c, <2>w, <3>1, <3>3, <3>4 DEF Promise!Record, Entries
    <3> QED BY <3>5 DEF Promise!DNext
  <2>4. CASE Torn(p)
    <3>1. pc[p] = "write" /\ log' = AfterText(p, "garbled") /\ "garbled" \in Forms /\ acked' = acked
      BY <2>4 DEF Torn, Forms
    <3>2. /\ Len(log') = Len(log) + 1 /\ log'[Len(log')].form = "garbled" /\ log' # <<>>
          /\ Agree(log, log', Len(log))
      BY <2>w, <3>1, TextWritten
    <3>3. Garbled(log')
      BY <3>2 DEF Garbled
    <3>4. Entries' = Entries
      <4>1. MacAt(log', Len(log)) = MacAt(log, Len(log))
        BY <1>0, <3>2, AgreeMac
      <4> QED BY <1>0, <1>e, <2>w, <3>1, <3>2, <3>3, <4>1 DEF TailOf
    <3>5. Promise!Break
      BY <1>c, <2>w, <3>1, <3>3, <3>4 DEF Promise!Break, Entries
    <3> QED BY <3>5 DEF Promise!DNext
  <2>5. CASE WriteNewline(p)
    <3>1. pc[p] = "newline" /\ acked' = acked /\ ~Garbled(log)
      BY <2>5 DEF WriteNewline, WholeWrites, Writing
    <3>2. Len(log') = Len(log) /\ Agree(log, log', Len(log)) /\ EndsCleanly(log')
      BY <2>5, <3>1, NewlineWritten
    <3>3. ~Garbled(log')
      BY <3>2 DEF EndsCleanly, Garbled
    <3>4. TailOf(log') = TailOf(log)
      BY <1>0, <3>2, AgreeMac DEF TailOf
    <3>5. Chained(log) = TRUE /\ Chained(log') = TRUE
      BY <1>c, <3>1, <3>3 DEF Chained
    <3> QED BY <1>e, <3>1, <3>3, <3>4, <3>5
  <2>6. Move(p) => UNCHANGED log \/ WriteText(p) \/ Torn(p) \/ WriteNewline(p)
    BY DEF Move, Step, OpenKey, KeyWrite, OpenReadLog, OpenReadHead, Acquire, LockTimeout, OpenEnsure,
       OpenLoad, OpenAnchor, Reload, Sync, WriteHead, SyncParent, SyncParentFails, HeadWritten, Begin, Kill,
       KillMidLine, IoError, disk
  <2> QED BY <1>1, <2>1, <2>2, <2>3, <2>4, <2>5, <2>6
<1>2. ~PowerLoss
  BY DEF PowerLoss, Fault
<1>3. CASE UNCHANGED vars
  BY <1>3 DEF vars, disk, Entries, LoadedPrefix
<1> QED BY <1>1, <1>2, <1>3 DEF Next, Move

LEMMA LogInitRefines == Init => Promise!DInit
<1> SUFFICES ASSUME Init PROVE Promise!DInit
  OBVIOUS
<1>1. LogTyped /\ LogShaped /\ log = <<>> /\ ~Garbled(log)
  BY LogInvInit DEF Init, LogInv, Garbled
<1>2. Entries = <<>>
  BY <1>1, EntriesAre DEF TailOf, MacAt, Genesis
<1>3. Chained(log) = TRUE
  BY <1>1, EmptySeq DEF Chained
<1> QED BY <1>2, <1>3 DEF Init, Promise!DInit, Entries

\* Whatever kills, torn lines and I/O errors happen, the file of every number of
\* processes is one durable log: entries are appended whole and in one order, what
\* was confirmed stays in every load, and a log that no longer loads confirms nothing.
THEOREM LogRefinement ==
  ASSUME Faults \cap {"power", "kill_midline"} = {}
  PROVE  Spec => ImplementsDurableLog
<1>1. Init => WholeWrites BY WholeInit
<1>2. LogInv /\ WholeWrites /\ [Next]_vars => WholeWrites' BY WholeStep
<1>3. Init => Promise!DInit BY LogInitRefines
<1>4. LogInv /\ WholeWrites /\ [Next]_vars => [Promise!DNext]_(Promise!dvars) BY LogStepRefines
<1> QED BY <1>1, <1>2, <1>3, <1>4, LogInvariant, PTL DEF Spec, ImplementsDurableLog, Promise!DSpec

=============================================================================

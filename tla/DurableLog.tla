------------------------------ MODULE DurableLog ------------------------------
(***************************************************************************)
(* What a signed log promises the stores built on it, whatever the number  *)
(* of processes: one totally ordered sequence of entries, each appended    *)
(* whole; an append that returned Ok is part of what every later load      *)
(* returns; and once the file no longer loads, it stays that way and       *)
(* confirms nothing more.                                                  *)
(***************************************************************************)
EXTENDS Naturals, Sequences, SequencesExt

CONSTANTS Writers

VARIABLES
  entries,    \* what a load returns, in order
  confirmed,  \* prefixes of it whose append returned Ok
  readable    \* a load succeeds

dvars == <<entries, confirmed, readable>>

DInit == entries = <<>> /\ confirmed = {} /\ readable = TRUE

Record ==
  /\ readable
  /\ \E w \in Writers : entries' = Append(entries, w)
  /\ UNCHANGED <<confirmed, readable>>

Confirm ==
  /\ readable
  /\ entries # <<>>
  /\ confirmed' = confirmed \union {entries}
  /\ UNCHANGED <<entries, readable>>

\* The file stops loading, at most the unconfirmed last entry being lost.
Break ==
  /\ readable
  /\ readable' = FALSE
  /\ entries' \in {entries, Front(entries)}
  /\ entries' # entries => entries \notin confirmed
  /\ UNCHANGED confirmed

DNext == Record \/ Confirm \/ Break

DSpec == DInit /\ [][DNext]_dvars
=============================================================================

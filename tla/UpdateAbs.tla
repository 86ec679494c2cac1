----------------------------- MODULE UpdateAbs -----------------------------
(***************************************************************************)
(* What updating promises of the SD card, without the ZIP, the lists and   *)
(* the steps of an attempt: the pack goes from each release to the next.   *)
(* On the way only files of the next release change, in any order and as   *)
(* often as it takes; the pack is the next release when all of it is       *)
(* there.  A file that is cut off unnoticed while it is written counts as  *)
(* there, and stays damaged until it is written again or deleted.  For a   *)
(* moment, or for ever, the name of the release is not known.              *)
(***************************************************************************)
EXTENDS Naturals

CONSTANTS Latest, Files, Ships, Removes, Pack, Absent, Partial

VARIABLES
  card,     \* what each file holds
  damaged,  \* the files that were cut off unnoticed
  release,  \* the release that is installed
  known     \* version.txt names it

vars == <<card, damaged, release, known>>

Init ==
  /\ card = Pack[0]
  /\ damaged = {}
  /\ release = 0
  /\ known = TRUE

(* A file of the next release is half written, whole or deleted.           *)
Change(f) ==
  /\ known /\ release < Latest
  /\ LET next == release + 1
     IN \/ /\ f \in Ships[next]
           /\ \E c \in {Partial, next} : card' = [card EXCEPT ![f] = c]
        \/ /\ f \in Removes[next]
           /\ card' = [card EXCEPT ![f] = Absent]
  /\ damaged' = damaged \ {f}
  /\ UNCHANGED <<release, known>>

(* A half written file of the next release is taken for whole.             *)
Damage(f) ==
  /\ known /\ release < Latest
  /\ f \in Ships[release + 1]
  /\ card[f] = Partial
  /\ damaged' = damaged \cup {f}
  /\ UNCHANGED <<card, release, known>>

Finish ==
  /\ known /\ release < Latest
  /\ \A f \in Files \ damaged : card[f] = Pack[release + 1][f]
  /\ release' = release + 1
  /\ known' = FALSE
  /\ UNCHANGED <<card, damaged>>

Name == ~known /\ known' = TRUE /\ UNCHANGED <<card, damaged, release>>

Next == (\E f \in Files : Change(f) \/ Damage(f)) \/ Finish \/ Name

Spec == Init /\ [][Next]_vars
=============================================================================

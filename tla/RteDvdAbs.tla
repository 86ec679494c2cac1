----------------------------- MODULE RteDvdAbs -----------------------------
(***************************************************************************)
(* What the replaced DVD functions promise the game, with no slots and no  *)
(* reference counts: a FileInfo stays readable from its open to its own    *)
(* close, reads the file it was opened on, and the game is stopped only by *)
(* an SD card error, by an original DVD function that returns a special    *)
(* number, or by asking for more than MaxFiles SD files at once.           *)
(***************************************************************************)
EXTENDS Naturals, FiniteSets

CONSTANTS Entries, FileInfos, MaxFiles, Disc, Nothing

VARIABLES
  opened,  \* what each FileInfo is open on: an entry, Disc or Nothing
  got,     \* the last read: the FileInfo and the file whose bytes it got
  stop     \* "running", or why the game was stopped

vars == <<opened, got, stop>>

InUse == {e \in Entries : \E h \in FileInfos : opened[h] = e}

Init ==
  /\ opened = [h \in FileInfos |-> Nothing]
  /\ got = Nothing
  /\ stop = "running"

Open(h, f) ==
  /\ opened[h] = Nothing
  /\ f \in Entries \ InUse => Cardinality(InUse) < MaxFiles
  /\ opened' = [opened EXCEPT ![h] = f]
  /\ UNCHANGED <<got, stop>>

Read(h) ==
  /\ opened[h] \in Entries
  /\ got' = <<h, opened[h]>>
  /\ UNCHANGED <<opened, stop>>

Close(h) ==
  /\ opened' = [opened EXCEPT ![h] = Nothing]
  /\ UNCHANGED <<got, stop>>

TooManyFiles ==
  /\ Entries \ InUse # {}
  /\ Cardinality(InUse) = MaxFiles
  /\ stop' = "too_many_files"
  /\ UNCHANGED <<opened, got>>

SdError == stop' = "sd_error" /\ UNCHANGED <<opened, got>>

SpecialEntry == stop' = "special_entry" /\ UNCHANGED <<opened, got>>

Next ==
  /\ stop = "running"
  /\ \/ \E h \in FileInfos, f \in Entries \cup {Disc} : Open(h, f)
     \/ \E h \in FileInfos : Read(h) \/ Close(h)
     \/ TooManyFiles
     \/ SdError
     \/ SpecialEntry

Spec == Init /\ [][Next]_vars
=============================================================================

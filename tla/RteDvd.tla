------------------------------- MODULE RteDvd -------------------------------
(***************************************************************************)
(* The DVD functions that runtime-ext puts in place of the game's own      *)
(* (runtime-ext/source/dvd.c), each call running to its end before the     *)
(* next one starts.  RteDvdThreads lets the calls of several game threads  *)
(* overlap.                                                                *)
(*                                                                         *)
(* A call on a replaced file is served from the SD card through a pool of  *)
(* MaxFiles slots (open_files[]).  All FileInfos open on one SD file share *)
(* one slot, counted by the slot's refcount.                               *)
(***************************************************************************)
EXTENDS Naturals, FiniteSets

CONSTANTS
  Entries,      \* indexes into riivo_disc.sd_files
  FileInfos,    \* the FileInfo structures of the game
  Paths,        \* the disc paths the game asks for
  Replacement,  \* what resolving a path yields: an entry, or Nothing
  MaxFiles,     \* MAX_CONCURRENT_FILES
  Disc,         \* startAddr of a file served by the original DVD functions
  Nothing       \* a NULL pointer, a FileInfo that is not open, no entry

Slots == 1 .. MaxFiles

ASSUME DvdAssumption ==
  /\ MaxFiles \in Nat \ {0}
  /\ IsFiniteSet(FileInfos)
  /\ Disc \notin Entries
  /\ Nothing \notin Entries \cup Slots \cup {Disc}
  /\ Replacement \in [Paths -> Entries \cup {Nothing}]

VARIABLES
  mounted,    \* the `mounted` flag of rrc_rt_sd_init
  known,      \* entries the game learnt from ConvertPathToEntrynum
  fileInfo,   \* sd_files[e].file_info: the slot of entry e, or Nothing
  refcount,   \* open_files[s].refcount
  slotFile,   \* the entry slot s's FILE_STRUCT is open on (inUse), or Nothing
  startAddr,  \* what each FileInfo holds: an entry, Disc or Nothing
  got,        \* the last read: which FileInfo it was for, whose bytes it got
  halt        \* "running", or why RTE_FATAL stopped the game

vars == <<mounted, known, fileInfo, refcount, slotFile, startAddr, got, halt>>

Halts == {"running", "sd_error", "too_many_files", "special_entry",
          "read_closed", "close_closed", "refcount_zero", "bad_fd"}

TypeOK ==
  /\ mounted \in BOOLEAN
  /\ known \subseteq Entries
  /\ fileInfo \in [Entries -> Slots \cup {Nothing}]
  /\ refcount \in [Slots -> Nat]
  /\ slotFile \in [Slots -> Entries \cup {Nothing}]
  /\ startAddr \in [FileInfos -> Entries \cup {Disc, Nothing}]
  /\ got \in (FileInfos \X Entries) \cup {Nothing}
  /\ halt \in Halts

Init ==
  /\ mounted = FALSE
  /\ known = {}
  /\ fileInfo = [e \in Entries |-> Nothing]
  /\ refcount = [s \in Slots |-> 0]
  /\ slotFile = [s \in Slots |-> Nothing]
  /\ startAddr = [h \in FileInfos |-> Nothing]
  /\ got = Nothing
  /\ halt = "running"

-----------------------------------------------------------------------------
(* RTE_FATAL shows its message and loops forever: what the call changed    *)
(* before it is never looked at again.                                     *)
Fatal(why) ==
  /\ halt' = why
  /\ UNCHANGED <<known, fileInfo, refcount, slotFile, startAddr, got>>

Stopped == halt # "running" /\ UNCHANGED vars

(* A faulty FreeSlots: the search of open_files[] runs one slot too far.    *)
FreeSlotsPastEnd == {s \in 1 .. MaxFiles + 1 : s \in Slots => refcount[s] = 0}

FreeSlots == {s \in Slots : refcount[s] = 0}

(* rte_dvd_alloc_open_file hands out the first slot whose refcount is 0.   *)
AllocSlot == CHOOSE s \in FreeSlots : \A t \in FreeSlots : s <= t

(* Mutants of ReuseSlot: the reuse is not counted; a slot is reserved      *)
(* before it is known that the entry has one.                              *)
ReuseSlotUncounted(e) ==
  /\ fileInfo[e] # Nothing
  /\ UNCHANGED <<refcount, fileInfo, slotFile>>
ReuseSlotReserving(e) ==
  /\ fileInfo[e] # Nothing
  /\ refcount' = [s \in Slots |-> CASE s = fileInfo[e] -> refcount[s] + 1
                                    [] FreeSlots # {} /\ s = AllocSlot -> 1
                                    [] OTHER -> refcount[s]]
  /\ UNCHANGED <<fileInfo, slotFile>>

(* rte_dvd_open_entry_num, entry already open: share its slot.             *)
ReuseSlot(e) ==
  /\ fileInfo[e] # Nothing
  /\ refcount' = [refcount EXCEPT ![fileInfo[e]] = @ + 1]
  /\ UNCHANGED <<fileInfo, slotFile>>

(* rte_dvd_open_entry_num, entry not open: take a slot and SD_open it.     *)
TakeSlot(e) ==
  /\ fileInfo[e] = Nothing
  /\ FreeSlots # {}
  /\ refcount' = [refcount EXCEPT ![AllocSlot] = 1]
  /\ slotFile' = [slotFile EXCEPT ![AllocSlot] = e]
  /\ fileInfo' = [fileInfo EXCEPT ![e] = AllocSlot]

OpenEntryNum(h, e) ==
  \/ /\ ReuseSlot(e) \/ TakeSlot(e)
     /\ startAddr' = [startAddr EXCEPT ![h] = e]
     /\ UNCHANGED <<known, got, halt>>
  \/ fileInfo[e] = Nothing /\ FreeSlots = {} /\ Fatal("too_many_files")
  \/ fileInfo[e] = Nothing /\ FreeSlots # {} /\ Fatal("sd_error")

(* A file that is not replaced goes to the original function, which opens  *)
(* it or reports that it cannot.  Special numbers are taken not to come    *)
(* from there; ConvertPath and FastOpen, but not Open, check that.         *)
OpenOnDisc(h) ==
  /\ startAddr' \in {startAddr, [startAddr EXCEPT ![h] = Disc]}
  /\ UNCHANGED <<known, fileInfo, refcount, slotFile, got, halt>>

-----------------------------------------------------------------------------
(* rrc_rt_sd_init, when SD_Mount or SD_chdir fails.                        *)
MountFails == ~mounted /\ mounted' = mounted /\ Fatal("sd_error")

(* custom_convert_path_to_entry_num_impl *)
ConvertPath(p) ==
  /\ halt = "running"
  /\ \/ /\ mounted' = TRUE
        /\ known' = known \cup ({Replacement[p]} \cap Entries)
        /\ UNCHANGED <<fileInfo, refcount, slotFile, startAddr, got, halt>>
     \/ Replacement[p] = Nothing /\ mounted' = TRUE /\ Fatal("special_entry")
     \/ MountFails

(* custom_open_impl: resolving the path mounts the SD card first.          *)
Open(h, p) ==
  /\ halt = "running"
  /\ startAddr[h] = Nothing
  /\ \/ MountFails
     \/ /\ mounted' = TRUE
        /\ IF Replacement[p] \in Entries
             THEN OpenEntryNum(h, Replacement[p])
             ELSE OpenOnDisc(h)

(* custom_fast_open_impl: a special entrynum comes from ConvertPath only;  *)
(* any other number goes to the original function.                         *)
FastOpen(h) ==
  /\ halt = "running"
  /\ startAddr[h] = Nothing
  /\ \/ \E e \in known : OpenEntryNum(h, e)
     \/ OpenOnDisc(h)
     \/ Fatal("special_entry")
  /\ UNCHANGED mounted

(* custom_read_prio_impl on a replaced file: SD_seek, then SD_read.  Both  *)
(* refuse a FILE_STRUCT that is not in use.                                *)
ReadPrio(h) ==
  /\ halt = "running"
  /\ startAddr[h] \in Entries
  /\ LET slot == fileInfo[startAddr[h]] IN
       \/ slot = Nothing /\ Fatal("read_closed")
       \/ slot # Nothing /\ slotFile[slot] = Nothing /\ Fatal("bad_fd")
       \/ slot # Nothing /\ Fatal("sd_error")
       \/ /\ slot # Nothing
          /\ slotFile[slot] # Nothing
          /\ got' = <<h, slotFile[slot]>>
          /\ UNCHANGED <<known, fileInfo, refcount, slotFile, startAddr, halt>>
  /\ UNCHANGED mounted

(* Mutants of DropReference: file_info is not reset; the slot of a closed  *)
(* file is not given back.                                                 *)
DropReferenceStale(e) ==
  LET slot == fileInfo[e] IN
  /\ refcount' = [refcount EXCEPT ![slot] = @ - 1]
  /\ slotFile' = IF refcount'[slot] = 0
                   THEN [slotFile EXCEPT ![slot] = Nothing] ELSE slotFile
  /\ UNCHANGED fileInfo
DropReferenceLeak(e) ==
  LET slot == fileInfo[e] IN
  /\ refcount' = IF refcount[slot] = 1
                   THEN refcount ELSE [refcount EXCEPT ![slot] = @ - 1]
  /\ slotFile' = IF refcount[slot] = 1
                   THEN [slotFile EXCEPT ![slot] = Nothing] ELSE slotFile
  /\ fileInfo' = IF refcount[slot] = 1
                   THEN [fileInfo EXCEPT ![e] = Nothing] ELSE fileInfo

(* One reference to entry e is given back; the last one closes the file.   *)
DropReference(e) ==
  LET slot == fileInfo[e] IN
  /\ refcount' = [refcount EXCEPT ![slot] = @ - 1]
  /\ slotFile' = IF refcount'[slot] = 0
                   THEN [slotFile EXCEPT ![slot] = Nothing] ELSE slotFile
  /\ fileInfo' = IF refcount'[slot] = 0
                   THEN [fileInfo EXCEPT ![e] = Nothing] ELSE fileInfo

(* custom_close_impl on a replaced file.                                   *)
CloseReplaced(h, e) ==
  LET slot == fileInfo[e] IN
  \/ slot = Nothing /\ Fatal("close_closed")
  \/ slot # Nothing /\ refcount[slot] = 0 /\ Fatal("refcount_zero")
  \/ slot # Nothing /\ refcount[slot] = 1 /\ Fatal("sd_error")
  \/ /\ slot # Nothing
     /\ refcount[slot] > 0
     /\ DropReference(e)
     /\ startAddr' = [startAddr EXCEPT ![h] = Nothing]
     /\ UNCHANGED <<known, got, halt>>

(* custom_close_impl: the game is done with the FileInfo afterwards.       *)
Close(h) ==
  /\ halt = "running"
  /\ \/ startAddr[h] \in Entries /\ CloseReplaced(h, startAddr[h])
     \/ /\ startAddr[h] = Disc
        /\ startAddr' = [startAddr EXCEPT ![h] = Nothing]
        /\ UNCHANGED <<known, fileInfo, refcount, slotFile, got, halt>>
  /\ UNCHANGED mounted

Next ==
  \/ \E p \in Paths : ConvertPath(p)
  \/ \E h \in FileInfos, p \in Paths : Open(h, p)
  \/ \E h \in FileInfos : FastOpen(h) \/ ReadPrio(h) \/ Close(h)
  \/ Stopped

Spec == Init /\ [][Next]_vars

-----------------------------------------------------------------------------
(* The FileInfos open on entry e.                                          *)
HandlesOn(e) == {h \in FileInfos : startAddr[h] = e}

(* A slot's refcount is exactly the number of FileInfos open on the entry  *)
(* that owns the slot, so a file is closed neither under an open FileInfo  *)
(* nor later than the last close (dvd.c:88-91).                            *)
RefcountExact ==
  \A e \in Entries :
    fileInfo[e] # Nothing =>
      /\ HandlesOn(e) # {}
      /\ refcount[fileInfo[e]] = Cardinality(HandlesOn(e))

(* Every slot taken from the pool is owned by one entry, whose file it has *)
(* open: no slot leaks (16 leaks would stop the game) and no two files     *)
(* share a FILE_STRUCT (dvd.c:100-111, 236-251, 391-400).                  *)
SlotsAccounted ==
  /\ \A s \in Slots :
       refcount[s] > 0 => \E e \in Entries : fileInfo[e] = s
  /\ \A e \in Entries : fileInfo[e] # Nothing => slotFile[fileInfo[e]] = e

(* An entry that a FileInfo is open on has a slot.                         *)
OpenHandlesBacked ==
  \A h \in FileInfos : startAddr[h] \in Entries => fileInfo[startAddr[h]] # Nothing

(* A game that closes each FileInfo once never meets the assertions of     *)
(* dvd.c:343-346, 379-382 and 386-389, nor reads a file struct that is not *)
(* in use.                                                                 *)
NoBugHalt ==
  halt \notin {"read_closed", "close_closed", "refcount_zero", "bad_fd"}

(* The slots and reference counts implement the promise of RteDvdAbs.      *)
Abs == INSTANCE RteDvdAbs WITH opened <- startAddr, stop <- halt
AbsSpec == Abs!Spec
=============================================================================

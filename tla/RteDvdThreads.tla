---------------------------- MODULE RteDvdThreads ----------------------------
(***************************************************************************)
(* The calls of RteDvd made by several game threads.  runtime-ext takes no *)
(* lock of its own; a thread is switched away where an SD_xxx call takes   *)
(* libfat's partition mutex and waits for the card.  So a call is cut into *)
(* the part before its (last) SD call and the part from there on, and the  *)
(* parts of different calls interleave.  SD errors are left to RteDvd.     *)
(***************************************************************************)
EXTENDS RteDvd

CONSTANTS
  Threads,  \* the game's threads
  Offsets,  \* file offsets, in blocks
  Serial    \* which calls the game never lets overlap (see MayStart)

Calls == [step : {"sd_open", "sd_close"}, h : FileInfos, e : Entries, slot : Slots]
  \cup [step : {"sd_read"}, h : FileInfos, e : Entries, slot : Slots, at : Offsets]

(* A read: who made it, what it asked for, what it got, and whether        *)
(* another read of the same file overlapped it.                            *)
Reads == [h : FileInfos, want : Entries \X Nat, read : Entries \X Nat,
          crossed : BOOLEAN]

ASSUME ThreadsAssumption ==
  /\ Offsets \subseteq Nat
  /\ Serial \subseteq {"same_open", "close_with_open"}
  /\ Nothing \notin Calls \cup Reads

VARIABLES
  call,    \* the SD call each thread is in, or Nothing
  pos,     \* the current position in each slot's FILE_STRUCT
  crossed  \* history: threads whose read is overlapped by one of the same file

tvars == <<vars, call, pos, crossed>>

TInit ==
  /\ mounted = TRUE
  /\ known = Entries
  /\ fileInfo = [e \in Entries |-> Nothing]
  /\ refcount = [s \in Slots |-> 0]
  /\ slotFile = [s \in Slots |-> Nothing]
  /\ startAddr = [h \in FileInfos |-> Nothing]
  /\ got = Nothing
  /\ halt = "running"
  /\ call = [t \in Threads |-> Nothing]
  /\ pos = [s \in Slots |-> 0]
  /\ crossed = {}

-----------------------------------------------------------------------------
Busy == {t \in Threads : call[t] # Nothing}

(* A thread makes one call at a time, and a FileInfo is used by one call   *)
(* at a time.  Beyond that the game keeps apart what Serial names: the     *)
(* opens of one file, and closes from opens.                               *)
MayStart(t, kind, h, e) ==
  /\ halt = "running"
  /\ t \notin Busy
  /\ \A u \in Busy :
       /\ call[u].h # h
       /\ "same_open" \in Serial /\ kind = "sd_open" /\ call[u].step = "sd_open" =>
            call[u].e # e
       /\ "close_with_open" \in Serial => {kind, call[u].step} # {"sd_open", "sd_close"}

Return(t) == call' = [call EXCEPT ![t] = Nothing]

(* A faulty ReserveSlot: the slot is counted only once SD_open returned.   *)
ReserveSlotLate(s) == UNCHANGED refcount

ReserveSlot(s) == refcount' = [refcount EXCEPT ![s] = 1]

(* rte_dvd_open_entry_num up to SD_open; an open entry needs no SD call.   *)
StartOpen(t, h, e) ==
  /\ MayStart(t, "sd_open", h, e)
  /\ startAddr[h] = Nothing
  /\ \/ /\ ReuseSlot(e)
        /\ startAddr' = [startAddr EXCEPT ![h] = e]
        /\ UNCHANGED <<got, halt, call>>
     \/ /\ fileInfo[e] = Nothing
        /\ FreeSlots # {}
        /\ ReserveSlot(AllocSlot)
        /\ call' = [call EXCEPT ![t] =
                      [step |-> "sd_open", h |-> h, e |-> e, slot |-> AllocSlot]]
        /\ UNCHANGED <<fileInfo, slotFile, startAddr, got, halt>>
     \/ /\ fileInfo[e] = Nothing /\ FreeSlots = {} /\ Fatal("too_many_files")
        /\ UNCHANGED call
  /\ UNCHANGED <<mounted, known, pos, crossed>>

(* SD_open sets up the FILE_STRUCT, then the entry points to it.           *)
FinishOpen(t) ==
  /\ halt = "running"
  /\ t \in Busy
  /\ call[t].step = "sd_open"
  /\ LET c == call[t] IN
       /\ refcount' = [refcount EXCEPT ![c.slot] = IF @ = 0 THEN 1 ELSE @]
       /\ slotFile' = [slotFile EXCEPT ![c.slot] = c.e]
       /\ pos' = [pos EXCEPT ![c.slot] = 0]
       /\ fileInfo' = [fileInfo EXCEPT ![c.e] = c.slot]
       /\ startAddr' = [startAddr EXCEPT ![c.h] = c.e]
  /\ Return(t)
  /\ UNCHANGED <<mounted, known, got, halt, crossed>>

(* A faulty Drop: file_info is reset even where other FileInfos are open   *)
(* on the file.                                                            *)
DropEarly(e) ==
  /\ refcount' = [refcount EXCEPT ![fileInfo[e]] = @ - 1]
  /\ fileInfo' = [fileInfo EXCEPT ![e] = Nothing]

Drop(e) ==
  /\ refcount' = [refcount EXCEPT ![fileInfo[e]] = @ - 1]
  /\ UNCHANGED fileInfo

(* custom_close_impl up to SD_close; only the last reference gets there.   *)
StartClose(t, h) ==
  LET e == startAddr[h]
      slot == fileInfo[e]
  IN
  /\ e \in Entries
  /\ MayStart(t, "sd_close", h, e)
  /\ \/ slot = Nothing /\ Fatal("close_closed") /\ UNCHANGED call
     \/ slot # Nothing /\ refcount[slot] = 0 /\ Fatal("refcount_zero") /\ UNCHANGED call
     \/ /\ slot # Nothing /\ refcount[slot] = 1 /\ slotFile[slot] = Nothing
        /\ Fatal("bad_fd") /\ UNCHANGED call
     \/ /\ slot # Nothing /\ refcount[slot] = 1 /\ slotFile[slot] # Nothing
        /\ Drop(e)
        /\ call' = [call EXCEPT ![t] =
                      [step |-> "sd_close", h |-> h, e |-> e, slot |-> slot]]
        /\ UNCHANGED <<slotFile, startAddr, got, halt>>
     \/ /\ slot # Nothing /\ refcount[slot] > 1
        /\ Drop(e)
        /\ startAddr' = [startAddr EXCEPT ![h] = Nothing]
        /\ UNCHANGED <<slotFile, got, halt, call>>
  /\ UNCHANGED <<mounted, known, pos, crossed>>

(* SD_close checked inUse before it waited for the mutex: it now closes    *)
(* whatever file the FILE_STRUCT holds.                                    *)
FinishClose(t) ==
  /\ halt = "running"
  /\ t \in Busy
  /\ call[t].step = "sd_close"
  /\ slotFile' = [slotFile EXCEPT ![call[t].slot] = Nothing]
  /\ fileInfo' = [fileInfo EXCEPT ![call[t].e] = Nothing]
  /\ startAddr' = [startAddr EXCEPT ![call[t].h] = Nothing]
  /\ Return(t)
  /\ UNCHANGED <<mounted, known, refcount, got, halt, pos, crossed>>

(* A faulty Seek: the offset is taken from the current position.           *)
SeekForward(slot, at) == pos' = [pos EXCEPT ![slot] = @ + at]

Seek(slot, at) == pos' = [pos EXCEPT ![slot] = at]

(* The threads in SD_read on file e.                                       *)
Reading(e) == {t \in Busy : call[t].step = "sd_read" /\ call[t].e = e}

(* Thread t starts a read of file e.                                       *)
Cross(t, e) ==
  crossed' = IF Reading(e) = {} THEN crossed \ {t} ELSE crossed \cup Reading(e) \cup {t}

(* custom_read_prio_impl: SD_seek, up to SD_read.                          *)
StartRead(t, h, at) ==
  LET e == startAddr[h]
      slot == fileInfo[e]
  IN
  /\ e \in Entries
  /\ MayStart(t, "sd_read", h, e)
  /\ \/ /\ slot = Nothing
        /\ Fatal("read_closed") /\ UNCHANGED <<call, pos, crossed>>
     \/ /\ slot # Nothing /\ slotFile[slot] = Nothing
        /\ Fatal("bad_fd") /\ UNCHANGED <<call, pos, crossed>>
     \/ /\ slot # Nothing /\ slotFile[slot] # Nothing
        /\ Seek(slot, at)
        /\ Cross(t, e)
        /\ call' = [call EXCEPT ![t] =
                      [step |-> "sd_read", h |-> h, e |-> e, slot |-> slot, at |-> at]]
        /\ UNCHANGED <<fileInfo, refcount, slotFile, startAddr, got, halt>>
  /\ UNCHANGED <<mounted, known>>

(* SD_read reads one block at the FILE_STRUCT's position.                  *)
FinishRead(t) ==
  /\ halt = "running"
  /\ t \in Busy
  /\ call[t].step = "sd_read"
  /\ LET c == call[t] IN
       \/ slotFile[c.slot] = Nothing /\ Fatal("bad_fd") /\ UNCHANGED pos
       \/ /\ slotFile[c.slot] # Nothing
          /\ got' = [h |-> c.h, want |-> <<c.e, c.at>>,
                     read |-> <<slotFile[c.slot], pos[c.slot]>>,
                     crossed |-> t \in crossed]
          /\ pos' = [pos EXCEPT ![c.slot] = @ + 1]
          /\ UNCHANGED <<fileInfo, refcount, slotFile, startAddr, halt>>
  /\ Return(t)
  /\ UNCHANGED <<mounted, known, crossed>>

TStopped == halt # "running" /\ UNCHANGED tvars

TNext ==
  \/ \E t \in Threads, h \in FileInfos :
       \/ \E e \in Entries : StartOpen(t, h, e)
       \/ StartClose(t, h)
       \/ \E at \in Offsets : StartRead(t, h, at)
  \/ \E t \in Threads : FinishOpen(t) \/ FinishClose(t) \/ FinishRead(t)
  \/ TStopped

TSpec == TInit /\ [][TNext]_tvars

-----------------------------------------------------------------------------
(* A FileInfo counts as open from the moment its open has a slot, and as   *)
(* closed from the moment its close gave the slot back.                    *)
Opened ==
  [h \in FileInfos |->
     IF \E t \in Busy : call[t].h = h /\ call[t].step = "sd_open"
       THEN call[CHOOSE t \in Busy : call[t].h = h].e
     ELSE IF \E t \in Busy : call[t].h = h /\ call[t].step = "sd_close"
       THEN Nothing
     ELSE startAddr[h]]

(* A read returns the bytes of the file its FileInfo was opened on, from   *)
(* the offset it asked for, although the seek and the read of dvd.c:350    *)
(* and 355 are two SD calls on a position that all FileInfos open on the   *)
(* file share: opens, closes and reuses of slots do not move it, only      *)
(* another read of the same file does.  Reads of one file that overlap may *)
(* get each other's bytes, so the game has to keep them apart.             *)
ReadsAtOffset == got # Nothing /\ ~got.crossed => got.read = got.want

(* A slot is counted once for each FileInfo open on its entry, also while  *)
(* other calls are inside their SD calls: no open or close of another      *)
(* thread loses a count or adds one, and a last close has given up its     *)
(* count before SD_close returns (dvd.c:106, 232, 391).                    *)
RefcountFollowsCalls ==
  \A e \in Entries :
    fileInfo[e] # Nothing =>
      refcount[fileInfo[e]] = Cardinality({h \in FileInfos : Opened[h] = e})

(* dvd.c:386-389: "BUG: refcount should never be 0 for open files."        *)
NoZeroRefcount == halt # "refcount_zero"

(* dvd.c:88-91: a slot can be used by another file once its refcount has   *)
(* dropped to 0, that is once the file in it is closed; so the FILE_STRUCT *)
(* of an open file stays in use until its own last close.                  *)
OpenFilesReadable == halt # "bad_fd"

(* dvd.c:89: "A refcount of > 0 implies that it is in use": a counted slot *)
(* belongs to an open file, or to one that is being opened.                *)
CountedSlotsInUse ==
  \A s \in Slots : refcount[s] > 0 =>
    \/ \E e \in Entries : fileInfo[e] = s
    \/ \E t \in Busy : call[t].step = "sd_open" /\ call[t].slot = s

(* The overlapping calls still give the promise of RteDvdAbs.              *)
TAbs == INSTANCE RteDvdAbs WITH
  opened <- Opened, stop <- halt,
  got <- IF got = Nothing THEN Nothing ELSE <<got.h, got.read[1]>>
TAbsSpec == TAbs!Spec
=============================================================================

---------------------------- MODULE RteDvdProofs ----------------------------
(***************************************************************************)
(* The reference counting of RteDvd is exact, and RteDvd implements        *)
(* RteDvdAbs, for every set of SD files, of FileInfos and of paths and     *)
(* every size of the pool.  The same holds of the overlapping calls of     *)
(* RteDvdThreads, for any number of threads, if the game keeps apart the   *)
(* opens of one file, and closes from opens; and its reads get what they   *)
(* ask for if no other read of the same file overlaps them.                *)
(***************************************************************************)
EXTENDS RteDvdThreads, FiniteSetTheorems, TLAPS

(* The inductive invariant.  RefcountExact alone is not inductive: that    *)
(* taking or dropping one entry's slot leaves every other entry's slot     *)
(* alone needs SlotsAccounted (two entries never share a slot), and that   *)
(* the refcount of a FileInfo's entry is not 0 needs OpenHandlesBacked.    *)
IInv ==
  /\ TypeOK
  /\ RefcountExact
  /\ SlotsAccounted
  /\ OpenHandlesBacked
  /\ NoBugHalt

-----------------------------------------------------------------------------
(* A pool with a free slot has a first free slot, the one that             *)
(* rte_dvd_alloc_open_file returns.                                        *)
LEMMA AllocSlotFree ==
  ASSUME FreeSlots # {}
  PROVE  AllocSlot \in FreeSlots
<1>1. FreeSlots \subseteq Nat
  BY DEF FreeSlots, Slots
<1> DEFINE less == OpToRel(<, Nat)
<1>2. IsWellFoundedOn(less, Nat)
  BY NatLessThanWellFounded
<1>3. \A i, j \in Nat : i < j => <<i, j>> \in less
  BY DEF OpToRel
<1> HIDE DEF less
<1>4. PICK s \in FreeSlots : \A t \in FreeSlots : ~ (<<t, s>> \in less)
  BY <1>1, <1>2, WFMin
<1>5. ASSUME NEW t \in FreeSlots PROVE s <= t
  <2>1. s \in Nat /\ t \in Nat /\ ~ (<<t, s>> \in less)
    BY <1>1, <1>4
  <2>2. ~ (t < s)
    BY <1>3, <2>1
  <2>3. QED
    BY <2>1, <2>2
<1>6. QED
  BY <1>4, <1>5 DEF AllocSlot

(* Each entry's set of open FileInfos is finite and can be counted.        *)
LEMMA HandlesFinite ==
  ASSUME DvdAssumption, NEW e
  PROVE  /\ IsFiniteSet(HandlesOn(e))
         /\ Cardinality(HandlesOn(e)) \in Nat
         /\ Cardinality(HandlesOn(e)) = 0 <=> HandlesOn(e) = {}
BY FS_Subset, FS_CardinalityType, FS_EmptySet DEF HandlesOn, DvdAssumption

(* Opening FileInfo h on entry e adds one FileInfo to e's and none to any  *)
(* other entry's.                                                          *)
LEMMA OpenAddsHandle ==
  ASSUME DvdAssumption,
         startAddr \in [FileInfos -> Entries \cup {Disc, Nothing}],
         NEW h \in FileInfos, NEW e \in Entries,
         startAddr[h] = Nothing,
         startAddr' = [startAddr EXCEPT ![h] = e]
  PROVE  /\ HandlesOn(e)' # {}
         /\ Cardinality(HandlesOn(e)') = Cardinality(HandlesOn(e)) + 1
         /\ \A d \in Entries \ {e} : HandlesOn(d)' = HandlesOn(d)
<1>1. HandlesOn(e)' = HandlesOn(e) \cup {h} /\ h \notin HandlesOn(e)
  BY DEF HandlesOn, DvdAssumption
<1>2. \A d \in Entries \ {e} : HandlesOn(d)' = HandlesOn(d)
  BY DEF HandlesOn, DvdAssumption
<1>3. QED
  BY <1>1, <1>2, HandlesFinite, FS_AddElement

(* Closing FileInfo h takes one FileInfo from the entry it was open on.    *)
LEMMA CloseRemovesHandle ==
  ASSUME DvdAssumption,
         startAddr \in [FileInfos -> Entries \cup {Disc, Nothing}],
         NEW h \in FileInfos, NEW e \in Entries,
         startAddr[h] = e,
         startAddr' = [startAddr EXCEPT ![h] = Nothing]
  PROVE  /\ Cardinality(HandlesOn(e)') = Cardinality(HandlesOn(e)) - 1
         /\ Cardinality(HandlesOn(e)') \in Nat
         /\ Cardinality(HandlesOn(e)') = 0 <=> HandlesOn(e)' = {}
         /\ \A d \in Entries \ {e} : HandlesOn(d)' = HandlesOn(d)
<1>1. HandlesOn(e)' = HandlesOn(e) \ {h} /\ h \in HandlesOn(e)
  BY DEF HandlesOn, DvdAssumption
<1>2. \A d \in Entries \ {e} : HandlesOn(d)' = HandlesOn(d)
  BY DEF HandlesOn, DvdAssumption
<1>3. /\ IsFiniteSet(HandlesOn(e)')
      /\ Cardinality(HandlesOn(e)') = Cardinality(HandlesOn(e)) - 1
  BY <1>1, HandlesFinite, FS_RemoveElement
<1>4. /\ Cardinality(HandlesOn(e)') \in Nat
      /\ Cardinality(HandlesOn(e)') = 0 <=> HandlesOn(e)' = {}
  BY <1>3, FS_CardinalityType, FS_EmptySet
<1>5. QED
  BY <1>2, <1>3, <1>4

-----------------------------------------------------------------------------
(* Whatever leaves the slots, the entries and the FileInfos alone keeps    *)
(* the invariant, unless it stops the game with one of the four reasons    *)
(* that NoBugHalt excludes.                                                *)
LEMMA FrameInv ==
  ASSUME IInv, TypeOK', NoBugHalt',
         UNCHANGED <<fileInfo, refcount, slotFile, startAddr>>
  PROVE  IInv'
BY DEF IInv, RefcountExact, SlotsAccounted, OpenHandlesBacked, HandlesOn

(* rte_dvd_open_entry_num keeps the invariant.                             *)
LEMMA OpenEntryNumInv ==
  ASSUME DvdAssumption, IInv, mounted' \in BOOLEAN,
         NEW h \in FileInfos, NEW e \in Entries,
         startAddr[h] = Nothing, OpenEntryNum(h, e)
  PROVE  IInv'
<1> USE DvdAssumption
<1>1. CASE Fatal("too_many_files") \/ Fatal("sd_error")
  <2>1. TypeOK' /\ NoBugHalt'
    BY <1>1 DEF IInv, TypeOK, Fatal, Halts, NoBugHalt
  <2>2. QED
    BY <1>1, <2>1, FrameInv DEF Fatal
<1>2. CASE /\ ReuseSlot(e)
           /\ startAddr' = [startAddr EXCEPT ![h] = e]
           /\ UNCHANGED <<known, got, halt>>
  <2>1. TypeOK'
    BY <1>2 DEF IInv, TypeOK, ReuseSlot
  <2>2. ASSUME NEW d \in Entries, fileInfo'[d] # Nothing
        PROVE  /\ HandlesOn(d)' # {}
               /\ refcount'[fileInfo'[d]] = Cardinality(HandlesOn(d)')
    <3>1. /\ fileInfo' = fileInfo /\ fileInfo[e] \in Slots
          /\ refcount' = [refcount EXCEPT ![fileInfo[e]] = @ + 1]
      BY <1>2 DEF ReuseSlot, IInv, TypeOK
    <3>2. CASE d = e
      <4>1. /\ HandlesOn(e)' # {}
            /\ Cardinality(HandlesOn(e)') = Cardinality(HandlesOn(e)) + 1
        BY <1>2, OpenAddsHandle DEF IInv, TypeOK
      <4>2. refcount[fileInfo[e]] = Cardinality(HandlesOn(e))
        BY <3>1, <3>2, <2>2 DEF IInv, RefcountExact
      <4>3. refcount'[fileInfo'[e]] = refcount[fileInfo[e]] + 1
        BY <3>1 DEF IInv, TypeOK
      <4>4. QED
        BY <3>2, <4>1, <4>2, <4>3
    <3>3. CASE d # e
      <4>1. HandlesOn(d)' = HandlesOn(d)
        BY <1>2, <3>3, OpenAddsHandle DEF IInv, TypeOK
      <4>2. fileInfo[d] # fileInfo[e]
        BY <2>2, <3>1, <3>3 DEF IInv, SlotsAccounted
      <4>3. QED
        BY <2>2, <3>1, <4>1, <4>2 DEF IInv, TypeOK, RefcountExact
    <3>4. QED
      BY <3>2, <3>3
  <2>3. SlotsAccounted'
    BY <1>2 DEF IInv, TypeOK, SlotsAccounted, ReuseSlot
  <2>4. OpenHandlesBacked'
    BY <1>2 DEF IInv, TypeOK, OpenHandlesBacked, ReuseSlot
  <2>5. NoBugHalt'
    BY <1>2 DEF IInv, NoBugHalt
  <2>6. QED
    BY <2>1, <2>2, <2>3, <2>4, <2>5 DEF IInv, RefcountExact
<1>3. CASE /\ TakeSlot(e)
           /\ startAddr' = [startAddr EXCEPT ![h] = e]
           /\ UNCHANGED <<known, got, halt>>
  <2> DEFINE slot == AllocSlot
  <2>1. slot \in Slots /\ refcount[slot] = 0
    BY <1>3, AllocSlotFree DEF TakeSlot, FreeSlots
  <2>2. /\ refcount' = [refcount EXCEPT ![slot] = 1]
        /\ slotFile' = [slotFile EXCEPT ![slot] = e]
        /\ fileInfo' = [fileInfo EXCEPT ![e] = slot]
        /\ fileInfo[e] = Nothing
    BY <1>3 DEF TakeSlot
  <2> HIDE DEF slot
  <2>3. \A d \in Entries : fileInfo[d] # slot
    BY <2>1, HandlesFinite DEF IInv, TypeOK, RefcountExact
  <2>4. HandlesOn(e) = {}
    BY <2>2 DEF IInv, OpenHandlesBacked, HandlesOn
  <2>5. TypeOK'
    BY <1>3, <2>1, <2>2 DEF IInv, TypeOK
  <2>6. ASSUME NEW d \in Entries, fileInfo'[d] # Nothing
        PROVE  /\ HandlesOn(d)' # {}
               /\ refcount'[fileInfo'[d]] = Cardinality(HandlesOn(d)')
    <3>1. CASE d = e
      <4>0. Cardinality(HandlesOn(e)) = 0
        BY <2>4, HandlesFinite
      <4>1. /\ Cardinality(HandlesOn(e)') = Cardinality(HandlesOn(e)) + 1
            /\ HandlesOn(e)' # {}
        BY <1>3, OpenAddsHandle DEF IInv, TypeOK
      <4>2. refcount'[fileInfo'[e]] = 1
        BY <2>1, <2>2 DEF IInv, TypeOK
      <4>3. QED
        BY <3>1, <4>0, <4>1, <4>2
    <3>2. CASE d # e
      <4>1. HandlesOn(d)' = HandlesOn(d)
        BY <1>3, <3>2, OpenAddsHandle DEF IInv, TypeOK
      <4>2. fileInfo'[d] = fileInfo[d] /\ fileInfo[d] # slot
        BY <2>2, <2>3, <3>2 DEF IInv, TypeOK
      <4>3. QED
        BY <2>2, <2>6, <4>1, <4>2 DEF IInv, TypeOK, RefcountExact
    <3>3. QED
      BY <3>1, <3>2
  <2>7. SlotsAccounted'
    BY <2>1, <2>2, <2>3 DEF IInv, TypeOK, SlotsAccounted
  <2>8. OpenHandlesBacked'
    BY <1>3, <2>1, <2>2 DEF IInv, TypeOK, OpenHandlesBacked, DvdAssumption
  <2>9. NoBugHalt'
    BY <1>3 DEF IInv, NoBugHalt
  <2>10. QED
    BY <2>5, <2>6, <2>7, <2>8, <2>9 DEF IInv, RefcountExact
<1>4. QED
  BY <1>1, <1>2, <1>3 DEF OpenEntryNum

(* custom_close_impl on a replaced file keeps the invariant: the FileInfo  *)
(* it is called with keeps its entry's refcount above 0.                   *)
LEMMA CloseReplacedInv ==
  ASSUME DvdAssumption, IInv, mounted' = mounted,
         NEW h \in FileInfos, NEW e \in Entries, startAddr[h] = e,
         CloseReplaced(h, e)
  PROVE  IInv'
<1> DEFINE slot == fileInfo[e]
<1> USE DvdAssumption
<1>1. slot \in Slots
  BY DEF IInv, TypeOK, OpenHandlesBacked
<1>2. refcount[slot] > 0
  BY <1>1, HandlesFinite
     DEF IInv, TypeOK, RefcountExact, DvdAssumption
<1>3. CASE Fatal("sd_error")
  <2>1. TypeOK' /\ NoBugHalt'
    BY <1>3 DEF IInv, TypeOK, Fatal, Halts, NoBugHalt
  <2>2. QED
    BY <1>3, <2>1, FrameInv DEF Fatal
<1>4. CASE /\ DropReference(e)
           /\ startAddr' = [startAddr EXCEPT ![h] = Nothing]
           /\ UNCHANGED <<known, got, halt>>
  <2>1. /\ refcount' = [refcount EXCEPT ![slot] = @ - 1]
        /\ refcount'[slot] = refcount[slot] - 1
        /\ refcount'[slot] \in Nat
    BY <1>1, <1>2, <1>4 DEF IInv, TypeOK, DropReference
  <2>2. \A d \in Entries \ {e} :
          fileInfo'[d] = fileInfo[d] /\ HandlesOn(d)' = HandlesOn(d)
    <3>1. \A d \in Entries \ {e} : fileInfo'[d] = fileInfo[d]
      BY <1>4 DEF IInv, TypeOK, DropReference
    <3>2. \A d \in Entries \ {e} : HandlesOn(d)' = HandlesOn(d)
      BY <1>4, CloseRemovesHandle DEF IInv, TypeOK
    <3>3. QED
      BY <3>1, <3>2
  <2>3. \A d \in Entries \ {e} : fileInfo[d] # slot
    BY <1>1, <1>2 DEF IInv, TypeOK, SlotsAccounted, DvdAssumption
  <2>4. Cardinality(HandlesOn(e)') = refcount'[slot]
    BY <1>1, <1>4, <2>1, CloseRemovesHandle, HandlesFinite
       DEF IInv, TypeOK, RefcountExact, DvdAssumption
  <2>5. \/ /\ refcount'[slot] = 0
           /\ HandlesOn(e)' = {}
           /\ slotFile' = [slotFile EXCEPT ![slot] = Nothing]
           /\ fileInfo' = [fileInfo EXCEPT ![e] = Nothing]
        \/ /\ refcount'[slot] > 0
           /\ HandlesOn(e)' # {}
           /\ UNCHANGED <<slotFile, fileInfo>>
    <3>1. refcount'[slot] = 0 <=> HandlesOn(e)' = {}
      BY <1>4, <2>4, CloseRemovesHandle DEF IInv, TypeOK
    <3>2. CASE refcount'[slot] = 0
      BY <1>4, <3>1, <3>2 DEF DropReference
    <3>3. CASE refcount'[slot] # 0
      <4>1. slotFile' = slotFile /\ fileInfo' = fileInfo
        BY <1>4, <3>3 DEF DropReference
      <4>2. refcount'[slot] \in Nat
        BY <2>1
      <4>3. refcount'[slot] > 0
        BY <3>3, <4>2
      <4>4. QED
        BY <3>1, <3>3, <4>1, <4>3
    <3>4. QED
      BY <3>2, <3>3
  <2> HIDE DEF slot
  <2>6. TypeOK'
    BY <1>4, <2>1, <2>5 DEF IInv, TypeOK
  <2>7. ASSUME NEW d \in Entries, fileInfo'[d] # Nothing
        PROVE  /\ HandlesOn(d)' # {}
               /\ refcount'[fileInfo'[d]] = Cardinality(HandlesOn(d)')
    <3>1. CASE d = e
      <4>1. fileInfo'[e] = slot /\ HandlesOn(e)' # {}
        BY <1>1, <2>5, <2>7, <3>1 DEF IInv, TypeOK, slot
      <4>2. QED
        BY <2>4, <3>1, <4>1
    <3>2. CASE d # e
      BY <2>1, <2>2, <2>3, <2>7, <3>2 DEF IInv, TypeOK, RefcountExact
    <3>3. QED
      BY <3>1, <3>2
  <2>8. SlotsAccounted'
    <3>1. ASSUME NEW s \in Slots, refcount'[s] > 0
          PROVE  \E d \in Entries : fileInfo'[d] = s
      <4>1. CASE s = slot
        BY <1>1, <2>5, <3>1, <4>1 DEF slot
      <4>2. CASE s # slot
        <5>1. refcount[s] > 0
          BY <2>1, <3>1, <4>2 DEF IInv, TypeOK
        <5>2. PICK d \in Entries : fileInfo[d] = s
          BY <5>1 DEF IInv, SlotsAccounted
        <5>3. d # e
          BY <4>2, <5>2 DEF slot
        <5>4. QED
          BY <2>2, <5>2, <5>3
      <4>3. QED
        BY <4>1, <4>2
    <3>2. ASSUME NEW d \in Entries, fileInfo'[d] # Nothing
          PROVE  slotFile'[fileInfo'[d]] = d
      <4>1. CASE d = e
        BY <1>1, <2>5, <3>2, <4>1 DEF IInv, TypeOK, SlotsAccounted, slot
      <4>2. CASE d # e
        BY <1>1, <2>2, <2>3, <2>5, <3>2, <4>2
           DEF IInv, TypeOK, SlotsAccounted
      <4>3. QED
        BY <4>1, <4>2
    <3>3. QED
      BY <3>1, <3>2 DEF SlotsAccounted
  <2>9. ASSUME NEW g \in FileInfos, startAddr'[g] \in Entries
        PROVE  fileInfo'[startAddr'[g]] # Nothing
    <3>1. g # h /\ startAddr'[g] = startAddr[g]
      BY <1>4, <2>9 DEF IInv, TypeOK, DvdAssumption
    <3>2. CASE startAddr[g] = e
      <4>1. g \in HandlesOn(e)'
        BY <3>1, <3>2 DEF HandlesOn
      <4>2. QED
        BY <1>1, <2>5, <3>1, <3>2, <4>1 DEF slot, DvdAssumption
    <3>3. CASE startAddr[g] # e
      BY <2>2, <2>9, <3>1, <3>3 DEF IInv, OpenHandlesBacked
    <3>4. QED
      BY <3>2, <3>3
  <2>10. NoBugHalt'
    BY <1>4 DEF IInv, NoBugHalt
  <2>11. QED
    BY <2>6, <2>7, <2>8, <2>9, <2>10 DEF IInv, RefcountExact, OpenHandlesBacked
<1>5. QED
  BY <1>1, <1>2, <1>3, <1>4 DEF CloseReplaced, IInv, TypeOK, DvdAssumption

-----------------------------------------------------------------------------
(* The remaining steps touch neither slots nor entries, or hand over to    *)
(* OpenEntryNum and CloseReplaced.                                         *)
LEMMA NextInv ==
  ASSUME DvdAssumption, IInv, [Next]_vars
  PROVE  IInv'
<1> USE DvdAssumption
<1>1. ASSUME NEW p \in Paths, ConvertPath(p) PROVE IInv'
  <2>1. TypeOK' /\ NoBugHalt'
    BY <1>1 DEF ConvertPath, MountFails, Fatal, Halts, IInv, TypeOK, NoBugHalt
  <2>2. UNCHANGED <<fileInfo, refcount, slotFile, startAddr>>
    BY <1>1 DEF ConvertPath, MountFails, Fatal
  <2>3. QED
    BY <2>1, <2>2, FrameInv
<1>2. ASSUME NEW h \in FileInfos, OpenOnDisc(h), startAddr[h] = Nothing,
             mounted' \in BOOLEAN
      PROVE  IInv'
  <2>1. \A e \in Entries : HandlesOn(e)' = HandlesOn(e)
    BY <1>2 DEF OpenOnDisc, HandlesOn, IInv, TypeOK, DvdAssumption
  <2>2. TypeOK' /\ NoBugHalt'
    BY <1>2 DEF OpenOnDisc, IInv, TypeOK, NoBugHalt
  <2>3. OpenHandlesBacked'
    BY <1>2 DEF OpenOnDisc, IInv, TypeOK, OpenHandlesBacked, DvdAssumption
  <2>4. RefcountExact' /\ SlotsAccounted'
    BY <1>2, <2>1 DEF OpenOnDisc, IInv, RefcountExact, SlotsAccounted
  <2>5. QED
    BY <2>2, <2>3, <2>4 DEF IInv
<1>3. ASSUME NEW h \in FileInfos, NEW p \in Paths, Open(h, p) PROVE IInv'
  <2>1. CASE MountFails
    <3>1. TypeOK' /\ NoBugHalt'
      BY <2>1 DEF MountFails, Fatal, Halts, IInv, TypeOK, NoBugHalt
    <3>2. QED
      BY <2>1, <3>1, FrameInv DEF MountFails, Fatal
  <2>2. CASE mounted' = TRUE /\ OpenOnDisc(h)
    BY <1>2, <1>3, <2>2 DEF Open
  <2>3. CASE /\ mounted' = TRUE /\ Replacement[p] \in Entries
             /\ OpenEntryNum(h, Replacement[p])
    BY <1>3, <2>3, OpenEntryNumInv DEF Open
  <2>4. QED
    BY <1>3, <2>1, <2>2, <2>3 DEF Open
<1>4. ASSUME NEW h \in FileInfos, FastOpen(h) PROVE IInv'
  <2>1. CASE OpenOnDisc(h)
    BY <1>2, <1>4, <2>1 DEF FastOpen, IInv, TypeOK
  <2>2. ASSUME NEW e \in known, OpenEntryNum(h, e) PROVE IInv'
    BY <1>4, <2>2, OpenEntryNumInv DEF FastOpen, IInv, TypeOK
  <2>3. CASE Fatal("special_entry")
    <3>1. TypeOK' /\ NoBugHalt'
      BY <1>4, <2>3 DEF FastOpen, Fatal, Halts, IInv, TypeOK, NoBugHalt
    <3>2. QED
      BY <2>3, <3>1, FrameInv DEF Fatal
  <2>4. QED
    BY <1>4, <2>1, <2>2, <2>3 DEF FastOpen
<1>5. ASSUME NEW h \in FileInfos, ReadPrio(h) PROVE IInv'
  <2>1. /\ fileInfo[startAddr[h]] \in Slots
        /\ slotFile[fileInfo[startAddr[h]]] = startAddr[h]
        /\ startAddr[h] \in Entries /\ startAddr[h] # Nothing
    BY <1>5 DEF ReadPrio, IInv, TypeOK, OpenHandlesBacked, SlotsAccounted,
                DvdAssumption
  <2>2. /\ UNCHANGED <<mounted, known, fileInfo, refcount, slotFile, startAddr>>
        /\ \/ halt' = "sd_error" /\ got' = got
           \/ halt' = halt /\ got' = <<h, startAddr[h]>>
    BY <1>5, <2>1 DEF ReadPrio, Fatal, DvdAssumption
  <2>3. TypeOK' /\ NoBugHalt'
    BY <2>1, <2>2 DEF Halts, IInv, TypeOK, NoBugHalt
  <2>4. QED
    BY <2>2, <2>3, FrameInv
<1>6. ASSUME NEW h \in FileInfos, Close(h) PROVE IInv'
  <2>1. CASE startAddr[h] \in Entries /\ CloseReplaced(h, startAddr[h])
    BY <1>6, <2>1, CloseReplacedInv DEF Close
  <2>2. CASE /\ startAddr[h] = Disc
             /\ startAddr' = [startAddr EXCEPT ![h] = Nothing]
             /\ UNCHANGED <<mounted, known, fileInfo, refcount, slotFile,
                            got, halt>>
    <3>1. \A e \in Entries : HandlesOn(e)' = HandlesOn(e)
      BY <2>2 DEF HandlesOn, IInv, TypeOK, DvdAssumption
    <3>2. TypeOK' /\ NoBugHalt'
      BY <2>2 DEF IInv, TypeOK, NoBugHalt
    <3>3. OpenHandlesBacked'
      BY <2>2 DEF IInv, TypeOK, OpenHandlesBacked, DvdAssumption
    <3>4. RefcountExact' /\ SlotsAccounted'
      BY <2>2, <3>1 DEF IInv, RefcountExact, SlotsAccounted
    <3>5. QED
      BY <3>2, <3>3, <3>4 DEF IInv
  <2>3. QED
    BY <1>6, <2>1, <2>2 DEF Close
<1>7. CASE UNCHANGED vars
  BY <1>7, FrameInv DEF vars, IInv, TypeOK, NoBugHalt
<1>8. QED
  BY <1>1, <1>3, <1>4, <1>5, <1>6, <1>7 DEF Next, Stopped

(* Before the game's first call nothing is open.                           *)
LEMMA InitInv ==
  ASSUME DvdAssumption, Init
  PROVE  IInv
<1>1. TypeOK /\ NoBugHalt
  BY DEF Init, TypeOK, Halts, NoBugHalt
<1>2. RefcountExact /\ OpenHandlesBacked
  BY DEF Init, RefcountExact, OpenHandlesBacked, DvdAssumption
<1>3. SlotsAccounted
  BY DEF Init, SlotsAccounted
<1>4. QED
  BY <1>1, <1>2, <1>3 DEF IInv

(* Every variable keeps its type through every sequence of calls.          *)
THEOREM TypeCorrect == Spec => []TypeOK
<1>1. Init => IInv
  BY DvdAssumption, InitInv
<1>2. IInv /\ [Next]_vars => IInv'
  BY DvdAssumption, NextInv
<1>3. IInv => TypeOK
  BY DEF IInv
<1>4. QED
  BY <1>1, <1>2, <1>3, PTL DEF Spec

(* The comment of dvd.c:88-91, for any number of files, FileInfos and      *)
(* slots: a slot's refcount is the number of FileInfos open on its file.   *)
THEOREM RefcountsExact == Spec => []RefcountExact
<1>1. Init => IInv
  BY DvdAssumption, InitInv
<1>2. IInv /\ [Next]_vars => IInv'
  BY DvdAssumption, NextInv
<1>3. IInv => RefcountExact
  BY DEF IInv
<1>4. QED
  BY <1>1, <1>2, <1>3, PTL DEF Spec

(* No slot leaks and no two files share one (dvd.c:100-111, 391-400).      *)
THEOREM SlotsNeverLeak == Spec => []SlotsAccounted
<1>1. Init => IInv
  BY DvdAssumption, InitInv
<1>2. IInv /\ [Next]_vars => IInv'
  BY DvdAssumption, NextInv
<1>3. IInv => SlotsAccounted
  BY DEF IInv
<1>4. QED
  BY <1>1, <1>2, <1>3, PTL DEF Spec

(* The assertions of custom_read_prio_impl and custom_close_impl never     *)
(* stop a game whose calls do not overlap.                                 *)
THEOREM AssertionsHold == Spec => []NoBugHalt
<1>1. Init => IInv
  BY DvdAssumption, InitInv
<1>2. IInv /\ [Next]_vars => IInv'
  BY DvdAssumption, NextInv
<1>3. IInv => NoBugHalt
  BY DEF IInv
<1>4. QED
  BY <1>1, <1>2, <1>3, PTL DEF Spec

-----------------------------------------------------------------------------
(* Counting in RteDvdAbs is counting here.                                 *)
LEMMA SameCardinality == \A S : Abs!Cardinality(S) = Cardinality(S)
BY DEF Abs!Cardinality, Cardinality

(* The pool is full exactly when MaxFiles different files are open: each   *)
(* open file has a slot of its own, and each taken slot has an open file.  *)
LEMMA PoolUsage ==
  ASSUME DvdAssumption, IInv
  PROVE  /\ Abs!InUse = {e \in Entries : fileInfo[e] # Nothing}
         /\ Cardinality(Abs!InUse) \in Nat
         /\ Cardinality(Abs!InUse) <= MaxFiles
         /\ Cardinality(Abs!InUse) = MaxFiles <=> FreeSlots = {}
<1> USE DvdAssumption
<1> DEFINE used == {e \in Entries : fileInfo[e] # Nothing}
<1> DEFINE f == [e \in used |-> fileInfo[e]]
<1>1. Abs!InUse = used
  <2> HIDE DEF f
  <2>1. ASSUME NEW e \in Entries, fileInfo[e] # Nothing
        PROVE  HandlesOn(e) # {}
    BY <2>1 DEF IInv, RefcountExact
  <2>2. ASSUME NEW e \in Entries, NEW h \in HandlesOn(e)
        PROVE  fileInfo[e] # Nothing
    <3>1. h \in FileInfos /\ startAddr[h] = e
      BY DEF HandlesOn
    <3>2. QED
      BY <3>1 DEF IInv, OpenHandlesBacked
  <2>3. Abs!InUse = {e \in Entries : HandlesOn(e) # {}}
    BY DEF Abs!InUse, HandlesOn
  <2>4. QED
    BY <2>1, <2>2, <2>3
<1>2. f \in Injection(used, Slots)
  <2>1. f \in [used -> Slots]
    BY DEF IInv, TypeOK
  <2>2. \A a, b \in used : f[a] = f[b] => a = b
    BY DEF IInv, SlotsAccounted
  <2>3. QED
    BY <2>1, <2>2 DEF Injection, IsInjective
<1>3. IsFiniteSet(Slots) /\ Cardinality(Slots) = MaxFiles
  BY FS_Interval DEF Slots, DvdAssumption
<1>4. /\ IsFiniteSet(used)
      /\ Cardinality(used) <= Cardinality(Slots)
      /\ Cardinality(used) = Cardinality(Slots) <=> f \in Surjection(used, Slots)
  BY <1>2, <1>3, FS_Injection
<1>5. f \in Surjection(used, Slots) <=> FreeSlots = {}
  <2>1. f \in [used -> Slots]
    BY DEF IInv, TypeOK
  <2>2. \A s \in Slots : s \notin FreeSlots <=> \E e \in used : f[e] = s
    <3>1. ASSUME NEW s \in Slots, s \notin FreeSlots
          PROVE  \E e \in used : f[e] = s
      <4>1. refcount[s] > 0
        BY <3>1 DEF FreeSlots, IInv, TypeOK
      <4>2. QED
        BY <3>1, <4>1 DEF IInv, SlotsAccounted, DvdAssumption
    <3>2. ASSUME NEW s \in Slots, NEW e \in used, f[e] = s
          PROVE  s \notin FreeSlots
      <4>1. refcount[s] = Cardinality(HandlesOn(e)) /\ HandlesOn(e) # {}
        BY <3>2 DEF IInv, RefcountExact
      <4>2. QED
        BY <4>1, HandlesFinite DEF FreeSlots
    <3>3. QED
      BY <3>1, <3>2
  <2>3. f \in Surjection(used, Slots) <=> \A s \in Slots : \E e \in used : f[e] = s
    BY <2>1 DEF Surjection
  <2>4. QED
    BY <2>2, <2>3 DEF FreeSlots
<1>6. QED
  BY <1>1, <1>3, <1>4, <1>5, FS_CardinalityType

(* rte_dvd_open_entry_num either opens the file or stops the game for one  *)
(* of the two reasons RteDvdAbs allows.                                    *)
LEMMA OpenEntryNumAbs ==
  ASSUME DvdAssumption, IInv, halt = "running",
         NEW h \in FileInfos, NEW e \in Entries,
         startAddr[h] = Nothing, OpenEntryNum(h, e)
  PROVE  Abs!Next
<1> USE DvdAssumption
<1>1. CASE fileInfo[e] = Nothing /\ FreeSlots = {} /\ Fatal("too_many_files")
  <2>1. e \in Entries \ Abs!InUse
    BY <1>1, PoolUsage
  <2>2. Cardinality(Abs!InUse) = MaxFiles
    BY <1>1, PoolUsage
  <2>3. Abs!TooManyFiles
    BY <1>1, <2>1, <2>2, SameCardinality DEF Fatal, Abs!TooManyFiles
  <2>4. QED
    BY <2>3 DEF Abs!Next
<1>2. CASE Fatal("sd_error")
  BY <1>2 DEF Fatal, Abs!Next, Abs!SdError
<1>3. CASE /\ ReuseSlot(e) \/ TakeSlot(e)
           /\ startAddr' = [startAddr EXCEPT ![h] = e]
           /\ UNCHANGED <<known, got, halt>>
  <2>1. e \notin Abs!InUse => FreeSlots # {}
    BY <1>3, PoolUsage DEF ReuseSlot, TakeSlot
  <2>2. e \in Entries \ Abs!InUse => Cardinality(Abs!InUse) < MaxFiles
    BY <2>1, PoolUsage DEF DvdAssumption
  <2>3. startAddr' = [startAddr EXCEPT ![h] = e] /\ got' = got /\ halt' = halt
    BY <1>3
  <2>4. Abs!Open(h, e)
    BY <2>2, <2>3, SameCardinality DEF Abs!Open
  <2>5. QED
    BY <2>4 DEF Abs!Next
<1>4. QED
  BY <1>1, <1>2, <1>3 DEF OpenEntryNum

(* Every call is a step of RteDvdAbs, or changes nothing that it shows.    *)
LEMMA NextAbs ==
  ASSUME DvdAssumption, IInv, [Next]_vars
  PROVE  [Abs!Next]_Abs!vars
<1> USE DvdAssumption
<1>1. ASSUME NEW p \in Paths, ConvertPath(p) PROVE [Abs!Next]_Abs!vars
  BY <1>1 DEF ConvertPath, MountFails, Fatal, Abs!Next, Abs!SdError,
              Abs!SpecialEntry, Abs!vars
<1>2. ASSUME NEW h \in FileInfos, OpenOnDisc(h), startAddr[h] = Nothing,
             halt = "running"
      PROVE  [Abs!Next]_Abs!vars
  <2>1. CASE startAddr' = startAddr
    BY <1>2, <2>1 DEF OpenOnDisc, Abs!vars
  <2>2. CASE startAddr' = [startAddr EXCEPT ![h] = Disc]
    <3>1. Abs!Open(h, Disc)
      BY <1>2, <2>2 DEF OpenOnDisc, Abs!Open, DvdAssumption
    <3>2. QED
      BY <1>2, <3>1 DEF Abs!Next
  <2>3. QED
    BY <1>2, <2>1, <2>2 DEF OpenOnDisc
<1>3. ASSUME NEW h \in FileInfos, NEW p \in Paths, Open(h, p)
      PROVE  [Abs!Next]_Abs!vars
  <2>1. CASE MountFails
    BY <1>3, <2>1 DEF Open, MountFails, Fatal, Abs!Next, Abs!SdError
  <2>2. CASE OpenOnDisc(h)
    BY <1>2, <1>3, <2>2 DEF Open
  <2>3. CASE Replacement[p] \in Entries /\ OpenEntryNum(h, Replacement[p])
    BY <1>3, <2>3, OpenEntryNumAbs DEF Open
  <2>4. QED
    BY <1>3, <2>1, <2>2, <2>3 DEF Open
<1>4. ASSUME NEW h \in FileInfos, FastOpen(h) PROVE [Abs!Next]_Abs!vars
  <2>1. CASE OpenOnDisc(h)
    BY <1>2, <1>4, <2>1 DEF FastOpen
  <2>2. ASSUME NEW e \in known, OpenEntryNum(h, e) PROVE [Abs!Next]_Abs!vars
    BY <1>4, <2>2, OpenEntryNumAbs DEF FastOpen, IInv, TypeOK
  <2>3. CASE Fatal("special_entry")
    BY <1>4, <2>3 DEF FastOpen, Fatal, Abs!Next, Abs!SpecialEntry
  <2>4. QED
    BY <1>4, <2>1, <2>2, <2>3 DEF FastOpen
<1>5. ASSUME NEW h \in FileInfos, ReadPrio(h) PROVE [Abs!Next]_Abs!vars
  <2>1. /\ fileInfo[startAddr[h]] \in Slots
        /\ slotFile[fileInfo[startAddr[h]]] = startAddr[h]
        /\ startAddr[h] \in Entries /\ startAddr[h] # Nothing
        /\ halt = "running"
    BY <1>5 DEF ReadPrio, IInv, TypeOK, OpenHandlesBacked, SlotsAccounted,
                DvdAssumption
  <2>2. /\ startAddr' = startAddr
        /\ \/ halt' = "sd_error" /\ got' = got
           \/ halt' = halt /\ got' = <<h, startAddr[h]>>
    BY <1>5, <2>1 DEF ReadPrio, Fatal, DvdAssumption
  <2>3. Abs!SdError \/ Abs!Read(h)
    BY <2>1, <2>2 DEF Abs!SdError, Abs!Read
  <2>4. QED
    BY <2>1, <2>3 DEF Abs!Next
<1>6. ASSUME NEW h \in FileInfos, Close(h) PROVE [Abs!Next]_Abs!vars
  <2>1. ASSUME startAddr[h] \in Entries, CloseReplaced(h, startAddr[h])
        PROVE  Abs!SdError \/ Abs!Close(h)
    <3>1. fileInfo[startAddr[h]] # Nothing /\ refcount[fileInfo[startAddr[h]]] # 0
      BY <2>1, HandlesFinite
         DEF IInv, TypeOK, OpenHandlesBacked, RefcountExact, DvdAssumption
    <3>2. QED
      BY <2>1, <3>1 DEF CloseReplaced, Fatal, Abs!SdError, Abs!Close
  <2>2. ASSUME startAddr' = [startAddr EXCEPT ![h] = Nothing],
               UNCHANGED <<got, halt>>
        PROVE  Abs!Close(h)
    BY <2>2 DEF Abs!Close
  <2>3. Abs!SdError \/ Abs!Close(h)
    BY <1>6, <2>1, <2>2 DEF Close, Abs!Close
  <2>4. halt = "running"
    BY <1>6 DEF Close
  <2>5. QED
    BY <2>3, <2>4 DEF Abs!Next
<1>7. CASE UNCHANGED vars
  BY <1>7 DEF vars, Abs!vars
<1>8. QED
  BY <1>1, <1>3, <1>4, <1>5, <1>6, <1>7 DEF Next, Stopped

(* dvd.c keeps the promise of RteDvdAbs: a FileInfo reads the file it was  *)
(* opened on until it is closed, and the game stops only on an SD error or *)
(* when MaxFiles different SD files are open and one more is asked for.    *)
THEOREM ImplementsAbs == Spec => AbsSpec
<1>1. Init => Abs!Init
  BY DEF Init, Abs!Init
<1>2. Init => IInv
  BY DvdAssumption, InitInv
<1>3. IInv /\ [Next]_vars => IInv'
  BY DvdAssumption, NextInv
<1>4. IInv /\ [Next]_vars => [Abs!Next]_Abs!vars
  BY DvdAssumption, NextAbs
<1>5. QED
  BY <1>1, <1>2, <1>3, <1>4, PTL DEF Spec, AbsSpec, Abs!Spec
-----------------------------------------------------------------------------
(* Overlapping calls                                                       *)

(* What the game keeps apart.                                              *)
Discipline == {"same_open", "close_with_open"} \subseteq Serial

TTypes ==
  /\ fileInfo \in [Entries -> Slots \cup {Nothing}]
  /\ refcount \in [Slots -> Nat]
  /\ slotFile \in [Slots -> Entries \cup {Nothing}]
  /\ startAddr \in [FileInfos -> Entries \cup {Nothing}]
  /\ call \in [Threads -> Calls \cup {Nothing}]
  /\ pos \in [Slots -> Nat]

(* The calls under way differ in FileInfo, the opens among them in file,   *)
(* and no open is among them with a close.                                 *)
KeptApart ==
  \A t, u \in Busy : t # u =>
    /\ call[t].h # call[u].h
    /\ call[t].step = "sd_open" /\ call[u].step = "sd_open" => call[t].e # call[u].e
    /\ ~ (call[t].step = "sd_open" /\ call[u].step = "sd_close")

(* An open has reserved a slot that is nobody else's; a close still holds  *)
(* its file; a read is on a file that is open.                             *)
OpenTrue(c) ==
  /\ fileInfo[c.e] = Nothing /\ startAddr[c.h] = Nothing
  /\ refcount[c.slot] = 1
  /\ \A d \in Entries : fileInfo[d] # c.slot
CloseTrue(c) ==
  fileInfo[c.e] = c.slot /\ refcount[c.slot] = 0 /\ HandlesOn(c.e) = {c.h}
ReadTrue(c) == fileInfo[c.e] = c.slot /\ startAddr[c.h] = c.e

CallsTrue ==
  \A t \in Busy :
    /\ call[t].step = "sd_open" => OpenTrue(call[t])
    /\ call[t].step = "sd_close" => CloseTrue(call[t])
    /\ call[t].step = "sd_read" => ReadTrue(call[t])

(* A read is where its seek left it, unless another one of the same file   *)
(* overlaps it.                                                            *)
Positioned ==
  \A t \in Busy : call[t].step = "sd_read" /\ t \notin crossed =>
    /\ pos[call[t].slot] = call[t].at
    /\ \A u \in Busy \ {t} : call[u].step = "sd_read" => call[u].e # call[t].e

SlotsApart ==
  \A t, u \in Busy :
    t # u /\ call[t].step = "sd_open" /\ call[u].step = "sd_open" =>
      call[t].slot # call[u].slot

FilesTrue == \A e \in Entries : fileInfo[e] # Nothing => slotFile[fileInfo[e]] = e

ClosingOn(e) == \E t \in Busy : call[t].e = e /\ call[t].step = "sd_close"

Counted ==
  \A e \in Entries : fileInfo[e] # Nothing /\ ~ClosingOn(e) =>
    HandlesOn(e) # {} /\ refcount[fileInfo[e]] = Cardinality(HandlesOn(e))

TInv ==
  /\ TTypes /\ KeptApart /\ CallsTrue /\ Positioned /\ SlotsApart /\ FilesTrue
  /\ Counted /\ CountedSlotsInUse /\ OpenHandlesBacked /\ NoBugHalt /\ ReadsAtOffset

LEMMA CallParts ==
  ASSUME TTypes, NEW t \in Busy
  PROVE  /\ t \in Threads /\ call[t] \in Calls
         /\ call[t].h \in FileInfos /\ call[t].e \in Entries
         /\ call[t].slot \in Slots
         /\ call[t].step \in {"sd_open", "sd_close", "sd_read"}
         /\ call[t].step = "sd_read" => call[t].at \in Offsets
BY DEF TTypes, Busy, Calls

(* A thread enters an SD call.                                             *)
LEMMA EnterCall ==
  ASSUME TTypes, NEW t \in Threads, t \notin Busy, NEW c \in Calls,
         call' = [call EXCEPT ![t] = c]
  PROVE  /\ Busy' = Busy \cup {t} /\ call'[t] = c
         /\ \A u \in Busy : call'[u] = call[u]
BY ThreadsAssumption DEF TTypes, Busy

LEMMA LeaveCall ==
  ASSUME TTypes, NEW t \in Busy, Return(t)
  PROVE  /\ Busy' = Busy \ {t}
         /\ call' \in [Threads -> Calls \cup {Nothing}]
         /\ \A u \in Busy \ {t} : call'[u] = call[u]
BY DEF TTypes, Busy, Return

(* No slot of an open file is free, nor one that an open has reserved.     *)
LEMMA FreeSlotUnused ==
  ASSUME DvdAssumption, TInv, ~ \E t \in Busy : call[t].step = "sd_close",
         NEW s \in FreeSlots
  PROVE  /\ s \in Slots /\ refcount[s] = 0
         /\ \A e \in Entries : fileInfo[e] # s
         /\ \A t \in Busy : call[t].step = "sd_open" => call[t].slot # s
<1>1. s \in Slots /\ refcount[s] = 0
  BY DEF FreeSlots
<1>2. ASSUME NEW e \in Entries, fileInfo[e] = s PROVE FALSE
  <2>1. HandlesOn(e) # {} /\ refcount[s] = Cardinality(HandlesOn(e))
    BY <1>1, <1>2 DEF TInv, Counted, ClosingOn, DvdAssumption
  <2> QED  BY <1>1, <2>1, HandlesFinite
<1>3. \A t \in Busy : call[t].step = "sd_open" => call[t].slot # s
  BY <1>1 DEF TInv, CallsTrue, OpenTrue
<1> QED  BY <1>1, <1>2, <1>3
-----------------------------------------------------------------------------
(* While an open may start, no close is under way, nor another open of its *)
(* file; no call is on the FileInfo of a call that starts.                 *)
LEMMA NothingOverlaps ==
  ASSUME Discipline, NEW t \in Threads, NEW h \in FileInfos, NEW e \in Entries,
         NEW kind, MayStart(t, kind, h, e)
  PROVE  /\ halt = "running" /\ t \in Threads \ Busy
         /\ \A u \in Busy :
              /\ call[u].h # h
              /\ kind = "sd_open" =>
                   /\ call[u].step # "sd_close"
                   /\ call[u].step = "sd_open" => call[u].e # e
              /\ kind = "sd_close" => call[u].step # "sd_open"
BY DEF MayStart, Discipline

(* An open FileInfo has a slot with its file in it, and is counted.        *)
LEMMA OpenHandle ==
  ASSUME DvdAssumption, TInv, NEW h \in FileInfos, startAddr[h] \in Entries,
         \A u \in Busy : call[u].h # h
  PROVE  LET e == startAddr[h] IN
         /\ ~ClosingOn(e)
         /\ fileInfo[e] \in Slots /\ slotFile[fileInfo[e]] = e
         /\ refcount[fileInfo[e]] = Cardinality(HandlesOn(e))
         /\ refcount[fileInfo[e]] \in Nat \ {0}
<1>1. fileInfo[startAddr[h]] # Nothing
  BY DEF TInv, OpenHandlesBacked
<1>2. fileInfo[startAddr[h]] \in Slots
  BY <1>1 DEF TInv, TTypes
<1>3. slotFile[fileInfo[startAddr[h]]] = startAddr[h]
  BY <1>1 DEF TInv, FilesTrue
<1>4. ~ClosingOn(startAddr[h])
  BY DEF TInv, CallsTrue, CloseTrue, ClosingOn, HandlesOn
<1>5. /\ refcount[fileInfo[startAddr[h]]] = Cardinality(HandlesOn(startAddr[h]))
      /\ HandlesOn(startAddr[h]) # {}
  BY <1>1, <1>4 DEF TInv, Counted
<1> QED  BY <1>2, <1>3, <1>4, <1>5, HandlesFinite

(* Two open files never share a slot.                                      *)
LEMMA FilesApart ==
  ASSUME TInv, NEW d \in Entries, NEW e \in Entries, d # e,
         fileInfo[d] # Nothing
  PROVE  fileInfo[d] # fileInfo[e]
BY DEF TInv, FilesTrue

(* rte_dvd_open_entry_num on an entry that is open.                        *)
LEMMA OpenReuseInv ==
  ASSUME DvdAssumption, Discipline, TInv,
         NEW t \in Threads, NEW h \in FileInfos, NEW e \in Entries,
         MayStart(t, "sd_open", h, e), startAddr[h] = Nothing, ReuseSlot(e),
         startAddr' = [startAddr EXCEPT ![h] = e],
         UNCHANGED <<got, halt, call, pos, crossed>>
  PROVE  TInv'
<1> USE DvdAssumption
<1>1. \A u \in Busy : call[u].h # h /\ call[u].step # "sd_close"
  BY NothingOverlaps
<1>2. /\ fileInfo[e] \in Slots /\ fileInfo' = fileInfo /\ slotFile' = slotFile
      /\ refcount' = [refcount EXCEPT ![fileInfo[e]] = @ + 1]
  BY DEF ReuseSlot, TInv, TTypes
<1>3. TTypes' /\ Busy' = Busy /\ call' = call
  BY <1>2 DEF TInv, TTypes, Busy
<1>4. ASSUME NEW u \in Busy PROVE call[u].h \in FileInfos /\ call[u].e \in Entries
                                  /\ call[u].slot \in Slots
  BY CallParts DEF TInv
<1>5. CallsTrue'
  <2>1. ASSUME NEW u \in Busy, call[u].step = "sd_open" PROVE OpenTrue(call[u])'
    <3>1. OpenTrue(call[u])  BY <2>1 DEF TInv, CallsTrue
    <3>2. fileInfo[e] # call[u].slot  BY <3>1 DEF OpenTrue
    <3> QED  BY <1>1, <1>2, <1>3, <1>4, <3>1, <3>2 DEF OpenTrue, TInv, TTypes
  <2>2. ASSUME NEW u \in Busy, call[u].step = "sd_read" PROVE ReadTrue(call[u])'
    BY <1>1, <1>2, <1>3, <1>4, <2>2 DEF TInv, CallsTrue, ReadTrue, TTypes
  <2> QED  BY <1>1, <1>3, <2>1, <2>2 DEF CallsTrue
<1>6. Counted'
  <2>1. /\ HandlesOn(e)' # {}
        /\ Cardinality(HandlesOn(e)') = Cardinality(HandlesOn(e)) + 1
        /\ \A d \in Entries \ {e} : HandlesOn(d)' = HandlesOn(d)
    BY OpenAddsHandle DEF TInv, TTypes
  <2>2. \A d \in Entries : ~ClosingOn(d)
    BY <1>1 DEF ClosingOn
  <2>3. refcount[fileInfo[e]] = Cardinality(HandlesOn(e))
    BY <1>2, <2>2 DEF TInv, Counted
  <2>4. refcount'[fileInfo[e]] = Cardinality(HandlesOn(e)')
    BY <1>2, <2>1, <2>3 DEF TInv, TTypes
  <2>5. ASSUME NEW d \in Entries, d # e, fileInfo[d] # Nothing
        PROVE  HandlesOn(d)' # {} /\ refcount'[fileInfo[d]] = Cardinality(HandlesOn(d)')
    <3>1. fileInfo[d] # fileInfo[e]  BY <2>5, FilesApart
    <3>2. HandlesOn(d) # {} /\ refcount[fileInfo[d]] = Cardinality(HandlesOn(d))
      BY <2>2, <2>5 DEF TInv, Counted
    <3>3. refcount'[fileInfo[d]] = refcount[fileInfo[d]]
      BY <1>2, <2>5, <3>1 DEF TInv, TTypes
    <3> QED  BY <2>1, <2>5, <3>2, <3>3
  <2> QED  BY <1>2, <2>1, <2>4, <2>5 DEF Counted
<1>7. CountedSlotsInUse'
  BY <1>2, <1>3 DEF TInv, CountedSlotsInUse, TTypes
<1>8. (KeptApart /\ Positioned /\ SlotsApart /\ FilesTrue /\ NoBugHalt /\ ReadsAtOffset)'
  BY <1>2, <1>3 DEF TInv, KeptApart, Positioned, SlotsApart, FilesTrue, NoBugHalt, ReadsAtOffset
<1>9. OpenHandlesBacked'
  BY <1>2 DEF TInv, OpenHandlesBacked, TTypes
<1> QED  BY <1>3, <1>5, <1>6, <1>7, <1>8, <1>9 DEF TInv
(* rte_dvd_open_entry_num reserves a slot and enters SD_open.              *)
LEMMA OpenTakeInv ==
  ASSUME DvdAssumption, ThreadsAssumption, Discipline, TInv,
         NEW t \in Threads, NEW h \in FileInfos, NEW e \in Entries,
         MayStart(t, "sd_open", h, e), startAddr[h] = Nothing,
         fileInfo[e] = Nothing, FreeSlots # {}, ReserveSlot(AllocSlot),
         call' = [call EXCEPT ![t] =
                    [step |-> "sd_open", h |-> h, e |-> e, slot |-> AllocSlot]],
         UNCHANGED <<fileInfo, slotFile, startAddr, got, halt, pos, crossed>>
  PROVE  TInv'
<1> USE DvdAssumption
<1> DEFINE s == AllocSlot
           c == [step |-> "sd_open", h |-> h, e |-> e, slot |-> s]
<1>1. \A u \in Busy : /\ call[u].h # h /\ call[u].step # "sd_close"
                      /\ call[u].step = "sd_open" => call[u].e # e
  BY NothingOverlaps
<1>2. /\ s \in Slots /\ refcount[s] = 0
      /\ \A d \in Entries : fileInfo[d] # s
      /\ \A u \in Busy : call[u].step = "sd_open" => call[u].slot # s
  BY <1>1, AllocSlotFree, FreeSlotUnused
<1>3. t \notin Busy  BY NothingOverlaps
<1> HIDE DEF s
<1>4. c \in Calls  BY <1>2 DEF Calls
<1>5. call' = [call EXCEPT ![t] = c]  BY DEF s
<1>6. refcount' = [refcount EXCEPT ![s] = 1]  BY DEF ReserveSlot, s
<1>7. c.step = "sd_open" /\ c.h = h /\ c.e = e /\ c.slot = s  OBVIOUS
<1> HIDE DEF c
<1>8. /\ Busy' = Busy \cup {t} /\ call'[t] = c
      /\ \A u \in Busy : call'[u] = call[u]
  BY <1>3, <1>4, <1>5, EnterCall DEF TInv
<1>9. TTypes'
  BY <1>2, <1>4, <1>5, <1>6 DEF TInv, TTypes
<1>10. (KeptApart /\ Positioned)'
  BY <1>1, <1>7, <1>8 DEF TInv, KeptApart, Positioned
<1>11. CallsTrue'
  <2>1. OpenTrue(call[t])'
    BY <1>2, <1>6, <1>7, <1>8 DEF OpenTrue, TInv, TTypes
  <2>2. ASSUME NEW u \in Busy, call[u].step = "sd_open" PROVE OpenTrue(call[u])'
    BY <1>2, <1>6, <1>8, <2>2, CallParts
       DEF TInv, CallsTrue, OpenTrue, TTypes
  <2>3. ASSUME NEW u \in Busy, call[u].step = "sd_read" PROVE ReadTrue(call[u])'
    BY <1>8, <2>3 DEF TInv, CallsTrue, ReadTrue
  <2> QED  BY <1>1, <1>7, <1>8, <2>1, <2>2, <2>3 DEF CallsTrue
<1>12. SlotsApart'
  BY <1>2, <1>7, <1>8 DEF TInv, SlotsApart
<1>13. Counted'
  <2>1. \A d \in Entries : ~ClosingOn(d)
    BY <1>1 DEF ClosingOn
  <2>2. ASSUME NEW d \in Entries, fileInfo[d] # Nothing
        PROVE  refcount'[fileInfo[d]] = refcount[fileInfo[d]]
    BY <1>2, <1>6, <2>2 DEF TInv, TTypes
  <2>3. \A d \in Entries : HandlesOn(d)' = HandlesOn(d)
    BY DEF HandlesOn
  <2> QED  BY <2>1, <2>2, <2>3 DEF TInv, Counted
<1>14. CountedSlotsInUse'
  BY <1>6, <1>7, <1>8 DEF TInv, TTypes, CountedSlotsInUse
<1>15. (FilesTrue /\ OpenHandlesBacked /\ NoBugHalt /\ ReadsAtOffset)'
  BY DEF TInv, FilesTrue, OpenHandlesBacked, NoBugHalt, ReadsAtOffset
<1> QED
  BY <1>9, <1>10, <1>11, <1>12, <1>13, <1>14, <1>15 DEF TInv

(* SD_open returns.                                                        *)
LEMMA FinishOpenInv ==
  ASSUME DvdAssumption, TInv, NEW t \in Threads, FinishOpen(t)
  PROVE  TInv'
<1> USE DvdAssumption
<1>1. t \in Busy /\ call[t].step = "sd_open"  BY DEF FinishOpen
<1>2. PICK h \in FileInfos, e \in Entries, s \in Slots :
        call[t].h = h /\ call[t].e = e /\ call[t].slot = s
  BY <1>1, CallParts DEF TInv
<1>3. /\ fileInfo[e] = Nothing /\ startAddr[h] = Nothing
      /\ refcount[s] = 1
      /\ \A d \in Entries : fileInfo[d] # s
  BY <1>1, <1>2 DEF TInv, CallsTrue, OpenTrue
<1>4. \A u \in Busy \ {t} :
        /\ call[u].h # h /\ call[u].step # "sd_close"
        /\ call[u].step = "sd_open" => call[u].e # e /\ call[u].slot # s
  BY <1>1, <1>2 DEF TInv, KeptApart, SlotsApart
<1>5. /\ slotFile' = [slotFile EXCEPT ![s] = e]
      /\ pos' = [pos EXCEPT ![s] = 0]
      /\ fileInfo' = [fileInfo EXCEPT ![e] = s]
      /\ startAddr' = [startAddr EXCEPT ![h] = e]
      /\ UNCHANGED <<got, halt, crossed>>
  BY <1>2 DEF FinishOpen
<1>6. refcount' = refcount
  BY <1>2, <1>3 DEF FinishOpen, TInv, TTypes
<1>7. /\ Busy' = Busy \ {t} /\ call' \in [Threads -> Calls \cup {Nothing}]
      /\ \A u \in Busy \ {t} : call'[u] = call[u]
  BY <1>1, LeaveCall DEF FinishOpen, TInv
<1>8. ASSUME NEW u \in Busy \ {t}
      PROVE  /\ call[u].h \in FileInfos /\ call[u].e \in Entries
             /\ call[u].slot \in Slots
  BY CallParts DEF TInv
<1>9. TTypes'
  BY <1>2, <1>5, <1>6, <1>7 DEF TInv, TTypes
<1>10. (KeptApart /\ SlotsApart)'
  BY <1>7 DEF TInv, KeptApart, SlotsApart
<1>11. CallsTrue'
  <2>1. ASSUME NEW u \in Busy \ {t}, call[u].step = "sd_open"
        PROVE  OpenTrue(call[u])'
    BY <1>2, <1>4, <1>5, <1>6, <1>7, <1>8, <2>1
       DEF TInv, CallsTrue, OpenTrue, TTypes
  <2>2. ASSUME NEW u \in Busy \ {t}, call[u].step = "sd_read"
        PROVE  ReadTrue(call[u])'
    <3>1. ReadTrue(call[u])  BY <2>2 DEF TInv, CallsTrue
    <3>2. call[u].slot # s /\ call[u].e # e
      BY <1>3, <1>8, <3>1 DEF ReadTrue
    <3> QED  BY <1>4, <1>5, <1>7, <1>8, <3>1, <3>2 DEF ReadTrue, TInv, TTypes
  <2> QED  BY <1>4, <1>7, <2>1, <2>2 DEF CallsTrue
<1>11a. Positioned'
  <2>1. ASSUME NEW u \in Busy \ {t}, call[u].step = "sd_read"
        PROVE  call[u].slot # s
    BY <1>3, <1>8, <2>1 DEF TInv, CallsTrue, ReadTrue
  <2>2. ASSUME NEW u \in Busy \ {t}, call[u].step = "sd_read"
        PROVE  pos'[call[u].slot] = pos[call[u].slot]
    BY <1>5, <1>8, <2>1, <2>2 DEF TInv, TTypes
  <2> QED  BY <1>5, <1>7, <2>2 DEF TInv, Positioned
<1>12. FilesTrue'
  BY <1>2, <1>3, <1>5 DEF TInv, FilesTrue, TTypes
<1>13. OpenHandlesBacked'
  BY <1>2, <1>5 DEF TInv, OpenHandlesBacked, TTypes
<1>14. Counted'
  <2>1. HandlesOn(e) = {}
    BY <1>2, <1>3 DEF HandlesOn, TInv, OpenHandlesBacked
  <2>2. /\ HandlesOn(e)' # {}
        /\ Cardinality(HandlesOn(e)') = Cardinality(HandlesOn(e)) + 1
        /\ \A d \in Entries \ {e} : HandlesOn(d)' = HandlesOn(d)
    <3>1. startAddr \in [FileInfos -> Entries \cup {Disc, Nothing}]
      BY DEF TInv, TTypes
    <3>2. HandlesOn(e)' = HandlesOn(e) \cup {h} /\ h \notin HandlesOn(e)
      BY <1>2, <1>3, <1>5, <3>1 DEF HandlesOn
    <3>3. \A d \in Entries \ {e} : HandlesOn(d)' = HandlesOn(d)
      BY <1>2, <1>3, <1>5, <3>1 DEF HandlesOn
    <3> QED  BY <3>2, <3>3, HandlesFinite, FS_AddElement
  <2>3. Cardinality(HandlesOn(e)') = 1
    BY <2>1, <2>2, FS_EmptySet
  <2>4. \A d \in Entries : ~ClosingOn(d)
    BY <1>1, <1>4 DEF ClosingOn
  <2>5. ASSUME NEW d \in Entries, fileInfo'[d] # Nothing
        PROVE  HandlesOn(d)' # {} /\ refcount'[fileInfo'[d]] = Cardinality(HandlesOn(d)')
    <3>1. CASE d = e
      BY <1>2, <1>3, <1>5, <1>6, <2>2, <2>3, <3>1 DEF TInv, TTypes
    <3>2. CASE d # e
      <4>1. fileInfo'[d] = fileInfo[d]  BY <1>5, <3>2 DEF TInv, TTypes
      <4>2. HandlesOn(d) # {} /\ refcount[fileInfo[d]] = Cardinality(HandlesOn(d))
        BY <2>4, <2>5, <4>1 DEF TInv, Counted
      <4> QED  BY <1>6, <2>2, <3>2, <4>1, <4>2
    <3> QED  BY <3>1, <3>2
  <2> QED  BY <2>5 DEF Counted
<1>15. CountedSlotsInUse'
  <2>1. ASSUME NEW z \in Slots, refcount[z] > 0
        PROVE  \/ \E d \in Entries : fileInfo'[d] = z
               \/ \E u \in Busy' : call'[u].step = "sd_open" /\ call'[u].slot = z
    <3>1. CASE z = s
      BY <1>2, <1>5, <3>1 DEF TInv, TTypes
    <3>2. ASSUME NEW d \in Entries, fileInfo[d] = z
          PROVE  fileInfo'[d] = z
      BY <1>2, <1>3, <1>5, <3>2 DEF TInv, TTypes
    <3>3. ASSUME NEW u \in Busy, call[u].step = "sd_open", call[u].slot = z,
                 z # s
          PROVE  u \in Busy' /\ call'[u] = call[u]
      BY <1>2, <1>7, <3>3
    <3> QED  BY <2>1, <3>1, <3>2, <3>3 DEF TInv, CountedSlotsInUse
  <2> QED  BY <1>6, <2>1 DEF CountedSlotsInUse
<1>16. (NoBugHalt /\ ReadsAtOffset)'
  BY <1>5 DEF TInv, NoBugHalt, ReadsAtOffset
<1> QED
  BY <1>9, <1>10, <1>11, <1>11a, <1>12, <1>13, <1>14, <1>15, <1>16 DEF TInv
(* custom_close_impl drops the last reference and enters SD_close.         *)
LEMMA CloseLastInv ==
  ASSUME DvdAssumption, ThreadsAssumption, Discipline, TInv,
         NEW t \in Threads, NEW h \in FileInfos, NEW e \in Entries,
         NEW s \in Slots,
         MayStart(t, "sd_close", h, e), startAddr[h] = e, fileInfo[e] = s,
         refcount[s] = 1, Drop(e),
         call' = [call EXCEPT ![t] =
                    [step |-> "sd_close", h |-> h, e |-> e, slot |-> s]],
         UNCHANGED <<slotFile, startAddr, got, halt, pos, crossed>>
  PROVE  TInv'
<1> USE DvdAssumption
<1> DEFINE c == [step |-> "sd_close", h |-> h, e |-> e, slot |-> s]
<1>1. \A u \in Busy : call[u].h # h /\ call[u].step # "sd_open"
  BY NothingOverlaps
<1>2. t \notin Busy  BY NothingOverlaps
<1>3. c \in Calls  BY DEF Calls
<1>4. c.step = "sd_close" /\ c.h = h /\ c.e = e /\ c.slot = s  OBVIOUS
<1>5. call' = [call EXCEPT ![t] = c]  OBVIOUS
<1> HIDE DEF c
<1>6. /\ Busy' = Busy \cup {t} /\ call'[t] = c
      /\ \A u \in Busy : call'[u] = call[u]
  BY <1>2, <1>3, <1>5, EnterCall DEF TInv
<1>7. /\ fileInfo' = fileInfo
      /\ refcount' = [refcount EXCEPT ![s] = 0]
  BY DEF Drop, TInv, TTypes
<1>8. TTypes'
  BY <1>3, <1>5, <1>7 DEF TInv, TTypes
<1>9. (KeptApart /\ Positioned /\ SlotsApart)'
  BY <1>1, <1>4, <1>6 DEF TInv, KeptApart, Positioned, SlotsApart
<1>10. \A d \in Entries : HandlesOn(d)' = HandlesOn(d)
  BY DEF HandlesOn
<1>11. HandlesOn(e) = {h}
  <2>1. Cardinality(HandlesOn(e)) = 1
    BY <1>1, OpenHandle
  <2>2. PICK g : HandlesOn(e) = {g}
    BY <2>1, HandlesFinite, FS_Singleton
  <2>3. h \in HandlesOn(e)  BY DEF HandlesOn
  <2> QED  BY <2>2, <2>3
<1>11a. \A u \in Busy : call[u].step = "sd_close" => call[u].e # e
  BY <1>1, OpenHandle DEF ClosingOn
<1>12. CallsTrue'
  <2>1. CloseTrue(call[t])'
    <3>1. {g \in FileInfos : startAddr'[g] = call'[t].e} = {h}
      BY <1>4, <1>6, <1>11 DEF HandlesOn
    <3> QED
      BY <1>4, <1>6, <1>7, <3>1 DEF CloseTrue, HandlesOn, TInv, TTypes
  <2>2. ASSUME NEW u \in Busy, call[u].step = "sd_close" PROVE CloseTrue(call[u])'
    <3>1. /\ CloseTrue(call[u]) /\ call[u].e \in Entries /\ call[u].e # e
          /\ call[u].slot \in Slots
      BY <1>11a, <2>2, CallParts DEF TInv, CallsTrue
    <3>2. call[u].slot # s
      BY <3>1, FilesApart DEF CloseTrue, DvdAssumption
    <3>3. {g \in FileInfos : startAddr'[g] = call'[u].e} = {call'[u].h}
      BY <1>6, <3>1 DEF CloseTrue, HandlesOn
    <3> QED
      BY <1>6, <1>7, <3>1, <3>2, <3>3 DEF CloseTrue, HandlesOn, TInv, TTypes
  <2>3. ASSUME NEW u \in Busy, call[u].step = "sd_read" PROVE ReadTrue(call[u])'
    BY <1>6, <1>7, <2>3 DEF TInv, CallsTrue, ReadTrue
  <2> QED  BY <1>1, <1>4, <1>6, <2>1, <2>2, <2>3 DEF CallsTrue
<1>13. Counted'
  <2>1. ASSUME NEW d \in Entries, fileInfo[d] # Nothing, ~ClosingOn(d)'
        PROVE  HandlesOn(d) # {} /\ refcount'[fileInfo[d]] = Cardinality(HandlesOn(d))
    <3>1. d # e /\ ~ClosingOn(d)
      BY <1>4, <1>6, <2>1 DEF ClosingOn
    <3>2. fileInfo[d] # s
      BY <2>1, <3>1, FilesApart
    <3> QED  BY <1>7, <2>1, <3>1, <3>2 DEF TInv, TTypes, Counted
  <2> QED  BY <1>7, <1>10, <2>1 DEF Counted
<1>14. CountedSlotsInUse'
  BY <1>1, <1>6, <1>7 DEF TInv, TTypes, CountedSlotsInUse
<1>15. (FilesTrue /\ OpenHandlesBacked /\ NoBugHalt /\ ReadsAtOffset)'
  BY <1>7 DEF TInv, FilesTrue, OpenHandlesBacked, NoBugHalt, ReadsAtOffset
<1> QED
  BY <1>8, <1>9, <1>12, <1>13, <1>14, <1>15 DEF TInv

(* custom_close_impl where other FileInfos are open on the file.           *)
LEMMA CloseSharedInv ==
  ASSUME DvdAssumption, Discipline, TInv,
         NEW t \in Threads, NEW h \in FileInfos, NEW e \in Entries,
         NEW s \in Slots,
         MayStart(t, "sd_close", h, e), startAddr[h] = e, fileInfo[e] = s,
         refcount[s] > 1, Drop(e),
         startAddr' = [startAddr EXCEPT ![h] = Nothing],
         UNCHANGED <<slotFile, got, halt, call, pos, crossed>>
  PROVE  TInv'
<1> USE DvdAssumption
<1>1. \A u \in Busy : /\ call[u].h # h /\ call[u].step # "sd_open"
                      /\ call[u].step = "sd_close" => call[u].e # e
  BY NothingOverlaps, OpenHandle DEF ClosingOn
<1>2. /\ fileInfo' = fileInfo
      /\ refcount' = [refcount EXCEPT ![s] = @ - 1]
  BY DEF Drop, TInv, TTypes
<1>3. TTypes' /\ Busy' = Busy
  BY <1>2 DEF TInv, TTypes, Busy
<1>4. /\ Cardinality(HandlesOn(e)') = Cardinality(HandlesOn(e)) - 1
      /\ Cardinality(HandlesOn(e)') = 0 <=> HandlesOn(e)' = {}
      /\ \A d \in Entries \ {e} : HandlesOn(d)' = HandlesOn(d)
  BY CloseRemovesHandle DEF TInv, TTypes
<1>5. ASSUME NEW u \in Busy
      PROVE  /\ call[u].h \in FileInfos /\ call[u].e \in Entries
             /\ call[u].slot \in Slots
  BY CallParts DEF TInv
<1>6. CallsTrue'
  <2>1. ASSUME NEW u \in Busy, call[u].step = "sd_close" PROVE CloseTrue(call[u])'
    <3>1. CloseTrue(call[u]) /\ call[u].e # e
      BY <1>1, <2>1 DEF TInv, CallsTrue
    <3>2. call[u].slot # s
      BY <1>5, <3>1, FilesApart DEF CloseTrue, DvdAssumption
    <3>3. {g \in FileInfos : startAddr'[g] = call'[u].e} = {call'[u].h}
      BY <1>4, <1>5, <3>1 DEF CloseTrue, HandlesOn
    <3> QED
      BY <1>2, <1>5, <3>1, <3>2, <3>3 DEF CloseTrue, HandlesOn, TInv, TTypes
  <2>2. ASSUME NEW u \in Busy, call[u].step = "sd_read" PROVE ReadTrue(call[u])'
    BY <1>1, <1>2, <1>5, <2>2 DEF TInv, TTypes, CallsTrue, ReadTrue
  <2> QED  BY <1>1, <1>3, <2>1, <2>2 DEF CallsTrue
<1>7. Counted'
  <2>1. HandlesOn(e)' # {} /\ refcount'[s] = Cardinality(HandlesOn(e)')
    <3>1. refcount[s] = Cardinality(HandlesOn(e)) /\ refcount[s] \in Nat
      BY <1>1, OpenHandle
    <3>2. refcount'[s] = refcount[s] - 1  BY <1>2 DEF TInv, TTypes
    <3> QED  BY <1>4, <3>1, <3>2
  <2>2. ASSUME NEW d \in Entries, fileInfo[d] # Nothing, ~ClosingOn(d), d # e
        PROVE  HandlesOn(d)' # {} /\ refcount'[fileInfo[d]] = Cardinality(HandlesOn(d)')
    <3>1. fileInfo[d] # s  BY <2>2, FilesApart
    <3>2. HandlesOn(d) # {} /\ refcount[fileInfo[d]] = Cardinality(HandlesOn(d))
      BY <2>2 DEF TInv, Counted
    <3>3. refcount'[fileInfo[d]] = refcount[fileInfo[d]]
      BY <1>2, <2>2, <3>1 DEF TInv, TTypes
    <3> QED  BY <1>4, <2>2, <3>2, <3>3
  <2>3. \A d \in Entries : ClosingOn(d)' <=> ClosingOn(d)
    BY <1>3 DEF ClosingOn
  <2> QED  BY <1>2, <2>1, <2>2, <2>3 DEF Counted
<1>8. CountedSlotsInUse'
  BY <1>2, <1>3 DEF TInv, TTypes, CountedSlotsInUse
<1>9. (KeptApart /\ Positioned /\ SlotsApart /\ FilesTrue /\ NoBugHalt /\ ReadsAtOffset)'
  BY <1>2, <1>3 DEF TInv, KeptApart, Positioned, SlotsApart, FilesTrue, NoBugHalt, ReadsAtOffset
<1>10. OpenHandlesBacked'
  BY <1>2 DEF TInv, TTypes, OpenHandlesBacked, DvdAssumption
<1> QED  BY <1>3, <1>6, <1>7, <1>8, <1>9, <1>10 DEF TInv
(* SD_close returns.                                                       *)
LEMMA FinishCloseInv ==
  ASSUME DvdAssumption, TInv, NEW t \in Threads, FinishClose(t)
  PROVE  TInv'
<1> USE DvdAssumption
<1>1. t \in Busy /\ call[t].step = "sd_close"  BY DEF FinishClose
<1>2. PICK h \in FileInfos, e \in Entries, s \in Slots :
        call[t].h = h /\ call[t].e = e /\ call[t].slot = s
  BY <1>1, CallParts DEF TInv
<1>3. fileInfo[e] = s /\ refcount[s] = 0 /\ HandlesOn(e) = {h}
  BY <1>1, <1>2 DEF TInv, CallsTrue, CloseTrue
<1>4. \A u \in Busy \ {t} :
        call[u].h # h /\ call[u].e # e /\ call[u].step # "sd_open"
  <2>1. ASSUME NEW u \in Busy \ {t}
        PROVE  call[u].h # h /\ call[u].step # "sd_open"
    BY <1>1, <1>2 DEF TInv, KeptApart
  <2>2. ASSUME NEW u \in Busy \ {t}
        PROVE  call[u].h \in HandlesOn(call[u].e)
    <3>1. call[u].step \in {"sd_close", "sd_read"} /\ call[u].h \in FileInfos
      BY <2>1, CallParts DEF TInv
    <3> QED  BY <3>1 DEF TInv, CallsTrue, CloseTrue, ReadTrue, HandlesOn
  <2> QED  BY <1>3, <2>1, <2>2
<1>5. /\ slotFile' = [slotFile EXCEPT ![s] = Nothing]
      /\ fileInfo' = [fileInfo EXCEPT ![e] = Nothing]
      /\ startAddr' = [startAddr EXCEPT ![h] = Nothing]
      /\ UNCHANGED <<refcount, got, halt, pos, crossed>>
  BY <1>2 DEF FinishClose
<1>6. /\ Busy' = Busy \ {t} /\ call' \in [Threads -> Calls \cup {Nothing}]
      /\ \A u \in Busy \ {t} : call'[u] = call[u]
  BY <1>1, LeaveCall DEF FinishClose, TInv
<1>7. ASSUME NEW u \in Busy \ {t}
      PROVE  /\ call[u].h \in FileInfos /\ call[u].e \in Entries
             /\ call[u].slot \in Slots
  BY CallParts DEF TInv
<1>8. TTypes'
  BY <1>2, <1>5, <1>6 DEF TInv, TTypes
<1>9. (KeptApart /\ Positioned /\ SlotsApart)'
  BY <1>5, <1>6 DEF TInv, KeptApart, Positioned, SlotsApart
<1>10. \A d \in Entries \ {e} : HandlesOn(d)' = HandlesOn(d)
  <2>1. startAddr[h] = e /\ startAddr \in [FileInfos -> Entries \cup {Nothing}]
    BY <1>3 DEF HandlesOn, TInv, TTypes
  <2> QED  BY <1>5, <2>1 DEF HandlesOn
<1>11. CallsTrue'
  <2>1. ASSUME NEW u \in Busy \ {t}, call[u].step = "sd_close"
        PROVE  CloseTrue(call[u])'
    <3>1. CloseTrue(call[u]) /\ call[u].e # e
      BY <1>4, <2>1 DEF TInv, CallsTrue
    <3>2. {g \in FileInfos : startAddr'[g] = call'[u].e} = {call'[u].h}
      BY <1>6, <1>7, <1>10, <3>1 DEF CloseTrue, HandlesOn
    <3> QED
      BY <1>5, <1>6, <1>7, <3>1, <3>2 DEF CloseTrue, HandlesOn, TInv, TTypes
  <2>2. ASSUME NEW u \in Busy \ {t}, call[u].step = "sd_read"
        PROVE  ReadTrue(call[u])'
    BY <1>4, <1>5, <1>6, <1>7, <2>2 DEF TInv, TTypes, CallsTrue, ReadTrue
  <2> QED  BY <1>4, <1>6, <2>1, <2>2 DEF CallsTrue
<1>12. FilesTrue'
  <2>1. ASSUME NEW d \in Entries, fileInfo'[d] # Nothing
        PROVE  slotFile'[fileInfo'[d]] = d
    <3>1. d # e /\ fileInfo'[d] = fileInfo[d]
      BY <1>5, <2>1 DEF TInv, TTypes
    <3>2. fileInfo[d] # s  BY <1>3, <2>1, <3>1, FilesApart
    <3> QED  BY <1>5, <2>1, <3>1, <3>2 DEF TInv, TTypes, FilesTrue
  <2> QED  BY <2>1 DEF FilesTrue
<1>13. OpenHandlesBacked'
  <2>1. ASSUME NEW g \in FileInfos, startAddr'[g] \in Entries
        PROVE  fileInfo'[startAddr'[g]] # Nothing
    <3>1. g # h /\ startAddr'[g] = startAddr[g]
      BY <1>5, <2>1 DEF TInv, TTypes
    <3>2. startAddr[g] # e
      BY <1>3, <3>1 DEF HandlesOn
    <3> QED  BY <1>5, <2>1, <3>1, <3>2 DEF TInv, TTypes, OpenHandlesBacked
  <2> QED  BY <2>1 DEF OpenHandlesBacked
<1>14. Counted'
  <2>1. ASSUME NEW d \in Entries, fileInfo'[d] # Nothing, ~ClosingOn(d)'
        PROVE  /\ HandlesOn(d)' # {}
               /\ refcount'[fileInfo'[d]] = Cardinality(HandlesOn(d)')
    <3>1. d # e /\ fileInfo'[d] = fileInfo[d]
      BY <1>5, <2>1 DEF TInv, TTypes
    <3>2. ~ClosingOn(d)
      BY <1>2, <1>6, <2>1, <3>1 DEF ClosingOn
    <3> QED  BY <1>5, <1>10, <2>1, <3>1, <3>2 DEF TInv, Counted
  <2> QED  BY <2>1 DEF Counted
<1>15. CountedSlotsInUse'
  <2>1. ASSUME NEW z \in Slots, refcount[z] > 0
        PROVE  \E d \in Entries : fileInfo'[d] = z
    <3>1. PICK d \in Entries : fileInfo[d] = z
      BY <1>1, <1>4, <2>1 DEF TInv, CountedSlotsInUse
    <3>2. d # e  BY <1>3, <2>1, <3>1
    <3> QED  BY <1>5, <3>1, <3>2 DEF TInv, TTypes
  <2> QED  BY <1>5, <2>1 DEF CountedSlotsInUse
<1>16. (NoBugHalt /\ ReadsAtOffset)'
  BY <1>5 DEF TInv, NoBugHalt, ReadsAtOffset
<1> QED
  BY <1>8, <1>9, <1>11, <1>12, <1>13, <1>14, <1>15, <1>16 DEF TInv

(* Whatever leaves the slots, the entries and the FileInfos alone keeps    *)
(* what is said of them.                                                   *)
LEMMA TFrame ==
  ASSUME TInv, UNCHANGED <<fileInfo, refcount, slotFile, startAddr>>,
         \A d \in Entries : ClosingOn(d)' <=> ClosingOn(d),
         \A u \in Busy : call[u].step = "sd_open" =>
           u \in Busy' /\ call'[u] = call[u]
  PROVE  (FilesTrue /\ Counted /\ CountedSlotsInUse /\ OpenHandlesBacked)'
BY DEF TInv, FilesTrue, Counted, CountedSlotsInUse, OpenHandlesBacked, HandlesOn

(* custom_read_prio_impl seeks and enters SD_read.                         *)
LEMMA StartReadInv ==
  ASSUME DvdAssumption, ThreadsAssumption, Discipline, TInv,
         NEW t \in Threads, NEW h \in FileInfos, NEW e \in Entries,
         NEW s \in Slots, NEW at \in Offsets,
         MayStart(t, "sd_read", h, e), startAddr[h] = e, fileInfo[e] = s,
         Seek(s, at), Cross(t, e),
         call' = [call EXCEPT ![t] =
           [step |-> "sd_read", h |-> h, e |-> e, slot |-> s, at |-> at]],
         UNCHANGED <<fileInfo, refcount, slotFile, startAddr, got, halt>>
  PROVE  TInv'
<1> USE DvdAssumption
<1> DEFINE c == [step |-> "sd_read", h |-> h, e |-> e, slot |-> s, at |-> at]
<1>1. \A u \in Busy : call[u].h # h
  BY NothingOverlaps
<1>2. t \notin Busy  BY NothingOverlaps
<1>3. c \in Calls  BY DEF Calls
<1>4. /\ c.step = "sd_read" /\ c.h = h /\ c.e = e /\ c.slot = s /\ c.at = at
  OBVIOUS
<1>5. call' = [call EXCEPT ![t] = c]  OBVIOUS
<1> HIDE DEF c
<1>6. /\ Busy' = Busy \cup {t} /\ call'[t] = c
      /\ \A u \in Busy : call'[u] = call[u]
  BY <1>2, <1>3, <1>5, EnterCall DEF TInv
<1>7. pos' = [pos EXCEPT ![s] = at] /\ at \in Nat
  BY ThreadsAssumption DEF Seek
<1>8. TTypes'
  BY <1>3, <1>5, <1>7 DEF TInv, TTypes
<1>9. (KeptApart /\ SlotsApart)'
  BY <1>1, <1>4, <1>6 DEF TInv, KeptApart, SlotsApart
<1>10. CallsTrue'
  <2>1. ReadTrue(call[t])'
    BY <1>4, <1>6, <1>7 DEF ReadTrue, TInv, TTypes
  <2>2. ASSUME NEW u \in Busy, call[u].step = "sd_open" PROVE OpenTrue(call[u])'
    BY <1>6, <2>2 DEF TInv, CallsTrue, OpenTrue
  <2>3. ASSUME NEW u \in Busy, call[u].step = "sd_close" PROVE CloseTrue(call[u])'
    BY <1>6, <2>3 DEF TInv, CallsTrue, CloseTrue, HandlesOn
  <2>4. ASSUME NEW u \in Busy, call[u].step = "sd_read" PROVE ReadTrue(call[u])'
    BY <1>6, <2>4 DEF TInv, CallsTrue, ReadTrue
  <2> QED  BY <1>4, <1>6, <2>1, <2>2, <2>3, <2>4 DEF CallsTrue
<1>10a. Positioned'
  <2>1. Busy' = Busy \cup {t}  BY <1>6
  <2>2. ASSUME t \notin crossed'
        PROVE  /\ pos'[call'[t].slot] = call'[t].at
               /\ \A u \in Busy : call[u].step = "sd_read" => call[u].e # e
    <3>1. Reading(e) = {}  BY <2>2 DEF Cross
    <3> QED  BY <1>4, <1>6, <1>7, <3>1 DEF Reading, TInv, TTypes
  <2>3. ASSUME NEW u \in Busy, call[u].step = "sd_read", u \notin crossed'
        PROVE  /\ u \notin crossed /\ call[u].e # e
               /\ pos'[call[u].slot] = pos[call[u].slot]
    <3>1. u \notin Reading(e) /\ u \notin crossed
      BY <1>2, <2>3 DEF Cross
    <3>2. call[u].e # e  BY <2>3, <3>1 DEF Reading
    <3>3. /\ ReadTrue(call[u]) /\ call[u].e \in Entries
          /\ call[u].slot \in Slots
      BY <2>3, CallParts DEF TInv, CallsTrue
    <3>4. call[u].slot # s
      BY <3>2, <3>3, FilesApart DEF ReadTrue, DvdAssumption
    <3> QED  BY <1>7, <3>1, <3>2, <3>3, <3>4 DEF TInv, TTypes
  <2> QED  BY <1>2, <1>4, <1>6, <2>1, <2>2, <2>3 DEF TInv, Positioned
<1>11. (FilesTrue /\ Counted /\ CountedSlotsInUse /\ OpenHandlesBacked)'
  <2>1. \A d \in Entries : ClosingOn(d)' <=> ClosingOn(d)
    BY <1>4, <1>6 DEF ClosingOn
  <2> QED  BY <1>6, <2>1, TFrame
<1>12. (NoBugHalt /\ ReadsAtOffset)'
  BY DEF TInv, NoBugHalt, ReadsAtOffset
<1> QED  BY <1>8, <1>9, <1>10, <1>10a, <1>11, <1>12 DEF TInv

(* What SD_read does: nothing stops it, and it reads the block asked for.  *)
LEMMA ReadOutcome ==
  ASSUME DvdAssumption, TInv, NEW t \in Threads, FinishRead(t)
  PROVE  \E h \in FileInfos, e \in Entries, s \in Slots, at \in Offsets :
           /\ t \in Busy /\ halt = "running" /\ startAddr[h] = e
           /\ call[t].step = "sd_read"
           /\ call[t].h = h /\ call[t].e = e
           /\ call[t].slot = s /\ call[t].at = at
           /\ fileInfo[e] = s /\ crossed' = crossed
           /\ got' = [h |-> h, want |-> <<e, at>>, read |-> <<e, pos[s]>>,
                       crossed |-> t \in crossed]
           /\ pos' = [pos EXCEPT ![s] = @ + 1]
           /\ UNCHANGED <<fileInfo, refcount, slotFile, startAddr, halt>>
           /\ Return(t)
<1>1. t \in Busy /\ call[t].step = "sd_read" /\ halt = "running" /\ Return(t)
  BY DEF FinishRead
<1>2. PICK h \in FileInfos, e \in Entries, s \in Slots, at \in Offsets :
        /\ call[t].h = h /\ call[t].e = e
        /\ call[t].slot = s /\ call[t].at = at
  BY <1>1, CallParts DEF TInv
<1>3. fileInfo[e] = s /\ startAddr[h] = e
  BY <1>1, <1>2 DEF TInv, CallsTrue, ReadTrue
<1>4. slotFile[s] = e /\ e # Nothing
  BY <1>3 DEF TInv, FilesTrue, DvdAssumption
<1>5. /\ got' = [h |-> h, want |-> <<e, at>>, read |-> <<e, pos[s]>>,
                  crossed |-> t \in crossed]
      /\ crossed' = crossed
      /\ pos' = [pos EXCEPT ![s] = @ + 1]
      /\ UNCHANGED <<fileInfo, refcount, slotFile, startAddr, halt>>
  BY <1>2, <1>3, <1>4 DEF FinishRead
<1> QED  BY <1>1, <1>2, <1>3, <1>5

LEMMA FinishReadInv ==
  ASSUME DvdAssumption, ThreadsAssumption, TInv,
         NEW t \in Threads, FinishRead(t)
  PROVE  TInv'
<1> USE DvdAssumption
<1>1. PICK h \in FileInfos, e \in Entries, s \in Slots, at \in Offsets :
        /\ t \in Busy /\ call[t].step = "sd_read"
        /\ call[t].h = h /\ call[t].e = e /\ call[t].slot = s
        /\ call[t].at = at /\ fileInfo[e] = s /\ crossed' = crossed
        /\ got' = [h |-> h, want |-> <<e, at>>, read |-> <<e, pos[s]>>,
                    crossed |-> t \in crossed]
        /\ pos' = [pos EXCEPT ![s] = @ + 1]
        /\ UNCHANGED <<fileInfo, refcount, slotFile, startAddr, halt>>
        /\ Return(t)
  BY ReadOutcome
<1>2. /\ Busy' = Busy \ {t} /\ call' \in [Threads -> Calls \cup {Nothing}]
      /\ \A u \in Busy \ {t} : call'[u] = call[u]
  BY <1>1, LeaveCall DEF TInv
<1>3. TTypes'
  BY <1>1, <1>2 DEF TInv, TTypes
<1>4. (KeptApart /\ SlotsApart)'
  BY <1>2 DEF TInv, KeptApart, SlotsApart
<1>5. CallsTrue'
  <2>1. ASSUME NEW u \in Busy \ {t}, call[u].step = "sd_open"
        PROVE  OpenTrue(call[u])'
    BY <1>1, <1>2, <2>1 DEF TInv, CallsTrue, OpenTrue
  <2>2. ASSUME NEW u \in Busy \ {t}, call[u].step = "sd_close"
        PROVE  CloseTrue(call[u])'
    BY <1>1, <1>2, <2>2 DEF TInv, CallsTrue, CloseTrue, HandlesOn
  <2>3. ASSUME NEW u \in Busy \ {t}, call[u].step = "sd_read"
        PROVE  ReadTrue(call[u])'
    BY <1>1, <1>2, <2>3 DEF TInv, CallsTrue, ReadTrue
  <2> QED  BY <1>2, <2>1, <2>2, <2>3 DEF CallsTrue, TInv
<1>5a. Positioned'
  <2>1. ASSUME NEW u \in Busy \ {t}, call[u].step = "sd_read", u \notin crossed
        PROVE  pos'[call[u].slot] = pos[call[u].slot]
    <3>1. /\ ReadTrue(call[u]) /\ call[u].e \in Entries /\ call[u].e # e
          /\ call[u].slot \in Slots
      BY <1>1, <2>1, CallParts DEF TInv, CallsTrue, Positioned
    <3>2. call[u].slot # s
      BY <1>1, <3>1, FilesApart DEF ReadTrue, DvdAssumption
    <3> QED  BY <1>1, <3>1, <3>2 DEF TInv, TTypes
  <2> QED  BY <1>1, <1>2, <2>1 DEF TInv, Positioned
<1>6. (FilesTrue /\ Counted /\ CountedSlotsInUse /\ OpenHandlesBacked)'
  <2>1. \A d \in Entries : ClosingOn(d)' <=> ClosingOn(d)
    BY <1>1, <1>2 DEF ClosingOn
  <2> QED  BY <1>1, <1>2, <2>1, TFrame
<1>7. (NoBugHalt /\ ReadsAtOffset)'
  <2>1. t \notin crossed => pos[s] = at
    BY <1>1 DEF TInv, Positioned
  <2> QED  BY <1>1, <2>1 DEF TInv, NoBugHalt, ReadsAtOffset
<1> QED  BY <1>3, <1>4, <1>5, <1>5a, <1>6, <1>7 DEF TInv
LEMMA TInitInv ==
  ASSUME DvdAssumption, ThreadsAssumption, TInit
  PROVE  TInv
<1> USE DvdAssumption
<1>1. TTypes /\ Busy = {}
  BY DEF TInit, TTypes, Busy
<1>2. \A e \in Entries : fileInfo[e] = Nothing
  BY DEF TInit
<1>3. KeptApart /\ CallsTrue /\ Positioned /\ SlotsApart /\ FilesTrue /\ Counted
  BY <1>1, <1>2 DEF KeptApart, CallsTrue, Positioned, SlotsApart, FilesTrue, Counted
<1>4. CountedSlotsInUse /\ OpenHandlesBacked
  BY DEF TInit, CountedSlotsInUse, OpenHandlesBacked, DvdAssumption
<1>5. NoBugHalt /\ ReadsAtOffset
  BY DEF TInit, NoBugHalt, ReadsAtOffset
<1> QED  BY <1>1, <1>3, <1>4, <1>5 DEF TInv

(* A call that stops the game for another reason than a bug.               *)
LEMMA TStopInv ==
  ASSUME TInv, NoBugHalt',
         UNCHANGED <<fileInfo, refcount, slotFile, startAddr, got, call, pos,
                     crossed>>
  PROVE  TInv'
<1>1. TTypes' /\ Busy' = Busy /\ call' = call
  BY DEF TInv, TTypes, Busy
<1>2. (KeptApart /\ Positioned /\ SlotsApart)'
  BY <1>1 DEF TInv, KeptApart, Positioned, SlotsApart
<1>3. CallsTrue'
  BY <1>1 DEF TInv, CallsTrue, OpenTrue, CloseTrue, ReadTrue, HandlesOn
<1>4. (FilesTrue /\ Counted /\ CountedSlotsInUse /\ OpenHandlesBacked)'
  BY <1>1, TFrame DEF ClosingOn
<1>5. ReadsAtOffset'
  BY DEF TInv, ReadsAtOffset
<1> QED  BY <1>1, <1>2, <1>3, <1>4, <1>5 DEF TInv

(* custom_close_impl up to SD_close meets none of its assertions.          *)
LEMMA CloseOutcome ==
  ASSUME DvdAssumption, Discipline, TInv,
         NEW t \in Threads, NEW h \in FileInfos, StartClose(t, h)
  PROVE  \E e \in Entries, s \in Slots :
           /\ MayStart(t, "sd_close", h, e) /\ startAddr[h] = e
           /\ fileInfo[e] = s /\ Drop(e)
           /\ UNCHANGED <<slotFile, got, halt, pos, crossed>>
           /\ \/ /\ refcount[s] = 1 /\ UNCHANGED startAddr
                 /\ call' = [call EXCEPT ![t] =
                      [step |-> "sd_close", h |-> h, e |-> e, slot |-> s]]
              \/ /\ refcount[s] > 1 /\ UNCHANGED call
                 /\ startAddr' = [startAddr EXCEPT ![h] = Nothing]
<1> USE DvdAssumption
<1>1. PICK e \in Entries : startAddr[h] = e /\ MayStart(t, "sd_close", h, e)
  BY DEF StartClose
<1>2. \A u \in Busy : call[u].h # h
  BY <1>1, NothingOverlaps
<1>3. PICK s \in Slots : fileInfo[e] = s
  BY <1>1, <1>2, OpenHandle
<1>4. slotFile[s] = e /\ refcount[s] \in Nat \ {0} /\ s # Nothing /\ e # Nothing
  BY <1>1, <1>2, <1>3, OpenHandle DEF DvdAssumption
<1>5. /\ Drop(e) /\ UNCHANGED <<slotFile, got, halt, pos, crossed>>
      /\ \/ /\ refcount[s] = 1 /\ UNCHANGED startAddr
            /\ call' = [call EXCEPT ![t] =
                 [step |-> "sd_close", h |-> h, e |-> e, slot |-> s]]
         \/ /\ refcount[s] > 1 /\ UNCHANGED call
            /\ startAddr' = [startAddr EXCEPT ![h] = Nothing]
  BY <1>1, <1>3, <1>4 DEF StartClose
<1> QED  BY <1>1, <1>3, <1>5

(* custom_read_prio_impl up to SD_read meets none of its assertions.       *)
LEMMA SeekOutcome ==
  ASSUME DvdAssumption, Discipline, TInv,
         NEW t \in Threads, NEW h \in FileInfos, NEW at \in Offsets,
         StartRead(t, h, at)
  PROVE  \E e \in Entries, s \in Slots :
           /\ MayStart(t, "sd_read", h, e) /\ startAddr[h] = e
           /\ fileInfo[e] = s /\ Seek(s, at) /\ Cross(t, e)
           /\ call' = [call EXCEPT ![t] =
                [step |-> "sd_read", h |-> h, e |-> e, slot |-> s, at |-> at]]
           /\ UNCHANGED <<fileInfo, refcount, slotFile, startAddr, got, halt>>
<1> USE DvdAssumption
<1>1. PICK e \in Entries : startAddr[h] = e /\ MayStart(t, "sd_read", h, e)
  BY DEF StartRead
<1>2. \A u \in Busy : call[u].h # h
  BY <1>1, NothingOverlaps
<1>3. PICK s \in Slots : fileInfo[e] = s
  BY <1>1, <1>2, OpenHandle
<1>4. slotFile[s] = e /\ s # Nothing /\ e # Nothing
  BY <1>1, <1>2, <1>3, OpenHandle DEF DvdAssumption
<1>5. /\ Seek(s, at) /\ Cross(t, e)
      /\ call' = [call EXCEPT ![t] =
           [step |-> "sd_read", h |-> h, e |-> e, slot |-> s, at |-> at]]
      /\ UNCHANGED <<fileInfo, refcount, slotFile, startAddr, got, halt>>
  BY <1>1, <1>3, <1>4 DEF StartRead
<1> QED  BY <1>1, <1>3, <1>5

LEMMA TNextInv ==
  ASSUME DvdAssumption, ThreadsAssumption, Discipline, TInv, [TNext]_tvars
  PROVE  TInv'
<1>1. ASSUME NEW t \in Threads, NEW h \in FileInfos, NEW e \in Entries,
             StartOpen(t, h, e)
      PROVE  TInv'
  <2>1. /\ MayStart(t, "sd_open", h, e) /\ startAddr[h] = Nothing
        /\ UNCHANGED <<pos, crossed>>
    BY <1>1 DEF StartOpen
  <2>2. CASE /\ ReuseSlot(e)
             /\ startAddr' = [startAddr EXCEPT ![h] = e]
             /\ UNCHANGED <<got, halt, call>>
    BY <2>1, <2>2, OpenReuseInv, DvdAssumption
  <2>3. CASE /\ fileInfo[e] = Nothing /\ FreeSlots # {} /\ ReserveSlot(AllocSlot)
             /\ call' = [call EXCEPT ![t] =
                  [step |-> "sd_open", h |-> h, e |-> e, slot |-> AllocSlot]]
             /\ UNCHANGED <<fileInfo, slotFile, startAddr, got, halt>>
    BY <2>1, <2>3, OpenTakeInv, DvdAssumption, ThreadsAssumption
  <2>4. CASE Fatal("too_many_files") /\ UNCHANGED call
    BY <2>1, <2>4, TStopInv DEF Fatal, NoBugHalt
  <2> QED  BY <1>1, <2>2, <2>3, <2>4 DEF StartOpen
<1>2. ASSUME NEW t \in Threads, NEW h \in FileInfos, StartClose(t, h)
      PROVE  TInv'
  BY <1>2, CloseOutcome, CloseLastInv, CloseSharedInv, DvdAssumption,
     ThreadsAssumption
<1>3. ASSUME NEW t \in Threads, NEW h \in FileInfos, NEW at \in Offsets,
             StartRead(t, h, at)
      PROVE  TInv'
  BY <1>3, SeekOutcome, StartReadInv, DvdAssumption, ThreadsAssumption
<1>4. ASSUME NEW t \in Threads, FinishOpen(t) \/ FinishClose(t) \/ FinishRead(t)
      PROVE  TInv'
  BY <1>4, FinishOpenInv, FinishCloseInv, FinishReadInv, DvdAssumption,
     ThreadsAssumption
<1>5. CASE UNCHANGED tvars
  BY <1>5, TStopInv DEF tvars, vars, TInv, NoBugHalt
<1> QED  BY <1>1, <1>2, <1>3, <1>4, <1>5 DEF TNext, TStopped

(* As long as the game keeps apart the opens of one file, and closes from  *)
(* opens, a read that no other read of its file overlaps gets the bytes it *)
(* asked for, whatever opens, closes and other reads come between the seek *)
(* and the read of dvd.c:350 and 355, which are two SD calls.              *)
THEOREM OverlappingReadsTrue ==
  ASSUME Discipline
  PROVE  TSpec => []ReadsAtOffset
<1>1. TInit => TInv
  BY TInitInv, DvdAssumption, ThreadsAssumption
<1>2. TInv /\ [TNext]_tvars => TInv'
  BY TNextInv, DvdAssumption, ThreadsAssumption
<1>3. TInv => ReadsAtOffset
  BY DEF TInv
<1> QED  BY <1>1, <1>2, <1>3, PTL DEF TSpec

(* Then too the FILE_STRUCT of an open file stays in use until its last close,  *)
(* which run dvd_close_open refutes for closes that overlap opens          *)
(* (dvd.c:88-91).                                                          *)
THEOREM OverlappingFilesReadable ==
  ASSUME Discipline
  PROVE  TSpec => []OpenFilesReadable
<1>1. TInit => TInv
  BY TInitInv, DvdAssumption, ThreadsAssumption
<1>2. TInv /\ [TNext]_tvars => TInv'
  BY TNextInv, DvdAssumption, ThreadsAssumption
<1>3. TInv => OpenFilesReadable
  BY DEF TInv, NoBugHalt, OpenFilesReadable
<1> QED  BY <1>1, <1>2, <1>3, PTL DEF TSpec
-----------------------------------------------------------------------------
(* What the refinement mapping makes of the calls under way.               *)
OpenedOnAll == Opened = [h \in FileInfos |-> Opened[h]]

OpenedIs ==
  /\ \A t \in Busy : call[t].step = "sd_open" => Opened[call[t].h] = call[t].e
  /\ \A t \in Busy : call[t].step = "sd_close" => Opened[call[t].h] = Nothing
  /\ \A h \in FileInfos :
       (\A t \in Busy : call[t].h = h => call[t].step = "sd_read") =>
         Opened[h] = startAddr[h]
  /\ OpenedOnAll

LEMMA OpenedMeans == TTypes /\ KeptApart => OpenedIs
<1> SUFFICES ASSUME TTypes, KeptApart PROVE OpenedIs
  OBVIOUS
<1>1. ASSUME NEW t \in Busy
      PROVE  /\ call[t].h \in FileInfos
             /\ (CHOOSE u \in Busy : call[u].h = call[t].h) = t
  <2>1. \A u \in Busy : call[u].h = call[t].h => u = t
    BY DEF KeptApart
  <2>2. call[t].h \in FileInfos  BY CallParts
  <2> QED  BY <2>1, <2>2
<1>2. ASSUME NEW t \in Busy, call[t].step = "sd_open"
      PROVE  Opened[call[t].h] = call[t].e
  BY <1>1, <1>2 DEF Opened
<1>3. ASSUME NEW t \in Busy, call[t].step = "sd_close"
      PROVE  Opened[call[t].h] = Nothing
  <2>1. ~ \E u \in Busy : call[u].h = call[t].h /\ call[u].step = "sd_open"
    BY <1>3 DEF KeptApart
  <2> QED  BY <1>1, <1>3, <2>1 DEF Opened
<1>4. ASSUME NEW h \in FileInfos,
             \A t \in Busy : call[t].h = h => call[t].step = "sd_read"
      PROVE  Opened[h] = startAddr[h]
  <2>1. ~ \E t \in Busy : call[t].h = h /\ call[t].step = "sd_open"
    BY <1>4
  <2>2. ~ \E t \in Busy : call[t].h = h /\ call[t].step = "sd_close"
    BY <1>4
  <2> QED  BY <2>1, <2>2 DEF Opened
<1>5. OpenedOnAll
  BY DEF Opened, OpenedOnAll
<1> QED  BY <1>2, <1>3, <1>4, <1>5 DEF OpenedIs

LEMMA OpenedMeansNext == (TTypes /\ KeptApart => OpenedIs)'
BY OpenedMeans, PTL

LEMMA OpenedBoth == ASSUME TInv, TInv' PROVE OpenedIs /\ OpenedIs'
BY OpenedMeans, OpenedMeansNext DEF TInv

(* An open file with no last close under way is open for the FileInfos     *)
(* that startAddr says; one that is being closed is open for none.         *)
LEMMA CountsOpened == DvdAssumption /\ TInv => RefcountFollowsCalls
<1> SUFFICES ASSUME DvdAssumption, TInv, NEW e \in Entries,
                    fileInfo[e] # Nothing
             PROVE  refcount[fileInfo[e]] =
                      Cardinality({h \in FileInfos : Opened[h] = e})
  BY DEF RefcountFollowsCalls
<1>1. OpenedIs  BY OpenedMeans DEF TInv
<1>2. e # Nothing  BY DEF DvdAssumption
<1>3. ASSUME NEW t \in Busy
      PROVE  /\ call[t].h \in FileInfos /\ call[t].e \in Entries
             /\ call[t].step \in {"sd_open", "sd_close", "sd_read"}
             /\ call[t].step = "sd_open" => call[t].e # e
             /\ call[t].step = "sd_close" => startAddr[call[t].h] = call[t].e
  BY CallParts DEF TInv, CallsTrue, OpenTrue, CloseTrue, HandlesOn
<1>4. ASSUME NEW h \in FileInfos, Opened[h] # startAddr[h]
      PROVE  \E t \in Busy : /\ call[t].h = h
                              /\ call[t].step \in {"sd_open", "sd_close"}
  BY <1>1, <1>3, <1>4 DEF OpenedIs
<1>5. ASSUME ClosingOn(e)
      PROVE  refcount[fileInfo[e]] = Cardinality({h \in FileInfos : Opened[h] = e})
  <2>1. PICK t \in Busy : call[t].e = e /\ call[t].step = "sd_close"
    BY <1>5 DEF ClosingOn
  <2>2. refcount[fileInfo[e]] = 0 /\ HandlesOn(e) = {call[t].h}
    BY <2>1 DEF TInv, CallsTrue, CloseTrue
  <2>3. Opened[call[t].h] = Nothing  BY <1>1, <2>1 DEF OpenedIs
  <2>4. ASSUME NEW h \in FileInfos, Opened[h] = e PROVE FALSE
    <3>1. h # call[t].h  BY <1>2, <2>3, <2>4
    <3>2. startAddr[h] # e  BY <2>2, <3>1 DEF HandlesOn
    <3>3. PICK u \in Busy : /\ call[u].h = h
                            /\ call[u].step \in {"sd_open", "sd_close"}
      BY <1>4, <2>4, <3>2
    <3> QED  BY <1>1, <1>2, <1>3, <2>4, <3>3 DEF OpenedIs
  <2>5. {h \in FileInfos : Opened[h] = e} = {}  BY <2>4
  <2> QED  BY <2>2, <2>5, FS_EmptySet
<1>6. ASSUME ~ClosingOn(e)
      PROVE  refcount[fileInfo[e]] = Cardinality({h \in FileInfos : Opened[h] = e})
  <2>1. refcount[fileInfo[e]] = Cardinality(HandlesOn(e))
    BY <1>6 DEF TInv, Counted
  <2>2. ASSUME NEW h \in FileInfos PROVE Opened[h] = e <=> startAddr[h] = e
    <3>1. CASE Opened[h] = startAddr[h]
      BY <3>1
    <3>2. CASE Opened[h] # startAddr[h]
      <4>1. PICK t \in Busy : /\ call[t].h = h
                              /\ call[t].step \in {"sd_open", "sd_close"}
        BY <1>4, <3>2
      <4>2. call[t].step = "sd_open" => startAddr[h] = Nothing /\ Opened[h] # e
        BY <1>1, <1>3, <4>1 DEF OpenedIs, TInv, CallsTrue, OpenTrue
      <4>3. call[t].step = "sd_close" => startAddr[h] # e /\ Opened[h] = Nothing
        BY <1>1, <1>3, <1>6, <4>1 DEF OpenedIs, ClosingOn
      <4> QED  BY <1>2, <4>1, <4>2, <4>3
    <3> QED  BY <3>1, <3>2
  <2>3. {h \in FileInfos : Opened[h] = e} = HandlesOn(e)
    BY <2>2 DEF HandlesOn
  <2> QED  BY <2>1, <2>3
<1> QED  BY <1>5, <1>6

(* As long as the game keeps apart the opens of one file, and closes from  *)
(* opens, the counts follow the calls of all threads (dvd.c:232, 391).     *)
THEOREM OverlappingCountsExact ==
  ASSUME Discipline
  PROVE  TSpec => []RefcountFollowsCalls
<1>1. TInit => TInv
  BY TInitInv, DvdAssumption, ThreadsAssumption
<1>2. TInv /\ [TNext]_tvars => TInv'
  BY TNextInv, DvdAssumption, ThreadsAssumption
<1>3. TInv => RefcountFollowsCalls
  BY CountsOpened, DvdAssumption
<1> QED  BY <1>1, <1>2, <1>3, PTL DEF TSpec

(* A FileInfo whose own opens and closes do not change.                    *)
LEMMA OpenedElsewhere ==
  ASSUME TTypes, OpenedIs, OpenedIs', NEW g \in FileInfos,
         startAddr'[g] = startAddr[g],
         \A t \in Busy : call[t].h = g /\ call[t].step # "sd_read" =>
           t \in Busy' /\ call'[t] = call[t],
         \A t \in Busy' : call'[t].h = g /\ call'[t].step # "sd_read" =>
           t \in Busy /\ call'[t] = call[t]
  PROVE  Opened'[g] = Opened[g]
<1>1. \A t \in Busy : call[t].step \in {"sd_open", "sd_close", "sd_read"}
  BY CallParts
<1>2. CASE \E t \in Busy : call[t].h = g /\ call[t].step = "sd_open"
  BY <1>2 DEF OpenedIs
<1>3. CASE \E t \in Busy : call[t].h = g /\ call[t].step = "sd_close"
  BY <1>3 DEF OpenedIs
<1>4. CASE \A t \in Busy : call[t].h = g => call[t].step = "sd_read"
  <2>1. \A t \in Busy' : call'[t].h = g => call'[t].step = "sd_read"
    BY <1>4
  <2> QED  BY <1>4, <2>1 DEF OpenedIs
<1> QED  BY <1>1, <1>2, <1>3, <1>4

(* While no close is under way, the files in use are those with a slot and *)
(* those whose open has reserved one: as many as there are slots taken.    *)
LEMMA FilesInUse ==
  ASSUME DvdAssumption, TInv,
         ~ \E t \in Busy : call[t].step = "sd_close", NEW e \in Entries
  PROVE  e \in TAbs!InUse <=>
           \/ fileInfo[e] # Nothing
           \/ \E t \in Busy : call[t].step = "sd_open" /\ call[t].e = e
<1>1. OpenedIs /\ \A t \in Busy : /\ call[t].step \in {"sd_open", "sd_read"}
                                  /\ call[t].h \in FileInfos
  BY OpenedMeans, CallParts DEF TInv
<1>2. ASSUME NEW h \in FileInfos, Opened[h] = e
      PROVE  \/ fileInfo[e] # Nothing
             \/ \E t \in Busy : call[t].step = "sd_open" /\ call[t].e = e
  <2>1. CASE \E t \in Busy : call[t].h = h /\ call[t].step = "sd_open"
    BY <1>1, <1>2, <2>1 DEF OpenedIs
  <2>2. CASE \A t \in Busy : call[t].h = h => call[t].step = "sd_read"
    BY <1>1, <1>2, <2>2 DEF OpenedIs, TInv, OpenHandlesBacked
  <2> QED  BY <1>1, <2>1, <2>2
<1>3. ASSUME fileInfo[e] # Nothing PROVE \E h \in FileInfos : Opened[h] = e
  <2>1. PICK h \in FileInfos : startAddr[h] = e
    BY <1>3 DEF TInv, Counted, ClosingOn, HandlesOn
  <2>2. \A t \in Busy : call[t].h = h => call[t].step = "sd_read"
    <3>1. ASSUME NEW t \in Busy, call[t].h = h, call[t].step = "sd_open"
          PROVE  FALSE
      <4>1. fileInfo[call[t].e] = Nothing /\ startAddr[h] = Nothing
        BY <3>1 DEF TInv, CallsTrue, OpenTrue
      <4> QED  BY <2>1, <4>1 DEF DvdAssumption
    <3> QED  BY <1>1, <3>1
  <2> QED  BY <1>1, <2>1, <2>2 DEF OpenedIs
<1>4. ASSUME NEW t \in Busy, call[t].step = "sd_open", call[t].e = e
      PROVE  \E h \in FileInfos : Opened[h] = e
  BY <1>1, <1>4 DEF OpenedIs
<1> QED  BY <1>2, <1>3, <1>4 DEF TAbs!InUse

LEMMA SlotsInUse ==
  ASSUME DvdAssumption, TInv, ~ \E t \in Busy : call[t].step = "sd_close"
  PROVE  /\ Cardinality(TAbs!InUse) \in Nat
         /\ Cardinality(TAbs!InUse) <= MaxFiles
         /\ Cardinality(TAbs!InUse) = MaxFiles <=> FreeSlots = {}
<1> USE DvdAssumption
<1> DEFINE Opens(e) == {t \in Busy : call[t].step = "sd_open" /\ call[t].e = e}
           f == [e \in TAbs!InUse |->
                   IF fileInfo[e] # Nothing THEN fileInfo[e]
                   ELSE call[CHOOSE t \in Opens(e) : TRUE].slot]
<1>1. \A e \in TAbs!InUse : e \in Entries
  BY DEF TAbs!InUse
<1>2. ASSUME NEW e \in TAbs!InUse, fileInfo[e] = Nothing
      PROVE  \E t \in Opens(e) : f[e] = call[t].slot /\ f[e] \in Slots
  <2>1. Opens(e) # {}
    BY <1>1, <1>2, FilesInUse
  <2>2. PICK t \in Opens(e) : t = CHOOSE u \in Opens(e) : TRUE
    BY <2>1
  <2>3. f[e] = call[t].slot
    BY <1>2, <2>2
  <2> QED  BY <2>3, CallParts DEF TInv
<1>3. ASSUME NEW e \in TAbs!InUse, fileInfo[e] # Nothing
      PROVE  f[e] = fileInfo[e] /\ f[e] \in Slots
  BY <1>1, <1>3 DEF TInv, TTypes
<1>4. DOMAIN f = TAbs!InUse /\ f \in [TAbs!InUse -> Slots]
  BY <1>2, <1>3
<1> HIDE DEF f
<1>5. \A a, b \in TAbs!InUse : f[a] = f[b] => a = b
  <2>1. ASSUME NEW a \in TAbs!InUse, NEW b \in TAbs!InUse, f[a] = f[b],
               fileInfo[a] # Nothing, fileInfo[b] # Nothing
        PROVE  a = b
    BY <1>1, <1>3, <2>1, FilesApart
  <2>2. ASSUME NEW a \in TAbs!InUse, NEW b \in TAbs!InUse,
               fileInfo[a] # Nothing, fileInfo[b] = Nothing
        PROVE  f[a] # f[b]
    <3>1. PICK t \in Opens(b) : f[b] = call[t].slot
      BY <1>2, <2>2
    <3>2. fileInfo[a] # call[t].slot
      BY <1>1, <3>1 DEF TInv, CallsTrue, OpenTrue
    <3> QED  BY <1>3, <2>2, <3>1, <3>2
  <2>3. ASSUME NEW a \in TAbs!InUse, NEW b \in TAbs!InUse, f[a] = f[b],
               fileInfo[a] = Nothing, fileInfo[b] = Nothing
        PROVE  a = b
    <3>1. PICK t \in Opens(a) : f[a] = call[t].slot
      BY <1>2, <2>3
    <3>2. PICK u \in Opens(b) : f[b] = call[u].slot
      BY <1>2, <2>3
    <3>3. t = u
      BY <2>3, <3>1, <3>2 DEF TInv, SlotsApart
    <3> QED  BY <3>3
  <2> QED  BY <2>1, <2>2, <2>3
<1>6. f \in Injection(TAbs!InUse, Slots)
  BY <1>4, <1>5 DEF Injection, IsInjective
<1>7. IsFiniteSet(Slots) /\ Cardinality(Slots) = MaxFiles
  BY FS_Interval DEF Slots, DvdAssumption
<1>8. /\ IsFiniteSet(TAbs!InUse)
      /\ Cardinality(TAbs!InUse) <= Cardinality(Slots)
      /\ Cardinality(TAbs!InUse) = Cardinality(Slots) <=>
           f \in Surjection(TAbs!InUse, Slots)
  BY <1>6, <1>7, FS_Injection
<1>9. \A s \in Slots : s \notin FreeSlots <=> \E e \in TAbs!InUse : f[e] = s
  <2>1. ASSUME NEW s \in Slots, s \notin FreeSlots
        PROVE  \E e \in TAbs!InUse : f[e] = s
    <3>1. refcount[s] > 0
      BY <2>1 DEF FreeSlots, TInv, TTypes
    <3>2. CASE \E e \in Entries : fileInfo[e] = s
      <4>1. PICK e \in Entries : fileInfo[e] = s  BY <3>2
      <4>2. fileInfo[e] # Nothing  BY <4>1 DEF DvdAssumption
      <4>3. e \in TAbs!InUse  BY <4>2, FilesInUse
      <4> QED  BY <1>3, <4>1, <4>2, <4>3
    <3>3. CASE \E t \in Busy : call[t].step = "sd_open" /\ call[t].slot = s
      <4>1. PICK t \in Busy : call[t].step = "sd_open" /\ call[t].slot = s
        BY <3>3
      <4>2. PICK e \in Entries : call[t].e = e
        BY CallParts DEF TInv
      <4>3. e \in TAbs!InUse  BY <4>1, <4>2, FilesInUse
      <4>4. fileInfo[e] = Nothing
        BY <4>1, <4>2 DEF TInv, CallsTrue, OpenTrue
      <4>5. PICK u \in Opens(e) : f[e] = call[u].slot
        BY <1>2, <4>3, <4>4
      <4>6. u = t
        BY <4>1, <4>2 DEF TInv, KeptApart
      <4> QED  BY <4>1, <4>3, <4>5, <4>6
    <3> QED  BY <3>1, <3>2, <3>3 DEF TInv, CountedSlotsInUse
  <2>2. ASSUME NEW e \in TAbs!InUse PROVE f[e] \notin FreeSlots
    <3>1. CASE fileInfo[e] = Nothing
      <4>1. PICK t \in Opens(e) : f[e] = call[t].slot
        BY <1>2, <3>1
      <4>2. refcount[f[e]] = 1
        BY <4>1 DEF TInv, CallsTrue, OpenTrue
      <4> QED  BY <4>2 DEF FreeSlots
    <3>2. CASE fileInfo[e] # Nothing
      <4>1. /\ refcount[f[e]] = Cardinality(HandlesOn(e))
            /\ HandlesOn(e) # {}
        BY <1>1, <1>3, <3>2 DEF TInv, Counted, ClosingOn
      <4> QED  BY <4>1, HandlesFinite DEF FreeSlots
    <3> QED  BY <3>1, <3>2
  <2> QED  BY <2>1, <2>2
<1>10. f \in Surjection(TAbs!InUse, Slots) <=> FreeSlots = {}
  BY <1>4, <1>9 DEF Surjection, FreeSlots
<1> QED  BY <1>7, <1>8, <1>10, FS_CardinalityType
-----------------------------------------------------------------------------
(* An open, once it has a slot, is an open of RteDvdAbs.                   *)
LEMMA OpenedAbs ==
  ASSUME DvdAssumption, Discipline, TInv, TInv',
         NEW t \in Threads, NEW h \in FileInfos, NEW e \in Entries,
         MayStart(t, "sd_open", h, e), startAddr[h] = Nothing,
         fileInfo[e] = Nothing => FreeSlots # {},
         Opened'[h] = e,
         \A g \in FileInfos \ {h} : Opened'[g] = Opened[g],
         UNCHANGED <<got, halt>>
  PROVE  TAbs!Next
<1>1. /\ halt = "running"
      /\ \A u \in Busy : call[u].h # h /\ call[u].step # "sd_close"
  BY NothingOverlaps
<1>2. OpenedIs /\ OpenedIs'  BY OpenedBoth
<1>3. Opened[h] = Nothing
  BY <1>1, <1>2 DEF OpenedIs
<1>4. Opened' = [Opened EXCEPT ![h] = e]
  BY <1>2 DEF OpenedIs, OpenedOnAll
<1>5. e \notin TAbs!InUse => TAbs!Cardinality(TAbs!InUse) < MaxFiles
  <2>1. \A S : TAbs!Cardinality(S) = Cardinality(S)
    BY DEF TAbs!Cardinality, Cardinality
  <2>2. e \notin TAbs!InUse => FreeSlots # {}
    BY <1>1, FilesInUse
  <2> QED  BY <1>1, <2>1, <2>2, SlotsInUse DEF DvdAssumption
<1>6. TAbs!Open(h, e)
  BY <1>3, <1>4, <1>5 DEF TAbs!Open
<1> QED  BY <1>1, <1>6 DEF TAbs!Next

LEMMA StartOpenAbs ==
  ASSUME DvdAssumption, ThreadsAssumption, Discipline, TInv, TInv',
         NEW t \in Threads, NEW h \in FileInfos, NEW e \in Entries,
         StartOpen(t, h, e)
  PROVE  TAbs!Next
<1>1. /\ MayStart(t, "sd_open", h, e) /\ startAddr[h] = Nothing
      /\ halt = "running" /\ t \in Threads \ Busy
      /\ \A u \in Busy : /\ call[u].h # h /\ call[u].step # "sd_close"
                         /\ call[u].step = "sd_open" => call[u].e # e
  BY NothingOverlaps DEF StartOpen
<1>2. OpenedIs /\ OpenedIs' /\ TTypes  BY OpenedBoth DEF TInv
<1>3. CASE /\ ReuseSlot(e)
           /\ startAddr' = [startAddr EXCEPT ![h] = e]
           /\ UNCHANGED <<got, halt, call>>
  <2>1. Busy' = Busy /\ call' = call  BY <1>3 DEF Busy
  <2>2. startAddr'[h] = e /\ \A g \in FileInfos \ {h} : startAddr'[g] = startAddr[g]
    BY <1>2, <1>3 DEF TTypes
  <2>3. Opened'[h] = e
    BY <1>1, <1>2, <2>1, <2>2 DEF OpenedIs
  <2>4. \A g \in FileInfos \ {h} : Opened'[g] = Opened[g]
    BY <1>2, <2>1, <2>2, OpenedElsewhere
  <2>5. fileInfo[e] # Nothing  BY <1>3 DEF ReuseSlot
  <2> QED  BY <1>1, <1>3, <2>3, <2>4, <2>5, OpenedAbs
<1>4. CASE /\ fileInfo[e] = Nothing /\ FreeSlots # {}
           /\ call' = [call EXCEPT ![t] =
                [step |-> "sd_open", h |-> h, e |-> e, slot |-> AllocSlot]]
           /\ UNCHANGED <<startAddr, got, halt>>
  <2> DEFINE c == [step |-> "sd_open", h |-> h, e |-> e, slot |-> AllocSlot]
  <2>1. c \in Calls /\ c.step = "sd_open" /\ c.h = h /\ c.e = e
    BY <1>4, AllocSlotFree DEF Calls, FreeSlots
  <2>2. call' = [call EXCEPT ![t] = c]  BY <1>4
  <2> HIDE DEF c
  <2>3. /\ Busy' = Busy \cup {t} /\ call'[t] = c
        /\ \A u \in Busy : call'[u] = call[u]
    BY <1>1, <1>2, <2>1, <2>2, EnterCall
  <2>4. Opened'[h] = e
    BY <1>2, <2>1, <2>3 DEF OpenedIs
  <2>5. \A g \in FileInfos \ {h} : Opened'[g] = Opened[g]
    BY <1>2, <1>4, <2>1, <2>3, OpenedElsewhere
  <2> QED  BY <1>1, <1>4, <2>4, <2>5, OpenedAbs
<1>5. CASE /\ fileInfo[e] = Nothing /\ FreeSlots = {} /\ Fatal("too_many_files")
           /\ UNCHANGED call
  <2>1. e \in Entries \ TAbs!InUse
    BY <1>1, <1>5, FilesInUse
  <2>2. TAbs!Cardinality(TAbs!InUse) = MaxFiles
    <3>1. \A S : TAbs!Cardinality(S) = Cardinality(S)
      BY DEF TAbs!Cardinality, Cardinality
    <3> QED  BY <1>1, <1>5, <3>1, SlotsInUse
  <2>3. Opened' = Opened /\ got' = got /\ halt' = "too_many_files"
    BY <1>5 DEF Fatal, Opened, Busy
  <2> QED  BY <1>1, <2>1, <2>2, <2>3 DEF TAbs!Next, TAbs!TooManyFiles
<1> QED  BY <1>3, <1>4, <1>5 DEF StartOpen

(* A close counts as done once its file is given up.                       *)
LEMMA StartCloseAbs ==
  ASSUME DvdAssumption, ThreadsAssumption, Discipline, TInv, TInv',
         NEW t \in Threads, NEW h \in FileInfos, StartClose(t, h)
  PROVE  TAbs!Next
<1>1. PICK e \in Entries, s \in Slots :
        /\ MayStart(t, "sd_close", h, e) /\ startAddr[h] = e
        /\ UNCHANGED <<got, halt>>
        /\ \/ /\ UNCHANGED startAddr
              /\ call' = [call EXCEPT ![t] =
                   [step |-> "sd_close", h |-> h, e |-> e, slot |-> s]]
           \/ /\ UNCHANGED call
              /\ startAddr' = [startAddr EXCEPT ![h] = Nothing]
  BY CloseOutcome
<1>2. /\ halt = "running" /\ t \in Threads \ Busy
      /\ \A u \in Busy : call[u].h # h
  BY <1>1, NothingOverlaps
<1>3. OpenedIs /\ OpenedIs' /\ TTypes  BY OpenedBoth DEF TInv
<1>4. Opened'[h] = Nothing /\ \A g \in FileInfos \ {h} : Opened'[g] = Opened[g]
  <2>1. CASE /\ UNCHANGED startAddr
             /\ call' = [call EXCEPT ![t] =
                  [step |-> "sd_close", h |-> h, e |-> e, slot |-> s]]
    <3> DEFINE c == [step |-> "sd_close", h |-> h, e |-> e, slot |-> s]
    <3>1. c \in Calls /\ c.step = "sd_close" /\ c.h = h
      BY DEF Calls
    <3>2. call' = [call EXCEPT ![t] = c]  BY <2>1
    <3> HIDE DEF c
    <3>3. /\ Busy' = Busy \cup {t} /\ call'[t] = c
          /\ \A u \in Busy : call'[u] = call[u]
      BY <1>2, <1>3, <3>1, <3>2, EnterCall
    <3>4. Opened'[h] = Nothing
      BY <1>3, <3>1, <3>3 DEF OpenedIs
    <3> QED  BY <1>3, <2>1, <3>1, <3>3, <3>4, OpenedElsewhere
  <2>2. CASE /\ UNCHANGED call
             /\ startAddr' = [startAddr EXCEPT ![h] = Nothing]
    <3>1. Busy' = Busy /\ call' = call  BY <2>2 DEF Busy
    <3>2. /\ startAddr'[h] = Nothing
          /\ \A g \in FileInfos \ {h} : startAddr'[g] = startAddr[g]
      BY <1>3, <2>2 DEF TTypes
    <3>3. Opened'[h] = Nothing
      BY <1>2, <1>3, <3>1, <3>2 DEF OpenedIs
    <3> QED  BY <1>3, <3>1, <3>2, <3>3, OpenedElsewhere
  <2> QED  BY <1>1, <2>1, <2>2
<1>5. Opened' = [Opened EXCEPT ![h] = Nothing]
  BY <1>3, <1>4 DEF OpenedIs, OpenedOnAll
<1> QED  BY <1>1, <1>2, <1>5 DEF TAbs!Next, TAbs!Close

(* SD_open and SD_close return, and a read starts, unseen by RteDvdAbs.    *)
LEMMA QuietAbs ==
  ASSUME DvdAssumption, ThreadsAssumption, Discipline, TInv, TInv',
         NEW t \in Threads,
         \/ FinishOpen(t) \/ FinishClose(t)
         \/ \E h \in FileInfos, at \in Offsets : StartRead(t, h, at)
  PROVE  UNCHANGED TAbs!vars
<1>1. OpenedIs /\ OpenedIs' /\ TTypes /\ TTypes'  BY OpenedBoth DEF TInv
<1>2. ASSUME FinishOpen(t) \/ FinishClose(t)
      PROVE  Opened' = Opened /\ got' = got /\ halt' = halt
  <2>1. t \in Busy /\ call[t].step \in {"sd_open", "sd_close"} /\ Return(t)
    BY <1>2 DEF FinishOpen, FinishClose
  <2>2. PICK h \in FileInfos, e \in Entries :
          call[t].h = h /\ call[t].e = e
    BY <1>1, <2>1, CallParts
  <2>3. Busy' = Busy \ {t} /\ \A u \in Busy \ {t} : call'[u] = call[u]
    BY <1>1, <2>1, LeaveCall
  <2>4. \A u \in Busy \ {t} : call[u].h # h
    BY <2>1, <2>2 DEF TInv, KeptApart
  <2>5. \A g \in FileInfos \ {h} : startAddr'[g] = startAddr[g]
    BY <1>1, <1>2, <2>2 DEF FinishOpen, FinishClose, TTypes
  <2>6. startAddr'[h] = Opened[h]
    <3>1. CASE FinishOpen(t)
      BY <1>1, <2>1, <2>2, <3>1 DEF FinishOpen, OpenedIs, TTypes
    <3>2. CASE FinishClose(t)
      BY <1>1, <2>1, <2>2, <3>2 DEF FinishClose, OpenedIs, TTypes
    <3> QED  BY <1>2, <3>1, <3>2
  <2>7. Opened'[h] = startAddr'[h]
    BY <1>1, <2>3, <2>4 DEF OpenedIs
  <2>8. \A g \in FileInfos \ {h} : Opened'[g] = Opened[g]
    BY <1>1, <2>1, <2>2, <2>3, <2>5, OpenedElsewhere
  <2>9. Opened' = Opened
    BY <1>1, <2>6, <2>7, <2>8 DEF OpenedIs, OpenedOnAll
  <2> QED  BY <1>2, <2>9 DEF FinishOpen, FinishClose
<1>3. ASSUME NEW h \in FileInfos, NEW at \in Offsets, StartRead(t, h, at)
      PROVE  Opened' = Opened /\ got' = got /\ halt' = halt
  <2>1. PICK e \in Entries, s \in Slots :
          /\ MayStart(t, "sd_read", h, e)
          /\ call' = [call EXCEPT ![t] =
               [step |-> "sd_read", h |-> h, e |-> e, slot |-> s, at |-> at]]
          /\ UNCHANGED <<startAddr, got, halt>>
    BY <1>3, SeekOutcome
  <2> DEFINE c == [step |-> "sd_read", h |-> h, e |-> e, slot |-> s, at |-> at]
  <2>2. c \in Calls /\ c.step = "sd_read"
    BY DEF Calls
  <2>3. call' = [call EXCEPT ![t] = c] /\ t \notin Busy
    BY <2>1, NothingOverlaps
  <2> HIDE DEF c
  <2>4. /\ Busy' = Busy \cup {t} /\ call'[t] = c
        /\ \A u \in Busy : call'[u] = call[u]
    BY <1>1, <2>2, <2>3, EnterCall
  <2>5. \A g \in FileInfos : Opened'[g] = Opened[g]
    BY <1>1, <2>1, <2>2, <2>4, OpenedElsewhere
  <2> QED  BY <1>1, <2>1, <2>5 DEF OpenedIs, OpenedOnAll
<1> QED  BY <1>2, <1>3 DEF TAbs!vars

(* SD_read returns: the FileInfo got its own file's bytes.                 *)
LEMMA FinishReadAbs ==
  ASSUME DvdAssumption, ThreadsAssumption, TInv, TInv',
         NEW t \in Threads, FinishRead(t)
  PROVE  TAbs!Next
<1>1. PICK h \in FileInfos, e \in Entries, s \in Slots, at \in Offsets :
        /\ t \in Busy /\ halt = "running" /\ startAddr[h] = e
        /\ call[t].step = "sd_read"
        /\ call[t].h = h /\ call[t].e = e
        /\ call[t].slot = s /\ call[t].at = at
        /\ fileInfo[e] = s
        /\ got' = [h |-> h, want |-> <<e, at>>, read |-> <<e, pos[s]>>,
                    crossed |-> t \in crossed]
        /\ pos' = [pos EXCEPT ![s] = @ + 1]
        /\ UNCHANGED <<fileInfo, refcount, slotFile, startAddr, halt>>
        /\ Return(t)
  BY ReadOutcome
<1>2. OpenedIs /\ OpenedIs' /\ TTypes  BY OpenedBoth DEF TInv
<1>3. Busy' = Busy \ {t} /\ \A u \in Busy \ {t} : call'[u] = call[u]
  BY <1>1, <1>2, LeaveCall
<1>4. \A g \in FileInfos : Opened'[g] = Opened[g]
  BY <1>1, <1>2, <1>3, OpenedElsewhere
<1>5. Opened' = Opened
  BY <1>2, <1>4 DEF OpenedIs, OpenedOnAll
<1>6. Opened[h] = e
  <2>1. \A u \in Busy : call[u].h = h => call[u].step = "sd_read"
    BY <1>1 DEF TInv, KeptApart
  <2> QED  BY <1>1, <1>2, <2>1 DEF OpenedIs
<1>7. got' # Nothing /\ got'.h = h /\ got'.read[1] = e
  <2>1. pos[s] \in Nat /\ at \in Nat /\ (t \in crossed) \in BOOLEAN
    BY <1>2, ThreadsAssumption DEF TTypes
  <2>2. got' \in Reads
    BY <1>1, <2>1 DEF Reads
  <2> QED  BY <1>1, <2>2, ThreadsAssumption
<1> QED  BY <1>1, <1>5, <1>6, <1>7 DEF TAbs!Next, TAbs!Read
LEMMA TNextAbs ==
  ASSUME DvdAssumption, ThreadsAssumption, Discipline, TInv, TInv',
         [TNext]_tvars
  PROVE  [TAbs!Next]_TAbs!vars
<1> USE DvdAssumption, ThreadsAssumption
<1>1. ASSUME NEW t \in Threads, NEW h \in FileInfos, NEW e \in Entries,
             StartOpen(t, h, e)
      PROVE  TAbs!Next
  BY <1>1, StartOpenAbs
<1>2. ASSUME NEW t \in Threads, NEW h \in FileInfos, StartClose(t, h)
      PROVE  TAbs!Next
  BY <1>2, StartCloseAbs
<1>3. ASSUME NEW t \in Threads,
             \/ FinishOpen(t) \/ FinishClose(t)
             \/ \E h \in FileInfos, at \in Offsets : StartRead(t, h, at)
      PROVE  UNCHANGED TAbs!vars
  BY <1>3, QuietAbs
<1>4. ASSUME NEW t \in Threads, FinishRead(t) PROVE TAbs!Next
  BY <1>4, FinishReadAbs
<1>5. CASE UNCHANGED tvars
  BY <1>5 DEF tvars, vars, TAbs!vars, Opened, Busy
<1> QED  BY <1>1, <1>2, <1>3, <1>4, <1>5 DEF TNext, TStopped

(* The overlapping calls keep the promise of RteDvdAbs: a FileInfo reads   *)
(* its file from its open to its own close, and the game stops only on an  *)
(* SD error or when MaxFiles files are open and one more is asked for.     *)
THEOREM OverlappingCallsImplementAbs ==
  ASSUME Discipline
  PROVE  TSpec => TAbsSpec
<1>1. TInit => TInv
  BY TInitInv, DvdAssumption, ThreadsAssumption
<1>2. TInv /\ [TNext]_tvars => TInv'
  BY TNextInv, DvdAssumption, ThreadsAssumption
<1>3. TInit => TAbs!Init
  BY DEF TInit, TAbs!Init, Opened, Busy
<1>4. TInv /\ TInv' /\ [TNext]_tvars => [TAbs!Next]_TAbs!vars
  BY TNextAbs, DvdAssumption, ThreadsAssumption
<1> QED  BY <1>1, <1>2, <1>3, <1>4, PTL DEF TSpec, TAbsSpec, TAbs!Spec
=============================================================================

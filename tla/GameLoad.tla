------------------------------ MODULE GameLoad ------------------------------
(***************************************************************************)
(* Loading the game over the launcher: main.c from "read dol" on, and      *)
(* source/loader.  What the game is given (file system table, BI2, the     *)
(* runtime extension, the tables of RiivoTable) goes to the top of MEM1,   *)
(* each thing below the one before; the game's DOL goes to a buffer, from  *)
(* which a copied function, patch_dol, moves it over the launcher.         *)
(*                                                                         *)
(* An address stands for 16 bytes, and what it holds is <<kind, detail>>.  *)
(***************************************************************************)
EXTENDS RiivoTable, Integers

CONSTANTS
  Top,          \* MEM1 is 0 .. Top - 1
  LauncherEnd,  \* the launcher's code, data and heap are below
  PatchCopy,    \* RRC_PATCH_COPY_ADDRESS: patch_dol, two functions, the stack
  CopierSize,
  DolBuffer,    \* 0x80901000
  DolSize,      \* room that the longest DOL takes there
  Dols,         \* "disc" and "pack": [sections: <<[off, addr, size]>>, bss, length]
  MainDolReads, \* how much of main.dol is read: all of it, or less on an error
  FstSizes,     \* possible sizes of the file system table
  FstFloor,     \* 0x81700000
  Bi2Size,
  RteStart,     \* RRC_RUNTIME_EXT_DOL_SAFE_START, the first mem1_hi
  RteEnd,       \* RRC_RUNTIME_EXT_DOL_SAFE_END
  RteFiles,     \* DOLs of runtime-ext: [sections, bss, current]
  TrampolineStart, \* RRC_TRAMPOLINE_START
  Trampolines,  \* base.ld: where runtime-ext calls the original functions
  RiivoDisc,    \* RRC_RIIVO_DISC_PTR
  Statics,      \* bit flags, signature and ABI version
  Hooked,       \* the game's DVD functions, in the order of rrc_dvd_function
  PulDests,     \* offsets of <memory> elements with Loader.pul
  PulSize,      \* the length of Loader.pul
  MemPatches,   \* other <memory> elements: [addr, value, original]
  MaxMemPatches, \* MAX_MEMORY_PATCHES
  PatchSize, SdFileSize, ReplacementSize, StringSize,
  Line,         \* a cache line, 32 bytes
  Word          \* alignment of the tables

VARIABLES
  mem,         \* MEM1
  mem1,        \* mem1_hi: what is from here on is taken
  stage,       \* what comes next
  patchesAt,   \* out->mem_patches
  memPatches,  \* the <memory> elements seen
  pulDest,     \* out->loader_pul_dest
  done,        \* sections copied, then memory patches applied
  arenaEnd,    \* the end of MEM1 that the game is told (0x80003110)
  kept,        \* what must still be there: a part of memory
  lost         \* reads that failed without an error

loadVars == <<mem, mem1, stage, patchesAt, memPatches, pulDest, done, arenaEnd,
              kept, lost>>
gVars == <<tableVars, loadVars>>

Regions == [at : Nat, size : Nat]
Span(b) == b.at .. b.at + b.size - 1
DolEnd == DolBuffer + DolSize
Copier(at) == at .. at + CopierSize - 1
TrampolineArea == TrampolineStart .. TrampolineStart + 2 * Len(Hooked) - 1
Scratch == TrampolineArea \cup {RiivoDisc}

(* The regions of MEM1 in their order, as the addresses in main.c,         *)
(* loader.h and base.ld have them.  That sections of the game end below    *)
(* PatchCopy and Loader.pul in its section is what loader.c:129 and        *)
(* binary_loader.c:55-58 rely on.                                          *)
ASSUME LoadAssumption ==
  /\ {LauncherEnd, CopierSize, DolSize, Bi2Size, PulSize, MaxMemPatches} \subseteq Nat
  /\ {PatchSize, SdFileSize, ReplacementSize, StringSize, Line, Word} \subseteq Nat \ {0}
  /\ {PatchCopy, DolBuffer, RteStart, RteEnd, Top, FstFloor} \subseteq Nat
  /\ LauncherEnd <= PatchCopy /\ PatchCopy + CopierSize <= DolBuffer
  /\ DolEnd <= RteStart /\ RteStart <= RteEnd /\ RteStart % Line = 0
  /\ FstSizes \subseteq Nat
  /\ RteFiles \subseteq [sections : SUBSET Regions, bss : Regions, current : BOOLEAN]
  /\ Statics \subseteq RteEnd .. Top - 1 /\ RteEnd <= Top
  /\ Hooked \in Seq(Nat)
  /\ Scratch \subseteq RteStart .. RteEnd - 1 /\ RiivoDisc \notin TrampolineArea
  /\ \A p \in MemPatches : p.addr \in 0 .. PatchCopy - 1
  /\ DOMAIN Dols = {"disc", "pack"}
  /\ MainDolReads \subseteq 0 .. Dols["pack"].length
  /\ \A d \in DOMAIN Dols :
       /\ Dols[d].length \in 1 .. DolSize
       /\ Dols[d].bss \in Regions
       /\ Dols[d].bss.at + Dols[d].bss.size <= PatchCopy
       /\ Dols[d].sections \in Seq([off : Nat \ {0}, addr : Nat, size : Nat])
       /\ \A i \in DOMAIN Dols[d].sections :
            LET s == Dols[d].sections[i] IN
            /\ s.off + s.size <= Dols[d].length
            /\ s.addr + s.size <= PatchCopy
            /\ \A a \in PulDests \cap (s.addr .. s.addr + s.size - 1) :
                 a + PulSize <= s.addr + s.size

(* The sections of a DOL share no memory and no part of the file, as       *)
(* patch_dol relies on, and base.ld puts the trampolines where             *)
(* loader.c:110 does.                                                      *)
ASSUME ImageAssumption ==
  /\ \A d \in DOMAIN Dols : \A i, j \in DOMAIN Dols[d].sections : i # j =>
       LET s == Dols[d].sections[i]
           t == Dols[d].sections[j]
       IN /\ s.addr + s.size <= t.addr \/ t.addr + t.size <= s.addr
          /\ s.off + s.size <= t.off \/ t.off + t.size <= s.off
  /\ TrampolineStart \in Nat
  /\ \A i \in DOMAIN Hooked : Trampolines[i] = TrampolineStart + 2 * (i - 1)

Zero == <<"zero", 0>>
Unused == <<"unused", 0>>

LoadInit ==
  /\ InitTables
  /\ mem = [a \in 0 .. Top - 1 |->
             IF a < LauncherEnd THEN <<"launcher", a>> ELSE Unused]
  /\ mem1 = RteStart
  /\ stage = "dol"
  /\ patchesAt = 0
  /\ memPatches = <<>>
  /\ pulDest = Nothing
  /\ done = 0
  /\ arenaEnd = 0
  /\ kept = <<>>
  /\ lost = {}

-----------------------------------------------------------------------------
(* Blocks of memory are functions of their addresses.                      *)
Over(b, m) == [a \in DOMAIN m |-> IF a \in DOMAIN b THEN b[a] ELSE m[a]]
Both(b, c) == [a \in DOMAIN b \cup DOMAIN c |-> IF a \in DOMAIN b THEN b[a] ELSE c[a]]

Put(b) == mem' = Over(b, mem)
Keep(b) == kept' = Both(kept, b)
Give(b) == Put(b) /\ Keep(b)

AlignDown(a, n) == a - (a % n)
AlignUp(a, n) == AlignDown(a + n - 1, n)

(* The game runs, or the launcher has ended.                               *)
Ended == stage \in {"game", "exit"} /\ UNCHANGED gVars

(* An assertion, a fatal error or an error of the parser, all of which end *)
(* the launcher.                                                           *)
Failing == {"dol", "fst", "bi2", "rte", "parse", "hooks", "pulsar"}
LoadFails ==
  /\ stage \in Failing
  /\ stage' = "exit"
  /\ UNCHANGED <<tableVars, mem, mem1, patchesAt, memPatches, pulDest, done,
                 arenaEnd, kept, lost>>

-----------------------------------------------------------------------------
(* main.c                                                                  *)

(* The game's DOL as it lies in the buffer: a header, then the sections.   *)
DolAt ==
  [a \in DolBuffer .. DolBuffer + Dols["disc"].length - 1 |->
     <<"dol", <<"disc", a - DolBuffer>> >>]

ReadDol ==
  /\ stage = "dol"
  /\ Put(DolAt)
  /\ stage' = "fst"
  /\ UNCHANGED <<tableVars, mem1, patchesAt, memPatches, pulDest, done, arenaEnd, kept, lost>>

ReadFst(size) ==
  LET dest == AlignDown(mem1 - size, Line) IN
  /\ stage = "fst"
  /\ dest >= FstFloor
  /\ mem1' = dest
  /\ Give([a \in dest .. dest + AlignUp(size, Line) - 1 |-> <<"fst", a - dest>>])
  /\ stage' = "bi2"
  /\ UNCHANGED <<tableVars, patchesAt, memPatches, pulDest, done, arenaEnd, lost>>

ReadBi2 ==
  LET dest == AlignDown(mem1 - Bi2Size, Line) IN
  /\ stage = "bi2"
  /\ mem1' = dest
  /\ Give([a \in dest .. dest + Bi2Size - 1 |-> <<"bi2", a - dest>>])
  /\ stage' = "rte"
  /\ UNCHANGED <<tableVars, patchesAt, memPatches, pulDest, done, arenaEnd, lost>>

-----------------------------------------------------------------------------
(* rrc_binary_load_runtime_ext                                             *)

(* ensure_section_inbounds; the sum of the u32s does not wrap for the DOLs *)
(* of runtime-ext in the packs (RteFiles).                                 *)
InBounds(b) == b.at >= RteStart /\ b.at + b.size <= RteEnd

RteImage(r) ==
  Both([a \in UNION {Span(s) : s \in r.sections} |-> <<"rte", a>>],
       [a \in Span(r.bss) |-> Zero])

LoadRuntimeExt(r) ==
  LET image == RteImage(r) IN
  /\ stage = "rte"
  /\ InBounds(r.bss) /\ \A s \in r.sections : InBounds(s)
  /\ r.current
  /\ Put(image)
  /\ Keep([a \in DOMAIN image \ Scratch |-> image[a]])
  /\ stage' = "reserve"
  /\ UNCHANGED <<tableVars, mem1, patchesAt, memPatches, pulDest, done, arenaEnd, lost>>

-----------------------------------------------------------------------------
(* rrc_riivo_patch_loader_parse                                            *)

(* A faulty Reserved: no room is taken.                                    *)
ReservedNone == mem1
Reserved == mem1 - PatchSize * MaxMemPatches

ReservePatches ==
  /\ stage = "reserve"
  /\ mem1' = Reserved
  /\ patchesAt' = mem1'
  /\ stage' = "parse"
  /\ UNCHANGED <<tableVars, mem, memPatches, pulDest, done, arenaEnd, kept, lost>>

(* bump_alloc_string, for the path of a new SD file and for the disc path. *)
NewStrings ==
  (IF sdFiles' # sdFiles THEN <<Last(sdFiles')>> ELSE <<>>)
    \o (IF applied' # applied THEN <<Last(applied').disc.path>> ELSE <<>>)

AllocStrings ==
  /\ mem1' = mem1 - StringSize * Len(NewStrings)
  /\ Give([a \in mem1' .. mem1 - 1 |->
            <<"string", NewStrings[(mem1 - 1 - a) \div StringSize + 1]>>])

ParseFiles ==
  /\ stage = "parse"
  /\ \/ PatchFiles /\ UNCHANGED lost
     \/ LoseFiles /\ lost' = lost \cup {"folder"}
  /\ AllocStrings
  /\ UNCHANGED <<stage, patchesAt, memPatches, pulDest, done, arenaEnd>>

(* The number of patches is not compared with the room for them.           *)
ParseMemory(p) ==
  LET at == patchesAt + PatchSize * Len(memPatches) IN
  /\ stage = "parse"
  /\ ParseElement
  /\ memPatches' = Append(memPatches, p)
  /\ Give([a \in at .. at + PatchSize - 1 |-> <<"patch", p>>])
  /\ UNCHANGED <<sdFiles, full, byName, dol, unread, applied, mem1, stage,
                 patchesAt, pulDest, done, arenaEnd, lost>>

ParsePulsar(a) ==
  /\ stage = "parse"
  /\ ParseElement
  /\ pulDest' = a
  /\ UNCHANGED <<sdFiles, full, byName, dol, unread, applied, mem, mem1, stage,
                 patchesAt, memPatches, done, arenaEnd, kept, lost>>

(* rrc_replace_main_dol writes over the DOL as much of main.dol as can be  *)
(* read; its result is ignored.                                            *)
ReplaceMainDol ==
  /\ stage = "parse"
  /\ unread = <<>>
  /\ IF dol = Nothing
       THEN UNCHANGED <<mem, lost>>
       ELSE \E n \in MainDolReads :
              /\ Put([a \in DolBuffer .. DolBuffer + n - 1 |->
                       <<"dol", <<"pack", a - DolBuffer>> >>])
              /\ lost' = IF n < Dols["pack"].length THEN lost \cup {"main.dol"} ELSE lost
  /\ stage' = "tables"
  /\ UNCHANGED <<tableVars, mem1, patchesAt, memPatches, pulDest, done, arenaEnd, kept>>

RefuseTables ==
  /\ stage = "tables"
  /\ TooManyFiles
  /\ stage' = "exit"
  /\ UNCHANGED <<mem, mem1, patchesAt, memPatches, pulDest, done, arenaEnd, kept, lost>>

Table(kind, at, size, s) ==
  [a \in at .. at + size * Len(s) - 1 |-> <<kind, s[(a - at) \div size + 1]>>]

(* The tables go below the strings, and runtime-ext is told where.         *)
PlaceTables ==
  LET sdAt == AlignDown(mem1 - SdFileSize * Len(sdFiles), Word)
      fullAt == AlignDown(sdAt - ReplacementSize * Len(full), Word)
      nameAt == AlignDown(fullAt - ReplacementSize * Len(byName), Word)
      pointers == [a \in {RiivoDisc} |->
        <<"riivo", <<sdAt, fullAt, Len(full), nameAt, Len(byName)>> >>]
  IN
  /\ stage = "tables"
  /\ Finish
  /\ Give(Both(pointers,
          Both(Table("sd", sdAt, SdFileSize, sdFiles),
          Both(Table("full", fullAt, ReplacementSize, full'),
               Table("name", nameAt, ReplacementSize, byName')))))
  /\ mem1' = nameAt
  /\ stage' = "hooks"
  /\ UNCHANGED <<patchesAt, memPatches, pulDest, done, arenaEnd, lost>>

-----------------------------------------------------------------------------
(* rrc_loader_load                                                         *)

(* The header that is in the buffer.                                       *)
Header == Dols[mem[DolBuffer][2][1]]

(* rrc_binary_find_section_by_addr *)
SectionsAt(addr) ==
  {i \in DOMAIN Header.sections :
     addr \in Header.sections[i].addr .. Header.sections[i].addr + Header.sections[i].size - 1}
Buffered(addr) ==
  LET s == Header.sections[Min(SectionsAt(addr))]
  IN DolBuffer + s.off + (addr - s.addr)

(* A faulty TrampolineAt: the room for the jump back is forgotten.         *)
TrampolineAtPacked(i) == TrampolineStart + (i - 1)
TrampolineAt(i) == TrampolineStart + 2 * (i - 1)

(* patch_dvd_functions: a trampoline is the start of the original function *)
(* and a jump to what follows there; in its place comes the jump to the    *)
(* function of runtime-ext.                                                *)
PatchDvdFunctions ==
  LET here == DOMAIN Hooked
      taken(a) == {i \in here : a \in {TrampolineAt(i), TrampolineAt(i) + 1}}
      trampolines == [a \in {b \in TrampolineArea : taken(b) # {}} |->
        LET i == Max(taken(a)) IN
        IF a = TrampolineAt(i) THEN mem[Buffered(Hooked[i])]
                               ELSE <<"back", Hooked[i] + 1>>]
      jumps == [a \in {Buffered(Hooked[i]) : i \in here} |->
        <<"jump", Hooked[CHOOSE i \in here : a = Buffered(Hooked[i])]>>]
  IN
  /\ stage = "hooks"
  /\ \A i \in here : SectionsAt(Hooked[i]) # {}
  /\ Put(Both(trampolines, jumps))
  /\ Keep(trampolines)
  /\ stage' = "pulsar"
  /\ UNCHANGED <<tableVars, mem1, patchesAt, memPatches, pulDest, done, arenaEnd, lost>>

(* rrc_binary_load_pulsar_loader: fread gives 0 at the end and on errors.  *)
LoadPulsar(n) ==
  LET at == Buffered(pulDest) IN
  /\ stage = "pulsar"
  /\ pulDest # Nothing
  /\ SectionsAt(pulDest) # {}
  /\ Put([a \in at .. at + n - 1 |-> <<"pul", a - at>>])
  /\ lost' = IF n < PulSize THEN lost \cup {"Loader.pul"} ELSE lost
  /\ stage' = "handover"
  /\ UNCHANGED <<tableVars, mem1, patchesAt, memPatches, pulDest, done, arenaEnd, kept>>

(* What the game finds at fixed addresses.                                 *)
HandOver ==
  /\ stage = "handover"
  /\ arenaEnd' = AlignDown(mem1, Line)
  /\ Give([a \in Statics |-> <<"static", a>>])
  /\ stage' = "copier"
  /\ UNCHANGED <<tableVars, mem1, patchesAt, memPatches, pulDest, done, lost>>

(* A faulty CopierAt: patch_dol runs where it is.                          *)
CopierInPlace == LauncherEnd - 1
CopierAt == PatchCopy

InstallCopier ==
  /\ stage = "copier"
  /\ Put([a \in Copier(CopierAt) |-> <<"copier", a - CopierAt>>])
  /\ stage' = "bss"
  /\ UNCHANGED <<tableVars, mem1, patchesAt, memPatches, pulDest, done, arenaEnd, kept, lost>>

-----------------------------------------------------------------------------
(* patch_dol                                                               *)

ZeroBss ==
  /\ stage = "bss"
  /\ Put([a \in Span(Header.bss) |-> Zero])
  /\ stage' = "sections"
  /\ UNCHANGED <<tableVars, mem1, patchesAt, memPatches, pulDest, done, arenaEnd, kept, lost>>

CopySection ==
  LET s == Header.sections[done + 1] IN
  /\ stage = "sections"
  /\ done < Len(Header.sections)
  /\ Put([a \in s.addr .. s.addr + s.size - 1 |-> mem[DolBuffer + s.off + (a - s.addr)]])
  /\ done' = done + 1
  /\ UNCHANGED <<tableVars, mem1, stage, patchesAt, memPatches, pulDest, arenaEnd, kept, lost>>

SectionsCopied ==
  /\ stage = "sections"
  /\ done = Len(Header.sections)
  /\ done' = 0
  /\ stage' = "patches"
  /\ UNCHANGED <<tableVars, mem, mem1, patchesAt, memPatches, pulDest, arenaEnd, kept, lost>>

(* A faulty Applies: what was there is not compared.                       *)
AppliesAlways(p) == TRUE
Applies(p) == p.original = Nothing \/ p.original = mem[p.addr]

ApplyPatch ==
  LET p == mem[patchesAt + PatchSize * done][2] IN
  /\ stage = "patches"
  /\ done < Len(memPatches)
  /\ Put([a \in {b \in {p.addr} : Applies(p)} |-> p.value])
  /\ done' = done + 1
  /\ UNCHANGED <<tableVars, mem1, stage, patchesAt, memPatches, pulDest, arenaEnd, kept, lost>>

EnterGame ==
  /\ stage = "patches"
  /\ done = Len(memPatches)
  /\ stage' = "game"
  /\ UNCHANGED <<tableVars, mem, mem1, patchesAt, memPatches, pulDest, done, arenaEnd, kept, lost>>

-----------------------------------------------------------------------------
LoadNext ==
  \/ ReadDol
  \/ \E size \in FstSizes : ReadFst(size)
  \/ ReadBi2
  \/ \E r \in RteFiles : LoadRuntimeExt(r)
  \/ ReservePatches
  \/ ParseFiles
  \/ \E p \in MemPatches : ParseMemory(p)
  \/ \E a \in PulDests : ParsePulsar(a)
  \/ ReplaceMainDol
  \/ RefuseTables
  \/ PlaceTables
  \/ PatchDvdFunctions
  \/ \E n \in 0 .. PulSize : LoadPulsar(n)
  \/ HandOver
  \/ InstallCopier
  \/ ZeroBss \/ CopySection \/ SectionsCopied
  \/ ApplyPatch
  \/ EnterGame
  \/ LoadFails
  \/ Ended

LoadSpec == LoadInit /\ [][LoadNext]_gVars

-----------------------------------------------------------------------------
(* What the code does not check: the room for memory patches, and that the *)
(* strings and tables stay above the DOL's buffer.                         *)
Roomy == Len(memPatches) <= MaxMemPatches /\ DolEnd <= mem1

Copying == {"bss", "sections", "patches"}

(* The tables are well-formed, and addresses, sizes and counts are         *)
(* numbers.                                                               *)
GTypeOK ==
  /\ TypeOK
  /\ stage \in Failing \cup Copying
       \cup {"reserve", "tables", "handover", "copier", "game", "exit"}
  /\ DOMAIN mem = 0 .. Top - 1
  /\ mem1 \in Int /\ patchesAt \in Int /\ arenaEnd \in Int
  /\ memPatches \in Seq(MemPatches)
  /\ pulDest \in PulDests \cup {Nothing}
  /\ done \in Nat
  /\ lost \subseteq {"folder", "main.dol", "Loader.pul"}

(* Whatever is given to the game is still there when it starts, and above  *)
(* the end of memory that the game is told: the file system table, BI2,    *)
(* runtime-ext, the tables with their strings, the trampolines, the        *)
(* statics; and the memory patches until they are applied                  *)
(* (main.c:374-397, loader.c:157-206, riivo_patch_loader.c:373, 525-543).  *)
KeptIntact ==
  Roomy => \A a \in DOMAIN kept :
    /\ mem[a] = kept[a]
    /\ arenaEnd <= a

(* What a step executes and has yet to read.                               *)
InUse ==
  IF stage \in Copying
    THEN Copier(CopierAt) \cup DolBuffer .. DolEnd - 1
           \cup patchesAt .. patchesAt + PatchSize * Len(memPatches) - 1
  ELSE IF stage \in {"game", "exit"} THEN {}
  ELSE 0 .. LauncherEnd - 1

(* No step writes over the code that executes it or over what has yet to   *)
(* be read, although the game's sections go where the launcher is          *)
(* (game_dol_loader.c:20-38, loader.c:120-148).                            *)
RunsOnOwnCode ==
  [][Roomy' => \A a \in InUse : mem'[a] = mem[a]]_gVars

(* What an address of the game holds before the memory patches: the DOL    *)
(* with the jumps of its DVD functions and Loader.pul in it.               *)
InSection(a, s) == a \in s.addr .. s.addr + s.size - 1
Original(a) ==
  IF a \in pulDest .. pulDest + PulSize - 1 THEN <<"pul", a - pulDest>>
  ELSE IF \E i \in DOMAIN Hooked : Hooked[i] = a THEN <<"jump", a>>
  ELSE IF SectionsAt(a) # {}
    THEN LET s == Header.sections[CHOOSE i \in SectionsAt(a) : TRUE]
         IN <<"dol", <<mem[DolBuffer][2][1], s.off + (a - s.addr)>> >>
  ELSE Zero

(* An address after each of the patches: the last whose original was there *)
(* decides.                                                                *)
AfterPatches(a, before, patches) ==
  LET after[n \in 0 .. Len(patches)] ==
        IF n = 0 THEN before
        ELSE LET p == patches[n] IN
             IF p.addr = a /\ p.original \in {Nothing, after[n - 1]}
               THEN p.value ELSE after[n - 1]
  IN after
Patched(a) == AfterPatches(a, Original(a), memPatches)[Len(memPatches)]

(* The game starts on one whole DOL, zeroed outside of its sections, with  *)
(* every jump, Loader.pul and memory patch in its place, unless a read     *)
(* failed silently (main.c:346-372, riivo_patch_loader.c:510-514,          *)
(* loader.c:177-180, game_dol_loader.c:45-88).                             *)
GameImage ==
  stage = "game" /\ Roomy /\ lost = {} =>
    LET whole == IF dol = Nothing THEN "disc" ELSE "pack" IN
    /\ mem[DolBuffer] = <<"dol", <<whole, 0>> >>
    /\ \A a \in Span(Header.bss)
            \cup UNION {{b \in 0 .. PatchCopy : InSection(b, Header.sections[i])} :
                        i \in DOMAIN Header.sections} :
         mem[a] = Patched(a)

(* Where runtime-ext calls an original DVD function (base.ld), that        *)
(* function of the DOL that runs begins and then goes on behind the jump   *)
(* that replaced its beginning (loader.c:95-117).                          *)
HooksReachOriginals ==
  stage = "game" /\ Roomy /\ lost = {} =>
    \A i \in DOMAIN Hooked :
      LET s == Header.sections[CHOOSE j \in SectionsAt(Hooked[i]) : TRUE]
          off == s.off + (Hooked[i] - s.addr)
      IN /\ mem[Trampolines[i]] = <<"dol", <<mem[DolBuffer][2][1], off>> >>
         /\ mem[Trampolines[i] + 1] = <<"back", Hooked[i] + 1>>

(* "All errors that happen here are fatal; we can't boot the game without  *)
(* knowing the patches" (loader.c:156)                                    *)
ErrorsAreFatal == stage = "game" => lost = {}
=============================================================================

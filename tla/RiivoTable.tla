----------------------------- MODULE RiivoTable -----------------------------
(***************************************************************************)
(* The tables that tell the game which disc paths come from the SD card:   *)
(* built by the launcher from the patches of the Riivolution XML           *)
(* (source/loader/riivo_patch_loader.c), sorted by hash, and searched by   *)
(* runtime-ext (runtime-ext/source/dvd.c).                                 *)
(*                                                                         *)
(* GameLoad places them in memory and loads the rest of the game.          *)
(*                                                                         *)
(* A path is the sequence of its segments.  Paths in the tables are in     *)
(* lower case; Lower is what tolower makes of a segment of the game's.     *)
(***************************************************************************)
EXTENDS Naturals, SequencesExt

CONSTANTS
  Discs,      \* disc paths of <file>: [rooted: starts with '/', path: segments]
  Externals,  \* SD paths of <file>
  Folders,    \* <folder>s: [disc, dir, recursive]
  Tree,       \* the files below each directory, as relative paths
  OnCard,     \* the SD paths that exist
  GamePaths,  \* the paths the game asks for
  Lower,      \* a segment in lower case
  Hash,       \* rrc_hash_string of a path in lower case
  MaxPatches, \* bound on the elements of the XML
  MaxFiles,   \* GLOBAL_MAX_FOLDER_FILES
  MainDol,    \* the path of main.dol
  DotUnderscore, \* segments that start with "._"
  Nothing     \* no such entry

ASSUME RiivoAssumption ==
  /\ MaxPatches \in Nat
  /\ MaxFiles \in Nat
  /\ \A d \in Discs : d.rooted \in BOOLEAN /\ d.path # <<>>
  /\ \A f \in Folders :
       f.dir \in DOMAIN Tree /\ IsFiniteSet(Tree[f.dir]) /\ f.recursive \in BOOLEAN
  /\ Nothing \notin Nat

VARIABLES
  sdFiles,   \* sd_files: SD paths, the index is the entrynum
  full,      \* replacements: of whole disc paths
  byName,    \* filename_replacements: of files of that name in any directory
  dol,       \* main_dol_path, or Nothing
  elements,  \* elements of the XML handled so far
  unread,    \* what readdir has still to give of the <folder> at hand
  phase,     \* "parse", "ready" or "fatal"
  applied    \* the patches in the order they took effect (to state properties)

tableVars == <<sdFiles, full, byName, dol, elements, unread, phase, applied>>

InitTables ==
  /\ sdFiles = <<>> /\ full = <<>> /\ byName = <<>>
  /\ dol = Nothing
  /\ elements = 0
  /\ unread = <<>>
  /\ phase = "parse"
  /\ applied = <<>>

-----------------------------------------------------------------------------
(* What a patch reads and changes, as one record.                          *)
Tables == [sdFiles |-> sdFiles, full |-> full, byName |-> byName,
           dol |-> dol, applied |-> applied]

(* A faulty SwapRemove: the length stays what it was.                      *)
SwapRemoveKeep(s, i) == [s EXCEPT ![i] = Last(s)]

(* vec_swap_remove: the last element takes the place of the removed one.   *)
SwapRemove(s, i) == Front([s EXCEPT ![i] = Last(s)])

RemoveReplacement(s, r) ==
  LET same == {i \in DOMAIN s : s[i].hash = r.hash /\ s[i].disc = r.disc}
  IN IF same = {} THEN s ELSE SwapRemove(s, Min(same))

(* A faulty EntryOf: only the first file is looked at.                     *)
EntryOfFirst(files, ext) ==
  IF files # <<>> /\ files[1] = ext THEN 1 ELSE Nothing

(* The entry of an SD file that a patch already uses.                      *)
EntryOf(files, ext) ==
  IF \E i \in DOMAIN files : files[i] = ext
    THEN CHOOSE i \in DOMAIN files : files[i] = ext ELSE Nothing

(* Later replacements override earlier ones.                               *)
Register(t, disc, ext) ==
  LET known == EntryOf(t.sdFiles, ext)
      entry == IF known = Nothing THEN Len(t.sdFiles) + 1 ELSE known
      new == [disc |-> disc.path, hash |-> Hash[disc.path], entry |-> entry]
  IN [t EXCEPT
       !.sdFiles = IF known = Nothing THEN Append(@, ext) ELSE @,
       !.full = IF disc.rooted THEN Append(RemoveReplacement(@, new), new) ELSE @,
       !.byName = IF disc.rooted THEN @ ELSE Append(RemoveReplacement(@, new), new),
       !.applied = Append(@, [disc |-> disc, ext |-> ext])]

(* _rrc_riivo_handle_file_patch                                            *)
HandleFilePatch(t, disc, ext, checkExists) ==
  IF ~disc.rooted /\ disc.path = MainDol THEN [t EXCEPT !.dol = ext]
  ELSE IF ~disc.rooted /\ disc.path[1] \in DotUnderscore THEN t
  ELSE IF /\ EntryOf(t.sdFiles, ext) = Nothing
          /\ checkExists
          /\ ext \notin OnCard
    THEN t
  ELSE Register(t, disc, ext)

(* The files a <folder> element brings; readdir gives them in any order.   *)
FolderFiles(f) == {r \in Tree[f.dir] : f.recursive \/ Len(r) = 1}

(* _rrc_riivo_combine_paths: with no disc attribute, the file's own path.  *)
FolderDisc(f, r) ==
  IF f.disc = <<>> THEN [rooted |-> FALSE, path |-> r]
  ELSE [rooted |-> f.disc[1] = "/", path |-> SelectSeq(f.disc, LAMBDA s : s # "/") \o r]

Become(t) ==
  /\ sdFiles' = t.sdFiles /\ full' = t.full /\ byName' = t.byName
  /\ dol' = t.dol /\ applied' = t.applied

(* rrc_riivo_patch_loader_parse: the elements of the enabled patches.      *)
ParseElement ==
  /\ phase = "parse"
  /\ unread = <<>>
  /\ elements < MaxPatches
  /\ elements' = elements + 1
  /\ phase' = phase

FilePatch(disc, ext) ==
  /\ ParseElement
  /\ Become(HandleFilePatch(Tables, disc, ext, TRUE))
  /\ unread' = unread

(* _rrc_riivo_handle_folder_patch opens the folder and reads its files.    *)
FolderPatch(f) ==
  /\ ParseElement
  /\ \E order \in SetToSeqs(FolderFiles(f)) :
       unread' = [i \in DOMAIN order |->
         [disc |-> FolderDisc(f, order[i]), ext |-> <<f.dir>> \o order[i]]]
  /\ UNCHANGED <<sdFiles, full, byName, dol, applied>>

ReadEntry ==
  /\ phase = "parse"
  /\ unread # <<>>
  /\ Become(HandleFilePatch(Tables, Head(unread).disc, Head(unread).ext, FALSE))
  /\ unread' = Tail(unread)
  /\ UNCHANGED <<elements, phase>>

(* The folder itself cannot be opened.                                     *)
MissingFolder ==
  /\ ParseElement
  /\ UNCHANGED <<sdFiles, full, byName, dol, unread, applied>>

(* A subfolder cannot be opened, and the rest of the folder is left out;   *)
(* or readdir fails like at the end of a folder or subfolder, and the rest *)
(* of that is. The callers do not look at the result.                      *)
FolderFails ==
  /\ phase = "parse"
  /\ \E n \in 1 .. Len(unread) : unread' = SubSeq(unread, n + 1, Len(unread))
  /\ UNCHANGED <<sdFiles, full, byName, dol, elements, phase, applied>>

TooManyFiles ==
  /\ phase = "parse"
  /\ unread = <<>>
  /\ Len(full) + Len(byName) > MaxFiles
  /\ phase' = "fatal"
  /\ UNCHANGED <<sdFiles, full, byName, dol, elements, unread, applied>>

(* qsort by hash leaves entries with equal hashes in any order.            *)
SortedByHash(s) ==
  {t \in {[i \in DOMAIN s |-> s[p[i]]] : p \in SetToSeqs(DOMAIN s)} :
     \A i \in 1 .. Len(s) - 1 : t[i].hash <= t[i + 1].hash}

Finish ==
  /\ phase = "parse"
  /\ unread = <<>>
  /\ Len(full) + Len(byName) <= MaxFiles
  /\ full' \in SortedByHash(full)
  /\ byName' \in SortedByHash(byName)
  /\ phase' = "ready"
  /\ UNCHANGED <<sdFiles, dol, elements, unread, applied>>

PatchFiles ==
  \/ \E d \in Discs, e \in Externals : FilePatch(d, e)
  \/ \E f \in Folders : FolderPatch(f)
  \/ ReadEntry

LoseFiles == MissingFolder \/ FolderFails

-----------------------------------------------------------------------------
(* The part of a table that the binary search is in: lo .. hi - 1.         *)
Windows(tbl) == [lo : 1 .. Len(tbl) + 1, hi : 1 .. Len(tbl) + 1]
EntireTable(tbl) == [lo |-> 1, hi |-> Len(tbl) + 1]

(* A faulty FirstWithHash: the search does not walk back.                  *)
MidWithHash(tbl, h) ==
  LET search[w \in Windows(tbl)] ==
        LET mid == (w.lo + w.hi) \div 2 IN
        IF w.lo >= w.hi THEN Nothing
        ELSE IF tbl[mid].hash = h THEN mid
        ELSE IF tbl[mid].hash < h THEN search[[w EXCEPT !.lo = mid + 1]]
        ELSE search[[w EXCEPT !.hi = mid]]
  IN search[EntireTable(tbl)]

(* From a place with that hash back to the first.                          *)
WalkBack(tbl, h) ==
  LET back[i \in DOMAIN tbl] ==
        IF i > 1 /\ tbl[i - 1].hash = h THEN back[i - 1] ELSE i
  IN back

BinarySearch(tbl, h) ==
  LET search[w \in Windows(tbl)] ==
        LET mid == (w.lo + w.hi) \div 2 IN
        IF w.lo >= w.hi THEN Nothing
        ELSE IF tbl[mid].hash = h THEN WalkBack(tbl, h)[mid]
        ELSE IF tbl[mid].hash < h THEN search[[w EXCEPT !.lo = mid + 1]]
        ELSE search[[w EXCEPT !.hi = mid]]
  IN search

(* rte_dvd_search_replacement_by_hash                                      *)
FirstWithHash(tbl, h) == BinarySearch(tbl, h)[EntireTable(tbl)]

LowerCase(path) == [i \in DOMAIN path |-> Lower[path[i]]]

(* Among the entries with the hash, the first whose path is equal          *)
(* (strcicmp).                                                             *)
WalkForth(tbl, path, h) ==
  LET found[i \in 1 .. Len(tbl) + 1] ==
        IF i > Len(tbl) \/ tbl[i].hash # h THEN Nothing
        ELSE IF LowerCase(tbl[i].disc) = LowerCase(path) THEN tbl[i].entry
        ELSE found[i + 1]
  IN found

(* rte_dvd_search_replacement *)
SearchReplacement(tbl, path) ==
  LET h == Hash[LowerCase(path)]
      first == FirstWithHash(tbl, h)
  IN IF first = Nothing THEN Nothing ELSE WalkForth(tbl, path, h)[first]

(* rte_dvd_resolve_path_to_entry_num: the file's name first.               *)
ResolvePath(path) ==
  LET named == SearchReplacement(byName, <<Last(path)>>)
  IN IF named # Nothing THEN named ELSE SearchReplacement(full, path)

-----------------------------------------------------------------------------
(* What patches put into the tables.                                       *)
PatchDiscs ==
  Discs \cup UNION {{FolderDisc(f, r) : r \in FolderFiles(f)} : f \in Folders}
SdPaths ==
  Externals \cup UNION {{<<f.dir>> \o r : r \in FolderFiles(f)} : f \in Folders}

(* Patches are registered in lower case (riivo_patch_loader.c:265,         *)
(* 437-441), and a hash is a number.                                       *)
ASSUME PathAssumption ==
  /\ \A d \in PatchDiscs : LowerCase(d.path) = d.path
  /\ \A path \in {d.path : d \in PatchDiscs}
                  \cup UNION {{LowerCase(p), LowerCase(<<Last(p)>>)} : p \in GamePaths} :
       Hash[path] \in Nat

Replacements ==
  LET paths == {d.path : d \in PatchDiscs}
  IN [disc : paths, hash : {Hash[p] : p \in paths}, entry : Nat]

(* Entries point into sd_files and carry the hash of their path; a table   *)
(* has one entry for a path.                                               *)
TableOK(t) ==
  /\ t \in Seq(Replacements)
  /\ \A i \in DOMAIN t :
       t[i].entry \in DOMAIN sdFiles /\ t[i].hash = Hash[t[i].disc]
  /\ \A i, j \in DOMAIN t : t[i].disc = t[j].disc => i = j

TypeOK ==
  /\ phase \in {"parse", "ready", "fatal"}
  /\ elements \in 0 .. MaxPatches
  /\ sdFiles \in Seq(SdPaths)
  /\ unread \in Seq([disc : PatchDiscs, ext : SdPaths])
  /\ TableOK(full)
  /\ TableOK(byName)

(* The patches that name a path the game asks for.                         *)
ByName(path) == {i \in DOMAIN applied :
  ~applied[i].disc.rooted /\ applied[i].disc.path = LowerCase(<<Last(path)>>)}
InFull(path) == {i \in DOMAIN applied :
  applied[i].disc.rooted /\ applied[i].disc.path = LowerCase(path)}

Latest(patches) == IF patches = {} THEN Nothing ELSE applied[Max(patches)].ext

(* Registered, sorted and searched, a path gives the SD file of the last   *)
(* patch that names it, one for the file's name before one for the whole   *)
(* path, whatever hashes collide and in whatever order the unstable sort   *)
(* leaves them (riivo_patch_loader.c:122-135, dvd.c:120-177).              *)
ResolvesToLastPatch ==
  phase = "ready" =>
    \A p \in GamePaths :
      LET entry == ResolvePath(p)
          want == IF ByName(p) # {} THEN Latest(ByName(p)) ELSE Latest(InFull(p))
      IN IF entry = Nothing THEN want = Nothing ELSE sdFiles[entry] = want

(* An SD file has one entry, however many patches use it: runtime-ext      *)
(* counts the FileInfos open on a file at its entry                        *)
(* (riivo_patch_loader.c:163-173).                                         *)
OneEntryPerFile ==
  \A i, j \in DOMAIN sdFiles : sdFiles[i] = sdFiles[j] => i = j

(* "Ignore AppleDouble files." (riivo_patch_loader.c:159)                  *)
AppleDoubleIgnored ==
  \A i \in DOMAIN applied : Last(applied[i].disc.path) \notin DotUnderscore
=============================================================================

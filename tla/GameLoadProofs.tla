--------------------------- MODULE GameLoadProofs ---------------------------
(***************************************************************************)
(* Proofs about RiivoTable and GameLoad, for all lists of patches and all  *)
(* layouts of memory that LoadAssumption allows.                           *)
(***************************************************************************)
EXTENDS GameLoad, FiniteSetTheorems, WellFoundedInduction, TLAPS

LEMMA MinMember ==
  ASSUME NEW S, S \subseteq Nat, S # {}
  PROVE  Min(S) \in S /\ \A y \in S : Min(S) <= y
<1>1. \E x \in S : \A y \in S : ~ (<<y, x>> \in OpToRel(<, Nat))
  BY NatLessThanWellFounded, WFMin, Zenon
<1>2. \A x, y \in Nat : <<y, x>> \in OpToRel(<, Nat) <=> y < x
  BY DEF OpToRel
<1>3. \A x, y \in Nat : ~ (y < x) => x <= y
  OBVIOUS
<1>4. \E x \in S : \A y \in S : x <= y
  BY <1>1, <1>2, <1>3, Zenon
<1> QED
  BY <1>4, Zenon DEF Min

(* Induction over the numbers, for a set: the library's theorems take an   *)
(* operator.                                                               *)
LEMMA Induction ==
  ASSUME NEW S, 0 \in S, \A n \in Nat : n \in S => n + 1 \in S
  PROVE  Nat \subseteq S
<1> SUFFICES ASSUME Nat \ S # {} PROVE FALSE
  OBVIOUS
<1> DEFINE m == Min(Nat \ S)
<1>1. m \in Nat \ S /\ \A y \in Nat \ S : m <= y
  <2> DEFINE T == Nat \ S
  <2>1. T \subseteq Nat /\ T # {}
    OBVIOUS
  <2> HIDE DEF T
  <2>2. Min(T) \in T /\ \A y \in T : Min(T) <= y
    BY <2>1, MinMember
  <2> QED
    BY <2>2 DEF T
<1> HIDE DEF m
<1>2. m # 0
  BY <1>1
<1>3. m - 1 \in Nat /\ m - 1 \in S
  BY <1>1, <1>2
<1>4. (m - 1) + 1 = m
  BY <1>1
<1> QED
  BY <1>1, <1>3, <1>4

(* The same downwards.                                                     *)
LEMMA InductionDown ==
  ASSUME NEW S, NEW n \in Nat, n + 1 \in S, \A i \in 1 .. n : i + 1 \in S => i \in S
  PROVE  1 .. n + 1 \subseteq S
<1> DEFINE R == {d \in Nat : n + 1 - d \in 1 .. n + 1 => n + 1 - d \in S}
<1>1. 0 \in R
  OBVIOUS
<1>2. ASSUME NEW d \in Nat, d \in R PROVE d + 1 \in R
  <2> SUFFICES ASSUME n + 1 - (d + 1) \in 1 .. n + 1
      PROVE  n + 1 - (d + 1) \in S
    OBVIOUS
  <2>1. n + 1 - (d + 1) \in 1 .. n /\ (n + 1 - (d + 1)) + 1 = n + 1 - d
    OBVIOUS
  <2>2. n + 1 - d \in 1 .. n + 1
    OBVIOUS
  <2>3. n + 1 - d \in S
    BY <1>2, <2>2
  <2> QED
    BY <2>1, <2>3
<1>3. Nat \subseteq R
  <2> HIDE DEF R
  <2> QED
    BY <1>1, <1>2, Induction
<1>4. ASSUME NEW i \in 1 .. n + 1 PROVE i \in S
  <2>1. n + 1 - i \in Nat /\ n + 1 - (n + 1 - i) = i
    OBVIOUS
  <2>2. n + 1 - i \in R
    BY <1>3, <2>1
  <2> QED
    BY <2>1, <2>2
<1> QED
  BY <1>4

-----------------------------------------------------------------------------
(* The tables                                                              *)

TablesInv == TypeOK /\ OneEntryPerFile

(* What TableOK says of a table and the SD files it points into.           *)
Good(t, n) ==
  /\ t \in Seq(Replacements)
  /\ \A i \in DOMAIN t : t[i].entry \in 1 .. n /\ t[i].hash = Hash[t[i].disc]
  /\ \A i, j \in DOMAIN t : t[i].disc = t[j].disc => i = j

LEMMA SwapRemoveGood ==
  ASSUME NEW n \in Nat, NEW s, Good(s, n), NEW k \in DOMAIN s
  PROVE  /\ Good(SwapRemove(s, k), n)
         /\ \A j \in DOMAIN SwapRemove(s, k) : SwapRemove(s, k)[j].disc # s[k].disc
<1> DEFINE N == Len(s)
           u == SwapRemove(s, k)
<1>1. s \in Seq(Replacements) /\ N \in Nat \ {0} /\ DOMAIN s = 1 .. N /\ k \in 1 .. N
  BY DEF Good
<1>2. [s EXCEPT ![k] = s[N]] \in Seq(Replacements) /\ Len([s EXCEPT ![k] = s[N]]) = N
  BY <1>1
<1>3. u = SubSeq([s EXCEPT ![k] = s[N]], 1, N - 1)
  BY <1>2 DEF SwapRemove, Front, Last
<1>4. u \in Seq(Replacements) /\ Len(u) = N - 1 /\ DOMAIN u = 1 .. N - 1
  BY <1>1, <1>2, <1>3
<1>5. \A j \in 1 .. N - 1 : u[j] = IF j = k THEN s[N] ELSE s[j]
  BY <1>1, <1>2, <1>3
<1>6. \A j \in 1 .. N - 1 : u[j].disc # s[k].disc
  BY <1>1, <1>5 DEF Good
<1> DEFINE from(j) == IF j = k THEN N ELSE j
<1>7. \A j \in 1 .. N - 1 : from(j) \in 1 .. N /\ u[j] = s[from(j)]
  BY <1>1, <1>5
<1>8. \A i, j \in 1 .. N - 1 : from(i) = from(j) => i = j
  BY <1>1
<1> HIDE DEF from, u
<1>9. \A i, j \in 1 .. N - 1 : u[i].disc = u[j].disc => i = j
  BY <1>1, <1>7, <1>8 DEF Good
<1>10. \A j \in 1 .. N - 1 : u[j].entry \in 1 .. n /\ u[j].hash = Hash[u[j].disc]
  BY <1>1, <1>7 DEF Good
<1>11. Good(u, n)
  BY <1>4, <1>9, <1>10, Zenon DEF Good
<1> QED
  BY <1>4, <1>6, <1>11 DEF u

LEMMA RemoveGood ==
  ASSUME NEW n \in Nat, NEW s, Good(s, n), NEW r, r.hash = Hash[r.disc]
  PROVE  /\ Good(RemoveReplacement(s, r), n)
         /\ \A j \in DOMAIN RemoveReplacement(s, r) :
              RemoveReplacement(s, r)[j].disc # r.disc
<1> DEFINE same == {i \in DOMAIN s : s[i].hash = r.hash /\ s[i].disc = r.disc}
<1>1. CASE same = {}
  <2>1. RemoveReplacement(s, r) = s
    BY <1>1 DEF RemoveReplacement
  <2>2. \A i \in DOMAIN s : s[i].disc # r.disc
    BY <1>1 DEF Good
  <2> QED
    BY <2>1, <2>2
<1>2. CASE same # {}
  <2>1. Min(same) \in same
    <3>1. same \subseteq Nat
      BY DEF Good
    <3> QED
      BY <1>2, <3>1, MinMember
  <2>2. RemoveReplacement(s, r) = SwapRemove(s, Min(same))
    BY <1>2 DEF RemoveReplacement
  <2>3. Min(same) \in DOMAIN s /\ s[Min(same)].disc = r.disc
    BY <2>1
  <2> DEFINE k == Min(same)
  <2> HIDE DEF k
  <2>4. k \in DOMAIN s /\ s[k].disc = r.disc
    BY <2>3 DEF k
  <2>5. /\ Good(SwapRemove(s, k), n)
        /\ \A j \in DOMAIN SwapRemove(s, k) : SwapRemove(s, k)[j].disc # s[k].disc
    BY <2>4, SwapRemoveGood
  <2>6. RemoveReplacement(s, r) = SwapRemove(s, k)
    BY <2>2 DEF k
  <2> QED
    BY <2>4, <2>5, <2>6
<1> QED
  BY <1>1, <1>2

LEMMA AppendGood ==
  ASSUME NEW n \in Nat, NEW m \in Nat, n <= m, NEW s, Good(s, n),
         NEW r \in Replacements, r.hash = Hash[r.disc], r.entry \in 1 .. m
  PROVE  Good(Append(RemoveReplacement(s, r), r), m)
<1> DEFINE u == RemoveReplacement(s, r)
           v == Append(u, r)
<1>1. Good(u, n) /\ \A j \in DOMAIN u : u[j].disc # r.disc
  BY RemoveGood
<1> HIDE DEF u
<1>2. u \in Seq(Replacements) /\ DOMAIN u = 1 .. Len(u) /\ Len(u) \in Nat
  BY <1>1 DEF Good
<1>3. /\ v \in Seq(Replacements) /\ DOMAIN v = 1 .. Len(u) + 1
      /\ \A j \in 1 .. Len(u) : v[j] = u[j]
      /\ v[Len(u) + 1] = r
  BY <1>2
<1> HIDE DEF v
<1>4. \A i \in DOMAIN v : v[i].entry \in 1 .. m /\ v[i].hash = Hash[v[i].disc]
  BY <1>1, <1>2, <1>3 DEF Good
<1>5. \A i, j \in DOMAIN v : v[i].disc = v[j].disc => i = j
  BY <1>1, <1>2, <1>3 DEF Good
<1>6. Good(v, m)
  BY <1>3, <1>4, <1>5 DEF Good
<1> QED
  BY <1>6 DEF u, v

(* What the patches of an element look like while they are read.          *)
Entries == [disc : PatchDiscs, ext : SdPaths]

LEMMA TablesAsGood ==
  ASSUME TypeOK
  PROVE  /\ Len(sdFiles) \in Nat /\ DOMAIN sdFiles = 1 .. Len(sdFiles)
         /\ Good(full, Len(sdFiles)) /\ Good(byName, Len(sdFiles))
<1>1. Len(sdFiles) \in Nat /\ DOMAIN sdFiles = 1 .. Len(sdFiles)
  BY DEF TypeOK
<1> QED
  BY <1>1 DEF TypeOK, TableOK, Good

(* One file patch, however it was brought about, keeps the tables whole.   *)
LEMMA HandleFileInv ==
  ASSUME TablesInv, NEW disc \in PatchDiscs, NEW ext \in SdPaths,
         NEW checkExists \in BOOLEAN,
         Become(HandleFilePatch(Tables, disc, ext, checkExists)),
         unread' \in Seq(Entries), elements' \in 0 .. MaxPatches, phase' = phase
  PROVE  TablesInv'
<1> DEFINE t == HandleFilePatch(Tables, disc, ext, checkExists)
           n == Len(sdFiles)
<1>1. /\ sdFiles \in Seq(SdPaths) /\ n \in Nat /\ DOMAIN sdFiles = 1 .. n
      /\ Good(full, n) /\ Good(byName, n)
  BY TablesAsGood DEF TablesInv, TypeOK
<1>2. SUFFICES /\ sdFiles' \in Seq(SdPaths)
               /\ Good(full', Len(sdFiles')) /\ Good(byName', Len(sdFiles'))
               /\ OneEntryPerFile'
  <2>1. DOMAIN sdFiles' = 1 .. Len(sdFiles')
    BY <1>2
  <2>2. TableOK(full)' /\ TableOK(byName)'
    BY <1>2, <2>1 DEF TableOK, Good
  <2>3. phase' \in {"parse", "ready", "fatal"}
    BY DEF TablesInv, TypeOK
  <2> QED
    BY <1>2, <2>2, <2>3 DEF TablesInv, TypeOK, Entries
<1>3. CASE sdFiles' = sdFiles /\ full' = full /\ byName' = byName
  BY <1>1, <1>3 DEF TablesInv, OneEntryPerFile
<1>4. CASE t = Register(Tables, disc, ext)
  <2> DEFINE known == EntryOf(sdFiles, ext)
             entry == IF known = Nothing THEN n + 1 ELSE known
             m == Len(sdFiles')
             new == [disc |-> disc.path, hash |-> Hash[disc.path], entry |-> entry]
  <2>1. /\ sdFiles' = IF known = Nothing THEN Append(sdFiles, ext) ELSE sdFiles
        /\ full' = IF disc.rooted THEN Append(RemoveReplacement(full, new), new)
                                  ELSE full
        /\ byName' = IF disc.rooted THEN byName
                     ELSE Append(RemoveReplacement(byName, new), new)
    BY <1>4 DEF Become, Register, Tables
  <2>2. known # Nothing => known \in 1 .. n
    BY <1>1 DEF EntryOf
  <2>3. known = Nothing => \A i \in DOMAIN sdFiles : sdFiles[i] # ext
    BY <1>1, RiivoAssumption DEF EntryOf, RiivoAssumption
  <2>4. /\ sdFiles' \in Seq(SdPaths) /\ m \in Nat /\ n <= m /\ entry \in 1 .. m
        /\ DOMAIN sdFiles' = 1 .. m
    <3>1. CASE known = Nothing
      BY <1>1, <2>1, <3>1
    <3>2. CASE known # Nothing
      BY <1>1, <2>1, <2>2, <3>2
    <3> QED
      BY <3>1, <3>2
  <2>5. OneEntryPerFile'
    <3>1. CASE known = Nothing
      <4>1. \A i \in 1 .. n : sdFiles'[i] = sdFiles[i]
        BY <1>1, <2>1, <3>1
      <4>2. sdFiles'[n + 1] = ext /\ DOMAIN sdFiles' = 1 .. n + 1
        BY <1>1, <2>1, <3>1
      <4> QED
        BY <1>1, <2>3, <3>1, <4>1, <4>2 DEF OneEntryPerFile, TablesInv
    <3>2. CASE known # Nothing
      BY <2>1, <3>2 DEF OneEntryPerFile, TablesInv
    <3> QED
      BY <3>1, <3>2
  <2>6. new \in Replacements /\ new.hash = Hash[new.disc] /\ new.entry \in 1 .. m
    <3>1. entry \in Nat
      BY <2>4
    <3> QED
      BY <2>4, <3>1 DEF Replacements
  <2> HIDE DEF new, m, n
  <2>7. \A s : Good(s, n) => Good(Append(RemoveReplacement(s, new), new), m)
    BY <1>1, <2>4, <2>6, AppendGood
  <2>8. \A s : Good(s, n) => Good(s, m)
    <3> SUFFICES ASSUME NEW s, Good(s, n) PROVE Good(s, m)
      OBVIOUS
    <3>1. 1 .. n \subseteq 1 .. m
      BY <1>1, <2>4
    <3> QED
      BY <3>1 DEF Good
  <2>9. Good(full', m) /\ Good(byName', m)
    BY <1>1, <2>1, <2>7, <2>8
  <2> QED
    BY <2>4, <2>5, <2>9 DEF m
<1>5. t = Register(Tables, disc, ext) \/
        (sdFiles' = sdFiles /\ full' = full /\ byName' = byName)
  <2>1. t \in {[Tables EXCEPT !.dol = ext], Tables, Register(Tables, disc, ext)}
    BY DEF HandleFilePatch
  <2> QED
    BY <2>1 DEF Become, Tables
<1> QED
  BY <1>3, <1>4, <1>5

LEMMA TablesUnchanged ==
  ASSUME TablesInv, UNCHANGED <<sdFiles, full, byName>>,
         unread' \in Seq(Entries), elements' \in 0 .. MaxPatches,
         phase' \in {"parse", "ready", "fatal"}
  PROVE  TablesInv'
BY DEF TablesInv, TypeOK, TableOK, OneEntryPerFile, Entries

(* An element of the XML, and the entries of a folder one at a time.       *)
LEMMA ParseElementInv ==
  ASSUME TablesInv, ParseElement
  PROVE  elements' \in 0 .. MaxPatches /\ phase' = phase
BY RiivoAssumption DEF TablesInv, TypeOK, ParseElement, RiivoAssumption

LEMMA FolderPatchInv ==
  ASSUME TablesInv, NEW f \in Folders, FolderPatch(f)
  PROVE  TablesInv'
<1>1. PICK order \in SetToSeqs(FolderFiles(f)) :
        unread' = [i \in DOMAIN order |->
          [disc |-> FolderDisc(f, order[i]), ext |-> <<f.dir>> \o order[i]]]
  BY DEF FolderPatch
<1>2. IsFiniteSet(FolderFiles(f))
  <2>1. IsFiniteSet(Tree[f.dir]) /\ FolderFiles(f) \in SUBSET Tree[f.dir]
    BY RiivoAssumption DEF RiivoAssumption, FolderFiles
  <2> QED
    BY <2>1, FS_Subset
<1>3. PICK c \in Nat : order \in [1 .. c -> FolderFiles(f)]
  BY <1>2, FS_CardinalityType DEF SetToSeqs
<1>4. \A i \in 1 .. c :
        [disc |-> FolderDisc(f, order[i]), ext |-> <<f.dir>> \o order[i]] \in Entries
  <2> SUFFICES ASSUME NEW r \in FolderFiles(f)
      PROVE  [disc |-> FolderDisc(f, r), ext |-> <<f.dir>> \o r] \in Entries
    BY <1>3
  <2>1. FolderDisc(f, r) \in PatchDiscs
    <3>1. FolderDisc(f, r) \in {FolderDisc(f, q) : q \in FolderFiles(f)}
      OBVIOUS
    <3> QED
      BY <3>1 DEF PatchDiscs
  <2>2. <<f.dir>> \o r \in SdPaths
    <3>1. <<f.dir>> \o r \in {<<f.dir>> \o q : q \in FolderFiles(f)}
      OBVIOUS
    <3> QED
      BY <3>1 DEF SdPaths
  <2> QED
    BY <2>1, <2>2, Zenon DEF Entries
<1>5. unread' \in Seq(Entries)
  <2>1. DOMAIN order = 1 .. c
    BY <1>3
  <2> HIDE DEF Entries
  <2> DEFINE read(i) == [disc |-> FolderDisc(f, order[i]), ext |-> <<f.dir>> \o order[i]]
  <2>2. unread' = [i \in 1 .. c |-> read(i)] /\ \A i \in 1 .. c : read(i) \in Entries
    BY <1>1, <1>4, <2>1
  <2> HIDE DEF read
  <2> QED
    BY <2>2
<1> QED
  BY <1>5, ParseElementInv, TablesUnchanged DEF FolderPatch, TablesInv, TypeOK

LEMMA PatchFilesInv ==
  ASSUME TablesInv, PatchFiles \/ LoseFiles
  PROVE  TablesInv'
<1>1. ASSUME NEW d \in Discs, NEW e \in Externals, FilePatch(d, e)
      PROVE  TablesInv'
  <2>1. d \in PatchDiscs /\ e \in SdPaths
    BY DEF PatchDiscs, SdPaths
  <2>2. Become(HandleFilePatch(Tables, d, e, TRUE)) /\ unread' \in Seq(Entries)
    BY <1>1 DEF FilePatch, TablesInv, TypeOK, Entries
  <2> QED
    BY <1>1, <2>1, <2>2, ParseElementInv, HandleFileInv DEF FilePatch
<1>2. ASSUME NEW f \in Folders, FolderPatch(f)
      PROVE  TablesInv'
  BY <1>2, FolderPatchInv
<1>3. CASE MissingFolder
  BY <1>3, ParseElementInv, TablesUnchanged DEF MissingFolder, TablesInv, TypeOK, Entries
<1>4. CASE ReadEntry
  <2>1. unread \in Seq(Entries) /\ unread # <<>>
    BY <1>4 DEF ReadEntry, TablesInv, TypeOK, Entries
  <2>2. Head(unread) \in Entries /\ Tail(unread) \in Seq(Entries)
    BY <2>1
  <2>3. Head(unread).disc \in PatchDiscs /\ Head(unread).ext \in SdPaths
    BY <2>2 DEF Entries
  <2>4. /\ Become(HandleFilePatch(Tables, Head(unread).disc, Head(unread).ext, FALSE))
        /\ unread' \in Seq(Entries) /\ elements' \in 0 .. MaxPatches /\ phase' = phase
    BY <1>4, <2>2 DEF ReadEntry, TablesInv, TypeOK
  <2> QED
    BY <2>3, <2>4, HandleFileInv
<1>5. CASE FolderFails
  <2>1. unread \in Seq(Entries)
    BY <1>5 DEF TablesInv, TypeOK, Entries
  <2>2. PICK n \in 1 .. Len(unread) : unread' = SubSeq(unread, n + 1, Len(unread))
    BY <1>5 DEF FolderFails
  <2>3. unread' \in Seq(Entries)
    <3> HIDE DEF Entries
    <3> QED
      BY <2>1, <2>2
  <2> QED
    BY <1>5, <2>3, TablesUnchanged DEF FolderFails, TablesInv, TypeOK, Entries
<1> QED
  BY <1>1, <1>2, <1>3, <1>4, <1>5 DEF PatchFiles, LoseFiles

(* Whatever order the sort leaves, it moves whole entries.                 *)
LEMMA SortedGood ==
  ASSUME NEW n \in Nat, NEW s, Good(s, n), NEW t \in SortedByHash(s)
  PROVE  Good(t, n) /\ Len(t) = Len(s)
<1> DEFINE N == Len(s)
<1>1. s \in Seq(Replacements) /\ N \in Nat /\ DOMAIN s = 1 .. N
  BY DEF Good
<1>2. Cardinality(1 .. N) = N
  <2>1. 1 \in Int /\ N \in Int
    BY <1>1
  <2> HIDE DEF N
  <2>2. Cardinality(1 .. N) = IF 1 > N THEN 0 ELSE N - 1 + 1
    BY <2>1, FS_Interval, Zenon
  <2> QED
    BY <1>1, <2>2 DEF N
<1>3. PICK p \in SetToSeqs(DOMAIN s) : t = [i \in DOMAIN s |-> s[p[i]]]
  BY DEF SortedByHash
<1>4. /\ p \in [1 .. N -> 1 .. N]
      /\ \A i, j \in 1 .. N : i # j => p[i] # p[j]
  BY <1>1, <1>2 DEF SetToSeqs
<1> HIDE DEF N
<1>5. \A i \in 1 .. N : p[i] \in 1 .. N /\ t[i] = s[p[i]]
  BY <1>1, <1>3, <1>4
<1>6. t \in Seq(Replacements) /\ DOMAIN t = 1 .. N /\ Len(t) = N
  <2>1. \A i \in 1 .. N : s[p[i]] \in Replacements
    BY <1>1, <1>4
  <2>2. t = [i \in 1 .. N |-> s[p[i]]]
    BY <1>1, <1>3
  <2> QED
    BY <1>1, <2>1, <2>2
<1>7. \A i \in 1 .. N : t[i].entry \in 1 .. n /\ t[i].hash = Hash[t[i].disc]
  BY <1>1, <1>5 DEF Good
<1>8. \A i, j \in 1 .. N : t[i].disc = t[j].disc => i = j
  BY <1>1, <1>4, <1>5 DEF Good
<1>9. Good(t, n)
  BY <1>6, <1>7, <1>8, Zenon DEF Good
<1> QED
  BY <1>6, <1>9 DEF N

LEMMA FinishInv ==
  ASSUME TablesInv, Finish
  PROVE  TablesInv' /\ Len(full') = Len(full) /\ Len(byName') = Len(byName)
<1>1. /\ Len(sdFiles) \in Nat /\ DOMAIN sdFiles = 1 .. Len(sdFiles)
      /\ Good(full, Len(sdFiles)) /\ Good(byName, Len(sdFiles))
  BY TablesAsGood DEF TablesInv
<1>2. /\ Good(full', Len(sdFiles)) /\ Good(byName', Len(sdFiles))
      /\ Len(full') = Len(full) /\ Len(byName') = Len(byName)
  BY <1>1, SortedGood DEF Finish
<1>3. sdFiles' = sdFiles
  BY DEF Finish
<1>4. TableOK(full)' /\ TableOK(byName)'
  BY <1>1, <1>2, <1>3 DEF Good, TableOK
<1>5. unread' = unread /\ elements' = elements /\ phase' = "ready"
  BY DEF Finish
<1> QED
  BY <1>2, <1>3, <1>4, <1>5 DEF TablesInv, TypeOK, OneEntryPerFile

-----------------------------------------------------------------------------
(* The search in a table that is ordered by hash                           *)

Ordered(t) == \A i, j \in DOMAIN t : i <= j => t[i].hash <= t[j].hash

(* Neighbours in order put the whole table in order.                       *)
LEMMA NeighboursOrder ==
  ASSUME NEW t, NEW n \in Nat, DOMAIN t = 1 .. n,
         \A i \in 1 .. n : t[i].hash \in Nat,
         \A i \in 1 .. n - 1 : t[i].hash <= t[i + 1].hash
  PROVE  Ordered(t)
<1> DEFINE S == {d \in Nat : \A i \in 1 .. n :
                   i + d <= n => t[i].hash <= t[i + d].hash}
<1>1. 0 \in S
  OBVIOUS
<1>2. ASSUME NEW d \in Nat, d \in S PROVE d + 1 \in S
  <2> SUFFICES ASSUME NEW i \in 1 .. n, i + (d + 1) <= n
      PROVE  t[i].hash <= t[i + (d + 1)].hash
    OBVIOUS
  <2>1. i + d \in 1 .. n - 1 /\ i + (d + 1) = (i + d) + 1
    OBVIOUS
  <2>2. t[i].hash <= t[i + d].hash
    BY <1>2, <2>1
  <2>3. t[i + d].hash <= t[(i + d) + 1].hash
    BY <2>1
  <2>4. t[i].hash \in Nat /\ t[i + d].hash \in Nat /\ t[(i + d) + 1].hash \in Nat
    BY <2>1
  <2>5. t[i].hash <= t[(i + d) + 1].hash
    BY <2>2, <2>3, <2>4
  <2>6. t[i + (d + 1)] = t[(i + d) + 1]
    BY <2>1
  <2> QED
    BY <2>5, <2>6
<1>3. Nat \subseteq S
  <2> HIDE DEF S
  <2> QED
    BY <1>1, <1>2, Induction
<1>4. ASSUME NEW i \in 1 .. n, NEW j \in 1 .. n, i <= j
      PROVE  t[i].hash <= t[j].hash
  <2>1. j - i \in Nat /\ i + (j - i) = j
    BY <1>4
  <2>2. j - i \in S
    BY <1>3, <2>1
  <2>3. i + (j - i) <= n => t[i].hash <= t[i + (j - i)].hash
    BY <2>2
  <2> QED
    BY <2>1, <2>3
<1> QED
  BY <1>4 DEF Ordered

(* Where the entries with hash h begin.                                    *)
IsFirst(t, h, f) ==
  /\ f \in DOMAIN t /\ t[f].hash = h
  /\ \A i \in DOMAIN t : t[i].hash = h => f <= i

LEMMA WalkBackEquation ==
  ASSUME NEW t, NEW h, NEW n \in Nat, DOMAIN t = 1 .. n
  PROVE  WalkBack(t, h) = [i \in DOMAIN t |->
           IF i > 1 /\ t[i - 1].hash = h THEN WalkBack(t, h)[i - 1] ELSE i]
<1> DEFINE from(i) == {j \in 1 .. i : \A k \in j .. i - 1 : t[k].hash = h}
           g == [i \in DOMAIN t |-> Min(from(i))]
<1>1. ASSUME NEW i \in 1 .. n
      PROVE  g[i] = IF i > 1 /\ t[i - 1].hash = h THEN g[i - 1] ELSE i
  <2>0. \A j \in 1 .. n : /\ from(j) \subseteq Nat /\ j \in from(j)
                          /\ Min(from(j)) \in from(j)
                          /\ \A y \in from(j) : Min(from(j)) <= y
    <3> SUFFICES ASSUME NEW j \in 1 .. n
        PROVE  /\ from(j) \subseteq Nat /\ j \in from(j)
               /\ Min(from(j)) \in from(j)
               /\ \A y \in from(j) : Min(from(j)) <= y
      OBVIOUS
    <3>1. from(j) \subseteq Nat /\ j \in from(j)
      OBVIOUS
    <3> HIDE DEF from
    <3> QED
      BY <3>1, MinMember
  <2>1. CASE i > 1 /\ t[i - 1].hash = h
    <3>1. i - 1 \in 1 .. n
      BY <2>1
    <3>2. from(i) = from(i - 1) \cup {i}
      BY <2>1
    <3>3. \A y \in from(i - 1) : y <= i - 1
      OBVIOUS
    <3>4. g[i] = Min(from(i)) /\ g[i - 1] = Min(from(i - 1))
      BY <3>1
    <3> DEFINE a == Min(from(i)) b == Min(from(i - 1))
    <3>5. /\ a \in from(i) /\ (\A y \in from(i) : a <= y)
          /\ b \in from(i - 1) /\ (\A y \in from(i - 1) : b <= y)
          /\ from(i) \subseteq Nat
      BY <2>0, <3>1
    <3> HIDE DEF from, g, a, b
    <3>6. b \in from(i) /\ a \in Nat /\ b \in Nat
      BY <3>2, <3>5
    <3>7. a <= b
      BY <3>5, <3>6
    <3>8. a \in from(i - 1)
      BY <2>1, <3>2, <3>3, <3>5, <3>6, <3>7
    <3>9. a = b
      BY <3>5, <3>6, <3>7, <3>8
    <3> QED
      BY <2>1, <3>4, <3>9 DEF a, b
  <2>2. CASE ~(i > 1 /\ t[i - 1].hash = h)
    <3>1. from(i) = {i}
      BY <2>2
    <3>2. Min(from(i)) = i
      <4> HIDE DEF from
      <4> QED
        BY <2>0, <3>1
    <3> QED
      BY <2>2, <3>2
  <2> QED
    BY <2>1, <2>2
<1> HIDE DEF g
<1>2. g = [i \in DOMAIN t |->
             IF i > 1 /\ t[i - 1].hash = h THEN g[i - 1] ELSE i]
  <2>1. DOMAIN g = 1 .. n /\ g = [i \in DOMAIN t |-> g[i]]
    BY DEF g
  <2> QED
    BY <1>1, <2>1
<1> QED
  BY <1>2, Zenon DEF WalkBack

LEMMA WalkBackFinds ==
  ASSUME NEW t, NEW h, NEW n \in Nat, DOMAIN t = 1 .. n, Ordered(t),
         \A i \in 1 .. n : t[i].hash \in Nat,
         NEW i \in 1 .. n, t[i].hash = h
  PROVE  IsFirst(t, h, WalkBack(t, h)[i])
<1> DEFINE back == WalkBack(t, h)
           S == {d \in Nat : \A j \in 1 .. n :
                   j <= d + 1 /\ t[j].hash = h => IsFirst(t, h, back[j])}
<1>1. \A j \in 1 .. n :
        back[j] = IF j > 1 /\ t[j - 1].hash = h THEN back[j - 1] ELSE j
  <2> HIDE DEF back
  <2>1. back = [j \in 1 .. n |->
                  IF j > 1 /\ t[j - 1].hash = h THEN back[j - 1] ELSE j]
    BY WalkBackEquation DEF back
  <2> QED
    BY <2>1
<1> HIDE DEF back
<1>2. ASSUME NEW j \in 1 .. n, t[j].hash = h, ~(j > 1 /\ t[j - 1].hash = h)
      PROVE  IsFirst(t, h, j)
  <2> SUFFICES ASSUME NEW k \in 1 .. n, t[k].hash = h, k < j PROVE FALSE
    BY <1>2 DEF IsFirst
  <2>1. j - 1 \in 1 .. n /\ k <= j - 1 /\ j - 1 <= j
    OBVIOUS
  <2>2. t[k].hash <= t[j - 1].hash /\ t[j - 1].hash <= t[j].hash
    BY <2>1 DEF Ordered
  <2>3. t[j - 1].hash = h
    BY <1>2, <2>1, <2>2
  <2> QED
    BY <1>2, <2>1, <2>3
<1>3. 0 \in S
  <2> SUFFICES ASSUME NEW j \in 1 .. n, j <= 1, t[j].hash = h
      PROVE  IsFirst(t, h, back[j])
    OBVIOUS
  <2>1. ~(j > 1)
    OBVIOUS
  <2> QED
    BY <1>1, <1>2, <2>1
<1>4. ASSUME NEW d \in Nat, d \in S PROVE d + 1 \in S
  <2> SUFFICES ASSUME NEW j \in 1 .. n, j <= (d + 1) + 1, t[j].hash = h
      PROVE  IsFirst(t, h, back[j])
    OBVIOUS
  <2>1. CASE j > 1 /\ t[j - 1].hash = h
    <3>1. j - 1 \in 1 .. n /\ j - 1 <= d + 1
      BY <2>1
    <3>2. IsFirst(t, h, back[j - 1])
      BY <1>4, <2>1, <3>1
    <3> QED
      BY <1>1, <2>1, <3>2
  <2>2. CASE ~(j > 1 /\ t[j - 1].hash = h)
    BY <1>1, <1>2, <2>2
  <2> QED
    BY <2>1, <2>2
<1>5. Nat \subseteq S
  <2> HIDE DEF S
  <2> QED
    BY <1>3, <1>4, Induction
<1>6. n \in S /\ i <= n + 1
  BY <1>5
<1> QED
  BY <1>6 DEF back

(* Halving the part that the search is in.                                 *)
LEMMA Halves ==
  ASSUME NEW lo \in Nat, NEW hi \in Nat, lo < hi
  PROVE  LET mid == (lo + hi) \div 2 IN mid \in lo .. hi - 1
OBVIOUS

LEMMA BinarySearchEquation ==
  ASSUME NEW t, NEW h \in Nat, NEW n \in Nat, DOMAIN t = 1 .. n, Len(t) = n,
         \A i \in 1 .. n : t[i].hash \in Nat,
         Ordered(t)
  PROVE  BinarySearch(t, h) = [w \in Windows(t) |->
           LET mid == (w.lo + w.hi) \div 2 IN
           IF w.lo >= w.hi THEN Nothing
           ELSE IF t[mid].hash = h THEN WalkBack(t, h)[mid]
           ELSE IF t[mid].hash < h THEN BinarySearch(t, h)[[w EXCEPT !.lo = mid + 1]]
           ELSE BinarySearch(t, h)[[w EXCEPT !.hi = mid]]]
<1> DEFINE has(w) == \E i \in w.lo .. w.hi - 1 : t[i].hash = h
           F == CHOOSE f : IsFirst(t, h, f)
           g == [w \in Windows(t) |-> IF has(w) THEN F ELSE Nothing]
           back == WalkBack(t, h)
<1>1. ASSUME NEW w \in Windows(t), w.lo < w.hi, NEW mid, mid = (w.lo + w.hi) \div 2
      PROVE  /\ mid \in w.lo .. w.hi - 1 /\ mid \in 1 .. n
             /\ [w EXCEPT !.lo = mid + 1] \in Windows(t)
             /\ [w EXCEPT !.hi = mid] \in Windows(t)
  <2>1. w.lo \in 1 .. n + 1 /\ w.hi \in 1 .. n + 1
    BY DEF Windows
  <2>2. mid \in w.lo .. w.hi - 1 /\ mid \in 1 .. n
    BY <1>1, <2>1, Halves
  <2>3. mid + 1 \in 1 .. n + 1 /\ mid \in 1 .. n + 1
    BY <2>2
  <2> QED
    BY <2>2, <2>3 DEF Windows
<1>2. ASSUME NEW i \in 1 .. n, t[i].hash = h PROVE back[i] = F
  <2>1. IsFirst(t, h, back[i])
    BY <1>2, WalkBackFinds
  <2>2. IsFirst(t, h, F)
    BY <2>1
  <2>3. back[i] \in 1 .. n /\ F \in 1 .. n /\ back[i] <= F /\ F <= back[i]
    BY <2>1, <2>2 DEF IsFirst
  <2> QED
    BY <2>3
<1> HIDE DEF F, back
<1>3. ASSUME NEW w \in Windows(t), NEW mid, mid = (w.lo + w.hi) \div 2
      PROVE  g[w] = IF w.lo >= w.hi THEN Nothing
           ELSE IF t[mid].hash = h THEN back[mid]
           ELSE IF t[mid].hash < h THEN g[[w EXCEPT !.lo = mid + 1]]
           ELSE g[[w EXCEPT !.hi = mid]]
  <2>0. w.lo \in 1 .. n + 1 /\ w.hi \in 1 .. n + 1
    BY DEF Windows
  <2>1. CASE w.lo >= w.hi
    BY <2>0, <2>1
  <2>2. CASE w.lo < w.hi
    <3>1. mid \in w.lo .. w.hi - 1 /\ mid \in 1 .. n
      BY <1>1, <1>3, <2>2
    <3>2. CASE t[mid].hash = h
      BY <1>2, <2>0, <2>2, <3>1, <3>2
    <3>3. CASE t[mid].hash < h
      <4> DEFINE v == [w EXCEPT !.lo = mid + 1]
      <4>1. v \in Windows(t) /\ v.lo = mid + 1 /\ v.hi = w.hi
        BY <1>1, <1>3, <2>2 DEF Windows
      <4>2. \A i \in w.lo .. mid : t[i].hash < h
        <5> SUFFICES ASSUME NEW i \in w.lo .. mid PROVE t[i].hash < h
          OBVIOUS
        <5>1. i \in 1 .. n /\ i <= mid
          BY <2>0, <3>1
        <5>2. t[i].hash <= t[mid].hash
          BY <3>1, <5>1 DEF Ordered
        <5> QED
          BY <3>1, <3>3, <5>1, <5>2
      <4>3. has(w) <=> has(v)
        <5>1. \A i \in w.lo .. w.hi - 1 : i \in w.lo .. mid \/ i \in v.lo .. v.hi - 1
          BY <2>0, <3>1, <4>1
        <5>2. \A i \in v.lo .. v.hi - 1 : i \in w.lo .. w.hi - 1
          BY <2>0, <3>1, <4>1
        <5>3. \A i \in w.lo .. mid : t[i].hash # h
          <6> SUFFICES ASSUME NEW i \in w.lo .. mid PROVE t[i].hash # h
            OBVIOUS
          <6>1. t[i].hash \in Nat
            BY <2>0, <3>1
          <6> QED
            BY <4>2, <6>1
        <5> QED
          BY <5>1, <5>2, <5>3
      <4> HIDE DEF v, has
      <4>4. g[w] = g[v]
        BY <4>1, <4>3
      <4> QED
        BY <2>0, <2>2, <3>1, <3>3, <4>4 DEF v
    <3>4. CASE t[mid].hash > h
      <4> DEFINE v == [w EXCEPT !.hi = mid]
      <4>1. v \in Windows(t) /\ v.lo = w.lo /\ v.hi = mid
        BY <1>1, <1>3, <2>2 DEF Windows
      <4>2. \A i \in mid .. w.hi - 1 : t[i].hash > h
        <5> SUFFICES ASSUME NEW i \in mid .. w.hi - 1 PROVE t[i].hash > h
          OBVIOUS
        <5>1. i \in 1 .. n /\ mid <= i
          BY <2>0, <3>1
        <5>2. t[mid].hash <= t[i].hash
          BY <3>1, <5>1 DEF Ordered
        <5> QED
          BY <3>1, <3>4, <5>1, <5>2
      <4>3. has(w) <=> has(v)
        <5>1. \A i \in w.lo .. w.hi - 1 : i \in mid .. w.hi - 1 \/ i \in v.lo .. v.hi - 1
          BY <2>0, <3>1, <4>1
        <5>2. \A i \in v.lo .. v.hi - 1 : i \in w.lo .. w.hi - 1
          BY <2>0, <3>1, <4>1
        <5>3. \A i \in mid .. w.hi - 1 : t[i].hash # h
          <6> SUFFICES ASSUME NEW i \in mid .. w.hi - 1 PROVE t[i].hash # h
            OBVIOUS
          <6>1. t[i].hash \in Nat
            BY <2>0, <3>1
          <6> QED
            BY <4>2, <6>1
        <5> QED
          BY <5>1, <5>2, <5>3
      <4> HIDE DEF v, has
      <4>4. g[w] = g[v]
        BY <4>1, <4>3
      <4>5. ~(t[mid].hash = h) /\ ~(t[mid].hash < h) /\ ~(w.lo >= w.hi)
        BY <2>0, <2>2, <3>1, <3>4
      <4> QED
        BY <4>4, <4>5 DEF v
    <3>5. t[mid].hash \in Nat
      BY <3>1
    <3>6. t[mid].hash = h \/ t[mid].hash < h \/ t[mid].hash > h
      BY <3>5
    <3> HIDE DEF g
    <3> QED
      BY <3>2, <3>3, <3>4, <3>6
  <2> HIDE DEF g
  <2> QED
    BY <2>0, <2>1, <2>2
<1> HIDE DEF g
<1>4. g = [w \in Windows(t) |->
           LET mid == (w.lo + w.hi) \div 2 IN
           IF w.lo >= w.hi THEN Nothing
           ELSE IF t[mid].hash = h THEN WalkBack(t, h)[mid]
           ELSE IF t[mid].hash < h THEN g[[w EXCEPT !.lo = mid + 1]]
           ELSE g[[w EXCEPT !.hi = mid]]]
  <2>1. g = [w \in Windows(t) |-> g[w]]
    BY DEF g
  <2> QED
    BY <1>3, <2>1 DEF back
<1> QED
  BY <1>4, Zenon DEF BinarySearch

(* Of what is left of the table, the search misses no entry with the hash. *)
LEMMA BinarySearchFinds ==
  ASSUME NEW t, NEW h \in Nat, NEW n \in Nat, DOMAIN t = 1 .. n, Len(t) = n,
         \A i \in 1 .. n : t[i].hash \in Nat,
         Ordered(t)
  PROVE  LET f == FirstWithHash(t, h) IN
         \/ f = Nothing /\ \A i \in 1 .. n : t[i].hash # h
         \/ f # Nothing /\ IsFirst(t, h, f)
<1> DEFINE bs == BinarySearch(t, h)
           Right(w) ==
             \/ bs[w] = Nothing /\ \A i \in w.lo .. w.hi - 1 : t[i].hash # h
             \/ bs[w] # Nothing /\ IsFirst(t, h, bs[w])
           S == {d \in Nat : \A w \in Windows(t) : w.hi - w.lo <= d => Right(w)}
<1>1. \A w \in Windows(t) :
        bs[w] = LET mid == (w.lo + w.hi) \div 2 IN
           IF w.lo >= w.hi THEN Nothing
           ELSE IF t[mid].hash = h THEN WalkBack(t, h)[mid]
           ELSE IF t[mid].hash < h THEN bs[[w EXCEPT !.lo = mid + 1]]
           ELSE bs[[w EXCEPT !.hi = mid]]
  <2> HIDE DEF bs
  <2>1. bs = [v \in Windows(t) |->
           LET m == (v.lo + v.hi) \div 2 IN
           IF v.lo >= v.hi THEN Nothing
           ELSE IF t[m].hash = h THEN WalkBack(t, h)[m]
           ELSE IF t[m].hash < h THEN bs[[v EXCEPT !.lo = m + 1]]
           ELSE bs[[v EXCEPT !.hi = m]]]
    BY BinarySearchEquation DEF bs
  <2> QED
    BY <2>1
<1> HIDE DEF bs
<1>2. \A w \in Windows(t) : w.lo \in 1 .. n + 1 /\ w.hi \in 1 .. n + 1
  BY DEF Windows
<1>3. ASSUME NEW w \in Windows(t), w.lo >= w.hi PROVE Right(w)
  <2>1. bs[w] = Nothing
    BY <1>1, <1>3
  <2>2. \A i \in w.lo .. w.hi - 1 : FALSE
    BY <1>2, <1>3
  <2> QED
    BY <2>1, <2>2
<1>4. 0 \in S
  <2> SUFFICES ASSUME NEW w \in Windows(t), w.hi - w.lo <= 0 PROVE Right(w)
    OBVIOUS
  <2>1. w.lo >= w.hi
    BY <1>2
  <2> QED
    BY <1>3, <2>1
<1>5. ASSUME NEW d \in Nat, d \in S PROVE d + 1 \in S
  <2> SUFFICES ASSUME NEW w \in Windows(t), w.hi - w.lo <= d + 1, w.lo < w.hi
      PROVE  Right(w)
    BY <1>2, <1>3
  <2> DEFINE mid == (w.lo + w.hi) \div 2
             up == [w EXCEPT !.lo = mid + 1]
             down == [w EXCEPT !.hi = mid]
  <2>1. mid \in w.lo .. w.hi - 1 /\ mid \in 1 .. n
    <3>1. w.lo \in Nat /\ w.hi \in Nat /\ w.lo \in 1 .. n + 1 /\ w.hi \in 1 .. n + 1
      BY <1>2
    <3>2. mid \in w.lo .. w.hi - 1
      BY <3>1, Halves
    <3> QED
      BY <3>1, <3>2
  <2>2. bs[w] = IF t[mid].hash = h THEN WalkBack(t, h)[mid]
                ELSE IF t[mid].hash < h THEN bs[up] ELSE bs[down]
    BY <1>1, <1>2
  <2> HIDE DEF mid
  <2>3. /\ up \in Windows(t) /\ up.lo = mid + 1 /\ up.hi = w.hi
        /\ down \in Windows(t) /\ down.lo = w.lo /\ down.hi = mid
    BY <2>1 DEF Windows
  <2> HIDE DEF up, down
  <2>4. up.hi - up.lo <= d /\ down.hi - down.lo <= d
    BY <1>2, <2>1, <2>3
  <2>5. CASE t[mid].hash = h
    <3>1. IsFirst(t, h, WalkBack(t, h)[mid])
      BY <2>1, <2>5, WalkBackFinds
    <3>2. WalkBack(t, h)[mid] # Nothing
      BY <3>1, RiivoAssumption DEF IsFirst, RiivoAssumption
    <3> QED
      BY <2>2, <2>5, <3>1, <3>2
  <2>6. CASE t[mid].hash < h
    <3>1. Right(up)
      BY <1>5, <2>3, <2>4
    <3>2. bs[w] = bs[up]
      BY <2>1, <2>2, <2>6
    <3>3. ASSUME NEW i \in w.lo .. mid PROVE t[i].hash # h
      <4>1. i \in 1 .. n /\ i <= mid
        BY <1>2, <2>1
      <4>2. t[i].hash <= t[mid].hash /\ t[i].hash \in Nat /\ t[mid].hash \in Nat
        BY <2>1, <4>1 DEF Ordered
      <4> QED
        BY <2>6, <4>2
    <3>4. \A i \in w.lo .. w.hi - 1 : i \in w.lo .. mid \/ i \in up.lo .. up.hi - 1
      BY <1>2, <2>1, <2>3
    <3> QED
      BY <3>1, <3>2, <3>3, <3>4
  <2>7. CASE t[mid].hash > h
    <3>1. Right(down)
      BY <1>5, <2>3, <2>4
    <3>2. bs[w] = bs[down]
      BY <2>1, <2>2, <2>7
    <3>3. ASSUME NEW i \in mid .. w.hi - 1 PROVE t[i].hash # h
      <4>1. i \in 1 .. n /\ mid <= i
        BY <1>2, <2>1
      <4>2. t[mid].hash <= t[i].hash /\ t[i].hash \in Nat /\ t[mid].hash \in Nat
        BY <2>1, <4>1 DEF Ordered
      <4> QED
        BY <2>7, <4>2
    <3>4. \A i \in w.lo .. w.hi - 1 : i \in mid .. w.hi - 1 \/ i \in down.lo .. down.hi - 1
      BY <1>2, <2>1, <2>3
    <3> QED
      BY <3>1, <3>2, <3>3, <3>4
  <2> QED
    BY <2>1, <2>5, <2>6, <2>7
<1>6. Nat \subseteq S
  <2> HIDE DEF S
  <2> QED
    BY <1>4, <1>5, Induction
<1> DEFINE e == EntireTable(t)
<1>7. e \in Windows(t) /\ e.lo = 1 /\ e.hi = n + 1
  BY DEF EntireTable, Windows
<1> HIDE DEF e
<1>8. n \in S /\ e.hi - e.lo <= n
  BY <1>6, <1>7
<1>9. Right(e)
  BY <1>7, <1>8
<1>10. FirstWithHash(t, h) = bs[e]
  BY DEF FirstWithHash, bs, e
<1> QED
  BY <1>7, <1>9, <1>10

(* Among the entries with the hash of a path is the one of that path, if   *)
(* the table has it.                                                       *)
Names(t, path, j) == j \in DOMAIN t /\ LowerCase(t[j].disc) = LowerCase(path)

LEMMA WalkForthEquation ==
  ASSUME NEW t, NEW path, NEW h, NEW n \in Nat, DOMAIN t = 1 .. n, Len(t) = n,
         \A i, j \in 1 .. n : Names(t, path, i) /\ Names(t, path, j) => i = j,
         \A j \in 1 .. n : Names(t, path, j) => t[j].hash = h
  PROVE  WalkForth(t, path, h) = [i \in 1 .. Len(t) + 1 |->
           IF i > Len(t) \/ t[i].hash # h THEN Nothing
           ELSE IF LowerCase(t[i].disc) = LowerCase(path) THEN t[i].entry
           ELSE WalkForth(t, path, h)[i + 1]]
<1> DEFINE reach(i, j) == Names(t, path, j) /\ \A k \in i .. j : t[k].hash = h
           J == CHOOSE j \in 1 .. n : Names(t, path, j)
           g == [i \in 1 .. Len(t) + 1 |->
                  IF \E j \in i .. n : reach(i, j) THEN t[J].entry ELSE Nothing]
<1>1. ASSUME NEW i \in 1 .. n + 1
      PROVE  g[i] = IF i > n \/ t[i].hash # h THEN Nothing
           ELSE IF LowerCase(t[i].disc) = LowerCase(path) THEN t[i].entry
           ELSE g[i + 1]
  <2> DEFINE found(x) == \E j \in x .. n : reach(x, j)
  <2>0. \A x \in 1 .. n + 1 : g[x] = IF found(x) THEN t[J].entry ELSE Nothing
    OBVIOUS
  <2>1. CASE i > n \/ t[i].hash # h
    <3>1. ~ found(i)
      BY <2>1
    <3> QED
      BY <2>0, <2>1, <3>1
  <2>2. CASE i \in 1 .. n /\ t[i].hash = h /\ Names(t, path, i)
    <3>1. found(i)
      BY <2>2
    <3>2. J = i
      BY <2>2
    <3> HIDE DEF found, g, J
    <3> QED
      BY <2>0, <2>2, <3>1, <3>2 DEF Names
  <2>3. CASE i \in 1 .. n /\ t[i].hash = h /\ ~ Names(t, path, i)
    <3>1. ASSUME NEW j \in i .. n, reach(i, j) PROVE j \in i + 1 .. n /\ reach(i + 1, j)
      <4>1. j # i
        BY <2>3, <3>1
      <4> QED
        BY <3>1, <4>1
    <3>2. ASSUME NEW j \in i + 1 .. n, reach(i + 1, j) PROVE j \in i .. n /\ reach(i, j)
      <4>1. \A k \in i .. j : k = i \/ k \in i + 1 .. j
        OBVIOUS
      <4> QED
        BY <2>3, <3>2, <4>1
    <3> HIDE DEF reach, g, J
    <3>3. found(i) <=> found(i + 1)
      BY <3>1, <3>2
    <3>4. i + 1 \in 1 .. n + 1 /\ ~(i > n)
      BY <2>3
    <3> HIDE DEF found
    <3> QED
      BY <2>0, <2>3, <3>3, <3>4 DEF Names
  <2> HIDE DEF g
  <2> QED
    BY <2>1, <2>2, <2>3
<1> HIDE DEF g
<1>2. g = [i \in 1 .. Len(t) + 1 |->
           IF i > Len(t) \/ t[i].hash # h THEN Nothing
           ELSE IF LowerCase(t[i].disc) = LowerCase(path) THEN t[i].entry
           ELSE g[i + 1]]
  <2>1. g = [i \in 1 .. Len(t) + 1 |-> g[i]]
    BY DEF g
  <2> QED
    BY <1>1, <2>1
<1> QED
  BY <1>2, Zenon DEF WalkForth

(* The search finds the entry of a path by its hash and its text, however  *)
(* many others have the same hash.                                         *)
LEMMA SearchFinds ==
  ASSUME NEW t, NEW m, Good(t, m), Ordered(t), NEW path, Hash[LowerCase(path)] \in Nat,
         \A i \in DOMAIN t : t[i].hash \in Nat /\ LowerCase(t[i].disc) = t[i].disc
  PROVE  /\ \A j \in DOMAIN t :
              t[j].disc = LowerCase(path) => SearchReplacement(t, path) = t[j].entry
         /\ (\A j \in DOMAIN t : t[j].disc # LowerCase(path)) =>
              SearchReplacement(t, path) = Nothing
<1> DEFINE n == Len(t)
           h == Hash[LowerCase(path)]
           f == FirstWithHash(t, h)
           forth == WalkForth(t, path, h)
<1>1. n \in Nat /\ DOMAIN t = 1 .. n
  BY DEF Good
<1>2. \A j \in 1 .. n : Names(t, path, j) <=> t[j].disc = LowerCase(path)
  BY <1>1 DEF Names
<1>3. \A j \in 1 .. n : Names(t, path, j) => t[j].hash = h
  BY <1>1, <1>2 DEF Good
<1>4. \A i, j \in 1 .. n : Names(t, path, i) /\ Names(t, path, j) => i = j
  BY <1>1, <1>2 DEF Good
<1> HIDE DEF n, h
<1>5. h \in Nat
  BY DEF h
<1>6. \/ f = Nothing /\ \A i \in 1 .. n : t[i].hash # h
      \/ f # Nothing /\ IsFirst(t, h, f)
  BY <1>1, <1>5, BinarySearchFinds DEF n
<1>7. SearchReplacement(t, path) = IF f = Nothing THEN Nothing ELSE forth[f]
  BY DEF SearchReplacement, h
<1> HIDE DEF f
<1>8. \A i \in 1 .. n + 1 :
        forth[i] = IF i > n \/ t[i].hash # h THEN Nothing
           ELSE IF LowerCase(t[i].disc) = LowerCase(path) THEN t[i].entry
           ELSE forth[i + 1]
  <2> HIDE DEF forth
  <2>1. forth = [i \in 1 .. Len(t) + 1 |->
           IF i > Len(t) \/ t[i].hash # h THEN Nothing
           ELSE IF LowerCase(t[i].disc) = LowerCase(path) THEN t[i].entry
           ELSE forth[i + 1]]
    BY <1>1, <1>3, <1>4, WalkForthEquation DEF n, forth
  <2> QED
    BY <2>1 DEF n
<1> HIDE DEF forth
<1>9. ASSUME NEW j \in DOMAIN t, t[j].disc = LowerCase(path)
      PROVE  SearchReplacement(t, path) = t[j].entry
  <2>1. j \in 1 .. n /\ Names(t, path, j) /\ t[j].hash = h
    BY <1>1, <1>2, <1>3, <1>9
  <2>2. f # Nothing /\ IsFirst(t, h, f)
    BY <1>6, <2>1
  <2>3. f \in 1 .. n /\ f <= j /\ t[f].hash = h
    BY <1>1, <2>1, <2>2 DEF IsFirst
  <2>4. \A k \in f .. j : k \in 1 .. n /\ t[k].hash = h
    <3> SUFFICES ASSUME NEW k \in f .. j PROVE k \in 1 .. n /\ t[k].hash = h
      OBVIOUS
    <3>1. k \in 1 .. n /\ f <= k /\ k <= j
      BY <1>1, <2>1, <2>3
    <3>2. t[f].hash <= t[k].hash /\ t[k].hash <= t[j].hash /\ t[k].hash \in Nat
      BY <1>1, <2>1, <2>3, <3>1 DEF Ordered
    <3> QED
      BY <1>5, <2>1, <2>3, <3>1, <3>2
  <2> DEFINE S == {i \in 1 .. n + 1 : i \in f .. j => forth[i] = t[j].entry}
  <2>5. n + 1 \in S
    BY <1>1, <2>1
  <2>6. ASSUME NEW i \in 1 .. n, i + 1 \in S PROVE i \in S
    <3> SUFFICES ASSUME i \in f .. j PROVE forth[i] = t[j].entry
      BY <1>1
    <3>1. t[i].hash = h /\ i \in 1 .. n + 1 /\ ~(i > n)
      BY <1>1, <2>4
    <3>2. forth[i] = IF LowerCase(t[i].disc) = LowerCase(path) THEN t[i].entry
                     ELSE forth[i + 1]
      BY <1>8, <3>1
    <3>3. CASE i = j
      BY <2>1, <3>2, <3>3 DEF Names
    <3>4. CASE i # j
      <4>1. i + 1 \in f .. j /\ forth[i + 1] = t[j].entry
        BY <1>1, <2>3, <2>6, <3>4
      <4>2. ~ Names(t, path, i)
        BY <1>4, <2>1, <3>4
      <4> QED
        BY <1>1, <3>2, <4>1, <4>2 DEF Names
    <3> QED
      BY <3>3, <3>4
  <2>7. 1 .. n + 1 \subseteq S
    <3> HIDE DEF S
    <3> QED
      BY <1>1, <2>5, <2>6, InductionDown
  <2>8. f \in S /\ f \in f .. j
    BY <1>1, <2>1, <2>3, <2>7
  <2> QED
    BY <1>7, <2>2, <2>8
<1>10. ASSUME \A j \in DOMAIN t : t[j].disc # LowerCase(path)
       PROVE  SearchReplacement(t, path) = Nothing
  <2> DEFINE S == {i \in 1 .. n + 1 : forth[i] = Nothing}
  <2>1. n + 1 \in S
    BY <1>1, <1>8
  <2>2. ASSUME NEW i \in 1 .. n, i + 1 \in S PROVE i \in S
    <3>1. i \in 1 .. n + 1 /\ ~ Names(t, path, i)
      BY <1>1, <1>2, <1>10
    <3>2. LowerCase(t[i].disc) # LowerCase(path)
      BY <1>1, <3>1 DEF Names
    <3> QED
      BY <1>8, <2>2, <3>1, <3>2
  <2>3. 1 .. n + 1 \subseteq S
    <3> HIDE DEF S
    <3> QED
      BY <1>1, <2>1, <2>2, InductionDown
  <2>4. f # Nothing => f \in 1 .. n + 1
    BY <1>1, <1>6 DEF IsFirst
  <2> QED
    BY <1>7, <2>3, <2>4
<1> QED
  BY <1>9, <1>10

-----------------------------------------------------------------------------
(* The tables and the patches that they come from                          *)

(* The last of the patches for that path, of that kind.                    *)
IsLatest(hist, rooted, path, k) ==
  /\ k \in DOMAIN hist /\ hist[k].disc.rooted = rooted /\ hist[k].disc.path = path
  /\ \A l \in DOMAIN hist :
       hist[l].disc.rooted = rooted /\ hist[l].disc.path = path => l <= k

(* Each entry leads to the SD file of the last patch for its path, and     *)
(* each path of a patch has an entry.                                      *)
Reflects(t, files, hist, rooted) ==
  /\ \A i \in DOMAIN t : \E k \in DOMAIN hist :
       IsLatest(hist, rooted, t[i].disc, k) /\ files[t[i].entry] = hist[k].ext
  /\ \A k \in DOMAIN hist : hist[k].disc.rooted = rooted =>
       \E i \in DOMAIN t : t[i].disc = hist[k].disc.path

PatchRecords == [disc : PatchDiscs, ext : SdPaths]

HistoryInv ==
  /\ applied \in Seq(PatchRecords)
  /\ Reflects(full, sdFiles, applied, TRUE)
  /\ Reflects(byName, sdFiles, applied, FALSE)
  /\ phase = "ready" => Ordered(full) /\ Ordered(byName)

(* vec_swap_remove loses one entry only.                                   *)
LEMMA SwapRemoveKeeps ==
  ASSUME NEW n \in Nat, NEW s, Good(s, n), NEW k \in DOMAIN s
  PROVE  /\ \A j \in DOMAIN SwapRemove(s, k) :
              \E i \in DOMAIN s : SwapRemove(s, k)[j] = s[i]
         /\ \A i \in DOMAIN s : i # k =>
              \E j \in DOMAIN SwapRemove(s, k) : SwapRemove(s, k)[j] = s[i]
<1> DEFINE N == Len(s)
           u == SwapRemove(s, k)
<1>1. s \in Seq(Replacements) /\ N \in Nat \ {0} /\ DOMAIN s = 1 .. N /\ k \in 1 .. N
  BY DEF Good
<1>2. [s EXCEPT ![k] = s[N]] \in Seq(Replacements) /\ Len([s EXCEPT ![k] = s[N]]) = N
  BY <1>1
<1>3. u = SubSeq([s EXCEPT ![k] = s[N]], 1, N - 1)
  BY <1>2 DEF SwapRemove, Front, Last
<1>4. DOMAIN u = 1 .. N - 1
  BY <1>1, <1>2, <1>3
<1>5. \A j \in 1 .. N - 1 : u[j] = IF j = k THEN s[N] ELSE s[j]
  BY <1>1, <1>2, <1>3
<1> HIDE DEF u
<1>6. ASSUME NEW j \in DOMAIN u PROVE \E i \in DOMAIN s : u[j] = s[i]
  BY <1>1, <1>4, <1>5
<1>7. ASSUME NEW i \in DOMAIN s, i # k PROVE \E j \in DOMAIN u : u[j] = s[i]
  <2>1. CASE i = N
    <3>1. k \in 1 .. N - 1 /\ u[k] = s[i]
      BY <1>1, <1>5, <1>7, <2>1
    <3> QED
      BY <1>4, <3>1
  <2>2. CASE i # N
    <3>1. i \in 1 .. N - 1 /\ u[i] = s[i]
      BY <1>1, <1>5, <1>7, <2>2
    <3> QED
      BY <1>4, <3>1
  <2> QED
    BY <2>1, <2>2
<1> QED
  BY <1>6, <1>7 DEF u

LEMMA RemoveKeeps ==
  ASSUME NEW n \in Nat, NEW s, Good(s, n), NEW r, r.hash = Hash[r.disc]
  PROVE  /\ \A j \in DOMAIN RemoveReplacement(s, r) :
              \E i \in DOMAIN s : RemoveReplacement(s, r)[j] = s[i]
         /\ \A i \in DOMAIN s : s[i].disc # r.disc =>
              \E j \in DOMAIN RemoveReplacement(s, r) : RemoveReplacement(s, r)[j] = s[i]
<1> DEFINE same == {i \in DOMAIN s : s[i].hash = r.hash /\ s[i].disc = r.disc}
           k == Min(same)
<1>1. CASE same = {}
  <2>1. RemoveReplacement(s, r) = s
    BY <1>1 DEF RemoveReplacement
  <2> QED
    BY <2>1
<1>2. CASE same # {}
  <2>1. k \in same
    <3>1. same \subseteq Nat
      BY DEF Good
    <3> HIDE DEF same
    <3> QED
      BY <1>2, <3>1, MinMember
  <2>2. RemoveReplacement(s, r) = SwapRemove(s, k)
    BY <1>2 DEF RemoveReplacement
  <2> HIDE DEF k
  <2>3. k \in DOMAIN s /\ s[k].disc = r.disc
    BY <2>1
  <2>4. /\ \A j \in DOMAIN SwapRemove(s, k) :
              \E i \in DOMAIN s : SwapRemove(s, k)[j] = s[i]
        /\ \A i \in DOMAIN s : i # k =>
              \E j \in DOMAIN SwapRemove(s, k) : SwapRemove(s, k)[j] = s[i]
    BY <2>3, SwapRemoveKeeps
  <2>5. \A i \in DOMAIN s : s[i].disc # r.disc => i # k
    BY <2>3
  <2> QED
    BY <2>2, <2>4, <2>5, Zenon
<1> QED
  BY <1>1, <1>2

(* A patch that is registered decides about its own path and about no      *)
(* other.                                                                  *)
LEMMA RegisterReflects ==
  ASSUME NEW n \in Nat, NEW m \in Nat, NEW s, Good(s, n), NEW files, NEW files2,
         \A i \in 1 .. n : files2[i] = files[i],
         NEW hist \in Seq(PatchRecords), NEW rooted, Reflects(s, files, hist, rooted),
         NEW d \in PatchDiscs, d.rooted = rooted, NEW ext \in SdPaths,
         NEW r \in Replacements, r.disc = d.path, r.hash = Hash[r.disc],
         files2[r.entry] = ext,
         n <= m, r.entry \in 1 .. m
  PROVE  Reflects(Append(RemoveReplacement(s, r), r), files2,
                  Append(hist, [disc |-> d, ext |-> ext]), rooted)
<1> DEFINE u == RemoveReplacement(s, r)
           v == Append(u, r)
           h2 == Append(hist, [disc |-> d, ext |-> ext])
           K == Len(hist)
<1>1. Good(u, n) /\ \A j \in DOMAIN u : u[j].disc # r.disc
  BY RemoveGood
<1>2. /\ \A j \in DOMAIN u : \E i \in DOMAIN s : u[j] = s[i]
      /\ \A i \in DOMAIN s : s[i].disc # r.disc => \E j \in DOMAIN u : u[j] = s[i]
  BY RemoveKeeps
<1> HIDE DEF u
<1>3. u \in Seq(Replacements) /\ DOMAIN u = 1 .. Len(u) /\ Len(u) \in Nat
  BY <1>1 DEF Good
<1>4. /\ DOMAIN v = 1 .. Len(u) + 1
      /\ \A j \in 1 .. Len(u) : v[j] = u[j]
      /\ v[Len(u) + 1] = r
  BY <1>3
<1>5. /\ K \in Nat /\ DOMAIN hist = 1 .. K /\ DOMAIN h2 = 1 .. K + 1
      /\ \A k \in 1 .. K : h2[k] = hist[k]
      /\ h2[K + 1].disc = d /\ h2[K + 1].ext = ext
  OBVIOUS
<1> HIDE DEF v, h2, K
<1>6. ASSUME NEW i \in DOMAIN v
      PROVE  \E k \in DOMAIN h2 :
               IsLatest(h2, rooted, v[i].disc, k) /\ files2[v[i].entry] = h2[k].ext
  <2>1. CASE i = Len(u) + 1
    <3>1. v[i] = r
      BY <1>4, <2>1
    <3>2. IsLatest(h2, rooted, r.disc, K + 1)
      BY <1>5 DEF IsLatest
    <3> QED
      BY <1>5, <3>1, <3>2
  <2>2. CASE i \in 1 .. Len(u)
    <3>1. PICK j \in DOMAIN s : v[i] = s[j]
      BY <1>2, <1>3, <1>4, <2>2
    <3>2. v[i].disc # r.disc
      BY <1>1, <1>3, <1>4, <2>2
    <3>3. PICK k \in DOMAIN hist :
            IsLatest(hist, rooted, s[j].disc, k) /\ files[s[j].entry] = hist[k].ext
      BY DEF Reflects
    <3>4. k \in DOMAIN h2 /\ h2[k] = hist[k]
      BY <1>5
    <3>5. IsLatest(h2, rooted, v[i].disc, k)
      BY <1>5, <3>1, <3>2, <3>3, <3>4 DEF IsLatest
    <3>6. files2[v[i].entry] = hist[k].ext
      BY <3>1, <3>3 DEF Good
    <3> QED
      BY <3>4, <3>5, <3>6
  <2> QED
    BY <1>3, <1>4, <2>1, <2>2
<1>7. ASSUME NEW k \in DOMAIN h2, h2[k].disc.rooted = rooted
      PROVE  \E i \in DOMAIN v : v[i].disc = h2[k].disc.path
  <2>1. Len(u) + 1 \in DOMAIN v /\ \A j \in DOMAIN u : j \in DOMAIN v /\ v[j] = u[j]
    BY <1>3, <1>4
  <2>2. CASE h2[k].disc.path = r.disc
    BY <1>4, <2>1, <2>2
  <2>3. CASE h2[k].disc.path # r.disc
    <3>1. k \in DOMAIN hist /\ h2[k] = hist[k]
      BY <1>5, <2>3
    <3>2. PICK i \in DOMAIN s : s[i].disc = hist[k].disc.path
      BY <1>7, <3>1 DEF Reflects
    <3>3. PICK j \in DOMAIN u : u[j] = s[i]
      BY <1>2, <2>3, <3>1, <3>2
    <3> QED
      BY <2>1, <3>1, <3>2, <3>3
  <2> QED
    BY <2>2, <2>3
<1>8. Reflects(v, files2, h2, rooted)
  BY <1>6, <1>7, Zenon DEF Reflects
<1> QED
  BY <1>8 DEF u, v, h2

(* The other table is as it was.                                           *)
LEMMA OtherReflects ==
  ASSUME NEW n \in Nat, NEW s, Good(s, n), NEW files, NEW files2,
         \A i \in 1 .. n : files2[i] = files[i],
         NEW hist \in Seq(PatchRecords), NEW rooted, Reflects(s, files, hist, rooted),
         NEW d, d.rooted # rooted, NEW ext
  PROVE  Reflects(s, files2, Append(hist, [disc |-> d, ext |-> ext]), rooted)
<1> DEFINE h2 == Append(hist, [disc |-> d, ext |-> ext])
           K == Len(hist)
<1>1. /\ K \in Nat /\ DOMAIN hist = 1 .. K /\ DOMAIN h2 = 1 .. K + 1
      /\ \A k \in 1 .. K : h2[k] = hist[k]
      /\ h2[K + 1].disc = d
  OBVIOUS
<1> HIDE DEF h2, K
<1>2. ASSUME NEW i \in DOMAIN s
      PROVE  \E k \in DOMAIN h2 :
               IsLatest(h2, rooted, s[i].disc, k) /\ files2[s[i].entry] = h2[k].ext
  <2>1. PICK k \in DOMAIN hist :
          IsLatest(hist, rooted, s[i].disc, k) /\ files[s[i].entry] = hist[k].ext
    BY DEF Reflects
  <2>2. k \in DOMAIN h2 /\ h2[k] = hist[k]
    BY <1>1
  <2>3. IsLatest(h2, rooted, s[i].disc, k)
    BY <1>1, <2>1, <2>2 DEF IsLatest
  <2>4. files2[s[i].entry] = hist[k].ext
    BY <2>1 DEF Good
  <2> QED
    BY <2>2, <2>3, <2>4
<1>3. ASSUME NEW k \in DOMAIN h2, h2[k].disc.rooted = rooted
      PROVE  \E i \in DOMAIN s : s[i].disc = h2[k].disc.path
  <2>1. k \in DOMAIN hist /\ h2[k] = hist[k]
    BY <1>1, <1>3
  <2> QED
    BY <1>3, <2>1 DEF Reflects
<1>4. Reflects(s, files2, h2, rooted)
  BY <1>2, <1>3, Zenon DEF Reflects
<1> QED
  BY <1>4 DEF h2

LEMMA PatchesAreRooted ==
  ASSUME NEW d \in PatchDiscs PROVE d.rooted \in BOOLEAN
<1>1. \A e \in Discs : e.rooted \in BOOLEAN
  BY RiivoAssumption DEF RiivoAssumption
<1>2. ASSUME NEW f \in Folders, NEW r PROVE FolderDisc(f, r).rooted \in BOOLEAN
  BY DEF FolderDisc
<1> QED
  BY <1>1, <1>2 DEF PatchDiscs

LEMMA HandleFileHistory ==
  ASSUME TablesInv, HistoryInv, phase = "parse", phase' = phase,
         NEW disc \in PatchDiscs, NEW ext \in SdPaths, NEW checkExists \in BOOLEAN,
         Become(HandleFilePatch(Tables, disc, ext, checkExists))
  PROVE  HistoryInv'
<1> DEFINE t == HandleFilePatch(Tables, disc, ext, checkExists)
           n == Len(sdFiles)
<1>1. /\ sdFiles \in Seq(SdPaths) /\ n \in Nat /\ DOMAIN sdFiles = 1 .. n
      /\ Good(full, n) /\ Good(byName, n)
  BY TablesAsGood DEF TablesInv, TypeOK
<1>2. CASE t = Tables \/ t = [Tables EXCEPT !.dol = ext]
  <2>1. UNCHANGED <<sdFiles, full, byName, applied>>
    BY <1>2 DEF Become, Tables
  <2> QED
    BY <2>1 DEF HistoryInv
<1>3. CASE t = Register(Tables, disc, ext)
  <2> DEFINE known == EntryOf(sdFiles, ext)
             entry == IF known = Nothing THEN n + 1 ELSE known
             m == Len(sdFiles')
             new == [disc |-> disc.path, hash |-> Hash[disc.path], entry |-> entry]
  <2>1. /\ sdFiles' = IF known = Nothing THEN Append(sdFiles, ext) ELSE sdFiles
        /\ full' = IF disc.rooted THEN Append(RemoveReplacement(full, new), new)
                                  ELSE full
        /\ byName' = IF disc.rooted THEN byName
                     ELSE Append(RemoveReplacement(byName, new), new)
        /\ applied' = Append(applied, [disc |-> disc, ext |-> ext])
    BY <1>3 DEF Become, Register, Tables
  <2>2. known # Nothing => known \in 1 .. n /\ sdFiles[known] = ext
    BY <1>1 DEF EntryOf
  <2>3. /\ m \in Nat /\ n <= m /\ entry \in 1 .. m
        /\ \A i \in 1 .. n : sdFiles'[i] = sdFiles[i]
        /\ sdFiles'[entry] = ext
    <3>1. CASE known = Nothing
      BY <1>1, <2>1, <3>1
    <3>2. CASE known # Nothing
      BY <1>1, <2>1, <2>2, <3>2
    <3> QED
      BY <3>1, <3>2
  <2>4. /\ new \in Replacements /\ new.hash = Hash[new.disc] /\ new.disc = disc.path
        /\ new.entry = entry
    <3>1. entry \in Nat
      BY <2>3
    <3> QED
      BY <3>1 DEF Replacements
  <2> HIDE DEF new, m, n, entry, known
  <2>5. applied \in Seq(PatchRecords) /\ disc.rooted \in BOOLEAN
    BY PatchesAreRooted DEF HistoryInv
  <2>6. applied' \in Seq(PatchRecords)
    BY <2>1, <2>5 DEF PatchRecords
  <2>7. Reflects(full', sdFiles', applied', TRUE)
    <3>0. Reflects(full, sdFiles, applied, TRUE)
      BY DEF HistoryInv
    <3>1. CASE disc.rooted
      <4>1. Reflects(Append(RemoveReplacement(full, new), new), sdFiles',
                     Append(applied, [disc |-> disc, ext |-> ext]), TRUE)
        BY <1>1, <2>3, <2>4, <2>5, <3>0, <3>1, RegisterReflects
      <4> QED
        BY <2>1, <3>1, <4>1
    <3>2. CASE ~ disc.rooted
      <4>1. Reflects(full, sdFiles', Append(applied, [disc |-> disc, ext |-> ext]), TRUE)
        BY <1>1, <2>3, <2>5, <3>0, <3>2, OtherReflects
      <4> QED
        BY <2>1, <3>2, <4>1
    <3> QED
      BY <3>1, <3>2
  <2>8. Reflects(byName', sdFiles', applied', FALSE)
    <3>0. Reflects(byName, sdFiles, applied, FALSE)
      BY DEF HistoryInv
    <3>1. CASE ~ disc.rooted
      <4>0. disc.rooted = FALSE
        BY <2>5, <3>1
      <4>1. Reflects(Append(RemoveReplacement(byName, new), new), sdFiles',
                     Append(applied, [disc |-> disc, ext |-> ext]), FALSE)
        BY <1>1, <2>3, <2>4, <2>5, <3>0, <4>0, RegisterReflects
      <4> QED
        BY <2>1, <3>1, <4>1
    <3>2. CASE disc.rooted
      <4>1. Reflects(byName, sdFiles', Append(applied, [disc |-> disc, ext |-> ext]), FALSE)
        BY <1>1, <2>3, <2>5, <3>0, <3>2, OtherReflects
      <4> QED
        BY <2>1, <3>2, <4>1
    <3> QED
      BY <3>1, <3>2
  <2> QED
    BY <2>6, <2>7, <2>8 DEF HistoryInv
<1>4. t \in {[Tables EXCEPT !.dol = ext], Tables, Register(Tables, disc, ext)}
  BY DEF HandleFilePatch
<1> QED
  BY <1>2, <1>3, <1>4

LEMMA HistoryUnchanged ==
  ASSUME HistoryInv, UNCHANGED <<sdFiles, full, byName, applied>>,
         phase' = phase \/ phase' # "ready"
  PROVE  HistoryInv'
BY DEF HistoryInv

LEMMA PatchFilesHistory ==
  ASSUME TablesInv, HistoryInv, PatchFiles \/ LoseFiles
  PROVE  HistoryInv'
<1>1. ASSUME NEW d \in Discs, NEW e \in Externals, FilePatch(d, e)
      PROVE  HistoryInv'
  <2>1. d \in PatchDiscs /\ e \in SdPaths
    BY DEF PatchDiscs, SdPaths
  <2>2. /\ Become(HandleFilePatch(Tables, d, e, TRUE))
        /\ phase = "parse" /\ phase' = phase
    BY <1>1 DEF FilePatch, ParseElement
  <2> QED
    BY <2>1, <2>2, HandleFileHistory
<1>2. ASSUME NEW f \in Folders, FolderPatch(f)
      PROVE  HistoryInv'
  BY <1>2, HistoryUnchanged DEF FolderPatch, ParseElement
<1>3. CASE MissingFolder
  BY <1>3, HistoryUnchanged DEF MissingFolder, ParseElement
<1>4. CASE ReadEntry
  <2>1. unread \in Seq(Entries) /\ unread # <<>>
    BY <1>4 DEF ReadEntry, TablesInv, TypeOK, Entries
  <2>2. Head(unread) \in Entries
    BY <2>1
  <2>3. Head(unread).disc \in PatchDiscs /\ Head(unread).ext \in SdPaths
    BY <2>2 DEF Entries
  <2>4. /\ Become(HandleFilePatch(Tables, Head(unread).disc, Head(unread).ext, FALSE))
        /\ phase = "parse" /\ phase' = phase
    BY <1>4 DEF ReadEntry
  <2> QED
    BY <2>3, <2>4, HandleFileHistory
<1>5. CASE FolderFails
  BY <1>5, HistoryUnchanged DEF FolderFails
<1> QED
  BY <1>1, <1>2, <1>3, <1>4, <1>5 DEF PatchFiles, LoseFiles

LEMMA GoodPaths ==
  ASSUME NEW n, NEW t, Good(t, n)
  PROVE  \A i \in DOMAIN t : t[i].hash \in Nat /\ LowerCase(t[i].disc) = t[i].disc
<1> SUFFICES ASSUME NEW i \in DOMAIN t
    PROVE  t[i].hash \in Nat /\ LowerCase(t[i].disc) = t[i].disc
  OBVIOUS
<1>1. t[i] \in Replacements /\ t[i].hash = Hash[t[i].disc]
  BY DEF Good
<1>2. t[i].disc \in {d.path : d \in PatchDiscs}
  BY <1>1 DEF Replacements
<1>3. PICK d \in PatchDiscs : t[i].disc = d.path
  BY <1>2
<1>4. LowerCase(d.path) = d.path
  BY PathAssumption DEF PathAssumption
<1>5. Hash[t[i].disc] \in Nat
  <2> DEFINE A == {d2.path : d2 \in PatchDiscs}
             B == UNION {{LowerCase(p), LowerCase(<<Last(p)>>)} : p \in GamePaths}
  <2>1. \A path \in A \cup B : Hash[path] \in Nat
    BY PathAssumption, Zenon DEF PathAssumption
  <2>2. t[i].disc \in A
    BY <1>2
  <2> HIDE DEF A, B
  <2> QED
    BY <2>1, <2>2
<1> QED
  BY <1>1, <1>3, <1>4, <1>5

(* Sorting loses no entry, and leaves the hashes in order.                 *)
LEMMA SortedKeeps ==
  ASSUME NEW n \in Nat, NEW s, Good(s, n), NEW t \in SortedByHash(s)
  PROVE  /\ DOMAIN t = DOMAIN s
         /\ \A i \in DOMAIN t : \E j \in DOMAIN s : t[i] = s[j]
         /\ \A j \in DOMAIN s : \E i \in DOMAIN t : t[i] = s[j]
<1> DEFINE N == Len(s)
<1>1. s \in Seq(Replacements) /\ N \in Nat /\ DOMAIN s = 1 .. N
  BY DEF Good
<1>2. Cardinality(1 .. N) = N /\ IsFiniteSet(1 .. N)
  <2>1. 1 \in Int /\ N \in Int
    BY <1>1
  <2> HIDE DEF N
  <2>2. Cardinality(1 .. N) = IF 1 > N THEN 0 ELSE N - 1 + 1
    BY <2>1, FS_Interval, Zenon
  <2>3. IsFiniteSet(1 .. N)
    BY <2>1, FS_Interval, Zenon
  <2> QED
    BY <1>1, <2>2, <2>3 DEF N
<1>3. PICK p \in SetToSeqs(DOMAIN s) : t = [i \in DOMAIN s |-> s[p[i]]]
  BY DEF SortedByHash
<1>4. /\ p \in [1 .. N -> 1 .. N]
      /\ \A i, j \in 1 .. N : i # j => p[i] # p[j]
  BY <1>1, <1>2 DEF SetToSeqs
<1> HIDE DEF N
<1>5. \A j \in 1 .. N : \E i \in 1 .. N : p[i] = j
  <2>1. p \in Injection(1 .. N, 1 .. N)
    BY <1>4 DEF Injection, IsInjective
  <2>2. p \in Surjection(1 .. N, 1 .. N)
    BY <1>2, <2>1, FS_Injection
  <2> QED
    BY <2>2 DEF Surjection
<1>6. DOMAIN t = 1 .. N /\ \A i \in 1 .. N : p[i] \in 1 .. N /\ t[i] = s[p[i]]
  BY <1>1, <1>3, <1>4
<1>7. \A j \in DOMAIN s : \E i \in DOMAIN t : t[i] = s[j]
  <2> SUFFICES ASSUME NEW j \in 1 .. N PROVE \E i \in 1 .. N : t[i] = s[j]
    BY <1>1, <1>6
  <2>1. PICK i \in 1 .. N : p[i] = j
    BY <1>5
  <2> QED
    BY <1>6, <2>1
<1>8. \A i \in DOMAIN t : \E j \in DOMAIN s : t[i] = s[j]
  BY <1>1, <1>6
<1> QED
  BY <1>1, <1>6, <1>7, <1>8

LEMMA SortedOrder ==
  ASSUME NEW n \in Nat, NEW s, Good(s, n), NEW t \in SortedByHash(s)
  PROVE  Ordered(t)
<1>1. Good(t, n) /\ Len(t) = Len(s)
  BY SortedGood
<1>2. t \in Seq(Replacements) /\ Len(t) \in Nat /\ DOMAIN t = 1 .. Len(t)
  BY <1>1 DEF Good
<1>3. \A i \in 1 .. Len(t) : t[i].hash \in Nat
  BY <1>1, <1>2, GoodPaths
<1>4. \A i \in 1 .. Len(t) - 1 : t[i].hash <= t[i + 1].hash
  BY <1>1 DEF SortedByHash
<1> QED
  BY <1>2, <1>3, <1>4, NeighboursOrder

LEMMA SortedReflects ==
  ASSUME NEW n \in Nat, NEW s, Good(s, n), NEW t \in SortedByHash(s),
         NEW files, NEW hist, NEW rooted, Reflects(s, files, hist, rooted)
  PROVE  Reflects(t, files, hist, rooted)
<1>1. /\ \A i \in DOMAIN t : \E j \in DOMAIN s : t[i] = s[j]
      /\ \A j \in DOMAIN s : \E i \in DOMAIN t : t[i] = s[j]
  BY SortedKeeps
<1> QED
  BY <1>1 DEF Reflects

LEMMA FinishHistory ==
  ASSUME TablesInv, HistoryInv, Finish
  PROVE  HistoryInv'
<1>1. Len(sdFiles) \in Nat /\ Good(full, Len(sdFiles)) /\ Good(byName, Len(sdFiles))
  BY TablesAsGood DEF TablesInv
<1>2. full' \in SortedByHash(full) /\ byName' \in SortedByHash(byName)
  BY DEF Finish
<1>3. Ordered(full') /\ Ordered(byName')
  BY <1>1, <1>2, SortedOrder
<1>4. /\ Reflects(full', sdFiles, applied, TRUE)
      /\ Reflects(byName', sdFiles, applied, FALSE)
  BY <1>1, <1>2, SortedReflects DEF HistoryInv
<1>5. sdFiles' = sdFiles /\ applied' = applied
  BY DEF Finish
<1> QED
  BY <1>3, <1>4, <1>5 DEF HistoryInv

LEMMA HistoryStep ==
  ASSUME TablesInv, HistoryInv, [LoadNext]_gVars
  PROVE  HistoryInv'
<1>1. CASE ParseFiles
  BY <1>1, PatchFilesHistory DEF ParseFiles
<1>2. CASE PlaceTables
  BY <1>2, FinishHistory DEF PlaceTables
<1>3. CASE RefuseTables
  BY <1>3, HistoryUnchanged DEF RefuseTables, TooManyFiles
<1>4. ASSUME NEW p \in MemPatches, ParseMemory(p) PROVE HistoryInv'
  BY <1>4, HistoryUnchanged DEF ParseMemory, ParseElement
<1>5. ASSUME NEW a \in PulDests, ParsePulsar(a) PROVE HistoryInv'
  BY <1>5, HistoryUnchanged DEF ParsePulsar, ParseElement
<1>6. CASE UNCHANGED tableVars
  BY <1>6, HistoryUnchanged DEF tableVars
<1>7. CASE \/ ReadDol \/ (\E size \in FstSizes : ReadFst(size)) \/ ReadBi2
           \/ (\E r \in RteFiles : LoadRuntimeExt(r)) \/ ReservePatches
           \/ ReplaceMainDol \/ PatchDvdFunctions
           \/ (\E n \in 0 .. PulSize : LoadPulsar(n)) \/ HandOver \/ InstallCopier
           \/ ZeroBss \/ CopySection \/ SectionsCopied \/ ApplyPatch \/ EnterGame
           \/ LoadFails \/ UNCHANGED gVars
  <2>1. UNCHANGED tableVars
    BY <1>7 DEF ReadDol, ReadFst, ReadBi2, LoadRuntimeExt, ReservePatches,
         ReplaceMainDol, PatchDvdFunctions, LoadPulsar, HandOver, InstallCopier,
         ZeroBss, CopySection, SectionsCopied, ApplyPatch, EnterGame, LoadFails, gVars
  <2> QED
    BY <1>6, <2>1
<1> QED
  BY <1>1, <1>2, <1>3, <1>4, <1>5, <1>7, Zenon DEF LoadNext, Ended

PatchesFor(rooted, disc) ==
  {i \in DOMAIN applied : applied[i].disc.rooted = rooted /\ applied[i].disc.path = disc}

(* What one table gives for a path.                                        *)
LEMMA TableResolves ==
  ASSUME NEW n \in Nat, NEW t, Good(t, n), Ordered(t), NEW rooted,
         applied \in Seq(PatchRecords), Reflects(t, sdFiles, applied, rooted),
         NEW path, Hash[LowerCase(path)] \in Nat
  PROVE  IF PatchesFor(rooted, LowerCase(path)) = {}
           THEN SearchReplacement(t, path) = Nothing
           ELSE /\ SearchReplacement(t, path) # Nothing
                /\ sdFiles[SearchReplacement(t, path)]
                     = Latest(PatchesFor(rooted, LowerCase(path)))
<1> DEFINE entry == SearchReplacement(t, path)
           patches == PatchesFor(rooted, LowerCase(path))
<1>1. \A i \in DOMAIN t : t[i].hash \in Nat /\ LowerCase(t[i].disc) = t[i].disc
  BY GoodPaths
<1>2. /\ \A j \in DOMAIN t : t[j].disc = LowerCase(path) => entry = t[j].entry
      /\ (\A j \in DOMAIN t : t[j].disc # LowerCase(path)) => entry = Nothing
  BY <1>1, SearchFinds
<1> HIDE DEF entry
<1>3. ASSUME NEW j \in DOMAIN t, t[j].disc = LowerCase(path)
      PROVE  patches # {} /\ entry # Nothing /\ sdFiles[entry] = Latest(patches)
  <2>1. PICK k \in DOMAIN applied :
          /\ IsLatest(applied, rooted, LowerCase(path), k)
          /\ sdFiles[t[j].entry] = applied[k].ext
    BY <1>3 DEF Reflects
  <2>2. k \in patches /\ \A l \in patches : k >= l
    BY <2>1 DEF IsLatest, PatchesFor
  <2>3. Max(patches) = k
    <3>1. patches \subseteq Nat
      BY DEF PatchesFor
    <3> HIDE DEF patches
    <3>2. \A x \in patches : (\A y \in patches : x >= y) => x = k
      BY <2>2, <3>1
    <3> QED
      BY <2>2, <3>2 DEF Max
  <2>4. entry = t[j].entry /\ entry \in Nat
    BY <1>2, <1>3 DEF Good
  <2>5. entry # Nothing
    BY <2>4, RiivoAssumption DEF RiivoAssumption
  <2> QED
    BY <2>1, <2>2, <2>3, <2>4, <2>5 DEF Latest
<1>4. ASSUME \A j \in DOMAIN t : t[j].disc # LowerCase(path)
      PROVE  patches = {}
  BY <1>4 DEF Reflects, PatchesFor
<1> QED
  BY <1>2, <1>3, <1>4 DEF entry
LEMMA ReadyResolves ==
  ASSUME TablesInv, HistoryInv PROVE ResolvesToLastPatch
<1> SUFFICES ASSUME phase = "ready", NEW p \in GamePaths
    PROVE  LET entry == ResolvePath(p)
               want == IF ByName(p) # {} THEN Latest(ByName(p)) ELSE Latest(InFull(p))
           IN IF entry = Nothing THEN want = Nothing ELSE sdFiles[entry] = want
  BY DEF ResolvesToLastPatch
<1> DEFINE file == <<Last(p)>>
           named == SearchReplacement(byName, file)
           whole == SearchReplacement(full, p)
<1>1. Len(sdFiles) \in Nat /\ Good(full, Len(sdFiles)) /\ Good(byName, Len(sdFiles))
  BY TablesAsGood DEF TablesInv
<1>2. Hash[LowerCase(p)] \in Nat /\ Hash[LowerCase(file)] \in Nat
  <2> DEFINE A == {d.path : d \in PatchDiscs}
             B == UNION {{LowerCase(q), LowerCase(<<Last(q)>>)} : q \in GamePaths}
  <2>1. \A path \in A \cup B : Hash[path] \in Nat
    BY PathAssumption, Zenon DEF PathAssumption
  <2>2. LowerCase(p) \in B /\ LowerCase(file) \in B
    OBVIOUS
  <2> HIDE DEF A, B, file
  <2> QED
    BY <2>1, <2>2
<1>3. /\ applied \in Seq(PatchRecords) /\ Ordered(full) /\ Ordered(byName)
      /\ Reflects(full, sdFiles, applied, TRUE)
      /\ Reflects(byName, sdFiles, applied, FALSE)
  BY DEF HistoryInv
<1> HIDE DEF file
<1>4. \A d \in DOMAIN applied : applied[d].disc.rooted \in BOOLEAN
  <2> SUFFICES ASSUME NEW d \in DOMAIN applied PROVE applied[d].disc.rooted \in BOOLEAN
    OBVIOUS
  <2>1. applied[d] \in PatchRecords
    BY <1>3
  <2>2. applied[d].disc \in PatchDiscs
    BY <2>1 DEF PatchRecords
  <2> QED
    BY <2>2, PatchesAreRooted
<1>5. IF ByName(p) = {} THEN named = Nothing
      ELSE named # Nothing /\ sdFiles[named] = Latest(ByName(p))
  <2> DEFINE kind == FALSE
             n == Len(sdFiles)
             patches == PatchesFor(kind, LowerCase(file))
  <2>1. ByName(p) = patches
    BY <1>4 DEF ByName, PatchesFor, file
  <2>2. n \in Nat /\ Good(byName, n) /\ Reflects(byName, sdFiles, applied, kind)
    BY <1>1, <1>3
  <2> HIDE DEF kind, n
  <2>3. IF patches = {} THEN named = Nothing
        ELSE named # Nothing /\ sdFiles[named] = Latest(patches)
    BY <1>2, <1>3, <2>2, TableResolves
  <2> QED
    BY <2>1, <2>3
<1>6. IF InFull(p) = {} THEN whole = Nothing
      ELSE whole # Nothing /\ sdFiles[whole] = Latest(InFull(p))
  <2> DEFINE kind == TRUE
             n == Len(sdFiles)
             patches == PatchesFor(kind, LowerCase(p))
  <2>1. InFull(p) = patches
    BY <1>4 DEF InFull, PatchesFor
  <2>2. n \in Nat /\ Good(full, n) /\ Reflects(full, sdFiles, applied, kind)
    BY <1>1, <1>3
  <2> HIDE DEF kind, n
  <2>3. IF patches = {} THEN whole = Nothing
        ELSE whole # Nothing /\ sdFiles[whole] = Latest(patches)
    BY <1>2, <1>3, <2>2, TableResolves
  <2> QED
    BY <2>1, <2>3
<1>7. ResolvePath(p) = IF named # Nothing THEN named ELSE whole
  BY DEF ResolvePath, file
<1>8. Latest({}) = Nothing
  BY DEF Latest
<1> HIDE DEF named, whole
<1> QED
  BY <1>5, <1>6, <1>7, <1>8

-----------------------------------------------------------------------------
(* Addresses                                                               *)

LEMMA TimesNat ==
  ASSUME NEW m \in Nat, NEW i \in Nat, NEW j \in Nat, i <= j
  PROVE  m * i \in Nat /\ m * i <= m * j /\ m * (i + 1) = m * i + m
OBVIOUS

LEMMA AlignDownBelow ==
  ASSUME NEW a \in Int, NEW n \in Nat \ {0}
  PROVE  AlignDown(a, n) \in Int /\ AlignDown(a, n) <= a
BY DEF AlignDown

LEMMA AlignDownMultiple ==
  ASSUME NEW a \in Int, NEW n \in Nat \ {0}
  PROVE  a \div n \in Int /\ AlignDown(a, n) = n * (a \div n)
BY DEF AlignDown

LEMMA LessThanOne ==
  ASSUME NEW k \in Int, NEW n \in Nat \ {0}, n * k < n
  PROVE  n * k <= 0
<1>1. CASE k >= 1
  BY <1>1
<1>2. CASE k <= 0
  BY <1>2
<1> QED
  BY <1>1, <1>2

(* Rounding the start down and the size up stays below an aligned end.     *)
LEMMA AlignedBlock ==
  ASSUME NEW r \in Int, NEW s \in Int, NEW n \in Nat \ {0}, r % n = 0
  PROVE  /\ AlignDown(r - s, n) + AlignUp(s, n) <= r
         /\ AlignUp(s, n) \in Int
<1> DEFINE x == r - s
           y == s + n - 1
           p == x \div n
           q == y \div n
           t == r \div n
<1>1. x \in Int /\ y \in Int
  OBVIOUS
<1>2. AlignDown(x, n) <= x /\ AlignDown(y, n) <= y /\ AlignDown(y, n) \in Int
  BY <1>1, AlignDownBelow, Zenon
<1>3. /\ p \in Int /\ AlignDown(x, n) = n * p
      /\ q \in Int /\ AlignDown(y, n) = n * q
      /\ t \in Int /\ AlignDown(r, n) = n * t
  BY <1>1, AlignDownMultiple, Zenon
<1>4. AlignDown(r, n) = r
  BY DEF AlignDown
<1> HIDE DEF p, q, t
<1>5. n * (p + q - t) = n * p + n * q - n * t
  BY <1>3
<1>6. n * (p + q - t) < n
  BY <1>1, <1>2, <1>3, <1>4, <1>5
<1>7. n * (p + q - t) <= 0
  BY <1>3, <1>6, LessThanOne
<1>8. AlignDown(x, n) + AlignDown(y, n) <= r
  BY <1>3, <1>4, <1>5, <1>7
<1> QED
  BY <1>2, <1>8 DEF AlignUp

LEMMA InBlock ==
  ASSUME NEW lo \in Int, NEW len \in Nat, NEW end \in Int, lo + len <= end
  PROVE  \A a \in lo .. lo + len - 1 : a \in Int /\ a >= lo /\ a < end
OBVIOUS

-----------------------------------------------------------------------------
(* Blocks of memory                                                        *)

LEMMA PutLeaves ==
  ASSUME NEW b, Put(b)
  PROVE  /\ DOMAIN mem' = DOMAIN mem
         /\ \A a \in DOMAIN mem : a \notin DOMAIN b => mem'[a] = mem[a]
         /\ \A a \in DOMAIN mem \cap DOMAIN b : mem'[a] = b[a]
BY DEF Put, Over

LEMMA BothDomain ==
  ASSUME NEW b, NEW c
  PROVE  DOMAIN Both(b, c) = DOMAIN b \cup DOMAIN c
BY DEF Both

LEMMA KeepAdds ==
  ASSUME NEW b, Keep(b)
  PROVE  /\ DOMAIN kept' = DOMAIN kept \cup DOMAIN b
         /\ \A a \in DOMAIN kept : kept'[a] = kept[a]
         /\ \A a \in DOMAIN b : a \notin DOMAIN kept => kept'[a] = b[a]
BY DEF Keep, Both

-----------------------------------------------------------------------------
(* The layout of memory at each stage, as long as the tables are Roomy.    *)

Early == {"dol", "fst", "bi2", "rte"}
Loading ==
  Early \cup {"reserve", "parse", "tables", "hooks", "pulsar", "handover"}

KeptThere ==
  \A a \in DOMAIN kept : a \in mem1 .. Top - 1 /\ mem[a] = kept[a]

(* The room of runtime-ext is free until it is loaded.                     *)
RteFree ==
  /\ mem1 <= RteStart
  /\ stage \in {"dol", "fst"} => mem1 = RteStart /\ DOMAIN kept = {}
  /\ stage \in Early => \A a \in DOMAIN kept : a < RteStart

(* So is what it has set aside for trampolines and the tables' addresses.  *)
ScratchFree ==
  /\ stage \in {"reserve", "parse", "tables"} => DOMAIN kept \cap Scratch = {}
  /\ stage = "hooks" => DOMAIN kept \cap TrampolineArea = {}

ArenaBelow ==
  IF stage \in Loading THEN arenaEnd = 0 /\ \A a \in DOMAIN kept : a < RteEnd
                       ELSE arenaEnd <= mem1

PatchCells(from) ==
  patchesAt + PatchSize * from .. patchesAt + PatchSize * MaxMemPatches - 1

PatchRoom ==
  /\ stage \in Early \cup {"reserve"} => memPatches = <<>>
  /\ stage \notin Early \cup {"reserve", "exit"} =>
       mem1 <= patchesAt /\ patchesAt + PatchSize * MaxMemPatches <= RteStart
  /\ stage = "parse" => DOMAIN kept \cap PatchCells(Len(memPatches)) = {}

PatchesKept ==
  \A i \in DOMAIN memPatches :
    LET at == patchesAt + PatchSize * (i - 1)
    IN at \in DOMAIN kept /\ kept[at] = <<"patch", memPatches[i]>>

HeaderThere ==
  stage \notin {"dol", "exit"} =>
    \E d \in DOMAIN Dols : mem[DolBuffer] = <<"dol", <<d, 0>> >>

Layout ==
  /\ KeptThere /\ RteFree /\ ScratchFree /\ ArenaBelow
  /\ PatchRoom /\ PatchesKept /\ HeaderThere

-----------------------------------------------------------------------------
(* Types, and that memory is only ever taken                               *)

Grows == mem1' <= mem1 /\ (Len(memPatches') <= MaxMemPatches => Len(memPatches) <= MaxMemPatches)

LoadTypes ==
  /\ stage \in Failing \cup Copying
       \cup {"reserve", "tables", "handover", "copier", "game", "exit"}
  /\ DOMAIN mem = 0 .. Top - 1
  /\ mem1 \in Int /\ patchesAt \in Int /\ arenaEnd \in Int
  /\ memPatches \in Seq(MemPatches)
  /\ pulDest \in PulDests \cup {Nothing}
  /\ done \in Nat
  /\ lost \subseteq {"folder", "main.dol", "Loader.pul"}

LEMMA SameTables ==
  ASSUME TablesInv, UNCHANGED tableVars
  PROVE  TablesInv'
BY DEF TablesInv, TypeOK, TableOK, OneEntryPerFile, tableVars

LEMMA AtMostTwo ==
  ASSUME NEW x, NEW y, NEW s \in {<<>>, <<x>>}, NEW t \in {<<>>, <<y>>}
  PROVE  Len(s \o t) \in Nat
<1>1. s \in Seq({x}) /\ t \in Seq({y})
  <2>1. <<x>> \in Seq({x}) /\ <<>> \in Seq({x}) /\ <<y>> \in Seq({y}) /\ <<>> \in Seq({y})
    OBVIOUS
  <2> QED
    BY <2>1, Zenon
<1>2. s \in Seq({x, y}) /\ t \in Seq({x, y})
  BY <1>1
<1> QED
  BY <1>2

LEMMA StringsTaken ==
  ASSUME LoadTypes, AllocStrings
  PROVE  mem1' \in Int /\ mem1' <= mem1 /\ DOMAIN mem' = DOMAIN mem
<1> DEFINE f == IF sdFiles' # sdFiles THEN <<Last(sdFiles')>> ELSE <<>>
           g == IF applied' # applied THEN <<Last(applied').disc.path>> ELSE <<>>
<1>1. f \in {<<>>, <<Last(sdFiles')>>} /\ g \in {<<>>, <<Last(applied').disc.path>>}
  OBVIOUS
<1> HIDE DEF f, g
<1>2. Len(f \o g) \in Nat
  BY <1>1, AtMostTwo, Zenon
<1>3. Len(NewStrings) \in Nat
  BY <1>2 DEF NewStrings, f, g
<1>4. StringSize \in Nat
  BY LoadAssumption DEF LoadAssumption
<1>5. StringSize * Len(NewStrings) \in Nat
  BY <1>3, <1>4
<1>6. mem1' = mem1 - StringSize * Len(NewStrings)
  BY DEF AllocStrings
<1>7. DOMAIN mem' = DOMAIN mem
  BY PutLeaves DEF AllocStrings, Give
<1> QED
  BY <1>5, <1>6, <1>7 DEF LoadTypes

(* The addresses of PlaceTables: each table ends below the one before.     *)
LEMMA TableBlock ==
  ASSUME NEW from \in Int, NEW size \in Nat, NEW len \in Nat
  PROVE  /\ AlignDown(from - size * len, Word) \in Int
         /\ AlignDown(from - size * len, Word) + size * len <= from
         /\ AlignDown(from - size * len, Word) <= from
<1>1. Word \in Nat \ {0} /\ size * len \in Nat
  BY LoadAssumption DEF LoadAssumption
<1>2. from - size * len \in Int
  BY <1>1
<1>3. /\ AlignDown(from - size * len, Word) \in Int
      /\ AlignDown(from - size * len, Word) <= from - size * len
  BY <1>1, <1>2, AlignDownBelow
<1> QED
  BY <1>1, <1>3

LEMMA TypesStep ==
  ASSUME TablesInv, LoadTypes, [LoadNext]_gVars
  PROVE  TablesInv' /\ LoadTypes' /\ Grows
<1> USE DEF LoadTypes, Grows, Failing, Copying
<1>1. CASE ReadDol
  BY <1>1, SameTables, PutLeaves DEF ReadDol
<1>2. ASSUME NEW size \in FstSizes, ReadFst(size)
      PROVE  TablesInv' /\ LoadTypes' /\ Grows
  <2>1. mem1' \in Int /\ mem1' <= mem1
    <3>1. size \in Nat /\ Line \in Nat \ {0}
      BY LoadAssumption DEF LoadAssumption
    <3>2. mem1 - size \in Int /\ mem1' = AlignDown(mem1 - size, Line)
      BY <1>2, <3>1 DEF ReadFst
    <3> QED
      BY <3>1, <3>2, AlignDownBelow
  <2> QED
    BY <1>2, <2>1, SameTables, PutLeaves DEF ReadFst, Give
<1>3. CASE ReadBi2
  <2>1. mem1' \in Int /\ mem1' <= mem1
    <3>1. Bi2Size \in Nat /\ Line \in Nat \ {0}
      BY LoadAssumption DEF LoadAssumption
    <3>2. mem1 - Bi2Size \in Int /\ mem1' = AlignDown(mem1 - Bi2Size, Line)
      BY <1>3, <3>1 DEF ReadBi2
    <3> QED
      BY <3>1, <3>2, AlignDownBelow
  <2> QED
    BY <1>3, <2>1, SameTables, PutLeaves DEF ReadBi2, Give
<1>4. ASSUME NEW r \in RteFiles, LoadRuntimeExt(r)
      PROVE  TablesInv' /\ LoadTypes' /\ Grows
  BY <1>4, SameTables, PutLeaves DEF LoadRuntimeExt
<1>5. CASE ReservePatches
  <2>1. PatchSize * MaxMemPatches \in Nat
    <3>1. PatchSize \in Nat /\ MaxMemPatches \in Nat
      BY LoadAssumption DEF LoadAssumption
    <3> QED
      BY <3>1, TimesNat
  <2> QED
    BY <1>5, <2>1, SameTables DEF ReservePatches, Reserved
<1>6. CASE ParseFiles
  <2>1. TablesInv'
    BY <1>6, PatchFilesInv DEF ParseFiles
  <2> QED
    BY <1>6, <2>1, StringsTaken DEF ParseFiles
<1>7. ASSUME NEW p \in MemPatches, ParseMemory(p)
      PROVE  TablesInv' /\ LoadTypes' /\ Grows
  <2>1. TablesInv'
    BY <1>7, ParseElementInv, TablesUnchanged DEF ParseMemory, TablesInv, TypeOK, Entries
  <2>2. memPatches' \in Seq(MemPatches) /\ Len(memPatches') = Len(memPatches) + 1
    BY <1>7 DEF ParseMemory
  <2>3. Len(memPatches) \in Nat /\ MaxMemPatches \in Nat
    BY LoadAssumption DEF LoadAssumption
  <2>4. DOMAIN mem' = DOMAIN mem
    BY <1>7, PutLeaves DEF ParseMemory, Give
  <2> QED
    BY <1>7, <2>1, <2>2, <2>3, <2>4 DEF ParseMemory
<1>8. ASSUME NEW a \in PulDests, ParsePulsar(a)
      PROVE  TablesInv' /\ LoadTypes' /\ Grows
  <2>1. TablesInv'
    BY <1>8, ParseElementInv, TablesUnchanged DEF ParsePulsar, TablesInv, TypeOK, Entries
  <2> QED
    BY <1>8, <2>1 DEF ParsePulsar
<1>9. CASE ReplaceMainDol
  <2>1. DOMAIN mem' = DOMAIN mem
    BY <1>9, PutLeaves DEF ReplaceMainDol
  <2>2. lost' \subseteq {"folder", "main.dol", "Loader.pul"}
    BY <1>9 DEF ReplaceMainDol
  <2> QED
    BY <1>9, <2>1, <2>2, SameTables DEF ReplaceMainDol
<1>10. CASE RefuseTables
  <2>1. TablesInv'
    BY <1>10, TablesUnchanged DEF RefuseTables, TooManyFiles, TablesInv, TypeOK, Entries
  <2> QED
    BY <1>10, <2>1 DEF RefuseTables
<1>11. CASE PlaceTables
  <2>1. TablesInv'
    BY <1>11, FinishInv DEF PlaceTables
  <2>2. mem1' \in Int /\ mem1' <= mem1
    <3> DEFINE sdAt == AlignDown(mem1 - SdFileSize * Len(sdFiles), Word)
               fullAt == AlignDown(sdAt - ReplacementSize * Len(full), Word)
               nameAt == AlignDown(fullAt - ReplacementSize * Len(byName), Word)
    <3>1. Len(sdFiles) \in Nat /\ Len(full) \in Nat /\ Len(byName) \in Nat
      BY DEF TablesInv, TypeOK, TableOK
    <3>2. SdFileSize \in Nat /\ ReplacementSize \in Nat
      BY LoadAssumption DEF LoadAssumption
    <3>3. mem1' = nameAt
      BY <1>11 DEF PlaceTables
    <3>4. sdAt \in Int /\ sdAt <= mem1
      BY <3>1, <3>2, TableBlock
    <3>5. fullAt \in Int /\ fullAt <= sdAt
      BY <3>1, <3>2, <3>4, TableBlock
    <3>6. nameAt \in Int /\ nameAt <= fullAt
      BY <3>1, <3>2, <3>5, TableBlock
    <3> QED
      BY <3>3, <3>4, <3>5, <3>6
  <2>3. DOMAIN mem' = DOMAIN mem
    BY <1>11, PutLeaves DEF PlaceTables, Give
  <2> QED
    BY <1>11, <2>1, <2>2, <2>3 DEF PlaceTables
<1>12. CASE PatchDvdFunctions
  <2>1. DOMAIN mem' = DOMAIN mem
    BY <1>12, PutLeaves DEF PatchDvdFunctions
  <2> QED
    BY <1>12, <2>1, SameTables DEF PatchDvdFunctions
<1>13. ASSUME NEW n \in 0 .. PulSize, LoadPulsar(n)
       PROVE  TablesInv' /\ LoadTypes' /\ Grows
  <2>1. DOMAIN mem' = DOMAIN mem
    BY <1>13, PutLeaves DEF LoadPulsar
  <2> QED
    BY <1>13, <2>1, SameTables DEF LoadPulsar
<1>14. CASE HandOver
  <2>1. DOMAIN mem' = DOMAIN mem
    BY <1>14, PutLeaves DEF HandOver, Give
  <2>2. arenaEnd' \in Int
    <3>1. Line \in Nat \ {0}
      BY LoadAssumption DEF LoadAssumption
    <3> QED
      BY <1>14, <3>1, AlignDownBelow DEF HandOver
  <2> QED
    BY <1>14, <2>1, <2>2, SameTables DEF HandOver
<1>15. CASE InstallCopier
  BY <1>15, SameTables, PutLeaves DEF InstallCopier
<1>16. CASE ZeroBss
  BY <1>16, SameTables, PutLeaves DEF ZeroBss
<1>17. CASE CopySection
  <2>1. DOMAIN mem' = DOMAIN mem
    BY <1>17, PutLeaves DEF CopySection
  <2> QED
    BY <1>17, <2>1, SameTables DEF CopySection
<1>18. CASE SectionsCopied
  BY <1>18, SameTables DEF SectionsCopied
<1>19. CASE ApplyPatch
  <2>1. DOMAIN mem' = DOMAIN mem
    BY <1>19, PutLeaves DEF ApplyPatch
  <2> QED
    BY <1>19, <2>1, SameTables DEF ApplyPatch
<1>20. CASE EnterGame
  BY <1>20, SameTables DEF EnterGame
<1>21. CASE LoadFails
  BY <1>21, SameTables DEF LoadFails
<1>22. CASE UNCHANGED gVars
  BY <1>22, SameTables DEF gVars, loadVars
<1> QED
  BY <1>1, <1>2, <1>3, <1>4, <1>5, <1>6, <1>7, <1>8, <1>9, <1>10, <1>11, <1>12,
     <1>13, <1>14, <1>15, <1>16, <1>17, <1>18, <1>19, <1>20, <1>21, <1>22
     DEF LoadNext, Ended

LEMMA TypesInit ==
  ASSUME LoadInit
  PROVE  TablesInv /\ LoadTypes
<1>1. TablesInv
  BY RiivoAssumption DEF LoadInit, InitTables, TablesInv, TypeOK, TableOK,
     OneEntryPerFile, RiivoAssumption
<1>2. RteStart \in Nat
  BY LoadAssumption DEF LoadAssumption
<1>3. LoadTypes
  BY <1>2 DEF LoadInit, LoadTypes, Failing
<1> QED
  BY <1>1, <1>3

(* The tables stay well-formed and every address, size and count of the    *)
(* loader keeps its type, for any patches, any files and any layout        *)
(* (riivo_patch_loader.c:363-543, main.c:346-397).                         *)
THEOREM TypeCorrect == LoadSpec => []GTypeOK
<1>1. LoadInit => TablesInv /\ LoadTypes
  BY TypesInit
<1>2. TablesInv /\ LoadTypes /\ [LoadNext]_gVars => TablesInv' /\ LoadTypes'
  BY TypesStep
<1>3. TablesInv /\ LoadTypes => GTypeOK
  BY DEF GTypeOK, TablesInv, LoadTypes
<1> QED
  BY <1>1, <1>2, <1>3, PTL DEF LoadSpec

(* An SD file keeps one entry for any sequence of <file> and <folder>      *)
(* elements, also when a folder fails halfway                              *)
(* (riivo_patch_loader.c:163-173, 276-323).                                *)
THEOREM EntriesAreUnique == LoadSpec => []OneEntryPerFile
<1>1. LoadInit => TablesInv /\ LoadTypes
  BY TypesInit
<1>2. TablesInv /\ LoadTypes /\ [LoadNext]_gVars => TablesInv' /\ LoadTypes'
  BY TypesStep
<1>3. TablesInv => OneEntryPerFile
  BY DEF TablesInv
<1> QED
  BY <1>1, <1>2, <1>3, PTL DEF LoadSpec

-----------------------------------------------------------------------------
(* What a write disturbs                                                   *)

LEMMA Places ==
  /\ {LauncherEnd, PatchCopy, CopierSize, DolBuffer, DolEnd, RteStart, RteEnd, Top}
       \subseteq Nat
  /\ LauncherEnd <= PatchCopy /\ PatchCopy + CopierSize <= DolBuffer
  /\ DolBuffer < DolEnd /\ DolEnd <= RteStart /\ RteStart <= RteEnd /\ RteEnd <= Top
<1>1. DolSize \in Nat /\ DolSize >= 1
  <2>1. DolSize \in Nat /\ "disc" \in DOMAIN Dols
    BY LoadAssumption DEF LoadAssumption
  <2>2. Dols["disc"].length \in 1 .. DolSize
    BY <2>1, LoadAssumption, Zenon DEF LoadAssumption
  <2> QED
    BY <2>1, <2>2
<1>2. /\ LauncherEnd \in Nat /\ PatchCopy \in Nat /\ CopierSize \in Nat
      /\ DolBuffer \in Nat /\ RteStart \in Nat /\ RteEnd \in Nat /\ Top \in Nat
      /\ LauncherEnd <= PatchCopy /\ PatchCopy + CopierSize <= DolBuffer
      /\ DolEnd <= RteStart /\ RteStart <= RteEnd /\ RteEnd <= Top
  BY LoadAssumption DEF LoadAssumption
<1> QED
  BY <1>1, <1>2 DEF DolEnd

(* RunsOnOwnCode, for one step.                                            *)
Untouched == \A a \in InUse : mem'[a] = mem[a]

(* The DOL in its buffer stays as it is.                                   *)
BufferKept == \A a \in DolBuffer .. DolEnd - 1 : mem'[a] = mem[a]

LEMMA PutBeside ==
  ASSUME LoadTypes, NEW b, Put(b), \A a \in DOMAIN b : a < DolBuffer \/ a >= DolEnd
  PROVE  BufferKept
<1>1. \A a \in DolBuffer .. DolEnd - 1 : a \in DOMAIN mem /\ a \notin DOMAIN b
  BY Places DEF LoadTypes
<1> QED
  BY <1>1, PutLeaves DEF BufferKept

LEMMA LauncherUntouched ==
  ASSUME LoadTypes, NEW b, Put(b), \A a \in DOMAIN b : a >= LauncherEnd,
         stage \notin Copying \cup {"game", "exit"}
  PROVE  Untouched
<1>1. InUse = 0 .. LauncherEnd - 1
  BY DEF InUse
<1>2. \A a \in 0 .. LauncherEnd - 1 : a \in DOMAIN mem /\ a \notin DOMAIN b
  BY Places DEF LoadTypes
<1> QED
  BY <1>1, <1>2, PutLeaves DEF Untouched

LEMMA Products ==
  ASSUME LoadTypes, Roomy
  PROVE  /\ PatchSize * Len(memPatches) \in Nat /\ PatchSize * MaxMemPatches \in Nat
         /\ PatchSize * Len(memPatches) <= PatchSize * MaxMemPatches
<1>1. PatchSize \in Nat /\ MaxMemPatches \in Nat
  BY LoadAssumption DEF LoadAssumption
<1>2. Len(memPatches) \in Nat /\ Len(memPatches) <= MaxMemPatches
  BY DEF LoadTypes, Roomy
<1> QED
  BY <1>1, <1>2, TimesNat

LEMMA CopyingInUse ==
  ASSUME LoadTypes, Layout, Roomy, stage \in Copying
  PROVE  \A a \in InUse : a \in PatchCopy .. Top - 1
<1>1. InUse = Copier(CopierAt) \cup DolBuffer .. DolEnd - 1
                \cup patchesAt .. patchesAt + PatchSize * Len(memPatches) - 1
  BY DEF InUse
<1>2. mem1 <= patchesAt /\ patchesAt + PatchSize * MaxMemPatches <= RteStart
  BY DEF Layout, PatchRoom, Early, Copying
<1>3. DolEnd <= mem1 /\ mem1 \in Int /\ patchesAt \in Int
  BY DEF Roomy, LoadTypes
<1>4. \A a \in patchesAt .. patchesAt + PatchSize * Len(memPatches) - 1 :
        a \in PatchCopy .. Top - 1
  <2> DEFINE used == PatchSize * Len(memPatches)
             room == PatchSize * MaxMemPatches
  <2>1. used \in Nat /\ room \in Nat /\ used <= room
    BY Products
  <2>2. patchesAt + room <= RteStart
    BY <1>2
  <2> HIDE DEF used, room
  <2>3. patchesAt + used <= RteStart
    BY <1>3, <2>1, <2>2, Places
  <2>4. \A a \in patchesAt .. patchesAt + used - 1 : a \in Int /\ a >= patchesAt /\ a < RteStart
    BY <1>3, <2>1, <2>3, Places, InBlock
  <2>5. patchesAt >= PatchCopy /\ RteStart <= Top
    BY <1>2, <1>3, Places
  <2>6. \A a \in patchesAt .. patchesAt + used - 1 : a \in PatchCopy .. Top - 1
    BY <1>3, <2>4, <2>5, Places
  <2> QED
    BY <2>6 DEF used
<1>5. \A a \in Copier(CopierAt) \cup DolBuffer .. DolEnd - 1 : a \in PatchCopy .. Top - 1
  BY Places DEF Copier, CopierAt
<1> QED
  BY <1>1, <1>4, <1>5

LEMMA CopyUntouched ==
  ASSUME LoadTypes, Layout, Roomy, NEW b, Put(b), \A a \in DOMAIN b : a < PatchCopy,
         stage \in Copying
  PROVE  Untouched
<1>1. \A a \in InUse : a \in DOMAIN mem /\ a \notin DOMAIN b
  BY CopyingInUse, Places DEF LoadTypes
<1> QED
  BY <1>1, PutLeaves DEF Untouched

(* What is written and what of it is kept, above all that was kept.        *)
LEMMA WriteKept ==
  ASSUME LoadTypes, KeptThere, NEW b, Put(b), NEW c, Keep(c),
         \A a \in DOMAIN c : a \in DOMAIN b /\ c[a] = b[a] /\ a \in mem1' .. Top - 1,
         DOMAIN b \cap DOMAIN kept = {},
         mem1' \in Int, 0 <= mem1', mem1' <= mem1
  PROVE  KeptThere'
<1> SUFFICES ASSUME NEW a \in DOMAIN kept'
    PROVE  a \in mem1' .. Top - 1 /\ mem'[a] = kept'[a]
  BY DEF KeptThere
<1>1. CASE a \in DOMAIN kept
  <2>1. a \in mem1 .. Top - 1 /\ mem[a] = kept[a] /\ a \notin DOMAIN b
    BY <1>1 DEF KeptThere
  <2>2. a \in DOMAIN mem
    BY <2>1, Places DEF LoadTypes
  <2>3. kept'[a] = kept[a] /\ mem'[a] = mem[a]
    BY <1>1, <2>1, <2>2, KeepAdds, PutLeaves
  <2> QED
    BY <2>1, <2>3, Places DEF LoadTypes
<1>2. CASE a \notin DOMAIN kept
  <2>1. a \in DOMAIN c /\ kept'[a] = c[a]
    BY <1>2, KeepAdds
  <2>2. a \in DOMAIN mem
    BY <2>1, Places DEF LoadTypes
  <2> QED
    BY <2>1, <2>2, PutLeaves
<1> QED
  BY <1>1, <1>2

LEMMA PutKept ==
  ASSUME LoadTypes, KeptThere, NEW b, Put(b), DOMAIN b \cap DOMAIN kept = {},
         Roomy, UNCHANGED <<kept, mem1>>
  PROVE  KeptThere'
<1> SUFFICES ASSUME NEW a \in DOMAIN kept
    PROVE  mem'[a] = mem[a]
  BY DEF KeptThere
<1>1. a \in mem1 .. Top - 1 /\ a \notin DOMAIN b
  BY DEF KeptThere
<1>2. a \in DOMAIN mem
  BY <1>1, Places DEF LoadTypes, Roomy
<1> QED
  BY <1>1, <1>2, PutLeaves

LEMMA KeepPatches ==
  ASSUME PatchesKept, NEW c, Keep(c), UNCHANGED <<patchesAt, memPatches>>
  PROVE  PatchesKept'
BY KeepAdds DEF PatchesKept

LEMMA PutHeader ==
  ASSUME LoadTypes, HeaderThere, stage # "dol", stage # "exit",
         NEW b, Put(b), DolBuffer \notin DOMAIN b
  PROVE  HeaderThere'
<1>1. DolBuffer \in DOMAIN mem
  BY Places DEF LoadTypes
<1>2. mem'[DolBuffer] = mem[DolBuffer]
  BY <1>1, PutLeaves
<1> QED
  BY <1>2 DEF HeaderThere

-----------------------------------------------------------------------------
(* From LoadPulsar on                                                      *)

Late == {"pulsar", "handover", "copier", "game"} \cup Copying

(* Nothing is taken any more: what is left to check is what is written.    *)
LEMMA LateStep ==
  ASSUME LoadTypes, Layout, stage \in Late, stage' \in Late,
         stage' \in Loading <=> stage \in Loading,
         UNCHANGED <<kept, mem1, patchesAt, memPatches, arenaEnd>>,
         KeptThere', HeaderThere'
  PROVE  Layout'
<1> USE DEF Late, Early, Loading, Copying
<1>1. RteFree' /\ ScratchFree'
  BY DEF Layout, RteFree, ScratchFree
<1>2. ArenaBelow'
  BY DEF Layout, ArenaBelow
<1>3. PatchRoom'
  BY DEF Layout, PatchRoom
<1>4. PatchesKept'
  BY DEF Layout, PatchesKept
<1> QED
  BY <1>1, <1>2, <1>3, <1>4 DEF Layout

LEMMA LateWrite ==
  ASSUME LoadTypes, Layout, Roomy, stage \in Late, stage' \in Late,
         stage' \in Loading <=> stage \in Loading,
         UNCHANGED <<kept, mem1, patchesAt, memPatches, arenaEnd>>,
         NEW b, Put(b), \A a \in DOMAIN b : a < mem1 /\ a # DolBuffer
  PROVE  Layout'
<1>1. DOMAIN b \cap DOMAIN kept = {}
  BY DEF Layout, KeptThere, LoadTypes
<1>2. KeptThere'
  BY <1>1, PutKept DEF Layout
<1>3. HeaderThere'
  BY PutHeader DEF Layout, Late, Copying
<1> QED
  BY <1>2, <1>3, LateStep

(* Where the hooked functions and Loader.pul lie in the buffer.            *)
LEMMA BufferedInside ==
  ASSUME LoadTypes, HeaderThere, stage \notin {"dol", "exit"},
         NEW addr, SectionsAt(addr) # {}
  PROVE  /\ Buffered(addr) \in DolBuffer + 1 .. DolEnd - 1
         /\ addr \in PulDests => Buffered(addr) + PulSize <= DolEnd
<1>1. PICK d \in DOMAIN Dols : mem[DolBuffer] = <<"dol", <<d, 0>> >>
  BY DEF HeaderThere
<1>2. Header = Dols[d]
  BY <1>1 DEF Header
<1> DEFINE i == Min(SectionsAt(addr))
           sections == Dols[d].sections
           s == sections[i]
<1>3. /\ Dols[d].length \in 1 .. DolSize
      /\ sections \in Seq([off : Nat \ {0}, addr : Nat, size : Nat])
  BY LoadAssumption DEF LoadAssumption
<1>4. ASSUME NEW j \in DOMAIN sections
      PROVE  /\ sections[j].off + sections[j].size <= Dols[d].length
             /\ \A a \in PulDests \cap
                  (sections[j].addr .. sections[j].addr + sections[j].size - 1) :
                  a + PulSize <= sections[j].addr + sections[j].size
  BY LoadAssumption DEF LoadAssumption
<1>5. SectionsAt(addr) = {j \in DOMAIN sections :
        addr \in sections[j].addr .. sections[j].addr + sections[j].size - 1}
  BY <1>2 DEF SectionsAt
<1> HIDE DEF sections
<1>6. i \in DOMAIN sections /\ addr \in s.addr .. s.addr + s.size - 1
  <2>1. DOMAIN sections \subseteq Nat
    BY <1>3
  <2>2. SectionsAt(addr) \subseteq Nat
    BY <1>5, <2>1
  <2>3. i \in SectionsAt(addr)
    BY <2>2, MinMember
  <2> QED
    BY <1>5, <2>3
<1> HIDE DEF i
<1>7. s.off \in Nat \ {0} /\ s.addr \in Nat /\ s.size \in Nat
  <2> DEFINE R == [off : Nat \ {0}, addr : Nat, size : Nat]
  <2>1. s \in R
    <3> HIDE DEF R
    <3>1. sections \in Seq(R)
      BY <1>3 DEF R
    <3> QED
      BY <1>6, <3>1
  <2> QED
    BY <2>1
<1>8. s.off + s.size <= DolSize
  <2>1. DolSize \in Nat
    BY LoadAssumption DEF LoadAssumption
  <2>2. s.off + s.size <= Dols[d].length
    BY <1>4, <1>6
  <2>3. Dols[d].length \in Nat /\ Dols[d].length <= DolSize
    BY <1>3, <2>1
  <2> QED
    BY <1>7, <2>1, <2>2, <2>3
<1>9. Buffered(addr) = DolBuffer + s.off + (addr - s.addr)
  BY <1>2 DEF Buffered, i, sections
<1>10. DolEnd = DolBuffer + DolSize /\ DolBuffer \in Nat /\ DolSize \in Nat
  BY Places, LoadAssumption DEF DolEnd, LoadAssumption
<1>11. addr \in PulDests => addr + PulSize <= s.addr + s.size
  BY <1>4, <1>6
<1>12. PulSize \in Nat
  BY LoadAssumption DEF LoadAssumption
<1> HIDE DEF s
<1> QED
  BY <1>6, <1>7, <1>8, <1>9, <1>10, <1>11, <1>12

LEMMA HeaderSections ==
  ASSUME HeaderThere, stage \notin {"dol", "exit"}
  PROVE  /\ \A a \in Span(Header.bss) : a \in Int /\ a < PatchCopy
         /\ \A i \in 1 .. Len(Header.sections) :
              LET s == Header.sections[i]
              IN \A a \in s.addr .. s.addr + s.size - 1 : a \in Int /\ a < PatchCopy
         /\ Len(Header.sections) \in Nat
<1>1. PICK d \in DOMAIN Dols : Header = Dols[d]
  BY DEF HeaderThere, Header
<1> DEFINE sections == Dols[d].sections
           R == [off : Nat \ {0}, addr : Nat, size : Nat]
<1>2. sections \in Seq(R)
  BY LoadAssumption DEF LoadAssumption
<1>3. \A i \in DOMAIN sections : sections[i].addr + sections[i].size <= PatchCopy
  BY LoadAssumption DEF LoadAssumption
<1>4. Dols[d].bss \in Regions /\ Dols[d].bss.at + Dols[d].bss.size <= PatchCopy
  BY LoadAssumption DEF LoadAssumption
<1>5. PatchCopy \in Nat
  BY LoadAssumption DEF LoadAssumption
<1>6. \A a \in Span(Dols[d].bss) : a \in Int /\ a < PatchCopy
  BY <1>4, <1>5 DEF Span, Regions
<1> HIDE DEF sections, R
<1>7. Len(sections) \in Nat /\ DOMAIN sections = 1 .. Len(sections)
  BY <1>2
<1>8. ASSUME NEW i \in 1 .. Len(sections),
             NEW a \in sections[i].addr .. sections[i].addr + sections[i].size - 1
      PROVE  a \in Int /\ a < PatchCopy
  <2>1. sections[i] \in R
    BY <1>2, <1>7
  <2>2. sections[i].addr \in Nat /\ sections[i].size \in Nat
    BY <2>1 DEF R
  <2>3. sections[i].addr + sections[i].size <= PatchCopy
    BY <1>3, <1>7
  <2> QED
    BY <1>5, <2>2, <2>3
<1>9. Header.sections = sections /\ Header.bss = Dols[d].bss
  BY <1>1 DEF sections
<1> QED
  BY <1>6, <1>7, <1>8, <1>9

LEMMA LoadPulsarStep ==
  ASSUME LoadTypes, Layout, Roomy, NEW n \in 0 .. PulSize, LoadPulsar(n)
  PROVE  Layout' /\ Untouched
<1> DEFINE at == Buffered(pulDest)
           b == [a \in at .. at + n - 1 |-> <<"pul", a - at>>]
<1>1. pulDest \in PulDests
  BY DEF LoadPulsar, LoadTypes
<1>2. at \in DolBuffer + 1 .. DolEnd - 1 /\ at + PulSize <= DolEnd
  BY <1>1, BufferedInside DEF LoadPulsar, Layout
<1>3. PulSize \in Nat
  BY LoadAssumption DEF LoadAssumption
<1> HIDE DEF at
<1>4. \A a \in DOMAIN b : a \in Int /\ a > DolBuffer /\ a < DolEnd
  BY <1>2, <1>3, Places
<1>5. Put(b)
  BY DEF LoadPulsar, at
<1> HIDE DEF b
<1>6. Untouched
  <2>1. \A a \in DOMAIN b : a >= LauncherEnd
    BY <1>4, Places
  <2> QED
    BY <1>5, <2>1, LauncherUntouched DEF LoadPulsar, Copying
<1>7. Layout'
  <2>1. \A a \in DOMAIN b : a < mem1 /\ a # DolBuffer
    BY <1>4, Places DEF Roomy, LoadTypes
  <2> QED
    BY <1>5, <2>1, LateWrite DEF LoadPulsar, Late, Loading, Copying
<1> QED
  BY <1>6, <1>7

LEMMA InstallCopierStep ==
  ASSUME LoadTypes, Layout, Roomy, InstallCopier
  PROVE  Layout' /\ Untouched /\ BufferKept
<1> DEFINE b == [a \in Copier(CopierAt) |-> <<"copier", a - CopierAt>>]
<1>1. \A a \in DOMAIN b : a >= LauncherEnd /\ a < DolBuffer
  BY Places DEF Copier, CopierAt
<1>2. Put(b)
  BY DEF InstallCopier
<1> HIDE DEF b
<1>3. Untouched
  BY <1>1, <1>2, LauncherUntouched DEF InstallCopier, Copying
<1>4. Layout'
  <2>1. \A a \in DOMAIN b : a < mem1 /\ a # DolBuffer
    BY <1>1, Places DEF Roomy, LoadTypes, Copier, CopierAt, b
  <2> QED
    BY <1>2, <2>1, LateWrite DEF InstallCopier, Late, Loading, Early, Copying
<1>5. BufferKept
  BY <1>1, <1>2, PutBeside
<1> QED
  BY <1>3, <1>4, <1>5

(* The steps of patch_dol write below its own copy only.                   *)
LEMMA CopyingStep ==
  ASSUME LoadTypes, Layout, Roomy, stage \in Copying, stage' \in Copying \cup {"game"},
         UNCHANGED <<kept, mem1, patchesAt, memPatches, arenaEnd>>,
         NEW b, Put(b), \A a \in DOMAIN b : a \in Int /\ a < PatchCopy
  PROVE  Layout' /\ Untouched /\ BufferKept
<1>1. Untouched
  BY CopyUntouched
<1>2. \A a \in DOMAIN b : a < mem1 /\ a # DolBuffer
  <2>1. \A a \in DOMAIN b : a \in Int /\ a < PatchCopy
    OBVIOUS
  <2>2. PatchCopy <= DolBuffer /\ PatchCopy <= mem1
    BY Places DEF Roomy, LoadTypes
  <2> QED
    BY <2>1, <2>2, Places DEF LoadTypes
<1>3. Layout'
  BY <1>2, LateWrite DEF Late, Loading, Early, Copying
<1>4. BufferKept
  <2>1. \A a \in DOMAIN b : a < DolBuffer
    BY Places
  <2> QED
    BY <2>1, PutBeside
<1> QED
  BY <1>1, <1>3, <1>4

LEMMA PatchDolStep ==
  ASSUME LoadTypes, Layout, Roomy, ZeroBss \/ CopySection \/ ApplyPatch
  PROVE  Layout' /\ Untouched /\ BufferKept
<1>1. ASSUME ZeroBss
      PROVE  Layout' /\ Untouched /\ BufferKept
  <2> DEFINE b == [a \in Span(Header.bss) |-> Zero]
  <2>1. \A a \in DOMAIN b : a \in Int /\ a < PatchCopy
    BY <1>1, HeaderSections DEF ZeroBss, Layout
  <2>2. Put(b)
    BY <1>1 DEF ZeroBss
  <2> HIDE DEF b
  <2> QED
    BY <1>1, <2>1, <2>2, CopyingStep DEF ZeroBss, Copying
<1>2. ASSUME CopySection
      PROVE  Layout' /\ Untouched /\ BufferKept
  <2> DEFINE s == Header.sections[done + 1]
             b == [a \in s.addr .. s.addr + s.size - 1 |->
                    mem[DolBuffer + s.off + (a - s.addr)]]
  <2>1. done + 1 \in 1 .. Len(Header.sections)
    <3>1. Len(Header.sections) \in Nat
      BY <1>2, HeaderSections DEF CopySection, Layout
    <3>2. done \in Nat /\ done < Len(Header.sections)
      BY <1>2 DEF CopySection, LoadTypes
    <3> QED
      BY <3>1, <3>2
  <2>2. \A a \in s.addr .. s.addr + s.size - 1 : a \in Int /\ a < PatchCopy
    BY <1>2, <2>1, HeaderSections DEF CopySection, Layout
  <2>3. Put(b)
    BY <1>2 DEF CopySection
  <2>4. \A a \in DOMAIN b : a \in Int /\ a < PatchCopy
    BY <2>2
  <2> HIDE DEF b
  <2> QED
    BY <1>2, <2>3, <2>4, CopyingStep DEF CopySection, Copying
<1>3. ASSUME ApplyPatch
      PROVE  Layout' /\ Untouched /\ BufferKept
  <2> DEFINE at == patchesAt + PatchSize * done
             p == mem[at][2]
             b == [a \in {c \in {p.addr} : Applies(p)} |-> p.value]
  <2>1. done + 1 \in DOMAIN memPatches
    BY <1>3 DEF ApplyPatch, LoadTypes
  <2>2. at \in DOMAIN kept /\ kept[at] = <<"patch", memPatches[done + 1]>>
    <3> DEFINE i == done + 1
    <3>1. /\ patchesAt + PatchSize * (i - 1) \in DOMAIN kept
          /\ kept[patchesAt + PatchSize * (i - 1)] = <<"patch", memPatches[i]>>
      BY <2>1, Zenon DEF Layout, PatchesKept
    <3>2. i - 1 = done
      BY DEF LoadTypes
    <3> HIDE DEF i
    <3>3. PatchSize * (i - 1) = PatchSize * done
      BY <3>2, Zenon
    <3> QED
      BY <3>1, <3>3, Zenon DEF i
  <2>3. p = memPatches[done + 1]
    BY <2>2 DEF Layout, KeptThere
  <2>4. memPatches[done + 1] \in MemPatches
    BY <2>1 DEF LoadTypes
  <2>5. p.addr \in Int /\ p.addr < PatchCopy
    <3>1. \A q \in MemPatches : q.addr \in 0 .. PatchCopy - 1
      BY LoadAssumption DEF LoadAssumption
    <3>2. p.addr \in 0 .. PatchCopy - 1
      BY <2>3, <2>4, <3>1
    <3> QED
      BY <3>2, Places
  <2>6. Put(b)
    BY <1>3 DEF ApplyPatch
  <2>7. \A a \in DOMAIN b : a \in Int /\ a < PatchCopy
    BY <2>5
  <2> HIDE DEF b
  <2> QED
    BY <1>3, <2>6, <2>7, CopyingStep DEF ApplyPatch, Copying
<1> QED
  BY <1>1, <1>2, <1>3

(* Steps that write nothing.                                               *)
LEMMA SameMemory ==
  ASSUME LoadTypes, Layout, Roomy, UNCHANGED <<mem, kept, mem1, patchesAt, memPatches>>
  PROVE  KeptThere' /\ PatchesKept' /\ Untouched /\ BufferKept /\ mem'[DolBuffer] = mem[DolBuffer]
BY DEF Layout, KeptThere, PatchesKept, Untouched, BufferKept

LEMMA QuietLateStep ==
  ASSUME LoadTypes, Layout, Roomy, SectionsCopied \/ EnterGame
  PROVE  Layout' /\ Untouched /\ BufferKept
<1>1. /\ UNCHANGED <<mem, kept, mem1, patchesAt, memPatches, arenaEnd>>
      /\ stage \in Copying /\ stage' \in Copying \cup {"game"}
  BY DEF SectionsCopied, EnterGame, Copying
<1>2. KeptThere' /\ PatchesKept' /\ Untouched /\ BufferKept /\ HeaderThere'
  BY <1>1, SameMemory DEF Layout, HeaderThere, Copying
<1> QED
  BY <1>1, <1>2, LateStep DEF Late, Loading, Early, Copying

LEMMA HandOverStep ==
  ASSUME LoadTypes, Layout, Roomy, HandOver
  PROVE  Layout' /\ Untouched /\ BufferKept
<1> DEFINE b == [a \in Statics |-> <<"static", a>>]
<1>1. Put(b) /\ Keep(b) /\ mem1' = mem1
  BY DEF HandOver, Give
<1>2. \A a \in DOMAIN b : a \in RteEnd .. Top - 1
  BY LoadAssumption DEF LoadAssumption
<1> HIDE DEF b
<1>3. Untouched
  <2>1. \A a \in DOMAIN b : a >= LauncherEnd
    BY <1>2, Places
  <2> QED
    BY <1>1, <2>1, LauncherUntouched DEF HandOver, Copying
<1>4. KeptThere'
  <2>1. DOMAIN b \cap DOMAIN kept = {}
    BY <1>2, Places DEF Layout, ArenaBelow, Loading, HandOver, KeptThere, LoadTypes
  <2>2. \A a \in DOMAIN b : a \in mem1' .. Top - 1
    BY <1>1, <1>2, Places DEF Layout, RteFree, LoadTypes
  <2>3. mem1' \in Int /\ 0 <= mem1' /\ mem1' <= mem1
    BY <1>1, Places DEF LoadTypes, Roomy
  <2> QED
    BY <1>1, <2>1, <2>2, <2>3, WriteKept DEF Layout
<1>5. HeaderThere'
  <2>1. DolBuffer \notin DOMAIN b
    BY <1>2, Places
  <2> QED
    BY <1>1, <2>1, PutHeader DEF Layout, HandOver
<1>6. PatchesKept'
  BY <1>1, KeepPatches DEF HandOver, Layout
<1>7. ArenaBelow'
  <2>1. Line \in Nat \ {0}
    BY LoadAssumption DEF LoadAssumption
  <2>2. arenaEnd' <= mem1'
    BY <1>1, <2>1, AlignDownBelow DEF HandOver, LoadTypes
  <2> QED
    BY <2>2 DEF ArenaBelow, HandOver, Loading, Early
<1>8. RteFree' /\ ScratchFree' /\ PatchRoom'
  BY <1>1 DEF HandOver, Layout, RteFree, ScratchFree, PatchRoom, Early
<1>9. BufferKept
  <2>1. \A a \in DOMAIN b : a >= DolEnd
    BY <1>2, Places
  <2> QED
    BY <1>1, <2>1, PutBeside
<1> QED
  BY <1>3, <1>4, <1>5, <1>6, <1>7, <1>8, <1>9 DEF Layout

-----------------------------------------------------------------------------
(* Up to PatchDvdFunctions                                                 *)

Filling == {"fst", "bi2", "rte", "reserve", "parse", "tables", "hooks"}

(* What is given to the game goes where nothing is kept, from mem1 on.     *)
LEMMA GiveStep ==
  ASSUME LoadTypes, Layout, stage \in Filling,
         mem1' \in Int, mem1' <= mem1, DolEnd <= mem1',
         NEW b, Give(b), \A a \in DOMAIN b : a \in mem1' .. Top - 1,
         DOMAIN b \cap DOMAIN kept = {}
  PROVE  /\ KeptThere' /\ HeaderThere' /\ Untouched /\ BufferKept
         /\ DOMAIN kept' = DOMAIN kept \cup DOMAIN b
         /\ \A a \in DOMAIN kept : kept'[a] = kept[a]
         /\ \A a \in DOMAIN b : kept'[a] = b[a]
<1>1. Put(b) /\ Keep(b)
  BY DEF Give
<1>2. \A a \in DOMAIN b : a >= LauncherEnd /\ a > DolBuffer
  BY Places
<1>3. KeptThere'
  <2>1. 0 <= mem1'
    BY Places
  <2> QED
    BY <1>1, <2>1, WriteKept DEF Layout
<1>4. HeaderThere'
  <2>1. DolBuffer \notin DOMAIN b
    BY <1>2, Places
  <2> QED
    BY <1>1, <2>1, PutHeader DEF Layout, Filling
<1>5. Untouched
  BY <1>1, <1>2, LauncherUntouched DEF Filling, Copying
<1>6. BufferKept
  <2>1. \A a \in DOMAIN b : a >= DolEnd
    BY Places
  <2> QED
    BY <1>1, <2>1, PutBeside
<1> QED
  BY <1>1, <1>3, <1>4, <1>5, <1>6, KeepAdds

LEMMA ReadDolStep ==
  ASSUME LoadTypes, Layout, Roomy, ReadDol
  PROVE  Layout' /\ Untouched
<1>1. DOMAIN kept = {} /\ kept' = kept /\ mem1' = mem1 /\ stage' = "fst"
  BY DEF ReadDol, Layout, RteFree
<1>2. Put(DolAt)
  BY DEF ReadDol
<1>3. Dols["disc"].length \in Nat /\ Dols["disc"].length >= 1
  <2>1. DolSize \in Nat /\ "disc" \in DOMAIN Dols
    BY LoadAssumption DEF LoadAssumption
  <2>2. Dols["disc"].length \in 1 .. DolSize
    BY <2>1, LoadAssumption, Zenon DEF LoadAssumption
  <2> QED
    BY <2>1, <2>2
<1>4. DolBuffer \in DOMAIN DolAt /\ DolAt[DolBuffer] = <<"dol", <<"disc", 0>> >>
  BY <1>3, Places DEF DolAt
<1>5. HeaderThere'
  <2>1. DolBuffer \in DOMAIN mem
    BY Places DEF LoadTypes
  <2>2. mem'[DolBuffer] = <<"dol", <<"disc", 0>> >>
    BY <1>2, <1>4, <2>1, PutLeaves
  <2>3. "disc" \in DOMAIN Dols
    BY LoadAssumption DEF LoadAssumption
  <2> QED
    BY <2>2, <2>3 DEF HeaderThere
<1>6. Untouched
  <2>1. \A a \in DOMAIN DolAt : a >= LauncherEnd
    BY <1>3, Places DEF DolAt
  <2> QED
    BY <1>2, <2>1, LauncherUntouched DEF ReadDol, Copying
<1>7. KeptThere' /\ PatchesKept'
  BY <1>1 DEF ReadDol, Layout, KeptThere, PatchesKept
<1>8. RteFree' /\ ScratchFree' /\ ArenaBelow' /\ PatchRoom'
  BY <1>1 DEF ReadDol, Layout, RteFree, ScratchFree, ArenaBelow, PatchRoom, Early, Loading
<1> QED
  BY <1>5, <1>6, <1>7, <1>8 DEF Layout

LEMMA ReadFstStep ==
  ASSUME LoadTypes, Layout, Roomy, Roomy', NEW size \in FstSizes, ReadFst(size)
  PROVE  Layout' /\ Untouched /\ BufferKept
<1> DEFINE dest == AlignDown(mem1 - size, Line)
           b == [a \in dest .. dest + AlignUp(size, Line) - 1 |-> <<"fst", a - dest>>]
<1>1. DOMAIN kept = {} /\ mem1 = RteStart /\ mem1 \in Int
  BY DEF ReadFst, Layout, RteFree, LoadTypes
<1>2. size \in Nat /\ Line \in Nat \ {0} /\ RteStart % Line = 0
  BY LoadAssumption DEF LoadAssumption
<1>3. dest \in Int /\ dest <= mem1
  <2>1. mem1 - size \in Int /\ mem1 - size <= mem1
    BY <1>1, <1>2
  <2> QED
    BY <1>1, <1>2, <2>1, AlignDownBelow
<1>4. dest + AlignUp(size, Line) <= RteStart /\ AlignUp(size, Line) \in Int
  <2>1. RteStart \in Int /\ size \in Int
    BY <1>1, <1>2
  <2>2. /\ AlignDown(RteStart - size, Line) + AlignUp(size, Line) <= RteStart
        /\ AlignUp(size, Line) \in Int
    BY <1>2, <2>1, AlignedBlock
  <2> QED
    BY <1>1, <2>2, Zenon
<1>5. mem1' = dest /\ Give(b) /\ stage = "fst" /\ stage' = "bi2"
      /\ UNCHANGED <<patchesAt, memPatches, arenaEnd>>
  BY DEF ReadFst
<1> HIDE DEF dest
<1>6. \A a \in DOMAIN b : a \in dest .. RteStart - 1
  BY <1>3, <1>4, Places
<1> HIDE DEF b
<1>7. /\ KeptThere' /\ HeaderThere' /\ Untouched /\ BufferKept
      /\ DOMAIN kept' = DOMAIN b
  <2>1. \A a \in DOMAIN b : a \in mem1' .. Top - 1
    BY <1>3, <1>5, <1>6, Places
  <2>2. DolEnd <= mem1'
    BY DEF Roomy
  <2> QED
    BY <1>1, <1>3, <1>5, <2>1, <2>2, GiveStep DEF Filling
<1>8. RteFree' /\ ArenaBelow'
  BY <1>1, <1>3, <1>5, <1>6, <1>7, Places DEF Layout, RteFree, ArenaBelow, Early, Loading
<1>9. PatchesKept' /\ PatchRoom' /\ ScratchFree'
  BY <1>5 DEF Layout, PatchesKept, PatchRoom, ScratchFree, Early
<1> QED
  BY <1>7, <1>8, <1>9 DEF Layout

LEMMA ReadBi2Step ==
  ASSUME LoadTypes, Layout, Roomy, Roomy', ReadBi2
  PROVE  Layout' /\ Untouched /\ BufferKept
<1> DEFINE dest == AlignDown(mem1 - Bi2Size, Line)
           b == [a \in dest .. dest + Bi2Size - 1 |-> <<"bi2", a - dest>>]
<1>1. mem1 <= RteStart /\ mem1 \in Int /\ (\A a \in DOMAIN kept : a \in Int /\ a >= mem1 /\ a < RteStart)
  BY DEF ReadBi2, Layout, RteFree, KeptThere, LoadTypes, Early
<1>2. Bi2Size \in Nat /\ Line \in Nat \ {0}
  BY LoadAssumption DEF LoadAssumption
<1>3. dest \in Int /\ dest + Bi2Size <= mem1 /\ dest <= mem1
  <2>1. mem1 - Bi2Size \in Int
    BY <1>1, <1>2
  <2>2. dest \in Int /\ dest <= mem1 - Bi2Size
    BY <1>2, <2>1, AlignDownBelow
  <2> QED
    BY <1>1, <1>2, <2>2
<1>4. mem1' = dest /\ Give(b) /\ stage = "bi2" /\ stage' = "rte"
      /\ UNCHANGED <<patchesAt, memPatches, arenaEnd>>
  BY DEF ReadBi2
<1> HIDE DEF dest
<1>5. \A a \in DOMAIN b : a \in dest .. mem1 - 1
  BY <1>1, <1>2, <1>3
<1> HIDE DEF b
<1>6. /\ KeptThere' /\ HeaderThere' /\ Untouched /\ BufferKept
      /\ DOMAIN kept' = DOMAIN kept \cup DOMAIN b
  <2>1. \A a \in DOMAIN b : a \in mem1' .. Top - 1
    BY <1>1, <1>3, <1>4, <1>5, Places
  <2>2. DOMAIN b \cap DOMAIN kept = {}
    BY <1>1, <1>3, <1>5
  <2>3. DolEnd <= mem1'
    BY DEF Roomy
  <2> QED
    BY <1>1, <1>3, <1>4, <2>1, <2>2, <2>3, GiveStep DEF Filling
<1>7. \A a \in DOMAIN kept' : a < RteStart
  BY <1>1, <1>3, <1>5, <1>6, Places
<1>8. RteFree' /\ ArenaBelow'
  <2>1. \A a \in DOMAIN kept' : a < RteEnd
    BY <1>1, <1>3, <1>5, <1>6, Places
  <2> QED
    BY <1>1, <1>3, <1>4, <1>7, <2>1, Places DEF Layout, RteFree, ArenaBelow, Early, Loading
<1>9. PatchesKept' /\ PatchRoom' /\ ScratchFree'
  BY <1>4 DEF Layout, PatchesKept, PatchRoom, ScratchFree, Early
<1> QED
  BY <1>6, <1>8, <1>9 DEF Layout

LEMMA LoadRuntimeExtStep ==
  ASSUME LoadTypes, Layout, Roomy, NEW r \in RteFiles, LoadRuntimeExt(r)
  PROVE  Layout' /\ Untouched /\ BufferKept
<1> DEFINE image == RteImage(r)
           c == [a \in DOMAIN image \ Scratch |-> image[a]]
<1>1. /\ stage = "rte" /\ stage' = "reserve" /\ Put(image) /\ Keep(c)
      /\ UNCHANGED <<mem1, patchesAt, memPatches, arenaEnd>>
  BY DEF LoadRuntimeExt
<1>2. \A a \in DOMAIN image : a \in RteStart .. RteEnd - 1
  <2>1. r.bss \in Regions /\ r.sections \subseteq Regions
    BY LoadAssumption DEF LoadAssumption
  <2>2. InBounds(r.bss) /\ \A s \in r.sections : InBounds(s)
    BY DEF LoadRuntimeExt
  <2>3. \A g \in Regions : InBounds(g) => \A a \in Span(g) : a \in RteStart .. RteEnd - 1
    BY Places DEF Regions, InBounds, Span
  <2>4. DOMAIN image = Span(r.bss) \cup UNION {Span(s) : s \in r.sections}
    <3> DEFINE f == [a \in UNION {Span(s) : s \in r.sections} |-> <<"rte", a>>]
               g == [a \in Span(r.bss) |-> Zero]
    <3>1. image = Both(f, g)
      BY DEF RteImage
    <3>2. DOMAIN f = UNION {Span(s) : s \in r.sections} /\ DOMAIN g = Span(r.bss)
      OBVIOUS
    <3> HIDE DEF f, g, image
    <3>3. DOMAIN image = DOMAIN f \cup DOMAIN g
      BY <3>1, BothDomain
    <3> QED
      BY <3>2, <3>3, Zenon
  <2> HIDE DEF image
  <2>5. ASSUME NEW a \in DOMAIN image PROVE a \in RteStart .. RteEnd - 1
    <3>1. CASE a \in Span(r.bss)
      BY <2>1, <2>2, <2>3, <3>1
    <3>2. CASE a \notin Span(r.bss)
      <4>1. a \in UNION {Span(s) : s \in r.sections}
        BY <2>4, <2>5, <3>2, Zenon
      <4>2. PICK s \in r.sections : a \in Span(s)
        BY <4>1, Zenon
      <4> QED
        BY <2>1, <2>2, <2>3, <4>2
    <3> QED
      BY <3>1, <3>2
  <2> QED
    BY <2>5
<1>3. \A a \in DOMAIN kept : a \in Int /\ a >= mem1 /\ a < RteStart
  BY <1>1 DEF Layout, RteFree, KeptThere, LoadTypes, Early
<1> HIDE DEF image
<1>4. Untouched
  <2>1. \A a \in DOMAIN image : a >= LauncherEnd
    BY <1>2, Places
  <2> QED
    BY <1>1, <2>1, LauncherUntouched DEF Copying
<1>5. DOMAIN kept' = DOMAIN kept \cup (DOMAIN image \ Scratch)
  BY <1>1, KeepAdds
<1>6. KeptThere'
  <2>1. DOMAIN image \cap DOMAIN kept = {}
    BY <1>2, <1>3, Places
  <2>2. \A a \in DOMAIN c : a \in DOMAIN image /\ c[a] = image[a] /\ a \in mem1' .. Top - 1
    BY <1>1, <1>2, Places DEF Layout, RteFree, LoadTypes
  <2>3. mem1' \in Int /\ 0 <= mem1' /\ mem1' <= mem1
    BY <1>1, Places DEF LoadTypes, Roomy
  <2> HIDE DEF c
  <2> QED
    BY <1>1, <2>1, <2>2, <2>3, WriteKept DEF Layout
<1>7. HeaderThere'
  <2>1. DolBuffer \notin DOMAIN image
    BY <1>2, Places
  <2> QED
    BY <1>1, <2>1, PutHeader DEF Layout
<1>8. PatchesKept'
  BY <1>1, KeepPatches DEF Layout
<1>9. ScratchFree'
  <2>1. \A a \in Scratch : a \in Int /\ a >= RteStart
    BY Places, LoadAssumption DEF LoadAssumption
  <2> QED
    BY <1>1, <1>3, <1>5, <2>1, Places DEF ScratchFree
<1>10. RteFree' /\ ArenaBelow' /\ PatchRoom'
  <2>1. \A a \in DOMAIN kept' : a < RteEnd
    BY <1>2, <1>3, <1>5, Places
  <2> QED
    BY <1>1, <2>1 DEF Layout, RteFree, ArenaBelow, PatchRoom, Early, Loading
<1>11. BufferKept
  <2>1. \A a \in DOMAIN image : a >= DolEnd
    BY <1>2, Places
  <2> QED
    BY <1>1, <2>1, PutBeside
<1> QED
  BY <1>4, <1>6, <1>7, <1>8, <1>9, <1>10, <1>11 DEF Layout

LEMMA ReservePatchesStep ==
  ASSUME LoadTypes, Layout, Roomy, Roomy', ReservePatches
  PROVE  Layout' /\ Untouched /\ BufferKept
<1>1. /\ stage = "reserve" /\ stage' = "parse" /\ patchesAt' = mem1'
      /\ mem1' = mem1 - PatchSize * MaxMemPatches
      /\ UNCHANGED <<mem, memPatches, arenaEnd, kept>>
  BY DEF ReservePatches, Reserved
<1>2. /\ PatchSize * MaxMemPatches \in Nat /\ mem1 \in Int /\ memPatches = <<>>
      /\ mem1 <= RteStart
      /\ \A a \in DOMAIN kept : a \in Int /\ a >= mem1 /\ a < Top /\ mem[a] = kept[a]
  BY <1>1, Products, Places DEF LoadTypes, Layout, PatchRoom, RteFree, KeptThere
<1>3. KeptThere'
  BY <1>1, <1>2, Places DEF KeptThere
<1>4. Untouched /\ BufferKept /\ HeaderThere' /\ PatchesKept'
  BY <1>1, <1>2 DEF Untouched, BufferKept, Layout, HeaderThere, PatchesKept
<1>5. PatchRoom'
  <2>1. patchesAt' + PatchSize * MaxMemPatches = mem1
    BY <1>1, <1>2
  <2> HIDE DEF PatchCells
  <2>2. DOMAIN kept \cap PatchCells(Len(memPatches))' = {}
    BY <1>1, <1>2, <2>1 DEF PatchCells
  <2> QED
    BY <1>1, <1>2, <2>1, <2>2, Places DEF PatchRoom, Early
<1>6. RteFree' /\ ScratchFree' /\ ArenaBelow'
  BY <1>1, <1>2, Places DEF Layout, RteFree, ScratchFree, ArenaBelow, Early, Loading
<1> QED
  BY <1>3, <1>4, <1>5, <1>6 DEF Layout

(* Steps that only move on, or end the launcher.                           *)
LEMMA QuietStep ==
  ASSUME LoadTypes, Layout, Roomy,
         (\E a \in PulDests : ParsePulsar(a)) \/ RefuseTables \/ LoadFails
           \/ UNCHANGED gVars
  PROVE  Layout' /\ Untouched /\ BufferKept
<1>1. /\ UNCHANGED <<mem, kept, mem1, patchesAt, memPatches, arenaEnd>>
      /\ stage' = stage \/ (stage \in Loading /\ stage' = "exit")
  BY DEF ParsePulsar, RefuseTables, LoadFails, gVars, loadVars, Failing, Loading, Early
<1>2. KeptThere' /\ PatchesKept' /\ Untouched /\ BufferKept /\ HeaderThere'
  BY <1>1, SameMemory DEF Layout, HeaderThere
<1>3. RteFree' /\ ScratchFree' /\ PatchRoom'
  BY <1>1 DEF Layout, RteFree, ScratchFree, PatchRoom, PatchCells, Early
<1>4. ArenaBelow'
  BY <1>1, Places DEF Layout, ArenaBelow, Loading, Early, Roomy, LoadTypes
<1> QED
  BY <1>2, <1>3, <1>4 DEF Layout

(* In "parse": what is kept, and the cells still free for memory patches.  *)
LEMMA ParseState ==
  ASSUME LoadTypes, Layout, Roomy, stage = "parse"
  PROVE  /\ mem1 \in Int /\ patchesAt \in Int /\ Len(memPatches) \in Nat
         /\ DolEnd <= mem1 /\ mem1 <= patchesAt
         /\ patchesAt + PatchSize * MaxMemPatches <= RteStart
         /\ \A a \in DOMAIN kept : a \in Int /\ a >= mem1 /\ a < RteEnd /\ a \notin Scratch
         /\ DOMAIN kept \cap PatchCells(Len(memPatches)) = {}
BY Places DEF LoadTypes, Layout, Roomy, PatchRoom, KeptThere, ArenaBelow,
   ScratchFree, Loading, Early

LEMMA ScratchPlace ==
  /\ \A a \in Scratch : a \in RteStart .. RteEnd - 1
  /\ TrampolineArea \subseteq Scratch /\ RiivoDisc \in Scratch
  /\ RiivoDisc \notin TrampolineArea
BY LoadAssumption DEF LoadAssumption, Scratch

LEMMA ParseFilesStep ==
  ASSUME LoadTypes, Layout, Roomy, Roomy', ParseFiles
  PROVE  Layout' /\ Untouched /\ BufferKept
<1> DEFINE b == [a \in mem1' .. mem1 - 1 |->
                  <<"string", NewStrings[(mem1 - 1 - a) \div StringSize + 1]>>]
<1>1. /\ stage = "parse" /\ stage' = "parse" /\ Give(b)
      /\ UNCHANGED <<patchesAt, memPatches, arenaEnd>>
  BY DEF ParseFiles, AllocStrings
<1>2. mem1' \in Int /\ mem1' <= mem1
  BY StringsTaken DEF ParseFiles
<1>3. \A a \in DOMAIN b : a \in Int /\ a >= mem1' /\ a < mem1
  BY <1>2 DEF LoadTypes
<1> HIDE DEF b
<1>4. mem1 <= RteStart /\ DolEnd <= mem1'
  BY <1>1, ParseState, Products, Places DEF Roomy
<1>5. /\ KeptThere' /\ HeaderThere' /\ Untouched /\ BufferKept
      /\ DOMAIN kept' = DOMAIN kept \cup DOMAIN b
  <2>1. \A a \in DOMAIN b : a \in mem1' .. Top - 1
    BY <1>1, <1>2, <1>3, <1>4, ParseState, Places
  <2>2. DOMAIN b \cap DOMAIN kept = {}
    BY <1>1, <1>3, ParseState
  <2> QED
    BY <1>1, <1>2, <1>4, <2>1, <2>2, GiveStep DEF Filling
<1>6. PatchesKept'
  BY <1>1, KeepPatches DEF Layout, Give
<1>7. \A a \in DOMAIN b : a < RteStart /\ a < patchesAt
  BY <1>1, <1>3, <1>4, ParseState, Places
<1>8. RteFree' /\ ScratchFree' /\ ArenaBelow'
  <2>1. \A a \in DOMAIN b : a \notin Scratch /\ a < RteEnd
    BY <1>3, <1>7, ScratchPlace, Places
  <2>2. \A a \in DOMAIN kept' : a \notin Scratch /\ a < RteEnd
    BY <1>1, <1>5, <2>1, ParseState
  <2>3. mem1' <= RteStart
    BY <1>1, <1>2, <1>4, ParseState, Places
  <2> QED
    BY <1>1, <2>2, <2>3 DEF Layout, RteFree, ScratchFree, ArenaBelow, Early, Loading
<1>9. PatchRoom'
  <2>1. DOMAIN b \cap PatchCells(Len(memPatches)) = {}
    BY <1>1, <1>3, <1>7, ParseState, Products DEF PatchCells
  <2>2. PatchCells(Len(memPatches))' = PatchCells(Len(memPatches))
    BY <1>1 DEF PatchCells
  <2>3. DOMAIN kept' \cap PatchCells(Len(memPatches))' = {}
    BY <1>1, <1>5, <2>1, <2>2, ParseState
  <2>4. mem1' <= patchesAt'
    BY <1>1, <1>2, ParseState
  <2> QED
    BY <1>1, <2>3, <2>4 DEF Layout, PatchRoom, Early
<1> QED
  BY <1>5, <1>6, <1>8, <1>9 DEF Layout

LEMMA ParseMemoryStep ==
  ASSUME LoadTypes, Layout, Roomy, Roomy', NEW p \in MemPatches, ParseMemory(p)
  PROVE  Layout' /\ Untouched /\ BufferKept
<1> DEFINE n == Len(memPatches)
           at == patchesAt + PatchSize * n
           b == [a \in at .. at + PatchSize - 1 |-> <<"patch", p>>]
<1>1. /\ stage = "parse" /\ stage' = "parse" /\ Give(b)
      /\ memPatches' = Append(memPatches, p)
      /\ UNCHANGED <<mem1, patchesAt, arenaEnd>>
  BY DEF ParseMemory
<1>2. memPatches \in Seq(MemPatches) /\ n \in Nat /\ Len(memPatches') = n + 1
  BY <1>1 DEF LoadTypes
<1>3. n + 1 <= MaxMemPatches /\ MaxMemPatches \in Nat /\ PatchSize \in Nat /\ PatchSize >= 1
  <2>1. MaxMemPatches \in Nat /\ PatchSize \in Nat /\ PatchSize >= 1
    <3>1. MaxMemPatches \in Nat /\ PatchSize \in Nat \ {0}
      BY LoadAssumption DEF LoadAssumption
    <3> QED
      BY <3>1
  <2>2. n + 1 <= MaxMemPatches
    BY <1>2 DEF Roomy
  <2> QED
    BY <2>1, <2>2
<1>4. /\ PatchSize * n \in Nat /\ PatchSize * (n + 1) = PatchSize * n + PatchSize
      /\ PatchSize * (n + 1) <= PatchSize * MaxMemPatches
      /\ PatchSize * MaxMemPatches \in Nat
  <2>1. PatchSize * n \in Nat /\ PatchSize * (n + 1) = PatchSize * n + PatchSize
    BY <1>2, <1>3, TimesNat
  <2>2. n + 1 \in Nat
    BY <1>2
  <2>3. PatchSize * (n + 1) <= PatchSize * MaxMemPatches
    BY <1>3, <2>2, TimesNat
  <2>4. PatchSize * MaxMemPatches \in Nat
    BY <1>3, TimesNat
  <2> QED
    BY <2>1, <2>3, <2>4
<1> HIDE DEF n
<1>5. /\ patchesAt \in Int /\ mem1 \in Int /\ DolEnd <= mem1 /\ mem1 <= patchesAt
      /\ patchesAt + PatchSize * MaxMemPatches <= RteStart
      /\ DOMAIN kept \cap PatchCells(n) = {}
  BY <1>1, ParseState DEF n
<1>6. \A a \in DOMAIN b : a \in PatchCells(n) /\ a \in Int /\ a < patchesAt + PatchSize * (n + 1)
  BY <1>3, <1>4, <1>5 DEF PatchCells
<1>7. at \in DOMAIN b /\ b[at] = <<"patch", p>>
  BY <1>3, <1>4, <1>5
<1>8. \A a \in PatchCells(n) : a \in Int /\ a >= mem1 /\ a < RteStart
  BY <1>3, <1>4, <1>5, Places DEF PatchCells
<1> HIDE DEF b
<1>9. /\ KeptThere' /\ HeaderThere' /\ Untouched /\ BufferKept
      /\ DOMAIN kept' = DOMAIN kept \cup DOMAIN b
      /\ \A a \in DOMAIN kept : kept'[a] = kept[a]
      /\ \A a \in DOMAIN b : kept'[a] = b[a]
  <2>1. \A a \in DOMAIN b : a \in mem1' .. Top - 1
    BY <1>1, <1>6, <1>8, Places
  <2>2. DOMAIN b \cap DOMAIN kept = {}
    BY <1>5, <1>6
  <2>3. mem1' \in Int /\ mem1' <= mem1 /\ DolEnd <= mem1'
    BY <1>1, <1>5
  <2>4. stage \in Filling
    BY <1>1 DEF Filling
  <2> QED
    BY <1>1, <2>1, <2>2, <2>3, <2>4, GiveStep
<1>10. PatchesKept'
  <2> SUFFICES ASSUME NEW i \in DOMAIN memPatches'
      PROVE  /\ patchesAt + PatchSize * (i - 1) \in DOMAIN kept'
             /\ kept'[patchesAt + PatchSize * (i - 1)] = <<"patch", memPatches'[i]>>
    BY <1>1 DEF PatchesKept
  <2>1. CASE i \in 1 .. n
    <3>1. i \in DOMAIN memPatches /\ memPatches'[i] = memPatches[i]
      BY <1>1, <1>2, <2>1 DEF n
    <3> QED
      BY <1>9, <3>1 DEF Layout, PatchesKept
  <2>2. CASE i = n + 1
    <3>1. memPatches'[n + 1] = p
      BY <1>1, <1>2 DEF n
    <3>2. patchesAt + PatchSize * (i - 1) = at
      <4>1. i - 1 = n
        BY <1>2, <2>2
      <4> QED
        BY <4>1
    <3>3. at \in DOMAIN kept' /\ kept'[at] = <<"patch", p>>
      BY <1>7, <1>9
    <3> HIDE DEF at
    <3> QED
      BY <2>2, <3>1, <3>2, <3>3
  <2>3. i \in 1 .. n + 1
    BY <1>1, <1>2 DEF n
  <2> QED
    BY <1>2, <2>1, <2>2, <2>3
<1>11. RteFree' /\ ScratchFree' /\ ArenaBelow'
  <2>1. \A a \in DOMAIN b : a \notin Scratch /\ a < RteEnd
    BY <1>6, <1>8, ScratchPlace, Places
  <2>2. \A a \in DOMAIN kept' : a \notin Scratch /\ a < RteEnd
    BY <1>1, <1>9, <2>1, ParseState
  <2> QED
    BY <1>1, <2>2 DEF Layout, RteFree, ScratchFree, ArenaBelow, Early, Loading
<1>12. PatchRoom'
  <2>1. DOMAIN kept' \cap PatchCells(n + 1) = {}
    <3>1. PatchCells(n + 1) \subseteq PatchCells(n)
      BY <1>3, <1>4, <1>5 DEF PatchCells
    <3>2. DOMAIN b \cap PatchCells(n + 1) = {}
      BY <1>3, <1>4, <1>5, <1>6 DEF PatchCells
    <3> QED
      BY <1>5, <1>9, <3>1, <3>2
  <2>2. PatchCells(Len(memPatches))' = PatchCells(n + 1)
    BY <1>1, <1>2 DEF PatchCells
  <2> QED
    BY <1>1, <1>5, <2>1, <2>2 DEF PatchRoom, Early
<1> QED
  BY <1>9, <1>10, <1>11, <1>12 DEF Layout

LEMMA ReplaceMainDolStep ==
  ASSUME LoadTypes, Layout, Roomy, Roomy', ReplaceMainDol
  PROVE  Layout' /\ Untouched
<1>1. /\ stage = "parse" /\ stage' = "tables"
      /\ UNCHANGED <<kept, mem1, patchesAt, memPatches, arenaEnd>>
  BY DEF ReplaceMainDol
<1>2. CASE UNCHANGED mem
  <2>1. KeptThere' /\ PatchesKept' /\ Untouched /\ HeaderThere'
    BY <1>1, <1>2, SameMemory DEF Layout, HeaderThere
  <2>2. RteFree' /\ ScratchFree' /\ ArenaBelow' /\ PatchRoom'
    BY <1>1 DEF Layout, RteFree, ScratchFree, ArenaBelow, PatchRoom, Early, Loading
  <2> QED
    BY <2>1, <2>2 DEF Layout
<1>3. ASSUME NEW n \in MainDolReads,
             Put([a \in DolBuffer .. DolBuffer + n - 1 |->
                   <<"dol", <<"pack", a - DolBuffer>> >>])
      PROVE  Layout' /\ Untouched
  <2> DEFINE b == [a \in DolBuffer .. DolBuffer + n - 1 |->
                    <<"dol", <<"pack", a - DolBuffer>> >>]
  <2>1. n \in Nat /\ n <= DolSize /\ DolSize \in Nat
    <3>1. DolSize \in Nat /\ "pack" \in DOMAIN Dols
      BY LoadAssumption DEF LoadAssumption
    <3>2. Dols["pack"].length \in 1 .. DolSize
      BY <3>1, LoadAssumption, Zenon DEF LoadAssumption
    <3>3. n \in 0 .. Dols["pack"].length
      BY LoadAssumption DEF LoadAssumption
    <3> QED
      BY <3>1, <3>2, <3>3
  <2>2. \A a \in DOMAIN b : a \in Int /\ a >= DolBuffer /\ a < DolEnd
    BY <2>1, Places DEF DolEnd
  <2>3. DolBuffer \in DOMAIN b => b[DolBuffer] = <<"dol", <<"pack", 0>> >>
    BY Places
  <2> HIDE DEF b
  <2>4. Put(b)
    BY <1>3 DEF b
  <2>5. Untouched
    <3>1. \A a \in DOMAIN b : a >= LauncherEnd
      BY <2>2, Places
    <3> QED
      BY <1>1, <2>4, <3>1, LauncherUntouched DEF Copying
  <2>6. KeptThere'
    <3>1. DOMAIN b \cap DOMAIN kept = {}
      BY <1>1, <2>2, ParseState, Places
    <3> QED
      BY <1>1, <2>4, <3>1, PutKept DEF Layout
  <2>7. HeaderThere'
    <3>1. CASE DolBuffer \in DOMAIN b
      <4>1. DolBuffer \in DOMAIN mem
        BY Places DEF LoadTypes
      <4>2. mem'[DolBuffer] = <<"dol", <<"pack", 0>> >>
        BY <2>3, <2>4, <3>1, <4>1, PutLeaves
      <4>3. "pack" \in DOMAIN Dols
        BY LoadAssumption DEF LoadAssumption
      <4> QED
        BY <4>2, <4>3 DEF HeaderThere
    <3>2. CASE DolBuffer \notin DOMAIN b
      BY <1>1, <2>4, <3>2, PutHeader DEF Layout
    <3> QED
      BY <3>1, <3>2
  <2>8. PatchesKept' /\ RteFree' /\ ScratchFree' /\ ArenaBelow' /\ PatchRoom'
    BY <1>1 DEF Layout, PatchesKept, RteFree, ScratchFree, ArenaBelow, PatchRoom,
       Early, Loading
  <2> QED
    BY <2>5, <2>6, <2>7, <2>8 DEF Layout
<1> QED
  BY <1>2, <1>3 DEF ReplaceMainDol

LEMMA PlaceTablesStep ==
  ASSUME TablesInv, LoadTypes, Layout, Roomy, Roomy', PlaceTables
  PROVE  Layout' /\ Untouched /\ BufferKept
<1> DEFINE sdAt == AlignDown(mem1 - SdFileSize * Len(sdFiles), Word)
           fullAt == AlignDown(sdAt - ReplacementSize * Len(full), Word)
           nameAt == AlignDown(fullAt - ReplacementSize * Len(byName), Word)
           pointers == [a \in {RiivoDisc} |->
             <<"riivo", <<sdAt, fullAt, Len(full), nameAt, Len(byName)>> >>]
           t1 == Table("sd", sdAt, SdFileSize, sdFiles)
           t2 == Table("full", fullAt, ReplacementSize, full')
           t3 == Table("name", nameAt, ReplacementSize, byName')
           b == Both(pointers, Both(t1, Both(t2, t3)))
<1>1. /\ stage = "tables" /\ stage' = "hooks" /\ mem1' = nameAt /\ Give(b)
      /\ UNCHANGED <<patchesAt, memPatches, arenaEnd>>
  BY DEF PlaceTables
<1>2. mem1 \in Int /\ mem1 <= RteStart
  BY DEF LoadTypes, Layout, RteFree
<1>3. Len(sdFiles) \in Nat /\ Len(full) \in Nat /\ Len(byName) \in Nat
  BY DEF TablesInv, TypeOK, TableOK
<1>4. SdFileSize \in Nat /\ ReplacementSize \in Nat
  BY LoadAssumption DEF LoadAssumption
<1>5. sdAt \in Int /\ sdAt + SdFileSize * Len(sdFiles) <= mem1 /\ sdAt <= mem1
  BY <1>2, <1>3, <1>4, TableBlock
<1> HIDE DEF sdAt
<1>6. fullAt \in Int /\ fullAt + ReplacementSize * Len(full) <= sdAt /\ fullAt <= sdAt
  BY <1>3, <1>4, <1>5, TableBlock
<1> HIDE DEF fullAt
<1>7. nameAt \in Int /\ nameAt + ReplacementSize * Len(byName) <= fullAt /\ nameAt <= fullAt
  BY <1>3, <1>4, <1>6, TableBlock
<1> HIDE DEF nameAt
<1>8. Len(full') = Len(full) /\ Len(byName') = Len(byName)
  BY FinishInv DEF PlaceTables
<1>9. /\ SdFileSize * Len(sdFiles) \in Nat /\ ReplacementSize * Len(full) \in Nat
      /\ ReplacementSize * Len(byName) \in Nat
  BY <1>3, <1>4, TimesNat
<1>10. /\ DOMAIN t1 = sdAt .. sdAt + SdFileSize * Len(sdFiles) - 1
       /\ DOMAIN t2 = fullAt .. fullAt + ReplacementSize * Len(full) - 1
       /\ DOMAIN t3 = nameAt .. nameAt + ReplacementSize * Len(byName) - 1
       /\ DOMAIN pointers = {RiivoDisc}
  BY <1>8 DEF Table
<1>11. DOMAIN b = DOMAIN pointers \cup (DOMAIN t1 \cup (DOMAIN t2 \cup DOMAIN t3))
  <2> HIDE DEF pointers, t1, t2, t3
  <2>1. DOMAIN Both(t2, t3) = DOMAIN t2 \cup DOMAIN t3
    BY BothDomain
  <2>2. DOMAIN Both(t1, Both(t2, t3)) = DOMAIN t1 \cup DOMAIN Both(t2, t3)
    BY BothDomain
  <2>3. DOMAIN b = DOMAIN pointers \cup DOMAIN Both(t1, Both(t2, t3))
    BY BothDomain
  <2> QED
    BY <2>1, <2>2, <2>3, Zenon
<1> HIDE DEF pointers, t1, t2, t3, b
<1>12. \A a \in DOMAIN b : a = RiivoDisc \/ (a \in Int /\ a >= nameAt /\ a < mem1)
  <2>1. \A a \in DOMAIN t1 : a \in Int /\ a >= sdAt /\ a < mem1
    BY <1>2, <1>5, <1>9, <1>10, InBlock, Zenon
  <2>2. \A a \in DOMAIN t2 : a \in Int /\ a >= fullAt /\ a < sdAt
    BY <1>5, <1>6, <1>9, <1>10, InBlock, Zenon
  <2>3. \A a \in DOMAIN t3 : a \in Int /\ a >= nameAt /\ a < fullAt
    BY <1>6, <1>7, <1>9, <1>10, InBlock, Zenon
  <2>4. /\ sdAt \in Int /\ fullAt \in Int /\ nameAt \in Int
        /\ sdAt <= mem1 /\ fullAt <= sdAt /\ nameAt <= fullAt
    BY <1>5, <1>6, <1>7
  <2>5. ASSUME NEW a \in Int
        PROVE  /\ a >= sdAt => a >= nameAt
               /\ a >= fullAt /\ a < sdAt => a >= nameAt /\ a < mem1
               /\ a < fullAt => a < mem1
    BY <1>2, <2>4
  <2> QED
    BY <1>10, <1>11, <2>1, <2>2, <2>3, <2>5
<1>13. RiivoDisc \in RteStart .. RteEnd - 1 /\ RiivoDisc \notin TrampolineArea
  BY ScratchPlace
<1>14. nameAt <= mem1 /\ DolEnd <= nameAt
  BY <1>1, <1>2, <1>5, <1>6, <1>7, Places DEF Roomy
<1>15. \A a \in DOMAIN kept : a \in Int /\ a >= mem1 /\ a < RteEnd /\ a \notin Scratch
  BY <1>1, <1>2 DEF Layout, KeptThere, ArenaBelow, ScratchFree, Loading
<1>16. /\ KeptThere' /\ HeaderThere' /\ Untouched /\ BufferKept
       /\ DOMAIN kept' = DOMAIN kept \cup DOMAIN b
  <2>1. \A a \in DOMAIN b : a \in mem1' .. Top - 1
    BY <1>1, <1>2, <1>7, <1>12, <1>13, <1>14, Places
  <2>2. DOMAIN b \cap DOMAIN kept = {}
    BY <1>12, <1>15, ScratchPlace, <1>2
  <2>3. mem1' \in Int /\ mem1' <= mem1 /\ DolEnd <= mem1'
    BY <1>1, <1>7, <1>14
  <2>4. stage \in Filling
    BY <1>1 DEF Filling
  <2> QED
    BY <1>1, <2>1, <2>2, <2>3, <2>4, GiveStep
<1>17. PatchesKept'
  BY <1>1, KeepPatches DEF Layout, Give
<1>18. \A a \in DOMAIN kept' : a < RteEnd /\ a \notin TrampolineArea
  <2>1. \A a \in DOMAIN b : a < RteEnd /\ a \notin TrampolineArea
    BY <1>2, <1>12, <1>13, ScratchPlace, Places
  <2> QED
    BY <1>15, <1>16, <2>1, ScratchPlace
<1>19. RteFree' /\ ScratchFree' /\ ArenaBelow'
  BY <1>1, <1>2, <1>7, <1>14, <1>18, Places
     DEF Layout, RteFree, ScratchFree, ArenaBelow, Early, Loading
<1>20. PatchRoom'
  <2>1. mem1 <= patchesAt /\ patchesAt \in Int /\ patchesAt + PatchSize * MaxMemPatches <= RteStart
    BY <1>1 DEF Layout, PatchRoom, LoadTypes, Early
  <2>2. mem1' <= patchesAt
    BY <1>1, <1>2, <1>7, <1>14, <2>1
  <2> QED
    BY <1>1, <2>1, <2>2 DEF PatchRoom, Early
<1> QED
  BY <1>16, <1>17, <1>19, <1>20 DEF Layout

LEMMA PatchDvdFunctionsStep ==
  ASSUME LoadTypes, Layout, Roomy, PatchDvdFunctions
  PROVE  Layout' /\ Untouched
<1>1. /\ stage = "hooks" /\ stage' = "pulsar"
      /\ \A i \in DOMAIN Hooked : SectionsAt(Hooked[i]) # {}
      /\ UNCHANGED <<mem1, patchesAt, memPatches, arenaEnd>>
  BY DEF PatchDvdFunctions
<1>2. PICK t, j : /\ Put(Both(t, j)) /\ Keep(t)
                  /\ DOMAIN t \subseteq TrampolineArea
                  /\ DOMAIN j = {Buffered(Hooked[i]) : i \in DOMAIN Hooked}
  <2> DEFINE taken(a) == {i \in DOMAIN Hooked : a \in {TrampolineAt(i), TrampolineAt(i) + 1}}
             t == [a \in {b \in TrampolineArea : taken(b) # {}} |->
                    LET i == Max(taken(a)) IN
                    IF a = TrampolineAt(i) THEN mem[Buffered(Hooked[i])]
                                           ELSE <<"back", Hooked[i] + 1>>]
             j == [a \in {Buffered(Hooked[i]) : i \in DOMAIN Hooked} |->
                    <<"jump", Hooked[CHOOSE i \in DOMAIN Hooked : a = Buffered(Hooked[i])]>>]
  <2>1. Put(Both(t, j)) /\ Keep(t)
    BY DEF PatchDvdFunctions
  <2>2. DOMAIN t \subseteq TrampolineArea
    OBVIOUS
  <2>3. DOMAIN j = {Buffered(Hooked[i]) : i \in DOMAIN Hooked}
    OBVIOUS
  <2> QED
    BY <2>1, <2>2, <2>3, Zenon
<1> DEFINE b == Both(t, j)
<1>3. /\ mem1 \in Int /\ DolEnd <= mem1 /\ mem1 <= RteStart
      /\ \A a \in DOMAIN kept :
           a \in Int /\ a >= mem1 /\ a < RteEnd /\ a \notin TrampolineArea
  BY <1>1 DEF LoadTypes, Roomy, Layout, RteFree, KeptThere, ArenaBelow, ScratchFree, Loading
<1>4. DOMAIN b = DOMAIN t \cup DOMAIN j
  BY BothDomain
<1>5. \A a \in DOMAIN t : a \in RteStart .. RteEnd - 1
  BY <1>2, ScratchPlace
<1>6. \A a \in DOMAIN j : a \in DolBuffer + 1 .. DolEnd - 1
  BY <1>1, <1>2, BufferedInside DEF Layout
<1>7. \A a \in DOMAIN t : a \in DOMAIN b /\ t[a] = b[a]
  BY <1>4 DEF Both
<1> HIDE DEF b
<1>8. Put(b)
  BY <1>2 DEF b
<1>9. Untouched
  <2>1. \A a \in DOMAIN b : a >= LauncherEnd
    BY <1>4, <1>5, <1>6, Places
  <2> QED
    BY <1>1, <1>8, <2>1, LauncherUntouched DEF Copying
<1>10. KeptThere'
  <2>1. DOMAIN b \cap DOMAIN kept = {}
    BY <1>2, <1>3, <1>4, <1>6, Places
  <2>2. \A a \in DOMAIN t : a \in DOMAIN b /\ t[a] = b[a] /\ a \in mem1' .. Top - 1
    BY <1>1, <1>3, <1>5, <1>7, Places
  <2>3. mem1' \in Int /\ 0 <= mem1' /\ mem1' <= mem1
    BY <1>1, <1>3, Places
  <2> QED
    BY <1>2, <1>8, <2>1, <2>2, <2>3, WriteKept DEF Layout
<1>11. HeaderThere'
  <2>1. DolBuffer \notin DOMAIN b
    BY <1>4, <1>5, <1>6, Places
  <2> QED
    BY <1>1, <1>8, <2>1, PutHeader DEF Layout
<1>12. PatchesKept'
  BY <1>1, <1>2, KeepPatches DEF Layout
<1>13. \A a \in DOMAIN kept' : a < RteEnd
  <2>1. DOMAIN kept' = DOMAIN kept \cup DOMAIN t
    BY <1>2, KeepAdds
  <2>2. \A a \in DOMAIN t : a < RteEnd
    BY <1>5, Places
  <2> QED
    BY <1>3, <2>1, <2>2
<1>14. RteFree' /\ ScratchFree' /\ ArenaBelow' /\ PatchRoom'
  BY <1>1, <1>13 DEF Layout, RteFree, ScratchFree, ArenaBelow, PatchRoom, Early, Loading
<1> QED
  BY <1>9, <1>10, <1>11, <1>12, <1>14 DEF Layout

-----------------------------------------------------------------------------
(* The theorems                                                            *)

LEMMA LayoutStep ==
  ASSUME TablesInv, LoadTypes, Layout, Roomy, Roomy', [LoadNext]_gVars
  PROVE  Layout' /\ Untouched
<1>1. CASE ReadDol \/ (\E size \in FstSizes : ReadFst(size)) \/ ReadBi2
  BY <1>1, ReadDolStep, ReadFstStep, ReadBi2Step
<1>2. CASE (\E r \in RteFiles : LoadRuntimeExt(r)) \/ ReservePatches
  BY <1>2, LoadRuntimeExtStep, ReservePatchesStep
<1>3. CASE ParseFiles \/ (\E p \in MemPatches : ParseMemory(p)) \/ ReplaceMainDol
  BY <1>3, ParseFilesStep, ParseMemoryStep, ReplaceMainDolStep
<1>4. CASE PlaceTables \/ PatchDvdFunctions
  BY <1>4, PlaceTablesStep, PatchDvdFunctionsStep
<1>5. CASE (\E n \in 0 .. PulSize : LoadPulsar(n)) \/ HandOver \/ InstallCopier
  BY <1>5, LoadPulsarStep, HandOverStep, InstallCopierStep
<1>6. CASE ZeroBss \/ CopySection \/ ApplyPatch \/ SectionsCopied \/ EnterGame
  BY <1>6, PatchDolStep, QuietLateStep
<1>7. CASE \/ \E a \in PulDests : ParsePulsar(a)
           \/ RefuseTables \/ LoadFails \/ UNCHANGED gVars
  BY <1>7, QuietStep
<1> QED
  BY <1>1, <1>2, <1>3, <1>4, <1>5, <1>6, <1>7, Zenon DEF LoadNext, Ended

(* Memory is only ever taken, so that what is Roomy now always was.        *)
LEMMA RoomyBefore ==
  ASSUME LoadTypes, mem1' \in Int, Grows, Roomy'
  PROVE  Roomy
BY Places DEF LoadTypes, Grows, Roomy

Whole == TablesInv /\ LoadTypes /\ (Roomy => Layout)

LEMMA WholeInit ==
  ASSUME LoadInit
  PROVE  Whole
<1>1. KeptThere /\ RteFree /\ ScratchFree
  BY Places DEF LoadInit, KeptThere, RteFree, ScratchFree
<1>2. ArenaBelow /\ PatchRoom /\ PatchesKept /\ HeaderThere
  BY DEF LoadInit, ArenaBelow, PatchRoom, PatchesKept, HeaderThere, Loading, Early
<1> QED
  BY <1>1, <1>2, TypesInit DEF Whole, Layout

LEMMA WholeStep ==
  ASSUME Whole, [LoadNext]_gVars
  PROVE  Whole' /\ (Roomy' => Untouched)
<1>1. TablesInv' /\ LoadTypes' /\ Grows
  BY TypesStep DEF Whole
<1>2. ASSUME Roomy' PROVE Layout' /\ Untouched
  <2>1. mem1' \in Int
    BY <1>1 DEF LoadTypes
  <2>2. Roomy
    BY <1>1, <1>2, <2>1, RoomyBefore DEF Whole
  <2> QED
    BY <1>2, <2>2, LayoutStep DEF Whole
<1> QED
  BY <1>1, <1>2 DEF Whole

(* Nothing that the launcher writes goes over what it has given to the     *)
(* game, for every layout of memory that LoadAssumption allows             *)
(* (main.c:374-397, loader.c:157-206, riivo_patch_loader.c:373, 525-543).  *)
THEOREM GivenIsKept == LoadSpec => []KeptIntact
<1>1. LoadInit => Whole
  BY WholeInit
<1>2. Whole /\ [LoadNext]_gVars => Whole'
  BY WholeStep
<1>3. Whole => KeptIntact
  <2> SUFFICES ASSUME Whole, Roomy, NEW a \in DOMAIN kept
      PROVE  mem[a] = kept[a] /\ arenaEnd <= a
    BY DEF KeptIntact
  <2>1. a \in mem1 .. Top - 1 /\ mem[a] = kept[a] /\ mem1 \in Int /\ DolEnd <= mem1
    BY DEF Whole, Layout, KeptThere, LoadTypes, Roomy
  <2>2. arenaEnd \in Int /\ arenaEnd <= mem1
    BY <2>1, Places DEF Whole, Layout, ArenaBelow, LoadTypes
  <2> QED
    BY <2>1, <2>2, Places
<1> QED
  BY <1>1, <1>2, <1>3, PTL DEF LoadSpec

(* No step writes over the code that executes it or over what patch_dol    *)
(* has yet to copy or to apply (game_dol_loader.c:20-38,                   *)
(* loader.c:120-148).                                                      *)
THEOREM RunningCodeIsKept == LoadSpec => RunsOnOwnCode
<1>1. LoadInit => Whole
  BY WholeInit
<1>2. Whole /\ [LoadNext]_gVars => Whole'
  BY WholeStep
<1>3. Whole /\ [LoadNext]_gVars => [Roomy' => \A a \in InUse : mem'[a] = mem[a]]_gVars
  BY WholeStep DEF Untouched
<1> QED
  BY <1>1, <1>2, <1>3, PTL DEF LoadSpec, RunsOnOwnCode

(* The search of runtime-ext in the tables that the launcher has built     *)
(* finds the last patch of a path, for all patches, all hashes and every   *)
(* order in which sorting leaves equal ones                                *)
(* (riivo_patch_loader.c:122-135, dvd.c:120-177).                          *)
THEOREM LastPatchIsFound == LoadSpec => []ResolvesToLastPatch
<1> DEFINE Inv == Whole /\ HistoryInv
<1>1. LoadInit => Inv
  <2> SUFFICES ASSUME LoadInit PROVE Inv
    OBVIOUS
  <2>1. HistoryInv
    BY DEF LoadInit, InitTables, HistoryInv, Reflects
  <2> QED
    BY <2>1, WholeInit
<1>2. Inv /\ [LoadNext]_gVars => Inv'
  BY WholeStep, HistoryStep DEF Whole
<1>3. Inv => ResolvesToLastPatch
  BY ReadyResolves DEF Whole
<1> QED
  BY <1>1, <1>2, <1>3, PTL DEF LoadSpec

-----------------------------------------------------------------------------
(* A value that is computed one index after the other                      *)

Computes(f, n, S, start, step) ==
  /\ f \in [0 .. n -> S]
  /\ f[0] = start
  /\ \A i \in 1 .. n : f[i] = step[i][f[i - 1]]

LEMMA Recursion ==
  ASSUME NEW n \in Nat, NEW S, NEW start \in S, NEW step \in [1 .. n -> [S -> S]]
  PROVE  \E f : Computes(f, n, S, start, step)
<1> DEFINE T == {m \in Nat : m <= n => \E f \in [0 .. m -> S] :
                   f[0] = start /\ \A i \in 1 .. m : f[i] = step[i][f[i - 1]]}
<1>1. 0 \in T
  <2> DEFINE f == [i \in 0 .. 0 |-> start]
  <2>1. f \in [0 .. 0 -> S] /\ f[0] = start /\ \A i \in 1 .. 0 : f[i] = step[i][f[i - 1]]
    OBVIOUS
  <2> QED
    BY <2>1
<1>2. ASSUME NEW m \in Nat, m \in T PROVE m + 1 \in T
  <2> SUFFICES ASSUME m + 1 <= n
      PROVE  \E f \in [0 .. m + 1 -> S] :
               f[0] = start /\ \A i \in 1 .. m + 1 : f[i] = step[i][f[i - 1]]
    OBVIOUS
  <2>1. PICK f \in [0 .. m -> S] :
          f[0] = start /\ \A i \in 1 .. m : f[i] = step[i][f[i - 1]]
    BY <1>2
  <2> DEFINE g == [i \in 0 .. m + 1 |-> IF i <= m THEN f[i] ELSE step[m + 1][f[m]]]
  <2>2. step[m + 1][f[m]] \in S
    <3>1. m + 1 \in 1 .. n /\ f[m] \in S
      BY <2>1
    <3> QED
      BY <3>1
  <2>3. g \in [0 .. m + 1 -> S] /\ g[0] = start
    BY <2>1, <2>2
  <2>4. ASSUME NEW i \in 1 .. m + 1 PROVE g[i] = step[i][g[i - 1]]
    <3>1. i - 1 \in 0 .. m /\ g[i - 1] = f[i - 1]
      OBVIOUS
    <3>2. CASE i <= m
      BY <2>1, <3>1, <3>2
    <3>3. CASE i = m + 1
      BY <3>1, <3>3
    <3> QED
      BY <3>2, <3>3
  <2> HIDE DEF g
  <2> QED
    BY <2>3, <2>4
<1>3. Nat \subseteq T
  <2> HIDE DEF T
  <2> QED
    BY <1>1, <1>2, Induction
<1> QED
  BY <1>3 DEF Computes

(* What an address holds after each memory patch.                          *)
LEMMA AfterPatchesEquation ==
  ASSUME NEW a, NEW before, NEW patches, NEW n \in Nat, Len(patches) = n
  PROVE  AfterPatches(a, before, patches) = [k \in 0 .. Len(patches) |->
           IF k = 0 THEN before
           ELSE LET p == patches[k] IN
                IF p.addr = a /\ p.original \in {Nothing, AfterPatches(a, before, patches)[k - 1]}
                  THEN p.value ELSE AfterPatches(a, before, patches)[k - 1]]
<1> DEFINE S == {before} \cup {patches[k].value : k \in 1 .. n}
           step == [k \in 1 .. n |-> [v \in S |->
             IF patches[k].addr = a /\ patches[k].original \in {Nothing, v}
               THEN patches[k].value ELSE v]]
<1>1. step \in [1 .. n -> [S -> S]] /\ before \in S
  OBVIOUS
<1>2. \A k \in 1 .. n, v \in S : step[k][v] =
        IF patches[k].addr = a /\ patches[k].original \in {Nothing, v}
          THEN patches[k].value ELSE v
  OBVIOUS
<1> HIDE DEF S, step
<1>3. PICK f : Computes(f, n, S, before, step)
  BY <1>1, Recursion
<1>4. ASSUME NEW k \in 0 .. n
      PROVE  f[k] = IF k = 0 THEN before
           ELSE LET p == patches[k] IN
                IF p.addr = a /\ p.original \in {Nothing, f[k - 1]}
                  THEN p.value ELSE f[k - 1]
  <2>1. CASE k = 0
    BY <1>3, <2>1 DEF Computes
  <2>2. CASE k # 0
    <3>1. k \in 1 .. n /\ k - 1 \in 0 .. n
      BY <2>2
    <3>2. f[k - 1] \in S /\ f[k] = step[k][f[k - 1]]
      BY <1>3, <3>1 DEF Computes
    <3> QED
      BY <1>2, <2>2, <3>1, <3>2
  <2> QED
    BY <2>1, <2>2
<1>5. f = [k \in 0 .. Len(patches) |->
           IF k = 0 THEN before
           ELSE LET p == patches[k] IN
                IF p.addr = a /\ p.original \in {Nothing, f[k - 1]}
                  THEN p.value ELSE f[k - 1]]
  BY <1>3, <1>4 DEF Computes
<1> QED
  BY <1>5, Zenon DEF AfterPatches

LEMMA AfterPatchesStep ==
  ASSUME NEW a, NEW before, NEW patches, Len(patches) \in Nat
  PROVE  /\ AfterPatches(a, before, patches)[0] = before
         /\ \A k \in 1 .. Len(patches) :
              LET p == patches[k]
                  prior == AfterPatches(a, before, patches)[k - 1]
              IN AfterPatches(a, before, patches)[k] =
                   IF p.addr = a /\ p.original \in {Nothing, prior}
                     THEN p.value ELSE prior
<1> DEFINE f == AfterPatches(a, before, patches)
<1>1. f = [k \in 0 .. Len(patches) |->
           IF k = 0 THEN before
           ELSE LET p == patches[k] IN
                IF p.addr = a /\ p.original \in {Nothing, f[k - 1]}
                  THEN p.value ELSE f[k - 1]]
  BY AfterPatchesEquation
<1> HIDE DEF f
<1>2. f[0] = before
  BY <1>1
<1>3. \A k \in 1 .. Len(patches) :
        f[k] = IF patches[k].addr = a /\ patches[k].original \in {Nothing, f[k - 1]}
                 THEN patches[k].value ELSE f[k - 1]
  BY <1>1
<1> QED
  BY <1>2, <1>3 DEF f

-----------------------------------------------------------------------------
(* The sections of the game and where they lie in the buffer               *)

Sec(d) == Dols[d].sections
Cells(s) == s.addr .. s.addr + s.size - 1
Place(s, a) == DolBuffer + s.off + (a - s.addr)

LEMMA SectionFacts ==
  ASSUME NEW d \in DOMAIN Dols
  PROVE  /\ Len(Sec(d)) \in Nat /\ DOMAIN Sec(d) = 1 .. Len(Sec(d))
         /\ Dols[d].length \in Nat /\ Dols[d].length >= 1 /\ Dols[d].length <= DolSize
         /\ \A i \in DOMAIN Sec(d) :
              LET s == Sec(d)[i] IN
              /\ s.off \in Nat /\ s.off >= 1 /\ s.addr \in Nat /\ s.size \in Nat
              /\ s.off + s.size <= Dols[d].length /\ s.addr + s.size <= PatchCopy
<1> DEFINE R == [off : Nat \ {0}, addr : Nat, size : Nat]
<1>1. Sec(d) \in Seq(R)
  BY LoadAssumption DEF LoadAssumption, Sec
<1>2. Dols[d].length \in Nat /\ Dols[d].length >= 1 /\ Dols[d].length <= DolSize
  <2>1. Dols[d].length \in 1 .. DolSize /\ DolSize \in Nat
    BY LoadAssumption DEF LoadAssumption
  <2> QED
    BY <2>1
<1> HIDE DEF R
<1>3. Len(Sec(d)) \in Nat /\ DOMAIN Sec(d) = 1 .. Len(Sec(d))
  BY <1>1
<1>4. ASSUME NEW i \in DOMAIN Sec(d)
      PROVE  /\ Sec(d)[i].off \in Nat /\ Sec(d)[i].off >= 1
             /\ Sec(d)[i].addr \in Nat /\ Sec(d)[i].size \in Nat
             /\ Sec(d)[i].off + Sec(d)[i].size <= Dols[d].length
             /\ Sec(d)[i].addr + Sec(d)[i].size <= PatchCopy
  <2>1. Sec(d)[i] \in R
    BY <1>1, <1>3
  <2>2. /\ Sec(d)[i].off \in Nat \ {0} /\ Sec(d)[i].addr \in Nat /\ Sec(d)[i].size \in Nat
    BY <2>1 DEF R
  <2>3. /\ Sec(d)[i].off + Sec(d)[i].size <= Dols[d].length
        /\ Sec(d)[i].addr + Sec(d)[i].size <= PatchCopy
    BY LoadAssumption DEF LoadAssumption, Sec
  <2> QED
    BY <2>2, <2>3
<1> QED
  BY <1>2, <1>3, <1>4

LEMMA OneSection ==
  ASSUME NEW d \in DOMAIN Dols, NEW i \in DOMAIN Sec(d), NEW j \in DOMAIN Sec(d),
         NEW a, a \in Cells(Sec(d)[i]), a \in Cells(Sec(d)[j])
  PROVE  i = j
<1> DEFINE s == Sec(d)[i]
           t == Sec(d)[j]
<1>1. s.addr \in Nat /\ s.size \in Nat /\ t.addr \in Nat /\ t.size \in Nat
  BY SectionFacts
<1>2. i # j => s.addr + s.size <= t.addr \/ t.addr + t.size <= s.addr
  BY ImageAssumption DEF ImageAssumption, Sec
<1>3. a \in s.addr .. s.addr + s.size - 1 /\ a \in t.addr .. t.addr + t.size - 1
  BY DEF Cells
<1> HIDE DEF s, t
<1> QED
  BY <1>1, <1>2, <1>3

LEMMA OnePlace ==
  ASSUME NEW d \in DOMAIN Dols, NEW i \in DOMAIN Sec(d), NEW j \in DOMAIN Sec(d),
         NEW a \in Cells(Sec(d)[i]), NEW b \in Cells(Sec(d)[j]),
         Place(Sec(d)[i], a) = Place(Sec(d)[j], b)
  PROVE  a = b
<1> DEFINE s == Sec(d)[i]
           t == Sec(d)[j]
<1>1. /\ s.addr \in Nat /\ s.size \in Nat /\ s.off \in Nat
      /\ t.addr \in Nat /\ t.size \in Nat /\ t.off \in Nat
  BY SectionFacts
<1>2. i # j => s.off + s.size <= t.off \/ t.off + t.size <= s.off
  BY ImageAssumption DEF ImageAssumption, Sec
<1>3. a \in s.addr .. s.addr + s.size - 1 /\ b \in t.addr .. t.addr + t.size - 1
  BY DEF Cells
<1>4. DolBuffer + s.off + (a - s.addr) = DolBuffer + t.off + (b - t.addr)
  BY DEF Place
<1>5. i = j => s = t
  OBVIOUS
<1> HIDE DEF s, t
<1>6. s.off + (a - s.addr) = t.off + (b - t.addr)
  BY <1>1, <1>3, <1>4, Places
<1>7. CASE i = j
  <2>1. s = t
    BY <1>5, <1>7
  <2> QED
    BY <1>1, <1>3, <1>6, <2>1
<1>8. CASE i # j
  BY <1>1, <1>2, <1>3, <1>6, <1>8
<1> QED
  BY <1>7, <1>8

LEMMA PlaceInside ==
  ASSUME NEW d \in DOMAIN Dols, NEW i \in DOMAIN Sec(d), NEW a \in Cells(Sec(d)[i])
  PROVE  /\ Place(Sec(d)[i], a) \in DolBuffer + 1 .. DolEnd - 1
         /\ Sec(d)[i].off + (a - Sec(d)[i].addr) \in 0 .. Dols[d].length - 1
         /\ a \in Nat /\ a < PatchCopy
<1> DEFINE s == Sec(d)[i]
<1>1. /\ s.addr \in Nat /\ s.size \in Nat /\ s.off \in Nat /\ s.off >= 1
      /\ s.off + s.size <= Dols[d].length /\ s.addr + s.size <= PatchCopy
      /\ Dols[d].length \in Nat /\ Dols[d].length <= DolSize
  BY SectionFacts
<1>2. a \in s.addr .. s.addr + s.size - 1
  BY DEF Cells
<1>3. DolSize \in Nat
  BY LoadAssumption DEF LoadAssumption
<1>4. Place(s, a) = DolBuffer + s.off + (a - s.addr)
  BY DEF Place
<1> HIDE DEF s
<1>5. /\ s.off + (a - s.addr) \in 0 .. Dols[d].length - 1
      /\ DolBuffer + s.off + (a - s.addr) \in DolBuffer + 1 .. DolEnd - 1
      /\ a \in Nat /\ a < PatchCopy
  BY <1>1, <1>2, <1>3, Places DEF DolEnd
<1> QED
  BY <1>4, <1>5 DEF s

(* The header in the buffer, and what it says of an address.               *)
HeaderIs(d) == mem[DolBuffer] = <<"dol", <<d, 0>> >>

LEMMA HeaderSays ==
  ASSUME NEW d \in DOMAIN Dols, HeaderIs(d)
  PROVE  /\ Header = Dols[d] /\ Header.sections = Sec(d)
         /\ \A a : SectionsAt(a) = {i \in DOMAIN Sec(d) : a \in Cells(Sec(d)[i])}
         /\ \A i \in DOMAIN Sec(d) : \A a \in Cells(Sec(d)[i]) :
              SectionsAt(a) = {i} /\ Buffered(a) = Place(Sec(d)[i], a)
<1>1. Header = Dols[d] /\ Header.sections = Sec(d)
  BY DEF Header, HeaderIs, Sec
<1>2. \A a : SectionsAt(a) = {i \in DOMAIN Sec(d) : a \in Cells(Sec(d)[i])}
  BY <1>1 DEF SectionsAt, Cells
<1>3. ASSUME NEW i \in DOMAIN Sec(d), NEW a \in Cells(Sec(d)[i])
      PROVE  SectionsAt(a) = {i} /\ Buffered(a) = Place(Sec(d)[i], a)
  <2>1. SectionsAt(a) = {i}
    BY <1>2, <1>3, OneSection
  <2>2. Min({i}) = i
    <3>1. {i} \subseteq Nat /\ {i} # {}
      BY SectionFacts
    <3> QED
      BY <3>1, MinMember
  <2>3. Buffered(a) = Place(Header.sections[Min(SectionsAt(a))], a)
    BY DEF Buffered, Place
  <2> QED
    BY <1>1, <2>1, <2>2, <2>3
<1> QED
  BY <1>1, <1>2, <1>3

-----------------------------------------------------------------------------
(* What the game's memory holds at each stage, when no read fails silently *)

WholeDol == IF dol = Nothing THEN "disc" ELSE "pack"
DolIn(d) == \A k \in 0 .. Dols[d].length - 1 : mem[DolBuffer + k] = <<"dol", <<d, k>> >>

(* What a cell of a section holds as linked, with the jumps of the DVD     *)
(* functions, and with Loader.pul at dest.                                 *)
Linked(d, s, a) == <<"dol", <<d, s.off + (a - s.addr)>> >>
IsHooked(a) == \E h \in DOMAIN Hooked : Hooked[h] = a
WithHooks(d, s, a) == IF IsHooked(a) THEN <<"jump", a>> ELSE Linked(d, s, a)
WithPul(d, dest, s, a) ==
  IF a \in dest .. dest + PulSize - 1 THEN <<"pul", a - dest>> ELSE WithHooks(d, s, a)

BufferHooked(d) ==
  \A i \in DOMAIN Sec(d) : \A a \in Cells(Sec(d)[i]) :
    mem[Place(Sec(d)[i], a)] = WithHooks(d, Sec(d)[i], a)
BufferWhole(d) ==
  \A i \in DOMAIN Sec(d) : \A a \in Cells(Sec(d)[i]) :
    mem[Place(Sec(d)[i], a)] = WithPul(d, pulDest, Sec(d)[i], a)

(* Each hooked function is in a section, and its trampoline is kept.       *)
HooksPlaced(d) ==
  \A h \in DOMAIN Hooked :
    /\ {TrampolineAt(h), TrampolineAt(h) + 1} \subseteq DOMAIN kept
    /\ kept[TrampolineAt(h) + 1] = <<"back", Hooked[h] + 1>>
    /\ \E i \in DOMAIN Sec(d) :
         /\ Hooked[h] \in Cells(Sec(d)[i])
         /\ kept[TrampolineAt(h)] = Linked(d, Sec(d)[i], Hooked[h])
PulInside(d) ==
  pulDest \in PulDests /\ \E i \in DOMAIN Sec(d) : pulDest \in Cells(Sec(d)[i])

(* What an address holds before the memory patches.                        *)
Given(d, dest, a) ==
  IF \E i \in DOMAIN Sec(d) : a \in Cells(Sec(d)[i])
    THEN WithPul(d, dest, Sec(d)[CHOOSE i \in DOMAIN Sec(d) : a \in Cells(Sec(d)[i])], a)
    ELSE Zero
GameCells(d) ==
  Span(Dols[d].bss) \cup UNION {Cells(Sec(d)[i]) : i \in DOMAIN Sec(d)}

Copied(d) ==
  /\ done <= Len(Sec(d))
  /\ \A a \in GameCells(d) :
       (\A i \in DOMAIN Sec(d) : a \in Cells(Sec(d)[i]) => i <= done)
         => mem[a] = Given(d, pulDest, a)
PatchedTo(d, n) ==
  \A a \in GameCells(d) : mem[a] = AfterPatches(a, Given(d, pulDest, a), memPatches)[n]

Reading == {"fst", "bi2", "rte", "reserve", "parse"}
Image(d) ==
  /\ stage \in Loading \cup {"copier", "bss"} => done = 0
  /\ stage \in Reading => DolIn("disc")
  /\ stage \in {"tables", "hooks"} => DolIn(d)
  /\ stage \in Late => HeaderIs(d) /\ HooksPlaced(d)
  /\ stage = "pulsar" => BufferHooked(d)
  /\ stage \in Late \ {"pulsar"} => PulInside(d)
  /\ stage \in {"handover", "copier", "bss", "sections"} => BufferWhole(d)
  /\ stage = "sections" => Copied(d)
  /\ stage = "patches" => done <= Len(memPatches) /\ PatchedTo(d, done)
  /\ stage = "game" => PatchedTo(d, Len(memPatches))

LEMMA BufferSame ==
  ASSUME BufferKept, NEW d \in DOMAIN Dols
  PROVE  /\ DolIn(d) => DolIn(d)'
         /\ HeaderIs(d) => HeaderIs(d)'
         /\ BufferHooked(d) => BufferHooked(d)'
         /\ pulDest' = pulDest => (BufferWhole(d) => BufferWhole(d)')
<1>1. \A k \in 0 .. Dols[d].length - 1 : mem'[DolBuffer + k] = mem[DolBuffer + k]
  <2>1. Dols[d].length \in Nat /\ Dols[d].length <= DolSize /\ DolSize \in Nat
    BY SectionFacts, LoadAssumption DEF LoadAssumption
  <2> DEFINE n == Dols[d].length
  <2> HIDE DEF n
  <2>2. n \in Nat /\ n <= DolSize /\ DolSize \in Nat
    BY <2>1 DEF n
  <2>3. \A k \in 0 .. n - 1 : DolBuffer + k \in DolBuffer .. DolEnd - 1
    BY <2>2, Places DEF DolEnd
  <2>4. \A k \in 0 .. n - 1 : mem'[DolBuffer + k] = mem[DolBuffer + k]
    BY <2>3 DEF BufferKept
  <2> QED
    BY <2>4 DEF n
<1>2. mem'[DolBuffer] = mem[DolBuffer]
  BY Places DEF BufferKept
<1>3. \A i \in DOMAIN Sec(d) : \A a \in Cells(Sec(d)[i]) :
        mem'[Place(Sec(d)[i], a)] = mem[Place(Sec(d)[i], a)]
  BY PlaceInside, Places DEF BufferKept
<1> QED
  BY <1>1, <1>2, <1>3 DEF DolIn, HeaderIs, BufferHooked, BufferWhole

(* What is kept stays known.                                               *)
LEMMA HooksSame ==
  ASSUME NEW d \in DOMAIN Dols, HooksPlaced(d),
         DOMAIN kept \subseteq DOMAIN kept', \A a \in DOMAIN kept : kept'[a] = kept[a]
  PROVE  HooksPlaced(d)'
<1> SUFFICES ASSUME NEW h \in DOMAIN Hooked
    PROVE  /\ {TrampolineAt(h), TrampolineAt(h) + 1} \subseteq DOMAIN kept'
           /\ kept'[TrampolineAt(h) + 1] = <<"back", Hooked[h] + 1>>
           /\ \E i \in DOMAIN Sec(d) :
                /\ Hooked[h] \in Cells(Sec(d)[i])
                /\ kept'[TrampolineAt(h)] = Linked(d, Sec(d)[i], Hooked[h])
  BY DEF HooksPlaced
<1>1. /\ {TrampolineAt(h), TrampolineAt(h) + 1} \subseteq DOMAIN kept
      /\ kept[TrampolineAt(h) + 1] = <<"back", Hooked[h] + 1>>
  BY DEF HooksPlaced
<1>2. PICK i \in DOMAIN Sec(d) :
        /\ Hooked[h] \in Cells(Sec(d)[i])
        /\ kept[TrampolineAt(h)] = Linked(d, Sec(d)[i], Hooked[h])
  BY DEF HooksPlaced
<1> QED
  BY <1>1, <1>2

LEMMA GivenInside ==
  ASSUME NEW d \in DOMAIN Dols, NEW dest, NEW i \in DOMAIN Sec(d), NEW a \in Cells(Sec(d)[i])
  PROVE  Given(d, dest, a) = WithPul(d, dest, Sec(d)[i], a)
<1> DEFINE j == CHOOSE j \in DOMAIN Sec(d) : a \in Cells(Sec(d)[j])
<1>1. j \in DOMAIN Sec(d) /\ a \in Cells(Sec(d)[j])
  OBVIOUS
<1>2. Given(d, dest, a) = WithPul(d, dest, Sec(d)[j], a)
  BY Zenon DEF Given
<1> HIDE DEF j
<1>3. j = i
  BY <1>1, OneSection
<1> QED
  BY <1>2, <1>3

(* All of Loader.pul is in the section of its start.                       *)
LEMMA PulCells ==
  ASSUME NEW d \in DOMAIN Dols, PulInside(d)
  PROVE  \E i \in DOMAIN Sec(d) :
           /\ pulDest \in Cells(Sec(d)[i])
           /\ pulDest .. pulDest + PulSize - 1 \subseteq Cells(Sec(d)[i])
<1>1. PICK i \in DOMAIN Sec(d) : pulDest \in Cells(Sec(d)[i])
  BY DEF PulInside
<1> DEFINE s == Sec(d)[i]
<1>2. s.addr \in Nat /\ s.size \in Nat
  BY SectionFacts
<1>3. pulDest \in s.addr .. s.addr + s.size - 1
  BY <1>1 DEF Cells
<1>4. pulDest + PulSize <= s.addr + s.size
  BY <1>3, LoadAssumption DEF LoadAssumption, PulInside, Sec
<1>5. PulSize \in Nat
  BY LoadAssumption DEF LoadAssumption
<1> HIDE DEF s
<1>6. pulDest .. pulDest + PulSize - 1 \subseteq s.addr .. s.addr + s.size - 1
  BY <1>2, <1>3, <1>4, <1>5
<1> QED
  BY <1>1, <1>6 DEF s, Cells

LEMMA OriginalGiven ==
  ASSUME NEW d \in DOMAIN Dols, HeaderIs(d), PulInside(d), HooksPlaced(d), NEW a
  PROVE  Original(a) = Given(d, pulDest, a)
<1>1. /\ Header.sections = Sec(d)
      /\ SectionsAt(a) = {i \in DOMAIN Sec(d) : a \in Cells(Sec(d)[i])}
  BY HeaderSays
<1>2. mem[DolBuffer][2][1] = d
  BY DEF HeaderIs
<1>3. CASE \E i \in DOMAIN Sec(d) : a \in Cells(Sec(d)[i])
  <2>1. PICK i \in DOMAIN Sec(d) : a \in Cells(Sec(d)[i])
    BY <1>3
  <2>2. SectionsAt(a) = {i}
    BY <2>1, HeaderSays
  <2>3. (CHOOSE j \in SectionsAt(a) : TRUE) = i
    BY <2>2
  <2>4. Original(a) =
          IF a \in pulDest .. pulDest + PulSize - 1 THEN <<"pul", a - pulDest>>
          ELSE IF \E h \in DOMAIN Hooked : Hooked[h] = a THEN <<"jump", a>>
          ELSE IF SectionsAt(a) # {}
            THEN LET s == Header.sections[CHOOSE j \in SectionsAt(a) : TRUE]
                 IN <<"dol", <<mem[DolBuffer][2][1], s.off + (a - s.addr)>> >>
          ELSE Zero
    BY DEF Original
  <2>5. Original(a) = WithPul(d, pulDest, Sec(d)[i], a)
    BY <1>1, <1>2, <2>2, <2>3, <2>4 DEF WithPul, WithHooks, IsHooked, Linked
  <2> QED
    BY <2>1, <2>5, GivenInside
<1>4. CASE ~ \E i \in DOMAIN Sec(d) : a \in Cells(Sec(d)[i])
  <2>1. SectionsAt(a) = {}
    BY <1>1, <1>4
  <2>2. a \notin pulDest .. pulDest + PulSize - 1
    BY <1>4, PulCells
  <2>3. ~ \E h \in DOMAIN Hooked : Hooked[h] = a
    BY <1>4 DEF HooksPlaced
  <2>4. Original(a) = Zero
    BY <2>1, <2>2, <2>3, Zenon DEF Original
  <2> QED
    BY <1>4, <2>4 DEF Given
<1> QED
  BY <1>3, <1>4

-----------------------------------------------------------------------------
(* Each step keeps what is known of the image                              *)

LEMMA DolRead ==
  ASSUME NEW d \in DOMAIN Dols, DolIn(d)
  PROVE  /\ HeaderIs(d)
         /\ \A i \in DOMAIN Sec(d) : \A a \in Cells(Sec(d)[i]) :
              mem[Place(Sec(d)[i], a)] = Linked(d, Sec(d)[i], a)
<1>1. HeaderIs(d)
  <2>1. 0 \in 0 .. Dols[d].length - 1
    <3> DEFINE n == Dols[d].length
    <3>1. n \in Nat /\ n >= 1
      BY SectionFacts
    <3> HIDE DEF n
    <3>2. 0 \in 0 .. n - 1
      BY <3>1
    <3> QED
      BY <3>2 DEF n
  <2>2. mem[DolBuffer + 0] = <<"dol", <<d, 0>> >>
    BY <2>1 DEF DolIn
  <2>3. DolBuffer + 0 = DolBuffer
    BY Places
  <2> QED
    BY <2>2, <2>3 DEF HeaderIs
<1>2. ASSUME NEW i \in DOMAIN Sec(d), NEW a \in Cells(Sec(d)[i])
      PROVE  mem[Place(Sec(d)[i], a)] = Linked(d, Sec(d)[i], a)
  <2> DEFINE k == Sec(d)[i].off + (a - Sec(d)[i].addr)
  <2>1. k \in 0 .. Dols[d].length - 1
    BY PlaceInside
  <2>2. mem[DolBuffer + k] = <<"dol", <<d, k>> >>
    BY <2>1, Zenon DEF DolIn
  <2>3. Place(Sec(d)[i], a) = DolBuffer + k
    <3>1. Sec(d)[i].off \in Nat /\ Sec(d)[i].addr \in Nat /\ a \in Nat
      BY SectionFacts, PlaceInside
    <3> QED
      BY <3>1, Places DEF Place
  <2>4. Linked(d, Sec(d)[i], a) = <<"dol", <<d, k>> >>
    BY Zenon DEF Linked
  <2> HIDE DEF k
  <2> QED
    BY <2>2, <2>3, <2>4, Zenon
<1> QED
  BY <1>1, <1>2

(* Up to "parse" the buffer stays as it was read.                          *)
LEMMA ReadingImage ==
  ASSUME LoadTypes, NEW d \in DOMAIN Dols, DolIn("disc"), done = 0,
         BufferKept, done' = done, stage' \in Reading
  PROVE  Image(d)'
<1>1. DolIn("disc")'
  BY BufferSame, LoadAssumption DEF LoadAssumption
<1> QED
  BY <1>1 DEF Image, Reading, Late, Copying

LEMMA DolCell ==
  ASSUME NEW d, NEW n \in Nat, NEW k \in 0 .. n - 1
  PROVE  [a \in DolBuffer .. DolBuffer + n - 1 |-> <<"dol", <<d, a - DolBuffer>> >>][DolBuffer + k]
           = <<"dol", <<d, k>> >>
<1> DEFINE b == [a \in DolBuffer .. DolBuffer + n - 1 |-> <<"dol", <<d, a - DolBuffer>> >>]
<1>1. PICK x : x = DolBuffer + k
  OBVIOUS
<1>2. x \in DolBuffer .. DolBuffer + n - 1 /\ x - DolBuffer = k
  BY <1>1, Places
<1>3. b[x] = <<"dol", <<d, x - DolBuffer>> >>
  BY <1>2, Zenon
<1> QED
  BY <1>1, <1>2, <1>3, Zenon

LEMMA ReadDolImage ==
  ASSUME LoadTypes, NEW d \in DOMAIN Dols, Image(d), ReadDol
  PROVE  Image(d)'
<1>1. DolIn("disc")'
  <2> DEFINE n == Dols["disc"].length
  <2>1. n \in Nat /\ n <= DolSize /\ DolSize \in Nat
    BY SectionFacts, LoadAssumption DEF LoadAssumption
  <2>2. DolAt = [a \in DolBuffer .. DolBuffer + n - 1 |->
                  <<"dol", <<"disc", a - DolBuffer>> >>]
    BY DEF DolAt
  <2> HIDE DEF n
  <2>3. ASSUME NEW k \in 0 .. n - 1
        PROVE  mem'[DolBuffer + k] = <<"dol", <<"disc", k>> >>
    <3>1. DolBuffer + k \in DOMAIN DolAt /\ DolBuffer + k - DolBuffer = k
      BY <2>1, <2>2, Places
    <3>2. DolBuffer + k \in DOMAIN mem
      BY <2>1, Places DEF LoadTypes, DolEnd
    <3>3. mem'[DolBuffer + k] = DolAt[DolBuffer + k]
      BY <3>1, <3>2, PutLeaves DEF ReadDol
    <3>4. DolAt[DolBuffer + k] = <<"dol", <<"disc", k>> >>
      BY <2>1, <2>2, DolCell, Zenon
    <3> QED
      BY <3>3, <3>4, Zenon
  <2> QED
    BY <2>3 DEF DolIn, n
<1>2. stage = "dol" /\ stage' = "fst" /\ done' = done
  BY DEF ReadDol
<1> QED
  BY <1>1, <1>2 DEF Image, Reading, Late, Copying, Loading, Early

(* All of main.dol replaces the DOL of the disc.                           *)
LEMMA ReplaceMainDolImage ==
  ASSUME LoadTypes, Image(WholeDol), ReplaceMainDol, lost' = {}
  PROVE  Image(WholeDol)'
<1>1. /\ stage = "parse" /\ stage' = "tables" /\ done' = done /\ dol' = dol
      /\ DolIn("disc") /\ done = 0
  BY DEF ReplaceMainDol, tableVars, Image, Reading, Loading, Early
<1>2. CASE dol = Nothing
  <2>1. mem' = mem /\ WholeDol = "disc" /\ WholeDol' = "disc"
    BY <1>1, <1>2 DEF ReplaceMainDol, WholeDol
  <2>2. DolIn("disc")'
    BY <1>1, <2>1 DEF DolIn
  <2> QED
    BY <1>1, <2>1, <2>2 DEF Image, Reading, Late, Copying
<1>3. CASE dol # Nothing
  <2>1. WholeDol' = "pack"
    BY <1>1, <1>3 DEF WholeDol
  <2> DEFINE n == Dols["pack"].length
  <2>2. n \in Nat /\ n <= DolSize /\ DolSize \in Nat
    BY SectionFacts, LoadAssumption DEF LoadAssumption
  <2>3. Put([a \in DolBuffer .. DolBuffer + n - 1 |-> <<"dol", <<"pack", a - DolBuffer>> >>])
    <3>1. PICK m \in MainDolReads :
            /\ Put([a \in DolBuffer .. DolBuffer + m - 1 |->
                     <<"dol", <<"pack", a - DolBuffer>> >>])
            /\ lost' = IF m < n THEN lost \cup {"main.dol"} ELSE lost
      BY <1>3 DEF ReplaceMainDol
    <3>2. m \in 0 .. n
      BY LoadAssumption DEF LoadAssumption
    <3>3. ~ m < n
      BY <3>1
    <3>4. m = n
      BY <2>2, <3>2, <3>3
    <3> QED
      BY <3>1, <3>4
  <2> HIDE DEF n
  <2> DEFINE b == [a \in DolBuffer .. DolBuffer + n - 1 |-> <<"dol", <<"pack", a - DolBuffer>> >>]
  <2>4. ASSUME NEW k \in 0 .. n - 1
        PROVE  mem'[DolBuffer + k] = <<"dol", <<"pack", k>> >>
    <3>1. DolBuffer + k \in DOMAIN b /\ DolBuffer + k - DolBuffer = k
      BY <2>2, Places
    <3>2. DolBuffer + k \in DOMAIN mem
      BY <2>2, Places DEF LoadTypes, DolEnd
    <3>3. mem'[DolBuffer + k] = b[DolBuffer + k]
      BY <2>3, <3>1, <3>2, PutLeaves
    <3>4. b[DolBuffer + k] = <<"dol", <<"pack", k>> >>
      BY <2>2, DolCell, Zenon
    <3> QED
      BY <3>3, <3>4, Zenon
  <2>5. DolIn("pack")'
    BY <2>4 DEF DolIn, n
  <2> QED
    BY <1>1, <2>1, <2>5 DEF Image, Reading, Late, Copying
<1> QED
  BY <1>2, <1>3

LEMMA PlaceTablesImage ==
  ASSUME LoadTypes, NEW d \in DOMAIN Dols, Image(d), BufferKept, PlaceTables
  PROVE  Image(d)'
<1>1. stage = "tables" /\ stage' = "hooks" /\ done' = done
  BY DEF PlaceTables
<1>2. DolIn(d)'
  BY <1>1, BufferSame DEF Image
<1> QED
  BY <1>1, <1>2 DEF Image, Reading, Late, Copying, Loading, Early

LEMMA MaxMember ==
  ASSUME NEW i \in Int
  PROVE  Max({i}) = i
BY DEF Max

(* Each trampoline has two cells of its own.                               *)
LEMMA TrampolinesApart ==
  ASSUME NEW h \in DOMAIN Hooked, NEW a \in {TrampolineAt(h), TrampolineAt(h) + 1}
  PROVE  /\ a \in TrampolineArea /\ a \in Int
         /\ {i \in DOMAIN Hooked : a \in {TrampolineAt(i), TrampolineAt(i) + 1}} = {h}
         /\ TrampolineAt(h) + 1 # TrampolineAt(h) /\ h \in Int
<1>1. TrampolineStart \in Nat
  BY ImageAssumption DEF ImageAssumption
<1>2. DOMAIN Hooked = 1 .. Len(Hooked) /\ Len(Hooked) \in Nat
  BY LoadAssumption DEF LoadAssumption
<1>3. \A i \in DOMAIN Hooked : TrampolineAt(i) = TrampolineStart + 2 * (i - 1) /\ i \in Int
  BY <1>2 DEF TrampolineAt
<1>4. a \in TrampolineArea /\ a \in Int
  BY <1>1, <1>2, <1>3 DEF TrampolineArea
<1>5. ASSUME NEW i \in DOMAIN Hooked, a \in {TrampolineAt(i), TrampolineAt(i) + 1}
      PROVE  i = h
  BY <1>1, <1>3, <1>5
<1> QED
  BY <1>1, <1>3, <1>4, <1>5

LEMMA HookedPlace ==
  ASSUME NEW d \in DOMAIN Dols, HeaderIs(d), NEW h \in DOMAIN Hooked, SectionsAt(Hooked[h]) # {}
  PROVE  \E i \in DOMAIN Sec(d) :
           /\ Hooked[h] \in Cells(Sec(d)[i])
           /\ Buffered(Hooked[h]) = Place(Sec(d)[i], Hooked[h])
<1>1. PICK i \in DOMAIN Sec(d) : Hooked[h] \in Cells(Sec(d)[i])
  BY HeaderSays
<1> QED
  BY <1>1, HeaderSays

LEMMA PatchDvdFunctionsImage ==
  ASSUME LoadTypes, Layout, Roomy, NEW d \in DOMAIN Dols, Image(d), PatchDvdFunctions
  PROVE  Image(d)'
<1> DEFINE taken(a) == {i \in DOMAIN Hooked : a \in {TrampolineAt(i), TrampolineAt(i) + 1}}
           t == [a \in {b \in TrampolineArea : taken(b) # {}} |->
                  LET i == Max(taken(a)) IN
                  IF a = TrampolineAt(i) THEN mem[Buffered(Hooked[i])]
                                         ELSE <<"back", Hooked[i] + 1>>]
           J == {Buffered(Hooked[i]) : i \in DOMAIN Hooked}
           j == [a \in J |->
                  <<"jump", Hooked[CHOOSE i \in DOMAIN Hooked : a = Buffered(Hooked[i])]>>]
           b == Both(t, j)
<1>1. Put(b) /\ Keep(t)
  BY DEF PatchDvdFunctions
<1>2. /\ stage = "hooks" /\ stage' = "pulsar" /\ done' = done /\ done = 0
      /\ \A i \in DOMAIN Hooked : SectionsAt(Hooked[i]) # {}
      /\ DolIn(d)
  BY DEF PatchDvdFunctions, Image, Loading
<1>3. HeaderIs(d)
  BY <1>2, DolRead
<1>4. \A a \in DOMAIN t : a \in RteStart .. RteEnd - 1 /\ a \in TrampolineArea
  BY ScratchPlace
<1>5. ASSUME NEW h \in DOMAIN Hooked
      PROVE  /\ {TrampolineAt(h), TrampolineAt(h) + 1} \subseteq DOMAIN t
             /\ t[TrampolineAt(h)] = mem[Buffered(Hooked[h])]
             /\ t[TrampolineAt(h) + 1] = <<"back", Hooked[h] + 1>>
  <2>1. ASSUME NEW a \in {TrampolineAt(h), TrampolineAt(h) + 1}
        PROVE  /\ a \in DOMAIN t
               /\ t[a] = IF a = TrampolineAt(h) THEN mem[Buffered(Hooked[h])]
                                                ELSE <<"back", Hooked[h] + 1>>
    <3>1. taken(a) = {h} /\ a \in TrampolineArea /\ h \in Int
      BY TrampolinesApart, Zenon
    <3>2. Max(taken(a)) = h
      BY <3>1, MaxMember, Zenon
    <3>3. a \in DOMAIN t
      BY <3>1
    <3>4. t[a] = LET i == Max(taken(a)) IN
                 IF a = TrampolineAt(i) THEN mem[Buffered(Hooked[i])]
                                        ELSE <<"back", Hooked[i] + 1>>
      BY <3>3, Zenon
    <3> HIDE DEF t, taken
    <3> QED
      BY <3>2, <3>3, <3>4
  <2>2. TrampolineAt(h) + 1 # TrampolineAt(h)
    BY TrampolinesApart
  <2> HIDE DEF t, taken
  <2> QED
    BY <2>1, <2>2
<1>6. DOMAIN j = J
  OBVIOUS
<1>7. \A a \in J : a \in DolBuffer + 1 .. DolEnd - 1
  BY <1>2, BufferedInside DEF Layout
<1>8. \A a \in J : j[a] = <<"jump", Hooked[CHOOSE i \in DOMAIN Hooked : a = Buffered(Hooked[i])]>>
  OBVIOUS
<1> HIDE DEF t, j, taken
<1>9. DOMAIN b = DOMAIN t \cup J /\ \A a \in J : a \notin DOMAIN t => b[a] = j[a]
  BY <1>6 DEF Both
<1> HIDE DEF b
<1>10. \A a \in DolBuffer .. DolEnd - 1 :
         /\ a \in DOMAIN mem /\ a \notin DOMAIN t
         /\ mem'[a] = IF a \in J THEN j[a] ELSE mem[a]
  <2>1. ASSUME NEW a \in DolBuffer .. DolEnd - 1
        PROVE  /\ a \in DOMAIN mem /\ a \notin DOMAIN t
               /\ mem'[a] = IF a \in J THEN j[a] ELSE mem[a]
    <3>1. a \in DOMAIN mem /\ a \notin DOMAIN t
      BY <1>4, Places DEF LoadTypes
    <3> HIDE DEF J
    <3> QED
      BY <1>1, <1>9, <3>1, PutLeaves
  <2> QED
    BY <2>1
<1>11. HeaderIs(d)'
  <2>1. DolBuffer \notin J /\ DolBuffer \in DolBuffer .. DolEnd - 1
    BY <1>7, Places
  <2> HIDE DEF J
  <2> QED
    BY <1>3, <1>10, <2>1 DEF HeaderIs
<1>12. HooksPlaced(d)'
  <2> SUFFICES ASSUME NEW h \in DOMAIN Hooked
      PROVE  /\ {TrampolineAt(h), TrampolineAt(h) + 1} \subseteq DOMAIN kept'
             /\ kept'[TrampolineAt(h) + 1] = <<"back", Hooked[h] + 1>>
             /\ \E i \in DOMAIN Sec(d) :
                  /\ Hooked[h] \in Cells(Sec(d)[i])
                  /\ kept'[TrampolineAt(h)] = Linked(d, Sec(d)[i], Hooked[h])
    BY DEF HooksPlaced
  <2>1. PICK i \in DOMAIN Sec(d) : /\ Hooked[h] \in Cells(Sec(d)[i])
                                   /\ Buffered(Hooked[h]) = Place(Sec(d)[i], Hooked[h])
    BY <1>2, <1>3, HookedPlace
  <2>2. mem[Buffered(Hooked[h])] = Linked(d, Sec(d)[i], Hooked[h])
    BY <1>2, <2>1, DolRead
  <2>3. DOMAIN kept \cap TrampolineArea = {}
    BY <1>2 DEF Layout, ScratchFree
  <2>4. ASSUME NEW a \in DOMAIN t PROVE a \in DOMAIN kept' /\ kept'[a] = t[a]
    BY <1>1, <1>4, <2>3, KeepAdds
  <2> HIDE DEF J
  <2> QED
    BY <1>5, <2>1, <2>2, <2>4
<1>13. BufferHooked(d)'
  <2> SUFFICES ASSUME NEW i \in DOMAIN Sec(d), NEW a \in Cells(Sec(d)[i])
      PROVE  mem'[Place(Sec(d)[i], a)] = WithHooks(d, Sec(d)[i], a)
    BY DEF BufferHooked
  <2> DEFINE p == Place(Sec(d)[i], a)
  <2>1. p \in DolBuffer .. DolEnd - 1
    BY PlaceInside, Places
  <2>2. mem'[p] = IF p \in J THEN j[p] ELSE mem[p]
    BY <1>10, <2>1
  <2>3. ASSUME NEW h \in DOMAIN Hooked, p = Buffered(Hooked[h])
        PROVE  Hooked[h] = a
    <3>1. PICK k \in DOMAIN Sec(d) : /\ Hooked[h] \in Cells(Sec(d)[k])
                                     /\ Buffered(Hooked[h]) = Place(Sec(d)[k], Hooked[h])
      BY <1>2, <1>3, HookedPlace
    <3> QED
      BY <2>3, <3>1, OnePlace
  <2>4. CASE IsHooked(a)
    <3>1. p \in J
      <4>1. PICK h \in DOMAIN Hooked : Hooked[h] = a
        BY <2>4 DEF IsHooked
      <4>2. p = Buffered(Hooked[h])
        BY <1>3, <4>1, HeaderSays
      <4> QED
        BY <4>2
    <3> DEFINE g == CHOOSE h \in DOMAIN Hooked : p = Buffered(Hooked[h])
    <3>2. g \in DOMAIN Hooked /\ p = Buffered(Hooked[g])
      BY <3>1
    <3>3. j[p] = <<"jump", Hooked[g]>>
      BY <1>8, <3>1, Zenon
    <3> HIDE DEF g, p, J
    <3>4. Hooked[g] = a
      BY <2>3, <3>2
    <3>5. mem'[p] = <<"jump", a>>
      BY <2>2, <3>1, <3>3, <3>4
    <3> QED
      BY <2>4, <3>5 DEF WithHooks, p
  <2>5. CASE ~IsHooked(a)
    <3>1. p \notin J
      BY <2>3, <2>5 DEF IsHooked
    <3>2. mem[p] = Linked(d, Sec(d)[i], a)
      BY <1>2, DolRead
    <3> HIDE DEF p, J
    <3>3. mem'[p] = Linked(d, Sec(d)[i], a)
      BY <2>2, <3>1, <3>2
    <3> QED
      BY <2>5, <3>3 DEF WithHooks, p
  <2> QED
    BY <2>4, <2>5
<1> QED
  BY <1>2, <1>11, <1>12, <1>13 DEF Image, Reading, Late, Copying

(* All of Loader.pul is read into its section.                             *)
LEMMA LoadPulsarImage ==
  ASSUME LoadTypes, Layout, Roomy, NEW d \in DOMAIN Dols, Image(d),
         NEW n \in 0 .. PulSize, LoadPulsar(n), lost' = {}
  PROVE  Image(d)'
<1> DEFINE at == Buffered(pulDest)
           b == [a \in at .. at + PulSize - 1 |-> <<"pul", a - at>>]
<1>1. /\ stage = "pulsar" /\ stage' = "handover" /\ UNCHANGED <<done, kept, pulDest>>
      /\ SectionsAt(pulDest) # {} /\ pulDest \in PulDests
      /\ HeaderIs(d) /\ HooksPlaced(d) /\ BufferHooked(d) /\ done = 0
  BY DEF LoadPulsar, Image, Late, Loading, LoadTypes
<1>2. PulSize \in Nat
  BY LoadAssumption DEF LoadAssumption
<1>3. Put(b)
  <2>1. ~ n < PulSize
    BY DEF LoadPulsar
  <2>2. n = PulSize
    BY <1>2, <2>1
  <2> QED
    BY <2>2 DEF LoadPulsar
<1>4. PulInside(d)
  BY <1>1, HeaderSays DEF PulInside
<1>5. PICK i \in DOMAIN Sec(d) :
        /\ pulDest \in Cells(Sec(d)[i])
        /\ pulDest .. pulDest + PulSize - 1 \subseteq Cells(Sec(d)[i])
  BY <1>4, PulCells
<1> DEFINE s == Sec(d)[i]
<1>6. at = Place(s, pulDest) /\ at = DolBuffer + s.off + (pulDest - s.addr)
  BY <1>1, <1>5, HeaderSays DEF Place
<1>7. /\ s.off \in Nat /\ s.addr \in Nat /\ pulDest \in Nat
      /\ at \in DolBuffer + 1 .. DolEnd - 1
  BY <1>5, <1>6, SectionFacts, PlaceInside
<1>8. at + PulSize <= DolEnd
  BY <1>1, BufferedInside DEF Layout
<1>9. \A x \in DOMAIN b : b[x] = <<"pul", x - at>>
  OBVIOUS
<1>10. DOMAIN b = at .. at + PulSize - 1
  OBVIOUS
<1> HIDE DEF b, at, s
<1>11. HeaderIs(d)'
  <2>1. DolBuffer \notin DOMAIN b /\ DolBuffer \in DOMAIN mem
    BY <1>2, <1>7, <1>10, Places DEF LoadTypes
  <2> QED
    BY <1>1, <1>3, <2>1, PutLeaves DEF HeaderIs
<1>12. BufferWhole(d)'
  <2> SUFFICES ASSUME NEW k \in DOMAIN Sec(d), NEW a \in Cells(Sec(d)[k])
      PROVE  mem'[Place(Sec(d)[k], a)] = WithPul(d, pulDest, Sec(d)[k], a)
    BY <1>1 DEF BufferWhole
  <2> DEFINE p == Place(Sec(d)[k], a)
  <2>1. p \in DOMAIN mem /\ p \in Int
    BY PlaceInside, Places DEF LoadTypes
  <2>2. CASE a \in pulDest .. pulDest + PulSize - 1
    <3>1. k = i
      BY <1>5, <2>2, OneSection
    <3>2. p = DolBuffer + s.off + (a - s.addr)
      BY <3>1 DEF Place, s
    <3> HIDE DEF p
    <3>3. p \in at .. at + PulSize - 1 /\ p - at = a - pulDest
      BY <1>2, <1>6, <1>7, <2>2, <3>2, Places
    <3>4. mem'[p] = <<"pul", p - at>>
      BY <1>3, <1>9, <1>10, <2>1, <3>3, PutLeaves
    <3>5. mem'[p] = <<"pul", a - pulDest>>
      BY <3>3, <3>4, Zenon
    <3> QED
      BY <2>2, <3>5 DEF WithPul, p
  <2>3. CASE a \notin pulDest .. pulDest + PulSize - 1
    <3>1. p \notin DOMAIN b
      <4> SUFFICES ASSUME p \in at .. at + PulSize - 1 PROVE FALSE
        BY <1>10
      <4> DEFINE c == pulDest + (p - at)
      <4>1. c \in pulDest .. pulDest + PulSize - 1 /\ c - s.addr = (pulDest - s.addr) + (p - at)
        BY <1>2, <1>7, <2>1
      <4>2. DolBuffer + s.off + (c - s.addr) = p
        BY <1>6, <1>7, <2>1, <4>1, Places
      <4>3. Place(s, c) = p
        BY <4>2 DEF Place
      <4> HIDE DEF c
      <4>4. c \in Cells(Sec(d)[i])
        BY <1>5, <4>1
      <4>5. c = a
        BY <4>3, <4>4, OnePlace DEF s
      <4> QED
        BY <2>3, <4>1, <4>5
    <3>2. mem[p] = WithHooks(d, Sec(d)[k], a)
      BY <1>1 DEF BufferHooked
    <3> HIDE DEF p
    <3>3. mem'[p] = WithHooks(d, Sec(d)[k], a)
      BY <1>3, <2>1, <3>1, <3>2, PutLeaves
    <3> QED
      BY <2>3, <3>3 DEF WithPul, p
  <2> QED
    BY <2>2, <2>3
<1>13. HooksPlaced(d)' /\ PulInside(d)'
  BY <1>1, <1>4 DEF HooksPlaced, PulInside
<1> QED
  BY <1>1, <1>11, <1>12, <1>13 DEF Image, Reading, Late, Copying, Loading, Early

LEMMA HandOverImage ==
  ASSUME LoadTypes, NEW d \in DOMAIN Dols, Image(d), BufferKept, HandOver
  PROVE  Image(d)'
<1>1. /\ stage = "handover" /\ stage' = "copier" /\ UNCHANGED <<done, pulDest>>
      /\ Keep([a \in Statics |-> <<"static", a>>])
  BY DEF HandOver, Give
<1>2. done = 0 /\ HeaderIs(d) /\ HooksPlaced(d) /\ PulInside(d) /\ BufferWhole(d)
  BY <1>1 DEF Image, Loading, Late
<1>3. HooksPlaced(d)'
  BY <1>1, <1>2, KeepAdds, HooksSame
<1>4. HeaderIs(d)' /\ BufferWhole(d)' /\ PulInside(d)'
  BY <1>1, <1>2, BufferSame DEF PulInside
<1> QED
  BY <1>1, <1>2, <1>3, <1>4 DEF Image, Late, Copying, Reading

(* What is known of the buffer stays known as long as it is as it was.     *)
LEMMA LateSame ==
  ASSUME LoadTypes, NEW d \in DOMAIN Dols, Image(d), BufferKept, UNCHANGED <<kept, pulDest>>,
         stage \in Late \ {"pulsar"}
  PROVE  /\ HeaderIs(d) /\ HooksPlaced(d) /\ PulInside(d)
         /\ HeaderIs(d)' /\ HooksPlaced(d)' /\ PulInside(d)'
         /\ stage \in {"copier", "bss", "sections"} => BufferWhole(d) /\ BufferWhole(d)'
<1>1. /\ HeaderIs(d) /\ HooksPlaced(d) /\ PulInside(d)
      /\ stage \in {"copier", "bss", "sections"} => BufferWhole(d)
  BY DEF Image
<1>2. HooksPlaced(d)' /\ PulInside(d)'
  BY <1>1 DEF HooksPlaced, PulInside
<1> QED
  BY <1>1, <1>2, BufferSame

LEMMA InstallCopierImage ==
  ASSUME LoadTypes, NEW d \in DOMAIN Dols, Image(d), BufferKept, InstallCopier
  PROVE  Image(d)'
<1>1. stage = "copier" /\ stage' = "bss" /\ UNCHANGED <<done, pulDest, kept>>
  BY DEF InstallCopier
<1>2. done = 0
  BY <1>1 DEF Image
<1> QED
  BY <1>1, <1>2, LateSame DEF Image, Late, Copying, Reading

LEMMA GameCellsBelow ==
  ASSUME LoadTypes, NEW d \in DOMAIN Dols, NEW a \in GameCells(d)
  PROVE  a \in DOMAIN mem
<1>1. CASE a \in Span(Dols[d].bss)
  <2> DEFINE bss == Dols[d].bss
  <2>1. bss \in Regions /\ bss.at + bss.size <= PatchCopy
    BY LoadAssumption DEF LoadAssumption
  <2>2. a \in bss.at .. bss.at + bss.size - 1
    BY <1>1 DEF Span
  <2> HIDE DEF bss
  <2>3. bss.at \in Nat /\ bss.size \in Nat
    BY <2>1 DEF Regions
  <2>4. a \in Nat /\ a < PatchCopy
    BY <2>1, <2>2, <2>3, Places
  <2> QED
    BY <2>4, Places DEF LoadTypes
<1>2. CASE a \notin Span(Dols[d].bss)
  <2>1. PICK i \in DOMAIN Sec(d) : a \in Cells(Sec(d)[i])
    BY <1>2 DEF GameCells
  <2>2. a \in Nat /\ a < PatchCopy
    BY <2>1, PlaceInside
  <2> QED
    BY <2>2, Places DEF LoadTypes
<1> QED
  BY <1>1, <1>2

(* Before the first section, only bss is as the game is to find it.        *)
LEMMA ZeroBssImage ==
  ASSUME LoadTypes, NEW d \in DOMAIN Dols, Image(d), BufferKept, ZeroBss
  PROVE  Image(d)'
<1>1. stage = "bss" /\ stage' = "sections" /\ UNCHANGED <<done, pulDest, kept>>
  BY DEF ZeroBss
<1>2. done = 0
  BY <1>1 DEF Image
<1>3. HeaderIs(d) /\ HeaderIs(d)' /\ HooksPlaced(d)' /\ PulInside(d)' /\ BufferWhole(d)'
  BY <1>1, LateSame DEF Late, Copying
<1>4. Put([a \in Span(Dols[d].bss) |-> Zero])
  BY <1>3, HeaderSays DEF ZeroBss
<1>5. Copied(d)'
  <2>1. ASSUME NEW a \in GameCells(d), \A i \in DOMAIN Sec(d) : a \in Cells(Sec(d)[i]) => i <= 0
        PROVE  mem'[a] = Given(d, pulDest, a)
    <3>1. ~ \E i \in DOMAIN Sec(d) : a \in Cells(Sec(d)[i])
      BY <2>1, SectionFacts
    <3>2. a \in Span(Dols[d].bss)
      BY <3>1 DEF GameCells
    <3>3. a \in DOMAIN mem
      BY GameCellsBelow
    <3>4. mem'[a] = Zero
      BY <1>4, <3>2, <3>3, PutLeaves
    <3> QED
      BY <3>1, <3>4 DEF Given
  <2>2. 0 <= Len(Sec(d))
    BY SectionFacts
  <2> QED
    BY <1>1, <1>2, <2>1, <2>2 DEF Copied
<1> QED
  BY <1>1, <1>2, <1>3, <1>5 DEF Image, Late, Copying, Reading, Loading, Early

LEMMA CopySectionImage ==
  ASSUME LoadTypes, NEW d \in DOMAIN Dols, Image(d), BufferKept, CopySection
  PROVE  Image(d)'
<1>1. stage = "sections" /\ stage' = stage /\ done' = done + 1 /\ UNCHANGED <<pulDest, kept>>
  BY DEF CopySection
<1>2. /\ HeaderIs(d) /\ BufferWhole(d)
      /\ HeaderIs(d)' /\ HooksPlaced(d)' /\ PulInside(d)' /\ BufferWhole(d)'
  BY <1>1, LateSame DEF Late, Copying
<1>3. Copied(d)
  BY <1>1 DEF Image
<1>4. Len(Sec(d)) \in Nat /\ DOMAIN Sec(d) = 1 .. Len(Sec(d)) /\ done \in Nat
  BY SectionFacts DEF LoadTypes
<1> DEFINE k == done + 1
           s == Sec(d)[k]
<1>5. k \in DOMAIN Sec(d)
  BY <1>2, <1>4, HeaderSays DEF CopySection
<1>6. Put([a \in Cells(s) |-> mem[Place(s, a)]])
  BY <1>2, HeaderSays DEF CopySection, Cells, Place
<1>7. Copied(d)'
  <2>1. ASSUME NEW a \in GameCells(d),
               \A i \in DOMAIN Sec(d) : a \in Cells(Sec(d)[i]) => i <= k
        PROVE  mem'[a] = Given(d, pulDest, a)
    <3>1. a \in DOMAIN mem
      BY GameCellsBelow
    <3>2. CASE a \in Cells(s)
      <4>1. mem'[a] = mem[Place(s, a)]
        BY <1>6, <3>1, <3>2, PutLeaves
      <4>2. mem[Place(s, a)] = WithPul(d, pulDest, s, a)
        BY <1>2, <1>5, <3>2 DEF BufferWhole
      <4> QED
        BY <1>5, <3>2, <4>1, <4>2, GivenInside
    <3>3. CASE a \notin Cells(s)
      <4>1. mem'[a] = mem[a]
        BY <1>6, <3>1, <3>3, PutLeaves
      <4>2. \A i \in DOMAIN Sec(d) : a \in Cells(Sec(d)[i]) => i <= done
        <5>1. \A i \in DOMAIN Sec(d) : i = k \/ (i <= k => i <= done)
          BY <1>4
        <5> QED
          BY <2>1, <3>3, <5>1
      <4> QED
        BY <1>3, <4>1, <4>2 DEF Copied
    <3> QED
      BY <3>2, <3>3
  <2>2. k <= Len(Sec(d))
    BY <1>4, <1>5
  <2> QED
    BY <1>1, <2>1, <2>2 DEF Copied
<1> QED
  BY <1>1, <1>2, <1>7 DEF Image, Late, Copying, Reading, Loading, Early

LEMMA SectionsCopiedImage ==
  ASSUME LoadTypes, NEW d \in DOMAIN Dols, Image(d), BufferKept, SectionsCopied
  PROVE  Image(d)'
<1>1. /\ stage = "sections" /\ stage' = "patches" /\ done' = 0
      /\ UNCHANGED <<pulDest, kept, mem, memPatches>>
  BY DEF SectionsCopied
<1>2. /\ HeaderIs(d) /\ HeaderIs(d)' /\ HooksPlaced(d)' /\ PulInside(d)'
  BY <1>1, LateSame DEF Late, Copying
<1>3. Copied(d)
  BY <1>1 DEF Image
<1>4. done = Len(Sec(d)) /\ DOMAIN Sec(d) = 1 .. Len(Sec(d)) /\ Len(Sec(d)) \in Nat
  BY <1>2, HeaderSays, SectionFacts DEF SectionsCopied
<1>5. Len(memPatches) \in Nat
  BY DEF LoadTypes
<1>6. ASSUME NEW a \in GameCells(d)
      PROVE  mem[a] = AfterPatches(a, Given(d, pulDest, a), memPatches)[0]
  <2>1. mem[a] = Given(d, pulDest, a)
    BY <1>3, <1>4 DEF Copied
  <2> QED
    BY <1>5, <2>1, AfterPatchesStep
<1>7. PatchedTo(d, 0)'
  BY <1>1, <1>6 DEF PatchedTo
<1> QED
  BY <1>1, <1>2, <1>5, <1>7 DEF Image, Late, Copying, Reading, Loading, Early

(* The memory patch that ApplyPatch reads is the next one.                 *)
LEMMA NextPatch ==
  ASSUME LoadTypes, Layout, done < Len(memPatches)
  PROVE  /\ done + 1 \in DOMAIN memPatches
         /\ mem[patchesAt + PatchSize * done][2] = memPatches[done + 1]
<1> DEFINE at == patchesAt + PatchSize * done
<1>1. done + 1 \in DOMAIN memPatches
  BY DEF LoadTypes
<1>2. at \in DOMAIN kept /\ kept[at] = <<"patch", memPatches[done + 1]>>
  <2> DEFINE i == done + 1
  <2>1. /\ patchesAt + PatchSize * (i - 1) \in DOMAIN kept
        /\ kept[patchesAt + PatchSize * (i - 1)] = <<"patch", memPatches[i]>>
    BY <1>1, Zenon DEF Layout, PatchesKept
  <2>2. i - 1 = done
    BY DEF LoadTypes
  <2> HIDE DEF i
  <2>3. PatchSize * (i - 1) = PatchSize * done
    BY <2>2, Zenon
  <2> QED
    BY <2>1, <2>3, Zenon DEF i
<1> QED
  BY <1>1, <1>2 DEF Layout, KeptThere

LEMMA ApplyPatchImage ==
  ASSUME LoadTypes, Layout, NEW d \in DOMAIN Dols, Image(d), BufferKept, ApplyPatch
  PROVE  Image(d)'
<1>1. /\ stage = "patches" /\ stage' = stage /\ done' = done + 1 /\ done < Len(memPatches)
      /\ UNCHANGED <<pulDest, kept, memPatches>>
  BY DEF ApplyPatch
<1>2. HeaderIs(d)' /\ HooksPlaced(d)' /\ PulInside(d)'
  BY <1>1, LateSame DEF Late, Copying
<1>3. PatchedTo(d, done)
  BY <1>1 DEF Image
<1> DEFINE k == done + 1
           p == memPatches[k]
<1>4. /\ k \in 1 .. Len(memPatches) /\ k - 1 = done /\ Len(memPatches) \in Nat
      /\ mem[patchesAt + PatchSize * done][2] = p
  BY <1>1, NextPatch DEF LoadTypes
<1>5. Put([a \in {b \in {p.addr} : p.original = Nothing \/ p.original = mem[p.addr]} |-> p.value])
  BY <1>4 DEF ApplyPatch, Applies
<1> HIDE DEF p
<1>6. ASSUME NEW a \in GameCells(d)
      PROVE  mem'[a] = AfterPatches(a, Given(d, pulDest, a), memPatches)[k]
  <2> DEFINE f == AfterPatches(a, Given(d, pulDest, a), memPatches)
  <2>1. mem[a] = f[k - 1]
    BY <1>3, <1>4 DEF PatchedTo
  <2>2. f[k] = IF memPatches[k].addr = a /\ memPatches[k].original \in {Nothing, f[k - 1]}
                 THEN memPatches[k].value ELSE f[k - 1]
    BY <1>4, AfterPatchesStep
  <2>3. a \in DOMAIN mem
    BY GameCellsBelow
  <2> HIDE DEF f
  <2>4. mem'[a] = IF p.addr = a /\ p.original \in {Nothing, mem[a]} THEN p.value ELSE mem[a]
    BY <1>5, <2>3, PutLeaves
  <2> QED
    BY <2>1, <2>2, <2>4 DEF p, f
<1>7. PatchedTo(d, done)'
  BY <1>1, <1>6 DEF PatchedTo
<1>8. done' <= Len(memPatches)
  BY <1>1, <1>4
<1> QED
  BY <1>1, <1>2, <1>7, <1>8 DEF Image, Late, Copying, Reading, Loading, Early

LEMMA EnterGameImage ==
  ASSUME LoadTypes, NEW d \in DOMAIN Dols, Image(d), BufferKept, EnterGame
  PROVE  Image(d)'
<1>1. /\ stage = "patches" /\ stage' = "game" /\ done = Len(memPatches)
      /\ UNCHANGED <<done, pulDest, kept, mem, memPatches>>
  BY DEF EnterGame
<1>2. HeaderIs(d)' /\ HooksPlaced(d)' /\ PulInside(d)'
  BY <1>1, LateSame DEF Late, Copying
<1>3. PatchedTo(d, Len(memPatches))'
  BY <1>1 DEF Image, PatchedTo
<1> QED
  BY <1>1, <1>2, <1>3 DEF Image, Late, Copying, Reading, Loading, Early

-----------------------------------------------------------------------------
(* All steps                                                               *)

LEMMA WholeDolIs ==
  WholeDol \in DOMAIN Dols
BY LoadAssumption DEF LoadAssumption, WholeDol

(* A read that failed without an error stays known.                        *)
LEMMA LostGrows ==
  ASSUME [LoadNext]_gVars
  PROVE  lost \subseteq lost'
<1>1. CASE ReadDol \/ (\E size \in FstSizes : ReadFst(size)) \/ ReadBi2
             \/ (\E r \in RteFiles : LoadRuntimeExt(r)) \/ ReservePatches
  BY <1>1 DEF ReadDol, ReadFst, ReadBi2, LoadRuntimeExt, ReservePatches
<1>2. CASE ParseFiles \/ (\E p \in MemPatches : ParseMemory(p)) \/ ReplaceMainDol
             \/ (\E a \in PulDests : ParsePulsar(a)) \/ RefuseTables
  BY <1>2 DEF ParseFiles, ParseMemory, ReplaceMainDol, ParsePulsar, RefuseTables
<1>3. CASE PlaceTables \/ PatchDvdFunctions \/ (\E n \in 0 .. PulSize : LoadPulsar(n))
             \/ HandOver \/ InstallCopier
  BY <1>3 DEF PlaceTables, PatchDvdFunctions, LoadPulsar, HandOver, InstallCopier
<1>4. CASE ZeroBss \/ CopySection \/ SectionsCopied \/ ApplyPatch \/ EnterGame
             \/ LoadFails \/ UNCHANGED gVars
  BY <1>4 DEF ZeroBss, CopySection, SectionsCopied, ApplyPatch, EnterGame, LoadFails,
     gVars, loadVars
<1> QED
  BY <1>1, <1>2, <1>3, <1>4, Zenon DEF LoadNext, Ended

(* Only parsing changes which DOL is meant.                                *)
LEMMA SameDol ==
  ASSUME [LoadNext]_gVars, ~ParseFiles
  PROVE  WholeDol' = WholeDol
<1>1. CASE ReadDol \/ (\E size \in FstSizes : ReadFst(size)) \/ ReadBi2
             \/ (\E r \in RteFiles : LoadRuntimeExt(r)) \/ ReservePatches
  BY <1>1 DEF ReadDol, ReadFst, ReadBi2, LoadRuntimeExt, ReservePatches, tableVars, WholeDol
<1>2. CASE (\E p \in MemPatches : ParseMemory(p)) \/ ReplaceMainDol
             \/ (\E a \in PulDests : ParsePulsar(a)) \/ RefuseTables
  BY <1>2 DEF ParseMemory, ReplaceMainDol, ParsePulsar, RefuseTables, TooManyFiles,
     tableVars, WholeDol
<1>3. CASE PlaceTables \/ PatchDvdFunctions \/ (\E n \in 0 .. PulSize : LoadPulsar(n))
             \/ HandOver \/ InstallCopier
  BY <1>3 DEF PlaceTables, Finish, PatchDvdFunctions, LoadPulsar, HandOver, InstallCopier,
     tableVars, WholeDol
<1>4. CASE ZeroBss \/ CopySection \/ SectionsCopied \/ ApplyPatch \/ EnterGame
             \/ LoadFails \/ UNCHANGED gVars
  BY <1>4 DEF ZeroBss, CopySection, SectionsCopied, ApplyPatch, EnterGame, LoadFails,
     gVars, tableVars, WholeDol
<1> QED
  BY <1>1, <1>2, <1>3, <1>4, Zenon DEF LoadNext, Ended

LEMMA SameImage ==
  ASSUME NEW d \in DOMAIN Dols, Image(d),
         UNCHANGED <<mem, done, kept, pulDest, memPatches>>, stage' \in {stage, "exit"}
  PROVE  Image(d)'
<1>1. CASE stage' = stage
  BY <1>1 DEF Image, DolIn, HeaderIs, HooksPlaced, BufferHooked, BufferWhole, PulInside,
     Copied, PatchedTo
<1>2. CASE stage' = "exit"
  BY <1>2 DEF Image, Late, Loading, Early, Copying, Reading
<1> QED
  BY <1>1, <1>2

LEMMA ImageStep ==
  ASSUME TablesInv, LoadTypes, Layout, Roomy, Roomy', Image(WholeDol), lost' = {},
         [LoadNext]_gVars
  PROVE  Image(WholeDol)'
<1>1. stage \in Reading => DolIn("disc") /\ done = 0
  BY DEF Image, Reading, Loading, Early
<1>2. CASE ParseFiles
  <2>1. stage = "parse" /\ stage' = "parse" /\ done' = done /\ BufferKept
    BY <1>2, ParseFilesStep DEF ParseFiles
  <2>2. DolIn("disc")'
    BY <1>1, <2>1, BufferSame, LoadAssumption DEF LoadAssumption, Reading
  <2> QED
    BY <1>1, <2>1, <2>2 DEF Image, Reading, Late, Copying
<1> SUFFICES ASSUME ~ParseFiles
    PROVE  Image(WholeDol)'
  BY <1>2
<1> DEFINE d == WholeDol
<1>3. d' = d /\ d \in DOMAIN Dols
  BY SameDol, WholeDolIs
<1>4. ASSUME NEW e \in DOMAIN Dols, Image(e), ~ReplaceMainDol
      PROVE  Image(e)'
  <2>1. CASE ReadDol
    BY <1>4, <2>1, ReadDolImage
  <2>2. CASE (\E size \in FstSizes : ReadFst(size)) \/ ReadBi2
    <3>1. BufferKept /\ stage \in Reading /\ stage' \in Reading /\ done' = done
      BY <2>2, ReadFstStep, ReadBi2Step DEF ReadFst, ReadBi2, Reading
    <3> QED
      BY <1>1, <3>1, ReadingImage
  <2>3. CASE (\E r \in RteFiles : LoadRuntimeExt(r)) \/ ReservePatches
    <3>1. BufferKept /\ stage \in Reading /\ stage' \in Reading /\ done' = done
      BY <2>3, LoadRuntimeExtStep, ReservePatchesStep DEF LoadRuntimeExt, ReservePatches, Reading
    <3> QED
      BY <1>1, <3>1, ReadingImage
  <2>4. CASE (\E p \in MemPatches : ParseMemory(p)) \/ (\E a \in PulDests : ParsePulsar(a))
    <3>1. BufferKept /\ stage \in Reading /\ stage' \in Reading /\ done' = done
      BY <2>4, ParseMemoryStep, QuietStep DEF ParseMemory, ParsePulsar, Reading
    <3> QED
      BY <1>1, <3>1, ReadingImage
  <2>5. CASE PlaceTables
    BY <1>4, <2>5, PlaceTablesStep, PlaceTablesImage
  <2>6. CASE PatchDvdFunctions
    BY <1>4, <2>6, PatchDvdFunctionsImage
  <2>7. CASE \E n \in 0 .. PulSize : LoadPulsar(n)
    BY <1>4, <2>7, LoadPulsarImage
  <2>8. CASE HandOver \/ InstallCopier
    BY <1>4, <2>8, HandOverStep, HandOverImage, InstallCopierStep, InstallCopierImage
  <2>9. CASE ZeroBss \/ CopySection \/ ApplyPatch
    BY <1>4, <2>9, PatchDolStep, ZeroBssImage, CopySectionImage, ApplyPatchImage
  <2>10. CASE SectionsCopied \/ EnterGame
    BY <1>4, <2>10, QuietLateStep, SectionsCopiedImage, EnterGameImage
  <2>11. CASE RefuseTables \/ LoadFails \/ UNCHANGED gVars
    <3>1. UNCHANGED <<mem, done, kept, pulDest, memPatches>> /\ stage' \in {stage, "exit"}
      BY <2>11 DEF RefuseTables, LoadFails, gVars, loadVars
    <3> QED
      BY <1>4, <3>1, SameImage
  <2> QED
    BY <1>4, <2>1, <2>2, <2>3, <2>4, <2>5, <2>6, <2>7, <2>8, <2>9, <2>10, <2>11, Zenon
       DEF LoadNext, Ended
<1>5. CASE ReplaceMainDol
  BY <1>5, ReplaceMainDolImage
<1>6. CASE ~ReplaceMainDol
  <2>1. ASSUME NEW e, e = d PROVE Image(e)'
    BY <1>3, <1>4, <1>6, <2>1
  <2>2. PICK e : e = d
    OBVIOUS
  <2>3. e = d'
    BY <1>3, <2>2
  <2>4. Image(e)'
    BY <2>1, <2>2
  <2> QED
    BY <2>3, <2>4 DEF Image, DolIn, HeaderIs, HooksPlaced, BufferHooked, BufferWhole,
       PulInside, Copied, PatchedTo
<1> QED
  BY <1>5, <1>6

ImageInv == Whole /\ (Roomy /\ lost = {} => Image(WholeDol))

LEMMA ImageInit ==
  ASSUME LoadInit
  PROVE  ImageInv
BY WholeInit DEF LoadInit, ImageInv, Image, Reading, Late, Copying

LEMMA ImageInvStep ==
  ASSUME ImageInv, [LoadNext]_gVars
  PROVE  ImageInv'
<1>1. Whole'
  BY WholeStep DEF ImageInv
<1>2. ASSUME Roomy', lost' = {} PROVE Image(WholeDol)'
  <2>1. TablesInv' /\ LoadTypes' /\ Grows
    BY TypesStep DEF ImageInv, Whole
  <2>2. mem1' \in Int
    BY <2>1 DEF LoadTypes
  <2>3. Roomy
    BY <1>2, <2>1, <2>2, RoomyBefore DEF ImageInv, Whole
  <2>4. lost = {}
    BY <1>2, LostGrows
  <2> QED
    BY <1>2, <2>3, <2>4, ImageStep DEF ImageInv, Whole
<1> QED
  BY <1>1, <1>2 DEF ImageInv

(* In the game: what its image says of its addresses and trampolines.      *)
LEMMA ImageIsWhole ==
  ASSUME ImageInv
  PROVE  GameImage
<1> SUFFICES ASSUME stage = "game", Roomy, lost = {}
    PROVE  LET whole == IF dol = Nothing THEN "disc" ELSE "pack" IN
           /\ mem[DolBuffer] = <<"dol", <<whole, 0>> >>
           /\ \A a \in Span(Header.bss)
                \cup UNION {{b \in 0 .. PatchCopy : InSection(b, Header.sections[i])} :
                            i \in DOMAIN Header.sections} :
                mem[a] = Patched(a)
  BY DEF GameImage
<1> DEFINE d == WholeDol
<1>1. d \in DOMAIN Dols
  BY WholeDolIs
<1>2. HeaderIs(d) /\ HooksPlaced(d) /\ PulInside(d) /\ PatchedTo(d, Len(memPatches))
  BY DEF ImageInv, Image, Late
<1>3. Header = Dols[d] /\ Header.sections = Sec(d)
  BY <1>1, <1>2, HeaderSays
<1> HIDE DEF d
<1>4. ASSUME NEW a \in Span(Header.bss)
                \cup UNION {{b \in 0 .. PatchCopy : InSection(b, Header.sections[i])} :
                            i \in DOMAIN Header.sections}
      PROVE  mem[a] = Patched(a)
  <2>1. a \in GameCells(d)
    BY <1>3 DEF GameCells, InSection, Cells
  <2>2. Original(a) = Given(d, pulDest, a)
    BY <1>1, <1>2, OriginalGiven
  <2> QED
    BY <1>2, <2>1, <2>2 DEF PatchedTo, Patched
<1>5. mem[DolBuffer] = <<"dol", <<d, 0>> >>
  BY <1>2 DEF HeaderIs
<1> QED
  BY <1>4, <1>5 DEF d, WholeDol

LEMMA ImageReachesOriginals ==
  ASSUME ImageInv
  PROVE  HooksReachOriginals
<1> SUFFICES ASSUME stage = "game", Roomy, lost = {}, NEW h \in DOMAIN Hooked
    PROVE  LET s == Header.sections[CHOOSE j \in SectionsAt(Hooked[h]) : TRUE]
               off == s.off + (Hooked[h] - s.addr)
           IN /\ mem[Trampolines[h]] = <<"dol", <<mem[DolBuffer][2][1], off>> >>
              /\ mem[Trampolines[h] + 1] = <<"back", Hooked[h] + 1>>
  BY DEF HooksReachOriginals
<1> DEFINE d == WholeDol
<1>1. d \in DOMAIN Dols
  BY WholeDolIs
<1>2. HeaderIs(d) /\ HooksPlaced(d) /\ KeptThere
  BY DEF ImageInv, Image, Late, Whole, Layout
<1> HIDE DEF d
<1>3. PICK i \in DOMAIN Sec(d) :
        /\ Hooked[h] \in Cells(Sec(d)[i])
        /\ kept[TrampolineAt(h)] = Linked(d, Sec(d)[i], Hooked[h])
  BY <1>2 DEF HooksPlaced
<1>4. SectionsAt(Hooked[h]) = {i} /\ Header.sections = Sec(d)
  BY <1>1, <1>2, <1>3, HeaderSays
<1>5. (CHOOSE j \in SectionsAt(Hooked[h]) : TRUE) = i
  BY <1>4
<1>6. Trampolines[h] = TrampolineAt(h)
  BY ImageAssumption DEF ImageAssumption, TrampolineAt
<1>7. /\ mem[TrampolineAt(h)] = Linked(d, Sec(d)[i], Hooked[h])
      /\ mem[TrampolineAt(h) + 1] = <<"back", Hooked[h] + 1>>
  BY <1>2, <1>3 DEF HooksPlaced, KeptThere
<1>8. mem[DolBuffer][2][1] = d
  BY <1>2 DEF HeaderIs
<1> QED
  BY <1>4, <1>5, <1>6, <1>7, <1>8 DEF Linked

(* The game starts on one whole DOL, zeroed outside of its sections, with  *)
(* every jump, Loader.pul and memory patch in its place, for all DOLs and  *)
(* patches whose reads did not fail silently                               *)
(* (main.c:346-372, loader.c:177-180, game_dol_loader.c:45-88).            *)
THEOREM GameStartsWhole == LoadSpec => []GameImage
<1>1. LoadInit => ImageInv
  BY ImageInit
<1>2. ImageInv /\ [LoadNext]_gVars => ImageInv'
  BY ImageInvStep
<1>3. ImageInv => GameImage
  BY ImageIsWhole
<1> QED
  BY <1>1, <1>2, <1>3, PTL DEF LoadSpec

(* What runtime-ext calls as an original DVD function is that function of  *)
(* the DOL that runs, for every number of hooks and wherever they lie      *)
(* (loader.c:95-117, base.ld).                                             *)
THEOREM OriginalsAreReached == LoadSpec => []HooksReachOriginals
<1>1. LoadInit => ImageInv
  BY ImageInit
<1>2. ImageInv /\ [LoadNext]_gVars => ImageInv'
  BY ImageInvStep
<1>3. ImageInv => HooksReachOriginals
  BY ImageReachesOriginals
<1> QED
  BY <1>1, <1>2, <1>3, PTL DEF LoadSpec
=============================================================================

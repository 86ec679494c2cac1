--------------------------- MODULE SettingsProofs ---------------------------
(***************************************************************************)
(* Proofs about Settings, for any number of choices and faults.            *)
(***************************************************************************)
EXTENDS Settings, TLAPS

(* What a store leaves when it is cut short after n entries.               *)
Cut(s, n) == [header |-> TRUE, count |-> 3,
              entries |-> SubSeq(Encode(s).entries, 1, n)]

-----------------------------------------------------------------------------
(* The file *)

LEMMA CutParts ==
  ASSUME NEW s \in SettingsType, NEW n \in 0 .. 3
  PROVE  /\ Cut(s, n).header = TRUE /\ Cut(s, n).count = 3
         /\ Len(Cut(s, n).entries) = n
         /\ \A i \in 1 .. n : Cut(s, n).entries[i] = Entry(Keys[i], s)
         /\ Cut(s, n) \in [header : BOOLEAN, count : {0, 3},
                           entries : Seq(Entries)]
         /\ Cut(s, 3) = Encode(s)
<1> DEFINE e == [i \in 1 .. 3 |-> Entry(Keys[i], s)]
<1>1. e \in Seq(Entries) /\ Len(e) = 3
  <2>1. \A i \in 1 .. 3 : Entry(Keys[i], s) \in Entries
    BY DEF Entry, Entries, SettingsType, Fields
  <2> QED  BY <2>1
<1>2. Encode(s) = [header |-> TRUE, count |-> 3, entries |-> e]
  BY DEF Encode
<1>3. Cut(s, n) = [header |-> TRUE, count |-> 3, entries |-> SubSeq(e, 1, n)]
  BY <1>2 DEF Cut
<1>4. /\ SubSeq(e, 1, n) \in Seq(Entries) /\ Len(SubSeq(e, 1, n)) = n
      /\ \A i \in 1 .. n : SubSeq(e, 1, n)[i] = e[i]
  BY <1>1
<1>5. SubSeq(e, 1, 3) = e
  BY <1>1
<1> HIDE DEF e
<1>6. Cut(s, 3) = [header |-> TRUE, count |-> 3, entries |-> SubSeq(e, 1, 3)]
  BY <1>2 DEF Cut
<1>7. Cut(s, 3) = Encode(s)
  BY <1>2, <1>5, <1>6
<1>8. \A i \in 1 .. n : SubSeq(e, 1, n)[i] = Entry(Keys[i], s)
  BY <1>4 DEF e
<1> QED  BY <1>3, <1>4, <1>7, <1>8

LEMMA KeysOnce ==
  /\ Fields = {"myStuff", "savegame", "autoUpdate"}
  /\ Keys[1] = "myStuff" /\ Keys[2] = "savegame" /\ Keys[3] = "autoUpdate"
  /\ \A k \in Fields : \E i \in 1 .. 3 :
       k = Keys[i] /\ \A j \in 1 .. 3 : Keys[j] = k => j = i
<1>1. Keys[1] = "myStuff" /\ Keys[2] = "savegame" /\ Keys[3] = "autoUpdate"
  BY DEF Keys
<1>2. 1 .. 3 = {1, 2, 3}
  OBVIOUS
<1> QED  BY <1>1, <1>2 DEF Fields

(* Reading a store cut short gives the value of an entry that is whole,    *)
(* and the default of one that is not.                                     *)
LEMMA ParsedCut ==
  ASSUME NEW s \in SettingsType, NEW n \in 0 .. 3
  PROVE  Parsed(Cut(s, n)) =
           [k \in Fields |-> IF \E i \in 1 .. n : Keys[i] = k
                             THEN s[k] ELSE Defaults[k]]
<1> DEFINE f == Cut(s, n)
           Read == {i \in 1 .. Len(f.entries) : f.header /\ i <= f.count}
           Of(k) == {i \in Read : f.entries[i].key = k}
           Last(S) == CHOOSE i \in S : \A j \in S : j <= i
<1>0. /\ f.header = TRUE /\ f.count = 3 /\ Len(f.entries) = n
      /\ \A i \in 1 .. n : f.entries[i] = Entry(Keys[i], s)
  BY CutParts, Zenon
<1>1. Parsed(f) = [k \in Fields |-> IF Of(k) = {} THEN Defaults[k]
                                    ELSE f.entries[Last(Of(k))].value]
  BY DEF Parsed
<1>2. Read = 1 .. n
  <2> HIDE DEF f
  <2> QED  BY <1>0
<1>3. \A i \in 1 .. n : f.entries[i].key = Keys[i]
                        /\ f.entries[i].value = s[Keys[i]]
  <2> HIDE DEF f
  <2>1. \A i \in 1 .. n : /\ Entry(Keys[i], s).key = Keys[i]
                          /\ Entry(Keys[i], s).value = s[Keys[i]]
    BY DEF Entry
  <2> QED  BY <1>0, <2>1
<1>4. ASSUME NEW k \in Fields
      PROVE  (IF Of(k) = {} THEN Defaults[k]
              ELSE f.entries[Last(Of(k))].value)
             = IF \E i \in 1 .. n : Keys[i] = k THEN s[k] ELSE Defaults[k]
  <2>1. Of(k) = {i \in 1 .. n : Keys[i] = k}
    BY <1>2, <1>3
  <2>2. CASE Of(k) = {}
    BY <2>1, <2>2
  <2>3. CASE Of(k) # {}
    <3>1. PICK i \in 1 .. n : Keys[i] = k /\ Of(k) = {i}
      <4>1. PICK i \in 1 .. 3 : k = Keys[i] /\ \A j \in 1 .. 3 :
                                               Keys[j] = k => j = i
        BY KeysOnce
      <4> QED  BY <4>1, <2>1, <2>3
    <3>2. Last(Of(k)) = i
      <4> DEFINE S == Of(k)
      <4>1. S = {i} /\ i \in Nat  BY <3>1
      <4> HIDE DEF S
      <4>2. \E x \in S : \A j \in S : j <= x  BY <4>1
      <4>3. Last(S) \in S  BY <4>2
      <4>4. Last(S) = i  BY <4>1, <4>3
      <4> QED  BY <4>4 DEF S
    <3> QED  BY <3>1, <3>2, <1>3, <2>3
  <2> QED  BY <2>2, <2>3
<1> HIDE DEF f, Of, Last, Read
<1> QED  BY <1>1, <1>4, Zenon DEF f

LEMMA StoreIsRead ==
  ASSUME NEW s \in SettingsType
  PROVE  Parsed(Encode(s)) = s /\ ~ParseFails(Encode(s))
<1>1. 3 \in 0 .. 3
  OBVIOUS
<1>2. Cut(s, 3) = Encode(s)
  BY <1>1, CutParts
<1>3. /\ Encode(s).header = TRUE /\ Encode(s).count = 3
      /\ Len(Encode(s).entries) = 3
  BY DEF Encode
<1>4. \A k \in Fields : \E i \in 1 .. 3 : Keys[i] = k
  BY KeysOnce
<1>5. Parsed(Encode(s)) = [k \in Fields |-> s[k]]
  <2>1. Parsed(Cut(s, 3)) = [k \in Fields |-> IF \E i \in 1 .. 3 : Keys[i] = k
                                               THEN s[k] ELSE Defaults[k]]
    BY <1>1, ParsedCut, Zenon
  <2> QED  BY <2>1, <1>2, <1>4
<1>6. s = [k \in Fields |-> s[k]]
  BY DEF SettingsType
<1> QED  BY <1>3, <1>5, <1>6 DEF ParseFails

(* A store cut short after the header is an error, or is complete.         *)
LEMMA CutFails ==
  ASSUME NEW s \in SettingsType, NEW n \in 0 .. 3
  PROVE  Cut(s, n) = Encode(s) \/ ParseFails(Cut(s, n))
<1>1. Cut(s, n).count = 3 /\ Len(Cut(s, n).entries) = n
  BY CutParts, Zenon
<1>2. CASE n = 3
  BY <1>2, CutParts, Zenon
<1>3. CASE n # 3
  BY <1>1, <1>3 DEF ParseFails
<1> QED  BY <1>2, <1>3

LEMMA EmptyFiles ==
  /\ ParseFails(Truncated)
  /\ ~ParseFails(Created)
  /\ Parsed(Created) = Defaults /\ Parsed(Truncated) = Defaults
  /\ {Created, Truncated} \subseteq [header : BOOLEAN, count : {0, 3},
                                     entries : Seq(Entries)]
<1>1. ASSUME NEW f, f.entries = << >>
      PROVE  Parsed(f) = Defaults
  <2> DEFINE Read == {i \in 1 .. Len(f.entries) : f.header /\ i <= f.count}
             Of(k) == {i \in Read : f.entries[i].key = k}
             Last(S) == CHOOSE i \in S : \A j \in S : j <= i
  <2>1. Parsed(f) = [k \in Fields |-> IF Of(k) = {} THEN Defaults[k]
                                      ELSE f.entries[Last(Of(k))].value]
    BY DEF Parsed
  <2>2. \A k \in Fields : Of(k) = {}
    BY <1>1
  <2> HIDE DEF Of, Last
  <2>3. Parsed(f) = [k \in Fields |-> Defaults[k]]
    BY <2>1, <2>2
  <2> QED  BY <2>3 DEF Defaults
<1>2. ParseFails(Truncated) /\ ~ParseFails(Created)
  BY DEF ParseFails, Created, Truncated
<1>3. Created.entries = << >> /\ Truncated.entries = << >>
  BY DEF Created, Truncated
<1>4. {Created, Truncated} \subseteq [header : BOOLEAN, count : {0, 3},
                                      entries : Seq(Entries)]
  BY DEF Created, Truncated
<1> QED  BY <1>1, <1>2, <1>3, <1>4, Zenon

LEMMA WhatIsLeft ==
  ASSUME NEW s \in SettingsType
  PROVE  Prefixes(Encode(s)) = {Truncated} \cup {Cut(s, n) : n \in 0 .. 3}
<1>1. Len(Encode(s).entries) = 3
  BY DEF Encode
<1>2. Encode(s).header = TRUE /\ Encode(s).count = 3
  BY DEF Encode
<1> QED  BY <1>1, <1>2 DEF Prefixes, Cut
-----------------------------------------------------------------------------
(* The settings *)

(* Within every entry's options, a value is one the menu may show.         *)
LEMMA LastOptions ==
  /\ InXml \subseteq Fields
  /\ \A k \in Fields : LastOption(k) \in Nat /\ LastOption(k) > 0
  /\ \A k \in InXml : LastOption(k) = MaxChoices[k]
  /\ \A k \in Fields \ InXml : LastOption(k) = 1
  /\ \A k \in Fields : 0 .. LastOption(k) \subseteq Values
  /\ Values \subseteq Nat
<1>1. InXml \subseteq Fields
  BY KeysOnce DEF InXml
<1>2. \A k \in Fields : /\ LastOption(k) \in Nat /\ LastOption(k) > 0
                        /\ k \in InXml => LastOption(k) = MaxChoices[k]
                        /\ k \notin InXml => LastOption(k) = 1
  BY SettingsAssumption DEF LastOption, AutoUpdateOptions
<1> QED  BY <1>1, <1>2 DEF Values

LEMMA ProperIs ==
  ASSUME NEW s \in [Fields -> Nat], \A k \in Fields : s[k] <= LastOption(k)
  PROVE  s \in Proper
<1>1. \A k \in Fields : s[k] \in 0 .. LastOption(k) /\ s[k] \in Values
  BY LastOptions
<1> QED  BY <1>1 DEF Proper, SettingsType

LEMMA DefaultsProper == Defaults \in Proper
<1>1. Defaults \in [Fields -> Nat]
  BY DEF Defaults
<1>2. \A k \in Fields : Defaults[k] <= LastOption(k)
  BY LastOptions DEF Defaults
<1> QED  BY <1>1, <1>2, ProperIs

LEMMA ParsedProper ==
  ASSUME NEW f \in Files, f # Absent
  PROVE  Parsed(f) \in Proper
<1>1. CASE f \in {Created, Truncated}
  BY <1>1, EmptyFiles, DefaultsProper
<1>2. ASSUME NEW s \in Proper, NEW n \in 0 .. 3, f = Cut(s, n)
      PROVE  Parsed(f) \in Proper
  <2>1. s \in SettingsType
    BY DEF Proper
  <2>2. Parsed(f) = [k \in Fields |-> IF \E i \in 1 .. n : Keys[i] = k
                                      THEN s[k] ELSE Defaults[k]]
    BY <1>2, <2>1, ParsedCut
  <2>3. \A k \in Fields : Parsed(f)[k] \in {s[k], Defaults[k]}
    BY <2>2
  <2>4. Parsed(f) \in SettingsType
    <3>1. \A k \in Fields : s[k] \in Values /\ Defaults[k] \in Values
      BY <2>1, DefaultsProper DEF Proper, SettingsType
    <3> QED  BY <2>2, <3>1 DEF SettingsType
  <2>5. \A k \in Fields : /\ s[k] \in 0 .. LastOption(k)
                          /\ Defaults[k] \in 0 .. LastOption(k)
    BY DefaultsProper DEF Proper
  <2>6. \A k \in Fields : Parsed(f)[k] \in 0 .. LastOption(k)
    BY <2>3, <2>5
  <2> QED  BY <2>4, <2>6 DEF Proper
<1>3. \A s \in Proper : s \in SettingsType
  BY DEF Proper
<1> QED  BY <1>1, <1>2, <1>3, WhatIsLeft DEF Files

LEMMA OnTheCard ==
  /\ Created \in Files /\ Truncated \in Files
  /\ \A s \in Proper : /\ Prefixes(Encode(s)) \subseteq Files
                       /\ Encode(s) \in Prefixes(Encode(s))
  /\ Created # Absent /\ Truncated # Absent
  /\ \A s \in Proper : \A f \in Prefixes(Encode(s)) : f # Absent
<1>1. \A s \in Proper : s \in SettingsType
  BY DEF Proper
<1>2. Created # Absent /\ Truncated # Absent
  BY EmptyFiles, SettingsAssumption
<1>3. ASSUME NEW s \in Proper, NEW n \in 0 .. 3
      PROVE  Cut(s, n) # Absent
  <2>1. s \in SettingsType
    BY <1>1
  <2>2. Cut(s, n) \in [header : BOOLEAN, count : {0, 3}, entries : Seq(Entries)]
    BY <2>1, CutParts, Zenon
  <2> QED  BY <2>2, SettingsAssumption, Zenon
<1>4. \A s \in Proper : \A f \in Prefixes(Encode(s)) : f # Absent
  BY <1>1, <1>2, <1>3, WhatIsLeft
<1>5. ASSUME NEW s \in Proper
      PROVE  Encode(s) \in Prefixes(Encode(s))
  <2>1. s \in SettingsType /\ 3 \in 0 .. 3
    BY <1>1
  <2>2. Encode(s) = Cut(s, 3)
    BY <2>1, CutParts, Zenon
  <2> QED  BY <2>1, <2>2, WhatIsLeft
<1>6. Truncated \in Prefixes(Encode(Defaults))
  BY DEF Prefixes
<1>7. Created \in Files /\ Truncated \in Files
  BY <1>6, DefaultsProper DEF Files
<1>8. \A s \in Proper : Prefixes(Encode(s)) \subseteq Files
  BY DEF Files
<1> QED  BY <1>2, <1>4, <1>5, <1>7, <1>8

LEMMA LeftOfAStore ==
  ASSUME NEW s \in Proper, NEW f \in Prefixes(Encode(s))
  PROVE  f = Encode(s) \/ ParseFails(f)
<1>1. s \in SettingsType
  BY DEF Proper
<1>2. f = Truncated \/ \E n \in 0 .. 3 : f = Cut(s, n)
  BY <1>1, WhatIsLeft
<1> QED  BY <1>1, <1>2, CutFails, EmptyFiles

LEMMA ClampProper ==
  ASSUME NEW s \in Proper, choices \in Packs, NEW found \in SUBSET InXml
  PROVE  /\ Clamp(s, found) \in Proper
         /\ \A k \in found : Clamp(s, found)[k] < choices[k] + 1
<1>1. \A k \in Fields : s[k] \in Nat /\ s[k] <= LastOption(k)
  BY LastOptions DEF Proper
<1>2. \A k \in InXml : choices[k] \in Nat
  BY LastOptions DEF Packs
<1>3. Clamp(s, found) \in [Fields -> Nat]
  BY <1>1 DEF Clamp
<1>4. \A k \in Fields : Clamp(s, found)[k] <= LastOption(k)
  BY <1>1, LastOptions DEF Clamp
<1>5. \A k \in found : Clamp(s, found)[k] < choices[k] + 1
  BY <1>1, <1>2, LastOptions DEF Clamp
<1> QED  BY <1>3, <1>4, <1>5, ProperIs
-----------------------------------------------------------------------------
(* The invariant                                                           *)

(* A file that is there is the last one stored whole, or an error; before  *)
(* the first one, nothing was stored.                                      *)
FileInv ==
  /\ file = Absent => stored = Defaults
  /\ file # Absent /\ ~ParseFails(file) => Parsed(file) = stored

(* The marks of the menu compare with the file.                            *)
SyncInv == pc = "menu" /\ synced => initial = Parsed(file)

IInv == TypeOK /\ FileInv /\ ShownInRange /\ SyncInv

LEMMA InitIInv == Init => IInv
<1> SUFFICES ASSUME Init PROVE IInv
  OBVIOUS
<1>1. (\A k \in InXml : 1 \in 1 .. MaxChoices[k] + 1) /\ 0 \in 0 .. MaxFaults
  BY SettingsAssumption
<1>2. TypeOK
  BY <1>1, DefaultsProper DEF Init, TypeOK, Files
<1> QED  BY <1>2 DEF Init, IInv, FileInv, ShownInRange, SyncInv

(* What a step leaves alone outside the menu and a store.                  *)
LEMMA ElsewhereStep ==
  ASSUME TypeOK', FileInv', pc' \notin {"menu", "store"}
  PROVE  IInv'
BY DEF IInv, ShownInRange, SyncInv

LEMMA BootStep ==
  ASSUME IInv,
         \/ Load \/ LoadFails \/ Recreate \/ RecreateFails \/ KeepFile
         \/ AutoUpdate \/ AutoLaunch \/ Leave
  PROVE  IInv'
<1> USE DEF IInv, menu
<1>1. LaunchResult \in {"fatal", "game"}
  BY DEF LaunchResult
<1>2. faults \in Nat /\ MaxFaults \in Nat
      /\ (faults < MaxFaults => faults + 1 \in 0 .. MaxFaults)
  BY SettingsAssumption DEF TypeOK
<1>3. CASE Load
  <2> DEFINE f == IF file = Absent THEN Created ELSE file
  <2>1. f \in Files /\ f # Absent
    BY OnTheCard DEF TypeOK
  <2>2. Parsed(f) \in Proper
    BY <2>1, ParsedProper
  <2>3. TypeOK'
    BY <1>3, <2>1, <2>2 DEF Load, TypeOK
  <2>4. FileInv'
    BY <1>3, <2>1, EmptyFiles DEF Load, FileInv
  <2> QED  BY <1>3, <2>3, <2>4, ElsewhereStep DEF Load
<1>4. CASE LoadFails
  <2>1. TypeOK'
    BY <1>2, <1>4, OnTheCard, DefaultsProper DEF LoadFails, TypeOK
  <2>2. FileInv'
    BY <1>4, EmptyFiles, OnTheCard DEF LoadFails, FileInv
  <2> QED  BY <1>4, <2>1, <2>2, ElsewhereStep DEF LoadFails
<1>5. CASE Recreate
  <2>1. TypeOK'
    BY <1>5, OnTheCard, DefaultsProper DEF Recreate, TypeOK
  <2>2. FileInv'
    BY <1>5, EmptyFiles DEF Recreate, FileInv
  <2> QED  BY <1>5, <2>1, <2>2, ElsewhereStep DEF Recreate
<1>6. CASE RecreateFails
  <2>1. TypeOK'
    BY <1>2, <1>6, OnTheCard DEF RecreateFails, TypeOK
  <2>2. FileInv'
    BY <1>6, EmptyFiles, OnTheCard DEF RecreateFails, FileInv
  <2> QED  BY <1>6, <2>1, <2>2, ElsewhereStep DEF RecreateFails
<1>7. CASE KeepFile
  BY <1>7, ElsewhereStep DEF KeepFile, TypeOK, FileInv
<1>8. CASE AutoUpdate
  BY <1>8, ElsewhereStep DEF AutoUpdate, TypeOK, FileInv
<1>9. CASE AutoLaunch
  BY <1>1, <1>9, ElsewhereStep DEF AutoLaunch, Launch, TypeOK, FileInv
<1>10. CASE Leave
  BY <1>10, ElsewhereStep DEF Leave, TypeOK, FileInv
<1> QED  BY <1>3, <1>4, <1>5, <1>6, <1>7, <1>8, <1>9, <1>10

(* A value changed in the menu is again an option.                         *)
LEMMA ChangeInRange ==
  ASSUME IInv, pc = "menu", NEW k \in Fields, NEW v \in {LeftOf(k), RightOf(k)}
  PROVE  /\ v \in Values /\ v < Options(k)
         /\ [mem EXCEPT ![k] = v] \in Proper
<1>1. \A j \in Fields : mem[j] \in Nat /\ mem[j] <= LastOption(j)
  BY LastOptions DEF IInv, TypeOK, Proper
<1>2. mem[k] \in Nat /\ mem[k] < Options(k)
  BY <1>1 DEF IInv, ShownInRange
<1>3. Options(k) \in 1 .. LastOption(k) + 1 /\ LastOption(k) \in Nat
  BY LastOptions, SettingsAssumption DEF IInv, TypeOK, Options, AutoUpdateOptions
<1>4. v \in 0 .. Options(k) - 1
  BY <1>2, <1>3 DEF LeftOf, RightOf
<1>5. v \in Nat /\ v < Options(k) /\ v <= LastOption(k)
  BY <1>3, <1>4
<1>6. v \in Values
  BY <1>5, LastOptions
<1>7. DOMAIN mem = Fields
  BY DEF IInv, TypeOK, Proper, SettingsType
<1>8. [mem EXCEPT ![k] = v] \in [Fields -> Nat]
  BY <1>1, <1>5, <1>7
<1>9. \A j \in Fields : [mem EXCEPT ![k] = v][j] <= LastOption(j)
  BY <1>1, <1>5, <1>7
<1> QED  BY <1>5, <1>6, <1>8, <1>9, ProperIs
LEMMA MenuStep ==
  ASSUME IInv,
         \/ OpenMenu \/ MenuNotOpened \/ (\E k \in Fields : Change(k))
         \/ LaunchFromMenu \/ ExitMenu \/ UpdateFromMenu
  PROVE  IInv'
<1> USE DEF IInv, menu
<1>1. LaunchResult \in {"fatal", "game"}
  BY DEF LaunchResult
<1>2. CASE OpenMenu
  <2>1. /\ mem' \in Proper /\ \A k \in InXml : mem'[k] < choices[k] + 1
        /\ initial' = mem' /\ options' = [k \in InXml |-> choices[k] + 1]
    BY <1>2, ClampProper DEF OpenMenu, TypeOK
  <2>2. /\ options' \in [InXml -> Nat]
        /\ \A k \in InXml : options'[k] \in 1 .. MaxChoices[k] + 1
    <3>1. \A k \in InXml : choices[k] \in 1 .. MaxChoices[k]
      BY DEF TypeOK, Packs
    <3>2. \A k \in InXml : MaxChoices[k] \in Nat
      BY SettingsAssumption
    <3> QED  BY <2>1, <3>1, <3>2
  <2>3. TypeOK'
    BY <1>2, <2>1, <2>2 DEF OpenMenu, TypeOK
  <2>4. FileInv'
    BY <1>2 DEF OpenMenu, FileInv
  <2>5. ShownInRange'
    <3>1. \A k \in InXml : mem'[k] < Options(k)'
      BY <2>1 DEF Options
    <3>2. \A k \in Fields \ InXml : Options(k)' = 2 /\ mem'[k] \in 0 .. 1
      BY <2>1, LastOptions DEF Options, AutoUpdateOptions, Proper
    <3> QED  BY <3>1, <3>2 DEF ShownInRange
  <2>6. synced' => mem' = Parsed(file)
    BY <1>2 DEF OpenMenu
  <2>7. SyncInv'
    BY <1>2, <2>1, <2>6 DEF OpenMenu, SyncInv
  <2> QED  BY <2>3, <2>4, <2>5, <2>7
<1>3. ASSUME NEW k \in Fields, Change(k)
      PROVE  IInv'
  <2>1. PICK v \in {LeftOf(k), RightOf(k)} : mem' = [mem EXCEPT ![k] = v]
    BY <1>3 DEF Change
  <2>2. mem' \in Proper /\ v < Options(k)
    BY <1>3, <2>1, ChangeInRange DEF Change
  <2>3. TypeOK'
    BY <1>3, <2>2 DEF Change, TypeOK
  <2>4. FileInv' /\ SyncInv'
    BY <1>3 DEF Change, FileInv, SyncInv
  <2>5. \A j \in Fields : mem'[j] < Options(j)
    BY <1>3, <2>1, <2>2 DEF Change, ShownInRange, TypeOK, Proper, SettingsType
  <2>6. ShownInRange'
    BY <1>3, <2>5 DEF Change, ShownInRange, Options
  <2> QED  BY <2>3, <2>4, <2>6
<1>4. CASE LaunchFromMenu
  BY <1>1, <1>4, ElsewhereStep DEF LaunchFromMenu, Launch, TypeOK, FileInv
<1>5. CASE ExitMenu
  BY <1>5, ElsewhereStep DEF ExitMenu, TypeOK, FileInv
<1>6. CASE UpdateFromMenu
  <2>1. TypeOK' /\ FileInv' /\ SyncInv'
    BY <1>6 DEF UpdateFromMenu, TypeOK, FileInv, SyncInv
  <2>2. ShownInRange'
    BY <1>6 DEF UpdateFromMenu, ShownInRange, Options
  <2> QED  BY <2>1, <2>2
<1>7. CASE MenuNotOpened
  <2>1. PICK found \in {{}, {"myStuff"}} : mem' = Clamp(mem, found)
    BY <1>7 DEF MenuNotOpened
  <2>2. mem' \in Proper
    BY <2>1, ClampProper DEF TypeOK, InXml
  <2>3. faults' \in 0 .. MaxFaults
    BY <1>7, SettingsAssumption DEF MenuNotOpened, TypeOK
  <2> QED  BY <1>7, <2>2, <2>3, ElsewhereStep DEF MenuNotOpened, TypeOK, FileInv
<1> QED  BY <1>2, <1>3, <1>4, <1>5, <1>6, <1>7

LEMMA StoreStep ==
  ASSUME IInv,
         \/ \E what \in {"save", "launch", "exit"} :
              StartStore(what) \/ StoreNotOpened(what)
         \/ FinishStore \/ StoreFails \/ PowerLoss
  PROVE  IInv'
<1> USE DEF IInv, menu
<1>1. LaunchResult \in {"fatal", "game"}
  BY DEF LaunchResult
<1>2. faults \in Nat /\ MaxFaults \in Nat
      /\ (faults < MaxFaults => faults + 1 \in 0 .. MaxFaults)
  BY SettingsAssumption DEF TypeOK
<1>3. ASSUME NEW what \in {"save", "launch", "exit"}, NEW ok \in BOOLEAN,
             AfterStore(what, ok)
      PROVE  /\ pc' \in {"menu", "game", "fatal", "off"}
             /\ pc' = "menu" => what = "save"
             /\ initial' \in Proper
             /\ UNCHANGED <<choices, then, boot, mem, options>>
  BY <1>1, <1>3 DEF AfterStore, Launch, TypeOK
<1>4. ASSUME NEW what \in {"save", "launch", "exit"}, StartStore(what)
      PROVE  IInv'
  <2>1. TypeOK'
    BY <1>4, OnTheCard DEF StartStore, TypeOK
  <2>2. FileInv'
    BY <1>4, OnTheCard, EmptyFiles DEF StartStore, FileInv
  <2>3. ShownInRange' /\ SyncInv'
    BY <1>4 DEF StartStore, ShownInRange, SyncInv, Options
  <2> QED  BY <2>1, <2>2, <2>3
<1>5. ASSUME NEW what \in {"save", "launch", "exit"}, StoreNotOpened(what)
      PROVE  IInv'
  <2>1. /\ AfterStore(what, FALSE) /\ pc = "menu" /\ faults < MaxFaults
        /\ faults' = faults + 1 /\ UNCHANGED <<file, stored, synced>>
    BY <1>5 DEF StoreNotOpened
  <2>2. initial' = initial
    BY <2>1 DEF AfterStore
  <2>3. TypeOK'
    BY <1>2, <1>3, <2>1 DEF TypeOK
  <2>4. FileInv' /\ SyncInv'
    BY <2>1, <2>2 DEF FileInv, SyncInv
  <2>5. ShownInRange'
    BY <1>3, <2>1 DEF ShownInRange, Options
  <2> QED  BY <2>3, <2>4, <2>5
<1>6. CASE FinishStore
  <2>1. /\ pc = "store" /\ file' = Encode(mem) /\ stored' = mem
        /\ synced' = TRUE /\ AfterStore(then, TRUE) /\ UNCHANGED faults
    BY <1>6 DEF FinishStore
  <2>2. then \in {"save", "launch", "exit"} /\ mem \in Proper
        /\ mem \in SettingsType
    BY DEF TypeOK, Proper
  <2>3. file' \in Files /\ file' # Absent /\ Parsed(file') = mem
    BY <2>1, <2>2, OnTheCard, StoreIsRead
  <2>4. TypeOK'
    BY <1>3, <2>1, <2>2, <2>3 DEF TypeOK
  <2>5. FileInv'
    BY <2>1, <2>3 DEF FileInv
  <2>6. ShownInRange'
    BY <1>3, <2>1, <2>2 DEF ShownInRange, Options
  <2>7. pc' = "menu" => initial' = mem
    BY <1>3, <2>1, <2>2 DEF AfterStore
  <2>8. SyncInv'
    BY <2>3, <2>7 DEF SyncInv
  <2> QED  BY <2>4, <2>5, <2>6, <2>8
<1>7. CASE StoreFails
  <2>1. PICK reported \in BOOLEAN : AfterStore(then, ~reported)
    BY <1>7 DEF StoreFails
  <2>2. /\ pc = "store" /\ faults < MaxFaults /\ faults' = faults + 1
        /\ file' \in Prefixes(Encode(mem)) /\ file' # Encode(mem)
        /\ synced' = FALSE /\ stored' = stored
    BY <1>7 DEF StoreFails
  <2>3. then \in {"save", "launch", "exit"} /\ mem \in Proper
    BY DEF TypeOK
  <2>4. file' \in Files /\ file' # Absent /\ ParseFails(file')
    BY <2>2, <2>3, OnTheCard, LeftOfAStore
  <2>5. TypeOK'
    BY <1>2, <1>3, <2>1, <2>2, <2>3, <2>4 DEF TypeOK
  <2>6. FileInv' /\ SyncInv'
    BY <2>2, <2>4 DEF FileInv, SyncInv
  <2>7. ShownInRange'
    BY <1>3, <2>1, <2>2, <2>3 DEF ShownInRange, Options
  <2> QED  BY <2>5, <2>6, <2>7
<1>8. CASE PowerLoss
  <2>1. mem \in Proper /\ mem \in SettingsType
    BY DEF TypeOK, Proper
  <2>2. CASE pc = "store"
    <3>1. file' \in Prefixes(Encode(mem))
          /\ stored' = IF file' = Encode(mem) THEN mem ELSE stored
      BY <1>8, <2>2 DEF PowerLoss
    <3>2. file' \in Files /\ file' # Absent
      BY <2>1, <3>1, OnTheCard
    <3>3. FileInv'
      BY <2>1, <3>1, <3>2, StoreIsRead, LeftOfAStore DEF FileInv
    <3>4. TypeOK'
      BY <1>2, <1>8, <2>1, <3>1, <3>2 DEF PowerLoss, TypeOK
    <3> QED  BY <1>8, <3>3, <3>4, ElsewhereStep DEF PowerLoss
  <2>3. CASE pc # "store"
    BY <1>2, <1>8, <2>3, ElsewhereStep DEF PowerLoss, TypeOK, FileInv
  <2> QED  BY <2>2, <2>3
<1> QED  BY <1>4, <1>5, <1>6, <1>7, <1>8
LEMMA IInvStep == IInv /\ [Next]_vars => IInv'
<1> SUFFICES ASSUME IInv, [Next]_vars PROVE IInv'
  OBVIOUS
<1>1. CASE UNCHANGED vars
  BY <1>1 DEF vars, IInv, TypeOK, FileInv, ShownInRange, SyncInv, Options
<1>2. CASE Next
  BY <1>2, BootStep, MenuStep, StoreStep DEF Next
<1> QED  BY <1>1, <1>2

LEMMA Invariance == Spec => []IInv
BY InitIInv, IInvStep, PTL DEF Spec

(* The file is always what some store or creation left, and the settings   *)
(* in use hold no value that the menu of no pack offers (settingsfile.c:68-*)
(* 197, settings.c:96-147).                                                *)
THEOREM SettingsTyped == Spec => []TypeOK
<1>1. IInv => TypeOK
  BY DEF IInv
<1> QED  BY <1>1, Invariance, PTL

(* The menu never reads beyond the array of an entry's options, whatever   *)
(* was stored, and however often updates changed the pack (settings.c:140, *)
(* 757, 825, 839).                                                         *)
THEOREM MenuInRange == Spec => []ShownInRange
<1>1. IInv => ShownInRange
  BY DEF IInv
<1> QED  BY <1>1, Invariance, PTL

(* Settings read without an error are those last stored whole, however the *)
(* stores since then failed (settingsfile.c:111-197).                      *)
THEOREM ReadsWhatWasStored == Spec => []LoadedIsStored
<1>1. IInv => LoadedIsStored
  BY DEF IInv, FileInv, LoadedIsStored
<1> QED  BY <1>1, Invariance, PTL

(* In a menu that began with the file's settings, or saved them, what      *)
(* differs from the file is marked (settings.c:763, 852, 938).             *)
THEOREM LossIsAsked == Spec => []ChangesMarked
<1>1. IInv => ChangesMarked
  <2> SUFFICES ASSUME IInv, pc = "menu", synced, mem # Parsed(file)
               PROVE  HasUnsavedChanges
    BY DEF ChangesMarked
  <2>1. initial # mem
    BY DEF IInv, SyncInv
  <2>2. mem \in [Fields -> Values] /\ initial \in [Fields -> Values]
    BY DEF IInv, TypeOK, Proper, SettingsType
  <2> QED  BY <2>1, <2>2 DEF HasUnsavedChanges
<1> QED  BY <1>1, Invariance, PTL
=============================================================================

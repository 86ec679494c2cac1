---------------------------- MODULE UpdateProofs ----------------------------
(***************************************************************************)
(* Proofs about Update, for every list of releases and every number of     *)
(* errors and power losses.  The inductive invariant IInv adds to the      *)
(* types what the card holds at each step of an installation, and that     *)
(* what is about to be written has its room.  LostInv adds what is left    *)
(* when the version is lost, for the refinement of UpdateAbs.              *)
(***************************************************************************)
EXTENDS Update, TLAPS

(* The versions at hand: the release being installed follows the one       *)
(* version.txt names and is in both fetched lists.                         *)
VersionsInv ==
  /\ removals <= listed
  /\ step = "asked" => versionTxt # Empty /\ cur = versionTxt + 1 /\ cur <= seen /\ seen <= listed
  /\ step \in Updating => seen <= removals
  /\ step \in Updating \ {"version"} => versionTxt # Empty /\ cur = versionTxt + 1
  /\ step \in Installing \cup {"download", "archive"} => cur <= seen
  /\ step = "version" => versionTxt = Empty

(* Between installations the card holds a release, unless the last one was *)
(* cut short.                                                              *)
BetweenInv ==
  /\ step \notin Installing /\ ~cut => versionTxt # Empty /\ HoldsRelease(versionTxt)
  /\ step = "next" => cur <= seen \/ (cur = seen + 1 /\ HoldsRelease(seen) /\ zip = Absent)

(* During an installation every file is either done or still to be done.   *)
ExtractInv ==
  /\ step = "archive" => zip \in {cur, Partial}
  /\ step \in {"extract", "write"} =>
      /\ zip = cur
      /\ left \subseteq Ships[cur]
      /\ step = "write" => file \in Ships[cur] \ (left \cup damaged) /\ card[file] = Partial
      /\ \A f \in Ships[cur] \ (left \cup damaged) :
           (step = "write" /\ f = file) \/ card[f] = cur

RemoveInv ==
  step = "remove" =>
    /\ zip = Absent
    /\ left \subseteq Removes[cur]
    /\ \A f \in Files \ (left \cup damaged) : card[f] = Pack[cur][f]

VersionInv == step = "version" => zip = Absent /\ HoldsRelease(cur)

(* A checked download or file still fits when it is written.               *)
SpaceInv ==
  /\ SpaceTypes
  /\ WritesFit
  /\ step = "download" => Clusters(ZipSize[cur]) <= free
  /\ step = "write" => Clusters(Size[zip][file]) <= free

IInv ==
  /\ TypeOK
  /\ SpaceInv
  /\ VersionsInv
  /\ PackMatchesVersion
  /\ LostVersionOnWholePack
  /\ BetweenInv
  /\ ExtractInv
  /\ RemoveInv
  /\ VersionInv
  /\ ReportIsTrue

-----------------------------------------------------------------------------
LEMMA Division ==
  ASSUME NEW a \in Nat, NEW n \in Nat \ {0}
  PROVE  a \div n \in Nat /\ (a \div n) * n <= a
OBVIOUS

(* What fits in bytes fits in clusters.                                    *)
LEMMA RoundedFits ==
  ASSUME NEW bytes \in Nat
  PROVE  /\ Clusters(bytes) \in Nat
         /\ \A c \in Nat : ~Exceeds(bytes, c) => Clusters(bytes) <= c
<1> DEFINE q == Clusters(bytes)
<1> USE UpdateAssumption
<1>1. Cluster \in Nat /\ Cluster > 0
  OBVIOUS
<1>2. q \in Nat /\ q * Cluster <= bytes + Cluster - 1
  <2>1. bytes + Cluster - 1 \in Nat
    BY <1>1
  <2> QED
    BY <2>1, <1>1, Division DEF Clusters
<1>3. ASSUME NEW c \in Nat, ~Exceeds(bytes, c)
      PROVE  q <= c
  <2>1. bytes <= c * Cluster
    BY <1>3, <1>1 DEF Exceeds
  <2>2. SUFFICES ASSUME q >= c + 1
                 PROVE  FALSE
    BY <1>2
  <2>3. q * Cluster >= (c + 1) * Cluster
    <3> DEFINE d == q - (c + 1)
    <3>1. d \in Nat
      BY <2>2, <1>2
    <3>2. d * Cluster >= 0
      BY <3>1, <1>1
    <3>3. q * Cluster = (c + 1) * Cluster + d * Cluster
      BY <1>1, <1>2
    <3> QED
      BY <3>2, <3>3, <1>1, <1>2, <3>1
  <2>4. (c + 1) * Cluster = c * Cluster + Cluster
    BY <1>1
  <2> QED
    BY <2>1, <2>3, <2>4, <1>1, <1>2
<1> QED
  BY <1>2, <1>3

LEMMA InitInv == Init => IInv
<1> SUFFICES ASSUME Init PROVE IInv
  OBVIOUS
<1> USE UpdateAssumption DEF Init, Installing, Updating, Steps, Releases, Contents, HoldsRelease, history
<1>1. SpaceInv
  <2>1. \A f \in Files : Clusters(Size[0][f]) \in Nat
    <3>1. \A f \in Files : Size[0][f] \in Nat
      OBVIOUS
    <3> QED
      BY <3>1, RoundedFits
  <2> QED
    BY <2>1 DEF SpaceInv, SpaceTypes, WritesFit
<1>2. TypeOK
  <2>1. card \in [Files -> Contents]
    BY DEF Contents
  <2>2. card \in [Files -> Contents \cup {Partial}]
    BY <2>1
  <2>3. versionTxt \in 0 .. Latest /\ cur \in 1 .. Latest + 1 /\ faults \in 0 .. MaxFaults
    OBVIOUS
  <2>4. seen \in 0 .. Latest /\ removals \in 0 .. Latest /\ listed \in 0 .. Latest
    OBVIOUS
  <2> QED
    BY <1>1, <2>2, <2>3, <2>4 DEF TypeOK, SpaceInv
<1>3. VersionsInv /\ BetweenInv /\ ExtractInv /\ RemoveInv /\ VersionInv
  BY DEF VersionsInv, BetweenInv, ExtractInv, RemoveInv, VersionInv
<1>4. PackMatchesVersion /\ LostVersionOnWholePack /\ ReportIsTrue
  BY DEF PackMatchesVersion, LostVersionOnWholePack, ReportIsTrue
<1> QED
  BY <1>1, <1>2, <1>3, <1>4 DEF IInv

(* The sizes at hand are numbers.                                          *)
LEMMA SizesAtHand ==
  ASSUME IInv
  PROVE  /\ step \in Installing \cup {"next", "download", "archive"} /\ cur <= seen
              => cur \in Releases /\ ZipSize[cur] \in Nat /\ Clusters(ZipSize[cur]) \in Nat
         /\ \A f \in Files : step \in {"extract", "write"} =>
              /\ zip = cur
              /\ Size[cur][f] \in Nat
              /\ Clusters(Size[cur][f]) \in Nat
         /\ step = "write" => file \in Files
         /\ step \in {"download", "archive", "extract", "write"} => cur <= seen
<1> USE UpdateAssumption DEF IInv, TypeOK, Installing, Updating, Releases
<1>1. \A v \in Releases : ZipSize[v] \in Nat
  OBVIOUS
<1>2. \A v \in Releases, f \in Files : Size[v][f] \in Nat
  <2>1. \A v \in Releases : v \in 0 .. Latest
    OBVIOUS
  <2> QED
    BY <2>1
<1>3. cur <= seen => cur \in Releases
  OBVIOUS
<1>4. step \in {"download", "archive", "extract", "write"} => cur <= seen
  BY DEF VersionsInv
<1>5. step \in {"extract", "write"} => zip = cur
  BY DEF ExtractInv
<1>6. step = "write" => file \in Files
  BY <1>3, <1>4 DEF ExtractInv
<1> HIDE UpdateAssumption DEF IInv, TypeOK
<1> QED
  BY <1>1, <1>2, <1>3, <1>4, <1>5, <1>6, RoundedFits

(* Every step keeps the account of the space.                              *)
LEMMA SpaceStep ==
  ASSUME IInv, [Next]_vars
  PROVE  SpaceInv'
<1>1. SpaceInv
  BY DEF IInv
<1> USE <1>1, SizesAtHand DEF SpaceInv, SpaceTypes, WritesFit
<1>2. ASSUME UNCHANGED space, step' \notin {"download", "write"}
      PROVE  SpaceInv'
  BY <1>2 DEF space
<1>3. CASE NextUpdate
  <2>1. UNCHANGED space /\ cur' = cur /\ step' # "write"
    BY <1>3 DEF NextUpdate, work
  <2>2. ASSUME step' = "download"
        PROVE  Clusters(ZipSize[cur]) <= free
    <3>1. step = "next" /\ ~(cur > seen) /\ ~Exceeds(ZipSize[cur], free)
      BY <1>3, <2>2 DEF NextUpdate
    <3>2. cur <= seen
      BY <3>1, UpdateAssumption DEF IInv, TypeOK
    <3>3. ZipSize[cur] \in Nat /\ free \in Nat
      BY <3>1, <3>2
    <3> QED
      BY <3>1, <3>3, RoundedFits
  <2> QED
    BY <2>1, <2>2 DEF space
<1>4. CASE LengthMissing
  BY <1>4 DEF LengthMissing, space, work, Exceeds
<1>5. CASE Download
  BY <1>5 DEF Download
<1>5a. CASE ZipCloseFails
  BY <1>5a DEF ZipCloseFails, work
<1>5b. CASE FileCloseFails
  BY <1>5b DEF FileCloseFails, work
<1>6. ASSUME NEW f \in Files, OpenFile(f)
      PROVE  SpaceInv'
  <2>1. Clusters(Size[cur][f]) <= free /\ Clusters(Size[cur][f]) \in Nat
    BY <1>6, RoundedFits DEF OpenFile
  <2> QED
    BY <1>6, <2>1 DEF OpenFile
<1>7. CASE WriteFile
  BY <1>7 DEF WriteFile, work
<1>8. CASE RemoveZip
  BY <1>8 DEF RemoveZip
<1>9. ASSUME NEW f \in Files, RemoveFile(f)
      PROVE  SpaceInv'
  BY <1>9 DEF RemoveFile
<1>10. CASE Fail \/ PowerLoss
  <2>1. CutShort /\ step' \notin {"download", "write"}
    BY <1>10 DEF Fail, PowerLoss
  <2>2. CASE step = "download"
    BY <2>1, <2>2 DEF CutShort, space, work, Installing
  <2>3. CASE step = "write"
    BY <2>1, <2>3 DEF CutShort, space, work, Installing
  <2>4. CASE step \notin {"download", "write"}
    BY <2>1, <2>4, <1>2 DEF CutShort
  <2> QED
    BY <2>2, <2>3, <2>4
<1>11. CASE Publish
  BY <1>11 DEF Publish, space, work
<1>12. CASE \/ Boot \/ Launch \/ Quit \/ CheckUpdates \/ Decline \/ Accept \/ ShutDown
  BY <1>12, <1>2 DEF Boot, Launch, Quit, CheckUpdates, Decline, Accept, ShutDown
<1>13. CASE \/ RejectArchive \/ OpenArchive \/ OpenVersion \/ WriteVersion
            \/ \E f \in Files : RefuseFile(f)
  BY <1>13, <1>2 DEF RejectArchive, OpenArchive, OpenVersion, WriteVersion, RefuseFile
<1>14. CASE UNCHANGED vars
  BY <1>14 DEF vars
<1> HIDE SizesAtHand DEF SpaceInv, SpaceTypes, WritesFit
<1> QED
  BY <1>3, <1>4, <1>5, <1>5a, <1>5b, <1>6, <1>7, <1>8, <1>9, <1>10, <1>11, <1>12,
     <1>13, <1>14 DEF Next, Install, BootFails

(* What only moves the launcher or the server.                             *)
LEMMA MovesInv ==
  ASSUME IInv, SpaceInv',
         \/ Publish \/ Boot \/ BootFails \/ Launch \/ Quit \/ CheckUpdates
         \/ Decline \/ Accept \/ NextUpdate \/ ShutDown \/ LengthMissing
  PROVE  IInv'
<1>0. SpaceTypes'
  BY DEF SpaceInv
<1> USE <1>0
<1> USE UpdateAssumption DEF IInv, TypeOK, VersionsInv, PackMatchesVersion, LostVersionOnWholePack,
     BetweenInv, ExtractInv, RemoveInv, VersionInv, ReportIsTrue, HoldsRelease, history,
     Installing, Updating, Steps, Releases, Contents
<1>1. CASE Publish
  BY <1>1 DEF Publish, work
<1>2. CASE Boot
  BY <1>2 DEF Boot, work
<1>3. CASE BootFails
  BY <1>3 DEF BootFails, vars
<1>4. CASE Launch
  BY <1>4 DEF Launch, work
<1>5. CASE Quit
  BY <1>5 DEF Quit, work
<1>6. CASE CheckUpdates
  BY <1>6 DEF CheckUpdates
<1>7. CASE Decline
  BY <1>7 DEF Decline, work
<1>8. CASE Accept
  BY <1>8 DEF Accept
<1>9. CASE NextUpdate
  BY <1>9 DEF NextUpdate, work
<1>10. CASE ShutDown
  BY <1>10 DEF ShutDown, work
<1>11. CASE LengthMissing
  BY <1>11 DEF LengthMissing, work
<1> QED
  BY <1>1, <1>2, <1>3, <1>4, <1>5, <1>6, <1>7, <1>8, <1>9, <1>10, <1>11

(* An error or a power loss keeps everything but the exact ZIP.            *)
LEMMA FaultsInv ==
  ASSUME IInv, SpaceInv', Fail \/ PowerLoss
  PROVE  IInv'
<1>0. SpaceTypes'
  BY DEF SpaceInv
<1> USE <1>0
<1>1. /\ CutShort
      /\ step' \in {"idle", "off"}
  BY DEF Fail, PowerLoss
<1>2. zip' \in {zip, Partial}
  <2> USE <1>1 DEF CutShort
  <2>1. CASE step = "download"
    BY <2>1 DEF space
  <2>2. CASE step = "write"
    BY <2>2
  <2>3. CASE step \notin {"download", "write"}
    BY <2>3
  <2> QED
    BY <2>1, <2>2, <2>3
<1>3. /\ faults < MaxFaults /\ faults' = faults + 1
      /\ cut' = (cut \/ step \in Installing)
      /\ UNCHANGED <<card, versionTxt, listed, work, damaged>>
  BY <1>1 DEF CutShort
<1>4. faults' \in 0 .. MaxFaults /\ cut' \in BOOLEAN
  BY <1>3, UpdateAssumption DEF IInv, TypeOK
<1> USE <1>1, <1>2, <1>3, <1>4, UpdateAssumption
    DEF IInv, work, Installing, Updating, Steps, Releases, Contents, HoldsRelease, history
<1>5. TypeOK'
  BY DEF TypeOK
<1>6. VersionsInv' /\ ExtractInv' /\ RemoveInv' /\ VersionInv' /\ ReportIsTrue'
  BY DEF VersionsInv, ExtractInv, RemoveInv, VersionInv, ReportIsTrue
<1>7. BetweenInv'
  BY DEF BetweenInv, TypeOK
<1>8. PackMatchesVersion' /\ LostVersionOnWholePack'
  BY DEF PackMatchesVersion, LostVersionOnWholePack
<1> QED
  BY <1>5, <1>6, <1>7, <1>8

(* The steps of one installation.                                          *)
LEMMA InstallInv ==
  ASSUME IInv, SpaceInv',
         \/ Download \/ ZipCloseFails \/ RejectArchive \/ OpenArchive \/ WriteFile
         \/ FileCloseFails \/ RemoveZip \/ OpenVersion \/ WriteVersion
         \/ \E f \in Files : OpenFile(f) \/ RefuseFile(f) \/ RemoveFile(f)
  PROVE  IInv'
<1>0. SpaceTypes'
  BY DEF SpaceInv
<1> USE <1>0
<1> USE UpdateAssumption DEF IInv, TypeOK, VersionsInv, PackMatchesVersion, LostVersionOnWholePack,
     BetweenInv, ExtractInv, RemoveInv, VersionInv, ReportIsTrue, HoldsRelease, history,
     Installing, Updating, Steps, Releases, Contents
<1>1. CASE Download
  BY <1>1 DEF Download
<1>2. ASSUME NEW f \in Files, OpenFile(f)
      PROVE  IInv'
  <2> USE <1>2 DEF OpenFile
  <2>1. cur \in Releases /\ versionTxt = cur - 1
    OBVIOUS
  <2>2. TypeOK'
    <3>1. card' \in [Files -> Contents \cup {Partial}]
      OBVIOUS
    <3> QED
      BY <3>1
  <2>3. VersionsInv' /\ BetweenInv' /\ RemoveInv' /\ VersionInv' /\ ReportIsTrue'
    OBVIOUS
  <2>4. PackMatchesVersion' /\ LostVersionOnWholePack'
    BY <2>1
  <2>5. ExtractInv'
    OBVIOUS
  <2> QED
    BY <2>2, <2>3, <2>4, <2>5
<1>3. CASE WriteFile
  BY <1>3 DEF WriteFile, work
<1>3a. CASE FileCloseFails
  <2> USE <1>3a DEF FileCloseFails, work
  <2>1. cur \in Releases /\ versionTxt = cur - 1 /\ file \in Files
    OBVIOUS
  <2>2. damaged' \subseteq Files /\ \A f \in Files \ damaged' : f \in Files \ damaged
    BY <2>1
  <2>3. TypeOK'
    BY <2>2
  <2>4. VersionsInv' /\ BetweenInv' /\ RemoveInv' /\ VersionInv' /\ ReportIsTrue'
    OBVIOUS
  <2>5. PackMatchesVersion' /\ LostVersionOnWholePack'
    BY <2>2
  <2>6. ExtractInv'
    BY <2>2
  <2> QED
    BY <2>3, <2>4, <2>5, <2>6
<1>3b. CASE ZipCloseFails
  BY <1>3b DEF ZipCloseFails, work
<1>3c. CASE RejectArchive
  BY <1>3c DEF RejectArchive, work
<1>4. CASE RemoveZip
  <2> USE <1>4 DEF RemoveZip
  <2>1. cur \in Releases /\ removals >= cur /\ left' = Removes[cur]
    OBVIOUS
  <2>2. TypeOK'
    BY <2>1
  <2>3. VersionsInv' /\ BetweenInv' /\ VersionInv' /\ ReportIsTrue'
    BY <2>1
  <2>4. PackMatchesVersion' /\ LostVersionOnWholePack'
    OBVIOUS
  <2>5. RemoveInv'
    <3>1. ASSUME NEW f \in Files \ (Removes[cur] \cup damaged)
          PROVE  card[f] = Pack[cur][f]
      <4>1. versionTxt = cur - 1 /\ versionTxt + 1 = cur /\ versionTxt \in 0 .. Latest
        BY <2>1
      <4>2. CASE f \in Ships[cur]
        <5>1. card[f] = cur
          BY <4>2
        <5>2. Pack[cur][f] = cur
          BY <2>1, <4>2
        <5> QED
          BY <5>1, <5>2
      <4>3. CASE f \notin Ships[cur]
        <5>1. card[f] = Pack[versionTxt][f]
          BY <4>1, <4>3
        <5>2. Pack[cur][f] = Pack[cur - 1][f]
          BY <2>1, <4>3
        <5> QED
          BY <5>1, <5>2, <4>1
      <4> QED
        BY <4>2, <4>3
    <3> QED
      BY <2>1, <3>1
  <2>6. ExtractInv'
    OBVIOUS
  <2> QED
    BY <2>2, <2>3, <2>4, <2>5, <2>6
<1>5. ASSUME NEW f \in Files, RemoveFile(f)
      PROVE  IInv'
  <2> USE <1>5 DEF RemoveFile
  <2>1. cur \in Releases /\ f \in Removes[cur]
    OBVIOUS
  <2>2. TypeOK'
    <3>1. card' \in [Files -> Contents \cup {Partial}]
      OBVIOUS
    <3> QED
      BY <3>1
  <2>3. VersionsInv' /\ BetweenInv' /\ ExtractInv' /\ VersionInv' /\ ReportIsTrue'
    OBVIOUS
  <2>4. PackMatchesVersion' /\ LostVersionOnWholePack'
    BY <2>1
  <2>5. RemoveInv'
    <3>1. Pack[cur][f] = Absent
      BY <2>1
    <3>2. \A g \in Files : card'[g] = IF g = f THEN Absent ELSE card[g]
      OBVIOUS
    <3>3. \A g \in Files \ (left' \cup damaged') : card'[g] = Pack[cur][g]
      BY <3>1, <3>2
    <3> QED
      BY <3>3
  <2> QED
    BY <2>2, <2>3, <2>4, <2>5
<1>6. CASE OpenVersion
  BY <1>6 DEF OpenVersion, work
<1>7. CASE WriteVersion
  <2> USE <1>7 DEF WriteVersion
  <2>1. cur \in Releases /\ cur <= seen /\ seen \in Nat /\ cur + 1 \in 1 .. Latest + 1
    OBVIOUS
  <2>2. TypeOK'
    <3>1. versionTxt' \in (0 .. Latest) \cup {Empty}
      BY <2>1
    <3>2. cur' \in 1 .. Latest + 1
      BY <2>1
    <3>3. cut' \in BOOLEAN /\ step' \in Steps
      OBVIOUS
    <3> QED
      BY <3>1, <3>2, <3>3
  <2>3. VersionsInv'
    BY <2>1
  <2>4. PackMatchesVersion' /\ LostVersionOnWholePack'
    BY <2>1
  <2>5. BetweenInv'
    BY <2>1
  <2>6. ExtractInv' /\ RemoveInv' /\ VersionInv' /\ ReportIsTrue'
    BY <2>1
  <2> QED
    BY <2>2, <2>3, <2>4, <2>5, <2>6
<1>8. CASE OpenArchive
  BY <1>8 DEF OpenArchive
<1>9. ASSUME NEW f \in Files, RefuseFile(f)
      PROVE  IInv'
  BY <1>9 DEF RefuseFile, work
<1> HIDE UpdateAssumption DEF IInv
<1>10. CASE \E f \in Files : OpenFile(f) \/ RefuseFile(f) \/ RemoveFile(f)
  <2>1. PICK f \in Files : OpenFile(f) \/ RefuseFile(f) \/ RemoveFile(f)
    BY <1>10, Zenon
  <2> QED
    BY <2>1, <1>2, <1>5, <1>9, Zenon
<1> QED
  BY <1>1, <1>3, <1>3a, <1>3b, <1>3c, <1>4, <1>6, <1>7, <1>8, <1>10, Zenon

LEMMA NextInv ==
  ASSUME IInv, [Next]_vars
  PROVE  IInv'
<1>1. CASE Next
  BY <1>1, SpaceStep, MovesInv, FaultsInv, InstallInv DEF Next, Install
<1>2. CASE UNCHANGED vars
  <2>1. SpaceInv' /\ SpaceTypes'
    BY SpaceStep DEF SpaceInv
  <2> QED
  BY <1>2, <2>1, UpdateAssumption
    DEF vars, work, history, IInv, TypeOK, VersionsInv, PackMatchesVersion, LostVersionOnWholePack,
        BetweenInv, ExtractInv, RemoveInv, VersionInv, ReportIsTrue, HoldsRelease
<1> QED
  BY <1>1, <1>2

LEMMA Invariance == Spec => []IInv
BY InitInv, NextInv, PTL DEF Spec

-----------------------------------------------------------------------------
(* Types, in particular: the release being installed is always one of the  *)
(* manifest, or the one after the last (update_versions[] is not overrun). *)
THEOREM TypeCorrect == Spec => []TypeOK
BY Invariance, PTL DEF IInv

(* Whatever releases there are and wherever updates are interrupted, the   *)
(* card differs from the release of version.txt in nothing but what the    *)
(* next release writes or deletes (update.c:578-613) and what failed calls *)
(* of fclose (update.c:510) have damaged.                                  *)
THEOREM UpdatesAreResumable == Spec => []PackMatchesVersion
BY Invariance, PTL DEF IInv

(* version.txt is emptied only over a release that is whole but for        *)
(* damaged files (update.c:87-98).                                         *)
THEOREM OnlyVersionIsLost == Spec => []LostVersionOnWholePack
BY Invariance, PTL DEF IInv

(* Where no attempt was cut short after the last whole installation, the   *)
(* game runs on a release whole but for damaged files (main.c:251-258,     *)
(* 409).                                                                   *)
THEOREM GameRunsOnWholePack == Spec => []GameOnWholePack
<1>1. IInv => GameOnWholePack
  BY DEF IInv, BetweenInv, GameOnWholePack, Installing, HoldsRelease
<1> QED
  BY <1>1, Invariance, PTL

(* "%d updates were installed" is shown only when all of them are, but for *)
(* damaged files (update.c:719-721, main.c:251-258).                       *)
THEOREM ReportsAreTrue == Spec => []ReportIsTrue
BY Invariance, PTL DEF IInv

(* Whatever sizes ZIPs, files and clusters have and whatever errors leave  *)
(* on the card, nothing is written that does not fit, with or without a    *)
(* Content-Length (update.c:413, 450, 571).                                *)
THEOREM WritesAlwaysFit == Spec => []WritesFit
BY Invariance, PTL DEF IInv, SpaceInv

-----------------------------------------------------------------------------
(* A lost version leaves the release it was written for, and the launcher  *)
(* does nothing to the card any more.                                      *)
LostInv ==
  versionTxt = Empty =>
    /\ step \in {"version", "idle", "off", "game"}
    /\ cur \in Releases
    /\ HoldsRelease(cur)

LEMMA LostStep ==
  ASSUME IInv, LostInv, [Next]_vars
  PROVE  LostInv'
<1>1. IInv'
  BY NextInv
<1>2. CASE OpenVersion
  <2>1. step' = "version" /\ UNCHANGED <<card, damaged>> /\ cur' = cur
    BY <1>2 DEF OpenVersion, work, history
  <2>2. cur \in Releases
    BY <1>2, UpdateAssumption DEF OpenVersion, IInv, TypeOK, VersionsInv, Installing, Releases
  <2>3. HoldsRelease(cur)'
    BY <1>1, <2>1 DEF IInv, VersionInv, HoldsRelease
  <2> QED
    BY <2>1, <2>2, <2>3 DEF LostInv, HoldsRelease
<1>3. CASE WriteVersion
  <2>1. versionTxt' \in Releases
    BY <1>3, UpdateAssumption DEF WriteVersion, IInv, TypeOK, VersionsInv, Installing, Releases
  <2> QED
    BY <2>1, UpdateAssumption DEF LostInv, Releases
<1>4. ASSUME UNCHANGED <<versionTxt, cur, card, damaged>>,
             versionTxt = Empty => step' \in {"version", "idle", "off", "game"}
      PROVE  LostInv'
  BY <1>4 DEF LostInv, HoldsRelease
<1>5. ASSUME versionTxt' = versionTxt, versionTxt # Empty
      PROVE  LostInv'
  BY <1>5 DEF LostInv
<1>6. CASE versionTxt = Empty /\ ~OpenVersion /\ ~WriteVersion
  <2>1. step \in {"version", "idle", "off", "game"}
    BY <1>6 DEF LostInv
  <2>2. CASE Publish \/ Boot \/ BootFails \/ Launch \/ Quit \/ CheckUpdates \/ Decline \/ Accept
    BY <1>4, <1>6, <2>1, <2>2
       DEF Publish, Boot, BootFails, Launch, Quit, CheckUpdates, Decline, Accept, work,
           history, vars
  <2>3. CASE ShutDown \/ LengthMissing \/ Install \/ ZipCloseFails \/ FileCloseFails
    BY <1>6, <2>1, <2>3
       DEF ShutDown, LengthMissing, Install, NextUpdate, Download, RejectArchive, OpenArchive,
           WriteFile, ZipCloseFails, FileCloseFails,
           RemoveZip, OpenFile, RefuseFile, RemoveFile
  <2>4. CASE Fail \/ PowerLoss
    BY <1>4, <2>4 DEF Fail, PowerLoss, CutShort, Updating, work
  <2>5. CASE UNCHANGED vars
    BY <1>4, <2>1, <2>5 DEF vars, work, history
  <2> QED
    BY <2>2, <2>3, <2>4, <2>5 DEF Next
<1>7. CASE versionTxt # Empty /\ ~OpenVersion /\ ~WriteVersion
  <2>1. versionTxt' = versionTxt
    BY <1>7 DEF Next, Install, Publish, Boot, BootFails, Launch, Quit, CheckUpdates, Decline,
      Accept, ShutDown, LengthMissing, NextUpdate, Download, RejectArchive, OpenArchive,
           WriteFile, ZipCloseFails, FileCloseFails,
      RemoveZip, OpenFile, RefuseFile, RemoveFile, Fail, PowerLoss, CutShort, vars
  <2> QED
    BY <1>5, <1>7, <2>1
<1> QED
  BY <1>2, <1>3, <1>6, <1>7

-----------------------------------------------------------------------------
(* A file is opened, written or removed: the next release's files change.  *)
LEMMA ChangeAbs ==
  ASSUME IInv, WriteFile \/ \E f \in Files : OpenFile(f) \/ RemoveFile(f)
  PROVE  Abs!Next
<1>1. /\ step \in {"extract", "write", "remove"}
      /\ UNCHANGED <<versionTxt, cur>>
  BY DEF WriteFile, OpenFile, RemoveFile, work
<1>2. /\ versionTxt # Empty /\ cur = versionTxt + 1
      /\ cur \in Releases /\ versionTxt \in Nat /\ versionTxt < Latest
  BY <1>1, UpdateAssumption DEF IInv, TypeOK, VersionsInv, Installing, Updating, Releases
<1>3. Ships[cur] \subseteq Files /\ Removes[cur] \subseteq Files
  BY <1>2, UpdateAssumption
<1> DEFINE Shipped(f) ==
      /\ f \in Ships[cur]
      /\ \E c \in {Partial, cur} : card' = [card EXCEPT ![f] = c]
      /\ damaged' = damaged \ {f}
    Removed(f) ==
      /\ f \in Removes[cur]
      /\ card' = [card EXCEPT ![f] = Absent]
      /\ damaged' = damaged \ {f}
<1>4. \A f \in Files : Shipped(f) \/ Removed(f) => Abs!Change(f)
  BY <1>1, <1>2 DEF Abs!Change
<1>5. ASSUME NEW f \in Files, OpenFile(f)
      PROVE  Shipped(f)
  <2>1. /\ f \in Ships[cur] /\ card' = [card EXCEPT ![f] = Partial]
        /\ damaged' = damaged \ {f}
    BY <1>5 DEF OpenFile, IInv, ExtractInv
  <2> QED
    BY <2>1
<1>6. CASE WriteFile
  <2>1. file \in Ships[cur] /\ card' = [card EXCEPT ![file] = cur]
    BY <1>6 DEF WriteFile, IInv, ExtractInv
  <2>1a. damaged' = damaged \ {file}
    BY <1>6 DEF WriteFile, history, IInv, ExtractInv
  <2>2. Shipped(file)
    BY <2>1, <2>1a
  <2> HIDE DEF Shipped
  <2> QED
    BY <2>1, <2>2, <1>3, <1>4 DEF Abs!Next
<1>7. ASSUME NEW f \in Files, RemoveFile(f)
      PROVE  Removed(f)
  BY <1>7 DEF RemoveFile, IInv, RemoveInv
<1> HIDE DEF Shipped, Removed
<1> QED
  BY <1>4, <1>5, <1>6, <1>7 DEF Abs!Next

(* A file whose fclose fails is damaged.                                   *)
LEMMA DamageAbs ==
  ASSUME IInv, FileCloseFails
  PROVE  Abs!Next
<1>1. /\ versionTxt # Empty /\ cur = versionTxt + 1
      /\ cur \in Releases /\ versionTxt \in Nat /\ versionTxt < Latest
  BY UpdateAssumption
     DEF FileCloseFails, IInv, TypeOK, VersionsInv, Installing, Updating, Releases
<1>2. /\ file \in Ships[cur] /\ card[file] = Partial
      /\ damaged' = damaged \cup {file}
      /\ UNCHANGED <<card, versionTxt, cur>>
  BY DEF FileCloseFails, work, IInv, ExtractInv
<1>3. Abs!Damage(file)
  BY <1>1, <1>2 DEF Abs!Damage
<1>4. file \in Files
  BY <1>1, <1>2, UpdateAssumption
<1> QED
  BY <1>3, <1>4 DEF Abs!Next

(* version.txt is emptied over the whole next release ...                  *)
LEMMA OpenVersionAbs ==
  ASSUME IInv, LostInv', OpenVersion
  PROVE  Abs!Finish
<1>1. /\ versionTxt # Empty /\ cur = versionTxt + 1
      /\ versionTxt \in Nat /\ versionTxt < Latest
  BY UpdateAssumption DEF OpenVersion, IInv, TypeOK, VersionsInv, Installing, Updating, Releases
<1>2. versionTxt' = Empty /\ UNCHANGED <<card, damaged, cur>>
  BY DEF OpenVersion, work, history
<1>3. \A f \in Files \ damaged : card[f] = Pack[cur][f]
  BY <1>2 DEF LostInv, HoldsRelease
<1> QED
  BY <1>1, <1>2, <1>3 DEF Abs!Finish

(* ... and written with that release.                                      *)
LEMMA WriteVersionAbs ==
  ASSUME IInv, WriteVersion
  PROVE  Abs!Name
<1>1. versionTxt = Empty /\ versionTxt' = cur /\ UNCHANGED <<card, damaged>>
  BY DEF WriteVersion, IInv, VersionsInv
<1>2. cur # Empty
  BY UpdateAssumption DEF WriteVersion, IInv, TypeOK, VersionsInv, Installing
<1> QED
  BY <1>1, <1>2 DEF Abs!Name

(* Nothing else changes what UpdateAbs shows.                              *)
LEMMA NextAbs ==
  ASSUME IInv, LostInv, [Next]_vars
  PROVE  [Abs!Next]_Abs!vars
<1>1. CASE WriteFile \/ \E f \in Files : OpenFile(f) \/ RemoveFile(f)
  BY <1>1, ChangeAbs
<1>1a. CASE FileCloseFails
  BY <1>1a, DamageAbs
<1>2. CASE OpenVersion
  BY <1>2, LostStep, OpenVersionAbs DEF Abs!Next
<1>3. CASE WriteVersion
  BY <1>3, WriteVersionAbs DEF Abs!Next
<1>4. ASSUME UNCHANGED <<card, damaged, versionTxt>>, versionTxt # Empty \/ cur' = cur
      PROVE  UNCHANGED Abs!vars
  BY <1>4 DEF Abs!vars
<1>5. CASE \/ Publish \/ Boot \/ BootFails \/ Launch \/ Quit \/ CheckUpdates \/ Decline
           \/ Accept \/ ShutDown \/ LengthMissing \/ UNCHANGED vars
  BY <1>4, <1>5 DEF Publish, Boot, BootFails, Launch, Quit, CheckUpdates, Decline, Accept,
     ShutDown, LengthMissing, vars, work, history
<1>6. CASE \/ NextUpdate \/ Download \/ ZipCloseFails \/ RejectArchive \/ OpenArchive
           \/ RemoveZip
           \/ \E f \in Files : RefuseFile(f)
  BY <1>4, <1>6 DEF NextUpdate, Download, ZipCloseFails, RejectArchive, OpenArchive,
     RemoveZip, RefuseFile, work, history
<1>7. CASE Fail \/ PowerLoss
  BY <1>4, <1>7 DEF Fail, PowerLoss, CutShort, work
<1> QED
  BY <1>1, <1>1a, <1>2, <1>3, <1>5, <1>6, <1>7 DEF Next, Install

(* However often an update fails or loses power, and whatever lists are    *)
(* fetched, the card goes from release to release as UpdateAbs says        *)
(* (update.c:575-613): none is skipped, and none is taken back.            *)
THEOREM ImplementsAbs == Spec => AbsSpec
<1>1. Init => Abs!Init /\ LostInv
  BY UpdateAssumption DEF Init, Abs!Init, LostInv
<1>2. LostInv /\ IInv /\ [Next]_vars => LostInv'
  BY LostStep
<1>3. LostInv /\ IInv /\ [Next]_vars => [Abs!Next]_Abs!vars
  BY NextAbs
<1> QED
  BY <1>1, <1>2, <1>3, Invariance, PTL DEF Spec, AbsSpec, Abs!Spec
=============================================================================

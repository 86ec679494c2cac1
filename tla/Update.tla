------------------------------- MODULE Update -------------------------------
(***************************************************************************)
(* Updating the pack on the SD card (source/update/update.c), across       *)
(* errors, power loss and later attempts.                                  *)
(*                                                                         *)
(* The server lists releases in the order they build on each other; an     *)
(* update installs, one after another, every release newer than the one    *)
(* version.txt names: download the ZIP, extract it, remove the ZIP, remove *)
(* the files the release deletes, write version.txt.                       *)
(*                                                                         *)
(* The card gives room in whole clusters.  Directories and version.txt are *)
(* taken to have theirs.                                                   *)
(***************************************************************************)
EXTENDS Integers, FiniteSetsExt

CONSTANTS
  Latest,     \* releases are numbered 1 .. Latest; 0 is the first installation
  Files,      \* the paths on the card that releases write or delete
  Ships,      \* the files in each release's ZIP
  Removes,    \* the files each release deletes
  Pack,       \* what the files of a whole installation of a release hold
  ZipSize,    \* the bytes of each release's ZIP
  Size,       \* the bytes of each file of each release
  Cluster,    \* the bytes of a cluster (f_frsize)
  FreeSpace,  \* how many clusters may be free at first
  MaxFaults,  \* bound on the number of errors and power losses
  Absent,     \* there is no such file
  Partial,    \* a file that is truncated or half written
  Empty       \* version.txt, truncated

Releases == 1 .. Latest
Contents == (0 .. Latest) \cup {Absent}

(* A whole installation of a release is that of the release before it with *)
(* the ZIP extracted over it and the deleted files removed.                *)
ASSUME UpdateAssumption ==
  /\ Latest \in Nat
  /\ MaxFaults \in Nat
  /\ Ships \in [Releases -> SUBSET Files]
  /\ Removes \in [Releases -> SUBSET Files]
  /\ Absent \notin 0 .. Latest
  /\ Partial \notin Contents
  /\ Empty \notin 0 .. Latest
  /\ ZipSize \in [Releases -> Nat]
  /\ Size \in [0 .. Latest -> [Files -> Nat]]
  /\ Cluster \in Nat \ {0}
  /\ FreeSpace \subseteq Nat
  /\ Pack \in [0 .. Latest -> [Files -> Contents]]
  /\ \A v \in Releases, f \in Files :
       Pack[v][f] = IF f \in Removes[v] THEN Absent
                    ELSE IF f \in Ships[v] THEN v
                    ELSE Pack[v - 1][f]

VARIABLES
  card,        \* what each file on the card holds: the release that wrote it
  versionTxt,  \* the release version.txt names, or Empty
  used,        \* the clusters of each file on the card
  zipUsed,     \* the clusters of rr.update.zip
  free,        \* the clusters that are free (f_bfree)
  zip,         \* what rr.update.zip holds: a release's ZIP, Partial or Absent
  listed,      \* the server lists the releases 1 .. listed
  step,        \* where the launcher is
  seen,        \* the last release in the manifest that was fetched
  removals,    \* the last release in the list of deleted files that was fetched
  cur,         \* the release being installed, update_versions[current_update_num]
  left,        \* files of the ZIP to extract, or deleted files to remove
  file,        \* the file being extracted
  cut,         \* history: an installation was cut short and not yet repeated
  damaged,     \* history: files whose fclose failed unnoticed, and which have
               \* not been opened or removed since
  faults       \* errors and power losses so far

vars == <<card, versionTxt, used, zipUsed, free, zip, listed, step, seen,
          removals, cur, left, file, cut, damaged, faults>>
space == <<used, zipUsed, free>>
work == <<seen, removals, cur, left, file>>
history == <<cut, damaged>>

Installing == {"extract", "write", "remove", "version"}
Updating == {"next", "download", "archive"} \cup Installing
Steps == {"off", "idle", "asked", "exit", "game"} \cup Updating

SpaceTypes ==
  /\ used \in [Files -> Nat]
  /\ zipUsed \in Nat
  /\ free \in Int

TypeOK ==
  /\ SpaceTypes
  /\ card \in [Files -> Contents \cup {Partial}]
  /\ versionTxt \in (0 .. Latest) \cup {Empty}
  /\ zip \in Releases \cup {Partial, Absent}
  /\ listed \in 0 .. Latest
  /\ step \in Steps
  /\ seen \in 0 .. Latest
  /\ removals \in 0 .. Latest
  /\ cur \in 1 .. Latest + 1
  /\ left \subseteq Files
  /\ file \in Files \cup {Absent}
  /\ cut \in BOOLEAN
  /\ damaged \subseteq Files
  /\ faults \in 0 .. MaxFaults

(* A file takes up whole clusters.                                         *)
Clusters(bytes) == (bytes + Cluster - 1) \div Cluster

Init ==
  /\ card = Pack[0]
  /\ used = [f \in Files |-> IF card[f] = Absent THEN 0 ELSE Clusters(Size[0][f])]
  /\ zipUsed = 0
  /\ free \in FreeSpace
  /\ versionTxt = 0
  /\ zip = Absent
  /\ listed \in 0 .. Latest
  /\ step = "off"
  /\ seen = 0
  /\ removals = 0
  /\ cur = 1
  /\ left = {}
  /\ file = Absent
  /\ cut = FALSE
  /\ damaged = {}
  /\ faults = 0

-----------------------------------------------------------------------------
(* The server publishes the next release: its entries in both lists.       *)
Publish ==
  /\ listed < Latest
  /\ listed' = listed + 1
  /\ UNCHANGED <<card, versionTxt, space, zip, step, work, history, faults>>

(* Every start of the launcher shows the version (rrc_con_display_version) *)
(* and exits with a fatal error if version.txt cannot be read.             *)
Boot ==
  /\ step = "off"
  /\ versionTxt # Empty
  /\ step' = "idle"
  /\ UNCHANGED <<card, versionTxt, space, zip, listed, work, history, faults>>

BootFails ==
  /\ step = "off"
  /\ versionTxt = Empty
  /\ UNCHANGED vars

Launch ==
  /\ step = "idle"
  /\ step' = "game"
  /\ UNCHANGED <<card, versionTxt, space, zip, listed, work, history, faults>>

Quit ==
  /\ step \in {"idle", "game", "exit"}
  /\ step' = "off"
  /\ UNCHANGED <<card, versionTxt, space, zip, listed, work, history, faults>>

(* A faulty CheckUpdates: the version of version.txt counts as newer.      *)
CheckUpdatesInclusive ==
  /\ step = "idle"
  /\ versionTxt # Empty
  /\ seen' = listed
  /\ cur' = versionTxt
  /\ step' = IF versionTxt <= listed THEN "asked" ELSE "idle"
  /\ UNCHANGED <<card, versionTxt, space, zip, listed, removals, left, file, history,
                 faults>>

(* rrc_update_do_updates up to its prompt: fetch the manifest, keep the    *)
(* releases newer than version.txt.  An unreadable version.txt is reported.*)
CheckUpdates ==
  /\ step = "idle"
  /\ versionTxt # Empty
  /\ seen' = listed
  /\ cur' = versionTxt + 1
  /\ step' = IF versionTxt < listed THEN "asked" ELSE "idle"
  /\ UNCHANGED <<card, versionTxt, space, zip, listed, removals, left, file, history,
                 faults>>

(* "Skip", or "No" to a large download.                                    *)
Decline ==
  /\ step = "asked"
  /\ step' = "idle"
  /\ UNCHANGED <<card, versionTxt, space, zip, listed, work, history, faults>>

(* "Update": fetch the list of deleted files.                              *)
Accept ==
  /\ step = "asked"
  /\ removals' = listed
  /\ step' = "next"
  /\ UNCHANGED <<card, versionTxt, space, zip, listed, seen, cur, left, file, history,
                 faults>>

-----------------------------------------------------------------------------
(* What curl says of a download whose length the server does not give.     *)
NoLength == -1

(* A faulty Exceeds: lengths are compared with their signs.                *)
ExceedsSigned(bytes, clusters) == bytes > clusters * Cluster

(* A length is compared with the free space as an unsigned number, of      *)
(* which -1 is the largest.                                                *)
Exceeds(bytes, clusters) == bytes = NoLength \/ bytes > clusters * Cluster

(* A faulty NextUpdate: the last release is left out.                      *)
NextUpdateButLast ==
  /\ step = "next"
  /\ step' = IF cur >= seen THEN "exit"
             ELSE IF Exceeds(ZipSize[cur], free) THEN "idle" ELSE "download"
  /\ UNCHANGED <<card, versionTxt, space, zip, listed, work, history, faults>>

(* One turn of the loop in rrc_update_do_updates_with_state.  The space    *)
(* that an old rr.update.zip takes does not count as free.                 *)
NextUpdate ==
  /\ step = "next"
  /\ step' = IF cur > seen THEN "exit"
             ELSE IF Exceeds(ZipSize[cur], free) THEN "idle" ELSE "download"
  /\ UNCHANGED <<card, versionTxt, space, zip, listed, work, history, faults>>

(* The server does not give the length of the ZIP.                         *)
LengthMissing ==
  /\ step = "next"
  /\ cur <= seen
  /\ faults < MaxFaults
  /\ faults' = faults + 1
  /\ step' = IF Exceeds(NoLength, free) THEN "idle" ELSE "download"
  /\ UNCHANGED <<card, versionTxt, space, zip, listed, work, history>>

(* rrc_shutdown_check between two updates.                                 *)
ShutDown ==
  /\ step = "next"
  /\ cur <= seen
  /\ step' = "off"
  /\ UNCHANGED <<card, versionTxt, space, zip, listed, work, history, faults>>

(* What a release's files add up to.                                       *)
SumOf(v) == MapThenSumSet(LAMBDA f : Size[v][f], Ships[v])

(* A faulty Download: an old rr.update.zip is not overwritten.             *)
DownloadExclusive ==
  /\ step = "download"
  /\ zip = Absent
  /\ zip' = cur
  /\ zipUsed' = Clusters(ZipSize[cur])
  /\ free' = free + zipUsed - zipUsed'
  /\ step' = "archive"
  /\ UNCHANGED <<card, versionTxt, used, listed, seen, removals, cur, left, file,
                 history, faults>>

Download ==
  /\ step = "download"
  /\ zip' = cur
  /\ zipUsed' = Clusters(ZipSize[cur])
  /\ free' = free + zipUsed - zipUsed'
  /\ step' = "archive"
  /\ UNCHANGED <<card, versionTxt, used, listed, seen, removals, cur, left, file,
                 history, faults>>

(* fclose fails for the ZIP (update.c:313): what had not reached the card  *)
(* is missing, and nobody looks.                                           *)
ZipCloseFails ==
  /\ step = "download"
  /\ faults < MaxFaults
  /\ faults' = faults + 1
  /\ \E n \in 0 .. Clusters(ZipSize[cur]) :
       /\ zipUsed' = n
       /\ free' = free + zipUsed - n
  /\ zip' = Partial
  /\ step' = "archive"
  /\ UNCHANGED <<card, versionTxt, used, listed, work, history>>

(* zip_open finds no directory at the end of such a ZIP.                   *)
RejectArchive ==
  /\ step = "archive"
  /\ zip = Partial
  /\ step' = "idle"
  /\ UNCHANGED <<card, versionTxt, space, zip, listed, work, history, faults>>

(* rrc_update_extract_zip_archive compares the sum of the sizes with the   *)
(* free space; when it refuses the update, rr.update.zip stays.            *)
OpenArchive ==
  /\ step = "archive"
  /\ zip # Partial
  /\ IF Exceeds(SumOf(cur), free)
       THEN step' = "idle" /\ left' = left
       ELSE step' = "extract" /\ left' = Ships[cur]
  /\ UNCHANGED <<card, versionTxt, space, zip, listed, seen, removals, cur, file,
                 history, faults>>

(* fopen(..., "w") empties a file that fits, which is whole again once all *)
(* of it is written and closed.                                            *)
OpenFile(f) ==
  /\ step = "extract"
  /\ f \in left
  /\ ~Exceeds(Size[cur][f], free)
  /\ card' = [card EXCEPT ![f] = Partial]
  /\ used' = [used EXCEPT ![f] = 0]
  /\ free' = free + used[f]
  /\ file' = f
  /\ left' = left \ {f}
  /\ damaged' = damaged \ {f}
  /\ step' = "write"
  /\ UNCHANGED <<versionTxt, zipUsed, zip, listed, seen, removals, cur, cut, faults>>

(* For a file that does not fit, the update ends where it is.              *)
RefuseFile(f) ==
  /\ step = "extract"
  /\ f \in left
  /\ Exceeds(Size[cur][f], free)
  /\ cut' = TRUE
  /\ step' = "idle"
  /\ UNCHANGED <<card, versionTxt, space, zip, listed, work, damaged, faults>>

WriteFile ==
  /\ step = "write"
  /\ card' = [card EXCEPT ![file] = zip]
  /\ used' = [used EXCEPT ![file] = Clusters(Size[zip][file])]
  /\ free' = free - used'[file]
  /\ step' = "extract"
  /\ UNCHANGED <<versionTxt, zipUsed, zip, listed, work, history, faults>>

(* fclose fails for the file (update.c:510): what had not reached the card *)
(* is missing, nobody looks, and the extraction goes on.                   *)
FileCloseFails ==
  /\ step = "write"
  /\ faults < MaxFaults
  /\ faults' = faults + 1
  /\ \E n \in 0 .. Clusters(Size[zip][file]) :
       /\ used' = [used EXCEPT ![file] = n]
       /\ free' = free - n
  /\ damaged' = damaged \cup {file}
  /\ step' = "extract"
  /\ UNCHANGED <<card, versionTxt, zipUsed, zip, listed, work, cut>>

(* A faulty RemoveZip: the files the release before deleted are removed.   *)
RemoveZipPrevious ==
  /\ step = "extract"
  /\ left = {}
  /\ zip' = Absent
  /\ zipUsed' = 0
  /\ free' = free + zipUsed
  /\ left' = IF cur \in 2 .. removals THEN Removes[cur - 1] ELSE {}
  /\ step' = "remove"
  /\ UNCHANGED <<card, versionTxt, used, listed, seen, removals, cur, file, history,
                 faults>>

(* The deleted files to remove are those the list has for this release.    *)
RemoveZip ==
  /\ step = "extract"
  /\ left = {}
  /\ zip' = Absent
  /\ zipUsed' = 0
  /\ free' = free + zipUsed
  /\ left' = IF cur <= removals THEN Removes[cur] ELSE {}
  /\ step' = "remove"
  /\ UNCHANGED <<card, versionTxt, used, listed, seen, removals, cur, file, history,
                 faults>>

RemoveFile(f) ==
  /\ step = "remove"
  /\ f \in left
  /\ card' = [card EXCEPT ![f] = Absent]
  /\ used' = [used EXCEPT ![f] = 0]
  /\ free' = free + used[f]
  /\ left' = left \ {f}
  /\ damaged' = damaged \ {f}
  /\ UNCHANGED <<versionTxt, zipUsed, zip, listed, step, seen, removals, cur, file,
                 cut, faults>>

(* Mutants of OpenVersion and WriteVersion: version.txt is written while   *)
(* there are files to remove; it gets the version of the last update.      *)
OpenVersionEarly ==
  /\ step = "remove"
  /\ versionTxt' = Empty
  /\ step' = "version"
  /\ UNCHANGED <<card, space, zip, listed, work, history, faults>>
WriteVersionLast ==
  /\ step = "version"
  /\ versionTxt' = seen
  /\ cur' = cur + 1
  /\ cut' = FALSE
  /\ step' = "next"
  /\ UNCHANGED <<card, space, zip, listed, seen, removals, left, file, damaged,
                 faults>>

(* rrc_update_set_current_version: fopen(..., "w"), then write and close.  *)
OpenVersion ==
  /\ step = "remove"
  /\ left = {}
  /\ versionTxt' = Empty
  /\ step' = "version"
  /\ UNCHANGED <<card, space, zip, listed, work, history, faults>>

WriteVersion ==
  /\ step = "version"
  /\ versionTxt' = cur
  /\ cur' = cur + 1
  /\ cut' = FALSE
  /\ step' = "next"
  /\ UNCHANGED <<card, space, zip, listed, seen, removals, left, file, damaged,
                 faults>>

-----------------------------------------------------------------------------
(* What an error or a power loss leaves of the file being written: any     *)
(* part of it.                                                             *)
CutShort ==
  /\ faults < MaxFaults
  /\ faults' = faults + 1
  /\ cut' = (cut \/ step \in Installing)
  /\ CASE step = "download" ->
            \/ UNCHANGED <<space, zip>>
            \/ \E n \in 0 .. Clusters(ZipSize[cur]) :
                 /\ zip' = Partial
                 /\ zipUsed' = n
                 /\ free' = free + zipUsed - n
                 /\ used' = used
       [] step = "write" ->
            \E n \in 0 .. Clusters(Size[zip][file]) :
              /\ used' = [used EXCEPT ![file] = n]
              /\ free' = free - n
              /\ UNCHANGED <<zip, zipUsed>>
       [] OTHER -> UNCHANGED <<space, zip>>
  /\ UNCHANGED <<card, versionTxt, listed, work, damaged>>

(* Any call that fails ends the update with an error message, after which  *)
(* the launcher goes on: main.c to its launch screen, settings.c to its    *)
(* menu.  Nothing that was done is undone.  Failing to learn the total     *)
(* size is an assertion and ends the launcher.                             *)
Fail ==
  /\ step \in Updating \cup {"asked"}
  /\ CutShort
  /\ step' \in IF step = "asked" THEN {"idle", "off"} ELSE {"idle"}

PowerLoss == step # "off" /\ CutShort /\ step' = "off"

Install ==
  \/ NextUpdate \/ Download \/ RejectArchive \/ OpenArchive \/ WriteFile
  \/ RemoveZip \/ OpenVersion \/ WriteVersion
  \/ \E f \in Files : OpenFile(f) \/ RefuseFile(f) \/ RemoveFile(f)

Next ==
  \/ Publish
  \/ Boot \/ BootFails \/ Launch \/ Quit
  \/ CheckUpdates \/ Decline \/ Accept
  \/ Install \/ ShutDown \/ LengthMissing
  \/ ZipCloseFails \/ FileCloseFails \/ Fail \/ PowerLoss

Spec == Init /\ [][Next]_vars

(* The launcher runs on; it is started again and again, looks for updates  *)
(* at the start (auto_update) and is sooner or later told to install them. *)
Fairness ==
  /\ WF_vars(Install)
  /\ WF_vars(Boot)
  /\ WF_vars(Quit)
  /\ SF_vars(CheckUpdates)
  /\ SF_vars(Accept)
  /\ SF_vars(NextUpdate)

FairSpec == Spec /\ Fairness

-----------------------------------------------------------------------------
(* The card holds release v, but for files damaged by a failed fclose.     *)
HoldsRelease(v) == \A f \in Files \ damaged : card[f] = Pack[v][f]

(* The files on the card are those of the release version.txt names, but   *)
(* for the files that the next release writes or deletes: an interrupted   *)
(* update never touches anything that repeating it does not put right      *)
(* (update.c:578-613).  Nothing else is ever wrong with the card than what *)
(* the fclose nobody looks at (update.c:510) has damaged.                  *)
PackMatchesVersion ==
  versionTxt # Empty =>
    \A f \in Files \ damaged :
      \/ card[f] = Pack[versionTxt][f]
      \/ /\ versionTxt < Latest
         /\ f \in Ships[versionTxt + 1] \cup Removes[versionTxt + 1]

(* When version.txt is lost, what is lost is the version: the card holds a *)
(* release, whole but for damaged files (update.c:87-98 come last).        *)
LostVersionOnWholePack ==
  versionTxt = Empty => \E v \in Releases : HoldsRelease(v)

(* The game runs on a whole pack, also one repaired by a repeated update,  *)
(* unless the last attempt was cut short (update.c:481-513 leave what they *)
(* wrote, main.c:247-250 and settings.c:891-894 go on after the error) or  *)
(* a file is damaged.                                                      *)
GameOnWholePack ==
  step = "game" /\ ~cut => versionTxt # Empty /\ HoldsRelease(versionTxt)

(* "%d updates were installed" (main.c:254): every release of the fetched  *)
(* manifest is installed, whole but for damaged files, and the temporary   *)
(* ZIP is gone.                                                            *)
ReportIsTrue ==
  step = "exit" => versionTxt = seen /\ HoldsRelease(seen) /\ zip = Absent

(* What the report says, and update.h:102: the releases "were actually     *)
(* installed".  It is not so: a file truncated by a failed fclose          *)
(* (update.c:510) counts as installed.                                     *)
InstalledMeansWhole == step = "exit" => card = Pack[seen]

(* No write of the ZIP or of a file ever finds the card full: what is read *)
(* of the free space before, with the length in the server's answer or     *)
(* without it, still holds when the bytes are written, rounded up to       *)
(* clusters (update.c:450, 571).                                           *)
WritesFit == free >= 0

(* The update is refused for lack of space.                                *)
Refused ==
  step \in {"next", "archive", "extract"} /\ step' = "idle" /\ faults' = faults

(* Whatever was cut short, the card ends up with the last release that is  *)
(* listed, or without a version, unless its updates are refused for lack   *)
(* of space over and over (update.c:413, 450, 571).                        *)
EventuallyCurrent ==
  <>[](versionTxt \in {listed, Empty}) \/ []<><<Refused>>_vars

(* The attempts with their errors and power losses implement the promise   *)
(* of UpdateAbs: releases are installed one by one, each whole (but for    *)
(* files damaged unnoticed) before version.txt is touched, and none is     *)
(* ever taken back (update.c:575-613).                                     *)
(* Without a version, the release is the one that was to be written to it. *)
Abs == INSTANCE UpdateAbs WITH
  release <- IF versionTxt = Empty THEN cur ELSE versionTxt,
  known <- versionTxt # Empty
AbsSpec == Abs!Spec
=============================================================================

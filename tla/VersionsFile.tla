---------------------------- MODULE VersionsFile ----------------------------
(***************************************************************************)
(* The two lists the update server publishes (update/versionsfile.c) and   *)
(* the order of versions (versionutils.c): which releases are to be        *)
(* installed, in which order, and which files each of them deletes.        *)
(*                                                                         *)
(* A list has a line "version name" for each entry. A text is a sequence   *)
(* of tokens: versions, names (URLs or paths) and the two separators.      *)
(***************************************************************************)
EXTENDS Integers, Sequences, FiniteSets, SequencesExt

CONSTANTS
  VersionOf,   \* what rrc_version_from_string makes of a version string
  BadVersions, \* the strings it refuses
  Names,       \* URLs and paths
  MaxLines,    \* bound on the lines of a list
  MaxTrailing, \* bound on the line ends after the last line
  SplitLim     \* _RRC_SPLIT_LIM

Versions == [major : Int, minor : Int, patch : Int]

NL == "\n"
SP == " "

(* A token holds no separator.                                            *)
ASSUME VersionsFileAssumption ==
  /\ VersionOf \in [DOMAIN VersionOf -> Versions]
  /\ MaxLines \in Nat /\ MaxTrailing \in Nat /\ SplitLim \in Nat
  /\ {NL, SP} \cap (DOMAIN VersionOf \cup BadVersions \cup Names) = {}
  /\ BadVersions \cap DOMAIN VersionOf = {}

PointerSize == 4
Corrupt == "corrupt"      \* an error result
Undefined == "undefined"  \* an element that is not there is read, or an
                          \* element is written behind the array

VARIABLES
  manifest,  \* the lines of the list of releases and the line ends after them
  removed,   \* the same of the list of deleted files
  current,   \* the installed version
  step,      \* "fetch", "manifest", "removed", "install", "failed"
  updates,   \* update_versions and update_urls
  deletions  \* deleted_files

vars == <<manifest, removed, current, step, updates, deletions>>

-----------------------------------------------------------------------------
(* Versions *)

(* A faulty IsOlder: one lower part makes a version older.                 *)
IsOlderByPart(a, b) ==
  a.major < b.major \/ a.minor < b.minor \/ a.patch < b.patch

IsOlder(a, b) ==
  \/ a.major < b.major
  \/ a.major = b.major /\ a.minor < b.minor
  \/ a.major = b.major /\ a.minor = b.minor /\ a.patch < b.patch

VersionEquals(a, b) ==
  a.major = b.major /\ a.minor = b.minor /\ a.patch = b.patch

(* A faulty Split: the element that ends with the text is forgotten.       *)
SplitUnended(text, by) ==
  LET scan[i \in 0 .. Len(text)] ==
        IF i = 0 THEN [out |-> << >>, start |-> 1]
        ELSE LET acc == scan[i - 1] IN
             IF text[i] = by
               THEN [out |-> Append(acc.out, SubSeq(text, acc.start, i - 1)),
                     start |-> i + 1]
               ELSE acc
  IN scan[Len(text)].out

-----------------------------------------------------------------------------
(* rrc_versionsfile_split_by: an element ends at a separator, or with the  *)
(* text. The elements go to an array of SplitLim bytes.                    *)
Scan(text, by) ==
  LET scan[i \in 0 .. Len(text)] ==
        IF i = 0 THEN [out |-> << >>, start |-> 1]
        ELSE LET acc == scan[i - 1]
                 end == IF text[i] = by THEN i - 1 ELSE i
             IN IF text[i] = by \/ i = Len(text)
                  THEN [out |-> Append(acc.out, SubSeq(text, acc.start, end)),
                        start |-> i + 1]
                  ELSE acc
  IN scan
Split(text, by) == Scan(text, by)[Len(text)].out

Overflows(parts) == Len(parts) * PointerSize > SplitLim

(* What the loop makes of a line: the first part must be a version; the    *)
(* second is the name, used or freed in either case.                       *)
ReadLine(line) ==
  LET parts == Split(line, SP)
  IN  IF parts = << >> THEN Undefined
      ELSE IF Len(parts[1]) # 1 \/ parts[1][1] \notin DOMAIN VersionOf
      THEN Corrupt
      ELSE IF Len(parts) < 2 THEN Undefined
      ELSE "ok"

Entry(line) ==
  LET parts == Split(line, SP)
  IN  [version |-> VersionOf[parts[1][1]], name |-> parts[2][1]]

(* rrc_versionsfile_get_necessary_urls_and_versions on the list of         *)
(* releases, rrc_versionsfile_parse_deleted_files on that of deleted files:*)
(* line after line, an entry newer than the installed version is taken,    *)
(* until one cannot be read.                                               *)
ReadLines(lines, installed) ==
  LET read[i \in 0 .. Len(lines)] ==
        IF i = 0 THEN [result |-> "ok", list |-> << >>]
        ELSE LET prior == read[i - 1] IN
             IF prior.result # "ok" THEN prior
             ELSE IF ReadLine(lines[i]) # "ok"
               THEN [result |-> ReadLine(lines[i]), list |-> << >>]
             ELSE IF IsOlder(installed, Entry(lines[i]).version)
               THEN [result |-> "ok", list |-> Append(prior.list, Entry(lines[i]))]
             ELSE prior
  IN read

ReadList(text, installed) ==
  LET lines == Split(text, NL) IN
  IF Overflows(lines) THEN [result |-> Undefined, list |-> << >>]
                      ELSE ReadLines(lines, installed)[Len(lines)]

-----------------------------------------------------------------------------
(* The server's lists *)

Lines == {<<v, SP, n>> : v \in DOMAIN VersionOf \cup BadVersions, n \in Names}
Lists == [lines : BoundedSeq(Lines, MaxLines), trailing : 0 .. MaxTrailing]

(* The text of a list: its lines, of three tokens each, separated by line  *)
(* ends.                                                                   *)
Text(l) ==
  LET n == Len(l.lines)
      width == IF n = 0 THEN 0 ELSE 4 * n - 1
  IN [p \in 1 .. width + l.trailing |->
       LET k == (p + 3) \div 4
           r == p - 4 * (k - 1)
       IN IF k <= n /\ r <= 3 THEN l.lines[k][r] ELSE NL]

Init ==
  /\ manifest \in Lists
  /\ removed = [lines |-> << >>, trailing |-> 0]
  /\ current \in {VersionOf[v] : v \in DOMAIN VersionOf}
  /\ step = "manifest"
  /\ updates = << >> /\ deletions = << >>

(* Where rrc_update_do_updates goes on with a list.                        *)
After(result, next) ==
  CASE result = "ok" -> next
    [] result = Corrupt -> "failed"
    [] result = Undefined -> Undefined

ReadManifest ==
  LET r == ReadList(Text(manifest), current)
  IN  /\ step = "manifest"
      /\ updates' = r.list
      /\ step' = After(r.result, IF r.list = << >> THEN "current" ELSE "fetch")
      /\ UNCHANGED <<manifest, removed, current, deletions>>

(* The list of deleted files is fetched once the user has agreed.          *)
FetchRemoved ==
  /\ step = "fetch"
  /\ removed' \in Lists
  /\ step' = "removed"
  /\ UNCHANGED <<manifest, current, updates, deletions>>

ReadRemoved ==
  LET r == ReadList(Text(removed), current)
  IN  /\ step = "removed"
      /\ deletions' = r.list
      /\ step' = After(r.result, "install")
      /\ UNCHANGED <<manifest, removed, current, updates>>

Done ==
  /\ step \in {"current", "install", "failed", Undefined}
  /\ UNCHANGED vars

Next == ReadManifest \/ FetchRemoved \/ ReadRemoved \/ Done

Spec == Init /\ [][Next]_vars

(* What of the list of deletions is made once release u is extracted.      *)
DeletedBy(u, list) ==
  {d \in Range(list) : VersionEquals(d.version, u.version)}

-----------------------------------------------------------------------------
EntriesOf(l) == [i \in 1 .. Len(l.lines) |->
                   [version |-> VersionOf[l.lines[i][1]], name |-> l.lines[i][3]]]
Readable(l) == \A i \in 1 .. Len(l.lines) : l.lines[i][1] \in DOMAIN VersionOf

(* Of two versions, the first part in which they differ decides.           *)
Parts == <<"major", "minor", "patch">>
Precedes(a, b) ==
  \E k \in 1 .. 3 :
    a[Parts[k]] < b[Parts[k]] /\ \A j \in 1 .. k - 1 : a[Parts[j]] = b[Parts[j]]

(* list has the entries of l newer than the installed version: each where  *)
(* it comes among them.                                                    *)
IsNewerOf(list, l) ==
  LET newer == {i \in 1 .. Len(l.lines) : Precedes(current, EntriesOf(l)[i].version)}
  IN /\ Len(list) = Cardinality(newer)
     /\ \A i \in newer : list[Cardinality({j \in newer : j <= i})] = EntriesOf(l)[i]
EmptyLine(l) == l.trailing > 1 \/ (l.trailing = 1 /\ l.lines = << >>)
TooLong(l) == Len(l.lines) * PointerSize > SplitLim

(* A list is read completely or not at all: unless it has an empty line or *)
(* more lines than the array has room for, the updates are the entries     *)
(* newer than the installed version, each once and in the order of the     *)
(* list (versionsfile.h:58-60), and one unreadable version makes the whole *)
(* list an error.                                                          *)
ListsReadWhole ==
  /\ step \in {"fetch", "removed", "install"} =>
       Readable(manifest) /\ IsNewerOf(updates, manifest)
  /\ step = "install" => Readable(removed) /\ IsNewerOf(deletions, removed)
  /\ step = "failed" => ~Readable(manifest) \/ ~Readable(removed)
  /\ step = Undefined =>
       \E l \in {manifest, removed} : EmptyLine(l) \/ TooLong(l)

(* Each release comes after the ones before it in the list.                *)
Ascending(l) ==
  \A i, j \in 1 .. Len(l.lines) :
    i < j => Precedes(EntriesOf(l)[i].version, EntriesOf(l)[j].version)

(* The version of each release is stored once it is installed, and an      *)
(* update that was stopped reads both lists again (update.c:613,           *)
(* versionsfile.c:303, 366): whichever release was the last to be stored,  *)
(* the next attempt installs exactly those behind it, in the same order    *)
(* and with the same deletions. That holds of a list of releases in        *)
(* ascending order.                                                        *)
ResumesWithTheRest ==
  step = "install" /\ Ascending(manifest) =>
    \A k \in DOMAIN updates :
      LET next == ReadList(Text(manifest), updates[k].version)
          rest == ReadList(Text(removed), updates[k].version)
      IN /\ next.result = "ok" /\ rest.result = "ok"
         /\ next.list = SubSeq(updates, k + 1, Len(updates))
         /\ \A u \in Range(next.list) :
              DeletedBy(u, rest.list) = DeletedBy(u, deletions)

(* versionsfile.h:37: "for convenience this will ignore trailing characters*)
(* of `by'". Only one is ignored; a second one makes an empty line, whose  *)
(* parts do not exist.                                                     *)
TrailingIgnored == Readable(manifest) => step # Undefined

(* versionsfile.h:38: "this is limited to 4096 entries, if it exceeds this *)
(* the return code will be 2": lists within that limit, whose versions can *)
(* be read and that have no empty line, are read without harm. The array   *)
(* has 4096 bytes: room for 1024.                                          *)
UpToTheLimit ==
  (\A l \in {manifest, removed} :
     Readable(l) /\ ~EmptyLine(l) /\ Len(l.lines) <= SplitLim) =>
       step # Undefined
=============================================================================

------------------------------ MODULE Settings ------------------------------
(***************************************************************************)
(* The settings: the file .settings on the SD card (settingsfile.c), its   *)
(* loading at boot (main.c), the settings menu (settings.c), and what a    *)
(* launch makes of the "My Stuff" choice (riivo_patch_loader.c).           *)
(*                                                                         *)
(* The file is a header with a number of entries, then key and value       *)
(* pairs. It is modelled by the parts the parser tells apart: a header     *)
(* that is whole or not, and the entries that are whole.                   *)
(***************************************************************************)
EXTENDS Naturals, Sequences

CONSTANTS
  MaxChoices,  \* bounds on the <choice>s of each option in the XML of the pack
  MaxFaults,   \* bound on write errors and power losses
  Absent       \* there is no settings file

Keys == <<"myStuff", "savegame", "autoUpdate">>
Fields == {Keys[i] : i \in 1 .. 3}
InXml == {"myStuff", "savegame"}
AutoUpdateOptions == 2

(* The last option that any pack's menu has.                               *)
LastOption(k) == IF k \in InXml THEN MaxChoices[k] ELSE AutoUpdateOptions - 1

Values == UNION {0 .. LastOption(k) : k \in Fields}
SettingsType == [Fields -> Values]
Entries == [key : Fields, value : Values]
Defaults == [k \in Fields |-> IF k = "autoUpdate" THEN 1 ELSE 0]

ASSUME SettingsAssumption ==
  /\ MaxChoices \in [InXml -> Nat \ {0}]
  /\ MaxFaults \in Nat
  /\ Absent \notin [header : BOOLEAN, count : {0, 3}, entries : Seq(Entries)]

VARIABLES
  file,     \* .settings: Absent, or [header, count, entries]
  choices,  \* how many choices the XML on the card has for an option
  pc,       \* where the launcher is
  then,     \* what follows the store under way
  boot,     \* "normal", "first" (accept.txt is new), "again" (game, crash)
  mem,      \* stored_settings
  initial,  \* initial_selected_option of the menu's entries
  options,  \* the option_counts that come from the XML
  stored,   \* history: the settings last written or created completely
  synced,   \* history: the menu opened on, or saved, what the file holds
  faults

vars == <<file, choices, pc, then, boot, mem, initial, options, stored,
          synced, faults>>
menu == <<initial, options, synced>>

(* The choices of a pack, which every release may change.                  *)
Packs == {c \in [InXml -> Values] : \A k \in InXml : c[k] \in 1 .. MaxChoices[k]}

-----------------------------------------------------------------------------
(* The file *)

Entry(k, s) == [key |-> k, value |-> s[k]]

(* What rrc_settingsfile_store writes.                                     *)
Encode(s) == [header |-> TRUE, count |-> 3,
              entries |-> [i \in 1 .. 3 |-> Entry(Keys[i], s)]]

(* What rrc_settingsfile_create writes: no entries.                        *)
Created == [header |-> TRUE, count |-> 0, entries |-> << >>]

Truncated == [header |-> FALSE, count |-> 0, entries |-> << >>]

(* What may be on the card when writing f is cut short or fails.           *)
Prefixes(f) ==
  {Truncated} \cup {[header |-> f.header, count |-> f.count,
                     entries |-> SubSeq(f.entries, 1, n)] :
                      n \in 0 .. Len(f.entries)}

(* An entry cut short ends the list without an error.                      *)
ParseFailsOnHeader(f) == ~f.header

ParseFails(f) == ~f.header \/ Len(f.entries) < f.count

(* The settings after rrc_settingsfile_parse: the defaults, overwritten by *)
(* the entries read before the first error.                                *)
Parsed(f) ==
  LET Read == {i \in 1 .. Len(f.entries) : f.header /\ i <= f.count}
      Of(k) == {i \in Read : f.entries[i].key = k}
      Last(S) == CHOOSE i \in S : \A j \in S : j <= i
  IN  [k \in Fields |-> IF Of(k) = {} THEN Defaults[k]
                        ELSE f.entries[Last(Of(k))].value]

-----------------------------------------------------------------------------
(* Boot *)

Init ==
  /\ file = Absent
  /\ choices \in Packs
  /\ pc = "off" /\ then = "save" /\ boot = "normal"
  /\ mem = Defaults /\ initial = Defaults
  /\ options = [k \in InXml |-> 1]
  /\ stored = Defaults
  /\ synced = FALSE
  /\ faults = 0

(* The settings are parsed; a missing file is created first.               *)
Load ==
  LET f == IF file = Absent THEN Created ELSE file
  IN  /\ pc = "off"
      /\ file' = f
      /\ mem' = Parsed(f)
      /\ pc' = IF ParseFails(f) THEN "recreate" ELSE "update"
      /\ boot' \in {"normal", "first", "again"}
      /\ UNCHANGED <<choices, then, stored, faults>> /\ UNCHANGED menu

(* The card fails at boot: a file that is there, or the one just created,  *)
(* cannot be opened, or the header of the one just created is not written. *)
LoadFails ==
  /\ pc = "off" /\ faults < MaxFaults
  /\ file' \in {file} \cup (IF file = Absent THEN {Truncated, Created} ELSE {})
  /\ mem' = Defaults
  /\ pc' = "recreate"
  /\ boot' \in {"normal", "first", "again"}
  /\ faults' = faults + 1
  /\ UNCHANGED <<choices, then, stored>> /\ UNCHANGED menu

(* "Recreate now?": yes.                                                   *)
Recreate ==
  /\ pc = "recreate"
  /\ file' = Created /\ stored' = Defaults
  /\ pc' = "update"
  /\ UNCHANGED <<choices, then, boot, mem, faults>>
  /\ UNCHANGED menu

(* The header is not written, which rrc_settingsfile_create does not       *)
(* report.                                                                 *)
RecreateFails ==
  /\ pc = "recreate" /\ faults < MaxFaults
  /\ file' = Truncated
  /\ pc' = "update"
  /\ faults' = faults + 1
  /\ UNCHANGED <<choices, then, boot, mem, stored>>
  /\ UNCHANGED menu

(* "Recreate now?": no, or the card could not be written.                  *)
KeepFile ==
  /\ pc = "recreate"
  /\ pc' = "update"
  /\ UNCHANGED <<file, choices, then, boot, mem, stored, faults>>
  /\ UNCHANGED menu

(* The automatic update: nothing to do or an error, and the launcher goes  *)
(* on, or releases were installed and it exits. The XML may have changed.  *)
AutoUpdate ==
  /\ pc = "update"
  /\ IF mem["autoUpdate"] # 0 /\ boot # "again"
     THEN /\ choices' \in Packs
          /\ pc' \in {"wait", "off"}
     ELSE /\ pc' = "wait" /\ UNCHANGED choices
  /\ UNCHANGED <<file, then, boot, mem, stored, faults>> /\ UNCHANGED menu

(* rrc_riivo_patch_loader_parse looks for the choice in the XML; there is  *)
(* none for a value above the number of choices, which is a fatal error.   *)
(* Of the savegame's, a launch only asks whether it is 0.                  *)
LaunchResult == IF mem["myStuff"] > choices["myStuff"] THEN "fatal" ELSE "game"

Launch == pc' = LaunchResult

(* Five seconds without a button, or A.                                    *)
AutoLaunch ==
  /\ pc = "wait"
  /\ Launch
  /\ UNCHANGED <<file, choices, then, boot, mem, stored, faults>>
  /\ UNCHANGED menu

(* HOME in the five seconds, the end of the game, the end after an error.  *)
Leave ==
  /\ pc \in {"wait", "game", "fatal"}
  /\ pc' = "off"
  /\ UNCHANGED <<file, choices, then, boot, mem, stored, faults>>
  /\ UNCHANGED menu

-----------------------------------------------------------------------------
(* The menu *)

(* A value that is no option, "Disabled" or a choice, becomes the default. *)
Clamp(s, found) ==
  [k \in Fields |-> IF k \in found /\ s[k] >= choices[k] + 1 THEN 0 ELSE s[k]]

OpenMenu ==
  /\ pc = "wait"
  /\ pc' = "menu"
  /\ mem' = Clamp(mem, InXml)
  /\ initial' = mem'
  /\ options' = [k \in InXml |-> choices[k] + 1]
  /\ synced' = (file # Absent /\ ~ParseFails(file) /\ mem' = Parsed(file))
  /\ UNCHANGED <<file, choices, then, boot, stored, faults>>

(* The XML cannot be opened, or lacks an option or the name of a choice:   *)
(* RRC_SETTINGS_ERROR, which is fatal.                                     *)
MenuNotOpened ==
  /\ pc = "wait" /\ faults < MaxFaults
  /\ pc' = "fatal"
  /\ \E found \in {{}, {"myStuff"}} : mem' = Clamp(mem, found)
  /\ faults' = faults + 1
  /\ UNCHANGED <<file, choices, then, boot, stored>>
  /\ UNCHANGED menu

Options(k) == IF k \in InXml THEN options[k] ELSE AutoUpdateOptions

(* The value one to the left, from the first back to the last.             *)
LeftOf(k) == IF mem[k] > 0 THEN mem[k] - 1 ELSE Options(k) - 1

(* Wraps around one value too late.                                        *)
RightOfLate(k) == IF mem[k] >= Options(k) THEN 0 ELSE mem[k] + 1

RightOf(k) == IF mem[k] + 1 >= Options(k) THEN 0 ELSE mem[k] + 1

Change(k) ==
  /\ pc = "menu"
  /\ \E v \in {LeftOf(k), RightOf(k)} : mem' = [mem EXCEPT ![k] = v]
  /\ UNCHANGED <<file, choices, pc, then, boot, stored, faults>>
  /\ UNCHANGED menu

(* The mark of the last entry decides.                                     *)
HasUnsavedLast == mem["autoUpdate"] # initial["autoUpdate"]

(* has_unsaved_changes: some entry shows a mark.                           *)
HasUnsavedChanges == \E k \in Fields : mem[k] # initial[k]

(* What happens after a store, depending on where it was asked for and on  *)
(* whether an error was reported. A failed save only shows its error; the  *)
(* launch and the exit go on.                                              *)
AfterStore(what, ok) ==
  /\ CASE what = "save" -> pc' = "menu"
       [] what = "launch" -> Launch
       [] what = "exit" -> pc' = "off"
  /\ initial' = IF what = "save" /\ ok THEN mem ELSE initial
  /\ UNCHANGED <<choices, then, boot, mem, options>>

(* "Save changes", or "yes" to saving at launch or exit: fopen("w") leaves *)
(* an empty file.                                                          *)
StartStore(what) ==
  /\ pc = "menu"
  /\ what = "save" \/ HasUnsavedChanges
  /\ file' = Truncated
  /\ pc' = "store" /\ then' = what
  /\ UNCHANGED <<choices, boot, mem, stored, faults>>
  /\ UNCHANGED menu

(* fopen fails; the file stays as it was.                                  *)
StoreNotOpened(what) ==
  /\ pc = "menu" /\ faults < MaxFaults
  /\ what = "save" \/ HasUnsavedChanges
  /\ AfterStore(what, FALSE)
  /\ faults' = faults + 1
  /\ UNCHANGED <<file, stored, synced>>

FinishStore ==
  /\ pc = "store"
  /\ file' = Encode(mem)
  /\ stored' = mem
  /\ synced' = TRUE
  /\ AfterStore(then, TRUE)
  /\ UNCHANGED faults

(* Part of the file cannot be written. An fwrite of an entry that fails is *)
(* reported, one of the header or an fclose that fails is not.             *)
StoreFails ==
  /\ pc = "store" /\ faults < MaxFaults
  /\ faults' = faults + 1
  /\ file' \in Prefixes(Encode(mem)) \ {Encode(mem)}
  /\ \E reported \in BOOLEAN : AfterStore(then, ~reported)
  /\ synced' = FALSE
  /\ UNCHANGED stored

(* Launch without changes, or without saving them.                         *)
LaunchFromMenu ==
  /\ pc = "menu"
  /\ Launch
  /\ UNCHANGED <<file, choices, then, boot, mem, stored, faults>>
  /\ UNCHANGED menu

(* HOME, which does not ask, or Exit without saving.                       *)
ExitMenu ==
  /\ pc = "menu"
  /\ pc' = "off"
  /\ UNCHANGED <<file, choices, then, boot, mem, stored, faults>>
  /\ UNCHANGED menu

(* "Perform updates": after an error the menu stays open, with the options *)
(* it read before; after an update the launcher exits.                     *)
UpdateFromMenu ==
  /\ pc = "menu"
  /\ choices' \in Packs
  /\ pc' \in {"menu", "off"}
  /\ UNCHANGED <<file, then, boot, mem, stored, faults>> /\ UNCHANGED menu

PowerLoss ==
  /\ pc # "off" /\ faults < MaxFaults
  /\ pc' = "off"
  /\ faults' = faults + 1
  /\ IF pc = "store"
     THEN /\ file' \in Prefixes(Encode(mem))
          /\ stored' = IF file' = Encode(mem) THEN mem ELSE stored
     ELSE UNCHANGED <<file, stored>>
  /\ UNCHANGED <<choices, then, boot, mem>>
  /\ UNCHANGED menu

Next ==
  \/ Load \/ LoadFails \/ Recreate \/ RecreateFails \/ KeepFile
  \/ AutoUpdate \/ AutoLaunch \/ Leave
  \/ OpenMenu \/ MenuNotOpened \/ \E k \in Fields : Change(k)
  \/ \E what \in {"save", "launch", "exit"} :
       StartStore(what) \/ StoreNotOpened(what)
  \/ FinishStore \/ StoreFails \/ LaunchFromMenu \/ ExitMenu
  \/ UpdateFromMenu \/ PowerLoss

Spec == Init /\ [][Next]_vars

-----------------------------------------------------------------------------
(* What a complete store may hold: the menu offers nothing else, whatever  *)
(* the pack's choices are at the time.                                     *)
Proper == {s \in SettingsType : \A k \in Fields : s[k] \in 0 .. LastOption(k)}

(* All that may be on the card.                                            *)
Files == {Absent, Created} \cup UNION {Prefixes(Encode(s)) : s \in Proper}

(* Type invariant. The file is what some store or creation left, and the   *)
(* settings hold no value that no pack's menu offers; an update may take   *)
(* an option away that they hold.                                          *)
TypeOK ==
  /\ file \in Files
  /\ choices \in Packs
  /\ pc \in {"off", "recreate", "update", "wait", "menu", "store", "game",
             "fatal"}
  /\ then \in {"save", "launch", "exit"}
  /\ boot \in {"normal", "first", "again"}
  /\ {mem, initial, stored} \subseteq Proper
  /\ options \in [InXml -> Nat]
  /\ \A k \in InXml : options[k] \in 1 .. MaxChoices[k] + 1
  /\ synced \in BOOLEAN
  /\ faults \in 0 .. MaxFaults

(* The menu prints options[*selected_option] for every entry: the index is *)
(* within the array, whatever the file held, however often the pack and    *)
(* the settings were changed before (settings.c:140, 757, 825, 839).       *)
ShownInRange ==
  pc \in {"menu", "store"} => \A k \in Fields : mem[k] < Options(k)

(* When a boot reads the settings without an error, they are those that    *)
(* were last written completely, or the defaults of the file last created: *)
(* a store that was cut short never passes for settings, and never mixes   *)
(* old and new ones (settingsfile.c:111-197).                              *)
LoadedIsStored ==
  pc = "off" /\ file # Absent /\ ~ParseFails(file) => Parsed(file) = stored

(* In a menu that began with the file's settings, or saved them, nothing   *)
(* that differs from the file is without a mark, so launching and exiting  *)
(* ask before it is lost (settings.c:763, 852, 938).                       *)
ChangesMarked ==
  pc = "menu" /\ synced /\ mem # Parsed(file) => HasUnsavedChanges

(* settingsfile.h:60: "always be fully initialized, even in case of an     *)
(* error (in which case it will have default values)". An error after the  *)
(* first entry leaves the values read before it.                           *)
DefaultsOnError == pc = "recreate" => mem = Defaults

(* settings.c:52-54: initial_selected_option is "Used for checking whether *)
(* we have unsaved changes at any point". A saved value that had to be     *)
(* clamped differs from the file without a mark.                           *)
UnsavedChangesKnown ==
  pc = "menu" /\ file # Absent /\ mem # Parsed(file) => HasUnsavedChanges
=============================================================================

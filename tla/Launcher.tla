------------------------------ MODULE Launcher ------------------------------
(***************************************************************************)
(* One run of the launcher, from the start to the game (source/main.c),    *)
(* screen by screen: prompt.c, the menu and the extras of settings.c,      *)
(* server_status.c, disc_loader.c and the marks of ephfile.c and crash.c.  *)
(*                                                                         *)
(* Some screens check for the POWER and RESET buttons all the time, some   *)
(* only when they are drawn, and some work does not check at all.  The     *)
(* callbacks and the check itself are those of Shutdown.                   *)
(***************************************************************************)
EXTENDS Shutdown

CONSTANT WaitRounds  \* INTERRUPT_TIME / RRC_WPAD_LOOP_TIMEOUT

(* A loop with checks goes round more than once within the limit.          *)
ASSUME LauncherAssumption == WaitRounds \in Nat \ {0} /\ Limit > 1

VARIABLES
  at,       \* where the main thread is
  polled,   \* the screen was drawn, or went round its loop, and has checked
  busy,     \* history: since the last press there were times without checks
  came,     \* history: a "cold" start, or one after the "game" or a "crash"
  lfrr,     \* the mark of the game that it started the launcher exists
  crash,    \* the mark of the game that it crashed exists
  first,    \* first_open
  loaded,   \* loaded_from_rr
  crashed,  \* crashed
  auto,     \* stored_settings.auto_update
  opened,   \* the settings menu has been opened
  rounds,   \* what is left of the five seconds
  network,  \* wiisocket_init was successful
  status,   \* rr_server_status_cached: "invalid", "none" (no alert) or "alert"
  last,     \* history: what the last fetch of the server status gave
  checked,  \* history: an update check has run, and tried the network
  by,       \* history: what launched the game, a "timeout" or a "button"
  shown     \* "Received server message" is shown

marks == <<came, lfrr, crash>>
flags == <<first, loaded, crashed, auto, opened>>
server == <<network, status, last, checked>>
ending == <<by, shown>>
lvars == <<vars, at, polled, busy, marks, flags, rounds, server, ending>>

(* Prompts, the five seconds, the extras, results of tests and fatal errors*)
(* (through rrc_usleep) check in every round of their loop.                *)
(* The lines of the prompts are taken to fit on the console: a prompt with *)
(* a line that does not returns at once (prompt.c:98-102, 198-202).        *)
Polling == {"accept", "recreate", "crashed", "disc", "ask", "large",
            "installed", "failed", "prompt", "wait", "extras", "result",
            "fatal"}
(* The menu checks when it is drawn, the updater before each release.      *)
Drawing == {"menu", "install"}
Deaf == {"start", "settings", "marks", "cover", "id", "boot", "update",
         "sizes", "status", "test", "launch", "load"}
Ended == {"off", "game"}

LInit ==
  /\ Init
  /\ at = "start" /\ polled = FALSE /\ busy = FALSE
  /\ lfrr \in BOOLEAN /\ crash \in BOOLEAN
  /\ came \in {"cold"} \cup (IF lfrr THEN {"game"} ELSE {})
                       \cup (IF crash THEN {"crash"} ELSE {})
  /\ first = FALSE /\ loaded = FALSE /\ crashed = FALSE /\ auto = FALSE
  /\ opened = FALSE
  /\ rounds = WaitRounds
  /\ network = FALSE /\ status = "invalid" /\ last = "untried"
  /\ checked = FALSE
  /\ by = "nothing" /\ shown = FALSE

-----------------------------------------------------------------------------
(* The buttons and the time *)

(* The loops of the prompts wait for a key without a check.                *)
LTickUnpolled ==
  /\ at \notin Ended
  /\ Tick
  /\ polled' = (polled /\ at \notin Polling)
  /\ UNCHANGED <<at, busy, marks, flags, rounds, server, ending>>

(* A loop with checks goes round at least once in a unit of time.          *)
LTick ==
  /\ at \notin Ended
  /\ at \in Polling => polled
  /\ Tick
  /\ polled' = (polled /\ at \notin Polling)
  /\ UNCHANGED <<at, busy, marks, flags, rounds, server, ending>>

LPress(mode) ==
  /\ at \notin Ended
  /\ Press(mode)
  /\ busy' = (at \notin Polling)
  /\ UNCHANGED <<at, polled, marks, flags, rounds, server, ending>>

MayCheck == at \in Polling \/ (at \in Drawing /\ ~polled)

LStartCheck ==
  /\ MayCheck
  /\ StartCheck
  /\ UNCHANGED <<at, polled, busy, marks, flags, rounds, server, ending>>

LFinishCheck ==
  /\ FinishCheck
  /\ polled' = TRUE
  /\ UNCHANGED <<at, busy, marks, flags, rounds, server, ending>>

(* SYS_ResetSystem, the exit to the system menu, or the game.              *)
Stay ==
  /\ at \in Ended \/ Reset
  /\ UNCHANGED lvars

-----------------------------------------------------------------------------
(* From one screen to the next *)

(* The screen is left, which in a loop happens after a check of the same   *)
(* round, but for the result of a test: rrc_wait_for_result_dismiss looks  *)
(* at the keys first.                                                      *)
Leave(places) ==
  /\ at \in places
  /\ pc = "working"
  /\ at \in (Polling \ {"result"}) \cup Drawing => polled
  /\ UNCHANGED vars

Enter(place) ==
  /\ at' = place
  /\ polled' = FALSE
  /\ busy' = (busy \/ place \notin Polling)

Move(places, place) ==
  /\ Leave(places)
  /\ Enter(place)
  /\ UNCHANGED <<marks, flags, rounds, server, ending>>

(* Exit by a choice or an assertion.                                       *)
Exit == Move({"accept", "disc", "cover", "id", "boot", "wait", "menu",
              "prompt", "installed", "update", "sizes", "large", "install",
              "load"}, "off")

(* rrc_result_error_check_error_fatal, which waits before it exits.        *)
FatalExit == Move({"fatal"}, "off")

(* The file accept.txt exists or not.                                      *)
Start ==
  /\ Leave({"start"})
  /\ first' \in BOOLEAN
  /\ Enter(IF first' THEN "accept" ELSE "settings")
  /\ UNCHANGED <<marks, loaded, crashed, auto, opened, rounds, server, ending>>

Accept == Move({"accept"}, "settings")

(* rrc_settingsfile_parse; after an error "Recreate now?".                 *)
LoadSettings ==
  /\ Leave({"settings"})
  /\ auto' \in BOOLEAN
  /\ \E next \in {"recreate", "marks"} : Enter(next)
  /\ UNCHANGED <<marks, first, loaded, crashed, opened, rounds, server,
                 ending>>

Recreate == Move({"recreate"}, "marks")

(* rrc_launched_after_crash                                                *)
ReadCrashMark ==
  /\ Leave({"marks"})
  /\ crashed' = crash
  /\ crash' = FALSE
  /\ Enter(IF crash THEN "crashed" ELSE "cover")
  /\ UNCHANGED <<came, lfrr, first, loaded, auto, opened, rounds,
                 server, ending>>

CrashSeen == Move({"crashed"}, "cover")

(* rrc_disc_loader_await_mkw: no disc; a disc whose ID cannot be read, or  *)
(* is not that of Mario Kart Wii; Mario Kart Wii.                          *)
CheckCover == Move({"cover"}, "disc") \/ Move({"cover"}, "id")
ReadDiskId == Move({"id"}, "disc") \/ Move({"id"}, "boot")
DiscInserted == Move({"disc"}, "cover")

ChecksForUpdates == auto /\ ~loaded' /\ ~crashed

(* rrc_launched_from_rr                                                    *)
ReadLaunchMark ==
  /\ Leave({"boot"})
  /\ loaded' = lfrr
  /\ lfrr' = FALSE
  /\ Enter(IF ChecksForUpdates THEN "update" ELSE "wait")
  /\ UNCHANGED <<came, crash, first, crashed, auto, opened, rounds,
                 server, ending>>

-----------------------------------------------------------------------------
(* The server status and the updates *)

(* After a failure the old status stays.                                   *)
FetchedStale(result) ==
  /\ status' = IF result = "failed" THEN status ELSE result
  /\ last' = result

Fetched(result) ==
  /\ status' = IF result = "failed" THEN "invalid" ELSE result
  /\ last' = result

(* rr_server_status_parse: a text without a variant or a message, or with  *)
(* an unknown variant, is no status; any variant but "none" is an alert.   *)
Parse(answer) ==
  CASE answer = "none" -> "none"
    [] answer \in {"warning", "info"} -> "alert"
    [] OTHER -> "failed"

(* rr_server_status_fetch_internal: without a network nothing comes.       *)
FetchStatus(net) ==
  \E answer \in {"nothing"} \cup
       (IF net THEN {"no text", "unknown", "none", "warning", "info"} ELSE {}) :
    Fetched(Parse(answer))

AfterUpdate == IF opened THEN "menu" ELSE "wait"

(* rrc_update_do_updates: the network, the server status, the list. A      *)
(* prompt whose text is too wide is not shown at all.                      *)
StartUpdate ==
  /\ Leave({"update"})
  /\ checked' = TRUE
  /\ \/ /\ UNCHANGED <<network, status, last>>
        /\ \E next \in {"failed", AfterUpdate} : Enter(next)
     \/ /\ network' = TRUE
        /\ FetchStatus(TRUE)
        /\ \E next \in {"failed", "ask", AfterUpdate} : Enter(next)
  /\ UNCHANGED <<marks, flags, rounds, ending>>

UpdateOrSkip == Move({"ask"}, "sizes") \/ Move({"ask"}, AfterUpdate)

(* The files to remove and the sizes, which may be large or no answer.     *)
UpdateSizes ==
  \E next \in {"large", "install", "failed", AfterUpdate} :
    Move({"sizes"}, next)

UpdateOrNotLarge ==
  \E next \in {"install", AfterUpdate} : Move({"large"}, next)

(* Each release of the update is drawn anew.                               *)
Install ==
  \E next \in {"install", "installed", "failed", AfterUpdate} :
    Move({"install"}, next)

UpdateFailed == Move({"failed"}, AfterUpdate)

-----------------------------------------------------------------------------
(* The five seconds *)

LaunchBy(what) ==
  /\ Enter("launch")
  /\ by' = what
  /\ UNCHANGED shown

(* A crash does not matter.                                                *)
NoAutoLaunchButCrash == first \/ loaded

(* "Only allow auto launch if this is a successful first boot"             *)
NoAutoLaunch == first \/ loaded \/ crashed

PressA ==
  /\ Leave({"wait"})
  /\ LaunchBy("button")
  /\ UNCHANGED <<marks, flags, rounds, server>>

OpenMenu ==
  /\ Leave({"wait"})
  /\ opened' = TRUE
  /\ \E next \in {"menu", "fatal"} : Enter(next)
  /\ UNCHANGED <<marks, first, loaded, crashed, auto, rounds, server, ending>>

(* One round too many.                                                     *)
WaitOnTooLong ==
  /\ Leave({"wait"})
  /\ ~NoAutoLaunch
  /\ rounds' = rounds - 1
  /\ IF rounds = 0 THEN LaunchBy("timeout")
     ELSE Enter("wait") /\ UNCHANGED ending
  /\ UNCHANGED <<marks, flags, server>>

WaitOn ==
  /\ Leave({"wait"})
  /\ ~NoAutoLaunch
  /\ rounds' = rounds - 1
  /\ IF rounds = 1 THEN LaunchBy("timeout")
     ELSE Enter("wait") /\ UNCHANGED ending
  /\ UNCHANGED <<marks, flags, server>>

-----------------------------------------------------------------------------
(* The menu and the extras *)

(* Any key that changes what is drawn; one of them switches the automatic  *)
(* updates.                                                                *)
MenuKey ==
  /\ Leave({"menu"})
  /\ auto' \in BOOLEAN
  /\ Enter("menu")
  /\ UNCHANGED <<marks, first, loaded, crashed, opened, rounds, server,
                 ending>>

MenuChoice ==
  \E next \in {"prompt", "update", "extras"} : Move({"menu"}, next)

(* Launch, without a prompt or after it.                                   *)
MenuLaunch ==
  /\ Leave({"menu", "prompt"})
  /\ LaunchBy("button")
  /\ UNCHANGED <<marks, flags, rounds, server>>

PromptBack == Move({"prompt"}, "menu")

ExtrasKey == Move({"extras"}, "extras") \/ Move({"extras"}, "menu")

(* The NAT test, the ping test and UPnP, and their results.                *)
RunTest == Move({"extras"}, "test")
ShowResult == Move({"test"}, "result")
ResultSeen == Move({"result"}, "extras")

(* rr_server_status_test: what is cached, or a fetch.                      *)
ShowStatus ==
  /\ Leave({"extras"})
  /\ Enter("status")
  /\ IF status = "invalid" THEN FetchStatus(network)
                           ELSE UNCHANGED <<status, last>>
  /\ UNCHANGED <<marks, flags, rounds, network, checked, ending>>

StatusSeen == Move({"status"}, "extras")

-----------------------------------------------------------------------------
(* The launch: UPnP, which takes its time, and the server status.          *)
Launch ==
  /\ Leave({"launch"})
  /\ IF auto /\ ~loaded /\ ~crashed
       THEN UNCHANGED <<status, last>>
       ELSE FetchStatus(network)
  /\ shown' = (status' = "alert")
  /\ Enter("load")
  /\ UNCHANGED <<marks, flags, rounds, network, checked, by>>

Load == Move({"load"}, "fatal") \/ Move({"load"}, "game")

LNext ==
  \/ LTick \/ (\E mode \in Modes : LPress(mode)) \/ LStartCheck \/ LFinishCheck
  \/ Exit \/ FatalExit
  \/ Start \/ Accept \/ LoadSettings \/ Recreate \/ ReadCrashMark \/ CrashSeen
  \/ CheckCover \/ ReadDiskId \/ DiscInserted \/ ReadLaunchMark
  \/ StartUpdate \/ UpdateOrSkip \/ UpdateSizes \/ UpdateOrNotLarge
  \/ Install \/ UpdateFailed
  \/ PressA \/ OpenMenu \/ WaitOn
  \/ MenuKey \/ MenuChoice \/ MenuLaunch \/ PromptBack
  \/ ExtrasKey \/ RunTest \/ ShowResult \/ ResultSeen
  \/ ShowStatus \/ StatusSeen
  \/ Launch \/ Load \/ Stay

LSpec == LInit /\ [][LNext]_lvars

-----------------------------------------------------------------------------
(* The types of the variables of the screens.                              *)
LTypeOK ==
  /\ TypeOK
  /\ at \in Polling \cup Drawing \cup Deaf \cup Ended
  /\ came \in {"cold", "game", "crash"}
  /\ {polled, busy, lfrr, crash, first, loaded, crashed, auto, opened,
      network, checked, shown} \subseteq BOOLEAN
  /\ rounds \in 0 .. WaitRounds
  /\ status \in {"invalid", "none", "alert"}
  /\ last \in {"untried", "failed", "none", "alert"}
  /\ by \in {"nothing", "timeout", "button"}

(* A press is forgotten only if it fell into a check, or if the launcher   *)
(* was meanwhile somewhere that makes no checks: a prompt, the five        *)
(* seconds, the extras, the result of a test or a fatal error hear every   *)
(* press (prompt.c:125, main.c:279, settings.c:177 and 586, time.c:37).    *)
HearsPresses ==
  [][(state # NoButton /\ state' = NoButton) => raced \/ busy]_lvars

(* The game starts without a button only if the launcher was not started   *)
(* by the game or after its crash, not for the first time, and not past a  *)
(* check for updates that is switched on (main.c:238-240, 290-291).        *)
AutoLaunchIsNormal ==
  by = "timeout" => came = "cold" /\ ~first /\ (auto => checked)

(* "Received server message" (main.c:328-342) is shown exactly if the last *)
(* fetch of this run gave an alert, whatever fetches there were in the     *)
(* check, in the extras and at the launch.                                 *)
AlertIsCurrent == at \in {"load", "game"} => (shown <=> last = "alert")

(* main.c:318: "Receive the current server status." That takes a network, *)
(* which only the update check sets up (update.c:626): by the launch it    *)
(* must at least have been tried.                                          *)
StatusFromNetwork == at = "load" => checked

(* main.c:318-321: "If the update check above already ran (auto_update on, *)
(* not loaded from the game, not crashed), it will have already fetched    *)
(* and cached this".  Automatic updates may have been switched on in the   *)
(* menu, or the network may have failed in the check.                      *)
StatusTriedAtLaunch == at = "load" => last # "untried"

(* main.c:239: "Skip if we loaded from the game since this will have       *)
(* already ran."  The mark of an earlier return stays where the launcher   *)
(* is left before it is read.                                              *)
LoadedFromGame == loaded => came # "cold"
=============================================================================

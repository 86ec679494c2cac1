--------------------------- MODULE LauncherProofs ---------------------------
(***************************************************************************)
(* Proofs about Shutdown and Launcher, for any limit, any number of presses*)
(* and any length of the wait before the automatic launch.                 *)
(*                                                                         *)
(* The check compares a time it read before the button, so the invariant   *)
(* of Shutdown has to bound the time of the last press from the other side:*)
(* it is the one that was read, or a later one.  Every step of Launcher is *)
(* a step of Shutdown or leaves it alone, so what holds of the buttons     *)
(* holds on all screens.                                                   *)
(***************************************************************************)
EXTENDS Launcher, TLAPS

-----------------------------------------------------------------------------
(* The buttons                                                             *)

(* The time of the last press lies between the one the check has read and  *)
(* the present, and is that one if the check was not raced.                *)
TimesOrdered ==
  /\ time <= clock
  /\ began <= clock
  /\ pc # "working" => began - since <= time
  /\ pc = "checking" /\ ~raced => time = began - since

ButtonKnown == state # NoButton => state = button

IInv == TypeOK /\ TimesOrdered /\ ButtonKnown /\ ResetIsWanted

(* The initial states: no button was pressed.                              *)
LEMMA InitInv == Init => IInv
<1> SUFFICES ASSUME Init PROVE IInv
    OBVIOUS
<1> USE ShutdownAssumption DEF Init, NoButton
<1>1. clock \in 0 .. MaxClock /\ 0 \in 0 .. MaxClock /\ 0 \in 0 .. MaxPresses
  OBVIOUS
<1>2. TypeOK
  BY <1>1 DEF TypeOK
<1>3. TimesOrdered /\ ButtonKnown /\ ResetIsWanted
  BY <1>1 DEF TimesOrdered, ButtonKnown, ResetIsWanted
<1> QED BY <1>2, <1>3 DEF IInv

(* Time passing, a press, and each half of a check keep the invariant.     *)
LEMMA NextInv == IInv /\ [Next]_vars => IInv'
<1> SUFFICES ASSUME IInv, [Next]_vars PROVE IInv'
    OBVIOUS
<1> USE ShutdownAssumption
    DEF IInv, TypeOK, TimesOrdered, ButtonKnown, ResetIsWanted
<1>1. CASE Tick
  <2>1. clock' \in 0 .. MaxClock /\ clock' = clock + 1
    BY <1>1 DEF Tick
  <2>2. TypeOK'
    BY <1>1, <2>1 DEF Tick
  <2>3. TimesOrdered'
    BY <1>1, <2>1 DEF Tick
  <2> QED BY <1>1, <2>2, <2>3 DEF Tick
<1>2. ASSUME NEW mode \in Modes, Press(mode) PROVE IInv'
  <2>1. raced' \in BOOLEAN /\ (pc = "checking" => raced')
    BY <1>2, Zenon DEF Press
  <2>2. time' \in 0 .. MaxClock /\ presses' \in 0 .. MaxPresses
    BY <1>2 DEF Press
  <2>3. TypeOK'
    BY <1>2, <2>1, <2>2 DEF Press
  <2>4. began - since <= clock \/ pc = "working"
    BY <1>2 DEF Press
  <2>5. TimesOrdered'
    BY <1>2, <2>1, <2>4 DEF Press
  <2>6. ButtonKnown' /\ ResetIsWanted'
    BY <1>2 DEF Press
  <2> QED BY <2>3, <2>5, <2>6
<1>3. CASE StartCheck
  <2>1. since' = clock - time /\ began' = clock /\ raced' = FALSE
    BY <1>3 DEF StartCheck
  <2>2. since' \in 0 .. MaxClock
    BY <2>1
  <2>3. TypeOK'
    BY <1>3, <2>1, <2>2 DEF StartCheck
  <2>4. began' - since' = time
    BY <2>1
  <2>5. TimesOrdered' /\ ButtonKnown' /\ ResetIsWanted'
    BY <1>3, <2>1, <2>4 DEF StartCheck
  <2> QED BY <2>3, <2>5
<1>4. CASE FinishCheck
  <2>1. CASE state # NoButton /\ since < Limit
    BY <1>4, <2>1 DEF FinishCheck
  <2>2. CASE since >= Limit
    BY <1>4, <2>2 DEF FinishCheck
  <2>3. CASE state = NoButton /\ since < Limit
    BY <1>4, <2>3 DEF FinishCheck
  <2> QED BY <1>4, <2>1, <2>2, <2>3 DEF FinishCheck
<1>5. CASE UNCHANGED vars
  BY <1>5 DEF vars
<1> QED BY <1>1, <1>2, <1>3, <1>4, <1>5 DEF Next, Reset

LEMMA Invariance == Spec => []IInv
BY InitInv, NextInv, PTL DEF Spec

(* Every variable keeps its type (shutdown.c:27-31).                       *)
THEOREM TypeCorrect == Spec => []TypeOK
<1>1. IInv => TypeOK
  BY DEF IInv
<1> QED BY <1>1, Invariance, PTL

(* However presses fall between the two reads of a check, the console is   *)
(* shut down for the last press only, and only if that was less than the   *)
(* limit old when the check began (shutdown.c:51-59).                      *)
THEOREM ShutsDownForLastPress == Spec => []ResetIsWanted
<1>1. IInv => ResetIsWanted
  BY DEF IInv
<1> QED BY <1>1, Invariance, PTL

(* A press is lost only when it is too old or came within a check          *)
(* (shutdown.c:60-64).                                                     *)
THEOREM LosesOnlyLateOrRacing == Spec => ForgetsLateOrRacing
<1> DEFINE Keeps ==
      (state # NoButton /\ state' = NoButton) => clock - time >= Limit \/ raced
<1>1. IInv /\ [Next]_vars => Keeps
  <2> SUFFICES ASSUME IInv, Next, state # NoButton, state' = NoButton
               PROVE clock - time >= Limit \/ raced
      BY DEF vars
  <2>1. pc = "checking" /\ since >= Limit
    BY DEF Next, Tick, Press, StartCheck, FinishCheck, Reset, vars, Modes, NoButton
  <2>2. {clock, time, began, since} \subseteq Int /\ Limit \in Int
    BY ShutdownAssumption DEF IInv, TypeOK
  <2>3. CASE ~raced
    <3>1. time = began - since /\ began <= clock
      BY <2>1, <2>3 DEF IInv, TimesOrdered
    <3> QED BY <2>1, <2>2, <3>1
  <2> QED BY <2>3
<1> QED BY <1>1, Invariance, PTL DEF Spec, ForgetsLateOrRacing
-----------------------------------------------------------------------------
(* The screens                                                             *)

(* Every step of the launcher is one of the buttons, or none of them.      *)
LEMMA StepIsShutdownStep == [LNext]_lvars => [Next]_vars
<1> SUFFICES ASSUME LNext PROVE [Next]_vars
  BY DEF lvars
<1>1. ASSUME LTick \/ (\E mode \in Modes : LPress(mode)) \/ LStartCheck
             \/ LFinishCheck
      PROVE  Next
  BY <1>1 DEF LTick, LPress, LStartCheck, LFinishCheck, Next
<1>2. ASSUME Stay PROVE UNCHANGED vars
  BY <1>2 DEF Stay, lvars
<1>3. ASSUME NEW p, NEW q, Move(p, q) PROVE UNCHANGED vars
  BY <1>3 DEF Move, Leave
<1>4. CASE Exit \/ FatalExit \/ Accept \/ Recreate \/ CrashSeen \/ CheckCover
           \/ ReadDiskId \/ DiscInserted \/ UpdateOrSkip \/ UpdateSizes
           \/ UpdateOrNotLarge \/ Install \/ UpdateFailed \/ MenuChoice
           \/ PromptBack \/ ExtrasKey \/ RunTest \/ ShowResult \/ ResultSeen
           \/ StatusSeen \/ Load
  BY <1>3, <1>4, Zenon DEF Exit, FatalExit, Accept, Recreate, CrashSeen,
    CheckCover, ReadDiskId, DiscInserted, UpdateOrSkip, UpdateSizes,
    UpdateOrNotLarge, Install, UpdateFailed, MenuChoice, PromptBack,
    ExtrasKey, RunTest, ShowResult, ResultSeen, StatusSeen, Load
<1>5. CASE Start \/ LoadSettings \/ ReadCrashMark \/ ReadLaunchMark
           \/ StartUpdate \/ PressA \/ OpenMenu \/ WaitOn \/ MenuKey
           \/ MenuLaunch \/ ShowStatus \/ Launch
  <2>1. \E p : Leave(p)
    BY <1>5, Zenon DEF Start, LoadSettings, ReadCrashMark, ReadLaunchMark,
      StartUpdate, PressA, OpenMenu, WaitOn, MenuKey, MenuLaunch, ShowStatus,
      Launch
  <2> QED  BY <2>1 DEF Leave
<1> QED  BY <1>1, <1>2, <1>4, <1>5 DEF LNext

(* The launcher is an implementation of Shutdown: the checks of all its    *)
(* screens follow shutdown.c:27-65.                                        *)
THEOREM ScreensUseShutdown == LSpec => Spec
<1>1. LInit => Init
  BY DEF LInit
<1> QED  BY <1>1, StepIsShutdownStep, PTL DEF LSpec, Spec

Places == Polling \cup Drawing \cup Deaf \cup Ended
Late == {"launch", "load", "fatal", "game", "off"}
BeforeCrashMark == {"start", "accept", "settings", "recreate", "marks"}
BeforeLaunchMark ==
  BeforeCrashMark \cup {"crashed", "cover", "id", "disc", "boot"}
Updating == {"ask", "sizes", "large", "install", "installed", "failed"}

ScreenTypes ==
  /\ at \in Places
  /\ came \in {"cold", "game", "crash"}
  /\ polled \in BOOLEAN /\ busy \in BOOLEAN /\ lfrr \in BOOLEAN
  /\ crash \in BOOLEAN /\ first \in BOOLEAN /\ loaded \in BOOLEAN
  /\ crashed \in BOOLEAN /\ auto \in BOOLEAN /\ opened \in BOOLEAN
  /\ network \in BOOLEAN /\ checked \in BOOLEAN /\ shown \in BOOLEAN
  /\ rounds \in 0 .. WaitRounds
  /\ status \in {"invalid", "none", "alert"}
  /\ last \in {"untried", "failed", "none", "alert"}
  /\ by \in {"nothing", "timeout", "button"}

(* No screen follows the launch but the end, and until then some of the    *)
(* five seconds is left.                                                   *)
LaunchedLast ==
  /\ by # "nothing" => at \in Late
  /\ by = "nothing" => rounds # 0

(* A mark the game left is there until it is read, and then known.         *)
MarksKept ==
  at # "off" =>
    /\ came = "crash" => IF at \in BeforeCrashMark THEN crash ELSE crashed
    /\ came = "game" => IF at \in BeforeLaunchMark THEN lfrr ELSE loaded

(* The five seconds come after the check, if there is to be one.           *)
CheckedFirst ==
  /\ at \in Updating => checked
  /\ at = "wait" /\ auto /\ ~loaded /\ ~crashed => checked

StatusIsLast == status = "alert" <=> last = "alert"

Screens ==
  /\ ScreenTypes /\ LaunchedLast /\ MarksKept /\ CheckedFirst /\ StatusIsLast
  /\ AutoLaunchIsNormal /\ AlertIsCurrent

LEMMA ScreensInit == LInit => Screens
<1> SUFFICES ASSUME LInit PROVE Screens
  OBVIOUS
<1> USE DEF LInit, Polling, Drawing, Deaf, Ended, Places
<1>1. ScreenTypes
  <2>1. came \in {"cold", "game", "crash"} /\ WaitRounds \in 0 .. WaitRounds
    BY LauncherAssumption
  <2> QED  BY <2>1 DEF ScreenTypes
<1>2. LaunchedLast
  BY LauncherAssumption DEF LaunchedLast
<1>3. MarksKept
  BY DEF MarksKept, BeforeCrashMark, BeforeLaunchMark
<1>4. CheckedFirst /\ StatusIsLast /\ AutoLaunchIsNormal /\ AlertIsCurrent
  BY DEF CheckedFirst, StatusIsLast, AutoLaunchIsNormal, AlertIsCurrent,
         Updating
<1> QED  BY <1>1, <1>2, <1>3, <1>4 DEF Screens
(* To go from one screen to another is right if no launch is undone, the   *)
(* marks are not passed by, and the check is made where there is to be one.*)
LEMMA MoveRight ==
  ASSUME Screens, NEW from, NEW to \in Places, Move(from, to),
         at \in Late => to \in Late,
         to # "off" =>
           /\ at # "off"
           /\ at \in BeforeCrashMark <=> to \in BeforeCrashMark
           /\ at \in BeforeLaunchMark <=> to \in BeforeLaunchMark,
         to \in Updating \cup {"wait"} => checked,
         to = "game" => at = "load",
         to # "load"
  PROVE  Screens'
<1> USE DEF Screens
<1>1. /\ at' = to /\ polled' = FALSE /\ busy' = (busy \/ to \notin Polling)
      /\ UNCHANGED <<marks, flags, rounds, server, ending>>
  BY DEF Move, Enter
<1> USE DEF marks, flags, server, ending
<1>2. ScreenTypes'
  <2>1. polled' \in BOOLEAN /\ busy' \in BOOLEAN
    BY <1>1, Zenon
  <2> QED  BY <1>1, <2>1 DEF ScreenTypes
<1>3. LaunchedLast'
  BY <1>1 DEF LaunchedLast
<1>4. MarksKept'
  <2>1. CASE to = "off"
    BY <1>1, <2>1 DEF MarksKept
  <2>2. CASE to # "off"
    BY <1>1, <2>2 DEF MarksKept
  <2> QED  BY <2>1, <2>2
<1>5. CheckedFirst'
  BY <1>1 DEF CheckedFirst, Updating
<1>6. StatusIsLast' /\ AutoLaunchIsNormal'
  BY <1>1 DEF StatusIsLast, AutoLaunchIsNormal
<1>7. AlertIsCurrent'
  BY <1>1 DEF AlertIsCurrent
<1> QED  BY <1>2, <1>3, <1>4, <1>5, <1>6, <1>7

LEMMA MovesKeepScreens ==
  ASSUME Screens,
         \/ Exit \/ FatalExit \/ Accept \/ Recreate \/ CrashSeen
         \/ CheckCover \/ ReadDiskId \/ DiscInserted \/ UpdateOrSkip
         \/ UpdateSizes \/ UpdateOrNotLarge \/ Install \/ UpdateFailed
         \/ MenuChoice \/ PromptBack \/ ExtrasKey \/ RunTest \/ ShowResult
         \/ ResultSeen \/ StatusSeen \/ Load
  PROVE  Screens'
<1> USE DEF Places, Polling, Drawing, Deaf, Ended, Late, BeforeCrashMark,
            BeforeLaunchMark, Updating
<1>1. ASSUME NEW p, NEW q, Move(p, q) PROVE at \in p
  BY <1>1 DEF Move, Leave
<1>2. at \in Updating => checked
  BY DEF Screens, CheckedFirst
<1>3. CASE Exit \/ FatalExit
  BY <1>1, <1>3, MoveRight DEF Exit, FatalExit
<1>4. CASE Accept \/ Recreate \/ CrashSeen \/ CheckCover \/ ReadDiskId
           \/ DiscInserted
  BY <1>1, <1>4, MoveRight DEF Accept, Recreate, CrashSeen, CheckCover,
                               ReadDiskId, DiscInserted
<1>5. CASE UpdateOrSkip \/ UpdateSizes \/ UpdateOrNotLarge \/ Install
           \/ UpdateFailed
  BY <1>1, <1>2, <1>5, MoveRight DEF UpdateOrSkip, UpdateSizes,
       UpdateOrNotLarge, Install, UpdateFailed, AfterUpdate
<1>6. CASE MenuChoice \/ PromptBack \/ ExtrasKey \/ RunTest \/ ShowResult
           \/ ResultSeen \/ StatusSeen
  BY <1>1, <1>6, MoveRight DEF MenuChoice, PromptBack, ExtrasKey, RunTest,
                               ShowResult, ResultSeen, StatusSeen
<1>7. CASE Load
  BY <1>1, <1>7, MoveRight DEF Load
<1> QED  BY <1>3, <1>4, <1>5, <1>6, <1>7
(* The buttons and the time change nothing of the screens.                 *)
LEMMA ButtonsKeepScreens ==
  ASSUME Screens,
         \/ LTick \/ (\E mode \in Modes : LPress(mode)) \/ LStartCheck
         \/ LFinishCheck \/ UNCHANGED lvars
  PROVE  Screens'
<1> USE DEF marks, flags, server, ending
<1>1. /\ UNCHANGED <<at, marks, flags, rounds, server, ending>>
      /\ polled' \in BOOLEAN /\ busy' \in BOOLEAN
  <2>1. polled \in BOOLEAN /\ busy \in BOOLEAN
    BY DEF Screens, ScreenTypes
  <2>2. CASE LTick
    BY <2>1, <2>2, Zenon DEF LTick
  <2>3. ASSUME NEW mode \in Modes, LPress(mode)
        PROVE  /\ UNCHANGED <<at, marks, flags, rounds, server, ending>>
               /\ polled' \in BOOLEAN /\ busy' \in BOOLEAN
    BY <2>1, <2>3, Zenon DEF LPress
  <2>4. CASE LStartCheck
    BY <2>1, <2>4 DEF LStartCheck
  <2>5. CASE LFinishCheck
    BY <2>1, <2>5 DEF LFinishCheck
  <2>6. CASE UNCHANGED lvars
    BY <2>1, <2>6 DEF lvars
  <2> QED  BY <2>2, <2>3, <2>4, <2>5, <2>6
<1>2. ScreenTypes'
  BY <1>1 DEF Screens, ScreenTypes
<1> QED  BY <1>1, <1>2 DEF Screens, LaunchedLast, MarksKept, CheckedFirst,
                          StatusIsLast, AutoLaunchIsNormal, AlertIsCurrent

LEMMA EnterTyped ==
  ASSUME NEW to, Enter(to), to \in Places, busy \in BOOLEAN
  PROVE  at' \in Places /\ polled' \in BOOLEAN /\ busy' \in BOOLEAN /\ at' = to
BY Zenon DEF Enter

LEMMA FetchTyped ==
  ASSUME NEW net, FetchStatus(net)
  PROVE  /\ StatusIsLast'
         /\ status' \in {"invalid", "none", "alert"}
         /\ last' \in {"untried", "failed", "none", "alert"}
<1>1. PICK answer : Fetched(Parse(answer))
  BY DEF FetchStatus
<1>2. Parse(answer) \in {"none", "alert", "failed"}
  BY DEF Parse
<1> QED  BY <1>1, <1>2 DEF Fetched, StatusIsLast

(* Up to the menu.                                                         *)
LEMMA BootKeepsScreens ==
  ASSUME Screens,
         \/ Start \/ LoadSettings \/ ReadCrashMark \/ ReadLaunchMark
         \/ StartUpdate
  PROVE  Screens'
<1> USE DEF marks, flags, server, ending
<1>1. busy \in BOOLEAN
  BY DEF Screens, ScreenTypes
<1>2. {"accept", "settings", "recreate", "marks", "crashed", "cover",
       "update", "wait", "failed", "ask", "menu"} \subseteq Places
  BY DEF Places, Polling, Drawing, Deaf
<1>3. CASE Start
  <2>1. PICK to \in {"accept", "settings"} : Enter(to)
    BY <1>3 DEF Start
  <2>2. /\ at = "start" /\ first' \in BOOLEAN
        /\ UNCHANGED <<marks, loaded, crashed, auto, opened, rounds, server,
                       ending>>
    BY <1>3 DEF Start, Leave
  <2>3. /\ at' = to /\ at' \in Places
        /\ polled' \in BOOLEAN /\ busy' \in BOOLEAN
    BY <1>1, <1>2, <2>1, EnterTyped
  <2>4. by = "nothing"
    BY <2>2 DEF Screens, LaunchedLast, Late, ScreenTypes
  <2>5. ScreenTypes'
    BY <2>2, <2>3 DEF Screens, ScreenTypes
  <2> QED  BY <2>1, <2>2, <2>3, <2>4, <2>5
           DEF Screens, LaunchedLast, MarksKept, CheckedFirst, StatusIsLast,
               AutoLaunchIsNormal, AlertIsCurrent, BeforeCrashMark,
               BeforeLaunchMark, Updating
<1>4. CASE LoadSettings
  <2>1. PICK to \in {"recreate", "marks"} : Enter(to)
    BY <1>4 DEF LoadSettings
  <2>2. /\ at = "settings" /\ auto' \in BOOLEAN
        /\ UNCHANGED <<marks, first, loaded, crashed, opened, rounds, server,
                       ending>>
    BY <1>4 DEF LoadSettings, Leave
  <2>3. /\ at' = to /\ at' \in Places
        /\ polled' \in BOOLEAN /\ busy' \in BOOLEAN
    BY <1>1, <1>2, <2>1, EnterTyped
  <2>4. by = "nothing"
    BY <2>2 DEF Screens, LaunchedLast, Late, ScreenTypes
  <2>5. ScreenTypes'
    BY <2>2, <2>3 DEF Screens, ScreenTypes
  <2> QED  BY <2>1, <2>2, <2>3, <2>4, <2>5
           DEF Screens, LaunchedLast, MarksKept, CheckedFirst, StatusIsLast,
               AutoLaunchIsNormal, AlertIsCurrent, BeforeCrashMark,
               BeforeLaunchMark, Updating
<1>5. CASE ReadCrashMark
  <2>1. PICK to \in {"crashed", "cover"} : Enter(to)
    BY <1>5 DEF ReadCrashMark
  <2>2. /\ at = "marks" /\ crashed' = crash /\ crash' = FALSE
        /\ UNCHANGED <<came, lfrr, first, loaded, auto, opened, rounds,
                       server, ending>>
    BY <1>5 DEF ReadCrashMark, Leave
  <2>3. /\ at' = to /\ at' \in Places
        /\ polled' \in BOOLEAN /\ busy' \in BOOLEAN
    BY <1>1, <1>2, <2>1, EnterTyped
  <2>4. by = "nothing"
    BY <2>2 DEF Screens, LaunchedLast, Late, ScreenTypes
  <2>5. ScreenTypes'
    <3>1. crash' \in BOOLEAN /\ crashed' \in BOOLEAN
      BY <2>2, Zenon DEF Screens, ScreenTypes
    <3> QED  BY <2>2, <2>3, <3>1 DEF Screens, ScreenTypes
  <2> QED  BY <2>1, <2>2, <2>3, <2>4, <2>5
           DEF Screens, LaunchedLast, MarksKept, CheckedFirst, StatusIsLast,
               AutoLaunchIsNormal, AlertIsCurrent, BeforeCrashMark,
               BeforeLaunchMark, Updating
<1>6. CASE ReadLaunchMark
  <2>1. PICK to \in {"update", "wait"} :
          Enter(to) /\ (to = "wait" => ~(auto /\ ~loaded' /\ ~crashed))
    BY <1>6 DEF ReadLaunchMark, ChecksForUpdates
  <2>2. /\ at = "boot" /\ loaded' = lfrr /\ lfrr' = FALSE
        /\ UNCHANGED <<came, crash, first, crashed, auto, opened, rounds,
                       server, ending>>
    BY <1>6 DEF ReadLaunchMark, Leave
  <2>3. /\ at' = to /\ at' \in Places
        /\ polled' \in BOOLEAN /\ busy' \in BOOLEAN
    BY <1>1, <1>2, <2>1, EnterTyped
  <2>4. by = "nothing"
    BY <2>2 DEF Screens, LaunchedLast, Late, ScreenTypes
  <2>5. ScreenTypes'
    <3>1. lfrr' \in BOOLEAN /\ loaded' \in BOOLEAN
      BY <2>2, Zenon DEF Screens, ScreenTypes
    <3> QED  BY <2>2, <2>3, <3>1 DEF Screens, ScreenTypes
  <2> QED  BY <2>1, <2>2, <2>3, <2>4, <2>5
           DEF Screens, LaunchedLast, MarksKept, CheckedFirst, StatusIsLast,
               AutoLaunchIsNormal, AlertIsCurrent, BeforeCrashMark,
               BeforeLaunchMark, Updating
<1>7. CASE StartUpdate
  <2>1. PICK to \in {"failed", "ask", "menu", "wait"} : Enter(to)
    BY <1>7 DEF StartUpdate, AfterUpdate
  <2>2. /\ at = "update" /\ checked' = TRUE
        /\ UNCHANGED <<marks, flags, rounds, ending>>
    BY <1>7 DEF StartUpdate, Leave
  <2>3. /\ at' = to /\ at' \in Places
        /\ polled' \in BOOLEAN /\ busy' \in BOOLEAN
    BY <1>1, <1>2, <2>1, EnterTyped
  <2>4. /\ StatusIsLast' /\ network' \in BOOLEAN
        /\ status' \in {"invalid", "none", "alert"}
        /\ last' \in {"untried", "failed", "none", "alert"}
    BY <1>7, FetchTyped DEF StartUpdate, Screens, ScreenTypes, StatusIsLast
  <2>5. by = "nothing"
    BY <2>2 DEF Screens, LaunchedLast, Late, ScreenTypes
  <2>6. ScreenTypes'
    BY <2>2, <2>3, <2>4 DEF Screens, ScreenTypes
  <2> QED  BY <2>1, <2>2, <2>3, <2>4, <2>5, <2>6
           DEF Screens, LaunchedLast, MarksKept, CheckedFirst,
               AutoLaunchIsNormal, AlertIsCurrent, BeforeCrashMark,
               BeforeLaunchMark, Updating
<1> QED  BY <1>3, <1>4, <1>5, <1>6, <1>7
(* From the five seconds on.                                               *)
LEMMA LaunchKeepsScreens ==
  ASSUME Screens,
         \/ PressA \/ OpenMenu \/ WaitOn \/ MenuKey \/ MenuLaunch
         \/ ShowStatus \/ Launch
  PROVE  Screens'
<1> USE DEF marks, flags, server, ending
<1>1. busy \in BOOLEAN
  BY DEF Screens, ScreenTypes
<1>2. {"launch", "load", "menu", "fatal", "wait", "status"} \subseteq Places
  BY DEF Places, Polling, Drawing, Deaf
<1>3. CASE PressA \/ MenuLaunch
  <2>1. /\ at \in {"wait", "menu", "prompt"}
        /\ Enter("launch") /\ by' = "button" /\ UNCHANGED shown
        /\ UNCHANGED <<marks, flags, rounds, server>>
    BY <1>3 DEF PressA, MenuLaunch, LaunchBy, Leave
  <2>2. /\ at' = "launch" /\ at' \in Places
        /\ polled' \in BOOLEAN /\ busy' \in BOOLEAN
    BY <1>1, <1>2, <2>1, EnterTyped
  <2>3. ScreenTypes'
    BY <2>1, <2>2 DEF Screens, ScreenTypes
  <2> QED  BY <2>1, <2>2, <2>3
           DEF Screens, LaunchedLast, MarksKept, CheckedFirst, StatusIsLast,
               AutoLaunchIsNormal, AlertIsCurrent, BeforeCrashMark,
               BeforeLaunchMark, Updating, Late
<1>4. CASE OpenMenu
  <2>1. PICK to \in {"menu", "fatal"} : Enter(to)
    BY <1>4 DEF OpenMenu
  <2>2. /\ at = "wait" /\ opened' = TRUE
        /\ UNCHANGED <<marks, first, loaded, crashed, auto, rounds, server,
                       ending>>
    BY <1>4 DEF OpenMenu, Leave
  <2>3. /\ at' = to /\ at' \in Places
        /\ polled' \in BOOLEAN /\ busy' \in BOOLEAN
    BY <1>1, <1>2, <2>1, EnterTyped
  <2>4. by = "nothing"
    BY <2>2 DEF Screens, LaunchedLast, Late, ScreenTypes
  <2>5. ScreenTypes'
    BY <2>2, <2>3 DEF Screens, ScreenTypes
  <2> QED  BY <2>1, <2>2, <2>3, <2>4, <2>5
           DEF Screens, LaunchedLast, MarksKept, CheckedFirst, StatusIsLast,
               AutoLaunchIsNormal, AlertIsCurrent, BeforeCrashMark,
               BeforeLaunchMark, Updating
<1>5. CASE WaitOn
  <2>1. /\ at = "wait" /\ ~first /\ ~loaded /\ ~crashed
        /\ rounds' = rounds - 1
        /\ UNCHANGED <<marks, flags, server>>
    BY <1>5 DEF WaitOn, Leave, NoAutoLaunch
  <2>2. by = "nothing" /\ rounds \in 1 .. WaitRounds
    BY <2>1, LauncherAssumption DEF Screens, LaunchedLast, Late, ScreenTypes
  <2>3. rounds' \in 0 .. WaitRounds /\ (rounds # 1 => rounds' # 0)
    BY <2>1, <2>2, LauncherAssumption
  <2>4. came = "cold" /\ (auto => checked)
    <3>1. came \in {"cold", "game", "crash"}
      BY DEF Screens, ScreenTypes
    <3>2. came # "game" /\ came # "crash"
      BY <2>1 DEF Screens, MarksKept, BeforeCrashMark, BeforeLaunchMark
    <3> QED  BY <2>1, <3>1, <3>2 DEF Screens, CheckedFirst
  <2>5. CASE rounds = 1
    <3>1. Enter("launch") /\ by' = "timeout" /\ UNCHANGED shown
      BY <1>5, <2>5 DEF WaitOn, LaunchBy
    <3>2. /\ at' = "launch" /\ at' \in Places
          /\ polled' \in BOOLEAN /\ busy' \in BOOLEAN
      BY <1>1, <1>2, <3>1, EnterTyped
    <3>3. ScreenTypes'
      BY <2>1, <2>3, <3>1, <3>2 DEF Screens, ScreenTypes
    <3> QED  BY <2>1, <2>4, <3>1, <3>2, <3>3
             DEF Screens, LaunchedLast, MarksKept, CheckedFirst, StatusIsLast,
                 AutoLaunchIsNormal, AlertIsCurrent, BeforeCrashMark,
                 BeforeLaunchMark, Updating, Late
  <2>6. CASE rounds # 1
    <3>1. Enter("wait") /\ UNCHANGED ending
      BY <1>5, <2>6 DEF WaitOn
    <3>2. /\ at' = "wait" /\ at' \in Places
          /\ polled' \in BOOLEAN /\ busy' \in BOOLEAN
      BY <1>1, <1>2, <3>1, EnterTyped
    <3>3. ScreenTypes'
      BY <2>1, <2>3, <3>1, <3>2 DEF Screens, ScreenTypes
    <3> QED  BY <2>1, <2>2, <2>3, <2>6, <3>1, <3>2, <3>3
             DEF Screens, LaunchedLast, MarksKept, CheckedFirst, StatusIsLast,
                 AutoLaunchIsNormal, AlertIsCurrent
  <2> QED  BY <2>5, <2>6
<1>6. CASE MenuKey
  <2>1. /\ at = "menu" /\ auto' \in BOOLEAN /\ Enter("menu")
        /\ UNCHANGED <<marks, first, loaded, crashed, opened, rounds, server,
                       ending>>
    BY <1>6 DEF MenuKey, Leave
  <2>2. /\ at' = "menu" /\ at' \in Places
        /\ polled' \in BOOLEAN /\ busy' \in BOOLEAN
    BY <1>1, <1>2, <2>1, EnterTyped
  <2>3. by = "nothing"
    BY <2>1 DEF Screens, LaunchedLast, Late, ScreenTypes
  <2>4. ScreenTypes'
    BY <2>1, <2>2 DEF Screens, ScreenTypes
  <2> QED  BY <2>1, <2>2, <2>3, <2>4
           DEF Screens, LaunchedLast, MarksKept, CheckedFirst, StatusIsLast,
               AutoLaunchIsNormal, AlertIsCurrent, Updating
<1>7. CASE ShowStatus
  <2>1. /\ at = "extras" /\ Enter("status")
        /\ UNCHANGED <<marks, flags, rounds, network, checked, ending>>
    BY <1>7 DEF ShowStatus, Leave
  <2>2. /\ at' = "status" /\ at' \in Places
        /\ polled' \in BOOLEAN /\ busy' \in BOOLEAN
    BY <1>1, <1>2, <2>1, EnterTyped
  <2>3. /\ StatusIsLast'
        /\ status' \in {"invalid", "none", "alert"}
        /\ last' \in {"untried", "failed", "none", "alert"}
    BY <1>7, FetchTyped DEF ShowStatus, Screens, ScreenTypes, StatusIsLast
  <2>4. by = "nothing"
    BY <2>1 DEF Screens, LaunchedLast, Late, ScreenTypes
  <2>5. ScreenTypes'
    BY <2>1, <2>2, <2>3 DEF Screens, ScreenTypes
  <2> QED  BY <2>1, <2>2, <2>3, <2>4, <2>5
           DEF Screens, LaunchedLast, MarksKept, CheckedFirst,
               AutoLaunchIsNormal, AlertIsCurrent, BeforeCrashMark,
               BeforeLaunchMark, Updating
<1>8. CASE Launch
  <2>1. /\ at = "launch" /\ Enter("load")
        /\ shown' = (status' = "alert")
        /\ UNCHANGED <<marks, flags, rounds, network, checked, by>>
    BY <1>8 DEF Launch, Leave
  <2>2. /\ at' = "load" /\ at' \in Places
        /\ polled' \in BOOLEAN /\ busy' \in BOOLEAN
    BY <1>1, <1>2, <2>1, EnterTyped
  <2>3. /\ StatusIsLast'
        /\ status' \in {"invalid", "none", "alert"}
        /\ last' \in {"untried", "failed", "none", "alert"}
    BY <1>8, FetchTyped DEF Launch, Screens, ScreenTypes, StatusIsLast
  <2>4. shown' \in BOOLEAN
    BY <2>1, Zenon
  <2>5. ScreenTypes'
    BY <2>1, <2>2, <2>3, <2>4 DEF Screens, ScreenTypes
  <2>6. AlertIsCurrent'
    BY <2>1, <2>3 DEF AlertIsCurrent, StatusIsLast
  <2> QED  BY <2>1, <2>2, <2>3, <2>5, <2>6
           DEF Screens, LaunchedLast, MarksKept, CheckedFirst,
               AutoLaunchIsNormal, BeforeCrashMark, BeforeLaunchMark,
               Updating, Late
<1> QED  BY <1>3, <1>4, <1>5, <1>6, <1>7, <1>8

LEMMA ScreensStep == Screens /\ [LNext]_lvars => Screens'
BY ButtonsKeepScreens, MovesKeepScreens, BootKeepsScreens, LaunchKeepsScreens
   DEF LNext, Stay
-----------------------------------------------------------------------------
(* What is heard                                                           *)

(* Since a press that nothing deaf has followed, the loop has gone round   *)
(* at most once, and a check that has begun since then has read its time.  *)
Heard ==
  state # NoButton /\ ~busy /\ pc # "reset" =>
    /\ at \in Polling
    /\ clock - time <= IF polled THEN 0 ELSE 1
    /\ pc = "checking" /\ ~raced => since <= 1

(* All other steps go from one screen to another.                          *)
LEMMA ScreensLeftAndEntered ==
  ASSUME LNext
  PROVE  \/ LTick \/ (\E mode \in Modes : LPress(mode)) \/ LStartCheck
         \/ LFinishCheck \/ UNCHANGED lvars
         \/ \E p, q : Leave(p) /\ Enter(q)
<1>1. ASSUME NEW p, NEW q, Move(p, q) PROVE Leave(p) /\ Enter(q)
  BY <1>1 DEF Move
<1>2. CASE Exit \/ FatalExit \/ Accept \/ Recreate \/ CrashSeen \/ CheckCover
           \/ ReadDiskId \/ DiscInserted \/ UpdateOrSkip \/ UpdateSizes
           \/ UpdateOrNotLarge \/ Install \/ UpdateFailed \/ MenuChoice
           \/ PromptBack \/ ExtrasKey \/ RunTest \/ ShowResult \/ ResultSeen
           \/ StatusSeen \/ Load
  BY <1>1, <1>2, Zenon DEF Exit, FatalExit, Accept, Recreate, CrashSeen,
    CheckCover, ReadDiskId, DiscInserted, UpdateOrSkip, UpdateSizes,
    UpdateOrNotLarge, Install, UpdateFailed, MenuChoice, PromptBack,
    ExtrasKey, RunTest, ShowResult, ResultSeen, StatusSeen, Load
<1>3. CASE Start \/ LoadSettings \/ ReadCrashMark \/ ReadLaunchMark
  BY <1>3, Zenon DEF Start, LoadSettings, ReadCrashMark, ReadLaunchMark
<1>4. CASE StartUpdate \/ PressA \/ OpenMenu
  BY <1>4, Zenon DEF StartUpdate, PressA, OpenMenu, LaunchBy
<1>5. CASE WaitOn \/ MenuKey \/ MenuLaunch \/ ShowStatus \/ Launch
  BY <1>5, Zenon DEF WaitOn, MenuKey, MenuLaunch, ShowStatus, Launch, LaunchBy
<1> QED  BY <1>2, <1>3, <1>4, <1>5 DEF LNext, Stay

LEMMA HeardStep ==
  ASSUME IInv, Heard, Screens, [LNext]_lvars
  PROVE  Heard'
<1>1. /\ clock \in Int /\ time \in Int /\ since \in Int /\ Limit \in Int
      /\ Limit > 1
  BY ShutdownAssumption, LauncherAssumption DEF IInv, TypeOK
<1>2. CASE LTick
  <2>1. /\ at \in Polling => polled
        /\ clock' = clock + 1
        /\ polled' = (polled /\ at \notin Polling)
        /\ UNCHANGED <<state, time, pc, since, raced, at, busy>>
    BY <1>2 DEF LTick, Tick
  <2>2. at \in Polling => polled /\ ~polled'
    BY <2>1, Zenon
  <2> QED  BY <1>1, <2>1, <2>2 DEF Heard
<1>3. ASSUME NEW mode \in Modes, LPress(mode)
      PROVE  Heard'
  <2>1. /\ time' = clock /\ raced' = (pc = "checking")
        /\ busy' = (at \notin Polling)
        /\ UNCHANGED <<clock, pc, since, at, polled>>
    BY <1>3 DEF LPress, Press
  <2>2. (pc = "checking" => raced') /\ (~busy' => at \in Polling)
    BY <2>1, Zenon
  <2> QED  BY <1>1, <2>1, <2>2 DEF Heard
<1>4. CASE LStartCheck
  <2>1. /\ since' = clock - time /\ pc = "working"
        /\ UNCHANGED <<clock, state, time, at, polled, busy>>
    BY <1>4 DEF LStartCheck, StartCheck
  <2> QED  BY <1>1, <2>1 DEF Heard
<1>5. CASE LFinishCheck
  <2>1. state' # NoButton => pc' = "reset"
    BY <1>1, <1>5 DEF LFinishCheck, FinishCheck
  <2> QED  BY <2>1 DEF Heard
<1>6. CASE UNCHANGED lvars
  BY <1>6 DEF lvars, vars, Heard
<1>7. ASSUME NEW p, NEW q, Leave(p), Enter(q)
      PROVE  Heard'
  <2>1. /\ pc = "working" /\ at' = q /\ polled' = FALSE
        /\ busy' = (busy \/ q \notin Polling)
        /\ UNCHANGED <<clock, state, time, pc, since, raced>>
    BY <1>7 DEF Leave, Enter, vars
  <2>2. ~busy' => ~busy /\ q \in Polling
    BY <2>1, Zenon
  <2> QED  BY <1>1, <2>1, <2>2 DEF Heard
<1> QED  BY <1>2, <1>3, <1>4, <1>5, <1>6, <1>7, ScreensLeftAndEntered

LInv == IInv /\ Screens /\ Heard

LEMMA LauncherInvariance == LSpec => []LInv
<1>1. LInit => LInv
  <2>1. LInit => Heard
    BY DEF LInit, Init, Heard
  <2> QED  BY <2>1, InitInv, ScreensInit DEF LInit, LInv
<1>2. LInv /\ [LNext]_lvars => LInv'
  BY NextInv, StepIsShutdownStep, ScreensStep, HeardStep DEF LInv
<1> QED  BY <1>1, <1>2, PTL DEF LSpec

(* Every variable keeps its type; the five seconds are never counted below *)
(* zero (main.c:277-308).                                                  *)
THEOREM LauncherTyped == LSpec => []LTypeOK
<1>1. LInv => LTypeOK
  <2> SUFFICES ASSUME LInv PROVE LTypeOK
    OBVIOUS
  <2>1. TypeOK /\ ScreenTypes
    BY DEF LInv, IInv, Screens
  <2> QED  BY <2>1 DEF LTypeOK, ScreenTypes, Places
<1> QED  BY <1>1, LauncherInvariance, PTL

(* The game starts without a button only after a cold start that is not    *)
(* the first, and past the check for updates if that is switched on,       *)
(* whatever marks an earlier game left (main.c:238-240, 290-291).          *)
THEOREM StartsByItselfNormally == LSpec => []AutoLaunchIsNormal
<1>1. LInv => AutoLaunchIsNormal
  BY DEF LInv, Screens
<1> QED  BY <1>1, LauncherInvariance, PTL

(* The alert at the launch is that of the last fetch, whichever screen     *)
(* made it (main.c:322-342).                                               *)
THEOREM ShowsLastAlert == LSpec => []AlertIsCurrent
<1>1. LInv => AlertIsCurrent
  BY DEF LInv, Screens
<1> QED  BY <1>1, LauncherInvariance, PTL

(* On every screen the console does what the last press asked for.         *)
THEOREM ScreensResetAsWanted == LSpec => []ResetIsWanted
<1>1. LInv => ResetIsWanted
  BY DEF LInv, IInv
<1> QED  BY <1>1, LauncherInvariance, PTL

(* On a screen with checks no press is lost but to a race with a check,    *)
(* however long the screen is shown (prompt.c:125, main.c:279,             *)
(* settings.c:177 and 586, time.c:37).                                     *)
THEOREM ScreensHearPresses == LSpec => HearsPresses
<1> DEFINE Hears == (state # NoButton /\ state' = NoButton) => raced \/ busy
<1>1. LInv /\ [LNext]_lvars => [Hears]_lvars
  <2> SUFFICES ASSUME LInv, LNext, state # NoButton, state' = NoButton,
                      ~raced, ~busy
               PROVE  FALSE
    OBVIOUS
  <2>1. [Next]_vars
    BY StepIsShutdownStep
  <2>2. pc = "checking" /\ since >= Limit
    BY <2>1 DEF Next, Tick, Press, StartCheck, FinishCheck, Reset, vars,
                Modes, NoButton
  <2>3. since <= 1 /\ since \in Int
    BY <2>2 DEF LInv, Heard, IInv, TypeOK
  <2> QED  BY <2>2, <2>3, ShutdownAssumption, LauncherAssumption
<1> QED  BY <1>1, LauncherInvariance, PTL DEF LSpec, HearsPresses
=============================================================================

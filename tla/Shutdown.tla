------------------------------ MODULE Shutdown ------------------------------
(***************************************************************************)
(* The POWER and RESET buttons (source/shutdown.c). The buttons' callbacks *)
(* run in interrupts and note which button was pressed and when; the main  *)
(* thread shuts down at the checks it makes between its other work, if the *)
(* press is not too old by then.                                           *)
(*                                                                         *)
(* An interrupt may come between the reads of rrc_shutdown_check. Time is  *)
(* counted in steps, Limit of which are RRC_SHUTDOWN_CHECK_TIME_MS.        *)
(***************************************************************************)
EXTENDS Integers

CONSTANTS
  Limit,       \* RRC_SHUTDOWN_CHECK_TIME_MS
  MaxClock,    \* bound on the clock
  MaxPresses   \* bound on the presses

ASSUME ShutdownAssumption ==
  /\ Limit \in Nat \ {0}
  /\ MaxClock \in Nat /\ Limit <= MaxClock
  /\ MaxPresses \in Nat

NoButton == "none"
Modes == {"poweroff", "menu"}

VARIABLES
  clock,    \* rrc_gettime()
  state,    \* _shutdown_state
  time,     \* _shutdown_time
  pc,       \* the main thread: "working", "checking", "reset"
  since,    \* time_since_trigger, once read
  began,    \* history: when the check under way, or the last one, began
  raced,    \* history: a button was pressed during that check
  button,   \* history: the button pressed last
  presses   \* the number of presses

vars == <<clock, state, time, pc, since, began, raced, button, presses>>

(* The clock runs since 2000 and time_since_trigger is an int, so before   *)
(* the first press the difference to the initial time of 0 may be anything.*)
Init ==
  /\ clock \in 0 .. Limit
  /\ state = NoButton /\ time = 0
  /\ pc = "working"
  /\ since = 0 /\ began = 0
  /\ raced = FALSE
  /\ button = NoButton
  /\ presses = 0

Tick ==
  /\ pc # "reset" /\ clock < MaxClock
  /\ clock' = clock + 1
  /\ UNCHANGED <<state, time, pc, since, began, raced, button, presses>>

(* power_callback and reset_callback.                                      *)
Press(mode) ==
  /\ pc # "reset" /\ presses < MaxPresses
  /\ time' = clock
  /\ state' = mode
  /\ button' = mode
  /\ raced' = (pc = "checking")
  /\ presses' = presses + 1
  /\ UNCHANGED <<clock, pc, since, began>>

(* rrc_shutdown_check reads the time of the press and the clock ...        *)
StartCheck ==
  /\ pc = "working"
  /\ since' = clock - time
  /\ began' = clock
  /\ raced' = FALSE
  /\ pc' = "checking"
  /\ UNCHANGED <<clock, state, time, button, presses>>

(* A press is too old one step too early.                                  *)
FinishCheckEarly ==
  /\ pc = "checking"
  /\ \/ /\ state # NoButton /\ since < Limit - 1
        /\ pc' = "reset"
        /\ UNCHANGED state
     \/ /\ since >= Limit - 1
        /\ pc' = "working"
        /\ state' = NoButton
     \/ /\ state = NoButton /\ since < Limit - 1
        /\ pc' = "working"
        /\ UNCHANGED state
  /\ UNCHANGED <<clock, time, since, began, raced, button, presses>>

(* The age of the press is not looked at.                                  *)
FinishCheckAnyAge ==
  /\ pc = "checking"
  /\ pc' = IF state # NoButton THEN "reset" ELSE "working"
  /\ UNCHANGED <<clock, state, time, since, began, raced, button, presses>>

(* ... and then the button, which it may forget.                           *)
FinishCheck ==
  /\ pc = "checking"
  /\ \/ /\ state # NoButton /\ since < Limit
        /\ pc' = "reset"
        /\ UNCHANGED state
     \/ /\ since >= Limit
        /\ pc' = "working"
        /\ state' = NoButton
     \/ /\ state = NoButton /\ since < Limit
        /\ pc' = "working"
        /\ UNCHANGED state
  /\ UNCHANGED <<clock, time, since, began, raced, button, presses>>

Reset ==
  /\ pc = "reset"
  /\ UNCHANGED vars

Next ==
  \/ Tick \/ StartCheck \/ FinishCheck \/ Reset
  \/ \E mode \in Modes : Press(mode)

Spec == Init /\ [][Next]_vars

-----------------------------------------------------------------------------
(* Type invariant.                                                         *)
TypeOK ==
  /\ clock \in 0 .. MaxClock
  /\ state \in Modes \cup {NoButton}
  /\ time \in 0 .. MaxClock
  /\ pc \in {"working", "checking", "reset"}
  /\ since \in 0 .. MaxClock
  /\ began \in 0 .. MaxClock
  /\ raced \in BOOLEAN
  /\ button \in Modes \cup {NoButton}
  /\ presses \in 0 .. MaxPresses

(* The console is shut down the way the last press asked for, and only for *)
(* a press less than Limit old when the check began, however the presses   *)
(* fall between the reads of the check (shutdown.c:28-30, 51-59).          *)
ResetIsWanted ==
  pc = "reset" => state = button /\ began - time < Limit

(* A press is forgotten only when it is too old, or when it came within a  *)
(* check (shutdown.c:60-64).                                               *)
ForgetsLateOrRacing ==
  [][(state # NoButton /\ state' = NoButton) =>
       clock - time >= Limit \/ raced]_vars

(* shutdown.c:60: "set state back to off if not triggered in time". A      *)
(* press between the two reads of a check is set back at once, in time for *)
(* the next check.                                                         *)
ForgetsOnlyLate ==
  [][(state # NoButton /\ state' = NoButton) => clock - time >= Limit]_vars
=============================================================================

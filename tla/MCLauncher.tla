----------------------------- MODULE MCLauncher -----------------------------
(* Two presses and all screens; the five seconds are two rounds.           *)
EXTENDS Launcher
=============================================================================

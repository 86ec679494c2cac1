------------------------------- MODULE MCUpnp -------------------------------
(* Three rounds, the last of them shorter than the others.                 *)
EXTENDS Upnp
=============================================================================

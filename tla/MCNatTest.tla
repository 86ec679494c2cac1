----------------------------- MODULE MCNatTest -----------------------------
(* The six kinds of NAT, any of the servers unknown, any losses.           *)
EXTENDS NatTest
=============================================================================

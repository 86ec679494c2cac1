--------------------------- MODULE MCVersionsFile ---------------------------
(* Versions that differ in each part, and in opposite directions in two;   *)
(* "1.2.3.4" is read as 1.2.3.                                             *)
EXTENDS VersionsFile

V(a, b, c) == [major |-> a, minor |-> b, patch |-> c]

MCVersionOf ==
  [v \in {"1.2.3", "1.2.3.4", "1.10.0", "2.0.0"} |->
     CASE v \in {"1.2.3", "1.2.3.4"} -> V(1, 2, 3)
       [] v = "1.10.0" -> V(1, 10, 0)
       [] v = "2.0.0" -> V(2, 0, 0)]
=============================================================================

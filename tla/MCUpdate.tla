------------------------------ MODULE MCUpdate ------------------------------
(* Three releases: file "b" is replaced, "a" is deleted and comes back, "c" *)
(* is added and deleted; release 3 both ships and deletes "c".  At first    *)
(* "a" is there and empty.  A file takes one or two clusters, a ZIP two.    *)
EXTENDS Update

MCLatest == 3
MCFiles == {"a", "b", "c"}
MCShips == <<{"a", "b"}, {"b", "c"}, {"a", "c"}>>
MCRemoves == <<{}, {"a"}, {"c"}>>

MCZipSize == <<3, 4, 3>>
MCSize == [v \in 0 .. MCLatest |-> [f \in MCFiles |->
  IF v = 0 THEN 0 ELSE IF f = "a" /\ v = 1 THEN 3 ELSE 1]]
MCFreeSpace == {1, 4, 5, 9}

RECURSIVE PackOf(_)
PackOf(v) ==
  [f \in MCFiles |->
    IF v = 0 THEN IF f = "a" THEN 0 ELSE Absent
    ELSE IF f \in MCRemoves[v] THEN Absent
    ELSE IF f \in MCShips[v] THEN v ELSE PackOf(v - 1)[f]]

MCPack == [v \in 0 .. MCLatest |-> PackOf(v)]
=============================================================================

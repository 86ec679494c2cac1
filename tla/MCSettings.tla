----------------------------- MODULE MCSettings -----------------------------
(* Updates change the number of "My Stuff" choices between one and two;    *)
(* the savegame always has one. Two faults are a store cut short and       *)
(* another one after it.                                                   *)
EXTENDS Settings

MCMaxChoices == [k \in InXml |-> IF k = "myStuff" THEN 2 ELSE 1]
=============================================================================

--------------------------- MODULE MCRteDvdThreads ---------------------------
(* Two game threads, three FileInfos and three SD files on a pool of two   *)
(* slots: every slot is reused, and the pool overflows.                    *)
EXTENDS RteDvdThreads, TLC

CONSTANTS e1, e2, e3, h1, h2, h3, t1, t2

MCEntries == {e1, e2, e3}
MCFileInfos == {h1, h2, h3}
MCThreads == {t1, t2}
MCPaths == {"p"}
MCReplacement == [p \in MCPaths |-> e1]
MCOffsets == {0, 1}

(* Threads, FileInfos and files may change places; slots are searched in   *)
(* order.  (MCReplacement plays no part in these calls.)                    *)
Symmetric ==
  Permutations(MCThreads) \cup Permutations(MCFileInfos) \cup Permutations(MCEntries)

(* What the game is assumed to keep apart.                                 *)
Disciplined == {"same_open", "close_with_open"}
ClosesOverlapOpens == {"same_open"}
OpensOverlap == {"close_with_open"}
=============================================================================

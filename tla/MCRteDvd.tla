------------------------------ MODULE MCRteDvd ------------------------------
(* A small instance of RteDvd: three SD files for a pool of two slots, so  *)
(* that the pool overflows, and three FileInfos, so that one file is open  *)
(* several times.  Path p4 is not replaced.                                *)
EXTENDS RteDvd

CONSTANTS e1, e2, e3, h1, h2, h3

MCEntries == {e1, e2, e3}
MCFileInfos == {h1, h2, h3}
MCPaths == {"p1", "p2", "p3", "p4"}
MCReplacement ==
  [p \in MCPaths |-> CASE p = "p1" -> e1 [] p = "p2" -> e2
                       [] p = "p3" -> e3 [] OTHER -> Nothing]
=============================================================================

----------------------------- MODULE MCGameLoad -----------------------------
(* "a" and "b" and "/d/b" have one hash, "/d/a" another; the game asks for  *)
(* paths in upper case too.  One file of the patches is missing; the folder *)
(* has a subfolder and main.dol, and there is an AppleDouble file.          *)
(*                                                                          *)
(* Each DOL has two sections with bss around and behind the second, over    *)
(* the launcher at 0 .. 3; a DVD function is in each section.  The first    *)
(* memory patch is right for the disc's DOL only, the second for the first. *)
EXTENDS GameLoad

Seg == {"a", "b", "A", "d", "s", "main.dol", "._a", "q"}

MCDiscs == [rooted : {TRUE}, path : {<<"d", "a">>, <<"d", "b">>}]
             \cup [rooted : {FALSE}, path : {<<"a">>, <<"b">>, <<"._a">>}]
MCTree == [x \in {"rr"} |-> {<<"a">>, <<"main.dol">>, <<"s", "b">>}]
MCExternals == {<<"rr", "a">>, <<"x">>, <<"missing">>}
MCOnCard == {<<"rr", "a">>, <<"x">>}
MCFolders == {[disc |-> <<>>, dir |-> "rr", recursive |-> TRUE],
              [disc |-> <<"/", "d">>, dir |-> "rr", recursive |-> FALSE]}
MCGamePaths == {<<"d", "a">>, <<"d", "b">>, <<"q", "A">>, <<"b">>, <<"q">>}
MCLower == [s \in Seg |-> IF s = "A" THEN "a" ELSE s]
MCMainDol == <<"main.dol">>
MCDotUnderscore == {"._a"}
MCHash == [p \in Seg \X Seg |-> IF p = <<"d", "a">> THEN 2 ELSE 1]
            @@ [p \in {<<s>> : s \in Seg} |-> IF p = <<"q">> THEN 0 ELSE 1]

Section(off, addr, size) == [off |-> off, addr |-> addr, size |-> size]
Region(at, size) == [at |-> at, size |-> size]

MCDols == ("disc" :> [sections |-> <<Section(1, 0, 3), Section(4, 4, 2)>>,
                      bss |-> Region(3, 4), length |-> 6])
       @@ ("pack" :> [sections |-> <<Section(3, 0, 3), Section(1, 4, 2)>>,
                      bss |-> Region(3, 4), length |-> 6])
MCMainDolReads == {0, 2, 6}
MCFstSizes == {1, 9}
MCRteSections == {Region(42, 3), Region(45, 5), Region(52, 1)}
MCRteFiles == {[sections |-> MCRteSections, bss |-> Region(51, 3), current |-> TRUE],
               [sections |-> MCRteSections, bss |-> Region(51, 5), current |-> TRUE],
               [sections |-> MCRteSections, bss |-> Region(51, 3), current |-> FALSE]}
MCTrampolines == <<45, 47>>
MCStatics == {55, 56}
MCHooked == <<1, 4>>
MCPulDests == {2}
MCMemPatches ==
  {[addr |-> 0, value |-> <<"value", 1>>, original |-> <<"dol", <<"disc", 1>> >>],
   [addr |-> 0, value |-> <<"value", 2>>, original |-> <<"value", 1>>]}
=============================================================================

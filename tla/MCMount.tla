------------------------------ MODULE MCMount ------------------------------
(* The disc that is listed has directories five deep, two of them side by     *)
(* side at depth four with a directory below one of them, a directory d at    *)
(* the root and another in /a/b, and a chain of links from the root down and  *)
(* up again.  The disc that is mounted has a file and a directory with a      *)
(* link and a file.                                                           *)
EXTENDS Mount, Sequences, TLC

D(name, ino)         == [name |-> name, dir |-> TRUE, link |-> FALSE, extent |-> ino,
                         target |-> <<>>, ino |-> ino, len |-> 3]
FileOf(name, ino)    == [name |-> name, dir |-> FALSE, link |-> FALSE, extent |-> ino,
                         target |-> <<>>, ino |-> ino, len |-> 2]
L(name, ino, target) == [name |-> name, dir |-> FALSE, link |-> TRUE, extent |-> 0,
                         target |-> target, ino |-> ino, len |-> 4]

MCListed ==
    (1 :> <<D(".", 1), D("..", 1), D("a", 2), D("d", 7), FileOf("f", 20),
            L("l", 30, <<"a", "b", "m">>), L("s", 31, <<"s">>)>>) @@
    (2 :> <<D(".", 2), D("..", 1), D("b", 3), L("g", 32, <<"..", "f">>)>>) @@
    (3 :> <<D(".", 3), D("..", 2), D("c", 4), D("d", 8), L("m", 33, <<"c", "n">>)>>) @@
    (4 :> <<D(".", 4), D("..", 3), D("d", 5), D("e", 6),
            L("n", 34, <<"..", "..", "..", "f">>)>>) @@
    (5 :> <<D(".", 5), D("..", 4), FileOf("p", 21), D("x", 9)>>) @@
    (6 :> <<D(".", 6), D("..", 4), FileOf("q", 22)>>) @@
    (7 :> <<D(".", 7), D("..", 1), FileOf("h", 23)>>) @@
    (8 :> <<D(".", 8), D("..", 3), FileOf("h", 24)>>) @@
    (9 :> <<D(".", 9), D("..", 5), FileOf("r", 25)>>)

MCMounted ==
    (1 :> <<D(".", 1), D("..", 1), D("a", 2), FileOf("f", 20)>>) @@
    (2 :> <<D(".", 2), D("..", 1), L("l", 30, <<"f">>)>>)

MCInfo   == (1 :> D(".", 1)) @@ (2 :> D("a", 2)) @@ (20 :> FileOf("f", 20))
            @@ (30 :> L("l", 30, <<"f">>))
MCParent == (1 :> 1) @@ (2 :> 1) @@ (20 :> 1) @@ (30 :> 2)

MCCommands ==
    [cmd : {"ls"}, path : {<<>>, <<"a", "b">>, <<"f">>, <<"f", "x">>, <<"a", "x">>}]
    \cup [cmd : {"lsr"}, path : {<<>>, <<"a", ".">>, <<"f">>}]
    \cup [cmd : {"tree"}, path : {<<>>, <<"a", "b">>, <<"f">>}]
    \cup [cmd : {"cp"}, path : {<<"l">>, <<"s">>, <<"a", "g">>, <<"a", "b">>, <<"a", "b", "d", "h">>}]

OneCopy == {[cmd |-> "cp", path |-> <<"l">>]}
=============================================================================

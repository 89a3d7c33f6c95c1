----------------------------- MODULE MCStorage -----------------------------
(* A tree with a file at depth three, calls at every level of it and one      *)
(* that begins with "..".  An object of three bytes that shrinks, grows or    *)
(* vanishes, on a host with one address that answers and one that does not.   *)
(* A directory of two files and one below it, with its own key.               *)
EXTENDS Storage

MCKeyKind == <<"self", "file", "prefix", "file">>

MCPaths   == {<<".">>, <<"a">>, <<"a", "b">>, <<"a", "b", "c">>, <<"..", "a", "d">>}
MCPreload == <<<<"a", "b", "c">>, <<"g", "h">>>>
MCDirs    == UNION {{SubSeq(p, 1, n) : n \in 0 .. Len(p)} :
                    p \in {<<"a", "b", "c">>, <<"a", "d">>, <<"g", "h">>}}
MCHidden  == {<<"a", "b">>}

MCAddrs == ("host" :> <<"up", "down">>) @@ ("other" :> <<"up">>)
MCSize  == (0 :> 0) @@ (1 :> 3) @@ (2 :> 1)
MCReads == {[off |-> 1, len |-> 3]}
MCDeclared == {-1, 4}
=============================================================================

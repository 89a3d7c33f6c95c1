------------------------------ MODULE MCVDisc ------------------------------
(* A small set of files that meets every case of the layout: see README.   *)
EXTENDS VDisc

Name(id, len) == [id |-> id, len |-> len]

a == Name("a", 1)
d == Name("d", 1)
M == Name("M", 165)
L == Name("L", 300)
g == Name("g", 255)
l == Name("l", 1)
bad == Name("?", 1)

File(path, url, size) == [path |-> path, url |-> url, size |-> size]

MCFiles == { File(<<a>>, <<"x">>, 0),
             File(<<a, bad>>, <<"x", "y">>, 1),
             File(<<d, M>>, <<"x", "y", "y">>, 8 * MaxPartSize + 1),
             File(<<d, L>>, <<"x", "y", "z">>, LogicalBlockSize),
             File(<<g, a>>, <<"x">>, LogicalBlockSize + 1) }

MCLinks == { [path |-> <<d, l>>, target |-> <<Name("..", 0), Name("s", 500), a>>] }

MCValid == {a, d, M, L, g, l}

MCHeaderName == <<"h">>
MCVersionOf == << <<"1">>, <<"2">> >>
=============================================================================

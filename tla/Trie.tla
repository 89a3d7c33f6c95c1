-------------------------------- MODULE Trie --------------------------------
(***************************************************************************)
(* pkg/vdisc/trie.go: the compressed trie that maps the URLs of a disc's   *)
(* objects to addresses, and its inversion, in which a node knows its      *)
(* parent.  A trie is a sequence of nodes, the first one the root; a node  *)
(* has its content (a sequence of runes) and, per first rune, a child.     *)
(***************************************************************************)
EXTENDS Naturals, SequencesExt

TrieNode(content) ==
    [content |-> content, terminal |-> FALSE, value |-> 0, kids |-> <<>>]

NewTrieMap == << TrieNode(<<>>) >>

\* Node at is cut after idx runes of its content: a new node gets the rest,
\* with the value and the children.
Split(t, at, idx) ==
    LET other == [t[at] EXCEPT !.content = SubSeq(@, idx + 1, Len(@))]
    IN Append([t EXCEPT ![at].content = SubSeq(@, 1, idx),
                        ![at].terminal = FALSE,
                        ![at].kids = (Head(other.content) :> Len(t) + 1)],
              other)

\* A new child of node at that holds the rune r.
AddNode(t, at, r) ==
    Append([t EXCEPT ![at].kids = (r :> Len(t) + 1) @@ @], TrieNode(<<r>>))

\* One rune of TrieMap.Put's loop, from the place [t, at, idx].
PutRune(p, r) ==
    LET node == p.t[p.at]
        split == Split(p.t, p.at, p.idx)
    IN CASE p.idx < Len(node.content) /\ node.content[p.idx + 1] = r ->
                [p EXCEPT !.idx = @ + 1]
         [] p.idx < Len(node.content) /\ node.content[p.idx + 1] # r ->
                [t |-> AddNode(split, p.at, r), at |-> Len(split) + 1, idx |-> 1]
         [] p.idx = Len(node.content) /\ r \in DOMAIN node.kids ->
                [p EXCEPT !.at = node.kids[r], !.idx = 1]
         [] p.idx = Len(node.content) /\ r \notin DOMAIN node.kids
                                      /\ (node.terminal \/ node.kids # <<>>) ->
                [t |-> AddNode(p.t, p.at, r), at |-> Len(p.t) + 1, idx |-> 1]
         [] OTHER ->
                [p EXCEPT !.t[p.at].content = Append(@, r), !.idx = @ + 1]

Put(t, key, value) ==
    LET p == FoldLeft(PutRune, [t |-> t, at |-> 1, idx |-> 0], key)
        cut == IF p.idx < Len(p.t[p.at].content) THEN Split(p.t, p.at, p.idx) ELSE p.t
    IN [cut EXCEPT ![p.at].terminal = TRUE, ![p.at].value = value]

\* TrieMap.Get: the value of key as a set, empty if key has none.
Get(t, key) ==
    LET Step(p, r) ==
            LET node == t[p.at]
            IN CASE ~p.ok -> p
                 [] p.ok /\ p.idx < Len(node.content) ->
                        [p EXCEPT !.ok = node.content[p.idx + 1] = r, !.idx = @ + 1]
                 [] p.ok /\ p.idx = Len(node.content) /\ r \in DOMAIN node.kids ->
                        [p EXCEPT !.at = node.kids[r], !.idx = 1]
                 [] OTHER -> [p EXCEPT !.ok = FALSE]
        p == FoldLeft(Step, [ok |-> TRUE, at |-> 1, idx |-> 0], key)
    IN IF p.ok /\ t[p.at].terminal /\ p.idx = Len(t[p.at].content)
       THEN {t[p.at].value} ELSE {}

----------------------------------------------------------------------------
(* Inversion *)

\* The orders in which Go's maps may give the children of every node.
KidOrders(t) ==
    LET Perms(n) == SetToSeqs({t[n].kids[r] : r \in DOMAIN t[n].kids})
        Extend(fs, n) == {Append(f, o) : f \in fs, o \in Perms(n)}
    IN FoldLeft(Extend, {<<>>}, [n \in DOMAIN t |-> n])

\* TrieMap.Invert: level order; order[n] is the order of the children of n.
\* A branch is a node with children; indices of branches start at 0, and
\* branch 0 is the sentinel, its own parent.  Not ok is the panic on two
\* leaves with one value.
Invert(t, order) ==
    LET Visit(a, i) ==
            LET item == a.q[i]
                node == t[item.node]
                entry == [parent |-> item.parent, content |-> node.content]
                idx == Len(a.branches)
                kids == [k \in DOMAIN order[item.node] |->
                            [node |-> order[item.node][k], parent |-> idx]]
            IN [branches |-> IF node.kids = <<>> THEN a.branches
                             ELSE Append(a.branches, entry),
                leaves   |-> IF node.terminal THEN (node.value :> entry) @@ a.leaves
                             ELSE a.leaves,
                q        |-> a.q \o kids,
                ok       |-> a.ok /\ (node.terminal => node.value \notin DOMAIN a.leaves)]
    IN FoldLeft(Visit,
                [branches |-> << [parent |-> 0, content |-> <<>>] >>, leaves |-> <<>>,
                 q |-> << [node |-> 1, parent |-> 0] >>, ok |-> TRUE],
                [i \in 1 .. Len(t) |-> i])

\* extent.URL up to its resolution: the suffix behind the contents of the
\* branches from the prefix up to the sentinel.
WholeURI(uris, prefix, suffix) ==
    LET Up[n \in 0 .. Len(uris)] ==
            IF n = 0 THEN [at |-> prefix, uri |-> uris[prefix + 1].content \o suffix]
            ELSE LET node == uris[Up[n - 1].at + 1]
                 IN IF node.parent = Up[n - 1].at THEN Up[n - 1]
                    ELSE [at |-> node.parent,
                          uri |-> uris[node.parent + 1].content \o Up[n - 1].uri]
    IN Up[Len(uris)].uri
=============================================================================

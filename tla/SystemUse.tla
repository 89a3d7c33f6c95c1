----------------------------- MODULE SystemUse -----------------------------
(***************************************************************************)
(* pkg/iso9660 with susp and rrip: the system use entries of a directory   *)
(* record.  They carry the long name, the attributes and the link target   *)
(* of an inode; what does not fit in the 255 bytes of a record moves to    *)
(* the directory's continuation area, to which a CE entry points.  An      *)
(* entry is modelled by its kind, its length in bytes and what it says;    *)
(* the lengths are the real ones.                                          *)
(***************************************************************************)
EXTENDS Naturals, SequencesExt

LogicalBlockSize      == 2048
MaxDirectoryRecordLen == 255
ContinuationAreaEntryLength == 28

\* The lengths of the entries whose length is fixed: SP, the two ER, PX and
\* TF with two short time stamps.
FixedLen == [SP |-> 7, ERLegacy |-> 237, ER |-> 185, PX |-> 44, TF |-> 19]

Fixed(k) == [k |-> k, of |-> <<>>, len |-> FixedLen[k], cont |-> FALSE]

TotalLen(entries) ==
    LET upTo[i \in 0 .. Len(entries)] == IF i = 0 THEN 0 ELSE upTo[i - 1] + entries[i].len
    IN upTo[Len(entries)]

----------------------------------------------------------------------------
(* Names and link targets are cut in chunks. *)

\* The lengths of the chunks of at most max bytes of a string of n bytes.
Chunks(n, max) == [i \in 1 .. (n + max - 1) \div max |->
                      IF i * max <= n THEN max ELSE n % max]

\* rrip.NewName: a name is a pair of a name and its length.
NewName(name) ==
    LET c == Chunks(name.len, 250)
    IN [i \in 1 .. Len(c) |-> [k |-> "NM", of |-> <<name.id, i>>, len |-> 5 + c[i],
                               cont |-> i < Len(c)]]

\* rrip.NewSymlink: a target is a sequence of segments, each a name of some
\* length, or one of the special ".", ".." and "" (the root), of length 0.
NewSymlink(target) ==
    LET Segment(j) ==
            IF target[j].len = 0
            THEN << [k |-> "SL", of |-> <<j, 1, FALSE>>, len |-> 7, cont |-> TRUE] >>
            ELSE LET c == Chunks(target[j].len, 248)
                 IN [i \in 1 .. Len(c) |->
                        [k |-> "SL", of |-> <<j, i, TRUE>>, len |-> 7 + c[i], cont |-> TRUE]]
        all == FlattenSeq([j \in 1 .. Len(target) |-> Segment(j)])
    IN [all EXCEPT ![Len(all)].cont = FALSE]

----------------------------------------------------------------------------
(* Packing *)

\* Mutant: no room is set aside for the CE entry.
ExtraLenNone(overflow) == 0

\* A CE entry is needed when entries overflow.
ExtraLen(overflow) == IF overflow > 0 THEN ContinuationAreaEntryLength ELSE 0

\* How many of the entries stay in an area of room bytes, base of them taken:
\* all, or as many as leave room for a CE entry.
Kept(entries, base, room) ==
    LET ok == {k \in 0 .. Len(entries) :
                  base + TotalLen(SubSeq(entries, 1, k)) + ExtraLen(Len(entries) - k) <= room}
    IN IF ok = {} THEN 0 ELSE Max(ok)

CE(sector, off, len) == [k |-> "CE", of |-> <<sector, off, len>>,
                         len |-> ContinuationAreaEntryLength, cont |-> FALSE]

EmptySector == [room |-> LogicalBlockSize, entries |-> <<>>]

NewContinuationArea(start) == [start |-> start, sectors |-> <<>>]

\* ContinuationArea.Append: puts the entries in the last sector or in a new
\* one.  What does not fit follows in the next sector, behind a CE entry for
\* which room is set aside before the rest is placed.
RECURSIVE AppendTo(_, _)
AppendTo(ca, entries) ==
    IF ca.sectors = <<>> THEN AppendTo([ca EXCEPT !.sectors = <<EmptySector>>], entries)
    ELSE LET last   == Len(ca.sectors)
             room   == ca.sectors[last].room
             k      == Kept(entries, 0, room)
             here   == SubSeq(entries, 1, k)
             rest   == SubSeq(entries, k + 1, Len(entries))
             used   == TotalLen(here) + ExtraLen(Len(rest))
             ce     == CE(ca.start + last - 1, LogicalBlockSize - room, used)
             filled == [ca EXCEPT !.sectors[last].room = @ - used,
                                  !.sectors[last].entries = @ \o here]
         IN IF k = 0 THEN AppendTo([ca EXCEPT !.sectors = Append(@, EmptySector)], entries)
            ELSE IF rest = <<>> THEN [ca |-> filled, ce |-> ce]
            ELSE LET more == AppendTo(filled, rest)
                 IN [ca |-> [more.ca EXCEPT !.sectors[last].entries = Append(@, more.ce)],
                     ce |-> ce]

\* The loop of toDirectory over the m parts of an inode.  The records of all
\* parts are slices of one array: the CE entry that one part appends is
\* written over the array's next entry, and the parts that follow, and the
\* records already made, see it.  Returns the system use of each part.
PackParts(ca, base, entries, m) ==
    LET Continue(a, k, put) == [ca |-> put.ca, arr |-> [a.arr EXCEPT ![k + 1] = put.ce],
                                keep |-> Append(a.keep, k + 1)]
        Cut(a, k) == IF k = Len(a.arr) THEN [a EXCEPT !.keep = Append(@, k)]
                     ELSE Continue(a, k, AppendTo(a.ca, SubSeq(a.arr, k + 1, Len(a.arr))))
        Pack(a, i) == Cut(a, Kept(a.arr, base, MaxDirectoryRecordLen))
        Result(a) == [ca |-> a.ca, su |-> [i \in 1 .. m |-> SubSeq(a.arr, 1, a.keep[i])]]
    IN Result(FoldLeft(Pack, [ca |-> ca, arr |-> entries, keep |-> <<>>], [i \in 1 .. m |-> i]))

----------------------------------------------------------------------------
(* Reading *)

\* The entries that the len bytes from off of a sector decode to.
Slice(entries, off, len) ==
    LET At(i) == TotalLen(SubSeq(entries, 1, i - 1))
        in == {i \in 1 .. Len(entries) : off <= At(i) /\ At(i) + entries[i].len <= off + len}
    IN IF in = {} THEN <<>> ELSE SubSeq(entries, Min(in), Max(in))

\* allSystemUseEntries: area maps the addresses of the continuation sectors
\* on the image to their entries.
RECURSIVE AllSystemUseEntries(_, _)
AllSystemUseEntries(area, unconsumed) ==
    IF unconsumed = <<>> THEN <<>>
    ELSE LET e    == Head(unconsumed)
             rest == Tail(unconsumed)
         IN IF e.k # "CE" THEN <<e>> \o AllSystemUseEntries(area, rest)
            ELSE IF e.of[1] \in DOMAIN area
            THEN AllSystemUseEntries(area, rest \o Slice(area[e.of[1]], e.of[2], e.of[3]))
            ELSE AllSystemUseEntries(area, rest)

\* What the entries say up to the first of those that may end them.
UpTo(entries, ends) ==
    IF ends = {} THEN <<>> ELSE [i \in 1 .. Min(ends) |-> entries[i].of]

\* rrip.DecodeName
DecodeName(entries) ==
    LET nm == SelectSeq(entries, LAMBDA e : e.k = "NM")
    IN UpTo(nm, {i \in DOMAIN nm : ~nm[i].cont})

\* rrip.DecodeSymlink: only a name can end a target.
DecodeSymlink(entries) ==
    LET sl == SelectSeq(entries, LAMBDA e : e.k = "SL")
    IN UpTo(sl, {i \in DOMAIN sl : ~sl[i].cont /\ sl[i].of[3]})
=============================================================================

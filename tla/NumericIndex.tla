----------------------------- MODULE NumericIndex -----------------------------
(***************************************************************************)
(* The index from ids to file offsets: how NumericIndexGenerator cuts the  *)
(* entries into pages and the pages into levels, and how NumericIndex      *)
(* finds an entry on a page.                                               *)
(*                                                                         *)
(* A page is the sequence of its entries.  What counts is how many bytes   *)
(* they take: the file consists of blocks of PageSize bytes, the header    *)
(* being the first.                                                        *)
(***************************************************************************)
EXTENDS Integers, Sequences, SequencesExt

CONSTANTS PageSize,    (* the bytes of a page                             *)
          ByteValues,  (* the values a byte of an encoded number can hold *)
          MaxBytes,    (* the bytes that are enough for any number        *)
          MaxLevels    (* bound: the levels of an index                   *)

\* An entry fits on a page: it takes 20 bytes at most, and a page has 1024.
ASSUME NumericIndexAssumption ==
  /\ {PageSize, MaxBytes, MaxLevels} \subseteq Nat \ {0} /\ ByteValues \in Nat \ {0, 1}
  /\ 2 * MaxBytes <= PageSize

Entry(id, offset) == [startId |-> id, fileOffset |-> offset]

\* EncodeNumber: the bytes that an unsigned number takes, the least that are enough.
EncodedBytes(number) ==
  CHOOSE n \in 1..MaxBytes : /\ n = MaxBytes \/ number < ByteValues ^ n
                             /\ \A m \in 1..(n - 1) : ~(number < ByteValues ^ m)

BytesOf(id, offset) == EncodedBytes(id) + EncodedBytes(offset)

------------------------------------------------------------------------------
(* The generator                                                            *)

\* The bytes an entry takes after another on the same page: the differences.
BytesAfter(entry, previous) ==
  BytesOf(entry.startId - previous.startId, entry.fileOffset - previous.fileOffset)

Written(pages, used) == [pages |-> pages, used |-> used]

StartPage(written, entry) ==
  Written(Append(written.pages, <<entry>>),
          BytesOf(entry.startId, entry.fileOffset) % PageSize)

ContinuePage(written, entry, bytes) ==
  Written(Append(Front(written.pages), Append(Last(written.pages), entry)),
          written.used + bytes)

\* Mutant: whether there is still room is asked before the entry is counted.
AddEntryWhileRoom(written, entry) ==
  IF written.used > 0 /\ written.used < PageSize
  THEN ContinuePage(written, entry, BytesAfter(entry, Last(Last(written.pages))))
  ELSE StartPage(written, entry)

\* An entry starts a page if it does not fit, or if the first entry of a page has
\* filled the page.
AddEntry(written, entry) ==
  LET bytes == BytesAfter(entry, Last(Last(written.pages)))
  IN  IF written.used > 0 /\ written.used + bytes <= PageSize
      THEN ContinuePage(written, entry, bytes)
      ELSE StartPage(written, entry)

PagesOf(entries) ==
  LET written[i \in 0..Len(entries)] ==
        IF i = 0 THEN Written(<<>>, 0) ELSE AddEntry(written[i - 1], entries[i])
  IN  written[Len(entries)].pages

\* The entries of the level above: where every page starts.
Parents(pages, first) ==
  [k \in 1..Len(pages) |-> Entry(pages[k][1].startId, (first + k - 1) * PageSize)]

\* A level, and the blocks of the file up to it; the first of its own is behind those
\* of the levels below, and behind the header.
Level(below, pages) ==
  [pages |-> pages, first |-> Len(below) + 1, blocks |-> below \o pages]

\* The levels from the bottom: there is another one until one has a single page.  An
\* empty file has none with pages.
Levels(entries) ==
  LET level[i \in 1..MaxLevels] ==
        IF i = 1 THEN Level(<<>>, PagesOf(entries))
        ELSE LET below == level[i - 1]
             IN  Level(below.blocks,
                       IF Len(below.pages) <= 1 THEN <<>>
                       ELSE PagesOf(Parents(below.pages, below.first)))
  IN  level

\* How many of them have pages.
Height(level) ==
  CHOOSE h \in 0..MaxLevels : /\ h > 0 => level[h].pages # <<>>
                              /\ h < MaxLevels => level[h + 1].pages = <<>>

\* What Import() writes; pageCounts, from the top.
GeneratedIndex(entries) ==
  LET level == Levels(entries)
      levels == Height(level)
  IN  [blocks     |-> IF levels = 0 THEN <<>> ELSE level[levels].blocks,
       levels     |-> levels,
       root       |-> IF levels = 0 THEN 0 ELSE level[levels].first * PageSize,
       pageCounts |-> [i \in 1..levels |-> Len(level[levels + 1 - i].pages)]]

------------------------------------------------------------------------------
(* The reader                                                               *)

\* The entries that ReadPage() finds in the block at a position.  Block 0 is the
\* header, the size of a page and the number of entries; where the index has no
\* levels that number is 0 and everything after it, too.
PageAt(index, pos) ==
  IF pos = 0 THEN <<Entry(PageSize, 0)>> ELSE index.blocks[pos \div PageSize]

\* The entries left..right of a page are still in question; at is what is returned.
Span(left, right, at) == [left |-> left, right |-> right, at |-> at]

\* Mutant: the entry after it is not looked at.
NarrowFirstBelow(page, id, span) ==
  LET mid == (span.left + span.right) \div 2
  IN  IF span.at # 0 \/ span.left > span.right THEN span
      ELSE IF page[mid].startId <= id THEN Span(span.left, span.right, mid)
      ELSE IF mid = 1 THEN Span(span.left, span.right, Len(page) + 1)
      ELSE Span(span.left, mid - 1, 0)

\* A round of the binary search.
Narrow(page, id, span) ==
  LET mid == (span.left + span.right) \div 2
  IN  IF span.at # 0 \/ span.left > span.right THEN span
      ELSE IF page[mid].startId <= id /\ (mid + 1 > Len(page) \/ page[mid + 1].startId > id)
      THEN Span(span.left, span.right, mid)
      ELSE IF page[mid].startId < id THEN Span(mid + 1, span.right, 0)
      ELSE IF mid = 1 THEN Span(span.left, span.right, Len(page) + 1)
      ELSE Span(span.left, mid - 1, 0)

\* The binary search for the last entry that is not above an id; behind the last
\* entry if all are.  Positions count from 1.  A round leaves out an entry at least.
GetPageIndex(page, id) ==
  LET size == Len(page)
      span[n \in 0..size] == IF n = 0 THEN Span(1, size, 0) ELSE Narrow(page, id, span[n - 1])
  IN  IF span[size].at # 0 THEN span[size].at ELSE size + 1

IndexIsValid(page, i) == i <= Len(page)

\* Open() gives every level below the root what is left of the cache, and not more
\* than it has pages.
CacheSizes(index, cacheSize) ==
  LET left[i \in 1..index.levels] ==
        IF i = 1 THEN cacheSize
        ELSE IF index.pageCounts[i] > left[i - 1] THEN 0 ELSE left[i - 1] - index.pageCounts[i]
  IN  [i \in 1..(index.levels - 1) |-> left[i] - left[i + 1]]

==============================================================================

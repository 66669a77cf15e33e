----------------------------- MODULE MCFlashImage -----------------------------
(***************************************************************************)
(* Small image files for FlashImage.  A sparse image is described by its   *)
(* list of chunks; the cells and the layout are computed from it the way   *)
(* sparse_format.h lays a file out.                                        *)
(***************************************************************************)
EXTENDS FlashImage, Sequences

Data(n) == [tag |-> "data", v |-> n]
Chunk(t, b) == [type |-> t, blocks |-> b]

\* Cells of payload after the header of a chunk.
Payload(c, blk) == CASE c.type = "RAW" -> c.blocks * blk
                     [] c.type = "DONT_CARE" -> 0
                     [] OTHER -> 1

\* seek cells of other data, a sparse header of hl cells, headers of chs cells.
Sparse(base, seek, hl, chs, blk, list) ==
  LET n == Len(list)
      in[k \in 0..n] ==
        IF k = 0 THEN seek + hl ELSE in[k - 1] + chs + Payload(list[k], blk)
      outAt[k \in 0..n] ==
        IF k = 0 THEN 0
        ELSE outAt[k - 1] + (IF list[k].type = "CRC32" THEN 0 ELSE list[k].blocks * blk)
      header == [tag |-> "sparse", major_version |-> 1, file_hdr_sz |-> hl,
                 chunk_hdr_sz |-> chs, blk_sz |-> blk, total_chunks |-> n]
      head(k) == [tag |-> "chunk", type |-> list[k].type, chunk_sz |-> list[k].blocks,
                  total_sz |-> chs + Payload(list[k], blk)]
      heads == {in[k - 1] : k \in 1..n}
  IN [sparse |-> TRUE, simlock |-> FALSE, base |-> base, seek |-> seek, len |-> in[n],
      blk |-> blk, chs |-> chs, n |-> n,
      cells |-> [p \in 0..(in[n] - 1) |->
                   CASE p = seek -> header
                     [] p \in heads -> head(CHOOSE k \in 1..n : in[k - 1] = p)
                     [] OTHER -> Data(p)],
      chunks |-> [k \in 1..n |-> [type |-> list[k].type, blocks |-> list[k].blocks,
                                  in |-> in[k - 1], out |-> outAt[k - 1]]]]

\* A file without the sparse format; flag is the sparse attribute of its line.
Plain(base, seek, len, flag) ==
  [sparse |-> flag, simlock |-> FALSE, base |-> base, seek |-> seek, len |-> len,
   blk |-> 1, chs |-> 1, n |-> 0, cells |-> [p \in 0..(len - 1) |-> Data(p)], chunks |-> <<>>]

\* Refused by process_sprase_header: version 2.
WrongVersion ==
  LET f == Sparse(1, 0, 2, 1, 2, <<Chunk("RAW", 1)>>)
  IN [f EXCEPT !.cells[0].major_version = 2]

\* total_chunks counts a chunk that the file does not have.
Truncated ==
  LET f == Sparse(1, 0, 2, 1, 2, <<Chunk("RAW", 1), Chunk("DONT_CARE", 1)>>)
  IN [f EXCEPT !.cells[0].total_chunks = 3]

\* Nothing follows the sparse header.
NoChunks ==
  LET f == Sparse(1, 0, 2, 1, 2, <<>>)
  IN [f EXCEPT !.cells[0].total_chunks = 1]

\* The payload of the last chunk is not all there.
CutShort == [Sparse(1, 0, 2, 1, 2, <<Chunk("RAW", 3)>>) EXCEPT !.len = 7,
                                                             !.cells = [p \in 0..6 |-> @[p]]]

\* A chunk type the switch does not know.
UnknownType ==
  LET f == Sparse(1, 0, 2, 1, 2, <<Chunk("RAW", 1), Chunk("DONT_CARE", 1)>>)
  IN [f EXCEPT !.cells[5] = Data(5)]

Mixed ==
  Sparse(2, 0, 3, 1, 2, <<Chunk("RAW", 1), Chunk("CRC32", 0), Chunk("RAW", 3),
                          Chunk("FILL", 1), Chunk("RAW", 1), Chunk("DONT_CARE", 2)>>)
Long == Sparse(0, 2, 2, 1, 4, <<Chunk("DONT_CARE", 1), Chunk("RAW", 3), Chunk("RAW", 1),
                                Chunk("CRC32", 0)>>)
RawLast == Sparse(1, 0, 2, 1, 2, <<Chunk("DONT_CARE", 1), Chunk("RAW", 3)>>)

Gaps == Sparse(1, 0, 2, 1, 2, <<Chunk("RAW", 1), Chunk("DONT_CARE", 1), Chunk("RAW", 1),
                                Chunk("FILL", 1), Chunk("RAW", 1), Chunk("CRC32", 0)>>)

Kinds == {Chunk("RAW", 1), Chunk("RAW", 3), Chunk("DONT_CARE", 1), Chunk("CRC32", 0)}

Lists == UNION {[1..n -> Kinds] : n \in 1..3}

\* Every image of one to three chunks whose last chunk is not RAW, a few longer
\* ones, and plain files of any length.
FlushedFiles ==
  {Sparse(1, 0, 2, 1, 2, l) : l \in {k \in Lists : k[Len(k)].type # "RAW"}}
    \cup {Mixed, Long, Gaps, WrongVersion, Truncated, NoChunks, CutShort, UnknownType,
           Plain(1, 2, 8, FALSE), Plain(1, 0, 5, TRUE)}
    \cup {Plain(2, 0, n, FALSE) : n \in 0..9}

\* Images that end in a RAW chunk, and a plain file marked sparse that is shorter
\* than the header.
TailFiles ==
  {Sparse(1, 0, 2, 1, 2, l) : l \in {k \in Lists : k[Len(k)].type = "RAW"}}
    \cup {RawLast, Plain(1, 0, 1, TRUE)}

\* Files for the simlock partition; one of them is a sparse image, which the
\* label keeps from being taken for one.
SimlockFiles ==
  {[f EXCEPT !.simlock = TRUE] :
     f \in {Plain(1, 0, n, FALSE) : n \in 0..BigSize}
             \cup {Plain(2, 0, 3, TRUE), Sparse(1, 0, 2, 1, 2, <<Chunk("DONT_CARE", 1)>>)}}

ImageFiles == FlushedFiles \cup TailFiles \cup SimlockFiles

\* The theorems about well-formed files are about these.
ASSUME FilesAreWellFormed == \A f \in ImageFiles : WellFormed(f)

OneTail == {RawLast}
LongChunkHeader ==
  {Sparse(1, 0, 2, 2, 2, <<Chunk("RAW", 1), Chunk("DONT_CARE", 1), Chunk("RAW", 1),
                           Chunk("DONT_CARE", 1)>>)}
HugeHole ==
  {Sparse(1, 0, 2, 1, 2, <<Chunk("DONT_CARE", 9), Chunk("RAW", 1), Chunk("DONT_CARE", 1)>>)}
===============================================================================

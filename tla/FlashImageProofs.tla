--------------------------- MODULE FlashImageProofs ---------------------------
(***************************************************************************)
(* Proofs about FlashImage.  The first part is about image files of any    *)
(* content, damaged ones and those whose headers lie included; the second  *)
(* about well-formed files of any length and any number of chunks: what    *)
(* the storage gets, and that the routines implement ImageWrite.           *)
(***************************************************************************)
EXTENDS FlashImage, TLAPS, WellFoundedInduction

(***************************************************************************)
(* Division by the sector size.                                            *)
(***************************************************************************)
LEMMA ProductMonotone ==
  ASSUME NEW d \in Nat, NEW p \in Int, NEW q \in Int, p <= q
  PROVE  d * p <= d * q
  BY SMT

LEMMA ProductNat ==
  ASSUME NEW p \in Nat, NEW q \in Nat
  PROVE  p * q \in Nat
  BY SMT

LEMMA DivisionFacts ==
  ASSUME NEW a \in Nat, NEW d \in Nat \ {0}
  PROVE  /\ a \div d \in Nat
         /\ (a \div d) * d <= a
         /\ a < d * ((a \div d) + 1)
  BY SMT

LEMMA DivisionMonotone ==
  ASSUME NEW a \in Nat, NEW b \in Nat, NEW d \in Nat \ {0}, a <= b
  PROVE  a \div d <= b \div d
<1> DEFINE p == a \div d
           q == b \div d
<1>1. p \in Nat /\ d * p <= a
  BY DivisionFacts
<1>2. q \in Nat /\ b < d * (q + 1)
  BY DivisionFacts
<1> SUFFICES ASSUME q + 1 <= p PROVE FALSE
  BY <1>1, <1>2
<1> HIDE DEF p, q
<1>3. d * (q + 1) <= d * p
  BY <1>1, <1>2, ProductMonotone
<1> QED
  BY <1>1, <1>2, <1>3, ProductNat

\* Whole sectors that hold n cells fit in the buffer when n cells do.
LEMMA RoundUpFits ==
  ASSUME NEW n \in 0..BigSize
  PROVE  RoundUp(n) \in Nat /\ RoundUp(n) * SectorSize <= BigSize
<1> DEFINE q == BigSize \div SectorSize
           r == RoundUp(n)
<1>1. SectorSize \in Nat \ {0} /\ BigSize \in Nat
  BY ConstantsAssumption
<1>2. q \in Nat /\ BigSize = SectorSize * q
  BY <1>1, ConstantsAssumption
<1>3. r \in Nat /\ r * SectorSize <= n + SectorSize - 1
  BY <1>1, DivisionFacts DEF RoundUp
<1> HIDE DEF q, r
<1>4. r <= q
  <2> SUFFICES ASSUME q + 1 <= r PROVE FALSE
    BY <1>2, <1>3
  <2>1. SectorSize * (q + 1) <= SectorSize * r
    BY <1>1, <1>2, <1>3, ProductMonotone
  <2>2. SectorSize * (q + 1) = BigSize + SectorSize
    BY <1>1, <1>2
  <2> QED
    BY <1>1, <1>2, <1>3, <2>1, <2>2
<1>5. SectorSize * r <= SectorSize * q
  BY <1>1, <1>2, <1>3, <1>4, ProductMonotone
<1> QED
  BY <1>1, <1>2, <1>3, <1>5 DEF r
-------------------------------------------------------------------------------
(***************************************************************************)
(* The inductive invariant of the cursors.  TypeOK alone is not inductive: *)
(* a start sector is a difference of unsigned numbers, and it is one       *)
(* because out_offset counts whatever is staged, and because bigchunk_ptr  *)
(* and bigchunk_left move together.                                        *)
(***************************************************************************)
Cursors ==
  /\ ptr + left = BigSize
  /\ ptr <= out
  /\ pc = "full" => left = 0

Headers ==
  /\ CellShape(hdr) /\ CellShape(chunk)
  /\ pc = "header" => pos < file.len
  /\ pc \in {"chunk", "raw", "full", "skip"} => hdr.tag = "sparse"
  /\ pc \in {"raw", "full", "skip"} => chunk.tag = "chunk"

GeneralCursor ==
  /\ pc \in {"header", "general", "send"} => start >= file.base
  /\ pc = "send" => sectors * SectorSize <= BigSize

IInv == TypeOK /\ Cursors /\ Headers /\ GeneralCursor

LEMMA Constants ==
  /\ SectorSize \in Nat \ {0} /\ BigSize \in Nat \ {0}
  /\ SparseHeaderLen \in Nat \ {0} /\ WordSize \in Nat \ {0}
  /\ ChunkHeaderLen = 1
  BY ConstantsAssumption DEF ChunkHeaderLen

LEMMA InitInv == Init => IInv
<1> SUFFICES ASSUME Init PROVE IInv
  OBVIOUS
<1> USE Constants DEF Init
<1>1. TypeOK
  BY DEF TypeOK, Buffer
<1>2. Cursors
  BY DEF Cursors
<1>3. Headers
  BY DEF Headers, CellShape, NoCell
<1>4. GeneralCursor
  BY DEF GeneralCursor
<1> QED
  BY <1>1, <1>2, <1>3, <1>4 DEF IInv

\* What a flush needs: the sectors to send are staged and consumed.
LEMMA FlushInRange ==
  ASSUME IInv, NEW n \in 0..ptr
  PROVE  /\ n \div SectorSize \in Nat
         /\ (n \div SectorSize) * SectorSize <= BigSize
         /\ FlushStart(n \div SectorSize) \in Nat
         /\ FlushStart(n \div SectorSize) >= file.base
<1>1. n \in Nat /\ out \in Nat /\ n <= out /\ n <= BigSize /\ file.base \in Nat
  BY Constants, FilesAssumption DEF IInv, TypeOK, Cursors, FileShape
<1>2. /\ n \div SectorSize \in Nat /\ out \div SectorSize \in Nat
      /\ (n \div SectorSize) * SectorSize <= n
      /\ (n \div SectorSize) * SectorSize \in Nat
  BY <1>1, Constants, DivisionFacts, ProductNat
<1>3. n \div SectorSize <= out \div SectorSize
  BY <1>1, Constants, DivisionMonotone
<1> QED
  BY <1>1, <1>2, <1>3, Constants DEF FlushStart

LEMMA StoredDomain ==
  ASSUME IInv, NEW a \in Nat, NEW n \in Nat
  PROVE  DOMAIN Stored(a, n) \subseteq Nat
  BY DEF IInv, TypeOK, Stored
-------------------------------------------------------------------------------
(***************************************************************************)
(* Each action of the host keeps the invariant.                            *)
(***************************************************************************)
LEMMA FileFacts ==
  ASSUME NEW f \in Files
  PROVE  /\ f.base \in Nat /\ f.seek \in Nat /\ f.len \in Nat
         /\ f.sparse => f.seek < f.len
         /\ f.simlock => f.len <= BigSize
         /\ \A p \in 0..(f.len - 1) : CellShape(f.cells[p])
  BY FilesAssumption DEF FileShape

LEMMA HeaderStep ==
  ASSUME IInv, NotSparse \/ SparseHeader
  PROVE  IInv'
<1>1. file.len \in Nat /\ pos \in Nat /\ file.base \in Nat
  BY FileFacts DEF IInv, TypeOK
<1>2. AfterHeaderRead \in Nat
  BY <1>1, Constants DEF AfterHeaderRead, MinOf
<1>3. CASE NotSparse
  <2>1. pos' \in Nat
    BY <1>2, <1>3, Constants DEF NotSparse, SeekBy
  <2>2. TypeOK' /\ Cursors' /\ GeneralCursor'
    BY <1>3, <2>1 DEF NotSparse, IInv, TypeOK, Cursors, GeneralCursor
  <2>3. Headers'
    BY <1>3 DEF NotSparse, IInv, Headers
  <2> QED
    BY <2>2, <2>3 DEF IInv
<1>4. CASE SparseHeader
  <2> DEFINE h == file.cells[pos]
  <2>1. h.tag = "sparse" /\ pc = "header"
    BY <1>4 DEF SparseHeader, HeaderIsSparse
  <2>2. CASE HeaderRefused(h)
    BY <1>4, <2>1, <2>2
       DEF SparseHeader, IInv, TypeOK, Cursors, GeneralCursor, Headers
  <2>3. CASE ~HeaderRefused(h)
    <3>1. CellShape(h)
      BY <1>1, <2>1, FileFacts DEF IInv, TypeOK, Headers
    <3>2. h.file_hdr_sz \in Nat
      BY <2>1, <3>1 DEF CellShape
    <3>3. pos' = SeekBy(AfterHeaderRead, h.file_hdr_sz - SparseHeaderLen)
      BY <1>4, <2>3 DEF SparseHeader
    <3>4. pos' \in Nat
      BY <1>2, <3>2, <3>3, Constants DEF SeekBy
    <3>5. TypeOK' /\ Cursors' /\ GeneralCursor'
      BY <1>4, <2>3, <3>4 DEF SparseHeader, IInv, TypeOK, Cursors, GeneralCursor
    <3>6. Headers'
      BY <1>4, <2>1, <2>3, <3>1 DEF SparseHeader, IInv, Headers
    <3> QED
      BY <3>5, <3>6 DEF IInv
  <2> QED
    BY <2>2, <2>3
<1> QED
  BY <1>3, <1>4

LEMMA ChunkHeaderStep ==
  ASSUME IInv, ReadChunkHeader
  PROVE  IInv'
<1> DEFINE c == IF pos < file.len THEN file.cells[pos] ELSE chunk
           p == MinOf(pos + ChunkHeaderLen, file.len)
<1>1. file.len \in Nat /\ pos \in Nat
  BY FileFacts DEF IInv, TypeOK
<1>2. CellShape(c)
  BY <1>1, FileFacts DEF IInv, TypeOK, Headers
<1>3. p \in Nat
  BY <1>1, Constants DEF MinOf
<1>4. CellShape(hdr) /\ hdr.tag = "sparse"
  BY DEF IInv, Headers, ReadChunkHeader
<1>5. hdr.chunk_hdr_sz \in Nat /\ hdr.blk_sz \in Nat
  BY <1>4 DEF CellShape
<1>6. pos' = SeekBy(p, hdr.chunk_hdr_sz - ChunkHeaderLen) /\ chunk' = c
  BY DEF ReadChunkHeader
<1>7. pos' \in Nat
  BY <1>3, <1>5, <1>6, Constants DEF SeekBy
<1>8. rawLeft' \in Nat
  <2>1. CASE c.tag = "chunk"
    BY <1>2, <1>5, <2>1, Constants DEF ReadChunkHeader, CellShape, Bytes, IInv, TypeOK
  <2>2. CASE c.tag # "chunk"
    BY <2>2 DEF ReadChunkHeader, IInv, TypeOK
  <2> QED
    BY <2>1, <2>2
<1>9. pc' \in {"fatal", "raw", "skip"} /\ (pc' # "fatal" => c.tag = "chunk")
  BY DEF ReadChunkHeader
<1>10. UNCHANGED <<file, stale, hdr, i, left, ptr, out, start, sectors, bigchunk, disk>>
  BY DEF ReadChunkHeader
<1> HIDE DEF c, p
<1>11. TypeOK'
  BY <1>7, <1>8, <1>9, <1>10 DEF IInv, TypeOK
<1>12. Cursors' /\ GeneralCursor'
  BY <1>9, <1>10 DEF IInv, Cursors, GeneralCursor
<1>13. Headers'
  BY <1>2, <1>4, <1>6, <1>9, <1>10 DEF IInv, Headers
<1> QED
  BY <1>11, <1>12, <1>13 DEF IInv

LEMMA RawStep ==
  ASSUME IInv, RawPiece \/ RawDone
  PROVE  IInv'
<1>1. CASE RawDone
  BY <1>1 DEF RawDone, IInv, TypeOK, Cursors, GeneralCursor, Headers
<1>2. CASE RawPiece
  <2> DEFINE want == MinOf(rawLeft, left)
             r == IF pos < file.len THEN MinOf(want, file.len - pos) ELSE 0
  <2>1. CASE r # want
    BY <1>2, <2>1 DEF RawPiece, IInv, TypeOK, Cursors, GeneralCursor, Headers
  <2>2. CASE r = want
    <3>1. /\ pos' = pos + r /\ left' = left - r /\ ptr' = ptr + r
          /\ rawLeft' = rawLeft - r /\ out' = out + r
          /\ pc' = IF left = r THEN "full" ELSE "raw"
          /\ bigchunk' = Filled(ptr, r)
          /\ UNCHANGED <<file, stale, hdr, chunk, i, start, sectors, disk>>
          /\ pc = "raw"
      BY <1>2, <2>2 DEF RawPiece
    <3>2. r \in Nat /\ r <= left /\ r <= rawLeft
      BY <2>2, Constants DEF MinOf, IInv, TypeOK
    <3> HIDE DEF r, want
    <3>3. DOMAIN bigchunk' = Buffer
      BY <3>1 DEF Filled
    <3>4. TypeOK' /\ Cursors' /\ GeneralCursor'
      BY <3>1, <3>2, <3>3, Constants DEF IInv, TypeOK, Cursors, GeneralCursor, Buffer
    <3>5. Headers'
      BY <3>1 DEF IInv, Headers
    <3> QED
      BY <3>4, <3>5 DEF IInv
  <2> QED
    BY <2>1, <2>2
<1> QED
  BY <1>1, <1>2

LEMMA FlushStep ==
  ASSUME IInv, TransmitFull \/ FlushStaged
  PROVE  IInv'
<1> DEFINE n == IF pc = "full" THEN BigSize \div SectorSize ELSE FileSectors
<1>1. /\ left' = BigSize /\ ptr' = 0
      /\ Transmitted(FlushStart(n), n)
      /\ UNCHANGED <<file, pos, hdr, chunk, i, rawLeft, out>>
      /\ pc \in {"full", "skip"} /\ pc' = IF pc = "full" THEN "raw" ELSE "skip"
  BY DEF TransmitFull, FlushStaged
<1>2. n \in Nat /\ FlushStart(n) \in Nat
  <2>1. PICK m \in 0..ptr : n = m \div SectorSize
    BY Constants DEF FileSectors, IInv, TypeOK, Cursors
  <2> QED
    BY <2>1, FlushInRange
<1> HIDE DEF n
<1>3. /\ DOMAIN disk' \subseteq Nat /\ DOMAIN bigchunk' = Buffer
      /\ start' \in Nat /\ sectors' \in Nat /\ stale' \in 0..BigSize
  <2>1. FlushStart(n) * SectorSize \in Nat /\ n * SectorSize \in Nat
    BY <1>2, Constants, ProductNat
  <2>2. DOMAIN Stored(FlushStart(n) * SectorSize, n * SectorSize) \subseteq Nat
    BY <2>1, StoredDomain
  <2> QED
    BY <1>1, <1>2, <2>2, Constants DEF Transmitted, Wiped, Cleared, IInv, TypeOK
<1>4. TypeOK' /\ Cursors' /\ GeneralCursor'
  BY <1>1, <1>3, Constants DEF IInv, TypeOK, Cursors, GeneralCursor, Buffer
<1>5. Headers'
  BY <1>1 DEF IInv, Headers
<1> QED
  BY <1>4, <1>5 DEF IInv

LEMMA SkipStep ==
  ASSUME IInv, SkipChunk \/ ChunksDone
  PROVE  IInv'
<1>1. CASE ChunksDone
  BY <1>1 DEF ChunksDone, IInv, TypeOK, Cursors, GeneralCursor, Headers
<1>2. CASE SkipChunk
  <2>1. /\ CellShape(chunk) /\ chunk.tag = "chunk" /\ CellShape(hdr) /\ hdr.tag = "sparse"
        /\ pos \in Nat /\ out \in Nat /\ i \in Nat
    BY <1>2 DEF SkipChunk, IInv, TypeOK, Headers
  <2>2. chunk.total_sz \in Nat /\ Bytes(chunk) \in Nat
    BY <2>1, Constants DEF CellShape, Bytes
  <2>3. pos' \in Nat
    BY <1>2, <2>1, <2>2, Constants DEF SkipChunk, SeekBy
  <2>4. out' \in Nat /\ out' >= out /\ i' \in Nat
    BY <1>2, <2>1, <2>2 DEF SkipChunk
  <2>5. TypeOK' /\ Cursors' /\ GeneralCursor'
    BY <1>2, <2>3, <2>4, Constants
       DEF SkipChunk, IInv, TypeOK, Cursors, GeneralCursor, Buffer
  <2>6. Headers'
    BY <1>2 DEF SkipChunk, IInv, Headers
  <2> QED
    BY <2>5, <2>6 DEF IInv
<1> QED
  BY <1>1, <1>2

LEMMA GeneralStep ==
  ASSUME IInv, GeneralRead \/ GeneralSend \/ GeneralDone
  PROVE  IInv'
<1>1. file.base \in Nat /\ file.len \in Nat
  BY FileFacts DEF IInv, TypeOK
<1>2. CASE GeneralRead
  <2>1. Readable \in 0..BigSize
    BY <1>1, Constants DEF Readable, MinOf, IInv, TypeOK
  <2>2. RoundUp(Readable) \in Nat /\ RoundUp(Readable) * SectorSize <= BigSize
    BY <2>1, RoundUpFits
  <2>3. DOMAIN bigchunk' = Buffer
    BY <1>2 DEF GeneralRead, Filled
  <2>4. TypeOK' /\ Cursors' /\ GeneralCursor'
    BY <1>2, <2>1, <2>2, <2>3, Constants
       DEF GeneralRead, IInv, TypeOK, Cursors, GeneralCursor, Buffer
  <2>5. Headers'
    BY <1>2 DEF GeneralRead, IInv, Headers
  <2> QED
    BY <2>4, <2>5 DEF IInv
<1>3. CASE GeneralSend
  <2>1. start \in Nat /\ sectors \in Nat
    BY DEF IInv, TypeOK
  <2>2. start * SectorSize \in Nat /\ sectors * SectorSize \in Nat
    BY <2>1, Constants, ProductNat
  <2>3. DOMAIN disk' \subseteq Nat /\ DOMAIN bigchunk' = Buffer
    BY <1>3, <2>2, StoredDomain DEF GeneralSend, Wiped, Cleared
  <2>4. TypeOK' /\ Cursors' /\ GeneralCursor'
    BY <1>1, <1>3, <2>1, <2>3, Constants DEF Wiped, GeneralSend, IInv, TypeOK, Cursors, GeneralCursor, Buffer
  <2>5. Headers'
    BY <1>3 DEF GeneralSend, IInv, Headers
  <2> QED
    BY <2>4, <2>5 DEF IInv
<1>4. CASE GeneralDone
  BY <1>4 DEF GeneralDone, IInv, TypeOK, Cursors, GeneralCursor, Headers
<1> QED
  BY <1>2, <1>3, <1>4

LEMMA SimlockStep ==
  ASSUME IInv, SimlockRead \/ SimlockSend \/ SimlockDone
  PROVE  IInv'
<1>1. file.base \in Nat /\ file.len \in Nat
  BY FileFacts DEF IInv, TypeOK
<1>2. CASE SimlockRead
  <2>1. Readable \in 0..BigSize
    BY <1>1, Constants DEF Readable, MinOf, IInv, TypeOK
  <2>2. RoundUp(Readable) \in Nat
    BY <2>1, RoundUpFits
  <2>3. DOMAIN bigchunk' = Buffer
    BY <1>2 DEF SimlockRead, Filled
  <2>4. TypeOK' /\ Cursors' /\ GeneralCursor'
    BY <1>2, <2>1, <2>2, <2>3, Constants
       DEF SimlockRead, IInv, TypeOK, Cursors, GeneralCursor, Buffer
  <2>5. Headers'
    BY <1>2 DEF SimlockRead, IInv, Headers
  <2> QED
    BY <2>4, <2>5 DEF IInv
<1>3. CASE SimlockSend
  <2>1. file.base * SectorSize \in Nat
    BY <1>1, Constants, ProductNat
  <2>2. DOMAIN disk' \subseteq Nat /\ DOMAIN bigchunk' = Buffer
    BY <1>1, <1>3, <2>1, StoredDomain DEF SimlockSend, Wiped, Cleared
  <2>3. TypeOK' /\ Cursors' /\ GeneralCursor'
    BY <1>3, <2>2, Constants DEF Wiped, SimlockSend, IInv, TypeOK, Cursors, GeneralCursor, Buffer
  <2>4. Headers'
    BY <1>3 DEF SimlockSend, IInv, Headers
  <2> QED
    BY <2>3, <2>4 DEF IInv
<1>4. CASE SimlockDone
  BY <1>4 DEF SimlockDone, IInv, TypeOK, Cursors, GeneralCursor, Headers
<1> QED
  BY <1>2, <1>3, <1>4

LEMMA PendingInRange ==
  ASSUME IInv, pc \in {"full", "skip", "send"}
  PROVE  /\ Pending \in Nat /\ Pending * SectorSize <= BigSize
         /\ PendingStart \in Nat /\ PendingStart >= file.base
<1>1. CASE pc = "send"
  BY <1>1 DEF Pending, PendingStart, IInv, TypeOK, GeneralCursor
<1>2. CASE pc # "send"
  <2>1. Pending \in {n \div SectorSize : n \in 0..ptr}
    BY <1>2, Constants DEF Pending, FileSectors, IInv, TypeOK, Cursors
  <2> QED
    BY <1>2, <2>1, FlushInRange DEF PendingStart
<1> QED
  BY <1>1, <1>2

\* What goes wrong while a file is written.
Fails ==
  \/ TransmitFails \/ SimlockFails \/ ReadFails
  \/ ReadTakenForLength \/ SendNone \/ SendUnread

LEMMA FailStep ==
  ASSUME IInv, Fails
  PROVE  IInv'
<1>1. CASE TransmitFails
  <2>1. PICK n \in 0..Pending :
          disk' = Stored(PendingStart * SectorSize, n * SectorSize)
    BY <1>1 DEF TransmitFails
  <2>2. Pending \in Nat /\ PendingStart \in Nat
    BY <1>1, PendingInRange DEF TransmitFails
  <2>3. n \in Nat /\ n * SectorSize \in Nat /\ PendingStart * SectorSize \in Nat
    BY <2>1, <2>2, Constants, ProductNat
  <2>4. DOMAIN disk' \subseteq Nat
    BY <2>1, <2>3, StoredDomain
  <2> QED
    BY <1>1, <2>4 DEF TransmitFails, IInv, TypeOK, Cursors, Headers, GeneralCursor
<1>2. CASE ReadFails \/ ReadTakenForLength \/ SendNone
  <2>1. /\ UNCHANGED <<file, stale, pos, hdr, chunk, i, rawLeft, left, ptr, out, start,
                       bigchunk, disk>>
        /\ sectors' \in {0, sectors} /\ pc' \in {"fatal", "sendnone", "sendunread"}
    BY <1>2 DEF ReadFails, ReadTakenForLength, SendNone
  <2> QED
    BY <2>1 DEF IInv, TypeOK, Cursors, Headers, GeneralCursor
<1>3. CASE SimlockFails \/ SendUnread
  <2>1. PICK n \in 0..file.len : disk' = Stored(file.base * SectorSize, n)
    BY <1>3 DEF SimlockFails, SendUnread
  <2>2. n \in Nat /\ file.base * SectorSize \in Nat
    BY <2>1, FileFacts, Constants, ProductNat DEF IInv, TypeOK
  <2>3. DOMAIN disk' \subseteq Nat
    BY <2>1, <2>2, StoredDomain
  <2> QED
    BY <1>3, <2>3 DEF SimlockFails, SendUnread, IInv, TypeOK, Cursors, Headers, GeneralCursor
<1> QED
  BY <1>1, <1>2, <1>3 DEF Fails

LEMMA OpenStep ==
  ASSUME IInv, OpenFile
  PROVE  IInv'
<1>1. /\ file' \in Files /\ pos' = file'.seek /\ start' = file'.base
      /\ pc' = IF file'.simlock THEN "simlock"
               ELSE IF file'.sparse THEN "header" ELSE "general"
      /\ hdr' = NoCell /\ chunk' \in {NoCell, chunk}
      /\ i' = 0 /\ rawLeft' = 0 /\ left' = BigSize /\ ptr' = 0 /\ out' = 0 /\ sectors' = 0
      /\ DOMAIN disk' = {} /\ UNCHANGED <<bigchunk, stale>>
  BY DEF OpenFile
<1>2. /\ file'.seek \in Nat /\ file'.base \in Nat /\ file'.sparse \in BOOLEAN
      /\ file'.simlock \in BOOLEAN
      /\ file'.sparse => file'.seek < file'.len
  BY <1>1, FilesAssumption DEF FileShape
<1>3. pc' \in {"simlock", "header", "general"} /\ (pc' = "header" => file'.sparse)
  BY <1>1, <1>2
<1>4. TypeOK' /\ Cursors' /\ GeneralCursor'
  BY <1>1, <1>2, <1>3, Constants DEF IInv, TypeOK, Cursors, GeneralCursor, Buffer
<1>5. Headers'
  <2>1. CellShape(NoCell)
    BY DEF CellShape, NoCell
  <2>2. CellShape(hdr)' /\ CellShape(chunk)'
    BY <1>1, <2>1 DEF IInv, Headers, CellShape
  <2> QED
    BY <1>1, <1>2, <1>3, <2>2 DEF Headers
<1> QED
  BY <1>4, <1>5 DEF IInv

LEMMA StutterStep ==
  ASSUME IInv, UNCHANGED vars
  PROVE  IInv'
  BY DEF IInv, TypeOK, Cursors, Headers, GeneralCursor, vars

LEMMA NextInv == IInv /\ [Next]_vars => IInv'
<1> SUFFICES ASSUME IInv, [Next]_vars PROVE IInv'
  OBVIOUS
<1>1. CASE OpenFile
  BY <1>1, OpenStep
<1>2. CASE NotSparse \/ SparseHeader
  BY <1>2, HeaderStep
<1>3. CASE ReadChunkHeader
  BY <1>3, ChunkHeaderStep
<1>4. CASE RawPiece \/ RawDone
  BY <1>4, RawStep
<1>5. CASE TransmitFull \/ FlushStaged
  BY <1>5, FlushStep
<1>6. CASE SkipChunk \/ ChunksDone
  BY <1>6, SkipStep
<1>7. CASE GeneralRead \/ GeneralSend \/ GeneralDone
  BY <1>7, GeneralStep
<1>8. CASE Fails
  BY <1>8, FailStep
<1>9. CASE UNCHANGED vars
  BY <1>9, StutterStep
<1>10. CASE SimlockRead \/ SimlockSend \/ SimlockDone
  BY <1>10, SimlockStep
<1> QED
  BY <1>1, <1>2, <1>3, <1>4, <1>5, <1>6, <1>7, <1>8, <1>9, <1>10
     DEF Next, HostStep, Exited, Fails

LEMMA Invariance == Spec => []IInv
<1>1. Init => IInv
  BY InitInv
<1>2. IInv /\ [Next]_vars => IInv'
  BY NextInv
<1> QED
  BY <1>1, <1>2, PTL DEF Spec

(***************************************************************************)
(* For any files, chunk sizes and buffer size: the variables of the three  *)
(* routines keep their types, the start sector stays a natural number.     *)
(***************************************************************************)
THEOREM TypeCorrect == Spec => []TypeOK
<1>1. IInv => TypeOK
  BY DEF IInv
<1> QED
  BY <1>1, Invariance, PTL

(***************************************************************************)
(* No transmit_chunk call of the three routines reads past the end of      *)
(* bigchunk, or addresses a sector before the partition's first one,       *)
(* whatever the headers of the image claim.                                *)
(***************************************************************************)
THEOREM TransmitsInRange == Spec => []TransmitInRange
<1>1. IInv => TransmitInRange
  BY PendingInRange DEF TransmitInRange
<1> QED
  BY <1>1, Invariance, PTL
-------------------------------------------------------------------------------
(***************************************************************************)
(* Well-formed files.                                                      *)
(***************************************************************************)

AllWellFormed == \A f \in Files : WellFormed(f)

Aligned(x) == \E q \in Nat : x = q * SectorSize

SparsePcs == {"chunk", "raw", "full", "skip"}

\* Where a failure ends, and what the size_t routines do before that.
Dying == {"fatal", "lost", "sendnone", "sendunread"}

\* The chunk that is being processed.
Cur == file.chunks[i + 1]

\* The address of the first cell that is staged.
StagedFrom == BaseOf(file) + out - ptr

(***************************************************************************)
(* The inductive invariant.  AtChunk, InSkip, InRaw: while there are       *)
(* chunks, the file offset and out_offset are where the format has them.   *)
(* AtEnd: after the last one nothing is read or sent any more.             *)
(***************************************************************************)
Route ==
  /\ pc = "header" => /\ file.sparse /\ ~file.simlock /\ pos = file.seek
                      /\ i = 0 /\ out = 0 /\ start = file.base /\ DOMAIN disk = {}
  /\ pc \in SparsePcs =>
       /\ IsSparseImage(file)
       /\ hdr = file.cells[file.seek] /\ ~HeaderRefused(hdr)
  /\ pc \in {"general", "send"} => ~IsSparseImage(file) /\ ~file.simlock
  /\ pc \in {"simlock", "simsend", "sendunread"} => file.simlock
  /\ pc \in {"idle", "header", "general", "send", "simlock", "simsend"} => ptr = 0
  /\ pc \in {"chunk", "raw"} => left > 0
  /\ pc = "ok" => ptr <= stale
  /\ chunk.tag = "chunk" => chunk.total_sz >= ChunkHeaderLen

AtChunk ==
  pc = "chunk" /\ i < file.n => pos = Cur.in /\ out = Cur.out /\ Aligned(out)

InSkip ==
  pc = "skip" /\ i < file.n =>
    /\ pos = Cur.in + ChunkHeaderLen /\ out = Cur.out /\ Aligned(out)
    /\ chunk = HeaderOf(file, i + 1) /\ chunk.type # "RAW"

InRaw ==
  pc \in {"raw", "full"} /\ i < file.n =>
    /\ chunk = HeaderOf(file, i + 1) /\ chunk.type = "RAW"
    /\ Cur.out <= out /\ pos = Cur.in + ChunkHeaderLen + (out - Cur.out)
    /\ (out - Cur.out) + rawLeft = Cur.blocks * file.blk
    /\ Aligned(Cur.out)

AtEnd ==
  pc \in SparsePcs /\ i >= file.n =>
    /\ pos >= file.len /\ pc # "full"
    /\ chunk.tag = "chunk" /\ chunk.type # "RAW" => ptr = 0
    /\ pc = "skip" => ptr = 0

\* What is staged is on its way to its place, and begins with a sector.
Staged ==
  pc \in SparsePcs =>
    /\ i < file.n => Aligned(out - ptr)
    /\ \A k \in 0..(ptr - 1) : SparseHolds(file, StagedFrom + k, bigchunk[k])

\* Chunks behind the cursor, and those among them that were flushed.
Behind ==
  pc \in SparsePcs =>
    /\ \A m \in 1..file.n : m <= i => EndOf(file, m) <= out
    /\ \A j, m \in 1..file.n :
         j < m /\ m <= i /\ file.chunks[m].type # "RAW" => EndOf(file, j) <= out - ptr

\* What is on the device is before what is staged.
DiskBefore ==
  pc \in SparsePcs => \A a \in DOMAIN disk : a < StagedFrom

\* The cells of a plain file that are in bigchunk, not sent.
Unsent == pos - file.seek - (start - file.base) * SectorSize

PlainFile ==
  pc \in {"general", "send"} =>
    /\ \A a \in DOMAIN disk : a < start * SectorSize
    /\ \A a \in BaseOf(file)..(start * SectorSize - 1) : a \in DOMAIN disk
    /\ pc = "general" => pos >= file.len \/ Unsent = 0
    /\ pc = "general" /\ pos >= file.len =>
         \/ file.sparse /\ file.len < SparseHeaderLen
         \/ BaseOf(file) + file.len - file.seek <= start * SectorSize
    /\ pc = "send" =>
         /\ Unsent \in 1..BigSize /\ sectors = RoundUp(Unsent) /\ pos <= file.len
         /\ Unsent < BigSize => pos = file.len
         /\ \A k \in 0..(Unsent - 1) : bigchunk[k] = file.cells[pos - Unsent + k]

SimlockFile ==
  /\ pc = "simlock" => \/ pos = 0 /\ DOMAIN disk = {}
                       \/ pos >= file.len /\ Wanted(file) \subseteq DOMAIN disk
  /\ pc = "simsend" =>
       /\ DOMAIN disk = {} /\ pos = file.len
       /\ \A k \in 0..(file.len - 1) : bigchunk[k] = file.cells[k]
  /\ pc \in {"simlock", "sendunread"} => DOMAIN disk \subseteq Exposed(file)

\* Behind what it holds and what was left unsent in it, bigchunk is zero.
ZeroFrom(n) == \A k \in Buffer : k >= n /\ k >= stale => bigchunk[k] = Zero

Clean ==
  /\ pc \notin {"send", "simsend"} \cup Dying => ZeroFrom(ptr)
  /\ pc = "send" => ZeroFrom(Unsent)
  /\ pc = "simsend" => ZeroFrom(file.len)

\* The part of NoStray that a step which stores nothing cannot disturb.
RightCells == \A a \in DOMAIN disk : ImageHolds(file, a, disk[a])

WInv ==
  /\ IInv /\ Route /\ AtChunk /\ InSkip /\ InRaw /\ AtEnd
  /\ Staged /\ Behind /\ DiskBefore /\ PlainFile /\ SimlockFile /\ Clean
  /\ NoStray /\ FlushedPrefix /\ SuccessComplete
-------------------------------------------------------------------------------
(***************************************************************************)
(* Whole sectors.                                                          *)
(***************************************************************************)
LEMMA SectorNat == SectorSize \in Nat \ {0} /\ BigSize \in Nat \ {0}
BY Constants

LEMMA AlignedFacts ==
  /\ Aligned(0) /\ Aligned(BigSize)
  /\ \A x : Aligned(x) =>
       x \in Nat /\ x \div SectorSize \in Nat /\ (x \div SectorSize) * SectorSize = x
  /\ \A x, y : Aligned(x) /\ Aligned(y) => Aligned(x + y)
  /\ \A x, y : Aligned(x) /\ Aligned(y) /\ y <= x => Aligned(x - y)
  /\ \A b, k \in Nat : b % SectorSize = 0 => Aligned(k * b)
<1>1. Aligned(0)
  BY SectorNat DEF Aligned
<1>2. \A b \in Nat : b % SectorSize = 0 => b = (b \div SectorSize) * SectorSize /\ b \div SectorSize \in Nat
  BY SectorNat
<1>3. Aligned(BigSize)
  BY <1>2, ConstantsAssumption DEF Aligned
<1>4. ASSUME NEW x, Aligned(x)
      PROVE  x \in Nat /\ x \div SectorSize \in Nat /\ (x \div SectorSize) * SectorSize = x
  <2>1. PICK q \in Nat : x = q * SectorSize
    BY <1>4 DEF Aligned
  <2>2. x \in Nat
    BY <2>1, SectorNat, ProductNat
  <2>3. x \div SectorSize = q
    BY <2>1, SectorNat
  <2> QED
    BY <2>1, <2>2, <2>3
<1>5. ASSUME NEW x, NEW y, Aligned(x), Aligned(y)
      PROVE  Aligned(x + y) /\ (y <= x => Aligned(x - y))
  <2>1. PICK q \in Nat : x = q * SectorSize
    BY <1>5 DEF Aligned
  <2>2. PICK r \in Nat : y = r * SectorSize
    BY <1>5 DEF Aligned
  <2>3. x + y = (q + r) * SectorSize
    BY <2>1, <2>2, SectorNat
  <2>4. x - y = (q - r) * SectorSize
    BY <2>1, <2>2, SectorNat
  <2>5. y <= x => q - r \in Nat
    BY <2>1, <2>2, SectorNat
  <2> QED
    BY <2>3, <2>4, <2>5 DEF Aligned
<1>6. ASSUME NEW b \in Nat, NEW k \in Nat, b % SectorSize = 0
      PROVE  Aligned(k * b)
  <2>1. PICK q \in Nat : b = q * SectorSize
    BY <1>2, <1>6
  <2>2. k * b = (k * q) * SectorSize
    BY <2>1, SectorNat
  <2> QED
    BY <2>2, ProductNat DEF Aligned
<1> QED
  BY <1>1, <1>3, <1>4, <1>5, <1>6

LEMMA RoundUpFacts ==
  /\ \A n \in Nat : RoundUp(n) \in Nat /\ n <= RoundUp(n) * SectorSize
  /\ \A n, q \in Nat : RoundUp(q * SectorSize + n) = q + RoundUp(n)
  /\ RoundUp(BigSize) * SectorSize = BigSize
<1>1. ASSUME NEW n \in Nat
      PROVE  RoundUp(n) \in Nat /\ n <= RoundUp(n) * SectorSize
  <2>1. n + SectorSize - 1 \in Nat
    BY SectorNat
  <2>2. /\ RoundUp(n) \in Nat
        /\ n + SectorSize - 1 < SectorSize * (RoundUp(n) + 1)
    BY <2>1, SectorNat, DivisionFacts DEF RoundUp
  <2> QED
    BY <2>2, SectorNat
<1>2. ASSUME NEW n \in Nat, NEW q \in Nat
      PROVE  RoundUp(q * SectorSize + n) = q + RoundUp(n)
  <2>1. \A m \in Nat : (q * SectorSize + m) \div SectorSize = q + (m \div SectorSize)
    BY SectorNat
  <2>2. n + SectorSize - 1 \in Nat /\ q * SectorSize \in Nat
    BY SectorNat, ProductNat
  <2>3. (q * SectorSize + n) + SectorSize - 1 = q * SectorSize + (n + SectorSize - 1)
    BY <2>2, SectorNat
  <2> QED
    BY <2>1, <2>2, <2>3 DEF RoundUp
<1>3. RoundUp(BigSize) * SectorSize = BigSize
  <2>1. BigSize <= RoundUp(BigSize) * SectorSize
    BY <1>1, SectorNat
  <2>2. RoundUp(BigSize) * SectorSize <= BigSize
    BY SectorNat, RoundUpFits
  <2>3. RoundUp(BigSize) * SectorSize \in Nat
    BY <1>1, SectorNat, ProductNat
  <2> QED
    BY <2>1, <2>2, <2>3, SectorNat
<1> QED
  BY <1>1, <1>2, <1>3

LEMMA StoredFacts ==
  ASSUME NEW a \in Int, NEW n \in Nat, disk' = Stored(a, n)
  PROVE  /\ DOMAIN disk' = DOMAIN disk \cup a..(a + n - 1)
         /\ \A x \in a..(a + n - 1) : disk'[x] = bigchunk[x - a]
         /\ \A x \in DOMAIN disk : x \notin a..(a + n - 1) => disk'[x] = disk[x]
BY DEF Stored
-------------------------------------------------------------------------------
(***************************************************************************)
(* The layout of a well-formed sparse image.                               *)
(***************************************************************************)
LEMMA ShapeFacts ==
  ASSUME NEW f \in Files
  PROVE  /\ f.base \in Nat /\ f.seek \in Nat /\ f.len \in Nat /\ f.n \in Nat
         /\ f.blk \in Nat /\ f.chs \in Nat
         /\ f.sparse \in BOOLEAN /\ f.simlock \in BOOLEAN
         /\ f.sparse => f.seek < f.len
         /\ f.simlock => f.len <= BigSize
         /\ \A p \in 0..(f.len - 1) : CellShape(f.cells[p])
         /\ BaseOf(f) \in Nat
         /\ \A j \in 1..f.n : /\ f.chunks[j].blocks \in Nat /\ f.chunks[j].in \in Nat
                              /\ f.chunks[j].out \in Nat
                              /\ f.chunks[j].blocks * f.blk \in Nat
                              /\ SizeOf(f, j) \in Nat
<1>1. FileShape(f)
  BY FilesAssumption
<1>2. f.base * SectorSize \in Nat
  BY <1>1, SectorNat, ProductNat DEF FileShape
<1>3. \A j \in 1..f.n : f.chunks[j].blocks * f.blk \in Nat
  BY <1>1, ProductNat DEF FileShape
<1> QED
  BY <1>1, <1>2, <1>3 DEF FileShape, BaseOf, SizeOf

LEMMA LayoutFacts ==
  ASSUME NEW f \in Files, WellFormed(f), IsSparseImage(f), ~HeaderRefused(f.cells[f.seek])
  PROVE  /\ f.cells[f.seek].chunk_hdr_sz = ChunkHeaderLen /\ f.chs = ChunkHeaderLen
         /\ f.cells[f.seek].blk_sz = f.blk /\ f.blk % SectorSize = 0
         /\ f.cells[f.seek].file_hdr_sz \in Nat
         /\ SparseHeaderLen <= f.cells[f.seek].file_hdr_sz
         /\ f.cells[f.seek].total_chunks \in Nat
         /\ f.n <= f.cells[f.seek].total_chunks
         /\ f.n = 0 => f.len <= f.seek + f.cells[f.seek].file_hdr_sz
         /\ \A j \in 1..f.n : ChunkInPlace(f, j)
<1>1. SparseInPlace(f)
  BY DEF WellFormed
<1>2. f.seek \in 0..(f.len - 1)
  BY ShapeFacts DEF IsSparseImage
<1>3. CellShape(f.cells[f.seek]) /\ f.cells[f.seek].tag = "sparse"
  BY <1>2, ShapeFacts DEF IsSparseImage
<1>4. f.cells[f.seek].file_hdr_sz \in Nat /\ f.cells[f.seek].total_chunks \in Nat
  BY <1>3 DEF CellShape
<1>5. SparseHeaderLen <= f.cells[f.seek].file_hdr_sz
  BY <1>4, Constants DEF HeaderRefused
<1> QED
  BY <1>1, <1>4, <1>5 DEF SparseInPlace

LEMMA LeastExists ==
  ASSUME NEW S \in SUBSET Nat, S # {}
  PROVE  \E x \in S : \A y \in S : x <= y
<1> DEFINE R == OpToRel(<, Nat)
<1>1. IsWellFoundedOn(R, Nat)
  BY NatLessThanWellFounded
<1>2. \A x, y \in Nat : y < x => <<y, x>> \in R
  BY DEF OpToRel
<1> HIDE DEF R
<1>3. PICK x \in S : \A y \in S : ~ (<<y, x>> \in R)
  BY <1>1, WFMin
<1>4. \A y \in S : ~(y < x)
  BY <1>2, <1>3
<1> QED
  BY <1>3, <1>4

\* The chunks follow one another in the image.
LEMMA OutMonotone ==
  ASSUME NEW f \in Files, \A j \in 1..f.n : ChunkInPlace(f, j)
  PROVE  \A j, m \in 1..f.n : j < m => EndOf(f, j) <= f.chunks[m].out
<1> SUFFICES ASSUME NEW j \in 1..f.n, NEW m0 \in 1..f.n, j < m0, ~(EndOf(f, j) <= f.chunks[m0].out)
             PROVE  FALSE
  OBVIOUS
<1> DEFINE Bad == {m \in Nat : m \in 1..f.n /\ j < m /\ ~(EndOf(f, j) <= f.chunks[m].out)}
<1>0. f.n \in Nat /\ \A m \in 1..f.n : f.chunks[m].out \in Nat /\ SizeOf(f, m) \in Nat
  BY ShapeFacts
<1>1. m0 \in Bad /\ Bad \subseteq Nat
  BY <1>0
<1>2. PICK m \in Bad : \A l \in Bad : m <= l
  BY <1>1, LeastExists
<1>3. m \in 1..f.n /\ j < m /\ ~(EndOf(f, j) <= f.chunks[m].out)
  BY <1>2
<1>4. m - 1 \in 1..f.n /\ m - 1 \in Nat /\ m - 1 < m
  BY <1>0, <1>3
<1>5. m - 1 \notin Bad
  BY <1>2, <1>4
<1>6. m - 1 = j \/ EndOf(f, j) <= f.chunks[m - 1].out
  BY <1>0, <1>3, <1>4, <1>5
<1>7. f.chunks[m].out = EndOf(f, m - 1)
  <2>1. ChunkInPlace(f, m - 1) /\ m - 1 < f.n /\ (m - 1) + 1 = m
    BY <1>0, <1>3, <1>4
  <2> QED
    BY <2>1 DEF ChunkInPlace
<1>8. f.chunks[m - 1].out <= EndOf(f, m - 1) /\ EndOf(f, m - 1) \in Nat /\ EndOf(f, j) \in Nat
  BY <1>0, <1>4 DEF EndOf
<1> QED
  BY <1>0, <1>3, <1>4, <1>6, <1>7, <1>8
-------------------------------------------------------------------------------
(***************************************************************************)
(* What the invariant says where a sparse image is written, and what a     *)
(* flush stores.                                                           *)
(***************************************************************************)
LEMMA SparseNow ==
  ASSUME AllWellFormed, WInv, pc \in SparsePcs
  PROVE  /\ file \in Files /\ IsSparseImage(file)
         /\ hdr.chunk_hdr_sz = ChunkHeaderLen /\ file.chs = ChunkHeaderLen
         /\ hdr.blk_sz = file.blk /\ file.blk % SectorSize = 0
         /\ hdr.total_chunks \in Nat /\ file.n <= hdr.total_chunks
         /\ \A j \in 1..file.n : ChunkInPlace(file, j)
<1>1. file \in Files /\ IsSparseImage(file)
  BY DEF WInv, IInv, TypeOK, Route
<1>2. hdr = file.cells[file.seek] /\ ~HeaderRefused(file.cells[file.seek])
  BY DEF WInv, Route
<1>3. WellFormed(file)
  BY <1>1 DEF AllWellFormed
<1> QED
  BY <1>1, <1>2, <1>3, LayoutFacts

LEMMA NumberFacts ==
  ASSUME WInv
  PROVE  /\ file \in Files
         /\ pos \in Nat /\ i \in Nat /\ rawLeft \in Nat /\ out \in Nat
         /\ left \in Nat /\ ptr \in Nat /\ ptr <= BigSize /\ left <= BigSize
         /\ ptr + left = BigSize /\ ptr <= out
         /\ start \in Nat /\ sectors \in Nat
         /\ BaseOf(file) \in Nat
         /\ StagedFrom \in Nat
         /\ DOMAIN disk \subseteq Nat /\ DOMAIN bigchunk = Buffer
<1>1. file \in Files
  BY DEF WInv, IInv, TypeOK
<1>2. BaseOf(file) \in Nat
  BY <1>1, ShapeFacts
<1> QED
  BY <1>1, <1>2, SectorNat DEF WInv, IInv, TypeOK, Cursors, StagedFrom

\* The chunk at the cursor.
LEMMA CurFacts ==
  ASSUME AllWellFormed, WInv, pc \in SparsePcs, i < file.n
  PROVE  /\ i + 1 \in 1..file.n
         /\ Cur.in \in Nat /\ Cur.out \in Nat /\ Cur.blocks \in Nat
         /\ Cur.blocks * file.blk \in Nat /\ Aligned(Cur.blocks * file.blk)
         /\ Cur.in < file.len
         /\ ChunkInPlace(file, i + 1)
<1>1. i + 1 \in 1..file.n /\ file \in Files
  BY NumberFacts, ShapeFacts
<1>2. ChunkInPlace(file, i + 1) /\ file.blk % SectorSize = 0 /\ file.blk \in Nat
  BY <1>1, SparseNow, ShapeFacts
<1>3. /\ Cur.in \in Nat /\ Cur.out \in Nat /\ Cur.blocks \in Nat
      /\ Cur.blocks * file.blk \in Nat
  BY <1>1, ShapeFacts DEF Cur
<1>4. Aligned(Cur.blocks * file.blk)
  BY <1>2, <1>3, AlignedFacts
<1> QED
  BY <1>1, <1>2, <1>3, <1>4 DEF ChunkInPlace, Cur

\* The sectors that a flush addresses are those of the staged cells.
LEMMA FlushPlace ==
  ASSUME AllWellFormed, WInv, pc = "full" \/ (pc = "skip" /\ left < BigSize)
  PROVE  /\ i < file.n /\ Aligned(out) /\ Aligned(ptr) /\ pc \in SparsePcs
         /\ Pending \in Nat /\ PendingStart \in Nat
         /\ Pending * SectorSize = ptr
         /\ PendingStart * SectorSize = StagedFrom
         /\ PendingStart = FlushStart(Pending)
         /\ Pending = IF pc = "full" THEN BigSize \div SectorSize ELSE FileSectors
<1>1. pc \in SparsePcs
  BY DEF SparsePcs
<1>2. i < file.n
  <2>1. pc = "skip" => ptr # 0
    BY NumberFacts
  <2> QED
    BY <1>1, <2>1, NumberFacts, ShapeFacts DEF WInv, AtEnd
<1>3. pc = "full" => ptr = BigSize
  BY NumberFacts, SectorNat DEF WInv, IInv, Cursors
<1>4. Aligned(out - ptr)
  BY <1>1, <1>2 DEF WInv, Staged
<1>5. Aligned(out) /\ Aligned(ptr)
  <2>1. CASE pc = "full"
    <3>1. (out - ptr) + ptr = out
      BY NumberFacts
    <3> QED
      BY <1>3, <1>4, <2>1, <3>1, AlignedFacts
  <2>2. CASE pc = "skip"
    <3>1. Aligned(out)
      BY <1>2, <2>2 DEF WInv, InSkip
    <3>2. out - (out - ptr) = ptr /\ out - ptr <= out
      BY NumberFacts
    <3> QED
      BY <1>4, <3>1, <3>2, AlignedFacts
  <2> QED
    BY <2>1, <2>2
<1>6. Pending = ptr \div SectorSize
  BY <1>3 DEF Pending, FileSectors
<1>7. Pending \in Nat /\ Pending * SectorSize = ptr
  BY <1>5, <1>6, AlignedFacts
<1>8. PendingStart = FlushStart(Pending) /\ PendingStart \in Nat
  BY PendingInRange DEF PendingStart, WInv
<1>9. PendingStart * SectorSize = StagedFrom
  <2> DEFINE q == out \div SectorSize
  <2>1. q \in Nat /\ q * SectorSize = out
    BY <1>5, AlignedFacts
  <2>2. PendingStart = file.base + q - Pending
    BY <1>8 DEF FlushStart
  <2>3. file.base \in Nat
    BY NumberFacts, ShapeFacts
  <2> HIDE DEF q
  <2>4. PendingStart * SectorSize
          = file.base * SectorSize + q * SectorSize - Pending * SectorSize
    BY <1>7, <2>1, <2>2, <2>3, SectorNat
  <2> QED
    BY <1>7, <2>1, <2>4 DEF StagedFrom, BaseOf
<1>10. Pending = IF pc = "full" THEN BigSize \div SectorSize ELSE FileSectors
  BY DEF Pending
<1> QED
  BY <1>1, <1>2, <1>5, <1>7, <1>8, <1>9, <1>10

\* What the device has is kept and is still right.
Grown ==
  /\ DOMAIN disk \subseteq DOMAIN disk'
  /\ \A a \in DOMAIN disk : disk'[a] = disk[a]

LEMMA StagedStored ==
  ASSUME AllWellFormed, WInv, pc = "full" \/ (pc = "skip" /\ left < BigSize),
         NEW m \in 0..Pending, file' = file,
         disk' = Stored(PendingStart * SectorSize, m * SectorSize)
  PROVE  /\ Grown /\ RightCells'
         /\ \A a \in DOMAIN disk' : a < BaseOf(file) + out
         /\ m = Pending =>
              DOMAIN disk' = DOMAIN disk \cup StagedFrom..(BaseOf(file) + out - 1)
<1> DEFINE w == m * SectorSize
<1>1. m \in Nat /\ w \in Nat /\ w <= ptr
  <2>1. m \in Nat /\ m <= Pending /\ Pending \in Nat
    BY FlushPlace
  <2>2. w <= Pending * SectorSize
    BY <2>1, SectorNat, ProductMonotone
  <2>3. w \in Nat
    BY <2>1, SectorNat, ProductNat
  <2> QED
    BY <2>1, <2>2, <2>3, FlushPlace
<1>2. disk' = Stored(StagedFrom, w)
  BY FlushPlace
<1>3. m = Pending => w = ptr
  BY FlushPlace
<1> HIDE DEF w
<1>4. /\ DOMAIN disk' = DOMAIN disk \cup StagedFrom..(StagedFrom + w - 1)
      /\ \A x \in StagedFrom..(StagedFrom + w - 1) : disk'[x] = bigchunk[x - StagedFrom]
      /\ \A x \in DOMAIN disk : x \notin StagedFrom..(StagedFrom + w - 1) => disk'[x] = disk[x]
  <2>1. StagedFrom \in Int /\ w \in Nat
    BY <1>1, NumberFacts
  <2> QED
    BY <1>2, <2>1, StoredFacts
<1>5. pc \in SparsePcs
  BY DEF SparsePcs
<1>6. \A a \in DOMAIN disk : a < StagedFrom /\ a \in Nat
  BY <1>5, NumberFacts DEF WInv, DiskBefore
<1>7. Grown
  <2>1. \A a \in DOMAIN disk : a \notin StagedFrom..(StagedFrom + w - 1)
    BY <1>6, NumberFacts
  <2> QED
    BY <1>4, <2>1 DEF Grown
<1>8. StagedFrom + ptr = BaseOf(file) + out
  BY NumberFacts DEF StagedFrom
<1>9. IsSparseImage(file)
  BY <1>5, SparseNow
<1>10. ASSUME NEW a \in DOMAIN disk'
       PROVE  ImageHolds(file, a, disk'[a])
  <2>1. CASE a \in DOMAIN disk
    <3>1. disk'[a] = disk[a]
      BY <1>7, <2>1 DEF Grown
    <3> QED
      BY <2>1, <3>1 DEF WInv, NoStray
  <2>2. CASE a \in StagedFrom..(StagedFrom + w - 1)
    <3> DEFINE k == a - StagedFrom
    <3>1. k \in 0..(ptr - 1) /\ StagedFrom + k = a
      BY <1>1, <2>2, NumberFacts
    <3>2. SparseHolds(file, StagedFrom + k, bigchunk[k])
      BY <1>5, <3>1 DEF WInv, Staged
    <3> QED
      BY <1>4, <1>9, <2>2, <3>1, <3>2 DEF ImageHolds
  <2> QED
    BY <1>4, <2>1, <2>2
<1>11. RightCells'
  BY <1>10 DEF RightCells
<1>12. \A a \in DOMAIN disk' : a < BaseOf(file) + out
  <2>1. \A a \in DOMAIN disk : a < BaseOf(file) + out
    BY <1>6, <1>8, NumberFacts
  <2>2. \A a \in StagedFrom..(StagedFrom + w - 1) : a < BaseOf(file) + out
    BY <1>1, <1>8, NumberFacts
  <2> QED
    BY <1>4, <2>1, <2>2
<1>13. m = Pending => DOMAIN disk' = DOMAIN disk \cup StagedFrom..(BaseOf(file) + out - 1)
  <2>1. m = Pending => StagedFrom + w - 1 = BaseOf(file) + out - 1
    BY <1>3, <1>8, NumberFacts
  <2> QED
    BY <1>4, <2>1
<1> QED
  BY <1>7, <1>11, <1>12, <1>13
-------------------------------------------------------------------------------
(***************************************************************************)
(* Each action keeps the invariant.  What only sends, or only reads, or    *)
(* only moves on, disturbs few of its parts.                               *)
(***************************************************************************)
LEMMA FatalKeeps ==
  ASSUME WInv, IInv', NoStray', pc' \in Dying,
         pc' = "sendunread" => file.simlock /\ DOMAIN disk' \subseteq Exposed(file),
         chunk'.tag = "chunk" => chunk'.total_sz >= ChunkHeaderLen,
         DOMAIN disk \subseteq DOMAIN disk',
         UNCHANGED <<file, out, ptr>>
  PROVE  WInv'
<1>1. Route' /\ AtChunk' /\ InSkip' /\ InRaw' /\ AtEnd'
  BY DEF Route, AtChunk, InSkip, InRaw, AtEnd, SparsePcs, Dying
<1>2. Staged' /\ Behind' /\ DiskBefore'
  BY DEF Staged, Behind, DiskBefore, SparsePcs, Dying
<1>3. PlainFile' /\ SimlockFile' /\ Clean'
  BY DEF PlainFile, SimlockFile, Clean, Dying
<1>4. FlushedPrefix'
  BY DEF WInv, FlushedPrefix
<1>5. SuccessComplete'
  BY DEF SuccessComplete, Dying
<1> QED
  BY <1>1, <1>2, <1>3, <1>4, <1>5 DEF WInv

\* No cell is disturbed, and bigchunk is not about to be sent.
LEMMA NoStrayKept ==
  ASSUME WInv, UNCHANGED <<file, disk>>, pc # "lost", pc' \notin {"send", "lost"}
  PROVE  NoStray'
BY DEF WInv, NoStray

LEMMA FlushedKept ==
  ASSUME WInv, UNCHANGED <<file, disk>>, out' - ptr' = out - ptr
  PROVE  FlushedPrefix'
<1>1. BaseOf(file) + out - ptr = BaseOf(file) + (out - ptr)
  BY NumberFacts
<1> SUFFICES ASSUME IsSparseImage(file), NEW a \in Wanted(file), a < (BaseOf(file) + out - ptr)'
             PROVE  a \in DOMAIN disk
  BY DEF FlushedPrefix
<1>2. (BaseOf(file) + out - ptr)' = BaseOf(file) + out' - ptr'
  OBVIOUS
<1> QED
  BY <1>1, <1>2 DEF WInv, FlushedPrefix
LEMMA NotSparseKeeps ==
  ASSUME AllWellFormed, WInv, IInv', NotSparse
  PROVE  WInv'
<1>1. /\ pc = "header" /\ pc' = "general"
      /\ pos' = SeekBy(AfterHeaderRead, -SparseHeaderLen)
      /\ UNCHANGED <<file, stale, hdr, chunk, i, rawLeft, left, ptr, out, start,
                     sectors, bigchunk, disk>>
      /\ file.cells[pos].tag # "sparse"
  BY DEF NotSparse, HeaderIsSparse
<1>2. /\ file.sparse /\ ~file.simlock /\ pos = file.seek /\ ptr = 0
      /\ start = file.base /\ DOMAIN disk = {}
  BY <1>1 DEF WInv, Route
<1>3. ~IsSparseImage(file)
  BY <1>1, <1>2 DEF IsSparseImage
<1>4. file \in Files /\ file.seek \in Nat /\ file.len \in Nat /\ file.seek < file.len
  BY <1>2, NumberFacts, ShapeFacts
<1>5. file.seek + SparseHeaderLen <= file.len \/ file.len < SparseHeaderLen
  BY <1>2, <1>3, <1>4 DEF AllWellFormed, WellFormed
<1>6. \/ pos' = file.seek
      \/ pos' = file.len /\ file.len < SparseHeaderLen
  BY <1>1, <1>2, <1>4, <1>5, Constants DEF SeekBy, AfterHeaderRead, MinOf
<1>7. Route'
  BY <1>1, <1>2, <1>3 DEF WInv, Route, SparsePcs
<1>8. AtChunk' /\ InSkip' /\ InRaw' /\ AtEnd' /\ Staged' /\ Behind' /\ DiskBefore'
  BY <1>1 DEF AtChunk, InSkip, InRaw, AtEnd, Staged, Behind, DiskBefore, SparsePcs
<1>9. PlainFile'
  <2>1. BaseOf(file) = start * SectorSize
    BY <1>2 DEF BaseOf
  <2>2. BaseOf(file) \in Nat /\ file.base \in Nat
    BY <1>4, ShapeFacts
  <2>3. BaseOf(file)..(start * SectorSize - 1) = {}
    BY <2>1, <2>2
  <2>4. pos' = file.seek => Unsent' = 0
    <3>1. (start - file.base) * SectorSize = 0
      BY <1>2, <2>2, SectorNat
    <3> QED
      BY <1>1, <1>4, <3>1 DEF Unsent
  <2>5. pos' = file.seek => ~(pos' >= file.len)
    BY <1>4
  <2>6. (BaseOf(file)..(start * SectorSize - 1))' = {}
    BY <1>1, <2>3 DEF BaseOf
  <2>7. pos' = file.len => pos' >= file.len
    BY <1>4
  <2> QED
    BY <1>1, <1>2, <1>6, <2>4, <2>5, <2>6, <2>7 DEF PlainFile
<1>10. SimlockFile' /\ SuccessComplete'
  BY <1>1 DEF SimlockFile, SuccessComplete
<1>11. Clean'
  BY <1>1 DEF WInv, Clean, ZeroFrom, Dying
<1>12. NoStray' /\ FlushedPrefix'
  BY <1>1, NoStrayKept, FlushedKept, NumberFacts
<1> QED
  BY <1>7, <1>8, <1>9, <1>10, <1>11, <1>12 DEF WInv

LEMMA SparseHeaderKeeps ==
  ASSUME AllWellFormed, WInv, IInv', SparseHeader
  PROVE  WInv'
<1> DEFINE h == file.cells[pos]
<1>1. /\ pc = "header" /\ h.tag = "sparse"
      /\ pc' = IF HeaderRefused(h) THEN "fatal" ELSE "chunk"
      /\ UNCHANGED <<file, stale, chunk, i, rawLeft, left, ptr, out, start, sectors,
                     bigchunk, disk>>
  BY DEF SparseHeader, HeaderIsSparse
<1>2. /\ file.sparse /\ ~file.simlock /\ pos = file.seek /\ ptr = 0
      /\ i = 0 /\ out = 0 /\ DOMAIN disk = {}
  BY <1>1 DEF WInv, Route
<1>3. NoStray' /\ FlushedPrefix'
  BY <1>1, NoStrayKept, FlushedKept, NumberFacts
<1>4. CASE HeaderRefused(h)
  <2>1. pc' = "fatal"
    BY <1>4 DEF SparseHeader
  <2> QED
    BY <1>1, <1>3, <2>1, FatalKeeps DEF WInv, Route, Dying
<1>5. CASE ~HeaderRefused(h)
  <2>1. /\ pc' = "chunk" /\ hdr' = h
        /\ pos' = SeekBy(AfterHeaderRead, h.file_hdr_sz - SparseHeaderLen)
    BY <1>5 DEF SparseHeader
  <2>2. IsSparseImage(file) /\ file \in Files /\ h = file.cells[file.seek]
    BY <1>1, <1>2, NumberFacts DEF IsSparseImage
  <2>3. WellFormed(file)
    BY <2>2 DEF AllWellFormed
  <2>4. /\ h.file_hdr_sz \in Nat /\ SparseHeaderLen <= h.file_hdr_sz
        /\ file.n = 0 => file.len <= file.seek + h.file_hdr_sz
        /\ \A j \in 1..file.n : ChunkInPlace(file, j)
    BY <1>5, <2>2, <2>3, LayoutFacts
  <2>5. file.seek \in Nat /\ file.len \in Nat /\ file.n \in Nat
    BY <2>2, ShapeFacts
  <2>6. AfterHeaderRead = IF file.seek + SparseHeaderLen <= file.len
                          THEN file.seek + SparseHeaderLen ELSE file.len
    BY <1>2, <2>5, Constants DEF AfterHeaderRead, MinOf
  <2>7. pos' = AfterHeaderRead + (h.file_hdr_sz - SparseHeaderLen)
    BY <2>1, <2>4, <2>5, <2>6, Constants DEF SeekBy
  <2> HIDE DEF h
  <2>8. file.seek + h.file_hdr_sz <= file.len => pos' = file.seek + h.file_hdr_sz
    BY <2>4, <2>5, <2>6, <2>7, Constants
  <2>9. file.len <= file.seek + h.file_hdr_sz => file.len <= pos'
    BY <2>4, <2>5, <2>6, <2>7, Constants
  <2>10. left > 0
    BY <1>2, NumberFacts, SectorNat
  <2>11. Route'
    BY <1>1, <1>2, <1>5, <2>1, <2>2, <2>10 DEF WInv, Route, SparsePcs
  <2>12. AtChunk'
    <3> SUFFICES ASSUME 0 < file.n
                 PROVE  /\ pos' = file.chunks[1].in /\ 0 = file.chunks[1].out
      BY <1>1, <1>2, AlignedFacts DEF AtChunk, Cur
    <3>1. 1 \in 1..file.n /\ ChunkInPlace(file, 1)
      BY <2>4, <2>5
    <3>2. /\ file.chunks[1].in < file.len
          /\ file.chunks[1].in = file.seek + h.file_hdr_sz /\ file.chunks[1].out = 0
      BY <2>2, <3>1 DEF ChunkInPlace
    <3> QED
      BY <2>4, <2>5, <2>8, <3>2
  <2>13. AtEnd'
    <3>1. file.n <= 0 => file.len <= pos'
      BY <2>4, <2>5, <2>9
    <3>2. pos' \in Nat
      BY DEF IInv, TypeOK
    <3> QED
      BY <1>1, <1>2, <2>1, <2>5, <3>1, <3>2 DEF AtEnd
  <2>14. InSkip' /\ InRaw'
    BY <2>1 DEF InSkip, InRaw
  <2>15. Staged' /\ DiskBefore'
    <3>1. Aligned(0 - 0)
      BY AlignedFacts
    <3> QED
      BY <1>1, <1>2, <3>1 DEF Staged, DiskBefore
  <2>16. Behind'
    BY <1>1, <1>2, <2>5 DEF Behind
  <2>17. PlainFile' /\ SimlockFile' /\ SuccessComplete'
    BY <2>1 DEF PlainFile, SimlockFile, SuccessComplete
  <2>18. Clean'
    BY <1>1, <2>1 DEF WInv, Clean, ZeroFrom, Dying
  <2> QED
    BY <1>3, <2>11, <2>12, <2>13, <2>14, <2>15, <2>16, <2>17, <2>18 DEF WInv
<1> QED
  BY <1>4, <1>5
-------------------------------------------------------------------------------
\* A well-formed chunk header says how much its chunk expands to.
LEMMA ChunkBytes ==
  ASSUME AllWellFormed, WInv, pc \in SparsePcs, i < file.n,
         HeaderOf(file, i + 1).tag = "chunk"
  PROVE  /\ Bytes(HeaderOf(file, i + 1)) = Cur.blocks * file.blk
         /\ HeaderOf(file, i + 1).type = Cur.type
         /\ HeaderOf(file, i + 1).total_sz >= ChunkHeaderLen
<1> DEFINE h == HeaderOf(file, i + 1)
<1>1. /\ h.type = Cur.type /\ h.chunk_sz = Cur.blocks /\ h.total_sz >= ChunkHeaderLen
      /\ Cur.blocks * file.blk < WordSize
  BY CurFacts DEF ChunkInPlace, Cur
<1>2. hdr.blk_sz = file.blk /\ Cur.blocks * file.blk \in Nat
  BY SparseNow, CurFacts
<1>3. \A x \in Nat : x < WordSize => x % WordSize = x
  BY Constants
<1> HIDE DEF h
<1>4. Bytes(h) = (Cur.blocks * file.blk) % WordSize
  BY <1>1, <1>2 DEF Bytes
<1>5. Bytes(h) = Cur.blocks * file.blk
  BY <1>1, <1>2, <1>3, <1>4
<1> QED
  BY <1>1, <1>5 DEF h

LEMMA ReadChunkHeaderKeeps ==
  ASSUME AllWellFormed, WInv, IInv', ReadChunkHeader
  PROVE  WInv'
<1> DEFINE c == IF pos < file.len THEN file.cells[pos] ELSE chunk
<1>1. /\ pc = "chunk" /\ chunk' = c
      /\ pos' = SeekBy(MinOf(pos + ChunkHeaderLen, file.len), hdr.chunk_hdr_sz - ChunkHeaderLen)
      /\ UNCHANGED <<file, stale, hdr, i, left, ptr, out, start, sectors, bigchunk, disk>>
      /\ IF c.tag # "chunk" THEN pc' = "fatal"
         ELSE IF c.type = "RAW" THEN rawLeft' = Bytes(c) /\ pc' = "raw"
         ELSE pc' = "skip"
  BY DEF ReadChunkHeader
<1>2. pc \in SparsePcs
  BY <1>1 DEF SparsePcs
<1>3. file.len \in Nat /\ pos \in Nat /\ file \in Files /\ file.n \in Nat /\ i \in Nat
  BY NumberFacts, ShapeFacts
<1>4. pos' = IF pos < file.len THEN pos + 1 ELSE file.len
  <2>1. hdr.chunk_hdr_sz = ChunkHeaderLen
    BY <1>2, SparseNow
  <2> QED
    BY <1>1, <1>3, <2>1, Constants DEF SeekBy, MinOf
<1>5. i < file.n => pos = Cur.in /\ c = HeaderOf(file, i + 1) /\ pos < file.len
                    /\ out = Cur.out /\ Aligned(out)
  <2> SUFFICES ASSUME i < file.n
               PROVE  pos = Cur.in /\ c = HeaderOf(file, i + 1) /\ pos < file.len
                      /\ out = Cur.out /\ Aligned(out)
    OBVIOUS
  <2>1. pos = Cur.in /\ out = Cur.out /\ Aligned(out)
    BY <1>1 DEF WInv, AtChunk
  <2>2. pos < file.len
    BY <1>2, <2>1, CurFacts
  <2> QED
    BY <2>1, <2>2 DEF HeaderOf, Cur
<1>6. i >= file.n => pos >= file.len /\ c = chunk
                     /\ (chunk.tag = "chunk" /\ chunk.type # "RAW" => ptr = 0)
  BY <1>1, <1>2, <1>3 DEF WInv, AtEnd
<1>7. c.tag = "chunk" => c.total_sz >= ChunkHeaderLen
  <2>1. CASE i < file.n
    BY <1>2, <1>5, <2>1, ChunkBytes
  <2>2. CASE i >= file.n
    BY <1>6, <2>2 DEF WInv, Route
  <2> QED
    BY <1>3, <2>1, <2>2
<1>8. i < file.n /\ c.tag = "chunk" => Bytes(c) = Cur.blocks * file.blk
  BY <1>2, <1>5, ChunkBytes
<1> HIDE DEF c
<1>9. NoStray' /\ FlushedPrefix'
  BY <1>1, NoStrayKept, FlushedKept, NumberFacts
<1>10. CASE c.tag # "chunk"
  BY <1>1, <1>7, <1>9, <1>10, FatalKeeps DEF Dying
<1>11. CASE c.tag = "chunk"
  <2>1. pc' \in {"raw", "skip"} /\ (pc' = "raw" <=> c.type = "RAW")
    BY <1>1, <1>11
  <2>2. Route'
    BY <1>1, <1>2, <1>7, <2>1 DEF WInv, Route, SparsePcs
  <2>3. AtChunk' /\ PlainFile' /\ SimlockFile' /\ SuccessComplete'
    BY <2>1 DEF AtChunk, PlainFile, SimlockFile, SuccessComplete
  <2>4. InSkip'
    BY <1>1, <1>4, <1>5, <2>1, Constants DEF InSkip, Cur
  <2>5. InRaw'
    <3> SUFFICES ASSUME pc' = "raw", i < file.n
                 PROVE  /\ c = HeaderOf(file, i + 1) /\ c.type = "RAW"
                        /\ Cur.out <= out /\ pos' = Cur.in + ChunkHeaderLen + (out - Cur.out)
                        /\ (out - Cur.out) + rawLeft' = Cur.blocks * file.blk
                        /\ Aligned(Cur.out)
      BY <1>1, <2>1 DEF InRaw, Cur
    <3>1. rawLeft' = Cur.blocks * file.blk
      BY <1>1, <1>8, <1>11, <2>1
    <3>2. out \in Nat /\ Cur.in \in Nat /\ Cur.blocks * file.blk \in Nat
      BY <1>2, CurFacts, NumberFacts
    <3>3. pos' = Cur.in + 1
      BY <1>4, <1>5
    <3> HIDE DEF Cur
    <3> QED
      BY <1>5, <2>1, <3>1, <3>2, <3>3, Constants
  <2>6. AtEnd'
    <3>1. i >= file.n => file.len <= pos'
      BY <1>3, <1>4, <1>6
    <3> QED
      BY <1>1, <1>3, <1>6, <2>1, <3>1 DEF AtEnd
  <2>7. Staged' /\ Behind' /\ DiskBefore' /\ Clean'
    BY <1>1, <1>2, <2>1 DEF WInv, Staged, Behind, DiskBefore, Clean, ZeroFrom, Dying, StagedFrom
  <2> QED
    BY <1>9, <2>2, <2>3, <2>4, <2>5, <2>6, <2>7 DEF WInv
<1> QED
  BY <1>10, <1>11
LEMMA RawPieceKeeps ==
  ASSUME AllWellFormed, WInv, IInv', RawPiece
  PROVE  WInv'
<1> DEFINE want == MinOf(rawLeft, left)
           r == IF pos < file.len THEN MinOf(want, file.len - pos) ELSE 0
<1>1. /\ pc = "raw" /\ rawLeft > 0
      /\ UNCHANGED <<file, stale, hdr, chunk, i, start, sectors, disk>>
  BY DEF RawPiece
<1>2. pc \in SparsePcs
  BY <1>1 DEF SparsePcs
<1>3. CASE r # want
  <2>1. pc' = "fatal" /\ UNCHANGED <<out, ptr>>
    BY <1>3 DEF RawPiece
  <2>2. NoStray'
    BY <1>1, <2>1, NoStrayKept
  <2> QED
    BY <1>1, <2>1, <2>2, FatalKeeps DEF WInv, Route, Dying
<1>4. CASE r = want
  <2>1. /\ bigchunk' = Filled(ptr, r) /\ pos' = pos + r /\ left' = left - r
        /\ ptr' = ptr + r /\ rawLeft' = rawLeft - r /\ out' = out + r
        /\ pc' = IF left = r THEN "full" ELSE "raw"
    BY <1>4 DEF RawPiece
  <2>2. file.len \in Nat /\ file.n \in Nat
    BY NumberFacts, ShapeFacts
  <2>3. left > 0
    BY <1>1 DEF WInv, Route
  <2>4. r \in Nat /\ r > 0 /\ r <= left /\ r <= rawLeft /\ pos + r <= file.len
    BY <1>1, <1>4, <2>2, <2>3, NumberFacts DEF MinOf
  <2> HIDE DEF want, r
  <2>5. i < file.n
    BY <1>2, <2>2, <2>4, NumberFacts DEF WInv, AtEnd
  <2>6. /\ chunk = HeaderOf(file, i + 1) /\ chunk.type = "RAW"
        /\ Cur.out <= out /\ pos = Cur.in + ChunkHeaderLen + (out - Cur.out)
        /\ (out - Cur.out) + rawLeft = Cur.blocks * file.blk
        /\ Aligned(Cur.out)
    BY <1>1, <2>5 DEF WInv, InRaw
  <2>7. Cur' = Cur /\ (BaseOf(file))' = BaseOf(file)
    BY <1>1 DEF Cur, BaseOf
  <2>8. Cur.in \in Nat /\ Cur.out \in Nat /\ Cur.blocks * file.blk \in Nat
    BY <1>2, <2>5, CurFacts
  <2>9. ChunkInPlace(file, i + 1) /\ i + 1 \in 1..file.n
    BY <1>2, <2>5, CurFacts
  <2>10. Cur.type = "RAW" /\ i + 1 \in RawChunks(file)
    <3>1. chunk.tag = "chunk"
      BY <1>1 DEF WInv, IInv, Headers
    <3> QED
      BY <2>6, <2>9, <3>1 DEF ChunkInPlace, RawChunks, Cur
  <2>11. InRaw'
    <3>1. /\ Cur.out <= out + r
          /\ pos + r = Cur.in + ChunkHeaderLen + ((out + r) - Cur.out)
          /\ ((out + r) - Cur.out) + (rawLeft - r) = Cur.blocks * file.blk
      <4> HIDE DEF Cur
      <4> QED
        BY <2>4, <2>6, <2>8, NumberFacts, Constants
    <3> QED
      BY <1>1, <2>1, <2>6, <2>7, <3>1 DEF InRaw
  <2>12. StagedFrom' = StagedFrom
    BY <2>1, <2>4, <2>7, NumberFacts DEF StagedFrom
  <2>13. out' - ptr' = out - ptr
    BY <2>1, <2>4, NumberFacts
  <2>14. Staged'
    <3>1. Aligned(out' - ptr')
      BY <1>2, <2>5, <2>13 DEF WInv, Staged
    <3>2. ASSUME NEW k \in 0..(ptr' - 1)
          PROVE  SparseHolds(file, StagedFrom + k, bigchunk'[k])
      <4>1. k \in Buffer /\ k \in Nat /\ k < ptr + r
        <5>1. ptr' = ptr + r
          BY <2>1
        <5>2. ptr \in Nat /\ r \in Nat /\ ptr + r <= BigSize /\ BigSize \in Nat
          BY <2>4, NumberFacts, SectorNat
        <5> QED
          BY <5>1, <5>2 DEF Buffer
      <4>2. CASE k < ptr
        <5>1. k \in 0..(ptr - 1) /\ k \notin ptr..(ptr + r - 1)
          BY <4>1, <4>2, NumberFacts
        <5>2. bigchunk'[k] = bigchunk[k]
          BY <2>1, <4>1, <5>1 DEF Filled
        <5> QED
          BY <1>2, <5>1, <5>2 DEF WInv, Staged
      <4>3. CASE ptr <= k
        <5>1. k \in ptr..(ptr + r - 1)
          BY <2>4, <4>1, <4>3, NumberFacts
        <5>2. bigchunk'[k] = file.cells[pos + k - ptr]
          BY <2>1, <4>1, <5>1 DEF Filled
        <5> DEFINE a == StagedFrom + k
                   p == Cur.in + file.chs + (a - BaseOf(file) - Cur.out)
        <5>3. a = BaseOf(file) + out - ptr + k
          BY DEF StagedFrom
        <5>4. file.chs = 1
          BY <1>2, SparseNow, Constants
        <5> HIDE DEF a, Cur
        <5>5. p = pos + k - ptr /\ p < file.len
          BY <2>2, <2>4, <2>6, <2>8, <4>1, <5>3, <5>4, NumberFacts, Constants
        <5>6. /\ BaseOf(file) + Cur.out <= a
              /\ a <= BaseOf(file) + Cur.out + Cur.blocks * file.blk - 1
              /\ a \in Int
          BY <2>4, <2>6, <2>8, <4>1, <4>3, <5>3, NumberFacts
        <5>7. a \in RawRange(file, i + 1)
          BY <2>8, <5>6, NumberFacts DEF RawRange, Cur
        <5> HIDE DEF p
        <5>8. p = file.chunks[i + 1].in + file.chs + (a - BaseOf(file) - file.chunks[i + 1].out)
          BY DEF p, Cur
        <5>9. SparseHolds(file, a, bigchunk'[k])
          BY <2>10, <5>2, <5>5, <5>7, <5>8 DEF SparseHolds
        <5> QED
          BY <5>9 DEF a
      <4> QED
        BY <4>1, <4>2, <4>3, NumberFacts
    <3>3. \A k \in 0..(ptr' - 1) : SparseHolds(file', StagedFrom' + k, bigchunk'[k])
      BY <1>1, <2>12, <3>2
    <3> QED
      BY <3>1, <3>3 DEF Staged
  <2>15. Route'
    <3>1. pc' \in {"raw", "full"} /\ pc' \in SparsePcs
      BY <2>1 DEF SparsePcs
    <3>2. pc' = "raw" => left' > 0
      BY <2>1, <2>4, NumberFacts
    <3> QED
      BY <1>1, <1>2, <3>1, <3>2 DEF WInv, Route
  <2>16. AtChunk' /\ InSkip' /\ PlainFile' /\ SimlockFile' /\ SuccessComplete'
    BY <2>1 DEF AtChunk, InSkip, PlainFile, SimlockFile, SuccessComplete
  <2>17. AtEnd'
    BY <1>1, <2>2, <2>5, NumberFacts DEF AtEnd
  <2>18. Behind'
    <3>1. \A x \in Nat : x <= out => x <= out'
      BY <2>1, <2>4, NumberFacts
    <3>2. \A m \in 1..file.n : EndOf(file, m) \in Nat
      BY ShapeFacts, NumberFacts DEF EndOf
    <3> QED
      BY <1>1, <1>2, <2>13, <3>1, <3>2 DEF WInv, Behind
  <2>19. DiskBefore'
    BY <1>1, <1>2, <2>12 DEF WInv, DiskBefore
  <2>20. Clean'
    <3> SUFFICES ASSUME NEW k \in Buffer, k >= ptr', k >= stale
                 PROVE  bigchunk'[k] = Zero
      BY <1>1, <2>1 DEF Clean, ZeroFrom
    <3>1. k >= ptr /\ k \notin ptr..(ptr + r - 1)
      <4>1. k >= ptr + r
        BY <2>1
      <4>2. ptr \in Nat /\ r \in Nat /\ k \in Nat
        BY <2>4, NumberFacts, SectorNat DEF Buffer
      <4> QED
        BY <4>1, <4>2
    <3>2. bigchunk'[k] = bigchunk[k]
      BY <2>1, <3>1 DEF Filled
    <3> QED
      BY <1>1, <3>1, <3>2 DEF WInv, Clean, ZeroFrom, Dying
  <2>21. NoStray' /\ FlushedPrefix'
    BY <1>1, <2>1, <2>13, NoStrayKept, FlushedKept
  <2> QED
    BY <2>11, <2>14, <2>15, <2>16, <2>17, <2>18, <2>19, <2>20, <2>21 DEF WInv
<1> QED
  BY <1>3, <1>4
LEMMA RawDoneKeeps ==
  ASSUME AllWellFormed, WInv, IInv', RawDone
  PROVE  WInv'
<1>1. /\ pc = "raw" /\ rawLeft = 0 /\ i' = i + 1 /\ pc' = "chunk"
      /\ UNCHANGED <<file, stale, pos, hdr, chunk, rawLeft, left, ptr, out, start,
                     sectors, bigchunk, disk>>
  BY DEF RawDone
<1>2. pc \in SparsePcs
  BY <1>1 DEF SparsePcs
<1>3. file.n \in Nat /\ file.len \in Nat /\ i \in Nat /\ file \in Files
  BY NumberFacts, ShapeFacts
<1>4. chunk.tag = "chunk"
  BY <1>1 DEF WInv, IInv, Headers
<1>5. ASSUME i < file.n
      PROVE  /\ out = EndOf(file, i + 1) /\ Aligned(out)
             /\ chunk.type = "RAW" /\ file.chunks[i + 1].type = "RAW"
             /\ i + 1 < file.n => /\ pos = file.chunks[i + 2].in
                                  /\ out = file.chunks[i + 2].out
             /\ i + 1 >= file.n => file.len <= pos
             /\ out \in Nat
  <2>1. /\ chunk = HeaderOf(file, i + 1) /\ chunk.type = "RAW"
        /\ Cur.out <= out /\ pos = Cur.in + ChunkHeaderLen + (out - Cur.out)
        /\ (out - Cur.out) + rawLeft = Cur.blocks * file.blk
        /\ Aligned(Cur.out)
    BY <1>1, <1>5 DEF WInv, InRaw
  <2>2. /\ Cur.in \in Nat /\ Cur.out \in Nat /\ Cur.blocks * file.blk \in Nat
        /\ Aligned(Cur.blocks * file.blk) /\ ChunkInPlace(file, i + 1)
    BY <1>2, <1>5, CurFacts
  <2>3. /\ Cur.type = "RAW"
        /\ chunk.total_sz = ChunkHeaderLen + Cur.blocks * file.blk
        /\ IF i + 1 < file.n THEN file.chunks[i + 1 + 1].in = Cur.in + chunk.total_sz
                             ELSE file.len <= Cur.in + chunk.total_sz
        /\ i + 1 < file.n => file.chunks[i + 1 + 1].out = EndOf(file, i + 1)
    BY <1>4, <2>1, <2>2 DEF ChunkInPlace, Cur
  <2>4. EndOf(file, i + 1) = Cur.out + Cur.blocks * file.blk
    BY <2>3 DEF EndOf, SizeOf, Cur
  <2>5. i + 1 + 1 = i + 2
    BY <1>3
  <2>6. Cur.type = file.chunks[i + 1].type
    BY DEF Cur
  <2> HIDE DEF Cur
  <2>7. out = Cur.out + Cur.blocks * file.blk
    BY <1>1, <2>1, <2>2, NumberFacts
  <2>8. pos = Cur.in + chunk.total_sz
    BY <1>1, <2>1, <2>2, <2>3, <2>7, NumberFacts, Constants
  <2>9. Aligned(out)
    BY <2>1, <2>2, <2>7, AlignedFacts
  <2>10. i + 1 >= file.n => ~(i + 1 < file.n)
    BY <1>3
  <2> QED
    BY <2>1, <2>3, <2>4, <2>5, <2>6, <2>7, <2>8, <2>9, <2>10, NumberFacts
<1>6. AtChunk'
  <2> SUFFICES ASSUME i + 1 < file.n
               PROVE  pos = file.chunks[(i + 1) + 1].in
                      /\ out = file.chunks[(i + 1) + 1].out /\ Aligned(out)
    BY <1>1 DEF AtChunk, Cur
  <2>1. i < file.n /\ (i + 1) + 1 = i + 2
    BY <1>3
  <2> QED
    BY <1>5, <2>1
<1>7. AtEnd'
  <2>1. i >= file.n \/ i < file.n
    BY <1>3
  <2>2. i >= file.n => pos >= file.len /\ ~(chunk.tag = "chunk" /\ chunk.type # "RAW" /\ ptr # 0)
    BY <1>2 DEF WInv, AtEnd
  <2>3. i + 1 >= file.n => pos >= file.len
    BY <1>3, <1>5, <2>1, <2>2, NumberFacts
  <2> QED
    BY <1>1, <1>5, <2>1, <2>2, <2>3 DEF AtEnd
<1>8. Route'
  BY <1>1, <1>2 DEF WInv, Route, SparsePcs
<1>9. InSkip' /\ InRaw' /\ PlainFile' /\ SimlockFile' /\ SuccessComplete'
  BY <1>1 DEF InSkip, InRaw, PlainFile, SimlockFile, SuccessComplete
<1>10. Staged'
  <2>1. i + 1 < file.n => i < file.n
    BY <1>3
  <2> QED
    BY <1>1, <1>2, <2>1 DEF WInv, Staged, StagedFrom
<1>11. Behind'
  <2>1. ASSUME NEW m \in 1..file.n, m <= i + 1
        PROVE  m <= i \/ (m = i + 1 /\ i < file.n)
    BY <1>3, <2>1
  <2>2. \A m \in 1..file.n : m <= i + 1 => EndOf(file, m) <= out
    BY <1>2, <1>5, <2>1 DEF WInv, Behind
  <2>3. \A j, m \in 1..file.n :
          j < m /\ m <= i + 1 /\ file.chunks[m].type # "RAW" => EndOf(file, j) <= out - ptr
    BY <1>2, <1>5, <2>1 DEF WInv, Behind
  <2> QED
    BY <1>1, <2>2, <2>3 DEF Behind
<1>12. DiskBefore' /\ Clean'
  BY <1>1, <1>2 DEF WInv, DiskBefore, Clean, ZeroFrom, Dying, StagedFrom
<1>13. NoStray' /\ FlushedPrefix'
  BY <1>1, NoStrayKept, FlushedKept, NumberFacts
<1> QED
  BY <1>6, <1>7, <1>8, <1>9, <1>10, <1>11, <1>12, <1>13 DEF WInv
\* A flush puts what is staged on the device and empties bigchunk.
\* A transfer of all that bigchunk holds leaves nothing but the stale cells.
LEMMA WipedZero ==
  ASSUME IInv, NEW n \in Nat, NEW m \in Nat, m <= n, ZeroFrom(m), Wiped(n)
  PROVE  ZeroFrom(0)'
<1> SUFFICES ASSUME NEW k \in Buffer, k >= stale' PROVE bigchunk'[k] = Zero
  BY DEF ZeroFrom
<1>1. k \in Nat /\ stale \in Nat
  BY SectorNat DEF Buffer, IInv, TypeOK
<1>2. CASE k < n
  BY <1>2 DEF Wiped, Cleared
<1>3. CASE k >= n
  <2>1. k >= m /\ k >= stale
    BY <1>1, <1>3 DEF Wiped
  <2> QED
    BY <1>1, <1>3, <2>1 DEF ZeroFrom, Wiped, Cleared
<1> QED
  BY <1>1, <1>2, <1>3

LEMMA FlushKeeps ==
  ASSUME AllWellFormed, WInv, IInv', TransmitFull \/ FlushStaged
  PROVE  WInv' /\ Grown
<1>1. /\ pc = "full" \/ (pc = "skip" /\ left < BigSize)
      /\ Transmitted(FlushStart(Pending), Pending)
      /\ left' = BigSize /\ ptr' = 0
      /\ pc' = IF pc = "full" THEN "raw" ELSE "skip"
      /\ UNCHANGED <<file, pos, hdr, chunk, i, rawLeft, out>>
  BY DEF TransmitFull, FlushStaged, Pending
<1>2. /\ i < file.n /\ Aligned(out) /\ Aligned(ptr) /\ pc \in SparsePcs
      /\ Pending \in 0..Pending /\ Pending * SectorSize = ptr
      /\ PendingStart = FlushStart(Pending)
  BY <1>1, FlushPlace
<1>3. disk' = Stored(PendingStart * SectorSize, Pending * SectorSize) /\ Wiped(ptr)
  BY <1>1, <1>2 DEF Transmitted
<1>4. /\ Grown /\ RightCells'
      /\ \A a \in DOMAIN disk' : a < BaseOf(file) + out
      /\ DOMAIN disk' = DOMAIN disk \cup StagedFrom..(BaseOf(file) + out - 1)
  BY <1>1, <1>2, <1>3, StagedStored
<1>5. /\ BaseOf(file)' = BaseOf(file) /\ Cur' = Cur
      /\ BaseOf(file) + out - 0 = BaseOf(file) + out /\ out - 0 = out
      /\ StagedFrom' = BaseOf(file) + out
  BY <1>1, NumberFacts DEF BaseOf, Cur, StagedFrom
<1>6. file.n \in Nat /\ i \in Nat /\ file \in Files
  BY NumberFacts, ShapeFacts
<1>7. pc' \in {"raw", "skip"} /\ pc' \in SparsePcs
  BY <1>1 DEF SparsePcs
<1>8. Route'
  BY <1>1, <1>2, <1>7, SectorNat DEF WInv, Route
<1>9. AtChunk' /\ PlainFile' /\ SimlockFile' /\ SuccessComplete'
  BY <1>7 DEF AtChunk, PlainFile, SimlockFile, SuccessComplete
<1>10. InSkip'
  BY <1>1, <1>2, <1>5 DEF WInv, InSkip
<1>11. InRaw'
  BY <1>1, <1>5 DEF WInv, InRaw
<1>12. AtEnd'
  BY <1>1, <1>2, <1>6 DEF AtEnd
<1>13. Staged'
  BY <1>1, <1>2, <1>5 DEF Staged
<1>14. Behind'
  <2>1. \A x \in Nat : x <= out - ptr => x <= out
    BY NumberFacts
  <2>2. \A m \in 1..file.n : EndOf(file, m) \in Nat
    BY <1>6, ShapeFacts DEF EndOf
  <2>3. out' - ptr' = out
    BY <1>1, NumberFacts
  <2> QED
    BY <1>1, <1>2, <2>1, <2>2, <2>3 DEF WInv, Behind
<1>15. DiskBefore'
  BY <1>4, <1>5 DEF DiskBefore
<1>16. Clean' /\ NoStray'
  <2>1. ZeroFrom(ptr)
    BY <1>1 DEF WInv, Clean, Dying
  <2>2. ZeroFrom(0)'
    BY <1>3, <2>1, WipedZero, NumberFacts DEF WInv
  <2> QED
    BY <1>1, <1>4, <1>7, <2>2 DEF Clean, NoStray, RightCells
<1>17. FlushedPrefix'
  <2> SUFFICES ASSUME IsSparseImage(file), NEW a \in Wanted(file), a < BaseOf(file) + out
               PROVE  a \in DOMAIN disk'
    BY <1>1, <1>5 DEF FlushedPrefix
  <2>1. a \in Int
    BY <1>6, ShapeFacts DEF Wanted, RawRange
  <2>2. CASE a < StagedFrom
    BY <1>4, <2>2 DEF WInv, FlushedPrefix, StagedFrom
  <2>3. CASE StagedFrom <= a
    <3>1. a \in StagedFrom..(BaseOf(file) + out - 1)
      BY <2>1, <2>3, NumberFacts
    <3> QED
      BY <1>4, <3>1
  <2> QED
    BY <2>1, <2>2, <2>3, NumberFacts
<1> QED
  BY <1>4, <1>8, <1>9, <1>10, <1>11, <1>12, <1>13, <1>14, <1>15, <1>16, <1>17 DEF WInv

\* What the image has at the end of chunk i + 1, when it is passed over.
LEMMA SkipFacts ==
  ASSUME AllWellFormed, WInv, SkipChunk
  PROVE  /\ i < file.n =>
              /\ out' = EndOf(file, i + 1) /\ Aligned(out')
              /\ file.chunks[i + 1].type # "RAW"
              /\ i + 1 < file.n => /\ pos' = file.chunks[i + 2].in
                                   /\ out' = file.chunks[i + 2].out
              /\ i + 1 >= file.n => file.len <= pos'
         /\ i >= file.n => file.len <= pos'
         /\ out' \in Nat /\ out <= out'
<1>1. /\ pc = "skip" /\ left = BigSize
      /\ pos' = SeekBy(pos, chunk.total_sz - ChunkHeaderLen)
      /\ out' = IF chunk.type = "CRC32" THEN out ELSE out + Bytes(chunk)
  BY DEF SkipChunk
<1>2. pc \in SparsePcs
  BY <1>1 DEF SparsePcs
<1>3. /\ file.n \in Nat /\ file.len \in Nat /\ i \in Nat /\ file \in Files
      /\ pos \in Nat /\ out \in Nat
  BY NumberFacts, ShapeFacts
<1>4. chunk.tag = "chunk" /\ CellShape(chunk) /\ CellShape(hdr) /\ hdr.tag = "sparse"
  BY <1>1 DEF WInv, IInv, Headers
<1>5. chunk.total_sz \in Nat /\ chunk.total_sz >= ChunkHeaderLen /\ Bytes(chunk) \in Nat
  BY <1>4, Constants DEF WInv, Route, CellShape, Bytes
<1>6. pos' = pos + (chunk.total_sz - ChunkHeaderLen) /\ pos <= pos'
  BY <1>1, <1>3, <1>5, Constants DEF SeekBy
<1>7. out' \in Nat /\ out <= out'
  BY <1>1, <1>3, <1>5
<1>8. i >= file.n => file.len <= pos'
  <2>1. i >= file.n => pos >= file.len
    BY <1>2 DEF WInv, AtEnd
  <2>2. pos' \in Int
    BY <1>3, <1>5, <1>6, Constants
  <2> QED
    BY <1>3, <1>6, <2>1, <2>2
<1>9. ASSUME i < file.n
      PROVE  /\ out' = EndOf(file, i + 1) /\ Aligned(out')
             /\ file.chunks[i + 1].type # "RAW"
             /\ i + 1 < file.n => /\ pos' = file.chunks[i + 2].in
                                  /\ out' = file.chunks[i + 2].out
             /\ i + 1 >= file.n => file.len <= pos'
  <2>1. /\ pos = Cur.in + ChunkHeaderLen /\ out = Cur.out /\ Aligned(out)
        /\ chunk = HeaderOf(file, i + 1) /\ chunk.type # "RAW"
    BY <1>1, <1>9 DEF WInv, InSkip
  <2>2. /\ Cur.in \in Nat /\ Cur.out \in Nat /\ Cur.blocks * file.blk \in Nat
        /\ Aligned(Cur.blocks * file.blk) /\ ChunkInPlace(file, i + 1)
    BY <1>2, <1>9, CurFacts
  <2>3. /\ Bytes(chunk) = Cur.blocks * file.blk /\ chunk.type = Cur.type
    BY <1>2, <1>4, <1>9, <2>1, ChunkBytes
  <2>4. /\ IF i + 1 < file.n THEN file.chunks[i + 1 + 1].in = Cur.in + chunk.total_sz
                             ELSE file.len <= Cur.in + chunk.total_sz
        /\ i + 1 < file.n => file.chunks[i + 1 + 1].out = EndOf(file, i + 1)
    BY <1>4, <2>1, <2>2 DEF ChunkInPlace, Cur
  <2>5. EndOf(file, i + 1) = IF Cur.type = "CRC32" THEN Cur.out + 0
                             ELSE Cur.out + Cur.blocks * file.blk
    BY DEF EndOf, SizeOf, Cur
  <2>6. i + 1 + 1 = i + 2 /\ (i + 1 >= file.n => ~(i + 1 < file.n))
    BY <1>3
  <2>7. file.chunks[i + 1].type # "RAW"
    BY <2>1, <2>3 DEF Cur
  <2> HIDE DEF Cur
  <2>8. out' = EndOf(file, i + 1)
    BY <1>1, <2>1, <2>2, <2>3, <2>5
  <2>9. Aligned(out')
    BY <1>1, <2>1, <2>2, <2>3, AlignedFacts
  <2>10. pos' = Cur.in + chunk.total_sz
    BY <1>5, <1>6, <2>1, <2>2, Constants
  <2> QED
    BY <2>4, <2>6, <2>7, <2>8, <2>9, <2>10
<1> QED
  BY <1>7, <1>8, <1>9
LEMMA SkipChunkKeeps ==
  ASSUME AllWellFormed, WInv, IInv', SkipChunk
  PROVE  WInv'
<1>1. /\ pc = "skip" /\ left = BigSize /\ i' = i + 1 /\ pc' = "chunk"
      /\ UNCHANGED <<file, stale, hdr, chunk, rawLeft, left, ptr, start, sectors,
                     bigchunk, disk>>
  BY DEF SkipChunk
<1>2. pc \in SparsePcs
  BY <1>1 DEF SparsePcs
<1>3. /\ file.n \in Nat /\ file.len \in Nat /\ i \in Nat /\ file \in Files /\ out \in Nat
      /\ ptr = 0 /\ left > 0 /\ pos' \in Nat
  BY <1>1, NumberFacts, ShapeFacts, SectorNat DEF IInv, TypeOK
<1>4. out' \in Nat /\ out <= out'
  BY SkipFacts
<1>5. ASSUME i < file.n
      PROVE  /\ out' = EndOf(file, i + 1) /\ Aligned(out')
             /\ file.chunks[i + 1].type # "RAW"
             /\ i + 1 < file.n => /\ pos' = file.chunks[i + 2].in
                                  /\ out' = file.chunks[i + 2].out
             /\ i + 1 >= file.n => file.len <= pos'
  BY <1>5, SkipFacts
<1>6. AtChunk'
  <2> SUFFICES ASSUME i + 1 < file.n
               PROVE  /\ pos' = file.chunks[(i + 1) + 1].in
                      /\ out' = file.chunks[(i + 1) + 1].out /\ Aligned(out')
    BY <1>1 DEF AtChunk, Cur
  <2>1. i < file.n /\ (i + 1) + 1 = i + 2
    BY <1>3
  <2> QED
    BY <1>5, <2>1
<1>7. AtEnd'
  <2>1. i + 1 >= file.n => file.len <= pos'
    <3>1. i < file.n \/ i >= file.n
      BY <1>3
    <3> QED
      BY <1>5, <3>1, SkipFacts
  <2> QED
    BY <1>1, <1>3, <2>1 DEF AtEnd
<1>8. Route'
  BY <1>1, <1>2, <1>3 DEF WInv, Route, SparsePcs
<1>9. InSkip' /\ InRaw' /\ PlainFile' /\ SimlockFile' /\ SuccessComplete'
  BY <1>1 DEF InSkip, InRaw, PlainFile, SimlockFile, SuccessComplete
<1>10. Staged'
  <2>1. i + 1 < file.n => Aligned(out' - 0)
    <3>1. i + 1 < file.n => i < file.n
      BY <1>3
    <3>2. \A x \in Nat : x - 0 = x
      OBVIOUS
    <3> QED
      BY <1>4, <1>5, <3>1, <3>2
  <2> QED
    BY <1>1, <1>3, <2>1 DEF Staged
<1>11. \A m \in 1..file.n : EndOf(file, m) \in Nat
  BY <1>3, ShapeFacts DEF EndOf
<1>12. \A m \in 1..file.n : m <= i => EndOf(file, m) <= out
  BY <1>2 DEF WInv, Behind
<1>13. \A m \in 1..file.n : m <= i + 1 => m <= i \/ (m = i + 1 /\ i < file.n)
  BY <1>3
<1>14. Behind'
  <2>1. \A m \in 1..file.n : m <= i => EndOf(file, m) <= out'
    BY <1>3, <1>4, <1>11, <1>12
  <2>2. \A m \in 1..file.n : m <= i + 1 => EndOf(file, m) <= out'
    BY <1>4, <1>5, <1>13, <2>1
  <2>3. \A j, m \in 1..file.n : j < m /\ m <= i + 1 => EndOf(file, j) <= out' - 0
    <3> SUFFICES ASSUME NEW j \in 1..file.n, NEW m \in 1..file.n, j < m, m <= i + 1
                 PROVE  EndOf(file, j) <= out' - 0
      OBVIOUS
    <3>1. j <= i + 1
      BY <1>3
    <3> QED
      BY <1>4, <1>11, <2>2, <3>1
  <2> QED
    BY <1>1, <1>3, <2>2, <2>3 DEF Behind
<1>15. DiskBefore'
  <2>1. \A a \in DOMAIN disk : a < StagedFrom
    BY <1>2 DEF WInv, DiskBefore
  <2>2. StagedFrom <= StagedFrom' /\ StagedFrom' \in Nat
    <3>1. StagedFrom' = BaseOf(file) + out' - 0
      BY <1>1, <1>3 DEF StagedFrom, BaseOf
    <3> QED
      BY <1>3, <1>4, <3>1, NumberFacts DEF StagedFrom
  <2> QED
    BY <1>1, <2>1, <2>2, NumberFacts DEF DiskBefore
<1>16. Clean'
  BY <1>1 DEF WInv, Clean, ZeroFrom, Dying
<1>17. NoStray'
  BY <1>1, NoStrayKept
<1>18. FlushedPrefix'
  <2> SUFFICES ASSUME IsSparseImage(file), NEW a \in Wanted(file), a < BaseOf(file) + out' - 0
               PROVE  a \in DOMAIN disk
    BY <1>1, <1>3 DEF FlushedPrefix, BaseOf
  <2>1. PICK j \in RawChunks(file) : a \in RawRange(file, j)
    BY DEF Wanted
  <2>2. j \in 1..file.n /\ file.chunks[j].type = "RAW"
    BY <2>1 DEF RawChunks
  <2>3. /\ a \in Int /\ BaseOf(file) + file.chunks[j].out <= a
        /\ a < BaseOf(file) + EndOf(file, j)
        /\ file.chunks[j].out \in Nat
    <3>1. EndOf(file, j) = file.chunks[j].out + file.chunks[j].blocks * file.blk
      BY <2>2 DEF EndOf, SizeOf
    <3>2. file.chunks[j].out \in Nat /\ file.chunks[j].blocks * file.blk \in Nat
      BY <1>3, <2>2, ShapeFacts
    <3> QED
      BY <2>1, <3>1, <3>2, NumberFacts DEF RawRange
  <2>4. EndOf(file, j) <= out
    <3> SUFFICES ASSUME ~(j <= i) PROVE FALSE
      BY <1>12, <2>2
    <3>1. i < file.n /\ i + 1 \in 1..file.n /\ i + 1 <= j
      BY <1>3, <2>2
    <3>2. i + 1 < j
      <4>1. i + 1 # j
        BY <1>5, <2>2, <3>1
      <4> QED
        BY <1>3, <2>2, <3>1, <4>1
    <3>3. EndOf(file, i + 1) <= file.chunks[j].out
      BY <1>2, <1>3, <2>2, <3>1, <3>2, SparseNow, OutMonotone
    <3>4. out' <= file.chunks[j].out
      BY <1>5, <3>1, <3>3
    <3> QED
      BY <1>4, <2>3, <3>4, NumberFacts
  <2>5. a < BaseOf(file) + out - ptr
    BY <1>3, <1>11, <2>2, <2>3, <2>4, NumberFacts
  <2> QED
    BY <2>5 DEF WInv, FlushedPrefix
<1> QED
  BY <1>6, <1>7, <1>8, <1>9, <1>10, <1>14, <1>15, <1>16, <1>17, <1>18 DEF WInv

\* A RAW chunk with another kind of chunk behind it was flushed with that one.
LEMMA ChunksDoneKeeps ==
  ASSUME AllWellFormed, WInv, IInv', ChunksDone
  PROVE  WInv'
<1>1. /\ pc = "chunk" /\ i = hdr.total_chunks /\ pc' = "ok"
      /\ stale' = IF ptr > stale THEN ptr ELSE stale
      /\ UNCHANGED <<file, pos, hdr, chunk, i, rawLeft, left, ptr, out, start,
                     sectors, bigchunk, disk>>
  BY DEF ChunksDone
<1>2. pc \in SparsePcs
  BY <1>1 DEF SparsePcs
<1>3. /\ file.n \in Nat /\ file \in Files /\ out \in Nat /\ ptr \in Nat /\ i \in Nat
      /\ file.n <= i /\ IsSparseImage(file)
  BY <1>1, <1>2, SparseNow, NumberFacts, ShapeFacts
<1>4. ptr <= stale' /\ stale <= stale' /\ stale \in Nat /\ stale' \in Nat
  BY <1>1, <1>3, SectorNat DEF WInv, IInv, TypeOK
<1>5. Route'
  BY <1>1, <1>4 DEF WInv, Route, SparsePcs
<1>6. AtChunk' /\ InSkip' /\ InRaw' /\ AtEnd' /\ Staged' /\ Behind' /\ DiskBefore'
  BY <1>1 DEF AtChunk, InSkip, InRaw, AtEnd, Staged, Behind, DiskBefore, SparsePcs
<1>7. PlainFile' /\ SimlockFile'
  BY <1>1 DEF PlainFile, SimlockFile
<1>8. Clean'
  <2> SUFFICES ASSUME NEW k \in Buffer, k >= stale' PROVE bigchunk[k] = Zero
    BY <1>1 DEF Clean, ZeroFrom
  <2>1. k >= ptr /\ k >= stale
    BY <1>3, <1>4, SectorNat DEF Buffer
  <2> QED
    BY <1>1, <2>1 DEF WInv, Clean, ZeroFrom, Dying
<1>9. NoStray'
  BY <1>1, NoStrayKept
<1>10. FlushedPrefix'
  BY <1>1, FlushedKept, NumberFacts
<1>11. SuccessComplete'
  <2> SUFFICES ASSUME NEW a \in Vouched(file) PROVE a \in DOMAIN disk
    BY <1>1 DEF SuccessComplete
  <2>1. PICK j \in RawChunks(file) :
          a \in RawRange(file, j) /\ \E m \in (j + 1)..file.n : file.chunks[m].type # "RAW"
    BY <1>3 DEF Vouched
  <2>2. j \in 1..file.n /\ file.chunks[j].type = "RAW"
    BY <2>1 DEF RawChunks
  <2>3. PICK m \in (j + 1)..file.n : file.chunks[m].type # "RAW"
    BY <2>1
  <2>4. m \in 1..file.n /\ j < m /\ m <= i
    BY <1>3, <2>2, <2>3
  <2>5. EndOf(file, j) <= out - ptr
    BY <1>2, <2>2, <2>3, <2>4 DEF WInv, Behind
  <2>6. /\ EndOf(file, j) = file.chunks[j].out + file.chunks[j].blocks * file.blk
        /\ file.chunks[j].out \in Nat /\ file.chunks[j].blocks * file.blk \in Nat
    BY <1>3, <2>2, ShapeFacts DEF EndOf, SizeOf
  <2>7. a < BaseOf(file) + out - ptr
    BY <2>1, <2>5, <2>6, NumberFacts DEF RawRange
  <2>8. a \in Wanted(file)
    BY <1>3, <2>1 DEF Wanted
  <2> QED
    BY <1>3, <2>7, <2>8 DEF WInv, FlushedPrefix
<1> QED
  BY <1>5, <1>6, <1>7, <1>8, <1>9, <1>10, <1>11 DEF WInv
-------------------------------------------------------------------------------
(***************************************************************************)
(* Files that are written as they are.                                     *)
(***************************************************************************)
LEMMA ReadableFacts ==
  ASSUME WInv
  PROVE  /\ Readable \in Nat /\ Readable <= BigSize
         /\ Readable > 0 => /\ pos < file.len /\ pos + Readable <= file.len
                            /\ Readable < BigSize => pos + Readable = file.len
                            /\ pos = 0 /\ file.len <= BigSize => Readable = file.len
         /\ Readable = 0 => file.len <= pos
<1>1. pos \in Nat /\ file.len \in Nat
  BY NumberFacts, ShapeFacts
<1> QED
  BY <1>1, SectorNat DEF Readable, MinOf

LEMMA GeneralReadKeeps ==
  ASSUME AllWellFormed, WInv, IInv', GeneralRead
  PROVE  WInv'
<1> DEFINE r == Readable
<1>1. /\ pc = "general" /\ r > 0 /\ bigchunk' = Filled(0, r) /\ pos' = pos + r
      /\ sectors' = RoundUp(r) /\ pc' = "send"
      /\ UNCHANGED <<file, stale, hdr, chunk, i, rawLeft, left, ptr, out, start, disk>>
  BY DEF GeneralRead
<1>2. /\ r \in Nat /\ r <= BigSize /\ pos < file.len /\ pos + r <= file.len
      /\ r < BigSize => pos + r = file.len
      /\ pos \in Nat /\ file.len \in Nat /\ file.seek \in Nat /\ file.base \in Nat
      /\ start \in Nat
  BY <1>1, ReadableFacts, NumberFacts, ShapeFacts
<1>3. /\ \A a \in DOMAIN disk : a < start * SectorSize
      /\ \A a \in BaseOf(file)..(start * SectorSize - 1) : a \in DOMAIN disk
      /\ Unsent = 0
  BY <1>1, <1>2 DEF WInv, PlainFile
<1> HIDE DEF r
<1>4. Unsent' = r
  <2> DEFINE s == (start - file.base) * SectorSize
  <2>1. s \in Int
    BY <1>2, SectorNat
  <2>2. Unsent = pos - file.seek - s /\ Unsent' = pos' - file.seek - s
    BY <1>1 DEF Unsent
  <2> HIDE DEF s
  <2>3. pos - file.seek - s = 0 /\ Unsent' = (pos + r) - file.seek - s
    BY <1>1, <1>3, <2>2
  <2> QED
    BY <1>2, <2>1, <2>3
<1>5. \A k \in 0..(r - 1) : bigchunk'[k] = file.cells[pos + k]
  <2> SUFFICES ASSUME NEW k \in 0..(r - 1) PROVE bigchunk'[k] = file.cells[pos + k]
    OBVIOUS
  <2>1. k \in Buffer /\ k \in 0..(0 + r - 1) /\ pos + k - 0 = pos + k
    BY <1>2, SectorNat DEF Buffer
  <2> QED
    BY <1>1, <2>1 DEF Filled
<1>6. PlainFile'
  <2>1. \A k \in 0..(r - 1) : (pos + r) - r + k = pos + k
    BY <1>2
  <2>2. r \in 1..BigSize
    BY <1>1, <1>2, SectorNat
  <2>3. \A k \in 0..(Unsent' - 1) : bigchunk'[k] = file.cells[pos' - Unsent' + k]
    BY <1>1, <1>4, <1>5, <2>1
  <2>4. BaseOf(file)' = BaseOf(file)
    BY <1>1 DEF BaseOf
  <2> QED
    BY <1>1, <1>2, <1>3, <1>4, <2>2, <2>3, <2>4 DEF PlainFile
<1>7. Route'
  BY <1>1 DEF WInv, Route, SparsePcs
<1>8. AtChunk' /\ InSkip' /\ InRaw' /\ AtEnd' /\ Staged' /\ Behind' /\ DiskBefore'
  BY <1>1 DEF AtChunk, InSkip, InRaw, AtEnd, Staged, Behind, DiskBefore, SparsePcs
<1>9. SimlockFile' /\ SuccessComplete'
  BY <1>1 DEF SimlockFile, SuccessComplete
<1>10. Clean'
  <2> SUFFICES ASSUME NEW k \in Buffer, k >= r, k >= stale
               PROVE  bigchunk'[k] = Zero
    BY <1>1, <1>4 DEF Clean, ZeroFrom
  <2>1. k \notin 0..(0 + r - 1) /\ k >= 0
    BY <1>2, SectorNat DEF Buffer
  <2>2. ptr = 0
    BY <1>1 DEF WInv, Route
  <2>3. bigchunk[k] = Zero
    BY <1>1, <2>1, <2>2 DEF WInv, Clean, ZeroFrom, Dying
  <2> QED
    BY <1>1, <2>1, <2>3 DEF Filled
<1>11. FlushedPrefix'
  BY <1>1, FlushedKept, NumberFacts
<1>12. NoStray'
  <2>1. RightCells /\ ~IsSparseImage(file)
    BY <1>1 DEF WInv, NoStray, RightCells, Route
  <2> SUFFICES ASSUME NEW k \in Buffer, start * SectorSize + k \in Padding(file), k >= stale
               PROVE  bigchunk'[k] = Zero
    BY <1>1, <2>1 DEF NoStray, RightCells
  <2> DEFINE s == start * SectorSize
             qs == (start - file.base) * SectorSize
             b == BaseOf(file)
  <2>2. b + (file.len - file.seek) <= s + k
    BY <2>1 DEF Padding
  <2>3. s = b + qs /\ b \in Nat /\ qs \in Int /\ pos - file.seek - qs = 0
    BY <1>2, <1>3, SectorNat, NumberFacts DEF BaseOf, Unsent
  <2>4. k \in Nat
    BY SectorNat DEF Buffer
  <2> HIDE DEF s, qs, b
  <2>5. k >= r
    BY <1>2, <2>2, <2>3, <2>4
  <2> QED
    BY <1>1, <1>4, <1>10, <2>5 DEF Clean, ZeroFrom
<1> QED
  BY <1>6, <1>7, <1>8, <1>9, <1>10, <1>11, <1>12 DEF WInv
\* A piece of the file, filled up to whole sectors, goes to its place.
LEMMA PieceStored ==
  ASSUME AllWellFormed, WInv, pc = "send", NEW m \in 0..sectors,
         file' = file, disk' = Stored(start * SectorSize, m * SectorSize)
  PROVE  /\ Grown /\ RightCells'
         /\ DOMAIN disk' =
              DOMAIN disk \cup (start * SectorSize)..(start * SectorSize + m * SectorSize - 1)
<1> DEFINE u == Unsent
           s == start * SectorSize
           w == m * SectorSize
           q == start - file.base
           n == file.len - file.seek
<1>1. /\ u \in 1..BigSize /\ sectors = RoundUp(u) /\ pos <= file.len
      /\ u < BigSize => pos = file.len
      /\ \A k \in 0..(u - 1) : bigchunk[k] = file.cells[pos - u + k]
      /\ \A a \in DOMAIN disk : a < s
  BY DEF WInv, PlainFile
<1>2. ~IsSparseImage(file)
  BY DEF WInv, Route
<1>3. /\ file.base \in Nat /\ file.seek \in Nat /\ file.len \in Nat /\ pos \in Nat
      /\ start \in Nat /\ q \in Nat /\ m \in Nat /\ sectors \in Nat /\ m <= sectors
  BY NumberFacts, ShapeFacts DEF WInv, IInv, GeneralCursor
<1>4. s \in Nat /\ w \in Nat /\ q * SectorSize \in Nat
  BY <1>3, SectorNat, ProductNat
<1>5. s = BaseOf(file) + q * SectorSize
  BY <1>3, SectorNat DEF BaseOf
<1>6. pos - file.seek = q * SectorSize + u
  BY <1>3, <1>4 DEF Unsent
<1>7. w <= RoundUp(u) * SectorSize /\ RoundUp(u) * SectorSize <= BigSize
  <2>1. w <= sectors * SectorSize
    BY <1>3, SectorNat, ProductMonotone
  <2> QED
    BY <1>1, <2>1, SectorNat, RoundUpFits
<1>8. u < BigSize => n = q * SectorSize + u /\ RoundUp(n) = q + RoundUp(u)
  <2>1. u < BigSize => n = q * SectorSize + u
    BY <1>1, <1>6
  <2>2. u \in Nat /\ q \in Nat
    BY <1>1, <1>3, SectorNat
  <2> HIDE DEF u, q
  <2>3. RoundUp(q * SectorSize + u) = q + RoundUp(u)
    BY <2>2, RoundUpFacts
  <2> HIDE DEF n
  <2> QED
    BY <2>1, <2>3
<1>9. (q + RoundUp(u)) * SectorSize = q * SectorSize + RoundUp(u) * SectorSize
      /\ RoundUp(u) * SectorSize \in Nat /\ RoundUp(u) \in Nat
  <2>1. RoundUp(u) \in Nat
    BY <1>1, SectorNat, RoundUpFits
  <2> QED
    BY <1>3, <2>1, SectorNat, ProductNat
<1> DEFINE qs == q * SectorSize
           rs == RoundUp(u) * SectorSize
<1>10. BaseOf(file) \in Nat /\ n \in Int
  BY <1>3, NumberFacts
<1>11. /\ DOMAIN disk' = DOMAIN disk \cup s..(s + w - 1)
       /\ \A x \in s..(s + w - 1) : disk'[x] = bigchunk[x - s]
       /\ \A x \in DOMAIN disk : x \notin s..(s + w - 1) => disk'[x] = disk[x]
  <2>1. disk' = Stored(s, w)
    OBVIOUS
  <2> HIDE DEF s, w
  <2>2. s \in Int /\ w \in Nat
    BY <1>4
  <2> QED
    BY <2>1, <2>2, StoredFacts
<1>12. /\ qs \in Nat /\ rs \in Nat /\ w <= rs /\ rs <= BigSize /\ s = BaseOf(file) + qs
       /\ pos - file.seek = qs + u
       /\ u < BigSize => n = qs + u /\ RoundUp(n) * SectorSize = qs + rs
       /\ pos - file.seek <= n
  BY <1>1, <1>3, <1>4, <1>5, <1>6, <1>7, <1>8, <1>9
<1>13. n = file.len - file.seek
  OBVIOUS
<1> HIDE DEF u, s, w, q, n, qs, rs
<1>14. Grown
  <2>1. \A a \in DOMAIN disk : a \notin s..(s + w - 1)
    BY <1>1, <1>4, NumberFacts
  <2> QED
    BY <1>11, <2>1 DEF Grown
<1>15. ASSUME NEW a \in s..(s + w - 1)
       PROVE  ImageHolds(file, a, bigchunk[a - s])
  <2> DEFINE k == a - s
             o == a - BaseOf(file)
  <2>1. k \in Nat /\ k < w /\ o = qs + k /\ o \in Nat /\ k \in Buffer
    BY <1>4, <1>10, <1>12, SectorNat DEF Buffer
  <2>2. CASE k < u
    <3>1. o \in 0..(n - 1)
      BY <1>1, <1>3, <1>10, <1>12, <2>1, <2>2
    <3>2. pos - u + k = file.seek + o
      BY <1>1, <1>3, <1>12, <2>1
    <3>3. bigchunk[k] = file.cells[file.seek + o]
      BY <1>1, <2>1, <2>2, <3>2
    <3> QED
      BY <1>2, <1>13, <3>1, <3>3 DEF ImageHolds, PlainHolds
  <2>3. CASE u <= k
    <3> HIDE DEF k, o
    <3>1. u < BigSize
      BY <1>1, <1>4, <1>12, <2>1, <2>3, SectorNat
    <3>2. n = qs + u /\ RoundUp(n) * SectorSize = qs + rs /\ n \in Int
      BY <1>10, <1>12, <3>1
    <3>3. n <= o /\ o < qs + rs
      BY <1>1, <1>4, <1>12, <2>1, <2>3, <3>2
    <3>4. o \in n..(RoundUp(n) * SectorSize - 1)
      BY <1>12, <2>1, <3>2, <3>3
    <3> QED
      BY <1>2, <1>13, <3>4 DEF ImageHolds, PlainHolds, k, o
  <2> QED
    BY <1>1, <2>1, <2>2, <2>3
<1>16. RightCells'
  <2> SUFFICES ASSUME NEW a \in DOMAIN disk'
               PROVE  ImageHolds(file, a, disk'[a])
    BY DEF RightCells
  <2>1. CASE a \in DOMAIN disk
    BY <1>14, <2>1 DEF WInv, NoStray, Grown
  <2>2. CASE a \in s..(s + w - 1)
    BY <1>11, <1>15, <2>2
  <2> QED
    BY <1>11, <2>1, <2>2
<1> QED
  BY <1>11, <1>14, <1>16 DEF s, w
LEMMA GeneralSendKeeps ==
  ASSUME AllWellFormed, WInv, IInv', GeneralSend
  PROVE  WInv' /\ Grown
<1> DEFINE u == Unsent
           s == start * SectorSize
           w == sectors * SectorSize
           q == start - file.base
<1>1. /\ pc = "send" /\ disk' = Stored(s, w) /\ Wiped(w)
      /\ start' = start + sectors /\ pc' = "general"
      /\ UNCHANGED <<file, pos, hdr, chunk, i, rawLeft, left, ptr, out, sectors>>
  BY DEF GeneralSend
<1>2. /\ u \in 1..BigSize /\ sectors = RoundUp(u) /\ pos <= file.len
      /\ u < BigSize => pos = file.len
      /\ \A a \in DOMAIN disk : a < s
      /\ \A a \in BaseOf(file)..(s - 1) : a \in DOMAIN disk
  BY <1>1 DEF WInv, PlainFile
<1>3. /\ file.base \in Nat /\ file.seek \in Nat /\ file.len \in Nat /\ pos \in Nat
      /\ start \in Nat /\ q \in Nat /\ sectors \in Nat /\ BaseOf(file) \in Nat
  BY <1>1, NumberFacts, ShapeFacts DEF WInv, IInv, GeneralCursor
<1>4. s \in Nat /\ w \in Nat /\ q * SectorSize \in Nat
  BY <1>3, SectorNat, ProductNat
<1>5. s = BaseOf(file) + q * SectorSize
  BY <1>3, SectorNat DEF BaseOf
<1>6. pos - file.seek = q * SectorSize + u
  BY <1>2, <1>3, <1>4 DEF Unsent
<1>7. start' * SectorSize = s + w
  BY <1>1, <1>3, SectorNat
<1>8. /\ u <= w /\ (u = BigSize => w = BigSize)
  BY <1>2, SectorNat, RoundUpFacts
<1>9. /\ Grown /\ RightCells'
      /\ DOMAIN disk' = DOMAIN disk \cup s..(s + w - 1)
  <2>1. sectors \in 0..sectors
    BY <1>3
  <2> QED
    BY <1>1, <2>1, PieceStored
<1>10. Unsent' = u - w
  <2>1. (start' - file.base) * SectorSize = q * SectorSize + w
    BY <1>1, <1>3, SectorNat
  <2>2. Unsent' = pos - file.seek - (start' - file.base) * SectorSize
    BY <1>1 DEF Unsent
  <2> HIDE DEF u, w
  <2> DEFINE qs == q * SectorSize
             qw == (start' - file.base) * SectorSize
  <2>3. qw = qs + w /\ Unsent' = pos - file.seek - qw /\ pos - file.seek = qs + u
        /\ qs \in Nat
    BY <1>4, <1>6, <2>1, <2>2
  <2> HIDE DEF qs, qw
  <2> QED
    BY <1>2, <1>3, <1>4, <2>3
<1> DEFINE qs == q * SectorSize
<1>11. qs \in Nat /\ s = BaseOf(file) + qs /\ pos - file.seek = qs + u
  BY <1>4, <1>5, <1>6
<1>12. u < BigSize \/ u = BigSize
  BY <1>2, SectorNat
<1> HIDE DEF u, s, w, q, qs
<1>13. PlainFile'
  <2>1. \A a \in DOMAIN disk' : a < s + w
    BY <1>2, <1>4, <1>9, NumberFacts
  <2>2. ASSUME NEW a \in BaseOf(file)..(s + w - 1)
        PROVE  a \in DOMAIN disk'
    <3>1. a \in BaseOf(file)..(s - 1) \/ a \in s..(s + w - 1)
      BY <1>3, <1>4
    <3> QED
      BY <1>2, <1>9, <3>1
  <2>3. pos >= file.len \/ u - w = 0
    <3>1. CASE u = BigSize
      BY <1>2, <1>8, <3>1, SectorNat
    <3>2. CASE u < BigSize
      BY <1>2, <1>3, <3>2
    <3> QED
      BY <1>12, <3>1, <3>2
  <2>4. pos >= file.len => BaseOf(file) + file.len - file.seek <= s + w
    BY <1>2, <1>3, <1>4, <1>8, <1>11
  <2>5. BaseOf(file)' = BaseOf(file)
    BY <1>1 DEF BaseOf
  <2>6. /\ pc' = "general" /\ file' = file /\ pos' = pos
        /\ start' * SectorSize = s + w /\ Unsent' = u - w
    BY <1>1, <1>7, <1>10
  <2>7. /\ \A a \in DOMAIN disk' : a < (start * SectorSize)'
        /\ \A a \in (BaseOf(file)..(start * SectorSize - 1))' : a \in DOMAIN disk'
    <3>1. (start * SectorSize)' = s + w
      BY <2>6
    <3>2. (BaseOf(file)..(start * SectorSize - 1))' = BaseOf(file)..(s + w - 1)
      BY <1>3, <1>4, <2>5, <2>6, <3>1
    <3>3. \A a \in DOMAIN disk' : a < (start * SectorSize)'
      BY <2>1, <3>1
    <3>4. \A a \in (BaseOf(file)..(start * SectorSize - 1))' : a \in DOMAIN disk'
      BY <2>2, <3>2
    <3> QED
      BY <3>3, <3>4
  <2>8. pos' >= file'.len \/ Unsent' = 0
    BY <2>3, <2>6
  <2>9. pos' >= file'.len => (BaseOf(file) + file.len - file.seek <= start * SectorSize)'
    BY <2>4, <2>5, <2>6
  <2> QED
    BY <2>6, <2>7, <2>8, <2>9 DEF PlainFile
<1>14. Route'
  BY <1>1 DEF WInv, Route, SparsePcs
<1>15. AtChunk' /\ InSkip' /\ InRaw' /\ AtEnd' /\ Staged' /\ Behind' /\ DiskBefore'
  BY <1>1 DEF AtChunk, InSkip, InRaw, AtEnd, Staged, Behind, DiskBefore, SparsePcs
<1>16. SimlockFile' /\ SuccessComplete'
  BY <1>1 DEF SimlockFile, SuccessComplete
<1>17. Clean' /\ NoStray'
  <2>1. ZeroFrom(u)
    BY <1>1 DEF WInv, Clean, u
  <2>2. ZeroFrom(0)'
    BY <1>1, <1>2, <1>4, <1>8, <2>1, WipedZero DEF WInv
  <2>3. ptr' = 0
    BY <1>1 DEF WInv, Route
  <2> QED
    BY <1>1, <1>9, <2>2, <2>3 DEF Clean, NoStray, RightCells
<1>18. FlushedPrefix'
  <2>1. ~IsSparseImage(file)
    BY <1>1 DEF WInv, Route
  <2> QED
    BY <1>1, <2>1 DEF FlushedPrefix
<1> QED
  BY <1>9, <1>13, <1>14, <1>15, <1>16, <1>17, <1>18 DEF WInv

LEMMA GeneralDoneKeeps ==
  ASSUME AllWellFormed, WInv, IInv', GeneralDone
  PROVE  WInv'
<1>1. /\ pc = "general" /\ Readable = 0 /\ pc' = "ok"
      /\ UNCHANGED <<file, stale, pos, hdr, chunk, i, rawLeft, left, ptr, out, start,
                     sectors, bigchunk, disk>>
  BY DEF GeneralDone
<1>2. ~IsSparseImage(file) /\ ~file.simlock /\ ptr = 0
  BY <1>1 DEF WInv, Route
<1>3. /\ file.seek \in Nat /\ file.len \in Nat /\ pos \in Nat /\ file.len <= pos
      /\ start \in Nat /\ BaseOf(file) \in Nat /\ start * SectorSize \in Nat
  BY <1>1, ReadableFacts, NumberFacts, ShapeFacts, SectorNat, ProductNat
<1>4. SuccessComplete'
  <2> SUFFICES ASSUME NEW a \in Vouched(file) PROVE a \in DOMAIN disk
    BY <1>1 DEF SuccessComplete
  <2>1. ~(file.sparse /\ file.len < SparseHeaderLen)
    BY <1>2 DEF Vouched
  <2>2. a \in BaseOf(file)..(BaseOf(file) + file.len - file.seek - 1)
    BY <1>2, <2>1 DEF Vouched, Wanted
  <2>3. BaseOf(file) + file.len - file.seek <= start * SectorSize
    BY <1>1, <1>3, <2>1 DEF WInv, PlainFile
  <2> DEFINE s == start * SectorSize
  <2>4. s \in Nat /\ BaseOf(file) + file.len - file.seek <= s
    BY <1>3, <2>3
  <2>5. \A x \in BaseOf(file)..(s - 1) : x \in DOMAIN disk
    BY <1>1 DEF WInv, PlainFile
  <2> HIDE DEF s
  <2>6. a \in BaseOf(file)..(s - 1)
    BY <1>3, <2>2, <2>4
  <2> QED
    BY <2>5, <2>6
<1>5. Route'
  BY <1>1, <1>2, SectorNat DEF WInv, Route, SparsePcs, IInv, TypeOK
<1>6. AtChunk' /\ InSkip' /\ InRaw' /\ AtEnd' /\ Staged' /\ Behind' /\ DiskBefore'
  BY <1>1 DEF AtChunk, InSkip, InRaw, AtEnd, Staged, Behind, DiskBefore, SparsePcs
<1>7. PlainFile' /\ SimlockFile'
  BY <1>1 DEF PlainFile, SimlockFile
<1>8. Clean'
  BY <1>1 DEF WInv, Clean, ZeroFrom, Dying
<1>9. NoStray' /\ FlushedPrefix'
  BY <1>1, NoStrayKept, FlushedKept, NumberFacts
<1> QED
  BY <1>4, <1>5, <1>6, <1>7, <1>8, <1>9 DEF WInv
-------------------------------------------------------------------------------
(***************************************************************************)
(* Files that are sent with <simlock> commands: one read has it all.       *)
(***************************************************************************)
LEMMA SimlockFacts ==
  ASSUME AllWellFormed, WInv, file.simlock
  PROVE  /\ file \in Files /\ file.seek = 0 /\ file.len \in Nat /\ file.len <= BigSize
         /\ ~IsSparseImage(file) /\ BaseOf(file) \in Nat
         /\ \A a : a \in Wanted(file) =>
              a \in BaseOf(file)..(BaseOf(file) + file.len - 1)
         /\ Exposed(file) = BaseOf(file)..(BaseOf(file) + file.len - 1)
<1>1. file \in Files /\ file.seek = 0
  BY NumberFacts DEF AllWellFormed, WellFormed
<1>2. file.len \in Nat /\ file.len <= BigSize /\ BaseOf(file) \in Nat
  BY <1>1, ShapeFacts
<1>3. ~IsSparseImage(file)
  BY DEF IsSparseImage
<1>4. BaseOf(file) + file.len - file.seek - 1 = BaseOf(file) + file.len - 1
  BY <1>1, <1>2
<1> QED
  BY <1>1, <1>2, <1>3, <1>4 DEF Wanted, Exposed

LEMMA SimlockStored ==
  ASSUME AllWellFormed, WInv, pc = "simsend", NEW m \in 0..file.len,
         file' = file, disk' = Stored(file.base * SectorSize, m)
  PROVE  /\ Grown /\ RightCells'
         /\ DOMAIN disk' = BaseOf(file)..(BaseOf(file) + m - 1)
<1>1. file.simlock
  BY DEF WInv, Route
<1>2. /\ DOMAIN disk = {} /\ pos = file.len
      /\ \A k \in 0..(file.len - 1) : bigchunk[k] = file.cells[k]
  BY DEF WInv, SimlockFile
<1>3. m \in Nat /\ m <= file.len /\ file.len \in Nat /\ BaseOf(file) \in Nat
  BY <1>1, SimlockFacts
<1>4. disk' = Stored(BaseOf(file), m)
  BY DEF BaseOf
<1>5. /\ DOMAIN disk' = DOMAIN disk \cup BaseOf(file)..(BaseOf(file) + m - 1)
      /\ \A x \in BaseOf(file)..(BaseOf(file) + m - 1) : disk'[x] = bigchunk[x - BaseOf(file)]
  <2>1. BaseOf(file) \in Int
    BY <1>3
  <2> QED
    BY <1>3, <1>4, <2>1, StoredFacts
<1>6. DOMAIN disk' = BaseOf(file)..(BaseOf(file) + m - 1)
  BY <1>2, <1>5
<1>7. ASSUME NEW a \in BaseOf(file)..(BaseOf(file) + m - 1)
      PROVE  ImageHolds(file, a, disk'[a])
  <2> DEFINE o == a - BaseOf(file)
  <2>1. o \in 0..(file.len - 1) /\ file.seek + o = o /\ file.len - file.seek = file.len
    BY <1>1, <1>3, SimlockFacts
  <2>2. disk'[a] = file.cells[file.seek + o]
    BY <1>2, <1>5, <2>1
  <2> QED
    BY <1>1, <2>1, <2>2, SimlockFacts DEF ImageHolds, PlainHolds
<1>8. RightCells'
  BY <1>6, <1>7 DEF RightCells
<1>9. Grown
  BY <1>2 DEF Grown
<1> QED
  BY <1>6, <1>8, <1>9

LEMMA SimlockKeeps ==
  ASSUME AllWellFormed, WInv, IInv', SimlockRead \/ SimlockSend \/ SimlockDone
  PROVE  WInv' /\ Grown
<1>1. /\ pc \in {"simlock", "simsend"} /\ pc' \in {"simlock", "simsend", "ok"}
      /\ UNCHANGED <<file, hdr, chunk, i, rawLeft, left, ptr, out>>
  BY DEF SimlockRead, SimlockSend, SimlockDone
<1>2. file.simlock /\ ptr = 0
  BY <1>1 DEF WInv, Route
<1>3. /\ file.seek = 0 /\ file.len \in Nat /\ file.len <= BigSize
      /\ ~IsSparseImage(file) /\ BaseOf(file) \in Nat /\ pos \in Nat
      /\ \A a : a \in Wanted(file) => a \in BaseOf(file)..(BaseOf(file) + file.len - 1)
      /\ Exposed(file) = BaseOf(file)..(BaseOf(file) + file.len - 1)
  BY <1>2, SimlockFacts, NumberFacts
<1>4. Route'
  BY <1>1, <1>2, SectorNat DEF WInv, IInv, TypeOK, Route, SparsePcs
<1>5. AtChunk' /\ InSkip' /\ InRaw' /\ AtEnd' /\ Staged' /\ Behind' /\ DiskBefore' /\ PlainFile'
  BY <1>1 DEF AtChunk, InSkip, InRaw, AtEnd, Staged, Behind, DiskBefore, PlainFile, SparsePcs
<1>6. FlushedPrefix'
  BY <1>1, <1>3 DEF FlushedPrefix
<1>7. CASE SimlockRead
  <2>1. /\ pc = "simlock" /\ Readable > 0 /\ bigchunk' = Filled(0, Readable)
        /\ pos' = pos + Readable /\ pc' = "simsend" /\ UNCHANGED <<disk, stale>>
    BY <1>7 DEF SimlockRead
  <2>2. pos = 0 /\ DOMAIN disk = {}
    <3>1. ~(pos >= file.len)
      BY <1>3, <2>1, ReadableFacts
    <3> QED
      BY <2>1, <3>1 DEF WInv, SimlockFile
  <2>3. Readable = file.len
    BY <1>3, <2>1, <2>2, ReadableFacts
  <2>4. \A k \in Buffer : bigchunk'[k] = IF k < file.len THEN file.cells[k] ELSE bigchunk[k]
    <3> SUFFICES ASSUME NEW k \in Buffer
                 PROVE  bigchunk'[k] = IF k < file.len THEN file.cells[k] ELSE bigchunk[k]
      OBVIOUS
    <3>1. (k \in 0..(0 + file.len - 1) <=> k < file.len) /\ pos + k - 0 = k
      BY <1>3, <2>2, SectorNat DEF Buffer
    <3> QED
      BY <2>1, <2>3, <3>1 DEF Filled
  <2>5. SimlockFile'
    <3>1. \A k \in 0..(file.len - 1) : k \in Buffer /\ k < file.len
      BY <1>3, SectorNat DEF Buffer
    <3>2. pos' = file.len
      BY <1>3, <2>1, <2>2, <2>3
    <3> QED
      BY <1>1, <2>1, <2>2, <2>4, <3>1, <3>2 DEF SimlockFile
  <2>6. Clean'
    <3> SUFFICES ASSUME NEW k \in Buffer, k >= file.len, k >= stale
                 PROVE  bigchunk'[k] = Zero
      BY <1>1, <2>1 DEF Clean, ZeroFrom
    <3>1. ~(k < file.len) /\ k >= 0
      BY <1>3, SectorNat DEF Buffer
    <3>2. bigchunk[k] = Zero
      BY <1>2, <2>1, <3>1 DEF WInv, Clean, ZeroFrom, Dying
    <3> QED
      BY <2>4, <3>1, <3>2
  <2>7. SuccessComplete' /\ Grown
    BY <2>1 DEF SuccessComplete, Grown
  <2>8. NoStray'
    BY <1>1, <2>1, NoStrayKept
  <2> QED
    BY <1>4, <1>5, <1>6, <2>5, <2>6, <2>7, <2>8 DEF WInv
<1>8. CASE SimlockSend
  <2>1. /\ pc = "simsend" /\ disk' = Stored(file.base * SectorSize, file.len)
        /\ Wiped(file.len) /\ pc' = "simlock" /\ UNCHANGED pos
    BY <1>8 DEF SimlockSend
  <2>2. file.len \in 0..file.len
    BY <1>3
  <2>3. /\ Grown /\ RightCells'
        /\ DOMAIN disk' = BaseOf(file)..(BaseOf(file) + file.len - 1)
    BY <1>1, <2>1, <2>2, SimlockStored
  <2>4. pos = file.len
    BY <2>1 DEF WInv, SimlockFile
  <2>5. SimlockFile'
    <3>1. pos' >= file'.len
      BY <1>1, <1>3, <2>1, <2>4
    <3>2. Wanted(file) \subseteq DOMAIN disk'
      BY <1>3, <2>3
    <3>3. DOMAIN disk' \subseteq Exposed(file)
      BY <1>3, <2>3
    <3> QED
      BY <1>1, <2>1, <3>1, <3>2, <3>3 DEF SimlockFile
  <2>6. Clean' /\ NoStray'
    <3>1. ZeroFrom(file.len)
      BY <2>1 DEF WInv, Clean
    <3>2. ZeroFrom(0)'
      BY <1>3, <2>1, <3>1, WipedZero DEF WInv
    <3> QED
      BY <1>1, <1>2, <2>1, <2>3, <3>2 DEF Clean, NoStray, RightCells
  <2>7. SuccessComplete'
    BY <2>1 DEF SuccessComplete
  <2> QED
    BY <1>4, <1>5, <1>6, <2>3, <2>5, <2>6, <2>7 DEF WInv
<1>9. CASE SimlockDone
  <2>1. /\ pc = "simlock" /\ Readable = 0 /\ pc' = "ok" /\ UNCHANGED <<disk, bigchunk, stale, pos>>
    BY <1>9 DEF SimlockDone
  <2>2. file.len <= pos
    BY <2>1, ReadableFacts
  <2>3. SuccessComplete'
    <3> SUFFICES ASSUME NEW a \in Vouched(file) PROVE a \in DOMAIN disk
      BY <1>1, <2>1 DEF SuccessComplete
    <3>1. a \in Wanted(file)
      BY <1>2, <1>3 DEF Vouched
    <3>2. CASE pos = 0
      BY <1>3, <2>2, <3>1, <3>2
    <3>3. CASE pos # 0
      BY <2>1, <3>1, <3>3 DEF WInv, SimlockFile
    <3> QED
      BY <3>2, <3>3
  <2>4. SimlockFile'
    BY <2>1 DEF SimlockFile
  <2>5. Clean'
    BY <1>1, <2>1 DEF WInv, Clean, ZeroFrom, Dying
  <2>6. NoStray' /\ Grown
    BY <1>1, <2>1, NoStrayKept DEF Grown
  <2> QED
    BY <1>4, <1>5, <1>6, <2>3, <2>4, <2>5, <2>6 DEF WInv
<1> QED
  BY <1>7, <1>8, <1>9
-------------------------------------------------------------------------------
\* Whatever fails, what was stored before that is right; only SendUnread may
\* spoil it.
LEMMA FailStores ==
  ASSUME AllWellFormed, WInv, TransmitFails \/ SimlockFails
  PROVE  RightCells' /\ Grown
<1>1. CASE TransmitFails /\ pc = "send"
  <2>1. PICK n \in 0..Pending :
          disk' = Stored(PendingStart * SectorSize, n * SectorSize)
    BY <1>1 DEF TransmitFails
  <2>2. Pending = sectors /\ PendingStart = start /\ file' = file
    BY <1>1 DEF Pending, PendingStart, TransmitFails
  <2>3. n \in 0..sectors /\ disk' = Stored(start * SectorSize, n * SectorSize)
    BY <2>1, <2>2
  <2> QED
    BY <1>1, <2>2, <2>3, PieceStored
<1>2. CASE TransmitFails /\ pc # "send"
  <2>1. PICK n \in 0..Pending :
          disk' = Stored(PendingStart * SectorSize, n * SectorSize)
    BY <1>2 DEF TransmitFails
  <2>2. (pc = "full" \/ (pc = "skip" /\ left < BigSize)) /\ file' = file
    BY <1>2 DEF TransmitFails
  <2> QED
    BY <2>1, <2>2, StagedStored
<1>3. CASE SimlockFails
  <2>1. PICK n \in 0..file.len : disk' = Stored(file.base * SectorSize, n)
    BY <1>3 DEF SimlockFails
  <2>2. pc = "simsend" /\ file' = file
    BY <1>3 DEF SimlockFails
  <2> QED
    BY <2>1, <2>2, SimlockStored
<1> QED
  BY <1>1, <1>2, <1>3

LEMMA UnreadStores ==
  ASSUME AllWellFormed, WInv, SendUnread
  PROVE  DOMAIN disk \subseteq DOMAIN disk' /\ DOMAIN disk' \subseteq Exposed(file)
<1>1. file.simlock /\ DOMAIN disk \subseteq Exposed(file)
  BY DEF SendUnread, WInv, Route, SimlockFile
<1>2. PICK n \in 0..file.len : disk' = Stored(BaseOf(file), n)
  BY DEF SendUnread, BaseOf
<1>3. /\ file.len \in Nat /\ BaseOf(file) \in Nat
      /\ Exposed(file) = BaseOf(file)..(BaseOf(file) + file.len - 1)
  BY <1>1, SimlockFacts
<1>4. BaseOf(file) \in Int /\ n \in Nat
  BY <1>3
<1>5. DOMAIN disk' = DOMAIN disk \cup BaseOf(file)..(BaseOf(file) + n - 1)
  BY <1>2, <1>4, StoredFacts
<1> QED
  BY <1>1, <1>3, <1>5

LEMMA FailKeeps ==
  ASSUME AllWellFormed, WInv, IInv', Fails
  PROVE  WInv' /\ (pc' # "lost" => Grown)
<1>1. pc' \in Dying /\ UNCHANGED <<file, chunk, ptr, out>>
  BY DEF Fails, TransmitFails, SimlockFails, ReadFails, ReadTakenForLength, SendNone,
         SendUnread, Dying
<1>2. chunk'.tag = "chunk" => chunk'.total_sz >= ChunkHeaderLen
  BY <1>1 DEF WInv, Route
<1>3. CASE TransmitFails \/ SimlockFails
  <2>1. pc' = "fatal"
    BY <1>3 DEF TransmitFails, SimlockFails
  <2>2. NoStray' /\ Grown
    BY <1>3, <2>1, FailStores DEF NoStray, RightCells
  <2> QED
    BY <1>1, <1>2, <2>1, <2>2, FatalKeeps DEF Grown
<1>4. CASE ReadFails \/ ReadTakenForLength \/ SendNone
  <2>1. /\ UNCHANGED disk /\ pc # "lost" /\ pc' \notin {"send", "lost"}
        /\ pc' = "sendunread" => pc = "simlock"
    BY <1>4 DEF ReadFails, ReadTakenForLength, SendNone
  <2>2. NoStray' /\ Grown
    BY <1>1, <2>1, NoStrayKept DEF Grown
  <2>3. pc' = "sendunread" => file.simlock /\ DOMAIN disk' \subseteq Exposed(file)
    BY <2>1 DEF WInv, Route, SimlockFile
  <2> QED
    BY <1>1, <1>2, <2>2, <2>3, FatalKeeps DEF Grown
<1>5. CASE SendUnread
  <2>1. pc' = "lost"
    BY <1>5 DEF SendUnread
  <2>2. NoStray' /\ DOMAIN disk \subseteq DOMAIN disk'
    BY <1>1, <1>5, <2>1, UnreadStores DEF NoStray, Exposed, BaseOf
  <2> QED
    BY <1>1, <1>2, <2>1, <2>2, FatalKeeps
<1> QED
  BY <1>3, <1>4, <1>5 DEF Fails

LEMMA OpenKeeps ==
  ASSUME AllWellFormed, WInv, IInv', OpenFile
  PROVE  WInv'
<1>1. /\ pc \in {"idle", "ok"}
      /\ hdr' = NoCell /\ chunk' \in {NoCell, chunk}
      /\ i' = 0 /\ rawLeft' = 0 /\ left' = BigSize /\ ptr' = 0 /\ out' = 0
      /\ disk' = [a \in {} |-> Zero] /\ UNCHANGED <<bigchunk, stale>>
      /\ file' \in Files /\ pos' = file'.seek /\ start' = file'.base
      /\ pc' = IF file'.simlock THEN "simlock"
               ELSE IF file'.sparse THEN "header" ELSE "general"
  BY DEF OpenFile
<1> DEFINE f == file'
<1>2. /\ f.sparse \in BOOLEAN /\ f.simlock \in BOOLEAN
      /\ f.seek \in Nat /\ f.len \in Nat /\ f.base \in Nat /\ WellFormed(f)
  BY <1>1, ShapeFacts DEF AllWellFormed
<1>3. DOMAIN disk' = {}
  BY <1>1
<1>4. pc' \in {"simlock", "header", "general"}
  BY <1>1
<1>5. chunk'.tag = "chunk" => chunk'.total_sz >= ChunkHeaderLen
  <2>1. NoCell.tag # "chunk"
    BY DEF NoCell
  <2> QED
    BY <1>1, <2>1 DEF WInv, Route
<1>6. /\ pc' = "simlock" => f.simlock
      /\ pc' = "header" => f.sparse /\ ~f.simlock
      /\ pc' = "general" => ~f.sparse /\ ~f.simlock
  BY <1>1, <1>2
<1>7. Route'
  <2>1. ~f.sparse => ~IsSparseImage(f)
    BY DEF IsSparseImage
  <2> QED
    BY <1>1, <1>3, <1>4, <1>5, <1>6, <2>1 DEF Route, SparsePcs
<1>8. AtChunk' /\ InSkip' /\ InRaw' /\ AtEnd' /\ Staged' /\ Behind' /\ DiskBefore'
  BY <1>4 DEF AtChunk, InSkip, InRaw, AtEnd, Staged, Behind, DiskBefore, SparsePcs
<1>9. PlainFile'
  <2> SUFFICES ASSUME pc' = "general" PROVE PlainFile'
    BY <1>4 DEF PlainFile
  <2>1. start' * SectorSize = f.base * SectorSize /\ BaseOf(file)' = f.base * SectorSize
    BY <1>1 DEF BaseOf
  <2>2. f.base * SectorSize \in Nat
    BY <1>2, SectorNat, ProductNat
  <2>3. Unsent' = 0
    <3>1. (start' - f.base) * SectorSize = 0
      BY <1>1, <1>2, SectorNat
    <3>2. Unsent' = pos' - f.seek - (start' - f.base) * SectorSize
      BY DEF Unsent
    <3> QED
      BY <1>1, <1>2, <3>1, <3>2
  <2> DEFINE b == f.base * SectorSize
  <2>4. b..(b - 1) = {}
    BY <2>2
  <2>5. pos' >= f.len => b + f.len - f.seek <= b
    <3>1. b \in Nat /\ f.len \in Nat /\ f.seek \in Nat /\ pos' = f.seek
      BY <1>1, <1>2, <2>2
    <3> HIDE DEF b, f
    <3> QED
      BY <3>1
  <2>6. (start * SectorSize)' = b /\ BaseOf(file)' = b
    BY <2>1
  <2> HIDE DEF b
  <2>7. (BaseOf(file)..(start * SectorSize - 1))' = {}
    BY <2>4, <2>6
  <2>8. (BaseOf(file) + file.len - file.seek <= start * SectorSize)' <=> b + f.len - f.seek <= b
    BY <2>6
  <2> QED
    BY <1>3, <2>3, <2>5, <2>7, <2>8 DEF PlainFile
<1>10. SimlockFile'
  <2>1. pc' = "simlock" => pos' = 0
    BY <1>1, <1>2, <1>6 DEF WellFormed
  <2> QED
    BY <1>3, <1>4, <2>1 DEF SimlockFile
<1>11. Clean'
  <2> SUFFICES ASSUME NEW k \in Buffer, k >= stale PROVE bigchunk[k] = Zero
    BY <1>1, <1>4 DEF Clean, ZeroFrom
  <2>1. ptr <= stale /\ ptr \in Nat /\ stale \in Nat /\ k \in Nat
    BY <1>1, SectorNat DEF WInv, Route, Buffer, IInv, TypeOK
  <2>2. k >= ptr
    BY <2>1
  <2> QED
    BY <1>1, <2>2 DEF WInv, Clean, ZeroFrom, Dying
<1>12. NoStray' /\ SuccessComplete'
  BY <1>3, <1>4 DEF NoStray, SuccessComplete
<1>13. FlushedPrefix'
  <2> SUFFICES ASSUME IsSparseImage(f), NEW a \in Wanted(f)
               PROVE  ~(a < BaseOf(f) + 0 - 0)
    BY <1>1 DEF FlushedPrefix
  <2>1. PICK j \in RawChunks(f) : a \in RawRange(f, j)
    BY DEF Wanted
  <2>2. f.chunks[j].out \in Nat /\ BaseOf(f) \in Nat /\ f.chunks[j].blocks * f.blk \in Nat
    BY <1>1, <2>1, ShapeFacts DEF RawChunks
  <2> HIDE DEF f
  <2> QED
    BY <2>1, <2>2 DEF RawRange
<1> QED
  BY <1>7, <1>8, <1>9, <1>10, <1>11, <1>12, <1>13 DEF WInv

LEMMA StutterKeeps ==
  ASSUME WInv, IInv', UNCHANGED vars
  PROVE  WInv'
<1>1. UNCHANGED <<pc, file, pos, hdr, chunk, i, rawLeft, left, ptr, out, start,
                  sectors, bigchunk, stale, disk>>
  BY DEF vars
<1>2. Route' /\ AtChunk' /\ InSkip'
  BY <1>1 DEF WInv, Route, AtChunk, InSkip, Cur
<1>3. InRaw' /\ AtEnd'
  BY <1>1 DEF WInv, InRaw, AtEnd, Cur
<1>4. Staged' /\ Behind' /\ DiskBefore'
  BY <1>1 DEF WInv, Staged, Behind, DiskBefore, StagedFrom
<1>5. PlainFile' /\ SimlockFile'
  BY <1>1 DEF WInv, PlainFile, SimlockFile, Unsent
<1>6. Clean' /\ NoStray'
  BY <1>1 DEF WInv, Clean, ZeroFrom, Unsent, NoStray
<1>7. FlushedPrefix' /\ SuccessComplete'
  BY <1>1, FlushedKept, NumberFacts DEF WInv, SuccessComplete
<1> QED
  BY <1>2, <1>3, <1>4, <1>5, <1>6, <1>7 DEF WInv
-------------------------------------------------------------------------------
LEMMA InitIntact == Init => WInv
<1> SUFFICES ASSUME Init PROVE WInv
  OBVIOUS
<1>1. /\ pc = "idle" /\ file \in Files /\ chunk = NoCell /\ ptr = 0 /\ out = 0
      /\ bigchunk = [k \in Buffer |-> Zero] /\ DOMAIN disk = {}
  BY DEF Init
<1>2. Route
  <2>1. NoCell.tag # "chunk"
    BY DEF NoCell
  <2> QED
    BY <1>1, <2>1 DEF Route, SparsePcs
<1>3. AtChunk /\ InSkip /\ InRaw /\ AtEnd /\ Staged /\ Behind /\ DiskBefore
  BY <1>1 DEF AtChunk, InSkip, InRaw, AtEnd, Staged, Behind, DiskBefore, SparsePcs
<1>4. PlainFile /\ SimlockFile /\ SuccessComplete
  BY <1>1 DEF PlainFile, SimlockFile, SuccessComplete
<1>5. Clean
  BY <1>1 DEF Clean, ZeroFrom
<1>6. NoStray
  BY <1>1 DEF NoStray
<1>7. FlushedPrefix
  <2> SUFFICES ASSUME IsSparseImage(file), NEW a \in Wanted(file)
               PROVE  ~(a < BaseOf(file) + 0 - 0)
    BY <1>1 DEF FlushedPrefix
  <2>1. PICK j \in RawChunks(file) : a \in RawRange(file, j)
    BY DEF Wanted
  <2>2. /\ file.chunks[j].out \in Nat /\ BaseOf(file) \in Nat
        /\ file.chunks[j].blocks * file.blk \in Nat
    BY <1>1, <2>1, ShapeFacts DEF RawChunks
  <2> QED
    BY <2>1, <2>2 DEF RawRange
<1> QED
  BY <1>2, <1>3, <1>4, <1>5, <1>6, <1>7, InitInv DEF WInv

\* A step while a file is written keeps what is stored, but for SendUnread.
LEMMA HostKeeps ==
  ASSUME AllWellFormed, WInv, IInv', HostStep
  PROVE  WInv' /\ (pc' # "lost" => Grown)
<1>1. CASE NotSparse
  BY <1>1, NotSparseKeeps DEF NotSparse, Grown
<1>2. CASE SparseHeader
  BY <1>2, SparseHeaderKeeps DEF SparseHeader, Grown
<1>3. CASE ReadChunkHeader
  BY <1>3, ReadChunkHeaderKeeps DEF ReadChunkHeader, Grown
<1>4. CASE RawPiece
  BY <1>4, RawPieceKeeps DEF RawPiece, Grown
<1>5. CASE RawDone
  BY <1>5, RawDoneKeeps DEF RawDone, Grown
<1>6. CASE TransmitFull \/ FlushStaged
  BY <1>6, FlushKeeps
<1>7. CASE SkipChunk
  BY <1>7, SkipChunkKeeps DEF SkipChunk, Grown
<1>8. CASE ChunksDone
  BY <1>8, ChunksDoneKeeps DEF ChunksDone, Grown
<1>9. CASE GeneralRead
  BY <1>9, GeneralReadKeeps DEF GeneralRead, Grown
<1>10. CASE GeneralSend
  BY <1>10, GeneralSendKeeps
<1>11. CASE GeneralDone
  BY <1>11, GeneralDoneKeeps DEF GeneralDone, Grown
<1>12. CASE SimlockRead \/ SimlockSend \/ SimlockDone
  BY <1>12, SimlockKeeps
<1>13. CASE Fails
  BY <1>13, FailKeeps
<1> QED
  BY <1>1, <1>2, <1>3, <1>4, <1>5, <1>6, <1>7, <1>8, <1>9, <1>10, <1>11, <1>12, <1>13
     DEF HostStep, Fails

LEMMA NextIntact == AllWellFormed /\ WInv /\ [Next]_vars => WInv'
<1> SUFFICES ASSUME AllWellFormed, WInv, [Next]_vars PROVE WInv'
  OBVIOUS
<1>1. IInv'
  BY NextInv DEF WInv
<1>2. CASE OpenFile
  BY <1>1, <1>2, OpenKeeps
<1>3. CASE HostStep
  BY <1>1, <1>3, HostKeeps
<1>4. CASE UNCHANGED vars
  BY <1>1, <1>4, StutterKeeps
<1> QED
  BY <1>2, <1>3, <1>4 DEF Next, Exited

LEMMA Intact ==
  ASSUME AllWellFormed
  PROVE  Spec => []WInv
<1>1. Init => WInv
  BY InitIntact
<1>2. WInv /\ [Next]_vars => WInv'
  BY NextIntact
<1> QED
  BY <1>1, <1>2, PTL DEF Spec

(***************************************************************************)
(* For well-formed files of any length: every cell the device stored is    *)
(* the one the image has at that address, and the padding of a last sector *)
(* is zero but for the cells that a sparse image left unsent in bigchunk.  *)
(* After a failed read() of a simlock file whatever is stored lies in the  *)
(* place of that file.                                                     *)
(***************************************************************************)
THEOREM NothingStray ==
  ASSUME AllWellFormed
  PROVE  Spec => []NoStray
<1>1. WInv => NoStray
  BY DEF WInv
<1> QED
  BY <1>1, Intact, PTL

(***************************************************************************)
(* In a sparse image everything that is before the staged data is on the   *)
(* device.                                                                 *)
(***************************************************************************)
THEOREM PrefixFlushed ==
  ASSUME AllWellFormed
  PROVE  Spec => []FlushedPrefix
<1>1. WInv => FlushedPrefix
  BY DEF WInv
<1> QED
  BY <1>1, Intact, PTL

(***************************************************************************)
(* On ACK, the data of the file is on the device, but for the RAW chunks   *)
(* at the very end of a sparse image.                                      *)
(***************************************************************************)
THEOREM SuccessIsComplete ==
  ASSUME AllWellFormed
  PROVE  Spec => []SuccessComplete
<1>1. WInv => SuccessComplete
  BY DEF WInv
<1> QED
  BY <1>1, Intact, PTL

(***************************************************************************)
(* At the head of the for loop of process_sparse_chunks the file offset    *)
(* and out_offset are where the format puts the next chunk.                *)
(***************************************************************************)
THEOREM CursorAtChunk ==
  ASSUME AllWellFormed
  PROVE  Spec => []ChunkCursor
<1>1. WInv => ChunkCursor
  BY DEF WInv, AtChunk, ChunkCursor, Cur
<1> QED
  BY <1>1, Intact, PTL
-------------------------------------------------------------------------------
(***************************************************************************)
(* The refinement of ImageWrite: opening a file begins, what reaches the   *)
(* end of a routine succeeds, every other step stores something or nothing.*)
(***************************************************************************)
Result == IF pc \in {"idle", "ok", "fatal", "lost"} THEN pc ELSE "busy"

\* The steps that end a routine, and those that do not.
LEMMA HostControl ==
  ASSUME WInv, WInv', HostStep
  PROVE  /\ Result = "busy" /\ file' = file
         /\ \/ pc' = "ok" /\ disk' = disk
            \/ pc' = "lost" /\ SendUnread
            \/ Result' \in {"busy", "fatal"} /\ pc' # "lost"
<1> USE DEF Result
<1>1. CASE ChunksDone \/ GeneralDone \/ SimlockDone
  BY <1>1 DEF ChunksDone, GeneralDone, SimlockDone
<1>2. CASE NotSparse \/ SparseHeader \/ ReadChunkHeader \/ RawPiece \/ RawDone
  BY <1>2 DEF NotSparse, SparseHeader, ReadChunkHeader, RawPiece, RawDone
<1>3. CASE TransmitFull \/ FlushStaged \/ SkipChunk
  BY <1>3 DEF TransmitFull, FlushStaged, SkipChunk
<1>4. CASE GeneralRead \/ GeneralSend \/ SimlockRead \/ SimlockSend
  BY <1>4 DEF GeneralRead, GeneralSend, SimlockRead, SimlockSend
<1>5. CASE Fails
  BY <1>5 DEF Fails, TransmitFails, SimlockFails, ReadFails, ReadTakenForLength,
              SendNone, SendUnread
<1> QED
  BY <1>1, <1>2, <1>3, <1>4, <1>5 DEF HostStep, Fails

LEMMA AbstractInit == Init => Abstract!Init
BY DEF Init, Abstract!Init

LEMMA AbstractStep ==
  ASSUME AllWellFormed, WInv, WInv', [Next]_vars
  PROVE  [Abstract!Next]_(Abstract!vars)
<1>1. CASE UNCHANGED vars
  BY <1>1 DEF vars, Abstract!vars
<1>2. CASE OpenFile
  <2>1. Result \in {"idle", "ok"} /\ Result' = "busy"
    BY <1>2 DEF OpenFile, Result
  <2>2. file' \in Files /\ DOMAIN disk' = {}
    BY <1>2 DEF OpenFile
  <2>3. Abstract!Begin
    BY <2>1, <2>2 DEF Abstract!Begin, Result
  <2> QED
    BY <2>3 DEF Abstract!Next
<1>3. CASE HostStep
  <2>1. /\ Result = "busy" /\ file' = file
        /\ \/ pc' = "ok" /\ disk' = disk
           \/ pc' = "lost" /\ SendUnread
           \/ Result' \in {"busy", "fatal"} /\ pc' # "lost"
    BY <1>3, HostControl
  <2>2. pc' # "lost" => Grown
    BY <1>3, HostKeeps DEF WInv
  <2>3. CASE pc' = "ok" /\ disk' = disk
    <3>1. Vouched(file) \subseteq DOMAIN disk
      BY <2>1, <2>3 DEF WInv, SuccessComplete
    <3>2. Abstract!Complete(file, disk)
      BY <3>1 DEF Abstract!Complete
    <3>3. Abstract!Succeed
      BY <2>1, <2>3, <3>2 DEF Abstract!Succeed, Result
    <3> QED
      BY <3>3 DEF Abstract!Next
  <2>4. CASE Result' \in {"busy", "fatal"} /\ pc' # "lost"
    <3>1. \A a \in DOMAIN disk' : ImageHolds(file, a, disk'[a])
      BY <2>1, <2>4 DEF WInv, NoStray
    <3>2. Abstract!Right(file, disk')
      BY <3>1 DEF Abstract!Right
    <3>3. Abstract!Kept(disk, disk')
      BY <2>2, <2>4 DEF Grown, Abstract!Kept
    <3>4. Abstract!Store
      BY <2>1, <2>4, <3>2, <3>3 DEF Abstract!Store, Result
    <3> QED
      BY <3>4 DEF Abstract!Next
  <2>5. CASE pc' = "lost" /\ SendUnread
    <3>1. /\ DOMAIN disk' \subseteq DOMAIN disk \cup Exposed(file)
          /\ DOMAIN disk \subseteq Exposed(file)
      BY <2>5, UnreadStores
    <3>2. \A a \in DOMAIN disk \ Exposed(file) : a \in DOMAIN disk' /\ disk'[a] = disk[a]
      BY <3>1
    <3>3. Abstract!Spoil
      BY <2>1, <2>5, <3>1, <3>2 DEF Abstract!Spoil, Result
    <3> QED
      BY <3>3 DEF Abstract!Next
  <2> QED
    BY <2>1, <2>3, <2>4, <2>5
<1> QED
  BY <1>1, <1>2, <1>3 DEF Next, Exited

(***************************************************************************)
(* For well-formed files of any length: the routines implement ImageWrite. *)
(* The storage only ever receives cells the file has there, nothing stored *)
(* is changed while the file is written, and success has the file stored;  *)
(* a failed read() of a simlock file may spoil what is in its place, and   *)
(* then the program is gone.                                               *)
(***************************************************************************)
THEOREM Refinement ==
  ASSUME AllWellFormed
  PROVE  Spec => ImplementsImageWrite
<1>1. Init => Abstract!Init
  BY AbstractInit
<1>2. WInv /\ WInv' /\ [Next]_vars => [Abstract!Next]_(Abstract!vars)
  BY AbstractStep
<1> QED
  BY <1>1, <1>2, Intact, PTL DEF Spec, ImplementsImageWrite, Abstract!Spec
===============================================================================

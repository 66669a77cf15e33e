------------------------------ MODULE FlashImage ------------------------------
(***************************************************************************)
(* Writing image files to the storage of the phone: process_sparse_file,   *)
(* process_sprase_header, process_sparse_chunks, process_general_file and  *)
(* process_simlock_file of firehose_flash_image.c, one of them called per  *)
(* <program> line by main.                                                 *)
(*                                                                         *)
(* A file is a sequence of cells.  A cell is the unit the code counts in:  *)
(* a data cell stands for a fixed number of bytes, the sparse header       *)
(* takes SparseHeaderLen cells, a chunk header takes ChunkHeaderLen = 1.   *)
(* bigchunk, the one staging buffer of the program, is a global: what one  *)
(* file leaves in it is there when the next file is read.                  *)
(***************************************************************************)
EXTENDS Integers

CONSTANTS
  Files,            \* the image files that main can be asked to write
  SectorSize,       \* program.sector_size, in cells
  BigSize,          \* sizeof(bigchunk), in cells
  SparseHeaderLen,  \* SPARSE_HEADER_LEN, in cells
  WordSize          \* 2^32: the product of two u32 wraps here

ChunkHeaderLen == 1
Zero == [tag |-> "zero"]
NoCell == [tag |-> "none"]
ChunkTypes == {"RAW", "FILL", "CRC32", "DONT_CARE"}

\* What the bytes of a cell are when a header is read from it.
CellShape(c) ==
  /\ c.tag = "sparse" =>
       /\ c.major_version \in Nat /\ c.file_hdr_sz \in Nat /\ c.chunk_hdr_sz \in Nat
       /\ c.blk_sz \in Nat /\ c.total_chunks \in Nat
  /\ c.tag = "chunk" =>
       c.type \in ChunkTypes /\ c.chunk_sz \in Nat /\ c.total_sz \in Nat

(***************************************************************************)
(* f.cells are the cells of the file, numbered from 0.  For a file in the  *)
(* sparse format, f.chunks[i] says what sparse_format.h says of chunk i:   *)
(* its type, its length in blocks, and in and out, the places where the    *)
(* chunk starts in the file and in the expanded image, which the format    *)
(* defines by the total_sz and chunk_sz of the chunks before it.           *)
(***************************************************************************)
FileShape(f) ==
  /\ f.sparse \in BOOLEAN            \* the sparse attribute of the <program> line
  /\ f.simlock \in BOOLEAN           \* it is sent with <simlock> commands
  /\ f.base \in Nat                  \* its start_sector
  /\ f.seek \in Nat                  \* file_sector_offset * sector_size
  /\ f.len \in Nat
  /\ DOMAIN f.cells = 0..(f.len - 1)
  /\ \A p \in 0..(f.len - 1) : CellShape(f.cells[p])
  /\ f.blk \in Nat /\ f.chs \in Nat /\ f.n \in Nat
  /\ DOMAIN f.chunks = 1..f.n
  /\ \A i \in 1..f.n : /\ f.chunks[i].type \in ChunkTypes
                       /\ f.chunks[i].blocks \in Nat
                       /\ f.chunks[i].in \in Nat
                       /\ f.chunks[i].out \in Nat
  /\ f.sparse => f.seek < f.len
  \* transmit_chunk_simlock reads past bigchunk for a longer file.
  /\ f.simlock => f.len <= BigSize

ASSUME ConstantsAssumption ==
  /\ SectorSize \in Nat \ {0}
  /\ BigSize \in Nat \ {0}
  /\ BigSize % SectorSize = 0
  /\ SparseHeaderLen \in Nat \ {0}
  /\ WordSize \in Nat \ {0}

ASSUME FilesAssumption == \A f \in Files : FileShape(f)

VARIABLES
  pc,        \* where the control is
  file,      \* the file being written
  pos,       \* the file offset of fd
  hdr,       \* sparse_header
  chunk,     \* chunk_header
  i,         \* chunks already processed
  rawLeft,   \* raw_chunk_data_size
  left,      \* bigchunk_left
  ptr,       \* bigchunk_ptr - bigchunk
  out,       \* out_offset
  start,     \* program.start_sector
  sectors,   \* program.sector_numbers
  bigchunk,  \* the staging buffer
  stale,     \* cells at its start that sparse images left unsent and nothing
             \* cleared since, for NoStray
  disk       \* what the device stored for this file, by cell address

vars == <<pc, file, pos, hdr, chunk, i, rawLeft, left, ptr, out, start,
          sectors, bigchunk, stale, disk>>

Buffer == 0..(BigSize - 1)
-------------------------------------------------------------------------------
MinOf(a, b) == IF a < b THEN a ELSE b

\* lseek(fd, d, SEEK_CUR): an offset below zero is refused, nothing moves.
SeekBy(p, d) == IF p + d >= 0 THEN p + d ELSE p

\* u32 * u32
Bytes(c) == (c.chunk_sz * hdr.blk_sz) % WordSize

\* read(fd, bigchunk + at, n)
Filled(at, n) ==
  [k \in Buffer |-> IF k \in at..(at + n - 1)
                    THEN file.cells[pos + k - at] ELSE bigchunk[k]]

\* Mutant of Cleared: the memset is forgotten.
NotCleared(n) == bigchunk

\* memset(chunk, 0, n)
Cleared(n) == [k \in Buffer |-> IF k < n THEN Zero ELSE bigchunk[k]]

\* The memset behind a transfer of n cells.
Wiped(n) ==
  /\ bigchunk' = Cleared(n)
  /\ stale' = IF n >= stale THEN 0 ELSE stale

\* The device stores n cells of bigchunk from cell address a on.
Stored(a, n) ==
  [x \in DOMAIN disk \cup a..(a + n - 1) |->
     IF x \in a..(a + n - 1) THEN bigchunk[x - a] ELSE disk[x]]

RoundUp(n) == (n + SectorSize - 1) \div SectorSize

FileSectors == ptr \div SectorSize

\* Mutant of FlushStart: the sectors being flushed are not subtracted.
FlushStartLate(n) == file.base + (out \div SectorSize)

\* program.start_sector of a flush of the sparse staging buffer
FlushStart(n) == file.base + (out \div SectorSize) - n
-------------------------------------------------------------------------------
Init ==
  /\ pc = "idle"
  /\ file \in Files
  /\ pos = 0
  /\ hdr = NoCell /\ chunk = NoCell
  /\ i = 0 /\ rawLeft = 0 /\ left = BigSize /\ ptr = 0 /\ out = 0
  /\ start = 0 /\ sectors = 0
  /\ bigchunk = [k \in Buffer |-> Zero]
  /\ stale = 0
  /\ disk = [a \in {} |-> Zero]

(***************************************************************************)
(* The next <program> line whose file could be opened: lseek to            *)
(* file_sector_offset and choose the routine: by the label and --simlock,  *)
(* then by the sparse attribute.                                           *)
(* chunk_header is not initialized: its place on the stack holds what the  *)
(* file before left there, or anything that is no chunk header.            *)
(***************************************************************************)
OpenFile ==
  /\ pc \in {"idle", "ok"}
  /\ \E f \in Files :
       /\ file' = f
       /\ pos' = f.seek
       /\ start' = f.base
       /\ pc' = IF f.simlock THEN "simlock"
                ELSE IF f.sparse THEN "header" ELSE "general"
  /\ hdr' = NoCell
  /\ chunk' \in {NoCell, chunk}
  /\ i' = 0 /\ rawLeft' = 0 /\ left' = BigSize /\ ptr' = 0 /\ out' = 0
  /\ sectors' = 0
  /\ disk' = [a \in {} |-> Zero]
  /\ UNCHANGED <<bigchunk, stale>>

(***************************************************************************)
(* process_sprase_header.  read() takes what the file has, up to           *)
(* SPARSE_HEADER_LEN; without the magic the offset goes back by the whole  *)
(* header length and the file is written as a general file.                *)
(***************************************************************************)
HeaderIsSparse == file.cells[pos].tag = "sparse"

AfterHeaderRead == MinOf(pos + SparseHeaderLen, file.len)

NotSparse ==
  /\ pc = "header"
  /\ ~HeaderIsSparse
  /\ pos' = SeekBy(AfterHeaderRead, -SparseHeaderLen)
  /\ pc' = "general"
  /\ UNCHANGED <<file, stale, hdr, chunk, i, rawLeft, left, ptr, out, start,
                 sectors, bigchunk, disk>>

HeaderRefused(h) ==
  \/ h.major_version # 1
  \/ h.file_hdr_sz < SparseHeaderLen
  \/ h.chunk_hdr_sz < ChunkHeaderLen

SparseHeader ==
  /\ pc = "header"
  /\ HeaderIsSparse
  /\ LET h == file.cells[pos] IN
       IF HeaderRefused(h)
       THEN /\ pc' = "fatal"
            /\ UNCHANGED <<hdr, pos>>
       ELSE /\ pc' = "chunk"
            /\ hdr' = h
            /\ pos' = SeekBy(AfterHeaderRead, h.file_hdr_sz - SparseHeaderLen)
  /\ UNCHANGED <<file, stale, chunk, i, rawLeft, left, ptr, out, start, sectors,
                 bigchunk, disk>>
-------------------------------------------------------------------------------
(***************************************************************************)
(* One turn of the for loop of process_sparse_chunks: read a chunk header  *)
(* (at the end of the file read() returns 0 and the previous header is     *)
(* still in the structure), skip the rest of the header, and switch on the *)
(* type.                                                                   *)
(***************************************************************************)
ReadChunkHeader ==
  /\ pc = "chunk"
  /\ i < hdr.total_chunks
  /\ LET c == IF pos < file.len THEN file.cells[pos] ELSE chunk
         p == MinOf(pos + ChunkHeaderLen, file.len)
     IN /\ chunk' = c
        /\ pos' = SeekBy(p, hdr.chunk_hdr_sz - ChunkHeaderLen)
        /\ IF c.tag # "chunk"                     \* unknown chunk type
           THEN pc' = "fatal" /\ UNCHANGED rawLeft
           ELSE IF c.type = "RAW"
           THEN rawLeft' = Bytes(c) /\ pc' = "raw"
           ELSE pc' = "skip" /\ UNCHANGED rawLeft
  /\ UNCHANGED <<file, stale, hdr, i, left, ptr, out, start, sectors, bigchunk,
                 disk>>

\* One turn of the while loop of a RAW chunk, up to transmit_chunk.
RawPiece ==
  /\ pc = "raw"
  /\ rawLeft > 0
  /\ LET want == MinOf(rawLeft, left)
         r == IF pos < file.len THEN MinOf(want, file.len - pos) ELSE 0
     IN IF r # want
        THEN /\ pc' = "fatal"
             /\ UNCHANGED <<pos, left, ptr, rawLeft, out, bigchunk>>
        ELSE /\ bigchunk' = Filled(ptr, r)
             /\ pos' = pos + r
             /\ left' = left - r
             /\ ptr' = ptr + r
             /\ rawLeft' = rawLeft - r
             /\ out' = out + r
             /\ pc' = IF left = r THEN "full" ELSE "raw"
  /\ UNCHANGED <<file, stale, hdr, chunk, i, start, sectors, disk>>

RawDone ==
  /\ pc = "raw"
  /\ rawLeft = 0
  /\ i' = i + 1
  /\ pc' = "chunk"
  /\ UNCHANGED <<file, stale, pos, hdr, chunk, rawLeft, left, ptr, out, start,
                 sectors, bigchunk, disk>>

\* transmit_chunk(bigchunk, program) answered ACK, of n sectors at sector s.
Transmitted(s, n) ==
  /\ start' = s /\ sectors' = n
  /\ disk' = Stored(s * SectorSize, n * SectorSize)
  /\ Wiped(n * SectorSize)

\* Mutants of TransmitFull: a cursor is not reset.
TransmitFullKeepsPtr ==
  /\ pc = "full"
  /\ Transmitted(FlushStart(BigSize \div SectorSize), BigSize \div SectorSize)
  /\ left' = BigSize
  /\ pc' = "raw"
  /\ UNCHANGED <<file, pos, hdr, chunk, i, rawLeft, ptr, out>>

TransmitFullKeepsLeft ==
  /\ pc = "full"
  /\ Transmitted(FlushStart(BigSize \div SectorSize), BigSize \div SectorSize)
  /\ ptr' = 0
  /\ pc' = "raw"
  /\ UNCHANGED <<file, pos, hdr, chunk, i, rawLeft, left, out>>

\* bigchunk_left reached 0 in a RAW chunk.
TransmitFull ==
  /\ pc = "full"
  /\ Transmitted(FlushStart(BigSize \div SectorSize), BigSize \div SectorSize)
  /\ left' = BigSize /\ ptr' = 0
  /\ pc' = "raw"
  /\ UNCHANGED <<file, pos, hdr, chunk, i, rawLeft, out>>

\* Mutant of FlushStaged: bigchunk_ptr is not reset.
FlushStagedKeepsPtr ==
  /\ pc = "skip"
  /\ left < BigSize
  /\ Transmitted(FlushStart(FileSectors), FileSectors)
  /\ left' = BigSize
  /\ UNCHANGED <<pc, file, pos, hdr, chunk, i, rawLeft, ptr, out>>

\* A chunk that is not RAW flushes what is staged before it is skipped.
FlushStaged ==
  /\ pc = "skip"
  /\ left < BigSize
  /\ Transmitted(FlushStart(FileSectors), FileSectors)
  /\ left' = BigSize /\ ptr' = 0
  /\ UNCHANGED <<pc, file, pos, hdr, chunk, i, rawLeft, out>>

\* Mutant of SkipChunk: the staged data is not flushed first.
SkipChunkUnflushed ==
  /\ pc = "skip"
  /\ pos' = SeekBy(pos, chunk.total_sz - ChunkHeaderLen)
  /\ out' = IF chunk.type = "CRC32" THEN out ELSE out + Bytes(chunk)
  /\ i' = i + 1
  /\ pc' = "chunk"
  /\ UNCHANGED <<file, stale, hdr, chunk, rawLeft, left, ptr, start, sectors,
                 bigchunk, disk>>

\* Mutant of SkipChunk: total_sz is taken for the length of the payload.
SkipChunkTotal ==
  /\ pc = "skip"
  /\ left = BigSize
  /\ pos' = SeekBy(pos, chunk.total_sz)
  /\ out' = IF chunk.type = "CRC32" THEN out ELSE out + Bytes(chunk)
  /\ i' = i + 1
  /\ pc' = "chunk"
  /\ UNCHANGED <<file, stale, hdr, chunk, rawLeft, left, ptr, start, sectors,
                 bigchunk, disk>>

SkipChunk ==
  /\ pc = "skip"
  /\ left = BigSize
  /\ pos' = SeekBy(pos, chunk.total_sz - ChunkHeaderLen)
  /\ out' = IF chunk.type = "CRC32" THEN out ELSE out + Bytes(chunk)
  /\ i' = i + 1
  /\ pc' = "chunk"
  /\ UNCHANGED <<file, stale, hdr, chunk, rawLeft, left, ptr, start, sectors,
                 bigchunk, disk>>

\* The loop is over: ACK, whatever is still staged.
ChunksDone ==
  /\ pc = "chunk"
  /\ i = hdr.total_chunks
  /\ pc' = "ok"
  /\ stale' = IF ptr > stale THEN ptr ELSE stale
  /\ UNCHANGED <<file, pos, hdr, chunk, i, rawLeft, left, ptr, out, start,
                 sectors, bigchunk, disk>>
-------------------------------------------------------------------------------
(***************************************************************************)
(* process_general_file: bigchunk is filled, sent in whole sectors and     *)
(* cleared until the end of the file.                                      *)
(***************************************************************************)
Readable == IF pos < file.len THEN MinOf(BigSize, file.len - pos) ELSE 0

GeneralRead ==
  /\ pc = "general"
  /\ Readable > 0
  /\ bigchunk' = Filled(0, Readable)
  /\ pos' = pos + Readable
  /\ sectors' = RoundUp(Readable)
  /\ pc' = "send"
  /\ UNCHANGED <<file, stale, hdr, chunk, i, rawLeft, left, ptr, out, start, disk>>

GeneralSend ==
  /\ pc = "send"
  /\ disk' = Stored(start * SectorSize, sectors * SectorSize)
  /\ Wiped(sectors * SectorSize)
  /\ start' = start + sectors
  /\ pc' = "general"
  /\ UNCHANGED <<file, pos, hdr, chunk, i, rawLeft, left, ptr, out, sectors>>

\* Mutant of GeneralDone: a last piece shorter than bigchunk is not sent.
GeneralDoneEarly ==
  /\ pc = "general"
  /\ Readable < BigSize
  /\ pc' = "ok"
  /\ UNCHANGED <<file, stale, pos, hdr, chunk, i, rawLeft, left, ptr, out, start,
                 sectors, bigchunk, disk>>

GeneralDone ==
  /\ pc = "general"
  /\ Readable = 0
  /\ pc' = "ok"
  /\ UNCHANGED <<file, stale, pos, hdr, chunk, i, rawLeft, left, ptr, out, start,
                 sectors, bigchunk, disk>>
-------------------------------------------------------------------------------
(***************************************************************************)
(* process_simlock_file: the same loop, but transmit_chunk_simlock sends   *)
(* as much as the whole file is long, to the start sector of the line: the *)
(* command was put together once, before the loop.                         *)
(***************************************************************************)
SimlockRead ==
  /\ pc = "simlock"
  /\ Readable > 0
  /\ bigchunk' = Filled(0, Readable)
  /\ pos' = pos + Readable
  /\ sectors' = RoundUp(Readable)
  /\ pc' = "simsend"
  /\ UNCHANGED <<file, stale, hdr, chunk, i, rawLeft, left, ptr, out, start, disk>>

SimlockSend ==
  /\ pc = "simsend"
  /\ disk' = Stored(file.base * SectorSize, file.len)
  /\ Wiped(file.len)
  /\ start' = start + sectors
  /\ pc' = "simlock"
  /\ UNCHANGED <<file, pos, hdr, chunk, i, rawLeft, left, ptr, out, sectors>>

SimlockDone ==
  /\ pc = "simlock"
  /\ Readable = 0
  /\ pc' = "ok"
  /\ UNCHANGED <<file, stale, pos, hdr, chunk, i, rawLeft, left, ptr, out, start,
                 sectors, bigchunk, disk>>
-------------------------------------------------------------------------------
(***************************************************************************)
(* transmit_chunk ends in xerror (the program command is refused or not    *)
(* answered, a bulk write fails) or returns anything but ACK, on which     *)
(* every caller exits.  The device has stored some prefix of the sectors.  *)
(***************************************************************************)
Pending ==
  IF pc = "send" THEN sectors
  ELSE IF pc = "full" THEN BigSize \div SectorSize ELSE FileSectors

PendingStart == IF pc = "send" THEN start ELSE FlushStart(Pending)

TransmitFails ==
  /\ \/ pc \in {"full", "send"}
     \/ pc = "skip" /\ left < BigSize
  /\ \E n \in 0..Pending :
       disk' = Stored(PendingStart * SectorSize, n * SectorSize)
  /\ pc' = "fatal"
  /\ UNCHANGED <<file, stale, pos, hdr, chunk, i, rawLeft, left, ptr, out, start,
                 sectors, bigchunk>>

\* The same of transmit_chunk_simlock, which does not count in sectors.
SimlockFails ==
  /\ pc = "simsend"
  /\ \E n \in 0..file.len : disk' = Stored(file.base * SectorSize, n)
  /\ pc' = "fatal"
  /\ UNCHANGED <<file, stale, pos, hdr, chunk, i, rawLeft, left, ptr, out, start,
                 sectors, bigchunk>>

\* read() returns -1: the sparse routines exit.
ReadFails ==
  /\ pc \in {"header", "chunk", "raw"}
  /\ pc' = "fatal"
  /\ UNCHANGED <<file, stale, pos, hdr, chunk, i, rawLeft, left, ptr, out, start,
                 sectors, bigchunk, disk>>

(***************************************************************************)
(* The two other routines keep the -1 in a size_t: it passes their test    *)
(* for > 0, and the sectors computed from it wrap to 0.                    *)
(***************************************************************************)
ReadTakenForLength ==
  /\ pc \in {"general", "simlock"}
  /\ sectors' = 0
  /\ pc' = IF pc = "general" THEN "sendnone" ELSE "sendunread"
  /\ UNCHANGED <<file, stale, pos, hdr, chunk, i, rawLeft, left, ptr, out, start,
                 bigchunk, disk>>

\* A program command for no sectors; then xerror, or the memset of SIZE_MAX
\* bytes that kills the process.
SendNone ==
  /\ pc = "sendnone"
  /\ pc' = "fatal"
  /\ UNCHANGED <<file, stale, pos, hdr, chunk, i, rawLeft, left, ptr, out, start,
                 sectors, bigchunk, disk>>

\* transmit_chunk_simlock does not count in sectors: of bigchunk, into which
\* nothing was read, it sends as much as the file is long, or fails before;
\* the process ends in the same ways.
SendUnread ==
  /\ pc = "sendunread"
  /\ \E n \in 0..file.len : disk' = Stored(file.base * SectorSize, n)
  /\ pc' = "lost"
  /\ UNCHANGED <<file, stale, pos, hdr, chunk, i, rawLeft, left, ptr, out, start,
                 sectors, bigchunk>>

\* The process is gone.
Exited == pc \in {"fatal", "lost"} /\ UNCHANGED vars

HostStep ==
  \/ NotSparse \/ SparseHeader
  \/ ReadChunkHeader \/ RawPiece \/ RawDone \/ TransmitFull
  \/ FlushStaged \/ SkipChunk \/ ChunksDone
  \/ GeneralRead \/ GeneralSend \/ GeneralDone
  \/ SimlockRead \/ SimlockSend \/ SimlockDone
  \/ TransmitFails \/ SimlockFails \/ ReadFails
  \/ ReadTakenForLength \/ SendNone \/ SendUnread

Next == OpenFile \/ HostStep \/ Exited

Spec == Init /\ [][Next]_vars

\* One thread, every USB call has a timeout: a file begun is worked on.
FairSpec == Spec /\ WF_vars(HostStep)
-------------------------------------------------------------------------------
(***************************************************************************)
(* What the file says the storage should hold, by cell address.            *)
(***************************************************************************)
IsSparseImage(f) == f.sparse /\ ~f.simlock /\ f.cells[f.seek].tag = "sparse"

BaseOf(f) == f.base * SectorSize

RawChunks(f) == {j \in 1..f.n : f.chunks[j].type = "RAW"}

\* The addresses of chunk j of f.
RawRange(f, j) ==
  LET first == BaseOf(f) + f.chunks[j].out
  IN first..(first + f.chunks[j].blocks * f.blk - 1)

\* Cell v belongs at address a.
SparseHolds(f, a, v) ==
  \E j \in RawChunks(f) :
     LET p == f.chunks[j].in + f.chs + (a - BaseOf(f) - f.chunks[j].out)
     IN a \in RawRange(f, j) /\ p < f.len /\ v = f.cells[p]

PlainHolds(f, a, v) ==
  LET o == a - BaseOf(f)
      n == f.len - f.seek
  IN \/ o \in 0..(n - 1) /\ v = f.cells[f.seek + o]
     \/ o \in n..(RoundUp(n) * SectorSize - 1)

\* The rest of the last sector of a file that is written as it is.
Padding(f) ==
  LET n == f.len - f.seek
  IN IF IsSparseImage(f) THEN {}
     ELSE (BaseOf(f) + n)..(BaseOf(f) + RoundUp(n) * SectorSize - 1)

ImageHolds(f, a, v) ==
  IF IsSparseImage(f) THEN SparseHolds(f, a, v) ELSE PlainHolds(f, a, v)

(***************************************************************************)
(* The files that main can be expected to write right.  A sparse image is  *)
(* laid out as sparse_format.h says, in blocks of whole sectors, its chunk *)
(* headers have the length that process_sparse_chunks assumes, and the     *)
(* length of a chunk fits in 32 bits; the file may be cut off, have a      *)
(* header refused, a chunk of an unknown type, or fewer chunks than        *)
(* total_chunks says.                                                      *)
(***************************************************************************)
HeaderOf(f, j) == f.cells[f.chunks[j].in]

SizeOf(f, j) ==
  IF f.chunks[j].type = "CRC32" THEN 0 ELSE f.chunks[j].blocks * f.blk

EndOf(f, j) == f.chunks[j].out + SizeOf(f, j)

\* The header of chunk j is where the format puts it and says what it is.
ChunkInPlace(f, j) ==
  LET c == f.chunks[j]
      h == HeaderOf(f, j)
  IN /\ c.in < f.len
     /\ c.blocks * f.blk < WordSize
     /\ j = 1 => c.in = f.seek + f.cells[f.seek].file_hdr_sz /\ c.out = 0
     /\ j < f.n => f.chunks[j + 1].out = EndOf(f, j)
     /\ h.tag = "chunk" =>
          /\ h.type = c.type /\ h.chunk_sz = c.blocks
          /\ h.total_sz >= ChunkHeaderLen
          /\ c.type = "RAW" => h.total_sz = ChunkHeaderLen + c.blocks * f.blk
          /\ IF j < f.n THEN f.chunks[j + 1].in = c.in + h.total_sz
                        ELSE f.len <= c.in + h.total_sz

SparseInPlace(f) ==
  LET h == f.cells[f.seek]
  IN \/ HeaderRefused(h)
     \/ /\ h.chunk_hdr_sz = ChunkHeaderLen /\ f.chs = ChunkHeaderLen
        /\ h.blk_sz = f.blk /\ f.blk % SectorSize = 0
        /\ f.n <= h.total_chunks
        /\ f.n = 0 => f.len <= f.seek + h.file_hdr_sz
        /\ \A j \in 1..f.n : ChunkInPlace(f, j)

WellFormed(f) ==
  /\ f.simlock => f.seek = 0
  /\ IF IsSparseImage(f) THEN SparseInPlace(f)
     ELSE f.sparse /\ ~f.simlock =>
            f.seek + SparseHeaderLen <= f.len \/ f.len < SparseHeaderLen

\* The addresses the file has data for.
Wanted(f) ==
  IF IsSparseImage(f) THEN UNION {RawRange(f, j) : j \in RawChunks(f)}
                      ELSE BaseOf(f)..(BaseOf(f) + f.len - f.seek - 1)

\* The addresses where a read() that fails lets the code store what the file
\* does not have.
Exposed(f) == IF f.simlock THEN BaseOf(f)..(BaseOf(f) + f.len - 1) ELSE {}

\* Those of the wanted addresses that the code can vouch for.  A RAW chunk is sure to be sent
\* when a chunk of another type follows it; a plain file is marked sparse at
\* its peril when it is shorter than a sparse header.
Vouched(f) ==
  IF IsSparseImage(f)
  THEN UNION {RawRange(f, j) : j \in {k \in RawChunks(f) :
                 \E m \in (k + 1)..f.n : f.chunks[m].type # "RAW"}}
  ELSE IF f.sparse /\ ~f.simlock /\ f.len < SparseHeaderLen THEN {}
  ELSE Wanted(f)
-------------------------------------------------------------------------------
(***************************************************************************)
(* Every variable has its type.                                            *)
(***************************************************************************)
TypeOK ==
  /\ pc \in {"idle", "header", "chunk", "raw", "full", "skip", "general",
             "send", "sendnone", "simlock", "simsend", "sendunread",
             "ok", "fatal", "lost"}
  /\ file \in Files
  /\ pos \in Nat /\ i \in Nat /\ rawLeft \in Nat /\ out \in Nat
  /\ left \in 0..BigSize /\ ptr \in 0..BigSize
  /\ start \in Nat /\ sectors \in Nat
  /\ DOMAIN bigchunk = Buffer
  /\ stale \in 0..BigSize
  /\ DOMAIN disk \subseteq Nat

(***************************************************************************)
(* What transmit_chunk is asked to send lies inside bigchunk, and the      *)
(* start sector computed backwards from out_offset is not before the start *)
(* sector of the <program> line: process_sparse_chunks subtracts unsigned  *)
(* numbers, and a buffer whose cursors were not reset would send past its  *)
(* end.                                                                    *)
(***************************************************************************)
TransmitInRange ==
  pc \in {"full", "skip", "send"} =>
    /\ Pending * SectorSize <= BigSize
    /\ PendingStart >= file.base

(***************************************************************************)
(* Every cell the device stored is the one the image has at that address:  *)
(* process_sparse_chunks works the start sector out from what it has       *)
(* already consumed, process_general_file advances it chunk by chunk.      *)
(* What it sends behind the end of a file is zero, although bigchunk is    *)
(* reused, but for the cells that a sparse image left unsent in it.  Only  *)
(* after a read() of a simlock file failed is anything else stored, and    *)
(* that nowhere but in the place of the file.                              *)
(***************************************************************************)
NoStray ==
  /\ pc # "lost" => \A a \in DOMAIN disk : ImageHolds(file, a, disk[a])
  /\ pc = "lost" => DOMAIN disk \subseteq Exposed(file)
  /\ pc = "send" =>
       \A k \in Buffer :
         start * SectorSize + k \in Padding(file) /\ k >= stale => bigchunk[k] = Zero

(***************************************************************************)
(* In a sparse image everything before the staged data is on the device:   *)
(* whatever process_sparse_chunks can lose is what it still holds.         *)
(***************************************************************************)
FlushedPrefix ==
  IsSparseImage(file) =>
    \A a \in Wanted(file) : a < BaseOf(file) + out - ptr => a \in DOMAIN disk

(***************************************************************************)
(* When one of the routines returns ACK, on which main goes on to the next *)
(* line, the data of the file is on the device: all of it, but for the RAW *)
(* chunks at the very end of a sparse image (see Vouched).                 *)
(***************************************************************************)
SuccessComplete ==
  pc = "ok" => Vouched(file) \subseteq DOMAIN disk

(***************************************************************************)
(* What the ACK of process_sparse_file is taken for, main prints "succeed" *)
(* on it: all data of the file is on the device.                           *)
(***************************************************************************)
SuccessMeansWritten ==
  pc = "ok" => Wanted(file) \subseteq DOMAIN disk

(***************************************************************************)
(* At the head of the for loop the file offset is where the format puts    *)
(* the next chunk header and out_offset where it puts the chunk's data.    *)
(***************************************************************************)
ChunkCursor ==
  pc = "chunk" /\ i < file.n =>
    pos = file.chunks[i + 1].in /\ out = file.chunks[i + 1].out

(***************************************************************************)
(* A file that was begun is finished, with ACK or with an exit: no turn of *)
(* the three loops leaves its loop condition as it was.                    *)
(***************************************************************************)
FileCompletes ==
  pc \notin {"idle", "ok", "fatal", "lost"} ~> pc \in {"ok", "fatal", "lost"}

(***************************************************************************)
(* The routines implement ImageWrite, with Vouched for what a success      *)
(* promises.                                                               *)
(***************************************************************************)
Abstract ==
  INSTANCE ImageWrite WITH
    Holds <- ImageHolds,
    Wanted <- Vouched,
    result <- IF pc \in {"idle", "ok", "fatal", "lost"} THEN pc ELSE "busy"

ImplementsImageWrite == Abstract!Spec
===============================================================================

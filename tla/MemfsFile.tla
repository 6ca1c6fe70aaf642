------------------------------- MODULE MemfsFile -------------------------------
(***************************************************************************)
(* The contents of one file (memfs_file_io.cpp): a list of chunks, each    *)
(* twice the size of the one before up to a limit, and the file's size.    *)
(* The calls on a file are one at a time here: xWrite and xTruncate are    *)
(* made by the holder of the EXCLUSIVE lock (what the lock itself is worth *)
(* is the subject of MemfsLock).                                           *)
(*                                                                         *)
(* iDeleted is left out: no code stores 1 to it, so the branches it guards *)
(* are never taken.                                                        *)
(***************************************************************************)
EXTENDS Integers, SequencesExt

CONSTANTS
  CHUNK_BASE,   \* size of the first chunk
  MAX_SHIFT,    \* doublings of CHUNK_BASE up to the largest chunk
  SMALL_SIZE,   \* xTruncate grows to this size or less by a write at 0
  LLONG_MAX,    \* largest value of sqlite3_int64
  MaxChunks,    \* bound: malloc has no memory for more chunks of the file
  Zero,         \* the byte 0
  Uninit,       \* a byte malloc returned and nobody stored to
  NULL,         \* the absent buffer
  Payloads,     \* the buffers xWrite is called with: sequences of bytes
  Offsets,      \* the values of iOfst
  Amounts,      \* the values of xRead's iAmt
  Sizes         \* the values of xTruncate's size

ASSUME FileAssumption ==
  /\ CHUNK_BASE \in Nat \ {0}
  /\ MAX_SHIFT \in Nat
  /\ SMALL_SIZE \in 0 .. CHUNK_BASE - 1     \* 10 and 8192 in the code
  /\ MaxChunks \in Nat \ {0}
  /\ LLONG_MAX \in Nat
  /\ Offsets \subseteq Int /\ Amounts \subseteq Int /\ Sizes \subseteq Int
  /\ NULL \notin Payloads /\ \A b \in Payloads : b \in Seq(Range(b))

Cell == {Zero, Uninit} \cup UNION {Range(b) : b \in Payloads}

VARIABLES
  chunks,   \* pChunks: the buffers of the list, in order
  nSize,    \* pData->nSize
  ret       \* the last call: arguments, result code, and the caller's buffer

vars == <<chunks, nSize, ret>>

Codes == {"OK", "IOERR", "SHORT_READ", "NOMEM"}

Called(op, ofst, amt, buf, code) ==
  ret' = [op |-> op, ofst |-> ofst, amt |-> amt, buf |-> buf, code |-> code]

Init ==
  /\ chunks = << [i \in 1 .. CHUNK_BASE |-> Uninit] >>
  /\ nSize  = 0
  /\ ret    = [op |-> "none", ofst |-> 0, amt |-> 0, buf |-> <<>>, code |-> "OK"]
-------------------------------------------------------------------------------
(* The list of chunks                                                      *)

Capacity(cs) == Len(FlattenSeq(cs))

(* The offset in the file of the first byte of chunk k.                    *)
Start(cs, k) == Capacity(SubSeq(cs, 1, k - 1))

(* CHUNK_BASE << n                                                         *)
Shifted[n \in Nat] == IF n = 0 THEN CHUNK_BASE ELSE 2 * Shifted[n - 1]

ChunkSizeUnclamped(k) == Shifted[k - 1]          \* mutant: MAX_SHIFT ignored

ChunkSize(k) == Shifted[IF k - 1 < MAX_SHIFT THEN k - 1 ELSE MAX_SHIFT]

(* The list with chunks appended up to n; each new one is filled with      *)
(* `fill': zeros when there is no buffer, what malloc returned otherwise.  *)
Grown(n, fill) ==
  [k \in 1 .. n |-> IF k <= Len(chunks) THEN chunks[k]
                    ELSE [i \in 1 .. ChunkSize(k) |-> fill]]

(* mutant: every chunk is filled from the start of the caller's buffer     *)
StoredFromStart(cs, buf, ofst) ==
  [k \in DOMAIN cs |->
    [i \in DOMAIN cs[k] |->
      LET p     == Start(cs, k) + i - 1
          first == IF ofst < Start(cs, k) THEN Start(cs, k) ELSE ofst
      IN IF p \in ofst .. ofst + Len(buf) - 1 THEN buf[p - first + 1]
                                              ELSE cs[k][i]]]

(* The bytes of buf stored at ofst, over as many chunks as there are.      *)
Stored(cs, buf, ofst) ==
  [k \in DOMAIN cs |->
    [i \in DOMAIN cs[k] |->
      LET p == Start(cs, k) + i - 1
      IN IF p \in ofst .. ofst + Len(buf) - 1 THEN buf[p - ofst + 1]
                                              ELSE cs[k][i]]]

(* With no buffer, memset(ptr->pBuffer, 0, nTarget) on every chunk the     *)
(* range touches: nTarget is the number of bytes from the range's first to *)
(* the end of the chunk, but they are counted from the chunk's beginning.  *)
Zeroed(cs, amt, ofst) ==
  [k \in DOMAIN cs |->
    LET start   == Start(cs, k)
        touched == start < ofst + amt /\ ofst < start + Len(cs[k])
        nTarget == Len(cs[k]) - (IF ofst < start THEN 0 ELSE ofst - start)
    IN [i \in DOMAIN cs[k] |->
          IF touched /\ i <= nTarget THEN Zero ELSE cs[k][i]]]
-------------------------------------------------------------------------------
(* memfs_io_Write.  op, buf and the arguments recorded are those of the    *)
(* call the caller made, xWrite or xTruncate.                              *)

WriteRefused(op, arg, amt, buf, ofst) ==
  /\ ofst < 0 \/ (amt > 0 /\ ofst > LLONG_MAX - amt)
  /\ Called(op, arg, amt, buf, "IOERR")
  /\ UNCHANGED <<chunks, nSize>>

WriteNothing(op, arg, amt, buf, ofst) ==
  /\ ofst >= 0 /\ amt <= 0
  /\ Called(op, arg, amt, buf, "OK")
  /\ UNCHANGED <<chunks, nSize>>

(* The loop appends chunks until the range fits; it may be left with any   *)
(* smaller number n of them when malloc fails.                             *)
ReachAndStore(n, amt, buf, ofst) ==
  LET fill == IF buf = NULL THEN Zero ELSE Uninit
      cs   == Grown(n, fill)
  IN /\ n > Len(chunks) => Capacity(Grown(n - 1, fill)) < ofst + amt
     /\ chunks' = IF buf = NULL THEN Zeroed(cs, amt, ofst) ELSE Stored(cs, buf, ofst)

Legal(amt, ofst) == ofst >= 0 /\ amt > 0 /\ ofst <= LLONG_MAX - amt

WriteDone(op, arg, amt, buf, ofst) ==
  /\ Legal(amt, ofst)
  /\ \E n \in Len(chunks) .. MaxChunks :
       ReachAndStore(n, amt, buf, ofst)
  /\ Capacity(chunks') >= ofst + amt
  /\ nSize' = IF nSize < ofst + amt THEN ofst + amt ELSE nSize
  /\ Called(op, arg, amt, buf, "OK")

(* mutant: the size is raised before the memory is there                   *)
WriteNoMemSizeFirst(op, arg, amt, buf, ofst) ==
  /\ Legal(amt, ofst)
  /\ \E n \in Len(chunks) .. MaxChunks :
       ReachAndStore(n, amt, buf, ofst)
  /\ Capacity(chunks') < ofst + amt
  /\ nSize' = IF nSize < ofst + amt THEN ofst + amt ELSE nSize
  /\ Called(op, arg, amt, buf, "NOMEM")

WriteNoMem(op, arg, amt, buf, ofst) ==
  /\ Legal(amt, ofst)
  /\ \E n \in Len(chunks) .. MaxChunks :
       ReachAndStore(n, amt, buf, ofst)
  /\ Capacity(chunks') < ofst + amt
  /\ UNCHANGED nSize
  /\ Called(op, arg, amt, buf, "NOMEM")

DoWrite(op, arg, amt, buf, ofst) ==
  \/ WriteRefused(op, arg, amt, buf, ofst)
  \/ WriteNothing(op, arg, amt, buf, ofst)
  \/ WriteDone(op, arg, amt, buf, ofst)
  \/ WriteNoMem(op, arg, amt, buf, ofst)

Write(buf, ofst) == DoWrite("Write", ofst, Len(buf), buf, ofst)
-------------------------------------------------------------------------------
(* memfs_io_Read                                                           *)

ReadRefused(amt, ofst) ==
  /\ ofst < 0
  /\ Called("Read", ofst, amt, <<>>, "IOERR")
  /\ UNCHANGED <<chunks, nSize>>

ReadNothing(amt, ofst) ==
  /\ ofst >= 0 /\ amt <= 0
  /\ Called("Read", ofst, amt, <<>>, "OK")
  /\ UNCHANGED <<chunks, nSize>>

Zeros(n) == [i \in 1 .. n |-> Zero]

ReadPastEnd(amt, ofst) ==
  /\ ofst >= 0 /\ amt > 0
  /\ nSize - ofst <= 0
  /\ Called("Read", ofst, amt, Zeros(amt), "SHORT_READ")
  /\ UNCHANGED <<chunks, nSize>>

(* The walk copies what the chunks hold, the file's end notwithstanding,   *)
(* and only runs short at the end of the last chunk.                       *)
ReadChunks(amt, ofst) ==
  LET bytes == FlattenSeq(chunks)
      end   == IF ofst + amt <= Len(bytes) THEN ofst + amt ELSE Len(bytes)
      done  == SubSeq(bytes, ofst + 1, end)
  IN /\ ofst >= 0 /\ amt > 0
     /\ nSize - ofst > 0
     /\ Called("Read", ofst, amt, done \o Zeros(amt - Len(done)),
               IF Len(done) = amt THEN "OK" ELSE "SHORT_READ")
     /\ UNCHANGED <<chunks, nSize>>

Read(amt, ofst) ==
  \/ ReadRefused(amt, ofst)
  \/ ReadNothing(amt, ofst)
  \/ ReadPastEnd(amt, ofst)
  \/ ReadChunks(amt, ofst)
-------------------------------------------------------------------------------
(* memfs_io_Resize (xTruncate) and memfs_io_FileSize                       *)

ResizeShrink(size) ==
  /\ nSize >= size
  /\ nSize' = size
  /\ Called("Truncate", size, 0, <<>>, "OK")
  /\ UNCHANGED chunks

ResizeGrowTooFar(size) ==      \* mutant: the last byte is written at size
  /\ nSize < size
  /\ IF size > SMALL_SIZE THEN DoWrite("Truncate", size, 1, NULL, size)
                          ELSE DoWrite("Truncate", size, size, NULL, 0)

ResizeGrow(size) ==
  /\ nSize < size
  /\ IF size > SMALL_SIZE THEN DoWrite("Truncate", size, 1, NULL, size - 1)
                          ELSE DoWrite("Truncate", size, size, NULL, 0)

FileSize ==
  /\ Called("FileSize", 0, nSize, <<>>, "OK")
  /\ UNCHANGED <<chunks, nSize>>
-------------------------------------------------------------------------------
PagerNext ==                   \* SQLite's pager truncates a file to shrink it
  \/ \E ofst \in Offsets : \/ \E buf \in Payloads : Write(buf, ofst)
                           \/ \E amt \in Amounts  : Read(amt, ofst)
  \/ \E size \in Sizes : size >= 0 /\ ResizeShrink(size)
  \/ FileSize

Next ==                        \* MemfsStream::SetLength takes any size
  \/ \E ofst \in Offsets : \/ \E buf \in Payloads : Write(buf, ofst)
                           \/ \E amt \in Amounts  : Read(amt, ofst)
  \/ \E size \in Sizes : ResizeShrink(size) \/ ResizeGrow(size)
  \/ FileSize

PagerSpec == Init /\ [][PagerNext]_vars
Spec      == Init /\ [][Next]_vars
-------------------------------------------------------------------------------
(* Every variable keeps its type, and the list its shape: each chunk is    *)
(* twice the one before, or as large as a chunk may be (the sizes of       *)
(* memfs_io_Write's new chunks).                                           *)
LargestChunk == Shifted[MAX_SHIFT]

TypeOK ==
  /\ chunks \in Seq(Seq(Cell))
  /\ Len(chunks) \in 1 .. MaxChunks
  /\ Len(chunks[1]) = CHUNK_BASE
  /\ \A k \in 1 .. Len(chunks) - 1 :
       \/ Len(chunks[k + 1]) = 2 * Len(chunks[k])
       \/ Len(chunks[k]) = LargestChunk /\ Len(chunks[k + 1]) = LargestChunk
  /\ \A k \in DOMAIN chunks : Len(chunks[k]) <= LargestChunk
  /\ nSize \in Int
  /\ nSize <= LLONG_MAX
  /\ ret.code \in Codes

(* Every byte below the file's size is in a chunk, whatever sequence of    *)
(* writes, failed allocations, truncations and growths led here: xRead of  *)
(* a range within the file never comes back short.                         *)
Covered == nSize <= Capacity(chunks)

(* A resize that returns SQLITE_OK leaves the size it was asked for, and   *)
(* one that fails leaves the size it found (memfs_io_Resize, by way of the *)
(* write of one byte or of `size' bytes).  A file that a negative size was *)
(* given to is the exception: growing it to 0 is a write of no bytes.      *)
ResizeExact ==
  [][ret'.op = "Truncate" =>
       /\ ret'.code = "OK" /\ nSize >= 0 => nSize' = ret'.ofst
       /\ ret'.code # "OK" => nSize' = nSize]_vars

(* Driven as SQLite's pager drives it, the list of chunks is a file: the   *)
(* bytes below nSize are the contents ByteFile speaks of.                  *)
Byte(p) == LET bytes == FlattenSeq(chunks)
           IN IF p \in DOMAIN bytes THEN bytes[p] ELSE Uninit

File     == INSTANCE ByteFile WITH contents <- [p \in 1 .. nSize |-> Byte(p)]
FileSpec == File!Spec

(* sqlite3.h:726: "If xRead() returns SQLITE_IOERR_SHORT_READ it must also *)
(* fill in the unread portions of the buffer with zeros."                  *)
ShortReadZeroFill ==
  ret.op = "Read" /\ ret.code = "SHORT_READ" =>
    \A i \in 1 .. ret.amt : ret.ofst + i > nSize => ret.buf[i] = Zero

(* memfs_file_io.cpp:74: "offset within this chunk", and the bytes of the   *)
(* write lie from that offset on.  A resize that makes a file longer, a    *)
(* write of one byte of nothing at the new end (line 111), leaves the      *)
(* bytes that the file has.                                                *)
GrowKeepsData ==
  [][ret'.op = "Truncate" /\ nSize < ret'.ofst =>
       \A p \in 1 .. nSize : Byte(p)' = Byte(p)]_vars

===============================================================================

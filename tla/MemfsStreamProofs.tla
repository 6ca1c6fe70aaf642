--------------------------- MODULE MemfsStreamProofs ---------------------------
(***************************************************************************)
(* Proofs about MemfsStream: the invariant of the file (MemfsFileProofs)   *)
(* with the ranges of the stream's own variables, and from it what a       *)
(* transfer does to the position.  The arithmetic is that of integers cut  *)
(* to their width.                                                         *)
(***************************************************************************)
EXTENDS MemfsStream, MemfsFileProofs

(* Integers cut to a width                                                 *)

LEMMA Remainder ==
  ASSUME NEW n \in Int, NEW d \in Nat, d > 0
  PROVE  n % d \in 0 .. d - 1 /\ (n \in 0 .. d - 1 => n % d = n)
  OBVIOUS

LEMMA SignedRange ==
  ASSUME NEW n \in Int, NEW max \in Nat
  PROVE  /\ Signed(n, max) \in -(max + 1) .. max
         /\ n \in -(max + 1) .. max => Signed(n, max) = n
  <1>1. n + max + 1 \in Int /\ 2 * (max + 1) \in Nat /\ 2 * (max + 1) > 0
        /\ (n \in -(max + 1) .. max => n + max + 1 \in 0 .. 2 * (max + 1) - 1)
    OBVIOUS
  <1>2. (n + max + 1) % (2 * (max + 1)) \in 0 .. 2 * (max + 1) - 1
        /\ (n + max + 1 \in 0 .. 2 * (max + 1) - 1 =>
              (n + max + 1) % (2 * (max + 1)) = n + max + 1)
    BY <1>1, Remainder
  <1> QED BY <1>1, <1>2 DEF Signed

LEMMA Widths ==
  /\ LLONG_MAX \in Nat /\ INT_MAX \in Nat /\ INT_MAX <= LLONG_MAX
  /\ SQLITE_IOERR \in Int32 /\ SQLITE_IOERR_NOMEM \in Int32 /\ 0 \in Int32 /\ 0 \in Int64
  /\ Int32 \subseteq Int /\ Int64 \subseteq Int
  /\ Amounts \subseteq Int32
  /\ \A buf \in Payloads : Len(buf) \in Int32
  <1>1. INT_MAX \in 1 .. LLONG_MAX /\ LLONG_MAX \in Nat
    BY StreamAssumption, FileAssumption
  <1>2. \A buf \in Payloads : Len(buf) \in Nat /\ Len(buf) <= INT_MAX
    BY Fills, StreamAssumption
  <1> QED BY <1>1, <1>2, StreamAssumption DEF Int32, Int64
-------------------------------------------------------------------------------
(* There is less memory than an Int64 counts                               *)

LEMMA MemoryBound ==
  ASSUME Sized
  PROVE  Capacity(chunks) \in Nat /\ Capacity(chunks) <= LLONG_MAX
  <1> DEFINE N == Len(chunks)
             L == LargestChunk
             S == {m \in 0 .. N : Start(chunks, m + 1) <= m * L}
  <1>0. chunks \in Seq(Seq(Cell)) /\ N \in Nat /\ N <= MaxChunks /\ MaxChunks \in Nat
        /\ L \in Nat /\ LLONG_MAX \in Nat
        /\ \A k \in 1 .. N : Len(chunks[k]) = ChunkSize(k)
    BY FileAssumption, ChunkSizes DEF Sized
  <1>1. 0 \in S
    <2>1. Start(chunks, 0 + 1) = 0  BY <1>0, Starts
    <2>2. 0 * L = 0  BY <1>0
    <2> QED BY <1>0, <2>1, <2>2
  <1>2. ASSUME NEW m \in 0 .. N - 1, m \in S  PROVE m + 1 \in S
    <2>1. m + 1 \in 1 .. N /\ m + 1 \in 1 .. N + 1 /\ m + 1 \in 0 .. N
          /\ m + 1 \in Nat \ {0}
      BY <1>0
    <2>2. Start(chunks, m + 1 + 1) = Start(chunks, m + 1) + Len(chunks[m + 1])
          /\ Start(chunks, m + 1) \in Nat
      BY <1>0, <2>1, Starts
    <2>3. Len(chunks[m + 1]) \in Nat /\ Len(chunks[m + 1]) <= L
      BY <1>0, <2>1, ChunkSizes
    <2>4. (m + 1) * L = m * L + L /\ m * L \in Nat
      <3> HIDE DEF L
      <3> QED BY <1>0
    <2>5. Start(chunks, m + 1) <= m * L  BY <1>2
    <2>6. Start(chunks, m + 1 + 1) <= (m + 1) * L
      <3> HIDE DEF L
      <3> QED BY <1>0, <2>2, <2>3, <2>4, <2>5
    <2> QED BY <2>1, <2>6
  <1> HIDE DEF S
  <1>3. \A m \in 0 .. N : m \in S  BY <1>0, <1>1, <1>2, InductionTo
  <1>4. N \in 0 .. N  BY <1>0
  <1>5. Start(chunks, N + 1) <= N * L  BY <1>3, <1>4 DEF S
  <1>6. N * L <= MaxChunks * L /\ N * L \in Nat /\ MaxChunks * L \in Nat
    <2> HIDE DEF L, N
    <2> QED BY <1>0
  <1>7. Capacity(chunks) = Start(chunks, N + 1) /\ Capacity(chunks) \in Nat
    BY <1>0, Starts
  <1> QED BY <1>0, <1>5, <1>6, <1>7, MemoryAssumption
-------------------------------------------------------------------------------
(* The inductive invariant                                                 *)

(* A stream that was disposed of has made no transfer since.               *)
SInv == IInv /\ StreamTypeOK /\ (state # "open" => last = NoTransfer)

LEMMA StreamInitSInv == StreamInit => SInv
  <1> SUFFICES ASSUME StreamInit  PROVE SInv
    OBVIOUS
  <1>1. IInv  BY InitIInv DEF StreamInit
  <1>2. StreamTypeOK  BY Widths DEF StreamInit, StreamTypeOK, NoTransfer
  <1> QED BY <1>1, <1>2 DEF SInv, StreamInit

(* A transfer is recorded and moves the position.                          *)
LEMMA MovedKeeps ==
  ASSUME StreamTypeOK, state = "open", IInv', NEW op \in {"Read", "Write"}, NEW count \in Int32,
         NEW size \in Int32, Moved(op, count, size)
  PROVE  SInv'
  <1>1. position + size \in Int
    BY Widths DEF StreamTypeOK
  <1>2. position' \in Int64
    BY <1>1, Widths, SignedRange DEF Moved, Int64
  <1> QED BY <1>2 DEF SInv, StreamTypeOK, Moved

LEMMA StreamReadKeeps ==
  ASSUME SInv, NEW count \in Int32, StreamRead(count)
  PROVE  SInv' /\ chunks' = chunks /\ nSize' = nSize
  <1>1. count \in Int /\ position \in Int
    BY Widths DEF SInv, StreamTypeOK
  <1>2. IInv' /\ chunks' = chunks /\ nSize' = nSize
    BY <1>1, ReadKeeps DEF SInv, StreamRead
  <1>3. ret'.code \in {"OK", "SHORT_READ", "IOERR"}
    <2>1. CASE ReadRefused(count, position) \/ ReadNothing(count, position)
      BY <2>1 DEF ReadRefused, ReadNothing, Called
    <2>2. CASE ReadPastEnd(count, position)
      BY <2>2 DEF ReadPastEnd, Called
    <2>3. CASE ReadChunks(count, position)
      <3>1. \E buf, code : Called("Read", position, count, buf, code)
                           /\ code \in {"OK", "SHORT_READ"}
        BY <2>3 DEF ReadChunks
      <3> QED BY <3>1 DEF Called
    <2> QED BY <2>1, <2>2, <2>3 DEF StreamRead, Read
  <1>4. Signed(nSize - position, INT_MAX) \in Int32
    BY <1>1, Widths, SignedRange DEF SInv, IInv, Int32
  <1>5. ReadReturns(count) \in Int32
    BY <1>3, <1>4, Widths DEF ReadReturns
  <1> QED BY <1>2, <1>5, MovedKeeps DEF SInv, StreamRead

LEMMA StreamWriteKeeps ==
  ASSUME SInv, NEW count \in Int32, NEW buf \in Seq(Cell), StreamWrite(buf, count)
  PROVE  SInv'
  <1>1. count \in Int /\ position \in Int
    BY Widths DEF SInv, StreamTypeOK
  <1>2. IInv'
    BY <1>1, WriteKeeps DEF SInv, StreamWrite
  <1>3. ret'.code \in {"OK", "NOMEM", "IOERR"}
    BY DEF StreamWrite, DoWrite, WriteRefused, WriteNothing, WriteDone, WriteNoMem, Called
  <1>4. WriteReturns(count) \in Int32
    BY <1>3, Widths DEF WriteReturns
  <1> QED BY <1>2, <1>4, MovedKeeps DEF SInv, StreamWrite

LEMMA MoveKeeps ==
  ASSUME SInv, NEW p \in Int, MoveTo(p)
  PROVE  SInv'
  <1>1. position' \in Int64
    BY Widths, SignedRange DEF MoveTo, Int64
  <1> QED BY <1>1, Widths DEF MoveTo, SInv, IInv, Sized, StreamTypeOK, NoTransfer

LEMMA OthersKeep ==
  ASSUME SInv, Others
  PROVE  SInv'
  <1>1. ASSUME NEW buf \in Payloads, NEW ofst \in Offsets, Write(buf, ofst)  PROVE IInv'
    <2>1. ofst \in Int /\ buf \in Seq(Cell) /\ Len(buf) \in Int  BY FileAssumption, Fills
    <2> QED BY <1>1, <2>1, WriteKeeps DEF Write, SInv
  <1>2. ASSUME NEW size \in Sizes, ResizeShrink(size) \/ ResizeGrow(size)  PROVE IInv'
    BY <1>2, FileAssumption, ResizeKeeps DEF SInv
  <1>3. ASSUME DeleteFile  PROVE IInv'
    <2>1. Init'
      BY <1>3 DEF DeleteFile, Init, Called
    <2>2. (Init => IInv)'
      BY InitIInv, PTL
    <2> QED BY <2>1, <2>2
  <1>4. IInv'
    <2>1. CASE \E buf \in Payloads, ofst \in Offsets : Write(buf, ofst)
      BY <1>1, <2>1
    <2>2. CASE \E size \in Sizes : ResizeShrink(size) \/ ResizeGrow(size)
      BY <1>2, <2>2
    <2> QED BY <1>3, <2>1, <2>2 DEF Others
  <1> QED BY <1>4, Widths DEF Others, SInv, StreamTypeOK, NoTransfer

LEMMA StreamNextSInv == SInv /\ [StreamNext]_streamVars => SInv'
  <1> SUFFICES ASSUME SInv, [StreamNext]_streamVars  PROVE SInv'
    OBVIOUS
  <1>0. /\ Amounts \subseteq Int32 /\ Offsets \subseteq Int /\ Sizes \subseteq Int
        /\ position \in Int /\ nSize \in Int
        /\ \A buf \in Payloads : buf \in Seq(Cell) /\ Len(buf) \in Int32
    BY Widths, FileAssumption, Fills DEF SInv, StreamTypeOK, IInv
  <1>1. ASSUME NEW count \in Amounts, StreamRead(count)  PROVE SInv'
    BY <1>0, <1>1, StreamReadKeeps
  <1>2. ASSUME NEW buf \in Payloads, StreamWrite(buf, Len(buf))  PROVE SInv'
    BY <1>0, <1>2, StreamWriteKeeps
  <1>3. ASSUME NEW count \in Amounts, StreamWrite(<<>>, count)  PROVE SInv'
    <2>1. <<>> \in Seq(Cell)  OBVIOUS
    <2> QED BY <1>0, <1>3, <2>1, StreamWriteKeeps
  <1>4. ASSUME NEW op \in {"Read", "Write"}, NEW count \in Amounts,
               TransferWithoutHandle(op, count)
        PROVE  SInv'
    <2>1. IInv'  BY <1>4 DEF TransferWithoutHandle, SInv, IInv, Sized
    <2> QED BY <1>0, <1>4, <2>1, Widths, MovedKeeps DEF TransferWithoutHandle, SInv
  <1>5. ASSUME NEW offset \in Offsets,
               SeekFromStart(offset) \/ SeekOn(offset) \/ SeekFromEnd(offset)
        PROVE  SInv'
    <2>1. offset \in Int /\ position + offset \in Int /\ nSize - offset \in Int
      BY <1>0
    <2> QED BY <1>5, <2>1, MoveKeeps DEF SeekFromStart, SeekOn, SeekFromEnd
  <1>6. ASSUME NEW value \in Sizes, SetLength(value)  PROVE SInv'
    <2>1. IInv'  BY <1>0, <1>6, ResizeKeeps DEF SetLength, SInv
    <2> QED BY <1>6, <2>1, Widths DEF SetLength, SInv, StreamTypeOK, NoTransfer
  <1>7. CASE Dispose \/ UseDisposed \/ UNCHANGED streamVars
    BY <1>7, Widths DEF Dispose, UseDisposed, streamVars, SInv, IInv, Sized,
                        StreamTypeOK, NoTransfer
  <1>8. CASE Others
    BY <1>8, OthersKeep
  <1> QED BY <1>1, <1>2, <1>3, <1>4, <1>5, <1>6, <1>7, <1>8 DEF StreamNext

LEMMA StreamSInv == StreamSpec => []SInv
  BY StreamInitSInv, StreamNextSInv, PTL DEF StreamSpec
-------------------------------------------------------------------------------
(* What a transfer does                                                    *)

(* A read from a position inside the file's memory ends at the byte after  *)
(* the last one it was asked for, or falls short and ends at the file's    *)
(* end.                                                                    *)
LEMMA ReadMoves ==
  ASSUME SInv, NEW count \in Int32, StreamRead(count),
         nSize >= 0, position >= 0, position - nSize <= INT_MAX + 1
  PROVE  \/ last'.size = count /\ (position <= Capacity(chunks) /\ count >= 0 =>
                                     position' = position + count
                                     /\ position' <= Capacity(chunks))
         \/ position' = nSize
  <1>0. /\ count \in Int /\ position \in Nat /\ nSize \in Nat /\ nSize <= LLONG_MAX
        /\ position <= LLONG_MAX /\ INT_MAX \in Nat /\ INT_MAX <= LLONG_MAX
        /\ LLONG_MAX \in Nat /\ count <= INT_MAX
    BY Widths DEF SInv, IInv, StreamTypeOK, Int64, Int32
  <1>1. /\ Capacity(chunks) \in Nat /\ Capacity(chunks) <= LLONG_MAX
        /\ nSize <= Capacity(chunks)
    BY MemoryBound DEF SInv, IInv
  <1>2. /\ last'.size = ReadReturns(count)
        /\ position' = Signed(position + ReadReturns(count), LLONG_MAX)
    BY DEF StreamRead, Moved
  <1>3. ASSUME ret'.code = "OK", position <= Capacity(chunks),
               0 <= count => position + count <= Capacity(chunks)
        PROVE  /\ last'.size = count
               /\ count >= 0 => /\ position' = position + count
                                /\ position' <= Capacity(chunks)
    <2>1. ReadReturns(count) = count  BY <1>3 DEF ReadReturns
    <2>2. count >= 0 => position + count \in -(LLONG_MAX + 1) .. LLONG_MAX
      BY <1>0, <1>1, <1>3
    <2>3. position + count \in Int  BY <1>0
    <2>4. count >= 0 => Signed(position + count, LLONG_MAX) = position + count
      BY <1>0, <2>2, <2>3, SignedRange
    <2> QED BY <1>2, <1>3, <2>1, <2>4
  <1>4. ASSUME ret'.code = "SHORT_READ", nSize - position \in -(INT_MAX + 1) .. INT_MAX
        PROVE  position' = nSize
    <2>1. Signed(nSize - position, INT_MAX) = nSize - position
      BY <1>0, <1>4, SignedRange
    <2>2. ReadReturns(count) = nSize - position
      BY <1>4, <2>1 DEF ReadReturns
    <2>3. position + (nSize - position) = nSize /\ nSize \in -(LLONG_MAX + 1) .. LLONG_MAX
      BY <1>0
    <2> QED BY <1>0, <1>2, <2>2, <2>3, SignedRange
  <1>5. CASE ReadRefused(count, position)
    BY <1>0, <1>5 DEF ReadRefused
  <1>6. CASE ReadNothing(count, position)
    <2>1. ret'.code = "OK" /\ count <= 0
      BY <1>6 DEF ReadNothing, Called
    <2>2. ReadReturns(count) = count  BY <2>1 DEF ReadReturns
    <2>3. position <= Capacity(chunks) =>
            (0 <= count => position + count <= Capacity(chunks))
      BY <1>0, <2>1
    <2> QED BY <1>2, <1>3, <2>1, <2>2, <2>3
  <1>7. CASE ReadPastEnd(count, position)
    <2>1. ret'.code = "SHORT_READ" /\ nSize - position <= 0
      BY <1>7 DEF ReadPastEnd, Called
    <2>2. nSize - position \in -(INT_MAX + 1) .. INT_MAX
      BY <1>0, <2>1
    <2> QED BY <1>4, <2>1, <2>2
  <1>8. CASE ReadChunks(count, position)
    <2> DEFINE bytes == FlattenSeq(chunks)
               end   == IF position + count <= Len(bytes) THEN position + count
                                                          ELSE Len(bytes)
               done  == SubSeq(bytes, position + 1, end)
    <2>1. /\ count > 0 /\ nSize - position > 0
          /\ ret'.code = IF Len(done) = count THEN "OK" ELSE "SHORT_READ"
      BY <1>8 DEF ReadChunks, Called
    <2>2. bytes \in Seq(Cell) /\ Len(bytes) = Capacity(chunks)
      BY Bytes DEF SInv, IInv, Sized
    <2> HIDE DEF bytes
    <2>3. /\ end \in Int /\ position + 1 \in Int /\ position + 1 <= end
          /\ \A i \in position + 1 .. end : bytes[i] \in Cell
      BY <1>0, <1>1, <2>1, <2>2
    <2>4. Len(done) = end - position
      <3> HIDE DEF end
      <3>1. Len(done) = IF position + 1 <= end THEN end - (position + 1) + 1 ELSE 0
        BY <2>3, SubSeqProperties
      <3> HIDE DEF done
      <3> QED BY <1>0, <2>3, <3>1
    <2> HIDE DEF done
    <2>5. CASE position + count <= Capacity(chunks)
      <3>1. Len(done) = count  BY <1>0, <1>1, <2>2, <2>4, <2>5
      <3>2. position <= Capacity(chunks)  BY <1>0, <1>1, <2>1
      <3> QED BY <1>3, <2>1, <2>5, <3>1, <3>2
    <2>6. CASE ~(position + count <= Capacity(chunks))
      <3>1. Len(done) # count  BY <1>0, <1>1, <2>2, <2>4, <2>6
      <3>2. nSize - position \in -(INT_MAX + 1) .. INT_MAX
        BY <1>0, <1>1, <2>1, <2>6
      <3> QED BY <1>4, <2>1, <3>1, <3>2
    <2> QED BY <2>5, <2>6
  <1> QED BY <1>5, <1>6, <1>7, <1>8 DEF StreamRead, Read
(* The properties, as predicates of a step.                                *)
ShortStep ==
  last'.op = "Read" /\ position \in 0 .. nSize /\ last'.size # 0 =>
    last'.size = last'.count \/ position' = nSize

MemoryStep ==
  /\ last'.op # "none" /\ last'.count >= 0
  /\ ret'.code \in {"OK", "SHORT_READ"}
  /\ position \in 0 .. Capacity(chunks)
  /\ nSize >= 0 /\ position - nSize <= INT_MAX + 1
  => position' \in 0 .. Capacity(chunks')

(* The steps that transfer nothing have no part in either.                 *)
LEMMA OnlyTransfers ==
  ASSUME StreamNext, last'.op # "none"
  PROVE  \/ \E count \in Amounts : StreamRead(count)
         \/ \E buf \in Payloads : StreamWrite(buf, Len(buf))
         \/ \E count \in Amounts : count < 0 /\ StreamWrite(<<>>, count)
         \/ \E op \in {"Read", "Write"}, count \in Amounts : TransferWithoutHandle(op, count)
         \/ Dispose \/ UseDisposed
  BY DEF StreamNext, SeekFromStart, SeekOn, SeekFromEnd, MoveTo, SetLength, Others,
         NoTransfer

LEMMA ShortStepHolds ==
  ASSUME SInv, StreamNext
  PROVE  ShortStep
  <1> SUFFICES ASSUME last'.op = "Read", position \in 0 .. nSize, last'.size # 0
               PROVE  last'.size = last'.count \/ position' = nSize
    BY DEF ShortStep
  <1>0. nSize \in Int /\ position \in Int /\ INT_MAX \in Nat
    BY Widths DEF SInv, IInv, StreamTypeOK
  <1>1. ASSUME NEW count \in Amounts, StreamRead(count)
        PROVE  last'.size = last'.count \/ position' = nSize
    <2>1. count \in Int32  BY Widths
    <2>2. nSize >= 0 /\ position >= 0 /\ position - nSize <= INT_MAX + 1  BY <1>0
    <2>3. last'.count = count  BY <1>1 DEF StreamRead, Moved
    <2> QED BY <1>1, <2>1, <2>2, <2>3, ReadMoves
  <1>2. ASSUME NEW buf, NEW count, StreamWrite(buf, count)  PROVE FALSE
    BY <1>2 DEF StreamWrite, Moved
  <1>3. ASSUME NEW op, NEW count, TransferWithoutHandle(op, count)  PROVE FALSE
    BY <1>3 DEF TransferWithoutHandle, Moved
  <1>4. CASE Dispose \/ UseDisposed
    BY <1>4 DEF Dispose, UseDisposed, SInv, NoTransfer
  <1>5. last'.op # "none"
    OBVIOUS
  <1> QED BY <1>1, <1>2, <1>3, <1>4, <1>5, OnlyTransfers

LEMMA MemoryNat == SInv => Capacity(chunks) \in Nat
  BY MemoryBound DEF SInv, IInv

LEMMA MemoryStepHolds ==
  ASSUME SInv, StreamNext
  PROVE  MemoryStep
  <1> SUFFICES ASSUME last'.op # "none", last'.count >= 0,
                      ret'.code \in {"OK", "SHORT_READ"},
                      position \in 0 .. Capacity(chunks),
                      nSize >= 0, position - nSize <= INT_MAX + 1
               PROVE  position' \in 0 .. Capacity(chunks')
    BY DEF MemoryStep
  <1>0. /\ nSize \in Nat /\ position \in Nat /\ LLONG_MAX \in Nat /\ position <= LLONG_MAX
        /\ position \in Int64 /\ position <= Capacity(chunks)
    BY Widths DEF SInv, IInv, StreamTypeOK, Int64
  <1>1. Capacity(chunks) \in Nat /\ nSize <= Capacity(chunks)
    BY MemoryBound DEF SInv, IInv
  <1>2. ASSUME NEW count \in Amounts, StreamRead(count)
        PROVE  position' \in 0 .. Capacity(chunks')
    <2>1. count \in Int32 /\ last'.count = count /\ count \in Int
      BY <1>2, Widths DEF StreamRead, Moved
    <2>2. chunks' = chunks  BY <1>2, <2>1, StreamReadKeeps
    <2>3. count >= 0  BY <2>1
    <2>4. \/ position' = position + count /\ position' <= Capacity(chunks)
          \/ position' = nSize
      BY <1>0, <1>2, <2>1, <2>3, ReadMoves
    <2> QED BY <1>0, <1>1, <2>1, <2>2, <2>3, <2>4
  <1>3. ASSUME NEW count \in Int32, NEW buf \in Seq(Cell), StreamWrite(buf, count)
        PROVE  position' \in 0 .. Capacity(chunks')
    <2>1. count >= 0 /\ count \in Int
          /\ position' = Signed(position + WriteReturns(count), LLONG_MAX)
      BY <1>3, Widths DEF StreamWrite, Moved
    <2>2. IInv' /\ Capacity(chunks') \in Nat
      <3>1. SInv'  BY <1>3, StreamWriteKeeps
      <3>2. (SInv => Capacity(chunks) \in Nat)'
        BY MemoryNat, PTL
      <3> QED BY <3>1, <3>2 DEF SInv
    <2>3. CASE WriteRefused("Write", position, count, buf, position)
      BY <2>3 DEF WriteRefused, Called
    <2>4. CASE WriteNothing("Write", position, count, buf, position)
      <3>1. count <= 0 /\ ret'.code = "OK" /\ chunks' = chunks
        BY <2>4 DEF WriteNothing, Called
      <3>2. WriteReturns(count) = count /\ position + count = position
        BY <1>0, <2>1, <3>1 DEF WriteReturns
      <3>3. Signed(position, LLONG_MAX) = position
        BY <1>0, SignedRange DEF Int64
      <3> QED BY <1>0, <1>1, <2>1, <3>1, <3>2, <3>3
    <2>5. CASE WriteDone("Write", position, count, buf, position)
      <3>1. /\ ret'.code = "OK" /\ position <= LLONG_MAX - count
            /\ Capacity(chunks') >= position + count
        BY <2>5 DEF WriteDone, Legal, Called
      <3>2. WriteReturns(count) = count  BY <3>1 DEF WriteReturns
      <3>3. position + count \in -(LLONG_MAX + 1) .. LLONG_MAX /\ position + count \in Nat
        BY <1>0, <2>1, <3>1
      <3>4. Signed(position + count, LLONG_MAX) = position + count
        BY <1>0, <3>3, SignedRange
      <3> QED BY <2>1, <2>2, <3>1, <3>2, <3>3, <3>4
    <2>6. CASE WriteNoMem("Write", position, count, buf, position)
      BY <2>6 DEF WriteNoMem, Called
    <2> QED BY <1>3, <2>3, <2>4, <2>5, <2>6 DEF StreamWrite, DoWrite
  <1>4. ASSUME NEW op, NEW count, TransferWithoutHandle(op, count)
        PROVE  position' \in 0 .. Capacity(chunks')
    <2>1. position' = Signed(position + 0, LLONG_MAX) /\ chunks' = chunks
      BY <1>4 DEF TransferWithoutHandle, Moved
    <2>2. position + 0 = position  BY <1>0
    <2>3. Signed(position, LLONG_MAX) = position
      BY <1>0, SignedRange DEF Int64
    <2> QED BY <2>1, <2>2, <2>3
  <1>5. CASE Dispose \/ UseDisposed
    BY <1>5 DEF Dispose, UseDisposed, SInv, NoTransfer
  <1>6. \A buf \in Payloads : buf \in Seq(Cell) /\ Len(buf) \in Int32
    BY Fills, Widths
  <1>7. <<>> \in Seq(Cell) /\ Amounts \subseteq Int32
    BY Widths
  <1> QED BY <1>2, <1>3, <1>4, <1>5, <1>6, <1>7, OnlyTransfers

(* MemfsStream: the position is an Int64 and what a transfer returned an   *)
(* int, whatever is added to it (memfs_readdata's difference of sizes, an  *)
(* error code).                                                            *)
THEOREM StreamTypeTheorem == StreamSpec => []StreamTypeOK
  <1>1. SInv => StreamTypeOK
    BY DEF SInv
  <1> QED BY <1>1, StreamSInv, PTL

(* The file's bytes are in its chunks whatever streams and SQLite do to it *)
(* by turns, and it is truncated and deleted meanwhile.                    *)
THEOREM StreamCoveredTheorem == StreamSpec => []Covered
  <1>1. SInv => Covered
    BY IInvTypeOK DEF SInv
  <1> QED BY <1>1, StreamSInv, PTL

(* MemfsStream::SetLength and the resizes of others: the size is what the  *)
(* result of the resize says.                                              *)
THEOREM StreamResizeTheorem == StreamSpec => ResizeExact
  <1>1. SInv /\ [StreamNext]_streamVars =>
          [ret'.op = "Truncate" =>
             /\ ret'.code = "OK" /\ nSize >= 0 => nSize' = ret'.ofst
             /\ ret'.code # "OK" => nSize' = nSize]_vars
    <2> SUFFICES ASSUME SInv, StreamNext, ret'.op = "Truncate", vars' # vars
                 PROVE  /\ ret'.code = "OK" /\ nSize >= 0 => nSize' = ret'.ofst
                        /\ ret'.code # "OK" => nSize' = nSize
      BY DEF streamVars, vars
    <2>1. ASSUME NEW ofst, NEW amt, Read(amt, ofst)  PROVE FALSE
      BY <2>1 DEF Read, ReadRefused, ReadNothing, ReadPastEnd, ReadChunks, Called
    <2>2. ASSUME NEW arg, NEW amt, NEW buf, NEW ofst, DoWrite("Write", arg, amt, buf, ofst)
          PROVE  FALSE
      BY <2>2 DEF DoWrite, WriteRefused, WriteNothing, WriteDone, WriteNoMem, Called
    <2>3. ASSUME NEW size \in Sizes, ResizeShrink(size) \/ ResizeGrow(size)
          PROVE  /\ ret'.code = "OK" /\ nSize >= 0 => nSize' = ret'.ofst
                 /\ ret'.code # "OK" => nSize' = nSize
      BY <2>3, FileAssumption, ResizeSays DEF SInv, IInv
    <2>4. CASE \E count \in Amounts : StreamRead(count)
      BY <2>1, <2>4 DEF StreamRead
    <2>5. CASE \/ \E buf \in Payloads : StreamWrite(buf, Len(buf))
               \/ \E count \in Amounts : count < 0 /\ StreamWrite(<<>>, count)
      BY <2>2, <2>5 DEF StreamWrite
    <2>6. CASE \/ \E op \in {"Read", "Write"}, count \in Amounts :
                    TransferWithoutHandle(op, count)
               \/ Dispose \/ UseDisposed
      BY <2>6 DEF TransferWithoutHandle, Dispose, UseDisposed, vars
    <2>7. CASE \E offset \in Offsets :
                 SeekFromStart(offset) \/ SeekOn(offset) \/ SeekFromEnd(offset)
      BY <2>7 DEF SeekFromStart, SeekOn, SeekFromEnd, MoveTo, vars
    <2>8. CASE \E value \in Sizes : SetLength(value)
      BY <2>3, <2>8 DEF SetLength
    <2>9. CASE Others
      <3>1. CASE \E buf \in Payloads, ofst \in Offsets : Write(buf, ofst)
        BY <2>2, <3>1 DEF Write
      <3>2. CASE DeleteFile
        BY <3>2 DEF DeleteFile, Called
      <3> QED BY <2>3, <2>9, <3>1, <3>2 DEF Others
    <2> QED BY <2>4, <2>5, <2>6, <2>7, <2>8, <2>9 DEF StreamNext
  <1> QED BY <1>1, StreamSInv, PTL DEF StreamSpec, ResizeExact

(* MemfsStream::Read: a read inside the file that returns another number   *)
(* than it was asked for has got exactly to the file's end.                *)
THEOREM ShortOnlyAtEndTheorem == StreamSpec => ShortOnlyAtEnd
  <1>1. SInv /\ [StreamNext]_streamVars =>
          [last'.op = "Read" /\ position \in 0 .. nSize /\ last'.size # 0 =>
             last'.size = last'.count \/ position' = nSize]_streamVars
    BY ShortStepHolds DEF ShortStep
  <1> QED BY <1>1, StreamSInv, PTL DEF StreamSpec, ShortOnlyAtEnd

(* MemfsStream::Read and Write: a transfer that does not fail keeps the    *)
(* position inside the file's memory.                                      *)
THEOREM PositionTheorem == StreamSpec => PositionStaysInMemory
  <1>1. SInv /\ [StreamNext]_streamVars =>
          [/\ last'.op # "none" /\ last'.count >= 0
           /\ ret'.code \in {"OK", "SHORT_READ"}
           /\ position \in 0 .. Capacity(chunks)
           /\ nSize >= 0 /\ position - nSize <= INT_MAX + 1
           => position' \in 0 .. Capacity(chunks')]_streamVars
    BY MemoryStepHolds DEF MemoryStep
  <1> QED BY <1>1, StreamSInv, PTL DEF StreamSpec, PositionStaysInMemory

===============================================================================

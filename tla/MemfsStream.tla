------------------------------ MODULE MemfsStream ------------------------------
(***************************************************************************)
(* MemfsStream (MemfsStream.cpp): a position in a file, moved by whatever  *)
(* memfs_readdata and memfs_writedata (memfs.cpp) return.  That is a       *)
(* count, a difference of sizes cut to an int, or an error code: the       *)
(* stream adds each of them to the position.                               *)
(*                                                                         *)
(* The file is MemfsFile's.  SQLite and other streams use it too, between  *)
(* the stream's calls: within one, the locks keep them off (MemfsApi).     *)
(***************************************************************************)
EXTENDS MemfsFile

CONSTANTS
  INT_MAX,             \* largest value of int
  SQLITE_IOERR,        \* two result codes, as numbers: 10
  SQLITE_IOERR_NOMEM   \*   and 3082 in the code

ASSUME StreamAssumption ==
  /\ INT_MAX \in 1 .. LLONG_MAX
  /\ SQLITE_IOERR \in 1 .. INT_MAX /\ SQLITE_IOERR_NOMEM \in 1 .. INT_MAX
  /\ Amounts \subseteq -(INT_MAX + 1) .. INT_MAX     \* they are of type int
  /\ \A buf \in Payloads : Len(buf) <= INT_MAX

(* No program has the memory for so many chunks that a sqlite3_int64 could *)
(* not count their bytes.                                                  *)
ASSUME MemoryAssumption == MaxChunks * LargestChunk <= LLONG_MAX

VARIABLES
  position,   \* Int64
  last,       \* the last call, if the stream transferred data: how many bytes
              \*   it was asked for and what it returned
  state       \* "open", "disposed" or "undefined"

streamVars == <<chunks, nSize, ret, position, last, state>>

(* n cut to a signed integer whose largest value is max.                   *)
Signed(n, max) == ((n + max + 1) % (2 * (max + 1))) - (max + 1)

Int32 == -(INT_MAX + 1) .. INT_MAX
Int64 == -(LLONG_MAX + 1) .. LLONG_MAX

NoTransfer == [op |-> "none", count |-> 0, size |-> 0]

StreamInit ==
  /\ Init
  /\ position = 0
  /\ last     = NoTransfer
  /\ state    = "open"
-------------------------------------------------------------------------------
(* Read and Write                                                          *)

Moved(op, count, size) ==
  /\ last'     = [op |-> op, count |-> count, size |-> size]
  /\ position' = Signed(position + size, LLONG_MAX)
  /\ UNCHANGED state

ReadReturnsWide(count) ==      \* mutant: the difference is not cut to an int
  CASE ret'.code = "OK"         -> count
    [] ret'.code = "SHORT_READ" -> nSize - position
    [] ret'.code = "IOERR"      -> SQLITE_IOERR

ReadReturnsBuffer(count) ==    \* mutant: the zeros xRead adds are counted
  CASE ret'.code = "OK"         -> count
    [] ret'.code = "SHORT_READ" -> count
    [] ret'.code = "IOERR"      -> SQLITE_IOERR

ReadReturnsCopied(count) ==    \* mutant: the bytes copied are counted
  CASE ret'.code = "OK"         -> count
    [] ret'.code = "SHORT_READ" -> Signed(Capacity(chunks) - position, INT_MAX)
    [] ret'.code = "IOERR"      -> SQLITE_IOERR

(* What memfs_readdata returns.                                            *)
ReadReturns(count) ==
  CASE ret'.code = "OK"         -> count
    [] ret'.code = "SHORT_READ" -> Signed(nSize - position, INT_MAX)
    [] ret'.code = "IOERR"      -> SQLITE_IOERR

StreamRead(count) ==
  /\ state = "open"
  /\ Read(count, position)
  /\ Moved("Read", count, ReadReturns(count))

(* What memfs_writedata returns.                                           *)
WriteReturns(count) ==
  CASE ret'.code = "OK"    -> count
    [] ret'.code = "IOERR" -> SQLITE_IOERR
    [] ret'.code = "NOMEM" -> SQLITE_IOERR_NOMEM

(* Nothing keeps a caller from a negative count, for which buf is empty.   *)
StreamWrite(buf, count) ==
  /\ state = "open"
  /\ DoWrite("Write", position, count, buf, position)
  /\ Moved("Write", count, WriteReturns(count))

(* No memory for the handle the native call opens: it returns 0.           *)
TransferWithoutHandle(op, count) ==
  /\ state = "open"
  /\ Moved(op, count, 0)
  /\ UNCHANGED <<chunks, nSize, ret>>
-------------------------------------------------------------------------------
(* The position, the length and the end of the stream                      *)

MoveTo(p) ==
  /\ position' = Signed(p, LLONG_MAX)
  /\ last'     = NoTransfer
  /\ UNCHANGED <<chunks, nSize, ret, state>>

(* A position needs no file name: a disposed stream still has one.         *)
SeekFromStart(offset) == state # "undefined" /\ MoveTo(offset)
SeekOn(offset)        == state # "undefined" /\ MoveTo(position + offset)
SeekFromEnd(offset)   == state = "open"      /\ MoveTo(nSize - offset)

(* When no handle can be opened, SetLength throws and nothing changes.     *)
SetLength(value) ==
  /\ state = "open"
  /\ ResizeShrink(value) \/ ResizeGrow(value)
  /\ last' = NoTransfer
  /\ UNCHANGED <<position, state>>

(* The name is freed and left null.                                        *)
Dispose ==
  /\ state = "open"
  /\ state' = "disposed"
  /\ last'  = NoTransfer
  /\ UNCHANGED <<chunks, nSize, ret, position>>

(* Nothing tests `disposed': xOpen fails without a name, a transfer goes   *)
(* on with no methods; Length compares names with a null pointer.          *)
UseDisposed ==
  /\ state = "disposed"
  /\ state' = "undefined"
  /\ UNCHANGED <<chunks, nSize, ret, position, last>>
-------------------------------------------------------------------------------
(* The others                                                              *)

(* memfs_delfile.  Whoever opens the file next finds a new one; until then *)
(* its length is 0.                                                        *)
DeleteFile ==
  /\ chunks' = << [i \in 1 .. CHUNK_BASE |-> Uninit] >>
  /\ nSize'  = 0
  /\ Called("none", 0, 0, <<>>, "OK")

(* Calls of others that only read change nothing.                          *)
Others ==
  /\ \/ \E buf \in Payloads, ofst \in Offsets : Write(buf, ofst)
     \/ \E size \in Sizes : ResizeShrink(size) \/ ResizeGrow(size)
     \/ DeleteFile
  /\ last' = NoTransfer
  /\ UNCHANGED <<position, state>>

Reading == \E count \in Amounts : count > 0 /\ StreamRead(count)

StreamNext ==
  \/ \E count \in Amounts : StreamRead(count)
  \/ \E buf \in Payloads : StreamWrite(buf, Len(buf))
  \/ \E count \in Amounts : count < 0 /\ StreamWrite(<<>>, count)
  \/ \E op \in {"Read", "Write"}, count \in Amounts : TransferWithoutHandle(op, count)
  \/ \E offset \in Offsets :
       SeekFromStart(offset) \/ SeekOn(offset) \/ SeekFromEnd(offset)
  \/ \E value \in Sizes : SetLength(value)
  \/ Dispose
  \/ UseDisposed
  \/ Others

(* A caller that reads on gets to read again.                              *)
StreamSpec == StreamInit /\ [][StreamNext]_streamVars /\ WF_streamVars(Reading)
-------------------------------------------------------------------------------
(* The position is an Int64 and what a transfer returns is an Int32: the   *)
(* difference of two sizes that memfs_readdata returns is cut to one.      *)
StreamTypeOK ==
  /\ position \in Int64
  /\ last     \in [op : {"none", "Read", "Write"}, count : Int32, size : Int32]
  /\ state    \in {"open", "disposed", "undefined"}

(* A Read inside the file that returns another number than it was asked    *)
(* for has got exactly to the file's end (memfs_readdata's result of a     *)
(* short read): nothing of the file is skipped or read twice.              *)
ShortOnlyAtEnd ==
  [][last'.op = "Read" /\ position \in 0 .. nSize /\ last'.size # 0 =>
       last'.size = last'.count \/ position' = nSize]_streamVars

(* A transfer that fails in no way leaves a position that was in the       *)
(* file's memory there, wherever the file's end has moved meanwhile: a     *)
(* count past the end takes it back to the end (the sums of Read and Write *)
(* in MemfsStream.cpp).  Beyond the end by more than an int holds, it may  *)
(* be taken anywhere.                                                      *)
PositionStaysInMemory ==
  [][/\ last'.op # "none" /\ last'.count >= 0
     /\ ret'.code \in {"OK", "SHORT_READ"}
     /\ position \in 0 .. Capacity(chunks)
     /\ nSize >= 0 /\ position - nSize <= INT_MAX + 1
     => position' \in 0 .. Capacity(chunks')]_streamVars

(* A loop that reads on until a Read returns 0 ends, wherever the stream   *)
(* was sought to and whatever was done to the file before: past the end,   *)
(* reads go back to it, before the beginning the error code added to the   *)
(* position brings it up to the file.  It ends at the file's end, but for  *)
(* the bits an int does not hold.  (A file that was given a negative       *)
(* length has no end to arrive at.)                                        *)
OnlyReads == <>[][Reading]_streamVars /\ <>[](state = "open" /\ nSize >= 0)

ReadsReachEnd ==
  OnlyReads => <>[](last.size = 0 /\ Signed(position - nSize, INT_MAX) = 0)

===============================================================================

-------------------------------- MODULE ByteFile --------------------------------
(***************************************************************************)
(* What one file promises to SQLite's pager: it is a sequence of bytes.  A *)
(* write that succeeds changes the bytes it was given and no other; a write *)
(* that runs out of memory may have stored a first part of its bytes where *)
(* the file already was, and does not lengthen it; truncation keeps what   *)
(* is below the new size.  The bytes of a gap, between the old end of a    *)
(* file and a write beyond it, are not promised, and neither are the bytes *)
(* a read returns beyond the end when it starts below it.                  *)
(*                                                                         *)
(* ret is the last call: its arguments and what it returned.  Each action  *)
(* is what the call ret' says has happened may do to the contents.         *)
(***************************************************************************)
EXTENDS Integers, Sequences

CONSTANTS
  Cell,       \* the values a byte of memory can have
  Zero        \* the byte 0

VARIABLES contents, ret

Init ==
  /\ contents = <<>>
  /\ ret.op = "none"

Size == Len(contents)

(* Byte p of the file, counted from 1, is in the range of the call.        *)
InRange(p) == ret'.ofst < p /\ p <= ret'.ofst + ret'.amt

Kept(p) == p <= Size => contents'[p] = contents[p]

Refused ==
  /\ ret'.op \in {"Read", "Write"}
  /\ ret'.code = "IOERR"
  /\ UNCHANGED contents

Nothing ==                              \* no bytes asked for, none moved
  /\ ret'.op \in {"Read", "Write"}
  /\ ret'.amt <= 0 /\ ret'.code = "OK"
  /\ UNCHANGED contents

Read ==
  /\ ret'.op = "Read" /\ ret'.amt > 0
  /\ ret'.code \in {"OK", "SHORT_READ"}
  /\ ret'.ofst + ret'.amt <= Size => ret'.code = "OK"
  /\ \A i \in 1 .. ret'.amt :
       ret'.ofst + i <= Size => ret'.buf[i] = contents[ret'.ofst + i]
  /\ ret'.ofst >= Size =>
       ret'.code = "SHORT_READ" /\ \A i \in 1 .. ret'.amt : ret'.buf[i] = Zero
  /\ UNCHANGED contents

Write ==
  /\ ret'.op = "Write" /\ ret'.code = "OK" /\ ret'.amt > 0
  /\ Len(contents') = IF Size < ret'.ofst + ret'.amt
                      THEN ret'.ofst + ret'.amt ELSE Size
  /\ \A p \in 1 .. Len(contents') :
       IF InRange(p) THEN contents'[p] = ret'.buf[p - ret'.ofst] ELSE Kept(p)

WriteFailed ==
  /\ ret'.op = "Write" /\ ret'.code = "NOMEM"
  /\ Len(contents') = Size
  /\ \E done \in 0 .. ret'.amt - 1 :
       \A p \in 1 .. Size :
         IF InRange(p) /\ p <= ret'.ofst + done
         THEN contents'[p] = ret'.buf[p - ret'.ofst]
         ELSE Kept(p)

Truncate ==
  /\ ret'.op = "Truncate" /\ ret'.code = "OK"
  /\ ret'.ofst <= Size
  /\ contents' = SubSeq(contents, 1, ret'.ofst)

FileSize ==
  /\ ret'.op = "FileSize" /\ ret'.code = "OK"
  /\ ret'.amt = Size
  /\ UNCHANGED contents

Next == Refused \/ Nothing \/ Read \/ Write \/ WriteFailed \/ Truncate \/ FileSize

Spec == Init /\ [][Next]_<<contents, ret>>

===============================================================================

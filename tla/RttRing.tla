------------------------------- MODULE RttRing -------------------------------
(***************************************************************************)
(* A ring buffer of SEGGER_RTT.c: one of the two between the target and    *)
(* the debug probe.  The threads of the target are serialised by           *)
(* SEGGER_RTT_LOCK; the probe reads and writes the memory at any moment,   *)
(* with the operations SEGGER_RTT_ReadUpBufferNoLock and _WriteDownBuffer- *)
(* NoLock repeat.  So one writer and one reader run concurrently, in       *)
(* either direction.                                                       *)
(***************************************************************************)
EXTENDS Integers, Sequences

CONSTANTS
    Size,       \* SizeOfBuffer
    Word,       \* unsigned arithmetic is modulo Word
    MaxLen,     \* longest write and read
    MaxBytes    \* bound on the bytes of a behaviour

ASSUME RingAssumption ==
    /\ Size \in Nat \ {0, 1} /\ Word \in Nat /\ Size <= Word
    /\ MaxLen \in Nat /\ MaxBytes \in Nat

VARIABLES
    buf, WrOff, RdOff,  \* the ring; a byte is its number in the stream
    Flags,              \* what a write does when there is too little space
    wpc, len, left,     \* writer: bytes being copied, bytes still to come
    status,             \* what the write returns
    rpc, rd, wr, room,  \* reader: local RdOff and WrOff, rest of BufferSize
    chunk,              \* the bytes it has copied
    put, taken, got     \* history: bytes published, released, last returned

ring == <<buf, WrOff>>
writer == <<wpc, len, left, status>>
reader == <<rpc, rd, wr, room, chunk>>
vars == <<ring, RdOff, Flags, writer, reader, put, taken, got>>

Modes == {"SKIP", "TRIM", "BLOCK"}

Least(a, b) == IF a <= b THEN a ELSE b

\* Unsigned subtraction.
Sub(a, b) == IF a >= b THEN a - b ELSE Word + a - b

-----------------------------------------------------------------------------
(* The writer.                                                             *)

\* Fault: the ring may be filled to its last byte.
Avail_Full == IF RdOff <= WrOff THEN Size - WrOff + RdOff ELSE RdOff - WrOff

\* _GetAvailWriteSpace
Avail == IF RdOff <= WrOff THEN Size - 1 - WrOff + RdOff ELSE RdOff - WrOff - 1

Rem == Size - WrOff

\* SEGGER_RTT_SetFlagsUpBuffer; the lock keeps it out of a write.
SetFlags(mode) ==
    /\ wpc = "idle"
    /\ Flags' = mode
    /\ UNCHANGED <<ring, RdOff, writer, reader, put, taken, got>>

\* SEGGER_RTT_WriteNoLock: what is written depends on the space seen now.
Write(n) ==
    /\ wpc = "idle"
    /\ put + n <= MaxBytes
    /\ status' = 0
    /\ \/ Flags = "SKIP" /\ Avail < n /\ UNCHANGED <<wpc, len, left>>
       \/ Flags = "SKIP" /\ Avail >= n /\ wpc' = "copy" /\ len' = n /\ left' = 0
       \/ Flags = "TRIM" /\ wpc' = "copy" /\ len' = Least(Avail, n) /\ left' = 0
       \/ Flags = "BLOCK" /\ wpc' = "block" /\ left' = n /\ UNCHANGED len
    /\ UNCHANGED <<ring, RdOff, Flags, reader, put, taken, got>>

\* Fault: a blocking write waits until all of it fits.
Block_Whole ==
    /\ wpc = "block"
    /\ len' = IF left <= Least(Avail, Rem) THEN left ELSE 0
    /\ left' = left - len'
    /\ wpc' = "copy"
    /\ UNCHANGED <<ring, RdOff, Flags, status, reader, put, taken, got>>

\* A round of _WriteBlocking: as much as fits before the end of the buffer.
Block ==
    /\ wpc = "block"
    /\ len' = Least(Least(Avail, Rem), left)
    /\ left' = left - len'
    /\ wpc' = "copy"
    /\ UNCHANGED <<ring, RdOff, Flags, status, reader, put, taken, got>>

\* _WriteNoCheck, and the copy of _WriteBlocking, which never wraps.
Copy ==
    /\ wpc = "copy"
    /\ buf' = [i \in 0..Size - 1 |->
                 IF WrOff <= i /\ i < WrOff + len THEN put + 1 + i - WrOff ELSE buf[i]]
    /\ wpc' = IF Rem > len THEN "publish" ELSE "wrap"
    /\ UNCHANGED <<WrOff, RdOff, Flags, len, left, status, reader, put, taken, got>>

\* Fault: the wrapped part is copied from the start of the data again.
Wrap_FromStart ==
    /\ wpc = "wrap"
    /\ buf' = [i \in 0..Size - 1 |-> IF i < len - Rem THEN put + 1 + i ELSE buf[i]]
    /\ wpc' = "publish"
    /\ UNCHANGED <<WrOff, RdOff, Flags, len, left, status, reader, put, taken, got>>

Wrap ==
    /\ wpc = "wrap"
    /\ buf' = [i \in 0..Size - 1 |-> IF i < len - Rem THEN put + 1 + Rem + i ELSE buf[i]]
    /\ wpc' = "publish"
    /\ UNCHANGED <<WrOff, RdOff, Flags, len, left, status, reader, put, taken, got>>

NewWrOff == IF Rem > len THEN WrOff + len ELSE len - Rem

Publish ==
    /\ wpc = "publish"
    /\ WrOff' = NewWrOff
    /\ put' = put + len
    /\ status' = status + len
    /\ wpc' = IF left = 0 THEN "idle" ELSE "block"
    /\ UNCHANGED <<buf, RdOff, Flags, len, left, reader, taken, got>>

-----------------------------------------------------------------------------
(* The reader: SEGGER_RTT_ReadNoLock.                                      *)

Read(n) ==
    /\ rpc = "idle"
    /\ rd' = RdOff /\ wr' = WrOff
    /\ room' = n
    /\ chunk' = <<>>
    /\ rpc' = IF RdOff > WrOff THEN "first" ELSE "rest"
    /\ UNCHANGED <<ring, RdOff, Flags, writer, put, taken, got>>

\* m bytes are copied from rd on.
Fetch(m) ==
    /\ chunk' = [i \in 1..Len(chunk) + m |->
                   IF i <= Len(chunk) THEN chunk[i] ELSE buf[rd + i - Len(chunk) - 1]]
    /\ room' = room - m

WrapRd(off) == IF off = Size THEN 0 ELSE off

ReadFirst ==
    /\ rpc = "first"
    /\ LET m == Least(Size - rd, room)
       IN Fetch(m) /\ rd' = WrapRd(rd + m)
    /\ rpc' = "rest"
    /\ UNCHANGED <<ring, RdOff, Flags, writer, wr, put, taken, got>>

ReadRest ==
    /\ rpc = "rest"
    /\ LET m == Least(Sub(wr, rd), room)
       IN Fetch(m) /\ rd' = rd + m
    /\ rpc' = "done"
    /\ UNCHANGED <<ring, RdOff, Flags, writer, wr, put, taken, got>>

\* Fault: the bytes are released only when the caller's buffer is full.
ReadDone_WhenFull ==
    /\ rpc = "done"
    /\ IF room = 0
          THEN RdOff' = rd /\ taken' = taken + Len(chunk) /\ got' = chunk
          ELSE UNCHANGED <<RdOff, taken, got>>
    /\ rpc' = "idle"
    /\ UNCHANGED <<ring, Flags, writer, rd, wr, room, chunk, put>>

\* The bytes are released, when there are any.
ReadDone ==
    /\ rpc = "done"
    /\ IF Len(chunk) > 0
          THEN RdOff' = rd /\ taken' = taken + Len(chunk) /\ got' = chunk
          ELSE UNCHANGED <<RdOff, taken, got>>
    /\ rpc' = "idle"
    /\ UNCHANGED <<ring, Flags, writer, rd, wr, room, chunk, put>>

-----------------------------------------------------------------------------
\* _DoInit
Init ==
    /\ buf = [i \in 0..Size - 1 |-> 0] /\ WrOff = 0 /\ RdOff = 0 /\ Flags = "SKIP"
    /\ wpc = "idle" /\ len = 0 /\ left = 0 /\ status = 0
    /\ rpc = "idle" /\ rd = 0 /\ wr = 0 /\ room = 0 /\ chunk = <<>>
    /\ put = 0 /\ taken = 0 /\ got = <<>>

Copying == Block \/ Copy \/ Wrap \/ Publish
Reading == (\E n \in 1..MaxLen : Read(n)) \/ ReadFirst \/ ReadRest \/ ReadDone

Next ==
    \/ \E mode \in Modes : SetFlags(mode)
    \/ \E n \in 1..MaxLen : Write(n)
    \/ Copying
    \/ Reading

Spec == Init /\ [][Next]_vars

\* The writer does not stop inside a call; the reader polls: __get and __reads
\* every 50 ms, and the probe.
LiveSpec == Spec /\ WF_vars(Copying) /\ WF_vars(Reading)

-----------------------------------------------------------------------------
\* Type invariant; the offsets stay inside the buffer.
TypeOK ==
    /\ buf \in [0..Size - 1 -> Nat]
    /\ WrOff \in 0..Size - 1 /\ RdOff \in 0..Size - 1 /\ rd \in 0..Size - 1 /\ wr \in 0..Size - 1
    /\ Flags \in Modes
    /\ wpc \in {"idle", "block", "copy", "wrap", "publish"}
    /\ rpc \in {"idle", "first", "rest", "done"}
    /\ len \in Nat /\ left \in Nat /\ status \in Nat /\ room \in Nat
    /\ chunk \in Seq(Nat) /\ got \in Seq(Nat)
    /\ put \in Nat /\ taken \in Nat

\* Equal offsets mean an empty ring, never a full one, although the space was
\* computed from an offset the reader has moved since.
EqualMeansEmpty == WrOff = RdOff <=> put = taken

Q == INSTANCE ByteQueue WITH Capacity <- Size - 1

\* The ring is a queue: no byte is lost, repeated, reordered or taken before it
\* is written, at any wrap-around and for any interleaving with the probe.
ImplementsQueue == Q!Spec

\* Every published byte is read.
BytesArrive == \A k \in 1..MaxBytes : put >= k ~> taken >= k

\* A blocking write ends, with all its bytes: the reader makes room.
WriteEnds == wpc # "idle" ~> wpc = "idle" /\ left = 0

=============================================================================

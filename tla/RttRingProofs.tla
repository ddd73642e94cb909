---------------------------- MODULE RttRingProofs ----------------------------
(***************************************************************************)
(* The ring of RttRing is a bounded queue, for every size, mode and length *)
(* of the reads and writes.                                                *)
(***************************************************************************)
EXTENDS RttRing, TLAPS

Fill == put - taken

\* The position k bytes after off.
At(off, k) == IF off + k < Size THEN off + k ELSE off + k - Size

\* The offsets are as far apart as the bytes in the ring, and never a full turn.
Apart ==
    /\ taken <= put
    /\ Fill <= Size - 1
    /\ WrOff = At(RdOff, Fill)

\* The unread bytes are in the ring, in order.
Stored == \A k \in 0..Size - 1 : k < Fill => buf[At(RdOff, k)] = taken + k + 1

\* The bytes being written fit beside the unread ones, and are in place when the
\* write offset is moved.
Pending ==
    /\ wpc \in {"copy", "wrap", "publish"} => Fill + len <= Size - 1
    /\ wpc = "wrap" => Rem <= len /\ \A k \in 0..Size - 1 : k < Rem => buf[WrOff + k] = put + k + 1
    /\ wpc = "publish" => \A k \in 0..Size - 1 : k < len => buf[At(WrOff, k)] = put + k + 1

\* The number of unread bytes the reader's snapshot of WrOff stands for.
Seen == IF wr >= RdOff THEN wr - RdOff ELSE wr - RdOff + Size

\* What the reader has copied is the first of the unread bytes.
Fetched ==
    rpc # "idle" =>
        /\ Len(chunk) <= Seen /\ Seen <= Fill
        /\ rd = At(RdOff, Len(chunk))
        /\ \A i \in 1..Len(chunk) : chunk[i] = taken + i
        /\ rpc = "first" => Len(chunk) = 0 /\ wr < rd
        /\ rpc = "rest" => rd <= wr \/ room = 0

IInv == TypeOK /\ Apart /\ Stored /\ Pending /\ Fetched

-----------------------------------------------------------------------------

\* The start of an empty ring.
LEMMA InitInv == Init => IInv
  BY RingAssumption DEF Init, IInv, TypeOK, Modes, Apart, Stored, Pending, Fetched, Fill, At, Rem

\* The two formulas of the free space agree with the bytes in the ring.
LEMMA Space ==
    ASSUME TypeOK, Apart
    PROVE  Avail = Size - 1 - Fill
  BY RingAssumption DEF TypeOK, Apart, Avail, Fill, At

-----------------------------------------------------------------------------
(* The writer.                                                             *)

\* The mode takes no part in the invariant.
LEMMA SetFlagsStep ==
    ASSUME IInv, NEW mode \in Modes, SetFlags(mode)
    PROVE  IInv'
  BY DEF SetFlags, ring, writer, reader, IInv, TypeOK, Apart, Stored, Pending, Fetched,
         Fill, At, Rem, Seen

\* A call only decides how many bytes it writes, and they fit.
LEMMA WriteStep ==
    ASSUME IInv, NEW n \in 1..MaxLen, Write(n)
    PROVE  IInv'
  <1>1. Avail = Size - 1 - Fill
    BY Space DEF IInv
  <1>2. Fill \in 0..Size - 1 /\ wpc = "idle" /\ left \in Nat /\ len \in Nat
    BY RingAssumption DEF IInv, Write, TypeOK, Apart, Fill
  <1>3. /\ len' \in Nat /\ left' \in Nat
        /\ wpc' \in {"idle", "block"} \/ (wpc' = "copy" /\ len' <= Avail)
    <2>1. CASE Flags = "SKIP" /\ Avail < n
      BY <1>1, <1>2, <2>1 DEF Write
    <2>2. CASE Flags = "SKIP" /\ Avail >= n
      BY <1>1, <1>2, <2>2 DEF Write
    <2>3. CASE Flags = "TRIM"
      BY <1>1, <1>2, <2>3, RingAssumption DEF Write, Least
    <2>4. CASE Flags = "BLOCK"
      BY <1>2, <2>4 DEF Write
    <2> QED
      BY <1>1, <1>2, <2>1, <2>2, <2>3, <2>4, RingAssumption DEF IInv, TypeOK, Modes
  <1>4. UNCHANGED <<buf, WrOff, RdOff, Flags, rpc, rd, wr, room, chunk, put, taken, got>> /\ status' = 0
    BY DEF Write, ring, reader
  <1>5. TypeOK'
    BY <1>3, <1>4 DEF IInv, TypeOK
  <1>6. Apart' /\ Stored'
    BY <1>4 DEF IInv, Apart, Stored, Fill, At
  <1>7. Pending'
    BY <1>1, <1>2, <1>3, <1>4, RingAssumption DEF Pending, Fill
  <1>8. Fetched'
    BY <1>4 DEF IInv, Fetched, Seen, Fill, At
  <1> QED
    BY <1>5, <1>6, <1>7, <1>8 DEF IInv

\* So does a round of a blocking write.
LEMMA BlockStep ==
    ASSUME IInv, Block
    PROVE  IInv'
  <1>1. Avail = Size - 1 - Fill
    BY Space DEF IInv
  <1>2. len' \in Nat /\ left' \in Nat /\ len' <= Avail
    <2>1. Avail \in Nat /\ Rem \in Nat /\ left \in Nat
      BY <1>1, RingAssumption DEF IInv, TypeOK, Apart, Fill, Rem
    <2> QED
      BY <2>1 DEF Block, Least
  <1>3. TypeOK'
    BY <1>2 DEF IInv, Block, TypeOK, ring, reader
  <1>4. Apart' /\ Stored'
    BY DEF IInv, Block, Apart, Stored, Fill, At, ring
  <1>5. Pending'
    BY <1>1, <1>2, RingAssumption DEF IInv, Block, TypeOK, Apart, Pending, Fill, ring
  <1>6. Fetched'
    BY DEF IInv, Block, Fetched, Seen, Fill, At, ring, reader
  <1> QED
    BY <1>3, <1>4, <1>5, <1>6 DEF IInv

\* Copying up to the end of the buffer touches no unread byte.
LEMMA CopyStep ==
    ASSUME IInv, Copy
    PROVE  IInv'
  <1> USE RingAssumption DEF IInv, TypeOK, Apart
  <1>1. TypeOK'
    <2>1. \A i \in 0..Size - 1 : buf[i] \in Nat /\ (WrOff <= i => put + 1 + i - WrOff \in Nat)
      BY DEF At, Fill
    <2>2. buf' \in [0..Size - 1 -> Nat]
      BY <2>1 DEF Copy
    <2> QED
      BY <2>2 DEF Copy, reader
  <1>2. Apart'
    BY DEF Copy, Fill, At
  <1>3. Stored'
    BY DEF Copy, Stored, Pending, Fill, At
  <1>4. Pending'
    <2>1. Fill + len <= Size - 1 /\ (Fill + len <= Size - 1)'
      BY DEF Copy, Pending, Fill
    <2>2. \A k \in 0..Size - 1 : k < len /\ WrOff + k < Size => buf'[WrOff + k] = put + k + 1
      <3> SUFFICES ASSUME NEW k \in 0..Size - 1, k < len, WrOff + k < Size
                   PROVE  buf'[WrOff + k] = put + k + 1
        OBVIOUS
      <3>1. WrOff + k \in 0..Size - 1 /\ WrOff <= WrOff + k /\ WrOff + k < WrOff + len
        BY DEF At, Fill
      <3>2. buf'[WrOff + k] = put + 1 + (WrOff + k) - WrOff
        BY <3>1 DEF Copy
      <3> QED
        BY <3>2
    <2>3. CASE Rem > len
      <3>1. wpc' = "publish"
        BY <2>3 DEF Copy
      <3>2. \A k \in 0..Size - 1 : k < len => WrOff + k < Size
        BY <2>3 DEF Rem
      <3> QED
        BY <2>1, <2>2, <3>1, <3>2 DEF Copy, Pending, At
    <2>4. CASE Rem <= len
      <3>1. wpc' = "wrap"
        BY <2>4 DEF Copy, Rem
      <3>2. \A k \in 0..Size - 1 : k < Rem => k < len /\ WrOff + k < Size
        BY <2>4 DEF Rem
      <3> QED
        BY <2>1, <2>2, <2>4, <3>1, <3>2 DEF Copy, Pending, Rem
    <2> QED
      BY <2>3, <2>4 DEF Rem
  <1>5. Fetched'
    BY DEF Copy, Fetched, Seen, Fill, At, reader
  <1> QED
    BY <1>1, <1>2, <1>3, <1>4, <1>5

\* Neither does copying the rest to its start.
LEMMA WrapStep ==
    ASSUME IInv, Wrap
    PROVE  IInv'
  <1> USE RingAssumption DEF IInv, TypeOK, Apart
  <1>1. TypeOK'
    <2>1. \A i \in 0..Size - 1 : buf[i] \in Nat /\ put + 1 + Rem + i \in Nat
      BY DEF Rem, At, Fill
    <2>2. buf' \in [0..Size - 1 -> Nat]
      BY <2>1 DEF Wrap
    <2> QED
      BY <2>2 DEF Wrap, reader
  <1>2. Apart'
    BY DEF Wrap, Fill, At
  <1>3. Stored'
    BY DEF Wrap, Stored, Pending, Fill, At, Rem
  <1>4. Pending'
    <2>1. Fill + len <= Size - 1 /\ (Fill + len <= Size - 1)'
      BY DEF Wrap, Pending, Fill
    <2>2. ASSUME NEW k \in 0..Size - 1, k < len
          PROVE  buf'[At(WrOff, k)] = put + k + 1
      <3>1. CASE WrOff + k < Size
        <4>1. k < Rem /\ At(WrOff, k) = WrOff + k /\ WrOff + k >= len - Rem
          BY <2>1, <3>1 DEF Rem, At, Fill
        <4>2. WrOff + k \in 0..Size - 1 /\ ~(WrOff + k < len - Rem)
          BY <3>1, <4>1 DEF Rem, At, Fill
        <4>3. buf'[WrOff + k] = buf[WrOff + k]
          BY <4>2 DEF Wrap
        <4>4. buf[WrOff + k] = put + k + 1
          BY <4>1 DEF Wrap, Pending
        <4> QED
          BY <4>1, <4>3, <4>4
      <3>2. CASE WrOff + k >= Size
        <4>1. At(WrOff, k) = k - Rem /\ k - Rem \in 0..Size - 1 /\ k - Rem < len - Rem
          BY <2>1, <2>2, <3>2 DEF Rem, At, Fill
        <4>2. buf'[k - Rem] = put + 1 + Rem + (k - Rem)
          BY <4>1 DEF Wrap
        <4> QED
          BY <4>1, <4>2 DEF Rem
      <3> QED
        BY <3>1, <3>2
    <2> QED
      BY <2>1, <2>2 DEF Wrap, Pending, At
  <1>5. Fetched'
    BY DEF Wrap, Fetched, Seen, Fill, At, reader
  <1> QED
    BY <1>1, <1>2, <1>3, <1>4, <1>5

\* Moving the write offset makes the copied bytes unread ones.
LEMMA PublishStep ==
    ASSUME IInv, Publish
    PROVE  IInv'
  <1> USE RingAssumption DEF IInv, TypeOK, Apart
  <1>1. TypeOK'
    <2>1. WrOff' \in 0..Size - 1
      <3>1. Fill + len <= Size - 1 /\ Fill \in Nat
        BY DEF Publish, Pending, Fill
      <3> QED
        BY <3>1 DEF Publish, NewWrOff, Rem, At, Fill
    <2> QED
      BY <2>1 DEF Publish, reader
  <1>2. Apart'
    BY DEF Publish, NewWrOff, Rem, Pending, Fill, At
  <1>3. Stored'
    <2> SUFFICES ASSUME NEW k \in 0..Size - 1, k < Fill'
                 PROVE  buf[At(RdOff, k)] = taken + k + 1
      BY DEF Publish, Stored, At, Fill
    <2>1. CASE k < Fill
      BY <2>1 DEF Stored
    <2>2. CASE k >= Fill
      <3>1. k - Fill \in 0..Size - 1 /\ k - Fill < len
        BY <2>2 DEF Publish, Fill
      <3>2. buf[At(WrOff, k - Fill)] = put + (k - Fill) + 1
        BY <3>1 DEF Publish, Pending
      <3>3. At(WrOff, k - Fill) = At(RdOff, k)
        BY <2>2 DEF At, Fill
      <3> QED
        BY <3>2, <3>3 DEF Fill
    <2> QED
      BY <2>1, <2>2 DEF Fill
  <1>4. Pending'
    BY DEF Publish, Pending
  <1>5. Fetched'
    BY DEF Publish, Fetched, Seen, Fill, At, reader
  <1> QED
    BY <1>1, <1>2, <1>3, <1>4, <1>5

-----------------------------------------------------------------------------
(* The reader.                                                             *)

\* The snapshot stands for the unread bytes of that moment.
LEMMA ReadStep ==
    ASSUME IInv, NEW n \in 1..MaxLen, Read(n)
    PROVE  IInv'
  <1> USE RingAssumption DEF IInv, TypeOK, Apart
  <1>1. TypeOK'
    BY DEF Read, ring, writer
  <1>2. Apart' /\ Stored' /\ Pending'
    BY DEF Read, Stored, Pending, Fill, At, Rem, ring, writer
  <1>3. Fetched'
    BY DEF Read, Fetched, Seen, Fill, At
  <1> QED
    BY <1>1, <1>2, <1>3

\* Bytes fetched from the position after those already copied continue them.
LEMMA FetchNext ==
    ASSUME IInv, rpc # "idle", NEW m \in Nat, Fetch(m),
           Len(chunk) + m <= Fill, rd + m <= Size
    PROVE  /\ chunk' \in Seq(Nat)
           /\ Len(chunk') = Len(chunk) + m
           /\ \A i \in 1..Len(chunk) + m : chunk'[i] = taken + i
  <1> USE RingAssumption DEF IInv, TypeOK, Apart
  <1> DEFINE c == Len(chunk)
  <1>0. c \in Nat
    OBVIOUS
  <1>1. \A i \in 1..Len(chunk) + m :
           IF i <= Len(chunk) THEN chunk[i] = taken + i
                              ELSE buf[rd + i - Len(chunk) - 1] = taken + i
    <2> SUFFICES ASSUME NEW i \in 1..Len(chunk) + m, i > Len(chunk)
                 PROVE  buf[rd + i - Len(chunk) - 1] = taken + i
      <3>1. \A i \in 1..c : chunk[i] = taken + i
        BY DEF Fetched
      <3> HIDE DEF IInv, TypeOK, Apart
      <3> QED
        BY <1>0, <3>1
    <2>1. i - 1 \in 0..Size - 1 /\ i - 1 < Fill
      BY <1>0 DEF Fill
    <2>2. At(RdOff, i - 1) = rd + i - Len(chunk) - 1
      <3>1. rd = At(RdOff, c) /\ i > c /\ i <= c + m /\ rd + m <= Size /\ c <= Size - 1
        BY <1>0 DEF Fetched, Fill
      <3> HIDE DEF c
      <3>2. At(RdOff, i - 1) = rd + i - c - 1
        BY <1>0, <2>1, <3>1 DEF At
      <3> QED
        BY <3>2 DEF c
    <2>3. buf[At(RdOff, i - 1)] = taken + (i - 1) + 1
      BY <2>1 DEF Stored
    <2>4. taken + (i - 1) + 1 = taken + i
      BY <1>0
    <2> QED
      BY <2>2, <2>3, <2>4
  <1>2. chunk' = [i \in 1..Len(chunk) + m |->
                    IF i <= Len(chunk) THEN chunk[i] ELSE buf[rd + i - Len(chunk) - 1]]
    BY DEF Fetch
  <1>3. \A i \in 1..Len(chunk) + m : chunk'[i] = taken + i
    BY <1>1, <1>2
  <1>4. chunk' = [i \in 1..Len(chunk) + m |-> taken + i]
    BY <1>1, <1>2
  <1> QED
    BY <1>3, <1>4

\* The bytes up to the end of the buffer.
LEMMA ReadFirstStep ==
    ASSUME IInv, ReadFirst
    PROVE  IInv'
  <1> USE RingAssumption
  <1> DEFINE m == Least(Size - rd, room)
  <1>1. /\ m \in Nat /\ rd + m <= Size /\ m <= room
        /\ m = Size - rd \/ m = room
        /\ Len(chunk) = 0 /\ rd = RdOff
        /\ m <= Seen /\ Seen <= Fill
    BY DEF IInv, TypeOK, Apart, ReadFirst, Fetched, Seen, Fill, At, Least
  <1>2. /\ chunk' \in Seq(Nat) /\ Len(chunk') = m
        /\ \A i \in 1..m : chunk'[i] = taken + i
    <2>1. Fetch(m) /\ rpc # "idle" /\ Len(chunk) + m = m /\ m <= Fill
      <3>1. Seen \in Int /\ Fill \in Int
        BY DEF IInv, TypeOK, Seen, Fill
      <3>2. Fetch(m) /\ rpc # "idle"
        BY DEF ReadFirst
      <3> HIDE DEF m
      <3> QED
        BY <1>1, <3>1, <3>2
    <2> HIDE DEF m
    <2> QED
      BY <2>1, <1>1, FetchNext
  <1>3. /\ rd' = (IF rd + m = Size THEN 0 ELSE rd + m) /\ room' = room - m
        /\ rpc = "first" /\ rpc' = "rest"
        /\ UNCHANGED <<buf, WrOff, RdOff, Flags, wpc, len, left, status, wr, put, taken, got>>
    BY DEF ReadFirst, Fetch, WrapRd, ring, writer
  <1> HIDE DEF m
  <1>4. TypeOK'
    BY <1>1, <1>2, <1>3 DEF IInv, TypeOK
  <1>5. Apart' /\ Stored' /\ Pending'
    BY <1>3 DEF IInv, Apart, Stored, Pending, Fill, At, Rem
  <1>6. Fetched'
    BY <1>1, <1>2, <1>3 DEF IInv, TypeOK, Apart, Fetched, Seen, Fill, At
  <1> QED
    BY <1>4, <1>5, <1>6 DEF IInv

\* The bytes up to the snapshot; when the caller's buffer is already full the
\* difference of the offsets may wrap, and is not used.
LEMMA ReadRestStep ==
    ASSUME IInv, ReadRest
    PROVE  IInv'
  <1> USE RingAssumption
  <1> DEFINE m == Least(Sub(wr, rd), room)
  <1>1. /\ m \in Nat /\ m <= room
        /\ rd + m <= wr \/ m = 0
        /\ Len(chunk) + m <= Seen /\ Seen <= Fill
    <2> DEFINE c == Len(chunk)
    <2>1. /\ c \in Nat /\ c <= Seen /\ Seen <= Fill /\ Fill <= Size - 1
          /\ rd = At(RdOff, c) /\ (rd <= wr \/ room = 0)
          /\ rd \in 0..Size - 1 /\ wr \in 0..Size - 1 /\ RdOff \in 0..Size - 1 /\ room \in Nat
          /\ put \in Nat /\ taken \in Nat
      BY DEF IInv, TypeOK, Apart, ReadRest, Fetched
    <2> HIDE DEF c
    <2>2. /\ m \in Nat /\ m <= room /\ (rd + m <= wr \/ m = 0)
      BY <2>1 DEF Least, Sub
    <2>3. c + m <= Seen
      BY <2>1, <2>2 DEF Seen, At, Fill
    <2> QED
      BY <2>1, <2>2, <2>3 DEF c
  <1>2. /\ chunk' \in Seq(Nat) /\ Len(chunk') = Len(chunk) + m
        /\ \A i \in 1..Len(chunk) + m : chunk'[i] = taken + i
    <2>1. Fetch(m) /\ rpc # "idle" /\ rd + m <= Size /\ Len(chunk) + m <= Fill
      <3>1. Len(chunk) \in Nat /\ rd \in 0..Size - 1 /\ wr \in 0..Size - 1 /\ RdOff \in 0..Size - 1
            /\ put \in Nat /\ taken \in Nat
        BY DEF IInv, TypeOK
      <3>2. Fetch(m) /\ rpc # "idle"
        BY DEF ReadRest
      <3> HIDE DEF m
      <3> QED
        BY <1>1, <3>1, <3>2 DEF Fill, Seen
    <2> HIDE DEF m
    <2> QED
      BY <2>1, <1>1, FetchNext
  <1>3. /\ rd' = rd + m /\ room' = room - m
        /\ rpc = "rest" /\ rpc' = "done"
        /\ UNCHANGED <<buf, WrOff, RdOff, Flags, wpc, len, left, status, wr, put, taken, got>>
    BY DEF ReadRest, Fetch, ring, writer
  <1> HIDE DEF m
  <1>4. TypeOK'
    BY <1>1, <1>2, <1>3 DEF IInv, TypeOK
  <1>5. Apart' /\ Stored' /\ Pending'
    BY <1>3 DEF IInv, Apart, Stored, Pending, Fill, At, Rem
  <1>6. Fetched'
    <2>1. /\ Len(chunk) \in Nat /\ rd = At(RdOff, Len(chunk))
          /\ rd \in 0..Size - 1 /\ wr \in 0..Size - 1 /\ RdOff \in 0..Size - 1
      BY <1>3 DEF IInv, TypeOK, Fetched
    <2>2. rd + m = At(RdOff, Len(chunk) + m)
      BY <1>1, <2>1 DEF At
    <2> QED
      BY <1>1, <1>2, <1>3, <2>2 DEF Fetched, Seen, Fill, At
  <1> QED
    BY <1>4, <1>5, <1>6 DEF IInv

\* The copied bytes are released; the unread ones start after them.
LEMMA ReadDoneStep ==
    ASSUME IInv, ReadDone
    PROVE  IInv'
  <1> USE RingAssumption
  <1> DEFINE c == Len(chunk)
  <1>1. /\ c \in Nat /\ c <= Fill /\ Fill <= Size - 1 /\ rd = At(RdOff, c)
        /\ put \in Nat /\ taken \in Nat /\ RdOff \in 0..Size - 1 /\ rd \in 0..Size - 1
    <2>1. c \in Nat /\ rpc # "idle"
      BY DEF IInv, TypeOK, ReadDone
    <2>2. c <= Fill /\ rd = At(RdOff, c)
      <3>1. c <= Seen /\ Seen <= Fill /\ rd = At(RdOff, c)
        BY <2>1 DEF IInv, Fetched
      <3>2. Seen \in Int /\ Fill \in Int
        BY DEF IInv, TypeOK, Seen, Fill
      <3> HIDE DEF c
      <3> QED
        BY <2>1, <3>1, <3>2
    <2> QED
      BY <2>1, <2>2 DEF IInv, TypeOK, Apart
  <1>2. /\ RdOff' = At(RdOff, c) /\ taken' = taken + c /\ (got' = got \/ got' = chunk)
    <2>1. CASE c = 0
      BY <1>1, <2>1 DEF ReadDone, At
    <2>2. CASE c > 0
      BY <1>1, <2>2 DEF ReadDone
    <2> QED
      BY <1>1, <2>1, <2>2
  <1>3. /\ rpc' = "idle"
        /\ UNCHANGED <<buf, WrOff, Flags, wpc, len, left, status, rd, wr, room, chunk, put>>
    BY DEF ReadDone, ring, writer
  <1> HIDE DEF c
  <1>4. TypeOK'
    BY <1>1, <1>2, <1>3 DEF IInv, TypeOK
  <1>5. Apart'
    BY <1>1, <1>2, <1>3 DEF IInv, Apart, Fill, At
  <1>6. Stored'
    <2> SUFFICES ASSUME NEW k \in 0..Size - 1, k < Fill - c
                 PROVE  buf[At(At(RdOff, c), k)] = taken + c + k + 1
      <3>1. Fill' = Fill - c
        BY <1>1, <1>2, <1>3 DEF Fill
      <3>2. \A k \in Int : At(RdOff, k)' = At(RdOff', k)
        BY DEF At
      <3> QED
        BY <1>2, <1>3, <3>1, <3>2 DEF Stored
    <2>1. k + c \in 0..Size - 1 /\ k + c < Fill
      BY <1>1 DEF Fill
    <2>2. At(At(RdOff, c), k) = At(RdOff, k + c)
      BY <1>1, <2>1 DEF At
    <2>3. buf[At(RdOff, k + c)] = taken + (k + c) + 1
      BY <2>1 DEF IInv, Stored
    <2> QED
      BY <1>1, <2>2, <2>3
  <1>7. Pending'
    <2>1. len \in Nat
      BY DEF IInv, TypeOK
    <2>2. wpc \in {"copy", "wrap", "publish"} => Fill' + len <= Size - 1
      <3>1. wpc \in {"copy", "wrap", "publish"} => Fill + len <= Size - 1
        BY DEF IInv, Pending
      <3> QED
        BY <1>1, <1>2, <1>3, <2>1, <3>1 DEF Fill
    <2> QED
      BY <1>3, <2>2 DEF IInv, Pending, Rem, At
  <1>8. Fetched'
    BY <1>3 DEF Fetched
  <1> QED
    BY <1>4, <1>5, <1>6, <1>7, <1>8 DEF IInv

-----------------------------------------------------------------------------
(* The theorems.                                                           *)

\* IInv is inductive: it relates the offsets, the bytes in the ring and what the
\* writer and the reader hold in their locals, at every point of their calls.
THEOREM RingInvariance == Spec => []IInv
  <1>1. IInv /\ [Next]_vars => IInv'
    <2> SUFFICES ASSUME IInv, [Next]_vars
                 PROVE  IInv'
      OBVIOUS
    <2>0. CASE \E mode \in Modes : SetFlags(mode)
      BY <2>0, SetFlagsStep
    <2>1. CASE \E n \in 1..MaxLen : Write(n)
      BY <2>1, WriteStep
    <2>2. CASE Copying
      BY <2>2, BlockStep, CopyStep, WrapStep, PublishStep DEF Copying
    <2>3. CASE Reading
      BY <2>3, ReadStep, ReadFirstStep, ReadRestStep, ReadDoneStep DEF Reading
    <2>4. CASE UNCHANGED vars
      BY <2>4 DEF vars, ring, writer, reader, IInv, TypeOK, Apart, Stored, Pending, Fetched,
                  Fill, At, Rem, Seen
    <2> QED
      BY <2>0, <2>1, <2>2, <2>3, <2>4 DEF Next
  <1> QED
    BY <1>1, InitInv, PTL DEF Spec

\* The offsets of SEGGER_RTT_WriteNoLock and _ReadNoLock never leave the buffer.
THEOREM RingTyped == Spec => []TypeOK
  BY RingInvariance, PTL DEF IInv

\* Equal offsets mean an empty ring, for every size.
THEOREM FullIsNotEmpty == Spec => []EqualMeansEmpty
  <1>1. IInv => EqualMeansEmpty
    BY RingAssumption DEF IInv, TypeOK, Apart, EqualMeansEmpty, Fill, At
  <1> QED
    BY <1>1, RingInvariance, PTL

\* The ring is a bounded queue: every step of the writer and of the reader is a
\* step of ByteQueue or leaves it as it is.
THEOREM RingRefinement == Spec => ImplementsQueue
  <1>1. Init => Q!Init
    BY DEF Init, Q!Init
  <1>2. IInv /\ [Next]_vars => [Q!Next]_(Q!vars)
    <2> SUFFICES ASSUME IInv, [Next]_vars
                 PROVE  Q!Next \/ UNCHANGED Q!vars
      OBVIOUS
    <2>1. CASE Publish
      <3>1. /\ len \in Nat /\ put \in Nat /\ taken \in Nat /\ taken <= put
            /\ put - taken + len <= Size - 1
        BY <2>1 DEF IInv, TypeOK, Apart, Pending, Publish, Fill
      <3>2. put' = put + len /\ UNCHANGED <<taken, got>>
        BY <2>1 DEF Publish
      <3>3. CASE len = 0
        BY <3>1, <3>2, <3>3 DEF Q!vars
      <3>4. CASE len > 0
        <4>1. len \in 1..Size - 1
          BY <3>1, <3>4, RingAssumption
        <4>2. Q!Put(len)
          BY <3>1, <3>2, RingAssumption DEF Q!Put
        <4> QED
          BY <4>1, <4>2 DEF Q!Next
      <3> QED
        BY <3>1, <3>3, <3>4
    <2>2. CASE ReadDone
      <3> DEFINE c == Len(chunk)
      <3>1. /\ c \in Nat /\ put \in Nat /\ taken \in Nat
            /\ c <= put - taken /\ put - taken <= Size - 1
        <4>1. c \in Nat /\ put \in Nat /\ taken \in Nat /\ rpc # "idle"
          BY <2>2 DEF IInv, TypeOK, ReadDone
        <4>2. c <= Seen /\ Seen <= Fill /\ Fill <= Size - 1
          BY <4>1 DEF IInv, Fetched, Apart
        <4>3. Seen \in Int
          BY RingAssumption DEF IInv, TypeOK, Seen
        <4> HIDE DEF c
        <4> QED
          BY <4>1, <4>2, <4>3, RingAssumption DEF Fill
      <3>2. CASE c > 0
        <4>1. c \in 1..Size - 1
          BY <3>1, <3>2, RingAssumption
        <4>2. taken' = taken + c /\ got' = chunk /\ UNCHANGED put
          BY <2>2, <3>2 DEF ReadDone
        <4>3. chunk = [i \in 1..c |-> taken + i]
          <5>1. chunk \in Seq(Nat) /\ \A i \in 1..c : chunk[i] = taken + i
            BY <2>2 DEF IInv, TypeOK, Fetched, ReadDone
          <5> QED
            BY <5>1
        <4>4. Q!Take(c)
          BY <3>1, <4>2, <4>3 DEF Q!Take
        <4> QED
          BY <4>1, <4>4 DEF Q!Next
      <3>3. CASE ~(c > 0)
        BY <2>2, <3>3 DEF ReadDone, Q!vars
      <3> QED
        BY <3>2, <3>3
    <2>3. CASE \/ \E mode \in Modes : SetFlags(mode)
               \/ \E n \in 1..MaxLen : Write(n)
               \/ Block \/ Copy \/ Wrap
      BY <2>3 DEF SetFlags, Write, Block, Copy, Wrap, Q!vars
    <2>4. CASE (\E n \in 1..MaxLen : Read(n)) \/ ReadFirst \/ ReadRest
      BY <2>4 DEF Read, ReadFirst, ReadRest, Q!vars
    <2>5. CASE UNCHANGED vars
      BY <2>5 DEF vars, Q!vars
    <2> QED
      BY <2>1, <2>2, <2>3, <2>4, <2>5 DEF Next, Copying, Reading
  <1> QED
    BY <1>1, <1>2, RingInvariance, PTL DEF Spec, Q!Spec, ImplementsQueue

=============================================================================

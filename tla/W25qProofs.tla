------------------------------ MODULE W25qProofs ------------------------------
(***************************************************************************)
(* The flash driver implements the byte store, for any numbers of sectors, *)
(* pages and bytes and any buffer of the SPI interface.                    *)
(***************************************************************************)
EXTENDS W25q, TLAPS

Image == [0 .. Size - 1 -> Byte]
Writing == {"read", "check", "erase", "program"}

TypeOK ==
    /\ flash \in Image /\ before \in Image
    /\ transfer \in Nat /\ inited \in BOOLEAN
    /\ pc \in Writing \cup {"idle", "answer", "wipe", "off"}
    /\ addr \in Nat /\ left \in Nat
    /\ data \in Seq(Byte) /\ buf4k \in Seq(Byte) /\ pdata \in Seq(Byte) /\ paddr \in Nat

\* What a call that writes d0 at a0 is to leave in byte x, and has left below addr.
Target(a0, d0, x) == IF a0 <= x /\ x < a0 + Len(d0) THEN d0[x - a0 + 1] ELSE before[x]
Reached(a0, d0, a, x) == IF x < a THEN Target(a0, d0, x) ELSE before[x]

\* The call that writes d0 at a0 has got to addr.
Call(a0, d0) ==
    /\ a0 \in 0 .. Size - 1 /\ d0 \in Store!Runs /\ a0 + Len(d0) <= Size
    /\ a0 <= addr /\ Len(data) > 0 /\ addr + Len(data) = a0 + Len(d0)
    /\ \A i \in 1 .. Len(data) : data[i] = d0[addr - a0 + i]

\* Before a sector is touched: written up to addr, and buf_4k is the sector.
Ahead(a0, d0) ==
    /\ \A x \in 0 .. Size - 1 : flash[x] = Reached(a0, d0, addr, x)
    /\ pc # "read" => /\ Len(buf4k) = SectorSize
                      /\ \A i \in 1 .. SectorSize : buf4k[i] = flash[Base(addr) + i - 1]

\* While its pages are programmed: the bytes still to come are erased, the others
\* are as the call is to leave them.
Within(a0, d0) ==
    LET end == addr + Remain(addr, data)
    IN  /\ Base(addr) <= paddr /\ Len(pdata) > 0
        /\ paddr + Len(pdata) <= Base(addr) + SectorSize
        /\ \A i \in 1 .. Len(pdata) : pdata[i] = Reached(a0, d0, end, paddr + i - 1)
        /\ \A x \in 0 .. Size - 1 :
             flash[x] = IF paddr <= x /\ x < paddr + Len(pdata)
                           THEN Erased ELSE Reached(a0, d0, end, x)

WriteInv ==
    pc \in Writing =>
        \E a0, d0 : /\ Call(a0, d0)
                    /\ pc # "program" => Ahead(a0, d0)
                    /\ pc = "program" => Within(a0, d0)

\* Between the calls, and in those that do not write.
QuietInv ==
    /\ pc \in {"idle", "answer", "off"} => before = flash
    /\ pc # "answer" => out = << >>
    /\ pc \in {"check", "erase", "program"} => CanRead(SectorSize)
    /\ pc = "read" => CanRead(SectorSize) \/ flash = before
    /\ pc = "wipe" => \E s \in Nat : addr = s * SectorSize /\ s + left <= Sectors

IInv == TypeOK /\ WriteInv /\ QuietInv

-----------------------------------------------------------------------------
(* Sectors, pages and bytes.                                               *)

LEMMA DivMod ==
    ASSUME NEW S \in Nat \ {0}, NEW a \in Nat
    PROVE  /\ a \div S \in Nat /\ (a \div S) * S \in Nat
           /\ (a \div S) * S <= a /\ a < (a \div S) * S + S
           /\ a % S \in Nat /\ a % S = a - (a \div S) * S /\ a % S < S
OBVIOUS

LEMMA DivUnique ==
    ASSUME NEW S \in Nat \ {0}, NEW q \in Nat, NEW a \in Nat, q * S <= a, a < q * S + S
    PROVE  a \div S = q
OBVIOUS

\* What starts before the end of n blocks of S ends within them.
LEMMA BlockEnds ==
    ASSUME NEW S \in Nat \ {0}, NEW n \in Nat, NEW q \in Nat, q * S < n * S
    PROVE  q < n /\ q * S + S <= n * S
<1>1. q < n
  <2>1. SUFFICES ASSUME n <= q PROVE FALSE  OBVIOUS
  <2>2. n * S <= q * S  BY <2>1
  <2>. QED  BY <2>2
<1>2. (q + 1) * S <= n * S  BY <1>1
<1>3. (q + 1) * S = q * S + S  OBVIOUS
<1>. QED  BY Zenon, <1>1, <1>2, <1>3

\* The wrap within a page is not felt before its end.
LEMMA NoWrap ==
    ASSUME NEW P \in Nat \ {0}, NEW a \in Nat, NEW j \in Nat, (a % P) + j < P
    PROVE  (a \div P) * P + ((a + j) % P) = a + j
<1>. DEFINE q == a \div P
<1>1. a % P = a - q * P /\ q \in Nat  OBVIOUS
<1>2. (a + j) \div P = q
  <2>1. q * P <= a + j /\ a + j < q * P + P  BY <1>1
  <2>. HIDE DEF q
  <2>. QED  BY <1>1, <2>1, DivUnique
<1>3. (a + j) % P = (a + j) - ((a + j) \div P) * P  OBVIOUS
<1>. QED  BY <1>1, <1>2, <1>3

LEMMA MinTwo ==
    ASSUME NEW m \in Int, NEW n \in Int
    PROVE  Min({m, n}) = IF m <= n THEN m ELSE n
<1>1. \E x \in {m, n} : \A y \in {m, n} : x <= y  OBVIOUS
<1>. QED  BY <1>1 DEF Min

LEMMA Sizes ==
    /\ SectorSize \in Nat \ {0} /\ PageSize \in Nat \ {0} /\ Sectors \in Nat \ {0}
    /\ MaxLen \in Nat \ {0} /\ Transfers \subseteq Nat
    /\ Size = Sectors * SectorSize /\ Size \in Nat /\ Size > 0
<1>1. /\ SectorSize \in Nat \ {0} /\ PageSize \in Nat \ {0} /\ Sectors \in Nat \ {0}
      /\ MaxLen \in Nat \ {0} /\ Transfers \subseteq Nat
  BY Zenon, FlashAssumption
<1>2. Sectors * SectorSize \in Nat /\ Sectors * SectorSize > 0  BY <1>1
<1>. QED  BY Zenon, <1>1, <1>2 DEF Size

\* The sector of an address lies in the chip.
LEMMA SectorFacts ==
    ASSUME NEW a \in 0 .. Size - 1
    PROVE  /\ SectorOf(a) \in 0 .. Sectors - 1 /\ Base(a) = SectorOf(a) * SectorSize
           /\ Base(a) \in Nat /\ Base(a) <= a /\ a < Base(a) + SectorSize
           /\ Base(a) + SectorSize <= Size /\ Offset(a) = a - Base(a)
<1>. DEFINE q == a \div SectorSize
<1>1. a \in Nat /\ a < Sectors * SectorSize  BY Sizes
<1>2. /\ q \in Nat /\ q * SectorSize \in Nat /\ q * SectorSize <= a /\ a < q * SectorSize + SectorSize
      /\ a % SectorSize = a - q * SectorSize
  BY Zenon, <1>1, DivMod, Sizes
<1>. HIDE DEF q
<1>3. q < Sectors /\ q * SectorSize + SectorSize <= Sectors * SectorSize
  <2>1. q * SectorSize < Sectors * SectorSize  BY <1>1, <1>2, Sizes
  <2>. QED  BY Zenon, <1>2, <2>1, BlockEnds, Sizes
<1>4. SectorOf(a) = q /\ Base(a) = q * SectorSize /\ Offset(a) = a % SectorSize
  BY Zenon DEF SectorOf, Base, Offset, q
<1>. QED  BY <1>2, <1>3, <1>4, Sizes

\* Its bytes are those whose quotient is its number.
LEMMA InSector ==
    ASSUME NEW x \in Nat, NEW q \in Nat
    PROVE  x \div SectorSize = q <=> (q * SectorSize <= x /\ x < q * SectorSize + SectorSize)
<1>1. ASSUME q * SectorSize <= x, x < q * SectorSize + SectorSize PROVE x \div SectorSize = q
  BY Zenon, <1>1, DivUnique, Sizes
<1>2. ASSUME x \div SectorSize = q PROVE q * SectorSize <= x /\ x < q * SectorSize + SectorSize
  BY Zenon, <1>2, DivMod, Sizes
<1>. QED  BY Zenon, <1>1, <1>2

LEMMA RemainFacts ==
    ASSUME NEW a \in 0 .. Size - 1, NEW d \in Seq(Byte), Len(d) > 0
    PROVE  /\ Remain(a, d) \in Nat /\ Remain(a, d) > 0 /\ Remain(a, d) <= Len(d)
           /\ a + Remain(a, d) <= Base(a) + SectorSize
           /\ Remain(a, d) = Len(d) \/ a + Remain(a, d) = Base(a) + SectorSize
<1>1. Base(a) \in Nat /\ Base(a) <= a /\ a < Base(a) + SectorSize /\ Offset(a) = a - Base(a)
      /\ a \in Nat
  BY SectorFacts
<1>2. Len(d) \in Nat /\ SectorSize - Offset(a) \in Int  BY <1>1, Sizes
<1>3. Remain(a, d) = IF Len(d) <= SectorSize - Offset(a) THEN Len(d) ELSE SectorSize - Offset(a)
  BY <1>2, MinTwo DEF Remain
<1>. QED  BY <1>1, <1>2, <1>3, Sizes

LEMMA ChunkFacts ==
    ASSUME NEW a \in Nat, NEW d \in Seq(Byte), Len(d) > 0
    PROVE  /\ Chunk(a, d) \in Nat /\ Chunk(a, d) > 0 /\ Chunk(a, d) <= Len(d)
           /\ (a % PageSize) + Chunk(a, d) <= PageSize
<1>1. a % PageSize \in Nat /\ a % PageSize < PageSize  BY Zenon, DivMod, Sizes
<1>2. Len(d) \in Nat /\ PageSize - (a % PageSize) \in Int  BY <1>1, Sizes
<1>3. Chunk(a, d) =
        IF Len(d) <= PageSize - (a % PageSize) THEN Len(d) ELSE PageSize - (a % PageSize)
  BY <1>2, MinTwo DEF Chunk
<1>. QED  BY <1>1, <1>2, <1>3, Sizes

LEMMA OverwriteFacts ==
    ASSUME NEW f \in Image, NEW a \in Nat, NEW d \in Seq(Byte)
    PROVE  /\ Overwrite(f, a, d) \in Image
           /\ \A x \in 0 .. Size - 1 :
                Overwrite(f, a, d)[x] = IF a <= x /\ x < a + Len(d) THEN d[x - a + 1] ELSE f[x]
<1>1. DOMAIN f = 0 .. Size - 1  BY Zenon DEF Image
<1>2. Overwrite(f, a, d) = [x \in 0 .. Size - 1 |->
                              IF x \in a .. (a + Len(d) - 1) THEN d[x - a + 1] ELSE f[x]]
  BY Zenon, <1>1 DEF Overwrite, Store!Overwrite
<1>3. ASSUME NEW x \in 0 .. Size - 1
      PROVE  /\ Overwrite(f, a, d)[x] = IF a <= x /\ x < a + Len(d) THEN d[x - a + 1] ELSE f[x]
             /\ Overwrite(f, a, d)[x] \in Byte
  <2>1. x \in Int /\ Len(d) \in Nat  BY Sizes
  <2>2. x \in a .. (a + Len(d) - 1) <=> (a <= x /\ x < a + Len(d))  BY <2>1
  <2>3. Overwrite(f, a, d)[x] = IF a <= x /\ x < a + Len(d) THEN d[x - a + 1] ELSE f[x]
    BY Zenon, <1>2, <2>2
  <2>4. f[x] \in Byte  BY Zenon DEF Image
  <2>5. ASSUME a <= x, x < a + Len(d) PROVE d[x - a + 1] \in Byte
    <3>1. x - a + 1 \in 1 .. Len(d)  BY <2>1, <2>5
    <3>. QED  BY <3>1
  <2>. QED  BY Zenon, <2>3, <2>4, <2>5
<1>. QED  BY Zenon, <1>2, <1>3 DEF Image

\* Within a page, programming clears the bits of its own bytes and nothing else.
LEMMA ProgramFacts ==
    ASSUME NEW f \in Image, NEW a \in Nat, NEW d \in Seq(Byte), (a % PageSize) + Len(d) <= PageSize
    PROVE  /\ Programmed(f, a, d) \in Image
           /\ \A x \in 0 .. Size - 1 :
                Programmed(f, a, d)[x] =
                  IF a <= x /\ x < a + Len(d) THEN f[x] \cap d[x - a + 1] ELSE f[x]
<1>. DEFINE at(i) == (a \div PageSize) * PageSize + ((a + i - 1) % PageSize)
            kept(x) == {b \in Bits : \A i \in 1 .. Len(d) : at(i) = x => b \in d[i]}
<1>1. DOMAIN f = 0 .. Size - 1  BY Zenon DEF Image
<1>2. Programmed(f, a, d) = [x \in 0 .. Size - 1 |-> f[x] \cap kept(x)]
  BY Zenon, <1>1 DEF Programmed
<1>3. ASSUME NEW i \in 1 .. Len(d) PROVE at(i) = a + i - 1
  <2>1. PageSize \in Nat \ {0} /\ a % PageSize \in Nat /\ Len(d) \in Nat  BY DivMod, Sizes
  <2>2. i - 1 \in Nat /\ (a % PageSize) + (i - 1) < PageSize  BY <2>1
  <2>3. (a \div PageSize) * PageSize + ((a + (i - 1)) % PageSize) = a + (i - 1)
    BY <2>1, <2>2, NoWrap, Zenon
  <2>4. a + (i - 1) = a + i - 1  BY Zenon, <2>2
  <2>. QED  BY Zenon, <2>3, <2>4
<1>. HIDE DEF at
<1>4. ASSUME NEW x \in 0 .. Size - 1
      PROVE  /\ f[x] \cap kept(x) =
                  IF a <= x /\ x < a + Len(d) THEN f[x] \cap d[x - a + 1] ELSE f[x]
             /\ f[x] \cap kept(x) \in Byte
  <2>1. f[x] \in SUBSET Bits /\ x \in Int /\ Len(d) \in Nat  BY Sizes DEF Image, Byte
  <2>2. CASE a <= x /\ x < a + Len(d)
    <3>1. x - a + 1 \in 1 .. Len(d) /\ at(x - a + 1) = x  BY <1>3, <2>1, <2>2
    <3>2. \A i \in 1 .. Len(d) : at(i) = x => i = x - a + 1  BY <1>3, <2>1, <2>2
    <3>3. kept(x) = Bits \cap d[x - a + 1]  BY Zenon, <3>1, <3>2
    <3>. QED  BY Zenon, <2>1, <2>2, <3>3 DEF Byte
  <2>3. CASE ~(a <= x /\ x < a + Len(d))
    <3>1. \A i \in 1 .. Len(d) : at(i) # x  BY <1>3, <2>1, <2>3
    <3>2. kept(x) = Bits  BY Zenon, <3>1
    <3>. QED  BY Zenon, <2>1, <2>3, <3>2 DEF Byte
  <2>. QED  BY Zenon, <2>2, <2>3
<1>. HIDE DEF kept
<1>. QED  BY Zenon, <1>2, <1>4 DEF Image

LEMMA SliceFacts ==
    ASSUME NEW f \in Image, NEW a \in Nat, NEW n \in Nat, a + n <= Size
    PROVE  /\ Slice(f, a, n) \in Seq(Byte) /\ Len(Slice(f, a, n)) = n
           /\ \A i \in 1 .. n : Slice(f, a, n)[i] = f[a + i - 1]
<1>1. Slice(f, a, n) = [i \in 1 .. n |-> f[a + i - 1]]  BY Zenon DEF Slice, Store!Slice
<1>2. ASSUME NEW i \in 1 .. n PROVE f[a + i - 1] \in Byte
  <2>1. a + i - 1 \in 0 .. Size - 1  BY Sizes
  <2>. QED  BY Zenon, <2>1 DEF Image
<1>. QED  BY <1>1, <1>2

LEMMA RunsFacts ==
    ASSUME NEW d \in Store!Runs PROVE d \in Seq(Byte) /\ Len(d) \in 0 .. MaxLen
<1>1. PICK n \in 0 .. MaxLen : d \in [1 .. n -> Byte]  BY Zenon DEF Store!Runs
<1>2. n \in Nat  BY Sizes
<1>. QED  BY <1>1, <1>2

\* A part of a run.
LEMMA SubSeqFacts ==
    ASSUME NEW d \in Seq(Byte), NEW m \in 1 .. Len(d) + 1, NEW n \in 0 .. Len(d), m <= n + 1
    PROVE  /\ SubSeq(d, m, n) \in Seq(Byte) /\ Len(SubSeq(d, m, n)) = n - m + 1
           /\ \A i \in 1 .. n - m + 1 : SubSeq(d, m, n)[i] = d[m + i - 1]
OBVIOUS

-----------------------------------------------------------------------------
(* The invariant is preserved by every action.                             *)

\* The end of a call, or of the power.
LEMMA Quieted ==
    ASSUME flash' \in Image, before' = flash', transfer' \in Nat, inited' \in BOOLEAN,
           pc' \in {"idle", "off"}, out' = << >>, left' \in Nat,
           addr' = 0, data' = << >>, buf4k' = << >>, paddr' = 0, pdata' = << >>
    PROVE  IInv'
<1>1. TypeOK'  BY DEF TypeOK
<1>2. WriteInv'  BY Zenon DEF WriteInv, Writing
<1>3. QuietInv'  BY Zenon DEF QuietInv
<1>. QED  BY Zenon, <1>1, <1>2, <1>3 DEF IInv

\* The call under way, and where it stands.
LEMMA CallFacts ==
    ASSUME TypeOK, NEW a0, NEW d0, Call(a0, d0)
    PROVE  /\ addr \in 0 .. Size - 1 /\ Len(data) \in Nat /\ Len(data) > 0
           /\ a0 \in Nat /\ d0 \in Seq(Byte) /\ Len(d0) \in Nat
           /\ a0 <= addr /\ addr + Len(data) = a0 + Len(d0) /\ a0 + Len(d0) <= Size
<1>1. d0 \in Seq(Byte) /\ Len(d0) \in Nat  BY RunsFacts DEF Call
<1>. QED  BY <1>1, Sizes DEF Call, TypeOK

LEMMA WriteStep ==
    ASSUME IInv, NEW a \in 0 .. Size - 1, NEW d \in Store!Runs \ {<< >>}, w25q_write(a, d)
    PROVE  IInv'
<1>1. TypeOK /\ before = flash /\ out = << >> /\ pc = "idle" /\ a + Len(d) <= Size
  BY Zenon DEF IInv, QuietInv, w25q_write
<1>2. d \in Seq(Byte) /\ Len(d) \in Nat /\ Len(d) > 0
  <2>1. d \in Seq(Byte) /\ d # << >>  BY Zenon, RunsFacts
  <2>. QED  BY <2>1
<1>3. CASE inited
  <2>1. /\ addr' = a /\ data' = d /\ pc' = "read"
        /\ UNCHANGED <<flash, transfer, inited, left, out, cuts, rc, buf4k, paddr, pdata, before>>
    BY Zenon, <1>3 DEF w25q_write
  <2>2. TypeOK'  BY <1>1, <1>2, <2>1 DEF TypeOK, Writing
  <2>3. Call(a, d)'  BY <1>1, <1>2, <2>1 DEF Call
  <2>4. Ahead(a, d)'  BY <1>1, <2>1 DEF Ahead, Reached, Target
  <2>5. WriteInv'  BY Zenon, <2>1, <2>3, <2>4 DEF WriteInv
  <2>6. QuietInv'  BY Zenon, <1>1, <2>1 DEF QuietInv
  <2>. QED  BY Zenon, <2>2, <2>5, <2>6 DEF IInv
<1>4. CASE ~inited
  BY Zenon, <1>1, <1>4, Quieted DEF w25q_write, Return, TypeOK
<1>. QED  BY Zenon, <1>3, <1>4

LEMMA ReadSectorStep ==
    ASSUME IInv, ReadSector PROVE IInv'
<1>1. TypeOK /\ pc = "read" /\ out = << >>  BY Zenon DEF IInv, QuietInv, ReadSector
<1>2. PICK a0, d0 : Call(a0, d0) /\ Ahead(a0, d0)  BY Zenon, <1>1 DEF IInv, WriteInv, Writing
<1>3. CASE CanRead(SectorSize)
  <2>1. /\ buf4k' = Slice(flash, Base(addr), SectorSize) /\ pc' = "check"
        /\ UNCHANGED <<flash, transfer, inited, left, out, cuts, addr, data, paddr, pdata, rc, before>>
    BY Zenon, <1>3 DEF ReadSector
  <2>2. /\ buf4k' \in Seq(Byte) /\ Len(buf4k') = SectorSize
        /\ \A i \in 1 .. SectorSize : buf4k'[i] = flash[Base(addr) + i - 1]
    <3>1. addr \in 0 .. Size - 1  BY Zenon, <1>1, <1>2, CallFacts
    <3>2. Base(addr) \in Nat /\ Base(addr) + SectorSize <= Size  BY Zenon, <3>1, SectorFacts
    <3>3. flash \in Image /\ SectorSize \in Nat  BY Zenon, <1>1, Sizes DEF TypeOK
    <3>4. LET b == Slice(flash, Base(addr), SectorSize)
          IN  /\ b \in Seq(Byte) /\ Len(b) = SectorSize
              /\ \A i \in 1 .. SectorSize : b[i] = flash[Base(addr) + i - 1]
      BY <3>2, <3>3, SliceFacts, Zenon
    <3>. QED  BY Zenon, <2>1, <3>4
  <2>3. TypeOK'  BY Zenon, <1>1, <2>1, <2>2 DEF TypeOK, Writing
  <2>4. Call(a0, d0)'  BY Zenon, <1>2, <2>1 DEF Call
  <2>5. Ahead(a0, d0)'  BY Zenon, <1>2, <2>1, <2>2 DEF Ahead, Reached, Target, Base, SectorOf
  <2>6. WriteInv'  BY Zenon, <2>1, <2>4, <2>5 DEF WriteInv
  <2>7. QuietInv'  BY Zenon, <1>1, <1>3, <2>1 DEF QuietInv, CanRead
  <2>. QED  BY Zenon, <2>3, <2>6, <2>7 DEF IInv
<1>4. CASE ~CanRead(SectorSize)
  BY Zenon, <1>1, <1>4, Quieted DEF ReadSector, Return, TypeOK
<1>. QED  BY Zenon, <1>3, <1>4

\* The bytes of the call in the sector of addr are what it is to leave there.
LEMMA CallBytes ==
    ASSUME TypeOK, NEW a0, NEW d0, Call(a0, d0)
    PROVE  LET n == Remain(addr, data)
           IN  /\ n \in Nat /\ n > 0 /\ n <= Len(data) /\ addr + n <= Base(addr) + SectorSize
               /\ \A x \in 0 .. Size - 1 :
                    Reached(a0, d0, addr + n, x) =
                      IF addr <= x /\ x < addr + n THEN data[x - addr + 1]
                      ELSE Reached(a0, d0, addr, x)
<1>. DEFINE n == Remain(addr, data)
<1>1. /\ addr \in 0 .. Size - 1 /\ Len(data) \in Nat /\ Len(data) > 0
      /\ a0 \in Nat /\ d0 \in Seq(Byte) /\ Len(d0) \in Nat
      /\ a0 <= addr /\ addr + Len(data) = a0 + Len(d0) /\ a0 + Len(d0) <= Size
  BY Zenon, CallFacts
<1>2. n \in Nat /\ n > 0 /\ n <= Len(data) /\ addr + n <= Base(addr) + SectorSize
  BY Zenon, <1>1, RemainFacts DEF TypeOK
<1>. HIDE DEF n
<1>3. ASSUME NEW x \in 0 .. Size - 1
      PROVE  Reached(a0, d0, addr + n, x) =
               IF addr <= x /\ x < addr + n THEN data[x - addr + 1] ELSE Reached(a0, d0, addr, x)
  <2>1. x \in Nat /\ addr \in Nat  BY <1>1, Sizes
  <2>2. CASE addr <= x /\ x < addr + n
    <3>1. Reached(a0, d0, addr + n, x) = d0[x - a0 + 1]
      BY <1>1, <1>2, <2>1, <2>2 DEF Reached, Target
    <3>2. x - addr + 1 \in 1 .. Len(data) /\ addr - a0 + (x - addr + 1) = x - a0 + 1
      BY <1>1, <1>2, <2>1, <2>2
    <3>3. data[x - addr + 1] = d0[addr - a0 + (x - addr + 1)]  BY Zenon, <3>2 DEF Call
    <3>. QED  BY Zenon, <2>2, <3>1, <3>2, <3>3
  <2>3. CASE ~(addr <= x /\ x < addr + n)
    BY <1>2, <2>1, <2>3 DEF Reached
  <2>. QED  BY Zenon, <2>2, <2>3
<1>. QED  BY Zenon, <1>2, <1>3 DEF n

\* The sector in buf_4k is the chip's, up to addr as the call leaves it.
LEMMA CheckSectorStep ==
    ASSUME IInv, CheckSector PROVE IInv'
<1>1. TypeOK /\ pc = "check" /\ out = << >> /\ CanRead(SectorSize)
  BY Zenon DEF IInv, QuietInv, CheckSector
<1>2. PICK a0, d0 : Call(a0, d0) /\ Ahead(a0, d0)  BY Zenon, <1>1 DEF IInv, WriteInv, Writing
<1>3. UNCHANGED <<flash, transfer, inited, addr, data, buf4k, left, rc, out, before, cuts>>
  BY Zenon DEF CheckSector
<1>4. Call(a0, d0)'  BY Zenon, <1>2, <1>3 DEF Call
<1>5. CASE Blank(addr, data)
  <2>. DEFINE n == Remain(addr, data)
  <2>1. paddr' = addr /\ pdata' = SubSeq(data, 1, n) /\ pc' = "program"  BY Zenon, <1>5 DEF CheckSector
  <2>2. /\ n \in Nat /\ n > 0 /\ n <= Len(data) /\ addr + n <= Base(addr) + SectorSize
        /\ \A x \in 0 .. Size - 1 :
             Reached(a0, d0, addr + n, x) =
               IF addr <= x /\ x < addr + n THEN data[x - addr + 1] ELSE Reached(a0, d0, addr, x)
    BY Zenon, <1>1, <1>2, CallBytes
  <2>3. /\ addr \in 0 .. Size - 1 /\ addr \in Nat /\ data \in Seq(Byte) /\ Len(data) \in Nat
        /\ addr + Len(data) <= Size
    BY Zenon, <1>1, <1>2, CallFacts, Sizes DEF TypeOK
  <2>4. Base(addr) \in Nat /\ Base(addr) <= addr /\ Offset(addr) = addr - Base(addr)
    BY Zenon, <2>3, SectorFacts
  <2>5. \A i \in 1 .. n : flash[addr + i - 1] = Erased
    <3>. SUFFICES ASSUME NEW i \in 1 .. n PROVE flash[addr + i - 1] = Erased  BY Zenon
    <3>1. buf4k[Offset(addr) + i] = Erased  BY Zenon, <1>5 DEF Blank
    <3>2. Offset(addr) + i \in 1 .. SectorSize /\ Base(addr) + (Offset(addr) + i) - 1 = addr + i - 1
      <4>. HIDE DEF n
      <4>. QED  BY <2>2, <2>3, <2>4, Sizes
    <3>3. buf4k[Offset(addr) + i] = flash[Base(addr) + (Offset(addr) + i) - 1]
      BY Zenon, <1>1, <1>2, <3>2 DEF Ahead
    <3>. QED  BY Zenon, <3>1, <3>2, <3>3
  <2>. HIDE DEF n
  <2>6. /\ pdata' \in Seq(Byte) /\ Len(pdata') = n
        /\ \A i \in 1 .. n : pdata'[i] = data[i]
    <3>1. 1 \in 1 .. Len(data) + 1 /\ n \in 0 .. Len(data) /\ 1 <= n + 1  BY <2>2, <2>3
    <3>2. n - 1 + 1 = n /\ \A i \in 1 .. n : 1 + i - 1 = i  BY <2>2
    <3>. QED  BY <2>1, <2>3, <3>1, <3>2, SubSeqFacts
  <2>7. Within(a0, d0)'
    <3>1. \A i \in 1 .. n : pdata'[i] = Reached(a0, d0, addr + n, addr + i - 1)
      <4>. SUFFICES ASSUME NEW i \in 1 .. n
                    PROVE  pdata'[i] = Reached(a0, d0, addr + n, addr + i - 1)
        BY Zenon
      <4>1. /\ addr + i - 1 \in 0 .. Size - 1 /\ addr <= addr + i - 1 /\ addr + i - 1 < addr + n
            /\ (addr + i - 1) - addr + 1 = i
        <5>1. n \in Nat /\ n <= Len(data) /\ Size \in Nat  BY Zenon, <2>2, Sizes
        <5>. QED  BY <2>3, <5>1
      <4>. QED  BY Zenon, <2>2, <2>6, <4>1
    <3>2. \A x \in 0 .. Size - 1 :
            flash[x] = IF addr <= x /\ x < addr + n THEN Erased ELSE Reached(a0, d0, addr + n, x)
      <4>. SUFFICES ASSUME NEW x \in 0 .. Size - 1
                    PROVE  flash[x] = IF addr <= x /\ x < addr + n
                                         THEN Erased ELSE Reached(a0, d0, addr + n, x)
        BY Zenon
      <4>1. CASE addr <= x /\ x < addr + n
        <5>1. x \in Int /\ x - addr + 1 \in 1 .. n /\ addr + (x - addr + 1) - 1 = x
          BY <2>2, <2>3, <4>1, Sizes
        <5>2. flash[addr + (x - addr + 1) - 1] = Erased  BY Zenon, <2>5, <5>1
        <5>. QED  BY Zenon, <4>1, <5>1, <5>2
      <4>2. CASE ~(addr <= x /\ x < addr + n)
        <5>1. flash[x] = Reached(a0, d0, addr, x)  BY Zenon, <1>2 DEF Ahead
        <5>. QED  BY Zenon, <2>2, <4>2, <5>1
      <4>. QED  BY Zenon, <4>1, <4>2
    <3>3. Remain(addr, data)' = n /\ Base(addr)' = Base(addr)
      BY Zenon, <1>3 DEF n, Remain, Offset, Base, SectorOf
    <3>4. \A e, x : Reached(a0, d0, e, x)' = Reached(a0, d0, e, x)  BY Zenon, <1>3 DEF Reached, Target
    <3>. QED  BY <1>3, <2>1, <2>2, <2>4, <2>6, <3>1, <3>2, <3>3, <3>4 DEF Within
  <2>8. WriteInv'  BY Zenon, <1>4, <2>1, <2>7 DEF WriteInv
  <2>9. TypeOK'  BY Zenon, <1>1, <1>3, <2>1, <2>6 DEF TypeOK, Writing
  <2>10. QuietInv'  BY Zenon, <1>1, <1>3, <2>1 DEF QuietInv, CanRead
  <2>. QED  BY Zenon, <2>8, <2>9, <2>10 DEF IInv
<1>6. CASE ~Blank(addr, data)
  <2>1. pc' = "erase" /\ UNCHANGED <<paddr, pdata>>  BY Zenon, <1>6 DEF CheckSector
  <2>2. Ahead(a0, d0)'
    BY Zenon, <1>1, <1>2, <1>3, <2>1 DEF Ahead, Reached, Target, Base, SectorOf
  <2>3. WriteInv'  BY Zenon, <1>4, <2>1, <2>2 DEF WriteInv
  <2>4. TypeOK'  BY Zenon, <1>1, <1>3, <2>1 DEF TypeOK, Writing
  <2>5. QuietInv'  BY Zenon, <1>1, <1>3, <2>1 DEF QuietInv, CanRead
  <2>. QED  BY Zenon, <2>3, <2>4, <2>5 DEF IInv
<1>. QED  BY Zenon, <1>5, <1>6

\* The sector is erased, and what buf_4k saved is on its way back.
LEMMA EraseSectorStep ==
    ASSUME IInv, a_w25qxx_erase_sector PROVE IInv'
<1>1. TypeOK /\ pc = "erase" /\ out = << >> /\ CanRead(SectorSize)
  BY Zenon DEF IInv, QuietInv, a_w25qxx_erase_sector
<1>2. PICK a0, d0 : Call(a0, d0) /\ Ahead(a0, d0)  BY Zenon, <1>1 DEF IInv, WriteInv, Writing
<1>3. /\ UNCHANGED <<transfer, inited, addr, data, left, rc, out, before, cuts>>
      /\ flash' = EraseSector(flash, addr) /\ buf4k' = Merged(addr, data)
      /\ paddr' = Base(addr) /\ pdata' = buf4k' /\ pc' = "program"
  BY Zenon DEF a_w25qxx_erase_sector
<1>4. Call(a0, d0)'  BY Zenon, <1>2, <1>3 DEF Call
<1>. DEFINE n == Remain(addr, data)
            b == Base(addr)
<1>5. /\ n \in Nat /\ n > 0 /\ n <= Len(data) /\ addr + n <= b + SectorSize
      /\ \A x \in 0 .. Size - 1 :
           Reached(a0, d0, addr + n, x) =
             IF addr <= x /\ x < addr + n THEN data[x - addr + 1] ELSE Reached(a0, d0, addr, x)
  BY Zenon, <1>1, <1>2, CallBytes
<1>6. addr \in 0 .. Size - 1 /\ addr \in Nat /\ data \in Seq(Byte) /\ Len(data) \in Nat
  BY Zenon, <1>1, <1>2, CallFacts, Sizes DEF TypeOK
<1>7. /\ b \in Nat /\ b <= addr /\ Offset(addr) = addr - b /\ b + SectorSize <= Size
      /\ SectorSize \in Nat /\ SectorSize > 0 /\ Size \in Nat
  BY <1>6, SectorFacts, Sizes
<1>8. /\ Len(buf4k) = SectorSize /\ buf4k \in Seq(Byte)
      /\ \A i \in 1 .. SectorSize : buf4k[i] = flash[b + i - 1]
      /\ \A x \in 0 .. Size - 1 : flash[x] = Reached(a0, d0, addr, x)
  BY Zenon, <1>1, <1>2 DEF Ahead, TypeOK
<1>9. /\ pdata' = [i \in 1 .. SectorSize |->
                     IF i - Offset(addr) \in 1 .. n THEN data[i - Offset(addr)] ELSE buf4k[i]]
      /\ flash' = Overwrite(flash, b, [i \in 1 .. SectorSize |-> Erased])
  BY Zenon, <1>3 DEF Merged, EraseSector
<1>10. Remain(addr, data)' = n /\ Base(addr)' = b
  BY Zenon, <1>3 DEF Remain, Offset, Base, SectorOf
<1>. HIDE DEF n, b
<1>11. /\ flash' \in Image
       /\ \A x \in 0 .. Size - 1 :
            flash'[x] = IF b <= x /\ x < b + SectorSize THEN Erased ELSE flash[x]
  <2>. DEFINE e == [i \in 1 .. SectorSize |-> Erased]
  <2>1. e \in Seq(Byte) /\ Len(e) = SectorSize /\ \A i \in 1 .. SectorSize : e[i] = Erased
    <3>1. Erased \in Byte  BY Zenon DEF Erased, Byte
    <3>. QED  BY <1>7, <3>1
  <2>2. flash \in Image  BY Zenon, <1>1 DEF TypeOK
  <2>. HIDE DEF e
  <2>3. /\ Overwrite(flash, b, e) \in Image
        /\ \A x \in 0 .. Size - 1 :
             Overwrite(flash, b, e)[x] =
               IF b <= x /\ x < b + Len(e) THEN e[x - b + 1] ELSE flash[x]
    BY Zenon, <1>7, <2>1, <2>2, OverwriteFacts
  <2>4. ASSUME NEW x \in 0 .. Size - 1, b <= x, x < b + SectorSize PROVE e[x - b + 1] = Erased
    <3>1. x - b + 1 \in 1 .. SectorSize  BY <1>7, <2>4
    <3>. QED  BY Zenon, <2>1, <3>1
  <2>5. flash' = Overwrite(flash, b, e)  BY Zenon, <1>9 DEF e
  <2>. QED  BY Zenon, <2>1, <2>3, <2>4, <2>5
<1>12. ASSUME NEW i \in 1 .. SectorSize
       PROVE  pdata'[i] = Reached(a0, d0, addr + n, b + i - 1) /\ pdata'[i] \in Byte
  <2>1. /\ b + i - 1 \in 0 .. Size - 1 /\ i - Offset(addr) = (b + i - 1) - addr + 1
        /\ i - Offset(addr) \in 1 .. n <=> (addr <= b + i - 1 /\ b + i - 1 < addr + n)
    <3>1. n \in Nat  BY Zenon, <1>5
    <3>. QED  BY <1>6, <1>7, <3>1
  <2>2. pdata'[i] = IF i - Offset(addr) \in 1 .. n THEN data[i - Offset(addr)] ELSE buf4k[i]
    BY Zenon, <1>9
  <2>3. CASE i - Offset(addr) \in 1 .. n
    <3>1. i - Offset(addr) \in 1 .. Len(data)
      <4>1. n \in Nat /\ n <= Len(data)  BY Zenon, <1>5
      <4>. QED  BY <1>6, <2>3, <4>1
    <3>2. data[i - Offset(addr)] \in Byte  BY <1>6, <3>1
    <3>3. Reached(a0, d0, addr + n, b + i - 1) = data[(b + i - 1) - addr + 1]
      BY Zenon, <1>5, <2>1, <2>3
    <3>. QED  BY Zenon, <2>1, <2>2, <2>3, <3>2, <3>3
  <2>4. CASE i - Offset(addr) \notin 1 .. n
    <3>1. Reached(a0, d0, addr + n, b + i - 1) = Reached(a0, d0, addr, b + i - 1)
      BY Zenon, <1>5, <2>1, <2>4
    <3>2. buf4k[i] = Reached(a0, d0, addr, b + i - 1)  BY Zenon, <1>8, <2>1
    <3>3. buf4k[i] \in Byte  BY <1>8
    <3>. QED  BY Zenon, <2>2, <2>4, <3>1, <3>2, <3>3
  <2>. QED  BY Zenon, <2>3, <2>4
<1>13. pdata' \in Seq(Byte) /\ Len(pdata') = SectorSize
  BY <1>7, <1>9, <1>12
<1>14. Within(a0, d0)'
  <2>1. \A x \in 0 .. Size - 1 :
          flash'[x] = IF b <= x /\ x < b + SectorSize THEN Erased ELSE Reached(a0, d0, addr + n, x)
    <3>. SUFFICES ASSUME NEW x \in 0 .. Size - 1
                  PROVE  flash'[x] = IF b <= x /\ x < b + SectorSize
                                        THEN Erased ELSE Reached(a0, d0, addr + n, x)
      BY Zenon
    <3>1. CASE b <= x /\ x < b + SectorSize  BY Zenon, <1>11, <3>1
    <3>2. CASE ~(b <= x /\ x < b + SectorSize)
      <4>1. ~(addr <= x /\ x < addr + n)
        <5>1. n \in Nat /\ addr + n <= b + SectorSize /\ x \in Int  BY <1>5, Sizes
        <5>. QED  BY <1>6, <1>7, <3>2, <5>1
      <4>2. flash'[x] = flash[x] /\ flash[x] = Reached(a0, d0, addr, x)  BY Zenon, <1>8, <1>11, <3>2
      <4>. QED  BY Zenon, <1>5, <3>2, <4>1, <4>2
    <3>. QED  BY Zenon, <3>1, <3>2
  <2>2. \A e, x : Reached(a0, d0, e, x)' = Reached(a0, d0, e, x)  BY Zenon, <1>3 DEF Reached, Target
  <2>3. paddr' = b /\ b <= b /\ b + SectorSize <= b + SectorSize  BY <1>3, <1>7 DEF b
  <2>. QED  BY <1>3, <1>7, <1>10, <1>12, <1>13, <2>1, <2>2, <2>3 DEF Within
<1>15. WriteInv'  BY Zenon, <1>3, <1>4, <1>14 DEF WriteInv
<1>16. TypeOK'  BY Zenon, <1>1, <1>3, <1>7, <1>11, <1>13 DEF TypeOK, Writing, b
<1>17. QuietInv'  BY Zenon, <1>1, <1>3 DEF QuietInv, CanRead
<1>. QED  BY Zenon, <1>15, <1>16, <1>17 DEF IInv

\* A page is programmed: the bytes it had still to get are now as they are to be.
LEMMA ProgramChunk ==
    ASSUME TypeOK, CanRead(SectorSize), NEW a0, NEW d0, Call(a0, d0), Within(a0, d0)
    PROVE  LET n == Chunk(paddr, pdata)
               g == Programmed(flash, paddr, SubSeq(pdata, 1, n))
               end == addr + Remain(addr, data)
           IN  /\ n \in Nat /\ n > 0 /\ n <= Len(pdata) /\ CanProgram(n) /\ g \in Image
               /\ \A x \in 0 .. Size - 1 :
                    g[x] = IF paddr + n <= x /\ x < paddr + Len(pdata)
                              THEN Erased ELSE Reached(a0, d0, end, x)
<1>. DEFINE n == Chunk(paddr, pdata)
            d == SubSeq(pdata, 1, n)
            g == Programmed(flash, paddr, d)
            end == addr + Remain(addr, data)
            len == Len(pdata)
<1>1. /\ paddr \in Nat /\ pdata \in Seq(Byte) /\ len \in Nat /\ len > 0 /\ flash \in Image
      /\ transfer \in Nat
  BY DEF TypeOK, Within
<1>2. n \in Nat /\ n > 0 /\ n <= len /\ (paddr % PageSize) + n <= PageSize  BY Zenon, <1>1, ChunkFacts
<1>3. /\ \A i \in 1 .. len : pdata[i] = Reached(a0, d0, end, paddr + i - 1)
      /\ \A x \in 0 .. Size - 1 :
           flash[x] = IF paddr <= x /\ x < paddr + len THEN Erased ELSE Reached(a0, d0, end, x)
      /\ Base(addr) <= paddr /\ paddr + len <= Base(addr) + SectorSize
  BY Zenon DEF Within
<1>. HIDE DEF n, end
<1>4. d \in Seq(Byte) /\ Len(d) = n /\ \A i \in 1 .. n : d[i] = pdata[i]
  <2>1. 1 \in 1 .. Len(pdata) + 1 /\ n \in 0 .. Len(pdata) /\ 1 <= n + 1  BY <1>1, <1>2
  <2>2. n - 1 + 1 = n /\ \A i \in 1 .. n : 1 + i - 1 = i  BY <1>2
  <2>. QED  BY <1>1, <2>1, <2>2, SubSeqFacts
<1>. HIDE DEF d, len
<1>5. /\ g \in Image
      /\ \A x \in 0 .. Size - 1 :
           g[x] = IF paddr <= x /\ x < paddr + n THEN flash[x] \cap d[x - paddr + 1] ELSE flash[x]
  <2>1. (paddr % PageSize) + Len(d) <= PageSize  BY Zenon, <1>2, <1>4
  <2>2. /\ g \in Image
        /\ \A x \in 0 .. Size - 1 :
             g[x] = IF paddr <= x /\ x < paddr + Len(d)
                       THEN flash[x] \cap d[x - paddr + 1] ELSE flash[x]
    BY <1>1, <1>4, <2>1, ProgramFacts, Zenon
  <2>. QED  BY Zenon, <1>4, <2>2
<1>. HIDE DEF g
<1>6. CanProgram(n)
  <2>1. Base(addr) \in Nat  BY Zenon, CallFacts, SectorFacts
  <2>2. n <= SectorSize  BY <1>1, <1>2, <1>3, <2>1, Sizes
  <2>. QED  BY <1>1, <1>2, <2>2, Sizes DEF CanRead, CanProgram
<1>7. ASSUME NEW x \in 0 .. Size - 1
      PROVE  g[x] = IF paddr + n <= x /\ x < paddr + len THEN Erased ELSE Reached(a0, d0, end, x)
  <2>1. x \in Int  BY Sizes
  <2>2. CASE paddr <= x /\ x < paddr + n
    <3>1. /\ x - paddr + 1 \in 1 .. n /\ x - paddr + 1 \in 1 .. len
          /\ paddr + (x - paddr + 1) - 1 = x /\ ~(paddr + n <= x) /\ x < paddr + len
      BY <1>1, <1>2, <2>1, <2>2
    <3>2. d[x - paddr + 1] = Reached(a0, d0, end, x)  BY Zenon, <1>3, <1>4, <3>1
    <3>3. flash[x] = Bits  BY Zenon, <1>3, <2>2, <3>1 DEF Erased
    <3>4. d[x - paddr + 1] \in SUBSET Bits  BY <1>4, <3>1 DEF Byte
    <3>5. g[x] = flash[x] \cap d[x - paddr + 1]  BY Zenon, <1>5, <2>2
    <3>. QED  BY Zenon, <3>1, <3>2, <3>3, <3>4, <3>5
  <2>3. CASE ~(paddr <= x /\ x < paddr + n)
    <3>1. g[x] = flash[x]  BY Zenon, <1>5, <2>3
    <3>2. (paddr <= x /\ x < paddr + len) <=> (paddr + n <= x /\ x < paddr + len)
      BY <1>1, <1>2, <2>1, <2>3
    <3>. QED  BY Zenon, <1>3, <3>1, <3>2
  <2>. QED  BY Zenon, <2>2, <2>3
<1>. QED  BY Zenon, <1>2, <1>5, <1>6, <1>7 DEF n, g, d, end, len

LEMMA PageProgramStep ==
    ASSUME IInv, a_w25qxx_page_program PROVE IInv'
<1>1. TypeOK /\ pc = "program" /\ out = << >> /\ CanRead(SectorSize)
  BY Zenon DEF IInv, QuietInv, a_w25qxx_page_program
<1>2. PICK a0, d0 : Call(a0, d0) /\ Within(a0, d0)  BY Zenon, <1>1 DEF IInv, WriteInv, Writing
<1>. DEFINE n == Chunk(paddr, pdata)
            r == Remain(addr, data)
<1>3. /\ n \in Nat /\ n > 0 /\ n <= Len(pdata) /\ CanProgram(n)
      /\ Programmed(flash, paddr, SubSeq(pdata, 1, n)) \in Image
      /\ \A x \in 0 .. Size - 1 :
           Programmed(flash, paddr, SubSeq(pdata, 1, n))[x] =
             IF paddr + n <= x /\ x < paddr + Len(pdata) THEN Erased ELSE Reached(a0, d0, addr + r, x)
  BY Zenon, <1>1, <1>2, ProgramChunk
<1>4. /\ flash' = Programmed(flash, paddr, SubSeq(pdata, 1, n))
      /\ UNCHANGED <<transfer, inited, left, out, cuts>>
  BY Zenon, <1>3 DEF a_w25qxx_page_program
<1>5. /\ flash' \in Image
      /\ \A x \in 0 .. Size - 1 :
           flash'[x] = IF paddr + n <= x /\ x < paddr + Len(pdata)
                          THEN Erased ELSE Reached(a0, d0, addr + r, x)
  BY Zenon, <1>3, <1>4
<1>6. r \in Nat /\ r > 0 /\ r <= Len(data) /\ addr + r <= Base(addr) + SectorSize
  BY Zenon, <1>1, <1>2, CallBytes
<1>7. /\ addr \in Nat /\ data \in Seq(Byte) /\ Len(data) \in Nat
      /\ paddr \in Nat /\ pdata \in Seq(Byte) /\ Len(pdata) \in Nat
  BY <1>1 DEF TypeOK
<1>8. CASE Len(pdata) # n
  <2>1. /\ paddr' = paddr + n /\ pdata' = SubSeq(pdata, n + 1, Len(pdata))
        /\ UNCHANGED <<pc, addr, data, buf4k, rc, before>>
    BY Zenon, <1>3, <1>8 DEF a_w25qxx_page_program
  <2>2. Remain(addr, data)' = r /\ Base(addr)' = Base(addr)
    BY Zenon, <2>1 DEF Remain, Offset, Base, SectorOf
  <2>3. \A e, x : Reached(a0, d0, e, x)' = Reached(a0, d0, e, x)  BY Zenon, <2>1 DEF Reached, Target
  <2>4. Call(a0, d0)'  BY Zenon, <1>2, <2>1 DEF Call
  <2>5. /\ \A i \in 1 .. Len(pdata) : pdata[i] = Reached(a0, d0, addr + r, paddr + i - 1)
        /\ Base(addr) <= paddr /\ paddr + Len(pdata) <= Base(addr) + SectorSize
        /\ Base(addr) \in Nat
    BY Zenon, <1>1, <1>2, CallFacts, SectorFacts DEF Within
  <2>. HIDE DEF n, r
  <2>6. /\ pdata' \in Seq(Byte) /\ Len(pdata') = Len(pdata) - n
        /\ \A i \in 1 .. Len(pdata) - n : pdata'[i] = pdata[n + i]
    <3>1. /\ n + 1 \in 1 .. Len(pdata) + 1 /\ Len(pdata) \in 0 .. Len(pdata)
          /\ n + 1 <= Len(pdata) + 1 /\ Len(pdata) - (n + 1) + 1 = Len(pdata) - n
          /\ \A i \in 1 .. Len(pdata) - n : n + 1 + i - 1 = n + i
      BY <1>3, <1>7
    <3>. QED  BY <1>7, <2>1, <3>1, SubSeqFacts
  <2>7. /\ paddr' + Len(pdata') = paddr + Len(pdata) /\ Len(pdata') > 0 /\ paddr' \in Nat
        /\ Base(addr) <= paddr'
    <3>1. n \in Nat /\ n <= Len(pdata) /\ n # Len(pdata)  BY Zenon, <1>3, <1>8
    <3>2. Base(addr) \in Nat /\ Base(addr) <= paddr  BY Zenon, <2>5
    <3>3. paddr' = paddr + n /\ Len(pdata') = Len(pdata) - n  BY Zenon, <2>1, <2>6
    <3>. QED  BY <1>7, <3>1, <3>2, <3>3
  <2>8. \A i \in 1 .. Len(pdata') : pdata'[i] = Reached(a0, d0, addr + r, paddr' + i - 1)
    <3>. SUFFICES ASSUME NEW i \in 1 .. Len(pdata')
                  PROVE  pdata'[i] = Reached(a0, d0, addr + r, paddr' + i - 1)
      BY Zenon
    <3>1. n + i \in 1 .. Len(pdata) /\ paddr + (n + i) - 1 = paddr' + i - 1
      BY <1>3, <1>7, <2>1, <2>6
    <3>. QED  BY Zenon, <2>5, <2>6, <3>1
  <2>9. Within(a0, d0)'
    <3>1. \A x \in 0 .. Size - 1 :
            flash'[x] = IF paddr' <= x /\ x < paddr' + Len(pdata')
                           THEN Erased ELSE Reached(a0, d0, addr + r, x)
      BY Zenon, <1>5, <2>1, <2>7
    <3>2. paddr' + Len(pdata') <= Base(addr) + SectorSize  BY Zenon, <2>5, <2>7
    <3>3. addr' = addr  BY Zenon, <2>1
    <3>. QED  BY Zenon, <2>2, <2>3, <2>7, <2>8, <3>1, <3>2, <3>3 DEF Within
  <2>10. WriteInv'  BY Zenon, <1>1, <2>1, <2>4, <2>9 DEF WriteInv
  <2>11. TypeOK'  BY Zenon, <1>1, <1>4, <1>5, <2>1, <2>6, <2>7 DEF TypeOK
  <2>12. QuietInv'  BY Zenon, <1>1, <1>4, <2>1 DEF QuietInv, CanRead
  <2>. QED  BY Zenon, <2>10, <2>11, <2>12 DEF IInv
<1>9. CASE Len(pdata) = n /\ Len(data) = r
  <2>1. Return(0)  BY Zenon, <1>3, <1>9 DEF a_w25qxx_page_program, NextSector
  <2>. QED  BY Zenon, <1>1, <1>4, <1>5, <2>1, Quieted DEF Return, TypeOK
<1>10. CASE Len(pdata) = n /\ Len(data) # r
  <2>1. /\ addr' = addr + r /\ data' = SubSeq(data, r + 1, Len(data)) /\ pc' = "read"
        /\ UNCHANGED <<buf4k, paddr, pdata, rc, before>>
    BY Zenon, <1>3, <1>10 DEF a_w25qxx_page_program, NextSector
  <2>2. \A e, x : Reached(a0, d0, e, x)' = Reached(a0, d0, e, x)  BY Zenon, <2>1 DEF Reached, Target
  <2>. HIDE DEF n, r
  <2>3. /\ data' \in Seq(Byte) /\ Len(data') = Len(data) - r
        /\ \A i \in 1 .. Len(data) - r : data'[i] = data[r + i]
    <3>1. /\ r + 1 \in 1 .. Len(data) + 1 /\ Len(data) \in 0 .. Len(data)
          /\ r + 1 <= Len(data) + 1 /\ Len(data) - (r + 1) + 1 = Len(data) - r
          /\ \A i \in 1 .. Len(data) - r : r + 1 + i - 1 = r + i
      BY <1>6, <1>7
    <3>. QED  BY <1>7, <2>1, <3>1, SubSeqFacts
  <2>4. Call(a0, d0)'
    <3>1. a0 \in Nat /\ a0 <= addr /\ addr + Len(data) = a0 + Len(d0)
      BY Zenon, <1>1, <1>2, CallFacts
    <3>2. a0 <= addr' /\ Len(data') > 0 /\ addr' + Len(data') = a0 + Len(d0)
      <4>1. Len(data') = Len(data) - r /\ addr' = addr + r /\ r # Len(data)
        BY Zenon, <1>10, <2>1, <2>3
      <4>. QED  BY <1>6, <1>7, <3>1, <4>1
    <3>3. ASSUME NEW i \in 1 .. Len(data') PROVE data'[i] = d0[addr' - a0 + i]
      <4>1. r + i \in 1 .. Len(data) /\ addr - a0 + (r + i) = addr' - a0 + i
        BY <1>6, <1>7, <2>1, <2>3, <3>1
      <4>2. data[r + i] = d0[addr - a0 + (r + i)]  BY Zenon, <1>2, <4>1 DEF Call
      <4>. QED  BY Zenon, <2>3, <4>1, <4>2
    <3>. QED  BY Zenon, <1>2, <3>2, <3>3 DEF Call
  <2>5. Ahead(a0, d0)'
    <3>1. ASSUME NEW x \in 0 .. Size - 1 PROVE flash'[x] = Reached(a0, d0, addr + r, x)
      <4>1. ~(paddr + n <= x /\ x < paddr + Len(pdata))
        <5>1. x \in Int  BY Sizes
        <5>. QED  BY <1>7, <1>10, <5>1
      <4>. QED  BY Zenon, <1>5, <4>1
    <3>. QED  BY Zenon, <2>1, <2>2, <3>1 DEF Ahead
  <2>6. WriteInv'  BY Zenon, <2>1, <2>4, <2>5 DEF WriteInv
  <2>7. TypeOK'  BY <1>1, <1>4, <1>5, <1>6, <1>7, <2>1, <2>3 DEF TypeOK, Writing
  <2>8. QuietInv'  BY Zenon, <1>1, <1>4, <2>1 DEF QuietInv, CanRead
  <2>. QED  BY Zenon, <2>6, <2>7, <2>8 DEF IInv
<1>. QED  BY Zenon, <1>8, <1>9, <1>10

LEMMA ReadStep ==
    ASSUME IInv, NEW a \in 0 .. Size - 1, NEW n \in 1 .. MaxLen, w25q_read(a, n) PROVE IInv'
<1>1. /\ pc = "idle" /\ pc' = "answer"
      /\ UNCHANGED <<flash, transfer, inited, addr, data, buf4k, paddr, pdata, left, before, cuts>>
  BY Zenon DEF w25q_read
<1>2. TypeOK'  BY Zenon, <1>1 DEF IInv, TypeOK
<1>3. WriteInv'  BY Zenon, <1>1 DEF WriteInv, Writing
<1>4. QuietInv'  BY Zenon, <1>1 DEF IInv, QuietInv
<1>. QED  BY Zenon, <1>2, <1>3, <1>4 DEF IInv

LEMMA ReadReturnsStep ==
    ASSUME IInv, ReadReturns PROVE IInv'
<1>1. /\ pc = "answer" /\ pc' = "idle" /\ out' = << >>
      /\ UNCHANGED <<flash, transfer, inited, addr, data, buf4k, paddr, pdata, left, before, cuts>>
  BY Zenon DEF ReadReturns
<1>2. TypeOK'  BY Zenon, <1>1 DEF IInv, TypeOK
<1>3. WriteInv'  BY Zenon, <1>1 DEF WriteInv, Writing
<1>4. QuietInv'  BY Zenon, <1>1 DEF IInv, QuietInv
<1>. QED  BY Zenon, <1>2, <1>3, <1>4 DEF IInv

LEMMA EraseStep ==
    ASSUME IInv, NEW k \in 0 .. Sectors - 1, NEW n \in 1 .. Sectors, w25q_erase(k, n) PROVE IInv'
<1>1. /\ pc = "idle" /\ k + n <= Sectors /\ addr' = k * SectorSize /\ left' = n /\ pc' = "wipe"
      /\ UNCHANGED <<flash, transfer, inited, data, buf4k, paddr, pdata, rc, out, before, cuts>>
  BY Zenon DEF w25q_erase
<1>2. k \in Nat /\ n \in Nat /\ k * SectorSize \in Nat  BY Sizes
<1>3. TypeOK'  BY Zenon, <1>1, <1>2 DEF IInv, TypeOK
<1>4. WriteInv'  BY Zenon, <1>1 DEF WriteInv, Writing
<1>5. QuietInv'  BY Zenon, <1>1, <1>2 DEF IInv, QuietInv
<1>. QED  BY Zenon, <1>3, <1>4, <1>5 DEF IInv

\* The sector w25q_erase has come to.
LEMMA WipeFacts ==
    ASSUME IInv, pc = "wipe", left > 0
    PROVE  /\ addr \in 0 .. Size - 1 /\ Base(addr) = addr
           /\ addr + SectorSize \in Nat /\ EraseSector(flash, addr) \in Image
           /\ \E s \in Nat : addr + SectorSize = s * SectorSize /\ s + (left - 1) <= Sectors
<1>1. PICK s \in Nat : addr = s * SectorSize /\ s + left <= Sectors  BY Zenon DEF IInv, QuietInv
<1>2. left \in Nat /\ flash \in Image  BY Zenon DEF IInv, TypeOK
<1>3. s < Sectors /\ s + 1 \in Nat /\ (s + 1) + (left - 1) <= Sectors  BY <1>1, <1>2, Sizes
<1>4. (s + 1) * SectorSize <= Sectors * SectorSize /\ (s + 1) * SectorSize = s * SectorSize + SectorSize
  BY <1>3, Sizes
<1>5. addr \in 0 .. Size - 1 /\ addr + SectorSize = (s + 1) * SectorSize
      /\ addr + SectorSize \in Nat /\ s * SectorSize \in Nat
  BY <1>1, <1>4, Sizes
<1>6. Base(addr) = addr
  <2>1. addr \div SectorSize = s  BY <1>1, <1>5, InSector, Sizes
  <2>. QED  BY Zenon, <1>1, <2>1 DEF Base, SectorOf
<1>7. EraseSector(flash, addr) \in Image
  <2>1. [i \in 1 .. SectorSize |-> Erased] \in Seq(Byte)
    <3>1. Erased \in Byte  BY Zenon DEF Erased, Byte
    <3>. QED  BY <3>1, Sizes
  <2>2. Base(addr) \in Nat  BY <1>5, <1>6
  <2>. QED  BY Zenon, <1>2, <2>1, <2>2, OverwriteFacts DEF EraseSector
<1>. QED  BY Zenon, <1>3, <1>5, <1>6, <1>7

LEMMA EraseNextStep ==
    ASSUME IInv, EraseNext PROVE IInv'
<1>1. TypeOK /\ pc = "wipe" /\ out = << >> /\ UNCHANGED <<transfer, inited, out, cuts>>
  BY Zenon DEF IInv, QuietInv, EraseNext
<1>2. CASE left = 0
  <2>1. UNCHANGED <<flash, left>> /\ Return(rc)  BY Zenon, <1>2 DEF EraseNext
  <2>. QED  BY Zenon, <1>1, <2>1, Quieted DEF Return, TypeOK
<1>3. CASE left # 0
  <2>1. /\ flash' = IF inited THEN EraseSector(flash, addr) ELSE flash
        /\ addr' = addr + SectorSize /\ left' = left - 1
        /\ UNCHANGED <<pc, data, buf4k, paddr, pdata, before>>
    BY Zenon, <1>3 DEF EraseNext
  <2>2. left \in Nat /\ left > 0 /\ left - 1 \in Nat  BY <1>1, <1>3 DEF TypeOK
  <2>3. /\ addr + SectorSize \in Nat /\ EraseSector(flash, addr) \in Image
        /\ \E s \in Nat : addr + SectorSize = s * SectorSize /\ s + (left - 1) <= Sectors
    BY Zenon, <1>1, <2>2, WipeFacts
  <2>4. TypeOK'  BY Zenon, <1>1, <2>1, <2>2, <2>3 DEF TypeOK
  <2>5. WriteInv'  BY Zenon, <1>1, <2>1 DEF WriteInv, Writing
  <2>6. QuietInv'  BY Zenon, <1>1, <2>1, <2>3 DEF QuietInv
  <2>. QED  BY Zenon, <2>4, <2>5, <2>6 DEF IInv
<1>. QED  BY Zenon, <1>2, <1>3

LEMMA RestartStep ==
    ASSUME IInv, Restart PROVE IInv'
<1>1. /\ pc = "off" /\ pc' = "idle" /\ inited' \in BOOLEAN
      /\ UNCHANGED <<flash, transfer, addr, data, buf4k, paddr, pdata, left, rc, out, before, cuts>>
  BY Zenon DEF Restart
<1>2. TypeOK'  BY Zenon, <1>1 DEF IInv, TypeOK
<1>3. WriteInv'  BY Zenon, <1>1 DEF WriteInv, Writing
<1>4. QuietInv'  BY Zenon, <1>1 DEF IInv, QuietInv
<1>. QED  BY Zenon, <1>2, <1>3, <1>4 DEF IInv

\* What a power cut leaves differs from the chip in one sector at most, the one of addr
\* where a call is at work.
LEMMA CutFacts ==
    ASSUME IInv, NEW f \in Interrupted, pc \notin {"idle", "off"}
    PROVE  /\ f \in Image
           /\ \/ f = flash
              \/ /\ addr \in 0 .. Size - 1
                 /\ \A x \in 0 .. Size - 1 :
                      ~(Base(addr) <= x /\ x < Base(addr) + SectorSize) => f[x] = flash[x]
<1>1. TypeOK /\ flash \in Image /\ left \in Nat  BY Zenon DEF IInv, TypeOK
<1>2. ASSUME addr \in 0 .. Size - 1, NEW d \in [1 .. SectorSize -> Byte],
             f = Overwrite(flash, Base(addr), d)
      PROVE  /\ f \in Image
             /\ \A x \in 0 .. Size - 1 :
                  ~(Base(addr) <= x /\ x < Base(addr) + SectorSize) => f[x] = flash[x]
  <2>1. d \in Seq(Byte) /\ Len(d) = SectorSize  BY Sizes
  <2>2. Base(addr) \in Nat  BY Zenon, <1>2, SectorFacts
  <2>3. /\ Overwrite(flash, Base(addr), d) \in Image
        /\ \A x \in 0 .. Size - 1 :
             Overwrite(flash, Base(addr), d)[x] =
               IF Base(addr) <= x /\ x < Base(addr) + Len(d) THEN d[x - Base(addr) + 1] ELSE flash[x]
    BY Zenon, <1>1, <2>1, <2>2, OverwriteFacts
  <2>. QED  BY Zenon, <1>2, <2>1, <2>3
<1>3. CASE pc = "erase" \/ (pc = "wipe" /\ left > 0 /\ inited)
  <2>1. addr \in 0 .. Size - 1
    <3>1. CASE pc = "erase"
      <4>1. PICK a0, d0 : Call(a0, d0)  BY Zenon, <3>1 DEF IInv, WriteInv, Writing
      <4>. QED  BY Zenon, <1>1, <4>1, CallFacts
    <3>2. CASE pc = "wipe" /\ left > 0  BY Zenon, <3>2, WipeFacts
    <3>. QED  BY Zenon, <1>3, <3>1, <3>2
  <2>2. PICK d \in [1 .. SectorSize -> Byte] : f = Overwrite(flash, Base(addr), d)
    BY Zenon, <1>3 DEF Interrupted
  <2>. QED  BY Zenon, <1>2, <2>1, <2>2
<1>4. CASE pc = "program" /\ CanProgram(Chunk(paddr, pdata))
  <2>1. PICK a0, d0 : Call(a0, d0) /\ Within(a0, d0)  BY Zenon, <1>4 DEF IInv, WriteInv, Writing
  <2>. DEFINE n == Chunk(paddr, pdata)
  <2>2. PICK d \in [1 .. n -> Byte] : f = Programmed(flash, paddr, d)
    BY Zenon, <1>4 DEF Interrupted
  <2>3. /\ paddr \in Nat /\ pdata \in Seq(Byte) /\ Len(pdata) \in Nat /\ Len(pdata) > 0
        /\ Base(addr) <= paddr /\ paddr + Len(pdata) <= Base(addr) + SectorSize
    BY <1>1, <2>1 DEF TypeOK, Within
  <2>4. n \in Nat /\ n <= Len(pdata) /\ (paddr % PageSize) + n <= PageSize  BY Zenon, <2>3, ChunkFacts
  <2>. HIDE DEF n
  <2>5. d \in Seq(Byte) /\ Len(d) = n  BY <2>4
  <2>6. addr \in 0 .. Size - 1 /\ Base(addr) \in Nat  BY Zenon, <1>1, <2>1, CallFacts, SectorFacts
  <2>7. (paddr % PageSize) + Len(d) <= PageSize  BY Zenon, <2>4, <2>5
  <2>8. /\ Programmed(flash, paddr, d) \in Image
        /\ \A x \in 0 .. Size - 1 :
             Programmed(flash, paddr, d)[x] =
               IF paddr <= x /\ x < paddr + Len(d) THEN flash[x] \cap d[x - paddr + 1] ELSE flash[x]
    BY <1>1, <2>3, <2>5, <2>7, ProgramFacts, Zenon
  <2>9. ASSUME NEW x \in 0 .. Size - 1, ~(Base(addr) <= x /\ x < Base(addr) + SectorSize)
        PROVE  f[x] = flash[x]
    <3>1. ~(paddr <= x /\ x < paddr + Len(d))
      <4>1. x \in Int  BY Sizes
      <4>. QED  BY <2>3, <2>4, <2>5, <2>6, <2>9, <4>1, Sizes
    <3>. QED  BY Zenon, <2>2, <2>8, <3>1
  <2>. QED  BY Zenon, <2>2, <2>6, <2>8, <2>9
<1>5. CASE /\ ~(pc = "erase" \/ (pc = "wipe" /\ left > 0 /\ inited))
           /\ ~(pc = "program" /\ CanProgram(Chunk(paddr, pdata)))
  <2>1. f = flash  BY Zenon, <1>5 DEF Interrupted
  <2>. QED  BY Zenon, <1>1, <2>1
<1>. QED  BY Zenon, <1>3, <1>4, <1>5

LEMMA PowerCutStep ==
    ASSUME IInv, PowerCut PROVE IInv'
<1>1. flash' \in Image  BY Zenon, CutFacts DEF PowerCut
<1>. QED  BY Zenon, <1>1, Quieted DEF IInv, TypeOK, PowerCut

LEMMA InitStep ==
    ASSUME Init PROVE IInv
<1>1. transfer \in Nat  BY Zenon, Sizes DEF Init
<1>2. TypeOK  BY <1>1 DEF Init, TypeOK, Image
<1>3. WriteInv  BY Zenon DEF Init, WriteInv, Writing
<1>4. QuietInv  BY Zenon DEF Init, QuietInv
<1>. QED  BY Zenon, <1>2, <1>3, <1>4 DEF IInv

LEMMA NextStep ==
    ASSUME IInv, [Next]_vars PROVE IInv'
<1>1. CASE UNCHANGED vars
  <2>1. TypeOK'  BY Zenon, <1>1 DEF IInv, TypeOK, vars
  <2>2. WriteInv'
    <3>. SUFFICES ASSUME pc \in Writing PROVE WriteInv'  BY Zenon, <1>1 DEF WriteInv, vars
    <3>1. PICK a0, d0 : /\ Call(a0, d0)
                        /\ pc # "program" => Ahead(a0, d0)
                        /\ pc = "program" => Within(a0, d0)
      BY Zenon DEF IInv, WriteInv
    <3>2. Call(a0, d0)'  BY Zenon, <1>1, <3>1 DEF Call, vars
    <3>3. \A e, x : Reached(a0, d0, e, x)' = Reached(a0, d0, e, x)
      BY Zenon, <1>1 DEF Reached, Target, vars
    <3>4. Remain(addr, data)' = Remain(addr, data) /\ Base(addr)' = Base(addr)
      BY Zenon, <1>1 DEF Remain, Offset, Base, SectorOf, vars
    <3>5. Ahead(a0, d0) => Ahead(a0, d0)'  BY Zenon, <1>1, <3>3, <3>4 DEF Ahead, vars
    <3>6. Within(a0, d0) => Within(a0, d0)'  BY Zenon, <1>1, <3>3, <3>4 DEF Within, vars
    <3>7. pc' = pc  BY Zenon, <1>1 DEF vars
    <3>. QED  BY Zenon, <3>1, <3>2, <3>5, <3>6, <3>7 DEF WriteInv
  <2>3. QuietInv'  BY Zenon, <1>1 DEF IInv, QuietInv, CanRead, vars
  <2>. QED  BY Zenon, <2>1, <2>2, <2>3 DEF IInv
<1>2. CASE Driver
  BY Zenon, <1>2, ReadSectorStep, CheckSectorStep, EraseSectorStep, PageProgramStep, EraseNextStep,
     ReadReturnsStep
     DEF Driver
<1>. QED
  BY Zenon, <1>1, <1>2, WriteStep, ReadStep, EraseStep, PowerCutStep, RestartStep DEF Next

-----------------------------------------------------------------------------
(* Every step is a step of the byte store, or none.                        *)

\* The store as the refinement sees it.
View == IF pc \in Writing THEN before ELSE flash

LEMMA Stutter ==
    ASSUME View' = View, out' = out, pc # "off", pc' # "off"
    PROVE  UNCHANGED Store!vars
BY Zenon DEF View, Writing, Store!vars

\* Outside the sector at work, what is below is written and what is above is untouched.
LEMMA OutsideSector ==
    ASSUME IInv, pc \in Writing, NEW a0, NEW d0, Call(a0, d0),
           pc # "program" => Ahead(a0, d0), pc = "program" => Within(a0, d0),
           NEW x \in 0 .. Size - 1, ~(Base(addr) <= x /\ x < Base(addr) + SectorSize)
    PROVE  flash[x] = IF x < Base(addr) THEN Target(a0, d0, x) ELSE before[x]
<1>1. TypeOK  BY Zenon DEF IInv
<1>2. addr \in 0 .. Size - 1 /\ addr \in Nat  BY Zenon, <1>1, CallFacts DEF TypeOK
<1>3. /\ Base(addr) \in Nat /\ Base(addr) <= addr /\ addr < Base(addr) + SectorSize
      /\ x \in Int /\ SectorSize \in Nat
  BY <1>2, SectorFacts, Sizes
<1>4. CASE pc # "program"
  <2>1. flash[x] = Reached(a0, d0, addr, x)  BY Zenon, <1>4 DEF Ahead
  <2>2. x < Base(addr) <=> x < addr  BY <1>2, <1>3
  <2>. QED  BY Zenon, <2>1, <2>2 DEF Reached
<1>5. CASE pc = "program"
  <2>. DEFINE end == addr + Remain(addr, data)
  <2>1. /\ Base(addr) <= paddr /\ paddr + Len(pdata) <= Base(addr) + SectorSize
        /\ flash[x] = IF paddr <= x /\ x < paddr + Len(pdata) THEN Erased ELSE Reached(a0, d0, end, x)
        /\ paddr \in Nat /\ Len(pdata) \in Nat
    BY <1>1, <1>5 DEF Within, TypeOK
  <2>2. end \in Nat /\ addr < end /\ end <= Base(addr) + SectorSize
    BY <1>1, <1>2, CallBytes
  <2>. HIDE DEF end
  <2>3. ~(paddr <= x /\ x < paddr + Len(pdata))  BY <1>3, <2>1
  <2>4. x < Base(addr) <=> x < end  BY <1>2, <1>3, <2>2
  <2>. QED  BY Zenon, <2>1, <2>3, <2>4 DEF Reached
<1>. QED  BY Zenon, <1>4, <1>5

\* The abstract sectors are the chip's.
LEMMA SectorCount == Size \div SectorSize = Sectors
<1>1. /\ Size \in Nat /\ SectorSize \in Nat \ {0} /\ Sectors \in Nat
      /\ Sectors * SectorSize <= Size /\ Size < Sectors * SectorSize + SectorSize
  BY Sizes
<1>. QED  BY Zenon, <1>1, DivUnique

\* A power cut costs the sector it meets.
LEMMA CutRefines ==
    ASSUME IInv, PowerCut PROVE Store!Next
<1>. DEFINE s == SectorOf(addr)
<1>1. /\ pc \notin {"idle", "off"} /\ pc' = "off" /\ flash' \in Interrupted /\ out' = << >>
  BY Zenon DEF PowerCut
<1>2. TypeOK /\ View \in Image /\ flash \in Image  BY Zenon DEF IInv, TypeOK, View
<1>3. /\ flash' \in Image
      /\ \/ flash' = flash
         \/ /\ addr \in 0 .. Size - 1
            /\ \A x \in 0 .. Size - 1 :
                 ~(Base(addr) <= x /\ x < Base(addr) + SectorSize) => flash'[x] = flash[x]
  BY Zenon, <1>1, CutFacts
<1>4. View' = flash' /\ DOMAIN View = 0 .. Size - 1  BY Zenon, <1>1, <1>2 DEF View, Writing, Image
<1>5. ASSUME NEW a \in 0 .. Size - 1, NEW d \in Store!Runs, a + Len(d) <= Size,
             NEW q \in 0 .. Sectors - 1,
             \A x \in 0 .. Size - 1 :
               \/ x \div SectorSize = q
               \/ flash'[x] = IF x < q * SectorSize THEN Overwrite(View, a, d)[x] ELSE View[x]
      PROVE  Store!Cut(a, d)
  <2>1. q \in 0 .. (Size \div SectorSize) - 1  BY Zenon, <1>5, SectorCount
  <2>2. \A x \in DOMAIN View :
          \/ x \div SectorSize = q
          \/ View'[x] = IF x < q * SectorSize THEN Store!Overwrite(View, a, d)[x] ELSE View[x]
    BY Zenon, <1>4, <1>5 DEF Overwrite
  <2>. QED  BY Zenon, <1>1, <1>5, <2>1, <2>2 DEF Store!Cut, View, Writing
<1>6. ASSUME NEW x \in 0 .. Size - 1, addr \in 0 .. Size - 1, x \div SectorSize # s
      PROVE  /\ ~(Base(addr) <= x /\ x < Base(addr) + SectorSize) /\ Base(addr) = s * SectorSize
             /\ flash'[x] = flash[x] /\ s \in 0 .. Sectors - 1
  <2>1. s \in 0 .. Sectors - 1 /\ s \in Nat /\ Base(addr) = s * SectorSize /\ x \in Nat
    BY <1>6, SectorFacts, Sizes
  <2>2. ~(Base(addr) <= x /\ x < Base(addr) + SectorSize)
    BY Zenon, <1>6, <2>1, InSector
  <2>. QED  BY Zenon, <1>3, <2>1, <2>2
<1>7. CASE pc \in Writing
  <2>1. PICK a0, d0 : /\ Call(a0, d0)
                      /\ pc # "program" => Ahead(a0, d0)
                      /\ pc = "program" => Within(a0, d0)
    BY Zenon, <1>7 DEF IInv, WriteInv
  <2>2. /\ addr \in 0 .. Size - 1 /\ a0 \in 0 .. Size - 1 /\ d0 \in Store!Runs
        /\ a0 + Len(d0) <= Size /\ a0 \in Nat /\ d0 \in Seq(Byte)
    BY Zenon, <1>2, <2>1, CallFacts DEF Call
  <2>3. s \in 0 .. Sectors - 1  BY Zenon, <2>2, SectorFacts
  <2>4. ASSUME NEW x \in 0 .. Size - 1, x \div SectorSize # s
        PROVE  flash'[x] = IF x < s * SectorSize THEN Overwrite(View, a0, d0)[x] ELSE View[x]
    <3>1. /\ ~(Base(addr) <= x /\ x < Base(addr) + SectorSize) /\ Base(addr) = s * SectorSize
          /\ flash'[x] = flash[x]
      BY Zenon, <1>6, <2>2, <2>4
    <3>2. flash[x] = IF x < Base(addr) THEN Target(a0, d0, x) ELSE before[x]
      BY Zenon, <1>7, <2>1, <3>1, OutsideSector
    <3>3. View = before  BY Zenon, <1>7 DEF View
    <3>4. Overwrite(View, a0, d0)[x] = Target(a0, d0, x)
      BY Zenon, <1>2, <2>2, <3>3, OverwriteFacts DEF Target
    <3>. QED  BY Zenon, <3>1, <3>2, <3>3, <3>4
  <2>5. Store!Cut(a0, d0)  BY Zenon, <1>5, <2>2, <2>3, <2>4
  <2>. QED  BY Zenon, <2>2, <2>5 DEF Store!Next
<1>8. CASE pc \notin Writing
  <2>1. View = flash  BY Zenon, <1>8 DEF View
  <2>2. 0 \in 0 .. Size - 1 /\ 0 \in 0 .. Sectors - 1 /\ 0 + Len(<< >>) <= Size  BY Sizes
  <2>3. << >> \in Store!Runs
    <3>1. << >> \in [1 .. 0 -> Byte] /\ 0 \in 0 .. MaxLen  BY Sizes
    <3>. QED  BY Zenon, <3>1 DEF Store!Runs
  <2>4. \A x \in 0 .. Size - 1 : Overwrite(View, 0, << >>)[x] = View[x]
    <3>. SUFFICES ASSUME NEW x \in 0 .. Size - 1 PROVE Overwrite(View, 0, << >>)[x] = View[x]
      BY Zenon
    <3>1. << >> \in Seq(Byte) /\ 0 \in Nat /\ Len(<< >>) = 0  OBVIOUS
    <3>2. ~(0 <= x /\ x < 0 + 0)  BY Sizes
    <3>3. Overwrite(View, 0, << >>)[x] =
            IF 0 <= x /\ x < 0 + Len(<< >>) THEN << >>[x - 0 + 1] ELSE View[x]
      BY Zenon, <1>2, <3>1, OverwriteFacts
    <3>. QED  BY Zenon, <3>1, <3>2, <3>3
  <2>5. \E q \in 0 .. Sectors - 1 :
          \A x \in 0 .. Size - 1 : x \div SectorSize = q \/ flash'[x] = View[x]
    <3>1. CASE flash' = flash  BY Zenon, <2>1, <2>2, <3>1
    <3>2. CASE flash' # flash
      <4>1. addr \in 0 .. Size - 1  BY Zenon, <1>3, <3>2
      <4>2. s \in 0 .. Sectors - 1  BY Zenon, <4>1, SectorFacts
      <4>3. \A x \in 0 .. Size - 1 : x \div SectorSize = s \/ flash'[x] = View[x]
        BY Zenon, <1>6, <2>1, <4>1
      <4>. QED  BY Zenon, <4>2, <4>3
    <3>. QED  BY Zenon, <3>1, <3>2
  <2>6. Store!Cut(0, << >>)  BY <1>5, <2>2, <2>3, <2>4, <2>5
  <2>. QED  BY Zenon, <2>2, <2>3, <2>6 DEF Store!Next
<1>. QED  BY Zenon, <1>7, <1>8

LEMMA SameImage ==
    ASSUME NEW f \in Image, NEW g \in Image, \A x \in 0 .. Size - 1 : f[x] = g[x]
    PROVE  f = g
<1>1. DOMAIN f = 0 .. Size - 1 /\ DOMAIN g = 0 .. Size - 1  BY Zenon DEF Image
<1>2. f = [x \in DOMAIN f |-> f[x]] /\ g = [x \in DOMAIN g |-> g[x]]  BY Zenon DEF Image
<1>. QED  BY <1>1, <1>2, Zenon

\* The last page of a call that writes completes it.
LEMMA ProgramRefines ==
    ASSUME IInv, a_w25qxx_page_program PROVE [Store!Next]_(Store!vars)
<1>. DEFINE n == Chunk(paddr, pdata)
            r == Remain(addr, data)
<1>1. /\ pc = "program" /\ pc \in Writing /\ out' = out
      /\ TypeOK /\ CanRead(SectorSize) /\ View = before
  BY Zenon DEF a_w25qxx_page_program, IInv, QuietInv, View, Writing
<1>2. PICK a0, d0 : Call(a0, d0) /\ Within(a0, d0)
  BY Zenon, <1>1 DEF IInv, WriteInv
<1>3. CanProgram(n) /\ flash' = Programmed(flash, paddr, SubSeq(pdata, 1, n))
  BY Zenon, <1>1, <1>2, ProgramChunk DEF a_w25qxx_page_program
<1>4. CASE Len(pdata) # n \/ Len(data) # r
  <2>1. pc' \in Writing /\ pc' # "off" /\ before' = before
    BY Zenon, <1>1, <1>3, <1>4 DEF a_w25qxx_page_program, NextSector, Writing
  <2>2. UNCHANGED Store!vars  BY Zenon, <1>1, <2>1, Stutter DEF View
  <2>. QED  BY Zenon, <2>2
<1>5. CASE Len(pdata) = n /\ Len(data) = r
  <2>1. pc' = "idle" /\ View' = flash'
    BY Zenon, <1>1, <1>3, <1>5 DEF a_w25qxx_page_program, NextSector, Return, View, Writing
  <2>2. /\ a0 \in 0 .. Size - 1 /\ d0 \in Store!Runs /\ a0 + Len(d0) <= Size
        /\ r \in Nat /\ addr \in Nat /\ a0 \in Nat /\ d0 \in Seq(Byte) /\ addr + r = a0 + Len(d0)
    BY Zenon, <1>1, <1>2, <1>5, CallFacts DEF Call, TypeOK
  <2>3. flash' = Overwrite(before, a0, d0)
    <3>1. /\ flash' \in Image /\ Overwrite(before, a0, d0) \in Image
      BY Zenon, <1>1, <1>2, <1>3, <2>2, ProgramChunk, OverwriteFacts DEF TypeOK
    <3>2. ASSUME NEW x \in 0 .. Size - 1
          PROVE  flash'[x] = Overwrite(before, a0, d0)[x]
      <4>1. flash'[x] = Reached(a0, d0, addr + r, x)
        <5>1. /\ paddr \in Nat /\ n \in Nat /\ x \in Int
              /\ flash'[x] = IF paddr + n <= x /\ x < paddr + Len(pdata)
                                THEN Erased ELSE Reached(a0, d0, addr + r, x)
          BY <1>1, <1>2, <1>3, ProgramChunk DEF TypeOK
        <5>2. ~(paddr + n <= x /\ x < paddr + n)
          <6>. HIDE DEF n
          <6>. QED  BY <5>1
        <5>. QED  BY Zenon, <1>5, <5>1, <5>2
      <4>2. Overwrite(before, a0, d0)[x] = Target(a0, d0, x)
        <5>1. before \in Image  BY Zenon, <1>1 DEF TypeOK
        <5>. QED  BY Zenon, <5>1, <2>2, OverwriteFacts DEF Target
      <4>3. x >= a0 + Len(d0) => Target(a0, d0, x) = before[x]
        <5>1. a0 + Len(d0) \in Int /\ x \in Int  BY <2>2
        <5>. QED  BY <5>1 DEF Target
      <4>4. x < addr + r \/ x >= a0 + Len(d0)  BY <2>2
      <4>. QED  BY Zenon, <4>1, <4>2, <4>3, <4>4 DEF Reached
    <3>3. \A x \in 0 .. Size - 1 : flash'[x] = Overwrite(before, a0, d0)[x]  BY Zenon, <3>2
    <3>. QED  BY Zenon, <3>1, <3>3, SameImage
  <2>4. Store!Write(a0, d0)
    BY Zenon, <1>1, <2>1, <2>2, <2>3 DEF Store!Write, Overwrite, View, Writing
  <2>. QED  BY Zenon, <2>2, <2>4 DEF Store!Next
<1>. QED  BY Zenon, <1>4, <1>5

LEMMA EraseRefines ==
    ASSUME IInv, EraseNext PROVE [Store!Next]_(Store!vars)
<1>1. pc = "wipe" /\ out' = out /\ View = flash /\ TypeOK
  BY Zenon DEF EraseNext, View, Writing, IInv
<1>2. CASE left = 0 \/ ~inited
  <2>1. pc' \in {"idle", "wipe"} /\ flash' = flash
    BY Zenon, <1>1, <1>2 DEF EraseNext, Return
  <2>2. UNCHANGED Store!vars  BY Zenon, <1>1, <2>1, Stutter DEF View, Writing
  <2>. QED  BY Zenon, <2>2
<1>3. CASE left # 0 /\ inited
  <2>1. pc' = "wipe" /\ flash' = EraseSector(flash, addr)
    BY Zenon, <1>1, <1>3 DEF EraseNext
  <2>2. PICK q \in Nat : addr = q * SectorSize /\ q + left <= Sectors
    BY Zenon, <1>1 DEF IInv, QuietInv
  <2>3. q \in 0 .. (Size \div SectorSize) - 1
    BY <1>1, <1>3, <2>2, SectorCount, Sizes DEF TypeOK
  <2>4. SectorOf(addr) = q
    BY <1>1, <2>2, Sizes, DivUnique DEF SectorOf, TypeOK
  <2>5. Store!Erase(q)
    BY Zenon, <1>1, <2>1, <2>2, <2>4 DEF Store!Erase, EraseSector, Base, Overwrite, View, Writing
  <2>. QED  BY Zenon, <2>3, <2>5 DEF Store!Next
<1>. QED  BY Zenon, <1>2, <1>3

\* A call starts, and the sector it meets is read, checked and erased, unseen.
LEMMA UnseenSteps ==
    ASSUME IInv,
           \/ \E a \in 0 .. Size - 1, d \in Store!Runs \ {<< >>} : w25q_write(a, d)
           \/ \E q \in 0 .. Sectors - 1, n \in 1 .. Sectors : w25q_erase(q, n)
           \/ ReadSector \/ CheckSector \/ a_w25qxx_erase_sector
    PROVE  UNCHANGED Store!vars
<1>1. ASSUME NEW a, NEW d, w25q_write(a, d) PROVE UNCHANGED Store!vars
  BY Zenon, <1>1, Stutter DEF w25q_write, Return, View, Writing, IInv, QuietInv
<1>2. ASSUME NEW q, NEW n, w25q_erase(q, n) PROVE UNCHANGED Store!vars
  BY Zenon, <1>2, Stutter DEF w25q_erase, View, Writing
<1>3. ASSUME ReadSector PROVE UNCHANGED Store!vars
  BY Zenon, <1>3, Stutter DEF ReadSector, Return, View, Writing, IInv, QuietInv
<1>4. ASSUME CheckSector PROVE UNCHANGED Store!vars
  BY Zenon, <1>4, Stutter DEF CheckSector, View, Writing
<1>5. ASSUME a_w25qxx_erase_sector PROVE UNCHANGED Store!vars
  BY Zenon, <1>5, Stutter DEF a_w25qxx_erase_sector, View, Writing
<1>. QED  BY Zenon, <1>1, <1>2, <1>3, <1>4, <1>5

LEMMA ReadRefines ==
    ASSUME IInv, NEW a \in 0 .. Size - 1, NEW n \in 1 .. MaxLen, w25q_read(a, n)
    PROVE  [Store!Next]_(Store!vars)
<1>1. pc = "idle" /\ pc' = "answer" /\ View' = View /\ View = flash /\ a + n <= Size
  BY Zenon DEF w25q_read, View, Writing
<1>2. CASE inited /\ CanRead(n)
  <2>1. Store!Read(a, n)
    BY Zenon, <1>1, <1>2 DEF w25q_read, Store!Read, Slice, View, Writing
  <2>. QED  BY Zenon, <2>1 DEF Store!Next
<1>3. CASE ~(inited /\ CanRead(n))
  BY Zenon, <1>1, <1>3, Stutter DEF w25q_read
<1>. QED  BY Zenon, <1>2, <1>3

LEMMA InitRefines ==
    ASSUME Init PROVE Store!Init
<1>1. pc = "idle" /\ flash \in [0 .. Size - 1 -> Byte] /\ out = << >>  BY Zenon DEF Init
<1>2. (pc = "off") = FALSE  BY Zenon, <1>1
<1>. QED  BY Zenon, <1>1, <1>2 DEF Store!Init

LEMMA StepRefines ==
    ASSUME IInv, [Next]_vars PROVE [Store!Next]_(Store!vars)
<1>1. ASSUME ReadReturns PROVE [Store!Next]_(Store!vars)
  <2>1. Store!Returned  BY Zenon, <1>1 DEF ReadReturns, Store!Returned
  <2>. QED  BY Zenon, <2>1 DEF Store!Next
<1>2. ASSUME Restart PROVE [Store!Next]_(Store!vars)
  <2>1. Store!PowerBack  BY Zenon, <1>2 DEF Restart, Store!PowerBack
  <2>. QED  BY Zenon, <2>1 DEF Store!Next
<1>3. ASSUME Driver PROVE [Store!Next]_(Store!vars)
  <2>1. CASE ReadSector \/ CheckSector \/ a_w25qxx_erase_sector  BY Zenon, <2>1, UnseenSteps
  <2>. QED  BY Zenon, <1>1, <1>3, <2>1, ProgramRefines, EraseRefines DEF Driver
<1>4. ASSUME UNCHANGED vars PROVE UNCHANGED Store!vars
  BY Zenon, <1>4 DEF vars, Store!vars
<1>5. ASSUME \E a \in 0 .. Size - 1, n \in 1 .. MaxLen : w25q_read(a, n)
      PROVE  [Store!Next]_(Store!vars)
  BY Zenon, <1>5, ReadRefines
<1>6. ASSUME \/ \E a \in 0 .. Size - 1, d \in Store!Runs \ {<< >>} : w25q_write(a, d)
             \/ \E q \in 0 .. Sectors - 1, n \in 1 .. Sectors : w25q_erase(q, n)
      PROVE  [Store!Next]_(Store!vars)
  BY Zenon, <1>6, UnseenSteps
<1>. QED  BY Zenon, <1>2, <1>3, <1>4, <1>5, <1>6, CutRefines DEF Next
-----------------------------------------------------------------------------
(* What a call of w25qxx_write has stored, byte by byte, wherever the loop *)
(* over sectors and pages stands, and what buf_4k holds while its sector   *)
(* is erased.                                                              *)
THEOREM DriverInvariant == Spec => []IInv
<1>1. Init => IInv  BY Zenon, InitStep
<1>2. IInv /\ [Next]_vars => IInv'  BY Zenon, NextStep
<1>. QED  BY <1>1, <1>2, PTL DEF Spec

(* The driver implements the byte store: w25q_write stores the whole call  *)
(* at its last page program and nothing before it, or changes nothing;     *)
(* w25q_erase empties its sectors one by one; w25q_read returns what is    *)
(* stored; a power cut costs at most the sector at work.                   *)
THEOREM DriverImplementsStore == Spec => ImplementsStore
<1>1. Init => Store!Init  BY Zenon, InitRefines
<1>2. IInv /\ [Next]_vars => [Store!Next]_(Store!vars)  BY Zenon, StepRefines
<1>. QED  BY <1>1, <1>2, DriverInvariant, PTL DEF Spec, ImplementsStore, Store!Spec
=============================================================================

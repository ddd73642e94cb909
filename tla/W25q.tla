-------------------------------- MODULE W25q --------------------------------
(***************************************************************************)
(* The external flash under the database: the four operations fdb_port.c   *)
(* gives the flash abstraction layer (w25q_read, w25q_write, w25q_erase    *)
(* and the outcome of w25q_init), the driver's w25qxx_write with its       *)
(* read-check-erase-program loop over sectors and pages, the SPI interface *)
(* with its fixed transfer buffer, and a NOR chip that can lose power in   *)
(* the middle of an erase or of a page program.                            *)
(*                                                                         *)
(* A byte is the set of its one bits: an erased byte is Bits (0xFF), and   *)
(* programming can only clear bits.  The driver runs in plain SPI with     *)
(* three-byte addresses (W25Q64), the configuration w25q_init selects.     *)
(***************************************************************************)
EXTENDS Integers, Sequences, FiniteSetsExt

CONSTANTS Bits,         \* the bits of a byte (eight in the chip)
          Sectors,      \* sectors of the chip
          SectorSize,   \* 4096
          PageSize,     \* 256
          Transfers,    \* sizes the buffer of the SPI interface may be built with
          MaxLen,       \* longest run a caller reads or writes
          MaxCuts       \* power cuts in a behaviour

ASSUME FlashAssumption ==
  /\ PageSize \in Nat \ {0} /\ SectorSize \in Nat /\ SectorSize % PageSize = 0
  /\ {Sectors, SectorSize, MaxLen} \cup Transfers \subseteq Nat \ {0}
  /\ MaxCuts \in Nat

Size == Sectors * SectorSize
Byte == SUBSET Bits
Erased == Bits

VARIABLES
  flash,    \* the chip's bytes
  transfer, \* SPI_BUFFER_SIZE of w25qxx_interface.c
  inited,   \* handle->inited: whether w25qxx_init found the chip
  pc,       \* where the call in progress stands
  addr,     \* the driver's addr: next byte to write, or sector to erase
  data,     \* bytes of the caller still to write
  buf4k,    \* handle->buf_4k
  paddr,    \* address and
  pdata,    \*   bytes that a_w25qxx_write_no_check has still to program
  left,     \* sectors w25q_erase has still to erase
  rc,       \* what the driver returned to the port, which drops it
  out,      \* the buffer a read returns
  before,   \* history: the chip when the call began
  cuts      \* power cuts so far

vars == <<flash, transfer, inited, pc, addr, data, buf4k, paddr, pdata, left, rc, out,
          before, cuts>>

Store == INSTANCE ByteStore
           WITH store <- IF pc \in {"read", "check", "erase", "program"} THEN before ELSE flash,
                got <- out,
                down <- pc = "off"

Overwrite(f, a, d) == Store!Overwrite(f, a, d)
Slice(f, a, n) == Store!Slice(f, a, n)

SectorOf(a) == a \div SectorSize
Base(a) == SectorOf(a) * SectorSize
Offset(a) == a % SectorSize

(* Bytes of the call that lie in the sector of addr (sec_remain). *)
Remain(a, d) == Min({Len(d), SectorSize - Offset(a)})

(* Fault: a chunk may cross the end of the page. *)
Chunk_WholePage(a, d) == Min({Len(d), PageSize})

(* Bytes up to the end of the page of a (page_remain). *)
Chunk(a, d) == Min({Len(d), PageSize - (a % PageSize)})

(* w25qxx_interface_spi_qspi_write_read refuses what its buffer cannot     *)
(* carry: four bytes of command and address to program, five to read.      *)
CanProgram(n) == 4 + n <= transfer
CanRead(n) == 5 + n <= transfer

(* The chip's page program: bits are cleared, never set, and an address    *)
(* past the end of the page wraps to its start.                            *)
Programmed(f, a, d) ==
  LET page == (a \div PageSize) * PageSize
      at(i) == page + ((a + i - 1) % PageSize)
  IN  [x \in DOMAIN f |->
         f[x] \cap {b \in Bits : \A i \in 1 .. Len(d) : at(i) = x => b \in d[i]}]

(* The chip's sector erase. *)
EraseSector(f, a) == Overwrite(f, Base(a), [i \in 1 .. SectorSize |-> Erased])
-----------------------------------------------------------------------------
Init ==
  /\ flash \in [0 .. Size - 1 -> Byte]
  /\ transfer \in Transfers
  /\ inited \in BOOLEAN
  /\ pc = "idle"
  /\ addr = 0 /\ data = << >> /\ buf4k = << >>
  /\ paddr = 0 /\ pdata = << >> /\ left = 0
  /\ rc = 0 /\ out = << >>
  /\ before = flash
  /\ cuts = 0

(* The call ends: its locals are gone, and buf_4k is not read again. *)
Return(code) ==
  /\ rc' = code
  /\ pc' = "idle"
  /\ addr' = 0 /\ data' = << >> /\ buf4k' = << >>
  /\ paddr' = 0 /\ pdata' = << >>
  /\ before' = flash'

w25q_write(a, d) ==
  /\ pc = "idle" /\ a + Len(d) <= Size
  /\ UNCHANGED <<flash, transfer, inited, left, out, cuts>>
  /\ IF inited
     THEN addr' = a /\ data' = d /\ pc' = "read" /\ UNCHANGED <<rc, buf4k, paddr, pdata, before>>
     ELSE Return(3)

ReadSector ==
  /\ pc = "read"
  /\ UNCHANGED <<flash, transfer, inited, left, out, cuts>>
  /\ IF CanRead(SectorSize)
     THEN /\ buf4k' = Slice(flash, Base(addr), SectorSize)
          /\ pc' = "check"
          /\ UNCHANGED <<addr, data, paddr, pdata, rc, before>>
     ELSE Return(4)

(* The loop that looks for a byte other than 0xFF where the call writes. *)
Blank(a, d) ==
  \A i \in 1 .. Remain(a, d) : buf4k[Offset(a) + i] = Erased

CheckSector ==
  /\ pc = "check"
  /\ IF Blank(addr, data)
     THEN /\ paddr' = addr
          /\ pdata' = SubSeq(data, 1, Remain(addr, data))
          /\ pc' = "program"
     ELSE pc' = "erase" /\ UNCHANGED <<paddr, pdata>>
  /\ UNCHANGED <<flash, transfer, inited, addr, data, buf4k, left, rc, out, before, cuts>>

(* buf_4k with the call's bytes copied in. *)
Merged(a, d) ==
  [i \in 1 .. SectorSize |->
     IF i - Offset(a) \in 1 .. Remain(a, d) THEN d[i - Offset(a)] ELSE buf4k[i]]

a_w25qxx_erase_sector ==
  /\ pc = "erase"
  /\ flash' = EraseSector(flash, addr)
  /\ buf4k' = Merged(addr, data)
  /\ paddr' = Base(addr)
  /\ pdata' = buf4k'
  /\ pc' = "program"
  /\ UNCHANGED <<transfer, inited, addr, data, left, rc, out, before, cuts>>

(* Fault: the loop does not move on. *)
NextSector_Stay == pc' = "read" /\ UNCHANGED <<addr, data, buf4k, paddr, pdata, rc, before>>

(* After the last page of a sector: the next sector, or the end. *)
NextSector ==
  IF Len(data) = Remain(addr, data)
  THEN Return(0)
  ELSE /\ addr' = addr + Remain(addr, data)
       /\ data' = SubSeq(data, Remain(addr, data) + 1, Len(data))
       /\ pc' = "read"
       /\ UNCHANGED <<buf4k, paddr, pdata, rc, before>>

a_w25qxx_page_program ==
  /\ pc = "program"
  /\ LET n == Chunk(paddr, pdata)
     IN  IF ~CanProgram(n)
         THEN UNCHANGED flash /\ Return(1)
         ELSE /\ flash' = Programmed(flash, paddr, SubSeq(pdata, 1, n))
              /\ IF Len(pdata) = n
                 THEN NextSector
                 ELSE /\ paddr' = paddr + n
                      /\ pdata' = SubSeq(pdata, n + 1, Len(pdata))
                      /\ UNCHANGED <<pc, addr, data, buf4k, rc, before>>
  /\ UNCHANGED <<transfer, inited, left, out, cuts>>

w25q_read(a, n) ==
  /\ pc = "idle" /\ a + n <= Size
  /\ pc' = "answer"
  /\ out' = IF inited /\ CanRead(n) THEN Slice(flash, a, n) ELSE out
  /\ rc' = IF ~inited THEN 3 ELSE IF CanRead(n) THEN 0 ELSE 1
  /\ UNCHANGED <<flash, transfer, inited, addr, data, buf4k, paddr, pdata, left, before, cuts>>

ReadReturns ==
  /\ pc = "answer"
  /\ pc' = "idle"
  /\ out' = << >>
  /\ UNCHANGED <<flash, transfer, inited, addr, data, buf4k, paddr, pdata, left, rc, before, cuts>>

w25q_erase(s, n) ==
  /\ pc = "idle" /\ s + n <= Sectors
  /\ addr' = s * SectorSize
  /\ left' = n
  /\ pc' = "wipe"
  /\ UNCHANGED <<flash, transfer, inited, data, buf4k, paddr, pdata, rc, out, before, cuts>>

(* One turn of w25q_erase's loop; it ignores what w25qxx_sector_erase_4k returns. *)
EraseNext ==
  /\ pc = "wipe"
  /\ IF left = 0
     THEN UNCHANGED <<flash, left>> /\ Return(rc)
     ELSE /\ flash' = IF inited THEN EraseSector(flash, addr) ELSE flash
          /\ rc' = IF inited THEN 0 ELSE 3
          /\ addr' = addr + SectorSize
          /\ left' = left - 1
          /\ UNCHANGED <<pc, data, buf4k, paddr, pdata, before>>
  /\ UNCHANGED <<transfer, inited, out, cuts>>
-----------------------------------------------------------------------------
(* What a chip can hold when the supply fails: an interrupted erase leaves *)
(* anything in its sector, an interrupted page program any part of the     *)
(* bits it was clearing.                                                   *)
Interrupted ==
  CASE pc = "erase" \/ (pc = "wipe" /\ left > 0 /\ inited) ->
         {Overwrite(flash, Base(addr), d) : d \in [1 .. SectorSize -> Byte]}
    [] pc = "program" /\ CanProgram(Chunk(paddr, pdata)) ->
         {Programmed(flash, paddr, d) :
            d \in {e \in [1 .. Chunk(paddr, pdata) -> Byte] :
                     \A i \in DOMAIN e : pdata[i] \subseteq e[i]}}
    [] OTHER -> {flash}

(* The memory of the processor is lost with the call. *)
PowerCut ==
  /\ pc \notin {"idle", "off"} /\ cuts < MaxCuts
  /\ flash' \in Interrupted
  /\ pc' = "off"
  /\ cuts' = cuts + 1
  /\ addr' = 0 /\ data' = << >> /\ buf4k' = << >>
  /\ paddr' = 0 /\ pdata' = << >> /\ left' = 0
  /\ rc' = 0 /\ out' = << >>
  /\ before' = flash'
  /\ UNCHANGED <<transfer, inited>>

(* The board comes up again, the chip found or not. *)
Restart ==
  /\ pc = "off"
  /\ inited' \in BOOLEAN
  /\ pc' = "idle"
  /\ UNCHANGED <<flash, transfer, addr, data, buf4k, paddr, pdata, left, rc, out, before, cuts>>

Driver ==
  \/ ReadSector
  \/ CheckSector
  \/ a_w25qxx_erase_sector
  \/ a_w25qxx_page_program
  \/ EraseNext
  \/ ReadReturns

Next ==
  \/ \E a \in 0 .. Size - 1, d \in Store!Runs \ {<< >>} : w25q_write(a, d)
  \/ \E a \in 0 .. Size - 1, n \in 1 .. MaxLen : w25q_read(a, n)
  \/ \E s \in 0 .. Sectors - 1, n \in 1 .. Sectors : w25q_erase(s, n)
  \/ Driver
  \/ PowerCut
  \/ Restart

Spec == Init /\ [][Next]_vars

(* The thread that made the call keeps running: the driver's steps wait    *)
(* for nothing but the chip, which answers within its data-sheet times.    *)
LiveSpec == Spec /\ WF_vars(Driver)
-----------------------------------------------------------------------------
(* Through any number of sectors and pages, erasing or not, w25qxx_write   *)
(* either stores every byte of the call and keeps every other byte of the  *)
(* chip, or reports an error and has changed nothing: the sector it saves  *)
(* in buf_4k, erases and writes back comes back whole.  A power cut costs  *)
(* at most the sector it meets.                                            *)
ImplementsStore == Store!Spec

(* Every call of the port returns: the loops over sectors and pages end,   *)
(* unless the power fails first.                                           *)
CallReturns == (pc \notin {"idle", "off"}) ~> (pc \in {"idle", "off"})
=============================================================================

------------------------------ MODULE ByteStore ------------------------------
(***************************************************************************)
(* What the flash device under the database promises its callers: a store  *)
(* of bytes in which a write replaces a run of bytes and touches no other, *)
(* an erase empties one sector, and a read returns what the store holds.   *)
(* A call that fails changes nothing.  When the power fails, the sector at *)
(* work may hold anything, those before it are written and those after it  *)
(* are as they were.                                                       *)
(***************************************************************************)
EXTENDS Integers, Sequences

CONSTANTS Size,         \* bytes in the store
          SectorSize,   \* bytes an erase empties
          Byte,         \* the values of a byte
          Erased,       \* the value of an erased byte
          MaxLen        \* longest run read or written

VARIABLES store,
          got,          \* what a read in progress returns
          down          \* the power has failed

vars == <<store, got, down>>

Runs == UNION {[1 .. n -> Byte] : n \in 0 .. MaxLen}

Overwrite(f, a, d) ==
  [x \in DOMAIN f |-> IF x \in a .. (a + Len(d) - 1) THEN d[x - a + 1] ELSE f[x]]

Slice(f, a, n) == [i \in 1 .. n |-> f[a + i - 1]]

Init == store \in [0 .. Size - 1 -> Byte] /\ got = << >> /\ down = FALSE

Write(a, d) ==
  /\ ~down
  /\ a + Len(d) <= Size
  /\ store' = Overwrite(store, a, d)
  /\ UNCHANGED <<got, down>>

Erase(s) ==
  /\ ~down
  /\ store' = Overwrite(store, s * SectorSize, [i \in 1 .. SectorSize |-> Erased])
  /\ UNCHANGED <<got, down>>

Read(a, n) ==
  /\ ~down
  /\ a + n <= Size
  /\ got' = Slice(store, a, n)
  /\ UNCHANGED <<store, down>>

Cut(a, d) ==
  /\ ~down /\ down'
  /\ a + Len(d) <= Size
  /\ \E s \in 0 .. (Size \div SectorSize) - 1 :
        \A x \in DOMAIN store :
          \/ x \div SectorSize = s
          \/ store'[x] = IF x < s * SectorSize THEN Overwrite(store, a, d)[x] ELSE store[x]
  /\ got' = << >>

PowerBack == down /\ ~down' /\ UNCHANGED <<store, got>>

Returned == got' = << >> /\ UNCHANGED <<store, down>>

Next ==
  \/ Returned
  \/ PowerBack
  \/ \E a \in 0 .. Size - 1, d \in Runs : Write(a, d) \/ Cut(a, d)
  \/ \E s \in 0 .. (Size \div SectorSize) - 1 : Erase(s)
  \/ \E a \in 0 .. Size - 1, n \in 1 .. MaxLen : Read(a, n)

Spec == Init /\ [][Next]_vars
=============================================================================

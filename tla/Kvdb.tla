-------------------------------- MODULE Kvdb --------------------------------
(***************************************************************************)
(* The key-value database of FlashDB on NOR flash: the log of KV nodes in  *)
(* the sectors, setting and deleting a key, garbage collection, and the    *)
(* recovery that fdb_kvdb_init makes after a power failure.                *)
(*                                                                         *)
(* A step makes at most one write or erase of the flash, and the power may *)
(* fail between any two steps.  The database's own lock makes its calls    *)
(* sequential, so the control state is one call stack; a frame holds the   *)
(* locals of a function and the label of its next step.                    *)
(*                                                                         *)
(* Lengths are in units of which a KV header takes HdrLen; addresses are   *)
(* pairs of a sector and an offset behind the sector header.               *)
(***************************************************************************)
EXTENDS Integers, Sequences, FiniteSets, FiniteSetsExt, TLC

CONSTANTS
    Key, Value, NoValue,
    KvLen,              \* length of the node of a value: header, name and value
    TailFF,             \* how much of the value's end is 0xFF, as erased flash is
    SectorNum, SecSize, \* the partition; SecSize is the space behind the header
    HdrLen,             \* KV_HDR_DATA_SIZE
    Threshold,          \* FDB_SEC_REMAIN_THRESHOLD
    DefaultKey, DefaultValue,
    MaxOps, MaxCrash    \* bounds: calls of the user, power failures

ASSUME KvdbAssumption ==
    /\ KvLen \in [Value -> Nat] /\ TailFF \in [Value -> Nat]
    /\ \A v \in Value : TailFF[v] + HdrLen < KvLen[v] /\ KvLen[v] + Threshold < SecSize
    /\ HdrLen \in Nat \ {0} /\ Threshold >= HdrLen
    /\ SectorNum \in Nat /\ SectorNum >= 2
    /\ DefaultKey \in Key /\ DefaultValue \in Value
    /\ NoValue \notin Value

VARIABLES
    flash,      \* sector -> [ok, store, dirty, kv]: kv maps offsets to nodes
    db,         \* struct fdb_kvdb: what a power failure loses
    stack,      \* the calls in progress, innermost first
    req, res,   \* the user's call in progress and how the last one ended
    ops, crashes

vars == <<flash, db, stack, req, res, ops, crashes>>

Sector == 0..SectorNum - 1
Offset == 0..SecSize - 1
None == <<>>

-----------------------------------------------------------------------------
(* Status tables: each status clears one more bit, so a status that was    *)
(* written stays below every later one (fdb_utils.c).                      *)

KvStatus == <<"UNUSED", "PRE_WRITE", "WRITE", "PRE_DELETE", "DELETED", "ERR_HDR">>

StatusIndex(st) == CHOOSE i \in DOMAIN KvStatus : KvStatus[i] = st

\* _fdb_write_status: programming only clears bits.
Program(st, new) == IF StatusIndex(new) > StatusIndex(st) THEN new ELSE st

\* How far the write of a node has come: its status byte, its magic word, its
\* length, and all of it.  A node whose bytes were written over later is bad.
Written == <<"status", "magic", "len", "all">>

CrcOk(n) == n.w = "all" /\ ~n.bad

\* read_kv: a node without a length counts as a header that failed.
ReadStatus(n) == IF n.w \in {"status", "magic"} THEN "ERR_HDR" ELSE n.st
ReadLen(n) == IF n.w \in {"status", "magic"} THEN HdrLen ELSE n.len

\* Fault: nodes that were being replaced are not looked for.
Unreplaced_None(n) == FALSE /\ n.bad

\* check_and_recovery_kv_cb: a node whose replacement was not completed.
Unreplaced(n) == CrcOk(n) /\ n.st = "PRE_DELETE"

\* do_gc: the nodes that have to be moved.
NeedsMove(n) == CrcOk(n) /\ n.st \in {"WRITE", "PRE_DELETE"}

\* The offset behind the last byte of a node that is not 0xFF.
LastByte(n) ==
    CASE n.w = "status" -> 1
      [] n.w = "magic" -> HdrLen
      [] n.w = "len" -> HdrLen
      [] n.w = "all" -> n.len - TailFF[n.val]

-----------------------------------------------------------------------------
(* Reading the flash.                                                      *)

Node(a) == flash[a[1]].kv[a[2]]

HasKv(s) == flash[s].ok /\ flash[s].store \in {"USING", "FULL"}

\* The nodes the walk over a sector reads: the first offset without condition,
\* the others by their magic word (get_next_kv_addr, find_next_kv_addr).
Seen(s) == {o \in DOMAIN flash[s].kv : o = 0 \/ flash[s].kv[o].w # "status"}

\* The sectors in the order of the iterators, from the oldest one.
Order == [i \in 1..SectorNum |-> (db.oldest + i - 1) % SectorNum]

Rank(a) == ((a[1] - db.oldest) % SectorNum) * SecSize + a[2]

\* The first of a set of addresses in the order of kv_iterator.
First(A) == CHOOSE a \in A : \A b \in A : Rank(a) <= Rank(b)

Nodes == UNION {{s} \X Seen(s) : s \in {t \in Sector : HasKv(t)}}

\* The nodes find_kv_cb accepts.
Live(k) == {a \in Nodes : CrcOk(Node(a)) /\ Node(a).st = "WRITE" /\ Node(a).key = k}

find_kv_no_cache(k) == IF Live(k) = {} THEN None ELSE First(Live(k))

\* get_kv_from_cache: the name on the flash is compared, the status is not.
CacheHit(k) ==
    LET a == db.cache[k]
    IN a # None /\ a[2] \in DOMAIN flash[a[1]].kv /\ Node(a).w = "all" /\ Node(a).key = k

find_kv(k) == IF CacheHit(k) THEN db.cache[k] ELSE find_kv_no_cache(k)

\* read_sector_info with traversal: the lengths of the nodes are added up, to
\* the first that is damaged; then the end moves behind the last byte that is
\* not 0xFF.  Without a node at the first offset the walk reads erased flash
\* there, as a header without a length.
empty_kv(s) ==
    LET kv == flash[s].kv
        Damaged == {o \in Seen(s) : /\ ~CrcOk(kv[o])
                                    /\ ReadStatus(kv[o]) \notin {"PRE_WRITE", "ERR_HDR"}}
        Counted == {o \in Seen(s) : \A d \in Damaged : o < d}
        sum == MapThenSumSet(LAMBDA o : ReadLen(kv[o]), Counted)
               + IF 0 \in DOMAIN kv THEN 0 ELSE HdrLen
    IN IF flash[s].store = "EMPTY" THEN 0
       ELSE Max({sum} \cup {o + LastByte(kv[o]) : o \in DOMAIN kv})

Remain(s) == IF flash[s].store = "FULL" THEN 0 ELSE SecSize - empty_kv(s)

EmptySectors == {s \in Sector : flash[s].ok /\ flash[s].store = "EMPTY"}

\* alloc_kv: the sectors in use first; the last empty one only during GC.
HasRoom(s, len) ==
    /\ Remain(s) > len + Threshold
    /\ flash[s].dirty = "FALSE" \/ (flash[s].dirty = "TRUE" /\ ~db.gc_request)

UsingWithRoom(len) ==
    {s \in Sector : flash[s].ok /\ flash[s].store = "USING" /\ HasRoom(s, len)}

\* Fault: no sector is kept for the garbage collection.
EmptyThreshold_Zero == 0

\* FDB_GC_EMPTY_SEC_THRESHOLD.
EmptyThreshold == 1

EmptyWithRoom(len) ==
    IF Cardinality(EmptySectors) > EmptyThreshold \/ db.gc_request
       THEN {s \in EmptySectors : HasRoom(s, len)}
       ELSE {}

alloc_kv(len) ==
    LET Found == IF UsingWithRoom(len) # {} THEN UsingWithRoom(len) ELSE EmptyWithRoom(len)
    IN IF Found = {} THEN None ELSE First({<<s, empty_kv(s)>> : s \in Found})

\* alloc_kv asks for a GC when only the reserved sector is left.
AllocRequestsGc(len) ==
    \/ db.gc_request
    \/ UsingWithRoom(len) = {} /\ Cardinality(EmptySectors) \in 1..EmptyThreshold

-----------------------------------------------------------------------------
(* Calls and returns.                                                      *)

Top == Head(stack)
At(l) == stack # <<>> /\ Top.pc = l

\* The frame goes on as f; it calls g first; it returns r to its caller.
Goto(f) == stack' = <<f>> \o Tail(stack)
Call(g, f) == stack' = <<g, f>> \o Tail(stack)
Return(r) ==
    stack' = IF Len(stack) = 1 THEN <<>>
             ELSE <<[stack[2] EXCEPT !.ok = r]>> \o SubSeq(stack, 3, Len(stack))

FormatFrame(s) == [pc |-> "fm_erase", s |-> s]
DelFrame(a, complete) == [pc |-> "del_status", a |-> a, complete |-> complete]
WriteFrame(a, n, inSet) == [pc |-> "w_sector", a |-> a, n |-> n, inSet |-> inSet]
MoveFrame(a) == [pc |-> "mv_start", a |-> a, n |-> Node(a), ok |-> TRUE]
GcFrame(free) == [pc |-> "gc_start", free |-> free, left |-> <<>>, last |-> 0, o |-> -1,
                  ok |-> TRUE]
LoadFrame == [pc |-> "init", left |-> <<>>, failed |-> 0, o |-> -1, ok |-> TRUE]
DefaultFrame == [pc |-> "df_format", left |-> [i \in 1..SectorNum |-> i - 1], ok |-> TRUE]
SetFrame(k, v) == [pc |-> "set_alloc", key |-> k, val |-> v, tried |-> FALSE,
                   new |-> None, old |-> None, r |-> "ok", ok |-> TRUE]
UserDelFrame(k) == [pc |-> "user_del", key |-> k, r |-> "ok", ok |-> TRUE]

user == <<req, res, ops, crashes>>

-----------------------------------------------------------------------------
(* format_sector: erase, then the header.                                  *)

Bad == [ok |-> FALSE, store |-> "UNUSED", dirty |-> "UNUSED", kv |-> <<>>]
Fresh == [ok |-> TRUE, store |-> "EMPTY", dirty |-> "FALSE", kv |-> <<>>]

FormatErase ==
    /\ At("fm_erase")
    /\ flash' = [flash EXCEPT ![Top.s] = Bad]
    /\ Goto([Top EXCEPT !.pc = "fm_hdr"])
    /\ UNCHANGED <<db, user>>

FormatHeader ==
    /\ At("fm_hdr")
    /\ flash' = [flash EXCEPT ![Top.s] = Fresh]
    /\ Return(TRUE)
    /\ UNCHANGED <<db, user>>

-----------------------------------------------------------------------------
(* del_kv: the status of the node, then the dirty mark of its sector.      *)

\* Fault: a deleted node stays in the cache.
DelStatus_KeepCache ==
    /\ At("del_status")
    /\ flash' = [flash EXCEPT ![Top.a[1]].kv[Top.a[2]].st =
                     Program(@, IF Top.complete THEN "DELETED" ELSE "PRE_DELETE")]
    /\ db' = [db EXCEPT !.last_is_complete_del = ~Top.complete]
    /\ Goto([Top EXCEPT !.pc = "del_dirty"])
    /\ UNCHANGED user

DelStatus ==
    /\ At("del_status")
    /\ flash' = [flash EXCEPT ![Top.a[1]].kv[Top.a[2]].st =
                     Program(@, IF Top.complete THEN "DELETED" ELSE "PRE_DELETE")]
    /\ db' = [db EXCEPT !.last_is_complete_del = ~Top.complete,
                        !.cache[Node(Top.a).key] =
                            IF Top.complete /\ ~db.last_is_complete_del THEN None ELSE @]
    /\ Goto([Top EXCEPT !.pc = "del_dirty"])
    /\ UNCHANGED user

DelDirty ==
    /\ At("del_dirty")
    /\ flash' = [flash EXCEPT ![Top.a[1]].dirty = IF @ = "FALSE" THEN "TRUE" ELSE @]
    /\ Return(TRUE)
    /\ UNCHANGED <<db, user>>

-----------------------------------------------------------------------------
(* The write of a node, for create_kv_blob and for move_kv.                *)

\* update_sec_status: from empty to using, and to full when little remains.
WriteSector ==
    /\ At("w_sector")
    /\ LET s == Top.a[1]
           full == flash[s].store = "USING" /\ Remain(s) - Top.n.len < Threshold
       IN /\ flash' = [flash EXCEPT ![s].store = IF full THEN "FULL" ELSE "USING"]
          /\ Goto([Top EXCEPT !.pc = "w_status", !.inSet = @ /\ full])
    /\ UNCHANGED <<db, user>>

\* The status byte; a node whose 0xFF end the new one was put on is damaged.
WriteStatus ==
    /\ At("w_status")
    /\ LET s == Top.a[1]
           new == Top.a[2]
           kv == flash[s].kv
       IN flash' = [flash EXCEPT ![s].kv =
                (new :> [Top.n EXCEPT !.st = "PRE_WRITE", !.w = "status", !.bad = FALSE])
                @@ [o \in DOMAIN kv |->
                        [kv[o] EXCEPT !.bad = @ \/ (kv[o].w = "all" /\ o < new
                                                    /\ new < o + kv[o].len)]]]
    /\ Goto([Top EXCEPT !.pc = "w_data"])
    /\ UNCHANGED <<db, user>>

\* The rest of the header, the name and the value, in the order of the bytes.
WriteData ==
    /\ At("w_data")
    /\ \E i \in 1..3 :
          /\ Node(Top.a).w = Written[i]
          /\ flash' = [flash EXCEPT ![Top.a[1]].kv[Top.a[2]].w = Written[i + 1]]
          /\ Goto([Top EXCEPT !.pc = IF i = 3 THEN "w_commit" ELSE "w_data"])
    /\ UNCHANGED <<db, user>>

\* The status WRITE; the cache now leads to the new node.
WriteCommit ==
    /\ At("w_commit")
    /\ flash' = [flash EXCEPT ![Top.a[1]].kv[Top.a[2]].st = Program(@, "WRITE")]
    /\ db' = [db EXCEPT !.cache[Top.n.key] = Top.a, !.gc_request = @ \/ Top.inSet]
    /\ Return(TRUE)
    /\ UNCHANGED user

-----------------------------------------------------------------------------
(* move_kv: Top.n is the node as it was read, its status included.         *)

MoveStart ==
    /\ At("mv_start")
    /\ LET f == [Top EXCEPT !.pc = "mv_alloc"]
       IN IF Top.n.st = "WRITE" THEN Call(DelFrame(Top.a, FALSE), f) ELSE Goto(f)
    /\ UNCHANGED <<flash, db, user>>

\* During recovery a node that has a successor is only deleted.
HasSuccessor(n) ==
    db.in_recovery_check /\ n.st = "PRE_DELETE" /\ find_kv_no_cache(n.key) # None

\* No space: the caller is told, the node stays prepared for deletion.
MoveAlloc ==
    /\ At("mv_alloc")
    /\ LET a == alloc_kv(Top.n.len)
       IN IF a = None THEN Return(FALSE)
          ELSE IF HasSuccessor(Top.n)
               THEN Goto([Top EXCEPT !.pc = "mv_del"])
               ELSE Call(WriteFrame(a, Top.n, FALSE), [Top EXCEPT !.pc = "mv_del"])
    /\ db' = [db EXCEPT !.gc_request = AllocRequestsGc(Top.n.len)]
    /\ UNCHANGED <<flash, user>>

MoveDel ==
    /\ At("mv_del")
    /\ Goto(DelFrame(Top.a, TRUE))
    /\ UNCHANGED <<flash, db, user>>

-----------------------------------------------------------------------------
(* gc_collect_by_free_size and do_gc.                                      *)

\* A GC is only made when at most the reserved sector is empty.
GcStart ==
    /\ At("gc_start")
    /\ Goto([Top EXCEPT !.pc = "gc_sector",
                        !.left = IF Cardinality(EmptySectors) <= EmptyThreshold
                                    THEN Order ELSE <<>>,
                        !.last = IF EmptySectors = {} THEN 0 ELSE Max(EmptySectors)])
    /\ UNCHANGED <<flash, db, user>>

\* The next dirty sector is marked as being collected.
GcSector ==
    /\ At("gc_sector")
    /\ Top.left # <<>>
    /\ LET s == Head(Top.left)
       IN IF flash[s].ok /\ flash[s].dirty \in {"TRUE", "GC"}
             THEN /\ flash' = [flash EXCEPT ![s].dirty = "GC"]
                  /\ Goto([Top EXCEPT !.pc = "gc_kv", !.o = -1])
             ELSE /\ Goto([Top EXCEPT !.left = Tail(@)])
                  /\ UNCHANGED flash
    /\ UNCHANGED <<db, user>>

\* Its nodes in use are moved; a move that fails is only reported.
GcMove ==
    /\ At("gc_kv")
    /\ LET s == Head(Top.left)
           Rest == {o \in Seen(s) : o > Top.o}
           o == Min(Rest)
       IN /\ Rest # {}
          /\ IF NeedsMove(flash[s].kv[o])
                THEN Call(MoveFrame(<<s, o>>), [Top EXCEPT !.o = o])
                ELSE Goto([Top EXCEPT !.o = o])
    /\ UNCHANGED <<flash, db, user>>

GcFormat ==
    /\ At("gc_kv")
    /\ {o \in Seen(Head(Top.left)) : o > Top.o} = {}
    /\ Call(FormatFrame(Head(Top.left)), [Top EXCEPT !.pc = "gc_done"])
    /\ UNCHANGED <<flash, db, user>>

\* The sector behind it is now the oldest; enough space in the sector the
\* nodes went to ends the collection.
GcDone ==
    /\ At("gc_done")
    /\ LET s == Head(Top.left)
           enough == flash[Top.last].ok /\ Remain(Top.last) > Top.free
       IN /\ db' = [db EXCEPT !.oldest = (s + 1) % SectorNum]
          /\ Goto([Top EXCEPT !.pc = "gc_sector", !.last = s,
                              !.left = IF enough THEN <<>> ELSE Tail(@)])
    /\ UNCHANGED <<flash, user>>

\* Fault: the request is not taken back.
GcEnd_KeepRequest ==
    /\ At("gc_sector")
    /\ Top.left = <<>>
    /\ Return(TRUE)
    /\ UNCHANGED <<flash, db, user>>

GcEnd ==
    /\ At("gc_sector")
    /\ Top.left = <<>>
    /\ db' = [db EXCEPT !.gc_request = FALSE]
    /\ Return(TRUE)
    /\ UNCHANGED <<flash, user>>

-----------------------------------------------------------------------------
(* set_kv and fdb_kv_del.                                                  *)

NewNode(k, v) ==
    [key |-> k, val |-> v, len |-> KvLen[v], st |-> "UNUSED", w |-> "status", bad |-> FALSE]

\* new_kv collects garbage once for a call.
GcHelps(f, request) == request /\ ~f.tried

\* new_kv: one GC when there is no space, and a second try.
SetAlloc ==
    /\ At("set_alloc")
    /\ LET len == KvLen[Top.val]
           a == alloc_kv(len)
           request == AllocRequestsGc(len)
       IN IF a # None
             THEN /\ Goto([Top EXCEPT !.pc = "set_find", !.new = a])
                  /\ db' = [db EXCEPT !.gc_request = request]
             ELSE IF GcHelps(Top, request)
             THEN /\ Call(GcFrame(len), [Top EXCEPT !.tried = TRUE])
                  /\ db' = [db EXCEPT !.gc_request = request]
             ELSE /\ Goto([Top EXCEPT !.pc = "end", !.r = "full"])
                  /\ db' = [db EXCEPT !.gc_request = FALSE]
    /\ UNCHANGED <<flash, user>>

\* Fault: the old node is deleted before the new one is written.
PrepareDelete_Complete(a) == DelFrame(a, TRUE)

\* set_kv's first del_kv.
PrepareDelete(a) == DelFrame(a, FALSE)

\* The old node is prepared for deletion before the new one is written.
SetFind ==
    /\ At("set_find")
    /\ LET a == find_kv(Top.key)
           f == [Top EXCEPT !.pc = "set_create", !.old = a]
       IN /\ IF a # None THEN Call(PrepareDelete(a), f) ELSE Goto(f)
          /\ db' = [db EXCEPT !.cache[Top.key] = IF a # None THEN a ELSE @]
    /\ UNCHANGED <<flash, user>>

SetCreate ==
    /\ At("set_create")
    /\ Call(WriteFrame(Top.new, NewNode(Top.key, Top.val), TRUE), [Top EXCEPT !.pc = "set_del"])
    /\ UNCHANGED <<flash, db, user>>

SetDel ==
    /\ At("set_del")
    /\ LET f == [Top EXCEPT !.pc = "set_gc"]
       IN IF Top.old # None THEN Call(DelFrame(Top.old, TRUE), f) ELSE Goto(f)
    /\ UNCHANGED <<flash, db, user>>

SetGc ==
    /\ At("set_gc")
    /\ LET f == [Top EXCEPT !.pc = "end"]
       IN IF db.gc_request THEN Call(GcFrame(KvLen[Top.val]), f) ELSE Goto(f)
    /\ UNCHANGED <<flash, db, user>>

UserDel ==
    /\ At("user_del")
    /\ LET a == find_kv(Top.key)
           f == [Top EXCEPT !.pc = "end", !.r = IF a # None THEN "ok" ELSE "name_err"]
       IN /\ IF a # None THEN Call(DelFrame(a, TRUE), f) ELSE Goto(f)
          /\ db' = [db EXCEPT !.cache[Top.key] = IF a # None THEN a ELSE @]
    /\ UNCHANGED <<flash, user>>

UserEnd ==
    /\ At("end")
    /\ stack' = <<>>
    /\ req' = None
    /\ res' = Top.r
    /\ UNCHANGED <<flash, db, ops, crashes>>

\* The user's calls: fdb_kv_set_blob and fdb_kv_del.
fdb_kv_set_blob(k, v) ==
    /\ stack = <<>>
    /\ ops < MaxOps
    /\ stack' = <<SetFrame(k, v)>>
    /\ req' = <<k, v>>
    /\ ops' = ops + 1
    /\ UNCHANGED <<flash, db, res, crashes>>

fdb_kv_del(k) ==
    /\ stack = <<>>
    /\ ops < MaxOps
    /\ stack' = <<UserDelFrame(k)>>
    /\ req' = <<k, NoValue>>
    /\ ops' = ops + 1
    /\ UNCHANGED <<flash, db, res, crashes>>

\* fdb_kv_get_blob: only the cache can change.
fdb_kv_get_blob(k) ==
    /\ stack = <<>>
    /\ find_kv(k) # None
    /\ db' = [db EXCEPT !.cache[k] = find_kv(k)]
    /\ UNCHANGED <<flash, stack, user>>

-----------------------------------------------------------------------------
(* fdb_kvdb_init and _fdb_kv_load.                                         *)

\* check_oldest_addr_cb over the sectors as an iterator showed them: a sector
\* in use behind an empty one is the oldest, and sector 0 by default.
OldestOf(view) ==
    LET Change == {i \in 2..Len(view) : /\ view[i - 1].store = "EMPTY"
                                        /\ view[i].store \in {"USING", "FULL"}}
    IN IF Change = {} THEN 0 ELSE view[Max(Change)].addr

\* What the iterator shows when the database looks for the oldest sector: the
\* sector cache is still zeroed memory, which answers for address 0 with a
\* sector of status 0 and of size 0, so that the iterator stays on it.
FirstView == [i \in 1..SectorNum + 1 |-> [addr |-> 0, store |-> "UNUSED"]]

EmptyCache == [k \in Key |-> None]

InitDb ==
    /\ At("init")
    /\ db' = [oldest |-> OldestOf(FirstView), gc_request |-> FALSE, cache |-> EmptyCache,
              in_recovery_check |-> TRUE, last_is_complete_del |-> FALSE]
    /\ Goto([Top EXCEPT !.pc = "ld_start"])
    /\ UNCHANGED <<flash, user>>

\* Sectors without a valid header are formatted.
LoadStart ==
    /\ At("ld_start")
    /\ Goto([Top EXCEPT !.pc = "ld_hdr", !.left = Order])
    /\ UNCHANGED <<flash, db, user>>

LoadHeader ==
    /\ At("ld_hdr")
    /\ Top.left # <<>>
    /\ LET s == Head(Top.left)
           f == [Top EXCEPT !.left = Tail(@)]
       IN IF flash[s].ok THEN Goto(f) ELSE Call(FormatFrame(s), [f EXCEPT !.failed = @ + 1])
    /\ UNCHANGED <<flash, db, user>>

\* When every header was invalid the defaults are created.
LoadDefault ==
    /\ At("ld_hdr")
    /\ Top.left = <<>>
    /\ LET f == [Top EXCEPT !.pc = "ld_gc", !.left = Order]
       IN IF Top.failed = SectorNum THEN Call(DefaultFrame, f) ELSE Goto(f)
    /\ db' = [db EXCEPT !.cache = IF Top.failed = SectorNum THEN EmptyCache ELSE @]
    /\ UNCHANGED <<flash, user>>

\* fdb_kv_set_default: format everything, create the default, oldest is 0.
DefaultFormat ==
    /\ At("df_format")
    /\ IF Top.left # <<>>
          THEN Call(FormatFrame(Head(Top.left)), [Top EXCEPT !.left = Tail(@)])
          ELSE Call(WriteFrame(alloc_kv(KvLen[DefaultValue]),
                               NewNode(DefaultKey, DefaultValue), TRUE),
                    [Top EXCEPT !.pc = "df_end"])
    /\ UNCHANGED <<flash, db, user>>

DefaultEnd ==
    /\ At("df_end")
    /\ db' = [db EXCEPT !.oldest = 0]
    /\ Return(TRUE)
    /\ UNCHANGED <<flash, user>>

\* A collection that the power failed in is resumed.
LoadGc ==
    /\ At("ld_gc")
    /\ Top.left # <<>>
    /\ LET s == Head(Top.left)
           f == [Top EXCEPT !.left = Tail(@)]
           resume == flash[s].ok /\ flash[s].dirty = "GC"
       IN /\ IF resume THEN Call(GcFrame(SectorNum * SecSize), f) ELSE Goto(f)
          /\ db' = [db EXCEPT !.gc_request = @ \/ resume]
    /\ UNCHANGED <<flash, user>>

LoadKvStart ==
    /\ \/ At("ld_gc") /\ Top.left = <<>>
       \/ At("ld_retry")
    /\ Goto([Top EXCEPT !.pc = "ld_kv", !.left = Order, !.o = -1, !.ok = TRUE])
    /\ UNCHANGED <<flash, db, user>>

\* check_and_recovery_kv_cb on the next node: TRUE ends the iteration.
LoadKv ==
    /\ At("ld_kv")
    /\ Top.ok
    /\ Top.left # <<>>
    /\ LET s == Head(Top.left)
           Rest == IF HasKv(s) THEN {o \in Seen(s) : o > Top.o} ELSE {}
           o == Min(Rest)
           n == flash[s].kv[o]
           f == [Top EXCEPT !.o = o]
       IN IF Rest = {}
             THEN /\ Goto([Top EXCEPT !.left = Tail(@), !.o = -1])
                  /\ UNCHANGED <<flash, db>>
          ELSE IF Unreplaced(n)
             THEN /\ Call(MoveFrame(<<s, o>>), f)
                  /\ UNCHANGED <<flash, db>>
          ELSE IF ReadStatus(n) = "PRE_WRITE"
             THEN /\ flash' = [flash EXCEPT ![s].kv[o].st = Program(@, "ERR_HDR")]
                  /\ Goto([f EXCEPT !.left = <<>>])
                  /\ UNCHANGED db
          ELSE /\ Goto(f)
               /\ db' = IF CrcOk(n) /\ n.st = "WRITE"
                           THEN [db EXCEPT !.cache[n.key] = <<s, o>>] ELSE db
               /\ UNCHANGED flash
    /\ UNCHANGED user

\* A GC that was asked for is made and the nodes are checked again.
LoadEnd ==
    /\ At("ld_kv")
    /\ ~Top.ok \/ Top.left = <<>>
    /\ IF db.gc_request
          THEN /\ Call(GcFrame(SectorNum * SecSize), [Top EXCEPT !.pc = "ld_retry"])
               /\ UNCHANGED db
          ELSE /\ stack' = <<>>
               /\ db' = [db EXCEPT !.in_recovery_check = FALSE]
    /\ UNCHANGED <<flash, user>>

-----------------------------------------------------------------------------
ZeroDb == [oldest |-> 0, gc_request |-> FALSE, cache |-> EmptyCache,
           in_recovery_check |-> FALSE, last_is_complete_del |-> FALSE]

\* An erased chip at the first start.
Init ==
    /\ flash = [s \in Sector |-> Bad]
    /\ db = ZeroDb
    /\ stack = <<LoadFrame>>
    /\ req = None /\ res = "none"
    /\ ops = 0 /\ crashes = 0

\* The power fails and comes back.
PowerFail ==
    /\ crashes < MaxCrash
    /\ crashes' = crashes + 1
    /\ stack' = <<LoadFrame>>
    /\ db' = ZeroDb
    /\ req' = None /\ res' = "none"
    /\ UNCHANGED <<flash, ops>>

Code ==
    \/ FormatErase \/ FormatHeader
    \/ DelStatus \/ DelDirty
    \/ WriteSector \/ WriteStatus \/ WriteData \/ WriteCommit
    \/ MoveStart \/ MoveAlloc \/ MoveDel
    \/ GcStart \/ GcSector \/ GcMove \/ GcFormat \/ GcDone \/ GcEnd
    \/ SetAlloc \/ SetFind \/ SetCreate \/ SetDel \/ SetGc \/ UserDel \/ UserEnd
    \/ InitDb \/ LoadStart \/ LoadHeader \/ LoadDefault \/ DefaultFormat \/ DefaultEnd
    \/ LoadGc \/ LoadKvStart \/ LoadKv \/ LoadEnd

User ==
    \/ \E k \in Key, v \in Value : fdb_kv_set_blob(k, v)
    \/ \E k \in Key : fdb_kv_del(k) \/ fdb_kv_get_blob(k)

Next == Code \/ User \/ PowerFail

Spec == Init /\ [][Next]_vars

\* The processor runs the code of a call to its end.
LiveSpec == Spec /\ WF_vars(Code)

-----------------------------------------------------------------------------
Idle == stack = <<>>

\* What the flash says of a key: its node in use, or the one that was being
\* replaced or moved when no other is complete.
Kept(k) == {a \in Nodes : CrcOk(Node(a)) /\ Node(a).st = "PRE_DELETE" /\ Node(a).key = k}

Stored(k) ==
    IF Live(k) # {} THEN Node(First(Live(k))).val
    ELSE IF Kept(k) # {} THEN Node(First(Kept(k))).val
    ELSE NoValue

KV == INSTANCE KvMap WITH map <- [k \in Key |-> Stored(k)]

\* What the flash holds is the map of KvMap at every step of every call, of the
\* garbage collection and of the recovery, whenever the power fails.
Implements == KV!KvSpec

\* Between calls a read returns what the flash holds: find_kv finds a complete
\* node in use with that value, by the cache or without it.
ReadBack ==
    Idle => \A k \in Key :
        LET a == find_kv(k)
        IN IF a = None THEN Stored(k) = NoValue
           ELSE CrcOk(Node(a)) /\ Node(a).st = "WRITE" /\ Node(a).val = Stored(k)

\* "check all KV for recovery": when a start or a call is over no node is left
\* half written or half deleted.
RecoveryComplete ==
    Idle => \A a \in Nodes : ReadStatus(Node(a)) \notin {"PRE_WRITE", "PRE_DELETE"}

\* "there is at least one empty sector for GC": between calls one is reserved.
EmptyReserved == Idle => EmptySectors # {}

\* Every call and every start comes to its end.
CallsEnd == []<>Idle

=============================================================================

------------------------------- MODULE QzMem -------------------------------
(***************************************************************************)
(* Memory of several threads: qzMalloc and qzFree, which tell driver       *)
(* memory from heap memory by looking the address up in a page table that  *)
(* is written under a lock and read without it, and the pool of stream     *)
(* buffers built on them (a free list and a used list shared by every      *)
(* stream of the process), until the destructor of the library gives       *)
(* everything back.                                                        *)
(*                                                                         *)
(* An address is a number; PageSz of them make a page.  Addresses below    *)
(* DriverMem are served by the driver (qaeMemAllocNUMA), the others by     *)
(* malloc: the driver keeps the pages it once mapped, so the two never     *)
(* serve the same page.                                                    *)
(***************************************************************************)
EXTENDS Integers, Sequences, SequencesExt, FiniteSets

CONSTANTS
  Threads,
  PageSz,     \* PAGE_SIZE
  DriverMem,  \* addresses of the driver
  HeapMem,    \* addresses of malloc
  Sizes,      \* sizes a thread may ask for, strm_buff_sz included
  ListSz,     \* STREAM_BUFF_LIST_SZ
  MaxCalls,   \* bound on the calls of all threads together
  MaxFaults   \* bound on qzInit, an allocation or the mapping of a level failing

None == "none"

ASSUME MemConstants ==
  /\ {PageSz, ListSz} \subseteq Nat \ {0}
  /\ {DriverMem, HeapMem, MaxCalls, MaxFaults} \subseteq Nat
  /\ Sizes \subseteq Nat \ {0}
  /\ Threads # {}
  /\ DriverMem % PageSz = 0

VARIABLES
  heap,   \* live blocks, and the addresses handed to a deallocator that does not own them
  table,  \* the pages g_qz_page_table calls PINNED
  tab,    \* g_table_init, g_qz_table_lock, and whether qzInit has run
  pool,   \* g_strm_buff_list_free and g_strm_buff_list_used
  th,     \* the threads: the call under way and what it holds
  run     \* calls made, whether a set-up was undone, whether the process ended

vars == <<heap, table, tab, pool, th, run>>

NULL == -1

Page(a) == a \div PageSz
PagesOf(a, sz) == Page(a) .. Page(a + sz - 1)
Ends(a, sz) == {Page(a), Page(a + sz - 1)}

IdleThread ==
  [pc |-> "idle", job |-> None, sz |-> 0, pinned |-> FALSE, a |-> NULL, todo |-> {},
   nodes |-> 0, slot |-> 0, in |-> NULL, out |-> NULL, open |-> FALSE, buf_len |-> 0,
   own |-> NULL]

Init ==
  /\ heap = [live |-> {}, wrong |-> {}]
  /\ table = {}
  /\ tab = [init |-> FALSE, lock |-> None, ready |-> FALSE]
  /\ pool = [free |-> << >>, used |-> << >>]
  /\ th = [t \in Threads |-> IdleThread]
  /\ run = [calls |-> 0, faults |-> 0, undone |-> FALSE, exited |-> FALSE]

At(t, pc) == th[t].pc = pc /\ ~run.exited
Step(t, r) == th' = [th EXCEPT ![t] = r]
Fault == run.faults < MaxFaults /\ run' = [run EXCEPT !.faults = @ + 1]

(***************************************************************************)
(* The two allocators.                                                     *)
(***************************************************************************)

\* The blocks an allocator may return: not overlapping a live one.
Blocks(from, sz) ==
  {[at |-> a, sz |-> sz, from |-> from] :
     a \in {x \in (IF from = "driver" THEN 0 .. DriverMem - sz
                                      ELSE DriverMem .. DriverMem + HeapMem - sz) :
              \A b \in heap.live : b.at + b.sz <= x \/ x + sz <= b.at}}

\* loadAddr: the entry of the page, whatever another thread is storing.
LoadAddr(p) == p \in table

\* qzMemFindAddr
Found(a) == LoadAddr(Page(a))

Deallocator(a) == IF Found(a) THEN "driver" ELSE "heap"

\* qzFree: the page table chooses the deallocator, which must own the block.
Freed(h, a) ==
  LET mine == {b \in h.live : b.at = a /\ b.from = Deallocator(a)}
  IN IF mine = {} THEN [h EXCEPT !.wrong = @ \cup {a}] ELSE [h EXCEPT !.live = @ \ mine]

(***************************************************************************)
(* qzMalloc, up to where its caller goes on ("got").                       *)
(***************************************************************************)

\* The page table is made at the first allocation: tested without the lock ...
TestInit(t) ==
  /\ At(t, "malloc")
  /\ Step(t, [th[t] EXCEPT !.pc = IF tab.init THEN "device" ELSE "init"])
  /\ UNCHANGED <<heap, table, tab, pool, run>>

\* Not used by any specification: the table is cleared without a second look.
ClearedWithoutRetest == {}

\* ... and again with it.
Cleared == IF tab.init THEN table ELSE {}

InitTable(t) ==
  /\ At(t, "init") /\ tab.lock = None
  /\ table' = Cleared
  /\ tab' = [tab EXCEPT !.init = TRUE]
  /\ Step(t, [th[t] EXCEPT !.pc = "device"])
  /\ UNCHANGED <<heap, pool, run>>

\* Pinned memory needs qzInit, which may fail.
Device(t) ==
  /\ At(t, "device")
  /\ \E ok \in BOOLEAN :
       /\ (~th[t].pinned \/ tab.ready) => ok
       /\ IF ok THEN UNCHANGED run ELSE Fault
       /\ tab' = [tab EXCEPT !.ready = @ \/ (th[t].pinned /\ ok)]
       /\ Step(t, [th[t] EXCEPT !.pc = IF ok THEN "alloc" ELSE "got", !.a = NULL])
  /\ UNCHANGED <<heap, table, pool>>

\* The driver has memory: it has to be registered before anyone sees it.
AllocPinned(t) ==
  /\ At(t, "alloc")
  /\ \E b \in Blocks("driver", th[t].sz) :
       /\ heap' = [heap EXCEPT !.live = @ \cup {b}]
       /\ Step(t, [th[t] EXCEPT !.pc = "register", !.a = b.at])
  /\ UNCHANGED <<table, tab, pool, run>>

\* The driver has none (or none on the node): common memory will do unless
\* the caller insists.
AllocCommon(t) ==
  /\ At(t, "alloc") /\ ~th[t].pinned
  /\ \E b \in Blocks("heap", th[t].sz) :
       /\ heap' = [heap EXCEPT !.live = @ \cup {b}]
       /\ Step(t, [th[t] EXCEPT !.pc = "got", !.a = b.at])
  /\ UNCHANGED <<table, tab, pool, run>>

\* Neither has any, or both refuse.
AllocFails(t) ==
  LET none == Blocks("driver", th[t].sz) = {} /\ (th[t].pinned \/ Blocks("heap", th[t].sz) = {})
  IN /\ At(t, "alloc")
     /\ IF none THEN UNCHANGED run ELSE Fault
     /\ Step(t, [th[t] EXCEPT !.pc = "got", !.a = NULL])
     /\ UNCHANGED <<heap, table, tab, pool>>

\* Not used by any specification: the range is not extended to the page's start.
RangeWithoutOffset(a, sz) == {Page(a) + k : k \in 0 .. (sz - 1) \div PageSz}

\* storeMmapRange: the pages from a & PAGE_MASK on, in steps of a page.
Range2Store(a, sz) == {Page(a) + k : k \in 0 .. (sz + (a % PageSz) - 1) \div PageSz}

\* qzMemRegAddr: nothing to do when the first and the last page are known.
Register(t) ==
  LET a == th[t].a  sz == th[t].sz
      known == Found(a) /\ Found(a + sz - 1)
  IN /\ At(t, "register") /\ tab.lock = None
     /\ tab' = [tab EXCEPT !.lock = IF known THEN None ELSE t]
     /\ Step(t, IF known THEN [th[t] EXCEPT !.pc = "got"]
                ELSE [th[t] EXCEPT !.pc = "store",
                                   !.todo = Range2Store(a, sz)])
     /\ UNCHANGED <<heap, table, pool, run>>

\* storeAddr for the next page, seen by lookups at once.
StorePage(t) ==
  /\ At(t, "store")
  /\ \E p \in th[t].todo :
       LET rest == th[t].todo \ {p}
       IN /\ \A q \in rest : p < q
          /\ table' = table \cup {p}
          /\ tab' = [tab EXCEPT !.lock = IF rest = {} THEN None ELSE t]
          /\ Step(t, [th[t] EXCEPT !.todo = rest, !.pc = IF rest = {} THEN "got" ELSE "store"])
  /\ UNCHANGED <<heap, pool, run>>

\* nextLevel cannot map a level: the block goes back to the driver, the
\* pages stored so far stay in the table.
StoreFails(t) ==
  /\ At(t, "store") /\ Fault
  /\ tab' = [tab EXCEPT !.lock = None]
  /\ heap' = [heap EXCEPT !.live = {b \in @ : b.at # th[t].a}]
  /\ Step(t, [th[t] EXCEPT !.pc = "got", !.todo = {}, !.a = NULL])
  /\ UNCHANGED <<table, pool>>

(***************************************************************************)
(* The pool: streamBufferAlloc.                                            *)
(***************************************************************************)

\* The first free node of the kind and large enough.
Candidates(sz, pinned) ==
  {k \in DOMAIN pool.free : pool.free[k].pinned = pinned /\ sz <= pool.free[k].sz}

\* Not used by any specification: the node stays in the free list.
TakenWithoutRemoval(k) == [pool EXCEPT !.used = Append(@, pool.free[k])]

\* removeNodeFromList, addNodeToList.
Taken(k) == [free |-> RemoveAt(pool.free, k), used |-> Append(pool.used, pool.free[k])]

\* getNodeBuffFromFreeList, under both locks.  Empty-handed the first time,
\* the thread adds nodes and looks again.
GetNode(t) ==
  LET ks == Candidates(th[t].sz, th[t].pinned)
  IN /\ th[t].pc \in {"get", "get again"} /\ ~run.exited
     /\ \/ \E k \in ks :
             /\ \A j \in ks : k <= j
             /\ pool' = Taken(k)
             /\ Step(t, [th[t] EXCEPT !.pc = "slot", !.a = pool.free[k].at])
        \/ /\ ks = {}
           /\ UNCHANGED pool
           /\ Step(t, IF th[t].pc = "get" THEN [th[t] EXCEPT !.pc = "malloc", !.nodes = 0]
                      ELSE [th[t] EXCEPT !.pc = "slot", !.a = NULL])
     /\ UNCHANGED <<heap, table, tab, run>>

\* allocSomeNodesForFreeList: up to ListSz nodes, each added by itself.
AddNode(t) ==
  /\ At(t, "got") /\ th[t].job = "stream"
  /\ IF th[t].a = NULL
     THEN /\ Step(t, [th[t] EXCEPT !.pc = "get again"]) /\ UNCHANGED pool
     ELSE /\ pool' = [pool EXCEPT !.free =
                        Append(@, [at |-> th[t].a, sz |-> th[t].sz, pinned |-> th[t].pinned])]
          /\ Step(t, [th[t] EXCEPT !.nodes = @ + 1,
                        !.pc = IF th[t].nodes + 1 < ListSz THEN "malloc" ELSE "get again"])
  /\ UNCHANGED <<heap, table, tab, run>>

\* streamBufferFree for the used node k: kept for the next stream unless the
\* free list is full.
Returned(p, h, k) ==
  IF Len(p.free) >= ListSz
  THEN [pool |-> [p EXCEPT !.used = RemoveAt(@, k)], heap |-> Freed(h, p.used[k].at)]
  ELSE [pool |-> [used |-> RemoveAt(p.used, k), free |-> Append(p.free, p.used[k])], heap |-> h]

\* The first used node with that buffer; an unknown address is ignored.
GivenBack(p, h, a) ==
  LET ks == {k \in DOMAIN p.used : p.used[k].at = a}
  IN IF ks = {} THEN [pool |-> p, heap |-> h]
     ELSE Returned(p, h, CHOOSE k \in ks : \A j \in ks : k <= j)

(***************************************************************************)
(* Streams: initStream tries pinned buffers first, then common ones.       *)
(***************************************************************************)

InitStream(t) ==
  /\ At(t, "idle") /\ ~th[t].open /\ run.calls < MaxCalls
  /\ \E sz \in Sizes :
       Step(t, [th[t] EXCEPT !.pc = "get", !.job = "stream", !.sz = sz, !.buf_len = sz,
                           !.pinned = TRUE, !.slot = 1])
  /\ run' = [run EXCEPT !.calls = @ + 1]
  /\ UNCHANGED <<heap, table, tab, pool>>

\* The buffer of slot 1 or 3 is the input's, of 2 or 4 the output's; 3 and 4
\* are the second tries, for a buffer that is still missing.
Slot(t) ==
  LET s == th[t].slot
      in == IF s \in {1, 3} THEN th[t].a ELSE th[t].in
      out == IF s \in {2, 4} THEN th[t].a ELSE th[t].out
      next == {n \in s + 1 .. 4 : n = 2 \/ (n = 3 /\ in = NULL) \/ (n = 4 /\ out = NULL)}
      held == [th[t] EXCEPT !.in = in, !.out = out, !.a = NULL]
      ok == in # NULL /\ out # NULL
  IN /\ At(t, "slot")
     /\ IF next # {}
        THEN LET n == CHOOSE n \in next : \A m \in next : n <= m
             IN /\ Step(t, [held EXCEPT !.pc = "get", !.slot = n, !.pinned = n = 2])
                /\ UNCHANGED <<heap, run>>
        ELSE IF ok
        THEN /\ Step(t, [IdleThread EXCEPT !.own = th[t].own, !.open = TRUE, !.in = in, !.out = out,
                                        !.buf_len = th[t].buf_len])
             /\ UNCHANGED <<heap, run>>
        ELSE \* clear: what was obtained is freed; its node stays in the used list
             LET got == {in, out} \ {NULL}
             IN /\ Step(t, [IdleThread EXCEPT !.own = th[t].own])
                /\ heap' = IF got = {} THEN heap ELSE Freed(heap, CHOOSE x \in got : TRUE)
                /\ run' = [run EXCEPT !.undone = @ \/ got # {}]
     /\ UNCHANGED <<table, tab, pool>>

\* qzEndStream
EndStream(t) ==
  LET one == GivenBack(pool, heap, th[t].out)
      two == GivenBack(one.pool, one.heap, th[t].in)
  IN /\ At(t, "idle") /\ th[t].open
     /\ pool' = two.pool /\ heap' = two.heap
     /\ Step(t, [IdleThread EXCEPT !.own = th[t].own])
     /\ UNCHANGED <<table, tab, run>>

(***************************************************************************)
(* The application's own memory.                                           *)
(***************************************************************************)

Malloc(t) ==
  /\ At(t, "idle") /\ th[t].own = NULL /\ run.calls < MaxCalls
  /\ \E sz \in Sizes, pinned \in BOOLEAN :
       Step(t, [th[t] EXCEPT !.pc = "malloc", !.job = "own", !.sz = sz, !.pinned = pinned])
  /\ run' = [run EXCEPT !.calls = @ + 1]
  /\ UNCHANGED <<heap, table, tab, pool>>

Got(t) ==
  /\ At(t, "got") /\ th[t].job = "own"
  /\ Step(t, [th[t] EXCEPT !.pc = "idle", !.job = None, !.sz = 0, !.pinned = FALSE,
                           !.own = th[t].a, !.a = NULL])
  /\ UNCHANGED <<heap, table, tab, pool, run>>

Free(t) ==
  /\ At(t, "idle") /\ th[t].own # NULL
  /\ heap' = Freed(heap, th[t].own)
  /\ Step(t, [th[t] EXCEPT !.own = NULL])
  /\ UNCHANGED <<table, tab, pool, run>>

\* streamBufferCleanup: the used nodes first, then the free ones.
Cleanup == pool.used \o pool.free

\* qzFree for the buffers of the nodes, one after the other: a buffer that a
\* node before has given back is not there any more.
FreedAll(h, nodes) ==
  LET Owned(k) == {b \in h.live : b.at = nodes[k].at /\ b.from = Deallocator(nodes[k].at)}
      Again(k) == \E j \in 1 .. k - 1 : nodes[j].at = nodes[k].at
      wrong == {k \in DOMAIN nodes : Owned(k) = {} \/ Again(k)}
  IN [live |-> h.live \ UNION {Owned(k) : k \in DOMAIN nodes},
      wrong |-> h.wrong \cup {nodes[k].at : k \in wrong}]

\* freePageTable: every level is unmapped, the root cleared.
FreePageTable == {}

\* The next qzMalloc would start a new table.
QzMemDestory ==
  /\ tab.lock = None
  /\ tab' = [tab EXCEPT !.init = FALSE]
  /\ table' = IF tab.init THEN FreePageTable ELSE table

\* exitFunc: the pool, then qzMemDestory.  A stream that is still open and a
\* block the application never freed do not keep the process from ending.
Exit ==
  /\ \A t \in Threads : At(t, "idle")
  /\ heap' = FreedAll(heap, Cleanup)
  /\ pool' = [free |-> << >>, used |-> << >>]
  /\ QzMemDestory
  /\ run' = [run EXCEPT !.exited = TRUE]
  /\ UNCHANGED th

Act(t) ==
  \/ TestInit(t) \/ InitTable(t) \/ Device(t) \/ AllocPinned(t) \/ AllocCommon(t)
  \/ AllocFails(t) \/ Register(t) \/ StorePage(t) \/ StoreFails(t)
  \/ GetNode(t) \/ AddNode(t) \/ InitStream(t) \/ Slot(t) \/ EndStream(t)
  \/ Malloc(t) \/ Got(t) \/ Free(t)

Next == Exit \/ \E t \in Threads : Act(t)

Spec == Init /\ [][Next]_vars

(***************************************************************************)
(* Properties.                                                             *)
(***************************************************************************)

\* Who holds addresses: a thread for itself, a stream, the free list.
Holders ==
  {<<t, h>> : t \in Threads, h \in {"own", "in", "out"}}
HeldAt(x) == th[x[1]][x[2]]

\* A buffer has one owner.  What the application got, a stream's two buffers
\* and the nodes of the free list are live blocks, pairwise different, and a
\* stream's buffers are large enough and known to the used list: with threads
\* that interleave between growing the pool and taking from it, no buffer is
\* given to two streams.  (Until initStream has undone a half finished set-up:
\* it frees the buffer and forgets the node.)
OneOwner ==
  (~run.undone /\ ~run.exited) =>
    /\ \A x, y \in Holders : (x # y /\ HeldAt(x) # NULL) => HeldAt(x) # HeldAt(y)
    /\ \A x \in Holders : HeldAt(x) # NULL =>
         /\ \E b \in heap.live : b.at = HeldAt(x)
         /\ \A k \in DOMAIN pool.free : pool.free[k].at # HeldAt(x)
         /\ x[2] # "own" =>
              \E k \in DOMAIN pool.used : /\ pool.used[k].at = HeldAt(x)
                                          /\ pool.used[k].sz >= th[x[1]].buf_len
    /\ \A l \in {"free", "used"} : \A k \in DOMAIN pool[l] :
         \E b \in heap.live : b.at = pool[l][k].at /\ b.sz = pool[l][k].sz
    /\ \A j, k \in DOMAIN pool.free : j # k => pool.free[j].at # pool.free[k].at

\* Memory is given back exactly once, to the allocator it came from: the page
\* table, read without its lock and never cleaned of freed memory, always
\* chooses the right one, no node survives its buffer, and when the process
\* ends only what the application itself did not free is left; the buffers of
\* open streams are given back too.
FreedOnce ==
  ~run.undone =>
    /\ heap.wrong = {}
    /\ run.exited => \A b \in heap.live : \E t \in Threads : th[t].own = b.at

\* A block of the driver is pinned at both ends for whoever holds it, so that
\* qzMemFindAddr knows the pointer qzMalloc returned and a request that points
\* to it may go to the device without a copy; heap memory is pinned on no page.
PinnedEnds ==
  \A x \in Holders : \A b \in heap.live :
    (HeldAt(x) = b.at /\ ~run.exited /\ ~run.undone) =>
      IF b.from = "driver" THEN Ends(b.at, b.sz) \subseteq table
      ELSE PagesOf(b.at, b.sz) \cap table = {}

\* A block of the driver is pinned on every page between its ends.  (False:
\* qzMemRegAddr takes a block for registered when its first and its last page
\* are, and those may be known from two shorter blocks before it.)
PinnedWhole ==
  \A x \in Holders : \A b \in heap.live :
    (HeldAt(x) = b.at /\ b.from = "driver" /\ ~run.exited /\ ~run.undone) =>
      PagesOf(b.at, b.sz) \subseteq table

=============================================================================

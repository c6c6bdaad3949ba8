-------------------------------- MODULE Heap --------------------------------
(***************************************************************************)
(* The small memory management of RT-Thread (mem.c): rt_malloc, rt_realloc *)
(* and rt_free on a chain of block headers, protected by a semaphore.      *)
(*                                                                         *)
(* Each action is one stretch of code under heap_sem.  Sizes and addresses *)
(* are counted in units of RT_ALIGN_SIZE from heap_ptr; sizes are those    *)
(* that callers ask for after alignment.  The chain of next runs upwards   *)
(* through all headers, which is part of HeapSound, so a walk along it     *)
(* that looks for the first block of a kind finds the lowest one.  Failing *)
(* calls change nothing and are no actions; the statistics of RT_MEM_STATS *)
(* are left out.                                                           *)
(***************************************************************************)
EXTENDS Integers, FiniteSets

CONSTANTS
    HeaderSize,     \* SIZEOF_STRUCT_MEM
    MinSize,        \* MIN_SIZE_ALIGNED, and MIN_SIZE, which is a multiple
    MemSize,        \* mem_size_aligned
    Sizes           \* the sizes that callers ask for

ASSUME HeapAssumption ==
    /\ HeaderSize \in Nat \ {0}
    /\ MinSize \in Nat \ {0}
    /\ MemSize \in Nat /\ MinSize <= MemSize
    /\ Sizes \subseteq Nat \ {0}

VARIABLES
    mem,            \* the headers in the chain, by their addresses; heap_end,
                    \* which is always in use, is not among them
    lfree,          \* "pointer to the lowest free block"
    asked,          \* the sizes callers asked for, by the blocks they hold
    moving          \* <<b, c>>: rt_realloc is about to free b, after it copied to c

heapVars == <<mem, lfree, asked, moving>>

HeapEnd == MemSize + HeaderSize

Header(used, next, prev) == [used |-> used, next |-> next, prev |-> prev]

\* rt_system_heap_init
HeapInit ==
    /\ mem = [b \in {0} |-> Header(FALSE, HeapEnd, 0)]
    /\ lfree = 0
    /\ asked = [b \in {} |-> 0]
    /\ moving = {}

-----------------------------------------------------------------------------

\* The size of the data of block b.
Room(m, b) == m[b].next - (b + HeaderSize)

\* Block b and the one behind it become one.
Joined(m, b) ==
    LET n == m[b].next
    IN  [x \in DOMAIN m \ {n} |->
           IF x = b THEN Header(m[b].used, m[n].next, m[b].prev)
           ELSE IF x = m[n].next THEN Header(m[x].used, m[x].next, b)
           ELSE m[x]]

\* Fault: a lowest free block that is joined to the one before it stays the
\* lowest free block.
PlugHolesOnly(m, l, b) ==
    LET n == m[b].next
        joined == IF n # HeapEnd /\ ~ m[n].used THEN Joined(m, b) ELSE m
        p == joined[b].prev
    IN  IF p # b /\ ~ m[p].used
          THEN [mem |-> Joined(joined, p), lfree |-> IF l = b THEN p ELSE l]
          ELSE [mem |-> joined, lfree |-> l]

\* plug_holes: the free block b is joined with free neighbours, first the one
\* behind it, then the one before it.  l is lfree.
PlugHoles(m, l, b) ==
    LET n == m[b].next
        forward == n # HeapEnd /\ ~ m[n].used
        joined == IF forward THEN Joined(m, b) ELSE m
        lowest == IF forward /\ l = n THEN b ELSE l
        p == joined[b].prev
    IN  IF p # b /\ ~ joined[p].used
          THEN [mem |-> Joined(joined, p), lfree |-> IF lowest = b THEN p ELSE lowest]
          ELSE [mem |-> joined, lfree |-> lowest]

\* Block b is cut to size, and the rest of it becomes a free block.
Split(m, b, size) ==
    LET r == b + HeaderSize + size
        n == m[b].next
    IN  [x \in DOMAIN m \cup {r} |->
           IF x = r THEN Header(FALSE, n, b)
           ELSE IF x = b THEN Header(m[b].used, r, m[b].prev)
           ELSE IF x = n THEN Header(m[x].used, m[x].next, r)
           ELSE m[x]]

WithUsed(m, b, used) ==
    [x \in DOMAIN m |-> IF x = b THEN Header(used, m[x].next, m[x].prev) ELSE m[x]]

\* b is the lowest address of the set s.
IsLowest(b, s) == b \in s /\ \A c \in s : b <= c

\* "every data block must be at least MIN_SIZE_ALIGNED long"
AtLeast(size) == IF size < MinSize THEN MinSize ELSE size

\* The free blocks from lfree on that hold size.
Fits(size) ==
    {b \in DOMAIN mem : /\ lfree <= b /\ b < MemSize - size
                        /\ ~ mem[b].used /\ Room(mem, b) >= size}

\* The free blocks from lfree on, and the end of the heap.
FreeFrom(m) == {b \in DOMAIN m : lfree <= b /\ ~ m[b].used} \cup {HeapEnd}

\* rt_malloc puts a block of at least size in b: the first one that fits.
Allocates(b, size) ==
    LET large == Room(mem, b) >= size + HeaderSize + MinSize
    IN  /\ IsLowest(b, Fits(size))
        /\ mem' = WithUsed(IF large THEN Split(mem, b, size) ELSE mem, b, TRUE)
        /\ IF b = lfree
             THEN \E f \in FreeFrom(mem') : IsLowest(f, FreeFrom(mem')) /\ lfree' = f
             ELSE UNCHANGED lfree

\* The caller that holds the blocks of s and of c asked for size in c.
Asks(s, c, size) == asked' = [x \in s \cup {c} |-> IF x = c THEN size ELSE asked[x]]

\* rt_malloc, and rt_calloc
Malloc(size) ==
    /\ size <= MemSize
    /\ \E b \in DOMAIN mem :
         Allocates(b, AtLeast(size)) /\ Asks(DOMAIN asked, b, size)
    /\ UNCHANGED moving

\* Callers use a block of theirs, outside rt_realloc.
Held(b) == b \in DOMAIN asked /\ \A mv \in moving : b \notin {mv[1], mv[2]}

\* rt_free of block b
Frees(b) ==
    LET plugged == PlugHoles(WithUsed(mem, b, FALSE), IF b < lfree THEN b ELSE lfree, b)
    IN  /\ mem' = plugged.mem
        /\ lfree' = plugged.lfree
        /\ asked' = [x \in DOMAIN asked \ {b} |-> asked[x]]

\* rt_free, and rt_realloc to the size zero
Free(b) == Held(b) /\ Frees(b) /\ UNCHANGED moving

\* rt_realloc splits the block.
Shrinks(b, size) == size + HeaderSize + MinSize < Room(mem, b)

\* rt_realloc of a block that has the size, or far more than that.
ReallocInPlace(b, size) ==
    LET plugged == PlugHoles(Split(mem, b, size), lfree, b + HeaderSize + size)
    IN  /\ Held(b) /\ size <= MemSize
        /\ \/ size = Room(mem, b) /\ UNCHANGED <<mem, lfree>>
           \/ /\ Shrinks(b, size)
              /\ mem' = plugged.mem
              /\ lfree' = plugged.lfree
        /\ Asks(DOMAIN asked, b, size)
        /\ UNCHANGED moving

\* rt_realloc of any other block releases heap_sem and calls rt_malloc; meanwhile
\* the size of a block in use is only the caller's to change.
ReallocMoves(b, size) ==
    /\ Held(b) /\ size <= MemSize
    /\ size # Room(mem, b) /\ ~ Shrinks(b, size)
    /\ \E c \in DOMAIN mem :
         /\ Allocates(c, AtLeast(size)) /\ Asks(DOMAIN asked, c, size)
         /\ moving' = moving \cup {<<b, c>>}

\* It calls rt_free after the copy.  Others may allocate and free in between.
ReallocFrees(b, c) ==
    /\ <<b, c>> \in moving
    /\ Frees(b)
    /\ moving' = moving \ {<<b, c>>}

HeapNext ==
    \/ \E size \in Sizes : Malloc(size)
    \/ \E b \in DOMAIN asked :
         \/ Free(b)
         \/ \E size \in Sizes : ReallocInPlace(b, size) \/ ReallocMoves(b, size)
    \/ \E mv \in moving : ReallocFrees(mv[1], mv[2])

HeapSpec == HeapInit /\ [][HeapNext]_heapVars

-----------------------------------------------------------------------------
(* Properties *)

\* The headers of m form a chain in both directions, from address 0 upwards to
\* the end of the heap, with the space of the block between a header and the
\* next one.
Chained(m) ==
    /\ 0 \in DOMAIN m /\ m[0].prev = 0
    /\ \A b \in DOMAIN m :
         /\ b + HeaderSize < m[b].next /\ m[b].next <= HeapEnd
         /\ m[b].next # HeapEnd => m[b].next \in DOMAIN m /\ m[m[b].next].prev = b
         /\ \A c \in DOMAIN m : ~ (b < c /\ c < m[b].next)
         /\ b # 0 => m[b].prev \in DOMAIN m /\ m[m[b].prev].next = b

\* No two neighbours are free: "plug_holes should have take care of this".
Coalesced(m) ==
    \A b \in DOMAIN m : m[b].next # HeapEnd => m[b].used \/ m[m[b].next].used

\* After any sequence of calls, the headers form a chain, no two neighbours are
\* free, lfree is a free block or the end (the assertion of rt_malloc), the
\* blocks in use are those that callers hold, and each is as large as its caller
\* asked for.
HeapSound ==
    /\ Chained(mem)
    /\ Coalesced(mem)
    /\ lfree # HeapEnd => lfree \in DOMAIN mem /\ ~ mem[lfree].used
    /\ DOMAIN asked = {b \in DOMAIN mem : mem[b].used}
    /\ \A b \in DOMAIN asked : asked[b] <= Room(mem, b)
=============================================================================

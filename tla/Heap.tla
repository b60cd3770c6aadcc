-------------------------------- MODULE Heap --------------------------------
(***************************************************************************)
(* The heap of mem.c: blocks of memory that follow each other, each behind *)
(* a header with the offsets of its neighbours, the first fit, and the     *)
(* holes that are joined when a block is freed.                            *)
(*                                                                         *)
(* Offsets and sizes count words of RT_ALIGN_SIZE.  heap_sem makes each    *)
(* of rt_malloc and rt_free one step; rt_realloc gives it back between its *)
(* parts.                                                                  *)
(***************************************************************************)
EXTENDS Integers, FiniteSetsExt, Functions

CONSTANTS
    HpUser,             \* the threads that allocate
    mem_size_aligned,
    SIZEOF_STRUCT_MEM,  \* the size of a header
    MIN_SIZE,           \* MIN_SIZE_ALIGNED, which on this machine is MIN_SIZE
    HpSizes             \* what the threads ask for

ASSUME HeapConstants ==
    /\ {mem_size_aligned, SIZEOF_STRUCT_MEM, MIN_SIZE} \subseteq Nat \ {0}
    /\ MIN_SIZE <= mem_size_aligned
    /\ HpSizes \subseteq 1 .. mem_size_aligned

VARIABLES
    hp,      \* heap: the headers, by offset; lfree: "the lowest free block"
    hpUser,  \* where each thread is in rt_realloc, its block and the new size
    given,   \* history: the blocks the threads have, and the size they asked for
    hidden   \* history: what rt_realloc split off before lfree and nothing found since

heapVars == <<hp, hpUser, given, hidden>>

heap_end == mem_size_aligned + SIZEOF_STRUCT_MEM
HpRunning == [at |-> "run", mem |-> 0, size |-> 0]

HeapInit ==
    /\ hp = [heap |-> [o \in {0, heap_end} |->
                         [used |-> o = heap_end, next |-> heap_end, prev |-> o]],
             lfree |-> 0]
    /\ hpUser = [u \in HpUser |-> HpRunning]
    /\ given = [mem \in {} |-> 0]
    /\ hidden = {}

-----------------------------------------------------------------------------

Size(h, mem) == h[mem].next - (mem + SIZEOF_STRUCT_MEM)

\* mem is in use and keeps size words; a new free block has the rest.
Split(h, mem, size) ==
    LET mem2 == mem + SIZEOF_STRUCT_MEM + size
        next == h[mem].next
    IN  [o \in DOMAIN h \cup {mem2} |->
            IF o = mem2 THEN [used |-> FALSE, next |-> next, prev |-> mem]
            ELSE IF o = mem THEN [h[o] EXCEPT !.used = TRUE, !.next = mem2]
            ELSE IF o = next /\ next # heap_end THEN [h[o] EXCEPT !.prev = mem2]
            ELSE h[o]]

\* mem takes in the block behind it.
Absorb(h, mem) ==
    LET nmem == h[mem].next
    IN  [o \in DOMAIN h \ {nmem} |->
            IF o = mem THEN [h[o] EXCEPT !.next = h[nmem].next]
            ELSE IF o = h[nmem].next THEN [h[o] EXCEPT !.prev = mem]
            ELSE h[o]]

\* Mutant: only the hole behind mem is plugged.
PlugForward(s, mem) ==
    LET nmem == s.heap[mem].next
    IN  IF s.heap[nmem].used THEN s
        ELSE [heap |-> Absorb(s.heap, mem),
              lfree |-> IF s.lfree = nmem THEN mem ELSE s.lfree]

\* A free block is joined with the free blocks behind and before it.
plug_holes(s, mem) ==
    LET nmem == s.heap[mem].next
        forward == IF s.heap[nmem].used THEN s
                   ELSE [heap |-> Absorb(s.heap, mem),
                         lfree |-> IF s.lfree = nmem THEN mem ELSE s.lfree]
        pmem == forward.heap[mem].prev
    IN  IF pmem = mem \/ forward.heap[pmem].used THEN forward
        ELSE [heap |-> Absorb(forward.heap, pmem),
              lfree |-> IF forward.lfree = mem THEN pmem ELSE forward.lfree]

\* The free blocks the loop of rt_malloc passes that are large enough.
Fitting(size) ==
    {mem \in DOMAIN hp.heap : /\ hp.lfree <= mem /\ mem < mem_size_aligned - size
                              /\ ~hp.heap[mem].used /\ Size(hp.heap, mem) >= size}

NextFree(h, mem) ==
    Min({o \in DOMAIN h : mem <= o /\ ~h[o].used} \cup {heap_end})

\* mem is given away, what it has too much of is split off.
Allocated(mem, size) ==
    LET large == Size(hp.heap, mem) >= size + SIZEOF_STRUCT_MEM + MIN_SIZE
        h == IF large THEN Split(hp.heap, mem, size)
             ELSE [hp.heap EXCEPT ![mem].used = TRUE]
    IN  [heap |-> h, lfree |-> IF mem = hp.lfree THEN NextFree(h, mem) ELSE hp.lfree]

AtLeast(size) == IF size < MIN_SIZE THEN MIN_SIZE ELSE size

\* rt_malloc; when nothing fits, RT_NULL and no change.
Malloc(size) ==
    LET n == AtLeast(size)
    IN  /\ n <= mem_size_aligned /\ Fitting(n) # {}
        /\ hp' = Allocated(Min(Fitting(n)), n)

HeapFreed(mem) ==
    plug_holes([heap |-> [hp.heap EXCEPT ![mem].used = FALSE],
                lfree |-> IF mem < hp.lfree THEN mem ELSE hp.lfree], mem)

-----------------------------------------------------------------------------

HpAt(u, at) == hpUser[u].at = at
HpGoto(u, r) == hpUser' = [hpUser EXCEPT ![u] = r]

\* The blocks a thread may give to rt_free or rt_realloc: those nobody is
\* reallocating.
Spare == DOMAIN given \ {hpUser[u].mem : u \in {v \in HpUser : ~HpAt(v, "run")}}

\* The block Malloc takes is given for size.
Give(size) ==
    LET new == Min(Fitting(AtLeast(size)))
    IN  given' = [mem \in DOMAIN given \cup {new} |-> IF mem = new THEN size ELSE given[mem]]

Without(mem) == [o \in DOMAIN given \ {mem} |-> given[o]]

\* Of the blocks split off, those that are still there and still before lfree.
Hidden(blocks) ==
    hidden' = {mem \in blocks : mem \in DOMAIN hp'.heap /\ mem < hp'.lfree}

rt_malloc(u) ==
    /\ HpAt(u, "run")
    /\ \E size \in HpSizes : Malloc(size) /\ Give(size)
    /\ Hidden(hidden)
    /\ UNCHANGED hpUser

rt_free(u) ==
    /\ HpAt(u, "run")
    /\ \E mem \in Spare : hp' = HeapFreed(mem) /\ given' = Without(mem)
    /\ Hidden(hidden)
    /\ UNCHANGED hpUser

\* rt_realloc to less, with room for another block in the rest, which may lie
\* before lfree.
ReallocShrink(u) ==
    /\ HpAt(u, "run")
    /\ \E mem \in Spare, newsize \in HpSizes :
         /\ newsize + SIZEOF_STRUCT_MEM + MIN_SIZE < Size(hp.heap, mem)
         /\ hp' = plug_holes([hp EXCEPT !.heap = Split(@, mem, newsize)],
                             mem + SIZEOF_STRUCT_MEM + newsize)
         /\ given' = [given EXCEPT ![mem] = newsize]
         /\ Hidden(hidden \cup {mem + SIZEOF_STRUCT_MEM + newsize})
    /\ UNCHANGED hpUser

\* rt_realloc to more, or to not much less: the semaphore is given back before
\* the new block is allocated, and again before the old one is freed.
ReallocMove(u) ==
    /\ HpAt(u, "run")
    /\ \E mem \in Spare, newsize \in HpSizes :
         /\ newsize # Size(hp.heap, mem)
         /\ newsize + SIZEOF_STRUCT_MEM + MIN_SIZE >= Size(hp.heap, mem)
         /\ HpGoto(u, [at |-> "malloc", mem |-> mem, size |-> newsize])
    /\ UNCHANGED <<hp, given, hidden>>

ReallocMalloc(u) ==
    /\ HpAt(u, "malloc")
    /\ Malloc(hpUser[u].size) /\ Give(hpUser[u].size) /\ Hidden(hidden)
    /\ HpGoto(u, [hpUser[u] EXCEPT !.at = "free"])

\* RT_NULL: the old block is the caller's as before.
ReallocFails(u) ==
    /\ HpAt(u, "malloc")
    /\ LET n == AtLeast(hpUser[u].size) IN n > mem_size_aligned \/ Fitting(n) = {}
    /\ HpGoto(u, HpRunning)
    /\ UNCHANGED <<hp, given, hidden>>

\* The bytes are copied and the old block is freed.
ReallocFree(u) ==
    /\ HpAt(u, "free")
    /\ hp' = HeapFreed(hpUser[u].mem) /\ given' = Without(hpUser[u].mem)
    /\ Hidden(hidden)
    /\ HpGoto(u, HpRunning)

HeapNext ==
    \E u \in HpUser :
        \/ rt_malloc(u) \/ rt_free(u)
        \/ ReallocShrink(u) \/ ReallocMove(u) \/ ReallocMalloc(u) \/ ReallocFails(u)
        \/ ReallocFree(u)

HeapSpec == HeapInit /\ [][HeapNext]_heapVars

-----------------------------------------------------------------------------
(* Properties *)

Blocks == DOMAIN hp.heap \ {heap_end}

\* The blocks follow each other from the start to the end of the heap, linked
\* in both directions, without a gap and without an overlap.
BlocksFollow ==
    /\ {0, heap_end} \subseteq DOMAIN hp.heap
    /\ \A mem \in Blocks :
         LET next == hp.heap[mem].next
         IN  /\ next \in DOMAIN hp.heap
             /\ mem + SIZEOF_STRUCT_MEM < next
             /\ \A o \in DOMAIN hp.heap : ~(mem < o /\ o < next)
             /\ next # heap_end => hp.heap[next].prev = mem

\* Two free blocks never follow each other: "mem->next will always be used at
\* this point".
HolesPlugged ==
    \A mem \in Blocks : ~hp.heap[mem].used => hp.heap[hp.heap[mem].next].used

\* "pointer to the lowest free block": no free block is before lfree, where
\* rt_malloc does not look.  What rt_realloc splits off there makes it false.
LowestFree == hp.lfree = NextFree(hp.heap, 0)

\* RT_ASSERT of rt_malloc: lfree is free or the end of the heap.  Of the free
\* blocks rt_malloc passes over only those that rt_realloc split off before
\* lfree, until one of them, or one before it, is freed or joined.
OnlySplitsHide ==
    /\ hp.lfree # heap_end => hp.lfree \in Blocks /\ ~hp.heap[hp.lfree].used
    /\ \A mem \in Blocks : ~hp.heap[mem].used => mem \in hidden \/ hp.lfree <= mem

\* The blocks in use are those the threads have, each as large as was asked.
GivenInUse ==
    /\ {mem \in Blocks : hp.heap[mem].used} = DOMAIN given
    /\ \A mem \in DOMAIN given : Size(hp.heap, mem) >= given[mem]

\* The heap is always a row of blocks that are either the threads' or free, all
\* holes joined, and all of them found by the next rt_malloc but for those that
\* rt_realloc leaves before lfree.
HeapInvariant ==
    /\ BlocksFollow
    /\ HolesPlugged
    /\ OnlySplitsHide
    /\ GivenInUse

=============================================================================

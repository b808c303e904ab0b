------------------------------ MODULE BlockPool ------------------------------
(***************************************************************************)
(* The generic pool of Executive Services (cfe_es_generic_pool.c): memory  *)
(* from START to POOL_MAX, cut from the low end into blocks of fixed sizes *)
(* with a descriptor in front of each; released blocks are chained in one  *)
(* list per size.  Pure operators: the state of a pool is a record `p' and *)
(* the descriptors in its memory, `d', indexed by the offset of the block. *)
(***************************************************************************)
EXTENDS Integers, FiniteSets, FiniteSetsExt

CONSTANTS
    SIZES,      \* block sizes
    START,      \* offset of the memory in its device
    POOL_MAX,   \* PoolMaxOffset
    ALIGN       \* alignment of blocks

PoolAssumption ==
    /\ SIZES # {} /\ SIZES \subseteq Nat \ {0} /\ IsFiniteSet(SIZES)
    /\ START \in Nat /\ POOL_MAX \in Nat /\ START < POOL_MAX /\ ALIGN \in Nat \ {0}

DESC == 1       \* CFE_ES_GENERIC_POOL_DESCRIPTOR_SIZE
Offsets == 1..POOL_MAX
NoBlock == 0

(* No check bits, CFE_ES_MEMORY_ALLOCATED, CFE_ES_MEMORY_DEALLOCATED. *)
Blank == [st |-> "none", size |-> 0, actual |-> 0, next |-> NoBlock]

(* CFE_ES_GenPoolInitialize, over memory that is cleared. *)
EmptyPool == [tail |-> START, first |-> [s \in SIZES |-> NoBlock],
              free |-> [s \in SIZES |-> 0]] \* ReleaseCount - RecycleCount
ClearMemory == [o \in Offsets |-> Blank]

(* CFE_ES_GenPoolFindBucket: the smallest size that is large enough. *)
HasBucket(n) == \E s \in SIZES : n <= s
Bucket(n) == Min({s \in SIZES : n <= s})

(* Where the block after `tail' begins. *)
Place(tail) == ((tail + DESC + ALIGN - 1) \div ALIGN) * ALIGN

Taken(p, d, s) == [p.first EXCEPT ![s] = d[p.first[s]].next]

Used(s, n) == [st |-> "allocated", size |-> s, actual |-> n, next |-> NoBlock]

Recyclable(p, d, s) ==
    /\ p.free[s] # 0 /\ p.first[s] # NoBlock
    /\ d[p.first[s]].st = "deallocated" /\ d[p.first[s]].size = s

(* CFE_ES_GenPoolGetBlock: a released block of that size, or a new one; no  *)
(* block if the memory ends.                                                *)
Get(p, d, n) ==
    LET s == Bucket(n)
        at == Place(p.tail)
    IN  IF ~HasBucket(n) THEN [off |-> NoBlock, p |-> p, d |-> d]
        ELSE IF Recyclable(p, d, s)
          THEN [off |-> p.first[s],
                p |-> [p EXCEPT !.first = Taken(p, d, s), !.free[s] = @ - 1],
                d |-> [d EXCEPT ![p.first[s]] = Used(s, n)]]
        ELSE IF at + s <= POOL_MAX
          THEN [off |-> at, p |-> [p EXCEPT !.tail = at + s],
                d |-> [d EXCEPT ![at] = Used(s, n)]]
        ELSE [off |-> NoBlock, p |-> p, d |-> d]

(* What CFE_ES_GenPoolGetBlockSize and PutBlock ask of an offset. *)
IsBlock(p, d, o) ==
    /\ o < p.tail /\ o >= DESC
    /\ d[o].st = "allocated" /\ d[o].actual # 0 /\ d[o].size >= d[o].actual

(* CFE_ES_GenPoolPutBlock, of a block. *)
Put(p, d, o) ==
    LET s == d[o].size
    IN  [p |-> [p EXCEPT !.first[s] = o, !.free[s] = @ + 1],
         d |-> [d EXCEPT ![o].st = "deallocated", ![o].next = p.first[s]]]

(* The blocks that CFE_ES_GenPoolRebuild finds from one end to the other. *)
Blocks(d) ==
    LET Found[t \in 0..POOL_MAX + Max(SIZES)] ==
          LET at == Place(t)
          IN  IF at > POOL_MAX THEN {}
              ELSE IF d[at].st = "none" \/ d[at].size < d[at].actual THEN {}
              ELSE {at} \union Found[at + d[at].size]
    IN  Found[START]

Released(d, s) == {o \in Blocks(d) : d[o].size = s /\ d[o].st = "deallocated"}

(* Its result: the lists chain the released blocks from the last one down. *)
Last(b) == IF b = {} THEN NoBlock ELSE Max(b)
Rebuilt(d) ==
    [p |-> [tail |-> IF Blocks(d) = {} THEN START
                     ELSE Max(Blocks(d)) + d[Max(Blocks(d))].size,
            first |-> [s \in SIZES |-> Last(Released(d, s))],
            free |-> [s \in SIZES |-> Cardinality(Released(d, s))]],
     d |-> [o \in Offsets |->
              IF o \in Released(d, d[o].size)
                THEN [d[o] EXCEPT !.next = Last({b \in Released(d, d[o].size) : b < o})]
                ELSE d[o]]]

-----------------------------------------------------------------------------
(* The lists hold the released blocks, each once, and say how many.         *)
Listed(d, o) ==
    LET From[k \in 0..POOL_MAX, b \in 0..POOL_MAX] ==
          IF b = NoBlock \/ k = 0 THEN {} ELSE {b} \union From[k - 1, d[b].next]
    IN  From[POOL_MAX, o]

PoolExact(p, d) == \A s \in SIZES :
    /\ Listed(d, p.first[s]) = Released(d, s)
    /\ p.free[s] = Cardinality(Released(d, s))
=============================================================================

------------------------------- MODULE Arena -------------------------------
(***************************************************************************)
(* Arena (src/src/util/arena.h, arena.cpp): a bump allocator over blocks   *)
(* that it gets from new[] and frees all at once.  An address is a natural *)
(* number and nullptr is 0.  Requests are small against 2^64 (the skip     *)
(* list asks for one node at a time), so bytes + slop does not wrap.       *)
(***************************************************************************)
EXTENDS Integers, Sequences

CONSTANTS
    kBlockSize,   \* 4096 in the code
    Sizes,        \* the sizes that callers ask for
    Bases,        \* the addresses at which new[] places blocks
    MaxAllocs     \* bound: number of allocations

(* new char[] is aligned at least as AllocateAligned promises to be; this  *)
(* is what the comment "AllocateFallback always returned aligned memory"   *)
(* rests on.  Requests of no bytes are excluded, as in Allocate's assert.  *)
ASSUME BasesAssumption == Bases \subseteq Nat \ {0} /\ \A b \in Bases : b % 8 = 0
ASSUME SizesAssumption == Sizes \subseteq Nat \ {0}
ASSUME BlockAssumption == kBlockSize \in Nat \ {0}
ASSUME MaxAllocsAssumption == MaxAllocs \in Nat

VARIABLES
    alloc_ptr, alloc_bytes_remaining,
    blocks, capacity,   \* the vector blocks_
    blocks_memory,
    heap,               \* the blocks that new[] has returned and nobody freed
    allocs,             \* the regions that callers were given, in order
    requested,          \* sum of the sizes callers asked for
    alive               \* the destructor has not run

bump == <<alloc_ptr, alloc_bytes_remaining>>
owned == <<blocks, capacity, blocks_memory, heap>>
vars == <<bump, owned, allocs, requested, alive>>

align == 8

Init ==
    /\ alloc_ptr = 0 /\ alloc_bytes_remaining = 0
    /\ blocks = <<>> /\ capacity = 0 /\ blocks_memory = 0
    /\ heap = {} /\ allocs = <<>> /\ requested = 0
    /\ alive = TRUE

-----------------------------------------------------------------------------
(* new char[bytes] gives a block that overlaps no block in use. *)
Separate(a, m, b, k) == a + m <= b \/ b + k <= a

New(base, bytes) ==
    /\ \A b \in heap : Separate(base, bytes, b.base, b.size)
    /\ heap' = heap \cup {[base |-> base, size |-> bytes]}

(* std::vector grows to twice its size when it is full. *)
PushedCapacity ==
    IF Len(blocks) < capacity THEN capacity
    ELSE IF capacity = 0 THEN 1 ELSE 2 * capacity

(* A mutant: blocks_memory_ counts the blocks of the usual size only. *)
AllocateNewBlockUncounted(base, bytes) ==
    /\ New(base, bytes)
    /\ blocks_memory' = blocks_memory + (IF bytes = kBlockSize THEN bytes ELSE 0)
    /\ blocks' = Append(blocks, base)
    /\ capacity' = PushedCapacity

AllocateNewBlock(base, bytes) ==
    /\ New(base, bytes)
    /\ blocks_memory' = blocks_memory + bytes
    /\ blocks' = Append(blocks, base)
    /\ capacity' = PushedCapacity

(* new[] has succeeded, blocks_memory_ has grown, and push_back, which has *)
(* to grow the vector, throws.  The exception leaves Allocate.  (Where     *)
(* new[] itself throws nothing has changed: no step.)                      *)
PushBackThrows(base, bytes) ==
    /\ Len(blocks) = capacity
    /\ New(base, bytes)
    /\ blocks_memory' = blocks_memory + bytes
    /\ UNCHANGED <<bump, blocks, capacity, allocs, requested, alive>>

(* The caller is given [addr, addr + bytes). *)
Return(addr, bytes, aligned) ==
    /\ allocs' = Append(allocs, [addr |-> addr, size |-> bytes, aligned |-> aligned])
    /\ requested' = requested + bytes
    /\ UNCHANGED alive

(* A mutant: half a block instead of a quarter. *)
IsMoreThanHalf(bytes) == bytes > kBlockSize \div 2

IsLarge(bytes) == bytes > kBlockSize \div 4

AllocateLarge(bytes, aligned) ==
    /\ IsLarge(bytes)
    /\ \E base \in Bases :
          /\ AllocateNewBlock(base, bytes)
          /\ Return(base, bytes, aligned)
    /\ UNCHANGED bump

(* The rest of the current block is wasted. *)
AllocateInNewBlock(bytes, aligned) ==
    /\ ~IsLarge(bytes)
    /\ \E base \in Bases :
          /\ AllocateNewBlock(base, kBlockSize)
          /\ alloc_ptr' = base + bytes
          /\ Return(base, bytes, aligned)
    /\ alloc_bytes_remaining' = kBlockSize - bytes

AllocateFallback(bytes, aligned) ==
    \/ AllocateLarge(bytes, aligned)
    \/ AllocateInNewBlock(bytes, aligned)
    \/ \E base \in Bases :
          PushBackThrows(base, IF IsLarge(bytes) THEN bytes ELSE kBlockSize)

-----------------------------------------------------------------------------
(* A mutant: one byte too many. *)
FitsAlmost(needed) == needed <= alloc_bytes_remaining + 1

Fits(needed) == needed <= alloc_bytes_remaining

(* The current block has room: slop bytes are skipped, then bytes given. *)
Bump(slop, needed, bytes, aligned) ==
    /\ alloc_ptr' = alloc_ptr + needed
    /\ alloc_bytes_remaining' = alloc_bytes_remaining - needed
    /\ Return(alloc_ptr + slop, bytes, aligned)
    /\ UNCHANGED owned

Allocate(bytes) ==
    /\ alive /\ Len(allocs) < MaxAllocs
    /\ IF Fits(bytes)
       THEN Bump(0, bytes, bytes, FALSE)
       ELSE AllocateFallback(bytes, FALSE)

(* A mutant: the distance from the boundary below. *)
SlopBelow == alloc_ptr % align

slop_ == LET current_mod == alloc_ptr % align
         IN IF current_mod = 0 THEN 0 ELSE align - current_mod

(* A mutant: the slop is skipped but not counted. *)
NeededForBytes(bytes) == bytes

Needed(bytes) == bytes + slop_

AllocateAligned(bytes) ==
    /\ alive /\ Len(allocs) < MaxAllocs
    /\ IF Fits(Needed(bytes))
       THEN Bump(slop_, Needed(bytes), bytes, TRUE)
       ELSE AllocateFallback(bytes, TRUE)

(* ~Arena: delete[] of every element of blocks_. *)
Destroy ==
    /\ alive
    /\ alive' = FALSE
    /\ heap' = {b \in heap : \A j \in 1 .. Len(blocks) : blocks[j] # b.base}
    /\ UNCHANGED <<bump, blocks, capacity, blocks_memory, allocs, requested>>

Next ==
    \/ \E bytes \in Sizes : Allocate(bytes) \/ AllocateAligned(bytes)
    \/ Destroy

Spec == Init /\ [][Next]_vars

-----------------------------------------------------------------------------
MemoryUsage == blocks_memory + capacity * 8

Blocks == [base : Nat, size : Nat]
Regions == [addr : Nat, size : Nat, aligned : BOOLEAN]

(* Every variable has its type; in particular alloc_bytes_remaining_, a    *)
(* size_t, never wraps below zero.                                         *)
TypeOK ==
    /\ alloc_ptr \in Nat
    /\ alloc_bytes_remaining \in Nat
    /\ blocks \in Seq(Nat)
    /\ capacity \in Nat
    /\ blocks_memory \in Nat
    /\ heap \subseteq Blocks
    /\ allocs \in Seq(Regions)
    /\ requested \in Nat
    /\ alive \in BOOLEAN

Inside(a, m, b) == b.base <= a /\ a + m <= b.base + b.size

(* No two regions that Allocate and AllocateAligned have handed out share  *)
(* a byte, whatever the sizes, the order of the calls, the alignment gaps  *)
(* and the exceptions in between.                                          *)
RegionsDisjoint ==
    \A j, k \in 1 .. Len(allocs) : j # k =>
        Separate(allocs[j].addr, allocs[j].size, allocs[k].addr, allocs[k].size)

(* Every region handed out lies inside one block that the arena has got    *)
(* from new[] and that stays allocated until the arena is destroyed.       *)
RegionsAllocated ==
    alive => \A j \in 1 .. Len(allocs) :
                \E b \in heap : Inside(allocs[j].addr, allocs[j].size, b)

(* AllocateAligned returns aligned memory (the assert at its end), from    *)
(* the current block and from both paths of AllocateFallback.              *)
AlignedRegions ==
    \A j \in 1 .. Len(allocs) : allocs[j].aligned => allocs[j].addr % align = 0

(* MemoryUsage is at least what callers asked for, as test_arena.cpp       *)
(* expects after every allocation; a push_back that throws does not break  *)
(* it.                                                                     *)
UsageCoversRequests == MemoryUsage >= requested

(* "to avoid wasting too much space in leftover bytes" (AllocateFallback): *)
(* a block is given up for a new one only when less than a quarter of      *)
(* kBlockSize and an alignment gap is left in it.                          *)
WasteBounded ==
    [][alloc_bytes_remaining' > alloc_bytes_remaining
          => alloc_bytes_remaining < kBlockSize \div 4 + align - 1]_vars
=============================================================================

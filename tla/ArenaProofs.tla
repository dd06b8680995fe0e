---------------------------- MODULE ArenaProofs ----------------------------
(***************************************************************************)
(* The properties of Arena for every block size, all request sizes, any    *)
(* placement of the blocks by new[] and any number of allocations.         *)
(***************************************************************************)
EXTENDS Arena, TLAPS

(* The rest of the current block belongs to the arena and to no caller. *)
FreeInside ==
    alive /\ alloc_bytes_remaining > 0 =>
        \E b \in heap : Inside(alloc_ptr, alloc_bytes_remaining, b)

FreeUnused ==
    alloc_bytes_remaining > 0 =>
        \A j \in 1 .. Len(allocs) :
            Separate(allocs[j].addr, allocs[j].size, alloc_ptr, alloc_bytes_remaining)

UsageAccounted == requested + alloc_bytes_remaining <= blocks_memory

IInv ==
    /\ TypeOK
    /\ RegionsDisjoint
    /\ RegionsAllocated
    /\ AlignedRegions
    /\ FreeInside
    /\ FreeUnused
    /\ UsageAccounted

-----------------------------------------------------------------------------
(* slop reaches the next multiple of align. *)
LEMMA SlopFacts ==
    ASSUME alloc_ptr \in Nat
    PROVE  slop_ \in 0 .. 7 /\ (alloc_ptr + slop_) % 8 = 0
BY DEF slop_, align

(* What the type invariant says of a region. *)
LEMMA RegionTypes ==
    ASSUME TypeOK
    PROVE  /\ Len(allocs) \in Nat
           /\ \A j \in 1 .. Len(allocs) :
                 allocs[j].addr \in Nat /\ allocs[j].size \in Nat
<1>1. Len(allocs) \in Nat /\ \A j \in 1 .. Len(allocs) : allocs[j] \in Regions
  BY DEF TypeOK
<1>. QED
  BY <1>1 DEF Regions

(* What lies inside separate blocks is separate. *)
LEMMA InsideSeparate ==
    ASSUME NEW a \in Nat, NEW m \in Nat, NEW base \in Nat, NEW k \in Nat,
           NEW b \in Blocks, Inside(a, m, b), Separate(base, k, b.base, b.size)
    PROVE  Separate(a, m, base, k)
BY DEF Inside, Separate, Blocks

(* A new region that is inside a block and apart from the others keeps the *)
(* three properties of the regions.                                        *)
LEMMA ReturnKeeps ==
    ASSUME IInv, alive, NEW addr \in Nat, NEW bytes \in Nat, NEW aligned \in BOOLEAN,
           Return(addr, bytes, aligned),
           heap \subseteq heap', heap' \subseteq Blocks,
           \E b \in heap' : Inside(addr, bytes, b),
           \A j \in 1 .. Len(allocs) :
               Separate(allocs[j].addr, allocs[j].size, addr, bytes),
           aligned => addr % 8 = 0
    PROVE  /\ allocs' \in Seq(Regions)
           /\ RegionsDisjoint' /\ RegionsAllocated' /\ AlignedRegions'
           /\ Len(allocs') = Len(allocs) + 1
           /\ \A j \in 1 .. Len(allocs) : allocs'[j] = allocs[j]
           /\ allocs'[Len(allocs) + 1] = [addr |-> addr, size |-> bytes, aligned |-> aligned]
<1> DEFINE r == [addr |-> addr, size |-> bytes, aligned |-> aligned]
           L == Len(allocs)
<1>1. allocs \in Seq(Regions) /\ r \in Regions /\ allocs' = Append(allocs, r)
  BY DEF IInv, TypeOK, Return, Regions
<1>2. /\ allocs' \in Seq(Regions) /\ L \in Nat /\ Len(allocs') = L + 1
      /\ \A j \in 1 .. L : allocs'[j] = allocs[j] /\ allocs[j] \in Regions
      /\ allocs'[L + 1] = r
  BY <1>1
<1>3. \A j \in 1 .. L + 1 : j \in 1 .. L \/ j = L + 1
  BY <1>2
<1>4. r.addr = addr /\ r.size = bytes /\ r.aligned = aligned
  OBVIOUS
<1>5. RegionsDisjoint'
  <2> SUFFICES ASSUME NEW j \in 1 .. L + 1, NEW k \in 1 .. L + 1, j # k
               PROVE  Separate(allocs'[j].addr, allocs'[j].size,
                               allocs'[k].addr, allocs'[k].size)
    BY <1>2 DEF RegionsDisjoint, Separate
  <2>1. CASE j \in 1 .. L /\ k \in 1 .. L
    BY <2>1, <1>2 DEF IInv, RegionsDisjoint
  <2>2. CASE j = L + 1 /\ k \in 1 .. L
    BY <2>2, <1>2, <1>4 DEF Separate
  <2>3. CASE j \in 1 .. L /\ k = L + 1
    BY <2>3, <1>2, <1>4
  <2>. QED
    BY <1>3, <2>1, <2>2, <2>3
<1>6. RegionsAllocated'
  <2> SUFFICES ASSUME NEW j \in 1 .. L + 1
               PROVE  \E b \in heap' : Inside(allocs'[j].addr, allocs'[j].size, b)
    BY <1>2 DEF RegionsAllocated, Inside
  <2>1. CASE j \in 1 .. L
    BY <2>1, <1>2 DEF IInv, RegionsAllocated
  <2>2. CASE j = L + 1
    BY <2>2, <1>2, <1>4
  <2>. QED
    BY <1>3, <2>1, <2>2
<1>7. AlignedRegions'
  BY <1>2, <1>3, <1>4 DEF IInv, AlignedRegions, align
<1>. QED
  BY <1>2, <1>5, <1>6, <1>7

(* What is separate from a range is separate from every part of it. *)
LEMMA SeparateFromPart ==
    ASSUME NEW a \in Nat, NEW m \in Nat, NEW b \in Nat, NEW k \in Nat,
           NEW c \in Nat, NEW h \in Nat, b <= c, c + h <= b + k,
           Separate(a, m, b, k)
    PROVE  Separate(a, m, c, h)
BY DEF Separate

(* An allocation from the current block keeps the invariant. *)
LEMMA BumpStep ==
    ASSUME IInv, alive, NEW bytes \in Sizes, NEW slop \in 0 .. 7,
           NEW aligned \in BOOLEAN, Fits(bytes + slop),
           aligned => (alloc_ptr + slop) % 8 = 0,
           Bump(slop, bytes + slop, bytes, aligned)
    PROVE  IInv'
<1> DEFINE addr == alloc_ptr + slop
<1>1. /\ bytes \in Nat /\ bytes > 0 /\ addr \in Nat /\ slop \in Nat
      /\ alloc_ptr \in Nat /\ alloc_bytes_remaining \in Nat
      /\ bytes + slop <= alloc_bytes_remaining /\ alloc_bytes_remaining > 0
  BY SizesAssumption DEF IInv, TypeOK, Fits
<1>2. /\ heap' = heap /\ blocks' = blocks /\ capacity' = capacity
      /\ blocks_memory' = blocks_memory /\ alive' = alive
      /\ alloc_ptr' = alloc_ptr + (bytes + slop)
      /\ alloc_bytes_remaining' = alloc_bytes_remaining - (bytes + slop)
      /\ requested' = requested + bytes /\ Return(addr, bytes, aligned)
  BY DEF Bump, owned, Return
<1>3. /\ heap \subseteq Blocks /\ requested \in Nat /\ blocks_memory \in Nat
      /\ \A j \in 1 .. Len(allocs) : allocs[j].addr \in Nat /\ allocs[j].size \in Nat
  BY RegionTypes DEF IInv, TypeOK
<1>4. PICK b \in heap : Inside(alloc_ptr, alloc_bytes_remaining, b)
  BY <1>1 DEF IInv, FreeInside
<1>5. b.base \in Nat /\ b.size \in Nat
  BY <1>3, <1>4 DEF Blocks
<1>6. Inside(addr, bytes, b)
  BY <1>1, <1>4, <1>5 DEF Inside
<1>7. \A j \in 1 .. Len(allocs) : Separate(allocs[j].addr, allocs[j].size, alloc_ptr, alloc_bytes_remaining)
  BY <1>1 DEF IInv, FreeUnused
<1>8. \A j \in 1 .. Len(allocs) : Separate(allocs[j].addr, allocs[j].size, addr, bytes)
  <2>1. alloc_ptr <= addr /\ addr + bytes <= alloc_ptr + alloc_bytes_remaining
    BY <1>1
  <2>. QED
    BY <1>1, <1>3, <1>7, <2>1, SeparateFromPart, Zenon
<1>9. /\ allocs' \in Seq(Regions)
      /\ RegionsDisjoint' /\ RegionsAllocated' /\ AlignedRegions'
      /\ Len(allocs') = Len(allocs) + 1
      /\ \A j \in 1 .. Len(allocs) : allocs'[j] = allocs[j]
      /\ allocs'[Len(allocs) + 1] = [addr |-> addr, size |-> bytes, aligned |-> aligned]
  <2>1. /\ heap \subseteq heap' /\ heap' \subseteq Blocks
        /\ \E c \in heap' : Inside(addr, bytes, c)
    BY <1>2, <1>3, <1>6
  <2>. QED
    BY <1>1, <1>2, <1>8, <2>1, ReturnKeeps, Zenon
<1>10. TypeOK'
  BY <1>1, <1>2, <1>3, <1>9 DEF IInv, TypeOK
<1>11. FreeInside'
  <2>1. Inside(alloc_ptr', alloc_bytes_remaining', b)
    BY <1>1, <1>2, <1>4, <1>5 DEF Inside
  <2>. QED
    BY <1>2, <2>1 DEF FreeInside, Inside
<1>12. FreeUnused'
  <2> SUFFICES ASSUME NEW j \in 1 .. Len(allocs) + 1
               PROVE  Separate(allocs'[j].addr, allocs'[j].size, alloc_ptr', alloc_bytes_remaining')
    BY <1>9 DEF FreeUnused, Separate
  <2>1. CASE j \in 1 .. Len(allocs)
    <3>1. allocs'[j] = allocs[j] /\ allocs[j].addr \in Nat /\ allocs[j].size \in Nat
      BY <2>1, <1>3, <1>9
    <3>2. Separate(allocs[j].addr, allocs[j].size, alloc_ptr, alloc_bytes_remaining)
      BY <2>1, <1>7
    <3>3. /\ alloc_ptr' \in Nat /\ alloc_bytes_remaining' \in Nat
          /\ alloc_ptr <= alloc_ptr'
          /\ alloc_ptr' + alloc_bytes_remaining' <= alloc_ptr + alloc_bytes_remaining
      BY <1>1, <1>2
    <3>4. Separate(allocs[j].addr, allocs[j].size, alloc_ptr', alloc_bytes_remaining')
      BY <3>1, <3>2, <3>3, <1>1, SeparateFromPart, Zenon
    <3>. QED
      BY <3>1, <3>4
  <2>2. CASE j = Len(allocs) + 1
    BY <2>2, <1>1, <1>2, <1>9 DEF Separate
  <2>3. Len(allocs) \in Nat
    BY DEF IInv, TypeOK
  <2>. QED
    BY <2>1, <2>2, <2>3
<1>13. UsageAccounted'
  <2>1. requested + alloc_bytes_remaining <= blocks_memory
    BY DEF IInv, UsageAccounted
  <2>2. requested' + alloc_bytes_remaining' <= blocks_memory'
    BY <2>1, <1>1, <1>2, <1>3
  <2>. QED
    BY <2>2 DEF UsageAccounted
<1>. QED
  BY <1>9, <1>10, <1>11, <1>12, <1>13 DEF IInv

(* A new block overlaps nothing that callers hold. *)
LEMMA NewBlockFacts ==
    ASSUME IInv, alive, NEW base \in Bases, NEW size \in Nat, New(base, size)
    PROVE  /\ base \in Nat /\ base % 8 = 0
           /\ heap \subseteq heap' /\ heap' \subseteq Blocks
           /\ [base |-> base, size |-> size] \in heap'
           /\ \A j \in 1 .. Len(allocs) :
                 /\ allocs[j].addr \in Nat /\ allocs[j].size \in Nat
                 /\ Separate(allocs[j].addr, allocs[j].size, base, size)
           /\ alloc_bytes_remaining > 0 =>
                 Separate(alloc_ptr, alloc_bytes_remaining, base, size)
<1>1. base \in Nat /\ base % 8 = 0
  BY BasesAssumption
<1>2. /\ heap' = heap \cup {[base |-> base, size |-> size]} /\ heap \subseteq Blocks
      /\ \A b \in heap : Separate(base, size, b.base, b.size)
  BY DEF New, IInv, TypeOK
<1>3. heap' \subseteq Blocks
  BY <1>1, <1>2 DEF Blocks
<1>4. \A j \in 1 .. Len(allocs) : allocs[j].addr \in Nat /\ allocs[j].size \in Nat
  BY RegionTypes DEF IInv
<1>5. ASSUME NEW j \in 1 .. Len(allocs)
      PROVE  Separate(allocs[j].addr, allocs[j].size, base, size)
  <2>1. PICK b \in heap : Inside(allocs[j].addr, allocs[j].size, b)
    BY DEF IInv, RegionsAllocated
  <2>. QED
    BY <1>1, <1>2, <1>4, <2>1, InsideSeparate, Zenon
<1>6. ASSUME alloc_bytes_remaining > 0
      PROVE  Separate(alloc_ptr, alloc_bytes_remaining, base, size)
  <2>1. PICK b \in heap : Inside(alloc_ptr, alloc_bytes_remaining, b)
    BY <1>6 DEF IInv, FreeInside
  <2>. QED
    BY <1>1, <1>2, <2>1, InsideSeparate DEF IInv, TypeOK
<1>. QED
  BY <1>1, <1>2, <1>3, <1>4, <1>5, <1>6

(* The vector and the counter after AllocateNewBlock. *)
LEMMA NewBlockTypes ==
    ASSUME TypeOK, NEW base \in Nat, NEW size \in Nat, AllocateNewBlock(base, size)
    PROVE  /\ New(base, size) /\ blocks_memory' = blocks_memory + size
           /\ blocks_memory' \in Nat /\ blocks' \in Seq(Nat) /\ capacity' \in Nat
<1>1. blocks' \in Seq(Nat)
  BY DEF TypeOK, AllocateNewBlock
<1>2. capacity' \in Nat
  BY DEF TypeOK, AllocateNewBlock, PushedCapacity
<1>. QED
  BY <1>1, <1>2 DEF TypeOK, AllocateNewBlock

(* An allocation with a block of its own keeps the invariant. *)
LEMMA LargeStep ==
    ASSUME IInv, alive, NEW bytes \in Sizes, NEW aligned \in BOOLEAN,
           AllocateLarge(bytes, aligned)
    PROVE  IInv'
<1>1. PICK base \in Bases : AllocateNewBlock(base, bytes) /\ Return(base, bytes, aligned)
  BY DEF AllocateLarge
<1>2. bytes \in Nat /\ base \in Nat /\ TypeOK
  BY SizesAssumption, BasesAssumption DEF IInv
<1>3. /\ New(base, bytes) /\ blocks_memory' = blocks_memory + bytes
      /\ blocks_memory' \in Nat /\ blocks' \in Seq(Nat) /\ capacity' \in Nat
  BY <1>1, <1>2, NewBlockTypes
<1>4. /\ base % 8 = 0 /\ heap \subseteq heap' /\ heap' \subseteq Blocks
      /\ [base |-> base, size |-> bytes] \in heap'
      /\ \A j \in 1 .. Len(allocs) :
            Separate(allocs[j].addr, allocs[j].size, base, bytes)
      /\ alloc_bytes_remaining > 0 =>
            Separate(alloc_ptr, alloc_bytes_remaining, base, bytes)
  BY <1>2, <1>3, NewBlockFacts
<1>5. Inside(base, bytes, [base |-> base, size |-> bytes])
  BY <1>2 DEF Inside
<1>6. /\ allocs' \in Seq(Regions)
      /\ RegionsDisjoint' /\ RegionsAllocated' /\ AlignedRegions'
      /\ Len(allocs') = Len(allocs) + 1
      /\ \A j \in 1 .. Len(allocs) : allocs'[j] = allocs[j]
      /\ allocs'[Len(allocs) + 1] = [addr |-> base, size |-> bytes, aligned |-> aligned]
  BY <1>1, <1>2, <1>4, <1>5, ReturnKeeps, Zenon
<1>7. /\ alloc_ptr' = alloc_ptr /\ alloc_bytes_remaining' = alloc_bytes_remaining
      /\ requested' = requested + bytes /\ alive' = alive
  BY <1>1 DEF AllocateLarge, bump, Return
<1>8. TypeOK'
  <2>1. /\ alloc_ptr' \in Nat /\ alloc_bytes_remaining' \in Nat
        /\ requested' \in Nat /\ alive' \in BOOLEAN
    BY <1>2, <1>7 DEF TypeOK
  <2>. QED
    BY <2>1, <1>3, <1>4, <1>6 DEF TypeOK
<1>9. FreeInside'
  <2>1. \A b \in heap : b \in heap'
    BY <1>4
  <2>. QED
    BY <1>7, <2>1 DEF IInv, FreeInside, Inside
<1>10. FreeUnused'
  <2> SUFFICES ASSUME alloc_bytes_remaining > 0, NEW j \in 1 .. Len(allocs) + 1
               PROVE  Separate(allocs'[j].addr, allocs'[j].size, alloc_ptr, alloc_bytes_remaining)
    BY <1>6, <1>7 DEF FreeUnused, Separate
  <2>1. CASE j \in 1 .. Len(allocs)
    BY <2>1, <1>6 DEF IInv, FreeUnused
  <2>2. CASE j = Len(allocs) + 1
    BY <2>2, <1>4, <1>6 DEF Separate
  <2>3. Len(allocs) \in Nat
    BY <1>2, RegionTypes
  <2>. QED
    BY <2>1, <2>2, <2>3
<1>11. UsageAccounted'
  <2>1. /\ requested + alloc_bytes_remaining <= blocks_memory
        /\ requested \in Nat /\ alloc_bytes_remaining \in Nat /\ blocks_memory \in Nat
    BY DEF IInv, UsageAccounted, TypeOK
  <2>2. requested' + alloc_bytes_remaining' <= blocks_memory'
    BY <2>1, <1>2, <1>3, <1>7
  <2>. QED
    BY <2>2 DEF UsageAccounted
<1>. QED
  BY <1>6, <1>8, <1>9, <1>10, <1>11 DEF IInv

(* An allocation that starts a new block keeps the invariant. *)
LEMMA InNewBlockStep ==
    ASSUME IInv, alive, NEW bytes \in Sizes, NEW aligned \in BOOLEAN,
           AllocateInNewBlock(bytes, aligned)
    PROVE  IInv'
<1>1. PICK base \in Bases : /\ AllocateNewBlock(base, kBlockSize)
                            /\ alloc_ptr' = base + bytes
                            /\ Return(base, bytes, aligned)
  BY DEF AllocateInNewBlock
<1>2. bytes \in Nat /\ base \in Nat /\ TypeOK /\ kBlockSize \in Nat
  BY SizesAssumption, BasesAssumption, BlockAssumption DEF IInv
<1>3. bytes <= kBlockSize
  BY <1>2 DEF AllocateInNewBlock, IsLarge
<1>4. /\ New(base, kBlockSize) /\ blocks_memory' = blocks_memory + kBlockSize
      /\ blocks_memory' \in Nat /\ blocks' \in Seq(Nat) /\ capacity' \in Nat
  BY <1>1, <1>2, NewBlockTypes
<1> DEFINE new == [base |-> base, size |-> kBlockSize]
<1>5. /\ base % 8 = 0 /\ heap \subseteq heap' /\ heap' \subseteq Blocks
      /\ new \in heap'
      /\ \A j \in 1 .. Len(allocs) :
            /\ allocs[j].addr \in Nat /\ allocs[j].size \in Nat
            /\ Separate(allocs[j].addr, allocs[j].size, base, kBlockSize)
  BY <1>2, <1>4, NewBlockFacts
<1>6. /\ Inside(base, bytes, new)
      /\ Inside(base + bytes, kBlockSize - bytes, new)
  BY <1>2, <1>3 DEF Inside
<1>7. \A j \in 1 .. Len(allocs) :
         /\ Separate(allocs[j].addr, allocs[j].size, base, bytes)
         /\ Separate(allocs[j].addr, allocs[j].size, base + bytes, kBlockSize - bytes)
  <2>1. /\ base + bytes \in Nat /\ kBlockSize - bytes \in Nat
        /\ base <= base /\ base <= base + bytes
        /\ base + bytes <= base + kBlockSize
        /\ (base + bytes) + (kBlockSize - bytes) <= base + kBlockSize
    BY <1>2, <1>3
  <2> TAKE j \in 1 .. Len(allocs)
  <2>2. /\ allocs[j].addr \in Nat /\ allocs[j].size \in Nat
        /\ Separate(allocs[j].addr, allocs[j].size, base, kBlockSize)
    BY <1>5
  <2>3. Separate(allocs[j].addr, allocs[j].size, base, bytes)
    BY <1>2, <2>1, <2>2, SeparateFromPart, Zenon
  <2>4. Separate(allocs[j].addr, allocs[j].size, base + bytes, kBlockSize - bytes)
    BY <1>2, <2>1, <2>2, SeparateFromPart, Zenon
  <2>. QED
    BY <2>3, <2>4
<1>8. /\ allocs' \in Seq(Regions)
      /\ RegionsDisjoint' /\ RegionsAllocated' /\ AlignedRegions'
      /\ Len(allocs') = Len(allocs) + 1
      /\ \A j \in 1 .. Len(allocs) : allocs'[j] = allocs[j]
      /\ allocs'[Len(allocs) + 1] = [addr |-> base, size |-> bytes, aligned |-> aligned]
  BY <1>1, <1>2, <1>5, <1>6, <1>7, ReturnKeeps, Zenon
<1>9. /\ alloc_ptr' = base + bytes /\ alloc_bytes_remaining' = kBlockSize - bytes
      /\ requested' = requested + bytes /\ alive' = alive
  BY <1>1 DEF AllocateInNewBlock, Return
<1>10. TypeOK'
  <2>1. /\ alloc_ptr' \in Nat /\ alloc_bytes_remaining' \in Nat
        /\ requested' \in Nat /\ alive' \in BOOLEAN
    BY <1>2, <1>3, <1>9 DEF TypeOK
  <2>. QED
    BY <2>1, <1>4, <1>5, <1>8, Zenon DEF TypeOK
<1>11. FreeInside'
  BY <1>5, <1>6, <1>9 DEF FreeInside, Inside
<1>12. FreeUnused'
  <2> SUFFICES ASSUME NEW j \in 1 .. Len(allocs) + 1
               PROVE  Separate(allocs'[j].addr, allocs'[j].size, base + bytes, kBlockSize - bytes)
    BY <1>8, <1>9 DEF FreeUnused, Separate
  <2>1. CASE j \in 1 .. Len(allocs)
    BY <2>1, <1>7, <1>8, Zenon
  <2>2. CASE j = Len(allocs) + 1
    BY <2>2, <1>2, <1>8 DEF Separate
  <2>3. Len(allocs) \in Nat
    BY <1>2, RegionTypes
  <2>. QED
    BY <2>1, <2>2, <2>3
<1>13. UsageAccounted'
  <2>1. /\ requested + alloc_bytes_remaining <= blocks_memory
        /\ requested \in Nat /\ alloc_bytes_remaining \in Nat /\ blocks_memory \in Nat
    BY DEF IInv, UsageAccounted, TypeOK
  <2>2. requested' + alloc_bytes_remaining' <= blocks_memory'
    BY <2>1, <1>2, <1>4, <1>9
  <2>. QED
    BY <2>2 DEF UsageAccounted
<1>. QED
  BY <1>8, <1>10, <1>11, <1>12, <1>13 DEF IInv

(* A push_back that throws keeps the invariant. *)
LEMMA PushBackThrowsStep ==
    ASSUME IInv, alive, NEW base \in Bases, NEW size \in Nat, PushBackThrows(base, size)
    PROVE  IInv'
<1>1. heap \subseteq heap' /\ heap' \subseteq Blocks
  BY NewBlockFacts, Zenon DEF PushBackThrows
<1>2. /\ blocks_memory' = blocks_memory + size
      /\ UNCHANGED <<alloc_ptr, alloc_bytes_remaining, blocks, capacity, allocs, requested, alive>>
  BY DEF PushBackThrows, bump
<1>3. TypeOK'
  BY <1>1, <1>2 DEF IInv, TypeOK
<1>4. RegionsDisjoint' /\ AlignedRegions' /\ FreeUnused'
  BY <1>2 DEF IInv, RegionsDisjoint, AlignedRegions, FreeUnused, Separate
<1>5. RegionsAllocated' /\ FreeInside'
  BY <1>1, <1>2 DEF IInv, RegionsAllocated, FreeInside, Inside
<1>6. UsageAccounted'
  <2>1. /\ requested + alloc_bytes_remaining <= blocks_memory
        /\ requested \in Nat /\ alloc_bytes_remaining \in Nat /\ blocks_memory \in Nat
    BY DEF IInv, UsageAccounted, TypeOK
  <2>2. requested' + alloc_bytes_remaining' <= blocks_memory'
    BY <2>1, <1>2
  <2>. QED
    BY <2>2 DEF UsageAccounted
<1>. QED
  BY <1>3, <1>4, <1>5, <1>6 DEF IInv

(* AllocateFallback keeps the invariant. *)
LEMMA FallbackStep ==
    ASSUME IInv, alive, NEW bytes \in Sizes, NEW aligned \in BOOLEAN,
           AllocateFallback(bytes, aligned)
    PROVE  IInv'
<1>1. bytes \in Nat /\ kBlockSize \in Nat
  BY SizesAssumption, BlockAssumption
<1>2. CASE AllocateLarge(bytes, aligned)
  BY <1>2, LargeStep
<1>3. CASE AllocateInNewBlock(bytes, aligned)
  BY <1>3, InNewBlockStep
<1>4. CASE \E base \in Bases :
              PushBackThrows(base, IF IsLarge(bytes) THEN bytes ELSE kBlockSize)
  BY <1>1, <1>4, PushBackThrowsStep
<1>. QED
  BY <1>2, <1>3, <1>4 DEF AllocateFallback

(* The destructor keeps the invariant. *)
LEMMA DestroyStep ==
    ASSUME IInv, Destroy
    PROVE  IInv'
<1>1. /\ heap' \subseteq heap /\ alive' = FALSE
      /\ UNCHANGED <<alloc_ptr, alloc_bytes_remaining, blocks, capacity,
                     blocks_memory, allocs, requested>>
  BY DEF Destroy, bump
<1>2. TypeOK'
  BY <1>1, Zenon DEF IInv, TypeOK
<1>. QED
  BY <1>1, <1>2, Zenon DEF IInv, RegionsDisjoint, RegionsAllocated, AlignedRegions,
                    FreeInside, FreeUnused, UsageAccounted, Separate

(* The inductive invariant of the arena holds in every state. *)
LEMMA Invariance == Spec => []IInv
<1>1. Init => IInv
  BY DEF Init, IInv, TypeOK, RegionsDisjoint, RegionsAllocated, AlignedRegions,
         FreeInside, FreeUnused, UsageAccounted
<1>2. IInv /\ [Next]_vars => IInv'
  <2> SUFFICES ASSUME IInv, [Next]_vars PROVE IInv'
    OBVIOUS
  <2>1. ASSUME NEW bytes \in Sizes, Allocate(bytes) PROVE IInv'
    <3>1. CASE Fits(bytes)
      <4>1. bytes + 0 = bytes /\ 0 \in 0 .. 7 /\ bytes \in Nat
        BY SizesAssumption
      <4>. QED
        BY <2>1, <3>1, <4>1, BumpStep, Zenon DEF Allocate
    <3>2. CASE ~Fits(bytes)
      BY <2>1, <3>2, FallbackStep, Zenon DEF Allocate
    <3>. QED
      BY <3>1, <3>2
  <2>2. ASSUME NEW bytes \in Sizes, AllocateAligned(bytes) PROVE IInv'
    <3>1. CASE Fits(Needed(bytes))
      <4>1. slop_ \in 0 .. 7 /\ (alloc_ptr + slop_) % 8 = 0
        BY SlopFacts DEF IInv, TypeOK
      <4>. QED
        BY <2>2, <3>1, <4>1, BumpStep, Zenon DEF AllocateAligned, Needed
    <3>2. CASE ~Fits(Needed(bytes))
      BY <2>2, <3>2, FallbackStep, Zenon DEF AllocateAligned
    <3>. QED
      BY <3>1, <3>2
  <2>3. CASE Destroy
    BY <2>3, DestroyStep
  <2>4. CASE UNCHANGED vars
    BY <2>4, Zenon DEF vars, bump, owned, IInv, TypeOK, RegionsDisjoint, RegionsAllocated,
                AlignedRegions, FreeInside, FreeUnused, UsageAccounted
  <2>. QED
    BY <2>1, <2>2, <2>3, <2>4 DEF Next
<1>. QED
  BY <1>1, <1>2, PTL DEF Spec

(* The regions that callers hold never overlap. *)
THEOREM Disjointness == Spec => []RegionsDisjoint
<1>1. IInv => RegionsDisjoint
  BY DEF IInv
<1>. QED
  BY Invariance, <1>1, PTL

(* alloc_bytes_remaining_ is never taken below zero, where a size_t would  *)
(* wrap, and every region and block is an interval of addresses.           *)
THEOREM TypeCorrect == Spec => []TypeOK
<1>1. IInv => TypeOK
  BY DEF IInv
<1>. QED
  BY Invariance, <1>1, PTL

(* They lie inside blocks that the arena holds. *)
THEOREM Containment == Spec => []RegionsAllocated
<1>1. IInv => RegionsAllocated
  BY DEF IInv
<1>. QED
  BY Invariance, <1>1, PTL

(* The assert at the end of AllocateAligned never fails. *)
THEOREM Alignment == Spec => []AlignedRegions
<1>1. IInv => AlignedRegions
  BY DEF IInv
<1>. QED
  BY Invariance, <1>1, PTL

(* MemoryUsage is never below what callers have asked for. *)
THEOREM Accounting == Spec => []UsageCoversRequests
<1>1. IInv => UsageCoversRequests
  BY DEF IInv, TypeOK, UsageAccounted, UsageCoversRequests, MemoryUsage
<1>. QED
  BY Invariance, <1>1, PTL

(* A step that gives up a block leaves less than a quarter of it and a gap. *)
THEOREM Waste == Spec => WasteBounded
<1> DEFINE A == alloc_bytes_remaining' > alloc_bytes_remaining
                    => alloc_bytes_remaining < kBlockSize \div 4 + align - 1
<1>1. IInv /\ [Next]_vars => [A]_vars
  <2> SUFFICES ASSUME IInv, Next, alloc_bytes_remaining' > alloc_bytes_remaining
               PROVE  alloc_bytes_remaining < kBlockSize \div 4 + 7
    BY DEF align
  <2>1. /\ alloc_bytes_remaining \in Nat /\ alloc_ptr \in Nat
        /\ kBlockSize \div 4 \in Nat /\ Sizes \subseteq Nat
    BY BlockAssumption, SizesAssumption DEF IInv, TypeOK
  <2>2. ASSUME NEW bytes \in Sizes, NEW aligned \in BOOLEAN, AllocateFallback(bytes, aligned)
        PROVE  bytes <= kBlockSize \div 4
    BY <2>1, <2>2 DEF AllocateFallback, AllocateLarge, AllocateInNewBlock,
                      PushBackThrows, bump, IsLarge
  <2>3. ASSUME NEW bytes \in Sizes, Allocate(bytes)
        PROVE  alloc_bytes_remaining < kBlockSize \div 4 + 7
    <3>1. ~Fits(bytes)
      <4> SUFFICES ASSUME Fits(bytes) PROVE FALSE
        OBVIOUS
      <4>1. alloc_bytes_remaining' = alloc_bytes_remaining - bytes
        BY <2>3 DEF Allocate, Bump
      <4>2. bytes \in Nat
        BY <2>1
      <4>. QED
        BY <2>1, <4>1, <4>2
    <3>2. AllocateFallback(bytes, FALSE)
      BY <2>3, <3>1, Zenon DEF Allocate
    <3>3. bytes <= kBlockSize \div 4
      BY <2>2, <3>2, Zenon
    <3>. QED
      BY <2>1, <3>1, <3>3 DEF Fits
  <2>4. ASSUME NEW bytes \in Sizes, AllocateAligned(bytes)
        PROVE  alloc_bytes_remaining < kBlockSize \div 4 + 7
    <3>1. slop_ \in 0 .. 7
      BY <2>1, SlopFacts
    <3>2. ~Fits(Needed(bytes))
      <4> SUFFICES ASSUME Fits(Needed(bytes)) PROVE FALSE
        OBVIOUS
      <4>1. alloc_bytes_remaining' = alloc_bytes_remaining - Needed(bytes)
        BY <2>4 DEF AllocateAligned, Bump
      <4>2. Needed(bytes) \in Nat
        BY <2>1, <3>1 DEF Needed
      <4>. QED
        BY <2>1, <4>1, <4>2
    <3>3. AllocateFallback(bytes, TRUE)
      BY <2>4, <3>2, Zenon DEF AllocateAligned
    <3>4. bytes <= kBlockSize \div 4
      BY <2>2, <3>3, Zenon
    <3>. QED
      BY <2>1, <3>1, <3>2, <3>4 DEF Fits, Needed
  <2>5. ~Destroy
    BY <2>1 DEF Destroy, bump
  <2>. QED
    BY <2>3, <2>4, <2>5 DEF Next
<1>. QED
  BY <1>1, Invariance, PTL DEF Spec, WasteBounded

=============================================================================

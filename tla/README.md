# A TLA+ development for rockscopy

rockscopy is the beginning of a LevelDB/RocksDB-like store in C++20. What is
implemented today are the building blocks below the database: the skip list of
the memtable, its arena and atomic pointers, slices and their encodings, the
hash, the random generators, tickers, `Status`, `EnvWrapper`, and the
preallocation logic of `WritableFile`. The database itself (`DBImpl`, memtable,
versions, tables, write batches) is declared and not written. This directory
models the building blocks, checks them with TLC and proves their safety
properties with TLAPS.

## Parts of the system

| part | source | state | operations | module |
|---|---|---|---|---|
| skip list | `src/src/db/skiplist.h` | nodes, `next_`, `max_height_`, `prev_` | `Insert` (one writer), `Contains`, `FindLessThan`, `FindLast` (readers without locks) | `SkipList` |
| atomic pointer | `src/src/port/atomic_pointer.h` | `rep_` | release, acquire and relaxed accesses | `AtomicPointer` |
| arena | `src/src/util/arena.{h,cpp}` | current block, `blocks_`, `blocks_memory_` | `Allocate`, `AllocateAligned`, `MemoryUsage`, destructor | `Arena` |
| encodings | `src/src/util/coding.{h,cpp}` | destination string, input slice | `Put...`, `Get...` | `Coding`, `CodingStream` |
| bit streams | same | a byte buffer | `BitStreamPutInt`, `BitStreamGetInt` | `BitStream` |
| slices, hash | `src/include/leveldb/slice.h`, `src/src/util/hash.cpp` | `data_`, `size_` | constructors, `clear`, `remove_prefix`, comparisons, `ToString`, `Hash` | `Slice`, `Hash` |
| random | `src/src/util/random.h` | `seed_` | `Next`, `Uniform`, `OneIn`, `Skewed`; `Random64` | `Random` |
| tickers | `src/include/leveldb/statistics.h` | `count_` | `RecordTick`, `Ticker::recordTick` | `Statistics` |
| status | `src/include/leveldb/status.h` | `state_` | construct, copy, assign, destroy | `Status` |
| environment | `src/include/leveldb/env.h` | `target_` | 25 forwarding methods | `EnvMethods`, `Env`, `EnvWrapper`, `EnvCalls` |
| preallocation | `src/include/leveldb/env.h` | two counters | `SetPreallocationBlockSize`, `PrepareWrite` | `WritableFile` |

The skip list takes its nodes from the arena and its heights from the random
generator, and publishes nodes through atomic pointers. The encodings and the
hash work on slices. Calls of an `Env` return a `Status`. Everything else in the
tree (`PROJECT.json` lists it) is an interface, a stub or a table of settings,
without behaviour to model.

## Modules

**AtomicPointer** is the C++ release/acquire memory model for locations with a
single writer. Each store leaves a message stamped with the writer's time. A
reader has a *view*, the writer's time up to which everything happens-before its
next step; a load may return the newest message inside the view or any later
one, and an acquire load of a release store moves the view forward.

**SkipList** has one writer and any number of readers. `Insert` is split where a
reader can tell the difference: `BeginInsert` (the hint of `prev_[0]`, lines
167-171), `SearchStep` (one round of the search), `AllocNode` (height, `prev_`
of new levels, `max_height_`, the node) and `Link` (one round of lines 123-126;
its two stores have two different times, so a reader may see one without the
other). `Call` and `ReadStep` are the readers; the three searches differ in when
they move on and in what they return. The height is any that `RandomHeight` can
return. Slots of `next_` beyond the first are `Garbage` until written. `prev_`
is kept exactly as the code keeps it, stale entries included.

*Line 124* reads `x->NoBarrier_Next(prev_[i]->NoBarrier_Next(i))`. It calls a
load where a store is meant and does not compile once `Insert` is instantiated.
The constant `StoresSuccessor` selects the reading: FALSE is the line as written
(it stores nothing), TRUE is `NoBarrier_SetNext`, the accessor that the file
defines and uses nowhere. The run `skiplist_line124` shows what the line as
written does; **all passing skip list runs and the theorems about the skip list
except `TypeCorrect` are about the other reading**, that is about the algorithm
with this line repaired.

`RandomHeight` tests `rnd_.Next() & kBranching`, one bit, where the name suggests
`%`: a level is added with probability 1/2 and not 1/4. The height is a free
choice in the model, so nothing here depends on it.

**KeyHistory** is what the skip list promises: keys are only added, and a
lock-free read answers as if it ran at once on some prefix of the inserts, never
a shorter one than the reader has seen. **SkipListRefinement** maps SkipList to it.

**Arena** has addresses as numbers. `new[]` returns any block that overlaps none
in use; `push_back` doubles the vector and may throw when it has to grow.

**Coding** defines the encodings as operators on sequences of bytes, with the
width of a byte, of the integers and of their varints as constants;
**CodingStream** writes a record with them, cuts it anywhere and reads it back.
`EncodeFixed` is little-endian, as `memcpy` is where `port::kLittleEndian` is true.
A slice is read with either overload of `GetLengthPrefixedSlice`; they differ in
what they leave behind when the slice is cut short, and `GetsStopAtTheCut` says
where each may leave the input. `PutLengthPrefixedSlice` cuts the size to 32 bits
as the code does.

**BitStream** has the two `BitStreamPutInt` (buffer, string with `tmpBuf`) and
keeps beside the buffer the bits it should hold. The rounds of the loops are a
function of the byte they are about: `bitOffset`, `bitsToGet` and `Shift` have the
values of that round, the put changes those bits of each byte and the get adds
them up.

**Arithmetic** has what the encodings, the generator and the hash share: `Pow2(k)`
for `1 << k`, `Sum` for a loop that adds up, and `Field(x, at, n)` for a shift and
a mask. They are written as recursive functions and with division, so that the
provers can follow them; `^` on a power of two and `Bitwise` they cannot.

**Slice** has objects that point into one storage: a `std::string` with its
terminator and the literal `""`. The const members are operators on a state. A
byte is two hexadecimal digits, of which there are `Digits`.
**Hash** extends it with `Hash` of the bytes of a slice: `MixWords` is the loop
over the words, `Remaining` the switch, `Xor` adds bit by bit modulo 2. The sign of
`char`, on which the tail depends, is a constant.

**Random** computes the reduction by shift and mask. `Skewed` is two draws, so
the state between them is visible. The members of `Random64` are steps beside
those of `Random`, over any value that `std::mt19937_64` may return. `ShiftedOnes`
is `1 << base` in an `int`: a power of two, the negative `int` when the sign bit is
reached, and any `int` beyond, where the shift is undefined.

**Statistics** has threads that record ticks without a lock. `count_ += n` is a
step that reads and one that writes; since `count_` is a `std::atomic`
(`CounterIsAtomic`), the location is taken in between (`Taken`). A count goes
through the conversions of the code: `uint64_t`, `int`, `uint64_t`. Beside the
counters the model keeps the sum of what was counted and whether an `int` could
hold every count (`exact`). The enumerations and the name maps are transcribed
separately, so that they can be compared. The derived class that hands a count to
its ticker is not in the tree.

**Status** has objects that own arrays; `CopyState` is not defined in the tree
and is modelled from its use. **EnvMethods** lists the 25 methods of `Env`
with their declared parameters, and **Env** says what an environment is to its callers: a call is carried out
once, as it was made, between call and return, and its caller gets the answer. The
class is abstract, so what a call does to files is left open and any answer is
possible. **EnvWrapper** transcribes the 25 bodies, one definition each: the
parameters that the method takes, the method of `target_` that it calls and the
arguments that it passes. Wrappers are built while threads call through them, and
each forwarding step is a step of its own. **EnvCalls** composes this with
`Status`: threads call through wrappers and keep what is returned in `Status`
variables, which they copy, assign and destroy between calls.

**WritableFile** has the base class's counters and an `Append` at the end of the
file that calls `PrepareWrite`.

The `MC...` modules and `.cfg` files give the constants their values. Where proofs
are about two specifications at once, their definitions have names of their own:
`BitSpec`, `FileSpec`, `TickerSpec`, `CallsSpec`.

## Runs

| run | checks | bounds |
|---|---|---|
| `skiplist_readers` | `LoadsAreSafe`, `AccessesInBounds`, `ReadsAreLinearizable`, `CallsReturn` | 3 keys, 3 inserts, 2 levels, 1 reader |
| `skiplist_writer` | `BottomListSorted`, `LevelsComplete` | 4 keys, 4 inserts, 3 levels |
| `arena` | five invariants, `WasteBounded` | blocks of 32 bytes, 4 allocations of 5 sizes |
| `coding_stream` | `GetsReturnWhatWasPut`, `GetsStopAtTheCut` | 3-bit bytes, 9- and 15-bit integers, 2 items |
| `bit_stream` | `PutsOnlyItsBits`, `GetsItsBits` | 3-bit bytes, a buffer of 3, all fields |
| `writable_file` | `AllocatesOnce`, `WritesAreCovered` | 5 block sizes, 4 lengths with 0, files up to 30 bytes |
| `env_calls` | `OneOwner`, `CopiesAreValues`, `VariableTellsAnswer`, `ForwardsAllCalls` | 2 threads, one calling all 25 methods and one 2 of them, 2 wrappers, 2 kinds of errors, 4 `Status` objects, 4 arrays |
| `random` | `SeedInRange`, `DrawsAreModular`, `CyclesThroughAll`, `ReturnsInRange` | M = 7, A = 5, 8 seeds with both fixed points, 2^64 as 32, `max_log` up to 4, one past the sign bit |
| `slice` | `CompareIsTheOrder`, `HexTellsApart`, `HashOfContent`, `HashSeparates` | 2 slices, 2-bit bytes, 5 storages of up to 9 bytes, an `int` up to 9 |
| `statistics` | `TicksAddUp`, `EveryTickIsNamed` | 3 threads, 2 tickers, 6 ticks, a 3-bit `int`, a 4-bit counter, counts that the `int` cannot hold |

Each run also checks the type invariant of its module where it says something.

Why the bounds are enough to meet the hard cases. Readers share nothing, so one
is as good as several. Two inserts are the fewest with which level 1
gets out of order: two tall nodes with rising keys, the second placed by the hint
while `prev_[1]` still is `head_`. A third insert then searches or reads over such
a level, or links into it. Arena sizes lie just below, at and above a quarter
block and on both sides of an alignment boundary. The scaled integers keep the
partly used last group that a 32-bit varint of five bytes has. Two wrappers give
a chain and two paths to one `Env`; that methods and arguments are not exchanged
shows when one thread calls all methods, with different arguments, while another
calls some of the same. The storages of `slice` have zero bytes, equal
and nearly equal parts, two whole words with a tail for the hash, and the longest
is as long as the `int` of `compare` can say; `HashSeparates` changes the bytes of
a word in every possible way. Six ticks of 3 wrap the counter. A deadlock check
is switched off where the model ends with its bound (inserts, file size, record)
or the object with its destructor.

Two runs are expected to be violated; each shows a disagreement between the
code and a line of its own documentation, quoted in `PROJECT.json`:

* `skiplist_line124`: a node is published with an uninitialised pointer.
* `writable_file_resized`: `last_preallocated_block_` counts blocks of the size with
  which they were allocated. After the size was raised, `PrepareWrite` compares this
  count with a number of larger blocks, finds that none is missing and does not
  call `Allocate`, and bytes are written that were never allocated. The passing run
  sets the size before the first allocation (`SizeChanges`).

Some things are visible in the models without a run of their own. `Random` takes
the seeds 0 and M, from which it never moves (`SeedInRange` states it). A block is lost
when `push_back` throws (`PushBackThrows` leaves it in `heap` and in no `blocks`
entry; the other properties of the arena survive it). `Status::operator=` deletes
before it copies, so an exception from the copy would leave a deleted pointer;
the Status model assumes that memory does not run out. The comment on `Ticker` says
"Not thread safe. Locking is currently managed by external leveldb lock"
(`src/include/leveldb/statistics.h:151-154`). The code does not bear it out: `count_`
is a `std::atomic`, `RecordTick` takes no lock, and `TicksAddUp` holds without one;
with a plain `uint64_t` in its place it fails. As code that is safer than its
comment violates nothing, this has no run.

Four things hold only up to a limit:

* `compare`: up to 2^31 - 1 bytes (`TextsAssumption`); beyond, the `int` that it
  hands to `memcmp` is negative.
* `PutLengthPrefixedSlice`: slices of less than 2^32 bytes (`ValuesAssumption`); of a
  longer one it puts all bytes and only the low 32 bits of the length.
* tickers: after a count of 2^31 or more, which the `int` of `recordTick` cannot hold,
  only the low 32 bits of `getCount` are right. `TicksAddUp` states both cases.
* `Skewed`: its documented range "[0,2^max_log-1]" is kept as long as the base that is
  drawn is at most 31 in `Random` and at most 30 in `Random64`. There `1 << 31`
  becomes nearly 2^64, and beyond the shift is undefined. The model takes these
  steps; `ReturnsInRange` speaks of the others (`ret.fits`).

**Fairness.** Only `skiplist_readers` uses it: weak fairness of the steps of a
running `Insert` and of a running read, that is, a thread inside a call keeps
being scheduled. Nothing makes anyone start a call, or makes a store visible.

**A remark on upper levels.** The hint makes levels above 0 unsorted in some
executions. `LevelsComplete` and `ReadsAreLinearizable` show that answers stay
right: every node on an upper level is on the bottom list, a search only moves to
nodes before its key, and level 0 is sorted. Only search time can suffer.

## Proofs

Every safety property that a run checks is also a theorem, for every value of the
constants that the assumptions admit. `PROJECT.json` names the theorem for each.

* `SkipListProofs`, for every set of keys and readers, every `kMaxHeight` and any
  number of inserts. `TypeCorrect` holds for both readings of line 124.
  - `Sorted`. `BottomListSorted` alone is not inductive. `Structure` adds that
    pointers of a level stay on the level (`Closed`), that every `prev_[l]` is a
    node of level l (`PrevLinked`), that the search has passed only nodes before
    the key (`Passed`), and that from the end of the search until the node is
    linked `prev_[0]` and its successor enclose the key (`InsertionPoint`). Nothing
    is needed about the order of upper levels.
  - `Complete` (`LevelsComplete`). What the pointers of a level lead to is its
    least set closed under them, and `Reached` says of every closed set that it has
    all nodes of the level. `Link` keeps it: a set closed under the new pointers
    has the new node and what came after it, so without the node it is closed
    under the old ones.
  - `SafeReads` and `InBounds`. The invariant `Safety` is about the messages in
    memory. `Initialised(a, l, v)` says that a store inside the view v has given
    `a->next_[l]` a value and that whatever else a load may return came from a
    release store. `Publication`: this holds for `head_` from the start and for
    every node of a level by now, and a pointer in memory leads to a node of its
    level that was born and, from that level down, initialised before the pointer
    was stored. `Footing`: a reader stands on a node that is initialised in its
    view from its level down. A load then returns either nullptr or a node with the
    same property in the new view, because the acquire load of a release store
    moves the view past the store. The step that needs care is `Link`: the two
    stores of a round must be in the order of lines 124 and 125.
  - `Linearizable`, the refinement of `KeyHistory`. `Past` is about all times, not
    only the present one: within every view the bottom list was sorted and had the
    nodes of a prefix of the inserts (`History`), the messages tell that past
    (`Chronicle`), and a reader stands on a node of its own past before the key it
    seeks (`Stands`). When a read ends, the last load, whichever message it
    returned, fixes the prefix on which the answer is right. Then every step of
    the list is a step of `KeyHistory` or leaves its variables alone.
* `ArenaProofs`: `TypeCorrect`, `Disjointness`, `Containment`, `Alignment`,
  `Accounting`, `Waste`, for all sizes. The invariant adds that the free part of
  the current block lies inside a block, that no region overlaps it, and that the
  requested bytes are covered by `blocks_memory_`. Assumed: `new[]` returns
  multiples of 8, requests are positive and do not wrap `size_t`.
* `UtilProofs`, the generator: `Range`, `Modular`, `Returns` and `Period`, for every
  prime M and every A that generates the numbers modulo M
  (`PrimeAssumption`, `GeneratorAssumption`; 16807 is a primitive root of
  2^31 - 1). TLC evaluates the assumptions for its own M and A; for the code's
  they are facts of number theory that are not proved here. `Returns` is for all
  arguments, for `Skewed` under the condition on the shift that `ReturnsInRange` has;
  it rests on `Drawn`, which relates the base and the `int` that are carried between
  the two draws to `max_log`, and on `ShiftComesBack`: the negative `1 << 31` is 2^31
  again as a `uint32_t`.
  `Period` rests on `Cycle`: after k draws the seed is the first one times A^k, and two
  powers of A below M - 1 are different.
* `UtilProofs`, the tickers: `NoTickIsLost`, `Types` and `Named`, for any widths
  with the range of `int` even and dividing that of the counter. `TicksAddUp`
  chooses the thread in progress; the invariant states it for every such thread,
  adds that there is at most one per ticker, and that the value it has read is
  still current. A count may be any integer: what the conversions make of it differs
  by a multiple of 2^32 (`Wraps`, `Conversions`), so the low bits are right in any
  case, and by nothing if an `int` holds it (`Begun`, `Added`).
* `EnvProofs`, `Status`: `Types`, `Ownership` and `ValueSemantics`, for any number
  of objects, arrays and messages. The invariant `Owned` says that each array has
  one live owner and that the array of an object holds the content of the value
  that the object stands for. It is a predicate of the four components, so that an
  assignment is giving up an array and taking one, with the state in between;
  `AssignStep` is where the test for aliasing is needed. `CallsAreUses`: what the
  threads of `EnvCalls` do with their objects is a behaviour of `Status`.
* `EnvProofs`, `EnvWrapper`: `Transparency`, the refinement: any chains of wrappers,
  built in any order, implement direct calls. `Straight` says of a body that it takes
  as many parameters as `Env` declares, calls the method of its own name and passes
  them in the same order; `AllStraight` shows it for each of the 25, and
  `ForwardedIsCall` that such a body changes no call. Then `FrameIsRequest` is
  invariant: the frame at which a call has arrived is what the thread asked for.
* `EnvProofs`, the composition: `AnswerArrives`. The invariant says that between the
  return of the `Env` and the assignment the temporary carries the answer, and from
  the assignment on the variable does (`Carries`, `AnswerInv`), which no other thread
  disturbs because it uses other objects and every array has one owner
  (`OthersCarry`).
* `EnvProofs`, `WritableFile`: `FileTypes` for any sequence of block sizes; `NoWaste`
  and `Coverage` under `~SizeChanges`, which `writable_file_resized` shows to be
  needed. The argument is that what is allocated is exactly the bytes of the first
  `last_preallocated_block_` blocks, and that the division rounds up.
* `CodingProofs`: `Types`, `RoundTrip` and `StopsAtTheCut`, for every width of bytes
  and integers (`WidthAssumption`: integers are whole bytes, and the longest varint
  is long enough and no longer), all values and slices of those widths, records of
  any length and every cut. An encoder is shown to write the number in base 2^G
  with as many groups as it needs (`Groups`, `Varint`), and a decoder to read such
  groups back, or to find that the input ends among them. The invariants say that
  the record is the encodings one after the other (`Laid`) and that the reader has
  the values so far and stands where the next encoding begins (`Reading`) or, after
  a failure, where the torn one begins or behind its length (`Stopped`).
* `BitStreamProofs`: `BitTypes`, `PutsKeepBits`, `GetsBack` and `PutThenGet`, for
  every width and every buffer. The invariant `Stored` says of each bit of the
  buffer that it is the one last put there. A round of the put changes the bits of
  its field in one byte (`PutByte`); the fields of the rounds are apart and make up
  the whole (`RoundOfByte`, `RoundsOfField`); a get gathers its number from them
  (`Gather`). The string variant does the same on `tmpBuf`, which is never too short
  (`TmpBufSuffices`, `StringIsChars`). `PutThenGet` is what the `assert`s at the end
  of `BitStreamPutInt` say; as an action property it takes TLC a quarter of an
  hour even for 3-bit bytes, so it has no run.
* `SliceProofs`, the slices: `Inside`, `Order` and `HexIsInjective`, for every
  storage that `compare` can measure (`TextsAssumption`) and any number of digits.
  `Order` goes through the first difference of two strings (`Precedes`), of which
  there is at most one; `HexIsInjective` through what the recursion writes at each
  place (`HexIsWritten`).
* `SliceProofs`, the hash: `ContentHash` and `NoCollision`, for every length, seed,
  width of a byte and odd multiplier, with `char` signed or not. `NoCollision` has
  four parts. A multiple of a power of two by an odd factor comes from one
  (`OddFactor`), so multiplying modulo 2^32 loses nothing. A word can be recovered
  from its exclusive or with itself shifted, from the top bit down (`XorShift`).
  The sum of a word's bytes, or of the tail's chars, tells the bytes: digits less
  than the base apart are determined from the last to the first, negative ones
  included (`DecodeSeparates`, `RemainingSeparates`). Then the states of two runs
  of the loop agree before the block in which the inputs differ, and, if they agree
  at the end, right after it (`SameBefore`, `SameAfter`).
* `ArithmeticProofs`: the lemmas that these rest on. The library's induction
  theorems have an operator parameter that the provers cannot instantiate; the
  well-foundedness of the natural numbers is stated for sets, and induction over a
  set is derived from it (`Least`, `StrongInduction`, `Induction`). A recursive
  function on an interval exists (`Iteration`), and by induction it is the only
  one; this gives what `Pow2`, `Sum`, the encoders and the loop of the hash compute.
  Then division, fields of bits (`Parts`, `BitsOfField`, `Gather`), numbers and
  their bits (`NumberBits`, `SameBits`) and digits (`FourDigits`).

Only model-checked: `CallsReturn`. It is a liveness property under fairness, which
is beyond these provers.

## Not modelled

* `DB`, `Iterator`, `WriteBatch`, `TransactionLogIterator`, `Comparator`, `Cache`,
  `SequentialFile`, `RandomAccessFile`, `Logger`, `FileLock`, `Histogram`,
  `Statistics`: abstract classes that nothing in the tree implements.
* `DBImpl`, `MemTable`, `MemTableList`, `VersionSet`, `Block`, `env_posix.cpp`, the
  shell: declarations and stubs without bodies, so there is no order of steps to
  translate. They are most of the lines that remain.
* `Options`, `EnvOptions`: settings that no code reads yet.
* `Status::ToString` (declared only) and the texts of the name maps: wording.
* Requests to the arena of no bytes or of nearly 2^64 bytes: nodes have at least
  the size of a `Node`.
* The skip list and the arena are checked apart: a node is a name in `SkipList`,
  and `Disjointness` with `Containment` is what makes two nodes two places.

----------------------------- MODULE Statistics -----------------------------
(***************************************************************************)
(* Tickers (src/include/leveldb/statistics.h) that several threads record  *)
(* through RecordTick.  The classes derived from Statistics are not in the *)
(* tree; the one here keeps a Ticker for each enumerator and hands it the  *)
(* count.  On the way a count is a uint64_t, then an int, then a uint64_t  *)
(* again.  count_ += n is a step that reads and a step that writes; for an *)
(* atomic counter, the location is taken in between.  Nothing here relies  *)
(* on the "external leveldb lock" that the comment on Ticker speaks of.    *)
(***************************************************************************)
EXTENDS Integers, Sequences

CONSTANTS
    Threads,
    Recorded,     \* the tickers, a part of the enumeration, that are recorded
    Counts,       \* what callers count: 1, a number of bytes, or -1
    IntRange,     \* 2^32
    CountRange,   \* 2^64
    MaxTicks      \* bound: calls of RecordTick

ASSUME RangeAssumption ==
    /\ IntRange \in Nat /\ IntRange % 2 = 0 /\ IntRange > 0
    /\ CountRange \in Nat /\ CountRange >= IntRange /\ CountRange % IntRange = 0
ASSUME CountsAssumption == Counts \subseteq Int

(* The enumerators in the order of their values, from 0. *)
Tickers == <<
    "BLOCK_CACHE_MISS", "BLOCK_CACHE_HIT", "BLOOM_FILTER_USEFUL",
    "COMPACTION_KEY_DROP_NEWER_ENTRY", "COMPACTION_KEY_DROP_OBSOLETE",
    "COMPACTION_KEY_DROP_USER", "NUMBER_KEYS_WRITTEN", "NUMBER_KEYS_READ",
    "BYTES_WRITTEN", "BYTES_READ", "NO_FILE_CLOSES", "NO_FILE_OPENS",
    "NO_FILE_ERRORS", "STALL_L0_SLOWDOWN_MICROS",
    "STALL_MEMTABLE_COMPACTION_MICROS", "STALL_L0_NUM_FILES_MICROS",
    "RATE_LIMIT_DELAY_MILLIS", "NO_ITERATORS", "NUMBER_MULTIGET_CALLS",
    "NUMBER_MULTIGET_KEYS_READ", "NUMBER_MULTIGET_BYTES_READ">>
TICKER_ENUM_MAX == 21

ASSUME RecordedAssumption == Recorded \subseteq 0 .. TICKER_ENUM_MAX - 1

Histograms == <<
    "DB_GET", "DB_WRITE", "COMPACTION_TIME", "TABLE_SYNC_MICROS",
    "COMPACTION_OUTFILE_SYNC_MICROS", "WAL_FILE_SYNC_MICROS",
    "MANIFEST_FILE_SYNC_MICROS", "TABLE_OPEN_IO_MICROS", "DB_MULTIGET",
    "READ_BLOCK_COMPACTION_MICROS", "READ_BLOCK_GET_MICROS",
    "WRITE_RAW_BLOCK_MICROS">>
HISTOGRAM_ENUM_MAX == 12

(* The pairs of the two name maps, by their enumerators. *)
TickersNameMap == <<
    "BLOCK_CACHE_MISS", "BLOCK_CACHE_HIT", "BLOOM_FILTER_USEFUL",
    "COMPACTION_KEY_DROP_NEWER_ENTRY", "COMPACTION_KEY_DROP_OBSOLETE",
    "COMPACTION_KEY_DROP_USER", "NUMBER_KEYS_WRITTEN", "NUMBER_KEYS_READ",
    "BYTES_WRITTEN", "BYTES_READ", "NO_FILE_CLOSES", "NO_FILE_OPENS",
    "NO_FILE_ERRORS", "STALL_L0_SLOWDOWN_MICROS",
    "STALL_MEMTABLE_COMPACTION_MICROS", "STALL_L0_NUM_FILES_MICROS",
    "RATE_LIMIT_DELAY_MILLIS", "NO_ITERATORS", "NUMBER_MULTIGET_CALLS",
    "NUMBER_MULTIGET_KEYS_READ", "NUMBER_MULTIGET_BYTES_READ">>

(* A mutant: a histogram was added to the enumeration only. *)
OneNameMissing == SubSeq(Histograms, 1, HISTOGRAM_ENUM_MAX - 1)

HistogramsNameMap == <<
    "DB_GET", "DB_WRITE", "COMPACTION_TIME", "TABLE_SYNC_MICROS",
    "COMPACTION_OUTFILE_SYNC_MICROS", "WAL_FILE_SYNC_MICROS",
    "MANIFEST_FILE_SYNC_MICROS", "TABLE_OPEN_IO_MICROS", "DB_MULTIGET",
    "READ_BLOCK_COMPACTION_MICROS", "READ_BLOCK_GET_MICROS",
    "WRITE_RAW_BLOCK_MICROS">>

VARIABLES
    statistics,   \* whether the shared_ptr points to an object
    count_,       \* of each Ticker
    pc,           \* of each thread: "ready", "adding" or "aborted"
    call,         \* the ticker, the int and the value read, while adding
    sum,          \* what was counted for each ticker, as an integer
    exact,        \* of each ticker: every count so far is a value of an int
    ticks         \* how many calls were made

tickerVars == <<statistics, count_, pc, call, sum, exact, ticks>>

NoCall == [ticker |-> 0, count |-> 0, read |-> 0]

TickerInit ==
    /\ statistics \in BOOLEAN
    /\ count_ = [k \in Recorded |-> 0]
    /\ pc = [t \in Threads |-> "ready"]
    /\ call = [t \in Threads |-> NoCall]
    /\ sum = [k \in Recorded |-> 0]
    /\ exact = [k \in Recorded |-> TRUE]
    /\ ticks = 0

ToUint64(n) == n % CountRange

ToInt(u) ==
    LET low == u % IntRange
    IN IF low < IntRange \div 2 THEN low ELSE low - IntRange

Ints == -(IntRange \div 2) .. (IntRange \div 2) - 1

(* A mutant: uint64_t count_, as the comment on Ticker has it. *)
PlainCounter == FALSE

(* std::atomic_uint_fast64_t count_ *)
CounterIsAtomic == TRUE

(* The counter is between the read and the write of another count_ += n. *)
Taken(k) ==
    CounterIsAtomic /\ \E u \in Threads : pc[u] = "adding" /\ call[u].ticker = k

AssertsHold ==
    /\ Len(HistogramsNameMap) = HISTOGRAM_ENUM_MAX
    /\ Len(TickersNameMap) = TICKER_ENUM_MAX

(* RecordTick(statistics, k, n), up to the read in Ticker::recordTick *)
RecordTick(t, k, n) ==
    /\ pc[t] = "ready" /\ ticks < MaxTicks
    /\ ticks' = ticks + 1
    /\ IF ~AssertsHold
       THEN /\ pc' = [pc EXCEPT ![t] = "aborted"]
            /\ UNCHANGED <<count_, call, sum, exact>>
       ELSE IF ~statistics
       THEN UNCHANGED <<count_, pc, call, sum, exact>>
       ELSE /\ ~Taken(k)
            /\ pc' = [pc EXCEPT ![t] = "adding"]
            /\ call' = [call EXCEPT ![t] =
                 [ticker |-> k, count |-> ToInt(ToUint64(n)), read |-> count_[k]]]
            /\ sum' = [sum EXCEPT ![k] = @ + n]
            /\ exact' = [exact EXCEPT ![k] = @ /\ n \in Ints]
            /\ UNCHANGED count_
    /\ UNCHANGED statistics

(* A mutant: the counter does not wrap. *)
AddUnbounded(t) ==
    /\ pc[t] = "adding"
    /\ count_' = [count_ EXCEPT ![call[t].ticker] = call[t].read + call[t].count]
    /\ pc' = [pc EXCEPT ![t] = "ready"]
    /\ call' = [call EXCEPT ![t] = NoCall]
    /\ UNCHANGED <<statistics, sum, exact, ticks>>

(* count_ += count writes. *)
Add(t) ==
    /\ pc[t] = "adding"
    /\ count_' = [count_ EXCEPT ![call[t].ticker] =
                    ToUint64(call[t].read + call[t].count)]
    /\ pc' = [pc EXCEPT ![t] = "ready"]
    /\ call' = [call EXCEPT ![t] = NoCall]
    /\ UNCHANGED <<statistics, sum, exact, ticks>>

TickerNext ==
    \E t \in Threads :
        \/ \E k \in Recorded, n \in Counts : RecordTick(t, k, n)
        \/ Add(t)

TickerSpec == TickerInit /\ [][TickerNext]_tickerVars

(* What getCount returns. *)
getCount(k) == count_[k]

-----------------------------------------------------------------------------
(* Every variable has its type. *)
TypeOK ==
    /\ statistics \in BOOLEAN
    /\ count_ \in [Recorded -> 0 .. CountRange - 1]
    /\ pc \in [Threads -> {"ready", "adding", "aborted"}]
    /\ \A t \in Threads : pc[t] = "adding" =>
          /\ call[t].ticker \in Recorded
          /\ call[t].count \in Ints
          /\ call[t].read \in 0 .. CountRange - 1
    /\ sum \in [Recorded -> Int] /\ exact \in [Recorded -> BOOLEAN]
    /\ ticks \in Nat

(* What the ticks in progress on k will still add: one at most. *)
InProgress(k) ==
    LET adding == {u \in Threads : pc[u] = "adding" /\ call[u].ticker = k}
    IN IF adding = {} THEN 0 ELSE call[CHOOSE u \in adding : TRUE].count

(* c counts s: exactly, modulo 2^64, or at least in the bits of an int. *)
Agrees(c, s, precise) ==
    c % IntRange = s % IntRange /\ (precise => c = ToUint64(s))

(* No tick is lost or counted twice, whichever threads record at the same  *)
(* time and without a lock: getCount is the sum of what was counted,       *)
(* modulo 2^64, as long as each count passes through the int of            *)
(* recordTick unchanged (a count of -1, an iterator that is closed, does). *)
(* Once a count of 2^31 or more was recorded, only the low 32 bits are     *)
(* right.                                                                  *)
TicksAddUp ==
    \A k \in Recorded : Agrees(getCount(k), sum[k] - InProgress(k), exact[k])

(* The enumerations and the name maps agree entry by entry, as the         *)
(* comments on them ask ("Add a string representation in TickersNameMap"), *)
(* so that the asserts of RecordTick never stop a thread.                  *)
EveryTickIsNamed ==
    /\ \A t \in Threads : pc[t] # "aborted"
    /\ TickersNameMap = Tickers
    /\ HistogramsNameMap = Histograms
=============================================================================

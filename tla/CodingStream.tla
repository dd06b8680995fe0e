---------------------------- MODULE CodingStream ----------------------------
(***************************************************************************)
(* A record put together with the Put... routines of coding.cpp and taken  *)
(* apart with the Get... routines, from a buffer that may have been cut    *)
(* short anywhere (a torn write, a short read).                            *)
(***************************************************************************)
EXTENDS Coding

CONSTANTS
    Values32, Values64, Slices,   \* what is put
    MaxItems                      \* bound: items in a record

(* A uint32_t and a uint64_t, and slices whose size is a uint32_t: a longer *)
(* one is put with a length that is not its own and cannot be read back.   *)
ASSUME ValuesAssumption ==
    /\ Values32 \subseteq 0 .. Pow2(Bits32) - 1
    /\ Values64 \subseteq 0 .. Pow2(Bits64) - 1
    /\ \A s \in Slices : s \in Seq(Byte) /\ Len(s) < Pow2(Bits32)

VARIABLES
    dst,     \* the std::string that the Put... routines append to
    log,     \* the items put so far
    input,   \* the Slice that the Get... routines advance
    cut,     \* how much of dst the reader was given
    got,     \* the values read so far
    phase

vars == <<dst, log, input, cut, got, phase>>

Items == [kind : {"fixed32", "varint32"}, val : Values32]
            \cup [kind : {"fixed64", "varint64"}, val : Values64]
            \cup [kind : {"slice"}, val : Slices]

Init ==
    /\ dst = <<>> /\ log = <<>> /\ input = <<>> /\ cut = 0 /\ got = <<>>
    /\ phase = "write"

(* PutFixed32, PutFixed64, PutVarint32, PutVarint64, PutLengthPrefixedSlice *)
Encoding(item) ==
    CASE item.kind = "fixed32"  -> EncodeFixed(item.val, Bits32)
      [] item.kind = "fixed64"  -> EncodeFixed(item.val, Bits64)
      [] item.kind = "varint32" -> EncodeVarint32(item.val)
      [] item.kind = "varint64" -> EncodeVarint64(item.val)
      [] item.kind = "slice"    -> PutLengthPrefixedSlice(item.val)

Put(item) ==
    /\ phase = "write" /\ Len(log) < MaxItems
    /\ dst' = dst \o Encoding(item)
    /\ log' = Append(log, item)
    /\ UNCHANGED <<input, cut, got, phase>>

Open(c) ==
    /\ phase = "write" /\ log # <<>>
    /\ phase' = "read"
    /\ cut' = c
    /\ input' = SubSeq(dst, 1, c)
    /\ UNCHANGED <<dst, log, got>>

(* DecodeFixed does no bounds checking: its callers look at the size. *)
GetFixed(bits) ==
    IF Len(input) < bits \div (G + 1)
    THEN [ok |-> FALSE, value |-> 0, rest |-> input]
    ELSE [ok |-> TRUE, value |-> DecodeFixed(input, bits),
          rest |-> Drop(input, bits \div (G + 1))]

(* A slice is read with either overload. *)
Decoded(kind) ==
    CASE kind = "fixed32"  -> {GetFixed(Bits32)}
      [] kind = "fixed64"  -> {GetFixed(Bits64)}
      [] kind = "varint32" -> {GetVarint32(input)}
      [] kind = "varint64" -> {GetVarint64(input)}
      [] kind = "slice"    -> {GetLengthPrefixedSlice(input),
                               GetLengthPrefixedSlicePtr(input)}

(* The reader knows which kinds to expect. *)
Get ==
    /\ phase = "read" /\ Len(got) < Len(log)
    /\ \E d \in Decoded(log[Len(got) + 1].kind) :
          /\ input' = d.rest
          /\ IF d.ok
             THEN got' = Append(got, d.value) /\ UNCHANGED phase
             ELSE phase' = "failed" /\ UNCHANGED got
    /\ UNCHANGED <<dst, log, cut>>

Next ==
    \/ \E item \in Items : Put(item)
    \/ \E c \in 0 .. Len(dst) : Open(c)
    \/ Get

Spec == Init /\ [][Next]_vars

-----------------------------------------------------------------------------
(* Every variable has its type: in particular the buffers hold bytes.      *)
TypeOK ==
    /\ \A j \in 1 .. Len(dst) : dst[j] \in Byte
    /\ \A j \in 1 .. Len(log) : log[j] \in Items
    /\ cut \in 0 .. Len(dst)
    /\ Len(input) <= cut
    /\ Len(got) <= Len(log)
    /\ phase \in {"write", "read", "failed"}

(* Whatever was put next to it and wherever the buffer was cut, a Get that *)
(* succeeds returns the value that was put there.                          *)
GetsReturnWhatWasPut ==
    \A j \in 1 .. Len(got) : got[j] = log[j].val

(* The length of an item, from VarintLength. *)
ItemLength(item) ==
    CASE item.kind = "fixed32" -> Bits32 \div (G + 1)
      [] item.kind = "fixed64" -> Bits64 \div (G + 1)
      [] item.kind \in {"varint32", "varint64"} -> VarintLength(item.val)
      [] item.kind = "slice" -> VarintLength(Len(item.val)) + Len(item.val)

(* The part of an item that is read before it can be found torn. *)
PrefixLength(item) ==
    IF item.kind = "slice" THEN VarintLength(Len(item.val)) ELSE 0

RecordLength(k) == Sum([j \in 1 .. k |-> ItemLength(log[j])], k)

(* The reader gets the items that lie wholly before the cut and no other:  *)
(* no Get takes a torn item for a shorter one, refuses a whole one, or     *)
(* looks past the end; and VarintLength tells where each item ends.  A Get *)
(* that fails leaves the input at the torn item, or, if this is a slice    *)
(* whose length is whole, behind the length, and nowhere else.             *)
GetsStopAtTheCut ==
    /\ RecordLength(Len(log)) = Len(dst)
    /\ phase = "read" => /\ RecordLength(Len(got)) <= cut
                         /\ input = SubSeq(dst, RecordLength(Len(got)) + 1, cut)
    /\ phase = "failed" =>
          /\ RecordLength(Len(got) + 1) > cut
          /\ \E skipped \in {0, PrefixLength(log[Len(got) + 1])} :
                LET at == RecordLength(Len(got)) + skipped
                IN at <= cut /\ input = SubSeq(dst, at + 1, cut)
=============================================================================

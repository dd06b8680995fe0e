---------------------------- MODULE WritableFile ----------------------------
(***************************************************************************)
(* WritableFile (src/include/leveldb/env.h): the preallocation that an     *)
(* implementation gets from the base class when its Append calls           *)
(* PrepareWrite(offset, len) before it writes at the end of the file.      *)
(***************************************************************************)
EXTENDS Integers

CONSTANTS
    BlockSizes,   \* arguments of SetPreallocationBlockSize
    Lengths,      \* lengths of the appended data
    MaxFileSize,  \* bound: size of the file
    SizeChanges   \* the block size may be set after blocks were allocated

ASSUME SizesAssumption == BlockSizes \subseteq Nat /\ Lengths \subseteq Nat
ASSUME ModeAssumption == MaxFileSize \in Nat /\ SizeChanges \in BOOLEAN

VARIABLES
    last_preallocated_block, preallocation_block_size,
    file_size,    \* end of the data; where Append writes
    allocated,    \* the bytes for which Allocate was called
    twice         \* bytes for which it was called more than once

fileVars == <<last_preallocated_block, preallocation_block_size, file_size,
          allocated, twice>>

FileInit ==
    /\ last_preallocated_block = 0 /\ preallocation_block_size = 0
    /\ file_size = 0 /\ allocated = {} /\ twice = {}

SetPreallocationBlockSize(size) ==
    /\ SizeChanges \/ last_preallocated_block = 0
    /\ preallocation_block_size' = size
    /\ UNCHANGED <<last_preallocated_block, file_size, allocated, twice>>

(* The virtual function that an Env overrides, fallocate for instance. *)
Allocate(offset, len) ==
    LET range == offset .. offset + len - 1
    IN /\ allocated' = allocated \cup range
       /\ twice' = twice \cup (allocated \cap range)

(* A mutant: the division rounds down. *)
LastBlockRoundedDown(end, size) == end \div size

(* A mutant: one block more where the write ends on a boundary. *)
LastBlockPastEnd(end, size) == (end + size) \div size

LastBlock(end, size) == (end + size - 1) \div size

(* A mutant: the allocation starts one block late. *)
FromNextBlock(size) == size * (last_preallocated_block + 1)

FirstNewByte(size) == size * last_preallocated_block

PrepareWrite(offset, len) ==
    LET size == preallocation_block_size
        new_last == LastBlock(offset + len, size)
    IN IF size # 0 /\ new_last > last_preallocated_block
       THEN /\ Allocate(FirstNewByte(size), size * (new_last - last_preallocated_block))
            /\ last_preallocated_block' = new_last
       ELSE UNCHANGED <<last_preallocated_block, allocated, twice>>

Append(len) ==
    /\ file_size + len <= MaxFileSize
    /\ PrepareWrite(file_size, len)
    /\ file_size' = file_size + len
    /\ UNCHANGED preallocation_block_size

FileNext ==
    \/ \E size \in BlockSizes : SetPreallocationBlockSize(size)
    \/ \E len \in Lengths : Append(len)

FileSpec == FileInit /\ [][FileNext]_fileVars

-----------------------------------------------------------------------------
(* Every variable has its type, and there are never more blocks than bytes. *)
FileTypeOK ==
    /\ last_preallocated_block \in 0 .. MaxFileSize
    /\ preallocation_block_size \in BlockSizes \cup {0}
    /\ file_size \in 0 .. MaxFileSize
    /\ allocated \subseteq Nat /\ twice \subseteq Nat

(* A write with preallocation on is covered when it occurs: PrepareWrite   *)
(* has determined the "last preallocation block necesessary to cover this  *)
(* write" and has allocated "to that point".                               *)
WritesAreCovered ==
    [][file_size' > file_size /\ preallocation_block_size # 0
          => 0 .. file_size' - 1 \subseteq allocated']_fileVars

(* Nothing is allocated twice, and never a whole block more than the data  *)
(* needs ("less waste from over-zealous filesystem pre-allocation").       *)
AllocatesOnce ==
    /\ twice = {}
    /\ allocated = 0 .. preallocation_block_size * last_preallocated_block - 1
    /\ last_preallocated_block > 0 =>
          preallocation_block_size * (last_preallocated_block - 1) < file_size
=============================================================================

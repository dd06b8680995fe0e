------------------------------- MODULE Status -------------------------------
(***************************************************************************)
(* Status (src/include/leveldb/status.h): a value class that owns a heap   *)
(* array.  Objects are named by Objs; an array holds a code and a message. *)
(* CopyState and the private constructor are declared in the header and    *)
(* defined nowhere in the tree: they are taken to be what their use and    *)
(* the comment on state_ require, a new[] array with the code and the      *)
(* message.  Memory does not run out: were CopyState to throw inside       *)
(* operator=, the object would keep the array that line 116 has deleted.   *)
(***************************************************************************)
EXTENDS Integers

CONSTANTS
    Objs, Messages,
    Kinds,         \* the factories that are called
    Arrays,        \* bound: the arrays that may exist at once
    nullptr

ASSUME ArraysAssumption == nullptr \notin Arrays

VARIABLES
    live,     \* the objects that are constructed
    state_,   \* of each live object: its array or nullptr
    heap,     \* content of the allocated arrays
    value     \* what each object should be: the factory and the message

vars == <<live, state_, heap, value>>

kOk == 0

(* The code that each factory passes on. *)
Factory == [
    NotFound        |-> 1,
    Corruption      |-> 2,
    NotSupported    |-> 3,
    InvalidArgument |-> 4,
    IOError         |-> 5,
    MergeInProgress |-> 6]

ASSUME KindsAssumption == Kinds \subseteq DOMAIN Factory

(* The code that each predicate Is... compares with. *)
Predicate == [
    NotFound        |-> 1,
    Corruption      |-> 2,
    NotSupported    |-> 3,
    InvalidArgument |-> 4,
    IOError         |-> 5,
    MergeInProgress |-> 6]

OK == [kind |-> "OK", msg |-> "none"]
Values == [kind : Kinds, msg : Messages]
Contents == [code : {Factory[k] : k \in Kinds}, msg : Messages]

Allocated == DOMAIN heap
Without(h, S) == [a \in DOMAIN h \ S |-> h[a]]
With(h, a, c) == [b \in DOMAIN h \cup {a} |-> IF b = a THEN c ELSE h[b]]

Init ==
    /\ live = {}
    /\ state_ = [s \in Objs |-> nullptr]
    /\ heap = [a \in {} |-> nullptr]
    /\ value = [s \in Objs |-> OK]

(* Status(), Status::OK() *)
ConstructOK(s) ==
    /\ s \notin live
    /\ live' = live \cup {s}
    /\ state_' = [state_ EXCEPT ![s] = nullptr]
    /\ value' = [value EXCEPT ![s] = OK]
    /\ UNCHANGED heap

(* Status::NotFound(msg), Status::Corruption(msg), ... *)
ConstructError(s, k, m) ==
    /\ s \notin live
    /\ \E a \in Arrays \ Allocated :
          /\ heap' = With(heap, a, [code |-> Factory[k], msg |-> m])
          /\ state_' = [state_ EXCEPT ![s] = a]
    /\ live' = live \cup {s}
    /\ value' = [value EXCEPT ![s] = [kind |-> k, msg |-> m]]

(* A mutant: the new array is not filled. *)
Unfilled(h, a) == {[code |-> kOk, msg |-> "none"]}

(* What CopyState(a) reads: anything, if the array has been deleted. *)
Copied(h, a) == IF a \in DOMAIN h THEN {h[a]} ELSE Contents

(* A mutant: the copy takes the array itself. *)
CopyShares(h, a, s) == state_' = [state_ EXCEPT ![s] = a] /\ heap' = h

(* state_ = (a == nullptr) ? nullptr : CopyState(a), with heap h. *)
CopyInto(h, a, s) ==
    IF a = nullptr
    THEN state_' = [state_ EXCEPT ![s] = nullptr] /\ heap' = h
    ELSE \E b \in Arrays \ DOMAIN h, c \in Copied(h, a) :
            /\ heap' = With(h, b, c)
            /\ state_' = [state_ EXCEPT ![s] = b]

CopyConstruct(s, t) ==
    /\ s \notin live /\ t \in live
    /\ CopyInto(heap, state_[t], s)
    /\ live' = live \cup {s}
    /\ value' = [value EXCEPT ![s] = value[t]]

(* A mutant: no check for aliasing. *)
AlwaysDiffers(s, t) == TRUE

(* A mutant: the assignment of an OK does nothing. *)
DiffersFromError(s, t) == state_[t] # nullptr /\ state_[s] # state_[t]

Differs(s, t) == state_[s] # state_[t]

(* delete[] state_ *)
Deleted(s) == Without(heap, {state_[s]})

Assign(s, t) ==
    /\ s \in live /\ t \in live
    /\ IF Differs(s, t)
       THEN CopyInto(Deleted(s), state_[t], s)
       ELSE UNCHANGED <<state_, heap>>
    /\ value' = [value EXCEPT ![s] = value[t]]
    /\ UNCHANGED live

Destroy(s) ==
    /\ s \in live
    /\ live' = live \ {s}
    /\ heap' = Deleted(s)
    /\ state_' = [state_ EXCEPT ![s] = nullptr]
    /\ value' = [value EXCEPT ![s] = OK]

(* What a client may do with the variables in S. *)
Use(S) ==
    \E s \in S :
        \/ ConstructOK(s)
        \/ \E k \in Kinds, m \in Messages : ConstructError(s, k, m)
        \/ \E t \in S : CopyConstruct(s, t) \/ Assign(s, t)
        \/ Destroy(s)

Spec == Init /\ [][Use(Objs)]_vars

ok(s) == state_[s] = nullptr

code(s) == IF state_[s] = nullptr THEN kOk ELSE heap[state_[s]].code

-----------------------------------------------------------------------------
(* Every variable has its type: an array holds an error, never OK. *)
TypeOK ==
    /\ live \subseteq Objs
    /\ state_ \in [Objs -> Arrays \cup {nullptr}]
    /\ Allocated \subseteq Arrays
    /\ \A a \in Allocated : heap[a] \in Contents
    /\ value \in [Objs -> Values \cup {OK}]

(* Every array has exactly one owner, and an object with an array owns an  *)
(* allocated one: the destructors delete each array once, and all of them. *)
OneOwner ==
    /\ \A a \in Allocated : \E s \in live : state_[s] = a
    /\ \A s \in live : state_[s] # nullptr =>
          /\ state_[s] \in Allocated
          /\ \A t \in live : state_[t] = state_[s] => t = s

(* Copies are independent values: after any sequence of copies,            *)
(* assignments (to itself too) and destructions, the message is the one    *)
(* assigned last, ok() tells whether there is an error, and of all the     *)
(* predicates the one of the factory that made the error answers true, and *)
(* no other.                                                               *)
CopiesAreValues ==
    \A s \in live :
        /\ ok(s) <=> value[s] = OK
        /\ ~ok(s) => heap[state_[s]].msg = value[s].msg
        /\ \A k \in DOMAIN Predicate : code(s) = Predicate[k] <=> value[s].kind = k
=============================================================================

---------------------------- MODULE KeyHistory ----------------------------
(***************************************************************************)
(* What the skip list promises its users (src/src/db/skiplist.h, "Thread   *)
(* safety"): keys are only ever added, and a read that runs without any    *)
(* lock answers as if it ran, at once, on the keys some prefix of the      *)
(* inserts has added.  The prefix holds at least everything that           *)
(* happened-before the read, and for one reader it never shrinks.          *)
(***************************************************************************)
EXTENDS Integers, Sequences

CONSTANTS Key, Readers, Calls, NoCall

VARIABLES
    inserted,   \* the keys in the order in which they were added
    seen,       \* of each reader: the length of the prefix it has seen
    call,       \* of each reader: the call it is in, or NoCall
    answer      \* of each reader: what its last call returned

vars == <<inserted, seen, call, answer>>

Greatest(S) == {k \in S : \A j \in S : j <= k}

(* The answer of a call on a set of keys: the key, or nothing. *)
Lookup(c, S) ==
    CASE c.op = "Contains"     -> S \cap {c.key}
      [] c.op = "FindLessThan" -> Greatest({k \in S : k < c.key})
      [] c.op = "FindLast"     -> Greatest(S)

Init ==
    /\ inserted = <<>>
    /\ seen = [r \in Readers |-> 0]
    /\ call = [r \in Readers |-> NoCall]
    /\ answer = [r \in Readers |-> {}]

Add(k) ==
    /\ inserted' = Append(inserted, k)
    /\ UNCHANGED <<seen, call, answer>>

Learn(r, m) ==
    /\ seen' = [seen EXCEPT ![r] = m]
    /\ UNCHANGED <<inserted, call, answer>>

Begin(r, c) ==
    /\ call[r] = NoCall
    /\ call' = [call EXCEPT ![r] = c]
    /\ answer' = [answer EXCEPT ![r] = {}]
    /\ UNCHANGED <<inserted, seen>>

Return(r, m) ==
    /\ call[r] # NoCall
    /\ answer' = [answer EXCEPT ![r] =
                     Lookup(call[r], {inserted[j] : j \in 1 .. m})]
    /\ call' = [call EXCEPT ![r] = NoCall]
    /\ seen' = [seen EXCEPT ![r] = m]
    /\ UNCHANGED inserted

Next ==
    \/ \E k \in Key : Add(k)
    \/ \E r \in Readers :
          \/ \E c \in Calls : Begin(r, c)
          \/ \E m \in seen[r] .. Len(inserted) : Learn(r, m) \/ Return(r, m)

Spec == Init /\ [][Next]_vars
=============================================================================

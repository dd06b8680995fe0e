------------------------- MODULE SkipListRefinement -------------------------
(***************************************************************************)
(* SkipList implements KeyHistory.  A key is added when Insert stores the  *)
(* new node into the bottom list; a reader has seen the nodes that were    *)
(* linked there inside its view; a call takes effect at its last load.     *)
(***************************************************************************)
EXTENDS SkipList, Sequences

(* Nodes are linked in the order of their numbers: the keys of the nodes   *)
(* 1 .. k are a sequence of length k.                                      *)
KeysOf(L) == [j \in L |-> key[j]]

insertedKeys == KeysOf(Linked)

LinkedWithin(v) ==
    {a \in Linked : \E m \in stores : /\ m.node # ListObject
                                      /\ m.lvl = 0
                                      /\ m.val = a
                                      /\ m.t <= v}

seenPrefix == [r \in Readers |-> Len(KeysOf(LinkedWithin(view[r])))]

Promise == INSTANCE KeyHistory WITH
    inserted <- insertedKeys,
    seen <- seenPrefix

(* Contains, FindLessThan and FindLast, run against a concurrent Insert    *)
(* with arbitrarily stale loads, return what they would return on the keys *)
(* of one prefix of the inserts, never an older one than the reader has    *)
(* seen before: no lost key, no phantom key, no going back.                *)
ReadsAreLinearizable == Promise!Spec
=============================================================================

----------------------------- MODULE SkipList -----------------------------
(***************************************************************************)
(* SkipList (src/src/db/skiplist.h): one writer thread, which the caller   *)
(* synchronises with other writers, and readers that run "without any      *)
(* internal locking or synchronization".                                   *)
(*                                                                         *)
(* A node is a number: head_ is 0, the j-th node that NewNode returns is   *)
(* j.  next is what memory holds now; stores is every message a lagging    *)
(* reader may still be given (module AtomicPointer).                       *)
(***************************************************************************)
EXTENDS Integers, AtomicPointer

CONSTANTS
    Key,              \* keys, ordered as compare_ orders them
    Readers,          \* reader threads
    kMaxHeight,
    MaxNodes,         \* bound: number of Insert calls
    StoresSuccessor   \* how line 124 is read, see LinkStores

ASSUME KeyAssumption == Key \subseteq Int /\ Key # {}
ASSUME BoundAssumption == kMaxHeight \in Nat \ {0} /\ MaxNodes \in Nat
ASSUME Line124Assumption == StoresSuccessor \in BOOLEAN

VARIABLES
    n,            \* nodes allocated so far
    key, height,  \* of each node; height is the length of next_
    next,         \* next[a][l]: what a->next_[l] holds
    born,         \* the time at which the node was constructed
    max_height,   \* what max_height_ holds
    prev,         \* prev_, the writer's hint
    pc, wkey, x, level, i,   \* the running Insert: control and locals
    stores, now,  \* messages in memory, time of the last one
    view,         \* of each reader, see AtomicPointer
    call, at,     \* of each reader: the running call, its x and level
    answer        \* of each reader: what its last call returned

memory == <<n, key, height, next, born, max_height, stores, now>>
writer == <<prev, pc, wkey, x, level, i>>
readers == <<view, call, at, answer>>
vars == <<memory, writer, readers>>

head_ == 0
nullptr == -1
Garbage == -2      \* what new char[] left in a slot nobody has written
ListObject == -3   \* the "node" whose slot 0 is max_height_

Nodes == 1 .. MaxNodes
Levels == 0 .. kMaxHeight - 1
Pointer == {nullptr, Garbage} \cup Nodes
AnyKey == CHOOSE k \in Key : TRUE

Ops == {"Contains", "FindLessThan", "FindLast"}
Calls == [op : {"Contains", "FindLessThan"}, key : Key]
            \cup {[op |-> "FindLast", key |-> AnyKey]}
NoCall == [op |-> "none", key |-> AnyKey]

-----------------------------------------------------------------------------
(* The constructor.  The list reaches a reader by some synchronisation of  *)
(* the caller's, so all of it is inside every view.                        *)

Init ==
    /\ n = 0
    /\ key = [a \in Nodes |-> AnyKey]
    /\ height = [a \in Nodes |-> 0]
    /\ next = [a \in Nodes \cup {head_} |->
                  [l \in Levels |-> IF a = head_ THEN nullptr ELSE Garbage]]
    /\ born = [a \in Nodes |-> 0]
    /\ max_height = 1
    /\ prev = [l \in Levels |-> head_]
    /\ pc = "idle" /\ wkey = AnyKey /\ x = head_ /\ level = 0 /\ i = 0
    /\ stores = {Release_Store(0, head_, l, nullptr) : l \in Levels}
                    \cup {NoBarrier_Store(0, ListObject, 0, 1)}
    /\ now = 0
    /\ view = [r \in Readers |-> 0]
    /\ call = [r \in Readers |-> NoCall]
    /\ at = [r \in Readers |-> [x |-> head_, level |-> 0]]
    /\ answer = [r \in Readers |-> {}]

KeyIsAfterNode(k, a) == a # nullptr /\ key[a] < k

(* A mutant: the height taken for the highest level. *)
LevelIsHeight(h) == h

(* level = GetMaxHeight() - 1, where every search starts *)
TopLevel(h) == h - 1

-----------------------------------------------------------------------------
(* Insert, first part: FindGreatOrEqual(key, prev_).                       *)

(* A mutant: the hint is taken without comparing the key with prev_[0]. *)
HintIsPrevOnly(k) == ~KeyIsAfterNode(k, next[prev[0]][0])

(* The last node inserted and its successor enclose the key: the search is *)
(* skipped, and prev_[1], prev_[2]... stay what they were.                 *)
HintIsGood(k) ==
    /\ ~KeyIsAfterNode(k, next[prev[0]][0])
    /\ prev[0] = head_ \/ KeyIsAfterNode(k, prev[0])

BeginInsert(k) ==
    /\ pc = "idle" /\ n < MaxNodes
    /\ wkey' = k
    /\ IF HintIsGood(k)
       THEN pc' = "alloc" /\ UNCHANGED <<x, level>>
       ELSE pc' = "search" /\ x' = head_ /\ level' = TopLevel(max_height)
    /\ UNCHANGED <<memory, prev, i, readers>>

(* One round of the loop.  A garbage pointer has no defined successor step. *)
SearchStep ==
    /\ pc = "search" /\ next[x][level] # Garbage
    /\ IF KeyIsAfterNode(wkey, next[x][level])
       THEN x' = next[x][level] /\ UNCHANGED <<pc, level, prev>>
       ELSE /\ prev' = [prev EXCEPT ![level] = x]
            /\ IF level = 0
               THEN pc' = "alloc" /\ x' = head_ /\ level' = 0
               ELSE level' = level - 1 /\ UNCHANGED <<pc, x>>
    /\ UNCHANGED <<memory, wkey, i, readers>>

-----------------------------------------------------------------------------
(* Insert, second part: height and node.                                   *)

(* The generator is not modelled: any height the loop can return. *)
RandomHeight == 1 .. kMaxHeight

(* Placement new constructs next_[0], which value-initialises it; the      *)
(* slots beyond the declared array are as the arena's block left them.     *)
NewSlots == [l \in Levels |-> IF l = 0 THEN nullptr ELSE Garbage]

NewNodeStores(t, a, h) ==
    {NoBarrier_Store(t, a, l, NewSlots[l]) : l \in 0 .. h - 1}

AllocNode(h) ==
    /\ pc = "alloc"
    /\ prev' = [l \in Levels |->
                   IF max_height <= l /\ l < h THEN head_ ELSE prev[l]]
    /\ max_height' = IF h > max_height THEN h ELSE max_height
    /\ n' = n + 1
    /\ key' = [key EXCEPT ![n + 1] = wkey]
    /\ height' = [height EXCEPT ![n + 1] = h]
    /\ next' = [next EXCEPT ![n + 1] = NewSlots]
    /\ born' = [born EXCEPT ![n + 1] = now + 2]
    /\ stores' = stores
                 \cup (IF h > max_height
                       THEN {NoBarrier_Store(now + 1, ListObject, 0, h)}
                       ELSE {})
                 \cup NewNodeStores(now + 2, n + 1, h)
    /\ now' = now + 2
    /\ pc' = "link" /\ i' = 0
    /\ UNCHANGED <<wkey, x, level, readers>>

-----------------------------------------------------------------------------
(* Insert, third part: the node is linked, level by level from below.      *)

(* Line 124 calls NoBarrier_Next, a load, with the successor as its        *)
(* argument; a compiler rejects it as soon as Insert is instantiated, and  *)
(* where it is let through it stores nothing.  StoresSuccessor = FALSE is  *)
(* that reading.  TRUE is the call of NoBarrier_SetNext(i, successor), the *)
(* accessor that the file defines for this line and uses nowhere else.     *)
SuccessorStore(t, a, l, s) ==
    IF StoresSuccessor THEN {NoBarrier_Store(t, a, l, s)} ELSE {}

SuccessorSlot(old, s) == IF StoresSuccessor THEN s ELSE old

(* A mutant: published first, initialised after. *)
PublishFirst(t, a, l, p, s) ==
    SuccessorStore(t + 2, a, l, s) \cup {Release_Store(t + 1, p, l, a)}

(* A mutant: published with a relaxed store. *)
PublishRelaxed(t, a, l, p, s) ==
    SuccessorStore(t + 1, a, l, s) \cup {NoBarrier_Store(t + 2, p, l, a)}

LinkStores(t, a, l, p, s) ==
    SuccessorStore(t + 1, a, l, s) \cup {Release_Store(t + 2, p, l, a)}

(* A mutant: the loop stops one level early. *)
LinkedAllButTop(h) == i + 1 >= h - 1

LinkedAll(h) == i + 1 = h

(* A mutant: the node becomes the hint on levels that it does not reach. *)
HintOnAllLevels(a) == [l \in Levels |-> a]

(* prev_[0] = x, the hint for the next Insert *)
HintAfter(a) == [prev EXCEPT ![0] = a]

Link ==
    /\ pc = "link"
    /\ LET p == prev[i]
           s == next[p][i]
       IN /\ next' = [next EXCEPT
                         ![n][i] = SuccessorSlot(@, s),
                         ![p][i] = n]
          /\ stores' = stores \cup LinkStores(now, n, i, p, s)
    /\ now' = now + 2
    /\ IF LinkedAll(height[n])
       THEN pc' = "idle" /\ i' = 0 /\ prev' = HintAfter(n)
       ELSE i' = i + 1 /\ UNCHANGED <<pc, prev>>
    /\ UNCHANGED <<n, key, height, born, max_height, wkey, x, level, readers>>

-----------------------------------------------------------------------------
(* The readers: Contains, which is FindGreatOrEqual(key, nullptr) and a    *)
(* comparison, FindLessThan and FindLast.  The three loops differ only in  *)
(* when they move forward and in what they return.                         *)

(* Whatever the caller uses to order an Insert before a later read: the    *)
(* writer's past becomes the reader's.                                     *)
Synchronise(r) ==
    /\ pc = "idle" /\ call[r] = NoCall
    /\ view[r] < now
    /\ view' = [view EXCEPT ![r] = now]
    /\ UNCHANGED <<memory, writer, call, at, answer>>

Call(r, c) ==
    /\ call[r] = NoCall
    /\ \E h \in NoBarrier_Load(stores, ListObject, 0, view[r]) :
          at' = [at EXCEPT ![r] = [x |-> head_, level |-> TopLevel(h)]]
    /\ call' = [call EXCEPT ![r] = c]
    /\ answer' = [answer EXCEPT ![r] = {}]
    /\ UNCHANGED <<memory, writer, view>>

MovesOn(c, a) == IF c.op = "FindLast" THEN a # nullptr
                                      ELSE KeyIsAfterNode(c.key, a)

(* What a call returns when it ends at node a with a->Next(0) = nxt: the   *)
(* key of the node found, or nothing (false, head_).                       *)
Result(c, a, nxt) ==
    IF c.op = "Contains"
    THEN IF nxt # nullptr /\ key[nxt] = c.key THEN {c.key} ELSE {}
    ELSE IF a = head_ THEN {} ELSE {key[a]}

(* A mutant: the search never goes below the level where it started to     *)
(* stand still.                                                            *)
StaysOnLevel(l) == l

Below(l) == l - 1

ReadStep(r) ==
    /\ call[r] # NoCall
    /\ \E ld \in Acquire_Load(stores, at[r].x, at[r].level, view[r]) :
          /\ ld.val # Garbage
          /\ view' = [view EXCEPT ![r] = ld.view]
          /\ IF MovesOn(call[r], ld.val)
             THEN /\ at' = [at EXCEPT ![r].x = ld.val]
                  /\ UNCHANGED <<call, answer>>
             ELSE IF at[r].level > 0
             THEN /\ at' = [at EXCEPT ![r].level = Below(@)]
                  /\ UNCHANGED <<call, answer>>
             ELSE /\ answer' = [answer EXCEPT ![r] =
                                   Result(call[r], at[r].x, ld.val)]
                  /\ call' = [call EXCEPT ![r] = NoCall]
                  /\ at' = [at EXCEPT ![r] = [x |-> head_, level |-> 0]]
    /\ UNCHANGED <<memory, writer>>

-----------------------------------------------------------------------------
InsertStep == SearchStep \/ (\E h \in RandomHeight : AllocNode(h)) \/ Link

Next ==
    \/ \E k \in Key : BeginInsert(k)
    \/ InsertStep
    \/ \E r \in Readers : \/ Synchronise(r)
                          \/ \E c \in Calls : Call(r, c)
                          \/ ReadStep(r)

Spec == Init /\ [][Next]_vars

(* A thread inside a call keeps running; nobody has to start one. *)
FairSpec == /\ Spec
            /\ WF_vars(InsertStep)
            /\ \A r \in Readers : WF_vars(ReadStep(r))

-----------------------------------------------------------------------------
Messages(T) == [t : 0 .. T, node : Nodes \cup {head_},
                lvl : Levels, val : Pointer, rel : BOOLEAN]
                   \cup [t : 0 .. T, node : {ListObject},
                         lvl : {0}, val : 1 .. kMaxHeight, rel : {FALSE}]

MemoryTypeOK ==
    /\ n \in 0 .. MaxNodes
    /\ key \in [Nodes -> Key]
    /\ height \in [Nodes -> 0 .. kMaxHeight]
    /\ next \in [Nodes \cup {head_} -> [Levels -> Pointer]]
    /\ born \in [Nodes -> 0 .. now]
    /\ max_height \in 1 .. kMaxHeight
    /\ now \in Nat
    /\ stores \subseteq Messages(now)

WriterTypeOK ==
    /\ prev \in [Levels -> Nodes \cup {head_}]
    /\ pc \in {"idle", "search", "alloc", "link"}
    /\ wkey \in Key
    /\ x \in Nodes \cup {head_}
    /\ level \in Levels
    /\ i \in Levels

ReadersTypeOK ==
    /\ view \in [Readers -> 0 .. now]
    /\ call \in [Readers -> Calls \cup {NoCall}]
    /\ at \in [Readers -> [x : Nodes \cup {head_}, level : Levels]]
    /\ answer \in [Readers -> SUBSET Key]

(* Every variable has its type: in particular no height, level or pointer  *)
(* leaves the next_ arrays that NewNode allocates.                         *)
TypeOK == MemoryTypeOK /\ WriterTypeOK /\ ReadersTypeOK

(* The nodes linked on level l; Insert links the youngest one from below. *)
LinkedAt(l) ==
    {a \in 1 .. n : height[a] > l /\ ~(pc = "link" /\ a = n /\ i <= l)}

Linked == LinkedAt(0)

(* The order of the bottom list: by key, and of equal keys the younger     *)
(* first, since Insert goes in front of the first node not before the key. *)
Before(a, b) ==
    \/ a = head_
    \/ key[a] < key[b]
    \/ key[a] = key[b] /\ a > b

(* The bottom list holds every node Insert has linked there, in order, at  *)
(* every moment: the successor of a node (or of head_) is the least of the *)
(* linked nodes after it.  Whatever path Insert took to its insertion      *)
(* point, the hint of prev_[0] or the search, and for repeated keys too.   *)
BottomListSorted ==
    \A a \in Linked \cup {head_} :
        LET s == next[a][0]
        IN /\ s # nullptr => s \in Linked /\ Before(a, s)
           /\ \A b \in Linked :
                 Before(a, b) => s # nullptr /\ (s = b \/ Before(s, b))

(* A node that Insert has published on a level has been initialised there: *)
(* "it is careful to initialize a node and use release-stores to publish   *)
(* the nodes in one or more lists" (skiplist.h, invariant 2).              *)
PublishedInitialised ==
    \A l \in Levels : \A a \in LinkedAt(l) : next[a][l] # Garbage

(* Chain(l): what following the pointers of level l from head_ reaches, the *)
(* least set that has head_ and with a node the one that it points to.      *)
Follows(S, l) ==
    head_ \in S /\ \A a \in S \ {Garbage} : next[a][l] \in S \cup {nullptr}

Chain(l) ==
    LET closed == {S \in SUBSET (Nodes \cup {head_, Garbage}) : Follows(S, l)}
    IN {a \in Nodes \cup {head_, Garbage} : \A S \in closed : a \in S}

(* No level loses a node or gains one that does not reach it, although     *)
(* prev_[1], prev_[2]... are stale whenever the hint has been used: each   *)
(* of them still is a node of its level, and that is enough.               *)
LevelsComplete ==
    \A l \in Levels : Chain(l) = LinkedAt(l) \cup {head_}

(* Nobody follows or sets a pointer that a node does not have: next_ is as *)
(* long as the node is high, its accessors check no upper bound, and the   *)
(* levels come from a max_height_ that may be stale and from a prev_ whose *)
(* upper levels are leftovers.                                             *)
AccessesInBounds ==
    /\ \A r \in Readers : call[r] # NoCall =>
          at[r].x = head_ \/ at[r].level < height[at[r].x]
    /\ pc = "search" => x = head_ \/ level < height[x]
    /\ pc = "link" => prev[i] = head_ \/ i < height[prev[i]]

(* No load of a reader, however stale, returns an uninitialised slot or a  *)
(* node whose constructor does not happen-before the reader: KeyIsAfterNode *)
(* then reads n->key without a race.                                       *)
LoadsAreSafe ==
    \A r \in Readers : call[r] # NoCall =>
        \A ld \in Acquire_Load(stores, at[r].x, at[r].level, view[r]) :
            /\ ld.val # Garbage
            /\ ld.val # nullptr => born[ld.val] <= ld.view

(* Every call of a reader ends, and so does every Insert: no search loops, *)
(* even over levels that are out of order and over stale pointers.         *)
CallsReturn ==
    /\ \A r \in Readers : (call[r] # NoCall) ~> (call[r] = NoCall)
    /\ (pc # "idle") ~> (pc = "idle")
=============================================================================

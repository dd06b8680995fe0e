--------------------------- MODULE SkipListProofs ---------------------------
(***************************************************************************)
(* SkipList for every set of keys and of readers, every kMaxHeight and any *)
(* number of inserts: the invariants of the list; readers without locks,   *)
(* which never load what is not there yet; and the refinement of           *)
(* KeyHistory, by which their results are linearizable.                    *)
(***************************************************************************)
EXTENDS SkipListRefinement, TLAPS

ListAt(l) == LinkedAt(l) \cup {head_}

(* Where the running Insert is. *)
Control ==
    /\ pc \in {"search", "alloc"} => n < MaxNodes
    /\ pc = "link" => n \in Nodes /\ i < height[n] /\ key[n] = wkey
    /\ \A a \in 1 .. n : height[a] > 0

(* The pointers of a level stay on the level. *)
Closed ==
    \A l \in Levels : \A a \in ListAt(l) : next[a][l] \in LinkedAt(l) \cup {nullptr}

PrevLinked == \A l \in Levels : prev[l] \in ListAt(l)

(* FindGreatOrEqual has passed only nodes before the key. *)
Passed == pc = "search" => x \in ListAt(level) /\ (x = head_ \/ key[x] < wkey)

(* The new node belongs between p and its successor. *)
InsertsAfter(p) ==
    /\ p = head_ \/ key[p] < wkey
    /\ next[p][0] = nullptr \/ wkey <= key[next[p][0]]

InsertionPoint == pc = "alloc" \/ (pc = "link" /\ i = 0) => InsertsAfter(prev[0])

Structure ==
    /\ Closed
    /\ PrevLinked
    /\ Passed
    /\ InsertionPoint
    /\ BottomListSorted

TInv == TypeOK /\ Control

-----------------------------------------------------------------------------
(* The placeholder key is a key. *)
LEMMA AnyKeyIsKey == AnyKey \in Key
BY KeyAssumption, Zenon DEF AnyKey

(* The stores of the code leave messages of the right type. *)
LEMMA StoreTypes ==
    ASSUME NEW T \in Nat, NEW t \in 0 .. T
    PROVE  /\ \A a \in Nodes \cup {head_}, l \in Levels, v \in Pointer :
                 /\ Release_Store(t, a, l, v) \in Messages(T)
                 /\ NoBarrier_Store(t, a, l, v) \in Messages(T)
           /\ \A h \in 1 .. kMaxHeight :
                 NoBarrier_Store(t, ListObject, 0, h) \in Messages(T)
BY DEF Messages, Release_Store, NoBarrier_Store, Message

(* Time passes and old messages keep their type. *)
LEMMA MessagesGrow ==
    ASSUME NEW T \in Nat, NEW U \in Nat, T <= U
    PROVE  Messages(T) \subseteq Messages(U)
<1>1. 0 .. T \subseteq 0 .. U
  OBVIOUS
<1>. QED
  BY <1>1, Zenon DEF Messages

(* Comparisons of integers, for leaves without arithmetic. *)
LEMMA Compare ==
    ASSUME NEW a \in Int, NEW b \in Int
    PROVE  /\ a < b \/ b <= a
           /\ ~(a < b /\ b <= a)
           /\ a <= b <=> a < b \/ a = b
           /\ a > b <=> b < a
OBVIOUS

(* A pointer set in one slot of one node. *)
LEMMA SlotSet ==
    ASSUME NEW A, NEW B, NEW C, NEW f \in [A -> [B -> C]],
           NEW a \in A, NEW b \in B, NEW c \in C
    PROVE  [f EXCEPT ![a][b] = c] \in [A -> [B -> C]]
OBVIOUS

(* The constructor establishes the types and the control invariant. *)
LEMMA TInvInit == Init => TInv
<1> SUFFICES ASSUME Init PROVE TInv
  OBVIOUS
<1> USE AnyKeyIsKey, BoundAssumption
<1>1. MemoryTypeOK
  <2>1. stores \subseteq Messages(now)
    <3>1. now = 0 /\ 0 \in Nat /\ 0 \in 0 .. 0 /\ 1 \in 1 .. kMaxHeight
      BY DEF Init
    <3>2. \A l \in Levels : Release_Store(0, head_, l, nullptr) \in Messages(0)
      BY <3>1, StoreTypes DEF Pointer
    <3>3. NoBarrier_Store(0, ListObject, 0, 1) \in Messages(0)
      BY <3>1, StoreTypes
    <3>. QED
      BY <3>1, <3>2, <3>3, Zenon DEF Init
  <2>2. next \in [Nodes \cup {head_} -> [Levels -> Pointer]]
    BY DEF Init, Pointer
  <2>. QED
    BY <2>1, <2>2 DEF Init, MemoryTypeOK
<1>2. WriterTypeOK
  BY DEF Init, WriterTypeOK, Levels
<1>3. ReadersTypeOK
  BY DEF Init, ReadersTypeOK, Levels
<1>4. Control
  BY DEF Init, Control
<1>. QED
  BY <1>1, <1>2, <1>3, <1>4 DEF TInv, TypeOK

(* Insert starts: the hint or the search. *)
LEMMA TInvBeginInsert ==
    ASSUME TInv, NEW k \in Key, BeginInsert(k)
    PROVE  TInv'
<1> USE DEF TInv, TypeOK, BeginInsert, TopLevel
<1>1. MemoryTypeOK'
  BY DEF memory, MemoryTypeOK
<1>2. WriterTypeOK'
  BY BoundAssumption DEF WriterTypeOK, MemoryTypeOK, Levels
<1>3. ReadersTypeOK'
  BY DEF memory, readers, ReadersTypeOK
<1>4. Control'
  BY DEF Control, memory
<1>. QED
  BY <1>1, <1>2, <1>3, <1>4

(* A round of FindGreatOrEqual. *)
LEMMA TInvSearchStep == TInv /\ SearchStep => TInv'
<1> SUFFICES ASSUME TInv, SearchStep PROVE TInv'
  OBVIOUS
<1> USE DEF TInv, TypeOK, SearchStep
<1>1. MemoryTypeOK'
  BY Zenon DEF memory, MemoryTypeOK
<1>2. WriterTypeOK'
  BY BoundAssumption
     DEF WriterTypeOK, MemoryTypeOK, Levels, KeyIsAfterNode, Pointer
<1>3. ReadersTypeOK'
  BY Zenon DEF memory, readers, ReadersTypeOK
<1>4. Control'
  BY Zenon DEF Control, memory
<1>. QED
  BY <1>1, <1>2, <1>3, <1>4, Zenon

(* RandomHeight and NewNode: the height fits the levels. *)
LEMMA TInvAllocNode ==
    ASSUME TInv, NEW h \in RandomHeight, AllocNode(h)
    PROVE  TInv'
<1> USE DEF TInv, TypeOK, AllocNode
<1>1. n + 1 \in Nodes /\ now + 1 \in 0 .. now' /\ now + 2 \in 0 .. now'
  BY BoundAssumption DEF Control, MemoryTypeOK, Nodes
<1>2. h \in 1 .. kMaxHeight /\ now' \in Nat
  BY DEF RandomHeight, MemoryTypeOK
<1>3. stores' \subseteq Messages(now')
  <2>1. stores \subseteq Messages(now')
    BY MessagesGrow DEF MemoryTypeOK
  <2>2. NoBarrier_Store(now + 1, ListObject, 0, h) \in Messages(now')
    BY <1>1, <1>2, StoreTypes, Zenon
  <2>3. ASSUME NEW l \in 0 .. h - 1
        PROVE  NoBarrier_Store(now + 2, n + 1, l, NewSlots[l]) \in Messages(now')
    <3>1. l \in Levels
      BY <1>2, BoundAssumption DEF Levels
    <3>2. NewSlots[l] \in Pointer
      BY <3>1, Zenon DEF NewSlots, Pointer
    <3>. QED
      BY <1>1, <1>2, <3>1, <3>2, StoreTypes, Zenon
  <2>. QED
    BY <2>1, <2>2, <2>3, Zenon DEF NewNodeStores
<1>4. MemoryTypeOK'
  <2>1. next' \in [Nodes \cup {head_} -> [Levels -> Pointer]]
    BY Zenon DEF MemoryTypeOK, NewSlots, Pointer
  <2>2. born' \in [Nodes -> 0 .. now']
    BY <1>1 DEF MemoryTypeOK
  <2>3. key' \in [Nodes -> Key] /\ height' \in [Nodes -> 0 .. kMaxHeight]
    BY <1>1, <1>2 DEF MemoryTypeOK, WriterTypeOK
  <2>4. n' \in 0 .. MaxNodes /\ max_height' \in 1 .. kMaxHeight
    BY <1>1, <1>2 DEF MemoryTypeOK, Nodes
  <2>. QED
    BY <1>2, <1>3, <2>1, <2>2, <2>3, <2>4, Zenon DEF MemoryTypeOK
<1>5. WriterTypeOK'
  BY BoundAssumption DEF WriterTypeOK, Levels
<1>6. ReadersTypeOK'
  BY DEF readers, ReadersTypeOK, MemoryTypeOK
<1>7. Control'
  BY <1>1, <1>2 DEF Control, MemoryTypeOK, WriterTypeOK, Nodes
<1>. QED
  BY <1>4, <1>5, <1>6, <1>7, Zenon

(* A round of the loop that links the node. *)
LEMMA TInvLink == TInv /\ Link => TInv'
<1> SUFFICES ASSUME TInv, Link PROVE TInv'
  OBVIOUS
<1> USE DEF TInv, TypeOK, Link
<1> DEFINE p == prev[i]
           s == next[p][i]
<1>1. /\ n \in Nodes
      /\ now + 1 \in 0 .. now' /\ now + 2 \in 0 .. now' /\ now' \in Nat
  BY DEF Control, MemoryTypeOK
<1>2. p \in Nodes \cup {head_} /\ s \in Pointer /\ n \in Pointer
  BY <1>1 DEF MemoryTypeOK, WriterTypeOK, Pointer
<1>3. stores' \subseteq Messages(now')
  <2>1. stores \subseteq Messages(now')
    BY MessagesGrow DEF MemoryTypeOK
  <2>2. NoBarrier_Store(now + 1, n, i, s) \in Messages(now')
    BY <1>1, <1>2, StoreTypes, Zenon DEF WriterTypeOK
  <2>3. Release_Store(now + 2, p, i, n) \in Messages(now')
    BY <1>1, <1>2, StoreTypes, Zenon DEF WriterTypeOK
  <2>. QED
    BY <2>1, <2>2, <2>3, Zenon DEF LinkStores, SuccessorStore
<1>4. next' \in [Nodes \cup {head_} -> [Levels -> Pointer]]
  <2> DEFINE F == [next EXCEPT ![n][i] = SuccessorSlot(next[n][i], s)]
  <2>1. next \in [Nodes \cup {head_} -> [Levels -> Pointer]] /\ i \in Levels
    BY Zenon DEF MemoryTypeOK, WriterTypeOK
  <2>2. SuccessorSlot(next[n][i], s) \in Pointer
    BY <1>1, <1>2, <2>1, Zenon DEF SuccessorSlot
  <2>3. F \in [Nodes \cup {head_} -> [Levels -> Pointer]]
    <3>1. n \in Nodes \cup {head_}
      BY <1>1, Zenon
    <3>. QED
      BY <3>1, <2>1, <2>2, SlotSet, Zenon
  <2>4. next' = [F EXCEPT ![p][i] = n]
    BY Zenon
  <2> HIDE DEF F
  <2>5. [F EXCEPT ![p][i] = n] \in [Nodes \cup {head_} -> [Levels -> Pointer]]
    BY <1>2, <2>1, <2>3, SlotSet, Zenon
  <2>. QED
    BY <2>4, <2>5, Zenon
<1>5. MemoryTypeOK'
  <2>1. born' \in [Nodes -> 0 .. now']
    BY <1>1 DEF MemoryTypeOK
  <2>. QED
    BY <1>1, <1>3, <1>4, <2>1, Zenon DEF MemoryTypeOK
<1>6. WriterTypeOK'
  <2>1. i < height[n] /\ height[n] \in 0 .. kMaxHeight /\ 0 \in Levels
    BY <1>1, BoundAssumption DEF Control, MemoryTypeOK, Levels
  <2>2. i' \in Levels
    BY <2>1, BoundAssumption DEF WriterTypeOK, LinkedAll, Levels
  <2>3. prev' \in [Levels -> Nodes \cup {head_}]
    BY <1>1, <2>1, Zenon DEF WriterTypeOK, HintAfter
  <2>. QED
    BY <2>2, <2>3, Zenon DEF WriterTypeOK
<1>7. ReadersTypeOK'
  BY DEF readers, ReadersTypeOK, MemoryTypeOK
<1>8. Control'
  BY <1>1, BoundAssumption DEF Control, MemoryTypeOK, WriterTypeOK, LinkedAll, Levels
<1>. QED
  BY <1>5, <1>6, <1>7, <1>8, Zenon

(* What the loads of a reader return has the right type. *)
LEMMA LoadTypes ==
    ASSUME TypeOK, NEW r \in Readers
    PROVE  /\ \A h \in NoBarrier_Load(stores, ListObject, 0, view[r]) :
                 h \in 1 .. kMaxHeight
           /\ \A ld \in Acquire_Load(stores, at[r].x, at[r].level, view[r]) :
                 ld.val \in Pointer /\ ld.view \in 0 .. now
<1>a. stores \subseteq Messages(now) /\ now \in Nat
  BY DEF TypeOK, MemoryTypeOK
<1>b. view[r] \in 0 .. now
  BY DEF TypeOK, ReadersTypeOK
<1>c. at[r].x \in Nodes \cup {head_}
  <2>1. at[r] \in [x : Nodes \cup {head_}, level : Levels]
    BY Zenon DEF TypeOK, ReadersTypeOK
  <2>. QED
    BY <2>1, Zenon
<1>d. ListObject \notin Nodes \cup {head_}
  BY DEF ListObject, head_, Nodes
<1>1. ASSUME NEW m \in Visible(stores, ListObject, 0, view[r])
      PROVE  m.val \in 1 .. kMaxHeight
  <2>1. m \in stores /\ m.node = ListObject
    BY DEF Visible
  <2>. QED
    BY <2>1, <1>a, <1>d, Zenon DEF Messages
<1>2. ASSUME NEW m \in Visible(stores, at[r].x, at[r].level, view[r])
      PROVE  m.val \in Pointer /\ AcquiredView(view[r], m) \in 0 .. now
  <2>1. m \in stores /\ m.node = at[r].x
    BY Zenon DEF Visible
  <2>2. at[r].x # ListObject
    BY <1>c, <1>d
  <2>3. m.val \in Pointer /\ m.t \in 0 .. now
    BY <2>1, <2>2, <1>a, Zenon DEF Messages
  <2>. QED
    BY <2>3, <1>a, <1>b, Zenon DEF AcquiredView
<1>. QED
  <2>1. ASSUME NEW h \in NoBarrier_Load(stores, ListObject, 0, view[r])
        PROVE  h \in 1 .. kMaxHeight
    BY <1>1, <2>1, Zenon DEF NoBarrier_Load
  <2>2. ASSUME NEW ld \in Acquire_Load(stores, at[r].x, at[r].level, view[r])
        PROVE  ld.val \in Pointer /\ ld.view \in 0 .. now
    <3>1. PICK m \in Visible(stores, at[r].x, at[r].level, view[r]) :
              ld = [val |-> m.val, view |-> AcquiredView(view[r], m)]
      BY <2>2, Zenon DEF Acquire_Load
    <3>2. ld.val = m.val /\ ld.view = AcquiredView(view[r], m)
      BY <3>1, Zenon
    <3>. QED
      BY <1>2, <3>2, Zenon
  <2>. QED
    BY <2>1, <2>2, Zenon

(* The caller's synchronisation. *)
LEMMA TInvSynchronise ==
    ASSUME TInv, NEW r \in Readers, Synchronise(r)
    PROVE  TInv'
<1> USE DEF TInv, TypeOK, Synchronise
<1>1. MemoryTypeOK' /\ WriterTypeOK' /\ Control'
  BY Zenon DEF memory, writer, MemoryTypeOK, WriterTypeOK, Control
<1>2. ReadersTypeOK'
  BY DEF memory, ReadersTypeOK, MemoryTypeOK
<1>. QED
  BY <1>1, <1>2, Zenon

(* A reader loads max_height_, perhaps a stale one. *)
LEMMA TInvCall ==
    ASSUME TInv, NEW r \in Readers, NEW c \in Calls, Call(r, c)
    PROVE  TInv'
<1> USE DEF TInv, TypeOK, Call, TopLevel
<1>1. MemoryTypeOK' /\ WriterTypeOK' /\ Control'
  BY Zenon DEF memory, writer, MemoryTypeOK, WriterTypeOK, Control
<1>2. at' \in [Readers -> [x : Nodes \cup {head_}, level : Levels]]
  <2>1. PICK h \in 1 .. kMaxHeight : at' = [at EXCEPT ![r] = [x |-> head_, level |-> h - 1]]
    BY LoadTypes, Zenon
  <2>2. h - 1 \in Levels
    BY BoundAssumption DEF Levels
  <2>. QED
    BY <2>1, <2>2, Zenon DEF ReadersTypeOK
<1>3. ReadersTypeOK'
  BY <1>2, Zenon DEF memory, ReadersTypeOK
<1>. QED
  BY <1>1, <1>3, Zenon

(* A reader loads a pointer, perhaps a stale one. *)
LEMMA TInvReadStep ==
    ASSUME TInv, NEW r \in Readers, ReadStep(r)
    PROVE  TInv'
<1> USE DEF TInv, TypeOK
<1>1. MemoryTypeOK' /\ WriterTypeOK' /\ Control' /\ now' = now
  BY Zenon DEF ReadStep, memory, writer, MemoryTypeOK, WriterTypeOK, Control
<1>2. PICK ld \in Acquire_Load(stores, at[r].x, at[r].level, view[r]) :
          /\ ld.val # Garbage
          /\ view' = [view EXCEPT ![r] = ld.view]
          /\ IF MovesOn(call[r], ld.val)
             THEN /\ at' = [at EXCEPT ![r].x = ld.val]
                  /\ UNCHANGED <<call, answer>>
             ELSE IF at[r].level > 0
             THEN /\ at' = [at EXCEPT ![r].level = Below(@)]
                  /\ UNCHANGED <<call, answer>>
             ELSE /\ answer' = [answer EXCEPT ![r] =
                                   Result(call[r], at[r].x, ld.val)]
                  /\ call' = [call EXCEPT ![r] = NoCall]
                  /\ at' = [at EXCEPT ![r] = [x |-> head_, level |-> 0]]
  BY Zenon DEF ReadStep
<1>3. ld.val \in Nodes \cup {nullptr} /\ ld.view \in 0 .. now
  BY <1>2, LoadTypes, Zenon DEF Pointer
<1>4. MovesOn(call[r], ld.val) => ld.val \in Nodes
  BY <1>3, Zenon DEF MovesOn, KeyIsAfterNode
<1>5. Result(call[r], at[r].x, ld.val) \in SUBSET Key
  BY <1>3 DEF Result, ReadersTypeOK, MemoryTypeOK
<1>6. at' \in [Readers -> [x : Nodes \cup {head_}, level : Levels]]
  BY <1>2, <1>4, BoundAssumption DEF ReadersTypeOK, Levels, Below
<1>7. view' \in [Readers -> 0 .. now']
  BY <1>1, <1>2, <1>3 DEF ReadersTypeOK
<1>8. call' \in [Readers -> Calls \cup {NoCall}] /\ answer' \in [Readers -> SUBSET Key]
  <2>1. CASE MovesOn(call[r], ld.val) \/ at[r].level > 0
    BY <1>2, <2>1, Zenon DEF ReadersTypeOK
  <2>2. CASE ~(MovesOn(call[r], ld.val) \/ at[r].level > 0)
    <3>1. /\ answer' = [answer EXCEPT ![r] = Result(call[r], at[r].x, ld.val)]
          /\ call' = [call EXCEPT ![r] = NoCall]
      BY <1>2, <2>2
    <3>. QED
      BY <1>5, <3>1, Zenon DEF ReadersTypeOK
  <2>. QED
    BY <2>1, <2>2, Zenon
<1>. QED
  BY <1>1, <1>6, <1>7, <1>8, Zenon DEF ReadersTypeOK

(* Every step keeps the types and the control invariant. *)
LEMMA TInvNext == TInv /\ [Next]_vars => TInv'
<1> SUFFICES ASSUME TInv, [Next]_vars PROVE TInv'
  OBVIOUS
<1>1. CASE Next
  BY Zenon, <1>1, TInvBeginInsert, TInvSearchStep, TInvAllocNode, TInvLink,
     TInvSynchronise, TInvCall, TInvReadStep DEF Next, InsertStep
<1>2. CASE UNCHANGED vars
  BY <1>2, Zenon DEF vars, memory, writer, readers, TInv, TypeOK, MemoryTypeOK,
              WriterTypeOK, ReadersTypeOK, Control
<1>. QED
  BY <1>1, <1>2

(* No height, level or pointer of SkipList leaves its range, in Insert and *)
(* in the readers, whatever the readers are given by stale loads.          *)
THEOREM TypeCorrect == Spec => []TypeOK
<1>1. TInv => TypeOK
  BY DEF TInv
<1>. QED
  BY TInvInit, TInvNext, <1>1, PTL DEF Spec

-----------------------------------------------------------------------------
(* What the type invariant says of a node on a level. *)
LEMMA NodeFacts ==
    ASSUME TInv
    PROVE  /\ 1 .. n \subseteq Nodes
           /\ \A l \in Levels : LinkedAt(l) \subseteq Nodes
           /\ \A a \in Nodes : key[a] \in Int /\ height[a] \in Int /\ a \in Int
           /\ wkey \in Int /\ n \in Int /\ i \in Int /\ 0 \in Levels
           /\ Levels \subseteq Int
<1> USE KeyAssumption, BoundAssumption DEF TInv, TypeOK
<1>1. 1 .. n \subseteq Nodes
  BY DEF MemoryTypeOK, Nodes
<1>2. \A l \in Levels : LinkedAt(l) \subseteq Nodes
  BY <1>1 DEF LinkedAt
<1>3. \A a \in Nodes : key[a] \in Int /\ height[a] \in Int /\ a \in Int
  <2> TAKE a \in Nodes
  <2>1. key[a] \in Key /\ height[a] \in 0 .. kMaxHeight
    BY Zenon DEF MemoryTypeOK
  <2>2. a \in Int
    BY DEF Nodes
  <2>3. key[a] \in Int
    BY <2>1, Zenon
  <2>4. height[a] \in Int
    BY <2>1
  <2>. QED
    BY <2>2, <2>3, <2>4
<1>4. Levels \subseteq Int /\ 0 \in Levels
  BY DEF Levels
<1>5. wkey \in Int /\ n \in Int /\ i \in Int
  BY <1>4 DEF MemoryTypeOK, WriterTypeOK
<1>. QED
  BY <1>1, <1>2, <1>3, <1>4, <1>5

(* The order of the bottom list is a total order of the nodes, after head_. *)
LEMMA BeforeIsOrder ==
    ASSUME NEW L, \A a \in L : a # head_ /\ a \in Int /\ key[a] \in Int
    PROVE  /\ \A b : Before(head_, b)
           /\ \A a, b, c \in L : Before(a, b) /\ Before(b, c) => Before(a, c)
           /\ \A a, b \in L : Before(a, b) \/ Before(b, a) \/ a = b
           /\ \A a, b \in L : ~(Before(a, b) /\ Before(b, a))
BY DEF Before

(* Steps that leave the lists and the writer alone. *)
LEMMA StructureUnchanged ==
    Structure /\ UNCHANGED <<memory, writer>> => Structure'
<1> SUFFICES ASSUME Structure, UNCHANGED <<memory, writer>> PROVE Structure'
  OBVIOUS
<1>1. /\ n' = n /\ key' = key /\ height' = height /\ next' = next
      /\ prev' = prev /\ pc' = pc /\ wkey' = wkey /\ x' = x /\ level' = level /\ i' = i
  BY Zenon DEF memory, writer
<1>2. \A l : LinkedAt(l)' = LinkedAt(l) /\ ListAt(l)' = ListAt(l)
  BY <1>1, Zenon DEF LinkedAt, ListAt
<1>3. Closed' /\ PrevLinked'
  BY <1>1, <1>2, Zenon DEF Structure, Closed, PrevLinked
<1>4. Passed' /\ InsertionPoint'
  BY <1>1, <1>2, Zenon DEF Structure, Passed, InsertionPoint, InsertsAfter
<1>5. BottomListSorted'
  <2>1. \A a, b : Before(a, b)' <=> Before(a, b)
    BY <1>1, Zenon DEF Before
  <2>2. Linked' = Linked
    BY <1>2, Zenon DEF Linked
  <2>. QED
    BY <1>1, <2>1, <2>2, Zenon DEF Structure, BottomListSorted
<1>. QED
  BY <1>3, <1>4, <1>5, Zenon DEF Structure

(* The constructor makes empty lists. *)
LEMMA StructureInit == Init => Structure
<1> SUFFICES ASSUME Init PROVE Structure
  OBVIOUS
<1>1. \A l \in Levels : LinkedAt(l) = {}
  BY DEF Init, LinkedAt
<1>2. 0 \in Levels
  BY BoundAssumption DEF Levels
<1>3. Closed /\ PrevLinked
  BY <1>1, Zenon DEF Init, Closed, PrevLinked, ListAt
<1>4. Passed /\ InsertionPoint
  BY Zenon DEF Init, Passed, InsertionPoint
<1>5. BottomListSorted
  BY <1>1, <1>2, Zenon DEF Init, BottomListSorted, Linked
<1>. QED
  BY <1>3, <1>4, <1>5 DEF Structure

(* Where no level gains a node and no pointer of a level changes, the      *)
(* lists stay as they are.                                                 *)
LEMMA ListsKept ==
    ASSUME TInv, Structure,
           \A l \in Levels : LinkedAt(l)' = LinkedAt(l),
           \A l \in Levels : \A a \in ListAt(l) : next'[a][l] = next[a][l],
           \A a \in Linked : key'[a] = key[a]
    PROVE  Closed' /\ BottomListSorted'
<1>1. 0 \in Levels
  BY BoundAssumption DEF Levels
<1>2. Closed'
  BY Zenon DEF Structure, Closed, ListAt
<1>3. BottomListSorted'
  <2>1. Linked' = Linked /\ \A a \in Linked \cup {head_} : next'[a][0] = next[a][0]
    BY <1>1, Zenon DEF Linked, ListAt
  <2>2. \A a \in Linked \cup {head_}, b \in Linked : Before(a, b)' <=> Before(a, b)
    BY Zenon DEF Before
  <2>. QED
    BY <2>1, <2>2 DEF Structure, BottomListSorted
<1>. QED
  BY <1>2, <1>3, Zenon

(* The hint is taken only where prev_[0] is the insertion point. *)
LEMMA StructureBeginInsert ==
    ASSUME TInv, Structure, NEW k \in Key, BeginInsert(k)
    PROVE  Structure'
<1> USE DEF BeginInsert, TopLevel, memory
<1>1. \A l \in Levels : LinkedAt(l)' = LinkedAt(l)
  BY Zenon DEF LinkedAt
<1>2. Closed' /\ BottomListSorted'
  BY <1>1, ListsKept, Zenon
<1>3. PrevLinked'
  BY <1>1, Zenon DEF Structure, PrevLinked, ListAt
<1>4. Passed'
  BY Zenon DEF Passed, ListAt
<1>5. InsertionPoint'
  <2>1. CASE HintIsGood(k)
    <3>1. prev[0] \in ListAt(0) /\ next[prev[0]][0] \in LinkedAt(0) \cup {nullptr}
      BY NodeFacts, Zenon DEF Structure, PrevLinked, Closed
    <3>2. next[prev[0]][0] # nullptr => key[next[prev[0]][0]] \in Int
      BY <3>1, NodeFacts, Zenon
    <3>3. /\ prev' = prev /\ next' = next /\ key' = key /\ wkey' = k /\ k \in Int
          /\ prev[0] = head_ \/ key[prev[0]] < k
          /\ next[prev[0]][0] = nullptr \/ ~(key[next[prev[0]][0]] < k)
      BY <2>1, KeyAssumption, Zenon DEF HintIsGood, KeyIsAfterNode
    <3>4. next[prev[0]][0] = nullptr \/ k <= key[next[prev[0]][0]]
      BY <3>2, <3>3, Compare, Zenon
    <3>. QED
      BY <3>3, <3>4, Zenon DEF InsertionPoint, InsertsAfter
  <2>2. CASE ~HintIsGood(k)
    BY <2>2, Zenon DEF InsertionPoint
  <2>. QED
    BY <2>1, <2>2, Zenon
<1>. QED
  BY <1>2, <1>3, <1>4, <1>5, Zenon DEF Structure

(* FindGreatOrEqual ends at the insertion point, even where the levels     *)
(* above are out of order.                                                 *)
LEMMA StructureSearchStep ==
    ASSUME TInv, Structure, SearchStep
    PROVE  Structure'
<1> USE DEF SearchStep, memory
<1>1. \A l \in Levels : LinkedAt(l)' = LinkedAt(l)
  BY Zenon DEF LinkedAt
<1>2. Closed' /\ BottomListSorted'
  BY <1>1, ListsKept, Zenon
<1>3. x \in ListAt(level) /\ (x = head_ \/ key[x] < wkey)
  BY Zenon DEF Structure, Passed
<1>4. level \in Levels /\ next[x][level] \in LinkedAt(level) \cup {nullptr}
  BY <1>3, Zenon DEF Structure, Closed, TInv, TypeOK, WriterTypeOK
<1>5. PrevLinked'
  BY <1>1, <1>3, <1>4, Zenon
     DEF Structure, PrevLinked, ListAt, TInv, TypeOK, WriterTypeOK
<1>6. Passed'
  <2>1. CASE KeyIsAfterNode(wkey, next[x][level])
    BY <2>1, <1>1, <1>4, Zenon DEF Passed, KeyIsAfterNode, ListAt
  <2>2. CASE ~KeyIsAfterNode(wkey, next[x][level]) /\ level = 0
    BY <2>2, Zenon DEF Passed
  <2>3. CASE ~KeyIsAfterNode(wkey, next[x][level]) /\ level # 0
    <3>1. level - 1 \in Levels /\ level' = level - 1 /\ x' = x
      BY <2>3, <1>4, BoundAssumption DEF Levels
    <3>2. LinkedAt(level) \subseteq LinkedAt(level - 1)
      BY <1>4, <3>1, NodeFacts DEF LinkedAt
    <3>. QED
      BY <3>1, <3>2, <1>1, <1>3, Zenon DEF Passed, ListAt
  <2>. QED
    BY <2>1, <2>2, <2>3, Zenon
<1>7. InsertionPoint'
  <2>1. CASE ~KeyIsAfterNode(wkey, next[x][level]) /\ level = 0
    <3>1. prev'[0] = x
      BY <2>1, <1>4, Zenon DEF TInv, TypeOK, WriterTypeOK
    <3>2. next[x][0] # nullptr => key[next[x][0]] \in Int
      BY <2>1, <1>4, NodeFacts, Zenon
    <3>3. /\ next' = next /\ key' = key /\ wkey' = wkey /\ wkey \in Int
          /\ next[x][0] = nullptr \/ ~(key[next[x][0]] < wkey)
      BY <2>1, NodeFacts, Zenon DEF KeyIsAfterNode
    <3>4. next[x][0] = nullptr \/ wkey <= key[next[x][0]]
      BY <3>2, <3>3, Compare, Zenon
    <3>. QED
      BY <1>3, <3>1, <3>3, <3>4, Zenon DEF InsertionPoint, InsertsAfter
  <2>2. CASE KeyIsAfterNode(wkey, next[x][level]) \/ level # 0
    BY <2>2, Zenon DEF InsertionPoint
  <2>. QED
    BY <2>1, <2>2, Zenon
<1>. QED
  BY <1>2, <1>5, <1>6, <1>7, Zenon DEF Structure

(* The node that NewNode returns is on no list. *)
LEMMA AllocLists ==
    ASSUME TInv, NEW h \in RandomHeight, AllocNode(h)
    PROVE  /\ n \in Nat /\ n + 1 \in Nodes
           /\ \A a \in 1 .. n : /\ height'[a] = height[a] /\ key'[a] = key[a]
                                /\ born'[a] = born[a]
           /\ key'[n + 1] = wkey
           /\ \A l \in Levels : LinkedAt(l)' = LinkedAt(l) /\ n + 1 \notin ListAt(l)
<1> USE DEF AllocNode
<1>1. n \in Nat /\ n + 1 \in Nodes
  BY BoundAssumption DEF TInv, TypeOK, MemoryTypeOK, Control, Nodes
<1>2. /\ key \in [Nodes -> Key] /\ height \in [Nodes -> 0 .. kMaxHeight]
      /\ born \in [Nodes -> 0 .. now]
  BY Zenon DEF TInv, TypeOK, MemoryTypeOK
<1>3. \A a \in 1 .. n : a \in Nodes /\ a # n + 1
  BY <1>1, NodeFacts
<1>4. /\ \A a \in 1 .. n : height'[a] = height[a] /\ key'[a] = key[a] /\ born'[a] = born[a]
      /\ key'[n + 1] = wkey
  BY <1>1, <1>2, <1>3, Zenon
<1>5. ASSUME NEW l \in Levels PROVE LinkedAt(l)' = LinkedAt(l)
  <2>1. 0 <= l
    BY DEF Levels
  <2>2. LinkedAt(l)' = {a \in 1 .. n : height[a] > l}
    BY <1>1, <1>4, <2>1 DEF LinkedAt
  <2>3. LinkedAt(l) = {a \in 1 .. n : height[a] > l}
    BY Zenon DEF LinkedAt
  <2>. QED
    BY <2>2, <2>3, Zenon
<1>6. \A l \in Levels : n + 1 \notin ListAt(l)
  BY <1>1 DEF ListAt, LinkedAt, head_
<1>. QED
  BY <1>1, <1>4, <1>5, <1>6, Zenon

(* A new node is on no list yet; prev_ of the new levels is head_. *)
LEMMA StructureAllocNode ==
    ASSUME TInv, Structure, NEW h \in RandomHeight, AllocNode(h)
    PROVE  Structure'
<1> USE DEF AllocNode
<1>1. /\ n \in Nat /\ n + 1 \in Nodes
      /\ \A a \in 1 .. n : height'[a] = height[a] /\ key'[a] = key[a]
      /\ key'[n + 1] = wkey
  BY AllocLists, Zenon
<1>2. \A l \in Levels : LinkedAt(l)' = LinkedAt(l)
  BY AllocLists, Zenon
<1>3. \A l \in Levels : \A a \in ListAt(l) :
         a # n + 1 /\ a \in Nodes \cup {head_} /\ next'[a][l] = next[a][l]
  <2> TAKE l \in Levels
  <2> TAKE a \in ListAt(l)
  <2>1. a # n + 1 /\ a \in Nodes \cup {head_}
    BY <1>1, NodeFacts DEF ListAt, LinkedAt, head_
  <2>2. next'[a] = next[a]
    BY <2>1, Zenon DEF TInv, TypeOK, MemoryTypeOK
  <2>. QED
    BY <2>1, <2>2, Zenon
<1>4. \A a \in Linked : key'[a] = key[a]
  BY <1>1, Zenon DEF Linked, LinkedAt
<1>5. Closed' /\ BottomListSorted'
  BY <1>2, <1>3, <1>4, ListsKept, Zenon
<1>6. PrevLinked'
  BY <1>2, Zenon DEF Structure, PrevLinked, ListAt
<1>7. Passed'
  BY Zenon DEF Passed
<1>8. InsertionPoint'
  <2>1. prev'[0] = prev[0] /\ prev[0] \in ListAt(0) /\ 0 \in Levels
    <3>1. 0 \in Levels /\ ~(max_height <= 0)
      BY NodeFacts DEF TInv, TypeOK, MemoryTypeOK
    <3>. QED
      BY <3>1, Zenon DEF Structure, PrevLinked
  <2>2. next[prev[0]][0] \in LinkedAt(0) \cup {nullptr}
    BY <2>1, Zenon DEF Structure, Closed
  <2>3. InsertsAfter(prev[0])
    BY Zenon DEF Structure, InsertionPoint
  <2>4. InsertsAfter(prev[0])'
    <3>1. next'[prev[0]][0] = next[prev[0]][0] /\ wkey' = wkey
      BY <2>1, <1>3, Zenon
    <3>2. prev[0] # head_ => key'[prev[0]] = key[prev[0]]
      BY <2>1, <1>4, Zenon DEF ListAt, Linked
    <3>3. next[prev[0]][0] # nullptr => key'[next[prev[0]][0]] = key[next[prev[0]][0]]
      BY <2>2, <1>4, Zenon DEF Linked
    <3>. QED
      BY <2>1, <2>3, <3>1, <3>2, <3>3, Zenon DEF InsertsAfter
  <2>. QED
    BY <2>4, Zenon DEF InsertionPoint
<1>. QED
  BY <1>5, <1>6, <1>7, <1>8, Zenon DEF Structure

(* Link adds the node to the list of level i and to no other. *)
LEMMA LinkLists ==
    ASSUME TInv, Structure, Link, StoresSuccessor
    PROVE  /\ n \in Nodes /\ i \in Levels /\ n \notin ListAt(i)
           /\ prev[i] \in ListAt(i) /\ prev[i] # n
           /\ next[prev[i]][i] \in LinkedAt(i) \cup {nullptr}
           /\ \A l \in Levels : LinkedAt(l)' =
                 IF l = i THEN LinkedAt(l) \cup {n} ELSE LinkedAt(l)
           /\ \A l \in Levels, a \in Nodes \cup {head_} : next'[a][l] =
                 IF l = i /\ a = prev[i] THEN n
                 ELSE IF l = i /\ a = n THEN next[prev[i]][i]
                 ELSE next[a][l]
<1>1. /\ n \in Nodes /\ i \in Levels /\ i < height[n] /\ pc = "link"
      /\ n \in 1 .. n /\ n # head_
  <2>1. n \in Nodes /\ i \in Levels /\ i < height[n] /\ pc = "link"
    BY Zenon DEF Link, TInv, Control, TypeOK, WriterTypeOK
  <2>2. n \in 1 .. n /\ n # head_
    BY <2>1 DEF Nodes, head_
  <2>. QED
    BY <2>1, <2>2, Zenon
<1>2. n \notin ListAt(i)
  BY <1>1, NodeFacts DEF ListAt, LinkedAt
<1>3. /\ prev[i] \in ListAt(i) /\ prev[i] # n
      /\ prev[i] \in Nodes \cup {head_}
      /\ next[prev[i]][i] \in LinkedAt(i) \cup {nullptr}
  BY <1>1, <1>2, NodeFacts, Zenon DEF Structure, PrevLinked, Closed, ListAt
<1>4. ASSUME NEW l \in Levels
      PROVE  LinkedAt(l)' = IF l = i THEN LinkedAt(l) \cup {n} ELSE LinkedAt(l)
  <2>1. n' = n /\ height' = height
    BY Zenon DEF Link
  <2>2. LinkedAt(l) = {a \in 1 .. n : height[a] > l /\ (a = n => i > l)}
    BY <1>1, NodeFacts DEF LinkedAt
  <2>3. LinkedAt(l)' = {a \in 1 .. n : height[a] > l /\ (a = n => i + 1 > l)}
    <3>1. CASE LinkedAll(height[n])
      BY <2>1, <3>1, <1>1, NodeFacts, Zenon DEF Link, LinkedAt, LinkedAll
    <3>2. CASE ~LinkedAll(height[n])
      <4>1. pc' = "link" /\ i' = i + 1
        BY <3>2, Zenon DEF Link
      <4>2. LinkedAt(l)' = {a \in 1 .. n : height[a] > l /\ ~(a = n /\ i + 1 <= l)}
        BY <2>1, <4>1, Zenon DEF LinkedAt
      <4>3. i + 1 \in Int /\ l \in Int
        BY NodeFacts
      <4>. QED
        BY <4>2, <4>3, Compare, Zenon
    <3>. QED
      BY <3>1, <3>2, Zenon
  <2>. QED
    BY <2>2, <2>3, <1>1, NodeFacts
<1>5. ASSUME NEW l \in Levels, NEW a \in Nodes \cup {head_}
      PROVE  next'[a][l] = IF l = i /\ a = prev[i] THEN n
                           ELSE IF l = i /\ a = n THEN next[prev[i]][i]
                           ELSE next[a][l]
  <2>1. next \in [Nodes \cup {head_} -> [Levels -> Pointer]]
    BY Zenon DEF TInv, TypeOK, MemoryTypeOK
  <2>2. next' = [next EXCEPT ![n][i] = next[prev[i]][i], ![prev[i]][i] = n]
    BY Zenon DEF Link, SuccessorSlot
  <2>. QED
    BY <1>1, <1>3, <2>1, <2>2, Zenon
<1>. QED
  BY <1>1, <1>2, <1>3, <1>4, <1>5, Zenon

(* The bottom list takes the node at the place InsertionPoint describes. *)
LEMMA LinkSorted ==
    ASSUME TInv, Structure, Link, StoresSuccessor
    PROVE  BottomListSorted'
<1> DEFINE p == prev[0]
           s == next[p][0]
<1>1. /\ n' = n /\ key' = key /\ 0 \in Levels /\ i \in Levels
      /\ n \in Nodes /\ Linked \subseteq Nodes
  BY NodeFacts, LinkLists, Zenon DEF Link, Linked
<1>2. CASE i # 0
  <2>1. Linked' = Linked /\ \A a \in Linked \cup {head_} : next'[a][0] = next[a][0]
    BY <1>1, <1>2, LinkLists, Zenon DEF Linked
  <2>2. \A a \in Linked \cup {head_}, b \in Linked : Before(a, b)' <=> Before(a, b)
    BY <1>1, Zenon DEF Before
  <2>. QED
    BY <2>1, <2>2, Zenon DEF Structure, BottomListSorted
<1>3. CASE i = 0
  <2>1. /\ Linked' = Linked \cup {n} /\ n \notin Linked /\ n # head_
        /\ p \in Linked \cup {head_} /\ p # n /\ s \in Linked \cup {nullptr}
        /\ next'[n][0] = s /\ next'[p][0] = n
        /\ \A a \in Linked \cup {head_} : a # p => next'[a][0] = next[a][0]
    BY <1>1, <1>3, LinkLists DEF Linked, ListAt
  <2>2. /\ key[n] \in Int
        /\ p = head_ \/ key[p] < key[n]
        /\ s = nullptr \/ key[n] <= key[s]
    BY <1>3, <1>1, NodeFacts, Zenon
       DEF Structure, InsertionPoint, InsertsAfter, Link, TInv, Control
  <2>3. \A a \in Linked : a < n /\ a # head_ /\ a # nullptr /\ a \in Int /\ key[a] \in Int
    <3> SUFFICES ASSUME NEW a \in Linked
                 PROVE  a < n /\ a # head_ /\ a # nullptr /\ a \in Int /\ key[a] \in Int
      BY Zenon
    <3>1. a \in 1 .. n /\ a # n
      BY <2>1, Zenon DEF Linked, LinkedAt
    <3>2. key[a] \in Int
      BY <1>1, NodeFacts, Zenon
    <3>. QED
      BY <1>1, <3>1, <3>2 DEF Nodes, head_, nullptr
  <2>4. \A a, b : Before(a, b)' <=> Before(a, b)
    BY <1>1, Zenon DEF Before
  <2>5. /\ \A a \in Linked \cup {head_} : next[a][0] # nullptr =>
               next[a][0] \in Linked /\ Before(a, next[a][0])
        /\ \A a \in Linked \cup {head_}, b \in Linked : Before(a, b) =>
               /\ next[a][0] # nullptr
               /\ next[a][0] = b \/ Before(next[a][0], b)
    BY Zenon DEF Structure, BottomListSorted
  <2> DEFINE Good(a, t) == /\ t # nullptr => t \in Linked \cup {n} /\ Before(a, t)
                           /\ \A b \in Linked \cup {n} :
                                 Before(a, b) => t # nullptr /\ (t = b \/ Before(t, b))
  <2> DEFINE L == Linked \cup {n}
  <2>6. /\ \A b : Before(head_, b)
        /\ \A a, b, c \in L : Before(a, b) /\ Before(b, c) => Before(a, c)
        /\ \A a, b \in L : Before(a, b) \/ Before(b, a) \/ a = b
        /\ \A a, b \in L : ~(Before(a, b) /\ Before(b, a))
    <3>1. \A a \in L : a # head_ /\ a \in Int /\ key[a] \in Int
      BY <1>1, <2>1, <2>2, <2>3, NodeFacts, Zenon
    <3>. QED
      BY <3>1, BeforeIsOrder, Zenon
  <2>7. n # nullptr /\ Before(p, n) /\ (s # nullptr => Before(n, s))
    <3>1. n # nullptr
      BY <1>1 DEF Nodes, nullptr
    <3>2. Before(p, n)
      BY <2>2, Zenon DEF Before
    <3>3. ASSUME s # nullptr PROVE Before(n, s)
      <4>1. s \in Linked /\ key[n] <= key[s]
        BY <3>3, <2>1, <2>2, Zenon
      <4>2. n \in Int /\ s \in Int /\ s < n /\ key[s] \in Int /\ key[n] \in Int
        BY <4>1, <2>2, <2>3, NodeFacts, Zenon
      <4>. QED
        BY <4>1, <4>2, Compare, Zenon DEF Before
    <3>. QED
      BY <3>1, <3>2, <3>3, Zenon
  <2>8. ASSUME NEW a \in Linked \cup {n, head_} PROVE Good(a, next'[a][0])
    <3>1. CASE a = p
      <4>1. next'[a][0] = n
        BY <3>1, <2>1, Zenon
      <4>2. ASSUME NEW b \in Linked, Before(p, b) PROVE n = b \/ Before(n, b)
        <5>1. s # nullptr /\ s \in Linked /\ (s = b \/ Before(s, b))
          BY <4>2, <2>1, <2>5, Zenon
        <5>2. Before(n, s)
          BY <5>1, <2>7, Zenon
        <5>. QED
          BY <5>1, <5>2, <2>6, Zenon
      <4>. QED
        BY <3>1, <4>1, <4>2, <2>7, Zenon
    <3>2. CASE a = n
      <4>1. next'[a][0] = s /\ ~Before(n, n)
        BY <3>2, <2>1, <2>6, Zenon
      <4>2. ASSUME NEW b \in Linked, Before(n, b)
            PROVE  s # nullptr /\ (s = b \/ Before(s, b))
        <5>1. Before(p, b)
          <6>1. CASE p = head_
            BY <6>1, <2>6, Zenon
          <6>2. CASE p \in Linked
            BY <6>2, <4>2, <2>6, <2>7, Zenon
          <6>. QED
            BY <6>1, <6>2, <2>1, Zenon
        <5>. QED
          BY <5>1, <2>1, <2>5, Zenon
      <4>3. s # nullptr => s \in Linked /\ Before(n, s)
        BY <2>1, <2>7, Zenon
      <4>. QED
        BY <3>2, <4>1, <4>2, <4>3, Zenon
    <3>3. CASE a # p /\ a # n /\ Before(a, n)
      <4>1. p # head_ /\ Before(a, p)
        <5>1. a = head_ \/ a \in Linked
          BY <3>3, Zenon
        <5>2. ASSUME a \in Linked, Before(p, a) PROVE FALSE
          <6>1. s # nullptr /\ s \in Linked /\ (s = a \/ Before(s, a))
            BY <5>2, <2>1, <2>5, Zenon
          <6>2. Before(n, s)
            BY <6>1, <2>7, Zenon
          <6>3. Before(n, a)
            <7>1. CASE s = a
              BY <6>2, <7>1, Zenon
            <7>2. CASE Before(s, a)
              <8>1. n \in L /\ s \in L /\ a \in L
                BY <5>2, <6>1, Zenon
              <8>. QED
                BY <6>2, <7>2, <8>1, <2>6, Zenon
            <7>. QED
              BY <6>1, <7>1, <7>2, Zenon
          <6>. QED
            BY <3>3, <5>2, <6>3, <2>6, Zenon
        <5>3. p # head_
          BY <3>3, <5>1, <5>2, <2>6, Zenon
        <5>. QED
          <6>1. CASE a = head_
            BY <6>1, <5>3, <2>6, Zenon
          <6>2. CASE a \in Linked
            BY <6>2, <3>3, <5>2, <5>3, <2>1, <2>6, Zenon
          <6>. QED
            BY <5>1, <6>1, <6>2, Zenon
      <4> DEFINE t == next[a][0]
      <4>2. next'[a][0] = t /\ a \in Linked \cup {head_} /\ p \in Linked
        BY <3>3, <4>1, <2>1, Zenon
      <4>3. t # nullptr /\ (t = p \/ Before(t, p))
        BY <4>1, <4>2, <2>5, Zenon
      <4>4. t \in Linked /\ Before(a, t)
        BY <4>2, <4>3, <2>5, Zenon
      <4>5. Before(t, n)
        <5>1. CASE t = p
          BY <5>1, <2>7, Zenon
        <5>2. CASE Before(t, p)
          BY <5>2, <4>2, <4>4, <2>6, <2>7, Zenon
        <5>. QED
          BY <4>3, <5>1, <5>2, Zenon
      <4>6. \A b \in Linked : Before(a, b) => t = b \/ Before(t, b)
        BY <4>2, <2>5, Zenon
      <4> HIDE DEF t
      <4>. QED
        BY <4>2, <4>3, <4>4, <4>5, <4>6, Zenon
    <3>4. CASE a # p /\ a # n /\ ~Before(a, n)
      BY <3>4, <2>1, <2>5
    <3>. QED
      BY <3>1, <3>2, <3>3, <3>4, Zenon
  <2>. QED
    BY <2>1, <2>4, <2>8, Zenon DEF BottomListSorted
<1>. QED
  BY <1>2, <1>3

(* A round of the loop that links the node keeps the lists. *)
LEMMA StructureLink ==
    ASSUME TInv, Structure, Link, StoresSuccessor
    PROVE  Structure'
<1>1. Closed'
  <2> SUFFICES ASSUME NEW l \in Levels, NEW a \in ListAt(l)'
               PROVE  next'[a][l] \in LinkedAt(l)' \cup {nullptr}
    BY Zenon DEF Closed
  <2>0. LinkedAt(l)' = IF l = i THEN LinkedAt(l) \cup {n} ELSE LinkedAt(l)
    BY LinkLists, Zenon
  <2>1. a \in ListAt(l) \/ (l = i /\ a = n)
    BY <2>0 DEF ListAt
  <2>2. a \in Nodes \cup {head_} /\ LinkedAt(l) \subseteq LinkedAt(l)'
    BY <2>1, LinkLists, NodeFacts, Zenon DEF ListAt
  <2>3. next'[a][l] = IF l = i /\ a = prev[i] THEN n
                      ELSE IF l = i /\ a = n THEN next[prev[i]][i]
                      ELSE next[a][l]
    BY <2>2, LinkLists, Zenon
  <2>4. CASE l = i
    <3>1. LinkedAt(l)' = LinkedAt(l) \cup {n} /\ next[prev[i]][i] \in LinkedAt(l) \cup {nullptr}
      BY <2>4, LinkLists, Zenon
    <3>2. a = n => next'[a][l] = next[prev[i]][i]
      BY <2>2, <2>4, LinkLists, Zenon
    <3>3. a # n => next[a][l] \in LinkedAt(l) \cup {nullptr}
      BY <2>1, Zenon DEF Structure, Closed
    <3>. QED
      BY <2>3, <3>1, <3>2, <3>3, Zenon
  <2>5. CASE l # i
    <3>1. LinkedAt(l)' = LinkedAt(l) /\ next'[a][l] = next[a][l]
      BY <2>2, <2>5, LinkLists, Zenon
    <3>. QED
      BY <2>1, <2>5, <3>1, Zenon DEF Structure, Closed
  <2>. QED
    BY <2>4, <2>5, Zenon
<1>2. PrevLinked'
  <2>1. \A l \in Levels : ListAt(l) \subseteq ListAt(l)'
    BY LinkLists DEF ListAt
  <2>2. \A l \in Levels : prev[l] \in ListAt(l)
    BY DEF Structure, PrevLinked
  <2>3. CASE LinkedAll(height[n])
    <3>1. n \in LinkedAt(0)'
      BY <2>3, LinkLists, NodeFacts, Zenon DEF Link, LinkedAt, LinkedAll, TInv, Control
    <3>2. prev' = [prev EXCEPT ![0] = n] /\ prev \in [Levels -> Nodes \cup {head_}]
      BY <2>3, Zenon DEF Link, HintAfter, TInv, TypeOK, WriterTypeOK
    <3> SUFFICES ASSUME NEW l \in Levels PROVE prev'[l] \in ListAt(l)'
      BY Zenon DEF PrevLinked
    <3>3. prev'[l] = IF l = 0 THEN n ELSE prev[l]
      BY <3>2, Zenon
    <3>. QED
      BY <2>1, <2>2, <3>1, <3>3, Zenon DEF ListAt
  <2>4. CASE ~LinkedAll(height[n])
    BY <2>4, <2>1, <2>2, Zenon DEF Link, PrevLinked
  <2>. QED
    BY <2>3, <2>4, Zenon
<1>3. Passed' /\ InsertionPoint'
  <2>1. pc' \in {"idle", "link"} /\ (pc' = "link" => i' = i + 1)
    BY Zenon DEF Link
  <2>2. i + 1 # 0
    BY DEF TInv, TypeOK, WriterTypeOK, Levels
  <2>. QED
    BY <2>1, <2>2, Zenon DEF Passed, InsertionPoint
<1>4. BottomListSorted'
  BY LinkSorted
<1>. QED
  BY <1>1, <1>2, <1>3, <1>4, Zenon DEF Structure

(* The lists stay as Structure describes them, with the successor stored   *)
(* on line 124.                                                            *)
LEMMA StructureNext ==
    ASSUME TInv, Structure, [Next]_vars, StoresSuccessor
    PROVE  Structure'
<1>1. CASE UNCHANGED <<memory, writer>>
  BY <1>1, StructureUnchanged, Zenon
<1>2. CASE \E k \in Key : BeginInsert(k)
  BY <1>2, StructureBeginInsert
<1>3. CASE InsertStep
  BY <1>3, StructureSearchStep, StructureAllocNode, StructureLink DEF InsertStep
<1>. QED
  BY <1>1, <1>2, <1>3, Zenon DEF Next, Synchronise, Call, ReadStep, vars

(* Insert keeps the bottom list sorted and complete, for every interleaving *)
(* with any number of readers, with the successor stored on line 124.       *)
THEOREM Sorted ==
    ASSUME StoresSuccessor
    PROVE  Spec => []BottomListSorted
<1>1. Init => TInv /\ Structure
  BY TInvInit, StructureInit
<1>2. TInv /\ Structure /\ [Next]_vars => (TInv /\ Structure)'
  BY TInvNext, StructureNext
<1>3. Structure => BottomListSorted
  BY DEF Structure
<1>. QED
  BY <1>1, <1>2, <1>3, PTL DEF Spec

-----------------------------------------------------------------------------
(* Following the pointers of a level from head_ comes to all of its nodes.  *)
(* Not by an order of the level: the levels above the bottom need not be    *)
(* sorted.                                                                  *)
Reached ==
    \A l \in Levels : \A S \in SUBSET ListAt(l) : Follows(S, l) => ListAt(l) \subseteq S

(* The constructor's lists have head_ only. *)
LEMMA ReachedInit == Init => Reached
<1> SUFFICES ASSUME Init PROVE Reached
  OBVIOUS
<1>1. \A l \in Levels : LinkedAt(l) = {}
  BY DEF Init, LinkedAt
<1>. QED
  BY <1>1, Zenon DEF Reached, Follows, ListAt

(* Where no level gains a node and no pointer of a level changes, its      *)
(* nodes stay in reach.                                                    *)
LEMMA ReachedKept ==
    ASSUME TInv, Reached,
           \A l \in Levels : LinkedAt(l)' = LinkedAt(l),
           \A l \in Levels : \A a \in ListAt(l) : next'[a][l] = next[a][l]
    PROVE  Reached'
<1> SUFFICES ASSUME NEW l \in Levels, NEW S \in SUBSET ListAt(l), Follows(S, l)'
             PROVE  ListAt(l) \subseteq S
  BY Zenon DEF Reached, ListAt
<1>1. Follows(S, l)
  BY Zenon DEF Follows
<1>. QED
  BY <1>1, Zenon DEF Reached

(* Link puts the node between a node of the level and that node's          *)
(* successor, wherever on the level that is.                               *)
LEMMA ReachedLink ==
    ASSUME TInv, Structure, Reached, Link, StoresSuccessor
    PROVE  Reached'
<1> SUFFICES ASSUME NEW l \in Levels, NEW S \in SUBSET (ListAt(l)'), Follows(S, l)'
             PROVE  ListAt(l)' \subseteq S
  BY Zenon DEF Reached
<1>1. head_ \in S /\ \A a \in S \ {Garbage} : next'[a][l] \in S \cup {nullptr}
  BY Zenon DEF Follows
<1>2. ListAt(l) \subseteq Nodes \cup {head_} /\ Garbage \notin ListAt(l)
  <2>1. Garbage \notin Nodes \cup {head_}
    BY DEF Garbage, Nodes, head_
  <2>. QED
    BY <2>1, NodeFacts, Zenon DEF ListAt
<1>3. CASE l # i
  <2>1. LinkedAt(l)' = LinkedAt(l) /\ \A a \in ListAt(l) : next'[a][l] = next[a][l]
    BY <1>2, <1>3, LinkLists, Zenon
  <2>2. S \in SUBSET ListAt(l) /\ Follows(S, l)
    BY <1>1, <2>1, Zenon DEF ListAt, Follows
  <2>. QED
    BY <2>1, <2>2, Zenon DEF Reached, ListAt
<1>4. CASE l = i
  <2> DEFINE p == prev[l]
             T == S \ {n}
  <2>1. /\ n \notin ListAt(l) /\ p \in ListAt(l)
        /\ ListAt(l)' = ListAt(l) \cup {n}
    BY <1>4, LinkLists, Zenon DEF ListAt
  <2>2. /\ next'[p][l] = n
        /\ next'[n][l] = next[p][l]
        /\ \A a \in ListAt(l) : a # p => next'[a][l] = next[a][l]
    BY <1>2, <1>4, <2>1, LinkLists, Zenon
  <2>3. \A a \in ListAt(l) : next[a][l] # n
    <3>1. n # nullptr
      BY LinkLists DEF Nodes, nullptr
    <3>. QED
      BY <2>1, <3>1, Zenon DEF Structure, Closed, ListAt
  <2>4. n # Garbage /\ n # head_
    BY LinkLists DEF Nodes, Garbage, head_
  <2>5. T \in SUBSET ListAt(l) /\ head_ \in T
    BY <1>1, <2>1, <2>4, Zenon
  <2>6. ASSUME NEW a \in T PROVE next[a][l] \in T \cup {nullptr}
    <3>1. a \in ListAt(l) /\ a \in S \ {Garbage}
      BY <1>2, <2>5, Zenon
    <3>2. CASE a # p
      BY <1>1, <2>2, <2>3, <3>1, <3>2, Zenon
    <3>3. CASE a = p
      <4>1. n \in S
        <5>1. n # nullptr
          BY LinkLists DEF Nodes, nullptr
        <5>. QED
          BY <1>1, <2>2, <3>1, <3>3, <5>1, Zenon
      <4>2. next[p][l] \in S \cup {nullptr}
        BY <1>1, <2>2, <2>4, <4>1, Zenon
      <4>. QED
        BY <2>1, <2>3, <3>3, <4>2, Zenon
    <3>. QED
      BY <3>2, <3>3, Zenon
  <2>7. ListAt(l) \subseteq T
    BY <2>5, <2>6, Zenon DEF Reached, Follows
  <2>8. n \in S
    <3>1. n # nullptr /\ p \in S \ {Garbage}
      <4>1. n # nullptr
        BY LinkLists DEF Nodes, nullptr
      <4>. QED
        BY <1>2, <2>1, <2>7, <4>1, Zenon
    <3>. QED
      BY <1>1, <2>2, <3>1, Zenon
  <2>. QED
    BY <2>1, <2>7, <2>8, Zenon
<1>. QED
  BY <1>3, <1>4, Zenon

(* Every step keeps the nodes of every level in reach. *)
LEMMA ReachedNext ==
    ASSUME TInv, Structure, Reached, [Next]_vars, StoresSuccessor
    PROVE  Reached'
<1>1. CASE UNCHANGED memory /\ pc # "link" /\ pc' # "link"
  BY <1>1, ReachedKept, Zenon DEF memory, LinkedAt
<1>2. CASE UNCHANGED <<memory, writer>>
  BY <1>2, ReachedKept, Zenon DEF memory, writer, LinkedAt
<1>3. ASSUME NEW h \in RandomHeight, AllocNode(h) PROVE Reached'
  <2>1. \A l \in Levels : LinkedAt(l)' = LinkedAt(l) /\ n + 1 \notin ListAt(l)
    BY <1>3, AllocLists, Zenon
  <2>2. ASSUME NEW l \in Levels, NEW a \in ListAt(l) PROVE next'[a][l] = next[a][l]
    <3>1. a \in Nodes \cup {head_} /\ a # n + 1
      BY <2>1, NodeFacts, Zenon DEF ListAt
    <3>. QED
      BY <1>3, <3>1, Zenon DEF AllocNode, TInv, TypeOK, MemoryTypeOK
  <2>. QED
    BY <2>1, <2>2, ReachedKept, Zenon
<1>4. CASE Link
  BY <1>4, ReachedLink, Zenon
<1>5. CASE SearchStep \/ \E k \in Key : BeginInsert(k)
  <2>1. UNCHANGED memory /\ pc # "link" /\ pc' # "link"
    BY <1>5, Zenon DEF SearchStep, BeginInsert
  <2>. QED
    BY <1>1, <2>1, Zenon
<1>. QED
  BY <1>2, <1>3, <1>4, <1>5, Zenon DEF Next, InsertStep, Synchronise, Call, ReadStep, vars

(* No level loses a node or gains one that does not reach it, with stale   *)
(* prev_ on the levels that the hint leaves out and with the successor     *)
(* stored on line 124.                                                     *)
THEOREM Complete ==
    ASSUME StoresSuccessor
    PROVE  Spec => []LevelsComplete
<1>1. Init => TInv /\ Structure /\ Reached
  BY TInvInit, StructureInit, ReachedInit
<1>2. TInv /\ Structure /\ Reached /\ [Next]_vars => (TInv /\ Structure /\ Reached)'
  BY TInvNext, StructureNext, ReachedNext
<1>3. TInv /\ Structure /\ Reached => LevelsComplete
  <2> SUFFICES ASSUME TInv, Structure, Reached, NEW l \in Levels
               PROVE  Chain(l) = LinkedAt(l) \cup {head_}
    BY Zenon DEF LevelsComplete
  <2> DEFINE U == Nodes \cup {head_, Garbage}
  <2>1. ListAt(l) \in SUBSET U /\ Garbage \notin ListAt(l) /\ head_ \in ListAt(l)
    <3>1. Garbage \notin Nodes \cup {head_}
      BY DEF Garbage, Nodes, head_
    <3>. QED
      BY <3>1, NodeFacts, Zenon DEF ListAt
  <2>2. Follows(ListAt(l), l)
    BY <2>1, Zenon DEF Follows, Structure, Closed, ListAt
  <2>3. ASSUME NEW S \in SUBSET U, Follows(S, l) PROVE ListAt(l) \subseteq S
    <3>1. Follows(S \cap ListAt(l), l)
      <4> SUFFICES ASSUME NEW a \in S \cap ListAt(l)
                   PROVE  next[a][l] \in (S \cap ListAt(l)) \cup {nullptr}
        BY <2>1, <2>3, Zenon DEF Follows
      <4>1. next[a][l] \in S \cup {nullptr}
        BY <2>1, <2>3, Zenon DEF Follows
      <4>2. next[a][l] \in ListAt(l) \cup {nullptr}
        BY Zenon DEF Structure, Closed, ListAt
      <4>. QED
        BY <4>1, <4>2, Zenon
    <3>. QED
      BY <3>1, Zenon DEF Reached
  <2>4. Chain(l) = ListAt(l)
    BY <2>1, <2>2, <2>3, Zenon DEF Chain
  <2>. QED
    BY <2>4, Zenon DEF ListAt
<1>. QED
  BY <1>1, <1>2, <1>3, PTL DEF Spec

-----------------------------------------------------------------------------
(***************************************************************************)
(* Readers never load what is not there yet.                               *)
(***************************************************************************)

(* A store inside the view v has initialised a->next_[l], and whatever     *)
(* else a load may return was published by a release store.                *)
Initialised(mem, a, l, v) ==
    \E m \in mem :
        /\ m.node = a /\ m.lvl = l /\ m.val # Garbage /\ m.t <= v
        /\ \A o \in mem : o.node = a /\ o.lvl = l =>
              o = m \/ o.t < m.t \/ (o.rel /\ o.val # Garbage)

(* All of a's pointers up to level l. *)
InitialisedTo(mem, a, l, v) == \A j \in 0 .. l : Initialised(mem, a, j, v)

(* A pointer in memory leads to a node of the level that was born and      *)
(* initialised before the pointer was stored.                              *)
Leads(m) == m.node # ListObject /\ m.val \in Nodes =>
    /\ m.val \in LinkedAt(m.lvl)
    /\ born[m.val] <= m.t
    /\ InitialisedTo(stores, m.val, m.lvl, m.t)

Publication ==
    /\ \A l \in Levels : Initialised(stores, head_, l, 0)
    /\ \A l \in Levels : \A a \in LinkedAt(l) : Initialised(stores, a, l, now)
    /\ \A m \in stores : Leads(m)

(* A reader stands on a node that it may read, from its level down. *)
Footing(r) == call[r] # NoCall =>
    /\ at[r].x \in ListAt(at[r].level)
    /\ InitialisedTo(stores, at[r].x, at[r].level, view[r])

Safety == Publication /\ \A r \in Readers : Footing(r)

-----------------------------------------------------------------------------
(* The messages of the pointers. *)
LEMMA MessageFacts ==
    ASSUME TypeOK, NEW m \in stores
    PROVE  /\ m.t \in Int /\ 0 <= m.t /\ m.t <= now /\ now \in Nat
           /\ m.node # ListObject =>
                m.lvl \in Levels /\ m.node \in Nodes \cup {head_} /\ m.val \in Pointer
<1>1. m \in Messages(now) /\ now \in Nat
  BY DEF TypeOK, MemoryTypeOK
<1>2. m.t \in 0 .. now
  BY <1>1, Zenon DEF Messages
<1>3. m.node # ListObject =>
         m.lvl \in Levels /\ m.node \in Nodes \cup {head_} /\ m.val \in Pointer
  BY <1>1, Zenon DEF Messages
<1>. QED
  BY <1>1, <1>2, <1>3

(* A node of a level is a node of the levels below. *)
LEMMA Nested ==
    ASSUME TInv, NEW l \in Levels, NEW j \in 0 .. l
    PROVE  j \in Levels /\ LinkedAt(l) \subseteq LinkedAt(j)
<1>1. j \in Levels /\ j <= l /\ j \in Int /\ l \in Int
  BY BoundAssumption DEF Levels
<1>2. ASSUME NEW a \in LinkedAt(l) PROVE a \in LinkedAt(j)
  <2>1. a \in 1 .. n /\ height[a] > l /\ height[a] \in Int /\ i \in Int
    BY NodeFacts DEF LinkedAt
  <2>2. height[a] > j /\ (i <= j => i <= l)
    BY <1>1, <2>1
  <2>. QED
    BY <2>1, <2>2, <1>2 DEF LinkedAt
<1>. QED
  BY <1>1, <1>2

(* Release stores do not undo an initialisation. *)
LEMMA StillInitialised ==
    ASSUME NEW mem, NEW new, NEW a, NEW l, NEW v \in Int, NEW w \in Int, v <= w,
           \A o \in mem : o.t \in Int,
           \A o \in new : o.node = a /\ o.lvl = l => o.rel /\ o.val # Garbage,
           Initialised(mem, a, l, v)
    PROVE  Initialised(mem \cup new, a, l, w)
<1>1. PICK m \in mem :
          /\ m.node = a /\ m.lvl = l /\ m.val # Garbage /\ m.t <= v
          /\ \A o \in mem : o.node = a /\ o.lvl = l =>
                o = m \/ o.t < m.t \/ (o.rel /\ o.val # Garbage)
  BY DEF Initialised
<1>2. m.t <= w
  BY <1>1
<1>3. \A o \in mem \cup new : o.node = a /\ o.lvl = l =>
          o = m \/ o.t < m.t \/ (o.rel /\ o.val # Garbage)
  BY <1>1
<1>. QED
  BY <1>1, <1>2, <1>3 DEF Initialised

(* Whatever a reader loads has been initialised, and its view then         *)
(* includes the store.                                                     *)
LEMMA GoodLoad ==
    ASSUME TInv, NEW r \in Readers, call[r] # NoCall, Footing(r),
           NEW m \in Visible(stores, at[r].x, at[r].level, view[r])
    PROVE  /\ m \in stores /\ m.node # ListObject /\ m.lvl = at[r].level
           /\ m.val # Garbage
           /\ AcquiredView(view[r], m) \in Int
           /\ view[r] <= AcquiredView(view[r], m)
           /\ m.t <= AcquiredView(view[r], m)
<1>1. at[r] \in [x : Nodes \cup {head_}, level : Levels] /\ view[r] \in 0 .. now
  BY DEF TInv, TypeOK, ReadersTypeOK
<1>2. /\ at[r].x # ListObject /\ at[r].level \in 0 .. at[r].level
      /\ view[r] \in Int
  <2>1. at[r].x \in Nodes \cup {head_} /\ at[r].level \in Levels
    BY <1>1
  <2>2. at[r].x # ListObject
    BY <2>1 DEF Nodes, head_, ListObject
  <2>3. at[r].level \in 0 .. at[r].level
    BY <2>1, BoundAssumption DEF Levels
  <2>4. view[r] \in Int
    BY <1>1, MessageFacts DEF TInv, TypeOK, MemoryTypeOK
  <2>. QED
    BY <2>2, <2>3, <2>4
<1>3. Initialised(stores, at[r].x, at[r].level, view[r])
  BY <1>2, Zenon DEF Footing, InitialisedTo
<1>4. PICK f \in stores :
          /\ f.node = at[r].x /\ f.lvl = at[r].level
          /\ f.val # Garbage /\ f.t <= view[r]
          /\ \A o \in stores : o.node = at[r].x /\ o.lvl = at[r].level =>
                o = f \/ o.t < f.t \/ (o.rel /\ o.val # Garbage)
  BY <1>3, Zenon DEF Initialised
<1>5. m \in stores /\ m.node = at[r].x /\ m.lvl = at[r].level /\ f.t <= m.t
  BY <1>4, Zenon DEF Visible
<1>6. m.t \in Int /\ f.t \in Int
  BY <1>4, <1>5, MessageFacts, Zenon DEF TInv
<1>7. m = f \/ (m.rel /\ m.val # Garbage)
  BY <1>4, <1>5, <1>6
<1>8. CASE m = f
  BY <1>2, <1>4, <1>5, <1>6, <1>8 DEF AcquiredView
<1>9. CASE m.rel /\ m.val # Garbage
  BY <1>2, <1>5, <1>6, <1>9 DEF AcquiredView
<1>. QED
  BY <1>7, <1>8, <1>9, Zenon

(* No load of a reader returns garbage, and the node it returns was        *)
(* constructed before, in the order of happens-before.                     *)
LEMMA SafetyMeansSafe == TInv /\ Safety => LoadsAreSafe
<1> SUFFICES ASSUME TInv, Safety, NEW r \in Readers, call[r] # NoCall,
                    NEW m \in Visible(stores, at[r].x, at[r].level, view[r])
             PROVE  /\ m.val # Garbage
                    /\ m.val # nullptr => born[m.val] <= AcquiredView(view[r], m)
  BY DEF LoadsAreSafe, Acquire_Load
<1>1. /\ m \in stores /\ m.node # ListObject /\ m.val # Garbage
      /\ AcquiredView(view[r], m) \in Int /\ m.t <= AcquiredView(view[r], m)
  BY GoodLoad, Zenon DEF Safety
<1>2. m.t \in Int /\ m.val \in Pointer
  BY <1>1, MessageFacts DEF TInv
<1>3. ASSUME m.val # nullptr PROVE born[m.val] <= AcquiredView(view[r], m)
  <2>1. m.val \in Nodes
    BY <1>1, <1>2, <1>3 DEF Pointer
  <2>2. born[m.val] <= m.t /\ born[m.val] \in 0 .. now
    BY <1>1, <2>1, Zenon DEF Safety, Publication, Leads, TInv, TypeOK, MemoryTypeOK
  <2>. QED
    BY <1>1, <1>2, <2>2
<1>. QED
  BY <1>1, <1>3, Zenon

(* The constructor publishes head_ with all of its pointers. *)
LEMMA SafetyInit == Init => Safety
<1> SUFFICES ASSUME Init PROVE Safety
  OBVIOUS
<1>1. /\ \A r \in Readers : call[r] = NoCall
      /\ \A l \in Levels : LinkedAt(l) = {}
  BY DEF Init, LinkedAt
<1>2. ASSUME NEW m \in stores
      PROVE  \/ m.node = ListObject
             \/ m.node = head_ /\ m.val = nullptr /\ m.t = 0 /\ m.rel
  BY DEF Init, Release_Store, NoBarrier_Store, Message
<1>3. ASSUME NEW l \in Levels PROVE Initialised(stores, head_, l, 0)
  <2> DEFINE m == Release_Store(0, head_, l, nullptr)
  <2>1. m \in stores
    BY Zenon DEF Init
  <2>2. /\ m.node = head_ /\ m.lvl = l /\ m.val = nullptr /\ m.t = 0
    BY DEF Release_Store, Message
  <2>3. nullptr # Garbage /\ head_ # ListObject
    BY DEF nullptr, Garbage, head_, ListObject
  <2> HIDE DEF m
  <2>. QED
    BY <1>2, <2>1, <2>2, <2>3 DEF Initialised
<1>4. \A m \in stores : Leads(m)
  <2>1. nullptr \notin Nodes
    BY DEF nullptr, Nodes
  <2>. QED
    BY <1>2, <2>1 DEF Leads
<1>. QED
  BY <1>1, <1>3, <1>4, Zenon DEF Safety, Publication, Footing

(* New stores keep the invariant if those to nodes on the lists are        *)
(* release stores, and if they lead to what they should.                   *)
LEMMA SafetyGrows ==
    ASSUME TInv, Safety, TInv', UNCHANGED readers,
           NEW new, stores' = stores \cup new,
           now <= now',
           \A l \in Levels : LinkedAt(l) \subseteq LinkedAt(l)',
           \A a \in 1 .. n : born'[a] = born[a],
           \A o \in new : \A l \in Levels :
              o.node \in ListAt(l) /\ o.lvl = l => o.rel /\ o.val # Garbage
    PROVE  /\ \A l \in Levels : Initialised(stores', head_, l, 0)
           /\ \A l \in Levels : \A a \in LinkedAt(l) : Initialised(stores', a, l, now')
           /\ \A m \in stores : Leads(m)'
           /\ \A r \in Readers : Footing(r)'
<1>0. now \in Int /\ now' \in Int /\ \A o \in stores : o.t \in Int
  BY MessageFacts DEF TInv, TypeOK, MemoryTypeOK
<1>1. ASSUME NEW l \in Levels, NEW a \in ListAt(l), NEW v \in Int, NEW w \in Int, v <= w,
             Initialised(stores, a, l, v)
      PROVE  Initialised(stores', a, l, w)
  <2>1. \A o \in new : o.node = a /\ o.lvl = l => o.rel /\ o.val # Garbage
    OBVIOUS
  <2>2. Initialised(stores \cup new, a, l, w)
    BY <1>0, <1>1, <2>1, StillInitialised, Zenon
  <2>. QED
    BY <2>2, Zenon
<1>e. ASSUME NEW l \in Levels, NEW a \in ListAt(l), NEW v \in Int,
             Initialised(stores, a, l, v)
      PROVE  Initialised(stores', a, l, v)
  <2>1. v <= v
    OBVIOUS
  <2>. QED
    BY <1>1, <1>e, <2>1, Zenon
<1>2. ASSUME NEW l \in Levels PROVE Initialised(stores', head_, l, 0)
  <2>1. head_ \in ListAt(l) /\ 0 \in Int
    BY DEF ListAt
  <2>2. Initialised(stores, head_, l, 0)
    BY Zenon DEF Safety, Publication
  <2>. QED
    BY <1>e, <2>1, <2>2, Zenon
<1>3. ASSUME NEW l \in Levels, NEW a \in LinkedAt(l)
      PROVE  Initialised(stores', a, l, now')
  <2>1. a \in ListAt(l)
    BY DEF ListAt
  <2>2. Initialised(stores, a, l, now)
    BY Zenon DEF Safety, Publication
  <2>. QED
    BY <1>0, <1>1, <2>1, <2>2, Zenon
<1>4. ASSUME NEW m \in stores PROVE Leads(m)'
  <2> SUFFICES ASSUME m.node # ListObject, m.val \in Nodes
               PROVE  /\ m.val \in LinkedAt(m.lvl)'
                      /\ born'[m.val] <= m.t
                      /\ \A j \in 0 .. m.lvl : Initialised(stores', m.val, j, m.t)
    BY Zenon DEF Leads, InitialisedTo
  <2>1. /\ m.val \in LinkedAt(m.lvl) /\ born[m.val] <= m.t
        /\ \A j \in 0 .. m.lvl : Initialised(stores, m.val, j, m.t)
    BY Zenon DEF Safety, Publication, Leads, InitialisedTo
  <2>2. m.lvl \in Levels /\ m.t \in Int
    BY MessageFacts, Zenon DEF TInv
  <2>3. m.val \in LinkedAt(m.lvl)' /\ born'[m.val] <= m.t
    BY <2>1, <2>2, Zenon DEF LinkedAt
  <2>4. ASSUME NEW j \in 0 .. m.lvl PROVE Initialised(stores', m.val, j, m.t)
    <3>1. j \in Levels /\ m.val \in ListAt(j)
      BY <2>1, <2>2, Nested, Zenon DEF ListAt
    <3>. QED
      BY <1>e, <2>1, <2>2, <3>1, Zenon
  <2>. QED
    BY <2>3, <2>4, Zenon
<1>5. ASSUME NEW r \in Readers PROVE Footing(r)'
  <2> SUFFICES ASSUME call[r] # NoCall PROVE Footing(r)'
    BY Zenon DEF Footing, readers
  <2>0. PICK a, lv, v : a = at[r].x /\ lv = at[r].level /\ v = view[r]
    BY Zenon
  <2>1. /\ a \in ListAt(lv)
        /\ \A j \in 0 .. lv : Initialised(stores, a, j, v)
    BY <2>0, Zenon DEF Safety, Footing, InitialisedTo
  <2>2. lv \in Levels /\ v \in Int
    <3>1. at[r] \in [x : Nodes \cup {head_}, level : Levels] /\ view[r] \in 0 .. now
      BY Zenon DEF TInv, TypeOK, ReadersTypeOK
    <3>. QED
      BY <1>0, <2>0, <3>1
  <2>3. a \in ListAt(lv)'
    BY <2>1, <2>2, Zenon DEF ListAt
  <2>4. ASSUME NEW j \in 0 .. lv PROVE Initialised(stores', a, j, v)
    <3>1. j \in Levels /\ a \in ListAt(j)
      BY <2>1, <2>2, Nested, Zenon DEF ListAt
    <3>. QED
      BY <1>e, <2>1, <2>2, <3>1, Zenon
  <2>5. at'[r].x = a /\ at'[r].level = lv /\ view'[r] = v
    BY <2>0, Zenon DEF readers
  <2>6. InitialisedTo(stores', a, lv, v)
    BY <2>4, Zenon DEF InitialisedTo
  <2>. QED
    BY <2>3, <2>5, <2>6, Zenon DEF Footing, ListAt, LinkedAt
<1>. QED
  BY <1>2, <1>3, <1>4, <1>5, Zenon

(* NewNode and max_height_ store nothing that a reader on the lists loads  *)
(* as a pointer.                                                           *)
LEMMA SafetyAllocNode ==
    ASSUME TInv, Safety, NEW h \in RandomHeight, AllocNode(h)
    PROVE  Safety'
<1> DEFINE new == (IF h > max_height
                   THEN {NoBarrier_Store(now + 1, ListObject, 0, h)} ELSE {})
                  \cup NewNodeStores(now + 2, n + 1, h)
<1>1. stores' = stores \cup new /\ UNCHANGED readers /\ now' = now + 2
  BY Zenon DEF AllocNode
<1>2. TInv' /\ now \in Nat
  BY TInvAllocNode, Zenon DEF TInv, TypeOK, MemoryTypeOK
<1>3. /\ \A l \in Levels : LinkedAt(l)' = LinkedAt(l) /\ n + 1 \notin ListAt(l)
      /\ \A a \in 1 .. n : born'[a] = born[a]
  BY AllocLists, Zenon
<1>4. ASSUME NEW o \in new
      PROVE  \/ o.node = ListObject
             \/ o.node = n + 1 /\ o.val \notin Nodes
  <2>1. CASE o = NoBarrier_Store(now + 1, ListObject, 0, h)
    BY <2>1, Zenon DEF NoBarrier_Store, Message
  <2>2. CASE o \in NewNodeStores(now + 2, n + 1, h)
    <3>1. PICK l \in 0 .. h - 1 : o = NoBarrier_Store(now + 2, n + 1, l, NewSlots[l])
      BY <2>2 DEF NewNodeStores
    <3>2. l \in Levels
      BY BoundAssumption DEF RandomHeight, Levels
    <3>3. NewSlots[l] \notin Nodes
      BY <3>2 DEF NewSlots, nullptr, Garbage, Nodes
    <3>. QED
      BY <3>1, <3>3, Zenon DEF NoBarrier_Store, Message
  <2>. QED
    BY <2>1, <2>2
<1>5. \A l \in Levels : ListObject \notin ListAt(l)
  BY NodeFacts DEF ListAt, ListObject, head_, Nodes
<1> HIDE DEF new
<1>6. \A o \in new : \A l \in Levels : ~(o.node \in ListAt(l))
  BY <1>3, <1>4, <1>5, Zenon
<1>7. now <= now'
  BY <1>1, <1>2
<1>8. /\ \A l \in Levels : Initialised(stores', head_, l, 0)
      /\ \A l \in Levels : \A a \in LinkedAt(l) : Initialised(stores', a, l, now')
      /\ \A m \in stores : Leads(m)'
      /\ \A r \in Readers : Footing(r)'
  BY <1>1, <1>2, <1>3, <1>6, <1>7, SafetyGrows, Zenon
<1>9. \A m \in new : Leads(m)'
  BY <1>4, Zenon DEF Leads
<1>. QED
  BY <1>1, <1>3, <1>8, <1>9, Zenon DEF Safety, Publication

(* Line 124 initialises the pointer before line 125 publishes the node. *)
LEMMA SafetyLink ==
    ASSUME TInv, Structure, Safety, Link, StoresSuccessor
    PROVE  Safety'
<1>0. PICK p, s, k, m1, m2 :
          /\ p = prev[i] /\ s = next[p][i] /\ k = i
          /\ m1 = NoBarrier_Store(now + 1, n, k, s)
          /\ m2 = Release_Store(now + 2, p, k, n)
  BY Zenon
<1>1. /\ stores' = stores \cup {m1, m2} /\ UNCHANGED readers
      /\ now' = now + 2 /\ n' = n /\ born' = born
  BY <1>0, Zenon DEF Link, LinkStores, SuccessorStore
<1>2. TInv' /\ now \in Nat /\ born[n] <= now
  BY TInvLink, LinkLists DEF TInv, TypeOK, MemoryTypeOK
<1>3. /\ n \in Nodes /\ k \in Levels /\ n \notin ListAt(k)
      /\ p # n /\ s \in LinkedAt(k) \cup {nullptr}
      /\ \A l \in Levels : LinkedAt(l)' =
            IF l = k THEN LinkedAt(l) \cup {n} ELSE LinkedAt(l)
  BY <1>0, LinkLists, Zenon
<1>4. /\ m1.node = n /\ m1.lvl = k /\ m1.val = s /\ m1.t = now + 1
      /\ m2.node = p /\ m2.lvl = k /\ m2.val = n /\ m2.t = now + 2 /\ m2.rel
  BY <1>0, Zenon DEF NoBarrier_Store, Release_Store, Message
<1>5. n # Garbage /\ s # Garbage
  BY <1>3, NodeFacts DEF Garbage, nullptr, Nodes
<1>6. \A o \in {m1, m2} : \A l \in Levels :
          o.node \in ListAt(l) /\ o.lvl = l => o.rel /\ o.val # Garbage
  BY <1>3, <1>4, <1>5, Zenon
<1>7. now <= now' /\ now + 1 \in Int /\ now + 2 \in Int
      /\ now <= now + 1 /\ now <= now + 2 /\ now + 1 <= now + 2 /\ now \in Int
  BY <1>1, <1>2
<1>8. /\ \A l \in Levels : Initialised(stores', head_, l, 0)
      /\ \A l \in Levels : \A a \in LinkedAt(l) : Initialised(stores', a, l, now')
      /\ \A m \in stores : Leads(m)'
      /\ \A r \in Readers : Footing(r)'
  <2>1. \A l \in Levels : LinkedAt(l) \subseteq LinkedAt(l)'
    BY <1>3, Zenon
  <2>2. \A a \in 1 .. n : born'[a] = born[a]
    BY <1>1, Zenon
  <2>3. PICK new : new = {m1, m2}
    BY Zenon
  <2>4. stores' = stores \cup new
    BY <1>1, <2>3
  <2>5. \A o \in new : \A l \in Levels :
            o.node \in ListAt(l) /\ o.lvl = l => o.rel /\ o.val # Garbage
    BY <1>6, <2>3, Zenon
  <2>6. UNCHANGED readers /\ TInv' /\ now <= now'
    BY <1>1, <1>2, <1>7, Zenon
  <2>. QED
    BY <2>1, <2>2, <2>4, <2>5, <2>6, SafetyGrows, Zenon
<1>9. ASSUME NEW w \in Int, now + 1 <= w
      PROVE  Initialised(stores', n, k, w)
  <2>1. m1 \in stores' /\ m1.val # Garbage /\ m1.t <= w
    BY <1>1, <1>4, <1>5, <1>9, Zenon
  <2>2. ASSUME NEW o \in stores', o.node = n, o.lvl = k
        PROVE  o = m1 \/ o.t < m1.t
    <3>1. CASE o \in stores
      <4>1. o.t \in Int /\ o.t <= now
        BY <3>1, MessageFacts, Zenon DEF TInv
      <4>. QED
        BY <1>4, <1>7, <4>1
    <3>2. CASE o \notin stores
      BY <1>1, <1>3, <1>4, <2>2, <3>2, Zenon
    <3>. QED
      BY <3>1, <3>2
  <2>. QED
    BY <1>4, <2>1, <2>2, Zenon DEF Initialised
<1>10. ASSUME NEW l \in Levels, NEW a \in LinkedAt(l), NEW w \in Int, now <= w
       PROVE  Initialised(stores', a, l, w)
  <2>1. \A o \in {m1, m2} : o.node = a /\ o.lvl = l => o.rel /\ o.val # Garbage
    BY <1>6, Zenon DEF ListAt
  <2>2. Initialised(stores, a, l, now)
    BY DEF Safety, Publication
  <2>3. \A o \in stores : o.t \in Int
    BY MessageFacts, Zenon DEF TInv
  <2>4. Initialised(stores \cup {m1, m2}, a, l, w)
    BY <1>7, <1>10, <2>1, <2>2, <2>3, StillInitialised, Zenon
  <2>. QED
    BY <1>1, <2>4
<1>11. Leads(m1)'
  <2> SUFFICES ASSUME s \in Nodes
               PROVE  /\ s \in LinkedAt(k)'
                      /\ born'[s] <= now + 1
                      /\ \A j \in 0 .. k : Initialised(stores', s, j, now + 1)
    BY <1>4, Zenon DEF Leads, InitialisedTo
  <2>1. s \in LinkedAt(k)
    BY <1>3 DEF nullptr, Nodes
  <2>2. s \in LinkedAt(k)'
    BY <1>3, <2>1, Zenon
  <2>3. born'[s] <= now + 1
    <3>1. born[s] \in 0 .. now
      BY Zenon DEF TInv, TypeOK, MemoryTypeOK
    <3>. QED
      BY <1>1, <1>7, <3>1
  <2>4. \A j \in 0 .. k : j \in Levels /\ s \in LinkedAt(j)
    BY <1>3, <2>1, Nested, Zenon
  <2>. QED
    BY <1>7, <1>10, <2>2, <2>3, <2>4, Zenon
<1>12. Leads(m2)'
  <2>1. n \in LinkedAt(k)'
    BY <1>3, Zenon
  <2>2. born'[n] <= now + 2
    <3>1. born[n] \in 0 .. now
      BY <1>3, Zenon DEF TInv, TypeOK, MemoryTypeOK
    <3>. QED
      BY <1>1, <1>7, <3>1
  <2>3. ASSUME NEW j \in 0 .. k PROVE Initialised(stores', n, j, now + 2)
    <3>1. CASE j = k
      BY <1>7, <1>9, <3>1
    <3>2. CASE j # k
      <4>1. j \in Levels /\ LinkedAt(k)' \subseteq LinkedAt(j)'
        <5>1. j \in Levels
          BY <1>3, Nested, Zenon
        <5>2. ASSUME NEW a \in LinkedAt(k)' PROVE a \in LinkedAt(j)'
          <6>1. CASE a \in LinkedAt(k)
            BY <1>3, <5>1, <6>1, Nested
          <6>2. CASE a = n
            <7>1. n \in 1 .. n /\ k < height[n] /\ i = k
              <8>1. n \in Nodes /\ k < height[n] /\ i = k
                BY <1>0, <1>3, Zenon DEF Link, TInv, Control
              <8>. QED
                BY <8>1 DEF Nodes
            <7>2. j < k /\ j \in Int /\ k \in Int /\ height[n] \in Int
              BY <1>3, <3>2, NodeFacts
            <7>3. n \in LinkedAt(j)
              BY <7>1, <7>2 DEF LinkedAt
            <7>. QED
              BY <1>3, <5>1, <6>2, <7>3, Zenon
          <6>. QED
            BY <1>3, <5>2, <6>1, <6>2, Zenon
        <5>. QED
          BY <5>1, <5>2
      <4>2. n \in LinkedAt(j)
        BY <1>3, <2>1, <3>2, <4>1, Zenon
      <4>. QED
        BY <1>7, <1>10, <4>1, <4>2, Zenon
    <3>. QED
      BY <3>1, <3>2, Zenon
  <2>. QED
    BY <1>4, <2>1, <2>2, <2>3, Zenon DEF Leads, InitialisedTo
<1>13. \A l \in Levels : \A a \in LinkedAt(l)' : Initialised(stores', a, l, now')
  <2>1. Initialised(stores', n, k, now')
    BY <1>1, <1>7, <1>9, Zenon
  <2>. QED
    BY <1>3, <1>8, <2>1, Zenon
<1>. QED
  BY <1>1, <1>8, <1>11, <1>12, <1>13, Zenon DEF Safety, Publication

(* What may be read from a level down may be read from the next one. *)
LEMMA OneDown ==
    ASSUME TInv, NEW l \in Levels, l > 0, NEW a \in ListAt(l), NEW v,
           InitialisedTo(stores, a, l, v)
    PROVE  /\ l - 1 \in Levels /\ a \in ListAt(l - 1)
           /\ InitialisedTo(stores, a, l - 1, v)
<1>1. l \in Int /\ l - 1 \in 0 .. l /\ \A j \in 0 .. l - 1 : j \in 0 .. l
  BY BoundAssumption DEF Levels
<1>2. l - 1 \in Levels /\ a \in ListAt(l - 1)
  BY <1>1, Nested, Zenon DEF ListAt
<1>3. InitialisedTo(stores, a, l - 1, v)
  BY <1>1, Zenon DEF InitialisedTo
<1>. QED
  BY <1>2, <1>3

(* A step of a search loads one pointer and moves on, goes down or ends. *)
LEMMA ReadLoads ==
    ASSUME NEW r \in Readers, ReadStep(r)
    PROVE  \E m \in Visible(stores, at[r].x, at[r].level, view[r]) :
              /\ view' = [view EXCEPT ![r] = AcquiredView(view[r], m)]
              /\ IF MovesOn(call[r], m.val)
                 THEN /\ at' = [at EXCEPT ![r].x = m.val]
                      /\ UNCHANGED <<call, answer>>
                 ELSE IF at[r].level > 0
                 THEN /\ at' = [at EXCEPT ![r].level = Below(@)]
                      /\ UNCHANGED <<call, answer>>
                 ELSE /\ answer' = [answer EXCEPT ![r] =
                                       Result(call[r], at[r].x, m.val)]
                      /\ call' = [call EXCEPT ![r] = NoCall]
                      /\ at' = [at EXCEPT ![r] = [x |-> head_, level |-> 0]]
<1>1. PICK ld \in Acquire_Load(stores, at[r].x, at[r].level, view[r]) :
        /\ ld.val # Garbage
        /\ view' = [view EXCEPT ![r] = ld.view]
        /\ IF MovesOn(call[r], ld.val)
           THEN /\ at' = [at EXCEPT ![r].x = ld.val]
                /\ UNCHANGED <<call, answer>>
           ELSE IF at[r].level > 0
           THEN /\ at' = [at EXCEPT ![r].level = Below(@)]
                /\ UNCHANGED <<call, answer>>
           ELSE /\ answer' = [answer EXCEPT ![r] =
                                 Result(call[r], at[r].x, ld.val)]
                /\ call' = [call EXCEPT ![r] = NoCall]
                /\ at' = [at EXCEPT ![r] = [x |-> head_, level |-> 0]]
  BY Zenon DEF ReadStep
<1>2. PICK m \in Visible(stores, at[r].x, at[r].level, view[r]) :
        ld = [val |-> m.val, view |-> AcquiredView(view[r], m)]
  BY Zenon DEF Acquire_Load
<1>3. ld.val = m.val /\ ld.view = AcquiredView(view[r], m)
  BY <1>2, Zenon
<1>. QED
  BY <1>1, <1>3, Zenon

(* A reader starts at head_, or moves to a node that it loaded. *)
LEMMA SafetyRead ==
    ASSUME TInv, Safety, NEW r \in Readers,
           Synchronise(r) \/ (\E c \in Calls : Call(r, c)) \/ ReadStep(r)
    PROVE  Safety'
<1>1. UNCHANGED <<memory, writer>>
  BY Zenon DEF Synchronise, Call, ReadStep
<1>2. Publication' /\ \A l \in Levels : ListAt(l)' = ListAt(l)
  BY <1>1, Zenon DEF Safety, Publication, Leads, LinkedAt, ListAt, memory, writer
<1>3. /\ stores' = stores /\ now \in Int
      /\ \A o \in stores : o.t \in Int
  BY <1>1, MessageFacts DEF memory, TInv, TypeOK, MemoryTypeOK
<1>4. /\ at \in [Readers -> [x : Nodes \cup {head_}, level : Levels]]
      /\ view \in [Readers -> 0 .. now]
      /\ call \in [Readers -> Calls \cup {NoCall}]
  BY Zenon DEF TInv, TypeOK, ReadersTypeOK
<1>5. ASSUME NEW a, NEW l \in Levels, NEW v \in Int, NEW w \in Int, v <= w,
             InitialisedTo(stores, a, l, v)
      PROVE  InitialisedTo(stores, a, l, w)
  <2>1. \A j \in 0 .. l : Initialised(stores \cup {}, a, j, w)
    <3> SUFFICES ASSUME NEW j \in 0 .. l PROVE Initialised(stores \cup {}, a, j, w)
      BY Zenon
    <3>1. Initialised(stores, a, j, v)
      BY <1>5, Zenon DEF InitialisedTo
    <3>. QED
      BY <1>3, <1>5, <3>1, StillInitialised, ZenonT(60)
  <2>2. stores \cup {} = stores
    OBVIOUS
  <2>. QED
    BY <2>1, <2>2 DEF InitialisedTo
<1>6. ASSUME NEW q \in Readers, q # r PROVE Footing(q)'
  <2>1. Footing(q)
    BY DEF Safety
  <2>2. call'[q] = call[q] /\ at'[q] = at[q] /\ view'[q] = view[q]
    BY <1>4, <1>6 DEF Synchronise, Call, ReadStep
  <2>3. ListAt(at[q].level)' = ListAt(at[q].level)
    BY <1>1, <2>2, Zenon DEF ListAt, LinkedAt, memory, writer
  <2>. QED
    BY <1>3, <2>1, <2>2, <2>3, Zenon DEF Footing
<1>7. CASE Synchronise(r)
  BY <1>2, <1>4, <1>6, <1>7, Zenon DEF Synchronise, Safety, Footing
<1>8. ASSUME NEW c \in Calls, Call(r, c) PROVE Footing(r)'
  <2>1. PICK h \in 1 .. kMaxHeight : at' = [at EXCEPT ![r] = [x |-> head_, level |-> h - 1]]
    BY <1>8, LoadTypes, Zenon DEF Call, TopLevel, TInv
  <2>2. at'[r].x = head_ /\ at'[r].level = h - 1 /\ view'[r] = view[r]
    BY <1>4, <1>8, <2>1, Zenon DEF Call
  <2>3. h - 1 \in Levels /\ view[r] \in Int /\ 0 <= view[r]
    BY <1>3, <1>4, BoundAssumption DEF Levels
  <2>4. InitialisedTo(stores, head_, h - 1, 0)
    <3>1. \A j \in 0 .. h - 1 : j \in Levels
      BY <2>3, Nested, Zenon
    <3>. QED
      BY <3>1, Zenon DEF Safety, Publication, InitialisedTo
  <2>5. InitialisedTo(stores, head_, h - 1, view[r])
    BY <1>5, <2>3, <2>4
  <2>. QED
    BY <1>3, <2>2, <2>5, Zenon DEF Footing, ListAt
<1>9. ASSUME ReadStep(r) PROVE Footing(r)'
  <2>1. call[r] # NoCall /\ Footing(r)
    BY <1>9, Zenon DEF ReadStep, Safety
  <2>2. PICK m \in Visible(stores, at[r].x, at[r].level, view[r]) :
          /\ view' = [view EXCEPT ![r] = AcquiredView(view[r], m)]
          /\ IF MovesOn(call[r], m.val)
             THEN at' = [at EXCEPT ![r].x = m.val] /\ call' = call
             ELSE IF at[r].level > 0
             THEN at' = [at EXCEPT ![r].level = Below(@)] /\ call' = call
             ELSE call' = [call EXCEPT ![r] = NoCall]
    BY <1>9, ReadLoads, Zenon
  <2>3. PICK here, depth, seen, sees : /\ here = at[r].x /\ depth = at[r].level
                           /\ seen = view[r] /\ sees = AcquiredView(view[r], m)
    BY Zenon
  <2>4. /\ m \in stores /\ m.node # ListObject /\ m.lvl = depth
        /\ m.val # Garbage /\ sees \in Int /\ seen <= sees /\ m.t <= sees
    BY <2>1, <2>3, GoodLoad, Zenon
  <2>5. /\ here \in ListAt(depth) /\ InitialisedTo(stores, here, depth, seen)
        /\ depth \in Levels /\ seen \in Int /\ view'[r] = sees
    <3>1. at[r].level \in Levels /\ view[r] \in Int
      BY <1>3, <1>4
    <3>. QED
      BY <1>4, <2>1, <2>2, <2>3, <3>1, Zenon DEF Footing
  <2>6. CASE MovesOn(call[r], m.val)
    <3>1. at'[r].x = m.val /\ at'[r].level = depth
      BY <1>4, <2>2, <2>3, <2>6
    <3>2. m.val \in Nodes
      <4>1. m.val \in Pointer /\ m.val # nullptr
        BY <2>4, <2>6, MessageFacts, Zenon DEF TInv, MovesOn, KeyIsAfterNode
      <4>. QED
        BY <2>4, <4>1, Zenon DEF Pointer
    <3>3. m.val \in LinkedAt(depth) /\ InitialisedTo(stores, m.val, depth, m.t) /\ m.t \in Int
      BY <1>3, <2>4, <3>2, Zenon DEF Safety, Publication, Leads
    <3>4. InitialisedTo(stores, m.val, depth, sees)
      BY <1>5, <2>4, <2>5, <3>3, Zenon
    <3>5. m.val \in ListAt(depth)'
      BY <1>2, <2>5, <3>3, Zenon DEF ListAt
    <3>. QED
      BY <1>3, <2>5, <3>1, <3>4, <3>5, Zenon DEF Footing, ListAt, LinkedAt
  <2>7. CASE ~MovesOn(call[r], m.val) /\ depth > 0
    <3>1. at'[r].x = here /\ at'[r].level = depth - 1
      BY <1>4, <2>2, <2>3, <2>7 DEF Below
    <3>2. /\ depth - 1 \in Levels /\ here \in ListAt(depth - 1)
          /\ InitialisedTo(stores, here, depth - 1, seen)
      BY <2>5, <2>7, OneDown, Zenon
    <3>3. InitialisedTo(stores, here, depth - 1, sees)
      BY <1>5, <2>4, <2>5, <3>2, Zenon
    <3>4. here \in ListAt(depth - 1)'
      BY <1>2, <3>2, Zenon
    <3>. QED
      BY <1>3, <2>5, <3>1, <3>3, <3>4, Zenon DEF Footing, ListAt, LinkedAt
  <2>8. CASE ~MovesOn(call[r], m.val) /\ ~(depth > 0)
    BY <1>4, <2>2, <2>3, <2>8, Zenon DEF Footing
  <2>. QED
    BY <2>6, <2>7, <2>8, Zenon
<1>. QED
  BY <1>2, <1>6, <1>7, <1>8, <1>9, Zenon DEF Safety

(* Every step keeps the invariant of the readers. *)
LEMMA SafetyNext ==
    ASSUME TInv, Structure, Safety, [Next]_vars, StoresSuccessor
    PROVE  Safety'
<1>1. CASE UNCHANGED vars
  BY <1>1, Zenon DEF vars, memory, writer, readers, Safety, Publication, Leads,
              Footing, LinkedAt, ListAt
<1>2. CASE SearchStep \/ \E k \in Key : BeginInsert(k)
  <2>1. UNCHANGED <<memory, readers>> /\ pc # "link" /\ pc' # "link"
    BY <1>2, Zenon DEF SearchStep, BeginInsert
  <2>2. \A l : LinkedAt(l)' = LinkedAt(l)
    BY <2>1, Zenon DEF LinkedAt, memory
  <2>. QED
    BY <2>1, <2>2, Zenon DEF memory, readers, Safety, Publication, Leads, Footing, LinkedAt, ListAt
<1>. QED
  BY <1>1, <1>2, SafetyAllocNode, SafetyLink, SafetyRead, Zenon DEF Next, InsertStep

(* The invariant of lists and readers, with the successor stored on line   *)
(* 124.                                                                    *)
LEMMA SafetyInvariant ==
    ASSUME StoresSuccessor
    PROVE  Spec => [](TInv /\ Structure /\ Safety)
<1>1. Init => TInv /\ Structure /\ Safety
  BY TInvInit, StructureInit, SafetyInit
<1>2. TInv /\ Structure /\ Safety /\ [Next]_vars => (TInv /\ Structure /\ Safety)'
  BY TInvNext, StructureNext, SafetyNext
<1>. QED
  BY <1>1, <1>2, PTL DEF Spec

(* Readers without locks are safe, for any number of them and however late *)
(* stores reach them: no load returns an uninitialised pointer or a node   *)
(* whose constructor may still be running.                                 *)
THEOREM SafeReads ==
    ASSUME StoresSuccessor
    PROVE  Spec => []LoadsAreSafe
BY SafetyInvariant, SafetyMeansSafe, PTL

(* Neither a stale max_height_ nor a leftover prev_ takes Insert or a      *)
(* reader past the end of a next_ array.                                   *)
THEOREM InBounds ==
    ASSUME StoresSuccessor
    PROVE  Spec => []AccessesInBounds
<1>1. TInv /\ Structure /\ Safety => AccessesInBounds
  <2> SUFFICES ASSUME TInv, Structure, Safety PROVE AccessesInBounds
    OBVIOUS
  <2>1. \A l, a : a \in ListAt(l) => a = head_ \/ height[a] > l
    BY Zenon DEF ListAt, LinkedAt
  <2>2. \A a \in Nodes : height[a] \in Int
    BY NodeFacts
  <2>3. \A l \in Levels : l \in Int /\ \A a \in ListAt(l) : a = head_ \/ l < height[a]
    BY <2>1, <2>2, NodeFacts, Zenon DEF ListAt
  <2>4. level \in Levels /\ i \in Levels
    BY DEF TInv, TypeOK, WriterTypeOK
  <2>5. \A r \in Readers : at[r].level \in Levels
    <3>1. at \in [Readers -> [x : Nodes \cup {head_}, level : Levels]]
      BY Zenon DEF TInv, TypeOK, ReadersTypeOK
    <3>. QED
      BY <3>1
  <2>6. \A r \in Readers : call[r] # NoCall => at[r].x \in ListAt(at[r].level)
    BY Zenon DEF Safety, Footing
  <2>7. pc = "search" => x \in ListAt(level)
    BY Zenon DEF Structure, Passed
  <2>8. prev[i] \in ListAt(i)
    BY <2>4, Zenon DEF Structure, PrevLinked
  <2>. QED
    BY <2>3, <2>4, <2>5, <2>6, <2>7, <2>8, Zenon DEF AccessesInBounds
<1>. QED
  BY <1>1, SafetyInvariant, PTL

-----------------------------------------------------------------------------
(***************************************************************************)
(* SkipList implements KeyHistory.                                         *)
(***************************************************************************)

(* Before t ended, a store put node a into the bottom list. *)
Published(a, t) ==
    \E m \in stores : m.node # ListObject /\ m.lvl = 0 /\ m.val = a /\ m.t <= t

(* The store to a bottom pointer that was the last one when v ended. *)
Newest(m, v) ==
    /\ m.node # ListObject /\ m.lvl = 0 /\ m.t <= v
    /\ \A o \in stores : o.node = m.node /\ o.lvl = 0 /\ o.t <= v => o.t <= m.t

(* A pointer with this value is right in a bottom list of the nodes L. *)
Successor(a, s, L) ==
    /\ s # nullptr => s \in L /\ Before(a, s)
    /\ \A b \in L : Before(a, b) => s # nullptr /\ (s = b \/ Before(s, b))

(* The bottom list as it was when v ended was sorted and complete. *)
SortedWithin(v) ==
    \A m \in stores : Newest(m, v) /\ m.node \in LinkedWithin(v) \cup {head_} =>
        Successor(m.node, m.val, LinkedWithin(v))

(* It had the nodes of a prefix of the inserts. *)
PrefixWithin(v) == \E k \in Nat : LinkedWithin(v) = 1 .. k

(* The messages tell the past of the bottom list, and its present. *)
Chronicle ==
    /\ \A m \in stores : m.node # ListObject /\ m.val \in Nodes => Published(m.val, m.t)
    /\ \A a \in Linked : Published(a, now)
    /\ \A m \in stores :
          Newest(m, now) /\ m.node \in Linked \cup {head_} => m.val = next[m.node][0]

History == \A v \in 0 .. now : SortedWithin(v) /\ PrefixWithin(v)

(* A reader stands on a node of its own past, before the key it seeks. *)
Stands(r) == call[r] # NoCall /\ at[r].x # head_ =>
    /\ at[r].x \in LinkedWithin(view[r])
    /\ call[r].op # "FindLast" => key[at[r].x] < call[r].key

Past == Chronicle /\ History /\ \A r \in Readers : Stands(r)

-----------------------------------------------------------------------------
(* The linked nodes are the first ones: all, or all but the one that       *)
(* Insert is about to link.                                                *)
LEMMA LinkedIsPrefix ==
    ASSUME TInv
    PROVE  Linked = 1 .. (IF pc = "link" /\ i = 0 THEN n - 1 ELSE n)
<1>1. /\ n \in Nat /\ i \in Nat
      /\ \A a \in 1 .. n : height[a] > 0
  BY BoundAssumption DEF TInv, TypeOK, MemoryTypeOK, WriterTypeOK, Levels, Control
<1>2. Linked = {a \in 1 .. n : ~(pc = "link" /\ a = n /\ i = 0)}
  BY <1>1 DEF Linked, LinkedAt
<1>. QED
  BY <1>1, <1>2

(* A node is in a reader's past when a store inside the view points to it. *)
Recorded == \A v : LinkedWithin(v) = {a \in Nodes : Published(a, v)}

(* Every pointer in memory leads to a linked node. *)
LEMMA Within == TInv /\ Safety => Recorded
<1> SUFFICES ASSUME TInv, Safety PROVE Recorded
  OBVIOUS
<1>1. Linked \subseteq Nodes
  BY NodeFacts, Zenon DEF Linked
<1>2. ASSUME NEW a \in Nodes, NEW v, Published(a, v) PROVE a \in Linked
  <2>1. PICK m \in stores : m.node # ListObject /\ m.lvl = 0 /\ m.val = a
    BY <1>2, Zenon DEF Published
  <2>. QED
    BY <2>1, Zenon DEF Safety, Publication, Leads, Linked
<1>3. \A v : LinkedWithin(v) = {a \in Linked : Published(a, v)}
  BY Zenon DEF LinkedWithin, Published
<1>. QED
  BY <1>1, <1>2, <1>3, Zenon DEF Recorded

(* The same after a step. *)
LEMMA WithinNext == (TInv /\ Safety)' => Recorded'
BY Within, PTL

(* The past only grows. *)
LEMMA WithinGrows ==
    ASSUME TInv, NEW v \in Int, NEW w \in Int, v <= w
    PROVE  LinkedWithin(v) \subseteq LinkedWithin(w)
<1>1. \A m \in stores : m.t <= v => m.t <= w
  BY MessageFacts DEF TInv
<1>. QED
  BY <1>1, Zenon DEF LinkedWithin

(* What the messages say of the present is what memory holds. *)
Remembered == LinkedWithin(now) = Linked /\ SortedWithin(now) /\ PrefixWithin(now)

(* The newest messages describe a list that is sorted and a prefix. *)
LEMMA Present == TInv /\ Structure /\ Chronicle => Remembered
<1> SUFFICES ASSUME TInv, Structure, Chronicle PROVE Remembered
  OBVIOUS
<1>1. n \in Nat
  BY BoundAssumption DEF TInv, TypeOK, MemoryTypeOK
<1>2. LinkedWithin(now) = Linked
  BY Zenon DEF LinkedWithin, Chronicle, Published
<1>3. SortedWithin(now)
  <2> SUFFICES ASSUME NEW m \in stores, Newest(m, now), m.node \in Linked \cup {head_}
               PROVE  Successor(m.node, m.val, Linked)
    BY <1>2, Zenon DEF SortedWithin
  <2>1. m.val = next[m.node][0]
    BY Zenon DEF Chronicle
  <2>. QED
    BY <2>1, Zenon DEF Successor, Structure, BottomListSorted
<1>4. \E k \in Nat : Linked = 1 .. k
  <2>1. pc = "link" => n - 1 \in Nat
    BY <1>1 DEF TInv, Control, Nodes
  <2>. QED
    BY <1>1, <2>1, LinkedIsPrefix, Zenon
<1>. QED
  BY <1>2, <1>3, <1>4, Zenon DEF PrefixWithin, Remembered

(* The same after a step. *)
LEMMA PresentNext == (TInv /\ Structure /\ Chronicle)' => Remembered'
BY Present, PTL

(* The history begins with the empty list. *)
LEMMA PastInit == Init => Past
<1> SUFFICES ASSUME Init PROVE Past
  OBVIOUS
<1>1. TInv /\ Structure /\ Safety
  BY TInvInit, StructureInit, SafetyInit
<1>2. Linked = {} /\ now = 0 /\ 0 .. now = {now}
  BY DEF Init, Linked, LinkedAt
<1>3. ASSUME NEW m \in stores, m.node # ListObject
      PROVE  m.node = head_ /\ m.val = nullptr
  <2>1. \/ \E l \in Levels : m = Release_Store(0, head_, l, nullptr)
        \/ m = NoBarrier_Store(0, ListObject, 0, 1)
    BY <1>3, Zenon DEF Init
  <2>. QED
    BY <1>3, <2>1 DEF Release_Store, NoBarrier_Store, Message
<1>4. next[head_][0] = nullptr /\ nullptr \notin Nodes
  BY BoundAssumption DEF Init, Levels, nullptr, Nodes
<1>5. Chronicle
  BY <1>2, <1>3, <1>4, Zenon DEF Chronicle, Newest
<1>6. History
  BY <1>1, <1>2, <1>5, Present, Zenon DEF History, Remembered
<1>7. \A r \in Readers : Stands(r)
  BY Zenon DEF Init, Stands
<1>. QED
  BY <1>5, <1>6, <1>7 DEF Past

-----------------------------------------------------------------------------
(* A step leaves the past up to v as it was up to u if no message came     *)
(* between and no new store concerns the bottom list of that time.         *)
LEMMA WindowKept ==
    ASSUME TInv, Safety, (TInv /\ Safety)',
           NEW new, stores' = stores \cup new,
           \A a \in Linked : key'[a] = key[a],
           NEW u, NEW v, \A m \in stores : m.t <= u <=> m.t <= v,
           \A o \in new : o.t <= v /\ o.node # ListObject /\ o.lvl = 0 =>
              o.node \notin Linked \cup {head_} /\ (o.val \in Nodes => Published(o.val, u))
    PROVE  /\ LinkedWithin(v)' = LinkedWithin(u)
           /\ SortedWithin(u) => SortedWithin(v)'
           /\ PrefixWithin(u) => PrefixWithin(v)'
<1>1. LinkedWithin(u) = {a \in Nodes : Published(a, u)}
  BY Within, Zenon DEF Recorded
<1>3. LinkedWithin(v)' = {a \in Nodes : Published(a, v)'}
  BY WithinNext, Zenon DEF Recorded
<1>4. ASSUME NEW a \in Nodes PROVE Published(a, v)' <=> Published(a, u)
  <2>1. ASSUME Published(a, u) PROVE Published(a, v)'
    BY <2>1, Zenon DEF Published
  <2>2. ASSUME Published(a, v)' PROVE Published(a, u)
    <3>1. PICK m \in stores \cup new :
            m.node # ListObject /\ m.lvl = 0 /\ m.val = a /\ m.t <= v
      BY <2>2, Zenon DEF Published
    <3>2. CASE m \in stores
      BY <3>1, <3>2, Zenon DEF Published
    <3>3. CASE m \in new
      BY <3>1, <3>3, Zenon
    <3>. QED
      BY <3>2, <3>3, Zenon
  <2>. QED
    BY <2>1, <2>2
<1>5. LinkedWithin(v)' = LinkedWithin(u)
  BY <1>1, <1>3, <1>4, Zenon
<1>6. LinkedWithin(u) \subseteq Linked
  BY Zenon DEF LinkedWithin
<1>7. ASSUME SortedWithin(u) PROVE SortedWithin(v)'
  <2>0. PICK L : L = LinkedWithin(u)
    BY Zenon
  <2> SUFFICES ASSUME NEW m \in stores', Newest(m, v)', m.node \in L \cup {head_}
               PROVE  Successor(m.node, m.val, L)'
    BY <1>5, <2>0, Zenon DEF SortedWithin
  <2>1. m \in stores
    BY <1>6, <2>0, Zenon DEF Newest
  <2>2. Newest(m, u)
    BY <2>1, Zenon DEF Newest
  <2>3. Successor(m.node, m.val, L)
    BY <1>7, <2>0, <2>1, <2>2, Zenon DEF SortedWithin
  <2>4. ASSUME NEW a \in L \cup {head_}, NEW b \in L
        PROVE  Before(a, b)' <=> Before(a, b)
    BY <1>6, <2>0, Zenon DEF Before
  <2>5. ASSUME m.val # nullptr PROVE m.val \in L /\ Before(m.node, m.val)'
    BY <2>3, <2>4, <2>5, Zenon DEF Successor
  <2>6. ASSUME NEW b \in L, Before(m.node, b)'
        PROVE  m.val # nullptr /\ (m.val = b \/ Before(m.val, b)')
    BY <2>3, <2>4, <2>6, Zenon DEF Successor
  <2>. QED
    BY <2>5, <2>6, Zenon DEF Successor
<1>8. ASSUME PrefixWithin(u) PROVE PrefixWithin(v)'
  BY <1>5, <1>8, Zenon DEF PrefixWithin
<1>. QED
  BY <1>5, <1>7, <1>8

(* What was published stays published. *)
LEMMA PublishedGrows ==
    ASSUME TInv, stores \subseteq stores', NEW a, NEW t \in Int, NEW u \in Int, t <= u,
           Published(a, t)
    PROVE  Published(a, u)'
<1>1. PICK m \in stores : m.node # ListObject /\ m.lvl = 0 /\ m.val = a /\ m.t <= t
  BY Zenon DEF Published
<1>2. m.t <= u
  BY <1>1, MessageFacts DEF TInv
<1>. QED
  BY <1>1, <1>2, Zenon DEF Published

(* A step of Insert leaves the past alone: what it stores first concerns   *)
(* no node that readers know, and what it stores last makes the present.   *)
LEMMA HistoryGrows ==
    ASSUME TInv, Structure, Safety, Chronicle, History,
           (TInv /\ Structure /\ Safety /\ Chronicle)',
           NEW new, stores' = stores \cup new, now' = now + 2,
           \A a \in Linked : key'[a] = key[a],
           \A o \in new : o.t \in Int /\ now < o.t,
           \A o \in new : o.t <= now + 1 /\ o.node # ListObject /\ o.lvl = 0 =>
              o.node \notin Linked \cup {head_} /\ (o.val \in Nodes => Published(o.val, now))
    PROVE  History' /\ \A v \in 0 .. now : LinkedWithin(v)' = LinkedWithin(v)
<1>1. now \in Nat /\ \A m \in stores : m.t \in Int /\ m.t <= now
  BY MessageFacts DEF TInv, TypeOK, MemoryTypeOK
<1>2. ASSUME NEW v \in 0 .. now
      PROVE  LinkedWithin(v)' = LinkedWithin(v) /\ SortedWithin(v)' /\ PrefixWithin(v)'
  <2>1. \A o \in new : ~(o.t <= v)
    BY <1>1
  <2>2. SortedWithin(v) /\ PrefixWithin(v)
    BY Zenon DEF History
  <2>. QED
    BY <2>1, <2>2, WindowKept, Zenon
<1>3. ASSUME NEW v, v = now + 1 PROVE SortedWithin(v)' /\ PrefixWithin(v)'
  <2>1. PICK u : u = now
    BY Zenon
  <2>2. \A m \in stores : m.t <= u <=> m.t <= v
    BY <1>1, <1>3, <2>1
  <2>3. SortedWithin(u) /\ PrefixWithin(u)
    BY <2>1, Present, Zenon DEF Remembered
  <2>. QED
    BY <1>3, <2>1, <2>2, <2>3, WindowKept, Zenon
<1>4. ASSUME NEW v, v = now' PROVE SortedWithin(v)' /\ PrefixWithin(v)'
  BY <1>4, PresentNext, Zenon DEF Remembered
<1>5. \A v \in 0 .. now' : v \in 0 .. now \/ v = now + 1 \/ v = now'
  BY <1>1
<1>6. History'
  BY <1>2, <1>3, <1>4, <1>5, Zenon DEF History
<1>. QED
  BY <1>2, <1>6, Zenon

(* NewNode and max_height_ store no pointer to a node and into no node of  *)
(* the list.                                                               *)
LEMMA PastAllocNode ==
    ASSUME TInv, Structure, Safety, Past, (TInv /\ Structure /\ Safety)',
           NEW h \in RandomHeight, AllocNode(h)
    PROVE  /\ Chronicle' /\ History' /\ Linked' = Linked
           /\ \A v \in 0 .. now : LinkedWithin(v)' = LinkedWithin(v)
           /\ \A a \in Linked : key'[a] = key[a]
<1> DEFINE new == (IF h > max_height
                   THEN {NoBarrier_Store(now + 1, ListObject, 0, h)} ELSE {})
                  \cup NewNodeStores(now + 2, n + 1, h)
<1>1. stores' = stores \cup new /\ now' = now + 2
  BY Zenon DEF AllocNode
<1>2. now \in Nat /\ \A m \in stores : m.t \in Int /\ m.t <= now
  BY MessageFacts DEF TInv, TypeOK, MemoryTypeOK
<1>3. /\ 0 \in Levels /\ Linked' = Linked /\ n + 1 \notin Linked \cup {head_}
      /\ Linked \subseteq 1 .. n
      /\ \A a \in Linked : key'[a] = key[a]
  BY AllocLists, NodeFacts, Zenon DEF Linked, LinkedAt, ListAt
<1>4. ASSUME NEW o \in new
      PROVE  /\ o.t = now + 1 \/ o.t = now + 2
             /\ o.node = ListObject \/ (o.node = n + 1 /\ o.val \notin Nodes)
  <2>1. CASE o = NoBarrier_Store(now + 1, ListObject, 0, h)
    BY <2>1, Zenon DEF NoBarrier_Store, Message
  <2>2. CASE o \in NewNodeStores(now + 2, n + 1, h)
    <3>1. PICK l \in 0 .. h - 1 : o = NoBarrier_Store(now + 2, n + 1, l, NewSlots[l])
      BY <2>2 DEF NewNodeStores
    <3>2. l \in Levels
      BY BoundAssumption DEF RandomHeight, Levels
    <3>3. NewSlots[l] \notin Nodes
      BY <3>2 DEF NewSlots, nullptr, Garbage, Nodes
    <3>. QED
      BY <3>1, <3>3, Zenon DEF NoBarrier_Store, Message
  <2>. QED
    BY <2>1, <2>2
<1> HIDE DEF new
<1>5. \A o \in new : o.t \in Int /\ now < o.t
  BY <1>2, <1>4
<1>6. /\ \A m \in stores : m.t <= m.t /\ m.t <= now'
      /\ now \in Int /\ now' \in Int /\ now <= now'
  BY <1>1, <1>2
<1>7. Chronicle'
  <2>1. ASSUME NEW m \in stores', m.node # ListObject, m.val \in Nodes
        PROVE  Published(m.val, m.t)'
    <3>1. m \in stores
      BY <1>1, <1>4, <2>1, Zenon
    <3>2. Published(m.val, m.t)
      BY <2>1, <3>1, Zenon DEF Past, Chronicle
    <3>. QED
      BY <1>1, <1>2, <1>6, <3>1, <3>2, PublishedGrows, Zenon
  <2>2. ASSUME NEW a \in Linked' PROVE Published(a, now)'
    <3>1. Published(a, now)
      BY <1>3, Zenon DEF Past, Chronicle
    <3>2. PICK t : t = now'
      BY Zenon
    <3>3. Published(a, t)'
      BY <1>1, <1>6, <3>1, <3>2, PublishedGrows, Zenon
    <3>. QED
      BY <3>2, <3>3, Zenon
  <2>3. ASSUME NEW m \in stores', Newest(m, now)', m.node \in Linked' \cup {head_}
        PROVE  m.val = next'[m.node][0]
    <3>1. m \in stores
      <4>1. ListObject \notin Linked \cup {head_}
        BY <1>3, LinkedIsPrefix DEF ListObject, head_
      <4>. QED
        BY <1>1, <1>3, <1>4, <2>3, <4>1, Zenon
    <3>2. Newest(m, now)
      BY <1>1, <1>2, <1>6, <2>3, <3>1, Zenon DEF Newest
    <3>3. m.val = next[m.node][0]
      BY <1>3, <2>3, <3>1, <3>2, Zenon DEF Past, Chronicle
    <3>4. m.node \in Nodes \cup {head_} /\ m.node # n + 1
      BY <1>3, <2>3, NodeFacts, Zenon DEF Linked
    <3>5. next'[m.node] = next[m.node]
      BY <3>4, Zenon DEF AllocNode, TInv, TypeOK, MemoryTypeOK
    <3>. QED
      BY <3>3, <3>5, Zenon
  <2>. QED
    BY <2>1, <2>2, <2>3, Zenon DEF Chronicle
<1>8. History' /\ \A v \in 0 .. now : LinkedWithin(v)' = LinkedWithin(v)
  BY <1>1, <1>3, <1>4, <1>5, <1>7, HistoryGrows, Zenon DEF Past
<1>. QED
  BY <1>3, <1>7, <1>8, Zenon

(* Line 124 writes into a node that no reader knows on that level; line    *)
(* 125 makes it the present.                                               *)
LEMMA PastLink ==
    ASSUME TInv, Structure, Safety, Past, (TInv /\ Structure /\ Safety)',
           Link, StoresSuccessor
    PROVE  /\ Chronicle' /\ History'
           /\ Linked' = IF i = 0 THEN Linked \cup {n} ELSE Linked
           /\ \A v \in 0 .. now : LinkedWithin(v)' = LinkedWithin(v)
<1>0. PICK p, s, k, m1, m2 :
          /\ p = prev[i] /\ s = next[p][i] /\ k = i
          /\ m1 = NoBarrier_Store(now + 1, n, k, s)
          /\ m2 = Release_Store(now + 2, p, k, n)
  BY Zenon
<1>1. stores' = stores \cup {m1, m2} /\ now' = now + 2 /\ key' = key /\ n' = n
  BY <1>0, Zenon DEF Link, LinkStores, SuccessorStore
<1>2. /\ now \in Nat /\ now \in Int /\ now' \in Int /\ now <= now'
      /\ now + 1 \in Int /\ now + 2 \in Int /\ now < now + 1 /\ now < now + 2
      /\ now <= now + 1 /\ ~(now + 2 <= now + 1)
      /\ \A m \in stores : m.t \in Int /\ m.t <= now /\ m.t <= m.t /\ m.t <= now'
                           /\ ~(now + 1 <= m.t) /\ ~(now + 2 <= m.t)
  BY <1>1, MessageFacts DEF TInv, TypeOK, MemoryTypeOK
<1>3. /\ n \in Nodes /\ k \in Levels /\ n \notin ListAt(k)
      /\ p # n /\ p \in ListAt(k) /\ s \in LinkedAt(k) \cup {nullptr}
      /\ \A l \in Levels : LinkedAt(l)' =
            IF l = k THEN LinkedAt(l) \cup {n} ELSE LinkedAt(l)
      /\ \A l \in Levels, a \in Nodes \cup {head_} : next'[a][l] =
            IF l = k /\ a = p THEN n
            ELSE IF l = k /\ a = n THEN s
            ELSE next[a][l]
  BY <1>0, LinkLists, Zenon
<1>4. /\ m1.node = n /\ m1.lvl = k /\ m1.val = s /\ m1.t = now + 1
      /\ m2.node = p /\ m2.lvl = k /\ m2.val = n /\ m2.t = now + 2
  BY <1>0, Zenon DEF NoBarrier_Store, Release_Store, Message
<1>5. /\ 0 \in Levels /\ Linked \subseteq Nodes /\ LinkedAt(k) \subseteq Linked
      /\ p # ListObject /\ n # ListObject /\ nullptr \notin Nodes
  <2>1. 0 \in Levels /\ Linked \subseteq Nodes /\ p \in Nodes \cup {head_}
    BY <1>3, NodeFacts, Zenon DEF Linked, ListAt
  <2>2. 0 \in 0 .. k
    BY <1>3, BoundAssumption DEF Levels
  <2>3. LinkedAt(k) \subseteq Linked
    BY <1>3, <2>2, Nested, Zenon DEF Linked
  <2>4. p # ListObject /\ n # ListObject /\ nullptr \notin Nodes
    BY <1>3, <2>1 DEF Nodes, head_, ListObject, nullptr
  <2>. QED
    BY <2>1, <2>3, <2>4
<1>6. Linked' = IF k = 0 THEN Linked \cup {n} ELSE Linked
  BY <1>3, <1>5, Zenon DEF Linked
<1>7. k # 0 => n \in Linked
  <2>1. Linked = 1 .. (IF pc = "link" /\ i = 0 THEN n - 1 ELSE n)
    BY LinkedIsPrefix, Zenon
  <2>2. n \in 1 .. n
    BY <1>3 DEF Nodes
  <2>. QED
    BY <1>0, <2>1, <2>2, Zenon
<1>8. ASSUME NEW a \in Linked, NEW t \in Int, now <= t PROVE Published(a, t)'
  <2>1. Published(a, now)
    BY Zenon DEF Past, Chronicle
  <2>. QED
    BY <1>1, <1>2, <1>8, <2>1, PublishedGrows, Zenon
<1>9. ASSUME NEW t, t = now + 2 PROVE Published(n, t)'
  <2>1. CASE k = 0
    <3>1. m2.t <= t
      BY <1>2, <1>4, <1>9
    <3>. QED
      BY <1>1, <1>4, <1>5, <2>1, <3>1, Zenon DEF Published
  <2>2. CASE k # 0
    <3>1. t \in Int /\ now <= t
      BY <1>2, <1>9
    <3>2. PICK a : a = n
      BY Zenon
    <3>. QED
      BY <1>1, <1>7, <1>8, <2>2, <3>1, <3>2, Zenon
  <2>. QED
    BY <2>1, <2>2, Zenon
<1>10. ASSUME NEW m \in stores', m.node # ListObject, m.val \in Nodes
       PROVE  Published(m.val, m.t)'
  <2>1. CASE m \in stores
    <3>1. Published(m.val, m.t)
      BY <1>10, <2>1, Zenon DEF Past, Chronicle
    <3>. QED
      BY <1>1, <1>2, <2>1, <3>1, PublishedGrows, Zenon
  <2>2. CASE m = m1
    <3>1. s \in Linked
      BY <1>3, <1>4, <1>5, <1>10, <2>2, Zenon
    <3>. QED
      BY <1>2, <1>4, <1>8, <2>2, <3>1, Zenon
  <2>3. CASE m = m2
    <3>1. Published(n, m.t)'
      BY <1>4, <1>9, <2>3, Zenon
    <3>. QED
      BY <1>1, <1>4, <2>3, <3>1, Zenon
  <2>. QED
    BY <1>1, <2>1, <2>2, <2>3, Zenon
<1>11. ASSUME NEW a \in Linked' PROVE Published(a, now)'
  <2>1. PICK t : t = now'
    BY Zenon
  <2>2. CASE a \in Linked
    BY <1>2, <1>8, <2>1, <2>2, Zenon
  <2>3. CASE a = n
    <3>1. Published(n, t)'
      BY <1>1, <1>9, <2>1, Zenon
    <3>. QED
      BY <1>1, <2>1, <2>3, <3>1, Zenon
  <2>. QED
    BY <1>6, <2>2, <2>3, Zenon
<1>12. ASSUME NEW m \in stores', Newest(m, now)', m.node \in Linked' \cup {head_}
       PROVE  m.val = next'[m.node][0]
  <2>0. /\ m.lvl = 0 /\ m.node \in Nodes \cup {head_} /\ m.node # ListObject
        /\ \A o \in stores' : o.node = m.node /\ o.lvl = 0 /\ o.t <= now' => o.t <= m.t
    BY <1>3, <1>5, <1>6, <1>12, Zenon DEF Newest
  <2>1. CASE k = 0 /\ m.node = n
    <3>1. m1.t <= m.t
      <4>1. now + 1 <= now'
        BY <1>1, <1>2
      <4>. QED
        BY <1>1, <1>4, <2>0, <2>1, <4>1, Zenon
    <3>2. m = m1
      BY <1>1, <1>2, <1>3, <1>4, <2>1, <3>1, Zenon
    <3>. QED
      BY <1>3, <1>4, <1>5, <2>0, <2>1, <3>2, Zenon
  <2>2. CASE k = 0 /\ m.node = p
    <3>1. m2.t <= m.t
      <4>1. now + 2 <= now'
        BY <1>1, <1>2
      <4>. QED
        BY <1>1, <1>4, <2>0, <2>2, <4>1, Zenon
    <3>2. m = m2
      BY <1>1, <1>2, <1>3, <1>4, <2>2, <3>1, Zenon
    <3>. QED
      BY <1>3, <1>4, <1>5, <2>0, <2>2, <3>2, Zenon
  <2>3. CASE k # 0 \/ (m.node # n /\ m.node # p)
    <3>1. m \in stores /\ m.node \in Linked \cup {head_}
      BY <1>1, <1>4, <1>6, <1>12, <2>0, <2>3, Zenon
    <3>2. Newest(m, now)
      BY <1>1, <1>2, <2>0, <3>1, Zenon DEF Newest
    <3>3. m.val = next[m.node][0]
      BY <3>1, <3>2, Zenon DEF Past, Chronicle
    <3>. QED
      BY <1>3, <1>5, <2>0, <2>3, <3>3, Zenon
  <2>. QED
    BY <2>1, <2>2, <2>3, Zenon
<1>13. Chronicle'
  BY <1>10, <1>11, <1>12, Zenon DEF Chronicle
<1>14. History' /\ \A v \in 0 .. now : LinkedWithin(v)' = LinkedWithin(v)
  <2>1. PICK new : new = {m1, m2}
    BY Zenon
  <2>2. \A o \in new : o.t \in Int /\ now < o.t
    BY <1>2, <1>4, <2>1, Zenon
  <2>3. ASSUME NEW o \in new, o.t <= now + 1, o.node # ListObject, o.lvl = 0
        PROVE  o.node \notin Linked \cup {head_} /\ (o.val \in Nodes => Published(o.val, now))
    <3>1. o = m1 /\ k = 0
      BY <1>2, <1>4, <2>1, <2>3, Zenon
    <3>2. s \in Nodes => s \in Linked
      BY <1>3, <1>5, Zenon
    <3>. QED
      BY <1>3, <1>4, <3>1, <3>2, Zenon DEF Linked, ListAt, Past, Chronicle
  <2>. QED
    BY <1>1, <1>13, <2>1, <2>2, <2>3, HistoryGrows, Zenon DEF Past
<1>. QED
  BY <1>0, <1>6, <1>13, <1>14, Zenon

-----------------------------------------------------------------------------
(* What a load of a reader returns was the newest store at the time up to  *)
(* which the reader now knows the list.                                    *)
LEMMA NewestLoad ==
    ASSUME TInv, NEW r \in Readers, call[r] # NoCall, Footing(r),
           NEW m \in Visible(stores, at[r].x, at[r].level, view[r])
    PROVE  /\ AcquiredView(view[r], m) \in 0 .. now
           /\ view[r] \in Int /\ view[r] <= AcquiredView(view[r], m)
           /\ m.node = at[r].x
           /\ at[r].level = 0 => Newest(m, AcquiredView(view[r], m))
<1>0. PICK v, w : v = view[r] /\ w = AcquiredView(view[r], m)
  BY Zenon
<1>1. /\ m \in stores /\ m.node # ListObject /\ m.lvl = at[r].level
      /\ w \in Int /\ v <= w /\ m.t <= w
  BY <1>0, GoodLoad, Zenon
<1>2. /\ m.node = at[r].x
      /\ \A o \in stores : o.node = at[r].x /\ o.lvl = at[r].level /\ o.t <= v => o.t <= m.t
  BY <1>0, Zenon DEF Visible
<1>3. v \in 0 .. now /\ now \in Nat
  BY <1>0 DEF TInv, TypeOK, MemoryTypeOK, ReadersTypeOK
<1>4. \A o \in stores : o.t \in Int /\ 0 <= o.t /\ o.t <= now
  BY MessageFacts, Zenon DEF TInv
<1>5. w = v \/ w = m.t
  BY <1>0, Zenon DEF AcquiredView
<1>6. w \in 0 .. now /\ v \in Int
  BY <1>1, <1>3, <1>4, <1>5
<1>7. ASSUME at[r].level = 0 PROVE Newest(m, w)
  BY <1>1, <1>2, <1>5, <1>7, Zenon DEF Newest
<1>. QED
  BY <1>0, <1>1, <1>2, <1>6, <1>7, Zenon

(* A reader moves to nodes of its past only, and only before its key. *)
LEMMA StandsRead ==
    ASSUME TInv, Safety, Past, NEW r \in Readers, ReadStep(r)
    PROVE  Stands(r)'
<1>0. call[r] # NoCall /\ Footing(r) /\ UNCHANGED <<memory, writer>>
  BY Zenon DEF ReadStep, Safety
<1>1. PICK m \in Visible(stores, at[r].x, at[r].level, view[r]) :
          /\ view' = [view EXCEPT ![r] = AcquiredView(view[r], m)]
          /\ IF MovesOn(call[r], m.val)
             THEN at' = [at EXCEPT ![r].x = m.val] /\ call' = call
             ELSE IF at[r].level > 0
             THEN at' = [at EXCEPT ![r].level = Below(@)] /\ call' = call
             ELSE call' = [call EXCEPT ![r] = NoCall]
  BY ReadLoads, Zenon
<1>2. PICK v, w : v = view[r] /\ w = AcquiredView(view[r], m)
  BY Zenon
<1>3. /\ m \in stores /\ m.node # ListObject /\ m.val # Garbage
      /\ m.t <= w /\ w \in Int /\ v \in Int /\ v <= w
  BY <1>0, <1>2, GoodLoad, NewestLoad, Zenon
<1>4. /\ at \in [Readers -> [x : Nodes \cup {head_}, level : Levels]]
      /\ view \in [Readers -> 0 .. now]
      /\ call \in [Readers -> Calls \cup {NoCall}]
  BY Zenon DEF TInv, TypeOK, ReadersTypeOK
<1>5. view'[r] = w /\ LinkedWithin(w)' = LinkedWithin(w) /\ key' = key
  BY <1>0, <1>1, <1>2, <1>4, Zenon DEF LinkedWithin, Linked, LinkedAt, memory, writer
<1>6. CASE MovesOn(call[r], m.val)
  <2>1. at'[r].x = m.val /\ call'[r] = call[r]
    BY <1>1, <1>4, <1>6, Zenon
  <2>2. m.val # nullptr /\ (call[r].op # "FindLast" => key[m.val] < call[r].key)
    BY <1>6, Zenon DEF MovesOn, KeyIsAfterNode
  <2>3. m.val \in Nodes
    BY <1>3, <2>2, MessageFacts, Zenon DEF TInv, Pointer
  <2>4. Published(m.val, m.t) /\ m.t \in Int
    BY <1>3, <2>3, MessageFacts, Zenon DEF Past, Chronicle, TInv
  <2>5. m.val \in LinkedWithin(w)
    <3>1. m.val \in LinkedWithin(m.t)
      BY <2>3, <2>4, Within, Zenon DEF Recorded
    <3>. QED
      BY <1>3, <2>4, <3>1, WithinGrows, Zenon
  <2>. QED
    BY <1>5, <2>1, <2>2, <2>5, Zenon DEF Stands
<1>7. CASE ~MovesOn(call[r], m.val) /\ at[r].level > 0
  <2>1. at'[r].x = at[r].x /\ call'[r] = call[r]
    BY <1>1, <1>4, <1>7, Zenon
  <2>2. LinkedWithin(v) \subseteq LinkedWithin(w)
    BY <1>3, WithinGrows, Zenon
  <2>. QED
    BY <1>2, <1>5, <2>1, <2>2, Zenon DEF Stands, Past
<1>8. CASE ~MovesOn(call[r], m.val) /\ ~(at[r].level > 0)
  BY <1>1, <1>4, <1>8, Zenon DEF Stands
<1>. QED
  BY <1>6, <1>7, <1>8, Zenon

(* The past of the list is a matter of memory and of the linked nodes. *)
LEMMA PastKept ==
    ASSUME Past, UNCHANGED memory, \A l : LinkedAt(l)' = LinkedAt(l)
    PROVE  /\ Chronicle' /\ History'
           /\ Linked' = Linked /\ \A v : LinkedWithin(v)' = LinkedWithin(v)
<1>1. /\ stores' = stores /\ next' = next /\ now' = now /\ key' = key
      /\ Linked' = Linked
  BY Zenon DEF memory, Linked
<1>2. \A v : LinkedWithin(v)' = LinkedWithin(v)
  BY <1>1, Zenon DEF LinkedWithin
<1>3. Chronicle'
  BY <1>1, Zenon DEF Past, Chronicle, Published, Newest
<1>4. ASSUME NEW v \in 0 .. now PROVE SortedWithin(v)' /\ PrefixWithin(v)'
  <2>1. PICK L : L = LinkedWithin(v)
    BY Zenon
  <2>2. SortedWithin(v) /\ PrefixWithin(v)
    BY Zenon DEF Past, History
  <2>3. PrefixWithin(v)'
    BY <1>2, <2>2, Zenon DEF PrefixWithin
  <2>4. ASSUME NEW m \in stores, Newest(m, v)', m.node \in L \cup {head_}
        PROVE  Successor(m.node, m.val, L)'
    <3>1. Newest(m, v)
      BY <1>1, <2>4, Zenon DEF Newest
    <3>2. Successor(m.node, m.val, L)
      BY <2>1, <2>2, <2>4, <3>1, Zenon DEF SortedWithin
    <3>. QED
      BY <1>1, <3>2, Zenon DEF Successor, Before
  <2>. QED
    BY <1>1, <1>2, <2>1, <2>3, <2>4, Zenon DEF SortedWithin
<1>5. History'
  BY <1>1, <1>4, Zenon DEF History
<1>. QED
  BY <1>1, <1>2, <1>3, <1>5, Zenon

(* While Insert works, a reader stays where it is and its past stays. *)
LEMMA StandsKept ==
    ASSUME TInv, Past, UNCHANGED readers, NEW r \in Readers,
           \A v \in 0 .. now : LinkedWithin(v)' = LinkedWithin(v),
           \A a \in Linked : key'[a] = key[a]
    PROVE  Stands(r)'
<1>1. view'[r] = view[r] /\ call'[r] = call[r] /\ at'[r] = at[r] /\ view[r] \in 0 .. now
  BY Zenon DEF readers, TInv, TypeOK, ReadersTypeOK
<1>2. Stands(r)
  BY Zenon DEF Past
<1>3. PICK v : v = view[r]
  BY Zenon
<1>4. LinkedWithin(v)' = LinkedWithin(v)
  BY <1>1, <1>3, Zenon
<1>5. LinkedWithin(v) \subseteq Linked
  BY Zenon DEF LinkedWithin
<1>. QED
  BY <1>1, <1>2, <1>3, <1>4, <1>5, Zenon DEF Stands

(* Every step keeps the past. *)
LEMMA PastNext ==
    ASSUME TInv, Structure, Safety, Past, (TInv /\ Structure /\ Safety)',
           [Next]_vars, StoresSuccessor
    PROVE  Past'
<1>1. CASE UNCHANGED vars \/ SearchStep \/ \E k \in Key : BeginInsert(k)
  <2>1. UNCHANGED <<memory, readers>> /\ \A l : LinkedAt(l)' = LinkedAt(l)
    <3>1. CASE UNCHANGED vars
      BY <3>1, Zenon DEF vars, memory, writer, LinkedAt
    <3>2. CASE SearchStep \/ \E k \in Key : BeginInsert(k)
      <4>1. UNCHANGED <<memory, readers>> /\ pc # "link" /\ pc' # "link"
        BY <3>2, Zenon DEF SearchStep, BeginInsert
      <4>. QED
        BY <4>1, Zenon DEF LinkedAt, memory
    <3>. QED
      BY <1>1, <3>1, <3>2
  <2>. QED
    BY <2>1, PastKept, StandsKept, Zenon DEF Past, memory
<1>2. ASSUME NEW h \in RandomHeight, AllocNode(h) PROVE Past'
  <2>1. UNCHANGED readers
    BY <1>2, Zenon DEF AllocNode
  <2>. QED
    BY <1>2, <2>1, PastAllocNode, StandsKept, Zenon DEF Past
<1>3. CASE Link
  <2>1. UNCHANGED readers /\ key' = key
    BY <1>3, Zenon DEF Link
  <2>. QED
    BY <1>3, <2>1, PastLink, StandsKept, Zenon DEF Past
<1>4. ASSUME NEW r \in Readers,
             Synchronise(r) \/ (\E c \in Calls : Call(r, c)) \/ ReadStep(r)
      PROVE  Past'
  <2>1. UNCHANGED <<memory, writer>>
    BY <1>4, Zenon DEF Synchronise, Call, ReadStep
  <2>2. /\ Chronicle' /\ History' /\ key' = key
        /\ \A v : LinkedWithin(v)' = LinkedWithin(v)
    BY <2>1, PastKept, Zenon DEF LinkedAt, memory, writer
  <2>3. /\ at \in [Readers -> [x : Nodes \cup {head_}, level : Levels]]
        /\ view \in [Readers -> 0 .. now]
        /\ call \in [Readers -> Calls \cup {NoCall}]
    BY Zenon DEF TInv, TypeOK, ReadersTypeOK
  <2>4. ASSUME NEW q \in Readers, q # r PROVE Stands(q)'
    <3>1. call'[q] = call[q] /\ at'[q] = at[q] /\ view'[q] = view[q]
      BY <1>4, <2>3, <2>4 DEF Synchronise, Call, ReadStep
    <3>2. PICK v : v = view[q]
      BY Zenon
    <3>. QED
      BY <2>2, <3>1, <3>2, Zenon DEF Stands, Past
  <2>5. ASSUME Synchronise(r) PROVE Stands(r)'
    BY <2>5, Zenon DEF Synchronise, Stands
  <2>6. ASSUME NEW c \in Calls, Call(r, c) PROVE Stands(r)'
    <3>1. PICK h : at' = [at EXCEPT ![r] = [x |-> head_, level |-> TopLevel(h)]]
      BY <2>6, Zenon DEF Call
    <3>2. at'[r].x = head_
      BY <2>3, <3>1, Zenon
    <3>. QED
      BY <3>2, Zenon DEF Stands
  <2>7. Stands(r)'
    BY <1>4, <2>5, <2>6, StandsRead, Zenon DEF Synchronise
  <2>. QED
    BY <2>2, <2>4, <2>7, Zenon DEF Past
<1>. QED
  BY <1>1, <1>2, <1>3, <1>4, Zenon DEF Next, InsertStep

(* The invariant that holds the argument together. *)
IInv == TInv /\ Structure /\ Safety /\ Past

(* It holds where line 124 stores the successor into the new node. *)
LEMMA PastInvariant ==
    ASSUME StoresSuccessor
    PROVE  Spec => []IInv
<1>1. Init => IInv
  BY TInvInit, StructureInit, SafetyInit, PastInit DEF IInv
<1>2. IInv /\ [Next]_vars => IInv'
  BY TInvNext, StructureNext, SafetyNext, PastNext DEF IInv
<1>. QED
  BY <1>1, <1>2, PTL DEF Spec

-----------------------------------------------------------------------------
(* The calls by their operation. *)
LEMMA CallFacts ==
    ASSUME NEW c \in Calls
    PROVE  /\ c.op \in Ops /\ c.key \in Int
           /\ c.op = "Contains" => c.op # "FindLast"
           /\ c.op = "FindLessThan" => c.op # "Contains" /\ c.op # "FindLast"
           /\ c.op = "FindLast" => c.op # "Contains" /\ c.op # "FindLessThan"
<1>1. CASE c \in [op : {"Contains", "FindLessThan"}, key : Key]
  <2>1. c.op \in {"Contains", "FindLessThan"} /\ c.key \in Key
    BY <1>1, Zenon
  <2>. QED
    BY <2>1, KeyAssumption, Zenon DEF Ops
<1>2. CASE c = [op |-> "FindLast", key |-> AnyKey]
  <2>1. c.op = "FindLast" /\ c.key = AnyKey
    BY <1>2, Zenon
  <2>. QED
    BY <2>1, KeyAssumption, AnyKeyIsKey, Zenon DEF Ops
<1>. QED
  BY <1>1, <1>2, Zenon DEF Calls

KeysLessThan(S, k) == {j \in S : j < k}

(* What the promise says of each operation. *)
LEMMA Lookups ==
    ASSUME NEW c, NEW S
    PROVE  /\ c.op = "Contains" => Promise!Lookup(c, S) = S \cap {c.key}
           /\ c.op = "FindLessThan" =>
                Promise!Lookup(c, S) = Promise!Greatest(KeysLessThan(S, c.key))
           /\ c.op = "FindLast" => Promise!Lookup(c, S) = Promise!Greatest(S)
BY Zenon DEF Promise!Lookup, KeysLessThan

(* The place where a search stands still divides the list: on one side the *)
(* nodes up to a, on the other the nodes from s.                           *)
LEMMA Divides ==
    ASSUME NEW L, \A b \in L : b # head_ /\ b \in Int /\ key[b] \in Int,
           NEW a \in L \cup {head_}, NEW s, Successor(a, s, L)
    PROVE  \A b \in L : \/ ~Before(a, b) /\ a \in L /\ key[b] <= key[a]
                        \/ Before(a, b) /\ s \in L /\ s # nullptr /\ key[s] <= key[b]
<1> SUFFICES ASSUME NEW b \in L
             PROVE  \/ ~Before(a, b) /\ a \in L /\ key[b] <= key[a]
                    \/ Before(a, b) /\ s \in L /\ s # nullptr /\ key[s] <= key[b]
  BY Zenon
<1>1. CASE Before(a, b)
  <2>1. s # nullptr /\ s \in L /\ (s = b \/ Before(s, b))
    BY <1>1, Zenon DEF Successor
  <2>2. s # head_ /\ key[s] \in Int /\ key[b] \in Int
    BY <2>1, Zenon
  <2>3. key[s] <= key[b]
    BY <2>1, <2>2 DEF Before
  <2>. QED
    BY <1>1, <2>1, <2>3
<1>2. CASE ~Before(a, b)
  <2>1. a # head_ /\ a \in L
    BY <1>2, Zenon DEF Before
  <2>2. key[a] \in Int /\ key[b] \in Int
    BY <2>1, Zenon
  <2>3. key[b] <= key[a]
    BY <1>2, <2>1, <2>2 DEF Before
  <2>. QED
    BY <1>2, <2>1, <2>3
<1>. QED
  BY <1>1, <1>2

(* What the greatest key of a set is. *)
LEMMA GreatestKey ==
    /\ Promise!Greatest({}) = {}
    /\ \A S \in SUBSET Int : \A k \in S :
           (\A j \in S : j <= k) => Promise!Greatest(S) = {k}
<1>1. Promise!Greatest({}) = {}
  BY DEF Promise!Greatest
<1>2. ASSUME NEW S \in SUBSET Int, NEW k \in S, \A j \in S : j <= k
      PROVE  Promise!Greatest(S) = {k}
  <2>1. k \in Promise!Greatest(S)
    BY <1>2, Zenon DEF Promise!Greatest
  <2>2. ASSUME NEW g \in Promise!Greatest(S) PROVE g = k
    <3>1. g \in S /\ k <= g
      BY Zenon DEF Promise!Greatest
    <3>2. g \in Int /\ k \in Int /\ g <= k
      BY <1>2, <3>1
    <3>. QED
      BY <3>1, <3>2
  <2>. QED
    BY <2>1, <2>2, Zenon
<1>. QED
  BY <1>1, <1>2, Zenon

(* Where a search ends, it returns what a look at the whole list returns. *)
LEMMA Answers ==
    ASSUME NEW L, \A b \in L : b # head_ /\ b \in Int /\ key[b] \in Int,
           NEW a \in L \cup {head_}, NEW s, Successor(a, s, L),
           NEW c \in Calls, ~MovesOn(c, s),
           a # head_ /\ c.op # "FindLast" => key[a] < c.key
    PROVE  Result(c, a, s) = Promise!Lookup(c, {key[b] : b \in L})
<1>0. PICK S : S = {key[b] : b \in L}
  BY Zenon
<1>1. /\ c.op \in {"Contains", "FindLessThan", "FindLast"} /\ c.key \in Int
      /\ \A b \in L : \/ ~Before(a, b) /\ a \in L /\ key[b] <= key[a]
                      \/ Before(a, b) /\ s \in L /\ s # nullptr /\ key[s] <= key[b]
  BY CallFacts, Divides, Zenon DEF Ops
<1>2. a \in L <=> a # head_
  BY Zenon
<1>3. CASE c.op = "FindLast"
  <2>1. s = nullptr
    BY <1>3, Zenon DEF MovesOn
  <2>2. \A b \in L : a \in L /\ key[b] <= key[a]
    BY <1>1, <2>1, Zenon
  <2>3. Promise!Greatest(S) = IF a = head_ THEN {} ELSE {key[a]}
    <3>1. ASSUME a = head_ PROVE S = {}
      BY <1>0, <1>2, <2>2, <3>1, Zenon
    <3>2. ASSUME a # head_
          PROVE  S \in SUBSET Int /\ key[a] \in S /\ \A j \in S : j <= key[a]
      BY <1>0, <1>2, <2>2, <3>2, Zenon
    <3>. QED
      BY <3>1, <3>2, GreatestKey, Zenon
  <2>. QED
    BY <1>0, <1>3, <2>3, CallFacts, Lookups, Zenon DEF Result
<1>4. ASSUME c.op # "FindLast"
      PROVE  /\ s = nullptr \/ ~(key[s] < c.key)
             /\ a # head_ => key[a] < c.key
  BY <1>4, Zenon DEF MovesOn, KeyIsAfterNode
<1>5. CASE c.op = "FindLessThan"
  <2>1. /\ s = nullptr \/ ~(key[s] < c.key)
        /\ a # head_ => key[a] < c.key
    BY <1>4, <1>5, CallFacts, Zenon
  <2>2. \A b \in L : key[b] < c.key => a \in L /\ key[b] <= key[a]
    BY <1>1, <2>1
  <2>3. Promise!Greatest(KeysLessThan(S, c.key)) = IF a = head_ THEN {} ELSE {key[a]}
    <3>1. ASSUME a = head_ PROVE KeysLessThan(S, c.key) = {}
      BY <1>0, <1>2, <2>2, <3>1, Zenon DEF KeysLessThan
    <3>2. ASSUME a # head_
          PROVE  /\ KeysLessThan(S, c.key) \in SUBSET Int
                 /\ key[a] \in KeysLessThan(S, c.key)
                 /\ \A j \in KeysLessThan(S, c.key) : j <= key[a]
      BY <1>0, <1>2, <2>1, <2>2, <3>2, Zenon DEF KeysLessThan
    <3>. QED
      BY <3>1, <3>2, GreatestKey, Zenon
  <2>. QED
    BY <1>0, <1>5, <2>3, CallFacts, Lookups, Zenon DEF Result
<1>6. CASE c.op = "Contains"
  <2>1. /\ s = nullptr \/ ~(key[s] < c.key)
        /\ a # head_ => key[a] < c.key
    BY <1>4, <1>6, CallFacts, Zenon
  <2>2. ASSUME NEW b \in L, key[b] = c.key PROVE s # nullptr /\ key[s] = c.key
    <3>1. ~(a \in L /\ key[b] <= key[a])
      BY <1>1, <1>2, <2>1, <2>2
    <3>. QED
      BY <1>1, <2>1, <2>2, <3>1
  <2>3. s # nullptr => s \in L
    BY Zenon DEF Successor
  <2>4. S \cap {c.key} = IF s # nullptr /\ key[s] = c.key THEN {c.key} ELSE {}
    BY <1>0, <2>2, <2>3
  <2>5. Result(c, a, s) = IF s # nullptr /\ key[s] = c.key THEN {c.key} ELSE {}
    BY <1>6, Zenon DEF Result
  <2>. QED
    BY <1>0, <1>6, <2>4, <2>5, Lookups, Zenon
<1>. QED
  BY <1>1, <1>3, <1>5, <1>6

-----------------------------------------------------------------------------
(* The first c values of a function are a sequence of length c. *)
LEMMA FirstValues ==
    ASSUME NEW S, NEW g, NEW c \in Nat, \A j \in 1 .. c : g[j] \in S
    PROVE  LET f == [j \in 1 .. c |-> g[j]] IN f \in Seq(S) /\ Len(f) = c
OBVIOUS

(* One value more is appended to it. *)
LEMMA OneMoreValue ==
    ASSUME NEW S, NEW g, NEW c \in Nat, \A j \in 1 .. c + 1 : g[j] \in S
    PROVE  [j \in 1 .. c + 1 |-> g[j]] = Append([j \in 1 .. c |-> g[j]], g[c + 1])
OBVIOUS

(* The keys of the first nodes are a sequence. *)
LEMMA KeySequence ==
    ASSUME TInv, NEW k \in Nat, 1 .. k \subseteq Linked
    PROVE  /\ KeysOf(1 .. k) \in Seq(Key)
           /\ Len(KeysOf(1 .. k)) = k
<1>1. Linked \subseteq Nodes /\ key \in [Nodes -> Key]
  BY NodeFacts, Zenon DEF TInv, TypeOK, MemoryTypeOK, Linked
<1>2. \A j \in 1 .. k : key[j] \in Key
  BY <1>1, Zenon
<1>. QED
  BY <1>2, FirstValues DEF KeysOf

(* The prefixes that the mapping counts. *)
LEMMA Prefixes ==
    ASSUME IInv
    PROVE  /\ \A v \in 0 .. now : \E k \in Nat : /\ LinkedWithin(v) = 1 .. k
                                                 /\ Len(KeysOf(LinkedWithin(v))) = k
           /\ \E c \in Nat : /\ Linked = 1 .. c
                             /\ Len(insertedKeys) = c /\ insertedKeys \in Seq(Key)
<1>1. ASSUME NEW v \in 0 .. now
      PROVE  \E k \in Nat : LinkedWithin(v) = 1 .. k /\ Len(KeysOf(LinkedWithin(v))) = k
  <2>1. PICK k \in Nat : LinkedWithin(v) = 1 .. k
    BY Zenon DEF IInv, Past, History, PrefixWithin
  <2>2. 1 .. k \subseteq Linked
    BY <2>1, Zenon DEF LinkedWithin
  <2>. QED
    BY <2>1, <2>2, KeySequence, Zenon DEF IInv
<1>2. \E c \in Nat : Linked = 1 .. c /\ Len(insertedKeys) = c /\ insertedKeys \in Seq(Key)
  <2>1. PICK c \in Nat : Linked = 1 .. c
    BY Present, Zenon DEF IInv, Past, Remembered, PrefixWithin
  <2>. QED
    BY <2>1, KeySequence, Zenon DEF IInv, insertedKeys
<1>. QED
  BY <1>1, <1>2

(* The past of a reader is a prefix of the inserts, and a later past a     *)
(* longer one.                                                             *)
LEMMA PrefixesGrow ==
    ASSUME IInv, NEW v \in 0 .. now, NEW w \in 0 .. now, v <= w
    PROVE  Len(KeysOf(LinkedWithin(w))) \in
              Len(KeysOf(LinkedWithin(v))) .. Len(insertedKeys)
<1>1. v \in Int /\ w \in Int
  BY DEF IInv, TInv, TypeOK, MemoryTypeOK
<1>2. LinkedWithin(v) \subseteq LinkedWithin(w) /\ LinkedWithin(w) \subseteq Linked
  BY <1>1, WithinGrows, Zenon DEF IInv, LinkedWithin
<1>3. PICK a \in Nat : LinkedWithin(v) = 1 .. a /\ Len(KeysOf(LinkedWithin(v))) = a
  BY Prefixes, Zenon
<1>4. PICK b \in Nat : LinkedWithin(w) = 1 .. b /\ Len(KeysOf(LinkedWithin(w))) = b
  BY Prefixes, Zenon
<1>5. PICK c \in Nat : Linked = 1 .. c /\ Len(insertedKeys) = c
  BY Prefixes, Zenon
<1>6. 1 .. a \subseteq 1 .. b /\ 1 .. b \subseteq 1 .. c
  BY <1>2, <1>3, <1>4, <1>5, Zenon
<1>7. b \in a .. c
  BY <1>6
<1>. QED
  BY <1>3, <1>4, <1>5, <1>7, Zenon

(* Steps that link no node insert no key. *)
LEMMA InsertedKept ==
    ASSUME Linked' = Linked, \A a \in Linked : key'[a] = key[a]
    PROVE  insertedKeys' = insertedKeys
BY Zenon DEF insertedKeys, KeysOf

(* Steps that leave the past alone show no reader a new key. *)
LEMMA SeenKept ==
    ASSUME IInv, view' = view, \A a \in Linked : key'[a] = key[a],
           \A v \in 0 .. now : LinkedWithin(v)' = LinkedWithin(v)
    PROVE  seenPrefix' = seenPrefix
<1>1. ASSUME NEW r \in Readers
      PROVE  KeysOf(LinkedWithin(view[r]))' = KeysOf(LinkedWithin(view[r]))
  <2>1. PICK v : v = view[r]
    BY Zenon
  <2>2. v \in 0 .. now
    BY <2>1, Zenon DEF IInv, TInv, TypeOK, ReadersTypeOK
  <2>3. LinkedWithin(v)' = LinkedWithin(v) /\ LinkedWithin(v) \subseteq Linked
    BY <2>2, Zenon DEF LinkedWithin
  <2>4. LinkedWithin(view[r])' = LinkedWithin(view[r])
    BY <2>1, <2>3, Zenon
  <2>. QED
    BY <2>1, <2>3, <2>4, Zenon DEF KeysOf
<1>2. \A r \in Readers : Len(KeysOf(LinkedWithin(view[r])))' = Len(KeysOf(LinkedWithin(view[r])))
  BY <1>1, Zenon
<1>. QED
  BY <1>2, Zenon DEF seenPrefix

(* Linking a node on the bottom level adds its key. *)
LEMMA LinkAdds ==
    ASSUME IInv, (TInv /\ Structure /\ Safety)', Link, StoresSuccessor
    PROVE  [Promise!Next]_(Promise!vars)
<1>1. /\ Linked' = IF i = 0 THEN Linked \cup {n} ELSE Linked
      /\ \A v \in 0 .. now : LinkedWithin(v)' = LinkedWithin(v)
  BY PastLink, Zenon DEF IInv
<1>2. /\ key' = key /\ n' = n /\ pc = "link"
      /\ view' = view /\ call' = call /\ answer' = answer
  BY Zenon DEF Link, readers
<1>3. seenPrefix' = seenPrefix
  BY <1>1, <1>2, SeenKept, Zenon
<1>4. CASE i # 0
  <2>1. insertedKeys' = insertedKeys
    BY <1>1, <1>2, <1>4, InsertedKept, Zenon
  <2>. QED
    BY <1>2, <1>3, <2>1, Zenon DEF Promise!vars
<1>5. CASE i = 0
  <2>1. n \in Nodes /\ key[n] \in Key /\ n - 1 \in Nat /\ n = (n - 1) + 1
    <3>1. n \in Nodes
      BY <1>2, Zenon DEF IInv, TInv, Control
    <3>2. key[n] \in Key
      BY <3>1, Zenon DEF IInv, TInv, TypeOK, MemoryTypeOK
    <3>. QED
      BY <3>1, <3>2 DEF Nodes
  <2>2. Linked = 1 .. n - 1
    BY <1>2, <1>5, LinkedIsPrefix, Zenon DEF IInv
  <2>3. Linked' = 1 .. n
    BY <1>1, <1>5, <2>1, <2>2
  <2>5. \A j \in 1 .. (n - 1) + 1 : key[j] \in Key
    <3>1. \A j \in 1 .. n : j \in Nodes
      BY NodeFacts, Zenon DEF IInv
    <3>. QED
      BY <2>1, <3>1, Zenon DEF IInv, TInv, TypeOK, MemoryTypeOK
  <2>6. [j \in 1 .. (n - 1) + 1 |-> key[j]]
           = Append([j \in 1 .. n - 1 |-> key[j]], key[(n - 1) + 1])
    BY <2>1, <2>5, OneMoreValue
  <2>7. insertedKeys = [j \in 1 .. n - 1 |-> key[j]]
    BY <2>2, Zenon DEF insertedKeys, KeysOf
  <2>8. insertedKeys' = [j \in 1 .. n |-> key[j]]
    BY <1>2, <2>3, Zenon DEF insertedKeys, KeysOf
  <2>9. insertedKeys' = Append(insertedKeys, key[n])
    BY <2>1, <2>6, <2>7, <2>8, Zenon
  <2>10. Promise!Add(key[n])
    BY <1>2, <1>3, <2>9, Zenon DEF Promise!Add
  <2>. QED
    BY <2>1, <2>10, Zenon DEF Promise!Next
<1>. QED
  BY <1>4, <1>5

(* A reader that advances its view learns of a longer prefix. *)
LEMMA Learns ==
    ASSUME IInv, NEW r \in Readers, NEW w \in 0 .. now, view[r] <= w,
           view' = [view EXCEPT ![r] = w], UNCHANGED <<memory, writer>>
    PROVE  /\ insertedKeys' = insertedKeys
           /\ seenPrefix' = [seenPrefix EXCEPT ![r] = Len(KeysOf(LinkedWithin(w)))]
           /\ Len(KeysOf(LinkedWithin(w))) \in seenPrefix[r] .. Len(insertedKeys)
<1>1. view \in [Readers -> 0 .. now]
  BY Zenon DEF IInv, TInv, TypeOK, ReadersTypeOK
<1>2. Linked' = Linked /\ key' = key /\ \A v : LinkedWithin(v)' = LinkedWithin(v)
  BY PastKept, Zenon DEF IInv, LinkedAt, memory, writer
<1>3. insertedKeys' = insertedKeys
  BY <1>2, InsertedKept, Zenon
<1>4. ASSUME NEW q \in Readers
      PROVE  Len(KeysOf(LinkedWithin(view[q])))'
                = IF q = r THEN Len(KeysOf(LinkedWithin(w)))
                           ELSE Len(KeysOf(LinkedWithin(view[q])))
  <2>1. PICK v : v = view'[q]
    BY Zenon
  <2>2. v = IF q = r THEN w ELSE view[q]
    BY <1>1, <2>1, Zenon
  <2>3. LinkedWithin(view[q])' = LinkedWithin(v)
    BY <1>2, <2>1, Zenon
  <2>4. Len(KeysOf(LinkedWithin(view[q])))' = Len(KeysOf(LinkedWithin(v)))
    BY <1>2, <2>3, Zenon DEF KeysOf
  <2>. QED
    BY <2>2, <2>4
<1>5. seenPrefix' = [seenPrefix EXCEPT ![r] = Len(KeysOf(LinkedWithin(w)))]
  BY <1>4, Zenon DEF seenPrefix
<1>6. Len(KeysOf(LinkedWithin(w))) \in seenPrefix[r] .. Len(insertedKeys)
  <2>1. seenPrefix[r] = Len(KeysOf(LinkedWithin(view[r]))) /\ view[r] \in 0 .. now
    BY <1>1, Zenon DEF seenPrefix
  <2>. QED
    BY <2>1, PrefixesGrow, Zenon
<1>. QED
  BY <1>3, <1>5, <1>6, Zenon

(* A step of a search learns; the last one returns what the keys of the    *)
(* prefix that the reader then knows have for an answer.                   *)
LEMMA ReadSimulates ==
    ASSUME IInv, NEW r \in Readers, ReadStep(r)
    PROVE  Promise!Next
<1>0. call[r] # NoCall /\ Footing(r) /\ UNCHANGED <<memory, writer>>
  BY Zenon DEF ReadStep, IInv, Safety
<1>1. PICK m \in Visible(stores, at[r].x, at[r].level, view[r]) :
          /\ view' = [view EXCEPT ![r] = AcquiredView(view[r], m)]
          /\ IF MovesOn(call[r], m.val) \/ at[r].level > 0
             THEN UNCHANGED <<call, answer>>
             ELSE /\ answer' = [answer EXCEPT ![r] = Result(call[r], at[r].x, m.val)]
                  /\ call' = [call EXCEPT ![r] = NoCall]
  BY ReadLoads, Zenon
<1>2. PICK v, w, a, c : /\ v = view[r] /\ w = AcquiredView(view[r], m)
                        /\ a = at[r].x /\ c = call[r]
  BY Zenon
<1>3. /\ m \in stores /\ m.node = a
      /\ w \in 0 .. now /\ w \in Int /\ v \in Int /\ v <= w
      /\ at[r].level = 0 => Newest(m, w)
  BY <1>0, <1>2, GoodLoad, NewestLoad, Zenon DEF IInv
<1>4. PICK k : k = Len(KeysOf(LinkedWithin(w)))
  BY Zenon
<1>5. /\ insertedKeys' = insertedKeys
      /\ seenPrefix' = [seenPrefix EXCEPT ![r] = k]
      /\ k \in seenPrefix[r] .. Len(insertedKeys)
  BY <1>0, <1>1, <1>2, <1>3, <1>4, Learns, Zenon
<1>6. CASE MovesOn(call[r], m.val) \/ at[r].level > 0
  <2>1. Promise!Learn(r, k)
    BY <1>1, <1>5, <1>6, Zenon DEF Promise!Learn
  <2>. QED
    BY <1>5, <2>1, Zenon DEF Promise!Next
<1>7. CASE ~(MovesOn(call[r], m.val) \/ at[r].level > 0)
  <2>0. PICK L : L = LinkedWithin(w)
    BY Zenon
  <2>1. /\ c \in Calls /\ at[r].level = 0
        /\ a \in L \cup {head_}
        /\ a # head_ /\ c.op # "FindLast" => key[a] < c.key
    <3>1. call[r] \in Calls \cup {NoCall} /\ at[r] \in [x : Nodes \cup {head_}, level : Levels]
      BY Zenon DEF IInv, TInv, TypeOK, ReadersTypeOK
    <3>2. at[r].level \in Levels
      BY <3>1, Zenon
    <3>3. at[r].level = 0
      BY <1>7, <3>2, BoundAssumption DEF Levels
    <3>4. LinkedWithin(v) \subseteq L /\ Stands(r)
      BY <1>3, <2>0, WithinGrows, Zenon DEF IInv, Past
    <3>. QED
      BY <1>0, <1>2, <3>1, <3>3, <3>4, Zenon DEF Stands
  <2>2. Successor(a, m.val, L)
    BY <1>3, <2>0, <2>1, Zenon DEF IInv, Past, History, SortedWithin
  <2>3. L = 1 .. k /\ L \subseteq Linked
    BY <1>3, <1>4, <2>0, Prefixes, Zenon DEF LinkedWithin
  <2>4. ASSUME NEW b \in L PROVE b # head_ /\ b \in Int /\ key[b] \in Int
    <3>1. b \in Nodes
      BY <2>3, NodeFacts, Zenon DEF IInv, Linked
    <3>2. b # head_
      BY <3>1 DEF Nodes, head_
    <3>. QED
      BY <3>1, <3>2, NodeFacts, Zenon DEF IInv
  <2>5. Result(c, a, m.val) = Promise!Lookup(c, {key[b] : b \in L})
    <3>1. ~MovesOn(c, m.val)
      BY <1>2, <1>7, Zenon
    <3>2. PICK s : s = m.val
      BY Zenon
    <3>3. Result(c, a, s) = Promise!Lookup(c, {key[b] : b \in L})
      BY <2>1, <2>2, <2>4, <3>1, <3>2, Answers, Zenon
    <3>. QED
      BY <3>2, <3>3, Zenon
  <2>6. {key[b] : b \in L} = {insertedKeys[j] : j \in 1 .. k}
    BY <2>3, Zenon DEF insertedKeys, KeysOf
  <2>7. Promise!Return(r, k)
    <3>1. answer' = [answer EXCEPT ![r] =
                        Promise!Lookup(call[r], {insertedKeys[j] : j \in 1 .. k})]
      BY <1>1, <1>2, <1>7, <2>5, <2>6, Zenon
    <3>. QED
      BY <1>0, <1>1, <1>5, <1>7, <3>1, Zenon DEF Promise!Return
  <2>. QED
    BY <1>5, <2>7, Zenon DEF Promise!Next
<1>. QED
  BY <1>6, <1>7

(* Every step of the list and of its readers is one that the promise       *)
(* allows, or one that its user does not see.                              *)
LEMMA Simulates ==
    ASSUME IInv, IInv', [Next]_vars, StoresSuccessor
    PROVE  [Promise!Next]_(Promise!vars)
<1>0. (TInv /\ Structure /\ Safety)'
  BY DEF IInv
<1>1. CASE UNCHANGED vars \/ SearchStep \/ \E k \in Key : BeginInsert(k)
  <2>1. UNCHANGED <<memory, readers>> /\ \A l : LinkedAt(l)' = LinkedAt(l)
    <3>1. CASE UNCHANGED vars
      BY <3>1, Zenon DEF vars, memory, writer, LinkedAt
    <3>2. CASE SearchStep \/ \E k \in Key : BeginInsert(k)
      <4>1. UNCHANGED <<memory, readers>> /\ pc # "link" /\ pc' # "link"
        BY <3>2, Zenon DEF SearchStep, BeginInsert
      <4>. QED
        BY <4>1, Zenon DEF LinkedAt, memory
    <3>. QED
      BY <1>1, <3>1, <3>2
  <2>2. /\ Linked' = Linked /\ key' = key /\ view' = view
        /\ call' = call /\ answer' = answer
        /\ \A v : LinkedWithin(v)' = LinkedWithin(v)
    BY <2>1, PastKept, Zenon DEF IInv, memory, readers
  <2>. QED
    BY <2>2, InsertedKept, SeenKept, Zenon DEF Promise!vars
<1>2. ASSUME NEW h \in RandomHeight, AllocNode(h) PROVE UNCHANGED Promise!vars
  <2>1. /\ Linked' = Linked /\ \A a \in Linked : key'[a] = key[a]
        /\ \A v \in 0 .. now : LinkedWithin(v)' = LinkedWithin(v)
    BY <1>0, <1>2, PastAllocNode, Zenon DEF IInv
  <2>2. view' = view /\ call' = call /\ answer' = answer
    BY <1>2, Zenon DEF AllocNode, readers
  <2>. QED
    BY <2>1, <2>2, InsertedKept, SeenKept, Zenon DEF Promise!vars
<1>3. CASE Link
  BY <1>0, <1>3, LinkAdds, Zenon
<1>4. ASSUME NEW r \in Readers, Synchronise(r) PROVE Promise!Next
  <2>1. PICK w : w = now
    BY Zenon
  <2>2. w \in 0 .. now /\ view[r] <= w
    BY <1>4, <2>1 DEF Synchronise, IInv, TInv, TypeOK, MemoryTypeOK, ReadersTypeOK
  <2>3. /\ insertedKeys' = insertedKeys
        /\ seenPrefix' = [seenPrefix EXCEPT ![r] = Len(KeysOf(LinkedWithin(w)))]
        /\ Len(KeysOf(LinkedWithin(w))) \in seenPrefix[r] .. Len(insertedKeys)
    BY <1>4, <2>1, <2>2, Learns, Zenon DEF Synchronise
  <2>4. Promise!Learn(r, Len(KeysOf(LinkedWithin(w))))
    BY <1>4, <2>3, Zenon DEF Synchronise, Promise!Learn
  <2>. QED
    BY <2>3, <2>4, Zenon DEF Promise!Next
<1>5. ASSUME NEW r \in Readers, NEW c \in Calls, Call(r, c) PROVE Promise!Next
  <2>1. UNCHANGED <<memory, writer, view>>
    BY <1>5, Zenon DEF Call
  <2>2. /\ Linked' = Linked /\ key' = key /\ \A v : LinkedWithin(v)' = LinkedWithin(v)
    BY <2>1, PastKept, Zenon DEF IInv, LinkedAt, memory, writer
  <2>3. insertedKeys' = insertedKeys /\ seenPrefix' = seenPrefix
    BY <2>1, <2>2, InsertedKept, SeenKept, Zenon
  <2>4. Promise!Begin(r, c)
    BY <1>5, <2>3, Zenon DEF Call, Promise!Begin
  <2>. QED
    BY <2>4, Zenon DEF Promise!Next
<1>. QED
  BY <1>1, <1>2, <1>3, <1>4, <1>5, ReadSimulates, Zenon DEF Next, InsertStep

(* The empty list promises no key. *)
LEMMA PromiseInit == Init => Promise!Init
<1> SUFFICES ASSUME Init PROVE Promise!Init
  OBVIOUS
<1>1. IInv
  BY TInvInit, StructureInit, SafetyInit, PastInit, Zenon DEF IInv
<1>2. Linked = {}
  BY DEF Init, Linked, LinkedAt
<1>3. insertedKeys \in Seq(Key) /\ Len(insertedKeys) = 0 /\ insertedKeys = <<>>
  <2>1. PICK c \in Nat : 1 .. c = {} /\ Len(insertedKeys) = c /\ insertedKeys \in Seq(Key)
    BY <1>1, <1>2, Prefixes, Zenon
  <2>2. c = 0
    BY <2>1
  <2>. QED
    BY <2>1, <2>2
<1>4. \A v : Len(KeysOf(LinkedWithin(v))) = 0
  <2>1. \A v : KeysOf(LinkedWithin(v)) = insertedKeys
    BY <1>2, Zenon DEF LinkedWithin, insertedKeys, KeysOf
  <2>. QED
    BY <1>3, <2>1, Zenon
<1>5. seenPrefix = [r \in Readers |-> 0]
  BY <1>4, Zenon DEF seenPrefix
<1>. QED
  BY <1>3, <1>5, Zenon DEF Init, Promise!Init

(* Reads without locks are linearizable: with one writer, any number of    *)
(* readers and loads as stale as release and acquire allow, Contains,      *)
(* FindLessThan and FindLast answer from one prefix of the inserts, and a  *)
(* reader never goes back to a shorter one.                                *)
THEOREM Linearizable ==
    ASSUME StoresSuccessor
    PROVE  Spec => ReadsAreLinearizable
<1>1. IInv /\ IInv' /\ [Next]_vars => [Promise!Next]_(Promise!vars)
  BY Simulates
<1>. QED
  BY <1>1, PromiseInit, PastInvariant, PTL DEF Spec, ReadsAreLinearizable, Promise!Spec
=============================================================================

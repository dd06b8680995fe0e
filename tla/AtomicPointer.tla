--------------------------- MODULE AtomicPointer ---------------------------
(***************************************************************************)
(* port::AtomicPointer (src/src/port/atomic_pointer.h) under the C++       *)
(* release/acquire memory model, for locations that a single thread        *)
(* writes.                                                                 *)
(*                                                                         *)
(* A location is a pair (node, lvl).  Every store leaves a message in the  *)
(* memory, stamped with the writer's time t; with one writer the order of  *)
(* the stamps is the modification order of every location.  A reader has a *)
(* view: the writer's time up to which everything the writer did           *)
(* happens-before the reader's next step.  A load may return the newest    *)
(* message of the location inside the view, or any message newer than it:  *)
(* nothing makes a later store visible at once.                            *)
(***************************************************************************)
EXTENDS Integers

Message(t, n, l, v, rel) ==
    [t |-> t, node |-> n, lvl |-> l, val |-> v, rel |-> rel]

(* rep_.store(v, memory_order_release) *)
Release_Store(t, n, l, v) == Message(t, n, l, v, TRUE)

(* rep_.store(v, memory_order_relaxed), and the plain write that           *)
(* constructs an AtomicPointer                                             *)
NoBarrier_Store(t, n, l, v) == Message(t, n, l, v, FALSE)

(* The messages of (n, l) that a load by a thread with this view may       *)
(* return: none is older than another message of (n, l) inside the view.   *)
Visible(mem, n, l, view) ==
    {m \in mem : /\ m.node = n
                 /\ m.lvl = l
                 /\ \A o \in mem : (o.node = n /\ o.lvl = l /\ o.t <= view)
                                        => o.t <= m.t}

(* A mutant: the load synchronises with nothing. *)
RelaxedView(view, m) == view

(* Reading a release store with an acquire load brings everything the      *)
(* writer did before it into the reader's view.                            *)
AcquiredView(view, m) == IF m.rel /\ m.t > view THEN m.t ELSE view

(* rep_.load(memory_order_acquire): the possible values, each with the     *)
(* view it leaves the reader with.                                         *)
Acquire_Load(mem, n, l, view) ==
    {[val |-> m.val, view |-> AcquiredView(view, m)] :
        m \in Visible(mem, n, l, view)}

(* rep_.load(memory_order_relaxed) *)
NoBarrier_Load(mem, n, l, view) == {m.val : m \in Visible(mem, n, l, view)}
=============================================================================

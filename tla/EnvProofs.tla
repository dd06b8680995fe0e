------------------------------ MODULE EnvProofs -----------------------------
(***************************************************************************)
(* Status, EnvWrapper and the threads that use both, for any number of     *)
(* threads, objects, arrays, wrappers and calls.                           *)
(* Then WritableFile, for every block size and every length of a write.    *)
(*                                                                         *)
(* Status: the invariant is a predicate of the four components, so that an *)
(* operation is a composition of giving up an array and taking one.        *)
(***************************************************************************)
EXTENDS EnvCalls, WritableFile, TLAPS

ContentOf(v) == [code |-> Factory[v.kind], msg |-> v.msg]

(* Object s with array st[s] stands for the value v[s]. *)
Stands(s, st, h, v) ==
    IF st[s] = nullptr THEN v[s] = OK
    ELSE st[s] \in DOMAIN h /\ v[s] \in Values /\ h[st[s]] = ContentOf(v[s])

Owned(L, st, h, v) ==
    /\ L \subseteq Objs
    /\ st \in [Objs -> Arrays \cup {nullptr}]
    /\ v \in [Objs -> Values \cup {OK}]
    /\ DOMAIN h \subseteq Arrays
    /\ \A a \in DOMAIN h : \E s \in L : st[s] = a
    /\ \A s \in L : Stands(s, st, h, v)
    /\ \A s, t \in L : st[s] = st[t] /\ st[s] # nullptr => s = t

IInv == Owned(live, state_, heap, value)

-----------------------------------------------------------------------------
(* The factories and the predicates use the same codes, each its own, and  *)
(* none of them kOk.                                                       *)
LEMMA CodesDiffer ==
    /\ DOMAIN Predicate = DOMAIN Factory
    /\ \A k \in DOMAIN Factory : Factory[k] # kOk
    /\ \A k, j \in DOMAIN Factory : Factory[k] = Predicate[j] <=> k = j
    /\ "OK" \notin DOMAIN Factory
BY DEF Factory, Predicate, kOk

(* An array goes away: its owner must too. *)
LEMMA GiveUp ==
    ASSUME NEW L, NEW st, NEW h, NEW v, Owned(L, st, h, v), NEW s \in L
    PROVE  Owned(L \ {s}, [st EXCEPT ![s] = nullptr], Without(h, {st[s]}),
                 [v EXCEPT ![s] = OK])
<1> DEFINE st2 == [st EXCEPT ![s] = nullptr]
           h2 == Without(h, {st[s]})
           v2 == [v EXCEPT ![s] = OK]
<1>1. /\ L \ {s} \subseteq Objs
      /\ st2 \in [Objs -> Arrays \cup {nullptr}]
      /\ v2 \in [Objs -> Values \cup {OK}]
  BY DEF Owned
<1>2. /\ DOMAIN h2 = DOMAIN h \ {st[s]}
      /\ \A a \in DOMAIN h2 : h2[a] = h[a]
  BY DEF Without
<1>3. \A t \in L \ {s} : st2[t] = st[t] /\ v2[t] = v[t]
  BY DEF Owned
<1>4. \A a \in DOMAIN h2 : \E t \in L \ {s} : st2[t] = a
  BY <1>2, <1>3, Zenon DEF Owned
<1>5. ASSUME NEW t \in L \ {s} PROVE Stands(t, st2, h2, v2)
  <2>1. Stands(t, st, h, v) /\ (st[t] # nullptr => st[t] # st[s])
    BY DEF Owned
  <2>2. st[t] \in DOMAIN h /\ st[t] # st[s] => st[t] \in DOMAIN h2 /\ h2[st[t]] = h[st[t]]
    BY <1>2
  <2> HIDE DEF st2, h2, v2
  <2> QED
    BY <2>1, <2>2, <1>3 DEF Stands
<1>6. \A t, u \in L \ {s} : st2[t] = st2[u] /\ st2[t] # nullptr => t = u
  BY <1>3 DEF Owned
<1>7. DOMAIN h2 \subseteq Arrays
  BY <1>2 DEF Owned
<1> HIDE DEF st2, h2, v2
<1>8. Owned(L \ {s}, st2, h2, v2)
  BY <1>1, <1>4, <1>5, <1>6, <1>7 DEF Owned
<1> QED
  BY <1>8 DEF st2, h2, v2

(* A new object takes a new array. *)
LEMMA Take ==
    ASSUME NEW L, NEW st, NEW h, NEW v, Owned(L, st, h, v),
           NEW s \in Objs, s \notin L,
           NEW b \in Arrays, b \notin DOMAIN h,
           NEW w \in Values
    PROVE  Owned(L \cup {s}, [st EXCEPT ![s] = b], With(h, b, ContentOf(w)),
                 [v EXCEPT ![s] = w])
<1> DEFINE st2 == [st EXCEPT ![s] = b]
           h2 == With(h, b, ContentOf(w))
           v2 == [v EXCEPT ![s] = w]
<1>1. /\ L \cup {s} \subseteq Objs
      /\ st2 \in [Objs -> Arrays \cup {nullptr}]
      /\ v2 \in [Objs -> Values \cup {OK}]
  BY DEF Owned
<1>2. /\ DOMAIN h2 = DOMAIN h \cup {b}
      /\ h2[b] = ContentOf(w)
      /\ \A a \in DOMAIN h : h2[a] = h[a]
  BY DEF With
<1>3. /\ \A t \in L : st2[t] = st[t] /\ v2[t] = v[t]
      /\ st2[s] = b /\ v2[s] = w
  BY DEF Owned
<1>4. b # nullptr
  BY ArraysAssumption
<1>5. \A t \in L : st[t] # b
  BY <1>4 DEF Owned, Stands
<1>6. \A a \in DOMAIN h2 : \E t \in L \cup {s} : st2[t] = a
  BY <1>2, <1>3, Zenon DEF Owned
<1> HIDE DEF st2, h2, v2
<1>7. Stands(s, st2, h2, v2)
  BY <1>2, <1>3, <1>4 DEF Stands
<1>8. ASSUME NEW t \in L PROVE Stands(t, st2, h2, v2)
  <2>1. Stands(t, st, h, v)
    BY DEF Owned
  <2> QED
    BY <2>1, <1>2, <1>3 DEF Stands
<1>9. \A t, u \in L \cup {s} : st2[t] = st2[u] /\ st2[t] # nullptr => t = u
  BY <1>3, <1>5 DEF Owned
<1>10. DOMAIN h2 \subseteq Arrays
  BY <1>2 DEF Owned
<1>11. Owned(L \cup {s}, st2, h2, v2)
  BY <1>1, <1>6, <1>7, <1>8, <1>9, <1>10, Zenon DEF Owned
<1> QED
  BY <1>11 DEF st2, h2, v2

(* A new object is OK and takes nothing. *)
LEMMA TakeNone ==
    ASSUME NEW L, NEW st, NEW h, NEW v, Owned(L, st, h, v),
           NEW s \in Objs, s \notin L
    PROVE  Owned(L \cup {s}, [st EXCEPT ![s] = nullptr], h, [v EXCEPT ![s] = OK])
<1> DEFINE st2 == [st EXCEPT ![s] = nullptr]
           v2 == [v EXCEPT ![s] = OK]
<1>1. /\ L \cup {s} \subseteq Objs
      /\ st2 \in [Objs -> Arrays \cup {nullptr}]
      /\ v2 \in [Objs -> Values \cup {OK}]
  BY DEF Owned
<1>2. /\ \A t \in L : st2[t] = st[t] /\ v2[t] = v[t]
      /\ st2[s] = nullptr /\ v2[s] = OK
  BY DEF Owned
<1> HIDE DEF st2, v2
<1>3. \A t \in L \cup {s} : Stands(t, st2, h, v2)
  BY <1>2 DEF Owned, Stands
<1>4. \A t, u \in L \cup {s} : st2[t] = st2[u] /\ st2[t] # nullptr => t = u
  BY <1>2 DEF Owned
<1>5. \A a \in DOMAIN h : \E t \in L \cup {s} : st2[t] = a
  BY <1>2 DEF Owned
<1>6. Owned(L \cup {s}, st2, h, v2)
  BY <1>1, <1>3, <1>4, <1>5, Zenon DEF Owned
<1> QED
  BY <1>6 DEF st2, v2

(* A new object copies t, the conditional of lines 110 and 117. *)
LEMMA CopyOf ==
    ASSUME NEW L, NEW st, NEW h, NEW v, Owned(L, st, h, v),
           NEW s \in Objs, s \notin L, NEW t \in L,
           NEW st2, NEW h2,
           IF st[t] = nullptr
           THEN st2 = [st EXCEPT ![s] = nullptr] /\ h2 = h
           ELSE \E b \in Arrays \ DOMAIN h, c \in Copied(h, st[t]) :
                   h2 = With(h, b, c) /\ st2 = [st EXCEPT ![s] = b]
    PROVE  Owned(L \cup {s}, st2, h2, [v EXCEPT ![s] = v[t]])
<1>0. Stands(t, st, h, v)
  BY Zenon DEF Owned
<1>1. CASE st[t] = nullptr
  <2>1. v[t] = OK
    BY <1>0, <1>1 DEF Stands
  <2>2. Owned(L \cup {s}, [st EXCEPT ![s] = nullptr], h, [v EXCEPT ![s] = OK])
    BY TakeNone, Zenon
  <2> QED
    BY <1>1, <2>1, <2>2, Zenon
<1>2. CASE st[t] # nullptr
  <2>1. PICK b \in Arrays \ DOMAIN h, c \in Copied(h, st[t]) :
            h2 = With(h, b, c) /\ st2 = [st EXCEPT ![s] = b]
    BY <1>2
  <2>2. st[t] \in DOMAIN h /\ v[t] \in Values /\ h[st[t]] = ContentOf(v[t])
    BY <1>0, <1>2 DEF Stands
  <2>3. c = ContentOf(v[t])
    BY <2>1, <2>2, Zenon DEF Copied
  <2>4. Owned(L \cup {s}, [st EXCEPT ![s] = b], With(h, b, ContentOf(v[t])),
              [v EXCEPT ![s] = v[t]])
    BY <2>1, <2>2, Take, Zenon
  <2> QED
    BY <2>1, <2>3, <2>4, Zenon
<1> QED
  BY <1>1, <1>2

-----------------------------------------------------------------------------
(* operator=: the old array is given up, then t is copied. *)
LEMMA AssignStep ==
    ASSUME IInv, NEW s \in Objs, NEW t \in Objs, Assign(s, t)
    PROVE  IInv'
<1>0. /\ Owned(live, state_, heap, value)
      /\ s \in live /\ t \in live /\ live' = live
      /\ value' = [value EXCEPT ![s] = value[t]]
  BY DEF IInv, Assign
<1>t. /\ state_ \in [Objs -> Arrays \cup {nullptr}]
      /\ value \in [Objs -> Values \cup {OK}]
  BY <1>0 DEF Owned
<1>1. CASE ~Differs(s, t)
  <2>1. state_' = state_ /\ heap' = heap
    BY <1>1 DEF Assign
  <2>2. value[t] = value[s]
    BY <1>0, <1>1 DEF Differs, Owned, Stands
  <2>3. value' = value
    BY <1>0, <1>t, <2>2
  <2> QED
    BY <1>0, <2>1, <2>3 DEF IInv
<1>2. CASE Differs(s, t)
  <2> DEFINE L == live \ {s}
             st == [state_ EXCEPT ![s] = nullptr]
             h == Without(heap, {state_[s]})
             v == [value EXCEPT ![s] = OK]
  <2>1. t \in L
    BY <1>0, <1>2 DEF Differs
  <2>2. Owned(L, st, h, v)
    BY <1>0, GiveUp, Zenon
  <2>3. st[t] = state_[t] /\ v[t] = value[t]
    BY <1>t, <2>1
  <2>4. CopyInto(h, state_[t], s)
    BY <1>2 DEF Assign, Deleted
  <2>5. \A b : [st EXCEPT ![s] = b] = [state_ EXCEPT ![s] = b]
    BY <1>t, Zenon
  <2>6. [v EXCEPT ![s] = value[t]] = value'
    BY <1>0, <1>t, Zenon
  <2>7. L \cup {s} = live'
    BY <1>0
  <2>8. s \notin L
    OBVIOUS
  <2> HIDE DEF L, st, h, v
  <2>9. IF st[t] = nullptr
        THEN state_' = [st EXCEPT ![s] = nullptr] /\ heap' = h
        ELSE \E b \in Arrays \ DOMAIN h, c \in Copied(h, st[t]) :
                heap' = With(h, b, c) /\ state_' = [st EXCEPT ![s] = b]
    BY <2>3, <2>4, <2>5, Zenon DEF CopyInto
  <2>10. Owned(L \cup {s}, state_', heap', [v EXCEPT ![s] = v[t]])
    BY <2>1, <2>2, <2>8, <2>9, CopyOf, Zenon
  <2> QED
    BY <2>3, <2>6, <2>7, <2>10, Zenon DEF IInv
<1> QED
  BY <1>1, <1>2

(* Every operation keeps the invariant. *)
LEMMA UseStep == ASSUME IInv, [Use(Objs)]_vars PROVE IInv'
<1>0. Owned(live, state_, heap, value)
  BY DEF IInv
<1>1. CASE UNCHANGED vars
  BY <1>0, <1>1 DEF vars, IInv
<1>2. ASSUME NEW s \in Objs, ConstructOK(s)
      PROVE  IInv'
  BY <1>0, <1>2, TakeNone, Zenon DEF ConstructOK, IInv
<1>3. ASSUME NEW s \in Objs, NEW k \in Kinds, NEW m \in Messages, ConstructError(s, k, m)
      PROVE  IInv'
  <2> DEFINE w == [kind |-> k, msg |-> m]
  <2>1. w \in Values /\ ContentOf(w) = [code |-> Factory[k], msg |-> m]
    BY DEF Values, ContentOf
  <2>2. PICK a \in Arrays \ Allocated :
            /\ heap' = With(heap, a, ContentOf(w))
            /\ state_' = [state_ EXCEPT ![s] = a]
    BY <1>3, <2>1, Zenon DEF ConstructError
  <2>3. s \notin live /\ live' = live \cup {s} /\ value' = [value EXCEPT ![s] = w]
    BY <1>3, Zenon DEF ConstructError
  <2>4. a \in Arrays /\ a \notin DOMAIN heap
    BY <2>2, Zenon DEF Allocated
  <2> HIDE DEF w
  <2> QED
    BY <1>0, <2>1, <2>2, <2>3, <2>4, Take, Zenon DEF IInv
<1>4. ASSUME NEW s \in Objs, NEW t \in Objs, CopyConstruct(s, t)
      PROVE  IInv'
  <2>1. /\ s \notin live /\ t \in live /\ live' = live \cup {s}
        /\ value' = [value EXCEPT ![s] = value[t]]
    BY <1>4 DEF CopyConstruct
  <2>2. IF state_[t] = nullptr
        THEN state_' = [state_ EXCEPT ![s] = nullptr] /\ heap' = heap
        ELSE \E b \in Arrays \ DOMAIN heap, c \in Copied(heap, state_[t]) :
                heap' = With(heap, b, c) /\ state_' = [state_ EXCEPT ![s] = b]
    BY <1>4, Zenon DEF CopyConstruct, CopyInto
  <2>3. Owned(live \cup {s}, state_', heap', [value EXCEPT ![s] = value[t]])
    BY <1>0, <2>1, <2>2, CopyOf, Zenon
  <2> QED
    BY <2>1, <2>3 DEF IInv
<1>5. ASSUME NEW s \in Objs, NEW t \in Objs, Assign(s, t)
      PROVE  IInv'
  BY <1>5, AssignStep
<1>6. ASSUME NEW s \in Objs, Destroy(s)
      PROVE  IInv'
  <2>1. /\ s \in live /\ live' = live \ {s}
        /\ heap' = Without(heap, {state_[s]})
        /\ state_' = [state_ EXCEPT ![s] = nullptr]
        /\ value' = [value EXCEPT ![s] = OK]
    BY <1>6 DEF Destroy, Deleted
  <2>2. Owned(live \ {s}, [state_ EXCEPT ![s] = nullptr],
              Without(heap, {state_[s]}), [value EXCEPT ![s] = OK])
    BY <1>0, <2>1, GiveUp, Zenon
  <2> QED
    BY <2>1, <2>2 DEF IInv
<1> QED
  BY <1>1, <1>2, <1>3, <1>4, <1>5, <1>6 DEF Use

(* The invariant holds of every behaviour. *)
LEMMA Invariance == Spec => []IInv
<1>1. Init => IInv
  BY Zenon DEF Init, IInv, Owned
<1>2. IInv /\ [Use(Objs)]_vars => IInv'
  BY UseStep
<1> QED
  BY <1>1, <1>2, PTL DEF Spec

-----------------------------------------------------------------------------
(* An array holds an error, never OK, for all objects and arrays. *)
THEOREM Types == Spec => []TypeOK
<1>1. IInv => TypeOK
  <2> SUFFICES ASSUME IInv PROVE TypeOK
    OBVIOUS
  <2>1. /\ live \subseteq Objs
        /\ state_ \in [Objs -> Arrays \cup {nullptr}]
        /\ Allocated \subseteq Arrays
        /\ value \in [Objs -> Values \cup {OK}]
    BY Zenon DEF IInv, Owned, Allocated
  <2>2. ASSUME NEW a \in Allocated PROVE heap[a] \in Contents
    <3>1. PICK s \in live : state_[s] = a
      BY Zenon DEF IInv, Owned, Allocated
    <3>2. a # nullptr
      BY <2>1, ArraysAssumption
    <3>3. value[s] \in Values /\ heap[a] = ContentOf(value[s])
      BY <3>1, <3>2, Zenon DEF IInv, Owned, Stands
    <3> QED
      BY <3>3 DEF Values, ContentOf, Contents
  <2> QED
    BY <2>1, <2>2 DEF TypeOK
<1> QED
  BY <1>1, Invariance, PTL

(* The destructors delete each array once and all of them, whatever was    *)
(* copied and assigned before.                                             *)
THEOREM Ownership == Spec => []OneOwner
<1>1. IInv => OneOwner
  BY Zenon DEF IInv, Owned, Stands, OneOwner, Allocated
<1> QED
  BY <1>1, Invariance, PTL

(* Copies are independent values, and exactly the predicate of the factory *)
(* that made an error recognises it.                                       *)
THEOREM ValueSemantics == Spec => []CopiesAreValues
<1>1. IInv => CopiesAreValues
  <2> SUFFICES ASSUME IInv, NEW s \in live
               PROVE  /\ ok(s) <=> value[s] = OK
                      /\ ~ok(s) => heap[state_[s]].msg = value[s].msg
                      /\ \A k \in DOMAIN Predicate :
                            code(s) = Predicate[k] <=> value[s].kind = k
    BY Zenon DEF CopiesAreValues
  <2>0. Stands(s, state_, heap, value)
    BY DEF IInv, Owned
  <2>1. CASE ok(s)
    <3>1. value[s] = OK /\ code(s) = kOk /\ value[s].kind = "OK"
      BY <2>0, <2>1 DEF Stands, ok, code, OK
    <3>2. \A k \in DOMAIN Predicate : Predicate[k] # kOk /\ k # "OK"
      BY CodesDiffer
    <3> QED
      BY <2>1, <3>1, <3>2, Zenon
  <2>2. CASE ~ok(s)
    <3>1. value[s] \in Values /\ heap[state_[s]] = ContentOf(value[s])
      BY <2>0, <2>2, Zenon DEF Stands, ok
    <3>2. value[s].kind \in DOMAIN Factory
      BY <3>1, KindsAssumption, Zenon DEF Values
    <3>3. value[s].kind # OK.kind
      BY <3>2, CodesDiffer, Zenon DEF OK
    <3>4. code(s) = Factory[value[s].kind] /\ heap[state_[s]].msg = value[s].msg
      BY <2>2, <3>1 DEF ok, code, ContentOf
    <3>5. \A k \in DOMAIN Predicate : code(s) = Predicate[k] <=> value[s].kind = k
      BY <3>2, <3>4, CodesDiffer
    <3> QED
      BY <2>2, <3>3, <3>4, <3>5, Zenon
  <2> QED
    BY <2>1, <2>2, Zenon
<1> QED
  BY <1>1, Invariance, PTL

-----------------------------------------------------------------------------
(* Threads that call an Env are clients of Status: each of their steps is  *)
(* one of Use, or leaves every Status alone.                               *)
LEMMA CallsStep == ASSUME [Next]_allVars PROVE [Use(Objs)]_vars
<1>0. \A t \in Threads : Var(t) \in Objs /\ Tmp(t) \in Objs
  BY ObjsAssumption, Zenon
<1>1. CASE UNCHANGED allVars
  BY <1>1 DEF allVars
<1>2. CASE \E w \in Wrappers : \E e \in E!Envs : Wrap(w, e)
  BY <1>2 DEF Wrap
<1>3. CASE UseVariables
  BY <1>0, <1>3, Zenon DEF UseVariables, Use, Variables
<1>4. ASSUME NEW t \in Threads,
             \/ \E e \in E!Envs, c \in Calls[t] : Call(t, e, c)
             \/ Forward(t)
      PROVE  UNCHANGED vars
  BY <1>4, Zenon DEF Call, Forward
<1>5. ASSUME NEW t \in Threads, Execute(t)
      PROVE  [Use(Objs)]_vars
  <2>1. \/ ConstructOK(Tmp(t))
        \/ result'[t] \in Kinds /\ \E m \in Messages : ConstructError(Tmp(t), result'[t], m)
        \/ UNCHANGED vars
    BY <1>5, Zenon DEF Execute
  <2> QED
    BY <1>0, <2>1, Zenon DEF Use
<1>6. ASSUME NEW t \in Threads, Return(t)
      PROVE  [Use(Objs)]_vars
  BY <1>0, <1>6, Zenon DEF Return, Use
<1>7. ASSUME NEW t \in Threads, EndStatement(t)
      PROVE  [Use(Objs)]_vars
  BY <1>0, <1>7, Zenon DEF EndStatement, Use
<1> QED
  BY <1>1, <1>2, <1>3, <1>4, <1>5, <1>6, <1>7, Zenon DEF Next

(* What threads do with the Statuses that an Env returns, through any      *)
(* wrappers and interleaved in any way, is a legal use of the class: the   *)
(* three theorems above hold of it.                                        *)
THEOREM CallsAreUses == CallsSpec => Spec
<1>1. CallsInit => Init
  BY DEF CallsInit
<1>2. [Next]_allVars => [Use(Objs)]_vars
  BY CallsStep
<1> QED
  BY <1>1, <1>2, PTL DEF CallsSpec, Spec

-----------------------------------------------------------------------------
(* A call has the form that the declarations give it. *)
Declared(c) == \E m \in E!Methods : c \in E!CallsOf(m)

(* While a call is on its way, the frame at which it has arrived is what   *)
(* the thread asked for.                                                   *)
FrameIsRequest ==
    /\ frame = [t \in Threads |-> frame[t]]
    /\ request = [t \in Threads |-> request[t]]
    /\ pc = [t \in Threads |-> pc[t]]
    /\ \A t \in Threads :
          pc[t] = "called" => frame[t] = request[t] /\ Declared(request[t])

(* Body b is that of a method m: it calls the same method of the target    *)
(* with its own parameters in their order.                                 *)
Straight(b, m) ==
    /\ b.calls = m
    /\ b.passes = b.takes
    /\ DOMAIN b.takes = DOMAIN E!Parameters[m]
    /\ \A j, k \in DOMAIN b.takes : b.takes[j] = b.takes[k] => j = k

(* So do all 25 bodies. *)
LEMMA AllStraight == \A m \in E!Methods : Straight(E!Bodies[m], m)
<1> USE DEF E!Body
<1>1. /\ Straight(E!NewSequentialFile, "NewSequentialFile")
      /\ Straight(E!NewRandomAccessFile, "NewRandomAccessFile")
      /\ Straight(E!NewWritableFile, "NewWritableFile")
      /\ Straight(E!FileExists, "FileExists")
      /\ Straight(E!GetChildren, "GetChildren")
  BY DEF Straight, E!Parameters, E!NewSequentialFile, E!NewRandomAccessFile,
         E!NewWritableFile, E!FileExists, E!GetChildren
<1>2. /\ Straight(E!DeleteFile, "DeleteFile")
      /\ Straight(E!CreateDir, "CreateDir")
      /\ Straight(E!CreateDirIfMissing, "CreateDirIfMissing")
      /\ Straight(E!DeleteDir, "DeleteDir")
      /\ Straight(E!GetFileSize, "GetFileSize")
      /\ Straight(E!GetFileModificationTime, "GetFileModificationTime")
      /\ Straight(E!RenameFile, "RenameFile")
  BY DEF Straight, E!Parameters, E!DeleteFile, E!CreateDir, E!CreateDirIfMissing,
         E!DeleteDir, E!GetFileSize, E!GetFileModificationTime, E!RenameFile
<1>3. /\ Straight(E!LockFile, "LockFile")
      /\ Straight(E!UnlockFile, "UnlockFile")
      /\ Straight(E!Schedule, "Schedule")
      /\ Straight(E!StartThread, "StartThread")
      /\ Straight(E!GetTestDirectory, "GetTestDirectory")
      /\ Straight(E!NewLogger, "NewLogger")
  BY DEF Straight, E!Parameters, E!LockFile, E!UnlockFile, E!Schedule,
         E!StartThread, E!GetTestDirectory, E!NewLogger
<1>4. /\ Straight(E!NowMicros, "NowMicros")
      /\ Straight(E!SleepForMicroseconds, "SleepForMicroseconds")
      /\ Straight(E!GetHostName, "GetHostName")
  BY DEF Straight, E!Parameters, E!NowMicros, E!SleepForMicroseconds, E!GetHostName
<1>5. /\ Straight(E!GetCurrentTime, "GetCurrentTime")
      /\ Straight(E!GetAbsolutePath, "GetAbsolutePath")
      /\ Straight(E!SetBackgroundThreads, "SetBackgroundThreads")
      /\ Straight(E!TimeToString, "TimeToString")
  BY DEF Straight, E!Parameters, E!GetCurrentTime, E!GetAbsolutePath,
         E!SetBackgroundThreads, E!TimeToString
<1> QED
  BY <1>1, <1>2, <1>3, <1>4, <1>5 DEF E!Methods, E!Parameters, E!Bodies

(* The wrappers change neither the method nor the arguments of a call. *)
LEMMA ForwardedIsCall ==
    ASSUME NEW c, Declared(c)
    PROVE  E!Forwarded(c) = c
<1>1. PICK m \in E!Methods : c \in E!CallsOf(m)
  BY DEF Declared
<1> DEFINE b == E!Bodies[m]
<1>2. /\ c = [method |-> m, args |-> c.args] /\ c.method = m
      /\ c.args \in [DOMAIN E!Parameters[m] -> Args]
  BY <1>1 DEF E!CallsOf
<1>3. Straight(b, m)
  BY AllStraight
<1> HIDE DEF b
<1>4. E!Passed(b, c.args) = c.args
  <2>1. \A j \in DOMAIN b.takes : (CHOOSE k \in DOMAIN b.takes : b.takes[k] = b.takes[j]) = j
    BY <1>3 DEF Straight
  <2> QED
    BY <1>2, <1>3, <2>1 DEF E!Passed, Straight
<1>5. E!Forwarded(c) = [method |-> b.calls, args |-> E!Passed(b, c.args)]
  BY <1>2 DEF E!Forwarded, b
<1> QED
  BY <1>2, <1>3, <1>4, <1>5, Zenon DEF Straight

(* A call on its way stays what the thread asked for. *)
LEMMA FrameStep ==
    ASSUME FrameIsRequest, [E!Next]_(E!vars)
    PROVE  FrameIsRequest'
<1>1. CASE UNCHANGED E!vars
  BY <1>1, Zenon DEF E!vars, E!directVars, FrameIsRequest
<1>2. CASE \E w \in Wrappers : \E e \in E!Envs : E!Wrap(w, e)
  <2>1. UNCHANGED <<pc, request, frame>>
    BY <1>2, Zenon DEF E!Wrap, E!directVars
  <2> QED
    BY <2>1, Zenon DEF FrameIsRequest
<1>3. ASSUME NEW t \in Threads, NEW e \in E!Envs, NEW c \in Calls[t], E!Call(t, e, c)
      PROVE  FrameIsRequest'
  <2>1. /\ frame' = [frame EXCEPT ![t] = c]
        /\ request' = [request EXCEPT ![t] = c]
        /\ pc' = [pc EXCEPT ![t] = "called"]
    BY <1>3, Zenon DEF E!Call, E!Request
  <2>2. Declared(c)
    BY CallsAssumption, Zenon DEF E!WellFormed, Declared
  <2> QED
    BY <2>1, <2>2, Zenon DEF FrameIsRequest
<1>4. ASSUME NEW t \in Threads, E!Forward(t)
      PROVE  FrameIsRequest'
  <2>1. /\ pc[t] = "called"
        /\ frame' = [frame EXCEPT ![t] = E!Forwarded(frame[t])]
        /\ UNCHANGED <<pc, request>>
    BY <1>4, Zenon DEF E!Forward, E!directVars
  <2>2. E!Forwarded(frame[t]) = frame[t]
    BY <2>1, ForwardedIsCall, Zenon DEF FrameIsRequest
  <2> QED
    BY <2>1, <2>2, Zenon DEF FrameIsRequest
<1>5. ASSUME NEW t \in Threads, E!Execute(t)
      PROVE  FrameIsRequest'
  <2>1. /\ pc' = [pc EXCEPT ![t] = "done"]
        /\ UNCHANGED <<request, frame>>
    BY <1>5, Zenon DEF E!Execute, E!Perform
  <2> QED
    BY <2>1, Zenon DEF FrameIsRequest
<1>6. ASSUME NEW t \in Threads, E!Answer(t)
      PROVE  FrameIsRequest'
  <2>1. /\ frame' = [frame EXCEPT ![t] = E!NoCall]
        /\ request' = [request EXCEPT ![t] = E!NoCall]
        /\ pc' = [pc EXCEPT ![t] = "idle"]
    BY <1>6, Zenon DEF E!Answer, E!Return
  <2> QED
    BY <2>1, Zenon DEF FrameIsRequest
<1> QED
  BY <1>1, <1>2, <1>3, <1>4, <1>5, <1>6, Zenon DEF E!Next

(* A step of the threads is a step of the wrappers, or of Statuses only. *)
LEMMA EnvStep == ASSUME [Next]_allVars PROVE [E!Next]_(E!vars)
<1>1. CASE UNCHANGED envVars
  BY <1>1 DEF envVars, E!vars, E!directVars
<1>2. CASE \E w \in Wrappers : \E e \in E!Envs : Wrap(w, e)
  BY <1>2 DEF Wrap, E!Next
<1>3. ASSUME NEW t \in Threads,
             \/ \E e \in E!Envs, c \in Calls[t] : Call(t, e, c)
             \/ Forward(t) \/ Execute(t) \/ Return(t)
      PROVE  E!Next
  BY <1>3 DEF Call, Forward, Execute, Return, E!Next
<1> QED
  BY <1>1, <1>2, <1>3, Zenon DEF Next, EndStatement, UseVariables, allVars

(* The wrappers stay invisible whatever the threads do. *)
LEMMA FrameInvariant == CallsSpec => []FrameIsRequest
<1>1. CallsInit => FrameIsRequest
  BY DEF CallsInit, E!Init, E!DirectInit, FrameIsRequest
<1>2. FrameIsRequest /\ [Next]_allVars => FrameIsRequest'
  BY EnvStep, FrameStep
<1> QED
  BY <1>1, <1>2, PTL DEF CallsSpec

(* EnvWrapper is "an implementation of Env that forwards all calls to      *)
(* another Env": every behaviour of threads that call through wrappers is  *)
(* one of threads that call the Env at the end of the chain directly.      *)
THEOREM Transparency == CallsSpec => ForwardsAllCalls
<1>1. CallsInit => E!DirectInit
  BY DEF CallsInit, E!Init
<1>2. FrameIsRequest /\ [Next]_allVars => [E!DirectNext]_(E!directVars)
  <2> SUFFICES ASSUME FrameIsRequest, [E!Next]_(E!vars)
               PROVE  [E!DirectNext]_(E!directVars)
    BY EnvStep
  <2>1. CASE UNCHANGED E!vars
    BY <2>1, Zenon DEF E!vars
  <2>2. CASE \E w \in Wrappers : \E e \in E!Envs : E!Wrap(w, e)
    BY <2>2, Zenon DEF E!Wrap
  <2>3. ASSUME NEW t \in Threads, NEW e \in E!Envs, NEW c \in Calls[t], E!Call(t, e, c)
        PROVE  E!DirectNext
    BY <2>3 DEF E!Call, E!DirectNext
  <2>4. ASSUME NEW t \in Threads, E!Forward(t)
        PROVE  UNCHANGED E!directVars
    BY <2>4, Zenon DEF E!Forward
  <2>5. ASSUME NEW t \in Threads, E!Execute(t)
        PROVE  E!DirectNext
    <3>1. E!Perform(t, frame[t]) /\ pc[t] = "called"
      BY <2>5, Zenon DEF E!Execute, E!Perform
    <3>2. frame[t] = request[t]
      BY <3>1 DEF FrameIsRequest
    <3>3. E!Perform(t, request[t])
      BY <3>1, <3>2, Zenon
    <3> QED
      BY <3>3, Zenon DEF E!DirectNext
  <2>6. ASSUME NEW t \in Threads, E!Answer(t)
        PROVE  E!DirectNext
    BY <2>6 DEF E!Answer, E!DirectNext
  <2> QED
    BY <2>1, <2>2, <2>3, <2>4, <2>5, <2>6 DEF E!Next
<1> QED
  BY <1>1, <1>2, FrameInvariant, PTL
  DEF CallsSpec, ForwardsAllCalls, E!ForwardsAllCalls, E!DirectSpec

-----------------------------------------------------------------------------
(* The variable of a thread has the kind that the Env answered last, and   *)
(* so has, between the answer and the assignment, the temporary, which     *)
(* does not exist before.                                                  *)
Carries(t) ==
    /\ answer[t] # "none" => Var(t) \in live /\ value[Var(t)].kind = answer[t]
    /\ pc[t] = "done" /\ Tmp(t) \in live => value[Tmp(t)].kind = result[t]
    /\ pc[t] = "called" => Tmp(t) \notin live

AnswerInv ==
    /\ answer = [t \in Threads |-> answer[t]]
    /\ result = [t \in Threads |-> result[t]]
    /\ \A t \in Threads : Carries(t)

(* A variable is not a temporary, and each thread has its own. *)
LEMMA Distinct ==
    \A t, u \in Threads : Var(t) # Tmp(u) /\ (t # u => Var(t) # Var(u) /\ Tmp(t) # Tmp(u))
  BY DEF Var, Tmp

(* A step that leaves the objects and the threads but t alone. *)
LEMMA OthersCarry ==
    ASSUME IInv, AnswerInv, FrameIsRequest, NEW t \in Threads, NEW u \in Threads, u # t,
           pc'[u] = pc[u], result'[u] = result[u], answer'[u] = answer[u],
           \A s \in {Var(u), Tmp(u)} : value'[s] = value[s] /\ (s \in live' <=> s \in live)
    PROVE  Carries(u)'
  BY Zenon DEF AnswerInv, Carries

(* The Env constructs the temporary. *)
LEMMA ExecuteCarries ==
    ASSUME IInv, AnswerInv, FrameIsRequest, NEW t \in Threads, Execute(t)
    PROVE  AnswerInv'
<1>1. /\ pc[t] = "called" /\ pc' = [pc EXCEPT ![t] = "done"]
      /\ UNCHANGED answer
      /\ \E a : result' = [result EXCEPT ![t] = a]
  BY Zenon DEF Execute, E!Execute, E!Perform
<1>2. pc'[t] = "done" /\ \A u \in Threads \ {t} : pc'[u] = pc[u] /\ result'[u] = result[u]
  BY <1>1, Zenon DEF AnswerInv, FrameIsRequest
<1>3. value \in [Objs -> Values \cup {OK}] /\ Var(t) \in Objs /\ Tmp(t) \in Objs
  BY ObjsAssumption, Zenon DEF IInv, Owned
<1>4. \/ /\ live' = live \cup {Tmp(t)}
         /\ \E v : v.kind = result'[t] /\ value' = [value EXCEPT ![Tmp(t)] = v]
      \/ UNCHANGED <<live, value>>
  <2>1. CASE result'[t] = "OK"
    <3>0. "OK" \notin Kinds
      BY KindsAssumption DEF Factory
    <3>1. ConstructOK(Tmp(t))
      BY <2>1, <3>0, Zenon DEF Execute
    <3>2. OK.kind = "OK"
      BY DEF OK
    <3> QED
      BY <2>1, <3>1, <3>2, Zenon DEF ConstructOK
  <2>2. CASE result'[t] \in Kinds /\ result'[t] # "OK"
    <3>1. PICK m \in Messages : ConstructError(Tmp(t), result'[t], m)
      BY <2>2, Zenon DEF Execute
    <3>2. [kind |-> result'[t], msg |-> m].kind = result'[t]
      OBVIOUS
    <3> QED
      BY <3>1, <3>2, Zenon DEF ConstructError
  <2>3. CASE result'[t] \notin Kinds /\ result'[t] # "OK"
    BY <2>3, Zenon DEF Execute, vars
  <2> QED
    BY <2>1, <2>2, <2>3, Zenon
<1>5. ASSUME NEW u \in Threads, u # t PROVE Carries(u)'
  <2>0. /\ Var(u) \in Objs /\ Tmp(u) \in Objs
        /\ \A s \in {Var(u), Tmp(u)} : s # Var(t) /\ s # Tmp(t)
    BY <1>5, ObjsAssumption, Distinct, Zenon
  <2>1. \A s \in {Var(u), Tmp(u)} : value'[s] = value[s] /\ (s \in live' <=> s \in live)
    BY <1>3, <1>4, <2>0, Zenon
  <2> QED
    BY <1>1, <1>2, <1>5, <2>1, OthersCarry, Zenon
<1>6. Carries(t)'
  <2>1. Carries(t)
    BY Zenon DEF AnswerInv
  <2>2. Tmp(t) \in live' => value'[Tmp(t)].kind = result'[t]
    BY <1>1, <1>3, <1>4, <2>1, Zenon DEF Carries
  <2>3. value'[Var(t)] = value[Var(t)] /\ (Var(t) \in live' <=> Var(t) \in live)
    BY <1>3, <1>4, Distinct, Zenon
  <2> QED
    BY <1>1, <1>2, <2>1, <2>2, <2>3, Zenon DEF Carries
<1>7. result' = [u \in Threads |-> result'[u]]
  BY <1>1, Zenon DEF AnswerInv
<1> QED
  BY <1>1, <1>5, <1>6, <1>7, Zenon DEF AnswerInv

(* The statement assigns it to the variable. *)
LEMMA ReturnCarries ==
    ASSUME IInv, AnswerInv, FrameIsRequest, NEW t \in Threads, Return(t)
    PROVE  AnswerInv'
<1>1. /\ pc[t] = "done" /\ pc' = [pc EXCEPT ![t] = "idle"]
      /\ result' = [result EXCEPT ![t] = "none"]
  BY Zenon DEF Return, E!Answer, E!Return
<1>2. pc'[t] = "idle" /\ \A u \in Threads \ {t} : pc'[u] = pc[u] /\ result'[u] = result[u]
  BY <1>1, Zenon DEF AnswerInv, FrameIsRequest
<1>3. value \in [Objs -> Values \cup {OK}] /\ Var(t) \in Objs /\ Tmp(t) \in Objs
  BY ObjsAssumption, Zenon DEF IInv, Owned
<1>4. \/ /\ Tmp(t) \in live /\ Var(t) \in live /\ UNCHANGED live
         /\ value' = [value EXCEPT ![Var(t)] = value[Tmp(t)]]
         /\ answer' = [answer EXCEPT ![t] = result[t]]
      \/ UNCHANGED <<live, value, answer>>
  BY Zenon DEF Return, Assign, vars
<1>5. \A u \in Threads \ {t} : answer'[u] = answer[u]
  BY <1>4, Zenon DEF AnswerInv
<1>6. ASSUME NEW u \in Threads, u # t PROVE Carries(u)'
  <2>0. /\ Var(u) \in Objs /\ Tmp(u) \in Objs
        /\ \A s \in {Var(u), Tmp(u)} : s # Var(t) /\ s # Tmp(t)
    BY <1>6, ObjsAssumption, Distinct, Zenon
  <2>1. \A s \in {Var(u), Tmp(u)} : value'[s] = value[s] /\ (s \in live' <=> s \in live)
    BY <1>3, <1>4, <2>0, Zenon
  <2> QED
    BY <1>2, <1>5, <1>6, <2>1, OthersCarry, Zenon
<1>7. Carries(t)'
  <2>1. Carries(t) /\ answer = [u \in Threads |-> answer[u]]
    BY Zenon DEF AnswerInv
  <2>2. answer'[t] # "none" => Var(t) \in live' /\ value'[Var(t)].kind = answer'[t]
    BY <1>1, <1>3, <1>4, <2>1, Zenon DEF Carries
  <2> QED
    BY <1>2, <2>2, Zenon DEF Carries
<1>8. answer' = [u \in Threads |-> answer'[u]] /\ result' = [u \in Threads |-> result'[u]]
  BY <1>1, <1>4, Zenon DEF AnswerInv
<1> QED
  BY <1>6, <1>7, <1>8, Zenon DEF AnswerInv

(* Every step of the threads keeps it. *)
LEMMA AnswerStep ==
    ASSUME IInv, FrameIsRequest, AnswerInv, [Next]_allVars
    PROVE  AnswerInv'
<1>1. CASE UNCHANGED <<live, value, pc, result, answer>>
  BY <1>1, Zenon DEF AnswerInv, Carries
<1>2. CASE UNCHANGED allVars
  BY <1>1, <1>2, Zenon DEF allVars, envVars, vars
<1>3. CASE \E w \in Wrappers : \E e \in E!Envs : Wrap(w, e)
  BY <1>1, <1>3, Zenon DEF Wrap, E!Wrap, E!directVars, vars
<1>4. ASSUME NEW t \in Threads, Forward(t) PROVE AnswerInv'
  BY <1>1, <1>4, Zenon DEF Forward, E!Forward, E!directVars, vars
<1>5. ASSUME NEW t \in Threads, NEW e \in E!Envs, NEW c \in Calls[t], Call(t, e, c)
      PROVE  AnswerInv'
  <2>1. /\ Tmp(t) \notin live /\ pc' = [pc EXCEPT ![t] = "called"]
        /\ UNCHANGED <<live, value, result, answer>>
    BY <1>5, Zenon DEF Call, E!Call, E!Request, vars
  <2>2. pc'[t] = "called" /\ \A u \in Threads \ {t} : pc'[u] = pc[u]
    BY <2>1, Zenon DEF FrameIsRequest
  <2> QED
    BY <2>1, <2>2, Zenon DEF AnswerInv, Carries
<1>6. ASSUME NEW t \in Threads, EndStatement(t) PROVE AnswerInv'
  <2>1. /\ pc[t] = "idle" /\ live' = live \ {Tmp(t)}
        /\ value' = [value EXCEPT ![Tmp(t)] = OK]
        /\ UNCHANGED <<pc, result, answer>>
    BY <1>6, Zenon DEF EndStatement, Destroy, envVars
  <2>2. value \in [Objs -> Values \cup {OK}] /\ \A u \in Threads : {Var(u), Tmp(u)} \subseteq Objs
    BY ObjsAssumption, Zenon DEF IInv, Owned
  <2>3. \A u \in Threads : value'[Var(u)] = value[Var(u)] /\ (Var(u) \in live' <=> Var(u) \in live)
    BY <2>1, <2>2, Distinct, Zenon
  <2>4. \A u \in Threads \ {t} :
            value'[Tmp(u)] = value[Tmp(u)] /\ (Tmp(u) \in live' <=> Tmp(u) \in live)
    BY <2>1, <2>2, Distinct, Zenon
  <2> QED
    BY <2>1, <2>3, <2>4, Zenon DEF AnswerInv, Carries
<1>7. CASE UseVariables
  <2>1. /\ \A u \in Threads : pc[u] = "idle"
        /\ answer' = [u \in Threads |-> "none"] /\ UNCHANGED <<pc, result>>
    BY <1>7, Zenon DEF UseVariables, envVars
  <2> QED
    BY <2>1, Zenon DEF AnswerInv, Carries
<1> QED
  BY <1>2, <1>3, <1>4, <1>5, <1>6, <1>7, ExecuteCarries, ReturnCarries, Zenon DEF Next

(* A caller reads from its variable what the Env answered, for any number  *)
(* of threads and any chains of wrappers: ok() and the predicates of s     *)
(* after s = env->f(...) tell the answer to this call.                     *)
THEOREM AnswerArrives == CallsSpec => []VariableTellsAnswer
<1>1. CallsInit => AnswerInv
  BY DEF CallsInit, E!Init, E!DirectInit, AnswerInv, Carries
<1>2. IInv /\ FrameIsRequest /\ AnswerInv /\ [Next]_allVars => AnswerInv'
  BY AnswerStep
<1>3. IInv /\ CopiesAreValues /\ AnswerInv => VariableTellsAnswer
  <2> SUFFICES ASSUME IInv, CopiesAreValues, AnswerInv,
                      NEW t \in Threads, answer[t] # "none"
               PROVE  /\ ok(Var(t)) <=> answer[t] = "OK"
                      /\ \A k \in Kinds : code(Var(t)) = Predicate[k] <=> answer[t] = k
    BY Zenon DEF VariableTellsAnswer
  <2>1. Var(t) \in live /\ value[Var(t)].kind = answer[t]
    BY Zenon DEF AnswerInv, Carries
  <2>2. value[Var(t)] \in Values \cup {OK}
    BY <2>1, Zenon DEF IInv, Owned
  <2>3. /\ ok(Var(t)) <=> value[Var(t)] = OK
        /\ \A k \in DOMAIN Predicate :
              code(Var(t)) = Predicate[k] <=> value[Var(t)].kind = k
    BY <2>1, Zenon DEF CopiesAreValues
  <2>4. value[Var(t)] = OK <=> value[Var(t)].kind = "OK"
    BY <2>2, KindsAssumption DEF Values, OK, Factory
  <2>5. Kinds \subseteq DOMAIN Predicate
    BY KindsAssumption DEF Factory, Predicate
  <2> QED
    BY <2>1, <2>3, <2>4, <2>5, Zenon
<1> QED
  BY <1>1, <1>2, <1>3, CallsAreUses, Invariance, ValueSemantics, FrameInvariant, PTL
  DEF CallsSpec

-----------------------------------------------------------------------------
(***************************************************************************)
(* WritableFile: preallocation for every block size, every length of a     *)
(* write and every size of the file.  The theorems about what is allocated *)
(* assume that the block size is not changed once there are blocks;        *)
(* without that they are false.                                            *)
(***************************************************************************)

(* The division of PrepareWrite rounds up. *)
LEMMA RoundsUp ==
    ASSUME NEW end \in Nat, NEW size \in Nat \ {0}
    PROVE  LET q == LastBlock(end, size)
           IN /\ q \in Nat /\ q <= end
              /\ end <= size * q
              /\ q > 0 => size * (q - 1) < end
<1> DEFINE y == end + size - 1
           q == y \div size
           r == y % size
<1>1. y \in Nat
  OBVIOUS
<1>2. q \in Nat /\ r \in 0 .. size - 1 /\ y = q * size + r
  BY <1>1
<1>3. LastBlock(end, size) = q /\ y = end + size - 1
  BY DEF LastBlock
<1> HIDE DEF q, r, y
<1>4. size * q = q * size /\ size * (q - 1) = q * size - size
  BY <1>2
<1>5. end <= size * q /\ size * (q - 1) < end
  BY <1>2, <1>3, <1>4
<1>6. q > 0 => q - 1 <= size * (q - 1)
  BY <1>2
<1>7. q <= end
  BY <1>2, <1>5, <1>6
<1> QED
  BY <1>2, <1>3, <1>5, <1>7

(* Blocks times their size is a number of bytes. *)
LEMMA Bytes ==
    ASSUME NEW size \in Nat, NEW a \in Nat, NEW b \in Nat, a <= b
    PROVE  /\ size * a \in Nat /\ size * b \in Nat
           /\ size * a <= size * b
           /\ size * a + size * (b - a) = size * b
<1>1. size * (b - a) \in Nat /\ size * a \in Nat /\ size * b \in Nat
  OBVIOUS
<1>2. size * (b - a) = size * b - size * a
  OBVIOUS
<1> QED
  BY <1>1, <1>2

(* Two ranges that meet. *)
LEMMA Ranges ==
    ASSUME NEW a \in Nat, NEW b \in Nat, a <= b
    PROVE  /\ (0 .. a - 1) \cup (a .. b - 1) = 0 .. b - 1
           /\ (0 .. a - 1) \cap (a .. b - 1) = {}
OBVIOUS

-----------------------------------------------------------------------------
(* Every step keeps the types, whether or not the block size changes. *)
LEMMA FileTypeStep == ASSUME FileTypeOK, [FileNext]_fileVars PROVE FileTypeOK'
<1> USE SizesAssumption, ModeAssumption
<1>1. CASE UNCHANGED fileVars
  BY <1>1 DEF FileTypeOK, fileVars
<1>2. ASSUME NEW size \in BlockSizes, SetPreallocationBlockSize(size)
      PROVE  FileTypeOK'
  BY <1>2 DEF FileTypeOK, SetPreallocationBlockSize
<1>3. ASSUME NEW len \in Lengths, Append(len)
      PROVE  FileTypeOK'
  <2> DEFINE size == preallocation_block_size
             q == LastBlock(file_size + len, size)
  <2>1. /\ len \in Nat /\ size \in Nat /\ file_size \in Nat
        /\ last_preallocated_block \in Nat /\ file_size + len \in Nat
    BY DEF FileTypeOK
  <2>2. /\ file_size' = file_size + len /\ file_size' <= MaxFileSize
        /\ preallocation_block_size' = preallocation_block_size
    BY <1>3 DEF Append
  <2>3. CASE size # 0 /\ q > last_preallocated_block
    <3>1. last_preallocated_block' = q
      BY <1>3, <2>3 DEF Append, PrepareWrite
    <3>2. Allocate(FirstNewByte(size), size * (q - last_preallocated_block))
      BY <1>3, <2>3 DEF Append, PrepareWrite
    <3>3. q \in Nat /\ q <= file_size + len
      BY <2>1, <2>3, RoundsUp
    <3>4. FirstNewByte(size) \in Nat
      BY <2>1 DEF FirstNewByte
    <3>5. size * (q - last_preallocated_block) \in Int
      BY <2>1, <3>3
    <3> HIDE DEF size, q
    <3> DEFINE from == FirstNewByte(size)
               count == size * (q - last_preallocated_block)
    <3>6. /\ allocated' = allocated \cup (from .. from + count - 1)
          /\ twice' = twice \cup (allocated \cap (from .. from + count - 1))
      BY <3>2 DEF Allocate
    <3>7. from \in Nat /\ count \in Int
      BY <3>4, <3>5
    <3> HIDE DEF from, count
    <3>8. from .. from + count - 1 \subseteq Nat
      BY <3>7
    <3>9. allocated' \subseteq Nat /\ twice' \subseteq Nat
      BY <3>6, <3>8, Zenon DEF FileTypeOK
    <3> QED
      BY <2>1, <2>2, <3>1, <3>3, <3>9 DEF FileTypeOK
  <2>4. CASE ~(size # 0 /\ q > last_preallocated_block)
    <3>1. UNCHANGED <<last_preallocated_block, allocated, twice>>
      BY <1>3, <2>4 DEF Append, PrepareWrite
    <3> QED
      BY <2>1, <2>2, <3>1 DEF FileTypeOK
  <2> QED
    BY <2>3, <2>4
<1> QED
  BY <1>1, <1>2, <1>3 DEF FileNext

(* There are never more blocks than bytes in the file, for all sizes. *)
THEOREM FileTypes == FileSpec => []FileTypeOK
<1>1. FileInit => FileTypeOK
  BY ModeAssumption DEF FileInit, FileTypeOK
<1> QED
  BY <1>1, FileTypeStep, PTL DEF FileSpec

-----------------------------------------------------------------------------
(* An append, while the blocks all have the same size. *)
LEMMA AppendStep ==
    ASSUME FileTypeOK, AllocatesOnce, NEW len \in Lengths, Append(len)
    PROVE  /\ AllocatesOnce'
           /\ preallocation_block_size # 0 => 0 .. file_size' - 1 \subseteq allocated'
<1> DEFINE size == preallocation_block_size
           last == last_preallocated_block
           end == file_size + len
           q == LastBlock(end, size)
<1>1. /\ len \in Nat /\ size \in Nat /\ file_size \in Nat /\ last \in Nat /\ end \in Nat
  BY SizesAssumption, ModeAssumption DEF FileTypeOK
<1>2. file_size' = end /\ preallocation_block_size' = size
  BY DEF Append
<1>3. /\ twice = {} /\ allocated = 0 .. size * last - 1
      /\ last > 0 => size * (last - 1) < file_size
  BY DEF AllocatesOnce
<1>4. size # 0 => /\ q \in Nat
                  /\ end <= size * q
                  /\ q > 0 => size * (q - 1) < end
  BY <1>1, RoundsUp
<1>5. CASE size # 0 /\ q > last
  <2>1. last_preallocated_block' = q
    BY <1>5 DEF Append, PrepareWrite
  <2>2. Allocate(size * last, size * (q - last))
    BY <1>5 DEF Append, PrepareWrite, FirstNewByte
  <2> HIDE DEF size, last, end, q
  <2> DEFINE a == size * last
             b == size * q
             count == size * (q - last)
  <2>3. /\ a \in Nat /\ b \in Nat /\ a <= b
        /\ a + count = b
    BY <1>1, <1>4, <1>5, Bytes
  <2>c. count \in Int
    BY <1>1, <1>4, <1>5
  <2>4. /\ allocated' = allocated \cup (a .. b - 1)
        /\ twice' = twice \cup (allocated \cap (a .. b - 1))
    <3>1. /\ allocated' = allocated \cup (a .. a + count - 1)
          /\ twice' = twice \cup (allocated \cap (a .. a + count - 1))
      BY <2>2 DEF Allocate
    <3> HIDE DEF a, b, count
    <3>2. a + count - 1 = b - 1
      BY <2>3, <2>c
    <3> QED
      BY <3>1, <3>2, Zenon
  <2> HIDE DEF a, b, count
  <2>5. allocated = 0 .. a - 1
    BY <1>3 DEF a
  <2>6. allocated' = 0 .. b - 1 /\ twice' = {}
    <3>1. /\ (0 .. a - 1) \cup (a .. b - 1) = 0 .. b - 1
          /\ (0 .. a - 1) \cap (a .. b - 1) = {}
      BY <2>3, Ranges
    <3> QED
      BY <1>3, <2>4, <2>5, <3>1, Zenon
  <2>7. 0 .. end - 1 \subseteq allocated'
    BY <1>1, <1>4, <1>5, <2>3, <2>6 DEF b
  <2>8. AllocatesOnce'
    BY <1>2, <1>4, <1>5, <2>1, <2>6 DEF AllocatesOnce, b
  <2> QED
    BY <1>2, <2>7, <2>8
<1>6. CASE ~(size # 0 /\ q > last)
  <2>1. UNCHANGED <<last_preallocated_block, allocated, twice>>
    BY <1>6 DEF Append, PrepareWrite
  <2>2. last > 0 => size * (last - 1) < end
    <3>1. size * (last - 1) \in Int
      BY <1>1
    <3> HIDE DEF size, last
    <3> QED
      BY <1>1, <1>3, <3>1
  <2>3. size # 0 => end <= size * last
    <3> SUFFICES ASSUME size # 0 PROVE end <= size * last
      OBVIOUS
    <3>1. q \in Nat /\ q <= last /\ end <= size * q
      BY <1>1, <1>4, <1>6
    <3>2. size * q <= size * last /\ size * q \in Nat /\ size * last \in Nat
      BY <1>1, <3>1, Bytes
    <3> HIDE DEF q, last, size
    <3> QED
      BY <1>1, <3>1, <3>2
  <2>4. size * last \in Nat
    BY <1>1
  <2>5. AllocatesOnce'
    BY <1>2, <1>3, <2>1, <2>2 DEF AllocatesOnce
  <2> HIDE DEF size, last, end
  <2>6. size # 0 => 0 .. end - 1 \subseteq allocated
    BY <1>1, <1>3, <2>3, <2>4
  <2> QED
    BY <1>2, <2>1, <2>5, <2>6 DEF size
<1> QED
  BY <1>5, <1>6

(* The block size is set only while there are no blocks. *)
LEMMA SizeStep ==
    ASSUME FileTypeOK, AllocatesOnce, ~SizeChanges,
           NEW size \in BlockSizes, SetPreallocationBlockSize(size)
    PROVE  AllocatesOnce'
<1>1. /\ last_preallocated_block = 0 /\ last_preallocated_block' = 0
      /\ preallocation_block_size' = size
      /\ allocated' = allocated /\ twice' = twice
  BY DEF SetPreallocationBlockSize
<1>2. size \in Nat /\ preallocation_block_size \in Nat
  BY SizesAssumption DEF FileTypeOK
<1>3. preallocation_block_size * 0 = 0 /\ size * 0 = 0
  BY <1>2
<1> QED
  BY <1>1, <1>3 DEF AllocatesOnce

(* FileTypeOK and AllocatesOnce together are inductive. *)
LEMMA FileInvariance ==
    ASSUME ~SizeChanges PROVE FileSpec => [](FileTypeOK /\ AllocatesOnce)
<1>1. FileInit => FileTypeOK /\ AllocatesOnce
  BY ModeAssumption DEF FileInit, FileTypeOK, AllocatesOnce
<1>2. FileTypeOK /\ AllocatesOnce /\ [FileNext]_fileVars => (FileTypeOK /\ AllocatesOnce)'
  <2> SUFFICES ASSUME FileTypeOK, AllocatesOnce, [FileNext]_fileVars
               PROVE  FileTypeOK' /\ AllocatesOnce'
    OBVIOUS
  <2>1. CASE UNCHANGED fileVars
    BY <2>1 DEF fileVars, FileTypeOK, AllocatesOnce
  <2>2. CASE FileNext
    BY <2>2, FileTypeStep, AppendStep, SizeStep DEF FileNext
  <2> QED
    BY <2>1, <2>2
<1> QED
  BY <1>1, <1>2, PTL DEF FileSpec

(* PrepareWrite allocates every byte once, and never a whole block more    *)
(* than the data needs.                                                    *)
THEOREM NoWaste == ASSUME ~SizeChanges PROVE FileSpec => []AllocatesOnce
BY FileInvariance, PTL

(* When data is written, PrepareWrite has allocated the bytes up to its    *)
(* end, those of earlier writes without preallocation included.            *)
THEOREM Coverage == ASSUME ~SizeChanges PROVE FileSpec => WritesAreCovered
<1>1. /\ FileTypeOK /\ AllocatesOnce /\ [FileNext]_fileVars
      => [file_size' > file_size /\ preallocation_block_size # 0
             => 0 .. file_size' - 1 \subseteq allocated']_fileVars
  <2> SUFFICES ASSUME FileTypeOK, AllocatesOnce, FileNext,
                      file_size' > file_size, preallocation_block_size # 0
               PROVE  0 .. file_size' - 1 \subseteq allocated'
    OBVIOUS
  <2>1. PICK len \in Lengths : Append(len)
    <3>1. file_size \in Int
      BY ModeAssumption DEF FileTypeOK
    <3> QED
      BY <3>1 DEF FileNext, SetPreallocationBlockSize
  <2> QED
    BY <2>1, AppendStep
<1> QED
  BY <1>1, FileInvariance, PTL DEF FileSpec, WritesAreCovered
=============================================================================

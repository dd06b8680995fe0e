------------------------------ MODULE EnvCalls ------------------------------
(***************************************************************************)
(* Threads that call an Env through wrappers and keep what it returns in a *)
(* Status variable:  s = env->LockFile(f, &l);  The Status that the Env    *)
(* constructs is returned without a copy; it is the temporary that the     *)
(* variable is assigned from and that is destroyed at the semicolon.       *)
(***************************************************************************)
EXTENDS Status

CONSTANTS Threads, Args, Calls, Wrappers, base

VARIABLES
    pc, request, performed, result, wrapped, target_, at, frame,
    answer    \* what the Env answered to the call that s was last assigned from

E == INSTANCE EnvWrapper

ASSUME CallsAssumption == E!WellFormed

envVars == <<pc, request, performed, result, wrapped, target_, at, frame>>
allVars == <<vars, envVars, answer>>

Var(t) == <<"s", t>>
Tmp(t) == <<"temporary", t>>
Variables == {Var(t) : t \in Threads}

ASSUME ObjsAssumption == \A t \in Threads : {Var(t), Tmp(t)} \subseteq Objs

CallsInit == Init /\ E!Init /\ answer = [t \in Threads |-> "none"]

Wrap(w, e) == E!Wrap(w, e) /\ UNCHANGED <<vars, answer>>

Call(t, e, c) ==
    /\ Var(t) \in live /\ Tmp(t) \notin live
    /\ E!Call(t, e, c)
    /\ UNCHANGED <<vars, answer>>

Forward(t) == E!Forward(t) /\ UNCHANGED <<vars, answer>>

(* The Env returns a Status for all but seven of its methods. *)
Execute(t) ==
    /\ E!Execute(t)
    /\ CASE result'[t] = "OK" -> ConstructOK(Tmp(t))
         [] result'[t] \in Kinds ->
              \E m \in Messages : ConstructError(Tmp(t), result'[t], m)
         [] OTHER -> UNCHANGED vars
    /\ UNCHANGED answer

Return(t) ==
    /\ E!Answer(t)
    /\ IF Tmp(t) \in live
       THEN Assign(Var(t), Tmp(t)) /\ answer' = [answer EXCEPT ![t] = result[t]]
       ELSE UNCHANGED <<vars, answer>>

EndStatement(t) ==
    /\ pc[t] = "idle" /\ Destroy(Tmp(t))
    /\ UNCHANGED <<envVars, answer>>

(* Between calls, the variables are copied, assigned and destroyed. *)
UseVariables ==
    /\ \A t \in Threads : pc[t] = "idle" /\ Tmp(t) \notin live
    /\ Use(Variables)
    /\ answer' = [t \in Threads |-> "none"]
    /\ UNCHANGED envVars

Next ==
    \/ \E w \in Wrappers : \E e \in E!Envs : Wrap(w, e)
    \/ \E t \in Threads :
          \/ \E e \in E!Envs, c \in Calls[t] : Call(t, e, c)
          \/ Forward(t) \/ Execute(t) \/ Return(t) \/ EndStatement(t)
    \/ UseVariables

CallsSpec == CallsInit /\ [][Next]_allVars

-----------------------------------------------------------------------------
(* What a caller reads from its own variable is what the Env answered to   *)
(* the call of the statement: s.ok(), and which Is... predicate holds,     *)
(* although s is a copy of a Status that was handed through the wrappers   *)
(* and destroyed, and s had another value before.                          *)
VariableTellsAnswer ==
    \A t \in Threads : answer[t] # "none" =>
        /\ ok(Var(t)) <=> answer[t] = "OK"
        /\ \A k \in Kinds : code(Var(t)) = Predicate[k] <=> answer[t] = k

(* "An implementation of Env that forwards all calls to another Env": what *)
(* threads that share wrappers and keep Statuses can observe is a          *)
(* behaviour of threads that call the Env at the end of the chain.         *)
ForwardsAllCalls == E!ForwardsAllCalls
=============================================================================

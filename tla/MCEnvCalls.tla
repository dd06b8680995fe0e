----------------------------- MODULE MCEnvCalls -----------------------------
(* Two threads and two wrappers, each of the base or one of the other.  One *)
(* thread calls all 25 methods, with a different argument for each          *)
(* parameter; the other one that returns a Status and one that does not.    *)
EXTENDS EnvCalls, EnvMethods, TLC

CONSTANTS t1, t2
MCThreads == {t1, t2}
MCObjs == {Var(t) : t \in Threads} \cup {Tmp(t) : t \in Threads}
MCArgs == 1 .. 3
CallsOf(methods) ==
    {[method |-> m, args |-> [j \in DOMAIN Parameters[m] |-> j]] : m \in methods}
MCCalls == [t \in Threads |->
    CallsOf(IF t = t1 THEN Methods ELSE {"RenameFile", "FileExists"})]
Symmetric == Permutations(Arrays) \cup Permutations(Wrappers)
=============================================================================

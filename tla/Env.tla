--------------------------------- MODULE Env ---------------------------------
(***************************************************************************)
(* What an Env (src/include/leveldb/env.h) is to its callers: it carries   *)
(* out each call once, as it was made, at a moment between call and        *)
(* return, and the caller gets what it answered.  The class is abstract;   *)
(* what a call does to files is left open, and so is its answer.           *)
(***************************************************************************)
EXTENDS EnvMethods

CONSTANTS
    Threads,
    Args,       \* what is passed for a parameter
    Calls,      \* the calls that each thread makes
    Kinds       \* the errors that an Env may return

CallsOf(m) == [method : {m}, args : [DOMAIN Parameters[m] -> Args]]

WellFormed == \A t \in Threads : \A c \in Calls[t] : \E m \in Methods : c \in CallsOf(m)

VARIABLES
    pc,          \* of each thread: "idle", "called" or "done"
    request,     \* what each thread has called
    performed,   \* what the Env has done for it
    result       \* and has answered: OK, the kind of an error, or a value

directVars == <<pc, request, performed, result>>

NoCall == [method |-> "", args |-> <<>>]

DirectInit ==
    /\ pc = [t \in Threads |-> "idle"]
    /\ request = [t \in Threads |-> NoCall]
    /\ performed = [t \in Threads |-> NoCall]
    /\ result = [t \in Threads |-> "none"]

Request(t, c) ==
    /\ pc[t] = "idle"
    /\ pc' = [pc EXCEPT ![t] = "called"]
    /\ request' = [request EXCEPT ![t] = c]
    /\ UNCHANGED <<performed, result>>

Answers(c) == IF c.method \in ReturnsNoStatus THEN {"value"} ELSE {"OK"} \cup Kinds

(* The Env carries out call c for t. *)
Perform(t, c) ==
    /\ pc[t] = "called"
    /\ performed' = [performed EXCEPT ![t] = c]
    /\ \E a \in Answers(c) : result' = [result EXCEPT ![t] = a]
    /\ pc' = [pc EXCEPT ![t] = "done"]
    /\ UNCHANGED request

Return(t) ==
    /\ pc[t] = "done"
    /\ pc' = [pc EXCEPT ![t] = "idle"]
    /\ request' = [request EXCEPT ![t] = NoCall]
    /\ performed' = [performed EXCEPT ![t] = NoCall]
    /\ result' = [result EXCEPT ![t] = "none"]

DirectNext ==
    \E t \in Threads :
        \/ \E c \in Calls[t] : Request(t, c)
        \/ Perform(t, request[t])
        \/ Return(t)

DirectSpec == DirectInit /\ [][DirectNext]_directVars
==============================================================================

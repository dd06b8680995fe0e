----------------------------- MODULE EnvWrapper -----------------------------
(***************************************************************************)
(* EnvWrapper (src/include/leveldb/env.h): objects that forward every call *)
(* to their target_, which may be a wrapper again.  A thread inside a call *)
(* is at one of the objects, with the arguments that it was given there.   *)
(***************************************************************************)
EXTENDS Env

CONSTANTS
    Wrappers,
    base       \* the Env at the end of every chain

VARIABLES
    wrapped,   \* the wrappers that were constructed
    target_,   \* of each of them
    at,        \* of each thread inside a call: the object it is at
    frame      \* and the call it makes there

vars == <<directVars, wrapped, target_, at, frame>>

Envs == wrapped \cup {base}

Init ==
    /\ DirectInit
    /\ wrapped = {}
    /\ target_ = [w \in Wrappers |-> base]
    /\ at = [t \in Threads |-> base]
    /\ frame = [t \in Threads |-> NoCall]

(* EnvWrapper(e) *)
Wrap(w, e) ==
    /\ w \in Wrappers \ wrapped /\ e \in Envs
    /\ wrapped' = wrapped \cup {w}
    /\ target_' = [target_ EXCEPT ![w] = e]
    /\ UNCHANGED <<directVars, at, frame>>

(* A client calls a method of e. *)
Call(t, e, c) ==
    /\ e \in Envs
    /\ Request(t, c)
    /\ at' = [at EXCEPT ![t] = e]
    /\ frame' = [frame EXCEPT ![t] = c]
    /\ UNCHANGED <<wrapped, target_>>

-----------------------------------------------------------------------------
(* The methods: the parameters that each takes, the method of target_ that *)
(* its body calls, and which of the parameters it passes on.               *)
Body(takes, calls, passes) == [takes |-> takes, calls |-> calls, passes |-> passes]

NewSequentialFile ==
    Body(<<"f", "r", "options">>, "NewSequentialFile", <<"f", "r", "options">>)
NewRandomAccessFile ==
    Body(<<"f", "r", "options">>, "NewRandomAccessFile", <<"f", "r", "options">>)
NewWritableFile ==
    Body(<<"f", "r", "options">>, "NewWritableFile", <<"f", "r", "options">>)
FileExists == Body(<<"f">>, "FileExists", <<"f">>)
GetChildren == Body(<<"dir", "r">>, "GetChildren", <<"dir", "r">>)
DeleteFile == Body(<<"f">>, "DeleteFile", <<"f">>)
CreateDir == Body(<<"d">>, "CreateDir", <<"d">>)
CreateDirIfMissing == Body(<<"d">>, "CreateDirIfMissing", <<"d">>)
DeleteDir == Body(<<"d">>, "DeleteDir", <<"d">>)
GetFileSize == Body(<<"f", "s">>, "GetFileSize", <<"f", "s">>)
GetFileModificationTime ==
    Body(<<"fname", "file_mtime">>, "GetFileModificationTime", <<"fname", "file_mtime">>)

(* A mutant: the names in the other order. *)
RenameFileBackwards == Body(<<"s", "t">>, "RenameFile", <<"t", "s">>)

RenameFile == Body(<<"s", "t">>, "RenameFile", <<"s", "t">>)
LockFile == Body(<<"f", "l">>, "LockFile", <<"f", "l">>)
UnlockFile == Body(<<"l">>, "UnlockFile", <<"l">>)
Schedule == Body(<<"f", "a">>, "Schedule", <<"f", "a">>)
StartThread == Body(<<"f", "a">>, "StartThread", <<"f", "a">>)
GetTestDirectory == Body(<<"path">>, "GetTestDirectory", <<"path">>)
NewLogger == Body(<<"fname", "result">>, "NewLogger", <<"fname", "result">>)
NowMicros == Body(<<>>, "NowMicros", <<>>)
SleepForMicroseconds == Body(<<"micros">>, "SleepForMicroseconds", <<"micros">>)
GetHostName == Body(<<"name", "len">>, "GetHostName", <<"name", "len">>)
GetCurrentTime == Body(<<"unix_time">>, "GetCurrentTime", <<"unix_time">>)
GetAbsolutePath ==
    Body(<<"db_path", "output_path">>, "GetAbsolutePath", <<"db_path", "output_path">>)
SetBackgroundThreads == Body(<<"num">>, "SetBackgroundThreads", <<"num">>)
TimeToString == Body(<<"time">>, "TimeToString", <<"time">>)

Bodies == [
    NewSequentialFile |-> NewSequentialFile, NewRandomAccessFile |-> NewRandomAccessFile,
    NewWritableFile |-> NewWritableFile, FileExists |-> FileExists,
    GetChildren |-> GetChildren, DeleteFile |-> DeleteFile, CreateDir |-> CreateDir,
    CreateDirIfMissing |-> CreateDirIfMissing, DeleteDir |-> DeleteDir,
    GetFileSize |-> GetFileSize, GetFileModificationTime |-> GetFileModificationTime,
    RenameFile |-> RenameFile, LockFile |-> LockFile, UnlockFile |-> UnlockFile,
    Schedule |-> Schedule, StartThread |-> StartThread,
    GetTestDirectory |-> GetTestDirectory, NewLogger |-> NewLogger,
    NowMicros |-> NowMicros, SleepForMicroseconds |-> SleepForMicroseconds,
    GetHostName |-> GetHostName, GetCurrentTime |-> GetCurrentTime,
    GetAbsolutePath |-> GetAbsolutePath, SetBackgroundThreads |-> SetBackgroundThreads,
    TimeToString |-> TimeToString]

(* The call that a body makes of target_ with the arguments it was given. *)
Passed(b, args) ==
    [j \in DOMAIN b.passes |->
        args[CHOOSE k \in DOMAIN b.takes : b.takes[k] = b.passes[j]]]

Forwarded(c) ==
    LET b == Bodies[c.method]
    IN [method |-> b.calls, args |-> Passed(b, c.args)]

Forward(t) ==
    /\ pc[t] = "called" /\ at[t] \in wrapped
    /\ at' = [at EXCEPT ![t] = target_[at[t]]]
    /\ frame' = [frame EXCEPT ![t] = Forwarded(frame[t])]
    /\ UNCHANGED <<directVars, wrapped, target_>>

Execute(t) ==
    /\ at[t] = base
    /\ Perform(t, frame[t])
    /\ UNCHANGED <<wrapped, target_, at, frame>>

(* Every body returns what target_ returned; one that is void returns. *)
Answer(t) ==
    /\ Return(t)
    /\ at' = [at EXCEPT ![t] = base]
    /\ frame' = [frame EXCEPT ![t] = NoCall]
    /\ UNCHANGED <<wrapped, target_>>

Next ==
    \/ \E w \in Wrappers : \E e \in Envs : Wrap(w, e)
    \/ \E t \in Threads :
          \/ \E e \in Envs, c \in Calls[t] : Call(t, e, c)
          \/ Forward(t)
          \/ Execute(t)
          \/ Answer(t)

Spec == Init /\ [][Next]_vars

-----------------------------------------------------------------------------
(* "An implementation of Env that forwards all calls to another Env": for  *)
(* its callers, calling through any chain of wrappers is calling the Env   *)
(* at its end, which sees each call once and as it was made, whatever      *)
(* other threads call meanwhile.                                           *)
ForwardsAllCalls == DirectSpec
=============================================================================

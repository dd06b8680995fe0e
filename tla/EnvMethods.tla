----------------------------- MODULE EnvMethods -----------------------------
(***************************************************************************)
(* The interface of Env (src/include/leveldb/env.h).                       *)
(***************************************************************************)
EXTENDS Integers, Sequences

(* The methods and their parameters. *)
Parameters == [
    NewSequentialFile |-> <<"fname", "result", "options">>,
    NewRandomAccessFile |-> <<"fname", "result", "options">>,
    NewWritableFile |-> <<"fname", "result", "options">>,
    FileExists |-> <<"fname">>,
    GetChildren |-> <<"dir", "result">>,
    DeleteFile |-> <<"fname">>,
    CreateDir |-> <<"dirname">>,
    CreateDirIfMissing |-> <<"dirname">>,
    DeleteDir |-> <<"dirname">>,
    GetFileSize |-> <<"fname", "file_size">>,
    GetFileModificationTime |-> <<"fname", "file_mtime">>,
    RenameFile |-> <<"src", "target">>,
    LockFile |-> <<"fname", "lock">>,
    UnlockFile |-> <<"lock">>,
    Schedule |-> <<"function", "arg">>,
    StartThread |-> <<"function", "arg">>,
    GetTestDirectory |-> <<"path">>,
    NewLogger |-> <<"fname", "result">>,
    NowMicros |-> <<>>,
    SleepForMicroseconds |-> <<"micros">>,
    GetHostName |-> <<"name", "len">>,
    GetCurrentTime |-> <<"unix_time">>,
    GetAbsolutePath |-> <<"db_path", "output_path">>,
    SetBackgroundThreads |-> <<"number">>,
    TimeToString |-> <<"time">>]

Methods == DOMAIN Parameters

ReturnsNoStatus == {"FileExists", "Schedule", "StartThread", "NowMicros",
    "SleepForMicroseconds", "SetBackgroundThreads", "TimeToString"}
=============================================================================

----------------------------- MODULE AtomicFile -----------------------------
(***************************************************************************)
(* What state_store promises of each of its files ("temporary file, fsync, *)
(* atomic rename"): a reader always finds one complete value, that of a    *)
(* write which was called, and a write that fails or dies changes nothing. *)
(* A value is on the disk at some time after its write: a power failure    *)
(* may take the file back, but only to the value it had before.            *)
(***************************************************************************)
CONSTANTS
    Values,      \* what is written
    Nothing,     \* the file does not exist; writing it is removing the file
    Writers      \* the tasks that may write it

VARIABLES
    content,     \* what a reader finds
    stable,      \* what survives a power failure
    write        \* the write each task is in

fileVars == <<content, stable, write>>

Contents == Values \cup {Nothing}
NoWrite == [at |-> "rest"]
WriteState ==
    {NoWrite} \cup [at: {"called", "done"}, value: Contents]

FileInit ==
    /\ content \in Contents
    /\ stable = content
    /\ write = [w \in Writers |-> NoWrite]

CallWrite(w, v) ==
    /\ write[w] = NoWrite
    /\ write' = [write EXCEPT ![w] = [at |-> "called", value |-> v]]
    /\ UNCHANGED <<content, stable>>

(* The one moment at which the file changes.                               *)
TakeEffect(w) ==
    /\ write[w].at = "called"
    /\ content' = write[w].value
    /\ write' = [write EXCEPT ![w].at = "done"]
    /\ UNCHANGED stable

ReturnOk(w) ==
    /\ write[w].at = "done"
    /\ write' = [write EXCEPT ![w] = NoWrite]
    /\ UNCHANGED <<content, stable>>

ReturnErr(w) ==
    /\ write[w].at = "called"
    /\ write' = [write EXCEPT ![w] = NoWrite]
    /\ UNCHANGED <<content, stable>>

ReachDisk ==
    /\ stable' = content
    /\ UNCHANGED <<content, write>>

ProcessDies ==
    /\ write' = [w \in Writers |-> NoWrite]
    /\ UNCHANGED <<content, stable>>

PowerFails ==
    /\ write' = [w \in Writers |-> NoWrite]
    /\ content' = stable
    /\ UNCHANGED stable

FileNext ==
    \/ \E w \in Writers :
          \/ \E v \in Contents : CallWrite(w, v)
          \/ TakeEffect(w) \/ ReturnOk(w) \/ ReturnErr(w)
    \/ ReachDisk \/ ProcessDies \/ PowerFails

FileSpec == FileInit /\ [][FileNext]_fileVars
=============================================================================

----------------------------- MODULE StateStore -----------------------------
(***************************************************************************)
(* One file of the state store, at the level of the file system: the names *)
(* `file' and `.file.tmp' (one and the same for every writer), the inodes  *)
(* they name, and atomic_write_text and clear_snapshot call by call.  A    *)
(* store call never awaits, but the runtime has several threads and the    *)
(* store no lock: calls for one file may overlap, see health_monitor's     *)
(* persist_runtime and the controller's mark_disabled.                     *)
(***************************************************************************)
EXTENDS Naturals

CONSTANTS
    Values, Nothing, Writers,
    Length,      \* the length of each value's text
    Inodes       \* bound: inodes in use at one time

ASSUME StateStoreAssumption ==
    /\ Nothing \notin Values \cup Inodes
    /\ "empty" \notin Values /\ "torn" \notin Values
    /\ Length \in [Values -> Nat \ {0}]

VARIABLES
    data,      \* what a read of each inode returns
    synced,    \* inodes whose data reached the disk
    final,     \* the inode `file' names, Nothing if there is no such file
    tmp,       \* the inode `.file.tmp' names
    journal,   \* what `file' names after a power failure
    call       \* the store call each task is in

ssVars == <<data, synced, final, tmp, journal, call>>

Data == Values \cup {"empty", "torn"}
Name == Inodes \cup {Nothing}
CallPc == {"rest", "create", "write", "sync", "rename", "exists", "remove",
           "return"}
CallState == [pc: CallPc, value: Values \cup {Nothing}, ino: Name]

AtRest == [pc |-> "rest", value |-> Nothing, ino |-> Nothing]

Now(w, p) == call[w].pc = p
Then(w, p) == call' = [call EXCEPT ![w].pc = p]
Return(w) == call' = [call EXCEPT ![w] = AtRest]

InUse(i) == i \in {final, tmp, journal} \/ \E w \in Writers : call[w].ino = i

-----------------------------------------------------------------------------
(* save_config, save_runtime, save_snapshot with a value; clear_snapshot   *)
(* with Nothing.                                                           *)
Call(w, v) ==
    /\ Now(w, "rest")
    /\ call' = [call EXCEPT ![w] =
                  [pc |-> IF v = Nothing THEN "exists" ELSE "create",
                   value |-> v, ino |-> Nothing]]
    /\ UNCHANGED <<data, synced, final, tmp, journal>>

(* File::create: truncates the file that has this name, if there is one.   *)
Create(w) ==
    /\ Now(w, "create")
    /\ \E i \in Inodes :
          /\ IF tmp = Nothing THEN ~InUse(i) ELSE i = tmp
          /\ tmp' = i
          /\ data' = [data EXCEPT ![i] = "empty"]
          /\ synced' = synced \ {i}
          /\ call' = [call EXCEPT ![w].pc = "write", ![w].ino = i]
    /\ UNCHANGED <<final, journal>>


(* write_all from this handle's own offset 0: a longer text already in the *)
(* inode keeps its tail.                                                   *)
Overwritten(old, new) ==
    IF old \in Values /\ Length[old] > Length[new] THEN "torn" ELSE new

WriteAll(w) ==
    /\ Now(w, "write")
    /\ data' = [data EXCEPT ![call[w].ino] = Overwritten(@, call[w].value)]
    /\ synced' = synced \ {call[w].ino}
    /\ Then(w, "sync")
    /\ UNCHANGED <<final, tmp, journal>>

(* Mutant: no fsync.                                                       *)
NoSync(w) ==
    /\ Now(w, "sync")
    /\ Then(w, "rename")
    /\ UNCHANGED <<data, synced, final, tmp, journal>>

SyncAll(w) ==
    /\ Now(w, "sync")
    /\ synced' = synced \cup {call[w].ino}
    /\ Then(w, "rename")
    /\ UNCHANGED <<data, final, tmp, journal>>

(* The rename is of the name, whichever inode it stands for by now, and an *)
(* error when another call has renamed it away.  The fsync of the          *)
(* directory that follows may fail unnoticed.                              *)
Rename(w) ==
    /\ Now(w, "rename")
    /\ IF tmp = Nothing
       THEN Return(w) /\ UNCHANGED <<final, tmp>>
       ELSE final' = tmp /\ tmp' = Nothing /\ Then(w, "return")
    /\ UNCHANGED <<data, synced, journal>>

(* clear_snapshot                                                          *)
Exists(w) ==
    /\ Now(w, "exists")
    /\ Then(w, IF final = Nothing THEN "return" ELSE "remove")
    /\ UNCHANGED <<data, synced, final, tmp, journal>>

RemoveFile(w) ==
    /\ Now(w, "remove")
    /\ IF final = Nothing
       THEN Return(w) /\ UNCHANGED final
       ELSE final' = Nothing /\ Then(w, "return")
    /\ UNCHANGED <<data, synced, tmp, journal>>

ReturnValue(w) ==
    /\ Now(w, "return")
    /\ Return(w)
    /\ UNCHANGED <<data, synced, final, tmp, journal>>

(* Any of the calls before the last fails (a full disk, a virus scanner    *)
(* holding the file); a failing write may have written a part.             *)
IoError(w) ==
    /\ call[w].pc \in {"create", "write", "sync", "rename", "remove"}
    /\ data' \in IF Now(w, "write")
                 THEN {data, [data EXCEPT ![call[w].ino] = "torn"]}
                 ELSE {data}
    /\ Return(w)
    /\ UNCHANGED <<synced, final, tmp, journal>>

-----------------------------------------------------------------------------
(* The file system writes its journal when it likes.                       *)
JournalReachesDisk ==
    /\ journal' = final
    /\ UNCHANGED <<data, synced, final, tmp, call>>

ServiceDies ==
    /\ call' = [w \in Writers |-> AtRest]
    /\ UNCHANGED <<data, synced, final, tmp, journal>>

(* Data that was not synced may be lost, wholly or in part; the temporary  *)
(* name may or may not be there.                                           *)
PowerFailure ==
    /\ call' = [w \in Writers |-> AtRest]
    /\ final' = journal
    /\ tmp' \in {tmp, Nothing} \ {journal}
    /\ data' \in [Inodes -> Data]
    /\ \A i \in Inodes :
          data'[i] \in IF i \in synced THEN {data[i]}
                       ELSE {data[i], "empty", "torn"}
    /\ synced' = Inodes
    /\ UNCHANGED journal

SSInit ==
    \E i \in Inodes, v \in Values :
        /\ data = [j \in Inodes |-> v]
        /\ synced = Inodes
        /\ final \in {i, Nothing}
        /\ journal = final
        /\ tmp = Nothing
        /\ call = [w \in Writers |-> AtRest]

SSNext ==
    \/ \E w \in Writers :
          \/ \E v \in Values \cup {Nothing} : Call(w, v)
          \/ Create(w) \/ WriteAll(w) \/ SyncAll(w) \/ Rename(w)
          \/ Exists(w) \/ RemoveFile(w) \/ ReturnValue(w) \/ IoError(w)
    \/ JournalReachesDisk \/ ServiceDies \/ PowerFailure

SSSpec == SSInit /\ [][SSNext]_ssVars

-----------------------------------------------------------------------------
SSTypeOK ==
    /\ data \in [Inodes -> Data]
    /\ synced \subseteq Inodes
    /\ {final, tmp, journal} \subseteq Name
    /\ call \in [Writers -> CallState]

(* read_json: what a reader makes of a name.                               *)
Read(name) == IF name = Nothing THEN Nothing ELSE data[name]

(* A restart never finds a truncated or torn file, which it would silently *)
(* take for the defaults (read_json): not while a write is under way, not  *)
(* after a crash, not after a power failure.                               *)
FileIsWhole ==
    /\ Read(final) \in Values \cup {Nothing}
    /\ Read(journal) \in Values \cup {Nothing}

Atomic ==
    INSTANCE AtomicFile WITH
        content <- Read(final),
        stable <- Read(journal),
        write <- [w \in Writers |->
                    IF Now(w, "rest") THEN [at |-> "rest"]
                    ELSE [at |-> IF Now(w, "return") THEN "done" ELSE "called",
                          value |-> call[w].value]]

(* The store implements an atomic file: every change a reader can see is   *)
(* the whole effect of one call (state_store.rs, atomic_write_text).       *)
IsAtomicFile == Atomic!FileSpec
=============================================================================

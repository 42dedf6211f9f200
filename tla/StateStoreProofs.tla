-------------------------- MODULE StateStoreProofs --------------------------
(***************************************************************************)
(* Theorems about one file of the state store with one writer: a reader    *)
(* always finds a whole value, and the store implements AtomicFile, for    *)
(* any values, lengths and inodes, and I/O errors, crashes and power       *)
(* failures at any step.                                                   *)
(***************************************************************************)
EXTENDS StateStore, TLAPS

(* What a name that a reader may follow stands for: a whole value that is  *)
(* on the disk, or no file.                                                *)
Whole(name) == name # Nothing => data[name] \in Values /\ name \in synced

(* The temporary name never stands for a file a reader may find.           *)
TmpApart == tmp # Nothing => tmp # final /\ tmp # journal

(* atomic_write_text and clear_snapshot, at each place of a call.          *)
CallSound(w) ==
    /\ call[w].pc \in {"create", "write", "sync", "rename"} =>
          call[w].value \in Values
    /\ call[w].pc \in {"write", "sync", "rename"} =>
          tmp # Nothing /\ call[w].ino = tmp
    /\ Now(w, "write") => data[tmp] = "empty"
    /\ call[w].pc \in {"sync", "rename"} => data[tmp] = call[w].value
    /\ Now(w, "rename") => tmp \in synced
    /\ call[w].pc \in {"exists", "remove"} => call[w].value = Nothing
    /\ Now(w, "remove") => final # Nothing

SSInv ==
    /\ SSTypeOK
    /\ Whole(final) /\ Whole(journal)
    /\ TmpApart
    /\ \A w \in Writers : CallSound(w)

OneWriter == \A v, w \in Writers : v = w

(* The two ways a call's record changes.                                   *)
LEMMA ThenTypes ==
    ASSUME SSTypeOK, NEW w \in Writers, NEW p \in CallPc, Then(w, p)
    PROVE  /\ call' \in [Writers -> CallState]
           /\ call'[w].pc = p /\ call'[w].value = call[w].value
           /\ call'[w].ino = call[w].ino
  BY DEF SSTypeOK, Then, CallState

(* A call that returns leaves its writer at rest.                          *)
LEMMA ReturnTypes ==
    ASSUME SSTypeOK, NEW w \in Writers, Return(w)
    PROVE  call' \in [Writers -> CallState] /\ call'[w] = AtRest
  BY DEF SSTypeOK, Return, AtRest, CallState, CallPc, Name

(* Initially there is no temporary file and nobody writes.                 *)
LEMMA InitHasInv == SSInit => SSInv
<1>. SUFFICES ASSUME SSInit PROVE SSInv
  OBVIOUS
<1>1. PICK i \in Inodes, v \in Values :
         /\ data = [j \in Inodes |-> v] /\ synced = Inodes
         /\ final \in {i, Nothing} /\ journal = final /\ tmp = Nothing
         /\ call = [w \in Writers |-> AtRest]
  BY DEF SSInit
<1>2. SSTypeOK
  BY <1>1 DEF SSTypeOK, Data, Name, AtRest, CallState, CallPc
<1>3. \A w \in Writers : call[w].pc = "rest"
  BY <1>1 DEF AtRest
<1>. QED
  BY <1>1, <1>2, <1>3 DEF SSInv, Whole, TmpApart, CallSound, Now

(* Every step of the only writer there is.                                 *)
LEMMA WriterKeepsInv ==
    ASSUME OneWriter, SSInv, NEW w \in Writers,
           \/ \E v \in Values \cup {Nothing} : Call(w, v)
           \/ Create(w) \/ WriteAll(w) \/ SyncAll(w) \/ Rename(w)
           \/ Exists(w) \/ RemoveFile(w) \/ ReturnValue(w) \/ IoError(w)
    PROVE  SSInv'
<1>. USE StateStoreAssumption DEF Now
<1>0. /\ SSTypeOK /\ TmpApart /\ Whole(final) /\ Whole(journal)
      /\ CallSound(w) /\ \A v \in Writers : v = w
      /\ call \in [Writers -> CallState] /\ call[w] \in CallState
      /\ data \in [Inodes -> Data] /\ synced \subseteq Inodes
      /\ {final, tmp, journal} \subseteq Inodes \cup {Nothing}
  BY DEF SSInv, SSTypeOK, OneWriter, Name
<1>p. CallPc = {"rest", "create", "write", "sync", "rename", "exists",
                "remove", "return"}
  BY DEF CallPc
<1>1. ASSUME NEW v \in Values \cup {Nothing}, Call(w, v) PROVE SSInv'
  <2>. DEFINE r == [pc |-> IF v = Nothing THEN "exists" ELSE "create",
                    value |-> v, ino |-> Nothing]
  <2>1. r \in CallState
    BY <1>p DEF CallState, Name
  <2>2. call' = [call EXCEPT ![w] = r]
    BY <1>1 DEF Call
  <2>3. /\ call' \in [Writers -> CallState]
        /\ call'[w].pc = (IF v = Nothing THEN "exists" ELSE "create")
        /\ call'[w].value = v
    BY <1>0, <2>1, <2>2
  <2>. QED
    BY <1>0, <1>1, <2>3
    DEF Call, SSInv, SSTypeOK, Whole, TmpApart, CallSound
<1>2. CASE Create(w)
  <2>1. PICK i \in Inodes :
           /\ IF tmp = Nothing THEN ~InUse(i) ELSE i = tmp
           /\ tmp' = i /\ data' = [data EXCEPT ![i] = "empty"]
           /\ synced' = synced \ {i}
           /\ call' = [call EXCEPT ![w].pc = "write", ![w].ino = i]
           /\ UNCHANGED <<final, journal>>
    BY <1>2 DEF Create
  <2>2. i # final /\ i # journal /\ i # Nothing
    BY <1>0, <2>1 DEF TmpApart, InUse
  <2>3. /\ call' \in [Writers -> CallState]
        /\ call'[w].pc = "write" /\ call'[w].ino = i
        /\ call'[w].value = call[w].value
    BY <1>0, <1>p, <2>1 DEF CallState, Name
  <2>4. data' \in [Inodes -> Data] /\ data'[i] = "empty"
    BY <1>0, <2>1 DEF Data
  <2>5. call[w].value \in Values
    BY <1>0, <1>2 DEF Create, CallSound
  <2>. QED
    BY <1>0, <2>1, <2>2, <2>3, <2>4, <2>5
    DEF SSInv, SSTypeOK, Whole, TmpApart, CallSound, Name
<1>3. CASE WriteAll(w)
  <2>1. /\ call[w].ino = tmp /\ tmp # Nothing /\ data[tmp] = "empty"
        /\ call[w].value \in Values
    BY <1>0, <1>3 DEF WriteAll, CallSound
  <2>2. /\ data' = [data EXCEPT ![tmp] = call[w].value]
        /\ synced' = synced \ {tmp} /\ Then(w, "sync")
        /\ UNCHANGED <<final, tmp, journal>>
    BY <1>3, <2>1 DEF WriteAll, Overwritten
  <2>3. data' \in [Inodes -> Data] /\ data'[tmp] = call[w].value
    BY <1>0, <2>1, <2>2 DEF Data
  <2>4. /\ call' \in [Writers -> CallState]
        /\ call'[w].pc = "sync" /\ call'[w].value = call[w].value
        /\ call'[w].ino = call[w].ino
    BY <1>0, <1>p, <2>2, ThenTypes
  <2>. QED
    BY <1>0, <2>1, <2>2, <2>3, <2>4
    DEF SSInv, SSTypeOK, Whole, TmpApart, CallSound, Name
<1>4. CASE SyncAll(w)
  <2>1. /\ call' \in [Writers -> CallState]
        /\ call'[w].pc = "rename" /\ call'[w].value = call[w].value
        /\ call'[w].ino = call[w].ino
    BY <1>0, <1>p, <1>4, ThenTypes DEF SyncAll
  <2>. QED
    BY <1>0, <1>4, <2>1
    DEF SyncAll, SSInv, SSTypeOK, Whole, TmpApart, CallSound, Name
<1>5. CASE Rename(w)
  <2>1. /\ tmp # Nothing /\ data[tmp] \in Values /\ tmp \in synced
    BY <1>0, <1>5 DEF Rename, CallSound
  <2>2. /\ final' = tmp /\ tmp' = Nothing
        /\ UNCHANGED <<data, synced, journal>>
        /\ Then(w, "return")
    BY <1>5, <2>1 DEF Rename
  <2>3. /\ call' \in [Writers -> CallState] /\ call'[w].pc = "return"
    BY <1>0, <1>p, <2>2, ThenTypes
  <2>. QED
    BY <1>0, <2>1, <2>2, <2>3
    DEF SSInv, SSTypeOK, Whole, TmpApart, CallSound, Name
<1>6. CASE Exists(w)
  <2>1. PICK p \in {"return", "remove"} :
           Then(w, p) /\ (p = "remove" => final # Nothing)
    BY <1>6 DEF Exists
  <2>2. /\ call' \in [Writers -> CallState]
        /\ call'[w].pc = p /\ call'[w].value = call[w].value
    BY <1>0, <1>p, <2>1, ThenTypes
  <2>. QED
    BY <1>0, <1>6, <2>1, <2>2
    DEF Exists, SSInv, SSTypeOK, Whole, TmpApart, CallSound, Name
<1>7. CASE RemoveFile(w)
  <2>1. /\ final' = Nothing /\ Then(w, "return")
        /\ UNCHANGED <<data, synced, tmp, journal>>
    BY <1>0, <1>7 DEF RemoveFile, CallSound
  <2>2. /\ call' \in [Writers -> CallState] /\ call'[w].pc = "return"
    BY <1>0, <1>p, <2>1, ThenTypes
  <2>. QED
    BY <1>0, <2>1, <2>2
    DEF SSInv, SSTypeOK, Whole, TmpApart, CallSound, Name
<1>8. CASE ReturnValue(w)
  <2>1. call' \in [Writers -> CallState] /\ call'[w].pc = "rest"
    BY <1>0, <1>8, ReturnTypes DEF ReturnValue, AtRest
  <2>. QED
    BY <1>0, <1>8, <2>1
    DEF ReturnValue, SSInv, SSTypeOK, Whole, TmpApart, CallSound, Name
<1>9. CASE IoError(w)
  <2>1. call' \in [Writers -> CallState] /\ call'[w].pc = "rest"
    BY <1>0, <1>9, ReturnTypes DEF IoError, AtRest
  <2>2. \/ data' = data
        \/ /\ tmp # Nothing
           /\ data' = [data EXCEPT ![tmp] = "torn"]
    BY <1>0, <1>9 DEF IoError, CallSound
  <2>3. data' \in [Inodes -> Data]
    BY <1>0, <2>2 DEF Data
  <2>. QED
    BY <1>0, <1>9, <2>1, <2>2, <2>3
    DEF IoError, SSInv, SSTypeOK, Whole, TmpApart, CallSound, Name
<1>. QED
  BY <1>1, <1>2, <1>3, <1>4, <1>5, <1>6, <1>7, <1>8, <1>9

(* The file system, a crash of the service and a power failure.            *)
LEMMA SystemKeepsInv ==
    ASSUME SSInv, JournalReachesDisk \/ ServiceDies \/ PowerFailure
    PROVE  SSInv'
<1>. USE StateStoreAssumption DEF Now
<1>1. CASE JournalReachesDisk
  BY <1>1 DEF JournalReachesDisk, SSInv, SSTypeOK, Whole, TmpApart, CallSound
<1>2. ASSUME call' = [w \in Writers |-> AtRest]
      PROVE  /\ call' \in [Writers -> CallState]
             /\ \A w \in Writers : call'[w].pc = "rest"
  BY <1>2 DEF AtRest, CallState, CallPc, Name
<1>3. CASE ServiceDies
  BY <1>2, <1>3
  DEF ServiceDies, SSInv, SSTypeOK, Whole, TmpApart, CallSound
<1>4. CASE PowerFailure
  <2>1. SSTypeOK'
    BY <1>2, <1>4 DEF PowerFailure, SSInv, SSTypeOK, Name
  <2>2. journal # Nothing =>
           journal \in Inodes /\ data'[journal] = data[journal]
    BY <1>4 DEF PowerFailure, SSInv, SSTypeOK, Name, Whole
  <2>3. Whole(final)' /\ Whole(journal)'
    BY <1>4, <2>2 DEF PowerFailure, SSInv, Whole
  <2>4. TmpApart'
    BY <1>4 DEF PowerFailure, TmpApart, SSInv
  <2>5. \A w \in Writers : CallSound(w)'
    BY <1>2, <1>4 DEF PowerFailure, CallSound
  <2>. QED
    BY <2>1, <2>3, <2>4, <2>5 DEF SSInv
<1>. QED
  BY <1>1, <1>3, <1>4

(* With one writer the temporary file is whole and on the disk before the  *)
(* rename, and never a file a reader may find (atomic_write_text).         *)
THEOREM StoreInvHolds ==
    ASSUME OneWriter
    PROVE  SSSpec => []SSInv
<1>1. SSInv /\ [SSNext]_ssVars => SSInv'
  <2>. SUFFICES ASSUME SSInv, [SSNext]_ssVars PROVE SSInv'
    OBVIOUS
  <2>1. CASE UNCHANGED ssVars
    BY <2>1 DEF ssVars, SSInv, SSTypeOK, Whole, TmpApart, CallSound, Now
  <2>. QED
    BY <2>1, WriterKeepsInv, SystemKeepsInv DEF SSNext
<1>. QED
  BY <1>1, InitHasInv, PTL DEF SSSpec

(* With one writer a restart never finds a truncated or torn file, at      *)
(* whatever step a call fails, the process dies or the power fails         *)
(* (atomic_write_text, read_json).                                         *)
THEOREM FileStaysWhole ==
    ASSUME OneWriter
    PROVE  SSSpec => []FileIsWhole
<1>1. SSInv => FileIsWhole
  BY DEF SSInv, Whole, FileIsWhole, Read
<1>. QED
  BY <1>1, StoreInvHolds, PTL

-----------------------------------------------------------------------------
(* The refinement mapping of IsAtomicFile.                                 *)
Image(c) ==
    IF c.pc = "rest" THEN [at |-> "rest"]
    ELSE [at |-> IF c.pc = "return" THEN "done" ELSE "called",
          value |-> c.value]

Writes ==
    [w \in Writers |->
        IF Now(w, "rest") THEN [at |-> "rest"]
        ELSE [at |-> IF Now(w, "return") THEN "done" ELSE "called",
              value |-> call[w].value]]

(* A step of one call moves the write it stands for, and no other.         *)
LEMMA WritesMove ==
    ASSUME call \in [Writers -> CallState], NEW w \in Writers, NEW r,
           call' = [call EXCEPT ![w] = r]
    PROVE  Writes' = [Writes EXCEPT ![w] = Image(r)]
  BY DEF Writes, Now, Image

(* A step between a call and its effect, or of no call: nothing a reader   *)
(* or a caller can see.                                                    *)
LEMMA Unseen ==
    ASSUME Read(final)' = Read(final), Read(journal)' = Read(journal),
           Writes' = Writes
    PROVE  UNCHANGED Atomic!fileVars
  BY DEF Atomic!fileVars, Writes

(* The step that makes a call's value the file's.                          *)
LEMMA Effect ==
    ASSUME NEW w \in Writers, SSTypeOK,
           call[w].pc \notin {"rest", "return"},
           Then(w, "return"),
           Read(final)' = call[w].value, Read(journal)' = Read(journal)
    PROVE  Atomic!TakeEffect(w)
<1>1. Writes[w] = [at |-> "called", value |-> call[w].value]
  BY DEF Writes, Now
<1>2. \A u \in Writers : call'[u] = IF u = w
                                     THEN [call[w] EXCEPT !.pc = "return"]
                                     ELSE call[u]
  BY DEF Then, SSTypeOK
<1>3. call'[w].pc = "return" /\ call'[w].value = call[w].value
  BY <1>2 DEF SSTypeOK, CallState
<1>4. Writes'[w] = [at |-> "done", value |-> call[w].value]
  BY <1>3 DEF Writes, Now
<1>5. \A u \in Writers \ {w} : Writes'[u] = Writes[u]
  BY <1>2 DEF Writes, Now
<1>6. Writes' = [Writes EXCEPT ![w].at = "done"]
  BY <1>1, <1>4, <1>5 DEF Writes
<1>. QED
  BY <1>1, <1>6 DEF Atomic!TakeEffect, Writes

(* The end of a call, by its success or its error.                         *)
LEMMA Ending ==
    ASSUME NEW w \in Writers, SSTypeOK,
           call[w].pc # "rest", Return(w),
           Read(final)' = Read(final), Read(journal)' = Read(journal)
    PROVE  Atomic!ReturnOk(w) \/ Atomic!ReturnErr(w)
<1>1. Writes[w].at \in {"called", "done"}
  BY DEF Writes, Now
<1>2. Writes' = [Writes EXCEPT ![w] = [at |-> "rest"]]
  BY WritesMove DEF Return, SSTypeOK, Image, AtRest
<1>. QED
  BY <1>1, <1>2 DEF Atomic!ReturnOk, Atomic!ReturnErr, Atomic!NoWrite, Writes

(* A step of the only writer is a step of an atomic file, or unseen.       *)
LEMMA WriterIsAtomic ==
    ASSUME OneWriter, SSInv, NEW w \in Writers,
           \/ \E v \in Values \cup {Nothing} : Call(w, v)
           \/ Create(w) \/ WriteAll(w) \/ SyncAll(w) \/ Rename(w)
           \/ Exists(w) \/ RemoveFile(w) \/ ReturnValue(w) \/ IoError(w)
    PROVE  [Atomic!FileNext]_Atomic!fileVars
<1>. USE StateStoreAssumption
<1>0. /\ SSTypeOK /\ TmpApart /\ Whole(final) /\ Whole(journal)
      /\ CallSound(w) /\ \A v \in Writers : v = w
      /\ call \in [Writers -> CallState] /\ call[w] \in CallState
      /\ data \in [Inodes -> Data]
      /\ {final, tmp, journal} \subseteq Inodes \cup {Nothing}
  BY DEF SSInv, SSTypeOK, OneWriter, Name
<1>1. ASSUME NEW p \in CallPc, Then(w, p),
             call[w].pc \notin {"rest", "return"},
             p \notin {"rest", "return"}
      PROVE  Writes' = Writes
  <2>1. /\ call'[w].pc = p /\ call'[w].value = call[w].value
    BY <1>0, <1>1, ThenTypes
  <2>. QED
    BY <1>0, <1>1, <2>1 DEF Writes, Now
<1>2. ASSUME \A i \in Inodes : i # tmp => data'[i] = data[i],
             UNCHANGED <<final, journal>>
      PROVE  Read(final)' = Read(final) /\ Read(journal)' = Read(journal)
  BY <1>0, <1>2 DEF Read, TmpApart
<1>3. ASSUME NEW v \in Values \cup {Nothing}, Call(w, v)
      PROVE  Atomic!CallWrite(w, v)
  <2>. DEFINE r == [pc |-> IF v = Nothing THEN "exists" ELSE "create",
                    value |-> v, ino |-> Nothing]
  <2>1. Writes' = [Writes EXCEPT ![w] = Image(r)]
    BY <1>0, <1>3, WritesMove DEF Call
  <2>2. Image(r) = [at |-> "called", value |-> v]
    BY DEF Image
  <2>3. Writes[w] = [at |-> "rest"]
    BY <1>3 DEF Call, Writes
  <2>. HIDE DEF r
  <2>. QED
    BY <1>3, <2>1, <2>2, <2>3
    DEF Call, Atomic!CallWrite, Atomic!NoWrite, Writes, Read
<1>4. CASE Create(w)
  <2>1. PICK i \in Inodes :
           /\ IF tmp = Nothing THEN ~InUse(i) ELSE i = tmp
           /\ data' = [data EXCEPT ![i] = "empty"]
           /\ call' = [call EXCEPT ![w].pc = "write", ![w].ino = i]
           /\ UNCHANGED <<final, journal>>
    BY <1>4 DEF Create
  <2>2. i # final /\ i # journal
    BY <1>0, <2>1 DEF TmpApart, InUse
  <2>3. Read(final)' = Read(final) /\ Read(journal)' = Read(journal)
    BY <1>0, <2>1, <2>2 DEF Read
  <2>4. call'[w].pc = "write" /\ call'[w].value = call[w].value
    BY <1>0, <2>1 DEF CallState
  <2>5. Writes' = Writes
    BY <1>0, <1>4, <2>4 DEF Create, Writes, Now
  <2>. QED
    BY <2>3, <2>5, Unseen
<1>5. CASE WriteAll(w)
  <2>1. call[w].ino = tmp
    BY <1>0, <1>5 DEF WriteAll, CallSound, Now
  <2>2. Read(final)' = Read(final) /\ Read(journal)' = Read(journal)
    BY <1>0, <1>2, <1>5, <2>1 DEF WriteAll
  <2>. QED
    BY <1>1, <1>5, <2>2, Unseen DEF WriteAll, Now, CallPc
<1>6. CASE SyncAll(w)
  BY <1>1, <1>2, <1>6, Unseen DEF SyncAll, Now, CallPc
<1>7. CASE Rename(w)
  <2>1. /\ tmp # Nothing /\ data[tmp] = call[w].value
    BY <1>0, <1>7 DEF Rename, CallSound, Now
  <2>. QED
    BY <1>0, <1>7, <2>1, Effect DEF Rename, Read, Now, Atomic!FileNext
<1>8. CASE Exists(w)
  <2>1. Read(final)' = Read(final) /\ Read(journal)' = Read(journal)
    BY <1>8 DEF Exists, Read
  <2>2. CASE final = Nothing
    <3>1. call[w].value = Nothing /\ Read(final)' = Nothing
      BY <1>0, <1>8, <2>1, <2>2 DEF Exists, CallSound, Now, Read
    <3>. QED
      BY <1>0, <1>8, <2>1, <2>2, <3>1, Effect
      DEF Exists, Now, Atomic!FileNext
  <2>3. CASE final # Nothing
    BY <1>1, <1>8, <2>1, <2>3, Unseen DEF Exists, Now, CallPc
  <2>. QED
    BY <2>2, <2>3
<1>9. CASE RemoveFile(w)
  <2>1. final # Nothing /\ call[w].value = Nothing
    BY <1>0, <1>9 DEF RemoveFile, CallSound, Now
  <2>. QED
    BY <1>0, <1>9, <2>1, Effect DEF RemoveFile, Read, Now, Atomic!FileNext
<1>10. CASE ReturnValue(w)
  BY <1>0, <1>10, Ending DEF ReturnValue, Read, Now, Atomic!FileNext
<1>11. CASE IoError(w)
  <2>1. \A i \in Inodes : i # tmp => data'[i] = data[i]
    BY <1>0, <1>11 DEF IoError, CallSound, Now
  <2>2. Read(final)' = Read(final) /\ Read(journal)' = Read(journal)
    BY <1>2, <1>11, <2>1 DEF IoError
  <2>. QED
    BY <1>0, <1>11, <2>2, Ending DEF IoError, Now, Atomic!FileNext
<1>. QED
  BY <1>3, <1>4, <1>5, <1>6, <1>7, <1>8, <1>9, <1>10, <1>11
  DEF Atomic!FileNext, Atomic!Contents

(* The journal, a crash and a power failure are those of an atomic file.   *)
LEMMA SystemIsAtomic ==
    ASSUME SSInv, JournalReachesDisk \/ ServiceDies \/ PowerFailure
    PROVE  Atomic!ReachDisk \/ Atomic!ProcessDies \/ Atomic!PowerFails
<1>1. CASE JournalReachesDisk
  BY <1>1 DEF JournalReachesDisk, Atomic!ReachDisk, Read, Now
<1>2. ASSUME call' = [w \in Writers |-> AtRest]
      PROVE  Writes' = [w \in Writers |-> [at |-> "rest"]]
  BY <1>2 DEF AtRest, Writes, Now
<1>3. CASE ServiceDies
  BY <1>2, <1>3
  DEF ServiceDies, Atomic!ProcessDies, Atomic!NoWrite, Read, Writes
<1>4. CASE PowerFailure
  <2>1. journal # Nothing => data'[journal] = data[journal]
    BY <1>4 DEF PowerFailure, SSInv, SSTypeOK, Name, Whole
  <2>2. Read(final)' = Read(journal) /\ Read(journal)' = Read(journal)
    BY <1>4, <2>1 DEF PowerFailure, Read
  <2>. QED
    BY <1>2, <1>4, <2>2
    DEF PowerFailure, Atomic!PowerFails, Atomic!NoWrite, Writes
<1>. QED
  BY <1>1, <1>3, <1>4

(* With one writer the store implements an atomic file: a reader sees the  *)
(* whole effect of a call or nothing of it, and a power failure takes the  *)
(* file back to an earlier whole value at most (atomic_write_text,         *)
(* clear_snapshot).                                                        *)
THEOREM StoreIsAtomic ==
    ASSUME OneWriter
    PROVE  SSSpec => IsAtomicFile
<1>1. SSInit => Atomic!FileInit
  <2>. SUFFICES ASSUME SSInit PROVE Atomic!FileInit
    OBVIOUS
  <2>1. PICK i \in Inodes, v \in Values :
           /\ data = [j \in Inodes |-> v] /\ final \in {i, Nothing}
           /\ journal = final /\ call = [w \in Writers |-> AtRest]
    BY DEF SSInit
  <2>2. Writes = [w \in Writers |-> [at |-> "rest"]]
    BY <2>1 DEF Writes, Now, AtRest
  <2>. QED
    BY <2>1, <2>2
    DEF Atomic!FileInit, Atomic!Contents, Atomic!NoWrite, Read, Writes
<1>2. SSInv /\ [SSNext]_ssVars => [Atomic!FileNext]_Atomic!fileVars
  <2>. SUFFICES ASSUME SSInv, [SSNext]_ssVars
                PROVE  [Atomic!FileNext]_Atomic!fileVars
    OBVIOUS
  <2>1. CASE UNCHANGED ssVars
    <3>1. Writes' = Writes /\ Read(final)' = Read(final)
          /\ Read(journal)' = Read(journal)
      BY <2>1 DEF ssVars, Writes, Now, Read
    <3>. QED
      BY <3>1, Unseen
  <2>. QED
    BY <2>1, WriterIsAtomic, SystemIsAtomic DEF SSNext, Atomic!FileNext
<1>. QED
  BY <1>1, <1>2, StoreInvHolds, PTL
  DEF SSSpec, IsAtomicFile, Atomic!FileSpec
=============================================================================

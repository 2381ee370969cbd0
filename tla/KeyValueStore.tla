----------------------------- MODULE KeyValueStore -----------------------------
(***************************************************************************)
(* The key-value store of the POSIX platform                               *)
(* (PAL/POSIX/HAPPlatformKeyValueStore.c, HAPPlatformFileManager.c): one   *)
(* file per key, replaced by writing a temporary file and renaming it.     *)
(* A step is a system call.  The file system keeps, besides the directory  *)
(* and the files as the program sees them, what survives a loss of power:  *)
(* of the directory one of its states since it was last synchronized, of   *)
(* a file its contents if it was synchronized after the last write, and    *)
(* otherwise anything, which is "Torn" here.                               *)
(***************************************************************************)
EXTENDS Integers

CONSTANTS
    Keys, Domain,   \* the keys, and those of the domain that is purged
    Values,
    CallsFail,      \* whether write, unlink and the fsync of the directory in Set may fail
    FsyncFails,     \* whether the two fsync whose failure is only logged may fail
    Root,           \* whether the process may open a read-only file for writing
    Torn,           \* what is in a file that was not written or not synchronized: anything
    Nothing         \* no file, no value

ASSUME KeyValueStoreAssumption ==
    /\ Domain \subseteq Keys
    /\ {Torn, Nothing} \cap Values = {} /\ Torn # Nothing

VARIABLES
    dir,            \* the directory: for each name its file or Nothing
    past,           \* the states of the directory since it was last synchronized
    op,             \* the operation in progress
    may             \* ghost: the values that a key may have, now and after a loss of power

kvsVars == <<dir, past, op, may>>

\* The file of a key, and the temporary file next to it.
Path(k) == <<k, "">>
TmpPath(k) == <<k, "-tmp">>
Names == {Path(k) : k \in Keys} \cup {TmpPath(k) : k \in Keys}

NoOp == [kind |-> "none"]
NoFile == [contents |-> Nothing, synced |-> TRUE]
EmptyFile == [contents |-> Torn, synced |-> FALSE]
Exists(n) == dir[n] # NoFile

KVSInit ==
    /\ dir = [n \in Names |-> NoFile]
    /\ past = {}
    /\ op = NoOp
    /\ may = [k \in Keys |-> {Nothing}]

\* A change of the names is durable once the directory is synchronized.
Link(new) == dir' = new /\ past' = past \cup {dir}
FsyncDir == past' = {} /\ UNCHANGED dir
\* A change of the contents of a file that has a name already.
Change(n, f) == dir' = [dir EXCEPT ![n] = f] /\ UNCHANGED past

-----------------------------------------------------------------------------
(* HAPPlatformKeyValueStoreSet: HAPPlatformFileManagerWriteFile. *)

Set(k, v) ==
    /\ op.kind = "none"
    /\ op' = [kind |-> "open", key |-> k, value |-> v]
    /\ may' = [may EXCEPT ![k] = @ \cup {v}]
    /\ UNCHANGED <<dir, past>>

Fail == CallsFail /\ op' = NoOp

\* The temporary file is created read-only, or truncated when one was left behind;
\* opening that one takes the privilege to ignore its mode.
OpenTmp ==
    /\ op.kind = "open"
    /\ LET tmp == TmpPath(op.key)
       IN  \/ /\ ~Exists(tmp)
              /\ Link([dir EXCEPT ![tmp] = EmptyFile])
              /\ op' = [op EXCEPT !.kind = "write"]
           \/ /\ Exists(tmp) /\ Root
              /\ Change(tmp, EmptyFile)
              /\ op' = [op EXCEPT !.kind = "write"]
           \/ /\ Exists(tmp) /\ ~Root
              /\ op' = [kind |-> "refused"]
              /\ UNCHANGED <<dir, past>>
    /\ UNCHANGED may

\* When a write fails the file is removed by a path relative to the working directory
\* of the process instead of that of the store: it stays.
WriteTmp ==
    /\ op.kind = "write"
    /\ \/ /\ Change(TmpPath(op.key), [contents |-> op.value, synced |-> FALSE])
          /\ op' = [op EXCEPT !.kind = "fsync"]
       \/ Fail /\ UNCHANGED <<dir, past>>
    /\ UNCHANGED may

\* Mutant: the file is renamed without having been synchronized.
MutNotSynchronized ==
    /\ op.kind = "fsync"
    /\ op' = [op EXCEPT !.kind = "fsyncDir"]
    /\ UNCHANGED <<dir, past, may>>

FsyncTmp ==
    /\ op.kind = "fsync"
    /\ \/ Change(TmpPath(op.key), [contents |-> op.value, synced |-> TRUE])
       \/ FsyncFails /\ UNCHANGED <<dir, past>>
    /\ op' = [op EXCEPT !.kind = "fsyncDir"]
    /\ UNCHANGED may

FsyncTmpDir ==
    /\ op.kind = "fsyncDir"
    /\ \/ FsyncDir /\ op' = [op EXCEPT !.kind = "rename"]
       \/ Fail /\ UNCHANGED <<dir, past>>
    /\ UNCHANGED may

Rename ==
    /\ op.kind = "rename"
    /\ \/ /\ Link([dir EXCEPT ![Path(op.key)] = dir[TmpPath(op.key)], ![TmpPath(op.key)] = NoFile])
          /\ op' = [op EXCEPT !.kind = "fsyncRename"]
       \/ Fail /\ UNCHANGED <<dir, past>>
    /\ UNCHANGED may

FsyncRename ==
    /\ op.kind = "fsyncRename"
    /\ \/ FsyncDir /\ op' = NoOp /\ may' = [may EXCEPT ![op.key] = {op.value}]
       \/ Fail /\ UNCHANGED <<dir, past, may>>

-----------------------------------------------------------------------------
(* HAPPlatformKeyValueStoreRemove, and HAPPlatformKeyValueStorePurgeDomain,   *)
(* which removes one by one the keys of the domain that readdir returns.      *)

\* The entries whose name is that of a key of the domain; a temporary file is none.
Enumerated(keys) == {k \in keys : Exists(Path(k))}

StartRemoval(keys) ==
    /\ op.kind = "none"
    /\ op' = [kind |-> "unlink", left |-> Enumerated(keys), removed |-> keys]
    /\ may' = [k \in Keys |-> IF k \in keys THEN may[k] \cup {Nothing} ELSE may[k]]
    /\ UNCHANGED <<dir, past>>

RemoveKey(k) == StartRemoval({k})
PurgeDomain == StartRemoval(Domain)

Unlink ==
    /\ op.kind = "unlink"
    /\ \E k \in op.left :
         \/ /\ Link([dir EXCEPT ![Path(k)] = NoFile])
            /\ op' = [op EXCEPT !.kind = "fsyncUnlink", !.left = @ \ {k}]
         \/ Fail /\ UNCHANGED <<dir, past>>
    /\ UNCHANGED may

FsyncUnlink ==
    /\ op.kind = "fsyncUnlink"
    /\ FsyncDir \/ (FsyncFails /\ UNCHANGED <<dir, past>>)
    /\ op' = [op EXCEPT !.kind = "unlink"]
    /\ UNCHANGED may

EndRemoval ==
    /\ op.kind = "unlink" /\ op.left = {}
    /\ op' = NoOp
    /\ may' = [k \in Keys |-> IF k \in op.removed THEN {Nothing} ELSE may[k]]
    /\ UNCHANGED <<dir, past>>

-----------------------------------------------------------------------------
\* One of the states of the directory survives, and what was synchronized of its files.
PowerLoss ==
    /\ \E d \in past \cup {dir} :
         /\ dir' = [n \in Names |-> [contents |-> IF d[n].synced THEN d[n].contents ELSE Torn,
                                     synced |-> TRUE]]
         /\ may' = [k \in Keys |-> {d[Path(k)].contents}]
    /\ past' = {}
    /\ op' = NoOp

KVSNext ==
    \/ \E k \in Keys, v \in Values : Set(k, v)
    \/ OpenTmp \/ WriteTmp \/ FsyncTmp \/ FsyncTmpDir \/ Rename \/ FsyncRename
    \/ \E k \in Keys : RemoveKey(k)
    \/ PurgeDomain \/ Unlink \/ FsyncUnlink \/ EndRemoval
    \/ PowerLoss
KVSSpec == KVSInit /\ [][KVSNext]_kvsVars

-----------------------------------------------------------------------------
KVSTypeOK ==
    /\ past \cup {dir} \subseteq
          [Names -> [contents : Values \cup {Torn, Nothing}, synced : BOOLEAN]]
    /\ may \in [Keys -> SUBSET (Values \cup {Nothing})]

\* "This guarantees atomicity in case of power failure."
\* (HAPPlatformKeyValueStore+Init.h)  Whatever was lost, a key has the value last set,
\* or one that was being set, or was set with an error, since.  A removed key stays
\* removed, and a purge touches no other domain.
ValueSurvives ==
    \A k \in Keys, d \in past \cup {dir} :
        d[Path(k)].contents \in may[k] /\ d[Path(k)].synced

\* Setting a key fails only when a call of the file system does: what an earlier failure
\* or a loss of power left behind is no obstacle.
SetRecovers == op.kind # "refused"
=============================================================================

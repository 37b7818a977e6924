------------------------------ MODULE VaultFile ------------------------------
(***************************************************************************)
(* EncryptedFileVault of src/vault.rs: processes (asb vault init, asb      *)
(* secret add and delete, asb doctor, and the broker's reads) that share   *)
(* one vault file, one key file and one lock file.                         *)
(*                                                                         *)
(* A step is one call of the file system or a group of calls between which *)
(* no other process can tell a difference.  Process crashes, power loss    *)
(* and failing calls are steps of the environment.  What a power failure   *)
(* may leave of a file is kept beside the file: vaultDisk and keyDisk hold *)
(* every content that may be found, and fsync of a file or of a directory  *)
(* is what makes them smaller.                                             *)
(***************************************************************************)
EXTENDS Integers, FiniteSets

CONSTANTS
    Procs,          \* processes; a process id may be used again after a crash
    Ids,            \* credential ids
    Values,         \* secrets
    NoValue,        \* no secret under this id, no argument
    NoFile,         \* no such file
    NoProc,         \* nobody holds the lock
    Ops,            \* the commands that are run
    Provisioned,    \* the vault and its key exist, on disk, in the initial state
    SameDirectory,  \* the key file lies in the directory of the vault
    MaxOps,         \* bound: commands that are run
    MaxCrashes,     \* bound: processes that die inside a command
    MaxPowerLosses, \* bound: power failures
    MaxFaults       \* bound: file system calls that fail

ASSUME VaultFileAssumption ==
    /\ Ops \subseteq {"init", "set", "delete", "get", "validate"}
    /\ {Provisioned, SameDirectory} \subseteq BOOLEAN
    /\ {MaxOps, MaxCrashes, MaxPowerLosses, MaxFaults} \subseteq Nat
    /\ NoValue \notin Values \cup Ids /\ NoProc \notin Procs

VARIABLES
    vault,      \* the vault file: NoFile, or [key, secrets, whole]
    vaultDisk,  \* what a power failure may leave of it
    key,        \* the key file: NoFile, or [id, whole]
    keyDisk,    \* what a power failure may leave of it
    keys,       \* how many keys getrandom has produced
    tmp,        \* process ids whose temporary file exists
    lock,       \* who holds the lock on the lock file
    proc,       \* proc[p]: where process p is and what it holds in memory
    kept,       \* history: ids that a set has stored for good and no delete took away
    overlooked, \* history: kept ids that were in a vault a command replaced unseen
    created,    \* history: an initialisation has reported success
    spent       \* how much of each bound is used up

vars == <<vault, vaultDisk, key, keyDisk, keys, tmp, lock, proc, kept, overlooked, created,
          spent>>

Empty == [i \in Ids |-> NoValue]
Secrets == [Ids -> Values \cup {NoValue}]
Vaults == [key : Nat, secrets : Secrets, whole : BOOLEAN]
Keys == [id : Nat, whole : BOOLEAN]

ASSUME NoFileAssumption == NoFile \notin Vaults \cup Keys \cup Secrets

Idle == [pc |-> "idle", op |-> "none", id |-> NoValue, val |-> NoValue,
         plain |-> Empty, key |-> 0, disk |-> {}, ok |-> FALSE, blind |-> FALSE]

Points == {"idle", "check", "create_key", "write_key", "sync_key", "lock", "load",
           "recheck", "save", "write", "sync", "rename", "sync_directory",
           "unlock", "cleanup", "return"}

Commands ==
    [pc : Points, op : Ops \cup {"none"}, id : Ids \cup {NoValue},
     val : Values \cup {NoValue}, plain : Secrets, key : Nat,
     disk : SUBSET Vaults, ok : BOOLEAN, blind : BOOLEAN]

TypeOK ==
    /\ vault \in Vaults \cup {NoFile} /\ vaultDisk \subseteq Vaults \cup {NoFile}
    /\ key \in Keys \cup {NoFile} /\ keyDisk \subseteq Keys \cup {NoFile}
    /\ vault \in vaultDisk /\ key \in keyDisk
    /\ keys \in Nat
    /\ tmp \subseteq Procs
    /\ lock \in Procs \cup {NoProc}
    /\ proc \in [Procs -> Commands]
    /\ kept \subseteq Ids /\ overlooked \subseteq Ids /\ created \in BOOLEAN
    /\ spent \in [ops : 0..MaxOps, crashes : 0..MaxCrashes,
                  outages : 0..MaxPowerLosses, faults : 0..MaxFaults]

-----------------------------------------------------------------------------
\* Once its directory is synced the key's entry is on disk, or its absence is;
\* how much of the contents is on disk is another matter.
KeyEntryOnDisk ==
    IF key = NoFile THEN {NoFile}
    ELSE {k \in keyDisk \ {NoFile} : k.id = key.id}

\* read_key succeeds; a key file that is not complete does not decode.
KeyReadable == key # NoFile /\ key.whole

\* The file has its magic header and decrypts under the key that is read.
Decrypts == vault # NoFile /\ KeyReadable /\ vault.whole /\ vault.key = key.id

Loaded == IF vault = NoFile THEN Empty ELSE vault.secrets

\* The arguments that a command takes.
Fits(op, i, v) ==
    /\ op \in {"init", "validate"} <=> i = NoValue
    /\ op = "set" <=> v # NoValue

\* Updates of one process and one counter.
Goto(p, point) == proc' = [proc EXCEPT ![p].pc = point]
Fail(p, point) == proc' = [proc EXCEPT ![p].pc = point, ![p].ok = FALSE]
Spend(what) == spent' = [spent EXCEPT ![what] = @ + 1]
At(p, point) == proc[p].pc = point

files == <<vault, vaultDisk, key, keyDisk, keys, tmp>>
histories == <<kept, overlooked, created>>

-----------------------------------------------------------------------------
Init ==
    /\ LET v == [key |-> 1, secrets |-> Empty, whole |-> TRUE]
           k == [id |-> 1, whole |-> TRUE]
       IN  IF Provisioned THEN vault = v /\ key = k /\ keys = 1
           ELSE vault = NoFile /\ key = NoFile /\ keys = 0
    /\ vaultDisk = {vault} /\ keyDisk = {key}
    /\ tmp = {} /\ lock = NoProc
    /\ proc = [p \in Procs |-> Idle]
    /\ kept = {} /\ overlooked = {} /\ created = Provisioned
    /\ spent = [ops |-> 0, crashes |-> 0, outages |-> 0, faults |-> 0]

\* A command starts.
Start(p) ==
    /\ At(p, "idle") /\ spent.ops < MaxOps
    /\ \E op \in Ops, i \in Ids \cup {NoValue}, v \in Values \cup {NoValue} :
          /\ Fits(op, i, v)
          /\ proc' = [proc EXCEPT ![p] =
                [Idle EXCEPT !.pc = IF op = "init" THEN "check" ELSE "lock",
                             !.op = op, !.id = i, !.val = v]]
    /\ Spend("ops")
    /\ UNCHANGED <<files, lock, histories>>

\* initialize: the first test of the vault path, outside the lock.
CheckAbsent(p) ==
    /\ At(p, "check")
    /\ IF vault = NoFile THEN Goto(p, "create_key") ELSE Fail(p, "return")
    /\ UNCHANGED <<files, lock, histories, spent>>

CreateKeyAnyway(p) ==
    /\ At(p, "create_key")
    /\ keys' = keys + 1
    /\ key' = [id |-> keys + 1, whole |-> FALSE]
    /\ keyDisk' = keyDisk \cup {key'}
    /\ proc' = [proc EXCEPT ![p].pc = "write_key", ![p].key = keys + 1]
    /\ UNCHANGED <<vault, vaultDisk, tmp, lock, histories, spent>>

\* create_new: refuses a key file that exists, and initialize returns at once.
CreateKey(p) ==
    /\ At(p, "create_key")
    /\ IF key = NoFile
       THEN /\ keys' = keys + 1
            /\ key' = [id |-> keys + 1, whole |-> FALSE]
            /\ keyDisk' = keyDisk \cup {key'}
            /\ proc' = [proc EXCEPT ![p].pc = "write_key", ![p].key = keys + 1]
       ELSE Fail(p, "return") /\ UNCHANGED <<key, keyDisk, keys>>
    /\ UNCHANGED <<vault, vaultDisk, tmp, lock, histories, spent>>

WriteKey(p) ==
    /\ At(p, "write_key")
    /\ IF key # NoFile /\ key.id = proc[p].key
       THEN key' = [key EXCEPT !.whole = TRUE] /\ keyDisk' = keyDisk \cup {key'}
       ELSE UNCHANGED <<key, keyDisk>>
    /\ Goto(p, "sync_key")
    /\ UNCHANGED <<vault, vaultDisk, keys, tmp, lock, histories, spent>>

\* sync_all of the key file: its bytes are on disk, its directory entry need not be.
SyncKey(p) ==
    /\ At(p, "sync_key")
    /\ keyDisk' = {k \in keyDisk : k = NoFile \/ k.id # proc[p].key \/ k.whole}
    /\ Goto(p, "lock")
    /\ UNCHANGED <<vault, vaultDisk, key, keys, tmp, lock, histories, spent>>

-----------------------------------------------------------------------------
LockNotExclusive(p) == TRUE

LockFree(p) == lock = NoProc

\* with_lock_value: flock on the lock file.
Lock(p) ==
    /\ At(p, "lock") /\ LockFree(p)
    /\ lock' = p
    /\ Goto(p, IF proc[p].op = "init" THEN "recheck" ELSE "load")
    /\ UNCHANGED <<files, histories, spent>>

\* initialize under the lock: the vault may have appeared meanwhile.
Recheck(p) ==
    /\ At(p, "recheck")
    /\ IF vault = NoFile THEN Goto(p, "save") ELSE Fail(p, "unlock")
    /\ UNCHANGED <<files, lock, histories, spent>>

\* load_plain and the closure of the command: a vault that is missing is empty,
\* one that does not decrypt is an error.
Load(p) ==
    /\ At(p, "load")
    /\ LET c == proc[p]
           readable == vault = NoFile \/ Decrypts
           present == c.id # NoValue /\ Loaded[c.id] # NoValue
       IN  \/ /\ ~readable \/ (c.op \in {"get", "delete"} /\ ~present)
              /\ Fail(p, "unlock")
           \/ /\ readable /\ c.op = "validate"
              /\ proc' = [proc EXCEPT ![p].pc = "unlock", ![p].ok = TRUE]
           \/ /\ readable /\ c.op = "get" /\ present
              /\ proc' = [proc EXCEPT ![p].pc = "unlock", ![p].ok = TRUE,
                                      ![p].val = Loaded[c.id]]
           \/ /\ readable /\ (c.op = "set" \/ (c.op = "delete" /\ present))
              /\ proc' = [proc EXCEPT ![p].pc = "save",
                                      ![p].plain = [Loaded EXCEPT ![c.id] = c.val]]
    /\ UNCHANGED <<files, lock, histories, spent>>

\* save_plain: the key is read again, then the temporary file is created.  One
\* that a dead process of the same id left behind is an error, and is removed.
CreateTemporary(p) ==
    /\ At(p, "save")
    /\ IF ~KeyReadable THEN Fail(p, "unlock") /\ UNCHANGED tmp
       ELSE IF p \in tmp THEN Fail(p, "unlock") /\ tmp' = tmp \ {p}
       ELSE /\ tmp' = tmp \cup {p}
            /\ proc' = [proc EXCEPT ![p].pc = "write", ![p].key = key.id]
    /\ UNCHANGED <<vault, vaultDisk, key, keyDisk, keys, lock, histories, spent>>

Sealed(p) == [key |-> proc[p].key, secrets |-> proc[p].plain, whole |-> TRUE]

\* Until it is synced, the disk may hold any part of the temporary file.
WriteTemporary(p) ==
    /\ At(p, "write")
    /\ proc' = [proc EXCEPT ![p].pc = "sync",
                   ![p].disk = {Sealed(p), [Sealed(p) EXCEPT !.whole = FALSE]}]
    /\ UNCHANGED <<files, lock, histories, spent>>

SyncTemporaryMissing(p) ==
    At(p, "sync") /\ Goto(p, "rename") /\ UNCHANGED <<files, lock, histories, spent>>

SyncTemporary(p) ==
    /\ At(p, "sync")
    /\ proc' = [proc EXCEPT ![p].pc = "rename", ![p].disk = {Sealed(p)}]
    /\ UNCHANGED <<files, lock, histories, spent>>

\* The name of the vault now means the new file; on disk it may be either.
Rename(p) ==
    /\ At(p, "rename")
    /\ vault' = Sealed(p)
    /\ vaultDisk' = vaultDisk \cup proc[p].disk
    /\ tmp' = tmp \ {p}
    /\ kept' = IF proc[p].op = "delete" THEN kept \ {proc[p].id} ELSE kept
    /\ overlooked' = IF proc[p].blind THEN overlooked \cup kept ELSE overlooked
    /\ Goto(p, "sync_directory")
    /\ UNCHANGED <<key, keyDisk, keys, lock, created, spent>>

\* History: a set has stored its secret, on disk too.
Keep(p) ==
    IF proc[p].op = "set"
    THEN kept' = kept \cup {proc[p].id} /\ overlooked' = overlooked \ {proc[p].id}
    ELSE UNCHANGED <<kept, overlooked>>

SyncDirectoryBeforeRename(p) ==
    /\ At(p, "sync_directory")
    /\ vaultDisk' = vaultDisk \ proc[p].disk
    /\ proc' = [proc EXCEPT ![p].pc = "unlock", ![p].ok = TRUE]
    /\ Keep(p)
    /\ UNCHANGED <<vault, key, keyDisk, keys, tmp, lock, created, spent>>

\* sync_directory: every entry of the vault's directory is on disk.
SyncDirectory(p) ==
    /\ At(p, "sync_directory")
    /\ vaultDisk' = proc[p].disk
    /\ keyDisk' = IF SameDirectory THEN KeyEntryOnDisk ELSE keyDisk
    /\ proc' = [proc EXCEPT ![p].pc = "unlock", ![p].ok = TRUE]
    /\ Keep(p)
    /\ UNCHANGED <<vault, key, keys, tmp, lock, created, spent>>

\* The lock is given back whether the closure has succeeded or not.
Unlock(p) ==
    /\ At(p, "unlock")
    /\ lock' = NoProc
    /\ Goto(p, IF proc[p].op = "init" /\ ~proc[p].ok THEN "cleanup" ELSE "return")
    /\ UNCHANGED <<files, histories, spent>>

\* initialize after a failure under the lock: removes the key by its path.
RemoveKey(p) ==
    /\ At(p, "cleanup")
    /\ key' = NoFile
    /\ keyDisk' = keyDisk \cup {NoFile}
    /\ Goto(p, "return")
    /\ UNCHANGED <<vault, vaultDisk, keys, tmp, lock, histories, spent>>

\* The command reports its result.
Return(p) ==
    /\ At(p, "return")
    /\ created' = (created \/ (proc[p].op = "init" /\ proc[p].ok))
    /\ proc' = [proc EXCEPT ![p] = Idle]
    /\ UNCHANGED <<files, lock, kept, overlooked, spent>>

-----------------------------------------------------------------------------
\* A call of the file system fails and the command sees it.  Between create_new
\* and rename the temporary file is removed; a key that initialize could not
\* write stays; an unlock that fails makes an error of a result, and closing the
\* file unlocks.  A vault that is missing is not opened.
Fault(p) ==
    /\ spent.faults < MaxFaults
    /\ Spend("faults")
    /\ \/ \E point \in {"check", "create_key", "write_key", "sync_key"} :
             At(p, point) /\ Fail(p, "return") /\ UNCHANGED <<tmp, lock>>
       \/ /\ At(p, "lock") /\ UNCHANGED <<tmp, lock>>
          /\ Fail(p, IF proc[p].op = "init" THEN "cleanup" ELSE "return")
       \/ \E point \in {"load", "save", "sync_directory"} :
             /\ At(p, point) /\ (point = "load" => vault # NoFile)
             /\ Fail(p, "unlock") /\ UNCHANGED <<tmp, lock>>
       \/ \E point \in {"write", "sync", "rename"} :
             At(p, point) /\ Fail(p, "unlock") /\ tmp' = tmp \ {p} /\ UNCHANGED lock
       \/ /\ At(p, "unlock") /\ lock' = NoProc /\ UNCHANGED tmp
          /\ Fail(p, IF proc[p].op = "init" THEN "cleanup" ELSE "return")
    /\ UNCHANGED <<vault, vaultDisk, key, keyDisk, keys, histories>>

\* Path::exists() is false when the stat fails: the command does not see the
\* vault that is there, initialize makes one and load_plain returns an empty map.
StatFails(p) ==
    /\ vault # NoFile
    /\ spent.faults < MaxFaults
    /\ Spend("faults")
    /\ \/ At(p, "check") /\ Goto(p, "create_key")
       \/ /\ At(p, "recheck")
          /\ proc' = [proc EXCEPT ![p].pc = "save", ![p].blind = TRUE]
       \/ /\ At(p, "load") /\ proc[p].op \in {"get", "delete"}
          /\ Fail(p, "unlock")
       \/ /\ At(p, "load") /\ proc[p].op = "validate"
          /\ proc' = [proc EXCEPT ![p].pc = "unlock", ![p].ok = TRUE]
       \/ /\ At(p, "load") /\ proc[p].op = "set"
          /\ proc' = [proc EXCEPT ![p].pc = "save", ![p].blind = TRUE,
                         ![p].plain = [Empty EXCEPT ![proc[p].id] = proc[p].val]]
    /\ UNCHANGED <<files, lock, histories>>

\* A lock that is a file of its own and not the flock of an open one.
CrashKeepsLock(p) ==
    /\ ~At(p, "idle") /\ spent.crashes < MaxCrashes
    /\ Spend("crashes")
    /\ proc' = [proc EXCEPT ![p] = Idle]
    /\ UNCHANGED <<files, lock, histories>>

\* The process dies: the kernel drops its lock, its files stay as they are.
Crash(p) ==
    /\ ~At(p, "idle") /\ spent.crashes < MaxCrashes
    /\ Spend("crashes")
    /\ proc' = [proc EXCEPT ![p] = Idle]
    /\ lock' = IF lock = p THEN NoProc ELSE lock
    /\ UNCHANGED <<files, histories>>

\* Power fails and the machine comes back with what is on its disk.
PowerLoss ==
    /\ spent.outages < MaxPowerLosses
    /\ Spend("outages")
    /\ vault' \in vaultDisk /\ vaultDisk' = {vault'}
    /\ key' \in keyDisk /\ keyDisk' = {key'}
    /\ tmp' \in SUBSET tmp
    /\ lock' = NoProc
    /\ proc' = [p \in Procs |-> Idle]
    /\ UNCHANGED <<keys, histories>>

Step(p) ==
    \/ CheckAbsent(p) \/ CreateKey(p) \/ WriteKey(p) \/ SyncKey(p)
    \/ Recheck(p) \/ Load(p) \/ CreateTemporary(p) \/ WriteTemporary(p)
    \/ SyncTemporary(p) \/ Rename(p) \/ SyncDirectory(p) \/ Unlock(p)
    \/ RemoveKey(p) \/ Return(p)

Next ==
    \/ \E p \in Procs :
          Start(p) \/ Lock(p) \/ Step(p) \/ Fault(p) \/ StatFails(p) \/ Crash(p)
    \/ PowerLoss

Spec == Init /\ [][Next]_vars

\* The operating system runs every process, and serves the waiters of a lock.
FairSpec ==
    /\ Spec
    /\ \A p \in Procs : WF_vars(Step(p)) /\ SF_vars(Lock(p))

-----------------------------------------------------------------------------
\* A credential that a set has stored can be read back until it is deleted,
\* whatever fails in between: vault.rs:271-284, test vault.rs:470-472.
Readable ==
    \A i \in kept : Decrypts /\ vault.secrets[i] # NoValue

\* The one way to lose a stored credential of a vault that is provisioned first
\* is that a command does not see the vault and replaces all of it: vault.rs:180.
ReadableUnlessOverlooked ==
    \A i \in kept \ overlooked : Decrypts /\ vault.secrets[i] # NoValue

\* A vault that an initialisation has reported can be decrypted for good, after
\* races between initialisations, crashes and power failures: vault.rs:129-156.
InitializedForGood == created => Decrypts

\* The key file is never missing beside a vault, so that a failed
\* initialisation can be repeated: main.rs:96, SECURITY.md:38.
KeyMatchesVault == vault # NoFile => Decrypts

\* A command that was started ends, even if a process dies inside the lock
\* (vault.rs:166-177) and although waiters queue without a timeout.
Terminates == \A p \in Procs : ~At(p, "idle") ~> At(p, "idle")

\* The store that CredentialStore speaks about, seen in the files.
Map(v) == IF v = NoFile THEN NoFile ELSE IF v.whole THEN v.secrets ELSE "torn"

StageOf(c) ==
    CASE c.pc = "idle" -> "idle"
      [] c.pc = "sync_directory" -> "committed"
      [] c.pc \in {"unlock", "return", "cleanup"} /\ c.ok -> "done"
      [] c.pc \in {"unlock", "return", "cleanup"} /\ ~c.ok -> "failed"
      [] OTHER -> "open"

RequestOf(c) ==
    [op |-> c.op, id |-> c.id, val |-> IF c.op = "get" THEN NoValue ELSE c.val]

CallOf(c) ==
    [req |-> RequestOf(c), stage |-> StageOf(c),
     answer |-> IF c.op = "get" /\ c.ok THEN c.val ELSE NoValue,
     blind |-> c.blind]

Abstract == INSTANCE CredentialStore WITH
    NoStore <- NoFile,
    store <- Map(vault),
    durable <- {Map(v) : v \in vaultDisk},
    call <- [p \in Procs |-> CallOf(proc[p])]

\* The files implement a crash-safe map with atomic requests: no update is lost
\* between two processes, none is torn, and what is acknowledged is on disk; a
\* process that cannot see the vault replaces it, and by its own change alone.
ImplementsStore == Abstract!Spec
=============================================================================

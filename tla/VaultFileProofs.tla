--------------------------- MODULE VaultFileProofs ---------------------------
(* Proofs about VaultFile, for any processes, credential ids, secrets and    *)
(* commands, any number of crashes, power failures and failing calls, and    *)
(* both layouts of the directories unless a theorem says otherwise.          *)
EXTENDS VaultFile, TLAPS

\* Between flock and unlock (vault.rs:166-177).
Locked == {"load", "recheck", "save", "write", "sync", "rename", "sync_directory", "unlock"}

\* At work on a new vault file that the path does not name yet.
Replacing == {"save", "write", "sync", "rename"}

\* Past the test of the vault path that is made under the lock.
Seeing == Replacing \cup {"sync_directory", "unlock", "cleanup", "return"}

\* The secrets that a command starts from: none where it does not see the vault.
SeenBy(c) == IF c.blind THEN Empty ELSE Loaded

\* The lock excludes: its holder is the one process between flock and unlock.
Exclusive == \A p \in Procs : proc[p].pc \in Locked <=> lock = p

\* What a command carries, by its kind and the point it has reached.
Shaped(c) ==
    /\ c.op \in {"set", "get", "delete"} => c.id \in Ids
    /\ c.op = "set" => c.val \in Values
    /\ c.op \notin {"set", "get"} => c.val = NoValue
    /\ c.op \in {"init", "validate"} => c.id = NoValue
    /\ c.pc \in {"check", "create_key", "write_key", "sync_key", "recheck", "cleanup"}
          => c.op = "init"
    /\ c.pc = "load" => c.op # "init"
    /\ c.pc \in Replacing \cup {"sync_directory"} => c.op \in {"init", "set", "delete"}
    /\ c.op = "init" => c.plain = Empty
    /\ c.blind => c.op \in {"init", "set"} /\ c.pc \in Seeing
    /\ c.ok => c.pc \in {"unlock", "return"}
    /\ c.pc = "idle" <=> c.op = "none"
    /\ c.pc = "idle" => c = Idle

\* The new file is the map that was seen with the one change of its command, it
\* is whole on disk when it is renamed, and nothing has replaced it since.
Prepared(c) ==
    /\ c.pc \in Replacing =>
          /\ c.op = "init" => vault = NoFile \/ c.blind
          /\ c.op \in {"set", "delete"} => c.plain = [SeenBy(c) EXCEPT ![c.id] = c.val]
          /\ c.op = "delete" => Loaded[c.id] # NoValue
    /\ c.pc \in {"rename", "sync_directory"} =>
          c.disk = {[key |-> c.key, secrets |-> c.plain, whole |-> TRUE]}
    /\ c.pc = "sync_directory" =>
          /\ vault = [key |-> c.key, secrets |-> c.plain, whole |-> TRUE]
          /\ c.op = "set" => c.plain[c.id] = c.val

InHand == \A p \in Procs : Shaped(proc[p]) /\ Prepared(proc[p])

\* No torn file has, or may get, the vault's name.
NeverTorn == \A v \in vaultDisk : v # NoFile => v.whole

\* An initialisation that has created the key and may still remove it.
Owner(p) == proc[p].op = "init" /\ proc[p].pc \notin {"check", "create_key", "return"}

\* create_new gives the key file one owner, whose key it stays.
KeyOwned ==
    /\ \A k \in keyDisk : k # NoFile => k.id <= keys
    /\ \A p \in Procs : Owner(p) =>
          /\ key # NoFile /\ key.id = proc[p].key
          /\ proc[p].pc # "write_key" => key.whole
          /\ proc[p].pc \notin {"write_key", "sync_key"} =>
                \A k \in keyDisk : k # NoFile /\ k.id = key.id => k.whole
    /\ \A p, q \in Procs : Owner(p) /\ Owner(q) => p = q

FileInv == TypeOK /\ Exclusive /\ InHand /\ NeverTorn /\ KeyOwned

-----------------------------------------------------------------------------
LEMMA NoFileApart == NoFile \notin Vaults \cup Keys
BY NoFileAssumption



\* The step of one process leaves the commands of the others alone.
Others(p) == \A q \in Procs \ {p} : proc'[q] = proc[q]

\* It goes on with its own, which stays the same command.
Goes(p, point) ==
    /\ proc' \in [Procs -> Commands] /\ Others(p)
    /\ proc'[p].op = proc[p].op /\ proc'[p].id = proc[p].id /\ proc'[p].pc = point
    /\ proc'[p].blind = proc[p].blind

LEMMA Update ==
    ASSUME proc \in [Procs -> Commands], NEW p \in Procs, NEW c \in Commands,
           proc' = [proc EXCEPT ![p] = c]
    PROVE  proc' \in [Procs -> Commands] /\ Others(p) /\ proc'[p] = c
BY DEF Others

LEMMA IdleCommand ==
    /\ Idle \in Commands
    /\ Idle.pc = "idle" /\ Idle.op = "none" /\ Idle.ok = FALSE
    /\ Idle.val = NoValue /\ Idle.id = NoValue /\ Idle.plain = Empty
    /\ Idle.blind = FALSE
BY DEF Idle, Commands, Empty, Secrets, Points

LEMMA GotoEffect ==
    ASSUME proc \in [Procs -> Commands], NEW p \in Procs, NEW point \in Points, Goto(p, point)
    PROVE  /\ Goes(p, point) /\ proc'[p].ok = proc[p].ok /\ proc'[p].val = proc[p].val
           /\ proc'[p].plain = proc[p].plain /\ proc'[p].key = proc[p].key
           /\ proc'[p].disk = proc[p].disk
<1> DEFINE c == [proc[p] EXCEPT !.pc = point]
<1>1. /\ c \in Commands /\ c.pc = point /\ c.ok = proc[p].ok /\ c.op = proc[p].op
      /\ c.id = proc[p].id /\ c.val = proc[p].val /\ c.plain = proc[p].plain
      /\ c.key = proc[p].key /\ c.disk = proc[p].disk
      /\ c.blind = proc[p].blind
  BY DEF Commands
<1>2. proc' = [proc EXCEPT ![p] = c]
  BY DEF Goto
<1> HIDE DEF c
<1> QED
  BY <1>1, <1>2, Update DEF Goes

\* A point with a verdict: Fail, and the end of a command that has succeeded.
LEMMA VerdictEffect ==
    ASSUME proc \in [Procs -> Commands], NEW p \in Procs, NEW point \in Points, NEW b \in BOOLEAN,
           proc' = [proc EXCEPT ![p].pc = point, ![p].ok = b]
    PROVE  /\ Goes(p, point) /\ proc'[p].ok = b /\ proc'[p].val = proc[p].val
           /\ proc'[p].plain = proc[p].plain /\ proc'[p].key = proc[p].key
           /\ proc'[p].disk = proc[p].disk
<1> DEFINE c == [proc[p] EXCEPT !.pc = point, !.ok = b]
<1>1. /\ c \in Commands /\ c.pc = point /\ c.ok = b /\ c.op = proc[p].op
      /\ c.id = proc[p].id /\ c.val = proc[p].val /\ c.plain = proc[p].plain
      /\ c.key = proc[p].key /\ c.disk = proc[p].disk
      /\ c.blind = proc[p].blind
  BY DEF Commands
<1>2. proc' = [proc EXCEPT ![p] = c]
  OBVIOUS
<1> HIDE DEF c
<1> QED
  BY <1>1, <1>2, Update DEF Goes

LEMMA FailEffect ==
    ASSUME proc \in [Procs -> Commands], NEW p \in Procs, NEW point \in Points, Fail(p, point)
    PROVE  /\ Goes(p, point) /\ proc'[p].ok = FALSE /\ proc'[p].val = proc[p].val
           /\ proc'[p].plain = proc[p].plain /\ proc'[p].key = proc[p].key
           /\ proc'[p].disk = proc[p].disk
BY VerdictEffect DEF Fail

LEMMA KeyEffect ==
    ASSUME proc \in [Procs -> Commands], NEW p \in Procs, NEW point \in Points, NEW k \in Nat,
           proc' = [proc EXCEPT ![p].pc = point, ![p].key = k]
    PROVE  /\ Goes(p, point) /\ proc'[p].ok = proc[p].ok /\ proc'[p].val = proc[p].val
           /\ proc'[p].plain = proc[p].plain /\ proc'[p].key = k
           /\ proc'[p].disk = proc[p].disk
<1> DEFINE c == [proc[p] EXCEPT !.pc = point, !.key = k]
<1>1. /\ c \in Commands /\ c.pc = point /\ c.ok = proc[p].ok /\ c.op = proc[p].op
      /\ c.id = proc[p].id /\ c.val = proc[p].val /\ c.plain = proc[p].plain
      /\ c.key = k /\ c.disk = proc[p].disk
      /\ c.blind = proc[p].blind
  BY DEF Commands
<1>2. proc' = [proc EXCEPT ![p] = c]
  OBVIOUS
<1> HIDE DEF c
<1> QED
  BY <1>1, <1>2, Update DEF Goes

LEMMA DiskEffect ==
    ASSUME proc \in [Procs -> Commands], NEW p \in Procs, NEW point \in Points,
           NEW D \in SUBSET Vaults,
           proc' = [proc EXCEPT ![p].pc = point, ![p].disk = D]
    PROVE  /\ Goes(p, point) /\ proc'[p].ok = proc[p].ok /\ proc'[p].val = proc[p].val
           /\ proc'[p].plain = proc[p].plain /\ proc'[p].key = proc[p].key
           /\ proc'[p].disk = D
<1> DEFINE c == [proc[p] EXCEPT !.pc = point, !.disk = D]
<1>1. /\ c \in Commands /\ c.pc = point /\ c.ok = proc[p].ok /\ c.op = proc[p].op
      /\ c.id = proc[p].id /\ c.val = proc[p].val /\ c.plain = proc[p].plain
      /\ c.key = proc[p].key /\ c.disk = D
      /\ c.blind = proc[p].blind
  BY DEF Commands
<1>2. proc' = [proc EXCEPT ![p] = c]
  OBVIOUS
<1> HIDE DEF c
<1> QED
  BY <1>1, <1>2, Update DEF Goes

\* What load_plain and the closure of the command decide.
LEMMA LoadEffect ==
    ASSUME TypeOK, NEW p \in Procs, Load(p),
           proc[p].op \in {"set", "delete"} => proc[p].id \in Ids
    PROVE  \/ Fail(p, "unlock")
           \/ /\ Goes(p, "unlock") /\ proc'[p].ok = TRUE
              /\ proc[p].op \in {"validate", "get"}
              /\ proc[p].op = "validate" => proc'[p].val = proc[p].val
              /\ proc[p].op = "get" =>
                    /\ proc[p].id # NoValue /\ Loaded[proc[p].id] # NoValue
                    /\ proc'[p].val = Loaded[proc[p].id]
              /\ proc'[p].plain = proc[p].plain
           \/ /\ Goes(p, "save") /\ proc'[p].ok = proc[p].ok /\ proc'[p].val = proc[p].val
              /\ proc[p].op \in {"set", "delete"}
              /\ proc[p].op = "delete" => Loaded[proc[p].id] # NoValue
              /\ proc'[p].plain = [Loaded EXCEPT ![proc[p].id] = proc[p].val]
              /\ vault = NoFile \/ Decrypts
<1>0. proc \in [Procs -> Commands]
  BY DEF TypeOK
<1>1. Loaded \in Secrets
  BY DEF TypeOK, Loaded, Empty, Secrets, Vaults
<1>2. CASE /\ proc[p].op = "validate"
           /\ proc' = [proc EXCEPT ![p].pc = "unlock", ![p].ok = TRUE]
  BY <1>0, <1>2, VerdictEffect DEF Points
<1>3. CASE /\ proc[p].op = "get" /\ proc[p].id # NoValue /\ Loaded[proc[p].id] # NoValue
           /\ proc' = [proc EXCEPT ![p].pc = "unlock", ![p].ok = TRUE,
                                   ![p].val = Loaded[proc[p].id]]
  <2>1. proc[p].id \in Ids
    BY <1>0, <1>3 DEF Commands
  <2>2. Loaded[proc[p].id] \in Values \cup {NoValue}
    BY <1>1, <2>1 DEF Secrets
  <2> DEFINE c == [proc[p] EXCEPT !.pc = "unlock", !.ok = TRUE, !.val = Loaded[proc[p].id]]
  <2>3. /\ c \in Commands /\ c.pc = "unlock" /\ c.ok = TRUE /\ c.op = proc[p].op
        /\ c.id = proc[p].id /\ c.val = Loaded[proc[p].id] /\ c.plain = proc[p].plain
        /\ c.blind = proc[p].blind
    <3>1. proc[p] \in Commands /\ "unlock" \in Points
      BY <1>0 DEF Points
    <3> QED
      BY <3>1, <2>2 DEF Commands
  <2>4. proc' = [proc EXCEPT ![p] = c]
    BY <1>3
  <2> HIDE DEF c
  <2> QED
    <3>1. proc' \in [Procs -> Commands] /\ Others(p) /\ proc'[p] = c
      BY <1>0, <2>3, <2>4, Update
    <3>2. Goes(p, "unlock")
      BY <2>3, <3>1 DEF Goes
    <3> QED
      BY <1>3, <2>3, <3>1, <3>2
<1>4. CASE /\ proc[p].op = "set" \/ (proc[p].op = "delete" /\ Loaded[proc[p].id] # NoValue)
           /\ proc' = [proc EXCEPT ![p].pc = "save",
                                   ![p].plain = [Loaded EXCEPT ![proc[p].id] = proc[p].val]]
           /\ vault = NoFile \/ Decrypts
  <2> DEFINE new == [Loaded EXCEPT ![proc[p].id] = proc[p].val]
  <2>1. new \in Secrets
    BY <1>0, <1>1, <1>4 DEF Secrets, Commands
  <2> DEFINE c == [proc[p] EXCEPT !.pc = "save", !.plain = new]
  <2>2. /\ c \in Commands /\ c.pc = "save" /\ c.ok = proc[p].ok /\ c.op = proc[p].op
        /\ c.id = proc[p].id /\ c.val = proc[p].val /\ c.plain = new
        /\ c.blind = proc[p].blind
    <3>1. proc[p] \in Commands /\ "save" \in Points
      BY <1>0 DEF Points
    <3> HIDE DEF new
    <3> QED
      BY <3>1, <2>1 DEF Commands
  <2>3. proc' = [proc EXCEPT ![p] = c]
    BY <1>4
  <2> HIDE DEF c
  <2> QED
    <3>1. proc' \in [Procs -> Commands] /\ Others(p) /\ proc'[p] = c
      BY <1>0, <2>2, <2>3, Update
    <3>2. Goes(p, "save")
      BY <2>2, <3>1 DEF Goes
    <3> QED
      BY <1>4, <2>2, <3>1, <3>2
<1> QED
  BY <1>2, <1>3, <1>4 DEF Load

\* A command as Start makes it.
LEMMA StartEffect ==
    ASSUME TypeOK, NEW p \in Procs, Start(p)
    PROVE  /\ proc' \in [Procs -> Commands] /\ Others(p)
           /\ proc'[p].op \in Ops
           /\ proc'[p].pc = IF proc'[p].op = "init" THEN "check" ELSE "lock"
           /\ proc'[p].op \in {"set", "get", "delete"} => proc'[p].id \in Ids
           /\ proc'[p].op \in {"init", "validate"} => proc'[p].id = NoValue
           /\ IF proc'[p].op = "set" THEN proc'[p].val \in Values ELSE proc'[p].val = NoValue
           /\ proc'[p].plain = Empty /\ proc'[p].ok = FALSE /\ proc'[p].blind = FALSE
<1>1. PICK op \in Ops, i \in Ids \cup {NoValue}, v \in Values \cup {NoValue} :
        /\ Fits(op, i, v)
        /\ proc' = [proc EXCEPT ![p] =
                [Idle EXCEPT !.pc = IF op = "init" THEN "check" ELSE "lock",
                             !.op = op, !.id = i, !.val = v]]
  BY DEF Start
<1> DEFINE point == IF op = "init" THEN "check" ELSE "lock"
           b == [Idle EXCEPT !.pc = point, !.op = op]
           d == [b EXCEPT !.id = i, !.val = v]
<1>2. /\ b \in Commands /\ b.pc = point /\ b.op = op /\ b.plain = Empty /\ b.ok = FALSE
      /\ b.blind = FALSE
  <2>1. ASSUME NEW c \in Commands
        PROVE  /\ [c EXCEPT !.pc = point, !.op = op] \in Commands
               /\ [c EXCEPT !.pc = point, !.op = op].pc = point
               /\ [c EXCEPT !.pc = point, !.op = op].op = op
               /\ [c EXCEPT !.pc = point, !.op = op].plain = c.plain
               /\ [c EXCEPT !.pc = point, !.op = op].ok = c.ok
               /\ [c EXCEPT !.pc = point, !.op = op].blind = c.blind
    BY DEF Commands, Points
  <2> QED
    BY <2>1, IdleCommand
<1>3. /\ d \in Commands /\ d.pc = point
      /\ d.op = op /\ d.id = i /\ d.val = v /\ d.plain = Empty /\ d.ok = FALSE
      /\ d.blind = FALSE
  <2> HIDE DEF b
  <2> QED
    BY <1>2 DEF Commands
<1>4. proc' = [proc EXCEPT ![p] = d]
  BY <1>1
<1> HIDE DEF d
<1> QED
  <2>1. proc' \in [Procs -> Commands] /\ Others(p) /\ proc'[p] = d
    BY <1>3, <1>4, Update DEF TypeOK
  <2>2. /\ op \in {"set", "get", "delete"} => i \in Ids
        /\ op \in {"init", "validate"} => i = NoValue
        /\ IF op = "set" THEN v \in Values ELSE v = NoValue
    BY <1>1 DEF Fits
  <2> QED
    BY <1>1, <1>3, <2>1, <2>2

\* A command that does not see the vault that is there (vault.rs:147, vault.rs:180).
Blinded(p) ==
    /\ proc' \in [Procs -> Commands] /\ Others(p)
    /\ proc'[p].op = proc[p].op /\ proc'[p].id = proc[p].id /\ proc'[p].pc = "save"
    /\ proc'[p].blind = TRUE /\ proc'[p].ok = proc[p].ok /\ proc'[p].val = proc[p].val
    /\ proc'[p].key = proc[p].key
    /\ \/ proc[p].pc = "recheck" /\ proc'[p].plain = proc[p].plain
       \/ /\ proc[p].pc = "load" /\ proc[p].op = "set"
          /\ proc'[p].plain = [Empty EXCEPT ![proc[p].id] = proc[p].val]

\* What a stat that fails makes of a command.
LEMMA StatFailsEffect ==
    ASSUME TypeOK, NEW p \in Procs, StatFails(p), Shaped(proc[p])
    PROVE  \/ proc[p].pc = "check" /\ Goto(p, "create_key")
           \/ proc[p].pc = "load" /\ Fail(p, "unlock")
           \/ /\ proc[p].pc = "load" /\ proc[p].op = "validate"
              /\ Goes(p, "unlock") /\ proc'[p].ok = TRUE /\ proc'[p].key = proc[p].key
              /\ proc'[p].val = proc[p].val /\ proc'[p].plain = proc[p].plain
           \/ Blinded(p)
<1>0. proc \in [Procs -> Commands] /\ proc[p] \in Commands
  BY DEF TypeOK
<1>1. CASE /\ proc[p].pc = "load" /\ proc[p].op = "validate"
           /\ proc' = [proc EXCEPT ![p].pc = "unlock", ![p].ok = TRUE]
  BY <1>0, <1>1, VerdictEffect DEF Points
<1>2. CASE /\ proc[p].pc = "recheck"
           /\ proc' = [proc EXCEPT ![p].pc = "save", ![p].blind = TRUE]
  <2> DEFINE c == [proc[p] EXCEPT !.pc = "save", !.blind = TRUE]
  <2>1. /\ c \in Commands /\ c.pc = "save" /\ c.blind = TRUE /\ c.ok = proc[p].ok
        /\ c.op = proc[p].op /\ c.id = proc[p].id /\ c.val = proc[p].val
        /\ c.plain = proc[p].plain /\ c.key = proc[p].key
    BY <1>0 DEF Commands, Points
  <2>2. proc' = [proc EXCEPT ![p] = c]
    BY <1>2
  <2> HIDE DEF c
  <2>3. proc' \in [Procs -> Commands] /\ Others(p) /\ proc'[p] = c
    BY <1>0, <2>1, <2>2, Update
  <2> QED
    BY <1>2, <2>1, <2>3 DEF Blinded
<1>3. CASE /\ proc[p].pc = "load" /\ proc[p].op = "set"
           /\ proc' = [proc EXCEPT ![p].pc = "save", ![p].blind = TRUE,
                          ![p].plain = [Empty EXCEPT ![proc[p].id] = proc[p].val]]
  <2> DEFINE new == [Empty EXCEPT ![proc[p].id] = proc[p].val]
             c == [proc[p] EXCEPT !.pc = "save", !.blind = TRUE, !.plain = new]
  <2>1. new \in Secrets
    BY <1>0 DEF Empty, Secrets, Commands
  <2>2. proc' = [proc EXCEPT ![p] = c]
    BY <1>3
  <2>3. /\ c \in Commands /\ c.pc = "save" /\ c.blind = TRUE /\ c.ok = proc[p].ok
        /\ c.op = proc[p].op /\ c.id = proc[p].id /\ c.val = proc[p].val
        /\ c.plain = new /\ c.key = proc[p].key
    <3>1. proc[p] \in Commands /\ "save" \in Points
      BY <1>0 DEF Points
    <3> HIDE DEF new
    <3> QED
      BY <3>1, <2>1 DEF Commands
  <2> HIDE DEF c
  <2>4. proc' \in [Procs -> Commands] /\ Others(p) /\ proc'[p] = c
    BY <1>0, <2>2, <2>3, Update
  <2> QED
    BY <1>3, <2>3, <2>4 DEF Blinded
<1> QED
  BY <1>1, <1>2, <1>3 DEF StatFails, At

LEMMA ReturnEffect ==
    ASSUME proc \in [Procs -> Commands], NEW p \in Procs, proc' = [proc EXCEPT ![p] = Idle]
    PROVE  proc' \in [Procs -> Commands] /\ Others(p) /\ proc'[p] = Idle
BY Update, IdleCommand

\* Files as the commands make them.
LEMMA KeyMade ==
    /\ \A n \in Nat : /\ [id |-> n, whole |-> FALSE] \in Keys
                      /\ [id |-> n, whole |-> TRUE] \in Keys
    /\ \A k \in Keys : /\ [k EXCEPT !.whole = TRUE] \in Keys
                       /\ [k EXCEPT !.whole = TRUE].id = k.id
                       /\ [k EXCEPT !.whole = TRUE].whole = TRUE
BY DEF Keys

LEMMA VaultMade ==
    ASSUME proc \in [Procs -> Commands], NEW p \in Procs
    PROVE  /\ Sealed(p) \in Vaults /\ [Sealed(p) EXCEPT !.whole = FALSE] \in Vaults
           /\ Sealed(p).key = proc[p].key /\ Sealed(p).secrets = proc[p].plain
           /\ Sealed(p).whole = TRUE
<1>1. proc[p].key \in Nat /\ proc[p].plain \in Secrets
  BY DEF Commands
<1>2. /\ Sealed(p) \in Vaults
      /\ Sealed(p).key = proc[p].key /\ Sealed(p).secrets = proc[p].plain
      /\ Sealed(p).whole = TRUE
  BY <1>1 DEF Sealed, Vaults
<1>3. \A v \in Vaults : [v EXCEPT !.whole = FALSE] \in Vaults
  BY DEF Vaults
<1> QED
  BY <1>2, <1>3

LEMMA DiskWritten ==
    ASSUME proc \in [Procs -> Commands], NEW p \in Procs
    PROVE  /\ {Sealed(p), [Sealed(p) EXCEPT !.whole = FALSE]} \in SUBSET Vaults
           /\ {Sealed(p)} \in SUBSET Vaults
<1>1. Sealed(p) \in Vaults /\ [Sealed(p) EXCEPT !.whole = FALSE] \in Vaults
  BY VaultMade
<1> QED
  BY <1>1

\* The bounds hold because every use of one is guarded.
LEMMA SpendTyped ==
    ASSUME TypeOK,
           NEW what \in {"ops", "crashes", "outages", "faults"}, Spend(what),
           what = "ops" => spent.ops < MaxOps,
           what = "crashes" => spent.crashes < MaxCrashes,
           what = "outages" => spent.outages < MaxPowerLosses,
           what = "faults" => spent.faults < MaxFaults
    PROVE  spent' \in [ops : 0..MaxOps, crashes : 0..MaxCrashes,
                       outages : 0..MaxPowerLosses, faults : 0..MaxFaults]
BY VaultFileAssumption DEF TypeOK, Spend

LEMMA CreateKeyEffect ==
    ASSUME TypeOK, NEW p \in Procs, CreateKey(p)
    PROVE  \/ /\ key = NoFile /\ keys' = keys + 1 /\ keyDisk' = keyDisk \cup {key'}
              /\ key' \in Keys /\ key'.id = keys + 1 /\ key'.whole = FALSE
              /\ Goes(p, "write_key") /\ proc'[p].ok = proc[p].ok
              /\ proc'[p].val = proc[p].val /\ proc'[p].plain = proc[p].plain
              /\ proc'[p].key = keys + 1
           \/ key # NoFile /\ Fail(p, "return") /\ UNCHANGED <<key, keyDisk, keys>>
<1>1. CASE key = NoFile
  <2>1. keys + 1 \in Nat /\ proc \in [Procs -> Commands]
    BY DEF TypeOK
  <2>2. /\ keys' = keys + 1 /\ keyDisk' = keyDisk \cup {key'}
        /\ key' = [id |-> keys + 1, whole |-> FALSE]
        /\ proc' = [proc EXCEPT ![p].pc = "write_key", ![p].key = keys + 1]
    BY <1>1 DEF CreateKey
  <2>3. key' \in Keys /\ key'.id = keys + 1 /\ key'.whole = FALSE
    BY <2>1, <2>2, KeyMade
  <2>4. "write_key" \in Points
    BY DEF Points
  <2>5. /\ Goes(p, "write_key") /\ proc'[p].ok = proc[p].ok
        /\ proc'[p].val = proc[p].val /\ proc'[p].plain = proc[p].plain
        /\ proc'[p].key = keys + 1
    <3> DEFINE k == keys + 1
    <3>1. k \in Nat /\ proc' = [proc EXCEPT ![p].pc = "write_key", ![p].key = k]
      BY <2>1, <2>2
    <3> HIDE DEF k
    <3>2. /\ Goes(p, "write_key") /\ proc'[p].ok = proc[p].ok
          /\ proc'[p].val = proc[p].val /\ proc'[p].plain = proc[p].plain
          /\ proc'[p].key = k
      BY <2>1, <2>4, <3>1, KeyEffect
    <3> QED
      BY <3>2 DEF k
  <2> QED
    BY <1>1, <2>2, <2>3, <2>5
<1> QED
  BY <1>1 DEF CreateKey

LEMMA CreateTemporaryEffect ==
    ASSUME TypeOK, NEW p \in Procs, CreateTemporary(p)
    PROVE  \/ Goes(p, "unlock") /\ Fail(p, "unlock")
           \/ /\ KeyReadable /\ Goes(p, "write") /\ proc'[p].ok = proc[p].ok
              /\ proc'[p].val = proc[p].val /\ proc'[p].plain = proc[p].plain
              /\ proc'[p].key = key.id
<1>1. proc \in [Procs -> Commands] /\ "write" \in Points /\ "unlock" \in Points
  BY DEF TypeOK, Points
<1>2. CASE KeyReadable /\ p \notin tmp
  <2>1. key.id \in Nat
    BY <1>2 DEF TypeOK, KeyReadable, Keys
  <2>2. proc' = [proc EXCEPT ![p].pc = "write", ![p].key = key.id]
    BY <1>2 DEF CreateTemporary
  <2> QED
    BY <1>1, <1>2, <2>1, <2>2, KeyEffect
<1>3. CASE ~KeyReadable \/ p \in tmp
  BY <1>1, <1>3, FailEffect DEF CreateTemporary
<1> QED
  BY <1>2, <1>3

-----------------------------------------------------------------------------
\* A provisioned vault, and no files at all (main.rs:96).
LEMMA InitInv == Init => FileInv
<1> SUFFICES ASSUME Init PROVE FileInv
  OBVIOUS
<1>1. /\ vault \in Vaults \cup {NoFile} /\ key \in Keys \cup {NoFile} /\ keys \in Nat
      /\ vault # NoFile => vault.whole
      /\ key # NoFile => key.id <= keys
  <2>1. Empty \in Secrets
    BY DEF Empty, Secrets
  <2>2. [key |-> 1, secrets |-> Empty, whole |-> TRUE] \in Vaults
    BY <2>1 DEF Vaults
  <2>3. [id |-> 1, whole |-> TRUE] \in Keys /\ [id |-> 1, whole |-> TRUE].id = 1
    BY KeyMade
  <2>4. CASE Provisioned
    <3>1. vault = [key |-> 1, secrets |-> Empty, whole |-> TRUE] /\ vault.whole = TRUE
      BY <2>4 DEF Init
    <3>2. key = [id |-> 1, whole |-> TRUE] /\ keys = 1
      BY <2>4 DEF Init
    <3> QED
      BY <2>2, <2>3, <3>1, <3>2
  <2>5. CASE ~Provisioned
    BY <2>5 DEF Init
  <2> QED
    BY <2>4, <2>5
<1>2. proc \in [Procs -> Commands] /\ \A p \in Procs : proc[p] = Idle
  BY IdleCommand DEF Init
<1>3. TypeOK
  BY <1>1, <1>2, VaultFileAssumption DEF Init, TypeOK
<1>4. Exclusive
  BY <1>2, IdleCommand, VaultFileAssumption DEF Init, Exclusive, Locked
<1>5. InHand
  BY <1>2, IdleCommand DEF InHand, Shaped, Prepared, Replacing, SeenBy
<1>6. NeverTorn /\ KeyOwned
  BY <1>1, <1>2, IdleCommand DEF Init, NeverTorn, KeyOwned, Owner
<1> QED
  BY <1>3, <1>4, <1>5, <1>6 DEF FileInv

\* The types survive every step: the part that is not obvious is that the files
\* stay among what a power failure may leave of them.
LEMMA TypeStep == FileInv /\ [Next]_vars => TypeOK'
<1> SUFFICES ASSUME FileInv, [Next]_vars PROVE TypeOK'
  OBVIOUS
<1> USE DEF FileInv
<1>0. proc \in [Procs -> Commands]
  BY DEF TypeOK
<1>1. ASSUME NEW p \in Procs, Start(p) PROVE TypeOK'
  <2>1. proc' \in [Procs -> Commands]
    BY <1>1, StartEffect
  <2>2. spent' \in [ops : 0..MaxOps, crashes : 0..MaxCrashes,
                    outages : 0..MaxPowerLosses, faults : 0..MaxFaults]
    BY <1>1, SpendTyped DEF Start
  <2> QED
    BY <1>1, <2>1, <2>2 DEF TypeOK, Start, files, histories
<1>2. ASSUME NEW p \in Procs, CheckAbsent(p) \/ Recheck(p) \/ Lock(p) \/ Unlock(p) PROVE TypeOK'
  <2>1. proc' \in [Procs -> Commands]
    BY <1>0, <1>2, GotoEffect, FailEffect
       DEF CheckAbsent, Recheck, Lock, Unlock, Goes, Points
  <2> QED
    BY <1>2, <2>1 DEF TypeOK, CheckAbsent, Recheck, Lock, Unlock, files, histories
<1>3. ASSUME NEW p \in Procs, CreateKey(p) PROVE TypeOK'
  <2>1. proc' \in [Procs -> Commands]
    BY <1>0, <1>3, CreateKeyEffect, FailEffect DEF Goes, Points
  <2>2. keys' \in Nat /\ key' \in Keys \cup {NoFile} /\ key' \in keyDisk'
        /\ keyDisk' \subseteq Keys \cup {NoFile}
    <3>1. keys + 1 \in Nat
      BY DEF TypeOK
    <3>2. CASE UNCHANGED <<key, keyDisk, keys>>
      BY <3>2 DEF TypeOK
    <3>3. CASE keys' = keys + 1 /\ keyDisk' = keyDisk \cup {key'} /\ key' \in Keys
      BY <3>1, <3>3 DEF TypeOK
    <3> QED
      BY <1>3, <3>2, <3>3, CreateKeyEffect
  <2> QED
    BY <1>3, <2>1, <2>2 DEF TypeOK, CreateKey, histories
<1>4. ASSUME NEW p \in Procs, WriteKey(p) PROVE TypeOK'
  <2>1. proc' \in [Procs -> Commands]
    BY <1>0, <1>4, GotoEffect DEF WriteKey, Goes, Points
  <2>2. key' \in Keys \cup {NoFile} /\ key' \in keyDisk' /\ keyDisk' \subseteq Keys \cup {NoFile}
    BY <1>4, KeyMade DEF TypeOK, WriteKey
  <2> QED
    BY <1>4, <2>1, <2>2 DEF TypeOK, WriteKey, histories
<1>5. ASSUME NEW p \in Procs, SyncKey(p) PROVE TypeOK'
  <2>1. proc' \in [Procs -> Commands]
    BY <1>0, <1>5, GotoEffect DEF SyncKey, Goes, Points
  <2>2. key \in keyDisk'
    BY <1>5 DEF TypeOK, SyncKey, At, KeyOwned, InHand, Shaped, Owner
  <2> QED
    BY <1>5, <2>1, <2>2 DEF TypeOK, SyncKey, histories
<1>6. ASSUME NEW p \in Procs, Load(p) PROVE TypeOK'
  <2>1. proc' \in [Procs -> Commands]
    BY <1>0, <1>6, LoadEffect, FailEffect DEF InHand, Shaped, Goes, Points
  <2> QED
    BY <1>6, <2>1 DEF TypeOK, Load, files, histories
<1>7. ASSUME NEW p \in Procs, CreateTemporary(p) PROVE TypeOK'
  <2>1. proc' \in [Procs -> Commands]
    BY <1>7, CreateTemporaryEffect DEF Goes
  <2> QED
    BY <1>7, <2>1 DEF TypeOK, CreateTemporary, histories
<1>8. ASSUME NEW p \in Procs, WriteTemporary(p) \/ SyncTemporary(p) PROVE TypeOK'
  <2>2. PICK D \in SUBSET Vaults, point \in {"sync", "rename"} :
           proc' = [proc EXCEPT ![p].pc = point, ![p].disk = D]
    BY <1>0, <1>8, DiskWritten DEF WriteTemporary, SyncTemporary
  <2>3. proc' \in [Procs -> Commands]
    BY <1>0, <2>2, DiskEffect DEF Goes, Points
  <2> QED
    BY <1>8, <2>3 DEF TypeOK, WriteTemporary, SyncTemporary, files, histories
<1>9. ASSUME NEW p \in Procs, Rename(p) PROVE TypeOK'
  <2>1. proc' \in [Procs -> Commands]
    BY <1>0, <1>9, GotoEffect DEF Rename, Goes, Points
  <2>2. proc[p].disk = {Sealed(p)} /\ Sealed(p) \in Vaults
    BY <1>0, <1>9, VaultMade DEF Rename, At, InHand, Prepared, Sealed
  <2> QED
    BY <1>9, <2>1, <2>2 DEF TypeOK, Rename
<1>10. ASSUME NEW p \in Procs, SyncDirectory(p) PROVE TypeOK'
  <2>1. proc' \in [Procs -> Commands]
    BY <1>0, <1>10, VerdictEffect DEF SyncDirectory, Goes, Points
  <2>2. key' \in keyDisk' /\ keyDisk' \subseteq Keys \cup {NoFile}
    BY <1>10 DEF TypeOK, SyncDirectory, KeyEntryOnDisk
  <2>3. vault' \in vaultDisk' /\ vaultDisk' \subseteq Vaults \cup {NoFile}
    <3>1. vault = Sealed(p) /\ proc[p].disk = {Sealed(p)} /\ vault' = vault
          /\ vaultDisk' = proc[p].disk
      BY <1>10 DEF SyncDirectory, At, InHand, Prepared, Sealed
    <3>2. Sealed(p) \in Vaults
      BY <1>0, VaultMade
    <3> QED
      BY <3>1, <3>2
  <2>4. kept' \subseteq Ids /\ overlooked' \subseteq Ids
    BY <1>10 DEF TypeOK, SyncDirectory, Keep, InHand, Shaped
  <2> QED
    BY <1>10, <2>1, <2>2, <2>3, <2>4 DEF TypeOK, SyncDirectory
<1>11. ASSUME NEW p \in Procs, RemoveKey(p) PROVE TypeOK'
  <2>1. proc' \in [Procs -> Commands]
    BY <1>0, <1>11, GotoEffect DEF RemoveKey, Goes, Points
  <2> QED
    BY <1>11, <2>1 DEF TypeOK, RemoveKey, histories
<1>12. ASSUME NEW p \in Procs, Return(p) PROVE TypeOK'
  BY <1>0, <1>12, ReturnEffect DEF TypeOK, Return, files, Commands
<1>13. ASSUME NEW p \in Procs, Fault(p) PROVE TypeOK'
  <2>1. proc' \in [Procs -> Commands]
    BY <1>0, <1>13, FailEffect DEF Fault, Goes, Points
  <2> QED
    BY <1>13, <2>1, VaultFileAssumption DEF TypeOK, Fault, Spend, histories
<1>14. ASSUME NEW p \in Procs, Crash(p) PROVE TypeOK'
  <2>1. proc' \in [Procs -> Commands]
    BY <1>0, <1>14, ReturnEffect DEF Crash
  <2>2. spent' \in [ops : 0..MaxOps, crashes : 0..MaxCrashes,
                    outages : 0..MaxPowerLosses, faults : 0..MaxFaults]
    BY <1>14, SpendTyped DEF Crash
  <2> QED
    BY <1>14, <2>1, <2>2 DEF TypeOK, Crash, files, histories
<1>15. CASE PowerLoss
  <2>1. proc' \in [Procs -> Commands]
    BY <1>15, IdleCommand DEF PowerLoss
  <2> QED
    BY <1>15, <2>1, VaultFileAssumption DEF TypeOK, PowerLoss, Spend, histories
<1>16. CASE UNCHANGED vars
  BY <1>16 DEF TypeOK, vars
<1>17. ASSUME NEW p \in Procs, StatFails(p) PROVE TypeOK'
  <2>1. proc' \in [Procs -> Commands]
    BY <1>0, <1>17, StatFailsEffect, GotoEffect, FailEffect
       DEF InHand, Goes, Blinded, Points
  <2>2. spent' \in [ops : 0..MaxOps, crashes : 0..MaxCrashes,
                    outages : 0..MaxPowerLosses, faults : 0..MaxFaults]
    BY <1>17, SpendTyped DEF StatFails
  <2> QED
    BY <1>17, <2>1, <2>2 DEF TypeOK, StatFails, files, histories
<1> QED
  BY <1>1, <1>2, <1>3, <1>4, <1>5, <1>6, <1>7, <1>8, <1>9, <1>10, <1>11, <1>12, <1>13, <1>14,
     <1>15, <1>16, <1>17 DEF Next, Step

\* One process inside, whatever dies or fails (vault.rs:166-177).
LEMMA ExclusiveStep == FileInv /\ [Next]_vars => Exclusive'
<1> SUFFICES ASSUME FileInv, [Next]_vars PROVE Exclusive'
  OBVIOUS
<1> USE DEF FileInv
<1>0. proc \in [Procs -> Commands] /\ \A p \in Procs : p # NoProc
  BY VaultFileAssumption DEF TypeOK
\* A step of p that keeps it inside, or outside.
<1>1. ASSUME NEW p \in Procs, Others(p), lock' = lock,
             proc[p].pc \in Locked <=> proc'[p].pc \in Locked
      PROVE  Exclusive'
  BY <1>1 DEF Exclusive, Others
\* A step of p that ends its stay, if it has one.
<1>2. ASSUME NEW p \in Procs, Others(p), lock' = IF lock = p THEN NoProc ELSE lock,
             proc'[p].pc \notin Locked
      PROVE  Exclusive'
  BY <1>0, <1>2 DEF Exclusive, Others
<1>3. ASSUME NEW p \in Procs, Start(p) PROVE Exclusive'
  <2>1. Others(p) /\ proc'[p].pc \in {"check", "lock"} /\ lock' = lock /\ proc[p].pc = "idle"
    BY <1>3, StartEffect DEF Start, At
  <2> QED
    BY <1>1, <2>1 DEF Locked
<1>4. ASSUME NEW p \in Procs, CheckAbsent(p) \/ CreateKey(p) \/ WriteKey(p) \/ SyncKey(p) PROVE Exclusive'
  <2>2. /\ Others(p) /\ proc'[p].pc \in {"create_key", "return", "write_key", "sync_key", "lock"}
        /\ lock' = lock /\ proc[p].pc \in {"check", "create_key", "write_key", "sync_key"}
    BY <1>0, <1>4, CreateKeyEffect, GotoEffect, FailEffect
       DEF CheckAbsent, CreateKey, WriteKey, SyncKey, Goes, Points, At
  <2> QED
    BY <1>1, <2>2 DEF Locked
<1>5. ASSUME NEW p \in Procs, Lock(p) PROVE Exclusive'
  <2>1. /\ Others(p) /\ proc'[p].pc \in {"recheck", "load"}
        /\ lock = NoProc /\ lock' = p
    BY <1>0, <1>5, GotoEffect DEF Lock, LockFree, Goes, Points
  <2> QED
    BY <1>0, <2>1 DEF Exclusive, Others, Locked
<1>6. ASSUME NEW p \in Procs, Recheck(p) \/ Rename(p) PROVE Exclusive'
  <2>1. /\ Others(p) /\ proc'[p].pc \in {"save", "unlock", "sync_directory"}
        /\ lock' = lock /\ proc[p].pc \in {"recheck", "rename"}
    BY <1>0, <1>6, GotoEffect, FailEffect DEF Recheck, Rename, Goes, Points, At
  <2> QED
    BY <1>1, <2>1 DEF Locked
<1>7. ASSUME NEW p \in Procs, Load(p) PROVE Exclusive'
  <2>1. Others(p) /\ proc'[p].pc \in {"save", "unlock"}
    BY <1>0, <1>7, LoadEffect, FailEffect DEF InHand, Shaped, Goes, Points
  <2>2. lock' = lock /\ proc[p].pc = "load"
    BY <1>7 DEF Load, At
  <2> QED
    BY <1>1, <2>1, <2>2 DEF Locked
<1>8. ASSUME NEW p \in Procs, CreateTemporary(p) PROVE Exclusive'
  <2>1. Others(p) /\ proc'[p].pc \in {"write", "unlock"}
    BY <1>8, CreateTemporaryEffect DEF Goes
  <2>2. lock' = lock /\ proc[p].pc = "save"
    BY <1>8 DEF CreateTemporary, At
  <2> QED
    BY <1>1, <2>1, <2>2 DEF Locked
<1>9. ASSUME NEW p \in Procs, WriteTemporary(p) \/ SyncTemporary(p) PROVE Exclusive'
  <2>1. PICK D \in SUBSET Vaults, point \in {"sync", "rename"} :
           proc' = [proc EXCEPT ![p].pc = point, ![p].disk = D]
    BY <1>0, <1>9, DiskWritten DEF WriteTemporary, SyncTemporary
  <2>2. Others(p) /\ proc'[p].pc \in {"sync", "rename"}
    BY <1>0, <2>1, DiskEffect DEF Goes, Points
  <2>3. lock' = lock /\ proc[p].pc \in {"write", "sync"}
    BY <1>9 DEF WriteTemporary, SyncTemporary, At
  <2> QED
    BY <1>1, <2>2, <2>3 DEF Locked
<1>10. ASSUME NEW p \in Procs, SyncDirectory(p) PROVE Exclusive'
  <2>1. Others(p) /\ proc'[p].pc = "unlock" /\ lock' = lock /\ proc[p].pc = "sync_directory"
    BY <1>0, <1>10, VerdictEffect DEF SyncDirectory, Goes, Points, At
  <2> QED
    BY <1>1, <2>1 DEF Locked
<1>11. ASSUME NEW p \in Procs, Unlock(p) PROVE Exclusive'
  <2>1. /\ Others(p) /\ proc'[p].pc \in {"cleanup", "return"}
        /\ lock' = NoProc /\ proc[p].pc = "unlock"
    BY <1>0, <1>11, GotoEffect DEF Unlock, Goes, Points, At
  <2>2. lock = p
    BY <2>1 DEF Exclusive, Locked
  <2> QED
    BY <1>2, <2>1, <2>2 DEF Locked
<1>12. ASSUME NEW p \in Procs, RemoveKey(p) PROVE Exclusive'
  <2>1. Others(p) /\ proc'[p].pc = "return" /\ lock' = lock /\ proc[p].pc = "cleanup"
    BY <1>0, <1>12, GotoEffect DEF RemoveKey, Goes, Points, At
  <2> QED
    BY <1>1, <2>1 DEF Locked
<1>13. ASSUME NEW p \in Procs, Return(p) PROVE Exclusive'
  <2>1. Others(p) /\ proc'[p].pc = "idle" /\ lock' = lock /\ proc[p].pc = "return"
    BY <1>0, <1>13, ReturnEffect, IdleCommand DEF Return, At
  <2> QED
    BY <1>1, <2>1 DEF Locked
<1>14. ASSUME NEW p \in Procs, Fault(p) PROVE Exclusive'
  <2>1. CASE lock' = lock
    <3>1. \/ /\ proc[p].pc \in {"check", "create_key", "write_key", "sync_key", "lock"}
             /\ Fail(p, "return") \/ Fail(p, "cleanup")
          \/ proc[p].pc \in Locked /\ Fail(p, "unlock")
          \/ proc[p].pc = "unlock" /\ lock' = NoProc
      BY <1>14 DEF Fault, At, Locked
    <3>2. proc[p].pc = "unlock" => lock = p
      BY DEF Exclusive, Locked
    <3>3. Others(p) /\ (proc[p].pc \in Locked <=> proc'[p].pc \in Locked)
      BY <1>0, <2>1, <3>1, <3>2, FailEffect DEF Goes, Points, Locked
    <3> QED
      BY <1>1, <2>1, <3>3
  <2>2. CASE lock' # lock
    <3>1. Others(p) /\ proc'[p].pc \in {"cleanup", "return"} /\ lock' = NoProc /\ proc[p].pc = "unlock"
      BY <1>0, <1>14, <2>2, FailEffect DEF Fault, Goes, Points, At
    <3> QED
      BY <1>2, <3>1 DEF Locked, Exclusive
  <2> QED
    BY <2>1, <2>2
<1>15. ASSUME NEW p \in Procs, Crash(p) PROVE Exclusive'
  <2>1. Others(p) /\ proc'[p].pc = "idle" /\ lock' = IF lock = p THEN NoProc ELSE lock
    BY <1>0, <1>15, ReturnEffect, IdleCommand DEF Crash
  <2> QED
    BY <1>2, <2>1 DEF Locked
<1>16. CASE PowerLoss
  BY <1>0, <1>16, IdleCommand DEF PowerLoss, Exclusive, Locked
<1>17. CASE UNCHANGED vars
  BY <1>17 DEF Exclusive, vars
<1>18. ASSUME NEW p \in Procs, StatFails(p) PROVE Exclusive'
  <2>1. Others(p) /\ (proc[p].pc \in Locked <=> proc'[p].pc \in Locked)
    BY <1>0, <1>18, StatFailsEffect, GotoEffect, FailEffect
       DEF InHand, Goes, Blinded, Points, Locked
  <2>2. lock' = lock
    BY <1>18 DEF StatFails
  <2> QED
    BY <1>1, <2>1, <2>2
<1> QED
  BY <1>3, <1>4, <1>5, <1>6, <1>7, <1>8, <1>9, <1>10, <1>11, <1>12, <1>13, <1>14, <1>15,
     <1>16, <1>17, <1>18 DEF Next, Step

LEMMA IdleInHand == Shaped(Idle) /\ Prepared(Idle) /\ Prepared(Idle)'
BY IdleCommand DEF Shaped, Prepared, Replacing, SeenBy, Idle

\* What each process holds in memory fits the files while it has the lock
\* (vault.rs:251-301): the step that changes the vault is made by the holder.
LEMMA InHandStep == FileInv /\ [Next]_vars => InHand'
<1> SUFFICES ASSUME FileInv, [Next]_vars PROVE InHand'
  OBVIOUS
<1> USE DEF FileInv
<1>0. /\ proc \in [Procs -> Commands]
      /\ \A p \in Procs : Shaped(proc[p]) /\ Prepared(proc[p])
  BY DEF TypeOK, InHand
\* The vault stays: only the command of p has to fit.
<1>1. ASSUME NEW p \in Procs, Others(p), vault' = vault, Shaped(proc'[p]), Prepared(proc[p])'
      PROVE  InHand'
  BY <1>0, <1>1 DEF InHand, Others, Prepared, SeenBy, Loaded
\* ... and where it is not at work on a file, that says little.
<1>2. ASSUME NEW p \in Procs, Others(p), vault' = vault, Shaped(proc'[p]),
             proc'[p].pc \notin Replacing \cup {"sync_directory"}
      PROVE  InHand'
  BY <1>1, <1>2 DEF Prepared, Replacing, SeenBy
\* A command that is refused or meets a failing call.
<1>3. ASSUME NEW p \in Procs, NEW point \in {"return", "cleanup", "unlock"}, Fail(p, point),
             point = "cleanup" => proc[p].op = "init",
             proc[p].pc # "idle", vault' = vault
      PROVE  InHand'
  <2>1. /\ Goes(p, point) /\ proc'[p].ok = FALSE
        /\ proc'[p].val = proc[p].val /\ proc'[p].plain = proc[p].plain
    BY <1>0, <1>3, FailEffect DEF Points
  <2> QED
    BY <1>0, <1>2, <1>3, <2>1 DEF Goes, Shaped, Replacing, Seeing
<1>4. ASSUME NEW p \in Procs, Start(p) PROVE InHand'
  <2>1. vault' = vault
    BY <1>4 DEF Start, files
  <2> QED
    BY <1>2, <1>4, <2>1, StartEffect, VaultFileAssumption DEF Shaped, Replacing, Seeing
<1>5. ASSUME NEW p \in Procs, CheckAbsent(p) \/ WriteKey(p) \/ SyncKey(p) PROVE InHand'
  <2>1. /\ Goes(p, "create_key") \/ Goes(p, "return") \/ Goes(p, "sync_key") \/ Goes(p, "lock")
        /\ proc'[p].ok = proc[p].ok \/ proc'[p].ok = FALSE
        /\ proc'[p].val = proc[p].val /\ proc'[p].plain = proc[p].plain
    BY <1>0, <1>5, GotoEffect, FailEffect DEF CheckAbsent, WriteKey, SyncKey, Points
  <2>2. proc[p].pc \in {"check", "write_key", "sync_key"} /\ vault' = vault
    BY <1>5 DEF CheckAbsent, WriteKey, SyncKey, At, files
  <2> QED
    BY <1>0, <1>2, <2>1, <2>2 DEF Goes, Shaped, Replacing, Seeing
<1>6. ASSUME NEW p \in Procs, CreateKey(p) PROVE InHand'
  <2>1. /\ Goes(p, "write_key") \/ Goes(p, "return")
        /\ proc'[p].ok = proc[p].ok \/ proc'[p].ok = FALSE
        /\ proc'[p].val = proc[p].val /\ proc'[p].plain = proc[p].plain
    BY <1>0, <1>6, CreateKeyEffect, FailEffect DEF Points
  <2>2. proc[p].pc = "create_key" /\ vault' = vault
    BY <1>6 DEF CreateKey, At
  <2> QED
    BY <1>0, <1>2, <2>1, <2>2 DEF Goes, Shaped, Replacing, Seeing
<1>7. ASSUME NEW p \in Procs, Lock(p) PROVE InHand'
  <2>1. /\ Goes(p, IF proc[p].op = "init" THEN "recheck" ELSE "load")
        /\ proc'[p].ok = proc[p].ok
        /\ proc'[p].val = proc[p].val /\ proc'[p].plain = proc[p].plain
    BY <1>0, <1>7, GotoEffect DEF Lock, Points
  <2>2. proc[p].pc = "lock" /\ vault' = vault
    BY <1>7 DEF Lock, At, files
  <2> QED
    BY <1>0, <1>2, <2>1, <2>2 DEF Goes, Shaped, Replacing, Seeing
<1>8. ASSUME NEW p \in Procs, Recheck(p) PROVE InHand'
  <2>1. /\ proc[p].pc = "recheck" /\ vault' = vault
        /\ \/ Fail(p, "unlock")
           \/ vault = NoFile /\ Goto(p, "save")
    BY <1>8 DEF Recheck, At, files
  <2>2. CASE Fail(p, "unlock")
    BY <2>1, <2>2, <1>3
  <2>3. CASE vault = NoFile /\ Goto(p, "save")
    <3>1. /\ Goes(p, "save") /\ proc'[p].ok = proc[p].ok
          /\ proc'[p].val = proc[p].val /\ proc'[p].plain = proc[p].plain
      BY <1>0, <2>3, GotoEffect DEF Points
    <3>2. Shaped(proc'[p])
      BY <1>0, <2>1, <3>1 DEF Goes, Shaped, Replacing, Seeing
    <3>3. Prepared(proc[p])'
      BY <1>0, <2>1, <2>3, <3>1 DEF Goes, Shaped, Prepared
    <3> QED
      BY <1>1, <2>1, <3>1, <3>2, <3>3 DEF Goes
  <2> QED
    BY <2>1, <2>2, <2>3
<1>9. ASSUME NEW p \in Procs, Load(p) PROVE InHand'
  <2>1. proc[p].pc = "load" /\ vault' = vault
    BY <1>9 DEF Load, At, files
  <2>2. CASE Fail(p, "unlock")
    BY <2>1, <2>2, <1>3
  <2>3. CASE /\ Goes(p, "unlock") /\ proc'[p].ok = TRUE
             /\ proc[p].op \in {"validate", "get"}
             /\ proc[p].op = "validate" => proc'[p].val = proc[p].val
    BY <1>0, <1>2, <2>1, <2>3 DEF Goes, Shaped, Replacing, Seeing
  <2>4. CASE /\ Goes(p, "save") /\ proc'[p].ok = proc[p].ok /\ proc'[p].val = proc[p].val
             /\ proc[p].op \in {"set", "delete"}
             /\ proc[p].op = "delete" => Loaded[proc[p].id] # NoValue
             /\ proc'[p].plain = [Loaded EXCEPT ![proc[p].id] = proc[p].val]
    <3>1. Shaped(proc'[p])
      BY <1>0, <2>1, <2>4 DEF Goes, Shaped, Replacing, Seeing
    <3>2. ~proc'[p].blind
      BY <1>0, <2>1, <2>4 DEF Goes, Shaped, Seeing, Replacing
    <3>3. Prepared(proc[p])'
      BY <2>1, <2>4, <3>2 DEF Goes, Prepared, SeenBy, Loaded
    <3> QED
      BY <1>1, <2>1, <2>4, <3>1, <3>3 DEF Goes
  <2> QED
    BY <1>0, <1>9, <2>2, <2>3, <2>4, LoadEffect DEF Shaped
<1>10. ASSUME NEW p \in Procs, CreateTemporary(p) PROVE InHand'
  <2>1. proc[p].pc = "save" /\ vault' = vault
    BY <1>10 DEF CreateTemporary, At
  <2>2. CASE Fail(p, "unlock")
    BY <2>1, <2>2, <1>3
  <2>3. CASE /\ Goes(p, "write") /\ proc'[p].ok = proc[p].ok
             /\ proc'[p].val = proc[p].val /\ proc'[p].plain = proc[p].plain
    <3>1. Shaped(proc'[p])
      BY <1>0, <2>1, <2>3 DEF Goes, Shaped, Replacing, Seeing
    <3>2. Prepared(proc[p])'
      BY <1>0, <2>1, <2>3 DEF Goes, Prepared, SeenBy, Loaded, Replacing
    <3> QED
      BY <1>1, <2>1, <2>3, <3>1, <3>2 DEF Goes
  <2> QED
    BY <1>10, <2>2, <2>3, CreateTemporaryEffect
<1>11. ASSUME NEW p \in Procs, WriteTemporary(p) \/ SyncTemporary(p) PROVE InHand'
  <2>1. PICK D \in SUBSET Vaults, point \in {"sync", "rename"} :
           /\ proc' = [proc EXCEPT ![p].pc = point, ![p].disk = D]
           /\ point = "rename" => D = {Sealed(p)}
    BY <1>0, <1>11, DiskWritten DEF WriteTemporary, SyncTemporary
  <2>2. /\ Goes(p, point) /\ proc'[p].ok = proc[p].ok /\ proc'[p].val = proc[p].val
        /\ proc'[p].plain = proc[p].plain /\ proc'[p].key = proc[p].key
        /\ proc'[p].disk = D
    <3>1. point \in Points
      BY DEF Points
    <3> QED
      BY <1>0, <2>1, <3>1, DiskEffect
  <2>3. vault' = vault /\ proc[p].pc \in {"write", "sync"}
    BY <1>11 DEF WriteTemporary, SyncTemporary, At, files
  <2>4. Shaped(proc'[p])
    BY <1>0, <2>2, <2>3 DEF Goes, Shaped, Replacing, Seeing
  <2>5. Prepared(proc[p])'
    BY <1>0, <2>1, <2>2, <2>3 DEF Goes, Prepared, SeenBy, Loaded, Replacing, Sealed
  <2> QED
    BY <1>1, <2>2, <2>3, <2>4, <2>5 DEF Goes
<1>12. ASSUME NEW p \in Procs, Rename(p) PROVE InHand'
  <2>1. /\ Goes(p, "sync_directory") /\ proc'[p].ok = proc[p].ok /\ proc'[p].val = proc[p].val
        /\ proc'[p].plain = proc[p].plain /\ proc'[p].key = proc[p].key
        /\ proc'[p].disk = proc[p].disk
    BY <1>0, <1>12, GotoEffect DEF Rename, Points
  <2>2. vault' = Sealed(p) /\ proc[p].pc = "rename"
    BY <1>12 DEF Rename, At
  <2>3. Shaped(proc'[p])
    BY <1>0, <2>1, <2>2 DEF Goes, Shaped, Replacing, Seeing
  <2>4. proc[p].op = "set" => proc[p].plain[proc[p].id] = proc[p].val
    <3>1. SeenBy(proc[p]) \in Secrets
      BY DEF TypeOK, SeenBy, Loaded, Empty, Secrets, Vaults
    <3> QED
      BY <1>0, <2>2, <3>1 DEF Prepared, Shaped, Replacing, Seeing, Secrets
  <2>5. Prepared(proc[p])'
    BY <1>0, <2>1, <2>2, <2>4 DEF Goes, Prepared, Replacing, SeenBy, Sealed
  <2>6. ASSUME NEW q \in Procs \ {p} PROVE Shaped(proc'[q]) /\ Prepared(proc[q])'
    <3>1. proc'[q] = proc[q] /\ proc[q].pc \notin Locked
      BY <2>1, <2>2 DEF Goes, Others, Exclusive, Locked
    <3> QED
      BY <1>0, <3>1 DEF Prepared, Replacing, SeenBy, Locked
  <2> QED
    BY <2>3, <2>5, <2>6 DEF InHand
<1>13. ASSUME NEW p \in Procs, SyncDirectory(p) PROVE InHand'
  <2>1. /\ Goes(p, "unlock") /\ proc'[p].ok = TRUE
        /\ proc'[p].val = proc[p].val /\ proc'[p].plain = proc[p].plain
    BY <1>0, <1>13, VerdictEffect DEF SyncDirectory, Points
  <2>2. proc[p].pc = "sync_directory" /\ vault' = vault
    BY <1>13 DEF SyncDirectory, At
  <2> QED
    BY <1>0, <1>2, <2>1, <2>2 DEF Goes, Shaped, Replacing, Seeing
<1>14. ASSUME NEW p \in Procs, Unlock(p) PROVE InHand'
  <2>1. /\ Goes(p, IF proc[p].op = "init" /\ ~proc[p].ok THEN "cleanup" ELSE "return")
        /\ proc'[p].ok = proc[p].ok
        /\ proc'[p].val = proc[p].val /\ proc'[p].plain = proc[p].plain
    BY <1>0, <1>14, GotoEffect DEF Unlock, Points
  <2>2. proc[p].pc = "unlock" /\ vault' = vault
    BY <1>14 DEF Unlock, At, files
  <2> QED
    BY <1>0, <1>2, <2>1, <2>2 DEF Goes, Shaped, Replacing, Seeing
<1>15. ASSUME NEW p \in Procs, RemoveKey(p) PROVE InHand'
  <2>1. /\ Goes(p, "return") /\ proc'[p].ok = proc[p].ok
        /\ proc'[p].val = proc[p].val /\ proc'[p].plain = proc[p].plain
    BY <1>0, <1>15, GotoEffect DEF RemoveKey, Points
  <2>2. proc[p].pc = "cleanup" /\ vault' = vault
    BY <1>15 DEF RemoveKey, At
  <2> QED
    BY <1>0, <1>2, <2>1, <2>2 DEF Goes, Shaped, Replacing, Seeing
<1>16. ASSUME NEW p \in Procs, Return(p) \/ Crash(p) PROVE InHand'
  <2>1. Others(p) /\ proc'[p] = Idle /\ vault' = vault
    BY <1>0, <1>16, ReturnEffect DEF Return, Crash, files
  <2> QED
    BY <1>2, <2>1, IdleInHand, IdleCommand DEF Replacing
<1>17. ASSUME NEW p \in Procs, Fault(p) PROVE InHand'
  <2>1. \E point \in {"return", "cleanup", "unlock"} :
           /\ Fail(p, point)
           /\ point = "cleanup" => proc[p].op = "init"
    BY <1>17 DEF Fault
  <2>2. proc[p].pc # "idle" /\ vault' = vault
    BY <1>17 DEF Fault, At
  <2> QED
    BY <1>3, <2>1, <2>2
<1>18. CASE PowerLoss
  BY <1>18, IdleInHand DEF PowerLoss, InHand
<1>19. CASE UNCHANGED vars
  BY <1>0, <1>19 DEF InHand, Prepared, SeenBy, Loaded, vars
<1>20. ASSUME NEW p \in Procs, StatFails(p) PROVE InHand'
  <2>1. vault' = vault
    BY <1>20 DEF StatFails, files
  <2>2. CASE proc[p].pc = "check" /\ Goto(p, "create_key")
    <3>1. /\ Goes(p, "create_key") /\ proc'[p].ok = proc[p].ok
          /\ proc'[p].val = proc[p].val /\ proc'[p].plain = proc[p].plain
      BY <1>0, <2>2, GotoEffect DEF Points
    <3> QED
      BY <1>0, <1>2, <2>1, <2>2, <3>1 DEF Goes, Shaped, Replacing, Seeing
  <2>3. CASE proc[p].pc = "load" /\ Fail(p, "unlock")
    BY <1>3, <2>1, <2>3
  <2>4. CASE /\ proc[p].pc = "load" /\ proc[p].op = "validate"
             /\ Goes(p, "unlock") /\ proc'[p].ok = TRUE
             /\ proc'[p].val = proc[p].val /\ proc'[p].plain = proc[p].plain
    BY <1>0, <1>2, <2>1, <2>4 DEF Goes, Shaped, Replacing, Seeing
  <2>5. CASE Blinded(p)
    <3>1. Shaped(proc'[p])
      BY <1>0, <2>5 DEF Blinded, Shaped, Replacing, Seeing
    <3>2. \/ proc[p].op = "init"
          \/ proc[p].op = "set" /\ proc'[p].plain = [Empty EXCEPT ![proc[p].id] = proc[p].val]
      BY <1>0, <2>5 DEF Blinded, Shaped
    <3>3. Prepared(proc[p])'
      BY <2>5, <3>2 DEF Blinded, Prepared, SeenBy
    <3> QED
      BY <1>1, <2>1, <2>5, <3>1, <3>3 DEF Blinded
  <2> QED
    BY <1>0, <1>20, <2>2, <2>3, <2>4, <2>5, StatFailsEffect
<1> QED
  BY <1>4, <1>5, <1>6, <1>7, <1>8, <1>9, <1>10, <1>11, <1>12, <1>13, <1>14, <1>15, <1>16,
     <1>17, <1>18, <1>19, <1>20 DEF Next, Step

\* Only a rename, the sync of a directory and a power failure touch what the
\* disk may hold of the vault, and what is remembered of it.
LEMMA DiskStays ==
    ASSUME [Next]_vars
    PROVE  \/ \E p \in Procs : Rename(p) \/ SyncDirectory(p)
           \/ PowerLoss
           \/ UNCHANGED <<vaultDisk, kept, overlooked>>
<1>1. ASSUME NEW p \in Procs,
             \/ Start(p) \/ Lock(p) \/ CheckAbsent(p) \/ CreateKey(p) \/ WriteKey(p) \/ SyncKey(p)
             \/ Recheck(p) \/ Load(p)
      PROVE  UNCHANGED <<vaultDisk, kept, overlooked>>
  BY <1>1 DEF Start, Lock, CheckAbsent, CreateKey, WriteKey, SyncKey, Recheck, Load, files,
     histories
<1>2. ASSUME NEW p \in Procs,
             \/ CreateTemporary(p) \/ WriteTemporary(p) \/ SyncTemporary(p) \/ Unlock(p)
             \/ RemoveKey(p) \/ Return(p)
      PROVE  UNCHANGED <<vaultDisk, kept, overlooked>>
  BY <1>2 DEF CreateTemporary, WriteTemporary, SyncTemporary, Unlock, RemoveKey, Return, files,
     histories
<1>3. ASSUME NEW p \in Procs, Fault(p) \/ StatFails(p) \/ Crash(p)
      PROVE  UNCHANGED <<vaultDisk, kept, overlooked>>
  BY <1>3 DEF Fault, StatFails, Crash, files, histories
<1>4. CASE UNCHANGED vars
  BY <1>4 DEF vars
<1> QED
  BY <1>1, <1>2, <1>3, <1>4 DEF Next, Step

\* Only whole files get the vault's name, on disk too (vault.rs:239-241).
LEMMA NeverTornStep == FileInv /\ [Next]_vars => NeverTorn'
<1> SUFFICES ASSUME FileInv, [Next]_vars PROVE NeverTorn'
  OBVIOUS
<1> USE DEF FileInv
<1>0. proc \in [Procs -> Commands]
  BY DEF TypeOK
<1>1. ASSUME NEW p \in Procs, Rename(p) \/ SyncDirectory(p) PROVE NeverTorn'
  <2>1. proc[p].disk = {Sealed(p)} /\ Sealed(p).whole
    BY <1>0, <1>1, VaultMade DEF Rename, SyncDirectory, At, InHand, Prepared, Sealed
  <2>2. vaultDisk' \subseteq vaultDisk \cup {Sealed(p)}
    BY <1>1, <2>1 DEF Rename, SyncDirectory
  <2> QED
    BY <2>1, <2>2 DEF NeverTorn
<1>2. CASE PowerLoss
  BY <1>2 DEF PowerLoss, NeverTorn
<1>3. CASE vaultDisk' = vaultDisk
  BY <1>3 DEF NeverTorn
<1> QED
  BY <1>1, <1>2, <1>3, DiskStays

\* The key file has one owner while an initialisation is under way: create_new
\* fails for any other, and only the owner removes it (vault.rs:133-154).
LEMMA KeyOwnedStep == FileInv /\ [Next]_vars => KeyOwned'
<1> SUFFICES ASSUME FileInv, [Next]_vars PROVE KeyOwned'
  OBVIOUS
<1> USE DEF FileInv
<1>0. /\ proc \in [Procs -> Commands] /\ key \in keyDisk
      /\ \A p \in Procs : Shaped(proc[p])
  BY DEF TypeOK, InHand
\* The key stays, the disk gets no more versions of it, and p does not become owner.
<1>1. ASSUME NEW p \in Procs, Others(p), key' = key, keyDisk' \subseteq keyDisk, keys' = keys,
             Owner(p)' => /\ Owner(p) /\ proc'[p].key = proc[p].key
                          /\ proc[p].pc \notin {"write_key", "sync_key"}
      PROVE  KeyOwned'
  BY <1>1 DEF KeyOwned, Others, Owner
<1>2. ASSUME NEW p \in Procs, Start(p) PROVE KeyOwned'
  BY <1>1, <1>2, StartEffect DEF Start, files, Owner
<1>3. ASSUME NEW p \in Procs, CheckAbsent(p) PROVE KeyOwned'
  <2>1. proc'[p].pc \in {"create_key", "return"} /\ Others(p)
    BY <1>0, <1>3, GotoEffect, FailEffect DEF CheckAbsent, Goes, Points
  <2> QED
    BY <1>1, <1>3, <2>1 DEF CheckAbsent, files, Owner
<1>4. ASSUME NEW p \in Procs, CreateKey(p) PROVE KeyOwned'
  <2>1. CASE key # NoFile
    <3>1. Fail(p, "return") /\ UNCHANGED <<key, keyDisk, keys>>
      BY <1>4, <2>1, CreateKeyEffect
    <3> QED
      BY <1>0, <1>1, <3>1, FailEffect DEF Goes, Owner, Points
  <2>2. CASE key = NoFile
    <3>1. /\ keys' = keys + 1 /\ keyDisk' = keyDisk \cup {key'}
          /\ key' \in Keys /\ key'.id = keys + 1 /\ key'.whole = FALSE
          /\ Goes(p, "write_key") /\ proc'[p].key = keys + 1
      BY <1>4, <2>2, CreateKeyEffect
    <3>2. \A q \in Procs \ {p} : ~Owner(q)'
      BY <2>2, <3>1 DEF KeyOwned, Owner, Goes, Others
    <3>3. \A k \in keyDisk' : k # NoFile => k.id <= keys'
      BY <3>1 DEF KeyOwned, TypeOK, Keys
    <3>4. key' # NoFile /\ key'.id = proc'[p].key /\ proc'[p].pc = "write_key"
      BY <3>1, NoFileApart DEF Goes
    <3> QED
      BY <3>2, <3>3, <3>4 DEF KeyOwned
  <2> QED
    BY <2>1, <2>2
<1>5. ASSUME NEW p \in Procs, WriteKey(p) PROVE KeyOwned'
  <2>1. Goes(p, "sync_key") /\ proc'[p].key = proc[p].key /\ proc[p].pc = "write_key"
    BY <1>0, <1>5, GotoEffect DEF WriteKey, Points, At
  <2>2. Owner(p) /\ key # NoFile /\ key.id = proc[p].key
    BY <1>0, <2>1 DEF Shaped, Owner, KeyOwned
  <2>3. key' = [key EXCEPT !.whole = TRUE] /\ keyDisk' = keyDisk \cup {key'} /\ keys' = keys
    BY <1>5, <2>2 DEF WriteKey
  <2>4. key' \in Keys /\ key'.id = key.id /\ key'.whole
    BY <2>2, <2>3, KeyMade DEF TypeOK
  <2>5. \A q \in Procs \ {p} : ~Owner(q)'
    BY <2>1, <2>2 DEF KeyOwned, Owner, Goes, Others
  <2>6. \A k \in keyDisk' : k # NoFile => k.id <= keys'
    BY <1>0, <2>2, <2>3, <2>4 DEF KeyOwned
  <2>7. key' # NoFile /\ key'.id = proc'[p].key /\ proc'[p].pc = "sync_key"
    BY <2>1, <2>2, <2>4, NoFileApart DEF Goes
  <2> QED
    BY <2>4, <2>5, <2>6, <2>7 DEF KeyOwned
<1>6. ASSUME NEW p \in Procs, SyncKey(p) PROVE KeyOwned'
  <2>1. Goes(p, "lock") /\ proc'[p].key = proc[p].key /\ proc[p].pc = "sync_key"
    BY <1>0, <1>6, GotoEffect DEF SyncKey, Points, At
  <2>2. Owner(p) /\ key # NoFile /\ key.id = proc[p].key /\ key.whole
    BY <1>0, <2>1 DEF Shaped, Owner, KeyOwned
  <2>3. /\ key' = key /\ keys' = keys
        /\ keyDisk' = {k \in keyDisk : k = NoFile \/ k.id # proc[p].key \/ k.whole}
    BY <1>6 DEF SyncKey
  <2>4. \A q \in Procs \ {p} : ~Owner(q)'
    BY <2>1, <2>2 DEF KeyOwned, Owner, Goes, Others
  <2>5. \A k \in keyDisk' : k # NoFile /\ k.id = key'.id => k.whole
    BY <2>2, <2>3
  <2> QED
    BY <2>1, <2>2, <2>3, <2>4, <2>5 DEF KeyOwned, Goes
<1>7. ASSUME NEW p \in Procs, Lock(p) \/ Unlock(p) PROVE KeyOwned'
  <2>1. /\ Others(p) /\ proc'[p].op = proc[p].op /\ proc'[p].key = proc[p].key
        /\ proc[p].pc \in {"lock", "unlock"}
    BY <1>0, <1>7, GotoEffect DEF Lock, Unlock, Goes, Points, At
  <2> QED
    BY <1>1, <1>7, <2>1 DEF Lock, Unlock, files, Owner
<1>8. ASSUME NEW p \in Procs, Recheck(p) PROVE KeyOwned'
  <2>1. /\ Others(p) /\ proc'[p].op = proc[p].op /\ proc'[p].key = proc[p].key
        /\ proc[p].pc = "recheck"
    BY <1>0, <1>8, GotoEffect, FailEffect DEF Recheck, Goes, Points, At
  <2> QED
    BY <1>1, <1>8, <2>1 DEF Recheck, files, Owner
<1>9. ASSUME NEW p \in Procs, Load(p) PROVE KeyOwned'
  <2>1. /\ Others(p) /\ proc'[p].op = proc[p].op
    BY <1>0, <1>9, LoadEffect, FailEffect DEF Goes, Points, Shaped
  <2>2. proc[p].op # "init"
    BY <1>0, <1>9 DEF Load, At, Shaped
  <2> QED
    BY <1>1, <1>9, <2>1, <2>2 DEF Load, files, Owner
<1>10. ASSUME NEW p \in Procs, CreateTemporary(p) PROVE KeyOwned'
  <2>1. proc[p].pc = "save" /\ key' = key /\ keyDisk' = keyDisk /\ keys' = keys
    BY <1>10 DEF CreateTemporary, At
  <2>2. /\ Others(p) /\ proc'[p].op = proc[p].op
        /\ proc'[p].key = proc[p].key \/ proc'[p].key = key.id
    BY <1>0, <1>10, CreateTemporaryEffect, FailEffect DEF Goes, Points
  <2>3. Owner(p) => key.id = proc[p].key
    BY DEF KeyOwned
  <2>4. Owner(p)' => Owner(p)
    BY <2>1, <2>2 DEF Owner
  <2> QED
    BY <1>1, <2>1, <2>2, <2>3, <2>4
<1>11. ASSUME NEW p \in Procs, WriteTemporary(p) \/ SyncTemporary(p) PROVE KeyOwned'
  <2>1. PICK D \in SUBSET Vaults, point \in {"sync", "rename"} :
           proc' = [proc EXCEPT ![p].pc = point, ![p].disk = D]
    BY <1>0, <1>11, DiskWritten DEF WriteTemporary, SyncTemporary
  <2>2. Others(p) /\ proc'[p].op = proc[p].op /\ proc'[p].key = proc[p].key
    BY <1>0, <2>1, DiskEffect DEF Goes, Points
  <2>3. /\ proc[p].pc \in {"write", "sync"}
        /\ key' = key /\ keyDisk' = keyDisk /\ keys' = keys
    BY <1>11 DEF WriteTemporary, SyncTemporary, At, files
  <2> QED
    BY <1>1, <2>2, <2>3 DEF Owner
<1>12. ASSUME NEW p \in Procs, Rename(p) PROVE KeyOwned'
  <2>1. /\ Others(p) /\ proc'[p].op = proc[p].op /\ proc'[p].key = proc[p].key
        /\ proc[p].pc = "rename"
    BY <1>0, <1>12, GotoEffect DEF Rename, Goes, Points, At
  <2> QED
    BY <1>1, <1>12, <2>1 DEF Rename, Owner
<1>13. ASSUME NEW p \in Procs, SyncDirectory(p) PROVE KeyOwned'
  <2>1. /\ Others(p) /\ proc'[p].op = proc[p].op /\ proc'[p].key = proc[p].key
        /\ proc[p].pc = "sync_directory"
    BY <1>0, <1>13, VerdictEffect DEF SyncDirectory, Goes, Points, At
  <2>2. keyDisk' \subseteq keyDisk
    BY <1>0, <1>13 DEF SyncDirectory, KeyEntryOnDisk
  <2> QED
    BY <1>1, <1>13, <2>1, <2>2 DEF SyncDirectory, Owner
<1>14. ASSUME NEW p \in Procs, RemoveKey(p) PROVE KeyOwned'
  <2>1. Goes(p, "return") /\ proc[p].pc = "cleanup"
    BY <1>0, <1>14, GotoEffect DEF RemoveKey, Points, At
  <2>2. Owner(p)
    BY <1>0, <2>1 DEF Shaped, Owner
  <2>3. \A q \in Procs : ~Owner(q)'
    BY <2>1, <2>2 DEF KeyOwned, Owner, Goes, Others
  <2>4. keyDisk' = keyDisk \cup {NoFile} /\ keys' = keys
    BY <1>14 DEF RemoveKey
  <2> QED
    BY <2>3, <2>4 DEF KeyOwned
<1>15. ASSUME NEW p \in Procs, Return(p) \/ Crash(p) PROVE KeyOwned'
  <2>1. Others(p) /\ proc'[p].op = "none"
    BY <1>0, <1>15, ReturnEffect, IdleCommand DEF Return, Crash
  <2> QED
    BY <1>1, <1>15, <2>1 DEF Return, Crash, files, Owner
<1>16. ASSUME NEW p \in Procs, Fault(p) PROVE KeyOwned'
  <2>1. \E point \in {"return", "cleanup", "unlock"} :
           /\ Fail(p, point)
           /\ point # "return" => proc[p].pc \notin {"check", "create_key", "write_key", "sync_key", "return"}
    BY <1>16 DEF Fault, At
  <2>2. /\ Others(p) /\ proc'[p].op = proc[p].op /\ proc'[p].key = proc[p].key
        /\ \/ proc'[p].pc = "return"
           \/ proc[p].pc \notin {"check", "create_key", "write_key", "sync_key", "return"}
    BY <1>0, <2>1, FailEffect DEF Goes, Points
  <2>3. key' = key /\ keyDisk' = keyDisk /\ keys' = keys
    BY <1>16 DEF Fault
  <2> QED
    BY <1>1, <2>2, <2>3 DEF Owner
<1>17. CASE PowerLoss
  <2>1. \A p \in Procs : ~Owner(p)'
    BY <1>17, IdleCommand DEF PowerLoss, Owner
  <2> QED
    BY <1>17, <2>1 DEF PowerLoss, KeyOwned
<1>18. CASE UNCHANGED vars
  BY <1>18 DEF KeyOwned, Owner, vars
<1>19. ASSUME NEW p \in Procs, StatFails(p) PROVE KeyOwned'
  <2>1. key' = key /\ keyDisk' = keyDisk /\ keys' = keys
    BY <1>19 DEF StatFails, files
  <2>2. /\ Others(p) /\ proc'[p].op = proc[p].op /\ proc'[p].key = proc[p].key
        /\ \/ proc'[p].pc = "create_key"
           \/ proc[p].pc \in {"load", "recheck"}
    BY <1>0, <1>19, GotoEffect, FailEffect, StatFailsEffect DEF Goes, Blinded, Points
  <2> QED
    BY <1>1, <2>1, <2>2 DEF Owner
<1> QED
  BY <1>2, <1>3, <1>4, <1>5, <1>6, <1>7, <1>8, <1>9, <1>10, <1>11, <1>12, <1>13, <1>14, <1>15,
     <1>16, <1>17, <1>18, <1>19 DEF Next, Step

\* The inductive invariant of the files and the commands.
LEMMA FilesInvariant == Spec => []FileInv
<1>1. FileInv /\ [Next]_vars => FileInv'
  BY TypeStep, ExclusiveStep, InHandStep, NeverTornStep, KeyOwnedStep DEF FileInv
<1> QED
  BY <1>1, InitInv, PTL DEF Spec

\* Types, and what a power failure may leave includes what is there now
\* (vault.rs:234-247).
THEOREM TypesHold == Spec => []TypeOK
BY FilesInvariant, PTL DEF FileInv
-----------------------------------------------------------------------------
\* An initialisation that has succeeded, before it reports that.
Initialized(p) == proc[p].op = "init" /\ proc[p].ok

\* The points of a command that has read the key for a new vault file.
Sealing == {"write", "sync", "rename", "sync_directory"}

\* The vault decrypts under the key, with every file a power failure may bring
\* back and every file that is about to replace it.
InForce ==
    /\ key # NoFile /\ key.whole /\ keyDisk = {key}
    /\ \A v \in vaultDisk : v # NoFile /\ v.whole /\ v.key = key.id
    /\ \A p \in Procs : proc[p].pc \in Sealing => proc[p].key = key.id

\* A vault is in force from the sync of its directory on, and from the return
\* of its initialisation on nobody is left who would remove the key.
Established ==
    /\ Provisioned => created
    /\ \A p \in Procs : Initialized(p) => InForce
    /\ created \/ (\E p \in Procs : Initialized(p) /\ At(p, "return")) =>
          InForce /\ \A p \in Procs : ~Owner(p)

LEMMA InitEstablished == Init => Established
<1> SUFFICES ASSUME Init PROVE Established
  OBVIOUS
<1>1. \A p \in Procs : proc[p].pc = "idle" /\ proc[p].op = "none"
  BY IdleCommand DEF Init
<1>2. CASE Provisioned
  <2>1. /\ vault = [key |-> 1, secrets |-> Empty, whole |-> TRUE]
        /\ key = [id |-> 1, whole |-> TRUE] /\ vaultDisk = {vault} /\ keyDisk = {key}
        /\ created
    BY <1>2 DEF Init
  <2>2. /\ vault # NoFile /\ vault.whole /\ vault.key = 1
        /\ key # NoFile /\ key.whole /\ key.id = 1
    <3>1. Empty \in Secrets
      BY DEF Empty, Secrets
    <3>2. vault \in Vaults /\ key \in Keys
      BY <2>1, <3>1, KeyMade DEF Vaults
    <3> QED
      BY <2>1, <3>2, NoFileApart
  <2> QED
    BY <1>1, <2>1, <2>2 DEF Established, InForce, Initialized, Owner, Sealing
<1>3. CASE ~Provisioned
  BY <1>1, <1>3 DEF Init, Established, Initialized, Owner
<1> QED
  BY <1>2, <1>3

\* What a step of one process does to its own command.
LEMMA CommandStep ==
    ASSUME FileInv, NEW p \in Procs,
           Start(p) \/ Lock(p) \/ Step(p) \/ Fault(p) \/ StatFails(p) \/ Crash(p)
    PROVE  /\ Others(p)
           /\ Owner(p)' => Owner(p) \/ key = NoFile
           /\ Initialized(p)' => Initialized(p) \/ SyncDirectory(p)
           /\ Initialized(p)' /\ proc'[p].pc = "return" => Initialized(p) /\ proc[p].pc = "unlock"
           /\ proc'[p].pc \in Sealing =>
                 \/ proc'[p].key = key.id
                 \/ proc[p].pc \in Sealing /\ proc'[p].key = proc[p].key
           /\ created' => created \/ (Initialized(p) /\ proc[p].pc = "return")
<1> USE DEF Initialized, Owner, Sealing
<1>0. /\ proc \in [Procs -> Commands] /\ Shaped(proc[p])
  BY DEF FileInv, TypeOK, InHand
<1>1. CASE Start(p)
  BY <1>1, StartEffect DEF FileInv, Start, histories
<1>2. CASE Return(p) \/ Crash(p)
  <2>1. Others(p) /\ proc'[p] = Idle
    BY <1>0, <1>2, ReturnEffect DEF Return, Crash
  <2>2. created' => created \/ (Initialized(p) /\ proc[p].pc = "return")
    BY <1>2 DEF Return, Crash, histories, At
  <2> QED
    BY <2>1, <2>2, IdleCommand
<1>3. CASE SyncDirectory(p)
  BY <1>0, <1>3, VerdictEffect DEF SyncDirectory, Goes, Points, At
<1>4. CASE WriteTemporary(p) \/ SyncTemporary(p)
  <2>1. PICK D \in SUBSET Vaults, point \in {"sync", "rename"} :
           proc' = [proc EXCEPT ![p].pc = point, ![p].disk = D]
    BY <1>0, <1>4, DiskWritten DEF WriteTemporary, SyncTemporary
  <2>2. proc[p].pc \in {"write", "sync"} /\ created' = created
    BY <1>4 DEF WriteTemporary, SyncTemporary, At, histories
  <2>3. Goes(p, point) /\ proc'[p].ok = proc[p].ok /\ proc'[p].key = proc[p].key
    <3>1. point \in Points
      BY DEF Points
    <3> QED
      BY <1>0, <2>1, <3>1, DiskEffect
  <2> QED
    BY <2>2, <2>3 DEF Goes
<1>5. CASE Load(p)
  <2>1. proc[p].op # "init" /\ created' = created
    BY <1>0, <1>5 DEF Load, At, Shaped, histories
  <2> QED
    BY <1>0, <1>5, <2>1, LoadEffect, FailEffect DEF Goes, Points, Shaped, FileInv
<1>6. CASE CreateKey(p)
  <2>1. proc[p].pc = "create_key" /\ created' = created
    BY <1>6 DEF CreateKey, At, histories
  <2> QED
    BY <1>0, <1>6, <2>1, CreateKeyEffect, FailEffect DEF Goes, Points, FileInv
<1>7. CASE CreateTemporary(p)
  <2>1. proc[p].pc = "save" /\ created' = created
    BY <1>7 DEF CreateTemporary, At, histories
  <2> QED
    BY <1>0, <1>7, <2>1, CreateTemporaryEffect, FailEffect DEF Goes, Points, FileInv
<1>8. CASE Fault(p)
  <2>1. \E point \in {"return", "cleanup", "unlock"} :
           /\ Fail(p, point)
           /\ point # "return" => proc[p].pc \notin {"check", "create_key", "return"}
    BY <1>8 DEF Fault, At
  <2>2. created' = created
    BY <1>8 DEF Fault, histories
  <2> QED
    BY <1>0, <2>1, <2>2, FailEffect DEF Goes, Points
<1>9. CASE CheckAbsent(p) \/ Recheck(p)
  <2>1. \E point \in {"create_key", "save", "return", "unlock"} :
           /\ Goto(p, point) \/ Fail(p, point)
           /\ point \in {"save", "unlock"} => proc[p].pc = "recheck"
    BY <1>9 DEF CheckAbsent, Recheck, At
  <2>2. created' = created /\ proc[p].pc \in {"check", "recheck"}
    BY <1>9 DEF CheckAbsent, Recheck, histories, At
  <2> QED
    BY <1>0, <2>1, <2>2, FailEffect, GotoEffect DEF Goes, Points, Shaped
<1>10. CASE WriteKey(p) \/ SyncKey(p) \/ Lock(p) \/ Rename(p) \/ Unlock(p) \/ RemoveKey(p)
  <2>1. \E point \in {"sync_key", "lock", "recheck", "load", "sync_directory", "cleanup", "return"} :
           /\ Goto(p, point)
           /\ point = "sync_directory" => proc[p].pc = "rename"
           /\ point = "return" => proc[p].pc \in {"unlock", "cleanup"}
    BY <1>10 DEF WriteKey, SyncKey, Lock, Rename, Unlock, RemoveKey, At
  <2>2. created' = created /\ proc[p].pc \notin {"check", "create_key", "return"}
    BY <1>10 DEF WriteKey, SyncKey, Lock, Rename, Unlock, RemoveKey, histories, At
  <2> QED
    BY <1>0, <2>1, <2>2, GotoEffect DEF Goes, Points, Shaped
<1>11. CASE StatFails(p)
  <2>1. created' = created
    BY <1>11 DEF StatFails, histories
  <2>2. /\ Others(p) /\ proc'[p].op = proc[p].op
        /\ \/ proc'[p].pc = "create_key" /\ proc'[p].ok = proc[p].ok
           \/ /\ proc[p].pc \in {"load", "recheck"} /\ proc'[p].pc \in {"unlock", "save"}
              /\ proc'[p].ok # FALSE => proc'[p].ok = proc[p].ok \/ proc[p].op = "validate"
    BY <1>0, <1>11, GotoEffect, FailEffect, StatFailsEffect DEF FileInv, Goes, Blinded, Points
  <2>3. proc[p].pc \in {"check", "load", "recheck"}
    BY <1>11 DEF StatFails, At
  <2> QED
    BY <1>0, <2>1, <2>2, <2>3 DEF Shaped
<1> QED
  BY <1>1, <1>2, <1>3, <1>4, <1>5, <1>6, <1>7, <1>8, <1>9, <1>10, <1>11 DEF Step

\* Once it is in force a vault stays in force while no initialisation owns the
\* key that could still fail (vault.rs:133-154).
LEMMA InForceKept ==
    ASSUME FileInv, InForce, [Next]_vars,
           \A p \in Procs : Owner(p) => proc[p].pc = "unlock"
    PROVE  InForce'
<1>1. ASSUME NEW p \in Procs, Start(p) \/ Lock(p) \/ Step(p) \/ Fault(p) \/ StatFails(p) \/ Crash(p)
      PROVE  InForce'
  <2>1. \A q \in Procs : proc'[q].pc \in Sealing => proc'[q].key = key.id
    BY <1>1, CommandStep DEF InForce, Others
  <2>2. ASSUME key' = key, keyDisk' = {key}, vaultDisk' = vaultDisk PROVE InForce'
    BY <2>1, <2>2 DEF InForce
  <2>3. CASE Rename(p) \/ SyncDirectory(p)
    <3>1. /\ proc[p].disk = {Sealed(p)} /\ Sealed(p) \in Vaults /\ Sealed(p).whole
          /\ Sealed(p).key = proc[p].key /\ proc[p].pc \in Sealing
      BY <2>3, VaultMade
         DEF Rename, SyncDirectory, At, FileInv, TypeOK, InHand, Prepared, Sealed, Sealing
    <3>2. \A v \in vaultDisk' : v # NoFile /\ v.whole /\ v.key = key.id
      BY <2>3, <3>1, NoFileApart DEF Rename, SyncDirectory, InForce
    <3>3. key' = key /\ keyDisk' = {key}
      BY <2>3 DEF Rename, SyncDirectory, InForce, KeyEntryOnDisk
    <3> QED
      BY <2>1, <3>2, <3>3 DEF InForce
  <2>4. CASE WriteKey(p) \/ SyncKey(p) \/ RemoveKey(p)
    <3>1. proc[p].pc \in {"write_key", "sync_key", "cleanup"} /\ Shaped(proc[p])
      BY <2>4 DEF WriteKey, SyncKey, RemoveKey, At, FileInv, InHand
    <3> QED
      BY <3>1 DEF Shaped, Owner
  <2>5. CASE CreateKey(p)
    BY <2>2, <2>5 DEF CreateKey, InForce
  <2> QED
    BY <1>1, <2>2, <2>3, <2>4, <2>5 DEF InForce, Step, Start, Lock, CheckAbsent, Recheck, Load,
       CreateTemporary, WriteTemporary, SyncTemporary, Unlock, Return, Fault, StatFails, Crash,
       files
<1>2. CASE PowerLoss
  BY <1>2, IdleCommand DEF PowerLoss, InForce, Sealing
<1>3. CASE UNCHANGED vars
  BY <1>3 DEF InForce, vars
<1> QED
  BY <1>1, <1>2, <1>3 DEF Next

\* The sync of the directory that holds the vault and the key is what puts a
\* new vault in force (vault.rs:142-147, vault.rs:241).
LEMMA InForceMade ==
    ASSUME FileInv, SameDirectory, NEW p \in Procs, SyncDirectory(p), proc[p].op = "init"
    PROVE  InForce'
<1>1. Shaped(proc[p]) /\ Prepared(proc[p]) /\ proc[p].pc = "sync_directory"
  BY DEF FileInv, InHand, SyncDirectory, At
<1>2. /\ key # NoFile /\ key.id = proc[p].key /\ key.whole
      /\ \A k \in keyDisk : k # NoFile /\ k.id = key.id => k.whole
  BY <1>1 DEF FileInv, KeyOwned, Owner
<1>3. key' = key /\ keyDisk' = {key}
  <2>1. keyDisk' = {k \in keyDisk \ {NoFile} : k.id = key.id}
    BY <1>2 DEF SyncDirectory, KeyEntryOnDisk
  <2>2. \A k \in keyDisk' : k = key
    <3>1. ASSUME NEW k \in Keys, k.id = key.id, k.whole PROVE k = key
      <4>1. key \in Keys
        BY <1>2 DEF FileInv, TypeOK
      <4> QED
        BY <1>2, <3>1, <4>1 DEF Keys
    <3> QED
      BY <1>2, <2>1, <3>1 DEF FileInv, TypeOK
  <2> QED
    BY <1>2, <2>1, <2>2 DEF FileInv, TypeOK, SyncDirectory
<1>4. \A v \in vaultDisk' : v # NoFile /\ v.whole /\ v.key = key.id
  <2>1. vaultDisk' = {Sealed(p)}
    BY <1>1 DEF SyncDirectory, Prepared, Sealed
  <2>2. Sealed(p) \in Vaults /\ Sealed(p).whole /\ Sealed(p).key = key.id
    BY <1>2, VaultMade DEF FileInv, TypeOK
  <2> QED
    BY <2>1, <2>2, NoFileApart
<1>5. \A q \in Procs : proc'[q].pc \notin Sealing
  <2>1. proc'[p].pc = "unlock" /\ Others(p)
    BY VerdictEffect DEF FileInv, TypeOK, SyncDirectory, Goes, Points
  <2>2. \A q \in Procs \ {p} : proc[q].pc \notin Locked
    BY <1>1 DEF FileInv, Exclusive, Locked
  <2> QED
    BY <2>1, <2>2 DEF Others, Sealing, Locked
<1> QED
  BY <1>2, <1>3, <1>4, <1>5 DEF InForce

\* What an initialisation has reported is not taken back.
LEMMA CreatedStays ==
    ASSUME [Next]_vars, created PROVE created'
<1>1. ASSUME NEW p \in Procs,
             \/ Start(p) \/ Lock(p) \/ CheckAbsent(p) \/ CreateKey(p) \/ WriteKey(p) \/ SyncKey(p)
             \/ Recheck(p) \/ Load(p) \/ Fault(p) \/ StatFails(p) \/ Crash(p)
      PROVE  created'
  BY <1>1 DEF Start, Lock, CheckAbsent, CreateKey, WriteKey, SyncKey, Recheck, Load, Fault,
     StatFails, Crash, histories
<1>2. ASSUME NEW p \in Procs,
             \/ CreateTemporary(p) \/ WriteTemporary(p) \/ SyncTemporary(p) \/ Rename(p)
             \/ SyncDirectory(p) \/ Unlock(p) \/ RemoveKey(p) \/ Return(p)
      PROVE  created'
  BY <1>2 DEF CreateTemporary, WriteTemporary, SyncTemporary, Rename, SyncDirectory, Unlock,
     RemoveKey, Return, histories
<1>3. CASE PowerLoss \/ UNCHANGED vars
  BY <1>3 DEF PowerLoss, histories, vars
<1> QED
  BY <1>1, <1>2, <1>3 DEF Next, Step

LEMMA EstablishedStep ==
    ASSUME Provisioned \/ SameDirectory, FileInv, Established, [Next]_vars
    PROVE  Established'
<1>1. CASE created \/ \E p \in Procs : Initialized(p)
  <2>1. InForce /\ \A p \in Procs : Owner(p) => proc[p].pc = "unlock"
    <3>1. ASSUME NEW p \in Procs, Initialized(p), proc[p].pc # "return"
          PROVE  Owner(p) /\ proc[p].pc = "unlock"
      BY <3>1 DEF Initialized, Owner, FileInv, InHand, Shaped
    <3> QED
      BY <1>1, <3>1 DEF Established, FileInv, KeyOwned, At
  <2>2. InForce'
    BY <2>1, InForceKept
  <2>3. Provisioned => created'
    BY CreatedStays DEF Established
  <2>4. ASSUME created' \/ \E p \in Procs : Initialized(p)' /\ proc'[p].pc = "return"
        PROVE  \A p \in Procs : ~Owner(p)'
    <3>1. ASSUME NEW p \in Procs, Start(p) \/ Lock(p) \/ Step(p) \/ Fault(p) \/ StatFails(p) \/ Crash(p)
          PROVE  \A q \in Procs : ~Owner(q)'
      <4>1. /\ Others(p) /\ (Owner(p)' => Owner(p))
            /\ Initialized(p)' /\ proc'[p].pc = "return" => Initialized(p) /\ proc[p].pc = "unlock"
            /\ created' => created \/ (Initialized(p) /\ proc[p].pc = "return")
        BY <2>1, <3>1, CommandStep DEF InForce
      <4>2. CASE Initialized(p)' /\ proc'[p].pc = "return"
        BY <4>1, <4>2 DEF FileInv, KeyOwned, Owner, Initialized, Others
      <4>3. CASE created \/ \E q \in Procs : Initialized(q) /\ proc[q].pc = "return"
        BY <4>1, <4>3 DEF Established, Owner, Others, At
      <4> QED
        BY <2>4, <3>1, <4>1, <4>2, <4>3 DEF Others, Initialized
    <3>2. CASE PowerLoss
      BY <3>2, IdleCommand DEF PowerLoss, Owner
    <3>3. CASE UNCHANGED vars
      BY <2>4, <3>3 DEF Established, Owner, Initialized, At, vars
    <3> QED
      BY <3>1, <3>2, <3>3 DEF Next
  <2> QED
    BY <2>2, <2>3, <2>4 DEF Established, At
<1>2. CASE ~created /\ \A p \in Procs : ~Initialized(p)
  <2>1. SameDirectory /\ ~Provisioned
    BY <1>2 DEF Established
  <2>2. ASSUME NEW p \in Procs, Start(p) \/ Lock(p) \/ Step(p) \/ Fault(p) \/ StatFails(p) \/ Crash(p)
        PROVE  Established'
    <3>1. /\ Others(p) /\ ~created'
          /\ Initialized(p)' => SyncDirectory(p) /\ proc'[p].pc # "return"
      BY <1>2, <2>2, CommandStep
    <3>2. Initialized(p)' => InForce'
      <4>1. SUFFICES ASSUME SyncDirectory(p), Initialized(p)' PROVE InForce'
        BY <3>1
      <4>2. proc[p].op = "init"
        BY <4>1, VerdictEffect DEF Initialized, SyncDirectory, FileInv, TypeOK, Goes, Points
      <4> QED
        BY <2>1, <4>1, <4>2, InForceMade
    <3>3. \A q \in Procs \ {p} : ~Initialized(q)'
      BY <1>2, <3>1 DEF Others, Initialized
    <3> QED
      BY <2>1, <3>1, <3>2, <3>3 DEF Established, At
  <2>3. CASE PowerLoss
    BY <1>2, <2>1, <2>3, IdleCommand DEF PowerLoss, Established, Initialized, histories
  <2>4. CASE UNCHANGED vars
    BY <1>2, <2>1, <2>4 DEF Established, Initialized, At, vars
  <2> QED
    BY <2>2, <2>3, <2>4 DEF Next
<1> QED
  BY <1>1, <1>2

LEMMA EstablishedInvariant ==
    ASSUME Provisioned \/ SameDirectory
    PROVE  Spec => [](FileInv /\ Established)
<1>1. FileInv /\ Established /\ [Next]_vars => FileInv' /\ Established'
  BY TypeStep, ExclusiveStep, InHandStep, NeverTornStep, KeyOwnedStep, EstablishedStep
     DEF FileInv
<1>2. Init => FileInv /\ Established
  BY InitInv, InitEstablished
<1> QED
  BY <1>1, <1>2, PTL DEF Spec

\* A vault that an initialisation has reported can be decrypted from then on,
\* whatever dies or fails (vault.rs:129-156), where one directory holds the vault
\* and the key.  Where it does not, only a vault that is on disk already is safe.
THEOREM VaultStaysInForce ==
    ASSUME Provisioned \/ SameDirectory
    PROVE  Spec => []InitializedForGood
<1>1. FileInv /\ Established => InitializedForGood
  BY DEF FileInv, TypeOK, Established, InForce, InitializedForGood, Decrypts, KeyReadable
<1> QED
  BY <1>1, EstablishedInvariant, PTL

-----------------------------------------------------------------------------
\* What was stored is in every map that a power failure may bring back, unless a
\* command replaced a vault that it did not see.
Keeps == \A v \in vaultDisk, i \in kept \ overlooked : v.secrets[i] # NoValue

LEMMA KeepsStep ==
    ASSUME Provisioned, FileInv, Established, Keeps, [Next]_vars
    PROVE  Keeps'
<1>0. InForce
  BY DEF Established
<1>1. ASSUME NEW p \in Procs, Rename(p) PROVE Keeps'
  <2>1. Shaped(proc[p]) /\ Prepared(proc[p]) /\ proc[p].pc = "rename"
    BY <1>1 DEF FileInv, InHand, Rename, At
  <2>2. vault \in vaultDisk /\ vault # NoFile /\ Loaded = vault.secrets
    BY <1>0 DEF FileInv, TypeOK, InForce, Loaded
  <2>3. CASE proc[p].blind
    <3>1. kept' \ overlooked' = {}
      BY <1>1, <2>3 DEF Rename
    <3> QED
      BY <3>1 DEF Keeps
  <2>4. CASE ~proc[p].blind
    <3>1. /\ proc[p].op \in {"set", "delete"} /\ proc[p].id \in Ids
          /\ proc[p].plain = [vault.secrets EXCEPT ![proc[p].id] = proc[p].val]
      BY <2>1, <2>2, <2>4 DEF Shaped, Prepared, Replacing, SeenBy
    <3>2. vault.secrets \in Secrets
      BY <2>2 DEF FileInv, TypeOK, Vaults
    <3>3. kept' \subseteq kept /\ overlooked' = overlooked
      BY <1>1, <2>4 DEF Rename
    <3>4. ASSUME NEW i \in kept' \ overlooked' PROVE proc[p].plain[i] # NoValue
      <4>1. i \in kept \ overlooked /\ i \in Ids /\ (proc[p].op = "delete" => i # proc[p].id)
        BY <1>1, <3>3, <3>4 DEF Rename, FileInv, TypeOK
      <4>2. CASE i = proc[p].id
        BY <2>1, <3>1, <3>2, <4>1, <4>2, VaultFileAssumption DEF Shaped, Secrets
      <4>3. CASE i # proc[p].id
        BY <2>2, <3>1, <3>2, <4>1, <4>3 DEF Keeps, Secrets
      <4> QED
        BY <4>2, <4>3
    <3>5. vaultDisk' = vaultDisk \cup {Sealed(p)} /\ Sealed(p).secrets = proc[p].plain
      BY <1>1, <2>1 DEF Rename, Prepared, Sealed
    <3> QED
      BY <3>3, <3>4, <3>5 DEF Keeps
  <2> QED
    BY <2>3, <2>4
<1>2. ASSUME NEW p \in Procs, SyncDirectory(p) PROVE Keeps'
  <2>1. Shaped(proc[p]) /\ Prepared(proc[p]) /\ proc[p].pc = "sync_directory"
    BY <1>2 DEF FileInv, InHand, SyncDirectory, At
  <2>2. vaultDisk' = {vault} /\ vault \in vaultDisk /\ vault.secrets = proc[p].plain
    <3>1. vault = Sealed(p) /\ proc[p].disk = {Sealed(p)}
      BY <2>1 DEF Prepared, Sealed
    <3>2. Sealed(p).secrets = proc[p].plain
      BY VaultMade DEF FileInv, TypeOK
    <3> QED
      BY <1>2, <3>1, <3>2 DEF SyncDirectory, FileInv, TypeOK
  <2>3. IF proc[p].op = "set"
        THEN kept' = kept \cup {proc[p].id} /\ overlooked' = overlooked \ {proc[p].id}
        ELSE UNCHANGED <<kept, overlooked>>
    BY <1>2 DEF SyncDirectory, Keep
  <2>4. proc[p].op = "set" => vault.secrets[proc[p].id] # NoValue
    BY <2>1, <2>2, VaultFileAssumption DEF Shaped, Prepared
  <2> QED
    BY <2>2, <2>3, <2>4 DEF Keeps
<1>3. CASE PowerLoss
  BY <1>3 DEF PowerLoss, Keeps, histories
<1>4. CASE UNCHANGED <<vaultDisk, kept, overlooked>>
  BY <1>4 DEF Keeps
<1> QED
  BY <1>1, <1>2, <1>3, <1>4, DiskStays

\* A secret that a set has stored stays readable until a delete, through races
\* of any commands, deaths, failing calls and power failures (vault.rs:271-284),
\* once the vault is set up; only a command that does not see the vault, because
\* its stat fails (vault.rs:147, vault.rs:180), can take it away.
THEOREM StoredStaysReadable ==
    ASSUME Provisioned
    PROVE  Spec => []ReadableUnlessOverlooked
<1>1. Init => Keeps
  BY DEF Init, Keeps
<1>2. FileInv /\ Established /\ Keeps /\ [Next]_vars => Keeps'
  BY KeepsStep
<1>3. FileInv /\ Established /\ Keeps => ReadableUnlessOverlooked
  BY DEF FileInv, TypeOK, Established, InForce, Keeps, ReadableUnlessOverlooked, Decrypts,
         KeyReadable
<1> QED
  BY <1>1, <1>2, <1>3, EstablishedInvariant, PTL DEF Spec

-----------------------------------------------------------------------------
\* The files implement the store: the steps of CredentialStore, one by one.
Calls == [req : [op : Ops \cup {"none"}, id : Ids \cup {NoValue}, val : Values \cup {NoValue}],
          stage : Abstract!Stages, answer : Values \cup {NoValue}, blind : BOOLEAN]

\* The calls of the store, as VaultFile substitutes them.
CallsNow == [p \in Procs |-> CallOf(proc[p])]

LEMMA CallFields ==
    ASSUME NEW c \in Commands
    PROVE  /\ CallOf(c) \in Calls
           /\ CallOf(c).req = RequestOf(c) /\ CallOf(c).stage = StageOf(c)
           /\ CallOf(c).answer = IF c.op = "get" /\ c.ok THEN c.val ELSE NoValue
           /\ CallOf(c).blind = c.blind
           /\ RequestOf(c).op = c.op /\ RequestOf(c).id = c.id
           /\ RequestOf(c).val = IF c.op = "get" THEN NoValue ELSE c.val
<1>1. /\ RequestOf(c) \in [op : Ops \cup {"none"}, id : Ids \cup {NoValue}, val : Values \cup {NoValue}]
      /\ RequestOf(c).op = c.op /\ RequestOf(c).id = c.id
      /\ RequestOf(c).val = IF c.op = "get" THEN NoValue ELSE c.val
  BY DEF Commands, RequestOf
<1>2. StageOf(c) \in Abstract!Stages
  BY DEF Commands, Points, StageOf, Abstract!Stages
<1>3. (IF c.op = "get" /\ c.ok THEN c.val ELSE NoValue) \in Values \cup {NoValue}
  BY DEF Commands
<1>4. c.blind \in BOOLEAN
  BY DEF Commands
<1> QED
  BY <1>1, <1>2, <1>3, <1>4 DEF CallOf, Calls

LEMMA SameCall ==
    ASSUME NEW r \in Calls, NEW t \in Calls,
           r.req = t.req, r.stage = t.stage, r.answer = t.answer, r.blind = t.blind
    PROVE  r = t
BY DEF Calls

LEMMA CallsUpdate ==
    ASSUME NEW p \in Procs, Others(p)
    PROVE  CallsNow' = [CallsNow EXCEPT ![p] = CallOf(proc'[p])]
BY DEF CallsNow, Others

\* An update of one stage, and of one stage and its answer.
LEMMA StageMade ==
    ASSUME NEW p \in Procs, proc \in [Procs -> Commands], proc' \in [Procs -> Commands],
           Others(p), NEW s \in Abstract!Stages, NEW a \in Values \cup {NoValue},
           CallOf(proc'[p]).req = CallOf(proc[p]).req,
           CallOf(proc'[p]).stage = s, CallOf(proc'[p]).answer = a,
           CallOf(proc'[p]).blind = CallOf(proc[p]).blind
    PROVE  /\ CallsNow' = [CallsNow EXCEPT ![p].stage = s, ![p].answer = a]
           /\ a = CallOf(proc[p]).answer => CallsNow' = [CallsNow EXCEPT ![p].stage = s]
           /\ (a = CallOf(proc[p]).answer /\ s = CallOf(proc[p]).stage) => CallsNow' = CallsNow
<1> DEFINE r == CallOf(proc[p])
           t == CallOf(proc'[p])
<1>1. r \in Calls /\ t \in Calls
  BY CallFields
<1>0. t.req = r.req /\ t.stage = s /\ t.answer = a /\ t.blind = r.blind
  OBVIOUS
<1> HIDE DEF r, t
<1>2. /\ t = [r EXCEPT !.stage = s, !.answer = a]
      /\ a = r.answer => t = [r EXCEPT !.stage = s]
      /\ (a = r.answer /\ s = r.stage) => t = r
  <2> DEFINE u == [r EXCEPT !.stage = s, !.answer = a]
             w == [r EXCEPT !.stage = s]
  <2>1. u \in Calls /\ u.req = r.req /\ u.stage = s /\ u.answer = a /\ u.blind = r.blind
    BY <1>1 DEF Calls
  <2>2. w \in Calls /\ w.req = r.req /\ w.stage = s /\ w.answer = r.answer /\ w.blind = r.blind
    BY <1>1 DEF Calls
  <2> HIDE DEF u, w
  <2>3. t = u
    BY <1>0, <1>1, <2>1, SameCall
  <2>4. a = r.answer => t = w
    BY <1>0, <1>1, <2>2, SameCall
  <2>5. (a = r.answer /\ s = r.stage) => t = r
    BY <1>0, <1>1, SameCall
  <2> QED
    BY <2>3, <2>4, <2>5 DEF u, w
<1>3. CallsNow[p] = r /\ CallsNow \in [Procs -> Calls]
  BY CallFields DEF CallsNow, r
<1>4. CallsNow' = [CallsNow EXCEPT ![p] = t]
  BY CallsUpdate DEF t
<1>5. t = r => [CallsNow EXCEPT ![p] = t] = CallsNow
  BY <1>3
<1> QED
  BY <1>2, <1>3, <1>4, <1>5 DEF r

LEMMA StageOnly ==
    ASSUME NEW p \in Procs, proc \in [Procs -> Commands], proc' \in [Procs -> Commands],
           Others(p), NEW stage \in Abstract!Stages,
           CallOf(proc'[p]).req = CallOf(proc[p]).req, CallOf(proc'[p]).stage = stage,
           CallOf(proc'[p]).answer = CallOf(proc[p]).answer,
           CallOf(proc'[p]).blind = CallOf(proc[p]).blind
    PROVE  CallsNow' = [CallsNow EXCEPT ![p].stage = stage]
<1> DEFINE r == CallOf(proc[p])
           t == CallOf(proc'[p])
           u == [r EXCEPT !.stage = stage]
<1>1. /\ r \in Calls /\ t \in Calls /\ t.req = r.req /\ t.stage = stage
      /\ t.answer = r.answer /\ t.blind = r.blind
  BY CallFields
<1> HIDE DEF r, t
<1>2. u \in Calls /\ u.req = r.req /\ u.stage = stage /\ u.answer = r.answer /\ u.blind = r.blind
  BY <1>1 DEF Calls
<1> HIDE DEF u
<1>3. t = u
  BY <1>1, <1>2, SameCall
<1>4. CallsNow[p] = r
  BY DEF CallsNow, r
<1>5. CallsNow' = [CallsNow EXCEPT ![p] = t]
  BY CallsUpdate DEF t
<1> QED
  BY <1>3, <1>4, <1>5 DEF u

\* The points of a request that has not changed the map, and of one that ends.
Open == {"check", "create_key", "write_key", "sync_key", "lock", "load", "recheck", "save",
         "write", "sync", "rename"}
Ended == {"unlock", "return", "cleanup"}

LEMMA MapOfWhole ==
    ASSUME NEW v \in Vaults, v.whole
    PROVE  Map(v) = v.secrets /\ Map(v) \in Secrets /\ Map(v) # NoFile
BY NoFileAssumption DEF Map, Vaults

LEMMA StoreNow ==
    ASSUME FileInv
    PROVE  Abstract!Contents = Loaded /\ (Map(vault) = NoFile <=> vault = NoFile)
<1>1. vault # NoFile => vault \in Vaults /\ vault.whole
  BY DEF FileInv, TypeOK, NeverTorn
<1>2. CASE vault = NoFile
  BY <1>2 DEF Abstract!Contents, Abstract!Empty, Loaded, Empty, Map
<1>3. CASE vault # NoFile
  BY <1>1, <1>3, MapOfWhole DEF Abstract!Contents, Loaded
<1> QED
  BY <1>2, <1>3

\* A step of a request that the store does not see.
LEMMA HiddenStep ==
    ASSUME FileInv, NEW p \in Procs, NEW point \in Points, Goes(p, point),
           proc'[p].ok = proc[p].ok, proc'[p].val = proc[p].val, UNCHANGED <<vault, vaultDisk>>,
           \/ proc[p].pc \in Open /\ point \in Open
           \/ proc[p].pc \in Ended /\ point \in Ended
    PROVE  UNCHANGED Abstract!vars
<1>1. proc[p] \in Commands /\ proc'[p] \in Commands /\ proc \in [Procs -> Commands]
  BY DEF FileInv, TypeOK, Goes
<1>2. RequestOf(proc'[p]) = RequestOf(proc[p])
  BY DEF RequestOf, Goes
<1>3. StageOf(proc'[p]) = StageOf(proc[p])
  BY DEF StageOf, Goes, Open, Ended
<1>4. /\ CallOf(proc'[p]).answer = CallOf(proc[p]).answer
      /\ CallOf(proc'[p]).blind = CallOf(proc[p]).blind
      /\ CallOf(proc'[p]).req = CallOf(proc[p]).req
      /\ CallOf(proc'[p]).stage = CallOf(proc[p]).stage
      /\ CallOf(proc[p]).stage \in Abstract!Stages
      /\ CallOf(proc[p]).answer \in Values \cup {NoValue}
  BY <1>1, <1>2, <1>3, CallFields DEF Goes, Calls
<1>5. CallsNow' = CallsNow
  BY <1>1, <1>4, StageMade DEF Goes
<1> QED
  BY <1>5 DEF CallsNow, Abstract!vars

\* A request that fails.
LEMMA FailedStep ==
    ASSUME FileInv, NEW p \in Procs, NEW point \in Ended, Fail(p, point),
           proc[p].pc # "idle", UNCHANGED <<vault, vaultDisk>>
    PROVE  Abstract!Fail(p) \/ UNCHANGED Abstract!vars
<1>1. proc \in [Procs -> Commands] /\ proc[p] \in Commands /\ point \in Points /\ Shaped(proc[p])
  BY DEF FileInv, TypeOK, Points, Ended, InHand
<1>2. Goes(p, point) /\ proc'[p].ok = FALSE /\ proc'[p].val = proc[p].val
  BY <1>1, FailEffect
<1>3. proc'[p] \in Commands /\ proc' \in [Procs -> Commands] /\ Others(p)
  BY <1>2 DEF Goes
<1>4. RequestOf(proc'[p]) = RequestOf(proc[p]) /\ StageOf(proc'[p]) = "failed"
  BY <1>2 DEF RequestOf, StageOf, Goes, Ended
<1>5. /\ CallOf(proc'[p]).answer = NoValue /\ CallOf(proc'[p]).req = CallOf(proc[p]).req
      /\ CallOf(proc'[p]).blind = CallOf(proc[p]).blind
      /\ CallOf(proc'[p]).stage = "failed" /\ CallOf(proc[p]).stage = StageOf(proc[p])
  BY <1>1, <1>2, <1>3, <1>4, CallFields DEF Goes
<1>6. "failed" \in Abstract!Stages
  BY DEF Abstract!Stages
<1>7. CASE StageOf(proc[p]) \in {"open", "committed", "done"}
  <2>1. CallsNow' = [CallsNow EXCEPT ![p].stage = "failed", ![p].answer = NoValue]
    BY <1>1, <1>3, <1>5, <1>6, StageMade
  <2>2. Abstract!Fail(p)
    BY <1>5, <1>7, <2>1 DEF Abstract!Fail, CallsNow
  <2> QED
    BY <2>2
<1>8. CASE StageOf(proc[p]) = "failed"
  <2>1. CallOf(proc[p]).answer = NoValue
    <3>1. proc[p].op = "get" /\ proc[p].ok => StageOf(proc[p]) = "done"
      BY <1>1 DEF Shaped, StageOf
    <3> QED
      BY <1>1, <1>8, <3>1, CallFields
  <2>2. CallOf(proc[p]).stage = "failed"
    BY <1>5, <1>8
  <2>3. CallsNow' = CallsNow
    BY <1>1, <1>3, <1>5, <1>6, <2>1, <2>2, StageMade
  <2> QED
    BY <2>3 DEF CallsNow, Abstract!vars
<1> QED
  BY <1>1, <1>7, <1>8 DEF StageOf, Commands, Points

LEMMA IdleCall == CallOf(Idle) = Abstract!Idle /\ Abstract!Idle \in Calls
<1>1. Abstract!NoRequest = RequestOf(Idle)
  <2> DEFINE R == [op : Ops \cup {"none"}, id : Ids \cup {NoValue}, val : Values \cup {NoValue}]
  <2>1. /\ Abstract!NoRequest \in R
        /\ Abstract!NoRequest.op = "none" /\ Abstract!NoRequest.id = NoValue
        /\ Abstract!NoRequest.val = NoValue
    BY DEF Abstract!NoRequest
  <2>2. /\ RequestOf(Idle) \in R
        /\ RequestOf(Idle).op = "none" /\ RequestOf(Idle).id = NoValue
        /\ RequestOf(Idle).val = NoValue
    BY IdleCommand DEF RequestOf
  <2>3. \A q, r \in R : q.op = r.op /\ q.id = r.id /\ q.val = r.val => q = r
    OBVIOUS
  <2> QED
    BY <2>1, <2>2, <2>3
<1>2. /\ CallOf(Idle) \in Calls /\ CallOf(Idle).req = RequestOf(Idle)
      /\ CallOf(Idle).stage = "idle" /\ CallOf(Idle).answer = NoValue
      /\ CallOf(Idle).blind = FALSE
  BY IdleCommand, CallFields DEF StageOf
<1>3. /\ Abstract!Idle.req = Abstract!NoRequest
      /\ Abstract!Idle.stage = "idle" /\ Abstract!Idle.answer = NoValue
      /\ Abstract!Idle.blind = FALSE
  BY DEF Abstract!Idle
<1>4. Abstract!Idle \in Calls
  <2>1. /\ RequestOf(Idle) \in [op : Ops \cup {"none"}, id : Ids \cup {NoValue}, val : Values \cup {NoValue}]
    BY IdleCommand DEF RequestOf
  <2> QED
    BY <1>1, <2>1 DEF Abstract!Idle, Calls, Abstract!Stages
<1> QED
  BY <1>1, <1>2, <1>3, <1>4, SameCall

LEMMA InitImplements == Init => Abstract!Init
<1> SUFFICES ASSUME Init PROVE Abstract!Init
  OBVIOUS
<1>1. Map(vault) \in {NoFile, Empty} /\ vaultDisk = {vault}
  <2>1. CASE Provisioned
    <3>1. vault = [key |-> 1, secrets |-> Empty, whole |-> TRUE] /\ vaultDisk = {vault}
      BY <2>1 DEF Init
    <3>2. vault \in Vaults /\ vault.whole /\ vault.secrets = Empty
      <4>1. Empty \in Secrets
        BY DEF Empty, Secrets
      <4>2. vault \in Vaults
        BY <3>1, <4>1 DEF Vaults
      <4> QED
        BY <3>1, <4>2
    <3> QED
      BY <3>1, <3>2, MapOfWhole
  <2>2. CASE ~Provisioned
    BY <2>2 DEF Init, Map
  <2> QED
    BY <2>1, <2>2
<1>2. \A p \in Procs : proc[p] = Idle
  BY DEF Init
<1>3. [p \in Procs |-> CallOf(proc[p])] = [p \in Procs |-> Abstract!Idle]
  BY <1>2, IdleCall
<1>4. {Map(v) : v \in vaultDisk} = {Map(vault)}
  BY <1>1
<1> QED
  BY <1>1, <1>3, <1>4 DEF Abstract!Init, Abstract!Empty, Empty

\* Start is where a request reaches the store.
LEMMA SubmitStep ==
    ASSUME FileInv, NEW p \in Procs, Start(p)
    PROVE  \E r \in Abstract!Request : Abstract!Submit(p, r)
<1> DEFINE c == proc'[p]
           r == RequestOf(c)
<1>1. /\ c \in Commands /\ Others(p) /\ proc[p] = Idle
      /\ c.op \in Ops /\ c.pc \in {"check", "lock"} /\ c.ok = FALSE
      /\ c.op \in {"set", "get", "delete"} => c.id \in Ids
      /\ c.op \in {"init", "validate"} => c.id = NoValue
      /\ IF c.op = "set" THEN c.val \in Values ELSE c.val = NoValue
      /\ c.blind = FALSE
  BY StartEffect DEF FileInv, TypeOK, Start, At, InHand, Shaped
<1> HIDE DEF c
<1>2. /\ CallOf(c) \in Calls /\ CallOf(c).req = r /\ CallOf(c).stage = "open"
      /\ CallOf(c).answer = NoValue /\ CallOf(c).blind = FALSE
  BY <1>1, CallFields DEF StageOf
<1>3. r \in Abstract!Request
  <2>1. r = [op |-> c.op, id |-> c.id, val |-> c.val]
    BY <1>1 DEF RequestOf
  <2>2. CASE c.op \in {"init", "validate"}
    BY <1>1, <2>1, <2>2 DEF Abstract!Request
  <2>3. CASE c.op \in {"get", "delete"}
    BY <1>1, <2>1, <2>3 DEF Abstract!Request
  <2>4. CASE c.op = "set"
    BY <1>1, <2>1, <2>4 DEF Abstract!Request
  <2> QED
    BY <1>1, <2>2, <2>3, <2>4, VaultFileAssumption
<1>4. r \in [op : Ops \cup {"none"}, id : Ids \cup {NoValue}, val : Values \cup {NoValue}]
  BY <1>2 DEF Calls
<1> HIDE DEF r
<1>5. CallOf(c) = [Abstract!Idle EXCEPT !.req = r, !.stage = "open"]
  <2> DEFINE u == [Abstract!Idle EXCEPT !.req = r, !.stage = "open"]
  <2>1. /\ u \in Calls /\ u.req = r /\ u.stage = "open" /\ u.answer = Abstract!Idle.answer
        /\ u.blind = Abstract!Idle.blind
    BY <1>4, IdleCall DEF Calls, Abstract!Stages
  <2>2. Abstract!Idle.answer = NoValue /\ Abstract!Idle.blind = FALSE
    BY DEF Abstract!Idle
  <2> HIDE DEF u
  <2>3. CallOf(c) = u
    BY <1>2, <2>1, <2>2, SameCall
  <2> QED
    BY <2>3 DEF u
<1>6. CallsNow' = [CallsNow EXCEPT ![p] = [Abstract!Idle EXCEPT !.req = r, !.stage = "open"]]
  BY <1>1, <1>5, CallsUpdate DEF c
<1>7. CallsNow[p].stage = "idle"
  BY <1>1, IdleCommand, CallFields DEF CallsNow, StageOf
<1>8. UNCHANGED <<vault, vaultDisk>>
  BY DEF Start, files
<1> QED
  BY <1>3, <1>6, <1>7, <1>8 DEF Abstract!Submit, CallsNow

\* The rename of the temporary file is where a request changes the map.
LEMMA CommitStep ==
    ASSUME FileInv, NEW p \in Procs, Rename(p)
    PROVE  Abstract!Commit(p)
<1>1. /\ proc \in [Procs -> Commands] /\ proc[p] \in Commands
      /\ Shaped(proc[p]) /\ Prepared(proc[p]) /\ proc[p].pc = "rename"
  BY DEF FileInv, TypeOK, InHand, Rename, At
<1>2. /\ Goes(p, "sync_directory") /\ proc'[p].ok = proc[p].ok /\ proc'[p].val = proc[p].val
      /\ proc'[p] \in Commands
  BY <1>1, GotoEffect DEF Rename, Points, Goes
<1>3. /\ CallOf(proc[p]).req = RequestOf(proc[p]) /\ CallOf(proc[p]).stage = "open"
      /\ CallOf(proc[p]).answer = NoValue
      /\ RequestOf(proc[p]).op = proc[p].op /\ RequestOf(proc[p]).id = proc[p].id
      /\ RequestOf(proc[p]).val = proc[p].val
      /\ proc[p].op \in {"init", "set", "delete"}
  BY <1>1, CallFields DEF StageOf, Shaped, Replacing, Seeing
<1>4. CallsNow' = [CallsNow EXCEPT ![p].stage = "committed"]
  <2>1. RequestOf(proc'[p]) = RequestOf(proc[p])
    BY <1>2 DEF RequestOf, Goes
  <2>2. /\ CallOf(proc'[p]).blind = CallOf(proc[p]).blind
        /\ CallOf(proc'[p]).req = CallOf(proc[p]).req /\ CallOf(proc'[p]).stage = "committed"
        /\ CallOf(proc'[p]).answer = NoValue
    BY <1>1, <1>2, <1>3, <2>1, CallFields DEF StageOf, Goes
  <2> QED
    BY <1>1, <1>2, <1>3, <2>2, StageMade DEF Goes, Abstract!Stages
<1>5. vault' = Sealed(p) /\ Map(vault') = proc[p].plain
  BY <1>1, VaultMade, MapOfWhole DEF Rename
<1>6. /\ Abstract!Seen(p) = SeenBy(proc[p])
      /\ Map(vault) = NoFile <=> vault = NoFile
      /\ CallsNow[p].req = RequestOf(proc[p]) /\ CallsNow[p].blind = proc[p].blind
  BY <1>1, <1>3, StoreNow, CallFields
     DEF Abstract!Seen, Abstract!Empty, Empty, SeenBy, CallsNow
<1>7. Abstract!Allowed(p)
  BY <1>1, <1>3, <1>6 DEF Abstract!Allowed, Prepared, Replacing, SeenBy, Shaped, CallsNow
<1>8. Abstract!Changed(p) = proc[p].plain
  <2>1. CASE proc[p].op = "init"
    BY <1>1, <1>3, <2>1 DEF Abstract!Changed, CallsNow, Abstract!Empty, Empty, Shaped
  <2>2. CASE proc[p].op = "set"
    BY <1>1, <1>3, <1>6, <2>2 DEF Abstract!Changed, CallsNow, Prepared, Replacing, SeenBy
  <2>3. CASE proc[p].op = "delete"
    BY <1>1, <1>3, <1>6, <2>3 DEF Abstract!Changed, CallsNow, Prepared, Replacing, SeenBy, Shaped
  <2> QED
    BY <1>3, <2>1, <2>2, <2>3
<1>9. {Map(v) : v \in vaultDisk'} = {Map(v) : v \in vaultDisk} \cup {Map(vault')}
  <2>1. vaultDisk' = vaultDisk \cup {vault'}
    BY <1>1, <1>5 DEF Rename, Prepared, Sealed
  <2> QED
    BY <2>1
<1> QED
  BY <1>3, <1>4, <1>5, <1>7, <1>8, <1>9 DEF Abstract!Commit, Abstract!Stage, CallsNow

\* The sync of the directory is where the change is there for good.
LEMMA FlushStep ==
    ASSUME FileInv, NEW p \in Procs, SyncDirectory(p)
    PROVE  Abstract!Flush(p)
<1>1. /\ proc \in [Procs -> Commands] /\ proc[p] \in Commands
      /\ Shaped(proc[p]) /\ Prepared(proc[p]) /\ proc[p].pc = "sync_directory"
  BY DEF FileInv, TypeOK, InHand, SyncDirectory, At
<1>2. /\ Goes(p, "unlock") /\ proc'[p].ok = TRUE /\ proc'[p].val = proc[p].val
      /\ proc'[p] \in Commands
  BY <1>1, VerdictEffect DEF SyncDirectory, Points, Goes
<1>3. CallOf(proc[p]).stage = "committed" /\ CallOf(proc[p]).answer = NoValue /\ proc[p].op # "get"
  BY <1>1, CallFields DEF StageOf, Shaped, Replacing, Seeing
<1>4. CallsNow' = [CallsNow EXCEPT ![p].stage = "done"]
  <2>1. RequestOf(proc'[p]) = RequestOf(proc[p]) /\ StageOf(proc'[p]) = "done"
    BY <1>2 DEF RequestOf, Goes, StageOf
  <2>2. /\ CallOf(proc'[p]).blind = CallOf(proc[p]).blind
        /\ CallOf(proc'[p]).req = CallOf(proc[p]).req /\ CallOf(proc'[p]).stage = "done"
        /\ CallOf(proc'[p]).answer = NoValue
    BY <1>1, <1>2, <1>3, <2>1, CallFields DEF Goes
  <2>3. /\ "done" \in Abstract!Stages
        /\ proc' \in [Procs -> Commands] /\ Others(p) /\ proc \in [Procs -> Commands]
        /\ CallOf(proc'[p]).answer = CallOf(proc[p]).answer
    BY <1>1, <1>2, <1>3, <2>2 DEF Goes, Abstract!Stages
  <2> QED
    BY <2>2, <2>3, StageOnly
<1>5. vaultDisk' = {vault} /\ vault' = vault
  BY <1>1 DEF SyncDirectory, Prepared
<1>6. {Map(v) : v \in vaultDisk'} = {Map(vault)}
  BY <1>5
<1> QED
  BY <1>3, <1>4, <1>5, <1>6 DEF Abstract!Flush, Abstract!Stage, CallsNow

\* validate_existing has nothing more to say (vault.rs:158-164).
LEMMA ValidatedStep ==
    ASSUME FileInv, NEW p \in Procs, proc[p].pc = "load", proc[p].op = "validate",
           Goes(p, "unlock"), proc'[p].ok = TRUE, proc'[p].val = proc[p].val,
           UNCHANGED <<vault, vaultDisk>>
    PROVE  Abstract!Answer(p)
<1>1. proc \in [Procs -> Commands] /\ proc[p] \in Commands
  BY DEF FileInv, TypeOK
<1>2. /\ CallOf(proc[p]).req = RequestOf(proc[p]) /\ CallOf(proc[p]).stage = "open"
      /\ CallOf(proc[p]).answer = NoValue /\ RequestOf(proc[p]).op = proc[p].op
  BY <1>1, CallFields DEF StageOf
<1>3. RequestOf(proc'[p]) = RequestOf(proc[p]) /\ StageOf(proc'[p]) = "done"
  BY DEF RequestOf, Goes, StageOf
<1>4. /\ CallOf(proc'[p]).blind = CallOf(proc[p]).blind
      /\ CallOf(proc'[p]).req = CallOf(proc[p]).req /\ CallOf(proc'[p]).stage = "done"
      /\ CallOf(proc'[p]).answer = NoValue /\ proc' \in [Procs -> Commands] /\ Others(p)
  BY <1>1, <1>2, <1>3, CallFields DEF Goes
<1>5. CallsNow' = [CallsNow EXCEPT ![p].stage = "done"]
  <2>1. "done" \in Abstract!Stages /\ proc \in [Procs -> Commands]
    BY <1>1 DEF Abstract!Stages
  <2>2. CallOf(proc'[p]).answer = CallOf(proc[p]).answer
    BY <1>2, <1>4
  <2> QED
    BY <1>4, <2>1, <2>2, StageOnly
<1> QED
  BY <1>1, <1>2, <1>5 DEF Abstract!Answer, Abstract!Stage, CallsNow

\* A read is answered from the map under the lock; a change goes on to save.
LEMMA LoadImplements ==
    ASSUME FileInv, NEW p \in Procs, Load(p)
    PROVE  Abstract!Answer(p) \/ Abstract!Fail(p) \/ UNCHANGED Abstract!vars
<1>1. /\ proc \in [Procs -> Commands] /\ proc[p] \in Commands
      /\ Shaped(proc[p]) /\ proc[p].pc = "load" /\ UNCHANGED <<vault, vaultDisk>>
  BY DEF FileInv, TypeOK, InHand, Load, At, files
<1>2. /\ CallOf(proc[p]).req = RequestOf(proc[p]) /\ CallOf(proc[p]).stage = "open"
      /\ CallOf(proc[p]).answer = NoValue
      /\ RequestOf(proc[p]).op = proc[p].op /\ RequestOf(proc[p]).id = proc[p].id
  BY <1>1, CallFields DEF StageOf, Shaped
<1>3. Abstract!Contents = Loaded
  BY StoreNow
<1>4. CASE Fail(p, "unlock")
  BY <1>1, <1>4, FailedStep DEF Ended
<1>5. CASE /\ Goes(p, "unlock") /\ proc'[p].ok = TRUE
           /\ proc[p].op = "validate" /\ proc'[p].val = proc[p].val
  BY <1>1, <1>5, ValidatedStep
<1>6. CASE /\ Goes(p, "unlock") /\ proc'[p].ok = TRUE /\ proc[p].op = "get"
           /\ Loaded[proc[p].id] # NoValue /\ proc'[p].val = Loaded[proc[p].id]
  <2>1. RequestOf(proc'[p]) = RequestOf(proc[p]) /\ StageOf(proc'[p]) = "done"
    BY <1>6 DEF RequestOf, Goes, StageOf
  <2>2. /\ CallOf(proc'[p]).blind = CallOf(proc[p]).blind
        /\ CallOf(proc'[p]).req = CallOf(proc[p]).req /\ CallOf(proc'[p]).stage = "done"
        /\ CallOf(proc'[p]).answer = Loaded[proc[p].id]
        /\ proc' \in [Procs -> Commands] /\ Others(p)
        /\ Loaded[proc[p].id] \in Values \cup {NoValue}
    BY <1>1, <1>2, <1>6, <2>1, CallFields DEF Goes, Commands
  <2>3. CallsNow' = [CallsNow EXCEPT ![p].stage = "done", ![p].answer = Loaded[proc[p].id]]
    BY <1>1, <2>2, StageMade DEF Abstract!Stages
  <2>4. /\ CallsNow[p].stage = "open" /\ CallsNow[p].req.op = "get"
        /\ CallsNow[p].req.id = proc[p].id
    BY <1>2, <1>6 DEF CallsNow
  <2>5. UNCHANGED <<vault, vaultDisk>>
    BY <1>1
  <2>6. Loaded[proc[p].id] # NoValue
    BY <1>6
  <2> QED
    BY <1>3, <2>3, <2>4, <2>5, <2>6 DEF Abstract!Answer, CallsNow
<1>7. CASE /\ Goes(p, "save") /\ proc'[p].ok = proc[p].ok /\ proc'[p].val = proc[p].val
  BY <1>1, <1>7, HiddenStep DEF Open, Points
<1> QED
  BY <1>1, <1>4, <1>5, <1>6, <1>7, LoadEffect DEF FileInv, Shaped

\* A command that does not see the vault takes the store for missing.
LEMMA BlindedStep ==
    ASSUME FileInv, NEW p \in Procs, Blinded(p), UNCHANGED <<vault, vaultDisk>>
    PROVE  Abstract!Overlook(p)
<1>1. /\ proc \in [Procs -> Commands] /\ proc[p] \in Commands /\ proc'[p] \in Commands
      /\ Shaped(proc[p]) /\ proc[p].pc \in {"recheck", "load"} /\ Others(p)
      /\ proc[p].op \in {"init", "set"}
  BY DEF FileInv, TypeOK, InHand, Blinded, Shaped
<1> DEFINE r == CallOf(proc[p])
           t == CallOf(proc'[p])
           u == [r EXCEPT !.blind = TRUE]
<1>2. /\ r \in Calls /\ r.req = RequestOf(proc[p]) /\ r.stage = "open" /\ r.answer = NoValue
      /\ r.req.op = proc[p].op
  BY <1>1, CallFields DEF StageOf
<1>3. RequestOf(proc'[p]) = RequestOf(proc[p])
  BY DEF RequestOf, Blinded
<1>4. /\ t \in Calls /\ t.req = r.req /\ t.stage = "open" /\ t.answer = NoValue
      /\ t.blind = TRUE
  BY <1>1, <1>2, <1>3, CallFields DEF StageOf, Blinded
<1> HIDE DEF r, t
<1>5. /\ u \in Calls /\ u.req = r.req /\ u.stage = r.stage /\ u.answer = r.answer
      /\ u.blind = TRUE
  BY <1>2 DEF Calls
<1> HIDE DEF u
<1>6. t = u
  BY <1>2, <1>4, <1>5, SameCall
<1>7. CallsNow[p] = r /\ CallsNow \in [Procs -> Calls]
  BY <1>1, CallFields DEF CallsNow, r
<1>8. CallsNow' = [CallsNow EXCEPT ![p] = t]
  BY <1>1, CallsUpdate DEF t
<1>9. CallsNow' = [CallsNow EXCEPT ![p].blind = TRUE]
  BY <1>6, <1>7, <1>8 DEF u
<1> QED
  BY <1>1, <1>2, <1>7, <1>9 DEF Abstract!Overlook, CallsNow

\* A stat that fails under the lock, and before it.
LEMMA StatFailsImplements ==
    ASSUME FileInv, NEW p \in Procs, StatFails(p)
    PROVE  \/ Abstract!Overlook(p) \/ Abstract!Answer(p) \/ Abstract!Fail(p)
           \/ UNCHANGED Abstract!vars
<1>1. /\ proc \in [Procs -> Commands] /\ TypeOK /\ Shaped(proc[p])
      /\ UNCHANGED <<vault, vaultDisk>>
  BY DEF FileInv, TypeOK, InHand, StatFails, files
<1>2. CASE proc[p].pc = "check" /\ Goto(p, "create_key")
  BY <1>1, <1>2, GotoEffect, HiddenStep DEF Open, Points
<1>3. CASE proc[p].pc = "load" /\ Fail(p, "unlock")
  BY <1>1, <1>3, FailedStep DEF Ended
<1>4. CASE /\ proc[p].pc = "load" /\ proc[p].op = "validate"
           /\ Goes(p, "unlock") /\ proc'[p].ok = TRUE /\ proc'[p].val = proc[p].val
  BY <1>1, <1>4, ValidatedStep
<1>5. CASE Blinded(p)
  BY <1>1, <1>5, BlindedStep
<1> QED
  BY <1>1, <1>2, <1>3, <1>4, <1>5, StatFailsEffect

\* A command ends, or its process dies.
LEMMA ReturnImplements ==
    ASSUME FileInv, NEW p \in Procs, Return(p) \/ Crash(p)
    PROVE  Abstract!Return(p) \/ Abstract!Die(p)
<1>1. /\ proc \in [Procs -> Commands] /\ proc[p] \in Commands /\ proc[p].pc # "idle"
      /\ proc[p].pc = "return" \/ Crash(p)
      /\ UNCHANGED <<vault, vaultDisk>> /\ proc' = [proc EXCEPT ![p] = Idle]
  BY DEF FileInv, TypeOK, Return, Crash, At, files
<1>2. proc'[p] = Idle /\ Others(p)
  BY <1>1, ReturnEffect
<1>3. CallsNow' = [CallsNow EXCEPT ![p] = Abstract!Idle]
  BY <1>2, CallsUpdate, IdleCall
<1>4. CallOf(proc[p]).stage = StageOf(proc[p])
  BY <1>1, CallFields
<1>5. CASE proc[p].pc = "return"
  <2>1. StageOf(proc[p]) \in {"done", "failed"}
    BY <1>1, <1>5 DEF StageOf, Commands
  <2> QED
    BY <1>1, <1>3, <1>4, <2>1 DEF Abstract!Return, CallsNow
<1>6. CASE Crash(p)
  <2>1. StageOf(proc[p]) # "idle"
    BY <1>1 DEF StageOf, Commands, Points
  <2> QED
    BY <1>1, <1>3, <1>4, <2>1 DEF Abstract!Die, CallsNow
<1> QED
  BY <1>1, <1>5, <1>6

LEMMA StepImplements == FileInv /\ [Next]_vars => [Abstract!Next]_(Abstract!vars)
<1> SUFFICES ASSUME FileInv, [Next]_vars PROVE Abstract!Next \/ UNCHANGED Abstract!vars
  OBVIOUS
<1>0. proc \in [Procs -> Commands] /\ InHand
  BY DEF FileInv, TypeOK
<1>1. ASSUME NEW p \in Procs, Start(p) PROVE Abstract!Next
  BY <1>1, SubmitStep DEF Abstract!Next
<1>2. ASSUME NEW p \in Procs, Rename(p) PROVE Abstract!Next
  BY <1>2, CommitStep DEF Abstract!Next
<1>3. ASSUME NEW p \in Procs, SyncDirectory(p) PROVE Abstract!Next
  BY <1>3, FlushStep DEF Abstract!Next
<1>4. ASSUME NEW p \in Procs, Return(p) \/ Crash(p) PROVE Abstract!Next
  BY <1>4, ReturnImplements DEF Abstract!Next
<1>5. ASSUME NEW p \in Procs, Load(p) PROVE Abstract!Next \/ UNCHANGED Abstract!vars
  BY <1>5, LoadImplements DEF Abstract!Next
<1>6. ASSUME NEW p \in Procs, NEW point \in Ended, Fail(p, point), proc[p].pc # "idle",
             UNCHANGED <<vault, vaultDisk>>
      PROVE  Abstract!Next \/ UNCHANGED Abstract!vars
  BY <1>6, FailedStep DEF Abstract!Next
<1>7. ASSUME NEW p \in Procs, NEW point \in Points, Goto(p, point),
             UNCHANGED <<vault, vaultDisk>>,
             \/ proc[p].pc \in Open /\ point \in Open
             \/ proc[p].pc \in Ended /\ point \in Ended
      PROVE  UNCHANGED Abstract!vars
  BY <1>0, <1>7, GotoEffect, HiddenStep
<1>8. ASSUME NEW p \in Procs,
             \/ CheckAbsent(p) \/ WriteKey(p) \/ SyncKey(p) \/ Lock(p) \/ Recheck(p)
             \/ Unlock(p) \/ RemoveKey(p)
      PROVE  Abstract!Next \/ UNCHANGED Abstract!vars
  <2>1. UNCHANGED <<vault, vaultDisk>>
    BY <1>8 DEF CheckAbsent, WriteKey, SyncKey, Lock, Recheck, Unlock, RemoveKey, files
  <2>2. \/ \E point \in {"return", "unlock"} : Fail(p, point) /\ proc[p].pc # "idle"
        \/ /\ proc[p].pc \in Open
           /\ \E point \in {"create_key", "sync_key", "lock", "recheck", "load", "save"} :
                 Goto(p, point)
        \/ /\ proc[p].pc \in Ended
           /\ \E point \in {"cleanup", "return"} : Goto(p, point)
    BY <1>8 DEF CheckAbsent, WriteKey, SyncKey, Lock, Recheck, Unlock, RemoveKey, At, Open, Ended
  <2> QED
    BY <1>6, <1>7, <2>1, <2>2 DEF Open, Ended, Points
<1>9. ASSUME NEW p \in Procs, CreateKey(p) PROVE Abstract!Next \/ UNCHANGED Abstract!vars
  <2>1. proc[p].pc = "create_key" /\ UNCHANGED <<vault, vaultDisk>>
    BY <1>9 DEF CreateKey, At
  <2>2. CASE Fail(p, "return")
    BY <1>6, <2>1, <2>2 DEF Ended
  <2>3. CASE Goes(p, "write_key") /\ proc'[p].ok = proc[p].ok /\ proc'[p].val = proc[p].val
    BY <2>1, <2>3, HiddenStep DEF Open, Points
  <2> QED
    BY <1>9, <2>2, <2>3, CreateKeyEffect DEF FileInv
<1>10. ASSUME NEW p \in Procs, CreateTemporary(p)
       PROVE  Abstract!Next \/ UNCHANGED Abstract!vars
  <2>1. proc[p].pc = "save" /\ UNCHANGED <<vault, vaultDisk>>
    BY <1>10 DEF CreateTemporary, At
  <2>2. CASE Fail(p, "unlock")
    BY <1>6, <2>1, <2>2 DEF Ended
  <2>3. CASE Goes(p, "write") /\ proc'[p].ok = proc[p].ok /\ proc'[p].val = proc[p].val
    BY <2>1, <2>3, HiddenStep DEF Open, Points
  <2> QED
    BY <1>10, <2>2, <2>3, CreateTemporaryEffect DEF FileInv
<1>11. ASSUME NEW p \in Procs, WriteTemporary(p) \/ SyncTemporary(p)
       PROVE  UNCHANGED Abstract!vars
  <2>1. PICK D \in SUBSET Vaults, point \in {"sync", "rename"} :
           proc' = [proc EXCEPT ![p].pc = point, ![p].disk = D]
    BY <1>0, <1>11, DiskWritten DEF WriteTemporary, SyncTemporary
  <2>2. Goes(p, point) /\ proc'[p].ok = proc[p].ok /\ proc'[p].val = proc[p].val
    <3>1. point \in Points
      BY DEF Points
    <3> QED
      BY <1>0, <2>1, <3>1, DiskEffect
  <2>3. proc[p].pc \in Open /\ UNCHANGED <<vault, vaultDisk>>
    BY <1>11 DEF WriteTemporary, SyncTemporary, At, files, Open
  <2> QED
    BY <2>2, <2>3, HiddenStep DEF Open, Points
<1>12. ASSUME NEW p \in Procs, Fault(p) PROVE Abstract!Next \/ UNCHANGED Abstract!vars
  <2>1. \E point \in Ended : Fail(p, point)
    BY <1>12 DEF Fault, Ended
  <2>2. proc[p].pc # "idle" /\ UNCHANGED <<vault, vaultDisk>>
    BY <1>12 DEF Fault, At
  <2> QED
    BY <1>6, <2>1, <2>2
<1>13. CASE PowerLoss
  <2>1. CallsNow' = [p \in Procs |-> Abstract!Idle]
    BY <1>13, IdleCall DEF PowerLoss, CallsNow
  <2>2. /\ Map(vault') \in {Map(v) : v \in vaultDisk}
        /\ {Map(v) : v \in vaultDisk'} = {Map(vault')}
    BY <1>13 DEF PowerLoss
  <2> QED
    BY <2>1, <2>2 DEF Abstract!Next, Abstract!PowerLoss, CallsNow
<1>14. CASE UNCHANGED vars
  BY <1>14 DEF vars, Abstract!vars
<1>15. ASSUME NEW p \in Procs, StatFails(p) PROVE Abstract!Next \/ UNCHANGED Abstract!vars
  BY <1>15, StatFailsImplements DEF Abstract!Next
<1> QED
  BY <1>1, <1>2, <1>3, <1>4, <1>5, <1>8, <1>9, <1>10, <1>11, <1>12, <1>13, <1>14, <1>15
     DEF Next, Step

\* The vault, key, lock and temporary files implement a crash-safe map whose
\* requests take effect one at a time, under no assumption on how many processes
\* race, die, fail or do not see the vault (vault.rs:158-182, vault.rs:251-301).
THEOREM FilesImplementStore == Spec => ImplementsStore
<1>1. FileInv /\ [Next]_vars => [Abstract!Next]_(Abstract!vars)
  BY StepImplements
<1> QED
  BY <1>1, InitImplements, FilesInvariant, PTL DEF Spec, ImplementsStore, Abstract!Spec
=============================================================================

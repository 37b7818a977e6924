------------------------------ MODULE AuditFile ------------------------------
(***************************************************************************)
(* AuditLog::record (src/audit.rs): tasks of several processes append      *)
(* records to one file.  A mutex orders the tasks of a process; nothing    *)
(* orders processes.  The file is opened with O_APPEND, so one write(2) is *)
(* one piece at the end of the file; it may be short, and it may fail.     *)
(***************************************************************************)
EXTENDS Integers, FiniteSets, Sequences, Functions

CONSTANTS
    AuditTasks,    \* tasks of all processes
    ProcessOf,     \* ProcessOf[t]: the process of task t
    LineSize,      \* units of a line, the last of which is its newline
    MaxRecords,    \* bound: calls of record()
    MaxShort       \* bound: writes that are short, fail, or are cut by a crash

ASSUME AuditFileAssumption ==
    /\ ProcessOf \in [AuditTasks -> Range(ProcessOf)]
    /\ LineSize \in Nat \ {0} /\ MaxRecords \in Nat /\ MaxShort \in Nat

VARIABLES
    auditFile,    \* the units of the file, each with its record
    auditTask,    \* auditTask[t]: the record t writes, and how much of it is written
    acked,        \* records whose record() has returned Ok
    author,       \* author[r]: the process of record r
    short         \* history: writes that left a line incomplete

auditVars == <<auditFile, auditTask, acked, author, short>>

Idle == [rec |-> 0, at |-> 0, held |-> FALSE]

\* The types, and a mutex has one holder, who alone is in the middle of a line.
AuditTypeOK ==
    /\ auditFile \in Seq([rec : 1..MaxRecords, unit : 1..LineSize])
    /\ auditTask \in [AuditTasks -> [rec : 0..MaxRecords, at : 0..LineSize, held : BOOLEAN]]
    /\ author \in Seq(Range(ProcessOf)) /\ Len(author) <= MaxRecords
    /\ acked \subseteq 1..Len(author)
    /\ short \in 0..MaxShort
    /\ \A t, u \in AuditTasks :
          /\ auditTask[t].at > 0 => auditTask[t].held
          /\ t # u /\ auditTask[t].held /\ auditTask[u].held => ProcessOf[t] # ProcessOf[u]

Spare == short < MaxShort /\ short' = short + 1

AuditInit ==
    /\ auditFile = <<>> /\ author = <<>>
    /\ auditTask = [t \in AuditTasks |-> Idle]
    /\ acked = {} /\ short = 0

\* record() is called, and waits for the mutex of its process.
AuditCall(t) ==
    /\ auditTask[t] = Idle /\ Len(author) < MaxRecords
    /\ author' = Append(author, ProcessOf[t])
    /\ auditTask' = [auditTask EXCEPT ![t].rec = Len(author) + 1]
    /\ UNCHANGED <<auditFile, acked, short>>

LockForgotten(t) ==
    /\ auditTask[t].rec # 0 /\ ~auditTask[t].held
    /\ auditTask' = [auditTask EXCEPT ![t].held = TRUE]
    /\ UNCHANGED <<auditFile, acked, author, short>>

\* lock.lock(), then the line is made and the file opened.
AuditLock(t) ==
    /\ auditTask[t].rec # 0 /\ ~auditTask[t].held
    /\ \A u \in AuditTasks : auditTask[u].held => ProcessOf[u] # ProcessOf[t]
    /\ auditTask' = [auditTask EXCEPT ![t].held = TRUE]
    /\ UNCHANGED <<auditFile, acked, author, short>>

Units(r, first, last) == [i \in 1..(last - first + 1) |-> [rec |-> r, unit |-> first + i - 1]]

\* One write(2) takes n units more of the line of t.
Put(t, n) ==
    /\ auditTask[t].held /\ n \in 1..(LineSize - auditTask[t].at)
    /\ auditFile' = auditFile \o Units(auditTask[t].rec, auditTask[t].at + 1, auditTask[t].at + n)
    /\ UNCHANGED author

Ack(t) == acked' = acked \cup {auditTask[t].rec} /\ auditTask' = [auditTask EXCEPT ![t] = Idle]
Advance(t, n) == auditTask' = [auditTask EXCEPT ![t].at = @ + n] /\ UNCHANGED acked
LineDone(t, n) == auditTask[t].at + n = LineSize

WriteOnce(t) ==
    \E n \in 1..LineSize :
        Put(t, n) /\ Ack(t) /\ IF LineDone(t, n) THEN UNCHANGED short ELSE Spare

WritePiecewise(t) ==
    Put(t, 1) /\ UNCHANGED short /\ IF LineDone(t, 1) THEN Ack(t) ELSE Advance(t, 1)

\* write_all: goes on after a short write, and returns Ok when the line is written.
AuditWrite(t) ==
    \E n \in 1..LineSize :
        /\ Put(t, n)
        /\ IF LineDone(t, n) THEN Ack(t) /\ UNCHANGED short ELSE Advance(t, n) /\ Spare

\* open or write fails: record() returns an error and leaves what is written.
AuditFails(t) ==
    /\ auditTask[t].held
    /\ auditTask' = [auditTask EXCEPT ![t] = Idle]
    /\ UNCHANGED <<auditFile, acked, author, short>>

\* The process p ends between two writes of its tasks.
AuditCrash(p) ==
    /\ \E t \in AuditTasks : ProcessOf[t] = p /\ auditTask[t] # Idle
    /\ auditTask' = [t \in AuditTasks |-> IF ProcessOf[t] = p THEN Idle ELSE auditTask[t]]
    /\ UNCHANGED <<auditFile, acked, author, short>>

AuditNext ==
    \/ \E t \in AuditTasks : AuditCall(t) \/ AuditLock(t) \/ AuditWrite(t) \/ AuditFails(t)
    \/ \E p \in Range(ProcessOf) : AuditCrash(p)

AuditSpec == AuditInit /\ [][AuditNext]_auditVars

-----------------------------------------------------------------------------
Places(r) == {i \in DOMAIN auditFile : auditFile[i].rec = r}

\* The line of r can be read: its units are together, after a newline.
Readable(r) ==
    \E i \in 1..(Len(auditFile) - LineSize + 1) :
        /\ SubSeq(auditFile, i, i + LineSize - 1) = Units(r, 1, LineSize)
        /\ i = 1 \/ auditFile[i - 1].unit = LineSize

\* An acknowledged record is in the file, all of it and in order (audit.rs:57-62).
AckedIsWritten ==
    \A r \in acked :
        /\ \A u \in 1..LineSize : \E i \in Places(r) : auditFile[i].unit = u
        /\ \A i, j \in Places(r) : i < j => auditFile[i].unit < auditFile[j].unit

\* Tasks of one process never write into each other's line (audit.rs:40).
OwnLinesApart ==
    \A r, s \in DOMAIN author :
        r # s /\ author[r] = author[s] =>
            \A i, j \in Places(r) : \A k \in Places(s) : ~(i < k /\ k < j)

\* Processes that share the file spoil at most two acknowledged records for each
\* write that was short, and none while every write is whole (audit.rs:57-62).
DamageBounded ==
    Cardinality({r \in acked : ~Readable(r)}) <= 2 * short
=============================================================================

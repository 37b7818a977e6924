------------------------------ MODULE SshChild ------------------------------
(***************************************************************************)
(* One call of SshBroker::execute (src/ssh.rs) from spawn to its result:   *)
(* the ssh client, its two output pipes, the two tasks that read them and  *)
(* the timer, which covers the wait for the client and nothing else.       *)
(*                                                                         *)
(* A byte is a unit of a counter; no process but the client holds a pipe.  *)
(***************************************************************************)
EXTENDS Integers

CONSTANTS
    OutputLimit,   \* limits.max_response_bytes, for each stream
    PipeSize,      \* PipeSize[s]: bytes the pipe of stream s holds
    BufferSize,    \* bytes one read returns at most
    MaxOutput      \* bound: bytes the client writes to a stream

Streams == {"stdout", "stderr"}

ASSUME SshChildAssumption ==
    /\ {OutputLimit, BufferSize} \subseteq Nat \ {0}
    /\ PipeSize \in [Streams -> Nat \ {0}]
    /\ MaxOutput \in Nat

VARIABLES
    stage,     \* where execute() is
    child,     \* the ssh client
    stream,    \* stream[s]: a pipe, the task that reads it, and its Captured
    outcome    \* what the call has come to

childVars == <<stage, child, stream, outcome>>

Dead == {"ok", "nonzero", "killed"}

\* The types; what a task keeps never outgrows the limit, nor a pipe its size.
ChildTypeOK ==
    /\ stage \in {"idle", "wait", "kill", "drain", "join_stdout", "join_stderr",
                  "record", "over", "gone"}
    /\ child \in {"none", "running", "dying"} \cup Dead
    /\ stream \in [Streams -> [wrote : 0..MaxOutput, pipe : Nat,
                               kept : 0..OutputLimit, truncated : BOOLEAN,
                               task : {"reading", "done", "failed"}]]
    /\ \A s \in Streams : stream[s].pipe <= PipeSize[s]
    /\ outcome \in {"none", "completed", "failed", "timeout", "error"}

Least(a, b) == IF a < b THEN a ELSE b

Streaming(task) ==
    [s \in Streams |-> [wrote |-> 0, pipe |-> 0, kept |-> 0, truncated |-> FALSE, task |-> task]]

Killed == IF child = "running" THEN "dying" ELSE child
TaskEnded(s) == stream[s].task \in {"done", "failed"}
Goto(next) == stage' = next /\ UNCHANGED outcome
Over(result) == stage' = "over" /\ outcome' = result

-----------------------------------------------------------------------------
ChildInit ==
    /\ stage = "idle" /\ child = "none" /\ outcome = "none"
    /\ stream = Streaming("done")

\* spawn, take both pipes, spawn both reading tasks; or the client does not start.
Spawn ==
    /\ stage = "idle"
    /\ \/ Goto("wait") /\ child' = "running" /\ stream' = Streaming("reading")
       \/ Over("error") /\ UNCHANGED <<child, stream>>

\* The client blocks on a full pipe; a pipe that nobody reads any more fails it.
ChildWrites(s) ==
    /\ child = "running" /\ stream[s].task = "reading"
    /\ stream[s].wrote < MaxOutput /\ stream[s].pipe < PipeSize[s]
    /\ stream' = [stream EXCEPT ![s].wrote = @ + 1, ![s].pipe = @ + 1]
    /\ UNCHANGED <<stage, child, outcome>>

ChildExits ==
    /\ child = "running"
    /\ child' \in {"ok", "nonzero"}
    /\ UNCHANGED <<stage, stream, outcome>>

ChildDies ==
    /\ child = "dying"
    /\ child' = "killed"
    /\ UNCHANGED <<stage, stream, outcome>>

Count(s) == Least(stream[s].pipe, BufferSize)
Remaining(s) == OutputLimit - stream[s].kept

\* One pass of the loop of read_limited, which keeps and cuts as given.
ReadPass(s, keep, cut) ==
    /\ stream[s].task = "reading" /\ stream[s].pipe > 0
    /\ stream' = [stream EXCEPT ![s].pipe = @ - Count(s), ![s].kept = @ + keep,
                                ![s].truncated = @ \/ cut]
    /\ UNCHANGED <<stage, child, outcome>>

ReadUntilLimit(s) ==
    Remaining(s) > 0 /\ ReadPass(s, Least(Count(s), Remaining(s)), Count(s) > Remaining(s))

ReadMarksFull(s) == ReadPass(s, Least(Count(s), Remaining(s)), Count(s) >= Remaining(s))

ReadUnbounded(s) == ReadPass(s, Count(s), Count(s) > Remaining(s))

\* What does not fit is dropped, and reading goes on.
Read(s) == ReadPass(s, Least(Count(s), Remaining(s)), Count(s) > Remaining(s))

EndTask(s, how) ==
    /\ stream[s].task = "reading"
    /\ stream' = [stream EXCEPT ![s].task = how]
    /\ UNCHANGED <<stage, child, outcome>>

\* count == 0: the pipe is empty and the client holds it no more.
EndOfStream(s) == child \in Dead /\ stream[s].pipe = 0 /\ EndTask(s, "done")

ReadFails(s) == EndTask(s, "failed")

\* child.wait() returns before the timer.
WaitReturns ==
    /\ stage = "wait" /\ child \in Dead
    /\ Goto("join_stdout")
    /\ UNCHANGED <<child, stream>>

\* child.wait() fails: kill_on_drop ends the client, both tasks are detached.
WaitFails ==
    /\ stage = "wait"
    /\ Over("error") /\ child' = Killed
    /\ UNCHANGED stream

TimerOnly ==
    /\ stage = "wait"
    /\ Goto("kill")
    /\ UNCHANGED <<child, stream>>

\* timeout_seconds are over; the client may have exited unnoticed.
TimerFires ==
    /\ stage = "wait"
    /\ Goto("kill") /\ child' = Killed
    /\ UNCHANGED stream

ReapLater ==
    /\ stage = "kill"
    /\ Goto("drain")
    /\ UNCHANGED <<child, stream>>

\* kill() and wait() after a timeout; their errors are ignored.
Reap ==
    /\ stage = "kill" /\ child \in Dead
    /\ Goto("drain")
    /\ UNCHANGED <<child, stream>>

\* Both tasks are awaited, whatever they return; then the timeout is recorded.
Drain ==
    /\ stage = "drain" /\ \A s \in Streams : TaskEnded(s)
    /\ Over("timeout") \/ Over("error")
    /\ UNCHANGED <<child, stream>>

\* stdout_task.await??, then stderr_task.await??: no timer covers these.
Join(s, point, next) ==
    /\ stage = point /\ TaskEnded(s)
    /\ IF stream[s].task = "failed" THEN Over("error") ELSE Goto(next)
    /\ UNCHANGED <<child, stream>>

JoinNext ==
    Join("stdout", "join_stdout", "join_stderr") \/ Join("stderr", "join_stderr", "record")

\* audit.record(..)?, and the output goes to the caller.
RecordExit ==
    /\ stage = "record"
    /\ Over(IF child = "ok" THEN "completed" ELSE "failed") \/ Over("error")
    /\ UNCHANGED <<child, stream>>

\* execute() returns and its values are dropped.  What an error leaves behind, a
\* client that is dying and tasks nobody awaits, acts on nothing any more.
Leave ==
    /\ stage = "over"
    /\ stage' = "idle" /\ child' = "none" /\ outcome' = "none"
    /\ stream' = Streaming("done")

\* The broker ends: by a signal it handles, which drops the call and kills the
\* client, or at once, which leaves it behind with pipes that nobody reads.
BrokerEnds ==
    /\ stage # "gone"
    /\ stage' = "gone" /\ child' \in {child, Killed}
    /\ outcome' = "none" /\ stream' = Streaming("done")

\* What the runtime does, the timer included.
CallStep ==
    \/ \E s \in Streams : Read(s) \/ EndOfStream(s)
    \/ WaitReturns \/ TimerFires \/ Reap \/ Drain \/ RecordExit
    \/ JoinNext

\* What the client does, and what fails.
ChildStep ==
    \/ \E s \in Streams : ChildWrites(s) \/ ReadFails(s)
    \/ ChildExits \/ ChildDies \/ WaitFails

ChildNext == Spawn \/ Leave \/ CallStep \/ ChildStep \/ BrokerEnds

\* A killed client dies, a task is polled when its pipe has data or has ended;
\* nothing is asked of the client itself.
ChildFairness ==
    /\ WF_childVars(WaitReturns \/ TimerFires)
    /\ WF_childVars(Reap \/ Drain \/ RecordExit)
    /\ WF_childVars(JoinNext)
    /\ WF_childVars(ChildDies)
    /\ \A s \in Streams : WF_childVars(Read(s)) /\ WF_childVars(EndOfStream(s))

-----------------------------------------------------------------------------
\* A result holds all that the client wrote, up to the limit of each stream, and
\* says truncated exactly when something is missing, however writes, reads, the
\* exit and the joins interleave (ssh.rs:163-184, ssh.rs:320-330).
CaptureExact ==
    outcome \in {"completed", "failed"} =>
        \A s \in Streams :
            /\ stream[s].kept = Least(stream[s].wrote, OutputLimit)
            /\ stream[s].truncated <=> stream[s].wrote > OutputLimit

\* A call that is over leaves no client running, and one that did not fail
\* leaves neither a client nor a reading task (ssh.rs:148-151, ssh.rs:299).
NothingLeftBehind ==
    stage = "over" =>
        /\ child # "running"
        /\ outcome # "error" => child \in Dead /\ \A s \in Streams : TaskEnded(s)

\* The client is never held up by the output limit: a full pipe is read while
\* its task lives (ssh.rs:320-330).
PipesDrain ==
    \A s \in Streams :
        stream[s].pipe = PipeSize[s] ~> stream[s].pipe < PipeSize[s] \/ stream[s].task # "reading"

\* A call ends even when the client never does (ssh.rs:140-161).
CallEnds == stage = "wait" ~> stage \in {"over", "gone"}
=============================================================================

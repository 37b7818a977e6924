---------------------------- MODULE BridgeProofs ----------------------------
(* Theorems about Bridge: its calls, those of SshChild, for any limit, pipe  *)
(* and buffer sizes and any amount of output; and its connection, that of    *)
(* Connection, for any capacity of the channels and any number of messages.  *)
EXTENDS Bridge, SequenceTheorems, TLAPS

-----------------------------------------------------------------------------
\* The call that runs.

\* What a reading task keeps is determined by what it has read, in reads of
\* whatever size (ssh.rs:320-330).
Counted ==
    \A s \in Streams :
        LET seen == stream[s].wrote - stream[s].pipe
        IN  /\ seen >= 0
            /\ stream[s].kept = Least(seen, OutputLimit)
            /\ stream[s].truncated <=> seen > OutputLimit

\* A task ends by itself only behind a dead client and an empty pipe; the client
\* of a killed broker is nobody's (ssh.rs:322-324).
EndedBehind ==
    \A s \in Streams :
        stream[s].task = "done" =>
            stream[s].pipe = 0 /\ (stage = "gone" \/ child \notin {"running", "dying"})

\* The points of execute() and what each has waited for (ssh.rs:140-184).
Waited ==
    /\ stage = "idle" => child = "none"
    /\ stage \in {"kill", "over"} => child # "running"
    /\ stage \in {"drain", "join_stdout", "join_stderr", "record"} => child \in Dead
    /\ stage \in {"join_stderr", "record"} => stream["stdout"].task = "done"
    /\ stage = "record" => stream["stderr"].task = "done"

\* Only a call that is over has an outcome, and one without an error has waited
\* for the client and for both tasks (ssh.rs:150-179).
Decided ==
    /\ outcome # "none" => stage = "over"
    /\ outcome \in {"timeout", "completed", "failed"} =>
          child \in Dead /\ \A s \in Streams : TaskEnded(s)
    /\ outcome \in {"completed", "failed"} => \A s \in Streams : stream[s].task = "done"
    /\ stage = "over" => outcome # "none"

ChildInv == ChildTypeOK /\ Counted /\ EndedBehind /\ Waited /\ Decided

-----------------------------------------------------------------------------
\* Every step of Bridge is a step of the call, or leaves it alone.
LEMMA BridgeSteps == [Next]_vars => [ChildNext]_childVars
BY DEF Next, BeginCall, ReturnCall, vars, ChildNext

LEMMA InitInv == ChildInit => ChildInv
BY SshChildAssumption DEF ChildInit, Streaming, ChildInv, ChildTypeOK, Counted, EndedBehind,
       Waited, Decided, Streams, Dead, Least, TaskEnded

\* The records of the streams, field by field.
LEMMA StreamTypes ==
    ASSUME ChildTypeOK, NEW s \in Streams
    PROVE  /\ stream[s].wrote \in 0..MaxOutput /\ stream[s].pipe \in Nat
           /\ stream[s].kept \in 0..OutputLimit /\ stream[s].truncated \in BOOLEAN
           /\ stream[s].task \in {"reading", "done", "failed"}
           /\ stream[s].pipe <= PipeSize[s]
BY DEF ChildTypeOK

\* A pass of read_limited reads something, and keeps as much of it as fits.
LEMMA ReadCounts ==
    ASSUME NEW pipe \in Nat, pipe > 0, NEW seen \in Nat, NEW limit \in Nat,
           NEW buffer \in Nat \ {0}
    PROVE  LET count == Least(pipe, buffer)
               kept == Least(seen, limit)
           IN  /\ count \in Nat /\ 0 < count /\ count <= pipe
               /\ kept + Least(count, limit - kept) = Least(seen + count, limit)
               /\ (seen > limit \/ count > limit - kept) <=> seen + count > limit
BY DEF Least

LEMMA LeastBounded ==
    ASSUME NEW a \in Nat, NEW b \in Nat
    PROVE  Least(a, b) \in 0..b
BY DEF Least

\* A pass of read_limited keeps the invariant.
LEMMA ReadInv ==
    ASSUME ChildInv, NEW s \in Streams, Read(s)
    PROVE  ChildInv'
<1> DEFINE count == Count(s)
           keep == Least(count, Remaining(s))
<1> USE SshChildAssumption
<1>1. /\ stream[s].task = "reading" /\ stream[s].pipe > 0
      /\ stream' = [stream EXCEPT ![s].pipe = @ - count, ![s].kept = @ + keep,
                                  ![s].truncated = @ \/ count > Remaining(s)]
      /\ UNCHANGED <<stage, child, outcome>>
  BY DEF Read, ReadPass
<1>2. \A t \in Streams :
        /\ stream[t].wrote \in 0..MaxOutput /\ stream[t].pipe \in Nat
        /\ stream[t].kept \in 0..OutputLimit /\ stream[t].truncated \in BOOLEAN
        /\ stream[t].task \in {"reading", "done", "failed"}
        /\ stream[t].pipe <= PipeSize[t]
  BY StreamTypes DEF ChildInv
<1>3. PICK seen \in Nat :
        /\ seen = stream[s].wrote - stream[s].pipe
        /\ stream[s].kept = Least(seen, OutputLimit)
        /\ stream[s].truncated <=> seen > OutputLimit
  BY <1>2 DEF ChildInv, Counted
<1>4. /\ count \in Nat /\ 0 < count /\ count <= stream[s].pipe
      /\ stream[s].kept + keep = Least(seen + count, OutputLimit)
      /\ (stream[s].truncated \/ count > Remaining(s)) <=> seen + count > OutputLimit
  BY <1>1, <1>2, <1>3, ReadCounts DEF Count, Remaining
<1> HIDE DEF count, keep
<1>5. /\ stream'[s].wrote = stream[s].wrote /\ stream'[s].task = stream[s].task
      /\ stream'[s].pipe = stream[s].pipe - count
      /\ stream'[s].kept = stream[s].kept + keep
      /\ stream'[s].truncated = (stream[s].truncated \/ count > Remaining(s))
      /\ \A t \in Streams \ {s} : stream'[t] = stream[t]
  BY <1>1 DEF ChildInv, ChildTypeOK
<1>6. ChildTypeOK'
  <2>1. stream'[s].kept \in 0..OutputLimit
    <3>1. seen + count \in Nat /\ OutputLimit \in Nat
      BY <1>3, <1>4
    <3>2. stream'[s].kept = Least(seen + count, OutputLimit)
      BY <1>4, <1>5
    <3> QED
      BY <3>1, <3>2, LeastBounded
  <2>2. stream'[s].pipe \in Nat /\ stream'[s].pipe <= PipeSize[s]
    BY <1>2, <1>4, <1>5
  <2>3. stream'[s].truncated \in BOOLEAN
    BY <1>5
  <2> DEFINE States == [wrote : 0..MaxOutput, pipe : Nat, kept : 0..OutputLimit,
                        truncated : BOOLEAN, task : {"reading", "done", "failed"}]
             d == [stream[s] EXCEPT !.pipe = @ - count, !.kept = @ + keep,
                                    !.truncated = @ \/ count > Remaining(s)]
  <2>4. stream' \in [Streams -> States]
    <3>1. stream \in [Streams -> States]
      BY DEF ChildInv, ChildTypeOK
    <3>2. stream' = [stream EXCEPT ![s] = d] /\ stream'[s] = d
      BY <1>1, <3>1
    <3>3. d \in States
      <4>1. /\ d.pipe \in Nat /\ d.kept \in 0..OutputLimit /\ d.truncated \in BOOLEAN
        BY <2>1, <2>2, <2>3, <3>2
      <4>2. stream[s] \in States
        BY <3>1
      <4> QED
        BY <4>1, <4>2
    <3> HIDE DEF States, d
    <3> QED
      BY <3>1, <3>2, <3>3
  <2>5. ASSUME NEW t \in Streams PROVE stream'[t].pipe <= PipeSize[t]
    BY <1>2, <1>5, <2>2
  <2> QED
    BY <1>1, <2>4, <2>5 DEF ChildInv, ChildTypeOK
<1>7. Counted'
  <2> SUFFICES ASSUME NEW t \in Streams
               PROVE  /\ stream'[t].wrote - stream'[t].pipe >= 0
                      /\ stream'[t].kept
                            = Least(stream'[t].wrote - stream'[t].pipe, OutputLimit)
                      /\ stream'[t].truncated
                            <=> stream'[t].wrote - stream'[t].pipe > OutputLimit
    BY DEF Counted
  <2>1. CASE t # s
    BY <2>1, <1>5 DEF ChildInv, Counted
  <2>2. CASE t = s
    <3>1. stream'[s].wrote - stream'[s].pipe = seen + count
      BY <1>2, <1>3, <1>4, <1>5
    <3>2. stream'[s].truncated <=> seen + count > OutputLimit
      BY <1>4, <1>5
    <3> QED
      BY <2>2, <3>1, <3>2, <1>3, <1>4, <1>5
  <2> QED
    BY <2>1, <2>2
<1>8. EndedBehind' /\ Waited' /\ Decided'
  BY <1>1, <1>5 DEF ChildInv, EndedBehind, Waited, Decided, TaskEnded, Streams
<1> QED
  BY <1>6, <1>7, <1>8 DEF ChildInv

\* The stream keeps its counts when the client writes one byte more to it.
LEMMA WriteInv ==
    ASSUME ChildInv, NEW s \in Streams, ChildWrites(s)
    PROVE  ChildInv'
<1> USE SshChildAssumption
<1>1. /\ stream[s].wrote \in 0..MaxOutput /\ stream[s].pipe \in Nat
      /\ stream[s].wrote < MaxOutput /\ stream[s].pipe < PipeSize[s]
      /\ PipeSize[s] \in Nat
  BY StreamTypes DEF ChildInv, ChildWrites
<1>2. /\ stream'[s].wrote = stream[s].wrote + 1 /\ stream'[s].pipe = stream[s].pipe + 1
      /\ stream'[s].kept = stream[s].kept /\ stream'[s].task = "reading"
      /\ stream'[s].truncated = stream[s].truncated
      /\ \A t \in Streams \ {s} : stream'[t] = stream[t]
  BY DEF ChildInv, ChildTypeOK, ChildWrites
<1>3. ChildTypeOK'
  BY <1>1 DEF ChildInv, ChildTypeOK, ChildWrites
<1>4. Counted'
  <2>1. stream'[s].wrote - stream'[s].pipe = stream[s].wrote - stream[s].pipe
    BY <1>1, <1>2
  <2> QED
    BY <1>2, <2>1 DEF ChildInv, Counted
<1>5. EndedBehind' /\ Waited' /\ Decided'
  BY <1>2 DEF ChildInv, ChildWrites, EndedBehind, Waited, Decided, TaskEnded, Streams, Dead
<1> QED
  BY <1>3, <1>4, <1>5 DEF ChildInv

\* A reading task ends: at the end of the stream, or by an error.
LEMMA EndInv ==
    ASSUME ChildInv, NEW s \in Streams, EndOfStream(s) \/ ReadFails(s)
    PROVE  ChildInv'
<1>1. PICK how \in {"done", "failed"} :
        /\ EndTask(s, how)
        /\ how = "done" => child \in Dead /\ stream[s].pipe = 0
  BY DEF EndOfStream, ReadFails
<1>2. /\ stream'[s].wrote = stream[s].wrote /\ stream'[s].pipe = stream[s].pipe
      /\ stream'[s].kept = stream[s].kept /\ stream'[s].task = how
      /\ stream'[s].truncated = stream[s].truncated
      /\ \A t \in Streams \ {s} : stream'[t] = stream[t]
  BY <1>1 DEF ChildInv, ChildTypeOK, EndTask
<1>3. ChildTypeOK'
  BY <1>1 DEF ChildInv, ChildTypeOK, EndTask
<1>4. Counted'
  BY <1>2 DEF ChildInv, Counted
<1>5. EndedBehind' /\ Waited' /\ Decided'
  BY <1>1, <1>2 DEF ChildInv, EndTask, EndedBehind, Waited, Decided, TaskEnded, Streams, Dead
<1> QED
  BY <1>3, <1>4, <1>5 DEF ChildInv

\* Spawn and the drop of a call: streams that have seen nothing.
LEMMA FreshInv ==
    ASSUME ChildInv, ChildTypeOK', stream' = Streaming("done") \/ stream' = Streaming("reading"),
           stream' = Streaming("done") =>
               stage' = "gone" \/ child' \notin {"running", "dying"}
    PROVE  Counted' /\ EndedBehind'
BY SshChildAssumption DEF Streaming, Counted, EndedBehind, Least

LEMMA StepInv == ChildInv /\ [ChildNext]_childVars => ChildInv'
<1> SUFFICES ASSUME ChildInv, [ChildNext]_childVars
             PROVE  ChildInv'
  OBVIOUS
<1> USE SshChildAssumption DEF ChildInv
<1>1. CASE Spawn
  <2>1. Streaming("reading") \in [Streams -> [wrote : 0..MaxOutput, pipe : Nat, kept : 0..OutputLimit,
                                  truncated : BOOLEAN, task : {"reading", "done", "failed"}]]
        /\ \A s \in Streams : Streaming("reading")[s].pipe <= PipeSize[s]
    BY DEF Streaming
  <2>2. CASE stream' = Streaming("reading") /\ Goto("wait") /\ child' = "running"
    <3>1. stream' # Streaming("done")
      BY <2>2 DEF Streaming, Streams
    <3>2. ChildTypeOK'
      BY <2>1, <2>2 DEF Goto, ChildTypeOK
    <3>3. Waited' /\ Decided'
      BY <1>1, <2>2 DEF Spawn, Goto, Waited, Decided
    <3> QED
      BY <2>2, <3>1, <3>2, <3>3, FreshInv
  <2>3. CASE UNCHANGED <<child, stream>> /\ Over("error")
    <3>1. ChildTypeOK'
      BY <2>3 DEF Over, ChildTypeOK
    <3> QED
      BY <1>1, <2>3, <3>1 DEF Spawn, Over, Counted, EndedBehind, Waited, Decided
  <2> QED
    BY <1>1, <2>2, <2>3 DEF Spawn
<1>2. CASE Leave
  <2>1. ChildTypeOK'
    BY <1>2 DEF Leave, Streaming, ChildTypeOK
  <2>2. Waited' /\ Decided'
    BY <1>2 DEF Leave, Waited, Decided
  <2> QED
    BY <1>2, <2>1, <2>2, FreshInv DEF Leave
<1>3. CASE BrokerEnds
  <2>1. ChildTypeOK'
    BY <1>3 DEF BrokerEnds, Killed, Streaming, ChildTypeOK
  <2>2. Waited' /\ Decided'
    BY <1>3 DEF BrokerEnds, Waited, Decided
  <2> QED
    BY <1>3, <2>1, <2>2, FreshInv DEF BrokerEnds
<1>4. ASSUME NEW s \in Streams,
             Read(s) \/ EndOfStream(s) \/ ChildWrites(s) \/ ReadFails(s)
      PROVE  ChildInv'
  BY <1>4, ReadInv, EndInv, WriteInv
\* The other steps leave the streams alone.
<1> DEFINE Rest == EndedBehind /\ Waited /\ Decided
<1>5. CASE WaitReturns \/ TimerFires \/ WaitFails
  <2>1. ChildTypeOK' /\ Counted'
    BY <1>5 DEF WaitReturns, TimerFires, WaitFails, Goto, Over, Killed, Dead, ChildTypeOK, Counted
  <2>2. Rest'
    BY <1>5 DEF WaitReturns, TimerFires, WaitFails, Goto, Over, Killed, Dead, ChildTypeOK,
                EndedBehind, Waited, Decided
  <2> QED
    BY <2>1, <2>2
<1>6. CASE Reap \/ Drain
  <2>1. ChildTypeOK' /\ Counted'
    BY <1>6 DEF Reap, Drain, Goto, Over, ChildTypeOK, Counted
  <2>2. Rest'
    BY <1>6 DEF Reap, Drain, Goto, Over, Dead, TaskEnded, EndedBehind, Waited, Decided
  <2> QED
    BY <2>1, <2>2
<1>7. CASE JoinNext
  <2>1. ChildTypeOK' /\ Counted'
    BY <1>7 DEF JoinNext, Join, Goto, Over, ChildTypeOK, Counted
  <2>2. Rest'
    BY <1>7 DEF JoinNext, Join, Goto, Over, Dead, Streams, TaskEnded, ChildTypeOK,
                EndedBehind, Waited, Decided
  <2> QED
    BY <2>1, <2>2
<1>8. CASE RecordExit
  <2>1. ChildTypeOK' /\ Counted'
    BY <1>8 DEF RecordExit, Over, ChildTypeOK, Counted
  <2>2. Rest'
    BY <1>8 DEF RecordExit, Over, Dead, Streams, TaskEnded, EndedBehind, Waited, Decided
  <2> QED
    BY <2>1, <2>2
<1>9. CASE ChildExits \/ ChildDies
  <2>1. ChildTypeOK' /\ Counted'
    BY <1>9 DEF ChildExits, ChildDies, Dead, ChildTypeOK, Counted
  <2>2. Rest'
    BY <1>9 DEF ChildExits, ChildDies, Dead, TaskEnded, EndedBehind, Waited, Decided
  <2> QED
    BY <2>1, <2>2
<1>10. CASE UNCHANGED childVars
  BY <1>10 DEF childVars, ChildTypeOK, Counted, EndedBehind, Waited, Decided, TaskEnded
<1> QED
  BY <1>1, <1>2, <1>3, <1>4, <1>5, <1>6, <1>7, <1>8, <1>9, <1>10
     DEF ChildNext, CallStep, ChildStep

-----------------------------------------------------------------------------
LEMMA Inductive == Spec => []ChildInv
<1>1. Init => ChildInv
  BY InitInv DEF Init
<1>2. ChildInv /\ [Next]_vars => ChildInv'
  BY BridgeSteps, StepInv
<1> QED
  BY <1>1, <1>2, PTL DEF Spec

\* A result holds all that the client wrote, up to the limit, and says truncated
\* exactly when something is missing (ssh.rs:163-184, ssh.rs:320-330).
THEOREM OutputIsCaptured == Spec => []CaptureExact
<1>1. ChildInv => CaptureExact
  <2> SUFFICES ASSUME ChildInv, outcome \in {"completed", "failed"}, NEW s \in Streams
               PROVE  /\ stream[s].kept = Least(stream[s].wrote, OutputLimit)
                      /\ stream[s].truncated <=> stream[s].wrote > OutputLimit
    BY DEF CaptureExact
  <2>1. stream[s].pipe = 0 /\ stream[s].wrote \in Nat
    BY StreamTypes, SshChildAssumption DEF ChildInv, Decided, EndedBehind
  <2>2. stream[s].wrote - stream[s].pipe = stream[s].wrote
    BY <2>1
  <2> QED
    BY <2>2 DEF ChildInv, Counted
<1> QED
  BY <1>1, Inductive, PTL

\* A call that is over leaves no client running, and one without an error leaves
\* neither a client nor a reading task (ssh.rs:148-151, ssh.rs:299).
THEOREM CallsCleanUp == Spec => []NothingLeftBehind
<1>1. ChildInv => NothingLeftBehind
  BY DEF ChildInv, ChildTypeOK, Waited, Decided, NothingLeftBehind
<1> QED
  BY <1>1, Inductive, PTL

-----------------------------------------------------------------------------
\* The connection.

Channels == {"stdin", "up", "down", "stdout"}
Numbers == Seq(1..MaxMessages)

\* While the broker lives, what it has not read are the messages that follow the
\* one it is at (mcp.rs:44-52, main.rs:273-279).
Flow ==
    server.pc # "dead" =>
        /\ Len(kind) = server.msg + Len(chan.up) + Len(chan.stdin)
        /\ \A i \in 1..Len(chan.up) : chan.up[i] = server.msg + i
        /\ \A i \in 1..Len(chan.stdin) : chan.stdin[i] = server.msg + Len(chan.up) + i

\* What serve_io is at wants what it does (mcp.rs:55-87).
Handling ==
    /\ server.msg <= Len(kind)
    /\ server.pc \in {"begin", "work", "write"} => server.msg > 0 /\ IsAnswered(server.msg)
    /\ server.pc \in {"begin", "work"} => kind[server.msg] = "call"

\* ExecutedOnce, and nothing is executed ahead of what was read.
Executed ==
    /\ \A n \in 1..Len(executed) :
          /\ executed[n] \in 1..server.msg /\ kind[executed[n]] = "call"
          /\ server.pc = "begin" => executed[n] < server.msg
    /\ \A m, n \in 1..Len(executed) : m < n => executed[m] < executed[n]

\* In which order the halves of the connection end (main.rs:273-286).
Closing ==
    /\ proxy.up = "shut" => client # "open" /\ chan.stdin = <<>>
    /\ proxy.main \in {"download", "ok"} => proxy.up = "shut"
    /\ proxy.main = "ok" => proxy.down = "done"
    /\ ProxyUp /\ server.pc = "ended" => proxy.up = "shut" /\ chan.up = <<>>
    /\ proxy.down = "done" => ~ServerUp
    /\ proxy.down = "failed" => client = "gone" \/ ~ServerUp
    /\ proxy.down = "done" \/ ~ProxyUp => chan.down = <<>>

\* The answers that have left the broker and are not lost.
Delivered == received \o chan.stdout \o chan.down

\* Lists, for messages of the kinds k.
InOrder(k, s, n) ==
    /\ Range(s) = {i \in 1..n : k[i] # "note"}
    /\ \A i, j \in 1..Len(s) : i < j => s[i] < s[j]

\* The answers are those to an initial part of the messages: to all that were
\* handled, while nothing broke, and to all there are when the download ends well.
Ordered ==
    client # "gone" =>
        /\ \E n \in 0..Len(kind) : InOrder(kind, Delivered, n)
        /\ Intact => InOrder(kind, Delivered, Handled)
        /\ proxy.down = "done" /\ server.pc # "dead" /\ (ProxyUp \/ proxy.main = "ok") =>
              InOrder(kind, Delivered, Len(kind))

ConnInv == ConnTypeOK /\ Flow /\ Handling /\ Executed /\ Closing /\ Ordered

-----------------------------------------------------------------------------
(* Channels and lists.                                                       *)

LEMMA Types ==
    ASSUME ConnTypeOK
    PROVE  /\ kind \in Seq(Kinds) /\ Len(kind) \in 0..MaxMessages
           /\ \A i \in 1..Len(kind) : kind[i] \in Kinds
           /\ chan \in [Channels -> Numbers] /\ \A c \in Channels : chan[c] \in Numbers
           /\ executed \in Numbers /\ received \in Numbers
           /\ server \in [pc : {"read", "begin", "work", "write", "ended", "dead"},
                          msg : 0..MaxMessages]
           /\ server.msg \in 0..MaxMessages
           /\ proxy \in [up : {"copy", "shut", "failed"}, down : {"copy", "done", "failed"},
                         main : {"upload", "download", "stopping", "ok", "error"}]
<1>1. Len(kind) \in Nat
  BY LenProperties DEF ConnTypeOK
<1> QED
  BY <1>1, ConnectionAssumption, ElementOfSeq DEF ConnTypeOK, Channels, Numbers

\* A message that goes from the head of t to the end of s is in no other place
\* of the two in a row.
LEMMA Passes ==
    ASSUME NEW S, NEW s \in Seq(S), NEW t \in Seq(S), t # <<>>
    PROVE  /\ Append(s, Head(t)) \in Seq(S) /\ Tail(t) \in Seq(S)
           /\ Append(s, Head(t)) \o Tail(t) = s \o t
<1>1. /\ Head(t) \in S /\ Tail(t) \in Seq(S) /\ Len(Tail(t)) = Len(t) - 1
      /\ \A i \in 1..Len(Tail(t)) : Tail(t)[i] = t[i + 1]
      /\ Head(t) = t[1] /\ Len(t) \in Nat \ {0} /\ Len(s) \in Nat
  BY HeadTailProperties, LenProperties, EmptySeq
<1> DEFINE a == Append(s, Head(t))
           u == Tail(t)
<1>2. /\ a \in Seq(S) /\ Len(a) = Len(s) + 1 /\ a[Len(s) + 1] = t[1]
      /\ \A i \in 1..Len(s) : a[i] = s[i]
  BY <1>1, AppendProperties
<1>3. u \in Seq(S) /\ Len(u) = Len(t) - 1 /\ \A i \in 1..Len(u) : u[i] = t[i + 1]
  BY <1>1
<1> HIDE DEF a, u
<1>4. /\ a \o u \in Seq(S) /\ Len(a \o u) = Len(a) + Len(u)
      /\ \A i \in 1..Len(a) + Len(u) :
            (a \o u)[i] = IF i <= Len(a) THEN a[i] ELSE u[i - Len(a)]
  BY <1>2, <1>3, ConcatProperties
<1>5. /\ s \o t \in Seq(S) /\ Len(s \o t) = Len(s) + Len(t)
      /\ \A i \in 1..Len(s) + Len(t) :
            (s \o t)[i] = IF i <= Len(s) THEN s[i] ELSE t[i - Len(s)]
  BY ConcatProperties
<1>6. Len(a \o u) = Len(s \o t)
  BY <1>1, <1>2, <1>3, <1>4, <1>5
<1>7. ASSUME NEW i \in 1..Len(s \o t)
      PROVE  (a \o u)[i] = (s \o t)[i]
  <2>0. i \in Nat /\ Len(s) \in Nat
    BY <1>1, <1>5
  <2>1. CASE i <= Len(s)
    BY <1>1, <1>2, <1>3, <1>4, <1>5, <1>7, <2>1
  <2>2. CASE i = Len(s) + 1
    BY <1>1, <1>2, <1>3, <1>4, <1>5, <1>7, <2>2
  <2>3. CASE i > Len(s) + 1
    <3>1. (a \o u)[i] = u[i - Len(a)] /\ i - Len(a) \in 1..Len(u)
      BY <1>1, <1>2, <1>3, <1>4, <1>5, <1>7, <2>3
    <3>2. (s \o t)[i] = t[i - Len(s)] /\ (i - Len(a)) + 1 = i - Len(s)
      BY <1>1, <1>2, <1>5, <1>7, <2>3
    <3> QED
      BY <1>3, <3>1, <3>2
  <2>4. i <= Len(s) \/ i = Len(s) + 1 \/ i > Len(s) + 1
    BY <2>0
  <2> QED
    BY <2>1, <2>2, <2>3, <2>4
<1>8. a \o u = s \o t
  BY <1>4, <1>5, <1>6, <1>7, SeqEqual
<1> QED
  BY <1>2, <1>3, <1>8 DEF a, u

\* The lists of a run over n and n + 1 messages.
LEMMA ListsNext ==
    ASSUME NEW l, NEW s \in Numbers, NEW n \in Nat, InOrder(l, s, n)
    PROVE  /\ l[n + 1] = "note" => InOrder(l, s, n + 1)
           /\ l[n + 1] # "note" /\ n + 1 \in 1..MaxMessages => InOrder(l, Append(s, n + 1), n + 1)
<1>0. /\ Len(s) \in Nat /\ DOMAIN s = 1..Len(s)
      /\ \A i \in 1..Len(s) : s[i] \in 1..n
  <2>1. Len(s) \in Nat /\ DOMAIN s = 1..Len(s)
    BY LenProperties DEF Numbers
  <2> QED
    BY <2>1 DEF InOrder, Range
<1>1. ASSUME l[n + 1] = "note"
      PROVE  InOrder(l, s, n + 1)
  BY <1>1 DEF InOrder
<1>2. ASSUME l[n + 1] # "note", n + 1 \in 1..MaxMessages
      PROVE  InOrder(l, Append(s, n + 1), n + 1)
  <2> DEFINE a == Append(s, n + 1)
  <2>1. /\ a \in Numbers /\ Len(a) = Len(s) + 1 /\ a[Len(s) + 1] = n + 1
        /\ \A i \in 1..Len(s) : a[i] = s[i]
    BY <1>2, AppendProperties DEF Numbers
  <2>2. DOMAIN a = 1..Len(s) + 1
    BY <2>1, LenProperties DEF Numbers
  <2> HIDE DEF a
  <2>3. Range(a) = {i \in 1..n + 1 : l[i] # "note"}
    <3>1. Range(a) = Range(s) \cup {n + 1}
      <4>1. \A i \in DOMAIN a : a[i] \in Range(s) \cup {n + 1}
        BY <1>0, <2>1, <2>2 DEF Range
      <4>2. Range(s) \subseteq Range(a)
        BY <1>0, <2>1, <2>2 DEF Range
      <4>3. n + 1 \in Range(a)
        BY <1>0, <2>1, <2>2 DEF Range
      <4> QED
        BY <4>1, <4>2, <4>3 DEF Range
    <3> QED
      BY <1>2, <3>1 DEF InOrder
  <2>4. \A j, k \in 1..Len(a) : j < k => a[j] < a[k]
    <3> SUFFICES ASSUME NEW j \in 1..Len(a), NEW k \in 1..Len(a), j < k
                 PROVE  a[j] < a[k]
      OBVIOUS
    <3>1. j \in 1..Len(s) /\ a[j] = s[j] /\ s[j] \in 1..n
      BY <1>0, <2>1
    <3>2. CASE k \in 1..Len(s)
      BY <2>1, <3>1, <3>2 DEF InOrder
    <3>3. CASE k = Len(s) + 1
      BY <2>1, <3>1, <3>3
    <3> QED
      BY <1>0, <2>1, <3>2, <3>3
  <2> QED
    BY <2>3, <2>4 DEF InOrder, a
<1> QED
  BY <1>1, <1>2

\* What comes first in a list is the list of fewer messages.
LEMMA ListsFirst ==
    ASSUME NEW l, NEW s \in Numbers, NEW t \in Numbers, NEW n \in Nat, InOrder(l, s \o t, n)
    PROVE  \E m \in 0..n : InOrder(l, s, m)
<1> DEFINE a == s \o t
<1>1. /\ a \in Numbers /\ Len(a) = Len(s) + Len(t)
      /\ \A i \in 1..Len(s) + Len(t) : a[i] = IF i <= Len(s) THEN s[i] ELSE t[i - Len(s)]
      /\ DOMAIN a = 1..Len(a) /\ DOMAIN s = 1..Len(s) /\ Len(s) \in Nat /\ Len(t) \in Nat
  BY ConcatProperties, LenProperties DEF Numbers
<1>2. InOrder(l, a, n)
  OBVIOUS
<1> HIDE DEF a
<1>3. \A i \in 1..Len(s) : s[i] = a[i] /\ i \in 1..Len(a)
  BY <1>1
<1>4. CASE t = <<>>
  <2>1. s \o t = s
    BY <1>4, ConcatEmptySeq DEF Numbers
  <2> QED
    BY <2>1
<1>5. CASE t # <<>>
  <2> DEFINE first == Len(s) + 1
  <2>1. first \in 1..Len(a) /\ Len(t) > 0
    BY <1>1, <1>5, EmptySeq DEF Numbers
  <2>2. a[first] \in 1..n
    BY <1>1, <1>2, <2>1 DEF InOrder, Range
  <2> DEFINE m == a[first] - 1
  <2>3. m \in 0..n
    BY <2>2
  <2>4. ASSUME NEW i \in 1..Len(s)
        PROVE  s[i] \in 1..m /\ l[s[i]] # "note"
    <3>1. i \in 1..Len(a) /\ i < first /\ s[i] = a[i]
      BY <1>1, <2>4
    <3>2. a[i] < a[first]
      BY <1>2, <2>1, <3>1 DEF InOrder
    <3>3. a[i] \in 1..n /\ l[a[i]] # "note"
      BY <1>1, <1>2, <3>1 DEF InOrder, Range
    <3> QED
      BY <2>2, <3>1, <3>2, <3>3
  <2>5. ASSUME NEW i \in 1..m, l[i] # "note"
        PROVE  \E k \in 1..Len(s) : s[k] = i
    <3>0. i \in 1..n /\ i < a[first]
      BY <2>2, <2>5
    <3>1. PICK k \in 1..Len(a) : a[k] = i
      <4>1. i \in Range(a)
        BY <1>2, <2>5, <3>0 DEF InOrder
      <4> QED
        BY <1>1, <4>1 DEF Range
    <3>2. ~(first < k) /\ k # first
      <4>1. first < k => a[first] < a[k]
        BY <1>2, <2>1 DEF InOrder
      <4> QED
        BY <2>2, <3>0, <3>1, <4>1
    <3> QED
      BY <1>1, <1>3, <2>1, <3>1, <3>2
  <2>6. Range(s) = {i \in 1..m : l[i] # "note"}
    <3>1. Range(s) \subseteq {i \in 1..m : l[i] # "note"}
      BY <1>1, <2>4 DEF Range
    <3>2. {i \in 1..m : l[i] # "note"} \subseteq Range(s)
      BY <1>1, <2>5 DEF Range
    <3> QED
      BY <3>1, <3>2
  <2>7. \A j, k \in 1..Len(s) : j < k => s[j] < s[k]
    BY <1>2, <1>3 DEF InOrder
  <2> QED
    BY <2>3, <2>6, <2>7 DEF InOrder
<1> QED
  BY <1>4, <1>5

\* A list is one for all messages that agree as far as it goes.
LEMMA ListsSame ==
    ASSUME NEW k, NEW l, NEW s, NEW n, \A i \in 1..n : k[i] = l[i], InOrder(k, s, n)
    PROVE  InOrder(l, s, n)
BY DEF InOrder

-----------------------------------------------------------------------------
(* The effects of the steps on the channels.                                 *)

\* One channel changes.
Puts(c, s) ==
    /\ chan' \in [Channels -> Numbers] /\ chan'[c] = s
    /\ \A d \in Channels \ {c} : chan'[d] = chan[d]

LEMMA PutsEffect ==
    ASSUME ConnTypeOK, NEW c \in Channels, NEW s \in Numbers, chan' = [chan EXCEPT ![c] = s]
    PROVE  Puts(c, s)
BY Types DEF Puts

LEMMA ForwardEffect ==
    ASSUME ConnTypeOK, NEW from \in Channels, NEW to \in Channels, from # to, Forward(from, to)
    PROVE  /\ chan' \in [Channels -> Numbers] /\ chan[from] # <<>> /\ Room(to)
           /\ chan'[from] = Tail(chan[from]) /\ chan'[to] = Append(chan[to], Head(chan[from]))
           /\ \A c \in Channels \ {from, to} : chan'[c] = chan[c]
<1>1. Tail(chan[from]) \in Numbers /\ Append(chan[to], Head(chan[from])) \in Numbers
  BY Types, Passes DEF Forward, Numbers
<1> QED
  BY <1>1, Types DEF Forward

LEMMA HeadTail ==
    ASSUME NEW s \in Numbers, s # <<>>
    PROVE  /\ Head(s) = s[1] /\ Head(s) \in 1..MaxMessages /\ Len(s) \in Nat \ {0}
           /\ Tail(s) \in Numbers /\ Len(Tail(s)) = Len(s) - 1
           /\ \A i \in 1..Len(Tail(s)) : Tail(s)[i] = s[i + 1]
<1>1. Head(s) \in 1..MaxMessages /\ Tail(s) \in Numbers /\ Len(Tail(s)) = Len(s) - 1
      /\ \A i \in 1..Len(Tail(s)) : Tail(s)[i] = s[i + 1]
  BY HeadTailProperties DEF Numbers
<1>2. Len(s) \in Nat \ {0}
  BY EmptySeq DEF Numbers
<1>3. Head(s) = s[1]
  BY DEF Numbers
<1> QED
  BY <1>1, <1>2, <1>3

LEMMA Appended ==
    ASSUME NEW s \in Numbers, NEW i \in 1..MaxMessages
    PROVE  /\ Append(s, i) \in Numbers /\ Len(s) \in Nat /\ Len(Append(s, i)) = Len(s) + 1
           /\ Append(s, i)[Len(s) + 1] = i
           /\ \A j \in 1..Len(s) : Append(s, i)[j] = s[j]
BY AppendProperties, LenProperties DEF Numbers

LEMMA Moved ==
    ASSUME NEW s \in Numbers, NEW t \in Numbers, t # <<>>
    PROVE  /\ Append(s, Head(t)) \in Numbers /\ Tail(t) \in Numbers
           /\ Append(s, Head(t)) \o Tail(t) = s \o t
BY Passes DEF Numbers

LEMMA Regrouped ==
    ASSUME NEW s \in Numbers, NEW t \in Numbers, NEW u \in Numbers
    PROVE  (s \o t) \o u = s \o (t \o u)
BY ConcatAssociative DEF Numbers

LEMMA DeliveredTypes ==
    ASSUME ConnTypeOK
    PROVE  received \o chan.stdout \in Numbers /\ Delivered \in Numbers
BY Types, ConcatProperties DEF Delivered, Numbers, Channels

LEMMA AppendedLast ==
    ASSUME NEW s \in Numbers, NEW t \in Numbers, NEW i \in 1..MaxMessages
    PROVE  s \o Append(t, i) = Append(s \o t, i)
<1>1. /\ s \o t \in Numbers /\ <<i>> \in Numbers
      /\ Append(t, i) = t \o <<i>> /\ Append(s \o t, i) = (s \o t) \o <<i>>
  BY AppendIsConcat, ConcatProperties DEF Numbers
<1> QED
  BY <1>1, Regrouped

\* Moving an answer on, to standard output or into the client, keeps the list.
LEMMA DeliveredKept ==
    ASSUME ConnTypeOK,
           \/ Forward("down", "stdout") /\ received' = received
           \/ ClientReceives
    PROVE  Delivered' = Delivered
<1>0. /\ chan["down"] \in Numbers /\ chan["stdout"] \in Numbers /\ received \in Numbers
  BY Types DEF Channels
<1>1. CASE Forward("down", "stdout") /\ received' = received
  <2>1. /\ chan["down"] # <<>> /\ chan'["down"] = Tail(chan["down"])
        /\ chan'["stdout"] = Append(chan["stdout"], Head(chan["down"]))
    BY <1>1, ForwardEffect DEF Channels
  <2>2. /\ chan'["stdout"] \in Numbers /\ chan'["down"] \in Numbers
        /\ chan'["stdout"] \o chan'["down"] = chan["stdout"] \o chan["down"]
    BY <1>0, <2>1, Moved
  <2> QED
    <3>1. Delivered' = received \o (chan'["stdout"] \o chan'["down"])
      BY <1>0, <1>1, <2>2, Regrouped DEF Delivered
    <3>2. Delivered = received \o (chan["stdout"] \o chan["down"])
      BY <1>0, Regrouped DEF Delivered
    <3> QED
      BY <2>2, <3>1, <3>2
<1>2. CASE ClientReceives
  <2>1. /\ chan["stdout"] # <<>> /\ received' = Append(received, Head(chan["stdout"]))
        /\ chan'["stdout"] = Tail(chan["stdout"]) /\ chan'["down"] = chan["down"]
    BY <1>2, Types DEF ClientReceives, Channels
  <2>2. received' \o chan'["stdout"] = received \o chan["stdout"]
    BY <1>0, <2>1, Moved
  <2> QED
    BY <2>1, <2>2 DEF Delivered
<1> QED
  BY <1>1, <1>2

-----------------------------------------------------------------------------
(* The steps keep the types and the room of the channels.                    *)

Bounded == chan \in [Channels -> Numbers] /\ \A c \in Channels : Len(chan[c]) <= PipeCap

LEMMA FewMessages ==
    ASSUME ConnTypeOK, NEW k \in Kinds, ClientSends(k)
    PROVE  /\ Len(kind) < MaxMessages /\ Len(kind) + 1 \in 1..MaxMessages
           /\ kind' \in Seq(Kinds) /\ Len(kind') = Len(kind) + 1
           /\ kind'[Len(kind) + 1] = k /\ \A i \in 1..Len(kind) : kind'[i] = kind[i]
<1>1. Len(kind) < MaxMessages /\ Len(kind) \in Nat
  BY Types, ConnectionAssumption DEF ClientSends
<1>2. /\ kind' \in Seq(Kinds) /\ Len(kind') = Len(kind) + 1
      /\ kind'[Len(kind) + 1] = k /\ \A i \in 1..Len(kind) : kind'[i] = kind[i]
  BY Types, AppendProperties DEF ClientSends
<1> QED
  BY <1>1, <1>2, ConnectionAssumption

LEMMA ForwardRoom ==
    ASSUME ConnTypeOK, NEW from \in Channels, NEW to \in Channels, from # to, Forward(from, to)
    PROVE  Bounded'
<1>1. /\ chan' \in [Channels -> Numbers] /\ chan[from] # <<>> /\ Room(to)
      /\ chan'[from] = Tail(chan[from]) /\ chan'[to] = Append(chan[to], Head(chan[from]))
      /\ \A c \in Channels \ {from, to} : chan'[c] = chan[c]
  BY ForwardEffect
<1>2. chan[from] \in Numbers /\ chan[to] \in Numbers /\ \A c \in Channels : Len(chan[c]) <= PipeCap
  BY Types DEF ConnTypeOK, Channels
<1>3. Len(chan'[from]) = Len(chan[from]) - 1 /\ Len(chan[from]) \in Nat
  BY <1>1, <1>2, HeadTail
<1>4. Len(chan'[to]) = Len(chan[to]) + 1 /\ Len(chan[to]) \in Nat
  BY <1>1, <1>2, HeadTail, Appended
<1>5. \A c \in Channels : Len(chan'[c]) <= PipeCap
  BY <1>1, <1>2, <1>3, <1>4, ConnectionAssumption DEF Room
<1> QED
  BY <1>1, <1>5 DEF Bounded

LEMMA PutsRoom ==
    ASSUME ConnTypeOK, NEW c \in Channels, NEW s \in Numbers, chan' = [chan EXCEPT ![c] = s],
           Len(s) <= PipeCap
    PROVE  Bounded'
<1>1. Puts(c, s) /\ \A d \in Channels : Len(chan[d]) <= PipeCap
  BY PutsEffect DEF ConnTypeOK, Channels
<1> QED
  BY <1>1 DEF Puts, Bounded

LEMMA Emptied == <<>> \in Numbers /\ Len(<<>>) = 0 /\ Len(<<>>) <= PipeCap
BY EmptySeq, ConnectionAssumption DEF Numbers

LEMMA RoomStep ==
    ASSUME ConnInv, [ConnNext]_connVars
    PROVE  Bounded'
<1> USE DEF ConnInv
<1>0. /\ Bounded /\ \A c \in Channels : chan[c] \in Numbers
      /\ server.msg \in 0..MaxMessages
      /\ Len(kind) \in 0..MaxMessages
  BY Types DEF Bounded, ConnTypeOK, Channels
<1>1. ASSUME NEW k \in Kinds, ClientSends(k) PROVE Bounded'
  <2>1. Len(kind) + 1 \in 1..MaxMessages
    BY <1>1, FewMessages
  <2>2. /\ Append(chan["stdin"], Len(kind) + 1) \in Numbers
        /\ Len(Append(chan["stdin"], Len(kind) + 1)) = Len(chan["stdin"]) + 1
        /\ Len(chan["stdin"]) \in Nat
    BY <1>0, <2>1, Appended DEF Channels
  <2>3. Len(chan["stdin"]) + 1 <= PipeCap
    BY <1>1, <2>2, ConnectionAssumption DEF ClientSends, Room
  <2> QED
    BY <1>1, <2>2, <2>3, PutsRoom DEF ClientSends, Channels
<1>2. CASE ClientCloses
  BY <1>0, <1>2, Emptied, PutsRoom DEF ClientCloses, Channels, Bounded
<1>3. CASE ClientReceives
  <2>1. chan["stdout"] \in Numbers /\ chan["stdout"] # <<>> /\ Len(chan["stdout"]) <= PipeCap
    BY <1>0, <1>3 DEF ClientReceives, Bounded, Channels
  <2>2. Tail(chan["stdout"]) \in Numbers /\ Len(Tail(chan["stdout"])) <= PipeCap
    BY <2>1, HeadTail, ConnectionAssumption
  <2> QED
    BY <1>3, <2>2, PutsRoom DEF ClientReceives, Channels
<1>4. CASE Upload \/ Download
  BY <1>0, <1>4, ForwardRoom DEF Upload, Download, Channels, Bounded
<1>5. CASE Await
  BY <1>0, <1>5, Emptied, PutsRoom DEF Await, Stops, Channels, Bounded
<1>6. CASE ReadLine
  <2>1. chan["up"] \in Numbers /\ chan["up"] # <<>> /\ Len(chan["up"]) <= PipeCap
    BY <1>0, <1>6 DEF ReadLine, Bounded, Channels
  <2>2. Tail(chan["up"]) \in Numbers /\ Len(Tail(chan["up"])) <= PipeCap
    BY <2>1, HeadTail, ConnectionAssumption
  <2> QED
    BY <1>6, <2>2, PutsRoom DEF ReadLine, Channels
<1>7. CASE WriteAnswer
  <2>1. CASE UNCHANGED chan
    BY <1>0, <2>1 DEF Bounded
  <2>2. CASE Room("down") /\ chan' = [chan EXCEPT !.down = Append(@, server.msg)]
    <3>1. server.msg \in 1..MaxMessages
      BY <1>0, <1>7 DEF WriteAnswer, Handling
    <3>2. /\ Append(chan["down"], server.msg) \in Numbers
          /\ Len(Append(chan["down"], server.msg)) = Len(chan["down"]) + 1
          /\ Len(chan["down"]) \in Nat
      BY <1>0, <3>1, Appended DEF Channels
    <3>3. Len(chan["down"]) + 1 <= PipeCap
      BY <2>2, <3>2, ConnectionAssumption DEF Room
    <3> QED
      BY <2>2, <3>2, <3>3, PutsRoom DEF Channels
  <2> QED
    BY <1>7, <2>1, <2>2 DEF WriteAnswer
<1>8. CASE BrokerDies
  BY <1>8, Emptied, PutsRoom DEF BrokerDies, Channels
<1>9. CASE Exit \/ EndOfInput \/ Begin \/ Return \/ UNCHANGED connVars
  BY <1>0, <1>9 DEF Exit, EndOfInput, Begin, Return, connVars, Bounded
<1> QED
  BY <1>1, <1>2, <1>3, <1>4, <1>5, <1>6, <1>7, <1>8, <1>9
     DEF ConnNext, ConnStep, ServerStep

LEMMA TypeStep ==
    ASSUME ConnInv, [ConnNext]_connVars
    PROVE  ConnTypeOK'
<1> USE DEF ConnInv
<1>0. /\ server \in [pc : {"read", "begin", "work", "write", "ended", "dead"}, msg : 0..MaxMessages]
      /\ proxy \in [up : {"copy", "shut", "failed"}, down : {"copy", "done", "failed"},
                    main : {"upload", "download", "stopping", "ok", "error"}]
      /\ executed \in Numbers /\ received \in Numbers /\ \A c \in Channels : chan[c] \in Numbers
  BY Types
<1>1. kind' \in Seq(Kinds) /\ Len(kind') <= MaxMessages
  <2>1. CASE \E k \in Kinds : ClientSends(k)
    BY <2>1, FewMessages, ConnectionAssumption, Types
  <2>2. CASE kind' = kind
    BY <2>2 DEF ConnTypeOK
  <2> QED
    BY <2>1, <2>2 DEF ConnNext, ConnStep, ServerStep, ClientCloses, ClientReceives, Upload, Download,
       Await, Exit, ReadLine, EndOfInput, Begin, Return, WriteAnswer, BrokerDies, connVars
<1>2. client' \in {"open", "half", "gone"}
  BY DEF ConnTypeOK, ConnNext, ConnStep, ServerStep, ClientSends, ClientCloses, ClientReceives,
     Upload, Download, Await, Exit, ReadLine, EndOfInput, Begin, Return, WriteAnswer, BrokerDies,
     connVars
<1>3. proxy' \in [up : {"copy", "shut", "failed"}, down : {"copy", "done", "failed"},
                  main : {"upload", "download", "stopping", "ok", "error"}]
  BY <1>0 DEF ConnNext, ConnStep, ServerStep, ClientSends, ClientCloses, ClientReceives,
     Upload, Download, Await, Stops, Exit, ReadLine, EndOfInput, Begin, Return, WriteAnswer,
     BrokerDies, connVars
<1>4. server' \in [pc : {"read", "begin", "work", "write", "ended", "dead"}, msg : 0..MaxMessages]
  <2>1. CASE ReadLine
    <3>1. Head(chan["up"]) \in 0..MaxMessages
      BY <1>0, <2>1, HeadTail DEF ReadLine, Channels
    <3> QED
      BY <2>1, <3>1 DEF ReadLine, Dispatch
  <2>2. CASE \E pc \in {"read", "begin", "work", "write", "ended", "dead"} : Serving(pc)
    BY <1>0, <2>2 DEF Serving
  <2>3. CASE server' = server
    BY <1>0, <2>3
  <2> QED
    BY <2>1, <2>2, <2>3 DEF ConnNext, ConnStep, ServerStep, ClientSends, ClientCloses, ClientReceives,
       Upload, Download, Await, Exit, EndOfInput, Begin, Return, WriteAnswer, BrokerDies, connVars
<1>5. executed' \in Numbers
  <2>1. CASE Begin
    <3>1. server.msg \in 1..MaxMessages
      BY <1>0, <2>1 DEF Begin, Handling
    <3> QED
      BY <1>0, <2>1, <3>1, Appended DEF Begin
  <2>2. CASE executed' = executed
    BY <1>0, <2>2
  <2> QED
    BY <2>1, <2>2 DEF ConnNext, ConnStep, ServerStep, ClientSends, ClientCloses, ClientReceives,
       Upload, Download, Await, Exit, ReadLine, EndOfInput, Return, WriteAnswer, BrokerDies, connVars
<1>6. received' \in Numbers
  <2>1. CASE ClientReceives
    BY <1>0, <2>1, HeadTail, Appended DEF ClientReceives, Channels
  <2>2. CASE received' = received
    BY <1>0, <2>2
  <2> QED
    BY <2>1, <2>2 DEF ConnNext, ConnStep, ServerStep, ClientSends, ClientCloses, Upload, Download,
       Await, Exit, ReadLine, EndOfInput, Begin, Return, WriteAnswer, BrokerDies, connVars
<1> QED
  BY <1>1, <1>2, <1>3, <1>4, <1>5, <1>6, RoomStep DEF ConnTypeOK, Bounded, Channels, Numbers

-----------------------------------------------------------------------------
(* The steps keep the other parts of the invariant.                          *)

\* A line read is the message after the one before it.
LEMMA ReadNext ==
    ASSUME ConnInv, ReadLine
    PROVE  /\ server.msg \in Nat /\ server'.msg = server.msg + 1 /\ server'.msg \in 1..Len(kind)
           /\ server'.pc = Dispatch(kind[server.msg + 1])
           /\ chan["up"] # <<>> /\ Puts("up", Tail(chan["up"]))
           /\ kind[server.msg + 1] \in MessageKinds
<1> USE DEF ConnInv
<1>1. /\ chan["up"] \in Numbers /\ chan["stdin"] \in Numbers /\ chan["up"] # <<>>
      /\ server.msg \in Nat /\ Len(kind) \in Nat
  BY Types DEF ReadLine, Channels
<1>2. /\ Head(chan["up"]) = chan["up"][1] /\ Len(chan["up"]) \in Nat \ {0}
      /\ Tail(chan["up"]) \in Numbers
  BY <1>1, HeadTail
<1>3. Len(chan["stdin"]) \in Nat
  BY <1>1, LenProperties DEF Numbers
<1>4. Head(chan["up"]) = server.msg + 1 /\ server.msg + 1 \in 1..Len(kind)
  BY <1>1, <1>2, <1>3 DEF ReadLine, Flow
<1>5. Puts("up", Tail(chan["up"]))
  BY <1>2, PutsEffect DEF ReadLine, Channels
<1>6. kind[server.msg + 1] \in MessageKinds
  BY <1>4, Types, ConnectionAssumption
<1> QED
  BY <1>1, <1>4, <1>5, <1>6 DEF ReadLine

LEMMA Shifted ==
    ASSUME NEW m \in Nat, NEW a \in Nat, NEW i \in Nat
    PROVE  /\ m + a + (i + 1) = m + (a + 1) + i
           /\ m + (i + 1) = (m + 1) + i
           /\ m + (a + 1) + i = (m + 1) + a + i
OBVIOUS

LEMMA FlowStep ==
    ASSUME ConnInv, [ConnNext]_connVars
    PROVE  Flow'
<1> USE DEF ConnInv
<1>0. /\ chan["up"] \in Numbers /\ chan["stdin"] \in Numbers
      /\ Len(chan["up"]) \in Nat /\ Len(chan["stdin"]) \in Nat
      /\ server.msg \in Nat /\ Len(kind) \in Nat
  BY Types, LenProperties, ConnectionAssumption DEF Channels, Numbers
<1>n. /\ Len(chan["up"]) \in Nat /\ Len(chan["stdin"]) \in Nat
      /\ server.msg \in Nat /\ Len(kind) \in Nat
  BY <1>0
<1>1. ASSUME NEW k \in Kinds, ClientSends(k) PROVE Flow'
  <2>1. Len(kind') = Len(kind) + 1 /\ Len(kind) + 1 \in 1..MaxMessages
    BY <1>1, FewMessages
  <2> DEFINE s == Append(chan["stdin"], Len(kind) + 1)
  <2>2. /\ s \in Numbers /\ Len(s) = Len(chan["stdin"]) + 1
        /\ s[Len(chan["stdin"]) + 1] = Len(kind) + 1
        /\ \A j \in 1..Len(chan["stdin"]) : s[j] = chan["stdin"][j]
    BY <1>0, <2>1, Appended
  <2>3. Puts("stdin", s)
    BY <1>1, <2>2, PutsEffect DEF ClientSends, Channels
  <2> HIDE DEF s
  <2>4. chan'["stdin"] = s /\ chan'["up"] = chan["up"] /\ server' = server
    BY <1>1, <2>3 DEF Puts, Channels, ClientSends
  <2> QED
    <3>0. SUFFICES ASSUME server.pc # "dead"
                   PROVE  /\ Len(kind') = server.msg + Len(chan["up"]) + Len(s)
                          /\ \A i \in 1..Len(chan["up"]) : chan["up"][i] = server.msg + i
                          /\ \A i \in 1..Len(s) : s[i] = server.msg + Len(chan["up"]) + i
      BY <2>4 DEF Flow
    <3>1. Len(kind) = server.msg + Len(chan["up"]) + Len(chan["stdin"])
      BY <3>0 DEF Flow
    <3>2. ASSUME NEW i \in 1..Len(s)
          PROVE  s[i] = server.msg + Len(chan["up"]) + i
      <4>1. CASE i \in 1..Len(chan["stdin"])
        BY <2>2, <3>0, <4>1 DEF Flow
      <4>2. CASE i = Len(chan["stdin"]) + 1
        <5>1. s[i] = Len(kind) + 1
          BY <2>2, <4>2
        <5> QED
          BY <1>n, <3>1, <4>2, <5>1
      <4> QED
        BY <1>0, <2>2, <4>1, <4>2
    <3>3. Len(kind') = server.msg + Len(chan["up"]) + Len(s)
      <4>1. Len(kind') = Len(kind) + 1
        BY <2>1
      <4>2. Len(s) = Len(chan["stdin"]) + 1
        BY <2>2
      <4> QED
        BY <1>n, <3>1, <4>1, <4>2
    <3> QED
      BY <3>0, <3>2, <3>3 DEF Flow
<1>2. CASE Forward("stdin", "up") /\ UNCHANGED <<kind, server>>
  <2>1. /\ chan["stdin"] # <<>> /\ chan'["stdin"] = Tail(chan["stdin"])
        /\ chan'["up"] = Append(chan["up"], Head(chan["stdin"]))
    BY <1>2, ForwardEffect DEF Channels
  <2> DEFINE h == Head(chan["stdin"])
             t == Tail(chan["stdin"])
             u == Append(chan["up"], h)
  <2>2. /\ h = chan["stdin"][1] /\ h \in 1..MaxMessages
        /\ Len(t) = Len(chan["stdin"]) - 1 /\ Len(chan["stdin"]) > 0
        /\ \A i \in 1..Len(t) : t[i] = chan["stdin"][i + 1]
    BY <1>0, <2>1, HeadTail
  <2> HIDE DEF h, t
  <2>3. /\ Len(u) = Len(chan["up"]) + 1 /\ u[Len(chan["up"]) + 1] = h
        /\ \A j \in 1..Len(chan["up"]) : u[j] = chan["up"][j]
    BY <1>0, <2>2, Appended
  <2>4. chan'["stdin"] = t /\ chan'["up"] = u
    BY <2>1 DEF h, t
  <2> HIDE DEF u
  <2>s. SUFFICES ASSUME server.pc # "dead"
                 PROVE  /\ Len(kind) = server.msg + Len(u) + Len(t)
                        /\ \A i \in 1..Len(u) : u[i] = server.msg + i
                        /\ \A i \in 1..Len(t) : t[i] = server.msg + Len(u) + i
    BY <1>2, <2>4 DEF Flow
  <2>q. /\ Len(kind) = server.msg + Len(chan["up"]) + Len(chan["stdin"])
        /\ \A i \in 1..Len(chan["up"]) : chan["up"][i] = server.msg + i
        /\ \A i \in 1..Len(chan["stdin"]) :
              chan["stdin"][i] = server.msg + Len(chan["up"]) + i
    BY <2>s DEF Flow
  <2>5. h = server.msg + Len(chan["up"]) + 1
    BY <1>n, <2>2, <2>q
  <2>6. \A i \in 1..Len(u) : u[i] = server.msg + i
    <3> SUFFICES ASSUME NEW i \in 1..Len(u)
                 PROVE  u[i] = server.msg + i
      OBVIOUS
    <3>1. CASE i \in 1..Len(chan["up"])
      BY <2>3, <2>q, <3>1
    <3>2. CASE i = Len(chan["up"]) + 1
      <4>1. u[i] = server.msg + Len(chan["up"]) + 1
        BY <2>3, <2>5, <3>2
      <4> QED
        BY <1>n, <3>2, <4>1
    <3>3. Len(u) = Len(chan["up"]) + 1
      BY <2>3
    <3> QED
      BY <1>n, <3>1, <3>2, <3>3
  <2>7. ASSUME NEW i \in 1..Len(t)
        PROVE  t[i] = server.msg + Len(u) + i
    <3>1. i + 1 \in 1..Len(chan["stdin"])
      BY <1>0, <2>2
    <3>2. chan["stdin"][i + 1] = server.msg + Len(chan["up"]) + (i + 1)
      BY <2>q, <3>1
    <3>3. t[i] = server.msg + Len(chan["up"]) + (i + 1)
      BY <2>2, <3>2
    <3>4. i \in Nat
      OBVIOUS
    <3>5. Len(u) = Len(chan["up"]) + 1
      BY <2>3
    <3>6. server.msg + Len(chan["up"]) + (i + 1) = server.msg + (Len(chan["up"]) + 1) + i
      BY <1>n, <3>4, Shifted
    <3> QED
      BY <3>3, <3>5, <3>6
  <2>8. Len(kind) = server.msg + Len(u) + Len(t)
    <3>1. Len(u) = Len(chan["up"]) + 1
      BY <2>3
    <3>2. Len(t) = Len(chan["stdin"]) - 1
      BY <2>2
    <3>3. Len(kind) = server.msg + Len(chan["up"]) + Len(chan["stdin"])
      BY <2>q
    <3> QED
      BY <1>n, <3>1, <3>2, <3>3
  <2> QED
    BY <2>6, <2>7, <2>8
<1>3. CASE ReadLine
  <2> DEFINE t == Tail(chan["up"])
  <2>1. /\ server'.msg = server.msg + 1 /\ chan["up"] # <<>>
        /\ chan'["up"] = t /\ chan'["stdin"] = chan["stdin"] /\ kind' = kind
        /\ server.pc = "read"
    BY <1>3, ReadNext DEF Puts, Channels, ReadLine
  <2>2. /\ Len(t) = Len(chan["up"]) - 1 /\ Len(chan["up"]) > 0
        /\ \A i \in 1..Len(t) : t[i] = chan["up"][i + 1]
    BY <1>0, <2>1, HeadTail
  <2> HIDE DEF t
  <2>3. ASSUME NEW i \in 1..Len(t)
        PROVE  t[i] = (server.msg + 1) + i
    <3>1. i + 1 \in 1..Len(chan["up"])
      BY <1>0, <2>2
    <3>2. chan["up"][i + 1] = server.msg + (i + 1)
      BY <2>1, <3>1 DEF Flow
    <3> QED
      <4>1. t[i] = server.msg + (i + 1)
        BY <2>2, <3>2
      <4>2. i \in Nat
        OBVIOUS
      <4>3. server.msg + (i + 1) = (server.msg + 1) + i
        BY <1>n, <4>2, Shifted
      <4> QED
        BY <4>1, <4>3
  <2> QED
    <3>0. Len(chan["up"]) = Len(t) + 1 /\ Len(t) \in Nat
      BY <1>0, <2>2
    <3>1. Len(kind) = server.msg + Len(chan["up"]) + Len(chan["stdin"])
      BY <2>1 DEF Flow
    <3>2. Len(kind) = (server.msg + 1) + Len(t) + Len(chan["stdin"])
      <4>1. server.msg + (Len(t) + 1) + Len(chan["stdin"])
               = (server.msg + 1) + Len(t) + Len(chan["stdin"])
        BY <1>n, <3>0, Shifted
      <4> QED
        BY <3>0, <3>1, <4>1
    <3>3. ASSUME NEW i \in 1..Len(chan["stdin"])
          PROVE  chan["stdin"][i] = (server.msg + 1) + Len(t) + i
      <4>1. chan["stdin"][i] = server.msg + Len(chan["up"]) + i
        BY <2>1, <3>3 DEF Flow
      <4>2. server.msg + Len(chan["up"]) = (server.msg + 1) + Len(t)
        BY <1>n, <3>0
      <4> QED
        BY <4>1, <4>2
    <3> QED
      BY <2>1, <2>3, <3>2, <3>3 DEF Flow
<1>4. CASE UNCHANGED <<kind, chan["stdin"], chan["up"]>> /\ server'.msg = server.msg
           /\ (server'.pc # "dead" => server.pc # "dead")
  BY <1>4 DEF Flow
<1>5. CASE server'.pc = "dead"
  BY <1>5 DEF Flow
<1>6. server \in [pc : {"read", "begin", "work", "write", "ended", "dead"}, msg : 0..MaxMessages]
      /\ chan \in [Channels -> Numbers]
  BY Types
<1>7. CASE ClientCloses \/ ClientReceives \/ Await \/ Exit
  BY <1>4, <1>6, <1>7 DEF ClientCloses, ClientReceives, Await, Stops, Exit, Channels
<1>8. CASE Upload
  BY <1>2, <1>4, <1>8 DEF Upload
<1>9. CASE Download
  BY <1>4, <1>6, <1>9 DEF Download, Forward, Channels
<1>10. CASE EndOfInput \/ Begin \/ Return \/ WriteAnswer
  BY <1>4, <1>6, <1>10 DEF EndOfInput, Begin, Return, WriteAnswer, Serving, Channels
<1>11. CASE BrokerDies
  BY <1>5, <1>6, <1>11 DEF BrokerDies, Serving
<1>12. CASE UNCHANGED connVars
  BY <1>4, <1>12 DEF connVars
<1> QED
  BY <1>1, <1>3, <1>7, <1>8, <1>9, <1>10, <1>11, <1>12 DEF ConnNext, ConnStep, ServerStep

\* What a broker is at stays what it is when the client writes more.
LEMMA HandlingStep ==
    ASSUME ConnInv, [ConnNext]_connVars
    PROVE  (Handling /\ Executed)'
<1> USE DEF ConnInv
<1>0. /\ server \in [pc : {"read", "begin", "work", "write", "ended", "dead"}, msg : 0..MaxMessages]
      /\ server.msg \in 0..Len(kind) /\ Len(kind) \in Nat /\ executed \in Numbers
      /\ Len(executed) \in Nat
  BY Types, LenProperties DEF Handling, Numbers
<1>1. ASSUME NEW k \in Kinds, ClientSends(k) PROVE (Handling /\ Executed)'
  <2>1. /\ Len(kind') = Len(kind) + 1 /\ \A i \in 1..Len(kind) : kind'[i] = kind[i]
        /\ server' = server /\ executed' = executed
    BY <1>1, FewMessages DEF ClientSends
  <2>2. Handling'
    BY <1>0, <2>1 DEF Handling, IsAnswered
  <2>3. Executed'
    BY <1>0, <2>1 DEF Executed
  <2> QED
    BY <2>2, <2>3
<1>2. CASE ReadLine
  <2>1. /\ server'.msg = server.msg + 1 /\ server'.msg \in 1..Len(kind)
        /\ server'.pc = Dispatch(kind[server.msg + 1])
        /\ kind' = kind /\ executed' = executed
        /\ kind[server.msg + 1] \in MessageKinds
    BY <1>2, ReadNext DEF ReadLine
  <2>2. Handling'
    BY <1>0, <2>1 DEF Handling, IsAnswered, Dispatch, MessageKinds
  <2>3. Executed'
    BY <1>0, <2>1 DEF Executed
  <2> QED
    BY <2>2, <2>3
<1>3. CASE Begin
  <2>1. /\ server'.pc = "work" /\ server'.msg = server.msg /\ kind' = kind
        /\ server.pc = "begin"
    BY <1>0, <1>3 DEF Begin, Serving
  <2>2. server.msg \in 1..MaxMessages /\ kind[server.msg] = "call"
    BY <1>0, <2>1 DEF Handling
  <2>3. /\ Len(executed') = Len(executed) + 1 /\ executed'[Len(executed) + 1] = server.msg
        /\ \A n \in 1..Len(executed) : executed'[n] = executed[n]
    BY <1>0, <1>3, <2>2, Appended DEF Begin
  <2>4. Handling'
    BY <2>1 DEF Handling, IsAnswered
  <2>5. Executed'
    <3>1. ASSUME NEW n \in 1..Len(executed')
          PROVE  /\ executed'[n] \in 1..server.msg /\ kind[executed'[n]] = "call"
      <4>1. CASE n \in 1..Len(executed)
        BY <2>3, <4>1 DEF Executed
      <4>2. CASE n = Len(executed) + 1
        BY <2>2, <2>3, <4>2
      <4> QED
        BY <1>0, <2>3, <4>1, <4>2
    <3>2. ASSUME NEW m \in 1..Len(executed'), NEW n \in 1..Len(executed'), m < n
          PROVE  executed'[m] < executed'[n]
      <4>1. m \in 1..Len(executed)
        BY <1>0, <2>3, <3>2
      <4>2. CASE n \in 1..Len(executed)
        BY <2>3, <3>2, <4>1, <4>2 DEF Executed
      <4>3. CASE n = Len(executed) + 1
        BY <2>1, <2>3, <4>1, <4>3 DEF Executed
      <4> QED
        BY <1>0, <2>3, <4>2, <4>3
    <3> QED
      BY <2>1, <3>1, <3>2 DEF Executed
  <2> QED
    BY <2>4, <2>5
<1>4. CASE /\ UNCHANGED <<kind, executed>> /\ server'.msg = server.msg
           /\ server'.pc # "begin" \/ server'.pc = server.pc
           /\ server'.pc = "work" => server.pc = "work"
           /\ server'.pc = "write" => server.pc \in {"work", "write"}
  BY <1>0, <1>4 DEF Handling, Executed, IsAnswered
<1>5. CASE ClientCloses \/ ClientReceives \/ Upload \/ Download \/ Await \/ Exit
           \/ UNCHANGED connVars
  BY <1>4, <1>5 DEF ClientCloses, ClientReceives, Upload, Download, Await, Exit, connVars
<1>6. CASE EndOfInput \/ Return \/ WriteAnswer \/ BrokerDies
  BY <1>0, <1>4, <1>6 DEF EndOfInput, Return, WriteAnswer, BrokerDies, Serving
<1> QED
  BY <1>1, <1>2, <1>3, <1>5, <1>6 DEF ConnNext, ConnStep, ServerStep

LEMMA ClosingStep ==
    ASSUME ConnInv, [ConnNext]_connVars
    PROVE  Closing'
<1> USE DEF ConnInv
<1>0. /\ server \in [pc : {"read", "begin", "work", "write", "ended", "dead"}, msg : 0..MaxMessages]
      /\ proxy \in [up : {"copy", "shut", "failed"}, down : {"copy", "done", "failed"},
                    main : {"upload", "download", "stopping", "ok", "error"}]
      /\ chan \in [Channels -> Numbers] /\ client \in {"open", "half", "gone"}
  BY Types DEF ConnTypeOK
<1>1. CASE \E k \in Kinds : ClientSends(k)
  BY <1>0, <1>1 DEF ClientSends, Closing, ProxyUp, ServerUp, Channels
<1>2. CASE ClientCloses \/ ClientReceives
  BY <1>0, <1>2 DEF ClientCloses, ClientReceives, Closing, ProxyUp, ServerUp, Channels
<1>3. CASE Upload
  <2>1. CASE ServerUp /\ Forward("stdin", "up") /\ UNCHANGED proxy
    <3>1. chan'["down"] = chan["down"]
      BY <2>1, ForwardEffect DEF Channels
    <3> QED
      BY <1>3, <2>1, <3>1 DEF Upload, Closing, ProxyUp, ServerUp
  <2>2. CASE UNCHANGED chan
    BY <1>0, <1>3, <2>2 DEF Upload, Closing, ProxyUp, ServerUp
  <2> QED
    BY <1>3, <2>1, <2>2 DEF Upload
<1>4. CASE Download
  <2>1. CASE Forward("down", "stdout") /\ UNCHANGED proxy
    <3>1. chan'["up"] = chan["up"] /\ chan'["stdin"] = chan["stdin"]
      BY <2>1, ForwardEffect DEF Channels
    <3> QED
      BY <1>4, <2>1, <3>1 DEF Download, Closing, ProxyUp, ServerUp
  <2>2. CASE UNCHANGED chan
    BY <1>0, <1>4, <2>2 DEF Download, Closing, ProxyUp, ServerUp
  <2> QED
    BY <1>4, <2>1, <2>2 DEF Download
<1>5. CASE Await
  BY <1>0, <1>5 DEF Await, Stops, Closing, ProxyUp, ServerUp, Channels
<1>6. CASE Exit
  BY <1>0, <1>6 DEF Exit, Closing, ProxyUp, ServerUp
<1>7. CASE ReadLine
  <2>1. /\ chan'["stdin"] = chan["stdin"] /\ chan'["down"] = chan["down"]
        /\ server'.pc = Dispatch(kind[server.msg + 1]) /\ chan["up"] # <<>>
        /\ kind[server.msg + 1] \in MessageKinds
    BY <1>7, ReadNext DEF Puts, Channels
  <2>2. server'.pc \in {"begin", "read", "write"} /\ ServerUp /\ ServerUp'
    BY <1>7, <2>1 DEF Dispatch, MessageKinds, ReadLine, ServerUp
  <2> QED
    BY <1>7, <2>1, <2>2 DEF ReadLine, Closing, ProxyUp, ServerUp
<1>8. CASE EndOfInput
  BY <1>0, <1>8 DEF EndOfInput, Serving, Closing, ProxyUp, ServerUp
<1>9. CASE Begin \/ Return
  BY <1>0, <1>9 DEF Begin, Return, Serving, Closing, ProxyUp, ServerUp
<1>10. CASE WriteAnswer
  BY <1>0, <1>10 DEF WriteAnswer, Serving, Closing, ProxyUp, ServerUp, Channels
<1>11. CASE BrokerDies
  BY <1>0, <1>11 DEF BrokerDies, Serving, Closing, ProxyUp, ServerUp, Channels
<1>12. CASE UNCHANGED connVars
  BY <1>12 DEF connVars, Closing, ProxyUp, ServerUp
<1> QED
  BY <1>1, <1>2, <1>3, <1>4, <1>5, <1>6, <1>7, <1>8, <1>9, <1>10, <1>11, <1>12
     DEF ConnNext, ConnStep, ServerStep

\* While the connection is intact, what was delivered is what was handled; how it
\* breaks, and how it ends, decides what the client is left with.
LEMMA OrderedStep ==
    ASSUME ConnInv, [ConnNext]_connVars
    PROVE  Ordered'
<1> USE DEF ConnInv
<1>0. /\ server \in [pc : {"read", "begin", "work", "write", "ended", "dead"}, msg : 0..MaxMessages]
      /\ proxy \in [up : {"copy", "shut", "failed"}, down : {"copy", "done", "failed"},
                    main : {"upload", "download", "stopping", "ok", "error"}]
      /\ chan \in [Channels -> Numbers] /\ client \in {"open", "half", "gone"}
      /\ server.msg \in 0..Len(kind) /\ Len(kind) \in Nat /\ received \in Numbers
  BY Types DEF ConnTypeOK, Handling
\* A broker that is up has a proxy whose download goes on, unless the client left.
<1>u. client # "gone" /\ ProxyUp /\ ServerUp => Intact
  BY <1>0 DEF Closing, Intact, ServerUp
<1>1. ASSUME NEW k \in Kinds, ClientSends(k) PROVE Ordered'
  <2>1. /\ Len(kind') = Len(kind) + 1 /\ \A i \in 1..Len(kind) : kind[i] = kind'[i]
        /\ UNCHANGED <<client, proxy, server, received>> /\ client = "open"
    BY <1>1, FewMessages DEF ClientSends
  <2>2. Delivered' = Delivered
    BY <1>0, <1>1, <2>1 DEF ClientSends, Delivered, Channels
  <2>3. Handled \in 0..Len(kind) /\ Handled' = Handled /\ Intact' = Intact
    BY <1>0, <2>1 DEF Handled, Handling, Intact, ProxyUp
  <2>4. ASSUME NEW n \in 0..Len(kind), InOrder(kind, Delivered, n)
        PROVE  InOrder(kind', Delivered', n) /\ n \in 0..Len(kind')
    BY <1>0, <2>1, <2>2, <2>4, ListsSame
  <2>5. ~(proxy.down = "done" /\ server.pc # "dead" /\ (ProxyUp \/ proxy.main = "ok"))
    BY <1>0, <2>1 DEF Closing, ServerUp
  <2> QED
    BY <2>1, <2>3, <2>4, <2>5 DEF Ordered, ProxyUp
\* Steps that change neither the answers on their way nor what they answer.
<1>2. CASE /\ UNCHANGED kind /\ Delivered' = Delivered
           /\ client' # "gone" => client # "gone"
           /\ Intact' => Intact /\ Handled' = Handled
           /\ proxy'.down = "done" /\ server'.pc # "dead" /\ (ProxyUp' \/ proxy'.main = "ok") =>
                 proxy.down = "done" /\ server.pc # "dead" /\ (ProxyUp \/ proxy.main = "ok")
  BY <1>2 DEF Ordered
<1>3. CASE ClientCloses
  BY <1>0, <1>2, <1>3 DEF ClientCloses, Ordered, Delivered, Intact, ProxyUp, Handled
<1>4. CASE ClientReceives
  BY <1>2, <1>4, DeliveredKept DEF ClientReceives, Intact, ProxyUp, Handled
<1>5. CASE Upload
  <2>1. Delivered' = Delivered
    <3>1. CASE Forward("stdin", "up")
      BY <1>5, <3>1, ForwardEffect DEF Upload, Delivered, Channels
    <3>2. CASE UNCHANGED chan
      BY <1>5, <3>2 DEF Upload, Delivered
    <3> QED
      BY <1>5, <3>1, <3>2 DEF Upload
  <2> QED
    BY <1>0, <1>2, <1>5, <2>1 DEF Upload, Intact, ProxyUp, Handled
<1>6. CASE Download
  <2>1. CASE Forward("down", "stdout") /\ UNCHANGED proxy
    BY <1>2, <1>6, <2>1, DeliveredKept DEF Download, Intact, ProxyUp, Handled
  <2>2. CASE UNCHANGED chan /\ proxy' = [proxy EXCEPT !.down = "failed"]
    BY <1>0, <1>2, <1>6, <2>2 DEF Download, Intact, ProxyUp, Handled, Delivered
  <2>3. CASE UNCHANGED chan /\ proxy' = [proxy EXCEPT !.down = "done"] /\ ~ServerUp
    <3>1. UNCHANGED <<kind, client, server, received>> /\ Delivered' = Delivered /\ ProxyUp
      BY <1>6, <2>3 DEF Download, Delivered
    <3>2. proxy'.down = "done" /\ proxy.down = "copy"
      BY <1>0, <1>6, <2>3 DEF Download
    <3>3. ASSUME client # "gone", server.pc # "dead"
          PROVE  InOrder(kind, Delivered, Len(kind))
      <4>1. server.pc = "ended"
        BY <1>0, <2>3, <3>3 DEF ServerUp
      <4>2. chan.up = <<>> /\ chan.stdin = <<>>
        BY <3>1, <4>1 DEF Closing
      <4>3. Len(kind) = server.msg
        BY <1>0, <4>1, <4>2, Emptied DEF Flow
      <4>4. Intact /\ Handled = server.msg
        BY <3>1, <3>2, <3>3, <4>1 DEF Intact, Handled
      <4> QED
        BY <3>3, <4>3, <4>4 DEF Ordered
    <3> QED
      BY <3>1, <3>2, <3>3 DEF Ordered, Intact
  <2> QED
    BY <1>6, <2>1, <2>2, <2>3 DEF Download
<1>7. CASE Await
  <2>1. CASE proxy' = [proxy EXCEPT !.main = "download"] /\ UNCHANGED chan
    BY <1>0, <1>2, <1>7, <2>1 DEF Await, Delivered, Intact, ProxyUp, Handled
  <2>2. ASSUME NEW how \in {"stopping", "ok", "error"}, Stops(how),
               how = "ok" => proxy.down = "done" /\ ProxyUp
        PROVE  Ordered'
    <3>1. /\ UNCHANGED <<kind, client, server, received>>
          /\ chan'.stdout = chan.stdout /\ chan'.down = <<>>
          /\ proxy'.main = how /\ proxy'.down = proxy.down
      BY <1>0, <1>7, <2>2 DEF Await, Stops, Channels
    <3> DEFINE readable == received \o chan.stdout
    <3>2. readable \in Numbers /\ chan.down \in Numbers
      BY <1>0, DeliveredTypes DEF Channels
    <3>3. Delivered' = readable /\ Delivered = readable \o chan.down
      BY <3>1, <3>2, ConcatEmptySeq DEF Delivered, Numbers
    <3> HIDE DEF readable
    <3>4. ~Intact' /\ ~ProxyUp'
      BY <3>1 DEF Intact, ProxyUp
    <3>5. ASSUME client # "gone"
          PROVE  \E n \in 0..Len(kind) : InOrder(kind, readable, n)
      <4>1. PICK n \in 0..Len(kind) : InOrder(kind, readable \o chan.down, n)
        BY <3>3, <3>5 DEF Ordered
      <4>2. PICK m \in 0..n : InOrder(kind, readable, m)
        BY <1>0, <3>2, <4>1, ListsFirst
      <4>3. m \in 0..Len(kind)
        BY <1>0
      <4> QED
        BY <4>2, <4>3
    <3>6. ASSUME client # "gone", how = "ok", server.pc # "dead"
          PROVE  InOrder(kind, readable, Len(kind))
      <4>1. chan.down = <<>>
        BY <2>2, <3>6 DEF Closing
      <4>2. Delivered = readable
        BY <3>2, <3>3, <4>1, ConcatEmptySeq DEF Numbers
      <4> QED
        BY <2>2, <3>6, <4>2 DEF Ordered
    <3> QED
      BY <3>1, <3>3, <3>4, <3>5, <3>6 DEF Ordered
  <2> QED
    BY <1>7, <2>1, <2>2 DEF Await, ProxyUp
<1>8. CASE Exit
  BY <1>0, <1>2, <1>8 DEF Exit, Delivered, Intact, ProxyUp, Handled
<1>9. CASE ReadLine
  <2>1. /\ server'.msg = server.msg + 1 /\ server.msg + 1 \in 1..Len(kind)
        /\ server'.pc = Dispatch(kind[server.msg + 1]) /\ server.pc = "read"
        /\ kind[server.msg + 1] \in MessageKinds
        /\ UNCHANGED <<kind, client, proxy, received>>
        /\ chan'["stdout"] = chan["stdout"] /\ chan'["down"] = chan["down"]
    BY <1>9, ReadNext DEF ReadLine, Puts, Channels
  <2>2. Delivered' = Delivered /\ Intact' = Intact /\ ServerUp
    BY <2>1 DEF Delivered, Intact, ProxyUp, ServerUp, Dispatch, MessageKinds
  <2>3. client # "gone" => proxy.down # "done"
    BY <2>2 DEF Closing
  <2>4. ASSUME client # "gone", Intact
        PROVE  InOrder(kind, Delivered, Handled')
    <3>1. InOrder(kind, Delivered, server.msg)
      BY <2>1, <2>4 DEF Ordered, Handled
    <3>2. CASE kind[server.msg + 1] = "note"
      <4>1. Handled' = server.msg + 1
        BY <2>1, <3>2 DEF Handled, Dispatch
      <4> QED
        BY <1>0, <3>1, <3>2, <4>1, ListsNext, DeliveredTypes
    <3>3. CASE kind[server.msg + 1] # "note"
      <4>1. server'.pc \in {"begin", "write"}
        BY <2>1, <3>3 DEF Dispatch, MessageKinds
      <4>2. Handled' = server.msg
        BY <1>0, <2>1, <4>1 DEF Handled
      <4> QED
        BY <3>1, <4>2
    <3> QED
      BY <3>2, <3>3
  <2> QED
    BY <2>1, <2>2, <2>3, <2>4 DEF Ordered
<1>10. CASE EndOfInput \/ Begin \/ Return
  BY <1>0, <1>2, <1>10 DEF EndOfInput, Begin, Return, Serving, Delivered, Intact, ProxyUp, Handled
<1>11. CASE WriteAnswer
  <2>1. CASE ~ProxyUp /\ Serving("ended") /\ UNCHANGED chan
    BY <1>0, <1>2, <1>11, <2>1 DEF WriteAnswer, Serving, Delivered, Intact, ProxyUp
  <2>2. CASE ProxyUp /\ chan' = [chan EXCEPT !.down = Append(@, server.msg)] /\ Serving("read")
    <3>1. /\ UNCHANGED <<kind, client, proxy, received>> /\ server.pc = "write"
          /\ server'.pc = "read" /\ server'.msg = server.msg
          /\ chan'.stdout = chan.stdout /\ chan'.down = Append(chan.down, server.msg)
      BY <1>0, <1>11, <2>2 DEF WriteAnswer, Serving, Channels
    <3>2. /\ server.msg \in 1..MaxMessages /\ kind[server.msg] # "note"
          /\ server.msg - 1 \in Nat /\ (server.msg - 1) + 1 = server.msg
      BY <1>0, <3>1, Types, ConnectionAssumption DEF Handling, IsAnswered
    <3>3. Delivered' = Append(Delivered, server.msg)
      <4>1. received \o chan.stdout \in Numbers /\ chan.down \in Numbers
        BY <1>0, DeliveredTypes DEF Channels
      <4> QED
        BY <3>1, <3>2, <4>1, AppendedLast DEF Delivered
    <3>4. client # "gone" => Intact /\ proxy.down # "done"
      BY <1>u, <2>2, <3>1 DEF ServerUp, Intact
    <3>5. ASSUME client # "gone"
          PROVE  InOrder(kind, Delivered', server.msg)
      <4>1. InOrder(kind, Delivered, server.msg - 1)
        BY <3>1, <3>4, <3>5 DEF Ordered, Handled
      <4> QED
        BY <3>2, <3>3, <4>1, ListsNext, DeliveredTypes
    <3>6. Handled' = server.msg
      BY <3>1 DEF Handled
    <3> QED
      BY <1>0, <3>1, <3>4, <3>5, <3>6 DEF Ordered
  <2> QED
    BY <1>11, <2>1, <2>2 DEF WriteAnswer
<1>12. CASE BrokerDies
  BY <1>0, <1>2, <1>12 DEF BrokerDies, Serving, Delivered, Intact, Channels
<1>13. CASE UNCHANGED connVars
  BY <1>2, <1>13 DEF connVars, Delivered, Intact, ProxyUp, Handled
<1> QED
  BY <1>1, <1>3, <1>4, <1>5, <1>6, <1>7, <1>8, <1>9, <1>10, <1>11, <1>12, <1>13
     DEF ConnNext, ConnStep, ServerStep

-----------------------------------------------------------------------------
\* Every step of Bridge is a step of the connection, or leaves it alone.
LEMMA BridgeConnSteps == [Next]_vars => [ConnNext]_connVars
BY DEF Next, BeginCall, ReturnCall, vars, ConnNext

LEMMA ConnInitInv == ConnInit => ConnInv
<1> SUFFICES ASSUME ConnInit PROVE ConnInv
  OBVIOUS
<1>1. /\ <<>> \in Numbers /\ <<>> \in Seq(Kinds) /\ Len(<<>>) = 0 /\ 0 <= PipeCap
      /\ 0 \in 0..MaxMessages /\ MaxMessages \in Nat
  BY EmptySeq, ConnectionAssumption DEF Numbers
<1>2. ConnTypeOK
  BY <1>1 DEF ConnInit, ConnTypeOK, Numbers
<1>3. Flow /\ Handling /\ Executed /\ Closing
  BY <1>1 DEF ConnInit, Flow, Handling, Executed, Closing, ProxyUp, ServerUp
<1>4. Delivered = <<>>
  BY <1>1, ConcatEmptySeq DEF ConnInit, Delivered, Numbers
<1>5. InOrder(kind, <<>>, 0)
  BY <1>1 DEF InOrder, Range
<1>6. Ordered
  BY <1>1, <1>4, <1>5 DEF ConnInit, Ordered, Handled
<1> QED
  BY <1>2, <1>3, <1>6 DEF ConnInv

LEMMA ConnInductive == Spec => []ConnInv
<1>1. Init => ConnInv
  BY ConnInitInv DEF Init
<1>2. ConnInv /\ [Next]_vars => ConnInv'
  BY BridgeConnSteps, TypeStep, FlowStep, HandlingStep, ClosingStep, OrderedStep DEF ConnInv
<1> QED
  BY <1>1, <1>2, PTL DEF Spec

\* The types of both halves, and no channel, pipe or buffer beyond its size
\* (main.rs:264-286, ssh.rs:320-330).
THEOREM BridgeTypes == Spec => []TypeOK
<1>1. ConnInv /\ ChildInv => TypeOK
  BY DEF ConnInv, ChildInv, TypeOK
<1> QED
  BY <1>1, ConnInductive, Inductive, PTL

\* Only calls are executed, each once and in the order of the client, whoever
\* dies or leaves meanwhile (mcp.rs:55-66).
THEOREM CallsExecutedOnce == Spec => []ExecutedOnce
<1>1. ConnInv => ExecutedOnce
  BY DEF ConnInv, Executed, ExecutedOnce
<1> QED
  BY <1>1, ConnInductive, PTL

\* One answer for each message that wants one, in the order of the messages, and
\* none is lost while nothing breaks (mcp.rs:44-87, main.rs:274-283).
THEOREM AnswersKeepOrder == Spec => []AnswersInOrder
<1>1. ConnInv => AnswersInOrder
  <2> SUFFICES ASSUME ConnInv PROVE AnswersInOrder
    OBVIOUS
  <2> DEFINE readable == received \o chan.stdout
  <2>1. CASE Intact
    BY <2>1 DEF ConnInv, Ordered, Intact, Delivered, InOrder, Lists, IsAnswered, AnswersInOrder
  <2>2. CASE ~Intact
    <3>1. ASSUME client # "gone"
          PROVE  \E n \in 0..Len(kind) : InOrder(kind, readable, n)
      <4>1. readable \in Numbers /\ chan.down \in Numbers /\ Len(kind) \in Nat
        BY DeliveredTypes, Types DEF ConnInv, Channels
      <4>2. PICK n \in 0..Len(kind) : InOrder(kind, readable \o chan.down, n)
        BY <3>1 DEF ConnInv, Ordered, Delivered
      <4> HIDE DEF readable
      <4>3. PICK m \in 0..n : InOrder(kind, readable, m)
        BY <4>1, <4>2, ListsFirst
      <4>4. m \in 0..Len(kind)
        BY <4>1
      <4> QED
        BY <4>3, <4>4
    <3>2. ASSUME NEW n, InOrder(kind, readable, n)
          PROVE  Lists(readable, n)
      BY <3>2 DEF InOrder, Lists, IsAnswered
    <3> QED
      BY <2>2, <3>1, <3>2 DEF AnswersInOrder
  <2> QED
    BY <2>1, <2>2
<1> QED
  BY <1>1, ConnInductive, PTL

\* A proxy that ends well has delivered every answer (main.rs:284-286).
THEOREM CleanEndsDeliver == Spec => []CleanEnd
<1>1. ConnInv => CleanEnd
  <2> SUFFICES ASSUME ConnInv, proxy.main = "ok", client # "gone", server.pc # "dead"
               PROVE  Lists(received \o chan.stdout, Len(kind))
    BY DEF CleanEnd
  <2>1. proxy.down = "done" /\ chan.down = <<>>
    BY DEF ConnInv, Closing
  <2>2. Delivered = received \o chan.stdout
    BY <2>1, DeliveredTypes, ConcatEmptySeq DEF ConnInv, Delivered, Numbers
  <2> QED
    BY <2>1, <2>2 DEF ConnInv, Ordered, InOrder, Lists, IsAnswered
<1> QED
  BY <1>1, ConnInductive, PTL
=============================================================================

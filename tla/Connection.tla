----------------------------- MODULE Connection -----------------------------
(***************************************************************************)
(* An MCP client that talks to the broker through asb proxy: proxy() of    *)
(* src/main.rs and serve_io with handle_message of src/mcp.rs.             *)
(*                                                                         *)
(*   client --stdin--> upload --up--> serve_io --down--> download          *)
(*      <-----------------------stdout----------------------'              *)
(*                                                                         *)
(* A message is a line, known by its place among those the client wrote.   *)
(***************************************************************************)
EXTENDS Integers, Sequences, Functions

CONSTANTS
    Kinds,         \* kinds of messages the client writes, see MessageKinds
    PipeCap,       \* messages a pipe or one direction of the socket holds
    MaxMessages,   \* bound: messages the client writes
    MaxWithCalls   \* bound: the same, when a call is among them

\* call: tools/call with an id; note: a blank line, or no id; big: over 1 MiB, and
\* like it every line that is answered without a call.
MessageKinds == {"call", "note", "big"}

ASSUME ConnectionAssumption ==
    /\ Kinds \subseteq MessageKinds /\ PipeCap \in Nat \ {0}
    /\ MaxMessages \in Nat /\ MaxWithCalls \in 0..MaxMessages

VARIABLES
    kind,      \* kind[i]: message i, for all that were written
    client,    \* what the client still holds of its two pipes to the proxy
    chan,      \* the messages in stdin, up, down and stdout, by their numbers
    proxy,     \* the two copying tasks, and what proxy() awaits
    server,    \* the task of the broker: where it is, and its message
    executed,  \* history: calls that were started, in this order
    received   \* history: the messages whose answers the client has read

connVars == <<kind, client, chan, proxy, server, executed, received>>

\* The types; no channel holds more than it has room for.
ConnTypeOK ==
    /\ kind \in Seq(Kinds) /\ Len(kind) <= MaxMessages
    /\ client \in {"open", "half", "gone"}
    /\ chan \in [{"stdin", "up", "down", "stdout"} -> Seq(1..MaxMessages)]
    /\ \A c \in DOMAIN chan : Len(chan[c]) <= PipeCap
    /\ proxy \in [up : {"copy", "shut", "failed"}, down : {"copy", "done", "failed"},
                  main : {"upload", "download", "stopping", "ok", "error"}]
    /\ server \in [pc : {"read", "begin", "work", "write", "ended", "dead"},
                   msg : 0..MaxMessages]
    /\ executed \in Seq(1..MaxMessages) /\ received \in Seq(1..MaxMessages)

Room(c) == Len(chan[c]) < PipeCap
ProxyUp == proxy.main \in {"upload", "download"}
ServerUp == server.pc \notin {"ended", "dead"}
Serving(pc) == server' = [server EXCEPT !.pc = pc]

\* The head of a channel goes on to the next one.
Forward(from, to) ==
    /\ chan[from] # <<>> /\ Room(to)
    /\ chan' = [chan EXCEPT ![from] = Tail(@), ![to] = Append(@, Head(chan[from]))]

-----------------------------------------------------------------------------
ConnInit ==
    /\ kind = <<>> /\ executed = <<>> /\ received = <<>>
    /\ client = "open"
    /\ chan = [c \in {"stdin", "up", "down", "stdout"} |-> <<>>]
    /\ proxy = [up |-> "copy", down |-> "copy", main |-> "upload"]
    /\ server = [pc |-> "read", msg |-> 0]

ClientSends(k) ==
    /\ client = "open" /\ proxy.main \notin {"ok", "error"}
    /\ Len(kind) < IF "call" \in Range(kind) \cup {k} THEN MaxWithCalls ELSE MaxMessages
    /\ Room("stdin")
    /\ kind' = Append(kind, k)
    /\ chan' = [chan EXCEPT !.stdin = Append(@, Len(kind) + 1)]
    /\ UNCHANGED <<client, proxy, server, executed, received>>

\* The client closes the standard input of the proxy, or both of its pipes.
ClientCloses ==
    /\ \/ client = "open" /\ client' = "half" /\ UNCHANGED chan
       \/ client # "gone" /\ client' = "gone" /\ chan' = [chan EXCEPT !.stdout = <<>>]
    /\ UNCHANGED <<kind, proxy, server, executed, received>>

ClientReceives ==
    /\ client # "gone" /\ chan.stdout # <<>>
    /\ received' = Append(received, Head(chan.stdout))
    /\ chan' = [chan EXCEPT !.stdout = Tail(@)]
    /\ UNCHANGED <<kind, client, proxy, server, executed>>

\* copy(stdin, broker_writer); at the end of stdin the socket is shut down for writing.
Upload ==
    /\ ProxyUp /\ proxy.up = "copy"
    /\ \/ ServerUp /\ Forward("stdin", "up") /\ UNCHANGED proxy
       \/ /\ ~ServerUp /\ chan.stdin # <<>>
          /\ proxy' = [proxy EXCEPT !.up = "failed"] /\ UNCHANGED chan
       \/ /\ chan.stdin = <<>> /\ client # "open"
          /\ proxy' = [proxy EXCEPT !.up = "shut"] /\ UNCHANGED chan
    /\ UNCHANGED <<kind, client, server, executed, received>>

DownloadAfterUpload ==
    /\ proxy.main = "download" /\ proxy.down = "copy"
    /\ \/ client # "gone" /\ Forward("down", "stdout") /\ UNCHANGED proxy
       \/ /\ client = "gone" /\ chan.down # <<>>
          /\ proxy' = [proxy EXCEPT !.down = "failed"] /\ UNCHANGED chan
       \/ /\ chan.down = <<>> /\ ~ServerUp
          /\ proxy' = [proxy EXCEPT !.down = "done"] /\ UNCHANGED chan
    /\ UNCHANGED <<kind, client, server, executed, received>>

\* copy(broker_reader, stdout): a broker that died with unread input resets the
\* connection once all it sent has been read.
Download ==
    /\ ProxyUp /\ proxy.down = "copy"
    /\ \/ client # "gone" /\ Forward("down", "stdout") /\ UNCHANGED proxy
       \/ /\ client = "gone" /\ chan.down # <<>>
          /\ proxy' = [proxy EXCEPT !.down = "failed"] /\ UNCHANGED chan
       \/ /\ chan.down = <<>> /\ ~ServerUp
          /\ \/ proxy' = [proxy EXCEPT !.down = "done"]
             \/ server.pc = "dead" /\ proxy' = [proxy EXCEPT !.down = "failed"]
          /\ UNCHANGED chan
    /\ UNCHANGED <<kind, client, server, executed, received>>

\* proxy() returns: its tasks end and the socket closes.
Stops(how) ==
    /\ proxy' = [proxy EXCEPT !.main = how]
    /\ chan' = [chan EXCEPT !.down = <<>>]

AwaitUploadOnly ==
    /\ \/ /\ proxy.main = "upload"
          /\ \/ proxy.up = "shut" /\ Stops("ok")
             \/ proxy.up = "failed" /\ Stops("stopping")
    /\ UNCHANGED <<kind, client, server, executed, received>>

\* upload.await??; download.await??
Await ==
    /\ \/ /\ proxy.main = "upload"
          /\ \/ proxy.up = "shut" /\ proxy' = [proxy EXCEPT !.main = "download"]
                /\ UNCHANGED chan
             \/ proxy.up = "failed" /\ Stops("stopping")
       \/ /\ proxy.main = "download"
          /\ \/ proxy.down = "done" /\ Stops("ok")
             \/ proxy.down = "failed" /\ Stops("error")
    /\ UNCHANGED <<kind, client, server, executed, received>>

\* After a failed upload a read of stdin may still be pending, which the runtime
\* waits for before the process ends.
Exit ==
    /\ proxy.main = "stopping"
    /\ proxy' = [proxy EXCEPT !.main = "error"]
    /\ UNCHANGED <<kind, client, chan, server, executed, received>>

DispatchNotes(k) == IF k = "call" THEN "begin" ELSE "write"

\* What serve_io and handle_message do with a line: call a tool, drop it, or answer.
Dispatch(k) == CASE k = "call" -> "begin" [] k = "note" -> "read" [] OTHER -> "write"

ReadLenient ==
    /\ server.pc = "read" /\ chan.up # <<>>
    /\ LET k == kind[Head(chan.up)]
       IN  server' = [pc |-> IF k = "big" THEN "begin" ELSE Dispatch(k), msg |-> Head(chan.up)]
    /\ chan' = [chan EXCEPT !.up = Tail(@)]
    /\ UNCHANGED <<kind, client, proxy, executed, received>>

\* read_until; a line over the limit, and one that does not parse, is answered
\* with an error and not handled.
ReadLine ==
    /\ server.pc = "read" /\ chan.up # <<>>
    /\ server' = [pc |-> Dispatch(kind[Head(chan.up)]), msg |-> Head(chan.up)]
    /\ chan' = [chan EXCEPT !.up = Tail(@)]
    /\ UNCHANGED <<kind, client, proxy, executed, received>>

EndWithProxy ==
    /\ server.pc = "read" /\ chan.up = <<>> /\ ~ProxyUp
    /\ Serving("ended")
    /\ UNCHANGED <<kind, client, chan, proxy, executed, received>>

\* count == 0: the proxy has shut down its side, or is gone.
EndOfInput ==
    /\ server.pc = "read" /\ chan.up = <<>>
    /\ proxy.up = "shut" \/ ~ProxyUp
    /\ Serving("ended")
    /\ UNCHANGED <<kind, client, chan, proxy, executed, received>>

\* tools_call; nothing is read from this connection until it returns.
Begin ==
    /\ server.pc = "begin"
    /\ Serving("work")
    /\ executed' = Append(executed, server.msg)
    /\ UNCHANGED <<kind, client, chan, proxy, received>>

Return ==
    /\ server.pc = "work"
    /\ Serving("write")
    /\ UNCHANGED <<kind, client, chan, proxy, executed, received>>

WriteWithoutWaiting ==
    /\ server.pc = "write"
    /\ \/ ProxyUp /\ chan' = [chan EXCEPT !.down = Append(@, server.msg)] /\ Serving("read")
       \/ ~ProxyUp /\ Serving("ended") /\ UNCHANGED chan
    /\ UNCHANGED <<kind, client, proxy, executed, received>>

\* write_all and flush: wait for room, or fail because the proxy is gone.
WriteAnswer ==
    /\ server.pc = "write"
    /\ \/ ProxyUp /\ Room("down")
          /\ chan' = [chan EXCEPT !.down = Append(@, server.msg)] /\ Serving("read")
       \/ ~ProxyUp /\ Serving("ended") /\ UNCHANGED chan
    /\ UNCHANGED <<kind, client, proxy, executed, received>>

\* The broker process ends; what it has not read is lost.
BrokerDies ==
    /\ server.pc # "dead"
    /\ Serving("dead")
    /\ chan' = [chan EXCEPT !.up = <<>>]
    /\ UNCHANGED <<kind, client, proxy, executed, received>>

ServerStep == ReadLine \/ EndOfInput \/ WriteAnswer

\* Every step but those of a call and the end of the broker.
ConnStep ==
    \/ \E k \in Kinds : ClientSends(k)
    \/ ClientCloses \/ ClientReceives
    \/ Upload \/ Download \/ Await \/ Exit
    \/ ServerStep

ConnNext == ConnStep \/ Begin \/ Return \/ BrokerDies

\* Both processes run; a client that has not gone reads what it is sent, and
\* need not write nor close.  A proxy that stops ends once its input does.
ConnFairness ==
    /\ WF_connVars(Upload) /\ WF_connVars(Download) /\ WF_connVars(Await)
    /\ WF_connVars(Exit /\ client # "open")
    /\ WF_connVars(ServerStep)
    /\ WF_connVars(ClientReceives)

-----------------------------------------------------------------------------
IsAnswered(i) == kind[i] # "note"

\* s is the list of the messages up to n that want an answer, in their order.
Lists(s, n) ==
    /\ Range(s) = {i \in 1..n : IsAnswered(i)}
    /\ \A j, k \in 1..Len(s) : j < k => s[j] < s[k]

\* The messages that serve_io is done with.
Handled == IF server.pc \in {"begin", "work", "write"} THEN server.msg - 1 ELSE server.msg

Intact == ProxyUp /\ proxy.down = "copy" /\ client # "gone" /\ server.pc # "dead"

\* The client gets one answer for each message that wants one, in the order of
\* the messages; while nothing has broken, every answer is there or on its way
\* (mcp.rs:44-87, mcp.rs:96, main.rs:274-283).
AnswersInOrder ==
    LET readable == received \o chan.stdout
    IN  IF Intact THEN Lists(readable \o chan.down, Handled)
        ELSE client # "gone" => \E n \in 0..Len(kind) : Lists(readable, n)

\* Only calls are executed, each once and in order, over-long lines never, also
\* when nobody is left to hear of it (SECURITY.md:60, mcp.rs:55-66).
ExecutedOnce ==
    /\ \A n \in 1..Len(executed) : kind[executed[n]] = "call"
    /\ \A m, n \in 1..Len(executed) : m < n => executed[m] < executed[n]

\* A proxy that ends without an error, its broker alive and its client there, has
\* delivered the answer to everything that was written to it (main.rs:284-286).
CleanEnd ==
    proxy.main = "ok" /\ client # "gone" /\ server.pc # "dead" =>
        Lists(received \o chan.stdout, Len(kind))

\* Every message that wants an answer gets one, unless the client leaves, the
\* broker dies or the upload fails.  The client may keep its end open for ever:
\* the copies of the two directions do not wait for each other (main.rs:273-285).
AnswerArrives ==
    \A i \in 1..MaxMessages :
        i <= Len(kind) /\ IsAnswered(i) ~>
            \/ \E n \in 1..Len(received) : received[n] = i
            \/ client = "gone" \/ server.pc = "dead" \/ proxy.up = "failed"

\* The download has ended and nobody reads what the broker sends, while the
\* upload, which is awaited first, waits for a broker that waits for room.
Wedged ==
    /\ proxy.down = "failed" /\ proxy.up = "copy" /\ chan.stdin # <<>> /\ ~Room("up")
    /\ server.pc = "write" /\ ~Room("down")

\* Once the client has closed its end the proxy ends, and so does the task of the
\* broker, whatever was in flight (mcp.rs:52-54, main.rs:277, main.rs:284-285).
\* The one exception: a client that leaves more requests behind than the pipes
\* and the socket hold, with answers that nobody reads.
BothEnd == client # "open" ~> (proxy.main \in {"ok", "error"} /\ ~ServerUp) \/ Wedged
=============================================================================

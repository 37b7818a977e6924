------------------------------- MODULE Broker -------------------------------
(***************************************************************************)
(* The life of a tools/call in one broker process: tools_call of           *)
(* src/mcp.rs, HttpBroker::execute of src/http.rs and SshBroker::execute   *)
(* of src/ssh.rs, with the limiter and the audit log they share.           *)
(*                                                                         *)
(* A connection handles one message at a time; connections interleave at   *)
(* every await.  The limiter is reduced to the number of calls it holds in *)
(* its window (module RateLimiter has the clock); the vault, the target    *)
(* host, the ssh client and the audit file answer as they like.            *)
(***************************************************************************)
EXTENDS Integers, FiniteSets

CONSTANTS
    Conns,         \* connections that are served at once
    HttpCaps, SshCaps,
    Unknown,       \* a capability id that is not configured, no such operation
    Nil,           \* a field that the tool does not have
    Limit,         \* Limit[c]: limits.max_requests_per_minute
    Methods,       \* methods a caller may name
    ReadMethods,   \* GET and HEAD
    Paths,         \* paths a caller may name
    AllowMethods, AllowPaths,   \* AllowMethods[c], AllowPaths[c]: the policy of c
    Operations,    \* Operations[c]: the operations of an SSH capability
    ReadOnly,      \* ReadOnly[c]: those that are marked read_only
    MaxCalls,      \* bound: calls that are received
    MaxCrashes     \* bound: ends of the process

Caps == HttpCaps \cup SshCaps

ASSUME BrokerAssumption ==
    /\ IsFiniteSet(Conns)
    /\ HttpCaps \cap SshCaps = {} /\ Unknown \notin Caps
    /\ Limit \in [Caps -> Nat \ {0}]
    /\ ReadMethods \subseteq Methods
    /\ AllowMethods \in [HttpCaps -> SUBSET Methods]
    /\ AllowPaths \in [HttpCaps -> SUBSET Paths]
    /\ \A c \in SshCaps : ReadOnly[c] \subseteq Operations[c]
    /\ {MaxCalls, MaxCrashes} \subseteq Nat

VARIABLES
    conn,      \* conn[t]: the request connection t works on, and where it is
    used,      \* used[c]: calls of c that the limiter holds in its window
    log,       \* log[c][o]: records of the audit file, by outcome
    did,       \* history: actions of c that were started at the target
    admitted,  \* history: calls of c that the limiter admitted
    ok,        \* history: results (not errors) of c handed to the client
    lost,      \* history: actions of c that were cut off before their record
    calls, crashes

vars == <<conn, used, log, did, admitted, ok, lost, calls, crashes>>

HttpRequests ==
    [tool : {"http_read", "http_request"}, cap : HttpCaps \cup {Unknown},
     method : Methods, path : Paths, body : BOOLEAN, op : {Nil}]

SshRequests ==
    UNION {[tool : {"ssh_read", "ssh_execute"}, cap : {c},
            method : {Nil}, path : {Nil}, body : {FALSE},
            op : {Unknown} \cup IF c = Unknown THEN {} ELSE Operations[c]] :
              c \in SshCaps \cup {Unknown}}

\* HttpRequestInput has an optional body for both tools.
Requests == HttpRequests \cup SshRequests

Idle == [pc |-> "idle", outcome |-> "none", req |->
           [tool |-> Nil, cap |-> Unknown, method |-> Nil, path |-> Nil,
            body |-> FALSE, op |-> Nil]]

Outcomes == {"policy_denied", "rate_limited", "transport_error", "spawn_error",
             "timeout", "completed", "failed"}

Points == {"idle", "dispatch", "http_policy", "ssh_policy", "limit", "prepare", "start",
           "read", "wait", "record", "error", "result"}

Works == [pc : Points, outcome : Outcomes \cup {"none"}, req : Requests \cup {Idle.req}]

TypeOK ==
    /\ conn \in [Conns -> Works]
    /\ used \in [Caps -> Nat] /\ \A c \in Caps : used[c] <= Limit[c]
    /\ log \in [Caps -> [Outcomes -> Nat]]
    /\ {did, admitted, ok, lost} \subseteq [Caps -> Nat]
    /\ calls \in 0..MaxCalls /\ crashes \in 0..MaxCrashes

-----------------------------------------------------------------------------
IsHttp(r) == r.tool \in {"http_read", "http_request"}

\* authorize_http: method and path are listed by the capability.
HttpAllowed(r) == r.method \in AllowMethods[r.cap] /\ r.path \in AllowPaths[r.cap]

\* The operation exists, and its read_only mark is the one of the tool.
SshAllowed(r) ==
    /\ r.op \in Operations[r.cap]
    /\ (r.tool = "ssh_read") = (r.op \in ReadOnly[r.cap])

At(t, point) == conn[t].pc = point
Goto(t, point) == conn' = [conn EXCEPT ![t].pc = point]
Cap(t) == conn[t].req.cap
Add(f, c) == [f EXCEPT ![c] = @ + 1]

Recorded(c, o) == log' = [log EXCEPT ![c][o] = @ + 1]

\* let _ = audit.record(..): the append may fail, and nobody learns of it.
TryRecord(c, o) == Recorded(c, o) \/ UNCHANGED log

\* Connections that have acted at the target of c and not yet said so.
Acting(c) == {t \in Conns : Cap(t) = c /\ conn[t].pc \in {"read", "wait", "record"}}

histories == <<did, admitted, ok, lost>>

-----------------------------------------------------------------------------
Init ==
    /\ conn = [t \in Conns |-> Idle]
    /\ used = [c \in Caps |-> 0]
    /\ log = [c \in Caps |-> [o \in Outcomes |-> 0]]
    /\ did = [c \in Caps |-> 0] /\ admitted = did /\ ok = did /\ lost = did
    /\ calls = 0 /\ crashes = 0

\* A tools/call with an id arrives on a connection that has answered the last.
Receive(t, r) ==
    /\ At(t, "idle") /\ calls < MaxCalls
    /\ calls' = calls + 1
    /\ conn' = [conn EXCEPT ![t].pc = "dispatch", ![t].req = r]
    /\ UNCHANGED <<used, log, histories, crashes>>

\* tools_call: http_read lets only GET and HEAD through.
Dispatch(t) ==
    /\ At(t, "dispatch")
    /\ LET r == conn[t].req
       IN  Goto(t, IF ~IsHttp(r) THEN "ssh_policy"
                   ELSE IF r.tool = "http_read" /\ r.method \notin ReadMethods THEN "error"
                   ELSE "http_policy")
    /\ UNCHANGED <<used, log, histories, calls, crashes>>

\* HttpBroker::execute up to the limiter: only the policy's refusal is audited.
HttpPolicy(t) ==
    /\ At(t, "http_policy")
    /\ LET r == conn[t].req
       IN  \/ r.cap = Unknown /\ Goto(t, "error") /\ UNCHANGED log
           \/ r.cap # Unknown /\ ~HttpAllowed(r) /\ Goto(t, "error")
              /\ TryRecord(r.cap, "policy_denied")
           \/ r.cap # Unknown /\ HttpAllowed(r) /\ Goto(t, "limit") /\ UNCHANGED log
    /\ UNCHANGED <<used, histories, calls, crashes>>

SshPolicyOneWay(t) ==
    /\ At(t, "ssh_policy")
    /\ LET r == conn[t].req
       IN  Goto(t, IF /\ r.cap # Unknown /\ r.op \in Operations[r.cap]
                      /\ r.tool = "ssh_execute" => r.op \notin ReadOnly[r.cap]
                   THEN "limit" ELSE "error")
    /\ UNCHANGED <<used, log, histories, calls, crashes>>

\* SshBroker::execute up to the limiter: no refusal is audited.
SshPolicy(t) ==
    /\ At(t, "ssh_policy")
    /\ Goto(t, IF Cap(t) # Unknown /\ SshAllowed(conn[t].req) THEN "limit" ELSE "error")
    /\ UNCHANGED <<used, log, histories, calls, crashes>>

LimitSkipsReads(t) ==
    /\ At(t, "limit")
    /\ LET c == Cap(t)
       IN  \/ /\ used[c] < Limit[c] \/ conn[t].req.tool = "ssh_read"
              /\ used' = IF used[c] < Limit[c] THEN Add(used, c) ELSE used
              /\ admitted' = IF used[c] < Limit[c] THEN Add(admitted, c) ELSE admitted
              /\ Goto(t, "prepare") /\ UNCHANGED log
           \/ /\ used[c] = Limit[c] /\ conn[t].req.tool # "ssh_read"
              /\ Goto(t, "error") /\ TryRecord(c, "rate_limited")
              /\ UNCHANGED <<used, admitted>>
    /\ UNCHANGED <<did, ok, lost, calls, crashes>>

LimitOffByOne(t) ==
    /\ At(t, "limit")
    /\ LET c == Cap(t)
       IN  \/ /\ used[c] <= Limit[c]
              /\ used' = Add(used, c) /\ admitted' = Add(admitted, c)
              /\ Goto(t, "prepare") /\ UNCHANGED log
           \/ /\ used[c] > Limit[c]
              /\ Goto(t, "error") /\ TryRecord(c, "rate_limited")
              /\ UNCHANGED <<used, admitted>>
    /\ UNCHANGED <<did, ok, lost, calls, crashes>>

\* rate_limiter.check: a call is admitted and held, or refused and audited.
LimitCheck(t) ==
    /\ At(t, "limit")
    /\ LET c == Cap(t)
       IN  \/ /\ used[c] < Limit[c]
              /\ used' = Add(used, c) /\ admitted' = Add(admitted, c)
              /\ Goto(t, "prepare") /\ UNCHANGED log
           \/ /\ used[c] = Limit[c]
              /\ Goto(t, "error") /\ TryRecord(c, "rate_limited")
              /\ UNCHANGED <<used, admitted>>
    /\ UNCHANGED <<did, ok, lost, calls, crashes>>

\* The oldest call of c leaves the window of the limiter.
Slide(c) ==
    /\ used[c] > 0
    /\ used' = [used EXCEPT ![c] = @ - 1]
    /\ UNCHANGED <<conn, log, histories, calls, crashes>>

\* A GET or HEAD with a body is refused, the vault may not have the secret, the
\* files of the ssh client may be missing: none of this is audited.
Prepare(t) ==
    /\ At(t, "prepare")
    /\ \/ Goto(t, "error")
       \/ /\ ~(conn[t].req.method \in ReadMethods /\ conn[t].req.body)
          /\ Goto(t, "start")
    /\ UNCHANGED <<used, log, histories, calls, crashes>>

\* request.send() and Command::spawn(): what cannot be started is audited if the
\* audit file lets it; a request may have reached the target before it fails.
StartFails(t) ==
    /\ At(t, "start")
    /\ LET c == Cap(t)
           sends == IsHttp(conn[t].req)
           o == IF sends THEN "transport_error" ELSE "spawn_error"
       IN  \E reached \in IF sends THEN BOOLEAN ELSE {FALSE} :
              /\ did' = IF reached THEN Add(did, c) ELSE did
              /\ \/ Recorded(c, o) /\ UNCHANGED lost
                 \/ /\ lost' = IF reached THEN Add(lost, c) ELSE lost
                    /\ UNCHANGED log
    /\ Goto(t, "error")
    /\ UNCHANGED <<used, admitted, ok, calls, crashes>>

\* The response headers are there, or the ssh client runs.
Start(t) ==
    /\ At(t, "start")
    /\ did' = Add(did, Cap(t))
    /\ Goto(t, IF IsHttp(conn[t].req) THEN "read" ELSE "wait")
    /\ UNCHANGED <<used, log, admitted, ok, lost, calls, crashes>>

Finish(t, o) == conn' = [conn EXCEPT ![t].pc = "record", ![t].outcome = o]

\* The body has been read and redacted, or the ssh client has ended by itself.
Complete(t) ==
    /\ \/ At(t, "read") /\ Finish(t, "completed")
       \/ At(t, "wait") /\ \E o \in {"completed", "failed"} : Finish(t, o)
    /\ UNCHANGED <<used, log, histories, calls, crashes>>

CutOff(t, point) ==
    /\ At(t, point)
    /\ lost' = Add(lost, Cap(t))
    /\ Goto(t, "error")
    /\ UNCHANGED <<used, log, did, admitted, ok, calls, crashes>>

\* BodyFails without the timeout of the client: http_read waits for ever.
BodyWithoutTimeout(t) ==
    /\ At(t, "read") /\ conn[t].req.tool = "http_request"
    /\ CutOff(t, "read")

\* A chunk of the body cannot be read, for one because the timeout of the
\* client is over: an error that is not audited.
BodyFails(t) == CutOff(t, "read")

\* The output or the status of the ssh client cannot be read: not audited.
CaptureFails(t) == CutOff(t, "wait")

TimeoutUnrecorded(t) ==
    /\ At(t, "wait")
    /\ Goto(t, "error")
    /\ UNCHANGED <<used, log, histories, calls, crashes>>

\* The ssh client is killed when timeout_seconds are over.
Timeout(t) ==
    /\ At(t, "wait")
    /\ Finish(t, "timeout")
    /\ UNCHANGED <<used, log, histories, calls, crashes>>

RecordIfPossible(t) ==
    /\ At(t, "record")
    /\ \/ Recorded(Cap(t), conn[t].outcome) /\ UNCHANGED lost
       \/ lost' = Add(lost, Cap(t)) /\ UNCHANGED log
    /\ Goto(t, IF conn[t].outcome = "timeout" THEN "error" ELSE "result")
    /\ UNCHANGED <<used, did, admitted, ok, calls, crashes>>

\* audit.record(..)?: no result without its record.
Record(t) ==
    /\ At(t, "record")
    /\ \/ /\ Recorded(Cap(t), conn[t].outcome)
          /\ Goto(t, IF conn[t].outcome = "timeout" THEN "error" ELSE "result")
          /\ UNCHANGED lost
       \/ lost' = Add(lost, Cap(t)) /\ Goto(t, "error") /\ UNCHANGED log
    /\ UNCHANGED <<used, did, admitted, ok, calls, crashes>>

\* serve_io writes the response, or finds that the client has gone.
Respond(t) ==
    /\ At(t, "error") \/ At(t, "result")
    /\ conn' = [conn EXCEPT ![t] = Idle]
    /\ ok' = IF At(t, "result") THEN Add(ok, Cap(t)) ELSE ok
    /\ UNCHANGED <<used, log, did, admitted, lost, calls, crashes>>

\* The process ends, by a signal or a crash, and is started again; a request that
\* waits for its response headers may have reached the target.
Crash ==
    /\ crashes < MaxCrashes
    /\ crashes' = crashes + 1
    /\ \E sent \in SUBSET {t \in Conns : At(t, "start") /\ IsHttp(conn[t].req)} :
          LET Sent(c) == Cardinality({t \in sent : Cap(t) = c})
          IN  /\ did' = [c \in Caps |-> did[c] + Sent(c)]
              /\ lost' = [c \in Caps |-> lost[c] + Sent(c) + Cardinality(Acting(c))]
    /\ conn' = [t \in Conns |-> Idle]
    /\ used' = [c \in Caps |-> 0]
    /\ UNCHANGED <<log, admitted, ok, calls>>

\* What the broker does by itself, the timeouts of its clients included.
Step(t) ==
    \/ Dispatch(t) \/ HttpPolicy(t) \/ SshPolicy(t) \/ LimitCheck(t) \/ Prepare(t)
    \/ StartFails(t) \/ BodyFails(t) \/ Timeout(t)
    \/ Record(t) \/ Respond(t)

\* What the target and the ssh client do.
Target(t) == Start(t) \/ Complete(t) \/ CaptureFails(t)

Next ==
    \/ \E t \in Conns, r \in Requests : Receive(t, r)
    \/ \E t \in Conns : Step(t) \/ Target(t)
    \/ \E c \in Caps : Slide(c)
    \/ Crash

Spec == Init /\ [][Next]_vars

\* The runtime polls every task, and both clients have a timeout; no target is
\* expected to answer.
FairSpec == Spec /\ \A t \in Conns : WF_vars(Step(t))

-----------------------------------------------------------------------------
Authorized(r) ==
    IF r.tool \in {"http_read", "http_request"}
    THEN /\ r.cap \in HttpCaps /\ r.method \in AllowMethods[r.cap] /\ r.path \in AllowPaths[r.cap]
         /\ r.tool = "http_read" => r.method \in ReadMethods
    ELSE /\ r.cap \in SshCaps /\ r.op \in Operations[r.cap]
         /\ (r.tool = "ssh_read") = (r.op \in ReadOnly[r.cap])

\* Only a request that the policy and the tool allow spends quota, reads the
\* secret or reaches a target (README.md:95-97, README.md:105-108).
OnlyAuthorized ==
    \A t \in Conns :
        conn[t].pc \in {"limit", "prepare", "start", "read", "wait", "record", "result"}
        => Authorized(conn[t].req)

\* Every action at a target has an admission of its own, over all connections
\* and restarts (SECURITY.md:59): retries, failures and cut-off calls count.
EveryActionAdmitted ==
    \A c \in Caps :
        did[c] + Cardinality({t \in Conns : Cap(t) = c /\ conn[t].pc \in {"prepare", "start"}})
        <= admitted[c]

\* The limiter without a clock that this module has, seen as a Quota.
Abstract == INSTANCE Quota WITH granted <- admitted

\* The broker takes one place of its limiter for each call it lets through, and
\* none otherwise, as RateLimiter hands them out (http.rs:81-97, ssh.rs:86-106).
ImplementsQuota == Abstract!Spec

\* Records of actions that came with a result, and of all that came to an end.
Shown(c) == log[c]["completed"] + log[c]["failed"]
Ended(c) == Shown(c) + log[c]["timeout"]

\* The audit file accounts for every action at a target: it has a record, or is
\* still to get one, or was cut off on one of the paths that are not audited
\* (http.rs:172-176, ssh.rs:146-164, a failing append, the end of the process).
EveryActionAccounted ==
    \A c \in Caps :
        did[c] <= Ended(c) + log[c]["transport_error"] + lost[c] + Cardinality(Acting(c))

\* The audit file claims no action that did not happen, and no client has a
\* result that the audit file does not show (http.rs:196-204, ssh.rs:171-184).
AuditNeverLies ==
    \A c \in Caps :
        Ended(c) <= did[c] /\ ok[c] <= Shown(c)

\* Every call is answered, whatever the target does: the HTTP client and the
\* wait for the ssh client have timeouts (http.rs:110, ssh.rs:140-161).
Answered == \A t \in Conns : ~At(t, "idle") ~> At(t, "idle")
=============================================================================

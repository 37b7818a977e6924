----------------------------- MODULE BrokerProofs -----------------------------
(* Proofs about Broker, for any finite number of connections, any            *)
(* capabilities, policies and limits, and any number of calls and restarts.  *)
EXTENDS Broker, FiniteSetTheorems, TLAPS

\* The requests that have gone past a check carry what the check has found, and
\* what is to be recorded is the outcome of an action.
Routed(t) ==
    /\ conn[t].pc # "idle" => conn[t].req \in Requests
    /\ conn[t].pc = "http_policy" =>
          /\ IsHttp(conn[t].req)
          /\ conn[t].req.tool = "http_read" => conn[t].req.method \in ReadMethods
    /\ conn[t].pc = "ssh_policy" => ~IsHttp(conn[t].req)
    /\ conn[t].pc = "record" => conn[t].outcome \in {"completed", "failed", "timeout"}

AllRouted == \A t \in Conns : Routed(t)

\* The connections that work for c at some points, and how many they are:
\* admitted and not yet acting, acting and not yet on record, and to be answered
\* with a result.
Placed(c, P) == {t \in Conns : Cap(t) = c /\ conn[t].pc \in P}
Waits == {"prepare", "start"}
Acts == {"read", "wait", "record"}
Waiting(c) == Cardinality(Placed(c, Waits))
Active(c) == Cardinality(Placed(c, Acts))
Answering(c) == Cardinality(Placed(c, {"result"}))

\* The accounts of one capability: what the limiter, the target, the audit file
\* and the clients have seen of it, and what is under way between them.
Balanced(c) ==
    /\ did[c] + Waiting(c) <= admitted[c]
    /\ did[c] <= Ended(c) + log[c]["transport_error"] + lost[c] + Active(c)
    /\ Ended(c) + Active(c) <= did[c]
    /\ ok[c] + Answering(c) <= Shown(c)

BrokerInv == TypeOK /\ AllRouted /\ OnlyAuthorized /\ \A c \in Caps : Balanced(c)

-----------------------------------------------------------------------------
USE BrokerAssumption

Others(t) == \A u \in Conns \ {t} : conn'[u] = conn[u]

\* A connection goes on with its request.
Goes(t, point) ==
    /\ conn' \in [Conns -> Works] /\ Others(t)
    /\ conn'[t].pc = point /\ conn'[t].req = conn[t].req

LEMMA Update ==
    ASSUME conn \in [Conns -> Works], NEW t \in Conns, NEW w \in Works,
           conn' = [conn EXCEPT ![t] = w]
    PROVE  conn' \in [Conns -> Works] /\ Others(t) /\ conn'[t] = w
BY DEF Others

LEMMA GotoEffect ==
    ASSUME conn \in [Conns -> Works], NEW t \in Conns, NEW point \in Points, Goto(t, point)
    PROVE  Goes(t, point) /\ conn'[t].outcome = conn[t].outcome
<1> DEFINE w == [conn[t] EXCEPT !.pc = point]
<1>1. /\ w \in Works /\ w.pc = point /\ w.req = conn[t].req /\ w.outcome = conn[t].outcome
  BY DEF Works
<1>2. conn' = [conn EXCEPT ![t] = w]
  BY DEF Goto
<1> HIDE DEF w
<1> QED
  BY <1>1, <1>2, Update DEF Goes

LEMMA FinishEffect ==
    ASSUME conn \in [Conns -> Works], NEW t \in Conns, NEW o \in Outcomes, Finish(t, o)
    PROVE  Goes(t, "record") /\ conn'[t].outcome = o
<1> DEFINE w == [conn[t] EXCEPT !.pc = "record", !.outcome = o]
<1>1. /\ w \in Works /\ w.pc = "record" /\ w.req = conn[t].req /\ w.outcome = o
  BY DEF Works, Points
<1>2. conn' = [conn EXCEPT ![t] = w]
  BY DEF Finish
<1> HIDE DEF w
<1> QED
  BY <1>1, <1>2, Update DEF Goes

LEMMA ReceiveEffect ==
    ASSUME conn \in [Conns -> Works], NEW t \in Conns, NEW r \in Requests, Receive(t, r)
    PROVE  /\ conn' \in [Conns -> Works] /\ Others(t)
           /\ conn'[t].pc = "dispatch" /\ conn'[t].req = r
<1> DEFINE w == [conn[t] EXCEPT !.pc = "dispatch", !.req = r]
<1>1. /\ w \in Works /\ w.pc = "dispatch" /\ w.req = r
  BY DEF Works, Points
<1>2. conn' = [conn EXCEPT ![t] = w]
  BY DEF Receive
<1> HIDE DEF w
<1> QED
  BY <1>1, <1>2, Update

LEMMA IdleWork == Idle \in Works /\ Idle.pc = "idle"
BY DEF Idle, Works, Points

\* The capability of a request is of the kind of its tool, or unknown.
LEMMA RequestKinds ==
    ASSUME NEW r \in Requests
    PROVE  IF IsHttp(r) THEN r.cap \in HttpCaps \cup {Unknown}
           ELSE r.cap \in SshCaps \cup {Unknown} /\ r.tool \in {"ssh_read", "ssh_execute"}
<1>1. CASE r \in HttpRequests
  BY <1>1 DEF HttpRequests, IsHttp
<1>2. CASE r \in SshRequests
  <2>1. PICK c \in SshCaps \cup {Unknown} :
           r \in [tool : {"ssh_read", "ssh_execute"}, cap : {c},
                  method : {Nil}, path : {Nil}, body : {FALSE},
                  op : {Unknown} \cup IF c = Unknown THEN {} ELSE Operations[c]]
    BY <1>2 DEF SshRequests
  <2> QED
    BY <2>1 DEF IsHttp
<1> QED
  BY <1>1, <1>2 DEF Requests

\* Only requests that are authorised have a capability to account to.
LEMMA AuthorizedCap ==
    ASSUME NEW r, Authorized(r)
    PROVE  r.cap \in Caps
BY DEF Authorized, Caps

-----------------------------------------------------------------------------
\* What a step of one connection does to a count.
Delta(t, c, P) ==
    (IF Cap(t) = c /\ conn'[t].pc \in P THEN 1 ELSE 0)
    - (IF Cap(t) = c /\ conn[t].pc \in P THEN 1 ELSE 0)

LEMMA PlacedFinite ==
    ASSUME NEW c, NEW P
    PROVE  IsFiniteSet(Placed(c, P)) /\ Cardinality(Placed(c, P)) \in Nat
<1>1. Placed(c, P) \subseteq Conns
  BY DEF Placed
<1> QED
  BY <1>1, FS_Subset, FS_CardinalityType

LEMMA PlacedMoves ==
    ASSUME NEW t \in Conns, Others(t), NEW c \in Caps, NEW P, "idle" \notin P, "dispatch" \notin P,
           conn'[t].pc \notin {"idle", "dispatch"} => Cap(t)' = Cap(t)
    PROVE  /\ Cardinality(Placed(c, P)) \in Nat
           /\ Cardinality(Placed(c, P))' = Cardinality(Placed(c, P)) + Delta(t, c, P)
<1> DEFINE S == Placed(c, P)
<1>1. IsFiniteSet(S) /\ Cardinality(S) \in Nat
  BY PlacedFinite
<1>2. CASE t \in S /\ ~(Cap(t) = c /\ conn'[t].pc \in P)
  <2>1. S' = S \ {t}
    BY <1>2 DEF Placed, Others, Cap
  <2>2. Delta(t, c, P) = -1
    BY <1>2 DEF Delta, Placed
  <2> HIDE DEF S
  <2>3. Cardinality(S \ {t}) = Cardinality(S) - 1
    BY <1>1, <1>2, FS_RemoveElement
  <2> QED
    BY <1>1, <2>1, <2>2, <2>3 DEF S
<1>3. CASE t \notin S /\ Cap(t) = c /\ conn'[t].pc \in P
  <2>1. S' = S \cup {t}
    BY <1>3 DEF Placed, Others, Cap
  <2>2. Delta(t, c, P) = 1
    BY <1>3 DEF Delta, Placed
  <2> HIDE DEF S
  <2>3. Cardinality(S \cup {t}) = Cardinality(S) + 1
    BY <1>1, <1>3, FS_AddElement
  <2> QED
    BY <1>1, <2>1, <2>2, <2>3 DEF S
<1>4. CASE t \in S <=> (Cap(t) = c /\ conn'[t].pc \in P)
  <2>1. S' = S
    BY <1>4 DEF Placed, Others, Cap
  <2>2. Delta(t, c, P) = 0
    BY <1>4 DEF Delta, Placed
  <2> HIDE DEF S
  <2> QED
    BY <1>1, <2>1, <2>2 DEF S
<1> QED
  BY <1>2, <1>3, <1>4

\* The three counts of a capability after a step of one connection.
LEMMA Counts ==
    ASSUME NEW t \in Conns, Others(t), NEW c \in Caps,
           conn'[t].pc \notin {"idle", "dispatch"} => Cap(t)' = Cap(t)
    PROVE  /\ Waiting(c) \in Nat /\ Active(c) \in Nat /\ Answering(c) \in Nat
           /\ Waiting(c)' = Waiting(c) + Delta(t, c, Waits)
           /\ Active(c)' = Active(c) + Delta(t, c, Acts)
           /\ Answering(c)' = Answering(c) + Delta(t, c, {"result"})
<1>1. \A P \in {Waits, Acts, {"result"}} : "idle" \notin P /\ "dispatch" \notin P
  BY DEF Waits, Acts
<1> QED
  BY <1>1, PlacedMoves DEF Waiting, Active, Answering

LEMMA RecordedEffect ==
    ASSUME log \in [Caps -> [Outcomes -> Nat]], NEW d \in Caps, NEW o \in Outcomes, Recorded(d, o)
    PROVE  /\ log' \in [Caps -> [Outcomes -> Nat]]
           /\ \A c \in Caps, x \in Outcomes :
                 log'[c][x] = IF c = d /\ x = o THEN log[c][x] + 1 ELSE log[c][x]
BY DEF Recorded

LEMMA LogTotals ==
    ASSUME log \in [Caps -> [Outcomes -> Nat]], NEW c \in Caps
    PROVE  /\ log[c]["transport_error"] \in Nat
           /\ log[c]["completed"] \in Nat /\ log[c]["failed"] \in Nat
           /\ log[c]["timeout"] \in Nat /\ Shown(c) \in Nat /\ Ended(c) \in Nat
BY DEF Outcomes, Shown, Ended

\* A record that is made, by what it adds to the totals.
LEMMA TotalsAfter ==
    ASSUME log \in [Caps -> [Outcomes -> Nat]], NEW d \in Caps, NEW o \in Outcomes, Recorded(d, o),
           NEW c \in Caps
    PROVE  /\ Shown(c)' = IF c = d /\ o \in {"completed", "failed"} THEN Shown(c) + 1 ELSE Shown(c)
           /\ Ended(c)' = IF c = d /\ o \in {"completed", "failed", "timeout"}
                          THEN Ended(c) + 1 ELSE Ended(c)
           /\ log'[c]["transport_error"] =
                 IF c = d /\ o = "transport_error" THEN log[c]["transport_error"] + 1
                 ELSE log[c]["transport_error"]
<1>1. \A x \in Outcomes : log'[c][x] = IF c = d /\ x = o THEN log[c][x] + 1 ELSE log[c][x]
  BY RecordedEffect
<1>2. /\ log'[c]["completed"] = IF c = d /\ o = "completed" THEN log[c]["completed"] + 1
                                ELSE log[c]["completed"]
      /\ log'[c]["failed"] = IF c = d /\ o = "failed" THEN log[c]["failed"] + 1
                             ELSE log[c]["failed"]
      /\ log'[c]["timeout"] = IF c = d /\ o = "timeout" THEN log[c]["timeout"] + 1
                              ELSE log[c]["timeout"]
      /\ log'[c]["transport_error"] =
            IF c = d /\ o = "transport_error" THEN log[c]["transport_error"] + 1
            ELSE log[c]["transport_error"]
  BY <1>1 DEF Outcomes
<1>3. /\ log[c]["completed"] \in Nat /\ log[c]["failed"] \in Nat /\ log[c]["timeout"] \in Nat
  BY LogTotals
<1>4. CASE c = d /\ o = "completed"
  BY <1>2, <1>3, <1>4 DEF Shown, Ended
<1>5. CASE c = d /\ o = "failed"
  BY <1>2, <1>3, <1>5 DEF Shown, Ended
<1>6. CASE c = d /\ o = "timeout"
  BY <1>2, <1>3, <1>6 DEF Shown, Ended
<1>7. CASE ~(c = d /\ o \in {"completed", "failed", "timeout"})
  BY <1>2, <1>3, <1>7 DEF Shown, Ended
<1> QED
  BY <1>2, <1>4, <1>5, <1>6, <1>7

LEMMA AddEffect ==
    ASSUME NEW f \in [Caps -> Nat], NEW d \in Caps
    PROVE  /\ Add(f, d) \in [Caps -> Nat]
           /\ \A c \in Caps : Add(f, d)[c] = IF c = d THEN f[c] + 1 ELSE f[c]
BY DEF Add

-----------------------------------------------------------------------------
LEMMA InitInv == Init => BrokerInv
<1> SUFFICES ASSUME Init PROVE BrokerInv
  OBVIOUS
<1>1. conn \in [Conns -> Works] /\ \A t \in Conns : conn[t] = Idle
  BY IdleWork DEF Init
<1>2. \A c \in Caps : used[c] = 0 /\ 0 <= Limit[c]
  BY DEF Init
<1>3. TypeOK
  BY <1>1, <1>2 DEF Init, TypeOK, Outcomes
<1>4. AllRouted /\ OnlyAuthorized
  BY <1>1, IdleWork DEF AllRouted, Routed, OnlyAuthorized
<1>5. ASSUME NEW c \in Caps PROVE Balanced(c)
  <2>1. \A P \in {Waits, Acts, {"result"}} : Placed(c, P) = {}
    BY <1>1, IdleWork DEF Placed, Waits, Acts
  <2>2. Waiting(c) = 0 /\ Active(c) = 0 /\ Answering(c) = 0
    BY <2>1, FS_EmptySet DEF Waiting, Active, Answering
  <2>3. Shown(c) = 0 /\ Ended(c) = 0 /\ log[c]["transport_error"] = 0
    BY DEF Init, Outcomes, Shown, Ended
  <2> QED
    BY <2>2, <2>3 DEF Init, Balanced
<1> QED
  BY <1>3, <1>4, <1>5 DEF BrokerInv

\* Where a request can be charged or answered with a result, its capability is known.
LEMMA KnownCap ==
    ASSUME OnlyAuthorized, NEW t \in Conns,
           conn[t].pc \in {"limit", "prepare", "start", "read", "wait", "record", "result"}
    PROVE  Cap(t) \in Caps
BY AuthorizedCap DEF OnlyAuthorized, Cap

LEMMA BalanceStep ==
    ASSUME BrokerInv, [Next]_vars
    PROVE  \A c \in Caps : Balanced(c)'
<1> USE DEF BrokerInv
<1>0. /\ conn \in [Conns -> Works] /\ log \in [Caps -> [Outcomes -> Nat]]
      /\ did \in [Caps -> Nat] /\ admitted \in [Caps -> Nat] /\ ok \in [Caps -> Nat]
      /\ lost \in [Caps -> Nat]
  BY DEF TypeOK
\* No history and no total of the log changes, and nobody begins to act or to answer.
<1>1. ASSUME NEW t \in Conns, Others(t), UNCHANGED histories,
             conn'[t].pc \notin {"idle", "dispatch"} => Cap(t)' = Cap(t),
             \A c \in Caps : /\ Shown(c)' = Shown(c) /\ Ended(c)' = Ended(c)
                             /\ log'[c]["transport_error"] = log[c]["transport_error"],
             conn'[t].pc \in Waits => conn[t].pc \in Waits,
             conn'[t].pc \in Acts <=> conn[t].pc \in Acts,
             conn'[t].pc = "result" => conn[t].pc = "result"
      PROVE  \A c \in Caps : Balanced(c)'
  <2> SUFFICES ASSUME NEW c \in Caps PROVE Balanced(c)'
    OBVIOUS
  <2>1. /\ Waiting(c) \in Nat /\ Active(c) \in Nat /\ Answering(c) \in Nat
        /\ Waiting(c)' <= Waiting(c) /\ Waiting(c)' \in Int
        /\ Active(c)' = Active(c)
        /\ Answering(c)' <= Answering(c) /\ Answering(c)' \in Int
    BY <1>1, Counts DEF Delta
  <2>2. /\ did[c] \in Nat /\ admitted[c] \in Nat /\ ok[c] \in Nat /\ lost[c] \in Nat
        /\ log[c]["transport_error"] \in Nat /\ Shown(c) \in Nat /\ Ended(c) \in Nat
    BY <1>0, LogTotals
  <2> QED
    BY <1>1, <2>1, <2>2 DEF Balanced, histories
<1>2. ASSUME UNCHANGED log
      PROVE  \A c \in Caps : /\ Shown(c)' = Shown(c) /\ Ended(c)' = Ended(c)
                             /\ log'[c]["transport_error"] = log[c]["transport_error"]
  BY <1>2 DEF Shown, Ended
<1>3. ASSUME NEW o \in {"policy_denied", "rate_limited", "spawn_error"}, NEW d \in Caps,
             TryRecord(d, o)
      PROVE  \A c \in Caps : /\ Shown(c)' = Shown(c) /\ Ended(c)' = Ended(c)
                             /\ log'[c]["transport_error"] = log[c]["transport_error"]
  BY <1>0, <1>2, <1>3, TotalsAfter DEF TryRecord, Outcomes
<1>4. ASSUME NEW t \in Conns, NEW r \in Requests, Receive(t, r) PROVE \A c \in Caps : Balanced(c)'
  BY <1>0, <1>1, <1>2, <1>4, ReceiveEffect DEF Receive, At, Waits, Acts
<1>5. ASSUME NEW t \in Conns, Dispatch(t) \/ SshPolicy(t) PROVE \A c \in Caps : Balanced(c)'
  <2>1. \E point \in {"ssh_policy", "error", "http_policy", "limit"} : Goto(t, point)
    BY <1>5 DEF Dispatch, SshPolicy
  <2>2. Others(t) /\ Cap(t)' = Cap(t) /\ conn'[t].pc \in {"ssh_policy", "error", "http_policy", "limit"}
    BY <1>0, <2>1, GotoEffect DEF Goes, Points, Cap
  <2> QED
    BY <1>1, <1>2, <1>5, <2>2 DEF Dispatch, SshPolicy, At, Waits, Acts
<1>6. ASSUME NEW t \in Conns, HttpPolicy(t) PROVE \A c \in Caps : Balanced(c)'
  <2>1. \E point \in {"error", "limit"} : Goto(t, point)
    BY <1>6 DEF HttpPolicy
  <2>2. Others(t) /\ Cap(t)' = Cap(t) /\ conn'[t].pc \in {"error", "limit"}
    BY <1>0, <2>1, GotoEffect DEF Goes, Points, Cap
  <2>3. UNCHANGED log \/ (Cap(t) \in Caps /\ TryRecord(Cap(t), "policy_denied"))
    BY <1>6, RequestKinds DEF HttpPolicy, AllRouted, Routed, At, Cap, Caps
  <2> QED
    BY <1>1, <1>2, <1>3, <1>6, <2>2, <2>3 DEF HttpPolicy, At, Waits, Acts
<1>7. ASSUME NEW t \in Conns, LimitCheck(t) PROVE \A c \in Caps : Balanced(c)'
  <2>1. conn[t].pc = "limit" /\ Cap(t) \in Caps
    BY <1>7, KnownCap DEF LimitCheck, At
  <2>2. CASE Goto(t, "error") /\ TryRecord(Cap(t), "rate_limited") /\ UNCHANGED histories
    <3>1. Others(t) /\ Cap(t)' = Cap(t) /\ conn'[t].pc = "error"
      BY <1>0, <2>2, GotoEffect DEF Goes, Points, Cap
    <3> QED
      BY <1>1, <1>3, <2>1, <2>2, <3>1 DEF Waits, Acts
  <2>3. CASE /\ Goto(t, "prepare") /\ UNCHANGED <<log, did, ok, lost>>
             /\ admitted' = Add(admitted, Cap(t))
    <3>1. Others(t) /\ Cap(t)' = Cap(t) /\ conn'[t].pc = "prepare"
      BY <1>0, <2>3, GotoEffect DEF Goes, Points, Cap
    <3> SUFFICES ASSUME NEW c \in Caps PROVE Balanced(c)'
      OBVIOUS
    <3>2. /\ Waiting(c) \in Nat /\ Active(c) \in Nat /\ Answering(c) \in Nat
          /\ Waiting(c)' = IF Cap(t) = c THEN Waiting(c) + 1 ELSE Waiting(c)
          /\ Active(c)' = Active(c) /\ Answering(c)' = Answering(c)
      <4>1. /\ Delta(t, c, Waits) = IF Cap(t) = c THEN 1 ELSE 0
            /\ Delta(t, c, Acts) = 0 /\ Delta(t, c, {"result"}) = 0
        BY <2>1, <3>1 DEF Delta, Waits, Acts
      <4> QED
        BY <3>1, <4>1, Counts
    <3>3. admitted'[c] = IF c = Cap(t) THEN admitted[c] + 1 ELSE admitted[c]
      BY <1>0, <2>1, <2>3 DEF Add
    <3>4. did[c] \in Nat /\ admitted[c] \in Nat
      BY <1>0
    <3>5. UNCHANGED <<Shown(c), Ended(c), log[c]["transport_error"]>>
      BY <1>2, <2>3
    <3> QED
      BY <2>3, <3>2, <3>3, <3>4, <3>5 DEF Balanced
  <2> QED
    BY <1>7, <2>2, <2>3 DEF LimitCheck, histories
<1>8. ASSUME NEW t \in Conns, Prepare(t) PROVE \A c \in Caps : Balanced(c)'
  <2>1. \E point \in {"error", "start"} : Goto(t, point)
    BY <1>8 DEF Prepare
  <2>2. Others(t) /\ Cap(t)' = Cap(t) /\ conn'[t].pc \in {"error", "start"}
    BY <1>0, <2>1, GotoEffect DEF Goes, Points, Cap
  <2> QED
    BY <1>1, <1>2, <1>8, <2>2 DEF Prepare, At, Waits, Acts
<1>9. ASSUME NEW t \in Conns, StartFails(t) PROVE \A c \in Caps : Balanced(c)'
  <2> DEFINE d == Cap(t)
             o == IF IsHttp(conn[t].req) THEN "transport_error" ELSE "spawn_error"
  <2>1. conn[t].pc = "start" /\ d \in Caps
    BY <1>9, KnownCap DEF StartFails, At
  <2>2. PICK reached \in BOOLEAN :
           /\ reached => IsHttp(conn[t].req)
           /\ did' = IF reached THEN Add(did, d) ELSE did
           /\ \/ Recorded(d, o) /\ UNCHANGED lost
              \/ lost' = (IF reached THEN Add(lost, d) ELSE lost) /\ UNCHANGED log
    BY <1>9 DEF StartFails
  <2>3. Others(t) /\ Cap(t)' = Cap(t) /\ conn'[t].pc = "error"
    BY <1>0, <1>9, GotoEffect DEF StartFails, Goes, Points, Cap
  <2> SUFFICES ASSUME NEW c \in Caps PROVE Balanced(c)'
    OBVIOUS
  <2>4. /\ Waiting(c) \in Nat /\ Active(c) \in Nat /\ Answering(c) \in Nat
        /\ Waiting(c)' = IF d = c THEN Waiting(c) - 1 ELSE Waiting(c)
        /\ Active(c)' = Active(c) /\ Answering(c)' = Answering(c)
    BY <2>1, <2>3, Counts DEF Delta, Waits, Acts
  <2>5. did'[c] = IF reached /\ c = d THEN did[c] + 1 ELSE did[c]
    BY <1>0, <2>1, <2>2 DEF Add
  <2>6. /\ did[c] \in Nat /\ admitted[c] \in Nat /\ lost[c] \in Nat
        /\ log[c]["transport_error"] \in Nat /\ Shown(c) \in Nat /\ Ended(c) \in Nat
    BY <1>0, LogTotals
  <2>7. UNCHANGED <<admitted, ok>>
    BY <1>9 DEF StartFails
  <2>8. CASE Recorded(d, o) /\ UNCHANGED lost
    <3>1. /\ Shown(c)' = Shown(c) /\ Ended(c)' = Ended(c)
          /\ log'[c]["transport_error"] = IF c = d /\ IsHttp(conn[t].req)
                THEN log[c]["transport_error"] + 1 ELSE log[c]["transport_error"]
      BY <1>0, <2>1, <2>8, TotalsAfter DEF Outcomes
    <3> QED
      BY <2>2, <2>4, <2>5, <2>6, <2>7, <2>8, <3>1 DEF Balanced
  <2>9. CASE lost' = (IF reached THEN Add(lost, d) ELSE lost) /\ UNCHANGED log
    <3>1. lost'[c] = IF reached /\ c = d THEN lost[c] + 1 ELSE lost[c]
      BY <1>0, <2>1, <2>9 DEF Add
    <3>2. UNCHANGED <<Shown(c), Ended(c), log[c]["transport_error"]>>
      BY <1>2, <2>9
    <3> QED
      BY <2>4, <2>5, <2>6, <2>7, <3>1, <3>2 DEF Balanced
  <2> QED
    BY <2>2, <2>8, <2>9
<1>10. ASSUME NEW t \in Conns, Start(t) PROVE \A c \in Caps : Balanced(c)'
  <2>1. conn[t].pc = "start" /\ Cap(t) \in Caps
    BY <1>10, KnownCap DEF Start, At
  <2>2. Others(t) /\ Cap(t)' = Cap(t) /\ conn'[t].pc \in {"read", "wait"}
    BY <1>0, <1>10, GotoEffect DEF Start, Goes, Points, Cap
  <2> SUFFICES ASSUME NEW c \in Caps PROVE Balanced(c)'
    OBVIOUS
  <2>3. /\ Waiting(c) \in Nat /\ Active(c) \in Nat /\ Answering(c) \in Nat
        /\ Waiting(c)' = IF Cap(t) = c THEN Waiting(c) - 1 ELSE Waiting(c)
        /\ Active(c)' = IF Cap(t) = c THEN Active(c) + 1 ELSE Active(c)
        /\ Answering(c)' = Answering(c)
    BY <2>1, <2>2, Counts DEF Delta, Waits, Acts
  <2>4. did'[c] = IF c = Cap(t) THEN did[c] + 1 ELSE did[c]
    BY <1>0, <1>10, <2>1 DEF Start, Add
  <2>5. /\ did[c] \in Nat /\ admitted[c] \in Nat /\ lost[c] \in Nat
        /\ log[c]["transport_error"] \in Nat /\ Shown(c) \in Nat /\ Ended(c) \in Nat
    BY <1>0, LogTotals
  <2>6. UNCHANGED <<admitted, ok, lost, Shown(c), Ended(c), log[c]["transport_error"]>>
    BY <1>2, <1>10 DEF Start
  <2> QED
    BY <2>3, <2>4, <2>5, <2>6 DEF Balanced
<1>11. ASSUME NEW t \in Conns, Complete(t) \/ Timeout(t) PROVE \A c \in Caps : Balanced(c)'
  <2>1. PICK o \in {"completed", "failed", "timeout"} : Finish(t, o)
    BY <1>11 DEF Complete, Timeout
  <2>2. Others(t) /\ Cap(t)' = Cap(t) /\ conn'[t].pc = "record"
    BY <1>0, <2>1, FinishEffect DEF Goes, Outcomes, Cap
  <2>3. conn[t].pc \in {"read", "wait"} /\ UNCHANGED <<log, histories>>
    BY <1>11 DEF Complete, Timeout, At
  <2> QED
    BY <1>1, <1>2, <2>2, <2>3 DEF Waits, Acts
<1>12. ASSUME NEW t \in Conns, BodyFails(t) \/ CaptureFails(t) PROVE \A c \in Caps : Balanced(c)'
  <2>1. /\ conn[t].pc \in {"read", "wait"} /\ Cap(t) \in Caps /\ lost' = Add(lost, Cap(t))
        /\ UNCHANGED <<log, did, admitted, ok>> /\ Goto(t, "error")
    BY <1>12, KnownCap DEF BodyFails, CaptureFails, CutOff, At
  <2>2. Others(t) /\ Cap(t)' = Cap(t) /\ conn'[t].pc = "error"
    BY <1>0, <2>1, GotoEffect DEF Goes, Points, Cap
  <2> SUFFICES ASSUME NEW c \in Caps PROVE Balanced(c)'
    OBVIOUS
  <2>3. /\ Waiting(c) \in Nat /\ Active(c) \in Nat /\ Answering(c) \in Nat
        /\ Waiting(c)' = Waiting(c) /\ Answering(c)' = Answering(c)
        /\ Active(c)' = IF Cap(t) = c THEN Active(c) - 1 ELSE Active(c)
    BY <2>1, <2>2, Counts DEF Delta, Waits, Acts
  <2>4. lost'[c] = IF c = Cap(t) THEN lost[c] + 1 ELSE lost[c]
    BY <1>0, <2>1, AddEffect
  <2>5. /\ did[c] \in Nat /\ lost[c] \in Nat
        /\ log[c]["transport_error"] \in Nat /\ Shown(c) \in Nat /\ Ended(c) \in Nat
    BY <1>0, LogTotals
  <2>6. UNCHANGED <<Shown(c), Ended(c), log[c]["transport_error"]>>
    BY <1>2, <2>1
  <2> QED
    BY <2>1, <2>3, <2>4, <2>5, <2>6 DEF Balanced
<1>13. ASSUME NEW t \in Conns, Record(t) PROVE \A c \in Caps : Balanced(c)'
  <2> DEFINE d == Cap(t)
             o == conn[t].outcome
  <2>1. conn[t].pc = "record" /\ d \in Caps /\ o \in {"completed", "failed", "timeout"}
    BY <1>13, KnownCap DEF Record, At, AllRouted, Routed
  <2>2. UNCHANGED <<did, admitted, ok>>
    BY <1>13 DEF Record
  <2>3. /\ Others(t) /\ Cap(t)' = Cap(t) /\ conn'[t].pc \in {"error", "result"}
        /\ \/ /\ Recorded(d, o) /\ UNCHANGED lost
              /\ conn'[t].pc = IF o = "timeout" THEN "error" ELSE "result"
           \/ lost' = Add(lost, d) /\ conn'[t].pc = "error" /\ UNCHANGED log
    BY <1>0, <1>13, GotoEffect DEF Record, Goes, Points, Cap
  <2> SUFFICES ASSUME NEW c \in Caps PROVE Balanced(c)'
    OBVIOUS
  <2>4. /\ Waiting(c) \in Nat /\ Active(c) \in Nat /\ Answering(c) \in Nat
        /\ Waiting(c)' = Waiting(c)
        /\ Active(c)' = IF d = c THEN Active(c) - 1 ELSE Active(c)
        /\ Answering(c)' = IF d = c /\ conn'[t].pc = "result" THEN Answering(c) + 1 ELSE Answering(c)
    BY <2>1, <2>3, Counts DEF Delta, Waits, Acts
  <2>5. /\ did[c] \in Nat /\ ok[c] \in Nat /\ lost[c] \in Nat
        /\ log[c]["transport_error"] \in Nat /\ Shown(c) \in Nat /\ Ended(c) \in Nat
    BY <1>0, LogTotals
  <2>6. CASE /\ Recorded(d, o) /\ UNCHANGED lost
             /\ conn'[t].pc = IF o = "timeout" THEN "error" ELSE "result"
    <3>1. /\ Shown(c)' = IF c = d /\ o # "timeout" THEN Shown(c) + 1 ELSE Shown(c)
          /\ Ended(c)' = IF c = d THEN Ended(c) + 1 ELSE Ended(c)
          /\ log'[c]["transport_error"] = log[c]["transport_error"]
      BY <1>0, <2>1, <2>6, TotalsAfter DEF Outcomes
    <3> QED
      BY <2>2, <2>4, <2>5, <2>6, <3>1 DEF Balanced
  <2>7. CASE lost' = Add(lost, d) /\ conn'[t].pc = "error" /\ UNCHANGED log
    <3>1. lost'[c] = IF c = d THEN lost[c] + 1 ELSE lost[c]
      BY <1>0, <2>1, <2>7 DEF Add
    <3>2. UNCHANGED <<Shown(c), Ended(c), log[c]["transport_error"]>>
      BY <1>2, <2>7
    <3> QED
      BY <2>2, <2>4, <2>5, <2>7, <3>1, <3>2 DEF Balanced
  <2> QED
    BY <2>3, <2>6, <2>7
<1>14. ASSUME NEW t \in Conns, Respond(t) PROVE \A c \in Caps : Balanced(c)'
  <2>1. /\ conn[t].pc \in {"error", "result"} /\ Others(t) /\ conn'[t].pc = "idle"
        /\ UNCHANGED <<log, did, admitted, lost>>
    BY <1>0, <1>14, Update, IdleWork DEF Respond, At
  <2>2. /\ conn[t].pc = "result" => ok' = Add(ok, Cap(t)) /\ Cap(t) \in Caps
        /\ conn[t].pc = "error" => ok' = ok
    BY <1>14, <2>1, KnownCap DEF Respond, At
  <2> SUFFICES ASSUME NEW c \in Caps PROVE Balanced(c)'
    OBVIOUS
  <2>3. /\ Waiting(c) \in Nat /\ Active(c) \in Nat /\ Answering(c) \in Nat
        /\ Waiting(c)' = Waiting(c) /\ Active(c)' = Active(c)
        /\ Answering(c)' = IF Cap(t) = c /\ conn[t].pc = "result"
                           THEN Answering(c) - 1 ELSE Answering(c)
    BY <2>1, Counts DEF Delta, Waits, Acts
  <2>4. ok'[c] = IF c = Cap(t) /\ conn[t].pc = "result" THEN ok[c] + 1 ELSE ok[c]
    BY <1>0, <2>1, <2>2 DEF Add
  <2>5. ok[c] \in Nat /\ Shown(c) \in Nat
    BY <1>0, LogTotals
  <2>6. UNCHANGED <<Shown(c), Ended(c), log[c]["transport_error"]>>
    BY <1>2, <2>1
  <2> QED
    BY <2>1, <2>3, <2>4, <2>5, <2>6 DEF Balanced
<1>15. ASSUME UNCHANGED <<conn, log, histories>> PROVE \A c \in Caps : Balanced(c)'
  BY <1>15 DEF Balanced, Waiting, Active, Answering, Placed, Cap, Shown, Ended, histories
<1>16. CASE Crash
  <2> SUFFICES ASSUME NEW c \in Caps PROVE Balanced(c)'
    OBVIOUS
  <2>1. PICK sent \in SUBSET {t \in Conns : At(t, "start") /\ IsHttp(conn[t].req)} :
           /\ did' = [x \in Caps |-> did[x] + Cardinality({t \in sent : Cap(t) = x})]
           /\ lost' = [x \in Caps |-> lost[x] + Cardinality({t \in sent : Cap(t) = x})
                                      + Cardinality(Acting(x))]
    BY <1>16 DEF Crash
  <2> DEFINE n == Cardinality({t \in sent : Cap(t) = c})
  <2>2. n \in Nat /\ n <= Waiting(c)
    <3>1. {t \in sent : Cap(t) = c} \subseteq Placed(c, Waits)
      BY DEF Placed, Waits, At
    <3> QED
      BY <3>1, PlacedFinite, FS_Subset, FS_CardinalityType DEF Waiting
  <2>3. Cardinality(Acting(c)) = Active(c)
    BY DEF Acting, Active, Placed, Acts
  <2>4. did'[c] = did[c] + n /\ lost'[c] = lost[c] + n + Active(c)
    BY <2>1, <2>3
  <2>5. Waiting(c)' = 0 /\ Active(c)' = 0 /\ Answering(c)' = 0
    <3>1. \A P \in {Waits, Acts, {"result"}} : Placed(c, P)' = {}
      BY <1>16, IdleWork DEF Crash, Placed, Waits, Acts
    <3> QED
      BY <3>1, FS_EmptySet DEF Waiting, Active, Answering
  <2>6. /\ did[c] \in Nat /\ lost[c] \in Nat /\ admitted[c] \in Nat /\ ok[c] \in Nat
        /\ log[c]["transport_error"] \in Nat /\ Shown(c) \in Nat /\ Ended(c) \in Nat
        /\ Waiting(c) \in Nat /\ Active(c) \in Nat /\ Answering(c) \in Nat
    BY <1>0, LogTotals, PlacedFinite DEF Waiting, Active, Answering
  <2>7. UNCHANGED <<admitted, ok, Shown(c), Ended(c), log[c]["transport_error"]>>
    BY <1>2, <1>16 DEF Crash
  <2> HIDE DEF n
  <2> QED
    BY <2>2, <2>4, <2>5, <2>6, <2>7 DEF Balanced
<1> QED
  BY <1>4, <1>5, <1>6, <1>7, <1>8, <1>9, <1>10, <1>11, <1>12, <1>13, <1>14, <1>15, <1>16
     DEF Next, Step, Target, Slide, vars, histories

-----------------------------------------------------------------------------
LEMMA TypeStep == BrokerInv /\ [Next]_vars => TypeOK'
<1> SUFFICES ASSUME BrokerInv, [Next]_vars PROVE TypeOK'
  OBVIOUS
<1> USE DEF BrokerInv
<1>0. /\ conn \in [Conns -> Works] /\ log \in [Caps -> [Outcomes -> Nat]]
      /\ used \in [Caps -> Nat] /\ \A c \in Caps : used[c] <= Limit[c] /\ Limit[c] \in Nat
      /\ did \in [Caps -> Nat] /\ admitted \in [Caps -> Nat] /\ ok \in [Caps -> Nat]
      /\ lost \in [Caps -> Nat] /\ calls \in 0..MaxCalls /\ crashes \in 0..MaxCrashes
  BY DEF TypeOK
<1>1. \A d \in Caps : /\ Add(did, d) \in [Caps -> Nat] /\ Add(admitted, d) \in [Caps -> Nat]
                      /\ Add(ok, d) \in [Caps -> Nat] /\ Add(lost, d) \in [Caps -> Nat]
  BY <1>0, AddEffect
<1>2. \A d \in Caps, o \in Outcomes : TryRecord(d, o) => log' \in [Caps -> [Outcomes -> Nat]]
  BY <1>0, RecordedEffect DEF TryRecord
<1>3. \A t \in Conns, point \in Points : Goto(t, point) => conn' \in [Conns -> Works]
  BY <1>0, GotoEffect DEF Goes
<1>4. ASSUME NEW t \in Conns, NEW r \in Requests, Receive(t, r) PROVE TypeOK'
  <2>1. conn' \in [Conns -> Works]
    BY <1>0, <1>4, ReceiveEffect
  <2>2. calls' \in 0..MaxCalls
    BY <1>0, <1>4 DEF Receive
  <2> QED
    BY <1>0, <1>4, <2>1, <2>2 DEF TypeOK, Receive, histories
<1>5. ASSUME NEW t \in Conns, Dispatch(t) \/ SshPolicy(t) \/ Prepare(t) PROVE TypeOK'
  <2>1. conn' \in [Conns -> Works]
    BY <1>3, <1>5 DEF Dispatch, SshPolicy, Prepare, Points
  <2> QED
    BY <1>0, <1>5, <2>1 DEF TypeOK, Dispatch, SshPolicy, Prepare, histories
<1>6. ASSUME NEW t \in Conns, HttpPolicy(t) PROVE TypeOK'
  <2>1. conn' \in [Conns -> Works]
    BY <1>3, <1>6 DEF HttpPolicy, Points
  <2>2. log' = log \/ (Cap(t) \in Caps /\ TryRecord(Cap(t), "policy_denied"))
    BY <1>6, RequestKinds DEF HttpPolicy, AllRouted, Routed, At, Cap, Caps
  <2>3. log' \in [Caps -> [Outcomes -> Nat]]
    BY <1>0, <1>2, <2>2 DEF Outcomes
  <2> QED
    BY <1>0, <1>6, <2>1, <2>3 DEF TypeOK, HttpPolicy, histories
<1>7. ASSUME NEW t \in Conns, LimitCheck(t) PROVE TypeOK'
  <2>1. Cap(t) \in Caps
    BY <1>7, KnownCap DEF LimitCheck, At
  <2>2. CASE Goto(t, "error") /\ TryRecord(Cap(t), "rate_limited") /\ UNCHANGED <<used, admitted>>
    <3>1. conn' \in [Conns -> Works] /\ log' \in [Caps -> [Outcomes -> Nat]]
      BY <1>2, <1>3, <2>1, <2>2 DEF Points, Outcomes
    <3> QED
      BY <1>0, <1>7, <2>2, <3>1 DEF TypeOK, LimitCheck
  <2>3. CASE /\ used[Cap(t)] < Limit[Cap(t)] /\ used' = Add(used, Cap(t))
             /\ admitted' = Add(admitted, Cap(t)) /\ Goto(t, "prepare") /\ UNCHANGED log
    <3>1. conn' \in [Conns -> Works]
      BY <1>3, <2>3 DEF Points
    <3>2. used' \in [Caps -> Nat] /\ \A c \in Caps : used'[c] <= Limit[c]
      BY <1>0, <2>1, <2>3 DEF Add
    <3> QED
      BY <1>0, <1>1, <1>7, <2>1, <2>3, <3>1, <3>2 DEF TypeOK, LimitCheck
  <2> QED
    BY <1>7, <2>2, <2>3 DEF LimitCheck
<1>8. ASSUME NEW c \in Caps, Slide(c) PROVE TypeOK'
  <2>1. used' \in [Caps -> Nat] /\ \A x \in Caps : used'[x] <= Limit[x]
    BY <1>0, <1>8 DEF Slide
  <2> QED
    BY <1>0, <1>8, <2>1 DEF TypeOK, Slide, histories
<1>9. ASSUME NEW t \in Conns, StartFails(t) PROVE TypeOK'
  <2>1. Cap(t) \in Caps
    BY <1>9, KnownCap DEF StartFails, At
  <2>2. conn' \in [Conns -> Works]
    BY <1>3, <1>9 DEF StartFails, Points
  <2>3. did' = did \/ did' = Add(did, Cap(t))
    BY <1>9 DEF StartFails
  <2>4. log' = log \/ \E o \in Outcomes : TryRecord(Cap(t), o)
    BY <1>9 DEF StartFails, TryRecord, Outcomes
  <2>5. lost' = lost \/ lost' = Add(lost, Cap(t))
    BY <1>9 DEF StartFails
  <2>6. log' \in [Caps -> [Outcomes -> Nat]]
    BY <1>0, <1>2, <2>1, <2>4
  <2> QED
    BY <1>0, <1>1, <1>9, <2>1, <2>2, <2>3, <2>5, <2>6 DEF TypeOK, StartFails
<1>10. ASSUME NEW t \in Conns, Start(t) PROVE TypeOK'
  <2>1. Cap(t) \in Caps
    BY <1>10, KnownCap DEF Start, At
  <2>2. conn' \in [Conns -> Works]
    BY <1>3, <1>10 DEF Start, Points
  <2> QED
    BY <1>0, <1>1, <1>10, <2>1, <2>2 DEF TypeOK, Start
<1>11. ASSUME NEW t \in Conns, Complete(t) \/ Timeout(t) PROVE TypeOK'
  <2>1. PICK o \in Outcomes : Finish(t, o)
    BY <1>11 DEF Complete, Timeout, Outcomes
  <2>2. conn' \in [Conns -> Works]
    BY <1>0, <2>1, FinishEffect DEF Goes
  <2> QED
    BY <1>0, <1>11, <2>2 DEF TypeOK, Complete, Timeout, histories
<1>12. ASSUME NEW t \in Conns, BodyFails(t) \/ CaptureFails(t) PROVE TypeOK'
  <2>1. Cap(t) \in Caps
    BY <1>12, KnownCap DEF BodyFails, CaptureFails, CutOff, At
  <2>2. conn' \in [Conns -> Works]
    BY <1>3, <1>12 DEF BodyFails, CaptureFails, CutOff, Points
  <2> QED
    BY <1>0, <1>1, <1>12, <2>1, <2>2 DEF TypeOK, BodyFails, CaptureFails, CutOff
<1>13. ASSUME NEW t \in Conns, Record(t) PROVE TypeOK'
  <2>1. Cap(t) \in Caps /\ conn[t].outcome \in Outcomes
    BY <1>13, KnownCap DEF Record, At, AllRouted, Routed, Outcomes
  <2>2. conn' \in [Conns -> Works]
    BY <1>3, <1>13 DEF Record, Points
  <2>3. TryRecord(Cap(t), conn[t].outcome) /\ (lost' = lost \/ lost' = Add(lost, Cap(t)))
    BY <1>13 DEF Record, TryRecord
  <2>4. log' \in [Caps -> [Outcomes -> Nat]]
    BY <1>2, <2>1, <2>3
  <2> QED
    BY <1>0, <1>1, <1>13, <2>1, <2>2, <2>3, <2>4 DEF TypeOK, Record
<1>14. ASSUME NEW t \in Conns, Respond(t) PROVE TypeOK'
  <2>1. conn' \in [Conns -> Works]
    BY <1>0, <1>14, Update, IdleWork DEF Respond
  <2>2. ok' = ok \/ (ok' = Add(ok, Cap(t)) /\ Cap(t) \in Caps)
    BY <1>14, KnownCap DEF Respond, At
  <2> QED
    BY <1>0, <1>1, <1>14, <2>1, <2>2 DEF TypeOK, Respond
<1>15. CASE Crash
  <2>1. PICK sent \in SUBSET {t \in Conns : At(t, "start") /\ IsHttp(conn[t].req)} :
           /\ did' = [c \in Caps |-> did[c] + Cardinality({t \in sent : Cap(t) = c})]
           /\ lost' = [c \in Caps |-> lost[c] + Cardinality({t \in sent : Cap(t) = c})
                                      + Cardinality(Acting(c))]
    BY <1>15 DEF Crash
  <2>2. ASSUME NEW c \in Caps
        PROVE  Cardinality({t \in sent : Cap(t) = c}) \in Nat /\ Cardinality(Acting(c)) \in Nat
    <3>1. {t \in sent : Cap(t) = c} \subseteq Conns /\ Acting(c) \subseteq Conns
      BY DEF Acting
    <3> QED
      BY <3>1, FS_Subset, FS_CardinalityType
  <2>3. did' \in [Caps -> Nat] /\ lost' \in [Caps -> Nat]
    <3> DEFINE N(c) == Cardinality({t \in sent : Cap(t) = c})
               A(c) == Cardinality(Acting(c))
    <3>1. /\ did' = [c \in Caps |-> did[c] + N(c)]
          /\ lost' = [c \in Caps |-> lost[c] + N(c) + A(c)]
          /\ \A c \in Caps : N(c) \in Nat /\ A(c) \in Nat
      BY <2>1, <2>2
    <3> HIDE DEF N, A
    <3> QED
      BY <1>0, <3>1
  <2>4. conn' \in [Conns -> Works]
    BY <1>15, IdleWork DEF Crash
  <2>5. used' \in [Caps -> Nat] /\ \A c \in Caps : used'[c] <= Limit[c]
    BY <1>0, <1>15 DEF Crash
  <2> QED
    BY <1>0, <1>15, <2>3, <2>4, <2>5 DEF TypeOK, Crash
<1>16. CASE UNCHANGED vars
  BY <1>16 DEF TypeOK, vars
<1> QED
  BY <1>4, <1>5, <1>6, <1>7, <1>8, <1>9, <1>10, <1>11, <1>12, <1>13, <1>14, <1>15, <1>16
     DEF Next, Step, Target

-----------------------------------------------------------------------------
\* The points that only an authorised request reaches.
Cleared == {"limit", "prepare", "start", "read", "wait", "record", "result"}

\* The way of a request through the checks (mcp.rs:268-293, http.rs:61-79, ssh.rs:58-79).
LEMMA RouteStep == BrokerInv /\ [Next]_vars => AllRouted' /\ OnlyAuthorized'
<1> SUFFICES ASSUME BrokerInv, [Next]_vars PROVE AllRouted' /\ OnlyAuthorized'
  OBVIOUS
<1> USE DEF BrokerInv
<1>0. conn \in [Conns -> Works] /\ \A t \in Conns : Routed(t)
  BY DEF TypeOK, AllRouted
<1>1. ASSUME NEW t \in Conns, Others(t), Routed(t)',
             conn'[t].pc \in Cleared => Authorized(conn'[t].req)
      PROVE  AllRouted' /\ OnlyAuthorized'
  BY <1>1 DEF AllRouted, Routed, OnlyAuthorized, Others, Cleared
\* A step that leaves the request and goes to a point with no check of its own.
<1>2. ASSUME NEW t \in Conns, NEW point \in Points, Goto(t, point), conn[t].pc # "idle",
             point \in Cleared => conn[t].pc \in Cleared \/ Authorized(conn[t].req),
             point \notin {"http_policy", "ssh_policy", "record"}
      PROVE  AllRouted' /\ OnlyAuthorized'
  <2>1. Goes(t, point)
    BY <1>0, <1>2, GotoEffect
  <2>2. conn[t].pc \in Cleared => Authorized(conn[t].req)
    BY DEF OnlyAuthorized, Cleared
  <2>3. Routed(t)'
    BY <1>0, <1>2, <2>1 DEF Goes, Routed
  <2> QED
    BY <1>1, <1>2, <2>1, <2>2, <2>3 DEF Goes
<1>3. ASSUME NEW t \in Conns, NEW r \in Requests, Receive(t, r) PROVE AllRouted' /\ OnlyAuthorized'
  <2>1. Others(t) /\ conn'[t].pc = "dispatch" /\ conn'[t].req = r
    BY <1>0, <1>3, ReceiveEffect
  <2> QED
    BY <1>1, <2>1 DEF Routed, Cleared
<1>4. ASSUME NEW t \in Conns, Dispatch(t) PROVE AllRouted' /\ OnlyAuthorized'
  <2> DEFINE r == conn[t].req
             point == IF ~IsHttp(r) THEN "ssh_policy"
                      ELSE IF r.tool = "http_read" /\ r.method \notin ReadMethods THEN "error"
                      ELSE "http_policy"
  <2>1. conn[t].pc = "dispatch" /\ Goto(t, point)
    BY <1>4 DEF Dispatch, At
  <2>2. Goes(t, point)
    BY <1>0, <2>1, GotoEffect DEF Points
  <2>3. Routed(t)'
    BY <1>0, <2>1, <2>2 DEF Goes, Routed, IsHttp
  <2> QED
    BY <1>1, <2>2, <2>3 DEF Goes, Cleared
<1>5. ASSUME NEW t \in Conns, HttpPolicy(t) PROVE AllRouted' /\ OnlyAuthorized'
  <2>1. conn[t].pc = "http_policy"
    BY <1>5 DEF HttpPolicy, At
  <2>2. CASE Goto(t, "error")
    BY <1>2, <2>1, <2>2 DEF Points, Cleared
  <2>3. CASE conn[t].req.cap # Unknown /\ HttpAllowed(conn[t].req) /\ Goto(t, "limit")
    <3>1. Authorized(conn[t].req)
      BY <1>0, <2>1, <2>3, RequestKinds DEF Routed, Authorized, HttpAllowed, IsHttp
    <3> QED
      BY <1>2, <2>1, <2>3, <3>1 DEF Points
  <2> QED
    BY <1>5, <2>2, <2>3 DEF HttpPolicy
<1>6. ASSUME NEW t \in Conns, SshPolicy(t) PROVE AllRouted' /\ OnlyAuthorized'
  <2>1. conn[t].pc = "ssh_policy"
    BY <1>6 DEF SshPolicy, At
  <2>2. CASE Cap(t) # Unknown /\ SshAllowed(conn[t].req) /\ Goto(t, "limit")
    <3>1. Authorized(conn[t].req)
      BY <1>0, <2>1, <2>2, RequestKinds DEF Routed, Authorized, SshAllowed, IsHttp, Cap
    <3> QED
      BY <1>2, <2>1, <2>2, <3>1 DEF Points
  <2>3. CASE Goto(t, "error")
    BY <1>2, <2>1, <2>3 DEF Points, Cleared
  <2> QED
    BY <1>6, <2>2, <2>3 DEF SshPolicy
<1>7. ASSUME NEW t \in Conns,
             \/ LimitCheck(t) \/ Prepare(t) \/ StartFails(t) \/ Start(t)
             \/ BodyFails(t) \/ CaptureFails(t) \/ Record(t)
      PROVE  AllRouted' /\ OnlyAuthorized'
  <2>1. conn[t].pc \in Cleared
    BY <1>7 DEF LimitCheck, Prepare, StartFails, Start, BodyFails, CaptureFails, CutOff, Record,
       At, Cleared
  <2>2. \E point \in {"error", "prepare", "start", "read", "wait", "result"} : Goto(t, point)
    BY <1>7 DEF LimitCheck, Prepare, StartFails, Start, BodyFails, CaptureFails, CutOff, Record
  <2> QED
    BY <1>2, <2>1, <2>2 DEF Points, Cleared
<1>8. ASSUME NEW t \in Conns, Complete(t) \/ Timeout(t) PROVE AllRouted' /\ OnlyAuthorized'
  <2>1. PICK o \in {"completed", "failed", "timeout"} : Finish(t, o)
    BY <1>8 DEF Complete, Timeout
  <2>2. conn[t].pc \in {"read", "wait"}
    BY <1>8 DEF Complete, Timeout, At
  <2>3. Goes(t, "record") /\ conn'[t].outcome = o
    BY <1>0, <2>1, FinishEffect DEF Outcomes
  <2>4. Routed(t)' /\ Authorized(conn[t].req)
    BY <1>0, <2>2, <2>3 DEF Routed, Goes, OnlyAuthorized
  <2> QED
    BY <1>1, <2>3, <2>4 DEF Goes
<1>9. ASSUME NEW t \in Conns, Respond(t) PROVE AllRouted' /\ OnlyAuthorized'
  <2>1. Others(t) /\ conn'[t].pc = "idle"
    BY <1>0, <1>9, Update, IdleWork DEF Respond
  <2> QED
    BY <1>1, <2>1 DEF Routed, Cleared
<1>10. CASE UNCHANGED conn
  BY <1>10 DEF AllRouted, Routed, OnlyAuthorized
<1>11. CASE Crash
  BY <1>11, IdleWork DEF Crash, AllRouted, Routed, OnlyAuthorized
<1> QED
  BY <1>3, <1>4, <1>5, <1>6, <1>7, <1>8, <1>9, <1>10, <1>11 DEF Next, Step, Target, Slide, vars

\* The inductive invariant of the broker.
LEMMA BrokerInvariant == Spec => []BrokerInv
<1>1. BrokerInv /\ [Next]_vars => BrokerInv'
  <2>1. ASSUME BrokerInv, [Next]_vars PROVE BrokerInv'
    BY <2>1, TypeStep, RouteStep, BalanceStep DEF BrokerInv
  <2> QED
    BY <2>1
<1> QED
  BY <1>1, InitInv, PTL DEF Spec

\* Types, and the limiter never holds more calls than the limit it counts
\* against (rate_limit.rs:21-31).
THEOREM TypesHold == Spec => []TypeOK
BY BrokerInvariant, PTL DEF BrokerInv

\* No request spends quota, reads a secret or reaches a target unless the policy
\* and the tool allow it (http.rs:61-79, ssh.rs:58-79, mcp.rs:268-293).
THEOREM RequestsAuthorized == Spec => []OnlyAuthorized
BY BrokerInvariant, PTL DEF BrokerInv

\* No action at a target without an admission of its own, over any number of
\* connections and restarts (http.rs:81-97, ssh.rs:86-106).
THEOREM ActionsAdmitted == Spec => []EveryActionAdmitted
<1>1. BrokerInv => EveryActionAdmitted
  BY DEF BrokerInv, Balanced, EveryActionAdmitted, Waiting, Placed, Waits
<1> QED
  BY <1>1, BrokerInvariant, PTL

\* No action at a target is missing from the accounts: on record, under way, or
\* cut off where the code audits nothing (http.rs:172-176, ssh.rs:146-164).
THEOREM ActionsAccounted == Spec => []EveryActionAccounted
<1>1. BrokerInv => EveryActionAccounted
  BY DEF BrokerInv, Balanced, EveryActionAccounted, Active, Acting, Placed, Acts
<1> QED
  BY <1>1, BrokerInvariant, PTL

\* The audit file shows no action that did not happen, and shows every result a
\* client has (http.rs:196-204, ssh.rs:171-184).
THEOREM AuditIsTrue == Spec => []AuditNeverLies
<1>1. BrokerInv => AuditNeverLies
  <2> SUFFICES ASSUME BrokerInv, NEW c \in Caps PROVE Ended(c) <= did[c] /\ ok[c] <= Shown(c)
    BY DEF AuditNeverLies
  <2>1. /\ did[c] \in Nat /\ ok[c] \in Nat /\ Ended(c) \in Nat /\ Shown(c) \in Nat
        /\ Active(c) \in Nat /\ Answering(c) \in Nat
    BY LogTotals, PlacedFinite DEF BrokerInv, TypeOK, Active, Answering
  <2> QED
    BY <2>1 DEF BrokerInv, Balanced
<1> QED
  BY <1>1, BrokerInvariant, PTL

-----------------------------------------------------------------------------
\* An admission is a Grant, a call that leaves the window an Expire, and the end of
\* the process a Restart of the limiter; nothing else touches the limiter.
LEMMA QuotaStep ==
    ASSUME BrokerInv, [Next]_vars
    PROVE  [Abstract!Next]_(Abstract!vars)
<1>0. /\ used \in [Caps -> Nat] /\ admitted \in [Caps -> Nat]
      /\ Limit \in [Caps -> Nat \ {0}] /\ OnlyAuthorized
  BY DEF BrokerInv, TypeOK
<1>1. ASSUME NEW t \in Conns, LimitCheck(t) PROVE Abstract!Next \/ UNCHANGED Abstract!vars
  <2> DEFINE d == Cap(t)
  <2>1. d \in Caps
    BY <1>0, <1>1, KnownCap DEF LimitCheck, At
  <2>2. \/ used[d] < Limit[d] /\ used' = Add(used, d) /\ admitted' = Add(admitted, d)
        \/ UNCHANGED <<used, admitted>>
    BY <1>1 DEF LimitCheck
  <2> HIDE DEF d
  <2>3. CASE used[d] < Limit[d] /\ used' = Add(used, d) /\ admitted' = Add(admitted, d)
    <3>1. used[d] \in 0..used[d]
      BY <1>0, <2>1
    <3>2. Abstract!Grant(d)
      BY <2>3, <3>1 DEF Add, Abstract!Grant
    <3> QED
      BY <2>1, <3>2 DEF Abstract!Next
  <2>4. CASE UNCHANGED <<used, admitted>>
    BY <2>4 DEF Abstract!vars
  <2> QED
    BY <2>2, <2>3, <2>4
<1>2. ASSUME NEW c \in Caps, Slide(c) PROVE Abstract!Next
  <2>1. used[c] - 1 \in 0..used[c]
    BY <1>0, <1>2 DEF Slide
  <2>2. Abstract!Expire(c)
    BY <1>2, <2>1 DEF Slide, histories, Abstract!Expire
  <2> QED
    BY <2>2 DEF Abstract!Next
<1>3. CASE Crash
  BY <1>3 DEF Crash, Abstract!Next, Abstract!Restart
<1>4. CASE UNCHANGED <<used, admitted>>
  BY <1>4 DEF Abstract!vars
<1>5. ASSUME NEW t \in Conns, Step(t) \/ Target(t), ~LimitCheck(t) PROVE UNCHANGED <<used, admitted>>
  BY <1>5 DEF Step, Target, Dispatch, HttpPolicy, SshPolicy, Prepare, StartFails, BodyFails,
        Timeout, Record, Respond, Start, Complete, CaptureFails, CutOff, histories
<1>6. ASSUME NEW t \in Conns, NEW r \in Requests, Receive(t, r) PROVE UNCHANGED <<used, admitted>>
  BY <1>6 DEF Receive, histories
<1>7. CASE UNCHANGED vars
  BY <1>4, <1>7 DEF vars
<1> QED
  BY <1>1, <1>2, <1>3, <1>4, <1>5, <1>6, <1>7 DEF Next, Abstract!vars

\* The broker is given its quota by a limiter that hands out places as RateLimiter
\* does, whatever its connections do and however often it ends (http.rs:81-97,
\* ssh.rs:86-106).
THEOREM BrokerUsesQuota == Spec => ImplementsQuota
<1>1. Init => Abstract!Init
  BY DEF Init, Abstract!Init
<1>2. BrokerInv /\ [Next]_vars => [Abstract!Next]_(Abstract!vars)
  BY QuotaStep
<1> QED
  BY <1>1, <1>2, BrokerInvariant, PTL DEF Spec, ImplementsQuota, Abstract!Spec
=============================================================================

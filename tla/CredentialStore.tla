--------------------------- MODULE CredentialStore ---------------------------
(***************************************************************************)
(* What EncryptedFileVault promises to the processes that share it: a map  *)
(* from credential ids to secrets that changes by one whole request at a   *)
(* time, that a power failure can only set back to an earlier whole map,   *)
(* and that keeps for good whatever was reported as stored.  One exception *)
(* is part of the promise: a request that cannot see whether there is a    *)
(* map takes it for missing, and then replaces all of it.                  *)
(***************************************************************************)
EXTENDS FiniteSets

CONSTANTS Procs, Ids, Values, NoValue, NoStore

Empty == [i \in Ids |-> NoValue]
Store == [Ids -> Values \cup {NoValue}]

Request ==
    [op : {"init", "validate"}, id : {NoValue}, val : {NoValue}]
    \cup [op : {"get", "delete"}, id : Ids, val : {NoValue}]
    \cup [op : {"set"}, id : Ids, val : Values]

NoRequest == [op |-> "none", id |-> NoValue, val |-> NoValue]

VARIABLES
    store,     \* the map now, NoStore before initialisation
    durable,   \* the maps that a power failure may leave behind
    call       \* call[p]: the request of process p, how far it is, and
               \* whether it takes the store for missing

vars == <<store, durable, call>>

Stages == {"idle", "open", "committed", "done", "failed"}
Idle == [req |-> NoRequest, stage |-> "idle", answer |-> NoValue, blind |-> FALSE]

TypeOK ==
    /\ store \in Store \cup {NoStore}
    /\ durable \subseteq Store \cup {NoStore}
    /\ store \in durable
    /\ call \in [Procs -> [req : Request \cup {NoRequest}, stage : Stages,
                           answer : Values \cup {NoValue}, blind : BOOLEAN]]

-----------------------------------------------------------------------------
Contents == IF store = NoStore THEN Empty ELSE store

\* What process p takes the contents for.
Seen(p) == IF call[p].blind THEN Empty ELSE Contents

\* The map after the request of p, where the request can change it.
Changed(p) ==
    LET r == call[p].req
    IN  CASE r.op = "init"   -> Empty
          [] r.op = "set"    -> [Seen(p) EXCEPT ![r.id] = r.val]
          [] r.op = "delete" -> [Seen(p) EXCEPT ![r.id] = NoValue]

Allowed(p) ==
    LET r == call[p].req
    IN  \/ r.op = "init" /\ (store = NoStore \/ call[p].blind)
        \/ r.op = "set"
        \/ r.op = "delete" /\ Seen(p)[r.id] # NoValue

Init ==
    /\ store \in {NoStore, Empty}
    /\ durable = {store}
    /\ call = [p \in Procs |-> Idle]

Stage(p, s) == call' = [call EXCEPT ![p].stage = s]

Submit(p, r) ==
    /\ call[p].stage = "idle"
    /\ call' = [call EXCEPT ![p] = [Idle EXCEPT !.req = r, !.stage = "open"]]
    /\ UNCHANGED <<store, durable>>

\* The process cannot see the store and goes on as if there were none.
Overlook(p) ==
    /\ call[p].stage = "open" /\ call[p].req.op \in {"init", "set"}
    /\ call' = [call EXCEPT ![p].blind = TRUE]
    /\ UNCHANGED <<store, durable>>

Commit(p) ==
    /\ call[p].stage = "open"
    /\ Allowed(p)
    /\ store' = Changed(p)
    /\ durable' = durable \cup {store'}
    /\ Stage(p, "committed")

Flush(p) ==
    /\ call[p].stage = "committed"
    /\ durable' = {store}
    /\ Stage(p, "done")
    /\ UNCHANGED store

Answer(p) ==
    /\ call[p].stage = "open"
    /\ \/ /\ call[p].req.op = "get"
          /\ Contents[call[p].req.id] # NoValue
          /\ call' = [call EXCEPT ![p].stage = "done",
                                  ![p].answer = Contents[call[p].req.id]]
       \/ /\ call[p].req.op = "validate"
          /\ Stage(p, "done")
    /\ UNCHANGED <<store, durable>>

\* An error says nothing about whether the request took effect.
Fail(p) ==
    /\ call[p].stage \in {"open", "committed", "done"}
    /\ call' = [call EXCEPT ![p].stage = "failed", ![p].answer = NoValue]
    /\ UNCHANGED <<store, durable>>

Return(p) ==
    /\ call[p].stage \in {"done", "failed"}
    /\ call' = [call EXCEPT ![p] = Idle]
    /\ UNCHANGED <<store, durable>>

Die(p) ==
    /\ call[p].stage # "idle"
    /\ call' = [call EXCEPT ![p] = Idle]
    /\ UNCHANGED <<store, durable>>

PowerLoss ==
    /\ store' \in durable
    /\ durable' = {store'}
    /\ call' = [p \in Procs |-> Idle]

Next ==
    \/ \E p \in Procs, r \in Request : Submit(p, r)
    \/ \E p \in Procs :
          Overlook(p) \/ Commit(p) \/ Flush(p) \/ Answer(p) \/ Fail(p) \/ Return(p) \/ Die(p)
    \/ PowerLoss

Spec == Init /\ [][Next]_vars
=============================================================================

----------------------------- MODULE RateLimiter -----------------------------
(***************************************************************************)
(* The sliding one-minute limiter of src/rate_limit.rs, shared by the HTTP *)
(* and the SSH broker of one process.                                      *)
(*                                                                         *)
(* check() reads the monotonic clock BEFORE it waits for the tokio mutex,  *)
(* so the queue of a capability need not be ordered by time and a decision *)
(* is taken with a stamp that may be stale.  Under the mutex there is no   *)
(* await: eviction, comparison and push are one atomic step.               *)
(***************************************************************************)
EXTENDS Integers, Sequences

CONSTANTS
    Tasks,        \* tasks of the runtime that can be inside check() at once
    Caps,         \* capability ids
    Limit,        \* Limit[c]: limits.max_requests_per_minute of capability c
    Window,       \* WINDOW, in clock ticks
    Boot,         \* reading of the monotonic clock in the initial state
    Lag,          \* bound: longest delay from Instant::now() to the mutex
    Horizon,      \* bound: last reading of the clock
    MaxRestarts   \* bound: how often the process is started anew

ASSUME RateLimiterAssumption ==
    /\ Limit \in [Caps -> Nat \ {0}]
    /\ Window \in Nat \ {0}
    /\ {Boot, Lag, Horizon, MaxRestarts} \subseteq Nat

VARIABLES
    clock,        \* what Instant::now() returns
    waiting,      \* calls of check() that have their stamp, not the mutex
    calls,        \* calls[c]: the queue of stamps the limiter keeps for c
    epoch,        \* which incarnation of the process is running
    admitted      \* history: every admission of c, in the order of the mutex

vars == <<clock, waiting, calls, epoch, admitted>>

Call == [task : Tasks, cap : Caps, now : Nat]
Admission == [stamp : Nat, at : Nat, epoch : Nat]

\* The types, and a queue holds no more stamps than its capability has places,
\* however the stamps are ordered (rate_limit.rs:22-30).
TypeOK ==
    /\ clock \in Nat
    /\ waiting \subseteq Call
    /\ calls \in [Caps -> Seq(Nat)] /\ \A c \in Caps : Len(calls[c]) <= Limit[c]
    /\ epoch \in Nat
    /\ admitted \in [Caps -> Seq(Admission)]

-----------------------------------------------------------------------------
CutoffOneTickLate(now) == IF now >= Window THEN now - Window + 1 ELSE now

\* now.checked_sub(WINDOW).unwrap_or(now): an Instant that cannot go below the
\* origin of the clock makes the cutoff the present moment.
Cutoff(now) == IF now >= Window THEN now - Window ELSE now

EvictStrictlyOlder(q, cutoff) ==
    LET live == {i \in DOMAIN q : q[i] >= cutoff}
    IN  IF live = {} THEN <<>>
        ELSE SubSeq(q, CHOOSE i \in live : \A j \in live : i <= j, Len(q))

\* Pops the front while it is not younger than the cutoff.  A stale stamp
\* behind a younger one stays: only the front is looked at.
Evict(q, cutoff) ==
    LET live == {i \in DOMAIN q : q[i] > cutoff}
    IN  IF live = {} THEN <<>>
        ELSE SubSeq(q, CHOOSE i \in live : \A j \in live : i <= j, Len(q))

Kept(w) == Evict(calls[w.cap], Cutoff(w.now))

HasRoomOffByOne(w) == Len(Kept(w)) <= Limit[w.cap]

HasRoom(w) == Len(Kept(w)) < Limit[w.cap]

-----------------------------------------------------------------------------
Init ==
    /\ clock = Boot
    /\ waiting = {}
    /\ calls = [c \in Caps |-> <<>>]
    /\ epoch = 0
    /\ admitted = [c \in Caps |-> <<>>]

\* Task t enters check(c): it has read the clock and queues for the mutex.
Enter(t, c) ==
    /\ \A w \in waiting : w.task # t
    /\ waiting' = waiting \cup {[task |-> t, cap |-> c, now |-> clock]}
    /\ UNCHANGED <<clock, calls, epoch, admitted>>

\* The mutex is taken and the call is within the limit.
Admit(w) ==
    /\ HasRoom(w)
    /\ waiting' = waiting \ {w}
    /\ calls' = [calls EXCEPT ![w.cap] = Append(Kept(w), w.now)]
    /\ admitted' = [admitted EXCEPT ![w.cap] =
           Append(@, [stamp |-> w.now, at |-> clock, epoch |-> epoch])]
    /\ UNCHANGED <<clock, epoch>>

\* The stamp is pushed before the comparison.
DenyStored(w) ==
    /\ ~HasRoom(w)
    /\ waiting' = waiting \ {w}
    /\ calls' = [calls EXCEPT ![w.cap] = Append(Kept(w), w.now)]
    /\ UNCHANGED <<clock, epoch, admitted>>

\* The mutex is taken and the call is refused; eviction has happened.
Deny(w) ==
    /\ ~HasRoom(w)
    /\ waiting' = waiting \ {w}
    /\ calls' = [calls EXCEPT ![w.cap] = Kept(w)]
    /\ UNCHANGED <<clock, epoch, admitted>>

\* Time passes; no call waits for the mutex longer than Lag.
Tick ==
    /\ clock < Horizon
    /\ \A w \in waiting : clock - w.now < Lag
    /\ clock' = clock + 1
    /\ UNCHANGED <<waiting, calls, epoch, admitted>>

\* The process ends and is started again: RateLimiter::default().
Restart ==
    /\ epoch < MaxRestarts
    /\ epoch' = epoch + 1
    /\ waiting' = {}
    /\ calls' = [c \in Caps |-> <<>>]
    /\ UNCHANGED <<clock, admitted>>

Next ==
    \/ \E t \in Tasks, c \in Caps : Enter(t, c)
    \/ \E w \in waiting : Admit(w)
    \/ \E w \in waiting : Deny(w)
    \/ Tick
    \/ Restart

Spec == Init /\ [][Next]_vars

-----------------------------------------------------------------------------
\* Any Limit + 1 consecutive admissions of a capability by one process span at
\* least a window, less the delay of the mutex: rate_limit.rs:22-30.
NoOverrun ==
    \A c \in Caps : \A i \in DOMAIN admitted[c] :
        LET j == i + Limit[c]
        IN  /\ j \in DOMAIN admitted[c]
            /\ admitted[c][i].epoch = admitted[c][j].epoch
            => admitted[c][j].at - admitted[c][i].at >= Window - Lag

\* The queues, without their stamps.
Abstract == INSTANCE Quota WITH
    used <- [c \in Caps |-> Len(calls[c])],
    granted <- [c \in Caps |-> Len(admitted[c])]

\* Whatever the order of the stamps in a queue: it grows by one stamp with each
\* admission within its limit, and never without (rate_limit.rs:22-30).
ImplementsQuota == Abstract!Spec

\* The limit of c is used up by this process within a window and a lag.
UsedUp(c) ==
    LET n == Len(admitted[c])
    IN  /\ n >= Limit[c]
        /\ \A i \in (n - Limit[c] + 1)..n :
              /\ admitted[c][i].epoch = epoch
              /\ admitted[c][i].at > clock - Window - Lag

\* A call is refused only while the limit really is used up: neither stale
\* stamps nor refused calls hold a place for good (rate_limit.rs:22-29).
DenialJustified ==
    [][\A w \in waiting \ waiting' :
          (epoch' = epoch /\ admitted' = admitted) => UsedUp(w.cap)]_vars

-----------------------------------------------------------------------------
(* The inductive invariant behind NoOverrun and DenialJustified, for a      *)
(* clock that starts past the first window.                                 *)

\* How many admissions of c the queue of the running process does not hold.
Gone(c) == Len(admitted[c]) - Len(calls[c])

\* A stamp taken before the mutex is at most Lag old when it is used.
FreshStamps ==
    /\ Boot <= clock
    /\ \A w \in waiting : Boot <= w.now /\ w.now <= clock /\ clock <= w.now + Lag

\* The history tells the truth about times and incarnations.
HistoryOrdered(c) ==
    /\ \A i \in DOMAIN admitted[c] :
          LET h == admitted[c][i]
          IN  h.stamp <= h.at /\ h.at <= h.stamp + Lag /\ h.at <= clock /\ h.epoch <= epoch
    /\ \A i, j \in DOMAIN admitted[c] : i <= j => admitted[c][i].at <= admitted[c][j].at

\* The queue is the tail of the history.
QueueIsTail(c) ==
    /\ Len(calls[c]) <= Limit[c]
    /\ 0 <= Gone(c)
    /\ \A i \in 1..Len(calls[c]) :
          /\ admitted[c][Gone(c) + i].stamp = calls[c][i]
          /\ admitted[c][Gone(c) + i].epoch = epoch

\* What left the queue of this process is a window old.
GoneIsOld(c) ==
    \A i \in 1..Gone(c) :
        admitted[c][i].epoch = epoch => admitted[c][i].stamp + Window <= clock

CapInv(c) == HistoryOrdered(c) /\ QueueIsTail(c) /\ GoneIsOld(c)

IInv ==
    /\ TypeOK
    /\ FreshStamps
    /\ \A c \in Caps : CapInv(c)
    /\ NoOverrun
=============================================================================

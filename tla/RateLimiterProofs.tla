-------------------------- MODULE RateLimiterProofs --------------------------
(* Proofs about RateLimiter, for every set of tasks and capabilities, every *)
(* limit, window, lag and number of restarts.                               *)
EXTENDS RateLimiter, SequenceTheorems, WellFoundedInduction, TLAPS

(* Every nonempty set of naturals has a least element. *)
LEMMA LeastElement ==
    ASSUME NEW S \in SUBSET Nat, S # {}
    PROVE  \E i \in S : \A j \in S : i <= j
<1> DEFINE R == OpToRel(<, Nat)
<1>1. IsWellFoundedOn(R, Nat)
    BY NatLessThanWellFounded
<1>2. \E i \in S : \A j \in S : ~ (<<j, i>> \in R)
    <2> HIDE DEF R
    <2> QED BY <1>1, WFMin
<1>3. \A x, y \in Nat : x < y => <<x, y>> \in R
    BY DEF OpToRel
<1>4. PICK i \in S : \A j \in S : <<j, i>> \notin R
    BY <1>2
<1>5. ASSUME NEW j \in S PROVE i <= j
    <2>1. ~ (j < i)
        <3> HIDE DEF R
        <3> QED BY <1>3, <1>4
    <2> QED BY <2>1
<1> QED BY <1>5

(* What the eviction loop of rate_limit.rs:22-24 returns: the queue without  *)
(* a prefix that is not younger than the cutoff, with a younger front.       *)
LEMMA EvictSuffix ==
    ASSUME NEW q \in Seq(Nat), NEW cutoff \in Int
    PROVE  \E k \in 0..Len(q) :
              /\ Evict(q, cutoff) \in Seq(Nat)
              /\ Len(Evict(q, cutoff)) = Len(q) - k
              /\ \A i \in 1..(Len(q) - k) : Evict(q, cutoff)[i] = q[k + i]
              /\ \A i \in 1..k : q[i] <= cutoff
              /\ k < Len(q) => q[k + 1] > cutoff
<1> DEFINE live == {i \in DOMAIN q : q[i] > cutoff}
<1>1. DOMAIN q = 1..Len(q) /\ Len(q) \in Nat /\ \A i \in 1..Len(q) : q[i] \in Nat
    OBVIOUS
<1>2. CASE live = {}
    <2>1. Evict(q, cutoff) = <<>>
        BY <1>2 DEF Evict
    <2>2. \A i \in 1..Len(q) : q[i] <= cutoff
        BY <1>1, <1>2
    <2>3. Len(Evict(q, cutoff)) = 0 /\ Evict(q, cutoff) \in Seq(Nat)
        BY <2>1
    <2>4. Len(q) \in 0..Len(q) /\ Len(q) - Len(q) = 0 /\ 1..0 = {}
        BY <1>1
    <2> HIDE DEF live
    <2> WITNESS Len(q) \in 0..Len(q)
    <2> QED BY <1>1, <2>2, <2>3, <2>4
<1>3. CASE live # {}
    <2>1. live \in SUBSET Nat
        BY <1>1
    <2>2. \E i \in live : \A j \in live : i <= j
        <3> HIDE DEF live
        <3> QED BY <1>3, <2>1, LeastElement
    <2> DEFINE f == CHOOSE i \in live : \A j \in live : i <= j
    <2>3. f \in live /\ \A j \in live : f <= j
        <3> HIDE DEF live
        <3> QED BY <2>2
    <2>4. Evict(q, cutoff) = SubSeq(q, f, Len(q))
        BY <1>3 DEF Evict
    <2> HIDE DEF f
    <2>5. f \in 1..Len(q) /\ q[f] > cutoff
        BY <2>3, <1>1
    <2>6. ASSUME NEW i \in 1..(f - 1) PROVE q[i] <= cutoff
        <3>1. i \in 1..Len(q) /\ i < f /\ f \in Nat /\ i \in Nat
            BY <2>5, <1>1
        <3>2. q[i] \in Nat
            BY <3>1, <1>1
        <3>3. CASE q[i] > cutoff
            <4>1. i \in live
                BY <3>1, <3>3, <1>1
            <4>2. f <= i
                BY <4>1, <2>3
            <4> QED BY <4>2, <3>1
        <3> QED BY <3>2, <3>3
    <2> HIDE DEF live
    <2> DEFINE k == f - 1
    <2>7. k \in 0..Len(q) /\ f = k + 1 /\ k < Len(q)
        BY <2>5, <1>1
    <2>8. /\ SubSeq(q, f, Len(q)) \in Seq(Nat)
          /\ Len(SubSeq(q, f, Len(q))) = Len(q) - f + 1
          /\ \A i \in 1..(Len(q) - f + 1) : SubSeq(q, f, Len(q))[i] = q[f + i - 1]
        BY <2>5, <1>1, SubSeqProperties
    <2>9. ASSUME NEW i \in 1..(Len(q) - k) PROVE Evict(q, cutoff)[i] = q[k + i]
        <3>1. i \in 1..(Len(q) - f + 1) /\ f + i - 1 = k + i
            BY <1>1, <2>5
        <3> QED BY <2>4, <2>8, <3>1
    <2>10. Len(Evict(q, cutoff)) = Len(q) - k
        BY <2>4, <2>7, <2>8, <1>1
    <2> HIDE DEF k
    <2>11. q[k + 1] > cutoff /\ \A i \in 1..k : q[i] <= cutoff
        BY <2>5, <2>6, <2>7, <1>1
    <2> QED BY <2>4, <2>7, <2>8, <2>9, <2>10, <2>11
<1> QED BY <1>2, <1>3

-----------------------------------------------------------------------------
(* Types: the constants as the provers need them (config.rs:423-428). *)

LEMMA ConstantTypes ==
    /\ \A c \in Caps : Limit[c] \in Nat /\ Limit[c] > 0
    /\ Window \in Nat /\ Window > 0
    /\ Boot \in Nat /\ Lag \in Nat /\ Horizon \in Nat /\ MaxRestarts \in Nat
BY RateLimiterAssumption

\* Eviction leaves a queue of stamps (rate_limit.rs:22-24).
LEMMA KeptType ==
    ASSUME TypeOK, NEW w \in waiting
    PROVE  Kept(w) \in Seq(Nat)
<1>1. w.cap \in Caps /\ w.now \in Nat /\ calls[w.cap] \in Seq(Nat)
    BY DEF TypeOK, Call
<1>2. Cutoff(w.now) \in Int
    BY <1>1, ConstantTypes DEF Cutoff
<1> QED BY <1>1, <1>2, EvictSuffix DEF Kept

\* Eviction frees some places and takes none (rate_limit.rs:22-24).
LEMMA KeptShorter ==
    ASSUME TypeOK, NEW w \in waiting
    PROVE  w.cap \in Caps /\ Len(Kept(w)) \in 0..Len(calls[w.cap])
<1>1. w.cap \in Caps /\ w.now \in Nat /\ calls[w.cap] \in Seq(Nat)
    BY DEF TypeOK, Call
<1>2. Cutoff(w.now) \in Int
    BY <1>1, ConstantTypes DEF Cutoff
<1>3. \E k \in 0..Len(calls[w.cap]) : Len(Kept(w)) = Len(calls[w.cap]) - k
    <2>1. \A cutoff \in Int : \E k \in 0..Len(calls[w.cap]) :
             Len(Evict(calls[w.cap], cutoff)) = Len(calls[w.cap]) - k
        BY <1>1, EvictSuffix
    <2> QED BY <1>2, <2>1 DEF Kept
<1>4. Len(calls[w.cap]) \in Nat
    BY <1>1
<1> QED BY <1>1, <1>3, <1>4

\* A limiter that was just made is well typed (rate_limit.rs:11-14).
LEMMA TypeInit == Init => TypeOK
BY ConstantTypes DEF Init, TypeOK

\* Every step of check(), of the clock and of a restart keeps the types.
LEMMA TypeNext ==
    ASSUME TypeOK, [Next]_vars
    PROVE  TypeOK'
<1> USE DEF TypeOK
<1>1. CASE \E t \in Tasks, c \in Caps : Enter(t, c)
    BY <1>1 DEF Enter, Call
<1>2. ASSUME NEW w \in waiting, Admit(w) PROVE TypeOK'
    <2>1. w.cap \in Caps /\ w.now \in Nat
        BY DEF Call
    <2> DEFINE q == Append(Kept(w), w.now)
    <2>2. q \in Seq(Nat) /\ Len(q) = Len(Kept(w)) + 1
        BY <2>1, KeptType, AppendProperties
    <2> DEFINE r == [stamp |-> w.now, at |-> clock, epoch |-> epoch]
    <2>3. r \in Admission
        BY <2>1 DEF Admission
    <2> HIDE DEF q, r
    <2>4. Append(admitted[w.cap], r) \in Seq(Admission)
        BY <2>1, <2>3, AppendProperties
    <2>5. admitted' = [admitted EXCEPT ![w.cap] = Append(@, r)]
        BY <1>2 DEF Admit, r
    <2>6. admitted' \in [Caps -> Seq(Admission)]
        BY <2>1, <2>4, <2>5
    <2>7. calls' = [calls EXCEPT ![w.cap] = q]
        BY <1>2 DEF Admit, q
    <2>8. Len(q) <= Limit[w.cap]
        BY <1>2, <2>1, <2>2, KeptShorter, ConstantTypes DEF Admit, HasRoom
    <2>9. calls' \in [Caps -> Seq(Nat)] /\ \A c \in Caps : Len(calls'[c]) <= Limit[c]
        BY <2>1, <2>2, <2>7, <2>8
    <2> QED BY <1>2, <2>6, <2>9 DEF Admit
<1>3. ASSUME NEW w \in waiting, Deny(w) PROVE TypeOK'
    <2>1. w.cap \in Caps /\ Kept(w) \in Seq(Nat) /\ Len(Kept(w)) <= Limit[w.cap]
        BY KeptType, KeptShorter, ConstantTypes
    <2>2. calls' = [calls EXCEPT ![w.cap] = Kept(w)]
        BY <1>3 DEF Deny
    <2>3. calls' \in [Caps -> Seq(Nat)] /\ \A c \in Caps : Len(calls'[c]) <= Limit[c]
        BY <2>1, <2>2
    <2> QED BY <1>3, <2>3 DEF Deny
<1>4. CASE Tick
    BY <1>4 DEF Tick
<1>5. CASE Restart
    BY <1>5, ConstantTypes DEF Restart
<1>6. CASE UNCHANGED vars
    BY <1>6 DEF vars
<1> QED BY <1>1, <1>2, <1>3, <1>4, <1>5, <1>6 DEF Next

(* The variables of the limiter keep their types and its queues stay within  *)
(* their limits (rate_limit.rs:22-30), with any clock and any stamps.        *)
THEOREM TypeCorrect == Spec => []TypeOK
<1>1. TypeOK /\ [Next]_vars => TypeOK'
    BY TypeNext
<1> QED BY <1>1, TypeInit, PTL DEF Spec

-----------------------------------------------------------------------------
(* The sliding window, for a clock that starts past the first window *)

(* What a call under the mutex keeps of the queue, in terms of its stamp.    *)
LEMMA KeptFacts ==
    ASSUME TypeOK, FreshStamps, Boot >= Window, NEW w \in waiting
    PROVE  \E k \in 0..Len(calls[w.cap]) :
              /\ Kept(w) \in Seq(Nat)
              /\ Len(Kept(w)) = Len(calls[w.cap]) - k
              /\ \A i \in 1..(Len(calls[w.cap]) - k) : Kept(w)[i] = calls[w.cap][k + i]
              /\ \A i \in 1..k : calls[w.cap][i] + Window <= w.now
              /\ k < Len(calls[w.cap]) => calls[w.cap][k + 1] + Window > w.now
<1>1. w.cap \in Caps /\ w.now \in Nat /\ calls[w.cap] \in Seq(Nat)
    BY DEF TypeOK, Call
<1>2. w.now >= Window
    BY <1>1, ConstantTypes DEF FreshStamps
<1>3. Cutoff(w.now) = w.now - Window /\ w.now - Window \in Int
    BY <1>1, <1>2, ConstantTypes DEF Cutoff
<1> DEFINE q == calls[w.cap]
<1>4. q \in Seq(Nat) /\ Len(q) \in Nat /\ \A i \in 1..Len(q) : q[i] \in Nat
    BY <1>1
<1>5. Kept(w) = Evict(q, w.now - Window)
    BY <1>3 DEF Kept
<1> HIDE DEF q
<1>6. PICK k \in 0..Len(q) :
              /\ Evict(q, w.now - Window) \in Seq(Nat)
              /\ Len(Evict(q, w.now - Window)) = Len(q) - k
              /\ \A i \in 1..(Len(q) - k) : Evict(q, w.now - Window)[i] = q[k + i]
              /\ \A i \in 1..k : q[i] <= w.now - Window
              /\ k < Len(q) => q[k + 1] > w.now - Window
    BY <1>3, <1>4, EvictSuffix
<1>7. \A i \in 1..k : q[i] + Window <= w.now
    BY <1>1, <1>4, <1>6, ConstantTypes
<1>8. k < Len(q) => q[k + 1] + Window > w.now
    BY <1>1, <1>4, <1>6, ConstantTypes
<1>9. \E m \in 0..Len(q) :
              /\ Kept(w) \in Seq(Nat)
              /\ Len(Kept(w)) = Len(q) - m
              /\ \A i \in 1..(Len(q) - m) : Kept(w)[i] = q[m + i]
              /\ \A i \in 1..m : q[i] + Window <= w.now
              /\ m < Len(q) => q[m + 1] + Window > w.now
    BY <1>5, <1>6, <1>7, <1>8
<1> QED BY <1>9 DEF q

\* The inductive invariant holds for a limiter that was just made.
LEMMA InvInit == Init /\ Boot >= Window => IInv
<1> SUFFICES ASSUME Init, Boot >= Window PROVE IInv
    OBVIOUS
<1>1. TypeOK
    BY TypeInit
<1>2. FreshStamps
    BY ConstantTypes DEF Init, FreshStamps
<1>3. ASSUME NEW c \in Caps PROVE CapInv(c)
    <2>1. calls[c] = <<>> /\ admitted[c] = <<>>
        BY <1>3 DEF Init
    <2>2. Gone(c) = 0
        BY <2>1 DEF Gone
    <2> QED BY <2>1, <2>2, ConstantTypes
            DEF CapInv, HistoryOrdered, QueueIsTail, GoneIsOld
<1>4. NoOverrun
    <2>1. \A c \in Caps : DOMAIN admitted[c] = {}
        BY DEF Init
    <2> QED BY <2>1 DEF NoOverrun
<1> QED BY <1>1, <1>2, <1>3, <1>4 DEF IInv

\* The stamp of a waiting call stays at most Lag old (rate_limit.rs:18-20).
LEMMA FreshNext ==
    ASSUME TypeOK, FreshStamps, [Next]_vars
    PROVE  FreshStamps'
<1> USE ConstantTypes DEF TypeOK, FreshStamps, Call
<1>1. CASE \E t \in Tasks, c \in Caps : Enter(t, c)
    BY <1>1 DEF Enter
<1>2. CASE \E w \in waiting : Admit(w)
    BY <1>2 DEF Admit
<1>3. CASE \E w \in waiting : Deny(w)
    BY <1>3 DEF Deny
<1>4. CASE Tick
    <2>1. \A w \in waiting : w.now \in Nat /\ clock - w.now < Lag
        BY <1>4 DEF Tick
    <2>2. \A w \in waiting : clock + 1 <= w.now + Lag
        BY <2>1
    <2> QED BY <1>4, <2>2 DEF Tick
<1>5. CASE Restart
    BY <1>5, ConstantTypes DEF Restart
<1>6. CASE UNCHANGED vars
    BY <1>6 DEF vars
<1> QED BY <1>1, <1>2, <1>3, <1>4, <1>5, <1>6 DEF Next

(* After the eviction loop the queue still is the tail of the history, and   *)
(* what is not in it is a window old.                                        *)
LEMMA KeptIsTail ==
    ASSUME IInv, Boot >= Window, NEW w \in waiting
    PROVE  LET a == admitted[w.cap]
               K == Kept(w)
           IN
           /\ a \in Seq(Admission) /\ K \in Seq(Nat)
           /\ Len(K) \in Nat /\ Len(a) \in Nat /\ Len(K) <= Len(a)
           /\ Len(K) <= Limit[w.cap]
           /\ \A i \in 1..Len(K) : /\ a[Len(a) - Len(K) + i].stamp = K[i]
                                   /\ a[Len(a) - Len(K) + i].epoch = epoch
           /\ \A i \in 1..(Len(a) - Len(K)) :
                  a[i].epoch = epoch => a[i].stamp + Window <= clock
<1> USE ConstantTypes
<1> DEFINE c == w.cap
           a == admitted[c]
           K == Kept(w)
           q == calls[c]
           g == Gone(c)
<1>1. c \in Caps /\ CapInv(c) /\ TypeOK /\ FreshStamps
    BY DEF IInv, TypeOK, Call
<1>2. PICK k \in 0..Len(q) :
          /\ K \in Seq(Nat)
          /\ Len(K) = Len(q) - k
          /\ \A i \in 1..(Len(q) - k) : K[i] = q[k + i]
          /\ \A i \in 1..k : q[i] + Window <= w.now
    BY <1>1, KeptFacts
<1>3. Len(q) \in Nat /\ Len(a) \in Nat /\ g = Len(a) - Len(q) /\ g >= 0 /\ a \in Seq(Admission)
    BY <1>1 DEF TypeOK, Gone, CapInv, QueueIsTail
<1>5. \A i \in 1..Len(q) : a[g + i].stamp = q[i] /\ a[g + i].epoch = epoch
    BY <1>1 DEF CapInv, QueueIsTail
<1>6. \A i \in 1..g : a[i].epoch = epoch => a[i].stamp + Window <= clock
    BY <1>1 DEF CapInv, GoneIsOld
<1>7. w.now \in Nat /\ clock \in Nat /\ w.now <= clock
    BY <1>1 DEF FreshStamps, TypeOK, Call
<1>8. Len(q) <= Limit[c] /\ Limit[c] \in Nat
    BY <1>1 DEF CapInv, QueueIsTail
<1>9. \A i \in 1..Len(q) : q[i] \in Nat
    BY <1>1 DEF TypeOK
<1> HIDE DEF q, g, K, a
<1> DEFINE lK == Len(K)
           lq == Len(q)
           la == Len(a)
<1>13. lK = lq - k /\ k \in 0..lq /\ lq \in Nat /\ la \in Nat /\ g = la - lq /\ g >= 0
    BY <1>2, <1>3
<1> HIDE DEF lK, lq, la
<1>10. Len(K) \in Nat /\ Len(K) <= Len(a) /\ Len(K) <= Limit[c]
    BY <1>13, <1>8 DEF lK, lq, la
<1>11. ASSUME NEW i \in 1..Len(K)
       PROVE a[Len(a) - Len(K) + i].stamp = K[i] /\ a[Len(a) - Len(K) + i].epoch = epoch
    <2>1. i \in 1..lK
        BY DEF lK
    <2>2. k + i \in 1..lq /\ g + (k + i) = la - lK + i /\ i \in 1..(lq - k)
        BY <1>13, <2>1
    <2> QED BY <1>2, <1>5, <2>2 DEF lK, lq, la
<1>12. ASSUME NEW i \in 1..(Len(a) - Len(K)), a[i].epoch = epoch
       PROVE a[i].stamp + Window <= clock
    <2>1. CASE i \in 1..g
        BY <1>6, <1>12, <2>1
    <2>2. CASE i \notin 1..g
        <3>1. i \in 1..(la - lK)
            BY DEF la, lK
        <3>2. i - g \in 1..k /\ i - g \in 1..lq /\ g + (i - g) = i
            BY <1>13, <2>2, <3>1
        <3>3. a[i].stamp = q[i - g] /\ a[g + (i - g)].epoch = epoch
            BY <1>5, <3>2 DEF lq
        <3>4. q[i - g] + Window <= w.now /\ q[i - g] \in Nat
            BY <1>2, <1>9, <3>2 DEF lq
        <3> QED BY <1>7, <3>3, <3>4
    <2> QED BY <2>1, <2>2
<1> QED BY <1>2, <1>3, <1>10, <1>11, <1>12 DEF a, K

(* A step that leaves a capability, the clock and the process alone.         *)
LEMMA CapInvSame ==
    ASSUME NEW c \in Caps, CapInv(c),
           calls'[c] = calls[c], admitted'[c] = admitted[c],
           clock' = clock, epoch' = epoch
    PROVE  CapInv(c)'
<1>1. Gone(c)' = Gone(c)
    BY DEF Gone
<1> QED BY <1>1 DEF CapInv, HistoryOrdered, QueueIsTail, GoneIsOld

(* A refused call evicts and records nothing.                                *)
LEMMA CapInvDeny ==
    ASSUME IInv, Boot >= Window, NEW w \in waiting, Deny(w), NEW c \in Caps
    PROVE  CapInv(c)'
<1>1. admitted' = admitted /\ epoch' = epoch /\ clock' = clock
    BY DEF Deny
<1>2. CapInv(c) /\ TypeOK
    BY DEF IInv
<1>3. CASE c # w.cap
    <2>1. calls'[c] = calls[c]
        BY <1>2, <1>3 DEF Deny, TypeOK
    <2> QED BY <1>1, <1>2, <2>1, CapInvSame
<1>4. CASE c = w.cap
    <2> DEFINE K == Kept(w)
               a == admitted[w.cap]
    <2>1. calls'[c] = K /\ admitted'[c] = a
        BY <1>1, <1>2, <1>4 DEF Deny, TypeOK
    <2>2. Gone(c)' = Len(a) - Len(K)
        BY <2>1 DEF Gone
    <2>3. /\ Len(K) \in Nat /\ Len(a) \in Nat /\ Len(K) <= Len(a) /\ Len(K) <= Limit[c]
          /\ \A i \in 1..Len(K) : /\ a[Len(a) - Len(K) + i].stamp = K[i]
                                  /\ a[Len(a) - Len(K) + i].epoch = epoch
          /\ \A i \in 1..(Len(a) - Len(K)) :
                 a[i].epoch = epoch => a[i].stamp + Window <= clock
        BY <1>4, KeptIsTail, Zenon
    <2> HIDE DEF a, K
    <2>4. QueueIsTail(c)'
        BY <1>1, <2>1, <2>2, <2>3 DEF QueueIsTail
    <2>5. GoneIsOld(c)'
        BY <1>1, <2>1, <2>2, <2>3 DEF GoneIsOld
    <2>6. HistoryOrdered(c)'
        BY <1>1, <1>2, <2>1 DEF HistoryOrdered, CapInv, a
    <2> QED BY <2>4, <2>5, <2>6 DEF CapInv
<1> QED BY <1>3, <1>4

(* An admitted call joins the queue and the history together.                *)
LEMMA CapInvAdmit ==
    ASSUME IInv, Boot >= Window, NEW w \in waiting, Admit(w), NEW c \in Caps
    PROVE  CapInv(c)'
<1> USE ConstantTypes
<1>1. epoch' = epoch /\ clock' = clock
    BY DEF Admit
<1>2. CapInv(c) /\ TypeOK /\ FreshStamps
    BY DEF IInv
<1>3. CASE c # w.cap
    <2>1. calls'[c] = calls[c] /\ admitted'[c] = admitted[c]
        BY <1>2, <1>3 DEF Admit, TypeOK
    <2> QED BY <1>1, <1>2, <2>1, CapInvSame
<1>4. CASE c = w.cap
    <2> DEFINE K == Kept(w)
               a == admitted[w.cap]
               r == [stamp |-> w.now, at |-> clock, epoch |-> epoch]
               n == Len(a)
               L == Len(K)
    <2>1. /\ a \in Seq(Admission) /\ K \in Seq(Nat)
          /\ L \in Nat /\ n \in Nat /\ L <= n /\ L <= Limit[c]
          /\ \A i \in 1..L : a[n - L + i].stamp = K[i] /\ a[n - L + i].epoch = epoch
          /\ \A i \in 1..(n - L) : a[i].epoch = epoch => a[i].stamp + Window <= clock
        BY <1>4, KeptIsTail, Zenon
    <2>2. L < Limit[c]
        BY <1>4 DEF Admit, HasRoom
    <2>3. w.now \in Nat /\ clock \in Nat /\ w.now <= clock /\ clock <= w.now + Lag /\ epoch \in Nat
        BY <1>2 DEF FreshStamps, TypeOK, Call
    <2>4. r \in Admission /\ r.stamp = w.now /\ r.at = clock /\ r.epoch = epoch
        BY <2>3 DEF Admission
    <2>5. calls'[c] = Append(K, w.now) /\ admitted'[c] = Append(a, r)
        BY <1>2, <1>4 DEF Admit, TypeOK
    <2> HIDE DEF r
    <2>6. /\ Len(calls'[c]) = L + 1
          /\ \A i \in 1..L : calls'[c][i] = K[i]
          /\ calls'[c][L + 1] = w.now
        BY <2>1, <2>3, <2>5, AppendProperties
    <2>7. /\ admitted'[c] \in Seq(Admission)
          /\ Len(admitted'[c]) = n + 1
          /\ \A i \in 1..n : admitted'[c][i] = a[i]
          /\ admitted'[c][n + 1] = r
        BY <2>1, <2>4, <2>5, AppendProperties
    <2>8. Gone(c)' = n - L
        BY <2>1, <2>6, <2>7 DEF Gone
    <2>9. /\ \A i \in 1..n : /\ a[i].stamp <= a[i].at /\ a[i].at <= a[i].stamp + Lag
                             /\ a[i].at <= clock /\ a[i].epoch <= epoch
          /\ \A i, j \in 1..n : i <= j => a[i].at <= a[j].at
        BY <1>2, <1>4, <2>1 DEF CapInv, HistoryOrdered
    <2>10. DOMAIN admitted'[c] = 1..(n + 1)
        BY <2>7
    <2> HIDE DEF a, K, n, L
    <2>11. QueueIsTail(c)'
        <3>1. ASSUME NEW i \in 1..(L + 1)
              PROVE  /\ admitted'[c][n - L + i].stamp = calls'[c][i]
                     /\ admitted'[c][n - L + i].epoch = epoch
            <4>1. CASE i \in 1..L
                <5>1. n - L + i \in 1..n
                    BY <2>1, <4>1
                <5> QED BY <2>1, <2>6, <2>7, <4>1, <5>1
            <4>2. CASE i = L + 1
                <5>1. n - L + i = n + 1
                    BY <2>1, <4>2
                <5> QED BY <2>4, <2>6, <2>7, <4>2, <5>1
            <4> QED BY <2>1, <4>1, <4>2
        <3>2. 0 <= n - L /\ L + 1 <= Limit[c]
            BY <2>1, <2>2
        <3> QED BY <1>1, <2>6, <2>8, <3>1, <3>2 DEF QueueIsTail
    <2>12. GoneIsOld(c)'
        <3>1. \A i \in 1..(n - L) : i \in 1..n
            BY <2>1
        <3> QED BY <1>1, <2>1, <2>7, <2>8, <3>1 DEF GoneIsOld
    <2>13. HistoryOrdered(c)'
        <3> DEFINE b == admitted'[c]
        <3>1. ASSUME NEW i \in 1..(n + 1)
              PROVE  /\ b[i].stamp <= b[i].at /\ b[i].at <= b[i].stamp + Lag
                     /\ b[i].at <= clock /\ b[i].epoch <= epoch
            <4>1. CASE i \in 1..n
                BY <2>7, <2>9, <4>1
            <4>2. CASE i = n + 1
                BY <2>3, <2>4, <2>7, <4>2
            <4> QED BY <2>1, <4>1, <4>2
        <3>2. ASSUME NEW i \in 1..(n + 1), NEW j \in 1..(n + 1), i <= j
              PROVE  b[i].at <= b[j].at
            <4>1. CASE j \in 1..n
                <5>1. i \in 1..n
                    BY <2>1, <3>2, <4>1
                <5> QED BY <2>7, <2>9, <3>2, <4>1, <5>1
            <4>2. CASE j = n + 1
                <5>1. b[j].at = clock
                    BY <2>4, <2>7, <4>2
                <5> QED BY <3>1, <5>1
            <4> QED BY <2>1, <4>1, <4>2
        <3> QED BY <1>1, <2>10, <3>1, <3>2 DEF HistoryOrdered
    <2> QED BY <2>11, <2>12, <2>13 DEF CapInv
<1> QED BY <1>3, <1>4

(* Time passes, or the process is started anew.                              *)
LEMMA CapInvTick ==
    ASSUME IInv, Tick, NEW c \in Caps
    PROVE  CapInv(c)'
<1> USE ConstantTypes
<1>1. calls' = calls /\ admitted' = admitted /\ epoch' = epoch /\ clock' = clock + 1
    BY DEF Tick
<1>2. CapInv(c) /\ TypeOK
    BY DEF IInv
<1>3. clock \in Nat /\ \A i \in DOMAIN admitted[c] : admitted[c][i] \in Admission
    BY <1>2 DEF TypeOK
<1>4. HistoryOrdered(c)'
    BY <1>1, <1>2, <1>3 DEF HistoryOrdered, CapInv, Admission
<1>5. Gone(c)' = Gone(c)
    BY <1>1 DEF Gone
<1>6. QueueIsTail(c)'
    BY <1>1, <1>2, <1>5 DEF QueueIsTail, CapInv
<1>7. \A i \in 1..Gone(c) : i \in DOMAIN admitted[c]
    BY <1>2 DEF Gone, TypeOK, CapInv, QueueIsTail
<1>8. GoneIsOld(c)'
    BY <1>1, <1>2, <1>3, <1>5, <1>7 DEF GoneIsOld, CapInv, Admission
<1> QED BY <1>4, <1>6, <1>8 DEF CapInv

\* A new process has an empty queue: all its history is gone (main.rs:171).
LEMMA CapInvRestart ==
    ASSUME IInv, Restart, NEW c \in Caps
    PROVE  CapInv(c)'
<1> USE ConstantTypes
<1>1. calls'[c] = <<>> /\ admitted' = admitted /\ epoch' = epoch + 1 /\ clock' = clock
    BY DEF Restart
<1>2. CapInv(c) /\ TypeOK
    BY DEF IInv
<1>3. epoch \in Nat /\ \A i \in DOMAIN admitted[c] : admitted[c][i] \in Admission
    BY <1>2 DEF TypeOK
<1>4. HistoryOrdered(c)'
    BY <1>1, <1>2, <1>3 DEF HistoryOrdered, CapInv, Admission
<1>5. Len(admitted[c]) \in Nat /\ DOMAIN admitted[c] = 1..Len(admitted[c])
    BY <1>2 DEF TypeOK
<1>6. Gone(c)' = Len(admitted[c]) /\ Len(calls'[c]) = 0
    BY <1>1, <1>5 DEF Gone
<1>7. QueueIsTail(c)'
    BY <1>1, <1>5, <1>6 DEF QueueIsTail
<1>8. \A i \in 1..Len(admitted[c]) : admitted[c][i].epoch <= epoch /\ admitted[c][i].epoch \in Nat
    BY <1>2, <1>3, <1>5 DEF HistoryOrdered, CapInv, Admission
<1>9. \A i \in 1..Len(admitted[c]) : admitted[c][i].epoch # epoch + 1
    BY <1>3, <1>8
<1>10. GoneIsOld(c)'
    BY <1>1, <1>6, <1>9 DEF GoneIsOld
<1> QED BY <1>4, <1>7, <1>10 DEF CapInv

\* Every step keeps queue and history of every capability together.
LEMMA CapInvNext ==
    ASSUME IInv, Boot >= Window, [Next]_vars, NEW c \in Caps
    PROVE  CapInv(c)'
<1>1. CapInv(c)
    BY DEF IInv
<1>2. CASE \E t \in Tasks, d \in Caps : Enter(t, d)
    BY <1>1, <1>2, CapInvSame DEF Enter
<1>3. CASE UNCHANGED vars
    BY <1>1, <1>3, CapInvSame DEF vars
<1> QED BY <1>2, <1>3, CapInvAdmit, CapInvDeny, CapInvTick, CapInvRestart DEF Next

(* A step that keeps the history keeps NoOverrun; an admission finds that    *)
(* the Limit-th admission before it has left the queue.                      *)
LEMMA NoOverrunNext ==
    ASSUME IInv, Boot >= Window, [Next]_vars
    PROVE  NoOverrun'
<1> USE ConstantTypes
<1>1. NoOverrun /\ TypeOK /\ \A c \in Caps : HistoryOrdered(c)
    BY DEF IInv, CapInv
<1>2. CASE admitted' = admitted
    BY <1>1, <1>2 DEF NoOverrun
<1>3. ASSUME NEW w \in waiting, Admit(w) PROVE NoOverrun'
    <2> DEFINE a == admitted[w.cap]
               n == Len(a)
               L == Len(Kept(w))
               r == [stamp |-> w.now, at |-> clock, epoch |-> epoch]
    <2>1. L \in Nat /\ n \in Nat /\ a \in Seq(Admission)
          /\ \A i \in 1..(n - L) : a[i].epoch = epoch => a[i].stamp + Window <= clock
        BY KeptIsTail, Zenon
    <2>2. L < Limit[w.cap]
        BY <1>3 DEF Admit, HasRoom
    <2>3. w.cap \in Caps /\ w.now \in Nat /\ clock \in Nat /\ epoch \in Nat
        BY <1>1 DEF TypeOK, Call
    <2>4. r \in Admission /\ r.at = clock /\ r.epoch = epoch
        BY <2>3 DEF Admission
    <2>5. admitted' = [admitted EXCEPT ![w.cap] = Append(a, r)]
        BY <1>3 DEF Admit
    <2> HIDE DEF r
    <2>6. admitted'[w.cap] = Append(a, r)
        BY <1>1, <2>3, <2>5 DEF TypeOK
    <2>7. /\ DOMAIN Append(a, r) = 1..(n + 1) /\ DOMAIN a = 1..n
          /\ \A i \in 1..n : Append(a, r)[i] = a[i]
          /\ Append(a, r)[n + 1] = r
        BY <2>1, <2>4, AppendProperties
    <2>8. ASSUME NEW i \in 1..n PROVE a[i].at <= a[i].stamp + Lag /\ a[i] \in Admission
        BY <1>1, <2>1, <2>3, <2>7 DEF HistoryOrdered
    <2> DEFINE b == Append(a, r)
               limit == Limit[w.cap]
    <2>9. limit \in Nat /\ limit > 0
        BY <2>3
    <2>10. \A i \in 1..n : i + limit \in 1..n /\ a[i].epoch = a[i + limit].epoch
                            => a[i + limit].at - a[i].at >= Window - Lag
        BY <1>1, <2>3, <2>7 DEF NoOverrun
    <2> HIDE DEF a, n, L, b, limit
    <2>11. ASSUME NEW i \in 1..(n + 1), i + limit \in 1..(n + 1), b[i].epoch = b[i + limit].epoch
           PROVE  b[i + limit].at - b[i].at >= Window - Lag
        <3>1. i \in 1..n
            BY <2>1, <2>9, <2>11
        <3>2. b[i] = a[i]
            BY <2>7, <3>1 DEF b
        <3>3. CASE i + limit \in 1..n
            BY <2>7, <2>10, <2>11, <3>1, <3>2, <3>3 DEF b
        <3>4. CASE i + limit = n + 1
            <4>1. b[i + limit].at = clock /\ b[i + limit].epoch = epoch
                BY <2>4, <2>7, <3>4 DEF b
            <4>2. i \in 1..(n - L)
                BY <2>1, <2>2, <2>9, <3>1, <3>4 DEF limit
            <4>3. a[i].stamp + Window <= clock
                BY <2>1, <2>11, <3>2, <4>1, <4>2
            <4>4. a[i].stamp \in Nat /\ a[i].at \in Nat /\ a[i].at <= a[i].stamp + Lag
                BY <2>8, <3>1 DEF Admission
            <4>5. clock - a[i].at >= Window - Lag
                BY <2>3, <4>3, <4>4
            <4> QED BY <3>2, <4>1, <4>5
        <3> QED BY <2>1, <2>9, <2>11, <3>1, <3>3, <3>4
    <2>12. ASSUME NEW c \in Caps, c # w.cap PROVE admitted'[c] = admitted[c]
        BY <1>1, <2>5, <2>12 DEF TypeOK
    <2>13. ASSUME NEW c \in Caps, NEW i \in DOMAIN admitted'[c],
                  i + Limit[c] \in DOMAIN admitted'[c],
                  admitted'[c][i].epoch = admitted'[c][i + Limit[c]].epoch
           PROVE  admitted'[c][i + Limit[c]].at - admitted'[c][i].at >= Window - Lag
        <3>1. CASE c = w.cap
            BY <2>6, <2>7, <2>11, <2>13, <3>1 DEF b, limit
        <3>2. CASE c # w.cap
            BY <1>1, <2>12, <2>13, <3>2 DEF NoOverrun
        <3> QED BY <3>1, <3>2
    <2> QED BY <2>13 DEF NoOverrun
<1>4. admitted' = admitted \/ \E w \in waiting : Admit(w)
    BY DEF Next, vars, Enter, Deny, Tick, Restart
<1> QED BY <1>2, <1>3, <1>4

\* Every step keeps the inductive invariant.
LEMMA InvNext ==
    ASSUME IInv, Boot >= Window, [Next]_vars
    PROVE  IInv'
<1>1. TypeOK'
    BY TypeNext DEF IInv
<1>2. FreshStamps'
    BY FreshNext DEF IInv
<1>3. \A c \in Caps : CapInv(c)'
    BY CapInvNext
<1>4. NoOverrun'
    BY NoOverrunNext
<1> QED BY <1>1, <1>2, <1>3, <1>4 DEF IInv

(* A refused call evicted nothing: its queue holds Limit stamps, all younger *)
(* than a window, and they are the last Limit admissions of this process.    *)
LEMMA DenyUsedUp ==
    ASSUME IInv, Boot >= Window, NEW w \in waiting, Deny(w)
    PROVE  UsedUp(w.cap)
<1> USE ConstantTypes
<1> DEFINE c == w.cap
           q == calls[c]
           a == admitted[c]
           g == Gone(c)
           n == Len(a)
           limit == Limit[c]
           lq == Len(q)
<1>1. c \in Caps /\ CapInv(c) /\ TypeOK /\ FreshStamps
    BY DEF IInv, TypeOK, Call
<1>2. PICK k \in 0..lq :
          /\ Len(Kept(w)) = lq - k
          /\ k < lq => q[k + 1] + Window > w.now
    BY <1>1, KeptFacts
<1>3. ~ (Len(Kept(w)) < limit)
    BY DEF Deny, HasRoom
<1>4. lq \in Nat /\ n \in Nat /\ g = n - lq /\ g >= 0 /\ lq <= limit /\ DOMAIN a = 1..n
    BY <1>1 DEF TypeOK, Gone, CapInv, QueueIsTail
<1>5. limit \in Nat /\ limit > 0
    BY <1>1
<1>6. \A i \in 1..lq : a[g + i].stamp = q[i] /\ a[g + i].epoch = epoch
    BY <1>1 DEF CapInv, QueueIsTail
<1>7. \A i \in 1..n : a[i].stamp <= a[i].at /\ a[i] \in Admission
    BY <1>1, <1>4 DEF CapInv, HistoryOrdered, TypeOK
<1>8. \A i, j \in 1..n : i <= j => a[i].at <= a[j].at
    BY <1>1, <1>4 DEF CapInv, HistoryOrdered
<1>9. w.now \in Nat /\ clock \in Nat /\ clock <= w.now + Lag
    BY <1>1 DEF FreshStamps, TypeOK, Call
<1>10. /\ Len(admitted[w.cap]) = n /\ Limit[w.cap] = limit
       /\ \A i : admitted[w.cap][i] = a[i]
    OBVIOUS
<1> HIDE DEF q, a, g, n, limit, lq
<1>11. k = 0 /\ lq = limit /\ n - limit + 1 = g + 1 /\ n >= limit /\ 1 \in 1..lq
    BY <1>2, <1>3, <1>4, <1>5
<1>12. ASSUME NEW i \in (n - limit + 1)..n
       PROVE  a[i].epoch = epoch /\ a[i].at > clock - Window - Lag
    <2>1. i - g \in 1..lq /\ g + (i - g) = i /\ i \in 1..n /\ g + 1 \in 1..n /\ g + 1 <= i
        BY <1>4, <1>11
    <2>2. a[i].epoch = epoch
        BY <1>6, <2>1
    <2>3. q[1] + Window > w.now /\ a[g + 1].stamp = q[1]
        BY <1>2, <1>5, <1>6, <1>11
    <2>4. a[g + 1].stamp <= a[g + 1].at /\ a[g + 1].at <= a[i].at
        BY <1>7, <1>8, <2>1
    <2>5. a[g + 1].stamp \in Nat /\ a[g + 1].at \in Nat /\ a[i].at \in Nat
        BY <1>7, <2>1 DEF Admission
    <2>6. a[i].at > clock - Window - Lag
        BY <1>9, <2>3, <2>4, <2>5
    <2> QED BY <2>2, <2>6
<1> QED BY <1>10, <1>11, <1>12 DEF UsedUp

\* A step that ends a call and admits nothing is a refusal with the limit used up.
LEMMA DenialStep ==
    ASSUME IInv, Boot >= Window, [Next]_vars
    PROVE  \A w \in waiting \ waiting' :
              (epoch' = epoch /\ admitted' = admitted) => UsedUp(w.cap)
<1> SUFFICES ASSUME NEW w \in waiting \ waiting', epoch' = epoch, admitted' = admitted
             PROVE  UsedUp(w.cap)
    OBVIOUS
<1>1. TypeOK
    BY DEF IInv
<1>2. ASSUME NEW v \in waiting, Admit(v) PROVE FALSE
    <2> DEFINE a == admitted[v.cap]
               r == [stamp |-> v.now, at |-> clock, epoch |-> epoch]
    <2>1. v.cap \in Caps /\ r \in Admission /\ a \in Seq(Admission)
        BY <1>1 DEF TypeOK, Call, Admission
    <2>2. Len(Append(a, r)) = Len(a) + 1 /\ Len(a) \in Nat
        <3> HIDE DEF r, a
        <3> QED BY <2>1, AppendProperties
    <2>3. admitted'[v.cap] = Append(a, r)
        BY <1>1, <1>2, <2>1 DEF Admit, TypeOK
    <2>4. admitted'[v.cap] = a
        OBVIOUS
    <2> HIDE DEF a, r
    <2> QED BY <2>2, <2>3, <2>4
<1>3. ASSUME NEW v \in waiting, Deny(v) PROVE UsedUp(w.cap)
    <2>1. v = w
        BY <1>3 DEF Deny
    <2> QED BY <1>3, <2>1, DenyUsedUp
<1>4. CASE \E t \in Tasks, c \in Caps : Enter(t, c)
    BY <1>4 DEF Enter
<1>5. CASE Tick
    BY <1>5 DEF Tick
<1>6. CASE Restart
    BY <1>1, <1>6 DEF Restart, TypeOK
<1>7. CASE UNCHANGED vars
    BY <1>7 DEF vars
<1> QED BY <1>2, <1>3, <1>4, <1>5, <1>6, <1>7 DEF Next

\* The inductive invariant holds in every reachable state (rate_limit.rs:17-31).
THEOREM Inductive ==
    ASSUME Boot >= Window
    PROVE  Spec => []IInv
<1>1. Init => IInv
    BY InvInit
<1>2. IInv /\ [Next]_vars => IInv'
    BY InvNext
<1> QED BY <1>1, <1>2, PTL DEF Spec

(* check() never admits more than Limit calls of a capability in a window,   *)
(* less the time a call may wait for the mutex (rate_limit.rs:17-31).        *)
THEOREM WindowRespected ==
    ASSUME Boot >= Window
    PROVE  Spec => []NoOverrun
<1>1. IInv => NoOverrun
    BY DEF IInv
<1> QED BY <1>1, Inductive, PTL

(* A call is refused only when this process admitted Limit calls within the  *)
(* last window and lag (rate_limit.rs:22-29).                                *)
THEOREM DenialsJustified ==
    ASSUME Boot >= Window
    PROVE  Spec => DenialJustified
<1>1. IInv /\ [Next]_vars =>
        [\A w \in waiting \ waiting' :
            (epoch' = epoch /\ admitted' = admitted) => UsedUp(w.cap)]_vars
    BY DenialStep
<1> QED BY <1>1, Inductive, PTL DEF Spec, DenialJustified

-----------------------------------------------------------------------------
(* The limiter without a clock: no assumption on the clock is needed.        *)

Taken == [c \in Caps |-> Len(calls[c])]
Granted == [c \in Caps |-> Len(admitted[c])]

\* One queue changes to a length.
LEMMA TakenChange ==
    ASSUME TypeOK, NEW c \in Caps, NEW q \in Seq(Nat), calls' = [calls EXCEPT ![c] = q]
    PROVE  Taken' = [Taken EXCEPT ![c] = Len(q)]
BY DEF TypeOK, Taken

LEMMA AdmitGrants ==
    ASSUME TypeOK, NEW w \in waiting, Admit(w)
    PROVE  Abstract!Grant(w.cap)
<1> DEFINE c == w.cap
           n == Len(Kept(w))
           q == Append(Kept(w), w.now)
           r == [stamp |-> w.now, at |-> clock, epoch |-> epoch]
<1>1. c \in Caps /\ n \in 0..Taken[c] /\ n < Limit[c]
    BY KeptShorter DEF Admit, HasRoom, Taken
<1>2. q \in Seq(Nat) /\ Len(q) = n + 1
    BY KeptType, AppendProperties DEF TypeOK, Call
<1>3. calls' = [calls EXCEPT ![c] = q] /\ admitted' = [admitted EXCEPT ![c] = Append(admitted[c], r)]
    BY DEF Admit
<1>4. r \in Admission /\ admitted[c] \in Seq(Admission)
    BY <1>1 DEF TypeOK, Call, Admission
<1> HIDE DEF c, n, q, r
<1>5. Taken' = [Taken EXCEPT ![c] = n + 1]
    BY <1>1, <1>2, <1>3, TakenChange
<1>6. Len(Append(admitted[c], r)) = Len(admitted[c]) + 1
    BY <1>4, AppendProperties
<1>7. Granted' = [Granted EXCEPT ![c] = @ + 1]
    BY <1>1, <1>3, <1>6 DEF Granted, TypeOK
<1>8. Abstract!Grant(c)
    BY <1>1, <1>5, <1>7 DEF Abstract!Grant, Taken, Granted
<1> QED BY <1>8 DEF c

LEMMA DenyExpires ==
    ASSUME TypeOK, NEW w \in waiting, Deny(w)
    PROVE  Abstract!Expire(w.cap)
<1>1. w.cap \in Caps /\ Len(Kept(w)) \in 0..Taken[w.cap]
    BY KeptShorter DEF Taken
<1>2. calls' = [calls EXCEPT ![w.cap] = Kept(w)] /\ Kept(w) \in Seq(Nat) /\ admitted' = admitted
    BY KeptType DEF Deny
<1>3. Taken' = [Taken EXCEPT ![w.cap] = Len(Kept(w))]
    BY <1>1, <1>2, TakenChange
<1>4. Granted' = Granted
    BY <1>2 DEF Granted
<1> QED BY <1>1, <1>3, <1>4 DEF Abstract!Expire, Taken, Granted

(* With any clock, any delay of the mutex and any order of the stamps, the   *)
(* limiter hands out the places of a Quota (rate_limit.rs:17-31).            *)
THEOREM LimiterIsQuota == Spec => ImplementsQuota
<1>1. Init => Abstract!Init
    BY DEF Init, Abstract!Init
<1>2. ASSUME TypeOK, [Next]_vars PROVE [Abstract!Next]_(Abstract!vars)
    <2>1. ASSUME NEW w \in waiting, Admit(w) PROVE Abstract!Next
        BY <1>2, <2>1, AdmitGrants, KeptShorter DEF Abstract!Next
    <2>2. ASSUME NEW w \in waiting, Deny(w) PROVE Abstract!Next
        BY <1>2, <2>2, DenyExpires, KeptShorter DEF Abstract!Next
    <2>3. CASE Restart
        <3>1. Taken' = [c \in Caps |-> 0] /\ Granted' = Granted
            BY <2>3 DEF Restart, Taken, Granted
        <3> QED BY <3>1 DEF Abstract!Next, Abstract!Restart, Taken, Granted
    <2>4. CASE calls' = calls /\ admitted' = admitted
        BY <2>4 DEF Abstract!vars
    <2> QED BY <1>2, <2>1, <2>2, <2>3, <2>4 DEF Next, Enter, Tick, vars
<1>3. TypeOK /\ [Next]_vars => [Abstract!Next]_(Abstract!vars)
    BY <1>2
<1> QED BY <1>1, <1>3, TypeCorrect, PTL DEF Spec, ImplementsQuota, Abstract!Spec
=============================================================================

---------------------------- MODULE HttpTextProofs ----------------------------
(***************************************************************************)
(* Theorems about the texts of an HTTP call. ResponseText: what redaction  *)
(* leaves in a body, whatever the secrets and the body are, and what the   *)
(* caller gets of it. PathRules: where a request that is let through       *)
(* leads, whatever path the caller names and whatever the rules are.       *)
(***************************************************************************)
EXTENDS ResponseText, PathRules, SequenceTheorems, WellFoundedInduction, TLAPS

Text == Seq(Chars)

-----------------------------------------------------------------------------
\* Induction, upward over the naturals and downward from a bound, for sets.
LEMMA LeastMember ==
    ASSUME NEW S \in SUBSET Nat, S # {}
    PROVE  \E i \in S : \A j \in S : i <= j
<1> DEFINE R == OpToRel(<, Nat)
<1>1. IsWellFoundedOn(R, Nat)
  BY NatLessThanWellFounded
<1>2. \A j, k \in Nat : j < k => <<j, k>> \in R
  BY DEF OpToRel
<1> HIDE DEF R
<1>3. \E i \in S : \A j \in S : ~ (<<j, i>> \in R)
  BY <1>1, WFMin
<1>4. PICK i \in S : \A j \in S : ~ (<<j, i>> \in R)
  BY <1>3
<1>5. ASSUME NEW j \in S PROVE i <= j
  <2>1. ~ (j < i)
    BY <1>2, <1>4
  <2> QED
    BY <2>1
<1> QED
  BY <1>5

LEMMA Upward ==
    ASSUME NEW T, 0 \in T, \A k \in Nat : k \in T => k + 1 \in T
    PROVE  \A k \in Nat : k \in T
<1> SUFFICES ASSUME NEW k \in Nat, k \notin T PROVE FALSE
  OBVIOUS
<1> DEFINE S == {i \in Nat : i \notin T}
<1>1. PICK i \in S : \A j \in S : i <= j
  <2>1. S \in SUBSET Nat /\ k \in S
    OBVIOUS
  <2> HIDE DEF S
  <2> QED
    BY <2>1, LeastMember
<1>2. i \in Nat /\ i # 0
  OBVIOUS
<1>3. i - 1 \in Nat /\ (i - 1) + 1 = i /\ ~(i <= i - 1)
  BY <1>2
<1>4. i - 1 \in T
  BY <1>1, <1>3
<1> QED
  BY <1>3, <1>4

LEMMA Downward ==
    ASSUME NEW N \in Nat, NEW T,
           \A i \in 1..N : (\A j \in 1..N : i < j => j \in T) => i \in T
    PROVE  \A i \in 1..N : i \in T
<1> DEFINE U == {k \in Nat : \A i \in 1..N : N - k < i => i \in T}
<1>1. 0 \in U
  OBVIOUS
<1>2. ASSUME NEW k \in Nat, k \in U PROVE k + 1 \in U
  <2> SUFFICES ASSUME NEW i \in 1..N, N - (k + 1) < i PROVE i \in T
    OBVIOUS
  <2>1. \A j \in 1..N : i < j => N - k < j
    OBVIOUS
  <2>2. \A j \in 1..N : i < j => j \in T
    BY <1>2, <2>1
  <2> QED
    BY <2>2
<1>3. N \in U
  <2> HIDE DEF U
  <2> QED
    BY <1>1, <1>2, Upward
<1> QED
  BY <1>3

-----------------------------------------------------------------------------
\* Texts, the marker and the secrets.
LEMMA Texts ==
    ASSUME NEW t \in Text
    PROVE  /\ Len(t) \in Nat /\ DOMAIN t = 1..Len(t)
           /\ \A i \in 1..Len(t) : t[i] \in Chars /\ <<t[i]>> \in Text
           /\ t # <<>> => Len(t) > 0
BY LenProperties, EmptySeq DEF Text

LEMMA Joined ==
    ASSUME NEW t \in Text, NEW u \in Text
    PROVE  /\ t \o u \in Text /\ Len(t \o u) = Len(t) + Len(u)
           /\ \A i \in 1..Len(t) : (t \o u)[i] = t[i]
           /\ \A j \in 1..Len(u) : (t \o u)[Len(t) + j] = u[j]
<1>1. /\ t \o u \in Text /\ Len(t \o u) = Len(t) + Len(u)
      /\ \A i \in 1..(Len(t) + Len(u)) : (t \o u)[i] = IF i <= Len(t) THEN t[i] ELSE u[i - Len(t)]
  BY ConcatProperties DEF Text
<1>2. Len(t) \in Nat /\ Len(u) \in Nat
  BY Texts
<1>3. ASSUME NEW i \in 1..Len(t) PROVE (t \o u)[i] = t[i]
  BY <1>1, <1>2
<1>4. ASSUME NEW j \in 1..Len(u) PROVE (t \o u)[Len(t) + j] = u[j]
  <2>1. /\ Len(t) + j \in 1..(Len(t) + Len(u)) /\ ~(Len(t) + j <= Len(t))
        /\ (Len(t) + j) - Len(t) = j
    BY <1>2
  <2> QED
    BY <1>1, <2>1
<1> QED
  BY <1>1, <1>3, <1>4

LEMMA MarkerText == Marker \in Text /\ Len(Marker) \in Nat \ {0}
BY ResponseTextAssumption, Texts DEF Text

\* A secret, as the assumption has it.
Secret(y) == y \in Text /\ y # <<>> /\ Apart(y)

LEMMA SecretsApart == \A n \in 1..Len(Secrets) : Secret(Secrets[n])
<1>1. DOMAIN Secrets = 1..Len(Secrets) /\ \A n \in 1..Len(Secrets) : Secrets[n] \in Text
  BY ResponseTextAssumption, LenProperties, ElementOfSeq DEF Text
<1> QED
  BY <1>1, ResponseTextAssumption DEF Secret

\* An occurrence, character by character.
LEMMA OccursMeans ==
    ASSUME NEW t \in Text, NEW y \in Text, NEW p \in Nat \ {0}
    PROVE  OccursAt(t, y, p) <=>
              /\ p + Len(y) - 1 <= Len(t)
              /\ \A j \in 1..Len(y) : t[p + j - 1] = y[j]
<1> DEFINE q == p + Len(y) - 1
           u == SubSeq(t, p, q)
<1>1. Len(t) \in Nat /\ Len(y) \in Nat
  BY Texts
<1>2. SUFFICES ASSUME q <= Len(t)
               PROVE  u = y <=> \A j \in 1..Len(y) : t[p + j - 1] = y[j]
  BY DEF OccursAt
<1>4. q \in Int
  BY <1>1
<1>3. ASSUME NEW i \in p..q PROVE t[i] \in Chars
  <2>1. i \in 1..Len(t)
    BY <1>1, <1>2, <1>4
  <2> QED
    BY <2>1, Texts
<1>5. /\ u \in Text /\ Len(u) = (IF p <= q THEN q - p + 1 ELSE 0)
      /\ \A i \in 1..(q - p + 1) : u[i] = t[p + i - 1]
  BY <1>3, <1>4, SubSeqProperties DEF Text
<1>6. q - p + 1 = Len(y) /\ (IF p <= q THEN q - p + 1 ELSE 0) = Len(y)
  BY <1>1
<1>7. Len(u) = Len(y) /\ \A i \in 1..Len(y) : u[i] = t[p + i - 1]
  BY <1>5, <1>6
<1> HIDE DEF u, q
<1>8. ASSUME \A j \in 1..Len(y) : t[p + j - 1] = y[j] PROVE u = y
  BY <1>5, <1>7, <1>8, SeqEqual DEF Text
<1> QED
  BY <1>7, <1>8

-----------------------------------------------------------------------------
\* What the scan of str::replace makes of text t from position i on, given what it
\* makes of the later positions.
Made(f, t, s, i) ==
    IF i > Len(t) THEN <<>>
    ELSE IF OccursAt(t, s, i) THEN Marker \o f[i + Len(s)]
    ELSE <<t[i]>> \o f[i + 1]

LEMMA MadeOfLater ==
    ASSUME NEW t \in Text, NEW s \in Text, s # <<>>, NEW f, NEW g, NEW i \in 1..(Len(t) + Len(s)),
           \A j \in 1..(Len(t) + Len(s)) : i < j => f[j] = g[j]
    PROVE  Made(f, t, s, i) = Made(g, t, s, i)
<1>1. Len(t) \in Nat /\ Len(s) \in Nat \ {0}
  BY Texts
<1>2. CASE i > Len(t)
  BY <1>2 DEF Made
<1>3. CASE ~(i > Len(t))
  <2>1. /\ i + Len(s) \in 1..(Len(t) + Len(s)) /\ i < i + Len(s)
        /\ i + 1 \in 1..(Len(t) + Len(s)) /\ i < i + 1
    BY <1>1, <1>3
  <2>2. f[i + Len(s)] = g[i + Len(s)] /\ f[i + 1] = g[i + 1]
    BY <2>1
  <2> QED
    BY <2>2 DEF Made
<1> QED
  BY <1>2, <1>3

\* The recursion of Scan has a solution, built from the end of the text.
LEMMA ScanExists ==
    ASSUME NEW t \in Text, NEW s \in Text, s # <<>>
    PROVE  \E f : f = [i \in 1..(Len(t) + Len(s)) |-> Made(f, t, s, i)]
<1> DEFINE N == Len(t) + Len(s)
           T == {k \in Nat : k <= N => \E f : \A i \in 1..N : N - k < i => f[i] = Made(f, t, s, i)}
<1>1. N \in Nat /\ Len(t) \in Nat /\ Len(s) \in Nat
  BY Texts
<1>2. 0 \in T
  BY <1>1
<1>3. ASSUME NEW k \in Nat, k \in T PROVE k + 1 \in T
  <2> HIDE DEF N
  <2> SUFFICES ASSUME k + 1 <= N
               PROVE  \E f : \A i \in 1..N : N - (k + 1) < i => f[i] = Made(f, t, s, i)
    OBVIOUS
  <2>1. k <= N
    BY <1>1
  <2>2. PICK f : \A i \in 1..N : N - k < i => f[i] = Made(f, t, s, i)
    BY <1>3, <2>1
  <2> DEFINE h == N - k
             g == [i \in 1..N |-> IF i = h THEN Made(f, t, s, h) ELSE f[i]]
  <2>3. h \in 1..N
    BY <1>1
  <2>4. g[h] = Made(f, t, s, h) /\ \A j \in 1..N : h < j => g[j] = f[j]
    BY <2>3
  <2>5. \A i \in 1..N : N - (k + 1) < i => i = h \/ h < i
    BY <1>1
  <2>6. \A i \in 1..N : h < i => f[i] = Made(f, t, s, i)
    BY <2>2
  <2> HIDE DEF g, h
  <2>7. \A i \in 1..N : i = h \/ h < i => Made(g, t, s, i) = Made(f, t, s, i)
    <3> SUFFICES ASSUME NEW i \in 1..N, i = h \/ h < i
                 PROVE  Made(g, t, s, i) = Made(f, t, s, i)
      OBVIOUS
    <3>1. \A j \in 1..N : i < j => g[j] = f[j]
      BY <1>1, <2>3, <2>4
    <3> QED
      BY <3>1, MadeOfLater DEF N
  <2>8. \A i \in 1..N : i = h \/ h < i => g[i] = Made(g, t, s, i)
    BY <2>3, <2>4, <2>6, <2>7
  <2> QED
    BY <2>5, <2>8
<1>4. N \in T
  <2> HIDE DEF T, N
  <2> QED
    BY <1>1, <1>2, <1>3, Upward
<1>5. PICK f : \A i \in 1..N : N - N < i => f[i] = Made(f, t, s, i)
  <2> HIDE DEF N
  <2> QED
    BY <1>1, <1>4
<1> DEFINE g == [i \in 1..N |-> f[i]]
<1>6. \A i \in 1..N : f[i] = Made(f, t, s, i)
  <2> HIDE DEF N
  <2>1. \A i \in 1..N : N - N < i
    BY <1>1
  <2> QED
    BY <1>5, <2>1
<1>7. \A i \in 1..N : Made(g, t, s, i) = Made(f, t, s, i)
  <2>1. \A j \in 1..N : g[j] = f[j]
    OBVIOUS
  <2> HIDE DEF g
  <2> QED
    BY <2>1, MadeOfLater
<1>8. g = [i \in 1..N |-> Made(g, t, s, i)]
  <2>1. \A i \in 1..N : f[i] = Made(g, t, s, i)
    BY <1>6, <1>7
  <2> DEFINE M(i) == Made(g, t, s, i)
  <2> HIDE DEF M
  <2>2. \A i \in 1..N : f[i] = M(i)
    BY <2>1 DEF M
  <2>3. g = [i \in 1..N |-> M(i)]
    BY <2>2
  <2> QED
    BY <2>3 DEF M
<1> QED
  BY <1>8

LEMMA ScanIs ==
    ASSUME NEW t \in Text, NEW s \in Text, s # <<>>, NEW i \in 1..(Len(t) + Len(s))
    PROVE  Scan(t, s)[i] = Made(Scan(t, s), t, s, i)
<1> DEFINE G == Scan(t, s)
<1>1. G = CHOOSE f : f = [j \in 1..(Len(t) + Len(s)) |-> Made(f, t, s, j)]
  BY DEF Scan, Made
<1>2. G = [j \in 1..(Len(t) + Len(s)) |-> Made(G, t, s, j)]
  <2> HIDE DEF G
  <2> QED
    BY <1>1, ScanExists
<1> HIDE DEF G
<1>3. G[i] = Made(G, t, s, i)
  BY <1>2
<1> QED
  BY <1>3 DEF G

\* The three cases of the scan, and the texts that it makes.
LEMMA ScanEnds ==
    ASSUME NEW t \in Text, NEW s \in Text, s # <<>>,
           NEW i \in 1..(Len(t) + Len(s)), i > Len(t)
    PROVE  Scan(t, s)[i] = <<>>
BY ScanIs DEF Made

LEMMA ScanReplaces ==
    ASSUME NEW t \in Text, NEW s \in Text, s # <<>>, NEW i \in 1..Len(t), OccursAt(t, s, i)
    PROVE  /\ Scan(t, s)[i] = Marker \o Scan(t, s)[i + Len(s)]
           /\ i + Len(s) \in 1..(Len(t) + 1)
<1>1. Len(t) \in Nat /\ Len(s) \in Nat \ {0}
  BY Texts
<1>2. i \in 1..(Len(t) + Len(s)) /\ ~(i > Len(t))
  BY <1>1
<1>3. i + Len(s) - 1 <= Len(t)
  BY DEF OccursAt
<1>4. i + Len(s) \in 1..(Len(t) + 1)
  BY <1>1, <1>3
<1>5. Scan(t, s)[i] = Made(Scan(t, s), t, s, i)
  BY <1>2, ScanIs
<1> QED
  BY <1>2, <1>4, <1>5 DEF Made

LEMMA ScanCopies ==
    ASSUME NEW t \in Text, NEW s \in Text, s # <<>>, NEW i \in 1..Len(t), ~OccursAt(t, s, i)
    PROVE  /\ Scan(t, s)[i] = <<t[i]>> \o Scan(t, s)[i + 1]
           /\ i + 1 \in 1..(Len(t) + 1)
<1>1. Len(t) \in Nat /\ Len(s) \in Nat \ {0}
  BY Texts
<1>2. i \in 1..(Len(t) + Len(s)) /\ ~(i > Len(t)) /\ i + 1 \in 1..(Len(t) + 1)
  BY <1>1
<1>3. Scan(t, s)[i] = Made(Scan(t, s), t, s, i)
  BY <1>2, ScanIs
<1> QED
  BY <1>2, <1>3 DEF Made

LEMMA Places ==
    ASSUME NEW t \in Text, NEW s \in Text, s # <<>>
    PROVE  /\ \A i \in 1..(Len(t) + 1) : i \in 1..(Len(t) + Len(s))
           /\ 1 \in 1..(Len(t) + 1)
           /\ \A i \in 1..(Len(t) + 1) : i \in 1..Len(t) \/ i = Len(t) + 1
           /\ Len(t) + 1 > Len(t)
<1>1. Len(t) \in Nat /\ Len(s) \in Nat \ {0}
  BY Texts
<1> QED
  BY <1>1

LEMMA ScanText ==
    ASSUME NEW t \in Text, NEW s \in Text, s # <<>>
    PROVE  \A i \in 1..(Len(t) + 1) : Scan(t, s)[i] \in Text
<1> DEFINE N == Len(t) + 1
           T == {i \in 1..N : Scan(t, s)[i] \in Text}
<1>1. N \in Nat
  BY Texts
<1>2. ASSUME NEW i \in 1..N, \A j \in 1..N : i < j => j \in T PROVE i \in T
  <2>0. SUFFICES Scan(t, s)[i] \in Text
    OBVIOUS
  <2>1. CASE i = Len(t) + 1
    <3>1. i \in 1..(Len(t) + Len(s)) /\ i > Len(t)
      BY <2>1, Places
    <3> QED
      BY <3>1, ScanEnds, EmptySeq DEF Text
  <2>2. CASE i \in 1..Len(t) /\ OccursAt(t, s, i)
    <3>1. Scan(t, s)[i] = Marker \o Scan(t, s)[i + Len(s)] /\ i + Len(s) \in 1..N
      BY <2>2, ScanReplaces
    <3>2. i < i + Len(s)
      BY Texts
    <3> QED
      BY <1>2, <3>1, <3>2, MarkerText, Joined
  <2>3. CASE i \in 1..Len(t) /\ ~OccursAt(t, s, i)
    <3>1. Scan(t, s)[i] = <<t[i]>> \o Scan(t, s)[i + 1] /\ i + 1 \in 1..N
      BY <2>3, ScanCopies
    <3>2. i < i + 1 /\ <<t[i]>> \in Text
      BY <2>3, Texts
    <3> QED
      BY <1>2, <3>1, <3>2, Joined
  <2> QED
    BY <2>1, <2>2, <2>3, Places
<1> HIDE DEF T, N
<1>3. \A i \in 1..N : i \in T
  BY <1>1, <1>2, Downward
<1> QED
  BY <1>3 DEF T, N

LEMMA ReplaceText ==
    ASSUME NEW t \in Text, NEW s \in Text, s # <<>>
    PROVE  Replace(t, s) \in Text
BY ScanText, Places DEF Replace

-----------------------------------------------------------------------------
\* A secret at the beginning of what the scan leaves is one of the text, and the
\* scan goes on behind it.
LEMMA SecretOfText ==
    ASSUME NEW t \in Text, NEW s \in Text, s # <<>>, NEW i \in 1..(Len(t) + 1),
           NEW y, Secret(y), OccursAt(Scan(t, s)[i], y, 1)
    PROVE  /\ OccursAt(t, y, i)
           /\ i + Len(y) \in 1..(Len(t) + 1)
           /\ Len(Scan(t, s)[i]) = Len(y) + Len(Scan(t, s)[i + Len(y)])
<1> DEFINE F(p) == Scan(t, s)[p]
           u == F(i)
           Copied(l) == /\ i + l \in 1..(Len(t) + 1)
                        /\ \A j \in 1..l : t[i + j - 1] = y[j]
                        /\ Len(u) = l + Len(F(i + l))
                        /\ \A j \in 1..Len(F(i + l)) : F(i + l)[j] = u[l + j]
           T == {l \in Nat : l <= Len(y) => Copied(l)}
<1>0. y \in Text /\ \A j \in 1..Len(y) : y[j] # Marker[1]
  BY Texts DEF Secret, Apart
<1>1. Len(t) \in Nat /\ Len(y) \in Nat /\ u \in Text /\ Len(u) \in Nat
  BY <1>0, Texts, ScanText
<1>2. Len(y) <= Len(u) /\ \A j \in 1..Len(y) : u[j] = y[j]
  <2>1. 1 + Len(y) - 1 <= Len(u) /\ \A j \in 1..Len(y) : u[1 + j - 1] = y[j]
    BY <1>0, <1>1, OccursMeans
  <2>2. \A j \in 1..Len(y) : 1 + j - 1 = j
    OBVIOUS
  <2> HIDE DEF u
  <2> QED
    BY <1>1, <2>1, <2>2
<1>3. 0 \in T
  <2>1. i + 0 = i /\ \A j \in 1..Len(u) : 0 + j = j
    OBVIOUS
  <2>2. F(i + 0) = u
    BY <2>1
  <2> HIDE DEF u, F
  <2> QED
    BY <1>1, <2>1, <2>2
<1>4. ASSUME NEW l \in Nat, l \in T PROVE l + 1 \in T
  <2> HIDE DEF Copied
  <2> SUFFICES ASSUME l + 1 <= Len(y) PROVE Copied(l + 1)
    OBVIOUS
  <2>1. l <= Len(y) /\ l + 1 \in 1..Len(y)
    BY <1>1
  <2>2. Copied(l)
    BY <1>4, <2>1
  <2> USE DEF Copied
  <2> DEFINE p == i + l
  <2>3. p \in 1..(Len(t) + 1) /\ F(p) \in Text /\ Len(F(p)) \in Nat
    BY <2>2, ScanText, Texts
  <2>4. Len(u) = l + Len(F(p)) /\ \A j \in 1..Len(F(p)) : F(p)[j] = u[l + j]
    BY <2>2
  <2>5. Len(F(p)) > 0
    <3> HIDE DEF u, F, p
    <3> QED
      BY <1>1, <1>2, <2>3, <2>4
  <2>6. F(p)[1] = y[l + 1] /\ y[l + 1] # Marker[1]
    <3>1. 1 \in 1..Len(F(p))
      BY <2>3, <2>5
    <3> QED
      BY <1>0, <1>2, <2>1, <2>4, <3>1
  <2>7. p \in 1..Len(t)
    <3>1. CASE p = Len(t) + 1
      <4>1. F(p) = <<>>
        BY <2>3, <3>1, Places, ScanEnds
      <4> QED
        BY <2>5, <4>1, EmptySeq
    <3> QED
      BY <2>3, <3>1, Places
  <2>8. ~OccursAt(t, s, p)
    <3> SUFFICES ASSUME OccursAt(t, s, p) PROVE FALSE
      OBVIOUS
    <3>1. F(p) = Marker \o F(p + Len(s)) /\ p + Len(s) \in 1..(Len(t) + 1)
      BY <2>7, ScanReplaces
    <3>2. 1 \in 1..Len(Marker)
      BY MarkerText
    <3>3. F(p)[1] = Marker[1]
      BY <3>1, <3>2, MarkerText, ScanText, Joined
    <3> QED
      BY <2>6, <3>3
  <2>9. F(p) = <<t[p]>> \o F(p + 1) /\ p + 1 \in 1..(Len(t) + 1)
    BY <2>7, <2>8, ScanCopies
  <2>10. <<t[p]>> \in Text /\ Len(<<t[p]>>) = 1 /\ <<t[p]>>[1] = t[p] /\ 1 \in 1..1
    BY <2>7, Texts
  <2>11. F(p + 1) \in Text /\ Len(F(p + 1)) \in Nat
    BY <2>9, ScanText, Texts
  <2>12. /\ Len(F(p)) = 1 + Len(F(p + 1)) /\ F(p)[1] = t[p]
         /\ \A j \in 1..Len(F(p + 1)) : F(p)[1 + j] = F(p + 1)[j]
    <3> HIDE DEF F, p
    <3>1. \A j \in 1..1 : F(p)[j] = <<t[p]>>[j]
      BY <2>9, <2>10, <2>11, Joined
    <3> QED
      BY <2>9, <2>10, <2>11, <3>1, Joined
  <2>13. i + (l + 1) = p + 1
    OBVIOUS
  <2>14. \A j \in 1..(l + 1) : t[i + j - 1] = y[j]
    <3>1. \A j \in 1..(l + 1) : j \in 1..l \/ j = l + 1
      OBVIOUS
    <3>2. i + (l + 1) - 1 = p
      OBVIOUS
    <3>3. t[p] = y[l + 1]
      BY <2>6, <2>12
    <3> QED
      BY <2>2, <3>1, <3>2, <3>3
  <2>15. Len(u) = (l + 1) + Len(F(p + 1))
    <3> HIDE DEF u, F, p
    <3> QED
      BY <2>4, <2>11, <2>12
  <2>16. \A j \in 1..Len(F(p + 1)) : F(p + 1)[j] = u[(l + 1) + j]
    <3> HIDE DEF u, F, p
    <3> SUFFICES ASSUME NEW j \in 1..Len(F(p + 1)) PROVE F(p + 1)[j] = u[(l + 1) + j]
      OBVIOUS
    <3>1. 1 + j \in 1..Len(F(p)) /\ l + (1 + j) = (l + 1) + j
      BY <2>11, <2>12
    <3> QED
      BY <2>4, <2>12, <3>1
  <2> HIDE DEF u, F, p
  <2> QED
    BY <2>9, <2>13, <2>14, <2>15, <2>16
<1>5. Len(y) \in T
  <2> HIDE DEF T
  <2> QED
    BY <1>1, <1>3, <1>4, Upward
<1>6. Copied(Len(y))
  <2> HIDE DEF Copied
  <2> QED
    BY <1>1, <1>5
<1>7. OccursAt(t, y, i)
  <2>1. i \in Nat \ {0} /\ i + Len(y) - 1 <= Len(t)
    BY <1>1, <1>6
  <2> QED
    BY <1>0, <1>6, <2>1, OccursMeans
<1> QED
  BY <1>6, <1>7

-----------------------------------------------------------------------------
\* Occurrences in two texts put together: behind the cut, and before it.
LEMMA OccursBehind ==
    ASSUME NEW t \in Text, NEW u \in Text, NEW y \in Text, NEW p \in Nat \ {0}
    PROVE  OccursAt(t \o u, y, Len(t) + p) <=> OccursAt(u, y, p)
<1>1. /\ t \o u \in Text /\ Len(t \o u) = Len(t) + Len(u)
      /\ \A j \in 1..Len(u) : (t \o u)[Len(t) + j] = u[j]
  BY Joined
<1>2. Len(t) \in Nat /\ Len(u) \in Nat /\ Len(y) \in Nat /\ Len(t) + p \in Nat \ {0}
  BY Texts
<1> DEFINE q == Len(t) + p
           v == t \o u
<1>3. q + Len(y) - 1 <= Len(v) <=> p + Len(y) - 1 <= Len(u)
  <2>1. Len(v) = Len(t) + Len(u)
    BY <1>1
  <2> HIDE DEF v
  <2> QED
    BY <1>2, <2>1
<1>4. ASSUME p + Len(y) - 1 <= Len(u), NEW j \in 1..Len(y)
      PROVE  v[q + j - 1] = u[p + j - 1]
  <2>1. p + j - 1 \in 1..Len(u) /\ q + j - 1 = Len(t) + (p + j - 1)
    BY <1>2, <1>4
  <2> HIDE DEF q, v
  <2> QED
    BY <1>1, <2>1 DEF v
<1>5. OccursAt(v, y, q) <=>
         q + Len(y) - 1 <= Len(v) /\ \A j \in 1..Len(y) : v[q + j - 1] = y[j]
  BY <1>1, <1>2, OccursMeans
<1>6. OccursAt(u, y, p) <=>
         p + Len(y) - 1 <= Len(u) /\ \A j \in 1..Len(y) : u[p + j - 1] = y[j]
  BY OccursMeans
<1> HIDE DEF q, v
<1>7. OccursAt(v, y, q) <=> OccursAt(u, y, p)
  BY <1>3, <1>4, <1>5, <1>6
<1> QED
  BY <1>7 DEF q, v

LEMMA OccursBefore ==
    ASSUME NEW t \in Text, NEW u \in Text, NEW y \in Text, NEW p \in Nat \ {0},
           p + Len(y) - 1 <= Len(t)
    PROVE  OccursAt(t \o u, y, p) <=> OccursAt(t, y, p)
<1> DEFINE v == t \o u
<1>1. /\ v \in Text /\ Len(v) = Len(t) + Len(u)
      /\ \A j \in 1..Len(t) : v[j] = t[j]
  BY Joined
<1>2. Len(t) \in Nat /\ Len(u) \in Nat /\ Len(y) \in Nat
  BY Texts
<1> HIDE DEF v
<1>3. p + Len(y) - 1 <= Len(v)
  BY <1>1, <1>2
<1>4. ASSUME NEW j \in 1..Len(y) PROVE v[p + j - 1] = t[p + j - 1]
  <2>1. p + j - 1 \in 1..Len(t)
    BY <1>2
  <2> QED
    BY <1>1, <2>1
<1>5. OccursAt(v, y, p) <=>
         p + Len(y) - 1 <= Len(v) /\ \A j \in 1..Len(y) : v[p + j - 1] = y[j]
  BY <1>1, OccursMeans
<1>6. OccursAt(t, y, p) <=>
         p + Len(y) - 1 <= Len(t) /\ \A j \in 1..Len(y) : t[p + j - 1] = y[j]
  BY OccursMeans
<1>7. OccursAt(v, y, p) <=> OccursAt(t, y, p)
  BY <1>3, <1>4, <1>5, <1>6
<1> QED
  BY <1>7 DEF v

\* A secret meets no marker.
LEMMA MarkerPassed ==
    ASSUME NEW u \in Text, NEW y, Secret(y), NEW p \in Nat \ {0}, OccursAt(Marker \o u, y, p)
    PROVE  p - Len(Marker) \in Nat \ {0} /\ OccursAt(u, y, p - Len(Marker))
<1> DEFINE m == Len(Marker)
           l == Len(y)
<1>1. y \in Text /\ Marker \in Text /\ m \in Nat \ {0} /\ l \in Nat \ {0} /\ DOMAIN y = 1..l
      /\ DOMAIN Marker = 1..m
  BY MarkerText, Texts DEF Secret
<1>2. /\ \A j \in 1..l : y[j] # Marker[m]
      /\ \A j \in 1..m : ~OccursAt(Marker, y, j)
  BY <1>1 DEF Secret, Apart
<1>3. /\ Marker \o u \in Text
      /\ \A j \in 1..m : (Marker \o u)[j] = Marker[j]
  BY <1>1, Joined
<1>4. \A j \in 1..l : (Marker \o u)[p + j - 1] = y[j]
  BY <1>1, <1>3, OccursMeans
<1>5. ~(p <= m)
  <2>1. SUFFICES ASSUME p <= m PROVE FALSE
    OBVIOUS
  <2>2. CASE p + l - 1 <= m
    <3>1. OccursAt(Marker, y, p)
      BY <1>1, <2>2, OccursBefore
    <3> QED
      BY <1>1, <1>2, <2>1, <3>1
  <2>3. CASE ~(p + l - 1 <= m)
    <3>1. m - p + 1 \in 1..l /\ p + (m - p + 1) - 1 = m /\ m \in 1..m
      BY <1>1, <2>1, <2>3
    <3>2. (Marker \o u)[m] = y[m - p + 1]
      BY <1>4, <3>1
    <3> QED
      BY <1>2, <1>3, <3>1, <3>2
  <2> QED
    BY <2>2, <2>3
<1>6. p - m \in Nat \ {0} /\ m + (p - m) = p
  <2>1. m \in Nat
    BY <1>1
  <2> HIDE DEF m
  <2> QED
    BY <1>5, <2>1
<1>7. OccursAt(u, y, p - m)
  <2>1. \A q \in Nat \ {0} : OccursAt(Marker \o u, y, m + q) <=> OccursAt(u, y, q)
    BY <1>1, OccursBehind
  <2> HIDE DEF m
  <2> QED
    BY <1>6, <2>1
<1> QED
  BY <1>6, <1>7

\* Behind a copied character.
LEMMA CopyPassed ==
    ASSUME NEW c, <<c>> \in Text, NEW u \in Text, NEW y \in Text, NEW p \in Nat \ {0}, p # 1
    PROVE  p - 1 \in Nat \ {0} /\ (OccursAt(<<c>> \o u, y, p) <=> OccursAt(u, y, p - 1))
<1> DEFINE t == <<c>>
           q == p - 1
<1>1. t \in Text /\ Len(t) = 1 /\ q \in Nat \ {0} /\ 1 + q = p
  OBVIOUS
<1> HIDE DEF t, q
<1>2. OccursAt(t \o u, y, Len(t) + q) <=> OccursAt(u, y, q)
  BY <1>1, OccursBehind
<1>3. OccursAt(t \o u, y, p) <=> OccursAt(u, y, q)
  BY <1>1, <1>2
<1> QED
  BY <1>1, <1>3 DEF t, q

-----------------------------------------------------------------------------
Absent(u, y) == \A p \in Nat \ {0} : ~OccursAt(u, y, p)

LEMMA EmptyText ==
    ASSUME NEW y \in Text, y # <<>>
    PROVE  <<>> \in Text /\ Len(<<>>) = 0 /\ Absent(<<>>, y)
<1>1. <<>> \in Text /\ Len(<<>>) = 0 /\ Len(y) \in Nat \ {0}
  BY EmptySeq, Texts DEF Text
<1>2. ASSUME NEW p \in Nat \ {0} PROVE ~(p + Len(y) - 1 <= Len(<<>>))
  BY <1>1
<1> QED
  BY <1>1, <1>2 DEF Absent, OccursAt

\* The scan for s makes no secret: what it leaves of one that occurs in the text
\* begins where s does not.
LEMMA NothingMade ==
    ASSUME NEW t \in Text, NEW s \in Text, s # <<>>, NEW y, Secret(y),
           \A i \in 1..Len(t) : OccursAt(t, y, i) => OccursAt(t, s, i)
    PROVE  Absent(Replace(t, s), y)
<1> DEFINE N == Len(t) + 1
           T == {i \in 1..N : Absent(Scan(t, s)[i], y)}
<1>1. N \in Nat
  BY Texts
<1>2. ASSUME NEW i \in 1..N, \A j \in 1..N : i < j => j \in T PROVE i \in T
  <2>0. SUFFICES Absent(Scan(t, s)[i], y)
    OBVIOUS
  <2>1. CASE i = Len(t) + 1
    <3>1. Scan(t, s)[i] = <<>>
      BY <2>1, Places, ScanEnds
    <3> QED
      BY <3>1, EmptyText DEF Secret
  <2>2. CASE i \in 1..Len(t) /\ OccursAt(t, s, i)
    <3>1. Scan(t, s)[i] = Marker \o Scan(t, s)[i + Len(s)] /\ i + Len(s) \in 1..N
      BY <2>2, ScanReplaces
    <3>2. i < i + Len(s)
      BY Texts
    <3>3. Absent(Scan(t, s)[i + Len(s)], y) /\ Scan(t, s)[i + Len(s)] \in Text
      BY <1>2, <3>1, <3>2, ScanText
    <3> QED
      BY <3>1, <3>3, MarkerPassed DEF Absent
  <2>3. CASE i \in 1..Len(t) /\ ~OccursAt(t, s, i)
    <3>1. Scan(t, s)[i] = <<t[i]>> \o Scan(t, s)[i + 1] /\ i + 1 \in 1..N
      BY <2>3, ScanCopies
    <3>2. i < i + 1 /\ <<t[i]>> \in Text
      BY <2>3, Texts
    <3>3. Absent(Scan(t, s)[i + 1], y) /\ Scan(t, s)[i + 1] \in Text
      BY <1>2, <3>1, <3>2, ScanText
    <3>4. ~OccursAt(Scan(t, s)[i], y, 1)
      <4>0. SUFFICES ASSUME OccursAt(Scan(t, s)[i], y, 1) PROVE FALSE
        OBVIOUS
      <4> QED
        BY <2>3, <4>0, SecretOfText
    <3>5. \A p \in Nat \ {0} : p # 1 => ~OccursAt(Scan(t, s)[i], y, p)
      BY <3>1, <3>2, <3>3, CopyPassed DEF Absent, Secret
    <3> QED
      BY <3>4, <3>5 DEF Absent
  <2> QED
    BY <2>1, <2>2, <2>3, Places
<1> HIDE DEF T, N
<1>3. \A i \in 1..N : i \in T
  BY <1>1, <1>2, Downward
<1> QED
  BY <1>3, Places DEF T, N, Replace

LEMMA SecretRemoved ==
    ASSUME NEW t \in Text, NEW s, Secret(s)
    PROVE  Absent(Replace(t, s), s)
BY NothingMade DEF Secret

LEMMA AbsentStays ==
    ASSUME NEW t \in Text, NEW s, Secret(s), NEW y, Secret(y), Absent(t, y)
    PROVE  Absent(Replace(t, s), y)
<1>1. \A i \in 1..Len(t) : ~OccursAt(t, y, i)
  BY Texts DEF Absent
<1> QED
  BY <1>1, NothingMade DEF Secret

-----------------------------------------------------------------------------
\* The loop of redact_text: its recursion has a solution.
LEMMA RedactionsExist ==
    ASSUME NEW t
    PROVE  \E f : f = [n \in 0..Len(Secrets) |-> IF n = 0 THEN t ELSE Replace(f[n - 1], Secrets[n])]
<1> DEFINE K == Len(Secrets)
           Next(f, n) == IF n = 0 THEN t ELSE Replace(f[n - 1], Secrets[n])
           T == {k \in Nat : k <= K => \E f : \A n \in 0..k : f[n] = Next(f, n)}
<1>1. K \in Nat
  BY ResponseTextAssumption, LenProperties
<1>2. 0 \in T
  <2>1. [n \in {0} |-> t][0] = t
    OBVIOUS
  <2>2. \A n \in 0..0 : n = 0
    OBVIOUS
  <2> QED
    BY <2>1, <2>2
<1>3. ASSUME NEW k \in Nat, k \in T PROVE k + 1 \in T
  <2> HIDE DEF K, Next
  <2> SUFFICES ASSUME k + 1 <= K PROVE \E f : \A n \in 0..(k + 1) : f[n] = Next(f, n)
    OBVIOUS
  <2>1. k <= K
    BY <1>1
  <2>2. PICK f : \A n \in 0..k : f[n] = Next(f, n)
    BY <1>3, <2>1
  <2> DEFINE g == [n \in 0..(k + 1) |-> IF n = k + 1 THEN Next(f, k + 1) ELSE f[n]]
  <2>3. g[k + 1] = Next(f, k + 1) /\ \A n \in 0..k : g[n] = f[n]
    OBVIOUS
  <2> HIDE DEF g
  <2>4. \A n \in 0..(k + 1) : Next(g, n) = Next(f, n)
    <3> SUFFICES ASSUME NEW n \in 0..(k + 1), n # 0 PROVE g[n - 1] = f[n - 1]
      BY DEF Next
    <3>1. n - 1 \in 0..k
      OBVIOUS
    <3> QED
      BY <2>3, <3>1
  <2>5. \A n \in 0..(k + 1) : n \in 0..k \/ n = k + 1
    OBVIOUS
  <2> QED
    BY <2>2, <2>3, <2>4, <2>5
<1>4. PICK f : \A n \in 0..K : f[n] = Next(f, n)
  <2>1. K \in T
    <3> HIDE DEF T, K
    <3> QED
      BY <1>1, <1>2, <1>3, Upward
  <2> HIDE DEF K, Next
  <2> QED
    BY <1>1, <2>1
<1> DEFINE g == [n \in 0..K |-> f[n]]
<1>5. \A n \in 0..K : f[n] = Next(g, n)
  <2> HIDE DEF K
  <2> SUFFICES ASSUME NEW n \in 0..K, n # 0 PROVE g[n - 1] = f[n - 1]
    BY <1>4
  <2>1. n - 1 \in 0..K
    BY <1>1
  <2> QED
    BY <2>1
<1> HIDE DEF Next
<1>6. g = [n \in 0..K |-> Next(g, n)]
  <2> DEFINE h == g
             M(n) == Next(h, n)
  <2>1. \A n \in 0..K : f[n] = M(n)
    BY <1>5
  <2> HIDE DEF h, M
  <2>2. g = [n \in 0..K |-> M(n)]
    BY <2>1
  <2> QED
    BY <2>2 DEF h, M
<1> QED
  BY <1>6 DEF Next

LEMMA Redacted ==
    ASSUME NEW t
    PROVE  /\ Redactions(t)[0] = t
           /\ \A n \in 1..Len(Secrets) :
                 Redactions(t)[n] = Replace(Redactions(t)[n - 1], Secrets[n])
<1> DEFINE G == Redactions(t)
           Next(f, n) == IF n = 0 THEN t ELSE Replace(f[n - 1], Secrets[n])
<1>0. Len(Secrets) \in Nat
  BY ResponseTextAssumption, LenProperties
<1>1. G = CHOOSE f : f = [n \in 0..Len(Secrets) |-> Next(f, n)]
  BY DEF Redactions
<1>2. G = [n \in 0..Len(Secrets) |-> Next(G, n)]
  <2> HIDE DEF G
  <2>1. \E f : f = [n \in 0..Len(Secrets) |-> Next(f, n)]
    BY RedactionsExist
  <2> QED
    BY <1>1, <2>1
<1> HIDE DEF G
<1>3. \A n \in 0..Len(Secrets) : G[n] = Next(G, n)
  <2> HIDE DEF Next
  <2> QED
    BY <1>2
<1>4. G[0] = t
  BY <1>0, <1>3
<1>5. ASSUME NEW n \in 1..Len(Secrets) PROVE G[n] = Replace(G[n - 1], Secrets[n])
  <2>1. n \in 0..Len(Secrets) /\ n # 0
    BY <1>0
  <2> QED
    BY <1>3, <2>1
<1> QED
  BY <1>4, <1>5 DEF G

\* After its first n rounds the text holds none of the first n secrets.
LEMMA RoundsClean ==
    ASSUME NEW t \in Text
    PROVE  \A n \in 0..Len(Secrets) :
              /\ Redactions(t)[n] \in Text
              /\ \A k \in 1..n : Absent(Redactions(t)[n], Secrets[k])
<1> DEFINE R == Redactions(t)
           Clean(n) == R[n] \in Text /\ \A k \in 1..n : Absent(R[n], Secrets[k])
           T == {n \in Nat : n <= Len(Secrets) => Clean(n)}
<1>0. Len(Secrets) \in Nat
  BY ResponseTextAssumption, LenProperties
<1>1. 0 \in T
  BY Redacted
<1>2. ASSUME NEW n \in Nat, n \in T PROVE n + 1 \in T
  <2> HIDE DEF Clean
  <2> SUFFICES ASSUME n + 1 <= Len(Secrets) PROVE Clean(n + 1)
    OBVIOUS
  <2>1. n <= Len(Secrets) /\ n + 1 \in 1..Len(Secrets) /\ (n + 1) - 1 = n
    BY <1>0
  <2>2. Clean(n)
    BY <1>2, <2>1
  <2>3. R[n + 1] = Replace(R[n], Secrets[n + 1])
    BY <2>1, Redacted
  <2>4. R[n] \in Text /\ Secret(Secrets[n + 1])
    BY <2>1, <2>2, SecretsApart DEF Clean
  <2>5. R[n + 1] \in Text
    BY <2>3, <2>4, ReplaceText DEF Secret
  <2>6. ASSUME NEW k \in 1..(n + 1) PROVE Absent(R[n + 1], Secrets[k])
    <3>1. CASE k = n + 1
      BY <2>3, <2>4, <3>1, SecretRemoved
    <3>2. CASE k \in 1..n
      <4>1. k \in 1..Len(Secrets)
        BY <1>0, <2>1, <3>2
      <4>2. Secret(Secrets[k]) /\ Absent(R[n], Secrets[k])
        BY <2>2, <3>2, <4>1, SecretsApart DEF Clean
      <4> QED
        BY <2>3, <2>4, <4>2, AbsentStays
    <3> QED
      BY <3>1, <3>2
  <2> QED
    BY <2>5, <2>6 DEF Clean
<1>3. \A n \in Nat : n \in T
  <2> HIDE DEF T
  <2> QED
    BY <1>1, <1>2, Upward
<1>4. ASSUME NEW n \in 0..Len(Secrets) PROVE Clean(n)
  <2> HIDE DEF Clean
  <2> QED
    BY <1>0, <1>3
<1> QED
  BY <1>4

\* redact_text leaves no secret of the list, whatever the text (redact.rs:5-14).
THEOREM RedactTextClean ==
    ASSUME NEW t \in Text
    PROVE  /\ RedactText(t) \in Text
           /\ \A n \in 1..Len(Secrets) : Absent(RedactText(t), Secrets[n])
<1>1. Len(Secrets) \in 0..Len(Secrets)
  BY ResponseTextAssumption, LenProperties
<1> QED
  BY <1>1, RoundsClean DEF RedactText

-----------------------------------------------------------------------------
LEMMA OverlapBounds ==
    Overlap \in Nat /\ \A n \in 1..Len(Secrets) : Len(Secrets[n]) <= Overlap
<1> DEFINE K == Len(Secrets)
           L(n) == Len(Secrets[n])
           T == {k \in Nat : k + 1 <= K => \E m \in 1..(k + 1) : \A n \in 1..(k + 1) : L(n) <= L(m)}
           S == {L(n) : n \in 1..K}
<1>1. K \in Nat \ {0} /\ DOMAIN Secrets = 1..K
  BY ResponseTextAssumption, LenProperties, EmptySeq
<1>2. \A n \in 1..K : L(n) \in Nat
  BY SecretsApart, Texts DEF Secret
<1> HIDE DEF K, L
<1>3. 0 \in T
  <2>1. \A n \in 1..(0 + 1) : n = 1
    OBVIOUS
  <2>2. 1 <= K => L(1) <= L(1)
    BY <1>1, <1>2
  <2> QED
    BY <2>1, <2>2
<1>4. ASSUME NEW k \in Nat, k \in T PROVE k + 1 \in T
  <2> SUFFICES ASSUME k + 2 <= K
               PROVE  \E m \in 1..(k + 2) : \A n \in 1..(k + 2) : L(n) <= L(m)
    OBVIOUS
  <2>1. k + 1 <= K
    BY <1>1
  <2>2. PICK m \in 1..(k + 1) : \A n \in 1..(k + 1) : L(n) <= L(m)
    BY <1>4, <2>1
  <2>3. /\ \A n \in 1..(k + 2) : n \in 1..(k + 1) \/ n = k + 2
        /\ \A n \in 1..(k + 2) : n \in 1..K
        /\ m \in 1..(k + 2) /\ k + 2 \in 1..(k + 2)
    BY <1>1
  <2>4. L(m) \in Nat /\ L(k + 2) \in Nat /\ \A n \in 1..(k + 2) : L(n) \in Nat
    BY <1>2, <2>3
  <2>5. CASE L(k + 2) <= L(m)
    BY <2>2, <2>3, <2>5
  <2>6. CASE ~(L(k + 2) <= L(m))
    <3>1. \A n \in 1..(k + 2) : L(n) <= L(k + 2)
      BY <2>2, <2>3, <2>4, <2>6
    <3> QED
      BY <2>3, <3>1
  <2> QED
    BY <2>5, <2>6
<1>5. \E m \in 1..K : \A n \in 1..K : L(n) <= L(m)
  <2>1. K - 1 \in Nat /\ (K - 1) + 1 = K /\ K <= K
    BY <1>1
  <2>2. K - 1 \in T
    <3> HIDE DEF T
    <3> QED
      BY <1>3, <1>4, <2>1, Upward
  <2> QED
    BY <2>1, <2>2
<1>6. \E x \in S : \A y \in S : x >= y
  BY <1>1, <1>2, <1>5
<1>7. Overlap = CHOOSE x \in S : \A y \in S : x >= y
  BY <1>1 DEF Overlap, Max, L
<1> QED
  <2> DEFINE o == Overlap
  <2>1. o \in S /\ \A y \in S : o >= y
    <3> HIDE DEF S
    <3> QED
      BY <1>6, <1>7
  <2>2. S \in SUBSET Nat /\ \A n \in 1..K : L(n) \in S
    BY <1>2
  <2> HIDE DEF S, o
  <2>3. o \in Nat /\ \A n \in 1..K : L(n) <= o
    BY <1>2, <2>1, <2>2
  <2> QED
    BY <2>3 DEF o, K, L

-----------------------------------------------------------------------------
\* A text up to a place, and beyond it.
Upto(t, k) == SubSeq(t, 1, k)
Beyond(t, k) == SubSeq(t, k + 1, Len(t))

LEMMA Pieces ==
    ASSUME NEW t \in Text, NEW k \in 0..Len(t)
    PROVE  /\ Upto(t, k) \in Text /\ Len(Upto(t, k)) = k
           /\ Beyond(t, k) \in Text /\ Len(Beyond(t, k)) = Len(t) - k
           /\ Upto(t, k) \o Beyond(t, k) = t
           /\ Upto(t, Len(t)) = t
<1>1. Len(t) \in Nat /\ \A i \in 1..Len(t) : t[i] \in Chars
  BY Texts
<1>2. /\ \A i \in 1..k : t[i] \in Chars
      /\ \A i \in (k + 1)..Len(t) : t[i] \in Chars
      /\ k \in Int /\ k + 1 \in Int /\ Len(t) \in Int
      /\ 1 \in 1..(Len(t) + 1) /\ k \in (1 - 1)..Len(t) /\ Len(t) \in k..Len(t)
  BY <1>1
<1>3. Upto(t, k) \in Text /\ Len(Upto(t, k)) = (IF 1 <= k THEN k - 1 + 1 ELSE 0)
  BY <1>2, SubSeqProperties DEF Text, Upto
<1>4. /\ Beyond(t, k) \in Text
      /\ Len(Beyond(t, k)) = (IF k + 1 <= Len(t) THEN Len(t) - (k + 1) + 1 ELSE 0)
  BY <1>2, SubSeqProperties DEF Text, Beyond
<1>5. /\ (IF 1 <= k THEN k - 1 + 1 ELSE 0) = k
      /\ (IF k + 1 <= Len(t) THEN Len(t) - (k + 1) + 1 ELSE 0) = Len(t) - k
  BY <1>1
<1>6. Upto(t, Len(t)) = t
  BY SubSeqFull DEF Text, Upto
<1>7. Upto(t, k) \o Beyond(t, k) = Upto(t, Len(t))
  BY <1>2, ConcatAdjacentSubSeq DEF Text, Upto, Beyond
<1>8. Upto(t, k) \o Beyond(t, k) = t
  BY <1>6, <1>7
<1>9. Len(Upto(t, k)) = k /\ Len(Beyond(t, k)) = Len(t) - k
  BY <1>3, <1>4, <1>5
<1> QED
  BY <1>3, <1>4, <1>6, <1>8, <1>9

LEMMA PiecesMeet ==
    ASSUME NEW t \in Text, NEW k \in 0..Len(t), NEW n \in k..Len(t)
    PROVE  Upto(t, k) \o SubSeq(t, k + 1, n) = Upto(t, n)
<1>1. 1 \in 1..(Len(t) + 1) /\ k \in (1 - 1)..Len(t)
  BY Texts
<1> QED
  BY <1>1, ConcatAdjacentSubSeq DEF Text, Upto

LEMMA NothingRead ==
    ASSUME NEW t \in Text
    PROVE  Upto(t, 0) = <<>>
<1>1. Len(t) \in Nat /\ 0 \in 0..Len(t)
  BY Texts
<1>2. Upto(t, 0) \in Text /\ Len(Upto(t, 0)) = 0
  BY <1>1, Pieces
<1> QED
  BY <1>2, EmptySeq DEF Text

-----------------------------------------------------------------------------
\* The first k characters of the body, redacted.
RedactedTo(k) == RedactText(Upto(body, k))

\* While it reads, bytes holds the beginning of the body; then the loop has ended at
\* the end of the body or at the limit of reading.
TextTypes ==
    /\ body \in Text /\ visible \in Nat \ {0} /\ fetched \in 0..Len(body)
    /\ textDone \in BOOLEAN /\ truncated \in BOOLEAN

Reading == bytes = Upto(body, fetched) /\ fetched <= ReadLimit /\ shown = <<>>

AllRead == /\ shown = Truncate(RedactedTo(Len(body)))
           /\ truncated <=> Len(RedactedTo(Len(body))) > visible

ReadToLimit == ReadLimit < Len(body) /\ shown = Truncate(RedactedTo(ReadLimit)) /\ truncated

TextInv ==
    /\ TextTypes
    /\ ~textDone => Reading
    /\ textDone => AllRead \/ ReadToLimit

LEMMA BodiesAreTexts == BoundedSeq(BodyChars, MaxBodyLength) \subseteq Text
<1> SUFFICES ASSUME NEW m \in 0..MaxBodyLength, NEW b \in [1..m -> BodyChars]
             PROVE  b \in Text
  BY DEF BoundedSeq, SeqOf
<1>1. m \in Nat /\ BodyChars \subseteq Chars
  BY ResponseTextAssumption DEF Chars
<1>2. b \in Seq(BodyChars)
  BY <1>1
<1> QED
  BY <1>1, <1>2, SeqMonotonic DEF Text

LEMMA Limits ==
    ASSUME TextTypes
    PROVE  Len(body) \in Nat /\ ReadLimit \in Nat /\ Overlap \in Nat
<1>1. Len(body) \in Nat /\ visible \in Nat
  BY Texts DEF TextTypes
<1> QED
  BY <1>1, OverlapBounds DEF ReadLimit

LEMMA TextStart == TextInit => TextInv
<1> SUFFICES ASSUME TextInit PROVE TextInv
  OBVIOUS
<1>1. /\ body \in Text /\ visible \in Nat \ {0} /\ fetched = 0 /\ bytes = <<>> /\ shown = <<>>
      /\ textDone = FALSE /\ truncated = FALSE
  BY BodiesAreTexts, ResponseTextAssumption DEF TextInit
<1>2. TextTypes
  <2>1. Len(body) \in Nat
    BY <1>1, Texts
  <2>2. fetched \in 0..Len(body)
    BY <1>1, <2>1
  <2> QED
    BY <1>1, <2>2 DEF TextTypes
<1>3. Reading
  BY <1>1, <1>2, Limits, NothingRead DEF Reading
<1> QED
  BY <1>1, <1>2, <1>3 DEF TextInv

LEMMA ChunkKeeps ==
    ASSUME TextInv, NEW n \in 1..MaxBodyLength, Chunk(n)
    PROVE  TextInv'
<1> DEFINE remaining == ReadLimit - Len(bytes)
           kept == IF n > remaining THEN remaining ELSE n
<1>1. /\ ~textDone /\ fetched + n <= Len(body) /\ fetched' = fetched + n
      /\ bytes' = bytes \o SubSeq(body, fetched + 1, fetched + kept)
      /\ IF n > remaining THEN Show(bytes', TRUE) ELSE UNCHANGED <<truncated, shown, textDone>>
      /\ body' = body /\ visible' = visible
  BY DEF Chunk
<1>2. /\ body \in Text /\ visible \in Nat \ {0} /\ fetched \in 0..Len(body)
      /\ textDone \in BOOLEAN /\ truncated \in BOOLEAN
      /\ bytes = Upto(body, fetched) /\ fetched <= ReadLimit /\ shown = <<>>
  BY <1>1 DEF TextInv, TextTypes, Reading
<1>3. Len(body) \in Nat /\ ReadLimit \in Nat /\ n \in Nat \ {0} /\ ReadLimit' = ReadLimit
  <2>1. Len(body) \in Nat /\ ReadLimit \in Nat
    BY <1>2, Limits DEF TextTypes
  <2>2. n \in Nat \ {0}
    BY ResponseTextAssumption
  <2>3. ReadLimit' = ReadLimit
    BY <1>1 DEF ReadLimit, Overlap
  <2> QED
    BY <2>1, <2>2, <2>3
<1>4. Len(bytes) = fetched
  BY <1>2, Pieces
<1>5. /\ remaining \in Nat /\ kept \in Nat /\ kept <= n /\ fetched + kept <= ReadLimit
      /\ fetched + kept \in fetched..Len(body) /\ fetched' \in 0..Len(body)
      /\ n > remaining => fetched + kept = ReadLimit /\ ReadLimit < Len(body)
      /\ ~(n > remaining) => fetched + kept = fetched'
  BY <1>1, <1>2, <1>3, <1>4
<1> HIDE DEF remaining, kept
<1>6. bytes' = Upto(body, fetched + kept)
  BY <1>1, <1>2, <1>5, PiecesMeet
<1>7. CASE ~(n > remaining)
  <2>1. textDone' = textDone /\ shown' = shown /\ truncated' = truncated
    BY <1>1, <1>7
  <2>2. TextTypes'
    BY <1>1, <1>2, <1>5, <2>1 DEF TextTypes
  <2>3. Reading'
    BY <1>1, <1>2, <1>3, <1>5, <1>6, <1>7, <2>1 DEF Reading
  <2> QED
    BY <1>1, <2>1, <2>2, <2>3 DEF TextInv
<1>8. CASE n > remaining
  <2>1. /\ bytes' = Upto(body', ReadLimit') /\ ReadLimit' < Len(body')
        /\ Show(bytes', TRUE)
    BY <1>1, <1>3, <1>5, <1>6, <1>8
  <2>2. textDone' /\ truncated' /\ textDone' \in BOOLEAN /\ truncated' \in BOOLEAN
    BY <2>1 DEF Show
  <2>3. shown' = Truncate(RedactedTo(ReadLimit))'
    BY <1>1, <2>1 DEF Show, Truncate, RedactedTo, Upto
  <2>4. TextTypes'
    BY <1>1, <1>2, <1>5, <2>2 DEF TextTypes
  <2> QED
    BY <2>1, <2>2, <2>3, <2>4 DEF TextInv, ReadToLimit
<1> QED
  BY <1>7, <1>8

LEMMA LastChunkKeeps ==
    ASSUME TextInv, LastChunk
    PROVE  TextInv'
<1>1. /\ ~textDone /\ fetched = Len(body) /\ Show(bytes, FALSE)
      /\ body' = body /\ visible' = visible /\ fetched' = fetched
  BY DEF LastChunk
<1>2. TextTypes /\ bytes = Upto(body, Len(body))
  BY <1>1 DEF TextInv, Reading
<1>3. /\ textDone' /\ textDone' \in BOOLEAN /\ truncated' \in BOOLEAN
      /\ shown' = Truncate(RedactedTo(Len(body)))'
      /\ truncated' <=> (Len(RedactedTo(Len(body))) > visible)'
  BY <1>1, <1>2 DEF Show, Truncate, RedactedTo, Upto
<1>4. TextTypes'
  BY <1>1, <1>2, <1>3 DEF TextTypes
<1> QED
  BY <1>3, <1>4 DEF TextInv, AllRead

THEOREM TextInvariant == TextSpec => []TextInv
<1>1. TextInv /\ [TextNext]_textVars => TextInv'
  <2> SUFFICES ASSUME TextInv, [TextNext]_textVars PROVE TextInv'
    OBVIOUS
  <2>1. CASE UNCHANGED textVars
    BY <2>1 DEF textVars, TextInv, TextTypes, Reading, AllRead, ReadToLimit, Truncate, RedactedTo,
                ReadLimit, Overlap, Upto
  <2> QED
    BY <2>1, ChunkKeeps, LastChunkKeeps DEF TextNext
<1> QED
  BY <1>1, TextStart, PTL DEF TextSpec

-----------------------------------------------------------------------------
\* A secret in the beginning of a text is one of the text.
LEMMA CutHoldsNothingNew ==
    ASSUME TextTypes, NEW t \in Text, NEW y \in Text, Absent(t, y)
    PROVE  Truncate(t) \in Text /\ Len(Truncate(t)) <= visible /\ Absent(Truncate(t), y)
<1> DEFINE k == IF Len(t) > visible THEN visible ELSE Len(t)
           u == Upto(t, k)
           v == Beyond(t, k)
<1>1. k \in 0..Len(t) /\ k <= visible /\ Truncate(t) = u
  BY Texts DEF Truncate, Upto, TextTypes
<1> HIDE DEF k
<1>2. u \in Text /\ Len(u) = k /\ v \in Text /\ u \o v = t
  BY <1>1, Pieces
<1> HIDE DEF u, v
<1>3. Absent(u, y)
  <2> SUFFICES ASSUME NEW p \in Nat \ {0}, OccursAt(u, y, p) PROVE FALSE
    BY DEF Absent
  <2>1. p + Len(y) - 1 <= Len(u)
    BY DEF OccursAt
  <2>2. OccursAt(t, y, p)
    BY <1>2, <2>1, OccursBefore
  <2> QED
    BY <2>2 DEF Absent
<1> QED
  BY <1>1, <1>2, <1>3

\* NoSecretShown (redact.rs:5-14, http.rs:148-183).
THEOREM NothingSecretShown == TextSpec => []NoSecretShown
<1>1. TextInv => NoSecretShown
  <2> SUFFICES ASSUME TextInv, NEW n \in DOMAIN Secrets, NEW i \in DOMAIN shown
               PROVE  ~OccursAt(shown, Secrets[n], i)
    BY DEF NoSecretShown
  <2>1. n \in 1..Len(Secrets) /\ Secrets[n] \in Text
    BY SecretsApart, ResponseTextAssumption, LenProperties DEF Secret
  <2>2. ASSUME NEW k \in 0..Len(body), shown = Truncate(RedactedTo(k))
        PROVE  shown \in Text /\ Absent(shown, Secrets[n])
    <3>1. Upto(body, k) \in Text
      BY Pieces DEF TextInv, TextTypes
    <3>2. RedactedTo(k) \in Text /\ Absent(RedactedTo(k), Secrets[n])
      BY <2>1, <3>1, RedactTextClean DEF RedactedTo
    <3> QED
      BY <2>1, <2>2, <3>2, CutHoldsNothingNew DEF TextInv
  <2>3. Len(body) \in Nat /\ ReadLimit \in Nat
    BY Limits DEF TextInv
  <2>4. shown \in Text /\ (shown = <<>> \/ Absent(shown, Secrets[n]))
    <3>1. CASE ~textDone
      BY <2>1, <3>1, EmptyText, EmptySeq DEF TextInv, Reading, Text
    <3>2. CASE textDone /\ AllRead
      <4>1. Len(body) \in 0..Len(body)
        BY <2>3
      <4> QED
        BY <2>2, <3>2, <4>1 DEF AllRead
    <3>3. CASE textDone /\ ReadToLimit
      <4>1. ReadLimit \in 0..Len(body)
        BY <2>3, <3>3 DEF ReadToLimit
      <4> QED
        BY <2>2, <3>3, <4>1 DEF ReadToLimit
    <3> QED
      BY <3>1, <3>2, <3>3 DEF TextInv
  <2>5. i \in 1..Len(shown) /\ Len(shown) \in Nat
    BY <2>4, Texts
  <2>6. shown # <<>>
    BY <2>5, EmptySeq
  <2> QED
    BY <2>4, <2>5, <2>6 DEF Absent
<1> QED
  BY <1>1, TextInvariant, PTL

-----------------------------------------------------------------------------
\* No occurrence of y in t \o u lies on both sides of the cut.
Whole(t, u, y) ==
    \A p \in 1..Len(t) : OccursAt(t \o u, y, p) => p + Len(y) - 1 <= Len(t)

\* Concatenation, in the forms that the proofs below use.
LEMMA ThreeTexts ==
    \A x, y, z \in Text : (x \o y) \o z = x \o (y \o z)
BY ConcatAssociative DEF Text

LEMMA NothingBefore ==
    ASSUME NEW t \in Text
    PROVE  <<>> \o t = t
BY ConcatEmptySeq DEF Text

\* What the scan makes of the second text does not depend on the first.
LEMMA ScanBehind ==
    ASSUME NEW t \in Text, NEW u \in Text, NEW s \in Text, s # <<>>
    PROVE  \A j \in 1..(Len(u) + 1) : Scan(t \o u, s)[Len(t) + j] = Scan(u, s)[j]
<1> DEFINE v == t \o u
           N == Len(u) + 1
           T == {j \in 1..N : Scan(v, s)[Len(t) + j] = Scan(u, s)[j]}
<1>1. /\ v \in Text /\ Len(v) = Len(t) + Len(u)
      /\ \A j \in 1..Len(u) : v[Len(t) + j] = u[j]
  BY Joined
<1>2. Len(t) \in Nat /\ Len(u) \in Nat /\ Len(s) \in Nat \ {0} /\ N \in Nat
  BY Texts
<1>3. \A j \in 1..N : OccursAt(v, s, Len(t) + j) <=> OccursAt(u, s, j)
  BY OccursBehind
<1> HIDE DEF v
<1>4. ASSUME NEW j \in 1..N, \A k \in 1..N : j < k => k \in T PROVE j \in T
  <2>0. SUFFICES Scan(v, s)[Len(t) + j] = Scan(u, s)[j]
    OBVIOUS
  <2> DEFINE q == Len(t) + j
  <2>1. CASE j = Len(u) + 1
    <3>1. q = Len(v) + 1
      BY <1>1, <1>2, <2>1
    <3>2. q \in 1..(Len(v) + Len(s)) /\ q > Len(v)
      BY <1>1, <1>2, <3>1
    <3>3. j \in 1..(Len(u) + Len(s)) /\ j > Len(u)
      BY <1>2, <2>1
    <3> HIDE DEF q
    <3>4. Scan(v, s)[q] = <<>>
      BY <1>1, <3>2, ScanEnds
    <3>5. Scan(u, s)[j] = <<>>
      BY <3>3, ScanEnds
    <3> QED
      BY <3>4, <3>5 DEF q
  <2>2. CASE j \in 1..Len(u)
    <3>1. q \in 1..Len(v)
      BY <1>1, <1>2, <2>2
    <3> HIDE DEF q
    <3>2. CASE OccursAt(u, s, j)
      <4>1. Scan(u, s)[j] = Marker \o Scan(u, s)[j + Len(s)] /\ j + Len(s) \in 1..N
        BY <2>2, <3>2, ScanReplaces
      <4>2. Scan(v, s)[q] = Marker \o Scan(v, s)[q + Len(s)]
        BY <1>1, <1>3, <3>1, <3>2, ScanReplaces DEF q
      <4>3. q + Len(s) = Len(t) + (j + Len(s)) /\ j < j + Len(s)
        BY <1>2 DEF q
      <4>4. Scan(v, s)[Len(t) + (j + Len(s))] = Scan(u, s)[j + Len(s)]
        BY <1>4, <4>1, <4>3
      <4> QED
        BY <4>1, <4>2, <4>3, <4>4 DEF q
    <3>3. CASE ~OccursAt(u, s, j)
      <4>1. Scan(u, s)[j] = <<u[j]>> \o Scan(u, s)[j + 1] /\ j + 1 \in 1..N
        BY <2>2, <3>3, ScanCopies
      <4>2. Scan(v, s)[q] = <<v[q]>> \o Scan(v, s)[q + 1]
        BY <1>1, <1>3, <3>1, <3>3, ScanCopies DEF q
      <4>3. q + 1 = Len(t) + (j + 1) /\ j < j + 1
        BY <1>2 DEF q
      <4>4. Scan(v, s)[Len(t) + (j + 1)] = Scan(u, s)[j + 1]
        BY <1>4, <4>1, <4>3
      <4>5. v[q] = u[j]
        BY <1>1, <2>2 DEF q
      <4> QED
        BY <4>1, <4>2, <4>3, <4>4, <4>5 DEF q
    <3> QED
      BY <3>2, <3>3
  <2> QED
    BY <2>1, <2>2, Places
<1> HIDE DEF T, N
<1>5. \A j \in 1..N : j \in T
  BY <1>2, <1>4, Downward
<1> QED
  BY <1>5 DEF T, N, v

\* Where no occurrence of s lies across the cut, the scan stops at it.
LEMMA ScanBefore ==
    ASSUME NEW t \in Text, NEW u \in Text, NEW s \in Text, s # <<>>, Whole(t, u, s)
    PROVE  \A i \in 1..(Len(t) + 1) : Scan(t \o u, s)[i] = Scan(t, s)[i] \o Replace(u, s)
<1> DEFINE v == t \o u
           r == Replace(u, s)
           N == Len(t) + 1
           T == {i \in 1..N : Scan(v, s)[i] = Scan(t, s)[i] \o r}
<1>1. /\ v \in Text /\ Len(v) = Len(t) + Len(u)
      /\ \A i \in 1..Len(t) : v[i] = t[i]
  BY Joined
<1>2. Len(t) \in Nat /\ Len(u) \in Nat /\ Len(s) \in Nat \ {0} /\ N \in Nat
  BY Texts
<1>3. r \in Text
  BY ReplaceText
<1>4. ASSUME NEW i \in 1..Len(t) PROVE OccursAt(v, s, i) <=> OccursAt(t, s, i)
  <2>1. OccursAt(v, s, i) => i + Len(s) - 1 <= Len(t)
    BY DEF Whole
  <2>2. OccursAt(t, s, i) => i + Len(s) - 1 <= Len(t)
    BY DEF OccursAt
  <2>3. i \in Nat \ {0}
    OBVIOUS
  <2> HIDE DEF v
  <2>4. i + Len(s) - 1 <= Len(t) => (OccursAt(v, s, i) <=> OccursAt(t, s, i))
    BY <2>3, OccursBefore DEF v
  <2> QED
    BY <2>1, <2>2, <2>4
<1>5. Scan(v, s)[Len(t) + 1] = r
  <2>1. 1 \in 1..(Len(u) + 1)
    BY <1>2
  <2> QED
    BY <2>1, ScanBehind DEF Replace
<1> HIDE DEF v, r
<1>6. ASSUME NEW a \in Text, NEW b \in Text PROVE (a \o b) \o r = a \o (b \o r)
  <2>1. \A c \in Text : (a \o b) \o c = a \o (b \o c)
    BY ThreeTexts
  <2> QED
    BY <1>3, <2>1
<1>7. ASSUME NEW i \in 1..N, \A j \in 1..N : i < j => j \in T PROVE i \in T
  <2>0. SUFFICES Scan(v, s)[i] = Scan(t, s)[i] \o r
    OBVIOUS
  <2>1. CASE i = Len(t) + 1
    <3>1. i \in 1..(Len(t) + Len(s)) /\ i > Len(t)
      BY <2>1, Places
    <3>2. Scan(t, s)[i] = <<>>
      BY <3>1, ScanEnds
    <3>3. <<>> \o r = r
      BY <1>3, NothingBefore
    <3> QED
      BY <1>5, <2>1, <3>2, <3>3
  <2>2. CASE i \in 1..Len(t) /\ OccursAt(t, s, i)
    <3> DEFINE k == i + Len(s)
    <3>1. Scan(t, s)[i] = Marker \o Scan(t, s)[k] /\ k \in 1..N
      BY <2>2, ScanReplaces
    <3>2. i \in 1..Len(v)
      BY <1>1, <1>2, <2>2
    <3>3. Scan(v, s)[i] = Marker \o Scan(v, s)[k]
      BY <1>1, <1>4, <2>2, <3>2, ScanReplaces
    <3>4. i < k
      BY <1>2
    <3> HIDE DEF k
    <3>5. Scan(v, s)[k] = Scan(t, s)[k] \o r /\ Scan(t, s)[k] \in Text
      BY <1>7, <3>1, <3>4, ScanText
    <3>6. (Marker \o Scan(t, s)[k]) \o r = Marker \o (Scan(t, s)[k] \o r)
      BY <3>5, MarkerText, <1>6
    <3> QED
      BY <3>1, <3>3, <3>5, <3>6
  <2>3. CASE i \in 1..Len(t) /\ ~OccursAt(t, s, i)
    <3> DEFINE k == i + 1
               c == <<t[i]>>
    <3>1. Scan(t, s)[i] = c \o Scan(t, s)[k] /\ k \in 1..N
      BY <2>3, ScanCopies
    <3>2. i \in 1..Len(v) /\ v[i] = t[i]
      BY <1>1, <1>2, <2>3
    <3>3. Scan(v, s)[i] = c \o Scan(v, s)[k]
      <4>1. ~OccursAt(v, s, i)
        BY <1>4, <2>3
      <4>2. Scan(v, s)[i] = <<v[i]>> \o Scan(v, s)[i + 1]
        BY <1>1, <3>2, <4>1, ScanCopies
      <4> QED
        BY <3>2, <4>2
    <3>4. i < k /\ c \in Text
      BY <2>3, Texts
    <3> HIDE DEF k, c
    <3>5. Scan(v, s)[k] = Scan(t, s)[k] \o r /\ Scan(t, s)[k] \in Text
      BY <1>7, <3>1, <3>4, ScanText
    <3>6. (c \o Scan(t, s)[k]) \o r = c \o (Scan(t, s)[k] \o r)
      BY <3>5, <3>4, <1>6
    <3> QED
      BY <3>1, <3>3, <3>5, <3>6
  <2> QED
    BY <2>1, <2>2, <2>3, Places
<1> HIDE DEF T, N
<1>8. \A i \in 1..N : i \in T
  BY <1>2, <1>7, Downward
<1> QED
  BY <1>8 DEF T, N, v, r

LEMMA ReplaceJoined ==
    ASSUME NEW t \in Text, NEW u \in Text, NEW s \in Text, s # <<>>, Whole(t, u, s)
    PROVE  Replace(t \o u, s) = Replace(t, s) \o Replace(u, s)
BY ScanBefore, Places DEF Replace

\* What the scan adds before a text puts no secret across the cut behind that text:
\* a marker, and a copied character with which none begins that is too long.
LEMMA WholeAfterMarker ==
    ASSUME NEW f \in Text, NEW r \in Text, NEW y, Secret(y), Whole(f, r, y)
    PROVE  Whole(Marker \o f, r, y)
<1> DEFINE m == Len(Marker)
           g == Marker \o f
<1>1. Len(f) \in Nat /\ Len(y) \in Nat /\ m \in Nat \ {0} /\ Marker \in Text /\ f \o r \in Text
  BY Texts, MarkerText, Joined DEF Secret
<1>2. g \in Text /\ Len(g) = m + Len(f)
  BY <1>1, Joined
<1>3. g \o r = Marker \o (f \o r)
  BY <1>1, ThreeTexts
<1>4. SUFFICES ASSUME NEW p \in 1..Len(g), OccursAt(g \o r, y, p)
               PROVE  p + Len(y) - 1 <= Len(g)
  BY DEF Whole
<1> HIDE DEF g
<1>5. OccursAt(Marker \o (f \o r), y, p) /\ p \in Nat \ {0}
  BY <1>2, <1>3, <1>4
<1>6. p - m \in Nat \ {0} /\ OccursAt(f \o r, y, p - m)
  BY <1>1, <1>5, MarkerPassed
<1> HIDE DEF m
<1>7. p - m \in 1..Len(f)
  BY <1>1, <1>2, <1>4, <1>6
<1>8. (p - m) + Len(y) - 1 <= Len(f)
  BY <1>6, <1>7 DEF Whole
<1> QED
  BY <1>1, <1>2, <1>8

LEMMA WholeAfterCopy ==
    ASSUME NEW c, <<c>> \in Text, NEW f \in Text, NEW r \in Text, NEW y \in Text, Whole(f, r, y),
           OccursAt((<<c>> \o f) \o r, y, 1) => Len(y) <= Len(<<c>> \o f)
    PROVE  Whole(<<c>> \o f, r, y)
<1> DEFINE d == <<c>>
           g == d \o f
<1>1. Len(f) \in Nat /\ Len(y) \in Nat /\ Len(d) = 1 /\ d \in Text /\ f \o r \in Text
  BY Texts, Joined
<1>2. g \in Text /\ Len(g) = 1 + Len(f) /\ g \o r = d \o (f \o r)
  <2>1. \A a \in Text : a \o f \in Text /\ Len(a \o f) = Len(a) + Len(f)
    BY Joined
  <2>2. \A a \in Text : (a \o f) \o r = a \o (f \o r)
    BY ThreeTexts
  <2> QED
    BY <1>1, <2>1, <2>2
<1>3. SUFFICES ASSUME NEW p \in 1..Len(g), OccursAt(g \o r, y, p)
               PROVE  p + Len(y) - 1 <= Len(g)
  BY DEF Whole
<1> HIDE DEF g
<1>4. CASE p = 1
  BY <1>1, <1>2, <1>3, <1>4 DEF g
<1>5. CASE p # 1
  <2>1. OccursAt(d \o (f \o r), y, p) /\ p \in Nat \ {0}
    BY <1>2, <1>3
  <2>2. p - 1 \in Nat \ {0} /\ OccursAt(f \o r, y, p - 1)
    BY <1>1, <1>5, <2>1, CopyPassed
  <2> HIDE DEF d
  <2>3. p - 1 \in 1..Len(f)
    BY <1>1, <1>2, <1>3, <2>2
  <2>4. (p - 1) + Len(y) - 1 <= Len(f)
    BY <2>2, <2>3 DEF Whole
  <2> QED
    BY <1>1, <1>2, <2>4
<1> QED
  BY <1>4, <1>5

\* No round puts one of the other secrets across the cut.
LEMMA WholeStays ==
    ASSUME NEW t \in Text, NEW u \in Text, NEW s, Secret(s), NEW y, Secret(y),
           Whole(t, u, s), Whole(t, u, y)
    PROVE  Whole(Replace(t, s), Replace(u, s), y)
<1> DEFINE F(p) == Scan(t, s)[p]
           w == t \o u
           r == Replace(u, s)
           N == Len(t) + 1
           T == {i \in 1..N : Whole(F(i), r, y)}
<1>1. s \in Text /\ s # <<>> /\ y \in Text /\ y # <<>>
  BY DEF Secret
<1>2. Len(t) \in Nat /\ Len(s) \in Nat \ {0} /\ Len(y) \in Nat \ {0} /\ N \in Nat
  BY <1>1, Texts
<1>3. r \in Text /\ \A i \in 1..N : F(i) \in Text /\ Len(F(i)) \in Nat
  BY <1>1, ReplaceText, ScanText, Texts
<1>4. \A i \in 1..N : Scan(w, s)[i] = F(i) \o r
  BY <1>1, ScanBefore
<1>5. w \in Text /\ \A i \in 1..N : i \in 1..(Len(w) + 1)
  <2>1. w \in Text /\ Len(w) = Len(t) + Len(u) /\ Len(u) \in Nat
    BY Joined, Texts
  <2> HIDE DEF w
  <2> QED
    BY <1>2, <2>1
<1>6. \A i \in 1..Len(t) : OccursAt(w, y, i) => i + Len(y) - 1 <= Len(t)
  BY DEF Whole
<1> HIDE DEF w, r
<1>7. ASSUME NEW i \in 1..Len(t), OccursAt(F(i) \o r, y, 1) PROVE Len(y) <= Len(F(i))
  <2> DEFINE q == i + Len(y)
  <2>1. i \in 1..N
    BY <1>2
  <2>2. OccursAt(Scan(w, s)[i], y, 1)
    BY <1>4, <1>7, <2>1
  <2>3. OccursAt(w, y, i) /\ Len(Scan(w, s)[i]) = Len(y) + Len(Scan(w, s)[q])
    <3>1. w \in Text /\ i \in 1..(Len(w) + 1)
      BY <1>5, <2>1
    <3> QED
      BY <1>1, <2>2, <3>1, SecretOfText
  <2>4. q \in 1..N
    BY <1>2, <1>6, <2>3
  <2> HIDE DEF q
  <2>5. Len(F(i) \o r) = Len(y) + Len(F(q) \o r)
    BY <1>4, <2>1, <2>3, <2>4
  <2>6. \A j \in 1..N : Len(F(j) \o r) = Len(F(j)) + Len(r)
    BY <1>3, Joined
  <2>7. Len(F(i)) \in Nat /\ Len(F(q)) \in Nat /\ Len(r) \in Nat
    BY <1>3, <2>1, <2>4, Texts
  <2>8. Len(F(i)) + Len(r) = Len(y) + (Len(F(q)) + Len(r))
    BY <2>1, <2>4, <2>5, <2>6
  <2> QED
    BY <1>2, <2>7, <2>8
<1>8. ASSUME NEW i \in 1..N, \A j \in 1..N : i < j => j \in T PROVE i \in T
  <2>0. SUFFICES Whole(F(i), r, y)
    OBVIOUS
  <2>1. CASE i = Len(t) + 1
    <3>1. i \in 1..(Len(t) + Len(s)) /\ i > Len(t)
      BY <1>1, <2>1, Places
    <3>2. F(i) = <<>>
      BY <1>1, <3>1, ScanEnds
    <3>3. 1..Len(F(i)) = {}
      BY <3>2, EmptySeq
    <3> QED
      BY <3>3 DEF Whole
  <2>2. CASE i \in 1..Len(t) /\ OccursAt(t, s, i)
    <3>1. F(i) = Marker \o F(i + Len(s)) /\ i + Len(s) \in 1..N
      BY <1>1, <2>2, ScanReplaces
    <3>2. i < i + Len(s)
      BY <1>2
    <3>3. Whole(F(i + Len(s)), r, y)
      BY <1>8, <3>1, <3>2
    <3> QED
      BY <1>3, <3>1, <3>3, WholeAfterMarker
  <2>3. CASE i \in 1..Len(t) /\ ~OccursAt(t, s, i)
    <3>1. F(i) = <<t[i]>> \o F(i + 1) /\ i + 1 \in 1..N
      BY <1>1, <2>3, ScanCopies
    <3>2. i < i + 1 /\ <<t[i]>> \in Text
      BY <2>3, Texts
    <3>3. Whole(F(i + 1), r, y)
      BY <1>8, <3>1, <3>2
    <3>4. OccursAt(F(i) \o r, y, 1) => Len(y) <= Len(F(i))
      BY <1>7, <2>3
    <3> QED
      BY <1>1, <1>3, <3>1, <3>2, <3>3, <3>4, WholeAfterCopy
  <2> QED
    BY <1>1, <2>1, <2>2, <2>3, Places
<1> HIDE DEF T, N
<1>9. \A i \in 1..N : i \in T
  BY <1>2, <1>8, Downward
<1>10. 1 \in 1..N
  BY <1>1, Places DEF N
<1> QED
  BY <1>9, <1>10 DEF T, r, Replace

\* redact_text of two texts put together, where the cut goes through no secret.
LEMMA RedactionsJoined ==
    ASSUME NEW t \in Text, NEW u \in Text, \A k \in 1..Len(Secrets) : Whole(t, u, Secrets[k])
    PROVE  \A n \in 0..Len(Secrets) : Redactions(t \o u)[n] = Redactions(t)[n] \o Redactions(u)[n]
<1> DEFINE w == t \o u
           A(n) == Redactions(t)[n]
           B(n) == Redactions(u)[n]
           Parted(n) == /\ Redactions(w)[n] = A(n) \o B(n)
                        /\ \A k \in 1..Len(Secrets) : Whole(A(n), B(n), Secrets[k])
           T == {n \in Nat : n <= Len(Secrets) => Parted(n)}
<1>0. Len(Secrets) \in Nat
  BY ResponseTextAssumption, LenProperties
<1>1. 0 \in T
  BY Redacted
<1>2. ASSUME NEW n \in Nat, n \in T PROVE n + 1 \in T
  <2> HIDE DEF Parted, w
  <2> SUFFICES ASSUME n + 1 <= Len(Secrets) PROVE Parted(n + 1)
    OBVIOUS
  <2>1. /\ n <= Len(Secrets) /\ n \in 0..Len(Secrets)
        /\ n + 1 \in 1..Len(Secrets) /\ (n + 1) - 1 = n
    BY <1>0
  <2>2. Parted(n)
    BY <1>2, <2>1
  <2> DEFINE s == Secrets[n + 1]
  <2>3. Secret(s) /\ s \in Text /\ s # <<>>
    BY <2>1, SecretsApart DEF Secret
  <2>4. A(n) \in Text /\ B(n) \in Text /\ Whole(A(n), B(n), s)
    BY <2>1, <2>2, RoundsClean DEF Parted
  <2>5. A(n + 1) = Replace(A(n), s) /\ B(n + 1) = Replace(B(n), s)
    BY <2>1, Redacted
  <2>6. Redactions(w)[n + 1] = Replace(A(n) \o B(n), s)
    <3>1. Redactions(w)[n + 1] = Replace(Redactions(w)[n], s)
      BY <2>1, Redacted
    <3> QED
      BY <2>2, <3>1 DEF Parted
  <2>7. Redactions(w)[n + 1] = A(n + 1) \o B(n + 1)
    <3>1. \A a, b \in Text : Whole(a, b, s) => Replace(a \o b, s) = Replace(a, s) \o Replace(b, s)
      BY <2>3, ReplaceJoined
    <3> HIDE DEF A, B, s
    <3> QED
      BY <2>4, <2>5, <2>6, <3>1
  <2> HIDE DEF A, B, s
  <2>8. ASSUME NEW k \in 1..Len(Secrets) PROVE Whole(A(n + 1), B(n + 1), Secrets[k])
    <3>1. Secret(Secrets[k]) /\ Whole(A(n), B(n), Secrets[k])
      BY <2>2, SecretsApart DEF Parted
    <3> QED
      BY <2>3, <2>4, <2>5, <3>1, WholeStays
  <2> QED
    BY <2>7, <2>8 DEF Parted
<1>3. \A n \in Nat : n \in T
  <2> HIDE DEF T
  <2> QED
    BY <1>1, <1>2, Upward
<1>4. ASSUME NEW n \in 0..Len(Secrets) PROVE Parted(n)
  <2> HIDE DEF Parted
  <2> QED
    BY <1>0, <1>3
<1> QED
  BY <1>4 DEF w, A, B

\* redact_text makes something of every text that is not empty.
LEMMA NotEmptied ==
    ASSUME NEW t \in Text, t # <<>>, NEW s \in Text, s # <<>>
    PROVE  Replace(t, s) # <<>>
<1>1. 1 \in 1..Len(t) /\ Len(s) \in Nat /\ 1 + Len(s) \in Nat
  BY Texts
<1>2. CASE OccursAt(t, s, 1)
  <2>1. Replace(t, s) = Marker \o Scan(t, s)[1 + Len(s)] /\ 1 + Len(s) \in 1..(Len(t) + 1)
    BY <1>1, <1>2, ScanReplaces DEF Replace
  <2> DEFINE f == Scan(t, s)[1 + Len(s)]
  <2>2. f \in Text
    BY <2>1, ScanText
  <2> HIDE DEF f
  <2>3. Len(Marker \o f) = Len(Marker) + Len(f) /\ Len(f) \in Nat
    BY <2>2, MarkerText, Joined, Texts
  <2>4. Len(Marker \o f) # 0
    BY <2>3, MarkerText
  <2> QED
    BY <2>1, <2>4, EmptySeq DEF f
<1>3. CASE ~OccursAt(t, s, 1)
  <2>1. Replace(t, s) = <<t[1]>> \o Scan(t, s)[1 + 1] /\ 1 + 1 \in 1..(Len(t) + 1)
    BY <1>1, <1>3, ScanCopies DEF Replace
  <2> DEFINE f == Scan(t, s)[1 + 1]
             c == <<t[1]>>
  <2>2. f \in Text /\ c \in Text /\ Len(c) = 1
    BY <1>1, <2>1, ScanText, Texts
  <2> HIDE DEF f
  <2>3. \A a \in Text : Len(a \o f) = Len(a) + Len(f)
    BY <2>2, Joined
  <2>4. Len(f) \in Nat
    BY <2>2, Texts
  <2>5. Len(c \o f) # 0
    BY <2>2, <2>3, <2>4
  <2> QED
    BY <2>1, <2>5, EmptySeq DEF f
<1> QED
  BY <1>2, <1>3

LEMMA RedactedNotEmpty ==
    ASSUME NEW t \in Text, t # <<>>
    PROVE  RedactText(t) # <<>>
<1> DEFINE A(n) == Redactions(t)[n]
           T == {n \in Nat : n <= Len(Secrets) => A(n) # <<>>}
<1>0. Len(Secrets) \in Nat
  BY ResponseTextAssumption, LenProperties
<1>1. 0 \in T
  BY Redacted
<1>2. ASSUME NEW n \in Nat, n \in T PROVE n + 1 \in T
  <2> SUFFICES ASSUME n + 1 <= Len(Secrets) PROVE A(n + 1) # <<>>
    OBVIOUS
  <2>1. /\ n <= Len(Secrets) /\ n \in 0..Len(Secrets)
        /\ n + 1 \in 1..Len(Secrets) /\ (n + 1) - 1 = n
    BY <1>0
  <2>2. A(n + 1) = Replace(A(n), Secrets[n + 1])
    BY <2>1, Redacted
  <2>3. A(n) \in Text /\ A(n) # <<>>
    BY <1>2, <2>1, RoundsClean
  <2>4. Secrets[n + 1] \in Text /\ Secrets[n + 1] # <<>>
    BY <2>1, SecretsApart DEF Secret
  <2> HIDE DEF A
  <2> QED
    BY <2>2, <2>3, <2>4, NotEmptied
<1>3. \A n \in Nat : n \in T
  <2> HIDE DEF T
  <2> QED
    BY <1>1, <1>2, Upward
<1>4. A(Len(Secrets)) # <<>>
  <2> HIDE DEF A
  <2> QED
    BY <1>0, <1>3
<1> QED
  BY <1>4 DEF RedactText

-----------------------------------------------------------------------------
LEMMA BeginsWith ==
    ASSUME NEW a \in Text, NEW b \in Text, NEW k \in 0..Len(a)
    PROVE  IsPrefix(Upto(a, k), a \o b)
<1> DEFINE c == a \o b
           d == Upto(a, k)
<1>1. /\ c \in Text /\ Len(c) = Len(a) + Len(b) /\ Len(a) \in Nat /\ Len(b) \in Nat
      /\ d \in Text /\ Len(d) = k
  BY Joined, Texts, Pieces
<1>2. SubSeq(c, 1, k) = SubSeq(a, 1, k)
  <2>1. 1 \in Nat \ {0} /\ k \in (1 - 1)..Len(a)
    OBVIOUS
  <2> QED
    BY <2>1, SubSeqOfConcat1 DEF Text
<1>3. SubSeq(d, 1, Len(d)) = d
  BY <1>1, SubSeqFull DEF Text
<1>4. SubSeq(c, 1, Len(d)) = d
  BY <1>1, <1>2 DEF Upto
<1> HIDE DEF c, d
<1>5. Len(d) <= Len(c)
  BY <1>1
<1>6. IsPrefix(d, c)
  BY <1>3, <1>4, <1>5 DEF IsPrefix
<1> QED
  BY <1>6 DEF c, d

\* What a text is cut to.
LEMMA Truncated ==
    ASSUME TextTypes, NEW a \in Text
    PROVE  /\ Truncate(a) \in Text /\ Len(Truncate(a)) <= visible /\ Len(Truncate(a)) <= Len(a)
           /\ \A b \in Text : IsPrefix(Truncate(a), a \o b)
           /\ Len(a) > visible => Len(Truncate(a)) < Len(a)
           /\ ~(Len(a) > visible) => Truncate(a) = a
<1> DEFINE k == IF Len(a) > visible THEN visible ELSE Len(a)
           d == Upto(a, k)
<1>1. Len(a) \in Nat /\ visible \in Nat \ {0}
  BY Texts DEF TextTypes
<1>2. /\ k \in 0..Len(a) /\ k <= visible /\ k <= Len(a)
      /\ Len(a) > visible => k < Len(a)
      /\ ~(Len(a) > visible) => k = Len(a)
  BY <1>1
<1>3. Truncate(a) = d
  BY DEF Truncate, Upto
<1> HIDE DEF k
<1>4. d \in Text /\ Len(d) = k /\ \A b \in Text : IsPrefix(d, a \o b)
  BY <1>2, Pieces, BeginsWith
<1>5. ~(Len(a) > visible) => d = a
  BY <1>2, Pieces
<1> HIDE DEF d
<1> QED
  BY <1>2, <1>3, <1>4, <1>5

LEMMA ShownAll ==
    ASSUME TextTypes, AllRead
    PROVE  /\ Len(shown) <= visible
           /\ IsPrefix(shown, RedactText(body))
           /\ ~truncated => shown = RedactText(body)
           /\ truncated => shown # RedactText(body)
<1> DEFINE x == RedactText(body)
<1>1. body \in Text /\ x \in Text /\ RedactedTo(Len(body)) = x
  <2>1. body \in Text /\ Len(body) \in 0..Len(body)
    BY Texts DEF TextTypes
  <2>2. Upto(body, Len(body)) = body
    BY <2>1, Pieces
  <2> QED
    BY <2>1, <2>2, RedactTextClean DEF RedactedTo
<1>2. shown = Truncate(x) /\ (truncated <=> Len(x) > visible)
  BY <1>1 DEF AllRead
<1> HIDE DEF x
<1>3. <<>> \in Text /\ x \o <<>> = x
  BY <1>1, EmptySeq, ConcatEmptySeq DEF Text
<1>4. IsPrefix(Truncate(x), x \o <<>>)
  BY <1>1, <1>3, Truncated
<1>5. IsPrefix(shown, x)
  BY <1>2, <1>3, <1>4
<1>6. Len(shown) <= visible /\ (~truncated => shown = x)
  BY <1>1, <1>2, Truncated
<1>7. ASSUME truncated PROVE shown # x
  <2>1. Len(Truncate(x)) < Len(x) /\ Len(x) \in Nat
    BY <1>1, <1>2, <1>7, Truncated, Texts
  <2> QED
    BY <1>2, <2>1
<1> QED
  BY <1>5, <1>6, <1>7 DEF x

LEMMA ShownToLimit ==
    ASSUME TextTypes, ReadToLimit
    PROVE  /\ Len(shown) <= visible /\ truncated
           /\ ~Cuts(ReadLimit) => IsPrefix(shown, RedactText(body)) /\ shown # RedactText(body)
<1> DEFINE u == Upto(body, ReadLimit)
           v == Beyond(body, ReadLimit)
           x == RedactText(u)
           z == RedactText(v)
<1>1. body \in Text /\ ReadLimit \in 0..Len(body)
  BY Limits DEF TextTypes, ReadToLimit
<1>2. u \in Text /\ Len(u) = ReadLimit /\ v \in Text /\ u \o v = body /\ v # <<>>
  <2>1. /\ u \in Text /\ Len(u) = ReadLimit /\ v \in Text /\ u \o v = body
        /\ Len(v) = Len(body) - ReadLimit
    BY <1>1, Pieces
  <2>2. Len(v) # 0
    BY <1>1, <2>1, Limits DEF ReadToLimit
  <2>3. v # <<>>
    BY <2>2, EmptySeq
  <2> QED
    BY <2>1, <2>3
<1>3. shown = Truncate(RedactText(u)) /\ truncated
  BY DEF ReadToLimit, RedactedTo
<1> HIDE DEF u, v
<1>4. x \in Text /\ z \in Text /\ z # <<>>
  BY <1>2, RedactTextClean, RedactedNotEmpty
<1>5. shown \in Text /\ Len(shown) <= visible /\ Len(shown) <= Len(x)
  BY <1>3, <1>4, Truncated
<1>6. ASSUME ~Cuts(ReadLimit)
      PROVE  IsPrefix(shown, RedactText(body)) /\ shown # RedactText(body)
  <2>1. ASSUME NEW n \in 1..Len(Secrets) PROVE Whole(u, v, Secrets[n])
    <3> SUFFICES ASSUME NEW p \in 1..Len(u), OccursAt(body, Secrets[n], p)
                 PROVE  p + Len(Secrets[n]) - 1 <= ReadLimit
      BY <1>2 DEF Whole
    <3>1. n \in DOMAIN Secrets /\ Len(Secrets[n]) \in Nat
      BY ResponseTextAssumption, LenProperties, SecretsApart, Texts DEF Secret
    <3>2. p \in DOMAIN body /\ p <= ReadLimit
      BY <1>1, <1>2, Texts, Limits
    <3>3. ~(p + Len(Secrets[n]) - 1 > ReadLimit)
      BY <1>6, <3>1, <3>2 DEF Cuts
    <3> QED
      BY <1>1, <3>1, <3>3, Limits
  <2>2. RedactText(body) = x \o z
    <3>1. Len(Secrets) \in 0..Len(Secrets)
      BY ResponseTextAssumption, LenProperties
    <3> QED
      BY <1>2, <2>1, <3>1, RedactionsJoined DEF RedactText
  <2> HIDE DEF x, z
  <2>3. IsPrefix(shown, x \o z)
    BY <1>3, <1>4, Truncated DEF x
  <2>4. Len(shown) # Len(x \o z)
    <3>1. Len(x \o z) = Len(x) + Len(z) /\ Len(x) \in Nat /\ Len(z) \in Nat \ {0}
      BY <1>4, Joined, Texts
    <3>2. Len(shown) \in Nat
      BY <1>5, Texts
    <3> QED
      BY <1>5, <3>1, <3>2
  <2> QED
    BY <2>2, <2>3, <2>4
<1> QED
  BY <1>3, <1>5, <1>6

LEMMA Middle ==
    ASSUME NEW t \in Text, NEW e \in 0..Len(t), NEW k \in 0..e
    PROVE  SubSeq(t, k + 1, e) \in Text
<1>0. Len(t) \in Nat /\ \A i \in 1..Len(t) : t[i] \in Chars
  BY Texts
<1>1. \A i \in (k + 1)..e : t[i] \in Chars
  BY <1>0
<1>2. k + 1 \in Int /\ e \in Int
  BY <1>0
<1> QED
  BY <1>1, <1>2, SubSeqProperties DEF Text

\* Two beginnings of a text.
LEMMA Beginnings ==
    ASSUME NEW t \in Text, NEW m \in 0..Len(t), NEW k \in 0..m
    PROVE  IsPrefix(Upto(t, k), Upto(t, m))
<1> DEFINE a == Upto(t, k)
           b == SubSeq(t, k + 1, m)
<1>1. Len(t) \in Nat /\ k \in 0..Len(t) /\ m \in k..Len(t)
  BY Texts
<1>2. a \in Text /\ Len(a) = k /\ a \o b = Upto(t, m)
  BY <1>1, Pieces, PiecesMeet
<1>3. b \in Text
  BY Middle
<1> HIDE DEF a, b
<1>4. k \in 0..Len(a) /\ Upto(a, k) = a
  BY <1>1, <1>2, Pieces
<1>5. IsPrefix(Upto(a, k), a \o b)
  BY <1>2, <1>3, <1>4, BeginsWith
<1> QED
  BY <1>2, <1>4, <1>5 DEF a

\* What the caller sees grows with the text that is cut.
LEMMA TruncatedGrows ==
    ASSUME TextTypes, NEW a \in Text, NEW b \in Text
    PROVE  IsPrefix(Truncate(a), Truncate(a \o b))
<1> DEFINE c == a \o b
           i == IF Len(a) > visible THEN visible ELSE Len(a)
           j == IF Len(c) > visible THEN visible ELSE Len(c)
<1>1. /\ c \in Text /\ Len(c) = Len(a) + Len(b) /\ Len(a) \in Nat /\ Len(b) \in Nat
      /\ visible \in Nat \ {0}
  BY Joined, Texts DEF TextTypes
<1>2. i \in 0..Len(a) /\ j \in 0..Len(c) /\ i \in 0..j
  BY <1>1
<1>3. Truncate(a) = Upto(a, i) /\ Truncate(c) = Upto(c, j)
  BY DEF Truncate, Upto
<1> HIDE DEF i, j
<1>4. Upto(c, i) = Upto(a, i)
  <2>1. 1 \in Nat \ {0} /\ i \in (1 - 1)..Len(a)
    BY <1>2
  <2> QED
    BY <2>1, SubSeqOfConcat1 DEF Text, Upto
<1> HIDE DEF c
<1>5. IsPrefix(Upto(c, i), Upto(c, j))
  BY <1>1, <1>2, Beginnings
<1> QED
  BY <1>3, <1>4, <1>5 DEF c

\* Up to a cut that goes through no secret, the text that is read beyond it changes
\* nothing.
LEMMA ClearBeginning ==
    ASSUME TextTypes, NEW m \in 0..Len(body), NEW k \in 0..m, ~Cuts(k)
    PROVE  IsPrefix(Truncate(RedactedTo(k)), Truncate(RedactedTo(m)))
<1> DEFINE u == Upto(body, k)
           v == SubSeq(body, k + 1, m)
           w == Upto(body, m)
           x == RedactText(u)
           z == RedactText(v)
<1>1. body \in Text /\ Len(body) \in Nat /\ k \in 0..Len(body) /\ m \in k..Len(body)
  BY Texts DEF TextTypes
<1>2. u \in Text /\ Len(u) = k /\ u \o v = w /\ w \in Text /\ Len(w) = m
  BY <1>1, Pieces, PiecesMeet
<1>3. v \in Text
  BY <1>1, Middle
<1>4. ASSUME NEW y \in Text, NEW p \in Nat \ {0}, OccursAt(w, y, p) PROVE OccursAt(body, y, p)
  <2>1. p + Len(y) - 1 <= Len(w)
    BY <1>4 DEF OccursAt
  <2> DEFINE q == Beyond(body, m)
  <2>2. q \in Text /\ w \o q = body
    BY <1>1, Pieces
  <2>3. w \in Text /\ OccursAt(w, y, p)
    BY <1>2, <1>4
  <2> HIDE DEF q, w
  <2>4. OccursAt(w \o q, y, p) <=> OccursAt(w, y, p)
    BY <2>1, <2>2, <2>3, OccursBefore
  <2> QED
    BY <2>2, <2>3, <2>4
<1> HIDE DEF u, v, w
<1>5. ASSUME NEW n \in 1..Len(Secrets) PROVE Whole(u, v, Secrets[n])
  <2> SUFFICES ASSUME NEW p \in 1..Len(u), OccursAt(w, Secrets[n], p)
               PROVE  p + Len(Secrets[n]) - 1 <= k
    BY <1>2 DEF Whole
  <2>1. n \in DOMAIN Secrets /\ Secrets[n] \in Text /\ Len(Secrets[n]) \in Nat
    BY ResponseTextAssumption, LenProperties, SecretsApart, Texts DEF Secret
  <2>2. p \in Nat \ {0} /\ p <= k /\ p \in DOMAIN body
    BY <1>1, <1>2, Texts
  <2>3. OccursAt(body, Secrets[n], p)
    BY <1>4, <2>1, <2>2
  <2>4. ~(p + Len(Secrets[n]) - 1 > k)
    BY <2>1, <2>2, <2>3 DEF Cuts
  <2> QED
    BY <1>1, <2>1, <2>2, <2>4
<1>6. RedactText(w) = x \o z
  <2>1. Len(Secrets) \in 0..Len(Secrets)
    BY ResponseTextAssumption, LenProperties
  <2> QED
    BY <1>2, <1>3, <1>5, <2>1, RedactionsJoined DEF RedactText
<1>7. x \in Text /\ z \in Text
  BY <1>2, <1>3, RedactTextClean
<1> HIDE DEF x, z
<1>8. IsPrefix(Truncate(x), Truncate(x \o z))
  BY <1>7, TruncatedGrows
<1> QED
  BY <1>6, <1>8 DEF x, u, w, RedactedTo

\* ShownIsRedacted (http.rs:148-191).
THEOREM CallerSeesRedacted == TextSpec => []ShownIsRedacted
<1>1. TextInv => ShownIsRedacted
  <2> SUFFICES ASSUME TextInv, textDone PROVE ShownIsRedacted
    BY DEF ShownIsRedacted
  <2>1. TextTypes /\ Len(body) \in Nat /\ ReadLimit \in Nat /\ ReadLimit = visible + Overlap
    BY Limits DEF TextInv, ReadLimit
  <2>2. PICK m \in 0..Len(body) :
           shown = Truncate(RedactedTo(m)) /\ (m = Len(body) \/ m = ReadLimit)
    <3>1. CASE AllRead
      BY <2>1, <3>1 DEF AllRead
    <3>2. CASE ReadToLimit
      <4>1. ReadLimit \in 0..Len(body)
        BY <2>1, <3>2 DEF ReadToLimit
      <4> QED
        BY <3>2, <4>1 DEF ReadToLimit
    <3> QED
      BY <3>1, <3>2 DEF TextInv
  <2>3. ASSUME NEW k \in 0..Len(body), k <= ReadLimit, ~Cuts(k)
        PROVE  IsPrefix(Truncate(RedactText(SubSeq(body, 1, k))), shown)
    <3>1. k \in 0..m
      BY <2>1, <2>2, <2>3
    <3>2. IsPrefix(Truncate(RedactedTo(k)), Truncate(RedactedTo(m)))
      BY <2>1, <2>3, <3>1, ClearBeginning
    <3> QED
      BY <2>2, <3>2 DEF RedactedTo, Upto
  <2> QED
    BY <2>1, <2>3, ShownAll, ShownToLimit DEF TextInv, ShownIsRedacted
<1> QED
  BY <1>1, TextInvariant, PTL

-----------------------------------------------------------------------------
\* Induction over sequences, and a function that a step computes from its last value.
LEMMA AppendFacts ==
    ASSUME NEW X, NEW s \in Seq(X), NEW x \in X
    PROVE  /\ Append(s, x) \in Seq(X) /\ Append(s, x) # <<>>
           /\ Len(s) \in Nat /\ Len(Append(s, x)) = Len(s) + 1
           /\ \A i \in 1..Len(s) : Append(s, x)[i] = s[i]
           /\ Append(s, x)[Len(s) + 1] = x
BY AppendProperties, LenProperties

LEMMA Grown ==
    ASSUME NEW X, NEW T, <<>> \in T,
           \A s \in Seq(X), x \in X : s \in T => Append(s, x) \in T
    PROVE  \A s \in Seq(X) : s \in T
<1> DEFINE U == {n \in Nat : \A s \in Seq(X) : Len(s) = n => s \in T}
<1>1. 0 \in U
  <2>1. \A s \in Seq(X) : Len(s) = 0 => s = <<>>
    BY EmptySeq
  <2> QED
    BY <2>1
<1>2. ASSUME NEW n \in Nat, n \in U PROVE n + 1 \in U
  <2> SUFFICES ASSUME NEW s \in Seq(X), Len(s) = n + 1 PROVE s \in T
    OBVIOUS
  <2>1. s # <<>>
    BY EmptySeq
  <2>2. PICK r \in Seq(X), x \in X : s = Append(r, x)
    BY <2>1, SequenceEmptyOrAppend
  <2>3. Len(r) \in Nat /\ Len(s) = Len(r) + 1
    BY <2>2, AppendFacts
  <2>4. Len(r) = n
    BY <2>3
  <2>5. r \in T
    BY <1>2, <2>4
  <2> QED
    BY <2>2, <2>5
<1>3. \A n \in Nat : n \in U
  <2> HIDE DEF U
  <2> QED
    BY <1>1, <1>2, Upward
<1> SUFFICES ASSUME NEW s \in Seq(X) PROVE s \in T
  OBVIOUS
<1>4. Len(s) \in Nat
  BY LenProperties
<1>5. Len(s) \in U
  <2> HIDE DEF U
  <2> QED
    BY <1>3, <1>4
<1> QED
  BY <1>5

Iterates(f, first, step, last) == f[0] = first /\ \A n \in 1..last : f[n] = step[n][f[n - 1]]

LEMMA Iterated ==
    ASSUME NEW Values, NEW first \in Values, NEW last \in Nat, NEW step \in [1..last -> [Values -> Values]]
    PROVE  \E f \in [0..last -> Values] : Iterates(f, first, step, last)
<1> DEFINE Runs(f, k) == Iterates(f, first, step, k)
           T == {k \in Nat : k <= last => \E f \in [0..k -> Values] : Runs(f, k)}
<1>1. 0 \in T
  <2> DEFINE g == [n \in 0..0 |-> first]
  <2>1. g \in [0..0 -> Values] /\ g[0] = first /\ 1..0 = {}
    OBVIOUS
  <2> HIDE DEF g
  <2>2. \E f \in [0..0 -> Values] : Runs(f, 0)
    BY <2>1 DEF Iterates
  <2> QED
    BY <2>2
<1>2. ASSUME NEW k \in Nat, k \in T PROVE k + 1 \in T
  <2> HIDE DEF Runs
  <2> SUFFICES ASSUME k + 1 <= last PROVE \E f \in [0..(k + 1) -> Values] : Runs(f, k + 1)
    OBVIOUS
  <2>1. k <= last /\ k + 1 \in 1..last /\ k \in 0..k
    OBVIOUS
  <2>2. PICK f \in [0..k -> Values] : Runs(f, k)
    BY <1>2, <2>1
  <2> DEFINE e == step[k + 1][f[k]]
             g == [n \in 0..(k + 1) |-> IF n = k + 1 THEN e ELSE f[n]]
  <2>3. e \in Values
    BY <2>1
  <2> HIDE DEF e
  <2>4. g \in [0..(k + 1) -> Values] /\ g[k + 1] = e /\ \A n \in 0..k : g[n] = f[n]
    BY <2>3
  <2> HIDE DEF g
  <2>5. \A n \in 1..(k + 1) : n - 1 \in 0..k /\ (n \in 1..k \/ n = k + 1) /\ (n \in 1..k => n \in 0..k)
    OBVIOUS
  <2>6. 0 \in 0..k /\ (k + 1) - 1 = k
    OBVIOUS
  <2>7. g[0] = first
    BY <2>2, <2>4, <2>6 DEF Runs, Iterates
  <2>8. ASSUME NEW n \in 1..(k + 1) PROVE g[n] = step[n][g[n - 1]]
    <3>1. g[n - 1] = f[n - 1]
      BY <2>4, <2>5
    <3>2. CASE n \in 1..k
      BY <2>2, <2>4, <2>5, <3>1, <3>2 DEF Runs, Iterates
    <3>3. CASE n = k + 1
      BY <2>4, <2>6, <3>1, <3>3 DEF e
    <3> QED
      BY <2>5, <3>2, <3>3
  <2>9. Runs(g, k + 1)
    BY <2>7, <2>8 DEF Runs, Iterates
  <2> QED
    BY <2>4, <2>9
<1>3. last \in T
  <2> HIDE DEF T
  <2> QED
    BY <1>1, <1>2, Upward
<1> QED
  BY <1>3

-----------------------------------------------------------------------------
Path == Seq(Letters)
Segments == Seq(Path)

\* A sequence that is not empty is one and its last element.
LEMMA LastOf ==
    ASSUME NEW X, NEW s \in Seq(X), NEW x \in X
    PROVE  Front(Append(s, x)) = s /\ Last(Append(s, x)) = x
<1> DEFINE t == Append(s, x)
<1>1. /\ t \in Seq(X) /\ Len(s) \in Nat /\ Len(t) = Len(s) + 1
      /\ \A i \in 1..Len(s) : t[i] = s[i]
      /\ t[Len(s) + 1] = x
  BY AppendFacts
<1> HIDE DEF t
<1>2. Len(t) - 1 = Len(s)
  BY <1>1
<1>3. SubSeq(t, 1, Len(s)) = s
  <2>1. \A i \in 1..Len(s) : t[i] \in X
    BY <1>1, ElementOfSeq
  <2>2. 1 \in Int /\ Len(s) \in Int
    BY <1>1
  <2> DEFINE u == SubSeq(t, 1, Len(s))
  <2>3. /\ u \in Seq(X) /\ Len(u) = (IF 1 <= Len(s) THEN Len(s) - 1 + 1 ELSE 0)
        /\ \A i \in 1..(Len(s) - 1 + 1) : u[i] = t[1 + i - 1]
    BY <2>1, <2>2, SubSeqProperties
  <2> HIDE DEF u
  <2>4. Len(u) = Len(s) /\ \A i \in 1..Len(s) : i \in 1..(Len(s) - 1 + 1) /\ 1 + i - 1 = i
    BY <1>1, <2>3
  <2>5. \A i \in 1..Len(s) : u[i] = s[i]
    BY <1>1, <2>3, <2>4
  <2>6. u = s
    BY <2>3, <2>4, <2>5, SeqEqual
  <2> QED
    BY <2>6 DEF u
<1>4. Front(t) = s
  BY <1>2, <1>3 DEF Front
<1>5. Last(t) = x
  BY <1>1 DEF Last
<1> QED
  BY <1>4, <1>5 DEF t

-----------------------------------------------------------------------------
\* Split, one character after the other.
LEMMA NextPiecesIs ==
    ASSUME NEW f \in Segments, NEW l \in Path, NEW x \in Letters, NEW c
    PROVE  /\ x = c => NextPieces(Append(f, l), x, c) = Append(Append(f, l), <<>>)
           /\ x # c => NextPieces(Append(f, l), x, c) = Append(f, Append(l, x))
BY LastOf DEF NextPieces, Segments

LEMMA NextPiecesAre ==
    ASSUME NEW p \in Segments \ {<<>>}, NEW x \in Letters, NEW c
    PROVE  NextPieces(p, x, c) \in Segments \ {<<>>}
<1>1. PICK f \in Segments, l \in Path : p = Append(f, l)
  BY SequenceEmptyOrAppend DEF Segments
<1>2. <<>> \in Path /\ Append(l, x) \in Path
  BY EmptySeq, AppendFacts DEF Path
<1>3. Append(Append(f, l), <<>>) \in Segments \ {<<>>} /\ Append(f, Append(l, x)) \in Segments \ {<<>>}
  <2>1. \A g \in Segments, m \in Path : Append(g, m) \in Segments \ {<<>>}
    BY AppendFacts DEF Segments
  <2> QED
    BY <1>2, <2>1
<1>4. NextPieces(p, x, c) \in {Append(Append(f, l), <<>>), Append(f, Append(l, x))}
  BY <1>1, NextPiecesIs
<1> QED
  BY <1>3, <1>4

LEMMA SplitsAre ==
    ASSUME NEW s \in Path, NEW c
    PROVE  /\ Splits(s, c)[0] = <<<<>>>>
           /\ \A n \in 1..Len(s) : Splits(s, c)[n] = NextPieces(Splits(s, c)[n - 1], s[n], c)
           /\ \A n \in 0..Len(s) : Splits(s, c)[n] \in Segments \ {<<>>}
<1> DEFINE N == Len(s)
           D == Segments \ {<<>>}
           d == <<<<>>>>
           Step(p, n) == NextPieces(p, s[n], c)
           G == [n \in 1..N |-> [p \in D |-> Step(p, n)]]
           E(f) == [n \in 0..N |-> IF n = 0 THEN d ELSE Step(f[n - 1], n)]
<1>1. N \in Nat /\ \A n \in 1..N : s[n] \in Letters
  BY LenProperties, ElementOfSeq DEF Path
<1>2. d \in D
  BY EmptySeq DEF Segments, Path
<1>3. \A p \in D, n \in 1..N : Step(p, n) \in D
  BY <1>1, NextPiecesAre
<1> HIDE DEF N, D, d, Step
<1>4. G \in [1..N -> [D -> D]]
  BY <1>3
<1>5. \A n \in 1..N, p \in D : G[n][p] = Step(p, n)
  OBVIOUS
<1> HIDE DEF G
<1>6. PICK f \in [0..N -> D] : f[0] = d /\ \A n \in 1..N : f[n] = G[n][f[n - 1]]
  <2>1. \E f \in [0..N -> D] : Iterates(f, d, G, N)
    BY <1>1, <1>2, <1>4, Iterated
  <2> QED
    BY <2>1 DEF Iterates
<1>7. \A n \in 1..N : n - 1 \in 0..N /\ n \in 0..N /\ n # 0
  BY <1>1
<1>8. \A n \in 0..N : n = 0 \/ n \in 1..N
  BY <1>1
<1>9. f = E(f)
  <2>1. \A n \in 1..N : f[n] = Step(f[n - 1], n)
    BY <1>5, <1>6, <1>7
  <2>2. \A n \in 0..N : f[n] = IF n = 0 THEN d ELSE Step(f[n - 1], n)
    BY <1>6, <1>8, <2>1
  <2> QED
    BY <2>2
<1> DEFINE g == Splits(s, c)
<1>10. g = CHOOSE h : h = E(h)
  BY DEF Splits, N, d, Step
<1>11. g = E(g)
  <2> HIDE DEF g, E
  <2> QED
    BY <1>9, <1>10
<1> HIDE DEF g
<1>12. g[0] = d /\ \A n \in 1..N : g[n] = Step(g[n - 1], n)
  <2>1. \A n \in 0..N : g[n] = IF n = 0 THEN d ELSE Step(g[n - 1], n)
    BY <1>11
  <2>2. 0 \in 0..N
    BY <1>1
  <2> QED
    BY <1>7, <2>1, <2>2
<1>13. \A n \in 0..N : g[n] \in D
  <2> DEFINE T == {n \in Nat : n <= N => g[n] \in D}
  <2>1. 0 \in T
    BY <1>2, <1>12
  <2>2. ASSUME NEW n \in Nat, n \in T PROVE n + 1 \in T
    <3> SUFFICES ASSUME n + 1 <= N PROVE g[n + 1] \in D
      OBVIOUS
    <3>1. n <= N /\ n + 1 \in 1..N /\ (n + 1) - 1 = n
      BY <1>1
    <3>2. g[n] \in D
      BY <2>2, <3>1
    <3> QED
      BY <1>3, <1>12, <3>1, <3>2
  <2>3. \A n \in Nat : n \in T
    <3> HIDE DEF T
    <3> QED
      BY <2>1, <2>2, Upward
  <2> QED
    BY <1>1, <2>3
<1> QED
  BY <1>12, <1>13 DEF g, N, D, d, Step

LEMMA SplitGrows ==
    ASSUME NEW c
    PROVE  /\ Split(<<>>, c) = <<<<>>>>
           /\ \A s \in Path, x \in Letters :
                 /\ Split(s, c) \in Segments \ {<<>>}
                 /\ Split(Append(s, x), c) = NextPieces(Split(s, c), x, c)
<1>1. Split(<<>>, c) = <<<<>>>>
  <2>1. <<>> \in Path /\ Len(<<>>) = 0
    BY EmptySeq DEF Path
  <2> QED
    BY <2>1, SplitsAre DEF Split
<1>2. ASSUME NEW s \in Path, NEW x \in Letters
      PROVE  /\ Split(s, c) \in Segments \ {<<>>}
             /\ Split(Append(s, x), c) = NextPieces(Split(s, c), x, c)
  <2> DEFINE N == Len(s)
             t == Append(s, x)
             f == Splits(s, c)
             g == Splits(t, c)
             T == {n \in Nat : n <= N => g[n] = f[n]}
  <2>1. t \in Path /\ N \in Nat /\ Len(t) = N + 1 /\ (\A i \in 1..N : t[i] = s[i]) /\ t[N + 1] = x
    BY AppendFacts DEF Path
  <2>2. /\ f[0] = <<<<>>>> /\ \A n \in 1..N : f[n] = NextPieces(f[n - 1], s[n], c)
        /\ \A n \in 0..N : f[n] \in Segments \ {<<>>}
    BY SplitsAre
  <2> HIDE DEF t
  <2>3. g[0] = <<<<>>>> /\ \A n \in 1..Len(t) : g[n] = NextPieces(g[n - 1], t[n], c)
    BY <2>1, SplitsAre
  <2> HIDE DEF f, g, N
  <2>4. 0 \in T
    BY <2>2, <2>3
  <2>5. ASSUME NEW n \in Nat, n \in T PROVE n + 1 \in T
    <3> SUFFICES ASSUME n + 1 <= N PROVE g[n + 1] = f[n + 1]
      OBVIOUS
    <3>1. n <= N /\ n + 1 \in 1..N /\ n + 1 \in 1..(N + 1) /\ (n + 1) - 1 = n
      BY <2>1
    <3>2. g[n] = f[n]
      BY <2>5, <3>1
    <3>3. g[n + 1] = NextPieces(g[n], t[n + 1], c) /\ t[n + 1] = s[n + 1]
      BY <2>1, <2>3, <3>1
    <3>4. f[n + 1] = NextPieces(f[n], s[n + 1], c)
      BY <2>2, <3>1
    <3> QED
      BY <3>2, <3>3, <3>4
  <2>6. \A n \in Nat : n \in T
    <3> HIDE DEF T
    <3> QED
      BY <2>4, <2>5, Upward
  <2>7. g[N] = f[N] /\ f[N] \in Segments \ {<<>>}
    BY <2>1, <2>2, <2>6
  <2>8. g[N + 1] = NextPieces(g[N], x, c)
    <3>1. N + 1 \in 1..Len(t) /\ (N + 1) - 1 = N
      BY <2>1
    <3> QED
      BY <2>1, <2>3, <3>1
  <2> QED
    BY <2>1, <2>7, <2>8 DEF Split, f, g, N, t
<1> QED
  BY <1>1, <1>2

\* A path without c is one piece.
LEMMA SplitWhole ==
    ASSUME NEW c
    PROVE  \A s \in Path : (\A i \in 1..Len(s) : s[i] # c) => Split(s, c) = <<s>>
<1> DEFINE Free(s) == \A i \in 1..Len(s) : s[i] # c
           T == {s \in Path : Free(s) => Split(s, c) = <<s>>}
<1>0. <<>> \in Path /\ <<>> \in Segments
  BY EmptySeq DEF Path, Segments
<1>1. <<>> \in T
  BY <1>0, SplitGrows
<1>2. ASSUME NEW s \in Path, NEW x \in Letters, s \in T PROVE Append(s, x) \in T
  <2> DEFINE t == Append(s, x)
  <2>1. t \in Path /\ Len(s) \in Nat /\ Len(t) = Len(s) + 1
        /\ (\A i \in 1..Len(s) : t[i] = s[i]) /\ t[Len(s) + 1] = x
    BY AppendFacts DEF Path
  <2>2. SUFFICES ASSUME Free(t) PROVE Split(t, c) = <<t>>
    BY <2>1
  <2>3. Split(t, c) = NextPieces(Split(s, c), x, c)
    BY SplitGrows
  <2> HIDE DEF t
  <2>4. Free(s) /\ x # c
    <3>1. Len(s) + 1 \in 1..Len(t) /\ \A i \in 1..Len(s) : i \in 1..Len(t)
      BY <2>1
    <3> QED
      BY <2>1, <2>2, <3>1
  <2>5. Split(s, c) = Append(<<>>, s)
    BY <1>2, <2>4
  <2>6. NextPieces(Append(<<>>, s), x, c) = Append(<<>>, Append(s, x))
    BY <1>0, <2>4, NextPiecesIs
  <2> QED
    BY <2>3, <2>5, <2>6 DEF t
<1>3. \A s \in Path : s \in T
  <2> HIDE DEF T
  <2> QED
    BY <1>1, <1>2, Grown DEF Path
<1> QED
  BY <1>3

\* Concatenation.
LEMMA Concatenated ==
    ASSUME NEW X
    PROVE  /\ \A s, t \in Seq(X) : s \o t \in Seq(X)
           /\ \A s \in Seq(X) : s \o <<>> = s /\ <<>> \o s = s
           /\ \A s, t, u \in Seq(X) : (s \o t) \o u = s \o (t \o u)
           /\ \A x \in X : <<x>> \in Seq(X)
           /\ \A s \in Seq(X), x \in X : Append(s, x) = s \o <<x>>
           /\ \A s, t \in Seq(X), x \in X : s \o Append(t, x) = Append(s \o t, x)
<1>1. \A x \in X : <<x>> \in Seq(X)
  BY EmptySeq, AppendFacts
<1>2. \A s, t \in Seq(X) : s \o t \in Seq(X)
  BY ConcatProperties
<1>3. \A s, t, u \in Seq(X) : (s \o t) \o u = s \o (t \o u)
  BY ConcatAssociative
<1>4. \A s \in Seq(X), x \in X : Append(s, x) = s \o <<x>>
  BY AppendIsConcat
<1>5. ASSUME NEW s \in Seq(X), NEW t \in Seq(X), NEW x \in X
      PROVE  s \o Append(t, x) = Append(s \o t, x)
  <2>1. Append(t, x) = t \o <<x>> /\ <<x>> \in Seq(X) /\ s \o t \in Seq(X)
    BY <1>1, <1>2, <1>4
  <2>2. s \o (t \o <<x>>) = (s \o t) \o <<x>>
    BY <1>3, <2>1
  <2>3. Append(s \o t, x) = (s \o t) \o <<x>>
    BY <1>4, <2>1
  <2> QED
    BY <2>1, <2>2, <2>3
<1> QED
  BY <1>1, <1>2, <1>3, <1>4, <1>5, ConcatEmptySeq

LEMMA PairIs ==
    ASSUME NEW X, NEW x \in X, NEW y \in X
    PROVE  <<x>> \o <<y>> = <<x, y>>
<1> DEFINE a == <<x>>
           b == <<y>>
           p == <<x, y>>
<1>1. a \in Seq(X) /\ Len(a) = 1 /\ a[1] = x /\ b \in Seq(X) /\ Len(b) = 1 /\ b[1] = y
  OBVIOUS
<1>2. p \in Seq(X) /\ Len(p) = 2 /\ p[1] = x /\ p[2] = y
  OBVIOUS
<1> HIDE DEF a, b, p
<1>3. a \o b \in Seq(X) /\ Len(a \o b) = 2 /\ (a \o b)[1] = x /\ (a \o b)[2] = y
  <2>1. /\ a \o b \in Seq(X) /\ Len(a \o b) = Len(a) + Len(b)
        /\ \A i \in 1..(Len(a) + Len(b)) : (a \o b)[i] = IF i <= Len(a) THEN a[i] ELSE b[i - Len(a)]
    BY <1>1, ConcatProperties
  <2> QED
    BY <1>1, <2>1
<1>4. a \o b = p
  <2>1. \A i \in 1..2 : i = 1 \/ i = 2
    OBVIOUS
  <2>2. \A i \in 1..2 : (a \o b)[i] = p[i]
    BY <1>2, <1>3, <2>1
  <2> QED
    BY <1>2, <1>3, <2>2, SeqEqual
<1> QED
  BY <1>4 DEF a, b, p

\* The pieces of a text over X are texts over X that do not hold the separator.
LEMMA SplitWithin ==
    ASSUME NEW X \in SUBSET Letters, NEW c
    PROVE  \A s \in Seq(X) : Split(s, c) \in Seq(Seq(X \ {c})) \ {<<>>}
<1> DEFINE W == Seq(X \ {c})
           T == {s \in Seq(X) : Split(s, c) \in Seq(W) \ {<<>>}}
<1>1. W \subseteq Path /\ Seq(X) \subseteq Path
  BY SeqMonotonic DEF Path
<1>2. <<>> \in W /\ \A l \in W, x \in X \ {c} : Append(l, x) \in W
  BY EmptySeq, AppendFacts
<1> HIDE DEF W
<1>3. Seq(W) \subseteq Segments
  BY <1>1, SeqMonotonic DEF Segments
<1>4. <<>> \in Seq(W) /\ \A p \in Seq(W), l \in W : Append(p, l) \in Seq(W) \ {<<>>}
  BY EmptySeq, AppendFacts
<1>5. <<>> \in T
  <2>1. <<>> \in Seq(X) /\ Append(<<>>, <<>>) = <<<<>>>>
    BY EmptySeq
  <2> QED
    BY <1>2, <1>4, <2>1, SplitGrows
<1>6. ASSUME NEW s \in Seq(X), NEW x \in X, s \in T PROVE Append(s, x) \in T
  <2>1. Append(s, x) \in Seq(X) /\ s \in Path /\ x \in Letters
    BY <1>1, AppendFacts
  <2>2. Split(Append(s, x), c) = NextPieces(Split(s, c), x, c)
    BY <2>1, SplitGrows
  <2>3. PICK f \in Seq(W), l \in W : Split(s, c) = Append(f, l)
    BY <1>6, SequenceEmptyOrAppend
  <2>4. f \in Segments /\ l \in Path
    BY <1>1, <1>3
  <2>5. NextPieces(Append(f, l), x, c) \in Seq(W) \ {<<>>}
    <3>1. CASE x = c
      <4>1. NextPieces(Append(f, l), x, c) = Append(Append(f, l), <<>>)
        BY <2>1, <2>4, <3>1, NextPiecesIs
      <4> QED
        BY <1>2, <1>4, <4>1
    <3>2. CASE x # c
      <4>1. NextPieces(Append(f, l), x, c) = Append(f, Append(l, x))
        BY <2>1, <2>4, <3>2, NextPiecesIs
      <4> QED
        BY <1>2, <1>4, <3>2, <4>1
    <3> QED
      BY <3>1, <3>2
  <2> QED
    BY <2>1, <2>2, <2>3, <2>5
<1>7. \A s \in Seq(X) : s \in T
  <2> HIDE DEF T
  <2> QED
    BY <1>5, <1>6, Grown
<1> QED
  BY <1>7 DEF W

\* What is joined with the separator is split there.
LEMMA SplitJoined ==
    ASSUME NEW c \in Letters, NEW a \in Path
    PROVE  \A b \in Path : Split(Append(a, c) \o b, c) = Split(a, c) \o Split(b, c)
<1> DEFINE A == Split(a, c)
           h == Append(a, c)
           T == {b \in Path : Split(h \o b, c) = A \o Split(b, c)}
<1>0. <<>> \in Path
  BY EmptySeq DEF Path
<1>1. h \in Path /\ A \in Segments /\ Split(h, c) = NextPieces(A, c, c)
  BY SplitGrows, AppendFacts DEF Path
<1>2. /\ \A s, t \in Path : s \o t \in Path
      /\ \A s \in Path : s \o <<>> = s
      /\ \A s, t \in Path, x \in Letters : s \o Append(t, x) = Append(s \o t, x)
  BY Concatenated DEF Path
<1>3. /\ \A s, t \in Segments : s \o t \in Segments
      /\ \A s \in Segments, x \in Path : Append(s, x) = s \o <<x>> /\ Append(s, x) \in Segments
      /\ \A s, t \in Segments, x \in Path : s \o Append(t, x) = Append(s \o t, x)
  BY Concatenated, AppendFacts DEF Segments
<1> HIDE DEF A, h
<1>4. <<>> \in T
  <2>1. Split(h \o <<>>, c) = Append(A, <<>>)
    BY <1>1, <1>2 DEF NextPieces
  <2> QED
    BY <1>0, <1>1, <1>3, <2>1, SplitGrows
<1>5. ASSUME NEW b \in Path, NEW x \in Letters, b \in T PROVE Append(b, x) \in T
  <2>1. Split(b, c) \in Segments \ {<<>>} /\ Split(Append(b, x), c) = NextPieces(Split(b, c), x, c)
    BY SplitGrows
  <2>2. PICK f \in Segments, l \in Path : Split(b, c) = Append(f, l)
    BY <2>1, SequenceEmptyOrAppend DEF Segments
  <2>3. A \o f \in Segments /\ A \o Append(f, l) = Append(A \o f, l)
    BY <1>1, <1>3
  <2>4. Split(h \o Append(b, x), c) = NextPieces(Append(A \o f, l), x, c)
    <3>1. h \o b \in Path /\ h \o Append(b, x) = Append(h \o b, x)
      BY <1>1, <1>2
    <3>2. Split(Append(h \o b, x), c) = NextPieces(Split(h \o b, c), x, c)
      BY <3>1, SplitGrows
    <3> QED
      BY <1>5, <2>2, <2>3, <3>1, <3>2
  <2>5. NextPieces(Append(A \o f, l), x, c) = A \o NextPieces(Append(f, l), x, c)
    <3>1. CASE x = c
      <4>0. \A g \in Segments : NextPieces(Append(g, l), x, c) = Append(Append(g, l), <<>>)
        BY <3>1, NextPiecesIs
      <4>1. NextPieces(Append(A \o f, l), x, c) = Append(Append(A \o f, l), <<>>)
        BY <2>3, <4>0
      <4>2. NextPieces(Append(f, l), x, c) = Append(Append(f, l), <<>>)
        BY <3>1, NextPiecesIs
      <4>3. Append(f, l) \in Segments
        BY <1>3
      <4>4. A \o Append(Append(f, l), <<>>) = Append(A \o Append(f, l), <<>>)
        BY <1>0, <1>1, <1>3, <4>3
      <4> QED
        BY <2>3, <4>1, <4>2, <4>4
    <3>2. CASE x # c
      <4>0. \A g \in Segments : NextPieces(Append(g, l), x, c) = Append(g, Append(l, x))
        BY <3>2, NextPiecesIs
      <4>1. NextPieces(Append(A \o f, l), x, c) = Append(A \o f, Append(l, x))
        BY <2>3, <4>0
      <4>2. NextPieces(Append(f, l), x, c) = Append(f, Append(l, x))
        BY <3>2, NextPiecesIs
      <4>3. Append(l, x) \in Path
        BY AppendFacts DEF Path
      <4>4. A \o Append(f, Append(l, x)) = Append(A \o f, Append(l, x))
        BY <1>1, <1>3, <4>3
      <4> QED
        BY <4>1, <4>2, <4>4
    <3> QED
      BY <3>1, <3>2
  <2>6. Append(b, x) \in Path
    BY AppendFacts DEF Path
  <2> QED
    BY <2>1, <2>2, <2>4, <2>5, <2>6
<1>6. \A b \in Path : b \in T
  <2> HIDE DEF T
  <2> QED
    BY <1>4, <1>5, Grown DEF Path
<1> QED
  BY <1>6 DEF h, A

-----------------------------------------------------------------------------
\* What the URL parser strips.
LEMMA StripsAre ==
    ASSUME NEW path \in Path
    PROVE  /\ Strips(path)[0] = <<>>
           /\ \A n \in 1..Len(path) : Strips(path)[n] = IF path[n] = "tab" THEN Strips(path)[n - 1] ELSE Append(Strips(path)[n - 1], IF path[n] = "\\" THEN "/" ELSE path[n])
           /\ \A n \in 0..Len(path) : Strips(path)[n] \in Path
<1> DEFINE N == Len(path)
           D == Path
           d == <<>>
           Step(p, n) == IF path[n] = "tab" THEN p ELSE Append(p, IF path[n] = "\\" THEN "/" ELSE path[n])
           G == [n \in 1..N |-> [p \in D |-> Step(p, n)]]
           E(f) == [n \in 0..N |-> IF n = 0 THEN d ELSE Step(f[n - 1], n)]
<1>1. N \in Nat /\ \A n \in 1..N : path[n] \in Letters
  BY LenProperties, ElementOfSeq DEF Path
<1>2. d \in D
  BY EmptySeq DEF Path
<1>3. \A p \in D, n \in 1..N : Step(p, n) \in D
  <2>1. "/" \in Letters /\ \A p \in D, x \in Letters : Append(p, x) \in D
    BY AppendFacts DEF Path, Letters
  <2> QED
    BY <1>1, <2>1
<1> HIDE DEF N, D, d, Step
<1>4. G \in [1..N -> [D -> D]]
  BY <1>3
<1>5. \A n \in 1..N, p \in D : G[n][p] = Step(p, n)
  OBVIOUS
<1> HIDE DEF G
<1>6. PICK f \in [0..N -> D] : f[0] = d /\ \A n \in 1..N : f[n] = G[n][f[n - 1]]
  <2>1. \E f \in [0..N -> D] : Iterates(f, d, G, N)
    BY <1>1, <1>2, <1>4, Iterated
  <2> QED
    BY <2>1 DEF Iterates
<1>7. \A n \in 1..N : n - 1 \in 0..N /\ n \in 0..N /\ n # 0
  BY <1>1
<1>8. \A n \in 0..N : n = 0 \/ n \in 1..N
  BY <1>1
<1>9. f = E(f)
  <2>1. \A n \in 1..N : f[n] = Step(f[n - 1], n)
    BY <1>5, <1>6, <1>7
  <2>2. \A n \in 0..N : f[n] = IF n = 0 THEN d ELSE Step(f[n - 1], n)
    BY <1>6, <1>8, <2>1
  <2> QED
    BY <2>2
<1> DEFINE g == Strips(path)
<1>10. g = CHOOSE h : h = E(h)
  BY DEF Strips, N, d, Step
<1>11. g = E(g)
  <2> HIDE DEF g, E
  <2> QED
    BY <1>9, <1>10
<1> HIDE DEF g
<1>12. g[0] = d /\ \A n \in 1..N : g[n] = Step(g[n - 1], n)
  <2>1. \A n \in 0..N : g[n] = IF n = 0 THEN d ELSE Step(g[n - 1], n)
    BY <1>11
  <2>2. 0 \in 0..N
    BY <1>1
  <2> QED
    BY <1>7, <2>1, <2>2
<1>13. \A n \in 0..N : g[n] \in D
  <2> DEFINE T == {n \in Nat : n <= N => g[n] \in D}
  <2>1. 0 \in T
    BY <1>2, <1>12
  <2>2. ASSUME NEW n \in Nat, n \in T PROVE n + 1 \in T
    <3> SUFFICES ASSUME n + 1 <= N PROVE g[n + 1] \in D
      OBVIOUS
    <3>1. n <= N /\ n + 1 \in 1..N /\ (n + 1) - 1 = n
      BY <1>1
    <3>2. g[n] \in D
      BY <2>2, <3>1
    <3> QED
      BY <1>3, <1>12, <3>1, <3>2
  <2>3. \A n \in Nat : n \in T
    <3> HIDE DEF T
    <3> QED
      BY <2>1, <2>2, Upward
  <2> QED
    BY <1>1, <2>3
<1> QED
  BY <1>12, <1>13 DEF g, N, D, d, Step

LEMMA StripFacts ==
    ASSUME NEW path \in Path
    PROVE  /\ Strip(path) \in Path
           /\ (\A i \in 1..Len(path) : path[i] \notin {"tab", "\\"}) => Strip(path) = path
<1> DEFINE N == Len(path)
           g == Strips(path)
<1>1. N \in Nat /\ \A n \in 1..N : path[n] \in Letters
  BY LenProperties, ElementOfSeq DEF Path
<1>2. /\ g[0] = <<>>
      /\ \A n \in 1..N : g[n] = IF path[n] = "tab" THEN g[n - 1]
                               ELSE Append(g[n - 1], IF path[n] = "\\" THEN "/" ELSE path[n])
      /\ \A n \in 0..N : g[n] \in Path
  BY StripsAre
<1> HIDE DEF g, N
<1>3. g[N] \in Path
  BY <1>1, <1>2
<1>4. ASSUME \A n \in 1..N : path[n] \notin {"tab", "\\"}
      PROVE  g[N] = path
  <2> DEFINE Same(t, n) == Len(t) = n /\ \A i \in 1..n : t[i] = path[i]
             T == {n \in Nat : n <= N => Same(g[n], n)}
  <2>1. 0 \in T
    BY <1>2
  <2>2. ASSUME NEW n \in Nat, n \in T PROVE n + 1 \in T
    <3> SUFFICES ASSUME n + 1 <= N PROVE Same(g[n + 1], n + 1)
      OBVIOUS
    <3>1. n <= N /\ n \in 0..N /\ n + 1 \in 1..N /\ (n + 1) - 1 = n
      BY <1>1
    <3>2. Same(g[n], n) /\ g[n] \in Path /\ path[n + 1] \in Letters
      BY <1>1, <1>2, <2>2, <3>1
    <3> DEFINE t == Append(g[n], path[n + 1])
    <3>3. g[n + 1] = t
      BY <1>2, <1>4, <3>1
    <3>4. Len(t) = Len(g[n]) + 1 /\ (\A i \in 1..Len(g[n]) : t[i] = g[n][i]) /\ t[Len(g[n]) + 1] = path[n + 1]
      BY <3>2, AppendFacts DEF Path
    <3> HIDE DEF t
    <3>5. \A i \in 1..(n + 1) : i \in 1..n \/ i = n + 1
      OBVIOUS
    <3> QED
      BY <3>2, <3>3, <3>4, <3>5
  <2>3. N \in T
    <3> HIDE DEF T
    <3> QED
      BY <1>1, <2>1, <2>2, Upward
  <2>4. Len(g[N]) = N /\ \A i \in 1..N : g[N][i] = path[i]
    BY <1>1, <2>3
  <2> QED
    BY <1>3, <2>4, SeqEqual DEF Path, N
<1> QED
  BY <1>3, <1>4 DEF Strip, g, N

-----------------------------------------------------------------------------
\* Segments, written out.
LEMMA WritesAre ==
    ASSUME NEW segments \in Segments
    PROVE  /\ Writes(segments)[0] = <<>>
           /\ \A n \in 1..Len(segments) : Writes(segments)[n] = Append(Writes(segments)[n - 1], "/") \o segments[n]
           /\ \A n \in 0..Len(segments) : Writes(segments)[n] \in Path
<1> DEFINE N == Len(segments)
           D == Path
           d == <<>>
           Step(p, n) == Append(p, "/") \o segments[n]
           G == [n \in 1..N |-> [p \in D |-> Step(p, n)]]
           E(f) == [n \in 0..N |-> IF n = 0 THEN d ELSE Step(f[n - 1], n)]
<1>1. N \in Nat /\ \A n \in 1..N : segments[n] \in Path
  BY LenProperties, ElementOfSeq DEF Segments
<1>2. d \in D
  BY EmptySeq DEF Path
<1>3. \A p \in D, n \in 1..N : Step(p, n) \in D
  <2>1. \A p \in D : Append(p, "/") \in D
    BY AppendFacts DEF Path, Letters
  <2>2. \A p, q \in D : p \o q \in D
    BY Concatenated DEF Path
  <2> QED
    BY <1>1, <2>1, <2>2
<1> HIDE DEF N, D, d, Step
<1>4. G \in [1..N -> [D -> D]]
  BY <1>3
<1>5. \A n \in 1..N, p \in D : G[n][p] = Step(p, n)
  OBVIOUS
<1> HIDE DEF G
<1>6. PICK f \in [0..N -> D] : f[0] = d /\ \A n \in 1..N : f[n] = G[n][f[n - 1]]
  <2>1. \E f \in [0..N -> D] : Iterates(f, d, G, N)
    BY <1>1, <1>2, <1>4, Iterated
  <2> QED
    BY <2>1 DEF Iterates
<1>7. \A n \in 1..N : n - 1 \in 0..N /\ n \in 0..N /\ n # 0
  BY <1>1
<1>8. \A n \in 0..N : n = 0 \/ n \in 1..N
  BY <1>1
<1>9. f = E(f)
  <2>1. \A n \in 1..N : f[n] = Step(f[n - 1], n)
    BY <1>5, <1>6, <1>7
  <2>2. \A n \in 0..N : f[n] = IF n = 0 THEN d ELSE Step(f[n - 1], n)
    BY <1>6, <1>8, <2>1
  <2> QED
    BY <2>2
<1> DEFINE g == Writes(segments)
<1>10. g = CHOOSE h : h = E(h)
  BY DEF Writes, N, d, Step
<1>11. g = E(g)
  <2> HIDE DEF g, E
  <2> QED
    BY <1>9, <1>10
<1> HIDE DEF g
<1>12. g[0] = d /\ \A n \in 1..N : g[n] = Step(g[n - 1], n)
  <2>1. \A n \in 0..N : g[n] = IF n = 0 THEN d ELSE Step(g[n - 1], n)
    BY <1>11
  <2>2. 0 \in 0..N
    BY <1>1
  <2> QED
    BY <1>7, <2>1, <2>2
<1>13. \A n \in 0..N : g[n] \in D
  <2> DEFINE T == {n \in Nat : n <= N => g[n] \in D}
  <2>1. 0 \in T
    BY <1>2, <1>12
  <2>2. ASSUME NEW n \in Nat, n \in T PROVE n + 1 \in T
    <3> SUFFICES ASSUME n + 1 <= N PROVE g[n + 1] \in D
      OBVIOUS
    <3>1. n <= N /\ n + 1 \in 1..N /\ (n + 1) - 1 = n
      BY <1>1
    <3>2. g[n] \in D
      BY <2>2, <3>1
    <3> QED
      BY <1>3, <1>12, <3>1, <3>2
  <2>3. \A n \in Nat : n \in T
    <3> HIDE DEF T
    <3> QED
      BY <2>1, <2>2, Upward
  <2> QED
    BY <1>1, <2>3
<1> QED
  BY <1>12, <1>13 DEF g, N, D, d, Step

LEMMA WrittenGrows ==
    /\ Written(<<>>) = <<>>
    /\ \A s \in Segments, x \in Path :
          /\ Written(s) \in Path
          /\ Written(Append(s, x)) = Append(Written(s), "/") \o x
<1>1. Written(<<>>) = <<>>
  <2>1. <<>> \in Segments /\ Len(<<>>) = 0
    BY EmptySeq DEF Segments
  <2> QED
    BY <2>1, WritesAre DEF Written
<1>2. ASSUME NEW s \in Segments, NEW x \in Path
      PROVE  Written(s) \in Path /\ Written(Append(s, x)) = Append(Written(s), "/") \o x
  <2> DEFINE N == Len(s)
             t == Append(s, x)
             f == Writes(s)
             g == Writes(t)
             T == {n \in Nat : n <= N => g[n] = f[n]}
  <2>1. t \in Segments /\ N \in Nat /\ Len(t) = N + 1 /\ (\A i \in 1..N : t[i] = s[i]) /\ t[N + 1] = x
    BY AppendFacts DEF Segments
  <2>2. /\ f[0] = <<>> /\ \A n \in 1..N : f[n] = Append(f[n - 1], "/") \o s[n]
        /\ \A n \in 0..N : f[n] \in Path
    BY WritesAre
  <2> HIDE DEF t
  <2>3. g[0] = <<>> /\ \A n \in 1..Len(t) : g[n] = Append(g[n - 1], "/") \o t[n]
    BY <2>1, WritesAre
  <2> HIDE DEF f, g, N
  <2>4. 0 \in T
    BY <2>2, <2>3
  <2>5. ASSUME NEW n \in Nat, n \in T PROVE n + 1 \in T
    <3> SUFFICES ASSUME n + 1 <= N PROVE g[n + 1] = f[n + 1]
      OBVIOUS
    <3>1. n <= N /\ n + 1 \in 1..N /\ n + 1 \in 1..(N + 1) /\ (n + 1) - 1 = n
      BY <2>1
    <3>2. g[n] = f[n]
      BY <2>5, <3>1
    <3>3. g[n + 1] = Append(g[n], "/") \o t[n + 1] /\ t[n + 1] = s[n + 1]
      BY <2>1, <2>3, <3>1
    <3>4. f[n + 1] = Append(f[n], "/") \o s[n + 1]
      BY <2>2, <3>1
    <3> QED
      BY <3>2, <3>3, <3>4
  <2>6. \A n \in Nat : n \in T
    <3> HIDE DEF T
    <3> QED
      BY <2>4, <2>5, Upward
  <2>7. g[N] = f[N] /\ f[N] \in Path
    BY <2>1, <2>2, <2>6
  <2>8. g[N + 1] = Append(g[N], "/") \o x
    <3>1. N + 1 \in 1..Len(t) /\ (N + 1) - 1 = N
      BY <2>1
    <3> QED
      BY <2>1, <2>3, <3>1
  <2> QED
    BY <2>1, <2>7, <2>8 DEF Written, f, g, N, t
<1> QED
  BY <1>1, <1>2

-----------------------------------------------------------------------------
\* Dot segments, and what is left of them.
LEMMA DotsMeans ==
    ASSUME NEW seg \in Path, IsDots(seg)
    PROVE  Len(seg) >= 1 /\ seg[1] \in {".", "%2e"}
<1>1. Len(seg) \in Nat /\ DOMAIN seg = 1..Len(seg)
  BY LenProperties DEF Path
<1> DEFINE t == Decode(seg)
<1>2. t \in {<<".">>, <<".", ".">>}
  BY DEF IsDots
<1>3. DOMAIN t = 1..Len(seg)
  BY <1>1 DEF Decode
<1>4. DOMAIN t \in {1..1, 1..2} /\ t[1] = "."
  <2> HIDE DEF t
  <2> QED
    BY <1>2
<1>5. 1 \in 1..Len(seg)
  <2> HIDE DEF t
  <2>1. 1 \in DOMAIN t
    BY <1>4
  <2> QED
    BY <1>3, <2>1
<1>6. t[1] = IF seg[1] = "%2e" THEN "." ELSE seg[1]
  BY <1>1, <1>5 DEF Decode
<1> HIDE DEF t
<1> QED
  BY <1>1, <1>4, <1>5, <1>6

Plain(X) == {seg \in X : ~IsDots(seg)}

LEMMA ResolvedSegment ==
    ASSUME NEW X \in SUBSET Path, <<>> \in X, NEW done \in Seq(Plain(X)), NEW seg \in X, NEW final
    PROVE  ResolveSegment(done, seg, final) \in Seq(Plain(X))
<1> DEFINE Y == Plain(X)
           tail == IF final THEN <<<<>>>> ELSE <<>>
<1>1. <<>> \in Y
  <2>1. ~IsDots(<<>>)
    <3>1. <<>> \in Path /\ ~(Len(<<>>) >= 1)
      BY EmptySeq DEF Path
    <3> QED
      BY <3>1, DotsMeans
  <2> QED
    BY <2>1 DEF Plain
<1>2. ~IsDots(seg) => seg \in Y
  BY DEF Plain
<1> HIDE DEF Y
<1>3. tail \in Seq(Y) /\ \A s, t \in Seq(Y) : s \o t \in Seq(Y)
  BY <1>1, EmptySeq, Concatenated
<1>4. \A s \in Seq(Y), g \in Y : Append(s, g) \in Seq(Y)
  BY AppendFacts
<1>5. done # <<>> => Front(done) \in Seq(Y)
  <2> HAVE done # <<>>
  <2>1. PICK s \in Seq(Y), g \in Y : done = Append(s, g)
    BY SequenceEmptyOrAppend DEF Y
  <2> QED
    BY <2>1, LastOf
<1>6. done \in Seq(Y)
  BY DEF Y
<1> HIDE DEF tail
<1>7. ResolveSegment(done, seg, final) =
        IF ~IsDots(seg) THEN Append(done, seg)
        ELSE (IF Len(seg) = 1 \/ done = <<>> THEN done ELSE Front(done)) \o tail
  BY DEF ResolveSegment, tail
<1> QED
  BY <1>2, <1>3, <1>4, <1>5, <1>6, <1>7 DEF Y

LEMMA ResolvesAre ==
    ASSUME NEW X \in SUBSET Path, <<>> \in X, NEW segments \in Seq(X)
    PROVE  /\ Resolves(segments)[0] = <<>>
           /\ \A n \in 1..Len(segments) : Resolves(segments)[n] = ResolveSegment(Resolves(segments)[n - 1], segments[n], n = Len(segments))
           /\ \A n \in 0..Len(segments) : Resolves(segments)[n] \in Seq(Plain(X))
<1> DEFINE N == Len(segments)
           D == Seq(Plain(X))
           d == <<>>
           Step(p, n) == ResolveSegment(p, segments[n], n = Len(segments))
           G == [n \in 1..N |-> [p \in D |-> Step(p, n)]]
           E(f) == [n \in 0..N |-> IF n = 0 THEN d ELSE Step(f[n - 1], n)]
<1>1. N \in Nat /\ \A n \in 1..N : segments[n] \in X
  BY LenProperties, ElementOfSeq
<1>2. d \in D
  BY EmptySeq
<1>3. \A p \in D, n \in 1..N : Step(p, n) \in D
  <2>1. \A p \in D, y \in X : \A final : ResolveSegment(p, y, final) \in D
    BY ResolvedSegment
  <2> QED
    BY <1>1, <2>1
<1> HIDE DEF N, D, d, Step
<1>4. G \in [1..N -> [D -> D]]
  BY <1>3
<1>5. \A n \in 1..N, p \in D : G[n][p] = Step(p, n)
  OBVIOUS
<1> HIDE DEF G
<1>6. PICK f \in [0..N -> D] : f[0] = d /\ \A n \in 1..N : f[n] = G[n][f[n - 1]]
  <2>1. \E f \in [0..N -> D] : Iterates(f, d, G, N)
    BY <1>1, <1>2, <1>4, Iterated
  <2> QED
    BY <2>1 DEF Iterates
<1>7. \A n \in 1..N : n - 1 \in 0..N /\ n \in 0..N /\ n # 0
  BY <1>1
<1>8. \A n \in 0..N : n = 0 \/ n \in 1..N
  BY <1>1
<1>9. f = E(f)
  <2>1. \A n \in 1..N : f[n] = Step(f[n - 1], n)
    BY <1>5, <1>6, <1>7
  <2>2. \A n \in 0..N : f[n] = IF n = 0 THEN d ELSE Step(f[n - 1], n)
    BY <1>6, <1>8, <2>1
  <2> QED
    BY <2>2
<1> DEFINE g == Resolves(segments)
<1>10. g = CHOOSE h : h = E(h)
  BY DEF Resolves, N, d, Step
<1>11. g = E(g)
  <2> HIDE DEF g, E
  <2> QED
    BY <1>9, <1>10
<1> HIDE DEF g
<1>12. g[0] = d /\ \A n \in 1..N : g[n] = Step(g[n - 1], n)
  <2>1. \A n \in 0..N : g[n] = IF n = 0 THEN d ELSE Step(g[n - 1], n)
    BY <1>11
  <2>2. 0 \in 0..N
    BY <1>1
  <2> QED
    BY <1>7, <2>1, <2>2
<1>13. \A n \in 0..N : g[n] \in D
  <2> DEFINE T == {n \in Nat : n <= N => g[n] \in D}
  <2>1. 0 \in T
    BY <1>2, <1>12
  <2>2. ASSUME NEW n \in Nat, n \in T PROVE n + 1 \in T
    <3> SUFFICES ASSUME n + 1 <= N PROVE g[n + 1] \in D
      OBVIOUS
    <3>1. n <= N /\ n + 1 \in 1..N /\ (n + 1) - 1 = n
      BY <1>1
    <3>2. g[n] \in D
      BY <2>2, <3>1
    <3> QED
      BY <1>3, <1>12, <3>1, <3>2
  <2>3. \A n \in Nat : n \in T
    <3> HIDE DEF T
    <3> QED
      BY <2>1, <2>2, Upward
  <2> QED
    BY <1>1, <2>3
<1> QED
  BY <1>12, <1>13 DEF g, N, D, d, Step

LEMMA ResolveFacts ==
    ASSUME NEW X \in SUBSET Path, <<>> \in X, NEW segments \in Seq(X)
    PROVE  /\ Resolve(segments) \in Seq(Plain(X))
           /\ (\A i \in 1..Len(segments) : ~IsDots(segments[i])) => Resolve(segments) = segments
<1> DEFINE N == Len(segments)
           g == Resolves(segments)
           Y == Plain(X)
<1>1. N \in Nat /\ \A n \in 1..N : segments[n] \in X
  BY LenProperties, ElementOfSeq
<1>2. /\ g[0] = <<>>
      /\ \A n \in 1..N : g[n] = ResolveSegment(g[n - 1], segments[n], n = N)
      /\ \A n \in 0..N : g[n] \in Seq(Y)
  BY ResolvesAre
<1>3. \A seg \in Y : seg \in X
  BY DEF Plain
<1>4. \A seg \in X : ~IsDots(seg) => seg \in Y
  BY DEF Plain
<1> HIDE DEF g, N, Y
<1>5. g[N] \in Seq(Y)
  BY <1>1, <1>2
<1>6. ASSUME \A n \in 1..N : ~IsDots(segments[n])
      PROVE  g[N] = segments
  <2> DEFINE Same(t, n) == Len(t) = n /\ \A i \in 1..n : t[i] = segments[i]
             T == {n \in Nat : n <= N => Same(g[n], n)}
  <2>1. 0 \in T
    BY <1>2
  <2>2. ASSUME NEW n \in Nat, n \in T PROVE n + 1 \in T
    <3> SUFFICES ASSUME n + 1 <= N PROVE Same(g[n + 1], n + 1)
      OBVIOUS
    <3>1. n <= N /\ n \in 0..N /\ n + 1 \in 1..N /\ (n + 1) - 1 = n
      BY <1>1
    <3>2. Same(g[n], n) /\ g[n] \in Seq(Y) /\ segments[n + 1] \in Y
      BY <1>1, <1>2, <1>4, <1>6, <2>2, <3>1
    <3> DEFINE t == Append(g[n], segments[n + 1])
    <3>3. g[n + 1] = t
      BY <1>2, <1>6, <3>1 DEF ResolveSegment
    <3>4. Len(t) = Len(g[n]) + 1 /\ (\A i \in 1..Len(g[n]) : t[i] = g[n][i]) /\ t[Len(g[n]) + 1] = segments[n + 1]
      BY <3>2, AppendFacts
    <3> HIDE DEF t
    <3>5. \A i \in 1..(n + 1) : i \in 1..n \/ i = n + 1
      OBVIOUS
    <3> QED
      BY <3>2, <3>3, <3>4, <3>5
  <2>3. N \in T
    <3> HIDE DEF T
    <3> QED
      BY <1>1, <2>1, <2>2, Upward
  <2>4. Len(g[N]) = N /\ \A i \in 1..N : g[N][i] = segments[i]
    BY <1>1, <2>3
  <2>5. g[N] \in Seq(X)
    BY <1>3, <1>5, SeqMonotonic
  <2> QED
    BY <2>4, <2>5, SeqEqual DEF N
<1> QED
  BY <1>5, <1>6 DEF Resolve, g, N, Y

-----------------------------------------------------------------------------
\* Writing and splitting undo each other.
Solid == Seq(Letters \ {"/"})

LEMMA SolidFacts ==
    /\ Solid \in SUBSET Path /\ <<>> \in Solid
    /\ Seq(Solid) \subseteq Segments
    /\ \A s \in Path : Split(s, "/") \in Seq(Solid) \ {<<>>}
    /\ "/" \in Letters
<1>1. Solid \in SUBSET Path /\ <<>> \in Solid
  BY SeqMonotonic, EmptySeq DEF Solid, Path
<1>2. Seq(Solid) \subseteq Segments
  BY <1>1, SeqMonotonic DEF Segments
<1>3. \A s \in Seq(Letters) : Split(s, "/") \in Seq(Seq(Letters \ {"/"})) \ {<<>>}
  BY SplitWithin
<1> QED
  BY <1>1, <1>2, <1>3 DEF Solid, Path, Letters

LEMMA SplitWritten ==
    \A segments \in Seq(Solid) : Split(Written(segments), "/") = <<<<>>>> \o segments
<1> DEFINE T == {s \in Seq(Solid) : Split(Written(s), "/") = <<<<>>>> \o s}
<1>0. <<>> \in Seq(Solid) /\ <<>> \in Path /\ <<<<>>>> \in Segments
  BY SolidFacts, EmptySeq, Concatenated DEF Segments
<1>1. <<>> \in T
  <2>1. <<<<>>>> \o <<>> = <<<<>>>>
    BY <1>0, Concatenated DEF Segments
  <2> QED
    BY <1>0, <2>1, WrittenGrows, SplitGrows
<1>2. ASSUME NEW s \in Seq(Solid), NEW x \in Solid, s \in T PROVE Append(s, x) \in T
  <2>1. s \in Segments /\ x \in Path /\ Append(s, x) \in Seq(Solid)
    BY SolidFacts, AppendFacts
  <2>2. Written(s) \in Path /\ Written(Append(s, x)) = Append(Written(s), "/") \o x
    BY <2>1, WrittenGrows
  <2>3. Split(Append(Written(s), "/") \o x, "/") = Split(Written(s), "/") \o Split(x, "/")
    BY <2>1, <2>2, SolidFacts, SplitJoined
  <2>4. Split(x, "/") = <<x>>
    <3>1. \A i \in 1..Len(x) : x[i] # "/"
      BY ElementOfSeq DEF Solid
    <3> QED
      BY <2>1, <3>1, SplitWhole
  <2>5. (<<<<>>>> \o s) \o <<x>> = <<<<>>>> \o Append(s, x)
    BY <1>0, <2>1, Concatenated DEF Segments
  <2> QED
    BY <1>2, <2>1, <2>2, <2>3, <2>4, <2>5
<1>3. \A s \in Seq(Solid) : s \in T
  <2> HIDE DEF T
  <2> QED
    BY <1>1, <1>2, Grown
<1> QED
  BY <1>3

LEMMA WrittenSplit ==
    \A path \in Path : Written(Split(path, "/")) = <<"/">> \o path
<1> DEFINE T == {r \in Path : Written(Split(r, "/")) = <<"/">> \o r}
<1>0. <<>> \in Path /\ <<>> \in Segments /\ <<"/">> \in Path /\ "/" \in Letters
  BY SolidFacts, EmptySeq, Concatenated DEF Path, Segments
<1>1. /\ \A s, t \in Path : s \o t \in Path
      /\ \A s \in Path : s \o <<>> = s /\ <<>> \o s = s
      /\ \A s \in Path, x \in Letters : Append(s, x) = s \o <<x>> /\ Append(s, x) \in Path
      /\ \A s, t \in Path, x \in Letters : s \o Append(t, x) = Append(s \o t, x)
  BY Concatenated, AppendFacts DEF Path
<1>2. <<>> \in T
  <2>1. Split(<<>>, "/") = Append(<<>>, <<>>)
    BY SplitGrows
  <2>2. Written(Append(<<>>, <<>>)) = Append(<<>>, "/") \o <<>>
    BY <1>0, WrittenGrows
  <2>3. Append(<<>>, "/") = <<"/">>
    OBVIOUS
  <2> QED
    BY <1>0, <1>1, <2>1, <2>2, <2>3
<1>3. ASSUME NEW r \in Path, NEW x \in Letters, r \in T PROVE Append(r, x) \in T
  <2>1. Split(r, "/") \in Segments \ {<<>>} /\ Split(Append(r, x), "/") = NextPieces(Split(r, "/"), x, "/")
    BY SplitGrows
  <2>2. PICK f \in Segments, l \in Path : Split(r, "/") = Append(f, l)
    BY <2>1, SequenceEmptyOrAppend DEF Segments
  <2>3. /\ Written(f) \in Path
        /\ \A y \in Path : Written(Append(f, y)) = Append(Written(f), "/") \o y
    BY WrittenGrows
  <2>4. <<"/">> \o r \in Path /\ <<"/">> \o Append(r, x) = Append(<<"/">> \o r, x)
    BY <1>0, <1>1
  <2>5. CASE x = "/"
    <3>1. NextPieces(Append(f, l), x, "/") = Append(Append(f, l), <<>>)
      BY <2>5, NextPiecesIs
    <3>2. Written(Append(Append(f, l), <<>>)) = Append(Written(Append(f, l)), "/") \o <<>>
      BY <1>0, <2>1, <2>2, WrittenGrows
    <3>3. Append(<<"/">> \o r, "/") \in Path
      BY <1>0, <1>1, <2>4
    <3>4. Written(Split(Append(r, x), "/")) = Append(<<"/">> \o r, "/")
      <4>1. Written(Append(f, l)) = <<"/">> \o r
        BY <1>3, <2>2
      <4>2. Append(<<"/">> \o r, "/") \o <<>> = Append(<<"/">> \o r, "/")
        BY <1>1, <3>3
      <4> QED
        BY <2>1, <2>2, <3>1, <3>2, <4>1, <4>2
    <3>5. <<"/">> \o Append(r, x) = Append(<<"/">> \o r, "/") /\ Append(r, x) \in Path
      BY <1>1, <2>4, <2>5
    <3> QED
      BY <3>4, <3>5
  <2>6. CASE x # "/"
    <3>1. NextPieces(Append(f, l), x, "/") = Append(f, Append(l, x))
      BY <2>6, NextPiecesIs
    <3>2. Append(l, x) \in Path /\ Append(Written(f), "/") \in Path
      BY <1>0, <1>1, <2>3
    <3>3. Append(Written(f), "/") \o Append(l, x) = Append(Append(Written(f), "/") \o l, x)
      BY <1>1, <3>2
    <3>4. Written(Split(Append(r, x), "/")) = Append(<<"/">> \o r, x)
      <4>1. Append(Written(f), "/") \o l = <<"/">> \o r
        BY <1>3, <2>2, <2>3
      <4>2. Written(Append(f, Append(l, x))) = Append(Written(f), "/") \o Append(l, x)
        BY <2>3, <3>2
      <4> QED
        BY <2>1, <2>2, <3>1, <3>3, <4>1, <4>2
    <3>5. Append(r, x) \in Path
      BY <1>1
    <3> QED
      BY <2>4, <3>4, <3>5
  <2> QED
    BY <2>5, <2>6
<1>4. \A r \in Path : r \in T
  <2> HIDE DEF T
  <2> QED
    BY <1>2, <1>3, Grown DEF Path
<1> QED
  BY <1>4

LEMMA WrittenJoined ==
    ASSUME NEW a \in Segments
    PROVE  \A b \in Segments : Written(a \o b) = Written(a) \o Written(b)
<1> DEFINE T == {b \in Segments : Written(a \o b) = Written(a) \o Written(b)}
<1>0. <<>> \in Segments /\ "/" \in Letters
  BY SolidFacts, EmptySeq DEF Segments
<1>1. \A s \in Segments : Written(s) \in Path
  BY WrittenGrows, EmptySeq DEF Path
<1>2. /\ \A s, t \in Path : s \o t \in Path
      /\ \A s \in Path : s \o <<>> = s
      /\ \A s, t, u \in Path : (s \o t) \o u = s \o (t \o u)
      /\ \A s \in Path, x \in Letters : Append(s, x) \in Path
      /\ \A s, t \in Path, x \in Letters : s \o Append(t, x) = Append(s \o t, x)
  BY Concatenated, AppendFacts DEF Path
<1>3. <<>> \in T
  <2>1. a \o <<>> = a
    BY Concatenated DEF Segments
  <2> QED
    BY <1>0, <1>1, <1>2, <2>1, WrittenGrows
<1>4. ASSUME NEW b \in Segments, NEW x \in Path, b \in T PROVE Append(b, x) \in T
  <2>1. a \o Append(b, x) = Append(a \o b, x) /\ a \o b \in Segments /\ Append(b, x) \in Segments
    BY Concatenated, AppendFacts DEF Segments
  <2>2. Written(Append(a \o b, x)) = Append(Written(a \o b), "/") \o x
    BY <2>1, WrittenGrows
  <2>3. Written(Append(b, x)) = Append(Written(b), "/") \o x
    BY WrittenGrows
  <2>4. Written(a) \in Path /\ Written(b) \in Path /\ Append(Written(b), "/") \in Path
    BY <1>0, <1>1, <1>2
  <2>5. \A u, v \in Path : Append(u \o v, "/") = u \o Append(v, "/")
    BY <1>0, <1>2
  <2>6. \A u, v \in Path : (u \o Append(v, "/")) \o x = u \o (Append(v, "/") \o x)
    <3>1. \A v \in Path : Append(v, "/") \in Path
      BY <1>0, <1>2
    <3>2. \A u, w \in Path : (u \o w) \o x = u \o (w \o x)
      BY <1>2
    <3> QED
      BY <3>1, <3>2
  <2>7. \A u, v \in Path : Append(u \o v, "/") \o x = u \o (Append(v, "/") \o x)
    BY <2>5, <2>6
  <2>8. Append(Written(a) \o Written(b), "/") \o x = Written(a) \o (Append(Written(b), "/") \o x)
    BY <2>4, <2>7
  <2> QED
    BY <1>4, <2>1, <2>2, <2>3, <2>8
<1>5. \A b \in Segments : b \in T
  <2> HIDE DEF T
  <2> QED
    BY <1>3, <1>4, Grown DEF Segments
<1> QED
  BY <1>5

-----------------------------------------------------------------------------
\* The first element of a sequence, and what a prefix is.
LEMMA TailOf ==
    ASSUME NEW X
    PROVE  /\ \A x \in X, s \in Seq(X) : Tail(<<x>> \o s) = s
           /\ \A s \in Seq(X) : s # <<>> => \E x \in X, r \in Seq(X) : s = <<x>> \o r
<1>1. ASSUME NEW x \in X, NEW s \in Seq(X) PROVE Tail(<<x>> \o s) = s
  <2> DEFINE o == <<x>>
             t == o \o s
  <2>1. o \in Seq(X) /\ Len(o) = 1 /\ Len(s) \in Nat
    BY EmptySeq, LenProperties
  <2> HIDE DEF o
  <2>2. t \in Seq(X) /\ Len(t) = 1 + Len(s) /\ \A i \in 1..(1 + Len(s)) : t[i] = IF i <= 1 THEN o[i] ELSE s[i - 1]
    BY <2>1, ConcatProperties
  <2> HIDE DEF t
  <2>3. t # <<>>
    BY <2>1, <2>2, EmptySeq
  <2> DEFINE u == Tail(t)
  <2>4. u \in Seq(X) /\ Len(u) = Len(t) - 1 /\ \A i \in 1..Len(u) : u[i] = t[i + 1]
    BY <2>2, <2>3, HeadTailProperties
  <2> HIDE DEF u
  <2>5. Len(u) = Len(s)
    BY <2>1, <2>2, <2>4
  <2>6. \A i \in 1..Len(s) : i + 1 \in 1..(1 + Len(s)) /\ ~(i + 1 <= 1) /\ (i + 1) - 1 = i
    BY <2>1
  <2>7. \A i \in 1..Len(s) : u[i] = s[i]
    BY <2>2, <2>4, <2>5, <2>6
  <2>8. u = s
    BY <2>4, <2>5, <2>7, SeqEqual
  <2> QED
    BY <2>8 DEF u, t, o
<1>2. ASSUME NEW s \in Seq(X), s # <<>> PROVE \E x \in X, r \in Seq(X) : s = <<x>> \o r
  <2>1. Len(s) \in Nat \ {0} /\ Tail(s) \in Seq(X) /\ Tail(s) = SubSeq(s, 2, Len(s)) /\ SubSeq(s, 1, Len(s)) = s
    BY <1>2, EmptySeq, HeadTailProperties, TailIsSubSeq, SubSeqFull
  <2>2. 1 \in 1..Len(s) /\ Len(s) \in 1..Len(s) /\ 1 + 1 = 2
    BY <2>1
  <2>3. SubSeq(s, 1, Len(s)) = <<s[1]>> \o SubSeq(s, 1 + 1, Len(s))
    BY <2>2, SubSeqRecursiveFirst
  <2>4. s[1] \in X
    BY <2>2, ElementOfSeq
  <2>5. s = <<s[1]>> \o Tail(s)
    BY <2>1, <2>2, <2>3
  <2> QED
    BY <2>1, <2>4, <2>5
<1> QED
  BY <1>1, <1>2

LEMMA PrefixMeans ==
    ASSUME NEW X, NEW s \in Seq(X), NEW t \in Seq(X)
    PROVE  IsPrefix(s, t) <=> \E u \in Seq(X) : t = s \o u
<1>0. Len(s) \in Nat /\ Len(t) \in Nat /\ SubSeq(s, 1, Len(s)) = s /\ SubSeq(t, 1, Len(t)) = t
  BY LenProperties, SubSeqFull
<1>1. ASSUME IsPrefix(s, t) PROVE \E u \in Seq(X) : t = s \o u
  <2> DEFINE u == SubSeq(t, Len(s) + 1, Len(t))
  <2>1. Len(s) <= Len(t) /\ SubSeq(t, 1, Len(s)) = s
    BY <1>0, <1>1 DEF IsPrefix
  <2>2. 1 \in 1..(Len(t) + 1) /\ Len(s) \in (1 - 1)..Len(t) /\ Len(t) \in Len(s)..Len(t)
    BY <1>0, <2>1
  <2>3. SubSeq(t, 1, Len(s)) \o u = SubSeq(t, 1, Len(t))
    BY <2>2, ConcatAdjacentSubSeq
  <2>4. u \in Seq(X)
    <3>1. \A i \in (Len(s) + 1)..Len(t) : i \in 1..Len(t)
      BY <1>0
    <3>2. \A i \in (Len(s) + 1)..Len(t) : t[i] \in X
      BY <3>1, ElementOfSeq
    <3>3. Len(s) + 1 \in Int /\ Len(t) \in Int
      BY <1>0
    <3> QED
      BY <3>2, <3>3, SubSeqProperties
  <2> HIDE DEF u
  <2> QED
    BY <1>0, <2>1, <2>3, <2>4
<1>2. ASSUME NEW u \in Seq(X), t = s \o u PROVE IsPrefix(s, t)
  <2>1. Len(u) \in Nat /\ Len(t) = Len(s) + Len(u)
        /\ \A i \in 1..(Len(s) + Len(u)) : t[i] = IF i <= Len(s) THEN s[i] ELSE u[i - Len(s)]
    BY <1>2, LenProperties, ConcatProperties
  <2>2. Len(s) <= Len(t)
    BY <1>0, <2>1
  <2>3. \A i \in 1..Len(s) : i \in 1..(Len(s) + Len(u)) /\ i <= Len(s) /\ i \in 1..(Len(s) - 1 + 1) /\ 1 + i - 1 = i
    BY <1>0, <2>1
  <2> DEFINE v == SubSeq(t, 1, Len(s))
  <2>4. \A i \in 1..Len(s) : t[i] = s[i] /\ t[i] \in X
    BY <2>1, <2>3, ElementOfSeq
  <2>5. /\ v \in Seq(X) /\ Len(v) = (IF 1 <= Len(s) THEN Len(s) - 1 + 1 ELSE 0)
        /\ \A i \in 1..(Len(s) - 1 + 1) : v[i] = t[1 + i - 1]
    <3>1. 1 \in Int /\ Len(s) \in Int
      BY <1>0
    <3> QED
      BY <2>4, <3>1, SubSeqProperties
  <2> HIDE DEF v
  <2>6. Len(v) = Len(s)
    BY <1>0, <2>5
  <2>7. \A i \in 1..Len(s) : v[i] = s[i]
    BY <2>3, <2>4, <2>5
  <2>8. v = s
    BY <2>5, <2>6, <2>7, SeqEqual
  <2> QED
    BY <1>0, <2>2, <2>8 DEF IsPrefix, v
<1> QED
  BY <1>1, <1>2

-----------------------------------------------------------------------------
\* A path that begins with a slash, and its segments.
LEMMA Rooted ==
    ASSUME NEW b \in Path
    PROVE  /\ <<"/">> \o b \in Path
           /\ Split(<<"/">> \o b, "/") = <<<<>>>> \o Split(b, "/")
           /\ Tail(Split(<<"/">> \o b, "/")) = Split(b, "/")
           /\ Split(b, "/") \in Seq(Solid) \ {<<>>} /\ Split(b, "/") \in Segments
<1>1. <<>> \in Path /\ "/" \in Letters /\ <<"/">> \in Path /\ Append(<<>>, "/") = <<"/">>
  BY SolidFacts, EmptySeq, Concatenated DEF Path
<1>2. <<"/">> \o b \in Path
  BY <1>1, Concatenated DEF Path
<1>3. Split(Append(<<>>, "/") \o b, "/") = Split(<<>>, "/") \o Split(b, "/")
  BY <1>1, SplitJoined
<1>4. Split(<<>>, "/") = <<<<>>>>
  BY SplitGrows
<1>5. Split(b, "/") \in Seq(Solid) \ {<<>>} /\ Split(b, "/") \in Segments
  BY SolidFacts
<1>6. Tail(<<<<>>>> \o Split(b, "/")) = Split(b, "/")
  BY <1>1, <1>5, TailOf DEF Segments
<1> QED
  BY <1>1, <1>2, <1>3, <1>4, <1>5, <1>6

\* The segments of a path are told by the path, and the path by its segments.
LEMMA SameSegments ==
    ASSUME NEW b \in Path, NEW segments \in Seq(Solid)
    PROVE  Written(segments) = <<"/">> \o b <=> segments = Split(b, "/")
<1>1. Written(Split(b, "/")) = <<"/">> \o b
  BY WrittenSplit
<1>2. Split(Written(segments), "/") = <<<<>>>> \o segments
  BY SplitWritten
<1>3. Tail(<<<<>>>> \o segments) = segments
  BY SolidFacts, TailOf
<1> QED
  BY <1>1, <1>2, <1>3, Rooted

\* A rule that was loaded begins with a slash; a prefix rule ends in "/*".
Ruled(rule, b) ==
    IF IsPrefixRule(rule)
    THEN RulePrefix(rule) = <<"/">> \o b /\ Front(Tail(Split(rule, "/"))) = Split(b, "/")
    ELSE rule = <<"/">> \o b /\ Tail(Split(rule, "/")) = Split(b, "/")

LEMMA RuleFacts ==
    ASSUME NEW rule \in PathRuleSet
    PROVE  \E b \in Path : Ruled(rule, b)
<1>1. rule \in Path /\ ValidRule(rule)
  BY PathRulesAssumption DEF Path
<1>2. "/" \in Letters /\ "*" \in Letters /\ <<"/">> \in Path /\ <<"*">> \in Path
  <2>1. "/" \in Letters /\ "*" \in Letters
    BY DEF Letters
  <2> QED
    BY <2>1, Concatenated DEF Path
<1>3. CASE ~IsPrefixRule(rule)
  <2>1. IsPrefix(<<"/">>, rule)
    BY <1>1, <1>3 DEF ValidRule
  <2>2. PICK b \in Path : rule = <<"/">> \o b
    BY <1>1, <1>2, <2>1, PrefixMeans DEF Path
  <2> QED
    BY <1>3, <2>2, Rooted DEF Ruled
<1>4. CASE IsPrefixRule(rule)
  <2> DEFINE P == RulePrefix(rule)
             N == Len(rule)
             w == SubSeq(rule, N - 1, N)
             ending == <<<<"*">>>>
  <2>1. N \in Nat /\ N >= 2 /\ w = <<"/", "*">>
    BY <1>1, <1>4, LenProperties DEF IsPrefixRule, Path
  <2>2. P \in Path /\ rule = P \o w
    <3>1. 1 \in 1..(N + 1) /\ N - 2 \in (1 - 1)..N /\ N \in (N - 2)..N /\ (N - 2) + 1 = N - 1
      BY <2>1
    <3>2. SubSeq(rule, 1, N - 2) \o SubSeq(rule, (N - 2) + 1, N) = SubSeq(rule, 1, N)
      BY <1>1, <3>1, ConcatAdjacentSubSeq DEF Path
    <3>3. SubSeq(rule, 1, N) = rule
      BY <1>1, SubSeqFull DEF Path
    <3>4. \A i \in 1..(N - 2) : rule[i] \in Letters
      <4>1. \A i \in 1..(N - 2) : i \in 1..N
        BY <2>1
      <4> QED
        BY <1>1, <4>1, ElementOfSeq DEF Path
    <3>5. 1 \in Int /\ N - 2 \in Int
      BY <2>1
    <3>6. SubSeq(rule, 1, N - 2) \in Seq(Letters)
      BY <3>4, <3>5, SubSeqProperties
    <3> QED
      BY <3>1, <3>2, <3>3, <3>6 DEF RulePrefix, Path
  <2>3. IsPrefix(<<"/">>, P)
    BY <1>1, <1>4 DEF ValidRule
  <2> HIDE DEF P, N, w
  <2>4. PICK b \in Path : P = <<"/">> \o b
    BY <1>2, <2>2, <2>3, PrefixMeans DEF Path
  <2>5. rule = Append(P, "/") \o <<"*">>
    <3>1. w = <<"/">> \o <<"*">>
      BY <1>2, <2>1, PairIs
    <3>2. \A p \in Path : (p \o <<"/">>) \o <<"*">> = p \o (<<"/">> \o <<"*">>)
      BY <1>2, Concatenated DEF Path
    <3>3. Append(P, "/") = P \o <<"/">>
      BY <1>2, <2>2, Concatenated DEF Path
    <3> QED
      BY <2>2, <3>1, <3>2, <3>3
  <2>6. Split(rule, "/") = Split(P, "/") \o Split(<<"*">>, "/")
    <3>1. \A r \in Path : Split(Append(P, "/") \o r, "/") = Split(P, "/") \o Split(r, "/")
      BY <1>2, <2>2, SplitJoined
    <3> QED
      BY <1>2, <2>5, <3>1
  <2>7. Split(<<"*">>, "/") = ending
    BY <1>2, SplitWhole
  <2>8. ending \in Segments /\ <<<<>>>> \in Segments /\ Split(b, "/") \in Segments
    BY <1>2, EmptySeq, Concatenated, Rooted DEF Segments, Path
  <2>9. Split(rule, "/") = <<<<>>>> \o Append(Split(b, "/"), <<"*">>)
    <3>1. Split(P, "/") = <<<<>>>> \o Split(b, "/")
      BY <2>4, Rooted
    <3>2. \A s, t, u \in Segments : (s \o t) \o u = s \o (t \o u)
      BY Concatenated DEF Segments
    <3>3. Append(Split(b, "/"), <<"*">>) = Split(b, "/") \o ending
      BY <1>2, <2>8, Concatenated DEF Segments
    <3>4. (<<<<>>>> \o Split(b, "/")) \o ending = <<<<>>>> \o (Split(b, "/") \o ending)
      BY <2>8, <3>2
    <3> QED
      BY <2>6, <2>7, <3>1, <3>3, <3>4
  <2>10. Tail(Split(rule, "/")) = Append(Split(b, "/"), <<"*">>)
    <3>1. <<>> \in Path /\ Append(Split(b, "/"), <<"*">>) \in Seq(Path)
      BY <1>2, <2>8, EmptySeq, AppendFacts DEF Segments, Path
    <3> QED
      BY <2>9, <3>1, TailOf
  <2>11. Front(Append(Split(b, "/"), <<"*">>)) = Split(b, "/")
    BY <1>2, <2>8, LastOf DEF Segments
  <2> QED
    BY <1>4, <2>4, <2>10, <2>11 DEF Ruled, P
<1> QED
  BY <1>3, <1>4

\* What path_matches decides on the characters is decided by the segments.
Under(rule, segments) ==
    IF IsPrefixRule(rule) THEN IsPrefix(Front(Tail(Split(rule, "/"))), segments)
    ELSE segments = Tail(Split(rule, "/"))

LEMMA WrittenFirst ==
    ASSUME NEW g \in Path, NEW v \in Segments
    PROVE  g \o Written(v) \in Path /\ Written(<<g>> \o v) = <<"/">> \o (g \o Written(v))
<1> DEFINE V == Written(v)
<1>1. /\ "/" \in Letters /\ <<"/">> \in Path /\ <<>> \in Segments /\ Append(<<>>, "/") = <<"/">>
      /\ <<g>> \in Segments /\ <<g>> = Append(<<>>, g)
  <2>1. "/" \in Letters
    BY SolidFacts
  <2> QED
    BY <2>1, EmptySeq, Concatenated DEF Path, Segments
<1>2. V \in Path /\ Written(<<g>>) = <<"/">> \o g
  BY <1>1, WrittenGrows
<1>3. Written(<<g>> \o v) = Written(<<g>>) \o V
  <2>1. \A s, t \in Segments : Written(s \o t) = Written(s) \o Written(t)
    BY WrittenJoined
  <2> QED
    BY <1>1, <2>1
<1> HIDE DEF V
<1>4. /\ \A s, t, w \in Path : (s \o t) \o w = s \o (t \o w)
      /\ \A s, t \in Path : s \o t \in Path
  BY Concatenated DEF Path
<1>5. (<<"/">> \o g) \o V = <<"/">> \o (g \o V) /\ g \o V \in Path
  BY <1>1, <1>2, <1>4
<1> QED
  BY <1>2, <1>3, <1>5 DEF V

\* A path that begins with another one and a slash has its segments and more.
LEMMA Extends ==
    ASSUME NEW b \in Path, NEW segments \in Seq(Solid), NEW prefix \in Path, prefix = <<"/">> \o b
    PROVE  Written(segments) = prefix \/ IsPrefix(Append(prefix, "/"), Written(segments))
           <=> IsPrefix(Split(b, "/"), segments)
<1> DEFINE B == Split(b, "/")
           W == Written(segments)
           Q == Append(prefix, "/")
<1>0. "/" \in Letters /\ <<"/">> \in Path /\ <<>> \in Path /\ <<<<>>>> \in Segments
  <2>1. "/" \in Letters /\ <<>> \in Path
    BY SolidFacts, EmptySeq DEF Path
  <2> QED
    BY <2>1, Concatenated DEF Path, Segments
<1>1. B \in Seq(Solid) /\ B \in Segments /\ Split(prefix, "/") = <<<<>>>> \o B /\ Written(B) = prefix
  BY Rooted, WrittenSplit
<1>2. segments \in Segments /\ W \in Path /\ Split(W, "/") = <<<<>>>> \o segments
  <2>1. segments \in Segments
    BY SolidFacts
  <2>2. Written(segments) \in Path
    BY <1>0, <2>1, WrittenGrows
  <2> QED
    BY <2>1, <2>2, SplitWritten
<1>3. W = prefix <=> segments = B
  BY SameSegments
<1>4. Q \in Path /\ Q = prefix \o <<"/">>
  BY <1>0, AppendFacts, Concatenated DEF Path
<1>5. IsPrefix(B, segments) <=> \E u \in Seq(Solid) : segments = B \o u
  <2> HIDE DEF B
  <2>1. \A s, t \in Seq(Solid) : IsPrefix(s, t) <=> \E u \in Seq(Solid) : t = s \o u
    BY PrefixMeans
  <2> QED
    BY <1>1, <2>1
<1>6. IsPrefix(Q, W) <=> \E r \in Path : W = Q \o r
  <2> HIDE DEF Q, W
  <2>1. \A s, t \in Path : IsPrefix(s, t) <=> \E u \in Path : t = s \o u
    BY PrefixMeans DEF Path
  <2> QED
    BY <1>2, <1>4, <2>1
<1>7. B \o <<>> = B /\ <<>> \in Seq(Solid)
  BY <1>1, Concatenated, EmptySeq
<1>8. ASSUME NEW r \in Path, W = Q \o r PROVE \E u \in Seq(Solid) : segments = B \o u
  <2>1. \A t \in Path : Split(Append(prefix, "/") \o t, "/") = Split(prefix, "/") \o Split(t, "/")
    BY <1>0, SplitJoined
  <2> DEFINE u == Split(r, "/")
  <2>2. u \in Seq(Solid) /\ u \in Segments
    BY SolidFacts
  <2>3. Split(W, "/") = (<<<<>>>> \o B) \o u
    BY <1>1, <1>8, <2>1
  <2> HIDE DEF u, B
  <2>4. (<<<<>>>> \o B) \o u = <<<<>>>> \o (B \o u)
    BY <1>0, <1>1, <2>2, Concatenated DEF Segments
  <2>5. \A s \in Segments : Tail(<<<<>>>> \o s) = s
    BY <1>0, TailOf DEF Segments
  <2>6. B \o u \in Segments
    BY <1>1, <2>2, Concatenated DEF Segments
  <2>7. segments = B \o u
    BY <1>2, <2>3, <2>4, <2>5, <2>6
  <2> QED
    BY <2>2, <2>7
<1>9. ASSUME NEW u \in Seq(Solid), segments = B \o u PROVE W = prefix \/ \E r \in Path : W = Q \o r
  <2>1. CASE u = <<>>
    BY <1>3, <1>7, <1>9, <2>1
  <2>2. CASE u # <<>>
    <3>1. PICK g \in Solid, v \in Seq(Solid) : u = <<g>> \o v
      BY <2>2, TailOf
    <3>2. g \in Path /\ v \in Segments /\ <<g>> \in Segments /\ u \in Segments /\ <<g>> = Append(<<>>, g)
      <4>1. g \in Path /\ v \in Segments /\ u \in Segments
        BY SolidFacts
      <4> QED
        BY <4>1, Concatenated DEF Segments
    <3> DEFINE V == g \o Written(v)
    <3>3. W = prefix \o Written(u)
      <4>1. \A s, t \in Segments : Written(s \o t) = Written(s) \o Written(t)
        BY WrittenJoined
      <4> QED
        BY <1>1, <1>9, <3>2, <4>1
    <3>4. V \in Path /\ Written(u) = <<"/">> \o V
      BY <3>1, <3>2, WrittenFirst
    <3> HIDE DEF V, W, Q
    <3>5. (prefix \o <<"/">>) \o V = prefix \o (<<"/">> \o V)
      <4>1. \A s, t, w \in Path : (s \o t) \o w = s \o (t \o w)
        BY Concatenated DEF Path
      <4>2. \A w \in Path : (prefix \o <<"/">>) \o w = prefix \o (<<"/">> \o w)
        BY <1>0, <4>1
      <4> QED
        BY <3>4, <4>2
    <3>6. W = Q \o V
      BY <1>4, <3>3, <3>4, <3>5
    <3> QED
      BY <3>4, <3>6
  <2> QED
    BY <2>1, <2>2
<1>10. W = prefix => \E u \in Seq(Solid) : segments = B \o u
  BY <1>3, <1>7
<1> HIDE DEF B, W, Q
<1>11. W = prefix \/ IsPrefix(Q, W) <=> IsPrefix(B, segments)
  BY <1>5, <1>6, <1>8, <1>9, <1>10
<1> QED
  BY <1>11 DEF B, W, Q

LEMMA RuleDecides ==
    ASSUME NEW rule \in PathRuleSet, NEW segments \in Seq(Solid)
    PROVE  PathMatches(rule, Written(segments)) <=> Under(rule, segments)
<1>1. PICK b \in Path : Ruled(rule, b)
  BY RuleFacts
<1>2. CASE ~IsPrefixRule(rule)
  <2>1. Written(segments) = <<"/">> \o b <=> segments = Split(b, "/")
    BY SameSegments
  <2> QED
    BY <1>1, <1>2, <2>1 DEF Ruled, PathMatches, Under
<1>3. CASE IsPrefixRule(rule)
  <2> DEFINE P == RulePrefix(rule)
  <2>1. P = <<"/">> \o b /\ Front(Tail(Split(rule, "/"))) = Split(b, "/")
    BY <1>1, <1>3 DEF Ruled
  <2>2. P \in Path
    BY <2>1, Rooted
  <2> HIDE DEF P
  <2>3. Written(segments) = P \/ IsPrefix(Append(P, "/"), Written(segments)) <=> IsPrefix(Split(b, "/"), segments)
    BY <2>1, <2>2, Extends
  <2> QED
    BY <1>3, <2>1, <2>3 DEF PathMatches, Under, P
<1> QED
  BY <1>2, <1>3

LEMMA RulesDecide ==
    ASSUME NEW segments \in Seq(Solid)
    PROVE  (\E rule \in PathRuleSet : PathMatches(rule, Written(segments))) <=> UnderRule(segments)
BY RuleDecides DEF Under, UnderRule

-----------------------------------------------------------------------------
\* Where a URL leads.
RawOf(path) == Tail(Split(PathOnly(Strip(path)), "/"))

LEMMA RawFacts ==
    ASSUME NEW path \in Path
    PROVE  RawOf(path) \in Seq(Solid)
<1>1. Strip(path) \in Path
  BY StripFacts
<1>2. PathOnly(Strip(path)) \in Path
  <2> DEFINE p == Split(Strip(path), "?")
  <2>1. p \in Seq(Path) /\ p # <<>>
    BY <1>1, SplitGrows, SolidFacts DEF Segments
  <2> HIDE DEF p
  <2>2. 1 \in 1..Len(p)
    BY <2>1, EmptySeq
  <2>3. p[1] \in Path
    BY <2>1, <2>2, ElementOfSeq
  <2> QED
    BY <2>3 DEF PathOnly, p
<1>3. Split(PathOnly(Strip(path)), "/") \in Seq(Solid) \ {<<>>}
  BY <1>2, SolidFacts
<1> QED
  BY <1>3, HeadTailProperties DEF RawOf

LEMMA UrlSegments ==
    ASSUME NEW path \in Path
    PROVE  UrlJoin(path).segments \in Seq(Plain(Solid))
<1> DEFINE raw == RawOf(path)
           host == {i \in DOMAIN raw : raw[i] # <<>>}
           at == CHOOSE i \in host : \A j \in host : i <= j
           rest == SubSeq(raw, at + 1, Len(raw))
<1>1. raw \in Seq(Solid) /\ Len(raw) \in Nat /\ DOMAIN raw = 1..Len(raw)
  BY RawFacts, LenProperties
<1> HIDE DEF raw
<1>2. host \in SUBSET Nat /\ \A i \in host : i \in 1..Len(raw)
  BY <1>1
<1> HIDE DEF host
<1>3. host # {} => at \in 1..Len(raw)
  BY <1>2, LeastMember
<1> HIDE DEF at
<1>4. host # {} => rest \in Seq(Solid)
  <2> HAVE host # {}
  <2>1. at + 1 \in Int /\ Len(raw) \in Int /\ \A i \in (at + 1)..Len(raw) : i \in 1..Len(raw)
    BY <1>1, <1>3
  <2>2. \A i \in (at + 1)..Len(raw) : raw[i] \in Solid
    BY <1>1, <2>1, ElementOfSeq
  <2> QED
    BY <2>1, <2>2, SubSeqProperties
<1> HIDE DEF rest
<1>5. <<>> \in Seq(Plain(Solid)) /\ <<<<>>>> \in Seq(Plain(Solid))
  <2>1. <<>> \in Path /\ Len(<<>>) = 0
    BY EmptySeq DEF Path
  <2>2. ~IsDots(<<>>)
    BY <2>1, DotsMeans
  <2>3. <<>> \in Plain(Solid)
    BY <2>2, SolidFacts DEF Plain
  <2> QED
    BY <2>3, EmptySeq, Concatenated
<1>6. \A s \in Seq(Solid) : Resolve(s) \in Seq(Plain(Solid))
  BY SolidFacts, ResolveFacts
<1>7. UrlJoin(path) =
        IF Len(raw) < 2 \/ raw[1] # <<>>
        THEN [ok |-> TRUE, host |-> BaseHost, segments |-> Resolve(raw)]
        ELSE IF host = {} THEN [ok |-> FALSE, host |-> <<>>, segments |-> <<>>]
        ELSE [ok |-> TRUE, host |-> Decode(raw[at]),
              segments |-> IF at = Len(raw) THEN <<<<>>>> ELSE Resolve(rest)]
  BY DEF UrlJoin, RawOf, raw, host, at, rest
<1> QED
  BY <1>1, <1>4, <1>5, <1>6, <1>7

-----------------------------------------------------------------------------
\* The path that a caller names is a path.
PathTypeOK == request \in Seq(PathChars)

\* A path that a caller names is a sequence of the characters of the model.
THEOREM RequestTyped == PathSpec => []PathTypeOK
<1>1. PathInit => PathTypeOK
  BY EmptySeq DEF PathInit, PathTypeOK
<1>2. PathTypeOK /\ [PathNext]_request => PathTypeOK'
  BY AppendFacts DEF PathTypeOK, PathNext
<1> QED
  BY <1>1, <1>2, PTL DEF PathSpec

LEMMA RequestIsPath == PathTypeOK => request \in Path
BY SeqMonotonic DEF PathTypeOK, Path, Letters

LEMMA PathConfined == ASSUME PathTypeOK PROVE RequestsConfined
<1> SUFFICES ASSUME Accepts(request) PROVE RequestsConfined
  BY DEF RequestsConfined
<1> DEFINE url == UrlJoin(request)
           segs == url.segments
<1>1. segs \in Seq(Plain(Solid))
  BY RequestIsPath, UrlSegments
<1>2. Plain(Solid) \subseteq Solid /\ \A seg \in Plain(Solid) : ~IsDots(seg)
  BY DEF Plain
<1>3. url.host = BaseHost /\ \E rule \in PathRuleSet : PathMatches(rule, Written(segs))
  BY DEF Accepts, PathOf
<1> HIDE DEF segs
<1>4. segs \in Seq(Solid)
  BY <1>1, <1>2, SeqMonotonic
<1>5. UnderRule(segs)
  BY <1>3, <1>4, RulesDecide
<1>6. \A i \in DOMAIN segs : ~IsDots(segs[i])
  <2>1. DOMAIN segs = 1..Len(segs)
    BY <1>1, LenProperties
  <2>2. \A i \in 1..Len(segs) : segs[i] \in Plain(Solid)
    BY <1>1, ElementOfSeq
  <2> QED
    BY <1>2, <2>1, <2>2
<1> QED
  BY <1>3, <1>5, <1>6 DEF RequestsConfined, segs

\* Whatever path a caller names, of whatever length, a request that is let through
\* goes to the host of base_url, and to a path under a rule, segment by segment.
THEOREM PathsConfined == PathSpec => []RequestsConfined
BY RequestTyped, PathConfined, PTL

-----------------------------------------------------------------------------
\* A path that is written plainly.
LEMMA TwoSlashes ==
    ASSUME NEW raw \in Seq(Solid), Len(raw) >= 2, raw[1] = <<>>
    PROVE  IsPrefix(<<"/", "/">>, Written(raw))
<1>1. raw # <<>>
  BY EmptySeq
<1>2. PICK x \in Solid, v \in Seq(Solid) : raw = <<x>> \o v
  BY <1>1, TailOf
<1>3. x = <<>> /\ v # <<>>
  <2> DEFINE o == <<x>>
  <2>1. o \in Seq(Solid) /\ Len(o) = 1 /\ o[1] = x /\ Len(v) \in Nat
    BY Concatenated, LenProperties
  <2> HIDE DEF o
  <2>2. Len(raw) = 1 + Len(v) /\ \A i \in 1..(1 + Len(v)) : raw[i] = IF i <= 1 THEN o[i] ELSE v[i - 1]
    BY <1>2, <2>1, ConcatProperties DEF o
  <2>3. 1 \in 1..(1 + Len(v)) /\ Len(v) # 0
    BY <2>1, <2>2
  <2> QED
    BY <2>1, <2>2, <2>3, EmptySeq
<1>4. PICK g \in Solid, w \in Seq(Solid) : v = <<g>> \o w
  BY <1>3, TailOf
<1> DEFINE r == g \o Written(w)
<1>5. v \in Segments /\ w \in Segments /\ g \in Path /\ <<>> \in Path /\ <<"/">> \in Path
  <2>1. v \in Segments /\ w \in Segments /\ g \in Path /\ <<>> \in Path /\ "/" \in Letters
    BY SolidFacts
  <2> QED
    BY <2>1, Concatenated DEF Path
<1>6. r \in Path /\ Written(v) = <<"/">> \o r
  BY <1>4, <1>5, WrittenFirst
<1>7. Written(raw) = <<"/">> \o (<<>> \o Written(v))
  BY <1>2, <1>3, <1>5, WrittenFirst
<1> HIDE DEF r
<1>8. /\ \A s, t, u \in Path : (s \o t) \o u = s \o (t \o u)
      /\ \A s, t \in Path : s \o t \in Path
      /\ \A s \in Path : <<>> \o s = s
  BY Concatenated DEF Path
<1>9. Written(v) \in Path /\ <<>> \o Written(v) = Written(v)
  <2>1. Written(v) \in Path
    BY <1>5, <1>6, <1>8
  <2> QED
    BY <1>8, <2>1
<1>10. Written(raw) = (<<"/">> \o <<"/">>) \o r
  BY <1>5, <1>6, <1>7, <1>8, <1>9
<1>11. <<"/">> \o <<"/">> = <<"/", "/">> /\ <<"/">> \o <<"/">> \in Path
  <2>1. <<"/">> \o <<"/">> = <<"/", "/">>
    BY SolidFacts, PairIs
  <2>2. \A s, t \in Path : s \o t \in Path
    BY <1>8
  <2>3. <<"/">> \o <<"/">> \in Path
    BY <1>5, <2>2
  <2> QED
    BY <2>1, <2>3
<1> DEFINE two == <<"/", "/">>
<1>12. two \in Path /\ Written(raw) = two \o r /\ two \o r \in Path
  BY <1>6, <1>8, <1>10, <1>11
<1> HIDE DEF two
<1>13. \A s, t \in Path : (\E u \in Path : t = s \o u) => IsPrefix(s, t)
  BY PrefixMeans DEF Path
<1>14. IsPrefix(two, Written(raw))
  BY <1>6, <1>12, <1>13
<1> QED
  BY <1>14 DEF two

Plainly == {"tab", "%2e", "\\", ".", "#", "?"}

LEMMA PlainRequest ==
    ASSUME NEW r \in Path, NEW b \in Path, r = <<"/">> \o b,
           \A i \in 1..Len(r) : r[i] \notin Plainly,
           ~IsPrefix(<<"/", "/">>, r)
    PROVE  Accepts(r) <=> UnderRule(Split(b, "/"))
<1> DEFINE raw == Split(b, "/")
           X == Letters \ Plainly
<1>1. r \in Seq(X)
  <2>1. Len(r) \in Nat /\ \A i \in 1..Len(r) : r[i] \in X
    BY LenProperties, ElementOfSeq DEF Path
  <2>2. r \in [1..Len(r) -> X]
    BY <2>1, LenProperties DEF Path
  <2> QED
    BY <2>1, <2>2, SeqDef
<1>2. Split(r, "/") \in Seq(Seq(X)) /\ Tail(Split(r, "/")) = raw /\ raw \in Seq(Solid)
  <2>1. Split(r, "/") \in Seq(Seq(X \ {"/"}))
    BY <1>1, SplitWithin
  <2>2. Seq(X \ {"/"}) \subseteq Seq(X)
    BY SeqMonotonic
  <2> HIDE DEF X
  <2>3. Split(r, "/") \in Seq(Seq(X))
    BY <2>1, <2>2, SeqMonotonic
  <2> QED
    BY <2>3, Rooted
<1>3. Split(r, "/") # <<>>
  BY SplitGrows, SolidFacts
<1> DEFINE p == Split(r, "/")
<1>4. raw \in Seq(Seq(X))
  <2> HIDE DEF p
  <2>1. Tail(p) \in Seq(Seq(X))
    BY <1>2, <1>3, HeadTailProperties DEF p
  <2> QED
    BY <1>2, <2>1 DEF p
<1>5. \A seg \in Seq(X) : ~IsDots(seg) /\ seg \notin {<<".">>, <<".", ".">>}
  <2> SUFFICES ASSUME NEW seg \in Seq(X) PROVE ~IsDots(seg) /\ seg \notin {<<".">>, <<".", ".">>}
    OBVIOUS
  <2>1. Len(seg) \in Nat /\ seg \in Path
    BY LenProperties, SeqMonotonic DEF Path
  <2>2. Len(seg) >= 1 => seg[1] \notin {".", "%2e"}
    <3> HAVE Len(seg) >= 1
    <3>1. 1 \in 1..Len(seg)
      BY <2>1
    <3>2. seg[1] \in X
      BY <3>1, ElementOfSeq
    <3> QED
      BY <3>2 DEF Plainly
  <2>3. ~IsDots(seg)
    BY <2>1, <2>2, DotsMeans
  <2>4. seg \notin {<<".">>, <<".", ".">>}
    <3>1. Len(<<".">>) = 1 /\ Len(<<".", ".">>) = 2 /\ <<".">>[1] = "." /\ <<".", ".">>[1] = "."
      OBVIOUS
    <3> QED
      BY <2>2, <3>1
  <2> QED
    BY <2>3, <2>4
<1>6. Strip(r) = r
  <2>1. \A i \in 1..Len(r) : r[i] \notin {"tab", "\\"}
    BY DEF Plainly
  <2> QED
    BY <2>1, StripFacts
<1>7. PathOnly(r) = r
  <2>1. \A i \in 1..Len(r) : r[i] # "?"
    BY DEF Plainly
  <2>2. Split(r, "?") = <<r>>
    BY <2>1, SplitWhole
  <2> QED
    BY <2>2 DEF PathOnly
<1>8. Written(raw) = r
  BY WrittenSplit
<1>9. Len(raw) < 2 \/ raw[1] # <<>>
  <2>1. Len(raw) \in Nat
    BY <1>2, LenProperties
  <2> HIDE DEF raw
  <2>2. Len(raw) >= 2 /\ raw[1] = <<>> => IsPrefix(<<"/", "/">>, Written(raw))
    BY <1>2, TwoSlashes
  <2> QED
    BY <1>8, <2>1, <2>2
<1>10. Resolve(raw) = raw
  <2> HIDE DEF raw, X
  <2>1. \A i \in 1..Len(raw) : ~IsDots(raw[i])
    BY <1>4, <1>5, ElementOfSeq
  <2> QED
    BY <1>2, <2>1, SolidFacts, ResolveFacts
<1>11. UrlJoin(r) = [ok |-> TRUE, host |-> BaseHost, segments |-> raw]
  <2>1. Tail(Split(PathOnly(Strip(r)), "/")) = raw
    BY <1>2, <1>6, <1>7
  <2> HIDE DEF raw
  <2> QED
    BY <1>9, <1>10, <2>1 DEF UrlJoin
<1>12. ValidRequest(r)
  <2>1. IsPrefix(<<"/">>, r)
    <3>1. <<"/">> \in Path
      BY SolidFacts, Concatenated DEF Path
    <3>2. \A s, t \in Path : (\E u \in Path : t = s \o u) => IsPrefix(s, t)
      BY PrefixMeans DEF Path
    <3> QED
      BY <3>1, <3>2
  <2>2. ~Contains(r, "\\") /\ ~Contains(r, "#")
    BY DEF Contains, Plainly
  <2>3. ~HasDots(r)
    <3>1. DOMAIN Split(r, "/") = 1..Len(Split(r, "/"))
      BY <1>2, LenProperties
    <3>2. \A i \in 1..Len(Split(r, "/")) : Split(r, "/")[i] \in Seq(X)
      BY <1>2, ElementOfSeq
    <3> HIDE DEF X
    <3> QED
      BY <1>5, <3>1, <3>2 DEF HasDots
  <2> QED
    BY <1>7, <2>1, <2>2, <2>3 DEF ValidRequest
<1>13. Accepts(r) <=> \E rule \in PathRuleSet : PathMatches(rule, Written(raw))
  BY <1>11, <1>12 DEF Accepts, PathOf
<1> QED
  BY <1>2, <1>13, RulesDecide

LEMMA PlainDecided == ASSUME PathTypeOK PROVE PlainRequestsDecided
<1> SUFFICES ASSUME /\ request # <<>> /\ request[1] = "/" /\ ~Contains(Tail(request), "?")
                    /\ \A c \in {"tab", "%2e", "\\", ".", "#"} : ~Contains(request, c)
                    /\ ~IsPrefix(<<"/", "/">>, request)
             PROVE  Accepts(request) <=> UnderRule(Tail(Split(request, "/")))
  BY DEF PlainRequestsDecided
<1>1. request \in Path
  BY RequestIsPath
<1>2. PICK x \in Letters, b \in Path : request = <<x>> \o b
  BY <1>1, TailOf DEF Path
<1>3. Tail(request) = b
  BY <1>2, TailOf DEF Path
<1>4. /\ Len(b) \in Nat /\ Len(request) = 1 + Len(b) /\ request[1] = x
      /\ \A i \in 1..Len(b) : b[i] = request[i + 1]
  <2>1. Len(b) \in Nat /\ Len(request) \in Nat \ {0}
    BY <1>1, LenProperties, EmptySeq DEF Path
  <2>2. Len(b) = Len(request) - 1 /\ \A i \in 1..Len(b) : b[i] = request[i + 1]
    BY <1>1, <1>3, HeadTailProperties DEF Path
  <2>3. request[1] = x
    <3> DEFINE o == <<x>>
    <3>1. o \in Seq(Letters) /\ Len(o) = 1 /\ o[1] = x
      BY Concatenated
    <3> HIDE DEF o
    <3>2. \A i \in 1..(1 + Len(b)) : request[i] = IF i <= 1 THEN o[i] ELSE b[i - 1]
      BY <1>2, <3>1, ConcatProperties DEF o, Path
    <3> QED
      BY <2>1, <3>1, <3>2
  <2> QED
    BY <2>1, <2>2, <2>3
<1>5. x = "/"
  BY <1>4
<1>6. \A i \in 1..Len(request) : request[i] \notin Plainly
  <2> SUFFICES ASSUME NEW i \in 1..Len(request) PROVE request[i] \notin Plainly
    OBVIOUS
  <2>1. request[i] \notin {"tab", "%2e", "\\", ".", "#"}
    BY DEF Contains
  <2>2. request[i] # "?"
    <3>1. CASE i = 1
      BY <3>1
    <3>2. CASE i # 1
      <4>1. i - 1 \in 1..Len(b) /\ (i - 1) + 1 = i
        BY <1>4, <3>2
      <4>2. b[i - 1] # "?"
        BY <1>3, <4>1 DEF Contains
      <4>3. b[i - 1] = request[i]
        BY <1>4, <4>1
      <4> QED
        BY <4>2, <4>3
    <3> QED
      BY <3>1, <3>2
  <2> QED
    BY <2>1, <2>2 DEF Plainly
<1>7. Accepts(request) <=> UnderRule(Split(b, "/"))
  BY <1>1, <1>2, <1>5, <1>6, PlainRequest
<1>8. Tail(Split(request, "/")) = Split(b, "/")
  BY <1>2, <1>5, Rooted
<1> QED
  BY <1>7, <1>8

\* The checks on a request refuse no path that is written plainly and that a rule
\* allows, and let no other plain path through.
THEOREM PlainPathsDecided == PathSpec => []PlainRequestsDecided
BY RequestTyped, PlainDecided, PTL
=============================================================================

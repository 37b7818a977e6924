-------------------------- MODULE ConfigLoadProofs --------------------------
(* Theorems about ConfigLoad: what is served, whenever the file is replaced. *)
EXTENDS ConfigLoad, SequenceTheorems, TLAPS

-----------------------------------------------------------------------------
\* With a pin, the server of either command is built from the pinned content or
\* from none (config.rs:164-178, main.rs:157-167).
THEOREM PinnedOrNothing == LoadSpec => []PinHolds
<1>1. LoadInit => PinHolds
  BY DEF LoadInit, PinHolds
<1>2. PinHolds /\ [LoadNext]_loadVars => PinHolds'
  <2> SUFFICES ASSUME PinHolds, [LoadNext]_loadVars PROVE PinHolds'
    OBVIOUS
  <2>1. CASE \E c \in Edits : Rewrite(c)
    BY <2>1 DEF PinHolds, Rewrite
  <2>2. CASE DaemonLoad
    BY <2>2 DEF PinHolds, DaemonLoad, Loads
  <2>3. CASE CheckVault
    BY <2>3 DEF PinHolds, CheckVault
  <2>4. CASE Build
    BY <2>4 DEF PinHolds, Build, Loads
  <2>5. CASE UNCHANGED loadVars
    BY <2>5 DEF PinHolds, loadVars
  <2> QED
    BY <2>1, <2>2, <2>3, <2>4, <2>5 DEF LoadNext
<1> QED
  BY <1>1, <1>2, PTL DEF LoadSpec

-----------------------------------------------------------------------------
\* What the first load of asb serve leaves for the second: a content without an
\* encrypted vault, and the pinned one if there is a pin (main.rs:157-162).
CheckedIsPlain ==
    command \in {"build", "serves"} =>
        ~Encrypted(checked) /\ (pin # Absent => checked = pin)

VaultInv == CheckedIsPlain /\ StdioWithoutVault

\* asb serve has no encrypted vault, unless the file was replaced between its two
\* loads and no pin was given (main.rs:158-162).
THEOREM StdioStaysOut == LoadSpec => []StdioWithoutVault
<1>1. LoadInit => VaultInv
  BY DEF LoadInit, VaultInv, CheckedIsPlain, StdioWithoutVault
<1>2. VaultInv /\ [LoadNext]_loadVars => VaultInv'
  <2> SUFFICES ASSUME VaultInv, [LoadNext]_loadVars PROVE VaultInv'
    OBVIOUS
  <2> USE DEF VaultInv, CheckedIsPlain, StdioWithoutVault, Encrypted
  <2>1. CASE \E c \in Edits : Rewrite(c)
    BY <2>1 DEF Rewrite
  <2>2. CASE DaemonLoad
    BY <2>2 DEF DaemonLoad
  <2>3. CASE CheckVault
    BY <2>3 DEF CheckVault, Loads
  \* With a pin both loads see the same content; without one, content that equals
  \* the first has no such vault either.
  <2>4. CASE Build
    BY <2>4 DEF Build, Loads
  <2>5. CASE UNCHANGED loadVars
    BY <2>5 DEF loadVars
  <2> QED
    BY <2>1, <2>2, <2>3, <2>4, <2>5 DEF LoadNext
<1>3. VaultInv => StdioWithoutVault
  BY DEF VaultInv
<1> QED
  BY <1>1, <1>2, <1>3, PTL DEF LoadSpec
-----------------------------------------------------------------------------
\* The one list of ids that validate makes of both kinds keeps each at its place.
LEMMA IdsOfBoth ==
    ASSUME NEW c \in Contents
    PROVE  LET ids == [i \in DOMAIN c.http |-> [id |-> c.http[i].id]]
                      \o [i \in DOMAIN c.ssh |-> [id |-> c.ssh[i].id]]
           IN  /\ Len(c.http) \in Nat /\ Len(c.ssh) \in Nat
               /\ DOMAIN c.http = 1..Len(c.http) /\ DOMAIN c.ssh = 1..Len(c.ssh)
               /\ DOMAIN ids = 1..(Len(c.http) + Len(c.ssh))
               /\ \A i \in 1..Len(c.http) : ids[i].id = c.http[i].id
               /\ \A j \in 1..Len(c.ssh) : ids[Len(c.http) + j].id = c.ssh[j].id
<1> DEFINE H == [i \in DOMAIN c.http |-> [id |-> c.http[i].id]]
           K == [j \in DOMAIN c.ssh |-> [id |-> c.ssh[j].id]]
           S == {H[i] : i \in DOMAIN c.http} \cup {K[j] : j \in DOMAIN c.ssh}
           m == Len(c.http)
           n == Len(c.ssh)
<1>1. /\ m \in Nat /\ DOMAIN c.http = 1..m
      /\ n \in Nat /\ DOMAIN c.ssh = 1..n
  BY ConfigLoadAssumption, LenProperties
<1>2. H \in [1..m -> S] /\ K \in [1..n -> S]
  BY <1>1
<1>3. /\ \A i \in 1..m : H[i].id = c.http[i].id
      /\ \A j \in 1..n : K[j].id = c.ssh[j].id
  BY <1>1
<1> HIDE DEF H, K, S, m, n
<1>4. H \in Seq(S) /\ K \in Seq(S)
  BY <1>1, <1>2
<1>5. Len(H) = m /\ Len(K) = n
  BY <1>1, <1>2, <1>4, LenProperties
<1>6. /\ H \o K \in Seq(S) /\ Len(H \o K) = m + n
      /\ \A i \in 1..(m + n) : (H \o K)[i] = IF i <= m THEN H[i] ELSE K[i - m]
  BY <1>4, <1>5, ConcatProperties
<1>7. DOMAIN (H \o K) = 1..(m + n)
  BY <1>6, LenProperties
<1>8. \A i \in 1..m : (H \o K)[i].id = c.http[i].id
  BY <1>1, <1>3, <1>6
<1>9. ASSUME NEW j \in 1..n
      PROVE  (H \o K)[m + j].id = c.ssh[j].id
  <2>1. m + j \in 1..(m + n) /\ ~(m + j <= m) /\ (m + j) - m = j
    BY <1>1
  <2> QED
    BY <1>3, <1>6, <2>1
<1> QED
  BY <1>1, <1>7, <1>8, <1>9 DEF H, K, m, n

LEMMA LimitsPositive ==
    ASSUME NEW c, ValidLimits(c)
    PROVE  c.rate > 0 /\ c.timeout > 0 /\ c.bytes > 0
<1>1. MaxTimeout \in Nat /\ MaxBytes \in Nat /\ MaxRate \in Nat
  BY SMT DEF MaxTimeout, MaxBytes, MaxRate
<1> QED
  BY <1>1 DEF ValidLimits

LEMMA ValidIsUsable ==
    ASSUME NEW c \in Contents, Valid(c)
    PROVE  Usable(c)
<1> DEFINE ids == [i \in DOMAIN c.http |-> [id |-> c.http[i].id]]
                  \o [i \in DOMAIN c.ssh |-> [id |-> c.ssh[i].id]]
           m == Len(c.http)
           n == Len(c.ssh)
<1>1. /\ m \in Nat /\ n \in Nat /\ DOMAIN c.http = 1..m /\ DOMAIN c.ssh = 1..n
      /\ DOMAIN ids = 1..(m + n)
      /\ \A i \in 1..m : ids[i].id = c.http[i].id
      /\ \A j \in 1..n : ids[m + j].id = c.ssh[j].id
  BY IdsOfBoth
<1>2. \A i, j \in 1..(m + n) : i # j => ids[i].id # ids[j].id
  BY <1>1 DEF Valid, Distinct
<1>3. /\ \A i \in 1..m : ValidHttp(c.http[i])
      /\ \A j \in 1..n : ValidSsh(c.ssh[j])
  BY <1>1 DEF Valid
<1> HIDE DEF ids, m, n
<1>4. ASSUME NEW i \in 1..m, NEW j \in 1..n
      PROVE  c.http[i].id # c.ssh[j].id
  <2>1. i \in 1..(m + n) /\ m + j \in 1..(m + n) /\ i # m + j
    BY <1>1
  <2> QED
    BY <1>1, <1>2, <2>1
<1>5. Distinct(c.http)
  <2>1. \A i \in 1..m : i \in 1..(m + n)
    BY <1>1
  <2> QED
    BY <1>1, <1>2, <2>1 DEF Distinct
<1>6. ASSUME NEW i \in 1..n, NEW j \in 1..n, i # j
      PROVE  c.ssh[i].id # c.ssh[j].id
  <2>1. m + i \in 1..(m + n) /\ m + j \in 1..(m + n) /\ m + i # m + j
    BY <1>1, <1>6
  <2> QED
    BY <1>1, <1>2, <2>1
<1>7. Distinct(c.ssh)
  BY <1>1, <1>6 DEF Distinct
<1>8. \A j \in 1..n : Distinct(c.ssh[j].operations)
  BY <1>3 DEF ValidSsh, Distinct
<1>9. /\ \A i \in 1..m : c.http[i].rate > 0 /\ c.http[i].timeout > 0 /\ c.http[i].bytes > 0
      /\ \A j \in 1..n : c.ssh[j].rate > 0 /\ c.ssh[j].timeout > 0 /\ c.ssh[j].bytes > 0
  BY <1>3, LimitsPositive DEF ValidHttp, ValidSsh
<1> QED
  BY <1>1, <1>4, <1>5, <1>7, <1>8, <1>9 DEF Usable

\* The last load of either command validates what it serves, and no step replaces it.
ServedInv ==
    /\ file \in Contents
    /\ served # Absent => served \in Contents /\ Valid(served)

\* Whatever the file held before, what is served has one capability of an id, one
\* operation of an id, and positive limits (config.rs:205-218).
THEOREM UsableIsServed == LoadSpec => []ServedIsUsable
<1>1. LoadInit => ServedInv
  BY DEF LoadInit, ServedInv
<1>2. ServedInv /\ [LoadNext]_loadVars => ServedInv'
  <2> SUFFICES ASSUME ServedInv, [LoadNext]_loadVars PROVE ServedInv'
    OBVIOUS
  <2> USE DEF ServedInv
  <2>1. CASE \E c \in Edits : Rewrite(c)
    BY <2>1, ConfigLoadAssumption DEF Rewrite, Valid
  <2>2. CASE DaemonLoad
    BY <2>2 DEF DaemonLoad, Loads
  <2>3. CASE CheckVault
    BY <2>3 DEF CheckVault
  <2>4. CASE Build
    BY <2>4 DEF Build, Loads
  <2>5. CASE UNCHANGED loadVars
    BY <2>5 DEF loadVars
  <2> QED
    BY <2>1, <2>2, <2>3, <2>4, <2>5 DEF LoadNext
<1>3. ServedInv => ServedIsUsable
  BY ValidIsUsable DEF ServedInv, ServedIsUsable
<1> QED
  BY <1>1, <1>2, <1>3, PTL DEF LoadSpec
=============================================================================

--------------------------- MODULE AuditFileProofs ---------------------------
(* Theorems about AuditFile: any tasks and processes, any size of a line, any *)
(* number of records and of incomplete writes.                               *)
EXTENDS AuditFile, FiniteSetTheorems, SequenceTheorems, TLAPS

Pieces == [rec : 1..MaxRecords, unit : 1..LineSize]
Works == [rec : 0..MaxRecords, at : 0..LineSize, held : BOOLEAN]

\* A record is written by the task that has it, of the process of its author, and
\* nobody writes it once it is acknowledged (audit.rs:32-62).
Owned ==
    /\ \A t \in AuditTasks :
          LET w == auditTask[t]
          IN  /\ w.rec <= Len(author) /\ w.rec \notin acked
              /\ w.rec = 0 => w = Idle
              /\ w.rec # 0 => author[w.rec] = ProcessOf[t] /\ w.at < LineSize
    /\ \A t, u \in AuditTasks : t # u /\ auditTask[t].rec = auditTask[u].rec =>
                                    auditTask[t].rec = 0
    /\ \A i \in DOMAIN auditFile : auditFile[i].rec <= Len(author)

\* What the file holds of a record grows unit by unit: those of a line that is
\* being written are the ones its task has counted (audit.rs:57-59).
Growing ==
    /\ \A i, j \in DOMAIN auditFile : i < j /\ auditFile[i].rec = auditFile[j].rec =>
                                          auditFile[i].unit < auditFile[j].unit
    /\ \A t \in AuditTasks : auditTask[t].rec # 0 =>
          \A i \in DOMAIN auditFile : auditFile[i].rec = auditTask[t].rec =>
                                          auditFile[i].unit <= auditTask[t].at
    /\ \A t \in AuditTasks : auditTask[t].rec # 0 =>
          \A n \in 1..auditTask[t].at : \E i \in DOMAIN auditFile :
              auditFile[i].rec = auditTask[t].rec /\ auditFile[i].unit = n

\* Every unit of an acknowledged record is in the file (audit.rs:62).
Complete ==
    \A r \in acked, n \in 1..LineSize : \E i \in DOMAIN auditFile :
        auditFile[i].rec = r /\ auditFile[i].unit = n

\* The line that a task is in the middle of begins behind all that its process has
\* written of other records (audit.rs:40).
Behind ==
    \A t \in AuditTasks : auditTask[t].at > 0 =>
        \A i, k \in DOMAIN auditFile :
            /\ auditFile[i].rec = auditTask[t].rec
            /\ auditFile[k].rec # auditTask[t].rec
            /\ author[auditFile[k].rec] = ProcessOf[t]
            => k < i

\* The piece at e is continued by the next one.
Continued(e) ==
    /\ e + 1 \in DOMAIN auditFile
    /\ auditFile[e + 1].rec = auditFile[e].rec /\ auditFile[e + 1].unit = auditFile[e].unit + 1

\* Where a line stops before its newline: nothing follows, or something else.
Breaks == {e \in DOMAIN auditFile : auditFile[e].unit < LineSize /\ ~Continued(e)}
Cut(e) == e \in Breaks /\ e + 1 \in DOMAIN auditFile

\* Each is left by a write that was short, and a line without one is in one piece
\* (audit.rs:57-62).
Broken == IsFiniteSet(Breaks) /\ Cardinality(Breaks) <= short
Together ==
    \A r \in 1..Len(author) :
        \/ \E e \in DOMAIN auditFile : auditFile[e].rec = r /\ Cut(e)
        \/ \A i, j \in DOMAIN auditFile : auditFile[i].rec = r /\ auditFile[j].rec = r =>
              j - i = auditFile[j].unit - auditFile[i].unit

AuditInv ==
    /\ AuditTypeOK /\ Owned /\ Growing /\ Complete
    /\ Behind /\ OwnLinesApart
    /\ Broken /\ Together

-----------------------------------------------------------------------------
LEMMA AuditTypes ==
    ASSUME AuditTypeOK
    PROVE  /\ auditFile \in Seq(Pieces) /\ Len(auditFile) \in Nat
           /\ DOMAIN auditFile = 1..Len(auditFile)
           /\ \A i \in DOMAIN auditFile :
                 /\ auditFile[i] \in Pieces
                 /\ auditFile[i].rec \in Nat \ {0} /\ auditFile[i].unit \in Nat \ {0}
                 /\ auditFile[i].unit <= LineSize
           /\ auditTask \in [AuditTasks -> Works]
           /\ \A t \in AuditTasks : auditTask[t] \in Works
           /\ \A t \in AuditTasks : auditTask[t].rec \in Nat /\ auditTask[t].at \in Nat
           /\ Len(author) \in Nat /\ Len(author) <= MaxRecords
           /\ DOMAIN author = 1..Len(author) /\ short \in Nat
           /\ LineSize \in Nat \ {0} /\ MaxRecords \in Nat
<1>1. /\ auditFile \in Seq(Pieces) /\ author \in Seq(Range(ProcessOf))
      /\ auditTask \in [AuditTasks -> Works] /\ Len(author) <= MaxRecords /\ short \in 0..MaxShort
  BY DEF AuditTypeOK, Pieces, Works
<1>2. /\ Len(auditFile) \in Nat /\ DOMAIN auditFile = 1..Len(auditFile)
      /\ Len(author) \in Nat /\ DOMAIN author = 1..Len(author)
  BY <1>1, LenProperties
<1>3. LineSize \in Nat \ {0} /\ MaxRecords \in Nat /\ MaxShort \in Nat
  BY AuditFileAssumption
<1>4. \A i \in DOMAIN auditFile :
         /\ auditFile[i] \in Pieces
         /\ auditFile[i].rec \in Nat \ {0} /\ auditFile[i].unit \in Nat \ {0}
         /\ auditFile[i].unit <= LineSize
  <2> SUFFICES ASSUME NEW i \in DOMAIN auditFile
               PROVE  /\ auditFile[i] \in Pieces
                      /\ auditFile[i].rec \in Nat \ {0} /\ auditFile[i].unit \in Nat \ {0}
                      /\ auditFile[i].unit <= LineSize
    OBVIOUS
  <2>1. auditFile[i] \in Pieces
    BY <1>1, <1>2, ElementOfSeq
  <2> QED
    BY <1>3, <2>1 DEF Pieces
<1>5. \A t \in AuditTasks : /\ auditTask[t] \in Works
                            /\ auditTask[t].rec \in Nat /\ auditTask[t].at \in Nat
  BY <1>1, <1>3 DEF Works
<1> QED
  BY <1>1, <1>2, <1>3, <1>4, <1>5

\* Task t becomes w.
Takes(t, w) ==
    /\ auditTask' \in [AuditTasks -> Works] /\ auditTask'[t] = w
    /\ \A u \in AuditTasks \ {t} : auditTask'[u] = auditTask[u]

LEMMA TakesEffect ==
    ASSUME AuditTypeOK, NEW t \in AuditTasks, NEW w \in Works,
           auditTask' = [auditTask EXCEPT ![t] = w]
    PROVE  Takes(t, w)
BY AuditTypes DEF Takes

LEMMA IdleWorks == Idle \in Works /\ Idle.rec = 0 /\ Idle.at = 0 /\ Idle.held = FALSE
BY AuditFileAssumption DEF Idle, Works

\* A step after which only tasks that held the mutex hold it keeps the mutex.
Excludes ==
    \A u, v \in AuditTasks :
        /\ auditTask'[u].at > 0 => auditTask'[u].held
        /\ u # v /\ auditTask'[u].held /\ auditTask'[v].held => ProcessOf[u] # ProcessOf[v]

LEMMA MutexKept ==
    ASSUME AuditTypeOK,
           \A u \in AuditTasks :
              \/ auditTask'[u].at = 0 /\ auditTask'[u].held = FALSE
              \/ auditTask[u].held /\ auditTask'[u].held = TRUE
              \/ auditTask'[u] = auditTask[u]
    PROVE  Excludes
<1>1. ASSUME NEW u \in AuditTasks, auditTask'[u].at > 0
      PROVE  auditTask'[u].held
  <2>1. CASE auditTask'[u].at = 0
    BY <1>1, <2>1
  <2>2. CASE auditTask'[u].held = TRUE
    BY <2>2
  <2>3. CASE auditTask'[u] = auditTask[u]
    BY <1>1, <2>3 DEF AuditTypeOK
  <2> QED
    BY <2>1, <2>2, <2>3
<1>2. \A u \in AuditTasks : auditTask'[u].held => auditTask[u].held
  OBVIOUS
<1>3. \A u, v \in AuditTasks :
         u # v /\ auditTask[u].held /\ auditTask[v].held => ProcessOf[u] # ProcessOf[v]
  BY DEF AuditTypeOK
<1> QED
  BY <1>1, <1>2, <1>3 DEF Excludes

\* A write of n units of the line of t.
Grows(t, n) ==
    /\ auditFile' \in Seq(Pieces) /\ Len(auditFile') = Len(auditFile) + n
    /\ DOMAIN auditFile' = 1..Len(auditFile) + n
    /\ \A i \in 1..Len(auditFile) : auditFile'[i] = auditFile[i]
    /\ \A i \in 1..n : /\ auditFile'[Len(auditFile) + i].rec = auditTask[t].rec
                       /\ auditFile'[Len(auditFile) + i].unit = auditTask[t].at + i

LEMMA PutEffect ==
    ASSUME AuditTypeOK, NEW t \in AuditTasks, auditTask[t].rec # 0,
           NEW n \in 1..LineSize, Put(t, n)
    PROVE  Grows(t, n) /\ n \in Nat \ {0} /\ auditTask[t].at + n <= LineSize
<1> DEFINE r == auditTask[t].rec
           a == auditTask[t].at
           e(i) == [rec |-> r, unit |-> (a + 1) + i - 1]
           added == [i \in 1..((a + n) - (a + 1) + 1) |-> e(i)]
<1>1. /\ r \in 1..MaxRecords /\ a \in Nat /\ n \in Nat \ {0} /\ a + n <= LineSize
      /\ LineSize \in Nat
  BY AuditTypes DEF Put, Works
<1>2. (a + n) - (a + 1) + 1 = n /\ \A i \in 1..n : (a + 1) + i - 1 = a + i
  BY <1>1
<1>3. \A i \in 1..n : e(i) \in Pieces /\ e(i).rec = r /\ e(i).unit = a + i
  BY <1>1, <1>2 DEF Pieces
<1>4. added = [i \in 1..n |-> e(i)]
  BY <1>2
<1>5. added \in Seq(Pieces) /\ Len(added) = n /\ \A i \in 1..n : added[i] = e(i)
  <2>1. added \in [1..n -> Pieces] /\ \A i \in 1..n : added[i] = e(i)
    BY <1>3, <1>4
  <2> HIDE DEF added, e
  <2>2. added \in Seq(Pieces)
    BY <1>1, <2>1
  <2>3. Len(added) = n
    BY <1>1, <2>1, <2>2, LenProperties
  <2> QED
    BY <2>1, <2>2, <2>3
<1>6. auditFile' = auditFile \o added
  BY DEF Put, Units
<1>7. auditFile \in Seq(Pieces) /\ Len(auditFile) \in Nat
  BY AuditTypes
<1> HIDE DEF added, e, r, a
<1>8. /\ auditFile' \in Seq(Pieces) /\ Len(auditFile') = Len(auditFile) + n
      /\ \A i \in 1..Len(auditFile) + n :
            auditFile'[i] = IF i <= Len(auditFile) THEN auditFile[i] ELSE added[i - Len(auditFile)]
  BY <1>5, <1>6, <1>7, ConcatProperties
<1>9. DOMAIN auditFile' = 1..Len(auditFile) + n
  BY <1>8, LenProperties
<1>10. \A i \in 1..Len(auditFile) : auditFile'[i] = auditFile[i]
  BY <1>1, <1>7, <1>8
<1>11. ASSUME NEW i \in 1..n
       PROVE  auditFile'[Len(auditFile) + i] = added[i]
  <2>1. /\ Len(auditFile) + i \in 1..Len(auditFile) + n /\ ~(Len(auditFile) + i <= Len(auditFile))
        /\ (Len(auditFile) + i) - Len(auditFile) = i
    BY <1>1, <1>7
  <2> QED
    BY <1>8, <2>1
<1> QED
  BY <1>1, <1>3, <1>5, <1>8, <1>9, <1>10, <1>11 DEF Grows, r, a

\* A call of record(): a new record, of which nothing is written.
LEMMA CallEffect ==
    ASSUME AuditTypeOK, NEW t \in AuditTasks, AuditCall(t)
    PROVE  \E w \in Works :
             /\ Takes(t, w) /\ w.rec = Len(author) + 1 /\ w.at = 0 /\ w.held = FALSE
             /\ author' \in Seq(Range(ProcessOf)) /\ Len(author') = Len(author) + 1
             /\ Len(author) + 1 <= MaxRecords /\ author'[Len(author) + 1] = ProcessOf[t]
             /\ \A r \in 1..Len(author) : author'[r] = author[r]
             /\ DOMAIN author' = 1..Len(author) + 1
<1> DEFINE w == [Idle EXCEPT !.rec = Len(author) + 1]
<1>1. Len(author) \in Nat /\ Len(author) < MaxRecords /\ MaxRecords \in Nat /\ auditTask[t] = Idle
      /\ LineSize \in Nat
  BY AuditTypes DEF AuditCall
<1>2. w \in Works /\ w.rec = Len(author) + 1 /\ w.at = 0 /\ w.held = FALSE
  <2>1. Len(author) + 1 \in 0..MaxRecords /\ 0 \in 0..LineSize
    BY <1>1
  <2> QED
    BY <2>1 DEF Idle, Works
<1>3. auditTask' = [auditTask EXCEPT ![t] = w]
  BY <1>1 DEF AuditCall
<1> HIDE DEF w
<1>4. Takes(t, w)
  BY <1>2, <1>3, TakesEffect
<1>5. ProcessOf[t] \in Range(ProcessOf) /\ author \in Seq(Range(ProcessOf))
  BY AuditFileAssumption DEF AuditTypeOK
<1>6. /\ author' \in Seq(Range(ProcessOf)) /\ Len(author') = Len(author) + 1
      /\ author'[Len(author) + 1] = ProcessOf[t]
      /\ \A r \in 1..Len(author) : author'[r] = author[r]
  BY <1>5, AppendProperties DEF AuditCall
<1>7. DOMAIN author' = 1..Len(author) + 1
  BY <1>6, LenProperties
<1> QED
  BY <1>1, <1>2, <1>4, <1>6, <1>7

\* A write either completes the line, which is then acknowledged, or is short.
LEMMA WriteEffect ==
    ASSUME AuditTypeOK, Owned, NEW t \in AuditTasks, AuditWrite(t)
    PROVE  \E n \in Nat \ {0}, w \in Works :
             /\ auditTask[t].rec # 0 /\ auditTask[t].held
             /\ Grows(t, n) /\ Takes(t, w) /\ author' = author
             /\ \/ /\ auditTask[t].at + n = LineSize /\ w = Idle
                   /\ acked' = acked \cup {auditTask[t].rec} /\ short' = short
                \/ /\ auditTask[t].at + n < LineSize
                   /\ w.rec = auditTask[t].rec /\ w.at = auditTask[t].at + n /\ w.held = TRUE
                   /\ acked' = acked /\ short < MaxShort /\ short' = short + 1
<1>1. PICK n \in 1..LineSize :
        /\ Put(t, n)
        /\ IF LineDone(t, n) THEN Ack(t) /\ UNCHANGED short ELSE Advance(t, n) /\ Spare
  BY DEF AuditWrite
<1>2. auditTask[t].held
  BY <1>1 DEF Put
<1>3. auditTask[t].rec # 0
  BY <1>2, IdleWorks DEF Owned
<1>4. Grows(t, n) /\ n \in Nat \ {0} /\ auditTask[t].at + n <= LineSize
  BY <1>1, <1>3, PutEffect
<1>5. author' = author
  BY <1>1 DEF Put
<1>6. CASE LineDone(t, n)
  <2>1. Takes(t, Idle)
    BY <1>1, <1>6, IdleWorks, TakesEffect DEF Ack
  <2> QED
    BY <1>1, <1>2, <1>3, <1>4, <1>5, <1>6, <2>1, IdleWorks DEF Ack, LineDone
<1>7. CASE ~LineDone(t, n)
  <2> DEFINE w == [auditTask[t] EXCEPT !.at = @ + n]
  <2>1. auditTask[t] \in Works /\ auditTask[t].at \in Nat /\ LineSize \in Nat
    BY AuditTypes
  <2>2. auditTask[t].at + n \in 0..LineSize /\ auditTask[t].at + n < LineSize
    BY <1>4, <1>7, <2>1 DEF LineDone
  <2>3. /\ w \in Works /\ w.rec = auditTask[t].rec /\ w.at = auditTask[t].at + n
        /\ w.held = auditTask[t].held
    BY <2>1, <2>2 DEF Works
  <2>4. auditTask' = [auditTask EXCEPT ![t] = w]
    BY <1>1, <1>7 DEF Advance
  <2> HIDE DEF w
  <2>5. Takes(t, w)
    BY <2>3, <2>4, TakesEffect
  <2>6. w.held = TRUE
    BY <1>2, <2>1, <2>3 DEF Works
  <2> QED
    BY <1>1, <1>2, <1>3, <1>4, <1>5, <1>7, <2>2, <2>3, <2>5, <2>6 DEF Advance, Spare
<1> QED
  BY <1>6, <1>7

-----------------------------------------------------------------------------
LEMMA AuditInitInv == AuditInit => AuditInv
<1> SUFFICES ASSUME AuditInit PROVE AuditInv
  OBVIOUS
<1>1. /\ auditFile = <<>> /\ author = <<>> /\ acked = {} /\ short = 0
      /\ \A t \in AuditTasks : auditTask[t] = Idle
      /\ auditTask \in [AuditTasks -> Works]
  BY IdleWorks DEF AuditInit
<1>2. AuditTypeOK
  BY <1>1, IdleWorks, EmptySeq, AuditFileAssumption DEF AuditTypeOK, Works
<1>3. DOMAIN auditFile = {} /\ Len(author) = 0 /\ DOMAIN author = {}
  BY <1>1
<1>4. Owned /\ Growing /\ Complete /\ Behind /\ OwnLinesApart /\ Together
  BY <1>1, <1>3, IdleWorks
     DEF Owned, Growing, Complete, Behind, OwnLinesApart, Together
<1>5. Broken
  BY <1>1, <1>3, FS_EmptySet DEF Broken, Breaks
<1> QED
  BY <1>2, <1>4, <1>5 DEF AuditInv

\* A call, which finds nothing of its record in the file.
LEMMA CallStepInv ==
    ASSUME AuditInv, NEW t \in AuditTasks, AuditCall(t)
    PROVE  AuditInv'
<1> USE DEF AuditInv
<1>1. PICK w \in Works :
        /\ Takes(t, w) /\ w.rec = Len(author) + 1 /\ w.at = 0 /\ w.held = FALSE
        /\ author' \in Seq(Range(ProcessOf)) /\ Len(author') = Len(author) + 1
        /\ Len(author) + 1 <= MaxRecords /\ author'[Len(author) + 1] = ProcessOf[t]
        /\ \A r \in 1..Len(author) : author'[r] = author[r]
        /\ DOMAIN author' = 1..Len(author) + 1
  BY CallEffect
<1>2. UNCHANGED <<auditFile, acked, short>>
  BY DEF AuditCall
<1>3. /\ Len(author) \in Nat /\ LineSize \in Nat \ {0} /\ DOMAIN author = 1..Len(author)
      /\ \A u \in AuditTasks : /\ auditTask[u].rec \in Nat /\ auditTask[u].at \in Nat
                               /\ auditTask[u] \in Works
  BY AuditTypes
<1>4. \A i \in DOMAIN auditFile : auditFile[i].rec \in 1..Len(author)
  BY <1>3, AuditTypes DEF Owned
<1>5. AuditTypeOK'
  <2>1. acked \subseteq 1..Len(author')
    BY <1>1, <1>3 DEF AuditTypeOK
  <2>2. Excludes
    BY <1>1, MutexKept DEF Takes
  <2> QED
    BY <1>1, <1>2, <2>1, <2>2 DEF AuditTypeOK, Excludes, Takes, Works
<1>6. Owned'
  <2>1. \A u \in AuditTasks :
          /\ auditTask'[u].rec <= Len(author') /\ auditTask'[u].rec \notin acked
          /\ auditTask'[u].rec = 0 => auditTask'[u] = Idle
          /\ auditTask'[u].rec # 0 =>
                author'[auditTask'[u].rec] = ProcessOf[u] /\ auditTask'[u].at < LineSize
    <3>1. CASE auditTask'[t] = w
      <4>1. w.rec \notin acked /\ w.rec # 0 /\ w.at < LineSize
        BY <1>1, <1>3 DEF AuditTypeOK
      <4>2. ASSUME NEW u \in AuditTasks, u # t
            PROVE  /\ auditTask[u].rec <= Len(author')
                   /\ auditTask[u].rec # 0 => author'[auditTask[u].rec] = ProcessOf[u]
        BY <1>1, <1>3, <4>2 DEF Owned
      <4> QED
        BY <1>1, <3>1, <4>1, <4>2 DEF Owned, Takes
    <3> QED
      BY <1>1, <3>1 DEF Takes
  <2>2. \A u, v \in AuditTasks : u # v /\ auditTask'[u].rec = auditTask'[v].rec =>
                                     auditTask'[u].rec = 0
    <3>1. \A u \in AuditTasks : u # t => auditTask[u].rec # w.rec
      BY <1>1, <1>3 DEF Owned
    <3> QED
      BY <1>1, <3>1 DEF Owned, Takes
  <2>3. \A i \in DOMAIN auditFile : auditFile[i].rec <= Len(author')
    BY <1>1, <1>3, <1>4
  <2> QED
    BY <1>2, <2>1, <2>2, <2>3 DEF Owned
<1>7. \A i \in DOMAIN auditFile : auditFile[i].rec # w.rec
  BY <1>1, <1>3, <1>4
<1>8. Growing'
  <2>1. \A u \in AuditTasks : auditTask'[u].rec # 0 =>
           \A i \in DOMAIN auditFile : auditFile[i].rec = auditTask'[u].rec =>
                                           auditFile[i].unit <= auditTask'[u].at
    BY <1>1, <1>7 DEF Growing, Takes
  <2>2. \A u \in AuditTasks : auditTask'[u].rec # 0 =>
           \A n \in 1..auditTask'[u].at : \E i \in DOMAIN auditFile :
               auditFile[i].rec = auditTask'[u].rec /\ auditFile[i].unit = n
    BY <1>1 DEF Growing, Takes
  <2> QED
    BY <1>2, <2>1, <2>2 DEF Growing
<1>9. Complete'
  BY <1>2 DEF Complete
<1>10. Behind'
  BY <1>1, <1>2, <1>4 DEF Behind, Takes
<1>11. OwnLinesApart'
  BY <1>1, <1>2, <1>3, <1>7 DEF OwnLinesApart, Places
<1>12. Broken'
  BY <1>2 DEF Broken, Breaks, Continued
<1>13. Together'
  <2>1. ASSUME NEW e PROVE Cut(e)' <=> Cut(e)
    BY <1>2 DEF Cut, Breaks, Continued
  <2>2. ASSUME NEW r \in 1..Len(author')
        PROVE  r \in 1..Len(author) \/ r = w.rec
    BY <1>1, <1>3
  <2> QED
    BY <1>2, <1>7, <2>1, <2>2 DEF Together
<1> QED
  BY <1>5, <1>6, <1>8, <1>9, <1>10, <1>11, <1>12, <1>13

\* Steps that write nothing: a task takes its mutex, or gives up what it has.
LEMMA RestStepInv ==
    ASSUME AuditInv, UNCHANGED <<auditFile, acked, author, short>>,
           auditTask' \in [AuditTasks -> Works],
           \A t \in AuditTasks :
               \/ auditTask'[t] = Idle
               \/ /\ auditTask[t].rec # 0
                  /\ auditTask'[t].rec = auditTask[t].rec /\ auditTask'[t].at = auditTask[t].at
               \/ auditTask'[t] = auditTask[t],
           Excludes
    PROVE  AuditInv'
<1> USE DEF AuditInv
<1>1. \A t \in AuditTasks :
        \/ auditTask'[t] = Idle /\ auditTask'[t].rec = 0 /\ auditTask'[t].at = 0
        \/ /\ auditTask'[t].rec = auditTask[t].rec /\ auditTask'[t].at = auditTask[t].at
           /\ auditTask[t].rec # 0 \/ auditTask'[t] = auditTask[t]
  BY IdleWorks
<1>2. Len(author) \in Nat /\ LineSize \in Nat \ {0}
  BY AuditTypes
<1>3. AuditTypeOK'
  BY DEF AuditTypeOK, Excludes, Works
<1>4. Owned'
  <2>1. \A u \in AuditTasks :
          /\ auditTask'[u].rec <= Len(author) /\ auditTask'[u].rec \notin acked
          /\ auditTask'[u].rec = 0 => auditTask'[u] = Idle
          /\ auditTask'[u].rec # 0 =>
                author[auditTask'[u].rec] = ProcessOf[u] /\ auditTask'[u].at < LineSize
    <3>1. 0 \notin acked /\ 0 <= Len(author)
      BY <1>2 DEF AuditTypeOK
    <3> QED
      BY <1>1, <3>1 DEF Owned
  <2>2. \A u, v \in AuditTasks : u # v /\ auditTask'[u].rec = auditTask'[v].rec =>
                                     auditTask'[u].rec = 0
    BY <1>1 DEF Owned
  <2> QED
    BY <2>1, <2>2 DEF Owned
<1>5. Growing'
  <2>1. \A u \in AuditTasks : auditTask'[u].rec # 0 =>
          auditTask'[u].rec = auditTask[u].rec /\ auditTask'[u].at = auditTask[u].at
    BY <1>1
  <2> QED
    BY <2>1 DEF Growing
<1>6. Complete'
  BY DEF Complete
<1>7. Behind'
  <2>1. \A u \in AuditTasks : auditTask'[u].at > 0 =>
          auditTask'[u].rec = auditTask[u].rec /\ auditTask'[u].at = auditTask[u].at
    BY <1>1
  <2> QED
    BY <2>1 DEF Behind
<1>8. OwnLinesApart' /\ Broken'
  BY DEF OwnLinesApart, Places, Broken, Breaks, Continued
<1>9. Together'
  BY DEF Together, Cut, Breaks, Continued
<1> QED
  BY <1>3, <1>4, <1>5, <1>6, <1>7, <1>8, <1>9

LEMMA LockStepInv ==
    ASSUME AuditInv, NEW t \in AuditTasks, AuditLock(t)
    PROVE  AuditInv'
<1> DEFINE w == [auditTask[t] EXCEPT !.held = TRUE]
<1>1. /\ w \in Works /\ w.rec = auditTask[t].rec /\ w.at = auditTask[t].at /\ w.held = TRUE
      /\ auditTask[t].rec # 0
  BY AuditTypes DEF AuditInv, AuditLock, Works
<1>2. auditTask' = [auditTask EXCEPT ![t] = w]
  BY DEF AuditLock
<1> HIDE DEF w
<1>3. Takes(t, w)
  BY <1>1, <1>2, TakesEffect DEF AuditInv
<1>4. Excludes
  BY <1>1, <1>3 DEF Excludes, AuditInv, AuditTypeOK, AuditLock, Takes
<1> QED
  BY <1>1, <1>3, <1>4, RestStepInv DEF AuditLock, Takes

\* record() fails, or its process ends: what is written stays.
LEMMA DropStepInv ==
    ASSUME AuditInv,
           \/ \E t \in AuditTasks : AuditFails(t)
           \/ \E p \in Range(ProcessOf) : AuditCrash(p)
    PROVE  AuditInv'
<1>1. /\ UNCHANGED <<auditFile, acked, author, short>> /\ auditTask' \in [AuditTasks -> Works]
      /\ \A t \in AuditTasks : auditTask'[t] = Idle \/ auditTask'[t] = auditTask[t]
  BY AuditTypes, IdleWorks DEF AuditInv, AuditFails, AuditCrash
<1>2. Excludes
  BY <1>1, IdleWorks, MutexKept DEF AuditInv
<1> QED
  BY <1>1, <1>2, RestStepInv

-----------------------------------------------------------------------------
LEMMA EqualGaps ==
    ASSUME NEW i \in Int, NEW j \in Int, NEW v \in Int, NEW w \in Int, i - v = j - w
    PROVE  j - i = w - v
OBVIOUS

\* One write(2) of n units of record r, of which a were written before.
LEMMA WriteStepInv ==
    ASSUME AuditInv, NEW t \in AuditTasks, AuditWrite(t)
    PROVE  AuditInv'
<1> USE DEF AuditInv
<1> DEFINE L == Len(auditFile)
           r == auditTask[t].rec
           a == auditTask[t].at
<1>1. PICK n \in Nat \ {0}, w \in Works :
        /\ r # 0 /\ auditTask[t].held
        /\ Grows(t, n) /\ Takes(t, w) /\ author' = author
        /\ \/ /\ a + n = LineSize /\ w = Idle
              /\ acked' = acked \cup {r} /\ short' = short
           \/ /\ a + n < LineSize
              /\ w.rec = r /\ w.at = a + n /\ w.held = TRUE
              /\ acked' = acked /\ short < MaxShort /\ short' = short + 1
  BY WriteEffect
<1>2. /\ L \in Nat /\ a \in Nat /\ r \in Nat \ {0} /\ r <= Len(author) /\ r \notin acked
      /\ LineSize \in Nat \ {0} /\ Len(author) \in Nat /\ DOMAIN author = 1..Len(author)
      /\ DOMAIN auditFile = 1..L /\ author[r] = ProcessOf[t] /\ short \in Nat /\ a < LineSize
  BY <1>1, AuditTypes DEF Owned
<1>3. \A i \in 1..L : auditFile[i].rec \in Nat \ {0} /\ auditFile[i].unit \in Nat \ {0}
                      /\ auditFile[i].unit <= LineSize
  BY <1>2, AuditTypes
<1>4. \A u \in AuditTasks : /\ auditTask[u].rec \in Nat /\ auditTask[u].at \in Nat
                            /\ auditTask[u] \in Works
  BY AuditTypes
\* The pieces of the new file: the old ones, and those of r behind them.
<1>5. /\ DOMAIN auditFile' = 1..L + n /\ Len(auditFile') = L + n /\ auditFile' \in Seq(Pieces)
      /\ \A i \in 1..L : i \in 1..L + n /\ auditFile'[i] = auditFile[i]
      /\ \A i \in 1..L + n : i \notin 1..L =>
            /\ i > L /\ auditFile'[i].rec = r /\ auditFile'[i].unit = a + (i - L)
            /\ i - L \in 1..n
  <2>1. ASSUME NEW i \in 1..L + n, i \notin 1..L
        PROVE  i > L /\ auditFile'[i].rec = r /\ auditFile'[i].unit = a + (i - L) /\ i - L \in 1..n
    <3>1. i - L \in 1..n /\ L + (i - L) = i /\ i > L
      BY <1>2, <2>1
    <3>2. /\ auditFile'[L + (i - L)].rec = r /\ auditFile'[L + (i - L)].unit = a + (i - L)
      BY <1>1, <3>1 DEF Grows
    <3> QED
      BY <3>1, <3>2
  <2>2. \A i \in 1..L : i \in 1..L + n
    BY <1>2
  <2> QED
    BY <1>1, <2>1, <2>2 DEF Grows
\* The units of r in the old file are those up to a.
<1>6. /\ \A i \in 1..L : auditFile[i].rec = r => auditFile[i].unit <= a /\ a > 0
      /\ \A m \in 1..a : \E i \in 1..L : auditFile[i].rec = r /\ auditFile[i].unit = m
  <2>1. ASSUME NEW i \in 1..L, auditFile[i].rec = r
        PROVE  auditFile[i].unit <= a /\ a > 0
    <3>1. auditFile[i].unit <= a
      BY <1>1, <1>2, <2>1 DEF Growing
    <3>2. auditFile[i].unit \in Nat /\ auditFile[i].unit > 0 /\ a \in Nat
      BY <1>2, <1>3, <2>1
    <3> QED
      BY <3>1, <3>2
  <2>2. \A m \in 1..a : \E i \in DOMAIN auditFile : auditFile[i].rec = r /\ auditFile[i].unit = m
    BY <1>1 DEF Growing
  <2>3. DOMAIN auditFile = 1..L
    BY <1>2
  <2> QED
    BY <2>1, <2>2, <2>3
<1>7. \A u \in AuditTasks : u # t => auditTask[u].rec # r
  BY <1>1 DEF Owned
<1> HIDE DEF L, r, a
<1>8. AuditTypeOK'
  <2>1. Excludes
    BY <1>1, IdleWorks, MutexKept DEF Takes
  <2>2. acked' \subseteq 1..Len(author')
    <3>1. acked \subseteq 1..Len(author) /\ r \in 1..Len(author)
      BY <1>2 DEF AuditTypeOK
    <3>2. acked' = acked \/ acked' = acked \cup {r}
      BY <1>1
    <3>3. Len(author') = Len(author)
      BY <1>1
    <3> QED
      BY <3>1, <3>2, <3>3
  <2>3. short' \in 0..MaxShort
    <3>1. short \in 0..MaxShort /\ MaxShort \in Nat
      BY AuditFileAssumption DEF AuditTypeOK
    <3> QED
      BY <1>1, <3>1
  <2> QED
    BY <1>1, <1>5, <2>1, <2>2, <2>3 DEF AuditTypeOK, Excludes, Takes, Pieces, Works
<1>9. Owned'
  <2>1. ASSUME NEW u \in AuditTasks
        PROVE  /\ auditTask'[u].rec <= Len(author') /\ auditTask'[u].rec \notin acked'
               /\ auditTask'[u].rec = 0 => auditTask'[u] = Idle
               /\ auditTask'[u].rec # 0 =>
                     author'[auditTask'[u].rec] = ProcessOf[u] /\ auditTask'[u].at < LineSize
    <3>1. 0 \notin acked /\ 0 # r
      BY <1>2 DEF AuditTypeOK
    <3>2. CASE u = t
      BY <1>1, <1>2, <3>1, <3>2, IdleWorks DEF Takes
    <3>3. CASE u # t
      BY <1>1, <1>7, <3>3 DEF Takes, Owned
    <3> QED
      BY <3>2, <3>3
  <2>2. ASSUME NEW u \in AuditTasks
        PROVE  auditTask'[u].rec = 0 \/ auditTask'[u].rec = auditTask[u].rec
    BY <1>1, IdleWorks DEF Takes, r
  <2>3. \A u, v \in AuditTasks : u # v /\ auditTask'[u].rec = auditTask'[v].rec =>
                                     auditTask'[u].rec = 0
    BY <2>2 DEF Owned
  <2>4. \A i \in DOMAIN auditFile' : auditFile'[i].rec <= Len(author')
    BY <1>1, <1>2, <1>5 DEF Owned
  <2> QED
    BY <2>1, <2>3, <2>4 DEF Owned
<1>10. Growing'
  <2>1. ASSUME NEW i \in 1..L + n, NEW j \in 1..L + n, i < j,
               auditFile'[i].rec = auditFile'[j].rec
        PROVE  auditFile'[i].unit < auditFile'[j].unit
    <3>1. CASE j \in 1..L
      <4>1. i \in 1..L
        BY <1>2, <2>1, <3>1
      <4> QED
        BY <1>2, <1>5, <2>1, <3>1, <4>1 DEF Growing
    <3>2. CASE j \notin 1..L /\ i \in 1..L
      <4>1. auditFile[i].unit <= a /\ auditFile[i].unit \in Nat
        BY <1>3, <1>5, <1>6, <2>1, <3>2
      <4>2. auditFile'[i].unit = auditFile[i].unit
        BY <1>5, <3>2
      <4>3. auditFile'[j].unit = a + (j - L) /\ j - L \in 1..n
        BY <1>5, <3>2
      <4> QED
        BY <1>2, <4>1, <4>2, <4>3
    <3>3. CASE j \notin 1..L /\ i \notin 1..L
      <4>1. auditFile'[i].unit = a + (i - L) /\ auditFile'[j].unit = a + (j - L)
        BY <1>5, <3>3
      <4> QED
        BY <1>2, <2>1, <4>1
    <3> QED
      BY <3>1, <3>2, <3>3
  <2>2. ASSUME NEW m \in 1..a + n
        PROVE  \E i \in 1..L + n : auditFile'[i].rec = r /\ auditFile'[i].unit = m
    <3>1. CASE m \in 1..a
      <4>1. PICK i \in 1..L : auditFile[i].rec = r /\ auditFile[i].unit = m
        BY <1>6, <3>1
      <4> QED
        BY <1>5, <4>1
    <3>2. CASE m \notin 1..a
      <4>1. L + (m - a) \in 1..L + n /\ L + (m - a) \notin 1..L /\ a + ((L + (m - a)) - L) = m
        BY <1>2, <3>2
      <4> QED
        BY <1>5, <4>1
    <3> QED
      BY <3>1, <3>2
  <2>3. ASSUME NEW u \in AuditTasks, auditTask'[u].rec # 0
        PROVE  /\ \A i \in 1..L + n : auditFile'[i].rec = auditTask'[u].rec =>
                                          auditFile'[i].unit <= auditTask'[u].at
               /\ \A m \in 1..auditTask'[u].at : \E i \in 1..L + n :
                     auditFile'[i].rec = auditTask'[u].rec /\ auditFile'[i].unit = m
    <3>1. CASE u = t
      <4>1. auditTask'[u].rec = r /\ auditTask'[u].at = a + n
        BY <1>1, <2>3, <3>1, IdleWorks DEF Takes
      <4>2. ASSUME NEW i \in 1..L + n, auditFile'[i].rec = r
            PROVE  auditFile'[i].unit <= a + n
        <5>1. CASE i \in 1..L
          <6>1. auditFile'[i].unit <= a /\ auditFile'[i].unit \in Nat
            BY <1>3, <1>5, <1>6, <4>2, <5>1
          <6> QED
            BY <1>2, <6>1
        <5>2. CASE i \notin 1..L
          <6>1. auditFile'[i].unit = a + (i - L) /\ i - L \in 1..n
            BY <1>5, <5>2
          <6> QED
            BY <1>2, <6>1
        <5> QED
          BY <5>1, <5>2
      <4> QED
        BY <2>2, <4>1, <4>2
    <3>2. CASE u # t
      <4>1. auditTask'[u] = auditTask[u] /\ auditTask[u].rec # r
        BY <1>1, <1>7, <3>2 DEF Takes
      <4>2. ASSUME NEW i \in 1..L + n, auditFile'[i].rec = auditTask[u].rec
            PROVE  i \in 1..L /\ auditFile'[i] = auditFile[i]
        BY <1>5, <4>1, <4>2
      <4>3. \A i \in 1..L : auditFile[i].rec = auditTask[u].rec =>
                               auditFile[i].unit <= auditTask[u].at
        BY <1>2, <2>3, <4>1 DEF Growing
      <4>4. \A m \in 1..auditTask[u].at : \E i \in 1..L :
               auditFile[i].rec = auditTask[u].rec /\ auditFile[i].unit = m
        BY <1>2, <2>3, <4>1 DEF Growing
      <4>5. \A m \in 1..auditTask[u].at : \E i \in 1..L + n :
               auditFile'[i].rec = auditTask[u].rec /\ auditFile'[i].unit = m
        BY <1>5, <4>4
      <4> QED
        BY <4>1, <4>2, <4>3, <4>5
    <3> QED
      BY <3>1, <3>2
  <2> QED
    BY <1>5, <2>1, <2>3 DEF Growing
<1>11. Complete'
  <2>1. ASSUME NEW q \in acked', NEW m \in 1..LineSize
        PROVE  \E i \in 1..L + n : auditFile'[i].rec = q /\ auditFile'[i].unit = m
    <3>1. CASE q \in acked
      <4>1. PICK i \in 1..L : auditFile[i].rec = q /\ auditFile[i].unit = m
        BY <1>2, <3>1 DEF Complete
      <4> QED
        BY <1>5, <4>1
    <3>2. CASE q \notin acked
      <4>1. q = r /\ a + n = LineSize
        BY <1>1, <2>1, <3>2
      <4>2. CASE m \in 1..a
        <5>1. PICK i \in 1..L : auditFile[i].rec = r /\ auditFile[i].unit = m
          BY <1>6, <4>2
        <5> QED
          BY <1>5, <4>1, <5>1
      <4>3. CASE m \notin 1..a
        <5> DEFINE d == m - a
        <5>1. d \in 1..n /\ a + d = m
          BY <1>1, <1>2, <4>1, <4>3
        <5> HIDE DEF d
        <5>2. L + d \in 1..L + n /\ L + d \notin 1..L /\ (L + d) - L = d
          BY <1>2, <5>1
        <5> QED
          BY <1>5, <4>1, <5>1, <5>2
      <4> QED
        BY <4>2, <4>3
    <3> QED
      BY <3>1, <3>2
  <2> QED
    BY <1>5, <2>1 DEF Complete
\* A piece of another record of the process is old, and no other task of the
\* process is in the middle of a line.
<1>12. Behind'
  <2> SUFFICES ASSUME NEW u \in AuditTasks, auditTask'[u].at > 0,
                      NEW i \in 1..L + n, NEW k \in 1..L + n,
                      auditFile'[i].rec = auditTask'[u].rec,
                      auditFile'[k].rec # auditTask'[u].rec,
                      author[auditFile'[k].rec] = ProcessOf[u]
               PROVE  k < i
    BY <1>1, <1>5 DEF Behind
  <2>1. CASE u = t
    <3>1. auditTask'[u].rec = r
      BY <1>1, <2>1, IdleWorks DEF Takes
    <3>2. k \in 1..L /\ auditFile'[k] = auditFile[k]
      BY <1>5, <3>1
    <3>3. CASE i \in 1..L
      <4>1. auditFile[i].rec = r /\ a > 0
        BY <1>5, <1>6, <3>1, <3>3
      <4> QED
        BY <1>2, <2>1, <3>1, <3>2, <3>3, <4>1 DEF Behind, r, a
    <3>4. CASE i \notin 1..L
      BY <1>2, <1>5, <3>2, <3>4
    <3> QED
      BY <3>3, <3>4
  <2>2. CASE u # t
    <3>1. auditTask'[u] = auditTask[u] /\ auditTask[u].rec # r
      BY <1>1, <1>7, <2>2 DEF Takes
    <3>2. ProcessOf[u] # ProcessOf[t]
      BY <1>1, <2>2, <3>1 DEF AuditTypeOK
    <3>3. i \in 1..L /\ auditFile'[i] = auditFile[i]
      BY <1>5, <3>1
    <3>4. k \in 1..L /\ auditFile'[k] = auditFile[k]
      BY <1>2, <1>5, <3>2
    <3> QED
      BY <1>2, <3>1, <3>3, <3>4 DEF Behind
  <2> QED
    BY <2>1, <2>2
<1>13. OwnLinesApart'
  <2> SUFFICES ASSUME NEW p \in DOMAIN author, NEW q \in DOMAIN author,
                      p # q, author[p] = author[q],
                      NEW i \in 1..L + n, NEW j \in 1..L + n, NEW k \in 1..L + n,
                      auditFile'[i].rec = p, auditFile'[j].rec = p, auditFile'[k].rec = q,
                      i < k, k < j
               PROVE  FALSE
    BY <1>1, <1>5 DEF OwnLinesApart, Places
  <2>1. CASE j \in 1..L
    <3>1. i \in 1..L /\ k \in 1..L
      BY <1>2, <2>1
    <3> QED
      BY <1>2, <1>5, <2>1, <3>1 DEF OwnLinesApart, Places
  <2>2. CASE j \notin 1..L
    <3>1. p = r
      BY <1>5, <2>2
    <3>2. k \in 1..L /\ auditFile[k].rec = q
      BY <1>5, <3>1
    <3>3. i \in 1..L
      BY <1>2, <3>2
    <3>4. auditFile[i].rec = r /\ a > 0
      BY <1>5, <1>6, <3>1, <3>3
    <3>5. k < i
      BY <1>2, <3>1, <3>2, <3>3, <3>4 DEF Behind, r, a
    <3> QED
      BY <1>2, <3>2, <3>3, <3>5
  <2> QED
    BY <2>1, <2>2
\* The new pieces follow each other: only the last can be a break, after a short write.
<1>14. Broken'
  <2>1. ASSUME NEW e \in Breaks', e # L + n
        PROVE  e \in Breaks
    <3>1. e \in 1..L + n /\ auditFile'[e].unit < LineSize /\ ~Continued(e)'
      BY <1>5, <2>1 DEF Breaks
    <3>2. CASE e \in 1..L
      <4>1. auditFile'[e] = auditFile[e]
        BY <1>5, <3>2
      <4>2. ASSUME Continued(e) PROVE FALSE
        <5>1. e + 1 \in 1..L /\ auditFile'[e + 1] = auditFile[e + 1] /\ e + 1 \in 1..L + n
          BY <1>2, <1>5, <4>2 DEF Continued
        <5> QED
          BY <1>5, <3>1, <4>1, <4>2, <5>1 DEF Continued
      <4> QED
        BY <1>2, <3>1, <3>2, <4>1, <4>2 DEF Breaks
    <3>3. CASE e \notin 1..L
      <4>1. /\ e + 1 \in 1..L + n /\ e + 1 \notin 1..L
            /\ a + ((e + 1) - L) = (a + (e - L)) + 1
        BY <1>2, <2>1, <3>1, <3>3
      <4>2. /\ auditFile'[e].rec = r /\ auditFile'[e].unit = a + (e - L)
            /\ auditFile'[e + 1].rec = r /\ auditFile'[e + 1].unit = a + ((e + 1) - L)
        BY <1>5, <3>1, <3>3, <4>1
      <4> QED
        BY <1>5, <3>1, <4>1, <4>2 DEF Continued
    <3> QED
      BY <3>2, <3>3
  <2>2. IsFiniteSet(Breaks) /\ Cardinality(Breaks) <= short /\ Cardinality(Breaks) \in Nat
    BY FS_CardinalityType DEF Broken
  <2>3. CASE a + n = LineSize
    <3>1. short' = short
      BY <1>1, <1>2, <2>3
    <3>2. L + n \notin Breaks'
      <4>1. L + n \in 1..L + n /\ L + n \notin 1..L /\ a + ((L + n) - L) = LineSize
        BY <1>2, <2>3
      <4>2. auditFile'[L + n].unit = LineSize
        BY <1>5, <4>1
      <4> QED
        BY <1>2, <4>2 DEF Breaks
    <3>3. Breaks' \subseteq Breaks
      BY <2>1, <3>2
    <3>4. IsFiniteSet(Breaks') /\ Cardinality(Breaks') <= Cardinality(Breaks)
      BY <2>2, <3>3, FS_Subset
    <3>5. Cardinality(Breaks') \in Nat
      BY <3>4, FS_CardinalityType
    <3> QED
      BY <1>2, <2>2, <3>1, <3>4, <3>5 DEF Broken
  <2>4. CASE a + n < LineSize
    <3>1. short' = short + 1
      BY <1>1, <1>2, <2>4
    <3>2. Breaks' \subseteq Breaks \cup {L + n}
      BY <2>1
    <3>3. /\ IsFiniteSet(Breaks \cup {L + n})
          /\ \/ Cardinality(Breaks \cup {L + n}) = Cardinality(Breaks)
             \/ Cardinality(Breaks \cup {L + n}) = Cardinality(Breaks) + 1
      BY <2>2, FS_AddElement
    <3>4. /\ IsFiniteSet(Breaks')
          /\ Cardinality(Breaks') <= Cardinality(Breaks \cup {L + n})
      BY <3>2, <3>3, FS_Subset
    <3>5. Cardinality(Breaks') \in Nat
      BY <3>4, FS_CardinalityType
    <3> QED
      BY <1>2, <2>2, <3>1, <3>3, <3>4, <3>5 DEF Broken
  <2> QED
    BY <1>1, <2>3, <2>4
\* A line that goes on at the end of the file stays in one piece; one that goes on
\* after something else was cut there.
<1>15. Together'
  <2> DEFINE Joined(q) == \A i, j \in 1..L : auditFile[i].rec = q /\ auditFile[j].rec = q =>
                              j - i = auditFile[j].unit - auditFile[i].unit
  <2> SUFFICES ASSUME NEW q \in 1..Len(author),
                      ~ \E e \in 1..L + n : auditFile'[e].rec = q /\ Cut(e)'
               PROVE  \A i, j \in 1..L + n : auditFile'[i].rec = q /\ auditFile'[j].rec = q =>
                         j - i = auditFile'[j].unit - auditFile'[i].unit
    BY <1>1, <1>5 DEF Together
  <2>1. ASSUME NEW e \in 1..L, Cut(e), auditFile[e].rec = q
        PROVE  FALSE
    <3>1. /\ e + 1 \in 1..L /\ auditFile[e].unit < LineSize /\ ~Continued(e)
          /\ auditFile'[e] = auditFile[e] /\ auditFile'[e + 1] = auditFile[e + 1]
          /\ e \in 1..L + n /\ e + 1 \in 1..L + n
      BY <1>2, <1>5, <2>1 DEF Cut, Breaks
    <3>2. ~Continued(e)'
      BY <1>2, <1>5, <3>1 DEF Continued
    <3>3. Cut(e)'
      BY <1>5, <3>1, <3>2 DEF Cut, Breaks
    <3> QED
      BY <2>1, <3>1, <3>3
  <2>2. Joined(q)
    BY <1>2, <2>1 DEF Together
  <2> HIDE DEF Joined
  <2>3. CASE q # r
    <3>1. \A i \in 1..L + n : auditFile'[i].rec = q => i \in 1..L /\ auditFile'[i] = auditFile[i]
      BY <1>5, <2>3
    <3> QED
      BY <2>2, <3>1 DEF Joined
  <2>4. CASE q = r
    <3>1. ASSUME NEW i \in 1..L, auditFile[i].rec = r
          PROVE  i - auditFile[i].unit = L - a
      <4>1. a > 0
        BY <1>6, <3>1
      <4>2. PICK p \in 1..L : auditFile[p].rec = r /\ auditFile[p].unit = a
        BY <1>2, <1>6, <4>1
      <4>3. p = L
        <5>1. SUFFICES ASSUME p # L PROVE FALSE
          OBVIOUS
        <5>2. p + 1 \in 1..L
          BY <1>2, <5>1
        <5>3. ~Continued(p)
          <6>1. auditFile[p + 1].rec = r => auditFile[p + 1].unit <= a
            BY <1>6, <5>2
          <6>2. ~(a + 1 <= a)
            BY <1>2
          <6> QED
            BY <4>2, <6>1, <6>2 DEF Continued
        <5>4. Cut(p)
          BY <1>2, <4>2, <5>2, <5>3 DEF Cut, Breaks
        <5> QED
          BY <2>1, <2>4, <4>2, <5>4
      <4>4. p - i = a - auditFile[i].unit
        BY <2>2, <2>4, <3>1, <4>2 DEF Joined
      <4>5. auditFile[i].unit \in Nat
        BY <1>3
      <4> QED
        BY <1>2, <4>3, <4>4, <4>5
    <3>2. ASSUME NEW i \in 1..L + n, auditFile'[i].rec = r
          PROVE  auditFile'[i].unit \in Int /\ i - auditFile'[i].unit = L - a
      <4>1. CASE i \in 1..L
        <5>1. auditFile'[i] = auditFile[i] /\ auditFile[i].unit \in Nat
          BY <1>3, <1>5, <4>1
        <5> QED
          BY <3>1, <3>2, <4>1, <5>1
      <4>2. CASE i \notin 1..L
        <5>1. auditFile'[i].unit = a + (i - L)
          BY <1>5, <4>2
        <5> QED
          BY <1>2, <5>1
      <4> QED
        BY <4>1, <4>2
    <3> QED
      <4>0. SUFFICES ASSUME NEW i \in 1..L + n, NEW j \in 1..L + n,
                            auditFile'[i].rec = r, auditFile'[j].rec = r
                     PROVE  j - i = auditFile'[j].unit - auditFile'[i].unit
        BY <2>4
      <4> DEFINE v == auditFile'[i].unit
                 x == auditFile'[j].unit
      <4>1. v \in Int /\ x \in Int /\ i - v = L - a /\ j - x = L - a
        BY <3>2, <4>0
      <4> HIDE DEF v, x
      <4>2. i \in Int /\ j \in Int
        BY <1>2
      <4>3. j - i = x - v
        BY <4>1, <4>2, EqualGaps
      <4> QED
        BY <4>3 DEF v, x
  <2> QED
    BY <2>3, <2>4
<1> QED
  BY <1>8, <1>9, <1>10, <1>11, <1>12, <1>13, <1>14, <1>15

-----------------------------------------------------------------------------
LEMMA AuditInductive == AuditSpec => []AuditInv
<1>1. AuditInv /\ [AuditNext]_auditVars => AuditInv'
  <2> SUFFICES ASSUME AuditInv, [AuditNext]_auditVars PROVE AuditInv'
    OBVIOUS
  <2>1. CASE UNCHANGED auditVars
    BY <2>1 DEF auditVars, AuditInv, AuditTypeOK, Owned, Growing, Complete, Behind,
                OwnLinesApart, Places, Broken, Together, Cut, Breaks, Continued
  <2>2. CASE \E t \in AuditTasks : AuditCall(t)
    BY <2>2, CallStepInv
  <2>3. CASE \E t \in AuditTasks : AuditLock(t)
    BY <2>3, LockStepInv
  <2>4. CASE \E t \in AuditTasks : AuditWrite(t)
    BY <2>4, WriteStepInv
  <2>5. CASE \/ \E t \in AuditTasks : AuditFails(t)
             \/ \E p \in Range(ProcessOf) : AuditCrash(p)
    BY <2>5, DropStepInv
  <2> QED
    BY <2>1, <2>2, <2>3, <2>4, <2>5 DEF AuditNext
<1> QED
  BY <1>1, AuditInitInv, PTL DEF AuditSpec

\* The types; and a mutex has one holder, who alone is in the middle of a line
\* (audit.rs:40).
THEOREM AuditTypesHold == AuditSpec => []AuditTypeOK
BY AuditInductive, PTL DEF AuditInv

\* record() returns Ok only when the whole line is in the file, its units in their
\* order, whatever the other tasks and processes write (audit.rs:57-62).
THEOREM AckedAreWritten == AuditSpec => []AckedIsWritten
<1>1. AuditInv => AckedIsWritten
  BY DEF AuditInv, Complete, Growing, AckedIsWritten, Places
<1> QED
  BY <1>1, AuditInductive, PTL

\* The mutex keeps the lines of one process whole against each other (audit.rs:40).
THEOREM OwnLinesStayApart == AuditSpec => []OwnLinesApart
BY AuditInductive, PTL DEF AuditInv

\* A line that cannot be read was cut, or begins where another one was.
LEMMA UnreadableIsBroken ==
    ASSUME AuditInv, NEW r \in acked, ~Readable(r)
    PROVE  \E e \in Breaks : auditFile[e].rec = r \/ auditFile[e + 1].rec = r
<1> USE DEF AuditInv
<1> DEFINE L == Len(auditFile)
<1>1. SUFFICES ASSUME ~ \E e \in Breaks : auditFile[e].rec = r \/ auditFile[e + 1].rec = r
               PROVE  Readable(r)
  OBVIOUS
<1>2. /\ L \in Nat /\ DOMAIN auditFile = 1..L /\ LineSize \in Nat \ {0}
      /\ \A i \in 1..L : /\ auditFile[i] \in Pieces /\ auditFile[i].unit \in Nat \ {0}
                         /\ auditFile[i].unit <= LineSize
  BY AuditTypes
<1> HIDE DEF L
<1>3. \A i, j \in 1..L : auditFile[i].rec = r /\ auditFile[j].rec = r =>
         j - i = auditFile[j].unit - auditFile[i].unit
  <2>1. r \in 1..Len(author)
    BY DEF AuditTypeOK
  <2> QED
    BY <1>1, <1>2, <2>1 DEF Together, Cut
<1>4. PICK i \in 1..L : auditFile[i].rec = r /\ auditFile[i].unit = 1
  BY <1>2 DEF Complete
\* The units of r are those from i on.
<1>5. ASSUME NEW m \in 1..LineSize
      PROVE  /\ i + m - 1 \in 1..L
             /\ auditFile[i + m - 1].rec = r /\ auditFile[i + m - 1].unit = m
  <2>1. PICK j \in 1..L : auditFile[j].rec = r /\ auditFile[j].unit = m
    BY <1>2 DEF Complete
  <2>2. j - i = m - 1
    BY <1>3, <1>4, <2>1
  <2>3. j = i + m - 1
    BY <1>2, <2>2
  <2> QED
    BY <2>1, <2>3
<1>6. i \in 1..(L - LineSize + 1)
  <2>1. i + LineSize - 1 \in 1..L
    BY <1>2, <1>5
  <2> QED
    BY <1>2, <2>1
<1>7. SubSeq(auditFile, i, i + LineSize - 1) = Units(r, 1, LineSize)
  <2> DEFINE s == SubSeq(auditFile, i, i + LineSize - 1)
             e(m) == [rec |-> r, unit |-> 1 + m - 1]
             line == [m \in 1..LineSize |-> e(m)]
  <2>1. (i + LineSize - 1) - i + 1 = LineSize /\ i <= i + LineSize - 1
        /\ i \in Int /\ i + LineSize - 1 \in Int
    BY <1>2
  <2>2. ASSUME NEW k \in i..(i + LineSize - 1)
        PROVE  auditFile[k] \in Pieces
    <3>1. k - i + 1 \in 1..LineSize /\ i + (k - i + 1) - 1 = k
      BY <1>2
    <3>2. k \in 1..L
      BY <1>5, <3>1
    <3> QED
      BY <1>2, <3>2
  <2>3. /\ s \in Seq(Pieces) /\ Len(s) = LineSize
        /\ \A m \in 1..LineSize : s[m] = auditFile[i + m - 1]
    BY <2>1, <2>2, SubSeqProperties
  <2>4. ASSUME NEW m \in 1..LineSize
        PROVE  e(m) = auditFile[i + m - 1]
    <3>1. auditFile[i + m - 1] \in Pieces /\ 1 + m - 1 = m
      BY <1>2, <1>5
    <3> QED
      BY <1>5, <3>1 DEF Pieces
  <2>5. line \in Seq(Pieces) /\ Len(line) = LineSize /\ \A m \in 1..LineSize : line[m] = e(m)
    <3>1. line \in [1..LineSize -> Pieces] /\ \A m \in 1..LineSize : line[m] = e(m)
      BY <1>2, <1>5, <2>4
    <3> HIDE DEF line
    <3>2. line \in Seq(Pieces)
      BY <1>2, <3>1
    <3>3. Len(line) = LineSize
      BY <1>2, <3>1, <3>2, LenProperties
    <3> QED
      BY <3>1, <3>2, <3>3
  <2>6. Units(r, 1, LineSize) = line
    <3>1. LineSize - 1 + 1 = LineSize
      BY <1>2
    <3> QED
      BY <3>1 DEF Units
  <2> HIDE DEF s, e, line
  <2>7. s = line
    BY <2>3, <2>4, <2>5, SeqEqual
  <2> QED
    BY <2>6, <2>7 DEF s
\* What precedes i ends a line, or is a break of its own.
<1>8. i = 1 \/ auditFile[i - 1].unit = LineSize
  <2> SUFFICES ASSUME i # 1, auditFile[i - 1].unit # LineSize PROVE FALSE
    OBVIOUS
  <2>1. i - 1 \in 1..L /\ (i - 1) + 1 = i
    BY <1>2
  <2>2. auditFile[i - 1].unit \in Nat \ {0} /\ auditFile[i - 1].unit < LineSize
    BY <1>2, <2>1
  <2>3. ~Continued(i - 1)
    BY <1>4, <2>1, <2>2 DEF Continued
  <2>4. i - 1 \in Breaks
    BY <1>2, <2>1, <2>2, <2>3 DEF Breaks
  <2> QED
    BY <1>1, <1>4, <2>1, <2>4
<1> QED
  BY <1>6, <1>7, <1>8 DEF Readable, L

\* The records at the breaks, and those right behind them, are no more than the breaks.
LEMMA ImageOfBreaks ==
    ASSUME IsFiniteSet(Breaks), NEW f, f = [e \in Breaks |-> f[e]]
    PROVE  /\ IsFiniteSet({f[e] : e \in Breaks})
           /\ Cardinality({f[e] : e \in Breaks}) <= Cardinality(Breaks)
<1> DEFINE T == {f[e] : e \in Breaks}
<1>1. f \in Surjection(Breaks, T)
  BY DEF Surjection
<1> QED
  BY <1>1, FS_Surjection

\* Each short write spoils at most two acknowledged records, the one it cut and the
\* one behind it, and none is spoilt while every write is whole (audit.rs:57-62).
THEOREM DamageIsBounded == AuditSpec => []DamageBounded
<1>1. ASSUME AuditInv PROVE DamageBounded
  <2> USE <1>1 DEF AuditInv
  <2> DEFINE D == {r \in acked : ~Readable(r)}
             f == [e \in Breaks |-> auditFile[e].rec]
             g == [e \in Breaks |-> auditFile[e + 1].rec]
             F == {f[e] : e \in Breaks}
             G == {g[e] : e \in Breaks}
  <2>1. D \subseteq F \cup G
    BY UnreadableIsBroken
  <2>2. IsFiniteSet(Breaks) /\ Cardinality(Breaks) <= short /\ Cardinality(Breaks) \in Nat
    BY FS_CardinalityType DEF Broken
  <2>3. f = [e \in Breaks |-> f[e]] /\ g = [e \in Breaks |-> g[e]]
    OBVIOUS
  <2> HIDE DEF f, g
  <2>4. IsFiniteSet(F) /\ Cardinality(F) <= Cardinality(Breaks)
    BY <2>2, <2>3, ImageOfBreaks
  <2>5. IsFiniteSet(G) /\ Cardinality(G) <= Cardinality(Breaks)
    BY <2>2, <2>3, ImageOfBreaks
  <2> HIDE DEF D, F, G
  <2>6. /\ IsFiniteSet(F \cup G)
        /\ Cardinality(F \cup G) = Cardinality(F) + Cardinality(G) - Cardinality(F \cap G)
    BY <2>4, <2>5, FS_Union
  <2>7. IsFiniteSet(F \cap G)
    BY <2>4, FS_Subset
  <2>8. IsFiniteSet(D) /\ Cardinality(D) <= Cardinality(F \cup G)
    BY <2>1, <2>6, FS_Subset
  <2>9. /\ Cardinality(F) \in Nat /\ Cardinality(G) \in Nat /\ Cardinality(F \cap G) \in Nat
        /\ Cardinality(D) \in Nat
    BY <2>4, <2>5, <2>7, <2>8, FS_CardinalityType
  <2>10. short \in Nat
    BY AuditTypes
  <2>11. Cardinality(D) <= 2 * short
    BY <2>2, <2>4, <2>5, <2>6, <2>8, <2>9, <2>10
  <2> QED
    BY <2>11 DEF DamageBounded, D
<1> QED
  BY <1>1, AuditInductive, PTL
=============================================================================

-------------------------- MODULE RecoveryProofs --------------------------
(***************************************************************************)
(* Theorems about PrimaryRecovery, for any number of replicas, commands,   *)
(* old transactions and crashes.                                           *)
(***************************************************************************)
EXTENDS PrimaryRecovery, FiniteSetTheorems, WellFoundedInduction, TLAPS

(* The commands that have a number, and the numbers there can be.          *)
Numbered == {c \in Cmd : num[c] # 0}
Limit    == MaxOld + Cardinality(Numbered)

(* Nothing comes from the coordinator before the election, and before P    *)
(* reads PRIMARY it numbers nothing and has no recovery thread.            *)
RoleInv ==
    /\ is_primary => elected
    /\ ~elected => coord_in = << >> /\ asked = 0
    /\ ~is_primary => /\ recovery = "none" /\ cthread = "read"
                      /\ \A c \in Cmd : num[c] = 0 /\ fpc[c] \in {"new", "keep", "queued"}
    /\ opc # "read" => oseq \in 1..MaxOld

(* The stream stands at the end of the log unless main has yet to read it, *)
(* so the scan at the election finds nothing pending.                      *)
PositionInv ==
    /\ tpc_pos <= Len(tpc_log)
    /\ boot = "open" => tpc_pos = 0
    /\ boot = "done" => tpc_pos = Len(tpc_log)
    /\ boot # "done" => \A c \in Cmd : num[c] = 0 /\ fpc[c] = "new"
    /\ is_primary /\ "booting" \notin spoiled => boot = "done" /\ tpc_pending = {}

(* The commands kept for the next primary are there once.                  *)
KeptInv ==
    /\ \A i \in DOMAIN primary_queue : fpc[primary_queue[i]] = "queued"
    /\ \A i, j \in DOMAIN primary_queue : primary_queue[i] = primary_queue[j] => i = j

(* tpc_seq is not below any number given out, and no two commands share    *)
(* one.                                                                    *)
NumberInv ==
    /\ \A c \in Cmd : num[c] <= tpc_seq
    /\ \A c, d \in Numbered : num[c] = num[d] => c = d
    /\ \A c \in Cmd : fpc[c] \in {"new", "keep"} => num[c] = 0
    /\ \A c \in Cmd : fpc[c] \in {"wait", "go"} => num[c] # 0

(* The numbers do not run out before the commands do.                      *)
BoundInv ==
    /\ tpc_seq <= Limit
    /\ \A i \in DOMAIN tpc_log : tpc_log[i].seq <= Limit
    /\ \A s \in tpc_pending : s <= Limit

IInv == TypeOK /\ RoleInv /\ PositionInv /\ KeptInv /\ NumberInv /\ BoundInv

(* Unless the windows say otherwise: a number that was prepared is known   *)
(* to tpc_seq, or the old connection's thread is about to tell it, or main *)
(* has yet to read it; that thread does not prepare a number while there   *)
(* are commands with one, and prepares no number twice; neither does a     *)
(* command that has not begun.                                             *)
Undisturbed == spoiled \cap {"overlapped", "skipped"} = {}

Known(i) ==
    \/ tpc_log[i].seq <= tpc_seq
    \/ opc = "seq" /\ oseq = tpc_log[i].seq
    \/ boot # "done" /\ i > tpc_pos

FreshInv == Undisturbed =>
    /\ \A i \in DOMAIN tpc_log : tpc_log[i].type = "PREPARE" => Known(i)
    /\ opc \in {"prepare", "log", "seq"} => Numbered = {}
    /\ opc \in {"prepare", "log"} => ~Prepared(oseq)
    /\ \A c \in Numbered : fpc[c] # "begun" => ~Prepared(num[c])

RInv == IInv /\ FreshInv /\ NumberedOnce


-----------------------------------------------------------------------------
(* A set of numbers with an upper bound has a greatest element, which is   *)
(* what Max chooses.                                                       *)
LEMMA MaxExists ==
    ASSUME NEW S, S \subseteq Nat, S # {}, NEW b \in Nat, \A x \in S : x <= b
    PROVE  Max(S) \in S /\ \A x \in S : x <= Max(S)
<1> DEFINE T == {b - x : x \in S}
           Below == {p \in Nat \X Nat : p[1] < p[2]}
<1>1. IsWellFoundedOn(Below, Nat)
  BY NatLessThanWellFounded DEF OpToRel
<1>2. T \subseteq Nat /\ T # {}
  <2>1. \A x \in S : b - x \in Nat
    OBVIOUS
  <2>2. QED
    BY <2>1
<1>3. PICK t \in T : \A u \in T : ~(<<u, t>> \in Below)
  <2> HIDE DEF Below, T
  <2> QED BY <1>1, <1>2, WFMin
<1>4. \A u \in T : t <= u
  <2> SUFFICES ASSUME NEW u \in T PROVE t <= u
    OBVIOUS
  <2>1. u \in Nat /\ t \in Nat
    BY <1>2
  <2>2. ~(u < t)
    BY <1>3, <2>1
  <2>3. QED
    BY <2>1, <2>2
<1>5. PICK x \in S : t = b - x
  OBVIOUS
<1>6. \A y \in S : y <= x
  BY <1>4, <1>5
<1>7. \E m \in S : \A y \in S : m >= y
  BY <1>6
<1>8. QED
  BY <1>7 DEF Max

(* A set of numbers has a least element, which is what Min chooses.        *)
LEMMA MinExists ==
    ASSUME NEW S, S \subseteq Nat, S # {}
    PROVE  Min(S) \in S
<1> DEFINE Below == {p \in Nat \X Nat : p[1] < p[2]}
<1>1. IsWellFoundedOn(Below, Nat)
  BY NatLessThanWellFounded DEF OpToRel
<1>2. PICK t \in S : \A u \in S : ~(<<u, t>> \in Below)
  <2> HIDE DEF Below
  <2> QED BY <1>1, WFMin
<1>3. \A u \in S : t <= u
  <2> SUFFICES ASSUME NEW u \in S PROVE t <= u
    OBVIOUS
  <2>1. ~(u < t)
    BY <1>2
  <2>2. QED
    BY <2>1
<1>4. \E m \in S : \A y \in S : m <= y
  BY <1>3
<1>5. QED
  BY <1>4 DEF Min

(* What process_tpc_log computes from the lines it reads.                  *)
LEMMA ScanRange ==
    ASSUME NEW lines \in Seq(Record), NEW q \in Nat, NEW l \in Nat, NEW b \in Nat,
           q <= b, \A i \in DOMAIN lines : lines[i].seq <= b
    PROVE  LET x == Scan(q, l, lines) IN
           /\ x.seq \in Nat /\ q <= x.seq /\ x.seq <= b /\ x.last \in Nat
           /\ x.pending \subseteq TSeq /\ \A s \in x.pending : s <= b
           /\ \A i \in DOMAIN lines : lines[i].seq <= x.seq
<1> DEFINE S == {q} \cup {lines[i].seq : i \in DOMAIN lines}
           D == {l} \cup {lines[j].seq : j \in {j \in 1..Len(lines) : lines[j].type = "DECIDED"}}
<1>1. \A i \in DOMAIN lines : lines[i].seq \in Nat
  <2>1. \A i \in DOMAIN lines : lines[i] \in Record
    OBVIOUS
  <2>2. QED
    BY <2>1 DEF Record, TSeq
<1>2. S \subseteq Nat /\ D \subseteq Nat
  BY <1>1
<1>3. /\ \A x \in S : x <= b
      /\ \A x \in D : x <= l + b
  BY <1>1
<1>4. Max(S) \in S /\ \A x \in S : x <= Max(S)
  <2> HIDE DEF S
  <2>1. S # {}
    BY DEF S
  <2>2. QED
    BY <1>2, <1>3, <2>1, MaxExists
<1>5. Max(D) \in D
  <2> HIDE DEF D
  <2>1. D # {} /\ l + b \in Nat
    BY DEF D
  <2>2. \A x \in D : x <= l + b
    BY <1>3
  <2>3. QED
    BY <1>2, <2>1, <2>2, MaxExists
<1>6. /\ Scan(q, l, lines).seq = Max(S) /\ Scan(q, l, lines).last = Max(D)
      /\ Scan(q, l, lines).pending \subseteq TSeq
  BY DEF Scan, LastAt
<1>7. \A s \in Scan(q, l, lines).pending : \E i \in DOMAIN lines : lines[i].seq = s
  BY DEF Scan
<1>8. q \in S /\ \A i \in DOMAIN lines : lines[i].seq \in S
  OBVIOUS
<1>9. Max(S) \in Nat /\ Max(S) <= b /\ q <= Max(S) /\ Max(D) \in Nat
      /\ \A i \in DOMAIN lines : lines[i].seq <= Max(S)
  <2> HIDE DEF S, D
  <2> QED BY <1>2, <1>3, <1>4, <1>5, <1>8
<1>10. QED
  <2> HIDE DEF S, D
  <2> QED BY <1>6, <1>7, <1>9

(* What it computes when there is nothing left to read.                    *)
LEMMA ScanNothing ==
    ASSUME NEW q \in Nat, NEW l \in Nat
    PROVE  LET x == Scan(q, l, << >>) IN x.seq = q /\ x.last = l /\ x.pending = {}
<1>1. \A n \in Nat : Max({n}) = n
  BY DEF Max
<1>2. {q} \cup {<< >>[i].seq : i \in DOMAIN << >>} = {q}
  OBVIOUS
<1>3. {l} \cup {<< >>[j].seq : j \in {j \in 1..Len(<< >>) : << >>[j].type = "DECIDED"}} = {l}
  OBVIOUS
<1>4. Scan(q, l, << >>).seq = q
  BY <1>1, <1>2 DEF Scan
<1>5. Scan(q, l, << >>).last = l
  BY <1>1, <1>3 DEF Scan, LastAt
<1>6. Scan(q, l, << >>).pending = {}
  BY DEF Scan
<1>7. QED
  BY <1>4, <1>5, <1>6

(* MaxSeq is a number, and the old transactions are numbered from 1.       *)
LEMMA Bounds == /\ MaxSeq \in Nat /\ 1..MaxOld \subseteq TSeq /\ TSeq \subseteq Nat
                /\ MaxOld \in Nat /\ MaxOld <= MaxSeq /\ Cardinality(Cmd) \in Nat
BY RecoveryAssumption, FS_CardinalityType DEF MaxSeq, TSeq

(* Limit is between them.                                                  *)
LEMMA LimitType ==
    /\ Limit \in Nat /\ MaxOld <= Limit /\ Limit <= MaxSeq
    /\ IsFiniteSet(Numbered) /\ Cardinality(Numbered) \in Nat
<1>1. Numbered \subseteq Cmd /\ IsFiniteSet(Cmd)
  BY RecoveryAssumption DEF Numbered
<1>2. /\ IsFiniteSet(Numbered) /\ Cardinality(Numbered) \in Nat
      /\ Cardinality(Cmd) \in Nat /\ Cardinality(Numbered) <= Cardinality(Cmd)
  BY <1>1, FS_Subset, FS_CardinalityType
<1>3. QED
  BY <1>2, RecoveryAssumption DEF Limit, MaxSeq

(* A number is taken only while some command has none.                     *)
LEMMA RoomForOne ==
    ASSUME TypeOK, BoundInv, NEW c \in Cmd, num[c] = 0
    PROVE  tpc_seq + 1 \in TSeq
<1>1. Numbered \subseteq Cmd /\ c \notin Numbered /\ IsFiniteSet(Cmd)
  BY RecoveryAssumption DEF Numbered
<1>2. Cardinality(Numbered \cup {c}) = Cardinality(Numbered) + 1
  BY <1>1, LimitType, FS_AddElement
<1>3. Cardinality(Numbered \cup {c}) <= Cardinality(Cmd)
  BY <1>1, FS_Subset
<1>4. QED
  BY <1>2, <1>3, LimitType, Bounds, RecoveryAssumption
     DEF BoundInv, Limit, TypeOK, TSeq, MaxSeq

-----------------------------------------------------------------------------
(* A line in the log, or none.                                             *)
LEMMA Written ==
    ASSUME TypeOK, NEW type \in {"PREPARE", "DECIDED"}, NEW s \in TSeq, WriteLog(type, s)
    PROVE  /\ tpc_log' \in Seq(Record) /\ tpc_pos' \in Nat
           /\ \/ boot = "open" /\ UNCHANGED <<tpc_log, tpc_pos>>
              \/ /\ boot # "open" /\ tpc_log' = Append(tpc_log, [type |-> type, seq |-> s])
                 /\ tpc_pos' = Len(tpc_log) + 1 /\ Len(tpc_log') = Len(tpc_log) + 1
<1>1. [type |-> type, seq |-> s] \in Record
  BY DEF Record
<1>2. tpc_log \in Seq(Record) /\ tpc_pos \in Nat
  BY DEF TypeOK
<1>3. CASE boot = "open"
  BY <1>2, <1>3 DEF WriteLog
<1>4. CASE boot # "open"
  BY <1>1, <1>2, <1>4 DEF WriteLog
<1>5. QED
  BY <1>3, <1>4

(* The queue of transactions stays one.                                    *)
LEMMA QueueTypes ==
    ASSUME TypeOK, NEW q \in [TSeq -> Status], ProcessQueue(q)
    PROVE  last_seq' \in Nat /\ tpc_queue' \in [TSeq -> Status] /\ tpc_queue_lock' \in BOOLEAN
<1>1. CASE NextIs(q, "DECIDED")
  <2>1. /\ last_seq' = last_seq + 1 /\ tpc_queue_lock' = tpc_queue_lock
        /\ tpc_queue' = [t \in TSeq |-> IF t = last_seq + 2 THEN "none" ELSE q[t]]
    BY <1>1 DEF ProcessQueue
  <2>2. QED
    BY <2>1 DEF Status, TypeOK
<1>2. CASE ~NextIs(q, "DECIDED")
  <2>1. /\ last_seq' = last_seq /\ tpc_queue' = q
        /\ tpc_queue_lock' = (tpc_queue_lock \/ NextIs(q, "PREPARE"))
    BY <1>2 DEF ProcessQueue
  <2>2. tpc_queue_lock' \in BOOLEAN
    BY <2>1, Zenon
  <2>3. QED
    BY <2>1, <2>2 DEF TypeOK
<1>3. QED
  BY <1>1, <1>2

LEMMA MarkedType ==
    ASSUME TypeOK, NEW s \in TSeq
    PROVE  Marked(tpc_queue, s) \in [TSeq -> Status]
BY DEF TypeOK, Marked, Status

(* What is read of the log is a part of it.                                *)
LEMMA UnreadLines ==
    ASSUME TypeOK, PositionInv
    PROVE  /\ Unread \in Seq(Record) /\ DOMAIN Unread = 1..(Len(tpc_log) - tpc_pos)
           /\ \A i \in DOMAIN Unread : /\ tpc_pos + i \in DOMAIN tpc_log
                                       /\ Unread[i] = tpc_log[tpc_pos + i]
           /\ \A i \in DOMAIN tpc_log : i > tpc_pos =>
                 i - tpc_pos \in DOMAIN Unread /\ Unread[i - tpc_pos] = tpc_log[i]
<1>1. tpc_log \in Seq(Record) /\ tpc_pos \in Nat /\ tpc_pos <= Len(tpc_log)
  BY DEF TypeOK, PositionInv
<1>2. /\ Unread \in Seq(Record) /\ DOMAIN Unread = 1..(Len(tpc_log) - tpc_pos)
      /\ \A i \in DOMAIN Unread : Unread[i] = tpc_log[tpc_pos + i]
  BY <1>1 DEF Unread
<1>3. DOMAIN tpc_log = 1..Len(tpc_log) /\ Len(tpc_log) \in Nat
  BY <1>1
<1>4. QED
  BY <1>1, <1>2, <1>3

(* process_tpc_log: tpc_seq grows up to what was read.                     *)
LEMMA LogProcessed ==
    ASSUME TypeOK, PositionInv, BoundInv, ProcessLog
    PROVE  /\ tpc_seq' \in Nat /\ tpc_seq <= tpc_seq' /\ tpc_seq' <= Limit
           /\ last_seq' \in Nat /\ tpc_pending' \subseteq TSeq /\ \A s \in tpc_pending' : s <= Limit
           /\ tpc_pos' = IF boot = "open" THEN tpc_pos ELSE Len(tpc_log)
           /\ boot # "open" =>
                \A i \in DOMAIN tpc_log : i > tpc_pos => tpc_log[i].seq <= tpc_seq'
           /\ boot = "done" => tpc_pending' = {}
<1> DEFINE lines == IF boot = "open" THEN << >> ELSE Unread
           x == Scan(tpc_seq, last_seq, lines)
<1>1. /\ tpc_seq' = x.seq /\ last_seq' = x.last /\ tpc_pending' = x.pending
      /\ tpc_pos' = IF boot = "open" THEN tpc_pos ELSE Len(tpc_log)
  BY DEF ProcessLog
<1>2. lines \in Seq(Record) /\ \A i \in DOMAIN lines : lines[i].seq <= Limit
  BY UnreadLines DEF BoundInv
<1>3. tpc_seq \in Nat /\ last_seq \in Nat /\ tpc_seq <= Limit /\ Limit \in Nat
  BY LimitType DEF TypeOK, BoundInv
<1>4. /\ x.seq \in Nat /\ tpc_seq <= x.seq /\ x.seq <= Limit /\ x.last \in Nat
      /\ x.pending \subseteq TSeq /\ \A s \in x.pending : s <= Limit
      /\ \A i \in DOMAIN lines : lines[i].seq <= x.seq
  <2> HIDE DEF lines, x
  <2>1. LET y == Scan(tpc_seq, last_seq, lines) IN
        /\ y.seq \in Nat /\ tpc_seq <= y.seq /\ y.seq <= Limit /\ y.last \in Nat
        /\ y.pending \subseteq TSeq /\ \A s \in y.pending : s <= Limit
        /\ \A i \in DOMAIN lines : lines[i].seq <= y.seq
    BY <1>2, <1>3, ScanRange
  <2>2. QED
    BY <2>1 DEF x
<1>5. boot # "open" => \A i \in DOMAIN tpc_log : i > tpc_pos => tpc_log[i].seq <= x.seq
  <2> HIDE DEF x
  <2> SUFFICES ASSUME boot # "open", NEW i \in DOMAIN tpc_log, i > tpc_pos
               PROVE  tpc_log[i].seq <= x.seq
    OBVIOUS
  <2>1. i - tpc_pos \in DOMAIN lines /\ lines[i - tpc_pos] = tpc_log[i]
    BY UnreadLines
  <2> HIDE DEF lines
  <2>2. QED
    BY <1>4, <2>1
<1>6. boot = "done" => x.pending = {}
  <2> SUFFICES ASSUME boot = "done" PROVE x.pending = {}
    OBVIOUS
  <2>1. lines = << >>
    BY DEF TypeOK, PositionInv, Unread
  <2> HIDE DEF lines
  <2>2. QED
    BY <1>3, <2>1, ScanNothing
<1>7. QED
  <2> HIDE DEF lines, x
  <2> QED BY <1>1, <1>4, <1>5, <1>6

-----------------------------------------------------------------------------
(* Every step keeps the types: first those of the old primary's thread and *)
(* of main.                                                                *)
LEMMA OldTypes ==
    ASSUME IInv, OldThread \/ Restart \/ Main
    PROVE  TypeOK'
<1> USE Bounds
<1>a. TypeOK /\ RoleInv /\ PositionInv /\ BoundInv
  BY DEF IInv
<1>b. opc # "read" => oseq \in 1..MaxOld /\ oseq \in TSeq /\ oseq \in 0..MaxOld
  BY <1>a DEF RoleInv, TSeq
<1>1. ASSUME NEW s \in 1..MaxOld, OldRead(s) PROVE TypeOK'
  BY <1>a, <1>1 DEF OldRead, evars, pvars, tvars, fvars, hvars, TypeOK
<1>2. CASE OldPrepare \/ OldDecide
  <2>1. /\ opc' \in {"read", "log", "declog"} /\ oseq' \in 0..MaxOld
        /\ UNCHANGED <<evars, pvars, tvars, fvars, boot, cthread, recovery, hvars>>
    BY <1>a, <1>2 DEF OldPrepare, OldDecide, Done, Goes, TypeOK
  <2>2. QED
    BY <1>a, <2>1 DEF evars, pvars, tvars, fvars, hvars, TypeOK
<1>3. CASE OldLog
  <2>1. oseq \in TSeq
    BY <1>b, <1>3 DEF OldLog
  <2>2. tpc_log' \in Seq(Record) /\ tpc_pos' \in Nat
    BY <1>a, <1>3, <2>1, Written DEF OldLog
  <2>3. spoiled' \subseteq Window
    BY <1>a, <1>3 DEF OldLog, Skipping, Window, TypeOK
  <2>4. QED
    BY <1>a, <1>3, <2>2, <2>3 DEF OldLog, Goes, evars, pvars, fvars, TypeOK
<1>4. CASE OldNumber
  <2>1. tpc_seq' \in 0..MaxSeq
    BY <1>a, <1>b, <1>4 DEF OldNumber, SeqAfter, Larger, TypeOK, TSeq
  <2>2. QED
    BY <1>a, <1>4, <2>1 DEF OldNumber, Goes, evars, pvars, fvars, hvars, TypeOK
<1>5. CASE OldQueue
  <2>1. tpc_queue' \in [TSeq -> Status]
    BY <1>a, <1>5 DEF OldQueue, Status, TypeOK
  <2>2. QED
    BY <1>a, <1>5, <2>1 DEF OldQueue, Done, evars, pvars, fvars, hvars, TypeOK
<1>6. CASE OldApply
  <2>1. oseq \in TSeq /\ ProcessQueue(Marked(tpc_queue, oseq))
    BY <1>b, <1>6 DEF OldApply
  <2>2. last_seq' \in Nat /\ tpc_queue' \in [TSeq -> Status] /\ tpc_queue_lock' \in BOOLEAN
    BY <1>a, <2>1, MarkedType, QueueTypes
  <2>3. QED
    BY <1>a, <1>6, <2>2 DEF OldApply, Done, evars, pvars, fvars, hvars, TypeOK
<1>7. CASE Restart
  <2>1. /\ tpc_queue' = [t \in TSeq |-> "none"] /\ tpc_queue_lock' = FALSE
        /\ primary_queue' = << >> /\ fpc' = [c \in Cmd |-> "new"]
    BY <1>7 DEF Restart
  <2>2. tpc_queue' \in [TSeq -> Status] /\ primary_queue' \in Seq(Cmd)
    BY <2>1 DEF Status
  <2>3. fpc' \in [Cmd -> {"new", "keep", "queued", "wait", "go", "begun", "alone"}]
    BY <2>1
  <2>4. QED
    <3>1. /\ boot' = "open" /\ opc' = "read" /\ oseq' \in 0..MaxOld
          /\ UNCHANGED <<evars, pvars, tpc_log, num, cthread, recovery, hvars>>
      BY <1>7 DEF Restart, Done
    <3>2. /\ tpc_seq' \in 0..MaxSeq /\ last_seq' \in Nat /\ tpc_pending' \subseteq TSeq
          /\ tpc_pos' \in Nat
      BY <1>7 DEF Restart
    <3>3. QED
      BY <1>a, <2>1, <2>2, <2>3, <3>1, <3>2 DEF evars, pvars, hvars, TypeOK
<1>8. CASE OpenLog
  BY <1>a, <1>8 DEF OpenLog, evars, pvars, tvars, fvars, hvars, TypeOK
<1>9. CASE ReadLog
  <2>1. /\ tpc_seq' \in 0..MaxSeq /\ last_seq' \in Nat /\ tpc_pending' \subseteq TSeq
        /\ tpc_pos' \in Nat
    BY <1>a, <1>9, LogProcessed, LimitType DEF ReadLog, TypeOK
  <2>2. QED
    BY <1>a, <1>9, <2>1 DEF ReadLog, evars, pvars, fvars, hvars, TypeOK
<1>10. QED
  BY <1>1, <1>2, <1>3, <1>4, <1>5, <1>6, <1>7, <1>8, <1>9 DEF OldThread, OldHandle, Main

(* Those of the coordinator, the replicas and the two threads of the       *)
(* election.                                                               *)
LEMMA ElectionTypes ==
    ASSUME IInv,
           \/ Elect \/ AnswerCount \/ CoordThread \/ RecoveryThread
           \/ \E r \in Replica : ReplicaStep(r)
    PROVE  TypeOK'
<1> USE Bounds
<1>a. TypeOK /\ RoleInv /\ PositionInv /\ KeptInv /\ BoundInv
  BY DEF IInv
<1>b. Cardinality(up) + 1 \in Nat
  <2>1. IsFiniteSet(up)
    BY <1>a, RecoveryAssumption, FS_Subset DEF TypeOK
  <2>2. QED
    BY <2>1, FS_CardinalityType
<1>1. CASE Elect
  <2>1. [type |-> "PRIMARY", count |-> Cardinality(up) + 1] \in Message
    BY <1>b DEF Message
  <2>2. coord_in' \in Seq(Message)
    BY <1>1, <2>1 DEF Elect
  <2>3. QED
    BY <1>a, <1>1, <2>2 DEF Elect, pvars, tvars, fvars, ovars, hvars, TypeOK
<1>2. CASE AnswerCount
  <2>1. [type |-> "COUNT", count |-> Cardinality(up) + 1] \in Message
    BY <1>b DEF Message
  <2>2. coord_in' \in Seq(Message) /\ asked' \in Nat
    BY <1>a, <1>2, <2>1 DEF AnswerCount, TypeOK
  <2>3. QED
    BY <1>a, <1>2, <2>2 DEF AnswerCount, pvars, tvars, fvars, ovars, hvars, TypeOK
<1>3. ASSUME NEW r \in Replica, ReplicaStep(r) PROVE TypeOK'
  <2>1. CASE Connect(r)
    BY <1>a, <2>1 DEF Connect, pvars, tvars, fvars, ovars, hvars, TypeOK
  <2>2. CASE CrashReplica(r)
    BY <1>a, <2>2 DEF CrashReplica, pvars, tvars, fvars, ovars, TypeOK
  <2>3. CASE AcceptReplica(r)
    <3>1. early' \in BOOLEAN
      BY <1>a, <2>3, Zenon DEF AcceptReplica, TypeOK
    <3>2. QED
      BY <1>a, <2>3, <3>1 DEF AcceptReplica, tvars, fvars, ovars, TypeOK
  <2>4. CASE DropReplica(r)
    BY <1>a, <2>4 DEF DropReplica, evars, tvars, fvars, ovars, hvars, TypeOK
  <2>5. CASE ForgetReplica(r)
    BY <1>a, <2>5 DEF ForgetReplica, pvars, tvars, fvars, ovars, hvars, TypeOK
  <2>6. QED
    BY <1>3, <2>1, <2>2, <2>3, <2>4, <2>5 DEF ReplicaStep
<1>4. CASE BecomePrimary
  <2>1. coord_in[1] \in Message /\ coord_in' \in Seq(Message)
    BY <1>a, <1>4 DEF BecomePrimary, TypeOK
  <2>2. replica_count' \in Int
    BY <1>4, <2>1 DEF BecomePrimary, Message
  <2>3. /\ tpc_seq' \in 0..MaxSeq /\ last_seq' \in Nat /\ tpc_pending' \subseteq TSeq
        /\ tpc_pos' \in Nat
    BY <1>a, <1>4, LogProcessed, LimitType DEF BecomePrimary, TypeOK
  <2>4. spoiled' \subseteq Window
    BY <1>a, <1>4 DEF BecomePrimary, Window, TypeOK
  <2>5. QED
    BY <1>a, <1>4, <2>1, <2>2, <2>3, <2>4 DEF BecomePrimary, fvars, ovars, TypeOK
<1>5. CASE ReadCount
  <2>1. coord_in[1] \in Message /\ coord_in' \in Seq(Message)
    BY <1>a, <1>5 DEF ReadCount, TypeOK
  <2>2. replica_count' \in Int
    BY <1>5, <2>1 DEF ReadCount, Message
  <2>3. QED
    BY <1>a, <1>5, <2>1, <2>2 DEF ReadCount, tvars, fvars, ovars, hvars, TypeOK
<1>6. CASE NumberQueued
  <2> DEFINE c == primary_queue[1]
             s == NumberOf(c)
  <2>1. c \in Cmd /\ Tail(primary_queue) \in Seq(Cmd)
    BY <1>a, <1>6 DEF NumberQueued, TypeOK
  <2>2. s \in TSeq
    BY <1>a, <2>1, RoomForOne DEF NumberOf, TypeOK, TSeq
  <2>3. /\ num' = [num EXCEPT ![c] = s] /\ tpc_seq' = Larger(tpc_seq, s)
        /\ \/ /\ cthread' = "blocked"
              /\ UNCHANGED <<primary_queue, fpc, tpc_queue, tpc_log, tpc_pos>>
           \/ /\ Started(s) /\ primary_queue' = Tail(primary_queue)
              /\ fpc' = [fpc EXCEPT ![c] = "begun"] /\ UNCHANGED cthread
        /\ spoiled' \subseteq spoiled \cup Overlapping
        /\ UNCHANGED <<evars, pvars, last_seq, tpc_queue_lock, tpc_pending, ovars, recovery,
                       early, crowd, crashes>>
    BY <1>6 DEF NumberQueued
  <2> HIDE DEF c, s
  <2>4. num' \in [Cmd -> 0..MaxSeq] /\ tpc_seq' \in 0..MaxSeq
    BY <1>a, <2>1, <2>2, <2>3 DEF Larger, TSeq, TypeOK
  <2>5. /\ primary_queue' \in Seq(Cmd) /\ cthread' \in {"read", "queue", "blocked"}
        /\ fpc' \in [Cmd -> {"new", "keep", "queued", "wait", "go", "begun", "alone"}]
    BY <1>a, <2>1, <2>3 DEF TypeOK
  <2>6. tpc_log' \in Seq(Record) /\ tpc_pos' \in Nat /\ tpc_queue' \in [TSeq -> Status]
    <3>1. CASE Started(s)
      BY <1>a, <2>2, <3>1, Written DEF Started, Status, TypeOK
    <3>2. QED
      BY <1>a, <2>3, <3>1 DEF TypeOK
  <2>7. spoiled' \subseteq Window
    BY <1>a, <2>3 DEF Overlapping, Window, TypeOK
  <2>8. QED
    BY <1>a, <2>3, <2>4, <2>5, <2>6, <2>7 DEF evars, pvars, ovars, TypeOK
<1>7. CASE QueueDone
  BY <1>a, <1>7 DEF QueueDone, evars, pvars, tvars, fvars, ovars, hvars, TypeOK
<1>8. CASE RecoveryCheck \/ Connected
  <2>1. CASE RecoveryCheck
    BY <1>a, <2>1 DEF RecoveryCheck, pvars, tvars, fvars, ovars, hvars, TypeOK
  <2>2. CASE Connected
    BY <1>a, <2>2 DEF Connected, evars, pvars, tvars, fvars, ovars, hvars, TypeOK
  <2>3. QED
    BY <1>8, <2>1, <2>2
<1>9. CASE AbortPending
  <2> DEFINE s == Min(tpc_pending)
  <2>1. s \in TSeq
    BY <1>a, <1>9, MinExists DEF AbortPending, TypeOK
  <2>2. /\ tpc_pending' = tpc_pending \ {s}
        /\ \/ UNCHANGED <<tpc_log, tpc_pos, tpc_queue, last_seq, tpc_queue_lock, spoiled>>
           \/ WriteLog("DECIDED", s) /\ ProcessQueue(Marked(tpc_queue, s))
              /\ spoiled' = spoiled \cup Skipping
        /\ UNCHANGED <<evars, pvars, tpc_seq, fvars, ovars, cthread, recovery, early, crowd,
                       crashes>>
    BY <1>9 DEF AbortPending
  <2> HIDE DEF s
  <2>3. /\ tpc_log' \in Seq(Record) /\ tpc_pos' \in Nat /\ spoiled' \subseteq Window
        /\ last_seq' \in Nat /\ tpc_queue' \in [TSeq -> Status] /\ tpc_queue_lock' \in BOOLEAN
    <3>1. CASE UNCHANGED <<tpc_log, tpc_pos, tpc_queue, last_seq, tpc_queue_lock, spoiled>>
      BY <1>a, <3>1 DEF TypeOK
    <3>2. CASE /\ WriteLog("DECIDED", s) /\ ProcessQueue(Marked(tpc_queue, s))
               /\ spoiled' = spoiled \cup Skipping
      <4>1. tpc_log' \in Seq(Record) /\ tpc_pos' \in Nat
        BY <1>a, <2>1, <3>2, Written
      <4>2. last_seq' \in Nat /\ tpc_queue' \in [TSeq -> Status] /\ tpc_queue_lock' \in BOOLEAN
        BY <1>a, <2>1, <3>2, MarkedType, QueueTypes
      <4>3. spoiled' \subseteq Window
        BY <1>a, <3>2 DEF Skipping, Window, TypeOK
      <4>4. QED
        BY <4>1, <4>2, <4>3
    <3>3. QED
      BY <2>2, <3>1, <3>2
  <2>4. tpc_pending' \subseteq TSeq
    BY <1>a, <2>2 DEF TypeOK
  <2>5. QED
    BY <1>a, <2>2, <2>3, <2>4 DEF evars, pvars, fvars, ovars, TypeOK
<1>10. CASE Ready
  <2>1. crowd' \in BOOLEAN
    <3>1. crowd' = (Waiters > 1)
      BY <1>10 DEF Ready
    <3>2. QED
      BY <3>1
  <2>2. /\ fpc' \in [Cmd -> {"new", "keep", "queued", "wait", "go", "begun", "alone"}]
        /\ cthread' \in {"read", "queue", "blocked"}
    BY <1>a, <1>10 DEF Ready, OneWoken, Waiting, TypeOK
  <2>3. QED
    BY <1>a, <1>10, <2>1, <2>2 DEF Ready, evars, tvars, ovars, TypeOK
<1>11. QED
  BY <1>1, <1>2, <1>3, <1>4, <1>5, <1>6, <1>7, <1>8, <1>9, <1>10
     DEF CoordThread, RecoveryThread

(* And those of the commands.                                              *)
LEMMA TypeStep ==
    ASSUME IInv, [Next]_vars
    PROVE  TypeOK'
<1> USE Bounds
<1>a. TypeOK /\ NumberInv /\ BoundInv
  BY DEF IInv
<1>1. ASSUME NEW c \in Cmd, FindPrimaryGone(c) \/ KeepForPrimary(c) PROVE TypeOK'
  <2>1. CASE FindPrimaryGone(c)
    BY <1>a, <2>1 DEF FindPrimaryGone, evars, pvars, tvars, ovars, hvars, TypeOK
  <2>2. CASE KeepForPrimary(c)
    BY <1>a, <2>2 DEF KeepForPrimary, evars, pvars, tvars, ovars, hvars, TypeOK
  <2>3. QED
    BY <1>1, <2>1, <2>2
<1>2. ASSUME NEW c \in Cmd, Receive(c) PROVE TypeOK'
  <2>1. num[c] = 0
    BY <1>a, <1>2 DEF Receive, NumberInv
  <2>2. tpc_seq + 1 \in TSeq
    BY <1>a, <2>1, RoomForOne
  <2>3. num' \in [Cmd -> 0..MaxSeq] /\ tpc_seq' \in 0..MaxSeq /\ last_seq' \in Nat
    BY <1>a, <1>2, <2>2 DEF Receive, TSeq, TypeOK
  <2>4. fpc' \in [Cmd -> {"new", "keep", "queued", "wait", "go", "begun", "alone"}]
    BY <1>a, <1>2 DEF Receive, TypeOK
  <2>5. spoiled' \subseteq Window
    BY <1>a, <1>2 DEF Receive, Overlapping, Window, TypeOK
  <2>6. QED
    BY <1>a, <1>2, <2>3, <2>4, <2>5 DEF Receive, evars, pvars, ovars, TypeOK
<1>3. ASSUME NEW c \in Cmd, Begin(c) PROVE TypeOK'
  <2>1. num[c] \in TSeq
    BY <1>a, <1>3 DEF Begin, NumberInv, TypeOK, TSeq
  <2>2. tpc_log' \in Seq(Record) /\ tpc_pos' \in Nat /\ tpc_queue' \in [TSeq -> Status]
    BY <1>a, <1>3, <2>1, Written DEF Begin, Started, Status, TypeOK
  <2>3. QED
    BY <1>a, <1>3, <2>2 DEF Begin, evars, pvars, ovars, hvars, TypeOK
<1>4. CASE UNCHANGED vars
  BY <1>a, <1>4 DEF vars, evars, pvars, tvars, fvars, ovars, hvars, TypeOK
<1>5. QED
  BY <1>1, <1>2, <1>3, <1>4, OldTypes, ElectionTypes DEF Next, CommandStep

-----------------------------------------------------------------------------
(* The windows are never forgotten.                                        *)
LEMMA WindowsStay ==
    ASSUME [Next]_vars
    PROVE  spoiled \subseteq spoiled'
<1>1. CASE OldThread \/ Restart \/ Main \/ Elect \/ AnswerCount
  BY <1>1 DEF OldThread, OldHandle, OldRead, OldPrepare, OldLog, OldNumber, OldQueue, OldDecide,
              OldApply, Restart, Main, OpenLog, ReadLog, Elect, AnswerCount, hvars
<1>2. ASSUME NEW c \in Cmd, CommandStep(c) PROVE spoiled \subseteq spoiled'
  BY <1>2 DEF CommandStep, FindPrimaryGone, KeepForPrimary, Receive, Begin, hvars
<1>3. ASSUME NEW r \in Replica, ReplicaStep(r) PROVE spoiled \subseteq spoiled'
  BY <1>3 DEF ReplicaStep, Connect, AcceptReplica, CrashReplica, DropReplica, ForgetReplica, hvars
<1>4. CASE CoordThread \/ RecoveryThread
  BY <1>4 DEF CoordThread, RecoveryThread, BecomePrimary, ReadCount, NumberQueued, QueueDone,
              RecoveryCheck, Connected, AbortPending, Ready, hvars
<1>5. CASE UNCHANGED vars
  BY <1>5 DEF vars, hvars
<1>6. QED
  BY <1>1, <1>2, <1>3, <1>4, <1>5 DEF Next

(* Every step keeps the role, the position of the stream and the commands  *)
(* that were kept.                                                         *)
LEMMA RoleStep ==
    ASSUME IInv, [Next]_vars
    PROVE  RoleInv'
<1>a. TypeOK /\ RoleInv
  BY DEF IInv
<1> USE <1>a DEF RoleInv
<1>1. ASSUME NEW s \in 1..MaxOld, OldRead(s) PROVE RoleInv'
  BY <1>1 DEF OldRead, evars, pvars, fvars
<1>2. CASE OldHandle
  <2>1. /\ opc' # "read" => opc # "read" /\ oseq' = oseq
        /\ UNCHANGED <<evars, pvars, fvars, cthread, recovery>>
    BY <1>2 DEF OldHandle, OldPrepare, OldLog, OldNumber, OldQueue, OldDecide, OldApply,
                Done, Goes
  <2>2. QED
    BY <2>1 DEF evars, pvars, fvars
<1>3. CASE Restart
  BY <1>3 DEF Restart, Done, evars, pvars
<1>4. CASE Main
  BY <1>4 DEF Main, OpenLog, ReadLog, evars, pvars, fvars
<1>5. CASE Elect \/ AnswerCount
  BY <1>5 DEF Elect, AnswerCount, pvars, fvars, ovars
<1>6. ASSUME NEW c \in Cmd, CommandStep(c) PROVE RoleInv'
  <2>1. CASE FindPrimaryGone(c) \/ KeepForPrimary(c)
    <3>1. /\ UNCHANGED <<evars, pvars, ovars, cthread, recovery, num>>
          /\ \E p \in {"keep", "queued"} : fpc' = [fpc EXCEPT ![c] = p]
      BY <2>1 DEF FindPrimaryGone, KeepForPrimary
    <3>2. \A d \in Cmd : fpc'[d] = fpc[d] \/ fpc'[d] \in {"keep", "queued"}
      BY <3>1 DEF TypeOK
    <3>3. QED
      BY <3>1, <3>2 DEF evars, pvars, ovars
  <2>2. CASE Receive(c) \/ Begin(c)
    <3>1. is_primary /\ UNCHANGED <<elected, coord_in, asked, is_primary, opc, oseq>>
      BY <2>2 DEF Receive, Begin, evars, pvars, ovars
    <3>2. QED
      BY <3>1
  <2>3. QED
    BY <1>6, <2>1, <2>2 DEF CommandStep
<1>7. ASSUME NEW r \in Replica, ReplicaStep(r) PROVE RoleInv'
  BY <1>7 DEF ReplicaStep, Connect, AcceptReplica, CrashReplica, DropReplica, ForgetReplica,
              evars, pvars, fvars, ovars
<1>8. CASE BecomePrimary
  <2>1. elected
    BY <1>8 DEF BecomePrimary
  <2>2. QED
    BY <1>8, <2>1 DEF BecomePrimary, ovars
<1>9. CASE ReadCount \/ NumberQueued \/ QueueDone \/ RecoveryThread
  BY <1>9 DEF ReadCount, NumberQueued, QueueDone, RecoveryThread, RecoveryCheck, Connected,
              AbortPending, Ready, evars, pvars, fvars, ovars
<1>10. CASE UNCHANGED vars
  BY <1>10 DEF vars, evars, pvars, fvars, ovars
<1>11. QED
  BY <1>1, <1>2, <1>3, <1>4, <1>5, <1>6, <1>7, <1>8, <1>9, <1>10
     DEF Next, OldThread, CoordThread

LEMMA PositionStep ==
    ASSUME IInv, [Next]_vars
    PROVE  PositionInv'
<1>a. TypeOK /\ RoleInv /\ PositionInv /\ KeptInv /\ NumberInv /\ BoundInv
  BY DEF IInv
<1>b. tpc_log \in Seq(Record) /\ tpc_pos \in Nat /\ Len(tpc_log) \in Nat
  BY <1>a DEF TypeOK
<1>c. spoiled \subseteq spoiled'
  BY WindowsStay
<1> USE <1>b, <1>c DEF PositionInv
<1>1. CASE OldLog
  <2>1. oseq \in TSeq
    BY <1>a, <1>1, Bounds DEF OldLog, RoleInv
  <2>2. \/ boot = "open" /\ UNCHANGED <<tpc_log, tpc_pos>>
        \/ boot # "open" /\ tpc_pos' = Len(tpc_log) + 1 /\ Len(tpc_log') = Len(tpc_log) + 1
    BY <1>a, <1>1, <2>1, Written DEF OldLog
  <2>3. UNCHANGED <<boot, num, fpc, is_primary, tpc_pending>>
    BY <1>1 DEF OldLog, fvars, pvars
  <2>4. QED
    BY <1>a, <2>2, <2>3
<1>2. CASE Restart
  BY <1>a, <1>2 DEF Restart, RoleInv, pvars
<1>3. CASE OpenLog
  BY <1>a, <1>3 DEF OpenLog, tvars, fvars, pvars
<1>4. CASE ReadLog
  <2>1. tpc_pos' = Len(tpc_log)
    BY <1>a, <1>4, LogProcessed DEF ReadLog
  <2>2. QED
    BY <1>a, <1>4, <2>1 DEF ReadLog, fvars, pvars
<1>5. CASE BecomePrimary
  <2>1. /\ tpc_pos' = IF boot = "open" THEN tpc_pos ELSE Len(tpc_log)
        /\ boot = "done" => tpc_pending' = {}
    BY <1>a, <1>5, LogProcessed DEF BecomePrimary
  <2>2. UNCHANGED <<boot, num, fpc, tpc_log>> /\ (boot # "done" => "booting" \in spoiled')
    BY <1>5 DEF BecomePrimary, fvars, ovars
  <2>3. QED
    BY <1>a, <2>1, <2>2
<1>6. CASE AbortPending
  <2> DEFINE s == Min(tpc_pending)
  <2>1. s \in TSeq
    BY <1>a, <1>6, MinExists, Bounds DEF AbortPending, TypeOK
  <2>2. /\ tpc_pending' = tpc_pending \ {s}
        /\ UNCHANGED <<tpc_log, tpc_pos>> \/ WriteLog("DECIDED", s)
        /\ UNCHANGED <<boot, num, fpc, is_primary>>
    BY <1>6 DEF AbortPending, fvars, pvars, ovars
  <2> HIDE DEF s
  <2>3. \/ UNCHANGED <<tpc_log, tpc_pos>>
        \/ boot # "open" /\ tpc_pos' = Len(tpc_log) + 1 /\ Len(tpc_log') = Len(tpc_log) + 1
    BY <1>a, <2>1, <2>2, Written
  <2>4. QED
    BY <1>a, <2>2, <2>3
<1>7. CASE NumberQueued
  <2> DEFINE c == primary_queue[1]
             s == NumberOf(c)
  <2>1. c \in Cmd /\ fpc[c] = "queued" /\ boot = "done"
    <3>1. primary_queue # << >> /\ primary_queue \in Seq(Cmd)
      BY <1>a, <1>7 DEF NumberQueued, TypeOK
    <3>2. 1 \in DOMAIN primary_queue /\ c \in Cmd
      BY <3>1
    <3>3. fpc[c] = "queued"
      BY <1>a, <3>2 DEF KeptInv
    <3>4. boot = "done"
      BY <1>a, <3>2, <3>3
    <3>5. QED
      BY <3>2, <3>3, <3>4
  <2>2. s \in TSeq
    BY <1>a, <2>1, RoomForOne, Bounds DEF NumberOf, TypeOK, TSeq
  <2>3. /\ UNCHANGED <<tpc_log, tpc_pos>> \/ WriteLog("PREPARE", s)
        /\ UNCHANGED <<boot, is_primary, tpc_pending>>
    BY <1>7 DEF NumberQueued, Started, pvars, ovars
  <2> HIDE DEF c, s
  <2>4. \/ UNCHANGED <<tpc_log, tpc_pos>>
        \/ boot # "open" /\ tpc_pos' = Len(tpc_log) + 1 /\ Len(tpc_log') = Len(tpc_log) + 1
    BY <1>a, <2>2, <2>3, Written
  <2>5. QED
    BY <1>a, <2>1, <2>3, <2>4
<1>8. ASSUME NEW c \in Cmd, Begin(c) PROVE PositionInv'
  <2>1. num[c] \in TSeq /\ boot = "done"
    BY <1>a, <1>8, Bounds DEF Begin, NumberInv, TypeOK, TSeq
  <2>2. WriteLog("PREPARE", num[c]) /\ UNCHANGED <<boot, is_primary, tpc_pending>>
    BY <1>8 DEF Begin, Started, pvars, ovars
  <2>3. \/ UNCHANGED <<tpc_log, tpc_pos>>
        \/ boot # "open" /\ tpc_pos' = Len(tpc_log) + 1 /\ Len(tpc_log') = Len(tpc_log) + 1
    BY <1>a, <2>1, <2>2, Written
  <2>4. QED
    BY <1>a, <2>1, <2>2, <2>3
<1>9. ASSUME NEW c \in Cmd, FindPrimaryGone(c) \/ KeepForPrimary(c) \/ Receive(c)
      PROVE  PositionInv'
  <2>1. boot = "done" /\ UNCHANGED <<tpc_log, tpc_pos, tpc_pending, boot, is_primary>>
    BY <1>a, <1>9 DEF FindPrimaryGone, KeepForPrimary, Receive, tvars, pvars, ovars
  <2>2. QED
    BY <1>a, <2>1
<1>10. CASE Ready
  <2>1. UNCHANGED <<tpc_log, tpc_pos, tpc_pending, boot, is_primary, num>>
    BY <1>10 DEF Ready, tvars, ovars
  <2>2. boot # "done" => UNCHANGED fpc
    BY <1>a, <1>10 DEF Ready, OneWoken, Waiting
  <2>3. QED
    BY <1>a, <2>1, <2>2
<1>11. CASE UNCHANGED <<tpc_log, tpc_pos, tpc_pending, boot, is_primary, num, fpc>>
  BY <1>a, <1>11
<1>12. CASE \/ (\E s \in 1..MaxOld : OldRead(s)) \/ OldPrepare \/ OldNumber \/ OldQueue
            \/ OldDecide \/ OldApply \/ Elect \/ AnswerCount
  <2>1. UNCHANGED <<tpc_log, tpc_pos, tpc_pending, boot, is_primary, num, fpc>>
    BY <1>12 DEF OldRead, OldPrepare, OldNumber, OldQueue, OldDecide, OldApply, Elect,
                 AnswerCount, tvars, ovars, pvars, fvars
  <2>2. QED
    BY <1>11, <2>1
<1>13. ASSUME NEW r \in Replica, ReplicaStep(r) PROVE PositionInv'
  <2>1. UNCHANGED <<tpc_log, tpc_pos, tpc_pending, boot, is_primary, num, fpc>>
    BY <1>13 DEF ReplicaStep, Connect, AcceptReplica, CrashReplica, DropReplica, ForgetReplica,
                 tvars, ovars, pvars, fvars
  <2>2. QED
    BY <1>11, <2>1
<1>14. CASE ReadCount \/ QueueDone \/ RecoveryCheck \/ Connected
  <2>1. UNCHANGED <<tpc_log, tpc_pos, tpc_pending, boot, is_primary, num, fpc>>
    BY <1>14 DEF ReadCount, QueueDone, RecoveryCheck, Connected, tvars, ovars, pvars, fvars
  <2>2. QED
    BY <1>11, <2>1
<1>15. CASE UNCHANGED vars
  BY <1>11, <1>15 DEF vars, tvars, ovars, pvars, fvars
<1>16. QED
  BY <1>1, <1>2, <1>3, <1>4, <1>5, <1>6, <1>7, <1>8, <1>9, <1>10, <1>12, <1>13, <1>14, <1>15
     DEF Next, OldThread, OldHandle, Main, CommandStep, CoordThread, RecoveryThread

LEMMA KeptStep ==
    ASSUME IInv, [Next]_vars
    PROVE  KeptInv'
<1>a. TypeOK /\ KeptInv
  BY DEF IInv
<1> USE <1>a DEF KeptInv
<1>1. CASE Restart
  BY <1>1 DEF Restart
<1>2. ASSUME NEW c \in Cmd, KeepForPrimary(c) PROVE KeptInv'
  <2>1. /\ fpc[c] = "keep" /\ fpc' = [fpc EXCEPT ![c] = "queued"]
        /\ primary_queue' = Append(primary_queue, c)
    BY <1>2 DEF KeepForPrimary
  <2>2. /\ DOMAIN primary_queue = 1..Len(primary_queue) /\ Len(primary_queue) \in Nat
        /\ DOMAIN primary_queue' = 1..(Len(primary_queue) + 1)
        /\ primary_queue'[Len(primary_queue) + 1] = c
        /\ \A i \in DOMAIN primary_queue : /\ primary_queue'[i] = primary_queue[i]
                                           /\ primary_queue[i] \in Cmd
    <3>1. primary_queue \in Seq(Cmd)
      BY DEF TypeOK
    <3> HIDE <1>a DEF KeptInv
    <3>2. QED
      BY <2>1, <3>1
  <2>3. \A i \in DOMAIN primary_queue : primary_queue[i] # c
    BY <2>1
  <2>4. \A i \in DOMAIN primary_queue' : i \in DOMAIN primary_queue \/ i = Len(primary_queue) + 1
    BY <2>2
  <2>5. fpc \in [Cmd -> {"new", "keep", "queued", "wait", "go", "begun", "alone"}]
    BY DEF TypeOK
  <2>6. QED
    BY <2>1, <2>2, <2>3, <2>4, <2>5
<1>3. CASE NumberQueued
  <2> DEFINE c == primary_queue[1]
  <2>1. CASE UNCHANGED <<primary_queue, fpc>>
    BY <2>1
  <2>2. CASE ~UNCHANGED <<primary_queue, fpc>>
    <3>1. /\ primary_queue' = Tail(primary_queue) /\ primary_queue # << >>
          /\ fpc' = [fpc EXCEPT ![c] = "begun"]
      BY <1>3, <2>2 DEF NumberQueued
    <3>2. /\ 1 \in DOMAIN primary_queue
          /\ \A i \in DOMAIN primary_queue' :
               /\ i + 1 \in DOMAIN primary_queue /\ i + 1 # 1 /\ i \in Nat
               /\ primary_queue'[i] = primary_queue[i + 1] /\ primary_queue[i + 1] \in Cmd
      <4>1. primary_queue \in Seq(Cmd)
        BY DEF TypeOK
      <4> HIDE <1>a DEF KeptInv
      <4>2. QED
        BY <3>1, <4>1
    <3>3. \A i \in DOMAIN primary_queue' : primary_queue'[i] # c
      BY <3>2
    <3> HIDE DEF c
    <3>4. fpc \in [Cmd -> {"new", "keep", "queued", "wait", "go", "begun", "alone"}]
      BY DEF TypeOK
    <3>5. \A i \in DOMAIN primary_queue' : fpc'[primary_queue'[i]] = "queued"
      BY <3>1, <3>2, <3>3, <3>4
    <3>6. \A i, j \in DOMAIN primary_queue' :
             primary_queue'[i] = primary_queue'[j] => i = j
      <4> SUFFICES ASSUME NEW i \in DOMAIN primary_queue', NEW j \in DOMAIN primary_queue',
                          primary_queue'[i] = primary_queue'[j]
                   PROVE  i = j
        OBVIOUS
      <4>1. i + 1 = j + 1
        BY <3>2
      <4>2. QED
        BY <3>2, <4>1
    <3>7. QED
      BY <3>5, <3>6
  <2>3. QED
    BY <2>1, <2>2
<1>4. CASE Ready
  BY <1>4 DEF Ready, OneWoken, Waiting, TypeOK
<1>5. ASSUME NEW c \in Cmd, FindPrimaryGone(c) \/ Receive(c) \/ Begin(c) PROVE KeptInv'
  <2>1. /\ primary_queue' = primary_queue /\ fpc[c] # "queued"
        /\ \E x : fpc' = [fpc EXCEPT ![c] = x]
    BY <1>5 DEF FindPrimaryGone, Receive, Begin
  <2>2. \A i \in DOMAIN primary_queue : primary_queue[i] # c /\ primary_queue[i] \in Cmd
    BY <2>1 DEF TypeOK
  <2>3. QED
    BY <2>1, <2>2 DEF TypeOK
<1>6. CASE UNCHANGED <<primary_queue, fpc>>
  BY <1>6
<1>7. CASE OldThread \/ Main \/ Elect \/ AnswerCount \/ \E r \in Replica : ReplicaStep(r)
  BY <1>6, <1>7
     DEF OldThread, OldHandle, OldRead, OldPrepare, OldLog, OldNumber, OldQueue, OldDecide,
         OldApply, Main, OpenLog, ReadLog, Elect, AnswerCount, ReplicaStep, Connect,
         AcceptReplica, CrashReplica, DropReplica, ForgetReplica, fvars
<1>8. CASE BecomePrimary \/ ReadCount \/ QueueDone \/ RecoveryCheck \/ Connected \/ AbortPending
  BY <1>6, <1>8 DEF BecomePrimary, ReadCount, QueueDone, RecoveryCheck, Connected, AbortPending,
                    fvars
<1>9. CASE UNCHANGED vars
  BY <1>6, <1>9 DEF vars, fvars
<1>10. QED
  BY <1>1, <1>2, <1>3, <1>4, <1>5, <1>7, <1>8, <1>9
     DEF Next, CommandStep, CoordThread, RecoveryThread

-----------------------------------------------------------------------------
(* Only a restart loses tpc_seq.                                           *)
LEMMA SeqGrows ==
    ASSUME IInv, [Next]_vars, ~Restart
    PROVE  tpc_seq \in Nat /\ tpc_seq' \in Nat /\ tpc_seq <= tpc_seq'
<1>a. TypeOK /\ PositionInv /\ BoundInv /\ RoleInv
  BY DEF IInv
<1>b. tpc_seq \in Nat
  BY <1>a, Bounds DEF TypeOK
<1>1. CASE OldNumber
  BY <1>a, <1>b, <1>1 DEF OldNumber, SeqAfter, Larger, RoleInv
<1>2. CASE ReadLog \/ BecomePrimary
  BY <1>a, <1>b, <1>2, LogProcessed DEF ReadLog, BecomePrimary
<1>3. CASE NumberQueued
  <2> DEFINE c == primary_queue[1]
             s == NumberOf(c)
  <2>1. c \in Cmd
    BY <1>a, <1>3 DEF NumberQueued, TypeOK
  <2>2. s \in Nat
    BY <1>a, <1>b, <2>1, Bounds DEF NumberOf, TypeOK
  <2>3. tpc_seq' = Larger(tpc_seq, s)
    BY <1>3 DEF NumberQueued
  <2> HIDE DEF s
  <2>4. QED
    BY <1>b, <2>2, <2>3 DEF Larger
<1>4. ASSUME NEW c \in Cmd, CommandStep(c) PROVE tpc_seq' \in Nat /\ tpc_seq <= tpc_seq'
  BY <1>b, <1>4 DEF CommandStep, FindPrimaryGone, KeepForPrimary, Receive, Begin, tvars
<1>5. CASE UNCHANGED tpc_seq
  BY <1>b, <1>5
<1>6. CASE \/ (\E s \in 1..MaxOld : OldRead(s)) \/ OldPrepare \/ OldLog \/ OldQueue
           \/ OldDecide \/ OldApply \/ OpenLog \/ Elect \/ AnswerCount
  BY <1>5, <1>6 DEF OldRead, OldPrepare, OldLog, OldQueue, OldDecide, OldApply, OpenLog, Elect,
                    AnswerCount, tvars
<1>7. ASSUME NEW r \in Replica, ReplicaStep(r) PROVE tpc_seq' = tpc_seq
  BY <1>7 DEF ReplicaStep, Connect, AcceptReplica, CrashReplica, DropReplica, ForgetReplica, tvars
<1>8. CASE ReadCount \/ QueueDone \/ RecoveryThread
  BY <1>5, <1>8 DEF ReadCount, QueueDone, RecoveryThread, RecoveryCheck, Connected, AbortPending,
                    Ready, tvars
<1>9. CASE UNCHANGED vars
  BY <1>5, <1>9 DEF vars, tvars
<1>10. QED
  BY <1>b, <1>1, <1>2, <1>3, <1>4, <1>5, <1>6, <1>7, <1>8, <1>9
     DEF Next, OldThread, OldHandle, Main, CoordThread

(* A command gets the number s, which is new or its own already.           *)
LEMMA Numbering ==
    ASSUME IInv, NEW c \in Cmd, NEW s \in TSeq, s = NumberOf(c),
           num' = [num EXCEPT ![c] = s], tpc_seq' = Larger(tpc_seq, s)
    PROVE  /\ tpc_seq <= tpc_seq' /\ s <= tpc_seq'
           /\ \A d \in Cmd : num'[d] <= tpc_seq'
           /\ \A d \in Numbered \ {c} : num[d] # s
           /\ Numbered' = Numbered \cup {c}
           /\ \A d, e \in Numbered' : num'[d] = num'[e] => d = e
           /\ Limit <= Limit' /\ tpc_seq' <= Limit'
<1>a. /\ num \in [Cmd -> 0..MaxSeq] /\ tpc_seq \in 0..MaxSeq /\ MaxSeq \in Nat
      /\ s \in Nat /\ s # 0
  BY Bounds DEF IInv, TypeOK, TSeq
<1>b. \A d \in Cmd : num[d] <= tpc_seq
  BY DEF IInv, NumberInv
<1>1. tpc_seq <= tpc_seq' /\ s <= tpc_seq' /\ tpc_seq' \in Nat
  BY <1>a DEF Larger
<1>2. \A d \in Cmd : num'[d] <= tpc_seq'
  BY <1>a, <1>b, <1>1
<1>3. \A d \in Numbered \ {c} : num[d] # s
  <2>1. CASE num[c] = 0
    BY <1>a, <1>b, <2>1 DEF NumberOf, Numbered
  <2>2. CASE num[c] # 0
    BY <2>2 DEF NumberOf, Numbered, IInv, NumberInv
  <2>3. QED
    BY <2>1, <2>2
<1>4. Numbered' = Numbered \cup {c}
  BY <1>a DEF Numbered
<1>5. \A d, e \in Numbered' : num'[d] = num'[e] => d = e
  <2>1. \A d, e \in Numbered : num[d] = num[e] => d = e
    BY DEF IInv, NumberInv
  <2>2. Numbered \subseteq Cmd
    BY DEF Numbered
  <2>3. QED
    BY <1>a, <1>3, <1>4, <2>1, <2>2
<1>6. IsFiniteSet(Numbered) /\ Cardinality(Numbered) \in Nat /\ Limit \in Nat
      /\ Limit = MaxOld + Cardinality(Numbered) /\ tpc_seq <= Limit /\ MaxOld \in Nat
  BY LimitType, Bounds DEF Limit, IInv, BoundInv
<1>7. Limit <= Limit' /\ tpc_seq' <= Limit'
  <2>0. Limit' = MaxOld + Cardinality(Numbered')
    BY DEF Limit
  <2>1. CASE num[c] = 0
    <3>1. Cardinality(Numbered') = Cardinality(Numbered) + 1
      BY <1>4, <1>6, <2>1, FS_AddElement DEF Numbered
    <3>2. tpc_seq' = tpc_seq + 1
      BY <1>a, <2>1 DEF NumberOf, Larger
    <3>3. QED
      BY <1>a, <1>6, <2>0, <3>1, <3>2
  <2>2. CASE num[c] # 0
    <3>1. Numbered' = Numbered
      BY <1>4, <2>2 DEF Numbered
    <3>2. tpc_seq' = tpc_seq
      BY <1>a, <1>b, <2>2 DEF NumberOf, Larger
    <3>3. QED
      BY <1>6, <2>0, <3>1, <3>2
  <2>3. QED
    BY <2>1, <2>2
<1>8. QED
  BY <1>1, <1>2, <1>3, <1>4, <1>5, <1>7

(* The three steps that number a command or use its number.                *)
LEMMA Receiving ==
    ASSUME IInv, NEW c \in Cmd, Receive(c)
    PROVE  /\ num[c] = 0 /\ tpc_seq + 1 \in TSeq /\ NumberOf(c) = tpc_seq + 1
           /\ num' = [num EXCEPT ![c] = tpc_seq + 1] /\ tpc_seq' = Larger(tpc_seq, tpc_seq + 1)
           /\ boot = "done" /\ UNCHANGED <<tpc_log, tpc_pos, tpc_pending>>
           /\ fpc[c] = "new" /\ \E p \in {"alone", "wait", "go"} : fpc' = [fpc EXCEPT ![c] = p]
<1>1. num[c] = 0 /\ NumberOf(c) = tpc_seq + 1
  BY DEF IInv, NumberInv, Receive, NumberOf
<1>2. tpc_seq + 1 \in TSeq
  BY <1>1, RoomForOne DEF IInv
<1>3. QED
  BY <1>1, <1>2, Bounds DEF Receive, Larger, IInv, TypeOK

LEMMA QueueNumbering ==
    ASSUME IInv, NumberQueued
    PROVE  \E c \in Cmd : \E s \in TSeq :
           /\ fpc[c] = "queued" /\ s = NumberOf(c) /\ boot = "done"
           /\ num' = [num EXCEPT ![c] = s] /\ tpc_seq' = Larger(tpc_seq, s)
           /\ num[c] = 0 => spoiled' = spoiled \cup Overlapping
           /\ UNCHANGED <<boot, opc, oseq, tpc_pending>>
           /\ \/ UNCHANGED <<fpc, tpc_log, tpc_pos>>
              \/ WriteLog("PREPARE", s) /\ fpc' = [fpc EXCEPT ![c] = "begun"]
<1>a. TypeOK /\ PositionInv /\ KeptInv /\ BoundInv
  BY DEF IInv
<1> DEFINE c == primary_queue[1]
           s == NumberOf(c)
<1>1. c \in Cmd /\ fpc[c] = "queued" /\ boot = "done"
  <2>1. primary_queue # << >> /\ primary_queue \in Seq(Cmd)
    BY <1>a DEF NumberQueued, TypeOK
  <2>2. 1 \in DOMAIN primary_queue /\ c \in Cmd
    BY <2>1
  <2>3. fpc[c] = "queued"
    BY <1>a, <2>2 DEF KeptInv
  <2>4. QED
    BY <1>a, <2>2, <2>3 DEF PositionInv
<1>2. s \in TSeq
  BY <1>a, <1>1, RoomForOne, Bounds DEF NumberOf, TypeOK, TSeq
<1>3. /\ num' = [num EXCEPT ![c] = s] /\ tpc_seq' = Larger(tpc_seq, s)
      /\ num[c] = 0 => spoiled' = spoiled \cup Overlapping
      /\ UNCHANGED <<boot, opc, oseq, tpc_pending>>
      /\ \/ UNCHANGED <<fpc, tpc_log, tpc_pos>>
         \/ WriteLog("PREPARE", s) /\ fpc' = [fpc EXCEPT ![c] = "begun"]
  BY DEF NumberQueued, Started, ovars
<1>4. QED
  BY <1>1, <1>2, <1>3

LEMMA Beginning ==
    ASSUME IInv, NEW c \in Cmd, Begin(c)
    PROVE  /\ num[c] # 0 /\ num[c] \in TSeq /\ num[c] <= tpc_seq /\ boot = "done"
           /\ fpc[c] = "go" /\ fpc' = [fpc EXCEPT ![c] = "begun"]
           /\ WriteLog("PREPARE", num[c])
           /\ UNCHANGED <<num, tpc_seq, tpc_pending, boot, opc, oseq, spoiled>>
BY Bounds DEF IInv, NumberInv, PositionInv, Begin, Started, TypeOK, TSeq, ovars, hvars

(* The steps that leave the numbers of the commands alone.                 *)
LEMMA QuietNumbers ==
    ASSUME IInv, [Next]_vars, ~Restart, ~NumberQueued, \A c \in Cmd : ~Receive(c)
    PROVE  /\ num' = num
           /\ \A c \in Cmd : \/ fpc'[c] = fpc[c]
                             \/ fpc[c] = "new" /\ fpc'[c] = "keep"
                             \/ fpc[c] = "keep" /\ fpc'[c] = "queued"
                             \/ fpc[c] = "wait" /\ fpc'[c] = "go"
                             \/ fpc[c] = "go" /\ fpc'[c] = "begun"
<1>a. fpc \in [Cmd -> {"new", "keep", "queued", "wait", "go", "begun", "alone"}]
  BY DEF IInv, TypeOK
<1> DEFINE Goal == /\ num' = num
                   /\ \A c \in Cmd : \/ fpc'[c] = fpc[c]
                                     \/ fpc[c] = "new" /\ fpc'[c] = "keep"
                                     \/ fpc[c] = "keep" /\ fpc'[c] = "queued"
                                     \/ fpc[c] = "wait" /\ fpc'[c] = "go"
                                     \/ fpc[c] = "go" /\ fpc'[c] = "begun"
<1>1. ASSUME NEW c \in Cmd, FindPrimaryGone(c) \/ KeepForPrimary(c) \/ Begin(c) PROVE Goal
  BY <1>a, <1>1 DEF FindPrimaryGone, KeepForPrimary, Begin
<1>2. CASE Ready
  BY <1>a, <1>2 DEF Ready, OneWoken, Waiting
<1>3. CASE UNCHANGED <<num, fpc>>
  BY <1>3
<1>4. CASE OldThread \/ Main \/ Elect \/ AnswerCount \/ \E r \in Replica : ReplicaStep(r)
  BY <1>3, <1>4
     DEF OldThread, OldHandle, OldRead, OldPrepare, OldLog, OldNumber, OldQueue, OldDecide,
         OldApply, Main, OpenLog, ReadLog, Elect, AnswerCount, ReplicaStep, Connect,
         AcceptReplica, CrashReplica, DropReplica, ForgetReplica, fvars
<1>5. CASE BecomePrimary \/ ReadCount \/ QueueDone \/ RecoveryCheck \/ Connected \/ AbortPending
  BY <1>3, <1>5 DEF BecomePrimary, ReadCount, QueueDone, RecoveryCheck, Connected, AbortPending,
                    fvars
<1>6. CASE UNCHANGED vars
  BY <1>3, <1>6 DEF vars, fvars
<1>7. QED
  BY <1>1, <1>2, <1>4, <1>5, <1>6 DEF Next, CommandStep, CoordThread, RecoveryThread

(* Every step keeps the numbers of the commands apart.                     *)
LEMMA NumberStep ==
    ASSUME IInv, [Next]_vars
    PROVE  NumberInv'
<1>a. TypeOK /\ RoleInv /\ NumberInv
  BY DEF IInv
<1>b. /\ num \in [Cmd -> 0..MaxSeq] /\ MaxSeq \in Nat
      /\ fpc \in [Cmd -> {"new", "keep", "queued", "wait", "go", "begun", "alone"}]
      /\ TSeq \subseteq Nat
  BY <1>a, Bounds DEF TypeOK
<1>1. CASE Restart
  <2>1. /\ \A c \in Cmd : num[c] = 0
        /\ num' = num /\ tpc_seq' = 0 /\ fpc' = [c \in Cmd |-> "new"]
    BY <1>a, <1>1 DEF Restart, RoleInv
  <2>2. QED
    BY <2>1 DEF NumberInv, Numbered
<1>2. ASSUME NEW c \in Cmd, Receive(c) PROVE NumberInv'
  <2>1. /\ tpc_seq + 1 \in TSeq /\ NumberOf(c) = tpc_seq + 1
        /\ num' = [num EXCEPT ![c] = tpc_seq + 1] /\ tpc_seq' = Larger(tpc_seq, tpc_seq + 1)
        /\ \E p \in {"alone", "wait", "go"} : fpc' = [fpc EXCEPT ![c] = p]
    BY <1>2, Receiving
  <2>2. /\ \A d \in Cmd : num'[d] <= tpc_seq'
        /\ \A d, e \in Numbered' : num'[d] = num'[e] => d = e
    BY <2>1, Numbering
  <2>3. /\ \A d \in Cmd : fpc'[d] \in {"new", "keep"} => num'[d] = 0
        /\ \A d \in Cmd : fpc'[d] \in {"wait", "go"} => num'[d] # 0
    BY <1>a, <1>b, <2>1 DEF NumberInv, TSeq
  <2>4. QED
    BY <2>2, <2>3 DEF NumberInv
<1>3. CASE NumberQueued
  <2>1. PICK c \in Cmd : \E s \in TSeq :
           /\ fpc[c] = "queued" /\ s = NumberOf(c)
           /\ num' = [num EXCEPT ![c] = s] /\ tpc_seq' = Larger(tpc_seq, s)
           /\ UNCHANGED fpc \/ fpc' = [fpc EXCEPT ![c] = "begun"]
    BY <1>3, QueueNumbering
  <2>2. PICK s \in TSeq :
           /\ fpc[c] = "queued" /\ s = NumberOf(c)
           /\ num' = [num EXCEPT ![c] = s] /\ tpc_seq' = Larger(tpc_seq, s)
           /\ UNCHANGED fpc \/ fpc' = [fpc EXCEPT ![c] = "begun"]
    BY <2>1
  <2>3. /\ \A d \in Cmd : num'[d] <= tpc_seq'
        /\ \A d, e \in Numbered' : num'[d] = num'[e] => d = e
    BY <2>2, Numbering
  <2>4. /\ \A d \in Cmd : fpc'[d] \in {"new", "keep"} => num'[d] = 0
        /\ \A d \in Cmd : fpc'[d] \in {"wait", "go"} => num'[d] # 0
    BY <1>a, <1>b, <2>2 DEF NumberInv
  <2>5. QED
    BY <2>3, <2>4 DEF NumberInv
<1>4. CASE ~Restart /\ ~NumberQueued /\ \A c \in Cmd : ~Receive(c)
  <2>1. /\ num' = num
        /\ \A c \in Cmd : \/ fpc'[c] = fpc[c]
                          \/ fpc[c] = "new" /\ fpc'[c] = "keep"
                          \/ fpc[c] = "keep" /\ fpc'[c] = "queued"
                          \/ fpc[c] = "wait" /\ fpc'[c] = "go"
                          \/ fpc[c] = "go" /\ fpc'[c] = "begun"
    BY <1>4, QuietNumbers
  <2>2. tpc_seq \in Nat /\ tpc_seq' \in Nat /\ tpc_seq <= tpc_seq'
    BY <1>4, SeqGrows
  <2>3. \A c \in Cmd : num'[c] <= tpc_seq'
    BY <1>a, <1>b, <2>1, <2>2 DEF NumberInv
  <2>4. Numbered' = Numbered
    BY <2>1 DEF Numbered
  <2>5. QED
    BY <1>a, <2>1, <2>3, <2>4 DEF NumberInv
<1>5. QED
  BY <1>1, <1>2, <1>3, <1>4

-----------------------------------------------------------------------------
(* A record at the end of the log: what was prepared before stays so, and  *)
(* the record itself is prepared if it says so.                            *)
LEMMA LogGrows ==
    ASSUME TypeOK, NEW x \in Record, tpc_log' = Append(tpc_log, x)
    PROVE  /\ DOMAIN tpc_log = 1..Len(tpc_log) /\ Len(tpc_log) \in Nat
           /\ DOMAIN tpc_log' = 1..(Len(tpc_log) + 1)
           /\ tpc_log'[Len(tpc_log) + 1] = x
           /\ \A i \in DOMAIN tpc_log : tpc_log'[i] = tpc_log[i]
           /\ \A i \in DOMAIN tpc_log' : i \in DOMAIN tpc_log \/ i = Len(tpc_log) + 1
           /\ \A s : Prepared(s)' => Prepared(s) \/ x = [type |-> "PREPARE", seq |-> s]
<1>1. tpc_log \in Seq(Record)
  BY DEF TypeOK
<1>2. /\ DOMAIN tpc_log = 1..Len(tpc_log) /\ Len(tpc_log) \in Nat
      /\ DOMAIN tpc_log' = 1..(Len(tpc_log) + 1)
      /\ tpc_log'[Len(tpc_log) + 1] = x
      /\ \A i \in DOMAIN tpc_log : tpc_log'[i] = tpc_log[i]
  BY <1>1
<1>3. \A i \in DOMAIN tpc_log' : i \in DOMAIN tpc_log \/ i = Len(tpc_log) + 1
  BY <1>2
<1>4. QED
  BY <1>2, <1>3 DEF Prepared, Logged

(* A line that is within a bound leaves the log within it.                 *)
LEMMA LogBound ==
    ASSUME TypeOK, NEW b \in Nat, \A i \in DOMAIN tpc_log : tpc_log[i].seq <= b,
           NEW type \in {"PREPARE", "DECIDED"}, NEW s \in TSeq, s <= b, WriteLog(type, s)
    PROVE  \A i \in DOMAIN tpc_log' : tpc_log'[i].seq <= b
<1> DEFINE x == [type |-> type, seq |-> s]
<1>1. x \in Record /\ x.seq = s
  BY DEF Record
<1>2. UNCHANGED tpc_log \/ tpc_log' = Append(tpc_log, x)
  BY DEF WriteLog
<1> HIDE DEF x
<1>3. CASE UNCHANGED tpc_log
  BY <1>3
<1>4. CASE tpc_log' = Append(tpc_log, x)
  BY <1>1, <1>4, LogGrows
<1>5. QED
  BY <1>2, <1>3, <1>4

(* Every step keeps within the limit.                                      *)
LEMMA BoundStep ==
    ASSUME IInv, [Next]_vars
    PROVE  BoundInv'
<1>a. TypeOK /\ RoleInv /\ PositionInv /\ NumberInv /\ BoundInv
  BY DEF IInv
<1>b. /\ Limit \in Nat /\ MaxOld \in Nat /\ MaxOld <= Limit
      /\ tpc_seq \in Nat /\ tpc_seq <= Limit
      /\ \A i \in DOMAIN tpc_log : tpc_log[i].seq <= Limit
      /\ \A s \in tpc_pending : s <= Limit
      /\ \A i \in DOMAIN tpc_log : tpc_log[i].seq \in Nat
      /\ \A s \in tpc_pending : s \in Nat
  <2>1. tpc_log \in Seq(Record) /\ tpc_seq \in Nat /\ tpc_pending \subseteq Nat
    BY <1>a, Bounds DEF TypeOK
  <2>2. \A i \in DOMAIN tpc_log : tpc_log[i].seq \in Nat
    <3>1. \A i \in DOMAIN tpc_log : tpc_log[i] \in Record
      BY <2>1
    <3>2. QED
      BY <3>1, Bounds DEF Record
  <2>3. QED
    BY <1>a, <2>1, <2>2, LimitType, Bounds DEF BoundInv
<1>c. num' = num => Limit' = Limit
  BY DEF Limit, Numbered
<1>1. CASE OldLog
  <2>1. oseq \in TSeq /\ oseq \in 1..MaxOld
    BY <1>a, <1>1, Bounds DEF OldLog, RoleInv
  <2>2. /\ WriteLog(IF opc = "log" THEN "PREPARE" ELSE "DECIDED", oseq)
        /\ UNCHANGED <<num, tpc_seq, tpc_pending>>
    BY <1>1 DEF OldLog, fvars
  <2>3. oseq <= Limit
    BY <1>b, <2>1
  <2>4. \A i \in DOMAIN tpc_log' : tpc_log'[i].seq <= Limit
    BY <1>a, <1>b, <2>1, <2>2, <2>3, LogBound
  <2>5. QED
    BY <1>b, <1>c, <2>2, <2>4 DEF BoundInv
<1>2. CASE OldNumber
  <2>1. oseq \in 1..MaxOld /\ tpc_seq' = Larger(tpc_seq, oseq)
        /\ UNCHANGED <<num, tpc_log, tpc_pending>>
    BY <1>a, <1>2 DEF OldNumber, SeqAfter, RoleInv, fvars
  <2>2. QED
    BY <1>b, <1>c, <2>1 DEF BoundInv, Larger
<1>3. CASE Restart
  BY <1>b, <1>c, <1>3 DEF Restart, BoundInv
<1>4. CASE ReadLog \/ BecomePrimary
  <2>1. ProcessLog /\ UNCHANGED <<num, tpc_log>>
    BY <1>4 DEF ReadLog, BecomePrimary, fvars
  <2>2. tpc_seq' <= Limit /\ \A s \in tpc_pending' : s <= Limit
    BY <1>a, <2>1, LogProcessed
  <2>3. QED
    BY <1>b, <1>c, <2>1, <2>2 DEF BoundInv
<1>5. CASE AbortPending
  <2> DEFINE s == Min(tpc_pending)
  <2>1. s \in tpc_pending /\ s \in TSeq
    BY <1>a, <1>5, MinExists, Bounds DEF AbortPending, TypeOK
  <2>2. /\ tpc_pending' = tpc_pending \ {s} /\ UNCHANGED <<num, tpc_seq>>
        /\ UNCHANGED tpc_log \/ WriteLog("DECIDED", s)
    BY <1>5 DEF AbortPending, fvars
  <2> HIDE DEF s
  <2>3. \A i \in DOMAIN tpc_log' : tpc_log'[i].seq <= Limit
    BY <1>a, <1>b, <2>1, <2>2, LogBound
  <2>4. QED
    BY <1>b, <1>c, <2>1, <2>2, <2>3 DEF BoundInv
<1>6. CASE NumberQueued
  <2>1. PICK c \in Cmd : \E s \in TSeq :
           /\ s = NumberOf(c) /\ num' = [num EXCEPT ![c] = s] /\ tpc_seq' = Larger(tpc_seq, s)
           /\ UNCHANGED tpc_pending /\ (UNCHANGED tpc_log \/ WriteLog("PREPARE", s))
    BY <1>6, QueueNumbering
  <2>2. PICK s \in TSeq :
           /\ s = NumberOf(c) /\ num' = [num EXCEPT ![c] = s] /\ tpc_seq' = Larger(tpc_seq, s)
           /\ UNCHANGED tpc_pending /\ (UNCHANGED tpc_log \/ WriteLog("PREPARE", s))
    BY <2>1
  <2>3. s <= tpc_seq' /\ Limit <= Limit' /\ tpc_seq' <= Limit'
    BY <2>2, Numbering
  <2>4. Limit' \in Nat /\ tpc_seq' \in Nat /\ s \in Nat
    <3>1. (tpc_seq \in Nat)' /\ s \in Nat
      BY <1>b, <2>2, Bounds DEF Larger
    <3>2. Limit' = MaxOld + Cardinality(Numbered')
      BY DEF Limit
    <3>3. IsFiniteSet(Numbered')
      BY RecoveryAssumption, FS_Subset DEF Numbered
    <3>4. QED
      BY <1>b, <3>1, <3>2, <3>3, FS_CardinalityType
  <2>5. /\ \A i \in DOMAIN tpc_log : tpc_log[i].seq <= Limit'
        /\ \A t \in tpc_pending : t <= Limit'
    BY <1>b, <2>3, <2>4
  <2>6. \A i \in DOMAIN tpc_log' : tpc_log'[i].seq <= Limit'
    <3> DEFINE b == Limit'
    <3>1. b \in Nat /\ s <= b /\ \A i \in DOMAIN tpc_log : tpc_log[i].seq <= b
      BY <2>3, <2>4, <2>5
    <3> HIDE DEF b
    <3>2. \A i \in DOMAIN tpc_log' : tpc_log'[i].seq <= b
      BY <1>a, <2>2, <3>1, LogBound
    <3>3. QED
      BY <3>2 DEF b
  <2>7. QED
    BY <2>2, <2>3, <2>5, <2>6 DEF BoundInv
<1>7. ASSUME NEW c \in Cmd, Receive(c) PROVE BoundInv'
  <2> DEFINE s == tpc_seq + 1
  <2>1. /\ s \in TSeq /\ s = NumberOf(c) /\ num' = [num EXCEPT ![c] = s]
        /\ tpc_seq' = Larger(tpc_seq, s) /\ UNCHANGED <<tpc_log, tpc_pending>>
    BY <1>7, Receiving
  <2> HIDE DEF s
  <2>2. Limit <= Limit' /\ tpc_seq' <= Limit'
    BY <2>1, Numbering
  <2>3. Limit' \in Nat
    <3>1. Limit' = MaxOld + Cardinality(Numbered')
      BY DEF Limit
    <3>2. IsFiniteSet(Numbered')
      BY RecoveryAssumption, FS_Subset DEF Numbered
    <3>3. QED
      BY <1>b, <3>1, <3>2, FS_CardinalityType
  <2>4. QED
    BY <1>b, <2>1, <2>2, <2>3 DEF BoundInv
<1>8. ASSUME NEW c \in Cmd, Begin(c) PROVE BoundInv'
  <2>1. /\ num[c] \in TSeq /\ num[c] <= tpc_seq /\ WriteLog("PREPARE", num[c])
        /\ UNCHANGED <<num, tpc_seq, tpc_pending>>
    BY <1>8, Beginning
  <2>2. num[c] <= Limit
    <3>1. num[c] \in Nat /\ num[c] <= tpc_seq
      BY <2>1, Bounds
    <3>2. QED
      BY <1>b, <3>1
  <2>3. \A i \in DOMAIN tpc_log' : tpc_log'[i].seq <= Limit
    BY <1>a, <1>b, <2>1, <2>2, LogBound
  <2>4. QED
    BY <1>b, <1>c, <2>1, <2>3 DEF BoundInv
<1>9. CASE UNCHANGED <<num, tpc_seq, tpc_log, tpc_pending>>
  BY <1>b, <1>c, <1>9 DEF BoundInv
<1>10. CASE \/ (\E s \in 1..MaxOld : OldRead(s)) \/ OldPrepare \/ OldQueue \/ OldDecide
            \/ OldApply \/ OpenLog \/ Elect \/ AnswerCount
  BY <1>9, <1>10 DEF OldRead, OldPrepare, OldQueue, OldDecide, OldApply, OpenLog, Elect,
                     AnswerCount, tvars, fvars
<1>11. CASE (\E c \in Cmd : FindPrimaryGone(c) \/ KeepForPrimary(c))
              \/ \E r \in Replica : ReplicaStep(r)
  BY <1>9, <1>11 DEF FindPrimaryGone, KeepForPrimary, ReplicaStep, Connect, AcceptReplica,
                     CrashReplica, DropReplica, ForgetReplica, tvars, fvars
<1>12. CASE ReadCount \/ QueueDone \/ RecoveryCheck \/ Connected \/ Ready
  BY <1>9, <1>12 DEF ReadCount, QueueDone, RecoveryCheck, Connected, Ready, tvars, fvars
<1>13. CASE UNCHANGED vars
  BY <1>9, <1>13 DEF vars, tvars, fvars
<1>14. QED
  BY <1>1, <1>2, <1>3, <1>4, <1>5, <1>6, <1>7, <1>8, <1>10, <1>11, <1>12, <1>13
     DEF Next, OldThread, OldHandle, Main, CommandStep, CoordThread, RecoveryThread

(* Writing a PREPARE with a number that was not prepared before.           *)
LEMMA FreshPrepare ==
    ASSUME TypeOK, NEW s \in TSeq, ~Prepared(s), WriteLog("PREPARE", s),
           \A i, j \in DOMAIN tpc_log :
              (tpc_log[i].type = "PREPARE" /\ tpc_log[j] = tpc_log[i]) => i = j
    PROVE  \A i, j \in DOMAIN tpc_log' :
              (tpc_log'[i].type = "PREPARE" /\ tpc_log'[j] = tpc_log'[i]) => i = j
<1> DEFINE x == [type |-> "PREPARE", seq |-> s]
<1>1. x \in Record
  BY DEF Record
<1>2. /\ x.type = "PREPARE" /\ \A i \in DOMAIN tpc_log : tpc_log[i] # x
      /\ UNCHANGED tpc_log \/ tpc_log' = Append(tpc_log, x)
  BY DEF Prepared, Logged, WriteLog
<1> HIDE DEF x
<1>3. CASE UNCHANGED tpc_log
  BY <1>3
<1>4. CASE tpc_log' = Append(tpc_log, x)
  <2>1. /\ DOMAIN tpc_log = 1..Len(tpc_log) /\ Len(tpc_log) \in Nat
        /\ tpc_log'[Len(tpc_log) + 1] = x
        /\ \A i \in DOMAIN tpc_log : tpc_log'[i] = tpc_log[i]
        /\ \A i \in DOMAIN tpc_log' : i \in DOMAIN tpc_log \/ i = Len(tpc_log) + 1
    BY <1>1, <1>4, LogGrows
  <2>2. QED
    BY <1>2, <2>1
<1>5. QED
  BY <1>2, <1>3, <1>4

(* A line that says DECIDED prepares nothing.                              *)
LEMMA DecisionWritten ==
    ASSUME TypeOK, NEW s \in TSeq, WriteLog("DECIDED", s), NumberedOnce, Undisturbed
    PROVE  /\ \A t : Prepared(t)' => Prepared(t)
           /\ \A i, j \in DOMAIN tpc_log' :
                (tpc_log'[i].type = "PREPARE" /\ tpc_log'[j] = tpc_log'[i]) => i = j
<1> DEFINE x == [type |-> "DECIDED", seq |-> s]
<1>1. /\ x \in Record /\ x.type = "DECIDED"
      /\ \A t : x # [type |-> "PREPARE", seq |-> t]
      /\ UNCHANGED tpc_log \/ tpc_log' = Append(tpc_log, x)
  BY DEF Record, WriteLog
<1> HIDE DEF x
<1>2. CASE UNCHANGED tpc_log
  BY <1>2 DEF Prepared, Logged, NumberedOnce, Undisturbed
<1>3. CASE tpc_log' = Append(tpc_log, x)
  <2>1. /\ DOMAIN tpc_log = 1..Len(tpc_log) /\ Len(tpc_log) \in Nat
        /\ tpc_log'[Len(tpc_log) + 1] = x
        /\ \A i \in DOMAIN tpc_log : tpc_log'[i] = tpc_log[i]
        /\ \A i \in DOMAIN tpc_log' : i \in DOMAIN tpc_log \/ i = Len(tpc_log) + 1
        /\ \A t : Prepared(t)' => Prepared(t) \/ x = [type |-> "PREPARE", seq |-> t]
    BY <1>1, <1>3, LogGrows
  <2>2. QED
    BY <1>1, <2>1 DEF NumberedOnce, Undisturbed
<1>4. QED
  BY <1>1, <1>2, <1>3

(* A written line leaves what was known known, unless it skips lines.      *)
LEMMA StillKnown ==
    ASSUME TypeOK, PositionInv, NEW type \in {"PREPARE", "DECIDED"}, NEW s \in TSeq,
           WriteLog(type, s), Skipping = {}, UNCHANGED <<tpc_seq, boot>>,
           opc = "seq" => UNCHANGED <<opc, oseq>>,
           \A i \in DOMAIN tpc_log : tpc_log[i].type = "PREPARE" => Known(i)
    PROVE  \A i \in DOMAIN tpc_log' : tpc_log'[i].type = "PREPARE" =>
              Known(i)' \/ (type = "PREPARE" /\ tpc_log'[i].seq = s)
<1> DEFINE x == [type |-> type, seq |-> s]
<1>1. x \in Record /\ x.type = type /\ x.seq = s
  BY DEF Record
<1>2. \/ boot = "open" /\ UNCHANGED <<tpc_log, tpc_pos>>
      \/ boot # "open" /\ tpc_log' = Append(tpc_log, x)
  BY DEF WriteLog
<1> HIDE DEF x
<1>3. boot # "open" => ~(\E i \in DOMAIN tpc_log : boot # "done" /\ i > tpc_pos)
  <2>1. /\ boot \in {"open", "scan", "done"} /\ tpc_pos \in Nat /\ tpc_log \in Seq(Record)
        /\ tpc_pos <= Len(tpc_log)
    BY DEF PositionInv, TypeOK
  <2>2. ~(boot = "scan" /\ tpc_pos < Len(tpc_log))
    BY DEF Skipping
  <2>3. QED
    BY <2>1, <2>2
<1>4. CASE boot = "open" /\ UNCHANGED <<tpc_log, tpc_pos>>
  BY <1>4 DEF Known
<1>5. CASE boot # "open" /\ tpc_log' = Append(tpc_log, x)
  <2>1. /\ DOMAIN tpc_log = 1..Len(tpc_log) /\ Len(tpc_log) \in Nat
        /\ tpc_log'[Len(tpc_log) + 1] = x
        /\ \A i \in DOMAIN tpc_log : tpc_log'[i] = tpc_log[i]
        /\ \A i \in DOMAIN tpc_log' : i \in DOMAIN tpc_log \/ i = Len(tpc_log) + 1
    BY <1>1, <1>5, LogGrows
  <2>2. ~(\E i \in DOMAIN tpc_log : boot # "done" /\ i > tpc_pos)
    BY <1>3, <1>5
  <2>3. \A i \in DOMAIN tpc_log : tpc_log[i].type = "PREPARE" =>
           tpc_log[i].seq <= tpc_seq \/ (opc = "seq" /\ oseq = tpc_log[i].seq)
    BY <2>1, <2>2 DEF Known
  <2>4. \A i \in DOMAIN tpc_log : tpc_log'[i].type = "PREPARE" => Known(i)'
    BY <2>1, <2>3 DEF Known
  <2>5. QED
    BY <1>1, <2>1, <2>4 DEF Known
<1>6. QED
  BY <1>2, <1>4, <1>5

(* The steps that write no line and number no command.                     *)
LEMMA QuietStep ==
    ASSUME RInv, Undisturbed,
           UNCHANGED <<tpc_log, num, boot, opc, oseq>>,
           tpc_seq \in Nat, tpc_seq' \in Nat, tpc_seq <= tpc_seq',
           boot # "done" => \A i \in DOMAIN tpc_log :
                               i > tpc_pos => i > tpc_pos' \/ tpc_log[i].seq <= tpc_seq',
           \A c \in Cmd : fpc'[c] # "begun" => fpc[c] # "begun"
    PROVE  FreshInv' /\ NumberedOnce'
<1>1. /\ Numbered' = Numbered /\ \A s : Prepared(s)' <=> Prepared(s)
      /\ \A c \in Numbered : c \in Cmd
  BY DEF Numbered, Prepared, Logged
<1>2. tpc_log \in Seq(Record) /\ \A i \in DOMAIN tpc_log : tpc_log[i].seq \in Nat
  <2>1. tpc_log \in Seq(Record)
    BY DEF RInv, IInv, TypeOK
  <2>2. \A i \in DOMAIN tpc_log : tpc_log[i] \in Record
    BY <2>1
  <2>3. QED
    BY <2>1, <2>2, Bounds DEF Record
<1>3. \A i \in DOMAIN tpc_log : tpc_log[i].type = "PREPARE" => Known(i)
  BY DEF RInv, FreshInv
<1>4. \A i \in DOMAIN tpc_log' : tpc_log'[i].type = "PREPARE" => Known(i)'
  BY <1>2, <1>3 DEF Known
<1>5. NumberedOnce'
  BY DEF RInv, NumberedOnce, Undisturbed
<1>6. FreshInv'
  BY <1>1, <1>4 DEF RInv, FreshInv
<1>7. QED
  BY <1>5, <1>6

(* A command gets its number and waits, or it gets it and begins.          *)
LEMMA CommandNumbered ==
    ASSUME RInv, Undisturbed, NEW c \in Cmd, NEW s \in TSeq, s = NumberOf(c),
           fpc[c] # "begun", boot = "done", opc \notin {"prepare", "log", "seq"},
           UNCHANGED <<boot, opc, oseq>>,
           num' = [num EXCEPT ![c] = s], tpc_seq' = Larger(tpc_seq, s),
           \A d \in Cmd \ {c} : fpc'[d] = fpc[d],
           \/ UNCHANGED tpc_log
           \/ WriteLog("PREPARE", s) /\ fpc'[c] = "begun"
    PROVE  FreshInv' /\ NumberedOnce'
<1>a. IInv /\ TypeOK /\ PositionInv
  BY DEF RInv, IInv
<1>b. /\ \A i \in DOMAIN tpc_log : tpc_log[i].type = "PREPARE" => tpc_log[i].seq <= tpc_seq
      /\ \A d \in Numbered : fpc[d] # "begun" => ~Prepared(num[d])
      /\ \A i, j \in DOMAIN tpc_log :
            (tpc_log[i].type = "PREPARE" /\ tpc_log[j] = tpc_log[i]) => i = j
  BY DEF RInv, FreshInv, NumberedOnce, Undisturbed, Known
<1>c. /\ num \in [Cmd -> 0..MaxSeq] /\ tpc_seq \in Nat /\ s \in Nat
      /\ \A i \in DOMAIN tpc_log : tpc_log[i].seq \in Nat
  <2>1. tpc_log \in Seq(Record) /\ tpc_seq \in Nat /\ s \in Nat
    BY <1>a, Bounds DEF TypeOK
  <2>2. \A i \in DOMAIN tpc_log : tpc_log[i] \in Record
    BY <2>1
  <2>3. QED
    BY <1>a, <2>1, <2>2, Bounds DEF Record, TypeOK
<1>1. /\ tpc_seq <= tpc_seq' /\ s <= tpc_seq' /\ Numbered' = Numbered \cup {c}
      /\ \A d \in Numbered \ {c} : num[d] # s
  BY <1>a, Numbering
<1>2. tpc_seq' \in Nat
  BY <1>c DEF Larger
<1>3. ~Prepared(s)
  <2>1. CASE num[c] = 0
    BY <1>b, <1>c, <2>1 DEF NumberOf, Prepared, Logged
  <2>2. CASE num[c] # 0
    BY <1>b, <2>2 DEF NumberOf, Numbered
  <2>3. QED
    BY <2>1, <2>2
<1> DEFINE x == [type |-> "PREPARE", seq |-> s]
<1>4. x \in Record /\ x.seq = s /\ \A t : x = [type |-> "PREPARE", seq |-> t] => t = s
  BY DEF Record
<1>5. \/ UNCHANGED tpc_log
      \/ tpc_log' = Append(tpc_log, x) /\ WriteLog("PREPARE", s) /\ fpc'[c] = "begun"
  BY DEF WriteLog
<1> HIDE DEF x
<1>6. \A i \in DOMAIN tpc_log : tpc_log[i].type = "PREPARE" => tpc_log[i].seq <= tpc_seq'
  BY <1>b, <1>c, <1>1, <1>2
<1>7. /\ \A i \in DOMAIN tpc_log' : tpc_log'[i].type = "PREPARE" => tpc_log'[i].seq <= tpc_seq'
      /\ \A t : Prepared(t)' => Prepared(t) \/ (t = s /\ fpc'[c] = "begun")
      /\ NumberedOnce'
  <2>1. CASE UNCHANGED tpc_log
    BY <1>b, <1>6, <2>1 DEF Prepared, Logged, NumberedOnce
  <2>2. CASE tpc_log' = Append(tpc_log, x) /\ WriteLog("PREPARE", s) /\ fpc'[c] = "begun"
    <3>1. NumberedOnce'
      BY <1>a, <1>b, <1>3, <2>2, FreshPrepare DEF NumberedOnce
    <3>2. /\ tpc_log'[Len(tpc_log) + 1] = x
          /\ \A i \in DOMAIN tpc_log : tpc_log'[i] = tpc_log[i]
          /\ \A i \in DOMAIN tpc_log' : i \in DOMAIN tpc_log \/ i = Len(tpc_log) + 1
          /\ \A t : Prepared(t)' => Prepared(t) \/ x = [type |-> "PREPARE", seq |-> t]
      BY <1>a, <1>4, <2>2, LogGrows
    <3>3. \A i \in DOMAIN tpc_log' :
             tpc_log'[i].type = "PREPARE" => tpc_log'[i].seq <= tpc_seq'
      BY <1>1, <1>4, <1>6, <3>2
    <3>4. QED
      BY <1>4, <2>2, <3>1, <3>2, <3>3
  <2>3. QED
    BY <1>5, <2>1, <2>2
<1>8. ASSUME NEW d \in Numbered', fpc'[d] # "begun", NEW t, t = num'[d], Prepared(t)'
      PROVE  FALSE
  <2>1. d = c \/ d \in Numbered
    BY <1>1, <1>8
  <2>2. CASE d = c
    <3>1. t = s
      BY <1>c, <1>8, <2>2
    <3>2. QED
      BY <1>3, <1>7, <1>8, <2>2, <3>1
  <2>3. CASE d # c /\ d \in Numbered
    <3>1. t = num[d] /\ fpc'[d] = fpc[d] /\ t # s
      BY <1>1, <1>c, <1>8, <2>3 DEF Numbered
    <3>2. Prepared(t)
      BY <1>7, <1>8, <3>1
    <3>3. QED
      BY <1>b, <1>8, <2>3, <3>1, <3>2
  <2>4. QED
    BY <2>1, <2>2, <2>3
<1>9. \A d \in Numbered' : fpc'[d] # "begun" => ~Prepared(num[d])'
  BY <1>8
<1>10. \A i \in DOMAIN tpc_log' : tpc_log'[i].type = "PREPARE" => Known(i)'
  BY <1>7 DEF Known
<1>11. QED
  BY <1>7, <1>9, <1>10 DEF FreshInv

(* Every step keeps the numbers fresh.                                     *)
LEMMA FreshStep ==
    ASSUME RInv, TypeOK', [Next]_vars
    PROVE  FreshInv' /\ NumberedOnce'
<1> SUFFICES ASSUME Undisturbed' PROVE FreshInv' /\ NumberedOnce'
  BY DEF FreshInv, NumberedOnce, Undisturbed
<1>u. Undisturbed
  BY WindowsStay DEF Undisturbed
<1>a. IInv /\ TypeOK /\ RoleInv /\ PositionInv /\ KeptInv /\ NumberInv /\ BoundInv
  BY DEF RInv, IInv
<1>b. /\ \A i \in DOMAIN tpc_log : tpc_log[i].type = "PREPARE" => Known(i)
      /\ opc \in {"prepare", "log", "seq"} => Numbered = {}
      /\ opc \in {"prepare", "log"} => ~Prepared(oseq)
      /\ \A c \in Numbered : fpc[c] # "begun" => ~Prepared(num[c])
      /\ \A i, j \in DOMAIN tpc_log :
            (tpc_log[i].type = "PREPARE" /\ tpc_log[j] = tpc_log[i]) => i = j
  BY <1>u DEF RInv, FreshInv, NumberedOnce, Undisturbed
<1>c. /\ tpc_seq \in Nat /\ tpc_log \in Seq(Record) /\ tpc_pos \in Nat
      /\ num \in [Cmd -> 0..MaxSeq] /\ MaxSeq \in Nat
      /\ fpc \in [Cmd -> {"new", "keep", "queued", "wait", "go", "begun", "alone"}]
      /\ \A i \in DOMAIN tpc_log : tpc_log[i].seq \in Nat
  <2>1. tpc_log \in Seq(Record) /\ tpc_seq \in Nat
    BY <1>a, Bounds DEF TypeOK
  <2>2. \A i \in DOMAIN tpc_log : tpc_log[i] \in Record
    BY <2>1
  <2>3. QED
    BY <1>a, <2>1, <2>2, Bounds DEF Record, TypeOK
<1>d. ~is_primary => Numbered = {}
  BY <1>a DEF RoleInv, Numbered
<1>1. ASSUME NEW s \in 1..MaxOld, OldRead(s) PROVE FreshInv' /\ NumberedOnce'
  <2>1. /\ UNCHANGED <<tpc_log, tpc_seq, tpc_pos, num, fpc, boot>> /\ oseq' = s
        /\ opc = "read" /\ ~is_primary
        /\ \/ ~Prepared(s) /\ opc' = "prepare"
           \/ opc' = "decide"
    BY <1>1 DEF OldRead, tvars, fvars
  <2>2. /\ Numbered' = {} /\ \A t : Prepared(t)' <=> Prepared(t)
    BY <1>d, <2>1 DEF Numbered, Prepared, Logged
  <2>3. \A i \in DOMAIN tpc_log : tpc_log[i].type = "PREPARE" => Known(i)'
    BY <1>b, <2>1 DEF Known
  <2>4. NumberedOnce'
    BY <1>b, <2>1 DEF NumberedOnce
  <2>5. QED
    BY <2>1, <2>2, <2>3, <2>4 DEF FreshInv
<1>2. CASE OldLog
  <2>1. /\ WriteLog(IF opc = "log" THEN "PREPARE" ELSE "DECIDED", oseq)
        /\ oseq' = oseq /\ UNCHANGED <<num, fpc, boot, tpc_seq>>
        /\ opc \in {"log", "declog"} /\ opc' = (IF opc = "log" THEN "seq" ELSE "apply")
    BY <1>2 DEF OldLog, Goes, fvars
  <2>2. Skipping = {}
    BY <1>2 DEF OldLog, Skipping, Undisturbed
  <2>3. oseq \in TSeq
    BY <1>a, <2>1, Bounds DEF RoleInv
  <2>4. Numbered' = Numbered
    BY <2>1 DEF Numbered
  <2>5. CASE opc = "log"
    <3>1. WriteLog("PREPARE", oseq) /\ opc' = "seq" /\ ~Prepared(oseq) /\ Numbered = {}
      BY <1>b, <2>1, <2>5
    <3>2. \A i \in DOMAIN tpc_log' : tpc_log'[i].type = "PREPARE" =>
             Known(i)' \/ tpc_log'[i].seq = oseq
      BY <1>a, <1>b, <2>1, <2>2, <2>3, <2>5, <3>1, StillKnown
    <3>3. \A i \in DOMAIN tpc_log' : tpc_log'[i].type = "PREPARE" => Known(i)'
      BY <2>1, <3>1, <3>2 DEF Known
    <3>4. NumberedOnce'
      BY <1>a, <1>b, <2>3, <3>1, FreshPrepare DEF NumberedOnce
    <3>5. QED
      BY <2>4, <3>1, <3>3, <3>4 DEF FreshInv
  <2>6. CASE opc = "declog"
    <3>1. WriteLog("DECIDED", oseq) /\ opc' = "apply"
      BY <2>1, <2>6
    <3>2. \A i \in DOMAIN tpc_log' : tpc_log'[i].type = "PREPARE" => Known(i)'
      BY <1>a, <1>b, <2>1, <2>2, <2>3, <2>6, <3>1, StillKnown
    <3>3. /\ \A t : Prepared(t)' => Prepared(t)
          /\ NumberedOnce'
      BY <1>a, <1>u, <2>3, <3>1, DecisionWritten DEF RInv, NumberedOnce
    <3>4. \A c \in Numbered' : fpc'[c] # "begun" => ~Prepared(num[c])'
      BY <1>b, <2>1, <2>4, <3>3
    <3>5. QED
      BY <2>1, <3>1, <3>2, <3>3, <3>4 DEF FreshInv
  <2>7. QED
    BY <2>1, <2>5, <2>6
<1>3. CASE OldPrepare \/ OldNumber \/ OldQueue \/ OldDecide \/ OldApply
  <2>1. /\ UNCHANGED <<tpc_log, tpc_pos, num, fpc, boot>>
        /\ opc = "seq" => opc' = "queue" /\ tpc_seq' = Larger(tpc_seq, oseq)
        /\ opc # "seq" => tpc_seq' = tpc_seq
        /\ \/ opc = "prepare" /\ opc' = "log" /\ oseq' = oseq
           \/ opc' \in {"read", "queue", "declog"}
    BY <1>3 DEF OldPrepare, OldNumber, OldQueue, OldDecide, OldApply, SeqAfter, Done, Goes,
                tvars, fvars
  <2>2. /\ Numbered' = Numbered /\ \A t : Prepared(t)' <=> Prepared(t)
    BY <2>1 DEF Numbered, Prepared, Logged
  <2>3. oseq \in Nat
    BY <1>a, Bounds DEF TypeOK
  <2>4. \A i \in DOMAIN tpc_log : tpc_log[i].type = "PREPARE" => Known(i)'
    BY <1>b, <1>c, <2>1, <2>3 DEF Known, Larger
  <2>5. NumberedOnce'
    BY <1>b, <2>1 DEF NumberedOnce
  <2>6. \A c \in Numbered' : fpc'[c] # "begun" => ~Prepared(num[c])'
    BY <1>b, <2>1, <2>2
  <2>7. QED
    BY <1>b, <2>1, <2>2, <2>4, <2>5, <2>6 DEF FreshInv
<1>4. CASE Restart
  <2>1. /\ UNCHANGED <<tpc_log, num>> /\ ~is_primary /\ tpc_pos' = 0 /\ boot' = "open"
        /\ opc' = "read"
    BY <1>a, <1>4 DEF Restart, RoleInv, Done
  <2>2. Numbered' = {}
    BY <1>d, <2>1 DEF Numbered
  <2>3. \A i \in DOMAIN tpc_log' : Known(i)'
    BY <1>c, <2>1 DEF Known
  <2>4. NumberedOnce'
    BY <1>b, <2>1 DEF NumberedOnce
  <2>5. QED
    BY <2>1, <2>2, <2>3, <2>4 DEF FreshInv
<1>5. CASE Main
  <2>1. /\ UNCHANGED <<tpc_log, num, fpc, opc, oseq>>
        /\ \/ boot' = "scan" /\ boot = "open" /\ UNCHANGED <<tpc_pos, tpc_seq>>
           \/ boot' = "done" /\ boot = "scan" /\ ProcessLog
    BY <1>5 DEF Main, OpenLog, ReadLog, tvars, fvars
  <2>2. /\ Numbered' = Numbered /\ \A t : Prepared(t)' <=> Prepared(t)
    BY <2>1 DEF Numbered, Prepared, Logged
  <2>3. \A i \in DOMAIN tpc_log : tpc_log[i].type = "PREPARE" => Known(i)'
    <3>1. CASE boot = "open"
      BY <1>b, <2>1, <3>1 DEF Known
    <3>2. CASE boot = "scan"
      <4>1. /\ tpc_seq <= tpc_seq' /\ tpc_seq' \in Nat /\ boot' = "done"
            /\ \A i \in DOMAIN tpc_log : i > tpc_pos => tpc_log[i].seq <= tpc_seq'
        BY <1>a, <2>1, <3>2, LogProcessed
      <4>2. QED
        BY <1>b, <1>c, <2>1, <4>1 DEF Known
    <3>3. QED
      BY <2>1, <3>1, <3>2
  <2>4. NumberedOnce'
    BY <1>b, <2>1 DEF NumberedOnce
  <2>5. \A c \in Numbered' : fpc'[c] # "begun" => ~Prepared(num[c])'
    BY <1>b, <2>1, <2>2
  <2>6. QED
    BY <1>b, <2>1, <2>2, <2>3, <2>4, <2>5 DEF FreshInv
<1>6. CASE BecomePrimary
  <2>1. /\ UNCHANGED <<tpc_log, num, fpc, boot, opc, oseq>> /\ ProcessLog
    BY <1>6 DEF BecomePrimary, fvars, ovars
  <2>2. /\ tpc_seq <= tpc_seq' /\ tpc_seq' \in Nat
        /\ tpc_pos' = IF boot = "open" THEN tpc_pos ELSE Len(tpc_log)
        /\ boot # "open" =>
             \A i \in DOMAIN tpc_log : i > tpc_pos => tpc_log[i].seq <= tpc_seq'
    BY <1>a, <2>1, LogProcessed
  <2>3. \A i \in DOMAIN tpc_log : i > tpc_pos => i > tpc_pos' \/ tpc_log[i].seq <= tpc_seq'
    BY <2>2
  <2>4. \A c \in Cmd : fpc'[c] # "begun" => fpc[c] # "begun"
    BY <2>1
  <2>5. QED
    BY <1>c, <1>u, <2>1, <2>2, <2>3, <2>4, QuietStep
<1>7. CASE AbortPending
  <2> DEFINE s == Min(tpc_pending)
  <2>1. s \in TSeq
    BY <1>a, <1>7, MinExists, Bounds DEF AbortPending, TypeOK
  <2>2. /\ UNCHANGED <<num, fpc, boot, opc, oseq, tpc_seq>>
        /\ \/ UNCHANGED <<tpc_log, tpc_pos>>
           \/ WriteLog("DECIDED", s) /\ spoiled' = spoiled \cup Skipping
    BY <1>7 DEF AbortPending, fvars, ovars
  <2> HIDE DEF s
  <2>3. CASE UNCHANGED <<tpc_log, tpc_pos>>
    BY <1>c, <1>u, <2>2, <2>3, QuietStep
  <2>4. CASE WriteLog("DECIDED", s) /\ spoiled' = spoiled \cup Skipping
    <3>1. Skipping = {}
      BY <2>4 DEF Skipping, Undisturbed
    <3>2. Numbered' = Numbered
      BY <2>2 DEF Numbered
    <3>3. /\ \A t : Prepared(t)' => Prepared(t)
          /\ NumberedOnce'
      BY <1>a, <1>u, <2>1, <2>4, DecisionWritten DEF RInv, NumberedOnce
    <3>4. \A i \in DOMAIN tpc_log' : tpc_log'[i].type = "PREPARE" => Known(i)'
      BY <1>a, <1>b, <2>1, <2>2, <2>4, <3>1, StillKnown
    <3>5. \A c \in Numbered' : fpc'[c] # "begun" => ~Prepared(num[c])'
      BY <1>b, <2>2, <3>2, <3>3
    <3>6. QED
      BY <1>b, <2>2, <3>2, <3>3, <3>4, <3>5 DEF FreshInv
  <2>5. QED
    BY <2>2, <2>3, <2>4
<1>8. CASE NumberQueued
  <2>1. PICK c \in Cmd : \E s \in TSeq :
           /\ fpc[c] = "queued" /\ s = NumberOf(c) /\ boot = "done"
           /\ num' = [num EXCEPT ![c] = s] /\ tpc_seq' = Larger(tpc_seq, s)
           /\ num[c] = 0 => spoiled' = spoiled \cup Overlapping
           /\ UNCHANGED <<boot, opc, oseq>>
           /\ \/ UNCHANGED <<fpc, tpc_log, tpc_pos>>
              \/ WriteLog("PREPARE", s) /\ fpc' = [fpc EXCEPT ![c] = "begun"]
    BY <1>a, <1>8, QueueNumbering
  <2>2. PICK s \in TSeq :
           /\ fpc[c] = "queued" /\ s = NumberOf(c) /\ boot = "done"
           /\ num' = [num EXCEPT ![c] = s] /\ tpc_seq' = Larger(tpc_seq, s)
           /\ num[c] = 0 => spoiled' = spoiled \cup Overlapping
           /\ UNCHANGED <<boot, opc, oseq>>
           /\ \/ UNCHANGED <<fpc, tpc_log, tpc_pos>>
              \/ WriteLog("PREPARE", s) /\ fpc' = [fpc EXCEPT ![c] = "begun"]
    BY <2>1
  <2>3. opc \notin {"prepare", "log", "seq"}
    <3>1. CASE num[c] = 0
      BY <2>2, <3>1 DEF Overlapping, Undisturbed
    <3>2. CASE num[c] # 0
      BY <1>b, <3>2 DEF Numbered
    <3>3. QED
      BY <3>1, <3>2
  <2>4. /\ \A d \in Cmd \ {c} : fpc'[d] = fpc[d]
        /\ UNCHANGED tpc_log \/ (WriteLog("PREPARE", s) /\ fpc'[c] = "begun")
    BY <1>c, <2>2
  <2>5. QED
    BY <1>u, <2>2, <2>3, <2>4, CommandNumbered
<1>9. ASSUME NEW c \in Cmd, Receive(c) PROVE FreshInv' /\ NumberedOnce'
  <2> DEFINE s == tpc_seq + 1
  <2>1. /\ s \in TSeq /\ s = NumberOf(c) /\ num' = [num EXCEPT ![c] = s]
        /\ tpc_seq' = Larger(tpc_seq, s) /\ boot = "done" /\ UNCHANGED tpc_log
        /\ fpc[c] = "new" /\ \E p \in {"alone", "wait", "go"} : fpc' = [fpc EXCEPT ![c] = p]
    BY <1>a, <1>9, Receiving
  <2> HIDE DEF s
  <2>2. opc \notin {"prepare", "log", "seq"} /\ UNCHANGED <<boot, opc, oseq>>
    BY <1>9 DEF Receive, Overlapping, Undisturbed, ovars
  <2>3. \A d \in Cmd \ {c} : fpc'[d] = fpc[d]
    BY <1>c, <2>1
  <2>4. QED
    BY <1>u, <2>1, <2>2, <2>3, CommandNumbered
<1>10. ASSUME NEW c \in Cmd, Begin(c) PROVE FreshInv' /\ NumberedOnce'
  <2>1. /\ num[c] # 0 /\ num[c] \in TSeq /\ num[c] <= tpc_seq /\ boot = "done"
        /\ fpc[c] = "go" /\ fpc' = [fpc EXCEPT ![c] = "begun"]
        /\ WriteLog("PREPARE", num[c])
        /\ UNCHANGED <<num, tpc_seq, boot, opc, oseq>>
    BY <1>a, <1>10, Beginning
  <2>2. opc \notin {"prepare", "log", "seq"}
    BY <1>b, <2>1 DEF Numbered
  <2>3. /\ num[c] = NumberOf(c) /\ num' = [num EXCEPT ![c] = num[c]]
        /\ tpc_seq' = Larger(tpc_seq, num[c])
    BY <1>c, <2>1, Bounds DEF NumberOf, Larger
  <2>4. (\A d \in Cmd \ {c} : fpc'[d] = fpc[d]) /\ fpc'[c] = "begun"
    BY <1>c, <2>1
  <2>5. QED
    BY <1>u, <2>1, <2>2, <2>3, <2>4, CommandNumbered
<1>11. CASE /\ UNCHANGED <<tpc_log, tpc_seq, tpc_pos, num, boot, opc, oseq>>
            /\ \A c \in Cmd : fpc'[c] # "begun" => fpc[c] # "begun"
  BY <1>c, <1>u, <1>11, QuietStep
<1>12. ASSUME NEW c \in Cmd, FindPrimaryGone(c) \/ KeepForPrimary(c)
       PROVE  FreshInv' /\ NumberedOnce'
  <2>1. UNCHANGED <<tpc_log, tpc_seq, tpc_pos, num, boot, opc, oseq>>
    BY <1>12 DEF FindPrimaryGone, KeepForPrimary, tvars, ovars
  <2>2. \A d \in Cmd : fpc'[d] # "begun" => fpc[d] # "begun"
    BY <1>c, <1>12 DEF FindPrimaryGone, KeepForPrimary
  <2>3. QED
    BY <1>11, <2>1, <2>2
<1>13. CASE Ready
  <2>1. UNCHANGED <<tpc_log, tpc_seq, tpc_pos, num, boot, opc, oseq>>
    BY <1>13 DEF Ready, tvars, ovars
  <2>2. \A d \in Cmd : fpc'[d] # "begun" => fpc[d] # "begun"
    BY <1>c, <1>13 DEF Ready, OneWoken, Waiting
  <2>3. QED
    BY <1>11, <2>1, <2>2
<1>14. CASE UNCHANGED <<tvars, fvars, ovars>>
  BY <1>11, <1>14 DEF tvars, fvars, ovars
<1>15. CASE \/ Elect \/ AnswerCount \/ ReadCount \/ QueueDone \/ RecoveryCheck \/ Connected
            \/ (\E r \in Replica : ReplicaStep(r)) \/ UNCHANGED vars
  BY <1>14, <1>15
     DEF Elect, AnswerCount, ReadCount, QueueDone, RecoveryCheck, Connected, ReplicaStep,
         Connect, AcceptReplica, CrashReplica, DropReplica, ForgetReplica, vars
<1>16. QED
  BY <1>1, <1>2, <1>3, <1>4, <1>5, <1>6, <1>7, <1>8, <1>9, <1>10, <1>12, <1>13, <1>15
     DEF Next, OldThread, OldHandle, CommandStep, CoordThread, RecoveryThread

(* The invariant holds initially.                                          *)
LEMMA InvInit == Init => RInv
<1> SUFFICES ASSUME Init PROVE RInv
  OBVIOUS
<1>1. TypeOK
  <2>1. /\ coord_in \in Seq(Message) /\ primary_queue \in Seq(Cmd) /\ tpc_log \in Seq(Record)
    BY DEF Init
  <2>2. /\ conn \in [Replica -> {"none", "backlog", "open", "closed"}]
        /\ fpc \in [Cmd -> {"new", "keep", "queued", "wait", "go", "begun", "alone"}]
        /\ num \in [Cmd -> 0..MaxSeq] /\ tpc_queue \in [TSeq -> Status]
    BY Bounds DEF Init, Status
  <2>3. /\ elected \in BOOLEAN /\ is_primary \in BOOLEAN /\ primary_recovering \in BOOLEAN
        /\ tpc_queue_lock \in BOOLEAN /\ early \in BOOLEAN /\ crowd \in BOOLEAN
        /\ cthread \in {"read", "queue", "blocked"} /\ boot \in {"open", "scan", "done"}
        /\ opc \in {"read", "prepare", "log", "seq", "queue", "decide", "declog", "apply"}
        /\ recovery \in {"none", "check", "wait", "abort", "done"}
    BY DEF Init
  <2>4. /\ asked \in Nat /\ replica_count \in Int /\ tpc_seq \in 0..MaxSeq /\ last_seq \in Nat
        /\ tpc_pos \in Nat /\ crashes \in Nat /\ oseq \in 0..MaxOld
    BY Bounds DEF Init
  <2>5. /\ partition_fds \subseteq Replica /\ up \subseteq Replica /\ tpc_pending \subseteq TSeq
        /\ spoiled \subseteq Window
    BY DEF Init
  <2>6. QED
    BY <2>1, <2>2, <2>3, <2>4, <2>5 DEF TypeOK
<1>2. RoleInv /\ PositionInv /\ KeptInv /\ NumberedOnce
  BY DEF Init, RoleInv, PositionInv, KeptInv, NumberedOnce
<1>3. Numbered = {}
  BY DEF Init, Numbered
<1>4. NumberInv /\ FreshInv
  BY <1>3 DEF Init, NumberInv, FreshInv
<1>5. BoundInv
  BY LimitType DEF Init, BoundInv
<1>6. QED
  BY <1>1, <1>2, <1>4, <1>5 DEF RInv, IInv

(* RInv is inductive.                                                      *)
LEMMA Invariant == Spec => []RInv
<1>1. RInv /\ [Next]_vars => RInv'
  <2> SUFFICES ASSUME RInv, [Next]_vars PROVE RInv'
    OBVIOUS
  <2>1. IInv
    BY DEF RInv
  <2>2. TypeOK'
    BY <2>1, TypeStep
  <2>3. RoleInv' /\ PositionInv' /\ KeptInv' /\ NumberInv' /\ BoundInv'
    BY <2>1, RoleStep, PositionStep, KeptStep, NumberStep, BoundStep
  <2>4. FreshInv' /\ NumberedOnce'
    BY <2>2, FreshStep
  <2>5. QED
    BY <2>2, <2>3, <2>4 DEF RInv, IInv
<1>2. QED
  BY <1>1, InvInit, PTL DEF Spec

(* Every variable of the new primary keeps its type, in every window too;  *)
(* in particular the numbers it hands out, one per command, never exceed   *)
(* those of the old primary by more than the commands there are.           *)
THEOREM RecoveryTypes == Spec => []TypeOK
<1>1. RInv => TypeOK
  BY DEF RInv, IInv
<1>2. QED
  BY <1>1, Invariant, PTL

(* No number is prepared twice in the log of a server that becomes         *)
(* primary: neither by a restart in between (process_tpc_log), nor by the  *)
(* commands kept for the new primary (handle_primary_queue), nor by those  *)
(* that arrive while it recovers (start_tpc), nor by what the thread of    *)
(* the old connection still does after the election; except when that      *)
(* thread is between the test of a PREPARE and tpc_seq while a command is  *)
(* numbered, or when lines were skipped at a restart.                      *)
THEOREM NumbersAreFresh == Spec => []NumberedOnce
<1>1. RInv => NumberedOnce
  BY DEF RInv
<1>2. QED
  BY <1>1, Invariant, PTL

(* The recovery thread that waits on primary_count_cond is always going to *)
(* be woken by an answer: its question or the answer is under way.         *)
THEOREM WaitHasAnswer == Spec => []WaitIsAnswered
<1>1. Init => WaitIsAnswered
  BY DEF Init, WaitIsAnswered
<1>2. RInv /\ WaitIsAnswered /\ [Next]_vars => WaitIsAnswered'
  <2> SUFFICES ASSUME RInv, WaitIsAnswered, [Next]_vars PROVE WaitIsAnswered'
    OBVIOUS
  <2>a. /\ asked \in Nat /\ coord_in \in Seq(Message) /\ RoleInv
    BY DEF RInv, IInv, TypeOK
  <2>1. CASE AnswerCount
    <3> DEFINE x == [type |-> "COUNT", count |-> Cardinality(up) + 1]
    <3>1. coord_in' = Append(coord_in, x) /\ x.type = "COUNT"
      BY <2>1 DEF AnswerCount
    <3> HIDE DEF x
    <3>2. /\ Len(coord_in) + 1 \in DOMAIN coord_in'
          /\ coord_in'[Len(coord_in) + 1] = x
      BY <2>a, <3>1
    <3>3. QED
      BY <3>1, <3>2 DEF WaitIsAnswered
  <2>2. CASE RecoveryCheck
    BY <2>a, <2>2 DEF RecoveryCheck, WaitIsAnswered
  <2>3. CASE Elect \/ BecomePrimary \/ ReadCount \/ Ready \/ Connected
    BY <2>a, <2>3 DEF Elect, BecomePrimary, ReadCount, Ready, Connected, RoleInv, WaitIsAnswered
  <2>4. CASE UNCHANGED <<asked, coord_in, recovery>>
    BY <2>4 DEF WaitIsAnswered
  <2>5. CASE OldThread \/ Restart \/ Main
    BY <2>4, <2>5 DEF OldThread, OldHandle, OldRead, OldPrepare, OldLog, OldNumber, OldQueue,
                      OldDecide, OldApply, Restart, Main, OpenLog, ReadLog, evars
  <2>6. CASE (\E c \in Cmd : CommandStep(c)) \/ \E r \in Replica : ReplicaStep(r)
    BY <2>4, <2>6 DEF CommandStep, FindPrimaryGone, KeepForPrimary, Receive, Begin, ReplicaStep,
                      Connect, AcceptReplica, CrashReplica, DropReplica, ForgetReplica, evars
  <2>7. CASE NumberQueued \/ QueueDone \/ AbortPending \/ UNCHANGED vars
    BY <2>4, <2>7 DEF NumberQueued, QueueDone, AbortPending, vars, evars
  <2>8. QED
    BY <2>1, <2>2, <2>3, <2>5, <2>6, <2>7 DEF Next, CoordThread, RecoveryThread
<1>3. QED
  BY <1>1, <1>2, Invariant, PTL DEF Spec

(* Why PendingIsAborted fails: from the moment it is primary P holds no    *)
(* pending transaction, whatever its log says, because process_tpc_log     *)
(* reads on from the end of the log; unless it was elected before main had *)
(* read the log.                                                           *)
THEOREM NothingPending == Spec => [](is_primary /\ "booting" \notin spoiled => tpc_pending = {})
<1>1. RInv => (is_primary /\ "booting" \notin spoiled => tpc_pending = {})
  BY DEF RInv, IInv, PositionInv
<1>2. QED
  BY <1>1, Invariant, PTL

=============================================================================

--------------------------- MODULE CatchUpProofs ---------------------------
(***************************************************************************)
(* Proofs about a replica that joins (CatchUp): its type invariant, that   *)
(* it comes to hold what is committed, and that a record number means one  *)
(* transaction on both servers.                                            *)
(*                                                                         *)
(* The invariants follow the messages on their way to the replica.  Each   *)
(* message was true when it was sent, the order in which the messages were *)
(* sent says what still holds when they are read, and the one thing that   *)
(* is neither told nor read, the replay of the log, moves records from the *)
(* file to the table.                                                      *)
(***************************************************************************)
EXTENDS CatchUp, FiniteSetTheorems, TLAPS

-----------------------------------------------------------------------------
(* Sequences and messages.                                                 *)

LEMMA AppendFacts ==
    ASSUME NEW S, NEW q \in Seq(S), NEW m \in S
    PROVE  /\ Append(q, m) \in Seq(S) /\ Len(q) \in Nat /\ Len(Append(q, m)) = Len(q) + 1
           /\ DOMAIN q = 1..Len(q) /\ DOMAIN Append(q, m) = 1..(Len(q) + 1)
           /\ \A i \in DOMAIN q : Append(q, m)[i] = q[i]
           /\ Append(q, m)[Len(q) + 1] = m
OBVIOUS

LEMMA TailFacts ==
    ASSUME NEW S, NEW q \in Seq(S), q # <<>>
    PROVE  /\ Tail(q) \in Seq(S) /\ Len(q) \in Nat \ {0} /\ Len(Tail(q)) = Len(q) - 1
           /\ DOMAIN q = 1..Len(q) /\ DOMAIN Tail(q) = 1..(Len(q) - 1)
           /\ \A i \in DOMAIN Tail(q) : i + 1 \in DOMAIN q /\ Tail(q)[i] = q[i + 1]
           /\ q[1] \in S /\ 1 \in DOMAIN q
OBVIOUS

LEMMA EmptyFacts ==
    ASSUME NEW S
    PROVE  <<>> \in Seq(S) /\ Len(<<>>) = 0 /\ DOMAIN (<<>>) = {}
OBVIOUS

LEMMA JoinedFacts ==
    ASSUME NEW S, NEW p \in Seq(S), NEW q \in Seq(S)
    PROVE  /\ p \o q \in Seq(S) /\ Len(p) \in Nat /\ Len(q) \in Nat
           /\ Len(p \o q) = Len(p) + Len(q) /\ DOMAIN (p \o q) = 1..(Len(p) + Len(q))
           /\ DOMAIN p = 1..Len(p) /\ DOMAIN q = 1..Len(q)
           /\ \A i \in DOMAIN p : (p \o q)[i] = p[i]
           /\ \A i \in DOMAIN q : (p \o q)[Len(p) + i] = q[i]
OBVIOUS

Decisions == {"COMMIT", "ABORT"}
Asked     == Decisions \cup {"PREPARE"}
ToReplica ==
    [type : Asked, seq : TSeq]
      \cup [type : {"TSEQNUMRETURN"}, seq : 0..MaxSeq, last : 0..MaxSeq]
      \cup [type : {"LOGFILE"}, file : LogFile]
      \cup [type : {"CHECKPOINT"}]
ToPrimary ==
    [type : {"REQUEST", "TSEQNUM"}] \cup [type : {"VOTE"}, seq : TSeq, vote : {"YES", "NO"}]

LEMMA MessageFields ==
    ASSUME NEW m \in ToReplica
    PROVE  /\ m.type \in Asked => m.seq \in TSeq
           /\ m.type = "TSEQNUMRETURN" => m.seq \in 0..MaxSeq /\ m.last \in 0..MaxSeq
           /\ m.type = "LOGFILE" => m.file \in LogFile
           /\ m.type \in Asked \cup {"TSEQNUMRETURN", "LOGFILE", "CHECKPOINT"}
BY DEF ToReplica, Asked, Decisions

LEMMA AnswerFields ==
    ASSUME NEW m \in ToPrimary
    PROVE  /\ m.type \in {"REQUEST", "TSEQNUM", "VOTE"}
           /\ m.type = "VOTE" => m.seq \in TSeq /\ m.vote \in {"YES", "NO"}
BY DEF ToPrimary

LEMMA MessageMade ==
    /\ \A t \in Asked, n \in TSeq : [type |-> t, seq |-> n] \in ToReplica
    /\ \A n, l \in 0..MaxSeq : [type |-> "TSEQNUMRETURN", seq |-> n, last |-> l] \in ToReplica
    /\ \A F \in LogFile : [type |-> "LOGFILE", file |-> F] \in ToReplica
    /\ [type |-> "CHECKPOINT"] \in ToReplica
BY DEF ToReplica

-----------------------------------------------------------------------------
(* Checkpoint numbers.  A message CHECKPOINT names no number; the replica  *)
(* counts.  The messages q can be placed among the checkpoints of the      *)
(* primary, of which there are k, so that each one counts up, and neither  *)
(* the replica's own number r nor that of a log file f is ahead.           *)
Placed(q, r, f, k) ==
    \E c \in [0..Len(q) -> 1..k] :
        /\ r <= c[0] /\ f \in 0..c[0]
        /\ \A j \in DOMAIN q : \A i \in 0..(j - 1) :
              c[i] <= c[j] /\ (q[j].type = "CHECKPOINT" => c[i] + 1 <= c[j])
        /\ \A j \in DOMAIN q : q[j].type = "LOGFILE" => q[j].file.ck \in 0..c[j]

LEMMA PlacedEmpty ==
    ASSUME NEW r \in Nat, NEW f \in Nat, NEW k \in Nat, r <= k, f \in 0..k, k >= 1
    PROVE  Placed(<<>>, r, f, k)
<1>. DEFINE c == [i \in 0..0 |-> k]
<1>1. c \in [0..Len(<<>>) -> 1..k]
    BY EmptyFacts
<1>2. r <= c[0] /\ f \in 0..c[0]
    OBVIOUS
<1> QED BY <1>1, <1>2, EmptyFacts DEF Placed

LEMMA PlacedAgain ==
    ASSUME NEW q \in Seq(ToReplica), NEW r \in Nat, NEW f \in Nat, NEW k \in Nat, Placed(q, r, f, k),
           NEW r2 \in Nat, NEW f2 \in Nat, NEW k2 \in Nat, r2 <= r \/ r2 <= f,
           f2 = f \/ f2 = 1, k <= k2
    PROVE  Placed(q, r2, f2, k2)
<1>1. PICK c \in [0..Len(q) -> 1..k] :
        /\ r <= c[0] /\ f \in 0..c[0]
        /\ \A j \in DOMAIN q : \A i \in 0..(j - 1) :
              c[i] <= c[j] /\ (q[j].type = "CHECKPOINT" => c[i] + 1 <= c[j])
        /\ \A j \in DOMAIN q : q[j].type = "LOGFILE" => q[j].file.ck \in 0..c[j]
    BY DEF Placed
<1>2. Len(q) \in Nat
    OBVIOUS
<1>3. c[0] \in 1..k
    BY <1>2
<1>4. c \in [0..Len(q) -> 1..k2]
    OBVIOUS
<1>5. r2 <= c[0] /\ f2 \in 0..c[0]
    BY <1>1, <1>3
<1> QED BY <1>1, <1>4, <1>5 DEF Placed

LEMMA PlacedAppend ==
    ASSUME NEW q \in Seq(ToReplica), NEW m \in ToReplica, NEW r \in Nat, NEW f \in Nat, NEW k \in Nat,
           NEW k2 \in Nat, Placed(q, r, f, k), k <= k2, m.type = "CHECKPOINT" => k < k2,
           m.type = "LOGFILE" => m.file.ck \in 0..k2
    PROVE  Placed(Append(q, m), r, f, k2)
<1>1. PICK c \in [0..Len(q) -> 1..k] :
        /\ r <= c[0] /\ f \in 0..c[0]
        /\ \A j \in DOMAIN q : \A i \in 0..(j - 1) :
              c[i] <= c[j] /\ (q[j].type = "CHECKPOINT" => c[i] + 1 <= c[j])
        /\ \A j \in DOMAIN q : q[j].type = "LOGFILE" => q[j].file.ck \in 0..c[j]
    BY DEF Placed
<1>. DEFINE p == Append(q, m)
            d == [i \in 0..(Len(q) + 1) |-> IF i = Len(q) + 1 THEN k2 ELSE c[i]]
<1>2. /\ Len(q) \in Nat /\ Len(p) = Len(q) + 1
      /\ DOMAIN q = 1..Len(q) /\ DOMAIN p = 1..(Len(q) + 1)
      /\ \A i \in DOMAIN q : p[i] = q[i]
      /\ p[Len(q) + 1] = m
    BY AppendFacts
<1>. HIDE DEF p
<1>3. \A i \in 0..Len(q) : c[i] \in 1..k /\ d[i] = c[i]
    BY <1>2
<1>4. d[Len(q) + 1] = k2 /\ 0 \in 0..Len(q)
    BY <1>2
<1>5. d \in [0..Len(p) -> 1..k2]
  <2>1. k \in 1..k2
    BY <1>3, <1>4
  <2>2. k2 \in 1..k2
    BY <2>1
  <2>3. \A i \in 0..Len(q) : c[i] \in 1..k2
    BY <1>3
  <2> QED BY <1>2, <2>2, <2>3
<1>. HIDE DEF d
<1>6. r <= d[0] /\ f \in 0..d[0]
    BY <1>1, <1>3, <1>4
<1>7. ASSUME NEW j \in DOMAIN p, NEW i \in 0..(j - 1)
      PROVE  d[i] <= d[j] /\ (p[j].type = "CHECKPOINT" => d[i] + 1 <= d[j])
  <2>1. CASE j = Len(q) + 1
    <3>1. i \in 0..Len(q)
        BY <1>2, <2>1
    <3>2. d[i] \in 1..k
        BY <1>3, <3>1
    <3> QED BY <1>2, <1>4, <2>1, <3>2
  <2>2. CASE j \in DOMAIN q
    <3>1. i \in 0..Len(q) /\ j \in 0..Len(q)
        BY <1>2, <2>2
    <3> QED BY <1>1, <1>2, <1>3, <2>2, <3>1
  <2> QED BY <1>2, <2>1, <2>2
<1>8. ASSUME NEW j \in DOMAIN p, p[j].type = "LOGFILE"
      PROVE  p[j].file.ck \in 0..d[j]
  <2>1. CASE j = Len(q) + 1
    BY <1>2, <1>4, <1>8, <2>1
  <2>2. CASE j \in DOMAIN q
    BY <1>1, <1>2, <1>3, <1>8, <2>2
  <2> QED BY <1>2, <2>1, <2>2
<1> QED BY <1>5, <1>6, <1>7, <1>8 DEF Placed, p

LEMMA PlacedTail ==
    ASSUME NEW q \in Seq(ToReplica), q # <<>>, NEW r \in Nat, NEW f \in Nat, NEW k \in Nat,
           Placed(q, r, f, k), NEW r2 \in Nat, NEW f2 \in Nat,
           r2 = r \/ (q[1].type = "CHECKPOINT" /\ r2 = r + 1),
           f2 = f \/ (q[1].type = "LOGFILE" /\ f2 = q[1].file.ck)
    PROVE  Placed(Tail(q), r2, f2, k)
<1>1. PICK c \in [0..Len(q) -> 1..k] :
        /\ r <= c[0] /\ f \in 0..c[0]
        /\ \A j \in DOMAIN q : \A i \in 0..(j - 1) :
              c[i] <= c[j] /\ (q[j].type = "CHECKPOINT" => c[i] + 1 <= c[j])
        /\ \A j \in DOMAIN q : q[j].type = "LOGFILE" => q[j].file.ck \in 0..c[j]
    BY DEF Placed
<1>. DEFINE p == Tail(q)
            d == [i \in 0..(Len(q) - 1) |-> c[i + 1]]
<1>2. /\ Len(q) \in Nat \ {0} /\ Len(p) = Len(q) - 1
      /\ DOMAIN q = 1..Len(q) /\ DOMAIN p = 1..(Len(q) - 1)
      /\ \A i \in DOMAIN p : i + 1 \in DOMAIN q /\ p[i] = q[i + 1]
      /\ 1 \in DOMAIN q
    BY TailFacts
<1>. HIDE DEF p
<1>3. \A i \in 0..(Len(q) - 1) : d[i] = c[i + 1] /\ c[i + 1] \in 1..k
    BY <1>2
<1>4. d \in [0..Len(p) -> 1..k]
    BY <1>2, <1>3
<1>. HIDE DEF d
<1>5. r2 <= d[0] /\ f2 \in 0..d[0]
  <2>1. d[0] = c[1] /\ c[0] \in 1..k /\ c[1] \in 1..k
    BY <1>2, <1>3
  <2>2. 0 \in 0..(1 - 1)
    OBVIOUS
  <2>3. c[0] <= c[1] /\ (q[1].type = "CHECKPOINT" => c[0] + 1 <= c[1])
    BY <1>1, <1>2, <2>2
  <2> QED BY <1>1, <1>2, <2>1, <2>3
<1>6. ASSUME NEW j \in DOMAIN p, NEW i \in 0..(j - 1)
      PROVE  d[i] <= d[j] /\ (p[j].type = "CHECKPOINT" => d[i] + 1 <= d[j])
  <2>1. /\ i + 1 \in 0..((j + 1) - 1) /\ i \in 0..(Len(q) - 1) /\ j \in 0..(Len(q) - 1)
        /\ j + 1 \in DOMAIN q /\ p[j] = q[j + 1]
    BY <1>2
  <2>2. c[i + 1] <= c[j + 1] /\ (q[j + 1].type = "CHECKPOINT" => c[i + 1] + 1 <= c[j + 1])
    BY <1>1, <2>1
  <2> QED BY <1>3, <2>1, <2>2
<1>7. ASSUME NEW j \in DOMAIN p, p[j].type = "LOGFILE"
      PROVE  p[j].file.ck \in 0..d[j]
  <2>1. j \in 0..(Len(q) - 1)
    BY <1>2
  <2> QED BY <1>1, <1>2, <1>3, <1>7, <2>1
<1> QED BY <1>4, <1>5, <1>6, <1>7 DEF Placed, p

(* What the places say.                                                    *)
LEMMA PlacedBounds ==
    ASSUME NEW q \in Seq(ToReplica), NEW r \in Nat, NEW f \in Nat, NEW k \in Nat, Placed(q, r, f, k)
    PROVE  /\ r <= k /\ f \in 0..k
           /\ \A j \in DOMAIN q : q[j].type = "CHECKPOINT" =>
                 /\ r < k
                 /\ \A i \in DOMAIN q : i < j /\ q[i].type = "CHECKPOINT" => r + 1 < k
           /\ \A j \in DOMAIN q : q[j].type = "LOGFILE" => q[j].file.ck \in 0..k
<1>1. PICK c \in [0..Len(q) -> 1..k] :
        /\ r <= c[0] /\ f \in 0..c[0]
        /\ \A j \in DOMAIN q : \A i \in 0..(j - 1) :
              c[i] <= c[j] /\ (q[j].type = "CHECKPOINT" => c[i] + 1 <= c[j])
        /\ \A j \in DOMAIN q : q[j].type = "LOGFILE" => q[j].file.ck \in 0..c[j]
    BY DEF Placed
<1>2. Len(q) \in Nat /\ DOMAIN q = 1..Len(q)
    OBVIOUS
<1>3. \A i \in 0..Len(q) : c[i] \in 1..k
    OBVIOUS
<1>4. c[0] \in 1..k
    BY <1>2, <1>3
<1>5. r <= k /\ f \in 0..k
    BY <1>1, <1>4
<1>6. ASSUME NEW j \in DOMAIN q, q[j].type = "CHECKPOINT"
      PROVE  /\ r < k
             /\ \A i \in DOMAIN q : i < j /\ q[i].type = "CHECKPOINT" => r + 1 < k
  <2>1. 0 \in 0..(j - 1) /\ c[j] \in 1..k
    BY <1>2, <1>3
  <2>2. c[0] + 1 <= c[j]
    BY <1>1, <1>6, <2>1
  <2>3. ASSUME NEW i \in DOMAIN q, i < j, q[i].type = "CHECKPOINT"
        PROVE  r + 1 < k
    <3>1. i \in 0..(j - 1) /\ 0 \in 0..(i - 1) /\ c[i] \in 1..k
        BY <1>2, <1>3, <2>3
    <3>2. c[i] + 1 <= c[j] /\ c[0] + 1 <= c[i]
        BY <1>1, <1>6, <2>3, <3>1
    <3> QED BY <1>1, <1>4, <2>1, <3>1, <3>2
  <2> QED BY <1>1, <1>4, <2>1, <2>2, <2>3
<1>7. ASSUME NEW j \in DOMAIN q, q[j].type = "LOGFILE"
      PROVE  q[j].file.ck \in 0..k
  <2>1. c[j] \in 1..k
    BY <1>2, <1>3
  <2> QED BY <1>1, <1>7, <2>1
<1> QED BY <1>5, <1>6, <1>7

-----------------------------------------------------------------------------
(* The types, for every behaviour.                                         *)
PrimaryTypes ==
    /\ tpc_seq \in 0..MaxSeq /\ last_seq \in 0..tpc_seq /\ last_seq >= tpc_seq - 1
    /\ stage \in {"idle", "voting", "decided", "sent"} /\ (stage = "idle" <=> last_seq = tpc_seq)
    /\ outcome \in [TSeq -> {"none", "COMMIT", "ABORT"}] /\ vote \in {"none", "YES", "NO"}
    /\ member \in BOOLEAN
    /\ stage \in {"decided", "sent"} => outcome[tpc_seq] \in Decisions

LogTypes ==
    /\ log \in Seq(Record) /\ queue \in Seq(Record) /\ num \in Nat /\ ck \in Nat \ {0}
    /\ checkpointing \in BOOLEAN /\ answer \in Seq(LogFile) /\ Len(answer) <= 1
    /\ \A i \in DOMAIN answer : answer[i].ck <= ck

ReplicaTypes ==
    /\ rup \in BOOLEAN /\ rseq \in 0..tpc_seq /\ rlast \in 0..rseq
    /\ rtpc \in [TSeq -> {"none", "PREPARE", "COMMIT", "ABORT"}] /\ rmarked \subseteq TSeq
    /\ rtlog \in [seq : 0..MaxSeq, last : 0..MaxSeq]
    /\ \A n \in TSeq : rtpc[n] # "none" => n <= rseq /\ n <= rtlog.seq
    /\ rtlog.last <= rtlog.seq /\ rtlog.seq <= tpc_seq

DiskTypes ==
    /\ rtable \in Seq(TSeq) /\ rsaved \in Seq(TSeq)
    /\ rlog \in Seq(Record) /\ rqueue \in Seq(Record) /\ rnum \in Nat /\ rck \in Nat

RecTypes ==
    rec \in [place : {"none", "created", "replay"}, file : LogFile, top : Nat,
            same : BOOLEAN, older : BOOLEAN]

BoundTypes == spoiled \subseteq Window /\ crashes \in Nat

(* What a message says of the transactions is not ahead of the primary.    *)
WireTypes ==
    /\ to_p \in Seq(ToPrimary) /\ to_r \in Seq(ToReplica)
    /\ \A i \in DOMAIN to_r : to_r[i].type \in Asked => to_r[i].seq <= tpc_seq
    /\ \A i \in DOMAIN to_r : to_r[i].type = "TSEQNUMRETURN" =>
          to_r[i].last <= to_r[i].seq /\ to_r[i].seq <= tpc_seq

FileCk == IF rec.place # "none" THEN rec.file.ck ELSE 1

PlaceInv == "own" \in spoiled \/ Placed(to_r, rck, FileCk, ck)

TypeInv ==
    /\ PrimaryTypes /\ LogTypes /\ ReplicaTypes /\ DiskTypes /\ RecTypes /\ BoundTypes
    /\ WireTypes
    /\ PlaceInv

LEMMA Numbers ==
    ASSUME TypeInv
    PROVE  /\ tpc_seq \in Nat /\ last_seq \in Nat /\ rseq \in Nat /\ rlast \in Nat
           /\ rtlog.seq \in Nat /\ rtlog.last \in Nat /\ num \in Nat /\ ck \in Nat
           /\ rnum \in Nat /\ rck \in Nat /\ ck >= 1
           /\ rec.file.ck \in Nat /\ rec.file.recs \in Seq(Record) /\ rec.top \in Nat
           /\ FileCk \in Nat /\ MaxSeq \in Nat /\ TSeq = 1..MaxSeq
           /\ tpc_seq <= MaxSeq /\ last_seq <= tpc_seq /\ last_seq + 1 >= tpc_seq
           /\ rseq <= tpc_seq /\ rlast <= rseq
<1>1. PrimaryTypes /\ LogTypes /\ ReplicaTypes /\ DiskTypes /\ RecTypes
  BY DEF TypeInv
<1>2. MaxSeq \in Nat /\ TSeq = 1..MaxSeq
  BY CatchUpAssumption DEF TSeq
<1>3. rec.file \in LogFile /\ rec.top \in Nat
  BY <1>1 DEF RecTypes
<1>4. rec.file.ck \in Nat /\ rec.file.recs \in Seq(Record)
  BY <1>3 DEF LogFile
<1>5. rtlog.seq \in Nat /\ rtlog.last \in Nat
  BY <1>1, <1>2 DEF ReplicaTypes
<1> QED BY <1>1, <1>2, <1>3, <1>4, <1>5 DEF PrimaryTypes, LogTypes, ReplicaTypes, DiskTypes, FileCk

LEMMA CheckpointBounds ==
    ASSUME TypeInv, "own" \notin spoiled
    PROVE  /\ rck <= ck /\ FileCk \in 0..ck /\ ck >= 1
           /\ \A j \in DOMAIN to_r : to_r[j].type = "CHECKPOINT" =>
                 /\ rck < ck
                 /\ \A i \in DOMAIN to_r : i < j /\ to_r[i].type = "CHECKPOINT" => rck + 1 < ck
           /\ \A j \in DOMAIN to_r : to_r[j].type = "LOGFILE" => to_r[j].file.ck \in 0..ck
<1>1. to_r \in Seq(ToReplica) /\ Placed(to_r, rck, FileCk, ck)
  BY DEF TypeInv, WireTypes, PlaceInv
<1>2. /\ rck <= ck /\ FileCk \in 0..ck
      /\ \A j \in DOMAIN to_r : to_r[j].type = "CHECKPOINT" =>
            /\ rck < ck
            /\ \A i \in DOMAIN to_r : i < j /\ to_r[i].type = "CHECKPOINT" => rck + 1 < ck
      /\ \A j \in DOMAIN to_r : to_r[j].type = "LOGFILE" => to_r[j].file.ck \in 0..ck
  BY <1>1, Numbers, PlacedBounds
<1> QED BY <1>2, Numbers

LEMMA TypesOK == TypeInv => TypeOK
<1>. SUFFICES ASSUME TypeInv PROVE TypeOK
  OBVIOUS
<1>1. rck \in Nat /\ ("own" \notin spoiled => rck <= ck)
  BY Numbers, CheckpointBounds
<1>2. PrimaryTypes /\ LogTypes /\ ReplicaTypes /\ DiskTypes /\ RecTypes /\ BoundTypes
  BY DEF TypeInv
<1> QED BY <1>1, <1>2 DEF TypeOK, PrimaryTypes, LogTypes, ReplicaTypes, DiskTypes, RecTypes, BoundTypes

LEMMA NoRecType ==
    /\ NoRec \in [place : {"none", "created", "replay"}, file : LogFile, top : Nat,
                  same : BOOLEAN, older : BOOLEAN]
    /\ NoRec.place = "none" /\ NoRec.file \in LogFile /\ NoRec.top = 0 /\ NoRec.same = TRUE
    /\ NoFile \in LogFile
<1>1. <<>> \in Seq(Record)
  BY EmptyFacts
<1> QED BY <1>1 DEF NoRec, NoFile, LogFile

LEMMA InitTypes == Init => TypeInv
<1>. SUFFICES ASSUME Init PROVE TypeInv
  OBVIOUS
<1>0. MaxSeq \in Nat /\ TSeq = 1..MaxSeq
  BY CatchUpAssumption DEF TSeq
<1>1. PrimaryTypes
  <2>1. tpc_seq = 0 /\ last_seq = 0 /\ stage = "idle" /\ vote = "none" /\ member = FALSE
    BY DEF Init
  <2>2. outcome \in [TSeq -> {"none", "COMMIT", "ABORT"}]
    BY DEF Init
  <2>3. tpc_seq \in 0..MaxSeq /\ last_seq \in 0..tpc_seq /\ last_seq >= tpc_seq - 1
    BY <1>0, <2>1
  <2> QED BY <2>1, <2>2, <2>3 DEF PrimaryTypes
<1>2. LogTypes
  <2>1. log = <<>> /\ queue = <<>> /\ num = 0 /\ ck = 1 /\ checkpointing = FALSE /\ answer = <<>>
    BY DEF Init
  <2>2. <<>> \in Seq(Record) /\ <<>> \in Seq(LogFile)
    BY EmptyFacts
  <2>3. Len(answer) <= 1 /\ \A i \in DOMAIN answer : answer[i].ck <= ck
    BY <2>1, EmptyFacts
  <2>4. log \in Seq(Record) /\ queue \in Seq(Record) /\ answer \in Seq(LogFile)
    BY <2>1, <2>2
  <2>5. num \in Nat /\ ck \in Nat \ {0}
    BY <2>1
  <2>6. checkpointing \in BOOLEAN
    BY <2>1
  <2> QED BY <2>3, <2>4, <2>5, <2>6 DEF LogTypes
<1>3. ReplicaTypes
  BY <1>0 DEF Init, ReplicaTypes
<1>4. DiskTypes
  BY EmptyFacts DEF Init, DiskTypes
<1>5. RecTypes /\ BoundTypes
  BY NoRecType DEF Init, RecTypes, BoundTypes
<1>6. WireTypes
  BY EmptyFacts DEF Init, WireTypes
<1>7. PlaceInv
  <2>1. to_r = <<>> /\ rck = 1 /\ FileCk = 1 /\ ck = 1
    BY NoRecType DEF Init, FileCk
  <2> QED BY <2>1, PlacedEmpty DEF PlaceInv
<1> QED BY <1>1, <1>2, <1>3, <1>4, <1>5, <1>6, <1>7 DEF TypeInv

(* A message is sent: by Told, to a replica that is connected, or as an    *)
(* answer.                                                                 *)
LEMMA SentTypes ==
    ASSUME TypeInv, NEW m \in ToReplica, to_r' = Told(m) \/ to_r' = Append(to_r, m),
           m.type \in Asked => m.seq <= tpc_seq',
           m.type = "TSEQNUMRETURN" => m.last <= m.seq /\ m.seq <= tpc_seq',
           tpc_seq <= tpc_seq', tpc_seq' \in Nat, to_p' \in Seq(ToPrimary),
           m.type = "CHECKPOINT" => ck < ck', m.type = "LOGFILE" => m.file.ck \in 0..ck',
           ck <= ck', ck' \in Nat, UNCHANGED <<rck, rec>>, spoiled \subseteq spoiled'
    PROVE  WireTypes' /\ PlaceInv'
<1>1. to_r \in Seq(ToReplica)
  BY DEF TypeInv, WireTypes
<1>a. FileCk' = FileCk
  BY DEF FileCk
<1>b. \A i \in DOMAIN to_r : /\ to_r[i].type \in Asked => to_r[i].seq \in Nat
                             /\ to_r[i].type = "TSEQNUMRETURN" => to_r[i].seq \in Nat
  <2>1. SUFFICES ASSUME NEW i \in DOMAIN to_r
                 PROVE  /\ to_r[i].type \in Asked => to_r[i].seq \in Nat
                        /\ to_r[i].type = "TSEQNUMRETURN" => to_r[i].seq \in Nat
    OBVIOUS
  <2>2. to_r[i] \in ToReplica
    BY <1>1
  <2>3. /\ to_r[i].type \in Asked => to_r[i].seq \in TSeq
        /\ to_r[i].type = "TSEQNUMRETURN" => to_r[i].seq \in 0..MaxSeq
    BY <2>2, MessageFields
  <2>4. TSeq \subseteq Nat /\ 0..MaxSeq \subseteq Nat
    BY CatchUpAssumption DEF TSeq
  <2> QED BY <2>3, <2>4
<1>c. \A i \in DOMAIN to_r :
        /\ to_r[i].type \in Asked => to_r[i].seq <= tpc_seq'
        /\ to_r[i].type = "TSEQNUMRETURN" => to_r[i].last <= to_r[i].seq /\ to_r[i].seq <= tpc_seq'
  <2>1. \A i \in DOMAIN to_r : to_r[i].type \in Asked => to_r[i].seq <= tpc_seq
    BY DEF TypeInv, WireTypes
  <2>2. \A i \in DOMAIN to_r : to_r[i].type = "TSEQNUMRETURN" =>
          to_r[i].last <= to_r[i].seq /\ to_r[i].seq <= tpc_seq
    BY DEF TypeInv, WireTypes
  <2>3. tpc_seq \in Nat
    BY Numbers
  <2> QED BY <1>b, <2>1, <2>2, <2>3
<1>2. CASE to_r' = to_r
  <2>2. WireTypes'
    BY <1>1, <1>2, <1>c DEF WireTypes
  <2>3. ASSUME "own" \notin spoiled' PROVE Placed(to_r, rck, FileCk, ck')
    <3>0. "own" \notin spoiled
      BY <2>3
    <3>1. Placed(to_r, rck, FileCk, ck) /\ rck \in Nat /\ FileCk \in Nat /\ ck \in Nat /\ rck <= rck
      BY <3>0, Numbers DEF TypeInv, PlaceInv
    <3> QED BY <1>1, <3>1, PlacedAgain
  <2> QED BY <1>2, <1>a, <2>2, <2>3 DEF PlaceInv
<1>3. CASE to_r' = Append(to_r, m)
  <2>1. /\ to_r' \in Seq(ToReplica)
        /\ \A i \in DOMAIN to_r' : \/ i \in DOMAIN to_r /\ to_r'[i] = to_r[i]
                                   \/ to_r'[i] = m
    BY <1>1, <1>3, AppendFacts
  <2>3. WireTypes'
    BY <1>c, <2>1 DEF WireTypes
  <2>4. ASSUME "own" \notin spoiled' PROVE Placed(to_r', rck, FileCk, ck')
    <3>1. Placed(to_r, rck, FileCk, ck)
      BY <2>4 DEF TypeInv, PlaceInv
    <3> QED BY <1>1, <1>3, <3>1, PlacedAppend, Numbers
  <2> QED BY <1>a, <2>3, <2>4 DEF PlaceInv
<1> QED BY <1>2, <1>3 DEF Told

(* The replica reads a message.                                            *)
LEMMA ReadTypes ==
    ASSUME TypeInv, to_r # <<>>, to_r' = Tail(to_r), UNCHANGED <<tpc_seq, ck>>,
           to_p' \in Seq(ToPrimary), rck' \in Nat, FileCk' \in Nat,
           rck' = rck \/ (to_r[1].type = "CHECKPOINT" /\ rck' = rck + 1),
           FileCk' = FileCk \/ (to_r[1].type = "LOGFILE" /\ FileCk' = to_r[1].file.ck),
           spoiled \subseteq spoiled'
    PROVE  WireTypes' /\ PlaceInv'
<1>1. to_r \in Seq(ToReplica)
  BY DEF TypeInv, WireTypes
<1>2. /\ to_r' \in Seq(ToReplica)
      /\ \A i \in DOMAIN to_r' : i + 1 \in DOMAIN to_r /\ to_r'[i] = to_r[i + 1]
  BY <1>1, TailFacts
<1>3. WireTypes'
  BY <1>2 DEF TypeInv, WireTypes
<1>4. ASSUME "own" \notin spoiled' PROVE Placed(to_r', rck', FileCk', ck)
  <2>1. Placed(to_r, rck, FileCk, ck)
    BY <1>4 DEF TypeInv, PlaceInv
  <2> QED BY <1>1, <2>1, PlacedTail, Numbers
<1> QED BY <1>3, <1>4 DEF PlaceInv

(* Nothing is sent and nothing read.                                       *)
LEMMA QuietTypes ==
    ASSUME TypeInv, UNCHANGED <<to_r, tpc_seq, ck>>, to_p' \in Seq(ToPrimary), rck' \in Nat,
           FileCk' \in Nat, FileCk' = FileCk \/ FileCk' = 1,
           spoiled \subseteq spoiled', "own" \in spoiled' \/ rck' = rck \/ rck' = FileCk
    PROVE  WireTypes' /\ PlaceInv'
<1>1. to_r \in Seq(ToReplica)
  BY DEF TypeInv, WireTypes
<1>2. WireTypes'
  BY DEF TypeInv, WireTypes
<1>3. ASSUME "own" \notin spoiled' PROVE Placed(to_r, rck', FileCk', ck)
  <2>1. Placed(to_r, rck, FileCk, ck) /\ rck \in Nat /\ FileCk \in Nat /\ ck \in Nat /\ ck <= ck
    BY <1>3, Numbers DEF TypeInv, PlaceInv
  <2>2. rck' <= rck \/ rck' <= FileCk
    BY <1>3, <2>1
  <2> QED BY <1>1, <2>1, <2>2, PlacedAgain
<1> QED BY <1>2, <1>3 DEF PlaceInv

LEMMA StartTypes == ASSUME TypeInv, Start PROVE TypeInv'
<1>m. spoiled \subseteq spoiled'
  BY DEF Start
<1>1. tpc_seq' = tpc_seq + 1 /\ tpc_seq < MaxSeq /\ last_seq = tpc_seq
  BY DEF Start, TypeInv, PrimaryTypes
<1>2. PrimaryTypes'
  BY <1>1, Numbers, SMTT(30) DEF TypeInv, PrimaryTypes, Start
<1>3. ReplicaTypes'
  BY <1>1, Numbers DEF TypeInv, ReplicaTypes, Start, tvars
<1>4. LogTypes' /\ DiskTypes' /\ RecTypes' /\ BoundTypes'
  BY DEF TypeInv, LogTypes, DiskTypes, RecTypes, BoundTypes, Start, pvars, lvars, tvars, dvars
<1>a. tpc_seq + 1 \in TSeq /\ "PREPARE" \in Asked
  BY <1>1, Numbers DEF Asked
<1>5. WireTypes' /\ PlaceInv'
  <2>1. [type |-> "PREPARE", seq |-> tpc_seq + 1] \in ToReplica
    BY <1>a, MessageMade
  <2>2. to_r' = Told([type |-> "PREPARE", seq |-> tpc_seq + 1]) /\ UNCHANGED <<rck, rec>>
    BY DEF Start, pvars, lvars, tvars, dvars
  <2>3. to_p' \in Seq(ToPrimary)
    BY DEF Start, TypeInv, WireTypes, pvars, lvars, tvars, dvars
  <2>4. tpc_seq \in Nat /\ tpc_seq' \in Nat /\ tpc_seq <= tpc_seq' /\ ck <= ck' /\ ck' \in Nat
    BY Numbers, SMTT(30) DEF Start, pvars, lvars, tvars, dvars
  <2> QED BY <1>m, <2>1, <2>2, <2>3, <2>4, <1>1, SentTypes
<1> QED BY <1>2, <1>3, <1>4, <1>5 DEF TypeInv

LEMMA DecideTypes == ASSUME TypeInv, NEW d \in Decisions, Decide(d) PROVE TypeInv'
<1>m. spoiled \subseteq spoiled'
  BY DEF Decide
<1>1. PrimaryTypes'
  <2>1. tpc_seq \in TSeq
    BY Numbers DEF TypeInv, PrimaryTypes, Decide
  <2> QED BY <2>1, Numbers DEF TypeInv, PrimaryTypes, Decide, Decisions
<1>2. LogTypes' /\ ReplicaTypes' /\ DiskTypes' /\ RecTypes' /\ BoundTypes'
  BY DEF TypeInv, LogTypes, ReplicaTypes, DiskTypes, RecTypes, BoundTypes, Decide, pvars, lvars, tvars, dvars
<1>3. WireTypes' /\ PlaceInv'
  <2>1. to_p' \in Seq(ToPrimary) /\ FileCk' = FileCk
    BY DEF TypeInv, WireTypes, FileCk, Decide, pvars, lvars, tvars, dvars
  <2>2. UNCHANGED <<to_r, tpc_seq, ck, rck>>
    BY DEF Decide, pvars, lvars, tvars, dvars
  <2> QED BY <1>m, <2>1, <2>2, QuietTypes, Numbers
<1> QED BY <1>1, <1>2, <1>3 DEF TypeInv

LEMMA SendTypes == ASSUME TypeInv, Send PROVE TypeInv'
<1>m. spoiled \subseteq spoiled'
  BY DEF Send
<1>0. outcome[tpc_seq] \in Decisions /\ outcome[tpc_seq] \in Asked /\ tpc_seq \in TSeq
  <2>1. tpc_seq \in TSeq
    BY Numbers DEF TypeInv, PrimaryTypes, Send
  <2>2. PrimaryTypes /\ stage = "decided"
    BY DEF TypeInv, Send
  <2>3. outcome[tpc_seq] \in Decisions
    BY <2>2 DEF PrimaryTypes
  <2> QED BY <2>1, <2>3 DEF Asked
<1>1. PrimaryTypes'
  BY <1>0, Numbers DEF TypeInv, PrimaryTypes, Send
<1>2. LogTypes' /\ ReplicaTypes' /\ DiskTypes' /\ RecTypes' /\ BoundTypes'
  BY DEF TypeInv, LogTypes, ReplicaTypes, DiskTypes, RecTypes, BoundTypes, Send, pvars, lvars, tvars, dvars
<1>3. WireTypes' /\ PlaceInv'
  <2>1. [type |-> outcome[tpc_seq], seq |-> tpc_seq] \in ToReplica
    BY <1>0, MessageMade
  <2>2. to_r' = Told([type |-> outcome[tpc_seq], seq |-> tpc_seq]) /\ UNCHANGED <<rck, rec>>
    BY DEF Send, pvars, lvars, tvars, dvars
  <2>3. to_p' \in Seq(ToPrimary)
    BY DEF Send, TypeInv, WireTypes, pvars, lvars, tvars, dvars
  <2>4. tpc_seq \in Nat /\ tpc_seq' \in Nat /\ tpc_seq <= tpc_seq' /\ ck <= ck' /\ ck' \in Nat
    BY Numbers DEF Send, pvars, lvars, tvars, dvars
  <2>5. tpc_seq' = tpc_seq /\ outcome[tpc_seq] \notin {"TSEQNUMRETURN", "CHECKPOINT", "LOGFILE"}
    BY <1>0 DEF Send, Decisions
  <2> QED BY <1>m, <2>1, <2>2, <2>3, <2>4, <2>5, SentTypes
<1> QED BY <1>1, <1>2, <1>3 DEF TypeInv

LEMMA ApplyTypes == ASSUME TypeInv, Apply PROVE TypeInv'
<1>m. spoiled \subseteq spoiled'
  BY DEF Apply
<1>1. tpc_seq \in TSeq /\ stage' = "idle" /\ last_seq' = tpc_seq
  <2>1. PrimaryTypes /\ stage = "sent" /\ stage' = "idle" /\ last_seq' = tpc_seq
    BY DEF TypeInv, Apply
  <2>2. last_seq # tpc_seq
    BY <2>1 DEF PrimaryTypes
  <2> QED BY <2>1, <2>2, Numbers
<1>2. PrimaryTypes'
  <2>1. UNCHANGED <<tpc_seq, outcome, vote, member>> /\ PrimaryTypes
    BY DEF Apply, TypeInv
  <2>2. last_seq' \in 0..tpc_seq /\ last_seq' >= tpc_seq - 1
    BY <1>1, Numbers
  <2> QED BY <1>1, <2>1, <2>2 DEF PrimaryTypes
<1>3. LogTypes'
  <2>1. [num |-> num + 1, seq |-> tpc_seq] \in Record
    BY <1>1, Numbers DEF Record
  <2>2. queue \in Seq(Record)
    BY DEF TypeInv, LogTypes
  <2>3. Append(queue, [num |-> num + 1, seq |-> tpc_seq]) \in Seq(Record)
    BY <2>1, <2>2, AppendFacts
  <2>4. /\ UNCHANGED <<log, ck, checkpointing, answer>>
        /\ \/ num' = num + 1 /\ queue' = Append(queue, [num |-> num + 1, seq |-> tpc_seq])
           \/ num' = num /\ queue' = queue
    BY DEF Apply
  <2>5. queue' \in Seq(Record)
    BY <2>2, <2>3, <2>4
  <2>6. num' \in Nat
    <3>1. num \in Nat
      BY Numbers
    <3> QED BY <2>4, <3>1
  <2> QED BY <2>4, <2>5, <2>6 DEF TypeInv, LogTypes
<1>4. BoundTypes'
  BY DEF TypeInv, BoundTypes, Apply, Window
<1>5. ReplicaTypes' /\ DiskTypes' /\ RecTypes'
  BY DEF TypeInv, ReplicaTypes, DiskTypes, RecTypes, Apply, pvars, lvars, tvars, dvars
<1>6. WireTypes' /\ PlaceInv'
  <2>1. to_p' \in Seq(ToPrimary) /\ FileCk' = FileCk
    BY DEF TypeInv, WireTypes, FileCk, Apply, pvars, lvars, tvars, dvars
  <2>2. UNCHANGED <<to_r, tpc_seq, ck, rck>>
    BY DEF Apply, pvars, lvars, tvars, dvars
  <2> QED BY <1>m, <2>1, <2>2, QuietTypes, Numbers
<1> QED BY <1>2, <1>3, <1>4, <1>5, <1>6 DEF TypeInv

LEMMA FlushTypes == ASSUME TypeInv, Flush PROVE TypeInv'
<1>m. spoiled \subseteq spoiled'
  BY DEF Flush
<1>1. LogTypes'
  <2>1. log \o queue \in Seq(Record)
    BY JoinedFacts DEF TypeInv, LogTypes
  <2> QED BY <2>1, EmptyFacts DEF TypeInv, LogTypes, Flush
<1>2. PrimaryTypes' /\ ReplicaTypes' /\ DiskTypes' /\ RecTypes' /\ BoundTypes'
  BY DEF TypeInv, PrimaryTypes, ReplicaTypes, DiskTypes, RecTypes, BoundTypes, Flush, pvars, lvars, tvars, dvars
<1>3. WireTypes' /\ PlaceInv'
  <2>1. to_p' \in Seq(ToPrimary) /\ FileCk' = FileCk
    BY DEF TypeInv, WireTypes, FileCk, Flush, pvars, lvars, tvars, dvars
  <2>2. UNCHANGED <<to_r, tpc_seq, ck, rck>>
    BY DEF Flush, pvars, lvars, tvars, dvars
  <2> QED BY <1>m, <2>1, <2>2, QuietTypes, Numbers
<1> QED BY <1>1, <1>2, <1>3 DEF TypeInv

LEMMA CheckpointTypes == ASSUME TypeInv, Checkpoint PROVE TypeInv'
<1>m. spoiled \subseteq spoiled'
  BY DEF Checkpoint
<1>1. LogTypes'
  <2>1. LogTypes /\ ck' = ck + 1 /\ checkpointing' = TRUE /\ UNCHANGED <<log, queue, num, answer>>
    BY DEF TypeInv, Checkpoint
  <2>2. \A i \in DOMAIN answer : answer[i].ck <= ck + 1
    <3>1. \A i \in DOMAIN answer : answer[i] \in LogFile /\ answer[i].ck <= ck
      BY <2>1 DEF LogTypes
    <3>2. \A f \in LogFile : f.ck \in Nat
      BY DEF LogFile
    <3> QED BY <3>1, <3>2, Numbers
  <2>3. ck + 1 \in Nat \ {0}
    BY Numbers
  <2> QED BY <2>1, <2>2, <2>3 DEF LogTypes
<1>2. BoundTypes'
  BY DEF TypeInv, BoundTypes, Checkpoint, Window
<1>3. PrimaryTypes' /\ ReplicaTypes' /\ DiskTypes' /\ RecTypes'
  BY DEF TypeInv, PrimaryTypes, ReplicaTypes, DiskTypes, RecTypes, Checkpoint, pvars, tvars, dvars
<1>4. WireTypes' /\ PlaceInv'
  <2>1. [type |-> "CHECKPOINT"] \in ToReplica
    BY MessageMade
  <2>2. to_r' = Told([type |-> "CHECKPOINT"]) /\ UNCHANGED <<rck, rec>>
    BY DEF Checkpoint, dvars
  <2>3. to_p' \in Seq(ToPrimary)
    BY DEF Checkpoint, TypeInv, WireTypes
  <2>4. tpc_seq \in Nat /\ tpc_seq' \in Nat /\ tpc_seq <= tpc_seq' /\ ck <= ck' /\ ck' \in Nat
    BY Numbers, SMTT(30) DEF Checkpoint, pvars
  <2>5. ck < ck' /\ "CHECKPOINT" \notin Asked
    BY Numbers DEF Checkpoint, Asked, Decisions
  <2> QED BY <1>m, <2>1, <2>2, <2>3, <2>4, <2>5, SentTypes
<1> QED BY <1>1, <1>2, <1>3, <1>4 DEF TypeInv

LEMMA CheckpointEndsTypes == ASSUME TypeInv, CheckpointEnds PROVE TypeInv'
<1>m. spoiled \subseteq spoiled'
  BY DEF CheckpointEnds
<1>1. LogTypes'
  BY EmptyFacts DEF TypeInv, LogTypes, CheckpointEnds
<1>2. PrimaryTypes' /\ ReplicaTypes' /\ DiskTypes' /\ RecTypes' /\ BoundTypes'
  BY DEF TypeInv, PrimaryTypes, ReplicaTypes, DiskTypes, RecTypes, BoundTypes, CheckpointEnds, pvars, tvars, dvars
<1>3. WireTypes' /\ PlaceInv'
  <2>1. to_p' \in Seq(ToPrimary) /\ FileCk' = FileCk
    BY DEF TypeInv, WireTypes, FileCk, CheckpointEnds
  <2>2. UNCHANGED <<to_r, tpc_seq, ck, rck>>
    BY DEF CheckpointEnds, pvars, dvars
  <2> QED BY <1>m, <2>1, <2>2, QuietTypes, Numbers
<1> QED BY <1>1, <1>2, <1>3 DEF TypeInv

LEMMA JoinTypes == ASSUME TypeInv, Join PROVE TypeInv'
<1>m. spoiled \subseteq spoiled'
  BY DEF Join
<1>1. LogTypes' /\ ReplicaTypes' /\ DiskTypes' /\ RecTypes' /\ BoundTypes'
  BY DEF TypeInv, LogTypes, ReplicaTypes, DiskTypes, RecTypes, BoundTypes, Join, pvars, lvars, tvars, dvars
<1>2. PrimaryTypes'
  BY DEF TypeInv, PrimaryTypes, Join
<1>3. WireTypes'
  <2>1. to_r' = <<>> /\ to_p' = <<[type |-> "REQUEST"], [type |-> "TSEQNUM"]>>
    BY DEF Join
  <2>2. [type |-> "REQUEST"] \in ToPrimary /\ [type |-> "TSEQNUM"] \in ToPrimary
    BY DEF ToPrimary
  <2>3. to_p' \in Seq(ToPrimary)
    BY <2>1, <2>2
  <2> QED BY <2>1, <2>3, EmptyFacts DEF WireTypes
<1>4. PlaceInv'
  <2>1. to_r' = <<>> /\ rck' = rck /\ FileCk' = FileCk /\ ck' = ck
    BY DEF Join, FileCk, pvars, lvars, tvars, dvars
  <2>2. ASSUME "own" \notin spoiled' PROVE Placed(to_r', rck', FileCk', ck')
    <3>1. "own" \notin spoiled
      BY <1>m, <2>2
    <3> QED BY <2>1, <3>1, PlacedEmpty, CheckpointBounds, Numbers
  <2> QED BY <2>2 DEF PlaceInv
<1> QED BY <1>1, <1>2, <1>3, <1>4 DEF TypeInv

LEMMA DropTypes == ASSUME TypeInv, Drop PROVE TypeInv'
<1>m. spoiled \subseteq spoiled'
  BY DEF Drop
<1>a. LogTypes'
  BY EmptyFacts DEF TypeInv, LogTypes, Drop
<1>1. ReplicaTypes' /\ DiskTypes' /\ RecTypes' /\ BoundTypes'
  BY DEF TypeInv, LogTypes, ReplicaTypes, DiskTypes, RecTypes, BoundTypes, Drop, pvars, lvars, tvars, dvars
<1>2. PrimaryTypes'
  BY DEF TypeInv, PrimaryTypes, Drop
<1>3. to_r' = <<>> /\ to_p' = <<>> /\ rck' = rck /\ FileCk' = FileCk /\ ck' = ck
  BY DEF Drop, FileCk, pvars, lvars, tvars, dvars
<1>4. WireTypes'
  BY <1>3, EmptyFacts DEF WireTypes
<1>5. PlaceInv'
  <2>2. ASSUME "own" \notin spoiled' PROVE Placed(to_r', rck', FileCk', ck')
    <3>1. "own" \notin spoiled
      BY <1>m, <2>2
    <3> QED BY <1>3, <3>1, PlacedEmpty, CheckpointBounds, Numbers
  <2> QED BY <2>2 DEF PlaceInv
<1> QED BY <1>a, <1>1, <1>2, <1>4, <1>5 DEF TypeInv

LEMMA ReadFileTypes == ASSUME TypeInv, ReadFile PROVE TypeInv'
<1>m. spoiled \subseteq spoiled'
  BY DEF ReadFile
<1>1. LogTypes'
  <2>1. log \o queue \in Seq(Record)
    BY JoinedFacts DEF TypeInv, LogTypes
  <2>2. PICK f \in FilesRead(log \o queue) : answer' = <<f>>
    BY DEF ReadFile
  <2>3. f \in LogFile /\ f.ck <= ck
    <3>1. CASE f = NoFile
      BY <3>1, NoRecType, Numbers DEF NoFile
    <3>2. CASE f = [ck |-> ck, recs |-> log \o queue]
      BY <2>1, <3>2, Numbers DEF LogFile
    <3>3. CASE f = [ck |-> ck - 1, recs |-> log \o queue]
      BY <2>1, <3>3, Numbers DEF LogFile
    <3> QED BY <2>2, <3>1, <3>2, <3>3 DEF FilesRead
  <2>4. /\ answer' \in Seq(LogFile) /\ Len(answer') <= 1
        /\ \A i \in DOMAIN answer' : answer'[i].ck <= ck
    BY <2>2, <2>3
  <2>5. log' = log \o queue /\ queue' = <<>> /\ UNCHANGED <<num, ck, checkpointing>>
    BY DEF ReadFile
  <2> QED BY <2>1, <2>4, <2>5, EmptyFacts DEF TypeInv, LogTypes
<1>2. PrimaryTypes' /\ ReplicaTypes' /\ DiskTypes' /\ RecTypes'
  BY DEF TypeInv, PrimaryTypes, ReplicaTypes, DiskTypes, RecTypes, ReadFile, pvars, tvars, dvars
<1>3. BoundTypes'
  BY DEF TypeInv, BoundTypes, ReadFile, Window
<1>4. WireTypes' /\ PlaceInv'
  <2>1. to_p' \in Seq(ToPrimary) /\ FileCk' = FileCk
    BY DEF TypeInv, WireTypes, FileCk, ReadFile
  <2>2. UNCHANGED <<to_r, tpc_seq, ck, rck>>
    BY DEF ReadFile, pvars, dvars
  <2> QED BY <1>m, <2>1, <2>2, QuietTypes, Numbers
<1> QED BY <1>1, <1>2, <1>3, <1>4 DEF TypeInv

LEMMA AnswerLogTypes == ASSUME TypeInv, AnswerLog PROVE TypeInv'
<1>m. spoiled \subseteq spoiled'
  BY DEF AnswerLog
<1>0. Tail(to_p) \in Seq(ToPrimary) /\ to_p' = Tail(to_p) /\ to_p # <<>>
  BY TailFacts DEF TypeInv, WireTypes, AnswerLog, Hears, Asks
<1>1. LogTypes'
  BY EmptyFacts DEF TypeInv, LogTypes, AnswerLog
<1>2. PrimaryTypes' /\ ReplicaTypes' /\ DiskTypes' /\ RecTypes' /\ BoundTypes'
  BY DEF TypeInv, PrimaryTypes, ReplicaTypes, DiskTypes, RecTypes, BoundTypes, AnswerLog, pvars, tvars, dvars
<1>3. answer[1] \in LogFile /\ answer[1].ck \in 0..ck
  <2>1. answer \in Seq(LogFile) /\ answer # <<>> /\ \A i \in DOMAIN answer : answer[i].ck <= ck
    BY DEF TypeInv, LogTypes, AnswerLog
  <2>2. answer[1] \in LogFile /\ answer[1].ck <= ck
    BY <2>1, TailFacts
  <2>3. answer[1].ck \in Nat
    BY <2>2 DEF LogFile
  <2> QED BY <2>2, <2>3, Numbers
<1>4. WireTypes' /\ PlaceInv'
  <2>1. [type |-> "LOGFILE", file |-> answer[1]] \in ToReplica
    BY <1>3, MessageMade
  <2>2. to_r' = Append(to_r, [type |-> "LOGFILE", file |-> answer[1]]) /\ UNCHANGED <<rck, rec>>
    BY DEF AnswerLog, dvars
  <2>3. to_p' \in Seq(ToPrimary)
    BY <1>0
  <2>4. tpc_seq \in Nat /\ tpc_seq' \in Nat /\ tpc_seq <= tpc_seq' /\ ck <= ck' /\ ck' \in Nat
    BY Numbers, SMTT(30) DEF AnswerLog, pvars
  <2>5. ck' = ck /\ answer[1].ck \in 0..ck' /\ "LOGFILE" \notin Asked
    BY <1>3 DEF AnswerLog, Asked, Decisions
  <2> QED BY <1>m, <2>1, <2>2, <2>3, <2>4, <2>5, SentTypes
<1> QED BY <1>1, <1>2, <1>4 DEF TypeInv

LEMMA AnswerSeqTypes == ASSUME TypeInv, AnswerSeq PROVE TypeInv'
<1>m. spoiled \subseteq spoiled'
  BY DEF AnswerSeq
<1>0. Tail(to_p) \in Seq(ToPrimary) /\ to_p' = Tail(to_p) /\ to_p # <<>>
  BY TailFacts DEF TypeInv, WireTypes, AnswerSeq, Hears, Asks
<1>1. BoundTypes'
  BY DEF TypeInv, BoundTypes, AnswerSeq, Window
<1>2. PrimaryTypes' /\ LogTypes' /\ ReplicaTypes' /\ DiskTypes' /\ RecTypes'
  BY DEF TypeInv, PrimaryTypes, LogTypes, ReplicaTypes, DiskTypes, RecTypes, AnswerSeq, pvars, lvars, tvars, dvars
<1>3. tpc_seq \in 0..MaxSeq /\ last_seq \in 0..MaxSeq /\ last_seq <= tpc_seq
  BY Numbers
<1>4. WireTypes' /\ PlaceInv'
  <2>1. [type |-> "TSEQNUMRETURN", seq |-> tpc_seq, last |-> last_seq] \in ToReplica
    BY <1>3, MessageMade
  <2>2. to_r' = Append(to_r, [type |-> "TSEQNUMRETURN", seq |-> tpc_seq, last |-> last_seq]) /\ UNCHANGED <<rck, rec>>
    BY DEF AnswerSeq, pvars, lvars, tvars, dvars
  <2>3. to_p' \in Seq(ToPrimary)
    BY <1>0 DEF AnswerSeq, TypeInv, WireTypes, pvars, lvars, tvars, dvars
  <2>4. tpc_seq \in Nat /\ tpc_seq' \in Nat /\ tpc_seq <= tpc_seq' /\ ck <= ck' /\ ck' \in Nat
    BY Numbers DEF AnswerSeq, pvars, lvars, tvars, dvars
  <2>5. tpc_seq' = tpc_seq /\ "TSEQNUMRETURN" \notin Asked
    BY DEF AnswerSeq, Asked, Decisions, pvars
  <2> QED BY <1>m, <2>1, <2>2, <2>3, <2>4, <2>5, <1>3, SentTypes
<1> QED BY <1>1, <1>2, <1>4 DEF TypeInv

LEMMA ReadVoteTypes == ASSUME TypeInv, ReadVote PROVE TypeInv'
<1>m. spoiled \subseteq spoiled'
  BY DEF ReadVote
<1>0. Tail(to_p) \in Seq(ToPrimary) /\ to_p' = Tail(to_p) /\ to_p # <<>>
  BY TailFacts DEF TypeInv, WireTypes, ReadVote, Hears, Asks
<1>1. to_p[1] \in ToPrimary
  BY <1>0, TailFacts DEF TypeInv, WireTypes
<1>2. PrimaryTypes'
  BY <1>1, AnswerFields DEF TypeInv, PrimaryTypes, ReadVote, Hears, Asks
<1>3. LogTypes' /\ ReplicaTypes' /\ DiskTypes' /\ RecTypes' /\ BoundTypes'
  BY DEF TypeInv, LogTypes, ReplicaTypes, DiskTypes, RecTypes, BoundTypes, ReadVote, pvars, lvars, tvars, dvars
<1>4. WireTypes' /\ PlaceInv'
  <2>1. to_p' \in Seq(ToPrimary) /\ FileCk' = FileCk
    BY <1>0 DEF TypeInv, WireTypes, FileCk, ReadVote, pvars, lvars, tvars, dvars
  <2>2. UNCHANGED <<to_r, tpc_seq, ck, rck>>
    BY DEF ReadVote, pvars, lvars, tvars, dvars
  <2> QED BY <1>m, <2>1, <2>2, QuietTypes, Numbers
<1> QED BY <1>2, <1>3, <1>4 DEF TypeInv

(* The message that is read.                                               *)
LEMMA FirstMessage ==
    ASSUME TypeInv, NEW t, Reads(t)
    PROVE  /\ rup /\ to_r # <<>> /\ to_r' = Tail(to_r) /\ 1 \in DOMAIN to_r
           /\ to_r[1].type = t /\ to_r[1] \in ToReplica
           /\ t \in Asked => to_r[1].seq \in TSeq /\ to_r[1].seq <= tpc_seq
           /\ t = "TSEQNUMRETURN" => /\ to_r[1].seq \in 0..MaxSeq /\ to_r[1].last \in 0..MaxSeq
                                     /\ to_r[1].last <= to_r[1].seq /\ to_r[1].seq <= tpc_seq
           /\ t = "LOGFILE" => to_r[1].file \in LogFile
<1>1. to_r # <<>> /\ to_r' = Tail(to_r) /\ to_r[1].type = t /\ rup
  BY DEF Reads
<1>2. to_r \in Seq(ToReplica) /\ 1 \in DOMAIN to_r /\ to_r[1] \in ToReplica
  BY <1>1, TailFacts DEF TypeInv, WireTypes
<1>3. /\ t \in Asked => to_r[1].seq <= tpc_seq
      /\ t = "TSEQNUMRETURN" => to_r[1].last <= to_r[1].seq /\ to_r[1].seq <= tpc_seq
  BY <1>1, <1>2 DEF TypeInv, WireTypes
<1> QED BY <1>1, <1>2, <1>3, MessageFields

LEMMA ReadLogTypes == ASSUME TypeInv, ReadLog PROVE TypeInv'
<1>m. spoiled \subseteq spoiled'
  BY DEF ReadLog
<1>0. to_r[1].file \in LogFile /\ to_r[1].file.ck \in Nat /\ to_r[1].type = "LOGFILE"
  BY FirstMessage DEF ReadLog, LogFile
<1>1. rec' = [NoRec EXCEPT !.place = "created", !.file = to_r[1].file]
  BY DEF ReadLog
<1>2. RecTypes' /\ rec'.place = "created" /\ rec'.file = to_r[1].file
  BY <1>0, <1>1, NoRecType DEF RecTypes, NoRec
<1>3. PrimaryTypes' /\ LogTypes' /\ ReplicaTypes' /\ DiskTypes' /\ BoundTypes'
  BY DEF TypeInv, PrimaryTypes, LogTypes, ReplicaTypes, DiskTypes, BoundTypes, ReadLog, pvars, lvars, tvars, dvars
<1>4. WireTypes' /\ PlaceInv'
  <2>1. /\ rck' = rck /\ FileCk' = to_r[1].file.ck /\ FileCk' \in Nat
        /\ to_r[1].type = "LOGFILE"
    BY <1>0, <1>2 DEF FileCk, ReadLog, dvars
  <2>2. UNCHANGED <<tpc_seq, ck>> /\ to_r' = Tail(to_r) /\ to_r # <<>>
    BY DEF ReadLog, Reads, pvars, lvars, tvars, dvars
  <2>3. to_p' \in Seq(ToPrimary)
    BY DEF ReadLog, TypeInv, WireTypes, pvars, lvars, tvars, dvars
  <2> QED BY <1>m, <2>1, <2>2, <2>3, ReadTypes, Numbers
<1> QED BY <1>2, <1>3, <1>4 DEF TypeInv

LEMMA ReadSeqTypes == ASSUME TypeInv, ReadSeq PROVE TypeInv'
<1>m. spoiled \subseteq spoiled'
  BY DEF ReadSeq
<1>0. /\ to_r[1].seq \in 0..MaxSeq /\ to_r[1].last \in 0..MaxSeq
      /\ to_r[1].last <= to_r[1].seq /\ to_r[1].seq <= tpc_seq
  BY FirstMessage DEF ReadSeq
<1>1. rseq' = Larger(rseq, to_r[1].seq) /\ rlast' = Larger(rlast, to_r[1].last)
  BY DEF ReadSeq, LastAfter
<1>2. rseq' \in 0..tpc_seq /\ rlast' \in 0..rseq' /\ rseq <= rseq'
  <2>1. /\ rseq \in Nat /\ rlast \in Nat /\ tpc_seq \in Nat /\ rseq <= tpc_seq /\ rlast <= rseq
        /\ to_r[1].seq \in Nat /\ to_r[1].last \in Nat
    BY <1>0, Numbers, SMTT(30)
  <2> QED BY <1>0, <1>1, <2>1 DEF Larger
<1>3. ReplicaTypes'
  <2>1. UNCHANGED <<rup, rtpc, rmarked, rtlog, tpc_seq>> /\ ReplicaTypes
    BY DEF ReadSeq, TypeInv, pvars
  <2>2. \A n \in TSeq : rtpc[n] # "none" => n <= rseq' /\ n <= rtlog.seq
    BY <1>2, <2>1, Numbers DEF ReplicaTypes
  <2> QED BY <1>2, <2>1, <2>2 DEF ReplicaTypes
<1>4. PrimaryTypes' /\ LogTypes' /\ DiskTypes' /\ RecTypes' /\ BoundTypes'
  BY DEF TypeInv, PrimaryTypes, LogTypes, DiskTypes, RecTypes, BoundTypes, ReadSeq, pvars, lvars, tvars, dvars
<1>5. WireTypes' /\ PlaceInv'
  <2>1. rck' = rck /\ FileCk' = FileCk
    BY DEF ReadSeq, FileCk, pvars, lvars, tvars, dvars
  <2>2. UNCHANGED <<tpc_seq, ck>> /\ to_r' = Tail(to_r) /\ to_r # <<>>
    BY DEF ReadSeq, Reads, pvars, lvars, tvars, dvars
  <2>3. to_p' \in Seq(ToPrimary)
    BY DEF ReadSeq, TypeInv, WireTypes, pvars, lvars, tvars, dvars
  <2> QED BY <1>m, <2>1, <2>2, <2>3, ReadTypes, Numbers
<1> QED BY <1>3, <1>4, <1>5 DEF TypeInv

LEMMA ReadPrepareTypes == ASSUME TypeInv, ReadPrepare PROVE TypeInv'
<1>m. spoiled \subseteq spoiled'
  BY DEF ReadPrepare
<1>. DEFINE n == to_r[1].seq
<1>0. n \in TSeq /\ n <= tpc_seq /\ n \in Nat
  BY FirstMessage, Numbers, SMTT(30) DEF ReadPrepare, Asked
<1>1. \/ UNCHANGED <<to_p, tvars>>
      \/ /\ rtlog' = [rtlog EXCEPT !.seq = Larger(@, n)] /\ rseq' = Larger(rseq, n)
         /\ rtpc' = [rtpc EXCEPT ![n] = "PREPARE"] /\ UNCHANGED <<rlast, rmarked>>
         /\ \E v \in {"YES", "NO"} : to_p' = Append(to_p, [type |-> "VOTE", seq |-> n, vote |-> v])
  BY DEF ReadPrepare
<1>. HIDE DEF n
<1>2. UNCHANGED <<rup, tpc_seq>> /\ ReplicaTypes
  BY DEF ReadPrepare, TypeInv, pvars
<1>3. ReplicaTypes' /\ to_p' \in Seq(ToPrimary)
  <2>1. CASE UNCHANGED <<to_p, tvars>>
    BY <1>2, <2>1 DEF ReplicaTypes, tvars, TypeInv, WireTypes
  <2>2. ASSUME rtlog' = [rtlog EXCEPT !.seq = Larger(@, n)], rseq' = Larger(rseq, n),
               rtpc' = [rtpc EXCEPT ![n] = "PREPARE"], UNCHANGED <<rlast, rmarked>>
        PROVE  ReplicaTypes'
    <3>1. rseq' \in 0..tpc_seq /\ rseq <= rseq' /\ n <= rseq' /\ rlast \in 0..rseq'
      BY <1>0, <2>2, Numbers, SMTT(30) DEF Larger
    <3>2. rtlog' = [seq |-> Larger(rtlog.seq, n), last |-> rtlog.last]
      BY <1>2, <2>2 DEF ReplicaTypes
    <3>3. Larger(rtlog.seq, n) \in 0..tpc_seq /\ rtlog.last <= Larger(rtlog.seq, n)
      BY <1>0, <1>2, Numbers DEF Larger, ReplicaTypes
    <3>4. Larger(rtlog.seq, n) \in 0..MaxSeq /\ rtlog.last \in 0..MaxSeq
      BY <1>2, <3>3, Numbers DEF ReplicaTypes
    <3>a. n <= Larger(rtlog.seq, n) /\ rtlog.seq <= Larger(rtlog.seq, n) /\ Larger(rtlog.seq, n) \in Nat
      BY <1>0, Numbers, SMTT(30) DEF Larger
    <3>b. rtlog.seq \in Nat /\ rseq \in Nat /\ rseq' \in Nat /\ TSeq \subseteq Nat
      BY <3>1, Numbers
    <3>5. ASSUME NEW m \in TSeq, rtpc'[m] # "none"
          PROVE  m <= rseq' /\ m <= Larger(rtlog.seq, n)
      <4>1. CASE m = n
        BY <3>1, <3>a, <4>1
      <4>2. CASE m # n
        <5>1. rtpc[m] # "none"
          BY <1>2, <2>2, <3>5, <4>2 DEF ReplicaTypes
        <5>2. m <= rseq /\ m <= rtlog.seq
          BY <1>2, <5>1 DEF ReplicaTypes
        <5> QED BY <3>1, <3>a, <3>b, <5>2
      <4> QED BY <4>1, <4>2
    <3>6. rtpc' \in [TSeq -> {"none", "PREPARE", "COMMIT", "ABORT"}]
      BY <1>2, <2>2 DEF ReplicaTypes
    <3> QED BY <1>2, <2>2, <3>1, <3>2, <3>3, <3>4, <3>5, <3>6 DEF ReplicaTypes
  <2>3. ASSUME NEW v \in {"YES", "NO"}, to_p' = Append(to_p, [type |-> "VOTE", seq |-> n, vote |-> v])
        PROVE  to_p' \in Seq(ToPrimary)
    <3>1. [type |-> "VOTE", seq |-> n, vote |-> v] \in ToPrimary
      BY <1>0 DEF ToPrimary
    <3> QED BY <2>3, <3>1, AppendFacts DEF TypeInv, WireTypes
  <2> QED BY <1>1, <2>1, <2>2, <2>3
<1>4. PrimaryTypes' /\ LogTypes' /\ DiskTypes' /\ RecTypes' /\ BoundTypes'
  BY DEF TypeInv, PrimaryTypes, LogTypes, DiskTypes, RecTypes, BoundTypes, ReadPrepare, pvars, lvars, tvars, dvars
<1>5. WireTypes' /\ PlaceInv'
  <2>1. rck' = rck /\ FileCk' = FileCk
    BY DEF ReadPrepare, FileCk, pvars, lvars, tvars, dvars
  <2>2. UNCHANGED <<tpc_seq, ck>> /\ to_r' = Tail(to_r) /\ to_r # <<>>
    BY DEF ReadPrepare, Reads, pvars, lvars, tvars, dvars
  <2>3. to_p' \in Seq(ToPrimary)
    BY <1>3 DEF ReadPrepare, TypeInv, WireTypes, pvars, lvars, tvars, dvars
  <2> QED BY <1>m, <2>1, <2>2, <2>3, ReadTypes, Numbers
<1> QED BY <1>3, <1>4, <1>5 DEF TypeInv

(* What a decision that is acted upon does.                                *)
LEMMA DecisionCases ==
    ASSUME TypeInv, NEW d \in Decisions, ReadDecision(d), NEW n, n = to_r[1].seq
    PROVE  \/ /\ n <= rlast \/ rtpc[n] \in Decisions \/ n \in rmarked
              /\ UNCHANGED <<tvars, rtable, rnum, rqueue, spoiled>>
           \/ /\ ~(n <= rlast \/ rtpc[n] \in Decisions \/ n \in rmarked)
              /\ rmarked' = rmarked \cup {n} /\ rseq' = rseq
              /\ rtlog' = [seq |-> Larger(rtlog.seq, n), last |-> Larger(rtlog.last, n)]
              /\ ProcessQueue([rtpc EXCEPT ![n] = IF rtpc[n] = "none" THEN "none" ELSE d])
<1>1. rtpc = [i \in TSeq |-> rtpc[i]] /\ n \in TSeq
  BY FirstMessage DEF TypeInv, ReplicaTypes, ReadDecision, Asked
<1>2. [rtpc EXCEPT ![n] = IF @ = "none" THEN @ ELSE d]
        = [rtpc EXCEPT ![n] = IF rtpc[n] = "none" THEN "none" ELSE d]
  BY <1>1
<1>3. CASE n <= rlast \/ rtpc[n] \in {"COMMIT", "ABORT"} \/ n \in rmarked
  BY <1>3 DEF ReadDecision, Decisions
<1>4. CASE ~(n <= rlast \/ rtpc[n] \in {"COMMIT", "ABORT"} \/ n \in rmarked)
  BY <1>2, <1>4 DEF ReadDecision, Decisions
<1> QED BY <1>3, <1>4

LEMMA ReadDecisionTypes == ASSUME TypeInv, NEW d \in Decisions, ReadDecision(d) PROVE TypeInv'
<1>m. spoiled \subseteq spoiled'
  BY DEF ReadDecision, ProcessQueue, Overtaking
<1>. DEFINE n == to_r[1].seq
            q == [rtpc EXCEPT ![n] = IF rtpc[n] = "none" THEN "none" ELSE d]
<1>0. n \in TSeq /\ n <= tpc_seq /\ n \in Nat
  BY FirstMessage, Numbers, SMTT(30) DEF ReadDecision, Asked
<1>1. \/ UNCHANGED <<tvars, rtable, rnum, rqueue, spoiled>>
      \/ /\ rmarked' = rmarked \cup {n} /\ rseq' = rseq
         /\ rtlog' = [seq |-> Larger(rtlog.seq, n), last |-> Larger(rtlog.last, n)]
         /\ ProcessQueue(q)
  BY DecisionCases
<1>. HIDE DEF n
<1>2. UNCHANGED <<rup, tpc_seq>> /\ ReplicaTypes
  BY DEF ReadDecision, TypeInv, pvars
<1>3. /\ q \in [TSeq -> {"none", "PREPARE", "COMMIT", "ABORT"}]
      /\ \A m \in TSeq : q[m] # "none" => m <= rseq /\ m <= rtlog.seq
  BY <1>0, <1>2 DEF ReplicaTypes, Decisions
<1>. HIDE DEF q
<1>4. ASSUME UNCHANGED <<tvars, rtable, rnum, rqueue, spoiled>>
      PROVE  ReplicaTypes' /\ DiskTypes' /\ BoundTypes'
  <2>1. ReplicaTypes'
    BY <1>2, <1>4 DEF tvars, ReplicaTypes
  <2>2. DiskTypes' /\ BoundTypes'
    BY <1>4 DEF TypeInv, DiskTypes, BoundTypes, ReadDecision
  <2> QED BY <2>1, <2>2
<1>5. ASSUME rmarked' = rmarked \cup {n}, rseq' = rseq,
             rtlog' = [seq |-> Larger(rtlog.seq, n), last |-> Larger(rtlog.last, n)],
             ProcessQueue(q)
      PROVE  ReplicaTypes' /\ DiskTypes' /\ BoundTypes'
  <2>1. /\ Larger(rtlog.seq, n) \in 0..tpc_seq /\ Larger(rtlog.last, n) \in Nat
        /\ Larger(rtlog.last, n) <= Larger(rtlog.seq, n)
    BY <1>0, <1>2, Numbers, SMTT(30) DEF Larger, ReplicaTypes
  <2>2. /\ rtlog' \in [seq : 0..MaxSeq, last : 0..MaxSeq]
        /\ rtlog'.last <= rtlog'.seq /\ rtlog'.seq <= tpc_seq /\ rtlog.seq <= rtlog'.seq
    <3>1. Larger(rtlog.seq, n) \in 0..MaxSeq /\ Larger(rtlog.last, n) \in 0..MaxSeq
      BY <2>1, Numbers, SMTT(30)
    <3> QED BY <1>5, <2>1, <3>1, Numbers, SMTT(30) DEF Larger
  <2>3. rmarked' \subseteq TSeq
    BY <1>0, <1>2, <1>5 DEF ReplicaTypes
  <2>4. CASE UNCHANGED <<rlast, rnum, rqueue, rtable, spoiled>> /\ rtpc' = q
    <3>0. \A m \in TSeq : rtpc'[m] # "none" => m <= rseq' /\ m <= rtlog'.seq
      <4>1. \A m \in TSeq : q[m] # "none" => m <= rseq /\ m <= rtlog'.seq
        <5>1. rtlog.seq <= rtlog'.seq /\ rtlog.seq \in Nat /\ rtlog'.seq \in Nat /\ TSeq \subseteq Nat
          BY <2>2, Numbers
        <5> QED BY <1>3, <5>1
      <4> QED BY <1>5, <2>4, <4>1
    <3>1. ReplicaTypes'
      BY <1>2, <1>3, <1>5, <2>2, <2>3, <2>4, <3>0 DEF ReplicaTypes
    <3>2. DiskTypes' /\ BoundTypes'
      BY <2>4 DEF TypeInv, DiskTypes, BoundTypes, ReadDecision
    <3> QED BY <3>1, <3>2
  <2>5. CASE /\ rlast + 1 \in TSeq /\ q[rlast + 1] \in Decisions /\ rlast' = rlast + 1
             /\ rtpc' = [m \in TSeq |-> IF m = rlast + 1 + 1 THEN "none" ELSE q[m]]
             /\ \/ UNCHANGED <<rnum, rqueue, rtable, spoiled>>
                \/ /\ rnum' = rnum + 1 /\ rtable' = Append(rtable, rlast + 1)
                   /\ rqueue' = Append(rqueue, [num |-> rnum + 1, seq |-> rlast + 1])
                   /\ spoiled' = spoiled \cup Overtaking
    <3>1. rlast + 1 <= rseq /\ rlast' \in 0..rseq
      BY <1>3, <2>5, Numbers, SMTT(30) DEF Decisions
    <3>2. /\ rtpc' \in [TSeq -> {"none", "PREPARE", "COMMIT", "ABORT"}]
          /\ \A m \in TSeq : rtpc'[m] # "none" => m <= rseq /\ m <= rtlog.seq
      BY <1>3, <2>5
    <3>a. \A m \in TSeq : rtpc'[m] # "none" => m <= rseq' /\ m <= rtlog'.seq
      <4>1. rtlog.seq <= rtlog'.seq /\ rtlog.seq \in Nat /\ rtlog'.seq \in Nat /\ TSeq \subseteq Nat
        BY <2>2, Numbers
      <4> QED BY <1>5, <3>2, <4>1
    <3>b. rseq' \in 0..tpc_seq' /\ rlast' \in 0..rseq'
      BY <1>2, <1>5, <3>1 DEF ReplicaTypes
    <3>3. ReplicaTypes'
      BY <1>2, <2>2, <2>3, <3>2, <3>a, <3>b DEF ReplicaTypes
    <3>4. [num |-> rnum + 1, seq |-> rlast + 1] \in Record
      BY <2>5, Numbers, SMTT(30) DEF Record
    <3>5. rqueue \in Seq(Record) /\ rtable \in Seq(TSeq) /\ rnum \in Nat /\ DiskTypes
      BY DEF TypeInv, DiskTypes
    <3>c. /\ Append(rqueue, [num |-> rnum + 1, seq |-> rlast + 1]) \in Seq(Record)
          /\ Append(rtable, rlast + 1) \in Seq(TSeq)
      BY <2>5, <3>4, <3>5, AppendFacts
    <3>6. rqueue' \in Seq(Record) /\ rtable' \in Seq(TSeq)
      BY <2>5, <3>5, <3>c
    <3>7. rnum' \in Nat /\ UNCHANGED <<rlog, rck, rsaved, crashes>>
      BY <2>5, <3>5 DEF ReadDecision
    <3>8. DiskTypes'
      BY <3>5, <3>6, <3>7 DEF DiskTypes
    <3>9. BoundTypes'
      BY <2>5, <3>7 DEF TypeInv, BoundTypes, Window, Overtaking
    <3> QED BY <3>3, <3>8, <3>9
  <2> QED BY <1>5, <2>4, <2>5 DEF ProcessQueue, Decisions
<1>6. ReplicaTypes' /\ DiskTypes' /\ BoundTypes'
  BY <1>1, <1>4, <1>5
<1>7. PrimaryTypes' /\ LogTypes' /\ RecTypes'
  BY DEF TypeInv, PrimaryTypes, LogTypes, RecTypes, ReadDecision, pvars, lvars, tvars, dvars
<1>8. WireTypes' /\ PlaceInv'
  <2>1. rck' = rck /\ FileCk' = FileCk
    BY DEF ReadDecision, FileCk, pvars, lvars, tvars, dvars
  <2>2. UNCHANGED <<tpc_seq, ck>> /\ to_r' = Tail(to_r) /\ to_r # <<>>
    BY DEF ReadDecision, Reads, pvars, lvars, tvars, dvars
  <2>3. to_p' \in Seq(ToPrimary)
    BY DEF ReadDecision, TypeInv, WireTypes, pvars, lvars, tvars, dvars
  <2> QED BY <1>m, <2>1, <2>2, <2>3, ReadTypes, Numbers
<1> QED BY <1>6, <1>7, <1>8 DEF TypeInv

LEMMA ReadCheckpointTypes == ASSUME TypeInv, ReadCheckpoint PROVE TypeInv'
<1>m. spoiled \subseteq spoiled'
  BY DEF ReadCheckpoint, Overtaking
<1>1. DiskTypes'
  <2>1. DiskTypes /\ <<>> \in Seq(Record) /\ rck \in Nat
    BY EmptyFacts, Numbers DEF TypeInv
  <2> QED BY <2>1 DEF DiskTypes, ReadCheckpoint
<1>2. BoundTypes'
  BY DEF TypeInv, BoundTypes, Window, Overtaking, ReadCheckpoint
<1>3. PrimaryTypes' /\ LogTypes' /\ ReplicaTypes' /\ RecTypes'
  BY DEF TypeInv, PrimaryTypes, LogTypes, ReplicaTypes, RecTypes, ReadCheckpoint, pvars, lvars, tvars, dvars
<1>4. WireTypes' /\ PlaceInv'
  <2>1. /\ rck' = rck + 1 /\ rck' \in Nat /\ FileCk' = FileCk
        /\ to_r[1].type = "CHECKPOINT"
    BY Numbers, SMTT(30) DEF FileCk, ReadCheckpoint, Reads
  <2>2. UNCHANGED <<tpc_seq, ck>> /\ to_r' = Tail(to_r) /\ to_r # <<>>
    BY DEF ReadCheckpoint, Reads, pvars, lvars, tvars, dvars
  <2>3. to_p' \in Seq(ToPrimary)
    BY DEF ReadCheckpoint, TypeInv, WireTypes, pvars, lvars, tvars, dvars
  <2> QED BY <1>m, <2>1, <2>2, <2>3, ReadTypes, Numbers
<1> QED BY <1>1, <1>2, <1>3, <1>4 DEF TypeInv

LEMMA ReplicaFlushTypes == ASSUME TypeInv, ReplicaFlush PROVE TypeInv'
<1>m. spoiled \subseteq spoiled'
  BY DEF ReplicaFlush
<1>1. DiskTypes'
  <2>1. rlog \o rqueue \in Seq(Record)
    BY JoinedFacts DEF TypeInv, DiskTypes
  <2> QED BY <2>1, EmptyFacts DEF TypeInv, DiskTypes, ReplicaFlush
<1>2. PrimaryTypes' /\ LogTypes' /\ ReplicaTypes' /\ RecTypes' /\ BoundTypes'
  BY DEF TypeInv, PrimaryTypes, LogTypes, ReplicaTypes, RecTypes, BoundTypes, ReplicaFlush, pvars, lvars, tvars, dvars
<1>3. WireTypes' /\ PlaceInv'
  <2>1. rck' = rck /\ FileCk' = FileCk
    BY DEF ReplicaFlush, FileCk, pvars, lvars, tvars, dvars
  <2>2. UNCHANGED <<to_r, tpc_seq, ck>> /\ to_p' \in Seq(ToPrimary)
    BY DEF ReplicaFlush, TypeInv, WireTypes, pvars, lvars, tvars, dvars
  <2> QED BY <1>m, <2>1, <2>2, QuietTypes, Numbers
<1> QED BY <1>1, <1>2, <1>3 DEF TypeInv

LEMMA ReplayBeginsTypes == ASSUME TypeInv, ReplayBegins PROVE TypeInv'
<1>m. spoiled \subseteq spoiled'
  BY DEF ReplayBegins
<1>1. /\ rec' = [rec EXCEPT !.place = "replay", !.same = (rec.file.ck = rck),
                          !.older = (rec.file.ck < rck),
                          !.top = IF rec.file.ck > rck THEN 0 ELSE rnum,
                          !.file = IF rec.file.ck < rck THEN [rec.file EXCEPT !.recs = <<>>]
                                   ELSE rec.file]
      /\ rec.place = "created" /\ RecTypes
  BY DEF ReplayBegins, TypeInv
<1>2. RecTypes'
  <2>. DEFINE a == (rec.file.ck = rck)
              o == (rec.file.ck < rck)
              t == IF rec.file.ck > rck THEN 0 ELSE rnum
              F == IF rec.file.ck < rck THEN [rec.file EXCEPT !.recs = <<>>] ELSE rec.file
  <2>1. <<>> \in Seq(Record)
    BY EmptyFacts
  <2>2. rec.file \in LogFile /\ [rec.file EXCEPT !.recs = <<>>] \in LogFile
    BY <1>1, <2>1 DEF RecTypes, LogFile
  <2>3. F \in LogFile /\ t \in Nat
    BY <2>2, Numbers
  <2>4. a \in BOOLEAN /\ o \in BOOLEAN
    OBVIOUS
  <2>5. rec' = [rec EXCEPT !.place = "replay", !.same = a, !.older = o, !.top = t, !.file = F]
    BY <1>1
  <2>. HIDE DEF a, o, t, F
  <2> QED BY <1>1, <2>3, <2>4, <2>5 DEF RecTypes
<1>a. rec'.place = "replay" /\ rec'.file.ck = rec.file.ck
  BY <1>1 DEF RecTypes, LogFile
<1>3. DiskTypes'
  BY EmptyFacts DEF TypeInv, DiskTypes, ReplayBegins
<1>4. BoundTypes'
  BY DEF TypeInv, BoundTypes, Window, ReplayBegins
<1>5. PrimaryTypes' /\ LogTypes' /\ ReplicaTypes'
  BY DEF TypeInv, PrimaryTypes, LogTypes, ReplicaTypes, ReplayBegins, pvars, lvars, tvars, dvars
<1>6. WireTypes' /\ PlaceInv'
  <2>1. rck' = rck /\ FileCk' = FileCk
    BY <1>1, <1>a DEF ReplayBegins, FileCk
  <2>2. UNCHANGED <<to_r, tpc_seq, ck>> /\ to_p' \in Seq(ToPrimary)
    BY DEF ReplayBegins, TypeInv, WireTypes, pvars, lvars, tvars, dvars
  <2> QED BY <1>m, <2>1, <2>2, QuietTypes, Numbers
<1> QED BY <1>2, <1>3, <1>4, <1>5, <1>6 DEF TypeInv

LEMMA ReplayTypes == ASSUME TypeInv, Replay PROVE TypeInv'
<1>m. spoiled \subseteq spoiled'
  BY DEF Replay
<1>. DEFINE x == Head(rec.file.recs)
<1>1. rec.file.recs \in Seq(Record) /\ rec.file.recs # <<>> /\ RecTypes
  BY Numbers DEF Replay, TypeInv
<1>2. Tail(rec.file.recs) \in Seq(Record) /\ x \in Record
  BY <1>1
<1>3. x.num \in Nat /\ x.seq \in TSeq
  BY <1>2 DEF Record
<1>4. \/ rec' = [rec EXCEPT !.file.recs = Tail(@)] /\ UNCHANGED <<rlog, rtable>>
      \/ /\ rlog' = Append(rlog, x) /\ rtable' = Append(rtable, x.seq)
         /\ rec' = [rec EXCEPT !.file.recs = Tail(@), !.top = Larger(@, x.num)]
  BY DEF Replay
<1>. HIDE DEF x
<1>5. /\ RecTypes' /\ rec'.place = rec.place /\ rec'.file.ck = rec.file.ck
  <2>1. CASE rec' = [rec EXCEPT !.file.recs = Tail(@)]
    BY <1>1, <1>2, <2>1 DEF RecTypes, LogFile
  <2>2. CASE rec' = [rec EXCEPT !.file.recs = Tail(@), !.top = Larger(@, x.num)]
    <3>1. Larger(rec.top, x.num) \in Nat
      BY <1>3, Numbers DEF Larger
    <3> QED BY <1>1, <1>2, <2>2, <3>1 DEF RecTypes, LogFile
  <2> QED BY <1>4, <2>1, <2>2
<1>6. DiskTypes'
  <2>1. DiskTypes /\ UNCHANGED <<rqueue, rnum, rck, rsaved>>
    BY DEF Replay, TypeInv
  <2>2. rlog' \in Seq(Record) /\ rtable' \in Seq(TSeq)
    <3>1. rlog \in Seq(Record) /\ rtable \in Seq(TSeq)
      BY <2>1 DEF DiskTypes
    <3>2. Append(rlog, x) \in Seq(Record) /\ Append(rtable, x.seq) \in Seq(TSeq)
      BY <1>2, <1>3, <3>1, AppendFacts
    <3> QED BY <1>4, <3>1, <3>2
  <2> QED BY <2>1, <2>2 DEF DiskTypes
<1>7. PrimaryTypes' /\ LogTypes' /\ ReplicaTypes' /\ BoundTypes'
  BY DEF TypeInv, PrimaryTypes, LogTypes, ReplicaTypes, BoundTypes, Replay, pvars, lvars, tvars, dvars
<1>8. WireTypes' /\ PlaceInv'
  <2>1. rck' = rck /\ FileCk' = FileCk
    BY <1>5 DEF Replay, FileCk, RecTypes
  <2>2. UNCHANGED <<to_r, tpc_seq, ck>> /\ to_p' \in Seq(ToPrimary)
    BY DEF Replay, TypeInv, WireTypes, pvars, lvars, tvars, dvars
  <2> QED BY <1>m, <2>1, <2>2, QuietTypes, Numbers
<1> QED BY <1>5, <1>6, <1>7, <1>8 DEF TypeInv

LEMMA ReplayEndsTypes == ASSUME TypeInv, ReplayEnds PROVE TypeInv'
<1>m. spoiled \subseteq spoiled'
  BY DEF ReplayEnds
<1>1. RecTypes'
  BY NoRecType DEF RecTypes, ReplayEnds
<1>2. DiskTypes'
  BY Numbers DEF TypeInv, DiskTypes, ReplayEnds, Counted
<1>3. PrimaryTypes' /\ LogTypes' /\ ReplicaTypes' /\ BoundTypes'
  BY DEF TypeInv, PrimaryTypes, LogTypes, ReplicaTypes, BoundTypes, ReplayEnds, pvars, lvars, tvars, dvars
<1>4. WireTypes' /\ PlaceInv'
  <2>1. FileCk = rec.file.ck /\ FileCk' = 1 /\ (rck' = rck \/ rck' = rec.file.ck) /\ rck' \in Nat
    BY NoRecType, Numbers DEF ReplayEnds, FileCk, Recovering
  <2>2. UNCHANGED <<to_r, tpc_seq, ck>> /\ to_p' \in Seq(ToPrimary)
    BY DEF ReplayEnds, TypeInv, WireTypes, pvars, lvars, tvars, dvars
  <2> QED BY <1>m, <2>1, <2>2, QuietTypes, Numbers
<1> QED BY <1>1, <1>2, <1>3, <1>4 DEF TypeInv

LEMMA OwnCheckpointTypes == ASSUME TypeInv, OwnCheckpoint PROVE TypeInv'
<1>m. spoiled \subseteq spoiled' /\ "own" \in spoiled'
  BY DEF OwnCheckpoint
<1>1. RecTypes' /\ PrimaryTypes' /\ LogTypes' /\ ReplicaTypes' /\ BoundTypes'
  BY DEF TypeInv, PrimaryTypes, LogTypes, ReplicaTypes, BoundTypes, RecTypes, OwnCheckpoint, Window,
         pvars, lvars, tvars
<1>2. DiskTypes'
  <2>1. DiskTypes /\ <<>> \in Seq(Record) /\ rck \in Nat
    BY EmptyFacts, Numbers DEF TypeInv
  <2> QED BY <2>1 DEF DiskTypes, OwnCheckpoint
<1>3. WireTypes'
  BY DEF TypeInv, WireTypes, OwnCheckpoint, pvars
<1> QED BY <1>m, <1>1, <1>2, <1>3 DEF TypeInv, PlaceInv

LEMMA CrashTypes == ASSUME TypeInv, Crash PROVE TypeInv'
<1>m. spoiled \subseteq spoiled'
  BY DEF Crash
<1>1. RecTypes' /\ BoundTypes'
  BY NoRecType DEF RecTypes, Crash, BoundTypes, TypeInv
<1>2. DiskTypes'
  BY EmptyFacts DEF TypeInv, DiskTypes, Crash
<1>3. ReplicaTypes'
  BY DEF TypeInv, ReplicaTypes, Crash, pvars
<1>4. PrimaryTypes' /\ LogTypes'
  BY DEF TypeInv, PrimaryTypes, LogTypes, Crash, pvars, lvars, tvars, dvars
<1>5. WireTypes' /\ PlaceInv'
  <2>1. rck' = rck /\ FileCk' = 1
    BY NoRecType DEF Crash, FileCk
  <2>2. UNCHANGED <<to_r, tpc_seq, ck>> /\ to_p' \in Seq(ToPrimary)
    BY DEF Crash, TypeInv, WireTypes, pvars, lvars, tvars, dvars
  <2> QED BY <1>m, <2>1, <2>2, QuietTypes, Numbers
<1> QED BY <1>1, <1>2, <1>3, <1>4, <1>5 DEF TypeInv

LEMMA RestartTypes == ASSUME TypeInv, Restart PROVE TypeInv'
<1>m. spoiled \subseteq spoiled'
  BY DEF Restart
<1>1. DiskTypes'
  <2>1. rlog \in Seq(Record) /\ rsaved \in Seq(TSeq) /\ DiskTypes
    BY DEF TypeInv, DiskTypes
  <2>2. [i \in DOMAIN rlog |-> rlog[i].seq] \in Seq(TSeq)
    <3>1. \A i \in DOMAIN rlog : rlog[i].seq \in TSeq
      <4>1. \A i \in DOMAIN rlog : rlog[i] \in Record
        BY <2>1
      <4> QED BY <4>1 DEF Record
    <3>2. DOMAIN rlog = 1..Len(rlog) /\ Len(rlog) \in Nat
      BY <2>1
    <3> QED BY <3>1, <3>2
  <2>3. rsaved \o [i \in DOMAIN rlog |-> rlog[i].seq] \in Seq(TSeq)
    BY <2>1, <2>2, JoinedFacts
  <2>4. Len(rlog) \in Nat
    BY <2>1
  <2> QED BY <2>1, <2>3, <2>4 DEF DiskTypes, Restart
<1>2. ReplicaTypes'
  <2>1. /\ ReplicaTypes /\ rup' = TRUE /\ rseq' = rtlog.seq /\ rlast' = rtlog.last
        /\ UNCHANGED <<tpc_seq, rtpc, rmarked, rtlog>>
    BY DEF TypeInv, Restart, pvars
  <2>2. rseq' \in 0..tpc_seq /\ rlast' \in 0..rseq'
    BY <2>1, Numbers DEF ReplicaTypes
  <2>3. \A n \in TSeq : rtpc[n] # "none" => n <= rseq' /\ n <= rtlog.seq
    BY <2>1 DEF ReplicaTypes
  <2> QED BY <2>1, <2>2, <2>3 DEF ReplicaTypes
<1>3. PrimaryTypes' /\ LogTypes' /\ RecTypes' /\ BoundTypes'
  BY DEF TypeInv, PrimaryTypes, LogTypes, RecTypes, BoundTypes, Restart, pvars, lvars, tvars, dvars
<1>4. WireTypes' /\ PlaceInv'
  <2>1. rck' = rck /\ FileCk' = FileCk
    BY DEF Restart, FileCk, pvars, lvars, tvars, dvars
  <2>2. UNCHANGED <<to_r, tpc_seq, ck>> /\ to_p' \in Seq(ToPrimary)
    BY DEF Restart, TypeInv, WireTypes, pvars, lvars, tvars, dvars
  <2> QED BY <1>m, <2>1, <2>2, QuietTypes, Numbers
<1> QED BY <1>1, <1>2, <1>3, <1>4 DEF TypeInv

(* The steps, one by one.                                                  *)
LEMMA Steps ==
    ASSUME Next
    PROVE  \/ Start \/ Send \/ Apply \/ ReadFile \/ AnswerLog \/ AnswerSeq \/ ReadVote \/ Drop
           \/ Flush \/ Checkpoint \/ CheckpointEnds \/ OwnCheckpoint \/ Join \/ ReadLog \/ ReadSeq \/ ReadPrepare \/ ReadCheckpoint
           \/ ReplicaFlush \/ ReplayBegins \/ Replay \/ ReplayEnds \/ Crash \/ Restart
           \/ \E d \in Decisions : Decide(d) \/ ReadDecision(d)
BY DEF Next, PrimaryStep, ReplicaStep, RecoveryStep, Decisions

LEMMA NextTypes == TypeInv /\ [Next]_vars => TypeInv'
<1>. SUFFICES ASSUME TypeInv, [Next]_vars PROVE TypeInv'
  OBVIOUS
<1>1. CASE UNCHANGED vars
  <2>1. /\ PrimaryTypes' /\ LogTypes' /\ ReplicaTypes' /\ DiskTypes' /\ RecTypes' /\ BoundTypes'
        /\ WireTypes'
    BY <1>1 DEF TypeInv, PrimaryTypes, LogTypes, ReplicaTypes, DiskTypes, RecTypes, BoundTypes,
                WireTypes, vars, pvars, lvars, tvars, dvars
  <2>2. PlaceInv'
    BY <1>1 DEF TypeInv, PlaceInv, FileCk, vars, lvars, dvars
  <2> QED BY <2>1, <2>2 DEF TypeInv
<1>2. CASE Next
  BY <1>2, Steps, StartTypes, DecideTypes, SendTypes, ApplyTypes, FlushTypes, CheckpointTypes,
     CheckpointEndsTypes, OwnCheckpointTypes, ReadFileTypes, JoinTypes, DropTypes, AnswerLogTypes, AnswerSeqTypes, ReadVoteTypes, ReadLogTypes,
     ReadSeqTypes, ReadPrepareTypes, ReadDecisionTypes, ReadCheckpointTypes, ReplicaFlushTypes,
     ReplayBeginsTypes, ReplayTypes, ReplayEndsTypes, CrashTypes, RestartTypes
<1> QED BY <1>1, <1>2

(* The variables keep their types: among them, that a replica that takes   *)
(* no checkpoint of its own never counts more than the primary has taken,  *)
(* although it counts messages (backend/src/threads.cpp, message 8) and    *)
(* takes the number of a log it replays, and that its transaction numbers  *)
(* stay within those handed out.                                           *)
THEOREM CatchUpTypes == Spec => []TypeOK
<1>1. Spec => []TypeInv
  BY InitTypes, NextTypes, PTL DEF Spec
<1> QED BY <1>1, TypesOK, PTL

-----------------------------------------------------------------------------
(* What is said of a decision is true.                                     *)
Top == IF stage = "sent" THEN tpc_seq ELSE last_seq

OutcomeInv ==
    /\ \A n \in TSeq : /\ n <= last_seq => outcome[n] \in Decisions
                       /\ n > tpc_seq => outcome[n] = "none"
    /\ stage = "voting" => outcome[tpc_seq] = "none"

WireTruth ==
    /\ \A i \in DOMAIN to_r : to_r[i].type \in Decisions =>
          to_r[i].seq <= Top /\ outcome[to_r[i].seq] = to_r[i].type
    /\ \A i \in DOMAIN to_r : to_r[i].type = "TSEQNUMRETURN" => to_r[i].last <= last_seq

MemoryTruth ==
    /\ \A n \in TSeq : rtpc[n] \in Decisions => n <= Top /\ outcome[n] = rtpc[n]
    /\ rlast <= Top /\ rtlog.last <= Top /\ \A n \in rmarked : n <= Top

TruthInv == OutcomeInv /\ WireTruth /\ MemoryTruth

LEMMA StageFacts ==
    ASSUME TypeInv
    PROVE  /\ stage = "idle" => last_seq = tpc_seq
           /\ stage # "idle" => last_seq + 1 = tpc_seq /\ tpc_seq \in TSeq
           /\ last_seq <= Top /\ Top <= tpc_seq /\ Top \in 0..MaxSeq /\ Top \in Nat
           /\ stage # "sent" => Top = last_seq
           /\ stage = "sent" => Top = tpc_seq
<1>1. /\ stage = "idle" <=> last_seq = tpc_seq
      /\ stage \in {"idle", "voting", "decided", "sent"}
  BY DEF TypeInv, PrimaryTypes
<1>2. stage # "idle" => last_seq + 1 = tpc_seq /\ tpc_seq \in TSeq
  BY <1>1, Numbers
<1> QED BY <1>1, <1>2, Numbers DEF Top

(* Messages that were on their way, and the new one.                       *)
LEMMA Sending ==
    ASSUME TypeInv, NEW m \in ToReplica, to_r' = Told(m) \/ to_r' = Append(to_r, m)
    PROVE  /\ DOMAIN to_r = 1..Len(to_r) /\ Len(to_r) \in Nat
           /\ \A i \in DOMAIN to_r : i \in DOMAIN to_r' /\ to_r'[i] = to_r[i]
           /\ \A i \in DOMAIN to_r' :
                 \/ i \in DOMAIN to_r /\ to_r'[i] = to_r[i]
                 \/ i = Len(to_r) + 1 /\ to_r'[i] = m
           /\ to_r' = Append(to_r, m) => Len(to_r) + 1 \in DOMAIN to_r' /\ to_r'[Len(to_r) + 1] = m
                                         /\ DOMAIN to_r' = 1..(Len(to_r) + 1)
                                         /\ Len(to_r') = Len(to_r) + 1
<1>1. to_r \in Seq(ToReplica)
  BY DEF TypeInv, WireTypes
<1>2. CASE to_r' = to_r
  <2>1. to_r' # Append(to_r, m)
    BY <1>1, <1>2, AppendFacts
  <2> QED BY <1>1, <1>2, <2>1
<1>3. CASE to_r' = Append(to_r, m)
  BY <1>1, <1>3, AppendFacts
<1> QED BY <1>2, <1>3 DEF Told

LEMMA Reading ==
    ASSUME TypeInv, to_r # <<>>, to_r' = Tail(to_r)
    PROVE  /\ DOMAIN to_r = 1..Len(to_r) /\ Len(to_r) \in Nat /\ 1 \in DOMAIN to_r
           /\ DOMAIN to_r' = 1..(Len(to_r) - 1) /\ Len(to_r') = Len(to_r) - 1
           /\ \A i \in DOMAIN to_r' : i \in Nat /\ i + 1 \in DOMAIN to_r /\ to_r'[i] = to_r[i + 1]
           /\ \A i \in DOMAIN to_r : \/ i = 1
                                     \/ i - 1 \in DOMAIN to_r' /\ to_r'[i - 1] = to_r[i]
<1>1. to_r \in Seq(ToReplica)
  BY DEF TypeInv, WireTypes
<1>2. /\ DOMAIN to_r = 1..Len(to_r) /\ Len(to_r) \in Nat \ {0} /\ 1 \in DOMAIN to_r
      /\ DOMAIN to_r' = 1..(Len(to_r) - 1) /\ Len(to_r') = Len(to_r) - 1
      /\ \A i \in DOMAIN to_r' : i + 1 \in DOMAIN to_r /\ to_r'[i] = to_r[i + 1]
  BY <1>1, TailFacts
<1>3. ASSUME NEW i \in DOMAIN to_r, i # 1
      PROVE  i - 1 \in DOMAIN to_r' /\ to_r'[i - 1] = to_r[i]
  <2>1. i - 1 \in DOMAIN to_r' /\ (i - 1) + 1 = i
    BY <1>2, <1>3
  <2> QED BY <1>2, <2>1
<1> QED BY <1>2, <1>3

(* How a step changes what is on its way.                                  *)
LEMMA WireMoves ==
    ASSUME TypeInv, [Next]_vars
    PROVE  \/ to_r' = to_r
           \/ to_r' = <<>> /\ (Join \/ Drop)
           \/ /\ to_r # <<>> /\ to_r' = Tail(to_r) /\ rup
              /\ \/ ReadLog /\ to_r[1].type = "LOGFILE"
                 \/ ReadSeq /\ to_r[1].type = "TSEQNUMRETURN"
                 \/ ReadPrepare /\ to_r[1].type = "PREPARE"
                 \/ ReadCheckpoint /\ to_r[1].type = "CHECKPOINT"
                 \/ \E d \in Decisions : ReadDecision(d) /\ to_r[1].type = d
           \/ \E m \in ToReplica :
                 /\ to_r' = Append(to_r, m) /\ member
                 /\ \/ Start /\ m = [type |-> "PREPARE", seq |-> tpc_seq + 1]
                    \/ Send /\ m = [type |-> outcome[tpc_seq], seq |-> tpc_seq]
                    \/ Checkpoint /\ m = [type |-> "CHECKPOINT"]
                    \/ AnswerLog /\ m = [type |-> "LOGFILE", file |-> answer[1]]
                    \/ AnswerSeq /\ m = [type |-> "TSEQNUMRETURN", seq |-> tpc_seq, last |-> last_seq]
<1>0. TypeInv'
  BY NextTypes
<1>1. \A m : to_r' = Append(to_r, m) => m \in ToReplica
  <2>. SUFFICES ASSUME NEW m, to_r' = Append(to_r, m) PROVE m \in ToReplica
    OBVIOUS
  <2>1. to_r \in Seq(ToReplica) /\ to_r' \in Seq(ToReplica)
    BY <1>0 DEF TypeInv, WireTypes
  <2>2. Len(to_r) + 1 \in DOMAIN to_r' /\ to_r'[Len(to_r) + 1] = m
    BY <2>1
  <2> QED BY <2>1, <2>2
<1>2. CASE UNCHANGED vars
  BY <1>2 DEF vars
<1>3. CASE Start
  BY <1>1, <1>3 DEF Start, Told
<1>4. CASE Send
  BY <1>1, <1>4 DEF Send, Told
<1>5. CASE Checkpoint
  BY <1>1, <1>5 DEF Checkpoint, Told
<1>6. CASE AnswerLog
  BY <1>1, <1>6 DEF AnswerLog, Hears, Asks
<1>7. CASE AnswerSeq
  BY <1>1, <1>7 DEF AnswerSeq, Hears, Asks
<1>8. CASE Join \/ Drop
  BY <1>8 DEF Join, Drop
<1>9. CASE ReadLog \/ ReadSeq \/ ReadPrepare \/ ReadCheckpoint \/ \E d \in Decisions : ReadDecision(d)
  BY <1>9 DEF ReadLog, ReadSeq, ReadPrepare, ReadCheckpoint, ReadDecision, Reads
<1>10. CASE \/ Apply \/ ReadVote \/ Flush \/ ReadFile \/ CheckpointEnds \/ OwnCheckpoint \/ ReplicaFlush
            \/ ReplayBegins \/ Replay \/ ReplayEnds \/ Crash \/ Restart \/ \E d \in Decisions : Decide(d)
  BY <1>10 DEF Apply, ReadVote, Flush, ReadFile, CheckpointEnds, OwnCheckpoint, ReplicaFlush,
               ReplayBegins, Replay, ReplayEnds, Crash, Restart, Decide
<1> QED BY <1>2, <1>3, <1>4, <1>5, <1>6, <1>7, <1>8, <1>9, <1>10, Steps

(* What has been decided up to Top stays, and Top only grows.              *)
LEMMA TopMoves ==
    ASSUME TypeInv, [Next]_vars
    PROVE  /\ Top <= Top' /\ last_seq <= last_seq' /\ Top' \in Nat
           /\ \A n \in TSeq : n <= Top => outcome'[n] = outcome[n]
           /\ (Top' # Top \/ (stage' = "sent" /\ stage # "sent")) => Send
           /\ Send => Top' = tpc_seq /\ Top = last_seq /\ outcome' = outcome
<1>0. TypeInv'
  BY NextTypes
<1>1. Top' \in Nat /\ Top \in Nat /\ last_seq \in Nat /\ tpc_seq \in Nat /\ TSeq \subseteq Nat
  <2>1. PrimaryTypes' /\ MaxSeq \in Nat
    BY <1>0, Numbers DEF TypeInv
  <2>2. tpc_seq' \in Nat /\ last_seq' \in Nat
    BY <2>1 DEF PrimaryTypes
  <2> QED BY <2>2, StageFacts, Numbers DEF Top
<1>2. CASE Start
  BY <1>1, <1>2, StageFacts DEF Start, Top, Send
<1>3. CASE \E d \in Decisions : Decide(d)
  <2>1. PICK d \in Decisions : Decide(d)
    BY <1>3
  <2>2. /\ stage = "voting" /\ stage' = "decided" /\ UNCHANGED <<tpc_seq, last_seq>>
        /\ outcome' = [outcome EXCEPT ![tpc_seq] = d]
        /\ last_seq + 1 = tpc_seq /\ tpc_seq \in TSeq
    BY <2>1, StageFacts DEF Decide
  <2>3. outcome \in [TSeq -> {"none", "COMMIT", "ABORT"}]
    BY DEF TypeInv, PrimaryTypes
  <2>4. Top = last_seq /\ Top' = last_seq
    BY <2>2 DEF Top
  <2>5. \A n \in TSeq : n <= Top => outcome'[n] = outcome[n]
    BY <1>1, <2>2, <2>3, <2>4
  <2> QED BY <1>1, <2>2, <2>4, <2>5 DEF Send
<1>4. CASE Send
  BY <1>1, <1>4, StageFacts DEF Send, Top
<1>5. CASE Apply
  <2>1. stage = "sent" /\ stage' = "idle" /\ last_seq' = tpc_seq /\ UNCHANGED <<tpc_seq, outcome>>
    BY <1>5 DEF Apply
  <2>2. Top = tpc_seq /\ Top' = tpc_seq /\ last_seq <= tpc_seq
    BY <2>1, Numbers DEF Top
  <2> QED BY <1>1, <2>1, <2>2 DEF Send
<1>6. CASE UNCHANGED <<tpc_seq, last_seq, stage, outcome>>
  BY <1>1, <1>6 DEF Top, Send
<1>7. CASE UNCHANGED vars
  BY <1>6, <1>7 DEF vars, pvars
<1>8. CASE AnswerLog \/ AnswerSeq \/ ReadVote \/ Drop \/ ReadFile \/ CheckpointEnds \/ OwnCheckpoint \/ Flush \/ Checkpoint \/ Join \/ ReadLog
  BY <1>6, <1>8 DEF AnswerLog, AnswerSeq, ReadVote, Drop, ReadFile, CheckpointEnds, OwnCheckpoint, Flush, Checkpoint, Join, ReadLog, pvars
<1>9. CASE \/ ReadSeq \/ ReadPrepare \/ ReadCheckpoint \/ ReplicaFlush \/ ReplayBegins \/ Replay
           \/ ReplayEnds \/ Crash \/ Restart \/ \E d \in Decisions : ReadDecision(d)
  BY <1>6, <1>9 DEF ReadSeq, ReadPrepare, ReadCheckpoint, ReplicaFlush, ReplayBegins, Replay,
                    ReplayEnds, Crash, Restart, ReadDecision, pvars
<1> QED BY <1>2, <1>3, <1>4, <1>5, <1>7, <1>8, <1>9, Steps

LEMMA InitTruth == Init => TruthInv
BY CatchUpAssumption, EmptyFacts DEF Init, TruthInv, OutcomeInv, WireTruth, MemoryTruth, Top, TSeq, Decisions

LEMMA NextOutcome ==
    ASSUME TypeInv, OutcomeInv, [Next]_vars
    PROVE  OutcomeInv'
<1>1. CASE Start
  <2>1. /\ tpc_seq' = tpc_seq + 1 /\ stage' = "voting" /\ UNCHANGED <<last_seq, outcome>>
        /\ tpc_seq \in Nat /\ tpc_seq + 1 \in TSeq /\ TSeq \subseteq Nat
    BY <1>1, Numbers, SMTT(30) DEF Start
  <2> QED BY <2>1 DEF OutcomeInv
<1>2. CASE \E d \in Decisions : Decide(d)
  <2>1. PICK d \in Decisions : Decide(d)
    BY <1>2
  <2>2. /\ stage' = "decided" /\ UNCHANGED <<tpc_seq, last_seq>>
        /\ outcome' = [outcome EXCEPT ![tpc_seq] = d]
        /\ last_seq + 1 = tpc_seq /\ tpc_seq \in TSeq /\ TSeq \subseteq Nat /\ last_seq \in Nat
    BY <2>1, StageFacts, Numbers DEF Decide
  <2>3. outcome \in [TSeq -> {"none", "COMMIT", "ABORT"}]
    BY DEF TypeInv, PrimaryTypes
  <2> QED BY <2>2, <2>3 DEF OutcomeInv
<1>3. CASE Apply
  <2>1. /\ stage' = "idle" /\ last_seq' = tpc_seq /\ UNCHANGED <<tpc_seq, outcome>>
        /\ stage = "sent" /\ last_seq + 1 = tpc_seq /\ tpc_seq \in TSeq /\ TSeq \subseteq Nat
        /\ last_seq \in Nat
    BY <1>3, StageFacts, Numbers DEF Apply
  <2>2. outcome[tpc_seq] \in Decisions
    BY <2>1 DEF TypeInv, PrimaryTypes
  <2> QED BY <2>1, <2>2 DEF OutcomeInv
<1>4. CASE Send
  BY <1>4 DEF Send, OutcomeInv
<1>5. CASE UNCHANGED <<tpc_seq, last_seq, stage, outcome>>
  BY <1>5 DEF OutcomeInv
<1>6. CASE UNCHANGED vars
  BY <1>5, <1>6 DEF vars, pvars
<1>8. CASE AnswerLog \/ AnswerSeq \/ ReadVote \/ Drop \/ ReadFile \/ CheckpointEnds \/ OwnCheckpoint \/ Flush \/ Checkpoint \/ Join \/ ReadLog
  BY <1>5, <1>8 DEF AnswerLog, AnswerSeq, ReadVote, Drop, ReadFile, CheckpointEnds, OwnCheckpoint, Flush, Checkpoint, Join, ReadLog, pvars
<1>9. CASE \/ ReadSeq \/ ReadPrepare \/ ReadCheckpoint \/ ReplicaFlush \/ ReplayBegins \/ Replay
           \/ ReplayEnds \/ Crash \/ Restart \/ \E d \in Decisions : ReadDecision(d)
  BY <1>5, <1>9 DEF ReadSeq, ReadPrepare, ReadCheckpoint, ReplicaFlush, ReplayBegins, Replay,
                    ReplayEnds, Crash, Restart, ReadDecision, pvars
<1> QED BY <1>1, <1>2, <1>3, <1>4, <1>6, <1>8, <1>9, Steps

LEMMA NextWireTruth ==
    ASSUME TypeInv, OutcomeInv, WireTruth, [Next]_vars
    PROVE  WireTruth'
<1>. DEFINE True(m, top, out, last) ==
              /\ m.type \in Decisions => m.seq <= top /\ out[m.seq] = m.type
              /\ m.type = "TSEQNUMRETURN" => m.last <= last
<1>1. ASSUME NEW i \in DOMAIN to_r
      PROVE  True(to_r[i], Top', outcome', last_seq')
  <2>1. /\ to_r[i].type \in Decisions => /\ to_r[i].seq \in TSeq /\ to_r[i].seq <= Top
                                         /\ outcome[to_r[i].seq] = to_r[i].type
        /\ to_r[i].type = "TSEQNUMRETURN" => to_r[i].last \in Nat /\ to_r[i].last <= last_seq
    <3>1. to_r[i] \in ToReplica
      BY DEF TypeInv, WireTypes
    <3> QED BY <3>1, MessageFields, Numbers DEF WireTruth, Asked
  <2>2. Top \in Nat /\ Top' \in Nat /\ Top <= Top' /\ last_seq <= last_seq' /\ last_seq \in Nat
        /\ last_seq' \in Nat /\ TSeq \subseteq Nat
    <3>1. last_seq' \in Nat
      BY NextTypes, Numbers DEF TypeInv, PrimaryTypes
    <3> QED BY <3>1, TopMoves, StageFacts, Numbers
  <2>3. \A n \in TSeq : n <= Top => outcome'[n] = outcome[n]
    BY TopMoves
  <2>4. to_r[i].type \in Decisions => /\ to_r[i].seq <= Top'
                                     /\ outcome'[to_r[i].seq] = to_r[i].type
    <3>0. to_r[i].type \in Decisions => to_r[i].seq \in Nat
      BY <2>1, <2>2
    <3>1. to_r[i].type \in Decisions => to_r[i].seq <= Top'
      BY <2>1, <2>2, <3>0
    <3> QED BY <2>1, <2>3, <3>1
  <2>5. to_r[i].type = "TSEQNUMRETURN" => to_r[i].last <= last_seq'
    BY <2>1, <2>2
  <2> QED BY <2>4, <2>5
<1>2. ASSUME NEW m \in ToReplica, to_r' = Append(to_r, m),
             \/ Start /\ m = [type |-> "PREPARE", seq |-> tpc_seq + 1]
             \/ Send /\ m = [type |-> outcome[tpc_seq], seq |-> tpc_seq]
             \/ Checkpoint /\ m = [type |-> "CHECKPOINT"]
             \/ AnswerLog /\ m = [type |-> "LOGFILE", file |-> answer[1]]
             \/ AnswerSeq /\ m = [type |-> "TSEQNUMRETURN", seq |-> tpc_seq, last |-> last_seq]
      PROVE  True(m, Top', outcome', last_seq')
  <2>1. CASE Send /\ m = [type |-> outcome[tpc_seq], seq |-> tpc_seq]
    <3>1. Top' = tpc_seq /\ outcome' = outcome /\ tpc_seq \in Nat
      BY <2>1, TopMoves, Numbers
    <3>2. outcome[tpc_seq] \in Decisions
      BY <2>1 DEF Send, TypeInv, PrimaryTypes
    <3> QED BY <2>1, <3>1, <3>2 DEF Decisions
  <2>2. CASE AnswerSeq /\ m = [type |-> "TSEQNUMRETURN", seq |-> tpc_seq, last |-> last_seq]
    BY <2>2, Numbers DEF AnswerSeq, pvars, Decisions
  <2> QED BY <1>2, <2>1, <2>2 DEF Decisions
<1>. HIDE DEF True
<1>3. \A i \in DOMAIN to_r' : True(to_r'[i], Top', outcome', last_seq')
  <2>1. CASE to_r' = to_r
    BY <1>1, <2>1
  <2>2. CASE to_r' = <<>>
    BY <2>2, EmptyFacts
  <2>3. CASE to_r # <<>> /\ to_r' = Tail(to_r)
    BY <1>1, <2>3, Reading
  <2>4. CASE \E m \in ToReplica :
                 /\ to_r' = Append(to_r, m) /\ member
                 /\ \/ Start /\ m = [type |-> "PREPARE", seq |-> tpc_seq + 1]
                    \/ Send /\ m = [type |-> outcome[tpc_seq], seq |-> tpc_seq]
                    \/ Checkpoint /\ m = [type |-> "CHECKPOINT"]
                    \/ AnswerLog /\ m = [type |-> "LOGFILE", file |-> answer[1]]
                    \/ AnswerSeq /\ m = [type |-> "TSEQNUMRETURN", seq |-> tpc_seq, last |-> last_seq]
    BY <1>1, <1>2, <2>4, Sending
  <2> QED BY <2>1, <2>2, <2>3, <2>4, WireMoves
<1> QED BY <1>3 DEF WireTruth, True

(* A decision, what becomes of it: it is not acted upon, only noted, or    *)
(* the transaction is applied.  q is tpc_queue with the decision in it.    *)
Decided(d, n, q) ==
    /\ n \in TSeq /\ \A m \in TSeq : m # n => q[m] = rtpc[m]
    /\ q[n] = IF rtpc[n] = "none" THEN "none" ELSE d
    /\ \/ /\ n <= rlast \/ rtpc[n] \in Decisions \/ n \in rmarked
          /\ UNCHANGED <<tvars, rtable, rnum, rqueue, spoiled>>
       \/ /\ ~(n <= rlast \/ rtpc[n] \in Decisions \/ n \in rmarked)
          /\ rmarked' = rmarked \cup {n} /\ rseq' = rseq
          /\ rtlog' = [seq |-> Larger(rtlog.seq, n), last |-> Larger(rtlog.last, n)]
          /\ \/ /\ ~(rlast + 1 \in TSeq /\ q[rlast + 1] \in Decisions)
                /\ rtpc' = q /\ UNCHANGED <<rlast, rnum, rqueue, rtable, spoiled>>
             \/ /\ rlast + 1 \in TSeq /\ q[rlast + 1] \in Decisions
                /\ rlast' = rlast + 1
                /\ rtpc' = [m \in TSeq |-> IF m = rlast + 2 THEN "none" ELSE q[m]]
                /\ \/ /\ q[rlast + 1] = "ABORT"
                      /\ UNCHANGED <<rnum, rqueue, rtable, spoiled>>
                   \/ /\ q[rlast + 1] = "COMMIT" /\ rnum' = rnum + 1
                      /\ rtable' = Append(rtable, rlast + 1)
                      /\ rqueue' = Append(rqueue, [num |-> rnum + 1, seq |-> rlast + 1])
                      /\ spoiled' = spoiled \cup Overtaking

LEMMA DecisionMoves ==
    ASSUME TypeInv, NEW d \in Decisions, ReadDecision(d), NEW n, n = to_r[1].seq
    PROVE  \E q \in [TSeq -> {"none", "PREPARE", "COMMIT", "ABORT"}] : Decided(d, n, q)
<1>. DEFINE q == [rtpc EXCEPT ![n] = IF rtpc[n] = "none" THEN "none" ELSE d]
<1>1. n \in TSeq /\ rtpc \in [TSeq -> {"none", "PREPARE", "COMMIT", "ABORT"}] /\ rlast \in Nat
  BY FirstMessage, Numbers DEF TypeInv, ReplicaTypes, ReadDecision, Asked
<1>2. /\ q \in [TSeq -> {"none", "PREPARE", "COMMIT", "ABORT"}]
      /\ \A m \in TSeq : m # n => q[m] = rtpc[m]
      /\ q[n] = IF rtpc[n] = "none" THEN "none" ELSE d
  BY <1>1 DEF Decisions
<1>3. \/ /\ n <= rlast \/ rtpc[n] \in Decisions \/ n \in rmarked
         /\ UNCHANGED <<tvars, rtable, rnum, rqueue, spoiled>>
      \/ /\ ~(n <= rlast \/ rtpc[n] \in Decisions \/ n \in rmarked)
         /\ rmarked' = rmarked \cup {n} /\ rseq' = rseq
         /\ rtlog' = [seq |-> Larger(rtlog.seq, n), last |-> Larger(rtlog.last, n)]
         /\ ProcessQueue(q)
  BY DecisionCases
<1>. HIDE DEF q
<1>4. rlast + 1 + 1 = rlast + 2
  BY <1>1
<1>5. ASSUME ProcessQueue(q)
      PROVE  \/ /\ ~(rlast + 1 \in TSeq /\ q[rlast + 1] \in Decisions)
                /\ rtpc' = q /\ UNCHANGED <<rlast, rnum, rqueue, rtable, spoiled>>
             \/ /\ rlast + 1 \in TSeq /\ q[rlast + 1] \in Decisions
                /\ rlast' = rlast + 1
                /\ rtpc' = [m \in TSeq |-> IF m = rlast + 2 THEN "none" ELSE q[m]]
                /\ \/ /\ q[rlast + 1] = "ABORT"
                      /\ UNCHANGED <<rnum, rqueue, rtable, spoiled>>
                   \/ /\ q[rlast + 1] = "COMMIT" /\ rnum' = rnum + 1
                      /\ rtable' = Append(rtable, rlast + 1)
                      /\ rqueue' = Append(rqueue, [num |-> rnum + 1, seq |-> rlast + 1])
                      /\ spoiled' = spoiled \cup Overtaking
  <2>1. CASE rlast + 1 \in TSeq /\ q[rlast + 1] \in {"COMMIT", "ABORT"}
    <3>1. /\ rlast' = rlast + 1
          /\ rtpc' = [m \in TSeq |-> IF m = rlast + 2 THEN "none" ELSE q[m]]
      BY <1>4, <1>5, <2>1 DEF ProcessQueue
    <3>2. CASE q[rlast + 1] = "COMMIT"
      BY <1>5, <2>1, <3>1, <3>2 DEF ProcessQueue, Decisions
    <3>3. CASE q[rlast + 1] = "ABORT"
      BY <1>5, <2>1, <3>1, <3>3 DEF ProcessQueue, Decisions
    <3> QED BY <2>1, <3>2, <3>3
  <2>2. CASE ~(rlast + 1 \in TSeq /\ q[rlast + 1] \in {"COMMIT", "ABORT"})
    BY <1>5, <2>2 DEF ProcessQueue, Decisions
  <2> QED BY <2>1, <2>2
<1>6. \/ /\ n <= rlast \/ rtpc[n] \in Decisions \/ n \in rmarked
         /\ UNCHANGED <<tvars, rtable, rnum, rqueue, spoiled>>
      \/ /\ ~(n <= rlast \/ rtpc[n] \in Decisions \/ n \in rmarked)
         /\ rmarked' = rmarked \cup {n} /\ rseq' = rseq
         /\ rtlog' = [seq |-> Larger(rtlog.seq, n), last |-> Larger(rtlog.last, n)]
         /\ \/ /\ ~(rlast + 1 \in TSeq /\ q[rlast + 1] \in Decisions)
               /\ rtpc' = q /\ UNCHANGED <<rlast, rnum, rqueue, rtable, spoiled>>
            \/ /\ rlast + 1 \in TSeq /\ q[rlast + 1] \in Decisions
               /\ rlast' = rlast + 1
               /\ rtpc' = [m \in TSeq |-> IF m = rlast + 2 THEN "none" ELSE q[m]]
               /\ \/ /\ q[rlast + 1] = "ABORT"
                     /\ UNCHANGED <<rnum, rqueue, rtable, spoiled>>
                  \/ /\ q[rlast + 1] = "COMMIT" /\ rnum' = rnum + 1
                     /\ rtable' = Append(rtable, rlast + 1)
                     /\ rqueue' = Append(rqueue, [num |-> rnum + 1, seq |-> rlast + 1])
                     /\ spoiled' = spoiled \cup Overtaking
  BY <1>3, <1>5
<1> QED BY <1>1, <1>2, <1>6 DEF Decided

LEMMA NextMemoryTruth ==
    ASSUME TypeInv, TruthInv, [Next]_vars
    PROVE  MemoryTruth'
<1>1. /\ Top \in Nat /\ Top' \in Nat /\ Top <= Top' /\ last_seq <= Top /\ TSeq \subseteq Nat
      /\ rlast \in Nat /\ rtlog.last \in Nat /\ rmarked \subseteq TSeq /\ last_seq \in Nat
  <2>1. Top \in Nat /\ Top' \in Nat /\ Top <= Top' /\ last_seq <= Top
    BY TopMoves, StageFacts
  <2>2. rmarked \subseteq TSeq
    BY DEF TypeInv, ReplicaTypes
  <2>3. TSeq \subseteq Nat /\ rlast \in Nat /\ rtlog.last \in Nat /\ last_seq \in Nat
    BY Numbers
  <2> QED BY <2>1, <2>2, <2>3
<1>2. \A n \in TSeq : n <= Top => outcome'[n] = outcome[n]
  BY TopMoves
<1>3. /\ \A n \in TSeq : rtpc[n] \in Decisions => n <= Top /\ outcome[n] = rtpc[n]
      /\ rlast <= Top /\ rtlog.last <= Top /\ \A n \in rmarked : n <= Top
  BY DEF TruthInv, MemoryTruth
<1>4. \A n \in TSeq : rtpc[n] \in Decisions => n <= Top' /\ outcome'[n] = rtpc[n]
  <2>1. \A n \in TSeq : rtpc[n] \in Decisions => n <= Top'
    BY <1>1, <1>3
  <2> QED BY <1>2, <1>3, <2>1
<1>5. rlast <= Top' /\ rtlog.last <= Top' /\ \A n \in rmarked : n <= Top'
  <2>1. \A n \in rmarked : n \in Nat
    BY <1>1
  <2> QED BY <1>1, <1>3, <2>1
<1>6. CASE UNCHANGED tvars
  BY <1>4, <1>5, <1>6 DEF MemoryTruth, tvars
<1>7. CASE ReadSeq
  <2>1. /\ rlast' = Larger(rlast, to_r[1].last) /\ UNCHANGED <<rtpc, rmarked, rtlog>>
        /\ to_r[1].last \in Nat /\ to_r[1].last <= last_seq
    <3>1. to_r[1].last \in Nat /\ 1 \in DOMAIN to_r /\ to_r[1].type = "TSEQNUMRETURN"
      BY <1>7, FirstMessage, Numbers DEF ReadSeq
    <3> QED BY <1>7, <3>1 DEF ReadSeq, LastAfter, TruthInv, WireTruth
  <2>2. rlast' <= Top'
    BY <1>1, <1>5, <2>1 DEF Larger
  <2> QED BY <1>4, <1>5, <2>1, <2>2 DEF MemoryTruth
<1>8. CASE ReadPrepare
  <2>1. \/ UNCHANGED tvars
        \/ /\ rtlog' = [rtlog EXCEPT !.seq = Larger(@, to_r[1].seq)] /\ UNCHANGED <<rlast, rmarked>>
           /\ rtpc' = [rtpc EXCEPT ![to_r[1].seq] = "PREPARE"]
    BY <1>8 DEF ReadPrepare
  <2>2. rtpc \in [TSeq -> {"none", "PREPARE", "COMMIT", "ABORT"}] /\ rtlog = [seq |-> rtlog.seq, last |-> rtlog.last]
    BY Numbers DEF TypeInv, ReplicaTypes
  <2>3. CASE /\ rtlog' = [rtlog EXCEPT !.seq = Larger(@, to_r[1].seq)] /\ UNCHANGED <<rlast, rmarked>>
             /\ rtpc' = [rtpc EXCEPT ![to_r[1].seq] = "PREPARE"]
    <3>1. \A n \in TSeq : rtpc'[n] \in Decisions => rtpc[n] = rtpc'[n]
      BY <2>2, <2>3 DEF Decisions
    <3>2. rtlog'.last = rtlog.last
      BY <2>2, <2>3
    <3> QED BY <1>4, <1>5, <2>3, <3>1, <3>2 DEF MemoryTruth
  <2> QED BY <1>6, <2>1, <2>3
<1>9. CASE \E d \in Decisions : ReadDecision(d)
  <2>1. PICK d \in Decisions : ReadDecision(d)
    BY <1>9
  <2>2. PICK n : n = to_r[1].seq
    OBVIOUS
  <2>3. 1 \in DOMAIN to_r /\ to_r[1].type = d /\ n \in TSeq
    BY <2>1, <2>2, FirstMessage DEF ReadDecision, Asked
  <2>4. n <= Top /\ outcome[n] = d
    BY <2>2, <2>3 DEF TruthInv, WireTruth
  <2>5. n <= Top' /\ outcome'[n] = d
    BY <1>1, <1>2, <2>3, <2>4
  <2>6. PICK q \in [TSeq -> {"none", "PREPARE", "COMMIT", "ABORT"}] : Decided(d, n, q)
    BY <2>1, <2>2, DecisionMoves
  <2>7. \A m \in TSeq : q[m] \in Decisions => m <= Top' /\ outcome'[m] = q[m]
    BY <1>4, <2>5, <2>6 DEF Decisions, Decided
  <2>8. CASE UNCHANGED tvars
    BY <1>6, <2>8
  <2>9. CASE /\ rmarked' = rmarked \cup {n}
             /\ rtlog' = [seq |-> Larger(rtlog.seq, n), last |-> Larger(rtlog.last, n)]
             /\ \/ rtpc' = q /\ rlast' = rlast
                \/ /\ rlast + 1 \in TSeq /\ q[rlast + 1] \in Decisions
                   /\ rlast' = rlast + 1
                   /\ rtpc' = [m \in TSeq |-> IF m = rlast + 2 THEN "none" ELSE q[m]]
    <3>1. rtlog'.last <= Top'
      BY <1>1, <1>5, <2>5, <2>9 DEF Larger
    <3>2. \A m \in rmarked' : m <= Top'
      BY <1>5, <2>5, <2>9
    <3>3. rlast' <= Top'
      BY <1>5, <2>7, <2>9
    <3>4. \A m \in TSeq : rtpc'[m] \in Decisions => rtpc'[m] = q[m]
      BY <2>9 DEF Decisions
    <3> QED BY <2>7, <3>1, <3>2, <3>3, <3>4 DEF MemoryTruth
  <2> QED BY <2>6, <2>8, <2>9 DEF tvars, Decided
<1>10. CASE Crash
  <2>1. /\ rtpc' = [n \in TSeq |-> "none"] /\ rmarked' = {} /\ UNCHANGED <<rlast, rtlog>>
    BY <1>10 DEF Crash
  <2> QED BY <1>5, <2>1 DEF MemoryTruth, Decisions
<1>11. CASE Restart
  <2>1. rlast' = rtlog.last /\ UNCHANGED <<rtpc, rmarked, rtlog>>
    BY <1>11 DEF Restart
  <2> QED BY <1>4, <1>5, <2>1 DEF MemoryTruth
<1>12. CASE UNCHANGED vars
  BY <1>6, <1>12 DEF vars
<1>13. CASE \/ Start \/ Send \/ Apply \/ AnswerLog \/ AnswerSeq \/ ReadVote \/ Drop \/ ReadFile \/ CheckpointEnds \/ OwnCheckpoint \/ Flush
            \/ Checkpoint \/ Join
  BY <1>6, <1>13 DEF Start, Send, Apply, AnswerLog, AnswerSeq, ReadVote, Drop, ReadFile, CheckpointEnds, OwnCheckpoint, Flush, Checkpoint, Join
<1>14. CASE \/ ReadLog \/ ReadCheckpoint \/ ReplicaFlush \/ ReplayBegins \/ Replay \/ ReplayEnds
            \/ \E d \in Decisions : Decide(d)
  BY <1>6, <1>14 DEF ReadLog, ReadCheckpoint, ReplicaFlush, ReplayBegins, Replay, ReplayEnds, Decide
<1> QED BY <1>7, <1>8, <1>9, <1>10, <1>11, <1>12, <1>13, <1>14, Steps

LEMMA NextTruth == TypeInv /\ TruthInv /\ [Next]_vars => TruthInv'
BY NextOutcome, NextWireTruth, NextMemoryTruth DEF TruthInv

-----------------------------------------------------------------------------
(* A connection: the replica asks two things and votes, the primary answers *)
(* and tells.                                                              *)
InTransit(t) == \E i \in DOMAIN to_r : to_r[i].type = t

CleanInv ==
    /\ (rup /\ member) \/ (/\ rec.place = "none" /\ rmarked = {} /\ rqueue = <<>>
                           /\ \A n \in TSeq : rtpc[n] = "none")
    /\ ~member => to_p = <<>> /\ to_r = <<>>

AskInv ==
    /\ \A i \in DOMAIN to_p : to_p[i].type = "REQUEST" =>
          i = 1 /\ 2 \in DOMAIN to_p /\ to_p[2].type = "TSEQNUM"
    /\ \A i \in DOMAIN to_p : to_p[i].type = "TSEQNUM" =>
          i = 1 \/ (i = 2 /\ to_p[1].type = "REQUEST")

Before(a, b) ==
    /\ a.type \in Decisions /\ b.type \in Asked => a.seq < b.seq
    /\ a.type = "PREPARE" /\ b.type \in Decisions => a.seq <= b.seq
    /\ a.type = "TSEQNUMRETURN" => b.type \notin {"TSEQNUMRETURN", "LOGFILE"}
    /\ a.type = "LOGFILE" => b.type # "LOGFILE"

Ordered(q) == \A i, j \in DOMAIN q : i < j => Before(q[i], q[j])

PhaseInv ==
    /\ Unlogged => Unnumbered /\ ~InTransit("LOGFILE") /\ rec.place = "none"
    /\ Unnumbered => ~InTransit("TSEQNUMRETURN")
    /\ \A i \in DOMAIN to_r : to_r[i].type = "LOGFILE" =>
        /\ rec.place = "none"
        /\ Unnumbered \/ \E j \in DOMAIN to_r : j > i /\ to_r[j].type = "TSEQNUMRETURN"

(* Nothing later is prepared while a decision is on its way.               *)
AheadInv ==
    \A i \in DOMAIN to_r : to_r[i].type \in Decisions =>
        \A n \in TSeq : n > to_r[i].seq => rtpc[n] = "none"

SessionInv == CleanInv /\ AskInv /\ Ordered(to_r) /\ PhaseInv /\ AheadInv

LEMMA InitSession == Init => SessionInv
<1>. SUFFICES ASSUME Init PROVE SessionInv
  OBVIOUS
<1>1. to_p = <<>> /\ to_r = <<>> /\ member = FALSE /\ DOMAIN to_p = {} /\ DOMAIN to_r = {}
  BY EmptyFacts DEF Init
<1>2. CleanInv
  BY NoRecType DEF Init, CleanInv
<1>3. AskInv /\ Ordered(to_r) /\ AheadInv
  BY <1>1 DEF AskInv, Ordered, AheadInv
<1>4. PhaseInv
  BY <1>1 DEF PhaseInv, Unlogged, Unnumbered
<1> QED BY <1>2, <1>3, <1>4 DEF SessionInv

LEMMA NextClean ==
    ASSUME TypeInv, CleanInv, [Next]_vars
    PROVE  CleanInv'
<1>1. CASE Start \/ Send \/ Checkpoint \/ ReadFile \/ CheckpointEnds \/ OwnCheckpoint
  BY <1>1 DEF Start, Send, Checkpoint, ReadFile, CheckpointEnds, OwnCheckpoint, CleanInv, Told, pvars, lvars, tvars, dvars
<1>2. CASE Apply \/ Flush \/ \E d \in Decisions : Decide(d)
  BY <1>2 DEF Apply, Flush, Decide, CleanInv, pvars, lvars, tvars, dvars
<1>3. CASE Join \/ Drop
  BY <1>3 DEF Join, Drop, CleanInv, tvars, dvars
<1>4. CASE AnswerLog \/ AnswerSeq \/ ReadVote
  BY <1>4 DEF AnswerLog, AnswerSeq, ReadVote, Hears, Asks, CleanInv, pvars, tvars, dvars
<1>5. CASE ReadLog \/ ReadSeq \/ ReadPrepare \/ ReadCheckpoint \/ \E d \in Decisions : ReadDecision(d)
  <2>1. rup /\ to_r # <<>> /\ UNCHANGED <<rup, member>>
    BY <1>5 DEF ReadLog, ReadSeq, ReadPrepare, ReadCheckpoint, ReadDecision, Reads, pvars
  <2>2. rup' /\ member'
    BY <2>1 DEF CleanInv
  <2> QED BY <2>2 DEF CleanInv
<1>6. CASE ReplayBegins \/ Replay \/ ReplayEnds
  <2>1. rec.place # "none" /\ UNCHANGED <<rup, member>>
    BY <1>6 DEF ReplayBegins, Replay, ReplayEnds, Recovering, pvars
  <2>2. rup' /\ member'
    BY <2>1 DEF CleanInv
  <2> QED BY <2>2 DEF CleanInv
<1>7. CASE ReplicaFlush
  <2>1. UNCHANGED <<rup, member, rec, rmarked, rtpc, to_p, to_r>> /\ rqueue' = <<>>
    BY <1>7 DEF ReplicaFlush, pvars, tvars
  <2> QED BY <2>1 DEF CleanInv
<1>8. CASE Crash
  BY <1>8, NoRecType DEF Crash, CleanInv, pvars
<1>9. CASE Restart
  <2>1. UNCHANGED <<member, rec, rmarked, rqueue, rtpc, to_p, to_r>> /\ ~member
    BY <1>9 DEF Restart, pvars
  <2> QED BY <2>1 DEF CleanInv
<1>10. CASE UNCHANGED vars
  BY <1>10 DEF vars, CleanInv, pvars, tvars, dvars
<1> QED BY <1>1, <1>2, <1>3, <1>4, <1>5, <1>6, <1>7, <1>8, <1>9, <1>10, Steps

(* How a step changes what the primary has yet to read.                    *)
LEMMA AskMoves ==
    ASSUME TypeInv, AskInv, [Next]_vars
    PROVE  /\ AskInv'
           /\ \/ member' = member /\ Unlogged' = Unlogged /\ Unnumbered' = Unnumbered
              \/ AnswerLog /\ member /\ member' /\ Unlogged /\ Unnumbered /\ ~Unlogged' /\ Unnumbered'
              \/ AnswerSeq /\ member /\ member' /\ ~Unlogged /\ Unnumbered /\ ~Unlogged' /\ ~Unnumbered'
              \/ Join /\ member' /\ Unlogged' /\ Unnumbered'
              \/ Drop /\ ~member' /\ ~Unlogged' /\ ~Unnumbered'
           /\ AnswerLog => member /\ member' /\ Unlogged /\ Unnumbered /\ ~Unlogged' /\ Unnumbered'
           /\ AnswerSeq => member /\ member' /\ ~Unlogged /\ Unnumbered /\ ~Unlogged' /\ ~Unnumbered'
           /\ Join => member' /\ Unlogged' /\ Unnumbered'
           /\ Drop => ~member' /\ ~Unlogged' /\ ~Unnumbered'
<1>. DEFINE Same == AskInv' /\ member' = member /\ Unlogged' = Unlogged /\ Unnumbered' = Unnumbered
<1>0. to_p \in Seq(ToPrimary)
  BY DEF TypeInv, WireTypes
<1>1. ASSUME UNCHANGED <<to_p, member>> PROVE Same
  BY <1>1 DEF AskInv, Unlogged, Unnumbered
<1>a. ASSUME to_p # <<>>, to_p' = Tail(to_p)
      PROVE  /\ 1 \in DOMAIN to_p /\ DOMAIN to_p = 1..Len(to_p) /\ Len(to_p) \in Nat
             /\ \A i \in DOMAIN to_p' : i \in Nat /\ i >= 1 /\ i + 1 \in DOMAIN to_p /\ to_p'[i] = to_p[i + 1]
             /\ \A i \in DOMAIN to_p : i # 1 => i - 1 \in DOMAIN to_p' /\ to_p'[i - 1] = to_p[i]
             /\ AskInv'
  <2>1. /\ 1 \in DOMAIN to_p /\ DOMAIN to_p = 1..Len(to_p) /\ Len(to_p) \in Nat
        /\ DOMAIN to_p' = 1..(Len(to_p) - 1)
        /\ \A i \in DOMAIN to_p' : i + 1 \in DOMAIN to_p /\ to_p'[i] = to_p[i + 1]
    BY <1>0, <1>a, TailFacts
  <2>2. \A i \in DOMAIN to_p' : i \in Nat /\ i >= 1
    BY <2>1
  <2>3. ASSUME NEW i \in DOMAIN to_p, i # 1
        PROVE  i - 1 \in DOMAIN to_p' /\ to_p'[i - 1] = to_p[i]
    <3>1. i - 1 \in DOMAIN to_p' /\ (i - 1) + 1 = i
      BY <2>1, <2>3
    <3> QED BY <2>1, <3>1
  <2>4. ASSUME NEW i \in DOMAIN to_p'
        PROVE  to_p'[i].type # "REQUEST" /\ (to_p'[i].type = "TSEQNUM" => i = 1)
    <3>1. i + 1 \in DOMAIN to_p /\ to_p'[i] = to_p[i + 1] /\ i \in Nat /\ i >= 1
      BY <2>1, <2>2
    <3>2. to_p[i + 1].type # "REQUEST"
      BY <3>1 DEF AskInv
    <3>3. to_p[i + 1].type = "TSEQNUM" => i + 1 = 1 \/ i + 1 = 2
      BY <3>1 DEF AskInv
    <3> QED BY <3>1, <3>2, <3>3
  <2>5. AskInv'
    BY <2>4 DEF AskInv
  <2> QED BY <2>1, <2>2, <2>3, <2>5
<1>2. ASSUME AnswerLog
      PROVE  AskInv' /\ member /\ member' /\ Unlogged /\ Unnumbered /\ ~Unlogged' /\ Unnumbered'
  <2>1. /\ to_p # <<>> /\ to_p' = Tail(to_p) /\ to_p[1].type = "REQUEST" /\ member /\ member'
    BY <1>2 DEF AnswerLog, Hears, Asks, pvars
  <2>2. 1 \in DOMAIN to_p /\ 2 \in DOMAIN to_p /\ to_p[2].type = "TSEQNUM"
    BY <1>a, <2>1 DEF AskInv
  <2>3. Unlogged /\ Unnumbered
    BY <2>1, <2>2 DEF Unlogged, Unnumbered
  <2>4. 1 \in DOMAIN to_p' /\ to_p'[1].type = "TSEQNUM"
    <3>1. 2 - 1 \in DOMAIN to_p' /\ to_p'[2 - 1] = to_p[2] /\ 2 - 1 = 1
      BY <1>a, <2>1, <2>2
    <3> QED BY <2>2, <3>1
  <2>5. \A i \in DOMAIN to_p' : to_p'[i].type # "REQUEST"
    <3>1. \A i \in DOMAIN to_p' : i + 1 \in DOMAIN to_p /\ i + 1 # 1 /\ to_p'[i] = to_p[i + 1]
      BY <1>a, <2>1
    <3> QED BY <3>1 DEF AskInv
  <2> QED BY <1>2, <1>a, <2>1, <2>3, <2>4, <2>5 DEF Unlogged, Unnumbered
<1>3. ASSUME AnswerSeq
      PROVE  AskInv' /\ member /\ member' /\ ~Unlogged /\ Unnumbered /\ ~Unlogged' /\ ~Unnumbered'
  <2>1. /\ to_p # <<>> /\ to_p' = Tail(to_p) /\ to_p[1].type = "TSEQNUM" /\ member /\ member'
    BY <1>3 DEF AnswerSeq, Hears, Asks, pvars
  <2>2. 1 \in DOMAIN to_p
    BY <1>a, <2>1
  <2>3. \A i \in DOMAIN to_p : to_p[i].type # "REQUEST" /\ (to_p[i].type = "TSEQNUM" => i = 1)
    BY <2>1, <2>2 DEF AskInv
  <2>4. \A i \in DOMAIN to_p' : to_p'[i].type \notin {"REQUEST", "TSEQNUM"}
    <3>1. \A i \in DOMAIN to_p' : i + 1 \in DOMAIN to_p /\ i + 1 # 1 /\ to_p'[i] = to_p[i + 1]
      BY <1>a, <2>1
    <3> QED BY <2>3, <3>1
  <2> QED BY <1>a, <2>1, <2>2, <2>3, <2>4 DEF Unlogged, Unnumbered
<1>4. ASSUME ReadVote PROVE Same
  <2>1. /\ to_p # <<>> /\ to_p' = Tail(to_p) /\ to_p[1].type = "VOTE" /\ member' = member
    BY <1>4 DEF ReadVote, Hears, Asks
  <2>2. \A i \in DOMAIN to_p : to_p[i].type \notin {"REQUEST", "TSEQNUM"}
    <3>1. 1 \in DOMAIN to_p
      BY <1>a, <2>1
    <3> QED BY <2>1, <3>1 DEF AskInv
  <2>3. \A i \in DOMAIN to_p' : to_p'[i].type \notin {"REQUEST", "TSEQNUM"}
    BY <1>a, <2>1, <2>2
  <2> QED BY <1>a, <2>1, <2>2, <2>3 DEF Unlogged, Unnumbered
<1>5. ASSUME Join PROVE AskInv' /\ member' /\ Unlogged' /\ Unnumbered'
  <2>1. to_p' = <<[type |-> "REQUEST"], [type |-> "TSEQNUM"]>> /\ member'
    BY <1>5 DEF Join
  <2>2. DOMAIN to_p' = {1, 2} /\ to_p'[1].type = "REQUEST" /\ to_p'[2].type = "TSEQNUM"
    BY <2>1
  <2> QED BY <1>5, <2>1, <2>2 DEF AskInv, Unlogged, Unnumbered
<1>6. ASSUME Drop PROVE AskInv' /\ ~member' /\ ~Unlogged' /\ ~Unnumbered'
  <2>1. to_p' = <<>> /\ ~member' /\ DOMAIN to_p' = {}
    BY <1>6, EmptyFacts DEF Drop
  <2> QED BY <1>6, <2>1 DEF AskInv, Unlogged, Unnumbered
<1>7. ASSUME ReadPrepare PROVE Same
  <2>1. \/ to_p' = to_p
        \/ \E v \in {"YES", "NO"} : to_p' = Append(to_p, [type |-> "VOTE", seq |-> to_r[1].seq, vote |-> v])
    BY <1>7 DEF ReadPrepare
  <2>2. member' = member
    BY <1>7 DEF ReadPrepare, pvars
  <2>3. ASSUME NEW m, m.type = "VOTE", to_p' = Append(to_p, m)
        PROVE  AskInv' /\ Unlogged' = Unlogged /\ Unnumbered' = Unnumbered
    <3>1. /\ DOMAIN to_p = 1..Len(to_p) /\ Len(to_p) \in Nat /\ DOMAIN to_p' = 1..(Len(to_p) + 1)
          /\ \A i \in DOMAIN to_p : i \in DOMAIN to_p' /\ to_p'[i] = to_p[i]
          /\ \A i \in DOMAIN to_p' : i \in DOMAIN to_p \/ to_p'[i].type = "VOTE"
      BY <1>0, <2>3
    <3>2. ASSUME NEW i \in DOMAIN to_p', to_p'[i].type = "REQUEST"
          PROVE  i = 1 /\ 2 \in DOMAIN to_p' /\ to_p'[2].type = "TSEQNUM"
      <4>1. i \in DOMAIN to_p /\ to_p[i].type = "REQUEST"
        BY <3>1, <3>2
      <4>2. i = 1 /\ 2 \in DOMAIN to_p /\ to_p[2].type = "TSEQNUM"
        BY <4>1 DEF AskInv
      <4> QED BY <3>1, <4>2
    <3>3. ASSUME NEW i \in DOMAIN to_p', to_p'[i].type = "TSEQNUM"
          PROVE  i = 1 \/ (i = 2 /\ to_p'[1].type = "REQUEST")
      <4>1. i \in DOMAIN to_p /\ to_p[i].type = "TSEQNUM"
        BY <3>1, <3>3
      <4>2. i = 1 \/ (i = 2 /\ to_p[1].type = "REQUEST")
        BY <4>1 DEF AskInv
      <4>3. i = 2 => 1 \in DOMAIN to_p
        BY <3>1, <4>1
      <4> QED BY <3>1, <4>2, <4>3
    <3>4. AskInv'
      BY <3>2, <3>3 DEF AskInv
    <3>5. \A t \in {"REQUEST", "TSEQNUM"} :
             (\E i \in DOMAIN to_p' : to_p'[i].type = t) <=> (\E i \in DOMAIN to_p : to_p[i].type = t)
      BY <3>1
    <3> QED BY <2>2, <3>4, <3>5 DEF Unlogged, Unnumbered
  <2>4. AskInv' /\ Unlogged' = Unlogged /\ Unnumbered' = Unnumbered
    <3>1. CASE to_p' = to_p
      BY <1>1, <2>2, <3>1 DEF AskInv, Unlogged, Unnumbered
    <3>2. ASSUME NEW v \in {"YES", "NO"}, to_p' = Append(to_p, [type |-> "VOTE", seq |-> to_r[1].seq, vote |-> v])
          PROVE  AskInv' /\ Unlogged' = Unlogged /\ Unnumbered' = Unnumbered
      BY <2>3, <3>2
    <3> QED BY <2>1, <3>1, <3>2
  <2> QED BY <2>2, <2>4
<1>8. ASSUME \/ Start \/ Send \/ Apply \/ Flush \/ Checkpoint \/ ReadLog \/ ReadSeq \/ ReadCheckpoint
             \/ ReadFile \/ CheckpointEnds \/ OwnCheckpoint
             \/ \E d \in Decisions : Decide(d) \/ ReadDecision(d)
      PROVE  Same
  BY <1>1, <1>8 DEF Start, Send, Apply, Flush, Checkpoint, ReadLog, ReadSeq, ReadCheckpoint, Decide,
                    ReadFile, CheckpointEnds, OwnCheckpoint, ReadDecision, pvars
<1>9. ASSUME ReplicaFlush \/ ReplayBegins \/ Replay \/ ReplayEnds \/ Crash \/ Restart PROVE Same
  BY <1>1, <1>9 DEF ReplicaFlush, ReplayBegins, Replay, ReplayEnds, Crash, Restart, pvars
<1>10. ASSUME UNCHANGED vars PROVE Same
  BY <1>1, <1>10 DEF vars, pvars
<1> QED BY <1>2, <1>3, <1>4, <1>5, <1>6, <1>7, <1>8, <1>9, <1>10, Steps

LEMMA AnswerPhases ==
    ASSUME TypeInv, AskInv
    PROVE  /\ AnswerLog => Unlogged /\ Unnumbered
           /\ AnswerSeq => ~Unlogged /\ Unnumbered
           /\ \A i \in DOMAIN to_p : to_p[i].type = "VOTE" /\ i = 1 => ~Unlogged /\ ~Unnumbered
<1>1. to_p # <<>> => 1 \in DOMAIN to_p
  BY TailFacts DEF TypeInv, WireTypes
<1>2. CASE AnswerLog
  <2>1. 1 \in DOMAIN to_p /\ member /\ to_p[1].type = "REQUEST"
    BY <1>1, <1>2 DEF AnswerLog, Hears, Asks
  <2> QED BY <2>1 DEF Unlogged, Unnumbered, AskInv, AnswerSeq, Hears, Asks
<1>3. CASE ~AnswerLog
  <2>1. AnswerSeq => 1 \in DOMAIN to_p /\ member /\ to_p[1].type = "TSEQNUM"
    BY <1>1 DEF AnswerSeq, Hears, Asks
  <2>2. AnswerSeq => ~Unlogged /\ Unnumbered
    BY <2>1 DEF Unlogged, Unnumbered, AskInv
  <2>3. \A i \in DOMAIN to_p : to_p[i].type = "VOTE" /\ i = 1 => ~Unlogged /\ ~Unnumbered
    BY DEF Unlogged, Unnumbered, AskInv
  <2> QED BY <1>3, <2>2, <2>3
<1> QED BY <1>2, <1>3

LEMMA NextOrdered ==
    ASSUME TypeInv, TruthInv, SessionInv, [Next]_vars
    PROVE  Ordered(to_r')
<1>1. Ordered(to_r) /\ PhaseInv /\ AskInv
  BY DEF SessionInv
<1>2. CASE to_r' = to_r
  BY <1>1, <1>2
<1>3. CASE to_r' = <<>>
  BY <1>3, EmptyFacts DEF Ordered
<1>4. CASE to_r # <<>> /\ to_r' = Tail(to_r)
  <2>1. SUFFICES ASSUME NEW i \in DOMAIN to_r', NEW j \in DOMAIN to_r', i < j
                 PROVE  Before(to_r'[i], to_r'[j])
    BY DEF Ordered
  <2>2. /\ i + 1 \in DOMAIN to_r /\ to_r'[i] = to_r[i + 1] /\ i \in Nat
        /\ j + 1 \in DOMAIN to_r /\ to_r'[j] = to_r[j + 1] /\ j \in Nat
    BY <1>4, Reading
  <2>3. i + 1 < j + 1
    BY <2>1, <2>2
  <2> QED BY <1>1, <2>2, <2>3 DEF Ordered
<1>5. ASSUME NEW m \in ToReplica, to_r' = Append(to_r, m), \A i \in DOMAIN to_r : Before(to_r[i], m)
      PROVE  Ordered(to_r')
  <2>1. SUFFICES ASSUME NEW i \in DOMAIN to_r', NEW j \in DOMAIN to_r', i < j
                 PROVE  Before(to_r'[i], to_r'[j])
    BY DEF Ordered
  <2>2. /\ DOMAIN to_r = 1..Len(to_r) /\ Len(to_r) \in Nat /\ DOMAIN to_r' = 1..(Len(to_r) + 1)
        /\ \A k \in DOMAIN to_r : to_r'[k] = to_r[k]
        /\ to_r'[Len(to_r) + 1] = m
    BY <1>5, Sending
  <2>3. i \in DOMAIN to_r
    BY <2>1, <2>2
  <2>4. CASE j = Len(to_r) + 1
    BY <1>5, <2>2, <2>3, <2>4
  <2>5. CASE j \in DOMAIN to_r
    BY <1>1, <2>1, <2>2, <2>3, <2>5 DEF Ordered
  <2> QED BY <2>2, <2>4, <2>5
<1>6. ASSUME NEW i \in DOMAIN to_r
      PROVE  /\ to_r[i].type \in Asked => to_r[i].seq \in Nat /\ to_r[i].seq <= tpc_seq
             /\ to_r[i].type \in Decisions => to_r[i].seq \in Nat /\ to_r[i].seq <= Top
  <2>1. to_r[i] \in ToReplica /\ TSeq \subseteq Nat /\ Decisions \subseteq Asked
    BY Numbers, SMTT(30) DEF TypeInv, WireTypes, Asked
  <2> QED BY <2>1, MessageFields DEF TypeInv, WireTypes, TruthInv, WireTruth
<1>7. ASSUME NEW m \in ToReplica, to_r' = Append(to_r, m), NEW i \in DOMAIN to_r,
             \/ Start /\ m = [type |-> "PREPARE", seq |-> tpc_seq + 1]
             \/ Send /\ m = [type |-> outcome[tpc_seq], seq |-> tpc_seq]
             \/ Checkpoint /\ m = [type |-> "CHECKPOINT"]
             \/ AnswerLog /\ m = [type |-> "LOGFILE", file |-> answer[1]]
             \/ AnswerSeq /\ m = [type |-> "TSEQNUMRETURN", seq |-> tpc_seq, last |-> last_seq]
      PROVE  Before(to_r[i], m)
  <2>0. tpc_seq \in Nat /\ last_seq \in Nat /\ Top \in Nat /\ Top <= tpc_seq
    BY Numbers, StageFacts
  <2>1. CASE Start /\ m = [type |-> "PREPARE", seq |-> tpc_seq + 1]
    <3>1. m.type = "PREPARE" /\ m.seq = tpc_seq + 1 /\ m.type \notin Decisions
      BY <2>1 DEF Decisions
    <3>2. to_r[i].type \in Decisions => to_r[i].seq < m.seq
      BY <1>6, <2>0, <3>1
    <3> QED BY <3>1, <3>2 DEF Before
  <2>2. CASE Send /\ m = [type |-> outcome[tpc_seq], seq |-> tpc_seq]
    <3>1. outcome[tpc_seq] \in Decisions /\ m.type = outcome[tpc_seq] /\ m.seq = tpc_seq
      BY <2>2 DEF Send, TypeInv, PrimaryTypes
    <3>2. Top = last_seq /\ last_seq < tpc_seq
      BY <2>0, <2>2, StageFacts, TopMoves DEF Send
    <3>3. to_r[i].type \in Decisions => to_r[i].seq < m.seq
      BY <1>6, <2>0, <3>1, <3>2
    <3>4. to_r[i].type = "PREPARE" => to_r[i].seq <= m.seq
      BY <1>6, <3>1 DEF Asked
    <3> QED BY <3>1, <3>3, <3>4 DEF Before, Decisions
  <2>3. CASE Checkpoint /\ m = [type |-> "CHECKPOINT"]
    BY <2>3 DEF Before, Decisions, Asked
  <2>4. CASE AnswerLog /\ m = [type |-> "LOGFILE", file |-> answer[1]]
    <3>1. Unlogged /\ Unnumbered
      BY <1>1, <2>4, AnswerPhases
    <3>2. to_r[i].type # "TSEQNUMRETURN" /\ to_r[i].type # "LOGFILE"
      BY <1>1, <3>1 DEF PhaseInv, InTransit
    <3> QED BY <2>4, <3>2 DEF Before, Decisions, Asked
  <2>5. CASE AnswerSeq /\ m = [type |-> "TSEQNUMRETURN", seq |-> tpc_seq, last |-> last_seq]
    <3>1. Unnumbered
      BY <1>1, <2>5, AnswerPhases
    <3>2. to_r[i].type # "TSEQNUMRETURN"
      BY <1>1, <3>1 DEF PhaseInv, InTransit
    <3> QED BY <2>5, <3>2 DEF Before, Decisions, Asked
  <2> QED BY <1>7, <2>1, <2>2, <2>3, <2>4, <2>5
<1> QED BY <1>2, <1>3, <1>4, <1>5, <1>7, WireMoves

(* What a step may do to the replay and to tpc_queue.                      *)
LEMMA PlaceMoves ==
    ASSUME TypeInv, [Next]_vars, rec'.place # "none"
    PROVE  ReadLog \/ (rec.place # "none" /\ rec'.file.ck = rec.file.ck)
<1>0. RecTypes
  BY DEF TypeInv
<1>1. CASE UNCHANGED rec
  BY <1>1
<1>2. CASE ReplayBegins
  <2>1. /\ rec' = [rec EXCEPT !.place = "replay", !.same = (rec.file.ck = rck),
                          !.older = (rec.file.ck < rck),
                          !.top = IF rec.file.ck > rck THEN 0 ELSE rnum,
                          !.file = IF rec.file.ck < rck THEN [rec.file EXCEPT !.recs = <<>>]
                                   ELSE rec.file]
        /\ rec.place = "created"
    BY <1>2 DEF ReplayBegins
  <2> QED BY <1>0, <2>1 DEF RecTypes, LogFile
<1>3. CASE Replay
  <2>1. /\ rec.place = "replay"
        /\ \/ rec' = [rec EXCEPT !.file.recs = Tail(@)]
           \/ rec' = [rec EXCEPT !.file.recs = Tail(@), !.top = Larger(@, Head(rec.file.recs).num)]
    BY <1>3 DEF Replay, Recovering
  <2>2. CASE rec' = [rec EXCEPT !.file.recs = Tail(@)]
    BY <1>0, <2>1, <2>2 DEF RecTypes, LogFile
  <2>3. CASE rec' = [rec EXCEPT !.file.recs = Tail(@), !.top = Larger(@, Head(rec.file.recs).num)]
    BY <1>0, <2>1, <2>3 DEF RecTypes, LogFile
  <2> QED BY <2>1, <2>2, <2>3
<1>4. CASE ReplayEnds \/ Crash
  BY <1>4, NoRecType DEF ReplayEnds, Crash
<1>5. CASE \/ Start \/ Send \/ Apply \/ AnswerLog \/ AnswerSeq \/ ReadVote \/ Drop \/ ReadFile \/ CheckpointEnds \/ OwnCheckpoint \/ Flush
           \/ Checkpoint \/ Join
  BY <1>1, <1>5 DEF Start, Send, Apply, AnswerLog, AnswerSeq, ReadVote, Drop, ReadFile, CheckpointEnds, OwnCheckpoint, Flush, Checkpoint, Join
<1>6. CASE \/ ReadSeq \/ ReadPrepare \/ ReadCheckpoint \/ ReplicaFlush \/ Restart
           \/ \E d \in Decisions : Decide(d) \/ ReadDecision(d)
  BY <1>1, <1>6 DEF ReadSeq, ReadPrepare, ReadCheckpoint, ReplicaFlush, Restart, Decide, ReadDecision
<1>7. CASE UNCHANGED vars
  BY <1>1, <1>7 DEF vars
<1> QED BY <1>2, <1>3, <1>4, <1>5, <1>6, <1>7, Steps

LEMMA QueueMoves ==
    ASSUME TypeInv, [Next]_vars, NEW k \in TSeq, rtpc'[k] # "none"
    PROVE  \/ ReadPrepare /\ k = to_r[1].seq /\ rtpc'[k] = "PREPARE"
           \/ rtpc[k] # "none" /\ (rtpc'[k] = rtpc[k] \/ (rtpc'[k] \in Decisions /\ ReadDecision(rtpc'[k])
                                                           /\ k = to_r[1].seq))
<1>1. CASE UNCHANGED rtpc
  BY <1>1
<1>2. CASE ReadPrepare
  <2>1. rtpc' = rtpc \/ rtpc' = [rtpc EXCEPT ![to_r[1].seq] = "PREPARE"]
    BY <1>2 DEF ReadPrepare, tvars
  <2>2. rtpc \in [TSeq -> {"none", "PREPARE", "COMMIT", "ABORT"}]
    BY DEF TypeInv, ReplicaTypes
  <2> QED BY <1>2, <2>1, <2>2
<1>3. ASSUME NEW d \in Decisions, ReadDecision(d)
      PROVE  \/ rtpc[k] # "none" /\ (rtpc'[k] = rtpc[k] \/ (rtpc'[k] = d /\ k = to_r[1].seq))
  <2>1. PICK n : n = to_r[1].seq
    OBVIOUS
  <2>2. PICK q \in [TSeq -> {"none", "PREPARE", "COMMIT", "ABORT"}] : Decided(d, n, q)
    BY <1>3, <2>1, DecisionMoves
  <2>3. rtpc'[k] = rtpc[k] \/ rtpc'[k] = q[k]
    <3>1. rtpc' = rtpc \/ rtpc' = q \/ rtpc' = [m \in TSeq |-> IF m = rlast + 2 THEN "none" ELSE q[m]]
      BY <2>2 DEF Decided, tvars
    <3> QED BY <3>1
  <2>4. q[k] # "none" => rtpc[k] # "none" /\ (q[k] = rtpc[k] \/ (q[k] = d /\ k = n))
    BY <2>2 DEF Decided
  <2> QED BY <2>1, <2>3, <2>4
<1>4. CASE Crash
  BY <1>4 DEF Crash
<1>5. CASE \/ Start \/ Send \/ Apply \/ AnswerLog \/ AnswerSeq \/ ReadVote \/ Drop \/ ReadFile \/ CheckpointEnds \/ OwnCheckpoint \/ Flush
           \/ Checkpoint \/ Join \/ ReadLog
  BY <1>1, <1>5 DEF Start, Send, Apply, AnswerLog, AnswerSeq, ReadVote, Drop, ReadFile, CheckpointEnds, OwnCheckpoint, Flush, Checkpoint, Join,
                    ReadLog, tvars
<1>6. CASE \/ ReadSeq \/ ReadCheckpoint \/ ReplicaFlush \/ ReplayBegins \/ Replay \/ ReplayEnds \/ Restart
           \/ \E d \in Decisions : Decide(d)
  BY <1>1, <1>6 DEF ReadSeq, ReadCheckpoint, ReplicaFlush, ReplayBegins, Replay, ReplayEnds, Restart,
                    Decide, tvars
<1>7. CASE UNCHANGED vars
  BY <1>1, <1>7 DEF vars, tvars
<1>8. CASE \E d \in Decisions : ReadDecision(d)
  BY <1>3, <1>8
<1> QED BY <1>2, <1>4, <1>5, <1>6, <1>7, <1>8, Steps

LEMMA NextAhead ==
    ASSUME TypeInv, SessionInv, [Next]_vars
    PROVE  AheadInv'
<1>1. SUFFICES ASSUME NEW i \in DOMAIN to_r', to_r'[i].type \in Decisions,
                      NEW k \in TSeq, k > to_r'[i].seq, rtpc'[k] # "none"
               PROVE  FALSE
  BY DEF AheadInv
<1>2. AheadInv /\ Ordered(to_r)
  BY DEF SessionInv
<1>3. ASSUME NEW j \in DOMAIN to_r, to_r[j].type \in Decisions, k > to_r[j].seq,
             j # 1 \/ ~ReadPrepare
      PROVE  FALSE
  <2>1. rtpc[k] = "none"
    BY <1>2, <1>3 DEF AheadInv
  <2>2. ReadPrepare /\ k = to_r[1].seq
    BY <1>1, <2>1, QueueMoves
  <2>3. 1 \in DOMAIN to_r /\ to_r[1].type = "PREPARE" /\ 1 < j /\ k \in Nat /\ to_r[j].seq \in Nat
    <3>1. 1 \in DOMAIN to_r /\ to_r[1].type = "PREPARE" /\ to_r \in Seq(ToReplica)
      BY <2>2, FirstMessage DEF ReadPrepare, TypeInv, WireTypes
    <3>2. to_r[j] \in ToReplica /\ 1 < j
      BY <1>3, <2>2, <3>1
    <3>3. to_r[j].seq \in TSeq /\ TSeq \subseteq Nat
      BY <1>3, <3>2, MessageFields, Numbers, SMTT(30) DEF Asked
    <3> QED BY <3>1, <3>2, <3>3
  <2>4. to_r[1].seq <= to_r[j].seq
    BY <1>2, <1>3, <2>3 DEF Ordered, Before
  <2> QED BY <1>3, <2>2, <2>3, <2>4
<1>4. CASE to_r' = to_r
  <2>1. ~ReadPrepare
    <3>1. ReadPrepare => to_r # <<>> /\ to_r' = Tail(to_r)
      BY DEF ReadPrepare, Reads
    <3>2. Tail(to_r) = to_r => to_r = <<>>
      <4>1. to_r # <<>> => Len(Tail(to_r)) = Len(to_r) - 1 /\ Len(to_r) \in Nat
        BY TailFacts DEF TypeInv, WireTypes
      <4> QED BY <4>1
    <3> QED BY <1>4, <3>1, <3>2
  <2> QED BY <1>1, <1>3, <1>4, <2>1
<1>5. CASE to_r' = <<>>
  BY <1>1, <1>5, EmptyFacts
<1>6. CASE to_r # <<>> /\ to_r' = Tail(to_r)
  <2>1. i + 1 \in DOMAIN to_r /\ to_r'[i] = to_r[i + 1] /\ i + 1 # 1
    BY <1>1, <1>6, Reading
  <2> QED BY <1>1, <1>3, <2>1
<1>7. ASSUME NEW m \in ToReplica, to_r' = Append(to_r, m), m.type \in Decisions => Send /\ m.seq = tpc_seq,
             ~ReadPrepare
      PROVE  FALSE
  <2>1. CASE i \in DOMAIN to_r /\ to_r'[i] = to_r[i]
    BY <1>1, <1>3, <1>7, <2>1
  <2>2. CASE to_r'[i] = m
    <3>1. Send /\ k > tpc_seq
      BY <1>1, <1>7, <2>2
    <3>2. rtpc'[k] = rtpc[k]
      BY <3>1 DEF Send, tvars
    <3>3. k <= rseq /\ rseq <= tpc_seq /\ rseq \in Nat /\ tpc_seq \in Nat /\ k \in Nat
      BY <1>1, <3>2, Numbers DEF TypeInv, ReplicaTypes
    <3> QED BY <3>1, <3>3
  <2> QED BY <1>1, <1>7, <2>1, <2>2, Sending
<1>8. ASSUME NEW m \in ToReplica, to_r' = Append(to_r, m),
             \/ Start /\ m = [type |-> "PREPARE", seq |-> tpc_seq + 1]
             \/ Send /\ m = [type |-> outcome[tpc_seq], seq |-> tpc_seq]
             \/ Checkpoint /\ m = [type |-> "CHECKPOINT"]
             \/ AnswerLog /\ m = [type |-> "LOGFILE", file |-> answer[1]]
             \/ AnswerSeq /\ m = [type |-> "TSEQNUMRETURN", seq |-> tpc_seq, last |-> last_seq]
      PROVE  FALSE
  <2>1. m.type \in Decisions => Send /\ m.seq = tpc_seq
    BY <1>8 DEF Decisions
  <2>2. ~ReadPrepare
    <3>1. ReadPrepare => to_r # <<>> /\ to_r' = Tail(to_r)
      BY DEF ReadPrepare, Reads
    <3>2. to_r # <<>> => Len(Tail(to_r)) = Len(to_r) - 1 /\ Len(to_r) \in Nat
      BY TailFacts DEF TypeInv, WireTypes
    <3>3. Len(Append(to_r, m)) = Len(to_r) + 1
      BY AppendFacts DEF TypeInv, WireTypes
    <3> QED BY <1>8, <3>1, <3>2, <3>3
  <2> QED BY <1>7, <1>8, <2>1, <2>2
<1> QED BY <1>4, <1>5, <1>6, <1>8, WireMoves

LEMMA NextPhase ==
    ASSUME TypeInv, SessionInv, [Next]_vars
    PROVE  PhaseInv'
<1>0. AskInv /\ PhaseInv /\ CleanInv /\ Ordered(to_r)
  BY DEF SessionInv
<1>1. \/ member' = member /\ Unlogged' = Unlogged /\ Unnumbered' = Unnumbered
      \/ AnswerLog /\ Unlogged /\ Unnumbered /\ ~Unlogged' /\ Unnumbered'
      \/ AnswerSeq /\ ~Unlogged /\ Unnumbered /\ ~Unlogged' /\ ~Unnumbered'
      \/ Join /\ member' /\ Unlogged' /\ Unnumbered'
      \/ Drop /\ ~member' /\ ~Unlogged' /\ ~Unnumbered'
  BY <1>0, AskMoves
<1>2. ASSUME NEW i \in DOMAIN to_r'
      PROVE  \/ \E j \in DOMAIN to_r : to_r'[i] = to_r[j]
             \/ /\ i = Len(to_r) + 1 /\ to_r' = Append(to_r, to_r'[i]) /\ to_r'[i] \in ToReplica
                /\ to_r'[i].type = "LOGFILE" => AnswerLog
                /\ to_r'[i].type = "TSEQNUMRETURN" => AnswerSeq
  <2>1. CASE to_r' = to_r \/ to_r' = <<>>
    BY <2>1, EmptyFacts
  <2>2. CASE to_r # <<>> /\ to_r' = Tail(to_r)
    BY <2>2, Reading
  <2>3. ASSUME NEW m \in ToReplica, to_r' = Append(to_r, m),
             \/ Start /\ m = [type |-> "PREPARE", seq |-> tpc_seq + 1]
             \/ Send /\ m = [type |-> outcome[tpc_seq], seq |-> tpc_seq]
             \/ Checkpoint /\ m = [type |-> "CHECKPOINT"]
             \/ AnswerLog /\ m = [type |-> "LOGFILE", file |-> answer[1]]
             \/ AnswerSeq /\ m = [type |-> "TSEQNUMRETURN", seq |-> tpc_seq, last |-> last_seq]
        PROVE  \/ \E j \in DOMAIN to_r : to_r'[i] = to_r[j]
               \/ /\ i = Len(to_r) + 1 /\ to_r' = Append(to_r, to_r'[i]) /\ to_r'[i] \in ToReplica
                  /\ to_r'[i].type = "LOGFILE" => AnswerLog
                  /\ to_r'[i].type = "TSEQNUMRETURN" => AnswerSeq
    <3>1. /\ m.type = "LOGFILE" => AnswerLog
          /\ m.type = "TSEQNUMRETURN" => AnswerSeq
      <4>1. Send => outcome[tpc_seq] \in Decisions
        BY DEF Send, TypeInv, PrimaryTypes
      <4> QED BY <2>3, <4>1 DEF Decisions
    <3>2. \/ i \in DOMAIN to_r /\ to_r'[i] = to_r[i]
          \/ i = Len(to_r) + 1 /\ to_r'[i] = m
      BY <2>3, Sending
    <3> QED BY <2>3, <3>1, <3>2
  <2> QED BY <2>1, <2>2, <2>3, WireMoves
<1>3. Unlogged' => Unnumbered' /\ ~InTransit("LOGFILE")' /\ rec'.place = "none"
  <2>. SUFFICES ASSUME Unlogged' PROVE Unnumbered' /\ ~InTransit("LOGFILE")' /\ rec'.place = "none"
    OBVIOUS
  <2>1. CASE Join
    <3>1. to_r' = <<>> /\ ~member /\ rec' = rec
      BY <2>1 DEF Join
    <3>2. Unnumbered'
      BY <1>0, <2>1, AskMoves
    <3>3. rec'.place = "none"
      BY <1>0, <3>1 DEF CleanInv
    <3> QED BY <3>1, <3>2, <3>3, EmptyFacts DEF InTransit
  <2>2. CASE ~Join
    <3>1. Unlogged /\ Unnumbered' = Unnumbered /\ ~AnswerLog
      <4>1. ~AnswerLog
        BY <1>0, AskMoves
      <4> QED BY <1>1, <2>2, <4>1
    <3>2. Unnumbered /\ ~InTransit("LOGFILE") /\ rec.place = "none"
      BY <1>0, <3>1 DEF PhaseInv
    <3>3. ~InTransit("LOGFILE")'
      BY <1>2, <3>1, <3>2 DEF InTransit
    <3>4. ~ReadLog
      BY <3>2, FirstMessage DEF InTransit, ReadLog
    <3>5. rec'.place = "none"
      BY <3>2, <3>4, PlaceMoves
    <3> QED BY <3>1, <3>2, <3>3, <3>5
  <2> QED BY <2>1, <2>2
<1>4. Unnumbered' => ~InTransit("TSEQNUMRETURN")'
  <2>. SUFFICES ASSUME Unnumbered' PROVE ~InTransit("TSEQNUMRETURN")'
    OBVIOUS
  <2>1. CASE Join
    BY <2>1, EmptyFacts DEF Join, InTransit
  <2>2. CASE ~Join
    <3>1. Unnumbered
      BY <1>1, <2>2
    <3>2. ~AnswerSeq
      BY <1>0, AskMoves
    <3>3. ~InTransit("TSEQNUMRETURN")
      BY <1>0, <3>1 DEF PhaseInv
    <3> QED BY <1>2, <3>2, <3>3 DEF InTransit
  <2> QED BY <2>1, <2>2
<1>5. ASSUME NEW i \in DOMAIN to_r', to_r'[i].type = "LOGFILE"
      PROVE  /\ rec'.place = "none"
             /\ Unnumbered' \/ \E j \in DOMAIN to_r' : j > i /\ to_r'[j].type = "TSEQNUMRETURN"
  <2>1. CASE AnswerLog
    <3>1. rec.place = "none" /\ rec' = rec /\ Unnumbered'
      BY <1>0, <1>1, <2>1, AnswerPhases DEF PhaseInv, AnswerLog, Join, Drop, Hears, Asks
    <3> QED BY <3>1
  <2>2. CASE ~AnswerLog
    <3>1. PICK j \in DOMAIN to_r : to_r'[i] = to_r[j]
      BY <1>2, <1>5, <2>2
    <3>2. rec.place = "none"
      BY <1>0, <1>5, <3>1 DEF PhaseInv
    <3>3. rec'.place = "none"
      <4>1. ASSUME ReadLog PROVE FALSE
        <5>1. 1 \in DOMAIN to_r /\ to_r[1].type = "LOGFILE" /\ to_r # <<>> /\ to_r' = Tail(to_r)
          BY <4>1, FirstMessage DEF ReadLog
        <5>2. i + 1 \in DOMAIN to_r /\ to_r'[i] = to_r[i + 1] /\ 1 < i + 1
          BY <5>1, Reading
        <5> QED BY <1>0, <1>5, <5>1, <5>2 DEF Ordered, Before
      <4> QED BY <3>2, <4>1, PlaceMoves
    <3>4. CASE to_r' = to_r
      <4>1. Unnumbered \/ \E l \in DOMAIN to_r : l > i /\ to_r[l].type = "TSEQNUMRETURN"
        BY <1>0, <1>5, <3>4 DEF PhaseInv
      <4>2. ASSUME AnswerSeq PROVE FALSE
        <5>1. to_r \in Seq(ToReplica)
          BY DEF TypeInv, WireTypes
        <5>2. Len(Append(to_r, [type |-> "TSEQNUMRETURN", seq |-> tpc_seq, last |-> last_seq])) = Len(to_r) + 1
          BY <5>1
        <5> QED BY <3>4, <4>2, <5>1, <5>2 DEF AnswerSeq
      <4>3. ~Drop /\ ~Join
        <5>1. to_r # <<>>
          BY <1>5, <3>4, EmptyFacts
        <5> QED BY <3>4, <5>1 DEF Drop, Join
      <4> QED BY <1>1, <2>2, <3>3, <3>4, <4>1, <4>2, <4>3
    <3>5. CASE to_r' = <<>>
      BY <1>5, <3>5, EmptyFacts
    <3>6. CASE to_r # <<>> /\ to_r' = Tail(to_r)
      <4>1. i + 1 \in DOMAIN to_r /\ to_r'[i] = to_r[i + 1] /\ i \in Nat
        BY <1>5, <3>6, Reading
      <4>2. Unnumbered \/ \E l \in DOMAIN to_r : l > i + 1 /\ to_r[l].type = "TSEQNUMRETURN"
        BY <1>0, <1>5, <4>1 DEF PhaseInv
      <4>3. ASSUME NEW l \in DOMAIN to_r, l > i + 1, to_r[l].type = "TSEQNUMRETURN"
            PROVE  \E h \in DOMAIN to_r' : h > i /\ to_r'[h].type = "TSEQNUMRETURN"
        <5>1. l - 1 \in DOMAIN to_r' /\ to_r'[l - 1] = to_r[l] /\ l \in Nat
          BY <3>6, <4>1, <4>3, Reading
        <5>2. l - 1 > i
          BY <4>1, <4>3, <5>1
        <5> QED BY <4>3, <5>1, <5>2
      <4>4. Unnumbered => Unnumbered'
        <5>1. to_r' # <<>>
          BY <1>5, EmptyFacts
        <5>2. ~Drop /\ ~Join
          BY <5>1 DEF Drop, Join
        <5>3. ASSUME AnswerSeq PROVE FALSE
          <6>1. to_r \in Seq(ToReplica)
            BY DEF TypeInv, WireTypes
          <6>2. Len(Append(to_r, [type |-> "TSEQNUMRETURN", seq |-> tpc_seq, last |-> last_seq])) = Len(to_r) + 1
            BY <6>1
          <6>3. Len(Tail(to_r)) = Len(to_r) - 1 /\ Len(to_r) \in Nat
            BY <3>6, <6>1, TailFacts
          <6> QED BY <3>6, <5>3, <6>2, <6>3 DEF AnswerSeq
        <5> QED BY <1>1, <5>2, <5>3
      <4> QED BY <3>3, <4>2, <4>3, <4>4
    <3>7. ASSUME NEW m \in ToReplica, to_r' = Append(to_r, m), m.type # "LOGFILE",
                 m.type = "TSEQNUMRETURN" \/ ~AnswerSeq
          PROVE  Unnumbered' \/ \E l \in DOMAIN to_r' : l > i /\ to_r'[l].type = "TSEQNUMRETURN"
      <4>1. /\ i \in DOMAIN to_r /\ to_r'[i] = to_r[i] /\ DOMAIN to_r = 1..Len(to_r) /\ Len(to_r) \in Nat
            /\ \A l \in DOMAIN to_r : l \in DOMAIN to_r' /\ to_r'[l] = to_r[l]
            /\ Len(to_r) + 1 \in DOMAIN to_r' /\ to_r'[Len(to_r) + 1] = m
        BY <1>5, <3>7, Sending
      <4>2. CASE m.type = "TSEQNUMRETURN"
        <5>1. Len(to_r) + 1 > i
          BY <4>1
        <5> QED BY <4>1, <4>2, <5>1
      <4>3. CASE ~AnswerSeq
        <5>1. Unnumbered \/ \E l \in DOMAIN to_r : l > i /\ to_r[l].type = "TSEQNUMRETURN"
          BY <1>0, <1>5, <4>1 DEF PhaseInv
        <5>2. ~Drop /\ ~Join
          <6>1. to_r' # <<>>
            BY <1>5, EmptyFacts
          <6> QED BY <6>1 DEF Drop, Join
        <5> QED BY <1>1, <2>2, <4>1, <4>3, <5>1, <5>2
      <4> QED BY <3>7, <4>2, <4>3
    <3>8. ASSUME NEW m \in ToReplica, to_r' = Append(to_r, m),
                 \/ Start /\ m = [type |-> "PREPARE", seq |-> tpc_seq + 1]
                 \/ Send /\ m = [type |-> outcome[tpc_seq], seq |-> tpc_seq]
                 \/ Checkpoint /\ m = [type |-> "CHECKPOINT"]
                 \/ AnswerLog /\ m = [type |-> "LOGFILE", file |-> answer[1]]
                 \/ AnswerSeq /\ m = [type |-> "TSEQNUMRETURN", seq |-> tpc_seq, last |-> last_seq]
          PROVE  Unnumbered' \/ \E l \in DOMAIN to_r' : l > i /\ to_r'[l].type = "TSEQNUMRETURN"
      <4>1. Send => outcome[tpc_seq] \in Decisions
        BY DEF Send, TypeInv, PrimaryTypes
      <4>2. m.type # "LOGFILE"
        BY <2>2, <3>8, <4>1 DEF Decisions
      <4>3. AnswerSeq => m.type = "TSEQNUMRETURN"
        <5>1. AnswerSeq => to_r' = Append(to_r, [type |-> "TSEQNUMRETURN", seq |-> tpc_seq, last |-> last_seq])
          BY DEF AnswerSeq
        <5>2. to_r'[Len(to_r) + 1] = m
          BY <3>8, Sending
        <5>3. AnswerSeq => to_r'[Len(to_r) + 1] = [type |-> "TSEQNUMRETURN", seq |-> tpc_seq, last |-> last_seq]
          <6>1. to_r \in Seq(ToReplica)
            BY DEF TypeInv, WireTypes
          <6> QED BY <5>1, <6>1
        <5> QED BY <5>2, <5>3
      <4> QED BY <3>7, <3>8, <4>2, <4>3
    <3> QED BY <3>3, <3>4, <3>5, <3>6, <3>8, WireMoves
  <2> QED BY <2>1, <2>2
<1> QED BY <1>3, <1>4, <1>5 DEF PhaseInv

LEMMA NextSession == TypeInv /\ TruthInv /\ SessionInv /\ [Next]_vars => SessionInv'
<1>. SUFFICES ASSUME TypeInv, TruthInv, SessionInv, [Next]_vars PROVE SessionInv'
  OBVIOUS
<1>1. CleanInv' /\ AskInv'
  BY NextClean, AskMoves DEF SessionInv
<1> QED BY <1>1, NextOrdered, NextPhase, NextAhead DEF SessionInv

-----------------------------------------------------------------------------
(* From here on nothing that spoils a replica has happened.  What it holds *)
(* is followed from the messages on their way, by where they stand.        *)
Wire       == {to_r[j] : j \in DOMAIN to_r}
Later(i)   == {to_r[j] : j \in {k \in DOMAIN to_r : k > i}}
Earlier(i) == {to_r[j] : j \in {k \in DOMAIN to_r : k < i}}
Spots      == 0..Len(to_r)

(* The log of the primary, empty as soon as a checkpoint has begun, with    *)
(* the record that the decision on its way will become; what the replica   *)
(* has of it; and its table, rebuilt.                                      *)
Recs    == IF checkpointing THEN <<>> ELSE log \o queue
Num     == IF checkpointing THEN 0 ELSE num
Coming  == stage = "sent" /\ Committed(tpc_seq)
AllRecs == IF Coming THEN Append(Recs, [num |-> Num + 1, seq |-> tpc_seq]) ELSE Recs
RRecs   == rlog \o rqueue
SeqsOf(q) == [i \in DOMAIN q |-> q[i].seq]
Seqs(q) == {q[i].seq : i \in DOMAIN q}
Climbs(q) == \A i, j \in DOMAIN q : i < j => q[i].seq < q[j].seq
Rising(q) == \A i, j \in DOMAIN q : i < j => q[i] < q[j]
Mem     == rsaved \o SeqsOf(RRecs)
Saved   == {rsaved[i] : i \in DOMAIN rsaved}
Held    == Saved \cup Seqs(RRecs)

LogInv ==
    /\ Len(Recs) = Num /\ (checkpointing => queue = <<>>)
    /\ \A i \in DOMAIN AllRecs :
          AllRecs[i].num = i /\ Committed(AllRecs[i].seq) /\ AllRecs[i].seq <= Top
    /\ Climbs(AllRecs)

(* What was read for the replica is the log as it still is.                 *)
ReadInv == answer # <<>> => Unlogged /\ answer[1] = [ck |-> ck, recs |-> Recs]

(* The replica knows the transaction numbers from the place i on.          *)
Numbered(i) ==
    /\ rup /\ member
    /\ IF i = 0 THEN ~Unnumbered /\ ~InTransit("TSEQNUMRETURN") ELSE to_r[i].type = "TSEQNUMRETURN"
Base(i) == IF i = 0 THEN rlast ELSE to_r[i].last

Seen(n) == rtpc[n] # "none" \/ [type |-> "PREPARE", seq |-> n] \in Wire

(* Up to the base nothing is executed, after it everything is.             *)
Follows(i) ==
    /\ rlast <= Base(i)
    /\ \A n \in TSeq : rtpc[n] \in Decisions => n <= Base(i) /\ (i # 0 => rtpc[n] # "COMMIT")
    /\ \A n \in rmarked : n <= Base(i)
    /\ \A m \in Earlier(i) : m.type \in Decisions => m.seq <= Base(i)
    /\ \A m \in Earlier(i) : m.type = "COMMIT" => ~Seen(m.seq)
    /\ \A m \in Later(i) : m.type \in Asked => m.seq > Base(i)
    /\ \A n \in TSeq : n > Base(i) /\ n <= Top => [type |-> outcome[n], seq |-> n] \in Wire
    /\ \A n \in TSeq : n > Base(i) /\ n <= tpc_seq =>
          rtpc[n] = "PREPARE" \/ [type |-> "PREPARE", seq |-> n] \in Wire

LaneInv == rup /\ member /\ rlast + 1 \in TSeq => rtpc[rlast + 1] \notin Decisions

(* What the replica was asked while it had no numbers it has not voted on. *)
BlindInv ==
    rup /\ Unnumbered => \A n \in TSeq : Seen(n) =>
        outcome[n] # "COMMIT" /\ (n = tpc_seq /\ stage = "voting" => vote # "YES")

FollowInv == LaneInv /\ BlindInv /\ \A i \in Spots : Numbered(i) => Follows(i)

MemInv ==
    /\ rup => rtable = Mem
    /\ Rising(Mem)
    /\ \A n \in Held : Committed(n) /\ n <= Top
    /\ \A i \in DOMAIN RRecs : RRecs[i].num = i
    /\ rup /\ ~Recovering => rnum = Len(RRecs)
    /\ rqueue # <<>> => Numbered(0) /\ rec.place = "none"

(* The primary's checkpoints on their way.                                 *)
MarkInv ==
    /\ Unlogged => ~InTransit("CHECKPOINT")
    /\ \A i \in DOMAIN to_r : to_r[i].type = "CHECKPOINT" =>
          /\ \A m \in Later(i) : m.type # "LOGFILE"
          /\ \A n \in Seqs(AllRecs) : [type |-> "COMMIT", seq |-> n] \in Later(i)
    /\ \A i \in DOMAIN to_r : to_r[i].type = "COMMIT" =>
          /\ to_r[i].seq \notin Seqs(AllRecs) => \E m \in Later(i) : m.type = "CHECKPOINT"
          /\ \A n \in Held : n < to_r[i].seq

NewestInv ==
    rck = ck =>
       /\ Len(RRecs) <= Len(AllRecs) /\ \A i \in DOMAIN RRecs : RRecs[i] = AllRecs[i]
       /\ \A n \in TSeq : Committed(n) /\ n <= Top => n \in Saved \cup Seqs(AllRecs)
       /\ \A m \in Saved, n \in Seqs(AllRecs) : m < n

(* The log file of the primary, on its way or being replayed.              *)
HasFile(i) == rup /\ IF i = 0 THEN rec.place # "none" ELSE to_r[i].type = "LOGFILE"
FileOf(i)  == IF i = 0 THEN rec.file ELSE to_r[i].file

Fits(F) ==
    /\ Climbs(F.recs)
    /\ \A k \in DOMAIN F.recs : /\ Committed(F.recs[k].seq) /\ F.recs[k].seq <= Top
                                /\ F.recs[k].num = F.recs[1].num + k - 1 /\ F.recs[k].num >= 1
    /\ rck <= F.ck
    /\ F.ck = ck => \A k \in DOMAIN F.recs :
          F.recs[k].num \in DOMAIN AllRecs /\ F.recs[k] = AllRecs[F.recs[k].num]
    /\ rck = F.ck => \A k \in DOMAIN F.recs :
          IF F.recs[k].num \in DOMAIN RRecs THEN RRecs[F.recs[k].num] = F.recs[k]
                                            ELSE \A n \in Held : n < F.recs[k].seq

FileInv ==
    /\ \A i \in Spots : HasFile(i) =>
        /\ Fits(FileOf(i))
        /\ \A m \in Later(i) : m.type = "COMMIT" => \A n \in Seqs(FileOf(i).recs) : n < m.seq
        /\ ~Recovering /\ FileOf(i).recs # <<>> => FileOf(i).recs[1].num = 1
    /\ Recovering =>
        /\ rec.same /\ rec.file.ck = rck /\ rec.top = Len(RRecs) /\ rnum <= Len(RRecs)
        /\ rec.file.recs # <<>> =>
              \/ rec.file.recs[1].num <= rnum /\ Len(RRecs) = rnum
              \/ rec.file.recs[1].num > rnum /\ rec.file.recs[1].num = Len(RRecs) + 1

(* Every transaction committed up to the base is held, or in a file.       *)
Covered(n) == n \in Held \/ \E i \in Spots : HasFile(i) /\ n \in Seqs(FileOf(i).recs)
NotBehind  == \A i \in Spots : HasFile(i) => FileOf(i).ck = rck

CoverInv ==
    /\ \A i \in Spots : Numbered(i) =>
          /\ \A n \in Held : n <= Base(i)
          /\ \A h \in Spots : HasFile(h) => \A n \in Seqs(FileOf(h).recs) : n <= Base(i)
          /\ NotBehind => \A n \in TSeq : Committed(n) /\ n <= Base(i) => Covered(n)
    /\ rup /\ Unnumbered /\ ~Unlogged /\ NotBehind =>
          \A n \in TSeq : Committed(n) /\ n <= last_seq => Covered(n)

HoldInv == LogInv /\ ReadInv /\ FollowInv /\ MemInv /\ MarkInv /\ NewestInv /\ FileInv /\ CoverInv

LEMMA Monotone == [Next]_vars => spoiled \subseteq spoiled'
<1>. SUFFICES ASSUME [Next]_vars PROVE spoiled \subseteq spoiled'
  OBVIOUS
<1>1. CASE Start \/ Send \/ Apply \/ AnswerLog \/ AnswerSeq \/ ReadVote \/ Drop \/ ReadFile \/ CheckpointEnds \/ OwnCheckpoint \/ Flush \/ Checkpoint \/ Join
  BY <1>1 DEF Start, Send, Apply, AnswerLog, AnswerSeq, ReadVote, Drop, ReadFile, CheckpointEnds, OwnCheckpoint, Flush, Checkpoint, Join
<1>2. CASE ReadLog \/ ReadSeq \/ ReadPrepare \/ ReadCheckpoint \/ ReplicaFlush \/ ReplayBegins \/ Replay
  BY <1>2 DEF ReadLog, ReadSeq, ReadPrepare, ReadCheckpoint, ReplicaFlush, ReplayBegins, Replay
<1>3. CASE ReplayEnds \/ Crash \/ Restart \/ \E d \in Decisions : Decide(d) \/ ReadDecision(d)
  BY <1>3 DEF ReplayEnds, Crash, Restart, Decide, ReadDecision, ProcessQueue
<1>4. CASE UNCHANGED vars
  BY <1>4 DEF vars
<1> QED BY <1>1, <1>2, <1>3, <1>4, Steps

(* Where the messages stand, and how that moves.                           *)
LEMMA Around ==
    ASSUME TypeInv
    PROVE  /\ Wire \subseteq ToReplica /\ Later(0) = Wire /\ Earlier(0) = {}
           /\ Len(to_r) \in Nat /\ 0 \in Spots /\ DOMAIN to_r \subseteq Spots
           /\ \A i \in Spots : /\ i \in Nat /\ Later(i) \subseteq Wire /\ Earlier(i) \subseteq Wire
                               /\ i # 0 => i \in DOMAIN to_r /\ to_r[i] \in Wire /\ i >= 1
           /\ 0 \notin DOMAIN to_r
<1>1. to_r \in Seq(ToReplica) /\ DOMAIN to_r = 1..Len(to_r) /\ Len(to_r) \in Nat
  BY DEF TypeInv, WireTypes
<1>2. Wire \subseteq ToReplica
  BY <1>1 DEF Wire
<1>3. \A k \in DOMAIN to_r : k > 0 /\ ~(k < 0)
  BY <1>1
<1>4. Later(0) = Wire /\ Earlier(0) = {}
  BY <1>3 DEF Later, Earlier, Wire
<1>5. \A i \in Spots : i \in Nat /\ (i # 0 => i \in DOMAIN to_r /\ i >= 1)
  BY <1>1 DEF Spots
<1>6. \A i \in Spots : Later(i) \subseteq Wire /\ Earlier(i) \subseteq Wire /\ (i # 0 => to_r[i] \in Wire)
  BY <1>5 DEF Later, Earlier, Wire
<1>7. 0 \in Spots /\ DOMAIN to_r \subseteq Spots /\ 0 \notin DOMAIN to_r
  BY <1>1 DEF Spots
<1> QED BY <1>1, <1>2, <1>4, <1>5, <1>6, <1>7

LEMMA InOrder ==
    ASSUME TypeInv, Ordered(to_r)
    PROVE  \A i \in DOMAIN to_r : /\ \A m \in Later(i) : Before(to_r[i], m)
                                  /\ \A m \in Earlier(i) : Before(m, to_r[i])
BY DEF Ordered, Later, Earlier

LEMMA FirstFacts ==
    ASSUME TypeInv, to_r # <<>>
    PROVE  /\ 1 \in DOMAIN to_r /\ 1 \in Spots /\ to_r[1] \in Wire /\ Wire = {to_r[1]} \cup Later(1)
           /\ Earlier(1) = {}
           /\ \A i \in DOMAIN to_r : i # 1 => to_r[1] \in Earlier(i) /\ to_r[i] \in Later(1)
                                              /\ Later(i) \subseteq Later(1)
<1>1. to_r \in Seq(ToReplica) /\ DOMAIN to_r = 1..Len(to_r) /\ Len(to_r) \in Nat
  BY DEF TypeInv, WireTypes
<1>2. 1 \in DOMAIN to_r
  BY <1>1, TailFacts
<1>3. \A k \in DOMAIN to_r : k = 1 \/ k > 1
  BY <1>1
<1>4. Wire = {to_r[1]} \cup Later(1)
  BY <1>2, <1>3 DEF Wire, Later
<1>5. \A k \in DOMAIN to_r : ~(k < 1)
  BY <1>1
<1>6. Earlier(1) = {}
  BY <1>5 DEF Earlier
<1>7. ASSUME NEW i \in DOMAIN to_r, i # 1
      PROVE  to_r[1] \in Earlier(i) /\ to_r[i] \in Later(1) /\ Later(i) \subseteq Later(1)
  <2>1. 1 < i /\ i > 1 /\ \A k \in DOMAIN to_r : k > i => k > 1
    BY <1>1, <1>7
  <2> QED BY <1>2, <2>1 DEF Earlier, Later
<1> QED BY <1>2, <1>4, <1>6, <1>7, Around

LEMMA Kept ==
    ASSUME to_r' = to_r
    PROVE  Wire' = Wire /\ Spots' = Spots /\ \A i : Later(i)' = Later(i) /\ Earlier(i)' = Earlier(i)
BY DEF Wire, Spots, Later, Earlier

LEMMA Gone ==
    ASSUME to_r' = <<>>
    PROVE  Wire' = {} /\ Spots' = {0} /\ DOMAIN to_r' = {} /\ \A i : Later(i)' = {} /\ Earlier(i)' = {}
<1>1. DOMAIN to_r' = {} /\ Len(to_r') = 0
  BY EmptyFacts
<1>2. Spots' = 0..Len(to_r')
  BY DEF Spots
<1>3. Spots' = {0}
  BY <1>1, <1>2
<1> QED BY <1>1, <1>3 DEF Wire, Later, Earlier

LEMMA Grown ==
    ASSUME TypeInv, NEW m \in ToReplica, to_r' = Append(to_r, m)
    PROVE  /\ Wire' = Wire \cup {m} /\ Spots' = Spots \cup {Len(to_r) + 1} /\ Len(to_r) + 1 # 0
           /\ Len(to_r) + 1 \notin Spots /\ Len(to_r) + 1 \in DOMAIN to_r'
           /\ \A i \in Spots : /\ Later(i)' = Later(i) \cup {m} /\ Earlier(i)' = Earlier(i)
                               /\ i # 0 => to_r'[i] = to_r[i] /\ i \in DOMAIN to_r'
           /\ to_r'[Len(to_r) + 1] = m
           /\ \A i \in {Len(to_r) + 1} : Later(i)' = {} /\ Earlier(i)' = Wire
<1>0. to_r \in Seq(ToReplica)
  BY DEF TypeInv, WireTypes
<1>. DEFINE l == Len(to_r)
<1>1. /\ DOMAIN to_r = 1..l /\ l \in Nat /\ DOMAIN to_r' = 1..(l + 1) /\ Len(to_r') = l + 1
      /\ \A k \in DOMAIN to_r : to_r'[k] = to_r[k]
      /\ to_r'[l + 1] = m
  BY <1>0, AppendFacts
<1>. HIDE DEF l
<1>2. DOMAIN to_r' = DOMAIN to_r \cup {l + 1} /\ l + 1 \notin DOMAIN to_r
  BY <1>1
<1>3. Wire' = Wire \cup {m}
  BY <1>1, <1>2 DEF Wire
<1>4. Spots = 0..l /\ Spots' = 0..(l + 1)
  BY <1>1 DEF Spots, l
<1>5. Spots' = Spots \cup {l + 1} /\ l + 1 \notin Spots /\ l + 1 # 0
  BY <1>1, <1>4
<1>6. ASSUME NEW i \in Spots
      PROVE  /\ Later(i)' = Later(i) \cup {m} /\ Earlier(i)' = Earlier(i)
             /\ i # 0 => to_r'[i] = to_r[i] /\ i \in DOMAIN to_r'
  <2>1. l + 1 > i /\ ~(l + 1 < i) /\ (i # 0 => i \in DOMAIN to_r)
    BY <1>1, <1>4
  <2>2. {k \in DOMAIN to_r' : k > i} = {k \in DOMAIN to_r : k > i} \cup {l + 1}
    BY <1>2, <2>1
  <2>3. {k \in DOMAIN to_r' : k < i} = {k \in DOMAIN to_r : k < i}
    BY <1>2, <2>1
  <2>4. Later(i)' = Later(i) \cup {m}
    BY <1>1, <2>2 DEF Later
  <2>5. Earlier(i)' = Earlier(i)
    BY <1>1, <2>3 DEF Earlier
  <2> QED BY <1>1, <1>2, <2>1, <2>4, <2>5
<1>7. /\ {k \in DOMAIN to_r' : k > l + 1} = {}
      /\ {k \in DOMAIN to_r' : k < l + 1} = DOMAIN to_r
  BY <1>1
<1>8. \A i \in {l + 1} : Later(i)' = {} /\ Earlier(i)' = Wire
  BY <1>1, <1>7 DEF Later, Earlier, Wire
<1> QED BY <1>1, <1>2, <1>3, <1>5, <1>6, <1>8 DEF l

LEMMA Shifted ==
    ASSUME TypeInv, to_r # <<>>, to_r' = Tail(to_r)
    PROVE  /\ Wire' = Later(1) /\ Wire' \subseteq Wire /\ Wire = {to_r[1]} \cup Wire'
           /\ \A i \in Spots' : /\ i \in Nat /\ i + 1 \in DOMAIN to_r /\ i + 1 \in Spots /\ i + 1 # 0
                                /\ Later(i)' = Later(i + 1) /\ Earlier(i)' \subseteq Earlier(i + 1)
                                /\ i # 0 => to_r'[i] = to_r[i + 1] /\ to_r[1] \in Earlier(i + 1)
                                            /\ i \in DOMAIN to_r' /\ i + 1 # 1
           /\ \A i \in DOMAIN to_r' : i \in Spots' /\ i # 0
<1>0. to_r \in Seq(ToReplica)
  BY DEF TypeInv, WireTypes
<1>. DEFINE l == Len(to_r)
<1>1. /\ DOMAIN to_r = 1..l /\ l \in Nat /\ l >= 1 /\ 1 \in DOMAIN to_r
      /\ DOMAIN to_r' = 1..(l - 1) /\ Len(to_r') = l - 1
      /\ \A i \in DOMAIN to_r' : i + 1 \in DOMAIN to_r /\ to_r'[i] = to_r[i + 1]
  BY <1>0, TailFacts
<1>. HIDE DEF l
<1>2. Spots = 0..l /\ Spots' = 0..(l - 1)
  BY <1>1 DEF Spots, l
<1>3. ASSUME NEW i \in Spots'
      PROVE  /\ i \in Nat /\ i + 1 \in DOMAIN to_r /\ i + 1 \in Spots /\ i + 1 # 0
             /\ Later(i)' = Later(i + 1) /\ Earlier(i)' \subseteq Earlier(i + 1)
             /\ i # 0 => to_r'[i] = to_r[i + 1] /\ to_r[1] \in Earlier(i + 1)
                         /\ i \in DOMAIN to_r' /\ i + 1 # 1
  <2>1. /\ i \in Nat /\ i + 1 \in DOMAIN to_r /\ i + 1 \in Spots /\ i + 1 # 0
        /\ i # 0 => i \in DOMAIN to_r' /\ 1 < i + 1 /\ i + 1 # 1
    BY <1>1, <1>2
  <2>2. Later(i)' \subseteq Later(i + 1)
    <3>1. SUFFICES ASSUME NEW k \in DOMAIN to_r', k > i PROVE to_r'[k] \in Later(i + 1)
      BY DEF Later
    <3>2. k + 1 \in DOMAIN to_r /\ to_r'[k] = to_r[k + 1] /\ k + 1 > i + 1
      BY <1>1, <2>1, <3>1
    <3> QED BY <3>2 DEF Later
  <2>3. Later(i + 1) \subseteq Later(i)'
    <3>1. SUFFICES ASSUME NEW k \in DOMAIN to_r, k > i + 1 PROVE to_r[k] \in Later(i)'
      BY DEF Later
    <3>2. k - 1 \in DOMAIN to_r' /\ (k - 1) + 1 = k /\ k - 1 > i
      BY <1>1, <2>1, <3>1
    <3>3. to_r'[k - 1] = to_r[k]
      BY <1>1, <3>2
    <3> QED BY <3>2, <3>3 DEF Later
  <2>4. Earlier(i)' \subseteq Earlier(i + 1)
    <3>1. SUFFICES ASSUME NEW k \in DOMAIN to_r', k < i PROVE to_r'[k] \in Earlier(i + 1)
      BY DEF Earlier
    <3>2. k + 1 \in DOMAIN to_r /\ to_r'[k] = to_r[k + 1] /\ k + 1 < i + 1
      BY <1>1, <2>1, <3>1
    <3> QED BY <3>2 DEF Earlier
  <2>5. i # 0 => to_r[1] \in Earlier(i + 1)
    BY <1>1, <2>1 DEF Earlier
  <2> QED BY <1>1, <2>1, <2>2, <2>3, <2>4, <2>5
<1>4. 0 \in Spots'
  BY <1>1, <1>2
<1>5. Wire' = Later(0)'
  <2>1. \A k \in DOMAIN to_r' : k > 0
    BY <1>1
  <2> QED BY <2>1 DEF Wire, Later
<1>6. Wire' = Later(1)
  <2>1. 0 + 1 = 1
    OBVIOUS
  <2> QED BY <1>3, <1>4, <1>5, <2>1
<1>7. \A i \in DOMAIN to_r' : i \in Spots' /\ i # 0
  BY <1>1, <1>2
<1> QED BY <1>3, <1>6, <1>7, FirstFacts

-----------------------------------------------------------------------------
(* Records and tables.                                                     *)
LEMMA RecordFields ==
    ASSUME NEW q \in Seq(Record)
    PROVE  /\ Len(q) \in Nat /\ DOMAIN q = 1..Len(q)
           /\ \A i \in DOMAIN q : q[i] \in Record /\ q[i].num \in Nat /\ q[i].seq \in TSeq /\ i \in Nat
           /\ SeqsOf(q) \in Seq(TSeq) /\ Len(SeqsOf(q)) = Len(q) /\ DOMAIN SeqsOf(q) = DOMAIN q
           /\ \A i \in DOMAIN q : SeqsOf(q)[i] = q[i].seq
           /\ Seqs(q) \subseteq TSeq /\ Seqs(q) = {SeqsOf(q)[i] : i \in DOMAIN SeqsOf(q)}
<1>1. /\ Len(q) \in Nat /\ DOMAIN q = 1..Len(q)
      /\ \A i \in DOMAIN q : q[i] \in Record /\ i \in Nat
  OBVIOUS
<1>2. \A i \in DOMAIN q : q[i].num \in Nat /\ q[i].seq \in TSeq
  BY <1>1 DEF Record
<1>3. /\ SeqsOf(q) \in Seq(TSeq) /\ Len(SeqsOf(q)) = Len(q) /\ DOMAIN SeqsOf(q) = DOMAIN q
      /\ \A i \in DOMAIN q : SeqsOf(q)[i] = q[i].seq
  <2>1. SeqsOf(q) \in [1..Len(q) -> TSeq]
    BY <1>1, <1>2 DEF SeqsOf
  <2>2. SeqsOf(q) \in Seq(TSeq) /\ Len(SeqsOf(q)) = Len(q)
    BY <1>1, <2>1
  <2> QED BY <1>1, <2>1, <2>2 DEF SeqsOf
<1> QED BY <1>1, <1>2, <1>3 DEF Seqs

LEMMA JoinEmpty ==
    ASSUME NEW S, NEW p \in Seq(S)
    PROVE  p \o <<>> = p
OBVIOUS

LEMMA JoinAppend ==
    ASSUME NEW S, NEW p \in Seq(S), NEW q \in Seq(S), NEW x \in S
    PROVE  p \o Append(q, x) = Append(p \o q, x)
OBVIOUS

LEMMA SeqsOfAppend ==
    ASSUME NEW q \in Seq(Record), NEW x \in Record
    PROVE  /\ SeqsOf(Append(q, x)) = Append(SeqsOf(q), x.seq)
           /\ Seqs(Append(q, x)) = Seqs(q) \cup {x.seq}
<1>. DEFINE p == Append(q, x)
<1>1. /\ p \in Seq(Record) /\ Len(q) \in Nat /\ Len(p) = Len(q) + 1
      /\ DOMAIN q = 1..Len(q) /\ DOMAIN p = 1..(Len(q) + 1)
      /\ \A i \in DOMAIN q : p[i] = q[i]
      /\ p[Len(q) + 1] = x
  BY AppendFacts
<1>. HIDE DEF p
<1>2. DOMAIN p = DOMAIN q \cup {Len(q) + 1}
  BY <1>1
<1>3. Seqs(p) = Seqs(q) \cup {x.seq}
  BY <1>1, <1>2 DEF Seqs
<1>. DEFINE s == SeqsOf(q)
            t == SeqsOf(p)
            u == Append(s, x.seq)
<1>4. /\ s \in Seq(TSeq) /\ Len(s) = Len(q) /\ \A i \in DOMAIN q : s[i] = q[i].seq
      /\ t \in Seq(TSeq) /\ Len(t) = Len(p) /\ \A i \in DOMAIN p : t[i] = p[i].seq
      /\ DOMAIN s = DOMAIN q /\ DOMAIN t = DOMAIN p
  BY <1>1, RecordFields
<1>5. x.seq \in TSeq
  BY DEF Record
<1>. HIDE DEF s, t
<1>6. /\ u \in Seq(TSeq) /\ Len(u) = Len(q) + 1 /\ DOMAIN u = 1..(Len(q) + 1)
      /\ \A i \in DOMAIN q : u[i] = s[i]
      /\ u[Len(q) + 1] = x.seq
  BY <1>4, <1>5, AppendFacts
<1>. HIDE DEF u
<1>7. \A i \in DOMAIN p : t[i] = u[i]
  BY <1>1, <1>2, <1>4, <1>6
<1>8. t = u
  BY <1>1, <1>4, <1>6, <1>7
<1> QED BY <1>3, <1>8 DEF p, s, t, u

LEMMA RisingAppend ==
    ASSUME NEW q \in Seq(TSeq), NEW n \in TSeq, Rising(q), \A i \in DOMAIN q : q[i] < n
    PROVE  Rising(Append(q, n))
<1>1. /\ Len(q) \in Nat /\ DOMAIN q = 1..Len(q) /\ DOMAIN Append(q, n) = 1..(Len(q) + 1)
      /\ \A i \in DOMAIN q : Append(q, n)[i] = q[i]
      /\ Append(q, n)[Len(q) + 1] = n
  BY AppendFacts
<1>2. SUFFICES ASSUME NEW i \in DOMAIN Append(q, n), NEW j \in DOMAIN Append(q, n), i < j
               PROVE  Append(q, n)[i] < Append(q, n)[j]
  BY DEF Rising
<1>3. i \in DOMAIN q /\ (j \in DOMAIN q \/ j = Len(q) + 1)
  BY <1>1, <1>2
<1> QED BY <1>1, <1>2, <1>3 DEF Rising

LEMMA ClimbsAppend ==
    ASSUME NEW q \in Seq(Record), NEW x \in Record, Climbs(q), \A n \in Seqs(q) : n < x.seq
    PROVE  Climbs(Append(q, x))
<1>1. /\ Len(q) \in Nat /\ DOMAIN q = 1..Len(q) /\ DOMAIN Append(q, x) = 1..(Len(q) + 1)
      /\ \A i \in DOMAIN q : Append(q, x)[i] = q[i]
      /\ Append(q, x)[Len(q) + 1] = x
  BY AppendFacts
<1>2. SUFFICES ASSUME NEW i \in DOMAIN Append(q, x), NEW j \in DOMAIN Append(q, x), i < j
               PROVE  Append(q, x)[i].seq < Append(q, x)[j].seq
  BY DEF Climbs
<1>3. i \in DOMAIN q /\ (j \in DOMAIN q \/ j = Len(q) + 1)
  BY <1>1, <1>2
<1>4. q[i].seq \in Seqs(q)
  BY <1>3 DEF Seqs
<1> QED BY <1>1, <1>2, <1>3, <1>4 DEF Climbs

LEMMA ClimbsTail ==
    ASSUME NEW q \in Seq(Record), q # <<>>, Climbs(q)
    PROVE  /\ Climbs(Tail(q)) /\ \A n \in Seqs(Tail(q)) : q[1].seq < n
           /\ Seqs(q) = {q[1].seq} \cup Seqs(Tail(q))
<1>1. /\ Tail(q) \in Seq(Record) /\ Len(q) \in Nat \ {0}
      /\ DOMAIN q = 1..Len(q) /\ DOMAIN Tail(q) = 1..(Len(q) - 1)
      /\ \A i \in DOMAIN Tail(q) : i + 1 \in DOMAIN q /\ Tail(q)[i] = q[i + 1]
      /\ 1 \in DOMAIN q
  BY TailFacts
<1>2. \A i, j \in DOMAIN Tail(q) : i < j => i + 1 < j + 1
  BY <1>1
<1>3. Climbs(Tail(q))
  BY <1>1, <1>2 DEF Climbs
<1>4. ASSUME NEW i \in DOMAIN Tail(q)
      PROVE  q[1].seq < Tail(q)[i].seq
  <2>1. 1 < i + 1
    BY <1>1
  <2> QED BY <1>1, <2>1 DEF Climbs
<1>5. ASSUME NEW i \in DOMAIN q, i # 1
      PROVE  q[i].seq \in Seqs(Tail(q))
  <2>1. i - 1 \in DOMAIN Tail(q) /\ (i - 1) + 1 = i
    BY <1>1, <1>5
  <2>2. Tail(q)[i - 1] = q[i]
    BY <1>1, <2>1
  <2> QED BY <2>1, <2>2 DEF Seqs
<1> QED BY <1>1, <1>3, <1>4, <1>5 DEF Seqs

LEMMA RecordTypes ==
    ASSUME TypeInv
    PROVE  /\ log \in Seq(Record) /\ queue \in Seq(Record) /\ Recs \in Seq(Record)
           /\ rlog \in Seq(Record) /\ rqueue \in Seq(Record) /\ RRecs \in Seq(Record)
           /\ AllRecs \in Seq(Record) /\ (Coming => [num |-> Num + 1, seq |-> tpc_seq] \in Record)
           /\ Num \in Nat
           /\ rsaved \in Seq(TSeq) /\ Mem \in Seq(TSeq) /\ Held \subseteq TSeq /\ Saved \subseteq TSeq
           /\ Held = {Mem[i] : i \in DOMAIN Mem}
<1>1. /\ log \in Seq(Record) /\ queue \in Seq(Record) /\ rlog \in Seq(Record) /\ rqueue \in Seq(Record)
      /\ rsaved \in Seq(TSeq)
  BY DEF TypeInv, LogTypes, DiskTypes
<1>2. Recs \in Seq(Record) /\ RRecs \in Seq(Record)
  BY <1>1, JoinedFacts, EmptyFacts DEF Recs, RRecs
<1>11. Num \in Nat
  BY Numbers DEF Num
<1>3. Coming => [num |-> Num + 1, seq |-> tpc_seq] \in Record
  <2>1. Coming => tpc_seq \in TSeq
    BY StageFacts DEF Coming
  <2> QED BY <2>1, <1>11 DEF Record
<1>4. AllRecs \in Seq(Record)
  BY <1>2, <1>3, AppendFacts DEF AllRecs
<1>5. SeqsOf(RRecs) \in Seq(TSeq) /\ Seqs(RRecs) = {SeqsOf(RRecs)[i] : i \in DOMAIN SeqsOf(RRecs)}
      /\ Seqs(RRecs) \subseteq TSeq
  BY <1>2, RecordFields
<1>. DEFINE r == SeqsOf(RRecs)
<1>. HIDE DEF r
<1>6. /\ Mem \in Seq(TSeq) /\ Len(rsaved) \in Nat /\ Len(r) \in Nat
      /\ DOMAIN Mem = 1..(Len(rsaved) + Len(r)) /\ DOMAIN rsaved = 1..Len(rsaved) /\ DOMAIN r = 1..Len(r)
      /\ \A i \in DOMAIN rsaved : Mem[i] = rsaved[i]
      /\ \A i \in DOMAIN r : Mem[Len(rsaved) + i] = r[i]
  BY <1>1, <1>5, JoinedFacts DEF Mem, r
<1>7. Saved \subseteq TSeq
  BY <1>1 DEF Saved
<1>8. Seqs(RRecs) = {r[i] : i \in DOMAIN r}
  BY <1>5 DEF r
<1>9. Held \subseteq {Mem[i] : i \in DOMAIN Mem}
  <2>1. \A i \in DOMAIN rsaved : i \in DOMAIN Mem
    BY <1>6
  <2>2. \A i \in DOMAIN r : Len(rsaved) + i \in DOMAIN Mem
    BY <1>6
  <2> QED BY <1>6, <1>8, <2>1, <2>2 DEF Held, Saved
<1>10. {Mem[i] : i \in DOMAIN Mem} \subseteq Held
  <2>1. SUFFICES ASSUME NEW i \in DOMAIN Mem PROVE Mem[i] \in Held
    OBVIOUS
  <2>2. CASE i \in DOMAIN rsaved
    BY <1>6, <2>2 DEF Held, Saved
  <2>3. CASE i \notin DOMAIN rsaved
    <3>1. i - Len(rsaved) \in DOMAIN r /\ Len(rsaved) + (i - Len(rsaved)) = i
      BY <1>6, <2>3
    <3>2. Mem[i] = r[i - Len(rsaved)]
      BY <1>6, <3>1
    <3> QED BY <1>8, <3>1, <3>2 DEF Held
  <2> QED BY <2>2, <2>3
<1> QED BY <1>1, <1>2, <1>3, <1>4, <1>5, <1>6, <1>7, <1>9, <1>10, <1>11 DEF Held

(* How a step changes the log of the primary.                              *)
LEMMA LogMoves ==
    ASSUME TypeInv, LogInv, [Next]_vars, spoiled' = {}
    PROVE  \/ /\ AllRecs' = AllRecs /\ ck' = ck
              /\ \/ Recs' = Recs /\ Num' = Num
                 \/ Apply /\ Coming /\ Recs' = AllRecs /\ Num' = Num + 1
           \/ /\ Send /\ Committed(tpc_seq) /\ Recs' = Recs /\ Num' = Num /\ ck' = ck /\ AllRecs = Recs
              /\ AllRecs' = Append(AllRecs, [num |-> Num + 1, seq |-> tpc_seq])
           \/ Checkpoint /\ AllRecs' = <<>> /\ Recs' = <<>> /\ Num' = 0 /\ ck' = ck + 1
<1>0. /\ log \in Seq(Record) /\ queue \in Seq(Record) /\ Recs \in Seq(Record)
      /\ Coming => [num |-> Num + 1, seq |-> tpc_seq] \in Record
  BY RecordTypes
<1>1. CASE UNCHANGED <<log, queue, num, ck, checkpointing, tpc_seq, stage, outcome>>
  BY <1>1 DEF AllRecs, Recs, Num, Coming, Committed
<1>2. CASE UNCHANGED vars
  BY <1>1, <1>2 DEF vars, lvars, pvars
<1>3. CASE \/ AnswerLog \/ AnswerSeq \/ ReadVote \/ Drop \/ Join
           \/ ReadLog \/ ReadSeq \/ ReadPrepare \/ ReadCheckpoint
  BY <1>1, <1>3 DEF AnswerLog, AnswerSeq, ReadVote, Drop, Join, ReadLog, ReadSeq, ReadPrepare,
                    ReadCheckpoint, lvars, pvars
<1>4. CASE \/ ReplicaFlush \/ OwnCheckpoint \/ ReplayBegins \/ Replay \/ ReplayEnds \/ Crash \/ Restart
           \/ \E d \in Decisions : ReadDecision(d)
  BY <1>1, <1>4 DEF ReplicaFlush, OwnCheckpoint, ReplayBegins, Replay, ReplayEnds, Crash, Restart,
                    ReadDecision, lvars, pvars
<1>5. CASE ReadFile \/ Flush
  <2>1. /\ log' = log \o queue /\ queue' = <<>> /\ checkpointing \in BOOLEAN
        /\ UNCHANGED <<num, ck, checkpointing, tpc_seq, stage, outcome>>
    BY <1>5 DEF ReadFile, Flush, pvars, TypeInv, LogTypes
  <2>2. ~checkpointing
    BY <1>5 DEF ReadFile, Flush
  <2>3. log' \o queue' = log \o queue
    BY <1>0, <2>1, <2>2, JoinEmpty DEF Recs
  <2>4. Recs' = Recs /\ Num' = Num
    BY <2>1, <2>3 DEF Recs, Num
  <2> QED BY <2>1, <2>4 DEF AllRecs, Coming, Committed
<1>6. CASE Start \/ \E d \in Decisions : Decide(d)
  <2>1. UNCHANGED <<log, queue, num, ck, checkpointing>> /\ stage # "sent" /\ stage' # "sent"
    BY <1>6 DEF Start, Decide, lvars
  <2> QED BY <2>1 DEF AllRecs, Recs, Num, Coming
<1>7. CASE Send
  <2>1. /\ UNCHANGED <<log, queue, num, ck, checkpointing, tpc_seq, outcome>>
        /\ stage = "decided" /\ stage' = "sent"
    BY <1>7 DEF Send, lvars
  <2>2. Recs' = Recs /\ Num' = Num /\ AllRecs = Recs
    BY <2>1 DEF AllRecs, Recs, Num, Coming
  <2> QED BY <1>7, <2>1, <2>2 DEF AllRecs, Coming, Committed
<1>8. CASE Apply
  <2>1. /\ stage = "sent" /\ stage' = "idle" /\ UNCHANGED <<log, ck, checkpointing, outcome>>
        /\ \/ /\ Committed(tpc_seq) /\ num' = num + 1 /\ ~checkpointing
              /\ queue' = Append(queue, [num |-> num + 1, seq |-> tpc_seq])
           \/ ~Committed(tpc_seq) /\ UNCHANGED <<num, queue>>
    BY <1>8 DEF Apply, Committed
  <2>2. CASE Committed(tpc_seq)
    <3>1. Coming /\ [num |-> Num + 1, seq |-> tpc_seq] \in Record /\ Num = num /\ Num' = Num + 1
      BY <1>0, <2>1, <2>2 DEF Coming, Num
    <3>2. Recs' = Append(Recs, [num |-> Num + 1, seq |-> tpc_seq])
      <4>1. Recs' = log \o Append(queue, [num |-> Num + 1, seq |-> tpc_seq]) /\ Recs = log \o queue
        BY <2>1, <2>2, <3>1 DEF Recs
      <4>2. log \o Append(queue, [num |-> Num + 1, seq |-> tpc_seq])
              = Append(log \o queue, [num |-> Num + 1, seq |-> tpc_seq])
        BY <1>0, <3>1, JoinAppend
      <4> QED BY <4>1, <4>2
    <3>3. AllRecs = Recs'
      BY <3>1, <3>2 DEF AllRecs
    <3> QED BY <1>8, <2>1, <3>1, <3>3 DEF AllRecs, Coming
  <2>3. CASE ~Committed(tpc_seq)
    BY <2>1, <2>3 DEF AllRecs, Recs, Num, Coming
  <2> QED BY <2>2, <2>3
<1>9. CASE Checkpoint
  <2>1. /\ stage # "sent" /\ checkpointing' /\ ck' = ck + 1 /\ UNCHANGED stage
    BY <1>9 DEF Checkpoint, pvars
  <2>2. Recs' = <<>> /\ Num' = 0
    BY <2>1 DEF Recs, Num
  <2> QED BY <1>9, <2>1, <2>2 DEF AllRecs, Coming
<1>10. CASE CheckpointEnds
  <2>1. /\ checkpointing /\ ~checkpointing' /\ log' = <<>> /\ num' = 0 /\ queue = <<>>
        /\ UNCHANGED <<queue, ck, tpc_seq, stage, outcome>>
    BY <1>10 DEF CheckpointEnds, pvars, LogInv
  <2>2. log' \o queue' = <<>>
    BY <2>1, EmptyFacts, JoinEmpty
  <2>3. Recs' = Recs /\ Num' = Num
    BY <2>1, <2>2 DEF Recs, Num
  <2> QED BY <2>1, <2>3 DEF AllRecs, Coming, Committed
<1> QED BY <1>2, <1>3, <1>4, <1>5, <1>6, <1>7, <1>8, <1>9, <1>10, Steps

(* What was committed and decided stays so.                                *)
LEMMA Stays ==
    ASSUME TypeInv, [Next]_vars, NEW n \in TSeq, n <= Top
    PROVE  n <= Top' /\ outcome'[n] = outcome[n]
<1>1. Top \in Nat /\ Top' \in Nat /\ Top <= Top' /\ n \in Nat
  BY TopMoves, StageFacts, Numbers
<1> QED BY <1>1, TopMoves

LEMMA LogFrame ==
    ASSUME [Next]_vars, ~Checkpoint, ~ReadFile, ~Flush, ~CheckpointEnds, ~Apply
    PROVE  UNCHANGED <<log, queue, num, ck, checkpointing>>
<1>1. CASE UNCHANGED vars \/ Start \/ Send \/ AnswerLog \/ AnswerSeq \/ ReadVote \/ Drop \/ Join
  BY <1>1 DEF vars, lvars, Start, Send, AnswerLog, AnswerSeq, ReadVote, Drop, Join
<1>2. CASE ReadLog \/ ReadSeq \/ ReadPrepare \/ ReadCheckpoint
  BY <1>2 DEF lvars, ReadLog, ReadSeq, ReadPrepare, ReadCheckpoint
<1>3. CASE \E d \in Decisions : Decide(d) \/ ReadDecision(d)
  BY <1>3 DEF lvars, Decide, ReadDecision
<1>4. CASE \/ ReplicaFlush \/ OwnCheckpoint \/ ReplayBegins \/ Replay \/ ReplayEnds \/ Crash
           \/ Restart
  BY <1>4 DEF lvars, ReplicaFlush, OwnCheckpoint, ReplayBegins, Replay, ReplayEnds, Crash, Restart
<1> QED BY <1>1, <1>2, <1>3, <1>4, Steps

LEMMA NextLog ==
    ASSUME TypeInv, LogInv, [Next]_vars, spoiled' = {}
    PROVE  LogInv'
<1>0. AllRecs \in Seq(Record) /\ Recs \in Seq(Record) /\ Num \in Nat
  BY RecordTypes
<1>1. /\ Len(Recs) = Num /\ Climbs(AllRecs)
      /\ \A i \in DOMAIN AllRecs :
            AllRecs[i].num = i /\ Committed(AllRecs[i].seq) /\ AllRecs[i].seq <= Top
            /\ AllRecs[i].seq \in TSeq
  BY <1>0, RecordFields DEF LogInv
<1>2. \A i \in DOMAIN AllRecs : AllRecs[i].seq <= Top' /\ outcome'[AllRecs[i].seq] = "COMMIT"
  BY <1>1, Stays DEF Committed
<1>7. checkpointing' => queue' = <<>>
  <2>1. SUFFICES ASSUME checkpointing' PROVE queue' = <<>>
    OBVIOUS
  <2>2. CASE Checkpoint \/ ReadFile \/ Flush \/ CheckpointEnds
    BY <2>1, <2>2 DEF Checkpoint, ReadFile, Flush, CheckpointEnds
  <2>3. CASE Apply
    BY <2>1, <2>3 DEF Apply, LogInv
  <2>4. CASE ~Checkpoint /\ ~ReadFile /\ ~Flush /\ ~CheckpointEnds /\ ~Apply
    <3>1. UNCHANGED <<checkpointing, queue>>
      BY <2>4, LogFrame
    <3> QED BY <2>1, <3>1 DEF LogInv
  <2> QED BY <2>2, <2>3, <2>4
<1>3. CASE AllRecs' = AllRecs /\ Recs' = Recs /\ Num' = Num
  BY <1>1, <1>2, <1>3, <1>7 DEF LogInv, Committed
<1>4. CASE AllRecs' = AllRecs /\ Coming /\ Recs' = AllRecs /\ Num' = Num + 1
  <2>1. Len(AllRecs) = Num + 1
    BY <1>0, <1>1, <1>4, AppendFacts, RecordTypes DEF AllRecs
  <2> QED BY <1>1, <1>2, <1>4, <1>7, <2>1 DEF LogInv, Committed
<1>5. CASE /\ Send /\ Committed(tpc_seq) /\ Recs' = Recs /\ Num' = Num /\ AllRecs = Recs
           /\ AllRecs' = Append(AllRecs, [num |-> Num + 1, seq |-> tpc_seq])
  <2>. DEFINE x == [num |-> Num + 1, seq |-> tpc_seq]
  <2>1. tpc_seq \in TSeq /\ last_seq + 1 = tpc_seq /\ Top = last_seq /\ Top' = tpc_seq
        /\ outcome'[tpc_seq] = "COMMIT"
    BY <1>5, StageFacts, TopMoves DEF Send, Committed
  <2>2. x \in Record
    BY <1>0, <2>1 DEF Record
  <2>3. /\ DOMAIN AllRecs' = DOMAIN AllRecs \cup {Num + 1}
        /\ \A i \in DOMAIN AllRecs : AllRecs'[i] = AllRecs[i]
        /\ AllRecs'[Num + 1] = x
    BY <1>0, <1>1, <1>5, <2>2, AppendFacts
  <2>4. \A n \in Seqs(AllRecs) : n < x.seq
    BY <1>1, <2>1, Numbers DEF Seqs
  <2>5. Climbs(AllRecs')
    BY <1>0, <1>1, <1>5, <2>2, <2>4, ClimbsAppend
  <2>6. \A i \in DOMAIN AllRecs' :
            AllRecs'[i].num = i /\ outcome'[AllRecs'[i].seq] = "COMMIT" /\ AllRecs'[i].seq <= Top'
    <3>1. x.num = Num + 1 /\ outcome'[x.seq] = "COMMIT" /\ x.seq <= Top'
      BY <2>1, Numbers
    <3> QED BY <1>1, <1>2, <2>3, <3>1
  <2> QED BY <1>1, <1>5, <1>7, <2>5, <2>6 DEF LogInv, Committed
<1>6. CASE AllRecs' = <<>> /\ Recs' = <<>> /\ Num' = 0
  BY <1>6, <1>7, EmptyFacts DEF LogInv, Climbs
<1> QED BY <1>3, <1>4, <1>5, <1>6, LogMoves

LEMMA AnswerFrame ==
    ASSUME [Next]_vars, ~ReadFile, ~AnswerLog, ~Drop
    PROVE  answer' = answer
<1>1. CASE \/ UNCHANGED vars \/ Start \/ Send \/ Apply \/ AnswerSeq \/ ReadVote \/ Join
           \/ Flush \/ Checkpoint \/ CheckpointEnds
  BY <1>1 DEF vars, lvars, Start, Send, Apply, AnswerSeq, ReadVote, Join, Flush, Checkpoint,
              CheckpointEnds
<1>2. CASE ReadLog \/ ReadSeq \/ ReadPrepare \/ ReadCheckpoint
  BY <1>2 DEF lvars, ReadLog, ReadSeq, ReadPrepare, ReadCheckpoint
<1>3. CASE \E d \in Decisions : Decide(d) \/ ReadDecision(d)
  BY <1>3 DEF lvars, Decide, ReadDecision
<1>4. CASE \/ ReplicaFlush \/ OwnCheckpoint \/ ReplayBegins \/ Replay \/ ReplayEnds \/ Crash
           \/ Restart
  BY <1>4 DEF lvars, ReplicaFlush, OwnCheckpoint, ReplayBegins, Replay, ReplayEnds, Crash, Restart
<1> QED BY <1>1, <1>2, <1>3, <1>4, Steps

(* What was read for the replica stays the log until it is sent: a commit  *)
(* in between, or a checkpoint, spoils it.                                 *)
LEMMA NextRead ==
    ASSUME TypeInv, SessionInv, LogInv, ReadInv, [Next]_vars, spoiled' = {}
    PROVE  ReadInv'
<1>. SUFFICES ASSUME answer' # <<>>
              PROVE  Unlogged' /\ answer'[1] = [ck |-> ck', recs |-> Recs']
  BY DEF ReadInv
<1>0. log \in Seq(Record) /\ queue \in Seq(Record) /\ checkpointing \in BOOLEAN /\ AskInv
  BY RecordTypes DEF TypeInv, LogTypes, SessionInv
<1>1. CASE ReadFile
  <2>1. ~checkpointing /\ ~checkpointing' /\ ck' = ck /\ to_p' = to_p /\ member' = member
    BY <1>1 DEF ReadFile, pvars
  <2>2. log' = log \o queue /\ queue' = <<>> /\ answer' = <<[ck |-> ck, recs |-> log \o queue]>>
    BY <1>1, <2>1 DEF ReadFile, FilesRead
  <2>3. Recs' = log \o queue
    <3>1. log \o queue \in Seq(Record)
      BY <1>0, JoinedFacts
    <3> QED BY <2>1, <2>2, <3>1, JoinEmpty DEF Recs
  <2>4. Unlogged
    <3>1. to_p \in Seq(ToPrimary) /\ to_p # <<>> /\ member /\ to_p[1].type = "REQUEST"
      BY <1>1 DEF ReadFile, Asks, TypeInv, WireTypes
    <3> QED BY <3>1, TailFacts DEF Unlogged
  <2>5. Unlogged'
    BY <2>1, <2>4 DEF Unlogged
  <2> QED BY <2>1, <2>2, <2>3, <2>5
<1>2. CASE ~ReadFile
  <2>1. answer' = answer /\ ~AnswerLog /\ ~Drop
    <3>1. ~AnswerLog /\ ~Drop
      BY DEF AnswerLog, Drop
    <3> QED BY <1>2, <3>1, AnswerFrame
  <2>2. Unlogged /\ answer[1] = [ck |-> ck, recs |-> Recs]
    BY <2>1 DEF ReadInv
  <2>3. Unlogged'
    BY <1>0, <2>1, <2>2, AskMoves
  <2>4. ~Checkpoint
    BY <2>2 DEF Checkpoint
  <2>5. ~(Apply /\ Coming)
    <3>1. Unnumbered
      BY <1>0, <2>2 DEF AskInv, Unlogged, Unnumbered
    <3> QED BY <2>1, <2>2, <3>1 DEF Apply, Coming, Committed
  <2>6. Recs' = Recs /\ ck' = ck
    BY <2>4, <2>5, LogMoves
  <2> QED BY <2>1, <2>2, <2>3, <2>6
<1> QED BY <1>1, <1>2

-----------------------------------------------------------------------------
(* Which steps change what.                                                *)
Deciding   == \E d \in Decisions : Decide(d)
DecisionIn == \E d \in Decisions : ReadDecision(d)

LEMMA Frame ==
    ASSUME TypeInv, [Next]_vars
    PROVE  /\ rlast' # rlast => ReadSeq \/ Restart \/ DecisionIn
           /\ rtpc' # rtpc => ReadPrepare \/ Crash \/ DecisionIn
           /\ rmarked' # rmarked => Crash \/ DecisionIn
           /\ rup' # rup => Crash \/ Restart
           /\ member' # member => Join \/ Drop
           /\ tpc_seq' # tpc_seq => Start
           /\ last_seq' # last_seq => Apply
           /\ outcome' # outcome => Deciding
           /\ vote' # vote => Start \/ ReadVote
           /\ stage' # stage => Start \/ Send \/ Apply \/ Deciding
           /\ rec' # rec => ReadLog \/ ReplayBegins \/ Replay \/ ReplayEnds \/ Crash
<1>1. CASE UNCHANGED vars
  BY <1>1 DEF vars, pvars, tvars
<1>2. CASE Start \/ Send \/ Apply \/ Deciding
  BY <1>2 DEF Start, Send, Apply, Decide, Deciding, tvars
<1>3. CASE \/ ReadFile \/ AnswerLog \/ AnswerSeq \/ ReadVote
           \/ Flush \/ Checkpoint \/ CheckpointEnds \/ OwnCheckpoint
  BY <1>3 DEF ReadFile, AnswerLog, AnswerSeq, ReadVote, Flush, Checkpoint, CheckpointEnds,
              OwnCheckpoint, pvars, tvars
<1>4. CASE Join \/ Drop
  BY <1>4 DEF Join, Drop, tvars
<1>5. CASE ReadLog \/ ReadSeq \/ ReadPrepare \/ ReadCheckpoint
  BY <1>5 DEF ReadLog, ReadSeq, ReadPrepare, ReadCheckpoint, pvars, tvars
<1>6. CASE DecisionIn
  BY <1>6 DEF DecisionIn, ReadDecision, pvars
<1>7. CASE ReplicaFlush \/ ReplayBegins \/ Replay \/ ReplayEnds
  BY <1>7 DEF ReplicaFlush, ReplayBegins, Replay, ReplayEnds, pvars, tvars
<1>8. CASE Crash \/ Restart
  BY <1>8 DEF Crash, Restart, pvars
<1> QED BY <1>1, <1>2, <1>3, <1>4, <1>5, <1>6, <1>7, <1>8, Steps DEF Deciding, DecisionIn

LEMMA StaysUp ==
    ASSUME TypeInv, [Next]_vars, rup', member', ~Join
    PROVE  rup /\ member /\ ~Crash /\ ~Restart /\ ~Drop
<1>1. rup \in BOOLEAN /\ member \in BOOLEAN
  BY DEF TypeInv, PrimaryTypes, ReplicaTypes
<1>2. ~Crash /\ ~Drop
  BY DEF Crash, Drop
<1>3. ~Restart
  BY DEF Restart, pvars
<1> QED BY <1>1, <1>2, <1>3, Frame

LEMMA BaseTop ==
    ASSUME TypeInv, TruthInv, NEW i \in Spots, Numbered(i)
    PROVE  Base(i) \in Nat /\ Base(i) <= Top
<1>1. CASE i = 0
  BY <1>1, Numbers DEF Base, TruthInv, MemoryTruth
<1>2. CASE i # 0
  <2>1. i \in DOMAIN to_r /\ to_r[i] \in ToReplica /\ to_r[i].type = "TSEQNUMRETURN"
    BY <1>2, Around DEF Numbered
  <2>2. to_r[i].last \in 0..MaxSeq /\ to_r[i].last <= last_seq
    BY <2>1, MessageFields DEF TruthInv, WireTruth
  <2> QED BY <1>2, <2>2, StageFacts, Numbers, SMTT(30) DEF Base
<1> QED BY <1>1, <1>2

(* What is on its way, message by message.                                 *)
LEMMA WireFacts ==
    ASSUME TypeInv, TruthInv, NEW m \in Wire
    PROVE  /\ m.type \in Asked => m.seq \in TSeq /\ m.seq \in Nat /\ m.seq <= tpc_seq
           /\ m.type \in Decisions => m.seq <= Top /\ outcome[m.seq] = m.type
           /\ m.type \in Asked => m = [type |-> m.type, seq |-> m.seq]
<1>1. PICK j \in DOMAIN to_r : m = to_r[j]
  BY DEF Wire
<1>2. m \in ToReplica
  BY Around
<1>3. m.type \in Asked => m.seq \in TSeq /\ m.seq \in Nat
  BY <1>2, MessageFields, Numbers, SMTT(30)
<1>4. m.type \in Asked => m = [type |-> m.type, seq |-> m.seq]
  BY <1>2 DEF ToReplica, Asked, Decisions
<1> QED BY <1>1, <1>3, <1>4 DEF TypeInv, WireTypes, TruthInv, WireTruth

LEMMA SeenMoves ==
    ASSUME TypeInv, [Next]_vars, NEW n \in TSeq, Seen(n)'
    PROVE  Seen(n) \/ (Start /\ n = tpc_seq + 1)
<1>. DEFINE p == [type |-> "PREPARE", seq |-> n]
<1>1. CASE rtpc'[n] # "none"
  <2>1. rtpc[n] # "none" \/ (ReadPrepare /\ n = to_r[1].seq)
    BY <1>1, QueueMoves
  <2>2. ASSUME ReadPrepare, n = to_r[1].seq
        PROVE  p \in Wire
    <3>1. to_r # <<>> /\ to_r[1].type = "PREPARE" /\ to_r[1] \in Wire
      BY <2>2, FirstFacts DEF ReadPrepare, Reads
    <3>2. to_r[1] \in ToReplica
      BY <3>1, Around
    <3>3. to_r[1] = p
      BY <2>2, <3>1, <3>2 DEF ToReplica, Asked, Decisions
    <3> QED BY <3>1, <3>3
  <2> QED BY <2>1, <2>2 DEF Seen
<1>2. CASE p \in Wire'
  <2>1. CASE to_r' = to_r
    BY <1>2, <2>1, Kept DEF Seen
  <2>2. CASE to_r' = <<>>
    BY <1>2, <2>2, Gone
  <2>3. CASE to_r # <<>> /\ to_r' = Tail(to_r)
    BY <1>2, <2>3, Shifted DEF Seen
  <2>4. ASSUME NEW m \in ToReplica, to_r' = Append(to_r, m), m = p,
             \/ Start /\ m = [type |-> "PREPARE", seq |-> tpc_seq + 1]
             \/ Send /\ m = [type |-> outcome[tpc_seq], seq |-> tpc_seq]
             \/ Checkpoint /\ m = [type |-> "CHECKPOINT"]
             \/ AnswerLog /\ m = [type |-> "LOGFILE", file |-> answer[1]]
             \/ AnswerSeq /\ m = [type |-> "TSEQNUMRETURN", seq |-> tpc_seq, last |-> last_seq]
        PROVE  Start /\ n = tpc_seq + 1
    <3>1. m.type = "PREPARE" /\ m.seq = n
      BY <2>4
    <3>2. Send => outcome[tpc_seq] \in Decisions
      BY DEF Send, TypeInv, PrimaryTypes
    <3> QED BY <2>4, <3>1, <3>2 DEF Decisions
  <2>5. ASSUME NEW m \in ToReplica, to_r' = Append(to_r, m), m # p
        PROVE  p \in Wire
    BY <1>2, <2>5, Grown
  <2> QED BY <2>1, <2>2, <2>3, <2>4, <2>5, WireMoves DEF Seen
<1> QED BY <1>1, <1>2 DEF Seen

(* A decision that is read: it is ignored, or noted, or the transaction is *)
(* applied, which is then the next one and, when it was committed, one     *)
(* that the replica was to execute.                                        *)
Ignored(n) ==
    /\ n <= rlast \/ rtpc[n] # "PREPARE" \/ n \in rmarked
    /\ rtpc' = rtpc /\ rmarked' \subseteq rmarked \cup {n}
    /\ UNCHANGED <<rlast, rtable, rnum, rqueue>>
Noted(d, n) ==
    /\ rtpc[n] = "PREPARE" /\ n # rlast + 1 /\ rtpc' = [rtpc EXCEPT ![n] = d]
    /\ rmarked' = rmarked \cup {n} /\ UNCHANGED <<rlast, rtable, rnum, rqueue>>
Applied(d, n) ==
    /\ rtpc[n] = "PREPARE" /\ n = rlast + 1 /\ rtpc' = [rtpc EXCEPT ![n] = d]
    /\ rmarked' = rmarked \cup {n} /\ rlast' = n
    /\ \/ d = "ABORT" /\ UNCHANGED <<rtable, rnum, rqueue>>
       \/ /\ d = "COMMIT" /\ rec.place = "none" /\ Numbered(0)
          /\ rnum' = rnum + 1 /\ rtable' = Append(rtable, n)
          /\ rqueue' = Append(rqueue, [num |-> rnum + 1, seq |-> n])

LEMMA DecisionRead ==
    ASSUME TypeInv, TruthInv, SessionInv, NEW d \in Decisions, ReadDecision(d), NEW n, n = to_r[1].seq
    PROVE  /\ rup /\ member /\ n \in TSeq /\ n \in Nat /\ n <= Top /\ outcome[n] = d
           /\ to_r # <<>> /\ to_r' = Tail(to_r) /\ to_r[1] \in Wire /\ to_r[1] = [type |-> d, seq |-> n]
           /\ \A m \in TSeq : m > n => rtpc[m] = "none"
           /\ \A m \in Later(1) : Before(to_r[1], m)
           /\ UNCHANGED <<pvars, lvars, to_p, rup, rlog, rck, rsaved, rec>>
<1>1. /\ rup /\ to_r # <<>> /\ to_r' = Tail(to_r) /\ to_r[1].type = d
      /\ 1 \in DOMAIN to_r /\ to_r[1].seq \in TSeq
  BY FirstMessage DEF ReadDecision, Asked
<1>2. member
  BY <1>1 DEF SessionInv, CleanInv
<1>3. to_r[1] \in Wire
  BY <1>1, FirstFacts
<1>4. n <= Top /\ outcome[n] = d /\ n \in Nat /\ to_r[1] = [type |-> d, seq |-> n]
  BY <1>1, <1>3, WireFacts DEF Asked
<1>5. \A m \in TSeq : m > n => rtpc[m] = "none"
  BY <1>1 DEF SessionInv, AheadInv
<1>6. \A m \in Later(1) : Before(to_r[1], m)
  BY <1>1, InOrder DEF SessionInv
<1>7. UNCHANGED <<pvars, lvars, to_p, rup, rlog, rck, rsaved, rec>>
  BY DEF ReadDecision
<1> QED BY <1>1, <1>2, <1>3, <1>4, <1>5, <1>6, <1>7

LEMMA DecisionEffect ==
    ASSUME TypeInv, TruthInv, SessionInv, FollowInv, spoiled' = {},
           NEW d \in Decisions, ReadDecision(d), NEW n, n = to_r[1].seq
    PROVE  Ignored(n) \/ Noted(d, n) \/ Applied(d, n)
<1>0. /\ rup /\ member /\ n \in TSeq /\ n <= Top /\ outcome[n] = d /\ n \in Nat
      /\ to_r[1] \in Wire /\ to_r[1] = [type |-> d, seq |-> n] /\ to_r # <<>>
      /\ \A m \in TSeq : m > n => rtpc[m] = "none"
  BY DecisionRead
<1>1. PICK q \in [TSeq -> {"none", "PREPARE", "COMMIT", "ABORT"}] : Decided(d, n, q)
  BY DecisionMoves
<1>2. /\ rtpc \in [TSeq -> {"none", "PREPARE", "COMMIT", "ABORT"}] /\ rlast \in Nat /\ TSeq \subseteq Nat
      /\ n + 1 # n
  BY <1>0, Numbers, SMTT(30) DEF TypeInv, ReplicaTypes
<1>3. CASE /\ n <= rlast \/ rtpc[n] \in Decisions \/ n \in rmarked
           /\ UNCHANGED <<tvars, rtable, rnum, rqueue, spoiled>>
  BY <1>3 DEF Ignored, Decisions, tvars
<1>4. CASE /\ ~(n <= rlast \/ rtpc[n] \in Decisions \/ n \in rmarked)
           /\ rmarked' = rmarked \cup {n}
           /\ ~(rlast + 1 \in TSeq /\ q[rlast + 1] \in Decisions)
           /\ rtpc' = q /\ UNCHANGED <<rlast, rnum, rqueue, rtable, spoiled>>
  <2>1. CASE rtpc[n] = "none"
    <3>1. \A m \in TSeq : q[m] = rtpc[m]
      BY <1>0, <1>1, <2>1 DEF Decided
    <3>2. q = rtpc
      <4>1. q = [m \in TSeq |-> q[m]] /\ rtpc = [m \in TSeq |-> rtpc[m]]
        BY <1>2
      <4> QED BY <3>1, <4>1, Zenon
    <3> QED BY <1>4, <2>1, <3>2 DEF Ignored
  <2>2. CASE rtpc[n] # "none"
    <3>1. rtpc[n] = "PREPARE"
      BY <1>0, <1>2, <1>4, <2>2 DEF Decisions
    <3>2. q[n] = d
      BY <1>1, <2>2 DEF Decided
    <3>3. n # rlast + 1
      BY <1>0, <1>4, <3>2
    <3>4. q = [rtpc EXCEPT ![n] = d]
      BY <1>0, <1>1, <1>2, <3>2 DEF Decided
    <3> QED BY <1>4, <3>1, <3>3, <3>4 DEF Noted
  <2> QED BY <2>1, <2>2
<1>5. CASE /\ ~(n <= rlast \/ rtpc[n] \in Decisions \/ n \in rmarked)
           /\ rmarked' = rmarked \cup {n}
           /\ rlast + 1 \in TSeq /\ q[rlast + 1] \in Decisions
           /\ rlast' = rlast + 1
           /\ rtpc' = [m \in TSeq |-> IF m = rlast + 2 THEN "none" ELSE q[m]]
           /\ \/ q[rlast + 1] = "ABORT" /\ UNCHANGED <<rnum, rqueue, rtable, spoiled>>
              \/ /\ q[rlast + 1] = "COMMIT" /\ rnum' = rnum + 1
                 /\ rtable' = Append(rtable, rlast + 1)
                 /\ rqueue' = Append(rqueue, [num |-> rnum + 1, seq |-> rlast + 1])
                 /\ spoiled' = spoiled \cup Overtaking
  <2>1. n = rlast + 1
    <3>1. rtpc[rlast + 1] \notin Decisions
      BY <1>0, <1>5 DEF FollowInv, LaneInv
    <3> QED BY <1>1, <1>5, <3>1 DEF Decided
  <2>2. rtpc[n] = "PREPARE"
    <3>1. rtpc[n] # "none"
      BY <1>1, <1>5, <2>1 DEF Decided, Decisions
    <3> QED BY <1>0, <1>2, <1>5, <3>1 DEF Decisions
  <2>3. q[n] = d
    BY <1>1, <2>2 DEF Decided
  <2>4. rtpc' = [rtpc EXCEPT ![n] = d]
    <3>1. rlast + 2 # n /\ (rlast + 2 \in TSeq => rlast + 2 > n)
      BY <1>2, <2>1
    <3>2. rlast + 2 \in TSeq => rtpc[rlast + 2] = "none"
      BY <1>0, <3>1
    <3>3. \A m \in TSeq : rtpc'[m] = IF m = n THEN d ELSE rtpc[m]
      BY <1>1, <1>5, <2>3, <3>1, <3>2 DEF Decided
    <3>4. rtpc' \in [TSeq -> {"none", "PREPARE", "COMMIT", "ABORT"}]
      BY <1>1, <1>5
    <3> QED BY <1>0, <1>2, <3>3, <3>4
  <2>5. d = "COMMIT" => rec.place = "none"
    BY <1>5, <2>1, <2>3 DEF Overtaking
  <2>6. d = "COMMIT" => Numbered(0)
    <3>1. SUFFICES ASSUME d = "COMMIT", ~Numbered(0) PROVE FALSE
      OBVIOUS
    <3>2. Seen(n)
      BY <2>2 DEF Seen
    <3>3. CASE Unnumbered
      BY <1>0, <3>1, <3>2, <3>3 DEF FollowInv, BlindInv
    <3>4. CASE InTransit("TSEQNUMRETURN")
      <4>1. PICK i \in DOMAIN to_r : to_r[i].type = "TSEQNUMRETURN"
        BY <3>4 DEF InTransit
      <4>2. i # 1 /\ i \in Spots /\ i # 0
        <5>1. to_r[1].type # "TSEQNUMRETURN"
          BY <1>0 DEF Decisions
        <5>2. i # 1
          BY <4>1, <5>1
        <5> QED BY <4>1, <5>2, Around
      <4>3. to_r[1] \in Earlier(i) /\ Numbered(i)
        BY <1>0, <4>1, <4>2, FirstFacts DEF Numbered
      <4>4. Follows(i)
        BY <4>2, <4>3 DEF FollowInv
      <4>5. ~Seen(to_r[1].seq)
        BY <1>0, <3>1, <4>3, <4>4 DEF Follows
      <4> QED BY <3>2, <4>5
    <3> QED BY <1>0, <3>1, <3>3, <3>4 DEF Numbered
  <2> QED BY <1>5, <2>1, <2>2, <2>3, <2>4, <2>5, <2>6 DEF Applied
<1> QED BY <1>1, <1>3, <1>4, <1>5 DEF Decided

(* A replica with its numbers applies what it is told.                     *)
LEMMA NumberedApplies ==
    ASSUME TypeInv, TruthInv, SessionInv, FollowInv, spoiled' = {},
           NEW d \in Decisions, ReadDecision(d), NEW n, n = to_r[1].seq, Numbered(0)
    PROVE  Applied(d, n)
<1>0. /\ n \in TSeq /\ n <= Top /\ n \in Nat /\ to_r # <<>>
      /\ to_r[1] \in Wire /\ to_r[1] = [type |-> d, seq |-> n] /\ \A m \in Later(1) : Before(to_r[1], m)
  BY DecisionRead
<1>1. Follows(0) /\ Base(0) = rlast /\ Later(0) = Wire /\ Wire = {to_r[1]} \cup Later(1)
  BY <1>0, Around, FirstFacts DEF FollowInv, Base
<1>2. n > rlast
  BY <1>0, <1>1 DEF Follows, Asked
<1>3. rlast \in Nat /\ Top \in Nat /\ Top <= tpc_seq /\ tpc_seq \in Nat /\ TSeq = 1..MaxSeq
  BY Numbers, StageFacts
<1>4. n = rlast + 1
  <2>1. SUFFICES ASSUME n # rlast + 1 PROVE FALSE
    OBVIOUS
  <2>. DEFINE k == rlast + 1
  <2>2. k \in TSeq /\ k > rlast /\ k <= Top /\ k < n
    <3>1. n > rlast + 1
      BY <1>0, <1>2, <1>3, <2>1
    <3>2. n <= MaxSeq /\ MaxSeq \in Nat
      BY <1>0, <1>3, Numbers, SMTT(30)
    <3> QED BY <1>0, <1>3, <3>1, <3>2
  <2>. HIDE DEF k
  <2>3. [type |-> outcome[k], seq |-> k] \in Wire
    BY <1>1, <2>2 DEF Follows
  <2>4. [type |-> outcome[k], seq |-> k] \in Later(1)
    BY <1>0, <1>1, <2>2, <2>3, <1>3
  <2>5. outcome[k] \in Decisions
    <3>1. k <= last_seq \/ outcome[k] \in Decisions
      <4>1. CASE stage = "sent"
        <5>1. k <= last_seq \/ k = tpc_seq
          BY <1>3, <2>2, <4>1, StageFacts, Numbers
        <5>2. outcome[tpc_seq] \in Decisions
          BY <4>1 DEF TypeInv, PrimaryTypes
        <5> QED BY <5>1, <5>2
      <4>2. CASE stage # "sent"
        BY <2>2, <4>2 DEF Top
      <4> QED BY <4>1, <4>2
    <3> QED BY <2>2, <3>1 DEF TruthInv, OutcomeInv
  <2>6. n < k
    BY <1>0, <2>4, <2>5 DEF Before, Asked
  <2> QED BY <1>0, <1>3, <2>2, <2>6
<1>5. rtpc[n] = "PREPARE"
  <2>1. SUFFICES ASSUME rtpc[n] # "PREPARE" PROVE FALSE
    OBVIOUS
  <2>2. n <= tpc_seq
    BY <1>0, <1>3
  <2>3. [type |-> "PREPARE", seq |-> n] \in Wire
    BY <1>0, <1>1, <1>2, <2>1, <2>2 DEF Follows
  <2>4. [type |-> "PREPARE", seq |-> n] \in Later(1)
    BY <1>0, <1>1, <2>3 DEF Decisions
  <2>5. n < n
    BY <1>0, <2>4 DEF Before, Asked, Decisions
  <2> QED BY <1>0, <2>5
<1>6. n \notin rmarked /\ ~(n <= rlast)
  <2>1. n \in rmarked => n <= rlast
    BY <1>1 DEF Follows
  <2> QED BY <1>0, <1>2, <1>3, <2>1
<1> QED BY <1>4, <1>5, <1>6, DecisionEffect DEF Ignored, Noted

(* Where a replica knows its numbers after a step, it knew them before.    *)
LEMMA NumberedMoves ==
    ASSUME TypeInv, SessionInv, [Next]_vars, NEW i \in Spots', Numbered(i)'
    PROVE  /\ rup /\ member
           /\ \/ to_r' = to_r /\ i \in Spots /\ Numbered(i)
              \/ /\ i \in Spots /\ Numbered(i)
                 /\ \E m \in ToReplica :
                       /\ to_r' = Append(to_r, m)
                       /\ \/ Start /\ m = [type |-> "PREPARE", seq |-> tpc_seq + 1]
                          \/ Send /\ m = [type |-> outcome[tpc_seq], seq |-> tpc_seq]
                          \/ Checkpoint /\ m = [type |-> "CHECKPOINT"]
                          \/ AnswerLog /\ m = [type |-> "LOGFILE", file |-> answer[1]]
              \/ AnswerSeq /\ i = Len(to_r) + 1 /\ Unnumbered /\ ~Unlogged
              \/ /\ to_r # <<>> /\ to_r' = Tail(to_r)
                 /\ \/ Numbered(i + 1) /\ i + 1 \in Spots /\ (i = 0 => ReadSeq)
                    \/ Numbered(0) /\ i = 0 /\ to_r[1].type # "TSEQNUMRETURN"
<1>0. rup' /\ member'
  BY DEF Numbered
<1>1. ~Join
  <2>1. SUFFICES ASSUME Join PROVE FALSE
    OBVIOUS
  <2>2. to_r' = <<>> /\ i = 0
    BY <2>1, Gone DEF Join
  <2>3. Unnumbered'
    BY <2>1, AskMoves DEF SessionInv
  <2> QED BY <2>2, <2>3 DEF Numbered
<1>2. rup /\ member /\ ~Drop
  BY <1>0, <1>1, StaysUp
<1>3. CASE AnswerSeq
  <2>1. Unnumbered /\ ~Unlogged /\ ~InTransit("TSEQNUMRETURN")
    BY <1>3, AnswerPhases DEF SessionInv, PhaseInv
  <2>2. PICK m \in ToReplica : to_r' = Append(to_r, m) /\ m.type = "TSEQNUMRETURN"
    <3>1. to_r' = Append(to_r, [type |-> "TSEQNUMRETURN", seq |-> tpc_seq, last |-> last_seq])
      BY <1>3 DEF AnswerSeq
    <3>2. tpc_seq \in 0..MaxSeq /\ last_seq \in 0..MaxSeq
      BY Numbers
    <3>3. [type |-> "TSEQNUMRETURN", seq |-> tpc_seq, last |-> last_seq] \in ToReplica
      BY <3>2, MessageMade
    <3> QED BY <3>1, <3>3
  <2>3. i \in Spots => i = 0 \/ (i \in DOMAIN to_r /\ to_r'[i] = to_r[i])
    BY <2>2, Around, Grown
  <2>4. i # 0 => to_r'[i].type = "TSEQNUMRETURN"
    BY DEF Numbered
  <2>5. i = 0 => ~InTransit("TSEQNUMRETURN")'
    BY DEF Numbered
  <2>6. InTransit("TSEQNUMRETURN")'
    BY <2>2, Grown DEF InTransit
  <2>7. i \notin Spots
    BY <2>1, <2>3, <2>4, <2>5, <2>6 DEF InTransit
  <2> QED BY <1>2, <1>3, <2>1, <2>2, <2>7, Grown
<1>4. CASE ~AnswerSeq
  <2>1. Unnumbered' = Unnumbered
    <3>1. AskInv
      BY DEF SessionInv
    <3>2. \/ Unnumbered' = Unnumbered
          \/ AnswerLog /\ Unnumbered /\ Unnumbered'
      BY <1>1, <1>2, <1>4, <3>1, AskMoves
    <3> QED BY <3>2 DEF Unnumbered
  <2>2. CASE to_r' = to_r
    BY <1>2, <2>1, <2>2, Kept DEF Numbered, InTransit
  <2>4. CASE /\ to_r # <<>> /\ to_r' = Tail(to_r)
             /\ (ReadSeq /\ to_r[1].type = "TSEQNUMRETURN") \/ to_r[1].type # "TSEQNUMRETURN"
    <3>1. /\ i + 1 \in DOMAIN to_r /\ i + 1 \in Spots /\ i + 1 # 0
          /\ i # 0 => to_r'[i] = to_r[i + 1]
      BY <2>4, Shifted
    <3>2. CASE i # 0
      BY <1>2, <2>4, <3>1, <3>2 DEF Numbered
    <3>3. CASE i = 0 /\ ReadSeq /\ to_r[1].type = "TSEQNUMRETURN"
      <4>1. 0 + 1 = 1
        OBVIOUS
      <4> QED BY <1>2, <2>4, <3>1, <3>3, <4>1 DEF Numbered
    <3>4. CASE i = 0 /\ to_r[1].type # "TSEQNUMRETURN"
      <4>2. ~InTransit("TSEQNUMRETURN")
        <5>1. SUFFICES ASSUME NEW j \in DOMAIN to_r, to_r[j].type = "TSEQNUMRETURN" PROVE FALSE
          BY DEF InTransit
        <5>2. j - 1 \in DOMAIN to_r' /\ to_r'[j - 1] = to_r[j]
          BY <2>4, <3>4, <5>1, Reading
        <5> QED BY <3>4, <5>1, <5>2 DEF Numbered, InTransit
      <4>3. ~Unnumbered
        BY <2>1, <3>4 DEF Numbered
      <4> QED BY <1>2, <2>4, <3>4, <4>2, <4>3 DEF Numbered
    <3> QED BY <2>4, <3>2, <3>3, <3>4
  <2>5. ASSUME NEW m \in ToReplica, to_r' = Append(to_r, m), m.type # "TSEQNUMRETURN"
        PROVE  i \in Spots /\ Numbered(i)
    <3>1. CASE i = Len(to_r) + 1
      BY <2>5, <3>1, Grown DEF Numbered
    <3>2. CASE i # Len(to_r) + 1
      <4>1. i \in Spots /\ (i # 0 => to_r'[i] = to_r[i])
        BY <2>5, <3>2, Grown
      <4>2. CASE i # 0
        BY <1>2, <4>1, <4>2 DEF Numbered
      <4>3. CASE i = 0
        <5>1. ~InTransit("TSEQNUMRETURN")
          BY <2>5, <4>3, Sending DEF Numbered, InTransit
        <5> QED BY <1>2, <2>1, <4>1, <4>3, <5>1 DEF Numbered
      <4> QED BY <4>2, <4>3
    <3> QED BY <3>1, <3>2
  <2>6. ASSUME NEW m \in ToReplica, to_r' = Append(to_r, m),
               \/ Start /\ m = [type |-> "PREPARE", seq |-> tpc_seq + 1]
               \/ Send /\ m = [type |-> outcome[tpc_seq], seq |-> tpc_seq]
               \/ Checkpoint /\ m = [type |-> "CHECKPOINT"]
               \/ AnswerLog /\ m = [type |-> "LOGFILE", file |-> answer[1]]
        PROVE  i \in Spots /\ Numbered(i)
    <3>1. Send => outcome[tpc_seq] \in Decisions
      BY DEF Send, TypeInv, PrimaryTypes
    <3>2. m.type # "TSEQNUMRETURN"
      BY <2>6, <3>1 DEF Decisions
    <3> QED BY <2>5, <2>6, <3>2
  <2>7. CASE /\ to_r # <<>> /\ to_r' = Tail(to_r)
             /\ \/ ReadLog /\ to_r[1].type = "LOGFILE"
                \/ ReadSeq /\ to_r[1].type = "TSEQNUMRETURN"
                \/ ReadPrepare /\ to_r[1].type = "PREPARE"
                \/ ReadCheckpoint /\ to_r[1].type = "CHECKPOINT"
                \/ \E d \in Decisions : ReadDecision(d) /\ to_r[1].type = d
    BY <2>4, <2>7 DEF Decisions
  <2>8. CASE \E m \in ToReplica :
               /\ to_r' = Append(to_r, m)
               /\ \/ Start /\ m = [type |-> "PREPARE", seq |-> tpc_seq + 1]
                  \/ Send /\ m = [type |-> outcome[tpc_seq], seq |-> tpc_seq]
                  \/ Checkpoint /\ m = [type |-> "CHECKPOINT"]
                  \/ AnswerLog /\ m = [type |-> "LOGFILE", file |-> answer[1]]
    BY <1>2, <2>6, <2>8
  <2> QED BY <1>1, <1>2, <1>4, <2>2, <2>7, <2>8, WireMoves
<1> QED BY <1>3, <1>4

(* Nothing the numbers are about has changed.                              *)
LEMMA FollowsKept ==
    ASSUME TypeInv, [Next]_vars, NEW i \in Spots, Follows(i), NEW j \in Spots',
           UNCHANGED <<rtpc, rmarked, tpc_seq>>, Top' = Top, Base(j)' = Base(i), rlast' <= Base(i),
           j # 0 => i # 0,
           \A m \in Earlier(j)' : m.type \in Decisions => m \in Earlier(i),
           \A m \in Later(j)' : m.type \in Asked => m \in Later(i),
           \A m \in Wire : m.type \in Asked => m \in Wire',
           \A m \in Wire' : m.type \in Asked => m \in Wire
    PROVE  Follows(j)'
<1>1. \A n \in TSeq : Seen(n)' => Seen(n)
  BY DEF Seen, Asked
<1>2. \A n \in TSeq : n <= Top => outcome'[n] = outcome[n]
  BY TopMoves
<1>3. /\ rlast' <= Base(j)'
      /\ \A n \in TSeq : rtpc'[n] \in Decisions => n <= Base(j)' /\ (j # 0 => rtpc'[n] # "COMMIT")
      /\ \A n \in rmarked' : n <= Base(j)'
  BY DEF Follows
<1>4. ASSUME NEW m \in Earlier(j)', m.type \in Decisions
      PROVE  m.seq <= Base(j)' /\ (m.type = "COMMIT" => ~Seen(m.seq)')
  <2>1. m \in Earlier(i) /\ m \in Wire
    BY <1>4, Around
  <2>2. m.seq <= Base(i) /\ (m.type = "COMMIT" => ~Seen(m.seq)) /\ m.seq \in TSeq
    BY <1>4, <2>1, Around, MessageFields DEF Follows, Asked
  <2> QED BY <1>1, <2>2
<1>5. \A m \in Later(j)' : m.type \in Asked => m.seq > Base(j)'
  BY DEF Follows
<1>6. ASSUME NEW n \in TSeq, n > Base(j)', n <= Top'
      PROVE  [type |-> outcome'[n], seq |-> n] \in Wire'
  <2>1. [type |-> outcome[n], seq |-> n] \in Wire /\ outcome'[n] = outcome[n]
    BY <1>2, <1>6 DEF Follows
  <2>2. outcome[n] \in Asked
    <3>1. [type |-> outcome[n], seq |-> n] \in ToReplica
      BY <2>1, Around
    <3>2. PrimaryTypes
      BY DEF TypeInv
    <3>3. outcome[n] \in {"none", "COMMIT", "ABORT"}
      BY <3>2 DEF PrimaryTypes
    <3>4. outcome[n] \in Asked \cup {"TSEQNUMRETURN", "LOGFILE", "CHECKPOINT"}
      BY <3>1, MessageFields
    <3> QED BY <3>3, <3>4 DEF Asked, Decisions
  <2> QED BY <2>1, <2>2
<1>7. ASSUME NEW n \in TSeq, n > Base(j)', n <= tpc_seq'
      PROVE  rtpc'[n] = "PREPARE" \/ [type |-> "PREPARE", seq |-> n] \in Wire'
  BY <1>7 DEF Follows, Asked
<1>8. \A m \in Earlier(j)' : m.type = "COMMIT" => ~Seen(m.seq)'
  BY <1>4 DEF Decisions
<1> QED BY <1>3, <1>4, <1>5, <1>6, <1>7, <1>8 DEF Follows

LEMMA NextLane ==
    ASSUME TypeInv, TruthInv, SessionInv, FollowInv, [Next]_vars, spoiled' = {}
    PROVE  LaneInv'
<1>1. SUFFICES ASSUME rup', member', rlast' + 1 \in TSeq PROVE rtpc'[rlast' + 1] \notin Decisions
  BY DEF LaneInv
<1>2. CASE Join
  <2>1. rtpc' = rtpc /\ ~member
    BY <1>2 DEF Join, tvars
  <2> QED BY <1>1, <2>1 DEF SessionInv, CleanInv, Decisions
<1>3. CASE ~Join
  <2>1. rup /\ member /\ ~Crash /\ ~Restart
    BY <1>1, <1>3, StaysUp
  <2>2. rlast + 1 \in TSeq => rtpc[rlast + 1] \notin Decisions
    BY <2>1 DEF FollowInv, LaneInv
  <2>3. CASE ReadSeq
    <3>1. /\ to_r # <<>> /\ to_r[1].type = "TSEQNUMRETURN" /\ rlast' = Larger(rlast, to_r[1].last)
          /\ rtpc' = rtpc
      BY <2>3 DEF ReadSeq, Reads, LastAfter
    <3>2. Numbered(1) /\ 1 \in Spots
      BY <2>1, <3>1, FirstFacts DEF Numbered
    <3>3. Follows(1) /\ Base(1) = to_r[1].last /\ Base(1) \in Nat
      BY <3>2, BaseTop DEF FollowInv, Base
    <3>4. rlast' = Base(1)
      BY <3>1, <3>3, Numbers, SMTT(30) DEF Follows, Larger
    <3>5. rtpc[rlast' + 1] \in Decisions => rlast' + 1 <= Base(1)
      BY <1>1, <3>3 DEF Follows
    <3> QED BY <3>1, <3>3, <3>4, <3>5
  <2>4. CASE DecisionIn
    <3>1. PICK d \in Decisions : ReadDecision(d)
      BY <2>4 DEF DecisionIn
    <3>. DEFINE n == to_r[1].seq
    <3>2. n \in TSeq /\ n \in Nat /\ \A m \in TSeq : m > n => rtpc[m] = "none"
      BY <3>1, DecisionRead
    <3>3. Ignored(n) \/ Noted(d, n) \/ Applied(d, n)
      BY <3>1, DecisionEffect
    <3>4. rtpc \in [TSeq -> {"none", "PREPARE", "COMMIT", "ABORT"}]
      BY DEF TypeInv, ReplicaTypes
    <3>. HIDE DEF n
    <3>5. CASE Ignored(n)
      BY <1>1, <2>2, <3>5 DEF Ignored
    <3>6. CASE Noted(d, n)
      BY <1>1, <2>2, <3>2, <3>4, <3>6 DEF Noted
    <3>7. CASE Applied(d, n)
      <4>1. rlast' = n /\ rtpc' = [rtpc EXCEPT ![n] = d]
        BY <3>7 DEF Applied
      <4>2. n + 1 > n /\ n + 1 # n
        BY <3>2
      <4>3. rtpc[n + 1] = "none" /\ rtpc'[n + 1] = rtpc[n + 1]
        BY <1>1, <3>2, <3>4, <4>1, <4>2
      <4> QED BY <4>1, <4>3 DEF Decisions
    <3> QED BY <3>3, <3>5, <3>6, <3>7
  <2>5. CASE ReadPrepare
    <3>1. /\ rtpc' = rtpc \/ rtpc' = [rtpc EXCEPT ![to_r[1].seq] = "PREPARE"]
          /\ rlast' = rlast
      BY <2>5 DEF ReadPrepare, tvars
    <3>2. rtpc \in [TSeq -> {"none", "PREPARE", "COMMIT", "ABORT"}]
      BY DEF TypeInv, ReplicaTypes
    <3> QED BY <1>1, <2>2, <3>1, <3>2 DEF Decisions
  <2>6. CASE rlast' = rlast /\ rtpc' = rtpc
    BY <1>1, <2>2, <2>6
  <2> QED BY <2>1, <2>3, <2>4, <2>5, <2>6, Frame
<1> QED BY <1>2, <1>3

LEMMA NextBlind ==
    ASSUME TypeInv, TruthInv, SessionInv, FollowInv, [Next]_vars, spoiled' = {}
    PROVE  BlindInv'
<1>1. SUFFICES ASSUME rup', Unnumbered', NEW n \in TSeq, Seen(n)'
               PROVE  outcome'[n] # "COMMIT" /\ (n = tpc_seq' /\ stage' = "voting" => vote' # "YES")
  BY DEF BlindInv
<1>2. member'
  BY <1>1 DEF Unnumbered
<1>3. ~Join
  <2>1. SUFFICES ASSUME Join PROVE FALSE
    OBVIOUS
  <2>2. rtpc' = rtpc /\ ~member /\ Wire' = {}
    BY <2>1, Gone DEF Join, tvars
  <2>3. rtpc[n] = "none"
    BY <2>2 DEF SessionInv, CleanInv
  <2> QED BY <1>1, <2>2, <2>3 DEF Seen
<1>4. rup /\ member /\ ~Drop
  BY <1>1, <1>2, <1>3, StaysUp
<1>5. Unnumbered
  <2>1. AskInv
    BY DEF SessionInv
  <2> QED BY <1>1, <1>3, <1>4, <2>1, AskMoves
<1>6. ~ReadVote
  <2>1. SUFFICES ASSUME ReadVote PROVE FALSE
    OBVIOUS
  <2>2. to_p # <<>> /\ to_p[1].type = "VOTE"
    BY <2>1 DEF ReadVote, Hears, Asks
  <2>3. 1 \in DOMAIN to_p
    BY <2>2, TailFacts DEF TypeInv, WireTypes
  <2> QED BY <1>5, <2>2, <2>3, AnswerPhases DEF SessionInv
<1>7. CASE Start
  <2>1. /\ stage = "idle" /\ tpc_seq' = tpc_seq + 1 /\ vote' = "none" /\ outcome' = outcome
    BY <1>7 DEF Start
  <2>2. CASE n = tpc_seq + 1
    BY <2>1, <2>2, Numbers, SMTT(30) DEF TruthInv, OutcomeInv
  <2>3. CASE n # tpc_seq + 1
    <3>1. Seen(n)
      BY <1>1, <2>3, SeenMoves
    <3> QED BY <1>4, <1>5, <2>1, <2>3, <3>1 DEF FollowInv, BlindInv
  <2> QED BY <2>2, <2>3
<1>8. CASE ~Start
  <2>1. Seen(n)
    BY <1>1, <1>8, SeenMoves
  <2>2. outcome[n] # "COMMIT" /\ (n = tpc_seq /\ stage = "voting" => vote # "YES")
    BY <1>4, <1>5, <2>1 DEF FollowInv, BlindInv
  <2>3. tpc_seq' = tpc_seq /\ vote' = vote
    BY <1>6, <1>8, Frame
  <2>4. CASE Deciding
    <3>1. PICK d \in Decisions : Decide(d)
      BY <2>4 DEF Deciding
    <3>2. /\ stage = "voting" /\ stage' = "decided" /\ outcome' = [outcome EXCEPT ![tpc_seq] = d]
          /\ d = "COMMIT" => vote = "YES"
      BY <1>4, <3>1 DEF Decide
    <3>3. outcome \in [TSeq -> {"none", "COMMIT", "ABORT"}]
      BY DEF TypeInv, PrimaryTypes
    <3> QED BY <2>2, <3>2, <3>3
  <2>5. CASE ~Deciding
    <3>1. outcome' = outcome
      BY <2>5, Frame
    <3>2. stage' = "voting" => stage = "voting"
      BY <1>8, <2>5, Frame DEF Send, Apply
    <3> QED BY <2>2, <2>3, <3>1, <3>2
  <2> QED BY <2>4, <2>5
<1> QED BY <1>7, <1>8

LEMMA AnswerFollows ==
    ASSUME TypeInv, TruthInv, SessionInv, FollowInv, AnswerSeq, spoiled' = {},
           NEW i, i = Len(to_r) + 1, Unnumbered
    PROVE  Follows(i)'
<1>1. /\ to_r' = Append(to_r, [type |-> "TSEQNUMRETURN", seq |-> tpc_seq, last |-> last_seq]) /\ rup
      /\ UNCHANGED <<tpc_seq, last_seq, stage, outcome, rlast, rtpc, rmarked>>
      /\ stage # "sent" /\ (stage # "idle" => rtpc[tpc_seq] # "none" \/ Prepared)
  <2>1. ~(stage # "idle" /\ rtpc[tpc_seq] = "none" /\ ~Prepared) /\ stage # "sent"
    BY DEF AnswerSeq
  <2> QED BY <2>1 DEF AnswerSeq, Hears, Asks, pvars, tvars
<1>. DEFINE m == [type |-> "TSEQNUMRETURN", seq |-> tpc_seq, last |-> last_seq]
<1>2. m \in ToReplica
  <2>1. tpc_seq \in 0..MaxSeq /\ last_seq \in 0..MaxSeq
    BY Numbers
  <2> QED BY <2>1, MessageMade
<1>3. /\ Wire' = Wire \cup {m} /\ i # 0 /\ to_r'[i] = m /\ Later(i)' = {} /\ Earlier(i)' = Wire
  BY <1>1, <1>2, Grown
<1>4. Base(i)' = last_seq /\ Top = last_seq /\ Top' = last_seq /\ last_seq \in Nat /\ tpc_seq \in Nat
  BY <1>1, <1>3, Numbers DEF Base, Top
<1>5. /\ rlast <= last_seq /\ \A n \in rmarked : n <= last_seq
      /\ \A n \in TSeq : rtpc[n] \in Decisions => n <= last_seq /\ outcome[n] = rtpc[n]
  BY <1>4 DEF TruthInv, MemoryTruth
<1>6. \A n \in TSeq : Seen(n) => outcome[n] # "COMMIT"
  BY <1>1 DEF FollowInv, BlindInv
<1>7. \A n \in TSeq : rtpc[n] # "COMMIT"
  BY <1>5, <1>6 DEF Seen, Decisions
<1>8. \A n \in TSeq : Seen(n)' => Seen(n)
  BY <1>1, <1>3 DEF Seen
<1>9. \A k \in Earlier(i)' : /\ k.type \in Decisions => k.seq <= last_seq
                             /\ k.type = "COMMIT" => ~Seen(k.seq)'
  BY <1>3, <1>4, <1>6, <1>8, WireFacts DEF Decisions, Asked
<1>10. ASSUME NEW n \in TSeq, n > last_seq, n <= tpc_seq
       PROVE  rtpc[n] = "PREPARE" \/ [type |-> "PREPARE", seq |-> n] \in Wire
  <2>1. n = tpc_seq /\ stage # "idle"
    BY <1>4, <1>10, Numbers, StageFacts
  <2>2. CASE Prepared
    BY <2>1, <2>2 DEF Prepared, Wire
  <2>3. CASE rtpc[tpc_seq] # "none"
    <3>1. rtpc[n] \notin Decisions
      BY <1>4, <1>5, <1>10, Numbers, SMTT(30)
    <3>2. rtpc[n] \in {"none", "PREPARE", "COMMIT", "ABORT"}
      BY DEF TypeInv, ReplicaTypes
    <3> QED BY <2>1, <2>3, <3>1, <3>2 DEF Decisions
  <2> QED BY <1>1, <2>1, <2>2, <2>3
<1>11. \A n \in TSeq : ~(n > Base(i)' /\ n <= Top')
  BY <1>4, Numbers
<1> QED BY <1>1, <1>3, <1>4, <1>5, <1>7, <1>9, <1>10, <1>11 DEF Follows

(* A PREPARE or a decision is sent.                                        *)
LEMMA SendFollows ==
    ASSUME TypeInv, TruthInv, FollowInv, [Next]_vars, NEW m \in ToReplica, to_r' = Append(to_r, m),
           NEW i \in Spots, Numbered(i),
           \/ Start /\ m = [type |-> "PREPARE", seq |-> tpc_seq + 1]
           \/ Send /\ m = [type |-> outcome[tpc_seq], seq |-> tpc_seq]
    PROVE  Follows(i)'
<1>1. Follows(i) /\ Base(i) \in Nat /\ Base(i) <= Top
  BY BaseTop DEF FollowInv
<1>2. /\ Wire' = Wire \cup {m} /\ Later(i)' = Later(i) \cup {m} /\ Earlier(i)' = Earlier(i)
      /\ i # 0 => to_r'[i] = to_r[i]
  BY Grown
<1>3. UNCHANGED <<rlast, rtpc, rmarked, outcome, last_seq>>
  BY DEF Start, Send, tvars
<1>4. Base(i)' = Base(i)
  BY <1>2, <1>3 DEF Base
<1>5. Top = last_seq /\ Top \in Nat /\ tpc_seq \in Nat /\ last_seq \in Nat
  BY Numbers DEF Top, Start, Send
<1>6. CASE Start
  <2>1. /\ tpc_seq' = tpc_seq + 1 /\ stage' = "voting" /\ stage = "idle" /\ m.type = "PREPARE"
        /\ m.seq = tpc_seq + 1 /\ last_seq = tpc_seq
    BY <1>6, StageFacts DEF Start, Send
  <2>2. Top' = last_seq
    BY <1>3, <2>1 DEF Top
  <2>3. \A n \in TSeq : Seen(n)' => Seen(n) \/ n = tpc_seq + 1
    BY SeenMoves
  <2>4. m.seq > Base(i)
    BY <1>1, <1>5, <2>1
  <2>5. ASSUME NEW k \in Earlier(i), k.type = "COMMIT" PROVE ~Seen(k.seq)'
    <3>1. k \in Wire /\ ~Seen(k.seq)
      BY <1>1, <2>5, Around DEF Follows
    <3>2. k.seq \in TSeq /\ k.seq \in Nat /\ k.seq <= Top
      BY <2>5, <3>1, WireFacts DEF Decisions, Asked
    <3>3. k.seq # tpc_seq + 1
      BY <1>5, <2>1, <3>2
    <3> QED BY <2>3, <3>1, <3>2, <3>3
  <2>6. ASSUME NEW n \in TSeq, n > Base(i), n <= tpc_seq'
        PROVE  rtpc[n] = "PREPARE" \/ [type |-> "PREPARE", seq |-> n] \in Wire'
    <3>1. CASE n = tpc_seq + 1
      BY <1>2, <1>6, <2>1, <3>1 DEF Send
    <3>2. CASE n <= tpc_seq
      BY <1>1, <1>2, <2>6, <3>2 DEF Follows
    <3>3. n = tpc_seq + 1 \/ n <= tpc_seq
      <4>1. n \in Nat /\ n <= tpc_seq + 1
        BY <2>1, <2>6, Numbers
      <4> QED BY <1>5, <4>1
    <3> QED BY <3>1, <3>2, <3>3
  <2>7. \A n \in TSeq : n > Base(i) /\ n <= Top' => [type |-> outcome[n], seq |-> n] \in Wire'
    BY <1>1, <1>2, <1>5, <2>2 DEF Follows
  <2>8. \A k \in Later(i)' : k.type \in Asked => k.seq > Base(i)
    BY <1>1, <1>2, <2>4 DEF Follows
  <2>9. \A k \in Earlier(i)' : k.type \in Decisions => k.seq <= Base(i)
    BY <1>1, <1>2 DEF Follows
  <2> QED BY <1>1, <1>2, <1>3, <1>4, <2>5, <2>6, <2>7, <2>8, <2>9 DEF Follows
<1>7. CASE Send
  <2>1. /\ tpc_seq' = tpc_seq /\ stage' = "sent" /\ stage = "decided" /\ m.type = outcome[tpc_seq]
        /\ m.seq = tpc_seq /\ last_seq + 1 = tpc_seq /\ tpc_seq \in TSeq
    BY <1>7, StageFacts DEF Start, Send
  <2>2. Top' = tpc_seq
    BY <2>1 DEF Top
  <2>3. \A n \in TSeq : Seen(n)' => Seen(n)
    BY <2>1, SeenMoves DEF Start
  <2>4. m.seq > Base(i)
    BY <1>1, <1>5, <2>1
  <2>5. ASSUME NEW k \in Earlier(i), k.type = "COMMIT" PROVE ~Seen(k.seq)'
    <3>1. k \in Wire /\ ~Seen(k.seq)
      BY <1>1, <2>5, Around DEF Follows
    <3>2. k.seq \in TSeq
      BY <2>5, <3>1, WireFacts DEF Decisions, Asked
    <3> QED BY <2>3, <3>1, <3>2
  <2>6. \A n \in TSeq : n > Base(i) /\ n <= tpc_seq =>
           rtpc[n] = "PREPARE" \/ [type |-> "PREPARE", seq |-> n] \in Wire'
    BY <1>1, <1>2 DEF Follows
  <2>7. ASSUME NEW n \in TSeq, n > Base(i), n <= Top'
        PROVE  [type |-> outcome[n], seq |-> n] \in Wire'
    <3>1. CASE n = tpc_seq
      <4>1. m = [type |-> outcome[tpc_seq], seq |-> tpc_seq]
        BY <1>7, <2>1 DEF Start
      <4> QED BY <1>2, <3>1, <4>1
    <3>2. CASE n <= Top
      BY <1>1, <1>2, <2>7, <3>2 DEF Follows
    <3> QED BY <1>5, <2>1, <2>2, <2>7, <3>1, <3>2, Numbers
  <2>8. \A k \in Later(i)' : k.type \in Asked => k.seq > Base(i)
    BY <1>1, <1>2, <2>4 DEF Follows
  <2>9. \A k \in Earlier(i)' : k.type \in Decisions => k.seq <= Base(i)
    BY <1>1, <1>2 DEF Follows
  <2> QED BY <1>1, <1>2, <1>3, <1>4, <2>1, <2>5, <2>6, <2>7, <2>8, <2>9 DEF Follows
<1> QED BY <1>6, <1>7

(* A PREPARE is read.                                                      *)
LEMMA PrepareFollows ==
    ASSUME TypeInv, TruthInv, SessionInv, FollowInv, [Next]_vars, ReadPrepare,
           NEW i \in Spots', NEW j \in Spots, Numbered(j),
           (j = i + 1 /\ i # 0 /\ j # 0) \/ (j = 0 /\ i = 0)
    PROVE  Follows(i)'
<1>. DEFINE n == to_r[1].seq
<1>1. /\ to_r # <<>> /\ to_r' = Tail(to_r) /\ to_r[1].type = "PREPARE" /\ n \in TSeq /\ to_r[1] \in Wire
  BY FirstMessage, FirstFacts DEF ReadPrepare, Asked
<1>2. Follows(j)
  BY DEF FollowInv
<1>3. /\ UNCHANGED <<rlast, rmarked, tpc_seq, last_seq, stage, outcome>>
      /\ \/ rtpc' = rtpc /\ (rlast >= n \/ rtpc[n] # "none")
         \/ rtpc' = [rtpc EXCEPT ![n] = "PREPARE"] /\ rtpc[n] = "none"
  BY DEF ReadPrepare, pvars, tvars
<1>4. /\ i # 0 => to_r'[i] = to_r[j] /\ Later(i)' = Later(j) /\ Earlier(i)' \subseteq Earlier(j)
      /\ i = 0 => Later(i)' \subseteq Later(j) /\ Earlier(i)' = {}
      /\ Wire = {to_r[1]} \cup Wire'
  BY <1>1, Shifted, FirstFacts, Around
<1>5. Base(i)' = Base(j) /\ Top' = Top
  BY <1>3, <1>4 DEF Base, Top
<1>6. rtpc \in [TSeq -> {"none", "PREPARE", "COMMIT", "ABORT"}] /\ rlast \in Nat /\ TSeq \subseteq Nat
      /\ Base(j) \in Nat /\ Top \in Nat /\ tpc_seq \in Nat
  BY Numbers, BaseTop, StageFacts, SMTT(30) DEF TypeInv, ReplicaTypes
<1>. HIDE DEF n
<1>7. \A k \in TSeq : rtpc'[k] \in Decisions => rtpc'[k] = rtpc[k]
  BY <1>1, <1>3, <1>6 DEF Decisions
<1>8. \A k \in TSeq : Seen(k)' => Seen(k)
  <2>1. tpc_seq' # tpc_seq + 1
    BY <1>3, <1>6
  <2> QED BY <2>1, SeenMoves DEF Start
<1>9. ASSUME NEW k \in Earlier(i)'
      PROVE  /\ k.type \in Decisions => k.seq <= Base(j)
             /\ k.type = "COMMIT" => ~Seen(k.seq)'
  <2>1. k \in Earlier(j) /\ k \in Wire
    BY <1>4, <1>9, Around
  <2>2. /\ k.type \in Decisions => k.seq <= Base(j) /\ k.seq \in TSeq
        /\ k.type = "COMMIT" => ~Seen(k.seq) /\ k.seq \in TSeq
    BY <1>2, <2>1, WireFacts DEF Follows, Decisions, Asked
  <2> QED BY <1>8, <2>2
<1>10. \A k \in Later(i)' : k.type \in Asked => k.seq > Base(j)
  BY <1>2, <1>4 DEF Follows
<1>11. ASSUME NEW k \in TSeq, k > Base(j), k <= Top
       PROVE  [type |-> outcome[k], seq |-> k] \in Wire'
  <2>1. [type |-> outcome[k], seq |-> k] \in Wire
    BY <1>2, <1>11 DEF Follows
  <2>2. outcome[k] # "PREPARE"
    <3>1. PrimaryTypes
      BY DEF TypeInv
    <3> QED BY <3>1 DEF PrimaryTypes
  <2> QED BY <1>1, <1>4, <2>1, <2>2
<1>12. ASSUME NEW k \in TSeq, k > Base(j), k <= tpc_seq
       PROVE  rtpc'[k] = "PREPARE" \/ [type |-> "PREPARE", seq |-> k] \in Wire'
  <2>1. rtpc[k] = "PREPARE" \/ [type |-> "PREPARE", seq |-> k] \in Wire
    BY <1>2, <1>12 DEF Follows
  <2>2. rtpc[k] = "PREPARE" => rtpc'[k] = "PREPARE"
    BY <1>3, <1>6, <1>1
  <2>3. CASE k = n
    <3>1. ~(rlast >= n)
      <4>1. rlast <= Base(j)
        BY <1>2 DEF Follows
      <4> QED BY <1>6, <1>12, <2>3, <4>1
    <3>2. rtpc[k] \notin Decisions
      <4>1. rtpc[k] \in Decisions => k <= Base(j)
        BY <1>2 DEF Follows
      <4> QED BY <1>6, <1>12, <4>1
    <3>3. rtpc[k] \in {"none", "PREPARE", "COMMIT", "ABORT"}
      BY <1>6
    <3> QED BY <1>1, <1>3, <1>6, <2>3, <3>1, <3>2, <3>3 DEF Decisions
  <2>4. CASE k # n
    BY <1>4, <2>1, <2>2, <2>4 DEF n
  <2> QED BY <2>3, <2>4
<1>13. \A k \in TSeq : rtpc'[k] \in Decisions => k <= Base(j) /\ (i # 0 => rtpc'[k] # "COMMIT")
  BY <1>2, <1>7 DEF Follows
<1> QED BY <1>2, <1>3, <1>5, <1>9, <1>10, <1>11, <1>12, <1>13 DEF Follows

(* A decision is read.                                                     *)
LEMMA DecisionFollows ==
    ASSUME TypeInv, TruthInv, SessionInv, FollowInv, [Next]_vars, spoiled' = {},
           NEW d \in Decisions, ReadDecision(d),
           NEW i \in Spots', NEW j \in Spots, Numbered(j),
           (j = i + 1 /\ i # 0 /\ j # 0) \/ (j = 0 /\ i = 0)
    PROVE  Follows(i)'
<1>. DEFINE n == to_r[1].seq
<1>1. /\ n \in TSeq /\ n \in Nat /\ n <= Top /\ outcome[n] = d
      /\ to_r # <<>> /\ to_r' = Tail(to_r) /\ to_r[1] \in Wire /\ to_r[1] = [type |-> d, seq |-> n]
      /\ \A m \in TSeq : m > n => rtpc[m] = "none"
      /\ \A m \in Later(1) : Before(to_r[1], m)
  BY DecisionRead
<1>2. Follows(j)
  BY DEF FollowInv
<1>3. UNCHANGED <<tpc_seq, last_seq, stage, outcome>>
  BY DecisionRead DEF pvars
<1>4. /\ i # 0 => to_r'[i] = to_r[j] /\ Later(i)' = Later(j) /\ Earlier(i)' \subseteq Earlier(j)
                  /\ to_r[1] \in Earlier(j)
      /\ i = 0 => Later(i)' = Later(1) /\ Earlier(i)' = {}
      /\ Wire = {to_r[1]} \cup Wire'
  <2>1. i = 0 => i + 1 = 1
    OBVIOUS
  <2> QED BY <1>1, <2>1, Shifted, FirstFacts
<1>5. Top' = Top
  BY <1>3 DEF Top
<1>6. rtpc \in [TSeq -> {"none", "PREPARE", "COMMIT", "ABORT"}] /\ rlast \in Nat /\ TSeq \subseteq Nat
      /\ Base(j) \in Nat /\ Top \in Nat /\ tpc_seq \in Nat
  BY Numbers, BaseTop, StageFacts, SMTT(30) DEF TypeInv, ReplicaTypes
<1>7. Ignored(n) \/ Noted(d, n) \/ Applied(d, n)
  BY DecisionEffect
<1>8. i = 0 => Applied(d, n)
  BY NumberedApplies
<1>. HIDE DEF n
<1>9. \A k \in TSeq : Seen(k)' => Seen(k)
  <2>1. tpc_seq' # tpc_seq + 1
    BY <1>3, <1>6
  <2> QED BY <2>1, SeenMoves DEF Start
<1>10. /\ \A k \in TSeq : k # n => rtpc'[k] = rtpc[k]
       /\ rtpc'[n] # rtpc[n] => rtpc'[n] = d /\ rtpc[n] = "PREPARE"
       /\ rmarked' \subseteq rmarked \cup {n}
       /\ rlast' = rlast \/ rlast' = n
  BY <1>1, <1>6, <1>7 DEF Ignored, Noted, Applied
<1>11. /\ n <= Base(i)' /\ Base(i)' >= Base(j) /\ Base(i)' \in Nat /\ rlast' <= Base(i)'
       /\ i # 0 => Base(i)' = Base(j)
  <2>1. CASE i = 0
    <3>1. rlast' = n /\ Base(i)' = n /\ Base(j) = rlast /\ n = rlast + 1
      BY <1>8, <2>1 DEF Applied, Base
    <3> QED BY <1>1, <1>6, <2>1, <3>1
  <2>2. CASE i # 0
    <3>1. Base(i)' = Base(j)
      BY <1>4, <2>2 DEF Base
    <3>2. n <= Base(j)
      <4>1. to_r[1] \in Earlier(j) /\ to_r[1].type \in Decisions /\ to_r[1].seq = n
        BY <1>1, <1>4, <2>2
      <4> QED BY <1>2, <4>1 DEF Follows
    <3>3. rlast <= Base(j)
      BY <1>2 DEF Follows
    <3> QED BY <1>1, <1>6, <1>10, <3>1, <3>2, <3>3
  <2> QED BY <2>1, <2>2
<1>12. \A k \in TSeq : rtpc'[k] \in Decisions => k <= Base(i)' /\ (i # 0 => rtpc'[k] # "COMMIT")
  <2>1. SUFFICES ASSUME NEW k \in TSeq, rtpc'[k] \in Decisions
                 PROVE  k <= Base(i)' /\ (i # 0 => rtpc'[k] # "COMMIT")
    OBVIOUS
  <2>2. CASE rtpc'[k] = rtpc[k]
    <3>1. k <= Base(j) /\ (j # 0 => rtpc'[k] # "COMMIT")
      BY <1>2, <2>1, <2>2 DEF Follows
    <3> QED BY <1>6, <1>11, <3>1
  <2>3. CASE rtpc'[k] # rtpc[k]
    <3>1. k = n /\ rtpc'[n] = d /\ rtpc[n] = "PREPARE"
      BY <1>10, <2>3
    <3>2. i # 0 => d # "COMMIT"
      <4>1. SUFFICES ASSUME i # 0, d = "COMMIT" PROVE FALSE
        OBVIOUS
      <4>2. to_r[1] \in Earlier(j) /\ to_r[1].type = "COMMIT" /\ to_r[1].seq = n
        BY <1>1, <1>4, <4>1
      <4>3. ~Seen(n)
        BY <1>2, <4>2 DEF Follows
      <4> QED BY <3>1, <4>3 DEF Seen
    <3> QED BY <1>11, <3>1, <3>2
  <2> QED BY <2>2, <2>3
<1>13. \A k \in rmarked' : k <= Base(i)'
  <2>1. SUFFICES ASSUME NEW k \in rmarked, k # n PROVE k <= Base(i)'
    BY <1>10, <1>11
  <2>2. k <= Base(j) /\ k \in Nat
    BY <1>2, <1>6 DEF Follows, TypeInv, ReplicaTypes
  <2> QED BY <1>6, <1>11, <2>2
<1>14. ASSUME NEW k \in Earlier(i)'
       PROVE  /\ k.type \in Decisions => k.seq <= Base(i)'
              /\ k.type = "COMMIT" => ~Seen(k.seq)'
  <2>1. i # 0 /\ k \in Earlier(j) /\ k \in Wire
    BY <1>4, <1>14, Around
  <2>2. /\ k.type \in Decisions => k.seq <= Base(j) /\ k.seq \in TSeq
        /\ k.type = "COMMIT" => ~Seen(k.seq) /\ k.seq \in TSeq
    BY <1>2, <2>1, WireFacts DEF Follows, Decisions, Asked
  <2> QED BY <1>9, <1>11, <2>1, <2>2
<1>15. ASSUME NEW k \in Later(i)', k.type \in Asked
       PROVE  k.seq > Base(i)'
  <2>1. CASE i = 0
    <3>1. Before(to_r[1], k)
      BY <1>1, <1>4, <1>15, <2>1
    <3>2. n < k.seq /\ Base(i)' = n
      BY <1>1, <1>8, <1>15, <2>1, <3>1 DEF Before, Applied, Base
    <3>3. k \in Wire
      BY <1>4, <1>15, <2>1, Around, FirstFacts, <1>1
    <3> QED BY <1>1, <1>15, <3>2, <3>3, WireFacts
  <2>2. CASE i # 0
    BY <1>2, <1>4, <1>11, <1>15, <2>2 DEF Follows
  <2> QED BY <2>1, <2>2
<1>16. ASSUME NEW k \in TSeq, k > Base(i)', k <= Top
       PROVE  [type |-> outcome[k], seq |-> k] \in Wire'
  <2>1. k > Base(j) /\ k # n
    BY <1>6, <1>11, <1>16, <1>1
  <2>2. [type |-> outcome[k], seq |-> k] \in Wire
    BY <1>2, <1>16, <2>1 DEF Follows
  <2> QED BY <1>1, <1>4, <2>1, <2>2
<1>17. ASSUME NEW k \in TSeq, k > Base(i)', k <= tpc_seq
       PROVE  rtpc'[k] = "PREPARE" \/ [type |-> "PREPARE", seq |-> k] \in Wire'
  <2>1. k > Base(j) /\ k # n
    BY <1>6, <1>11, <1>17, <1>1
  <2>2. rtpc[k] = "PREPARE" \/ [type |-> "PREPARE", seq |-> k] \in Wire
    BY <1>2, <1>17, <2>1 DEF Follows
  <2> QED BY <1>1, <1>4, <1>10, <2>1, <2>2
<1>18. \A k \in Earlier(i)' : k.type = "COMMIT" => ~Seen(k.seq)'
  BY <1>14
<1> QED BY <1>3, <1>5, <1>11, <1>12, <1>13, <1>14, <1>15, <1>16, <1>17, <1>18 DEF Follows

(* A step that neither sends nor reads.                                    *)
LEMMA QuietSteps ==
    ASSUME TypeInv, to_r' = to_r, member
    PROVE  /\ ~ReadSeq /\ ~ReadPrepare /\ ~DecisionIn /\ ~ReadLog /\ ~ReadCheckpoint
           /\ ~Start /\ ~Send /\ ~Checkpoint /\ ~AnswerLog /\ ~AnswerSeq
<1>1. to_r \in Seq(ToReplica)
  BY DEF TypeInv, WireTypes
<1>2. to_r # <<>> => to_r' # Tail(to_r)
  BY <1>1, TailFacts
<1>3. \A m : to_r' # Append(to_r, m)
  BY <1>1
<1>4. ~ReadSeq /\ ~ReadPrepare /\ ~DecisionIn /\ ~ReadLog /\ ~ReadCheckpoint
  BY <1>2 DEF ReadSeq, ReadPrepare, DecisionIn, ReadDecision, ReadLog, ReadCheckpoint, Reads
<1>5. ~Start /\ ~Send /\ ~Checkpoint /\ ~AnswerLog /\ ~AnswerSeq
  BY <1>3 DEF Start, Send, Checkpoint, AnswerLog, AnswerSeq, Told
<1> QED BY <1>4, <1>5

LEMMA ReadMoves ==
    ASSUME TypeInv, SessionInv, [Next]_vars, to_r # <<>>, to_r' = Tail(to_r), member'
    PROVE  \/ ReadLog /\ to_r[1].type = "LOGFILE"
           \/ ReadSeq /\ to_r[1].type = "TSEQNUMRETURN"
           \/ ReadPrepare /\ to_r[1].type = "PREPARE"
           \/ ReadCheckpoint /\ to_r[1].type = "CHECKPOINT"
           \/ \E d \in Decisions : ReadDecision(d) /\ to_r[1].type = d
<1>1. to_r \in Seq(ToReplica)
  BY DEF TypeInv, WireTypes
<1>2. Tail(to_r) # to_r
  BY <1>1, TailFacts
<1>3. \A m : Tail(to_r) # Append(to_r, m)
  BY <1>1, TailFacts
<1>4. ~Drop
  BY DEF Drop
<1>5. ~Join
  BY DEF Join, SessionInv, CleanInv
<1> QED BY <1>2, <1>3, <1>4, <1>5, WireMoves

(* A message that is no PREPARE and no decision is read or sent.           *)
LEMMA OtherSends ==
    ASSUME TypeInv, TruthInv, FollowInv, [Next]_vars, NEW m \in ToReplica, to_r' = Append(to_r, m),
           NEW i \in Spots, Numbered(i), m.type \notin Asked, Checkpoint \/ AnswerLog
    PROVE  Follows(i)'
<1>1. Follows(i) /\ rlast <= Base(i)
  BY DEF FollowInv, Follows
<1>2. /\ Wire' = Wire \cup {m} /\ Later(i)' = Later(i) \cup {m} /\ Earlier(i)' = Earlier(i)
      /\ i # 0 => to_r'[i] = to_r[i]
      /\ i \in Spots'
  BY Grown
<1>3. UNCHANGED <<rlast, rtpc, rmarked, tpc_seq, stage, last_seq>>
  BY DEF Checkpoint, AnswerLog, tvars, pvars
<1>4. Base(i)' = Base(i) /\ Top' = Top
  BY <1>2, <1>3 DEF Base, Top
<1>5. rlast' <= Base(i)
  BY <1>1, <1>3
<1>6. \A k \in Later(i)' : k.type \in Asked => k \in Later(i)
  BY <1>2
<1>7. \A k \in Wire' : k.type \in Asked => k \in Wire
  BY <1>2
<1>8. \A k \in Wire : k \in Wire'
  BY <1>2
<1>9. \A k \in Earlier(i)' : k.type \in Decisions => k \in Earlier(i)
  BY <1>2
<1> QED BY <1>1, <1>2, <1>3, <1>4, <1>5, <1>6, <1>7, <1>8, <1>9, FollowsKept

LEMMA OtherReads ==
    ASSUME TypeInv, TruthInv, SessionInv, FollowInv, [Next]_vars, to_r # <<>>, to_r' = Tail(to_r),
           to_r[1].type \notin Asked, NEW i \in Spots', NEW j \in Spots, Numbered(j),
           \/ (ReadLog \/ ReadCheckpoint) /\ ((j = i + 1 /\ i # 0 /\ j # 0) \/ (j = 0 /\ i = 0))
           \/ ReadSeq /\ i = 0 /\ j = 1 /\ j = i + 1
    PROVE  Follows(i)'
<1>1. Follows(j) /\ rlast <= Base(j)
  BY DEF FollowInv, Follows
<1>2. /\ i # 0 => to_r'[i] = to_r[j] /\ Later(i)' = Later(j) /\ Earlier(i)' \subseteq Earlier(j)
      /\ i = 0 => Later(i)' = Later(1) /\ Earlier(i)' = {} /\ Later(1) \subseteq Later(j)
      /\ Wire = {to_r[1]} \cup Wire' /\ Wire' \subseteq Wire
  <2>1. i = 0 => i + 1 = 1
    OBVIOUS
  <2>2. i = 0 => Earlier(i)' = {}
    <3>1. \A k \in DOMAIN to_r' : ~(k < 0)
      BY Reading
    <3> QED BY <3>1 DEF Earlier
  <2>3. j = 0 => Later(1) \subseteq Later(j)
    BY FirstFacts, Around
  <2> QED BY <2>1, <2>2, <2>3, Shifted, FirstFacts
<1>3. UNCHANGED <<rtpc, rmarked, tpc_seq, stage, last_seq>>
  BY DEF ReadLog, ReadCheckpoint, ReadSeq, tvars, pvars
<1>4. Top' = Top
  BY <1>3 DEF Top
<1>5. Base(i)' = Base(j) /\ rlast' <= Base(j)
  <2>1. CASE ReadLog \/ ReadCheckpoint
    <3>1. rlast' = rlast
      BY <2>1 DEF ReadLog, ReadCheckpoint, tvars
    <3>2. ~ReadSeq
      BY <2>1 DEF ReadLog, ReadCheckpoint, ReadSeq, Reads
    <3>3. Base(i)' = Base(j)
      BY <1>2, <3>1, <3>2 DEF Base
    <3> QED BY <1>1, <3>1, <3>3
  <2>2. CASE ReadSeq /\ i = 0 /\ j = 1
    <3>1. rlast' = Larger(rlast, to_r[1].last) /\ Base(j) = to_r[1].last /\ Base(i)' = rlast'
      BY <2>2 DEF ReadSeq, LastAfter, Base
    <3>2. Base(j) \in Nat /\ rlast \in Nat
      BY BaseTop, Numbers
    <3>3. rlast' = Base(j)
      BY <1>1, <3>1, <3>2 DEF Larger
    <3> QED BY <3>1, <3>2, <3>3
  <2> QED BY <2>1, <2>2
<1>6. \A k \in Later(i)' : k.type \in Asked => k \in Later(j)
  BY <1>2
<1>7. \A k \in Wire : k.type \in Asked => k \in Wire'
  BY <1>2
<1>8. \A k \in Wire' : k \in Wire
  BY <1>2
<1>9. \A k \in Earlier(i)' : k.type \in Decisions => k \in Earlier(j)
  BY <1>2
<1>10. i # 0 => j # 0
  OBVIOUS
<1> QED BY <1>1, <1>3, <1>4, <1>5, <1>6, <1>7, <1>8, <1>9, <1>10, FollowsKept

LEMMA NextAnchors ==
    ASSUME TypeInv, TruthInv, SessionInv, FollowInv, [Next]_vars, spoiled' = {},
           NEW i \in Spots', Numbered(i)'
    PROVE  Follows(i)'
<1>0. rup' /\ member'
  BY DEF Numbered
<1>1. CASE AnswerSeq /\ i = Len(to_r) + 1 /\ Unnumbered
  BY <1>1, AnswerFollows
<1>2. CASE to_r' = to_r /\ i \in Spots /\ Numbered(i)
  <2>1. Follows(i) /\ Later(i)' = Later(i) /\ Earlier(i)' = Earlier(i) /\ Wire' = Wire /\ i \in Spots'
    BY <1>2, Kept DEF FollowInv
  <2>2. ~ReadSeq /\ ~ReadPrepare /\ ~DecisionIn /\ ~Start /\ ~Send
    BY <1>2, QuietSteps DEF Numbered
  <2>3. ~Crash /\ ~Restart
    BY <1>0, <1>2 DEF Numbered, Crash, Restart
  <2>4. UNCHANGED <<rlast, rtpc, rmarked, tpc_seq>>
    BY <2>2, <2>3, Frame
  <2>5. Top' = Top
    BY <2>2, TopMoves
  <2>6. Base(i)' = Base(i)
    BY <1>2, <2>4 DEF Base
  <2>7. rlast' <= Base(i)
    BY <2>1, <2>4 DEF Follows
  <2>8. /\ \A m \in Earlier(i)' : m.type \in Decisions => m \in Earlier(i)
        /\ \A m \in Later(i)' : m.type \in Asked => m \in Later(i)
        /\ \A m \in Wire : m.type \in Asked => m \in Wire'
        /\ \A m \in Wire' : m.type \in Asked => m \in Wire
    BY <2>1
  <2> QED BY <1>2, <2>1, <2>4, <2>5, <2>6, <2>7, <2>8, FollowsKept
<1>3. ASSUME i \in Spots, Numbered(i), NEW m \in ToReplica, to_r' = Append(to_r, m),
             \/ Start /\ m = [type |-> "PREPARE", seq |-> tpc_seq + 1]
             \/ Send /\ m = [type |-> outcome[tpc_seq], seq |-> tpc_seq]
             \/ Checkpoint /\ m = [type |-> "CHECKPOINT"]
             \/ AnswerLog /\ m = [type |-> "LOGFILE", file |-> answer[1]]
      PROVE  Follows(i)'
  <2>1. CASE \/ Start /\ m = [type |-> "PREPARE", seq |-> tpc_seq + 1]
             \/ Send /\ m = [type |-> outcome[tpc_seq], seq |-> tpc_seq]
    BY <1>3, <2>1, SendFollows
  <2>2. CASE \/ Checkpoint /\ m = [type |-> "CHECKPOINT"]
             \/ AnswerLog /\ m = [type |-> "LOGFILE", file |-> answer[1]]
    <3>1. m.type \notin Asked
      BY <2>2 DEF Asked, Decisions
    <3> QED BY <1>3, <2>2, <3>1, OtherSends
  <2> QED BY <1>3, <2>1, <2>2
<1>4. ASSUME to_r # <<>>, to_r' = Tail(to_r), NEW j \in Spots, Numbered(j),
             \/ j = i + 1 /\ (i = 0 => ReadSeq)
             \/ j = 0 /\ i = 0 /\ to_r[1].type # "TSEQNUMRETURN"
      PROVE  Follows(i)'
  <2>0. /\ i \in Nat /\ i + 1 # 0 /\ (i # 0 => i + 1 \in DOMAIN to_r /\ i + 1 # 1)
    BY <1>4, Shifted
  <2>1. CASE ReadSeq
    <3>1. to_r[1].type = "TSEQNUMRETURN"
      BY <2>1 DEF ReadSeq, Reads
    <3>2. i = 0
      <4>1. SUFFICES ASSUME i # 0 PROVE FALSE
        OBVIOUS
      <4>2. j = i + 1 /\ j \in DOMAIN to_r /\ j # 1 /\ j # 0 /\ to_r[j].type = "TSEQNUMRETURN"
        BY <1>4, <2>0, <3>1, <4>1 DEF Numbered
      <4>3. to_r[1] \in Earlier(j) /\ Before(to_r[1], to_r[j])
        BY <1>4, <4>2, FirstFacts, InOrder DEF SessionInv
      <4> QED BY <3>1, <4>2, <4>3 DEF Before
    <3>3. j = 1 /\ j = i + 1
      BY <1>4, <3>1, <3>2
    <3> QED BY <1>4, <2>1, <3>1, <3>2, <3>3, OtherReads DEF Asked, Decisions
  <2>2. ~ReadSeq => \/ j = i + 1 /\ i # 0 /\ j # 0
                    \/ j = 0 /\ i = 0
    BY <1>4, <2>0
  <2>3. CASE ReadPrepare
    <3>1. ~ReadSeq
      BY <2>3 DEF ReadPrepare, ReadSeq, Reads
    <3> QED BY <1>4, <2>2, <2>3, <3>1, PrepareFollows
  <2>4. ASSUME NEW d \in Decisions, ReadDecision(d) PROVE Follows(i)'
    <3>1. ~ReadSeq
      BY <2>4 DEF ReadDecision, ReadSeq, Reads, Decisions
    <3> QED BY <1>4, <2>2, <2>4, <3>1, DecisionFollows
  <2>5. CASE (ReadLog /\ to_r[1].type = "LOGFILE") \/ (ReadCheckpoint /\ to_r[1].type = "CHECKPOINT")
    <3>1. ~ReadSeq
      BY <2>5 DEF ReadSeq, Reads
    <3>2. to_r[1].type \notin Asked
      BY <2>5 DEF Asked, Decisions
    <3> QED BY <1>4, <2>2, <2>5, <3>1, <3>2, OtherReads
  <2>6. \/ ReadLog /\ to_r[1].type = "LOGFILE"
        \/ ReadSeq
        \/ ReadPrepare
        \/ ReadCheckpoint /\ to_r[1].type = "CHECKPOINT"
        \/ \E d \in Decisions : ReadDecision(d)
    BY <1>0, <1>4, ReadMoves
  <2> QED BY <2>1, <2>3, <2>4, <2>5, <2>6
<1>5. CASE /\ to_r # <<>> /\ to_r' = Tail(to_r)
           /\ \/ Numbered(i + 1) /\ i + 1 \in Spots /\ (i = 0 => ReadSeq)
              \/ Numbered(0) /\ i = 0 /\ to_r[1].type # "TSEQNUMRETURN"
  <2>1. CASE Numbered(i + 1) /\ i + 1 \in Spots /\ (i = 0 => ReadSeq)
    BY <1>4, <1>5, <2>1
  <2>2. CASE Numbered(0) /\ i = 0 /\ to_r[1].type # "TSEQNUMRETURN"
    BY <1>4, <1>5, <2>2, Around
  <2> QED BY <1>5, <2>1, <2>2
<1>6. CASE /\ i \in Spots /\ Numbered(i)
           /\ \E m \in ToReplica :
                 /\ to_r' = Append(to_r, m)
                 /\ \/ Start /\ m = [type |-> "PREPARE", seq |-> tpc_seq + 1]
                    \/ Send /\ m = [type |-> outcome[tpc_seq], seq |-> tpc_seq]
                    \/ Checkpoint /\ m = [type |-> "CHECKPOINT"]
                    \/ AnswerLog /\ m = [type |-> "LOGFILE", file |-> answer[1]]
  BY <1>3, <1>6
<1> QED BY <1>1, <1>2, <1>5, <1>6, NumberedMoves

LEMMA NextFollow ==
    ASSUME TypeInv, TruthInv, SessionInv, FollowInv, [Next]_vars, spoiled' = {}
    PROVE  FollowInv'
BY NextLane, NextBlind, NextAnchors DEF FollowInv

-----------------------------------------------------------------------------
(* How a step changes what the replica holds.                              *)
Unspoiled ==
    TypeInv /\ TruthInv /\ SessionInv /\ HoldInv /\ [Next]_vars /\ spoiled = {} /\ spoiled' = {}

Numbering(n) == [num |-> rnum + 1, seq |-> n]

Keeps       == /\ RRecs' = RRecs /\ UNCHANGED <<rsaved, rck>>
               /\ rtable' = rtable \/ Restart
               /\ rnum' = rnum \/ Restart \/ ReplayEnds
               /\ rqueue' = rqueue \/ rqueue' = <<>>
Writes(x)   == /\ RRecs' = Append(RRecs, x) /\ rtable' = Append(rtable, x.seq)
               /\ UNCHANGED <<rsaved, rck>>
Executes(n) == /\ ReadDecision("COMMIT") /\ to_r[1].seq = n /\ Applied("COMMIT", n)
               /\ Writes(Numbering(n)) /\ Numbering(n) \in Record
Replays(x)  == /\ Replay /\ rec.file.recs # <<>> /\ x = rec.file.recs[1] /\ ~Skips(x) /\ Writes(x)
               /\ x \in Record
Saves       == /\ ReadCheckpoint /\ rec.place = "none" /\ rqueue = <<>> /\ RRecs' = <<>>
               /\ rsaved' = rtable /\ rck' = rck + 1 /\ rnum' = 0 /\ rup /\ to_r # <<>>
               /\ to_r' = Tail(to_r) /\ to_r[1].type = "CHECKPOINT"
Loses       == /\ Crash /\ RRecs' = rlog /\ UNCHANGED <<rsaved, rck>> /\ ~rup'

LEMMA HeadFirst ==
    ASSUME NEW S, NEW q \in Seq(S), q # <<>>
    PROVE  Head(q) = q[1] /\ q[1] \in S
OBVIOUS

LEMMA TableMoves ==
    ASSUME Unspoiled
    PROVE  \/ Keeps
           \/ \E n \in TSeq : Executes(n)
           \/ \E x \in Record : Replays(x)
           \/ Saves
           \/ Loses
<1>0. /\ TypeInv /\ TruthInv /\ SessionInv /\ FollowInv /\ MemInv /\ FileInv /\ [Next]_vars
      /\ spoiled = {} /\ spoiled' = {}
  BY DEF Unspoiled, HoldInv
<1>1. rlog \in Seq(Record) /\ rqueue \in Seq(Record) /\ rnum \in Nat /\ rck \in Nat
  BY <1>0, RecordTypes, Numbers
<1>2. CASE UNCHANGED <<rlog, rqueue, rsaved, rck, rtable, rnum>>
  BY <1>2 DEF Keeps, RRecs
<1>3. CASE \E d \in Decisions : ReadDecision(d)
  <2>1. PICK d \in Decisions : ReadDecision(d)
    BY <1>3
  <2>. DEFINE n == to_r[1].seq
  <2>2. (Ignored(n) \/ Noted(d, n) \/ Applied(d, n)) /\ n \in TSeq /\ UNCHANGED <<rlog, rck, rsaved>>
    BY <1>0, <2>1, DecisionEffect, DecisionRead
  <2>3. CASE UNCHANGED <<rqueue, rtable, rnum>>
    BY <1>2, <2>2, <2>3
  <2>4. CASE ~UNCHANGED <<rqueue, rtable, rnum>>
    <3>1. Applied(d, n) /\ d = "COMMIT"
      BY <2>2, <2>4 DEF Ignored, Noted, Applied
    <3>2. /\ rqueue' = Append(rqueue, Numbering(n)) /\ rtable' = Append(rtable, n)
          /\ UNCHANGED <<rlog, rck, rsaved>>
      BY <2>2, <2>4, <3>1 DEF Applied, Numbering
    <3>3. Numbering(n) \in Record /\ Numbering(n).seq = n
      BY <1>1, <2>2 DEF Record, Numbering
    <3>. HIDE DEF n
    <3>4. RRecs' = Append(RRecs, Numbering(n))
      <4>1. rlog \o Append(rqueue, Numbering(n)) = Append(rlog \o rqueue, Numbering(n))
        BY <1>1, <3>3, JoinAppend
      <4> QED BY <3>2, <4>1 DEF RRecs
    <3>5. Executes(n)
      BY <2>1, <3>1, <3>2, <3>3, <3>4 DEF Executes, Writes, n
    <3> QED BY <2>2, <3>5
  <2> QED BY <2>3, <2>4
<1>4. CASE Replay
  <2>1. /\ rec.file.recs # <<>> /\ Recovering /\ UNCHANGED <<rqueue, rck, rsaved, rnum>>
        /\ \/ UNCHANGED <<rlog, rtable>>
           \/ /\ ~Skips(Head(rec.file.recs)) /\ rlog' = Append(rlog, Head(rec.file.recs))
              /\ rtable' = Append(rtable, Head(rec.file.recs).seq)
    BY <1>4 DEF Replay
  <2>. DEFINE x == rec.file.recs[1]
  <2>2. Head(rec.file.recs) = x /\ x \in Record
    BY <1>0, <2>1, Numbers, HeadFirst
  <2>. HIDE DEF x
  <2>3. CASE UNCHANGED <<rlog, rtable>>
    BY <1>2, <2>1, <2>3
  <2>4. CASE ~Skips(x) /\ rlog' = Append(rlog, x) /\ rtable' = Append(rtable, x.seq)
    <3>1. rqueue = <<>>
      BY <1>0, <2>1 DEF MemInv, Recovering
    <3>2. Append(rlog, x) \in Seq(Record)
      BY <1>1, <2>2
    <3>3. RRecs' = Append(RRecs, x)
      <4>1. RRecs = rlog /\ RRecs' = Append(rlog, x)
        BY <1>1, <2>1, <2>4, <3>1, <3>2, JoinEmpty DEF RRecs
      <4> QED BY <4>1
    <3>4. Replays(x)
      BY <1>4, <2>1, <2>2, <2>4, <3>3 DEF Replays, Writes, x
    <3> QED BY <2>2, <3>4
  <2> QED BY <2>1, <2>2, <2>3, <2>4
<1>5. CASE ReadCheckpoint
  <2>1. /\ rck' = rck + 1 /\ rsaved' = rtable /\ rlog' = <<>> /\ rnum' = 0 /\ rqueue' = rqueue
        /\ rec.place = "none" /\ rqueue = <<>>
    BY <1>0, <1>5 DEF ReadCheckpoint, Overtaking
  <2>2. RRecs' = <<>>
    BY <1>1, <2>1, JoinEmpty, EmptyFacts DEF RRecs
  <2>3. rup /\ to_r # <<>> /\ to_r' = Tail(to_r) /\ to_r[1].type = "CHECKPOINT"
    BY <1>5 DEF ReadCheckpoint, Reads
  <2> QED BY <1>5, <2>1, <2>2, <2>3 DEF Saves
<1>6. CASE ReplicaFlush
  <2>1. rlog' = rlog \o rqueue /\ rqueue' = <<>> /\ UNCHANGED <<rsaved, rck, rtable, rnum>>
    BY <1>6 DEF ReplicaFlush
  <2>2. rlog \o rqueue \in Seq(Record)
    BY <1>1, JoinedFacts
  <2>3. RRecs' = RRecs
    BY <1>1, <2>1, <2>2, JoinEmpty DEF RRecs
  <2> QED BY <2>1, <2>3 DEF Keeps
<1>7. CASE ReplayBegins
  <2>1. ~(rec.file.ck > rck)
    BY <1>0, <1>7 DEF ReplayBegins
  <2> QED BY <1>2, <1>7, <2>1 DEF ReplayBegins
<1>8. CASE ReplayEnds
  <2>1. /\ rck' = (IF rec.older THEN rck ELSE rec.file.ck) /\ Recovering
        /\ UNCHANGED <<rlog, rqueue, rsaved, rtable>>
    BY <1>8 DEF ReplayEnds
  <2>2. rec.file.ck = rck
    BY <1>0, <2>1 DEF FileInv
  <2> QED BY <1>8, <2>1, <2>2 DEF Keeps, RRecs
<1>14. CASE Restart
  <2>1. UNCHANGED <<rlog, rqueue, rsaved, rck>>
    BY <1>14 DEF Restart
  <2> QED BY <1>14, <2>1 DEF Keeps, RRecs
<1>9. CASE Crash
  <2>1. rqueue' = <<>> /\ UNCHANGED <<rlog, rsaved, rck>> /\ ~rup'
    BY <1>9 DEF Crash
  <2>2. RRecs' = rlog
    BY <1>1, <2>1, JoinEmpty DEF RRecs
  <2> QED BY <1>9, <2>1, <2>2 DEF Loses
<1>10. CASE UNCHANGED vars
  BY <1>2, <1>10 DEF vars, dvars
<1>11. CASE \/ Start \/ Send \/ Apply \/ ReadFile \/ AnswerLog \/ AnswerSeq \/ ReadVote \/ Drop
            \/ Flush \/ Checkpoint \/ CheckpointEnds \/ Join
  BY <1>2, <1>11 DEF Start, Send, Apply, ReadFile, AnswerLog, AnswerSeq, ReadVote, Drop, Flush,
                     Checkpoint, CheckpointEnds, Join, dvars
<1>12. CASE ReadLog \/ ReadSeq \/ ReadPrepare \/ \E d \in Decisions : Decide(d)
  BY <1>2, <1>12 DEF ReadLog, ReadSeq, ReadPrepare, Decide, dvars
<1>13. Next \/ UNCHANGED vars
  BY <1>0
<1>15. ~OwnCheckpoint
  BY <1>0 DEF OwnCheckpoint
<1> QED BY <1>3, <1>4, <1>5, <1>6, <1>7, <1>8, <1>9, <1>10, <1>11, <1>12, <1>13, <1>14, <1>15, Steps

(* The log that is replayed is one of the replica's own checkpoint.        *)
LEMMA ReplayStarts ==
    ASSUME Unspoiled, ReplayBegins
    PROVE  /\ rup /\ rec.place = "created" /\ rec.file.ck = rck /\ rlog' = rlog
           /\ rec' = [rec EXCEPT !.place = "replay", !.same = TRUE, !.older = FALSE, !.top = rnum]
           /\ rec'.file = rec.file /\ rec'.place = "replay"
<1>0. /\ TypeInv /\ FileInv /\ spoiled = {} /\ spoiled' = {} /\ RecTypes
      /\ rck \in Nat /\ rec.file.ck \in Nat /\ rec.file \in LogFile
  BY Numbers DEF Unspoiled, HoldInv, TypeInv, RecTypes
<1>. DEFINE f == rec.file
<1>1. /\ rup /\ rec.place = "created" /\ ~(f.ck > rck) /\ rlog' = rlog
      /\ rec' = [rec EXCEPT !.place = "replay", !.same = (f.ck = rck), !.older = (f.ck < rck),
                            !.top = rnum, !.file = IF f.ck < rck THEN [f EXCEPT !.recs = <<>>] ELSE f]
  BY <1>0 DEF ReplayBegins
<1>2. rck <= f.ck
  <2>1. HasFile(0) /\ FileOf(0) = f /\ 0 \in Spots
    BY <1>0, <1>1, Around DEF HasFile, FileOf
  <2> QED BY <1>0, <2>1 DEF FileInv, Fits
<1>3. f.ck = rck /\ ~(f.ck < rck)
  BY <1>0, <1>1, <1>2
<1>4. rec' = [rec EXCEPT !.place = "replay", !.same = TRUE, !.older = FALSE, !.top = rnum, !.file = f]
  <2>1. (f.ck = rck) = TRUE /\ (f.ck < rck) = FALSE
    BY <1>3
  <2>2. (IF f.ck < rck THEN [f EXCEPT !.recs = <<>>] ELSE f) = f
    BY <1>3
  <2>. HIDE DEF f
  <2> QED BY <1>1, <2>1, <2>2, ZenonT(60)
<1>5. /\ rec' = [rec EXCEPT !.place = "replay", !.same = TRUE, !.older = FALSE, !.top = rnum]
      /\ rec'.file = rec.file /\ rec'.place = "replay"
  BY <1>0, <1>4 DEF RecTypes
<1> QED BY <1>1, <1>3, <1>5

LEMMA Writing ==
    ASSUME TypeInv, NEW x \in Record, Writes(x)
    PROVE  /\ Mem' = Append(Mem, x.seq) /\ Held' = Held \cup {x.seq} /\ Saved' = Saved
           /\ RRecs \in Seq(Record) /\ Len(RRecs) \in Nat
           /\ Len(RRecs') = Len(RRecs) + 1 /\ DOMAIN RRecs' = DOMAIN RRecs \cup {Len(RRecs) + 1}
           /\ DOMAIN RRecs = 1..Len(RRecs)
           /\ \A i \in DOMAIN RRecs : RRecs'[i] = RRecs[i]
           /\ RRecs'[Len(RRecs) + 1] = x
<1>1. RRecs \in Seq(Record) /\ rsaved \in Seq(TSeq) /\ SeqsOf(RRecs) \in Seq(TSeq) /\ x.seq \in TSeq
  BY RecordTypes, RecordFields DEF Record
<1>2. RRecs' = Append(RRecs, x) /\ rsaved' = rsaved
  BY DEF Writes
<1>3. /\ SeqsOf(RRecs') = Append(SeqsOf(RRecs), x.seq) /\ Seqs(RRecs') = Seqs(RRecs) \cup {x.seq}
  BY <1>1, <1>2, SeqsOfAppend
<1>4. rsaved \o Append(SeqsOf(RRecs), x.seq) = Append(rsaved \o SeqsOf(RRecs), x.seq)
  BY <1>1, JoinAppend
<1>5. Mem' = Append(Mem, x.seq)
  <2>1. Mem' = rsaved' \o SeqsOf(RRecs')
    BY DEF Mem, SeqsOf
  <2> QED BY <1>2, <1>3, <1>4, <2>1 DEF Mem
<1>6. Saved' = Saved /\ Held' = Held \cup {x.seq}
  <2>1. Saved' = Saved
    BY <1>2 DEF Saved
  <2>2. Held' = Saved' \cup Seqs(RRecs')
    BY DEF Held, Seqs
  <2> QED BY <1>3, <2>1, <2>2 DEF Held
<1>7. /\ Len(RRecs) \in Nat /\ Len(RRecs') = Len(RRecs) + 1
      /\ DOMAIN RRecs' = 1..(Len(RRecs) + 1)
      /\ DOMAIN RRecs = 1..Len(RRecs)
      /\ \A i \in DOMAIN RRecs : RRecs'[i] = RRecs[i]
      /\ RRecs'[Len(RRecs) + 1] = x
  BY <1>1, <1>2, AppendFacts
<1>8. DOMAIN RRecs' = DOMAIN RRecs \cup {Len(RRecs) + 1}
  BY <1>7
<1> QED BY <1>1, <1>5, <1>6, <1>7, <1>8

LEMMA Keeping ==
    ASSUME Keeps
    PROVE  RRecs' = RRecs /\ Mem' = Mem /\ Held' = Held /\ Saved' = Saved
<1>1. RRecs' = RRecs /\ rsaved' = rsaved
  BY DEF Keeps
<1>2. Mem' = Mem
  BY <1>1 DEF Mem, SeqsOf
<1>3. Saved' = Saved
  BY <1>1 DEF Saved
<1> QED BY <1>1, <1>2, <1>3 DEF Held, Seqs

LEMMA Saving ==
    ASSUME TypeInv, Saves, rtable = Mem
    PROVE  RRecs' = <<>> /\ Mem' = Mem /\ Held' = Held /\ Saved' = Held /\ DOMAIN RRecs' = {} /\ Len(RRecs') = 0
<1>1. RRecs' = <<>> /\ rsaved' = Mem /\ Mem \in Seq(TSeq) /\ Held = {Mem[i] : i \in DOMAIN Mem}
  BY RecordTypes DEF Saves
<1>2. DOMAIN RRecs' = {} /\ Len(RRecs') = 0
  BY <1>1, EmptyFacts
<1>3. SeqsOf(<<>>) = <<>> /\ Seqs(<<>>) = {}
  BY EmptyFacts DEF SeqsOf, Seqs
<1>4. Mem' = Mem
  <2>1. Mem' = rsaved' \o SeqsOf(RRecs')
    BY DEF Mem, SeqsOf
  <2>2. SeqsOf(RRecs') = <<>>
    BY <1>1, <1>3
  <2>3. Mem' = Mem \o <<>>
    BY <1>1, <2>1, <2>2
  <2> QED BY <1>1, <2>3, JoinEmpty
<1>5. Saved' = Held
  BY <1>1 DEF Saved
<1>6. Held' = Saved' \cup Seqs(RRecs')
  BY DEF Held, Seqs
<1> QED BY <1>1, <1>2, <1>3, <1>4, <1>5, <1>6

LEMMA Losing ==
    ASSUME TypeInv, Loses
    PROVE  /\ RRecs' \in Seq(Record) /\ DOMAIN RRecs' \subseteq DOMAIN RRecs /\ Len(RRecs') <= Len(RRecs)
           /\ \A i \in DOMAIN RRecs' : RRecs'[i] = RRecs[i]
           /\ Saved' = Saved /\ Held' \subseteq Held
           /\ DOMAIN Mem' \subseteq DOMAIN Mem /\ \A i \in DOMAIN Mem' : Mem'[i] = Mem[i]
           /\ Len(RRecs) \in Nat /\ Len(RRecs') \in Nat
<1>1. /\ rlog \in Seq(Record) /\ rqueue \in Seq(Record) /\ rsaved \in Seq(TSeq) /\ RRecs \in Seq(Record)
      /\ RRecs' = rlog /\ rsaved' = rsaved /\ RRecs = rlog \o rqueue
  BY RecordTypes DEF Loses, RRecs
<1>2. /\ Len(rlog) \in Nat /\ Len(rqueue) \in Nat /\ DOMAIN rlog = 1..Len(rlog)
      /\ Len(RRecs) = Len(rlog) + Len(rqueue) /\ DOMAIN RRecs = 1..(Len(rlog) + Len(rqueue))
      /\ \A i \in DOMAIN rlog : RRecs[i] = rlog[i]
  BY <1>1, JoinedFacts
<1>3. DOMAIN rlog \subseteq DOMAIN RRecs /\ Len(rlog) <= Len(RRecs)
  BY <1>2
<1>4. Saved' = Saved
  BY <1>1 DEF Saved
<1>5. Seqs(rlog) \subseteq Seqs(RRecs)
  BY <1>2, <1>3 DEF Seqs
<1>6. Held' = Saved' \cup Seqs(RRecs')
  BY DEF Held, Seqs
<1>7. Mem' = rsaved \o SeqsOf(rlog)
  BY <1>1 DEF Mem, SeqsOf
<1>. DEFINE p == SeqsOf(rlog)
            r == SeqsOf(RRecs)
<1>8. /\ p \in Seq(TSeq) /\ Len(p) = Len(rlog) /\ \A i \in DOMAIN p : i \in DOMAIN rlog /\ p[i] = rlog[i].seq
      /\ r \in Seq(TSeq) /\ Len(r) = Len(RRecs) /\ \A i \in DOMAIN RRecs : r[i] = RRecs[i].seq
      /\ DOMAIN p = DOMAIN rlog
  BY <1>1, RecordFields
<1>9. \A i \in DOMAIN p : i \in DOMAIN r /\ r[i] = p[i]
  <2>1. DOMAIN r = DOMAIN RRecs
    BY <1>1, RecordFields
  <2> QED BY <1>2, <1>3, <1>8, <2>1
<1>. HIDE DEF p, r
<1>10. /\ DOMAIN (rsaved \o p) = 1..(Len(rsaved) + Len(p)) /\ DOMAIN (rsaved \o r) = 1..(Len(rsaved) + Len(r))
       /\ \A i \in DOMAIN rsaved : (rsaved \o p)[i] = rsaved[i] /\ (rsaved \o r)[i] = rsaved[i]
       /\ \A i \in DOMAIN p : (rsaved \o p)[Len(rsaved) + i] = p[i]
       /\ \A i \in DOMAIN r : (rsaved \o r)[Len(rsaved) + i] = r[i]
       /\ DOMAIN rsaved = 1..Len(rsaved) /\ DOMAIN p = 1..Len(p) /\ Len(rsaved) \in Nat
       /\ Len(p) \in Nat /\ Len(r) \in Nat
  <2>1. /\ DOMAIN (rsaved \o p) = 1..(Len(rsaved) + Len(p))
        /\ \A i \in DOMAIN rsaved : (rsaved \o p)[i] = rsaved[i]
        /\ \A i \in DOMAIN p : (rsaved \o p)[Len(rsaved) + i] = p[i]
        /\ DOMAIN rsaved = 1..Len(rsaved) /\ DOMAIN p = 1..Len(p) /\ Len(rsaved) \in Nat /\ Len(p) \in Nat
    <3>1. rsaved \in Seq(TSeq) /\ p \in Seq(TSeq)
      BY <1>1, <1>8
    <3> QED BY <3>1, JoinedFacts
  <2>2. /\ DOMAIN (rsaved \o r) = 1..(Len(rsaved) + Len(r)) /\ Len(r) \in Nat
        /\ \A i \in DOMAIN rsaved : (rsaved \o r)[i] = rsaved[i]
        /\ \A i \in DOMAIN r : (rsaved \o r)[Len(rsaved) + i] = r[i]
    <3>1. rsaved \in Seq(TSeq) /\ r \in Seq(TSeq)
      BY <1>1, <1>8
    <3> QED BY <3>1, JoinedFacts
  <2> QED BY <2>1, <2>2
<1>11. DOMAIN (rsaved \o p) \subseteq DOMAIN (rsaved \o r)
  BY <1>1, <1>2, <1>3, <1>8, <1>10
<1>12. ASSUME NEW i \in DOMAIN (rsaved \o p)
       PROVE  (rsaved \o p)[i] = (rsaved \o r)[i]
  <2>1. CASE i \in DOMAIN rsaved
    BY <1>10, <2>1
  <2>2. CASE i \notin DOMAIN rsaved
    <3>1. i - Len(rsaved) \in DOMAIN p /\ Len(rsaved) + (i - Len(rsaved)) = i
      BY <1>10, <2>2
    <3>2. i - Len(rsaved) \in DOMAIN r /\ r[i - Len(rsaved)] = p[i - Len(rsaved)]
      BY <1>9, <3>1
    <3> QED BY <1>10, <3>1, <3>2
  <2> QED BY <2>1, <2>2
<1>13. Mem' = rsaved \o p /\ Mem = rsaved \o r
  BY <1>7 DEF p, r, Mem
<1>14. DOMAIN Mem' \subseteq DOMAIN Mem /\ \A i \in DOMAIN Mem' : Mem'[i] = Mem[i]
  BY <1>11, <1>12, <1>13
<1> QED BY <1>1, <1>2, <1>3, <1>4, <1>5, <1>6, <1>14 DEF Held

(* A replica with its numbers keeps them, and no log is on its way to it.  *)
LEMMA NumberedStays ==
    ASSUME TypeInv, SessionInv, [Next]_vars, Numbered(0), rup', member'
    PROVE  Numbered(0)'
<1>1. rup /\ member /\ ~Unnumbered /\ ~InTransit("TSEQNUMRETURN")
  BY DEF Numbered
<1>2. ~Join /\ ~Drop /\ ~AnswerSeq
  BY <1>1, AnswerPhases DEF Join, Drop, SessionInv
<1>3. ~Unnumbered'
  <2>1. AskInv
    BY DEF SessionInv
  <2> QED BY <1>1, <1>2, <2>1, AskMoves
<1>4. ~InTransit("TSEQNUMRETURN")'
  <2>1. CASE to_r' = to_r
    BY <1>1, <2>1 DEF InTransit
  <2>2. CASE to_r # <<>> /\ to_r' = Tail(to_r)
    BY <1>1, <2>2, Reading DEF InTransit
  <2>3. ASSUME NEW m \in ToReplica, to_r' = Append(to_r, m),
               \/ Start /\ m = [type |-> "PREPARE", seq |-> tpc_seq + 1]
               \/ Send /\ m = [type |-> outcome[tpc_seq], seq |-> tpc_seq]
               \/ Checkpoint /\ m = [type |-> "CHECKPOINT"]
               \/ AnswerLog /\ m = [type |-> "LOGFILE", file |-> answer[1]]
               \/ AnswerSeq /\ m = [type |-> "TSEQNUMRETURN", seq |-> tpc_seq, last |-> last_seq]
        PROVE  ~InTransit("TSEQNUMRETURN")'
    <3>1. Send => outcome[tpc_seq] \in Decisions
      BY DEF Send, TypeInv, PrimaryTypes
    <3>2. m.type # "TSEQNUMRETURN"
      BY <1>2, <2>3, <3>1 DEF Decisions
    <3> QED BY <1>1, <2>3, <3>2, Sending DEF InTransit
  <2> QED BY <1>2, <2>1, <2>2, <2>3, WireMoves
<1> QED BY <1>3, <1>4 DEF Numbered

LEMMA NoLogAhead ==
    ASSUME TypeInv, SessionInv
    PROVE  /\ Numbered(0) => ~InTransit("LOGFILE")
           /\ \A i \in Spots : i # 0 /\ Numbered(i) =>
                 ~Numbered(0) /\ ~Unnumbered /\ InTransit("TSEQNUMRETURN")
           /\ rup /\ member => Unnumbered \/ \E i \in Spots : Numbered(i)
           /\ \A i \in Spots : Numbered(i) => ~Unnumbered
<1>1. PhaseInv
  BY DEF SessionInv
<1>2. Numbered(0) => ~InTransit("LOGFILE")
  BY <1>1 DEF PhaseInv, Numbered, InTransit
<1>3. \A i \in Spots : i # 0 /\ Numbered(i) => ~Numbered(0) /\ ~Unnumbered /\ InTransit("TSEQNUMRETURN")
  BY <1>1, Around DEF PhaseInv, Numbered, InTransit
<1>4. ASSUME rup, member, ~Unnumbered PROVE \E i \in Spots : Numbered(i)
  <2>1. CASE InTransit("TSEQNUMRETURN")
    <3>1. PICK j \in DOMAIN to_r : to_r[j].type = "TSEQNUMRETURN"
      BY <2>1 DEF InTransit
    <3> QED BY <1>4, <3>1, Around DEF Numbered
  <2>2. CASE ~InTransit("TSEQNUMRETURN")
    BY <1>4, <2>2, Around DEF Numbered
  <2> QED BY <2>1, <2>2
<1>5. \A i \in Spots : Numbered(i) => ~Unnumbered
  BY <1>3 DEF Numbered
<1> QED BY <1>2, <1>3, <1>4, <1>5

(* A transaction that is executed, or replayed, is the next one to hold.   *)
LEMMA ExecutedFacts ==
    ASSUME Unspoiled, NEW n \in TSeq, Executes(n)
    PROVE  /\ Committed(n) /\ n <= Top /\ (\A h \in Held : h < n) /\ Numbering(n).num = Len(RRecs) + 1
           /\ Numbering(n).seq = n /\ rup /\ member /\ Numbered(0) /\ rec.place = "none" /\ rlast' = n
           /\ n = rlast + 1 /\ to_r # <<>> /\ to_r' = Tail(to_r) /\ to_r[1] = [type |-> "COMMIT", seq |-> n]
           /\ UNCHANGED <<pvars, lvars, rec>> /\ rnum' = rnum + 1
<1>0. /\ TypeInv /\ TruthInv /\ SessionInv /\ FollowInv /\ MemInv /\ MarkInv
  BY DEF Unspoiled, HoldInv
<1>1. /\ ReadDecision("COMMIT") /\ to_r[1].seq = n /\ Applied("COMMIT", n)
      /\ RRecs' = Append(RRecs, Numbering(n))
  BY DEF Executes, Writes
<1>2. /\ n <= Top /\ outcome[n] = "COMMIT" /\ to_r[1] = [type |-> "COMMIT", seq |-> n] /\ rup /\ member
      /\ to_r # <<>> /\ to_r' = Tail(to_r) /\ UNCHANGED <<pvars, lvars, rec>>
  BY <1>0, <1>1, DecisionRead DEF Decisions
<1>3. /\ rec.place = "none" /\ Numbered(0) /\ rlast' = n /\ n = rlast + 1 /\ rnum' = rnum + 1
  BY <1>1 DEF Applied
<1>4. 1 \in DOMAIN to_r /\ to_r[1].type = "COMMIT" /\ to_r[1].seq = n
  BY <1>0, <1>2, FirstFacts
<1>5. \A h \in Held : h < n
  BY <1>0, <1>4 DEF MarkInv
<1>6. rnum = Len(RRecs)
  BY <1>0, <1>2, <1>3 DEF MemInv, Recovering
<1> QED BY <1>2, <1>3, <1>5, <1>6 DEF Committed, Numbering

LEMMA ReplayedFacts ==
    ASSUME Unspoiled, NEW x \in Record, Replays(x)
    PROVE  /\ x.seq \in TSeq /\ Committed(x.seq) /\ x.seq <= Top /\ (\A h \in Held : h < x.seq)
           /\ x.num = Len(RRecs) + 1 /\ rup /\ member /\ Recovering /\ rec.place # "none"
           /\ rec'.file.recs = Tail(rec.file.recs) /\ rec'.file.ck = rec.file.ck /\ rec'.place = rec.place
           /\ rec'.same = rec.same /\ rec'.top = Larger(rec.top, x.num)
           /\ HasFile(0) /\ FileOf(0) = rec.file /\ Fits(rec.file) /\ rec.file.ck = rck
           /\ 1 \in DOMAIN rec.file.recs /\ to_r' = to_r
           /\ UNCHANGED <<pvars, lvars, rnum, rlast>>
<1>0. /\ TypeInv /\ SessionInv /\ FileInv
  BY DEF Unspoiled, HoldInv
<1>1. /\ Replay /\ rec.file.recs # <<>> /\ x = rec.file.recs[1] /\ ~Skips(x)
  BY DEF Replays
<1>2. rup /\ Recovering /\ rec.place # "none" /\ UNCHANGED <<pvars, lvars, to_r, rnum, rlast>>
  BY <1>1 DEF Replay, Recovering, tvars
<1>3. member
  BY <1>0, <1>2 DEF SessionInv, CleanInv
<1>4. /\ rec.file.recs \in Seq(Record) /\ 1 \in DOMAIN rec.file.recs /\ Head(rec.file.recs) = x
  BY <1>0, <1>1, Numbers, HeadFirst, TailFacts
<1>5. rec' = [rec EXCEPT !.file.recs = Tail(@), !.top = Larger(@, x.num)]
  BY <1>1, <1>4 DEF Replay
<1>6. RecTypes
  BY <1>0 DEF TypeInv
<1>7. /\ rec'.file.recs = Tail(rec.file.recs) /\ rec'.file.ck = rec.file.ck /\ rec'.place = rec.place
      /\ rec'.same = rec.same /\ rec'.top = Larger(rec.top, x.num)
  BY <1>5, <1>6 DEF RecTypes, LogFile
<1>8. HasFile(0) /\ FileOf(0) = rec.file /\ 0 \in Spots
  BY <1>0, <1>2, Around DEF HasFile, FileOf
<1>9. Fits(rec.file) /\ rec.file.ck = rck /\ rec.same /\ rec.top = Len(RRecs) /\ rnum <= Len(RRecs)
  BY <1>0, <1>2, <1>8 DEF FileInv
<1>10. x.seq \in TSeq /\ Committed(x.seq) /\ x.seq <= Top
  BY <1>1, <1>4, <1>9 DEF Fits, Record
<1>11. x.num = Len(RRecs) + 1
  <2>1. ~(x.num <= rnum)
    BY <1>1, <1>9 DEF Skips
  <2> QED BY <1>0, <1>1, <1>2, <2>1 DEF FileInv
<1>12. x.num \notin DOMAIN RRecs
  <2>1. RRecs \in Seq(Record)
    BY <1>0, RecordTypes
  <2>2. DOMAIN RRecs = 1..Len(RRecs) /\ Len(RRecs) \in Nat
    BY <2>1
  <2> QED BY <1>11, <2>2
<1>13. \A h \in Held : h < x.seq
  BY <1>1, <1>4, <1>9, <1>12 DEF Fits
<1> QED BY <1>2, <1>3, <1>4, <1>7, <1>8, <1>9, <1>10, <1>11, <1>13

(* What both have in common.                                               *)
LEMMA WrittenFacts ==
    ASSUME Unspoiled, ~Keeps, ~Saves, ~Loses
    PROVE  \E x \in Record :
              /\ Writes(x) /\ x.seq \in TSeq /\ Committed(x.seq) /\ x.seq <= Top
              /\ \A h \in Held : h < x.seq
              /\ x.num = Len(RRecs) + 1 /\ rup
              /\ Replays(x) \/ (Executes(x.seq) /\ x = Numbering(x.seq))
<1>1. CASE \E n \in TSeq : Executes(n)
  <2>1. PICK n \in TSeq : Executes(n)
    BY <1>1
  <2>2. Writes(Numbering(n)) /\ Numbering(n) \in Record
    BY <2>1 DEF Executes
  <2>3. Numbering(n).seq = n
    BY DEF Numbering
  <2> QED BY <2>1, <2>2, <2>3, ExecutedFacts
<1>2. CASE \E x \in Record : Replays(x)
  <2>1. PICK x \in Record : Replays(x)
    BY <1>2
  <2>2. Writes(x)
    BY <2>1 DEF Replays
  <2> QED BY <2>1, <2>2, ReplayedFacts
<1> QED BY <1>1, <1>2, TableMoves

(* What is held after a step: as before, or one transaction more, or fewer. *)
LEMMA HeldMoves ==
    ASSUME Unspoiled, NEW n \in Held'
    PROVE  n \in TSeq /\ (n \in Held \/ \E x \in Record : n = x.seq /\ Writes(x) /\ ~Keeps /\ ~Saves /\ ~Loses)
<1>0. TypeInv /\ MemInv /\ TypeInv'
  BY NextTypes DEF Unspoiled, HoldInv
<1>1. Held \subseteq TSeq
  BY <1>0, RecordTypes
<1>2. CASE Keeps
  BY <1>1, <1>2, Keeping
<1>3. CASE Saves
  BY <1>0, <1>1, <1>3, Saving DEF MemInv, Saves
<1>4. CASE Loses
  BY <1>0, <1>1, <1>4, Losing
<1>5. CASE ~Keeps /\ ~Saves /\ ~Loses
  <2>1. PICK x \in Record : Writes(x) /\ x.seq \in TSeq
    BY <1>5, WrittenFacts
  <2> QED BY <1>0, <1>1, <1>5, <2>1, Writing
<1> QED BY <1>2, <1>3, <1>4, <1>5

LEMMA NextMem ==
    ASSUME Unspoiled
    PROVE  MemInv'
<1>0. /\ TypeInv /\ TruthInv /\ SessionInv /\ FollowInv /\ MemInv /\ MarkInv /\ FileInv /\ [Next]_vars
      /\ TypeInv'
  BY NextTypes DEF Unspoiled, HoldInv
<1>1. /\ RRecs \in Seq(Record) /\ Mem \in Seq(TSeq) /\ Held = {Mem[i] : i \in DOMAIN Mem} /\ Len(RRecs) \in Nat
      /\ Held \subseteq TSeq
  BY <1>0, RecordTypes, RecordFields
<1>2. \A n \in Held' : outcome'[n] = "COMMIT" /\ n <= Top'
  <2>1. SUFFICES ASSUME NEW n \in Held' PROVE outcome'[n] = "COMMIT" /\ n <= Top'
    OBVIOUS
  <2>2. n \in TSeq /\ (n \in Held \/ \E x \in Record : n = x.seq /\ Writes(x) /\ ~Keeps /\ ~Saves /\ ~Loses)
    BY HeldMoves
  <2>3. outcome[n] = "COMMIT" /\ n <= Top
    <3>1. CASE n \in Held
      BY <1>0, <3>1 DEF MemInv, Committed
    <3>2. CASE n \notin Held
      <4>1. PICK x \in Record : n = x.seq /\ Writes(x) /\ ~Keeps /\ ~Saves /\ ~Loses
        BY <2>2, <3>2
      <4>2. PICK y \in Record : Writes(y) /\ Committed(y.seq) /\ y.seq <= Top
        BY <4>1, WrittenFacts
      <4>3. n = y.seq
        BY <1>0, <2>1, <3>2, <4>2, Writing
      <4> QED BY <4>2, <4>3 DEF Committed
    <3> QED BY <3>1, <3>2
  <2> QED BY <1>0, <2>2, <2>3, Stays
<1>3. Rising(Mem')
  <2>1. Rising(Mem)
    BY <1>0 DEF MemInv
  <2>2. CASE Keeps
    BY <2>1, <2>2, Keeping
  <2>3. CASE Saves
    BY <1>0, <2>1, <2>3, Saving DEF MemInv, Saves
  <2>4. CASE Loses
    BY <1>0, <2>1, <2>4, Losing DEF Rising
  <2>5. CASE ~Keeps /\ ~Saves /\ ~Loses
    <3>1. PICK x \in Record : Writes(x) /\ x.seq \in TSeq /\ \A h \in Held : h < x.seq
      BY <2>5, WrittenFacts
    <3>2. Mem' = Append(Mem, x.seq)
      BY <1>0, <3>1, Writing
    <3>3. \A i \in DOMAIN Mem : Mem[i] < x.seq
      BY <1>1, <3>1
    <3>4. Rising(Append(Mem, x.seq))
      BY <1>1, <2>1, <3>1, <3>3, RisingAppend
    <3> QED BY <3>2, <3>4
  <2> QED BY <2>2, <2>3, <2>4, <2>5
<1>4. \A i \in DOMAIN RRecs' : RRecs'[i].num = i
  <2>1. \A i \in DOMAIN RRecs : RRecs[i].num = i
    BY <1>0 DEF MemInv
  <2>2. CASE Keeps
    BY <2>1, <2>2, Keeping
  <2>3. CASE Saves
    BY <1>0, <2>3, Saving DEF MemInv, Saves
  <2>4. CASE Loses
    BY <1>0, <2>1, <2>4, Losing
  <2>5. CASE ~Keeps /\ ~Saves /\ ~Loses
    <3>1. PICK x \in Record : Writes(x) /\ x.num = Len(RRecs) + 1
      BY <2>5, WrittenFacts
    <3> QED BY <1>0, <2>1, <3>1, Writing
  <2> QED BY <2>2, <2>3, <2>4, <2>5
<1>5. ~rup => rqueue = <<>> /\ RRecs = rlog /\ rec.place = "none"
  <2>1. ~rup => rqueue = <<>> /\ rec.place = "none"
    BY <1>0 DEF SessionInv, CleanInv
  <2>2. rqueue = <<>> => RRecs = rlog
    BY <1>0, RecordTypes, JoinEmpty DEF RRecs
  <2> QED BY <2>1, <2>2
<1>6. ASSUME rup'
      PROVE  rtable' = Mem'
  <2>1. CASE Restart
    <3>1. Keeps /\ ~rup /\ rtable' = rsaved \o [i \in DOMAIN rlog |-> rlog[i].seq]
      BY <2>1, TableMoves DEF Restart, Executes, Replays, Saves, Loses, Crash, Replay, ReadDecision, Reads
    <3>2. Mem = rsaved \o [i \in DOMAIN rlog |-> rlog[i].seq]
      BY <1>5, <3>1 DEF Mem, SeqsOf
    <3> QED BY <3>1, <3>2, Keeping
  <2>2. CASE ~Restart
    <3>1. rup
      BY <1>0, <1>6, <2>2, Frame DEF Crash
    <3>2. rtable = Mem
      BY <1>0, <3>1 DEF MemInv
    <3>3. CASE Keeps
      BY <2>2, <3>2, <3>3, Keeping DEF Keeps
    <3>4. CASE Saves
      <4>1. rtable' = rtable
        BY <3>4 DEF Saves, ReadCheckpoint
      <4> QED BY <1>0, <3>2, <3>4, <4>1, Saving
    <3>5. ~Loses
      BY <1>6 DEF Loses
    <3>6. CASE ~Keeps /\ ~Saves /\ ~Loses
      <4>1. PICK x \in Record : Writes(x)
        BY <3>6, WrittenFacts
      <4> QED BY <1>0, <3>2, <4>1, Writing DEF Writes
    <3> QED BY <3>3, <3>4, <3>5, <3>6
  <2> QED BY <2>1, <2>2
<1>7. ASSUME rup', ~Recovering'
      PROVE  rnum' = Len(RRecs')
  <2>1. CASE Restart
    <3>1. Keeps /\ ~rup /\ rnum' = Len(rlog)
      BY <2>1, TableMoves DEF Restart, Executes, Replays, Saves, Loses, Crash, Replay, ReadDecision, Reads
    <3> QED BY <1>5, <3>1, Keeping
  <2>2. CASE ReplayEnds
    <3>1. rnum' = rec.top /\ Recovering /\ rup /\ UNCHANGED <<rlog, rqueue>>
      BY <2>2 DEF ReplayEnds, Counted
    <3>2. rec.top = Len(RRecs)
      BY <1>0, <3>1 DEF FileInv
    <3> QED BY <3>1, <3>2 DEF RRecs
  <2>3. CASE ~Restart /\ ~ReplayEnds
    <3>1. rup
      BY <1>0, <1>7, <2>3, Frame DEF Crash
    <3>2. ~Crash
      BY <1>7 DEF Crash
    <3>3. ~Recovering
      <4>1. SUFFICES ASSUME Recovering PROVE FALSE
        OBVIOUS
      <4>2. CASE rec' = rec
        BY <1>7, <4>1, <4>2 DEF Recovering
      <4>3. CASE ReadLog
        <5>1. 1 \in DOMAIN to_r /\ to_r[1].type = "LOGFILE"
          BY <1>0, <4>3, FirstMessage DEF ReadLog
        <5> QED BY <1>0, <4>1, <5>1 DEF SessionInv, PhaseInv, Recovering
      <4>4. CASE ReplayBegins
        BY <4>1, <4>4 DEF ReplayBegins, Recovering
      <4>5. CASE Replay
        <5>1. RecTypes
          BY <1>0 DEF TypeInv
        <5>2. rec'.place = rec.place
          BY <4>5, <5>1 DEF Replay, RecTypes
        <5> QED BY <1>7, <4>1, <5>2 DEF Recovering
      <4> QED BY <1>0, <2>3, <3>2, <4>2, <4>3, <4>4, <4>5, Frame
    <3>4. rnum = Len(RRecs)
      BY <1>0, <3>1, <3>3 DEF MemInv
    <3>5. CASE Keeps
      BY <2>3, <3>4, <3>5, Keeping DEF Keeps
    <3>6. CASE Saves
      BY <1>0, <3>1, <3>6, Saving DEF Saves, MemInv
    <3>7. ~Loses
      BY <3>2 DEF Loses
    <3>8. CASE \E n \in TSeq : Executes(n)
      <4>1. PICK n \in TSeq : Executes(n)
        BY <3>8
      <4>2. Writes(Numbering(n)) /\ Numbering(n) \in Record /\ rnum' = rnum + 1
        BY <4>1, ExecutedFacts DEF Executes
      <4> QED BY <1>0, <3>4, <4>2, Writing
    <3>9. ~ \E x \in Record : Replays(x)
      BY <3>3 DEF Replays, Replay
    <3> QED BY <3>5, <3>6, <3>7, <3>8, <3>9, TableMoves
  <2> QED BY <2>1, <2>2, <2>3
<1>8. ASSUME rqueue' # <<>>
      PROVE  Numbered(0)' /\ rec'.place = "none"
  <2>1. ~Crash
    BY <1>8 DEF Crash
  <2>2. Numbered(0) /\ rec.place = "none"
    <3>1. CASE rqueue # <<>>
      BY <1>0, <3>1 DEF MemInv
    <3>2. CASE rqueue = <<>>
      <4>1. CASE \E n \in TSeq : Executes(n)
        BY <4>1, ExecutedFacts
      <4>2. ~Keeps
        BY <1>8, <3>2 DEF Keeps
      <4>3. ~ \E x \in Record : Replays(x)
        BY <1>8, <3>2 DEF Replays, Replay
      <4>4. ~Saves /\ ~Loses
        BY <1>8, <2>1, <3>2 DEF Saves, Loses, ReadCheckpoint
      <4> QED BY <4>1, <4>2, <4>3, <4>4, TableMoves
    <3> QED BY <3>1, <3>2
  <2>3. rup /\ member
    BY <2>2 DEF Numbered
  <2>4. rup' /\ member'
    <3>1. rup' \in BOOLEAN /\ member' \in BOOLEAN /\ rup \in BOOLEAN /\ member \in BOOLEAN
      BY <1>0 DEF TypeInv, PrimaryTypes, ReplicaTypes
    <3>2. ~Restart /\ ~Join /\ ~Drop
      BY <2>3 DEF Restart, Join, Drop
    <3> QED BY <1>0, <2>1, <2>3, <3>1, <3>2, Frame
  <2>5. Numbered(0)'
    BY <1>0, <2>2, <2>4, NumberedStays
  <2>6. ~ReadLog
    <3>1. ReadLog => 1 \in DOMAIN to_r /\ to_r[1].type = "LOGFILE"
      BY <1>0, FirstMessage DEF ReadLog
    <3> QED BY <1>0, <2>2, <3>1, NoLogAhead DEF InTransit
  <2>7. ~ReplayBegins /\ ~Replay /\ ~ReplayEnds
    BY <2>2 DEF ReplayBegins, Replay, ReplayEnds, Recovering
  <2>8. rec' = rec
    BY <1>0, <2>1, <2>6, <2>7, Frame
  <2> QED BY <2>2, <2>5, <2>8
<1> QED BY <1>2, <1>3, <1>4, <1>6, <1>7, <1>8 DEF MemInv, Committed

-----------------------------------------------------------------------------
(* The checkpoints of the primary.                                         *)
Sent(m) ==
    /\ to_r' = Append(to_r, m) /\ member /\ m \in ToReplica
    /\ \/ Start /\ m = [type |-> "PREPARE", seq |-> tpc_seq + 1]
       \/ Send /\ m = [type |-> outcome[tpc_seq], seq |-> tpc_seq] /\ m.type \in Decisions
       \/ Checkpoint /\ m = [type |-> "CHECKPOINT"]
       \/ AnswerLog /\ m = [type |-> "LOGFILE", file |-> answer[1]]
       \/ AnswerSeq /\ m = [type |-> "TSEQNUMRETURN", seq |-> tpc_seq, last |-> last_seq]

(* A message on its way was so before, or has just been sent.              *)
LEMMA OldOrNew ==
    ASSUME TypeInv, [Next]_vars, NEW i \in DOMAIN to_r'
    PROVE  \/ \E j \in DOMAIN to_r :
                 /\ to_r'[i] = to_r[j] /\ Later(j) \subseteq Later(i)'
                 /\ \A m \in Later(i)' : m \in Later(j) \/ Sent(m)
           \/ Sent(to_r'[i]) /\ Later(i)' = {}
<1>0. Send => outcome[tpc_seq] \in Decisions
  BY DEF Send, TypeInv, PrimaryTypes
<1>1. CASE to_r' = to_r
  BY <1>1, Kept
<1>2. CASE to_r' = <<>>
  BY <1>2, EmptyFacts
<1>3. CASE to_r # <<>> /\ to_r' = Tail(to_r)
  BY <1>3, Shifted
<1>4. CASE \E m : Sent(m)
  <2>1. PICK m : Sent(m)
    BY <1>4
  <2>2. m \in ToReplica /\ to_r' = Append(to_r, m)
    BY <2>1 DEF Sent
  <2>3. CASE i = Len(to_r) + 1
    BY <2>1, <2>2, <2>3, Grown
  <2>4. CASE i # Len(to_r) + 1
    <3>1. i \in DOMAIN to_r
      BY <2>2, <2>4, Sending
    <3> QED BY <2>1, <2>2, <3>1, Grown, Around
  <2> QED BY <2>3, <2>4
<1> QED BY <1>0, <1>1, <1>2, <1>3, <1>4, WireMoves DEF Sent

LEMMA SentKinds ==
    ASSUME TypeInv, NEW m, Sent(m)
    PROVE  /\ m.type = "CHECKPOINT" => Checkpoint
           /\ m.type = "LOGFILE" => AnswerLog
           /\ m.type = "TSEQNUMRETURN" => AnswerSeq
           /\ m.type = "COMMIT" => Send /\ m.seq = tpc_seq /\ Committed(tpc_seq)
BY DEF Sent, Decisions, Committed

LEMMA SendLogs ==
    ASSUME TypeInv, Send, Committed(tpc_seq)
    PROVE  /\ tpc_seq \in Seqs(AllRecs') /\ Seqs(AllRecs) \subseteq Seqs(AllRecs')
           /\ AllRecs' = Append(AllRecs, [num |-> Num + 1, seq |-> tpc_seq])
           /\ [num |-> Num + 1, seq |-> tpc_seq] \in Record
<1>1. /\ UNCHANGED <<log, queue, num, ck, checkpointing, tpc_seq, outcome>>
      /\ stage = "decided" /\ stage' = "sent"
  BY DEF Send, lvars
<1>2. Recs' = Recs /\ AllRecs = Recs
  BY <1>1 DEF AllRecs, Recs, Coming
<1>3. AllRecs' = Append(AllRecs, [num |-> Num + 1, seq |-> tpc_seq])
  BY <1>1, <1>2 DEF AllRecs, Num, Coming, Committed
<1>4. [num |-> Num + 1, seq |-> tpc_seq] \in Record
  BY <1>1, StageFacts, RecordTypes DEF Record
<1>5. Seqs(AllRecs') = Seqs(AllRecs) \cup {tpc_seq}
  BY <1>3, <1>4, RecordTypes, SeqsOfAppend
<1> QED BY <1>3, <1>4, <1>5

LEMMA SendHeld ==
    ASSUME TypeInv, MemInv, Send
    PROVE  Held' = Held /\ \A h \in Held : h < tpc_seq
<1>1. UNCHANGED <<rlog, rqueue, rsaved>> /\ stage = "decided"
  BY DEF Send, dvars
<1>2. Held' = Held
  BY <1>1 DEF Held, Saved, RRecs, Seqs
<1>3. Top = last_seq /\ last_seq + 1 = tpc_seq /\ last_seq \in Nat
  BY <1>1, StageFacts, Numbers
<1>4. \A h \in Held : h \in Nat /\ h <= Top
  <2>1. Held \subseteq TSeq /\ TSeq \subseteq Nat
    BY RecordTypes DEF TSeq
  <2>2. \A h \in Held : h <= Top
    BY DEF MemInv
  <2> QED BY <2>1, <2>2
<1> QED BY <1>2, <1>3, <1>4

(* The log of the primary after a step.                                    *)
LEMMA LogGrows ==
    ASSUME TypeInv, LogInv, [Next]_vars, spoiled' = {}
    PROVE  \/ Checkpoint /\ AllRecs' = <<>> /\ Seqs(AllRecs') = {} /\ ck' = ck + 1
           \/ ~Checkpoint /\ ck' = ck /\ Seqs(AllRecs') = Seqs(AllRecs) /\ AllRecs' = AllRecs
           \/ /\ Send /\ Committed(tpc_seq) /\ ~Checkpoint /\ ck' = ck
              /\ Seqs(AllRecs') = Seqs(AllRecs) \cup {tpc_seq}
              /\ AllRecs' = Append(AllRecs, [num |-> Num + 1, seq |-> tpc_seq])
              /\ [num |-> Num + 1, seq |-> tpc_seq] \in Record
<1>1. Checkpoint => ck' = ck + 1 /\ ck' # ck /\ ~Send
  BY Numbers DEF Checkpoint, Send, pvars
<1>2. CASE AllRecs' = AllRecs /\ ck' = ck
  BY <1>1, <1>2
<1>3. CASE Send /\ Committed(tpc_seq) /\ ck' = ck
  <2>1. /\ AllRecs' = Append(AllRecs, [num |-> Num + 1, seq |-> tpc_seq])
        /\ [num |-> Num + 1, seq |-> tpc_seq] \in Record
    BY <1>3, SendLogs
  <2>2. Seqs(AllRecs') = Seqs(AllRecs) \cup {tpc_seq}
    BY <2>1, RecordTypes, SeqsOfAppend
  <2> QED BY <1>1, <1>3, <2>1, <2>2
<1>4. CASE Checkpoint /\ AllRecs' = <<>> /\ ck' = ck + 1
  BY <1>4, EmptyFacts DEF Seqs
<1> QED BY <1>2, <1>3, <1>4, LogMoves

LEMMA NextMark ==
    ASSUME Unspoiled
    PROVE  MarkInv'
<1>0. /\ LogInv /\ TypeInv /\ TruthInv /\ SessionInv /\ FollowInv /\ MemInv /\ MarkInv /\ FileInv /\ [Next]_vars
      /\ spoiled' = {} /\ spoiled = {}
  BY DEF Unspoiled, HoldInv
<1>1. ASSUME Unlogged', NEW i \in DOMAIN to_r', to_r'[i].type = "CHECKPOINT"
      PROVE  FALSE
  <2>1. ~Join
    BY <1>1, EmptyFacts DEF Join
  <2>2. Unlogged
    <3>1. AskInv
      BY <1>0 DEF SessionInv
    <3> QED BY <1>0, <1>1, <2>1, <3>1, AskMoves
  <2>3. CASE \E j \in DOMAIN to_r : to_r'[i] = to_r[j]
    BY <1>0, <1>1, <2>2, <2>3 DEF MarkInv, InTransit
  <2>4. CASE Sent(to_r'[i])
    <3>1. Checkpoint
      BY <1>0, <1>1, <2>4, SentKinds
    <3> QED BY <1>0, <2>2, <3>1 DEF Checkpoint
  <2> QED BY <1>0, <2>3, <2>4, OldOrNew
<1>2. ASSUME NEW i \in DOMAIN to_r', to_r'[i].type = "CHECKPOINT"
      PROVE  /\ \A m \in Later(i)' : m.type # "LOGFILE"
             /\ \A n \in Seqs(AllRecs') : [type |-> "COMMIT", seq |-> n] \in Later(i)'
  <2>1. ASSUME NEW j \in DOMAIN to_r, to_r'[i] = to_r[j], Later(j) \subseteq Later(i)',
               \A m \in Later(i)' : m \in Later(j) \/ Sent(m)
        PROVE  /\ \A m \in Later(i)' : m.type # "LOGFILE"
               /\ \A n \in Seqs(AllRecs') : [type |-> "COMMIT", seq |-> n] \in Later(i)'
    <3>1. /\ \A m \in Later(j) : m.type # "LOGFILE"
          /\ \A n \in Seqs(AllRecs) : [type |-> "COMMIT", seq |-> n] \in Later(j)
          /\ ~Unlogged /\ member
      <4>1. to_r[j].type = "CHECKPOINT"
        BY <1>2, <2>1
      <4>2. ~Unlogged
        BY <1>0, <4>1 DEF MarkInv, InTransit
      <4>3. member
        BY <1>0, EmptyFacts DEF SessionInv, CleanInv, TypeInv, PrimaryTypes
      <4> QED BY <1>0, <4>1, <4>2, <4>3 DEF MarkInv
    <3>2. ASSUME NEW m \in Later(i)', m.type = "LOGFILE" PROVE FALSE
      <4>1. Sent(m)
        BY <2>1, <3>1, <3>2
      <4>2. AnswerLog
        BY <1>0, <3>2, <4>1, SentKinds
      <4> QED BY <1>0, <3>1, <4>2, AnswerPhases DEF SessionInv
    <3>3. ASSUME NEW n \in Seqs(AllRecs') PROVE [type |-> "COMMIT", seq |-> n] \in Later(i)'
      <4>1. CASE n \in Seqs(AllRecs)
        BY <2>1, <3>1, <4>1
      <4>2. CASE n \notin Seqs(AllRecs)
        <5>1. Send /\ Committed(tpc_seq) /\ n = tpc_seq
          BY <1>0, <3>3, <4>2, LogGrows
        <5>. DEFINE c == [type |-> outcome[tpc_seq], seq |-> tpc_seq]
        <5>2. to_r' = Append(to_r, c) /\ c = [type |-> "COMMIT", seq |-> n]
          BY <3>1, <5>1 DEF Send, Told, Committed
        <5>3. c \in ToReplica
          <6>1. tpc_seq \in TSeq
            BY <1>0, <5>1, StageFacts DEF Send
          <6> QED BY <5>1, <5>2, <6>1, MessageMade DEF Asked, Decisions
        <5>. HIDE DEF c
        <5>4. i \in DOMAIN to_r
          <6>1. to_r'[i] # c
            BY <1>2, <5>2
          <6> QED BY <1>0, <5>2, <5>3, <6>1, Sending
        <5> QED BY <1>0, <5>2, <5>3, <5>4, Grown, Around
      <4> QED BY <4>1, <4>2
    <3> QED BY <3>2, <3>3
  <2>2. CASE Sent(to_r'[i]) /\ Later(i)' = {}
    <3>1. Checkpoint
      BY <1>0, <1>2, <2>2, SentKinds
    <3>2. Seqs(AllRecs') = {}
      <4>1. ~Send
        BY <3>1 DEF Checkpoint, Send, pvars
      <4> QED BY <1>0, <3>1, <4>1, LogGrows
    <3> QED BY <2>2, <3>2
  <2> QED BY <1>0, <2>1, <2>2, OldOrNew
<1>3. ASSUME NEW i \in DOMAIN to_r', to_r'[i].type = "COMMIT", to_r'[i].seq \notin Seqs(AllRecs')
      PROVE  \E m \in Later(i)' : m.type = "CHECKPOINT"
  <2>1. ASSUME NEW j \in DOMAIN to_r, to_r'[i] = to_r[j], Later(j) \subseteq Later(i)'
        PROVE  \E m \in Later(i)' : m.type = "CHECKPOINT"
    <3>1. CASE Seqs(AllRecs) \subseteq Seqs(AllRecs')
      BY <1>0, <1>3, <2>1, <3>1 DEF MarkInv
    <3>2. CASE Checkpoint
      <4>1. member
        BY <1>0, EmptyFacts DEF SessionInv, CleanInv, TypeInv, PrimaryTypes
      <4>. DEFINE c == [type |-> "CHECKPOINT"]
      <4>2. to_r' = Append(to_r, c) /\ c.type = "CHECKPOINT" /\ c \in ToReplica
        BY <3>2, <4>1, MessageMade DEF Checkpoint, Told
      <4>. HIDE DEF c
      <4>3. i \in DOMAIN to_r
        <5>1. to_r'[i] # c
          BY <1>3, <4>2
        <5> QED BY <1>0, <4>2, <5>1, Sending
      <4>4. c \in Later(i)'
        BY <1>0, <4>2, <4>3, Grown, Around
      <4> QED BY <4>2, <4>4
    <3> QED BY <1>0, <3>1, <3>2, LogGrows
  <2>2. CASE Sent(to_r'[i])
    <3>1. Send /\ Committed(tpc_seq) /\ to_r'[i].seq = tpc_seq
      BY <1>0, <1>3, <2>2, SentKinds
    <3> QED BY <1>0, <1>3, <3>1, SendLogs
  <2> QED BY <1>0, <2>1, <2>2, OldOrNew
<1>4. ASSUME NEW i \in DOMAIN to_r', to_r'[i].type = "COMMIT", NEW h \in Held'
      PROVE  h < to_r'[i].seq
  <2>1. CASE Sent(to_r'[i])
    <3>1. Send /\ to_r'[i].seq = tpc_seq
      BY <1>0, <1>4, <2>1, SentKinds
    <3> QED BY <1>0, <1>4, <3>1, SendHeld
  <2>2. ASSUME NEW j \in DOMAIN to_r, to_r'[i] = to_r[j], h \in Held
        PROVE  h < to_r'[i].seq
    BY <1>0, <1>4, <2>2 DEF MarkInv
  <2>3. ASSUME NEW n \in TSeq, Executes(n), h \notin Held
        PROVE  h < to_r'[i].seq
    <3>1. /\ to_r # <<>> /\ to_r' = Tail(to_r) /\ to_r[1].type = "COMMIT" /\ to_r[1].seq = n
      <4>1. to_r[1] = [type |-> "COMMIT", seq |-> n] /\ to_r # <<>> /\ to_r' = Tail(to_r)
        BY <2>3, ExecutedFacts
      <4>. HIDE DEF Executes
      <4> QED BY <4>1
    <3>2. h = n
      <4>1. Writes(Numbering(n)) /\ Numbering(n) \in Record /\ Numbering(n).seq = n
        BY <2>3 DEF Executes, Numbering
      <4>2. Held' = Held \cup {n}
        BY <1>0, <4>1, Writing
      <4> QED BY <1>4, <2>3, <4>2
    <3>3. i + 1 \in DOMAIN to_r /\ to_r'[i] = to_r[i + 1] /\ to_r[1] \in Earlier(i + 1)
      <4>1. i \in Spots' /\ i # 0
        BY <1>0, <3>1, Shifted
      <4> QED BY <1>0, <3>1, <4>1, Shifted
    <3>4. Before(to_r[1], to_r[i + 1])
      BY <1>0, <3>3, InOrder DEF SessionInv
    <3>5. to_r[1].seq < to_r[i + 1].seq
      BY <1>4, <3>1, <3>3, <3>4 DEF Before, Decisions, Asked
    <3> QED BY <3>1, <3>2, <3>3, <3>5
  <2>4. ASSUME NEW x \in Record, Replays(x), h \notin Held
        PROVE  h < to_r'[i].seq
    <3>1. /\ to_r' = to_r /\ HasFile(0) /\ FileOf(0) = rec.file /\ 1 \in DOMAIN rec.file.recs
          /\ x = rec.file.recs[1]
      BY <2>4, ReplayedFacts DEF Replays
    <3>2. h = x.seq
      <4>1. Held' = Held \cup {x.seq}
        BY <1>0, <2>4, Writing DEF Replays
      <4> QED BY <1>4, <2>4, <4>1
    <3>3. h \in Seqs(FileOf(0).recs)
      BY <3>1, <3>2 DEF Seqs
    <3>4. to_r[i] \in Later(0) /\ 0 \in Spots
      BY <1>0, <1>4, <3>1, Around
    <3> QED BY <1>0, <1>4, <3>1, <3>3, <3>4 DEF FileInv
  <2>5. ASSUME Keeps \/ Saves \/ Loses PROVE h \in Held
    BY <1>0, <1>4, <2>5, Keeping, Saving, Losing DEF MemInv, Saves
  <2> QED BY <1>0, <2>1, <2>2, <2>3, <2>4, <2>5, OldOrNew, TableMoves
<1> QED BY <1>1, <1>2, <1>3, <1>4 DEF MarkInv, InTransit

-----------------------------------------------------------------------------
(* The newest checkpoint.                                                  *)
LEMMA CommittedMoves ==
    ASSUME TypeInv, [Next]_vars, NEW n \in TSeq, Committed(n)', n <= Top'
    PROVE  (Committed(n) /\ n <= Top) \/ (Send /\ n = tpc_seq /\ Committed(tpc_seq))
<1>1. n \in Nat /\ Top \in Nat
  BY StageFacts DEF TSeq
<1>2. CASE ~Send
  BY <1>1, <1>2, TopMoves DEF Committed
<1>3. CASE Send
  <2>1. stage = "decided" /\ Top' = tpc_seq /\ Top = last_seq /\ outcome' = outcome
    BY <1>3, TopMoves DEF Send
  <2>2. last_seq + 1 = tpc_seq /\ last_seq \in Nat
    BY <2>1, StageFacts, Numbers
  <2> QED BY <1>1, <1>3, <2>1, <2>2 DEF Committed
<1> QED BY <1>2, <1>3

(* What is committed after the base is on its way; before it, it is held.  *)
LEMMA HeldOrInLog ==
    ASSUME Unspoiled, Saves, rck + 1 = ck, NEW n \in TSeq, Committed(n), n <= Top
    PROVE  n \in Held \cup Seqs(AllRecs)
<1>0. /\ TypeInv /\ TruthInv /\ SessionInv /\ FollowInv /\ MarkInv /\ CoverInv /\ spoiled = {}
  BY DEF Unspoiled, HoldInv
<1>1. /\ rec.place = "none" /\ rup /\ to_r # <<>> /\ to_r[1].type = "CHECKPOINT"
      /\ 1 \in DOMAIN to_r
  BY <1>0, FirstFacts DEF Saves
<1>2. \A i \in DOMAIN to_r : to_r[i].type # "LOGFILE"
  <2>1. \A m \in Later(1) : m.type # "LOGFILE"
    BY <1>0, <1>1 DEF MarkInv
  <2>2. \A i \in DOMAIN to_r : i # 1 => to_r[i] \in Later(1)
    BY <1>0, <1>1, FirstFacts
  <2> QED BY <1>1, <2>1, <2>2
<1>3. \A i \in Spots : ~HasFile(i)
  BY <1>0, <1>1, <1>2, Around DEF HasFile
<1>4. NotBehind /\ (Covered(n) => n \in Held)
  BY <1>3 DEF NotBehind, Covered
<1>5. ~Unlogged /\ member
  BY <1>0, <1>1, EmptyFacts DEF MarkInv, InTransit, SessionInv, CleanInv
<1>6. CASE Unnumbered
  <2>1. CASE n <= last_seq
    BY <1>0, <1>1, <1>4, <1>5, <1>6, <2>1 DEF CoverInv
  <2>2. CASE ~(n <= last_seq)
    <3>1. stage = "sent"
      BY <1>0, <2>2, StageFacts
    <3>2. n = tpc_seq
      <4>1. Top = tpc_seq /\ last_seq + 1 = tpc_seq /\ last_seq \in Nat /\ n \in Nat
        BY <1>0, <3>1, StageFacts, Numbers DEF TSeq
      <4> QED BY <2>2, <4>1
    <3>3. Coming
      BY <3>1, <3>2 DEF Coming
    <3>. DEFINE x == [num |-> Num + 1, seq |-> tpc_seq]
    <3>4. AllRecs = Append(Recs, x) /\ Recs \in Seq(Record) /\ x \in Record /\ x.seq = n
      BY <1>0, <3>2, <3>3, RecordTypes DEF AllRecs
    <3>. HIDE DEF x
    <3> QED BY <3>4, SeqsOfAppend
  <2> QED BY <2>1, <2>2
<1>7. CASE ~Unnumbered
  <2>1. PICK i \in Spots : Numbered(i)
    BY <1>0, <1>1, <1>5, <1>7, NoLogAhead
  <2>2. CASE n <= Base(i)
    BY <1>0, <1>4, <2>1, <2>2 DEF CoverInv
  <2>3. CASE ~(n <= Base(i))
    <3>1. n > Base(i)
      BY <1>0, <2>1, <2>3, BaseTop DEF TSeq
    <3>2. [type |-> "COMMIT", seq |-> n] \in Wire
      BY <1>0, <2>1, <3>1 DEF FollowInv, Follows, Committed
    <3>3. PICK j \in DOMAIN to_r : to_r[j] = [type |-> "COMMIT", seq |-> n]
      BY <3>2 DEF Wire
    <3>4. ASSUME NEW m \in Later(j), m.type = "CHECKPOINT" PROVE FALSE
      <4>1. PICK k \in DOMAIN to_r : k > j /\ to_r[k].type = "CHECKPOINT"
        BY <3>4 DEF Later
      <4>2. 1 < k
        <5>1. j \in Nat /\ k \in Nat /\ j >= 1
          BY <1>0, Around
        <5> QED BY <4>1, <5>1
      <4>3. rck + 1 < ck /\ rck \in Nat /\ ck \in Nat
        BY <1>0, <1>1, <4>1, <4>2, CheckpointBounds, Numbers
      <4> QED BY <4>3
    <3> QED BY <1>0, <3>3, <3>4 DEF MarkInv
  <2> QED BY <2>2, <2>3
<1> QED BY <1>6, <1>7

LEMMA SavedBefore ==
    ASSUME Unspoiled, Saves
    PROVE  \A m \in Held, n \in Seqs(AllRecs) : m < n
<1>0. TypeInv /\ MarkInv
  BY DEF Unspoiled, HoldInv
<1>1. to_r # <<>> /\ to_r[1].type = "CHECKPOINT" /\ 1 \in DOMAIN to_r
  BY <1>0, FirstFacts DEF Saves
<1>2. ASSUME NEW m \in Held, NEW n \in Seqs(AllRecs) PROVE m < n
  <2>1. [type |-> "COMMIT", seq |-> n] \in Later(1)
    BY <1>0, <1>1, <1>2 DEF MarkInv
  <2>2. PICK j \in DOMAIN to_r : to_r[j] = [type |-> "COMMIT", seq |-> n]
    BY <2>1 DEF Later
  <2> QED BY <1>0, <1>2, <2>2 DEF MarkInv
<1> QED BY <1>2

(* What the replica executes gets the number it has on the primary.        *)
LEMMA ExecutedIsNext ==
    ASSUME Unspoiled, rck = ck, NEW n \in TSeq, Executes(n)
    PROVE  Len(RRecs) + 1 \in DOMAIN AllRecs /\ AllRecs[Len(RRecs) + 1] = Numbering(n)
<1>0. /\ TypeInv /\ TruthInv /\ SessionInv /\ LogInv /\ NewestInv /\ CoverInv
  BY DEF Unspoiled, HoldInv
<1>1. /\ Committed(n) /\ n <= Top /\ (\A h \in Held : h < n) /\ Numbering(n).num = Len(RRecs) + 1
      /\ Numbering(n).seq = n /\ Numbered(0) /\ rec.place = "none" /\ n = rlast + 1
  BY ExecutedFacts
<1>2. /\ Len(RRecs) <= Len(AllRecs) /\ \A i \in DOMAIN RRecs : RRecs[i] = AllRecs[i]
      /\ \A m \in TSeq : Committed(m) /\ m <= Top => m \in Saved \cup Seqs(AllRecs)
      /\ \A m \in Saved, k \in Seqs(AllRecs) : m < k
  BY <1>0 DEF NewestInv
<1>3. /\ RRecs \in Seq(Record) /\ AllRecs \in Seq(Record) /\ Len(RRecs) \in Nat /\ Len(AllRecs) \in Nat
      /\ DOMAIN RRecs = 1..Len(RRecs) /\ DOMAIN AllRecs = 1..Len(AllRecs)
      /\ n \in Nat /\ rlast \in Nat
  BY <1>0, RecordTypes, RecordFields, Numbers, SMTT(30) DEF TSeq
<1>4. \A h \in Held : h # n /\ h \in Nat
  BY <1>0, <1>1, <1>3, RecordTypes DEF TSeq
<1>5. PICK k \in DOMAIN AllRecs : AllRecs[k].seq = n
  <2>1. n \notin Saved
    BY <1>4 DEF Held
  <2> QED BY <1>1, <1>2, <2>1 DEF Seqs
<1>6. k \notin DOMAIN RRecs
  <2>1. SUFFICES ASSUME k \in DOMAIN RRecs PROVE FALSE
    OBVIOUS
  <2>2. n \in Held
    BY <1>2, <1>5, <2>1 DEF Held, Seqs
  <2> QED BY <1>4, <2>2
<1>. DEFINE s == Len(RRecs) + 1
<1>7. s \in DOMAIN AllRecs /\ s <= k
  BY <1>3, <1>6
<1>8. k = s
  <2>1. SUFFICES ASSUME k # s PROVE FALSE
    OBVIOUS
  <2>. DEFINE m == AllRecs[s].seq
  <2>2. s < k
    BY <1>3, <1>7, <2>1
  <2>3. m < n /\ Committed(m) /\ m \in TSeq /\ m \in Nat
    <3>1. m < n
      BY <1>0, <1>5, <1>7, <2>2 DEF LogInv, Climbs
    <3>2. Committed(m)
      BY <1>0, <1>7 DEF LogInv
    <3> QED BY <1>3, <1>7, <3>1, <3>2, RecordFields DEF TSeq
  <2>4. m \in Held
    <3>1. \A i \in Spots : ~HasFile(i)
      <4>1. ~InTransit("LOGFILE")
        BY <1>0, <1>1, NoLogAhead
      <4> QED BY <1>0, <1>1, <4>1, Around DEF HasFile, InTransit
    <3>2. NotBehind /\ (Covered(m) => m \in Held)
      BY <3>1 DEF NotBehind, Covered
    <3>3. 0 \in Spots /\ Base(0) = rlast /\ m <= rlast
      BY <1>0, <1>1, <1>3, <2>3, Around DEF Base
    <3>. HIDE DEF m
    <3> QED BY <1>0, <1>1, <2>3, <3>2, <3>3 DEF CoverInv
  <2>5. CASE m \in Saved
    <3>1. m \in Seqs(AllRecs)
      BY <1>7 DEF Seqs
    <3>. HIDE DEF m
    <3>2. m < m
      BY <1>2, <2>5, <3>1
    <3> QED BY <2>3, <3>2
  <2>6. CASE m \in Seqs(RRecs)
    <3>1. PICK j \in DOMAIN RRecs : RRecs[j].seq = m
      BY <2>6 DEF Seqs
    <3>2. AllRecs[j].seq = m /\ j \in DOMAIN AllRecs /\ j < s
      BY <1>2, <1>3, <3>1
    <3>3. AllRecs[j].seq < AllRecs[s].seq
      BY <1>0, <1>7, <3>2 DEF LogInv, Climbs
    <3>4. m < m
      BY <3>2, <3>3
    <3>. HIDE DEF m
    <3> QED BY <2>3, <3>4
  <2> QED BY <2>4, <2>5, <2>6 DEF Held
<1>9. AllRecs[s] = Numbering(n)
  <2>1. AllRecs[s] \in Record /\ AllRecs[s].num = s /\ AllRecs[s].seq = n
    BY <1>0, <1>3, <1>5, <1>7, <1>8, RecordFields DEF LogInv
  <2>2. Numbering(n) \in Record
    BY DEF Executes
  <2> QED BY <1>1, <2>1, <2>2 DEF Record
<1> QED BY <1>7, <1>9

(* A log of the newest checkpoint is replayed in order.                    *)
LEMMA ReplayedIsNext ==
    ASSUME Unspoiled, rck = ck, NEW x \in Record, Replays(x)
    PROVE  Len(RRecs) + 1 \in DOMAIN AllRecs /\ AllRecs[Len(RRecs) + 1] = x
<1>1. /\ Fits(rec.file) /\ rec.file.ck = ck /\ 1 \in DOMAIN rec.file.recs /\ x.num = Len(RRecs) + 1
  BY ReplayedFacts
<1>2. x = rec.file.recs[1]
  BY DEF Replays
<1>3. x.num \in DOMAIN AllRecs /\ x = AllRecs[x.num]
  BY <1>1, <1>2 DEF Fits
<1> QED BY <1>1, <1>3

LEMMA NextNewest ==
    ASSUME Unspoiled
    PROVE  NewestInv'
<1>0. /\ TypeInv /\ TruthInv /\ SessionInv /\ LogInv /\ MemInv /\ NewestInv /\ [Next]_vars
      /\ spoiled = {} /\ spoiled' = {}
  BY DEF Unspoiled, HoldInv
<1>1. SUFFICES ASSUME rck' = ck'
               PROVE  /\ Len(RRecs') <= Len(AllRecs') /\ \A i \in DOMAIN RRecs' : RRecs'[i] = AllRecs'[i]
                      /\ \A n \in TSeq : Committed(n)' /\ n <= Top' => n \in Saved' \cup Seqs(AllRecs')
                      /\ \A m \in Saved', n \in Seqs(AllRecs') : m < n
  BY DEF NewestInv, Seqs
<1>2. ~Checkpoint /\ ck' = ck
  <2>1. Checkpoint => rck' = rck /\ ck' = ck + 1
    BY DEF Checkpoint, dvars
  <2>2. rck <= ck /\ rck \in Nat /\ ck \in Nat
    BY <1>0, CheckpointBounds, Numbers
  <2> QED BY <1>0, <1>1, <2>1, <2>2, LogGrows
<1>3. /\ AllRecs \in Seq(Record) /\ DOMAIN AllRecs = 1..Len(AllRecs) /\ Len(AllRecs) \in Nat
      /\ RRecs \in Seq(Record) /\ DOMAIN RRecs = 1..Len(RRecs) /\ Len(RRecs) \in Nat
  BY <1>0, RecordTypes, RecordFields
<1>. DEFINE Newest == /\ Len(RRecs) <= Len(AllRecs) /\ \A i \in DOMAIN RRecs : RRecs[i] = AllRecs[i]
                      /\ \A n \in TSeq : Committed(n) /\ n <= Top => n \in Saved \cup Seqs(AllRecs)
                      /\ \A m \in Saved, n \in Seqs(AllRecs) : m < n
<1>4. rck = ck => Newest
  BY <1>0 DEF NewestInv
<1>5. CASE Keeps
  <2>1. RRecs' = RRecs /\ Saved' = Saved /\ Newest
    BY <1>1, <1>2, <1>4, <1>5, Keeping DEF Keeps
  <2>2. CASE AllRecs' = AllRecs /\ ~Send
    BY <1>0, <2>1, <2>2, CommittedMoves
  <2>3. CASE Send /\ Committed(tpc_seq)
    <3>. DEFINE x == [num |-> Num + 1, seq |-> tpc_seq]
    <3>1. /\ AllRecs' = Append(AllRecs, x) /\ x \in Record
          /\ Seqs(AllRecs') = Seqs(AllRecs) \cup {tpc_seq}
      <4>1. /\ AllRecs' = Append(AllRecs, x) /\ x \in Record /\ x.seq = tpc_seq
        BY <1>0, <2>3, SendLogs
      <4> QED BY <1>3, <4>1, SeqsOfAppend
    <3>. HIDE DEF x
    <3>2. /\ Len(AllRecs') = Len(AllRecs) + 1 /\ \A i \in DOMAIN AllRecs : AllRecs'[i] = AllRecs[i]
      BY <1>3, <3>1, AppendFacts
    <3>3. Len(RRecs') <= Len(AllRecs') /\ \A i \in DOMAIN RRecs' : RRecs'[i] = AllRecs'[i]
      <4>1. Len(RRecs) <= Len(AllRecs) /\ DOMAIN RRecs \subseteq DOMAIN AllRecs
        BY <1>3, <2>1
      <4> QED BY <1>3, <2>1, <3>2, <4>1
    <3>4. \A n \in TSeq : Committed(n)' /\ n <= Top' => n \in Saved' \cup Seqs(AllRecs')
      BY <1>0, <2>1, <3>1, CommittedMoves
    <3>5. \A m \in Saved : m < tpc_seq
      BY <1>0, <2>3, SendHeld DEF Held
    <3> QED BY <2>1, <3>1, <3>3, <3>4, <3>5
  <2>4. CASE Send /\ ~Committed(tpc_seq)
    <3>1. AllRecs' = AllRecs
      BY <1>0, <1>2, <2>4, LogGrows
    <3> QED BY <1>0, <2>1, <2>4, <3>1, CommittedMoves
  <2>5. ~Send => AllRecs' = AllRecs
    BY <1>0, <1>2, LogGrows
  <2> QED BY <2>2, <2>3, <2>4, <2>5
<1>6. CASE ~Keeps
  <2>1. UNCHANGED <<pvars, lvars>>
    <3>1. ASSUME NEW n \in TSeq, Executes(n) PROVE UNCHANGED <<pvars, lvars>>
      BY <3>1, ExecutedFacts
    <3>2. ASSUME NEW x \in Record, Replays(x) PROVE UNCHANGED <<pvars, lvars>>
      BY <3>2, ReplayedFacts
    <3>3. Saves \/ Loses => UNCHANGED <<pvars, lvars>>
      BY DEF Saves, Loses, ReadCheckpoint, Crash
    <3> QED BY <1>6, <3>1, <3>2, <3>3, TableMoves
  <2>2. AllRecs' = AllRecs /\ Seqs(AllRecs') = Seqs(AllRecs) /\ Top' = Top /\ outcome' = outcome
    BY <2>1 DEF pvars, lvars, AllRecs, Recs, Num, Coming, Committed, Top, Seqs
  <2>3. CASE Loses
    <3>1. rck' = rck
      BY <2>3 DEF Loses
    <3> QED BY <1>0, <1>1, <1>2, <1>3, <1>4, <2>2, <2>3, <3>1, Losing DEF Committed
  <2>4. CASE Saves
    <3>1. rck' = rck + 1 /\ rtable = Mem
      BY <1>0, <2>4 DEF Saves, MemInv
    <3>2. /\ DOMAIN RRecs' = {} /\ Len(RRecs') = 0 /\ Saved' = Held
      BY <1>0, <2>4, <3>1, Saving
    <3>3. \A n \in TSeq : Committed(n)' /\ n <= Top' => n \in Saved' \cup Seqs(AllRecs')
      BY <1>1, <1>2, <2>2, <2>4, <3>1, <3>2, HeldOrInLog DEF Committed
    <3> QED BY <1>3, <2>2, <2>4, <3>2, <3>3, SavedBefore
  <2>5. CASE ~Saves /\ ~Loses
    <3>1. PICK x \in Record : Writes(x) /\ (Replays(x) \/ (Executes(x.seq) /\ x = Numbering(x.seq)))
                              /\ x.seq \in TSeq
      BY <1>6, <2>5, WrittenFacts
    <3>2. rck = ck /\ Newest
      BY <1>1, <1>2, <1>4, <3>1 DEF Writes
    <3>3. Len(RRecs) + 1 \in DOMAIN AllRecs /\ AllRecs[Len(RRecs) + 1] = x
      BY <3>1, <3>2, ExecutedIsNext, ReplayedIsNext
    <3>4. /\ Saved' = Saved /\ Len(RRecs') = Len(RRecs) + 1
          /\ DOMAIN RRecs' = DOMAIN RRecs \cup {Len(RRecs) + 1}
          /\ \A i \in DOMAIN RRecs : RRecs'[i] = RRecs[i]
          /\ RRecs'[Len(RRecs) + 1] = x
      BY <1>0, <3>1, Writing
    <3>5. Len(RRecs') <= Len(AllRecs')
      BY <1>3, <2>2, <3>3, <3>4
    <3> QED BY <2>2, <3>2, <3>3, <3>4, <3>5 DEF Committed
  <2> QED BY <2>3, <2>4, <2>5
<1> QED BY <1>5, <1>6

-----------------------------------------------------------------------------
(* The log files on their way.                                             *)
LEMMA FileTypes ==
    ASSUME TypeInv, spoiled = {}, NEW j \in Spots, HasFile(j)
    PROVE  /\ FileOf(j) \in LogFile /\ FileOf(j).ck \in Nat /\ FileOf(j).ck <= ck
           /\ FileOf(j).recs \in Seq(Record) /\ Seqs(FileOf(j).recs) \subseteq TSeq
<1>1. CASE j = 0
  <2>1. rec.file \in LogFile /\ FileCk = rec.file.ck
    BY <1>1 DEF TypeInv, RecTypes, HasFile, FileCk
  <2>2. FileOf(j) = rec.file /\ FileCk \in 0..ck
    BY <1>1, CheckpointBounds DEF FileOf
  <2> QED BY <2>1, <2>2, Numbers, RecordFields
<1>2. CASE j # 0
  <2>1. j \in DOMAIN to_r /\ to_r[j] \in ToReplica /\ to_r[j].type = "LOGFILE"
    BY <1>2, Around DEF HasFile
  <2>2. FileOf(j) = to_r[j].file /\ to_r[j].file \in LogFile /\ to_r[j].file.ck \in 0..ck
    BY <1>2, <2>1, MessageFields, CheckpointBounds DEF FileOf
  <2>3. FileOf(j).recs \in Seq(Record) /\ FileOf(j).ck \in Nat /\ FileOf(j).ck <= ck
    BY <2>2, Numbers, SMTT(30) DEF LogFile
  <2> QED BY <2>2, <2>3, RecordFields
<1> QED BY <1>1, <1>2

(* There is one log, and it is not read into a checkpoint.                 *)
LEMMA OneFile ==
    ASSUME TypeInv, SessionInv, MarkInv
    PROVE  /\ HasFile(0) => \A j \in Spots : HasFile(j) => j = 0
           /\ Saves => \A j \in Spots : ~HasFile(j)
           /\ Numbered(0) => \A j \in Spots : HasFile(j) => j = 0
           /\ AnswerLog => \A j \in Spots : ~HasFile(j)
<1>1. \A j \in Spots : HasFile(j) /\ j # 0 => j \in DOMAIN to_r /\ to_r[j].type = "LOGFILE"
  BY Around DEF HasFile
<1>2. HasFile(0) => \A j \in Spots : HasFile(j) => j = 0
  BY <1>1 DEF HasFile, SessionInv, PhaseInv
<1>3. ASSUME Saves, NEW j \in Spots, HasFile(j) PROVE FALSE
  <2>1. /\ rec.place = "none" /\ to_r # <<>> /\ to_r[1].type = "CHECKPOINT" /\ 1 \in DOMAIN to_r
    BY <1>3, FirstFacts DEF Saves
  <2>2. j # 0 /\ j # 1
    BY <1>1, <1>3, <2>1 DEF HasFile
  <2>3. to_r[j] \in Later(1)
    BY <1>1, <1>3, <2>1, <2>2, FirstFacts
  <2> QED BY <1>1, <1>3, <2>1, <2>2, <2>3 DEF MarkInv
<1>4. Numbered(0) => \A j \in Spots : HasFile(j) => j = 0
  BY <1>1, NoLogAhead DEF InTransit
<1>5. ASSUME AnswerLog, NEW j \in Spots, HasFile(j) PROVE FALSE
  <2>1. Unlogged
    BY <1>5, AnswerPhases DEF SessionInv
  <2> QED BY <1>1, <1>5, <2>1 DEF SessionInv, PhaseInv, HasFile, InTransit
<1> QED BY <1>2, <1>3, <1>4, <1>5

LEMMA ReplayMoves ==
    ASSUME TypeInv, Replay
    PROVE  /\ rup /\ Recovering /\ rec.file.recs # <<>> /\ rec.file.recs[1] = Head(rec.file.recs)
           /\ rec'.file.recs = Tail(rec.file.recs) /\ rec'.file.ck = rec.file.ck
           /\ rec'.place = rec.place /\ rec'.same = rec.same
           /\ Skips(rec.file.recs[1]) => rec'.top = rec.top /\ RRecs' = RRecs
           /\ UNCHANGED <<pvars, lvars, to_p, to_r, rup, tvars, rqueue, rnum, rck, rsaved>>
<1>1. /\ rup /\ Recovering /\ rec.file.recs # <<>>
      /\ UNCHANGED <<pvars, lvars, to_p, to_r, rup, tvars, rqueue, rnum, rck, rsaved>>
  BY DEF Replay
<1>2. rec.file.recs[1] = Head(rec.file.recs)
  BY <1>1, Numbers, HeadFirst
<1>3. RecTypes
  BY DEF TypeInv
<1>4. CASE Skips(rec.file.recs[1])
  <2>1. rec' = [rec EXCEPT !.file.recs = Tail(@)] /\ rlog' = rlog
    BY <1>2, <1>4 DEF Replay
  <2> QED BY <1>1, <1>2, <1>3, <2>1 DEF RecTypes, LogFile, RRecs
<1>5. CASE ~Skips(rec.file.recs[1])
  <2>1. rec' = [rec EXCEPT !.file.recs = Tail(@), !.top = Larger(@, rec.file.recs[1].num)]
    BY <1>2, <1>5 DEF Replay
  <2> QED BY <1>1, <1>2, <1>3, <1>5, <2>1 DEF RecTypes, LogFile
<1> QED BY <1>4, <1>5

(* The log file that follows a step: one from before it, with what was     *)
(* sent meanwhile behind it; the rest of it; or the answer of the primary. *)
LEMMA FileMoves ==
    ASSUME Unspoiled, NEW i \in Spots', HasFile(i)'
    PROVE  /\ rup'
           /\ \/ /\ \E j \in Spots : /\ HasFile(j) /\ FileOf(i)' = FileOf(j)
                                     /\ \A m \in Later(i)' : m \in Later(j) \/ Sent(m)
                 /\ ~Replay /\ ~Loses /\ ~Saves
              \/ Replay /\ i = 0 /\ HasFile(0) /\ Later(0)' = Later(0)
              \/ AnswerLog /\ i # 0 /\ FileOf(i)' = [ck |-> ck, recs |-> Recs] /\ Later(i)' = {}
<1>0. /\ TypeInv /\ TypeInv' /\ SessionInv /\ SessionInv' /\ ReadInv /\ MarkInv /\ [Next]_vars
      /\ spoiled = {} /\ spoiled' = {}
  BY NextTypes, NextSession DEF Unspoiled, HoldInv
<1>1. rup' /\ ~Loses
  BY DEF HasFile, Loses
<1>2. CASE i = 0
  <2>1. rec'.place # "none" /\ FileOf(i)' = rec'.file
    BY <1>2 DEF HasFile, FileOf
  <2>2. ~ReplayEnds /\ ~Crash
    BY <1>1, <2>1, NoRecType DEF ReplayEnds, Crash
  <2>3. ASSUME Replay PROVE HasFile(0) /\ Later(0)' = Later(0)
    <3>1. rup /\ Recovering /\ to_r' = to_r
      BY <1>0, <2>3, ReplayMoves
    <3> QED BY <3>1, Kept DEF HasFile, Recovering
  <2>4. CASE ReadLog
    <3>1. to_r # <<>> /\ to_r' = Tail(to_r) /\ to_r[1].type = "LOGFILE" /\ rup /\ 1 \in Spots
      BY <1>0, <2>4, FirstFacts DEF ReadLog, Reads
    <3>2. rec'.file = to_r[1].file
      BY <2>4 DEF ReadLog, NoRec
    <3>3. HasFile(1) /\ FileOf(i)' = FileOf(1)
      <4>1. 1 # 0
        OBVIOUS
      <4> QED BY <1>2, <2>1, <3>1, <3>2, <4>1 DEF HasFile, FileOf
    <3>4. Later(i)' = Later(1)
      BY <1>0, <1>2, <3>1, Shifted
    <3>5. ~Replay /\ ~Saves
      <4>1. ~Saves
        BY <1>0, <3>1, <3>3, OneFile
      <4>2. to_r' # to_r
        <5>1. Len(to_r) \in Nat /\ Len(to_r') = Len(to_r) - 1
          BY <1>0, <3>1, Reading
        <5>2. Len(to_r') # Len(to_r)
          BY <5>1
        <5> QED BY <5>2
      <4> QED BY <1>0, <4>1, <4>2, ReplayMoves
    <3> QED BY <1>1, <3>1, <3>3, <3>4, <3>5
  <2>5. CASE ~ReadLog /\ ~Replay
    <3>1. rec.place # "none" /\ rec'.file = rec.file
      <4>1. CASE rec' = rec
        BY <2>1, <4>1
      <4>2. CASE ReplayBegins
        <5>1. rec.place = "created" /\ rec'.file = rec.file
          BY <4>2, ReplayStarts
        <5> QED BY <5>1
      <4> QED BY <1>0, <2>2, <2>5, <4>1, <4>2, Frame
    <3>2. rup
      BY <1>0, <3>1 DEF SessionInv, CleanInv
    <3>3. HasFile(0) /\ FileOf(i)' = FileOf(0) /\ 0 \in Spots
      BY <1>0, <2>1, <3>1, <3>2, Around DEF HasFile, FileOf
    <3>4. ~Saves
      BY <1>0, <3>3, OneFile
    <3>5. \A m \in Later(0)' : m \in Later(0) \/ Sent(m)
      <4>1. Later(0)' = Wire' /\ Later(0) = Wire
        <5>1. Later(0)' = Wire'
          <6>1. \A k \in DOMAIN to_r' : k > 0
            BY <1>0 DEF TypeInv, WireTypes
          <6>2. {k \in DOMAIN to_r' : k > 0} = DOMAIN to_r'
            BY <6>1
          <6> QED BY <6>2 DEF Later, Wire
        <5> QED BY <1>0, <5>1, Around
      <4>2. ASSUME NEW m \in Wire' PROVE m \in Wire \/ Sent(m)
        <5>1. PICK k \in DOMAIN to_r' : m = to_r'[k]
          BY <4>2 DEF Wire
        <5> QED BY <1>0, <5>1, OldOrNew DEF Wire
      <4> QED BY <4>1, <4>2
    <3> QED BY <1>1, <1>2, <2>5, <3>3, <3>4, <3>5
  <2> QED BY <1>1, <1>2, <2>3, <2>4, <2>5
<1>3. CASE i # 0
  <2>1. i \in DOMAIN to_r' /\ to_r'[i].type = "LOGFILE" /\ FileOf(i)' = to_r'[i].file
    <3>1. i \in DOMAIN to_r'
      BY <1>0, <1>3 DEF Spots, TypeInv, WireTypes
    <3> QED BY <1>3, <3>1 DEF HasFile, FileOf
  <2>2. rec'.place = "none"
    BY <1>0, <2>1 DEF SessionInv, PhaseInv
  <2>3. ~Replay
    <3>1. Replay => rec'.place = rec.place /\ Recovering
      BY <1>0, ReplayMoves
    <3> QED BY <2>2, <3>1 DEF Recovering
  <2>4. ASSUME NEW j \in DOMAIN to_r, to_r'[i] = to_r[j], \A m \in Later(i)' : m \in Later(j) \/ Sent(m)
        PROVE  /\ \E h \in Spots : /\ HasFile(h) /\ FileOf(i)' = FileOf(h)
                                   /\ \A m \in Later(i)' : m \in Later(h) \/ Sent(m)
               /\ ~Saves
    <3>1. j \in Spots /\ j # 0
      BY <1>0, Around
    <3>2. rup
      <4>1. member
        BY <1>0, <2>4, EmptyFacts DEF SessionInv, CleanInv
      <4>2. rup' # rup => Restart
        BY <1>0, <1>1, Frame DEF Crash
      <4> QED BY <1>1, <4>1, <4>2 DEF Restart
    <3>3. HasFile(j) /\ FileOf(i)' = FileOf(j)
      BY <2>1, <2>4, <3>1, <3>2 DEF HasFile, FileOf
    <3> QED BY <1>0, <2>4, <3>1, <3>3, OneFile
  <2>5. ASSUME Sent(to_r'[i]), Later(i)' = {}
        PROVE  AnswerLog /\ FileOf(i)' = [ck |-> ck, recs |-> Recs]
    <3>1. AnswerLog
      BY <1>0, <2>1, <2>5, SentKinds
    <3>2. to_r'[i] = [type |-> "LOGFILE", file |-> [ck |-> ck, recs |-> Recs]]
      <4>1. ~(to_r'[i].type = "PREPARE") /\ to_r'[i].type \notin Decisions
        BY <2>1 DEF Decisions
      <4>2. answer # <<>> /\ answer[1] = [ck |-> ck, recs |-> Recs]
        BY <1>0, <3>1 DEF AnswerLog, ReadInv
      <4> QED BY <2>1, <2>5, <4>1, <4>2 DEF Sent
    <3> QED BY <2>1, <3>1, <3>2
  <2> QED BY <1>0, <1>1, <1>3, <2>1, <2>3, <2>4, <2>5, OldOrNew
<1> QED BY <1>2, <1>3

LEMMA FileStays ==
    ASSUME Unspoiled, NEW j \in Spots, HasFile(j), ~Replay, ~Loses, ~Saves
    PROVE  Keeps
<1>0. TypeInv /\ SessionInv /\ MarkInv
  BY DEF Unspoiled, HoldInv
<1>1. ASSUME NEW n \in TSeq, Executes(n) PROVE FALSE
  <2>1. Numbered(0) /\ rec.place = "none"
    BY <1>1, ExecutedFacts
  <2>2. j = 0
    BY <1>0, <2>1, OneFile
  <2> QED BY <2>1, <2>2 DEF HasFile
<1> QED BY <1>1, TableMoves DEF Replays

LEMMA FitsStays ==
    ASSUME Unspoiled, NEW F \in LogFile, Fits(F), F.ck <= ck, Keeps
    PROVE  Fits(F)'
<1>0. TypeInv /\ LogInv /\ [Next]_vars /\ spoiled' = {}
  BY DEF Unspoiled, HoldInv
<1>1. /\ F.recs \in Seq(Record) /\ F.ck \in Nat
      /\ \A k \in DOMAIN F.recs : F.recs[k].seq \in TSeq /\ F.recs[k].num \in Nat
  BY RecordFields DEF LogFile
<1>2. RRecs' = RRecs /\ Held' = Held /\ rck' = rck
  BY Keeping DEF Keeps
<1>3. \A k \in DOMAIN F.recs : Committed(F.recs[k].seq)' /\ F.recs[k].seq <= Top'
  <2>1. SUFFICES ASSUME NEW k \in DOMAIN F.recs
                 PROVE  Committed(F.recs[k].seq)' /\ F.recs[k].seq <= Top'
    OBVIOUS
  <2>2. Committed(F.recs[k].seq) /\ F.recs[k].seq <= Top
    BY DEF Fits
  <2> QED BY <1>0, <1>1, <2>2, Stays DEF Committed
<1>4. F.ck = ck' => \A k \in DOMAIN F.recs :
          F.recs[k].num \in DOMAIN AllRecs' /\ F.recs[k] = AllRecs'[F.recs[k].num]
  <2>1. CASE Checkpoint
    <3>1. ck' = ck + 1 /\ ck \in Nat
      BY <1>0, <2>1, Numbers DEF Checkpoint
    <3> QED BY <1>1, <3>1
  <2>2. CASE ~Checkpoint
    <3>1. ck' = ck
      BY <1>0, <2>2, LogGrows
    <3>2. \A i \in DOMAIN AllRecs : i \in DOMAIN AllRecs' /\ AllRecs'[i] = AllRecs[i]
      <4>1. AllRecs \in Seq(Record)
        BY <1>0, RecordTypes
      <4>2. ASSUME NEW x \in Record, AllRecs' = Append(AllRecs, x)
            PROVE  \A i \in DOMAIN AllRecs : i \in DOMAIN AllRecs' /\ AllRecs'[i] = AllRecs[i]
        BY <4>1, <4>2, AppendFacts
      <4> QED BY <1>0, <2>2, <4>2, LogGrows
    <3> QED BY <3>1, <3>2 DEF Fits
  <2> QED BY <2>1, <2>2
<1> QED BY <1>2, <1>3, <1>4 DEF Fits

LEMMA RecsIn ==
    ASSUME TypeInv
    PROVE  /\ Recs \in Seq(Record) /\ DOMAIN Recs = 1..Len(Recs) /\ Len(Recs) \in Nat
           /\ \A i \in DOMAIN Recs : i \in DOMAIN AllRecs /\ AllRecs[i] = Recs[i]
<1>. DEFINE x == [num |-> Num + 1, seq |-> tpc_seq]
<1>1. Recs \in Seq(Record) /\ (Coming => x \in Record)
  BY RecordTypes
<1>2. AllRecs = IF Coming THEN Append(Recs, x) ELSE Recs
  BY DEF AllRecs
<1>. HIDE DEF x
<1>3. CASE Coming
  BY <1>1, <1>2, <1>3, AppendFacts
<1>4. CASE ~Coming
  BY <1>1, <1>2, <1>4
<1> QED BY <1>3, <1>4

(* The answer of the primary fits what the replica has.                    *)
LEMMA AnswerFits ==
    ASSUME Unspoiled, AnswerLog, NEW F, F = [ck |-> ck, recs |-> Recs]
    PROVE  /\ F \in LogFile /\ Fits(F) /\ F.ck = ck /\ F.recs = Recs
           /\ F.recs # <<>> => F.recs[1].num = 1
<1>0. TypeInv /\ LogInv /\ NewestInv /\ spoiled = {}
  BY DEF Unspoiled, HoldInv
<1>1. F.ck = ck /\ F.recs = Recs
  OBVIOUS
<1>2. /\ Recs \in Seq(Record) /\ DOMAIN Recs = 1..Len(Recs) /\ Len(Recs) \in Nat
      /\ \A i \in DOMAIN Recs : i \in DOMAIN AllRecs /\ AllRecs[i] = Recs[i]
  BY <1>0, RecsIn
<1>3. F \in LogFile
  <2>1. ck \in Nat
    BY <1>0, Numbers
  <2> QED BY <1>2, <2>1 DEF LogFile
<1>4. \A k \in DOMAIN Recs : /\ Recs[k].num = k /\ Committed(Recs[k].seq) /\ Recs[k].seq <= Top
                             /\ Recs[k] = AllRecs[Recs[k].num] /\ Recs[k].num \in DOMAIN AllRecs
  BY <1>0, <1>2 DEF LogInv
<1>5. Climbs(Recs)
  BY <1>0, <1>2 DEF LogInv, Climbs
<1>6. \A k \in DOMAIN Recs : 1 \in DOMAIN Recs /\ k \in Nat /\ k >= 1
  BY <1>2
<1>7. \A k \in DOMAIN Recs : Recs[k].num = Recs[1].num + k - 1 /\ Recs[k].num >= 1
  BY <1>4, <1>6
<1>8. ASSUME rck = ck, NEW k \in DOMAIN Recs
      PROVE  IF Recs[k].num \in DOMAIN RRecs THEN RRecs[Recs[k].num] = Recs[k]
                                             ELSE \A n \in Held : n < Recs[k].seq
  <2>1. /\ \A i \in DOMAIN RRecs : RRecs[i] = AllRecs[i]
        /\ \A m \in Saved, n \in Seqs(AllRecs) : m < n /\ Len(RRecs) <= Len(AllRecs)
    BY <1>0, <1>8 DEF NewestInv
  <2>2. CASE k \in DOMAIN RRecs
    BY <1>2, <1>4, <1>8, <2>1, <2>2
  <2>3. CASE k \notin DOMAIN RRecs
    <3>1. \A n \in Saved : n < Recs[k].seq
      BY <1>2, <1>8, <2>1 DEF Seqs
    <3>2. ASSUME NEW n \in Seqs(RRecs) PROVE n < Recs[k].seq
      <4>1. PICK j \in DOMAIN RRecs : RRecs[j].seq = n
        BY <3>2 DEF Seqs
      <4>2. DOMAIN RRecs = 1..Len(RRecs) /\ Len(RRecs) \in Nat
        BY <1>0, RecordTypes, RecordFields
      <4>3. j < k
        BY <1>2, <1>8, <2>3, <4>1, <4>2
      <4>4. j \in DOMAIN AllRecs
        <5>1. AllRecs \in Seq(Record) /\ k \in DOMAIN AllRecs
          BY <1>0, <1>2, <1>8, RecordTypes
        <5>2. DOMAIN AllRecs = 1..Len(AllRecs) /\ Len(AllRecs) \in Nat
          BY <5>1
        <5> QED BY <4>1, <4>2, <4>3, <5>1, <5>2
      <4>5. AllRecs[j].seq < AllRecs[k].seq
        BY <1>0, <1>2, <1>8, <4>3, <4>4 DEF LogInv, Climbs
      <4> QED BY <1>2, <1>8, <2>1, <4>1, <4>5
    <3> QED BY <1>4, <1>8, <2>3, <3>1, <3>2 DEF Held
  <2> QED BY <2>2, <2>3
<1>9. Fits(F)
  <2>1. rck <= F.ck
    BY <1>0, <1>1, CheckpointBounds
  <2> QED BY <1>1, <1>4, <1>5, <1>7, <1>8, <2>1 DEF Fits
<1>10. F.recs # <<>> => F.recs[1].num = 1
  <2>1. ASSUME Recs # <<>> PROVE 1 \in DOMAIN Recs
    BY <1>2, <2>1, TailFacts
  <2> QED BY <1>1, <1>4, <2>1
<1> QED BY <1>1, <1>3, <1>9, <1>10

(* The rest of a log that is replayed.                                     *)
LEMMA ReplayFits ==
    ASSUME Unspoiled, Replay, HasFile(0)
    PROVE  /\ Fits(FileOf(0))' /\ Seqs(FileOf(0).recs)' \subseteq Seqs(FileOf(0).recs)
           /\ rec.file.ck = rck
<1>0. TypeInv /\ SessionInv /\ MemInv /\ FileInv
  BY DEF Unspoiled, HoldInv
<1>. DEFINE q == rec.file.recs
            r == Tail(q)
<1>1. /\ rup /\ Recovering /\ q # <<>> /\ rec'.file.recs = r /\ rec'.file.ck = rec.file.ck
      /\ (Skips(q[1]) => RRecs' = RRecs)
      /\ UNCHANGED <<pvars, lvars, rck, rsaved, rnum>>
  BY <1>0, ReplayMoves
<1>2. /\ AllRecs' = AllRecs /\ ck' = ck /\ outcome' = outcome /\ Top' = Top
  BY <1>1 DEF pvars, lvars, AllRecs, Recs, Num, Coming, Committed, Top
<1>3. /\ q \in Seq(Record) /\ r \in Seq(Record) /\ 1 \in DOMAIN q /\ q[1] \in Record
      /\ DOMAIN r = 1..Len(r) /\ Len(r) \in Nat
      /\ \A k \in DOMAIN r : k + 1 \in DOMAIN q /\ r[k] = q[k + 1]
  <2>1. q \in Seq(Record) /\ q # <<>>
    BY <1>0, <1>1, Numbers
  <2>2. r \in Seq(Record) /\ 1 \in DOMAIN q /\ q[1] \in Record
    BY <2>1, TailFacts
  <2>3. DOMAIN r = 1..Len(r) /\ Len(r) \in Nat
    BY <2>2
  <2>4. \A k \in DOMAIN r : k + 1 \in DOMAIN q /\ r[k] = q[k + 1]
    BY <2>1, TailFacts
  <2> QED BY <2>1, <2>2, <2>3, <2>4
<1>4. /\ Climbs(q) /\ rck <= rec.file.ck
      /\ \A k \in DOMAIN q : /\ Committed(q[k].seq) /\ q[k].seq <= Top
                             /\ q[k].num = q[1].num + k - 1 /\ q[k].num >= 1
      /\ rec.file.ck = ck => \A k \in DOMAIN q : q[k].num \in DOMAIN AllRecs /\ q[k] = AllRecs[q[k].num]
      /\ rck = rec.file.ck => \A k \in DOMAIN q :
            IF q[k].num \in DOMAIN RRecs THEN RRecs[q[k].num] = q[k] ELSE \A n \in Held : n < q[k].seq
      /\ rec.file.ck = rck
  <2>1. Fits(rec.file) /\ rec.file.ck = rck
    BY <1>0, <1>1, Around DEF FileInv, FileOf
  <2> QED BY <2>1 DEF Fits
<1>. HIDE DEF r
<1>5. Climbs(r) /\ (\A n \in Seqs(r) : q[1].seq < n) /\ Seqs(r) \subseteq Seqs(q)
  BY <1>1, <1>3, <1>4, ClimbsTail DEF r
<1>. HIDE DEF q
<1>6. \A k \in DOMAIN r : /\ r[k].num = q[1].num + k /\ r[k].num >= 1 /\ k \in Nat /\ k >= 1
                          /\ 1 \in DOMAIN r
  <2>1. SUFFICES ASSUME NEW k \in DOMAIN r
                 PROVE  /\ r[k].num = q[1].num + k /\ r[k].num >= 1 /\ k \in Nat /\ k >= 1
                        /\ 1 \in DOMAIN r
    OBVIOUS
  <2>2. k \in Nat /\ k >= 1 /\ 1 \in DOMAIN r
    BY <1>3
  <2>3. q[k + 1].num = q[1].num + (k + 1) - 1 /\ q[1].num \in Nat
    BY <1>3, <1>4 DEF Record
  <2>4. r[k].num = q[k + 1].num /\ q[k + 1].num >= 1
    BY <1>3, <1>4
  <2> QED BY <2>2, <2>3, <2>4
<1>7. \A k \in DOMAIN r : r[k].num = r[1].num + k - 1
  <2>1. SUFFICES ASSUME NEW k \in DOMAIN r PROVE r[k].num = r[1].num + k - 1
    OBVIOUS
  <2>2. r[k].num = q[1].num + k /\ r[1].num = q[1].num + 1 /\ k \in Nat /\ q[1].num \in Nat
    BY <1>3, <1>6 DEF Record
  <2> QED BY <2>2
<1>8. \A k \in DOMAIN r : IF r[k].num \in DOMAIN RRecs' THEN RRecs'[r[k].num] = r[k]
                                                        ELSE \A n \in Held' : n < r[k].seq
  <2>1. CASE RRecs' = RRecs
    <3>1. Held' = Held
      BY <1>1, <2>1 DEF Held, Saved, Seqs
    <3> QED BY <1>3, <1>4, <2>1, <3>1
  <2>2. CASE RRecs' # RRecs
    <3>1. ~Keeps /\ ~Saves /\ ~Loses /\ (\A n \in TSeq : ~Executes(n))
      <4>1. rck' = rck /\ rck \in Nat /\ rup' = rup /\ to_r' = to_r /\ rlast' = rlast
        BY <1>0, Numbers DEF Replay, tvars
      <4>2. \A n \in TSeq : ~Executes(n)
        BY <1>1, ExecutedFacts DEF Recovering
      <4> QED BY <1>1, <2>2, <4>1, <4>2 DEF Keeps, Saves, Loses, Recovering
    <3>2. PICK x \in Record : Replays(x)
      BY <3>1, TableMoves
    <3>3. x = q[1] /\ Writes(x)
      BY <3>2 DEF Replays, q
    <3>4. x.num = Len(RRecs) + 1 /\ \A h \in Held : h < x.seq
      BY <3>2, ReplayedFacts
    <3>5. /\ Held' = Held \cup {x.seq} /\ Len(RRecs) \in Nat
          /\ DOMAIN RRecs' = DOMAIN RRecs \cup {Len(RRecs) + 1} /\ DOMAIN RRecs = 1..Len(RRecs)
      BY <1>0, <3>3, Writing
    <3>6. ASSUME NEW k \in DOMAIN r PROVE r[k].num \notin DOMAIN RRecs' /\ \A n \in Held' : n < r[k].seq
      <4>1. r[k].num = Len(RRecs) + 1 + k /\ k \in Nat /\ k >= 1
        BY <1>6, <3>3, <3>4, <3>6
      <4>2. r[k].num \notin DOMAIN RRecs'
        BY <3>5, <4>1
      <4>3. x.seq < r[k].seq /\ r[k].seq \in Nat /\ x.seq \in Nat
        <5>1. r[k].seq \in Seqs(r)
          BY <3>6 DEF Seqs
        <5>2. r[k] \in Record /\ r[k].seq \in TSeq /\ x.seq \in TSeq
          <6>1. r \in Seq(Record) /\ x \in Record
            BY <1>3, <3>2
          <6>2. r[k] \in Record /\ r[k].seq \in TSeq
            BY <3>6, <6>1, RecordFields
          <6> QED BY <6>1, <6>2 DEF Record
        <5> QED BY <1>5, <3>3, <5>1, <5>2 DEF TSeq
      <4>4. \A h \in Held : h \in Nat
        BY <1>0, RecordTypes DEF TSeq
      <4> QED BY <3>4, <3>5, <4>2, <4>3, <4>4
    <3> QED BY <3>6
  <2> QED BY <2>1, <2>2
<1>9. FileOf(0)'.recs = r /\ FileOf(0)'.ck = rec.file.ck
  BY <1>1 DEF FileOf
<1>10. \A k \in DOMAIN r : outcome'[r[k].seq] = "COMMIT" /\ r[k].seq <= Top'
  <2>1. \A k \in DOMAIN r : outcome[r[k].seq] = "COMMIT" /\ r[k].seq <= Top
    BY <1>3, <1>4 DEF Committed
  <2> QED BY <1>2, <2>1
<1>11. rec.file.ck = ck' => \A k \in DOMAIN r : r[k].num \in DOMAIN AllRecs' /\ r[k] = AllRecs'[r[k].num]
  BY <1>2, <1>3, <1>4
<1>12. Fits(FileOf(0))'
  BY <1>1, <1>4, <1>5, <1>6, <1>7, <1>8, <1>9, <1>10, <1>11 DEF Fits, Climbs, Committed
<1>13. Seqs(FileOf(0).recs)' = Seqs(r) /\ Seqs(FileOf(0).recs) = Seqs(q)
  BY <1>9 DEF Seqs, FileOf, q
<1> QED BY <1>4, <1>5, <1>12, <1>13

(* What recovery_func counts, and where it stands in the log.              *)
ReplayInv ==
    Recovering =>
        /\ rec.same /\ rec.file.ck = rck /\ rec.top = Len(RRecs) /\ rnum <= Len(RRecs)
        /\ rec.file.recs # <<>> =>
              \/ rec.file.recs[1].num <= rnum /\ Len(RRecs) = rnum
              \/ rec.file.recs[1].num > rnum /\ rec.file.recs[1].num = Len(RRecs) + 1

LEMMA NextReplay ==
    ASSUME Unspoiled
    PROVE  ReplayInv'
<1>0. /\ TypeInv /\ TypeInv' /\ SessionInv /\ MemInv /\ FileInv /\ [Next]_vars /\ spoiled = {} /\ spoiled' = {}
  BY NextTypes DEF Unspoiled, HoldInv
<1>1. SUFFICES ASSUME Recovering'
               PROVE  /\ rec'.same /\ rec'.file.ck = rck' /\ rec'.top = Len(RRecs') /\ rnum' <= Len(RRecs')
                      /\ rec'.file.recs # <<>> =>
                            \/ rec'.file.recs[1].num <= rnum' /\ Len(RRecs') = rnum'
                            \/ rec'.file.recs[1].num > rnum' /\ rec'.file.recs[1].num = Len(RRecs') + 1
  BY DEF ReplayInv
<1>2. RRecs \in Seq(Record) /\ Len(RRecs) \in Nat /\ rnum \in Nat /\ rck \in Nat
  BY <1>0, RecordTypes, RecordFields, Numbers
<1>3. ~ReadLog /\ ~ReplayEnds /\ ~Crash
  BY <1>1, NoRecType DEF ReadLog, ReplayEnds, Crash, Recovering, NoRec
<1>4. CASE ReplayBegins
  <2>1. /\ rup /\ rec.place = "created" /\ rec.file.ck = rck /\ rlog' = rlog
        /\ UNCHANGED <<rqueue, rnum, rck>>
        /\ rec' = [rec EXCEPT !.place = "replay", !.same = TRUE, !.older = FALSE, !.top = rnum]
        /\ rec'.file = rec.file
    BY <1>4, ReplayStarts DEF ReplayBegins
  <2>2. rec'.same = TRUE /\ rec'.top = rnum
    <3>1. RecTypes
      BY <1>0 DEF TypeInv
    <3> QED BY <2>1, <3>1 DEF RecTypes
  <2>3. RRecs' = RRecs /\ rnum = Len(RRecs)
    BY <1>0, <2>1 DEF RRecs, MemInv, Recovering
  <2>4. /\ Fits(rec.file) /\ (rec.file.recs # <<>> => rec.file.recs[1].num = 1)
    <3>1. HasFile(0) /\ FileOf(0) = rec.file /\ 0 \in Spots /\ ~Recovering
      BY <1>0, <2>1, Around DEF HasFile, FileOf, Recovering
    <3> QED BY <1>0, <3>1 DEF FileInv
  <2>6. rec.file.recs # <<>> => \/ rec.file.recs[1].num <= rnum /\ Len(RRecs) = rnum
                                \/ rec.file.recs[1].num > rnum /\ rec.file.recs[1].num = Len(RRecs) + 1
    <3>1. ASSUME rec.file.recs # <<>>, ~(1 <= rnum) PROVE 1 > rnum /\ 1 = Len(RRecs) + 1
      BY <1>2, <2>3, <3>1
    <3> QED BY <2>3, <2>4, <3>1
  <2>7. rec'.same
    BY <2>2
  <2>8. rec'.file.ck = rck' /\ rec'.top = Len(RRecs') /\ rnum' <= Len(RRecs')
    BY <1>2, <2>1, <2>2, <2>3
  <2> QED BY <2>1, <2>2, <2>3, <2>6, <2>7, <2>8
<1>5. CASE Replay
  <2>. DEFINE q == rec.file.recs
              r == Tail(q)
  <2>1. /\ rup /\ Recovering /\ q # <<>> /\ rec'.file.recs = r /\ rec'.file.ck = rec.file.ck
        /\ rec'.same = rec.same /\ (Skips(q[1]) => rec'.top = rec.top /\ RRecs' = RRecs)
        /\ rck' = rck /\ rnum' = rnum
    BY <1>0, <1>5, ReplayMoves
  <2>2. /\ rec.same /\ rec.file.ck = rck /\ rec.top = Len(RRecs) /\ rnum <= Len(RRecs)
        /\ \/ q[1].num <= rnum /\ Len(RRecs) = rnum
           \/ q[1].num > rnum /\ q[1].num = Len(RRecs) + 1
    BY <1>0, <2>1 DEF FileInv
  <2>3. q[1].num \in Nat /\ (r # <<>> => r[1].num = q[1].num + 1)
    <3>1. q \in Seq(Record) /\ q # <<>>
      BY <1>0, <2>1, Numbers
    <3>2. 1 \in DOMAIN q /\ q[1] \in Record /\ r \in Seq(Record)
      BY <3>1, TailFacts
    <3>3. ASSUME r # <<>> PROVE r[1].num = q[1].num + 1
      <4>1. 1 \in DOMAIN r
        BY <3>2, <3>3, TailFacts
      <4>2. 1 + 1 \in DOMAIN q /\ r[1] = q[1 + 1]
        BY <3>1, <4>1, TailFacts
      <4>3. \A k \in DOMAIN q : q[k].num = q[1].num + k - 1
        <5>1. HasFile(0) /\ FileOf(0) = rec.file /\ 0 \in Spots
          BY <1>0, <2>1, Around DEF HasFile, FileOf, Recovering
        <5>2. Fits(rec.file)
          BY <1>0, <5>1 DEF FileInv
        <5> QED BY <5>2 DEF Fits
      <4>4. q[1 + 1].num = q[1].num + (1 + 1) - 1 /\ q[1].num \in Nat
        BY <3>2, <4>2, <4>3 DEF Record
      <4> QED BY <4>2, <4>4
    <3> QED BY <3>2, <3>3 DEF Record
  <2>. HIDE DEF r
  <2>4. CASE q[1].num <= rnum
    <3>1. Skips(q[1])
      BY <2>2, <2>4 DEF Skips
    <3>2. rec'.top = rec.top /\ RRecs' = RRecs
      BY <2>1, <3>1
    <3>3. ~(q[1].num > rnum)
      BY <1>2, <2>3, <2>4
    <3>4. r # <<>> => \/ r[1].num <= rnum /\ Len(RRecs) = rnum
                      \/ r[1].num > rnum /\ r[1].num = Len(RRecs) + 1
      BY <1>2, <2>2, <2>3, <2>4, <3>3
    <3> QED BY <2>1, <2>2, <3>2, <3>4
  <2>5. CASE ~(q[1].num <= rnum)
    <3>1. ~Skips(q[1])
      BY <2>5 DEF Skips
    <3>2. rec'.top = Larger(rec.top, q[1].num)
      <4>1. rec.file.recs[1] = Head(rec.file.recs)
        BY <1>0, <1>5, ReplayMoves
      <4>2. rec' = [rec EXCEPT !.file.recs = Tail(@), !.top = Larger(@, q[1].num)]
        BY <1>5, <3>1, <4>1 DEF Replay
      <4>3. RecTypes
        BY <1>0 DEF TypeInv
      <4> QED BY <4>2, <4>3 DEF RecTypes
    <3>3. Len(RRecs') = Len(RRecs) + 1
      <4>1. rqueue = <<>> /\ rqueue' = rqueue
        BY <1>0, <1>5, <2>1 DEF MemInv, Recovering, Replay
      <4>2. q[1] \in Record /\ rlog \in Seq(Record) /\ rlog' = Append(rlog, q[1])
        <5>1. rec.file.recs[1] = Head(rec.file.recs)
          BY <1>0, <1>5, ReplayMoves
        <5>2. q \in Seq(Record)
          BY <1>0, Numbers
        <5>3. q[1] \in Record
          BY <2>1, <5>2, TailFacts
        <5> QED BY <1>0, <1>5, <3>1, <5>1, <5>3, RecordTypes DEF Replay
      <4>3. Append(rlog, q[1]) \in Seq(Record) /\ Len(Append(rlog, q[1])) = Len(rlog) + 1
        BY <4>2, AppendFacts
      <4>4. RRecs = rlog /\ RRecs' = rlog'
        BY <4>1, <4>2, <4>3, JoinEmpty DEF RRecs
      <4> QED BY <4>2, <4>3, <4>4
    <3>4. rec'.top = Len(RRecs')
      BY <1>2, <2>2, <2>5, <3>2, <3>3 DEF Larger
    <3>5. rnum' <= Len(RRecs')
      BY <1>2, <2>1, <2>2, <3>3
    <3>6. r # <<>> => r[1].num > rnum /\ r[1].num = Len(RRecs') + 1
      BY <1>2, <2>2, <2>3, <2>5, <3>3
    <3> QED BY <2>1, <2>2, <3>4, <3>5, <3>6
  <2> QED BY <2>4, <2>5
<1>6. CASE ~Replay /\ ~ReplayBegins
  <2>1. rec' = rec /\ Recovering
    BY <1>0, <1>1, <1>3, <1>6, Frame DEF Recovering
  <2>2. /\ rec.same /\ rec.file.ck = rck /\ rec.top = Len(RRecs) /\ rnum <= Len(RRecs)
        /\ rec.file.recs # <<>> =>
              \/ rec.file.recs[1].num <= rnum /\ Len(RRecs) = rnum
              \/ rec.file.recs[1].num > rnum /\ rec.file.recs[1].num = Len(RRecs) + 1
    BY <1>0, <2>1 DEF FileInv
  <2>3. ~Restart
    BY <1>0, <2>1 DEF Restart, SessionInv, CleanInv, Recovering
  <2>4. ~Saves /\ ~Loses /\ (\A n \in TSeq : ~Executes(n)) /\ (\A x \in Record : ~Replays(x))
    <3>1. ~Saves /\ ~Loses /\ (\A x \in Record : ~Replays(x))
      BY <1>3, <1>6, <2>1 DEF Saves, Loses, Replays, Recovering
    <3> QED BY <2>1, <3>1, ExecutedFacts DEF Recovering
  <2>5. Keeps
    BY <2>4, TableMoves
  <2>6. RRecs' = RRecs /\ rck' = rck /\ rnum' = rnum
    BY <1>3, <2>3, <2>5 DEF Keeps
  <2> QED BY <2>1, <2>2, <2>6
<1> QED BY <1>4, <1>5, <1>6

LEMMA NextFile ==
    ASSUME Unspoiled
    PROVE  FileInv'
<1>0. /\ TypeInv /\ TypeInv' /\ SessionInv /\ SessionInv' /\ MarkInv /\ FileInv /\ [Next]_vars
      /\ spoiled = {} /\ spoiled' = {}
  BY NextTypes, NextSession DEF Unspoiled, HoldInv
<1>1. ASSUME NEW i \in Spots', HasFile(i)'
      PROVE  /\ Fits(FileOf(i))'
             /\ \A m \in Later(i)' : m.type = "COMMIT" => \A n \in Seqs(FileOf(i).recs)' : n < m.seq
             /\ ~Recovering' /\ FileOf(i)'.recs # <<>> => FileOf(i)'.recs[1].num = 1
  <2>1. ASSUME NEW j \in Spots, HasFile(j), FileOf(i)' = FileOf(j), ~Replay, ~Loses, ~Saves,
               \A m \in Later(i)' : m \in Later(j) \/ Sent(m)
        PROVE  /\ Fits(FileOf(i))'
               /\ \A m \in Later(i)' : m.type = "COMMIT" => \A n \in Seqs(FileOf(i).recs)' : n < m.seq
               /\ ~Recovering' /\ FileOf(i)'.recs # <<>> => FileOf(i)'.recs[1].num = 1
    <3>1. PICK F \in LogFile : F = FileOf(j)
      BY <1>0, <2>1, FileTypes
    <3>2. /\ Fits(F) /\ F.ck <= ck /\ F.ck \in Nat
          /\ \A m \in Later(j) : m.type = "COMMIT" => \A n \in Seqs(F.recs) : n < m.seq
          /\ ~Recovering /\ F.recs # <<>> => F.recs[1].num = 1
      BY <1>0, <2>1, <3>1, FileTypes DEF FileInv
    <3>3. Fits(F)'
      BY <2>1, <3>2, FileStays, FitsStays
    <3>4. FileOf(i)' = F
      BY <2>1, <3>1
    <3>5. Fits(FileOf(i))'
      BY <3>3, <3>4 DEF Fits, Climbs, Committed
    <3>6. Seqs(FileOf(i).recs)' = Seqs(F.recs)
      BY <3>4 DEF Seqs
    <3>7. ASSUME NEW m \in Later(i)', m.type = "COMMIT", NEW n \in Seqs(F.recs) PROVE n < m.seq
      <4>1. CASE m \in Later(j)
        BY <3>2, <3>7, <4>1
      <4>2. CASE Sent(m)
        <5>1. Send /\ m.seq = tpc_seq
          BY <1>0, <3>7, <4>2, SentKinds
        <5>2. Top = last_seq /\ last_seq + 1 = tpc_seq /\ last_seq \in Nat
          BY <1>0, <5>1, StageFacts, Numbers DEF Send
        <5>3. n <= Top /\ n \in Nat
          <6>1. Seqs(F.recs) \subseteq TSeq
            BY <1>0, <2>1, <3>1, FileTypes
          <6> QED BY <3>2, <3>7, <6>1 DEF Fits, Seqs, TSeq
        <5> QED BY <5>1, <5>2, <5>3
      <4> QED BY <2>1, <3>7, <4>1, <4>2
    <3>8. ~Recovering' => ~Recovering
      <4>1. SUFFICES ASSUME Recovering, ~Recovering' PROVE FALSE
        OBVIOUS
      <4>2. rec'.place # rec.place
        BY <4>1 DEF Recovering
      <4>3. ReadLog \/ ReplayBegins \/ ReplayEnds \/ Crash
        BY <1>0, <2>1, <4>2, Frame
      <4>4. ~ReadLog /\ ~ReplayBegins
        <5>1. ~ReplayBegins
          BY <4>1 DEF ReplayBegins, Recovering
        <5>2. ReadLog => 1 \in DOMAIN to_r /\ to_r[1].type = "LOGFILE"
          BY <1>0, FirstFacts DEF ReadLog, Reads
        <5> QED BY <1>0, <4>1, <5>1, <5>2 DEF Recovering, SessionInv, PhaseInv
      <4>5. ~Crash
        BY <1>1 DEF Crash, HasFile
      <4>6. ReplayEnds
        BY <4>3, <4>4, <4>5
      <4>7. rec'.place = "none" /\ to_r' = to_r /\ rup
        BY <4>6, NoRecType DEF ReplayEnds
      <4>8. i # 0
        BY <1>1, <4>7 DEF HasFile
      <4>9. i \in DOMAIN to_r /\ to_r[i].type = "LOGFILE"
        <5>1. i \in Spots
          BY <4>7, Kept
        <5>2. i \in DOMAIN to_r
          BY <1>0, <4>8, <5>1, Around
        <5> QED BY <1>1, <4>7, <4>8, <5>2 DEF HasFile
      <4> QED BY <1>0, <4>1, <4>9 DEF SessionInv, PhaseInv, Recovering
    <3> QED BY <3>2, <3>4, <3>5, <3>6, <3>7, <3>8
  <2>2. ASSUME Replay, i = 0, HasFile(0), Later(0)' = Later(0)
        PROVE  /\ Fits(FileOf(i))'
               /\ \A m \in Later(i)' : m.type = "COMMIT" => \A n \in Seqs(FileOf(i).recs)' : n < m.seq
               /\ ~Recovering' /\ FileOf(i)'.recs # <<>> => FileOf(i)'.recs[1].num = 1
    <3>1. /\ Fits(FileOf(0))' /\ Seqs(FileOf(0).recs)' \subseteq Seqs(FileOf(0).recs)
      BY <2>2, ReplayFits
    <3>2. 0 \in Spots
      BY <1>0, Around
    <3>3. \A m \in Later(0)' : m.type = "COMMIT" => \A n \in Seqs(FileOf(0).recs)' : n < m.seq
      BY <1>0, <2>2, <3>1, <3>2 DEF FileInv
    <3>4. Recovering'
      BY <1>0, <2>2, ReplayMoves DEF Recovering
    <3> QED BY <2>2, <3>1, <3>3, <3>4
  <2>3. ASSUME AnswerLog, i # 0, FileOf(i)' = [ck |-> ck, recs |-> Recs], Later(i)' = {}
        PROVE  /\ Fits(FileOf(i))'
               /\ \A m \in Later(i)' : m.type = "COMMIT" => \A n \in Seqs(FileOf(i).recs)' : n < m.seq
               /\ ~Recovering' /\ FileOf(i)'.recs # <<>> => FileOf(i)'.recs[1].num = 1
    <3>1. PICK F : F = [ck |-> ck, recs |-> Recs]
      OBVIOUS
    <3>2. F \in LogFile /\ Fits(F) /\ F.ck = ck /\ (F.recs # <<>> => F.recs[1].num = 1)
      BY <2>3, <3>1, AnswerFits
    <3>3. Keeps
      BY <2>3 DEF AnswerLog, Keeps, dvars, RRecs
    <3>4. F.ck <= ck
      BY <1>0, <3>2, Numbers
    <3>5. Fits(F)'
      BY <3>2, <3>3, <3>4, FitsStays
    <3>6. FileOf(i)' = F
      BY <2>3, <3>1
    <3>7. Fits(FileOf(i))'
      BY <3>5, <3>6 DEF Fits, Climbs, Committed
    <3> QED BY <2>3, <3>2, <3>6, <3>7
  <2> QED BY <1>1, <2>1, <2>2, <2>3, FileMoves
<1>2. ReplayInv'
  BY NextReplay
<1> QED BY <1>1, <1>2 DEF FileInv, ReplayInv

-----------------------------------------------------------------------------
(* What is held, or in a log on its way, stays so.                         *)
LEMMA Longer ==
    ASSUME NEW S, NEW q \in Seq(S), NEW x \in S
    PROVE  Append(q, x) # q
<1>1. Len(Append(q, x)) = Len(q) + 1 /\ Len(q) \in Nat
  BY AppendFacts
<1>2. Len(q) # Len(q) + 1
  BY <1>1
<1> QED BY <1>1, <1>2

LEMMA ReplayCovers ==
    ASSUME Unspoiled, Replay, HasFile(0), NEW n \in Seqs(FileOf(0).recs)
    PROVE  n \in Held' \/ n \in Seqs(FileOf(0).recs)'
<1>0. TypeInv /\ SessionInv /\ FileInv
  BY DEF Unspoiled, HoldInv
<1>. DEFINE q == rec.file.recs
<1>1. /\ rup /\ Recovering /\ q # <<>> /\ q[1] = Head(q) /\ rec'.file.recs = Tail(q)
      /\ (Skips(q[1]) => RRecs' = RRecs) /\ UNCHANGED <<rup, rsaved>>
  BY <1>0, ReplayMoves
<1>2. /\ Fits(rec.file) /\ rec.same /\ rec.file.ck = rck /\ rnum <= Len(RRecs)
  BY <1>0, <1>1, Around DEF FileInv, FileOf
<1>3. /\ q \in Seq(Record) /\ Climbs(q) /\ 1 \in DOMAIN q /\ q[1] \in Record
  <2>1. q \in Seq(Record)
    BY <1>0, Numbers
  <2>2. 1 \in DOMAIN q /\ q[1] \in Record
    BY <1>1, <2>1, TailFacts
  <2> QED BY <1>2, <2>1, <2>2 DEF Fits
<1>4. Seqs(q) = {q[1].seq} \cup Seqs(Tail(q))
  BY <1>1, <1>3, ClimbsTail
<1>5. Seqs(FileOf(0).recs)' = Seqs(Tail(q)) /\ Seqs(FileOf(0).recs) = Seqs(q)
  BY <1>1 DEF FileOf, Seqs
<1>6. q[1].seq \in Held'
  <2>1. CASE Skips(q[1])
    <3>1. Held' = Held
      BY <1>1, <2>1 DEF Held, Saved, Seqs
    <3>2. q[1].num <= rnum /\ q[1].num >= 1 /\ q[1].num \in Nat
      BY <1>2, <1>3, <2>1 DEF Skips, Fits, Record
    <3>3. DOMAIN RRecs = 1..Len(RRecs) /\ Len(RRecs) \in Nat /\ rnum \in Nat
      BY <1>0, RecordTypes, RecordFields, Numbers
    <3>4. q[1].num \in DOMAIN RRecs
      BY <1>2, <3>2, <3>3
    <3>5. RRecs[q[1].num] = q[1]
      BY <1>2, <1>3, <3>4 DEF Fits
    <3> QED BY <3>1, <3>4, <3>5 DEF Held, Seqs
  <2>2. CASE ~Skips(q[1])
    <3>1. rtable' = Append(rtable, q[1].seq) /\ rtable \in Seq(TSeq) /\ q[1].seq \in TSeq
      <4>1. rtable' = Append(rtable, Head(q).seq)
        <5>1. ~Skips(Head(q))
          BY <1>1, <2>2
        <5>. HIDE DEF q
        <5>2. Head(rec.file.recs) = Head(q)
          BY DEF q
        <5> QED BY <5>1, <5>2 DEF Replay
      <4>2. rtable \in Seq(TSeq)
        BY <1>0 DEF TypeInv, ReplicaTypes, DiskTypes
      <4> QED BY <1>1, <1>3, <4>1, <4>2 DEF Record
    <3>2. rtable' # rtable
      BY <3>1, Longer
    <3>3. ~Keeps /\ ~Saves /\ ~Loses
      BY <1>1, <3>2 DEF Keeps, Restart, Saves, Loses, Recovering
    <3>4. PICK x \in Record : Writes(x) /\ (Replays(x) \/ Executes(x.seq)) /\ x.seq \in TSeq
      BY <3>3, WrittenFacts
    <3>5. ~Executes(x.seq)
      BY <1>1, <3>4, ExecutedFacts DEF Recovering
    <3>6. x = q[1]
      BY <3>4, <3>5 DEF Replays
    <3> QED BY <1>0, <3>4, <3>6, Writing
  <2> QED BY <2>1, <2>2
<1> QED BY <1>4, <1>5, <1>6

(* Where a log file is after a step.                                       *)
LEMMA FileForward ==
    ASSUME Unspoiled, rup', NEW j \in Spots, HasFile(j)
    PROVE  \/ \E i \in Spots' : HasFile(i)' /\ FileOf(i)' = FileOf(j)
           \/ Replay /\ j = 0 /\ 0 \in Spots' /\ HasFile(0)' /\ FileOf(0)'.ck = FileOf(0).ck
           \/ ReplayEnds /\ j = 0 /\ FileOf(0).recs = <<>> /\ FileOf(0).ck = rck
<1>0. /\ TypeInv /\ TypeInv' /\ SessionInv /\ FileInv /\ [Next]_vars
  BY NextTypes DEF Unspoiled, HoldInv
<1>1. rup /\ ~Crash
  BY DEF HasFile, Crash
<1>2. 0 \in Spots'
  <2>1. Len(to_r') \in Nat
    BY <1>0 DEF TypeInv, WireTypes
  <2> QED BY <2>1 DEF Spots
<1>3. CASE j = 0
  <2>1. rec.place # "none" /\ FileOf(j) = rec.file
    BY <1>3 DEF HasFile, FileOf
  <2>2. ~ReadLog
    <3>1. ReadLog => 1 \in DOMAIN to_r /\ to_r[1].type = "LOGFILE"
      BY <1>0, FirstFacts DEF ReadLog, Reads
    <3> QED BY <1>0, <2>1, <3>1 DEF SessionInv, PhaseInv
  <2>3. CASE ReplayEnds
    <3>1. rec.file.recs = <<>> /\ Recovering
      BY <2>3 DEF ReplayEnds
    <3> QED BY <1>0, <1>3, <2>3, <3>1 DEF FileInv, FileOf
  <2>4. CASE Replay
    <3>1. rec'.place = rec.place /\ rec'.file.ck = rec.file.ck
      BY <1>0, <2>4, ReplayMoves
    <3> QED BY <1>2, <1>3, <2>1, <2>4, <3>1 DEF HasFile, FileOf
  <2>5. CASE ReplayBegins
    <3>1. rec'.place # "none" /\ rec'.file = rec.file
      BY <2>5, ReplayStarts
    <3> QED BY <1>1, <1>2, <1>3, <2>1, <2>5, <3>1 DEF HasFile, FileOf, ReplayBegins
  <2>6. CASE rec' = rec
    BY <1>2, <2>1, <2>6 DEF HasFile, FileOf
  <2> QED BY <1>0, <1>1, <2>2, <2>3, <2>4, <2>5, <2>6, Frame
<1>4. CASE j # 0
  <2>1. j \in DOMAIN to_r /\ to_r[j].type = "LOGFILE" /\ FileOf(j) = to_r[j].file
    BY <1>0, <1>4, Around DEF HasFile, FileOf
  <2>2. ASSUME NEW i \in DOMAIN to_r', to_r'[i] = to_r[j]
        PROVE  \E k \in Spots' : HasFile(k)' /\ FileOf(k)' = FileOf(j)
    <3>1. i \in Spots' /\ i # 0
      BY <1>0 DEF Spots, TypeInv, WireTypes
    <3> QED BY <2>1, <2>2, <3>1 DEF HasFile, FileOf
  <2>3. CASE to_r' = to_r
    BY <2>1, <2>2, <2>3
  <2>4. CASE to_r' = <<>> /\ (Join \/ Drop)
    BY <1>0, <1>1, <2>1, <2>4, EmptyFacts DEF Join, Drop, SessionInv, CleanInv
  <2>5. CASE to_r # <<>> /\ to_r' = Tail(to_r)
    <3>1. CASE j = 1
      <4>1. ReadLog
        <5>1. member
          BY <1>0, <2>1, EmptyFacts DEF SessionInv, CleanInv
        <5>2. member'
          BY <1>0, <1>1, <2>5, <5>1, Frame DEF Join, Drop
        <5>3. to_r[1].type = "LOGFILE"
          BY <2>1, <3>1
        <5> QED BY <1>0, <2>5, <5>2, <5>3, ReadMoves DEF Decisions
      <4>2. rec'.place # "none" /\ rec'.file = to_r[1].file
        BY <4>1 DEF ReadLog, NoRec
      <4> QED BY <1>2, <2>1, <3>1, <4>2 DEF HasFile, FileOf
    <3>2. CASE j # 1
      BY <1>0, <2>1, <2>2, <2>5, <3>2, Reading
    <3> QED BY <3>1, <3>2
  <2>6. CASE \E m \in ToReplica : to_r' = Append(to_r, m)
    BY <1>0, <2>1, <2>2, <2>6, Sending
  <2> QED BY <1>0, <2>3, <2>4, <2>5, <2>6, WireMoves
<1> QED BY <1>3, <1>4

LEMMA CoveredStays ==
    ASSUME Unspoiled, rup', NEW n, Covered(n)
    PROVE  Covered(n)'
<1>0. TypeInv /\ MemInv
  BY DEF Unspoiled, HoldInv
<1>1. Held \subseteq Held'
  <2>1. CASE Keeps
    BY <2>1, Keeping
  <2>2. CASE Saves
    BY <1>0, <2>2, Saving DEF MemInv, Saves
  <2>3. CASE ~Keeps /\ ~Saves
    <3>1. ~Loses
      BY DEF Loses
    <3> QED BY <1>0, <2>3, <3>1, WrittenFacts, Writing
  <2> QED BY <2>1, <2>2, <2>3
<1>2. CASE n \in Held
  BY <1>1, <1>2 DEF Covered
<1>3. ASSUME NEW j \in Spots, HasFile(j), n \in Seqs(FileOf(j).recs) PROVE Covered(n)'
  <2>1. ASSUME NEW i \in Spots', HasFile(i)', FileOf(i)' = FileOf(j) PROVE Covered(n)'
    <3>1. n \in Seqs(FileOf(i).recs)'
      BY <1>3, <2>1 DEF Seqs
    <3> QED BY <2>1, <3>1 DEF Covered
  <2>2. CASE Replay /\ j = 0 /\ 0 \in Spots' /\ HasFile(0)'
    <3>1. n \in Held' \/ n \in Seqs(FileOf(0).recs)'
      BY <1>3, <2>2, ReplayCovers
    <3> QED BY <2>2, <3>1 DEF Covered
  <2>3. CASE j = 0 /\ FileOf(0).recs = <<>>
    BY <1>3, <2>3, EmptyFacts DEF Seqs
  <2> QED BY <1>3, <2>1, <2>2, <2>3, FileForward
<1> QED BY <1>2, <1>3 DEF Covered

LEMMA NotBehindBack ==
    ASSUME Unspoiled, rup', NotBehind'
    PROVE  NotBehind
<1>0. TypeInv /\ SessionInv /\ MarkInv
  BY DEF Unspoiled, HoldInv
<1>1. SUFFICES ASSUME NEW j \in Spots, HasFile(j) PROVE FileOf(j).ck = rck
  BY DEF NotBehind
<1>2. rck' = rck
  <2>1. ~Saves
    BY <1>0, <1>1, OneFile
  <2>2. CASE Keeps
    BY <2>2 DEF Keeps
  <2>3. CASE Loses
    BY <2>3 DEF Loses
  <2>4. CASE ~Keeps /\ ~Loses
    BY <2>1, <2>4, WrittenFacts DEF Writes
  <2> QED BY <2>2, <2>3, <2>4
<1>3. \A i \in Spots' : HasFile(i)' => FileOf(i)'.ck = rck'
  BY DEF NotBehind
<1> QED BY <1>1, <1>2, <1>3, FileForward

LEMMA BaseMoves ==
    ASSUME Unspoiled, NEW i \in Spots', Numbered(i)'
    PROVE  /\ rup /\ member
           /\ \/ (\A n \in TSeq : ~Executes(n)) /\ \E j \in Spots : Numbered(j) /\ Base(i)' = Base(j)
              \/ \E d \in Decisions, n \in TSeq :
                    /\ Numbered(0) /\ i = 0 /\ ReadDecision(d) /\ n = to_r[1].seq /\ Applied(d, n)
                    /\ Base(i)' = n /\ n = rlast + 1 /\ outcome[n] = d
              \/ AnswerSeq /\ Base(i)' = last_seq /\ last_seq = Top /\ Unnumbered /\ ~Unlogged
<1>0. /\ TypeInv /\ TruthInv /\ SessionInv /\ FollowInv /\ [Next]_vars /\ spoiled' = {}
  BY DEF Unspoiled, HoldInv
<1>1. rup /\ member
  BY <1>0, NumberedMoves
<1>2. ~Restart /\ rlast \in Nat
  BY <1>0, <1>1, Numbers DEF Restart
<1>3. to_r \in Seq(ToReplica)
  BY <1>0 DEF TypeInv, WireTypes
<1>4. ASSUME NEW n \in TSeq, Executes(n) PROVE to_r # <<>> /\ to_r' = Tail(to_r) /\ DecisionIn
  BY <1>4, ExecutedFacts DEF Executes, DecisionIn, Decisions
<1>5. ASSUME to_r # <<>>, to_r' = Tail(to_r) PROVE Len(to_r') = Len(to_r) - 1 /\ Len(to_r) \in Nat
  BY <1>0, <1>5, Reading
<1>6. CASE to_r' = to_r /\ i \in Spots /\ Numbered(i)
  <2>1. ~ReadSeq /\ ~DecisionIn
    BY <1>0, <1>1, <1>6, QuietSteps
  <2>2. rlast' = rlast
    BY <1>0, <1>2, <2>1, Frame
  <2>3. Base(i)' = Base(i)
    BY <1>6, <2>2 DEF Base
  <2> QED BY <1>1, <1>4, <1>6, <2>1, <2>3
<1>7. CASE i \in Spots /\ Numbered(i) /\ \E m \in ToReplica : to_r' = Append(to_r, m)
  <2>1. PICK m \in ToReplica : to_r' = Append(to_r, m)
    BY <1>7
  <2>2. Len(to_r') = Len(to_r) + 1 /\ Len(to_r) \in Nat
    BY <1>3, <2>1, AppendFacts
  <2>3. ~(to_r # <<>> /\ to_r' = Tail(to_r))
    <3>1. SUFFICES ASSUME to_r # <<>>, to_r' = Tail(to_r) PROVE FALSE
      OBVIOUS
    <3>2. Len(to_r') = Len(to_r) - 1
      BY <1>5, <3>1
    <3> QED BY <2>2, <3>2
  <2>4. ~ReadSeq /\ ~DecisionIn
    BY <2>3 DEF ReadSeq, DecisionIn, ReadDecision, Reads
  <2>5. rlast' = rlast
    BY <1>0, <1>2, <2>4, Frame
  <2>6. Base(i)' = Base(i)
    BY <1>0, <1>7, <2>1, <2>5, Grown DEF Base
  <2> QED BY <1>1, <1>4, <1>7, <2>3, <2>6
<1>8. CASE AnswerSeq /\ i = Len(to_r) + 1 /\ Unnumbered /\ ~Unlogged
  <2>1. stage # "sent"
    BY <1>0, <1>8 DEF AnswerSeq
  <2>2. Top = last_seq
    BY <1>0, <2>1, StageFacts
  <2>. DEFINE m == [type |-> "TSEQNUMRETURN", seq |-> tpc_seq, last |-> last_seq]
  <2>3. to_r' = Append(to_r, m) /\ m \in ToReplica
    <3>1. tpc_seq \in 0..MaxSeq /\ last_seq \in 0..MaxSeq
      BY <1>0, Numbers
    <3> QED BY <1>8, <3>1, MessageMade DEF AnswerSeq
  <2>4. to_r'[i] = m /\ i # 0
    BY <1>0, <1>8, <2>3, Grown
  <2>5. Base(i)' = last_seq
    BY <2>4 DEF Base
  <2> QED BY <1>1, <1>8, <2>2, <2>5
<1>9. CASE to_r # <<>> /\ to_r' = Tail(to_r) /\ Numbered(i + 1) /\ i + 1 \in Spots /\ (i = 0 => ReadSeq)
  <2>1. i + 1 # 0
    BY <1>0, <1>9, Shifted
  <2>2. ASSUME NEW n \in TSeq, Executes(n) PROVE FALSE
    <3>1. Numbered(0)
      BY <2>2, ExecutedFacts
    <3> QED BY <1>0, <1>9, <2>1, <3>1, NoLogAhead
  <2>3. CASE i # 0
    <3>1. to_r'[i] = to_r[i + 1]
      BY <1>0, <1>9, <2>3, Shifted
    <3>2. Base(i)' = Base(i + 1)
      BY <2>1, <2>3, <3>1 DEF Base
    <3> QED BY <1>1, <1>9, <2>2, <3>2
  <2>4. CASE i = 0
    <3>1. Numbered(1) /\ 1 \in Spots /\ ReadSeq /\ Base(1) = to_r[1].last
      BY <1>9, <2>4 DEF Base
    <3>2. rlast <= to_r[1].last
      BY <1>0, <3>1 DEF FollowInv, Follows
    <3>3. to_r[1].last \in Nat
      BY <1>0, <3>1, BaseTop
    <3>4. rlast' = to_r[1].last
      BY <1>2, <3>1, <3>2, <3>3 DEF ReadSeq, LastAfter, Larger
    <3>5. Base(i)' = Base(1)
      BY <2>4, <3>1, <3>4 DEF Base
    <3> QED BY <1>1, <2>2, <3>1, <3>5
  <2> QED BY <2>3, <2>4
<1>10. CASE to_r # <<>> /\ to_r' = Tail(to_r) /\ Numbered(0) /\ i = 0 /\ to_r[1].type # "TSEQNUMRETURN"
  <2>1. 0 \in Spots /\ ~ReadSeq
    BY <1>0, <1>10, Around DEF ReadSeq, Reads
  <2>2. CASE DecisionIn
    <3>1. PICK d \in Decisions : ReadDecision(d)
      BY <2>2 DEF DecisionIn
    <3>2. PICK n : n = to_r[1].seq
      OBVIOUS
    <3>3. n \in TSeq /\ outcome[n] = d
      BY <1>0, <3>1, <3>2, DecisionRead
    <3>4. Applied(d, n)
      BY <1>0, <1>10, <3>1, <3>2, NumberedApplies
    <3>5. Base(i)' = n /\ n = rlast + 1
      BY <1>10, <3>4 DEF Base, Applied
    <3> QED BY <1>1, <1>10, <3>1, <3>2, <3>3, <3>4, <3>5
  <2>3. CASE ~DecisionIn
    <3>1. rlast' = rlast
      BY <1>0, <1>2, <2>1, <2>3, Frame
    <3>2. Base(i)' = Base(0)
      BY <1>10, <3>1 DEF Base
    <3> QED BY <1>1, <1>4, <1>10, <2>1, <2>3, <3>2
  <2> QED BY <2>2, <2>3
<1> QED BY <1>0, <1>6, <1>7, <1>8, <1>9, <1>10, NumberedMoves

(* A transaction that is applied and committed is held.                    *)
LEMMA AppliedHeld ==
    ASSUME Unspoiled, NEW n \in TSeq, ReadDecision("COMMIT"), n = to_r[1].seq, Applied("COMMIT", n)
    PROVE  n \in Held'
<1>0. TypeInv /\ TruthInv /\ SessionInv
  BY DEF Unspoiled, HoldInv
<1>1. rtable' = Append(rtable, n) /\ rtable \in Seq(TSeq)
  BY <1>0 DEF Applied, TypeInv, ReplicaTypes, DiskTypes
<1>2. rtable' # rtable
  BY <1>1, Longer
<1>3. rup /\ rup' = rup /\ to_r # <<>> /\ to_r' = Tail(to_r) /\ to_r[1].type = "COMMIT"
  BY DEF ReadDecision, Reads
<1>4. ~Keeps /\ ~Saves /\ ~Loses
  BY <1>2, <1>3 DEF Keeps, Restart, Saves, Loses
<1>5. PICK x \in Record : Writes(x) /\ (Replays(x) \/ Executes(x.seq)) /\ x.seq \in TSeq
  BY <1>4, WrittenFacts
<1>6. ~Replays(x)
  <2>1. Len(to_r') = Len(to_r) - 1 /\ Len(to_r) \in Nat
    BY <1>0, <1>3, Reading
  <2>2. to_r' # to_r
    BY <2>1
  <2> QED BY <2>2, ReplayedFacts
<1>7. x.seq = n
  BY <1>5, <1>6 DEF Executes
<1> QED BY <1>0, <1>5, <1>7, Writing

LEMMA NextNumberedCover ==
    ASSUME Unspoiled, NEW i \in Spots', Numbered(i)'
    PROVE  /\ \A n \in Held' : n <= Base(i)'
           /\ \A h \in Spots' : HasFile(h)' => \A n \in Seqs(FileOf(h).recs)' : n <= Base(i)'
           /\ NotBehind' => \A n \in TSeq : Committed(n)' /\ n <= Base(i)' => Covered(n)'
<1>0. /\ TypeInv /\ TruthInv /\ SessionInv /\ MemInv /\ CoverInv /\ [Next]_vars /\ FileInv'
      /\ spoiled = {}
  BY NextFile DEF Unspoiled, HoldInv
<1>1. rup /\ member /\ rup'
  BY BaseMoves DEF Numbered
<1>2. ASSUME NEW n \in TSeq, NEW t \in Nat, t <= Top, n <= t, outcome'[n] = "COMMIT"
      PROVE  Committed(n) /\ n <= Top
  <2>1. n <= Top
    BY <1>0, <1>2, StageFacts DEF TSeq
  <2> QED BY <1>0, <1>2, <2>1, Stays DEF Committed
<1>3. ASSUME NEW h \in Spots', HasFile(h)', ~AnswerLog, NEW n \in Seqs(FileOf(h).recs)'
      PROVE  \E k \in Spots : HasFile(k) /\ n \in Seqs(FileOf(k).recs)
  <2>1. CASE \E k \in Spots : HasFile(k) /\ FileOf(h)' = FileOf(k)
    BY <1>3, <2>1 DEF Seqs
  <2>2. CASE Replay /\ h = 0 /\ HasFile(0)
    BY <1>0, <1>3, <2>2, ReplayFits, Around
  <2> QED BY <1>3, <2>1, <2>2, FileMoves
<1>4. CASE (\A n \in TSeq : ~Executes(n)) /\ \E j \in Spots : Numbered(j) /\ Base(i)' = Base(j)
  <2>1. PICK j \in Spots : Numbered(j) /\ Base(i)' = Base(j)
    BY <1>4
  <2>2. /\ \A n \in Held : n <= Base(j)
        /\ \A h \in Spots : HasFile(h) => \A n \in Seqs(FileOf(h).recs) : n <= Base(j)
        /\ NotBehind => \A n \in TSeq : Committed(n) /\ n <= Base(j) => Covered(n)
    BY <1>0, <2>1 DEF CoverInv
  <2>3. ~AnswerLog /\ Base(j) \in Nat /\ Base(j) <= Top
    <3>1. ~AnswerLog
      BY <1>0, <2>1, NoLogAhead, AnswerPhases DEF SessionInv
    <3> QED BY <1>0, <2>1, <3>1, BaseTop
  <2>4. ASSUME NEW n \in Held' PROVE n <= Base(i)'
    <3>1. CASE n \in Held
      BY <2>1, <2>2, <3>1
    <3>2. CASE n \notin Held
      <4>1. ~Keeps /\ ~Saves /\ ~Loses
        BY <2>4, <3>2, HeldMoves
      <4>2. PICK x \in Record : Writes(x) /\ (Replays(x) \/ Executes(x.seq)) /\ x.seq \in TSeq
        BY <4>1, WrittenFacts
      <4>3. Replays(x) /\ n = x.seq
        BY <1>0, <1>4, <2>4, <3>2, <4>2, Writing
      <4>4. HasFile(0) /\ FileOf(0) = rec.file /\ 1 \in DOMAIN rec.file.recs /\ x = rec.file.recs[1]
        BY <4>3, ReplayedFacts DEF Replays
      <4>5. n \in Seqs(FileOf(0).recs) /\ 0 \in Spots
        BY <1>0, <4>3, <4>4, Around DEF Seqs
      <4> QED BY <2>1, <2>2, <4>4, <4>5
    <3> QED BY <3>1, <3>2
  <2>5. ASSUME NEW h \in Spots', HasFile(h)', NEW n \in Seqs(FileOf(h).recs)' PROVE n <= Base(i)'
    BY <1>3, <2>1, <2>2, <2>3, <2>5
  <2>6. ASSUME NotBehind', NEW n \in TSeq, outcome'[n] = "COMMIT", n <= Base(i)' PROVE Covered(n)'
    <3>1. Committed(n) /\ NotBehind
      BY <1>1, <1>2, <2>1, <2>3, <2>6, NotBehindBack
    <3> QED BY <1>1, <2>1, <2>2, <2>6, <3>1, CoveredStays
  <2> QED BY <2>4, <2>5, <2>6 DEF Committed
<1>5. ASSUME NEW d \in Decisions, NEW m \in TSeq, Numbered(0), i = 0, ReadDecision(d), m = to_r[1].seq,
             Applied(d, m), Base(i)' = m, m = rlast + 1, outcome[m] = d
      PROVE  /\ \A n \in Held' : n <= Base(i)'
             /\ \A h \in Spots' : HasFile(h)' => \A n \in Seqs(FileOf(h).recs)' : n <= Base(i)'
             /\ NotBehind' => \A n \in TSeq : Committed(n)' /\ n <= Base(i)' => Covered(n)'
  <2>1. rlast \in Nat /\ m \in Nat /\ 0 \in Spots /\ Base(0) = rlast /\ rlast <= Top
    <3>1. Base(0) = rlast /\ 0 \in Spots
      BY <1>0, Around DEF Base
    <3> QED BY <1>0, <1>5, <3>1, BaseTop, Numbers DEF TSeq
  <2>2. /\ \A n \in Held : n <= rlast
        /\ \A h \in Spots : HasFile(h) => \A n \in Seqs(FileOf(h).recs) : n <= rlast
        /\ NotBehind => \A n \in TSeq : Committed(n) /\ n <= rlast => Covered(n)
    BY <1>0, <1>5, <2>1 DEF CoverInv
  <2>3. to_r # <<>> /\ to_r' = Tail(to_r) /\ ~AnswerLog
    <3>1. ~AnswerLog
      BY <1>0, <1>5, <2>1, NoLogAhead, AnswerPhases DEF SessionInv
    <3> QED BY <1>5, <3>1 DEF ReadDecision, Reads
  <2>4. ASSUME NEW n \in Held' PROVE n <= Base(i)'
    <3>1. CASE n \in Held
      <4>1. n \in Nat /\ n <= rlast
        BY <1>0, <2>2, <3>1, RecordTypes DEF TSeq
      <4> QED BY <1>5, <2>1, <4>1
    <3>2. CASE n \notin Held
      <4>1. ~Keeps /\ ~Saves /\ ~Loses
        BY <2>4, <3>2, HeldMoves
      <4>2. PICK x \in Record : Writes(x) /\ (Replays(x) \/ Executes(x.seq)) /\ x.seq \in TSeq
        BY <4>1, WrittenFacts
      <4>3. ~Replays(x)
        <5>1. Len(to_r') = Len(to_r) - 1 /\ Len(to_r) \in Nat
          BY <1>0, <2>3, Reading
        <5>2. to_r' # to_r
          BY <5>1
        <5> QED BY <5>2, ReplayedFacts
      <4>4. x.seq = m
        BY <1>5, <4>2, <4>3 DEF Executes
      <4>5. n = x.seq
        BY <1>0, <2>4, <3>2, <4>2, Writing
      <4> QED BY <1>5, <2>1, <4>4, <4>5
    <3> QED BY <3>1, <3>2
  <2>5. ASSUME NEW h \in Spots', HasFile(h)', NEW n \in Seqs(FileOf(h).recs)' PROVE n <= Base(i)'
    <3>1. PICK k \in Spots : HasFile(k) /\ n \in Seqs(FileOf(k).recs)
      BY <1>3, <2>3, <2>5
    <3>2. n <= rlast /\ n \in Nat
      <4>1. n <= rlast
        BY <2>2, <3>1
      <4>2. n \in TSeq
        BY <1>0, <3>1, FileTypes
      <4> QED BY <4>1, <4>2 DEF TSeq
    <3> QED BY <1>5, <2>1, <3>2
  <2>6. ASSUME NotBehind', NEW n \in TSeq, outcome'[n] = "COMMIT", n <= Base(i)' PROVE Covered(n)'
    <3>1. CASE n <= rlast
      <4>1. Committed(n) /\ NotBehind
        BY <1>1, <1>2, <2>1, <2>6, <3>1, NotBehindBack
      <4> QED BY <1>1, <2>2, <3>1, <4>1, CoveredStays
    <3>2. CASE ~(n <= rlast)
      <4>1. n = m
        BY <1>5, <2>1, <2>6, <3>2 DEF TSeq
      <4>2. outcome' = outcome
        BY <1>5 DEF ReadDecision, pvars
      <4>3. d = "COMMIT"
        BY <1>5, <2>6, <4>1, <4>2
      <4>4. n \in Held'
        BY <1>5, <4>1, <4>3, AppliedHeld
      <4> QED BY <4>4 DEF Covered
    <3> QED BY <3>1, <3>2
  <2> QED BY <2>4, <2>5, <2>6 DEF Committed
<1>6. CASE AnswerSeq /\ Base(i)' = last_seq /\ last_seq = Top /\ Unnumbered /\ ~Unlogged
  <2>1. /\ UNCHANGED <<pvars, lvars, dvars, rtable, rup>>
    BY <1>6 DEF AnswerSeq
  <2>2. Top' = Top /\ outcome' = outcome /\ Held' = Held /\ Top \in Nat
    BY <1>0, <2>1, StageFacts DEF pvars, dvars, Top, Held, Saved, Seqs, RRecs
  <2>3. \A n \in Held' : n <= Base(i)'
    BY <1>0, <1>6, <2>2 DEF MemInv
  <2>4. ASSUME NEW h \in Spots', HasFile(h)', NEW n \in Seqs(FileOf(h).recs)' PROVE n <= Base(i)'
    <3>1. Fits(FileOf(h))'
      BY <1>0, <2>4 DEF FileInv
    <3>2. PICK k \in DOMAIN FileOf(h)'.recs : n = FileOf(h)'.recs[k].seq
      BY <2>4 DEF Seqs
    <3>3. n <= Top'
      BY <3>1, <3>2 DEF Fits
    <3> QED BY <1>6, <2>2, <3>3
  <2>5. ASSUME NotBehind', NEW n \in TSeq, outcome'[n] = "COMMIT", n <= Base(i)' PROVE Covered(n)'
    <3>1. NotBehind /\ Committed(n) /\ n <= last_seq
      BY <1>1, <1>6, <2>2, <2>5, NotBehindBack DEF Committed
    <3>2. Covered(n)
      BY <1>0, <1>1, <1>6, <3>1 DEF CoverInv
    <3> QED BY <1>1, <3>2, CoveredStays
  <2> QED BY <2>3, <2>4, <2>5 DEF Committed
<1> QED BY <1>4, <1>5, <1>6, BaseMoves

LEMMA NextCover ==
    ASSUME Unspoiled
    PROVE  CoverInv'
<1>0. /\ TypeInv /\ TypeInv' /\ TruthInv /\ SessionInv /\ ReadInv /\ MarkInv /\ NewestInv /\ CoverInv
      /\ [Next]_vars /\ spoiled' = {}
  BY NextTypes DEF Unspoiled, HoldInv
<1>1. ASSUME rup', Unnumbered', ~Unlogged', NotBehind', NEW n \in TSeq, outcome'[n] = "COMMIT", n <= last_seq'
      PROVE  Covered(n)'
  <2>1. member' /\ AskInv
    BY <1>0, <1>1 DEF Unnumbered, SessionInv
  <2>2. ~Join /\ ~Drop /\ ~AnswerSeq
    BY <1>0, <1>1, <2>1, AskMoves
  <2>3. rup /\ member
    BY <1>0, <1>1, <2>1, <2>2, StaysUp
  <2>4. NotBehind
    BY <1>1, NotBehindBack
  <2>5. last_seq \in Nat /\ last_seq <= Top /\ Top \in Nat /\ n \in Nat
    BY <1>0, StageFacts, Numbers DEF TSeq
  <2>6. CASE AnswerLog
    <3>1. /\ UNCHANGED <<pvars, dvars, ck, rup>>
          /\ answer # <<>> /\ answer[1] = [ck |-> ck, recs |-> Recs]
      BY <1>0, <2>6 DEF AnswerLog, ReadInv
    <3>2. n <= last_seq /\ n <= Top /\ Committed(n)
      BY <1>1, <2>5, <3>1 DEF pvars, Committed
    <3>. DEFINE m == [type |-> "LOGFILE", file |-> [ck |-> ck, recs |-> Recs]]
                h == Len(to_r) + 1
    <3>3. to_r' = Append(to_r, m) /\ m \in ToReplica
      <4>1. Recs \in Seq(Record) /\ ck \in Nat
        BY <1>0, <3>1, RecordTypes, Numbers
      <4>2. [ck |-> ck, recs |-> Recs] \in LogFile
        BY <4>1 DEF LogFile
      <4> QED BY <2>6, <3>1, <4>2, MessageMade DEF AnswerLog
    <3>4. to_r'[h] = m /\ h # 0 /\ h \in Spots'
      BY <1>0, <3>3, Grown
    <3>. HIDE DEF h
    <3>5. PICK k : k = h
      OBVIOUS
    <3>6. HasFile(k)' /\ FileOf(k)'.ck = ck /\ FileOf(k)'.recs = Recs /\ k \in Spots'
      BY <1>1, <3>1, <3>4, <3>5 DEF HasFile, FileOf
    <3>7. rck = ck
      <4>1. FileOf(k)'.ck = rck'
        BY <1>1, <3>6 DEF NotBehind
      <4> QED BY <3>1, <3>6, <4>1 DEF dvars
    <3>8. n \in Saved \cup Seqs(AllRecs)
      BY <1>0, <3>2, <3>7 DEF NewestInv
    <3>9. CASE n \in Saved
      <4>1. Held' = Held
        BY <3>1 DEF dvars, Held, Saved, RRecs, Seqs
      <4> QED BY <3>9, <4>1 DEF Covered, Held
    <3>10. CASE n \in Seqs(AllRecs)
      <4>1. n \in Seqs(Recs)
        <5>1. CASE Coming
          <6>. DEFINE x == [num |-> Num + 1, seq |-> tpc_seq]
          <6>1. AllRecs = Append(Recs, x) /\ Recs \in Seq(Record) /\ x \in Record /\ x.seq = tpc_seq
            BY <1>0, <5>1, RecordTypes DEF AllRecs
          <6>. HIDE DEF x
          <6>2. Seqs(AllRecs) = Seqs(Recs) \cup {tpc_seq}
            BY <6>1, SeqsOfAppend
          <6>3. last_seq + 1 = tpc_seq
            BY <1>0, <5>1, StageFacts DEF Coming
          <6> QED BY <2>5, <3>2, <3>10, <6>2, <6>3
        <5>2. CASE ~Coming
          BY <3>10, <5>2 DEF AllRecs
        <5> QED BY <5>1, <5>2
      <4>2. n \in Seqs(FileOf(k).recs)'
        BY <3>6, <4>1 DEF Seqs
      <4> QED BY <3>6, <4>2 DEF Covered
    <3> QED BY <3>8, <3>9, <3>10
  <2>7. CASE ~AnswerLog
    <3>1. Unnumbered /\ ~Unlogged
      <4>1. \/ member' = member /\ Unlogged' = Unlogged /\ Unnumbered' = Unnumbered
            \/ AnswerLog \/ AnswerSeq \/ Join \/ Drop
        BY <1>0, <2>1, AskMoves
      <4>2. (Unlogged' = Unlogged) /\ (Unnumbered' = Unnumbered)
        BY <2>2, <2>7, <4>1
      <4> QED BY <1>1, <4>2
    <3>2. n <= last_seq
      <4>1. CASE last_seq' = last_seq
        BY <1>1, <4>1
      <4>2. CASE Apply
        <5>1. stage = "sent" /\ last_seq' = tpc_seq /\ outcome' = outcome
          BY <4>2 DEF Apply
        <5>2. outcome[tpc_seq] # "COMMIT"
          <6>1. SUFFICES ASSUME outcome[tpc_seq] = "COMMIT" PROVE FALSE
            OBVIOUS
          <6>2. "between" \in spoiled'
            BY <3>1, <4>2, <6>1 DEF Apply
          <6> QED BY <1>0, <6>2
        <5>3. n # tpc_seq
          BY <1>1, <5>1, <5>2
        <5>4. last_seq + 1 = tpc_seq
          BY <1>0, <5>1, StageFacts
        <5> QED BY <1>1, <2>5, <5>1, <5>3, <5>4
      <4> QED BY <1>0, <4>1, <4>2, Frame
    <3>3. Committed(n)
      BY <1>0, <1>1, <2>5, <3>2, Stays DEF Committed
    <3>4. Covered(n)
      BY <1>0, <2>3, <2>4, <3>1, <3>2, <3>3 DEF CoverInv
    <3> QED BY <1>1, <3>4, CoveredStays
  <2> QED BY <2>6, <2>7
<1>2. rup' /\ Unnumbered' /\ ~Unlogged' /\ NotBehind' =>
         \A n \in TSeq : Committed(n)' /\ n <= last_seq' => Covered(n)'
  BY <1>1 DEF Committed
<1>3. \A i \in Spots' : Numbered(i)' =>
        /\ \A n \in Held' : n <= Base(i)'
        /\ \A h \in Spots' : HasFile(h)' => \A n \in Seqs(FileOf(h).recs)' : n <= Base(i)'
        /\ NotBehind' => \A n \in TSeq : Committed(n)' /\ n <= Base(i)' => Covered(n)'
  BY NextNumberedCover
<1> QED BY <1>2, <1>3 DEF CoverInv

-----------------------------------------------------------------------------
LEMMA InitHold == Init => HoldInv
<1>. SUFFICES ASSUME Init PROVE HoldInv
  OBVIOUS
<1>1. /\ to_p = <<>> /\ to_r = <<>> /\ member = FALSE /\ stage = "idle" /\ rec.place = "none"
      /\ rup = TRUE /\ rtable = <<>> /\ rsaved = <<>> /\ rnum = 0 /\ num = 0
      /\ (\A n \in TSeq : outcome[n] = "none")
  BY NoRecType DEF Init
<1>2. checkpointing = FALSE /\ answer = <<>> /\ log = <<>> /\ queue = <<>> /\ rlog = <<>> /\ rqueue = <<>>
  BY DEF Init
<1>3. <<>> \in Seq(Record) /\ DOMAIN (<<>>) = {} /\ Len(<<>>) = 0 /\ <<>> \o <<>> = <<>> /\ <<>> \in Seq(TSeq)
  <2>1. <<>> \in Seq(Record) /\ DOMAIN (<<>>) = {} /\ Len(<<>>) = 0 /\ <<>> \in Seq(TSeq)
    BY EmptyFacts
  <2> QED BY <2>1, JoinEmpty
<1>4. Recs = <<>> /\ Num = 0 /\ AllRecs = <<>> /\ RRecs = <<>>
  BY <1>1, <1>2, <1>3 DEF Recs, Num, AllRecs, RRecs, Coming
<1>5. SeqsOf(<<>>) = <<>> /\ Mem = <<>>
  <2>1. SeqsOf(<<>>) = <<>>
    BY <1>3 DEF SeqsOf
  <2> QED BY <1>1, <1>3, <1>4, <2>1 DEF Mem
<1>6. Seqs(AllRecs) = {} /\ Seqs(RRecs) = {} /\ Saved = {} /\ Held = {}
  BY <1>1, <1>3, <1>4 DEF Seqs, Saved, Held
<1>7. Spots = {0} /\ ~Unnumbered /\ ~Unlogged /\ (\A i : ~Numbered(i))
  BY <1>1, <1>3 DEF Spots, Unnumbered, Unlogged, Numbered
<1>8. LogInv /\ ReadInv
  BY <1>1, <1>2, <1>3, <1>4 DEF LogInv, Climbs, ReadInv
<1>9. FollowInv
  BY <1>1, <1>7 DEF FollowInv, LaneInv, BlindInv
<1>10. MemInv
  BY <1>1, <1>2, <1>3, <1>4, <1>5, <1>6 DEF MemInv, Rising
<1>11. MarkInv
  BY <1>1, <1>3, <1>7 DEF MarkInv
<1>12. NewestInv
  BY <1>1, <1>3, <1>4, <1>6 DEF NewestInv, Committed
<1>13. FileInv
  BY <1>1, <1>7 DEF FileInv, HasFile, Recovering
<1>14. CoverInv
  BY <1>7 DEF CoverInv
<1> QED BY <1>8, <1>9, <1>10, <1>11, <1>12, <1>13, <1>14 DEF HoldInv

LEMMA NextHold ==
    ASSUME Unspoiled
    PROVE  HoldInv'
<1>0. /\ TypeInv /\ TruthInv /\ SessionInv /\ LogInv /\ ReadInv /\ FollowInv /\ [Next]_vars
      /\ spoiled' = {}
  BY DEF Unspoiled, HoldInv
<1>1. LogInv' /\ ReadInv'
  BY <1>0, NextLog, NextRead
<1>2. FollowInv'
  BY <1>0, NextFollow
<1> QED BY <1>1, <1>2, NextMem, NextMark, NextNewest, NextFile, NextCover DEF HoldInv

JoinInv == TypeInv /\ TruthInv /\ SessionInv /\ (spoiled = {} => HoldInv)

LEMMA JoinInductive ==
    /\ Init => JoinInv
    /\ JoinInv /\ [Next]_vars => JoinInv'
<1>1. Init => JoinInv
  BY InitTypes, InitTruth, InitSession, InitHold DEF JoinInv
<1>2. ASSUME JoinInv, [Next]_vars PROVE JoinInv'
  <2>1. TypeInv /\ TruthInv /\ SessionInv /\ TypeInv' /\ TruthInv' /\ SessionInv'
    BY <1>2, NextTypes, NextTruth, NextSession DEF JoinInv
  <2>2. ASSUME spoiled' = {} PROVE HoldInv'
    <3>1. spoiled = {}
      BY <1>2, <2>2, Monotone
    <3>2. Unspoiled
      BY <1>2, <2>1, <2>2, <3>1 DEF JoinInv, Unspoiled
    <3> QED BY <3>2, NextHold
  <2> QED BY <2>1, <2>2 DEF JoinInv
<1> QED BY <1>1, <1>2

LEMMA JoinHolds == Spec => []JoinInv
BY JoinInductive, PTL DEF Spec

(* What JoinInv says of a replica that has its answers.                    *)
LEMMA JoinedHolds ==
    ASSUME JoinInv, spoiled = {}, Joined
    PROVE  IsCommitted(rtable, rlast)
<1>0. TypeInv /\ TruthInv /\ MemInv /\ CoverInv
  BY DEF JoinInv, HoldInv
<1>1. /\ rup /\ member /\ ~Unnumbered /\ rec.place = "none"
      /\ \A i \in DOMAIN to_r : to_r[i].type \notin {"LOGFILE", "TSEQNUMRETURN"}
  BY DEF Joined
<1>2. Numbered(0) /\ 0 \in Spots /\ Base(0) = rlast
  BY <1>0, <1>1, Around DEF Numbered, InTransit, Base
<1>3. \A h \in Spots : ~HasFile(h)
  BY <1>0, <1>1, Around DEF HasFile
<1>4. NotBehind /\ \A n : Covered(n) => n \in Held
  BY <1>3 DEF NotBehind, Covered
<1>5. /\ \A n \in Held : n <= rlast
      /\ \A n \in TSeq : Committed(n) /\ n <= rlast => n \in Held
  BY <1>0, <1>2, <1>4 DEF CoverInv
<1>6. rtable = Mem /\ Rising(Mem) /\ \A n \in Held : Committed(n)
  BY <1>0, <1>1 DEF MemInv
<1>7. Held \subseteq TSeq /\ Held = {Mem[i] : i \in DOMAIN Mem}
  BY <1>0, RecordTypes
<1>8. 1..rlast \subseteq TSeq /\ rlast \in Nat
  BY <1>0, Numbers
<1>9. Held = {m \in 1..rlast : Committed(m)}
  <2>1. \A n \in Held : n \in 1..rlast
    BY <1>5, <1>7, <1>8 DEF TSeq
  <2> QED BY <1>5, <1>6, <1>8, <2>1
<1>10. ToSet(rtable) = Held
  BY <1>6, <1>7 DEF ToSet
<1>11. \A i, j \in DOMAIN rtable : i < j => rtable[i] < rtable[j]
  BY <1>6 DEF Rising
<1> QED BY <1>9, <1>10, <1>11 DEF IsCommitted

LEMMA SameRecords ==
    ASSUME JoinInv, spoiled = {}, rup, rck = ck, ~checkpointing, rec.place = "none",
           NEW x \in ToSet(rlog \o rqueue), NEW y \in ToSet(log \o queue), x.num = y.num
    PROVE  x.seq = y.seq
<1>0. TypeInv /\ LogInv /\ MemInv /\ NewestInv
  BY DEF JoinInv, HoldInv
<1>1. PICK i \in DOMAIN RRecs : x = RRecs[i]
  BY DEF ToSet, RRecs
<1>2. PICK k \in DOMAIN Recs : y = Recs[k]
  BY DEF ToSet, Recs
<1>3. k \in DOMAIN AllRecs /\ y = AllRecs[k]
  BY <1>0, <1>2, RecsIn
<1>4. x.num = i /\ y.num = k
  BY <1>0, <1>1, <1>3 DEF MemInv, LogInv
<1>5. RRecs[i] = AllRecs[i]
  BY <1>0 DEF NewestInv
<1> QED BY <1>1, <1>3, <1>4, <1>5

(* A replica that has connected, and has its answers and has replayed the  *)
(* log, holds every transaction committed up to its last_seq, once and in  *)
(* order, however often it crashed before: what create_log_string sends    *)
(* and parse_log_string skips fit together, for every number of            *)
(* transactions, checkpoints and crashes, unless one of the windows that   *)
(* spoiled names was met, the replica's own checkpoint among them.         *)
THEOREM CaughtUpAlways == Spec => []CaughtUp
<1>1. JoinInv => CaughtUp
  BY JoinedHolds DEF CaughtUp
<1> QED BY <1>1, JoinHolds, PTL

(* Within a checkpoint a record number is one transaction on both servers, *)
(* which is what parse_log_string skips records by, unless one of the      *)
(* windows that spoiled names was met, the replica's own checkpoint among  *)
(* them.                                                                   *)
THEOREM SameNumbersAlways == Spec => []SameNumbers
<1>1. JoinInv => SameNumbers
  BY SameRecords DEF SameNumbers
<1> QED BY <1>1, JoinHolds, PTL

=============================================================================

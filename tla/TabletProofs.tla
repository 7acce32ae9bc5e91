---------------------------- MODULE TabletProofs ----------------------------
(***************************************************************************)
(* Theorems about TabletStore: where the records of logged commands are,   *)
(* for any commands and any number of checkpoints and crashes.  Nothing    *)
(* here speaks of the contents of the table.                               *)
(***************************************************************************)
EXTENDS TabletStore, WellFoundedInduction, TLAPS

(* The types of what the proofs speak of.                                  *)
RecordTypes ==
    /\ log_queue \in Seq(Rec) /\ log_file \in Seq(Rec) /\ fbuf \in Seq(Rec)
    /\ hist \in Seq(Command) /\ log_sequences \in Nat
    /\ executed \in Nat /\ saved \in Nat /\ csaved \in Nat /\ durable \in Nat
    /\ fpc \in {"idle", "flush", "write"}
    /\ cpc \in {"idle", "truncate", "copy", "clearlog", "number", "finish",
                "deactivate", "drop"}

Below(s, t) == \A i \in Indices(s), j \in Indices(t) : i < j

(* Records move from log_queue through the stream of the flush to the log  *)
(* file and keep their order; the log thread has a stream only while it    *)
(* writes.                                                                 *)
PlaceInv ==
    /\ Below(log_file, fbuf) /\ Below(log_file, log_queue) /\ Below(fbuf, log_queue)
    /\ Indices(log_file) \subseteq 1..Len(hist)
    /\ Indices(fbuf) \subseteq 1..Len(hist)
    /\ Indices(log_queue) \subseteq 1..Len(hist)
    /\ fpc # "write" => fbuf = << >>

(* A checkpoint holds executed commands, which are logged ones.            *)
CountInv == saved <= executed /\ csaved <= executed /\ executed <= Len(hist)

(* NothingForgotten, also while the process is down.                       *)
KeptInv ==
    spoiled = {} => \A i \in (Covered + 1)..Len(hist) :
        i \in Indices(log_file) \cup Indices(fbuf) \cup Indices(log_queue)

(* What was on disk is in the log file or in a checkpoint, the one that is *)
(* being written included.                                                 *)
DiskInv ==
    spoiled = {} => \/ durable <= Covered
                    \/ \E i \in Indices(log_file) : durable <= i

IInv == RecordTypes /\ PlaceInv /\ CountInv /\ KeptInv /\ DiskInv

-----------------------------------------------------------------------------
(* The records of a sequence that is empty, grows by one or by another.    *)
LEMMA NoIndices == Indices(<< >>) = {}
  BY DEF Indices

LEMMA IntervalGrows ==
    ASSUME NEW a \in Nat, NEW b \in Nat, a <= b, NEW n \in Nat, NEW i \in (b + 1)..n
    PROVE  i \in (a + 1)..n
  OBVIOUS

LEMMA IndicesAppended ==
    ASSUME NEW s \in Seq(Rec), NEW r \in Rec
    PROVE  Indices(Append(s, r)) = Indices(s) \cup {r.idx}
<1>1. DOMAIN Append(s, r) = DOMAIN s \cup {Len(s) + 1}
  OBVIOUS
<1>2. \A i \in DOMAIN s : Append(s, r)[i] = s[i]
  OBVIOUS
<1>3. Append(s, r)[Len(s) + 1] = r
  OBVIOUS
<1>4. QED
  BY <1>1, <1>2, <1>3 DEF Indices

LEMMA IndicesJoined ==
    ASSUME NEW s \in Seq(Rec), NEW t \in Seq(Rec)
    PROVE  Indices(s \o t) = Indices(s) \cup Indices(t)
<1> DEFINE u == s \o t
<1>1. /\ u \in Seq(Rec) /\ Len(u) = Len(s) + Len(t)
      /\ Len(s) \in Nat /\ Len(t) \in Nat
      /\ DOMAIN s = 1..Len(s) /\ DOMAIN t = 1..Len(t) /\ DOMAIN u = 1..Len(u)
  OBVIOUS
<1>2. \A i \in 1..Len(s) : u[i] = s[i]
  OBVIOUS
<1>3. \A i \in 1..Len(t) : u[Len(s) + i] = t[i]
  OBVIOUS
<1> HIDE DEF u
<1>4. \A i \in DOMAIN u : u[i].idx \in Indices(s) \cup Indices(t)
  <2> SUFFICES ASSUME NEW i \in DOMAIN u PROVE u[i].idx \in Indices(s) \cup Indices(t)
    OBVIOUS
  <2>1. CASE i \in 1..Len(s)
    BY <1>1, <1>2, <2>1 DEF Indices
  <2>2. CASE i \notin 1..Len(s)
    <3>1. i - Len(s) \in 1..Len(t) /\ i = Len(s) + (i - Len(s))
      BY <1>1, <2>2
    <3>2. u[i] = t[i - Len(s)]
      BY <1>3, <3>1
    <3>3. QED
      BY <1>1, <3>1, <3>2 DEF Indices
  <2>3. QED
    BY <2>1, <2>2
<1>5. \A i \in DOMAIN s : s[i].idx \in Indices(u)
  <2>1. \A i \in DOMAIN s : i \in DOMAIN u /\ u[i] = s[i]
    BY <1>1, <1>2
  <2>2. QED
    BY <2>1 DEF Indices
<1>6. \A i \in DOMAIN t : t[i].idx \in Indices(u)
  <2>1. \A i \in DOMAIN t : Len(s) + i \in DOMAIN u /\ u[Len(s) + i] = t[i]
    BY <1>1, <1>3
  <2>2. QED
    BY <2>1 DEF Indices
<1>7. QED
  <2>1. Indices(u) \subseteq Indices(s) \cup Indices(t)
    BY <1>4 DEF Indices
  <2>2. Indices(s) \subseteq Indices(u) /\ Indices(t) \subseteq Indices(u)
    BY <1>5, <1>6 DEF Indices
  <2>3. QED
    BY <2>1, <2>2 DEF u

(* LastOf is the greatest of a set of numbers with an upper bound.         *)
LEMMA LastIsGreatest ==
    ASSUME NEW S, NEW n \in Nat, NEW b \in Nat, S \subseteq 0..b, n <= b
    PROVE  /\ LastOf(S, n) \in S \cup {n} /\ LastOf(S, n) \in 0..b
           /\ n <= LastOf(S, n) /\ \A x \in S : x <= LastOf(S, n)
<1> DEFINE U == S \cup {n}
           T == {b - x : x \in U}
           Less == {p \in Nat \X Nat : p[1] < p[2]}
<1>1. IsWellFoundedOn(Less, Nat)
  BY NatLessThanWellFounded DEF OpToRel
<1>2. T \subseteq Nat /\ T # {}
  <2>1. \A x \in U : b - x \in Nat
    OBVIOUS
  <2>2. QED
    BY <2>1
<1>3. PICK t \in T : \A u \in T : ~(<<u, t>> \in Less)
  <2> HIDE DEF Less, T
  <2> QED BY <1>1, <1>2, WFMin
<1>4. \A u \in T : t <= u
  <2> SUFFICES ASSUME NEW u \in T PROVE t <= u
    OBVIOUS
  <2>1. u \in Nat /\ t \in Nat
    BY <1>2
  <2>2. ~(u < t)
    BY <1>3, <2>1
  <2>3. QED
    BY <2>1, <2>2
<1>5. PICK x \in U : t = b - x
  OBVIOUS
<1>6. \A y \in U : y <= x
  <2> SUFFICES ASSUME NEW y \in U PROVE y <= x
    OBVIOUS
  <2>1. b - x <= b - y
    BY <1>4, <1>5
  <2>2. x \in 0..b /\ y \in 0..b
    OBVIOUS
  <2>3. QED
    BY <2>1, <2>2
<1>7. LastOf(S, n) \in U /\ \A y \in U : y <= LastOf(S, n)
  BY <1>6 DEF LastOf
<1>8. U \subseteq 0..b /\ S \subseteq U /\ n \in U
  <2>1. n \in 0..b
    OBVIOUS
  <2>2. QED
    BY <2>1
<1>9. QED
  BY <1>7, <1>8

-----------------------------------------------------------------------------
(* The end of the process cuts hist back to Found, which is in the files,  *)
(* and what was logged before it is there too: the records kept in memory  *)
(* are all newer.                                                          *)
LEMMA FoundIsLogged ==
    ASSUME IInv
    PROVE  /\ Found \in 0..Len(hist) /\ saved <= Found
           /\ Indices(log_file) \subseteq 1..Found
           /\ Found = saved \/ Found \in Indices(log_file)
<1> USE DEF IInv, RecordTypes, PlaceInv, CountInv
<1>1. Len(hist) \in Nat /\ saved \in Nat /\ saved <= Len(hist)
  OBVIOUS
<1>2. Indices(log_file) \subseteq 0..Len(hist)
  OBVIOUS
<1>3. /\ Found \in Indices(log_file) \cup {saved} /\ Found \in 0..Len(hist)
      /\ saved <= Found /\ \A x \in Indices(log_file) : x <= Found
  BY <1>1, <1>2, LastIsGreatest DEF Found
<1>4. QED
  BY <1>3

LEMMA DiesKeeps ==
    ASSUME IInv, Dies, UNCHANGED <<log_file, saved, durable>>
    PROVE  IInv'
<1> DEFINE F == Found
<1>1. /\ F \in 0..Len(hist) /\ saved <= F /\ Indices(log_file) \subseteq 1..F
      /\ F = saved \/ F \in Indices(log_file)
  BY FoundIsLogged
<1> HIDE DEF F
<1>2. /\ log_queue' = << >> /\ fbuf' = << >> /\ log_file' = log_file /\ log_sequences' = 0
      /\ hist' = SubSeq(hist, 1, F) /\ executed' = F /\ csaved' = saved /\ saved' = saved
      /\ durable' = durable /\ fpc' = "idle" /\ cpc' = "idle"
      /\ spoiled' = IF Settled THEN spoiled ELSE spoiled \cup {"torn"}
  BY DEF Dies, F
<1>3. hist' \in Seq(Command) /\ Len(hist') = F
  BY <1>1, <1>2 DEF IInv, RecordTypes
<1>4. RecordTypes'
  BY <1>1, <1>2, <1>3 DEF IInv, RecordTypes
<1>5. PlaceInv'
  <2>1. Indices(log_queue') = {} /\ Indices(fbuf') = {} /\ Indices(log_file') = Indices(log_file)
    BY <1>2, NoIndices
  <2>2. QED
    BY <1>1, <1>2, <1>3, <2>1 DEF PlaceInv, Below, Indices
<1>6. CountInv'
  BY <1>1, <1>2, <1>3 DEF CountInv, IInv, RecordTypes
<1>7. spoiled' = {} => spoiled = {} /\ Covered = saved
  BY <1>2 DEF Settled, Covered
<1>8. Covered' = saved
  BY <1>2 DEF Covered
<1>9. KeptInv'
  <2> SUFFICES ASSUME spoiled' = {}, NEW i \in (saved + 1)..F
               PROVE  i \in Indices(log_file)
    BY <1>2, <1>3, <1>8 DEF KeptInv, Indices
  <2>1. F \in Indices(log_file) /\ i \in Nat /\ i <= F
    BY <1>1 DEF IInv, RecordTypes
  <2>2. i \in (saved + 1)..Len(hist)
    BY <1>1 DEF IInv, RecordTypes
  <2>3. i \in Indices(log_file) \cup Indices(fbuf) \cup Indices(log_queue)
    BY <1>7, <2>2 DEF IInv, KeptInv
  <2>4. ~(F < i)
    BY <2>1, <1>1
  <2>5. i \notin Indices(fbuf) /\ i \notin Indices(log_queue)
    BY <2>1, <2>4 DEF IInv, PlaceInv, Below
  <2>6. QED
    BY <2>3, <2>5
<1>10. DiskInv'
  BY <1>2, <1>7, <1>8 DEF IInv, DiskInv, Indices
<1>11. QED
  BY <1>4, <1>5, <1>6, <1>9, <1>10 DEF IInv

(* A step that moves no record and forgets nothing.                        *)
LEMMA QuietStep ==
    ASSUME IInv,
           UNCHANGED <<log_queue, log_file, fbuf, hist, saved, csaved, durable>>,
           log_sequences' \in Nat, spoiled \subseteq spoiled',
           executed' \in {executed, Len(hist)},
           fpc' \in {"idle", "flush", "write"}, fpc' = "write" <=> fpc = "write",
           \/ cpc' = cpc
           \/ cpc = "idle" /\ cpc' = "truncate"
           \/ cpc = "deactivate" /\ cpc' = "drop"
           \/ cpc = "drop" /\ cpc' = "idle"
    PROVE  IInv'
<1>1. RecordTypes' /\ CountInv'
  BY DEF IInv, RecordTypes, CountInv
<1>2. PlaceInv'
  BY DEF IInv, PlaceInv, Below, Indices
<1>3. Covered' \in Nat /\ Covered \in Nat /\ Covered <= Covered'
  BY DEF Covered, IInv, RecordTypes, CountInv
<1>c. PICK c \in Nat : c = Covered' /\ Covered <= c
  BY <1>3
<1>4. spoiled' = {} => spoiled = {}
  OBVIOUS
<1>5. /\ Indices(log_file)' = Indices(log_file) /\ Indices(fbuf)' = Indices(fbuf)
      /\ Indices(log_queue)' = Indices(log_queue)
  BY DEF Indices
<1>6. KeptInv'
  <2> SUFFICES ASSUME spoiled' = {}, NEW i \in (c + 1)..Len(hist)
               PROVE  i \in Indices(log_file) \cup Indices(fbuf) \cup Indices(log_queue)
    BY <1>5, <1>c DEF KeptInv
  <2>1. i \in (Covered + 1)..Len(hist)
    <3>1. Len(hist) \in Nat
      BY DEF IInv, RecordTypes
    <3>2. QED
      BY <1>3, <1>c, <3>1, IntervalGrows
  <2>2. QED
    BY <1>4, <2>1 DEF IInv, KeptInv
<1>7. DiskInv'
  <2> SUFFICES ASSUME spoiled' = {}
               PROVE  durable <= Covered' \/ \E i \in Indices(log_file) : durable <= i
    BY <1>5 DEF DiskInv
  <2>1. durable <= Covered \/ \E i \in Indices(log_file) : durable <= i
    BY <1>4 DEF IInv, DiskInv
  <2>2. QED
    BY <1>3, <2>1 DEF IInv, RecordTypes
<1>8. QED
  BY <1>1, <1>2, <1>6, <1>7 DEF IInv

(* What only changes the tablet, the replies or the places of threads.     *)
LEMMA OtherSteps ==
    ASSUME IInv,
           \/ \E c \in Command : Accept(c)
           \/ Get \/ LoadBegins \/ Load \/ Execute \/ FlushRound \/ BeginCheckpoint
           \/ Deactivate \/ Drop \/ SendQueued \/ Crash \/ Restart
    PROVE  IInv'
<1>t. /\ log_sequences \in Nat /\ Len(log_file) \in Nat /\ Len(hist) \in Nat
      /\ fpc \in {"idle", "flush", "write"}
  BY DEF IInv, RecordTypes
<1>1. CASE Crash \/ ((Load \/ Execute) /\ Dies)
  <2>1. Dies /\ UNCHANGED <<log_file, saved, durable>>
    BY <1>1 DEF Crash, Load, Execute, dvars
  <2>2. QED
    BY <2>1, DiesKeeps
<1>2. CASE (\E c \in Command : Accept(c)) \/ Get \/ LoadBegins \/ SendQueued
  <2>1. /\ UNCHANGED <<log_queue, log_file, fbuf, hist, saved, csaved, durable, log_sequences,
                       spoiled, executed, fpc, cpc>>
    BY <1>2 DEF Accept, Get, LoadBegins, SendQueued, mvars, dvars, cvars, rvars, hvars
  <2>2. QED
    BY <1>t, <2>1, QuietStep
<1>3. CASE Load /\ ~Dies
  <2>1. /\ UNCHANGED <<log_queue, log_file, fbuf, hist, saved, csaved, durable, executed, fpc, cpc>>
        /\ log_sequences' = log_sequences + Len(log_file) /\ spoiled \subseteq spoiled'
    BY <1>3 DEF Load
  <2>2. QED
    BY <1>t, <2>1, QuietStep
<1>4. CASE Execute /\ ~Dies
  <2>1. /\ UNCHANGED <<log_queue, log_file, fbuf, hist, saved, csaved, durable, log_sequences,
                       fpc, cpc>>
        /\ executed' = Len(hist) /\ spoiled \subseteq spoiled'
    BY <1>4 DEF Execute, dvars, cvars
  <2>2. QED
    BY <1>t, <2>1, QuietStep
<1>5. CASE FlushRound
  <2>1. /\ UNCHANGED <<log_queue, log_file, fbuf, hist, saved, csaved, durable, log_sequences,
                       spoiled, executed, cpc>>
        /\ fpc = "idle" /\ fpc' = "flush"
    BY <1>5 DEF FlushRound, LogThreadFree, mvars, dvars, cvars, hvars
  <2>2. QED
    BY <1>t, <2>1, QuietStep
<1>6. CASE BeginCheckpoint \/ Deactivate \/ Drop
  <2>1. /\ UNCHANGED <<log_queue, log_file, fbuf, hist, saved, csaved, durable, log_sequences,
                       executed, fpc>>
        /\ spoiled \subseteq spoiled'
        /\ \/ cpc = "idle" /\ cpc' = "truncate"
           \/ cpc = "deactivate" /\ cpc' = "drop"
           \/ cpc = "drop" /\ cpc' = "idle"
    BY <1>6 DEF BeginCheckpoint, Deactivate, Drop, mvars, dvars
  <2>2. QED
    BY <1>t, <2>1, QuietStep
<1>7. CASE Restart
  <2>1. /\ UNCHANGED <<log_queue, log_file, fbuf, hist, saved, csaved, durable, spoiled, executed,
                       fpc, cpc>>
        /\ log_sequences' \in {log_sequences, Len(log_file)}
    BY <1>7 DEF Restart, Counted, hvars
  <2>2. QED
    BY <1>t, <2>1, QuietStep
<1>8. QED
  BY <1>1, <1>2, <1>3, <1>4, <1>5, <1>6, <1>7

-----------------------------------------------------------------------------
(* The steps that move records.  log_message: the new record is the newest *)
(* of all.                                                                 *)
LEMMA LogStep ==
    ASSUME IInv, NEW c \in Command, Log(c)
    PROVE  IInv'
<1> DEFINE r == [num |-> log_sequences + 1, idx |-> Len(hist) + 1]
<1>1. /\ log_queue \in Seq(Rec) /\ hist \in Seq(Command) /\ log_sequences \in Nat
      /\ Len(hist) \in Nat
  BY DEF IInv, RecordTypes
<1>2. r \in Rec /\ r.idx = Len(hist) + 1
  BY <1>1 DEF Rec
<1> HIDE DEF r
<1>3. /\ log_queue' = Append(log_queue, r) /\ hist' = Append(hist, c)
      /\ log_sequences' = log_sequences + 1
      /\ UNCHANGED <<log_file, fbuf, saved, csaved, durable, spoiled, executed, fpc, cpc>>
  BY DEF Log, Queued, r, dvars, cvars
<1>4. hist' \in Seq(Command) /\ Len(hist') = Len(hist) + 1
  BY <1>1, <1>3
<1>5. log_queue' \in Seq(Rec) /\ Indices(log_queue') = Indices(log_queue) \cup {Len(hist) + 1}
  BY <1>1, <1>2, <1>3, IndicesAppended
<1>6. Indices(log_file') = Indices(log_file) /\ Indices(fbuf') = Indices(fbuf)
  BY <1>3
<1>7. RecordTypes' /\ CountInv'
  BY <1>1, <1>3, <1>4, <1>5 DEF IInv, RecordTypes, CountInv
<1>8. PlaceInv'
  <2>1. \A s : Indices(s) \subseteq 1..Len(hist) =>
          /\ Indices(s) \subseteq 1..(Len(hist) + 1)
          /\ \A i \in Indices(s) : i < Len(hist) + 1
    BY <1>1
  <2>2. QED
    BY <1>1, <1>3, <1>4, <1>5, <1>6, <2>1 DEF IInv, PlaceInv, Below
<1>9. Covered' = Covered
  BY <1>3 DEF Covered
<1>10. Covered \in Nat
  BY DEF Covered, IInv, RecordTypes
<1>11. KeptInv'
  <2> SUFFICES ASSUME spoiled = {}, NEW i \in (Covered + 1)..(Len(hist) + 1)
               PROVE  i \in Indices(log_file) \cup Indices(fbuf) \cup Indices(log_queue)
                              \cup {Len(hist) + 1}
    BY <1>3, <1>4, <1>5, <1>6, <1>9 DEF KeptInv
  <2>1. i = Len(hist) + 1 \/ i \in (Covered + 1)..Len(hist)
    BY <1>1, <1>10
  <2>2. QED
    BY <2>1 DEF IInv, KeptInv
<1>12. DiskInv'
  BY <1>3, <1>6, <1>9 DEF IInv, DiskInv
<1>13. QED
  BY <1>7, <1>8, <1>11, <1>12 DEF IInv

(* flush_log: the queue becomes the stream, the stream the end of the log. *)
LEMMA FlushStep ==
    ASSUME IInv, FlushPop \/ FlushWrite
    PROVE  IInv'
<1>1. CASE FlushPop
  <2>1. /\ fbuf' = log_queue /\ log_queue' = << >> /\ fpc' = "write" /\ fbuf = << >>
        /\ UNCHANGED <<log_file, hist, log_sequences, saved, csaved, durable, spoiled, executed,
                       cpc>>
    BY <1>1 DEF FlushPop, dvars, cvars, hvars, IInv, PlaceInv
  <2>2. /\ Indices(log_queue') = {} /\ Indices(fbuf') = Indices(log_queue) /\ Indices(fbuf) = {}
        /\ Indices(log_file') = Indices(log_file)
    BY <2>1, NoIndices
  <2>3. RecordTypes' /\ CountInv'
    BY <2>1 DEF IInv, RecordTypes, CountInv
  <2>4. PlaceInv'
    BY <2>1, <2>2 DEF IInv, PlaceInv, Below
  <2>5. Covered' = Covered
    BY <2>1 DEF Covered
  <2>6. KeptInv' /\ DiskInv'
    BY <2>1, <2>2, <2>5 DEF IInv, KeptInv, DiskInv
  <2>7. QED
    BY <2>3, <2>4, <2>6 DEF IInv
<1>2. CASE FlushWrite
  <2>1. /\ log_file' = log_file \o fbuf /\ fbuf' = << >> /\ fpc' = "idle"
        /\ durable' = LastOf(Indices(fbuf), durable)
        /\ UNCHANGED <<log_queue, hist, log_sequences, saved, csaved, spoiled, executed, cpc>>
    BY <1>2 DEF FlushWrite, mvars, cvars
  <2>2. /\ log_file \in Seq(Rec) /\ fbuf \in Seq(Rec) /\ hist \in Seq(Command)
        /\ Len(hist) \in Nat /\ durable \in Nat
    BY DEF IInv, RecordTypes
  <2>3. log_file' \in Seq(Rec) /\ Indices(log_file') = Indices(log_file) \cup Indices(fbuf)
    BY <2>1, <2>2, IndicesJoined
  <2>4. Indices(fbuf') = {} /\ Indices(log_queue') = Indices(log_queue)
    BY <2>1, NoIndices
  <2>5. /\ durable' \in Nat /\ durable' \in Indices(fbuf) \cup {durable}
    <3>1. PICK b \in Nat : Len(hist) <= b /\ durable <= b
      <4>1. CASE Len(hist) <= durable
        BY <2>2, <4>1
      <4>2. CASE durable <= Len(hist)
        BY <2>2, <4>2
      <4>3. QED
        BY <2>2, <4>1, <4>2
    <3>2. Indices(fbuf) \subseteq 0..b
      BY <2>2, <3>1 DEF IInv, PlaceInv
    <3>3. QED
      BY <2>1, <2>2, <3>1, <3>2, LastIsGreatest
  <2>6. RecordTypes' /\ CountInv'
    BY <2>1, <2>3, <2>5 DEF IInv, RecordTypes, CountInv
  <2>7. PlaceInv'
    BY <2>1, <2>3, <2>4 DEF IInv, PlaceInv, Below
  <2>8. Covered' = Covered
    BY <2>1 DEF Covered
  <2>9. KeptInv'
    BY <2>1, <2>3, <2>4, <2>8 DEF IInv, KeptInv
  <2>10. DiskInv'
    <3> SUFFICES ASSUME spoiled = {}
                 PROVE  durable' <= Covered \/ \E i \in Indices(log_file') : durable' <= i
      BY <2>1, <2>8 DEF DiskInv
    <3>1. CASE durable' \in Indices(fbuf)
      BY <2>3, <2>5, <3>1
    <3>2. CASE durable' = durable
      BY <2>3, <3>2 DEF IInv, DiskInv
    <3>3. QED
      BY <2>5, <3>1, <3>2
  <2>11. QED
    BY <2>6, <2>7, <2>9, <2>10 DEF IInv
<1>3. QED
  BY <1>1, <1>2

(* create_new_checkpoint, up to the copy of the table.                     *)
LEMMA CopyStep ==
    ASSUME IInv, TruncateTable \/ CopyTable
    PROVE  IInv'
<1>1. /\ saved' \in Nat /\ csaved' \in Nat /\ saved' <= executed /\ csaved' <= executed
      /\ cpc' \in {"copy", "clearlog"} /\ spoiled \subseteq spoiled'
      /\ UNCHANGED <<log_file, log_queue, fbuf, hist, log_sequences, durable, executed, fpc>>
  BY DEF TruncateTable, CopyTable, mvars, IInv, RecordTypes, CountInv
<1>2. RecordTypes' /\ CountInv'
  BY <1>1 DEF IInv, RecordTypes, CountInv
<1>3. PlaceInv'
  BY <1>1 DEF IInv, PlaceInv, Below, Indices
<1>4. Covered' = executed /\ Covered <= executed /\ Covered \in Nat /\ executed \in Nat
  BY DEF TruncateTable, CopyTable, Covered, IInv, RecordTypes, CountInv
<1>5. spoiled' = {} => spoiled = {}
  BY <1>1
<1>6. KeptInv'
  <2> SUFFICES ASSUME spoiled' = {}, NEW i \in (executed + 1)..Len(hist)
               PROVE  i \in Indices(log_file) \cup Indices(fbuf) \cup Indices(log_queue)
    BY <1>1, <1>4 DEF KeptInv, Indices
  <2>1. Len(hist) \in Nat
    BY DEF IInv, RecordTypes
  <2>2. i \in (Covered + 1)..Len(hist)
    BY <1>4, <2>1, IntervalGrows
  <2>3. QED
    BY <1>5, <2>2 DEF IInv, KeptInv
<1>7. DiskInv'
  <2> SUFFICES ASSUME spoiled' = {}
               PROVE  durable <= executed \/ \E i \in Indices(log_file) : durable <= i
    BY <1>1, <1>4 DEF DiskInv, Indices
  <2>1. durable \in Nat
    BY DEF IInv, RecordTypes
  <2>2. durable <= Covered \/ \E i \in Indices(log_file) : durable <= i
    BY <1>5 DEF IInv, DiskInv
  <2>3. QED
    BY <1>4, <2>1, <2>2
<1>8. QED
  BY <1>2, <1>3, <1>6, <1>7 DEF IInv

(* The log is cleared: a record it loses outside the window is covered.    *)
LEMMA ClearStep ==
    ASSUME IInv, ClearLog \/ WriteNumber
    PROVE  IInv'
<1>1. /\ log_file' = << >> /\ cpc' \in {"number", "finish"} /\ log_sequences' \in Nat
      /\ spoiled' = Raced /\ cpc \in {"clearlog", "number"}
      /\ UNCHANGED <<log_queue, fbuf, hist, saved, csaved, durable, executed, fpc>>
  BY DEF ClearLog, WriteNumber, mvars, IInv, RecordTypes
<1>2. Indices(log_file') = {} /\ Indices(fbuf') = Indices(fbuf)
      /\ Indices(log_queue') = Indices(log_queue)
  BY <1>1, NoIndices
<1>3. RecordTypes' /\ CountInv'
  BY <1>1 DEF IInv, RecordTypes, CountInv
<1>4. PlaceInv'
  BY <1>1, <1>2 DEF IInv, PlaceInv, Below
<1>5. Covered = csaved /\ Covered' = csaved
  BY <1>1 DEF Covered
<1>6. spoiled' = {} => spoiled = {} /\ \A i \in Indices(log_file) : ~(i > csaved)
  BY <1>1 DEF Raced
<1>7. Len(hist) \in Nat /\ csaved \in Nat /\ durable \in Nat
  BY DEF IInv, RecordTypes
<1>8. KeptInv'
  <2> SUFFICES ASSUME spoiled' = {}, NEW i \in (csaved + 1)..Len(hist)
               PROVE  i \in Indices(fbuf) \cup Indices(log_queue)
    BY <1>1, <1>2, <1>5 DEF KeptInv
  <2>1. i > csaved
    BY <1>7
  <2>2. QED
    BY <1>5, <1>6, <2>1 DEF IInv, KeptInv
<1>9. DiskInv'
  <2> SUFFICES ASSUME spoiled' = {} PROVE durable <= csaved
    BY <1>1, <1>5 DEF DiskInv
  <2>1. durable <= csaved \/ \E i \in Indices(log_file) : durable <= i
    BY <1>5, <1>6 DEF IInv, DiskInv
  <2>2. \A i \in Indices(log_file) : i \in Nat /\ i <= csaved
    <3>1. \A i \in Indices(log_file) : i \in Nat
      BY <1>7 DEF IInv, PlaceInv
    <3>2. QED
      BY <1>6, <1>7, <3>1
  <2>3. QED
    BY <1>7, <2>1, <2>2
<1>10. QED
  BY <1>3, <1>4, <1>8, <1>9 DEF IInv

LEMMA FinishStep ==
    ASSUME IInv, FinishCheckpoint
    PROVE  IInv'
<1>1. /\ saved' = csaved /\ cpc = "finish" /\ cpc' \in {"deactivate", "idle"}
      /\ durable' = LastOf({csaved}, durable)
      /\ UNCHANGED <<log_file, log_queue, fbuf, hist, log_sequences, csaved, executed, fpc, spoiled>>
  BY DEF FinishCheckpoint, BufferWritten, mvars
<1>2. csaved \in Nat /\ durable \in Nat
  BY DEF IInv, RecordTypes
<1>3. durable' \in Nat /\ durable' \in {csaved, durable}
  <2>1. csaved + durable \in Nat /\ {csaved} \subseteq 0..(csaved + durable)
        /\ durable <= csaved + durable
    BY <1>2
  <2>2. QED
    BY <1>1, <1>2, <2>1, LastIsGreatest
<1>4. RecordTypes' /\ CountInv'
  BY <1>1, <1>3 DEF IInv, RecordTypes, CountInv
<1>5. PlaceInv'
  BY <1>1 DEF IInv, PlaceInv, Below, Indices
<1>6. Covered = csaved /\ Covered' = csaved
  BY <1>1 DEF Covered
<1>7. KeptInv'
  BY <1>1, <1>6 DEF IInv, KeptInv, Indices
<1>8. DiskInv'
  BY <1>1, <1>2, <1>3, <1>6 DEF IInv, DiskInv, Indices
<1>9. QED
  BY <1>4, <1>5, <1>7, <1>8 DEF IInv

-----------------------------------------------------------------------------
LEMMA RecordsInvariant == Spec => []IInv
<1>1. Init => IInv
  <2> SUFFICES ASSUME Init PROVE IInv
    OBVIOUS
  <2>1. RecordTypes /\ CountInv
    BY DEF Init, RecordTypes, CountInv
  <2>2. /\ Indices(log_file) = {} /\ Indices(fbuf) = {} /\ Indices(log_queue) = {}
        /\ fbuf = << >> /\ Len(hist) = 0 /\ Covered = 0 /\ durable = 0
    BY NoIndices DEF Init, Covered
  <2>3. PlaceInv
    BY <2>2 DEF PlaceInv, Below
  <2>4. KeptInv /\ DiskInv
    BY <2>2 DEF KeptInv, DiskInv
  <2>5. QED
    BY <2>1, <2>3, <2>4 DEF IInv
<1>2. IInv /\ [Next]_vars => IInv'
  <2> SUFFICES ASSUME IInv, [Next]_vars PROVE IInv'
    OBVIOUS
  <2>1. CASE UNCHANGED vars
    <3>1. UNCHANGED <<log_queue, log_file, fbuf, hist, saved, csaved, durable, log_sequences,
                      spoiled, executed, fpc, cpc>>
      BY <2>1 DEF vars, mvars, dvars, cvars, hvars
    <3>2. log_sequences \in Nat /\ fpc \in {"idle", "flush", "write"}
      BY DEF IInv, RecordTypes
    <3>3. QED
      BY <3>1, <3>2, QuietStep
  <2>2. CASE Next
    BY <2>2, OtherSteps, LogStep, FlushStep, CopyStep, ClearStep, FinishStep DEF Next
  <2>3. QED
    BY <2>1, <2>2
<1>3. QED
  BY <1>1, <1>2, PTL DEF Spec

(* A logged command is in the log file, in the stream of the flush, in the *)
(* log queue or in the checkpoint, whatever the log thread, the            *)
(* checkpoints and the crashes do, and however often.                      *)
THEOREM RecordIsSomewhere == Spec => []NothingForgotten
<1>1. IInv => NothingForgotten
  BY DEF IInv, KeptInv, NothingForgotten
<1>2. QED
  BY <1>1, RecordsInvariant, PTL

(* What was flushed to a log file or saved by a finished checkpoint is     *)
(* found by every later restart.                                           *)
THEOREM DiskKeeps == Spec => []FlushedIsFound
<1>1. IInv => FlushedIsFound
  <2> SUFFICES ASSUME IInv, spoiled = {}, Settled PROVE durable <= Found
    BY DEF FlushedIsFound
  <2>1. Covered = saved
    BY DEF Settled, Covered
  <2>2. durable <= saved \/ \E i \in Indices(log_file) : durable <= i
    BY <2>1 DEF IInv, DiskInv
  <2>3. Found \in Nat /\ saved \in Nat /\ durable \in Nat /\ saved <= Found
        /\ Indices(log_file) \subseteq 1..Found
    BY FoundIsLogged DEF IInv, RecordTypes
  <2>4. QED
    BY <2>2, <2>3
<1>2. QED
  BY <1>1, RecordsInvariant, PTL

=============================================================================

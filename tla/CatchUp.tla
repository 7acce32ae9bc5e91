------------------------------ MODULE CatchUp ------------------------------
(***************************************************************************)
(* A storage server that joins its primary, after a start or a crash, and  *)
(* is brought up to date (backend/src/threads.cpp, start_func, messages 3, *)
(* 4, 5, 7 and 8; recovery_func; create_log_string and parse_log_string in *)
(* backend/src/utils.cpp), while the primary goes on with transactions.    *)
(*                                                                         *)
(* The replica asks for the log file and then for the transaction numbers; *)
(* from the accept on it also gets every PREPARE and decision.  The log is *)
(* replayed by a thread of its own.  Log records are told apart by their   *)
(* number in the log, transactions by their sequence number, and the two   *)
(* countings have to fit.                                                  *)
(*                                                                         *)
(* One of the five tablets is modelled.  The primary runs one transaction  *)
(* at a time, and all of them write to this tablet; a table is given by    *)
(* the transactions applied to it, in order.  Other replicas vote YES.     *)
(***************************************************************************)
EXTENDS Integers, Sequences, FiniteSets, SequencesExt

CONSTANTS
    MaxSeq,          \* bound: transactions
    MaxCheckpoints,  \* bound: checkpoints of each server
    MaxCrashes       \* bound: crashes of the replica

ASSUME CatchUpAssumption == MaxSeq \in Nat /\ MaxCheckpoints \in Nat /\ MaxCrashes \in Nat

TSeq == 1..MaxSeq

VARIABLES
    \* the primary
    tpc_seq, last_seq,     \* numbers handed out, and applied
    stage,                 \* place of the one transaction in progress
    outcome,               \* its decision, and those of earlier ones
    vote,                  \* vote of the replica on it
    member,                \* is the replica in partition_fds?
    log, queue, num, ck,   \* log file, log_queue, log_sequences, checkpoints
    checkpointing,         \* is a checkpoint under way?
    answer,                \* the log file, read for the replica and not yet sent
    \* the connection
    to_p, to_r,
    \* the replica
    rup,                   \* is the process running?
    rseq, rlast,           \* tpc_seq, last_seq
    rtpc,                  \* tpc_queue: status of each transaction
    rmarked,               \* queued_transactions
    rtlog,                 \* the file tpc_log: largest number, largest decided one
    rtable,                \* the tablet in memory
    rlog, rqueue, rnum, rck, \* log file, log_queue, log_sequences, checkpoints
    rsaved,                \* the checkpoint file
    rec,                   \* recovery_func
    \* history and bounds
    spoiled, crashes

pvars == <<tpc_seq, last_seq, stage, outcome, vote, member>>
lvars == <<log, queue, num, ck, checkpointing, answer>>
tvars == <<rseq, rlast, rtpc, rmarked, rtlog>>
dvars == <<rlog, rqueue, rnum, rck, rsaved>>
vars  == <<pvars, lvars, to_p, to_r, rup, tvars, rtable, dvars, rec, spoiled, crashes>>

Record  == [num : Nat, seq : TSeq]
LogFile == [ck : Nat, recs : Seq(Record)]
NoFile  == [ck |-> 0, recs |-> <<>>]
NoRec   == [place |-> "none", file |-> NoFile, top |-> 0, same |-> TRUE, older |-> FALSE]

Window == {"between", "missed", "early", "overtaken", "behind", "renumbered", "amid", "own"}

TypeOK ==
    /\ tpc_seq \in 0..MaxSeq /\ last_seq \in 0..tpc_seq
    /\ stage \in {"idle", "voting", "decided", "sent"} /\ (stage = "idle" <=> last_seq = tpc_seq)
    /\ outcome \in [TSeq -> {"none", "COMMIT", "ABORT"}] /\ vote \in {"none", "YES", "NO"}
    /\ member \in BOOLEAN
    /\ log \in Seq(Record) /\ queue \in Seq(Record) /\ num \in Nat
    /\ ck \in Nat \ {0} /\ checkpointing \in BOOLEAN /\ answer \in Seq(LogFile) /\ Len(answer) <= 1
    /\ rup \in BOOLEAN /\ rseq \in 0..tpc_seq /\ rlast \in 0..rseq
    /\ rtpc \in [TSeq -> {"none", "PREPARE", "COMMIT", "ABORT"}] /\ rmarked \subseteq TSeq
    /\ rtlog \in [seq : 0..MaxSeq, last : 0..MaxSeq]
    /\ rtable \in Seq(TSeq) /\ rsaved \in Seq(TSeq)
    /\ rlog \in Seq(Record) /\ rqueue \in Seq(Record) /\ rnum \in Nat /\ rck \in Nat
    /\ "own" \notin spoiled => rck <= ck
    /\ rec \in [place : {"none", "created", "replay"}, file : LogFile, top : Nat,
                same : BOOLEAN, older : BOOLEAN]
    /\ spoiled \subseteq Window /\ crashes \in Nat

Init ==
    /\ tpc_seq = 0 /\ last_seq = 0 /\ stage = "idle" /\ outcome = [n \in TSeq |-> "none"]
    /\ vote = "none" /\ member = FALSE
    /\ log = <<>> /\ queue = <<>> /\ num = 0 /\ ck = 1 /\ checkpointing = FALSE /\ answer = <<>>
    /\ to_p = <<>> /\ to_r = <<>>
    /\ rup = TRUE /\ rseq = 0 /\ rlast = 0 /\ rtpc = [n \in TSeq |-> "none"] /\ rmarked = {}
    /\ rtlog = [seq |-> 0, last |-> 0]
    /\ rtable = <<>> /\ rlog = <<>> /\ rqueue = <<>> /\ rnum = 0 /\ rck = 1 /\ rsaved = <<>>
    /\ rec = NoRec /\ spoiled = {} /\ crashes = 0

Larger(a, b) == IF a < b THEN b ELSE a

-----------------------------------------------------------------------------
(* The primary: start_tpc, the count of the votes (or the timeout), the    *)
(* message with the decision, and process_tpc_queue.                       *)
Told(m) == IF member THEN Append(to_r, m) ELSE to_r

Start ==
    /\ stage = "idle" /\ tpc_seq < MaxSeq
    /\ tpc_seq' = tpc_seq + 1 /\ stage' = "voting" /\ vote' = "none"
    /\ to_r' = Told([type |-> "PREPARE", seq |-> tpc_seq + 1])
    /\ UNCHANGED <<last_seq, outcome, member, lvars, to_p, rup, tvars, rtable, dvars, rec,
                   spoiled, crashes>>

Decide(d) ==
    /\ stage = "voting" /\ (d = "COMMIT" => (member => vote = "YES"))
    /\ stage' = "decided" /\ outcome' = [outcome EXCEPT ![tpc_seq] = d]
    /\ UNCHANGED <<tpc_seq, last_seq, vote, member, lvars, to_p, to_r, rup, tvars, rtable,
                   dvars, rec, spoiled, crashes>>

(* The replica has not been told the transaction numbers yet.              *)
Unnumbered == member /\ \E i \in DOMAIN to_p : to_p[i].type = "TSEQNUM"
Unlogged   == member /\ \E i \in DOMAIN to_p : to_p[i].type = "REQUEST"

Send ==
    /\ stage = "decided" /\ stage' = "sent"
    /\ to_r' = Told([type |-> outcome[tpc_seq], seq |-> tpc_seq])
    /\ UNCHANGED <<tpc_seq, last_seq, outcome, vote, member, lvars, to_p, rup, tvars, rtable,
                   dvars, rec, spoiled, crashes>>

Apply ==
    /\ stage = "sent" /\ stage' = "idle" /\ last_seq' = tpc_seq
    /\ IF outcome[tpc_seq] = "COMMIT"
         THEN /\ num' = num + 1 /\ queue' = Append(queue, [num |-> num + 1, seq |-> tpc_seq])
              /\ spoiled' = spoiled
                   \cup (IF Unnumbered /\ (answer # <<>> \/ ~Unlogged) THEN {"between"} ELSE {})
                   \cup (IF checkpointing THEN {"renumbered"} ELSE {})
         ELSE UNCHANGED <<num, queue, spoiled>>
    /\ UNCHANGED <<tpc_seq, outcome, vote, member, log, ck, checkpointing, answer, to_p, to_r,
                   rup, tvars, rtable, dvars, rec, crashes>>

(* The log thread: flush_log, unless a checkpoint is under way.            *)
Flush ==
    /\ ~checkpointing /\ queue # <<>> /\ log' = log \o queue /\ queue' = <<>>
    /\ UNCHANGED <<pvars, num, ck, checkpointing, answer, to_p, to_r, rup, tvars, rtable, dvars,
                   rec, spoiled, crashes>>

(* A checkpoint, when the log file is large or the tablet is cleared from  *)
(* memory: start_new_checkpoint forwards the message and counts, and the   *)
(* log file is emptied only when the table is written.                     *)
Checkpoint ==
    /\ ~checkpointing /\ ck <= MaxCheckpoints
    /\ to_r' = Told([type |-> "CHECKPOINT"])
    /\ ck' = ck + 1 /\ checkpointing' = TRUE
    /\ spoiled' = spoiled
         \cup (IF queue # <<>> \/ stage = "sent" THEN {"renumbered"} ELSE {})
         \cup (IF Unlogged THEN {"behind"} ELSE {})
    /\ UNCHANGED <<pvars, log, queue, num, answer, to_p, rup, tvars, rtable, dvars, rec, crashes>>

CheckpointEnds ==
    /\ checkpointing /\ checkpointing' = FALSE
    /\ log' = <<>> /\ num' = 0
    /\ UNCHANGED <<pvars, queue, ck, answer, to_p, to_r, rup, tvars, rtable, dvars, rec,
                   spoiled, crashes>>

-----------------------------------------------------------------------------
(* The replica connects, the primary accepts.                              *)
Join ==
    /\ rup /\ ~member /\ to_p = <<>>
    /\ member' = TRUE
    /\ to_p' = <<[type |-> "REQUEST"], [type |-> "TSEQNUM"]>> /\ to_r' = <<>>
    /\ UNCHANGED <<tpc_seq, last_seq, stage, outcome, vote, lvars, rup, tvars, rtable, dvars,
                   rec, spoiled, crashes>>

(* The thread of the primary that serves the replica: create_log_string    *)
(* and its writing, the transaction numbers, a vote.                       *)
Asks(type)  == rup /\ member /\ to_p # <<>> /\ to_p[1].type = type
Hears(type) == Asks(type) /\ to_p' = Tail(to_p)

(* The queue is flushed and the file read.  In a checkpoint the file still *)
(* names the count before, or has just been emptied.                       *)
FilesRead(recs) ==
    IF checkpointing THEN {[ck |-> ck - 1, recs |-> recs], NoFile} ELSE {[ck |-> ck, recs |-> recs]}

ReadFile ==
    /\ Asks("REQUEST") /\ answer = <<>>
    /\ log' = log \o queue /\ queue' = <<>>
    /\ \E f \in FilesRead(log \o queue) : answer' = <<f>>
    /\ spoiled' = IF checkpointing THEN spoiled \cup {"amid"} ELSE spoiled
    /\ UNCHANGED <<pvars, num, ck, checkpointing, to_p, to_r, rup, tvars, rtable, dvars, rec,
                   crashes>>

AnswerLog ==
    /\ Hears("REQUEST") /\ answer # <<>> /\ answer' = <<>>
    /\ to_r' = Append(to_r, [type |-> "LOGFILE", file |-> answer[1]])
    /\ UNCHANGED <<pvars, log, queue, num, ck, checkpointing, rup, tvars, rtable, dvars, rec,
                   spoiled, crashes>>

(* A transaction is in progress that the replica was not asked about, or   *)
(* whose decision it cannot place.                                         *)
Prepared == \E i \in DOMAIN to_r : to_r[i] = [type |-> "PREPARE", seq |-> tpc_seq]

AnswerSeq ==
    /\ Hears("TSEQNUM")
    /\ to_r' = Append(to_r, [type |-> "TSEQNUMRETURN", seq |-> tpc_seq, last |-> last_seq])
    /\ spoiled' = spoiled
         \cup (IF stage # "idle" /\ rtpc[tpc_seq] = "none" /\ ~Prepared THEN {"missed"} ELSE {})
         \cup (IF stage = "sent" THEN {"early"} ELSE {})
    /\ UNCHANGED <<pvars, lvars, rup, tvars, rtable, dvars, rec, crashes>>

ReadVote ==
    /\ Hears("VOTE")
    /\ vote' = IF to_p[1].seq = tpc_seq /\ stage = "voting" THEN to_p[1].vote ELSE vote
    /\ UNCHANGED <<tpc_seq, last_seq, stage, outcome, member, lvars, to_r, rup, tvars, rtable,
                   dvars, rec, spoiled, crashes>>

(* The end of the connection is noticed.                                   *)
Drop ==
    /\ ~rup /\ member /\ member' = FALSE /\ to_p' = <<>> /\ to_r' = <<>> /\ answer' = <<>>
    /\ UNCHANGED <<tpc_seq, last_seq, stage, outcome, vote, log, queue, num, ck, checkpointing,
                   rup, tvars, rtable, dvars, rec, spoiled, crashes>>

-----------------------------------------------------------------------------
(* The replica's thread for the primary.                                   *)
Reads(type) == rup /\ to_r # <<>> /\ to_r[1].type = type /\ to_r' = Tail(to_r)
Recovering  == rec.place = "replay"          \* is_recovering
Overtaking  == IF rec.place # "none" THEN {"overtaken"} ELSE {}

(* Message 7: recovery_func is started; it sets the flag itself.           *)
ReadLog ==
    /\ Reads("LOGFILE")
    /\ rec' = [NoRec EXCEPT !.place = "created", !.file = to_r[1].file]
    /\ UNCHANGED <<pvars, lvars, to_p, rup, tvars, rtable, dvars, spoiled, crashes>>

(* Message 4.                                                              *)
LastKept(last) == rlast                      \* seeded fault: only tpc_seq is taken
NextAfter(last) == Larger(rlast, last + 1)   \* seeded fault: the next number is taken

LastAfter(last) == Larger(rlast, last)

ReadSeq ==
    /\ Reads("TSEQNUMRETURN")
    /\ rseq' = Larger(rseq, to_r[1].seq) /\ rlast' = LastAfter(to_r[1].last)
    /\ UNCHANGED <<pvars, lvars, to_p, rup, rtpc, rmarked, rtlog, rtable, dvars, rec, spoiled,
                   crashes>>

(* handle_message, PREPARE.  A lock that is held makes the vote NO.        *)
ReadPrepare ==
    LET n == to_r[1].seq IN
    /\ Reads("PREPARE")
    /\ IF rlast >= n \/ rtpc[n] # "none"
         THEN UNCHANGED <<to_p, tvars>>
         ELSE /\ rtlog' = [rtlog EXCEPT !.seq = Larger(@, n)]
              /\ rseq' = Larger(rseq, n)
              /\ rtpc' = [rtpc EXCEPT ![n] = "PREPARE"]
              /\ \E v \in IF Recovering THEN {"NO"} ELSE {"YES", "NO"} :
                    to_p' = Append(to_p, [type |-> "VOTE", seq |-> n, vote |-> v])
              /\ UNCHANGED <<rlast, rmarked>>
    /\ UNCHANGED <<pvars, lvars, rup, rtable, dvars, rec, spoiled, crashes>>

(* handle_message, COMMIT and ABORT, and process_tpc_queue with the queue  *)
(* q: the next transaction is applied and the one after it erased.  With   *)
(* one transaction at a time the next is never met undecided here.         *)
ProcessQueue(q) ==
    LET n == rlast + 1 IN
    IF n \in TSeq /\ q[n] \in {"COMMIT", "ABORT"}
      THEN /\ rlast' = n
           /\ rtpc' = [m \in TSeq |-> IF m = n + 1 THEN "none" ELSE q[m]]
           /\ IF q[n] = "COMMIT"
                THEN /\ rnum' = rnum + 1
                     /\ rqueue' = Append(rqueue, [num |-> rnum + 1, seq |-> n])
                     /\ rtable' = Append(rtable, n)
                     /\ spoiled' = spoiled \cup Overtaking
                ELSE UNCHANGED <<rnum, rqueue, rtable, spoiled>>
      ELSE rtpc' = q /\ UNCHANGED <<rlast, rnum, rqueue, rtable, spoiled>>

ReadDecision(d) ==
    LET n == to_r[1].seq IN
    /\ Reads(d)
    /\ IF n <= rlast \/ rtpc[n] \in {"COMMIT", "ABORT"} \/ n \in rmarked
         THEN UNCHANGED <<tvars, rtable, rnum, rqueue, spoiled>>
         ELSE /\ rmarked' = rmarked \cup {n}
              /\ rtlog' = [seq |-> Larger(rtlog.seq, n), last |-> Larger(rtlog.last, n)]
              /\ ProcessQueue([rtpc EXCEPT ![n] = IF @ = "none" THEN @ ELSE d])
              /\ UNCHANGED rseq
    /\ UNCHANGED <<pvars, lvars, to_p, rup, rlog, rck, rsaved, rec, crashes>>

(* Message 8: create_new_checkpoint.                                       *)
ReadCheckpoint ==
    /\ Reads("CHECKPOINT")
    /\ rck' = rck + 1 /\ rsaved' = rtable /\ rlog' = <<>> /\ rnum' = 0
    /\ spoiled' = spoiled \cup Overtaking
                    \cup (IF rqueue # <<>> THEN {"renumbered"} ELSE {})
    /\ UNCHANGED <<pvars, lvars, to_p, rup, tvars, rtable, rqueue, rec, crashes>>

-----------------------------------------------------------------------------
(* The log thread.  parse_log_string holds filelocks.                      *)
ReplicaFlush ==
    /\ rup /\ rqueue # <<>> /\ ~Recovering
    /\ rlog' = rlog \o rqueue /\ rqueue' = <<>>
    /\ UNCHANGED <<pvars, lvars, to_p, to_r, rup, tvars, rtable, rnum, rck, rsaved, rec,
                   spoiled, crashes>>

(* The replica's own checkpoint: clear_tablet, when load_tablet makes room *)
(* for another tablet.  What is cleared is loaded again from the files,    *)
(* which rtable stands for.                                                *)
OwnCheckpoint ==
    /\ rup /\ rck <= MaxCheckpoints
    /\ rck' = rck + 1 /\ rsaved' = rtable /\ rlog' = <<>> /\ rnum' = 0
    /\ spoiled' = spoiled \cup {"own"}
    /\ UNCHANGED <<pvars, lvars, to_p, to_r, rup, tvars, rtable, rqueue, rec, crashes>>

(* recovery_func and parse_log_string.  A log of a newer checkpoint takes  *)
(* the place of the old one; what only the primary's checkpoint holds is   *)
(* not sent.  A log of an older one is only complained about.              *)
ReplayBegins ==
    LET f == rec.file IN
    /\ rup /\ rec.place = "created"
    /\ rec' = [rec EXCEPT !.place = "replay", !.same = (f.ck = rck), !.older = (f.ck < rck),
                          !.top = IF f.ck > rck THEN 0 ELSE rnum,
                          !.file = IF f.ck < rck THEN [f EXCEPT !.recs = <<>>] ELSE f]
    /\ rlog' = IF f.ck > rck THEN <<>> ELSE rlog
    /\ spoiled' = IF f.ck > rck THEN spoiled \cup {"behind"} ELSE spoiled
    /\ UNCHANGED <<pvars, lvars, to_p, to_r, rup, tvars, rtable, rqueue, rnum, rck, rsaved,
                   crashes>>

SkipsOneMore(x) == rec.same /\ x.num <= rnum + 1   \* seeded fault: off by one

Skips(x) == rec.same /\ x.num <= rnum

Replay ==
    /\ rup /\ Recovering /\ rec.file.recs # <<>>
    /\ LET x == Head(rec.file.recs) IN
         IF Skips(x)
           THEN /\ rec' = [rec EXCEPT !.file.recs = Tail(@)] /\ UNCHANGED <<rlog, rtable>>
           ELSE /\ rlog' = Append(rlog, x) /\ rtable' = Append(rtable, x.seq)
                /\ rec' = [rec EXCEPT !.file.recs = Tail(@), !.top = Larger(@, x.num)]
    /\ UNCHANGED <<pvars, lvars, to_p, to_r, rup, tvars, rqueue, rnum, rck, rsaved, spoiled,
                   crashes>>

CountedBefore == rnum                        \* seeded fault: log_sequences is not raised

Counted == rec.top

ReplayEnds ==
    /\ rup /\ Recovering /\ rec.file.recs = <<>>
    /\ rnum' = Counted /\ rck' = (IF rec.older THEN rck ELSE rec.file.ck) /\ rec' = NoRec
    /\ UNCHANGED <<pvars, lvars, to_p, to_r, rup, tvars, rtable, rlog, rqueue, rsaved, spoiled,
                   crashes>>

(* The replica dies, and is started again: restore_table, recover_table    *)
(* and process_tpc_log.                                                    *)
Crash ==
    /\ rup /\ crashes < MaxCrashes /\ crashes' = crashes + 1
    /\ rup' = FALSE /\ rec' = NoRec
    /\ rqueue' = <<>> /\ rtpc' = [n \in TSeq |-> "none"] /\ rmarked' = {}
    /\ UNCHANGED <<pvars, lvars, to_p, to_r, rseq, rlast, rtlog, rtable, rlog, rnum, rck, rsaved,
                   spoiled>>

Restart ==
    /\ ~rup /\ ~member
    /\ rup' = TRUE
    /\ rtable' = rsaved \o [i \in DOMAIN rlog |-> rlog[i].seq]
    /\ rnum' = Len(rlog)
    /\ rseq' = rtlog.seq /\ rlast' = rtlog.last
    /\ UNCHANGED <<pvars, lvars, to_p, to_r, rtpc, rmarked, rtlog, rlog, rqueue, rck, rsaved,
                   rec, spoiled, crashes>>

-----------------------------------------------------------------------------
PrimaryStep == \/ Send \/ Apply \/ CheckpointEnds
               \/ ReadFile \/ AnswerLog \/ AnswerSeq \/ ReadVote \/ Drop
ReplicaStep == \/ ReadLog \/ ReadSeq \/ ReadPrepare \/ ReadDecision("COMMIT")
               \/ ReadDecision("ABORT") \/ ReadCheckpoint
RecoveryStep == ReplayBegins \/ Replay \/ ReplayEnds

Next ==
    \/ Start \/ Decide("COMMIT") \/ Decide("ABORT") \/ PrimaryStep \/ Flush \/ Checkpoint
    \/ Join \/ ReplicaStep \/ ReplicaFlush \/ OwnCheckpoint \/ RecoveryStep
    \/ Crash \/ Restart

Spec == Init /\ [][Next]_vars

(* The threads of both servers run; nobody need send a command, take a     *)
(* checkpoint or crash.  A transaction is decided, by the timeout thread   *)
(* if by nothing else.                                                     *)
FairSpec == /\ Spec /\ WF_vars(PrimaryStep) /\ WF_vars(ReplicaStep) /\ WF_vars(RecoveryStep)
            /\ WF_vars(Decide("ABORT"))

-----------------------------------------------------------------------------
(* spoiled names what may go wrong while a replica joins:                  *)
(*   between     a transaction applied by the primary after it read the    *)
(*               log and before it gave the numbers is in neither answer;  *)
(*   missed      one in progress at the accept, which the replica was not  *)
(*               asked about, blocks all later ones;                       *)
(*   early       a decision that came before the numbers is not acted upon *)
(*               until the next one, which it then erases;                 *)
(*   overtaken   a command is executed, or a checkpoint taken, before the  *)
(*               replay of the log is over;                                *)
(*   behind      the primary's checkpoint holds what the replica never had, *)
(*               or its log is sent after the message of a checkpoint;     *)
(*   renumbered  a record waited in log_queue, or a decision was on its    *)
(*               way, when a checkpoint began to count anew;               *)
(*   amid        the log file is read while a checkpoint empties it;       *)
(*   own         the replica takes a checkpoint of its own: its count is   *)
(*               ahead, and its numbers start again.                       *)
(* TLC finds a loss in each of them.  The properties say that nothing else *)
(* goes wrong, a crash of the replica at any time included.                *)
Committed(n) == outcome[n] = "COMMIT"

(* The table q: the transactions committed up to n, each once, in order.   *)
IsCommitted(q, n) ==
    /\ \A i, j \in DOMAIN q : i < j => q[i] < q[j]
    /\ ToSet(q) = {m \in 1..n : Committed(m)}

Joined == rup /\ member /\ ~Unnumbered /\ rec.place = "none"
            /\ ~ \E i \in DOMAIN to_r : to_r[i].type \in {"LOGFILE", "TSEQNUMRETURN"}

(* A replica that has its answers and has replayed the log holds every     *)
(* transaction committed up to its last_seq, once and in order, although   *)
(* records that were only in its memory were lost in a crash and are       *)
(* skipped by number when the primary's log is replayed                    *)
(* (parse_log_string, threads.cpp:1069-1151).                              *)
CaughtUp == (spoiled = {} /\ Joined) => IsCommitted(rtable, rlast)

(* Within a checkpoint one record number is one transaction on both        *)
(* servers; parse_log_string relies on it the next time the replica joins. *)
SameNumbers ==
    (spoiled = {} /\ rup /\ rck = ck /\ ~checkpointing /\ rec.place = "none")
      => \A x \in ToSet(rlog \o rqueue), y \in ToSet(log \o queue) :
            x.num = y.num => x.seq = y.seq

(* A replica that has connected comes to where the primary is.             *)
CatchesUp == (rup /\ member) ~> (~rup \/ spoiled # {} \/ (Joined /\ rlast = last_seq))

(* "it should already have the most up to date log because got log files"  *)
(* (threads.cpp:740): once the replica has the numbers and the log, it has *)
(* every committed transaction up to its last_seq.                         *)
LogIsUpToDate == (spoiled \subseteq {"between"} /\ Joined) => IsCommitted(rtable, rlast)

(* "The primary checkpoint is lower than the replica checkpoint. This      *)
(* should not be possible." (utils.cpp:894).                               *)
NeverOlder == spoiled \subseteq {"own"} => ~rec.older
=============================================================================

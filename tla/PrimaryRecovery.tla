-------------------------- MODULE PrimaryRecovery --------------------------
(***************************************************************************)
(* A storage server that is elected primary (backend/src/threads.cpp, the  *)
(* PRIMARY message; process_tpc_log and start_tpc in backend/src/utils.cpp; *)
(* the accept loop of backend/table.cpp).  The module follows one server,  *)
(* P: first as a replica of the primary that is about to fail, possibly    *)
(* restarted, then as the new primary that waits until the other replicas  *)
(* have connected before it starts transactions.                           *)
(*                                                                         *)
(* Five kinds of threads of P meet here: main, which opens and reads the   *)
(* log after the coordinator thread is running; the thread of the old      *)
(* primary's connection, which nobody stops or joins at the election; the  *)
(* thread of the coordinator connection; the recovery thread; and the      *)
(* threads of frontends.  The last three wait for each other on            *)
(* primary_ready_cond and primary_count_cond.                              *)
(***************************************************************************)
EXTENDS Integers, Sequences, FiniteSets, SequencesExt

CONSTANTS
    Replica,        \* the other live servers of the partition
    Cmd,            \* commands P gets from frontends
    MaxOld,         \* bound: transactions of the old primary
    MaxCrashes      \* bound: replicas that crash after the election

ASSUME RecoveryAssumption ==
    /\ IsFiniteSet(Replica) /\ IsFiniteSet(Cmd)
    /\ MaxOld \in Nat /\ MaxCrashes \in Nat

MaxSeq == MaxOld + Cardinality(Cmd)
TSeq   == 1..MaxSeq

VARIABLES
    elected,            \* the coordinator has chosen P and told the others
    coord_in,           \* messages from the coordinator P has not read
    asked,              \* REPLICA COUNT requests on the way to the coordinator
    boot,               \* main: is the log to be opened, to be read, or is it done?
    opc, oseq,          \* old primary's connection: place, number of the message in hand
    is_primary, primary_recovering, replica_count,
    partition_fds,      \* replicas connected to P and counted (also alive_replicas)
    conn,               \* per replica: its connection to P
    up,                 \* replicas the coordinator counts
    cthread,            \* coordinator connection: place, see handle_primary_queue
    recovery,           \* recovery thread: place
    fpc, num,           \* per command: place of its thread, its number
    primary_queue,      \* commands kept for the next primary
    tpc_seq, last_seq,
    tpc_queue,          \* status of each transaction in the queue
    tpc_queue_lock,     \* was the mutex of the queue left locked?
    tpc_log, tpc_pos,   \* log file, and position of its one file stream
    tpc_pending,        \* transactions process_tpc_log found undecided
    early,              \* history: a connection was accepted too early
    crowd,              \* history: several threads waited when one was woken
    spoiled,            \* history: threads that overlapped, see the properties
    crashes

tvars == <<tpc_seq, last_seq, tpc_queue, tpc_queue_lock, tpc_log, tpc_pos, tpc_pending>>
pvars == <<is_primary, primary_recovering, replica_count, partition_fds>>
evars == <<elected, coord_in, asked, conn, up>>
fvars == <<fpc, num, primary_queue>>
ovars == <<boot, opc, oseq>>
hvars == <<early, crowd, spoiled, crashes>>
vars  == <<evars, pvars, tvars, fvars, ovars, cthread, recovery, hvars>>

Record  == [type : {"PREPARE", "DECIDED"}, seq : TSeq]
Message == [type : {"PRIMARY", "COUNT"}, count : Nat]
Status  == {"none", "PREPARE", "DECIDED"}     \* COMMIT and ABORT are treated alike
Window  == {"late", "overlapped", "booting", "skipped"}

TypeOK ==
    /\ elected \in BOOLEAN /\ coord_in \in Seq(Message) /\ asked \in Nat
    /\ is_primary \in BOOLEAN /\ primary_recovering \in BOOLEAN
    /\ replica_count \in Int
    /\ partition_fds \subseteq Replica /\ up \subseteq Replica
    /\ conn \in [Replica -> {"none", "backlog", "open", "closed"}]
    /\ boot \in {"open", "scan", "done"}
    /\ opc \in {"read", "prepare", "log", "seq", "queue", "decide", "declog", "apply"}
    /\ oseq \in 0..MaxOld
    /\ cthread \in {"read", "queue", "blocked"}
    /\ recovery \in {"none", "check", "wait", "abort", "done"}
    /\ fpc \in [Cmd -> {"new", "keep", "queued", "wait", "go", "begun", "alone"}]
    /\ num \in [Cmd -> 0..MaxSeq]
    /\ primary_queue \in Seq(Cmd)
    /\ tpc_seq \in 0..MaxSeq /\ last_seq \in Nat
    /\ tpc_queue \in [TSeq -> Status] /\ tpc_queue_lock \in BOOLEAN
    /\ tpc_log \in Seq(Record) /\ tpc_pos \in Nat
    /\ tpc_pending \subseteq TSeq
    /\ early \in BOOLEAN /\ crowd \in BOOLEAN /\ spoiled \subseteq Window /\ crashes \in Nat

Init ==
    /\ elected = FALSE /\ coord_in = <<>> /\ asked = 0
    /\ is_primary = FALSE /\ primary_recovering = FALSE /\ replica_count = 0
    /\ partition_fds = {} /\ up \in SUBSET Replica
    /\ conn = [r \in Replica |-> "none"]
    /\ boot = "done" /\ opc = "read" /\ oseq = 0
    /\ cthread = "read" /\ recovery = "none"
    /\ fpc = [c \in Cmd |-> "new"] /\ num = [c \in Cmd |-> 0]
    /\ primary_queue = <<>>
    /\ tpc_seq = 0 /\ last_seq = 0
    /\ tpc_queue = [s \in TSeq |-> "none"] /\ tpc_queue_lock = FALSE
    /\ tpc_log = <<>> /\ tpc_pos = 0 /\ tpc_pending = {}
    /\ early = FALSE /\ crowd = FALSE /\ spoiled = {} /\ crashes = 0

Larger(a, b) == IF a < b THEN b ELSE a

(* write_to_tpc_log: seekp moves the one position the stream has, also     *)
(* past lines that nobody has read.  Before main has opened the file the   *)
(* line is lost.                                                           *)
WriteLog(type, s) ==
    IF boot = "open" THEN UNCHANGED <<tpc_log, tpc_pos>>
    ELSE /\ tpc_log' = Append(tpc_log, [type |-> type, seq |-> s])
         /\ tpc_pos' = Len(tpc_log) + 1

Skipping == IF boot = "scan" /\ tpc_pos < Len(tpc_log) THEN {"skipped"} ELSE {}

-----------------------------------------------------------------------------
(* P is a replica of the old primary (handle_message, scenario 2).  The    *)
(* old primary sends each number once, not always in order, and decides    *)
(* what it has sent.  Whether P is primary is asked when the message is    *)
(* read and never again; what it reads as primary is ignored.  Numbers the *)
(* old primary sends to other replicas only are unknown to P.              *)
Logged(type, s) == \E i \in DOMAIN tpc_log : tpc_log[i] = [type |-> type, seq |-> s]
Prepared(s)     == Logged("PREPARE", s)

OldRead(s) ==
    /\ opc = "read" /\ ~is_primary
    /\ \/ ~Prepared(s) /\ opc' = "prepare"
       \/ Prepared(s) /\ ~Logged("DECIDED", s) /\ opc' = "decide"
    /\ oseq' = s
    /\ UNCHANGED <<evars, pvars, tvars, fvars, boot, cthread, recovery, hvars>>

Done == opc' = "read" /\ oseq' = 0
Goes(place) == opc' = place /\ UNCHANGED oseq

(* PREPARE: known numbers are ignored; then the log, tpc_seq, the queue.   *)
OldPrepare ==
    /\ opc = "prepare" /\ ~tpc_queue_lock
    /\ IF last_seq >= oseq \/ tpc_queue[oseq] # "none" THEN Done ELSE Goes("log")
    /\ UNCHANGED <<evars, pvars, tvars, fvars, boot, cthread, recovery, hvars>>

OldLog ==
    /\ opc \in {"log", "declog"}
    /\ WriteLog(IF opc = "log" THEN "PREPARE" ELSE "DECIDED", oseq)
    /\ spoiled' = spoiled \cup Skipping
    /\ Goes(IF opc = "log" THEN "seq" ELSE "apply")
    /\ UNCHANGED <<evars, pvars, tpc_seq, last_seq, tpc_queue, tpc_queue_lock, tpc_pending, fvars,
                   boot, cthread, recovery, early, crowd, crashes>>

SeqKept(s)  == tpc_seq               \* seeded fault: the replica forgets numbers

SeqAfter(s) == Larger(tpc_seq, s)

OldNumber ==
    /\ opc = "seq" /\ tpc_seq' = SeqAfter(oseq) /\ Goes("queue")
    /\ UNCHANGED <<evars, pvars, last_seq, tpc_queue, tpc_queue_lock, tpc_log, tpc_pos, tpc_pending,
                   fvars, boot, cthread, recovery, hvars>>

OldQueue ==
    /\ opc = "queue" /\ ~tpc_queue_lock
    /\ tpc_queue' = [tpc_queue EXCEPT ![oseq] = "PREPARE"] /\ Done
    /\ UNCHANGED <<evars, pvars, tpc_seq, last_seq, tpc_queue_lock, tpc_log, tpc_pos, tpc_pending,
                   fvars, boot, cthread, recovery, hvars>>

(* process_tpc_queue, when the queue is q: a decided transaction that is   *)
(* next is applied and its successor erased; if the next one is undecided  *)
(* the function returns with the mutex locked.                             *)
NextIs(q, status) == last_seq + 1 \in TSeq /\ q[last_seq + 1] = status
ProcessQueue(q) ==
    IF NextIs(q, "DECIDED")
      THEN /\ last_seq' = last_seq + 1
           /\ tpc_queue' = [s \in TSeq |-> IF s = last_seq + 2 THEN "none" ELSE q[s]]
           /\ UNCHANGED tpc_queue_lock
      ELSE /\ tpc_queue' = q /\ tpc_queue_lock' = (tpc_queue_lock \/ NextIs(q, "PREPARE"))
           /\ UNCHANGED last_seq

(* COMMIT or ABORT: already_processed, the log, the queue.                 *)
Processed(s) == s <= last_seq \/ tpc_queue[s] = "DECIDED"
Marked(q, s) == IF q[s] = "none" THEN q ELSE [q EXCEPT ![s] = "DECIDED"]

OldDecide ==
    /\ opc = "decide" /\ ~tpc_queue_lock
    /\ IF Processed(oseq) THEN Done ELSE Goes("declog")
    /\ UNCHANGED <<evars, pvars, tvars, fvars, boot, cthread, recovery, hvars>>

OldApply ==
    /\ opc = "apply" /\ ~tpc_queue_lock
    /\ ProcessQueue(Marked(tpc_queue, oseq)) /\ Done
    /\ UNCHANGED <<evars, pvars, tpc_seq, tpc_log, tpc_pos, tpc_pending, fvars, boot, cthread,
                   recovery, hvars>>

(* process_tpc_log reads what the stream has not read yet.                 *)
Unread == SubSeq(tpc_log, tpc_pos + 1, Len(tpc_log))

(* last_seq, l at first, after i lines: the largest decision among them.   *)
LastAt(l, lines, i) ==
    Max({l} \cup {lines[j].seq : j \in {j \in 1..i : lines[j].type = "DECIDED"}})

(* A line is acted upon unless last_seq has passed its number by then.     *)
Counts(l, lines, i) == lines[i].seq > LastAt(l, lines, i - 1)

(* The loop's result: the largest number, the last decision, and the       *)
(* transactions left undecided.                                            *)
Scan(q, l, lines) ==
    [seq     |-> Max({q} \cup {lines[i].seq : i \in DOMAIN lines}),
     last    |-> LastAt(l, lines, Len(lines)),
     pending |-> {s \in TSeq : \E i \in DOMAIN lines :
                    /\ lines[i] = [type |-> "PREPARE", seq |-> s] /\ Counts(l, lines, i)
                    /\ \A j \in i..Len(lines) :
                         ~(lines[j] = [type |-> "DECIDED", seq |-> s] /\ Counts(l, lines, j))}]

(* The loop itself, line by line.                                          *)
ScanLineAnyway(x, l) ==              \* seeded fault: a line below last_seq counts
    LET seq == Larger(x.seq, l.seq) IN
    IF l.type = "PREPARE" THEN [x EXCEPT !.seq = seq, !.pending = @ \cup {l.seq}]
    ELSE [seq |-> seq, last |-> Larger(x.last, l.seq), pending |-> x.pending \ {l.seq}]

ScanLine(x, l) ==
    LET seq == Larger(x.seq, l.seq) IN
    IF l.seq <= x.last THEN [x EXCEPT !.seq = seq]
    ELSE IF l.type = "PREPARE"
           THEN [x EXCEPT !.seq = seq, !.pending = @ \cup {l.seq}]
           ELSE [seq |-> seq, last |-> Larger(x.last, l.seq), pending |-> x.pending \ {l.seq}]

ScanLoop(q, l, lines) ==
    FoldLeft(ScanLine, [seq |-> q, last |-> l, pending |-> {}], lines)

(* P is restarted while another server is primary: main starts the thread  *)
(* of the coordinator connection, opens the log, reads it from the         *)
(* beginning and then accepts connections.                                 *)
Restart ==
    /\ ~elected /\ tpc_log # <<>>
    /\ tpc_seq' = 0 /\ last_seq' = 0 /\ tpc_pending' = {} /\ tpc_pos' = 0
    /\ tpc_queue' = [s \in TSeq |-> "none"] /\ tpc_queue_lock' = FALSE
    /\ primary_queue' = <<>> /\ fpc' = [c \in Cmd |-> "new"]
    /\ boot' = "open" /\ Done
    /\ UNCHANGED <<evars, pvars, tpc_log, num, cthread, recovery, hvars>>

OpenLog ==
    /\ boot = "open" /\ boot' = "scan"
    /\ UNCHANGED <<evars, pvars, tvars, fvars, opc, oseq, cthread, recovery, hvars>>

(* process_tpc_log; from a file that is not open it reads nothing.         *)
ProcessLog ==
    LET x == Scan(tpc_seq, last_seq, IF boot = "open" THEN <<>> ELSE Unread) IN
    /\ tpc_seq' = x.seq /\ last_seq' = x.last /\ tpc_pending' = x.pending
    /\ tpc_pos' = IF boot = "open" THEN tpc_pos ELSE Len(tpc_log)

ReadLog ==
    /\ boot = "scan" /\ boot' = "done"
    /\ ProcessLog
    /\ UNCHANGED <<evars, pvars, tpc_queue, tpc_queue_lock, tpc_log, fvars, opc, oseq, cthread,
                   recovery, hvars>>

(* handle_message, scenario 5, when the write to the old primary fails:    *)
(* this too is begun as a replica and ends whenever it does.               *)
FindPrimaryGone(c) ==
    /\ boot = "done" /\ ~is_primary /\ fpc[c] = "new"
    /\ fpc' = [fpc EXCEPT ![c] = "keep"]
    /\ UNCHANGED <<evars, pvars, tvars, ovars, num, primary_queue, cthread, recovery, hvars>>

KeepForPrimary(c) ==
    /\ fpc[c] = "keep"
    /\ primary_queue' = Append(primary_queue, c)
    /\ fpc' = [fpc EXCEPT ![c] = "queued"]
    /\ UNCHANGED <<evars, pvars, tvars, ovars, num, cthread, recovery, hvars>>

-----------------------------------------------------------------------------
(* The coordinator elects P; every live server is told, with the number of *)
(* live servers.                                                           *)
Elect ==
    /\ ~elected
    /\ elected' = TRUE
    /\ coord_in' = <<[type |-> "PRIMARY", count |-> Cardinality(up) + 1]>>
    /\ UNCHANGED <<asked, conn, up, pvars, tvars, fvars, ovars, cthread, recovery, hvars>>

(* The coordinator answers REPLICA COUNT.                                  *)
AnswerCount ==
    /\ asked > 0 /\ asked' = asked - 1
    /\ coord_in' = Append(coord_in, [type |-> "COUNT", count |-> Cardinality(up) + 1])
    /\ UNCHANGED <<elected, conn, up, pvars, tvars, fvars, ovars, cthread, recovery, hvars>>

(* start_func, message (2): another server connects to the new primary.    *)
Connect(r) ==
    /\ elected /\ r \in up /\ conn[r] = "none"
    /\ conn' = [conn EXCEPT ![r] = "backlog"]
    /\ UNCHANGED <<elected, coord_in, asked, up, pvars, tvars, fvars, ovars, cthread, recovery, hvars>>

(* The accept loop of P counts the connection only if P is primary by now. *)
AcceptReplica(r) ==
    /\ conn[r] = "backlog" /\ boot = "done"
    /\ conn' = [conn EXCEPT ![r] = "open"]
    /\ partition_fds' = IF is_primary THEN partition_fds \cup {r} ELSE partition_fds
    /\ early' = (early \/ ~is_primary)
    /\ UNCHANGED <<elected, coord_in, asked, up, is_primary, primary_recovering,
                   replica_count, tvars, fvars, ovars, cthread, recovery, crowd, spoiled, crashes>>

(* A replica dies after the election; its connection is found closed and   *)
(* the coordinator stops counting it, in either order.                     *)
CrashReplica(r) ==
    /\ elected /\ crashes < MaxCrashes /\ conn[r] \in {"none", "backlog", "open"}
    /\ crashes' = crashes + 1
    /\ conn' = [conn EXCEPT ![r] = "closed"]
    /\ UNCHANGED <<elected, coord_in, asked, up, pvars, tvars, fvars, ovars, cthread, recovery,
                   early, crowd, spoiled>>

DropReplica(r) ==
    /\ conn[r] = "closed" /\ r \in partition_fds
    /\ partition_fds' = partition_fds \ {r}
    /\ UNCHANGED <<evars, is_primary, primary_recovering, replica_count, tvars, fvars, ovars,
                   cthread, recovery, hvars>>

ForgetReplica(r) ==
    /\ conn[r] = "closed" /\ r \in up
    /\ up' = up \ {r}
    /\ UNCHANGED <<elected, coord_in, asked, conn, pvars, tvars, fvars, ovars, cthread, recovery, hvars>>

-----------------------------------------------------------------------------
(* start_func, message (2), on P: from the election to the recovery        *)
(* thread; handle_primary_queue follows on the same thread.  The log is    *)
(* read from where the stream stands.  The descriptor of the old primary's *)
(* connection is closed, its thread goes on.                               *)
BecomePrimary ==
    /\ cthread = "read" /\ coord_in # <<>> /\ coord_in[1].type = "PRIMARY" /\ ~is_primary
    /\ coord_in' = Tail(coord_in)
    /\ replica_count' = coord_in[1].count - 1
    /\ is_primary' = TRUE /\ primary_recovering' = TRUE
    /\ ProcessLog
    /\ spoiled' = spoiled \cup (IF opc = "read" THEN {} ELSE {"late"})
                         \cup (IF boot = "done" THEN {} ELSE {"booting"})
    /\ recovery' = "check" /\ cthread' = "queue"
    /\ UNCHANGED <<elected, asked, conn, up, partition_fds, tpc_queue, tpc_queue_lock, tpc_log,
                   fvars, ovars, early, crowd, crashes>>

(* tpc_primary_recovery_function, one round.  tpc_replica_count_lock is    *)
(* held from the check to the wait, so the answer cannot come in between.  *)
RecoveryCheck ==
    /\ recovery = "check" /\ Cardinality(partition_fds) < replica_count
    /\ recovery' = "wait" /\ asked' = asked + 1
    /\ UNCHANGED <<elected, coord_in, conn, up, pvars, tvars, fvars, ovars, cthread, hvars>>

(* start_func, message (11): the new count, and the signal.                *)
ReadCountIdly ==                     \* seeded fault: the new count is not stored
    /\ cthread = "read" /\ coord_in # <<>> /\ coord_in[1].type = "COUNT"
    /\ coord_in' = Tail(coord_in)
    /\ recovery' = IF recovery = "wait" THEN "check" ELSE recovery
    /\ UNCHANGED <<elected, asked, conn, up, pvars, tvars, fvars, ovars, cthread, hvars>>

ReadCountSilently ==                 \* seeded fault: primary_count_cond is not signalled
    /\ cthread = "read" /\ coord_in # <<>> /\ coord_in[1].type = "COUNT"
    /\ coord_in' = Tail(coord_in)
    /\ replica_count' = coord_in[1].count - 1
    /\ UNCHANGED <<elected, asked, conn, up, is_primary, primary_recovering, partition_fds,
                   tvars, fvars, ovars, cthread, recovery, hvars>>

ReadCount ==
    /\ cthread = "read" /\ coord_in # <<>> /\ coord_in[1].type = "COUNT"
    /\ coord_in' = Tail(coord_in)
    /\ replica_count' = coord_in[1].count - 1
    /\ recovery' = IF recovery = "wait" THEN "check" ELSE recovery
    /\ UNCHANGED <<elected, asked, conn, up, is_primary, primary_recovering, partition_fds,
                   tvars, fvars, ovars, cthread, hvars>>

(* The threads that wait on primary_ready_cond in start_tpc: those of      *)
(* frontends, and the coordinator connection for the first queued command. *)
Waiting == {c \in Cmd : fpc[c] = "wait"}
Waiters == Cardinality(Waiting) + (IF cthread = "blocked" THEN 1 ELSE 0)

(* pthread_cond_signal on primary_ready_cond wakes one of them.            *)
NobodyWoken == UNCHANGED <<fpc, cthread>>       \* seeded fault: no signal

OneWoken ==
    \/ Waiters = 0 /\ UNCHANGED <<fpc, cthread>>
    \/ cthread = "blocked" /\ cthread' = "queue" /\ UNCHANGED fpc
    \/ \E c \in Waiting : fpc' = [fpc EXCEPT ![c] = "go"] /\ UNCHANGED cthread

(* primary_abort_transaction for the next pending transaction: the record, *)
(* the status and process_tpc_queue.                                       *)
Connected ==
    /\ recovery = "check" /\ Cardinality(partition_fds) >= replica_count
    /\ recovery' = "abort"
    /\ UNCHANGED <<evars, pvars, tvars, fvars, ovars, cthread, hvars>>

AbortPending ==
    /\ recovery = "abort" /\ tpc_pending # {} /\ ~tpc_queue_lock
    /\ LET s == Min(tpc_pending) IN
         /\ tpc_pending' = tpc_pending \ {s}
         /\ IF Processed(s) THEN UNCHANGED <<tpc_log, tpc_pos, tpc_queue, last_seq, tpc_queue_lock, spoiled>>
            ELSE /\ WriteLog("DECIDED", s) /\ ProcessQueue(Marked(tpc_queue, s))
                 /\ spoiled' = spoiled \cup Skipping
    /\ UNCHANGED <<evars, pvars, tpc_seq, fvars, ovars, cthread, recovery, early, crowd, crashes>>

(* The end of the recovery thread.                                         *)
Ready ==
    /\ recovery = "abort" /\ tpc_pending = {}
    /\ primary_recovering' = FALSE /\ recovery' = "done"
    /\ crowd' = (Waiters > 1)
    /\ OneWoken
    /\ UNCHANGED <<evars, is_primary, replica_count, partition_fds, tvars, num, primary_queue,
                   ovars, early, spoiled, crashes>>

-----------------------------------------------------------------------------
(* A number given out while a PREPARE of the old primary is being handled. *)
Overlapping == IF opc \in {"prepare", "log", "seq"} THEN {"overlapped"} ELSE {}

(* start_tpc after the wait: the transaction enters the queue and the log. *)
Started(s) ==
    /\ ~tpc_queue_lock
    /\ WriteLog("PREPARE", s)
    /\ tpc_queue' = [tpc_queue EXCEPT ![s] = "PREPARE"]

NumberOf(c) == IF num[c] = 0 THEN tpc_seq + 1 ELSE num[c]

(* handle_primary_queue: number the first command and start it, or block.  *)
(* A thread that was blocked comes back here with its number.              *)
NumberQueued ==
    /\ cthread = "queue" /\ primary_queue # <<>>
    /\ LET c == primary_queue[1]
           s == NumberOf(c)
       IN /\ num' = [num EXCEPT ![c] = s]
          /\ spoiled' = IF num[c] = 0 THEN spoiled \cup Overlapping ELSE spoiled
          /\ tpc_seq' = Larger(tpc_seq, s)
          /\ IF primary_recovering
               THEN /\ cthread' = "blocked"
                    /\ UNCHANGED <<primary_queue, fpc, tpc_queue, tpc_log, tpc_pos>>
               ELSE /\ Started(s)
                    /\ primary_queue' = Tail(primary_queue)
                    /\ fpc' = [fpc EXCEPT ![c] = "begun"]
                    /\ UNCHANGED cthread
    /\ UNCHANGED <<evars, pvars, last_seq, tpc_queue_lock, tpc_pending, ovars, recovery, early,
                   crowd, crashes>>

QueueDone ==
    /\ cthread = "queue" /\ primary_queue = <<>>
    /\ cthread' = "read"
    /\ UNCHANGED <<evars, pvars, tvars, fvars, ovars, recovery, hvars>>

(* handle_message, scenario 3: a command of a frontend is numbered; with   *)
(* no replica connected it is executed at once, otherwise start_tpc.       *)
Receive(c) ==
    /\ boot = "done" /\ is_primary /\ fpc[c] = "new"
    /\ spoiled' = spoiled \cup Overlapping
    /\ tpc_seq' = tpc_seq + 1 /\ num' = [num EXCEPT ![c] = tpc_seq + 1]
    /\ IF partition_fds = {}
         THEN fpc' = [fpc EXCEPT ![c] = "alone"] /\ last_seq' = last_seq + 1
         ELSE /\ fpc' = [fpc EXCEPT ![c] = IF primary_recovering THEN "wait" ELSE "go"]
              /\ UNCHANGED last_seq
    /\ UNCHANGED <<evars, pvars, tpc_queue, tpc_queue_lock, tpc_log, tpc_pos, tpc_pending,
                   primary_queue, ovars, cthread, recovery, early, crowd, crashes>>

Begin(c) ==
    /\ fpc[c] = "go"
    /\ Started(num[c])
    /\ fpc' = [fpc EXCEPT ![c] = "begun"]
    /\ UNCHANGED <<evars, pvars, tpc_seq, last_seq, tpc_queue_lock, tpc_pending, num, primary_queue,
                   ovars, cthread, recovery, hvars>>

OldHandle == OldPrepare \/ OldLog \/ OldNumber \/ OldQueue \/ OldDecide \/ OldApply
OldThread == (\E s \in 1..MaxOld : OldRead(s)) \/ OldHandle
Main      == OpenLog \/ ReadLog
CommandStep(c) == FindPrimaryGone(c) \/ KeepForPrimary(c) \/ Receive(c) \/ Begin(c)
ReplicaStep(r) == Connect(r) \/ AcceptReplica(r) \/ CrashReplica(r) \/ DropReplica(r)
                    \/ ForgetReplica(r)
CoordThread    == BecomePrimary \/ ReadCount \/ NumberQueued \/ QueueDone
RecoveryThread == RecoveryCheck \/ Connected \/ AbortPending \/ Ready

Next ==
    \/ OldThread \/ Restart \/ Main \/ Elect \/ AnswerCount
    \/ \E c \in Cmd : CommandStep(c)
    \/ \E r \in Replica : ReplicaStep(r)
    \/ CoordThread \/ RecoveryThread

Spec == Init /\ [][Next]_vars

(* The threads of P run, the coordinator answers and notices what died,    *)
(* and a live replica that was told connects.  Nobody need send a command, *)
(* crash or hold an election.                                              *)
FairSpec ==
    /\ Spec
    /\ WF_vars(Main) /\ WF_vars(OldHandle)
    /\ WF_vars(CoordThread) /\ WF_vars(RecoveryThread) /\ WF_vars(AnswerCount)
    /\ \A r \in Replica : /\ WF_vars(Connect(r)) /\ WF_vars(AcceptReplica(r))
                          /\ WF_vars(DropReplica(r)) /\ WF_vars(ForgetReplica(r))
    /\ \A c \in Cmd : WF_vars(Begin(c))

-----------------------------------------------------------------------------
(* spoiled says which threads met: P became primary while the thread of   *)
(* the old primary's connection still had a message in its hands ("late"), *)
(* or before main had read the log ("booting"); a command was numbered     *)
(* while that thread was between the test of a PREPARE and tpc_seq         *)
(* ("overlapped"); a line was written before main had read those before it *)
(* ("skipped").                                                            *)

(* P, as primary, never reuses a number it has logged: one PREPARE per     *)
(* number in its log, whether it came from the old primary or from P       *)
(* itself, across a restart and the election, although the thread of the   *)
(* old connection goes on (threads.cpp:457-473, utils.cpp:392-394).  It    *)
(* fails only if that thread overlapped the numbering itself, or if        *)
(* process_tpc_log missed lines.                                           *)
NumberedOnce ==
    spoiled \cap {"overlapped", "skipped"} = {} =>
        \A i, j \in DOMAIN tpc_log :
            (tpc_log[i].type = "PREPARE" /\ tpc_log[j] = tpc_log[i]) => i = j

(* process_tpc_log computes what it is for: whatever the order of the      *)
(* records in the log, its loop finds the largest number and the           *)
(* transactions prepared and not decided, but for those that a later       *)
(* decision has overtaken.                                                 *)
ScanIsLoop == ScanLoop(0, 0, tpc_log) = Scan(0, 0, tpc_log)

(* No wakeup of the recovery thread is lost: while it waits on             *)
(* primary_count_cond, its question or the coordinator's answer is under   *)
(* way.                                                                    *)
WaitIsAnswered ==
    recovery = "wait" => asked > 0 \/ \E i \in DOMAIN coord_in : coord_in[i].type = "COUNT"

(* The new primary becomes ready although replicas may die meanwhile,      *)
(* unless a replica connected before P knew of its election and is not     *)
(* counted, the thread that reads the coordinator's answers is itself      *)
(* blocked in start_tpc, or a thread returned with the mutex of the queue. *)
Recovers ==
    primary_recovering ~> (~primary_recovering \/ early \/ cthread = "blocked" \/ tpc_queue_lock)

(* A command that waits for the recovery is started, with the same three   *)
(* exceptions and one more: several commands waited and one was woken.     *)
WaitingBegins ==
    \A c \in Cmd : fpc[c] = "wait" ~> (fpc[c] = "begun" \/ early \/ cthread = "blocked"
                                          \/ crowd \/ tpc_queue_lock)

(* "identify any pending tpc transactions from log file", "abort all       *)
(* pending tpc transactions": when the recovery is over, no transaction of *)
(* the old primary is left undecided in the queue.  Stated for elections   *)
(* that no other thread of P overlaps.                                     *)
PendingIsAborted ==
    recovery = "done" /\ spoiled \cap {"late", "booting"} = {} =>
        \A s \in TSeq : tpc_queue[s] = "PREPARE" => \E c \in Cmd : num[c] = s
=============================================================================

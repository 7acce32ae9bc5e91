------------------------------ MODULE TwoPhase ------------------------------
(***************************************************************************)
(* Replication of writes inside one partition of the storage service       *)
(* (backend/src/threads.cpp and backend/src/utils.cpp): two-phase commit   *)
(* led by the primary, applied by every node in the order of the           *)
(* transaction numbers.                                                    *)
(*                                                                         *)
(* The primary serves every connection with a thread of its own, so the    *)
(* votes of two replicas, the commands of the frontends and the timeout    *)
(* thread interleave at the boundaries of the mutexes; pc[t] is the place  *)
(* where thread t of the primary stands.  A replica handles the primary's  *)
(* messages in one thread, over a FIFO (TCP) connection.                   *)
(*                                                                         *)
(* A command is a member of Req.  Its text is abstracted to the key it     *)
(* writes and to whether it is a DELETE; the hash that names it is the     *)
(* request itself.                                                         *)
(***************************************************************************)
EXTENDS Integers, Sequences, FiniteSets

CONSTANTS
    Primary,     \* the node elected primary
    Replica,     \* the other nodes of the partition
    Req,         \* write commands sent by frontends, one connection each
    Key,         \* (row, column) pairs
    KeyOf,       \* KeyOf[q]: the key that command q writes
    Home,        \* Home[q]: the node whose connection carries command q
    Deletes,     \* the commands that are DELETE (the others are PUT)
    Present,     \* keys that are in the tables, with a lock, at the start
    Timer,       \* the thread running tpc_check_function
    None,        \* no thread, no request
    MaxInFlight, \* bound: commands sent and not yet answered
    MaxSeq,      \* bound: transaction numbers handed out
    MaxExpired,  \* bound: transactions the timeout thread finds expired
    MaxCrashes   \* bound: replicas that crash

ASSUME ConstantsAssumption ==
    /\ Primary \notin Replica
    /\ Timer \notin Replica \cup Req
    /\ Replica \cap Req = {}
    /\ None \notin Replica \cup Req \cup {Timer, Primary}
    /\ IsFiniteSet(Replica)
    /\ KeyOf \in [Req -> Key]
    /\ Home \in [Req -> Replica \cup {Primary}]
    /\ Deletes \subseteq Req
    /\ Present \subseteq Key
    /\ MaxInFlight \in Nat /\ MaxSeq \in Nat /\ MaxExpired \in Nat /\ MaxCrashes \in Nat

Node   == Replica \cup {Primary}
Thread == Replica \cup Req \cup {Timer}     \* threads of the primary
TSeq   == 1..MaxSeq

Decision == {"COMMIT", "ABORT"}
Status   == {"none", "PREPARE"} \cup Decision    \* "none": not in tpc_queue

(* A row lock: no lock object, an unlocked one, one write-locked by a      *)
(* thread on behalf of a transaction, or one damaged by a stray unlock.    *)
Lock == [st : {"absent", "free", "held", "corrupt"},
         by : Replica \cup {None}, for : Nat]
Unheld(x) == [st |-> x, by |-> None, for |-> 0]

VARIABLES
    tpc_seq,              \* primary: last transaction number handed out
    last_seq,             \* per node: last transaction applied
    next_seq,             \* per node: loop variable of process_tpc_queue
    tpc_queue,            \* per node: status of each transaction in its queue
    tpc_queue_lock,       \* per node: is tpc_queue_lock locked?
    queued_transactions,  \* per node: transactions marked for commit or abort
    row_locks,            \* per node and key
    tpc_log,              \* per node: records written to the tpc log file
    msg_queue,            \* per node: frontend commands awaiting their answer
    tpc_responses,        \* primary: replicas whose YES was counted
    tpc_replicas,         \* primary: replicas alive when PREPARE was sent
    tpc_start_time,       \* primary: transactions on the timeout list
    partition_fds,        \* primary: replica connections messages go to
    alive_replicas,       \* primary: replicas counted as alive
    to_replica,           \* per replica: messages on their way from the primary
    to_primary,           \* per replica: messages on their way to the primary
    pc, at, arg,          \* per thread of the primary: place, transaction, vote
    rpc,                  \* per replica: place of its primary-connection thread
    up,                   \* per replica: has it not crashed?
    req_of,               \* history: command of each transaction number
    hist,                 \* history: per node, what it applied, in order
    reply,                \* history: what each frontend was answered
    expired,              \* history: transactions found expired
    miscounted            \* history: transactions with a vote miscounted

pvars == <<tpc_seq, tpc_responses, tpc_replicas, tpc_start_time,
           partition_fds, alive_replicas, req_of, expired, miscounted>>
nvars == <<last_seq, next_seq, tpc_queue, tpc_queue_lock, queued_transactions,
           row_locks, tpc_log, msg_queue, hist, reply>>
cvars == <<to_replica, to_primary>>
tvars == <<pc, at, arg, rpc, up>>
vars  == <<pvars, nvars, cvars, tvars>>

PC == {"idle", "size", "enqueue", "snapshot", "lookup", "respond", "getlock",
       "check", "issue", "send", "status", "process", "loop", "expire", "register",
       "closing", "closed", "done"}

Record  == [type : {"PREPARE"} \cup Decision, seq : TSeq]
Vote    == [type : {"YES", "NO"}, seq : TSeq, req : {None}]
Command == [type : {"CMD"}, seq : {0}, req : Req]
Entry   == [seq : TSeq, req : Req, dec : Decision]

PrimaryTypeOK ==
    /\ tpc_seq \in 0..MaxSeq
    /\ tpc_responses \in [TSeq -> SUBSET Replica]
    /\ tpc_replicas \in [TSeq -> SUBSET Replica]
    /\ tpc_start_time \subseteq TSeq
    /\ partition_fds \subseteq Replica
    /\ alive_replicas \subseteq Replica
    /\ req_of \in [TSeq -> Req \cup {None}]
    /\ expired \subseteq TSeq
    /\ miscounted \subseteq TSeq

NodeTypeOK ==
    /\ last_seq \in [Node -> Nat]
    /\ next_seq \in [Node -> Nat]
    /\ tpc_queue \in [Node -> [TSeq -> Status]]
    /\ tpc_queue_lock \in [Node -> BOOLEAN]
    /\ queued_transactions \in [Node -> SUBSET TSeq]
    /\ row_locks \in [Node -> [Key -> Lock]]
    /\ tpc_log \in [Node -> SUBSET Record]
    /\ msg_queue \in [Node -> SUBSET Req]
    /\ hist \in [Node -> Seq(Entry)]
    /\ reply \in [Req -> {"none", "OK", "ERR"}]

ChannelTypeOK ==
    /\ to_replica \in [Replica -> Seq(Record)]
    /\ to_primary \in [Replica -> Seq(Vote \cup Command)]

ThreadTypeOK ==
    /\ pc \in [Thread -> PC]
    /\ at \in [Thread -> 0..MaxSeq]
    /\ arg \in [Thread -> {"none", "YES", "NO"} \cup Decision]
    /\ rpc \in [Replica -> {"idle", "loop"}]
    /\ up \in [Replica -> BOOLEAN]

TypeOK == PrimaryTypeOK /\ NodeTypeOK /\ ChannelTypeOK /\ ThreadTypeOK

(* Every replica is connected, the election is over, nothing is pending.   *)
Init ==
    /\ tpc_seq = 0
    /\ last_seq = [n \in Node |-> 0]
    /\ next_seq = [n \in Node |-> 0]
    /\ tpc_queue = [n \in Node |-> [s \in TSeq |-> "none"]]
    /\ tpc_queue_lock = [n \in Node |-> FALSE]
    /\ queued_transactions = [n \in Node |-> {}]
    /\ row_locks = [n \in Node |-> [k \in Key |->
                      Unheld(IF k \in Present THEN "free" ELSE "absent")]]
    /\ tpc_log = [n \in Node |-> {}]
    /\ msg_queue = [n \in Node |-> {}]
    /\ tpc_responses = [s \in TSeq |-> {}]
    /\ tpc_replicas = [s \in TSeq |-> {}]
    /\ tpc_start_time = {}
    /\ partition_fds = Replica
    /\ alive_replicas = Replica
    /\ to_replica = [r \in Replica |-> <<>>]
    /\ to_primary = [r \in Replica |-> <<>>]
    /\ pc = [t \in Thread |-> "idle"]
    /\ at = [t \in Thread |-> 0]
    /\ arg = [t \in Thread |-> "none"]
    /\ rpc = [r \in Replica |-> "idle"]
    /\ up = [r \in Replica |-> TRUE]
    /\ req_of = [s \in TSeq |-> None]
    /\ hist = [n \in Node |-> <<>>]
    /\ reply = [q \in Req |-> "none"]
    /\ expired = {}
    /\ miscounted = {}

-----------------------------------------------------------------------------
(* Helpers shared by the handlers.                                         *)

Elems(q) == {q[i] : i \in DOMAIN q}      \* what is in a sequence

Goto(t, place) == pc' = [pc EXCEPT ![t] = place]

(* The handler returns and its locals are gone; the connection of a        *)
(* frontend carries one command here.                                      *)
Return(t) ==
    /\ Goto(t, IF t \in Req THEN "done" ELSE "idle")
    /\ at' = [at EXCEPT ![t] = 0]
    /\ arg' = [arg EXCEPT ![t] = "none"]

(* forward_msg: write to every replica connection; what is written to a    *)
(* replica that has crashed is lost.                                       *)
Forwarded(m) ==
    [r \in Replica |-> IF r \in partition_fds /\ up[r]
                       THEN Append(to_replica[r], m) ELSE to_replica[r]]

(* already_processed: applied, decided in the queue, or marked.            *)
AlreadyProcessed(n, s) ==
    \/ s <= last_seq[n]
    \/ tpc_queue[n][s] \in Decision
    \/ s \in queued_transactions[n]

(* The table of node n has key k: the last command it executed on k was    *)
(* no DELETE, or there was none and k was there from the start.            *)
Executed(n, k) ==
    {i \in DOMAIN hist[n] : hist[n][i].dec = "COMMIT" /\ KeyOf[hist[n][i].req] = k}
HasKey(n, k) ==
    \/ Executed(n, k) = {} /\ k \in Present
    \/ \E i \in Executed(n, k) : /\ \A j \in Executed(n, k) : j <= i
                                /\ hist[n][i].req \notin Deletes

(* A GET takes the read lock of a key that is in the table: whether one    *)
(* may be holding it.                                                      *)
ReaderBusy(n, k) == {FALSE} \cup {b \in {TRUE} : HasKey(n, k)}

(* The lock object after row_locks is consulted for a key it lacks.        *)
Existing(l) == IF l.st = "absent" THEN Unheld("free") ELSE l

(* get_command_locks: five immediate trywrlock.  It fails when the lock is *)
(* taken or damaged, and while a GET of the key holds its read lock        *)
(* (readerBusy).                                                           *)
LockAlwaysGranted(l, readerBusy) == TRUE   \* seeded fault: result ignored
LockGranted(l, readerBusy) == Existing(l).st = "free" /\ ~readerBusy
LockAfterTry(l, readerBusy, t, s) ==
    IF LockGranted(l, readerBusy)
    THEN [st |-> "held", by |-> t, for |-> s] ELSE Existing(l)

(* pthread_rwlock_unlock called by thread t.  POSIX leaves the unlock of a *)
(* lock that the caller does not hold undefined: nothing may happen, the   *)
(* holder may lose it, or the lock word may be damaged for good.           *)
UnlockOutcomes(l, t) ==
    CASE l.st = "absent" -> {l}
      [] l.st = "held" /\ l.by = t -> {Unheld("free")}
      [] OTHER -> {l, Unheld("corrupt")} \cup
                  (IF l.st = "held" THEN {Unheld("free")} ELSE {})

(* Answering the frontend that sent q, if its command is registered here.  *)
AlwaysOK(n, q, text) ==              \* seeded fault: outcome ignored
    /\ reply' = IF q \in msg_queue[n] THEN [reply EXCEPT ![q] = "OK"] ELSE reply
    /\ msg_queue' = [msg_queue EXCEPT ![n] = @ \ {q}]

Answered(n, q, text) ==
    /\ reply' = IF q \in msg_queue[n] THEN [reply EXCEPT ![q] = text] ELSE reply
    /\ msg_queue' = [msg_queue EXCEPT ![n] = @ \ {q}]

-----------------------------------------------------------------------------
(* The primary receives a command.                                         *)

(* handle_message, scenario 3: a transaction number, then the entry in     *)
(* msg_queue; the PUT branch has created the lock object before.           *)
Numbered(t, q) ==
    /\ tpc_seq < MaxSeq
    /\ tpc_seq' = tpc_seq + 1
    /\ req_of' = [req_of EXCEPT ![tpc_seq + 1] = q]
    /\ at' = [at EXCEPT ![t] = tpc_seq + 1]
    /\ row_locks' = IF q \in Deletes THEN row_locks
                    ELSE [row_locks EXCEPT ![Primary][KeyOf[q]] = Existing(@)]
    /\ Goto(t, "size")

InFlight == {q \in Req : pc[q] # "idle" /\ reply[q] = "none"}

(* A DELETE goes on only if its key is in the node's table.                *)
Accepts(n, q) == q \in Deletes => HasKey(n, KeyOf[q])

ReceiveFromFrontend(q) ==
    /\ pc[q] = "idle" /\ Home[q] = Primary /\ Accepts(Primary, q)
    /\ Cardinality(InFlight) < MaxInFlight
    /\ Numbered(q, q)
    /\ msg_queue' = [msg_queue EXCEPT ![Primary] = @ \cup {q}]
    /\ UNCHANGED <<last_seq, next_seq, tpc_queue, tpc_queue_lock,
                   queued_transactions, tpc_log, hist, reply, tpc_responses,
                   tpc_replicas, tpc_start_time, partition_fds, alive_replicas,
                   expired, miscounted, cvars, arg, rpc, up>>

(* Any node tells a frontend at once that the key does not exist.          *)
RefuseAbsent(q) ==
    /\ pc[q] = "idle" /\ ~Accepts(Home[q], q)
    /\ Home[q] \in Replica => up[Home[q]]
    /\ Cardinality(InFlight) < MaxInFlight
    /\ reply' = [reply EXCEPT ![q] = "ERR"]
    /\ Goto(q, "done")
    /\ UNCHANGED <<pvars, cvars, last_seq, next_seq, tpc_queue, tpc_queue_lock,
                   queued_transactions, row_locks, tpc_log, msg_queue, hist, at,
                   arg, rpc, up>>

ReceiveForwarded(r) ==
    /\ pc[r] = "idle"
    /\ to_primary[r] # <<>> /\ Head(to_primary[r]).type = "CMD"
    /\ Accepts(Primary, Head(to_primary[r]).req)
    /\ Numbered(r, Head(to_primary[r]).req)
    /\ to_primary' = [to_primary EXCEPT ![r] = Tail(@)]
    /\ UNCHANGED <<last_seq, next_seq, tpc_queue, tpc_queue_lock,
                   queued_transactions, tpc_log, msg_queue, hist, reply,
                   tpc_responses, tpc_replicas, tpc_start_time, partition_fds,
                   alive_replicas, expired, miscounted, to_replica, arg, rpc, up>>

(* A partition of one node, as the primary sees it.                        *)
LastReplicaUncounted ==              \* seeded fault: off by one
    Cardinality(partition_fds) <= 1
NoReplica == partition_fds = {}

(* The refusal of a forwarded command goes to the replica that forwarded   *)
(* it, which takes it for a message it cannot process; no frontend hears.  *)
RefuseForwarded(r) ==
    /\ pc[r] = "idle"
    /\ to_primary[r] # <<>> /\ Head(to_primary[r]).type = "CMD"
    /\ ~Accepts(Primary, Head(to_primary[r]).req)
    /\ to_primary' = [to_primary EXCEPT ![r] = Tail(@)]
    /\ UNCHANGED <<pvars, nvars, tvars, to_replica>>

StartReplication(t) ==
    /\ pc[t] = "size" /\ ~NoReplica
    /\ Goto(t, "enqueue")
    /\ UNCHANGED <<pvars, nvars, cvars, at, arg, rpc, up>>

(* No replica is connected: the command is executed at once, numbered      *)
(* last_seq + 1, or refused when its lock is busy.                         *)
ExecuteAlone(t) ==
    LET s == at[t]  q == req_of[s]  k == KeyOf[q]
        l == row_locks[Primary][k]
    IN
    /\ pc[t] = "size" /\ NoReplica
    /\ \E readerBusy \in ReaderBusy(Primary, k) :
         IF LockGranted(l, readerBusy)
         THEN /\ last_seq' = [last_seq EXCEPT ![Primary] = @ + 1]
              /\ hist' = [hist EXCEPT ![Primary] =
                            Append(@, [seq |-> s, req |-> q, dec |-> "COMMIT"])]
              /\ row_locks' = [row_locks EXCEPT ![Primary][k] =
                            Unheld(IF q \in Deletes THEN "absent" ELSE "free")]
              /\ Answered(Primary, q, "OK")
         ELSE /\ row_locks' = [row_locks EXCEPT ![Primary][k] = Existing(@)]
              /\ Answered(Primary, q, "ERR")
              /\ UNCHANGED <<last_seq, hist>>
    /\ Return(t)
    /\ UNCHANGED <<pvars, cvars, next_seq, tpc_queue, tpc_queue_lock,
                   queued_transactions, tpc_log, rpc, up>>

(* start_tpc, first half: the timeout list and the primary's own queue.    *)
EnqueueUntimed(t) ==                 \* seeded fault: no entry on the timeout list
    /\ pc[t] = "enqueue" /\ ~tpc_queue_lock[Primary]
    /\ tpc_queue' = [tpc_queue EXCEPT ![Primary][at[t]] = "PREPARE"]
    /\ Goto(t, "snapshot")
    /\ UNCHANGED <<pvars, last_seq, next_seq, tpc_queue_lock,
                   queued_transactions, row_locks, tpc_log, msg_queue, hist,
                   reply, cvars, at, arg, rpc, up>>

EnqueuePrepare(t) ==
    /\ pc[t] = "enqueue" /\ ~tpc_queue_lock[Primary]
    /\ tpc_start_time' = tpc_start_time \cup {at[t]}
    /\ tpc_queue' = [tpc_queue EXCEPT ![Primary][at[t]] = "PREPARE"]
    /\ Goto(t, "snapshot")
    /\ UNCHANGED <<tpc_seq, tpc_responses, tpc_replicas, partition_fds,
                   alive_replicas, req_of, expired, miscounted, last_seq, next_seq,
                   tpc_queue_lock, queued_transactions, row_locks, tpc_log,
                   msg_queue, hist, reply, cvars, at, arg, rpc, up>>

(* start_tpc, second half: remember who is alive, log and send PREPARE.    *)
SendPrepare(t) ==
    LET m == [type |-> "PREPARE", seq |-> at[t]] IN
    /\ pc[t] = "snapshot"
    /\ tpc_replicas' = [tpc_replicas EXCEPT ![at[t]] = alive_replicas]
    /\ tpc_log' = [tpc_log EXCEPT ![Primary] = @ \cup {m}]
    /\ to_replica' = Forwarded(m)
    /\ Return(t)
    /\ UNCHANGED <<tpc_seq, tpc_responses, tpc_start_time, partition_fds,
                   alive_replicas, req_of, expired, miscounted, last_seq, next_seq,
                   tpc_queue, tpc_queue_lock, queued_transactions, row_locks,
                   msg_queue, hist, reply, to_primary, rpc, up>>

-----------------------------------------------------------------------------
(* A replica receives a command from a frontend: it writes it to the       *)
(* primary's connection first and registers it in msg_queue afterwards.    *)

ForwardToPrimary(q) ==
    LET r == Home[q] IN
    /\ pc[q] = "idle" /\ r \in Replica /\ up[r] /\ Accepts(r, q)
    /\ Cardinality(InFlight) < MaxInFlight
    /\ to_primary' = [to_primary EXCEPT ![r] =
                        Append(@, [type |-> "CMD", seq |-> 0, req |-> q])]
    /\ row_locks' = IF q \in Deletes THEN row_locks
                    ELSE [row_locks EXCEPT ![r][KeyOf[q]] = Existing(@)]
    /\ Goto(q, "register")
    /\ UNCHANGED <<pvars, last_seq, next_seq, tpc_queue, tpc_queue_lock,
                   queued_transactions, tpc_log, msg_queue, hist, reply,
                   to_replica, at, arg, rpc, up>>

RegisterForwarded(q) ==
    /\ pc[q] = "register" /\ up[Home[q]]
    /\ msg_queue' = [msg_queue EXCEPT ![Home[q]] = @ \cup {q}]
    /\ Goto(q, "done")
    /\ UNCHANGED <<pvars, last_seq, next_seq, tpc_queue, tpc_queue_lock,
                   queued_transactions, row_locks, tpc_log, hist, reply, cvars,
                   at, arg, rpc, up>>

-----------------------------------------------------------------------------
(* The primary's thread for replica r handles a vote.                      *)

ReceiveVote(r) ==
    LET m == Head(to_primary[r]) IN
    /\ pc[r] = "idle" /\ ~tpc_queue_lock[Primary]
    /\ to_primary[r] # <<>> /\ m.type \in {"YES", "NO"}
    /\ to_primary' = [to_primary EXCEPT ![r] = Tail(@)]
    /\ IF AlreadyProcessed(Primary, m.seq)
       THEN UNCHANGED <<pc, at, arg>>
       ELSE /\ at' = [at EXCEPT ![r] = m.seq]
            /\ arg' = [arg EXCEPT ![r] = m.type]
            /\ Goto(r, "lookup")
    /\ UNCHANGED <<pvars, nvars, to_replica, rpc, up>>

(* The transaction must still be in tpc_queue; a NO goes straight to       *)
(* primary_abort_transaction.                                              *)
LookUpVoted(r) ==
    /\ pc[r] = "lookup" /\ ~tpc_queue_lock[Primary]
    /\ IF tpc_queue[Primary][at[r]] = "none"
       THEN Return(r)
       ELSE IF arg[r] = "YES"
            THEN Goto(r, "respond") /\ UNCHANGED <<at, arg>>
            ELSE /\ Goto(r, "check")
                 /\ arg' = [arg EXCEPT ![r] = "ABORT"]
                 /\ UNCHANGED at
    /\ UNCHANGED <<pvars, nvars, cvars, rpc, up>>

(* As many YES as replicas at PREPARE, or at least as many as are alive.   *)
OneVoteMissing(responses, s) ==      \* seeded fault: off by one
    Cardinality(responses) + 1 >= Cardinality(alive_replicas)
EnoughVotes(responses, s) ==
    \/ Cardinality(responses) = Cardinality(tpc_replicas[s])
    \/ Cardinality(responses) >= Cardinality(alive_replicas)

(* The YES of a replica dropped from alive_replicas fills the place of one  *)
(* that is alive and has not voted.  It takes three replicas.               *)
DroppedVoteCounted(responses, s) ==
    /\ EnoughVotes(responses, s)
    /\ Cardinality(responses) # Cardinality(tpc_replicas[s])
    /\ ~ responses \subseteq alive_replicas

CountYes(r) ==
    LET s == at[r]  responses == tpc_responses[s] \cup {r} IN
    /\ pc[r] = "respond"
    /\ tpc_responses' = [tpc_responses EXCEPT ![s] = responses]
    /\ miscounted' = miscounted \cup {x \in {s} : DroppedVoteCounted(responses, s)}
    /\ IF EnoughVotes(responses, s)
       THEN Goto(r, "getlock") /\ UNCHANGED <<at, arg>> ELSE Return(r)
    /\ UNCHANGED <<tpc_seq, tpc_replicas, tpc_start_time, partition_fds,
                   alive_replicas, req_of, expired, nvars, cvars, rpc, up>>

(* The primary's own vote: COMMIT if it gets the row lock, else ABORT.     *)
PrimaryVotes(r) ==
    LET s == at[r]  k == KeyOf[req_of[s]]  l == row_locks[Primary][k] IN
    /\ pc[r] = "getlock"
    /\ \E readerBusy \in ReaderBusy(Primary, k) :
         /\ arg' = [arg EXCEPT ![r] =
                      IF LockGranted(l, readerBusy) THEN "COMMIT" ELSE "ABORT"]
         /\ row_locks' = [row_locks EXCEPT ![Primary][k] =
                            LockAfterTry(l, readerBusy, r, s)]
    /\ Goto(r, "check")
    /\ UNCHANGED <<pvars, cvars, last_seq, next_seq, tpc_queue, tpc_queue_lock,
                   queued_transactions, tpc_log, msg_queue, hist, reply, at,
                   rpc, up>>

-----------------------------------------------------------------------------
(* primary_commit_transaction and primary_abort_transaction.               *)

CheckUndecided(t) ==
    /\ pc[t] = "check" /\ ~tpc_queue_lock[Primary]
    /\ IF AlreadyProcessed(Primary, at[t]) THEN Return(t)
       ELSE Goto(t, "issue") /\ UNCHANGED <<at, arg>>
    /\ UNCHANGED <<pvars, nvars, cvars, rpc, up>>

(* Mark it decided, drop its votes and its timer and log the decision.     *)
MarkUnlogged(t) ==                   \* seeded fault: decision not logged
    /\ pc[t] = "issue"
    /\ queued_transactions' = [queued_transactions EXCEPT ![Primary] = @ \cup {at[t]}]
    /\ tpc_responses' = [tpc_responses EXCEPT ![at[t]] = {}]
    /\ tpc_start_time' = tpc_start_time \ {at[t]}
    /\ Goto(t, "send")
    /\ UNCHANGED <<tpc_seq, tpc_replicas, partition_fds, alive_replicas, req_of,
                   expired, miscounted, last_seq, next_seq, tpc_queue, tpc_queue_lock,
                   row_locks, tpc_log, msg_queue, hist, reply, cvars, at, arg,
                   rpc, up>>

LogDecision(t) ==
    LET s == at[t] IN
    /\ pc[t] = "issue"
    /\ queued_transactions' = [queued_transactions EXCEPT ![Primary] = @ \cup {s}]
    /\ tpc_responses' = [tpc_responses EXCEPT ![s] = {}]
    /\ tpc_start_time' = tpc_start_time \ {s}
    /\ tpc_log' = [tpc_log EXCEPT ![Primary] = @ \cup {[type |-> arg[t], seq |-> s]}]
    /\ Goto(t, "send")
    /\ UNCHANGED <<tpc_seq, tpc_replicas, partition_fds, alive_replicas, req_of,
                   expired, miscounted, last_seq, next_seq, tpc_queue, tpc_queue_lock,
                   row_locks, msg_queue, hist, reply, cvars, at, arg, rpc, up>>

SendDecision(t) ==
    /\ pc[t] = "send"
    /\ to_replica' = Forwarded([type |-> arg[t], seq |-> at[t]])
    /\ Goto(t, "status")
    /\ UNCHANGED <<pvars, nvars, to_primary, at, arg, rpc, up>>

(* A transaction that is in the queue gets its decision.                   *)
CommitStatus(n, s, d) ==             \* seeded fault: replicas always commit
    [tpc_queue EXCEPT ![n][s] = IF @ = "none" THEN @
                                ELSE IF n = Primary THEN d ELSE "COMMIT"]
WithStatus(n, s, d) ==
    [tpc_queue EXCEPT ![n][s] = IF @ = "none" THEN @ ELSE d]

SetStatus(t) ==
    /\ pc[t] = "status" /\ ~tpc_queue_lock[Primary]
    /\ tpc_queue' = WithStatus(Primary, at[t], arg[t])
    /\ Goto(t, "process")
    /\ UNCHANGED <<pvars, cvars, last_seq, next_seq, tpc_queue_lock,
                   queued_transactions, row_locks, tpc_log, msg_queue, hist,
                   reply, at, arg, rpc, up>>

-----------------------------------------------------------------------------
(* process_tpc_queue, on any node n and by any of its threads t.  The lock *)
(* tpc_queue_lock is held from entry to exit; one action per iteration.    *)

EnterQueue(n) ==
    /\ ~tpc_queue_lock[n]
    /\ tpc_queue_lock' = [tpc_queue_lock EXCEPT ![n] = TRUE]
    /\ next_seq' = [next_seq EXCEPT ![n] = last_seq[n] + 1]

InQueue(n, s) == s \in TSeq /\ tpc_queue[n][s] # "none"

Erased(n, s) ==
    [tpc_queue EXCEPT ![n] = [x \in TSeq |-> IF x = s THEN "none" ELSE @[x]]]

(* One decided transaction.  next_seq is advanced before tpc_queue.erase,  *)
(* so the entry that goes is the one after the transaction applied here.   *)
ApplyNext(n, t) ==
    LET s == next_seq[n]  q == req_of[s]  d == tpc_queue[n][s]
        k == KeyOf[q]     l == row_locks[n][k]
    IN
    /\ InQueue(n, s) /\ d \in Decision
    /\ last_seq' = [last_seq EXCEPT ![n] = s]
    /\ next_seq' = [next_seq EXCEPT ![n] = s + 1]
    /\ tpc_queue' = Erased(n, s + 1)
    /\ hist' = [hist EXCEPT ![n] = Append(@, [seq |-> s, req |-> q, dec |-> d])]
    /\ \E after \in UnlockOutcomes(l, t) :
         row_locks' = [row_locks EXCEPT ![n][k] =
                         IF d = "COMMIT" /\ q \in Deletes
                         THEN Unheld("absent") ELSE after]
    /\ Answered(n, q, IF d = "COMMIT" THEN "OK" ELSE "ERR")
    /\ UNCHANGED <<tpc_queue_lock, queued_transactions, tpc_log>>

(* The next transaction is undecided: return, tpc_queue_lock still locked. *)
QuitUndecided(n) ==
    /\ InQueue(n, next_seq[n]) /\ tpc_queue[n][next_seq[n]] = "PREPARE"
    /\ next_seq' = [next_seq EXCEPT ![n] = 0]
    /\ UNCHANGED <<last_seq, tpc_queue, tpc_queue_lock, queued_transactions,
                   row_locks, tpc_log, msg_queue, hist, reply>>

(* The next transaction is not in the queue: unlock and return.            *)
LeaveQueue(n) ==
    /\ ~InQueue(n, next_seq[n])
    /\ tpc_queue_lock' = [tpc_queue_lock EXCEPT ![n] = FALSE]
    /\ next_seq' = [next_seq EXCEPT ![n] = 0]
    /\ UNCHANGED <<last_seq, tpc_queue, queued_transactions,
                   row_locks, tpc_log, msg_queue, hist, reply>>

PrimaryEntersQueue(t) ==
    /\ pc[t] = "process" /\ EnterQueue(Primary)
    /\ Goto(t, "loop")
    /\ UNCHANGED <<pvars, cvars, last_seq, tpc_queue, queued_transactions,
                   row_locks, tpc_log, msg_queue, hist, reply, at, arg, rpc, up>>

PrimaryApplies(t) ==
    /\ pc[t] = "loop" /\ ApplyNext(Primary, t)
    /\ UNCHANGED <<pvars, cvars, tvars>>

PrimaryReturns(t) ==
    /\ pc[t] = "loop" /\ (QuitUndecided(Primary) \/ LeaveQueue(Primary))
    /\ Return(t)
    /\ UNCHANGED <<pvars, cvars, rpc, up>>

-----------------------------------------------------------------------------
(* A replica handles the messages of the primary, one after the other.     *)

Incoming(r) ==
    /\ up[r] /\ rpc[r] = "idle" /\ ~tpc_queue_lock[r]
    /\ to_replica[r] # <<>>

VoteOnPrevious(yes, s) ==            \* seeded fault: off by one
    [type |-> IF yes THEN "YES" ELSE "NO", seq |-> s - 1, req |-> None]
VoteOn(yes, s) ==
    [type |-> IF yes THEN "YES" ELSE "NO", seq |-> s, req |-> None]

(* PREPARE: log it, queue it, try the row lock and vote; a replica that is *)
(* rebuilding a tablet (is_recovering) votes NO even with the lock.        *)
ReplicaVotes(r) ==
    LET s == Head(to_replica[r]).seq  k == KeyOf[req_of[s]]
        l == row_locks[r][k]
    IN
    /\ Incoming(r) /\ Head(to_replica[r]).type = "PREPARE"
    /\ to_replica' = [to_replica EXCEPT ![r] = Tail(@)]
    /\ IF last_seq[r] >= s \/ tpc_queue[r][s] # "none"
       THEN UNCHANGED <<tpc_log, tpc_queue, row_locks, to_primary>>
       ELSE /\ tpc_log' = [tpc_log EXCEPT ![r] =
                             @ \cup {[type |-> "PREPARE", seq |-> s]}]
            /\ tpc_queue' = [tpc_queue EXCEPT ![r][s] = "PREPARE"]
            /\ \E readerBusy \in ReaderBusy(r, k), recovering \in BOOLEAN :
                 LET yes == LockGranted(l, readerBusy) /\ ~recovering IN
                 /\ row_locks' = [row_locks EXCEPT ![r][k] =
                                    LockAfterTry(l, readerBusy, r, s)]
                 /\ to_primary' = [to_primary EXCEPT ![r] =
                                     Append(@, VoteOn(yes, s))]
    /\ UNCHANGED <<pvars, tvars, last_seq, next_seq, tpc_queue_lock,
                   queued_transactions, msg_queue, hist, reply>>

(* COMMIT or ABORT: unless already processed, mark, log, set the status    *)
(* and process the queue.                                                  *)
ReplicaDecides(r) ==
    LET m == Head(to_replica[r]) IN
    /\ Incoming(r) /\ m.type \in Decision
    /\ to_replica' = [to_replica EXCEPT ![r] = Tail(@)]
    /\ IF AlreadyProcessed(r, m.seq)
       THEN UNCHANGED <<queued_transactions, tpc_log, tpc_queue, rpc,
                        tpc_queue_lock, next_seq>>
       ELSE /\ queued_transactions' = [queued_transactions EXCEPT ![r] = @ \cup {m.seq}]
            /\ tpc_log' = [tpc_log EXCEPT ![r] = @ \cup {m}]
            /\ tpc_queue' = WithStatus(r, m.seq, m.type)
            /\ EnterQueue(r)
            /\ rpc' = [rpc EXCEPT ![r] = "loop"]
    /\ UNCHANGED <<pvars, to_primary, last_seq, row_locks, msg_queue, hist,
                   reply, pc, at, arg, up>>

ReplicaApplies(r) ==
    /\ up[r] /\ rpc[r] = "loop" /\ ApplyNext(r, r)
    /\ UNCHANGED <<pvars, cvars, tvars>>

ReplicaReturns(r) ==
    /\ up[r] /\ rpc[r] = "loop" /\ (QuitUndecided(r) \/ LeaveQueue(r))
    /\ rpc' = [rpc EXCEPT ![r] = "idle"]
    /\ UNCHANGED <<pvars, cvars, pc, at, arg, up>>

-----------------------------------------------------------------------------
(* tpc_check_function finds a transaction that is too old and aborts it if *)
(* it is still in tpc_queue.                                               *)

FindExpired(s) ==
    /\ pc[Timer] = "idle" /\ s \in tpc_start_time
    /\ Cardinality(expired) < MaxExpired
    /\ expired' = expired \cup {s}
    /\ at' = [at EXCEPT ![Timer] = s]
    /\ Goto(Timer, "expire")
    /\ UNCHANGED <<tpc_seq, tpc_responses, tpc_replicas, tpc_start_time,
                   partition_fds, alive_replicas, req_of, miscounted, nvars, cvars, arg,
                   rpc, up>>

LookUpExpired ==
    /\ pc[Timer] = "expire" /\ ~tpc_queue_lock[Primary]
    /\ IF tpc_queue[Primary][at[Timer]] = "none"
       THEN Return(Timer)
       ELSE /\ Goto(Timer, "check")
            /\ arg' = [arg EXCEPT ![Timer] = "ABORT"]
            /\ UNCHANGED at
    /\ UNCHANGED <<pvars, nvars, cvars, rpc, up>>

-----------------------------------------------------------------------------
(* A replica process dies.  Its connection thread on the primary notices   *)
(* when it polls again, drops the connection and then the alive entry;     *)
(* votes still buffered may or may not have been read by then.             *)

Crash(r) ==
    /\ up[r] /\ Cardinality({x \in Replica : ~up[x]}) < MaxCrashes
    /\ up' = [up EXCEPT ![r] = FALSE]
    /\ UNCHANGED <<pvars, nvars, cvars, pc, at, arg, rpc>>

DropConnection(r) ==
    /\ ~up[r] /\ pc[r] = "idle"
    /\ partition_fds' = partition_fds \ {r}
    /\ Goto(r, "closing")
    /\ UNCHANGED <<tpc_seq, tpc_responses, tpc_replicas, tpc_start_time,
                   alive_replicas, req_of, expired, miscounted, nvars, cvars, at, arg, rpc,
                   up>>

DropAlive(r) ==
    /\ pc[r] = "closing"
    /\ alive_replicas' = alive_replicas \ {r}
    /\ Goto(r, "closed")
    /\ UNCHANGED <<tpc_seq, tpc_responses, tpc_replicas, tpc_start_time,
                   partition_fds, req_of, expired, miscounted, nvars, cvars, at, arg, rpc,
                   up>>

-----------------------------------------------------------------------------
VoteStep(r)     == ReceiveVote(r) \/ LookUpVoted(r) \/ CountYes(r) \/ PrimaryVotes(r)
CommandStep(t)  == StartReplication(t) \/ ExecuteAlone(t) \/ EnqueuePrepare(t)
                   \/ SendPrepare(t)
DecisionStep(t) == CheckUndecided(t) \/ LogDecision(t) \/ SendDecision(t)
                   \/ SetStatus(t) \/ PrimaryEntersQueue(t) \/ PrimaryApplies(t)
                   \/ PrimaryReturns(t)
ReplicaStep(r)  == ReplicaVotes(r) \/ ReplicaDecides(r) \/ ReplicaApplies(r)
                   \/ ReplicaReturns(r)
FrontendStep(q) == ReceiveFromFrontend(q) \/ ForwardToPrimary(q) \/ RefuseAbsent(q)
ClosingStep(r)  == DropConnection(r) \/ DropAlive(r)

Next ==
    \/ \E q \in Req : FrontendStep(q) \/ RegisterForwarded(q)
    \/ \E t \in Thread : CommandStep(t) \/ DecisionStep(t)
    \/ \E r \in Replica : \/ ReceiveForwarded(r) \/ RefuseForwarded(r)
                          \/ VoteStep(r)
                          \/ ReplicaStep(r)
                          \/ Crash(r) \/ ClosingStep(r)
    \/ \E s \in TSeq : FindExpired(s)
    \/ LookUpExpired

Spec == Init /\ [][Next]_vars

(* The scheduler runs every thread that can run, the network delivers what *)
(* a live process waits for, and a transaction left on the timeout list    *)
(* grows old.  Nothing obliges a frontend to send or a replica to crash.   *)
Fairness ==
    /\ \A q \in Req : WF_vars(RegisterForwarded(q))
    /\ \A t \in Thread : WF_vars(CommandStep(t)) /\ WF_vars(DecisionStep(t))
    /\ \A r \in Replica : /\ WF_vars(ReceiveForwarded(r) \/ RefuseForwarded(r) \/ VoteStep(r))
                          /\ WF_vars(ReplicaStep(r))
                          /\ WF_vars(ClosingStep(r))
    /\ WF_vars(\E s \in TSeq : FindExpired(s))
    /\ WF_vars(LookUpExpired)

FairSpec == Spec /\ Fairness

-----------------------------------------------------------------------------
(* Safety.                                                                 *)

Applied(n) == Elems(hist[n])

(* The transactions whose outcome the code does not keep single: those the *)
(* timeout thread touched (DecidedOnce) and those with a vote miscounted   *)
(* (CommitIsUnanimous).                                                    *)
Disputed == expired \cup miscounted

(* Replicated order: two nodes of the partition that have both applied a   *)
(* transaction applied it for the same command and with the same outcome,  *)
(* and every node applies the transactions one by one in the order of      *)
(* their numbers, the primary until it is alone (process_tpc_queue on      *)
(* every node).                                                            *)
SameHistory ==
    /\ \A m, n \in Node : \A e \in Applied(m), f \in Applied(n) :
          e.seq = f.seq /\ e.seq \notin Disputed => e = f
    /\ \A n \in Node : (n = Primary => ~NoReplica) =>
          \A i \in DOMAIN hist[n] : hist[n][i].seq = i

(* A transaction is never both committed and aborted by the primary's log  *)
(* (primary_commit_transaction, primary_abort_transaction), although the   *)
(* threads of all replicas check and mark it in separate critical          *)
(* sections.                                                               *)
OneDecision ==
    \A s \in TSeq \ Disputed :
        ~ {[type |-> d, seq |-> s] : d \in Decision} \subseteq tpc_log[Primary]

(* A decision reaches a table only after the primary has logged it: the    *)
(* order "log, send, apply" of primary_commit_transaction.                 *)
AppliedWasLogged ==
    \A r \in Replica : \A e \in Applied(r) :
        [type |-> e.dec, seq |-> e.seq] \in tpc_log[Primary]

(* What the frontend is told is what the nodes do: after +OK no node has   *)
(* aborted the command and the frontend's own node has it in its table;    *)
(* after -ERR no node has executed it (generate_client_response).          *)
ReplyIsOutcome ==
    \A q \in Req :
        /\ reply[q] = "OK" => \E e \in Applied(Home[q]) : e.req = q /\ e.dec = "COMMIT"
        /\ \A n \in Node : \A e \in Applied(n) :
             e.req = q /\ e.seq \notin Disputed =>
                /\ reply[q] = "OK"  => e.dec = "COMMIT"
                /\ reply[q] = "ERR" => e.dec = "ABORT"

(* A write the primary executed was logged as prepared by every replica    *)
(* that has not crashed, so that it survives the primary (handle_message's *)
(* vote counting), unless a vote was miscounted.                           *)
AckedIsPrepared ==
    \A e \in Applied(Primary) : e.dec = "COMMIT" /\ e.seq \notin miscounted =>
        \A r \in Replica : up[r] =>
            [type |-> "PREPARE", seq |-> e.seq] \in tpc_log[r]

(* execute_command "assumes you already got the locks": a node that        *)
(* executes a transaction holds the row lock on behalf of it.              *)
ExecutesUnderLock ==
    [][\A n \in Node :
         hist'[n] # hist[n] /\ hist'[n][Len(hist'[n])].dec = "COMMIT"
           => LET e == hist'[n][Len(hist'[n])]
                  l == row_locks[n][KeyOf[e.req]]
              IN  \/ l.st = "held" /\ l.for = e.seq
                  \/ NoReplica]_vars

(* "wait for NO/YES + tid + from all replicas" and "if all YES, send       *)
(* COMMIT" (externs.cpp): what the primary commits every replica that has  *)
(* not crashed has prepared.  The count of handle_message compares numbers *)
(* of replicas: with three of them, the YES of one that has died since     *)
(* stands in for one that has not voted, or that votes NO.                 *)
CommitIsUnanimous ==
    \A s \in TSeq : [type |-> "COMMIT", seq |-> s] \in tpc_log[Primary] =>
        \A r \in Replica : up[r] => [type |-> "PREPARE", seq |-> s] \in tpc_log[r]

(* "remove any transactions that have expired only if not already done"    *)
(* (threads.cpp, tpc_check_function): no transaction at all, timed out or  *)
(* not, is decided both ways.  The timeout thread and a vote both pass     *)
(* already_processed before either of them marks the transaction.          *)
DecidedOnce ==
    \A s \in TSeq :
        ~ {[type |-> d, seq |-> s] : d \in Decision} \subseteq tpc_log[Primary]

(* "if receive COMMIT, update and remove from queue" (externs.cpp): what a *)
(* node logged as prepared stays in its tpc_queue until it is applied.     *)
(* process_tpc_queue erases the successor of what it applied.              *)
PreparedIsPending ==
    \A r \in Replica : \A s \in TSeq :
        [type |-> "PREPARE", seq |-> s] \in tpc_log[r] /\ s > last_seq[r]
            => tpc_queue[r][s] # "none"

(* The partition implements one replicated log (module ReplicatedLog): the *)
(* log is the longest history, and every step of every thread is a step of *)
(* that log or invisible.  This is what process_tpc_queue on all nodes and *)
(* the answers to the frontends add up to.  The timeout thread breaks it   *)
(* (DecidedOnce), so it is checked without expired transactions.           *)
Longest == CHOOSE n \in Node : \A m \in Node : Len(hist[m]) <= Len(hist[n])
Log == INSTANCE ReplicatedLog
         WITH log     <- hist[Longest],
              applied <- [n \in Node |-> Len(hist[n])],
              answer  <- reply
ImplementsLog == Log!Spec

-----------------------------------------------------------------------------
(* Liveness: every command a frontend sends is answered in the end, with   *)
(* +OK or with -ERR (the frontend blocks in its read until then).          *)
EveryCommandAnswered ==
    \A q \in Req : (pc[q] # "idle") ~> (reply[q] # "none")

=============================================================================

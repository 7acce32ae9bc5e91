--------------------------- MODULE TwoPhaseProofs ---------------------------
(***************************************************************************)
(* Theorems about module TwoPhase, for every set of replicas, commands and *)
(* keys and every bound: its types; what the votes are worth, that is, one *)
(* decision per transaction, the same on every node, prepared by every     *)
(* replica and told to the frontend; that the partition is a replicated    *)
(* log; and that it executes under locks.                                  *)
(***************************************************************************)
EXTENDS TwoPhase, FiniteSetTheorems, WellFoundedInduction, TLAPS

(* The places at which a thread of the primary works on a transaction, and *)
(* those at which it carries a decision.                                   *)
Working  == PC \ {"idle", "register", "closing", "closed", "done"}
Deciding == {"check", "issue", "send", "status", "process", "loop"}

(* A thread works on a transaction that was numbered, and decides with a   *)
(* decision.                                                               *)
ThreadInv ==
    \A t \in Thread :
        /\ pc[t] \in Working  => at[t] \in 1..tpc_seq
        /\ pc[t] \in Deciding => arg[t] \in Decision

(* Numbers in queues, channels and the timeout list were handed out, and   *)
(* each number handed out has its command.                                 *)
NumberInv ==
    /\ \A s \in 1..tpc_seq : req_of[s] \in Req
    /\ \A n \in Node : \A s \in TSeq : tpc_queue[n][s] # "none" => s <= tpc_seq
    /\ \A r \in Replica : \A m \in Elems(to_replica[r]) : m.seq <= tpc_seq
    /\ \A r \in Replica : \A m \in Elems(to_primary[r]) : m.seq <= tpc_seq
    /\ tpc_start_time \subseteq 1..tpc_seq

IInv == TypeOK /\ ThreadInv /\ NumberInv

-----------------------------------------------------------------------------
(* What the operators on sequences, locks, channels and queues return.     *)

(* Reading the first message of a channel leaves the others in it.         *)
LEMMA HeadTail ==
    ASSUME NEW S, NEW q \in Seq(S), q # <<>>
    PROVE  /\ Head(q) \in S /\ Head(q) \in Elems(q)
           /\ Tail(q) \in Seq(S) /\ Elems(Tail(q)) \subseteq Elems(q)
<1>1. Len(q) \in Nat \ {0} /\ Head(q) = q[1] /\ DOMAIN q = 1..Len(q)
    OBVIOUS
<1>2. /\ Tail(q) \in Seq(S) /\ DOMAIN Tail(q) = 1..(Len(q) - 1)
      /\ \A i \in 1..(Len(q) - 1) : Tail(q)[i] = q[i + 1]
    BY <1>1
<1>3. \A i \in DOMAIN Tail(q) : i + 1 \in DOMAIN q
    BY <1>1, <1>2
<1> QED BY <1>1, <1>2, <1>3 DEF Elems

(* Writing a message to a channel adds that message only.                  *)
LEMMA AppendElems ==
    ASSUME NEW S, NEW q \in Seq(S), NEW x \in S
    PROVE  Append(q, x) \in Seq(S) /\ Elems(Append(q, x)) = Elems(q) \cup {x}
<1>1. /\ Len(q) \in Nat /\ DOMAIN q = 1..Len(q)
      /\ Append(q, x) \in Seq(S) /\ DOMAIN Append(q, x) = 1..(Len(q) + 1)
      /\ \A i \in 1..Len(q) : Append(q, x)[i] = q[i]
      /\ Append(q, x)[Len(q) + 1] = x
    OBVIOUS
<1>2. \A i \in 1..(Len(q) + 1) : i \in 1..Len(q) \/ i = Len(q) + 1
    BY <1>1
<1>3. 1..Len(q) \subseteq 1..(Len(q) + 1) /\ Len(q) + 1 \in 1..(Len(q) + 1)
    BY <1>1
<1> QED BY <1>1, <1>2, <1>3 DEF Elems

(* forward_msg adds at most its message to each channel.                   *)
LEMMA ForwardedElems ==
    ASSUME ChannelTypeOK, NEW m \in Record
    PROVE  /\ Forwarded(m) \in [Replica -> Seq(Record)]
           /\ \A r \in Replica :
                Elems(Forwarded(m)[r]) \subseteq Elems(to_replica[r]) \cup {m}
<1>1. \A r \in Replica : /\ Append(to_replica[r], m) \in Seq(Record)
                         /\ Elems(Append(to_replica[r], m)) = Elems(to_replica[r]) \cup {m}
    BY AppendElems DEF ChannelTypeOK
<1> QED BY <1>1 DEF Forwarded, ChannelTypeOK

(* Lock objects stay lock objects.                                         *)
LEMMA LockTypes ==
    ASSUME NEW l \in Lock
    PROVE  /\ Existing(l) \in Lock
           /\ \A st \in {"absent", "free", "corrupt"} : Unheld(st) \in Lock
           /\ \A b \in BOOLEAN : \A r \in Replica : \A s \in Nat :
                LockAfterTry(l, b, r, s) \in Lock
           /\ \A t : \A x \in UnlockOutcomes(l, t) : x \in Lock
<1>1. \A st \in {"absent", "free", "corrupt"} : Unheld(st) \in Lock
    BY DEF Unheld, Lock
<1>2. Existing(l) \in Lock
    BY <1>1 DEF Existing
<1>3. \A b \in BOOLEAN : \A r \in Replica : \A s \in Nat :
         LockAfterTry(l, b, r, s) \in Lock
    BY <1>2 DEF LockAfterTry, Lock
<1>4. \A t : \A x \in UnlockOutcomes(l, t) : x \in Lock
    BY <1>1 DEF UnlockOutcomes
<1> QED BY <1>1, <1>2, <1>3, <1>4

(* row_locks keeps its type when one lock changes.                         *)
LEMMA RowLockUpdate ==
    ASSUME row_locks \in [Node -> [Key -> Lock]], NEW n \in Node, NEW k, NEW x,
           k \in Key => x \in Lock
    PROVE  [row_locks EXCEPT ![n][k] = x] \in [Node -> [Key -> Lock]]
OBVIOUS

(* Setting a status or erasing an entry puts nothing new into a queue.     *)
LEMMA StatusUpdate ==
    ASSUME tpc_queue \in [Node -> [TSeq -> Status]], NEW n \in Node, NEW s,
           NEW d \in Decision
    PROVE  /\ WithStatus(n, s, d) \in [Node -> [TSeq -> Status]]
           /\ \A m \in Node : \A x \in TSeq :
                \/ WithStatus(n, s, d)[m][x] = tpc_queue[m][x]
                \/ /\ m = n /\ x = s /\ tpc_queue[m][x] # "none"
                   /\ WithStatus(n, s, d)[m][x] = d
BY DEF WithStatus, Status, Decision

LEMMA EraseUpdate ==
    ASSUME tpc_queue \in [Node -> [TSeq -> Status]], NEW n \in Node, NEW s
    PROVE  /\ Erased(n, s) \in [Node -> [TSeq -> Status]]
           /\ \A m \in Node : \A x \in TSeq :
                Erased(n, s)[m][x] \in {tpc_queue[m][x], "none"}
BY DEF Erased, Status

(* Answering a frontend keeps the types of reply and msg_queue.            *)
LEMMA AnsweredTypes ==
    ASSUME NodeTypeOK, NEW n \in Node, NEW q, NEW text \in {"OK", "ERR"},
           Answered(n, q, text)
    PROVE  reply' \in [Req -> {"none", "OK", "ERR"}] /\ msg_queue' \in [Node -> SUBSET Req]
BY DEF Answered, NodeTypeOK

(* A thread that moves on to a place whose demands it meets, or returns,   *)
(* keeps the invariants on threads.                                        *)
LEMMA GotoKeeps ==
    ASSUME ThreadTypeOK, ThreadInv, NEW t \in Thread, NEW place \in PC,
           Goto(t, place), UNCHANGED <<at, arg, rpc, up, tpc_seq>>,
           place \in Working => at[t] \in 1..tpc_seq,
           place \in Deciding => arg[t] \in Decision
    PROVE  ThreadTypeOK' /\ ThreadInv'
BY DEF ThreadTypeOK, ThreadInv, Goto

LEMMA ReturnKeeps ==
    ASSUME ThreadTypeOK, ThreadInv, NEW t \in Thread, Return(t),
           UNCHANGED <<rpc, up, tpc_seq>>, PrimaryTypeOK
    PROVE  ThreadTypeOK' /\ ThreadInv'
<1> USE ConstantsAssumption DEF Return, Goto, ThreadTypeOK, PC
<1>1. ThreadTypeOK'
    OBVIOUS
<1>2. ThreadInv'
    BY DEF ThreadInv, Working, Deciding
<1> QED BY <1>1, <1>2

(* What is in a typed sequence has its type.                               *)
LEMMA ElemsType ==
    ASSUME NEW S, NEW q \in Seq(S) PROVE Elems(q) \subseteq S
BY DEF Elems

(* Handing out a transaction number: messages already sent keep numbers    *)
(* that were handed out.                                                   *)
LEMMA NumberedKeeps ==
    ASSUME IInv, NEW t \in Thread, NEW q \in Req, Numbered(t, q),
           UNCHANGED <<tpc_responses, tpc_replicas, tpc_start_time, partition_fds,
                       alive_replicas, expired, miscounted, tpc_queue, to_replica, arg, rpc, up>>,
           \A r \in Replica : Elems(to_primary'[r]) \subseteq Elems(to_primary[r])
    PROVE  /\ PrimaryTypeOK' /\ ThreadTypeOK' /\ ThreadInv' /\ NumberInv'
           /\ row_locks' \in [Node -> [Key -> Lock]]
<1> USE DEF IInv, TypeOK, Numbered
<1>1. /\ tpc_seq \in Nat /\ tpc_seq + 1 \in TSeq /\ MaxSeq \in Nat
      /\ 1..tpc_seq' = 1..tpc_seq \cup {tpc_seq'}
    BY ConstantsAssumption DEF PrimaryTypeOK, TSeq
<1>2. PrimaryTypeOK'
    BY <1>1 DEF PrimaryTypeOK, TSeq
<1>3. row_locks' \in [Node -> [Key -> Lock]]
  <2>1. Primary \in Node BY DEF Node
  <2>2. KeyOf[q] \in Key => Existing(row_locks[Primary][KeyOf[q]]) \in Lock
    BY <2>1, LockTypes DEF NodeTypeOK
  <2> QED BY <2>1, <2>2, RowLockUpdate DEF NodeTypeOK
<1>4. ThreadTypeOK'
    BY <1>1 DEF ThreadTypeOK, Goto, PC, TSeq
<1>5. ThreadInv'
    BY <1>1 DEF ThreadTypeOK, ThreadInv, Goto, Deciding
<1>6. NumberInv'
  <2>1. \A s \in 1..tpc_seq' : req_of'[s] \in Req
    BY <1>1 DEF NumberInv, PrimaryTypeOK
  <2>2. \A n \in Node : \A s \in TSeq : tpc_queue'[n][s] # "none" => s <= tpc_seq'
    BY <1>1 DEF NumberInv, TSeq
  <2>3. \A r \in Replica : /\ Elems(to_replica[r]) \subseteq Record
                           /\ Elems(to_primary[r]) \subseteq Vote \cup Command
    BY ElemsType DEF ChannelTypeOK
  <2>4. \A r \in Replica : \A m \in Elems(to_replica'[r]) : m.seq <= tpc_seq'
    BY <1>1, <2>3 DEF NumberInv, Record, TSeq
  <2>5. \A r \in Replica : \A m \in Elems(to_primary'[r]) : m.seq <= tpc_seq'
    BY <1>1, <2>3 DEF NumberInv, Vote, Command, TSeq
  <2> QED BY <1>1, <2>1, <2>2, <2>4, <2>5 DEF NumberInv
<1> QED BY <1>2, <1>3, <1>4, <1>5, <1>6

(* One iteration of process_tpc_queue on node n.                           *)
LEMMA ApplyNextTypes ==
    ASSUME IInv, NEW n \in Node, NEW t, ApplyNext(n, t)
    PROVE  /\ NodeTypeOK'
           /\ \A m \in Node : \A x \in TSeq :
                 tpc_queue'[m][x] \in {tpc_queue[m][x], "none"}
<1> DEFINE s == next_seq[n]  q == req_of[s]  d == tpc_queue[n][s]  k == KeyOf[q]
<1> USE DEF IInv, TypeOK
<1>1. s \in TSeq /\ d \in Decision /\ q \in Req
    BY DEF ApplyNext, InQueue, NumberInv, PrimaryTypeOK, TSeq, Decision
<1>2. row_locks' \in [Node -> [Key -> Lock]]
  <2>1. PICK after \in UnlockOutcomes(row_locks[n][k], t) :
           row_locks' = [row_locks EXCEPT ![n][k] =
                           IF d = "COMMIT" /\ q \in Deletes
                           THEN Unheld("absent") ELSE after]
    BY DEF ApplyNext
  <2>2. ASSUME k \in Key PROVE after \in Lock /\ Unheld("absent") \in Lock
    <3>1. row_locks[n][k] \in Lock
      BY <2>2 DEF NodeTypeOK
    <3> QED BY <2>1, <3>1, LockTypes
  <2> QED BY <2>1, <2>2, RowLockUpdate DEF NodeTypeOK
<1>3. hist' \in [Node -> Seq(Entry)]
  <2>1. [seq |-> s, req |-> q, dec |-> d] \in Entry
    BY <1>1 DEF Entry
  <2>2. Append(hist[n], [seq |-> s, req |-> q, dec |-> d]) \in Seq(Entry)
    BY <2>1, AppendElems DEF NodeTypeOK
  <2> QED BY <2>2 DEF ApplyNext, NodeTypeOK
<1>4. /\ tpc_queue' \in [Node -> [TSeq -> Status]]
      /\ \A m \in Node : \A x \in TSeq :
            tpc_queue'[m][x] \in {tpc_queue[m][x], "none"}
  <2>1. tpc_queue' = Erased(n, s + 1)
    BY DEF ApplyNext
  <2> QED BY <2>1, EraseUpdate DEF NodeTypeOK
<1>5. reply' \in [Req -> {"none", "OK", "ERR"}] /\ msg_queue' \in [Node -> SUBSET Req]
  <2>1. Answered(n, q, IF d = "COMMIT" THEN "OK" ELSE "ERR")
    BY DEF ApplyNext
  <2> QED BY <2>1, AnsweredTypes
<1>6. last_seq' \in [Node -> Nat] /\ next_seq' \in [Node -> Nat]
    BY <1>1 DEF ApplyNext, NodeTypeOK, TSeq
<1>7. UNCHANGED <<tpc_queue_lock, queued_transactions, tpc_log>>
    BY DEF ApplyNext
<1> QED BY <1>2, <1>3, <1>4, <1>5, <1>6, <1>7 DEF NodeTypeOK

(* Leaving process_tpc_queue, with or without the unlock.                  *)
LEMMA LeaveTypes ==
    ASSUME IInv, NEW n \in Node, QuitUndecided(n) \/ LeaveQueue(n)
    PROVE  NodeTypeOK' /\ UNCHANGED tpc_queue
<1> USE DEF IInv, TypeOK
<1>1. /\ next_seq' = [next_seq EXCEPT ![n] = 0]
      /\ \/ tpc_queue_lock' = tpc_queue_lock
         \/ tpc_queue_lock' = [tpc_queue_lock EXCEPT ![n] = FALSE]
      /\ UNCHANGED <<last_seq, tpc_queue, queued_transactions, row_locks, tpc_log,
                     msg_queue, hist, reply>>
    BY DEF QuitUndecided, LeaveQueue
<1>2. next_seq' \in [Node -> Nat] /\ tpc_queue_lock' \in [Node -> BOOLEAN]
    BY <1>1 DEF NodeTypeOK
<1> QED BY <1>1, <1>2 DEF NodeTypeOK

-----------------------------------------------------------------------------
(* The inductive invariant.                                                *)

LEMMA InitIInv == Init => IInv
<1> SUFFICES ASSUME Init PROVE IInv
    OBVIOUS
<1>1. TypeOK
    BY ConstantsAssumption DEF Init, TypeOK, PrimaryTypeOK, NodeTypeOK,
       ChannelTypeOK, ThreadTypeOK, Lock, Unheld, PC, Status
<1>2. ThreadInv
    BY DEF Init, ThreadInv, Working, Deciding
<1>3. NumberInv
    BY ConstantsAssumption DEF Init, NumberInv, Elems
<1> QED BY <1>1, <1>2, <1>3 DEF IInv

LEMMA NextIInv == IInv /\ [Next]_vars => IInv'
<1> SUFFICES ASSUME IInv, [Next]_vars PROVE IInv'
    OBVIOUS
<1> USE DEF IInv, TypeOK
<1>a. /\ Primary \in Node /\ Replica \subseteq Node
      /\ Replica \subseteq Thread /\ Req \subseteq Thread /\ Timer \in Thread
    BY DEF Node, Thread
<1>b. tpc_seq \in 0..MaxSeq /\ MaxSeq \in Nat
    BY ConstantsAssumption DEF PrimaryTypeOK
<1>1. ASSUME NEW q \in Req, ReceiveFromFrontend(q) PROVE IInv'
  <2> USE <1>1, <1>a, <1>b DEF ReceiveFromFrontend
  <2>1. PrimaryTypeOK' /\ ThreadTypeOK' /\ ThreadInv' /\ NumberInv'
        /\ row_locks' \in [Node -> [Key -> Lock]]
    <3>1. UNCHANGED <<to_replica, to_primary>> /\ q \in Thread
      BY DEF cvars
    <3> QED BY <3>1, NumberedKeeps
  <2>2. NodeTypeOK'
    BY <2>1 DEF NodeTypeOK
  <2>3. ChannelTypeOK'
    BY DEF ChannelTypeOK, cvars
  <2> QED BY <2>1, <2>2, <2>3
<1>2. ASSUME NEW q \in Req, ForwardToPrimary(q) PROVE IInv'
  <2> USE <1>2, <1>a, <1>b DEF ForwardToPrimary
  <2> DEFINE r == Home[q]  m == [type |-> "CMD", seq |-> 0, req |-> q]
  <2>1. /\ Append(to_primary[r], m) \in Seq(Vote \cup Command)
        /\ Elems(Append(to_primary[r], m)) = Elems(to_primary[r]) \cup {m}
    <3>1. m \in Vote \cup Command
      BY DEF Command
    <3>2. to_primary[r] \in Seq(Vote \cup Command)
      BY DEF ChannelTypeOK
    <3> QED BY <3>1, <3>2, AppendElems
  <2>2. NodeTypeOK'
    <3>1. KeyOf[q] \in Key => Existing(row_locks[r][KeyOf[q]]) \in Lock
      BY LockTypes DEF NodeTypeOK
    <3>2. row_locks' \in [Node -> [Key -> Lock]]
      BY <3>1, RowLockUpdate DEF NodeTypeOK
    <3> QED BY <3>2 DEF NodeTypeOK
  <2>3. ChannelTypeOK'
    BY <2>1 DEF ChannelTypeOK
  <2>4. ThreadTypeOK' /\ ThreadInv'
    <3>1. "register" \in PC /\ "register" \notin Working /\ "register" \notin Deciding
      BY DEF PC, Working, Deciding
    <3> QED BY <3>1, GotoKeeps DEF pvars
  <2>5. NumberInv'
    BY <2>1 DEF NumberInv, ChannelTypeOK, pvars
  <2> QED BY <2>2, <2>3, <2>4, <2>5 DEF PrimaryTypeOK, pvars
<1>3. ASSUME NEW q \in Req, RegisterForwarded(q) PROVE IInv'
  <2> USE <1>3, <1>a DEF RegisterForwarded
  <2>1. ThreadTypeOK' /\ ThreadInv'
    <3>1. "done" \in PC /\ "done" \notin Working /\ "done" \notin Deciding
      BY DEF PC, Working, Deciding
    <3> QED BY <3>1, GotoKeeps DEF pvars
  <2> QED BY <2>1 DEF PrimaryTypeOK, NodeTypeOK, ChannelTypeOK, NumberInv, pvars, cvars
<1>c. ASSUME NEW q \in Req, RefuseAbsent(q) PROVE IInv'
  <2> USE <1>c, <1>a DEF RefuseAbsent
  <2>1. ThreadTypeOK' /\ ThreadInv'
    <3>1. "done" \in PC /\ "done" \notin Working /\ "done" \notin Deciding
      BY DEF PC, Working, Deciding
    <3> QED BY <3>1, GotoKeeps DEF pvars
  <2>2. NodeTypeOK'
    BY DEF NodeTypeOK
  <2> QED BY <2>1, <2>2 DEF PrimaryTypeOK, ChannelTypeOK, NumberInv, pvars, cvars
<1>d. ASSUME NEW r \in Replica, RefuseForwarded(r) PROVE IInv'
  <2>1. /\ to_primary' = [to_primary EXCEPT ![r] = Tail(to_primary[r])]
        /\ UNCHANGED <<pvars, nvars, tvars, to_replica>> /\ to_primary[r] # <<>>
    BY <1>d DEF RefuseForwarded, ChannelTypeOK
  <2>2. /\ Tail(to_primary[r]) \in Seq(Vote \cup Command)
        /\ Elems(Tail(to_primary[r])) \subseteq Elems(to_primary[r])
    BY <2>1, HeadTail DEF ChannelTypeOK
  <2>3. ChannelTypeOK'
    BY <2>1, <2>2 DEF ChannelTypeOK
  <2>4. NumberInv'
    BY <2>1, <2>2 DEF NumberInv, ChannelTypeOK, pvars, nvars
  <2> QED BY <2>1, <2>3, <2>4 DEF PrimaryTypeOK, NodeTypeOK, ThreadTypeOK, ThreadInv,
                                  pvars, nvars, tvars
<1>4. ASSUME NEW t \in Thread, StartReplication(t) PROVE IInv'
  <2> USE <1>4 DEF StartReplication
  <2>1. ThreadTypeOK' /\ ThreadInv'
    <3>1. "enqueue" \in PC /\ "enqueue" \notin Deciding /\ pc[t] \in Working
      BY DEF PC, Working, Deciding
    <3> QED BY <3>1, GotoKeeps DEF ThreadInv, pvars
  <2> QED BY <2>1 DEF PrimaryTypeOK, NodeTypeOK, ChannelTypeOK, NumberInv, pvars, nvars, cvars
<1>5. ASSUME NEW t \in Thread, ExecuteAlone(t) PROVE IInv'
  <2> USE <1>5, <1>a, <1>b DEF ExecuteAlone
  <2> DEFINE s == at[t]  q == req_of[s]  k == KeyOf[q]
             e == [seq |-> s, req |-> q, dec |-> "COMMIT"]
  <2>1. s \in TSeq /\ q \in Req
    BY DEF ThreadInv, NumberInv, Working, PC, TSeq
  <2>2. row_locks' \in [Node -> [Key -> Lock]]
    <3> DEFINE x == Unheld(IF q \in Deletes THEN "absent" ELSE "free")
               y == Existing(row_locks[Primary][k])
    <3>1. ASSUME k \in Key PROVE x \in Lock /\ y \in Lock
      <4>1. row_locks[Primary][k] \in Lock
        BY <3>1 DEF NodeTypeOK
      <4> HIDE <1>5 DEF k, ExecuteAlone
      <4> QED BY <4>1, LockTypes
    <3>2. \/ row_locks' = [row_locks EXCEPT ![Primary][k] = x]
          \/ row_locks' = [row_locks EXCEPT ![Primary][k] = y]
      BY DEF NodeTypeOK
    <3>3. row_locks \in [Node -> [Key -> Lock]]
      BY DEF NodeTypeOK
    <3> HIDE <1>5 DEF x, y, k, ExecuteAlone
    <3> QED BY <3>1, <3>2, <3>3, RowLockUpdate
  <2>3. reply' \in [Req -> {"none", "OK", "ERR"}] /\ msg_queue' \in [Node -> SUBSET Req]
    <3>1. Answered(Primary, q, "OK") \/ Answered(Primary, q, "ERR")
      OBVIOUS
    <3> QED BY <3>1, AnsweredTypes
  <2>4. last_seq' \in [Node -> Nat] /\ hist' \in [Node -> Seq(Entry)]
    <3>1. Append(hist[Primary], e) \in Seq(Entry)
      BY <2>1, AppendElems DEF NodeTypeOK, Entry, Decision
    <3>2. \/ UNCHANGED <<last_seq, hist>>
          \/ /\ last_seq' = [last_seq EXCEPT ![Primary] = @ + 1]
             /\ hist' = [hist EXCEPT ![Primary] = Append(hist[Primary], e)]
      BY DEF NodeTypeOK
    <3> HIDE <1>5 DEF e, ExecuteAlone
    <3>3. CASE UNCHANGED <<last_seq, hist>>
      BY <3>3 DEF NodeTypeOK
    <3>4. CASE /\ last_seq' = [last_seq EXCEPT ![Primary] = @ + 1]
               /\ hist' = [hist EXCEPT ![Primary] = Append(hist[Primary], e)]
      BY <3>1, <3>4 DEF NodeTypeOK
    <3> QED BY <3>2, <3>3, <3>4
  <2>5. ThreadTypeOK' /\ ThreadInv'
    BY ReturnKeeps DEF pvars
  <2>6. NodeTypeOK'
    BY <2>2, <2>3, <2>4 DEF NodeTypeOK
  <2> QED BY <2>5, <2>6 DEF PrimaryTypeOK, ChannelTypeOK, NumberInv, pvars, cvars
<1>6. ASSUME NEW t \in Thread, EnqueuePrepare(t) PROVE IInv'
  <2> USE <1>6, <1>a, <1>b DEF EnqueuePrepare
  <2>1. at[t] \in 1..tpc_seq /\ at[t] \in TSeq
    BY DEF ThreadInv, Working, PC, TSeq
  <2>2. PrimaryTypeOK'
    BY <2>1 DEF PrimaryTypeOK
  <2>3. NodeTypeOK'
    BY DEF NodeTypeOK, Status
  <2>4. ThreadTypeOK' /\ ThreadInv'
    <3>1. "snapshot" \in PC /\ "snapshot" \notin Deciding
      BY DEF PC, Deciding
    <3> QED BY <2>1, <3>1, GotoKeeps
  <2>5. NumberInv'
    BY <2>1 DEF NumberInv, NodeTypeOK, cvars
  <2> QED BY <2>2, <2>3, <2>4, <2>5 DEF ChannelTypeOK, cvars
<1>7. ASSUME NEW t \in Thread, SendPrepare(t) PROVE IInv'
  <2> USE <1>7, <1>a, <1>b DEF SendPrepare
  <2> DEFINE m == [type |-> "PREPARE", seq |-> at[t]]
  <2>1. at[t] \in 1..tpc_seq /\ m \in Record
    BY DEF ThreadInv, Working, PC, TSeq, Record
  <2>2. PrimaryTypeOK'
    BY DEF PrimaryTypeOK
  <2>3. NodeTypeOK'
    BY <2>1 DEF NodeTypeOK
  <2>4. ChannelTypeOK'
    BY <2>1, ForwardedElems DEF ChannelTypeOK
  <2>5. ThreadTypeOK' /\ ThreadInv'
    BY ReturnKeeps
  <2>6. NumberInv'
    <3>1. \A r \in Replica : Elems(to_replica'[r]) \subseteq Elems(to_replica[r]) \cup {m}
      BY <2>1, ForwardedElems
    <3>2. \A r \in Replica : \A x \in Elems(to_replica'[r]) : x.seq <= tpc_seq
      BY <2>1, <3>1 DEF NumberInv
    <3> QED BY <3>2 DEF NumberInv
  <2> QED BY <2>2, <2>3, <2>4, <2>5, <2>6
<1>8. ASSUME NEW t \in Thread, CheckUndecided(t) PROVE IInv'
  <2> USE <1>8 DEF CheckUndecided
  <2>1. ThreadTypeOK' /\ ThreadInv'
    <3>1. CASE Return(t)
      BY <3>1, ReturnKeeps DEF pvars
    <3>2. CASE Goto(t, "issue") /\ UNCHANGED <<at, arg>>
      <4>1. "issue" \in PC /\ pc[t] \in Working /\ pc[t] \in Deciding
        BY DEF PC, Working, Deciding
      <4> QED BY <3>2, <4>1, GotoKeeps DEF ThreadInv, pvars
    <3> QED BY <3>1, <3>2
  <2> QED BY <2>1 DEF PrimaryTypeOK, NodeTypeOK, ChannelTypeOK, NumberInv, pvars, nvars, cvars
<1>9. ASSUME NEW t \in Thread, LogDecision(t) PROVE IInv'
  <2> USE <1>9, <1>a, <1>b DEF LogDecision
  <2>1. /\ at[t] \in 1..tpc_seq /\ at[t] \in TSeq /\ arg[t] \in Decision
        /\ [type |-> arg[t], seq |-> at[t]] \in Record
    BY DEF ThreadInv, Working, Deciding, PC, TSeq, Record
  <2>2. PrimaryTypeOK'
    BY DEF PrimaryTypeOK
  <2>3. NodeTypeOK'
    BY <2>1 DEF NodeTypeOK
  <2>4. ThreadTypeOK' /\ ThreadInv'
    <3>1. "send" \in PC BY DEF PC
    <3> QED BY <2>1, <3>1, GotoKeeps
  <2> QED BY <2>2, <2>3, <2>4 DEF NumberInv, ChannelTypeOK, cvars
<1>e. ASSUME NEW t \in Thread, SendDecision(t) PROVE IInv'
  <2> USE <1>e, <1>a, <1>b DEF SendDecision
  <2> DEFINE m == [type |-> arg[t], seq |-> at[t]]
  <2>1. at[t] \in 1..tpc_seq /\ arg[t] \in Decision /\ m \in Record
    BY DEF ThreadInv, Working, Deciding, PC, TSeq, Record
  <2>2. ChannelTypeOK'
    BY <2>1, ForwardedElems DEF ChannelTypeOK
  <2>3. ThreadTypeOK' /\ ThreadInv'
    <3>1. "status" \in PC BY DEF PC
    <3> QED BY <2>1, <3>1, GotoKeeps DEF pvars
  <2>4. NumberInv'
    <3>1. \A r \in Replica : Elems(to_replica'[r]) \subseteq Elems(to_replica[r]) \cup {m}
      BY <2>1, ForwardedElems
    <3>2. \A r \in Replica : \A x \in Elems(to_replica'[r]) : x.seq <= tpc_seq
      BY <2>1, <3>1 DEF NumberInv
    <3> QED BY <3>2 DEF NumberInv, pvars, nvars
  <2> QED BY <2>2, <2>3, <2>4 DEF PrimaryTypeOK, NodeTypeOK, pvars, nvars
<1>10. ASSUME NEW t \in Thread, SetStatus(t) PROVE IInv'
  <2> USE <1>10, <1>a DEF SetStatus
  <2>1. at[t] \in 1..tpc_seq /\ arg[t] \in Decision
    BY DEF ThreadInv, Working, Deciding, PC
  <2>2. NodeTypeOK'
    BY <2>1, StatusUpdate DEF NodeTypeOK
  <2>3. ThreadTypeOK' /\ ThreadInv'
    <3>1. "process" \in PC BY DEF PC
    <3> QED BY <2>1, <3>1, GotoKeeps DEF pvars
  <2>4. NumberInv'
    <3>1. \A n \in Node : \A x \in TSeq :
             tpc_queue'[n][x] # "none" => tpc_queue[n][x] # "none"
      BY <2>1, StatusUpdate DEF NodeTypeOK
    <3> QED BY <3>1 DEF NumberInv, pvars, cvars
  <2> QED BY <2>2, <2>3, <2>4 DEF PrimaryTypeOK, ChannelTypeOK, pvars, cvars
<1>11. ASSUME NEW t \in Thread, PrimaryEntersQueue(t) PROVE IInv'
  <2> USE <1>11, <1>a DEF PrimaryEntersQueue
  <2>1. NodeTypeOK'
    BY DEF NodeTypeOK, EnterQueue
  <2>2. ThreadTypeOK' /\ ThreadInv'
    <3>1. "loop" \in PC /\ pc[t] \in Working /\ pc[t] \in Deciding
      BY DEF PC, Working, Deciding
    <3> QED BY <3>1, GotoKeeps DEF ThreadInv, pvars
  <2> QED BY <2>1, <2>2 DEF PrimaryTypeOK, ChannelTypeOK, NumberInv, pvars, cvars
<1>12. ASSUME NEW t \in Thread, PrimaryApplies(t) PROVE IInv'
  <2> USE <1>12, <1>a DEF PrimaryApplies
  <2>1. NodeTypeOK' /\ \A m \in Node : \A x \in TSeq :
                          tpc_queue'[m][x] \in {tpc_queue[m][x], "none"}
    BY ApplyNextTypes
  <2>2. NumberInv'
    BY <2>1 DEF NumberInv, pvars, cvars
  <2> QED BY <2>1, <2>2 DEF PrimaryTypeOK, ChannelTypeOK, ThreadTypeOK, ThreadInv,
                            pvars, cvars, tvars
<1>13. ASSUME NEW t \in Thread, PrimaryReturns(t) PROVE IInv'
  <2> USE <1>13, <1>a DEF PrimaryReturns
  <2>1. NodeTypeOK' /\ UNCHANGED tpc_queue
    BY LeaveTypes
  <2>2. ThreadTypeOK' /\ ThreadInv'
    BY ReturnKeeps DEF pvars
  <2> QED BY <2>1, <2>2 DEF PrimaryTypeOK, ChannelTypeOK, NumberInv, pvars, cvars
<1>14. ASSUME NEW r \in Replica, ReceiveForwarded(r) PROVE IInv'
  <2> USE <1>14, <1>a, <1>b DEF ReceiveForwarded
  <2>1. /\ Head(to_primary[r]) \in Vote \cup Command
        /\ Tail(to_primary[r]) \in Seq(Vote \cup Command)
        /\ Elems(Tail(to_primary[r])) \subseteq Elems(to_primary[r])
    BY HeadTail DEF ChannelTypeOK
  <2>2. Head(to_primary[r]).req \in Req
    BY <2>1 DEF Vote, Command
  <2>3. PrimaryTypeOK' /\ ThreadTypeOK' /\ ThreadInv' /\ NumberInv'
        /\ row_locks' \in [Node -> [Key -> Lock]]
    BY <2>1, <2>2, NumberedKeeps DEF ChannelTypeOK
  <2>4. NodeTypeOK'
    BY <2>3 DEF NodeTypeOK
  <2>5. ChannelTypeOK'
    BY <2>1 DEF ChannelTypeOK
  <2> QED BY <2>3, <2>4, <2>5
<1>15. ASSUME NEW r \in Replica, ReceiveVote(r) PROVE IInv'
  <2> USE <1>15, <1>a, <1>b DEF ReceiveVote
  <2> DEFINE m == Head(to_primary[r])
  <2>1. /\ m \in Vote \cup Command /\ m \in Elems(to_primary[r])
        /\ Tail(to_primary[r]) \in Seq(Vote \cup Command)
        /\ Elems(Tail(to_primary[r])) \subseteq Elems(to_primary[r])
    BY HeadTail DEF ChannelTypeOK
  <2>2. m.seq \in 1..tpc_seq /\ m.type \in {"YES", "NO"}
    BY <2>1 DEF Vote, Command, NumberInv, TSeq
  <2>3. ChannelTypeOK' /\ NumberInv'
    BY <2>1 DEF ChannelTypeOK, NumberInv, pvars, nvars
  <2>4. ThreadTypeOK' /\ ThreadInv'
    <3>1. CASE UNCHANGED <<pc, at, arg>>
      BY <3>1 DEF ThreadTypeOK, ThreadInv, pvars
    <3>2. CASE /\ at' = [at EXCEPT ![r] = m.seq]
               /\ arg' = [arg EXCEPT ![r] = m.type]
               /\ Goto(r, "lookup")
      <4>1. ThreadTypeOK'
        BY <2>2, <3>2 DEF ThreadTypeOK, Goto, PC
      <4>2. ThreadInv'
        BY <2>2, <3>2 DEF ThreadTypeOK, ThreadInv, Goto, Deciding, pvars
      <4> QED BY <4>1, <4>2
    <3> QED BY <3>1, <3>2
  <2> QED BY <2>3, <2>4 DEF PrimaryTypeOK, NodeTypeOK, pvars, nvars
<1>16. ASSUME NEW r \in Replica, LookUpVoted(r) PROVE IInv'
  <2> USE <1>16, <1>a DEF LookUpVoted
  <2>1. at[r] \in 1..tpc_seq
    BY DEF ThreadInv, Working, PC
  <2>2. ThreadTypeOK' /\ ThreadInv'
    <3>1. CASE Return(r)
      BY <3>1, ReturnKeeps DEF pvars
    <3>2. CASE Goto(r, "respond") /\ UNCHANGED <<at, arg>>
      <4>1. "respond" \in PC /\ "respond" \notin Deciding BY DEF PC, Deciding
      <4> QED BY <2>1, <3>2, <4>1, GotoKeeps DEF pvars
    <3>3. CASE Goto(r, "check") /\ arg' = [arg EXCEPT ![r] = "ABORT"] /\ UNCHANGED at
      <4>1. ThreadTypeOK'
        BY <3>3 DEF ThreadTypeOK, Goto, PC, Decision
      <4>2. ThreadInv'
        BY <2>1, <3>3 DEF ThreadTypeOK, ThreadInv, Goto, Decision, pvars
      <4> QED BY <4>1, <4>2
    <3> QED BY <3>1, <3>2, <3>3
  <2> QED BY <2>2 DEF PrimaryTypeOK, NodeTypeOK, ChannelTypeOK, NumberInv, pvars, nvars, cvars
<1>17. ASSUME NEW r \in Replica, CountYes(r) PROVE IInv'
  <2> USE <1>17, <1>a DEF CountYes
  <2>1. PrimaryTypeOK'
    <3>1. at[r] \in TSeq
      BY <1>b DEF ThreadInv, Working, PC, TSeq
    <3> QED BY <3>1 DEF PrimaryTypeOK
  <2>2. ThreadTypeOK' /\ ThreadInv'
    <3>1. CASE Return(r)
      BY <3>1, ReturnKeeps
    <3>2. CASE Goto(r, "getlock") /\ UNCHANGED <<at, arg>>
      <4>1. "getlock" \in PC /\ "getlock" \notin Deciding /\ pc[r] \in Working
        BY DEF PC, Deciding, Working
      <4> QED BY <3>2, <4>1, GotoKeeps DEF ThreadInv
    <3> QED BY <3>1, <3>2
  <2> QED BY <2>1, <2>2 DEF NodeTypeOK, ChannelTypeOK, NumberInv, nvars, cvars
<1>18. ASSUME NEW r \in Replica, PrimaryVotes(r) PROVE IInv'
  <2> USE <1>18, <1>a DEF PrimaryVotes
  <2> DEFINE s == at[r]  k == KeyOf[req_of[s]]
  <2>1. s \in Nat /\ s \in 1..tpc_seq
    BY <1>b DEF ThreadInv, Working, PC
  <2>2. PICK b \in ReaderBusy(Primary, k) :
          /\ arg' = [arg EXCEPT ![r] =
                IF LockGranted(row_locks[Primary][k], b) THEN "COMMIT" ELSE "ABORT"]
          /\ row_locks' = [row_locks EXCEPT ![Primary][k] =
                LockAfterTry(row_locks[Primary][k], b, r, s)]
    OBVIOUS
  <2>3. NodeTypeOK'
    <3>1. ASSUME k \in Key PROVE LockAfterTry(row_locks[Primary][k], b, r, s) \in Lock
      <4>1. row_locks[Primary][k] \in Lock
        BY <3>1 DEF NodeTypeOK
      <4>2. b \in BOOLEAN
        BY DEF ReaderBusy
      <4> QED BY <2>1, <4>1, <4>2, LockTypes
    <3>2. row_locks' \in [Node -> [Key -> Lock]]
      BY <2>2, <3>1, RowLockUpdate DEF NodeTypeOK
    <3> QED BY <3>2 DEF NodeTypeOK
  <2>4. ThreadTypeOK'
    BY <2>2 DEF ThreadTypeOK, Goto, PC, Decision
  <2>5. ThreadInv'
    BY <2>1, <2>2 DEF ThreadTypeOK, ThreadInv, Goto, Decision, pvars
  <2> QED BY <2>3, <2>4, <2>5 DEF PrimaryTypeOK, ChannelTypeOK, NumberInv, pvars, cvars
<1>19. ASSUME NEW r \in Replica, ReplicaVotes(r) PROVE IInv'
  <2> DEFINE m == Head(to_replica[r])  s == m.seq  k == KeyOf[req_of[s]]
             l == row_locks[r][k]
  <2>1. /\ m \in Record /\ m \in Elems(to_replica[r])
        /\ Tail(to_replica[r]) \in Seq(Record)
        /\ Elems(Tail(to_replica[r])) \subseteq Elems(to_replica[r])
    BY <1>19, HeadTail DEF ChannelTypeOK, Incoming, ReplicaVotes
  <2>2. s \in TSeq /\ s <= tpc_seq
    BY <2>1 DEF Record, NumberInv
  <2>3. /\ to_replica' = [to_replica EXCEPT ![r] = Tail(to_replica[r])]
        /\ UNCHANGED <<pvars, tvars, last_seq, next_seq, tpc_queue_lock,
                       queued_transactions, msg_queue, hist, reply>>
    BY <1>19 DEF ReplicaVotes, ChannelTypeOK
  <2>4. PrimaryTypeOK' /\ ThreadTypeOK' /\ ThreadInv'
    BY <2>3 DEF PrimaryTypeOK, ThreadTypeOK, ThreadInv, pvars, tvars
  <2>5. CASE UNCHANGED <<tpc_log, tpc_queue, row_locks, to_primary>>
    <3>1. NodeTypeOK' /\ ChannelTypeOK'
      BY <2>1, <2>3, <2>5 DEF NodeTypeOK, ChannelTypeOK
    <3>2. NumberInv'
      BY <2>1, <2>3, <2>5 DEF NumberInv, ChannelTypeOK, pvars
    <3> QED BY <2>4, <3>1, <3>2
  <2>6. CASE ~ UNCHANGED <<tpc_log, tpc_queue, row_locks, to_primary>>
    <3>1. /\ tpc_queue' = [tpc_queue EXCEPT ![r][s] = "PREPARE"]
          /\ tpc_log' = [tpc_log EXCEPT ![r] = @ \cup {[type |-> "PREPARE", seq |-> s]}]
          /\ \E b \in ReaderBusy(r, k), c \in BOOLEAN :
               /\ row_locks' = [row_locks EXCEPT ![r][k] = LockAfterTry(l, b, r, s)]
               /\ to_primary' = [to_primary EXCEPT ![r] =
                                   Append(to_primary[r], VoteOn(LockGranted(l, b) /\ ~c, s))]
      BY <1>19, <2>6 DEF ReplicaVotes, ChannelTypeOK
    <3>2. PICK b \in ReaderBusy(r, k), c \in BOOLEAN :
            /\ row_locks' = [row_locks EXCEPT ![r][k] = LockAfterTry(l, b, r, s)]
            /\ to_primary' = [to_primary EXCEPT ![r] =
                                Append(to_primary[r], VoteOn(LockGranted(l, b) /\ ~c, s))]
      BY <3>1
    <3> DEFINE v == VoteOn(LockGranted(l, b) /\ ~c, s)
    <3> HIDE DEF m
    <3>3. v \in Vote \cup Command /\ v.seq = s
      BY <2>2 DEF VoteOn, Vote
    <3>4. /\ Append(to_primary[r], v) \in Seq(Vote \cup Command)
          /\ Elems(Append(to_primary[r], v)) = Elems(to_primary[r]) \cup {v}
      <4>1. to_primary[r] \in Seq(Vote \cup Command)
        BY DEF ChannelTypeOK
      <4> HIDE DEF v
      <4> QED BY <3>3, <4>1, AppendElems
    <3>5. ChannelTypeOK'
      BY <2>1, <2>3, <3>2, <3>4 DEF ChannelTypeOK
    <3>6. row_locks' \in [Node -> [Key -> Lock]]
      <4>1. ASSUME k \in Key PROVE LockAfterTry(l, b, r, s) \in Lock
        <5>1. l \in Lock
          BY <1>a, <4>1 DEF NodeTypeOK
        <5>2. s \in Nat
          BY <1>b, <2>2 DEF TSeq
        <5>3. b \in BOOLEAN
          BY DEF ReaderBusy
        <5> QED BY <5>1, <5>2, <5>3, LockTypes
      <4>2. row_locks \in [Node -> [Key -> Lock]] /\ r \in Node
        BY <1>a DEF NodeTypeOK
      <4> HIDE DEF k
      <4> QED BY <3>2, <4>1, <4>2, RowLockUpdate
    <3>7. NodeTypeOK'
      <4>1. tpc_queue' \in [Node -> [TSeq -> Status]]
        BY <3>1 DEF NodeTypeOK, Status
      <4>2. tpc_log' \in [Node -> SUBSET Record]
        <5>1. [type |-> "PREPARE", seq |-> s] \in Record
          BY <2>2 DEF Record
        <5> QED BY <3>1, <5>1 DEF NodeTypeOK
      <4> QED BY <2>3, <3>6, <4>1, <4>2 DEF NodeTypeOK
    <3>8. NumberInv'
      <4>1. \A n \in Node : \A x \in TSeq : tpc_queue'[n][x] # "none" => x <= tpc_seq
        BY <2>2, <3>1 DEF NumberInv, NodeTypeOK
      <4>2. \A p \in Replica : /\ Elems(to_replica'[p]) \subseteq Elems(to_replica[p])
                               /\ Elems(to_primary'[p]) \subseteq Elems(to_primary[p]) \cup {v}
        BY <2>1, <2>3, <3>2, <3>4 DEF ChannelTypeOK, m
      <4> HIDE DEF v
      <4> QED BY <2>2, <2>3, <3>3, <4>1, <4>2 DEF NumberInv, pvars
    <3> QED BY <2>4, <3>5, <3>7, <3>8
  <2> QED BY <2>5, <2>6
<1>20. ASSUME NEW r \in Replica, ReplicaDecides(r) PROVE IInv'
  <2> USE <1>20, <1>a, <1>b DEF ReplicaDecides
  <2> DEFINE m == Head(to_replica[r])
  <2>1. /\ m \in Record /\ m.type \in Decision
        /\ Tail(to_replica[r]) \in Seq(Record)
        /\ Elems(Tail(to_replica[r])) \subseteq Elems(to_replica[r])
    BY HeadTail DEF ChannelTypeOK, Incoming
  <2>2. m.seq \in TSeq
    BY <2>1 DEF Record
  <2>3. NodeTypeOK'
    <3>1. CASE UNCHANGED <<queued_transactions, tpc_log, tpc_queue, rpc,
                           tpc_queue_lock, next_seq>>
      BY <3>1 DEF NodeTypeOK
    <3>2. CASE ~ UNCHANGED <<queued_transactions, tpc_log, tpc_queue, rpc,
                             tpc_queue_lock, next_seq>>
      <4>1. /\ queued_transactions' = [queued_transactions EXCEPT ![r] = @ \cup {m.seq}]
            /\ tpc_log' = [tpc_log EXCEPT ![r] = @ \cup {m}]
            /\ tpc_queue' = WithStatus(r, m.seq, m.type)
            /\ tpc_queue_lock' = [tpc_queue_lock EXCEPT ![r] = TRUE]
            /\ next_seq' = [next_seq EXCEPT ![r] = last_seq[r] + 1]
        BY <3>2 DEF EnterQueue
      <4>2. tpc_queue' \in [Node -> [TSeq -> Status]]
        BY <2>1, <4>1, StatusUpdate DEF NodeTypeOK
      <4>3. /\ next_seq' \in [Node -> Nat] /\ tpc_queue_lock' \in [Node -> BOOLEAN]
            /\ queued_transactions' \in [Node -> SUBSET TSeq]
            /\ tpc_log' \in [Node -> SUBSET Record]
        BY <2>1, <2>2, <4>1, SMTT(20) DEF NodeTypeOK
      <4> QED BY <4>2, <4>3 DEF NodeTypeOK
    <3> QED BY <3>1, <3>2
  <2>4. ChannelTypeOK'
    BY <2>1 DEF ChannelTypeOK
  <2>5. ThreadTypeOK' /\ ThreadInv'
    BY DEF ThreadTypeOK, ThreadInv, pvars
  <2>6. \A n \in Node : \A x \in TSeq : tpc_queue'[n][x] # "none" => tpc_queue[n][x] # "none"
    BY <2>1, StatusUpdate DEF NodeTypeOK
  <2>7. NumberInv'
    BY <2>1, <2>6 DEF NumberInv, ChannelTypeOK, pvars
  <2> QED BY <2>3, <2>4, <2>5, <2>7 DEF PrimaryTypeOK, pvars
<1>21. ASSUME NEW r \in Replica, ReplicaApplies(r) PROVE IInv'
  <2> USE <1>21, <1>a DEF ReplicaApplies
  <2>1. NodeTypeOK' /\ \A m \in Node : \A x \in TSeq :
                          tpc_queue'[m][x] \in {tpc_queue[m][x], "none"}
    BY ApplyNextTypes
  <2>2. NumberInv'
    BY <2>1 DEF NumberInv, pvars, cvars
  <2> QED BY <2>1, <2>2 DEF PrimaryTypeOK, ChannelTypeOK, ThreadTypeOK, ThreadInv,
                            pvars, cvars, tvars
<1>22. ASSUME NEW r \in Replica, ReplicaReturns(r) PROVE IInv'
  <2> USE <1>22, <1>a DEF ReplicaReturns
  <2>1. NodeTypeOK' /\ UNCHANGED tpc_queue
    BY LeaveTypes
  <2>2. ThreadTypeOK' /\ ThreadInv'
    BY DEF ThreadTypeOK, ThreadInv, pvars
  <2> QED BY <2>1, <2>2 DEF PrimaryTypeOK, ChannelTypeOK, NumberInv, pvars, cvars
<1>23. ASSUME NEW r \in Replica, Crash(r) PROVE IInv'
  <2>1. ThreadTypeOK' /\ ThreadInv'
    BY <1>23 DEF Crash, ThreadTypeOK, ThreadInv, pvars
  <2> QED BY <1>23, <2>1 DEF Crash, PrimaryTypeOK, NodeTypeOK, ChannelTypeOK, NumberInv,
                             pvars, nvars, cvars
<1>24. ASSUME NEW r \in Replica, DropConnection(r) \/ DropAlive(r) PROVE IInv'
  <2> USE <1>24, <1>a DEF DropConnection, DropAlive
  <2>1. PrimaryTypeOK'
    BY DEF PrimaryTypeOK
  <2>2. ThreadTypeOK' /\ ThreadInv'
    <3>1. /\ {"closing", "closed"} \subseteq PC /\ "closing" \notin Working
          /\ "closing" \notin Deciding /\ "closed" \notin Working
          /\ "closed" \notin Deciding
      BY DEF PC, Working, Deciding
    <3> QED BY <3>1, GotoKeeps
  <2> QED BY <2>1, <2>2 DEF NodeTypeOK, ChannelTypeOK, NumberInv, nvars, cvars
<1>25. ASSUME NEW s \in TSeq, FindExpired(s) PROVE IInv'
  <2> USE <1>25, <1>a, <1>b DEF FindExpired
  <2>1. s \in 1..tpc_seq
    BY DEF NumberInv
  <2>2. PrimaryTypeOK'
    BY DEF PrimaryTypeOK
  <2>3. ThreadTypeOK'
    BY <2>1 DEF ThreadTypeOK, Goto, PC
  <2>4. ThreadInv'
    BY <2>1 DEF ThreadTypeOK, ThreadInv, Goto, Deciding
  <2> QED BY <2>2, <2>3, <2>4 DEF NodeTypeOK, ChannelTypeOK, NumberInv, nvars, cvars
<1>26. CASE LookUpExpired
  <2> USE <1>26, <1>a DEF LookUpExpired
  <2>1. ThreadTypeOK' /\ ThreadInv'
    <3>1. CASE Return(Timer)
      BY <3>1, ReturnKeeps DEF pvars
    <3>2. CASE Goto(Timer, "check") /\ arg' = [arg EXCEPT ![Timer] = "ABORT"] /\ UNCHANGED at
      <4>1. ThreadTypeOK'
        BY <3>2 DEF ThreadTypeOK, Goto, PC, Decision
      <4>2. ThreadInv'
        BY <3>2 DEF ThreadTypeOK, ThreadInv, Goto, Decision, Working, PC, pvars
      <4> QED BY <4>1, <4>2
    <3> QED BY <3>1, <3>2
  <2> QED BY <2>1 DEF PrimaryTypeOK, NodeTypeOK, ChannelTypeOK, NumberInv, pvars, nvars, cvars
<1>27. CASE UNCHANGED vars
    BY <1>27 DEF vars, pvars, nvars, cvars, tvars, PrimaryTypeOK, NodeTypeOK,
       ChannelTypeOK, ThreadTypeOK, ThreadInv, NumberInv
<1> QED BY <1>1, <1>2, <1>3, <1>c, <1>d, <1>e, <1>4, <1>5, <1>6, <1>7, <1>8, <1>9, <1>10,
           <1>11, <1>12, <1>13, <1>14, <1>15, <1>16, <1>17, <1>18, <1>19, <1>20, <1>21, <1>22, <1>23,
           <1>24, <1>25, <1>26, <1>27
        DEF Next, FrontendStep, CommandStep, DecisionStep, VoteStep, ReplicaStep, ClosingStep

(* Every variable keeps the type its C++ counterpart has: transaction      *)
(* numbers on queues and channels were handed out by the primary, statuses *)
(* are statuses, and no handler reads a command that does not exist.       *)
THEOREM TypeCorrect == Spec => []TypeOK
<1>1. IInv => TypeOK
    BY DEF IInv
<1> QED BY <1>1, InitIInv, NextIInv, PTL DEF Spec

-----------------------------------------------------------------------------
(* Nothing but what the primary logged.                                    *)

(* Every decision on its way to a replica, in a queue, about to enter the  *)
(* primary's queue or in a replica's table is in the primary's tpc log.    *)
Logged(d, s) == [type |-> d, seq |-> s] \in tpc_log[Primary]

LogInv ==
    /\ \A r \in Replica : \A m \in Elems(to_replica[r]) :
          m.type \in Decision => m \in tpc_log[Primary]
    /\ \A n \in Node : \A s \in TSeq :
          tpc_queue[n][s] \in Decision => Logged(tpc_queue[n][s], s)
    /\ \A t \in Thread : pc[t] \in {"send", "status"} => Logged(arg[t], at[t])
    /\ AppliedWasLogged

(* A step keeps it when the log only grows and whatever is new in the      *)
(* channels, queues, threads and tables is logged or no decision.          *)
LEMMA LogFrame ==
    ASSUME LogInv, tpc_log[Primary] \subseteq tpc_log'[Primary],
           \A r \in Replica : \A m \in Elems(to_replica'[r]) :
              \/ m \in Elems(to_replica[r])
              \/ m.type \in Decision => m \in tpc_log'[Primary],
           \A n \in Node : \A s \in TSeq :
              \/ tpc_queue'[n][s] = tpc_queue[n][s]
              \/ tpc_queue'[n][s] \in Decision => Logged(tpc_queue[n][s], s)',
           \A t \in Thread : pc'[t] \in {"send", "status"} =>
              \/ /\ pc[t] \in {"send", "status"}
                 /\ arg'[t] = arg[t] /\ at'[t] = at[t]
              \/ Logged(arg[t], at[t])' ,
           \A r \in Replica : \A e \in Elems(hist'[r]) :
              e \in Elems(hist[r]) \/ Logged(e.dec, e.seq)'
    PROVE  LogInv'
<1>1. \A r \in Replica : \A m \in Elems(to_replica'[r]) :
         m.type \in Decision => m \in tpc_log'[Primary]
    BY DEF LogInv
<1>2. ASSUME NEW n \in Node, NEW s \in TSeq, tpc_queue'[n][s] \in Decision
      PROVE  Logged(tpc_queue[n][s], s)'
  <2>1. CASE tpc_queue'[n][s] = tpc_queue[n][s]
    <3>1. [type |-> tpc_queue[n][s], seq |-> s] \in tpc_log[Primary]
      BY <1>2, <2>1 DEF LogInv, Logged
    <3> QED BY <2>1, <3>1 DEF Logged
  <2>2. CASE tpc_queue'[n][s] # tpc_queue[n][s]
    BY <1>2, <2>2 DEF Logged
  <2> QED BY <2>1, <2>2
<1>3. ASSUME NEW t \in Thread, pc'[t] \in {"send", "status"}
      PROVE  Logged(arg[t], at[t])'
  <2>1. CASE pc[t] \in {"send", "status"} /\ arg'[t] = arg[t] /\ at'[t] = at[t]
    <3>1. [type |-> arg[t], seq |-> at[t]] \in tpc_log[Primary]
      BY <2>1 DEF LogInv, Logged
    <3> QED BY <2>1, <3>1 DEF Logged
  <2>2. CASE Logged(arg[t], at[t])'
    BY <2>2
  <2> QED BY <1>3, <2>1, <2>2
<1>4. AppliedWasLogged'
    BY DEF LogInv, Logged, AppliedWasLogged, Applied
<1> QED BY <1>1, <1>2, <1>3, <1>4 DEF LogInv

LEMMA InitLogInv == Init => LogInv
BY DEF Init, LogInv, Logged, AppliedWasLogged, Applied, Elems, Decision, Node

(* Applying a decided transaction.                                         *)
LEMMA ApplyNextLogged ==
    ASSUME IInv, LogInv, NEW n \in Node, NEW t, ApplyNext(n, t),
           UNCHANGED <<to_replica, pc, arg, at>>
    PROVE  LogInv'
<1> DEFINE s == next_seq[n]
           e == [seq |-> s, req |-> req_of[s], dec |-> tpc_queue[n][s]]
<1>1. \A m \in Node : \A x \in TSeq : tpc_queue'[m][x] \in {tpc_queue[m][x], "none"}
    BY ApplyNextTypes
<1>2. /\ s \in TSeq /\ tpc_queue[n][s] \in Decision /\ req_of[s] \in Req
      /\ UNCHANGED tpc_log
      /\ hist' = [hist EXCEPT ![n] = Append(hist[n], e)]
    BY DEF ApplyNext, InQueue, IInv, TypeOK, NodeTypeOK, NumberInv, PrimaryTypeOK, TSeq, Decision
<1>3. [type |-> e.dec, seq |-> e.seq] \in tpc_log'[Primary]
    BY <1>2 DEF LogInv, Logged
<1>4. Elems(Append(hist[n], e)) = Elems(hist[n]) \cup {e}
  <2>1. e \in Entry /\ hist[n] \in Seq(Entry)
    BY <1>2 DEF Entry, IInv, TypeOK, NodeTypeOK
  <2> QED BY <2>1, AppendElems
<1>5. \A r \in Replica : \A x \in Elems(hist'[r]) :
         x \in Elems(hist[r]) \/ Logged(x.dec, x.seq)'
  <2>1. \A m \in Node : hist'[m] = hist[m] \/ (m = n /\ hist'[m] = Append(hist[n], e))
    BY <1>2 DEF IInv, TypeOK, NodeTypeOK
  <2>2. \A r \in Replica : r \in Node
    BY DEF Node
  <2> HIDE DEF e
  <2> QED BY <1>3, <1>4, <2>1, <2>2 DEF Logged
<1>6. "none" \notin Decision
    BY DEF Decision
<1> QED BY <1>1, <1>2, <1>5, <1>6, LogFrame

LEMMA NextLogInv == IInv /\ LogInv /\ [Next]_vars => LogInv'
<1> SUFFICES ASSUME IInv, LogInv, [Next]_vars PROVE LogInv'
    OBVIOUS
<1>a. /\ Primary \in Node /\ Replica \subseteq Node /\ Primary \notin Replica
      /\ Replica \subseteq Thread /\ Req \subseteq Thread
    BY ConstantsAssumption DEF Node, Thread
<1>b. /\ ChannelTypeOK /\ ThreadTypeOK /\ NodeTypeOK
      /\ Thread = DOMAIN pc /\ "PREPARE" \notin Decision /\ "none" \notin Decision
    BY DEF IInv, TypeOK, ThreadTypeOK, Decision
(* Steps that touch neither a queue, a channel to a replica nor a table.   *)
<1> DEFINE Quiet == UNCHANGED <<tpc_queue, tpc_log, to_replica>>
                    /\ \A r \in Replica : hist'[r] = hist[r]
<1>1. ASSUME Quiet, NEW t \in Thread, NEW place \in PC \ {"send", "status"}, Goto(t, place),
             \A u \in Thread \ {t} : at'[u] = at[u] /\ arg'[u] = arg[u]
      PROVE  LogInv'
  <2>1. \A u \in Thread : pc'[u] \in {"send", "status"} => u # t /\ pc[u] \in {"send", "status"}
    BY <1>1 DEF Goto, ThreadTypeOK, IInv, TypeOK
  <2> QED BY <1>1, <2>1, LogFrame
<1>2. ASSUME Quiet, UNCHANGED <<pc, at, arg>> PROVE LogInv'
    BY <1>2, LogFrame
<1>3. ASSUME Quiet, NEW t \in Thread, Return(t) PROVE LogInv'
  <2>1. PICK place \in {"done", "idle"} : Goto(t, place)
    BY <1>3 DEF Return
  <2>2. place \in PC \ {"send", "status"}
    BY DEF PC
  <2>3. \A u \in Thread \ {t} : at'[u] = at[u] /\ arg'[u] = arg[u]
    BY <1>3, <1>b DEF Return, ThreadTypeOK
  <2> QED BY <1>1, <1>3, <2>1, <2>2, <2>3
<1>4. ASSUME NEW q \in Req, FrontendStep(q) \/ RegisterForwarded(q) PROVE LogInv'
  <2>1. PICK place \in {"size", "register", "done"} : Goto(q, place)
    BY <1>4 DEF FrontendStep, ReceiveFromFrontend, Numbered, ForwardToPrimary, RefuseAbsent,
       RegisterForwarded
  <2>2. Quiet /\ \A u \in Thread \ {q} : at'[u] = at[u] /\ arg'[u] = arg[u]
    BY <1>4, <1>a, <1>b DEF FrontendStep, ReceiveFromFrontend, Numbered, ForwardToPrimary,
       RefuseAbsent, RegisterForwarded, cvars, ThreadTypeOK
  <2>3. place \in PC \ {"send", "status"}
    BY DEF PC
  <2> HIDE DEF Quiet
  <2> QED BY <1>1, <1>a, <2>1, <2>2, <2>3
<1>5. ASSUME NEW t \in Thread, StartReplication(t) PROVE LogInv'
  <2>1. Quiet /\ Goto(t, "enqueue") /\ UNCHANGED <<at, arg>>
    BY <1>5 DEF StartReplication, nvars, cvars
  <2>2. "enqueue" \in PC \ {"send", "status"}
    BY DEF PC
  <2> HIDE DEF Quiet
  <2> QED BY <1>1, <2>1, <2>2
<1>6. ASSUME NEW t \in Thread, ExecuteAlone(t) PROVE LogInv'
  <2>1. UNCHANGED <<tpc_queue, tpc_log, to_replica>> /\ Return(t)
    BY <1>6 DEF ExecuteAlone, cvars
  <2>2. \A r \in Replica : hist'[r] = hist[r]
    BY <1>6, <1>a, <1>b DEF ExecuteAlone, NodeTypeOK
  <2> QED BY <1>3, <2>1, <2>2
<1>7. ASSUME NEW t \in Thread, EnqueuePrepare(t) PROVE LogInv'
  <2>1. /\ UNCHANGED <<tpc_log, to_replica, hist, at, arg>>
        /\ tpc_queue' = [tpc_queue EXCEPT ![Primary][at[t]] = "PREPARE"]
        /\ Goto(t, "snapshot")
    BY <1>7 DEF EnqueuePrepare, cvars
  <2>2. \A n \in Node : \A s \in TSeq :
           tpc_queue'[n][s] = tpc_queue[n][s] \/ tpc_queue'[n][s] \notin Decision
    BY <2>1, <1>b DEF NodeTypeOK
  <2>3. \A u \in Thread :
           pc'[u] \in {"send", "status"} => pc[u] \in {"send", "status"}
    BY <2>1, <1>b DEF Goto, ThreadTypeOK
  <2> QED BY <2>1, <2>2, <2>3, LogFrame
<1>8. ASSUME NEW t \in Thread, SendPrepare(t) PROVE LogInv'
  <2> DEFINE m == [type |-> "PREPARE", seq |-> at[t]]
  <2>1. /\ UNCHANGED <<tpc_queue, hist>> /\ Return(t)
        /\ tpc_log' = [tpc_log EXCEPT ![Primary] = @ \cup {m}]
        /\ to_replica' = Forwarded(m)
    BY <1>8 DEF SendPrepare
  <2>2. m \in Record
    <3>1. at[t] \in 1..tpc_seq /\ tpc_seq \in 0..MaxSeq /\ MaxSeq \in Nat
      BY <1>8, ConstantsAssumption DEF SendPrepare, IInv, ThreadInv, TypeOK, PrimaryTypeOK,
         Working, PC
    <3> QED BY <3>1 DEF Record, TSeq
  <2>3. \A r \in Replica : \A x \in Elems(to_replica'[r]) :
           x \in Elems(to_replica[r]) \/ x = m
    BY <1>b, <2>1, <2>2, ForwardedElems
  <2>4. tpc_log[Primary] \subseteq tpc_log'[Primary] /\ m \in tpc_log'[Primary]
    BY <1>a, <1>b, <2>1 DEF NodeTypeOK
  <2>5. \A u \in Thread : pc'[u] \in {"send", "status"} =>
           pc[u] \in {"send", "status"} /\ arg'[u] = arg[u] /\ at'[u] = at[u]
    BY <1>b, <2>1 DEF Return, Goto, ThreadTypeOK
  <2> HIDE DEF m
  <2> QED BY <2>1, <2>3, <2>4, <2>5, LogFrame
<1>9. ASSUME NEW t \in Thread, CheckUndecided(t) PROVE LogInv'
  <2>1. Quiet /\ (Return(t) \/ (Goto(t, "issue") /\ UNCHANGED <<at, arg>>))
    BY <1>9 DEF CheckUndecided, nvars, cvars
  <2>2. "issue" \in PC \ {"send", "status"}
    BY DEF PC
  <2> HIDE DEF Quiet
  <2> QED BY <1>1, <1>3, <2>1, <2>2
<1>10. ASSUME NEW t \in Thread, LogDecision(t) PROVE LogInv'
  <2> DEFINE m == [type |-> arg[t], seq |-> at[t]]
  <2>1. /\ UNCHANGED <<tpc_queue, to_replica, hist, at, arg>> /\ Goto(t, "send")
        /\ tpc_log' = [tpc_log EXCEPT ![Primary] = @ \cup {m}]
    BY <1>10 DEF LogDecision, cvars
  <2>2. tpc_log[Primary] \subseteq tpc_log'[Primary] /\ m \in tpc_log'[Primary]
    BY <1>a, <1>b, <2>1 DEF NodeTypeOK
  <2>3. \A u \in Thread : pc'[u] \in {"send", "status"} => u = t \/ pc[u] = pc'[u]
    BY <1>b, <2>1 DEF Goto, ThreadTypeOK
  <2>4. Logged(arg[t], at[t])'
    BY <2>1, <2>2 DEF Logged
  <2> HIDE DEF m
  <2> QED BY <2>1, <2>2, <2>3, <2>4, LogFrame
<1>c. ASSUME NEW t \in Thread, SendDecision(t) PROVE LogInv'
  <2> DEFINE m == [type |-> arg[t], seq |-> at[t]]
  <2>1. /\ UNCHANGED <<tpc_queue, tpc_log, hist, at, arg>> /\ Goto(t, "status")
        /\ to_replica' = Forwarded(m)
    BY <1>c DEF SendDecision, nvars
  <2>2. m \in Record
    <3>1. /\ at[t] \in 1..tpc_seq /\ tpc_seq \in 0..MaxSeq /\ MaxSeq \in Nat
          /\ arg[t] \in Decision
      BY <1>c, ConstantsAssumption DEF SendDecision, IInv, ThreadInv, TypeOK,
         PrimaryTypeOK, Working, Deciding, PC
    <3> QED BY <3>1 DEF Record, TSeq
  <2>3. \A r \in Replica : \A x \in Elems(to_replica'[r]) :
           x \in Elems(to_replica[r]) \/ x = m
    BY <1>b, <2>1, <2>2, ForwardedElems
  <2>4. m \in tpc_log[Primary] /\ pc[t] = "send"
    BY <1>c DEF SendDecision, LogInv, Logged
  <2>5. \A u \in Thread : pc'[u] \in {"send", "status"} => pc[u] \in {"send", "status"}
    BY <1>b, <2>1, <2>4 DEF Goto, ThreadTypeOK
  <2> HIDE DEF m
  <2> QED BY <2>1, <2>3, <2>4, <2>5, LogFrame
<1>11. ASSUME NEW t \in Thread, SetStatus(t) PROVE LogInv'
  <2>1. /\ UNCHANGED <<tpc_log, to_replica, hist, at, arg>> /\ Goto(t, "process")
        /\ tpc_queue' = WithStatus(Primary, at[t], arg[t])
    BY <1>11 DEF SetStatus, cvars
  <2>2. arg[t] \in Decision /\ Logged(arg[t], at[t])
    BY <1>11 DEF SetStatus, IInv, ThreadInv, Deciding, LogInv
  <2>3. \A n \in Node : \A s \in TSeq :
             \/ tpc_queue'[n][s] = tpc_queue[n][s]
             \/ s = at[t] /\ tpc_queue'[n][s] = arg[t]
    <3>1. tpc_queue \in [Node -> [TSeq -> Status]]
      BY <1>b DEF NodeTypeOK
    <3> QED BY <1>a, <2>1, <2>2, <3>1, StatusUpdate
  <2>4. \A n \in Node : \A s \in TSeq :
             \/ tpc_queue'[n][s] = tpc_queue[n][s]
             \/ Logged(tpc_queue[n][s], s)'
    BY <2>1, <2>2, <2>3 DEF Logged
  <2>5. \A u \in Thread :
           pc'[u] \in {"send", "status"} => pc[u] \in {"send", "status"}
    BY <1>b, <2>1 DEF Goto, ThreadTypeOK
  <2> QED BY <2>1, <2>4, <2>5, LogFrame
<1>12. ASSUME NEW t \in Thread, PrimaryEntersQueue(t) \/ PrimaryReturns(t) PROVE LogInv'
  <2>1. Quiet /\ (Return(t) \/ (Goto(t, "loop") /\ UNCHANGED <<at, arg>>))
    BY <1>12 DEF PrimaryEntersQueue, PrimaryReturns, QuitUndecided, LeaveQueue, cvars
  <2>2. "loop" \in PC \ {"send", "status"}
    BY DEF PC
  <2> HIDE DEF Quiet
  <2> QED BY <1>1, <1>3, <2>1, <2>2
<1>13. ASSUME NEW t \in Thread, PrimaryApplies(t) PROVE LogInv'
  <2>1. ApplyNext(Primary, t) /\ UNCHANGED <<to_replica, pc, arg, at>>
    BY <1>13 DEF PrimaryApplies, cvars, tvars
  <2> QED BY <1>a, <2>1, ApplyNextLogged
<1>14. ASSUME NEW r \in Replica, ReceiveForwarded(r) PROVE LogInv'
  <2>1. Quiet /\ Goto(r, "size") /\ \A u \in Thread \ {r} : at'[u] = at[u] /\ arg'[u] = arg[u]
    BY <1>14, <1>b DEF ReceiveForwarded, Numbered, ThreadTypeOK
  <2>2. "size" \in PC \ {"send", "status"}
    BY DEF PC
  <2> HIDE DEF Quiet
  <2> QED BY <1>1, <1>a, <2>1, <2>2
<1>15. ASSUME NEW r \in Replica, VoteStep(r) PROVE LogInv'
  <2>1. /\ Quiet /\ \A u \in Thread \ {r} : at'[u] = at[u] /\ arg'[u] = arg[u]
        /\ \/ UNCHANGED <<pc, at, arg>> \/ Return(r)
           \/ Goto(r, "lookup") \/ Goto(r, "respond") \/ Goto(r, "check") \/ Goto(r, "getlock")
    <3>1. CASE ReceiveVote(r) \/ LookUpVoted(r)
      BY <3>1, <1>b DEF ReceiveVote, LookUpVoted, Return, nvars, cvars, ThreadTypeOK
    <3>2. CASE CountYes(r) \/ PrimaryVotes(r)
      BY <3>2, <1>b DEF CountYes, PrimaryVotes, Return, nvars, cvars, ThreadTypeOK
    <3> QED BY <1>15, <3>1, <3>2 DEF VoteStep
  <2>2. {"lookup", "respond", "check", "getlock"} \subseteq PC \ {"send", "status"}
    BY DEF PC
  <2> HIDE DEF Quiet
  <2> QED BY <1>1, <1>2, <1>3, <1>a, <2>1, <2>2
<1>16. ASSUME NEW r \in Replica, ReplicaVotes(r) PROVE LogInv'
  <2>1. /\ UNCHANGED <<hist, pc, at, arg>> /\ tpc_log'[Primary] = tpc_log[Primary]
        /\ to_replica' = [to_replica EXCEPT ![r] = Tail(to_replica[r])]
    BY <1>16, <1>a, <1>b DEF ReplicaVotes, tvars, NodeTypeOK, ChannelTypeOK
  <2>2. \A p \in Replica : Elems(to_replica'[p]) \subseteq Elems(to_replica[p])
    <3>1. to_replica[r] # <<>> /\ to_replica \in [Replica -> Seq(Record)]
      BY <1>16, <1>b DEF ReplicaVotes, Incoming, ChannelTypeOK
    <3>2. Elems(Tail(to_replica[r])) \subseteq Elems(to_replica[r])
      BY <3>1, HeadTail
    <3> QED BY <2>1, <3>1, <3>2
  <2>3. \A n \in Node : \A s \in TSeq :
           tpc_queue'[n][s] = tpc_queue[n][s] \/ tpc_queue'[n][s] = "PREPARE"
    <3>1. \/ tpc_queue' = tpc_queue
          \/ tpc_queue' = [tpc_queue EXCEPT ![r][Head(to_replica[r]).seq] = "PREPARE"]
      BY <1>16 DEF ReplicaVotes
    <3>2. tpc_queue \in [Node -> [TSeq -> Status]]
      BY <1>b DEF NodeTypeOK
    <3>3. CASE tpc_queue' = [tpc_queue EXCEPT ![r][Head(to_replica[r]).seq] = "PREPARE"]
      BY <3>2, <3>3
    <3> QED BY <3>1, <3>3
  <2> QED BY <1>b, <2>1, <2>2, <2>3, LogFrame
<1>17. ASSUME NEW r \in Replica, ReplicaDecides(r) PROVE LogInv'
  <2> DEFINE m == Head(to_replica[r])
  <2>1. /\ UNCHANGED <<hist, pc, at, arg>> /\ tpc_log'[Primary] = tpc_log[Primary]
        /\ to_replica' = [to_replica EXCEPT ![r] = Tail(to_replica[r])]
        /\ m.type \in Decision /\ to_replica[r] # <<>>
        /\ tpc_queue' = tpc_queue \/ tpc_queue' = WithStatus(r, m.seq, m.type)
    BY <1>17, <1>a, <1>b DEF ReplicaDecides, NodeTypeOK, ChannelTypeOK, Incoming
  <2>2. /\ m \in Elems(to_replica[r]) /\ m \in Record
        /\ \A p \in Replica : Elems(to_replica'[p]) \subseteq Elems(to_replica[p])
    BY <1>b, <2>1, HeadTail DEF ChannelTypeOK
  <2>3. Logged(m.type, m.seq)
    <3>1. m \in tpc_log[Primary]
      BY <2>1, <2>2 DEF LogInv
    <3>2. m = [type |-> m.type, seq |-> m.seq]
      BY <2>2 DEF Record
    <3> QED BY <3>1, <3>2 DEF Logged
  <2>4. \A n \in Node : \A s \in TSeq :
             \/ tpc_queue'[n][s] = tpc_queue[n][s]
             \/ s = m.seq /\ tpc_queue'[n][s] = m.type
    <3>1. tpc_queue \in [Node -> [TSeq -> Status]]
      BY <1>b DEF NodeTypeOK
    <3> HIDE DEF m
    <3> QED BY <1>a, <2>1, <3>1, StatusUpdate
  <2>5. \A n \in Node : \A s \in TSeq :
             \/ tpc_queue'[n][s] = tpc_queue[n][s]
             \/ Logged(tpc_queue[n][s], s)'
    BY <2>1, <2>3, <2>4 DEF Logged
  <2> HIDE DEF m
  <2> QED BY <2>1, <2>2, <2>5, LogFrame
<1>18. ASSUME NEW r \in Replica, ReplicaApplies(r) PROVE LogInv'
  <2>1. ApplyNext(r, r) /\ UNCHANGED <<to_replica, pc, arg, at>>
    BY <1>18 DEF ReplicaApplies, cvars, tvars
  <2> QED BY <1>a, <2>1, ApplyNextLogged
<1>19. ASSUME NEW r \in Replica, ReplicaReturns(r) \/ Crash(r) \/ RefuseForwarded(r)
       PROVE LogInv'
    BY <1>2, <1>19 DEF ReplicaReturns, Crash, RefuseForwarded, tvars, QuitUndecided, LeaveQueue, nvars, cvars
<1>20. ASSUME NEW r \in Replica, ClosingStep(r) PROVE LogInv'
  <2>1. Quiet /\ UNCHANGED <<at, arg>> /\ (Goto(r, "closing") \/ Goto(r, "closed"))
    BY <1>20 DEF ClosingStep, DropConnection, DropAlive, nvars, cvars
  <2>2. {"closing", "closed"} \subseteq PC \ {"send", "status"}
    BY DEF PC
  <2> HIDE DEF Quiet
  <2> QED BY <1>1, <1>a, <2>1, <2>2
<1>21. ASSUME NEW s \in TSeq, FindExpired(s) PROVE LogInv'
  <2>1. Quiet /\ Goto(Timer, "expire")
        /\ \A u \in Thread \ {Timer} : at'[u] = at[u] /\ arg'[u] = arg[u]
    BY <1>21, <1>b DEF FindExpired, nvars, cvars, ThreadTypeOK
  <2>2. "expire" \in PC \ {"send", "status"} /\ Timer \in Thread
    BY DEF PC, Thread
  <2> HIDE DEF Quiet
  <2> QED BY <1>1, <2>1, <2>2
<1>22. CASE LookUpExpired
  <2>1. /\ Quiet /\ (Return(Timer) \/ Goto(Timer, "check"))
        /\ \A u \in Thread \ {Timer} : at'[u] = at[u] /\ arg'[u] = arg[u]
    BY <1>22, <1>b DEF LookUpExpired, Return, nvars, cvars, ThreadTypeOK
  <2>2. "check" \in PC \ {"send", "status"} /\ Timer \in Thread
    BY DEF PC, Thread
  <2> HIDE DEF Quiet
  <2> QED BY <1>1, <1>3, <2>1, <2>2
<1>23. CASE UNCHANGED vars
    BY <1>2, <1>23 DEF vars, nvars, cvars, tvars
<1> HIDE DEF Quiet
<1> QED BY <1>4, <1>5, <1>6, <1>7, <1>8, <1>9, <1>10, <1>c, <1>11, <1>12, <1>13, <1>14, <1>15,
           <1>16, <1>17, <1>18, <1>19, <1>20, <1>21, <1>22, <1>23
        DEF Next, CommandStep, DecisionStep, ReplicaStep

(* primary_commit_transaction and primary_abort_transaction log a decision *)
(* before they send it: whatever a replica has applied to its tables, with *)
(* whatever outcome, is in the tpc log of the primary, for any number of   *)
(* replicas, crashes and timeouts.                                         *)
THEOREM AppliedIsLogged == Spec => []AppliedWasLogged
<1>1. LogInv => AppliedWasLogged
    BY DEF LogInv
<1> QED BY <1>1, InitIInv, NextIInv, InitLogInv, NextLogInv, PTL DEF Spec



-----------------------------------------------------------------------------
(* Who stands where.                                                       *)

Starting       == {"size", "enqueue", "snapshot"}
FrontendPlaces == Starting \cup {"idle", "register", "done"}
TimerPlaces    == Deciding \cup {"idle", "expire"}

(* The timeout thread only aborts, and only what it found expired; the     *)
(* connection of a replica is dropped, and then its alive entry, by its    *)
(* own thread after the replica has died.                                  *)
PlaceInv ==
    /\ \A q \in Req : pc[q] \in FrontendPlaces
    /\ pc[Timer] \in TimerPlaces
    /\ pc[Timer] # "idle" => at[Timer] \in expired
    /\ pc[Timer] \in Deciding => arg[Timer] = "ABORT"
    /\ \A r \in Replica :
          /\ r \in partition_fds <=> pc[r] \notin {"closing", "closed"}
          /\ r \in alive_replicas <=> pc[r] # "closed"
          /\ up[r] => pc[r] \notin {"closing", "closed"}

LEMMA InitPlaceInv == Init => PlaceInv
BY DEF Init, PlaceInv, FrontendPlaces, TimerPlaces, Starting, Deciding, Thread

LEMMA NextPlaceInv == IInv /\ PlaceInv /\ [Next]_vars => PlaceInv'
<1> SUFFICES ASSUME IInv, PlaceInv, [Next]_vars PROVE PlaceInv'
    OBVIOUS
<1>a. /\ Replica \subseteq Thread /\ Req \subseteq Thread /\ Timer \in Thread
      /\ Timer \notin Replica /\ Timer \notin Req /\ Replica \cap Req = {}
      /\ pc \in [Thread -> PC] /\ at \in [Thread -> 0..MaxSeq]
      /\ arg \in [Thread -> {"none", "YES", "NO"} \cup Decision]
      /\ up \in [Replica -> BOOLEAN]
    BY ConstantsAssumption DEF Thread, IInv, TypeOK, ThreadTypeOK
<1> USE DEF PlaceInv, FrontendPlaces, TimerPlaces, Starting, Deciding
(* A step of a thread that neither begins nor ends.                        *)
<1>1. ASSUME NEW q \in Req, FrontendStep(q) \/ RegisterForwarded(q) PROVE PlaceInv'
    BY <1>1, <1>a, ZenonT(60) DEF FrontendStep, ReceiveFromFrontend, Numbered, ForwardToPrimary,
       RefuseAbsent, RegisterForwarded, Goto, pvars
<1>2. ASSUME NEW t \in Thread, CommandStep(t) PROVE PlaceInv'
    BY <1>2, <1>a, ZenonT(60) DEF CommandStep, StartReplication, ExecuteAlone, EnqueuePrepare,
       SendPrepare, Goto, Return, pvars
<1>3. ASSUME NEW t \in Thread, DecisionStep(t) PROVE PlaceInv'
    BY <1>3, <1>a DEF DecisionStep, CheckUndecided, LogDecision, SendDecision, SetStatus,
       PrimaryEntersQueue, PrimaryApplies, PrimaryReturns, Goto, Return, pvars, tvars
<1>4. ASSUME NEW r \in Replica, ReceiveForwarded(r) \/ RefuseForwarded(r) PROVE PlaceInv'
    BY <1>4, <1>a DEF ReceiveForwarded, Numbered, RefuseForwarded, Goto, pvars, tvars
<1>5. ASSUME NEW r \in Replica, VoteStep(r) PROVE PlaceInv'
    BY <1>5, <1>a, SMTT(20) DEF VoteStep, ReceiveVote, LookUpVoted, CountYes, PrimaryVotes,
       Goto, Return, pvars
<1>6. ASSUME NEW r \in Replica, ReplicaStep(r) PROVE PlaceInv'
    BY <1>6, <1>a DEF ReplicaStep, ReplicaVotes, ReplicaDecides, ReplicaApplies,
       ReplicaReturns, pvars, tvars
<1>7. ASSUME NEW r \in Replica, Crash(r) \/ ClosingStep(r) PROVE PlaceInv'
    BY <1>7, <1>a DEF Crash, ClosingStep, DropConnection, DropAlive, Goto, pvars
<1>8. ASSUME NEW s \in TSeq, FindExpired(s) PROVE PlaceInv'
    BY <1>8, <1>a DEF FindExpired, Goto
<1>9. CASE LookUpExpired
    BY <1>9, <1>a DEF LookUpExpired, Goto, Return, pvars
<1>10. CASE UNCHANGED vars
    BY <1>10 DEF vars, pvars, tvars
<1> QED BY <1>1, <1>2, <1>3, <1>4, <1>5, <1>6, <1>7, <1>8, <1>9, <1>10 DEF Next

-----------------------------------------------------------------------------
(* Each transaction is started by one thread, once.                        *)

PrepareOf(s) == [type |-> "PREPARE", seq |-> s]
Sent(s)      == PrepareOf(s) \in tpc_log[Primary]     \* start_tpc is over
Starts(t, s) == pc[t] \in Starting /\ at[t] = s

StartInv ==
    /\ \A m \in tpc_log[Primary] : m.seq <= tpc_seq
    /\ \A t \in Thread : \A s \in TSeq : Starts(t, s) => ~Sent(s)
    /\ \A t, u \in Thread : \A s \in TSeq : Starts(t, s) /\ Starts(u, s) => t = u

LEMMA InitStartInv == Init => StartInv
BY DEF Init, StartInv, Starts, Starting, Node

LEMMA NextStartInv == IInv /\ StartInv /\ [Next]_vars => StartInv'
<1> SUFFICES ASSUME IInv, StartInv, [Next]_vars PROVE StartInv'
    OBVIOUS
<1>a. /\ Replica \subseteq Thread /\ Req \subseteq Thread /\ Timer \in Thread
      /\ Primary \in Node /\ Replica \subseteq Node /\ Primary \notin Replica
      /\ pc \in [Thread -> PC] /\ at \in [Thread -> 0..MaxSeq]
      /\ tpc_log \in [Node -> SUBSET Record] /\ tpc_seq \in Nat
      /\ \A t \in Thread : pc[t] \in Working => at[t] \in 1..tpc_seq
    BY ConstantsAssumption DEF Thread, Node, IInv, TypeOK, ThreadTypeOK, NodeTypeOK,
       PrimaryTypeOK, ThreadInv
<1>b. \A m \in Record : m.seq \in Nat
    BY DEF Record, TSeq
(* It is enough that no thread begins to start anything.                   *)
<1>1. ASSUME tpc_log'[Primary] = tpc_log[Primary], tpc_seq' = tpc_seq,
             \A t \in Thread : pc'[t] \in Starting =>
                pc[t] \in Starting /\ at'[t] = at[t]
      PROVE  StartInv'
    BY <1>1 DEF StartInv, Starts, Sent
<1>2. ASSUME NEW t \in Thread, NEW q \in Req, Numbered(t, q),
             tpc_log'[Primary] = tpc_log[Primary]
      PROVE  StartInv'
  <2>1. tpc_seq' = tpc_seq + 1 /\ at' = [at EXCEPT ![t] = tpc_seq + 1] /\ Goto(t, "size")
    BY <1>2 DEF Numbered
  <2>2. \A m \in tpc_log'[Primary] : m.seq <= tpc_seq /\ m.seq \in Nat
    BY <1>2, <1>a, <1>b DEF StartInv
  <2>3. PrepareOf(tpc_seq + 1) \notin tpc_log'[Primary]
    BY <2>1, <2>2, <1>a DEF PrepareOf
  <2>4. \A u \in Thread \ {t} : pc'[u] = pc[u] /\ at'[u] = at[u] /\
           (pc[u] \in Starting => at[u] # tpc_seq + 1)
    BY <2>1, <1>a DEF Goto, Starting, Working, PC
  <2>5. at'[t] = tpc_seq + 1
    BY <2>1, <1>a
  <2> QED BY <1>2, <2>1, <2>2, <2>3, <2>4, <2>5, <1>a DEF StartInv, Starts, Sent
<1>3. ASSUME NEW q \in Req, FrontendStep(q) \/ RegisterForwarded(q) PROVE StartInv'
  <2>1. CASE ReceiveFromFrontend(q)
    BY <2>1, <1>2, <1>a DEF ReceiveFromFrontend
  <2>2. CASE ForwardToPrimary(q) \/ RefuseAbsent(q) \/ RegisterForwarded(q)
    BY <2>2, <1>1, <1>a DEF ForwardToPrimary, RefuseAbsent, RegisterForwarded, Goto, pvars, Starting
  <2> QED BY <1>3, <2>1, <2>2 DEF FrontendStep
<1>4. ASSUME NEW t \in Thread, CommandStep(t) PROVE StartInv'
  <2>1. CASE StartReplication(t) \/ ExecuteAlone(t) \/ EnqueuePrepare(t)
    BY <2>1, <1>1, <1>a DEF StartReplication, ExecuteAlone, EnqueuePrepare, Goto, Return,
       pvars, nvars, Starting
  <2>2. CASE SendPrepare(t)
    <3>1. at[t] \in 1..tpc_seq /\ pc[t] = "snapshot"
      BY <2>2, <1>a DEF SendPrepare, Working, PC
    <3>2. /\ tpc_log'[Primary] = tpc_log[Primary] \cup {PrepareOf(at[t])}
          /\ tpc_seq' = tpc_seq
          /\ \A u \in Thread \ {t} : pc'[u] = pc[u] /\ at'[u] = at[u]
          /\ pc'[t] \notin Starting
      BY <2>2, <1>a DEF SendPrepare, Goto, Return, Starting, PrepareOf
    <3>3. PrepareOf(at[t]).seq = at[t] /\ \A s : PrepareOf(s) = PrepareOf(at[t]) => s = at[t]
      BY DEF PrepareOf
    <3>4. at[t] \in TSeq
      BY <3>1, ConstantsAssumption DEF IInv, TypeOK, PrimaryTypeOK, TSeq
    <3> QED BY <3>1, <3>2, <3>3, <3>4, <1>a DEF StartInv, Starts, Sent, Starting
  <2> QED BY <1>4, <2>1, <2>2 DEF CommandStep
<1>5. ASSUME NEW t \in Thread, DecisionStep(t) PROVE StartInv'
  <2>1. CASE LogDecision(t)
    <3>1. at[t] \in 1..tpc_seq /\ arg[t] # "PREPARE"
      BY <2>1, <1>a DEF LogDecision, Working, Deciding, PC, IInv, ThreadInv, Decision
    <3> DEFINE m == [type |-> arg[t], seq |-> at[t]]
    <3>2. /\ tpc_log'[Primary] = tpc_log[Primary] \cup {m}
          /\ tpc_seq' = tpc_seq
          /\ \A u \in Thread : pc'[u] \in Starting => pc[u] \in Starting /\ at'[u] = at[u]
      BY <2>1, <1>a DEF LogDecision, Goto, Starting
    <3>3. m.seq = at[t] /\ \A s : PrepareOf(s) # m
      BY <3>1 DEF PrepareOf
    <3> HIDE DEF m
    <3> QED BY <3>1, <3>2, <3>3, <1>a DEF StartInv, Starts, Sent
  <2>2. CASE CheckUndecided(t) \/ SendDecision(t) \/ SetStatus(t) \/ PrimaryEntersQueue(t)
             \/ PrimaryApplies(t) \/ PrimaryReturns(t)
    BY <2>2, <1>1, <1>a DEF CheckUndecided, SendDecision, SetStatus, PrimaryEntersQueue,
       PrimaryApplies, PrimaryReturns, ApplyNext, QuitUndecided, LeaveQueue, Goto, Return, pvars,
       nvars, tvars, Starting
  <2> QED BY <1>5, <2>1, <2>2 DEF DecisionStep
<1>6. ASSUME NEW r \in Replica, ReceiveForwarded(r) \/ RefuseForwarded(r) PROVE StartInv'
  <2>1. CASE ReceiveForwarded(r)
    <3>1. Head(to_primary[r]) \in Vote \cup Command
      BY <2>1, HeadTail DEF ReceiveForwarded, IInv, TypeOK, ChannelTypeOK
    <3>2. Head(to_primary[r]).req \in Req
      BY <2>1, <3>1 DEF ReceiveForwarded, Vote, Command
    <3> QED BY <2>1, <3>2, <1>2, <1>a DEF ReceiveForwarded
  <2>2. CASE RefuseForwarded(r)
    BY <2>2, <1>1 DEF RefuseForwarded, pvars, nvars, tvars
  <2> QED BY <1>6, <2>1, <2>2
<1>7. ASSUME NEW r \in Replica, VoteStep(r) PROVE StartInv'
    BY <1>7, <1>1, <1>a DEF VoteStep, ReceiveVote, LookUpVoted, CountYes, PrimaryVotes,
       Goto, Return, pvars, nvars, Starting
<1>8. ASSUME NEW r \in Replica, ReplicaStep(r) PROVE StartInv'
    BY <1>8, <1>1, <1>a DEF ReplicaStep, ReplicaVotes, ReplicaDecides, ReplicaApplies,
       ReplicaReturns, ApplyNext, QuitUndecided, LeaveQueue, pvars, tvars
<1>9. ASSUME NEW r \in Replica, Crash(r) \/ ClosingStep(r) PROVE StartInv'
    BY <1>9, <1>1, <1>a DEF Crash, ClosingStep, DropConnection, DropAlive, Goto, pvars, nvars,
       Starting
<1>10. ASSUME NEW s \in TSeq, FindExpired(s) PROVE StartInv'
    BY <1>10, <1>1, <1>a DEF FindExpired, Goto, nvars, Starting
<1>11. CASE LookUpExpired
    BY <1>11, <1>1, <1>a DEF LookUpExpired, Goto, Return, pvars, nvars, Starting
<1>12. CASE UNCHANGED vars
    BY <1>12, <1>1 DEF vars, pvars, nvars, tvars
<1> QED BY <1>3, <1>4, <1>5, <1>6, <1>7, <1>8, <1>9, <1>10, <1>11, <1>12 DEF Next

-----------------------------------------------------------------------------
(* A replica has one vote on each transaction, and it is in one place.     *)

(* No two messages of M are in the channel.                                *)
Once(q, M) == \A i, j \in DOMAIN q : q[i] \in M /\ q[j] \in M => i = j

LEMMA OnceTail ==
    ASSUME NEW S, NEW q \in Seq(S), q # <<>>, NEW M, Once(q, M)
    PROVE  Once(Tail(q), M) /\ (Head(q) \in M => Elems(Tail(q)) \cap M = {})
<1>1. /\ Len(q) \in Nat \ {0} /\ Head(q) = q[1] /\ DOMAIN q = 1..Len(q)
      /\ DOMAIN Tail(q) = 1..(Len(q) - 1)
      /\ \A i \in 1..(Len(q) - 1) : Tail(q)[i] = q[i + 1]
    OBVIOUS
<1>2. \A i \in DOMAIN Tail(q) : i \in Nat /\ i + 1 \in DOMAIN q /\ i + 1 # 1 /\ 1 \in DOMAIN q
    BY <1>1
<1>3. Once(Tail(q), M)
    BY <1>1, <1>2 DEF Once
<1>4. Head(q) \in M => \A i \in DOMAIN Tail(q) : Tail(q)[i] \notin M
    BY <1>1, <1>2 DEF Once
<1> QED BY <1>3, <1>4 DEF Elems

LEMMA OnceAppend ==
    ASSUME NEW S, NEW q \in Seq(S), NEW x \in S, NEW M, Once(q, M),
           x \in M => Elems(q) \cap M = {}
    PROVE  Once(Append(q, x), M)
<1>1. /\ Len(q) \in Nat /\ DOMAIN q = 1..Len(q)
      /\ DOMAIN Append(q, x) = 1..(Len(q) + 1)
      /\ \A i \in 1..Len(q) : Append(q, x)[i] = q[i]
      /\ Append(q, x)[Len(q) + 1] = x
    OBVIOUS
<1>2. \A i \in 1..(Len(q) + 1) : i \in 1..Len(q) \/ i = Len(q) + 1
    BY <1>1
<1> QED BY <1>1, <1>2 DEF Once, Elems

VotesOn(s)    == [type : {"YES", "NO"}, seq : {s}, req : {None}]
Asked(r, s)   == PrepareOf(s) \in Elems(to_replica[r])
Voted(r, s)   == \E m \in VotesOn(s) : m \in Elems(to_primary[r])
Handles(r, s) == pc[r] \in {"lookup", "respond"} /\ at[r] = s
Counted(r, s) == r \in tpc_responses[s]
Decides(r, s) == pc[r] \in {"getlock", "check", "issue"} /\ at[r] = s
Prepared(r, s) == PrepareOf(s) \in tpc_log[r]

(* The vote of r on s is a PREPARE on its way to r, a YES or NO on its way *)
(* back, in the hands of the thread of r, or counted: in at most one of    *)
(* these.  Those who can vote were alive when PREPARE was sent, and those  *)
(* who did have it in their log.                                           *)
TokenInv ==
    /\ \A s \in TSeq : Sent(s) => alive_replicas \subseteq tpc_replicas[s]
    /\ \A r \in Replica : \A s \in TSeq :
          /\ Once(to_replica[r], {PrepareOf(s)}) /\ Once(to_primary[r], VotesOn(s))
          /\ Asked(r, s) \/ Voted(r, s) \/ Handles(r, s) \/ Counted(r, s) \/ Decides(r, s)
               => Sent(s) /\ r \in tpc_replicas[s]
          /\ Voted(r, s) \/ Handles(r, s) \/ Counted(r, s) => Prepared(r, s)
          /\ Asked(r, s) => ~Voted(r, s)
          /\ Asked(r, s) \/ Voted(r, s) => ~Handles(r, s) /\ ~Counted(r, s) /\ ~Decides(r, s)
          /\ Handles(r, s) => ~Counted(r, s)

LEMMA InitTokenInv == Init => TokenInv
<1> SUFFICES ASSUME Init PROVE TokenInv
    OBVIOUS
<1>1. \A r \in Replica : /\ to_replica[r] = <<>> /\ to_primary[r] = <<>>
                         /\ pc[r] = "idle"
    BY DEF Init, Thread
<1>2. \A s \in TSeq : ~Sent(s) /\ tpc_responses[s] = {}
    BY DEF Init, Sent, Node
<1> QED BY <1>1, <1>2 DEF TokenInv, Once, Elems, Asked, Voted, Handles, Counted, Decides

(* A step in which votes only move on, and none to the next place, keeps   *)
(* it.                                                                     *)
LEMMA TokenFrame ==
    ASSUME TokenInv, UNCHANGED tpc_replicas, alive_replicas' \subseteq alive_replicas,
           \A s \in TSeq : Sent(s)' <=> Sent(s),
           \A r \in Replica : \A s \in TSeq :
              /\ Once(to_replica[r], {PrepareOf(s)})' /\ Once(to_primary[r], VotesOn(s))'
              /\ Asked(r, s)' => Asked(r, s)
              /\ Voted(r, s)' => Voted(r, s)
              /\ Prepared(r, s) => Prepared(r, s)'
              /\ Counted(r, s)' => Counted(r, s)
              /\ Handles(r, s)' => Handles(r, s)
              /\ Decides(r, s)' => Handles(r, s) \/ Decides(r, s)
    PROVE  TokenInv'
BY DEF TokenInv

LEMMA TokenQuiet ==
    ASSUME TokenInv, UNCHANGED <<to_replica, to_primary, tpc_replicas>>,
           alive_replicas' \subseteq alive_replicas,
           \A s \in TSeq : Sent(s)' <=> Sent(s),
           \A r \in Replica : \A s \in TSeq :
              /\ Prepared(r, s) => Prepared(r, s)'
              /\ Counted(r, s)' => Counted(r, s)
              /\ Handles(r, s)' => Handles(r, s)
              /\ Decides(r, s)' => Handles(r, s) \/ Decides(r, s)
    PROVE  TokenInv'
<1>1. \A r \in Replica : \A s \in TSeq : /\ Asked(r, s)' <=> Asked(r, s)
                                         /\ Voted(r, s)' <=> Voted(r, s)
    BY DEF Asked, Voted
<1>2. \A r \in Replica : \A s \in TSeq :
         Once(to_replica[r], {PrepareOf(s)})' /\ Once(to_primary[r], VotesOn(s))'
    BY DEF TokenInv
<1> QED BY <1>1, <1>2, TokenFrame

(* The parts of the state the votes are in, and their types.               *)
LEMMA VoteTypes ==
    ASSUME IInv
    PROVE  /\ Replica \subseteq Thread /\ Req \subseteq Thread /\ Timer \in Thread
           /\ Timer \notin Replica /\ Replica \cap Req = {}
           /\ Primary \in Node /\ Replica \subseteq Node /\ Primary \notin Replica
           /\ pc \in [Thread -> PC] /\ at \in [Thread -> 0..MaxSeq]
           /\ arg \in [Thread -> {"none", "YES", "NO"} \cup Decision]
           /\ tpc_log \in [Node -> SUBSET Record]
           /\ tpc_responses \in [TSeq -> SUBSET Replica]
           /\ tpc_replicas \in [TSeq -> SUBSET Replica]
           /\ queued_transactions \in [Node -> SUBSET TSeq]
           /\ to_replica \in [Replica -> Seq(Record)]
           /\ to_primary \in [Replica -> Seq(Vote \cup Command)]
           /\ alive_replicas \subseteq Replica /\ partition_fds \subseteq Replica
           /\ \A t \in Thread : pc[t] \in Working => at[t] \in TSeq
BY ConstantsAssumption DEF Thread, Node, IInv, TypeOK, ThreadTypeOK, NodeTypeOK,
   PrimaryTypeOK, ChannelTypeOK, ThreadInv, TSeq

LEMMA NextTokenInv ==
    IInv /\ PlaceInv /\ StartInv /\ TokenInv /\ [Next]_vars => TokenInv'
<1> SUFFICES ASSUME IInv, PlaceInv, StartInv, TokenInv, [Next]_vars PROVE TokenInv'
    OBVIOUS
<1>a. /\ Replica \subseteq Thread /\ Req \subseteq Thread /\ Timer \in Thread
      /\ Timer \notin Replica /\ Replica \cap Req = {}
      /\ Primary \in Node /\ Replica \subseteq Node /\ Primary \notin Replica
      /\ pc \in [Thread -> PC] /\ at \in [Thread -> 0..MaxSeq]
      /\ tpc_log \in [Node -> SUBSET Record]
      /\ tpc_responses \in [TSeq -> SUBSET Replica]
      /\ tpc_replicas \in [TSeq -> SUBSET Replica]
      /\ to_replica \in [Replica -> Seq(Record)]
      /\ to_primary \in [Replica -> Seq(Vote \cup Command)]
      /\ \A t \in Thread : pc[t] \in Working => at[t] \in TSeq
    BY VoteTypes
<1>1. ASSUME NEW q \in Req, ReceiveFromFrontend(q) \/ RefuseAbsent(q) \/ RegisterForwarded(q)
      PROVE  TokenInv'
  <2>1. UNCHANGED <<to_replica, to_primary, tpc_replicas, alive_replicas, tpc_log, tpc_responses>>
    BY <1>1 DEF ReceiveFromFrontend, RefuseAbsent, RegisterForwarded, cvars, pvars
  <2>2. \A r \in Replica : pc'[r] = pc[r] /\ at'[r] = at[r]
    BY <1>1, <1>a DEF ReceiveFromFrontend, Numbered, RefuseAbsent, RegisterForwarded, Goto
  <2> QED BY <2>1, <2>2, TokenQuiet DEF Sent, Prepared, Counted, Handles, Decides
<1>2. ASSUME NEW q \in Req, ForwardToPrimary(q) PROVE TokenInv'
  <2> DEFINE h == Home[q]  m == [type |-> "CMD", seq |-> 0, req |-> q]
  <2>1. /\ UNCHANGED <<to_replica, tpc_replicas, alive_replicas, tpc_log, tpc_responses>>
        /\ h \in Replica /\ to_primary' = [to_primary EXCEPT ![h] = Append(to_primary[h], m)]
    BY <1>2, <1>a DEF ForwardToPrimary, pvars
  <2>2. \A r \in Replica : pc'[r] = pc[r] /\ at'[r] = at[r]
    BY <1>2, <1>a DEF ForwardToPrimary, Goto
  <2>3. m \in Vote \cup Command /\ \A s : m \notin VotesOn(s)
    BY DEF Command, VotesOn
  <2> HIDE DEF m, h
  <2>4. /\ Elems(Append(to_primary[h], m)) = Elems(to_primary[h]) \cup {m}
        /\ \A s \in TSeq : Once(Append(to_primary[h], m), VotesOn(s))
    <3>1. to_primary[h] \in Seq(Vote \cup Command)
      BY <1>a, <2>1
    <3>2. Elems(Append(to_primary[h], m)) = Elems(to_primary[h]) \cup {m}
      BY <2>3, <3>1, AppendElems
    <3>3. \A s \in TSeq : Once(to_primary[h], VotesOn(s))
      BY <2>1 DEF TokenInv
    <3>4. \A s \in TSeq : Once(Append(to_primary[h], m), VotesOn(s))
      BY <2>3, <3>1, <3>3, OnceAppend
    <3> QED BY <3>2, <3>4
  <2>5. \A r \in Replica : \A s \in TSeq : /\ Once(to_primary[r], VotesOn(s))'
                                           /\ Voted(r, s)' => Voted(r, s)
    <3>1. \A r \in Replica : \/ to_primary'[r] = to_primary[r]
                             \/ r = h /\ to_primary'[r] = Append(to_primary[h], m)
      BY <1>a, <2>1
    <3>2. \A r \in Replica : Elems(to_primary'[r]) \subseteq Elems(to_primary[r]) \cup {m}
      BY <2>4, <3>1
    <3>3. \A r \in Replica : \A s \in TSeq : Once(to_primary'[r], VotesOn(s))
      BY <2>4, <3>1 DEF TokenInv
    <3> QED BY <2>3, <3>2, <3>3 DEF Voted
  <2>6. \A r \in Replica : \A s \in TSeq : /\ Once(to_replica[r], {PrepareOf(s)})'
                                           /\ Asked(r, s)' <=> Asked(r, s)
    BY <2>1 DEF TokenInv, Asked
  <2> QED BY <2>1, <2>2, <2>5, <2>6, TokenFrame DEF Sent, Prepared, Counted, Handles, Decides
<1>3. ASSUME NEW t \in Thread, StartReplication(t) \/ ExecuteAlone(t) \/ EnqueuePrepare(t)
      PROVE  TokenInv'
  <2>1. UNCHANGED <<to_replica, to_primary, tpc_replicas, alive_replicas, tpc_log, tpc_responses>>
    BY <1>3 DEF StartReplication, ExecuteAlone, EnqueuePrepare, cvars, pvars, nvars
  <2>2. \A r \in Replica : \/ pc'[r] = pc[r] /\ at'[r] = at[r]
                           \/ pc'[r] \in {"idle", "enqueue", "snapshot"}
    BY <1>3, <1>a DEF StartReplication, ExecuteAlone, EnqueuePrepare, Goto, Return
  <2> QED BY <2>1, <2>2, TokenQuiet DEF Sent, Prepared, Counted, Handles, Decides
<1>4. ASSUME NEW t \in Thread, SendPrepare(t) PROVE TokenInv'
  <2> DEFINE s0 == at[t]  m == PrepareOf(s0)
  <2>1. /\ s0 \in TSeq /\ m \in Record /\ ~Sent(s0) /\ partition_fds \subseteq alive_replicas
    <3>1. s0 \in TSeq
      BY <1>4, <1>a DEF SendPrepare, Working, PC
    <3>2. ~Sent(s0)
      BY <1>4, <3>1 DEF SendPrepare, StartInv, Starts, Starting
    <3>3. partition_fds \subseteq alive_replicas
      BY DEF PlaceInv, IInv, TypeOK, PrimaryTypeOK
    <3> QED BY <3>1, <3>2, <3>3 DEF Record, PrepareOf
  <2>2. /\ tpc_log'[Primary] = tpc_log[Primary] \cup {m}
        /\ \A r \in Replica : tpc_log'[r] = tpc_log[r]
        /\ to_replica' = Forwarded(m)
        /\ UNCHANGED <<to_primary, alive_replicas, tpc_responses>>
        /\ tpc_replicas' = [tpc_replicas EXCEPT ![s0] = alive_replicas]
    BY <1>4, <1>a DEF SendPrepare, PrepareOf
  <2>3. \A r \in Replica : \/ pc'[r] = pc[r] /\ at'[r] = at[r]
                           \/ pc'[r] = "idle"
    BY <1>4, <1>a DEF SendPrepare, Return, Goto
  <2>4. /\ \A s : PrepareOf(s) = m => s = s0
        /\ \A s \in TSeq : Sent(s)' <=> Sent(s) \/ s = s0
    <3>1. \A s : PrepareOf(s) = m => s = s0
      BY DEF PrepareOf
    <3> HIDE DEF s0
    <3>2. \A s \in TSeq : Sent(s)' <=> Sent(s) \/ s = s0
      BY <3>1, <2>2 DEF Sent
    <3> QED BY <3>1, <3>2
  <2>5. \A r \in Replica :
           \/ to_replica'[r] = to_replica[r]
           \/ r \in partition_fds /\ to_replica'[r] = Append(to_replica[r], m)
    BY <2>2 DEF Forwarded
  <2>6. \A r \in Replica : /\ Elems(Append(to_replica[r], m)) = Elems(to_replica[r]) \cup {m}
                           /\ m \notin Elems(to_replica[r])
    <3>1. \A r \in Replica : m \notin Elems(to_replica[r])
      BY <2>1 DEF TokenInv, Asked
    <3> HIDE DEF m
    <3> QED BY <1>a, <2>1, <3>1, AppendElems
  <2>7. \A r \in Replica : \A s \in TSeq : Once(Append(to_replica[r], m), {PrepareOf(s)})
    <3> SUFFICES ASSUME NEW r \in Replica, NEW s \in TSeq
                 PROVE  Once(Append(to_replica[r], m), {PrepareOf(s)})
      OBVIOUS
    <3>1. m \in {PrepareOf(s)} => Elems(to_replica[r]) \cap {PrepareOf(s)} = {}
      BY <2>4, <2>6
    <3>2. Once(to_replica[r], {PrepareOf(s)})
      BY DEF TokenInv
    <3> QED BY <1>a, <2>1, <3>1, <3>2, OnceAppend
  <2>8. \A r \in Replica : \A s \in TSeq :
           /\ Once(to_replica[r], {PrepareOf(s)})' /\ Once(to_primary[r], VotesOn(s))'
           /\ Asked(r, s)' => Asked(r, s) \/ (s = s0 /\ r \in partition_fds)
           /\ Voted(r, s)' <=> Voted(r, s)
    <3> HIDE DEF m, s0
    <3>1. ASSUME NEW r \in Replica, NEW s \in TSeq, Asked(r, s)'
          PROVE  Asked(r, s) \/ (s = s0 /\ r \in partition_fds)
      <4>1. PrepareOf(s) \in Elems(to_replica'[r])
        BY <3>1 DEF Asked
      <4>2. CASE to_replica'[r] = to_replica[r]
        BY <4>1, <4>2 DEF Asked
      <4>3. CASE r \in partition_fds /\ to_replica'[r] = Append(to_replica[r], m)
        BY <4>1, <4>3, <2>4, <2>6 DEF Asked
      <4> QED BY <2>5, <4>2, <4>3
    <3> QED BY <2>2, <2>5, <2>7, <3>1, ZenonT(60) DEF TokenInv, Voted
  <2>9. \A r \in Replica : \A s \in TSeq :
           /\ Counted(r, s)' <=> Counted(r, s)
           /\ Handles(r, s)' => Handles(r, s)
           /\ Decides(r, s)' => Decides(r, s)
           /\ Prepared(r, s)' <=> Prepared(r, s)
    BY <2>2, <2>3 DEF Counted, Handles, Decides, Prepared
  <2>10. \A r \in Replica : ~(Asked(r, s0) \/ Voted(r, s0) \/ Handles(r, s0) \/ Counted(r, s0)
                              \/ Decides(r, s0))
    BY <2>1 DEF TokenInv
  <2>11. /\ tpc_replicas'[s0] = alive_replicas
         /\ \A s \in TSeq : s # s0 => tpc_replicas'[s] = tpc_replicas[s]
    BY <1>a, <2>1, <2>2
  <2> HIDE DEF m, s0
  <2> QED BY <2>1, <2>2, <2>4, <2>8, <2>9, <2>10, <2>11, SMTT(20) DEF TokenInv

<1>5. ASSUME NEW t \in Thread, CheckUndecided(t) \/ LogDecision(t) \/ SetStatus(t)
             \/ PrimaryEntersQueue(t) \/ PrimaryApplies(t) \/ PrimaryReturns(t)
      PROVE  TokenInv'
  <2>1. UNCHANGED <<to_replica, to_primary, tpc_replicas, alive_replicas>>
    BY <1>5 DEF CheckUndecided, LogDecision, SetStatus, PrimaryEntersQueue, PrimaryApplies,
       PrimaryReturns, cvars, pvars
  <2>2. \A r \in Replica : \/ pc'[r] = pc[r] /\ at'[r] = at[r]
                           \/ pc'[r] \in {"idle", "send", "process", "loop"}
                           \/ pc[r] = "check" /\ pc'[r] = "issue" /\ at'[r] = at[r]
    BY <1>5, <1>a DEF CheckUndecided, LogDecision, SetStatus, PrimaryEntersQueue,
       PrimaryApplies, PrimaryReturns, Goto, Return, tvars
  <2>3. \A s \in TSeq : tpc_responses'[s] \subseteq tpc_responses[s]
    BY <1>5, <1>a DEF CheckUndecided, LogDecision, SetStatus, PrimaryEntersQueue,
       PrimaryApplies, PrimaryReturns, pvars
  <2>4. \/ tpc_log' = tpc_log
        \/ /\ arg[t] # "PREPARE"
           /\ tpc_log' = [tpc_log EXCEPT ![Primary] = @ \cup {[type |-> arg[t], seq |-> at[t]]}]
    BY <1>5 DEF CheckUndecided, LogDecision, SetStatus, PrimaryEntersQueue, PrimaryApplies,
       PrimaryReturns, ApplyNext, QuitUndecided, LeaveQueue, nvars, IInv, ThreadInv, Deciding,
       Decision
  <2>5. \A s \in TSeq : /\ Sent(s)' <=> Sent(s)
                        /\ \A r \in Replica : Prepared(r, s) => Prepared(r, s)'
    <3> DEFINE m == [type |-> arg[t], seq |-> at[t]]
    <3>1. CASE tpc_log' = tpc_log
      BY <3>1 DEF Sent, Prepared
    <3>2. CASE arg[t] # "PREPARE" /\ tpc_log' = [tpc_log EXCEPT ![Primary] = @ \cup {m}]
      <4>1. \A s : PrepareOf(s) # m
        BY <3>2 DEF PrepareOf
      <4> HIDE DEF m
      <4> QED BY <1>a, <3>2, <4>1 DEF Sent, Prepared
    <3> QED BY <2>4, <3>1, <3>2
  <2> QED BY <2>1, <2>2, <2>3, <2>5, TokenQuiet DEF Counted, Handles, Decides
<1>6. ASSUME NEW t \in Thread, SendDecision(t) PROVE TokenInv'
  <2> DEFINE m == [type |-> arg[t], seq |-> at[t]]
  <2>1. m \in Record /\ \A s : PrepareOf(s) # m
    <3>1. at[t] \in TSeq /\ arg[t] \in Decision
      BY <1>6, <1>a DEF SendDecision, Working, PC, IInv, ThreadInv, Deciding
    <3> QED BY <3>1 DEF Record, PrepareOf, Decision
  <2>2. /\ UNCHANGED <<to_primary, tpc_replicas, alive_replicas, tpc_log, tpc_responses>>
        /\ to_replica' = Forwarded(m)
        /\ \A r \in Replica : (pc'[r] = pc[r] /\ at'[r] = at[r]) \/ pc'[r] = "status"
    BY <1>6, <1>a DEF SendDecision, Goto, pvars, nvars
  <2>3. \A r \in Replica : to_replica'[r] \in {to_replica[r], Append(to_replica[r], m)}
    BY <2>2 DEF Forwarded
  <2>4. \A r \in Replica : /\ Elems(Append(to_replica[r], m)) = Elems(to_replica[r]) \cup {m}
                           /\ \A s \in TSeq : Once(Append(to_replica[r], m), {PrepareOf(s)})
    <3> HIDE DEF m
    <3>1. \A r \in Replica : Elems(Append(to_replica[r], m)) = Elems(to_replica[r]) \cup {m}
      BY <1>a, <2>1, AppendElems
    <3>2. \A r \in Replica : \A s \in TSeq : Once(to_replica[r], {PrepareOf(s)})
      BY DEF TokenInv
    <3>3. \A s : m \notin {PrepareOf(s)}
      BY <2>1
    <3>4. \A r \in Replica : \A s \in TSeq : Once(Append(to_replica[r], m), {PrepareOf(s)})
      BY <1>a, <2>1, <3>2, <3>3, OnceAppend
    <3> QED BY <3>1, <3>4
  <2>5. \A r \in Replica : \A s \in TSeq : /\ Once(to_replica[r], {PrepareOf(s)})'
                                           /\ Asked(r, s)' => Asked(r, s)
    <3> HIDE DEF m
    <3>1. \A r \in Replica : Elems(to_replica'[r]) \subseteq Elems(to_replica[r]) \cup {m}
      BY <2>3, <2>4
    <3>2. \A r \in Replica : \A s \in TSeq : Once(to_replica'[r], {PrepareOf(s)})
      BY <2>3, <2>4 DEF TokenInv
    <3> QED BY <2>1, <3>1, <3>2 DEF Asked
  <2>6. \A r \in Replica : \A s \in TSeq : /\ Once(to_primary[r], VotesOn(s))'
                                           /\ Voted(r, s)' <=> Voted(r, s)
    BY <2>2 DEF TokenInv, Voted
  <2> HIDE DEF m
  <2> QED BY <2>2, <2>5, <2>6, TokenFrame DEF Sent, Prepared, Counted, Handles, Decides
(* The head of a channel to the primary is read.                           *)
<1>b. ASSUME NEW r \in Replica, to_primary[r] # <<>>,
             to_primary' = [to_primary EXCEPT ![r] = Tail(to_primary[r])]
      PROVE  /\ Head(to_primary[r]) \in Elems(to_primary[r])
             /\ Head(to_primary[r]) \in Vote \cup Command
             /\ \A p \in Replica : \A s \in TSeq : /\ Once(to_primary[p], VotesOn(s))'
                                                   /\ Voted(p, s)' => Voted(p, s)
             /\ \A s \in TSeq : Head(to_primary[r]) \in VotesOn(s) => ~Voted(r, s)'
  <2>1. /\ Head(to_primary[r]) \in Elems(to_primary[r])
        /\ Head(to_primary[r]) \in Vote \cup Command
        /\ Elems(Tail(to_primary[r])) \subseteq Elems(to_primary[r])
    BY <1>a, <1>b, HeadTail
  <2>2. \A s \in TSeq :
           /\ Once(Tail(to_primary[r]), VotesOn(s))
           /\ Head(to_primary[r]) \in VotesOn(s) => Elems(Tail(to_primary[r])) \cap VotesOn(s) = {}
    BY <1>a, <1>b, OnceTail DEF TokenInv
  <2>3. \A p \in Replica : \A s \in TSeq : /\ Once(to_primary[p], VotesOn(s))'
                                           /\ Voted(p, s)' => Voted(p, s)
    BY <1>a, <1>b, <2>1, <2>2 DEF TokenInv, Voted
  <2>4. \A s \in TSeq : Head(to_primary[r]) \in VotesOn(s) => ~Voted(r, s)'
    BY <1>a, <1>b, <2>2 DEF Voted
  <2> QED BY <2>1, <2>3, <2>4
<1>7. ASSUME NEW r \in Replica, ReceiveForwarded(r) \/ RefuseForwarded(r) PROVE TokenInv'
  <2>1. /\ UNCHANGED <<to_replica, tpc_replicas, alive_replicas, tpc_log, tpc_responses>>
        /\ to_primary[r] # <<>>
        /\ to_primary' = [to_primary EXCEPT ![r] = Tail(to_primary[r])]
    BY <1>7, <1>a DEF ReceiveForwarded, RefuseForwarded, pvars, nvars
  <2>2. \A p \in Replica : (pc'[p] = pc[p] /\ at'[p] = at[p]) \/ pc'[p] = "size"
    BY <1>7, <1>a DEF ReceiveForwarded, RefuseForwarded, Numbered, Goto, tvars
  <2>3. \A p \in Replica : \A s \in TSeq : /\ Once(to_replica[p], {PrepareOf(s)})'
                                           /\ Asked(p, s)' <=> Asked(p, s)
    BY <2>1 DEF TokenInv, Asked
  <2> QED BY <2>1, <2>2, <2>3, <1>b, TokenFrame DEF Sent, Prepared, Counted, Handles, Decides
<1>8. ASSUME NEW r \in Replica, ReceiveVote(r) PROVE TokenInv'
  <2> DEFINE m == Head(to_primary[r])
  <2>1. /\ UNCHANGED <<to_replica, tpc_replicas, alive_replicas, tpc_log, tpc_responses>>
        /\ to_primary[r] # <<>> /\ pc[r] = "idle"
        /\ to_primary' = [to_primary EXCEPT ![r] = Tail(to_primary[r])]
    BY <1>8, <1>a DEF ReceiveVote, pvars, nvars
  <2>2. PICK s0 \in TSeq : m.seq = s0 /\ m \in VotesOn(s0) /\ Voted(r, s0) /\ ~Voted(r, s0)'
    <3>1. m \in Elems(to_primary[r]) /\ m \in Vote \cup Command /\ m.type \in {"YES", "NO"}
      BY <1>8, <2>1, <1>b DEF ReceiveVote
    <3>2. PICK s0 \in TSeq : m.seq = s0 /\ m \in VotesOn(s0)
      BY <3>1 DEF Vote, Command, VotesOn
    <3>3. Voted(r, s0)
      BY <3>1, <3>2 DEF Voted
    <3>4. ~Voted(r, s0)'
      BY <2>1, <3>2, <1>b
    <3> QED BY <3>2, <3>3, <3>4
  <2>3. \A p \in Replica : \/ pc'[p] = pc[p] /\ at'[p] = at[p]
                           \/ p = r /\ pc'[p] = "lookup" /\ at'[p] = s0
    BY <1>8, <1>a, <2>2 DEF ReceiveVote, Goto
  <2>4. \A p \in Replica : \A s \in TSeq :
           /\ Once(to_replica[p], {PrepareOf(s)})' /\ Once(to_primary[p], VotesOn(s))'
           /\ Asked(p, s)' <=> Asked(p, s)
           /\ Voted(p, s)' => Voted(p, s) /\ ~(p = r /\ s = s0)
           /\ Handles(p, s)' => Handles(p, s) \/ (p = r /\ s = s0)
           /\ Decides(p, s)' => Decides(p, s)
           /\ Counted(p, s)' <=> Counted(p, s)
           /\ Prepared(p, s)' <=> Prepared(p, s)
           /\ Sent(s)' <=> Sent(s)
    BY <2>1, <2>2, <2>3, <1>b
       DEF TokenInv, Asked, Handles, Decides, Counted, Prepared, Sent
  <2> QED BY <2>1, <2>2, <2>4, ZenonT(60) DEF TokenInv

<1>9. ASSUME NEW r \in Replica, LookUpVoted(r) \/ PrimaryVotes(r) PROVE TokenInv'
  <2>1. UNCHANGED <<to_replica, to_primary, tpc_replicas, alive_replicas, tpc_log, tpc_responses>>
    BY <1>9 DEF LookUpVoted, PrimaryVotes, cvars, pvars, nvars
  <2>2. \A p \in Replica : \/ pc'[p] = pc[p] /\ at'[p] = at[p]
                           \/ pc'[p] = "idle"
                           \/ pc[p] = "lookup" /\ pc'[p] \in {"respond", "check"} /\ at'[p] = at[p]
                           \/ pc[p] = "getlock" /\ pc'[p] = "check" /\ at'[p] = at[p]
    BY <1>9, <1>a DEF LookUpVoted, PrimaryVotes, Goto, Return
  <2> QED BY <2>1, <2>2, TokenQuiet DEF Sent, Prepared, Counted, Handles, Decides
<1>10. ASSUME NEW r \in Replica, CountYes(r) PROVE TokenInv'
  <2>1. PICK s0 \in TSeq : s0 = at[r] /\ Handles(r, s0)
    BY <1>10, <1>a DEF CountYes, Handles, Working, PC
  <2>2. /\ UNCHANGED <<to_replica, to_primary, tpc_replicas, alive_replicas, tpc_log>>
        /\ tpc_responses' = [tpc_responses EXCEPT ![s0] = tpc_responses[s0] \cup {r}]
    BY <1>10, <2>1 DEF CountYes, cvars, nvars
  <2>3. \A p \in Replica : \/ p # r /\ pc'[p] = pc[p] /\ at'[p] = at[p]
                           \/ p = r /\ pc'[p] = "idle"
                           \/ p = r /\ pc'[p] = "getlock" /\ at'[p] = s0
    BY <1>10, <1>a, <2>1 DEF CountYes, Goto, Return
  <2>4. \A p \in Replica : \A s \in TSeq :
           /\ Once(to_replica[p], {PrepareOf(s)})' /\ Once(to_primary[p], VotesOn(s))'
           /\ Asked(p, s)' <=> Asked(p, s)
           /\ Voted(p, s)' <=> Voted(p, s)
           /\ Handles(p, s)' => Handles(p, s) /\ p # r
           /\ Decides(p, s)' => Decides(p, s) \/ (p = r /\ s = s0)
           /\ Counted(p, s)' => Counted(p, s) \/ (p = r /\ s = s0)
           /\ Prepared(p, s)' <=> Prepared(p, s)
           /\ Sent(s)' <=> Sent(s)
    BY <1>a, <2>2, <2>3, ZenonT(60)
       DEF TokenInv, Asked, Voted, Handles, Decides, Counted, Prepared, Sent
  <2> QED BY <2>1, <2>2, <2>4, ZenonT(60) DEF TokenInv
(* The head of a channel to a replica is read.                             *)
<1>c. ASSUME NEW r \in Replica, to_replica[r] # <<>>,
             to_replica' = [to_replica EXCEPT ![r] = Tail(to_replica[r])]
      PROVE  /\ Head(to_replica[r]) \in Elems(to_replica[r]) /\ Head(to_replica[r]) \in Record
             /\ \A p \in Replica : \A s \in TSeq : /\ Once(to_replica[p], {PrepareOf(s)})'
                                                   /\ Asked(p, s)' => Asked(p, s)
             /\ \A s \in TSeq : Head(to_replica[r]) = PrepareOf(s) => ~Asked(r, s)'
  <2>1. /\ Head(to_replica[r]) \in Elems(to_replica[r]) /\ Head(to_replica[r]) \in Record
        /\ Elems(Tail(to_replica[r])) \subseteq Elems(to_replica[r])
    BY <1>a, <1>c, HeadTail
  <2>2. \A s \in TSeq :
           /\ Once(Tail(to_replica[r]), {PrepareOf(s)})
           /\ Head(to_replica[r]) \in {PrepareOf(s)}
                => Elems(Tail(to_replica[r])) \cap {PrepareOf(s)} = {}
    BY <1>a, <1>c, OnceTail DEF TokenInv
  <2>3. \A p \in Replica : \A s \in TSeq : /\ Once(to_replica[p], {PrepareOf(s)})'
                                           /\ Asked(p, s)' => Asked(p, s)
    BY <1>a, <1>c, <2>1, <2>2 DEF TokenInv, Asked
  <2>4. \A s \in TSeq : Head(to_replica[r]) = PrepareOf(s) => ~Asked(r, s)'
    BY <1>a, <1>c, <2>2 DEF Asked
  <2> QED BY <2>1, <2>3, <2>4
<1>11. ASSUME NEW r \in Replica, ReplicaDecides(r) PROVE TokenInv'
  <2>1. /\ UNCHANGED <<to_primary, tpc_replicas, alive_replicas, tpc_responses, pc, at>>
        /\ to_replica[r] # <<>>
        /\ to_replica' = [to_replica EXCEPT ![r] = Tail(to_replica[r])]
    BY <1>11, <1>a DEF ReplicaDecides, Incoming, pvars
  <2>2. /\ tpc_log'[Primary] = tpc_log[Primary]
        /\ \A p \in Replica : tpc_log[p] \subseteq tpc_log'[p]
    <3>1. \/ tpc_log' = tpc_log
          \/ tpc_log' = [tpc_log EXCEPT ![r] = tpc_log[r] \cup {Head(to_replica[r])}]
      BY <1>11, <1>a DEF ReplicaDecides
    <3> QED BY <1>a, <3>1
  <2>3. \A p \in Replica : \A s \in TSeq : /\ Once(to_primary[p], VotesOn(s))'
                                           /\ Voted(p, s)' <=> Voted(p, s)
    BY <2>1 DEF TokenInv, Voted
  <2> QED BY <2>1, <2>2, <2>3, <1>c, TokenFrame DEF Sent, Prepared, Counted, Handles, Decides
<1>12. ASSUME NEW r \in Replica, ReplicaVotes(r) PROVE TokenInv'
  <2> DEFINE m == Head(to_replica[r])
  <2>1. /\ UNCHANGED <<tpc_replicas, alive_replicas, tpc_responses, pc, at>>
        /\ to_replica[r] # <<>> /\ m.type = "PREPARE"
        /\ to_replica' = [to_replica EXCEPT ![r] = Tail(to_replica[r])]
    BY <1>12, <1>a DEF ReplicaVotes, Incoming, pvars, tvars
  <2>2. PICK s0 \in TSeq : m.seq = s0 /\ m = PrepareOf(s0) /\ Asked(r, s0) /\ ~Asked(r, s0)'
    <3>1. m \in Elems(to_replica[r]) /\ m \in Record
      BY <2>1, <1>c
    <3>2. PICK s0 \in TSeq : m.seq = s0 /\ m = PrepareOf(s0)
      BY <2>1, <3>1 DEF Record, PrepareOf
    <3>3. Asked(r, s0)
      BY <3>1, <3>2 DEF Asked
    <3>4. ~Asked(r, s0)'
      BY <2>1, <3>2, <1>c
    <3> QED BY <3>2, <3>3, <3>4
  <2>3. CASE UNCHANGED <<tpc_log, to_primary>>
    <3>1. \A p \in Replica : \A s \in TSeq : /\ Once(to_primary[p], VotesOn(s))'
                                             /\ Voted(p, s)' <=> Voted(p, s)
      BY <2>3 DEF TokenInv, Voted
    <3> QED BY <2>1, <2>3, <3>1, <1>c, TokenFrame DEF Sent, Prepared, Counted, Handles, Decides
  <2>4. CASE ~UNCHANGED <<tpc_log, to_primary>>
    <3>1. PICK v \in VotesOn(s0) :
             to_primary' = [to_primary EXCEPT ![r] = Append(to_primary[r], v)]
      <4>1. PICK yes \in BOOLEAN :
               to_primary' = [to_primary EXCEPT ![r] = Append(to_primary[r], VoteOn(yes, s0))]
        BY <1>12, <1>a, <2>2, <2>4 DEF ReplicaVotes, LockGranted
      <4>2. VoteOn(yes, s0) \in VotesOn(s0)
        BY DEF VoteOn, VotesOn
      <4> QED BY <4>1, <4>2
    <3>2. tpc_log' = [tpc_log EXCEPT ![r] = @ \cup {PrepareOf(s0)}]
      BY <1>12, <2>2, <2>4 DEF ReplicaVotes, PrepareOf
    <3>3. v \in Vote \cup Command /\ \A s \in TSeq : v \in VotesOn(s) => s = s0
      BY DEF VotesOn, Vote
    <3>4. to_primary[r] \in Seq(Vote \cup Command) /\ ~Voted(r, s0)
      BY <1>a, <2>2 DEF TokenInv
    <3>5. Elems(Append(to_primary[r], v)) = Elems(to_primary[r]) \cup {v}
      BY <3>3, <3>4, AppendElems
    <3>6. \A s \in TSeq : Once(Append(to_primary[r], v), VotesOn(s))
      <4> SUFFICES ASSUME NEW s \in TSeq PROVE Once(Append(to_primary[r], v), VotesOn(s))
        OBVIOUS
      <4>1. v \in VotesOn(s) => Elems(to_primary[r]) \cap VotesOn(s) = {}
        BY <3>3, <3>4 DEF Voted
      <4>2. Once(to_primary[r], VotesOn(s))
        BY DEF TokenInv
      <4> QED BY <3>3, <3>4, <4>1, <4>2, OnceAppend
    <3>7. \A p \in Replica : \/ p # r /\ to_primary'[p] = to_primary[p]
                             \/ p = r /\ to_primary'[p] = Append(to_primary[r], v)
      BY <1>a, <3>1
    <3>8. \A p \in Replica : \A s \in TSeq :
             /\ Once(to_primary[p], VotesOn(s))'
             /\ Voted(p, s)' => Voted(p, s) \/ (p = r /\ s = s0)
      BY <3>3, <3>5, <3>6, <3>7 DEF TokenInv, Voted
    <3>9. /\ tpc_log'[Primary] = tpc_log[Primary] /\ PrepareOf(s0) \in tpc_log'[r]
          /\ \A p \in Replica : tpc_log[p] \subseteq tpc_log'[p]
      BY <1>a, <3>2
    <3>10. \A p \in Replica : \A s \in TSeq :
             /\ Once(to_replica[p], {PrepareOf(s)})'
             /\ Asked(p, s)' => Asked(p, s) /\ ~(p = r /\ s = s0)
             /\ Handles(p, s)' <=> Handles(p, s)
             /\ Decides(p, s)' <=> Decides(p, s)
             /\ Counted(p, s)' <=> Counted(p, s)
             /\ Prepared(p, s) => Prepared(p, s)'
             /\ Sent(s)' <=> Sent(s)
      BY <2>1, <2>2, <3>9, <1>c DEF Handles, Decides, Counted, Prepared, Sent
    <3>11. Prepared(r, s0)'
      BY <3>9 DEF Prepared
    <3> QED BY <2>1, <2>2, <3>8, <3>10, <3>11, ZenonT(60) DEF TokenInv
  <2> QED BY <2>3, <2>4
<1>13. ASSUME NEW r \in Replica, ReplicaApplies(r) \/ ReplicaReturns(r) \/ Crash(r)
       PROVE  TokenInv'
  <2>1. UNCHANGED <<to_replica, to_primary, tpc_replicas, alive_replicas, tpc_log, tpc_responses,
                    pc, at>>
    BY <1>13 DEF ReplicaApplies, ReplicaReturns, Crash, ApplyNext, QuitUndecided, LeaveQueue,
       cvars, pvars, nvars, tvars
  <2> QED BY <2>1, TokenQuiet DEF Sent, Prepared, Counted, Handles, Decides
<1>14. ASSUME NEW r \in Replica, ClosingStep(r) PROVE TokenInv'
  <2>1. /\ UNCHANGED <<to_replica, to_primary, tpc_replicas, tpc_log, tpc_responses>>
        /\ alive_replicas' \subseteq alive_replicas
    BY <1>14 DEF ClosingStep, DropConnection, DropAlive, cvars, nvars
  <2>2. \A p \in Replica : (pc'[p] = pc[p] /\ at'[p] = at[p]) \/ pc'[p] \in {"closing", "closed"}
    BY <1>14, <1>a DEF ClosingStep, DropConnection, DropAlive, Goto
  <2> QED BY <2>1, <2>2, TokenQuiet DEF Sent, Prepared, Counted, Handles, Decides
<1>15. CASE (\E s \in TSeq : FindExpired(s)) \/ LookUpExpired
  <2>1. UNCHANGED <<to_replica, to_primary, tpc_replicas, alive_replicas, tpc_log, tpc_responses>>
    BY <1>15 DEF FindExpired, LookUpExpired, cvars, pvars, nvars
  <2>2. \A p \in Replica : pc'[p] = pc[p] /\ at'[p] = at[p]
    BY <1>15, <1>a DEF FindExpired, LookUpExpired, Goto, Return
  <2> QED BY <2>1, <2>2, TokenQuiet DEF Sent, Prepared, Counted, Handles, Decides
<1>16. CASE UNCHANGED vars
    BY <1>16, TokenQuiet DEF vars, pvars, nvars, cvars, tvars, Sent, Prepared, Counted, Handles,
       Decides
<1> QED BY <1>1, <1>2, <1>3, <1>4, <1>5, <1>6, <1>7, <1>8, <1>9, <1>10, <1>11, <1>12, <1>13,
           <1>14, <1>15, <1>16
        DEF Next, FrontendStep, CommandStep, DecisionStep, VoteStep, ReplicaStep

-----------------------------------------------------------------------------
(* One decision.                                                           *)

Undecided(s) == s \notin queued_transactions[Primary]

(* A logged decision is marked.  While s is not marked, a thread that      *)
(* decides it either carries a NO, and aborts, or has counted the YES of   *)
(* everyone alive, and is the only one of that kind; as every thread that  *)
(* carries a vote belongs to someone alive, the two exclude each other.    *)
(* Once s is marked, whoever has passed the check already can only abort.  *)
DecideInv ==
    /\ \A s \in TSeq : \A d \in Decision : Logged(d, s) => ~Undecided(s)
    /\ \A s \in TSeq \ expired : \A d \in Decision : Logged(d, s) => Sent(s)
    /\ \A s \in TSeq \ Disputed :
          /\ ~ (Logged("COMMIT", s) /\ Logged("ABORT", s))
          /\ Undecided(s) =>
               /\ \A r \in Replica : Decides(r, s) =>
                    IF Counted(r, s) THEN alive_replicas \subseteq tpc_responses[s]
                                     ELSE pc[r] # "getlock" /\ arg[r] = "ABORT"
               /\ \A r, p \in Replica :
                    Decides(r, s) /\ Counted(r, s) /\ Decides(p, s) /\ Counted(p, s) => r = p
          /\ ~Undecided(s) =>
               \A r \in Replica : pc[r] = "issue" /\ at[r] = s =>
                    arg[r] = "ABORT" /\ ~Logged("COMMIT", s)

LEMMA InitDecideInv == Init => DecideInv
<1> SUFFICES ASSUME Init PROVE DecideInv
    OBVIOUS
<1>1. /\ \A s \in TSeq : \A d \in Decision : ~Logged(d, s)
      /\ \A r \in Replica : pc[r] = "idle"
      /\ "COMMIT" \in Decision
    BY DEF Init, Logged, Node, Thread, Decision
<1> QED BY <1>1 DEF DecideInv, Decides

(* What handle_message has when it goes on to commit: unless a vote was    *)
(* miscounted, the YES of everyone alive.                                  *)
LEMMA FullCount ==
    ASSUME IInv, TokenInv, NEW r \in Replica, NEW s \in TSeq, Handles(r, s),
           NEW responses, responses = tpc_responses[s] \cup {r},
           EnoughVotes(responses, s), ~DroppedVoteCounted(responses, s)
    PROVE  alive_replicas \subseteq responses
<1>1. /\ alive_replicas \subseteq tpc_replicas[s] /\ responses \subseteq tpc_replicas[s]
    BY VoteTypes DEF TokenInv, Counted
<1>2. /\ IsFiniteSet(Replica) /\ tpc_replicas[s] \subseteq Replica
      /\ alive_replicas \subseteq Replica /\ responses \subseteq Replica
    BY <1>1, VoteTypes, ConstantsAssumption
<1>3. /\ IsFiniteSet(tpc_replicas[s]) /\ IsFiniteSet(alive_replicas) /\ IsFiniteSet(responses)
    BY <1>2, FS_Subset
<1>4. CASE Cardinality(responses) = Cardinality(tpc_replicas[s])
  <2>1. responses = tpc_replicas[s]
    BY <1>1, <1>3, <1>4, FS_Subset
  <2> QED BY <1>1, <2>1
<1>5. CASE responses \subseteq alive_replicas /\ Cardinality(responses) >= Cardinality(alive_replicas)
  <2>1. Cardinality(responses) <= Cardinality(alive_replicas)
    BY <1>3, <1>5, FS_Subset
  <2>2. Cardinality(responses) = Cardinality(alive_replicas)
    BY <1>3, <1>5, <2>1, FS_CardinalityType
  <2>3. responses = alive_replicas
    BY <1>3, <1>5, <2>2, FS_Subset
  <2> QED BY <2>3
<1> QED BY <1>4, <1>5 DEF EnoughVotes, DroppedVoteCounted

(* A step that neither counts a vote nor logs a decision.                  *)
LEMMA DecideFrame ==
    ASSUME TokenInv, DecideInv, UNCHANGED tpc_responses,
           alive_replicas' \subseteq alive_replicas,
           expired \subseteq expired', miscounted \subseteq miscounted',
           \A s \in TSeq : /\ Undecided(s)' <=> Undecided(s)
                           /\ Sent(s) => Sent(s)'
                           /\ \A d \in Decision : Logged(d, s)' <=> Logged(d, s),
           \A r \in Replica : \A s \in TSeq : Decides(r, s)' =>
              \/ Handles(r, s) /\ pc'[r] = "check" /\ arg'[r] = "ABORT"
              \/ /\ Decides(r, s) /\ (pc'[r] = "getlock" => pc[r] = "getlock")
                 /\ arg'[r] = arg[r] \/ (pc[r] = "getlock" /\ pc'[r] = "check")
                 /\ pc'[r] = "issue" => (pc[r] = "issue" /\ arg'[r] = arg[r]) \/ Undecided(s)
    PROVE  DecideInv'
<1>1. "COMMIT" \in Decision /\ "ABORT" \in Decision
    BY DEF Decision
<1>2. \A s \in TSeq : \A d \in Decision : Logged(d, s)' => ~Undecided(s)'
    BY DEF DecideInv
<1>3. \A s \in TSeq \ expired' : \A d \in Decision : Logged(d, s)' => Sent(s)'
    BY DEF DecideInv
<1> SUFFICES ASSUME NEW s \in TSeq, s \notin Disputed'
             PROVE  /\ ~ (Logged("COMMIT", s)' /\ Logged("ABORT", s)')
                    /\ Undecided(s)' =>
                         /\ \A r \in Replica : Decides(r, s)' =>
                              IF Counted(r, s)' THEN alive_replicas' \subseteq tpc_responses'[s]
                                                ELSE pc'[r] # "getlock" /\ arg'[r] = "ABORT"
                         /\ \A r, p \in Replica : Decides(r, s)' /\ Counted(r, s)'
                                               /\ Decides(p, s)' /\ Counted(p, s)' => r = p
                    /\ ~Undecided(s)' =>
                         \A r \in Replica : pc'[r] = "issue" /\ at'[r] = s =>
                              arg'[r] = "ABORT" /\ ~Logged("COMMIT", s)'
    BY <1>2, <1>3 DEF DecideInv
<1>4. s \notin Disputed
    BY DEF Disputed
<1>5. \A r \in Replica : Counted(r, s)' <=> Counted(r, s)
    BY DEF Counted
<1>6. \A r \in Replica : Handles(r, s) => ~Counted(r, s)
    BY DEF TokenInv
<1>7. \A r \in Replica : pc'[r] = "issue" /\ at'[r] = s => Decides(r, s)'
    BY DEF Decides
<1>8. \A r \in Replica : Decides(r, s) => at[r] = s
    BY DEF Decides
<1> QED BY <1>1, <1>4, <1>5, <1>6, <1>7, <1>8 DEF DecideInv

LEMMA NextDecideInv ==
    IInv /\ PlaceInv /\ TokenInv /\ DecideInv /\ [Next]_vars => DecideInv'
<1> SUFFICES ASSUME IInv, PlaceInv, TokenInv, DecideInv, [Next]_vars PROVE DecideInv'
    OBVIOUS
<1>a. /\ Replica \subseteq Thread /\ Req \subseteq Thread /\ Timer \in Thread
      /\ Timer \notin Replica /\ Replica \cap Req = {}
      /\ Primary \in Node /\ Replica \subseteq Node /\ Primary \notin Replica
      /\ pc \in [Thread -> PC] /\ at \in [Thread -> 0..MaxSeq]
      /\ arg \in [Thread -> {"none", "YES", "NO"} \cup Decision]
      /\ tpc_log \in [Node -> SUBSET Record]
      /\ tpc_responses \in [TSeq -> SUBSET Replica]
      /\ queued_transactions \in [Node -> SUBSET TSeq]
      /\ \A t \in Thread : pc[t] \in Working => at[t] \in TSeq
    BY VoteTypes
(* It is enough that no thread of a replica comes to a decision.           *)
<1>b. ASSUME UNCHANGED <<tpc_responses, miscounted>>,
             alive_replicas' \subseteq alive_replicas, expired \subseteq expired',
             queued_transactions'[Primary] = queued_transactions[Primary],
             \A s \in TSeq : /\ Sent(s) => Sent(s)'
                             /\ \A d \in Decision : Logged(d, s)' <=> Logged(d, s),
             \A r \in Replica : \/ at'[r] = at[r] /\ pc'[r] = pc[r] /\ arg'[r] = arg[r]
                                \/ pc'[r] \notin {"getlock", "check", "issue"}
      PROVE  DecideInv'
    BY <1>b, DecideFrame DEF Undecided, Decides
<1>c. ASSUME tpc_log'[Primary] = tpc_log[Primary]
      PROVE  \A s \in TSeq : /\ Sent(s) <=> Sent(s)'
                             /\ \A d \in Decision : Logged(d, s)' <=> Logged(d, s)
    BY <1>c DEF Sent, Logged
<1>1. ASSUME NEW q \in Req, FrontendStep(q) \/ RegisterForwarded(q) PROVE DecideInv'
  <2>1. /\ UNCHANGED <<tpc_responses, miscounted, alive_replicas, expired, queued_transactions,
                       tpc_log>>
        /\ \A r \in Replica : at'[r] = at[r] /\ pc'[r] = pc[r] /\ arg'[r] = arg[r]
    BY <1>1, <1>a DEF FrontendStep, ReceiveFromFrontend, Numbered, ForwardToPrimary, RefuseAbsent,
       RegisterForwarded, Goto, pvars
  <2> QED BY <2>1, <1>b, <1>c
<1>2. ASSUME NEW t \in Thread, CommandStep(t) PROVE DecideInv'
  <2>1. /\ UNCHANGED <<tpc_responses, miscounted, alive_replicas, expired, queued_transactions>>
        /\ \A r \in Replica : \/ at'[r] = at[r] /\ pc'[r] = pc[r] /\ arg'[r] = arg[r]
                              \/ pc'[r] \notin {"getlock", "check", "issue"}
    BY <1>2, <1>a DEF CommandStep, StartReplication, ExecuteAlone, EnqueuePrepare, SendPrepare,
       Goto, Return, pvars, nvars
  <2>2. \A s \in TSeq : /\ Sent(s) => Sent(s)'
                        /\ \A d \in Decision : Logged(d, s)' <=> Logged(d, s)
    <3> DEFINE m == PrepareOf(at[t])
    <3>1. \/ tpc_log'[Primary] = tpc_log[Primary]
          \/ tpc_log'[Primary] = tpc_log[Primary] \cup {m}
      BY <1>2, <1>a DEF CommandStep, StartReplication, ExecuteAlone, EnqueuePrepare, SendPrepare,
         PrepareOf, nvars
    <3>2. \A s : \A d \in Decision : [type |-> d, seq |-> s] # m
      BY DEF PrepareOf, Decision
    <3> HIDE DEF m
    <3> QED BY <3>1, <3>2 DEF Sent, Logged
  <2> QED BY <2>1, <2>2, <1>b
<1>3. ASSUME NEW t \in Thread, CheckUndecided(t) PROVE DecideInv'
  <2>1. UNCHANGED <<tpc_responses, miscounted, alive_replicas, expired, queued_transactions, tpc_log>>
    BY <1>3 DEF CheckUndecided, pvars, nvars
  <2>2. \A r \in Replica : \A s \in TSeq : Decides(r, s)' =>
           /\ Decides(r, s) /\ arg'[r] = arg[r] /\ (pc'[r] = "getlock" => pc[r] = "getlock")
           /\ pc'[r] = "issue" => pc[r] = "issue" \/ Undecided(s)
    BY <1>3, <1>a DEF CheckUndecided, Decides, Undecided, AlreadyProcessed, Goto, Return
  <2> QED BY <2>1, <2>2, <1>c, DecideFrame DEF Undecided
<1>4. ASSUME NEW t \in Thread, SendDecision(t) \/ SetStatus(t) \/ PrimaryEntersQueue(t)
             \/ PrimaryApplies(t) \/ PrimaryReturns(t)
      PROVE  DecideInv'
  <2>1. UNCHANGED <<tpc_responses, miscounted, alive_replicas, expired, queued_transactions, tpc_log>>
    BY <1>4 DEF SendDecision, SetStatus, PrimaryEntersQueue, PrimaryApplies, PrimaryReturns,
       ApplyNext, QuitUndecided, LeaveQueue, pvars, nvars
  <2>2. \A r \in Replica : \/ at'[r] = at[r] /\ pc'[r] = pc[r] /\ arg'[r] = arg[r]
                           \/ pc'[r] \notin {"getlock", "check", "issue"}
    BY <1>4, <1>a DEF SendDecision, SetStatus, PrimaryEntersQueue, PrimaryApplies, PrimaryReturns,
       Goto, Return, tvars
  <2> QED BY <2>1, <2>2, <1>b, <1>c
<1>5. ASSUME NEW t \in Thread, LogDecision(t) PROVE DecideInv'
  <2>1. PICK s0 \in TSeq : s0 = at[t] /\ pc[t] = "issue"
    BY <1>5, <1>a DEF LogDecision, Working, PC
  <2> DEFINE m == [type |-> arg[t], seq |-> s0]
  <2>2. /\ UNCHANGED <<miscounted, alive_replicas, expired, at, arg>>
        /\ queued_transactions'[Primary] = queued_transactions[Primary] \cup {s0}
        /\ tpc_log'[Primary] = tpc_log[Primary] \cup {m}
        /\ tpc_responses' = [tpc_responses EXCEPT ![s0] = {}]
        /\ \A r \in Replica : pc'[r] = IF r = t THEN "send" ELSE pc[r]
    BY <1>5, <1>a, <2>1 DEF LogDecision, Goto
  <2>3. /\ arg[t] \in Decision /\ m # PrepareOf(s0)
        /\ \A s : PrepareOf(s) # m
        /\ \A s : \A d : [type |-> d, seq |-> s] = m <=> d = arg[t] /\ s = s0
    <3>1. arg[t] \in Decision
      BY <2>1, <1>a DEF IInv, ThreadInv, Deciding
    <3> QED BY <3>1 DEF PrepareOf, Decision
  <2> HIDE DEF m
  <2>4. \A s \in TSeq : /\ Sent(s)' <=> Sent(s)
                        /\ Undecided(s)' <=> Undecided(s) /\ s # s0
                        /\ \A d : Logged(d, s)' <=> Logged(d, s) \/ (d = arg[t] /\ s = s0)
    BY <2>2, <2>3 DEF Sent, Undecided, Logged
  <2>5. \A r \in Replica : \A s \in TSeq :
           /\ Decides(r, s)' => Decides(r, s) /\ r # t
           /\ s # s0 => (Counted(r, s)' <=> Counted(r, s))
           /\ s # s0 => tpc_responses'[s] = tpc_responses[s]
    BY <1>a, <2>2 DEF Decides, Counted
  <2>6. s0 \notin expired => t \in Replica /\ Decides(t, s0) /\ Sent(s0)
    BY <2>1 DEF PlaceInv, FrontendPlaces, Starting, Thread, Decides, TokenInv
  <2>7. "COMMIT" \in Decision /\ "ABORT" \in Decision /\ arg[t] \in {"COMMIT", "ABORT"}
    BY <2>3 DEF Decision
  <2>8. \A s \in TSeq : \A d \in Decision : Logged(d, s)' => ~Undecided(s)'
    BY <2>4 DEF DecideInv
  <2>9. \A s \in TSeq \ expired' : \A d \in Decision : Logged(d, s)' => Sent(s)'
    BY <2>2, <2>4, <2>6 DEF DecideInv
  <2>10. ASSUME s0 \notin Disputed
         PROVE  /\ ~ (Logged("COMMIT", s0)' /\ Logged("ABORT", s0)')
                /\ \A r \in Replica : pc'[r] = "issue" /\ at'[r] = s0 =>
                      arg'[r] = "ABORT" /\ ~Logged("COMMIT", s0)'
    <3>1. t \in Replica /\ Decides(t, s0)
      BY <2>6, <2>10 DEF Disputed
    <3>2. \A r \in Replica : pc'[r] = "issue" /\ at'[r] = s0 =>
             r # t /\ pc[r] = "issue" /\ at[r] = s0 /\ Decides(r, s0) /\ arg'[r] = arg[r]
      BY <2>2 DEF Decides
    <3>3. \A r \in Replica : r \in alive_replicas \/ ~Decides(r, s0)
      BY DEF PlaceInv, Decides
    <3>4. CASE Undecided(s0)
      <4>1. ~Logged("COMMIT", s0) /\ ~Logged("ABORT", s0)
        BY <2>7, <3>4 DEF DecideInv
      <4>2. \A r \in Replica : Decides(r, s0) /\ r # t => arg[r] = "ABORT" /\ arg[t] = "ABORT"
        BY <2>10, <3>1, <3>3, <3>4 DEF DecideInv, Counted
      <4> QED BY <2>4, <2>7, <3>1, <3>2, <4>1, <4>2
    <3>5. CASE ~Undecided(s0)
      <4>1. arg[t] = "ABORT" /\ ~Logged("COMMIT", s0)
        BY <2>1, <2>10, <3>1, <3>5 DEF DecideInv
      <4>2. \A r \in Replica : pc[r] = "issue" /\ at[r] = s0 => arg[r] = "ABORT"
        BY <2>10, <3>5 DEF DecideInv
      <4> QED BY <2>4, <3>2, <4>1, <4>2
    <3> QED BY <3>4, <3>5
  <2>11. ~Undecided(s0)' /\ Disputed' = Disputed
    BY <2>2, <2>4 DEF Disputed
  <2>12. ASSUME NEW s \in TSeq, s \notin Disputed, s # s0
         PROVE  /\ ~ (Logged("COMMIT", s)' /\ Logged("ABORT", s)')
                /\ Undecided(s)' =>
                     /\ \A r \in Replica : Decides(r, s)' =>
                          IF Counted(r, s)' THEN alive_replicas' \subseteq tpc_responses'[s]
                                            ELSE pc'[r] # "getlock" /\ arg'[r] = "ABORT"
                     /\ \A r, p \in Replica : Decides(r, s)' /\ Counted(r, s)'
                                           /\ Decides(p, s)' /\ Counted(p, s)' => r = p
                /\ ~Undecided(s)' =>
                     \A r \in Replica : pc'[r] = "issue" /\ at'[r] = s =>
                          arg'[r] = "ABORT" /\ ~Logged("COMMIT", s)'
    BY <2>2, <2>4, <2>5, <2>12 DEF DecideInv
  <2> QED BY <2>8, <2>9, <2>10, <2>11, <2>12 DEF DecideInv
<1>6. ASSUME NEW r \in Replica, ReceiveForwarded(r) \/ RefuseForwarded(r) \/ ReceiveVote(r)
      PROVE  DecideInv'
  <2>1. UNCHANGED <<tpc_responses, miscounted, alive_replicas, expired, queued_transactions, tpc_log>>
    BY <1>6 DEF ReceiveForwarded, RefuseForwarded, ReceiveVote, pvars, nvars
  <2>2. \A p \in Replica : \/ at'[p] = at[p] /\ pc'[p] = pc[p] /\ arg'[p] = arg[p]
                           \/ pc'[p] \notin {"getlock", "check", "issue"}
    BY <1>6, <1>a DEF ReceiveForwarded, RefuseForwarded, ReceiveVote, Numbered, Goto, tvars
  <2> QED BY <2>1, <2>2, <1>b, <1>c
<1>7. ASSUME NEW r \in Replica, LookUpVoted(r) \/ PrimaryVotes(r) PROVE DecideInv'
  <2>1. UNCHANGED <<tpc_responses, miscounted, alive_replicas, expired, queued_transactions, tpc_log>>
    BY <1>7 DEF LookUpVoted, PrimaryVotes, pvars, nvars
  <2>2. \A p \in Replica : \A s \in TSeq : Decides(p, s)' =>
           \/ Handles(p, s) /\ pc'[p] = "check" /\ arg'[p] = "ABORT"
           \/ /\ Decides(p, s) /\ (pc'[p] = "getlock" => pc[p] = "getlock")
              /\ \/ arg'[p] = arg[p] /\ pc'[p] = pc[p]
                 \/ pc[p] = "getlock" /\ pc'[p] = "check"
    BY <1>7, <1>a DEF LookUpVoted, PrimaryVotes, Decides, Handles, Goto, Return
  <2> QED BY <2>1, <2>2, <1>c, DecideFrame DEF Undecided
<1>8. ASSUME NEW r \in Replica, CountYes(r) PROVE DecideInv'
  <2>1. PICK s0 \in TSeq : s0 = at[r] /\ Handles(r, s0)
    BY <1>8, <1>a DEF CountYes, Handles, Working, PC
  <2>2. PICK responses : /\ responses = tpc_responses[s0] \cup {r}
                         /\ tpc_responses' = [tpc_responses EXCEPT ![s0] = responses]
    BY <1>8, <2>1 DEF CountYes
  <2>3. /\ UNCHANGED <<alive_replicas, expired, queued_transactions, tpc_log>>
        /\ miscounted' = miscounted \cup {x \in {s0} : DroppedVoteCounted(responses, s0)}
        /\ \A p \in Replica : p # r => pc'[p] = pc[p] /\ at'[p] = at[p] /\ arg'[p] = arg[p]
        /\ \/ pc'[r] = "getlock" /\ at'[r] = s0 /\ EnoughVotes(responses, s0)
           \/ pc'[r] = "idle"
    BY <1>8, <1>a, <2>1, <2>2 DEF CountYes, Goto, Return, nvars
  <2>4. \A s \in TSeq : /\ Sent(s)' <=> Sent(s)
                        /\ Undecided(s)' <=> Undecided(s)
    BY <2>3 DEF Sent, Undecided
  <2>5. \A s \in TSeq : \A d : Logged(d, s)' <=> Logged(d, s)
    BY <2>3 DEF Logged
  <2>6. \A p \in Replica : \A s \in TSeq :
           /\ Counted(p, s)' <=> Counted(p, s) \/ (p = r /\ s = s0)
           /\ tpc_responses[s] \subseteq tpc_responses'[s]
           /\ Decides(p, s)' => (p # r /\ Decides(p, s)) \/ (p = r /\ s = s0 /\ pc'[r] = "getlock")
    BY <1>a, <2>1, <2>2, <2>3 DEF Counted, Decides
  <2>7. /\ ~Counted(r, s0) /\ r \in alive_replicas
        /\ \A p \in Replica : \A s \in TSeq : Decides(p, s) => p \in alive_replicas
    BY <2>1 DEF TokenInv, PlaceInv, Handles, Decides
  <2>8. pc'[r] = "getlock" /\ s0 \notin miscounted' => alive_replicas \subseteq tpc_responses'[s0]
    <3>1. ASSUME pc'[r] = "getlock", s0 \notin miscounted'
          PROVE  EnoughVotes(responses, s0) /\ ~DroppedVoteCounted(responses, s0)
      BY <2>3, <3>1
    <3>2. ASSUME pc'[r] = "getlock", s0 \notin miscounted'
          PROVE  alive_replicas \subseteq responses
      BY <2>1, <2>2, <3>1, <3>2, FullCount
    <3> QED BY <1>a, <2>2, <3>2
  <2>9. \A s \in TSeq : s \notin Disputed' => s \notin Disputed /\ s \notin miscounted'
    BY <2>3 DEF Disputed
  <2>10. ASSUME NEW s \in TSeq, s \notin Disputed', Undecided(s)
         PROVE  /\ \A p \in Replica : Decides(p, s)' =>
                      IF Counted(p, s)' THEN alive_replicas' \subseteq tpc_responses'[s]
                                        ELSE pc'[p] # "getlock" /\ arg'[p] = "ABORT"
                /\ \A u, p \in Replica : Decides(u, s)' /\ Counted(u, s)'
                                       /\ Decides(p, s)' /\ Counted(p, s)' => u = p
    <3>1. \A p \in Replica : p # r /\ Decides(p, s) =>
             IF Counted(p, s) THEN alive_replicas \subseteq tpc_responses[s]
                              ELSE pc[p] # "getlock" /\ arg[p] = "ABORT"
      BY <2>9, <2>10 DEF DecideInv
    <3>2. \A u, p \in Replica :
             Decides(u, s) /\ Counted(u, s) /\ Decides(p, s) /\ Counted(p, s) => u = p
      BY <2>9, <2>10 DEF DecideInv
    (* Nobody who has counted everyone's YES decided s0 before.              *)
    <3>3. \A p \in Replica : ~(p # r /\ Decides(p, s0) /\ Counted(p, s0) /\ s = s0)
      BY <2>7, <3>1 DEF Counted
    <3> QED BY <2>3, <2>6, <2>7, <2>8, <2>9, <2>10, <3>1, <3>2, <3>3
  <2>11. \A s \in TSeq : \A p \in Replica :
            pc'[p] = "issue" /\ at'[p] = s => p # r /\ pc[p] = "issue" /\ at[p] = s /\ arg'[p] = arg[p]
    BY <2>3
  <2> QED BY <2>3, <2>4, <2>5, <2>9, <2>10, <2>11 DEF DecideInv
<1>9. ASSUME NEW r \in Replica, ReplicaStep(r) PROVE DecideInv'
  <2>1. /\ UNCHANGED <<tpc_responses, miscounted, alive_replicas, expired, pc, at, arg>>
        /\ queued_transactions'[Primary] = queued_transactions[Primary]
        /\ tpc_log'[Primary] = tpc_log[Primary]
    BY <1>9, <1>a DEF ReplicaStep, ReplicaVotes, ReplicaDecides, ReplicaApplies, ReplicaReturns,
       ApplyNext, QuitUndecided, LeaveQueue, pvars, nvars, tvars
  <2> QED BY <2>1, <1>b, <1>c
<1>10. ASSUME NEW r \in Replica, Crash(r) \/ ClosingStep(r) PROVE DecideInv'
  <2>1. /\ UNCHANGED <<tpc_responses, miscounted, expired, queued_transactions, tpc_log>>
        /\ alive_replicas' \subseteq alive_replicas
        /\ \A p \in Replica : \/ at'[p] = at[p] /\ pc'[p] = pc[p] /\ arg'[p] = arg[p]
                              \/ pc'[p] \notin {"getlock", "check", "issue"}
    BY <1>10, <1>a DEF Crash, ClosingStep, DropConnection, DropAlive, Goto, pvars, nvars
  <2> QED BY <2>1, <1>b, <1>c
<1>11. CASE (\E s \in TSeq : FindExpired(s)) \/ LookUpExpired
  <2>1. /\ UNCHANGED <<tpc_responses, miscounted, alive_replicas, queued_transactions, tpc_log>>
        /\ expired \subseteq expired'
        /\ \A r \in Replica : at'[r] = at[r] /\ pc'[r] = pc[r] /\ arg'[r] = arg[r]
    BY <1>11, <1>a DEF FindExpired, LookUpExpired, Goto, Return, pvars, nvars
  <2> QED BY <2>1, <1>b, <1>c
<1>12. CASE UNCHANGED vars
    BY <1>12, <1>b, <1>c DEF vars, pvars, nvars, tvars
<1> QED BY <1>1, <1>2, <1>3, <1>4, <1>5, <1>6, <1>7, <1>8, <1>9, <1>10, <1>11, <1>12
        DEF Next, DecisionStep, VoteStep

VoteInv == IInv /\ PlaceInv /\ StartInv /\ TokenInv /\ DecideInv

LEMMA VotesAreKept == Spec => []VoteInv
<1>1. Init => VoteInv
    BY InitIInv, InitPlaceInv, InitStartInv, InitTokenInv, InitDecideInv DEF VoteInv
<1>2. VoteInv /\ [Next]_vars => VoteInv'
    BY NextIInv, NextPlaceInv, NextStartInv, NextTokenInv, NextDecideInv DEF VoteInv
<1> QED BY <1>1, <1>2, PTL DEF Spec

(* A transaction that no timeout and no miscounted vote touched is never   *)
(* both committed and aborted by the primary, whatever the order in which  *)
(* the threads that serve its replicas run.                                *)
THEOREM DecisionIsUnique == Spec => []OneDecision
<1>1. VoteInv => OneDecision
    BY ZenonT(60) DEF VoteInv, DecideInv, OneDecision, Logged, Decision
<1> QED BY <1>1, VotesAreKept, PTL

-----------------------------------------------------------------------------
(* What reaches the tables.                                                *)

NextEntry(n) == [seq |-> next_seq[n], req |-> req_of[next_seq[n]],
                 dec |-> tpc_queue[n][next_seq[n]]]
OwnEntry(t)  == [seq |-> at[t], req |-> req_of[at[t]], dec |-> "COMMIT"]

(* process_tpc_queue appends the decided transaction it has come to.       *)
LEMMA ApplyAppends ==
    ASSUME IInv, NEW n \in Node, NEW t, ApplyNext(n, t)
    PROVE  /\ NextEntry(n) \in Entry /\ next_seq[n] \in TSeq /\ next_seq[n] <= tpc_seq
           /\ tpc_queue[n][next_seq[n]] \in Decision
           /\ hist'[n] = Append(hist[n], NextEntry(n))
           /\ Applied(n)' = Applied(n) \cup {NextEntry(n)}
           /\ \A m \in Node : m # n => hist'[m] = hist[m] /\ Applied(m)' = Applied(m)
<1>1. /\ next_seq[n] \in TSeq /\ tpc_queue[n][next_seq[n]] \in Decision
      /\ hist' = [hist EXCEPT ![n] = Append(hist[n], NextEntry(n))]
    BY DEF ApplyNext, InQueue, NextEntry
<1>2. next_seq[n] <= tpc_seq /\ req_of[next_seq[n]] \in Req
    BY <1>1 DEF IInv, TypeOK, PrimaryTypeOK, NumberInv, Decision, TSeq
<1>3. NextEntry(n) \in Entry
    BY <1>1, <1>2 DEF NextEntry, Entry
<1>4. hist \in [Node -> Seq(Entry)]
    BY DEF IInv, TypeOK, NodeTypeOK
<1>5. Elems(Append(hist[n], NextEntry(n))) = Elems(hist[n]) \cup {NextEntry(n)}
    BY <1>3, <1>4, AppendElems
<1> QED BY <1>1, <1>2, <1>3, <1>4, <1>5 DEF Applied

(* A primary without replicas executes the command it was sent, or refuses *)
(* it.                                                                     *)
LEMMA AloneAppends ==
    ASSUME IInv, NEW t \in Thread, ExecuteAlone(t)
    PROVE  /\ OwnEntry(t) \in Entry /\ at[t] \in TSeq /\ at[t] <= tpc_seq
           /\ \/ Applied(Primary)' = Applied(Primary) \cup {OwnEntry(t)}
              \/ Applied(Primary)' = Applied(Primary)
           /\ \A m \in Replica : hist'[m] = hist[m] /\ Applied(m)' = Applied(m)
<1>1. at[t] \in TSeq /\ at[t] \in 1..tpc_seq /\ at[t] <= tpc_seq
  <2>1. pc[t] \in Working
    BY DEF ExecuteAlone, Working, PC
  <2>2. at[t] \in TSeq
    BY <2>1, VoteTypes
  <2>3. at[t] \in 1..tpc_seq
    BY <2>1 DEF IInv, ThreadInv
  <2> QED BY <2>2, <2>3
<1>2. OwnEntry(t) \in Entry
    BY <1>1 DEF OwnEntry, Entry, Decision, IInv, NumberInv
<1>3. \/ hist' = [hist EXCEPT ![Primary] = Append(hist[Primary], OwnEntry(t))]
      \/ hist' = hist
    BY DEF ExecuteAlone, OwnEntry
<1>4. hist \in [Node -> Seq(Entry)] /\ Primary \in Node /\ Replica \subseteq Node
      /\ Primary \notin Replica
    BY ConstantsAssumption DEF IInv, TypeOK, NodeTypeOK, Node
<1>5. Elems(Append(hist[Primary], OwnEntry(t))) = Elems(hist[Primary]) \cup {OwnEntry(t)}
    BY <1>2, <1>4, AppendElems
<1> QED BY <1>1, <1>2, <1>3, <1>4, <1>5 DEF Applied

(* Logs and histories only grow, and a replica that crashed stays down.    *)
LEMMA LogsGrow ==
    ASSUME IInv, [Next]_vars
    PROVE  /\ \A n \in Node : tpc_log[n] \subseteq tpc_log'[n]
           /\ \A r \in Replica : up'[r] => up[r]
           /\ expired \subseteq expired' /\ miscounted \subseteq miscounted'
<1>a. /\ tpc_log \in [Node -> SUBSET Record] /\ up \in [Replica -> BOOLEAN]
    BY DEF IInv, TypeOK, NodeTypeOK, ThreadTypeOK
<1>1. ASSUME NEW q \in Req, FrontendStep(q) \/ RegisterForwarded(q)
      PROVE  UNCHANGED <<tpc_log, up, expired, miscounted>>
    BY <1>1 DEF FrontendStep, ReceiveFromFrontend, ForwardToPrimary, RefuseAbsent,
       RegisterForwarded, pvars
<1>2. ASSUME NEW t \in Thread, CommandStep(t) \/ DecisionStep(t)
      PROVE  /\ UNCHANGED <<up, expired, miscounted>>
             /\ \A n \in Node : tpc_log[n] \subseteq tpc_log'[n]
    BY <1>2, <1>a DEF CommandStep, StartReplication, ExecuteAlone, EnqueuePrepare, SendPrepare,
       DecisionStep, CheckUndecided, LogDecision, SendDecision, SetStatus, PrimaryEntersQueue,
       PrimaryApplies, PrimaryReturns, ApplyNext, QuitUndecided, LeaveQueue, pvars, nvars, tvars
<1>3. ASSUME NEW r \in Replica,
             ReceiveForwarded(r) \/ RefuseForwarded(r) \/ VoteStep(r) \/ Crash(r) \/ ClosingStep(r)
      PROVE  /\ UNCHANGED <<tpc_log, expired>> /\ miscounted \subseteq miscounted'
             /\ \A p \in Replica : up'[p] => up[p]
    BY <1>3, <1>a DEF ReceiveForwarded, RefuseForwarded, VoteStep, ReceiveVote, LookUpVoted,
       CountYes, PrimaryVotes, Crash, ClosingStep, DropConnection, DropAlive, pvars, nvars, tvars
<1>4. ASSUME NEW r \in Replica, ReplicaStep(r)
      PROVE  /\ UNCHANGED <<up, expired, miscounted>>
             /\ \A n \in Node : tpc_log[n] \subseteq tpc_log'[n]
    BY <1>4, <1>a DEF ReplicaStep, ReplicaVotes, ReplicaDecides, ReplicaApplies, ReplicaReturns,
       ApplyNext, QuitUndecided, LeaveQueue, pvars, nvars, tvars
<1>5. CASE (\E s \in TSeq : FindExpired(s)) \/ LookUpExpired \/ UNCHANGED vars
    BY <1>5 DEF FindExpired, LookUpExpired, vars, pvars, nvars, tvars
<1> QED BY <1>1, <1>2, <1>3, <1>4, <1>5 DEF Next

-----------------------------------------------------------------------------
(* What is committed is prepared everywhere.                               *)

Everywhere(s) == \A r \in Replica : up[r] => Prepared(r, s)

(* A thread that has gone on to commit s.                                  *)
Commits(t, s) ==
    at[t] = s /\ (pc[t] = "getlock" \/ (pc[t] \in Deciding /\ arg[t] = "COMMIT"))

(* From the count of the votes to the table of the primary, s is prepared  *)
(* by everyone who has not crashed.                                        *)
AckInv ==
    \A s \in TSeq \ miscounted :
        /\ \A t \in Thread : Commits(t, s) => Everywhere(s)
        /\ Logged("COMMIT", s) => Everywhere(s)
        /\ \A e \in Applied(Primary) : e.seq = s /\ e.dec = "COMMIT" => Everywhere(s)

LEMMA InitAckInv == Init => AckInv
<1> SUFFICES ASSUME Init PROVE AckInv
    OBVIOUS
<1>1. /\ \A s \in TSeq : ~Logged("COMMIT", s)
      /\ \A t \in Thread : pc[t] = "idle"
      /\ Applied(Primary) = {}
    BY DEF Init, Logged, Node, Applied, Elems
<1> QED BY <1>1 DEF AckInv, Commits, Deciding

(* It is enough to look at what begins to commit, is logged or applied.    *)
LEMMA AckFrame ==
    ASSUME IInv, AckInv, [Next]_vars,
           \A s \in TSeq \ miscounted' :
              /\ \A t \in Thread : Commits(t, s)' => Commits(t, s) \/ Everywhere(s)
              /\ Logged("COMMIT", s)' =>
                   \/ Logged("COMMIT", s) \/ Everywhere(s)
                   \/ \E t \in Thread : Commits(t, s)
              /\ \A e \in Applied(Primary)' : e.seq = s /\ e.dec = "COMMIT" =>
                   e \in Applied(Primary) \/ Logged("COMMIT", s) \/ Everywhere(s)
    PROVE  AckInv'
<1>1. miscounted \subseteq miscounted'
    BY LogsGrow
<1>2. \A s \in TSeq : Everywhere(s) => Everywhere(s)'
    BY LogsGrow DEF Everywhere, Prepared, Node
<1> QED BY <1>1, <1>2 DEF AckInv

LEMMA NextAckInv ==
    IInv /\ LogInv /\ PlaceInv /\ TokenInv /\ AckInv /\ [Next]_vars => AckInv'
<1> SUFFICES ASSUME IInv, LogInv, PlaceInv, TokenInv, AckInv, [Next]_vars PROVE AckInv'
    OBVIOUS
<1>a. /\ Replica \subseteq Thread /\ Req \subseteq Thread /\ Timer \in Thread
      /\ Timer \notin Replica /\ Replica \cap Req = {}
      /\ Primary \in Node /\ Replica \subseteq Node /\ Primary \notin Replica
      /\ pc \in [Thread -> PC] /\ at \in [Thread -> 0..MaxSeq]
      /\ arg \in [Thread -> {"none", "YES", "NO"} \cup Decision]
      /\ tpc_log \in [Node -> SUBSET Record]
      /\ \A t \in Thread : pc[t] \in Working => at[t] \in TSeq
    BY VoteTypes
<1>b. ASSUME tpc_log'[Primary] = tpc_log[Primary]
      PROVE  \A s \in TSeq : Logged("COMMIT", s)' <=> Logged("COMMIT", s)
    BY <1>b DEF Logged
<1>c. ASSUME hist'[Primary] = hist[Primary]
      PROVE  Applied(Primary)' = Applied(Primary)
    BY <1>c DEF Applied
<1>1. ASSUME NEW q \in Req, FrontendStep(q) \/ RegisterForwarded(q) PROVE AckInv'
  <2>1. /\ UNCHANGED <<tpc_log, hist>>
        /\ \A t \in Thread : \A s \in TSeq : Commits(t, s)' => Commits(t, s)
    BY <1>1, <1>a DEF FrontendStep, ReceiveFromFrontend, Numbered, ForwardToPrimary, RefuseAbsent,
       RegisterForwarded, Goto, Commits, Deciding
  <2> QED BY <2>1, <1>b, <1>c, AckFrame
<1>2. ASSUME NEW t \in Thread, StartReplication(t) \/ EnqueuePrepare(t) \/ SendPrepare(t)
      PROVE  AckInv'
  <2>1. /\ UNCHANGED hist
        /\ \A u \in Thread : \A s \in TSeq : Commits(u, s)' => Commits(u, s)
    BY <1>2, <1>a DEF StartReplication, EnqueuePrepare, SendPrepare, Goto, Return, nvars,
       Commits, Deciding
  <2>2. \A s \in TSeq : Logged("COMMIT", s)' <=> Logged("COMMIT", s)
    <3> DEFINE m == PrepareOf(at[t])
    <3>1. \/ tpc_log'[Primary] = tpc_log[Primary]
          \/ tpc_log'[Primary] = tpc_log[Primary] \cup {m}
      BY <1>2, <1>a DEF StartReplication, EnqueuePrepare, SendPrepare, PrepareOf, nvars
    <3>2. \A s : [type |-> "COMMIT", seq |-> s] # m
      BY DEF PrepareOf
    <3> HIDE DEF m
    <3> QED BY <3>1, <3>2 DEF Logged
  <2> QED BY <2>1, <2>2, <1>c, AckFrame
<1>3. ASSUME NEW t \in Thread, ExecuteAlone(t) PROVE AckInv'
  <2>1. /\ UNCHANGED tpc_log
        /\ \A u \in Thread : \A s \in TSeq : Commits(u, s)' => Commits(u, s)
    BY <1>3, <1>a DEF ExecuteAlone, Goto, Return, Commits, Deciding
  <2>2. \A s : Everywhere(s)
    BY <1>3 DEF ExecuteAlone, NoReplica, PlaceInv, Everywhere
  <2> QED BY <2>1, <2>2, <1>b, AckFrame
<1>4. ASSUME NEW t \in Thread, LogDecision(t) PROVE AckInv'
  <2>1. PICK s0 \in TSeq : s0 = at[t] /\ pc[t] = "issue"
    BY <1>4, <1>a DEF LogDecision, Working, PC
  <2> DEFINE m == [type |-> arg[t], seq |-> s0]
  <2>2. /\ UNCHANGED hist /\ tpc_log'[Primary] = tpc_log[Primary] \cup {m}
        /\ \A u \in Thread : \A s \in TSeq : Commits(u, s)' => Commits(u, s)
    BY <1>4, <1>a, <2>1 DEF LogDecision, Goto, Commits, Deciding
  <2>3. \A s : [type |-> "COMMIT", seq |-> s] = m => arg[t] = "COMMIT" /\ s = s0
    OBVIOUS
  <2>4. arg[t] = "COMMIT" => Commits(t, s0)
    BY <2>1 DEF Commits, Deciding
  <2> HIDE DEF m
  <2>5. \A s \in TSeq : Logged("COMMIT", s)' => Logged("COMMIT", s) \/ Commits(t, s)
    BY <2>2, <2>3, <2>4 DEF Logged
  <2> QED BY <2>2, <2>5, <1>c, AckFrame
<1>5. ASSUME NEW t \in Thread, CheckUndecided(t) \/ SendDecision(t) \/ SetStatus(t)
             \/ PrimaryEntersQueue(t) \/ PrimaryReturns(t)
      PROVE  AckInv'
  <2>1. /\ UNCHANGED <<tpc_log, hist>>
        /\ \A u \in Thread : \A s \in TSeq : Commits(u, s)' => Commits(u, s)
    BY <1>5, <1>a DEF CheckUndecided, SendDecision, SetStatus, PrimaryEntersQueue, PrimaryReturns,
       QuitUndecided, LeaveQueue, Goto, Return, nvars, Commits, Deciding
  <2> QED BY <2>1, <1>b, <1>c, AckFrame
<1>6. ASSUME NEW t \in Thread, PrimaryApplies(t) PROVE AckInv'
  <2>1. /\ UNCHANGED <<tpc_log, pc, at, arg>> /\ ApplyNext(Primary, t)
    BY <1>6 DEF PrimaryApplies, ApplyNext, tvars
  <2>2. /\ Applied(Primary)' = Applied(Primary) \cup {NextEntry(Primary)}
        /\ Logged(NextEntry(Primary).dec, NextEntry(Primary).seq)
    BY <1>a, <2>1, ApplyAppends DEF LogInv, NextEntry
  <2>3. \A u \in Thread : \A s \in TSeq : Commits(u, s)' <=> Commits(u, s)
    BY <2>1 DEF Commits
  <2> QED BY <2>1, <2>2, <2>3, <1>b, AckFrame
<1>7. ASSUME NEW r \in Replica, ReceiveForwarded(r) \/ RefuseForwarded(r) \/ ReceiveVote(r)
             \/ LookUpVoted(r) \/ PrimaryVotes(r)
      PROVE  AckInv'
  <2>1. /\ UNCHANGED <<tpc_log, hist>>
        /\ \A u \in Thread : \A s \in TSeq : Commits(u, s)' => Commits(u, s)
    BY <1>7, <1>a, SMTT(20) DEF ReceiveForwarded, RefuseForwarded, ReceiveVote, LookUpVoted, PrimaryVotes,
       Numbered, Goto, Return, nvars, tvars, Commits, Deciding
  <2> QED BY <2>1, <1>b, <1>c, AckFrame
<1>8. ASSUME NEW r \in Replica, CountYes(r) PROVE AckInv'
  <2>1. PICK s0 \in TSeq : s0 = at[r] /\ Handles(r, s0)
    BY <1>8, <1>a DEF CountYes, Handles, Working, PC
  <2>2. PICK responses : responses = tpc_responses[s0] \cup {r}
    OBVIOUS
  <2>3. /\ UNCHANGED <<tpc_log, hist>>
        /\ miscounted' = miscounted \cup {x \in {s0} : DroppedVoteCounted(responses, s0)}
        /\ \A u \in Thread : \A s \in TSeq : Commits(u, s)' =>
              Commits(u, s) \/ (s = s0 /\ EnoughVotes(responses, s0))
    BY <1>8, <1>a, <2>1, <2>2 DEF CountYes, Goto, Return, nvars, Commits, Deciding
  <2>4. EnoughVotes(responses, s0) /\ s0 \notin miscounted' => Everywhere(s0)
    <3>1. \A p \in Replica : p \in responses => Prepared(p, s0)
      BY <2>1, <2>2 DEF TokenInv, Counted
    <3>2. \A p \in Replica : up[p] => p \in alive_replicas
      BY DEF PlaceInv
    <3>3. EnoughVotes(responses, s0) /\ ~DroppedVoteCounted(responses, s0)
             => alive_replicas \subseteq responses
      BY <2>1, <2>2, FullCount
    <3> QED BY <2>3, <3>1, <3>2, <3>3 DEF Everywhere
  <2> QED BY <2>3, <2>4, <1>b, <1>c, AckFrame
<1>9. ASSUME NEW r \in Replica, ReplicaStep(r) PROVE AckInv'
  <2>1. /\ UNCHANGED <<pc, at, arg>>
        /\ tpc_log'[Primary] = tpc_log[Primary] /\ hist'[Primary] = hist[Primary]
    BY <1>9, <1>a DEF ReplicaStep, ReplicaVotes, ReplicaDecides, ReplicaApplies, ReplicaReturns,
       ApplyNext, QuitUndecided, LeaveQueue, pvars, nvars, tvars, IInv, TypeOK, NodeTypeOK
  <2>2. \A u \in Thread : \A s \in TSeq : Commits(u, s)' <=> Commits(u, s)
    BY <2>1 DEF Commits
  <2> QED BY <2>1, <2>2, <1>b, <1>c, AckFrame
<1>10. CASE \/ \E r \in Replica : Crash(r) \/ ClosingStep(r)
            \/ \E s \in TSeq : FindExpired(s)
            \/ LookUpExpired \/ UNCHANGED vars
  <2>1. /\ UNCHANGED <<tpc_log, hist>>
        /\ \A u \in Thread : \A s \in TSeq : Commits(u, s)' => Commits(u, s)
    BY <1>10, <1>a, ZenonT(60) DEF Crash, ClosingStep, DropConnection, DropAlive, FindExpired, LookUpExpired,
       Goto, Return, vars, nvars, tvars, Commits, Deciding
  <2> QED BY <2>1, <1>b, <1>c, AckFrame
<1> QED BY <1>1, <1>2, <1>3, <1>4, <1>5, <1>6, <1>7, <1>8, <1>9, <1>10
        DEF Next, CommandStep, DecisionStep, VoteStep

LEMMA CommitsArePrepared == Spec => [](VoteInv /\ LogInv /\ AckInv)
<1>1. Init => LogInv /\ AckInv
    BY InitLogInv, InitAckInv
<1>2. LogInv /\ AckInv /\ VoteInv /\ [Next]_vars => LogInv' /\ AckInv'
    BY NextLogInv, NextAckInv DEF VoteInv
<1> QED BY <1>1, <1>2, VotesAreKept, PTL DEF Spec

(* A write that the primary executed is in the log of every replica that   *)
(* has not crashed, whatever crashed in between, unless the vote of a dead *)
(* replica was counted for it.                                             *)
THEOREM CommitIsPrepared == Spec => []AckedIsPrepared
<1>1. VoteInv /\ AckInv => AckedIsPrepared
  <2> SUFFICES ASSUME VoteInv, AckInv, NEW e \in Applied(Primary), e.dec = "COMMIT",
                      e.seq \notin miscounted
               PROVE  \A r \in Replica : up[r] =>
                         [type |-> "PREPARE", seq |-> e.seq] \in tpc_log[r]
    BY DEF AckedIsPrepared
  <2>1. e.seq \in TSeq
    <3>1. hist[Primary] \in Seq(Entry)
      BY DEF VoteInv, IInv, TypeOK, NodeTypeOK, Node
    <3>2. e \in Entry
      BY <3>1, ElemsType DEF Applied
    <3> QED BY <3>2 DEF Entry
  <2> QED BY <2>1 DEF AckInv, Everywhere, Prepared, PrepareOf
<1> QED BY <1>1, CommitsArePrepared, PTL

-----------------------------------------------------------------------------
(* One history.                                                            *)

Looping(n) == IF n = Primary THEN \E t \in Thread : pc[t] = "loop" ELSE rpc[n] = "loop"

(* One thread at a time processes the queue of the primary; on every node, *)
(* the primary until it is alone, what was applied is numbered from 1 to   *)
(* last_seq, and the loop is one ahead.                                    *)
OrderInv ==
    /\ \A t, u \in Thread : pc[t] = "loop" /\ pc[u] = "loop" => t = u
    /\ \A t \in Thread : pc[t] = "loop" => tpc_queue_lock[Primary]
    /\ \A n \in Node : (n = Primary => ~NoReplica) =>
          /\ Len(hist[n]) = last_seq[n]
          /\ \A i \in DOMAIN hist[n] : hist[n][i].seq = i
          /\ Looping(n) => next_seq[n] = last_seq[n] + 1

LEMMA InitOrderInv == Init => OrderInv
<1> SUFFICES ASSUME Init PROVE OrderInv
    OBVIOUS
<1>1. /\ \A t \in Thread : pc[t] = "idle"
      /\ \A n \in Node : hist[n] = <<>> /\ last_seq[n] = 0 /\ ~Looping(n)
    BY DEF Init, Looping, Node
<1> QED BY <1>1 DEF OrderInv

(* The steps that process a queue or write to a table; the others leave    *)
(* all of that alone.                                                      *)
QueueStep ==
    \/ \E t \in Thread : \/ ExecuteAlone(t) \/ PrimaryEntersQueue(t)
                         \/ PrimaryApplies(t) \/ PrimaryReturns(t)
    \/ \E r \in Replica : ReplicaDecides(r) \/ ReplicaApplies(r) \/ ReplicaReturns(r)

LEMMA OtherSteps ==
    ASSUME IInv, [Next]_vars
    PROVE  /\ partition_fds' \subseteq partition_fds
           /\ \/ QueueStep
              \/ /\ UNCHANGED <<hist, last_seq, next_seq, tpc_queue_lock, rpc>>
                 /\ \A t \in Thread : pc'[t] = "loop" <=> pc[t] = "loop"
<1>a. /\ pc \in [Thread -> PC] /\ Replica \subseteq Thread /\ Req \subseteq Thread
      /\ Timer \in Thread
    BY VoteTypes
<1> DEFINE Quiet == /\ UNCHANGED <<hist, last_seq, next_seq, tpc_queue_lock, rpc>>
                    /\ \A t \in Thread : pc'[t] = "loop" <=> pc[t] = "loop"
<1>1. ASSUME NEW q \in Req, FrontendStep(q) \/ RegisterForwarded(q)
      PROVE  UNCHANGED partition_fds /\ Quiet
    BY <1>1, <1>a DEF FrontendStep, ReceiveFromFrontend, Numbered, ForwardToPrimary, RefuseAbsent,
       RegisterForwarded, Goto, pvars
<1>2. ASSUME NEW t \in Thread, StartReplication(t) \/ EnqueuePrepare(t) \/ SendPrepare(t)
             \/ CheckUndecided(t) \/ LogDecision(t) \/ SendDecision(t) \/ SetStatus(t)
      PROVE  UNCHANGED partition_fds /\ Quiet
    BY <1>2, <1>a DEF StartReplication, EnqueuePrepare, SendPrepare, CheckUndecided, LogDecision,
       SendDecision, SetStatus, Goto, Return, pvars, nvars
<1>3. ASSUME NEW r \in Replica, ReceiveForwarded(r) \/ RefuseForwarded(r) \/ VoteStep(r)
      PROVE  UNCHANGED partition_fds /\ Quiet
    BY <1>3, <1>a DEF ReceiveForwarded, RefuseForwarded, Numbered, VoteStep, ReceiveVote,
       LookUpVoted, CountYes, PrimaryVotes, Goto, Return, pvars, nvars, tvars
<1>4. ASSUME NEW r \in Replica, ReplicaVotes(r) \/ Crash(r) \/ ClosingStep(r)
      PROVE  partition_fds' \subseteq partition_fds /\ Quiet
    BY <1>4, <1>a DEF ReplicaVotes, Crash, ClosingStep, DropConnection, DropAlive, Goto, pvars,
       nvars, tvars
<1>5. ASSUME NEW s \in TSeq, FindExpired(s) PROVE UNCHANGED partition_fds /\ Quiet
    BY <1>5, <1>a DEF FindExpired, Goto, nvars
<1>6. ASSUME LookUpExpired PROVE UNCHANGED partition_fds /\ Quiet
    BY <1>6, <1>a DEF LookUpExpired, Goto, Return, pvars, nvars
<1>7. ASSUME UNCHANGED vars PROVE UNCHANGED partition_fds /\ Quiet
    BY <1>7 DEF vars, pvars, nvars, tvars
<1>8. QueueStep => UNCHANGED partition_fds
    BY DEF QueueStep, ExecuteAlone, PrimaryEntersQueue, PrimaryApplies, PrimaryReturns,
       ReplicaDecides, ReplicaApplies, ReplicaReturns, pvars
<1> HIDE DEF Quiet
<1>9. QueueStep \/ (partition_fds' \subseteq partition_fds /\ Quiet)
    BY <1>1, <1>2, <1>3, <1>4, <1>5, <1>6, <1>7
       DEF QueueStep, Next, CommandStep, DecisionStep, ReplicaStep
<1> QED BY <1>8, <1>9 DEF Quiet

LEMMA NextOrderInv == IInv /\ OrderInv /\ [Next]_vars => OrderInv'
<1> SUFFICES ASSUME IInv, OrderInv, [Next]_vars PROVE OrderInv'
    OBVIOUS
<1>a. /\ pc \in [Thread -> PC] /\ rpc \in [Replica -> {"idle", "loop"}]
      /\ hist \in [Node -> Seq(Entry)] /\ tpc_queue_lock \in [Node -> BOOLEAN]
      /\ last_seq \in [Node -> Nat] /\ next_seq \in [Node -> Nat]
      /\ Primary \in Node /\ Replica \subseteq Node /\ Primary \notin Replica
      /\ Node = Replica \cup {Primary} /\ Req \subseteq Thread
    BY VoteTypes DEF IInv, TypeOK, NodeTypeOK, ThreadTypeOK, Node
<1>b. NoReplica => NoReplica'
    BY OtherSteps DEF NoReplica
(* A node that is left alone.                                              *)
<1> DEFINE Ordered(n) == (n = Primary => ~NoReplica) =>
              /\ Len(hist[n]) = last_seq[n]
              /\ \A i \in DOMAIN hist[n] : hist[n][i].seq = i
              /\ Looping(n) => next_seq[n] = last_seq[n] + 1
<1>c. ASSUME NEW n \in Node, hist'[n] = hist[n], last_seq'[n] = last_seq[n],
             next_seq'[n] = next_seq[n], Looping(n)' => Looping(n)
      PROVE  Ordered(n)'
    BY <1>b, <1>c DEF OrderInv
(* A node that applies the next transaction.                               *)
<1>d. ASSUME NEW n \in Node, NEW t, ApplyNext(n, t), Looping(n)
      PROVE  Ordered(n)'
  <2>1. /\ hist'[n] = Append(hist[n], NextEntry(n)) /\ NextEntry(n) \in Entry
        /\ NextEntry(n).seq = next_seq[n]
    BY <1>d, ApplyAppends DEF NextEntry
  <2>2. last_seq'[n] = next_seq[n] /\ next_seq'[n] = next_seq[n] + 1
    BY <1>a, <1>d DEF ApplyNext
  <2>3. hist[n] \in Seq(Entry) /\ Len(hist[n]) \in Nat /\ DOMAIN hist[n] = 1..Len(hist[n])
    BY <1>a
  <2>4. /\ Len(hist'[n]) = Len(hist[n]) + 1 /\ DOMAIN hist'[n] = 1..(Len(hist[n]) + 1)
        /\ hist'[n][Len(hist[n]) + 1] = NextEntry(n)
        /\ \A i \in 1..Len(hist[n]) : hist'[n][i] = hist[n][i]
    BY <2>1, <2>3
  <2>5. \A i \in 1..(Len(hist[n]) + 1) : i \in 1..Len(hist[n]) \/ i = Len(hist[n]) + 1
    BY <2>3
  <2> QED BY <1>b, <1>d, <2>1, <2>2, <2>3, <2>4, <2>5 DEF OrderInv
<1> HIDE DEF Ordered
<1>1. CASE /\ UNCHANGED <<hist, last_seq, next_seq, tpc_queue_lock, rpc>>
           /\ \A t \in Thread : pc'[t] = "loop" <=> pc[t] = "loop"
  <2>1. \A n \in Node : Ordered(n)'
    BY <1>1, <1>c DEF Looping
  <2> QED BY <1>1, <2>1 DEF OrderInv, Ordered
<1>2. ASSUME NEW t \in Thread, ExecuteAlone(t) PROVE OrderInv'
  <2>1. /\ UNCHANGED <<next_seq, tpc_queue_lock, rpc>> /\ NoReplica
        /\ \A u \in Thread : pc'[u] = "loop" => pc[u] = "loop"
        /\ \A r \in Replica : hist'[r] = hist[r] /\ last_seq'[r] = last_seq[r]
    BY <1>2, <1>a DEF ExecuteAlone, Goto, Return
  <2>2. \A n \in Node : Ordered(n)'
    BY <1>a, <1>b, <1>c, <2>1 DEF Looping, Ordered
  <2> QED BY <2>1, <2>2 DEF OrderInv, Ordered
<1>3. ASSUME NEW t \in Thread, PrimaryEntersQueue(t) PROVE OrderInv'
  <2>1. /\ UNCHANGED <<hist, last_seq, rpc>>
        /\ ~tpc_queue_lock[Primary] /\ tpc_queue_lock'[Primary]
        /\ next_seq'[Primary] = last_seq[Primary] + 1
        /\ \A r \in Replica : next_seq'[r] = next_seq[r]
        /\ \A u \in Thread : pc'[u] = "loop" => u = t \/ pc[u] = "loop"
    BY <1>3, <1>a DEF PrimaryEntersQueue, EnterQueue, Goto
  <2>2. \A u \in Thread : pc[u] # "loop"
    BY <2>1 DEF OrderInv
  <2>3. \A r \in Replica : Ordered(r)'
    BY <1>a, <1>c, <2>1 DEF Looping
  <2>4. Ordered(Primary)'
    BY <1>b, <2>1, <1>a DEF OrderInv, Ordered
  <2> QED BY <1>a, <2>1, <2>2, <2>3, <2>4 DEF OrderInv, Ordered
<1>4. ASSUME NEW t \in Thread, PrimaryApplies(t) PROVE OrderInv'
  <2>1. /\ UNCHANGED <<pc, rpc, tpc_queue_lock>> /\ ApplyNext(Primary, t) /\ Looping(Primary)
    BY <1>4 DEF PrimaryApplies, ApplyNext, tvars, Looping
  <2>2. \A r \in Replica : hist'[r] = hist[r] /\ last_seq'[r] = last_seq[r]
                           /\ next_seq'[r] = next_seq[r]
    BY <1>a, <2>1 DEF ApplyNext
  <2>3. \A n \in Node : Ordered(n)'
    BY <1>a, <1>c, <1>d, <2>1, <2>2 DEF Looping
  <2> QED BY <2>1, <2>3 DEF OrderInv, Ordered
<1>5. ASSUME NEW t \in Thread, PrimaryReturns(t) PROVE OrderInv'
  <2>1. /\ UNCHANGED <<hist, last_seq, rpc>> /\ pc[t] = "loop"
        /\ \A r \in Replica : next_seq'[r] = next_seq[r]
        /\ \A u \in Thread : pc'[u] = "loop" => u # t /\ pc[u] = "loop"
    BY <1>5, <1>a DEF PrimaryReturns, QuitUndecided, LeaveQueue, Goto, Return
  <2>2. \A u \in Thread : pc'[u] # "loop"
    BY <2>1 DEF OrderInv
  <2>3. \A r \in Replica : Ordered(r)'
    BY <1>a, <1>c, <2>1 DEF Looping
  <2>4. Ordered(Primary)'
    BY <1>a, <1>b, <2>1, <2>2 DEF OrderInv, Ordered, Looping
  <2> QED BY <1>a, <2>2, <2>3, <2>4 DEF OrderInv, Ordered
<1>6. ASSUME NEW r \in Replica, ReplicaDecides(r) PROVE OrderInv'
  <2>1. /\ UNCHANGED <<hist, last_seq, pc>> /\ r # Primary /\ r \in Node
        /\ tpc_queue_lock'[Primary] = tpc_queue_lock[Primary]
        /\ \A n \in Node : n # r => next_seq'[n] = next_seq[n]
        /\ \A p \in Replica : p # r => rpc'[p] = rpc[p]
        /\ \/ next_seq'[r] = last_seq[r] + 1
           \/ next_seq'[r] = next_seq[r] /\ rpc'[r] = rpc[r]
    BY <1>6, <1>a DEF ReplicaDecides, EnterQueue
  <2>2. \A n \in Node : n # r => Ordered(n)'
    BY <1>a, <1>c, <2>1 DEF Looping
  <2>3. Ordered(r)'
    BY <2>1 DEF OrderInv, Ordered, Looping
  <2> QED BY <1>a, <2>1, <2>2, <2>3 DEF OrderInv, Ordered
<1>7. ASSUME NEW r \in Replica, ReplicaApplies(r) PROVE OrderInv'
  <2>1. /\ UNCHANGED <<pc, rpc, tpc_queue_lock>> /\ ApplyNext(r, r) /\ r \in Node /\ Looping(r)
    BY <1>7, <1>a DEF ReplicaApplies, ApplyNext, tvars, Looping
  <2>2. \A n \in Node : n # r => /\ hist'[n] = hist[n] /\ last_seq'[n] = last_seq[n]
                                 /\ next_seq'[n] = next_seq[n]
    BY <1>a, <2>1 DEF ApplyNext
  <2>3. \A n \in Node : n # r => Ordered(n)'
    BY <1>c, <2>1, <2>2 DEF Looping
  <2>4. Ordered(r)'
    BY <1>d, <2>1
  <2> QED BY <2>1, <2>3, <2>4 DEF OrderInv, Ordered
<1>8. ASSUME NEW r \in Replica, ReplicaReturns(r) PROVE OrderInv'
  <2>1. /\ UNCHANGED <<hist, last_seq, pc>> /\ r # Primary /\ r \in Node
        /\ tpc_queue_lock'[Primary] = tpc_queue_lock[Primary]
        /\ \A n \in Node : n # r => next_seq'[n] = next_seq[n]
        /\ \A p \in Replica : rpc'[p] = "loop" => p # r /\ rpc[p] = "loop"
    BY <1>8, <1>a DEF ReplicaReturns, QuitUndecided, LeaveQueue
  <2>2. \A n \in Node : n # r => Ordered(n)'
    BY <1>a, <1>c, <2>1 DEF Looping
  <2>3. Ordered(r)'
    BY <1>a, <2>1 DEF OrderInv, Ordered, Looping
  <2> QED BY <1>a, <2>1, <2>2, <2>3 DEF OrderInv, Ordered
<1> QED BY <1>1, <1>2, <1>3, <1>4, <1>5, <1>6, <1>7, <1>8, OtherSteps DEF QueueStep

(* A number for which no PREPARE was sent, and will not be: its command    *)
(* was executed or refused by a primary on its own.                        *)
Skipped(s) == ~Sent(s) /\ \A t \in Thread : ~Starts(t, s)

(* Numbers handed out keep their command, and one that was skipped stays   *)
(* skipped.                                                                *)
LEMMA NumbersStay ==
    ASSUME IInv, [Next]_vars
    PROVE  /\ tpc_seq <= tpc_seq' /\ \A s \in 1..tpc_seq : req_of'[s] = req_of[s]
           /\ \A s \in 1..tpc_seq : Skipped(s) => Skipped(s)'
<1>a. /\ Replica \subseteq Thread /\ Req \subseteq Thread /\ Timer \in Thread
      /\ Primary \in Node /\ Replica \subseteq Node /\ Primary \notin Replica
      /\ pc \in [Thread -> PC] /\ at \in [Thread -> 0..MaxSeq]
      /\ tpc_log \in [Node -> SUBSET Record] /\ tpc_seq \in Nat
      /\ req_of \in [TSeq -> Req \cup {None}] /\ 1..tpc_seq \subseteq TSeq
  <2>1. tpc_seq \in Nat /\ req_of \in [TSeq -> Req \cup {None}]
    BY DEF IInv, TypeOK, PrimaryTypeOK
  <2>2. 1..tpc_seq \subseteq TSeq
    BY <2>1, ConstantsAssumption DEF IInv, TypeOK, PrimaryTypeOK, TSeq
  <2> QED BY <2>1, <2>2, VoteTypes
<1> DEFINE Stay == /\ tpc_seq <= tpc_seq' /\ \A s \in 1..tpc_seq : req_of'[s] = req_of[s]
                   /\ \A s \in 1..tpc_seq : Skipped(s) => Skipped(s)'
<1>1. ASSUME tpc_log'[Primary] = tpc_log[Primary], tpc_seq' = tpc_seq, req_of' = req_of,
             \A t \in Thread : pc'[t] \in Starting => pc[t] \in Starting /\ at'[t] = at[t]
      PROVE  Stay
    BY <1>1, <1>a DEF Skipped, Starts, Sent
<1>2. ASSUME NEW t \in Thread, NEW q, Numbered(t, q), tpc_log'[Primary] = tpc_log[Primary]
      PROVE  Stay
  <2>1. /\ tpc_seq' = tpc_seq + 1 /\ req_of' = [req_of EXCEPT ![tpc_seq + 1] = q]
        /\ at' = [at EXCEPT ![t] = tpc_seq + 1]
        /\ \A u \in Thread : u # t => pc'[u] = pc[u]
    BY <1>2, <1>a DEF Numbered, Goto
  <2>2. \A s \in 1..tpc_seq : s # tpc_seq + 1
    BY <1>a
  <2> QED BY <1>2, <1>a, <2>1, <2>2 DEF Skipped, Starts, Sent
<1>3. ASSUME NEW t \in Thread, NEW m, tpc_log'[Primary] = tpc_log[Primary] \cup {m},
             tpc_seq' = tpc_seq, req_of' = req_of,
             \A u \in Thread : pc'[u] \in Starting => pc[u] \in Starting /\ at'[u] = at[u],
             \A s \in 1..tpc_seq : m = PrepareOf(s) => Starts(t, s)
      PROVE  Stay
    BY <1>3, <1>a DEF Skipped, Starts, Sent
<1> HIDE DEF Stay
<1>4. ASSUME NEW q \in Req, FrontendStep(q) \/ RegisterForwarded(q) PROVE Stay
  <2>1. CASE ReceiveFromFrontend(q)
    BY <2>1, <1>2, <1>a DEF ReceiveFromFrontend
  <2>2. CASE ForwardToPrimary(q) \/ RefuseAbsent(q) \/ RegisterForwarded(q)
    BY <2>2, <1>1, <1>a DEF ForwardToPrimary, RefuseAbsent, RegisterForwarded, Goto, pvars, Starting
  <2> QED BY <1>4, <2>1, <2>2 DEF FrontendStep
<1>5. ASSUME NEW t \in Thread, StartReplication(t) \/ ExecuteAlone(t) \/ EnqueuePrepare(t)
             \/ CheckUndecided(t) \/ SendDecision(t) \/ SetStatus(t) \/ PrimaryEntersQueue(t)
             \/ PrimaryApplies(t) \/ PrimaryReturns(t)
      PROVE  Stay
    BY <1>5, <1>1, <1>a DEF StartReplication, ExecuteAlone, EnqueuePrepare, CheckUndecided,
       SendDecision, SetStatus, PrimaryEntersQueue, PrimaryApplies, PrimaryReturns, ApplyNext,
       QuitUndecided, LeaveQueue, Goto, Return, pvars, nvars, tvars, Starting
<1>6. ASSUME NEW t \in Thread, SendPrepare(t) PROVE Stay
  <2>1. /\ pc[t] = "snapshot" /\ UNCHANGED <<tpc_seq, req_of>>
        /\ tpc_log'[Primary] = tpc_log[Primary] \cup {PrepareOf(at[t])}
        /\ \A u \in Thread : pc'[u] \in Starting => pc[u] \in Starting /\ at'[u] = at[u]
    BY <1>6, <1>a DEF SendPrepare, Goto, Return, Starting, PrepareOf
  <2>2. \A s : PrepareOf(at[t]) = PrepareOf(s) => Starts(t, s)
    BY <2>1 DEF PrepareOf, Starts, Starting
  <2> QED BY <2>1, <2>2, <1>3
<1>7. ASSUME NEW t \in Thread, LogDecision(t) PROVE Stay
  <2> DEFINE m == [type |-> arg[t], seq |-> at[t]]
  <2>1. /\ UNCHANGED <<tpc_seq, req_of>>
        /\ tpc_log'[Primary] = tpc_log[Primary] \cup {m}
        /\ \A u \in Thread : pc'[u] \in Starting => pc[u] \in Starting /\ at'[u] = at[u]
    BY <1>7, <1>a DEF LogDecision, Goto, Starting
  <2>2. arg[t] \in Decision
    BY <1>7 DEF LogDecision, IInv, ThreadInv, Deciding
  <2>3. \A s : m # PrepareOf(s)
    BY <2>2 DEF PrepareOf, Decision
  <2> HIDE DEF m
  <2> QED BY <2>1, <2>3, <1>3
<1>8. ASSUME NEW r \in Replica, ReceiveForwarded(r) PROVE Stay
    BY <1>8, <1>2, <1>a DEF ReceiveForwarded
<1>9. ASSUME NEW r \in Replica, RefuseForwarded(r) \/ VoteStep(r) \/ Crash(r) \/ ClosingStep(r)
      PROVE  Stay
    BY <1>9, <1>1, <1>a DEF RefuseForwarded, VoteStep, ReceiveVote, LookUpVoted, CountYes,
       PrimaryVotes, Crash, ClosingStep, DropConnection, DropAlive, Goto, Return, pvars, nvars,
       tvars, Starting
<1>10. ASSUME NEW r \in Replica, ReplicaStep(r) PROVE Stay
    BY <1>10, <1>1, <1>a DEF ReplicaStep, ReplicaVotes, ReplicaDecides, ReplicaApplies,
       ReplicaReturns, ApplyNext, QuitUndecided, LeaveQueue, pvars, tvars
<1>11. ASSUME (\E s \in TSeq : FindExpired(s)) \/ LookUpExpired \/ UNCHANGED vars
       PROVE  Stay
    BY <1>11, <1>1, <1>a DEF FindExpired, LookUpExpired, Goto, Return, vars, pvars, nvars, tvars,
       Starting
<1>12. Stay
    BY <1>4, <1>5, <1>6, <1>7, <1>8, <1>9, <1>10, <1>11 DEF Next, CommandStep, DecisionStep
<1> QED BY <1>12 DEF Stay

(* What a node applied is the command of its number, with a decision that  *)
(* the primary logged, or it is what the primary executed on its own.      *)
EntryInv ==
    \A n \in Node : \A e \in Applied(n) :
        /\ e.seq <= tpc_seq /\ e.req = req_of[e.seq]
        /\ \/ Logged(e.dec, e.seq)
           \/ n = Primary /\ e.dec = "COMMIT" /\ Skipped(e.seq)

LEMMA InitEntryInv == Init => EntryInv
BY DEF Init, EntryInv, Applied, Elems

LEMMA AppliedType ==
    ASSUME IInv, NEW n \in Node
    PROVE  Applied(n) \subseteq Entry
BY ElemsType DEF IInv, TypeOK, NodeTypeOK, Applied

(* What the steps that write to a table add, and to which one.             *)
LEMMA TableStep ==
    ASSUME IInv, LogInv, StartInv, [Next]_vars, NEW n \in Node, NEW e \in Applied(n)',
           e \notin Applied(n)
    PROVE  /\ e \in Entry /\ e.seq <= tpc_seq /\ e.req = req_of[e.seq]
           /\ \/ Logged(e.dec, e.seq)
              \/ n = Primary /\ NoReplica /\ e.dec = "COMMIT" /\ ~Skipped(e.seq) /\ Skipped(e.seq)'
<1>a. /\ Primary \in Node /\ Replica \subseteq Node /\ Primary \notin Replica
      /\ n \in Replica \/ n = Primary
    BY ConstantsAssumption DEF Node
<1>1. ASSUME NEW t, NEW m \in Node, ApplyNext(m, t)
      PROVE  /\ e \in Entry /\ e.seq <= tpc_seq /\ e.req = req_of[e.seq]
             /\ Logged(e.dec, e.seq)
  <2>1. e = NextEntry(m) /\ e \in Entry
    BY <1>1, ApplyAppends
  <2>2. /\ next_seq[m] \in TSeq /\ next_seq[m] <= tpc_seq
        /\ tpc_queue[m][next_seq[m]] \in Decision
    BY <1>1, ApplyAppends
  <2>3. Logged(tpc_queue[m][next_seq[m]], next_seq[m])
    BY <2>2 DEF LogInv
  <2> QED BY <2>1, <2>2, <2>3 DEF NextEntry
<1>2. ASSUME NEW t \in Thread, ExecuteAlone(t)
      PROVE  /\ e \in Entry /\ e.seq <= tpc_seq /\ e.req = req_of[e.seq]
             /\ n = Primary /\ NoReplica /\ e.dec = "COMMIT" /\ ~Skipped(e.seq) /\ Skipped(e.seq)'
  <2>1. /\ n = Primary /\ e = OwnEntry(t) /\ e \in Entry /\ at[t] \in TSeq /\ at[t] <= tpc_seq
    BY <1>2, <1>a, AloneAppends
  <2>2. Starts(t, at[t]) /\ ~Sent(at[t])
    BY <1>2, <2>1 DEF ExecuteAlone, Starts, Starting, StartInv
  <2>3. /\ UNCHANGED tpc_log /\ pc'[t] \notin Starting
        /\ \A u \in Thread : u # t => pc'[u] = pc[u] /\ at'[u] = at[u]
    BY <1>2, VoteTypes DEF ExecuteAlone, Goto, Return, Starting
  <2>4. PICK s0 \in TSeq : s0 = at[t]
    BY <2>1
  <2>5. Skipped(s0)'
    BY <2>2, <2>3, <2>4 DEF Skipped, Sent, Starts, StartInv
  <2> QED BY <1>2, <2>1, <2>2, <2>4, <2>5 DEF OwnEntry, ExecuteAlone, Skipped
<1>3. hist'[n] # hist[n]
    BY DEF Applied
<1>4. ASSUME NEW t \in Thread, PrimaryEntersQueue(t) \/ PrimaryReturns(t) PROVE UNCHANGED hist
    BY <1>4 DEF PrimaryEntersQueue, PrimaryReturns, QuitUndecided, LeaveQueue
<1>5. ASSUME NEW r \in Replica, ReplicaDecides(r) \/ ReplicaReturns(r) PROVE UNCHANGED hist
    BY <1>5 DEF ReplicaDecides, ReplicaReturns, QuitUndecided, LeaveQueue
<1>6. \/ \E t \in Thread : ApplyNext(Primary, t) \/ ExecuteAlone(t)
      \/ \E r \in Replica : ApplyNext(r, r)
    BY <1>3, <1>4, <1>5, OtherSteps DEF QueueStep, PrimaryApplies, ReplicaApplies
<1> QED BY <1>1, <1>2, <1>6, <1>a

LEMMA NextEntryInv == IInv /\ LogInv /\ StartInv /\ EntryInv /\ [Next]_vars => EntryInv'
<1> SUFFICES ASSUME IInv, LogInv, StartInv, EntryInv, [Next]_vars,
                    NEW n \in Node, NEW e \in Applied(n)'
             PROVE  /\ e.seq <= tpc_seq' /\ e.req = req_of'[e.seq]
                    /\ \/ Logged(e.dec, e.seq)'
                       \/ n = Primary /\ e.dec = "COMMIT" /\ Skipped(e.seq)'
    BY DEF EntryInv
<1>1. /\ e \in Entry /\ e.seq <= tpc_seq /\ e.req = req_of[e.seq]
      /\ \/ Logged(e.dec, e.seq)
         \/ n = Primary /\ e.dec = "COMMIT" /\ (Skipped(e.seq) \/ Skipped(e.seq)')
    BY AppliedType, TableStep DEF EntryInv
<1>2. PICK s0 \in TSeq : s0 = e.seq /\ s0 \in 1..tpc_seq
    BY <1>1 DEF Entry, TSeq, IInv, TypeOK, PrimaryTypeOK
<1>3. Logged(e.dec, s0) => Logged(e.dec, s0)'
    BY LogsGrow DEF Logged, Node
<1>4. tpc_seq <= tpc_seq' /\ req_of'[s0] = req_of[s0] /\ (Skipped(s0) => Skipped(s0)')
    BY <1>2, NumbersStay
<1>5. s0 <= tpc_seq'
    BY <1>1, <1>2, <1>4, NextIInv DEF IInv, TypeOK, PrimaryTypeOK, TSeq
<1> QED BY <1>1, <1>2, <1>3, <1>4, <1>5

TableInv == LogInv /\ OrderInv /\ EntryInv

LEMMA TablesAreKept == Spec => [](VoteInv /\ TableInv)
<1>1. Init => TableInv
    BY InitLogInv, InitOrderInv, InitEntryInv DEF TableInv
<1>2. TableInv /\ VoteInv /\ [Next]_vars => TableInv'
    BY NextLogInv, NextOrderInv, NextEntryInv DEF VoteInv, TableInv
<1> QED BY <1>1, <1>2, VotesAreKept, PTL DEF Spec

LEMMA InvsGiveOneHistory == VoteInv /\ TableInv => SameHistory
<1> SUFFICES ASSUME VoteInv, TableInv PROVE SameHistory
    OBVIOUS
<1>1. ASSUME NEW m \in Node, NEW n \in Node, NEW e \in Applied(m), NEW f \in Applied(n),
             e.seq = f.seq, e.seq \notin Disputed
      PROVE  e = f
  <2>1. e \in Entry /\ f \in Entry
    BY AppliedType DEF VoteInv
  <2>2. PICK s \in TSeq : s = e.seq /\ s = f.seq
    BY <1>1, <2>1 DEF Entry
  <2>3. e.req = f.req
    BY <1>1 DEF TableInv, EntryInv
  <2>4. /\ Logged(e.dec, s) \/ (e.dec = "COMMIT" /\ ~Sent(s))
        /\ Logged(f.dec, s) \/ (f.dec = "COMMIT" /\ ~Sent(s))
    BY <2>2 DEF TableInv, EntryInv, Skipped
  <2>5. e.dec \in Decision /\ f.dec \in Decision /\ Decision = {"COMMIT", "ABORT"}
    BY <2>1 DEF Entry, Decision
  <2>6. /\ \A d \in Decision : Logged(d, s) => Sent(s)
        /\ ~ (Logged("COMMIT", s) /\ Logged("ABORT", s))
    BY <1>1, <2>2 DEF VoteInv, DecideInv, Disputed
  <2>7. e.dec = f.dec
    BY <2>4, <2>5, <2>6
  <2> QED BY <1>1, <2>1, <2>3, <2>7 DEF Entry
<1>2. ASSUME NEW n \in Node, n = Primary => ~NoReplica
      PROVE  \A i \in DOMAIN hist[n] : hist[n][i].seq = i
    BY <1>2 DEF TableInv, OrderInv
<1> QED BY <1>1, <1>2 DEF SameHistory

(* The tables of a partition are built from one history: whoever applied a *)
(* transaction applied the same command with the same outcome, and in the  *)
(* order of the numbers without a gap.                                     *)
THEOREM HistoryIsOne == Spec => []SameHistory
BY InvsGiveOneHistory, TablesAreKept, PTL

-----------------------------------------------------------------------------
(* What the frontends are told.                                            *)

CommandOf(q)  == [type |-> "CMD", seq |-> 0, req |-> q]
Pending(r, q) == CommandOf(q) \in Elems(to_primary[r])     \* forwarded, not yet read
Has(q, s)     == s <= tpc_seq /\ req_of[s] = q

(* A command waits at its own node, is forwarded once and numbered once,   *)
(* and is not numbered while it is on its way.                             *)
CommandInv ==
    /\ \A n \in Node : \A q \in msg_queue[n] : Home[q] = n
    /\ \A q \in Req : \A s, x \in TSeq : Has(q, s) /\ Has(q, x) => s = x
    /\ \A q \in Req : pc[q] = "idle" => /\ \A s \in TSeq : ~Has(q, s)
                                        /\ \A r \in Replica : ~Pending(r, q)
    /\ \A q \in Req : \A r \in Replica :
          /\ Once(to_primary[r], {CommandOf(q)})
          /\ Pending(r, q) => Home[q] = r /\ \A s \in TSeq : ~Has(q, s)

LEMMA InitCommandInv == Init => CommandInv
<1> SUFFICES ASSUME Init PROVE CommandInv
    OBVIOUS
<1>1. /\ \A n \in Node : msg_queue[n] = {}
      /\ \A r \in Replica : to_primary[r] = <<>>
      /\ tpc_seq = 0 /\ \A s \in TSeq : ~(s <= 0)
    BY DEF Init, TSeq
<1> QED BY <1>1 DEF CommandInv, Has, Pending, Once, Elems

(* The steps that send or number a command; in the others, channels to the *)
(* primary lose their head or receive a vote.                              *)
LEMMA CommandMoves ==
    ASSUME IInv, [Next]_vars
    PROVE  \/ \E q \in Req : ReceiveFromFrontend(q) \/ ForwardToPrimary(q)
           \/ \E r \in Replica : ReceiveForwarded(r)
           \/ /\ UNCHANGED <<tpc_seq, req_of>>
              /\ \A q \in Req : pc'[q] = "idle" => pc[q] = "idle"
              /\ \A q \in Req : pc[q] = "done" => pc'[q] = "done"
              /\ \A n \in Node : \A q \in msg_queue'[n] : q \in msg_queue[n] \/ Home[q] = n
              /\ \A r \in Replica :
                    \/ to_primary'[r] = to_primary[r]
                    \/ to_primary[r] # <<>> /\ to_primary'[r] = Tail(to_primary[r])
                    \/ \E v \in Vote : to_primary'[r] = Append(to_primary[r], v)
<1>a. /\ Replica \subseteq Thread /\ Req \subseteq Thread /\ Timer \in Thread
      /\ Timer \notin Req /\ Replica \cap Req = {} /\ pc \in [Thread -> PC]
      /\ Primary \in Node /\ Replica \subseteq Node /\ Home \in [Req -> Node]
      /\ to_primary \in [Replica -> Seq(Vote \cup Command)]
      /\ msg_queue \in [Node -> SUBSET Req]
    BY VoteTypes, ConstantsAssumption DEF IInv, TypeOK, NodeTypeOK, Node
<1> DEFINE Quiet == /\ UNCHANGED <<tpc_seq, req_of>>
                    /\ \A q \in Req : pc'[q] = "idle" => pc[q] = "idle"
                    /\ \A q \in Req : pc[q] = "done" => pc'[q] = "done"
                    /\ \A n \in Node : \A q \in msg_queue'[n] : q \in msg_queue[n] \/ Home[q] = n
           Reads == \A r \in Replica :
                       \/ to_primary'[r] = to_primary[r]
                       \/ to_primary[r] # <<>> /\ to_primary'[r] = Tail(to_primary[r])
                       \/ \E v \in Vote : to_primary'[r] = Append(to_primary[r], v)
<1>1. ASSUME NEW q \in Req, RefuseAbsent(q) \/ RegisterForwarded(q) PROVE Quiet /\ Reads
    BY <1>1, <1>a DEF RefuseAbsent, RegisterForwarded, Goto, pvars, cvars
<1>2. ASSUME NEW t \in Thread, CommandStep(t) PROVE Quiet /\ Reads
  <2>1. CASE ExecuteAlone(t)
    <3>1. \E q : msg_queue' = [msg_queue EXCEPT ![Primary] = @ \ {q}]
      BY <2>1 DEF ExecuteAlone, Answered
    <3>2. /\ UNCHANGED <<tpc_seq, req_of, to_primary>>
          /\ \A q \in Req : pc'[q] = "idle" => pc[q] = "idle"
          /\ \A q \in Req : pc[q] = "done" => pc'[q] = "done"
      BY <2>1, <1>a DEF ExecuteAlone, Goto, Return, pvars, cvars
    <3>3. \A n \in Node : msg_queue'[n] \subseteq msg_queue[n]
      BY <1>a, <3>1
    <3> QED BY <3>2, <3>3
  <2>2. CASE StartReplication(t) \/ EnqueuePrepare(t) \/ SendPrepare(t)
    BY <2>2, <1>a DEF StartReplication, EnqueuePrepare, SendPrepare, Goto, Return, pvars, nvars,
       cvars
  <2> QED BY <1>2, <2>1, <2>2 DEF CommandStep
<1>3. ASSUME NEW t \in Thread, DecisionStep(t) PROVE Quiet /\ Reads
    BY <1>3, <1>a DEF DecisionStep, CheckUndecided, LogDecision, SendDecision, SetStatus,
       PrimaryEntersQueue, PrimaryApplies, PrimaryReturns, ApplyNext, QuitUndecided, LeaveQueue,
       Answered, Goto, Return, pvars, nvars, cvars, tvars
<1>4. ASSUME NEW r \in Replica, RefuseForwarded(r) \/ VoteStep(r) PROVE Quiet /\ Reads
    BY <1>4, <1>a DEF RefuseForwarded, VoteStep, ReceiveVote, LookUpVoted, CountYes, PrimaryVotes,
       Goto, Return, pvars, nvars, cvars, tvars
<1>5. ASSUME NEW r \in Replica, ReplicaVotes(r) PROVE Quiet /\ Reads
  <2>1. UNCHANGED <<tpc_seq, req_of, pc, msg_queue>>
    BY <1>5 DEF ReplicaVotes, pvars, tvars
  <2>2. Head(to_replica[r]).seq \in TSeq
    <3>1. Head(to_replica[r]) \in Record
      BY <1>5, HeadTail, VoteTypes DEF ReplicaVotes, Incoming
    <3> QED BY <3>1 DEF Record
  <2>3. \A yes \in BOOLEAN : VoteOn(yes, Head(to_replica[r]).seq) \in Vote
    BY <2>2 DEF VoteOn, Vote
  <2>4. \/ to_primary' = to_primary
        \/ \E yes \in BOOLEAN : to_primary' = [to_primary EXCEPT ![r] =
                                   Append(to_primary[r], VoteOn(yes, Head(to_replica[r]).seq))]
    BY <1>5, <1>a DEF ReplicaVotes, LockGranted
  <2> QED BY <1>a, <2>1, <2>3, <2>4
<1>6. ASSUME NEW r \in Replica, ReplicaDecides(r) \/ ReplicaApplies(r) \/ ReplicaReturns(r)
             \/ Crash(r) \/ ClosingStep(r)
      PROVE  Quiet /\ Reads
    BY <1>6, <1>a DEF ReplicaDecides, ReplicaApplies, ReplicaReturns, ApplyNext, QuitUndecided,
       LeaveQueue, Answered, Crash, ClosingStep, DropConnection, DropAlive, Goto, pvars, nvars,
       cvars, tvars
<1>7. ASSUME (\E s \in TSeq : FindExpired(s)) \/ LookUpExpired \/ UNCHANGED vars
      PROVE  Quiet /\ Reads
    BY <1>7, <1>a DEF FindExpired, LookUpExpired, Goto, Return, vars, pvars, nvars, cvars, tvars
<1> HIDE DEF Quiet, Reads
<1>8. \/ \E q \in Req : ReceiveFromFrontend(q) \/ ForwardToPrimary(q)
      \/ \E r \in Replica : ReceiveForwarded(r)
      \/ Quiet /\ Reads
    BY <1>1, <1>2, <1>3, <1>4, <1>5, <1>6, <1>7 DEF Next, FrontendStep, ReplicaStep
<1> QED BY <1>8 DEF Quiet, Reads

(* What the three kinds of channel update do to the commands on their way. *)
LEMMA CommandsRead ==
    ASSUME NEW c \in Seq(Vote \cup Command), c # <<>>, NEW q, Once(c, {CommandOf(q)})
    PROVE  /\ Once(Tail(c), {CommandOf(q)})
           /\ CommandOf(q) \in Elems(Tail(c)) => CommandOf(q) \in Elems(c) /\ Head(c) # CommandOf(q)
BY OnceTail, HeadTail

LEMMA CommandsVoted ==
    ASSUME NEW c \in Seq(Vote \cup Command), NEW v \in Vote, NEW q, Once(c, {CommandOf(q)})
    PROVE  /\ Once(Append(c, v), {CommandOf(q)})
           /\ CommandOf(q) \in Elems(Append(c, v)) => CommandOf(q) \in Elems(c)
<1>1. v \notin {CommandOf(q)}
    BY DEF Vote, CommandOf
<1> QED BY <1>1, OnceAppend, AppendElems

LEMMA NextCommandInv ==
    IInv /\ CommandInv /\ [Next]_vars
      => /\ CommandInv'
         /\ \A q \in Req : pc[q] = "done" => pc'[q] = "done"
         /\ \A q \in Req : pc[q] = "done" /\ (\A r \in Replica : ~Pending(r, q)) =>
              /\ \A r \in Replica : ~Pending(r, q)'
              /\ \A s \in TSeq : Has(q, s)' => Has(q, s)
<1> SUFFICES ASSUME IInv, CommandInv, [Next]_vars
             PROVE  /\ CommandInv'
                    /\ \A q \in Req : pc[q] = "done" => pc'[q] = "done"
                    /\ \A q \in Req : pc[q] = "done" /\ (\A r \in Replica : ~Pending(r, q)) =>
                         /\ \A r \in Replica : ~Pending(r, q)'
                         /\ \A s \in TSeq : Has(q, s)' => Has(q, s)
    OBVIOUS
<1>a. /\ Replica \subseteq Thread /\ Req \subseteq Thread /\ Replica \cap Req = {}
      /\ pc \in [Thread -> PC] /\ at \in [Thread -> 0..MaxSeq]
      /\ Primary \in Node /\ Replica \subseteq Node /\ Home \in [Req -> Node]
      /\ to_primary \in [Replica -> Seq(Vote \cup Command)]
      /\ msg_queue \in [Node -> SUBSET Req] /\ req_of \in [TSeq -> Req \cup {None}]
      /\ tpc_seq \in Nat /\ \A s \in TSeq : s \in Nat
    BY VoteTypes, ConstantsAssumption DEF IInv, TypeOK, NodeTypeOK, PrimaryTypeOK, Node, TSeq
(* A number is handed out to q0.                                           *)
<1>b. ASSUME NEW t, NEW q0 \in Req, Numbered(t, q0)
      PROVE  \A q \in Req : \A s \in TSeq :
                Has(q, s)' <=> Has(q, s) \/ (q = q0 /\ s = tpc_seq + 1)
  <2>1. tpc_seq' = tpc_seq + 1 /\ req_of' = [req_of EXCEPT ![tpc_seq + 1] = q0]
    BY <1>b DEF Numbered
  <2>2. \A s \in TSeq : s <= tpc_seq + 1 <=> s <= tpc_seq \/ s = tpc_seq + 1
    BY <1>a
  <2>3. \A s \in TSeq : s = tpc_seq + 1 => ~(s <= tpc_seq)
    BY <1>a
  <2> QED BY <1>a, <2>1, <2>2, <2>3 DEF Has
<1>1. CASE /\ UNCHANGED <<tpc_seq, req_of>>
           /\ \A q \in Req : pc'[q] = "idle" => pc[q] = "idle"
           /\ \A q \in Req : pc[q] = "done" => pc'[q] = "done"
           /\ \A n \in Node : \A q \in msg_queue'[n] : q \in msg_queue[n] \/ Home[q] = n
           /\ \A r \in Replica :
                 \/ to_primary'[r] = to_primary[r]
                 \/ to_primary[r] # <<>> /\ to_primary'[r] = Tail(to_primary[r])
                 \/ \E v \in Vote : to_primary'[r] = Append(to_primary[r], v)
  <2>1. \A q \in Req : \A r \in Replica : /\ Once(to_primary'[r], {CommandOf(q)})
                                          /\ Pending(r, q)' => Pending(r, q)
    <3> SUFFICES ASSUME NEW q \in Req, NEW r \in Replica
                 PROVE  Once(to_primary'[r], {CommandOf(q)}) /\ (Pending(r, q)' => Pending(r, q))
      OBVIOUS
    <3>1. Once(to_primary[r], {CommandOf(q)}) /\ to_primary[r] \in Seq(Vote \cup Command)
      BY <1>a DEF CommandInv
    <3> QED BY <1>1, <3>1, CommandsRead, CommandsVoted DEF Pending
  <2>2. \A q \in Req : \A s \in TSeq : Has(q, s)' <=> Has(q, s)
    BY <1>1 DEF Has
  <2> QED BY <1>1, <2>1, <2>2 DEF CommandInv
<1>2. ASSUME NEW q0 \in Req, ReceiveFromFrontend(q0)
      PROVE  /\ CommandInv'
             /\ \A q \in Req : pc[q] = "done" => pc'[q] = "done"
             /\ \A q \in Req : pc[q] = "done" /\ (\A r \in Replica : ~Pending(r, q)) =>
                  /\ \A r \in Replica : ~Pending(r, q)'
                  /\ \A s \in TSeq : Has(q, s)' => Has(q, s)
  <2>1. /\ UNCHANGED to_primary /\ Numbered(q0, q0) /\ pc[q0] = "idle"
        /\ \A q \in Req : pc'[q] = IF q = q0 THEN "size" ELSE pc[q]
        /\ \A n \in Node : \A q \in msg_queue'[n] : q \in msg_queue[n] \/ Home[q] = n
    BY <1>2, <1>a DEF ReceiveFromFrontend, Numbered, Goto, cvars
  <2>2. \A q \in Req : \A r \in Replica : /\ Once(to_primary'[r], {CommandOf(q)})
                                          /\ Pending(r, q)' <=> Pending(r, q)
    BY <2>1 DEF CommandInv, Pending
  <2>3. \A q \in Req : \A s \in TSeq : Has(q, s)' <=> Has(q, s) \/ (q = q0 /\ s = tpc_seq + 1)
    BY <2>1, <1>b
  <2> QED BY <2>1, <2>2, <2>3 DEF CommandInv
<1>3. ASSUME NEW q0 \in Req, ForwardToPrimary(q0)
      PROVE  /\ CommandInv'
             /\ \A q \in Req : pc[q] = "done" => pc'[q] = "done"
             /\ \A q \in Req : pc[q] = "done" /\ (\A r \in Replica : ~Pending(r, q)) =>
                  /\ \A r \in Replica : ~Pending(r, q)'
                  /\ \A s \in TSeq : Has(q, s)' => Has(q, s)
  <2>1. /\ UNCHANGED <<tpc_seq, req_of, msg_queue>> /\ pc[q0] = "idle" /\ Home[q0] \in Replica
        /\ \A q \in Req : pc'[q] = IF q = q0 THEN "register" ELSE pc[q]
        /\ to_primary' = [to_primary EXCEPT ![Home[q0]] =
                            Append(to_primary[Home[q0]], CommandOf(q0))]
    BY <1>3, <1>a DEF ForwardToPrimary, Goto, pvars, CommandOf
  <2>2. CommandOf(q0) \in Vote \cup Command /\ \A q : CommandOf(q) = CommandOf(q0) => q = q0
    BY DEF CommandOf, Command
  <2>3. \A q \in Req : \A r \in Replica :
           /\ Once(to_primary'[r], {CommandOf(q)})
           /\ Pending(r, q)' => Pending(r, q) \/ (q = q0 /\ r = Home[q0])
    <3> SUFFICES ASSUME NEW q \in Req, NEW r \in Replica
                 PROVE  /\ Once(to_primary'[r], {CommandOf(q)})
                        /\ Pending(r, q)' => Pending(r, q) \/ (q = q0 /\ r = Home[q0])
      OBVIOUS
    <3>1. /\ Once(to_primary[r], {CommandOf(q)}) /\ to_primary[r] \in Seq(Vote \cup Command)
          /\ ~Pending(r, q0)
      BY <1>a, <2>1 DEF CommandInv
    <3>2. CASE r # Home[q0]
      BY <1>a, <2>1, <3>1, <3>2 DEF Pending
    <3>3. CASE r = Home[q0]
      <4>1. to_primary'[r] = Append(to_primary[r], CommandOf(q0))
        BY <1>a, <2>1, <3>3
      <4>2. CommandOf(q0) \in {CommandOf(q)} => Elems(to_primary[r]) \cap {CommandOf(q)} = {}
        BY <2>2, <3>1 DEF Pending
      <4>3. Once(Append(to_primary[r], CommandOf(q0)), {CommandOf(q)})
        BY <2>2, <3>1, <4>2, OnceAppend
      <4>4. Elems(Append(to_primary[r], CommandOf(q0))) = Elems(to_primary[r]) \cup {CommandOf(q0)}
        BY <2>2, <3>1, AppendElems
      <4> QED BY <2>2, <3>3, <4>1, <4>3, <4>4 DEF Pending
    <3> QED BY <3>2, <3>3
  <2>4. \A q \in Req : \A s \in TSeq : Has(q, s)' <=> Has(q, s)
    BY <2>1 DEF Has
  <2> QED BY <2>1, <2>3, <2>4 DEF CommandInv
<1>4. ASSUME NEW r0 \in Replica, ReceiveForwarded(r0)
      PROVE  /\ CommandInv'
             /\ \A q \in Req : pc[q] = "done" => pc'[q] = "done"
             /\ \A q \in Req : pc[q] = "done" /\ (\A r \in Replica : ~Pending(r, q)) =>
                  /\ \A r \in Replica : ~Pending(r, q)'
                  /\ \A s \in TSeq : Has(q, s)' => Has(q, s)
  <2>1. /\ UNCHANGED msg_queue /\ to_primary[r0] # <<>>
        /\ to_primary' = [to_primary EXCEPT ![r0] = Tail(to_primary[r0])]
        /\ \A q \in Req : pc'[q] = pc[q]
    BY <1>4, <1>a DEF ReceiveForwarded, Numbered, Goto
  <2>2. PICK q0 \in Req : Head(to_primary[r0]) = CommandOf(q0) /\ Numbered(r0, q0)
    <3>1. Head(to_primary[r0]) \in Vote \cup Command /\ Head(to_primary[r0]).type = "CMD"
      BY <1>4, <1>a, <2>1, HeadTail DEF ReceiveForwarded
    <3>2. PICK q0 \in Req : Head(to_primary[r0]) = CommandOf(q0)
      BY <3>1 DEF Vote, Command, CommandOf
    <3> QED BY <1>4, <3>2 DEF ReceiveForwarded, CommandOf
  <2>3. Pending(r0, q0)
    BY <1>a, <2>1, <2>2, HeadTail DEF Pending
  <2>4. \A q \in Req : \A r \in Replica :
           /\ Once(to_primary'[r], {CommandOf(q)})
           /\ Pending(r, q)' => Pending(r, q) /\ ~(q = q0 /\ r = r0)
    <3> SUFFICES ASSUME NEW q \in Req, NEW r \in Replica
                 PROVE  /\ Once(to_primary'[r], {CommandOf(q)})
                        /\ Pending(r, q)' => Pending(r, q) /\ ~(q = q0 /\ r = r0)
      OBVIOUS
    <3>1. Once(to_primary[r], {CommandOf(q)}) /\ to_primary[r] \in Seq(Vote \cup Command)
      BY <1>a DEF CommandInv
    <3> QED BY <1>a, <2>1, <2>2, <3>1, CommandsRead DEF Pending
  <2>5. \A q \in Req : \A s \in TSeq : Has(q, s)' <=> Has(q, s) \/ (q = q0 /\ s = tpc_seq + 1)
    BY <2>2, <1>b
  <2>6. /\ pc[q0] # "idle" /\ \A s \in TSeq : ~Has(q0, s)
        /\ \A r \in Replica : ~Pending(r, q0)'
    BY <2>3, <2>4 DEF CommandInv
  <2>7. \A q \in Req : pc[q] = "done" /\ (\A r \in Replica : ~Pending(r, q)) => q # q0
    BY <2>3
  <2>8. CommandInv'
    <3>1. \A n \in Node : \A q \in msg_queue'[n] : Home[q] = n
      BY <2>1 DEF CommandInv
    <3>2. \A q \in Req : \A s, x \in TSeq : Has(q, s)' /\ Has(q, x)' => s = x
      BY <2>5, <2>6 DEF CommandInv
    <3>3. \A q \in Req : pc'[q] = "idle" => /\ \A s \in TSeq : ~Has(q, s)'
                                           /\ \A r \in Replica : ~Pending(r, q)'
      BY <2>1, <2>4, <2>5, <2>6 DEF CommandInv
    <3>4. ASSUME NEW q \in Req, NEW r \in Replica, Pending(r, q)'
          PROVE  Home[q] = r /\ \A s \in TSeq : ~Has(q, s)'
      <4>1. q # q0 /\ Pending(r, q)
        BY <2>4, <2>6, <3>4
      <4>2. Home[q] = r /\ \A s \in TSeq : ~Has(q, s)
        BY <4>1 DEF CommandInv
      <4> QED BY <2>5, <4>1, <4>2
    <3> QED BY <2>4, <3>1, <3>2, <3>3, <3>4 DEF CommandInv
  <2> QED BY <2>1, <2>4, <2>5, <2>7, <2>8
<1> QED BY <1>1, <1>2, <1>3, <1>4, CommandMoves

(* The three ways to be refused: before a number was given, by an ABORT at *)
(* the command's own node, or by a primary on its own that found the row   *)
(* locked.                                                                 *)
Unnumbered(q) == /\ pc[q] = "done" /\ \A r \in Replica : ~Pending(r, q)
                 /\ \A s \in TSeq : ~Has(q, s)
Aborted(q)    == \E e \in Applied(Home[q]) : e.req = q /\ e.dec = "ABORT"
Locked(q)     == \E s \in TSeq : /\ Has(q, s) /\ Skipped(s)
                                 /\ \A e \in Applied(Primary) : e.seq = s => s \in Disputed

ReplyInv ==
    \A q \in Req :
        /\ reply[q] = "OK" => \E e \in Applied(Home[q]) : e.req = q /\ e.dec = "COMMIT"
        /\ reply[q] = "ERR" => Unnumbered(q) \/ Aborted(q) \/ Locked(q)

LEMMA InitReplyInv == Init => ReplyInv
BY DEF Init, ReplyInv

(* Histories only grow.                                                    *)
LEMMA AppliedGrows ==
    ASSUME IInv, [Next]_vars, NEW n \in Node
    PROVE  Applied(n) \subseteq Applied(n)'
<1>a. Primary \in Node /\ Replica \subseteq Node /\ Node = Replica \cup {Primary}
    BY DEF Node
<1>1. ASSUME NEW t, NEW m \in Node, ApplyNext(m, t) PROVE Applied(n) \subseteq Applied(n)'
    BY <1>1, ApplyAppends
<1>2. ASSUME NEW t \in Thread, ExecuteAlone(t) PROVE Applied(n) \subseteq Applied(n)'
    BY <1>2, <1>a, AloneAppends
<1>3. ASSUME UNCHANGED hist PROVE Applied(n) \subseteq Applied(n)'
    BY <1>3 DEF Applied
<1>4. ASSUME NEW t \in Thread, PrimaryEntersQueue(t) \/ PrimaryReturns(t) PROVE UNCHANGED hist
    BY <1>4 DEF PrimaryEntersQueue, PrimaryReturns, QuitUndecided, LeaveQueue
<1>5. ASSUME NEW r \in Replica, ReplicaDecides(r) \/ ReplicaReturns(r) PROVE UNCHANGED hist
    BY <1>5 DEF ReplicaDecides, ReplicaReturns, QuitUndecided, LeaveQueue
<1> QED BY <1>1, <1>2, <1>3, <1>4, <1>5, <1>a, OtherSteps
        DEF QueueStep, PrimaryApplies, ReplicaApplies

(* The steps that answer a frontend.                                       *)
LEMMA AnswerMoves ==
    ASSUME [Next]_vars
    PROVE  \/ UNCHANGED reply
           \/ \E q \in Req : RefuseAbsent(q)
           \/ \E t \in Thread : ExecuteAlone(t) \/ ApplyNext(Primary, t)
           \/ \E r \in Replica : ApplyNext(r, r)
<1>1. ASSUME NEW q \in Req, ReceiveFromFrontend(q) \/ ForwardToPrimary(q) \/ RegisterForwarded(q)
      PROVE  UNCHANGED reply
    BY <1>1 DEF ReceiveFromFrontend, ForwardToPrimary, RegisterForwarded
<1>2. ASSUME NEW t \in Thread, StartReplication(t) \/ EnqueuePrepare(t) \/ SendPrepare(t)
             \/ CheckUndecided(t) \/ LogDecision(t) \/ SendDecision(t) \/ SetStatus(t)
             \/ PrimaryEntersQueue(t) \/ PrimaryReturns(t)
      PROVE  UNCHANGED reply
    BY <1>2 DEF StartReplication, EnqueuePrepare, SendPrepare, CheckUndecided, LogDecision,
       SendDecision, SetStatus, PrimaryEntersQueue, PrimaryReturns, QuitUndecided, LeaveQueue, nvars
<1>3. ASSUME NEW r \in Replica, ReceiveForwarded(r) \/ RefuseForwarded(r) \/ VoteStep(r)
             \/ ReplicaVotes(r) \/ ReplicaDecides(r) \/ ReplicaReturns(r) \/ Crash(r)
             \/ ClosingStep(r)
      PROVE  UNCHANGED reply
    BY <1>3 DEF ReceiveForwarded, RefuseForwarded, VoteStep, ReceiveVote, LookUpVoted, CountYes,
       PrimaryVotes, ReplicaVotes, ReplicaDecides, ReplicaReturns, QuitUndecided, LeaveQueue,
       Crash, ClosingStep, DropConnection, DropAlive, nvars
<1>4. ASSUME (\E s \in TSeq : FindExpired(s)) \/ LookUpExpired \/ UNCHANGED vars
      PROVE  UNCHANGED reply
    BY <1>4 DEF FindExpired, LookUpExpired, vars, nvars
<1> QED BY <1>1, <1>2, <1>3, <1>4
        DEF Next, FrontendStep, CommandStep, DecisionStep, ReplicaStep, PrimaryApplies,
            ReplicaApplies

(* A decision that is logged for a number that was skipped came from the   *)
(* timeout thread.                                                         *)
LEMMA SkippedIsDisputed ==
    ASSUME VoteInv, NEW s \in TSeq, NEW d \in Decision, Logged(d, s), ~Sent(s)
    PROVE  s \in Disputed
BY DEF VoteInv, DecideInv, Disputed

LEMMA NextReplyInv ==
    VoteInv /\ TableInv /\ CommandInv /\ ReplyInv /\ [Next]_vars => ReplyInv'
<1> SUFFICES ASSUME VoteInv, TableInv, CommandInv, ReplyInv, [Next]_vars PROVE ReplyInv'
    OBVIOUS
<1>a. /\ IInv /\ StartInv /\ LogInv /\ EntryInv
      /\ Primary \in Node /\ Replica \subseteq Node /\ Home \in [Req -> Node]
      /\ reply \in [Req -> {"none", "OK", "ERR"}] /\ msg_queue \in [Node -> SUBSET Req]
    BY ConstantsAssumption DEF VoteInv, TableInv, Node, IInv, TypeOK, NodeTypeOK
<1>b. /\ \A n \in Node : Applied(n) \subseteq Applied(n)'
      /\ \A n \in Node : Applied(n) \subseteq Entry
      /\ Disputed \subseteq Disputed'
    BY <1>a, AppliedGrows, AppliedType, LogsGrow DEF Disputed
(* An answer stays justified.                                              *)
<1>1. ASSUME NEW q \in Req, Unnumbered(q) \/ Aborted(q) \/ Locked(q)
      PROVE  (Unnumbered(q) \/ Aborted(q) \/ Locked(q))'
  <2>1. CASE Unnumbered(q)
    BY <2>1, <1>a, NextCommandInv DEF Unnumbered
  <2>2. CASE Aborted(q)
    BY <2>2, <1>a, <1>b DEF Aborted
  <2>3. CASE Locked(q)
    <3>1. PICK s \in TSeq : /\ Has(q, s) /\ Skipped(s)
                            /\ \A e \in Applied(Primary) : e.seq = s => s \in Disputed
      BY <2>3 DEF Locked
    <3>2. s \in 1..tpc_seq /\ tpc_seq \in Nat /\ tpc_seq' \in Nat
      BY <1>a, <3>1, NextIInv DEF Has, TSeq, IInv, TypeOK, PrimaryTypeOK
    <3>3. Has(q, s)' /\ Skipped(s)'
      BY <1>a, <3>1, <3>2, NumbersStay DEF Has
    <3>4. ASSUME NEW e \in Applied(Primary)', e.seq = s PROVE s \in Disputed'
      <4>1. CASE e \in Applied(Primary)
        BY <3>1, <3>4, <4>1, <1>b
      <4>2. CASE e \notin Applied(Primary)
        <5>1. e \in Entry /\ Logged(e.dec, s)
          BY <1>a, <3>1, <3>4, <4>2, TableStep
        <5>2. s \in Disputed
          BY <3>1, <5>1, SkippedIsDisputed DEF Entry, Skipped
        <5> QED BY <5>2, <1>b
      <4> QED BY <4>1, <4>2
    <3> QED BY <3>3, <3>4 DEF Locked
  <2> QED BY <1>1, <2>1, <2>2, <2>3
<1>2. ASSUME NEW q \in Req, reply'[q] = reply[q]
      PROVE  /\ reply'[q] = "OK" => \E e \in Applied(Home[q])' : e.req = q /\ e.dec = "COMMIT"
             /\ reply'[q] = "ERR" => (Unnumbered(q) \/ Aborted(q) \/ Locked(q))'
    BY <1>1, <1>2, <1>a, <1>b DEF ReplyInv
<1>3. CASE UNCHANGED reply
    BY <1>2, <1>3 DEF ReplyInv
<1>4. ASSUME NEW q0 \in Req, RefuseAbsent(q0) PROVE ReplyInv'
  <2>1. /\ reply' = [reply EXCEPT ![q0] = "ERR"] /\ pc[q0] = "idle" /\ pc'[q0] = "done"
        /\ UNCHANGED <<to_primary, tpc_seq, req_of>>
    BY <1>4, <1>a, VoteTypes DEF RefuseAbsent, Goto, pvars, cvars
  <2>2. Unnumbered(q0)'
    BY <2>1 DEF CommandInv, Unnumbered, Pending, Has
  <2>3. \A q \in Req : q # q0 => reply'[q] = reply[q]
    BY <1>a, <2>1
  <2> QED BY <1>2, <1>a, <2>1, <2>2, <2>3 DEF ReplyInv
<1>5. ASSUME NEW n \in Node, NEW t, ApplyNext(n, t) PROVE ReplyInv'
  <2>1. PICK q0 : q0 = req_of[next_seq[n]]
    OBVIOUS
  <2>2. PICK d \in Decision : d = tpc_queue[n][next_seq[n]]
    BY <1>a, <1>5, ApplyAppends
  <2>3. NextEntry(n) \in Applied(n)' /\ NextEntry(n).req = q0 /\ NextEntry(n).dec = d
    BY <1>a, <1>5, <2>1, <2>2, ApplyAppends DEF NextEntry
  <2>4. \/ reply' = reply
        \/ q0 \in msg_queue[n] /\ reply' = [reply EXCEPT ![q0] = IF d = "COMMIT" THEN "OK" ELSE "ERR"]
    BY <1>5, <2>1, <2>2 DEF ApplyNext, Answered
  <2>5. CASE q0 \in msg_queue[n] /\ reply' = [reply EXCEPT ![q0] = IF d = "COMMIT" THEN "OK" ELSE "ERR"]
    <3>1. q0 \in Req /\ Home[q0] = n
      BY <1>a, <2>5 DEF CommandInv
    <3>2. reply'[q0] = (IF d = "COMMIT" THEN "OK" ELSE "ERR")
          /\ \A q \in Req : q # q0 => reply'[q] = reply[q]
      BY <1>a, <2>5, <3>1
    <3>3. /\ reply'[q0] = "OK" => \E e \in Applied(Home[q0])' : e.req = q0 /\ e.dec = "COMMIT"
          /\ reply'[q0] = "ERR" => Aborted(q0)'
      <4>1. d = "COMMIT" \/ d = "ABORT"
        BY DEF Decision
      <4> QED BY <2>3, <3>1, <3>2, <4>1 DEF Aborted
    <3> QED BY <1>2, <3>2, <3>3 DEF ReplyInv
  <2> QED BY <1>3, <2>4, <2>5
<1>6. ASSUME NEW t \in Thread, ExecuteAlone(t) PROVE ReplyInv'
  <2>1. PICK s0 \in TSeq : s0 = at[t] /\ Starts(t, s0) /\ s0 <= tpc_seq
    BY <1>a, <1>6, AloneAppends DEF ExecuteAlone, Starts, Starting
  <2>2. PICK q0 : q0 = req_of[s0]
    OBVIOUS
  <2>3. \/ reply' = reply
        \/ /\ q0 \in msg_queue[Primary] /\ reply' = [reply EXCEPT ![q0] = "OK"]
           /\ hist' = [hist EXCEPT ![Primary] = Append(hist[Primary], OwnEntry(t))]
        \/ q0 \in msg_queue[Primary] /\ reply' = [reply EXCEPT ![q0] = "ERR"] /\ UNCHANGED hist
    BY <1>6, <2>1, <2>2 DEF ExecuteAlone, Answered, OwnEntry
  <2>4. q0 \in msg_queue[Primary] => q0 \in Req /\ Home[q0] = Primary
    BY <1>a DEF CommandInv
  <2>5. CASE /\ q0 \in msg_queue[Primary] /\ reply' = [reply EXCEPT ![q0] = "OK"]
             /\ hist' = [hist EXCEPT ![Primary] = Append(hist[Primary], OwnEntry(t))]
    <3>1. OwnEntry(t) \in Applied(Primary)'
      <4>1. OwnEntry(t) \in Entry /\ hist[Primary] \in Seq(Entry)
        BY <1>a, <1>6, AloneAppends DEF IInv, TypeOK, NodeTypeOK
      <4>2. Elems(Append(hist[Primary], OwnEntry(t))) = Elems(hist[Primary]) \cup {OwnEntry(t)}
        BY <4>1, AppendElems
      <4>3. hist'[Primary] = Append(hist[Primary], OwnEntry(t))
        BY <1>a, <2>5 DEF IInv, TypeOK, NodeTypeOK
      <4> QED BY <4>2, <4>3 DEF Applied
    <3>2. OwnEntry(t).req = q0 /\ OwnEntry(t).dec = "COMMIT"
      BY <2>1, <2>2 DEF OwnEntry
    <3>3. reply'[q0] = "OK" /\ \A q \in Req : q # q0 => reply'[q] = reply[q]
      BY <1>a, <2>4, <2>5
    <3> QED BY <1>2, <2>4, <2>5, <3>1, <3>2, <3>3 DEF ReplyInv
  <2>6. CASE q0 \in msg_queue[Primary] /\ reply' = [reply EXCEPT ![q0] = "ERR"] /\ UNCHANGED hist
    <3>1. reply'[q0] = "ERR" /\ \A q \in Req : q # q0 => reply'[q] = reply[q]
      BY <1>a, <2>4, <2>6
    <3>2. ~Sent(s0) /\ ~Skipped(s0)
      BY <1>a, <2>1 DEF StartInv, Skipped
    <3>3. Skipped(s0)'
      <4>1. /\ UNCHANGED tpc_log /\ pc'[t] \notin Starting
            /\ \A u \in Thread : u # t => pc'[u] = pc[u] /\ at'[u] = at[u]
        BY <1>6, <1>a, VoteTypes DEF ExecuteAlone, Goto, Return, Starting
      <4> QED BY <1>a, <2>1, <3>2, <4>1 DEF Skipped, Sent, Starts, StartInv
    <3>4. Has(q0, s0)'
      BY <1>6, <2>1, <2>2 DEF Has, ExecuteAlone, pvars
    <3>5. ASSUME NEW e \in Applied(Primary)', e.seq = s0 PROVE s0 \in Disputed'
      <4>1. e \in Applied(Primary)
        BY <2>6 DEF Applied
      <4>2. e \in Entry /\ Logged(e.dec, s0)
        BY <1>a, <1>b, <3>2, <3>5, <4>1 DEF EntryInv
      <4>3. s0 \in Disputed
        BY <3>2, <4>2, SkippedIsDisputed DEF Entry
      <4> QED BY <1>b, <4>3
    <3>6. Locked(q0)'
      BY <3>3, <3>4, <3>5 DEF Locked
    <3> QED BY <1>2, <2>4, <2>6, <3>1, <3>6 DEF ReplyInv
  <2> QED BY <1>3, <2>3, <2>5, <2>6
<1> QED BY <1>3, <1>4, <1>5, <1>6, <1>a, AnswerMoves

PartitionInv == VoteInv /\ TableInv /\ CommandInv /\ ReplyInv

LEMMA PartitionIsKept == Spec => []PartitionInv
<1>1. Init => CommandInv /\ ReplyInv
    BY InitCommandInv, InitReplyInv
<1>2. CommandInv /\ ReplyInv /\ VoteInv /\ TableInv /\ [Next]_vars => CommandInv' /\ ReplyInv'
    BY NextCommandInv, NextReplyInv DEF VoteInv
<1> QED BY <1>1, <1>2, TablesAreKept, PTL DEF Spec, PartitionInv

(* What a frontend is told is what became of its command on every node,    *)
(* whichever node it spoke to.                                             *)
THEOREM AnswerIsTrue == Spec => []ReplyIsOutcome
<1>1. VoteInv /\ TableInv /\ SameHistory /\ CommandInv /\ ReplyInv => ReplyIsOutcome
  <2> SUFFICES ASSUME VoteInv, TableInv, SameHistory, CommandInv, ReplyInv,
                      NEW q \in Req, NEW n \in Node, NEW e \in Applied(n), e.req = q,
                      e.seq \notin Disputed
               PROVE  /\ reply[q] = "OK" => e.dec = "COMMIT"
                      /\ reply[q] = "ERR" => e.dec = "ABORT"
    BY DEF ReplyIsOutcome, ReplyInv
  <2>a. Home[q] \in Node /\ Primary \in Node
    BY ConstantsAssumption DEF Node
  (* Every node that has applied q has applied it under this number.         *)
  <2>1. \A m \in Node : \A f \in Applied(m) : f \in Entry /\ Has(f.req, f.seq)
    BY AppliedType DEF VoteInv, TableInv, EntryInv, Has
  <2>2. \A m \in Node : \A f \in Applied(m) : f.req = q => f = e
    <3> SUFFICES ASSUME NEW m \in Node, NEW f \in Applied(m), f.req = q PROVE f = e
      OBVIOUS
    <3>1. f.seq \in TSeq /\ e.seq \in TSeq /\ Has(q, f.seq) /\ Has(q, e.seq)
      BY <2>1 DEF Entry
    <3>2. f.seq = e.seq
      BY <3>1 DEF CommandInv
    <3> QED BY <3>2 DEF SameHistory
  <2>3. reply[q] = "OK" => e.dec = "COMMIT"
    BY <2>2, <2>a DEF ReplyInv
  <2>4. ASSUME reply[q] = "ERR" PROVE e.dec = "ABORT"
    <3>1. e \in Entry /\ e.seq \in TSeq /\ Has(q, e.seq)
      BY <2>1 DEF Entry
    <3>2. ~Unnumbered(q)
      BY <3>1 DEF Unnumbered
    <3>3. ~Locked(q)
      <4>1. SUFFICES ASSUME NEW s \in TSeq, Has(q, s), Skipped(s),
                            \A f \in Applied(Primary) : f.seq = s => s \in Disputed
                     PROVE  FALSE
        BY DEF Locked
      <4>2. e.seq = s
        BY <3>1, <4>1 DEF CommandInv
      <4>3. ~Logged(e.dec, s)
        BY <3>1, <4>1, <4>2, SkippedIsDisputed DEF Entry, Skipped
      <4>4. n = Primary
        BY <4>2, <4>3 DEF TableInv, EntryInv
      <4> QED BY <4>1, <4>2, <4>4
    <3> QED BY <2>2, <2>4, <2>a, <3>2, <3>3 DEF ReplyInv, Aborted
  <2> QED BY <2>3, <2>4
<1> QED BY <1>1, PartitionIsKept, HistoryIsOne, PTL DEF PartitionInv

-----------------------------------------------------------------------------
(* One replicated log.                                                     *)

(* Histories of which any two agree as far as both go, and which do not    *)
(* grow for ever.                                                          *)
Aligned(h) ==
    /\ h \in [Node -> Seq(Entry)]
    /\ \A n \in Node : Len(h[n]) <= MaxSeq
    /\ \A m, n \in Node : \A i \in 1..Len(h[m]) : i \in 1..Len(h[n]) => h[m][i] = h[n][i]

IsLongest(h, n) == \A m \in Node : Len(h[m]) <= Len(h[n])

(* Some history is the longest, and all the longest ones are the same.     *)
LEMMA LongestExists ==
    ASSUME NEW h, Aligned(h)
    PROVE  \E n \in Node : IsLongest(h, n)
<1> DEFINE Below == {p \in Nat \X Nat : p[1] < p[2]}
           Short == {MaxSeq - Len(h[n]) : n \in Node}
<1>1. IsWellFoundedOn(Below, Nat)
    BY NatLessThanWellFounded DEF OpToRel
<1>2. /\ MaxSeq \in Nat /\ Primary \in Node
      /\ \A n \in Node : Len(h[n]) \in Nat /\ MaxSeq - Len(h[n]) \in Nat
    BY ConstantsAssumption DEF Aligned, Node
<1>3. Short \subseteq Nat /\ Short # {}
    BY <1>2
<1>4. PICK x \in Short : \A y \in Short : ~(<<y, x>> \in Below)
  <2> HIDE DEF Below, Short
  <2> QED BY <1>1, <1>3, WFMin
<1>5. PICK n \in Node : x = MaxSeq - Len(h[n])
    BY <1>4
<1>6. \A m \in Node : Len(h[m]) <= Len(h[n])
  <2> SUFFICES ASSUME NEW m \in Node PROVE Len(h[m]) <= Len(h[n])
    OBVIOUS
  <2>1. ~(<<MaxSeq - Len(h[m]), x>> \in Below)
    BY <1>4
  <2>2. ~(MaxSeq - Len(h[m]) < MaxSeq - Len(h[n]))
    BY <1>2, <1>5, <2>1
  <2> QED BY <1>2, <2>2
<1> QED BY <1>6 DEF IsLongest

LEMMA LongestIsOne ==
    ASSUME NEW h, Aligned(h), NEW m \in Node, IsLongest(h, m), NEW n \in Node, IsLongest(h, n)
    PROVE  h[m] = h[n]
<1>1. h[m] \in Seq(Entry) /\ h[n] \in Seq(Entry) /\ Len(h[m]) = Len(h[n])
  <2>1. h[m] \in Seq(Entry) /\ h[n] \in Seq(Entry)
    BY DEF Aligned
  <2>2. Len(h[m]) \in Nat /\ Len(h[n]) \in Nat /\ Len(h[m]) <= Len(h[n]) /\ Len(h[n]) <= Len(h[m])
    BY <2>1 DEF IsLongest
  <2> QED BY <2>1, <2>2
<1>2. \A i \in 1..Len(h[m]) : h[m][i] = h[n][i]
    BY <1>1 DEF Aligned
<1> QED BY <1>1, <1>2

(* The log of the refinement is any longest history.                       *)
LEMMA LogIsLongest ==
    ASSUME Aligned(hist), NEW n \in Node, IsLongest(hist, n)
    PROVE  Longest \in Node /\ IsLongest(hist, Longest) /\ hist[Longest] = hist[n]
<1>1. Longest \in Node /\ IsLongest(hist, Longest)
    BY DEF Longest, IsLongest
<1> QED BY <1>1, LongestIsOne

LEMMA LogIsLongestNext ==
    ASSUME Aligned(hist'), NEW n \in Node, IsLongest(hist', n)
    PROVE  hist'[Longest'] = hist'[n]
<1>1. Longest' \in Node /\ IsLongest(hist', Longest')
    BY DEF Longest, IsLongest
<1> QED BY <1>1, LongestIsOne

(* While a replica is connected and nothing is disputed.                   *)
Replicating == Disputed = {} /\ ~NoReplica

LEMMA HistoriesAreAligned == PartitionInv => (Replicating => Aligned(hist))
<1> SUFFICES ASSUME PartitionInv, Replicating PROVE Aligned(hist)
    OBVIOUS
<1>1. hist \in [Node -> Seq(Entry)]
    BY DEF PartitionInv, VoteInv, IInv, TypeOK, NodeTypeOK
<1>2. \A n \in Node : \A i \in 1..Len(hist[n]) :
         hist[n][i] \in Applied(n) /\ hist[n][i] \in Entry /\ hist[n][i].seq = i
    BY <1>1 DEF Replicating, PartitionInv, TableInv, OrderInv, Applied, Elems
<1>3. ASSUME NEW n \in Node PROVE Len(hist[n]) <= MaxSeq
  <2>1. Len(hist[n]) \in Nat /\ MaxSeq \in Nat
    BY <1>1, ConstantsAssumption
  <2>2. \A i \in 1..Len(hist[n]) : i <= MaxSeq
    BY <1>2, <1>3 DEF Entry, TSeq
  <2> QED BY <2>1, <2>2
<1>4. ASSUME NEW m \in Node, NEW n \in Node, NEW i \in 1..Len(hist[m]), i \in 1..Len(hist[n])
      PROVE  hist[m][i] = hist[n][i]
  <2>1. SameHistory
    BY InvsGiveOneHistory DEF PartitionInv
  <2>2. hist[m][i] \in Applied(m) /\ hist[n][i] \in Applied(n) /\ hist[m][i].seq = hist[n][i].seq
    BY <1>2, <1>4
  <2> QED BY <2>1, <2>2 DEF SameHistory, Replicating
<1> QED BY <1>1, <1>3, <1>4 DEF Aligned

(* A command that a node is about to apply has not been answered, unless   *)
(* the command's own node is ahead.                                        *)
LEMMA NotYetAnswered ==
    ASSUME PartitionInv, Replicating, Replicating', Aligned(hist), OrderInv',
           NEW n \in Node, NEW t, ApplyNext(n, t), [Next]_vars
    PROVE  /\ NextEntry(n) \in Entry /\ NextEntry(n).seq = Len(hist[n]) + 1
           /\ \A m \in Node : Len(hist[m]) <= Len(hist[n]) =>
                 /\ \A i \in DOMAIN hist[m] : hist[m][i].req # NextEntry(n).req
                 /\ Home[NextEntry(n).req] = m => reply[NextEntry(n).req] = "none"
<1> DEFINE e == NextEntry(n)
<1>a. /\ IInv /\ StartInv /\ LogInv /\ EntryInv /\ hist \in [Node -> Seq(Entry)]
      /\ reply \in [Req -> {"none", "OK", "ERR"}] /\ Primary \in Node
    BY DEF PartitionInv, VoteInv, TableInv, IInv, TypeOK, NodeTypeOK, Node
<1>1. /\ e \in Entry /\ hist'[n] = Append(hist[n], e) /\ e \in Applied(n)'
    BY <1>a, ApplyAppends
<1>2. e.seq = Len(hist[n]) + 1
  <2>1. hist[n] \in Seq(Entry) /\ Len(hist[n]) \in Nat
    BY <1>a
  <2>2. Len(hist[n]) + 1 \in DOMAIN hist'[n] /\ hist'[n][Len(hist[n]) + 1] = e
    BY <1>1, <2>1
  <2>3. \A i \in DOMAIN hist'[n] : hist'[n][i].seq = i
    BY DEF OrderInv, Replicating
  <2> QED BY <2>2, <2>3
<1>3. e \notin Applied(n)
  <2>1. \A i \in DOMAIN hist[n] : i # Len(hist[n]) + 1 /\ hist[n][i].seq = i
    BY <1>a DEF PartitionInv, TableInv, OrderInv, Replicating
  <2> QED BY <1>2, <2>1 DEF Applied, Elems
<1>4. PICK s \in TSeq : s = e.seq /\ Has(e.req, s) /\ Logged(e.dec, s)
  <2>1. NextEntry(n) = e /\ e.seq = next_seq[n] /\ e.req = req_of[next_seq[n]]
        /\ e.dec = tpc_queue[n][next_seq[n]]
    BY DEF NextEntry
  <2>2. next_seq[n] \in TSeq /\ next_seq[n] <= tpc_seq /\ tpc_queue[n][next_seq[n]] \in Decision
    BY <1>a, ApplyAppends
  <2> QED BY <2>1, <2>2, <1>a DEF LogInv, Has
<1>5. PICK q \in Req : q = e.req
    BY <1>1 DEF Entry
<1>6. \A m \in Node : \A f \in Applied(m) : f \in Entry /\ Has(f.req, f.seq)
    BY <1>a, AppliedType DEF EntryInv, Has
<1>7. ASSUME NEW m \in Node, Len(hist[m]) <= Len(hist[n]), NEW f \in Applied(m) PROVE f.req # q
  <2>1. PICK i \in DOMAIN hist[m] : f = hist[m][i]
    BY DEF Applied, Elems
  <2>2. hist[m] \in Seq(Entry) /\ hist[n] \in Seq(Entry)
    BY <1>a
  <2>3. f.seq = i
    BY <2>1 DEF PartitionInv, TableInv, OrderInv, Replicating
  <2>4. f.seq # e.seq
    BY <1>2, <1>7, <2>1, <2>2, <2>3
  <2>5. f.seq \in TSeq /\ Has(f.req, f.seq)
    BY <1>6 DEF Entry
  <2> QED BY <1>4, <1>5, <2>4, <2>5 DEF PartitionInv, CommandInv
<1>8. ASSUME NEW m \in Node, Len(hist[m]) <= Len(hist[n]), Home[q] = m PROVE reply[q] = "none"
  <2>1. reply[q] # "OK"
    BY <1>7, <1>8 DEF PartitionInv, ReplyInv
  <2>2. ~Unnumbered(q)
    BY <1>4, <1>5 DEF Unnumbered
  <2>3. ~Aborted(q)
    BY <1>7, <1>8 DEF Aborted
  <2>4. ~Locked(q)
    <3> SUFFICES ASSUME NEW x \in TSeq, Has(q, x), Skipped(x) PROVE FALSE
      BY DEF Locked
    <3>1. x = s
      BY <1>4, <1>5 DEF PartitionInv, CommandInv
    <3>2. s \in Disputed
      BY <1>1, <1>4, <3>1, SkippedIsDisputed DEF Skipped, PartitionInv, Entry
    <3> QED BY <3>2 DEF Replicating
  <2> QED BY <1>a, <2>1, <2>2, <2>3, <2>4 DEF PartitionInv, ReplyInv
<1>9. \A m \in Node : \A i \in DOMAIN hist[m] : hist[m][i] \in Applied(m)
    BY DEF Applied, Elems
<1> QED BY <1>1, <1>2, <1>5, <1>7, <1>8, <1>9

(* The steps that write to a table or answer a frontend.                   *)
LEMMA VisibleSteps ==
    ASSUME IInv, [Next]_vars
    PROVE  \/ UNCHANGED <<hist, reply>>
           \/ \E q \in Req : RefuseAbsent(q)
           \/ \E n \in Node : \E t \in Thread : ApplyNext(n, t)
           \/ \E t \in Thread : ExecuteAlone(t)
<1>a. Replica \subseteq Thread /\ Replica \subseteq Node /\ Primary \in Node
    BY DEF Thread, Node
<1>1. \/ UNCHANGED hist
      \/ \E n \in Node : \E t \in Thread : ApplyNext(n, t)
      \/ \E t \in Thread : ExecuteAlone(t)
  <2>1. ASSUME NEW t \in Thread, PrimaryEntersQueue(t) \/ PrimaryReturns(t) PROVE UNCHANGED hist
    BY <2>1 DEF PrimaryEntersQueue, PrimaryReturns, QuitUndecided, LeaveQueue
  <2>2. ASSUME NEW r \in Replica, ReplicaDecides(r) \/ ReplicaReturns(r) PROVE UNCHANGED hist
    BY <2>2 DEF ReplicaDecides, ReplicaReturns, QuitUndecided, LeaveQueue
  <2> QED BY <2>1, <2>2, <1>a, OtherSteps DEF QueueStep, PrimaryApplies, ReplicaApplies
<1> QED BY <1>a, <1>1, AnswerMoves

(* Every step of every thread is a step of the log, or invisible.          *)
LEMMA LogStep ==
    ASSUME PartitionInv, Replicating, Replicating', Aligned(hist), Aligned(hist'), OrderInv',
           [Next]_vars
    PROVE  [Log!Next]_(Log!vars)
<1>a. /\ IInv /\ hist \in [Node -> Seq(Entry)] /\ Primary \in Node /\ Replica \subseteq Node
      /\ reply \in [Req -> {"none", "OK", "ERR"}] /\ Home \in [Req -> Node]
    BY ConstantsAssumption DEF PartitionInv, VoteInv, IInv, TypeOK, NodeTypeOK, Node
<1>b. PICK top \in Node : IsLongest(hist, top)
    BY LongestExists
<1>c. hist[Longest] = hist[top]
    BY <1>b, LogIsLongest
(* Nothing is applied.                                                     *)
<1>1. ASSUME UNCHANGED hist PROVE UNCHANGED <<hist[Longest], [n \in Node |-> Len(hist[n])]>>
  <2>1. hist'[Longest'] = hist'[top]
    BY <1>1, <1>b, LogIsLongestNext
  <2> QED BY <1>1, <1>c, <2>1
<1>2. CASE UNCHANGED <<hist, reply>>
    BY <1>1, <1>2 DEF Log!vars
<1>3. ASSUME NEW q \in Req, RefuseAbsent(q) PROVE Log!Refuse(q)
  <2>1. /\ pc[q] = "idle" /\ reply' = [reply EXCEPT ![q] = "ERR"] /\ UNCHANGED hist
    BY <1>3 DEF RefuseAbsent
  <2>2. \A s \in TSeq : ~Has(q, s)
    BY <2>1 DEF PartitionInv, CommandInv
  <2>3. \A n \in Node : \A e \in Applied(n) : e.req # q
    <3>1. \A n \in Node : \A e \in Applied(n) : e.seq \in TSeq /\ Has(e.req, e.seq)
      BY <1>a, AppliedType DEF PartitionInv, TableInv, EntryInv, Entry, Has
    <3> QED BY <2>2, <3>1
  <2>4. reply[q] = "none"
    BY <1>a, <2>1, <2>2, <2>3 DEF PartitionInv, ReplyInv, Unnumbered, Aborted, Locked
  <2>5. ~Log!Settled(q)
    BY <1>c, <2>3 DEF Log!Settled, Applied, Elems
  <2> QED BY <1>1, <2>1, <2>4, <2>5 DEF Log!Refuse
<1>4. ASSUME NEW n \in Node, NEW t, ApplyNext(n, t) PROVE Log!Settle(n) \/ Log!CatchUp(n)
  <2>1. PICK e \in Entry : e = NextEntry(n)
    BY <1>4, NotYetAnswered
  <2>2. /\ e.seq = Len(hist[n]) + 1
        /\ \A m \in Node : Len(hist[m]) <= Len(hist[n]) =>
              /\ \A i \in DOMAIN hist[m] : hist[m][i].req # e.req
              /\ Home[e.req] = m => reply[e.req] = "none"
    BY <1>4, <2>1, NotYetAnswered
  <2>3. /\ hist'[n] = Append(hist[n], e)
        /\ \A m \in Node : m # n => hist'[m] = hist[m]
    BY <1>a, <1>4, <2>1, ApplyAppends
  <2>4. e.req \in Req /\ e.dec \in Decision
    BY DEF Entry
  <2>5. \/ UNCHANGED reply
        \/ e.req \in msg_queue[n] /\ reply' = [reply EXCEPT ![e.req] = Log!Text(e.dec)]
    BY <1>4, <2>1, <2>4 DEF ApplyNext, Answered, NextEntry, Log!Text, Decision
  <2>6. Log!MayAnswer(e)
    <3>1. e.req \in msg_queue[n] => reply[e.req] = "none"
      <4>1. e.req \in msg_queue[n] => Home[e.req] = n
        BY DEF PartitionInv, CommandInv
      <4>2. Len(hist[n]) <= Len(hist[n])
        BY <1>a
      <4> QED BY <2>2, <4>1, <4>2
    <3> QED BY <2>5, <3>1 DEF Log!MayAnswer
  <2>7. /\ \A m \in Node : hist[m] \in Seq(Entry) /\ Len(hist[m]) \in Nat
        /\ hist'[n] \in Seq(Entry) /\ Len(hist'[n]) = Len(hist[n]) + 1
        /\ hist'[n][Len(hist[n]) + 1] = e
    BY <1>a, <2>3
  <2>8. [m \in Node |-> Len(hist[m])]' = [[m \in Node |-> Len(hist[m])] EXCEPT ![n] = @ + 1]
    BY <2>3, <2>7
  <2>9. CASE Len(hist[n]) < Len(hist[top])
    <3>1. n # top /\ hist'[top] = hist[top]
      BY <2>3, <2>7, <2>9
    <3>2. IsLongest(hist', top)
      <4> SUFFICES ASSUME NEW m \in Node PROVE Len(hist'[m]) <= Len(hist'[top])
        BY DEF IsLongest
      <4>1. CASE m = n
        BY <2>7, <2>9, <3>1, <4>1
      <4>2. CASE m # n
        BY <1>b, <2>3, <3>1, <4>2 DEF IsLongest
      <4> QED BY <4>1, <4>2
    <3>3. hist'[Longest'] = hist[Longest]
      BY <1>c, <3>1, <3>2, LogIsLongestNext
    <3>4. hist[Longest][Len(hist[n]) + 1] = e
      <4>1. Len(hist[n]) + 1 \in 1..Len(hist'[n]) /\ Len(hist[n]) + 1 \in 1..Len(hist'[top])
        BY <2>7, <2>9, <3>1
      <4>2. hist'[n][Len(hist[n]) + 1] = hist'[top][Len(hist[n]) + 1]
        BY <4>1 DEF Aligned
      <4> QED BY <1>c, <2>7, <3>1, <4>2
    <3> QED BY <1>c, <2>6, <2>8, <2>9, <3>3, <3>4 DEF Log!CatchUp
  <2>10. CASE ~(Len(hist[n]) < Len(hist[top]))
    <3>1. \A m \in Node : Len(hist[m]) <= Len(hist[n])
      BY <1>b, <2>7, <2>10 DEF IsLongest
    <3>2. hist[n] = hist[Longest]
      BY <3>1, LogIsLongest DEF IsLongest
    <3>3. IsLongest(hist', n)
      <4> SUFFICES ASSUME NEW m \in Node PROVE Len(hist'[m]) <= Len(hist'[n])
        BY DEF IsLongest
      <4>1. CASE m = n
        BY <2>7, <4>1
      <4>2. CASE m # n
        BY <2>3, <2>7, <3>1, <4>2
      <4> QED BY <4>1, <4>2
    <3>4. hist'[Longest'] = Append(hist[Longest], e)
      BY <2>3, <3>2, <3>3, LogIsLongestNext
    <3>5. ~Log!Settled(e.req)
      BY <2>2, <3>1, <3>2 DEF Log!Settled
    <3>6. reply[e.req] = "none"
      BY <1>a, <2>2, <2>4, <3>1
    <3> QED BY <2>6, <2>8, <3>2, <3>4, <3>5, <3>6 DEF Log!Settle
  <2> QED BY <2>9, <2>10
<1>5. \/ UNCHANGED <<hist, reply>>
      \/ \E q \in Req : RefuseAbsent(q)
      \/ \E n \in Node : \E t \in Thread : ApplyNext(n, t)
    BY <1>a, VisibleSteps DEF Replicating, ExecuteAlone
<1> QED BY <1>2, <1>3, <1>4, <1>5 DEF Log!Next

(* While a replica is connected and no transaction has an outcome that is  *)
(* disputed, the partition is one replicated log: the nodes apply its      *)
(* entries one by one, no command enters it twice, and frontends are told  *)
(* what it says.                                                           *)
THEOREM LogImplemented ==
    Spec /\ [](Disputed = {} /\ ~NoReplica) => ImplementsLog
<1>1. Init => Log!Init
  <2> SUFFICES ASSUME Init PROVE Log!Init
    OBVIOUS
  <2>1. /\ hist = [n \in Node |-> <<>>] /\ reply = [q \in Req |-> "none"] /\ Primary \in Node
    BY DEF Init, Node
  <2>2. Longest \in Node
    BY <2>1 DEF Longest
  <2> QED BY <2>1, <2>2 DEF Log!Init
<1>2. PartitionInv => OrderInv
    BY DEF PartitionInv, TableInv
<1>3. PartitionInv => (Replicating => Aligned(hist))
    BY HistoriesAreAligned
<1>4. PartitionInv /\ Replicating /\ Replicating' /\ Aligned(hist) /\ Aligned(hist)' /\ OrderInv'
        /\ [Next]_vars => [Log!Next]_(Log!vars)
    BY LogStep
<1>5. (Disputed = {} /\ ~NoReplica) <=> Replicating
    BY DEF Replicating
<1> QED BY PartitionIsKept, <1>1, <1>2, <1>3, <1>4, <1>5, PTL
        DEF Spec, ImplementsLog, Log!Spec

-----------------------------------------------------------------------------
(* At most two replicas.                                                   *)

LEMMA MiscountMoves ==
    ASSUME [Next]_vars
    PROVE  UNCHANGED miscounted \/ \E r \in Replica : CountYes(r)
<1>1. ASSUME NEW q \in Req, FrontendStep(q) \/ RegisterForwarded(q) PROVE UNCHANGED miscounted
    BY <1>1 DEF FrontendStep, ReceiveFromFrontend, ForwardToPrimary, RefuseAbsent,
       RegisterForwarded, pvars
<1>2. ASSUME NEW t \in Thread, CommandStep(t) \/ DecisionStep(t) PROVE UNCHANGED miscounted
    BY <1>2 DEF CommandStep, StartReplication, ExecuteAlone, EnqueuePrepare, SendPrepare,
       DecisionStep, CheckUndecided, LogDecision, SendDecision, SetStatus, PrimaryEntersQueue,
       PrimaryApplies, PrimaryReturns, pvars
<1>3. ASSUME NEW r \in Replica, ReceiveForwarded(r) \/ RefuseForwarded(r) \/ ReceiveVote(r)
             \/ LookUpVoted(r) \/ PrimaryVotes(r) \/ ReplicaStep(r) \/ Crash(r) \/ ClosingStep(r)
      PROVE  UNCHANGED miscounted
    BY <1>3 DEF ReceiveForwarded, RefuseForwarded, ReceiveVote, LookUpVoted, PrimaryVotes,
       ReplicaStep, ReplicaVotes, ReplicaDecides, ReplicaApplies, ReplicaReturns, Crash,
       ClosingStep, DropConnection, DropAlive, pvars
<1>4. ASSUME (\E s \in TSeq : FindExpired(s)) \/ LookUpExpired \/ UNCHANGED vars
      PROVE  UNCHANGED miscounted
    BY <1>4 DEF FindExpired, LookUpExpired, vars, pvars
<1> QED BY <1>1, <1>2, <1>3, <1>4 DEF Next, VoteStep

(* The YES that is counted last comes from a replica that is alive, and    *)
(* with two replicas it leaves no room for one that is not.                *)
LEMMA NoneMiscounted ==
    ASSUME Cardinality(Replica) <= 2, VoteInv, NEW r \in Replica, CountYes(r)
    PROVE  UNCHANGED miscounted
<1>1. PICK s \in TSeq : s = at[r] /\ Handles(r, s)
    BY VoteTypes DEF CountYes, Handles, Working, PC, VoteInv
<1>2. PICK responses : responses = tpc_responses[s] \cup {r}
    OBVIOUS
<1>3. /\ responses \subseteq tpc_replicas[s] /\ alive_replicas \subseteq tpc_replicas[s]
      /\ tpc_replicas[s] \subseteq Replica /\ r \in alive_replicas
    BY <1>1, <1>2, VoteTypes DEF VoteInv, TokenInv, PlaceInv, Counted, Handles
<1>4. /\ IsFiniteSet(responses) /\ IsFiniteSet(tpc_replicas[s]) /\ IsFiniteSet(alive_replicas)
      /\ Cardinality(tpc_replicas[s]) <= Cardinality(Replica)
    BY <1>3, ConstantsAssumption, FS_Subset
<1>5. ASSUME ~(responses \subseteq alive_replicas), EnoughVotes(responses, s)
      PROVE  Cardinality(responses) = Cardinality(tpc_replicas[s])
  <2>1. PICK p \in responses : p \notin alive_replicas
    BY <1>5
  <2>2. {r, p} \subseteq responses /\ r # p
    BY <1>2, <1>3, <2>1
  <2>3. Cardinality({r, p}) = 2
    <3>1. {r, p} = {r} \cup {p} /\ p \notin {r}
      BY <2>2
    <3>2. IsFiniteSet({r}) /\ Cardinality({r}) = 1
      BY FS_Singleton
    <3> QED BY <3>1, <3>2, FS_AddElement
  <2>4. 2 <= Cardinality(responses) /\ Cardinality(responses) <= Cardinality(tpc_replicas[s])
    BY <1>3, <1>4, <2>2, <2>3, FS_Subset
  <2> QED BY <1>4, <2>4, FS_CardinalityType, ConstantsAssumption
<1>6. ~DroppedVoteCounted(responses, s)
    BY <1>5 DEF DroppedVoteCounted
<1> QED BY <1>1, <1>2, <1>6 DEF CountYes

LEMMA NothingMiscounted ==
    ASSUME Cardinality(Replica) <= 2
    PROVE  Spec => []((miscounted = {}) /\ VoteInv)
<1>1. Init => miscounted = {}
    BY DEF Init
<1>2. (miscounted = {}) /\ VoteInv /\ [Next]_vars => (miscounted = {})'
    BY MiscountMoves, NoneMiscounted
<1> QED BY <1>1, <1>2, VotesAreKept, PTL DEF Spec

(* With at most two replicas, the number the deployment file lists, what   *)
(* the primary commits is prepared by every replica that has not crashed.  *)
THEOREM TwoReplicasAgree == Cardinality(Replica) <= 2 => (Spec => []CommitIsUnanimous)
<1> SUFFICES ASSUME Cardinality(Replica) <= 2 PROVE Spec => []CommitIsUnanimous
    OBVIOUS
<1>1. (miscounted = {}) /\ AckInv => CommitIsUnanimous
    BY DEF AckInv, CommitIsUnanimous, Logged, Everywhere, Prepared, PrepareOf
<1> QED BY <1>1, NothingMiscounted, CommitsArePrepared, PTL

(* With at most two replicas it takes the timeout thread, or the loss of   *)
(* the last replica, to make the partition anything but one log.           *)
THEOREM DeploymentIsLog ==
    Cardinality(Replica) <= 2 => (Spec /\ [](expired = {} /\ ~NoReplica) => ImplementsLog)
<1> SUFFICES ASSUME Cardinality(Replica) <= 2
             PROVE  Spec /\ [](expired = {} /\ ~NoReplica) => ImplementsLog
    OBVIOUS
<1>1. (miscounted = {}) /\ (expired = {} /\ ~NoReplica) => (Disputed = {} /\ ~NoReplica)
    BY DEF Disputed
<1> QED BY <1>1, NothingMiscounted, LogImplemented, PTL

-----------------------------------------------------------------------------
(* What is executed is executed under its lock.                            *)

Held(n, s) == LET l == row_locks[n][KeyOf[req_of[s]]] IN l.st = "held" /\ l.for = s

(* If s is the next transaction node n will come to in its queue, n holds  *)
(* the lock for it.  A stray unlock may take the lock away from a later    *)
(* transaction, but process_tpc_queue erases the transaction after the one *)
(* it applies, so that by then there is none in the queue.                 *)
Keeps(n, s) ==
    tpc_queue[n][s] # "none" /\ last_seq[n] + 1 = s /\ (n = Primary => ~NoReplica)
       => Held(n, s)

(* Where the YES of r on s can be.                                         *)
Granted(r, s) == \/ VoteOn(TRUE, s) \in Elems(to_primary[r])
                 \/ Handles(r, s) /\ arg[r] = "YES"
                 \/ Counted(r, s)

(* What is logged as prepared was asked for, and is not asked for again.   *)
AskInv ==
    \A s \in TSeq :
       /\ Logged("COMMIT", s) => Sent(s)
       /\ \A r \in Replica : Prepared(r, s) => Sent(s) /\ ~Asked(r, s)

(* A YES stands for a lock, from the replica's vote to the last use of the *)
(* decision; to the YES of everyone the primary adds its own lock.         *)
LockInv ==
    /\ \A r \in Replica : pc[r] = "respond" => arg[r] = "YES"
    /\ \A s \in TSeq : \A r \in Replica : Granted(r, s) => Keeps(r, s)
    /\ \A s \in TSeq \ miscounted :
          /\ \A t \in Replica : Decides(t, s) /\ Commits(t, s) =>
                /\ \A r \in Replica : up[r] => Keeps(r, s)
                /\ pc[t] # "getlock" => Keeps(Primary, s)
          /\ Logged("COMMIT", s) =>
                Keeps(Primary, s) /\ \A r \in Replica : up[r] => Keeps(r, s)

LEMMA InitLockInv == Init => AskInv /\ LockInv
<1> SUFFICES ASSUME Init PROVE AskInv /\ LockInv
    OBVIOUS
<1>1. /\ \A r \in Replica : pc[r] = "idle" /\ to_primary[r] = <<>>
      /\ \A s \in TSeq : /\ tpc_responses[s] = {} /\ ~Logged("COMMIT", s)
                         /\ \A r \in Replica : ~Prepared(r, s)
    BY DEF Init, Thread, Node, Logged, Prepared
<1>2. \A r \in Replica : Elems(to_primary[r]) = {}
    BY <1>1 DEF Elems
<1>3. \A r \in Replica : \A s \in TSeq : ~Granted(r, s) /\ ~Decides(r, s)
    BY <1>1, <1>2 DEF Granted, Handles, Counted, Decides
<1> QED BY <1>1, <1>3 DEF AskInv, LockInv

LEMMA NextAskInv ==
    VoteInv /\ AskInv /\ [Next]_vars => AskInv'
<1> SUFFICES ASSUME VoteInv, AskInv, [Next]_vars PROVE AskInv'
    OBVIOUS
<1>a. /\ IInv /\ Replica \subseteq Thread /\ Req \subseteq Thread /\ Timer \in Thread
      /\ Timer \notin Replica /\ Primary \in Node /\ Replica \subseteq Node /\ Primary \notin Replica
      /\ pc \in [Thread -> PC] /\ at \in [Thread -> 0..MaxSeq]
      /\ tpc_log \in [Node -> SUBSET Record]
      /\ to_replica \in [Replica -> Seq(Record)]
      /\ \A t \in Thread : pc[t] \in Working => at[t] \in TSeq
    BY VoteTypes DEF VoteInv
<1>b. ChannelTypeOK /\ \A s \in TSeq : Sent(s) => Sent(s)'
    BY <1>a, LogsGrow DEF Sent, IInv, TypeOK
(* It is enough to look at what is logged and asked.                       *)
<1>c. ASSUME \A s \in TSeq :
                /\ Logged("COMMIT", s)' => Logged("COMMIT", s) \/ Sent(s)
                /\ \A r \in Replica :
                     /\ Prepared(r, s)' => Prepared(r, s) \/ (Sent(s) /\ ~Asked(r, s)')
                     /\ Asked(r, s)' => Asked(r, s) \/ ~Sent(s)
      PROVE  AskInv'
    BY <1>b, <1>c DEF AskInv
<1>1. ASSUME UNCHANGED <<tpc_log, to_replica>> PROVE AskInv'
    BY <1>1, <1>c DEF Logged, Prepared, Asked
<1>2. ASSUME NEW q \in Req, FrontendStep(q) \/ RegisterForwarded(q)
      PROVE  UNCHANGED <<tpc_log, to_replica>>
    BY <1>2 DEF FrontendStep, ReceiveFromFrontend, ForwardToPrimary, RefuseAbsent,
       RegisterForwarded, cvars
<1>3. ASSUME NEW t \in Thread, StartReplication(t) \/ ExecuteAlone(t) \/ EnqueuePrepare(t)
             \/ CheckUndecided(t) \/ SetStatus(t) \/ PrimaryEntersQueue(t) \/ PrimaryApplies(t)
             \/ PrimaryReturns(t)
      PROVE  UNCHANGED <<tpc_log, to_replica>>
    BY <1>3 DEF StartReplication, ExecuteAlone, EnqueuePrepare, CheckUndecided, SetStatus,
       PrimaryEntersQueue, PrimaryApplies, PrimaryReturns, ApplyNext, QuitUndecided, LeaveQueue,
       nvars, cvars
<1>4. ASSUME NEW t \in Thread, SendPrepare(t) PROVE AskInv'
  <2>1. PICK s0 \in TSeq : s0 = at[t] /\ Starts(t, s0)
    BY <1>4, <1>a DEF SendPrepare, Starts, Starting, Working, PC
  <2> DEFINE m == PrepareOf(s0)
  <2>2. /\ tpc_log' = [tpc_log EXCEPT ![Primary] = @ \cup {m}] /\ to_replica' = Forwarded(m)
    BY <1>4, <2>1 DEF SendPrepare, PrepareOf
  <2>3. m \in Record /\ \A s : (PrepareOf(s) = m <=> s = s0) /\ [type |-> "COMMIT", seq |-> s] # m
    BY DEF PrepareOf, Record
  <2> HIDE DEF m
  <2>4. ~Sent(s0)
    BY <1>a, <2>1 DEF VoteInv, StartInv
  <2>5. \A r \in Replica : Elems(to_replica'[r]) \subseteq Elems(to_replica[r]) \cup {m}
    BY <1>b, <2>2, <2>3, ForwardedElems
  <2>6. \A r \in Replica : tpc_log'[r] = tpc_log[r]
    BY <1>a, <2>2
  <2>7. \A s : Logged("COMMIT", s)' => Logged("COMMIT", s)
    BY <1>a, <2>2, <2>3 DEF Logged
  <2> QED BY <2>3, <2>4, <2>5, <2>6, <2>7, <1>c DEF Prepared, Asked
<1>5. ASSUME NEW t \in Thread, LogDecision(t) PROVE AskInv'
  <2>1. PICK s0 \in TSeq : s0 = at[t] /\ pc[t] = "issue"
    BY <1>5, <1>a DEF LogDecision, Working, PC
  <2> DEFINE m == [type |-> arg[t], seq |-> s0]
  <2>2. /\ tpc_log' = [tpc_log EXCEPT ![Primary] = @ \cup {m}] /\ UNCHANGED to_replica
    BY <1>5, <2>1 DEF LogDecision, cvars
  <2>3. \A s : [type |-> "COMMIT", seq |-> s] = m => arg[t] = "COMMIT" /\ s = s0
    OBVIOUS
  <2> HIDE DEF m
  <2>4. arg[t] = "COMMIT" => Sent(s0)
    BY <2>1, <1>a DEF VoteInv, PlaceInv, TokenInv, Decides, Deciding, Thread, FrontendPlaces, Starting
  <2>5. \A s : Logged("COMMIT", s)' => Logged("COMMIT", s) \/ (s = s0 /\ Sent(s0))
    BY <1>a, <2>2, <2>3, <2>4 DEF Logged
  <2>6. \A r \in Replica : tpc_log'[r] = tpc_log[r]
    BY <1>a, <2>2
  <2> QED BY <2>2, <2>5, <2>6, <1>c DEF Prepared, Asked
<1>6. ASSUME NEW t \in Thread, SendDecision(t) PROVE AskInv'
  <2> DEFINE m == [type |-> arg[t], seq |-> at[t]]
  <2>1. UNCHANGED tpc_log /\ to_replica' = Forwarded(m)
    BY <1>6 DEF SendDecision, nvars
  <2>2. arg[t] \in Decision /\ at[t] \in TSeq
    BY <1>6, <1>a DEF SendDecision, Working, PC, IInv, ThreadInv, Deciding
  <2>3. m \in Record /\ \A s : PrepareOf(s) # m
    BY <2>2 DEF PrepareOf, Record, Decision
  <2> HIDE DEF m
  <2>4. \A r \in Replica : Elems(to_replica'[r]) \subseteq Elems(to_replica[r]) \cup {m}
    BY <1>b, <2>1, <2>3, ForwardedElems
  <2> QED BY <2>1, <2>3, <2>4, <1>c DEF Prepared, Asked, Logged
<1>7. ASSUME NEW r \in Replica, ReceiveForwarded(r) \/ RefuseForwarded(r) \/ VoteStep(r)
             \/ ReplicaApplies(r) \/ ReplicaReturns(r) \/ Crash(r) \/ ClosingStep(r)
      PROVE  UNCHANGED <<tpc_log, to_replica>>
    BY <1>7 DEF ReceiveForwarded, RefuseForwarded, VoteStep, ReceiveVote, LookUpVoted, CountYes,
       PrimaryVotes, ReplicaApplies, ReplicaReturns, ApplyNext, QuitUndecided, LeaveQueue, Crash,
       ClosingStep, DropConnection, DropAlive, nvars, cvars
<1>8. ASSUME NEW r \in Replica, ReplicaVotes(r) \/ ReplicaDecides(r) PROVE AskInv'
  <2>1. PICK m \in Record : m = Head(to_replica[r])
    BY <1>8, <1>a, HeadTail DEF ReplicaVotes, ReplicaDecides, Incoming
  <2>2. /\ to_replica[r] # <<>> /\ to_replica' = [to_replica EXCEPT ![r] = Tail(to_replica[r])]
        /\ \/ UNCHANGED tpc_log
           \/ tpc_log' = [tpc_log EXCEPT ![r] = @ \cup {m}]
        /\ m.type = "PREPARE" \/ m.type \in Decision
    <3>1. m.type = "PREPARE" => m = [type |-> "PREPARE", seq |-> m.seq]
      BY DEF Record
    <3> QED BY <1>8, <2>1, <3>1 DEF ReplicaVotes, ReplicaDecides, Incoming
  <2>3. /\ m \in Elems(to_replica[r]) /\ Elems(Tail(to_replica[r])) \subseteq Elems(to_replica[r])
    BY <1>a, <2>1, <2>2, HeadTail
  <2>4. \A s \in TSeq : m = PrepareOf(s) => Sent(s) /\ ~Asked(r, s)'
    <3> SUFFICES ASSUME NEW s \in TSeq, m = PrepareOf(s) PROVE Sent(s) /\ ~Asked(r, s)'
      OBVIOUS
    <3>1. Asked(r, s)
      BY <2>3 DEF Asked
    <3>2. Sent(s)
      BY <3>1 DEF VoteInv, TokenInv
    <3>3. Once(to_replica[r], {m})
      BY DEF VoteInv, TokenInv
    <3>4. Elems(Tail(to_replica[r])) \cap {m} = {}
      BY <1>a, <2>1, <2>2, <3>3, OnceTail
    <3> QED BY <1>a, <2>2, <3>2, <3>4 DEF Asked
  <2>5. \A p \in Replica : Elems(to_replica'[p]) \subseteq Elems(to_replica[p])
    BY <1>a, <2>2, <2>3
  <2>6. /\ tpc_log'[Primary] = tpc_log[Primary]
        /\ \A p \in Replica : \A s : PrepareOf(s) \in tpc_log'[p] =>
              PrepareOf(s) \in tpc_log[p] \/ (p = r /\ m = PrepareOf(s))
    BY <1>a, <2>2
  <2> QED BY <2>4, <2>5, <2>6, <1>c DEF Prepared, Asked, Logged
<1>9. ASSUME (\E s \in TSeq : FindExpired(s)) \/ LookUpExpired \/ UNCHANGED vars
      PROVE  UNCHANGED <<tpc_log, to_replica>>
    BY <1>9 DEF FindExpired, LookUpExpired, vars, nvars, cvars
<1> QED BY <1>1, <1>2, <1>3, <1>4, <1>5, <1>6, <1>7, <1>8, <1>9
        DEF Next, CommandStep, DecisionStep, ReplicaStep


(* A step of another thread, or on another transaction, does not unlock.   *)
LEMMA KeepsFrame ==
    ASSUME VoteInv, [Next]_vars, NEW n \in Node, NEW s \in TSeq, Sent(s), Keeps(n, s),
           last_seq'[n] = last_seq[n],
           tpc_queue'[n][s] # "none" => tpc_queue[n][s] # "none",
           \A k \in Key : row_locks[n][k].st = "held" => row_locks'[n][k] = row_locks[n][k]
    PROVE  Keeps(n, s)'
<1>1. s <= tpc_seq /\ s \in 1..tpc_seq
  <2>1. PrepareOf(s) \in tpc_log[Primary] /\ PrepareOf(s).seq = s
    BY DEF Sent, PrepareOf
  <2>2. s <= tpc_seq
    BY <2>1 DEF VoteInv, StartInv
  <2> QED BY <2>2 DEF TSeq, VoteInv, IInv, TypeOK, PrimaryTypeOK
<1>2. req_of'[s] = req_of[s] /\ req_of[s] \in Req /\ KeyOf[req_of[s]] \in Key
    BY <1>1, NumbersStay, ConstantsAssumption DEF VoteInv, IInv, NumberInv
<1>3. NoReplica => NoReplica'
    BY OtherSteps DEF NoReplica, VoteInv
<1> QED BY <1>2, <1>3 DEF Keeps, Held

LEMMA ExistingKeepsHeld ==
    ASSUME NEW l, l.st = "held"
    PROVE  /\ Existing(l) = l /\ \A b : ~LockGranted(l, b)
           /\ \A b, t, s : LockAfterTry(l, b, t, s) = l
BY DEF Existing, LockGranted, LockAfterTry

(* No step takes from a node the lock of a prepared transaction that is    *)
(* the next in its queue.                                                  *)
LEMMA KeepsStays ==
    ASSUME VoteInv, AskInv, [Next]_vars, NEW n \in Node, NEW s \in TSeq, Sent(s),
           n \in Replica => Prepared(n, s), Keeps(n, s)
    PROVE  Keeps(n, s)'
<1>a. /\ IInv /\ Replica \subseteq Thread /\ Req \subseteq Thread /\ Timer \in Thread
      /\ Primary \in Node /\ Replica \subseteq Node /\ Primary \notin Replica
      /\ pc \in [Thread -> PC] /\ at \in [Thread -> 0..MaxSeq]
      /\ to_replica \in [Replica -> Seq(Record)]
      /\ \A t \in Thread : pc[t] \in Working => at[t] \in TSeq
      /\ n \in Replica \/ n = Primary
    BY VoteTypes DEF VoteInv, Node
<1>b. /\ last_seq \in [Node -> Nat] /\ next_seq \in [Node -> Nat]
      /\ tpc_queue \in [Node -> [TSeq -> Status]]
      /\ row_locks \in [Node -> [Key -> Lock]]
    BY <1>a DEF IInv, TypeOK, NodeTypeOK
<1>c. ASSUME UNCHANGED <<last_seq, tpc_queue, row_locks>> PROVE Keeps(n, s)'
    BY <1>c, KeepsFrame
<1>d. ASSUME UNCHANGED <<last_seq, tpc_queue>>, NEW m \in Node, NEW k,
             \/ UNCHANGED row_locks
             \/ row_locks' = [row_locks EXCEPT ![m][k] = Existing(@)]
      PROVE  Keeps(n, s)'
  <2>1. \A x \in Key : row_locks[n][x].st = "held" => row_locks'[n][x] = row_locks[n][x]
    BY <1>b, <1>d, ExistingKeepsHeld
  <2> QED BY <1>d, <2>1, KeepsFrame
<1>1. ASSUME NEW q \in Req, FrontendStep(q) \/ RegisterForwarded(q) PROVE Keeps(n, s)'
  <2>1. UNCHANGED <<last_seq, tpc_queue>>
    BY <1>1 DEF FrontendStep, ReceiveFromFrontend, ForwardToPrimary, RefuseAbsent,
       RegisterForwarded
  <2>2. \/ UNCHANGED row_locks
        \/ row_locks' = [row_locks EXCEPT ![Primary][KeyOf[q]] = Existing(@)]
        \/ Home[q] \in Replica /\ row_locks' = [row_locks EXCEPT ![Home[q]][KeyOf[q]] = Existing(@)]
    BY <1>1 DEF FrontendStep, ReceiveFromFrontend, ForwardToPrimary, RefuseAbsent,
       RegisterForwarded, Numbered
  <2> QED BY <2>1, <2>2, <1>a, <1>d
<1>2. ASSUME NEW r \in Replica, ReceiveForwarded(r) PROVE Keeps(n, s)'
  <2>1. /\ UNCHANGED <<last_seq, tpc_queue>>
        /\ \/ UNCHANGED row_locks
           \/ \E k : row_locks' = [row_locks EXCEPT ![Primary][k] = Existing(@)]
    BY <1>2 DEF ReceiveForwarded, Numbered
  <2> QED BY <2>1, <1>a, <1>d
<1>3. ASSUME NEW t \in Thread, ExecuteAlone(t) PROVE Keeps(n, s)'
  <2>1. CASE n = Primary
    <3>1. NoReplica'
      BY <1>3 DEF ExecuteAlone, NoReplica, pvars
    <3> QED BY <2>1, <3>1 DEF Keeps
  <2>2. CASE n \in Replica
    <3>1. UNCHANGED tpc_queue /\ last_seq'[n] = last_seq[n] /\ row_locks'[n] = row_locks[n]
      BY <1>3, <2>2, <1>a, <1>b DEF ExecuteAlone
    <3> QED BY <3>1, KeepsFrame
  <2> QED BY <2>1, <2>2, <1>a
<1>4. ASSUME NEW t \in Thread, EnqueuePrepare(t) PROVE Keeps(n, s)'
  <2>1. PICK s0 \in TSeq : s0 = at[t] /\ Starts(t, s0)
    BY <1>4, <1>a DEF EnqueuePrepare, Starts, Starting, Working, PC
  <2>2. s0 # s
    BY <2>1 DEF VoteInv, StartInv
  <2>3. /\ UNCHANGED <<last_seq, row_locks>>
        /\ tpc_queue' = [tpc_queue EXCEPT ![Primary][s0] = "PREPARE"]
    BY <1>4, <2>1 DEF EnqueuePrepare
  <2>4. tpc_queue'[n][s] = tpc_queue[n][s]
    BY <1>b, <2>2, <2>3
  <2> QED BY <2>3, <2>4, KeepsFrame
<1>5. ASSUME NEW t \in Thread, SetStatus(t) PROVE Keeps(n, s)'
  <2>1. UNCHANGED <<last_seq, row_locks>> /\ tpc_queue' = WithStatus(Primary, at[t], arg[t])
    BY <1>5 DEF SetStatus
  <2>2. tpc_queue'[n][s] # "none" => tpc_queue[n][s] # "none"
    BY <1>b, <2>1 DEF WithStatus
  <2> QED BY <2>1, <2>2, KeepsFrame
(* One transaction is applied, and the next one leaves the queue.          *)
<1>6. ASSUME NEW m \in Node, NEW t, ApplyNext(m, t), Looping(m), UNCHANGED pvars
      PROVE  Keeps(n, s)'
  <2>1. CASE m # n
    <3>1. /\ last_seq'[n] = last_seq[n] /\ row_locks'[n] = row_locks[n]
          /\ tpc_queue'[n] = tpc_queue[n]
      BY <1>6, <1>b, <2>1 DEF ApplyNext, Erased
    <3> QED BY <3>1, KeepsFrame
  <2>2. CASE m = n /\ n = Primary /\ NoReplica
    BY <1>6, <2>2 DEF Keeps, NoReplica, pvars
  <2>3. CASE m = n /\ (n = Primary => ~NoReplica)
    <3>1. PICK x \in Nat : x = next_seq[n]
      BY <1>b
    <3>2. last_seq'[n] = x /\ tpc_queue'[n] = [y \in TSeq |-> IF y = x + 1 THEN "none" ELSE tpc_queue[n][y]]
      BY <1>6, <1>b, <2>3, <3>1 DEF ApplyNext, Erased
    <3>3. last_seq'[n] + 1 = s => tpc_queue'[n][s] = "none"
      BY <3>2
    <3> QED BY <3>3 DEF Keeps
  <2> QED BY <2>1, <2>2, <2>3
<1>7. ASSUME NEW r \in Replica, PrimaryVotes(r) PROVE Keeps(n, s)'
  <2>1. PICK k, b : /\ UNCHANGED <<last_seq, tpc_queue>>
                    /\ row_locks' = [row_locks EXCEPT ![Primary][k] =
                                       LockAfterTry(row_locks[Primary][k], b, r, at[r])]
    BY <1>7 DEF PrimaryVotes
  <2>2. \A x \in Key : row_locks[n][x].st = "held" => row_locks'[n][x] = row_locks[n][x]
    BY <1>b, <2>1, ExistingKeepsHeld
  <2> QED BY <2>1, <2>2, KeepsFrame
<1>8. ASSUME NEW r \in Replica, ReplicaVotes(r) PROVE Keeps(n, s)'
  <2>1. PICK s0 \in TSeq : s0 = Head(to_replica[r]).seq /\ Asked(r, s0)
    <3>1. Head(to_replica[r]) \in Record /\ Head(to_replica[r]) \in Elems(to_replica[r])
      BY <1>8, <1>a, HeadTail DEF ReplicaVotes, Incoming
    <3>2. Head(to_replica[r]).type = "PREPARE"
      BY <1>8 DEF ReplicaVotes
    <3>3. Head(to_replica[r]) = PrepareOf(Head(to_replica[r]).seq) /\ Head(to_replica[r]).seq \in TSeq
      BY <3>1, <3>2 DEF Record, PrepareOf
    <3> QED BY <3>1, <3>3 DEF Asked
  <2>2. n = r => s0 # s
    BY <2>1 DEF AskInv
  <2>3. /\ UNCHANGED last_seq
        /\ \/ UNCHANGED <<tpc_queue, row_locks>>
           \/ /\ tpc_queue' = [tpc_queue EXCEPT ![r][s0] = "PREPARE"]
              /\ \E k, b : row_locks' = [row_locks EXCEPT ![r][k] =
                                 LockAfterTry(row_locks[r][k], b, r, s0)]
    BY <1>8, <2>1 DEF ReplicaVotes
  <2>4. tpc_queue'[n][s] = tpc_queue[n][s]
    BY <1>a, <1>b, <2>2, <2>3
  <2>5. \A x \in Key : row_locks[n][x].st = "held" => row_locks'[n][x] = row_locks[n][x]
    <3>1. CASE UNCHANGED row_locks
      BY <3>1
    <3>2. ASSUME NEW k, NEW b, row_locks' = [row_locks EXCEPT ![r][k] =
                                  LockAfterTry(row_locks[r][k], b, r, s0)]
          PROVE  \A x \in Key : row_locks[n][x].st = "held" => row_locks'[n][x] = row_locks[n][x]
      BY <1>b, <3>2, ExistingKeepsHeld
    <3> QED BY <2>3, <3>1, <3>2
  <2> QED BY <2>3, <2>4, <2>5, KeepsFrame
<1>9. ASSUME NEW r \in Replica, ReplicaDecides(r) PROVE Keeps(n, s)'
  <2>1. /\ UNCHANGED <<last_seq, row_locks>>
        /\ \/ UNCHANGED tpc_queue
           \/ \E x, d : tpc_queue' = WithStatus(r, x, d)
    BY <1>9 DEF ReplicaDecides
  <2>2. tpc_queue'[n][s] # "none" => tpc_queue[n][s] # "none"
    BY <1>b, <2>1 DEF WithStatus
  <2> QED BY <2>1, <2>2, KeepsFrame
<1>10. ASSUME NEW t \in Thread, \/ StartReplication(t) \/ SendPrepare(t) \/ CheckUndecided(t)
                                \/ LogDecision(t) \/ SendDecision(t) \/ PrimaryEntersQueue(t)
                                \/ PrimaryReturns(t)
       PROVE  UNCHANGED <<last_seq, tpc_queue, row_locks>>
    BY <1>10 DEF StartReplication, SendPrepare, CheckUndecided, LogDecision, SendDecision,
       PrimaryEntersQueue, PrimaryReturns, QuitUndecided, LeaveQueue, nvars
<1>11. ASSUME NEW r \in Replica, \/ RefuseForwarded(r) \/ ReceiveVote(r) \/ LookUpVoted(r)
                                 \/ CountYes(r) \/ ReplicaReturns(r) \/ Crash(r) \/ ClosingStep(r)
       PROVE  UNCHANGED <<last_seq, tpc_queue, row_locks>>
    BY <1>11 DEF RefuseForwarded, ReceiveVote, LookUpVoted, CountYes, ReplicaReturns, Crash,
       ClosingStep, DropConnection, DropAlive, QuitUndecided, LeaveQueue, nvars
<1>12. ASSUME (\E x \in TSeq : FindExpired(x)) \/ LookUpExpired \/ UNCHANGED vars
       PROVE  UNCHANGED <<last_seq, tpc_queue, row_locks>>
    BY <1>12 DEF FindExpired, LookUpExpired, vars, nvars
<1>13. ASSUME NEW t \in Thread, PrimaryApplies(t) PROVE Keeps(n, s)'
    BY <1>13, <1>6, <1>a DEF PrimaryApplies, Looping
<1>14. ASSUME NEW r \in Replica, ReplicaApplies(r) PROVE Keeps(n, s)'
    BY <1>14, <1>6, <1>a DEF ReplicaApplies, Looping
<1> QED BY <1>c, <1>1, <1>2, <1>3, <1>4, <1>5, <1>7, <1>8, <1>9, <1>10, <1>11, <1>12, <1>13, <1>14
        DEF Next, CommandStep, DecisionStep, VoteStep, ReplicaStep


(* It is enough to look at what is granted, decided and logged.            *)
LEMMA LockFrame ==
    ASSUME VoteInv, LogInv, AckInv, AskInv, LockInv, [Next]_vars,
           \A r \in Replica : pc'[r] = "respond" => arg'[r] = "YES",
           \A s \in TSeq : \A r \in Replica : Granted(r, s)' => Granted(r, s) \/ Keeps(r, s)',
           \A s \in TSeq \ miscounted' : \A t \in Replica : Decides(t, s)' /\ Commits(t, s)' =>
              /\ \/ Decides(t, s) /\ Commits(t, s)
                 \/ Sent(s) /\ \A r \in Replica : up[r] => Granted(r, s) \/ Keeps(r, s)'
              /\ pc'[t] # "getlock" =>
                   \/ Decides(t, s) /\ Commits(t, s) /\ pc[t] # "getlock"
                   \/ Keeps(Primary, s)',
           \A s \in TSeq \ miscounted' : Logged("COMMIT", s)' =>
              \/ Logged("COMMIT", s)
              \/ \E t \in Replica : Decides(t, s) /\ Commits(t, s) /\ pc[t] # "getlock"
    PROVE  LockInv'
<1>a. Primary \in Node /\ Replica \subseteq Node /\ Primary \notin Replica /\ Replica \subseteq Thread
      /\ miscounted \subseteq miscounted' /\ \A r \in Replica : up'[r] => up[r]
    BY VoteTypes, LogsGrow DEF VoteInv
<1>1. ASSUME NEW r \in Replica, NEW s \in TSeq, Granted(r, s) PROVE Keeps(r, s)'
  <2>1. Prepared(r, s) /\ Sent(s)
    <3>1. VoteOn(TRUE, s) \in VotesOn(s)
      BY DEF VoteOn, VotesOn
    <3>2. Voted(r, s) \/ Handles(r, s) \/ Counted(r, s)
      BY <1>1, <3>1 DEF Granted, Voted
    <3> QED BY <3>2 DEF VoteInv, TokenInv
  <2> QED BY <1>a, <1>1, <2>1, KeepsStays DEF LockInv
<1>2. ASSUME NEW s \in TSeq, Sent(s), Keeps(Primary, s) PROVE Keeps(Primary, s)'
    BY <1>a, <1>2, KeepsStays
<1>3. ASSUME NEW s \in TSeq, s \notin miscounted, Sent(s), Everywhere(s),
             \A r \in Replica : up[r] => Keeps(r, s), NEW r \in Replica, up'[r]
      PROVE  Keeps(r, s)'
    BY <1>a, <1>3, KeepsStays DEF Everywhere
<1>4. ASSUME NEW s \in TSeq \ miscounted', NEW t \in Replica, Decides(t, s), Commits(t, s)
      PROVE  /\ \A r \in Replica : up'[r] => Keeps(r, s)'
             /\ pc[t] # "getlock" => Keeps(Primary, s)'
  <2>1. Sent(s) /\ Everywhere(s) /\ s \in TSeq \ miscounted
    BY <1>4, <1>a DEF VoteInv, TokenInv, AckInv
  <2> QED BY <1>2, <1>3, <1>4, <2>1 DEF LockInv
<1>5. ASSUME NEW s \in TSeq \ miscounted', Logged("COMMIT", s)
      PROVE  Keeps(Primary, s)' /\ \A r \in Replica : up'[r] => Keeps(r, s)'
  <2>1. Sent(s) /\ Everywhere(s) /\ s \in TSeq \ miscounted
    BY <1>5, <1>a DEF AskInv, AckInv
  <2> QED BY <1>2, <1>3, <1>5, <2>1 DEF LockInv
<1>6. \A s \in TSeq : \A r \in Replica : Granted(r, s)' => Keeps(r, s)'
    BY <1>1
<1>7. \A s \in TSeq \ miscounted' : \A t \in Replica : Decides(t, s)' /\ Commits(t, s)' =>
         /\ \A r \in Replica : up'[r] => Keeps(r, s)'
         /\ pc'[t] # "getlock" => Keeps(Primary, s)'
    BY <1>a, <1>1, <1>4
<1>8. \A s \in TSeq \ miscounted' : Logged("COMMIT", s)' =>
         Keeps(Primary, s)' /\ \A r \in Replica : up'[r] => Keeps(r, s)'
    BY <1>4, <1>5
<1> QED BY <1>6, <1>7, <1>8 DEF LockInv

LEMMA NextLockInv ==
    VoteInv /\ LogInv /\ AckInv /\ AskInv /\ LockInv /\ [Next]_vars => LockInv'
<1> SUFFICES ASSUME VoteInv, LogInv, AckInv, AskInv, LockInv, [Next]_vars PROVE LockInv'
    OBVIOUS
<1>a. /\ IInv /\ Replica \subseteq Thread /\ Req \subseteq Thread /\ Timer \in Thread
      /\ Timer \notin Replica /\ Replica \cap Req = {}
      /\ Primary \in Node /\ Replica \subseteq Node /\ Primary \notin Replica
      /\ pc \in [Thread -> PC] /\ at \in [Thread -> 0..MaxSeq]
      /\ arg \in [Thread -> {"none", "YES", "NO"} \cup Decision]
      /\ tpc_log \in [Node -> SUBSET Record]
      /\ tpc_responses \in [TSeq -> SUBSET Replica]
      /\ to_primary \in [Replica -> Seq(Vote \cup Command)]
      /\ \A t \in Thread : pc[t] \in Working => at[t] \in TSeq
    BY VoteTypes DEF VoteInv
<1>b. row_locks \in [Node -> [Key -> Lock]] /\ tpc_queue \in [Node -> [TSeq -> Status]]
      /\ miscounted \subseteq miscounted'
    BY <1>a, LogsGrow DEF IInv, TypeOK, NodeTypeOK
(* It is enough that no vote is cast, counted or added to.                 *)
<1>c. ASSUME UNCHANGED tpc_responses,
             tpc_log'[Primary] = tpc_log[Primary],
             \A r \in Replica : \A s \in TSeq :
                VoteOn(TRUE, s) \in Elems(to_primary'[r]) => VoteOn(TRUE, s) \in Elems(to_primary[r]),
             \A r \in Replica : \/ at'[r] = at[r] /\ pc'[r] = pc[r] /\ arg'[r] = arg[r]
                                \/ pc'[r] \notin {"lookup", "respond", "getlock", "check", "issue"}
      PROVE  LockInv'
  <2>1. \A r \in Replica : pc'[r] = "respond" => arg'[r] = "YES"
    BY <1>c DEF LockInv
  <2>2. \A s \in TSeq : \A r \in Replica : Granted(r, s)' => Granted(r, s)
    BY <1>c DEF Granted, Handles, Counted
  <2>3. \A s \in TSeq : \A t \in Replica : Decides(t, s)' /\ Commits(t, s)' =>
           Decides(t, s) /\ Commits(t, s) /\ pc'[t] = pc[t]
    BY <1>c DEF Decides, Commits
  <2>4. \A s \in TSeq : Logged("COMMIT", s)' <=> Logged("COMMIT", s)
    BY <1>c DEF Logged
  <2> QED BY <2>1, <2>2, <2>3, <2>4, LockFrame


<1>d. ASSUME UNCHANGED to_primary
      PROVE  \A r \in Replica : \A s \in TSeq :
                VoteOn(TRUE, s) \in Elems(to_primary'[r]) <=> VoteOn(TRUE, s) \in Elems(to_primary[r])
    BY <1>d
<1>1. ASSUME NEW q \in Req, ReceiveFromFrontend(q) \/ RefuseAbsent(q) \/ RegisterForwarded(q)
      PROVE  LockInv'
  <2>1. /\ UNCHANGED <<tpc_responses, tpc_log, to_primary>>
        /\ \A r \in Replica : at'[r] = at[r] /\ pc'[r] = pc[r] /\ arg'[r] = arg[r]
    BY <1>1, <1>a DEF ReceiveFromFrontend, Numbered, RefuseAbsent, RegisterForwarded, Goto,
       pvars, cvars
  <2> QED BY <2>1, <1>c, <1>d
<1>2. ASSUME NEW q \in Req, ForwardToPrimary(q) PROVE LockInv'
  <2>1. /\ UNCHANGED <<tpc_responses, tpc_log, at, arg>> /\ Home[q] \in Replica
        /\ to_primary' = [to_primary EXCEPT ![Home[q]] =
                            Append(@, [type |-> "CMD", seq |-> 0, req |-> q])]
        /\ \A r \in Replica : pc'[r] = pc[r]
    BY <1>2, <1>a DEF ForwardToPrimary, Goto, pvars
  <2>2. [type |-> "CMD", seq |-> 0, req |-> q] \in Vote \cup Command
    BY DEF Command
  <2>3. \A s : [type |-> "CMD", seq |-> 0, req |-> q] # VoteOn(TRUE, s)
    BY DEF VoteOn
  <2>4. \A r \in Replica : \A s \in TSeq :
           VoteOn(TRUE, s) \in Elems(to_primary'[r]) => VoteOn(TRUE, s) \in Elems(to_primary[r])
    <3> DEFINE m == [type |-> "CMD", seq |-> 0, req |-> q]
    <3>1. to_primary[Home[q]] \in Seq(Vote \cup Command) /\ m \in Vote \cup Command
      BY <1>a, <2>1, <2>2
    <3> HIDE DEF m
    <3>2. Elems(Append(to_primary[Home[q]], m)) = Elems(to_primary[Home[q]]) \cup {m}
      BY <3>1, AppendElems
    <3> QED BY <1>a, <2>1, <2>3, <3>2 DEF m
  <2> QED BY <2>1, <2>4, <1>a, <1>c
<1>3. ASSUME NEW t \in Thread, CommandStep(t) PROVE LockInv'
  <2>1. /\ UNCHANGED <<tpc_responses, to_primary>>
        /\ \A r \in Replica : \/ at'[r] = at[r] /\ pc'[r] = pc[r] /\ arg'[r] = arg[r]
                              \/ pc'[r] \notin {"lookup", "respond", "getlock", "check", "issue"}
    BY <1>3, <1>a DEF CommandStep, StartReplication, ExecuteAlone, EnqueuePrepare, SendPrepare,
       Goto, Return, pvars, nvars, cvars
  <2>2. \A s \in TSeq : Logged("COMMIT", s)' <=> Logged("COMMIT", s)
    <3> DEFINE m == PrepareOf(at[t])
    <3>1. \/ tpc_log'[Primary] = tpc_log[Primary]
          \/ tpc_log'[Primary] = tpc_log[Primary] \cup {m}
      BY <1>3, <1>a DEF CommandStep, StartReplication, ExecuteAlone, EnqueuePrepare, SendPrepare,
         PrepareOf, nvars
    <3>2. \A s : [type |-> "COMMIT", seq |-> s] # m
      BY DEF PrepareOf
    <3> HIDE DEF m
    <3> QED BY <3>1, <3>2 DEF Logged
  <2>3. \A r \in Replica : pc'[r] = "respond" => arg'[r] = "YES"
    BY <2>1 DEF LockInv
  <2>4. \A s \in TSeq : \A r \in Replica : Granted(r, s)' => Granted(r, s)
    BY <2>1 DEF Granted, Handles, Counted
  <2>5. \A s \in TSeq : \A r \in Replica : Decides(r, s)' /\ Commits(r, s)' =>
           Decides(r, s) /\ Commits(r, s) /\ pc'[r] = pc[r]
    BY <2>1 DEF Decides, Commits
  <2> QED BY <2>2, <2>3, <2>4, <2>5, LockFrame
<1>4. ASSUME NEW t \in Thread, CheckUndecided(t) PROVE LockInv'
  <2>1. UNCHANGED <<tpc_responses, tpc_log, to_primary>>
    BY <1>4 DEF CheckUndecided, pvars, nvars, cvars
  <2>2. \A r \in Replica : \/ at'[r] = at[r] /\ pc'[r] = pc[r] /\ arg'[r] = arg[r]
                           \/ pc'[r] = "idle"
                           \/ at'[r] = at[r] /\ pc[r] = "check" /\ pc'[r] = "issue" /\ arg'[r] = arg[r]
    BY <1>4, <1>a DEF CheckUndecided, Goto, Return
  <2>3. \A r \in Replica : pc'[r] = "respond" => arg'[r] = "YES"
    BY <2>2 DEF LockInv
  <2>4. \A s \in TSeq : \A r \in Replica : Granted(r, s)' => Granted(r, s)
    BY <2>1, <2>2 DEF Granted, Handles, Counted
  <2>5. \A s \in TSeq : \A r \in Replica : Decides(r, s)' /\ Commits(r, s)' =>
           Decides(r, s) /\ Commits(r, s) /\ (pc'[r] # "getlock" => pc[r] # "getlock")
    BY <2>2 DEF Decides, Commits, Deciding
  <2>6. \A s \in TSeq : Logged("COMMIT", s)' <=> Logged("COMMIT", s)
    BY <2>1 DEF Logged
  <2> QED BY <2>3, <2>4, <2>5, <2>6, LockFrame
<1>5. ASSUME NEW t \in Thread, LogDecision(t) PROVE LockInv'
  <2>1. PICK s0 \in TSeq : s0 = at[t] /\ pc[t] = "issue"
    BY <1>5, <1>a DEF LogDecision, Working, PC
  <2> DEFINE m == [type |-> arg[t], seq |-> s0]
  <2>2. /\ tpc_log'[Primary] = tpc_log[Primary] \cup {m} /\ UNCHANGED <<to_primary, at, arg>>
        /\ tpc_responses' = [tpc_responses EXCEPT ![s0] = {}]
        /\ \A r \in Replica : pc'[r] = IF r = t THEN "send" ELSE pc[r]
    BY <1>5, <2>1, <1>a DEF LogDecision, Goto, cvars
  <2>3. \A s : [type |-> "COMMIT", seq |-> s] = m => arg[t] = "COMMIT" /\ s = s0
    OBVIOUS
  <2>4. arg[t] = "COMMIT" => t \in Replica /\ Decides(t, s0) /\ Commits(t, s0) /\ pc[t] # "getlock"
    BY <2>1, <1>a DEF VoteInv, PlaceInv, Decides, Commits, Deciding, Thread, FrontendPlaces, Starting
  <2> HIDE DEF m
  <2>5. \A s \in TSeq : Logged("COMMIT", s)' => \/ Logged("COMMIT", s)
           \/ \E r \in Replica : Decides(r, s) /\ Commits(r, s) /\ pc[r] # "getlock"
    BY <2>2, <2>3, <2>4 DEF Logged
  <2>6. \A r \in Replica : pc'[r] = "respond" => arg'[r] = "YES"
    BY <2>2 DEF LockInv
  <2>7. \A s \in TSeq : tpc_responses'[s] \subseteq tpc_responses[s]
    BY <1>a, <2>2
  <2>8. \A s \in TSeq : \A r \in Replica : Granted(r, s)' => Granted(r, s)
    BY <2>2, <2>7 DEF Granted, Handles, Counted
  <2>9. \A s \in TSeq : \A r \in Replica : Decides(r, s)' /\ Commits(r, s)' =>
           Decides(r, s) /\ Commits(r, s) /\ pc'[r] = pc[r]
    BY <2>2 DEF Decides, Commits, Deciding
  <2> QED BY <2>5, <2>6, <2>8, <2>9, LockFrame
<1>6. ASSUME NEW t \in Thread, SendDecision(t) \/ SetStatus(t) \/ PrimaryEntersQueue(t)
             \/ PrimaryApplies(t) \/ PrimaryReturns(t)
      PROVE  LockInv'
  <2>1. UNCHANGED <<tpc_responses, tpc_log, to_primary>>
    BY <1>6 DEF SendDecision, SetStatus, PrimaryEntersQueue, PrimaryApplies, PrimaryReturns,
       ApplyNext, QuitUndecided, LeaveQueue, pvars, nvars, cvars
  <2>2. \A r \in Replica : \/ at'[r] = at[r] /\ pc'[r] = pc[r] /\ arg'[r] = arg[r]
                           \/ pc'[r] \notin {"lookup", "respond", "getlock", "check", "issue"}
    BY <1>6, <1>a DEF SendDecision, SetStatus, PrimaryEntersQueue, PrimaryApplies, PrimaryReturns,
       Goto, Return, tvars
  <2> QED BY <2>1, <2>2, <1>c, <1>d
<1>7. ASSUME NEW r \in Replica, ReceiveForwarded(r) \/ RefuseForwarded(r) PROVE LockInv'
  <2>1. /\ UNCHANGED <<tpc_responses, tpc_log>> /\ to_primary[r] # <<>>
        /\ to_primary' = [to_primary EXCEPT ![r] = Tail(@)]
    BY <1>7 DEF ReceiveForwarded, RefuseForwarded, pvars, nvars
  <2>2. \A p \in Replica : \/ at'[p] = at[p] /\ pc'[p] = pc[p] /\ arg'[p] = arg[p]
                           \/ pc'[p] \notin {"lookup", "respond", "getlock", "check", "issue"}
    BY <1>7, <1>a DEF ReceiveForwarded, Numbered, RefuseForwarded, Goto, tvars
  <2>3. \A p \in Replica : Elems(to_primary'[p]) \subseteq Elems(to_primary[p])
    BY <1>a, <2>1, HeadTail
  <2> QED BY <2>1, <2>2, <2>3, <1>c
(* A YES is taken from the connection.                                     *)
<1>8. ASSUME NEW r \in Replica, ReceiveVote(r) PROVE LockInv'
  <2>1. PICK m \in Vote \cup Command : m = Head(to_primary[r]) /\ m \in Elems(to_primary[r])
    BY <1>8, <1>a, HeadTail DEF ReceiveVote
  <2>2. /\ UNCHANGED <<tpc_responses, tpc_log>> /\ to_primary[r] # <<>> /\ m.type \in {"YES", "NO"}
        /\ to_primary' = [to_primary EXCEPT ![r] = Tail(@)]
        /\ \A p \in Replica : \/ at'[p] = at[p] /\ pc'[p] = pc[p] /\ arg'[p] = arg[p]
                              \/ p = r /\ pc'[p] = "lookup" /\ arg'[p] = m.type /\ at'[p] = m.seq
    BY <1>8, <2>1, <1>a DEF ReceiveVote, Goto, pvars, nvars
  <2>3. \A p \in Replica : Elems(to_primary'[p]) \subseteq Elems(to_primary[p])
    BY <1>a, <2>2, HeadTail
  <2>4. m.type = "YES" => m = VoteOn(TRUE, m.seq)
    BY <2>1, <2>2 DEF VoteOn, Vote, Command
  <2>5. \A p \in Replica : pc'[p] = "respond" => arg'[p] = "YES"
    BY <2>2 DEF LockInv
  <2>6. \A s \in TSeq : \A p \in Replica : Granted(p, s)' => Granted(p, s)
    BY <2>1, <2>2, <2>3, <2>4 DEF Granted, Handles, Counted
  <2>7. \A s \in TSeq : \A p \in Replica : Decides(p, s)' /\ Commits(p, s)' =>
           Decides(p, s) /\ Commits(p, s) /\ pc'[p] = pc[p]
    BY <2>2 DEF Decides, Commits, Deciding
  <2>8. \A s \in TSeq : Logged("COMMIT", s)' <=> Logged("COMMIT", s)
    BY <2>2 DEF Logged
  <2> QED BY <2>5, <2>6, <2>7, <2>8, LockFrame
<1>9. ASSUME NEW r \in Replica, LookUpVoted(r) PROVE LockInv'
  <2>1. /\ UNCHANGED <<tpc_responses, tpc_log, to_primary>>
        /\ \A p \in Replica : p # r => at'[p] = at[p] /\ pc'[p] = pc[p] /\ arg'[p] = arg[p]
        /\ pc[r] = "lookup"
        /\ \/ pc'[r] = "idle"
           \/ pc'[r] = "respond" /\ arg[r] = "YES" /\ arg'[r] = arg[r] /\ at'[r] = at[r]
           \/ pc'[r] = "check" /\ arg'[r] = "ABORT"
    BY <1>9, <1>a DEF LookUpVoted, Goto, Return, pvars, nvars, cvars
  <2>2. \A p \in Replica : pc'[p] = "respond" => arg'[p] = "YES"
    BY <2>1 DEF LockInv
  <2>3. \A s \in TSeq : \A p \in Replica : Granted(p, s)' => Granted(p, s)
    BY <2>1 DEF Granted, Handles, Counted
  <2>4. \A s \in TSeq : \A p \in Replica : Decides(p, s)' /\ Commits(p, s)' =>
           Decides(p, s) /\ Commits(p, s) /\ pc'[p] = pc[p]
    BY <2>1 DEF Decides, Commits, Deciding
  <2>5. \A s \in TSeq : Logged("COMMIT", s)' <=> Logged("COMMIT", s)
    BY <2>1 DEF Logged
  <2> QED BY <2>2, <2>3, <2>4, <2>5, LockFrame
<1>10. ASSUME NEW r \in Replica, CountYes(r) PROVE LockInv'
  <2>1. PICK s0 \in TSeq : s0 = at[r] /\ Handles(r, s0) /\ pc[r] = "respond" /\ arg[r] = "YES"
    BY <1>10, <1>a DEF CountYes, Handles, Working, PC, LockInv
  <2>2. PICK responses : responses = tpc_responses[s0] \cup {r}
    OBVIOUS
  <2>3. /\ UNCHANGED <<tpc_log, to_primary>>
        /\ miscounted' = miscounted \cup {x \in {s0} : DroppedVoteCounted(responses, s0)}
        /\ tpc_responses' = [tpc_responses EXCEPT ![s0] = responses]
        /\ \A p \in Replica : p # r => at'[p] = at[p] /\ pc'[p] = pc[p] /\ arg'[p] = arg[p]
        /\ \/ pc'[r] = "idle"
           \/ pc'[r] = "getlock" /\ at'[r] = s0 /\ EnoughVotes(responses, s0)
    BY <1>10, <1>a, <2>1, <2>2 DEF CountYes, Goto, Return, nvars, cvars
  <2>4. \A p \in Replica : pc'[p] = "respond" => arg'[p] = "YES"
    BY <2>1, <2>3 DEF LockInv
  <2>5. Granted(r, s0)
    BY <2>1 DEF Granted
  <2>6. \A p \in responses : Granted(p, s0)
    BY <2>2, <2>5 DEF Granted, Counted
  <2>7. \A s \in TSeq : \A p \in Replica : Counted(p, s)' => Counted(p, s) \/ (s = s0 /\ p \in responses)
    BY <1>a, <2>3 DEF Counted
  <2>8. \A s \in TSeq : \A p \in Replica : Handles(p, s)' /\ arg'[p] = "YES" => Handles(p, s) /\ arg[p] = "YES"
    BY <2>3 DEF Handles
  <2>9. \A s \in TSeq : \A p \in Replica : Granted(p, s)' => Granted(p, s)
    BY <2>3, <2>6, <2>7, <2>8 DEF Granted
  <2>10. EnoughVotes(responses, s0) /\ s0 \notin miscounted' =>
            Sent(s0) /\ \A p \in Replica : up[p] => Granted(p, s0)
    <3>1. Sent(s0)
      BY <2>1 DEF VoteInv, TokenInv
    <3>2. \A p \in Replica : up[p] => p \in alive_replicas
      BY DEF VoteInv, PlaceInv
    <3>3. EnoughVotes(responses, s0) /\ ~DroppedVoteCounted(responses, s0)
             => alive_replicas \subseteq responses
      BY <1>a, <2>1, <2>2, FullCount DEF VoteInv
    <3> QED BY <2>3, <2>6, <3>1, <3>2, <3>3
  <2>11. \A s \in TSeq \ miscounted' : \A t \in Replica : Decides(t, s)' /\ Commits(t, s)' =>
            \/ Decides(t, s) /\ Commits(t, s) /\ pc'[t] = pc[t]
            \/ /\ pc'[t] = "getlock"
               /\ Sent(s) /\ \A p \in Replica : up[p] => Granted(p, s)
    BY <2>3, <2>10 DEF Decides, Commits, Deciding
  <2>12. \A s \in TSeq : Logged("COMMIT", s)' <=> Logged("COMMIT", s)
    BY <2>3 DEF Logged
  <2> QED BY <2>4, <2>9, <2>11, <2>12, LockFrame
(* The primary adds its own lock.                                          *)
<1>11. ASSUME NEW r \in Replica, PrimaryVotes(r) PROVE LockInv'
  <2>1. PICK s0 \in TSeq : s0 = at[r] /\ pc[r] = "getlock"
    BY <1>11, <1>a DEF PrimaryVotes, Working, PC
  <2>2. Sent(s0)
    BY <2>1 DEF VoteInv, TokenInv, Decides
  <2>3. req_of' = req_of /\ KeyOf[req_of[s0]] \in Key
    <3>1. s0 <= tpc_seq /\ s0 \in 1..tpc_seq
      <4>1. PrepareOf(s0) \in tpc_log[Primary] /\ PrepareOf(s0).seq = s0
        BY <2>2 DEF Sent, PrepareOf
      <4> QED BY <4>1, <1>a DEF VoteInv, StartInv, TSeq, IInv, TypeOK, PrimaryTypeOK
    <3> QED BY <3>1, <1>11, ConstantsAssumption DEF PrimaryVotes, pvars, VoteInv, IInv, NumberInv
  <2>4. /\ UNCHANGED <<tpc_responses, tpc_log, to_primary, at>>
        /\ pc' = [pc EXCEPT ![r] = "check"]
        /\ \/ arg' = [arg EXCEPT ![r] = "ABORT"]
           \/ /\ arg' = [arg EXCEPT ![r] = "COMMIT"]
              /\ row_locks' = [row_locks EXCEPT ![Primary][KeyOf[req_of[s0]]] =
                                 [st |-> "held", by |-> r, for |-> s0]]
    BY <1>11, <2>1 DEF PrimaryVotes, Goto, LockAfterTry, pvars, cvars
  <2>5. arg'[r] = "COMMIT" => Keeps(Primary, s0)'
    BY <1>a, <1>b, <2>3, <2>4 DEF Keeps, Held
  <2>6. \A p \in Replica : \/ p # r /\ pc'[p] = pc[p] /\ arg'[p] = arg[p]
                           \/ p = r /\ pc'[p] = "check"
    BY <1>a, <2>4
  <2>7. \A p \in Replica : pc'[p] = "respond" => arg'[p] = "YES"
    BY <2>6 DEF LockInv
  <2>8. \A s \in TSeq : \A p \in Replica : Granted(p, s)' => Granted(p, s)
    BY <2>4, <2>6 DEF Granted, Handles, Counted
  <2>9. \A s \in TSeq : \A p \in Replica : Decides(p, s)' /\ Commits(p, s)' =>
           /\ Decides(p, s) /\ Commits(p, s)
           /\ \/ p # r /\ pc'[p] = pc[p]
              \/ p = r /\ s = s0 /\ arg'[r] = "COMMIT"
    BY <2>1, <2>4, <2>6 DEF Decides, Commits, Deciding
  <2>10. \A s \in TSeq : Logged("COMMIT", s)' <=> Logged("COMMIT", s)
    BY <2>4 DEF Logged
  <2> QED BY <2>5, <2>7, <2>8, <2>9, <2>10, LockFrame
(* A replica votes YES when it gets the lock.                              *)
<1>12. ASSUME NEW r \in Replica, ReplicaVotes(r) PROVE LockInv'
  <2>1. PICK s0 \in TSeq : s0 = Head(to_replica[r]).seq /\ Asked(r, s0)
    <3>1. to_replica[r] \in Seq(Record) /\ to_replica[r] # <<>>
      BY <1>12, VoteTypes, <1>a DEF ReplicaVotes, Incoming
    <3>2. Head(to_replica[r]) \in Record /\ Head(to_replica[r]) \in Elems(to_replica[r])
      BY <3>1, HeadTail
    <3>3. Head(to_replica[r]).type = "PREPARE"
      BY <1>12 DEF ReplicaVotes
    <3>4. Head(to_replica[r]) = PrepareOf(Head(to_replica[r]).seq) /\ Head(to_replica[r]).seq \in TSeq
      BY <3>2, <3>3 DEF Record, PrepareOf
    <3> QED BY <3>2, <3>4 DEF Asked
  <2>2. Sent(s0)
    BY <2>1 DEF VoteInv, TokenInv
  <2>3. req_of' = req_of /\ KeyOf[req_of[s0]] \in Key
    <3>1. s0 <= tpc_seq /\ s0 \in 1..tpc_seq
      <4>1. PrepareOf(s0) \in tpc_log[Primary] /\ PrepareOf(s0).seq = s0
        BY <2>2 DEF Sent, PrepareOf
      <4> QED BY <4>1, <1>a DEF VoteInv, StartInv, TSeq, IInv, TypeOK, PrimaryTypeOK
    <3> QED BY <3>1, <1>12, ConstantsAssumption DEF ReplicaVotes, pvars, VoteInv, IInv, NumberInv
  <2>4. UNCHANGED <<tpc_responses, pc, at, arg>>
    BY <1>12 DEF ReplicaVotes, pvars, tvars
  <2>5. tpc_log'[Primary] = tpc_log[Primary]
    BY <1>12, <1>a DEF ReplicaVotes
  <2>6. \/ UNCHANGED to_primary
        \/ to_primary' = [to_primary EXCEPT ![r] = Append(@, VoteOn(FALSE, s0))]
        \/ /\ to_primary' = [to_primary EXCEPT ![r] = Append(@, VoteOn(TRUE, s0))]
           /\ row_locks' = [row_locks EXCEPT ![r][KeyOf[req_of[s0]]] =
                                 [st |-> "held", by |-> r, for |-> s0]]
    BY <1>12, <2>1 DEF ReplicaVotes, LockAfterTry
  <2>7. \A s \in TSeq : \A p \in Replica : VoteOn(TRUE, s) \in Elems(to_primary'[p]) =>
           \/ VoteOn(TRUE, s) \in Elems(to_primary[p])
           \/ p = r /\ s = s0 /\ Keeps(r, s0)'
    <3>1. \A b \in BOOLEAN : VoteOn(b, s0) \in Vote \cup Command
      BY DEF VoteOn, Vote
    <3>2. \A b \in BOOLEAN : Elems(Append(to_primary[r], VoteOn(b, s0))) =
                                Elems(to_primary[r]) \cup {VoteOn(b, s0)}
      <4> SUFFICES ASSUME NEW b \in BOOLEAN
                   PROVE  Elems(Append(to_primary[r], VoteOn(b, s0))) =
                             Elems(to_primary[r]) \cup {VoteOn(b, s0)}
        OBVIOUS
      <4>1. VoteOn(b, s0) \in Vote \cup Command /\ to_primary[r] \in Seq(Vote \cup Command)
        BY <3>1, <1>a
      <4> QED BY <4>1, AppendElems
    <3>3. \A s : VoteOn(TRUE, s) # VoteOn(FALSE, s0) /\ (VoteOn(TRUE, s) = VoteOn(TRUE, s0) => s = s0)
      BY DEF VoteOn
    <3>4. CASE UNCHANGED to_primary
      BY <3>4
    <3>5. CASE to_primary' = [to_primary EXCEPT ![r] = Append(@, VoteOn(FALSE, s0))]
      BY <1>a, <3>2, <3>3, <3>5
    <3>6. CASE /\ to_primary' = [to_primary EXCEPT ![r] = Append(@, VoteOn(TRUE, s0))]
               /\ row_locks' = [row_locks EXCEPT ![r][KeyOf[req_of[s0]]] =
                                     [st |-> "held", by |-> r, for |-> s0]]
      <4>1. Keeps(r, s0)'
        BY <1>a, <1>b, <2>3, <3>6 DEF Keeps, Held
      <4> QED BY <1>a, <3>2, <3>3, <3>6, <4>1
    <3> QED BY <2>6, <3>4, <3>5, <3>6
  <2>8. \A p \in Replica : pc'[p] = "respond" => arg'[p] = "YES"
    BY <2>4 DEF LockInv
  <2>9. \A s \in TSeq : \A p \in Replica : Granted(p, s)' => Granted(p, s) \/ Keeps(p, s)'
    BY <2>4, <2>7 DEF Granted, Handles, Counted
  <2>10. \A s \in TSeq : \A p \in Replica : Decides(p, s)' /\ Commits(p, s)' =>
            Decides(p, s) /\ Commits(p, s) /\ pc'[p] = pc[p]
    BY <2>4 DEF Decides, Commits
  <2>11. \A s \in TSeq : Logged("COMMIT", s)' <=> Logged("COMMIT", s)
    BY <2>5 DEF Logged
  <2> QED BY <2>8, <2>9, <2>10, <2>11, LockFrame
<1>13. ASSUME NEW r \in Replica, \/ ReplicaDecides(r) \/ ReplicaApplies(r) \/ ReplicaReturns(r)
                                 \/ Crash(r) \/ ClosingStep(r)
       PROVE  LockInv'
  <2>1. UNCHANGED <<tpc_responses, to_primary>> /\ tpc_log'[Primary] = tpc_log[Primary]
    BY <1>13, <1>a DEF ReplicaDecides, ReplicaApplies, ReplicaReturns, ApplyNext, QuitUndecided,
       LeaveQueue, Crash, ClosingStep, DropConnection, DropAlive, pvars, nvars, cvars
  <2>2. \A p \in Replica : \/ at'[p] = at[p] /\ pc'[p] = pc[p] /\ arg'[p] = arg[p]
                           \/ pc'[p] \notin {"lookup", "respond", "getlock", "check", "issue"}
    BY <1>13, <1>a DEF ReplicaDecides, ReplicaApplies, ReplicaReturns, Crash, ClosingStep,
       DropConnection, DropAlive, Goto, tvars
  <2> QED BY <2>1, <2>2, <1>c, <1>d
<1>14. ASSUME (\E s \in TSeq : FindExpired(s)) \/ LookUpExpired \/ UNCHANGED vars PROVE LockInv'
  <2>1. /\ UNCHANGED <<tpc_responses, to_primary, tpc_log>>
        /\ \A p \in Replica : at'[p] = at[p] /\ pc'[p] = pc[p] /\ arg'[p] = arg[p]
    BY <1>14, <1>a DEF FindExpired, LookUpExpired, Goto, Return, vars, pvars, nvars, cvars, tvars
  <2> QED BY <2>1, <1>c, <1>d
<1> QED BY <1>1, <1>2, <1>3, <1>4, <1>5, <1>6, <1>7, <1>8, <1>9, <1>10, <1>11, <1>12, <1>13, <1>14
        DEF Next, FrontendStep, DecisionStep, VoteStep, ReplicaStep

LEMMA LocksAreKept == Spec => [](VoteInv /\ TableInv /\ AskInv /\ LockInv)
<1>1. Init => AskInv /\ LockInv
    BY InitLockInv
<1>2. VoteInv /\ AskInv /\ [Next]_vars => AskInv'
    BY NextAskInv
<1>3. VoteInv /\ LogInv /\ AckInv /\ AskInv /\ LockInv /\ [Next]_vars => LockInv'
    BY NextLockInv
<1> QED BY <1>1, <1>2, <1>3, CommitsArePrepared, TablesAreKept, PTL DEF Spec

(* Unless a vote was miscounted, whoever executes a transaction, primary   *)
(* or replica, holds its row lock, which execute_command relies on; only a *)
(* primary without replicas needs no lock for what it has left in its      *)
(* queue.                                                                  *)
THEOREM LocksAreHeld == Spec /\ [](miscounted = {}) => ExecutesUnderLock
<1>1. ASSUME VoteInv, TableInv, LockInv, miscounted = {}, [Next]_vars,
             NEW n \in Node, hist'[n] # hist[n], hist'[n][Len(hist'[n])].dec = "COMMIT"
      PROVE  LET e == hist'[n][Len(hist'[n])]
                 l == row_locks[n][KeyOf[e.req]]
             IN  \/ l.st = "held" /\ l.for = e.seq
                 \/ NoReplica
  <2>a. /\ IInv /\ Primary \in Node /\ Replica \subseteq Node /\ Primary \notin Replica
        /\ last_seq \in [Node -> Nat] /\ hist \in [Node -> Seq(Entry)]
    BY <1>1, VoteTypes DEF VoteInv, IInv, TypeOK, NodeTypeOK
  <2>1. \/ \E t \in Thread : ExecuteAlone(t) \/ PrimaryApplies(t)
        \/ \E r \in Replica : ReplicaApplies(r)
    <3>1. ASSUME NEW t \in Thread, PrimaryEntersQueue(t) \/ PrimaryReturns(t) PROVE UNCHANGED hist
      BY <3>1 DEF PrimaryEntersQueue, PrimaryReturns, QuitUndecided, LeaveQueue
    <3>2. ASSUME NEW r \in Replica, ReplicaDecides(r) \/ ReplicaReturns(r) PROVE UNCHANGED hist
      BY <3>2 DEF ReplicaDecides, ReplicaReturns, QuitUndecided, LeaveQueue
    <3> QED BY <1>1, <2>a, <3>1, <3>2, OtherSteps DEF QueueStep
  <2>2. ASSUME NEW t, ApplyNext(n, t), Looping(n), n = Primary \/ up[n], ~NoReplica
        PROVE  LET e == hist'[n][Len(hist'[n])]
                   l == row_locks[n][KeyOf[e.req]]
               IN  l.st = "held" /\ l.for = e.seq
    <3>1. PICK s \in TSeq : s = next_seq[n] /\ s = last_seq[n] + 1
      BY <1>1, <2>2, <2>a, ApplyAppends DEF TableInv, OrderInv
    <3>2. /\ hist'[n] = Append(hist[n], NextEntry(n)) /\ NextEntry(n) \in Entry
          /\ tpc_queue[n][s] \in Decision
      BY <2>2, <2>a, <3>1, ApplyAppends
    <3>3. hist'[n][Len(hist'[n])] = NextEntry(n)
      BY <2>a, <3>2
    <3>4. NextEntry(n).dec = tpc_queue[n][s] /\ NextEntry(n).seq = s /\ NextEntry(n).req = req_of[s]
      BY <3>1 DEF NextEntry
    <3>5. tpc_queue[n][s] = "COMMIT" /\ Logged("COMMIT", s)
      BY <1>1, <2>a, <3>2, <3>3, <3>4 DEF TableInv, LogInv
    <3>6. Keeps(n, s)
      BY <1>1, <2>2, <3>5 DEF LockInv, Node
    <3>7. Held(n, s)
      BY <2>2, <3>1, <3>5, <3>6 DEF Keeps
    <3> QED BY <3>3, <3>4, <3>7 DEF Held
  <2>3. CASE \E t \in Thread : PrimaryApplies(t)
    <3>1. PICK t \in Thread : ApplyNext(Primary, t) /\ pc[t] = "loop"
      BY <2>3 DEF PrimaryApplies
    <3>2. n = Primary /\ Looping(Primary)
      BY <1>1, <2>a, <3>1, ApplyAppends DEF Looping
    <3> QED BY <2>2, <3>1, <3>2
  <2>4. CASE \E r \in Replica : ReplicaApplies(r)
    <3>1. PICK r \in Replica : ApplyNext(r, r) /\ rpc[r] = "loop" /\ up[r]
      BY <2>4 DEF ReplicaApplies
    <3>2. n = r /\ Looping(r)
      BY <1>1, <2>a, <3>1, ApplyAppends DEF Looping
    <3> QED BY <2>2, <3>1, <3>2
  <2>5. CASE \E t \in Thread : ExecuteAlone(t)
    BY <2>5 DEF ExecuteAlone
  <2> QED BY <2>1, <2>3, <2>4, <2>5
<1>2. VoteInv /\ TableInv /\ LockInv /\ (miscounted = {}) /\ [Next]_vars =>
         [\A n \in Node :
            hist'[n] # hist[n] /\ hist'[n][Len(hist'[n])].dec = "COMMIT"
              => LET e == hist'[n][Len(hist'[n])]
                     l == row_locks[n][KeyOf[e.req]]
                 IN  \/ l.st = "held" /\ l.for = e.seq
                     \/ NoReplica]_vars
    BY <1>1
<1> QED BY <1>2, LocksAreKept, PTL DEF Spec, ExecutesUnderLock

(* With at most two replicas no vote is ever miscounted.                   *)
THEOREM DeploymentHoldsLocks == Cardinality(Replica) <= 2 => (Spec => ExecutesUnderLock)
<1> SUFFICES ASSUME Cardinality(Replica) <= 2 PROVE Spec => ExecutesUnderLock
    OBVIOUS
<1> QED BY NothingMiscounted, LocksAreHeld, PTL

=============================================================================

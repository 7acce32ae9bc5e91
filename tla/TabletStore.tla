---------------------------- MODULE TabletStore ----------------------------
(***************************************************************************)
(* One tablet of one storage server (backend/src/utils.cpp and             *)
(* backend/src/threads.cpp): the table in memory, the queue of log         *)
(* records, the log file, the checkpoint file, the threads that write      *)
(* them, and a crash followed by a restart.                                *)
(*                                                                         *)
(* Writes arrive here already replicated: Accept is the check made when a  *)
(* command arrives, Log and Execute are what process_tpc_queue does with   *)
(* it later, one command at a time.  Which threads may overlap depends on  *)
(* the role of the server.  The log thread of the primary flushes and      *)
(* takes checkpoints; on a replica the log thread flushes, and the         *)
(* connection to the primary both applies commands and takes checkpoints.  *)
(* A third thread takes a checkpoint to drop the tablet from memory.       *)
(***************************************************************************)
EXTENDS Integers, Sequences, FiniteSets, SequencesExt

CONSTANTS
    Key,             \* (row, column) pairs of this tablet
    Value,           \* what a PUT or CPUT may store
    None,            \* no value: the key is not in the map
    Garbage,         \* the piece of text a CPUT leaves when it misses its value
    Command,         \* commands frontends may send
    MaxCommands,     \* bound: commands accepted
    MaxPending,      \* bound: commands accepted and not yet applied
    MaxCheckpoints,  \* bound: checkpoints begun
    MaxCrashes       \* bound: crashes

CommandType == [op : {"PUT", "CPUT", "DELETE"}, key : Key,
                old : Value \cup {None}, new : Value \cup {None}]
Stored      == Value \cup {None, Garbage}

ASSUME TabletAssumption ==
    /\ Command \subseteq CommandType
    /\ None \notin Value /\ Garbage \notin Value /\ None # Garbage
    /\ MaxCommands \in Nat /\ MaxPending \in Nat
    /\ MaxCheckpoints \in Nat /\ MaxCrashes \in Nat

VARIABLES
    is_primary,        \* role of the server
    replicas,          \* primary: are replicas connected?
    up,                \* is the process running?
    table,             \* the tablet in memory
    active,            \* active_tablets: is it in memory?
    loading,           \* is a thread in load_tablet?
    log_queue,         \* records not yet in the file
    log_sequences,     \* number of the last record
    log_file,          \* records in the log file
    log_head,          \* first line of the log file, 0 when the file is empty
    table_file,        \* the checkpoint file
    checkpoints,       \* number of the current checkpoint
    checkpointing,     \* the flag replies are postponed under
    checkpoint_queue,  \* kinds of the replies that are postponed
    awaiting,          \* an ack or CHECK_DONE that empties the queue is due
    pending,           \* accepted commands, not yet applied
    apc,               \* applying thread: idle, or between log and execute
    fpc, fbuf,         \* log thread: place, and records in its stream buffer
    cpc, who,          \* checkpoint: place, and the thread that takes it
    cbuf,              \* checkpoint: contents still in the stream buffer
    hist,              \* history: commands logged, in order
    executed,          \* history: how many of them have been executed
    saved, csaved,     \* history: how many the checkpoint file and cbuf cover
    durable,           \* history: how many have been on disk at some time
    spoiled,           \* history: unsafe windows something fell into
    begun, crashes     \* bounds: checkpoints and crashes so far

mvars == <<table, active, loading, log_queue, log_sequences>>
dvars == <<log_file, log_head, table_file>>
cvars == <<checkpoints, checkpointing, cpc, who, cbuf>>
rvars == <<checkpoint_queue, awaiting>>
hvars == <<hist, executed, saved, csaved, durable, spoiled, begun, crashes>>
vars  == <<is_primary, replicas, up, mvars, dvars, cvars, rvars, pending,
           apc, fpc, fbuf, hvars>>

Table == [Key -> Stored]
Empty == [k \in Key |-> None]
NoBuf == <<>>
Rec   == [num : Nat, idx : Nat]        \* number in the log, position in hist

Window == {"torn", "raced", "late", "inactive", "behind", "loading"}

TypeOK ==
    /\ is_primary \in BOOLEAN /\ replicas \in BOOLEAN /\ up \in BOOLEAN
    /\ table \in Table /\ active \in BOOLEAN /\ loading \in BOOLEAN
    /\ log_queue \in Seq(Rec) /\ log_sequences \in Nat
    /\ log_file \in Seq(Rec) /\ log_head \in Nat /\ table_file \in Table
    /\ checkpoints \in Nat /\ checkpointing \in BOOLEAN
    /\ checkpoint_queue \subseteq {"read", "write"} /\ awaiting \in BOOLEAN
    /\ pending \subseteq Command
    /\ apc \in {"idle", "logged"}
    /\ fpc \in {"idle", "flush", "write"} /\ fbuf \in Seq(Rec)
    /\ cpc \in {"idle", "truncate", "copy", "clearlog", "number", "finish",
                "deactivate", "drop"}
    /\ who \in {"log", "connection", "clear"}
    /\ cbuf \in {NoBuf} \cup {<<t>> : t \in Table}
    /\ hist \in Seq(Command) /\ executed \in Nat
    /\ saved \in Nat /\ csaved \in Nat /\ durable \in Nat
    /\ spoiled \subseteq Window /\ begun \in Nat /\ crashes \in Nat

Init ==
    /\ is_primary \in BOOLEAN /\ replicas \in {FALSE, is_primary}
    /\ up = TRUE /\ active = TRUE /\ loading = FALSE
    /\ table = Empty /\ table_file = Empty
    /\ log_queue = <<>> /\ log_file = <<>> /\ log_head = 1 /\ log_sequences = 0
    /\ checkpoints = 1 /\ checkpointing = FALSE
    /\ checkpoint_queue = {} /\ awaiting = FALSE
    /\ pending = {} /\ apc = "idle" /\ fpc = "idle" /\ fbuf = <<>>
    /\ cpc = "idle" /\ who = "log" /\ cbuf = NoBuf
    /\ hist = <<>> /\ executed = 0 /\ saved = 0 /\ csaved = 0 /\ durable = 0
    /\ spoiled = {} /\ begun = 0 /\ crashes = 0

-----------------------------------------------------------------------------
(* What the text search of a CPUT makes of the value it finds: the new     *)
(* value, or an exception (Broken) when the search runs past the end       *)
(* because the new value is already there, or a piece of the command.      *)

Broken == [k \in {} |-> None]          \* the map after an uncaught exception

Replaced(t, c, ifAbsent) ==
    CASE t[c.key] = c.old -> [t EXCEPT ![c.key] = c.new]
      [] t[c.key] = c.new -> Broken
      [] t[c.key] = None  -> ifAbsent
      [] OTHER            -> [t EXCEPT ![c.key] = Garbage]

(* execute_command *)
Executed(t, c) ==
    IF t = Broken THEN Broken
    ELSE CASE c.op = "PUT"    -> [t EXCEPT ![c.key] = c.new]
           [] c.op = "DELETE" -> [t EXCEPT ![c.key] = None]
           [] c.op = "CPUT"   -> Replaced(t, c, [t EXCEPT ![c.key] = Garbage])

(* parsing_logic, for one record of the log file: a CPUT of a missing key  *)
(* is skipped                                                              *)
ParsedButDelete(t, c) ==             \* seeded fault: DELETE is not replayed
    IF t = Broken THEN Broken
    ELSE CASE c.op = "PUT"    -> [t EXCEPT ![c.key] = c.new]
           [] c.op = "DELETE" -> t
           [] c.op = "CPUT"   -> Replaced(t, c, t)

Parsed(t, c) ==
    IF t = Broken THEN Broken
    ELSE CASE c.op = "PUT"    -> [t EXCEPT ![c.key] = c.new]
           [] c.op = "DELETE" -> [t EXCEPT ![c.key] = None]
           [] c.op = "CPUT"   -> Replaced(t, c, t)

(* The table after the first n commands.                                   *)
After(n) == FoldLeft(Executed, Empty, SubSeq(hist, 1, n))

(* restore_table: the lines of the checkpoint file are put over the map.   *)
RestoredNothing(t) == t              \* seeded fault: only the log is read

Restored(t) ==
    [k \in Key |-> IF table_file[k] # None THEN table_file[k] ELSE t[k]]

(* restore_table and then recover_table                                    *)
Recovered(t) ==
    LET Replay(x, r) == Parsed(x, hist[r.idx]) IN FoldLeft(Replay, Restored(t), log_file)

Indices(s) == {s[i].idx : i \in DOMAIN s}
LastOf(S, n) == CHOOSE m \in S \cup {n} : \A i \in S \cup {n} : i <= m

-----------------------------------------------------------------------------
(* start_func: a PUT is taken as it is, a CPUT loads the tablet and must   *)
(* name the value in the table, a DELETE must find its key in memory: its  *)
(* branch loads no tablet.                                                 *)
Accept(c) ==
    /\ up /\ Len(hist) + Cardinality(pending) < MaxCommands
    /\ Cardinality(pending) < MaxPending
    /\ \/ c.op = "PUT"
       \/ c.op = "CPUT" /\ active /\ table[c.key] = c.old /\ c.new # c.old
       \/ c.op = "DELETE" /\ table[c.key] # None
    /\ pending' = pending \cup {c}
    /\ UNCHANGED <<is_primary, replicas, up, mvars, dvars, cvars, rvars, apc,
                   fpc, fbuf, hvars>>

(* start_func, GET of a key that exists: the reply is postponed while a    *)
(* checkpoint is taken.                                                    *)
Get ==
    /\ up /\ active /\ checkpointing
    /\ \E k \in Key : table[k] # None
    /\ checkpoint_queue' = checkpoint_queue \cup {"read"}
    /\ UNCHANGED <<is_primary, replicas, up, mvars, dvars, cvars, awaiting, pending,
                   apc, fpc, fbuf, hvars>>

(* The head line of an empty log file is written by recover_table.         *)
FirstLine == IF log_head = 0 THEN 1 ELSE log_head

(* A flush that popped its records before a checkpoint and wrote them      *)
(* after it leaves a log that ends before the checkpoint does: replaying   *)
(* it puts old values over newer ones.  The next flush repairs this.       *)
Behind == log_file # <<>> /\ log_file[Len(log_file)].idx < saved

(* The files are between two consistent contents while a checkpoint is     *)
(* written, and while the log is behind it.                                *)
Settled == cpc \notin {"copy", "clearlog", "number", "finish"} /\ ~Behind

(* The last command found in the files.                                    *)
Found == LastOf(Indices(log_file), saved)

(* The end of the process, by a signal or an uncaught exception: what is   *)
(* only in memory is gone, and hist is cut back to what the files hold.    *)
Dies ==
    /\ up' = FALSE /\ active' = FALSE /\ loading' = FALSE /\ table' = Empty
    /\ log_queue' = <<>> /\ log_sequences' = 0 /\ checkpoints' = 0
    /\ fbuf' = <<>> /\ fpc' = "idle" /\ apc' = "idle" /\ pending' = {}
    /\ checkpointing' = FALSE /\ cpc' = "idle" /\ who' = "log" /\ cbuf' = NoBuf
    /\ checkpoint_queue' = {} /\ awaiting' = FALSE
    /\ hist' = SubSeq(hist, 1, Found) /\ executed' = Found /\ csaved' = saved
    /\ spoiled' = IF Settled THEN spoiled ELSE spoiled \cup {"torn"}

(* load_tablet, called by a GET or CPUT that arrives and by                *)
(* process_tpc_queue.  The tablet counts as loaded before its files are    *)
(* read: the other threads do not wait.                                    *)
LoadBegins ==
    /\ up /\ ~active /\ ~loading
    /\ active' = TRUE /\ loading' = TRUE
    /\ UNCHANGED <<is_primary, replicas, up, table, log_queue, log_sequences, dvars, cvars,
                   rvars, pending, apc, fpc, fbuf, hvars>>

(* Changes of the tablet while it is loaded go wrong.                      *)
Meanwhile == IF loading THEN {"loading"} ELSE {}

(* restore_table and recover_table; an exception ends the process.         *)
Load ==
    /\ up /\ loading
    /\ IF Recovered(table) = Broken THEN Dies
       ELSE /\ table' = Recovered(table) /\ loading' = FALSE
            /\ log_sequences' = log_sequences + Len(log_file)
            /\ checkpoints' = FirstLine
            /\ spoiled' = IF Behind THEN spoiled \cup {"behind"} ELSE spoiled
            /\ UNCHANGED <<up, active, log_queue, checkpointing, cpc, who, cbuf, rvars,
                           pending, apc, fpc, fbuf, hist, executed, csaved>>
    /\ log_head' = FirstLine
    /\ UNCHANGED <<is_primary, replicas, log_file, table_file, saved, durable, begun, crashes>>

(* On a replica commands are applied by the thread that also takes the     *)
(* checkpoints the primary asks for.                                       *)
ApplierFree == is_primary \/ who # "connection" \/ cpc = "idle"

(* log_message                                                             *)
QueuedUnlessBusy(r) ==               \* seeded fault: not logged during a checkpoint
    IF checkpointing THEN log_queue ELSE Append(log_queue, r)

Queued(r) == Append(log_queue, r)

(* process_tpc_queue: log_message ...                                      *)
Log(c) ==
    /\ up /\ active /\ apc = "idle" /\ ApplierFree /\ c \in pending
    /\ pending' = pending \ {c}
    /\ log_sequences' = log_sequences + 1
    /\ hist' = Append(hist, c)
    /\ log_queue' = Queued([num |-> log_sequences + 1, idx |-> Len(hist) + 1])
    /\ apc' = "logged"
    /\ UNCHANGED <<is_primary, replicas, up, table, active, loading, dvars, cvars, rvars, fpc,
                   fbuf, executed, saved, csaved, durable, spoiled, begun, crashes>>

(* ... then execute_command and the reply, which waits in                  *)
(* checkpoint_queue while a checkpoint is taken.                           *)
Execute ==
    /\ up /\ apc = "logged"
    /\ LET t == Executed(table, hist[Len(hist)]) IN
         IF t = Broken THEN Dies
         ELSE /\ table' = t /\ apc' = "idle" /\ executed' = Len(hist)
              /\ checkpoint_queue' = IF checkpointing THEN checkpoint_queue \cup {"write"}
                                                      ELSE checkpoint_queue
              /\ spoiled' = spoiled \cup Meanwhile \cup (IF active THEN {} ELSE {"late"})
              /\ UNCHANGED <<up, active, loading, log_queue, log_sequences, cvars, awaiting,
                             pending, fpc, fbuf, hist, csaved>>
    /\ UNCHANGED <<is_primary, replicas, dvars, saved, durable, begun, crashes>>

-----------------------------------------------------------------------------
(* log_func, a round that flushes: the checks, the loop that pops the      *)
(* queue into the stream, and the write when the stream is closed, which   *)
(* happens after filelocks is released.                                    *)
LogThreadFree == fpc = "idle" /\ (who # "log" \/ cpc = "idle")

FlushRound ==
    /\ up /\ LogThreadFree /\ ~checkpointing
    /\ fpc' = "flush"
    /\ UNCHANGED <<is_primary, replicas, up, mvars, dvars, cvars, rvars, pending, apc,
                   fbuf, hvars>>

FlushPop ==
    /\ up /\ fpc = "flush"
    /\ fbuf' = log_queue /\ log_queue' = <<>>
    /\ fpc' = "write"
    /\ UNCHANGED <<is_primary, replicas, up, table, active, loading, log_sequences, dvars, cvars,
                   rvars, pending, apc, hvars>>

FlushWrite ==
    /\ up /\ fpc = "write"
    /\ log_file' = log_file \o fbuf
    /\ fbuf' = <<>> /\ fpc' = "idle"
    /\ durable' = LastOf(Indices(fbuf), durable)
    /\ UNCHANGED <<is_primary, replicas, up, mvars, log_head, table_file, cvars, rvars,
                   pending, apc, hist, executed, saved, csaved, spoiled, begun, crashes>>

-----------------------------------------------------------------------------
(* create_new_checkpoint and its three callers: the log thread of the      *)
(* primary when the log file is large enough, the thread of a replica that *)
(* reads the primary's CHECKPOINT message, and the thread that drops the   *)
(* tablet to free memory.  The primary has sent CHECKPOINT to its replicas *)
(* first, so their acks may arrive from now on.  One checkpoint is taken at *)
(* a time; that two of the threads begin one at once is left out.          *)
Callers ==
    (IF is_primary /\ LogThreadFree /\ ~checkpointing /\ log_file # <<>> THEN {"log"} ELSE {})
      \cup (IF ~is_primary /\ apc = "idle" THEN {"connection"} ELSE {})
      \cup (IF active THEN {"clear"} ELSE {})

BeginCheckpoint ==
    /\ up /\ cpc = "idle" /\ begun < MaxCheckpoints
    /\ who' \in Callers
    /\ checkpointing' = TRUE /\ checkpoints' = checkpoints + 1
    /\ cpc' = "truncate"
    /\ awaiting' = (awaiting \/ (is_primary /\ replicas))
    /\ begun' = begun + 1
    /\ UNCHANGED <<is_primary, replicas, up, mvars, dvars, cbuf, checkpoint_queue, pending,
                   apc, fpc, fbuf, hist, executed, saved, csaved, durable, spoiled, crashes>>

(* clear_file on the checkpoint file                                       *)
TruncateTable ==
    /\ up /\ cpc = "truncate"
    /\ table_file' = Empty /\ saved' = 0
    /\ cpc' = "copy"
    /\ spoiled' = spoiled \cup Meanwhile \cup (IF active THEN {} ELSE {"inactive"})
    /\ UNCHANGED <<is_primary, replicas, up, mvars, log_file, log_head, checkpoints,
                   checkpointing, who, cbuf, rvars, pending, apc, fpc, fbuf, hist,
                   executed, csaved, durable, begun, crashes>>

(* file << batch: a batch larger than the stream's buffer is written now,  *)
(* a smaller one when the stream is closed at the end of the function.     *)
CopyTable ==
    /\ up /\ cpc = "copy"
    /\ \/ table_file' = table /\ saved' = executed /\ cbuf' = NoBuf
       \/ cbuf' = <<table>> /\ UNCHANGED <<table_file, saved>>
    /\ csaved' = executed
    /\ cpc' = "clearlog"
    /\ spoiled' = spoiled \cup Meanwhile
    /\ UNCHANGED <<is_primary, replicas, up, mvars, log_file, log_head, checkpoints,
                   checkpointing, who, rvars, pending, apc, fpc, fbuf, hist, executed,
                   durable, begun, crashes>>

(* Clearing the log file loses a record whose command was executed after   *)
(* the copy of the table was taken.                                        *)
Raced == IF \E i \in Indices(log_file) : i > csaved THEN spoiled \cup {"raced"} ELSE spoiled

ClearLog ==
    /\ up /\ cpc = "clearlog"
    /\ log_file' = <<>> /\ log_head' = 0 /\ log_sequences' = 0
    /\ cpc' = "number"
    /\ spoiled' = Raced
    /\ UNCHANGED <<is_primary, replicas, up, table, active, loading, log_queue, table_file,
                   checkpoints, checkpointing, who, cbuf, rvars, pending, apc, fpc, fbuf,
                   hist, executed, saved, csaved, durable, begun, crashes>>

(* The stream that writes the number truncates the file once more, under   *)
(* filelocks, which the popping loop of a flush holds as well.             *)
WriteNumber ==
    /\ up /\ cpc = "number"
    /\ log_file' = <<>> /\ log_head' = checkpoints
    /\ cpc' = "finish"
    /\ spoiled' = Raced
    /\ UNCHANGED <<is_primary, replicas, up, mvars, table_file, checkpoints,
                   checkpointing, who, cbuf, rvars, pending, apc, fpc, fbuf, hist,
                   executed, saved, csaved, durable, begun, crashes>>

AckSent == ~is_primary               \* a replica acknowledges to the primary

(* The destructor of the stream writes what is left in its buffer.         *)
NothingWritten == UNCHANGED <<table_file, saved>>  \* seeded fault: it is never closed

BufferWritten ==
    /\ table_file' = IF cbuf = NoBuf THEN table_file ELSE cbuf[1]
    /\ saved' = csaved

(* The ack of a replica, the end of the flag, and the stream's destructor. *)
FinishCheckpoint ==
    /\ up /\ cpc = "finish"
    /\ checkpointing' = FALSE
    /\ BufferWritten /\ cbuf' = NoBuf
    /\ durable' = LastOf({csaved}, durable)
    /\ awaiting' = (awaiting \/ AckSent)
    /\ cpc' = IF who = "clear" THEN "deactivate" ELSE "idle"
    /\ UNCHANGED <<is_primary, replicas, up, mvars, log_file, log_head, checkpoints, who,
                   checkpoint_queue, pending, apc, fpc, fbuf, hist, executed, csaved,
                   spoiled, begun, crashes>>

(* clear_tablet: active_tablets, then the map itself                       *)
Deactivate ==
    /\ up /\ cpc = "deactivate"
    /\ active' = FALSE /\ cpc' = "drop"
    /\ spoiled' = spoiled \cup Meanwhile \cup (IF executed > saved THEN {"late"} ELSE {})
    /\ UNCHANGED <<is_primary, replicas, up, table, loading, log_queue, log_sequences, dvars,
                   checkpoints, checkpointing, who, cbuf, rvars, pending, apc, fpc, fbuf,
                   hist, executed, saved, csaved, durable, begun, crashes>>

Drop ==
    /\ up /\ cpc = "drop"
    /\ table' = Empty /\ cpc' = "idle"
    /\ spoiled' = IF active THEN spoiled \cup {"late"} ELSE spoiled
    /\ UNCHANGED <<is_primary, replicas, up, active, loading, log_queue, log_sequences, dvars,
                   checkpoints, checkpointing, who, cbuf, rvars, pending, apc, fpc, fbuf,
                   hist, executed, saved, csaved, durable, begun, crashes>>

(* send_queued_messages, when the last CHECK_ACK or CHECK_DONE is read     *)
SendQueued ==
    /\ up /\ awaiting /\ ApplierFree
    /\ awaiting' = FALSE /\ checkpoint_queue' = {}
    /\ UNCHANGED <<is_primary, replicas, up, mvars, dvars, cvars, pending, apc, fpc,
                   fbuf, hvars>>

-----------------------------------------------------------------------------
(* The process is killed.                                                  *)
Crash ==
    /\ up /\ crashes < MaxCrashes /\ crashes' = crashes + 1
    /\ Dies
    /\ UNCHANGED <<is_primary, replicas, dvars, saved, durable, begun>>

(* recover_table counts the records it replays.                            *)
Counted == Len(log_file)

(* main: load_tablets_startup loads the tablet unless memory is short.  An *)
(* exception in the replay ends the process again.                         *)
Restart ==
    /\ ~up /\ Recovered(Empty) # Broken
    /\ up' = TRUE
    /\ \/ /\ active' = TRUE /\ table' = Recovered(Empty)
          /\ log_sequences' = Counted
          /\ log_head' = FirstLine /\ checkpoints' = FirstLine
       \/ UNCHANGED <<active, table, log_sequences, log_head, checkpoints>>
    /\ UNCHANGED <<is_primary, replicas, loading, log_queue, log_file, table_file, checkpointing,
                   cpc, who, cbuf, rvars, pending, apc, fpc, fbuf, hvars>>

Next ==
    \/ \E c \in Command : Accept(c) \/ Log(c)
    \/ Get \/ LoadBegins \/ Load \/ Execute
    \/ FlushRound \/ FlushPop \/ FlushWrite
    \/ BeginCheckpoint \/ TruncateTable \/ CopyTable \/ ClearLog \/ WriteNumber
    \/ FinishCheckpoint \/ Deactivate \/ Drop \/ SendQueued
    \/ Crash \/ Restart

Spec == Init /\ [][Next]_vars

-----------------------------------------------------------------------------
(* spoiled names the windows in which the code does lose something.  The   *)
(* properties say that nothing is lost outside them.                       *)

(* A restart at any moment, by restore_table and recover_table, gives the  *)
(* table as it was after some number of commands, in order and without     *)
(* gaps, and that number covers everything that ever reached the disk:     *)
(* records flushed to a log and checkpoints finished.                      *)
RestartKeepsFlushed ==
    (spoiled = {} /\ Settled)
      => \E n \in durable..Len(hist) : Recovered(Empty) = After(n)

(* What GET reads is the table after every executed command, also when the *)
(* tablet was dropped by clear_tablet and loaded again by load_tablet, or  *)
(* rebuilt after a crash.  While it is loaded, keys are missing.           *)
MemoryIsCurrent ==
    (spoiled = {} /\ up /\ active /\ ~loading /\ apc = "idle") => table = After(executed)

(* Every logged command that the checkpoint does not cover is in the log   *)
(* file, in the stream of the flush or in the log queue: create_new_checkpoint *)
(* clears the file while records wait in the queue, and none falls between.*)
Covered == IF cpc = "copy" THEN executed
           ELSE IF cpc \in {"clearlog", "number", "finish"} THEN csaved ELSE saved
NothingForgotten ==
    (spoiled = {} /\ up)
      => \A i \in (Covered + 1)..Len(hist) :
            i \in Indices(log_file) \cup Indices(fbuf) \cup Indices(log_queue)

(* A command that was on disk at some time, in a record that was flushed   *)
(* or in a checkpoint that was finished, is found in the files for ever:   *)
(* create_new_checkpoint clears the log of what its own file holds.        *)
FlushedIsFound == (spoiled = {} /\ Settled) => durable <= Found

(* A reply that was postponed during a checkpoint is not left in           *)
(* checkpoint_queue: an ack or a CHECK_DONE is due that sends it, as the   *)
(* comment on send_queued_messages says.                                   *)
QueuedIsAwaited ==
    (up /\ ~checkpointing /\ checkpoint_queue # {}) => awaiting

(* "only valid CPUTS should be logged": a replayed CPUT finds the value it *)
(* names, so that a restart does not fail.                                 *)
ReplayIsValid == (spoiled = {} /\ Settled) => Recovered(Empty) # Broken
=============================================================================

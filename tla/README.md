# PennMail and PennDrive: a TLA+ verification project

PennMail/PennDrive is a web mail and file storage service: HTTP frontends, an
SMTP server and a load balancer in front of a replicated key-value store written
in C++. This directory holds TLA+ models of its parts, the TLC configurations
that check them on small instances, and proofs checked by TLAPS.

## 1. The system

Five kinds of processes:

| Process | Source | State | Operations |
|---|---|---|---|
| storage server (2 partitions of 3) | `backend/table.cpp`, `backend/src/{threads,utils,externs}.cpp` | tablets (in memory, five per node), row locks, per-tablet log and checkpoint files, two-phase-commit queue, numbers and log | GET, PUT, CPUT, DELETE from frontends; TPC messages between nodes; election, catch-up and checkpoint messages |
| backend coordinator | `backend/coordinator.cpp` | alive and paused servers, last heartbeat, primary of each partition | heartbeats, failure handling, election, pause/restart by the administrator, answering frontends where a row lives |
| frontend server | `frontend/fserver.cc`, `frontend/src/*.cc` | none but its sessions; everything is in the table | login, signup, drive (upload, delete, move, rename), mail, administration |
| load balancer | `frontend/loadbalancer.cc`, `frontend/src/membership.cc` | list of live frontends, round-robin counter | registration and heartbeats of frontends, redirecting browsers |
| SMTP server | `frontend/smtp_server.cc` | the session of each connection | SMTP commands, delivery into mailboxes |

How they interact: a frontend asks the coordinator for a storage server of the
row's partition and sends it text commands. Any node of the partition accepts
them: a replica forwards writes to its primary. The primary numbers a write,
sends PREPARE to the replicas, collects YES and NO, decides, and every node
applies decided transactions in the order of the numbers. The node that took the
command from the frontend answers it. Storage servers send heartbeats to the
coordinator, which elects a new primary when one stops; a node that starts asks
the primary for its logs and transaction numbers.

What is hard here, and what would make each part correct:

* **Two-phase commit.** Every connection has a thread of its own, so votes,
  commands and the timeout thread meet at the boundaries of the mutexes.
  Correct means: one decision per transaction, the same on all nodes and in the
  same order; an acknowledged write is prepared on every live replica; what the
  frontend hears is what happened; everyone is answered in the end.
* **Primary election and recovery.** A new primary rebuilds its queue from its
  log. Correct means: nothing acknowledged is lost, nothing prepared stays
  undecided, and nobody waits for ever.
* **Catch-up of a replica.** Log files, then transaction numbers, are fetched from
  a primary that goes on working. Correct means: no transaction falls between
  the two.
* **Tablets, log and checkpoints.** Log records are flushed every three seconds;
  a checkpoint rewrites one file and clears another. Correct means: restart
  rebuilds the table as it was.
* **Coordinator.** Heartbeat, administrator and frontend threads share the maps.
  Correct means: at most one primary per partition, alive and not paused, and
  one whenever some server is.
* **Frontends.** One request is several table commands. Correct means: no mail
  or listing entry lost to a concurrent request.
* **Load balancer.** Correct means: browsers are sent to live frontends.

The file and line of these hazards are in `PROJECT.json` under `hazards`; where the code
is plainly wrong, the line is under `findings` instead.

## 2. Plan

Modelled and checked: the storage server in four modules (`TwoPhase`,
`PrimaryRecovery`, `CatchUp`, `TabletStore`), the coordinator (`Coordinator`), the
load balancer (`Membership`), mail (`Mailbox`) and files (`Drive`). Each storage
module takes what the others do as given: `TwoPhase` has a primary that does not
fail, `PrimaryRecovery` begins where it fails, `CatchUp` has one transaction at a
time, `TabletStore` gets its commands from the two-phase commit one by one.
`Mailbox` and `Drive` see the storage servers as a table whose commands are atomic
and may be refused.

What is left: accounts (signup, login, change of password) over the same table as
`Drive`.

## 3. Modules

| Module | What it is |
|---|---|
| `TwoPhase` | one partition: a primary, its replicas and the commands of frontends |
| `ReplicatedLog` | what a partition promises: one log, applied without gaps by every node, each command settled once and answered with its outcome |
| `MCTwoPhase` | instances of `TwoPhase` for TLC |
| `TwoPhaseProofs` | theorems about `TwoPhase`: its types; that decisions are logged before they are applied; one decision, one history, true answers; that it implements `ReplicatedLog`, and executes under locks |
| `Coordinator` | the two threads of the backend coordinator and the servers of one partition |
| `MCCoordinator` | instances of `Coordinator` for TLC |
| `CoordinatorProofs` | theorems about `Coordinator` |
| `PrimaryRecovery`, `MCPrimaryRecovery` | a storage server before and after its election |
| `CatchUp`, `MCCatchUp` | a replica that joins its primary and is brought up to date |
| `CatchUpProofs` | theorems about `CatchUp` |
| `TabletStore`, `MCTabletStore` | one tablet: memory, log, checkpoints, crash and restart |
| `Mailbox`, `MCMailbox` | SMTP sessions, delivery, and the mail requests of the HTTP server |
| `Drive`, `MCDrive` | the file requests of the HTTP server |
| `Membership`, `MCMembership` | heartbeats of the HTTP servers and the load balancer |
| `MembershipProofs` | theorems about `Membership` |
| `RecoveryProofs`, `TabletProofs`, `MailboxProofs`, `DriveProofs` | theorems about `PrimaryRecovery`, `TabletStore`, `Mailbox` and `Drive` |

### TwoPhase

State. The variables keep the names of the globals in `externs.cpp`
(`tpc_seq`, `last_seq`, `tpc_queue`, `queued_transactions`, `tpc_responses`,
`tpc_replicas`, `tpc_start_time`, `msg_queue`, `row_locks`, `partition_fds`,
`alive_replicas` for `alive_replicas_ipport`). Globals that every process has are
functions of the node. `to_replica[r]` and `to_primary[r]` are the two directions
of the TCP connection between the primary and `r`. `pc`, `at` and `arg` are the
program counter, the sequence number and the vote or decision of each thread of
the primary: one per replica connection, one per frontend connection and the
timeout thread. `hist`, `reply`, `req_of`, `expired` and `miscounted` are history
variables; the last two make up `Disputed`, the transactions whose outcome the code
does not keep single. `expired` are those the timeout thread found, `miscounted` those
for which the YES of a replica that has left filled the place of a live one that had
not voted (`DroppedVoteCounted`).

Grain. One action is what a thread does between two points where another thread
could see the difference:

| Code | Actions |
|---|---|
| `start_func`, PUT/CPUT and DELETE branches | `ReceiveFromFrontend`, `RefuseAbsent`, `ReceiveForwarded`, `RefuseForwarded` |
| `handle_message`, scenario 3 | `Numbered`, `StartReplication`, `ExecuteAlone` |
| `start_tpc` | `EnqueuePrepare`, `SendPrepare` |
| `handle_message`, scenario 5 | `ForwardToPrimary`, `RegisterForwarded` |
| `handle_message`, scenario 1 (votes) | `ReceiveVote`, `LookUpVoted`, `CountYes`, `PrimaryVotes` |
| `primary_commit_transaction`, `primary_abort_transaction` | `CheckUndecided`, `LogDecision`, `SendDecision`, `SetStatus` |
| `process_tpc_queue` | `PrimaryEntersQueue`, `PrimaryApplies`, `PrimaryReturns`; `ReplicaApplies`, `ReplicaReturns` |
| `handle_message`, scenario 2 (replica) | `ReplicaVotes`, `ReplicaDecides` |
| `tpc_check_function` | `FindExpired`, `LookUpExpired` |
| end of `start_func` for a replica connection | `DropConnection`, `DropAlive` |

Merged steps, and why nothing is lost: `already_processed` has two critical
sections, but everything it reads only ever grows from "no" to "yes", so the
atomic check allows the same outcomes. The insertion into `queued_transactions`
and the erasures from `tpc_responses` and `tpc_start_time` touch one transaction
that the thread has already been allowed to decide; they and the log record are
one action, while sending and setting the status are separate ones. The
five `trywrlock` attempts of `get_command_locks` follow each other without a
pause and are one attempt that may fail while a reader holds the lock.

Kept as the code has it: `process_tpc_queue` erases the successor of what it
applied and leaves without unlocking when the next transaction is undecided;
votes are counted against the number of replicas alive now; ABORT unlocks the row
lock whoever holds it, and the result of such an unlock, undefined in POSIX, is a
free choice between no effect, release and a damaged lock; the path without
replicas advances `last_seq` and not to the number it was given; a forwarded
DELETE that the primary refuses is answered to the replica and by nobody to the
frontend.

Abstracted: the text of a command is its key and whether it is a DELETE; a CPUT is
a PUT here (its comparison happens before `handle_message`); the hash is the
command itself. A GET appears as the read lock it may hold at any moment.
`is_recovering` and the tablets are a free choice of a NO vote and always loaded.

Not in this module: a crash of the primary, election and recovery
(`PrimaryRecovery`), a replica that comes back (`CatchUp`), checkpoints in
progress, when answers are postponed (`TabletStore`), SIGPIPE (a write to a dead replica that
kills the primary is a halt, after which none of the safety properties can break).

### Coordinator

State. The maps of `coordinator.cpp` under their names, for one partition
(`alive_servers`, `paused_servers`, `primary_server`, `all_servers`, `comm_fd`,
`server_heartbeat`); partitions share nothing but the mutex. `primary_server` is a
server, the empty name or `NoEntry`: `operator[]` on the map creates the empty
name, and `find` takes it for a primary. A server connects twice, for heartbeats
and for messages; `hb_backlog` and `comm_backlog` are the connections the
coordinator has not accepted, and a connection is known by its server and the
incarnation of the process that opened it. `pc`, `why`, `srv` and `chosen` are the
places and local variables of the two threads.

| Code | Actions |
|---|---|
| start of a storage server (`table.cpp`), its death | `Connect`, `Crash` |
| `accept_storage_connections`, one round of `select` | `BeginRound`, `CheckFirst`, `RecordFirst`, `AcceptComm`, `Greet`, `Heartbeat`, `NoticeClosed`, `NoticeLate`, `EndRound` |
| `handle_server_failure` | `Forget` (in both `Notice` actions), `CheckFailed`, `InstallPrimary` |
| `choose_random_server`, called by both threads | `Choose`, `StopSpinning` |
| `accept_frontend_connections`: HELO | `AskServer`, `AnswerFrontend` |
| STOP, START | `Stop`, `CheckStopped`; `Start`, `CheckStarted`; then the election |

Grain. `alive_servers_mutex` is released between the question whether a primary is
needed, the choice and the installation, so these are three actions and the other
thread may come between any two. The mutex is held across actions in one place
only: `choose_random_server` draws again while it meets paused servers, which is
the place `spin` when all alive servers are paused. The accesses of the frontend
thread to maps outside the mutex are data races; each is taken as one atomic
access. Waits inside a round (a heartbeat cut in two) are left out.

Kept as the code has it: a server whose heartbeat was never received under its full
name (the accepting code stores the time under the short one) is not late, only
closed; the numbers of alive and of paused servers are compared, not the sets; a
late server is forgotten but its connections stay open; two connections of one
server compare equal, so the second is dropped when it falls into the bucket of
the first (`Inserted`); a second connection of an alive server ends the round; the
first primary is recorded without telling anyone but the servers that connect
for messages later; a failure without successor forgets all alive servers.

Abstracted: what is written to a server is read at once, so `is_primary[s]` is what
`s` will believe after reading everything; a write to a server without a message
connection (descriptor 0) is lost. Left out, as they change nothing in these
maps: the list of servers and the number of replicas, the relay of the STOP
acknowledgement, messages with a wrong format, connections of unknown servers.

### Windows

`TabletStore`, `PrimaryRecovery`, `CatchUp`, `Mailbox` and `Drive` describe code that does lose
data in certain interleavings. Each has a history variable `spoiled` with the names of those
it has met, set by the action in which the loss becomes possible, and the
properties say that nothing is lost outside them. No property is weakened
further: an interleaving that is not named must be harmless, so a new fault, or a
fix that opens another window, shows as a violation. With the
name taken out of the model TLC finds a real loss in the window, with three
exceptions: `late` and `booting` of `PrimaryRecovery` only narrow the violation of
`PendingIsAborted`, so that what the run shows is not one of them, and `gone` of `Drive`
loses nothing within the run's bounds (a listing gets a text that is no entry) and is
kept apart because the proof needs it. The windows are listed at the end of each
module, and again below.

### PrimaryRecovery

State: the globals of `externs.cpp` on the server P that will be elected, the
two-phase log with the position of its one stream, the connections of the other
replicas, the messages of the coordinator. Threads: `main` (`boot`), the connection to the
old primary (`opc`, `oseq`), the coordinator connection (`cthread`), the recovery thread
(`recovery`) and one per command (`fpc`). The thread of the old primary's
connection is neither stopped nor joined at the election: what it has read it
handles, step by step, whatever P is by then. `main` starts the coordinator
connection before it opens the log, so an election may also come before the log is read.

| Code | Actions |
|---|---|
| `start_func`, a TPC message of the old primary | `OldRead` |
| `handle_message`, scenario 2: PREPARE; COMMIT and ABORT | `OldPrepare`, `OldLog`, `OldNumber`, `OldQueue`; `OldDecide`, `OldLog`, `OldApply` (with `ProcessQueue`) |
| `main` of `table.cpp`: start, log opened, log read; accept loop | `Restart`, `OpenLog`, `ReadLog`; `AcceptReplica` |
| `handle_message`, scenario 5, the old primary is gone | `FindPrimaryGone`, `KeepForPrimary` |
| coordinator: election, REPLICA COUNT, failure | `Elect`, `AnswerCount`, `ForgetReplica` |
| `start_func`: PRIMARY, REPLICA COUNT, end of a connection | `BecomePrimary` (with `ProcessLog` = `process_tpc_log`), `Connect`, `ReadCount`, `DropReplica` |
| `tpc_primary_recovery_function`, `primary_abort_transaction` | `RecoveryCheck`, `Connected`, `AbortPending`, `Ready` (with `OneWoken`) |
| `handle_primary_queue` | `NumberQueued`, `QueueDone` |
| `handle_message`, scenario 3; `start_tpc` | `Receive`, `Begin` |

Kept as the code has it: the log is read from where the stream stands; one waiter is
signalled; `handle_primary_queue` waits in the thread that would read the answer it
waits for; a connection accepted before P knows of its election is not counted; a line
written before the log is open is lost, and one written before it is read moves the
stream past the lines before it; `process_tpc_queue` returns with its mutex locked when the next
transaction is undecided.
`Scan` states the result of the loop over the log in closed form, which the proofs
can use; `ScanLine` and `ScanLoop` are the loop as the code has it, and the invariant
`ScanIsLoop` says that both give the same for every log the server ever has.
Abstracted: COMMIT and ABORT are one status, since recovery treats them alike; the
votes on P's own transactions belong to `TwoPhase`. The log is that of P: numbers the old
primary sent to other replicas only are unknown to P, which gives them to commands of
its own, and no property speaks of them.

Windows: `late` (P becomes primary while the old connection's thread has a message in
its hands), `overlapped` (a command is numbered while that thread is between the test of a
PREPARE and `tpc_seq`), `booting` (elected before the log is read), `skipped` (a line is written
before those in front of it are read). `NumberedOnce` is claimed outside `overlapped` and
`skipped`, so with a late thread and an early election; `PendingIsAborted`, the violation, is stated for
elections that are neither `late` nor `booting`.

### CatchUp

The primary runs one transaction at a time (`stage`), writes log records (`log`,
`queue`, `num`, `ck`) and serves one replica, whose variables begin with `r`.
`rec` is the recovery thread of the replica with the log it replays, `answer` the log
file as the primary has read it and not yet sent it, `checkpointing` a checkpoint of the
primary that has begun and not yet emptied the log.

| Code | Actions |
|---|---|
| `start_tpc`, votes, `primary_commit_transaction`, `process_tpc_queue` | `Start`, `ReadVote`, `Decide`, `Send`, `Apply` |
| log thread of both | `Flush`, `ReplicaFlush` |
| `start_new_checkpoint` and `create_new_checkpoint` of the primary | `Checkpoint`, `CheckpointEnds` |
| `start_func`, requests of a joining replica and the primary's answers | `Join`, `ReadFile` (`create_log_string`), `AnswerLog`, `AnswerSeq`, `Drop` |
| `start_func` and `handle_message` on the replica | `ReadLog`, `ReadSeq`, `ReadPrepare`, `ReadDecision`, `ReadCheckpoint` |
| `clear_tablet` of the replica | `OwnCheckpoint` |
| `recovery_func`, `parse_log_string` | `ReplayBegins`, `Replay`, `ReplayEnds` |
| death and start | `Crash`, `Restart` |

Kept as the code has it: a log of a newer checkpoint takes the place of the
replica's, one of the same checkpoint is added to it by number, and one of an older
checkpoint is complained about and dropped, records the replica lacks included. Simplified: the
numbers are read and sent in one step (what is decided in between is in the
channel before or behind them in the same order), a server takes one checkpoint at a
time, and the replica's checkpoints are one step; what a crash inside a checkpoint
leaves is the business of `TabletStore`.

Windows: `between` (a transaction applied after the log was read and before the
numbers), `missed` (one in progress at the accept), `early` (a decision before the
numbers), `overtaken` (a command or checkpoint before the end of the replay),
`behind` (only the primary's checkpoint holds it, or the log is sent after the message of a
checkpoint), `renumbered` (a record or decision was under way when a checkpoint began to
count anew), `amid` (the log file is read while a checkpoint empties it), `own` (the
replica's clear thread takes a checkpoint: its count is ahead of the primary's and its
numbers start again, so that skipping by number means nothing any more).

### TabletStore

One tablet of a primary with or without replicas, or of a replica (`Init` chooses).
`table` is the map in memory; `log_file`, `log_head` and `table_file` are on disk and
survive `Crash`; `fbuf` and `cbuf` are what streams hold until they are closed.
Threads: the one that applies commands (`apc`), the log thread (`fpc`) and the one
that takes a checkpoint (`cpc`, `who`).

| Code | Actions |
|---|---|
| `start_func`: PUT, CPUT, DELETE, GET | `Accept`, `Get` |
| `process_tpc_queue`: `log_message`, `execute_command` | `Log`, `Execute` |
| `log_func`, `flush_log` | `FlushRound`, `FlushPop`, `FlushWrite` |
| `start_new_checkpoint`, `create_new_checkpoint` | `BeginCheckpoint`, `TruncateTable`, `CopyTable`, `ClearLog`, `WriteNumber`, `FinishCheckpoint` |
| `clear_func`, `clear_tablet` | `Deactivate`, `Drop` |
| `load_tablet` (`restore_table`, `recover_table`, `parsing_logic`) | `LoadBegins`, `Load` |
| CHECK_ACK, CHECK_DONE, `send_queued_messages` | `SendQueued` |
| death and start | `Crash`, `Restart` |

A command has a key and values; what the text search of a CPUT makes of a value that
is not the one it names is modelled (`Replaced`): an exception, a piece of the
command, or nothing. An exception that nobody catches, in `Load`, `Execute` or
`Restart`, ends the process just as `Crash` does: memory is gone and the files stay (`Dies`).
The checkpoint's stream writes what is left in it when it is destroyed, at the end of
`create_new_checkpoint` (`BufferWritten`). One checkpoint is taken at a time; that the log
thread, the clear thread and a connection each begin one on the same tablet at once
is left out. Windows: `torn` (a crash while the checkpoint is written or the
log is behind it), `raced` (the log is cleared with a record newer than the copy),
`late` (a command between copying and dropping the table), `inactive` (a checkpoint
of a tablet that is not in memory), `behind` (loading a log older than the
checkpoint), `loading` (a command or checkpoint while the tablet is loaded).

### Mailbox

The table (`eids`, `mails`), the sessions of the SMTP server with the variables of
`worker`, and requests of the HTTP server. /send-email is a session whose client is
the HTTP server (`Web`).

| Code | Actions |
|---|---|
| `worker`, commands | `Helo`, `MailFrom`, `SetTitle`, `Rcpt`, `Data`, `Rset`, `Leave` |
| `worker`, end of the data | `Dot`, `MissDot` |
| `worker`, delivery to each recipient | `ReadIndex`, `WriteIndex`, `WriteMail`, `EndDelivery` |
| `handle_POST`, /send-email | the session, `WebUnanswered` |
| `handle_GET`, /email-list; `handle_DELETE`, /delete-email | `Begin`, `ListIndex`, `ListMail`; `Unlistable`, `Unlist`, `DeleteMail` |

Windows, per mailbox: `raced` (two changes of `eid_vector` overlap), `refused` (a
write is answered -ERR, which nobody looks at), `collided` (two mails with the
hash of one sender, title and second), `misplaced` (a recipient on another partition
than the HELO name). The end of a process is no window but an exception for the mails
it was at (`LeftBehind`): such an entry stays for ever, and every /email-list that
reaches it answers 500; all other mails of the mailbox must still agree. Double free and an exception in another process are choices
of `Cleared` and `Dot`.

### Drive

The row of one user as a function from paths to values, and requests that are
sequences of table commands. A path is a sequence of names and a listing a sequence
of texts; `find` on the text of a listing also finds a path inside a longer one
(`Occurs`), and the erasure that follows leaves a piece of text (`Blank`). The page
(`files.html`) decides which requests are sent (`Send`): it names what `loadFiles` last
showed, and `deleteFolder` and `moveFile` go by a /files-list of their own, a request
before. Any of that may have changed since, so a page may name any folder and any
entry; a request whose page no longer shows what is there is sent all the same
and opens the window `stale`. `MaxDepth` bounds the names of a path, the new entry's included.

| Code | Actions |
|---|---|
| the page | `Upload`, `CreateFolder`, `DeleteFile`, `DeleteFolder`, `RenameFile`, `MoveFile`, all by `Begin` |
| /upload-file, /create-folder | `ReadToAdd`, `WriteFolder`, `StoreData` |
| /delete-file | `ReadToErase`, `WriteFolder`, `DropData` |
| /move-file | `ReadToErase`, `WriteFolder`, `ReadTarget`, `WriteTarget`, `ReadData`, the files, `DropData`, `StoreData` |
| /rename-file | `ReadToRename`, `WriteFolder`, `ReadData`, the files, `DropData`, `StoreData` |
| `renameFolder`, `renameMovedFolder` | `ReadKid`, `DropKid`, `WriteKid` |
| /files-list, /download | `List`, `Download` |

Windows: `raced` (a listing changed between GET and PUT), `refused`, `ended` (the
server ends within a change), `overlapped` (two changes of one entry), `clobbered`
(a move onto an entry of that name, which the check for conflicts does not see),
`conflict` (a move answered 409), `emptied` (a move of a folder with files, which all
get the path of the folder), `nested` (a change of a folder with folders), `stale` (a
change from a page the drive no longer looks like: an upload into a folder that was deleted
makes its listing anew, a deletion of what was deleted throws), `gone` (the listing a
move is to add to has been deleted since, and its error text becomes an entry).

### Membership

`servers`, `age` and `ctr` are the load balancer's list, the time since each last
heartbeat and the counter of `main`; `up` and `due` belong to the HTTP servers; `net`
holds datagrams, which are lost, duplicated, reordered and up to `MaxDelay` old. `MaxDelay` includes
the time a datagram waits in the socket while the balancer's one thread is
elsewhere: after an accept it reads the client's request and blocks until that has come
(`do_read`, loadbalancer.cc:89), and takes the time of a heartbeat when it reads it.

| Code | Actions |
|---|---|
| `main` of `fserver.cc`, `send_heartbeats` | `Start`, `SendHeartbeat`, `Crash` |
| `handle_fserver_state`, `match`, `heartbeat` | `Receive` |
| `get_roundrobin_redirect`, `isalive`, accept loop of the load balancer | `Redirect` |
| start of the load balancer | `Init`, `Restart` |
| the network and the clock | `Lose`, `Tick` |

A heartbeat thread that has slept sends before the clock goes on: sleeping longer
than `HBINT` would be a heartbeat lost, which the model has. The counter is kept modulo `Cycle`,
a multiple of every length of the list, so that its position is the same; a 64-bit
counter does not wrap in practice.

## 4. Runs

| Run | Instance | Checks |
|---|---|---|
| `twophase_core` | two replicas, two PUTs of one key in flight together, one replica may crash | `TypeOK`, `OneDecision`, `AppliedWasLogged`, `AckedIsPrepared`, `ExecutesUnderLock`, `ImplementsLog` |
| `twophase_mixed` | one replica, two DELETEs of one key (one to the primary, one forwarded), a crash, a timeout, hence also the path without replicas | `SameHistory`, `ReplyIsOutcome` |
| `twophase_live` | two replicas, one PUT, a crash, a timeout, `FairSpec` | `EveryCommandAnswered` |
| `coordinator` | three servers, two incarnations each, two troubles | `AliveIsWatched`, `ElectedIsAlive`, `BelieverIsRecorded`, `PrimaryIsStable` |
| `coordinator_live` | the same with two servers, `FairSpec` | `FailureIsNoticed` |
| `tablet` | two keys, two PUTs and a DELETE, two checkpoints, one crash | `RestartKeepsFlushed`, `MemoryIsCurrent`, `NothingForgotten`, `FlushedIsFound` |
| `recovery` | two other replicas, two old transactions, two commands, one crash, `FairSpec` | `NumberedOnce`, `WaitIsAnswered`, `ScanIsLoop`, `Recovers`, `WaitingBegins` |
| `recovery_pending` | the same | `PendingIsAborted` fails |
| `mailbox` | a mailer and a /send-email, one request, two users on two partitions, `FairSpec` | `TypeOK`, `InboxAgrees`, `AckedIsListed`, `DeliveryEnds` |
| `drive` | two requests of any kind on four drives, depth two, `FairSpec` | `TypeOK`, `DriveAgrees`, `FileSurvives`, `ThrownIsRaced`, `RequestEnds` |
| `membership` | two servers, `HBINT` 2, `HBTIMEOUT` 4, delay 1 | `TypeOK`, `LiveIsFound`, `NoneStarved`, `DeadIsNotChosen` |
| `catchup` | three transactions, one checkpoint, one crash, `FairSpec` | `TypeOK`, `CaughtUp`, `SameNumbers`, `CatchesUp` |

Further configurations show what the code gets wrong. Each violates its property;
run them with `tlc -config X.cfg M`:

| Configuration | Module | Violated | What happens |
|---|---|---|---|
| `TwoPhaseWedge.cfg` | `MCTwoPhase` | `EveryCommandAnswered` | `process_tpc_queue` returns with its mutex locked |
| `TwoPhaseTimeout.cfg` | `MCTwoPhase` | `DecidedOnce` | the timeout thread and a vote decide one transaction both ways |
| `TwoPhaseErase.cfg` | `MCTwoPhase` | `PreparedIsPending` | a prepared transaction is erased by its predecessor |
| `TwoPhaseVotes.cfg` | `MCTwoPhase` | `CommitIsUnanimous` | of three replicas, one that voted and died stands in for a live one that did not vote |
| `CoordinatorGreet.cfg` | `MCCoordinator` | `NoPrimaryIsReported` | an empty name is taken for a primary and ends the coordinator |
| `TabletCput.cfg` | `MCTabletStore` | `ReplayIsValid` | a CPUT flushed after a checkpoint makes every restart fail |
| `TabletReplies.cfg` | `MCTabletStore` | `QueuedIsAwaited` | postponed answers of a primary without replicas stay in the queue |
| `CatchUpLog.cfg` | `MCCatchUp` | `LogIsUpToDate` | a transaction falls between the log and the numbers |
| `CatchUpOlder.cfg` | `MCCatchUp` | `NeverOlder` | after a checkpoint of its own a replica is sent the log of an older one, which "should not be possible" (utils.cpp:894) |
| `MailboxRace.cfg` | `MCMailbox` | `AppendedStays` | two changes of a mailbox lose an acknowledged mail |
| `DriveMove.cfg` | `MCDrive` | `RefusedMoveKeeps` | a move answered 409 has taken the file off its listing |

The types of `Coordinator` and `PrimaryRecovery` are proved (section 5) and not checked again
by a run. One more configuration passes: `TabletSwaps.cfg` (`MCTabletStore`) has a CPUT that races a PUT
of its cell between the comparison and the execution, one checkpoint and one crash,
and checks `MemoryIsCurrent` and `NothingForgotten` also when the exception of the CPUT
ends the process.

Bounds of the `TwoPhase` runs. Two commands are what it takes for one transaction to disturb another
(erase, stray unlock, shared key), and two replicas for the threads of two votes
to race; a primary with two replicas is what the deployment file lists. With
three replicas and a crash the vote count (`EnoughVotes`) lets the primary commit
without a live replica's vote: `TwoPhaseVotes.cfg` shows it, against the comment "if all YES,
send COMMIT" of `externs.cpp`. The theorems of section 5 hold for any number of
replicas, because they set such transactions apart (`miscounted`); `ImplementsLog` and
`CommitIsUnanimous` make no such exception: the runs check `ImplementsLog` with two
replicas, at most one of which crashes, and section 5 says what it takes in general. Deadlock is not checked: once the
bounded supply of commands is used up, all threads rest. `twophase_core` uses
the symmetry of replicas and of commands, which share one key and one home there.

Bounds of the `Coordinator` runs. A trouble is a restart, a late heartbeat or a
STOP; crashes are free, bounded by the incarnations. Two incarnations are what it
takes for a new connection to meet the remains of an old one, three servers (the
size of a partition in the deployment file) for an election to have a choice, and
two troubles for a STOP to meet a restart or another STOP (the spinning election
needs two). Deadlock is not checked, since a
coordinator that ended has no next step.

Bounds of the other runs. `tablet`: commands, checkpoints and crashes add up to four
at most (`Bounded`), which leaves room for two commands around a checkpoint and a
crash, and two commands are what a window takes. States after a window are not
extended, as nothing is claimed of them. `recovery`: two old transactions, so
that they can be decided out of order; two commands, so that two wait when one is
woken; the deployment's two other replicas. Lines in the log, commands begun, crashes and
windows add up to three (`Load`); a behaviour is not followed beyond that, for the liveness
properties either. That leaves about 300 000 states, a minute; the theorems cover the rest
of the safety properties. `mailbox`: one thing goes wrong per
behaviour (`Upsets`) and the mailer says HELO as `u1`; two recipients, two partitions
and two seconds are there so that each window occurs. `drive`: the four drives hold
a file next to a folder with a file, a folder in a folder and one name in two
folders; more than one damage is not followed (`Bounded`). `membership`: the timeout
is two intervals, as in `membership.h`, in units of half an interval; the
theorems cover the rest. `catchup`: three transactions let one be in the log, one
between and one to come. It has 620 000 states and behaviours up to 47 steps; a behaviour is followed until a
window is met (`Bounded`), as nothing is claimed of it afterwards. Deadlock is checked in `membership` only: elsewhere
requests, commands or crashes run out.

Properties with `~administered` are limited to behaviours before the first STOP. That
is where the code keeps them: afterwards both threads elect, and TLC finds a
recorded primary that is dead or paused and an alive primary that is replaced.
`BelieverIsRecorded` speaks of servers the coordinator can still talk to (`Hears`),
alive or given up: a primary that was only late is not told that it was replaced.
`OneDecision`, `SameHistory` and `ReplyIsOutcome` leave out the disputed
transactions, `AckedIsPrepared` the miscounted ones only. The
two liveness properties of `PrimaryRecovery` name their exceptions (`early`,
`crowd`, a coordinator thread that is itself blocked, a mutex left locked), each of
which TLC confirms.

Fairness in `TwoPhase`. `FairSpec` has weak fairness for each thread of the primary and of the
replicas: the threads are preemptive, and every wait is a mutex, a read on a
socket or a condition that stays true. The timeout thread polls without pause,
so a transaction that stays on the list is found in the end. Sending a command,
crashing, and the answer of readers carry no fairness.

Fairness in `Coordinator`. Both threads loop for ever (weak fairness of the storage
thread and of the frontend thread once it has taken a request). A round reads
every connection that `select` reported, so a closed one is not passed over
for ever: strong fairness of `NoticeClosed` for each connection, which weak fairness
does not give, because the action is disabled between rounds. Servers need not
start or crash, and nobody need send a request.

Fairness in the other modules. Every thread that has begun something runs on: in
`PrimaryRecovery` `main`, the handling of a message the old primary's connection has read, the
coordinator connection, the recovery thread and the threads of commands, the coordinator's answers and the replicas that were told to connect; in
`CatchUp` the threads of both servers, and a transaction is decided by the timeout
thread if by nothing else; in `Mailbox` the worker that delivers; in `Drive` the
thread of a request. Storage servers answer every command there, with +OK or -ERR.
Nobody need send a command, crash, restart or take a checkpoint. `Membership` and
`TabletStore` state no liveness.

The findings in `PROJECT.json` quote the comment or page text each disagreement is
about. Besides the configurations above they record two that the actions show
directly: `erase` of an entry that is not listed throws, since the test for 404
cannot be reached, and the SMTP server forgets the HELO name after a mail and then
refuses a new one, so that the second mail of a session ends the coordinator. When a
prepared transaction is erased the nodes still agree, because everything after it
stops on all of them: `SameHistory` and `ImplementsLog` hold.

## 5. Proofs

`TwoPhaseProofs` proves, for every number of replicas, commands, keys and every
bound (`ConstantsAssumption` is the only assumption):

* `TypeCorrect`: `Spec => []TypeOK`. `TypeOK` is not inductive by itself, since
  `row_locks` and `hist` are updated at `KeyOf[req_of[s]]` and `req_of[s]` might be
  `None`. The invariant proved is `IInv`, which adds `ThreadInv` (a thread that
  stands where a transaction is needed has one, and its `arg` is what that place
  expects) and `NumberInv` (every number in a thread, channel, queue or log was
  handed out, that is `req_of` gives its command).
* `AppliedIsLogged`: `Spec => []AppliedWasLogged`. The strengthening `LogInv` follows
  a decision from the primary's log to a thread about to send it, the channel,
  the replica's queue and its history: in each place it is in
  `tpc_log[Primary]`.

The same module goes on from there, under the same assumption and again for any number of
replicas, commands, crashes and timeouts:

* `DecisionIsUnique`: `Spec => []OneDecision`. The argument follows the votes.
  `PlaceInv` says who can stand where and ties `alive_replicas` and `partition_fds` to
  the threads that take a replica out of them; `StartInv` that one thread starts a
  transaction, once. `TokenInv` treats a vote as a token: it is in one of a PREPARE
  on its way to the replica, a YES or NO on its way back, the hands of that
  replica's thread, or the set of counted votes. Hence in `DecideInv` a thread that
  commits has the YES of everyone alive, no one alive is left who could carry a NO,
  and only the thread of the last vote found them complete. Two NOs may both
  pass `already_processed`, but they decide the same.
* `CommitIsPrepared`: `Spec => []AckedIsPrepared`. `AckInv` carries "prepared by everyone who
  has not crashed" from the count of the votes over the log to the primary's table.
* `HistoryIsOne`: `Spec => []SameHistory`. `OrderInv`: one thread at a time processes
  the primary's queue, and what a node applied is numbered from 1 to its `last_seq`,
  with the wrong erasure in place. `EntryInv`: every entry is the command of its number with a
  logged decision, or what the primary executed alone. With `DecideInv` two entries
  of one number are equal.
* `AnswerIsTrue`: `Spec => []ReplyIsOutcome`. `CommandInv`: a command is forwarded once,
  numbered once, and not numbered while it is under way. `ReplyInv` names the
  three ways to be refused: before there was a number, by an ABORT at the
  command's node, or by a primary on its own that found the row locked.

* `LogImplemented`: `Spec /\ [](Disputed = {} /\ ~NoReplica) => ImplementsLog`, the step
  simulation. The longest history grows by at most one entry in a step, what a
  node appends is the entry the longest history has at that place (`OrderInv`,
  `EntryInv`, `DecideInv`), a command enters it once (`CommandInv`) and is answered
  with its outcome (`ReplyInv`). The hypothesis is needed. `Disputed`
  are the transactions whose outcome the code does not keep single. And a
  primary that has lost its last replica executes alone, with what its queue
  happened to hold: with two replicas, three commands and two crashes, one thread
  sends ABORT 2 (a replica voted NO) while another is about to apply 1, whose processing
  erases 2; both replicas apply 2 and die, and the primary goes on with 3, so that the
  histories are 1, 2 and 1, 3 (TLC confirms it). `SameHistory` makes
  the same exception for the numbering.
* `LocksAreHeld`: `Spec /\ [](miscounted = {}) => ExecutesUnderLock`, the action property.
  `AskInv` ties a YES to the lock it was given for. In `LockInv` a stray unlock of an ABORT
  can take the lock of a later transaction only, and `process_tpc_queue` erases the
  transaction after the one it applies, so whatever comes to the head of the queue with
  its COMMIT still has its lock. A miscounted vote lets a replica that never got the lock
  receive COMMIT and execute, hence the hypothesis.
* `TwoReplicasAgree`, `DeploymentIsLog` and `DeploymentHoldsLocks` discharge the hypothesis on
  miscounted votes for at most two replicas, the number the deployment file lists:
  to fill the place of a live replica that has not voted, a vote must come
  from one that has left and stand next to the YES of another live one. Then
  `Spec => []CommitIsUnanimous` and `Spec => ExecutesUnderLock` hold without conditions, and
  `ImplementsLog` unless the timeout thread has found a transaction or the last replica
  is lost. `TwoPhaseVotes.cfg` shows that three replicas are too many.

`CoordinatorProofs` proves, for any set of servers and any bounds
(`CoordinatorAssumption`):

* `CoordinatorTypes`: `Spec => []TypeOK`. The strengthening `ReadyInv` says that a
  message connection `select` has reported is still in the backlog, without which
  `AcceptComm` would take the head of an empty sequence.
* `AliveAlwaysWatched`: `Spec => []AliveIsWatched`, by induction with the types.
* `PrimaryIsAlive`: `Spec => []ElectedIsAlive`. The property says nothing during an
  election, so the invariant must: `CalmInv` (before the first STOP nobody is
  paused and the frontend thread elects nobody), `WhyInv` (which caller an election
  belongs to), `ChosenInv` (what the storage thread has chosen is alive, because
  only this thread removes servers) and `PrimaryInv` (the recorded primary is alive,
  or the thread stands in the election that replaces it).
* `OnlyRecordedLeads`: `Spec => []BelieverIsRecorded`. `ElectionInv` says that the primary an
  election replaces is neither alive nor reached, `BacklogInv` that the connections
  of a server are accepted in the order of its starts, so that a new incarnation
  has been told nothing when its connection is accepted.
* `AlivePrimaryStays`: `Spec => PrimaryIsStable`, the action property, from the same
  invariant.

`MembershipProofs` proves all four properties of `Membership`, for any number of servers,
any interval, any timeout of at least two intervals and any delay
(`MembershipAssumption`):

* `MembershipTypes`: `Spec => []TypeOK`, which includes that the list names no server
  twice and that the choice of `get_roundrobin_redirect` exists (`Least`).
* `LiveAlwaysFound`: `Spec => []LiveIsFound`. `HeardInv` adds the time to the next
  heartbeat to the age of the entry: together they are at most one interval when the
  last heartbeat was heard and two when the one before was.
* `DeadNeverChosen`: `Spec => DeadIsNotChosen`. `DownInv` bounds how long the sender of a
  datagram, and of an entry that counts as alive, can have been down.
* `NobodyStarved`: `Spec => []NoneStarved`. `TurnInv` bounds the number of times a server
  was passed by with the distance the counter has moved since it stood at its
  entry; the lemmas on remainders and on the length of the list carry it.

`RecoveryProofs` proves, for finite sets of replicas and commands and any number of old
transactions and crashes (`RecoveryAssumption`):

* `RecoveryTypes`: `Spec => []TypeOK`. That the numbers stay in `TSeq` takes `BoundInv` (`tpc_seq`
  exceeds the old numbers by at most the number of commands that have one), and that takes
  `NumberInv` (no two commands share a number, a number in a command's hands is not above
  `tpc_seq`). `RoleInv` and `KeptInv` say what cannot happen before the election and that a
  kept command is kept once.
* `NumbersAreFresh`: `Spec => []NumberedOnce`. `FreshInv`, for behaviours that are neither `overlapped`
  nor `skipped`: a number prepared in the log is `Known`, that is not above `tpc_seq`, or the
  old connection's thread is about to tell it to `tpc_seq`, or main has yet to read the line; that thread
  prepares nothing more once a command has a number, and neither it nor a command
  that has not begun holds a number already prepared. The lemmas on `Max` say what `Scan`
  returns.
* `WaitHasAnswer`: `Spec => []WaitIsAnswered`.
* `NothingPending`: `Spec => [](is_primary /\ "booting" \notin spoiled => tpc_pending = {})`.
  `PositionInv`: the stream stands at the end of the log whenever nothing reads it. It is why
  `PendingIsAborted` fails, and that it fails not in some interleavings but in all: a server
  elected after main has read the log never finds a pending transaction.

`CatchUpProofs` proves, for any number of transactions, checkpoints and crashes
(`CatchUpAssumption`):

* `CatchUpTypes`: `Spec => []TypeOK`. It bounds the checkpoints the replica counts by the primary's,
  as long as the replica takes none of its own, and that takes `PlaceInv`: a CHECKPOINT
  message has no number, so each connection is followed by the checkpoints taken before
  and after what is on the wire.
* `CaughtUpAlways`: `Spec => []CaughtUp`, and `SameNumbersAlways`: `Spec => []SameNumbers`, from one
  invariant, `JoinInv`. `TruthInv` says that every decision on the wire or in
  a server's memory is the one the primary took, `SessionInv` in which order a
  connection passes through its phases. `HoldInv`, which holds until a state is `spoiled`, is
  the argument: `LogInv` (the primary's records, `Recs`, are numbered from 1 and rise; they count as
  gone as soon as a checkpoint has begun), `ReadInv` (what was read for the replica and not yet sent
  is still the log),
  `FollowInv` (from the answer to TSEQNUM on the replica executes everything it is sent,
  before it nothing), `MemInv` (the replica's table is its checkpoint file with its
  records, in order), `MarkInv` (the checkpoints on their way), `NewestInv` (within
  one checkpoint the replica's records are a prefix of the primary's),
  `FileInv` (what `parse_log_string` will skip of the file on its way are the records the
  replica has) and `CoverInv` (what was committed before the answer is in the table
  or in that file). `CaughtUp` is `CoverInv` and `MemInv` once the file is used up, `SameNumbers` is
  `NewestInv` with `LogInv`.

`TabletProofs` proves, for any commands, checkpoints and crashes (no assumption on the
constants is used):

* `RecordIsSomewhere`: `Spec => []NothingForgotten`, and `DiskKeeps`: `Spec => []FlushedIsFound`.
  `PlaceInv`: records keep their order on the way from the queue through the stream to
  the log file, so a file that is cleared has only older records than what waits.
  `CountInv`, `KeptInv` and `DiskInv` add what a checkpoint covers, the one being written
  included, also while the process is down.

`MailboxProofs` proves, for any users, partitions and requests, any finite set of
sessions and any number of recipients (`MailboxAssumption`):

* `MailboxTypes`: `Spec => []TypeOK`; `SessionInv` and `RequestInv` say what a session that
  delivers and a request that deletes hold, in particular that the loops stay
  inside their lists.
* `MailboxAgrees`: `Spec => []InboxAgrees`, and `AckedMailStays`: `Spec => []AckedIsListed`. `BoxInv`,
  for each mailbox without a window: a mail listed and not yet stored belongs to one
  session and is known to nobody, so no request can delete it; a deleted
  mail is not listed again; an acknowledged one is listed and stored. What a process
  that ends leaves behind is, by the same invariant, the one mail of each session or
  request that was between its two writes.

`DriveProofs` proves, for any names, any set of requests, any depth of folders and any
drives to start from that are as uploads and new folders leave them
(`DriveAssumption`, with `IsDrive`: a listing names the entries of its folder once, a
cell of a file holds data):

* `DriveTypes`: `Spec => []TypeOK`.
* `DriveAgreesAlways`: `Spec => []DriveAgrees`, `FilesSurvive`: `Spec => []FileSurvives`, and
  `ThrowsAreRaced`: `Spec => []ThrownIsRaced`, from one invariant, `DriveInv`, which speaks of
  states where nothing is `spoiled` yet, so a request that starts in them goes by a page
  that still holds. `ApartInv`: the requests that run are about
  paths of which none is above another. `PhaseInv` says for each step of each
  request what it will find: the entry it erases is listed, the listing it holds is
  the one to write, the files of a renamed folder are partly under the old and
  partly under the new name, with the data of at most one in the hands of the
  request. `OwnedInv` and `KnownInv` are the agreement of listings and cells with its
  exceptions spelled out: which cells are not listed (`Orphan`) and which listed paths
  have no cell (`Wanting`) because of which request. Two requests may change one listing; that
  the second does not undo the first is `raced`, and otherwise a request changes only
  its own entries (`Minds`). `Rooted` is the one argument over the depth of a path:
  a move from another folder to "/" finds the listing of "/", because the moved entry is
  below an entry of it; a move within "/" that does not is `gone`. The theorems say what holds outside the windows of `spoiled`; that data
  is lost in a window, `gone` apart, is shown by TLC only.

Each of the inductive invariants above was an invariant of a TLC run before it was proved.

Only model-checked:

* liveness (`EveryCommandAnswered`, `FailureIsNoticed`, `Recovers`, `WaitingBegins`, `DeliveryEnds`,
  `RequestEnds`, `CatchesUp`), which the prover cannot do;
* `ScanIsLoop`, `RestartKeepsFlushed`, `MemoryIsCurrent`: they fold an operator over a
  sequence of any length (`ScanLoop`, `Recovered`, `After`), which takes induction over
  data and is out of the prover's reach.

## 6. Not modelled

* Accounts: signup, login, change of password, cookies and sessions.
* The administration pages, which read the state of the other processes, and the
  relay of STOP and START through them.
* Parsing and formatting of HTTP, URLs, chunks, cookies and mail headers (`chunk.cc`,
  `url.cc`, `cookie.cc`, `email.cc`, `fileutils.cc`): text without state. Names that
  are prefixes of each other are left out of `Drive`.
* Sending to the mail servers of other domains (`res_query`, MX records): pure I/O.
* Which tablet is dropped when memory is short, and the table of connections of each
  server with its limit.
* Two equal commands within one second, which share a hash (`create_hash`).
* `test_client.cpp`, page templates other than what `files.html` sends, and styles.

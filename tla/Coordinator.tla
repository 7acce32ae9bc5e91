---------------------------- MODULE Coordinator ----------------------------
(***************************************************************************)
(* The backend coordinator (backend/coordinator.cpp) and one partition of  *)
(* storage servers.  Partitions share no state but the mutex.              *)
(*                                                                         *)
(* Two threads: "storage" accepts the connections of storage servers,      *)
(* notices that they fail and elects primaries; "frontend" hands out       *)
(* servers to frontends and stops and starts servers for the               *)
(* administrator, which also elects primaries.  Both call                  *)
(* choose_random_server, and use its result after it released the mutex.   *)
(*                                                                         *)
(* What the coordinator writes to a server is taken as read: is_primary[s] *)
(* is what s believes once it has read everything sent to it.  A           *)
(* connection is named by the server and its incarnation.                  *)
(***************************************************************************)
EXTENDS Integers, Sequences, FiniteSets

CONSTANTS
    Server,          \* the storage servers of the partition
    Empty,           \* the empty string: no server
    NoEntry,         \* the partition has no entry in primary_server
    MaxIncarnation,  \* bound: how often a server process is started
    MaxTrouble       \* bound: restarts, late heartbeats and stops together

ASSUME CoordinatorAssumption ==
    /\ IsFiniteSet(Server)
    /\ Empty \notin Server /\ NoEntry \notin Server /\ Empty # NoEntry
    /\ MaxIncarnation \in Nat /\ MaxTrouble \in Nat

Thread == {"storage", "frontend"}
Conn   == [srv : Server, n : 1..MaxIncarnation]

VARIABLES
    alive_servers,     \* servers with a heartbeat
    paused_servers,    \* servers the administrator stopped
    primary_server,    \* the primary, "" or no entry
    all_servers,       \* heartbeat connections that are watched
    comm_fd,           \* per server: its communication connection, 0 if none
    server_heartbeat,  \* servers whose heartbeat has a time under their full name
    hb_backlog,        \* heartbeat connections not yet accepted
    comm_backlog,      \* communication connections not yet accepted
    comm_ready,        \* select() saw a communication connection
    pc, why, srv, chosen,  \* per thread: place, caller of the election, server
                           \* it is about, result of choose_random_server
    terminated,        \* an exception ended the coordinator
    up, incarnation,   \* per server: is the process up, and which one
    is_primary,        \* per server: it was told that it is the primary
    trouble,           \* history: restarts, late heartbeats and stops so far
    administered       \* history: the administrator has stopped a server

cvars == <<alive_servers, paused_servers, primary_server, all_servers, comm_fd,
           server_heartbeat>>
nvars == <<hb_backlog, comm_backlog, comm_ready>>
tvars == <<pc, why, srv, chosen, terminated>>
svars == <<up, incarnation, is_primary>>
bvars == <<trouble, administered>>
vars  == <<cvars, nvars, tvars, svars, bvars>>

Place == {"select", "first", "comm", "greet", "read", "failed",    \* storage
          "idle", "stopped", "started",                            \* frontend
          "choose", "spin", "assign"}                              \* both
Why   == {"none", "first", "failure", "ask", "stop", "start"}

TypeOK ==
    /\ alive_servers \subseteq Server
    /\ paused_servers \subseteq Server
    /\ primary_server \in Server \cup {Empty, NoEntry}
    /\ all_servers \subseteq Conn
    /\ comm_fd \in [Server -> 0..MaxIncarnation]
    /\ server_heartbeat \subseteq Server
    /\ hb_backlog \in Seq(Conn)
    /\ comm_backlog \in Seq(Conn)
    /\ comm_ready \in BOOLEAN
    /\ pc \in [Thread -> Place]
    /\ why \in [Thread -> Why]
    /\ srv \in [Thread -> Server \cup {Empty}]
    /\ chosen \in [Thread -> Server \cup {Empty}]
    /\ terminated \in BOOLEAN
    /\ up \in [Server -> BOOLEAN]
    /\ incarnation \in [Server -> 0..MaxIncarnation]
    /\ is_primary \in [Server -> BOOLEAN]
    /\ trouble \in 0..MaxTrouble
    /\ administered \in BOOLEAN

Init ==
    /\ alive_servers = {} /\ paused_servers = {} /\ primary_server = NoEntry
    /\ all_servers = {} /\ comm_fd = [s \in Server |-> 0]
    /\ server_heartbeat = {}
    /\ hb_backlog = <<>> /\ comm_backlog = <<>> /\ comm_ready = FALSE
    /\ pc = [t \in Thread |-> IF t = "storage" THEN "select" ELSE "idle"]
    /\ why = [t \in Thread |-> "none"]
    /\ srv = [t \in Thread |-> Empty]
    /\ chosen = [t \in Thread |-> Empty]
    /\ terminated = FALSE
    /\ up = [s \in Server |-> FALSE]
    /\ incarnation = [s \in Server |-> 0]
    /\ is_primary = [s \in Server |-> FALSE]
    /\ trouble = 0 /\ administered = FALSE

-----------------------------------------------------------------------------
(* Storage server processes.                                               *)

Trouble == trouble < MaxTrouble /\ trouble' = trouble + 1

(* A server starts: it connects for heartbeats, then for messages.         *)
Connect(s) ==
    LET c == [srv |-> s, n |-> incarnation[s] + 1] IN
    /\ ~up[s] /\ incarnation[s] < MaxIncarnation
    /\ IF incarnation[s] = 0 THEN UNCHANGED trouble ELSE Trouble
    /\ up' = [up EXCEPT ![s] = TRUE]
    /\ incarnation' = [incarnation EXCEPT ![s] = @ + 1]
    /\ hb_backlog' = Append(hb_backlog, c)
    /\ comm_backlog' = Append(comm_backlog, c)
    /\ UNCHANGED <<cvars, comm_ready, tvars, is_primary, administered>>

Crash(s) ==
    /\ up[s]
    /\ up' = [up EXCEPT ![s] = FALSE]
    /\ is_primary' = [is_primary EXCEPT ![s] = FALSE]
    /\ UNCHANGED <<cvars, nvars, tvars, incarnation, bvars>>

Closed(c) == ~up[c.srv] \/ incarnation[c.srv] # c.n

(* What is written to comm_fd[s] reaches s.                                *)
Hears(s) == up[s] /\ comm_fd[s] = incarnation[s]

-----------------------------------------------------------------------------
(* Elections.  A thread in "spin" holds alive_servers_mutex.               *)

MutexFree == \A t \in Thread : pc[t] # "spin"

Running(t, place) == ~terminated /\ pc[t] = place

(* The place where thread t goes on after an election.                     *)
Resume(t) == IF t = "frontend" THEN "idle"
             ELSE IF why[t] = "first" THEN "comm" ELSE "read"

(* choose_random_server: none when nobody is alive or when as many servers *)
(* are paused as are alive; otherwise draw until one is not paused.  The   *)
(* drawing goes on, the mutex held, while all that are alive are paused.   *)
LivePausedOnly == alive_servers \ paused_servers = {}

NoneToChoose ==
    \/ alive_servers = {}
    \/ Cardinality(alive_servers) = Cardinality(paused_servers)

(* What a draw yields once some alive server is not paused.                *)
Drawn == IF Cardinality(alive_servers) = Cardinality(paused_servers)
         THEN {Empty} ELSE alive_servers \ paused_servers

Choose(t) ==
    /\ Running(t, "choose") /\ MutexFree
    /\ IF ~NoneToChoose /\ LivePausedOnly
       THEN /\ pc' = [pc EXCEPT ![t] = "spin"]
            /\ UNCHANGED chosen
       ELSE /\ pc' = [pc EXCEPT ![t] = "assign"]
            /\ \E s \in IF NoneToChoose THEN {Empty} ELSE Drawn :
                 chosen' = [chosen EXCEPT ![t] = s]
    /\ UNCHANGED <<cvars, nvars, why, srv, terminated, svars, bvars>>

StopSpinning(t) ==
    /\ Running(t, "spin") /\ ~LivePausedOnly
    /\ pc' = [pc EXCEPT ![t] = "assign"]
    /\ \E s \in Drawn : chosen' = [chosen EXCEPT ![t] = s]
    /\ UNCHANGED <<cvars, nvars, why, srv, terminated, svars, bvars>>

(* Every alive server is told who the primary is.                          *)
ToldAll(p) ==                        \* seeded fault: the name is not compared
    [s \in Server |-> (s \in alive_servers /\ Hears(s)) \/ is_primary[s]]
Told(p) == [s \in Server |-> IF s \in alive_servers /\ Hears(s)
                             THEN s = p ELSE is_primary[s]]

(* The first primary of a partition is recorded and nobody is told.        *)
RecordFirst(t) ==
    /\ Running(t, "assign") /\ why[t] = "first"
    /\ primary_server' = chosen[t]
    /\ pc' = [pc EXCEPT ![t] = Resume(t)]
    /\ why' = [why EXCEPT ![t] = "none"]
    /\ chosen' = [chosen EXCEPT ![t] = Empty]
    /\ UNCHANGED <<alive_servers, paused_servers, all_servers, comm_fd,
                   server_heartbeat, nvars, srv, terminated, svars, bvars>>

(* HELO: the frontend is given the server or refused.                      *)
AnswerFrontend(t) ==
    /\ Running(t, "assign") /\ why[t] = "ask"
    /\ pc' = [pc EXCEPT ![t] = Resume(t)]
    /\ why' = [why EXCEPT ![t] = "none"]
    /\ chosen' = [chosen EXCEPT ![t] = Empty]
    /\ UNCHANGED <<cvars, nvars, srv, terminated, svars, bvars>>

(* The other elections record the new primary and tell all alive servers;  *)
(* without one the entry goes, and after a failure the alive servers too.  *)
InstallPrimary(t) ==
    /\ Running(t, "assign") /\ why[t] \in {"failure", "stop", "start"}
    /\ IF chosen[t] = Empty
       THEN /\ primary_server' = NoEntry
            /\ why[t] = "failure" => MutexFree
            /\ alive_servers' = IF why[t] = "failure" THEN {} ELSE alive_servers
            /\ UNCHANGED is_primary
       ELSE /\ MutexFree
            /\ primary_server' = chosen[t]
            /\ is_primary' = Told(chosen[t])
            /\ UNCHANGED alive_servers
    /\ pc' = [pc EXCEPT ![t] = Resume(t)]
    /\ why' = [why EXCEPT ![t] = "none"]
    /\ chosen' = [chosen EXCEPT ![t] = Empty]
    /\ UNCHANGED <<paused_servers, all_servers, comm_fd, server_heartbeat, nvars,
                   srv, terminated, up, incarnation, bvars>>

-----------------------------------------------------------------------------
(* The storage thread: one round of its select() loop.                     *)

(* all_servers after connection c was inserted.  Connections of one server *)
(* compare equal and their hashes differ by the descriptor: the new one is *)
(* dropped when it falls into the bucket of an old one.                    *)
Inserted(c) ==
    {all_servers \cup {c}} \cup
    {w \in {all_servers} : \E d \in w : d.srv = c.srv}

(* A new heartbeat connection, if there is one; that of a server still     *)
(* counted as alive ends the round.                                        *)
BeginRound ==
    LET c == Head(hb_backlog) IN
    /\ Running("storage", "select")
    /\ comm_ready' = (comm_backlog # <<>>)
    /\ IF hb_backlog = <<>>
       THEN /\ pc' = [pc EXCEPT !["storage"] = "comm"]
            /\ UNCHANGED <<hb_backlog, all_servers, alive_servers>>
       ELSE /\ MutexFree
            /\ hb_backlog' = Tail(hb_backlog)
            /\ all_servers' \in Inserted(c)
            /\ alive_servers' = alive_servers \cup {c.srv}
            /\ pc' = [pc EXCEPT !["storage"] =
                        IF c.srv \in alive_servers THEN "select" ELSE "first"]
    /\ UNCHANGED <<paused_servers, primary_server, comm_fd, server_heartbeat,
                   comm_backlog, why, srv, chosen, terminated, svars, bvars>>

CheckFirst ==
    /\ Running("storage", "first")
    /\ IF primary_server = NoEntry
       THEN /\ pc' = [pc EXCEPT !["storage"] = "choose"]
            /\ why' = [why EXCEPT !["storage"] = "first"]
       ELSE /\ pc' = [pc EXCEPT !["storage"] = "comm"]
            /\ UNCHANGED why
    /\ UNCHANGED <<cvars, nvars, srv, chosen, terminated, svars, bvars>>

(* A new communication connection: told that there is no primary, or ...   *)
AcceptComm ==
    LET c == Head(comm_backlog) IN
    /\ Running("storage", "comm")
    /\ IF comm_ready
       THEN /\ comm_backlog' = Tail(comm_backlog)
            /\ comm_fd' = [comm_fd EXCEPT ![c.srv] = c.n]
            /\ IF primary_server = NoEntry
               THEN /\ pc' = [pc EXCEPT !["storage"] = "read"]
                    /\ UNCHANGED srv
               ELSE /\ pc' = [pc EXCEPT !["storage"] = "greet"]
                    /\ srv' = [srv EXCEPT !["storage"] = c.srv]
       ELSE /\ pc' = [pc EXCEPT !["storage"] = "read"]
            /\ UNCHANGED <<comm_backlog, comm_fd, srv>>
    /\ comm_ready' = FALSE
    /\ UNCHANGED <<alive_servers, paused_servers, primary_server, all_servers,
                   server_heartbeat, hb_backlog, why, chosen, terminated, svars,
                   bvars>>

(* ... who it is.  The name is split into its ports, and the empty name    *)
(* has none: the exception is not caught.                                  *)
Greet ==
    LET s == srv["storage"] IN
    /\ Running("storage", "greet") /\ MutexFree
    /\ IF primary_server \in Server
       THEN /\ is_primary' = IF Hears(s) THEN [is_primary EXCEPT ![s] = primary_server = s]
                             ELSE is_primary
            /\ pc' = [pc EXCEPT !["storage"] = "read"]
            /\ UNCHANGED terminated
       ELSE /\ terminated' = TRUE
            /\ UNCHANGED <<is_primary, pc>>
    /\ srv' = [srv EXCEPT !["storage"] = Empty]
    /\ UNCHANGED <<cvars, nvars, why, chosen, up, incarnation, bvars>>

(* A heartbeat arrives.                                                    *)
Heartbeat(c) ==
    /\ Running("storage", "read") /\ c \in all_servers /\ ~Closed(c)
    /\ c.srv \notin server_heartbeat
    /\ server_heartbeat' = server_heartbeat \cup {c.srv}
    /\ UNCHANGED <<alive_servers, paused_servers, primary_server, all_servers,
                   comm_fd, nvars, tvars, svars, bvars>>

(* handle_server_failure, first part: forget the server.                   *)
ForgetButAlive(c) ==                 \* seeded fault: alive_servers keeps it
    /\ MutexFree
    /\ all_servers' = all_servers \ {c}
    /\ comm_fd' = [comm_fd EXCEPT ![c.srv] = 0]
    /\ server_heartbeat' = server_heartbeat \ {c.srv}
    /\ srv' = [srv EXCEPT !["storage"] = c.srv]
    /\ pc' = [pc EXCEPT !["storage"] = "failed"]
    /\ UNCHANGED <<alive_servers, paused_servers, primary_server, nvars, why,
                   chosen, terminated, svars>>

Forget(c) ==
    /\ MutexFree
    /\ all_servers' = all_servers \ {c}
    /\ alive_servers' = alive_servers \ {c.srv}
    /\ comm_fd' = [comm_fd EXCEPT ![c.srv] = 0]
    /\ server_heartbeat' = server_heartbeat \ {c.srv}
    /\ srv' = [srv EXCEPT !["storage"] = c.srv]
    /\ pc' = [pc EXCEPT !["storage"] = "failed"]
    /\ UNCHANGED <<paused_servers, primary_server, nvars, why, chosen, terminated,
                   svars>>

(* The connection was closed, or its heartbeat is too old.                 *)
NoticeClosedOnceHeard(c) ==          \* seeded fault: only after a heartbeat
    /\ Running("storage", "read") /\ c \in all_servers /\ Closed(c)
    /\ c.srv \in server_heartbeat
    /\ Forget(c)
    /\ UNCHANGED bvars

NoticeClosed(c) ==
    /\ Running("storage", "read") /\ c \in all_servers /\ Closed(c)
    /\ Forget(c)
    /\ UNCHANGED bvars

NoticeLate(c) ==
    /\ Running("storage", "read") /\ c \in all_servers
    /\ c.srv \in server_heartbeat /\ Trouble
    /\ Forget(c)
    /\ UNCHANGED administered

(* Second part: was it the primary?  Looking it up creates its entry.      *)
LookedUp == IF primary_server = NoEntry THEN Empty ELSE primary_server

CheckNothing ==                      \* seeded fault: no election after a failure
    /\ Running("storage", "failed")
    /\ primary_server' = LookedUp
    /\ pc' = [pc EXCEPT !["storage"] = "read"]
    /\ srv' = [srv EXCEPT !["storage"] = Empty]
    /\ UNCHANGED <<alive_servers, paused_servers, all_servers, comm_fd,
                   server_heartbeat, nvars, why, chosen, terminated, svars, bvars>>

ElectAlways ==                       \* seeded fault: election after any failure
    /\ Running("storage", "failed")
    /\ primary_server' = LookedUp
    /\ pc' = [pc EXCEPT !["storage"] = "choose"]
    /\ why' = [why EXCEPT !["storage"] = "failure"]
    /\ srv' = [srv EXCEPT !["storage"] = Empty]
    /\ UNCHANGED <<alive_servers, paused_servers, all_servers, comm_fd,
                   server_heartbeat, nvars, chosen, terminated, svars, bvars>>

CheckFailed ==
    /\ Running("storage", "failed")
    /\ primary_server' = LookedUp
    /\ IF primary_server = srv["storage"]
       THEN /\ pc' = [pc EXCEPT !["storage"] = "choose"]
            /\ why' = [why EXCEPT !["storage"] = "failure"]
       ELSE /\ pc' = [pc EXCEPT !["storage"] = "read"]
            /\ UNCHANGED why
    /\ srv' = [srv EXCEPT !["storage"] = Empty]
    /\ UNCHANGED <<alive_servers, paused_servers, all_servers, comm_fd,
                   server_heartbeat, nvars, chosen, terminated, svars, bvars>>

EndRound ==
    /\ Running("storage", "read")
    /\ pc' = [pc EXCEPT !["storage"] = "select"]
    /\ UNCHANGED <<cvars, nvars, why, srv, chosen, terminated, svars, bvars>>

-----------------------------------------------------------------------------
(* The frontend thread.                                                    *)

(* HELO: a frontend asks for a server.                                     *)
AskServer ==
    /\ Running("frontend", "idle")
    /\ pc' = [pc EXCEPT !["frontend"] = "choose"]
    /\ why' = [why EXCEPT !["frontend"] = "ask"]
    /\ UNCHANGED <<cvars, nvars, srv, chosen, terminated, svars, bvars>>

(* STOP: pause the server and tell it; a server told so is no primary.     *)
Stop(s) ==
    /\ Running("frontend", "idle") /\ s \notin paused_servers /\ Trouble
    /\ administered' = TRUE
    /\ paused_servers' = paused_servers \cup {s}
    /\ is_primary' = IF Hears(s) THEN [is_primary EXCEPT ![s] = FALSE] ELSE is_primary
    /\ srv' = [srv EXCEPT !["frontend"] = s]
    /\ pc' = [pc EXCEPT !["frontend"] = "stopped"]
    /\ UNCHANGED <<alive_servers, primary_server, all_servers, comm_fd,
                   server_heartbeat, nvars, why, chosen, terminated, up,
                   incarnation>>

CheckStopped ==
    /\ Running("frontend", "stopped")
    /\ primary_server' = LookedUp
    /\ IF primary_server = srv["frontend"]
       THEN /\ pc' = [pc EXCEPT !["frontend"] = "choose"]
            /\ why' = [why EXCEPT !["frontend"] = "stop"]
       ELSE /\ pc' = [pc EXCEPT !["frontend"] = "idle"]
            /\ UNCHANGED why
    /\ srv' = [srv EXCEPT !["frontend"] = Empty]
    /\ UNCHANGED <<alive_servers, paused_servers, all_servers, comm_fd,
                   server_heartbeat, nvars, chosen, terminated, svars, bvars>>

(* START: resume the server; elect a primary if the partition has none.    *)
Start(s) ==
    /\ Running("frontend", "idle") /\ s \in paused_servers
    /\ paused_servers' = paused_servers \ {s}
    /\ pc' = [pc EXCEPT !["frontend"] = "started"]
    /\ UNCHANGED <<alive_servers, primary_server, all_servers, comm_fd,
                   server_heartbeat, nvars, why, srv, chosen, terminated, svars,
                   bvars>>

CheckStarted ==
    /\ Running("frontend", "started")
    /\ IF primary_server = NoEntry
       THEN /\ pc' = [pc EXCEPT !["frontend"] = "choose"]
            /\ why' = [why EXCEPT !["frontend"] = "start"]
       ELSE /\ pc' = [pc EXCEPT !["frontend"] = "idle"]
            /\ UNCHANGED why
    /\ UNCHANGED <<cvars, nvars, srv, chosen, terminated, svars, bvars>>

-----------------------------------------------------------------------------
Election(t) == Choose(t) \/ StopSpinning(t) \/ InstallPrimary(t)
StorageStep ==
    \/ BeginRound \/ CheckFirst \/ AcceptComm \/ Greet \/ CheckFailed \/ EndRound
    \/ RecordFirst("storage") \/ Election("storage")
    \/ \E c \in all_servers : Heartbeat(c) \/ NoticeClosed(c) \/ NoticeLate(c)
FrontendStep ==
    \/ AskServer \/ AnswerFrontend("frontend") \/ CheckStopped \/ CheckStarted
    \/ Election("frontend")
    \/ \E s \in Server : Stop(s) \/ Start(s)

Next ==
    \/ StorageStep
    \/ FrontendStep
    \/ \E s \in Server : Connect(s) \/ Crash(s)

Spec == Init /\ [][Next]_vars

(* Both threads run for ever; a round of the storage thread reads every    *)
(* connection that select() reported, so a closed one is not passed over   *)
(* again and again.  Nothing obliges servers to start or to crash, or      *)
(* anyone to send a request.                                               *)
Fairness ==
    /\ WF_vars(StorageStep)
    /\ \A c \in Conn : SF_vars(NoticeClosed(c))
    /\ WF_vars(AnswerFrontend("frontend") \/ CheckStopped \/ CheckStarted
                \/ Election("frontend"))

FairSpec == Spec /\ Fairness

-----------------------------------------------------------------------------
(* Properties.  Many hold only until the administrator intervenes: then    *)
(* two threads elect, and neither holds the mutex from the question        *)
(* whether a primary is needed to the answer.                              *)

Electing == pc["storage"] \notin {"select", "comm", "greet", "read"}

(* A server counted as alive has a heartbeat connection that is watched:   *)
(* otherwise its failure would never be noticed (accept_storage_           *)
(* connections, handle_server_failure).                                    *)
AliveIsWatched == \A s \in alive_servers : \E c \in all_servers : c.srv = s

(* The recorded primary is alive whenever the storage thread is not in the *)
(* middle of an election, whatever crashes, restarts and late heartbeats   *)
(* happened.                                                               *)
ElectedIsAlive ==
    ~administered /\ ~Electing /\ primary_server \in Server
        => primary_server \in alive_servers

(* A server that the coordinator can talk to and that was told it is the   *)
(* primary is the recorded primary, alive or given up, during elections    *)
(* too: no two servers that the coordinator reaches lead the partition     *)
(* (Told, Greet).                                                          *)
BelieverIsRecorded ==
    \A s \in Server :
        ~administered /\ Hears(s) /\ is_primary[s] => primary_server = s

(* A primary that is alive is never replaced (handle_server_failure        *)
(* elects only when the primary itself failed).                            *)
PrimaryIsStable ==
    [][~administered' /\ primary_server' # primary_server
         => primary_server \notin alive_servers]_vars

(* A server that has crashed is not counted as alive for ever.             *)
FailureIsNoticed ==
    [](~administered) =>
        \A s \in Server : (s \in alive_servers /\ ~up[s])
                           ~> (s \notin alive_servers \/ up[s] \/ terminated)

(* "if no primary server, then send ERR" (coordinator.cpp, new comm        *)
(* connection): a server that connects while there is no primary is told   *)
(* so.  The empty name, left behind by a lookup in primary_server, ends    *)
(* the coordinator instead.                                                *)
NoPrimaryIsReported == ~terminated
=============================================================================

------------------------- MODULE CoordinatorProofs -------------------------
(***************************************************************************)
(* Theorems about Coordinator, for any number of storage servers, restarts *)
(* and late heartbeats.                                                    *)
(***************************************************************************)
EXTENDS Coordinator, TLAPS

(* A communication connection that select() reported is still there.       *)
ReadyInv == comm_ready => comm_backlog # <<>>

(* The frontend thread never handles a failure nor a first election.       *)
WhyInv == why["frontend"] \in {"none", "ask", "stop", "start"}

(* Before the first STOP nothing is paused and the frontend thread only    *)
(* answers HELO.                                                           *)
CalmInv ==
    ~administered =>
        /\ paused_servers = {}
        /\ pc["frontend"] \notin {"stopped", "started"}
        /\ why["frontend"] \in {"none", "ask"}

(* What the storage thread has chosen is alive: only it changes            *)
(* alive_servers.                                                          *)
ChosenInv == pc["storage"] = "assign" => chosen["storage"] \in alive_servers \cup {Empty}

(* The recorded primary is alive, or it is the server whose failure is     *)
(* being handled, or an election is on and will replace it.                *)
PrimaryInv ==
    ~administered /\ primary_server \in Server =>
        \/ primary_server \in alive_servers
        \/ pc["storage"] = "failed" /\ primary_server = srv["storage"]
        \/ pc["storage"] \in {"choose", "spin", "assign"}

(* Who the storage thread elects for.  A first primary is chosen while     *)
(* there is none, and the primary that failed is neither alive nor         *)
(* reached: only this thread adds servers and accepts their connections,   *)
(* and it does neither until the election is over.                         *)
Elects == pc["storage"] \in {"choose", "spin", "assign"}

Gone(s) == s \notin alive_servers /\ (s \in Server => comm_fd[s] = 0)

ElectionInv ==
    /\ why["storage"] \in {"none", "first", "failure"}
    /\ pc["storage"] = "failed" => srv["storage"] \in Server /\ Gone(srv["storage"])
    /\ ~administered /\ Elects =>
         /\ why["storage"] # "none"
         /\ why["storage"] = "first" => primary_server = NoEntry
         /\ why["storage"] = "failure" => Gone(primary_server)

(* The connections of a server are accepted in the order of its starts: the *)
(* one accepted last is older than those that wait, and the process behind *)
(* a waiting connection has not been told anything.                        *)
BacklogInv ==
    /\ \A s \in Server : (is_primary[s] => up[s]) /\ (up[s] => incarnation[s] > 0)
    /\ \A s \in Server : comm_fd[s] <= incarnation[s]
    /\ \A i \in DOMAIN comm_backlog :
         LET c == comm_backlog[i] IN
         /\ comm_fd[c.srv] < c.n /\ c.n <= incarnation[c.srv]
         /\ c.n = incarnation[c.srv] => ~is_primary[c.srv]
         /\ \A j \in DOMAIN comm_backlog :
              i < j /\ comm_backlog[j].srv = c.srv => c.n < comm_backlog[j].n

TypeInv == TypeOK /\ ReadyInv
IInv == TypeInv /\ WhyInv /\ CalmInv /\ ChosenInv /\ PrimaryInv
BelieverInv == IInv /\ ElectionInv /\ BacklogInv /\ BelieverIsRecorded

(* A connection belongs to a server and has an incarnation.                *)
LEMMA ConnFields ==
    \A c \in Conn : c.srv \in Server /\ c.n \in 0..MaxIncarnation
BY CoordinatorAssumption DEF Conn

(* The names of places, callers and threads, so that the steps below need  *)
(* not enumerate the sets.                                                 *)
LEMMA Names ==
    /\ "select" \in Place /\ "first" \in Place /\ "comm" \in Place
    /\ "greet" \in Place /\ "read" \in Place /\ "failed" \in Place
    /\ "idle" \in Place /\ "stopped" \in Place /\ "started" \in Place
    /\ "choose" \in Place /\ "spin" \in Place /\ "assign" \in Place
    /\ "none" \in Why /\ "first" \in Why /\ "failure" \in Why
    /\ "ask" \in Why /\ "stop" \in Why /\ "start" \in Why
    /\ "storage" \in Thread /\ "frontend" \in Thread
BY DEF Place, Why, Thread

(* The types hold initially.                                               *)
LEMMA TypeInit == Init => TypeInv
<1> SUFFICES ASSUME Init PROVE TypeInv
  OBVIOUS
<1>1. hb_backlog \in Seq(Conn) /\ comm_backlog \in Seq(Conn) /\ ReadyInv
  BY DEF Init, ReadyInv
<1>2. pc \in [Thread -> Place] /\ why \in [Thread -> Why]
  BY DEF Init, Place, Why
<1>3. /\ comm_fd \in [Server -> 0..MaxIncarnation]
      /\ incarnation \in [Server -> 0..MaxIncarnation]
      /\ trouble \in 0..MaxTrouble
  BY CoordinatorAssumption DEF Init
<1>4. /\ srv \in [Thread -> Server \cup {Empty}]
      /\ chosen \in [Thread -> Server \cup {Empty}]
      /\ up \in [Server -> BOOLEAN]
      /\ is_primary \in [Server -> BOOLEAN]
  BY DEF Init
<1>5. /\ alive_servers \subseteq Server /\ paused_servers \subseteq Server
      /\ all_servers \subseteq Conn /\ server_heartbeat \subseteq Server
      /\ primary_server \in Server \cup {Empty, NoEntry}
      /\ comm_ready \in BOOLEAN /\ terminated \in BOOLEAN /\ administered \in BOOLEAN
  BY DEF Init
<1>6. QED
  BY <1>1, <1>2, <1>3, <1>4, <1>5 DEF TypeInv, TypeOK

(* Every step keeps the types.                                             *)
LEMMA TypeStep ==
    ASSUME TypeInv, [Next]_vars
    PROVE  TypeInv'
<1> USE CoordinatorAssumption, Names
<1>30. pc \in [Thread -> Place] /\ why \in [Thread -> Why]
  BY DEF TypeInv, TypeOK
<1>31. /\ srv \in [Thread -> Server \cup {Empty}]
       /\ chosen \in [Thread -> Server \cup {Empty}]
  BY DEF TypeInv, TypeOK
<1>1. CASE BeginRound
  <2>1. comm_ready' \in BOOLEAN /\ ReadyInv'
    BY <1>1, Zenon DEF BeginRound, vars, cvars, nvars, tvars, svars, bvars, TypeInv, TypeOK, ReadyInv
  <2>2. CASE hb_backlog = <<>>
    <3>1. pc' \in [Thread -> Place]
      BY <1>1, <1>30, <2>2 DEF BeginRound
    <3>2. UNCHANGED <<hb_backlog, all_servers, alive_servers, paused_servers,
                      primary_server, comm_fd, server_heartbeat, comm_backlog, why,
                      srv, chosen, terminated, svars, bvars>>
      BY <1>1, <2>2 DEF BeginRound
    <3>3. QED
      BY <2>1, <3>1, <3>2 DEF svars, bvars, TypeInv, TypeOK, ReadyInv
  <2>3. CASE hb_backlog # <<>>
    <3>1. Head(hb_backlog) \in Conn /\ Tail(hb_backlog) \in Seq(Conn)
      <4> QED BY <2>3 DEF TypeInv, TypeOK, ReadyInv
    <3> DEFINE c == Head(hb_backlog)
    <3>2. all_servers' \subseteq Conn /\ alive_servers' \subseteq Server
      <4>1. all_servers' \in Inserted(c) /\ alive_servers' = alive_servers \cup {c.srv}
        BY <1>1, <2>3 DEF BeginRound
      <4>2. c \in Conn /\ c.srv \in Server
        BY <3>1, ConnFields
      <4> HIDE DEF c
      <4>3. QED
        BY <4>1, <4>2 DEF Inserted, TypeInv, TypeOK, ReadyInv
    <3>3. pc' \in [Thread -> Place]
      BY <1>30, <1>1, <2>3 DEF BeginRound
    <3>4. QED
      BY <1>1, <2>1, <2>3, <3>1, <3>2, <3>3 DEF BeginRound, vars, cvars, nvars, tvars, svars, bvars, TypeInv, TypeOK, ReadyInv
  <2>4. QED
    BY <2>2, <2>3
<1>2. CASE CheckFirst
  <2>1. pc' \in [Thread -> Place] /\ why' \in [Thread -> Why]
    BY <1>30, <1>2 DEF CheckFirst
  <2>2. QED
    BY <1>2, <2>1 DEF CheckFirst, vars, cvars, nvars, tvars, svars, bvars, TypeInv, TypeOK, ReadyInv
<1>3. CASE AcceptComm
  <2>1. CASE comm_ready
    <3>1. comm_backlog # <<>>
      BY <2>1 DEF TypeInv, TypeOK, ReadyInv
    <3>2. Head(comm_backlog) \in Conn /\ Tail(comm_backlog) \in Seq(Conn)
      <4> QED BY <3>1 DEF TypeInv, TypeOK, ReadyInv
    <3> DEFINE c == Head(comm_backlog)
    <3>3. c.srv \in Server /\ c.n \in 0..MaxIncarnation
      <4> QED BY <3>2, ConnFields
    <3>4. /\ comm_fd' \in [Server -> 0..MaxIncarnation]
          /\ srv' \in [Thread -> Server \cup {Empty}]
      <4>1. /\ comm_fd' = [comm_fd EXCEPT ![c.srv] = c.n]
            /\ srv' = srv \/ srv' = [srv EXCEPT !["storage"] = c.srv]
        BY <1>3, <2>1 DEF AcceptComm
      <4> HIDE DEF c
      <4>2. QED
        BY <3>3, <4>1 DEF TypeInv, TypeOK, ReadyInv
    <3>5. pc' \in [Thread -> Place]
      BY <1>30, <1>3, <2>1 DEF AcceptComm
    <3>6. QED
      BY <1>3, <2>1, <3>2, <3>4, <3>5 DEF AcceptComm, vars, cvars, nvars, tvars, svars, bvars, TypeInv, TypeOK, ReadyInv
  <2>2. CASE ~comm_ready
    <3>1. pc' \in [Thread -> Place] /\ comm_ready' = FALSE
      BY <1>3, <1>30, <2>2 DEF AcceptComm
    <3>2. UNCHANGED <<comm_backlog, comm_fd, srv, alive_servers, paused_servers,
                      primary_server, all_servers, server_heartbeat, hb_backlog,
                      why, chosen, terminated, svars, bvars>>
      BY <1>3, <2>2 DEF AcceptComm
    <3>3. QED
      BY <3>1, <3>2 DEF svars, bvars, TypeInv, TypeOK, ReadyInv
  <2>3. QED
    BY <2>1, <2>2
<1>4. CASE Greet
  <2>1. is_primary' \in [Server -> BOOLEAN]
    BY <1>4 DEF Greet, TypeInv, TypeOK, ReadyInv
  <2>2. pc' \in [Thread -> Place]
    BY <1>30, <1>4 DEF Greet
  <2>6. terminated' \in BOOLEAN
    BY <1>4 DEF Greet, TypeInv, TypeOK
  <2>3. srv' \in [Thread -> Server \cup {Empty}]
    BY <1>31, <1>4 DEF Greet
  <2>4. UNCHANGED <<cvars, nvars, why, chosen, up, incarnation, bvars>>
    BY <1>4 DEF Greet
  <2>5. QED
    BY <2>1, <2>2, <2>3, <2>4, <2>6 DEF cvars, nvars, bvars, TypeInv, TypeOK, ReadyInv
<1>5. CASE CheckFailed
  <2>1. primary_server' \in Server \cup {Empty, NoEntry}
    BY <1>5 DEF CheckFailed, LookedUp, TypeInv, TypeOK, ReadyInv
  <2>2. pc' \in [Thread -> Place] /\ why' \in [Thread -> Why]
    BY <1>30, <1>5 DEF CheckFailed
  <2>3. srv' \in [Thread -> Server \cup {Empty}]
    BY <1>31, <1>5 DEF CheckFailed
  <2>4. UNCHANGED <<alive_servers, paused_servers, all_servers, comm_fd,
                    server_heartbeat, nvars, chosen, terminated, svars, bvars>>
    BY <1>5 DEF CheckFailed
  <2>5. QED
    BY <2>1, <2>2, <2>3, <2>4 DEF nvars, svars, bvars, TypeInv, TypeOK, ReadyInv
<1>6. CASE EndRound
  BY <1>6 DEF EndRound, Running, vars, cvars, nvars, tvars, svars, bvars, TypeInv, TypeOK, ReadyInv
<1>7. CASE RecordFirst("storage")
  BY <1>7 DEF RecordFirst, Running, Resume, vars, cvars, nvars, tvars, svars, bvars, TypeInv, TypeOK, ReadyInv
<1>8. ASSUME NEW t \in Thread, Choose(t) PROVE TypeInv'
  <2>1. Drawn \subseteq Server \cup {Empty}
    BY DEF Drawn, TypeInv, TypeOK, ReadyInv
  <2>2. chosen' \in [Thread -> Server \cup {Empty}]
    <3>1. CASE ~NoneToChoose /\ LivePausedOnly
      BY <1>8, <3>1 DEF Choose, TypeInv, TypeOK, ReadyInv
    <3>2. CASE ~(~NoneToChoose /\ LivePausedOnly)
      <4>1. PICK s \in Server \cup {Empty} : chosen' = [chosen EXCEPT ![t] = s]
        BY <1>8, <2>1, <3>2 DEF Choose
      <4>2. QED
        BY <4>1 DEF TypeInv, TypeOK, ReadyInv
    <3>3. QED
      BY <3>1, <3>2
  <2>3. pc' \in [Thread -> Place]
    BY <1>30, <1>8 DEF Choose
  <2>4. UNCHANGED <<cvars, nvars, why, srv, terminated, svars, bvars>>
    BY <1>8 DEF Choose
  <2>5. QED
    BY <2>2, <2>3, <2>4 DEF cvars, nvars, svars, bvars, TypeInv, TypeOK, ReadyInv
<1>9. ASSUME NEW t \in Thread, StopSpinning(t) PROVE TypeInv'
  <2>1. Drawn \subseteq Server \cup {Empty}
    BY DEF Drawn, TypeInv, TypeOK, ReadyInv
  <2>2. PICK s \in Server \cup {Empty} : chosen' = [chosen EXCEPT ![t] = s]
    BY <1>9, <2>1 DEF StopSpinning
  <2>3. chosen' \in [Thread -> Server \cup {Empty}]
    BY <2>2 DEF TypeInv, TypeOK, ReadyInv
  <2>4. pc' \in [Thread -> Place]
    BY <1>30, <1>9 DEF StopSpinning
  <2>5. UNCHANGED <<cvars, nvars, why, srv, terminated, svars, bvars>>
    BY <1>9 DEF StopSpinning
  <2>6. QED
    BY <2>3, <2>4, <2>5 DEF cvars, nvars, svars, bvars, TypeInv, TypeOK, ReadyInv
<1>10. ASSUME NEW t \in Thread, InstallPrimary(t) PROVE TypeInv'
  BY <1>10 DEF InstallPrimary, Running, Resume, Told, Hears, vars, cvars, nvars, tvars, svars, bvars, TypeInv, TypeOK, ReadyInv
<1>11. ASSUME NEW c \in all_servers, Heartbeat(c) PROVE TypeInv'
  BY <1>11, ConnFields DEF Heartbeat, Running, vars, cvars, nvars, tvars, svars, bvars, TypeInv, TypeOK, ReadyInv
<1>12. ASSUME NEW c \in all_servers, NoticeClosed(c) PROVE TypeInv'
  BY <1>12, ConnFields DEF NoticeClosed, Forget, Running, vars, cvars, nvars, tvars, svars, bvars, TypeInv, TypeOK, ReadyInv
<1>13. ASSUME NEW c \in all_servers, NoticeLate(c) PROVE TypeInv'
  BY <1>13, ConnFields DEF NoticeLate, Forget, Running, Trouble, vars, cvars, nvars, tvars, svars, bvars, TypeInv, TypeOK, ReadyInv
<1>14. CASE AskServer
  BY <1>14 DEF AskServer, Running, vars, cvars, nvars, tvars, svars, bvars, TypeInv, TypeOK, ReadyInv
<1>15. CASE AnswerFrontend("frontend")
  BY <1>15 DEF AnswerFrontend, Running, Resume, vars, cvars, nvars, tvars, svars, bvars, TypeInv, TypeOK, ReadyInv
<1>16. CASE CheckStopped
  <2>1. primary_server' \in Server \cup {Empty, NoEntry}
    BY <1>16 DEF CheckStopped, LookedUp, TypeInv, TypeOK, ReadyInv
  <2>2. pc' \in [Thread -> Place] /\ why' \in [Thread -> Why]
    BY <1>30, <1>16 DEF CheckStopped
  <2>3. srv' \in [Thread -> Server \cup {Empty}]
    BY <1>31, <1>16 DEF CheckStopped
  <2>4. UNCHANGED <<alive_servers, paused_servers, all_servers, comm_fd,
                    server_heartbeat, nvars, chosen, terminated, svars, bvars>>
    BY <1>16 DEF CheckStopped
  <2>5. QED
    BY <2>1, <2>2, <2>3, <2>4 DEF nvars, svars, bvars, TypeInv, TypeOK, ReadyInv
<1>17. ASSUME NEW s \in Server, Stop(s) PROVE TypeInv'
  <2>1. is_primary' \in [Server -> BOOLEAN]
    BY <1>17 DEF Stop, TypeInv, TypeOK, ReadyInv
  <2>2. /\ pc' \in [Thread -> Place]
        /\ srv' \in [Thread -> Server \cup {Empty}]
    BY <1>30, <1>31, <1>17 DEF Stop
  <2>0. trouble' \in 0..MaxTrouble
    BY <1>17 DEF Stop, Trouble, TypeInv, TypeOK, ReadyInv
  <2>3. /\ paused_servers' \subseteq Server /\ administered' \in BOOLEAN
        /\ UNCHANGED <<alive_servers, primary_server, all_servers, comm_fd,
                       server_heartbeat, nvars, why, chosen, terminated, up,
                       incarnation>>
    BY <1>17 DEF Stop, TypeInv, TypeOK
  <2>4. QED
    BY <2>1, <2>2, <2>0, <2>3 DEF nvars, TypeInv, TypeOK, ReadyInv
<1>18. ASSUME NEW s \in Server, Start(s) PROVE TypeInv'
  BY <1>18 DEF Start, Running, vars, cvars, nvars, tvars, svars, bvars, TypeInv, TypeOK, ReadyInv
<1>19. CASE CheckStarted
  <2>1. pc' \in [Thread -> Place] /\ why' \in [Thread -> Why]
    BY <1>30, <1>19 DEF CheckStarted
  <2>2. QED
    BY <1>19, <2>1 DEF CheckStarted, vars, cvars, nvars, tvars, svars, bvars, TypeInv, TypeOK, ReadyInv
<1>20. ASSUME NEW s \in Server, Connect(s) PROVE TypeInv'
  <2> DEFINE c == [srv |-> s, n |-> incarnation[s] + 1]
  <2>1. c \in Conn
    <3>1. incarnation[s] \in 0..MaxIncarnation /\ incarnation[s] < MaxIncarnation
      BY <1>20 DEF Connect, TypeInv, TypeOK, ReadyInv
    <3>2. QED
      BY <3>1 DEF Conn
  <2>2. hb_backlog' \in Seq(Conn) /\ comm_backlog' \in Seq(Conn) /\ comm_backlog' # <<>>
    <3>1. hb_backlog' = Append(hb_backlog, c) /\ comm_backlog' = Append(comm_backlog, c)
      BY <1>20 DEF Connect
    <3> HIDE DEF c
    <3>2. QED
      BY <2>1, <3>1 DEF TypeInv, TypeOK, ReadyInv
  <2>3. trouble' \in 0..MaxTrouble
    BY <1>20 DEF Connect, Trouble, TypeInv, TypeOK, ReadyInv
  <2>4. /\ up' \in [Server -> BOOLEAN]
        /\ incarnation' \in [Server -> 0..MaxIncarnation]
    <3>1. up' = [up EXCEPT ![s] = TRUE]
      BY <1>20 DEF Connect
    <3>2. /\ incarnation' = [incarnation EXCEPT ![s] = @ + 1]
          /\ incarnation[s] < MaxIncarnation
      BY <1>20 DEF Connect, TypeInv, TypeOK, ReadyInv
    <3>3. QED
      BY <3>1, <3>2 DEF TypeInv, TypeOK, ReadyInv
  <2>5. UNCHANGED <<cvars, comm_ready, tvars, is_primary, administered>>
    BY <1>20 DEF Connect
  <2>6. QED
    BY <2>2, <2>3, <2>4, <2>5 DEF cvars, tvars, TypeInv, TypeOK, ReadyInv
<1>21. ASSUME NEW s \in Server, Crash(s) PROVE TypeInv'
  BY <1>21 DEF Crash, vars, cvars, nvars, tvars, svars, bvars, TypeInv, TypeOK, ReadyInv
<1>22. CASE UNCHANGED vars
  BY <1>22 DEF vars, cvars, nvars, tvars, svars, bvars, TypeInv, TypeOK, ReadyInv
<1>23. QED
  BY <1>1, <1>2, <1>3, <1>4, <1>5, <1>6, <1>7, <1>8, <1>9, <1>10, <1>11, <1>12, <1>13, <1>14, <1>15, <1>16, <1>17, <1>18, <1>19, <1>20, <1>21, <1>22
     DEF Next, StorageStep, FrontendStep, Election

(* Every step keeps the rest of the invariant.                             *)
LEMMA PrimaryStep ==
    ASSUME IInv, TypeInv', [Next]_vars
    PROVE  (WhyInv /\ CalmInv /\ ChosenInv /\ PrimaryInv)'
<1> USE CoordinatorAssumption DEF IInv, WhyInv, CalmInv, ChosenInv, PrimaryInv, TypeInv, TypeOK, ReadyInv, Conn, Place, Why, Thread
<1>1. CASE BeginRound
  BY <1>1 DEF BeginRound, Running, vars, cvars, nvars, tvars, svars, bvars
<1>2. CASE CheckFirst
  BY <1>2 DEF CheckFirst, Running, vars, cvars, nvars, tvars, svars, bvars
<1>3. CASE AcceptComm
  BY <1>3 DEF AcceptComm, Running, vars, cvars, nvars, tvars, svars, bvars
<1>4. CASE Greet
  BY <1>4 DEF Greet, Running, Hears, vars, cvars, nvars, tvars, svars, bvars
<1>5. CASE CheckFailed
  BY <1>5 DEF CheckFailed, Running, LookedUp, vars, cvars, nvars, tvars, svars, bvars
<1>6. CASE EndRound
  BY <1>6 DEF EndRound, Running, vars, cvars, nvars, tvars, svars, bvars
<1>7. CASE RecordFirst("storage")
  BY <1>7 DEF RecordFirst, Running, Resume, vars, cvars, nvars, tvars, svars, bvars
<1>8. ASSUME NEW t \in Thread, Choose(t) PROVE (WhyInv /\ CalmInv /\ ChosenInv /\ PrimaryInv)'
  <2>1. /\ UNCHANGED <<cvars, why, srv, administered>>
        /\ pc[t] = "choose"
        /\ \E place \in {"spin", "assign"} : pc' = [pc EXCEPT ![t] = place]
    BY <1>8 DEF Choose, Running, bvars
  <2>2. WhyInv' /\ CalmInv' /\ PrimaryInv'
    BY <2>1 DEF cvars
  <2>3. ChosenInv'
    <3>1. CASE ~NoneToChoose /\ LivePausedOnly
      BY <1>8, <2>1, <3>1 DEF Choose, cvars
    <3>2. CASE ~(~NoneToChoose /\ LivePausedOnly)
      <4>1. Drawn \subseteq alive_servers \cup {Empty}
        BY DEF Drawn
      <4>2. PICK s \in alive_servers \cup {Empty} : chosen' = [chosen EXCEPT ![t] = s]
        BY <1>8, <3>2, <4>1 DEF Choose
      <4>3. QED
        BY <2>1, <4>2 DEF cvars
    <3>3. QED
      BY <3>1, <3>2
  <2>4. QED
    BY <2>2, <2>3
<1>9. ASSUME NEW t \in Thread, StopSpinning(t) PROVE (WhyInv /\ CalmInv /\ ChosenInv /\ PrimaryInv)'
  BY <1>9 DEF StopSpinning, Running, Drawn, LivePausedOnly, vars, cvars, nvars, tvars, svars, bvars
<1>10. ASSUME NEW t \in Thread, InstallPrimary(t) PROVE (WhyInv /\ CalmInv /\ ChosenInv /\ PrimaryInv)'
  BY <1>10 DEF InstallPrimary, Running, Resume, Told, Hears, vars, cvars, nvars, tvars, svars, bvars
<1>11. ASSUME NEW c \in all_servers, Heartbeat(c) PROVE (WhyInv /\ CalmInv /\ ChosenInv /\ PrimaryInv)'
  BY <1>11 DEF Heartbeat, Running, vars, cvars, nvars, tvars, svars, bvars
<1>12. ASSUME NEW c \in all_servers, NoticeClosed(c) PROVE (WhyInv /\ CalmInv /\ ChosenInv /\ PrimaryInv)'
  BY <1>12 DEF NoticeClosed, Forget, Running, vars, cvars, nvars, tvars, svars, bvars
<1>13. ASSUME NEW c \in all_servers, NoticeLate(c) PROVE (WhyInv /\ CalmInv /\ ChosenInv /\ PrimaryInv)'
  BY <1>13 DEF NoticeLate, Forget, Running, Trouble, vars, cvars, nvars, tvars, svars, bvars
<1>14. CASE AskServer
  BY <1>14 DEF AskServer, Running, vars, cvars, nvars, tvars, svars, bvars
<1>15. CASE AnswerFrontend("frontend")
  BY <1>15 DEF AnswerFrontend, Running, Resume, vars, cvars, nvars, tvars, svars, bvars
<1>16. CASE CheckStopped
  BY <1>16 DEF CheckStopped, Running, LookedUp, vars, cvars, nvars, tvars, svars, bvars
<1>17. ASSUME NEW s \in Server, Stop(s) PROVE (WhyInv /\ CalmInv /\ ChosenInv /\ PrimaryInv)'
  BY <1>17 DEF Stop, Running, Hears, Trouble, vars, cvars, nvars, tvars, svars, bvars
<1>18. ASSUME NEW s \in Server, Start(s) PROVE (WhyInv /\ CalmInv /\ ChosenInv /\ PrimaryInv)'
  BY <1>18 DEF Start, Running, vars, cvars, nvars, tvars, svars, bvars
<1>19. CASE CheckStarted
  BY <1>19 DEF CheckStarted, Running, vars, cvars, nvars, tvars, svars, bvars
<1>20. ASSUME NEW s \in Server, Connect(s) PROVE (WhyInv /\ CalmInv /\ ChosenInv /\ PrimaryInv)'
  BY <1>20 DEF Connect, Trouble, vars, cvars, nvars, tvars, svars, bvars
<1>21. ASSUME NEW s \in Server, Crash(s) PROVE (WhyInv /\ CalmInv /\ ChosenInv /\ PrimaryInv)'
  BY <1>21 DEF Crash, vars, cvars, nvars, tvars, svars, bvars
<1>22. CASE UNCHANGED vars
  BY <1>22 DEF vars, cvars, nvars, tvars, svars, bvars
<1>23. QED
  BY <1>1, <1>2, <1>3, <1>4, <1>5, <1>6, <1>7, <1>8, <1>9, <1>10, <1>11, <1>12, <1>13, <1>14, <1>15, <1>16, <1>17, <1>18, <1>19, <1>20, <1>21, <1>22
     DEF Next, StorageStep, FrontendStep, Election, Thread

(* Every step keeps a watched connection for every alive server.           *)
LEMMA WatchedStep ==
    ASSUME TypeInv, TypeInv', AliveIsWatched, [Next]_vars
    PROVE  AliveIsWatched'
<1> USE DEF AliveIsWatched
<1>1. CASE BeginRound
  <2> DEFINE c == Head(hb_backlog)
  <2>1. CASE hb_backlog = <<>>
    BY <1>1, <2>1 DEF BeginRound
  <2>2. CASE hb_backlog # <<>>
    <3>1. all_servers' \in Inserted(c) /\ alive_servers' = alive_servers \cup {c.srv}
      BY <1>1, <2>2 DEF BeginRound
    <3>2. all_servers \subseteq all_servers' /\ \E d \in all_servers' : d.srv = c.srv
      <4> HIDE DEF c
      <4> QED BY <3>1 DEF Inserted
    <3> HIDE DEF c
    <3>3. QED
      BY <3>1, <3>2
  <2>3. QED
    BY <2>1, <2>2
<1>2. CASE CheckFirst
  BY <1>2 DEF CheckFirst, cvars
<1>3. CASE AcceptComm
  BY <1>3 DEF AcceptComm, cvars
<1>4. CASE Greet
  BY <1>4 DEF Greet, cvars
<1>5. CASE CheckFailed
  BY <1>5 DEF CheckFailed, cvars
<1>6. CASE EndRound
  BY <1>6 DEF EndRound, cvars
<1>7. CASE RecordFirst("storage")
  BY <1>7 DEF RecordFirst, cvars
<1>8. ASSUME NEW t \in Thread, Choose(t) PROVE AliveIsWatched'
  BY <1>8 DEF Choose, cvars
<1>9. ASSUME NEW t \in Thread, StopSpinning(t) PROVE AliveIsWatched'
  BY <1>9 DEF StopSpinning, cvars
<1>10. ASSUME NEW t \in Thread, InstallPrimary(t) PROVE AliveIsWatched'
  BY <1>10 DEF InstallPrimary, cvars
<1>11. ASSUME NEW c \in all_servers, Heartbeat(c) PROVE AliveIsWatched'
  BY <1>11 DEF Heartbeat, cvars
<1>12. ASSUME NEW c \in all_servers, NoticeClosed(c) PROVE AliveIsWatched'
  BY <1>12 DEF NoticeClosed, Forget, cvars
<1>13. ASSUME NEW c \in all_servers, NoticeLate(c) PROVE AliveIsWatched'
  BY <1>13 DEF NoticeLate, Forget, cvars
<1>14. CASE AskServer
  BY <1>14 DEF AskServer, cvars
<1>15. CASE AnswerFrontend("frontend")
  BY <1>15 DEF AnswerFrontend, cvars
<1>16. CASE CheckStopped
  BY <1>16 DEF CheckStopped, cvars
<1>17. ASSUME NEW s \in Server, Stop(s) PROVE AliveIsWatched'
  BY <1>17 DEF Stop, cvars
<1>18. ASSUME NEW s \in Server, Start(s) PROVE AliveIsWatched'
  BY <1>18 DEF Start, cvars
<1>19. CASE CheckStarted
  BY <1>19 DEF CheckStarted, cvars
<1>20. ASSUME NEW s \in Server, Connect(s) PROVE AliveIsWatched'
  BY <1>20 DEF Connect, cvars
<1>21. ASSUME NEW s \in Server, Crash(s) PROVE AliveIsWatched'
  BY <1>21 DEF Crash, cvars
<1>22. CASE UNCHANGED vars
  BY <1>22 DEF vars, cvars
<1>23. QED
  BY <1>1, <1>2, <1>3, <1>4, <1>5, <1>6, <1>7, <1>8, <1>9, <1>10, <1>11, <1>12, <1>13, <1>14, <1>15, <1>16, <1>17, <1>18, <1>19, <1>20, <1>21, <1>22
     DEF Next, StorageStep, FrontendStep, Election, Thread

(* Every variable of the coordinator keeps its type, for any number of     *)
(* servers and any amount of trouble: what the threads pass to each other  *)
(* through the backlogs and choose_random_server always names a server.    *)
THEOREM CoordinatorTypes == Spec => []TypeOK
<1>1. Init => TypeInv
  BY TypeInit
<1>2. TypeInv /\ [Next]_vars => TypeInv'
  BY TypeStep
<1>3. TypeInv => TypeOK
  BY DEF TypeInv
<1>4. QED
  BY <1>1, <1>2, <1>3, PTL DEF Spec

(* A server counted as alive always has a heartbeat connection that the    *)
(* storage thread watches, with stops, restarts and late heartbeats.       *)
THEOREM AliveAlwaysWatched == Spec => []AliveIsWatched
<1>1. Init => TypeInv /\ AliveIsWatched
  BY TypeInit DEF Init, AliveIsWatched
<1>2. TypeInv /\ AliveIsWatched /\ [Next]_vars => (TypeInv /\ AliveIsWatched)'
  BY TypeStep, WatchedStep
<1>3. QED
  BY <1>1, <1>2, PTL DEF Spec

(* Until the administrator first stops a server, the recorded primary is   *)
(* alive whenever no election is going on (handle_server_failure).         *)
THEOREM PrimaryIsAlive == Spec => []ElectedIsAlive
<1>1. Init => IInv
  <2>1. Init => TypeInv
    BY TypeInit
  <2>2. Init => WhyInv /\ CalmInv /\ ChosenInv /\ PrimaryInv
    BY CoordinatorAssumption
       DEF Init, WhyInv, CalmInv, ChosenInv, PrimaryInv, Thread
  <2>3. QED
    BY <2>1, <2>2 DEF IInv
<1>2. IInv /\ [Next]_vars => IInv'
  BY TypeStep, PrimaryStep DEF IInv
<1>3. IInv => ElectedIsAlive
  BY DEF IInv, PrimaryInv, ElectedIsAlive, Electing
<1>4. QED
  BY <1>1, <1>2, <1>3, PTL DEF Spec

(* Before the first STOP the frontend thread elects nobody: it only answers *)
(* HELO.                                                                   *)
LEMMA FrontendIsCalm ==
    ASSUME IInv, ~administered', [Next]_vars
    PROVE  /\ ~administered
           /\ ~CheckStopped /\ ~CheckStarted /\ ~InstallPrimary("frontend")
<1> USE DEF IInv, CalmInv
<1>1. ~administered
  BY DEF Next, StorageStep, FrontendStep, Election, BeginRound, CheckFirst, AcceptComm,
         Greet, CheckFailed, EndRound, RecordFirst, Choose, StopSpinning, InstallPrimary,
         Heartbeat, NoticeClosed, NoticeLate, AskServer, AnswerFrontend, CheckStopped,
         CheckStarted, Stop, Start, Connect, Crash, bvars, vars
<1>2. QED
  BY <1>1 DEF CheckStopped, CheckStarted, InstallPrimary, Running

(* Every step keeps what is known of the elections.                        *)
LEMMA ElectionStep ==
    ASSUME IInv, ElectionInv, TypeInv', [Next]_vars
    PROVE  ElectionInv'
<1> USE CoordinatorAssumption DEF IInv, ElectionInv, Elects, Gone, TypeInv, TypeOK
<1>1. CASE BeginRound
  BY <1>1 DEF BeginRound, Running, Thread, bvars
<1>2. CASE CheckFirst \/ EndRound
  BY <1>2 DEF CheckFirst, EndRound, Running, Thread, cvars, bvars
<1>3. CASE AcceptComm
  BY <1>3 DEF AcceptComm, Running, Thread, bvars
<1>4. CASE Greet
  BY <1>4 DEF Greet, Running, Thread, cvars, bvars
<1>5. CASE CheckFailed
  BY <1>5, SMTT(20) DEF CheckFailed, Running, LookedUp, Thread, bvars
<1>6. CASE RecordFirst("storage")
  BY <1>6 DEF RecordFirst, Running, Resume, Thread, bvars
<1>7. ASSUME NEW t \in Thread, Choose(t) \/ StopSpinning(t) PROVE ElectionInv'
  BY <1>7 DEF Choose, StopSpinning, Running, Thread, cvars, bvars
<1>8. CASE InstallPrimary("storage")
  BY <1>8 DEF InstallPrimary, Running, Resume, Thread, bvars
<1>9. CASE InstallPrimary("frontend")
  BY <1>9, FrontendIsCalm DEF InstallPrimary, Running, Resume, Thread, WhyInv, bvars
<1>10. ASSUME NEW c \in all_servers, Heartbeat(c) PROVE ElectionInv'
  BY <1>10 DEF Heartbeat, Running, tvars, bvars
<1>11. ASSUME NEW c \in all_servers, NoticeClosed(c) \/ NoticeLate(c) PROVE ElectionInv'
  BY <1>11, ConnFields DEF NoticeClosed, NoticeLate, Forget, Running, Thread
<1>12. CASE AskServer \/ AnswerFrontend("frontend") \/ CheckStarted
  BY <1>12 DEF AskServer, AnswerFrontend, CheckStarted, Running, Resume, Thread, cvars, bvars
<1>13. CASE CheckStopped
  BY <1>13, FrontendIsCalm DEF CheckStopped, Running, Thread, bvars
<1>14. ASSUME NEW s \in Server, Stop(s) \/ Start(s) PROVE ElectionInv'
  BY <1>14 DEF Stop, Start, Running, Thread, bvars
<1>15. ASSUME NEW s \in Server, Connect(s) \/ Crash(s) PROVE ElectionInv'
  BY <1>15 DEF Connect, Crash, cvars, tvars, bvars
<1>16. CASE UNCHANGED vars
  BY <1>16 DEF vars, cvars, tvars, bvars
<1>17. QED
  BY <1>1, <1>2, <1>3, <1>4, <1>5, <1>6, <1>7, <1>8, <1>9, <1>10, <1>11, <1>12,
     <1>13, <1>14, <1>15, <1>16
     DEF Next, StorageStep, FrontendStep, Election, Thread

(* A server whose newest connection was accepted has none waiting.         *)
LEMMA HeardHasNoneWaiting ==
    ASSUME TypeInv, BacklogInv, NEW s \in Server, Hears(s),
           NEW i \in DOMAIN comm_backlog
    PROVE  comm_backlog[i].srv # s
<1>1. comm_backlog[i] \in Conn
  BY DEF TypeInv, TypeOK
<1>2. comm_backlog[i].n \in 0..MaxIncarnation /\ comm_backlog[i].srv \in Server
  BY <1>1, ConnFields
<1>3. QED
  BY <1>2, CoordinatorAssumption DEF BacklogInv, Hears, TypeInv, TypeOK

(* Every step keeps what is known of the waiting connections.              *)
LEMMA BacklogStep ==
    ASSUME TypeInv, BacklogInv, TypeInv', [Next]_vars
    PROVE  BacklogInv'
<1> USE CoordinatorAssumption
<1>a. \A i \in DOMAIN comm_backlog :
        comm_backlog[i].srv \in Server /\ comm_backlog[i].n \in 1..MaxIncarnation
  <2>1. \A i \in DOMAIN comm_backlog : comm_backlog[i] \in Conn
    BY DEF TypeInv, TypeOK
  <2>2. QED
    BY <2>1 DEF Conn
<1>b. /\ comm_fd \in [Server -> 0..MaxIncarnation]
      /\ incarnation \in [Server -> 0..MaxIncarnation]
      /\ is_primary \in [Server -> BOOLEAN] /\ up \in [Server -> BOOLEAN]
  BY DEF TypeInv, TypeOK
<1>1. CASE UNCHANGED <<comm_backlog, comm_fd, svars>>
  BY <1>1 DEF BacklogInv, svars
<1>2. CASE AcceptComm /\ comm_ready
  <2> DEFINE c == Head(comm_backlog)
  <2>1. comm_backlog # <<>> /\ comm_backlog \in Seq(Conn)
    BY <1>2 DEF TypeInv, TypeOK, ReadyInv
  <2>2. /\ c = comm_backlog[1] /\ 1 \in DOMAIN comm_backlog
        /\ Len(comm_backlog') = Len(comm_backlog) - 1
        /\ DOMAIN comm_backlog' = 1..(Len(comm_backlog) - 1)
        /\ DOMAIN comm_backlog = 1..Len(comm_backlog)
        /\ \A i \in DOMAIN comm_backlog' :
             comm_backlog'[i] = comm_backlog[i+1] /\ i + 1 \in DOMAIN comm_backlog
    BY <1>2, <2>1 DEF AcceptComm
  <2>3. /\ comm_fd' = [comm_fd EXCEPT ![c.srv] = c.n]
        /\ UNCHANGED <<up, incarnation, is_primary>>
    BY <1>2 DEF AcceptComm, svars
  <2>4. c.srv \in Server /\ c.n \in 1..MaxIncarnation
    BY <1>a, <2>2
  <2> HIDE DEF c
  <2>5. ASSUME NEW i \in DOMAIN comm_backlog'
        PROVE  /\ comm_fd'[comm_backlog'[i].srv] < comm_backlog'[i].n
               /\ comm_backlog'[i].n <= incarnation[comm_backlog'[i].srv]
               /\ comm_backlog'[i].n = incarnation[comm_backlog'[i].srv]
                    => ~is_primary[comm_backlog'[i].srv]
               /\ \A j \in DOMAIN comm_backlog' :
                    i < j /\ comm_backlog'[j].srv = comm_backlog'[i].srv
                      => comm_backlog'[i].n < comm_backlog'[j].n
    <3> DEFINE d == comm_backlog[i+1]
    <3>1. d = comm_backlog'[i] /\ i + 1 \in DOMAIN comm_backlog /\ i \in Nat /\ 1 < i + 1
      BY <2>2, <2>5
    <3>2. d.srv = c.srv => c.n < d.n
      BY <2>2, <3>1 DEF BacklogInv
    <3>3. comm_fd[d.srv] < d.n /\ d.srv \in Server
      BY <1>a, <3>1 DEF BacklogInv
    <3>4. comm_fd'[d.srv] < d.n
      <4> HIDE DEF d
      <4> QED BY <1>b, <2>3, <2>4, <3>2, <3>3
    <3>5. d.n <= incarnation[d.srv] /\ (d.n = incarnation[d.srv] => ~is_primary[d.srv])
      BY <3>1 DEF BacklogInv
    <3>6. \A j \in DOMAIN comm_backlog' :
             i < j /\ comm_backlog'[j].srv = d.srv => d.n < comm_backlog'[j].n
      BY <2>2, <3>1 DEF BacklogInv
    <3> HIDE DEF d
    <3>7. QED
      BY <3>1, <3>4, <3>5, <3>6
  <2>6. \A s \in Server : comm_fd'[s] <= incarnation[s]
    BY <1>b, <2>2, <2>3, <2>4 DEF BacklogInv
  <2>7. QED
    BY <2>3, <2>5, <2>6 DEF BacklogInv
<1>3. CASE Greet
  <2> DEFINE s == srv["storage"]
  <2>1. CASE UNCHANGED is_primary
    BY <1>1, <1>3, <2>1 DEF Greet, cvars, nvars, svars
  <2>2. CASE is_primary' # is_primary
    <3>1. /\ Hears(s) /\ is_primary' = [is_primary EXCEPT ![s] = (primary_server = s)]
          /\ UNCHANGED <<comm_backlog, comm_fd, up, incarnation>>
      BY <1>3, <2>2 DEF Greet, cvars, nvars
    <3>2. s \in Server
      BY <1>b, <2>2, <3>1
    <3> HIDE DEF s
    <3>3. \A i \in DOMAIN comm_backlog : comm_backlog[i].srv # s
      BY <3>1, <3>2, HeardHasNoneWaiting
    <3>4. up[s]
      BY <3>1 DEF Hears
    <3>5. QED
      BY <1>a, <1>b, <3>1, <3>2, <3>3, <3>4 DEF BacklogInv
  <2>3. QED
    BY <2>1, <2>2
<1>4. ASSUME NEW t \in Thread, InstallPrimary(t) PROVE BacklogInv'
  <2>1. UNCHANGED <<comm_backlog, comm_fd, up, incarnation>>
    BY <1>4 DEF InstallPrimary, nvars
  <2>2. ASSUME NEW s \in Server
        PROVE  is_primary'[s] => is_primary[s] \/ Hears(s)
    BY <1>4 DEF InstallPrimary, Told
  <2>3. \A i \in DOMAIN comm_backlog : ~Hears(comm_backlog[i].srv)
    BY <1>a, HeardHasNoneWaiting
  <2>4. QED
    BY <1>a, <1>b, <2>1, <2>2, <2>3 DEF BacklogInv, Hears
<1>5. ASSUME NEW s \in Server, Stop(s) PROVE BacklogInv'
  BY <1>5, <1>a, <1>b DEF Stop, BacklogInv, nvars
<1>6. ASSUME NEW c \in all_servers, NoticeClosed(c) \/ NoticeLate(c) PROVE BacklogInv'
  <2>1. /\ comm_fd' = [comm_fd EXCEPT ![c.srv] = 0]
        /\ UNCHANGED <<comm_backlog, up, incarnation, is_primary>>
    BY <1>6 DEF NoticeClosed, NoticeLate, Forget, nvars, svars
  <2>2. QED
    BY <1>a, <1>b, <2>1 DEF BacklogInv
<1>7. ASSUME NEW s \in Server, Connect(s) PROVE BacklogInv'
  <2> DEFINE c == [srv |-> s, n |-> incarnation[s] + 1]
  <2>1. /\ ~up[s] /\ up' = [up EXCEPT ![s] = TRUE]
        /\ incarnation' = [incarnation EXCEPT ![s] = @ + 1]
        /\ comm_backlog' = Append(comm_backlog, c)
        /\ UNCHANGED <<comm_fd, is_primary>>
    BY <1>7 DEF Connect, cvars
  <2>2. ~is_primary[s]
    BY <2>1 DEF BacklogInv
  <2>3. /\ \A r \in Server : (is_primary'[r] => up'[r]) /\ (up'[r] => incarnation'[r] > 0)
        /\ \A r \in Server : comm_fd'[r] <= incarnation'[r]
    BY <1>b, <2>1 DEF BacklogInv
  <2>4. /\ DOMAIN comm_backlog = 1..Len(comm_backlog) /\ Len(comm_backlog) \in Nat
        /\ DOMAIN comm_backlog' = 1..(Len(comm_backlog) + 1)
        /\ comm_backlog'[Len(comm_backlog) + 1] = c
        /\ \A i \in DOMAIN comm_backlog : comm_backlog'[i] = comm_backlog[i]
    <3>1. comm_backlog \in Seq(Conn)
      BY DEF TypeInv, TypeOK
    <3> HIDE DEF c
    <3>2. QED
      BY <2>1, <3>1
  <2>5. c.srv = s /\ c.n = incarnation[s] + 1
    OBVIOUS
  <2> HIDE DEF c
  <2>6. ASSUME NEW i \in DOMAIN comm_backlog'
        PROVE  /\ comm_fd'[comm_backlog'[i].srv] < comm_backlog'[i].n
               /\ comm_backlog'[i].n <= incarnation'[comm_backlog'[i].srv]
               /\ comm_backlog'[i].n = incarnation'[comm_backlog'[i].srv]
                    => ~is_primary'[comm_backlog'[i].srv]
               /\ \A j \in DOMAIN comm_backlog' :
                    i < j /\ comm_backlog'[j].srv = comm_backlog'[i].srv
                      => comm_backlog'[i].n < comm_backlog'[j].n
    <3>1. CASE i = Len(comm_backlog) + 1
      BY <1>b, <2>1, <2>2, <2>3, <2>4, <2>5, <3>1 DEF BacklogInv
    <3>2. CASE i \in DOMAIN comm_backlog
      <4> DEFINE d == comm_backlog[i]
      <4>1. /\ comm_backlog'[i] = d /\ d.srv \in Server /\ d.n \in Nat
            /\ comm_fd[d.srv] < d.n /\ d.n <= incarnation[d.srv]
            /\ d.n = incarnation[d.srv] => ~is_primary[d.srv]
        BY <1>a, <2>4, <3>2 DEF BacklogInv
      <4>2. \A j \in DOMAIN comm_backlog : i < j /\ comm_backlog[j].srv = d.srv
                                            => d.n < comm_backlog[j].n
        BY <3>2 DEF BacklogInv
      <4> HIDE DEF d
      <4>3. /\ comm_fd'[d.srv] < d.n /\ d.n <= incarnation'[d.srv]
            /\ d.n = incarnation'[d.srv] => ~is_primary'[d.srv]
        BY <1>b, <2>1, <2>2, <4>1
      <4>4. \A j \in DOMAIN comm_backlog' : i < j /\ comm_backlog'[j].srv = d.srv
                                             => d.n < comm_backlog'[j].n
        BY <1>b, <2>4, <2>5, <3>2, <4>1, <4>2, SMTT(20)
      <4>5. QED
        BY <4>1, <4>3, <4>4
    <3>3. QED
      BY <2>4, <3>1, <3>2
  <2>7. QED
    BY <2>3, <2>6 DEF BacklogInv
<1>8. ASSUME NEW s \in Server, Crash(s) PROVE BacklogInv'
  BY <1>8, <1>a, <1>b DEF Crash, BacklogInv, cvars, nvars
<1>9. QED
  BY <1>1, <1>2, <1>3, <1>4, <1>5, <1>6, <1>7, <1>8
     DEF Next, StorageStep, FrontendStep, Election, Thread, BeginRound, CheckFirst,
         AcceptComm, CheckFailed, EndRound, RecordFirst, Choose, StopSpinning, Heartbeat,
         AskServer, AnswerFrontend, CheckStopped, CheckStarted, Start, vars, cvars,
         nvars, svars

(* Every step leaves at most the recorded primary convinced.               *)
LEMMA BelieverStep ==
    ASSUME BelieverInv, TypeInv', [Next]_vars
    PROVE  BelieverIsRecorded'
<1> USE CoordinatorAssumption DEF BelieverInv, IInv
<1> SUFFICES ASSUME ~administered', NEW s \in Server, Hears(s)', is_primary'[s]
             PROVE  primary_server' = s
  BY DEF BelieverIsRecorded
<1>a. ~administered
  BY FrontendIsCalm
<1>b. /\ comm_fd \in [Server -> 0..MaxIncarnation]
      /\ incarnation \in [Server -> 0..MaxIncarnation]
      /\ is_primary \in [Server -> BOOLEAN] /\ up \in [Server -> BOOLEAN]
      /\ alive_servers \subseteq Server
  BY DEF TypeInv, TypeOK
<1>c. Hears(s) /\ is_primary[s] => primary_server = s
  BY <1>a DEF BelieverIsRecorded
<1>1. CASE UNCHANGED <<comm_fd, svars, primary_server>>
  BY <1>1, <1>c DEF Hears, svars
<1>2. CASE AcceptComm /\ comm_ready
  <2> DEFINE c == Head(comm_backlog)
  <2>1. /\ comm_fd' = [comm_fd EXCEPT ![c.srv] = c.n]
        /\ UNCHANGED <<primary_server, up, incarnation, is_primary>>
    BY <1>2 DEF AcceptComm, svars
  <2>2. 1 \in DOMAIN comm_backlog /\ c = comm_backlog[1]
    BY <1>2 DEF TypeInv, TypeOK, ReadyInv
  <2> HIDE DEF c
  <2>3. c.n = incarnation[c.srv] => ~is_primary[c.srv]
    BY <2>2 DEF BacklogInv
  <2>4. CASE c.srv = s
    BY <1>b, <2>1, <2>3, <2>4 DEF Hears
  <2>5. CASE c.srv # s
    BY <1>b, <1>c, <2>1, <2>5 DEF Hears
  <2>6. QED
    BY <2>4, <2>5
<1>3. CASE Greet
  BY <1>b, <1>c, <1>3 DEF Greet, Hears, cvars
<1>4. CASE InstallPrimary("storage")
  <2>1. why["storage"] = "failure" /\ Gone(primary_server)
    BY <1>a, <1>4 DEF InstallPrimary, Running, ElectionInv, Elects
  <2>2. Hears(s)
    BY <1>4 DEF InstallPrimary, Hears
  <2>3. primary_server # s
    BY <1>b, <2>1, <2>2 DEF Gone, Hears, BacklogInv
  <2>4. QED
    BY <1>c, <1>4, <2>2, <2>3 DEF InstallPrimary, Told
<1>5. CASE RecordFirst("storage")
  <2>1. primary_server = NoEntry
    BY <1>a, <1>5 DEF RecordFirst, Running, ElectionInv, Elects
  <2>2. QED
    BY <1>c, <1>5, <2>1 DEF RecordFirst, Hears, svars
<1>6. ASSUME NEW c \in all_servers, NoticeClosed(c) \/ NoticeLate(c)
      PROVE  primary_server' = s
  BY <1>b, <1>c, <1>6 DEF NoticeClosed, NoticeLate, Forget, Hears, BacklogInv, svars
<1>7. CASE CheckFailed
  BY <1>c, <1>7 DEF CheckFailed, LookedUp, Hears, svars
<1>8. ASSUME NEW r \in Server, Connect(r) PROVE primary_server' = s
  BY <1>b, <1>c, <1>8 DEF Connect, Hears, BacklogInv, cvars
<1>9. ASSUME NEW r \in Server, Crash(r) PROVE primary_server' = s
  BY <1>b, <1>c, <1>9 DEF Crash, Hears, cvars
<1>10. ~CheckStopped /\ ~CheckStarted /\ ~InstallPrimary("frontend")
  BY FrontendIsCalm
<1>11. QED
  BY <1>1, <1>2, <1>3, <1>4, <1>5, <1>6, <1>7, <1>8, <1>9, <1>10
     DEF Next, StorageStep, FrontendStep, Election, BeginRound, CheckFirst, AcceptComm,
         EndRound, Choose, StopSpinning, Heartbeat, AskServer, AnswerFrontend, Stop,
         Start, vars, cvars, svars

(* BelieverInv is inductive.                                               *)
LEMMA BelieverInvariant == Spec => []BelieverInv
<1>1. Init => BelieverInv
  <2>1. Init => TypeInv
    BY TypeInit
  <2>2. Init => WhyInv /\ CalmInv /\ ChosenInv /\ PrimaryInv
    BY CoordinatorAssumption
       DEF Init, WhyInv, CalmInv, ChosenInv, PrimaryInv, Thread
  <2>3. Init => ElectionInv /\ BacklogInv /\ BelieverIsRecorded
    BY DEF Init, ElectionInv, Elects, BacklogInv, BelieverIsRecorded, Thread
  <2>4. QED
    BY <2>1, <2>2, <2>3 DEF BelieverInv, IInv
<1>2. BelieverInv /\ [Next]_vars => BelieverInv'
  BY TypeStep, PrimaryStep, ElectionStep, BacklogStep, BelieverStep
     DEF BelieverInv, IInv
<1>3. QED
  BY <1>1, <1>2, PTL DEF Spec

(* Until the first STOP no server but the recorded primary, of those the   *)
(* coordinator reaches, believes itself primary, for any number of         *)
(* servers, crashes, restarts and late heartbeats.                         *)
THEOREM OnlyRecordedLeads == Spec => []BelieverIsRecorded
<1>1. BelieverInv => BelieverIsRecorded
  BY DEF BelieverInv
<1>2. QED
  BY <1>1, BelieverInvariant, PTL

(* Until the first STOP a primary that is alive keeps its place            *)
(* (handle_server_failure, accept_storage_connections).                    *)
THEOREM AlivePrimaryStays == Spec => PrimaryIsStable
<1>1. BelieverInv /\ [Next]_vars =>
        [~administered' /\ primary_server' # primary_server
           => primary_server \notin alive_servers]_vars
  <2> SUFFICES ASSUME BelieverInv, Next, ~administered', primary_server' # primary_server
               PROVE  primary_server \notin alive_servers
    BY DEF vars
  <2> USE CoordinatorAssumption DEF BelieverInv, IInv
  <2>1. /\ ~administered
        /\ ~CheckStopped /\ ~CheckStarted /\ ~InstallPrimary("frontend")
    BY FrontendIsCalm
  <2>2. CASE CheckFailed
    BY <2>2 DEF CheckFailed, LookedUp, TypeInv, TypeOK
  <2>3. CASE RecordFirst("storage")
    BY <2>1, <2>3 DEF RecordFirst, Running, ElectionInv, Elects, TypeInv, TypeOK
  <2>4. CASE InstallPrimary("storage")
    BY <2>1, <2>4 DEF InstallPrimary, Running, ElectionInv, Elects, Gone
  <2>5. QED
    BY <2>1, <2>2, <2>3, <2>4
       DEF Next, StorageStep, FrontendStep, Election, BeginRound, CheckFirst,
           AcceptComm, Greet, EndRound, Choose, StopSpinning, Heartbeat, NoticeClosed,
           NoticeLate, Forget, AskServer, AnswerFrontend, Stop, Start, Connect, Crash,
           cvars
<1>2. QED
  BY <1>1, BelieverInvariant, PTL DEF Spec, PrimaryIsStable

=============================================================================

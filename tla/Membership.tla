----------------------------- MODULE Membership -----------------------------
(***************************************************************************)
(* The frontend's load balancer (frontend/loadbalancer.cc) and the         *)
(* heartbeats by which it knows the HTTP servers                           *)
(* (frontend/src/membership.cc).                                           *)
(*                                                                         *)
(* An HTTP server sends a datagram when it starts and every HBINT seconds. *)
(* The load balancer adds a server when it first hears of it, never takes  *)
(* one off, and redirects a client to the first server, counted from its   *)
(* counter, that it has heard of within HBTIMEOUT.  Datagrams are lost,    *)
(* duplicated and delayed, for at most MaxDelay, the time they wait in the *)
(* socket while the balancer reads the request of a client included.       *)
(*                                                                         *)
(* All servers give 0.0.0.0 as their address, so an entry is known by its  *)
(* port alone.  Nothing sends HBINC or HBDEC, and the number of            *)
(* connections is not used.                                                *)
(***************************************************************************)
EXTENDS Integers, Sequences, FiniteSets

CONSTANTS
    Server,               \* HTTP servers, by port
    HBINT, HBTIMEOUT,     \* membership.h
    MaxDelay,             \* how long a datagram lasts
    Cycle,                \* bound: the counter is kept modulo this multiple of every size
    None

ASSUME MembershipAssumption ==
    /\ IsFiniteSet(Server) /\ None \notin Server
    /\ HBINT \in Nat \ {0} /\ HBTIMEOUT \in Nat /\ HBTIMEOUT >= 2 * HBINT
    /\ MaxDelay \in Nat
    /\ Cycle \in Nat \ {0} /\ \A n \in 1..Cardinality(Server) : Cycle % n = 0

VARIABLES
    servers,    \* frontend_servers: the servers in the order they were heard of
    age,        \* time since last_heartbeat of each of them
    ctr,        \* the counter of main, not initialized
    target,     \* the last redirect; None for 503
    up,         \* the HTTP servers that run
    due,        \* send_heartbeats: time to the next one
    net,        \* datagrams on their way: sender and age
    down,       \* history: time a server has been down
    unheard,    \* history: heartbeats sent since one was heard; 2 for more, or unknown
    passed      \* history: redirects that passed a server by

lvars == <<servers, age, ctr, target>>
vars  == <<lvars, up, due, net, down, unheard, passed>>

(* Ages and times beyond these make no difference.                         *)
Stale  == HBTIMEOUT + 1
Buried == HBTIMEOUT + MaxDelay + 1
Cap(n, max) == IF n > max THEN max ELSE n

Known      == {servers[i] : i \in DOMAIN servers}

before(s)  == age[s] < HBTIMEOUT       \* seeded fault: off by one
isalive(s) == age[s] <= HBTIMEOUT

TypeOK ==
    /\ servers \in Seq(Server) /\ \A i, j \in DOMAIN servers : servers[i] = servers[j] => i = j
    /\ age \in [Server -> 0..Stale] /\ ctr \in 0..(Cycle - 1)
    /\ target \in Server \cup {None}
    /\ up \subseteq Server /\ due \in [Server -> 0..HBINT]
    /\ net \subseteq Server \X (0..MaxDelay)
    /\ down \in [Server -> 0..Buried] /\ unheard \in [Server -> 0..2]
    /\ passed \in [Server -> Nat]

Init ==
    /\ servers = <<>> /\ age = [s \in Server |-> Stale]
    /\ ctr \in 0..(Cycle - 1) /\ target = None
    /\ up = {} /\ due = [s \in Server |-> 0] /\ net = {}
    /\ down = [s \in Server |-> 0] /\ unheard = [s \in Server |-> 2]
    /\ passed = [s \in Server |-> 0]

-----------------------------------------------------------------------------
(* The HTTP servers.  The first heartbeat is sent before the first sleep.  *)
Start(s) ==
    /\ s \notin up /\ up' = up \cup {s}
    /\ due' = [due EXCEPT ![s] = 0] /\ unheard' = [unheard EXCEPT ![s] = 2]
    /\ down' = [down EXCEPT ![s] = 0]
    /\ UNCHANGED <<lvars, net, passed>>

Crash(s) ==
    /\ s \in up /\ up' = up \ {s}
    /\ UNCHANGED <<lvars, due, net, down, unheard, passed>>

SendHeartbeat(s) ==
    /\ s \in up /\ due[s] = 0
    /\ net' = net \cup {<<s, 0>>}
    /\ due' = [due EXCEPT ![s] = HBINT]
    /\ unheard' = [unheard EXCEPT ![s] = Cap(@ + 1, 2)]
    /\ UNCHANGED <<lvars, up, down, passed>>

(* The clock.  A thread that has slept sends before time goes on.          *)
Tick ==
    /\ \A s \in up : due[s] > 0
    /\ due' = [s \in Server |-> IF s \in up THEN due[s] - 1 ELSE due[s]]
    /\ age' = [s \in Server |-> Cap(age[s] + 1, Stale)]
    /\ down' = [s \in Server |-> IF s \in up THEN 0 ELSE Cap(down[s] + 1, Buried)]
    /\ net' = {<<m[1], m[2] + 1>> : m \in {x \in net : x[2] < MaxDelay}}
    /\ passed' = [s \in Server |-> IF age[s] + 1 <= HBTIMEOUT THEN passed[s] ELSE 0]
    /\ UNCHANGED <<servers, ctr, target, up, unheard>>

-----------------------------------------------------------------------------
(* handle_fserver_state: an entry that matches is refreshed, and a new one *)
(* is put behind the others.  The datagram may come again.                 *)
Heard(s) == [age EXCEPT ![s] = 0]

EnteredAgain(s) == Append(servers, s)  \* seeded fault: the entry is not looked for

Entered(s) == IF s \in Known THEN servers ELSE Append(servers, s)

Receive(m) ==
    LET s == m[1] IN
    /\ m \in net /\ net' \in {net, net \ {m}}
    /\ servers' = Entered(s) /\ age' = Heard(s)
    /\ unheard' = [unheard EXCEPT ![s] = 0]
    /\ passed' = IF s \in Known THEN passed ELSE [x \in Server |-> 0]
    /\ UNCHANGED <<ctr, target, up, due, down>>

Lose(m) ==
    /\ m \in net /\ net' = net \ {m}
    /\ UNCHANGED <<lvars, up, due, down, unheard, passed>>

-----------------------------------------------------------------------------
(* get_roundrobin_redirect: the first server from the counter on that is   *)
(* alive.  The loop leaves the counter of main alone, which goes up by one *)
(* for every client.                                                       *)
Entry(i) == servers[((ctr + i) % Len(servers)) + 1]
Alive    == {i \in 0..(Len(servers) - 1) : isalive(Entry(i))}

FirstKnown == IF servers = <<>> THEN None ELSE Entry(0)   \* seeded fault: isalive not asked

Chosen == IF Alive = {} THEN None
          ELSE Entry(CHOOSE i \in Alive : \A j \in Alive : i <= j)

CounterKept == ctr                     \* seeded fault: the counter stays
CounterNext == (ctr + 1) % Cycle

Redirect ==
    /\ target' = Chosen
    /\ ctr' = CounterNext
    /\ passed' = [s \in Server |-> IF s = Chosen \/ s \notin Known \/ ~isalive(s) THEN 0
                                   ELSE passed[s] + 1]
    /\ UNCHANGED <<servers, age, up, due, net, down, unheard>>

(* The load balancer is started again: its list is in memory only.         *)
Restart ==
    /\ servers' = <<>> /\ age' = [s \in Server |-> Stale]
    /\ ctr' \in 0..(Cycle - 1) /\ target' = None
    /\ unheard' = [s \in Server |-> 2] /\ passed' = [s \in Server |-> 0]
    /\ UNCHANGED <<up, due, net, down>>

Next ==
    \/ \E s \in Server : Start(s) \/ Crash(s) \/ SendHeartbeat(s)
    \/ \E m \in net : Receive(m) \/ Lose(m)
    \/ Tick \/ Redirect \/ Restart

Spec == Init /\ [][Next]_vars

-----------------------------------------------------------------------------
(* A running server is found alive as long as no two heartbeats in a row   *)
(* went unheard: HBTIMEOUT is just two intervals, and the comparison in    *)
(* isalive lets the second one come at the last moment.                    *)
LiveIsFound == \A s \in up : unheard[s] <= 1 => s \in Known /\ isalive(s)

(* No client is redirected to a server that has been down for longer than  *)
(* the timeout and the time a datagram may last, although its entry stays. *)
DeadIsNotChosen == [][Redirect => target' = None \/ down[target'] < Buried]_vars

(* Every server that is alive gets a client within one round of the list,  *)
(* whatever the others do, unless the list grows: the counter passes every *)
(* entry.                                                                  *)
NoneStarved == \A s \in Known : isalive(s) => passed[s] < Len(servers)
=============================================================================

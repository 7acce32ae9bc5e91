-------------------------- MODULE MembershipProofs --------------------------
(***************************************************************************)
(* Theorems about Membership, for any number of HTTP servers, any          *)
(* heartbeat interval and timeout that fit, and any delay of datagrams.    *)
(***************************************************************************)
EXTENDS Membership, FiniteSetTheorems, TLAPS

(* A running server that was heard of since its last heartbeat, or since   *)
(* the one before, is in the list, and its entry is not older than the     *)
(* heartbeats it has slept through.                                        *)
HeardInv ==
    \A s \in up :
        /\ unheard[s] = 0 => s \in Known /\ age[s] + due[s] <= HBINT
        /\ unheard[s] = 1 => s \in Known /\ age[s] + due[s] <= 2 * HBINT

(* A datagram is at least as old as its sender has been down, and an entry *)
(* that counts as alive is younger than that by the delay at most.         *)
DownInv ==
    /\ \A s \in up : down[s] = 0
    /\ \A m \in net : down[m[1]] <= m[2]
    /\ \A s \in Server : age[s] <= HBTIMEOUT => down[s] <= age[s] + MaxDelay

IInv == TypeOK /\ HeardInv /\ DownInv

(* A server was passed by at most as often as the counter has moved since  *)
(* it last stood at the entry of the server.                               *)
TurnInv == \A i \in DOMAIN servers : passed[servers[i]] <= (ctr - i) % Len(servers)

-----------------------------------------------------------------------------
(* What the assumptions say about the numbers.                             *)
LEMMA Numbers ==
    /\ HBINT \in Nat /\ HBINT > 0 /\ HBTIMEOUT \in Nat /\ MaxDelay \in Nat
    /\ HBTIMEOUT >= 2 * HBINT
    /\ Stale \in Nat /\ Stale = HBTIMEOUT + 1
    /\ Buried \in Nat /\ Buried = HBTIMEOUT + MaxDelay + 1
    /\ Cycle \in Nat /\ Cycle > 0
BY MembershipAssumption DEF Stale, Buried

(* A datagram names its sender and has an age.                             *)
LEMMA Datagram == TypeOK => \A m \in net : m[1] \in Server /\ m[2] \in 0..MaxDelay /\ m[2] \in Nat
<1>1. \A m \in Server \X (0..MaxDelay) : m[1] \in Server /\ m[2] \in 0..MaxDelay
  OBVIOUS
<1>2. \A d \in 0..MaxDelay : d \in Nat
  OBVIOUS
<1> QED
  BY <1>1, <1>2 DEF TypeOK

(* A nonempty set of numbers has a least one.                              *)
LEMMA Least ==
    ASSUME NEW T, T \subseteq Nat, T # {}
    PROVE  \E i \in T : \A j \in T : i <= j
<1> DEFINE Below == {p \in Nat \X Nat : p[1] < p[2]}
<1>1. IsWellFoundedOn(Below, Nat)
  BY NatLessThanWellFounded DEF OpToRel
<1> HIDE DEF Below
<1>2. PICK i \in T : \A j \in T : ~(<<j, i>> \in Below)
  BY <1>1, WFMin
<1>3. \A j \in T : ~(j < i)
  BY <1>2 DEF Below
<1> QED
  BY <1>3

(* get_roundrobin_redirect gives nothing, or a server of the list that     *)
(* counts as alive.                                                        *)
LEMMA ChosenIsAlive ==
    ASSUME TypeOK
    PROVE  Chosen = None \/ (Chosen \in Server /\ isalive(Chosen))
<1> SUFFICES ASSUME Alive # {}
             PROVE  Chosen \in Server /\ isalive(Chosen)
  BY DEF Chosen
<1>1. servers \in Seq(Server) /\ Len(servers) \in Nat /\ ctr \in Nat
  BY DEF TypeOK
<1>2. Alive \subseteq Nat
  BY <1>1 DEF Alive
<1> DEFINE k == CHOOSE i \in Alive : \A j \in Alive : i <= j
<1>3. k \in Alive
  BY <1>2, Least
<1>4. k \in 0..(Len(servers) - 1) /\ isalive(Entry(k))
  BY <1>3 DEF Alive
<1>5. ((ctr + k) % Len(servers)) + 1 \in 1..Len(servers)
  BY <1>1, <1>4
<1>6. Entry(k) \in Server
  BY <1>1, <1>5 DEF Entry
<1> QED
  BY <1>4, <1>6 DEF Chosen

-----------------------------------------------------------------------------
(* The types hold initially.                                               *)
LEMMA TypeInit == Init => TypeOK
BY Numbers, MembershipAssumption DEF Init, TypeOK

(* The list stays without repetitions when a datagram is received.         *)
LEMMA EnteredTypes ==
    ASSUME TypeOK, NEW s \in Server
    PROVE  /\ Entered(s) \in Seq(Server)
           /\ \A i, j \in DOMAIN Entered(s) : Entered(s)[i] = Entered(s)[j] => i = j
<1>1. CASE s \in Known
  BY <1>1 DEF Entered, TypeOK
<1>2. CASE s \notin Known
  <2>1. Entered(s) = Append(servers, s) /\ servers \in Seq(Server)
    BY <1>2 DEF Entered, TypeOK
  <2>2. \A i \in DOMAIN servers : servers[i] # s
    BY <1>2 DEF Known
  <2>3. DOMAIN Entered(s) = 1..(Len(servers) + 1) /\ DOMAIN servers = 1..Len(servers)
    BY <2>1
  <2>4. \A i \in 1..Len(servers) : Entered(s)[i] = servers[i]
    BY <2>1
  <2>5. Entered(s)[Len(servers) + 1] = s /\ Len(servers) \in Nat
    BY <2>1
  <2>6. ASSUME NEW i \in DOMAIN Entered(s), NEW j \in DOMAIN Entered(s),
               Entered(s)[i] = Entered(s)[j]
        PROVE  i = j
    <3>1. i \in 1..Len(servers) \/ i = Len(servers) + 1
      BY <2>3, <2>5
    <3>2. j \in 1..Len(servers) \/ j = Len(servers) + 1
      BY <2>3, <2>5
    <3> QED
      BY <3>1, <3>2, <2>2, <2>3, <2>4, <2>5, <2>6 DEF TypeOK
  <2> QED
    BY <2>1, <2>6
<1> QED
  BY <1>1, <1>2

(* Every action keeps the types.                                           *)
LEMMA TypeStep == TypeOK /\ [Next]_vars => TypeOK'
<1> SUFFICES ASSUME TypeOK, [Next]_vars PROVE TypeOK'
  OBVIOUS
<1> USE Numbers
<1>1. ASSUME NEW s \in Server, Start(s) PROVE TypeOK'
  BY <1>1 DEF Start, TypeOK, lvars
<1>2. ASSUME NEW s \in Server, Crash(s) PROVE TypeOK'
  BY <1>2 DEF Crash, TypeOK, lvars
<1>3. ASSUME NEW s \in Server, SendHeartbeat(s) PROVE TypeOK'
  <2>1. due' \in [Server -> 0..HBINT] /\ unheard' \in [Server -> 0..2]
    <3>1. unheard[s] \in 0..2
      BY DEF TypeOK
    <3>2. Cap(unheard[s] + 1, 2) \in 0..2
      BY <3>1 DEF Cap
    <3>3. unheard' = [unheard EXCEPT ![s] = Cap(unheard[s] + 1, 2)]
            /\ due' = [due EXCEPT ![s] = HBINT]
      BY <1>3 DEF SendHeartbeat
    <3> QED
      BY <3>2, <3>3 DEF TypeOK
  <2>2. net' \subseteq Server \X (0..MaxDelay)
    BY <1>3 DEF SendHeartbeat, TypeOK
  <2> QED
    BY <1>3, <2>1, <2>2 DEF SendHeartbeat, TypeOK, lvars
<1>4. ASSUME NEW m \in net, Receive(m) PROVE TypeOK'
  <2>1. m[1] \in Server
    BY Datagram
  <2>2. servers' = Entered(m[1]) /\ age' = [age EXCEPT ![m[1]] = 0]
    BY <1>4 DEF Receive, Heard
  <2>3. servers' \in Seq(Server)
          /\ \A i, j \in DOMAIN servers' : servers'[i] = servers'[j] => i = j
    BY <2>1, <2>2, EnteredTypes
  <2>4. age' \in [Server -> 0..Stale]
    BY <2>2 DEF TypeOK
  <2>5. net' \subseteq Server \X (0..MaxDelay)
    BY <1>4 DEF Receive, TypeOK
  <2>6. unheard' \in [Server -> 0..2] /\ passed' \in [Server -> Nat]
    BY <1>4 DEF Receive, TypeOK
  <2> QED
    BY <1>4, <2>3, <2>4, <2>5, <2>6 DEF Receive, TypeOK
<1>5. ASSUME NEW m \in net, Lose(m) PROVE TypeOK'
  BY <1>5 DEF Lose, TypeOK, lvars
<1>6. CASE Tick
  <2>1. due' \in [Server -> 0..HBINT]
    BY <1>6 DEF Tick, TypeOK
  <2>2. age' \in [Server -> 0..Stale] /\ down' \in [Server -> 0..Buried]
    <3>1. \A s \in Server : age[s] \in Nat /\ down[s] \in Nat
      BY DEF TypeOK
    <3>2. \A s \in Server : Cap(age[s] + 1, Stale) \in 0..Stale
                              /\ Cap(down[s] + 1, Buried) \in 0..Buried
      BY <3>1 DEF Cap
    <3> QED
      BY <1>6, <3>2 DEF Tick
  <2>3. net' \subseteq Server \X (0..MaxDelay)
    <3> SUFFICES ASSUME NEW m \in net' PROVE m \in Server \X (0..MaxDelay)
      OBVIOUS
    <3>1. PICK x \in net : x[2] < MaxDelay /\ m = <<x[1], x[2] + 1>>
      BY <1>6 DEF Tick
    <3>2. x[1] \in Server /\ x[2] \in 0..MaxDelay
      BY DEF TypeOK
    <3> QED
      BY <3>1, <3>2
  <2>4. passed' \in [Server -> Nat]
    BY <1>6 DEF Tick, TypeOK
  <2> QED
    BY <1>6, <2>1, <2>2, <2>3, <2>4 DEF Tick, TypeOK
<1>7. CASE Redirect
  <2>1. target' \in Server \cup {None}
    BY <1>7, ChosenIsAlive DEF Redirect
  <2>2. ctr' \in 0..(Cycle - 1)
    BY <1>7 DEF Redirect, CounterNext, TypeOK
  <2>3. passed' \in [Server -> Nat]
    BY <1>7 DEF Redirect, TypeOK
  <2> QED
    BY <1>7, <2>1, <2>2, <2>3 DEF Redirect, TypeOK
<1>8. CASE Restart
  BY <1>8 DEF Restart, TypeOK
<1>9. CASE UNCHANGED vars
  BY <1>9 DEF vars, lvars, TypeOK
<1> QED
  BY <1>1, <1>2, <1>3, <1>4, <1>5, <1>6, <1>7, <1>8, <1>9 DEF Next

-----------------------------------------------------------------------------
(* Every action keeps what is known of heartbeats that were heard.         *)
LEMMA HeardStep == TypeOK /\ HeardInv /\ [Next]_vars => HeardInv'
<1> SUFFICES ASSUME TypeOK, HeardInv, [Next]_vars PROVE HeardInv'
  OBVIOUS
<1> USE Numbers
<1>1. ASSUME NEW s \in Server, Start(s) PROVE HeardInv'
  <2>1. Known' = Known /\ age' = age
    BY <1>1 DEF Start, lvars, Known
  <2>2. \A x \in up : x # s /\ due'[x] = due[x] /\ unheard'[x] = unheard[x]
    BY <1>1 DEF Start, TypeOK
  <2>3. unheard'[s] = 2 /\ up' = up \cup {s}
    BY <1>1 DEF Start, TypeOK
  <2> QED
    BY <2>1, <2>2, <2>3 DEF HeardInv
<1>2. ASSUME NEW s \in Server, Crash(s) PROVE HeardInv'
  BY <1>2 DEF Crash, HeardInv, lvars, Known
<1>3. ASSUME NEW s \in Server, SendHeartbeat(s) PROVE HeardInv'
  <2>1. Known' = Known /\ age' = age /\ up' = up /\ s \in up /\ due[s] = 0
    BY <1>3 DEF SendHeartbeat, lvars, Known
  <2>2. \A x \in up : x # s => due'[x] = due[x] /\ unheard'[x] = unheard[x]
    BY <1>3 DEF SendHeartbeat, TypeOK
  <2>3. due'[s] = HBINT /\ unheard'[s] = Cap(unheard[s] + 1, 2)
    BY <1>3 DEF SendHeartbeat, TypeOK
  <2>4. unheard[s] \in 0..2 /\ age[s] \in Nat
    BY DEF TypeOK
  <2>5. unheard'[s] # 0 /\ (unheard'[s] = 1 => unheard[s] = 0)
    BY <2>3, <2>4 DEF Cap
  <2>6. unheard'[s] = 1 => s \in Known /\ age[s] + HBINT <= 2 * HBINT
    BY <2>1, <2>4, <2>5 DEF HeardInv
  <2> QED
    BY <2>1, <2>2, <2>3, <2>5, <2>6 DEF HeardInv
<1>4. ASSUME NEW m \in net, Receive(m) PROVE HeardInv'
  <2>1. m[1] \in Server
    BY Datagram
  <2>2. Known' = Known \cup {m[1]}
    <3>1. CASE m[1] \in Known
      BY <1>4, <3>1 DEF Receive, Entered, Known
    <3>2. CASE m[1] \notin Known
      <4>1. servers' = Append(servers, m[1]) /\ servers \in Seq(Server)
        BY <1>4, <3>2 DEF Receive, Entered, TypeOK
      <4> QED
        BY <4>1 DEF Known
    <3> QED
      BY <3>1, <3>2
  <2>3. age' = [age EXCEPT ![m[1]] = 0] /\ unheard' = [unheard EXCEPT ![m[1]] = 0]
          /\ up' = up /\ due' = due
    BY <1>4 DEF Receive, Heard
  <2> QED
    BY <2>1, <2>2, <2>3 DEF HeardInv, TypeOK
<1>5. ASSUME NEW m \in net, Lose(m) PROVE HeardInv'
  BY <1>5 DEF Lose, HeardInv, lvars, Known
<1>6. CASE Tick
  <2> SUFFICES ASSUME NEW s \in up
               PROVE  /\ unheard[s] = 0 => s \in Known /\ age'[s] + due'[s] <= HBINT
                      /\ unheard[s] = 1 => s \in Known /\ age'[s] + due'[s] <= 2 * HBINT
    BY <1>6 DEF Tick, HeardInv, Known
  <2>1. s \in Server /\ due[s] \in Nat /\ age[s] \in Nat
    BY DEF TypeOK
  <2>2. due'[s] = due[s] - 1 /\ age'[s] = Cap(age[s] + 1, Stale)
    BY <1>6, <2>1 DEF Tick
  <2>3. age'[s] <= age[s] + 1 /\ age'[s] \in Nat
    BY <2>1, <2>2 DEF Cap
  <2> QED
    BY <2>1, <2>2, <2>3 DEF HeardInv
<1>7. CASE Redirect
  BY <1>7 DEF Redirect, HeardInv, Known
<1>8. CASE Restart
  BY <1>8 DEF Restart, HeardInv, TypeOK
<1>9. CASE UNCHANGED vars
  BY <1>9 DEF vars, lvars, HeardInv, Known
<1> QED
  BY <1>1, <1>2, <1>3, <1>4, <1>5, <1>6, <1>7, <1>8, <1>9 DEF Next

(* Every action keeps what is known of the ages.                           *)
LEMMA DownStep == TypeOK /\ DownInv /\ [Next]_vars => DownInv'
<1> SUFFICES ASSUME TypeOK, DownInv, [Next]_vars PROVE DownInv'
  OBVIOUS
<1> USE Numbers
<1>1. ASSUME NEW s \in Server, Start(s) PROVE DownInv'
  <2>1. age' = age /\ net' = net /\ up' = up \cup {s} /\ down' = [down EXCEPT ![s] = 0]
    BY <1>1 DEF Start, lvars
  <2>2. \A x \in Server : down'[x] = (IF x = s THEN 0 ELSE down[x])
    BY <2>1 DEF TypeOK
  <2>3. \A x \in up' : down'[x] = 0
    BY <2>1, <2>2 DEF DownInv, TypeOK
  <2>4. \A m \in net' : down'[m[1]] <= m[2]
    <3> SUFFICES ASSUME NEW m \in net PROVE down'[m[1]] <= m[2]
      BY <2>1
    <3>1. m[1] \in Server /\ m[2] \in Nat
      BY Datagram
    <3> QED
      BY <2>2, <3>1 DEF DownInv
  <2>5. \A x \in Server : age'[x] <= HBTIMEOUT => down'[x] <= age'[x] + MaxDelay
    <3>1. \A x \in Server : age[x] \in Nat
      BY DEF TypeOK
    <3> QED
      BY <2>1, <2>2, <3>1 DEF DownInv
  <2> QED
    BY <2>3, <2>4, <2>5 DEF DownInv
<1>2. ASSUME NEW s \in Server, Crash(s) PROVE DownInv'
  BY <1>2 DEF Crash, DownInv, TypeOK, lvars
<1>3. ASSUME NEW s \in Server, SendHeartbeat(s) PROVE DownInv'
  BY <1>3 DEF SendHeartbeat, DownInv, TypeOK, lvars
<1>4. ASSUME NEW m \in net, Receive(m) PROVE DownInv'
  <2>1. m[1] \in Server /\ m[2] \in 0..MaxDelay /\ down[m[1]] \in Nat
    BY DEF TypeOK
  <2>2. age' = [age EXCEPT ![m[1]] = 0] /\ down' = down /\ up' = up /\ net' \subseteq net
    BY <1>4 DEF Receive, Heard
  <2>3. age'[m[1]] = 0 /\ \A s \in Server : s # m[1] => age'[s] = age[s]
    BY <2>1, <2>2 DEF TypeOK
  <2>4. down[m[1]] <= MaxDelay
    BY <2>1 DEF DownInv
  <2> QED
    BY <2>1, <2>2, <2>3, <2>4 DEF DownInv
<1>5. ASSUME NEW m \in net, Lose(m) PROVE DownInv'
  BY <1>5 DEF Lose, DownInv, TypeOK, lvars
<1>6. CASE Tick
  <2>1. \A s \in up' : down'[s] = 0
    BY <1>6 DEF Tick, TypeOK
  <2>2. \A s \in Server : down'[s] <= down[s] + 1 /\ down'[s] \in Nat
    BY <1>6 DEF Tick, TypeOK, Cap
  <2>3. ASSUME NEW m \in net' PROVE down'[m[1]] <= m[2]
    <3>1. PICK x \in net : m = <<x[1], x[2] + 1>>
      BY <1>6 DEF Tick
    <3>2. x[1] \in Server /\ x[2] \in Nat /\ down[x[1]] \in Nat
      BY DEF TypeOK
    <3> QED
      BY <2>2, <3>1, <3>2 DEF DownInv
  <2>4. ASSUME NEW s \in Server, age'[s] <= HBTIMEOUT PROVE down'[s] <= age'[s] + MaxDelay
    <3>1. age[s] \in Nat /\ down[s] \in Nat
      BY DEF TypeOK
    <3>2. age'[s] = Cap(age[s] + 1, Stale)
      BY <1>6 DEF Tick
    <3>3. age'[s] = age[s] + 1
      BY <2>4, <3>1, <3>2 DEF Cap
    <3> QED
      BY <2>2, <2>4, <3>1, <3>3 DEF DownInv
  <2> QED
    BY <2>1, <2>3, <2>4 DEF DownInv
<1>7. CASE Redirect
  BY <1>7 DEF Redirect, DownInv
<1>8. CASE Restart
  BY <1>8 DEF Restart, DownInv, TypeOK
<1>9. CASE UNCHANGED vars
  BY <1>9 DEF vars, lvars, DownInv
<1> QED
  BY <1>1, <1>2, <1>3, <1>4, <1>5, <1>6, <1>7, <1>8, <1>9 DEF Next

-----------------------------------------------------------------------------
(* Quotient and remainder.                                                 *)
LEMMA ModOf ==
    ASSUME NEW n \in Nat, n > 0, NEW a \in Int
    PROVE  \E q \in Int : a = n * q + (a % n) /\ a % n \in 0..(n - 1)
<1>1. a = n * (a \div n) + (a % n) /\ a \div n \in Int /\ a % n \in 0..(n - 1)
  OBVIOUS
<1> QED
  BY <1>1

(* The remainder of a division is unique.                                  *)
LEMMA ModIs ==
    ASSUME NEW n \in Nat, n > 0, NEW a \in Int, NEW q \in Int, NEW r \in 0..(n - 1),
           a = n * q + r
    PROVE  a % n = r
<1>1. \A d \in Int : d > 0 => n * d >= n
  OBVIOUS
<1> DEFINE t == a % n
<1>2. PICK p \in Int : a = n * p + t /\ t \in 0..(n - 1)
  BY ModOf
<1> HIDE DEF t
<1>3. n * (q - p) = t - r /\ n * (p - q) = r - t
  BY <1>2
<1>4. ~(q - p > 0) /\ ~(p - q > 0)
  BY <1>1, <1>2, <1>3
<1>5. q = p
  BY <1>4
<1>6. t = r
  BY <1>2, <1>5
<1> QED
  BY <1>6 DEF t

(* The remainder goes up by one with the number, unless it is the largest. *)
LEMMA ModNext ==
    ASSUME NEW n \in Nat, n > 0, NEW a \in Int, a % n # n - 1
    PROVE  (a + 1) % n = (a % n) + 1
<1> DEFINE r == a % n
<1>1. PICK q \in Int : a = n * q + r /\ r \in 0..(n - 1)
  BY ModOf
<1>2. r # n - 1
  OBVIOUS
<1> HIDE DEF r
<1> DEFINE b == a + 1
<1> DEFINE x == r + 1
<1>3. b = n * q + x /\ b \in Int /\ x \in 0..(n - 1)
  BY <1>1, <1>2
<1> HIDE DEF b, x
<1>4. b % n = x
  BY <1>3, ModIs
<1> QED
  BY <1>4 DEF b, x, r

(* When it is the largest, the counter stands at entry i.                  *)
LEMMA ModAt ==
    ASSUME NEW n \in Nat, n > 0, NEW a \in Int, NEW i \in 1..n, (a - i) % n = n - 1
    PROVE  a % n = i - 1
<1>1. PICK q \in Int : a - i = n * q + (n - 1)
  BY ModOf
<1>2. a = n * (q + 1) + (i - 1)
  BY <1>1
<1> QED
  BY <1>2, ModIs

(* Keeping the counter modulo a multiple of the length changes nothing.    *)
LEMMA ModCycle ==
    ASSUME NEW n \in Nat, n > 0, NEW c \in Nat, c > 0, c % n = 0,
           NEW a \in 0..(c - 1), NEW i \in Int
    PROVE  (((a + 1) % c) - i) % n = (a + 1 - i) % n
<1>1. CASE a + 1 < c
  <2>1. (a + 1) % c = a + 1
    BY <1>1, ModIs
  <2> QED
    BY <2>1
<1>2. CASE a + 1 = c
  <2>1. (a + 1) % c = 0
    BY <1>2
  <2>0. 0 - i \in Int /\ c \in Int
    OBVIOUS
  <2> DEFINE r == (0 - i) % n
  <2>2. PICK q \in Int : 0 - i = n * q + r /\ r \in 0..(n - 1)
    BY <2>0, ModOf, Zenon
  <2>3. PICK p \in Int : c = n * p
    <3>1. PICK p \in Int : c = n * p + (c % n)
      BY <2>0, ModOf, Zenon
    <3>2. c = n * p + 0
      BY <3>1, Zenon
    <3> QED
      BY <3>2
  <2>4. (((a + 1) % c) - i) % n = r
    BY <2>1
  <2> HIDE DEF r
  <2>5. a + 1 - i = n * (p + q) + r /\ p + q \in Int /\ a + 1 - i \in Int
    BY <1>2, <2>2, <2>3
  <2>6. (a + 1 - i) % n = r
    BY <2>2, <2>5, ModIs
  <2> QED
    BY <2>4, <2>6
<1> QED
  BY <1>1, <1>2

(* The list is not longer than there are servers, so that Cycle is a       *)
(* multiple of its length.                                                 *)
LEMMA LengthDivides ==
    ASSUME TypeOK, Len(servers) > 0
    PROVE  Cycle % Len(servers) = 0
<1>1. servers \in Seq(Server) /\ Len(servers) \in Nat /\ DOMAIN servers = 1..Len(servers)
  BY DEF TypeOK
<1>2. servers \in Injection(1..Len(servers), Server)
  <2>1. servers \in [1..Len(servers) -> Server]
    BY <1>1
  <2>2. IsInjective(servers)
    BY DEF TypeOK, IsInjective
  <2> QED
    BY <2>1, <2>2 DEF Injection
<1>3. Cardinality(1..Len(servers)) <= Cardinality(Server)
  BY <1>2, FS_Injection, MembershipAssumption
<1>4. Cardinality(1..Len(servers)) = Len(servers)
  BY <1>1, FS_Interval
<1>5. Cardinality(Server) \in Nat
  BY MembershipAssumption, FS_CardinalityType
<1>6. Len(servers) \in 1..Cardinality(Server)
  BY <1>1, <1>3, <1>4, <1>5
<1> QED
  BY <1>6, MembershipAssumption

(* A server that is alive and at whose entry the counter stands is chosen. *)
LEMMA FirstIsChosen ==
    ASSUME TypeOK, NEW i \in DOMAIN servers, isalive(servers[i]),
           ctr % Len(servers) = i - 1
    PROVE  Chosen = servers[i]
<1>1. servers \in Seq(Server) /\ Len(servers) \in Nat /\ ctr \in Nat
  BY Numbers DEF TypeOK
<1> i \in 1..Len(servers)
  BY <1>1
<1>2. Entry(0) = servers[i]
  BY <1>1 DEF Entry
<1>3. 0 \in Alive /\ Alive \subseteq Nat
  BY <1>1, <1>2 DEF Alive
<1> DEFINE k == CHOOSE j \in Alive : \A x \in Alive : j <= x
<1>4. k \in Alive /\ \A x \in Alive : k <= x
  BY <1>3, Least
<1> HIDE DEF k
<1>5. k = 0
  BY <1>3, <1>4
<1>6. Chosen = Entry(k)
  BY <1>3 DEF Chosen, k
<1> QED
  BY <1>2, <1>5, <1>6

(* Every action keeps the turns.                                           *)
LEMMA TurnStep == TypeOK /\ TurnInv /\ [Next]_vars => TurnInv'
<1> SUFFICES ASSUME TypeOK, TurnInv, [Next]_vars PROVE TurnInv'
  OBVIOUS
<1>0. servers \in Seq(Server) /\ Len(servers) \in Nat /\ DOMAIN servers = 1..Len(servers)
        /\ ctr \in Nat
  BY DEF TypeOK
<1>1. CASE UNCHANGED <<servers, ctr, passed>>
  BY <1>1 DEF TurnInv
<1>2. ASSUME NEW m \in net, Receive(m) PROVE TurnInv'
  <2>1. CASE m[1] \in Known
    <3>1. UNCHANGED <<servers, ctr, passed>>
      BY <1>2, <2>1 DEF Receive, Entered
    <3> QED
      BY <3>1, <1>1
  <2>2. CASE m[1] \notin Known
    <3>1. servers' = Append(servers, m[1]) /\ passed' = [x \in Server |-> 0] /\ ctr' = ctr
      BY <1>2, <2>2 DEF Receive, Entered
    <3>2. m[1] \in Server
      BY Datagram
    <3>3. servers' \in Seq(Server) /\ Len(servers') \in Nat /\ Len(servers') > 0
            /\ DOMAIN servers' = 1..Len(servers')
      BY <1>0, <3>1, <3>2
    <3>4. ASSUME NEW i \in DOMAIN servers' PROVE passed'[servers'[i]] <= (ctr' - i) % Len(servers')
      <4>1. passed'[servers'[i]] = 0
        BY <3>1, <3>3
      <4>2. (ctr' - i) % Len(servers') \in Nat
        BY <1>0, <3>1, <3>3
      <4> QED
        BY <4>1, <4>2
    <3> QED
      BY <3>4 DEF TurnInv
  <2> QED
    BY <2>1, <2>2
<1>3. CASE Tick
  <2>1. servers' = servers /\ ctr' = ctr
    BY <1>3 DEF Tick
  <2>2. ASSUME NEW i \in DOMAIN servers
        PROVE  passed'[servers[i]] <= (ctr - i) % Len(servers)
    <3>1. servers[i] \in Server /\ (ctr - i) % Len(servers) \in Nat
      BY <1>0
    <3>2. passed'[servers[i]] \in {passed[servers[i]], 0}
      BY <1>3, <3>1 DEF Tick
    <3> QED
      BY <3>1, <3>2 DEF TurnInv
  <2> QED
    BY <2>1, <2>2 DEF TurnInv
<1>4. CASE Redirect
  <2>1. servers' = servers /\ ctr' = (ctr + 1) % Cycle
    BY <1>4 DEF Redirect, CounterNext
  <2>2. ASSUME NEW i \in DOMAIN servers
        PROVE  passed'[servers[i]] <= (ctr' - i) % Len(servers)
    <3> DEFINE n == Len(servers)  s == servers[i]
    <3>1. s \in Server /\ n \in Nat /\ n > 0 /\ i \in 1..n
      BY <1>0
    <3>0. passed[s] \in Nat /\ passed[s] <= (ctr - i) % n
      BY <3>1 DEF TypeOK, TurnInv
    <3> HIDE DEF n, s
    <3>2. (ctr' - i) % n = (ctr + 1 - i) % n
      <4>1. Cycle % n = 0
        BY <3>1, LengthDivides DEF n
      <4>2. ctr \in 0..(Cycle - 1) /\ Cycle \in Nat /\ Cycle > 0
        BY Numbers DEF TypeOK
      <4>3. i \in Int
        BY <3>1
      <4>4. (((ctr + 1) % Cycle) - i) % n = (ctr + 1 - i) % n
        BY <3>1, <4>1, <4>2, <4>3, ModCycle, Zenon
      <4> QED
        BY <2>1, <4>4, Zenon
    <3>3. (ctr + 1 - i) % n \in Nat
      BY <1>0, <3>1
    <3>4. CASE passed'[s] = 0
      <4>1. (ctr' - i) % n \in Nat
        BY <3>2, <3>3, Zenon
      <4>2. passed'[s] <= (ctr' - i) % n
        BY <3>4, <4>1
      <4> QED
        BY <4>2 DEF n, s
    <3>5. CASE passed'[s] # 0
      <4>1. passed'[s] = passed[s] + 1 /\ s # Chosen /\ isalive(s)
        BY <1>4, <3>1, <3>5 DEF Redirect
      <4>2. ctr % n # i - 1
        BY <4>1, FirstIsChosen DEF n, s
      <4>0. ctr \in Int /\ ctr - i \in Int
        BY <1>0, <3>1
      <4>3. (ctr - i) % n # n - 1
        BY <3>1, <4>0, <4>2, ModAt, Zenon
      <4>4. ((ctr - i) + 1) % n = ((ctr - i) % n) + 1
        BY <3>1, <4>0, <4>3, ModNext, Zenon
      <4>5. (ctr - i) + 1 = ctr + 1 - i
        BY <1>0, <3>1
      <4>6. (ctr - i) % n \in Nat
        BY <1>0, <3>1
      <4>7. (ctr' - i) % n = ((ctr - i) % n) + 1
        BY <3>2, <4>4, <4>5, Zenon
      <4>8. passed[s] + 1 <= ((ctr - i) % n) + 1
        BY <3>0, <4>6
      <4>9. passed'[s] <= (ctr' - i) % n
        BY <4>1, <4>7, <4>8, Zenon
      <4> QED
        BY <4>9 DEF n, s
    <3> QED
      BY <3>4, <3>5 DEF n, s
  <2> QED
    BY <2>1, <2>2 DEF TurnInv
<1>5. CASE Restart
  BY <1>5 DEF Restart, TurnInv
<1>6. CASE UNCHANGED vars
  BY <1>1, <1>6 DEF vars, lvars
<1>7. ASSUME NEW s \in Server, Start(s) \/ Crash(s) \/ SendHeartbeat(s) PROVE TurnInv'
  BY <1>1, <1>7 DEF Start, Crash, SendHeartbeat, lvars
<1>8. ASSUME NEW m \in net, Lose(m) PROVE TurnInv'
  BY <1>1, <1>8 DEF Lose, lvars
<1> QED
  BY <1>2, <1>3, <1>4, <1>5, <1>6, <1>7, <1>8 DEF Next

-----------------------------------------------------------------------------
(* Every variable of the load balancer keeps its type: a server is never   *)
(* entered twice (handle_fserver_state), and a redirect names a server of  *)
(* the list or nothing.                                                    *)
THEOREM MembershipTypes == Spec => []TypeOK
<1>1. Init => TypeOK
  BY TypeInit
<1>2. TypeOK /\ [Next]_vars => TypeOK'
  BY TypeStep
<1> QED
  BY <1>1, <1>2, PTL DEF Spec

(* IInv is an invariant.                                                   *)
LEMMA Invariance == Spec => []IInv
<1>1. Init => IInv
  BY TypeInit, Numbers DEF Init, IInv, HeardInv, DownInv
<1>2. IInv /\ [Next]_vars => IInv'
  BY TypeStep, HeardStep, DownStep DEF IInv
<1> QED
  BY <1>1, <1>2, PTL DEF Spec

(* A running server of which no two heartbeats in a row went unheard is in *)
(* the list and counts as alive (isalive), for every interval and every    *)
(* timeout of at least two intervals.                                      *)
THEOREM LiveAlwaysFound == Spec => []LiveIsFound
<1>1. IInv => LiveIsFound
  <2> SUFFICES ASSUME IInv, NEW s \in up, unheard[s] <= 1
               PROVE  s \in Known /\ isalive(s)
    BY DEF LiveIsFound
  <2>1. unheard[s] \in 0..2 /\ age[s] \in Nat /\ due[s] \in Nat
    BY Numbers DEF IInv, TypeOK
  <2>2. unheard[s] = 0 \/ unheard[s] = 1
    BY <2>1
  <2>3. s \in Known /\ age[s] + due[s] <= 2 * HBINT
    BY <2>1, <2>2, Numbers DEF IInv, HeardInv
  <2> QED
    BY <2>1, <2>3, Numbers DEF isalive
<1> QED
  BY <1>1, Invariance, PTL

(* No client is redirected to a server that has been down for longer than  *)
(* the timeout and the delay of a datagram (get_roundrobin_redirect).      *)
THEOREM DeadNeverChosen == Spec => DeadIsNotChosen
<1>1. IInv /\ [Next]_vars => [Redirect => target' = None \/ down[target'] < Buried]_vars
  <2> SUFFICES ASSUME IInv, Redirect, target' # None PROVE down[target'] < Buried
    OBVIOUS
  <2>1. target' \in Server /\ isalive(target')
    BY ChosenIsAlive DEF IInv, Redirect
  <2>2. down[target'] \in Nat /\ age[target'] \in Nat
    BY <2>1, Numbers DEF IInv, TypeOK
  <2> QED
    BY <2>1, <2>2, Numbers DEF IInv, DownInv, isalive
<1> QED
  BY <1>1, Invariance, PTL DEF Spec, DeadIsNotChosen

(* Every server that is alive gets a client within one round of the list   *)
(* (the counter of main in loadbalancer.cc), for any number of servers.    *)
THEOREM NobodyStarved == Spec => []NoneStarved
<1>1. Init => TypeOK /\ TurnInv
  BY TypeInit DEF Init, TurnInv
<1>2. TypeOK /\ TurnInv /\ [Next]_vars => (TypeOK /\ TurnInv)'
  BY TypeStep, TurnStep
<1>3. TypeOK /\ TurnInv => NoneStarved
  <2> SUFFICES ASSUME TypeOK, TurnInv, NEW i \in DOMAIN servers
               PROVE  passed[servers[i]] < Len(servers)
    BY DEF NoneStarved, Known
  <2>0. servers \in Seq(Server) /\ ctr \in Int
    BY Numbers DEF TypeOK
  <2>1. Len(servers) \in Nat /\ Len(servers) > 0 /\ i \in Int /\ servers[i] \in Server
    BY <2>0
  <2>2. (ctr - i) % Len(servers) \in 0..(Len(servers) - 1)
    BY <2>0, <2>1
  <2>3. passed[servers[i]] \in Nat
    BY <2>1 DEF TypeOK
  <2> QED
    BY <2>1, <2>2, <2>3 DEF TurnInv
<1> QED
  BY <1>1, <1>2, <1>3, PTL DEF Spec
=============================================================================

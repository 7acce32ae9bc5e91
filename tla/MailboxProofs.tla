--------------------------- MODULE MailboxProofs ---------------------------
(***************************************************************************)
(* Theorems about Mailbox, for any number of sessions, requests, users,    *)
(* partitions and recipients.                                              *)
(***************************************************************************)
EXTENDS Mailbox, FiniteSetTheorems, SequenceTheorems, WellFoundedInduction, TLAPS

(* The hashes eid_vector lists for a user, and those with a mail.          *)
Listing(u) == ToSet(Listed(Home(u)))
Stored(u)  == {m.hash : m \in mails[Home(u)]}

(* A session that delivers has a name, recipients and a hash: it reads no  *)
(* command until the delivery has ended.                                   *)
SessionInv ==
    /\ at \in [Session -> Nat]
    /\ \A s \in Session :
        /\ dpc[s] # "none" => state[s] = "DATA"
        /\ state[s] \in {"TRANSACTION", "DATA"} => from[s] \in Sender
        /\ state[s] = "DATA" => rcpts[s] # << >>
        /\ dpc[s] \in {"read", "index", "mail"} => name[s] \in User /\ hash[s] \in Hash

(* A request to delete names a mail that was answered +OK, and as long as  *)
(* the HTTP server runs the list it has read holds the hash.  No list is   *)
(* empty: the cell is then deleted or was never written.                   *)
Asks(q) == rpc[q] \in {"unlist", "delete"} \/ (rpc[q] = "read" /\ kind[q] = "delete")

RequestInv ==
    /\ ri \in [Request -> Nat]
    /\ \A c \in Cell : eids[c] # << >>
    /\ \A q \in Request :
        /\ rpc[q] # "none" => ruser[q] \in User
        /\ Asks(q) => rhash[q] \in Known(ruser[q])
        /\ rpc[q] = "delete" => <<ruser[q], rhash[q]>> \in deleted
        /\ http_up /\ rpc[q] = "unlist" => rgot[q] # Absent /\ rhash[q] \in ToSet(rgot[q])

(* The mailbox of u.  A mail that is listed and not yet stored belongs to  *)
(* one session, is known to nobody and so cannot be asked for by a request *)
(* to delete; a deleted mail is not listed again.                          *)
Brings(s, u) == dpc[s] = "mail" /\ Recipient(s) = u

BoxInv(u) ==
    /\ IsInjective(Listed(Home(u)))
    /\ \A h \in Listing(u) : <<u, h>> \notin deleted
    /\ \A s \in Session : Brings(s, u) =>
          /\ Target(s) = Home(u) /\ hash[s] \in Listing(u) /\ hash[s] \notin Known(u)
          /\ \A z \in Session : Brings(z, u) /\ hash[z] = hash[s] => z = s
    /\ \A h \in Listing(u) \ Stored(u) : HalfDelivered(u, h) \/ HalfDeleted(u, h)
    /\ \A h \in Stored(u) \ Listing(u) : HalfDelivered(u, h) \/ HalfDeleted(u, h)
    /\ \A a \in acked : a[2] = u /\ <<u, a[1].hash>> \notin deleted => Kept(a[1], u)

MailInv == \A u \in User : spoiled[u] = {} => BoxInv(u)

(* A browser is told 200 only for a mail of its own session.               *)
WebInv == \A s \in Session : wans[s] = "200" => \E a \in acked : a[1].by = s

(* TypeOK in three parts: the table and the histories, the sessions, the   *)
(* requests.                                                               *)
TableTypes ==
    /\ eids \in [Cell -> Seq(Hash) \cup {Absent}] /\ mails \in [Cell -> SUBSET Mail]
    /\ now \in 0..MaxTime
    /\ smtp_up \in BOOLEAN /\ http_up \in BOOLEAN /\ coord_up \in BOOLEAN
    /\ acked \subseteq Mail \X User /\ deleted \subseteq User \X Hash
    /\ spoiled \in [User -> SUBSET Window]

SessionTypes ==
    /\ state \in [Session -> {"NEW", "READY", "TRANSACTION", "DATA", "MISSED", "CLOSED"}]
    /\ name \in [Session -> User \cup {None}] /\ from \in [Session -> Sender \cup {None}]
    /\ rcpts \in [Session -> Seq(User)] /\ title \in [Session -> Title \cup {None}]
    /\ slot \in [Session -> Seq(BOOLEAN)]
    /\ dpc \in [Session -> {"none", "read", "index", "mail", "reset"}]
    /\ \A s \in Session : dpc[s] \in {"read", "index", "mail"} => at[s] \in DOMAIN rcpts[s]
    /\ got \in [Session -> Seq(Hash) \cup {Absent}]
    /\ hash \in [Session -> Hash \cup {None}]
    /\ wans \in [Session -> {"none", "200", "500", "303"}]

RequestTypes ==
    /\ kind \in [Request -> {"none", "list", "delete"}]
    /\ ruser \in [Request -> User \cup {None}] /\ rhash \in [Request -> Hash \cup {None}]
    /\ rpc \in [Request -> {"none", "read", "mails", "unlist", "delete", "done", "hung"}]
    /\ rgot \in [Request -> Seq(Hash) \cup {Absent}]
    /\ \A q \in Request : rpc[q] = "mails" => ri[q] \in DOMAIN rgot[q]
    /\ rans \in [Request -> {"none", "200", "404", "500"}]

TInv == TableTypes /\ SessionTypes /\ SessionInv /\ RequestTypes /\ RequestInv
IInv == TInv /\ MailInv /\ WebInv

-----------------------------------------------------------------------------
(* Lists of hashes: what is appended, what is taken out.                   *)
LEMMA ToSetAppended ==
    ASSUME NEW s \in Seq(Hash), NEW h \in Hash
    PROVE  /\ ToSet(Append(s, h)) = ToSet(s) \cup {h}
           /\ IsInjective(s) /\ h \notin ToSet(s) => IsInjective(Append(s, h))
<1>1. DOMAIN Append(s, h) = DOMAIN s \cup {Len(s) + 1} /\ Len(s) + 1 \notin DOMAIN s
  OBVIOUS
<1>2. \A i \in DOMAIN s : Append(s, h)[i] = s[i]
  OBVIOUS
<1>3. Append(s, h)[Len(s) + 1] = h
  OBVIOUS
<1>4. QED
  BY <1>1, <1>2, <1>3 DEF ToSet, IsInjective

LEMMA ToSetOne ==
    ASSUME NEW h
    PROVE  ToSet(<<h>>) = {h} /\ IsInjective(<<h>>)
  BY DEF ToSet, IsInjective

LEMMA ToSetNone == ToSet(<< >>) = {} /\ IsInjective(<< >>)
  BY DEF ToSet, IsInjective

LEMMA ToSetType ==
    ASSUME NEW s \in Seq(Hash)
    PROVE  ToSet(s) \subseteq Hash
  BY DEF ToSet

(* A list that names no hash twice has as many as it is long.              *)
LEMMA ListedOnce ==
    ASSUME NEW s \in Seq(Hash), IsInjective(s)
    PROVE  Cardinality(ToSet(s)) = Len(s)
<1>1. DOMAIN s = 1..Len(s) /\ Len(s) \in Nat /\ s = [i \in DOMAIN s |-> s[i]]
  OBVIOUS
<1>2. s \in [1..Len(s) -> ToSet(s)]
  BY <1>1 DEF ToSet
<1>3. s \in Bijection(1..Len(s), ToSet(s))
  BY <1>1, <1>2 DEF Bijection, Injection, Surjection, ToSet
<1>4. IsFiniteSet(1..Len(s)) /\ Cardinality(1..Len(s)) = Len(s)
  <2>1. /\ IsFiniteSet(1..Len(s))
        /\ Cardinality(1..Len(s)) = IF 1 > Len(s) THEN 0 ELSE Len(s) - 1 + 1
    <3>1. 1 \in Int /\ Len(s) \in Int
      BY <1>1
    <3>2. QED
      BY <3>1, FS_Interval
  <2>2. QED
    BY <1>1, <2>1
<1>5. QED
  BY <1>3, <1>4, FS_Bijection DEF ExistsBijection

(* find: a hash that is listed has a first place in the list.              *)
LEMMA FirstAtFound ==
    ASSUME NEW v \in Seq(Hash), NEW h \in ToSet(v)
    PROVE  FirstAt(v, h) \in DOMAIN v /\ v[FirstAt(v, h)] = h
<1> DEFINE T == {i \in DOMAIN v : v[i] = h}
           Less == {p \in Nat \X Nat : p[1] < p[2]}
<1>1. IsWellFoundedOn(Less, Nat)
  BY NatLessThanWellFounded DEF OpToRel
<1>2. T \subseteq Nat /\ T # {}
  BY DEF ToSet
<1>3. PICK t \in T : \A x \in T : ~(<<x, t>> \in Less)
  <2> HIDE DEF Less, T
  <2> QED BY <1>1, <1>2, WFMin
<1>4. t \in DOMAIN v /\ v[t] = h
  OBVIOUS
<1>5. \A j \in 1..(t - 1) : v[j] # h
  <2> SUFFICES ASSUME NEW j \in 1..(t - 1), v[j] = h PROVE FALSE
    OBVIOUS
  <2>1. DOMAIN v = 1..Len(v) /\ Len(v) \in Nat /\ t \in 1..Len(v)
    BY <1>4
  <2>2. j \in DOMAIN v /\ j < t /\ j \in Nat /\ t \in Nat
    BY <2>1
  <2>3. QED
    BY <1>3, <2>2
<1>6. QED
  BY <1>4, <1>5 DEF FirstAt

(* erase: the list without the entry at place k.                           *)
LEMMA Removed ==
    ASSUME NEW v \in Seq(Hash), NEW k \in DOMAIN v
    PROVE  LET w == RemoveAt(v, k) IN
           /\ w \in Seq(Hash) /\ Len(w) = Len(v) - 1
           /\ \A i \in 1..(Len(v) - 1) : w[i] = IF i < k THEN v[i] ELSE v[i + 1]
<1> DEFINE a == SubSeq(v, 1, k - 1)
           b == SubSeq(v, k + 1, Len(v))
<1>1. k \in 1..Len(v) /\ Len(v) \in Nat /\ k \in Nat
  OBVIOUS
<1>2. a \in Seq(Hash) /\ Len(a) = k - 1 /\ \A i \in 1..(k - 1) : a[i] = v[i]
  BY <1>1
<1>3. b \in Seq(Hash) /\ Len(b) = Len(v) - k /\ \A i \in 1..(Len(v) - k) : b[i] = v[k + i]
  BY <1>1
<1> HIDE DEF a, b
<1>4. /\ a \o b \in Seq(Hash) /\ Len(a \o b) = Len(v) - 1
  BY <1>1, <1>2, <1>3
<1>5. ASSUME NEW i \in 1..(Len(v) - 1)
      PROVE  (a \o b)[i] = IF i < k THEN v[i] ELSE v[i + 1]
  <2>1. CASE i < k
    BY <1>1, <1>2, <1>3, <2>1
  <2>2. CASE ~(i < k)
    <3>1. (a \o b)[i] = b[i - (k - 1)]
      BY <1>1, <1>2, <1>3, <2>2, SMTT(20)
    <3>2. i - (k - 1) \in 1..(Len(v) - k) /\ k + (i - (k - 1)) = i + 1
      BY <1>1, <2>2
    <3>3. b[i - (k - 1)] = v[i + 1]
      BY <1>3, <3>2
    <3>4. QED
      BY <2>2, <3>1, <3>3
  <2>3. QED
    BY <2>1, <2>2
<1>6. RemoveAt(v, k) = a \o b
  BY DEF RemoveAt, a, b
<1>7. QED
  BY <1>4, <1>5, <1>6

(* What /delete-email writes back is a list again, and of a list without   *)
(* repetitions exactly the hash is missing.                                *)
LEMMA ErasedRest ==
    ASSUME NEW v \in Seq(Hash), NEW h \in ToSet(v), Len(v) # 1
    PROVE  /\ Erased(v, h) \in Seq(Hash) /\ Erased(v, h) # << >>
           /\ IsInjective(v) => /\ IsInjective(Erased(v, h))
                                /\ ToSet(Erased(v, h)) = ToSet(v) \ {h}
<1> DEFINE k == FirstAt(v, h)
           w == RemoveAt(v, k)
<1>1. k \in DOMAIN v /\ v[k] = h
  BY FirstAtFound
<1>2. Erased(v, h) = w
  BY DEF Erased
<1>3. /\ DOMAIN v = 1..Len(v) /\ Len(v) \in Nat /\ k \in Nat
  BY <1>1
<1> HIDE DEF k
<1>4. /\ w \in Seq(Hash) /\ Len(w) = Len(v) - 1
      /\ \A i \in 1..(Len(v) - 1) : w[i] = IF i < k THEN v[i] ELSE v[i + 1]
  BY <1>1, Removed
<1> HIDE DEF w
<1>5. DOMAIN w = 1..(Len(v) - 1) /\ w # << >>
  BY <1>1, <1>3, <1>4
<1>6. ASSUME IsInjective(v) PROVE IsInjective(w)
  <2> SUFFICES ASSUME NEW i \in DOMAIN w, NEW j \in DOMAIN w, w[i] = w[j] PROVE i = j
    BY DEF IsInjective
  <2> DEFINE x == IF i < k THEN i ELSE i + 1
             y == IF j < k THEN j ELSE j + 1
  <2>1. x \in DOMAIN v /\ y \in DOMAIN v
    BY <1>3, <1>5
  <2>2. v[x] = v[y]
    BY <1>4, <1>5
  <2>3. x = y
    BY <1>6, <2>1, <2>2 DEF IsInjective
  <2>4. i \in Nat /\ j \in Nat
    BY <1>3, <1>5
  <2>5. QED
    BY <1>3, <2>3, <2>4
<1>7. ASSUME IsInjective(v) PROVE ToSet(w) = ToSet(v) \ {h}
  <2>1. ASSUME NEW i \in DOMAIN w PROVE w[i] \in ToSet(v) \ {h}
    <3> DEFINE x == IF i < k THEN i ELSE i + 1
    <3>1. x \in DOMAIN v /\ x # k
      BY <1>3, <1>5
    <3>2. w[i] = v[x]
      BY <1>4, <1>5
    <3>3. v[x] # h
      BY <1>1, <1>7, <3>1 DEF IsInjective
    <3>4. QED
      BY <3>1, <3>2, <3>3 DEF ToSet
  <2>2. ASSUME NEW x \in DOMAIN v, v[x] # h PROVE v[x] \in ToSet(w)
    <3> DEFINE i == IF x < k THEN x ELSE x - 1
    <3>1. x # k /\ x \in 1..Len(v) /\ k \in 1..Len(v)
      BY <1>1, <1>3, <2>2
    <3>2. i \in DOMAIN w /\ (IF i < k THEN i ELSE i + 1) = x
      BY <1>3, <1>5, <3>1
    <3>3. w[i] = v[x]
      BY <1>4, <1>5, <3>2
    <3>4. QED
      BY <3>2, <3>3 DEF ToSet
  <2>3. QED
    BY <2>1, <2>2 DEF ToSet
<1>8. QED
  BY <1>2, <1>4, <1>5, <1>6, <1>7

-----------------------------------------------------------------------------
(* Types.                                                                  *)
LEMMA TypeParts == TInv => TypeOK
  BY DEF TInv, TableTypes, SessionTypes, RequestTypes, TypeOK, Absent

(* A step of a session that leaves the table and the requests alone.       *)
LEMMA TableFrame ==
    ASSUME TInv, UNCHANGED <<tvars, now, http_up, hvars>>,
           smtp_up' \in BOOLEAN, coord_up' \in BOOLEAN
    PROVE  TableTypes'
  BY DEF TInv, TableTypes, tvars, hvars

LEMMA RequestFrame ==
    ASSUME TInv, UNCHANGED <<eids, http_up, rvars, deleted>>, acked \subseteq acked'
    PROVE  RequestTypes' /\ RequestInv'
<1>1. UNCHANGED <<kind, ruser, rhash, rpc, rgot, ri, rans>>
  BY DEF rvars
<1>2. RequestTypes'
  BY <1>1 DEF TInv, RequestTypes
<1>3. \A u : Known(u) \subseteq Known(u)'
  BY DEF Known
<1>4. RequestInv'
  BY <1>1, <1>3 DEF TInv, RequestInv, Asks
<1>5. QED
  BY <1>2, <1>4

LEMMA SessionFrame ==
    ASSUME TInv, UNCHANGED <<svars, dvars, wans>>
    PROVE  SessionTypes' /\ SessionInv'
<1>1. UNCHANGED <<state, name, from, rcpts, title, slot, dpc, at, got, hash, wans>>
  BY DEF svars, dvars
<1>2. QED
  BY <1>1 DEF TInv, SessionTypes, SessionInv

(* rcpt_to_buffer: the flags of a session stay a sequence.                 *)
LEMMA FlagsType ==
    ASSUME NEW v \in Seq(BOOLEAN)
    PROVE  /\ [i \in DOMAIN v |-> FALSE] \in Seq(BOOLEAN)
           /\ Append(v, TRUE) \in Seq(BOOLEAN)
           /\ \A k \in 1..Len(v) : [v EXCEPT ![k] = TRUE] \in Seq(BOOLEAN)
<1>1. PICK n \in Nat : v \in [1..n -> BOOLEAN]
  BY SeqDef
<1>2. [i \in DOMAIN v |-> FALSE] \in [1..n -> BOOLEAN]
  BY <1>1
<1>3. \A k \in 1..Len(v) : [v EXCEPT ![k] = TRUE] \in [1..n -> BOOLEAN]
  BY <1>1
<1>4. Append(v, TRUE) \in Seq(BOOLEAN)
  OBVIOUS
<1>5. [1..n -> BOOLEAN] \subseteq Seq(BOOLEAN)
  BY SeqDef
<1>6. QED
  BY <1>2, <1>3, <1>4, <1>5

(* The commands of a session: none is read while it delivers.              *)
LEMMA CommandTypes ==
    ASSUME TInv, NEW s \in Session,
           \/ \E u \in User : Helo(s, u) \/ Rcpt(s, u)
           \/ \E f \in Sender : MailFrom(s, f)
           \/ \E t \in Title : SetTitle(s, t)
           \/ Data(s) \/ MissDot(s) \/ WebUnanswered(s)
    PROVE  SessionTypes' /\ SessionInv'
<1> USE DEF TInv
<1>1. CASE \E u \in User : Helo(s, u)
  BY <1>1 DEF SessionTypes, SessionInv, Helo, Reads, dvars
<1>2. CASE \E u \in User : Rcpt(s, u)
  <2>1. PICK u \in User : Rcpt(s, u)
    BY <1>2
  <2>2. rcpts[s] \in Seq(User) /\ slot[s] \in Seq(BOOLEAN)
    BY DEF SessionTypes
  <2> DEFINE r == Append(rcpts[s], u)
             x == IF Len(slot[s]) > Len(rcpts[s])
                    THEN [slot[s] EXCEPT ![Len(rcpts[s]) + 1] = TRUE] ELSE Append(slot[s], TRUE)
  <2>3. r \in Seq(User) /\ r # << >>
    BY <2>2
  <2>4. x \in Seq(BOOLEAN)
    <3>1. Len(slot[s]) > Len(rcpts[s]) => Len(rcpts[s]) + 1 \in 1..Len(slot[s])
      BY <2>2
    <3>2. QED
      BY <2>2, <3>1, FlagsType
  <2> HIDE DEF r, x
  <2>5. /\ state[s] = "TRANSACTION" /\ rcpts' = [rcpts EXCEPT ![s] = r]
        /\ slot' = [slot EXCEPT ![s] = x]
        /\ UNCHANGED <<state, name, from, title, dvars, wans>>
    BY <2>1 DEF Rcpt, Reads, r, x, SessionTypes
  <2>6. QED
    BY <2>3, <2>4, <2>5 DEF SessionTypes, SessionInv, dvars
<1>3. CASE \E f \in Sender : MailFrom(s, f)
  BY <1>3 DEF SessionTypes, SessionInv, MailFrom, Reads, dvars
<1>4. CASE \E t \in Title : SetTitle(s, t)
  BY <1>4 DEF SessionTypes, SessionInv, SetTitle, Reads, dvars
<1>5. CASE Data(s) \/ MissDot(s)
  BY <1>5 DEF SessionTypes, SessionInv, Data, MissDot, Reads, dvars
<1>6. CASE WebUnanswered(s)
  BY <1>6 DEF SessionTypes, SessionInv, WebUnanswered, svars, dvars
<1>7. QED
  BY <1>1, <1>2, <1>3, <1>4, <1>5, <1>6

(* RSET and the end of a delivery, QUIT, and the end of the mail.          *)
LEMMA EndTypes ==
    ASSUME TInv, NEW s \in Session, Rset(s) \/ EndDelivery(s) \/ Leave(s)
    PROVE  SessionTypes' /\ SessionInv' /\ smtp_up' \in BOOLEAN /\ coord_up' = coord_up
<1> USE DEF TInv
<1>1. ASSUME Rset(s) \/ EndDelivery(s)
      PROVE  SessionTypes' /\ SessionInv' /\ smtp_up' \in BOOLEAN /\ coord_up' = coord_up
  <2>1. slot[s] \in Seq(BOOLEAN)
    BY DEF SessionTypes
  <2> DEFINE x == [i \in DOMAIN slot[s] |-> FALSE]
  <2>2. x \in Seq(BOOLEAN) /\ << >> \in Seq(User)
    BY <2>1, FlagsType
  <2> HIDE DEF x
  <2>3. /\ state' = [state EXCEPT ![s] = "READY"]
        /\ name' = [name EXCEPT ![s] = None] /\ from' = [from EXCEPT ![s] = None]
        /\ rcpts' = [rcpts EXCEPT ![s] = << >>] /\ slot' = [slot EXCEPT ![s] = x]
        /\ UNCHANGED <<title, wans>> /\ coord_up' = coord_up
    BY <1>1 DEF Rset, EndDelivery, Cleared, x, SessionTypes
  <2>4. smtp_up' \in BOOLEAN
    BY <1>1 DEF Rset, EndDelivery, Cleared
  <2>5. /\ dpc' = [dpc EXCEPT ![s] = "none"]
        /\ at' \in [Session -> Nat] /\ \A z \in Session \ {s} : at'[z] = at[z]
        /\ got' \in [Session -> Seq(Hash) \cup {Absent}]
        /\ hash' \in [Session -> Hash \cup {None}]
        /\ \A z \in Session \ {s} : hash'[z] = hash[z]
    <3>1. CASE Rset(s)
      <4>1. UNCHANGED <<dpc, at, got, hash>> /\ state[s] # "DATA"
        BY <3>1 DEF Rset, Reads, dvars
      <4>2. dpc[s] = "none"
        BY <4>1 DEF SessionInv
      <4>3. QED
        BY <4>1, <4>2 DEF SessionTypes, SessionInv
    <3>2. CASE EndDelivery(s)
      BY <3>2 DEF EndDelivery, SessionTypes, SessionInv
    <3>3. QED
      BY <1>1, <3>1, <3>2
  <2>6. QED
    BY <2>2, <2>3, <2>4, <2>5 DEF SessionTypes, SessionInv
<1>2. CASE Leave(s)
  <2>1. << >> \in Seq(User) /\ << >> \in Seq(BOOLEAN)
    OBVIOUS
  <2>2. QED
    BY <1>2, <2>1 DEF Leave, SessionTypes, SessionInv, TableTypes, pvars, dvars
<1>3. QED
  BY <1>1, <1>2

LEMMA DotTypes ==
    ASSUME TInv, NEW s \in Session, NEW t \in Title, Dot(s, t)
    PROVE  SessionTypes' /\ SessionInv' /\ smtp_up' \in BOOLEAN /\ coord_up' \in BOOLEAN
<1> USE DEF TInv
<1>1. state[s] = "DATA" /\ from[s] \in Sender /\ rcpts[s] # << >> /\ rcpts[s] \in Seq(User)
  BY DEF Dot, Reads, SessionTypes, SessionInv
<1>2. title' \in [Session -> Title \cup {None}] /\ title'[s] \in Title
  BY DEF Dot, SessionTypes
<1>3. hash' = [hash EXCEPT ![s] = <<from[s], title'[s], now>>] /\ now \in 0..MaxTime
  BY DEF Dot, TableTypes
<1>4. hash' \in [Session -> Hash \cup {None}] /\ hash'[s] \in Hash
      /\ \A z \in Session \ {s} : hash'[z] = hash[z]
  <2>1. <<from[s], title'[s], now>> \in Hash
    BY <1>1, <1>2, <1>3 DEF Hash
  <2>2. QED
    BY <1>3, <2>1 DEF SessionTypes
<1>5. smtp_up' \in BOOLEAN /\ coord_up' \in BOOLEAN /\ (smtp_up' => name[s] # None)
  BY DEF Dot, TableTypes
<1>6. 1 \in DOMAIN rcpts[s]
  BY <1>1
<1>7. /\ dpc' = [dpc EXCEPT ![s] = IF smtp_up' THEN "read" ELSE "none"]
      /\ at' = [at EXCEPT ![s] = 1]
      /\ UNCHANGED <<state, name, from, rcpts, slot, got, wans>>
  BY DEF Dot
<1>8. SessionTypes'
  BY <1>2, <1>4, <1>5, <1>6, <1>7 DEF SessionTypes, SessionInv
<1>9. SessionInv'
  BY <1>1, <1>4, <1>5, <1>7 DEF SessionTypes, SessionInv
<1>10. QED
  BY <1>5, <1>8, <1>9

-----------------------------------------------------------------------------
(* A delivery writes to a row that exists.                                 *)
LEMMA TargetType ==
    ASSUME TInv, NEW s \in Session, dpc[s] \in {"read", "index", "mail"}
    PROVE  /\ Recipient(s) \in User /\ Target(s) \in Cell /\ Target(s)[2] = Recipient(s)
           /\ name[s] \in User /\ hash[s] \in Hash /\ hash[s] # None
           /\ got[s] \in Seq(Hash) \cup {Absent}
           /\ at[s] \in 1..Len(rcpts[s]) /\ Len(rcpts[s]) \in Nat
<1>1. /\ rcpts[s] \in Seq(User) /\ at[s] \in DOMAIN rcpts[s] /\ name[s] \in User
      /\ hash[s] \in Hash /\ got[s] \in Seq(Hash) \cup {Absent}
  BY DEF TInv, SessionTypes, SessionInv
<1>2. Recipient(s) \in User /\ at[s] \in 1..Len(rcpts[s]) /\ Len(rcpts[s]) \in Nat
  BY <1>1 DEF Recipient
<1>3. QED
  BY <1>1, <1>2, MailboxAssumption DEF Target, Cell

LEMMA HomeType ==
    ASSUME NEW u \in User
    PROVE  Home(u) \in Cell /\ Home(u)[2] = u
  BY DEF Home, Cell

LEMMA ListIsPresent ==
    ASSUME NEW v \in Seq(Hash), v # << >>
    PROVE  v # Absent
<1> SUFFICES ASSUME v = <<None>> PROVE FALSE
  BY DEF Absent
<1>1. 1 \in DOMAIN v
  OBVIOUS
<1>2. v[1] \in Hash
  BY <1>1
<1>3. v[1] = None
  OBVIOUS
<1>4. QED
  BY <1>2, <1>3, MailboxAssumption

(* What is written to eid_vector is never an empty list, and never the     *)
(* answer to a GET of a missing cell.                                      *)
LEMMA AppendedType ==
    ASSUME NEW v \in Seq(Hash) \cup {Absent}, NEW h \in Hash
    PROVE  Appended(v, h) \in Seq(Hash) /\ Appended(v, h) # << >> /\ Appended(v, h) # Absent
<1>1. CASE v = Absent
  BY <1>1, MailboxAssumption DEF Appended, Absent
<1>2. CASE v # Absent
  <2>1. v \in Seq(Hash) /\ Appended(v, h) = Append(v, h)
    BY <1>2 DEF Appended
  <2>2. Append(v, h) \in Seq(Hash) /\ Append(v, h) # << >> /\ Append(v, h)[Len(v) + 1] = h
        /\ Len(Append(v, h)) = Len(v) + 1
    BY <2>1
  <2>3. Append(v, h) # Absent
    <3> SUFFICES ASSUME Append(v, h) = <<None>> PROVE FALSE
      BY DEF Absent
    <3>1. Len(v) + 1 = 1
      BY <2>2
    <3>2. <<None>>[1] = h
      BY <2>2, <3>1
    <3>3. QED
      BY <3>2, MailboxAssumption
  <2>4. QED
    BY <2>1, <2>2, <2>3
<1>3. QED
  BY <1>1, <1>2

LEMMA DeliveryTypes ==
    ASSUME TInv, NEW s \in Session, ReadIndex(s) \/ WriteIndex(s) \/ WriteMail(s)
    PROVE  TInv'
<1>1. CASE ReadIndex(s)
  <2>1. dpc[s] = "read" /\ Target(s) \in Cell
    BY <1>1, TargetType DEF ReadIndex
  <2>2. SessionTypes' /\ SessionInv'
    BY <1>1, <2>1 DEF ReadIndex, TInv, SessionTypes, SessionInv, TableTypes, svars
  <2>3. TableTypes'
    BY <1>1, TableFrame DEF ReadIndex, pvars, TInv, TableTypes
  <2>4. RequestTypes' /\ RequestInv'
    BY <1>1, RequestFrame DEF ReadIndex, tvars, pvars, hvars
  <2>5. QED
    BY <2>2, <2>3, <2>4 DEF TInv
<1>2. CASE WriteIndex(s)
  <2>1. /\ dpc[s] = "index" /\ Target(s) \in Cell /\ Recipient(s) \in User
        /\ hash[s] \in Hash /\ got[s] \in Seq(Hash) \cup {Absent}
    BY <1>2, TargetType DEF WriteIndex
  <2>2. SessionTypes' /\ SessionInv'
    BY <1>2, <2>1 DEF WriteIndex, TInv, SessionTypes, SessionInv, svars
  <2>3. Appended(got[s], hash[s]) \in Seq(Hash) /\ Appended(got[s], hash[s]) # << >>
    BY <2>1, AppendedType
  <2>4. /\ eids' \in [Cell -> Seq(Hash) \cup {Absent}]
        /\ \A c \in Cell : eids'[c] # << >>
    <3> HIDE DEF Absent
    <3>1. eids' \in {eids, [eids EXCEPT ![Target(s)] = Appended(got[s], hash[s])]}
      BY <1>2 DEF WriteIndex
    <3>2. QED
      BY <2>1, <2>3, <3>1 DEF TInv, TableTypes, RequestInv
  <2>5. spoiled' \in [User -> SUBSET Window]
    <3>1. \E w \in SUBSET Window : spoiled' = Spoil(Recipient(s), w)
      <4>1. CASE spoiled' = Spoil(Recipient(s), {"refused"})
        BY <4>1 DEF Window
      <4>2. CASE spoiled' # Spoil(Recipient(s), {"refused"})
        <5> DEFINE w == (IF eids[Target(s)] # got[s] THEN {"raced"} ELSE {})
                 \cup (IF Met(Recipient(s), Target(s), hash[s]) THEN {"collided"} ELSE {})
                 \cup (IF Target(s) # Home(Recipient(s)) THEN {"misplaced"} ELSE {})
        <5>1. w \in SUBSET Window
          BY DEF Window
        <5>2. spoiled' = Spoil(Recipient(s), w)
          BY <1>2, <4>2 DEF WriteIndex
        <5>3. QED
          BY <5>1, <5>2
      <4>3. QED
        BY <4>1, <4>2
    <3>2. QED
      BY <2>1, <3>1 DEF Spoil, TInv, TableTypes
  <2>6. UNCHANGED <<mails, now, smtp_up, http_up, coord_up, acked, deleted>> /\ UNCHANGED rvars
    BY <1>2 DEF WriteIndex, pvars
  <2>7. TableTypes'
    BY <2>4, <2>5, <2>6 DEF TInv, TableTypes
  <2>8. RequestTypes' /\ RequestInv'
    BY <2>4, <2>6 DEF rvars, TInv, RequestTypes, RequestInv, Asks, Known
  <2>9. QED
    BY <2>2, <2>7, <2>8 DEF TInv
<1>3. CASE WriteMail(s)
  <2>1. /\ dpc[s] = "mail" /\ Target(s) \in Cell /\ Recipient(s) \in User /\ hash[s] \in Hash
        /\ at[s] \in 1..Len(rcpts[s]) /\ Len(rcpts[s]) \in Nat
    BY <1>3, TargetType DEF WriteMail
  <2>2. Sent(s) \in Mail
    BY <2>1 DEF Sent, Mail
  <2>3. PICK ok \in BOOLEAN :
          /\ mails' = IF ok THEN [mails EXCEPT ![Target(s)] = With(Sent(s), Target(s))] ELSE mails
          /\ acked' = Acked(s, ok)
          /\ wans' = IF http_up THEN Reply(s, ok) ELSE wans
          /\ spoiled' = IF ok THEN spoiled ELSE Spoil(Recipient(s), {"refused"})
    BY <1>3 DEF WriteMail
  <2>4. /\ at' = [at EXCEPT ![s] = @ + 1]
        /\ dpc' = [dpc EXCEPT ![s] = IF at[s] = Len(rcpts[s]) THEN "reset" ELSE "read"]
        /\ UNCHANGED <<eids, now, smtp_up, http_up, coord_up, svars, got, hash, deleted>>
        /\ UNCHANGED rvars
    BY <1>3 DEF WriteMail, Advanced, pvars
  <2>5. mails' \in [Cell -> SUBSET Mail]
    BY <2>1, <2>2, <2>3 DEF With, TInv, TableTypes
  <2>6. acked' \subseteq Mail \X User /\ acked \subseteq acked'
    BY <2>1, <2>2, <2>3 DEF Acked, TInv, TableTypes
  <2>7. spoiled' \in [User -> SUBSET Window]
    BY <2>1, <2>3 DEF Spoil, TInv, TableTypes, Window
  <2>8. TableTypes'
    BY <2>4, <2>5, <2>6, <2>7 DEF TInv, TableTypes
  <2>9. wans' \in [Session -> {"none", "200", "500", "303"}]
    BY <2>3 DEF Reply, TInv, SessionTypes
  <2>10. dpc'[s] = "read" => at'[s] \in 1..Len(rcpts[s])
    BY <2>1, <2>4 DEF TInv, SessionTypes, SessionInv
  <2>11. DOMAIN rcpts[s] = 1..Len(rcpts[s])
    BY DEF TInv, SessionTypes
  <2>12. SessionTypes'
    <3>1. \A z \in Session : dpc'[z] \in {"read", "index", "mail"} => at'[z] \in DOMAIN rcpts'[z]
      <4> SUFFICES ASSUME NEW z \in Session, dpc'[z] \in {"read", "index", "mail"}
                   PROVE  at'[z] \in DOMAIN rcpts'[z]
        OBVIOUS
      <4>1. rcpts' = rcpts
        BY <2>4 DEF svars
      <4>2. CASE z = s
        BY <2>4, <2>10, <2>11, <4>1, <4>2 DEF TInv, SessionTypes
      <4>3. CASE z # s
        BY <2>4, <4>1, <4>3 DEF TInv, SessionTypes, SessionInv
      <4>4. QED
        BY <4>2, <4>3
    <3>2. QED
      BY <2>4, <2>9, <3>1 DEF TInv, SessionTypes, svars
  <2>13. SessionInv'
    BY <2>1, <2>4 DEF TInv, SessionTypes, SessionInv, svars
  <2>14. RequestTypes' /\ RequestInv'
    BY <2>4, <2>6, RequestFrame
  <2>15. QED
    BY <2>8, <2>12, <2>13, <2>14 DEF TInv
<1>4. QED
  BY <1>1, <1>2, <1>3

-----------------------------------------------------------------------------
(* The requests.                                                           *)
LEMMA RequestSteps ==
    ASSUME TInv, NEW q \in Request,
           \/ \E u \in User : \/ Begin(q, "list", u, None)
                              \/ \E h \in Known(u) : Begin(q, "delete", u, h)
           \/ ListIndex(q) \/ ListMail(q) \/ Unlistable(q)
    PROVE  TInv'
<1>k. \A u : Known(u) \subseteq Hash
  BY DEF Known, Mail, TInv, TableTypes
<1>1. /\ UNCHANGED <<eids, mails, now, smtp_up, coord_up, acked, deleted, spoiled>>
      /\ UNCHANGED <<svars, dvars, wans>> /\ http_up' \in BOOLEAN /\ (http_up' => http_up)
  <2>1. /\ UNCHANGED <<eids, mails, now, smtp_up, coord_up, acked, deleted, spoiled>>
        /\ UNCHANGED <<svars, dvars, wans>>
    BY DEF Begin, ListIndex, ListMail, Unlistable, tvars, pvars, hvars
  <2>2. http_up
    BY DEF Begin, ListIndex, ListMail, Unlistable
  <2>3. http_up' \in BOOLEAN
    <3>1. CASE ListIndex(q) \/ ListMail(q)
      BY <3>1 DEF ListIndex, ListMail, pvars, TInv, TableTypes
    <3>2. CASE Unlistable(q)
      BY <3>2 DEF Unlistable
    <3>3. ASSUME NEW u, NEW k, NEW h, Begin(q, k, u, h) PROVE http_up' \in BOOLEAN
      BY <3>3 DEF Begin
    <3>4. QED
      BY <3>1, <3>2, <3>3
  <2>4. QED
    BY <2>1, <2>2, <2>3
<1>2. TableTypes' /\ SessionTypes' /\ SessionInv'
  BY <1>1, SessionFrame DEF TInv, TableTypes
<1>3. \A u : Known(u)' = Known(u)
  BY <1>1 DEF Known
<1>4. Absent \in Seq(Hash) \cup {Absent}
  OBVIOUS
<1> HIDE DEF Absent
<1>5. CASE \E u \in User : \/ Begin(q, "list", u, None)
                           \/ \E h \in Known(u) : Begin(q, "delete", u, h)
  <2>1. PICK u \in User, k \in {"list", "delete"}, h \in Hash \cup {None} :
          Begin(q, k, u, h) /\ (k = "delete" => h \in Known(u))
    BY <1>5, <1>k
  <2>2. /\ rpc[q] = "none" /\ kind' = [kind EXCEPT ![q] = k]
        /\ ruser' = [ruser EXCEPT ![q] = u] /\ rhash' = [rhash EXCEPT ![q] = h]
        /\ rpc' = [rpc EXCEPT ![q] = IF coord_up THEN "read" ELSE "hung"]
        /\ UNCHANGED <<rgot, ri, rans>>
    BY <2>1 DEF Begin
  <2>3. RequestTypes'
    BY <2>2 DEF TInv, RequestTypes
  <2>4. RequestInv'
    BY <1>1, <1>3, <2>1, <2>2 DEF TInv, RequestTypes, RequestInv, Asks
  <2>5. QED
    BY <1>2, <2>3, <2>4 DEF TInv
<1>6. CASE ListIndex(q)
  <2>1. rpc[q] = "read" /\ ruser[q] \in User
    BY <1>6 DEF ListIndex, TInv, RequestInv
  <2>2. Row(q) \in Cell
    BY <2>1, HomeType DEF Row
  <2>3. CASE eids[Row(q)] = Absent
    <3>1. Answer(q, "404") /\ UNCHANGED <<kind, ruser, rhash>>
      BY <1>6, <2>3 DEF ListIndex
    <3>2. RequestTypes'
      BY <1>4, <3>1 DEF Answer, TInv, RequestTypes, RequestInv
    <3>3. RequestInv'
      BY <1>1, <1>3, <2>1, <3>1 DEF Answer, TInv, RequestTypes, RequestInv, Asks
    <3>4. QED
      BY <1>2, <3>2, <3>3 DEF TInv
  <2>4. CASE eids[Row(q)] # Absent
    <3>1. eids[Row(q)] \in Seq(Hash) /\ eids[Row(q)] # << >>
      BY <2>2, <2>4 DEF TInv, TableTypes, RequestInv
    <3>2. Len(eids[Row(q)]) \in Nat /\ Len(eids[Row(q)]) \in DOMAIN eids[Row(q)]
      BY <3>1
    <3>3. /\ rgot' = [rgot EXCEPT ![q] = eids[Row(q)]] /\ rpc' = [rpc EXCEPT ![q] = "mails"]
          /\ ri' = [ri EXCEPT ![q] = Len(eids[Row(q)])]
          /\ UNCHANGED <<rans, kind, ruser, rhash>>
      BY <1>6, <2>4 DEF ListIndex
    <3>4. RequestTypes'
      BY <3>1, <3>2, <3>3 DEF TInv, RequestTypes, RequestInv
    <3>5. RequestInv'
      BY <1>1, <1>3, <2>1, <3>2, <3>3 DEF TInv, RequestTypes, RequestInv, Asks
    <3>6. QED
      BY <1>2, <3>4, <3>5 DEF TInv
  <2>5. QED
    BY <2>3, <2>4
<1>7. CASE ListMail(q)
  <2>1. rpc[q] = "mails" /\ UNCHANGED <<kind, ruser, rhash>>
    BY <1>7 DEF ListMail
  <2>2. CASE \E a \in {"200", "500"} : Answer(q, a)
    BY <1>1, <1>2, <1>3, <1>4, <2>1, <2>2 DEF Answer, TInv, RequestTypes, RequestInv, Asks
  <2>3. CASE ri[q] # 1 /\ ri' = [ri EXCEPT ![q] = @ - 1] /\ UNCHANGED <<rpc, rans, rgot>>
    <3>1. ri[q] \in DOMAIN rgot[q] /\ rgot[q] \in Seq(Hash) \cup {Absent} /\ ri[q] \in Nat
      BY <2>1 DEF TInv, RequestTypes, RequestInv
    <3>2. DOMAIN rgot[q] = 1..Len(rgot[q]) /\ Len(rgot[q]) \in Nat
      <4>1. CASE rgot[q] = Absent
        BY <4>1 DEF Absent
      <4>2. CASE rgot[q] # Absent
        BY <3>1, <4>2
      <4>3. QED
        BY <4>1, <4>2
    <3>3. ri[q] - 1 \in DOMAIN rgot[q] /\ ri[q] - 1 \in Nat
      BY <2>3, <3>1, <3>2
    <3>4. RequestTypes'
      BY <2>1, <2>3, <3>3 DEF TInv, RequestTypes, RequestInv
    <3>5. RequestInv'
      BY <1>1, <1>3, <2>1, <2>3, <3>3 DEF TInv, RequestTypes, RequestInv, Asks
    <3>6. QED
      BY <1>2, <3>4, <3>5 DEF TInv
  <2>4. QED
    BY <1>7, <2>2, <2>3 DEF ListMail
<1>8. CASE Unlistable(q)
  <2>1. rpc[q] = "read" /\ kind[q] = "delete" /\ ruser[q] \in User
    BY <1>8 DEF Unlistable, TInv, RequestInv
  <2>2. Row(q) \in Cell /\ eids[Row(q)] \in Seq(Hash) \cup {Absent}
    BY <2>1, HomeType DEF Row, TInv, TableTypes
  <2>3. /\ rgot' = [rgot EXCEPT ![q] = eids[Row(q)]] /\ rpc' = [rpc EXCEPT ![q] = "unlist"]
        /\ http_up' = (rhash[q] \in ToSet(Listed(Row(q))))
        /\ UNCHANGED <<kind, ruser, rhash, ri, rans>>
    BY <1>8 DEF Unlistable
  <2>4. RequestTypes'
    BY <2>2, <2>3 DEF TInv, RequestTypes, RequestInv
  <2>5. http_up' => eids[Row(q)] # Absent /\ rhash[q] \in ToSet(eids[Row(q)])
    BY <2>3, ToSetNone DEF Listed
  <2>6. RequestInv'
    BY <1>1, <1>3, <2>1, <2>3, <2>5 DEF TInv, RequestTypes, RequestInv, Asks
  <2>7. QED
    BY <1>2, <2>4, <2>6 DEF TInv
<1>9. QED
  BY <1>5, <1>6, <1>7, <1>8

LEMMA DeleteSteps ==
    ASSUME TInv, NEW q \in Request, Unlist(q) \/ DeleteMail(q)
    PROVE  TInv'
<1>1. /\ rpc[q] \in {"unlist", "delete"} /\ http_up
      /\ UNCHANGED <<now, smtp_up, http_up, coord_up, acked>> /\ UNCHANGED <<svars, dvars, wans>>
      /\ UNCHANGED <<kind, ruser, rhash>>
  BY DEF Unlist, DeleteMail, pvars
<1>2. ruser[q] \in User /\ Row(q) \in Cell /\ rhash[q] \in Known(ruser[q]) /\ rhash[q] \in Hash
  <2>1. \A u : Known(u) \subseteq Hash
    BY DEF Known, Mail, TInv, TableTypes
  <2>2. ruser[q] \in User /\ rhash[q] \in Known(ruser[q])
    BY <1>1 DEF TInv, RequestInv, Asks
  <2>3. QED
    BY <2>1, <2>2, HomeType DEF Row
<1>3. SessionTypes' /\ SessionInv'
  BY <1>1, SessionFrame
<1>4. \A u : Known(u)' = Known(u)
  BY <1>1 DEF Known
<1>5. Absent \in Seq(Hash) \cup {Absent} /\ Absent # << >>
  BY DEF Absent
<1> HIDE DEF Absent
<1>6. CASE Unlist(q)
  <2>1. /\ rpc[q] = "unlist" /\ rpc' = [rpc EXCEPT ![q] = "delete"]
        /\ UNCHANGED <<mails, rgot, ri, rans>>
        /\ deleted' = deleted \cup {<<ruser[q], rhash[q]>>}
        /\ eids' \in {eids, [eids EXCEPT ![Row(q)] = Erased(rgot[q], rhash[q])]}
        /\ spoiled' \in {spoiled, Spoil(ruser[q], {"raced"}), Spoil(ruser[q], {"refused"})}
    BY <1>6 DEF Unlist
  <2>2. rgot[q] \in Seq(Hash) /\ rhash[q] \in ToSet(rgot[q])
    BY <1>1, <2>1 DEF TInv, RequestTypes, RequestInv
  <2>3. /\ Erased(rgot[q], rhash[q]) \in Seq(Hash) \cup {Absent}
        /\ Erased(rgot[q], rhash[q]) # << >>
    <3>1. CASE Len(rgot[q]) = 1
      BY <1>5, <3>1 DEF Erased
    <3>2. CASE Len(rgot[q]) # 1
      BY <2>2, <3>2, ErasedRest
    <3>3. QED
      BY <3>1, <3>2
  <2>4. eids' \in [Cell -> Seq(Hash) \cup {Absent}] /\ \A c \in Cell : eids'[c] # << >>
    BY <1>2, <2>1, <2>3 DEF TInv, TableTypes, RequestInv
  <2>5. spoiled' \in [User -> SUBSET Window]
    BY <1>2, <2>1 DEF Spoil, Window, TInv, TableTypes
  <2>6. TableTypes'
    BY <1>1, <1>2, <2>1, <2>4, <2>5 DEF TInv, TableTypes
  <2>7. RequestTypes'
    BY <1>1, <2>1 DEF TInv, RequestTypes
  <2>8. RequestInv'
    BY <1>1, <1>2, <1>4, <2>1, <2>4 DEF TInv, RequestTypes, RequestInv, Asks
  <2>9. QED
    BY <1>3, <2>6, <2>7, <2>8 DEF TInv
<1>7. CASE DeleteMail(q)
  <2>1. /\ \E a \in {"200", "404", "500"} : Answer(q, a)
        /\ UNCHANGED <<eids, deleted>>
        /\ mails' \in {mails, [mails EXCEPT ![Row(q)] = {m \in @ : m.hash # rhash[q]}]}
        /\ spoiled' \in {spoiled, Spoil(ruser[q], {"refused"})}
    BY <1>7 DEF DeleteMail
  <2>2. mails' \in [Cell -> SUBSET Mail]
    BY <1>2, <2>1 DEF TInv, TableTypes
  <2>3. spoiled' \in [User -> SUBSET Window]
    BY <1>2, <2>1 DEF Spoil, Window, TInv, TableTypes
  <2>4. TableTypes'
    BY <1>1, <2>1, <2>2, <2>3 DEF TInv, TableTypes
  <2>5. RequestTypes'
    BY <1>1, <1>5, <2>1 DEF Answer, TInv, RequestTypes, RequestInv
  <2>6. RequestInv'
    BY <1>1, <1>2, <1>4, <2>1 DEF Answer, TInv, RequestTypes, RequestInv, Asks
  <2>7. QED
    BY <1>3, <2>4, <2>5, <2>6 DEF TInv
<1>8. QED
  BY <1>6, <1>7

(* Every step keeps the types.                                             *)
LEMMA TypeStep ==
    ASSUME TInv, [Next]_vars
    PROVE  TInv'
<1>1. CASE UNCHANGED vars \/ Tick
  <2>1. UNCHANGED <<tvars, pvars, svars, dvars, wans, rvars, hvars>> /\ now' \in 0..MaxTime
    BY <1>1, MailboxAssumption DEF vars, Tick, TInv, TableTypes
  <2>2. TableTypes'
    BY <2>1 DEF TInv, TableTypes, tvars, pvars, hvars
  <2>3. RequestTypes' /\ RequestInv'
    BY <2>1, RequestFrame DEF tvars, pvars, hvars
  <2>4. QED
    BY <2>1, <2>2, <2>3, SessionFrame DEF TInv
<1>2. ASSUME NEW s \in Session,
             \/ \E u \in User : Helo(s, u) \/ Rcpt(s, u)
             \/ \E f \in Sender : MailFrom(s, f)
             \/ \E t \in Title : SetTitle(s, t)
             \/ Data(s) \/ MissDot(s) \/ WebUnanswered(s)
      PROVE  TInv'
  <2>1. UNCHANGED <<tvars, now, pvars, rvars, hvars>>
    BY <1>2 DEF Helo, Rcpt, MailFrom, SetTitle, Data, MissDot, WebUnanswered
  <2>2. TableTypes'
    BY <2>1 DEF TInv, TableTypes, tvars, pvars, hvars
  <2>3. RequestTypes' /\ RequestInv'
    BY <2>1, RequestFrame DEF tvars, pvars, hvars
  <2>4. QED
    BY <1>2, <2>2, <2>3, CommandTypes DEF TInv
<1>3. ASSUME NEW s \in Session,
             Rset(s) \/ Leave(s) \/ EndDelivery(s) \/ \E t \in Title : Dot(s, t)
      PROVE  TInv'
  <2>1. UNCHANGED <<tvars, now, http_up, rvars, hvars>>
    BY <1>3 DEF Rset, Leave, EndDelivery, Dot, pvars
  <2>2. /\ SessionTypes' /\ SessionInv' /\ smtp_up' \in BOOLEAN /\ coord_up' \in BOOLEAN
    BY <1>3, EndTypes, DotTypes DEF TInv, TableTypes
  <2>3. TableTypes'
    BY <2>1, <2>2, TableFrame
  <2>4. RequestTypes' /\ RequestInv'
    BY <2>1, RequestFrame DEF tvars, hvars
  <2>5. QED
    BY <2>2, <2>3, <2>4 DEF TInv
<1>4. QED
  BY <1>1, <1>2, <1>3, DeliveryTypes, RequestSteps, DeleteSteps DEF Next, Deliver

LEMMA TypesInvariant == Spec => []TInv
<1>1. Init => TInv
  <2> SUFFICES ASSUME Init PROVE TInv
    OBVIOUS
  <2>1. TableTypes
    BY MailboxAssumption DEF Init, TableTypes
  <2>2. SessionTypes /\ SessionInv
    BY DEF Init, SessionTypes, SessionInv
  <2>3. RequestTypes /\ RequestInv
    BY DEF Init, RequestTypes, RequestInv, Asks, Absent
  <2>4. QED
    BY <2>1, <2>2, <2>3 DEF TInv
<1>2. TInv /\ [Next]_vars => TInv'
  BY TypeStep
<1>3. QED
  BY <1>1, <1>2, PTL DEF Spec

(* The types of the SMTP server's sessions and of the mail requests; in    *)
(* particular the loop over the recipients and the loop over the listed    *)
(* mails stay inside their lists.                                          *)
THEOREM MailboxTypes == Spec => []TypeOK
  BY TypesInvariant, TypeParts, PTL

-----------------------------------------------------------------------------
(* The mailboxes.  A step keeps what BoxInv says of one that it neither    *)
(* writes to nor delivers to nor deletes from.                             *)
LEMMA BoxFrame ==
    ASSUME NEW u \in User, BoxInv(u),
           eids'[Home(u)] = eids[Home(u)], mails'[Home(u)] = mails[Home(u)],
           \A h : <<u, h>> \in deleted' <=> <<u, h>> \in deleted,
           \A a : a[2] = u => (a \in acked' <=> a \in acked),
           \A s \in Session : Brings(s, u)' <=> Brings(s, u),
           \A s \in Session : Brings(s, u) => Target(s)' = Target(s) /\ hash'[s] = hash[s],
           \A h : HalfDeleted(u, h) => HalfDeleted(u, h)'
    PROVE  BoxInv(u)'
<1>1. Listed(Home(u))' = Listed(Home(u)) /\ Listing(u)' = Listing(u) /\ Stored(u)' = Stored(u)
      /\ Home(u)' = Home(u)
  BY DEF Listed, Listing, Stored, Home, Absent
<1>2. Known(u)' = Known(u)
  BY DEF Known
<1>3. \A h : HalfDelivered(u, h) => HalfDelivered(u, h)'
  BY DEF HalfDelivered, Brings
<1>4. \A m : Kept(m, u)' <=> Kept(m, u)
  BY <1>1 DEF Kept, Listing
<1>5. /\ IsInjective(Listed(Home(u)))'
      /\ \A h \in Listing(u)' : <<u, h>> \notin deleted'
  BY <1>1 DEF BoxInv
<1>6. \A s \in Session : Brings(s, u)' =>
          /\ Target(s)' = Home(u)' /\ hash'[s] \in Listing(u)' /\ hash'[s] \notin Known(u)'
          /\ \A z \in Session : Brings(z, u)' /\ hash'[z] = hash'[s] => z = s
  BY <1>1, <1>2 DEF BoxInv
<1>7. /\ \A h \in Listing(u)' \ Stored(u)' : HalfDelivered(u, h)' \/ HalfDeleted(u, h)'
      /\ \A h \in Stored(u)' \ Listing(u)' : HalfDelivered(u, h)' \/ HalfDeleted(u, h)'
  BY <1>1, <1>3 DEF BoxInv
<1>8. \A a \in acked' : a[2] = u /\ <<u, a[1].hash>> \notin deleted' => Kept(a[1], u)'
  BY <1>4 DEF BoxInv
<1>9. QED
  BY <1>5, <1>6, <1>7, <1>8 DEF BoxInv

(* Steps that change no mailbox.  What a session is bringing stays, for it *)
(* reads no command meanwhile.                                             *)
LEMMA QuietStep ==
    ASSUME TInv, MailInv, UNCHANGED <<eids, mails, acked, deleted, spoiled>>,
           \A s \in Session : dpc'[s] = "mail" <=> dpc[s] = "mail",
           \A s \in Session : dpc[s] = "mail" =>
               /\ rcpts'[s] = rcpts[s] /\ at'[s] = at[s]
               /\ name'[s] = name[s] /\ hash'[s] = hash[s],
           \A q \in Request : rpc[q] = "delete" =>
               rpc'[q] = "delete" /\ ruser'[q] = ruser[q] /\ rhash'[q] = rhash[q]
    PROVE  MailInv'
<1> SUFFICES ASSUME NEW u \in User, spoiled[u] = {} PROVE BoxInv(u)'
  BY DEF MailInv
<1>1. BoxInv(u)
  BY DEF MailInv
<1>2. \A s \in Session : dpc[s] = "mail" => Recipient(s)' = Recipient(s) /\ Target(s)' = Target(s)
  BY DEF Recipient, Target
<1>3. \A s \in Session : Brings(s, u)' <=> Brings(s, u)
  BY <1>2 DEF Brings
<1>4. \A s \in Session : Brings(s, u) => Target(s)' = Target(s) /\ hash'[s] = hash[s]
  BY <1>2 DEF Brings
<1>5. \A h : HalfDeleted(u, h) => HalfDeleted(u, h)'
  BY DEF HalfDeleted
<1>6. QED
  BY <1>1, <1>3, <1>4, <1>5, BoxFrame

LEMMA SessionQuiet ==
    ASSUME TInv, MailInv, NEW s \in Session,
           \/ \E u \in User : Helo(s, u) \/ Rcpt(s, u)
           \/ \E f \in Sender : MailFrom(s, f)
           \/ \E t \in Title : SetTitle(s, t) \/ Dot(s, t)
           \/ Data(s) \/ MissDot(s) \/ Rset(s) \/ Leave(s) \/ WebUnanswered(s)
           \/ ReadIndex(s) \/ EndDelivery(s)
    PROVE  MailInv'
<1>1. UNCHANGED <<eids, mails, acked, deleted, spoiled>> /\ UNCHANGED rvars
  BY DEF Helo, Rcpt, MailFrom, SetTitle, Dot, Data, MissDot, Rset, Leave, WebUnanswered, ReadIndex,
         EndDelivery, tvars, hvars
<1>2. \A q \in Request : rpc[q] = "delete" =>
        rpc'[q] = "delete" /\ ruser'[q] = ruser[q] /\ rhash'[q] = rhash[q]
  BY <1>1 DEF rvars
<1>3. /\ \A z \in Session \ {s} : /\ dpc'[z] = dpc[z] /\ rcpts'[z] = rcpts[z] /\ at'[z] = at[z]
                                  /\ name'[z] = name[z] /\ hash'[z] = hash[z]
      /\ (dpc[s] # "mail" /\ dpc'[s] # "mail") \/ UNCHANGED <<dpc, rcpts, at, name, hash>>
  <2> USE DEF TInv, SessionTypes, SessionInv
  <2>1. CASE \E u \in User : Helo(s, u) \/ Rcpt(s, u)
    BY <2>1 DEF Helo, Rcpt, Reads, dvars
  <2>2. CASE \/ \E f \in Sender : MailFrom(s, f)
             \/ \E t \in Title : SetTitle(s, t)
             \/ Data(s) \/ MissDot(s) \/ WebUnanswered(s)
    BY <2>2 DEF MailFrom, SetTitle, Data, MissDot, WebUnanswered, svars, dvars
  <2>3. CASE \E t \in Title : Dot(s, t)
    BY <2>3 DEF Dot
  <2>4. CASE Rset(s) \/ Leave(s)
    BY <2>4 DEF Rset, Cleared, Leave, Reads, dvars
  <2>5. CASE EndDelivery(s)
    BY <2>5 DEF EndDelivery, Cleared
  <2>6. CASE ReadIndex(s)
    BY <2>6 DEF ReadIndex, svars
  <2>7. QED
    BY <2>1, <2>2, <2>3, <2>4, <2>5, <2>6
<1>4. QED
  BY <1>1, <1>2, <1>3, QuietStep

LEMMA RequestQuiet ==
    ASSUME TInv, MailInv, NEW q \in Request,
           \/ \E u \in User : \/ Begin(q, "list", u, None)
                              \/ \E h \in Known(u) : Begin(q, "delete", u, h)
           \/ ListIndex(q) \/ ListMail(q) \/ Unlistable(q)
    PROVE  MailInv'
<1>1. UNCHANGED <<eids, mails, acked, deleted, spoiled>> /\ UNCHANGED <<svars, dvars>>
  BY DEF Begin, ListIndex, ListMail, Unlistable, tvars, hvars
<1>2. \A p \in Request : rpc[p] = "delete" =>
        rpc'[p] = "delete" /\ ruser'[p] = ruser[p] /\ rhash'[p] = rhash[p]
  <2> USE DEF TInv, RequestTypes
  <2>1. ASSUME NEW u, NEW k, NEW h, Begin(q, k, u, h)
        PROVE  \A p \in Request : rpc[p] = "delete" =>
                 rpc'[p] = "delete" /\ ruser'[p] = ruser[p] /\ rhash'[p] = rhash[p]
    BY <2>1 DEF Begin
  <2>2. CASE ListIndex(q) \/ ListMail(q) \/ Unlistable(q)
    BY <2>2 DEF ListIndex, ListMail, Unlistable, Answer
  <2>3. QED
    BY <2>1, <2>2
<1>3. QED
  BY <1>1, <1>2, QuietStep DEF svars, dvars

-----------------------------------------------------------------------------
(* PUT of eid_vector.  Outside the windows the list is the one that was    *)
(* read and the hash is new to the mailbox, so nobody knows it.            *)
LEMMA WriteIndexStep ==
    ASSUME TInv, MailInv, NEW s \in Session, WriteIndex(s)
    PROVE  MailInv'
<1>0. dpc[s] = "index"
  BY DEF WriteIndex
<1>d. PICK u \in User, c \in Cell, h \in Hash :
        u = Recipient(s) /\ c = Target(s) /\ h = hash[s] /\ c[2] = u
  BY <1>0, TargetType
<1>1. got[s] \in Seq(Hash) \cup {Absent} /\ dpc[s] = "index"
  BY <1>0, TargetType
<1>2. /\ dpc' = [dpc EXCEPT ![s] = "mail"]
      /\ UNCHANGED <<mails, acked, deleted, rcpts, at, name, hash, rpc, ruser, rhash>>
  BY DEF WriteIndex, svars, rvars
<1>3. \/ /\ eids' = [eids EXCEPT ![c] = Appended(got[s], h)]
         /\ spoiled' = Spoil(u,
                 (IF eids[c] # got[s] THEN {"raced"} ELSE {})
                 \cup (IF Met(u, c, h) THEN {"collided"} ELSE {})
                 \cup (IF c # Home(u) THEN {"misplaced"} ELSE {}))
      \/ eids' = eids /\ spoiled' = Spoil(u, {"refused"})
  BY <1>d DEF WriteIndex
<1>4. \A z \in Session : Recipient(z)' = Recipient(z) /\ Target(z)' = Target(z)
  BY <1>2 DEF Recipient, Target
<1>5. /\ dpc'[s] = "mail" /\ \A z \in Session \ {s} : dpc'[z] = dpc[z]
      /\ eids \in [Cell -> Seq(Hash) \cup {Absent}] /\ spoiled \in [User -> SUBSET Window]
      /\ acked \subseteq Mail \X User
  BY <1>2 DEF TInv, SessionTypes, TableTypes
<1>6. \A v, k : HalfDeleted(v, k) => HalfDeleted(v, k)'
  BY <1>2 DEF HalfDeleted
<1> SUFFICES ASSUME NEW v \in User, spoiled'[v] = {} PROVE BoxInv(v)'
  BY DEF MailInv
<1>7. CASE v # u
  <2>1. spoiled[v] = {} /\ BoxInv(v)
    BY <1>1, <1>3, <1>5, <1>7 DEF MailInv, Spoil
  <2>2. Home(v) \in Cell /\ Home(v) # c
    BY <1>d, <1>7, HomeType
  <2>3. eids'[Home(v)] = eids[Home(v)]
    BY <1>3, <1>5, <2>2
  <2>4. \A z \in Session : Brings(z, v)' <=> Brings(z, v)
    BY <1>1, <1>d, <1>4, <1>5, <1>7 DEF Brings
  <2>5. QED
    BY <1>2, <1>4, <1>6, <2>1, <2>3, <2>4, BoxFrame
<1>8. CASE v = u
  <2>1. /\ eids' = [eids EXCEPT ![c] = Appended(got[s], h)]
        /\ eids[c] = got[s] /\ ~Met(u, c, h) /\ c = Home(u) /\ spoiled[u] = {}
    <3>1. \A w : spoiled' = Spoil(u, w) => spoiled[u] = {} /\ w = {}
      BY <1>5, <1>8 DEF Spoil
    <3>2. {"refused"} # {} /\ {"raced"} # {} /\ {"collided"} # {} /\ {"misplaced"} # {}
      OBVIOUS
    <3> HIDE DEF Spoil
    <3>3. QED
      BY <1>3, <3>1, <3>2
  <2>2. BoxInv(u)
    BY <1>1, <2>1 DEF MailInv
  <2>3. Home(u)' = Home(u) /\ Home(u) \in Cell
    BY <2>1 DEF Home
  <2>4. /\ h \notin Listing(u) /\ <<u, h>> \notin deleted /\ h \notin Stored(u)
    BY <2>1 DEF Met, Listing, Stored
  <2>5. h \notin Known(u)
    <3> SUFFICES ASSUME NEW a \in acked, a[2] = u, a[1].hash = h PROVE FALSE
      BY DEF Known
    <3>1. Kept(a[1], u)
      BY <2>2, <2>4 DEF BoxInv
    <3>2. QED
      BY <2>4, <3>1 DEF Kept, Listing
  <2>6. /\ Listed(Home(u))' = Appended(got[s], h)
        /\ IsInjective(Appended(got[s], h))
        /\ ToSet(Appended(got[s], h)) = Listing(u) \cup {h}
    <3>1. eids'[Home(u)] = Appended(got[s], h) /\ Appended(got[s], h) # Absent
      BY <1>1, <1>5, <2>1, AppendedType
    <3>2. Listed(Home(u))' = Appended(got[s], h)
      BY <2>3, <3>1 DEF Listed, Absent
    <3>3. CASE got[s] = Absent
      <4>1. Listing(u) = {} /\ Appended(got[s], h) = <<h>>
        BY <2>1, <3>3, ToSetNone DEF Listing, Listed, Appended
      <4>2. QED
        BY <3>2, <4>1, ToSetOne
    <3>4. CASE got[s] # Absent
      <4>1. /\ Listed(Home(u)) = got[s] /\ got[s] \in Seq(Hash)
            /\ Appended(got[s], h) = Append(got[s], h)
        BY <1>1, <2>1, <3>4 DEF Listed, Appended
      <4>2. IsInjective(got[s]) /\ h \notin ToSet(got[s]) /\ ToSet(got[s]) = Listing(u)
        BY <2>2, <2>4, <4>1 DEF BoxInv, Listing
      <4>3. QED
        BY <1>1, <3>2, <4>1, <4>2, ToSetAppended
    <3>5. QED
      BY <3>3, <3>4
  <2>7. Listing(u)' = Listing(u) \cup {h} /\ Stored(u)' = Stored(u) /\ Known(u)' = Known(u)
    BY <1>2, <2>3, <2>6 DEF Listing, Stored, Known
  <2>8. \A z \in Session : /\ Brings(z, u)' <=> (z = s \/ Brings(z, u))
                           /\ hash'[z] = hash[z]
    BY <1>d, <1>2, <1>4, <1>5 DEF Brings
  <2>9. \A k : HalfDelivered(u, k) => HalfDelivered(u, k)'
    BY <2>8 DEF HalfDelivered, Brings
  <2>10. HalfDelivered(u, h)'
    BY <1>d, <2>8 DEF HalfDelivered, Brings
  <2>11. \A z \in Session : Brings(z, u)' =>
            /\ Target(z)' = Home(u)' /\ hash'[z] \in Listing(u)' /\ hash'[z] \notin Known(u)'
            /\ \A y \in Session : Brings(y, u)' /\ hash'[y] = hash'[z] => y = z
    <3>1. \A z \in Session : Brings(z, u) =>
            /\ Target(z) = Home(u) /\ hash[z] \in Listing(u) /\ hash[z] \notin Known(u)
            /\ \A y \in Session : Brings(y, u) /\ hash[y] = hash[z] => y = z
      BY <2>2 DEF BoxInv
    <3>2. Target(s) = Home(u) /\ hash[s] = h
      BY <1>d, <2>1
    <3>3. \A z \in Session : Brings(z, u) => hash[z] # h
      BY <2>4, <3>1
    <3>4. QED
      BY <1>4, <2>3, <2>5, <2>7, <2>8, <3>1, <3>2, <3>3
  <2>12. /\ \A k \in Listing(u)' \ Stored(u)' : HalfDelivered(u, k)' \/ HalfDeleted(u, k)'
         /\ \A k \in Stored(u)' \ Listing(u)' : HalfDelivered(u, k)' \/ HalfDeleted(u, k)'
    BY <1>6, <2>2, <2>7, <2>9, <2>10 DEF BoxInv
  <2>13. \A a \in acked' : a[2] = u /\ <<u, a[1].hash>> \notin deleted' => Kept(a[1], u)'
    <3> SUFFICES ASSUME NEW a \in acked, a[2] = u, <<u, a[1].hash>> \notin deleted
                 PROVE  Kept(a[1], u)'
      BY <1>2
    <3>1. a[1].hash \in Listing(u) /\ a[1] \in mails[Home(u)]
      BY <2>2 DEF BoxInv, Kept, Listing
    <3>2. QED
      BY <1>2, <2>3, <2>7, <3>1 DEF Kept, Listing
  <2>14. /\ IsInjective(Listed(Home(u)))'
         /\ \A k \in Listing(u)' : <<u, k>> \notin deleted'
    BY <1>2, <2>2, <2>4, <2>6, <2>7 DEF BoxInv
  <2> HIDE DEF Home
  <2>15. BoxInv(u)'
    BY <2>11, <2>12, <2>13, <2>14 DEF BoxInv
  <2>16. QED
    BY <1>8, <2>15
<1>9. QED
  BY <1>7, <1>8

(* PUT of the mail, and the answer +OK.  It replaces no other mail that    *)
(* was answered: the hash was known to nobody.                             *)
LEMMA WriteMailStep ==
    ASSUME TInv, MailInv, NEW s \in Session, WriteMail(s)
    PROVE  MailInv'
<1>0. dpc[s] = "mail"
  BY DEF WriteMail
<1>d. PICK u \in User, c \in Cell, h \in Hash, m \in Mail :
        /\ u = Recipient(s) /\ c = Target(s) /\ h = hash[s] /\ c[2] = u
        /\ m = Sent(s) /\ m.hash = h
  <2>1. Sent(s) \in Mail /\ Sent(s).hash = hash[s]
    BY <1>0, TargetType DEF Sent, Mail
  <2>2. QED
    BY <1>0, <2>1, TargetType
<1>1. PICK ok \in BOOLEAN :
        /\ mails' = IF ok THEN [mails EXCEPT ![c] = {x \in mails[c] : x.hash # h} \cup {m}]
                          ELSE mails
        /\ acked' = IF ok THEN acked \cup {<<m, u>>} ELSE acked
        /\ spoiled' = IF ok THEN spoiled ELSE Spoil(u, {"refused"})
  BY <1>d DEF WriteMail, With, Acked
<1>2. /\ \A z \in Session \ {s} : dpc'[z] = dpc[z] /\ at'[z] = at[z]
      /\ dpc'[s] # "mail"
      /\ UNCHANGED <<eids, deleted, rcpts, name, hash, rpc, ruser, rhash>>
  BY DEF WriteMail, Advanced, svars, rvars, TInv, SessionTypes, SessionInv
<1>3. \A z \in Session \ {s} : Recipient(z)' = Recipient(z) /\ Target(z)' = Target(z)
  BY <1>2 DEF Recipient, Target
<1>4. /\ mails \in [Cell -> SUBSET Mail] /\ spoiled \in [User -> SUBSET Window]
  BY DEF TInv, TableTypes
<1>5. \A v, k : HalfDeleted(v, k) => HalfDeleted(v, k)'
  BY <1>2 DEF HalfDeleted
<1> SUFFICES ASSUME NEW v \in User, spoiled'[v] = {} PROVE BoxInv(v)'
  BY DEF MailInv
<1>6. CASE v # u
  <2>1. spoiled[v] = {} /\ BoxInv(v)
    BY <1>1, <1>4, <1>6 DEF MailInv, Spoil
  <2>2. Home(v) \in Cell /\ Home(v) # c
    BY <1>d, <1>6, HomeType
  <2>3. mails'[Home(v)] = mails[Home(v)]
    BY <1>1, <1>4, <2>2
  <2>4. \A z \in Session : Brings(z, v)' <=> Brings(z, v)
    BY <1>d, <1>2, <1>3, <1>6 DEF Brings
  <2>5. \A z \in Session : Brings(z, v) => Target(z)' = Target(z) /\ hash'[z] = hash[z]
    BY <1>d, <1>2, <1>3, <1>6 DEF Brings
  <2>6. \A a : a[2] = v => (a \in acked' <=> a \in acked)
    BY <1>1, <1>6
  <2>7. QED
    BY <1>2, <1>5, <2>1, <2>3, <2>4, <2>5, <2>6, BoxFrame
<1>7. CASE v = u
  <2>1. ok /\ spoiled[u] = {}
    BY <1>1, <1>4, <1>7 DEF Spoil
  <2>2. BoxInv(u)
    BY <2>1 DEF MailInv
  <2>3. Brings(s, u)
    BY <1>d, <1>0 DEF Brings
  <2>4. /\ c = Home(u) /\ h \in Listing(u) /\ h \notin Known(u)
        /\ \A z \in Session : Brings(z, u) /\ hash[z] = h => z = s
    BY <1>d, <2>2, <2>3 DEF BoxInv
  <2>5. Home(u)' = Home(u) /\ Listed(Home(u))' = Listed(Home(u)) /\ Listing(u)' = Listing(u)
    BY <1>2 DEF Home, Listed, Listing, Absent
  <2>6. mails'[Home(u)] = {x \in mails[Home(u)] : x.hash # h} \cup {m}
    BY <1>1, <1>4, <2>1, <2>4
  <2>7. Stored(u)' = Stored(u) \cup {h}
    BY <1>d, <2>5, <2>6 DEF Stored
  <2>8. Known(u)' = Known(u) \cup {h}
    <3>1. acked' = acked \cup {<<m, u>>} /\ <<m, u>>[1].hash = h /\ <<m, u>>[2] = u
      BY <1>d, <1>1, <2>1
    <3>2. {x \in acked' : x[2] = u} = {x \in acked : x[2] = u} \cup {<<m, u>>}
      BY <3>1
    <3>3. \A k : k \in Known(u)' <=> \E x \in {y \in acked : y[2] = u} \cup {<<m, u>>} : k = x[1].hash
      BY <3>2 DEF Known
    <3>4. \A k : k \in Known(u) <=> \E x \in {y \in acked : y[2] = u} : k = x[1].hash
      BY DEF Known
    <3>5. QED
      BY <3>1, <3>3, <3>4
  <2>9. \A z \in Session : Brings(z, u)' <=> (z # s /\ Brings(z, u))
    BY <1>2, <1>3 DEF Brings
  <2>10. \A k : k # h /\ HalfDelivered(u, k) => HalfDelivered(u, k)'
    BY <1>d, <1>2, <1>3 DEF HalfDelivered
  <2>11. \A z \in Session : Brings(z, u)' =>
            /\ Target(z)' = Home(u)' /\ hash'[z] \in Listing(u)' /\ hash'[z] \notin Known(u)'
            /\ \A y \in Session : Brings(y, u)' /\ hash'[y] = hash'[z] => y = z
    <3>1. \A z \in Session : Brings(z, u) =>
            /\ Target(z) = Home(u) /\ hash[z] \in Listing(u) /\ hash[z] \notin Known(u)
            /\ \A y \in Session : Brings(y, u) /\ hash[y] = hash[z] => y = z
      BY <2>2 DEF BoxInv
    <3>2. QED
      BY <1>2, <1>3, <2>4, <2>5, <2>8, <2>9, <3>1
  <2>12. /\ \A k \in Listing(u)' \ Stored(u)' : HalfDelivered(u, k)' \/ HalfDeleted(u, k)'
         /\ \A k \in Stored(u)' \ Listing(u)' : HalfDelivered(u, k)' \/ HalfDeleted(u, k)'
    BY <1>5, <2>2, <2>4, <2>5, <2>7, <2>10 DEF BoxInv
  <2>13. \A a \in acked' : a[2] = u /\ <<u, a[1].hash>> \notin deleted' => Kept(a[1], u)'
    <3> SUFFICES ASSUME NEW a \in acked', a[2] = u, <<u, a[1].hash>> \notin deleted
                 PROVE  a[1].hash \in Listing(u) /\ a[1] \in mails'[Home(u)]
      BY <1>2, <2>5 DEF Kept, Listing
    <3>1. CASE a = <<m, u>>
      BY <1>d, <2>4, <2>6, <3>1
    <3>2. CASE a \in acked
      <4>1. a[1].hash \in Listing(u) /\ a[1] \in mails[Home(u)]
        BY <2>2, <3>2 DEF BoxInv, Kept, Listing
      <4>2. a[1].hash \in Known(u)
        BY <3>2 DEF Known
      <4>3. QED
        BY <2>4, <2>6, <4>1, <4>2
    <3>3. QED
      BY <1>1, <3>1, <3>2
  <2>14. /\ IsInjective(Listed(Home(u)))'
         /\ \A k \in Listing(u)' : <<u, k>> \notin deleted'
    BY <1>2, <2>2, <2>5 DEF BoxInv
  <2>15. BoxInv(u)'
    BY <2>11, <2>12, <2>13, <2>14 DEF BoxInv
  <2>16. QED
    BY <1>7, <2>15
<1>8. QED
  BY <1>6, <1>7

(* /delete-email writes the list back: exactly the hash is gone.           *)
LEMMA UnlistStep ==
    ASSUME TInv, MailInv, NEW q \in Request, Unlist(q)
    PROVE  MailInv'
<1>0. rpc[q] = "unlist" /\ http_up
  BY DEF Unlist
<1>d. PICK u \in User, h \in Hash :
        u = ruser[q] /\ h = rhash[q] /\ h \in Known(u) /\ Row(q) = Home(u)
  <2>1. \A x : Known(x) \subseteq Hash
    BY DEF Known, Mail, TInv, TableTypes
  <2>2. QED
    BY <1>0, <2>1 DEF TInv, RequestInv, Asks, Row
<1>1. /\ rgot[q] \in Seq(Hash) /\ rgot[q] # Absent /\ h \in ToSet(rgot[q])
      /\ eids \in [Cell -> Seq(Hash) \cup {Absent}] /\ spoiled \in [User -> SUBSET Window]
      /\ \A p \in Request \ {q} : rpc'[p] = rpc[p]
      /\ rpc'[q] = "delete"
  BY <1>0, <1>d DEF Unlist, TInv, TableTypes, RequestTypes, RequestInv
<1>2. /\ deleted' = deleted \cup {<<u, h>>}
      /\ UNCHANGED <<mails, acked, dpc, rcpts, at, name, hash, ruser, rhash>>
  BY <1>d DEF Unlist, svars, dvars
<1>3. \/ /\ eids' = [eids EXCEPT ![Home(u)] = Erased(rgot[q], h)]
         /\ spoiled' = IF eids[Home(u)] = rgot[q] THEN spoiled ELSE Spoil(u, {"raced"})
      \/ eids' = eids /\ spoiled' = Spoil(u, {"refused"})
  BY <1>d DEF Unlist
<1>4. \A z \in Session : Recipient(z)' = Recipient(z) /\ Target(z)' = Target(z)
  BY <1>2 DEF Recipient, Target
<1>5. \A v, k : HalfDeleted(v, k) => HalfDeleted(v, k)'
  BY <1>0, <1>1, <1>2 DEF HalfDeleted
<1>6. \A v : \A z \in Session : Brings(z, v)' <=> Brings(z, v)
  BY <1>2, <1>4 DEF Brings
<1> SUFFICES ASSUME NEW v \in User, spoiled'[v] = {} PROVE BoxInv(v)'
  BY DEF MailInv
<1>7. CASE v # u
  <2>1. spoiled[v] = {} /\ BoxInv(v)
    BY <1>1, <1>3, <1>7 DEF MailInv, Spoil
  <2>2. Home(v) \in Cell /\ Home(u) \in Cell /\ Home(v) # Home(u)
    BY <1>7, HomeType
  <2>3. eids'[Home(v)] = eids[Home(v)]
    BY <1>1, <1>3, <2>2
  <2>4. \A k : <<v, k>> \in deleted' <=> <<v, k>> \in deleted
    BY <1>2, <1>7
  <2>5. QED
    BY <1>2, <1>4, <1>5, <1>6, <2>1, <2>3, <2>4, BoxFrame
<1>8. CASE v = u
  <2>1. /\ eids' = [eids EXCEPT ![Home(u)] = Erased(rgot[q], h)]
        /\ eids[Home(u)] = rgot[q] /\ spoiled[u] = {}
    <3>1. \A w : spoiled' = Spoil(u, w) => w = {}
      BY <1>1, <1>8 DEF Spoil
    <3>2. {"refused"} # {} /\ {"raced"} # {}
      OBVIOUS
    <3>3. QED
      BY <1>3, <1>8, <3>1, <3>2
  <2>2. BoxInv(u)
    BY <2>1 DEF MailInv
  <2>3. Home(u)' = Home(u) /\ Home(u) \in Cell
    BY HomeType DEF Home
  <2>4. Listed(Home(u)) = rgot[q] /\ IsInjective(rgot[q]) /\ ToSet(rgot[q]) = Listing(u)
    BY <1>1, <2>1, <2>2 DEF BoxInv, Listed, Listing
  <2>5. IsInjective(Listed(Home(u)))' /\ Listing(u)' = Listing(u) \ {h}
    <3>1. Listed(Home(u))' = IF Erased(rgot[q], h) = Absent THEN << >> ELSE Erased(rgot[q], h)
      BY <1>1, <2>1, <2>3 DEF Listed, Absent
    <3>2. CASE Len(rgot[q]) = 1
      <4>1. Listed(Home(u))' = << >>
        BY <3>1, <3>2 DEF Erased
      <4>2. DOMAIN rgot[q] = {1}
        BY <1>1, <3>2
      <4>3. ToSet(rgot[q]) = {h}
        BY <1>1, <4>2 DEF ToSet
      <4>4. QED
        BY <2>4, <4>1, <4>3, ToSetNone DEF Listing
    <3>3. CASE Len(rgot[q]) # 1
      <4>1. /\ Erased(rgot[q], h) \in Seq(Hash) /\ Erased(rgot[q], h) # << >>
            /\ IsInjective(Erased(rgot[q], h))
            /\ ToSet(Erased(rgot[q], h)) = ToSet(rgot[q]) \ {h}
        BY <1>1, <2>4, <3>3, ErasedRest
      <4>2. Erased(rgot[q], h) # Absent
        BY <4>1, ListIsPresent
      <4>3. QED
        BY <2>4, <3>1, <4>1, <4>2 DEF Listing
    <3>4. QED
      BY <3>2, <3>3
  <2>6. Stored(u)' = Stored(u) /\ Known(u)' = Known(u)
    BY <1>2, <2>3 DEF Stored, Known
  <2>7. \A k : HalfDelivered(u, k) => HalfDelivered(u, k)'
    BY <1>2, <1>4 DEF HalfDelivered
  <2>8. HalfDeleted(u, h)'
    BY <1>d, <1>1, <1>2 DEF HalfDeleted
  <2>9. \A k \in Listing(u)' : <<u, k>> \notin deleted'
    BY <1>2, <2>2, <2>5 DEF BoxInv
  <2>10. \A z \in Session : Brings(z, u)' =>
            /\ Target(z)' = Home(u)' /\ hash'[z] \in Listing(u)' /\ hash'[z] \notin Known(u)'
            /\ \A y \in Session : Brings(y, u)' /\ hash'[y] = hash'[z] => y = z
    <3>1. \A z \in Session : Brings(z, u) =>
            /\ Target(z) = Home(u) /\ hash[z] \in Listing(u) /\ hash[z] \notin Known(u)
            /\ \A y \in Session : Brings(y, u) /\ hash[y] = hash[z] => y = z
      BY <2>2 DEF BoxInv
    <3>2. QED
      BY <1>d, <1>2, <1>4, <1>6, <2>3, <2>5, <2>6, <3>1
  <2>11. /\ \A k \in Listing(u)' \ Stored(u)' : HalfDelivered(u, k)' \/ HalfDeleted(u, k)'
         /\ \A k \in Stored(u)' \ Listing(u)' : HalfDelivered(u, k)' \/ HalfDeleted(u, k)'
    BY <1>5, <2>2, <2>5, <2>6, <2>7, <2>8 DEF BoxInv
  <2>12. \A a \in acked' : a[2] = u /\ <<u, a[1].hash>> \notin deleted' => Kept(a[1], u)'
    <3> SUFFICES ASSUME NEW a \in acked, a[2] = u, <<u, a[1].hash>> \notin deleted, a[1].hash # h
                 PROVE  a[1].hash \in Listing(u)' /\ a[1] \in mails[Home(u)]
      BY <1>2, <2>3 DEF Kept, Listing
    <3>1. a[1].hash \in Listing(u) /\ a[1] \in mails[Home(u)]
      BY <2>2 DEF BoxInv, Kept, Listing
    <3>2. QED
      BY <2>5, <3>1
  <2>13. BoxInv(u)'
    BY <2>5, <2>9, <2>10, <2>11, <2>12 DEF BoxInv
  <2>14. QED
    BY <1>8, <2>13
<1>9. QED
  BY <1>7, <1>8

(* DELETE of the mail: it was taken off the list before.                   *)
LEMMA DeleteMailStep ==
    ASSUME TInv, MailInv, NEW q \in Request, DeleteMail(q)
    PROVE  MailInv'
<1>0. rpc[q] = "delete"
  BY DEF DeleteMail
<1>d. PICK u \in User, h \in {rhash[q]} : u = ruser[q] /\ h = rhash[q] /\ <<u, h>> \in deleted /\ Row(q) = Home(u)
  BY <1>0 DEF TInv, RequestInv, Row
<1>1. /\ \A p \in Request \ {q} : rpc'[p] = rpc[p]
      /\ UNCHANGED <<eids, acked, deleted, dpc, rcpts, at, name, hash, ruser, rhash>>
  BY DEF DeleteMail, Answer, svars, dvars, TInv, RequestTypes
<1>2. \/ mails' = [mails EXCEPT ![Home(u)] = {m \in @ : m.hash # h}] /\ spoiled' = spoiled
      \/ mails' = mails /\ spoiled' = Spoil(u, {"refused"})
      \/ mails' = mails /\ spoiled' = spoiled /\ ~ \E m \in mails[Home(u)] : m.hash = h
  BY <1>d DEF DeleteMail
<1>3. /\ mails \in [Cell -> SUBSET Mail] /\ spoiled \in [User -> SUBSET Window]
  BY DEF TInv, TableTypes
<1>4. \A z \in Session : Recipient(z)' = Recipient(z) /\ Target(z)' = Target(z)
  BY <1>1 DEF Recipient, Target
<1>5. \A v, k : HalfDeleted(v, k) /\ <<v, k>> # <<u, h>> => HalfDeleted(v, k)'
  BY <1>d, <1>1 DEF HalfDeleted
<1>6. \A v : \A z \in Session : Brings(z, v)' <=> Brings(z, v)
  BY <1>1, <1>4 DEF Brings
<1> SUFFICES ASSUME NEW v \in User, spoiled'[v] = {} PROVE BoxInv(v)'
  BY DEF MailInv
<1>7. CASE v # u
  <2>1. spoiled[v] = {} /\ BoxInv(v)
    BY <1>2, <1>3, <1>7 DEF MailInv, Spoil
  <2>2. Home(v) \in Cell /\ Home(u) \in Cell /\ Home(v) # Home(u)
    BY <1>7, HomeType
  <2>3. mails'[Home(v)] = mails[Home(v)]
    BY <1>2, <1>3, <2>2
  <2>4. \A k : HalfDeleted(v, k) => HalfDeleted(v, k)'
    BY <1>5, <1>7
  <2>5. QED
    BY <1>1, <1>4, <1>6, <2>1, <2>3, <2>4, BoxFrame
<1>8. CASE v = u
  <2>1. spoiled[u] = {} /\ mails'[Home(u)] = {m \in mails[Home(u)] : m.hash # h}
    <3>1. spoiled' # Spoil(u, {"refused"})
      BY <1>3, <1>8 DEF Spoil
    <3>2. Home(u) \in Cell
      BY HomeType
    <3>3. QED
      BY <1>2, <1>3, <1>8, <3>1, <3>2
  <2>2. BoxInv(u)
    BY <2>1 DEF MailInv
  <2>3. h \notin Listing(u)
    BY <1>d, <2>2 DEF BoxInv
  <2>4. /\ Home(u)' = Home(u) /\ Listed(Home(u))' = Listed(Home(u)) /\ Listing(u)' = Listing(u)
        /\ Known(u)' = Known(u)
    BY <1>1 DEF Home, Listed, Listing, Known, Absent
  <2>5. Stored(u)' = Stored(u) \ {h}
    BY <2>1, <2>4 DEF Stored
  <2>6. \A k : HalfDelivered(u, k) => HalfDelivered(u, k)'
    BY <1>1, <1>4 DEF HalfDelivered
  <2>7. \A z \in Session : Brings(z, u)' =>
            /\ Target(z)' = Home(u)' /\ hash'[z] \in Listing(u)' /\ hash'[z] \notin Known(u)'
            /\ \A y \in Session : Brings(y, u)' /\ hash'[y] = hash'[z] => y = z
    <3>1. \A z \in Session : Brings(z, u) =>
            /\ Target(z) = Home(u) /\ hash[z] \in Listing(u) /\ hash[z] \notin Known(u)
            /\ \A y \in Session : Brings(y, u) /\ hash[y] = hash[z] => y = z
      BY <2>2 DEF BoxInv
    <3>2. QED
      BY <1>1, <1>4, <1>6, <2>4, <3>1
  <2>8. \A k : k # h /\ HalfDeleted(u, k) => HalfDeleted(u, k)'
    BY <1>5
  <2>9. /\ \A k \in Listing(u)' \ Stored(u)' : HalfDelivered(u, k)' \/ HalfDeleted(u, k)'
        /\ \A k \in Stored(u)' \ Listing(u)' : HalfDelivered(u, k)' \/ HalfDeleted(u, k)'
    BY <2>2, <2>3, <2>4, <2>5, <2>6, <2>8 DEF BoxInv
  <2>10. \A a \in acked' : a[2] = u /\ <<u, a[1].hash>> \notin deleted' => Kept(a[1], u)'
    <3> SUFFICES ASSUME NEW a \in acked, a[2] = u, <<u, a[1].hash>> \notin deleted
                 PROVE  a[1].hash \in Listing(u) /\ a[1] \in mails'[Home(u)]
      BY <1>1, <2>4 DEF Kept, Listing
    <3>1. a[1].hash \in Listing(u) /\ a[1] \in mails[Home(u)]
      BY <2>2 DEF BoxInv, Kept, Listing
    <3>2. QED
      BY <2>1, <2>3, <3>1
  <2>11. /\ IsInjective(Listed(Home(u)))'
         /\ \A k \in Listing(u)' : <<u, k>> \notin deleted'
    BY <1>1, <2>2, <2>4 DEF BoxInv
  <2>12. BoxInv(u)'
    BY <2>7, <2>9, <2>10, <2>11 DEF BoxInv
  <2>13. QED
    BY <1>8, <2>12
<1>9. QED
  BY <1>7, <1>8

(* The answer of /send-email.                                              *)
LEMMA WebStep ==
    ASSUME TInv, WebInv, [Next]_vars
    PROVE  WebInv'
<1>1. ASSUME NEW s \in Session, WriteMail(s) PROVE WebInv'
  <2>1. PICK ok \in BOOLEAN : acked' = Acked(s, ok) /\ wans' = IF http_up THEN Reply(s, ok) ELSE wans
    BY <1>1 DEF WriteMail
  <2>2. ok => <<Sent(s), Recipient(s)>> \in acked' /\ <<Sent(s), Recipient(s)>>[1].by = s
    BY <2>1 DEF Acked, Sent
  <2>3. acked \subseteq acked' /\ \A z \in Session : wans'[z] = "200" => wans[z] = "200" \/ (z = s /\ ok)
    BY <2>1 DEF Acked, Reply, TInv, SessionTypes
  <2>4. QED
    BY <2>2, <2>3 DEF WebInv
<1>2. ASSUME NEW s \in Session, WebUnanswered(s) PROVE WebInv'
  BY <1>2 DEF WebUnanswered, hvars, WebInv, TInv, SessionTypes
<1>3. CASE UNCHANGED <<acked, wans>>
  BY <1>3 DEF WebInv
<1>4. ASSUME NEW s \in Session,
             \/ \E u \in User : Helo(s, u) \/ Rcpt(s, u)
             \/ \E f \in Sender : MailFrom(s, f)
             \/ \E t \in Title : SetTitle(s, t) \/ Dot(s, t)
             \/ Data(s) \/ MissDot(s) \/ Rset(s) \/ Leave(s)
             \/ ReadIndex(s) \/ WriteIndex(s) \/ EndDelivery(s)
      PROVE  UNCHANGED <<acked, wans>>
  BY <1>4 DEF Helo, Rcpt, MailFrom, SetTitle, Dot, Data, MissDot, Rset, Leave, ReadIndex, WriteIndex,
              EndDelivery, hvars
<1>5. ASSUME NEW q \in Request,
             \/ \E u \in User : \/ Begin(q, "list", u, None)
                                \/ \E h \in Known(u) : Begin(q, "delete", u, h)
             \/ ListIndex(q) \/ ListMail(q) \/ Unlistable(q) \/ Unlist(q) \/ DeleteMail(q)
      PROVE  UNCHANGED <<acked, wans>>
  BY <1>5 DEF Begin, ListIndex, ListMail, Unlistable, Unlist, DeleteMail, hvars
<1>6. CASE Tick \/ UNCHANGED vars
  BY <1>3, <1>6 DEF Tick, vars, hvars
<1>7. QED
  BY <1>1, <1>2, <1>3, <1>4, <1>5, <1>6 DEF Next, Deliver

LEMMA MailStep ==
    ASSUME TInv, MailInv, [Next]_vars
    PROVE  MailInv'
<1>1. CASE Tick \/ UNCHANGED vars
  <2>1. UNCHANGED <<eids, mails, acked, deleted, spoiled, dpc, rcpts, at, name, hash, rpc, ruser, rhash>>
    BY <1>1 DEF Tick, vars, tvars, svars, dvars, rvars, hvars
  <2>2. QED
    BY <2>1, QuietStep
<1>2. QED
  BY <1>1, SessionQuiet, RequestQuiet, WriteIndexStep, WriteMailStep, UnlistStep, DeleteMailStep
     DEF Next, Deliver

LEMMA MailInvariant == Spec => []IInv
<1>1. Init => MailInv /\ WebInv
  <2> SUFFICES ASSUME Init PROVE MailInv /\ WebInv
    OBVIOUS
  <2>1. WebInv
    BY DEF Init, WebInv
  <2>2. ASSUME NEW u \in User PROVE BoxInv(u)
    <3>1. Home(u) \in Cell
      BY HomeType
    <3>2. Listed(Home(u)) = << >> /\ Listing(u) = {} /\ Stored(u) = {}
      BY <3>1, ToSetNone DEF Init, Listed, Listing, Stored
    <3>3. \A s \in Session : ~Brings(s, u)
      BY DEF Init, Brings
    <3>4. QED
      BY <3>2, <3>3, ToSetNone DEF BoxInv, Init
  <2>3. QED
    BY <2>1, <2>2 DEF MailInv
<1>2. TInv /\ MailInv /\ WebInv /\ [Next]_vars => MailInv' /\ WebInv'
  BY MailStep, WebStep
<1>3. QED
  BY <1>1, <1>2, TypesInvariant, PTL DEF Spec, IInv

(* The list of a mailbox and its mails agree but for the mail a running    *)
(* session is delivering or a running request is deleting and for what a   *)
(* process left behind that ended in between, and no mail is listed twice. *)
THEOREM MailboxAgrees == Spec => []InboxAgrees
<1>1. IInv => InboxAgrees
  <2> SUFFICES ASSUME IInv, NEW u \in User, spoiled[u] = {}
               PROVE  /\ \A h \in (Listing(u) \ Stored(u)) \cup (Stored(u) \ Listing(u)) :
                            Delivering(u, h) \/ Deleting(u, h) \/ LeftBehind(u, h)
                      /\ Cardinality(Listing(u)) = Len(Listed(Home(u)))
    BY DEF InboxAgrees, Listing, Stored
  <2>1. BoxInv(u)
    BY DEF IInv, MailInv
  <2>2. Listed(Home(u)) \in Seq(Hash)
    <3>1. eids[Home(u)] \in Seq(Hash) \cup {Absent}
      BY HomeType DEF IInv, TInv, TableTypes
    <3>2. QED
      BY <3>1 DEF Listed
  <2>3. Cardinality(Listing(u)) = Len(Listed(Home(u)))
    BY <2>1, <2>2, ListedOnce DEF BoxInv, Listing
  <2>4. \A h \in (Listing(u) \ Stored(u)) \cup (Stored(u) \ Listing(u)) :
           HalfDelivered(u, h) \/ HalfDeleted(u, h)
    BY <2>1 DEF BoxInv
  <2>5. \A h : HalfDelivered(u, h) \/ HalfDeleted(u, h)
                 => Delivering(u, h) \/ Deleting(u, h) \/ LeftBehind(u, h)
    BY DEF Delivering, Deleting, LeftBehind
  <2>6. QED
    BY <2>3, <2>4, <2>5
<1>2. QED
  BY <1>1, MailInvariant, PTL

(* A mail answered +OK is listed and stored until a user deletes it, and   *)
(* /send-email answers 200 only for a mail that was answered +OK.          *)
THEOREM AckedMailStays == Spec => []AckedIsListed
<1>1. IInv => AckedIsListed
  <2> SUFFICES ASSUME IInv PROVE AckedIsListed
    OBVIOUS
  <2>1. ASSUME NEW a \in acked, spoiled[a[2]] = {}, <<a[2], a[1].hash>> \notin deleted
        PROVE  Kept(a[1], a[2])
    <3>1. a[2] \in User
      BY DEF IInv, TInv, TableTypes
    <3>2. BoxInv(a[2])
      BY <2>1, <3>1 DEF IInv, MailInv
    <3>3. QED
      BY <2>1, <3>2 DEF BoxInv
  <2>2. QED
    BY <2>1 DEF AckedIsListed, IInv, WebInv
<1>2. QED
  BY <1>1, MailInvariant, PTL

=============================================================================

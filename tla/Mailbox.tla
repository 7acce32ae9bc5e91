------------------------------ MODULE Mailbox ------------------------------
(***************************************************************************)
(* Mail of the frontend: the sessions of the SMTP server                   *)
(* (frontend/smtp_server.cc, worker) and the requests /send-email,         *)
(* /email-list and /delete-email of the HTTP server                        *)
(* (frontend/src/http.cc), over the table of the storage servers.          *)
(*                                                                         *)
(* A mailbox is a row of the table: the cell eid_vector with the hashes of *)
(* the mails, and one cell per hash with the mail.  Every change of a      *)
(* mailbox is a GET followed by PUTs or DELETEs, each a command of its     *)
(* own, so sessions and requests interleave between them.  A command is    *)
(* atomic here; a write may be refused, since the storage servers answer   *)
(* -ERR for an aborted transaction.                                        *)
(*                                                                         *)
(* Answers that change no state (NOOP, syntax errors, commands out of      *)
(* sequence) are stuttering steps.  A mailer that sends no TITLE sends a   *)
(* Subject header.                                                         *)
(***************************************************************************)
EXTENDS Integers, Sequences, FiniteSets, SequencesExt

CONSTANTS
    Session,      \* connections to the SMTP server
    Web,          \* those opened by /send-email
    Request,      \* requests to the HTTP server about a mailbox
    User,         \* mailboxes
    Sender, Title,
    Part,         \* get_partition: user -> partition
    None,
    MaxTime,      \* bound: seconds
    MaxRcpt       \* bound: recipients of a mail

Hash == Sender \X Title \X (0..MaxTime)     \* compute_hash_16 of sender, title, time

ASSUME MailboxAssumption ==
    /\ Web \subseteq Session /\ IsFiniteSet(Session)
    /\ None \notin User /\ None \notin Title /\ None \notin Sender /\ None \notin Hash
    /\ MaxTime \in Nat /\ MaxRcpt \in Nat

Cell == {Part[u] : u \in User} \X User      \* where a row is stored
Mail == [hash : Hash, by : Session]
Home(u) == <<Part[u], u>>

VARIABLES
    eids, mails,                       \* the table: eid_vector and mails of each row
    now,                               \* the clock, in seconds
    smtp_up, http_up, coord_up,        \* is the process running?
    state, name, from, rcpts, title,   \* worker: the variables of a session
    slot,                              \* worker: rcpt_to_buffer, is each pointer live?
    dpc, at, got, hash,                \* worker: delivery (place, recipient, GET, hash)
    wans,                              \* answer of /send-email
    kind, ruser, rhash, rpc, rgot, ri, \* request: what it is about, place, GET, position
    rans,                              \* request: answer
    acked, deleted,                    \* history: mails answered +OK; mails deleted
    spoiled                            \* history: what befell a mailbox

tvars == <<eids, mails>>
pvars == <<smtp_up, http_up, coord_up>>
svars == <<state, name, from, rcpts, title, slot>>
dvars == <<dpc, at, got, hash>>
rvars == <<kind, ruser, rhash, rpc, rgot, ri, rans>>
hvars == <<acked, deleted, spoiled>>
vars  == <<tvars, now, pvars, svars, dvars, wans, rvars, hvars>>

Window == {"raced", "refused", "collided", "misplaced"}

TypeOK ==
    /\ eids \in [Cell -> Seq(Hash) \cup {<<None>>}] /\ mails \in [Cell -> SUBSET Mail]
    /\ now \in 0..MaxTime
    /\ smtp_up \in BOOLEAN /\ http_up \in BOOLEAN /\ coord_up \in BOOLEAN
    /\ state \in [Session -> {"NEW", "READY", "TRANSACTION", "DATA", "MISSED", "CLOSED"}]
    /\ name \in [Session -> User \cup {None}] /\ from \in [Session -> Sender \cup {None}]
    /\ rcpts \in [Session -> Seq(User)] /\ title \in [Session -> Title \cup {None}]
    /\ slot \in [Session -> Seq(BOOLEAN)]
    /\ dpc \in [Session -> {"none", "read", "index", "mail", "reset"}]
    /\ \A s \in Session : dpc[s] \in {"read", "index", "mail"} => at[s] \in DOMAIN rcpts[s]
    /\ got \in [Session -> Seq(Hash) \cup {<<None>>}]
    /\ hash \in [Session -> Hash \cup {None}]
    /\ wans \in [Session -> {"none", "200", "500", "303"}]
    /\ kind \in [Request -> {"none", "list", "delete"}]
    /\ ruser \in [Request -> User \cup {None}] /\ rhash \in [Request -> Hash \cup {None}]
    /\ rpc \in [Request -> {"none", "read", "mails", "unlist", "delete", "done", "hung"}]
    /\ rgot \in [Request -> Seq(Hash) \cup {<<None>>}]
    /\ \A q \in Request : rpc[q] = "mails" => ri[q] \in DOMAIN rgot[q]
    /\ rans \in [Request -> {"none", "200", "404", "500"}]
    /\ acked \subseteq Mail \X User /\ deleted \subseteq User \X Hash
    /\ spoiled \in [User -> SUBSET Window]

Absent == <<None>>                     \* the answer -ERR 204 to a GET of eid_vector

Init ==
    /\ eids = [c \in Cell |-> Absent] /\ mails = [c \in Cell |-> {}]
    /\ now = 0
    /\ smtp_up = TRUE /\ http_up = TRUE /\ coord_up = TRUE
    /\ state = [s \in Session |-> "NEW"] /\ name = [s \in Session |-> None]
    /\ from = [s \in Session |-> None] /\ rcpts = [s \in Session |-> <<>>]
    /\ title = [s \in Session |-> None] /\ slot = [s \in Session |-> <<>>]
    /\ dpc = [s \in Session |-> "none"] /\ at = [s \in Session |-> 0]
    /\ got = [s \in Session |-> Absent] /\ hash = [s \in Session |-> None]
    /\ wans = [s \in Session |-> "none"]
    /\ kind = [q \in Request |-> "none"] /\ ruser = [q \in Request |-> None]
    /\ rhash = [q \in Request |-> None] /\ rpc = [q \in Request |-> "none"]
    /\ rgot = [q \in Request |-> Absent] /\ ri = [q \in Request |-> 0]
    /\ rans = [q \in Request |-> "none"]
    /\ acked = {} /\ deleted = {} /\ spoiled = [u \in User |-> {}]

Tick ==
    /\ now < MaxTime /\ now' = now + 1
    /\ UNCHANGED <<tvars, pvars, svars, dvars, wans, rvars, hvars>>

-----------------------------------------------------------------------------
(* The table.  A row is stored on the partition of the connection, which   *)
(* does not compare it with the row.                                       *)
Listed(c)   == IF eids[c] = Absent THEN <<>> ELSE eids[c]
With(m, c)  == {x \in mails[c] : x.hash # m.hash} \cup {m}
Spoil(u, w) == [spoiled EXCEPT ![u] = @ \cup w]

-----------------------------------------------------------------------------
(* worker, the four states of a session.  /send-email sends HELO, MAIL     *)
(* FROM, TITLE, RCPT TO, DATA and the mail in this order, with the         *)
(* recipient as the name in HELO, and never closes the connection.         *)
Reads(s, st)  == smtp_up /\ state[s] = st /\ (s \in Web => http_up)

Helo(s, u) ==
    /\ Reads(s, "NEW")
    /\ name' = [name EXCEPT ![s] = u] /\ state' = [state EXCEPT ![s] = "READY"]
    /\ UNCHANGED <<tvars, now, pvars, from, rcpts, title, slot, dvars, wans, rvars, hvars>>

MailFrom(s, f) ==
    /\ Reads(s, "READY") /\ (s \in Web => wans[s] = "none")
    /\ from' = [from EXCEPT ![s] = f] /\ state' = [state EXCEPT ![s] = "TRANSACTION"]
    /\ UNCHANGED <<tvars, now, pvars, name, rcpts, title, slot, dvars, wans, rvars, hvars>>

SetTitle(s, t) ==
    /\ Reads(s, "TRANSACTION") /\ title[s] # t
    /\ title' = [title EXCEPT ![s] = t]
    /\ UNCHANGED <<tvars, now, pvars, state, name, from, rcpts, slot, dvars, wans, rvars, hvars>>

Rcpt(s, u) ==
    /\ Reads(s, "TRANSACTION") /\ Len(rcpts[s]) < MaxRcpt
    /\ s \in Web => rcpts[s] = <<>> /\ u = name[s] /\ title[s] # None
    /\ rcpts' = [rcpts EXCEPT ![s] = Append(@, u)]
    /\ slot' = [slot EXCEPT ![s] = IF Len(@) > Len(rcpts[s])
                                     THEN [@ EXCEPT ![Len(rcpts[s]) + 1] = TRUE]
                                     ELSE Append(@, TRUE)]
    /\ UNCHANGED <<tvars, now, pvars, state, name, from, title, dvars, wans, rvars, hvars>>

Data(s) ==
    /\ Reads(s, "TRANSACTION") /\ rcpts[s] # <<>>
    /\ state' = [state EXCEPT ![s] = "DATA"]
    /\ UNCHANGED <<tvars, now, pvars, name, from, rcpts, title, slot, dvars, wans, rvars, hvars>>

(* RSET, and the end of a delivery: everything but the title is reset, the *)
(* name of HELO too.  The pointers are freed and kept, so a second reset   *)
(* may free one twice; the process then goes on or is aborted.             *)
Cleared(s) ==
    /\ state' = [state EXCEPT ![s] = "READY"]
    /\ name' = [name EXCEPT ![s] = None] /\ from' = [from EXCEPT ![s] = None]
    /\ rcpts' = [rcpts EXCEPT ![s] = <<>>]
    /\ slot' = [slot EXCEPT ![s] = [i \in DOMAIN @ |-> FALSE]]
    /\ smtp_up' \in {TRUE, \A i \in DOMAIN slot[s] : slot[s][i]}
    /\ UNCHANGED title

Rset(s) ==
    /\ s \notin Web /\ (Reads(s, "READY") \/ Reads(s, "TRANSACTION"))
    /\ Cleared(s)
    /\ UNCHANGED <<tvars, now, http_up, coord_up, dvars, wans, rvars, hvars>>

(* QUIT, or the client is gone.                                            *)
Leave(s) ==
    /\ smtp_up /\ state[s] # "CLOSED" /\ dpc[s] = "none" /\ (s \in Web => ~http_up)
    /\ state' = [state EXCEPT ![s] = "CLOSED"]
    /\ name' = [name EXCEPT ![s] = None] /\ from' = [from EXCEPT ![s] = None]
    /\ rcpts' = [rcpts EXCEPT ![s] = <<>>] /\ title' = [title EXCEPT ![s] = None]
    /\ slot' = [slot EXCEPT ![s] = <<>>]
    /\ UNCHANGED <<tvars, now, pvars, dvars, wans, rvars, hvars>>

(* The end of the mail.  The search for CRLF.CRLF begins with the bytes    *)
(* just read, so the mark is not found when its dot came in an earlier     *)
(* read than its last CRLF.                                                *)
MissDot(s) ==
    /\ Reads(s, "DATA") /\ dpc[s] = "none"
    /\ state' = [state EXCEPT ![s] = "MISSED"]
    /\ UNCHANGED <<tvars, now, pvars, name, from, rcpts, title, slot, dvars, wans, rvars, hvars>>

(* The server of the partition of the HELO name is asked from the          *)
(* coordinator.  Without a name the coordinator ends with an exception and *)
(* so does the SMTP server; it also ends when there is no coordinator or   *)
(* no server.                                                              *)
Dot(s, subject) ==
    /\ Reads(s, "DATA") /\ dpc[s] = "none"
    /\ title' = [title EXCEPT ![s] = IF @ = None THEN subject ELSE @]
    /\ hash' = [hash EXCEPT ![s] = <<from[s], title'[s], now>>]
    /\ coord_up' = (coord_up /\ name[s] # None)
    /\ smtp_up' \in {FALSE, coord_up'}
    /\ dpc' = [dpc EXCEPT ![s] = IF smtp_up' THEN "read" ELSE "none"]
    /\ at' = [at EXCEPT ![s] = 1]
    /\ UNCHANGED <<tvars, now, http_up, state, name, from, rcpts, slot, got, wans, rvars, hvars>>

-----------------------------------------------------------------------------
(* Delivery to one recipient: GET eid_vector, PUT eid_vector, PUT the mail *)
(* and the answer, which only depends on the last PUT.                     *)
Recipient(s) == rcpts[s][at[s]]
Target(s)    == <<Part[name[s]], Recipient(s)>>

ReadIndex(s) ==
    /\ smtp_up /\ dpc[s] = "read"
    /\ got' = [got EXCEPT ![s] = eids[Target(s)]]
    /\ dpc' = [dpc EXCEPT ![s] = "index"]
    /\ UNCHANGED <<tvars, now, pvars, svars, at, hash, wans, rvars, hvars>>

AppendedFirst(v, h) == <<h>>           \* seeded fault: the old hashes are dropped

Appended(v, h) == IF v = Absent THEN <<h>> ELSE Append(v, h)

(* The mailbox has had a mail of this hash before.                         *)
Met(u, c, h) == h \in ToSet(Listed(c)) \/ <<u, h>> \in deleted
                  \/ \E m \in mails[c] : m.hash = h

WriteIndex(s) ==
    LET c == Target(s) u == Recipient(s) IN
    /\ smtp_up /\ dpc[s] = "index"
    /\ \/ /\ eids' = [eids EXCEPT ![c] = Appended(got[s], hash[s])]
          /\ spoiled' = Spoil(u,
                 (IF eids[c] # got[s] THEN {"raced"} ELSE {})
                 \cup (IF Met(u, c, hash[s]) THEN {"collided"} ELSE {})
                 \cup (IF c # Home(u) THEN {"misplaced"} ELSE {}))
       \/ /\ UNCHANGED eids
          /\ spoiled' = Spoil(u, {"refused"})
    /\ dpc' = [dpc EXCEPT ![s] = "mail"]
    /\ UNCHANGED <<mails, now, pvars, svars, at, got, hash, wans, rvars, acked, deleted>>

(* The first line of the answer is what /send-email goes by.               *)
Reply(s, ok) == IF s \in Web /\ wans[s] = "none"
                  THEN [wans EXCEPT ![s] = IF ok THEN "200" ELSE "500"] ELSE wans

Sent(s) == [hash |-> hash[s], by |-> s]

Acked(s, ok) == IF ok THEN acked \cup {<<Sent(s), Recipient(s)>>} ELSE acked

SameRecipient(s) ==                    \* seeded fault: the loop does not advance
    /\ UNCHANGED at
    /\ dpc' = [dpc EXCEPT ![s] = IF at[s] = Len(rcpts[s]) THEN "reset" ELSE "read"]

PastLast(s) ==                         \* seeded fault: the loop goes one too far
    /\ at' = [at EXCEPT ![s] = @ + 1]
    /\ dpc' = [dpc EXCEPT ![s] = IF at[s] > Len(rcpts[s]) THEN "reset" ELSE "read"]

Advanced(s) ==
    /\ at' = [at EXCEPT ![s] = @ + 1]
    /\ dpc' = [dpc EXCEPT ![s] = IF at[s] = Len(rcpts[s]) THEN "reset" ELSE "read"]

WriteMail(s) ==
    LET c == Target(s) IN
    /\ smtp_up /\ dpc[s] = "mail"
    /\ \E ok \in BOOLEAN :
         /\ mails' = IF ok THEN [mails EXCEPT ![c] = With(Sent(s), c)]
                           ELSE mails
         /\ acked' = Acked(s, ok)
         /\ wans' = IF http_up THEN Reply(s, ok) ELSE wans
         /\ spoiled' = IF ok THEN spoiled ELSE Spoil(Recipient(s), {"refused"})
    /\ Advanced(s)
    /\ UNCHANGED <<eids, now, pvars, svars, got, hash, rvars, deleted>>

EndDelivery(s) ==
    /\ smtp_up /\ dpc[s] = "reset"
    /\ dpc' = [dpc EXCEPT ![s] = "none"] /\ at' = [at EXCEPT ![s] = 0]
    /\ got' = [got EXCEPT ![s] = Absent] /\ hash' = [hash EXCEPT ![s] = None]
    /\ Cleared(s)
    /\ UNCHANGED <<tvars, now, http_up, coord_up, wans, rvars, hvars>>

(* /send-email when the SMTP server is gone: no connection, or no answer.  *)
WebUnanswered(s) ==
    /\ s \in Web /\ http_up /\ ~smtp_up /\ wans[s] = "none"
    /\ wans' = [wans EXCEPT ![s] = IF state[s] = "NEW" THEN "500" ELSE "303"]
    /\ UNCHANGED <<tvars, now, pvars, svars, dvars, rvars, hvars>>

-----------------------------------------------------------------------------
(* A request to the HTTP server.  get_table_fd waits for ever when there   *)
(* is no coordinator, and the HTTP server ends when no server is left.     *)
Begin(q, k, u, h) ==
    /\ http_up /\ rpc[q] = "none"
    /\ kind' = [kind EXCEPT ![q] = k] /\ ruser' = [ruser EXCEPT ![q] = u]
    /\ rhash' = [rhash EXCEPT ![q] = h]
    /\ rpc' = [rpc EXCEPT ![q] = IF coord_up THEN "read" ELSE "hung"]
    /\ http_up' \in {TRUE, ~coord_up}
    /\ UNCHANGED <<tvars, now, smtp_up, coord_up, svars, dvars, wans, rgot, ri, rans, hvars>>

Answer(q, a) == /\ rans' = [rans EXCEPT ![q] = a] /\ rpc' = [rpc EXCEPT ![q] = "done"]
                /\ rgot' = [rgot EXCEPT ![q] = Absent] /\ ri' = [ri EXCEPT ![q] = 0]

Row(q) == Home(ruser[q])

(* /email-list: GET eid_vector, then GET every mail, the newest first.     *)
ListIndex(q) ==
    /\ http_up /\ rpc[q] = "read" /\ kind[q] = "list"
    /\ IF eids[Row(q)] = Absent
         THEN Answer(q, "404")
         ELSE /\ rgot' = [rgot EXCEPT ![q] = eids[Row(q)]]
              /\ rpc' = [rpc EXCEPT ![q] = "mails"]
              /\ ri' = [ri EXCEPT ![q] = Len(eids[Row(q)])]
              /\ UNCHANGED rans
    /\ UNCHANGED <<tvars, now, pvars, svars, dvars, wans, kind, ruser, rhash, hvars>>

ListMail(q) ==
    /\ http_up /\ rpc[q] = "mails"
    /\ IF ~ \E m \in mails[Row(q)] : m.hash = rgot[q][ri[q]]
         THEN Answer(q, "500")
         ELSE IF ri[q] = 1 THEN Answer(q, "200")
         ELSE ri' = [ri EXCEPT ![q] = @ - 1] /\ UNCHANGED <<rpc, rans, rgot>>
    /\ UNCHANGED <<tvars, now, pvars, svars, dvars, wans, kind, ruser, rhash, hvars>>

(* /delete-email: GET eid_vector and take the hash out.  If it is not      *)
(* there, erase throws and the HTTP server ends.                           *)
Unlistable(q) ==
    /\ http_up /\ rpc[q] = "read" /\ kind[q] = "delete"
    /\ rgot' = [rgot EXCEPT ![q] = eids[Row(q)]]
    /\ http_up' = (rhash[q] \in ToSet(Listed(Row(q))))
    /\ rpc' = [rpc EXCEPT ![q] = "unlist"]
    /\ UNCHANGED <<tvars, now, smtp_up, coord_up, svars, dvars, wans, kind, ruser, rhash, ri, rans,
                   hvars>>

FirstAt(v, h) == CHOOSE i \in DOMAIN v : v[i] = h /\ \A j \in 1..(i - 1) : v[j] # h

ErasedLast(v, h) == IF Len(v) = 1 THEN Absent       \* seeded fault: the last one is erased
                    ELSE SubSeq(v, 1, Len(v) - 1)

Erased(v, h) == IF Len(v) = 1 THEN Absent ELSE RemoveAt(v, FirstAt(v, h))

Unlist(q) ==
    LET c == Row(q) u == ruser[q] IN
    /\ http_up /\ rpc[q] = "unlist"
    /\ \/ /\ eids' = [eids EXCEPT ![c] = Erased(rgot[q], rhash[q])]
          /\ spoiled' = IF eids[c] = rgot[q] THEN spoiled ELSE Spoil(u, {"raced"})
       \/ /\ UNCHANGED eids
          /\ spoiled' = Spoil(u, {"refused"})
    /\ deleted' = deleted \cup {<<u, rhash[q]>>}
    /\ rpc' = [rpc EXCEPT ![q] = "delete"]
    /\ UNCHANGED <<mails, now, pvars, svars, dvars, wans, kind, ruser, rhash, rgot, ri, rans, acked>>

DeleteMail(q) ==
    LET c == Row(q) IN
    /\ http_up /\ rpc[q] = "delete"
    /\ IF \E m \in mails[c] : m.hash = rhash[q]
         THEN \/ /\ mails' = [mails EXCEPT ![c] = {m \in @ : m.hash # rhash[q]}]
                 /\ Answer(q, "200") /\ UNCHANGED spoiled
              \/ /\ UNCHANGED mails /\ Answer(q, "404")
                 /\ spoiled' = Spoil(ruser[q], {"refused"})
         ELSE Answer(q, "500") /\ UNCHANGED <<mails, spoiled>>
    /\ UNCHANGED <<eids, now, pvars, svars, dvars, wans, kind, ruser, rhash, acked, deleted>>

-----------------------------------------------------------------------------
Deliver(s) == ReadIndex(s) \/ WriteIndex(s) \/ WriteMail(s) \/ EndDelivery(s)

Known(u) == {a[1].hash : a \in {x \in acked : x[2] = u}}

Next ==
    \/ Tick
    \/ \E s \in Session :
         \/ \E u \in User : Helo(s, u) \/ Rcpt(s, u)
         \/ \E f \in Sender : MailFrom(s, f)
         \/ \E t \in Title : SetTitle(s, t) \/ Dot(s, t)
         \/ Data(s) \/ MissDot(s) \/ Rset(s) \/ Leave(s)
         \/ Deliver(s) \/ WebUnanswered(s)
    \/ \E q \in Request :
         \/ \E u \in User : \/ Begin(q, "list", u, None)
                            \/ \E h \in Known(u) : Begin(q, "delete", u, h)
         \/ ListIndex(q) \/ ListMail(q)
         \/ Unlistable(q) \/ Unlist(q) \/ DeleteMail(q)

Spec == Init /\ [][Next]_vars

(* The worker that delivers runs; the storage servers answer.              *)
FairSpec == Spec /\ \A s \in Session : WF_vars(Deliver(s))

-----------------------------------------------------------------------------
(* spoiled[u] says what may have damaged the mailbox of u: two changes of  *)
(* eid_vector that overlapped, a refused write, two mails with one hash,   *)
(* or a mail stored on the partition of another recipient.  The end of a   *)
(* process between the two writes of a mail damages it too, and for ever,  *)
(* since nothing repairs it: an /email-list that reaches an entry without  *)
(* its mail answers 500.  LeftBehind names those entries.                  *)
HalfDelivered(u, h) == \E s \in Session : dpc[s] = "mail" /\ Recipient(s) = u /\ hash[s] = h
HalfDeleted(u, h)   == \E q \in Request : rpc[q] = "delete" /\ ruser[q] = u /\ rhash[q] = h

Delivering(u, h) == smtp_up /\ HalfDelivered(u, h)
Deleting(u, h)   == http_up /\ HalfDeleted(u, h)
LeftBehind(u, h) == (~smtp_up /\ HalfDelivered(u, h)) \/ (~http_up /\ HalfDeleted(u, h))

(* eid_vector and the mails of a row agree: every listed mail is stored    *)
(* and every stored mail is listed, except for the mail a running session  *)
(* is delivering or a running request is deleting, and for the mail one    *)
(* that ended in the middle left behind: the end of a process damages the  *)
(* mail it was at and no other (smtp_server.cc:269-343, http.cc:454-501).  *)
InboxAgrees ==
    \A u \in User : spoiled[u] = {} =>
        LET listed == ToSet(Listed(Home(u)))
            stored == {m.hash : m \in mails[Home(u)]}
        IN /\ \A h \in (listed \ stored) \cup (stored \ listed) :
                Delivering(u, h) \/ Deleting(u, h) \/ LeftBehind(u, h)
           /\ Cardinality(listed) = Len(Listed(Home(u)))

(* A mail the server answered +OK for is in the mailbox of the recipient,  *)
(* until a user deletes it, and /send-email answers 200 only for such a    *)
(* mail.                                                                   *)
Kept(m, u) == /\ m.hash \in ToSet(Listed(Home(u)))
              /\ m \in mails[Home(u)]
AckedIsListed ==
    /\ \A a \in acked : LET m == a[1] u == a[2] IN
         (spoiled[u] = {} /\ <<u, m.hash>> \notin deleted) => Kept(m, u)
    /\ \A s \in Session : wans[s] = "200" => \E a \in acked : a[1].by = s

(* A mail whose end the server has seen is answered for every recipient,   *)
(* unless the server ends.                                                 *)
DeliveryEnds == \A s \in Session : dpc[s] = "read" ~> (dpc[s] = "none" \/ ~smtp_up)

(* "Append the hash of current email to the vector and update the value":  *)
(* a mail answered +OK is in the mailbox, whatever else happens to it      *)
(* meanwhile, as long as no write is refused and no hash is met twice.     *)
AppendedStays ==
    \A a \in acked : LET m == a[1] u == a[2] IN
        (spoiled[u] \subseteq {"raced"} /\ <<u, m.hash>> \notin deleted)
          => m.hash \in ToSet(Listed(Home(u)))
=============================================================================

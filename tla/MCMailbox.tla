----------------------------- MODULE MCMailbox -----------------------------
(* Instances of Mailbox for TLC. *)
EXTENDS Mailbox

CONSTANTS u1, u2

MCUser == {u1, u2}
MCPart == [u \in MCUser |-> IF u = u1 THEN 1 ELSE 2]

(* One thing goes wrong in a behaviour: a mailbox is damaged, a process    *)
(* ends, the end of a mail is missed, or a mailer leaves early.            *)
Upsets ==
    Cardinality({x \in User \X Window : x[2] \in spoiled[x[1]]})
      + Cardinality({s \in Session : state[s] = "MISSED"})
      + Cardinality({s \in Session \ Web : state[s] = "CLOSED"})
      + (IF http_up THEN 0 ELSE 1) + (IF smtp_up /\ coord_up THEN 0 ELSE 1)

(* The users are alike, so the mailers are taken to say HELO as u1.        *)
Bounded == Upsets <= 1 /\ \A s \in Session \ Web : name[s] # u2
=============================================================================

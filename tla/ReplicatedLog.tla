--------------------------- MODULE ReplicatedLog ---------------------------
(***************************************************************************)
(* What a partition promises its frontends: its nodes execute one log of   *)
(* commands, each at its own pace and without gaps; no command is executed *)
(* twice; and a command is answered with what the log says became of it,   *)
(* no sooner than some node has applied it.                                *)
(***************************************************************************)
EXTENDS Naturals, Sequences

CONSTANTS
    Node,   \* the nodes of the partition
    Req,    \* the commands frontends send
    Entry   \* records with the fields seq, req and dec ("COMMIT" or "ABORT")

VARIABLES
    log,      \* the commands the partition has settled, with their outcomes
    applied,  \* per node: the length of the prefix it has applied
    answer    \* per command: what its frontend was told

vars == <<log, applied, answer>>

Settled(q) == \E i \in DOMAIN log : log[i].req = q
Text(d) == IF d = "COMMIT" THEN "OK" ELSE "ERR"

Init ==
    /\ log = <<>>
    /\ applied = [n \in Node |-> 0]
    /\ answer = [q \in Req |-> "none"]

(* Applying an entry may answer its command, once.                         *)
MayAnswer(e) ==
    \/ UNCHANGED answer
    \/ /\ answer[e.req] = "none"
       /\ answer' = [answer EXCEPT ![e.req] = Text(e.dec)]

(* A node ahead of all others settles a command.                           *)
Settle(n) ==
    /\ applied[n] = Len(log)
    /\ applied' = [applied EXCEPT ![n] = @ + 1]
    /\ \E e \in Entry :
         /\ ~Settled(e.req) /\ answer[e.req] = "none"
         /\ log' = Append(log, e)
         /\ MayAnswer(e)

(* A node that lags applies the next entry of the log.                     *)
CatchUp(n) ==
    /\ applied[n] < Len(log)
    /\ applied' = [applied EXCEPT ![n] = @ + 1]
    /\ MayAnswer(log[applied[n] + 1])
    /\ UNCHANGED log

(* A command is refused without entering the log.                          *)
Refuse(q) ==
    /\ ~Settled(q) /\ answer[q] = "none"
    /\ answer' = [answer EXCEPT ![q] = "ERR"]
    /\ UNCHANGED <<log, applied>>

Next == \/ \E n \in Node : Settle(n) \/ CatchUp(n)
        \/ \E q \in Req : Refuse(q)

Spec == Init /\ [][Next]_vars
=============================================================================

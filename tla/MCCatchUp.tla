----------------------------- MODULE MCCatchUp -----------------------------
(* An instance of CatchUp for TLC.                                         *)
EXTENDS CatchUp

(* A behaviour is followed until something falls into a window.            *)
Bounded == spoiled = {}

(* For the counterexample to LogIsUpToDate.                                *)
BoundedBetween == spoiled \subseteq {"between"}

(* For the counterexample to NeverOlder.                                   *)
BoundedOwn == spoiled \subseteq {"own"}
=============================================================================

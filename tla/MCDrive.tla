------------------------------ MODULE MCDrive ------------------------------
(* Instances of Drive for TLC. *)
EXTENDS Drive

CONSTANTS a, b, d, e, x, y

(* A new user; a file and a folder with a file; a folder with a file and a *)
(* folder; two folders with a file of the same name.                       *)
Flat   == (<<>> :> <<<<a>>, <<d>>>>) @@ (<<a>> :> <<x>>)
            @@ (<<d>> :> <<Up, <<d, b>>>>) @@ (<<d, b>> :> <<y>>)
Nested == (<<>> :> <<<<d>>>>) @@ (<<d>> :> <<Up, <<d, a>>, <<d, e>>>>)
            @@ (<<d, a>> :> <<x>>) @@ (<<d, e>> :> <<Up>>)
Twice  == (<<>> :> <<<<d>>, <<e>>>>) @@ (<<d>> :> <<Up, <<d, a>>>>) @@ (<<d, a>> :> <<x>>)
            @@ (<<e>> :> <<Up, <<e, a>>>>) @@ (<<e, a>> :> <<y>>)

MCStart == {<<>>, Flat, Nested, Twice}

(* At most one thing befalls the drive.                                    *)
Bounded == Cardinality(spoiled) <= 1
=============================================================================

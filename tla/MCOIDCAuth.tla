------------------------------ MODULE MCOIDCAuth ------------------------------
(* Two browsers, two users of whom one is configured, in other spelling.   *)
EXTENDS OIDCAuth, TLC

MCEmail == [u \in User |-> IF u = "ann" THEN "Ann@X" ELSE "bob@x"]
MCLower(e) == IF e \in {"Ann@X", "ANN@x"} THEN "ann@x" ELSE e
(* The second login has no page of its own to return to. *)
MCReturnTo == <<{"/p"}, {"//foreign"}>>
Symmetric == Permutations(Browser)
=============================================================================

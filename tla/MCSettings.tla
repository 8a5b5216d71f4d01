----------------------------- MODULE MCSettings -----------------------------
(***************************************************************************)
(* A small instance of Settings: a number that is 1 or 2, a text and a     *)
(* list, all 1 in the environment.                                         *)
(***************************************************************************)
EXTENDS Settings

OneOrMore   == [k \in Key |-> IF k \in Numeric THEN 1 ELSE 0]
UpToTwo     == [k \in Key |-> IF k \in Numeric THEN 2 ELSE 3]
Environment == [k \in Key |-> 1]

=============================================================================

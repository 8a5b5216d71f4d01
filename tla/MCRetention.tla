----------------------------- MODULE MCRetention -----------------------------
(***************************************************************************)
(* Small instances of Retention: stories of one month and one reader.      *)
(* Times pass as steps, so that the order of jobs is any.                  *)
(***************************************************************************)
EXTENDS Retention, TLC

CONSTANTS s1, s2, a1

TwoStories   == {s1, s2}
OneAccount   == {a1}
None         == {}
TheSecond    == {s2}

SameMonth == [s \in Story |-> 1]

=============================================================================

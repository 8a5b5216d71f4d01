--------------------------- MODULE MCStoryIdentity ---------------------------
(***************************************************************************)
(* Small instances of StoryIdentity: one or two polls that list two items, *)
(* each under a link of its own that the page behind it corrects.          *)
(***************************************************************************)
EXTENDS StoryIdentity, TLC

CONSTANTS p1, p2, id1, id2, id3, id4, id5, i1, i2, u1, u2, u3, b1, b2

TwoPolls == {p1, p2}
OnePoll  == {p1}
ThreeIds == {id1, id2, id3}
FiveIds  == {id1, id2, id3, id4, id5}
AnyId    == Permutations(Id)

OneItem  == {i1}
TwoItems == {i1, i2}
None     == {}

Everything == [p \in Poll |-> Item]

At(u, b) == [url |-> u, body |-> b]

\* p1 lists both, p2 the second.
Overlapping == [p \in Poll |-> IF p = p1 THEN Item ELSE Item \ {i1}]

\* Two announcements under links of their own; both pages declare one address.
Apart    == [i \in Item |-> IF i = i1 THEN At(u1, b1) ELSE At(u3, b2)]
Resolved == [i \in Item |-> IF i = i1 THEN At(u2, b1) ELSE At(u2, b2)]

\* One page for every link.
Article  == [i \in Item |-> At(u2, b2)]
\* Two links that one page answers.
Links    == [i \in Item |-> IF i = i1 THEN At(u1, b1) ELSE At(u3, b1)]

=============================================================================

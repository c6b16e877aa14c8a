------------------------------- MODULE MCReview -------------------------------
(* Small instances of Review. *)
EXTENDS ReviewReading, TLC

CONSTANTS s1, s2, f1, f2, alice, bob, tab1, tab2, tab3, k1, k2, k3

OneSubmission == {s1}
OneFinding == {f1}
OneReviewer == {alice}
TwoReviewers == {alice, bob}
OneTab == {tab1}
ThreeTabs == {tab1, tab2, tab3}
OneCommand == {k1}
TwoCommands == {k1, k2}

\* alice owns the course and has up to two tabs; bob is an administrator.
UserOf == [c \in Sessions |-> IF c = tab3 THEN bob ELSE alice]
NoAdmins == {}
BobIsAdmin == {bob}

CommandSymmetry == Permutations(Commands)
===============================================================================

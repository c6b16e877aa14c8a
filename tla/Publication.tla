----------------------------- MODULE Publication -----------------------------
(***************************************************************************)
(* What a student is promised about the published results of a submission, *)
(* with drafts, approvals, commands and document states hidden: one result *)
(* is shown or none; what is shown never changes in place; a later result  *)
(* may take its place, an earlier one never comes back.  Review implements *)
(* this specification.                                                     *)
(***************************************************************************)
EXTENDS Naturals

CONSTANTS Submissions, Snapshots, Nothing

VARIABLES
    shown,   \* the result a student sees: version, number and content
    top      \* the version and number of the newest result ever published

publicationVars == <<shown, top>>

Results == [version : Nat, number : Nat, snapshot : Snapshots]

Later(p, q) == p[1] > q[1] \/ (p[1] = q[1] /\ p[2] > q[2])

Init ==
    /\ shown = [s \in Submissions |-> Nothing]
    /\ top = [s \in Submissions |-> <<0, 0>>]

\* A batch is shown as a whole.
Show(batch) ==
    /\ \A s \in batch : Later(top'[s], top[s])
    /\ \A s \in batch : \E c \in Snapshots :
          shown'[s] = [version |-> top'[s][1], number |-> top'[s][2], snapshot |-> c]
    /\ \A s \in Submissions \ batch : shown'[s] = shown[s] /\ top'[s] = top[s]

Withdraw(s) ==
    /\ shown[s] # Nothing
    /\ shown' = [shown EXCEPT ![s] = Nothing]
    /\ UNCHANGED top

Next ==
    \/ \E batch \in SUBSET Submissions : Show(batch)
    \/ \E s \in Submissions : Withdraw(s)

Spec == Init /\ [][Next]_publicationVars
==============================================================================

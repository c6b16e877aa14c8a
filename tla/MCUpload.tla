------------------------------- MODULE MCUpload -------------------------------
(* Small instances of Upload. *)
EXTENDS Upload, TLC

CONSTANTS fa, fb, fc, k1, k2, k3

ThreeFiles == {fa, fb, fc}
ThreeKeys == {k1, k2, k3}

\* fb could pass for fa by its size, fc could not.
SizeOf == [f \in Files |-> IF f = fc THEN 2 ELSE 1]

\* Requests are alike, and so are the two files of one size.
UploadSymmetry == {k @@ f : k \in Permutations(Keys), f \in Permutations({fa, fb})}
===============================================================================

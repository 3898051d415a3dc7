------------------------------ MODULE MCUpload ------------------------------
(* Small instances of the upload path.                                     *)
EXTENDS UploadSystem, TLC

CONSTANTS d1, d2, m, a

OneDir == {d1}
TwoDirs == {d1, d2}

TwoFiles == {m, a}
TwoSizes == (m :> 1) @@ (a :> 2)
OneEmpty == (m :> 2) @@ (a :> 0)
=============================================================================

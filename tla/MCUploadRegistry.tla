-------------------------- MODULE MCUploadRegistry --------------------------
(* Small instances of UploadRegistry for TLC. *)
EXTENDS UploadRegistry, TLC

CONSTANTS t1,        \* request thread
          r1, r2,    \* Dagster runs
          u1, u2     \* uploads

OneThread == {t1}

OneRun == {r1}
TwoRuns == {r1, r2}

OneUpload == {u1}
TwoUploads == {u1, u2}

RunSymmetry == Permutations(Runs)
=============================================================================

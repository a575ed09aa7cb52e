----------------------------- MODULE UploadMap -----------------------------
(***************************************************************************)
(* What the upload registry promises: a map from uploads to statuses, each *)
(* step of which changes one entry along the life of an upload.            *)
(***************************************************************************)
CONSTANT Uploads
VARIABLE records    \* the status of each upload, "absent" before it is recorded

\* The life of an upload: recorded, converted or failed, and from then on processed any
\* number of times.  The end of a run may be marked before, or instead of, 'processing'.
Follows ==
    {<<"absent", "uploaded">>}
    \union ({"uploaded"} \X {"converted", "failed"})
    \union ({"converted", "failed", "done", "processing"} \X {"processing", "done", "failed"})

Init == records = [u \in Uploads |-> "absent"]

Put(u, s) ==
    /\ <<records[u], s>> \in Follows
    /\ records' = [records EXCEPT ![u] = s]

Next == \E u \in Uploads, s \in {"uploaded", "converted", "processing", "done", "failed"} : Put(u, s)

Spec == Init /\ [][Next]_records
============================================================================

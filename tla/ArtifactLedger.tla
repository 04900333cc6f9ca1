--------------------------- MODULE ArtifactLedger ---------------------------
(***************************************************************************)
(* What the storage commands and the sync job promise of every artifact,   *)
(* with jobs, passes, budgets and crashes hidden: the life of a row of     *)
(* storage_objects, as the state machine of docs/02_HLD.md section 6.4 and *)
(* the code of storage/sync.ts, telegram/attachment_capture.ts and         *)
(* commands/forget.ts have it, and what each step of it requires of the    *)
(* bytes.  StorageSync.tla implements it.                                  *)
(***************************************************************************)

CONSTANT Artifact

VARIABLES
  status,    \* storage_objects.status of every row, "absent" before the insert
  captured,  \* the rows whose capture_status is "captured"
  promoted,  \* the rows whose retention_class is "long_term"
  local,     \* the artifacts whose bytes are on the disk
  stored     \* the artifacts whose bytes are in the bucket

ledger == <<status, captured, promoted, local, stored>>

Init ==
  /\ status = [o \in Artifact |-> "absent"]
  /\ captured = {} /\ promoted = {} /\ local = {} /\ stored = {}

Becomes(o, s) == status' = [status EXCEPT ![o] = s]

\* A file that is still to be fetched, or a snapshot with its bytes.
Arrive(o) ==
  /\ status[o] = "absent" /\ Becomes(o, "pending")
  /\ \/ promoted' \in {promoted, promoted \union {o}} /\ UNCHANGED <<captured, local>>
     \/ /\ promoted' = promoted \union {o}
        /\ captured' = captured \union {o} /\ local' = local \union {o}
  /\ UNCHANGED stored

Fetch(o) ==
  /\ status[o] = "pending" /\ o \notin captured
  /\ local' = local \union {o}
  /\ UNCHANGED <<status, captured, promoted, stored>>

Capture(o) ==
  /\ status[o] = "pending" /\ o \in local
  /\ captured' = captured \union {o}
  /\ UNCHANGED <<status, promoted, local, stored>>

\* Only what was captured can be saved, even if it is gone by now.
Promote(o) ==
  /\ o \in captured
  /\ promoted' = promoted \union {o}
  /\ UNCHANGED <<status, captured, local, stored>>

\* Only what was captured and is to be kept leaves the machine.
Due(o) == status[o] = "pending" /\ o \in captured \intersect promoted

Upload(o) ==
  /\ Due(o) /\ o \in local
  /\ stored' = stored \union {o}
  /\ UNCHANGED <<status, captured, promoted, local>>

Uploaded(o) ==
  /\ Due(o) /\ o \in stored /\ Becomes(o, "uploaded")
  /\ UNCHANGED <<captured, promoted, local, stored>>

\* The bucket may have the bytes all the same.
UploadFails(o) ==
  /\ Due(o) /\ Becomes(o, "failed")
  /\ stored' = stored \/ (o \in local /\ stored' = stored \union {o})
  /\ UNCHANGED <<captured, promoted, local>>

UploadAgain(o) ==
  /\ status[o] = "failed" /\ Becomes(o, "pending")
  /\ UNCHANGED <<captured, promoted, local, stored>>

\* Never a row that is gone, or is going.
Forget(o) ==
  /\ status[o] \in {"pending", "uploaded", "failed"} /\ Becomes(o, "deletion_requested")
  /\ UNCHANGED <<captured, promoted, local, stored>>

\* The bucket first, then the disk, and only then the row.
Remove(o) ==
  /\ status[o] = "deletion_requested"
  /\ stored' = stored \ {o}
  /\ UNCHANGED <<status, captured, promoted, local>>

Unlink(o) ==
  /\ status[o] = "deletion_requested" /\ o \notin stored
  /\ local' = local \ {o}
  /\ UNCHANGED <<status, captured, promoted, stored>>

Deleted(o) ==
  /\ status[o] = "deletion_requested" /\ o \notin stored \union local
  /\ Becomes(o, "deleted")
  /\ UNCHANGED <<captured, promoted, local, stored>>

DeleteFails(o) ==
  /\ status[o] = "deletion_requested" /\ Becomes(o, "delete_failed")
  /\ stored' \in {stored, stored \ {o}}
  /\ UNCHANGED <<captured, promoted, local>>

DeleteAgain(o) ==
  /\ status[o] = "delete_failed" /\ Becomes(o, "deletion_requested")
  /\ UNCHANGED <<captured, promoted, local, stored>>

Next ==
  \E o \in Artifact :
    \/ Arrive(o) \/ Fetch(o) \/ Capture(o) \/ Promote(o)
    \/ Upload(o) \/ Uploaded(o) \/ UploadFails(o) \/ UploadAgain(o)
    \/ Forget(o) \/ Remove(o) \/ Unlink(o) \/ Deleted(o)
    \/ DeleteFails(o) \/ DeleteAgain(o)

Spec == Init /\ [][Next]_ledger
=============================================================================

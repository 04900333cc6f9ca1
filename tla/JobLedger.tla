----------------------------- MODULE JobLedger -----------------------------
(***************************************************************************)
(* What the job queue promises, with the worker, the poller, the provider  *)
(* and the database hidden: the life of the rows of the jobs table, as the *)
(* state machine of docs/02_HLD.md section 6.2 and the code of             *)
(* queue/worker.ts, commands/cancel.ts and startup/recovery.ts have it.    *)
(* Worker.tla implements it.                                               *)
(***************************************************************************)
EXTENDS Naturals

CONSTANT JobId

VARIABLES
  status,   \* jobs.status of every row, "absent" before the row is inserted
  flipped   \* jobs already sent back once by the resume fallback

ledger == <<status, flipped>>

Terminal == {"succeeded", "failed", "cancelled", "interrupted"}
Status == {"absent", "queued", "running"} \union Terminal

Init ==
  /\ status = [j \in JobId |-> "absent"]
  /\ flipped = {}

Running == {j \in JobId : status[j] = "running"}

\* A row is inserted: by the poller, or by the worker for an auto summary.
Enqueue(j) ==
  /\ status[j] = "absent"
  /\ status' = [status EXCEPT ![j] = "queued"]
  /\ UNCHANGED flipped

\* The worker takes a queued job; concurrency is one.
Claim(j) ==
  /\ Running = {}
  /\ status[j] = "queued"
  /\ status' = [status EXCEPT ![j] = "running"]
  /\ UNCHANGED flipped

\* The worker records the job's end.
Finish(j) ==
  /\ status[j] = "running"
  /\ \E s \in {"succeeded", "failed", "cancelled"} :
        status' = [status EXCEPT ![j] = s]
  /\ UNCHANGED flipped

\* The resume fallback sends a running job back, once in the job's life.
Flip(j) ==
  /\ status[j] = "running"
  /\ j \notin flipped
  /\ status' = [status EXCEPT ![j] = "queued"]
  /\ flipped' = flipped \union {j}

\* /cancel on a job that waits.
CancelQueued(j) ==
  /\ status[j] = "queued"
  /\ status' = [status EXCEPT ![j] = "cancelled"]
  /\ UNCHANGED flipped

\* Boot: no job stays running across a restart.
Recover ==
  /\ \E back \in SUBSET Running :
        status' = [j \in JobId |-> IF j \in back THEN "queued"
                                   ELSE IF j \in Running THEN "interrupted"
                                   ELSE status[j]]
  /\ UNCHANGED flipped

Next ==
  \/ \E j \in JobId : \/ Enqueue(j)
                      \/ Claim(j)
                      \/ Finish(j)
                      \/ Flip(j)
                      \/ CancelQueued(j)
  \/ Recover

Spec == Init /\ [][Next]_ledger
=============================================================================

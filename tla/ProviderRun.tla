---------------------------- MODULE ProviderRun ----------------------------
(***************************************************************************)
(* What one run of the provider promises the worker (AgentOutcome and run  *)
(* of providers/types.ts, as runOneClaimed relies on them), with the       *)
(* process group, its pipes, its signals and the timers hidden: whether    *)
(* the CLI lives, when a cancel still counts and what is reported.         *)
(* Provider.tla implements it.                                             *)
(***************************************************************************)

VARIABLES
  place,   \* waiting: not spawned; listening: a cancel counts; settled: what
           \* will be reported is known; over: it was reported
  live,    \* the CLI runs
  asked,   \* the job was cancelled
  says     \* AgentOutcome.kind

run == <<place, live, asked, says>>

Init == place = "waiting" /\ live = FALSE /\ asked = FALSE /\ says = "none"

Start ==
  /\ place = "waiting"
  /\ place' = "listening" /\ live' = TRUE
  /\ UNCHANGED <<asked, says>>

\* There is no CLI, or one whose process group could not be recorded: the only
\* one that may outlive its run.
Refuse ==
  /\ place = "waiting"
  /\ place' = "over" /\ says' = "failed"
  /\ live' \in BOOLEAN
  /\ UNCHANGED asked

Exit ==
  /\ live
  /\ live' = FALSE
  /\ UNCHANGED <<place, asked, says>>

\* An exit or a limit settles the run; only a CLI that has left by itself can
\* have succeeded.
Settle ==
  /\ place = "listening"
  /\ place' = "settled"
  /\ says' = "failed" \/ (~live /\ says' = "succeeded")
  /\ UNCHANGED <<live, asked>>

\* A cancel settles the run, and counts for nothing at any other time.
Cancel ==
  /\ ~asked /\ asked' = TRUE
  /\ place # "over"
  /\ IF place = "listening"
       THEN place' = "settled" /\ says' = "cancelled"
       ELSE UNCHANGED <<place, says>>
  /\ UNCHANGED live

\* Nothing is reported before the CLI is dead.
Report ==
  /\ place = "settled" /\ ~live
  /\ place' = "over"
  /\ UNCHANGED <<live, asked, says>>

Next == Start \/ Refuse \/ Exit \/ Settle \/ Cancel \/ Report

Spec == Init /\ [][Next]_run
=============================================================================

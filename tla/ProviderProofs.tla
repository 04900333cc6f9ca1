--------------------------- MODULE ProviderProofs ---------------------------
(***************************************************************************)
(* Proofs about Provider, for any helpers, lines and limits.               *)
(*                                                                         *)
(* Placed ties the adapter's place to the processes: nothing was born      *)
(* before the spawn, the CLI is born after it, an exit that won the race   *)
(* is over.  It is what TypeOK, AnswerIsWhole, NotAbandoned and the        *)
(* refinement of ProviderRun rest on.                                      *)
(***************************************************************************)
EXTENDS Provider, TLAPS

Placed ==
  /\ pc = "start" => born = {} /\ winner = "none"
  /\ pc \notin {"start", "returned"} => Cli \in born
  /\ outcome = "succeeded" => Cli \in born
  /\ winner = "exit" => Cli \in born \ alive

IInv == TypeOK /\ Placed

Processes == \E p \in Procs : Process(p) \/ Kernel(p)

(* What processes do keeps the invariant.                                   *)
LEMMA ProcessType ==
  ASSUME IInv, Processes
  PROVE  IInv'
<1> USE ProviderAssumption
<1>1. ASSUME NEW p \in Procs, NEW h \in Helpers, Fork(p, h) PROVE IInv'
  BY <1>1 DEF IInv, TypeOK, Placed, Fork, Acts, Procs, Streams, adapter
<1>2. ASSUME NEW p \in Procs, NEW s \in Streams, Write(p, s) PROVE IInv'
  BY <1>2 DEF IInv, TypeOK, Placed, Write, Streams, adapter
<1>3. ASSUME NEW p \in Procs, NEW s \in Streams, Close(p, s) PROVE IInv'
  BY <1>3 DEF IInv, TypeOK, Placed, Close, Streams, adapter
<1>4. ASSUME NEW p \in Procs, p \in alive, NEW how \in {"zero", "nonzero"}, Dies(p, how)
      PROVE  IInv'
  BY <1>4 DEF IInv, TypeOK, Placed, Dies, Streams, adapter
<1> QED
  BY <1>1, <1>2, <1>3, <1>4
     DEF Processes, Process, Kernel, Exit, Terminated, Killed, Acts

(* What SIGTERM to the group changes, and what it leaves.                   *)
LEMMA TearDownType ==
  ASSUME IInv, NEW cause \in {"cancel"} \union Timeouts, TearDown(cause)
  PROVE  /\ pc' = "term" /\ winner' = cause /\ outcome' = outcome
         /\ termed' \subseteq group /\ doomed' = doomed
BY DEF TearDown, Group, IInv

(* Every step of the adapter keeps the invariant.                           *)
LEMMA AdapterType ==
  ASSUME IInv, Adapter \/ Timer \/ Cancel \/ CancelUnheard
  PROVE  IInv'
<1> USE ProviderAssumption
<1>1. ASSUME Spawned PROVE /\ pc = "start" /\ born = {} /\ code = "none" /\ outcome = "none"
  BY <1>1 DEF IInv, TypeOK, Placed, Spawned
<1>2. CASE Spawn
  BY <1>1, <1>2 DEF IInv, TypeOK, Placed, Spawn, Spawned, Procs, Pc, Streams
<1>3. CASE SpawnFails
  BY <1>3 DEF IInv, TypeOK, Placed, SpawnFails, Failed, Returns, Pc, procs
<1>4. CASE RecordFails
  BY <1>1, <1>4
     DEF IInv, TypeOK, Placed, RecordFails, Spawned, Failed, Returns, Procs, Pc, Streams
<1>5. ASSUME NEW s \in Streams, ReadLine(s) PROVE IInv'
  <2>1. /\ read' \in [Streams -> Nat]
        /\ \A t \in Streams : read'[t] <= written[t]
    BY <1>5 DEF ReadLine, IInv, TypeOK
  <2>2. CASE pc = "race" /\ TearDown("output")
    BY <1>5, <2>1, <2>2, TearDownType
       DEF ReadLine, IInv, TypeOK, Placed, Pc, Timeouts, TearDown, procs
  <2>3. CASE UNCHANGED <<termed, doomed, pc, winner, outcome>>
    BY <1>5, <2>1, <2>3 DEF ReadLine, IInv, TypeOK, Placed, procs
  <2> QED BY <1>5, <2>2, <2>3 DEF ReadLine
<1>6. CASE Timer
  BY <1>6, TearDownType
     DEF Timer, TimerUp, IInv, TypeOK, Placed, Pc, Timeouts, TearDown, procs
<1>7. CASE Cancel
  BY <1>7, TearDownType
     DEF Cancel, IInv, TypeOK, Placed, Pc, Timeouts, TearDown, procs
<1>8. CASE CancelUnheard
  BY <1>8 DEF CancelUnheard, IInv, TypeOK, Placed, procs
<1>9. CASE ExitSeen
  BY <1>9 DEF ExitSeen, IInv, TypeOK, Placed, Pc, procs
<1>10. CASE GraceOver
  BY <1>10 DEF GraceOver, Doom, Group, IInv, TypeOK, Placed, Pc, procs
<1>11. CASE TornDown
  BY <1>11 DEF TornDown, IInv, TypeOK, Placed, Pc, procs
<1>12. CASE GiveUp
  BY <1>12 DEF GiveUp, IInv, TypeOK, Placed, Pc, procs
<1>13. CASE Return
  <2>1. Verdict \in {"succeeded", "failed", "cancelled"}
    BY DEF Verdict
  <2> QED
    BY <1>13, <2>1 DEF Return, Returns, IInv, TypeOK, Placed, Pc, procs
<1> QED
  BY <1>2, <1>3, <1>4, <1>5, <1>6, <1>7, <1>8, <1>9, <1>10, <1>11, <1>12, <1>13 DEF Adapter

(* A step is the adapter's or a process's.                                  *)
LEMMA Split == Next <=> (Adapter \/ Timer \/ Cancel \/ CancelUnheard) \/ Processes
BY DEF Next, Processes

(* IInv is inductive.                                                      *)
LEMMA Inductive == Spec => []IInv
<1>1. Init => IInv
  <2> SUFFICES ASSUME Init PROVE IInv
    OBVIOUS
  <2>1. writers \in [Streams -> SUBSET born]
    BY DEF Init
  <2>2. /\ written \in [Streams -> Nat] /\ read \in [Streams -> Nat]
        /\ \A s \in Streams : read[s] <= written[s]
    BY DEF Init
  <2> QED BY <2>1, <2>2 DEF Init, IInv, TypeOK, Placed, Pc
<1>2. IInv /\ [Next]_vars => IInv'
  <2> SUFFICES ASSUME IInv, [Next]_vars PROVE IInv'
    OBVIOUS
  <2>1. CASE Next
    BY <2>1, Split, ProcessType, AdapterType
  <2>2. CASE UNCHANGED vars
    BY <2>2 DEF vars, procs, adapter, IInv, TypeOK, Placed
  <2> QED BY <2>1, <2>2
<1> QED BY <1>1, <1>2, PTL DEF Spec

(* Every state of the adapter, its pipes and its processes has its type,    *)
(* and a run has an outcome exactly when it returned (claude.ts:76-282).    *)
THEOREM TypeCorrect == Spec => []TypeOK
BY Inductive, PTL DEF IInv

-----------------------------------------------------------------------------
(* What holds once the adapter has returned or is about to.                *)

(* A pipe that was read to its end stays so: nobody who lives can write to  *)
(* it or hand it on.                                                       *)
Over(s) == Holders(s) = {} /\ read[s] = written[s]

LEMMA OverStays ==
  ASSUME IInv, NEW s \in Streams, Over(s), Processes
  PROVE  Over(s)'
<1> USE ProviderAssumption DEF Over, Holders, IInv, TypeOK
<1>1. ASSUME NEW p \in Procs, NEW h \in Helpers, Fork(p, h) PROVE Over(s)'
  BY <1>1 DEF Fork, Acts, adapter
<1>2. ASSUME NEW p \in Procs, NEW t \in Streams, Write(p, t) PROVE Over(s)'
  BY <1>2 DEF Write, Acts, adapter
<1>3. ASSUME NEW p \in Procs, NEW t \in Streams, Close(p, t) PROVE Over(s)'
  BY <1>3 DEF Close, adapter
<1>4. ASSUME NEW p \in Procs, NEW how \in {"zero", "nonzero"}, Dies(p, how) PROVE Over(s)'
  BY <1>4 DEF Dies, adapter
<1> QED
  BY <1>1, <1>2, <1>3, <1>4
     DEF Processes, Process, Kernel, Exit, Terminated, Killed, Acts

(* A CLI that is dead stays dead, with its exit code.                       *)
LEMMA DeadStaysDead ==
  ASSUME IInv, Cli \in born, Cli \notin alive, Processes
  PROVE  Cli \notin alive' /\ code' = code
<1> USE ProviderAssumption DEF IInv, TypeOK
<1>1. ASSUME NEW p \in Procs, NEW h \in Helpers, Fork(p, h) PROVE Cli \notin alive' /\ code' = code
  BY <1>1 DEF Fork
<1>2. ASSUME NEW p \in Procs, NEW t \in Streams, Write(p, t) \/ Close(p, t)
      PROVE  Cli \notin alive' /\ code' = code
  BY <1>2 DEF Write, Close
<1>3. ASSUME NEW p \in alive, NEW how \in {"zero", "nonzero"}, Dies(p, how)
      PROVE  Cli \notin alive' /\ code' = code
  BY <1>3 DEF Dies
<1> QED
  BY <1>1, <1>2, <1>3
     DEF Processes, Process, Kernel, Exit, Terminated, Killed, Acts

(* A process does not touch the adapter, and the adapter, when it does not  *)
(* spawn, does not touch the processes.                                    *)
LEMMA ProcessFrame == Processes => UNCHANGED adapter
BY DEF Processes, Process, Kernel, Fork, Write, Close, Exit, Terminated, Killed, Dies

(* An adapter that returned takes no step.                                  *)
LEMMA ReturnedRests ==
  ASSUME pc = "returned", Adapter \/ Timer \/ Cancel \/ CancelUnheard
  PROVE  FALSE
BY DEF Adapter, Timer, Cancel, CancelUnheard, TimerUp, TearDown, Spawn, SpawnFails,
       RecordFails, Spawned, ReadLine, ExitSeen, GraceOver, TornDown, GiveUp, Return

(* The step that returns: from the drain, or from the start.                *)
LEMMA Returning ==
  ASSUME IInv, pc # "returned", pc' = "returned",
         Adapter \/ Timer \/ Cancel \/ CancelUnheard
  PROVE  \/ Return
         \/ pc = "start" /\ Failed /\ winner' = "none" /\ (SpawnFails \/ RecordFails)
BY DEF Adapter, Timer, Cancel, CancelUnheard, TimerUp, TearDown, Spawn, SpawnFails,
       RecordFails, Spawned, ReadLine, ExitSeen, GraceOver, TornDown, GiveUp,
       IInv, Placed

-----------------------------------------------------------------------------
(* An answer is never cut short (claude.ts:238-281): a run that succeeded   *)
(* was read to the end of both pipes, and they stay ended.                 *)
THEOREM Whole == Spec => []AnswerIsWhole
<1>1. Init => AnswerIsWhole
  BY DEF Init, AnswerIsWhole
<1>2. IInv /\ AnswerIsWhole /\ [Next]_vars => AnswerIsWhole'
  <2> SUFFICES ASSUME IInv, AnswerIsWhole, [Next]_vars, outcome' = "succeeded"
               PROVE  code' = "zero" /\ \A s \in Streams : Over(s)'
    BY DEF AnswerIsWhole, Over, Holders
  <2>1. CASE Processes
    <3>1. outcome = "succeeded" /\ code = "zero" /\ \A s \in Streams : Over(s)
      BY <2>1, ProcessFrame DEF adapter, AnswerIsWhole, Over
    <3>2. Cli \in born /\ Cli \notin alive
      BY <3>1 DEF IInv, TypeOK
    <3> QED BY <2>1, <3>1, <3>2, OverStays, DeadStaysDead
  <2>2. CASE Adapter \/ Timer \/ Cancel \/ CancelUnheard
    <3>1. IInv'
      BY <2>2, AdapterType
    <3>2. pc' = "returned"
      BY <3>1 DEF IInv, TypeOK
    <3>3. Return
      BY <2>2, <3>2, ReturnedRests, Returning DEF Failed, Returns
    <3> QED
      BY <3>3 DEF Return, Returns, Verdict, Ended, Over, Holders, procs
  <2>3. CASE UNCHANGED vars
    BY <2>3 DEF vars, procs, adapter, AnswerIsWhole, Over, Holders
  <2> QED BY <2>1, <2>2, <2>3, Split
<1> QED BY <1>1, <1>2, Inductive, PTL DEF Spec

(* A run that got as far as its race does not leave its CLI behind          *)
(* (subprocess.ts:47-50, claude.ts:215-243).                               *)
THEOREM Kept == Spec => []NotAbandoned
<1>1. Init => NotAbandoned
  BY DEF Init, NotAbandoned
<1>2. IInv /\ NotAbandoned /\ [Next]_vars => NotAbandoned'
  <2> SUFFICES ASSUME IInv, NotAbandoned, [Next]_vars,
                      pc' = "returned", winner' # "none"
               PROVE  Cli \notin alive'
    BY DEF NotAbandoned
  <2>1. CASE Processes
    <3>1. pc = "returned" /\ Cli \notin alive
      BY <2>1, ProcessFrame DEF adapter, NotAbandoned
    <3>2. CASE Cli \in born
      BY <2>1, <3>1, <3>2, DeadStaysDead
    <3>3. CASE Cli \notin born
      BY <2>1, <3>1, <3>3, ProviderAssumption
         DEF Processes, Process, Kernel, Fork, Write, Close, Exit, Terminated, Killed, Dies
    <3> QED BY <3>2, <3>3
  <2>2. CASE Adapter \/ Timer \/ Cancel \/ CancelUnheard
    <3>1. CASE Return
      BY <3>1 DEF Return, Reaped, procs
    <3>2. CASE pc = "start" /\ winner' = "none"
      BY <3>2
    <3> QED BY <2>2, <3>1, <3>2, ReturnedRests, Returning
  <2>3. CASE UNCHANGED vars
    BY <2>3 DEF vars, procs, adapter, NotAbandoned
  <2> QED BY <2>1, <2>2, <2>3, Split
<1> QED BY <1>1, <1>2, Inductive, PTL DEF Spec

-----------------------------------------------------------------------------
(* Provider implements ProviderRun.                                        *)

(* While the worker waits for the report, what won the race tells it, and   *)
(* an exit that won has a code that changes no more.                       *)
LEMMA ProcessesRefine ==
  ASSUME IInv, Processes
  PROVE  [Run!Next]_(Run!run)
<1>1. UNCHANGED <<pc, winner, aborted, outcome>>
  BY ProcessFrame DEF adapter
<1>2. Place' = Place
  BY <1>1 DEF Place
<1>3. Verdict' = Verdict
  <2>1. winner = "exit" => Cli \in born /\ Cli \notin alive
    BY DEF IInv, Placed
  <2>2. winner = "exit" => code' = code
    BY <2>1, DeadStaysDead
  <2> QED
    BY <1>1, <2>2 DEF Verdict
<1>4. Says' = Says
  BY <1>1, <1>3 DEF Says
<1>5. Cli \in alive' => Cli \in alive \/ Cli \notin born
  BY ProviderAssumption
     DEF Processes, Process, Kernel, Fork, Write, Close, Exit, Terminated, Killed, Dies
<1>6. Cli \notin born => Cli \notin alive' /\ Cli \notin alive
  BY ProviderAssumption
     DEF Processes, Process, Kernel, Fork, Write, Close, Exit, Terminated, Killed, Dies, Acts,
         IInv, TypeOK
<1>7. CASE Cli \in alive /\ Cli \notin alive'
  BY <1>1, <1>2, <1>4, <1>7 DEF Run!Next, Run!Exit
<1>8. CASE (Cli \in alive') = (Cli \in alive)
  BY <1>1, <1>2, <1>4, <1>8 DEF Run!run
<1> QED
  BY <1>5, <1>6, <1>7, <1>8

(* What wins the race settles the run.                                     *)
LEMMA WinnerSettles ==
  ASSUME IInv, pc = "race", pc' \in {"term", "drain"}, UNCHANGED <<procs, aborted>>,
         winner' \in {"exit"} \union Timeouts, winner' = "exit" => Cli \notin alive
  PROVE  Run!Settle
<1>1. Place = "listening" /\ Place' = "settled"
  BY DEF Place
<1>2. Says' = "failed" \/ (Cli \notin alive /\ Says' = "succeeded")
  BY DEF Says, Verdict, Timeouts
<1> QED
  BY <1>1, <1>2 DEF Run!Settle, procs

LEMMA AdapterRefines ==
  ASSUME IInv, Adapter \/ Timer \/ Cancel \/ CancelUnheard
  PROVE  [Run!Next]_(Run!run)
<1>1. CASE Spawn
  <2>1. Place = "waiting" /\ Place' = "listening" /\ Says = "none" /\ Says' = "none"
        /\ Cli \in alive' /\ aborted' = aborted
    BY <1>1 DEF Spawn, Spawned, Place, Says
  <2> QED
    BY <2>1 DEF Run!Next, Run!Start
<1>2. CASE SpawnFails \/ RecordFails
  <2>1. Place = "waiting" /\ Place' = "over" /\ Says' = "failed" /\ aborted' = aborted
    BY <1>2 DEF SpawnFails, RecordFails, Spawned, Failed, Returns, Place, Says
  <2> QED
    BY <2>1 DEF Run!Next, Run!Refuse
<1>3. ASSUME UNCHANGED <<procs, aborted, outcome, winner>>,
             pc' = pc \/ {pc, pc'} \subseteq {"term", "kill", "drain"}
      PROVE  UNCHANGED Run!run
  <2>1. Place' = Place /\ Verdict' = Verdict
    BY <1>3 DEF Place, Verdict, procs
  <2>2. Says' = Says
    BY <1>3, <2>1 DEF Says
  <2> QED
    BY <1>3, <2>1, <2>2 DEF Run!run, procs
<1>4. ASSUME NEW cause \in Timeouts, TearDown(cause), UNCHANGED <<procs, aborted>> PROVE Run!Next
  <2>1. Run!Settle
    BY <1>4, WinnerSettles DEF TearDown, Timeouts
  <2> QED
    BY <2>1 DEF Run!Next
<1>5. ASSUME NEW s \in Streams, ReadLine(s) PROVE [Run!Next]_(Run!run)
  BY <1>3, <1>4, <1>5 DEF ReadLine, Timeouts
<1>6. CASE Timer
  BY <1>4, <1>6 DEF Timer, TimerUp, Timeouts
<1>7. CASE Cancel
  <2>1. /\ Place = "listening" /\ Place' = "settled" /\ Says' = "cancelled"
        /\ ~aborted /\ aborted' = TRUE /\ alive' = alive
    BY <1>7 DEF Cancel, TearDown, Place, Says, Verdict, procs
  <2> QED
    BY <2>1 DEF Run!Next, Run!Cancel
<1>8. CASE CancelUnheard
  <2>1. /\ Place # "listening" /\ Place # "over" /\ Place' = Place /\ Says' = Says
        /\ ~aborted /\ aborted' = TRUE /\ alive' = alive
    BY <1>8 DEF CancelUnheard, IInv, TypeOK, Pc, Place, Says, Verdict, procs
  <2> QED
    BY <2>1 DEF Run!Next, Run!Cancel
<1>9. CASE ExitSeen
  <2>1. Run!Settle
    BY <1>9, WinnerSettles DEF ExitSeen
  <2> QED
    BY <2>1 DEF Run!Next
<1>10. CASE GraceOver \/ TornDown \/ GiveUp
  BY <1>3, <1>10 DEF GraceOver, TornDown, GiveUp
<1>11. CASE Return
  <2>1. /\ Place = "settled" /\ Place' = "over" /\ Says = Verdict /\ Says' = Verdict
        /\ Cli \notin alive /\ UNCHANGED <<alive, aborted>>
    BY <1>11 DEF Return, Returns, Reaped, Place, Says, procs
  <2> QED
    BY <2>1 DEF Run!Next, Run!Report
<1> QED
  BY <1>1, <1>2, <1>5, <1>6, <1>7, <1>8, <1>9, <1>10, <1>11 DEF Adapter

(* Provider.tla does what ProviderRun.tla promises the worker: a cancel     *)
(* counts if and only if it comes during the race, what is reported is      *)
(* settled when the race is and not revised by what comes later, success is *)
(* the CLI's own exit, and nothing but a run whose group could not be       *)
(* recorded reports beside a CLI that lives (claude.ts:207-281).           *)
THEOREM Refinement == Spec => RefinesRun
<1>1. Init => Run!Init
  <2> SUFFICES ASSUME Init PROVE Run!Init
    OBVIOUS
  <2>1. Place = "waiting" /\ Says = "none" /\ Cli \notin alive /\ aborted = FALSE
    BY DEF Init, Place, Says
  <2> QED
    BY <2>1 DEF Run!Init
<1>2. IInv /\ [Next]_vars => [Run!Next]_(Run!run)
  <2> SUFFICES ASSUME IInv, [Next]_vars PROVE [Run!Next]_(Run!run)
    OBVIOUS
  <2>1. CASE UNCHANGED vars
    <3>1. Place' = Place /\ Verdict' = Verdict
      BY <2>1 DEF vars, procs, adapter, Place, Verdict
    <3>2. Says' = Says
      BY <2>1, <3>1 DEF vars, adapter, Says
    <3> QED
      BY <2>1, <3>1, <3>2 DEF vars, procs, adapter, Run!run
  <2> QED
    BY <2>1, Split, ProcessesRefine, AdapterRefines
<1> QED
  BY <1>1, <1>2, Inductive, PTL DEF Spec, Run!Spec, RefinesRun
=============================================================================

--------------------------- MODULE ServiceProofs ----------------------------
(***************************************************************************)
(* The gate's ledger across the upgrade, for any messages, any number of    *)
(* crashes and exceptions and any number of migrations.                    *)
(*                                                                         *)
(* What the guard has to achieve is AcrossUpgrade: from the moment it lets  *)
(* the new build pass, no job with a row of the old build is open, and a    *)
(* job that is settled stays so.                                           *)
(***************************************************************************)
EXTENDS Service, TLAPS

Row == [status : {"none", "queued", "running", "succeeded", "over", "interrupted"},
        attempts : 0 .. MaxAttempts, replay : BOOLEAN]
Rows == [unnamed : Nat, named : Nat]

(* A row as the type invariant wants it.                                   *)
Fit(r) ==
  /\ r \in Row
  /\ r.status \in {"none", "queued"} => r.attempts < MaxAttempts
  /\ r.status = "running" => r.attempts > 0

LEMMA Fitting ==
  /\ TypeOK => \A j \in Jobs : Fit(jobs[j])
  /\ jobs \in [Jobs -> Row] /\ (\A j \in Jobs : Fit(jobs[j])) =>
       /\ jobs \in [Jobs -> [status : {"none", "queued", "running", "succeeded", "over", "interrupted"},
                             attempts : 0 .. MaxAttempts, replay : BOOLEAN]]
       /\ \A j \in Jobs : /\ jobs[j].status \in {"none", "queued"} => jobs[j].attempts < MaxAttempts
                          /\ jobs[j].status = "running" => jobs[j].attempts > 0
  BY DEF TypeOK, Fit, Row

LEMMA InitTyped == Init => TypeOK
<1> SUFFICES ASSUME Init PROVE TypeOK
  OBVIOUS
<1>1. schema \in 0 .. OldFile + 1
  BY ServiceAssumption DEF Init
<1>2. MaxAttempts \in Nat /\ 0 < MaxAttempts /\ MaxCrashes \in Nat /\ MaxErrors \in Nat
  BY ServiceAssumption
<1>3. jobs \in [Jobs -> Row] /\ \A j \in Jobs : jobs[j].attempts = 0 /\ jobs[j].status = "none"
  BY <1>2 DEF Init, Unsent, Row
<1>4. gate \in [Jobs -> Rows] /\ faults \in [crashes : 0 .. MaxCrashes, errors : 0 .. MaxErrors]
  BY <1>2 DEF Init, Rows
<1> QED
  BY <1>1, <1>2, <1>3, <1>4 DEF Init, TypeOK, Row, Rows

LEMMA NoProcessTyped ==
  ASSUME TypeOK, NEW ph \in {"stopped", "failed"}, NoProcess(ph),
         UNCHANGED <<schema, build, jobs, gate, idleSeen>>,
         faults' \in [crashes : 0 .. MaxCrashes, errors : 0 .. MaxErrors]
  PROVE  TypeOK'
  BY DEF TypeOK, NoProcess

LEMMA FaultsTyped ==
  ASSUME TypeOK
  PROVE  /\ faults.errors < MaxErrors =>
              [faults EXCEPT !.errors = @ + 1] \in [crashes : 0 .. MaxCrashes, errors : 0 .. MaxErrors]
         /\ faults.crashes < MaxCrashes =>
              [faults EXCEPT !.crashes = @ + 1] \in [crashes : 0 .. MaxCrashes, errors : 0 .. MaxErrors]
<1>1. /\ faults \in [crashes : 0 .. MaxCrashes, errors : 0 .. MaxErrors]
      /\ MaxCrashes \in Nat /\ MaxErrors \in Nat
  BY ServiceAssumption DEF TypeOK
<1> QED
  BY <1>1

LEMMA BootTyped == ASSUME TypeOK, Boot \/ BootFails \/ Crash PROVE TypeOK'
<1>1. CASE Guard
  BY <1>1 DEF Guard, TypeOK
<1>2. CASE Migrate
  <2>1. schema + 1 \in 0 .. OldFile + 1
    BY <1>2, ServiceAssumption DEF Migrate, LastFile, TypeOK
  <2> QED
    BY <1>2, <2>1 DEF Migrate, process, TypeOK
<1>3. CASE Recover
  <2>1. ASSUME NEW j \in Jobs PROVE Fit(Recovered(j))
    <3>1. Fit(jobs[j])
      BY Fitting
    <3> QED
      BY <3>1 DEF Recovered, Fit, Row
  <2>2. jobs' = [j \in Jobs |-> Recovered(j)]
    BY <1>3 DEF Recover
  <2>3. jobs' \in [Jobs -> Row] /\ \A j \in Jobs : Fit(jobs'[j])
    BY <2>1, <2>2 DEF Fit
  <2>4. worker = "gone" /\ hand = Nobody
    BY <1>3 DEF Recover, TypeOK
  <2> QED
    BY <1>3, <2>3, <2>4 DEF Recover, TypeOK, Row, Fit
<1>4. CASE Restart
  BY <1>4 DEF Restart, TypeOK
<1>5. CASE BootFails
  BY <1>5, FaultsTyped, NoProcessTyped DEF BootFails
<1>6. CASE Crash
  BY <1>6, FaultsTyped, NoProcessTyped DEF Crash
<1> QED
  BY <1>1, <1>2, <1>3, <1>4, <1>5, <1>6 DEF Boot

LEMMA LoopsTyped == ASSUME TypeOK, Loops \/ LoopDies \/ Operator PROVE TypeOK'
<1>0. jobs \in [Jobs -> Row] /\ gate \in [Jobs -> Rows]
  BY DEF TypeOK, Row, Rows
<1>1. CASE RecordGate
  <2>1. hand \in Jobs
    BY <1>1 DEF RecordGate, TypeOK
  <2>2. Recorded(gate[hand]) \in Rows
    <3>1. gate[hand].unnamed + 1 \in Nat /\ gate[hand] \in Rows
      BY <1>0, <2>1 DEF Rows
    <3> QED
      BY <3>1 DEF Recorded, Rows
  <2> QED
    BY <1>0, <1>1, <2>1, <2>2 DEF RecordGate, TypeOK, Rows
<1>2. ASSUME NEW row, Fit(row), worker = "gated", Released(row)
      PROVE  TypeOK'
  <2>1. jobs' \in [Jobs -> Row] /\ \A j \in Jobs : Fit(jobs'[j])
    BY <1>0, <1>2, Fitting DEF Released, Fit
  <2>2. phase \in {"running", "stopping"}
    BY <1>2 DEF TypeOK
  <2> QED
    BY <1>2, <2>1, <2>2 DEF Released, TypeOK, Row, Fit
<1>3. CASE Finish
  <2>1. hand \in Jobs /\ worker = "gated"
    BY <1>3 DEF Finish, TypeOK
  <2>2. \A end \in {"succeeded", "over"} : Fit([jobs[hand] EXCEPT !.status = end])
    BY <1>0, <2>1 DEF Row, Fit
  <2> QED
    BY <1>2, <1>3, <2>1, <2>2 DEF Finish
<1>4. CASE FallBack
  <2>1. hand \in Jobs /\ worker = "gated"
    BY <1>4 DEF FallBack, TypeOK
  <2>2. jobs[hand].attempts \in 0 .. MaxAttempts /\ jobs[hand].attempts > 0 /\ MaxAttempts \in Nat
    BY <1>0, <1>4, <2>1, ServiceAssumption DEF FallBack, TypeOK, Row
  <2>3. Fit([status |-> "queued", attempts |-> jobs[hand].attempts - 1, replay |-> TRUE])
    BY <2>2 DEF Row, Fit
  <2> QED
    BY <1>2, <1>4, <2>1, <2>3 DEF FallBack
<1>5. CASE PollerEnds \/ Exit
  <2>1. CASE PollerEnds
    BY <2>1 DEF PollerEnds, TypeOK
  <2>2. CASE Exit
    BY <2>2 DEF Exit, TypeOK
  <2> QED
    BY <1>5, <2>1, <2>2
<1>6. CASE LoopDies
  BY <1>6, FaultsTyped DEF LoopDies, TypeOK
<1>7. CASE WorkerEnds
  <2>1. hand = Nobody /\ worker' = "gone"
    BY <1>7 DEF WorkerEnds, TypeOK
  <2> QED
    BY <1>7, <2>1 DEF WorkerEnds, TypeOK
<1>8. CASE Verify \/ Stop
  <2>1. CASE Verify
    BY <2>1 DEF Verify, process, TypeOK
  <2>2. CASE Stop
    BY <2>2 DEF Stop, TypeOK
  <2> QED
    BY <1>8, <2>1, <2>2
<1>9. CASE Deploy \/ GoBack
  <2>1. worker = "gone" /\ ~ polling /\ hand = Nobody
    BY <1>9 DEF Deploy, GoBack, TypeOK
  <2>2. /\ build' \in {"old", "new"} /\ phase' = "opening" /\ idleSeen' \in BOOLEAN
        /\ UNCHANGED <<schema, polling, worker, hand, jobs, gate, faults>>
    BY <1>9 DEF Deploy, GoBack, TypeOK
  <2> QED
    BY <2>1, <2>2 DEF TypeOK
<1> QED
  BY <1>1, <1>3, <1>4, <1>5, <1>6, <1>7, <1>8, <1>9 DEF Loops, Operator

LEMMA JobsTyped ==
  ASSUME TypeOK, NEW j \in Jobs, Arrive(j) \/ Claim(j)
  PROVE  TypeOK'
<1>0. jobs \in [Jobs -> Row] /\ \A k \in Jobs : Fit(jobs[k])
  BY Fitting DEF TypeOK, Row
<1>1. CASE Arrive(j)
  <2>1. Fit([jobs[j] EXCEPT !.status = "queued"])
    BY <1>0, <1>1 DEF Arrive, Fit, Row
  <2>2. jobs' = [jobs EXCEPT ![j] = [jobs[j] EXCEPT !.status = "queued"]]
    BY <1>0, <1>1 DEF Arrive
  <2>3. jobs' \in [Jobs -> Row] /\ \A k \in Jobs : Fit(jobs'[k])
    BY <1>0, <2>1, <2>2 DEF Fit
  <2>4. worker \in {"claimed", "gated"} => hand # j
    BY <1>1 DEF Arrive, TypeOK
  <2>5. worker \in {"claimed", "gated"} => jobs'[hand].status = "running"
    BY <1>0, <2>2, <2>4 DEF TypeOK
  <2> QED
    BY <1>1, <2>3, <2>5 DEF Arrive, process, TypeOK, Row, Fit
<1>2. CASE Claim(j)
  <2> DEFINE n == jobs[j].attempts + 1
  <2>1. n \in 0 .. MaxAttempts /\ n > 0
    BY <1>0, <1>2, ServiceAssumption DEF Claim, Fit, Row
  <2>2. jobs' = [jobs EXCEPT ![j] = [jobs[j] EXCEPT !.status = "running", !.attempts = n]]
    BY <1>0, <1>2 DEF Claim
  <2> HIDE DEF n
  <2>3. Fit([jobs[j] EXCEPT !.status = "running", !.attempts = n])
    BY <1>0, <2>1 DEF Fit, Row
  <2>4. jobs' \in [Jobs -> Row] /\ \A k \in Jobs : Fit(jobs'[k])
    BY <1>0, <2>2, <2>3 DEF Fit
  <2>5. jobs'[j].status = "running"
    BY <1>0, <2>2 DEF Row
  <2> QED
    BY <1>2, <2>4, <2>5 DEF Claim, TypeOK, Row, Fit
<1> QED
  BY <1>1, <1>2

LEMMA TypeStep == TypeOK /\ [Next]_vars => TypeOK'
<1> SUFFICES ASSUME TypeOK, [Next]_vars PROVE TypeOK'
  OBVIOUS
<1>1. CASE UNCHANGED vars
  BY <1>1 DEF vars, process, TypeOK
<1> QED
  BY <1>1, BootTyped, LoopsTyped, JobsTyped DEF Next

(* Every variable has its type, and no job is run without an attempt.      *)
THEOREM TypeCorrect == Spec => []TypeOK
  BY InitTyped, TypeStep, PTL DEF Spec

-----------------------------------------------------------------------------
(* The invariant.                                                          *)

HasRow(j) == gate[j].unnamed > 0 \/ gate[j].named > 0

(* The guard has let the new build pass.                                   *)
PastGuard == schema > OldFile \/ (build = "new" /\ phase = "migrating")

(* The loops run on the schema their build wants.                          *)
BuildFits ==
  /\ build = "old" => schema \in 1 .. OldFile
  /\ build = "new" /\ phase \in {"running", "stopping", "stopped"} => schema > OldFile

RowsFit(j) ==
  /\ gate[j].named <= 1
  /\ gate[j].named > 0 => gate[j].unnamed = 0 /\ schema > OldFile
  /\ jobs[j].status = "none" => ~ HasRow(j)
  /\ jobs[j].status = "succeeded" => HasRow(j)
  /\ schema = 0 => jobs[j].status = "none"
  /\ PastGuard /\ gate[j].unnamed > 0 => ~ Open(j)

AcrossUpgrade ==
  /\ BuildFits
  /\ \A j \in Jobs : RowsFit(j)
  /\ worker = "gated" => HasRow(hand)

LEMMA InitAcross == Init => AcrossUpgrade
  BY ServiceAssumption DEF Init, AcrossUpgrade, BuildFits, RowsFit, HasRow, PastGuard, Open, Unsent

LEMMA AcrossImpliesSound == TypeOK /\ AcrossUpgrade => GateRowsAreSound
<1> SUFFICES ASSUME TypeOK, AcrossUpgrade, NEW j \in Jobs
             PROVE  /\ gate[j].named <= 1
                    /\ gate[j].named = 1 => gate[j].unnamed = 0
                    /\ jobs[j].status = "succeeded" => gate[j].named + gate[j].unnamed > 0
  BY DEF GateRowsAreSound
<1>1. gate[j].named \in Nat /\ gate[j].unnamed \in Nat
  BY DEF TypeOK
<1> QED
  BY <1>1 DEF AcrossUpgrade, RowsFit, HasRow

(* A step that writes no row of the ledger, opens no job that was settled,  *)
(* and does not pass the guard.                                            *)
LEMMA QuietStep ==
  ASSUME TypeOK, AcrossUpgrade, BuildFits',
         gate' = gate, worker' = "gated" => worker = "gated" /\ hand' = hand,
         schema' = schema, PastGuard' => PastGuard,
         NEW J \in SUBSET Jobs,
         \A j \in Jobs \ J : jobs'[j] = jobs[j],
         \A j \in J : /\ schema > 0
                      /\ jobs[j].status = "none" \/ Open(j)
                      /\ jobs'[j].status # "none"
                      /\ jobs'[j].status = "succeeded" => HasRow(j)
  PROVE  AcrossUpgrade'
<1>1. ASSUME NEW j \in Jobs PROVE RowsFit(j)'
  <2>1. RowsFit(j) /\ gate[j].unnamed \in Nat /\ gate[j].named \in Nat
    BY DEF AcrossUpgrade, TypeOK
  <2>2. CASE j \notin J
    BY <2>1, <2>2 DEF RowsFit, HasRow, Open
  <2>3. CASE j \in J
    <3>1. schema > 0 /\ schema \in Nat
      BY <2>3, ServiceAssumption DEF TypeOK
    <3>2. PastGuard => gate[j].unnamed = 0
      BY <2>1, <2>3 DEF RowsFit, HasRow
    <3>3. jobs'[j].status # "none" /\ (jobs'[j].status = "succeeded" => HasRow(j))
      BY <2>3
    <3> QED
      BY <2>1, <3>1, <3>2, <3>3 DEF RowsFit, HasRow, Open
  <2> QED
    BY <2>2, <2>3
<1>2. worker' = "gated" => HasRow(hand)'
  BY DEF AcrossUpgrade, HasRow
<1> QED
  BY <1>1, <1>2 DEF AcrossUpgrade

LEMMA SilentStep ==
  ASSUME TypeOK, AcrossUpgrade, BuildFits',
         gate' = gate, worker' = "gated" => worker = "gated" /\ hand' = hand,
         schema' = schema, PastGuard' => PastGuard, jobs' = jobs
  PROVE  AcrossUpgrade'
<1>1. {} \in SUBSET Jobs
  OBVIOUS
<1> QED
  BY <1>1, QuietStep

LEMMA AcrossStep == TypeOK /\ TypeOK' /\ AcrossUpgrade /\ [Next]_vars => AcrossUpgrade'
<1> SUFFICES ASSUME TypeOK, TypeOK', AcrossUpgrade, [Next]_vars PROVE AcrossUpgrade'
  OBVIOUS
<1>0. /\ OldFile \in Nat /\ OldFile > 0 /\ schema \in Nat /\ BuildFits
      /\ gate \in [Jobs -> Rows] /\ jobs \in [Jobs -> Row]
  BY ServiceAssumption DEF TypeOK, AcrossUpgrade, Rows, Row
<1>n. worker # "gone" \/ polling => phase \in {"running", "stopping"} /\ schema > 0
  BY <1>0 DEF TypeOK, BuildFits
<1>1. CASE UNCHANGED vars \/ Verify \/ Stop \/ PollerEnds \/ WorkerEnds \/ LoopDies \/ Exit
  <2>1. /\ UNCHANGED <<schema, build, jobs, gate>>
        /\ \/ phase' = phase
           \/ phase \in {"running", "stopping"} /\ phase' \in {"stopping", "stopped"}
        /\ worker' = "gated" => worker = "gated" /\ hand' = hand
    BY <1>1 DEF vars, process, Verify, Stop, PollerEnds, WorkerEnds, LoopDies, Exit
  <2>2. BuildFits' /\ (PastGuard' => PastGuard)
    BY <1>0, <2>1 DEF BuildFits, PastGuard
  <2> QED
    BY <2>1, <2>2, SilentStep
<1>2. CASE Restart \/ BootFails \/ Crash
  <2>1. /\ UNCHANGED <<schema, build, jobs, gate>> /\ worker' # "gated"
        /\ \/ phase' \in {"opening", "failed"}
           \/ phase' = "stopped" /\ phase = "stopping"
    BY <1>2 DEF Restart, BootFails, Crash, NoProcess, TypeOK
  <2> QED
    BY <1>0, <2>1, SilentStep DEF BuildFits, PastGuard
<1>3. CASE Deploy \/ GoBack
  <2>1. /\ UNCHANGED <<schema, jobs, gate>> /\ worker' # "gated" /\ phase' = "opening"
        /\ build' = "old" => schema \in 1 .. OldFile
    BY <1>3 DEF Deploy, GoBack, Refuses, TypeOK
  <2> QED
    BY <1>0, <2>1, SilentStep DEF BuildFits, PastGuard
<1>4. CASE Guard
  <2>1. /\ UNCHANGED <<schema, build, jobs, gate>> /\ worker' # "gated"
        /\ phase' \in {"failed", "migrating"} /\ BuildFits'
    BY <1>0, <1>4 DEF Guard, TypeOK, BuildFits
  <2>2. ASSUME PastGuard', ~ PastGuard, NEW j \in Jobs, gate[j].unnamed > 0
        PROVE  ~ Open(j)
    <3>1. build = "new" /\ ~ Refuses /\ schema <= OldFile
      BY <1>0, <1>4, <2>1, <2>2 DEF Guard, PastGuard
    <3>2. CASE schema = 0
      BY <3>2, <2>2 DEF AcrossUpgrade, RowsFit, HasRow
    <3>3. CASE Pending = {}
      BY <3>3 DEF Pending
    <3> QED
      BY <1>0, <3>1, <3>2, <3>3 DEF Refuses
  <2>3. ASSUME NEW j \in Jobs PROVE RowsFit(j)'
    BY <2>1, <2>2 DEF AcrossUpgrade, RowsFit, HasRow, Open
  <2> QED
    BY <2>1, <2>3 DEF AcrossUpgrade
<1>5. CASE Migrate
  <2>1. /\ UNCHANGED <<build, process, jobs, gate>> /\ phase = "migrating"
        /\ schema' = schema + 1 /\ schema < LastFile /\ worker # "gated"
    BY <1>5 DEF Migrate, process, TypeOK
  <2>2. BuildFits'
    BY <1>0, <2>1 DEF BuildFits, LastFile, process
  <2>3. PastGuard' => PastGuard
    BY <1>0, <2>1 DEF PastGuard, LastFile, process, TypeOK
  <2>4. ASSUME NEW j \in Jobs PROVE RowsFit(j)'
    BY <1>0, <2>1, <2>3 DEF AcrossUpgrade, RowsFit, HasRow, Open
  <2> QED
    BY <2>1, <2>2, <2>4 DEF AcrossUpgrade, process
<1>6. CASE Recover
  <2>1. /\ UNCHANGED <<schema, build, gate>> /\ worker' # "gated" /\ phase' = "running"
        /\ phase = "migrating" /\ schema >= LastFile
    BY <1>6 DEF Recover
  <2>2. BuildFits'
    BY <1>0, <2>1 DEF BuildFits, LastFile
  <2> DEFINE J == {j \in Jobs : jobs[j].status = "running"}
  <2>3. \A j \in Jobs \ J : jobs'[j] = jobs[j]
    BY <1>6 DEF Recover, Recovered
  <2>4. \A j \in J : Open(j) /\ jobs'[j].status \in {"queued", "interrupted"}
    BY <1>0, <1>6 DEF Recover, Recovered, Open, Row
  <2>5. \A j \in J : schema > 0
    BY <1>0 DEF AcrossUpgrade, RowsFit
  <2> HIDE DEF J
  <2>6. J \in SUBSET Jobs
    BY DEF J
  <2> QED
    BY <1>0, <2>1, <2>2, <2>3, <2>4, <2>5, <2>6, QuietStep DEF PastGuard
<1>7. ASSUME NEW j \in Jobs, Arrive(j) \/ Claim(j)
      PROVE  AcrossUpgrade'
  <2>1. /\ UNCHANGED <<schema, build, phase, gate>>
        /\ worker' = "gated" => worker = "gated" /\ hand' = hand
        /\ jobs[j].status \in {"none", "queued"}
        /\ jobs' = [jobs EXCEPT ![j] = jobs'[j]] /\ jobs'[j].status \in {"queued", "running"}
    BY <1>0, <1>7 DEF Arrive, Claim, process, Row
  <2>2. schema > 0
    BY <1>n, <1>7 DEF Arrive, Claim
  <2>3. \A k \in Jobs \ {j} : jobs'[k] = jobs[k]
    BY <1>0, <2>1
  <2>4. \A k \in {j} : /\ schema > 0 /\ (jobs[k].status = "none" \/ Open(k))
                      /\ jobs'[k].status # "none" /\ (jobs'[k].status = "succeeded" => HasRow(k))
    BY <2>1, <2>2 DEF Open
  <2>5. BuildFits' /\ (PastGuard' => PastGuard)
    BY <1>0, <2>1 DEF BuildFits, PastGuard
  <2>6. {j} \in SUBSET Jobs
    OBVIOUS
  <2> QED
    BY <2>1, <2>3, <2>4, <2>5, <2>6, QuietStep
<1>8. CASE Finish \/ FallBack
  <2>1. PICK row : Released(row) /\ worker = "gated" /\ row.status \in {"succeeded", "over", "queued"}
    <3>1. hand \in Jobs
      BY <1>8 DEF Finish, FallBack, TypeOK
    <3>2. CASE Finish
      <4>1. PICK end \in {"succeeded", "over"} : Released([jobs[hand] EXCEPT !.status = end])
        BY <3>2 DEF Finish
      <4>2. [jobs[hand] EXCEPT !.status = end].status = end
        BY <1>0, <3>1 DEF Row
      <4> QED
        BY <3>2, <4>1, <4>2 DEF Finish
    <3>3. CASE FallBack
      BY <3>3 DEF FallBack
    <3> QED
      BY <1>8, <3>2, <3>3
  <2>2. hand \in Jobs /\ Open(hand) /\ HasRow(hand) /\ schema > 0
    BY <1>n, <2>1 DEF TypeOK, Open, AcrossUpgrade
  <2>3. /\ UNCHANGED <<schema, build, phase, gate>> /\ worker' # "gated"
        /\ jobs' = [jobs EXCEPT ![hand] = row]
    BY <2>1 DEF Released
  <2>4. jobs'[hand] = row /\ \A j \in Jobs \ {hand} : jobs'[j] = jobs[j]
    BY <1>0, <2>2, <2>3
  <2>5. {hand} \in SUBSET Jobs
    BY <2>2
  <2>6. \A k \in {hand} : /\ schema > 0 /\ (jobs[k].status = "none" \/ Open(k))
                         /\ jobs'[k].status # "none" /\ (jobs'[k].status = "succeeded" => HasRow(k))
    BY <2>1, <2>2, <2>4
  <2>7. BuildFits' /\ (PastGuard' => PastGuard)
    BY <1>0, <2>3 DEF BuildFits, PastGuard
  <2> QED
    BY <2>3, <2>4, <2>5, <2>6, <2>7, QuietStep
<1>9. CASE RecordGate
  <2>1. hand \in Jobs /\ Open(hand) /\ UNCHANGED <<schema, build, phase, hand, jobs>>
    BY <1>9 DEF RecordGate, TypeOK, Open
  <2>2. gate' = [gate EXCEPT ![hand] = Recorded(gate[hand])] /\ gate[hand] \in Rows
    BY <1>0, <1>9, <2>1 DEF RecordGate
  <2>3. gate'[hand] = Recorded(gate[hand]) /\ \A j \in Jobs \ {hand} : gate'[j] = gate[j]
    BY <1>0, <2>1, <2>2
  <2>4. phase \in {"running", "stopping"} /\ schema > 0
    BY <1>n, <1>9 DEF RecordGate
  <2>5. RowsFit(hand)
    BY <2>1 DEF AcrossUpgrade
  <2>6. BuildFits' /\ (PastGuard' <=> PastGuard)
    BY <1>0, <2>1 DEF BuildFits, PastGuard
  <2>7. HasRow(hand)' /\ RowsFit(hand)'
    <3>1. CASE build = "old"
      <4>1. schema <= OldFile /\ ~ PastGuard
        BY <1>0, <2>4, <3>1 DEF BuildFits, PastGuard
      <4>2. gate[hand].named = 0
        BY <1>0, <2>2, <2>5, <4>1 DEF RowsFit, Rows
      <4>3. gate'[hand].unnamed > 0 /\ gate'[hand].named = 0
        BY <2>2, <2>3, <3>1, <4>2 DEF Recorded, Rows
      <4> QED
        BY <2>1, <2>4, <2>6, <4>1, <4>3 DEF RowsFit, HasRow, Open
    <3>2. CASE build # "old"
      <4>1. schema > OldFile /\ PastGuard
        BY <1>0, <2>4, <3>2 DEF BuildFits, PastGuard, TypeOK
      <4>2. gate[hand].unnamed = 0 /\ gate[hand].named \in {0, 1}
        BY <2>1, <2>2, <2>5, <4>1 DEF RowsFit, Rows
      <4>3. gate'[hand].unnamed = 0 /\ gate'[hand].named = 1
        BY <2>2, <2>3, <3>2, <4>2 DEF Recorded, Rows
      <4> QED
        BY <2>1, <2>4, <4>1, <4>3 DEF RowsFit, HasRow, Open
    <3> QED
      BY <3>1, <3>2
  <2>8. ASSUME NEW j \in Jobs, j # hand PROVE RowsFit(j)'
    BY <2>1, <2>3, <2>6, <2>8 DEF AcrossUpgrade, RowsFit, HasRow, Open
  <2> QED
    BY <2>1, <2>6, <2>7, <2>8 DEF AcrossUpgrade
<1> QED
  BY <1>1, <1>2, <1>3, <1>4, <1>5, <1>6, <1>7, <1>8, <1>9 DEF Next, Boot, Loops, Operator

(* However often the process is killed and a job is run again, and whenever *)
(* the build is replaced, the ledger that nothing can correct has at most   *)
(* one row that names a job, none of a job the old build wrote for, and one *)
(* for each run that succeeded.                                            *)
THEOREM OneGateRow == Spec => []GateRowsAreSound
<1>1. Init => TypeOK /\ AcrossUpgrade
  BY InitTyped, InitAcross
<1>2. TypeOK /\ AcrossUpgrade /\ [Next]_vars => TypeOK' /\ AcrossUpgrade'
  BY TypeStep, AcrossStep
<1> QED
  BY <1>1, <1>2, AcrossImpliesSound, PTL DEF Spec
=============================================================================

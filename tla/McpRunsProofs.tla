---------------------------- MODULE McpRunsProofs ----------------------------
(***************************************************************************)
(* Theorems about McpRuns, for any number of runs, retries and stops.      *)
(*                                                                         *)
(* Two invariants carry them.  HoldsInv: from the moment a GPU run's       *)
(* supervisor has the lease until it gives it up the lease is its, and a   *)
(* job nobody told to stop runs only inside that stretch.  OutcomeInv      *)
(* follows one run's verdict from the loop to the supervisor's copy of the *)
(* record and from there to meta.json, past the other writers of the file. *)
(***************************************************************************)
EXTENDS McpRuns, TLAPS

\* The stretch of supervise() between acquire_lease and release_lease.
Leased == {"held", "attempt", "filling", "popen", "born", "noting", "filling2", "wait",
           "ending", "judge", "nap", "final", "filling3", "release"}

LeaseHeld == \A r \in Runs : Gpu(r) /\ sup[r] \in Leased => lease = r

JobInside ==
  \A r \in Runs :
    Running(r) /\ ~told[r] => sup[r] \in {"born", "noting", "filling2", "wait"}

\* Nothing of a run exists before its supervisor does.
NotBegun ==
  \A r \in Runs : launcher[r] \in {"none", "created"} => sup[r] = "off" /\ tries[r] = 0

HoldsInv == TypeOK /\ NotBegun /\ LeaseHeld /\ JobInside

\* Only SIGTERM makes a supervisor end its job.
EndingTold == \A r \in Runs : sup[r] = "ending" => told[r]

WithinRetries == \A r \in Runs : tries[r] <= retries[r] + 1

LoopIsOver ==
  \A r \in Runs :
    sup[r] = "final" /\ ~told[r] => rc[r] = "ok" \/ tries[r] = retries[r] + 1

\* What a terminal status says of the run.
TrueOf(r, status) ==
  /\ status = "completed" => rc[r] = "ok"
  /\ status = "failed" => rc[r] = "bad" /\ tries[r] = retries[r] + 1

Terminal == {"completed", "failed"}

CopyIsTrue ==
  \A r \in Runs : mine[r].status \in Terminal =>
    sup[r] \in {"filling3", "release", "gone"} /\ TrueOf(r, mine[r].status)

FileIsTrue ==
  \A r \in Runs : meta[r].status \in Terminal =>
    sup[r] \in {"release", "gone"} /\ TrueOf(r, meta[r].status)

VerdictInv ==
  NotBegun /\ EndingTold /\ WithinRetries /\ LoopIsOver /\ CopyIsTrue /\ FileIsTrue

OutcomeInv == TypeOK /\ VerdictInv

-----------------------------------------------------------------------------
(* What two operators of the model return.                                 *)

\* Writing a status into a record, or into what an unreadable one left, makes a
\* record.
LEMMA Restated ==
  ASSUME NEW m \in Metas, NEW s \in Status
  PROVE  [m EXCEPT !.status = s] \in Metas
  <1>1. CASE m \in Record
    BY <1>1 DEF Metas, Record
  <1>2. CASE m = NoFile
    BY <1>2 DEF Metas, Record, NoFile
  <1>3. QED
    BY <1>1, <1>2 DEF Metas

\* A stop() call goes on with the record it read.
LEMMA StopperMoves ==
  ASSUME NEW c \in [at : {"none", "read", "killed", "filling"}, copy : Metas],
         NEW p \in {"none", "read", "killed", "filling"}
  PROVE  [c EXCEPT !.at = p] \in [at : {"none", "read", "killed", "filling"}, copy : Metas]
  OBVIOUS

\* SIGTERM leaves a supervisor ending its job, recording, or dead; it waits for
\* the job only where the job has a name.
LEMMA TermPlaces ==
  ASSUME NEW p \in Places
  PROVE  /\ AfterTerm(p) \in {"ending", "final", "gone"}
         /\ AfterTerm(p) = "ending" => p \in {"noting", "filling2", "wait"}
         /\ AfterTerm(p) = "final" =>
              p \in {"attempt", "filling", "popen", "born", "judge", "nap", "ending"}
         /\ p \in {"off", "gone", "filling3", "release"} => AfterTerm(p) = "gone"
  BY DEF AfterTerm, Places

-----------------------------------------------------------------------------
(* Every variable keeps its type.                                          *)

LEMMA TypesInit == Init => TypeOK
  BY RunsAssumption DEF Init, TypeOK, Metas, NoFile, Places

LEMMA TypesNext == TypeOK /\ [Next]_vars => TypeOK'
  <1> SUFFICES ASSUME TypeOK, [Next]_vars
               PROVE  TypeOK'
    OBVIOUS
  <1> USE RunsAssumption DEF TypeOK, Metas, Record, NoFile, Status, Places, Step,
      First, Running
  <1>1. ASSUME NEW r \in Runs, Launch(r) PROVE TypeOK'
    BY <1>1 DEF Launch, First
  <1>2. ASSUME NEW r \in Runs, StartSupervisor(r) PROVE TypeOK'
    BY <1>2 DEF StartSupervisor
  <1>3. ASSUME NEW r \in Runs, LauncherTruncates(r) PROVE TypeOK'
    BY <1>3 DEF LauncherTruncates
  <1>4. ASSUME NEW r \in Runs, LauncherFills(r) PROVE TypeOK'
    BY <1>4 DEF LauncherFills, First
  <1>5. ASSUME NEW r \in Runs, ReadMeta(r) PROVE TypeOK'
    BY <1>5 DEF ReadMeta
  <1>6. ASSUME NEW r \in Runs, TakeLease(r) PROVE TypeOK'
    BY <1>6 DEF TakeLease
  <1>7. ASSUME NEW r \in Runs, Defer(r) PROVE TypeOK'
    <2>1. [mine[r] EXCEPT !.status = "deferred"] \in Metas
      BY Restated DEF Outcome
    <2>2. mine' = [mine EXCEPT ![r] = [mine[r] EXCEPT !.status = "deferred"]]
      BY <1>7 DEF Defer
    <2>3. mine' \in [Runs -> Metas]
      BY <2>1, <2>2
    <2>4. QED
      BY <1>7, <2>3 DEF Defer
  <1>8. ASSUME NEW r \in Runs, DeferFills(r) PROVE TypeOK'
    BY <1>8 DEF DeferFills
  <1>9. ASSUME NEW r \in Runs, NoCommand(r) PROVE TypeOK'
    BY <1>9 DEF NoCommand, Freed
  <1>10. ASSUME NEW r \in Runs, Arm(r) PROVE TypeOK'
    BY <1>10 DEF Arm
  <1>11. ASSUME NEW r \in Runs, Attempt(r) PROVE TypeOK'
    <2>1. [mine[r] EXCEPT !.status = "running"] \in Metas
      BY Restated DEF Outcome
    <2>2. mine' = [mine EXCEPT ![r] = [mine[r] EXCEPT !.status = "running"]]
      BY <1>11 DEF Attempt
    <2>3. mine' \in [Runs -> Metas]
      BY <2>1, <2>2
    <2>4. QED
      BY <1>11, <2>3 DEF Attempt
  <1>12. ASSUME NEW r \in Runs, AttemptFills(r) PROVE TypeOK'
    BY <1>12 DEF AttemptFills
  <1>13. ASSUME NEW r \in Runs, Popen(r) PROVE TypeOK'
    BY <1>13 DEF Popen
  <1>14. ASSUME NEW r \in Runs, NameJob(r) PROVE TypeOK'
    BY <1>14 DEF NameJob
  <1>15. ASSUME NEW r \in Runs, NoteJob(r) PROVE TypeOK'
    BY <1>15 DEF NoteJob
  <1>16. ASSUME NEW r \in Runs, NoteFills(r) PROVE TypeOK'
    BY <1>16 DEF NoteFills
  <1>17. ASSUME NEW r \in Runs, Reap(r) PROVE TypeOK'
    BY <1>17 DEF Reap
  <1>18. ASSUME NEW r \in Runs, Judge(r) PROVE TypeOK'
    BY <1>18 DEF Judge
  <1>19. ASSUME NEW r \in Runs, Wake(r) PROVE TypeOK'
    BY <1>19 DEF Wake
  <1>20. ASSUME NEW r \in Runs, StopWaitEnds(r) PROVE TypeOK'
    BY <1>20 DEF StopWaitEnds
  <1>21. ASSUME NEW r \in Runs, RecordOutcome(r) PROVE TypeOK'
    <2>1. [mine[r] EXCEPT !.status = Outcome(r)] \in Metas
      BY Restated DEF Outcome
    <2>2. mine' = [mine EXCEPT ![r] = [mine[r] EXCEPT !.status = Outcome(r)]]
      BY <1>21 DEF RecordOutcome
    <2>3. mine' \in [Runs -> Metas]
      BY <2>1, <2>2
    <2>4. QED
      BY <1>21, <2>3 DEF RecordOutcome
  <1>22. ASSUME NEW r \in Runs, OutcomeFills(r) PROVE TypeOK'
    BY <1>22 DEF OutcomeFills
  <1>23. ASSUME NEW r \in Runs, ReleaseLease(r) PROVE TypeOK'
    BY <1>23 DEF ReleaseLease, Freed
  <1>24. ASSUME NEW r \in Runs, GuardRefuses(r) PROVE TypeOK'
    BY <1>24 DEF GuardRefuses
  <1>25. ASSUME NEW r \in Runs, GuardPasses(r) PROVE TypeOK'
    BY <1>25 DEF GuardPasses
  <1>26. ASSUME NEW r \in Runs, JobEnds(r) PROVE TypeOK'
    BY <1>26 DEF JobEnds
  <1>27. ASSUME NEW r \in Runs, StopReads(r) PROVE TypeOK'
    BY <1>27 DEF StopReads
  <1>28. ASSUME NEW r \in Runs, StopKills(r) PROVE TypeOK'
    <2>1. sup' \in [Runs -> Places]
      <3>1. AfterTerm(sup[r]) \in {"ending", "final", "gone"}
        BY TermPlaces
      <3>2. QED
        BY <1>28, <3>1 DEF StopKills
    <2>2. lease' \in Runs \cup {Nobody, Other}
      BY <1>28 DEF StopKills, Freed
  <2>3. stopper' \in [Runs -> [at : {"none", "read", "killed", "filling"}, copy :
      Metas]]
      <3> HIDE DEF Metas
      <3>1. stopper' = [stopper EXCEPT ![r] = [stopper[r] EXCEPT !.at = "killed"]]
        BY <1>28 DEF StopKills
      <3>2. QED
        BY <3>1, StopperMoves
    <2>4. QED
      BY <1>28, <2>1, <2>2, <2>3 DEF StopKills
  <1>29. ASSUME NEW r \in Runs, StopFails(r) PROVE TypeOK'
    BY <1>29 DEF StopFails
  <1>30. ASSUME NEW r \in Runs, StopTruncates(r) PROVE TypeOK'
  <2>1. stopper' \in [Runs -> [at : {"none", "read", "killed", "filling"}, copy :
      Metas]]
      <3> HIDE DEF Metas
      <3>1. stopper' = [stopper EXCEPT ![r] = [stopper[r] EXCEPT !.at = "filling"]]
        BY <1>30 DEF StopTruncates
      <3>2. QED
        BY <3>1, StopperMoves
    <2>2. QED
      BY <1>30, <2>1 DEF StopTruncates
  <1>31. ASSUME NEW r \in Runs, StopFills(r) PROVE TypeOK'
    <2>1. [stopper[r].copy EXCEPT !.status = "stopped"] \in Metas
      BY Restated
    <2>2. meta' \in [Runs -> Metas]
      BY <1>31, <2>1 DEF StopFills
    <2>3. QED
      BY <1>31, <2>2 DEF StopFills
  <1>32. CASE OtherTakes
    BY <1>32 DEF OtherTakes
  <1>33. CASE OtherGives
    BY <1>33 DEF OtherGives
  <1>34. CASE UNCHANGED vars
    BY <1>34 DEF vars
  <1> HIDE DEF TypeOK, Metas, Record, NoFile, Status, Places, Step, First, Running
  <1>35. QED
    BY <1>1, <1>2, <1>3, <1>4, <1>5, <1>6, <1>7, <1>8, <1>9, <1>10, <1>11,
       <1>12, <1>13, <1>14, <1>15, <1>16, <1>17, <1>18, <1>19, <1>20, <1>21,
       <1>22, <1>23, <1>24, <1>25, <1>26, <1>27, <1>28, <1>29, <1>30, <1>31,
       <1>32, <1>33, <1>34
    DEF Next, LaunchWork, Supervise, JobWork, StopWork

\* Every variable keeps its type, for any number of runs.
THEOREM RunsTypes == Spec => []TypeOK
  BY TypesInit, TypesNext, PTL DEF Spec

-----------------------------------------------------------------------------
(* The lease and the jobs.                                                 *)

LEMMA HoldsInit == Init => HoldsInv
  BY TypesInit DEF Init, HoldsInv, NotBegun, LeaseHeld, JobInside, Leased, Running

LEMMA HoldsNext == HoldsInv /\ [Next]_vars => HoldsInv'
  <1> SUFFICES ASSUME HoldsInv, [Next]_vars
               PROVE  NotBegun' /\ LeaseHeld' /\ JobInside'
    BY TypesNext DEF HoldsInv
  <1> USE RunsAssumption DEF HoldsInv, TypeOK, NotBegun, LeaseHeld, JobInside, Leased,
      Step, Gpu, Running, Places
  <1>1. ASSUME NEW r \in Runs, Launch(r) PROVE NotBegun' /\ LeaseHeld' /\ JobInside'
    BY <1>1 DEF Launch, First
  <1>2. ASSUME NEW r \in Runs, StartSupervisor(r) PROVE NotBegun' /\ LeaseHeld' /\
      JobInside'
    BY <1>2 DEF StartSupervisor
  <1>3. ASSUME NEW r \in Runs, LauncherTruncates(r) PROVE NotBegun' /\ LeaseHeld' /\
      JobInside'
    BY <1>3 DEF LauncherTruncates
  <1>4. ASSUME NEW r \in Runs, LauncherFills(r) PROVE NotBegun' /\ LeaseHeld' /\
      JobInside'
    BY <1>4 DEF LauncherFills, First
  <1>5. ASSUME NEW r \in Runs, ReadMeta(r) PROVE NotBegun' /\ LeaseHeld' /\ JobInside'
    BY <1>5 DEF ReadMeta
  <1>6. ASSUME NEW r \in Runs, TakeLease(r) PROVE NotBegun' /\ LeaseHeld' /\ JobInside'
    BY <1>6 DEF TakeLease
  <1>7. ASSUME NEW r \in Runs, Defer(r) PROVE NotBegun' /\ LeaseHeld' /\ JobInside'
    BY <1>7 DEF Defer
  <1>8. ASSUME NEW r \in Runs, DeferFills(r) PROVE NotBegun' /\ LeaseHeld' /\ JobInside'
    BY <1>8 DEF DeferFills
  <1>9. ASSUME NEW r \in Runs, NoCommand(r) PROVE NotBegun' /\ LeaseHeld' /\ JobInside'
    BY <1>9 DEF NoCommand, Freed
  <1>10. ASSUME NEW r \in Runs, Arm(r) PROVE NotBegun' /\ LeaseHeld' /\ JobInside'
    BY <1>10 DEF Arm
  <1>11. ASSUME NEW r \in Runs, Attempt(r) PROVE NotBegun' /\ LeaseHeld' /\ JobInside'
    BY <1>11 DEF Attempt
  <1>12. ASSUME NEW r \in Runs, AttemptFills(r) PROVE NotBegun' /\ LeaseHeld' /\
      JobInside'
    BY <1>12 DEF AttemptFills
  <1>13. ASSUME NEW r \in Runs, Popen(r) PROVE NotBegun' /\ LeaseHeld' /\ JobInside'
    BY <1>13 DEF Popen
  <1>14. ASSUME NEW r \in Runs, NameJob(r) PROVE NotBegun' /\ LeaseHeld' /\ JobInside'
    BY <1>14 DEF NameJob
  <1>15. ASSUME NEW r \in Runs, NoteJob(r) PROVE NotBegun' /\ LeaseHeld' /\ JobInside'
    BY <1>15 DEF NoteJob
  <1>16. ASSUME NEW r \in Runs, NoteFills(r) PROVE NotBegun' /\ LeaseHeld' /\ JobInside'
    BY <1>16 DEF NoteFills
  <1>17. ASSUME NEW r \in Runs, Reap(r) PROVE NotBegun' /\ LeaseHeld' /\ JobInside'
    BY <1>17 DEF Reap
  <1>18. ASSUME NEW r \in Runs, Judge(r) PROVE NotBegun' /\ LeaseHeld' /\ JobInside'
    BY <1>18 DEF Judge
  <1>19. ASSUME NEW r \in Runs, Wake(r) PROVE NotBegun' /\ LeaseHeld' /\ JobInside'
    BY <1>19 DEF Wake
  <1>20. ASSUME NEW r \in Runs, StopWaitEnds(r) PROVE NotBegun' /\ LeaseHeld' /\
      JobInside'
    BY <1>20 DEF StopWaitEnds
  <1>21. ASSUME NEW r \in Runs, RecordOutcome(r) PROVE NotBegun' /\ LeaseHeld' /\
      JobInside'
    BY <1>21 DEF RecordOutcome, Outcome
  <1>22. ASSUME NEW r \in Runs, OutcomeFills(r) PROVE NotBegun' /\ LeaseHeld' /\
      JobInside'
    BY <1>22 DEF OutcomeFills
  <1>23. ASSUME NEW r \in Runs, ReleaseLease(r) PROVE NotBegun' /\ LeaseHeld' /\
      JobInside'
    BY <1>23 DEF ReleaseLease, Freed
  <1>24. ASSUME NEW r \in Runs, GuardRefuses(r) PROVE NotBegun' /\ LeaseHeld' /\
      JobInside'
    BY <1>24 DEF GuardRefuses
  <1>25. ASSUME NEW r \in Runs, GuardPasses(r) PROVE NotBegun' /\ LeaseHeld' /\ JobInside'
    BY <1>25 DEF GuardPasses
  <1>26. ASSUME NEW r \in Runs, JobEnds(r) PROVE NotBegun' /\ LeaseHeld' /\ JobInside'
    BY <1>26 DEF JobEnds
  <1>27. ASSUME NEW r \in Runs, StopReads(r) PROVE NotBegun' /\ LeaseHeld' /\ JobInside'
    BY <1>27 DEF StopReads
  <1>28. ASSUME NEW r \in Runs, StopKills(r) PROVE NotBegun' /\ LeaseHeld' /\ JobInside'
    <2>1. /\ sup' = [sup EXCEPT ![r] = AfterTerm(sup[r])] /\ told'[r]
          /\ \A s \in Runs : s # r => told'[s] = told[s]
          /\ UNCHANGED <<launcher, tries, job>>
      BY <1>28 DEF StopKills
    <2>2. sup'[r] \in {"ending", "final", "gone"} /\ sup[r] \notin {"off", "gone"}
      <3>1. AfterTerm(sup[r]) \in {"ending", "final", "gone"}
        BY TermPlaces
      <3>2. QED
        BY <1>28, <2>1, <3>1 DEF StopKills, Alive
    <2>3. sup'[r] # "gone" => sup[r] \in Leased /\ lease' = lease
      <3>1. AfterTerm(sup[r]) # "gone" => sup[r] \in Leased
        BY TermPlaces
      <3>2. QED
        BY <1>28, <2>1, <3>1 DEF StopKills
    <2>4. sup'[r] = "gone" => lease' = Freed(r)
      BY <1>28 DEF StopKills
    <2>5. NotBegun'
      BY <2>1, <2>2
    <2>6. LeaseHeld'
      BY <2>1, <2>2, <2>3, <2>4 DEF Freed
    <2>7. JobInside'
      BY <2>1, <2>2
    <2>8. QED
      BY <2>5, <2>6, <2>7
  <1>29. ASSUME NEW r \in Runs, StopFails(r) PROVE NotBegun' /\ LeaseHeld' /\ JobInside'
    BY <1>29 DEF StopFails
  <1>30. ASSUME NEW r \in Runs, StopTruncates(r) PROVE NotBegun' /\ LeaseHeld' /\
      JobInside'
    BY <1>30 DEF StopTruncates
  <1>31. ASSUME NEW r \in Runs, StopFills(r) PROVE NotBegun' /\ LeaseHeld' /\ JobInside'
    BY <1>31 DEF StopFills
  <1>32. CASE OtherTakes
    BY <1>32 DEF OtherTakes
  <1>33. CASE OtherGives
    BY <1>33 DEF OtherGives
  <1>34. CASE UNCHANGED vars
    BY <1>34 DEF vars
  <1> HIDE DEF HoldsInv, TypeOK, NotBegun, LeaseHeld, JobInside, Leased, Step, Gpu,
      Running, Places
  <1>35. QED
    BY <1>1, <1>2, <1>3, <1>4, <1>5, <1>6, <1>7, <1>8, <1>9, <1>10, <1>11,
       <1>12, <1>13, <1>14, <1>15, <1>16, <1>17, <1>18, <1>19, <1>20, <1>21,
       <1>22, <1>23, <1>24, <1>25, <1>26, <1>27, <1>28, <1>29, <1>30, <1>31,
       <1>32, <1>33, <1>34
    DEF Next, LaunchWork, Supervise, JobWork, StopWork

\* A job nobody told to stop is inside its supervisor's hold of the lease.
LEMMA HoldsExclude == HoldsInv => GpuExclusive
  BY RunsAssumption
  DEF HoldsInv, GpuExclusive, Undisturbed, LeaseHeld, JobInside, Leased

\* The job of a run nobody stopped is alone on the GPU, between the runs
\* launched here and beside any other tenant of the lease.
THEOREM RunsExclusive == Spec => []GpuExclusive
  BY HoldsInit, HoldsNext, HoldsExclude, PTL DEF Spec

-----------------------------------------------------------------------------
(* The outcome.                                                            *)

LEMMA OutcomeInit == Init => OutcomeInv
  BY TypesInit
  DEF Init, OutcomeInv, VerdictInv, TypeOK, NotBegun, EndingTold, WithinRetries, LoopIsOver,
      CopyIsTrue, FileIsTrue, Terminal, NoFile

LEMMA OutcomeNext == OutcomeInv /\ [Next]_vars => OutcomeInv'
  <1> SUFFICES ASSUME OutcomeInv, [Next]_vars
               PROVE  VerdictInv'
    BY TypesNext DEF OutcomeInv
  <1> USE RunsAssumption DEF OutcomeInv, VerdictInv, TypeOK, Metas, Record, NoFile,
      Status, First, NotBegun, EndingTold, WithinRetries, LoopIsOver, CopyIsTrue,
      FileIsTrue, TrueOf, Terminal, Step, Running, Places
  <1>1. ASSUME NEW r \in Runs, Launch(r) PROVE VerdictInv'
    BY <1>1 DEF Launch, First
  <1>2. ASSUME NEW r \in Runs, StartSupervisor(r) PROVE VerdictInv'
    BY <1>2 DEF StartSupervisor
  <1>3. ASSUME NEW r \in Runs, LauncherTruncates(r) PROVE VerdictInv'
    BY <1>3 DEF LauncherTruncates
  <1>4. ASSUME NEW r \in Runs, LauncherFills(r) PROVE VerdictInv'
    BY <1>4 DEF LauncherFills, First
  <1>5. ASSUME NEW r \in Runs, ReadMeta(r) PROVE VerdictInv'
    BY <1>5 DEF ReadMeta
  <1>6. ASSUME NEW r \in Runs, TakeLease(r) PROVE VerdictInv'
    BY <1>6 DEF TakeLease
  <1>7. ASSUME NEW r \in Runs, Defer(r) PROVE VerdictInv'
    BY <1>7 DEF Defer
  <1>8. ASSUME NEW r \in Runs, DeferFills(r) PROVE VerdictInv'
    BY <1>8 DEF DeferFills
  <1>9. ASSUME NEW r \in Runs, NoCommand(r) PROVE VerdictInv'
    BY <1>9 DEF NoCommand, Freed
  <1>10. ASSUME NEW r \in Runs, Arm(r) PROVE VerdictInv'
    BY <1>10 DEF Arm
  <1>11. ASSUME NEW r \in Runs, Attempt(r) PROVE VerdictInv'
    BY <1>11 DEF Attempt
  <1>12. ASSUME NEW r \in Runs, AttemptFills(r) PROVE VerdictInv'
    BY <1>12 DEF AttemptFills
  <1>13. ASSUME NEW r \in Runs, Popen(r) PROVE VerdictInv'
    BY <1>13 DEF Popen
  <1>14. ASSUME NEW r \in Runs, NameJob(r) PROVE VerdictInv'
    BY <1>14 DEF NameJob
  <1>15. ASSUME NEW r \in Runs, NoteJob(r) PROVE VerdictInv'
    BY <1>15 DEF NoteJob
  <1>16. ASSUME NEW r \in Runs, NoteFills(r) PROVE VerdictInv'
    BY <1>16 DEF NoteFills
  <1>17. ASSUME NEW r \in Runs, Reap(r) PROVE VerdictInv'
    BY <1>17 DEF Reap
  <1>18. ASSUME NEW r \in Runs, Judge(r) PROVE VerdictInv'
    <2>1. /\ \A s \in Runs : s # r => sup'[s] = sup[s]
          /\ sup[r] = "judge" /\ sup'[r] \in {"final", "nap"}
          /\ sup'[r] = "final" => rc[r] = "ok" \/ tries[r] > retries[r]
          /\ UNCHANGED <<meta, launcher, retries, mine, tries, rc, told>>
      BY <1>18 DEF Judge
    <2>2. tries[r] > retries[r] => tries[r] = retries[r] + 1
      OBVIOUS
    <2>3. NotBegun' /\ EndingTold' /\ WithinRetries'
      BY <2>1
    <2>4. LoopIsOver'
      BY <2>1, <2>2
    <2>5. CopyIsTrue'
      BY <2>1
    <2>6. FileIsTrue'
      BY <2>1
    <2>7. QED
      BY <2>3, <2>4, <2>5, <2>6
  <1>19. ASSUME NEW r \in Runs, Wake(r) PROVE VerdictInv'
    BY <1>19 DEF Wake
  <1>20. ASSUME NEW r \in Runs, StopWaitEnds(r) PROVE VerdictInv'
    BY <1>20 DEF StopWaitEnds
  <1>21. ASSUME NEW r \in Runs, RecordOutcome(r) PROVE VerdictInv'
    BY <1>21 DEF RecordOutcome, Outcome
  <1>22. ASSUME NEW r \in Runs, OutcomeFills(r) PROVE VerdictInv'
    BY <1>22 DEF OutcomeFills
  <1>23. ASSUME NEW r \in Runs, ReleaseLease(r) PROVE VerdictInv'
    BY <1>23 DEF ReleaseLease, Freed
  <1>24. ASSUME NEW r \in Runs, GuardRefuses(r) PROVE VerdictInv'
    BY <1>24 DEF GuardRefuses
  <1>25. ASSUME NEW r \in Runs, GuardPasses(r) PROVE VerdictInv'
    BY <1>25 DEF GuardPasses
  <1>26. ASSUME NEW r \in Runs, JobEnds(r) PROVE VerdictInv'
    BY <1>26 DEF JobEnds
  <1>27. ASSUME NEW r \in Runs, StopReads(r) PROVE VerdictInv'
    BY <1>27 DEF StopReads
  <1>28. ASSUME NEW r \in Runs, StopKills(r) PROVE VerdictInv'
    <2>1. /\ sup' = [sup EXCEPT ![r] = AfterTerm(sup[r])] /\ told'[r]
          /\ \A s \in Runs : s # r => told'[s] = told[s] /\ rc'[s] = rc[s]
          /\ UNCHANGED <<meta, launcher, retries, mine, tries>>
      BY <1>28 DEF StopKills
    <2>2. /\ sup'[r] \in {"ending", "final", "gone"} /\ sup[r] \notin {"off", "gone"}
          /\ sup[r] \in {"filling3", "release"} => sup'[r] = "gone"
          /\ sup'[r] = "ending" => sup[r] \in {"noting", "filling2", "wait"}
      <3> HIDE DEF Places
      <3>1. sup[r] \in Places
        OBVIOUS
      <3>2. /\ AfterTerm(sup[r]) \in {"ending", "final", "gone"}
            /\ sup[r] \in {"filling3", "release"} => AfterTerm(sup[r]) = "gone"
            /\ AfterTerm(sup[r]) = "ending" => sup[r] \in {"noting", "filling2", "wait"}
        BY ONLY <3>1, TermPlaces
      <3>3. QED
        BY <1>28, <2>1, <3>2 DEF StopKills, Alive
    <2>3. sup'[r] # "ending" => rc'[r] = rc[r]
      BY <1>28 DEF StopKills
    <2>4. QED
      BY <2>1, <2>2, <2>3
  <1>29. ASSUME NEW r \in Runs, StopFails(r) PROVE VerdictInv'
    BY <1>29 DEF StopFails
  <1>30. ASSUME NEW r \in Runs, StopTruncates(r) PROVE VerdictInv'
    BY <1>30 DEF StopTruncates
  <1>31. ASSUME NEW r \in Runs, StopFills(r) PROVE VerdictInv'
    BY <1>31 DEF StopFills
  <1>32. CASE OtherTakes
    BY <1>32 DEF OtherTakes
  <1>33. CASE OtherGives
    BY <1>33 DEF OtherGives
  <1>34. CASE UNCHANGED vars
    BY <1>34 DEF vars
  <1> HIDE DEF OutcomeInv, VerdictInv, TypeOK, Metas, Record, NoFile, Status, First,
      NotBegun, EndingTold, WithinRetries, LoopIsOver, CopyIsTrue, FileIsTrue, TrueOf,
      Terminal, Step, Running, Places
  <1>35. QED
    BY <1>1, <1>2, <1>3, <1>4, <1>5, <1>6, <1>7, <1>8, <1>9, <1>10, <1>11,
       <1>12, <1>13, <1>14, <1>15, <1>16, <1>17, <1>18, <1>19, <1>20, <1>21,
       <1>22, <1>23, <1>24, <1>25, <1>26, <1>27, <1>28, <1>29, <1>30, <1>31,
       <1>32, <1>33, <1>34
    DEF Next, LaunchWork, Supervise, JobWork, StopWork

\* meta.json never says `completed` of a run whose last attempt failed, nor
\* `failed` of one with retries left, whoever wrote it last.
THEOREM RunsOutcome == Spec => []OutcomeIsTrue
  <1>1. OutcomeInv => OutcomeIsTrue
    BY DEF OutcomeInv, VerdictInv, OutcomeIsTrue, FileIsTrue, TrueOf, Terminal
  <1>2. QED
    BY OutcomeInit, OutcomeNext, <1>1, PTL DEF Spec

-----------------------------------------------------------------------------
(* Taking turns.                                                           *)

\* The lease of the runs here is a turn on the GPU; a run that was told to stop
\* counts as killed once its supervisor is gone.
Turns == INSTANCE GpuTurns WITH
  Tenants <- Runs \cup {Other},
  turn    <- lease,
  running <- {r \in Runs : Gpu(r) /\ Running(r)},
  killed  <- {r \in Runs : told[r] /\ sup[r] = "gone"}

\* A supervisor that was told to stop is on its way out, and only such a one ends
\* beside its job.
ToldLeaves ==
  \A r \in Runs : told[r] => sup[r] \in {"ending", "final", "filling3", "release", "gone"}

\* A run takes the lease before it is killed, if it ever does.
TurnsInv == HoldsInv /\ ToldLeaves

LEMMA ToldNext == TurnsInv /\ [Next]_vars => TurnsInv'
  <1> SUFFICES ASSUME TurnsInv, [Next]_vars
               PROVE  ToldLeaves'
    BY HoldsNext DEF TurnsInv
  <1> USE DEF TurnsInv, HoldsInv, TypeOK, NotBegun, ToldLeaves, Step, Places
  <1>1. ASSUME NEW r \in Runs, Launch(r) PROVE ToldLeaves'
    BY <1>1 DEF Launch
  <1>2. ASSUME NEW r \in Runs, StartSupervisor(r) PROVE ToldLeaves'
    BY <1>2 DEF StartSupervisor
  <1>3. ASSUME NEW r \in Runs, LauncherTruncates(r) PROVE ToldLeaves'
    BY <1>3 DEF LauncherTruncates
  <1>4. ASSUME NEW r \in Runs, LauncherFills(r) PROVE ToldLeaves'
    BY <1>4 DEF LauncherFills
  <1>5. ASSUME NEW r \in Runs, ReadMeta(r) PROVE ToldLeaves'
    BY <1>5 DEF ReadMeta
  <1>6. ASSUME NEW r \in Runs, TakeLease(r) PROVE ToldLeaves'
    BY <1>6 DEF TakeLease
  <1>7. ASSUME NEW r \in Runs, Defer(r) PROVE ToldLeaves'
    BY <1>7 DEF Defer
  <1>8. ASSUME NEW r \in Runs, DeferFills(r) PROVE ToldLeaves'
    BY <1>8 DEF DeferFills
  <1>9. ASSUME NEW r \in Runs, NoCommand(r) PROVE ToldLeaves'
    BY <1>9 DEF NoCommand
  <1>10. ASSUME NEW r \in Runs, Arm(r) PROVE ToldLeaves'
    BY <1>10 DEF Arm
  <1>11. ASSUME NEW r \in Runs, Attempt(r) PROVE ToldLeaves'
    BY <1>11 DEF Attempt
  <1>12. ASSUME NEW r \in Runs, AttemptFills(r) PROVE ToldLeaves'
    BY <1>12 DEF AttemptFills
  <1>13. ASSUME NEW r \in Runs, Popen(r) PROVE ToldLeaves'
    BY <1>13 DEF Popen
  <1>14. ASSUME NEW r \in Runs, NameJob(r) PROVE ToldLeaves'
    BY <1>14 DEF NameJob
  <1>15. ASSUME NEW r \in Runs, NoteJob(r) PROVE ToldLeaves'
    BY <1>15 DEF NoteJob
  <1>16. ASSUME NEW r \in Runs, NoteFills(r) PROVE ToldLeaves'
    BY <1>16 DEF NoteFills
  <1>17. ASSUME NEW r \in Runs, Reap(r) PROVE ToldLeaves'
    BY <1>17 DEF Reap
  <1>18. ASSUME NEW r \in Runs, Judge(r) PROVE ToldLeaves'
    BY <1>18 DEF Judge
  <1>19. ASSUME NEW r \in Runs, Wake(r) PROVE ToldLeaves'
    BY <1>19 DEF Wake
  <1>20. ASSUME NEW r \in Runs, StopWaitEnds(r) PROVE ToldLeaves'
    BY <1>20 DEF StopWaitEnds
  <1>21. ASSUME NEW r \in Runs, RecordOutcome(r) PROVE ToldLeaves'
    BY <1>21 DEF RecordOutcome
  <1>22. ASSUME NEW r \in Runs, OutcomeFills(r) PROVE ToldLeaves'
    BY <1>22 DEF OutcomeFills
  <1>23. ASSUME NEW r \in Runs, ReleaseLease(r) PROVE ToldLeaves'
    BY <1>23 DEF ReleaseLease
  <1>24. ASSUME NEW r \in Runs, GuardRefuses(r) PROVE ToldLeaves'
    BY <1>24 DEF GuardRefuses
  <1>25. ASSUME NEW r \in Runs, GuardPasses(r) PROVE ToldLeaves'
    BY <1>25 DEF GuardPasses
  <1>26. ASSUME NEW r \in Runs, JobEnds(r) PROVE ToldLeaves'
    BY <1>26 DEF JobEnds
  <1>27. ASSUME NEW r \in Runs, StopReads(r) PROVE ToldLeaves'
    BY <1>27 DEF StopReads
  <1>28. ASSUME NEW r \in Runs, StopKills(r) PROVE ToldLeaves'
    <2>1. AfterTerm(sup[r]) \in {"ending", "final", "gone"}
      BY TermPlaces
    <2>2. QED
      BY <1>28, <2>1 DEF StopKills
  <1>29. ASSUME NEW r \in Runs, StopFails(r) PROVE ToldLeaves'
    BY <1>29 DEF StopFails
  <1>30. ASSUME NEW r \in Runs, StopTruncates(r) PROVE ToldLeaves'
    BY <1>30 DEF StopTruncates
  <1>31. ASSUME NEW r \in Runs, StopFills(r) PROVE ToldLeaves'
    BY <1>31 DEF StopFills
  <1>32. CASE OtherTakes
    BY <1>32 DEF OtherTakes
  <1>33. CASE OtherGives
    BY <1>33 DEF OtherGives
  <1>34. CASE UNCHANGED vars
    BY <1>34 DEF vars
  <1> HIDE DEF TurnsInv, HoldsInv, TypeOK, NotBegun, ToldLeaves, Step, Places
  <1>35. QED
    BY <1>1, <1>2, <1>3, <1>4, <1>5, <1>6, <1>7, <1>8, <1>9, <1>10, <1>11,
       <1>12, <1>13, <1>14, <1>15, <1>16, <1>17, <1>18, <1>19, <1>20, <1>21,
       <1>22, <1>23, <1>24, <1>25, <1>26, <1>27, <1>28, <1>29, <1>30, <1>31,
       <1>32, <1>33, <1>34
    DEF Next, LaunchWork, Supervise, JobWork, StopWork

LEMMA TurnsNext == TurnsInv /\ [Next]_vars => [Turns!Next]_(Turns!vars)
  <1> SUFFICES ASSUME TurnsInv, [Next]_vars
               PROVE  [Turns!Next]_(Turns!vars)
    OBVIOUS
  <1> DEFINE jobs == {s \in Runs : Gpu(s) /\ Running(s)}
             dead == {s \in Runs : told[s] /\ sup[s] = "gone"}
  <1> USE RunsAssumption DEF TurnsInv, HoldsInv, TypeOK, NotBegun, LeaseHeld, JobInside,
      ToldLeaves, Leased, Step, Gpu, Running, Places
  <1>0. ASSUME UNCHANGED <<lease, jobs, dead>> PROVE UNCHANGED Turns!vars
    BY <1>0 DEF Turns!vars
  <1>1. ASSUME NEW r \in Runs, Launch(r) PROVE [Turns!Next]_(Turns!vars)
    <2>1. UNCHANGED <<lease, jobs, dead>>
      BY <1>1 DEF Launch
    <2>2. QED
      BY <1>0, <2>1
  <1>2. ASSUME NEW r \in Runs, StartSupervisor(r) PROVE [Turns!Next]_(Turns!vars)
    <2>1. UNCHANGED <<lease, jobs, dead>>
      BY <1>2 DEF StartSupervisor
    <2>2. QED
      BY <1>0, <2>1
  <1>3. ASSUME NEW r \in Runs, LauncherTruncates(r) PROVE [Turns!Next]_(Turns!vars)
    <2>1. UNCHANGED <<lease, jobs, dead>>
      BY <1>3 DEF LauncherTruncates
    <2>2. QED
      BY <1>0, <2>1
  <1>4. ASSUME NEW r \in Runs, LauncherFills(r) PROVE [Turns!Next]_(Turns!vars)
    <2>1. UNCHANGED <<lease, jobs, dead>>
      BY <1>4 DEF LauncherFills
    <2>2. QED
      BY <1>0, <2>1
  <1>5. ASSUME NEW r \in Runs, ReadMeta(r) PROVE [Turns!Next]_(Turns!vars)
    <2>1. UNCHANGED <<lease, jobs, dead>>
      BY <1>5 DEF ReadMeta
    <2>2. QED
      BY <1>0, <2>1
  <1>6. ASSUME NEW r \in Runs, TakeLease(r) PROVE [Turns!Next]_(Turns!vars)
    <2>1. UNCHANGED <<jobs, dead>> /\ lease = Nobody /\ lease' = r /\ r \notin dead
      BY <1>6 DEF TakeLease
    <2>2. QED
      BY <2>1 DEF Turns!Next, Turns!Take
  <1>7. ASSUME NEW r \in Runs, Defer(r) PROVE [Turns!Next]_(Turns!vars)
    <2>1. UNCHANGED <<lease, jobs, dead>>
      BY <1>7 DEF Defer
    <2>2. QED
      BY <1>0, <2>1
  <1>8. ASSUME NEW r \in Runs, DeferFills(r) PROVE [Turns!Next]_(Turns!vars)
    <2>1. UNCHANGED <<lease, jobs, dead>>
      BY <1>8 DEF DeferFills
    <2>2. QED
      BY <1>0, <2>1
  <1>9. ASSUME NEW r \in Runs, NoCommand(r) PROVE [Turns!Next]_(Turns!vars)
    <2>1. UNCHANGED <<jobs, dead>> /\ lease' = Freed(r) /\ r \notin jobs
      BY <1>9 DEF NoCommand
    <2>2. CASE lease = r
      BY <2>1, <2>2 DEF Freed, Turns!Next, Turns!Give
    <2>3. CASE lease # r
      BY <1>0, <2>1, <2>3 DEF Freed
    <2>4. QED
      BY <2>2, <2>3
  <1>10. ASSUME NEW r \in Runs, Arm(r) PROVE [Turns!Next]_(Turns!vars)
    <2>1. UNCHANGED <<lease, jobs, dead>>
      BY <1>10 DEF Arm
    <2>2. QED
      BY <1>0, <2>1
  <1>11. ASSUME NEW r \in Runs, Attempt(r) PROVE [Turns!Next]_(Turns!vars)
    <2>1. UNCHANGED <<lease, jobs, dead>>
      BY <1>11 DEF Attempt
    <2>2. QED
      BY <1>0, <2>1
  <1>12. ASSUME NEW r \in Runs, AttemptFills(r) PROVE [Turns!Next]_(Turns!vars)
    <2>1. UNCHANGED <<lease, jobs, dead>>
      BY <1>12 DEF AttemptFills
    <2>2. QED
      BY <1>0, <2>1
  <1>13. ASSUME NEW r \in Runs, Popen(r) PROVE [Turns!Next]_(Turns!vars)
    <2>1. UNCHANGED <<lease, dead>> /\ jobs' = IF Gpu(r) THEN jobs \cup {r} ELSE jobs
      BY <1>13 DEF Popen
    <2>2. CASE Gpu(r)
      <3>1. lease = r
        BY <1>13, <2>2 DEF Popen
      <3>2. QED
        BY <2>1, <2>2, <3>1 DEF Turns!Next, Turns!Start
    <2>3. CASE ~Gpu(r)
      BY <1>0, <2>1, <2>3
    <2>4. QED
      BY <2>2, <2>3
  <1>14. ASSUME NEW r \in Runs, NameJob(r) PROVE [Turns!Next]_(Turns!vars)
    <2>1. UNCHANGED <<lease, jobs, dead>>
      BY <1>14 DEF NameJob
    <2>2. QED
      BY <1>0, <2>1
  <1>15. ASSUME NEW r \in Runs, NoteJob(r) PROVE [Turns!Next]_(Turns!vars)
    <2>1. UNCHANGED <<lease, jobs, dead>>
      BY <1>15 DEF NoteJob
    <2>2. QED
      BY <1>0, <2>1
  <1>16. ASSUME NEW r \in Runs, NoteFills(r) PROVE [Turns!Next]_(Turns!vars)
    <2>1. UNCHANGED <<lease, jobs, dead>>
      BY <1>16 DEF NoteFills
    <2>2. QED
      BY <1>0, <2>1
  <1>17. ASSUME NEW r \in Runs, Reap(r) PROVE [Turns!Next]_(Turns!vars)
    <2>1. UNCHANGED <<lease, jobs, dead>>
      BY <1>17 DEF Reap
    <2>2. QED
      BY <1>0, <2>1
  <1>18. ASSUME NEW r \in Runs, Judge(r) PROVE [Turns!Next]_(Turns!vars)
    <2>1. UNCHANGED <<lease, jobs, dead>>
      BY <1>18 DEF Judge
    <2>2. QED
      BY <1>0, <2>1
  <1>19. ASSUME NEW r \in Runs, Wake(r) PROVE [Turns!Next]_(Turns!vars)
    <2>1. UNCHANGED <<lease, jobs, dead>>
      BY <1>19 DEF Wake
    <2>2. QED
      BY <1>0, <2>1
  <1>20. ASSUME NEW r \in Runs, StopWaitEnds(r) PROVE [Turns!Next]_(Turns!vars)
    <2>1. UNCHANGED <<lease, jobs, dead>>
      BY <1>20 DEF StopWaitEnds
    <2>2. QED
      BY <1>0, <2>1
  <1>21. ASSUME NEW r \in Runs, RecordOutcome(r) PROVE [Turns!Next]_(Turns!vars)
    <2>1. UNCHANGED <<lease, jobs, dead>>
      BY <1>21 DEF RecordOutcome
    <2>2. QED
      BY <1>0, <2>1
  <1>22. ASSUME NEW r \in Runs, OutcomeFills(r) PROVE [Turns!Next]_(Turns!vars)
    <2>1. UNCHANGED <<lease, jobs, dead>>
      BY <1>22 DEF OutcomeFills
    <2>2. QED
      BY <1>0, <2>1
  <1>23. ASSUME NEW r \in Runs, ReleaseLease(r) PROVE [Turns!Next]_(Turns!vars)
    <2>1. /\ jobs' = jobs /\ lease' = Freed(r)
          /\ dead' = IF told[r] THEN dead \cup {r} ELSE dead
          /\ ~told[r] => r \notin jobs
      BY <1>23 DEF ReleaseLease
    <2>2. CASE told[r]
      BY <2>1, <2>2 DEF Freed, Turns!Next, Turns!Die
    <2>3. CASE ~told[r] /\ lease = r
      BY <2>1, <2>3 DEF Freed, Turns!Next, Turns!Give
    <2>4. CASE ~told[r] /\ lease # r
      BY <1>0, <2>1, <2>4 DEF Freed
    <2>5. QED
      BY <2>2, <2>3, <2>4
  <1>24. ASSUME NEW r \in Runs, GuardRefuses(r) PROVE [Turns!Next]_(Turns!vars)
    <2>1. UNCHANGED <<lease, dead>> /\ jobs' = jobs \ {r} /\ (Gpu(r) <=> r \in jobs)
      BY <1>24 DEF GuardRefuses
    <2>2. CASE Gpu(r)
      BY <2>1, <2>2 DEF Turns!Next, Turns!Finish
    <2>3. CASE ~Gpu(r)
      BY <1>0, <2>1, <2>3
    <2>4. QED
      BY <2>2, <2>3
  <1>25. ASSUME NEW r \in Runs, GuardPasses(r) PROVE [Turns!Next]_(Turns!vars)
    <2>1. UNCHANGED <<lease, jobs, dead>>
      BY <1>25 DEF GuardPasses
    <2>2. QED
      BY <1>0, <2>1
  <1>26. ASSUME NEW r \in Runs, JobEnds(r) PROVE [Turns!Next]_(Turns!vars)
    <2>1. UNCHANGED <<lease, dead>> /\ jobs' = jobs \ {r} /\ (Gpu(r) <=> r \in jobs)
      BY <1>26 DEF JobEnds
    <2>2. CASE Gpu(r)
      BY <2>1, <2>2 DEF Turns!Next, Turns!Finish
    <2>3. CASE ~Gpu(r)
      BY <1>0, <2>1, <2>3
    <2>4. QED
      BY <2>2, <2>3
  <1>27. ASSUME NEW r \in Runs, StopReads(r) PROVE [Turns!Next]_(Turns!vars)
    <2>1. UNCHANGED <<lease, jobs, dead>>
      BY <1>27 DEF StopReads
    <2>2. QED
      BY <1>0, <2>1
  <1>28. ASSUME NEW r \in Runs, StopKills(r) PROVE [Turns!Next]_(Turns!vars)
    <2>1. /\ jobs' = jobs
          /\ sup'[r] # "gone" => lease' = lease
          /\ sup'[r] = "gone" => lease' = Freed(r)
      BY <1>28 DEF StopKills
    <2>2. /\ sup'[r] # "gone" => dead' = dead
          /\ sup'[r] = "gone" => dead' = dead \cup {r}
      <3>1. /\ told'[r] /\ sup[r] # "gone"
            /\ \A s \in Runs : s # r => told'[s] = told[s] /\ sup'[s] = sup[s]
        BY <1>28 DEF StopKills, Alive
      <3>2. QED
        BY <3>1
    <2>3. CASE sup'[r] # "gone"
      BY <1>0, <2>1, <2>2, <2>3
    <2>4. CASE sup'[r] = "gone"
      BY <2>1, <2>2, <2>4 DEF Freed, Turns!Next, Turns!Die
    <2>5. QED
      BY <2>3, <2>4
  <1>29. ASSUME NEW r \in Runs, StopFails(r) PROVE [Turns!Next]_(Turns!vars)
    <2>1. UNCHANGED <<lease, jobs, dead>>
      BY <1>29 DEF StopFails
    <2>2. QED
      BY <1>0, <2>1
  <1>30. ASSUME NEW r \in Runs, StopTruncates(r) PROVE [Turns!Next]_(Turns!vars)
    <2>1. UNCHANGED <<lease, jobs, dead>>
      BY <1>30 DEF StopTruncates
    <2>2. QED
      BY <1>0, <2>1
  <1>31. ASSUME NEW r \in Runs, StopFills(r) PROVE [Turns!Next]_(Turns!vars)
    <2>1. UNCHANGED <<lease, jobs, dead>>
      BY <1>31 DEF StopFills
    <2>2. QED
      BY <1>0, <2>1
  <1>32. CASE OtherTakes
    <2>1. UNCHANGED <<jobs, dead>> /\ Other \notin dead
      BY <1>32 DEF OtherTakes
    <2>2. QED
      BY <1>32, <2>1 DEF OtherTakes, Turns!Next, Turns!Take
  <1>33. CASE OtherGives
    <2>1. UNCHANGED <<jobs, dead>> /\ Other \notin jobs
      BY <1>33 DEF OtherGives
    <2>2. QED
      BY <1>33, <2>1 DEF OtherGives, Turns!Next, Turns!Give
  <1>34. CASE UNCHANGED vars
    BY <1>0, <1>34 DEF vars
  <1> HIDE DEF TurnsInv, HoldsInv, TypeOK, NotBegun, LeaseHeld, JobInside, ToldLeaves,
      Leased, Step, Gpu, Running, Places
  <1>35. QED
    BY <1>1, <1>2, <1>3, <1>4, <1>5, <1>6, <1>7, <1>8, <1>9, <1>10, <1>11,
       <1>12, <1>13, <1>14, <1>15, <1>16, <1>17, <1>18, <1>19, <1>20, <1>21,
       <1>22, <1>23, <1>24, <1>25, <1>26, <1>27, <1>28, <1>29, <1>30, <1>31,
       <1>32, <1>33, <1>34
    DEF Next, LaunchWork, Supervise, JobWork, StopWork

\* Launch, supervisor, retries and stop() implement the turn taking of GpuTurns:
\* the same promise GpuLease keeps with its flock.
THEOREM RunsTakeTurns == Spec => Turns!Spec
  <1>1. Init => TurnsInv /\ Turns!Init
    BY HoldsInit DEF Init, TurnsInv, ToldLeaves, Turns!Init, Running
  <1>2. TurnsInv /\ [Next]_vars => TurnsInv' /\ [Turns!Next]_(Turns!vars)
    BY ToldNext, TurnsNext
  <1>3. QED
    BY <1>1, <1>2, PTL DEF Spec, Turns!Spec

==============================================================================

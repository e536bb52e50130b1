------------------------- MODULE QueueRunnerProofs -------------------------
(***************************************************************************)
(* Proofs about QueueRunner for any number of runners and steps: type      *)
(* correctness; that the one lease keeps live runners' GPU steps apart     *)
(* from each other and from the lease's other tenants; and, for one        *)
(* operator at a time, that state.json names the runner, that steps run in *)
(* order from a pinned tree, and that outcomes, passes and what a step     *)
(* made survive stops, kills and resumes.                                  *)
(***************************************************************************)
EXTENDS QueueRunner, TLAPS

-----------------------------------------------------------------------------
(* Type correctness.                                                       *)

\* What a save may write: a state with one step, or its status and pid, changed.
LEMMA StateUpdate ==
  ASSUME NEW s \in State
  PROVE  /\ \A i \in Steps, v \in StepStatus : [s EXCEPT !.steps[i] = v] \in State
         /\ \A v \in QueueStatus : [s EXCEPT !.status = v] \in State
         /\ \A v \in QueueStatus, p \in Runners \cup {Nobody} :
              [s EXCEPT !.status = v, !.pid = p] \in State
  BY DEF State

LEMMA CreatedType == Created \in State
  BY DEF Created, State, StepStatus, QueueStatus

LEMMA OutcomeType == \A r : Outcome(r) \in QueueStatus
  BY DEF Outcome, QueueStatus

\* A step is judged before it is recorded: no record without a verdict.
VerdictReady == \A r \in Runners : pc[r] \in {"judge", "record"} => verdict[r] # "none"

TypeInv == TypeOK /\ VerdictReady

LEMMA TypeInit == Init => TypeInv
<1> SUFFICES ASSUME Init PROVE TypeInv
  OBVIOUS
<1>1. disk \in State
  <2>1. PICK p \in Preflights : disk = [Created EXCEPT !.preflight = p]
    BY DEF Init
  <2>2. p \in BOOLEAN
    BY QueueAssumption
  <2>3. QED
    BY <2>1, <2>2, CreatedType DEF State
<1>2. QED
  BY <1>1, CreatedType, QueueAssumption DEF Init, Steps, TypeInv, TypeOK, VerdictReady, Places,
    StepStatus, QueueStatus

LEMMA TypeNext == TypeInv /\ [Next]_vars => TypeInv'
<1> SUFFICES ASSUME TypeOK, VerdictReady, [Next]_vars PROVE TypeOK' /\ VerdictReady'
  BY DEF TypeInv
<1>1. ASSUME NEW r \in Runners, RunFile(r) PROVE TypeOK' /\ VerdictReady'
  BY <1>1, QueueAssumption DEF TypeOK, VerdictReady, State, StepStatus, QueueStatus, Places,
    Created, local, parent, RunFile, MayStart, Started
<1>2. ASSUME NEW r \in Runners, Resume(r) PROVE TypeOK' /\ VerdictReady'
  BY <1>2, QueueAssumption DEF TypeOK, VerdictReady, State, StepStatus, QueueStatus, Places,
    Created, local, parent, Resume, MayStart, Started
<1>3. ASSUME NEW r \in Runners, Detach(r) PROVE TypeOK' /\ VerdictReady'
  BY <1>3, QueueAssumption DEF TypeOK, VerdictReady, State, StepStatus, QueueStatus, Places,
    Created, local, parent, Detach, MayStart, Started
<1>4. ASSUME NEW r \in Runners, GuiResume(r) PROVE TypeOK' /\ VerdictReady'
  BY <1>4, QueueAssumption DEF TypeOK, VerdictReady, State, StepStatus, QueueStatus, Places,
    Created, local, parent, GuiResume, Started
<1>5. ASSUME NEW r \in Runners, Load(r) PROVE TypeOK' /\ VerdictReady'
  BY <1>5, QueueAssumption DEF TypeOK, VerdictReady, State, StepStatus, QueueStatus, Places,
    Created, local, parent, Load, Goto
<1>6. ASSUME NEW r \in Runners, PinGone(r) PROVE TypeOK' /\ VerdictReady'
  BY <1>6, QueueAssumption DEF TypeOK, VerdictReady, State, StepStatus, QueueStatus, Places,
    Created, local, parent, PinGone, Leave
<1>7. ASSUME NEW r \in Runners, Arm(r) PROVE TypeOK' /\ VerdictReady'
  BY <1>7, QueueAssumption DEF TypeOK, VerdictReady, State, StepStatus, QueueStatus, Places,
    Created, local, parent, Arm
<1>8. ASSUME NEW r \in Runners, TakeLease(r) PROVE TypeOK' /\ VerdictReady'
  BY <1>8, QueueAssumption DEF TypeOK, VerdictReady, State, StepStatus, QueueStatus, Places,
    Created, local, parent, TakeLease, Goto
<1>9. ASSUME NEW r \in Runners, Defer(r) PROVE TypeOK' /\ VerdictReady'
  <2>1. disk' \in State
    BY <1>9, StateUpdate, OutcomeType, CreatedType DEF TypeOK, Defer, QueueStatus
  <2>2. mem' \in [Runners -> State]
    BY <1>9, StateUpdate, OutcomeType, CreatedType DEF TypeOK, Defer, Leave
  <2>3. QED
    BY <1>9, <2>1, <2>2, CreatedType DEF TypeOK, VerdictReady, local, parent, Places, Defer,
      Leave
<1>10. ASSUME NEW r \in Runners, Claim(r) PROVE TypeOK' /\ VerdictReady'
  <2>1. disk' \in State
    BY <1>10, StateUpdate, OutcomeType, CreatedType DEF TypeOK, Claim, Goto, QueueStatus
  <2>2. mem' \in [Runners -> State]
    BY <1>10, StateUpdate, OutcomeType, CreatedType DEF TypeOK, Claim, QueueStatus
  <2>3. QED
    BY <1>10, <2>1, <2>2, CreatedType DEF TypeOK, VerdictReady, local, parent, Places,
      Claim, Goto
<1>11. ASSUME NEW r \in Runners, NEW i \in Steps, SkipStep(r, i) PROVE TypeOK' /\
  VerdictReady'
  BY <1>11, QueueAssumption DEF TypeOK, VerdictReady, State, StepStatus, QueueStatus,
    Places, Created, local, parent, SkipStep, Begin, FirstTodo
<1>12. ASSUME NEW r \in Runners, NEW i \in Steps, InputMissing(r, i) PROVE TypeOK' /\
  VerdictReady'
  BY <1>12, QueueAssumption DEF TypeOK, VerdictReady, State, StepStatus, QueueStatus,
    Places, Created, local, parent, InputMissing, Begin, FirstTodo
<1>13. ASSUME NEW r \in Runners, NEW i \in Steps, GateRefuses(r, i) PROVE TypeOK' /\
  VerdictReady'
  BY <1>13, QueueAssumption DEF TypeOK, VerdictReady, State, StepStatus, QueueStatus,
    Places, Created, local, parent, GateRefuses, Begin, FirstTodo
<1>14. ASSUME NEW r \in Runners, NEW i \in Steps, Admit(r, i) PROVE TypeOK' /\ VerdictReady'
  BY <1>14, QueueAssumption DEF TypeOK, VerdictReady, State, StepStatus, QueueStatus,
    Places, Created, local, parent, Admit, Begin, FirstTodo
<1>15. ASSUME NEW r \in Runners, Attempt(r) PROVE TypeOK' /\ VerdictReady'
  <2>1. disk' \in State
    BY <1>15, StateUpdate, OutcomeType, CreatedType DEF TypeOK, Attempt, StepStatus
  <2>2. mem' \in [Runners -> State]
    BY <1>15, StateUpdate, OutcomeType, CreatedType DEF TypeOK, Attempt, StepStatus
  <2>3. QED
    BY <1>15, <2>1, <2>2, CreatedType DEF TypeOK, VerdictReady, local, parent, Places,
      Attempt, Goto
<1>16. ASSUME NEW r \in Runners, StopRetrying(r) PROVE TypeOK' /\ VerdictReady'
  BY <1>16, QueueAssumption DEF TypeOK, VerdictReady, State, StepStatus, QueueStatus,
    Places, Created, local, parent, StopRetrying, Goto
<1>17. ASSUME NEW r \in Runners, NoVerdict(r) PROVE TypeOK' /\ VerdictReady'
  BY <1>17, QueueAssumption DEF TypeOK, VerdictReady, State, StepStatus, QueueStatus,
    Places, Created, local, parent, NoVerdict, Goto
<1>18. ASSUME NEW r \in Runners, Popen(r) PROVE TypeOK' /\ VerdictReady'
  BY <1>18, QueueAssumption DEF TypeOK, VerdictReady, State, StepStatus, QueueStatus,
    Places, Created, local, parent, Popen, Goto
<1>19. ASSUME NEW r \in Runners, Register(r) PROVE TypeOK' /\ VerdictReady'
  BY <1>19, QueueAssumption DEF TypeOK, VerdictReady, State, StepStatus, QueueStatus,
    Places, Created, local, parent, Register, Goto
<1>20. ASSUME NEW r \in Runners, Reap(r) PROVE TypeOK' /\ VerdictReady'
  BY <1>20, QueueAssumption DEF TypeOK, VerdictReady, State, StepStatus, QueueStatus,
    Places, Created, local, parent, Reap, Goto
<1>21. ASSUME NEW r \in Runners, Judge(r) PROVE TypeOK' /\ VerdictReady'
  BY <1>21, QueueAssumption DEF TypeOK, VerdictReady, State, StepStatus, QueueStatus,
    Places, Created, local, parent, Judge
<1>22. ASSUME NEW r \in Runners, Wake(r) PROVE TypeOK' /\ VerdictReady'
  BY <1>22, QueueAssumption DEF TypeOK, VerdictReady, State, StepStatus, QueueStatus,
    Places, Created, local, parent, Wake, Goto
<1>23. ASSUME NEW r \in Runners, Record(r) PROVE TypeOK' /\ VerdictReady'
  <2> DEFINE s == IF verdict[r] = "missing" THEN "fail" ELSE verdict[r]
             next == [mem[r] EXCEPT !.steps[cur[r]] = s]
  <2>1. s \in StepStatus
    BY <1>23 DEF Record, TypeOK, VerdictReady, StepStatus
  <2>2. next \in State
    BY <2>1, StateUpdate DEF TypeOK
  <2>3. mem' = [mem EXCEPT ![r] = next] /\ disk' = mem'[r]
    BY <1>23 DEF Record
  <2>4. mem' \in [Runners -> State] /\ disk' \in State
    BY <2>2, <2>3 DEF TypeOK
  <2> HIDE DEF s, next
  <2>5. pc' \in [Runners -> Places] /\ pc'[r] \in {"release", "next"}
    BY <1>23 DEF Record, TypeOK, Places
  <2>6. QED
    BY <1>23, <2>4, <2>5 DEF Record, TypeOK, VerdictReady, parent
<1>24. ASSUME NEW r \in Runners, Drained(r) PROVE TypeOK' /\ VerdictReady'
  BY <1>24, QueueAssumption DEF TypeOK, VerdictReady, State, StepStatus, QueueStatus,
    Places, Created, local, parent, Drained, Goto
<1>25. ASSUME NEW r \in Runners, ReleaseLease(r) PROVE TypeOK' /\ VerdictReady'
  BY <1>25, QueueAssumption DEF TypeOK, VerdictReady, State, StepStatus, QueueStatus,
    Places, Created, local, parent, ReleaseLease, Goto, Freed
<1>26. ASSUME NEW r \in Runners, Break(r) PROVE TypeOK' /\ VerdictReady'
  BY <1>26, QueueAssumption DEF TypeOK, VerdictReady, State, StepStatus, QueueStatus,
    Places, Created, local, parent, Break, Leave, Freed
<1>27. ASSUME NEW r \in Runners, Finish(r) PROVE TypeOK' /\ VerdictReady'
  <2>1. disk' \in State
    BY <1>27, StateUpdate, OutcomeType, CreatedType DEF TypeOK, Finish
  <2>2. mem' \in [Runners -> State]
    BY <1>27, StateUpdate, OutcomeType, CreatedType DEF TypeOK, Finish
  <2>3. QED
    BY <1>27, <2>1, <2>2, CreatedType DEF TypeOK, VerdictReady, local, parent, Places,
      Finish, Goto
<1>28. ASSUME NEW r \in Runners, Tidy(r) PROVE TypeOK' /\ VerdictReady'
  <2>1. disk' \in State
    BY <1>28, StateUpdate, OutcomeType, CreatedType DEF TypeOK, Tidy
  <2>2. mem' \in [Runners -> State]
    BY <1>28, StateUpdate, OutcomeType, CreatedType DEF TypeOK, Tidy, Leave
  <2>3. QED
    BY <1>28, <2>1, <2>2, CreatedType DEF TypeOK, VerdictReady, local, parent, Places, Tidy,
      Leave
<1>29. ASSUME NEW r \in Runners, ParentLoads(r) PROVE TypeOK' /\ VerdictReady'
  BY <1>29, QueueAssumption DEF TypeOK, VerdictReady, State, StepStatus, QueueStatus,
    Places, Created, local, parent, ParentLoads
<1>30. ASSUME NEW r \in Runners, ParentSaves(r) PROVE TypeOK' /\ VerdictReady'
  <2>1. disk' \in State
    BY <1>30, StateUpdate, OutcomeType, CreatedType DEF TypeOK, ParentSaves, QueueStatus
  <2>2. mem' \in [Runners -> State]
    BY <1>30, StateUpdate, OutcomeType, CreatedType DEF TypeOK, ParentSaves, local
  <2>3. QED
    BY <1>30, <2>1, <2>2, CreatedType DEF TypeOK, VerdictReady, local, parent, Places,
      ParentSaves
<1>31. ASSUME NEW r \in Runners, ParentDies(r) PROVE TypeOK' /\ VerdictReady'
  BY <1>31, QueueAssumption DEF TypeOK, VerdictReady, State, StepStatus, QueueStatus,
    Places, Created, local, parent, ParentDies
<1>32. ASSUME NEW r \in Runners, JobEnds(r) PROVE TypeOK' /\ VerdictReady'
  BY <1>32, QueueAssumption DEF TypeOK, VerdictReady, State, StepStatus, QueueStatus,
    Places, Created, local, parent, JobEnds, Busy, Alive
<1>33. ASSUME NEW r \in Runners, Signal(r) PROVE TypeOK' /\ VerdictReady'
  <2>1. CASE Armed(r)
    BY <1>33, <2>1 DEF TypeOK, VerdictReady, Signal, local, parent
  <2>2. CASE ~Armed(r)
    <3>1. Leave(r, "dead") /\ told' = told
      BY <1>33, <2>2 DEF Signal
    <3>2. UNCHANGED <<disk, tree, products, lease, cmdline, cur, job, parent>>
      BY <1>33 DEF Signal
    <3>3. QED
      BY <3>1, <3>2, CreatedType DEF TypeOK, VerdictReady, Leave, Places, parent
  <2>3. QED
    BY <2>1, <2>2
<1>34. ASSUME NEW r \in Runners, Kill(r) PROVE TypeOK' /\ VerdictReady'
  BY <1>34, QueueAssumption DEF TypeOK, VerdictReady, State, StepStatus, QueueStatus,
    Places, Created, local, parent, Kill, Leave, Freed, Alive
<1>35. CASE GuiCheck
  BY <1>35, QueueAssumption DEF TypeOK, VerdictReady, State, StepStatus, QueueStatus,
    Places, Created, local, parent, GuiCheck
<1>36. CASE GuiRefused
  BY <1>36, QueueAssumption DEF TypeOK, VerdictReady, State, StepStatus, QueueStatus,
    Places, Created, local, parent, GuiRefused
<1>37. CASE OtherTakes
  BY <1>37, QueueAssumption DEF TypeOK, VerdictReady, State, StepStatus, QueueStatus,
    Places, Created, local, parent, OtherTakes
<1>38. CASE OtherGives
  BY <1>38, QueueAssumption DEF TypeOK, VerdictReady, State, StepStatus, QueueStatus,
    Places, Created, local, parent, OtherGives
<1>39. CASE UNCHANGED vars
  BY <1>39, QueueAssumption DEF TypeOK, VerdictReady, State, StepStatus, QueueStatus,
    Places, Created, local, parent, vars
<1>40. QED
  BY <1>1, <1>2, <1>3, <1>4, <1>5, <1>6, <1>7, <1>8, <1>9, <1>10, <1>11, <1>12, <1>13,
    <1>14, <1>15, <1>16, <1>17, <1>18, <1>19, <1>20, <1>21, <1>22, <1>23, <1>24, <1>25,
    <1>26, <1>27, <1>28, <1>29, <1>30, <1>31, <1>32, <1>33, <1>34, <1>35, <1>36, <1>37,
    <1>38, <1>39 DEF Next, Start, Work, ParentWork

\* Every variable keeps its type, in every behaviour of every queue.
THEOREM QueueTypes == Spec => []TypeOK
<1>1. TypeInv => TypeOK
  BY DEF TypeInv
<1>2. QED
  BY TypeInit, TypeNext, <1>1, PTL DEF Spec

-----------------------------------------------------------------------------
(* The lease and the steps that need it.  GpuExclusive speaks of running   *)
(* steps only; what makes it inductive is that a runner holds the lease    *)
(* for as long as a step that needs the GPU is still to do.                *)

AtStep == {"attempt", "popen", "spawned", "wait", "judge", "nap", "record"}

\* The step a runner is at is one it still has to do.
AtWork == \A r \in Runners : pc[r] \in AtStep => cur[r] \in todo[r]

\* A step process lives under a runner that waits for it, or was left behind.
JobPlaced == \A r \in Runners : job[r] = "live" => pc[r] \in {"spawned", "wait", "dead"}

\* A runner past the lease that has a GPU step left holds the lease.
LeaseSpans ==
  \A r \in Runners :
    pc[r] \in {"claiming", "next"} \cup AtStep /\ todo[r] \cap Gpu # {} => lease = r

LeaseInv == TypeInv /\ AtWork /\ JobPlaced /\ LeaseSpans

LEMMA LeaseInvInit == Init => LeaseInv
<1> SUFFICES ASSUME Init PROVE LeaseInv
  OBVIOUS
<1>1. TypeInv
  BY TypeInit
<1>2. QED
  BY <1>1 DEF LeaseInv, AtWork, JobPlaced, LeaseSpans, AtStep, Init

LEMMA LeaseInvNext == LeaseInv /\ [Next]_vars => LeaseInv'
<1> SUFFICES ASSUME LeaseInv, [Next]_vars PROVE AtWork' /\ JobPlaced' /\ LeaseSpans'
  BY TypeNext DEF LeaseInv
<1> USE DEF LeaseInv, TypeInv, AtWork, JobPlaced, LeaseSpans, AtStep
<1>1. ASSUME NEW r \in Runners, RunFile(r) PROVE AtWork' /\ JobPlaced' /\ LeaseSpans'
  BY <1>1, QueueAssumption DEF TypeOK, local, parent, RunFile, MayStart, Started
<1>2. ASSUME NEW r \in Runners, Resume(r) PROVE AtWork' /\ JobPlaced' /\ LeaseSpans'
  BY <1>2, QueueAssumption DEF TypeOK, local, parent, Resume, MayStart, Started
<1>3. ASSUME NEW r \in Runners, Detach(r) PROVE AtWork' /\ JobPlaced' /\ LeaseSpans'
  BY <1>3, QueueAssumption DEF TypeOK, local, parent, Detach, MayStart, Started
<1>4. ASSUME NEW r \in Runners, GuiResume(r) PROVE AtWork' /\ JobPlaced' /\ LeaseSpans'
  BY <1>4, QueueAssumption DEF TypeOK, local, parent, GuiResume, Started
<1>5. ASSUME NEW r \in Runners, Load(r) PROVE AtWork' /\ JobPlaced' /\ LeaseSpans'
  BY <1>5, QueueAssumption DEF TypeOK, local, parent, Load, Goto
<1>6. ASSUME NEW r \in Runners, PinGone(r) PROVE AtWork' /\ JobPlaced' /\ LeaseSpans'
  BY <1>6, QueueAssumption DEF TypeOK, local, parent, PinGone, Leave
<1>7. ASSUME NEW r \in Runners, Arm(r) PROVE AtWork' /\ JobPlaced' /\ LeaseSpans'
  BY <1>7, QueueAssumption DEF TypeOK, local, parent, Arm
<1>8. ASSUME NEW r \in Runners, TakeLease(r) PROVE AtWork' /\ JobPlaced' /\ LeaseSpans'
  BY <1>8, QueueAssumption DEF TypeOK, local, parent, TakeLease, Goto
<1>9. ASSUME NEW r \in Runners, Defer(r) PROVE AtWork' /\ JobPlaced' /\ LeaseSpans'
  BY <1>9, QueueAssumption DEF TypeOK, local, parent, Defer, Leave
<1>10. ASSUME NEW r \in Runners, Claim(r) PROVE AtWork' /\ JobPlaced' /\ LeaseSpans'
  BY <1>10, QueueAssumption DEF TypeOK, local, parent, Claim, Goto
<1>11. ASSUME NEW r \in Runners, NEW i \in Steps, SkipStep(r, i) PROVE AtWork' /\ JobPlaced'
  /\ LeaseSpans'
  BY <1>11, QueueAssumption DEF TypeOK, local, parent, SkipStep, Begin, FirstTodo
<1>12. ASSUME NEW r \in Runners, NEW i \in Steps, InputMissing(r, i) PROVE AtWork' /\
  JobPlaced' /\ LeaseSpans'
  BY <1>12, QueueAssumption DEF TypeOK, local, parent, InputMissing, Begin, FirstTodo
<1>13. ASSUME NEW r \in Runners, NEW i \in Steps, GateRefuses(r, i) PROVE AtWork' /\
  JobPlaced' /\ LeaseSpans'
  BY <1>13, QueueAssumption DEF TypeOK, local, parent, GateRefuses, Begin, FirstTodo
<1>14. ASSUME NEW r \in Runners, NEW i \in Steps, Admit(r, i) PROVE AtWork' /\ JobPlaced' /\
  LeaseSpans'
  BY <1>14, QueueAssumption DEF TypeOK, local, parent, Admit, Begin, FirstTodo
<1>15. ASSUME NEW r \in Runners, Attempt(r) PROVE AtWork' /\ JobPlaced' /\ LeaseSpans'
  BY <1>15, QueueAssumption DEF TypeOK, local, parent, Attempt, Goto
<1>16. ASSUME NEW r \in Runners, StopRetrying(r) PROVE AtWork' /\ JobPlaced' /\ LeaseSpans'
  BY <1>16, QueueAssumption DEF TypeOK, local, parent, StopRetrying, Goto
<1>17. ASSUME NEW r \in Runners, NoVerdict(r) PROVE AtWork' /\ JobPlaced' /\ LeaseSpans'
  BY <1>17, QueueAssumption DEF TypeOK, local, parent, NoVerdict, Goto
<1>18. ASSUME NEW r \in Runners, Popen(r) PROVE AtWork' /\ JobPlaced' /\ LeaseSpans'
  BY <1>18, QueueAssumption DEF TypeOK, local, parent, Popen, Goto
<1>19. ASSUME NEW r \in Runners, Register(r) PROVE AtWork' /\ JobPlaced' /\ LeaseSpans'
  BY <1>19, QueueAssumption DEF TypeOK, local, parent, Register, Goto
<1>20. ASSUME NEW r \in Runners, Reap(r) PROVE AtWork' /\ JobPlaced' /\ LeaseSpans'
  BY <1>20, QueueAssumption DEF TypeOK, local, parent, Reap, Goto
<1>21. ASSUME NEW r \in Runners, Judge(r) PROVE AtWork' /\ JobPlaced' /\ LeaseSpans'
  BY <1>21, QueueAssumption DEF TypeOK, local, parent, Judge
<1>22. ASSUME NEW r \in Runners, Wake(r) PROVE AtWork' /\ JobPlaced' /\ LeaseSpans'
  BY <1>22, QueueAssumption DEF TypeOK, local, parent, Wake, Goto
<1>23. ASSUME NEW r \in Runners, Record(r) PROVE AtWork' /\ JobPlaced' /\ LeaseSpans'
  BY <1>23, QueueAssumption DEF TypeOK, local, parent, Record
<1>24. ASSUME NEW r \in Runners, Drained(r) PROVE AtWork' /\ JobPlaced' /\ LeaseSpans'
  BY <1>24, QueueAssumption DEF TypeOK, local, parent, Drained, Goto
<1>25. ASSUME NEW r \in Runners, ReleaseLease(r) PROVE AtWork' /\ JobPlaced' /\ LeaseSpans'
  BY <1>25, QueueAssumption DEF TypeOK, local, parent, ReleaseLease, Goto, Freed
<1>26. ASSUME NEW r \in Runners, Break(r) PROVE AtWork' /\ JobPlaced' /\ LeaseSpans'
  BY <1>26, QueueAssumption DEF TypeOK, local, parent, Break, Leave, Freed
<1>27. ASSUME NEW r \in Runners, Finish(r) PROVE AtWork' /\ JobPlaced' /\ LeaseSpans'
  BY <1>27, QueueAssumption DEF TypeOK, local, parent, Finish, Goto, Outcome
<1>28. ASSUME NEW r \in Runners, Tidy(r) PROVE AtWork' /\ JobPlaced' /\ LeaseSpans'
  BY <1>28, QueueAssumption DEF TypeOK, local, parent, Tidy, Leave
<1>29. ASSUME NEW r \in Runners, ParentLoads(r) PROVE AtWork' /\ JobPlaced' /\ LeaseSpans'
  BY <1>29, QueueAssumption DEF TypeOK, local, parent, ParentLoads
<1>30. ASSUME NEW r \in Runners, ParentSaves(r) PROVE AtWork' /\ JobPlaced' /\ LeaseSpans'
  BY <1>30, QueueAssumption DEF TypeOK, local, parent, ParentSaves
<1>31. ASSUME NEW r \in Runners, ParentDies(r) PROVE AtWork' /\ JobPlaced' /\ LeaseSpans'
  BY <1>31, QueueAssumption DEF TypeOK, local, parent, ParentDies
<1>32. ASSUME NEW r \in Runners, JobEnds(r) PROVE AtWork' /\ JobPlaced' /\ LeaseSpans'
  BY <1>32, QueueAssumption DEF TypeOK, local, parent, JobEnds, Busy, Alive
<1>33. ASSUME NEW r \in Runners, Signal(r) PROVE AtWork' /\ JobPlaced' /\ LeaseSpans'
  <2>1. CASE Armed(r)
    BY <1>33, <2>1 DEF Signal, TypeOK
  <2>2. CASE ~Armed(r)
    <3>1. Leave(r, "dead") /\ UNCHANGED <<lease, cur, job>>
      BY <1>33, <2>2 DEF Signal
    <3>2. QED
      BY <3>1 DEF Leave, TypeOK
  <2>3. QED
    BY <2>1, <2>2
<1>34. ASSUME NEW r \in Runners, Kill(r) PROVE AtWork' /\ JobPlaced' /\ LeaseSpans'
  BY <1>34, QueueAssumption DEF TypeOK, local, parent, Kill, Leave, Freed, Alive
<1>35. CASE GuiCheck
  BY <1>35, QueueAssumption DEF TypeOK, local, parent, GuiCheck
<1>36. CASE GuiRefused
  BY <1>36, QueueAssumption DEF TypeOK, local, parent, GuiRefused
<1>37. CASE OtherTakes
  BY <1>37, QueueAssumption DEF TypeOK, local, parent, OtherTakes
<1>38. CASE OtherGives
  BY <1>38, QueueAssumption DEF TypeOK, local, parent, OtherGives
<1>39. CASE UNCHANGED vars
  BY <1>39, QueueAssumption DEF TypeOK, local, parent, vars
<1>40. QED
  BY <1>1, <1>2, <1>3, <1>4, <1>5, <1>6, <1>7, <1>8, <1>9, <1>10, <1>11, <1>12, <1>13,
    <1>14, <1>15, <1>16, <1>17, <1>18, <1>19, <1>20, <1>21, <1>22, <1>23, <1>24, <1>25,
    <1>26, <1>27, <1>28, <1>29, <1>30, <1>31, <1>32, <1>33, <1>34, <1>35, <1>36, <1>37,
    <1>38, <1>39 DEF Next, Start, Work, ParentWork

\* The GPU steps of live runners never overlap, and never overlap another
\* tenant's turn, whoever starts, stops, resumes or kills runners of the queue.
THEOREM QueueGpuExclusion == Spec => []GpuExclusive
<1>1. Init => LeaseInv
  BY LeaseInvInit
<1>2. LeaseInv /\ [Next]_vars => LeaseInv'
  BY LeaseInvNext
<1>3. LeaseInv => GpuExclusive
  <2> SUFFICES ASSUME LeaseInv PROVE GpuExclusive
    OBVIOUS
  <2>1. ASSUME NEW r \in Runners, OnGpu(r) PROVE lease = r
    BY <2>1 DEF LeaseInv, AtWork, JobPlaced, LeaseSpans, AtStep, OnGpu, Busy, Alive
  <2>2. QED
    BY <2>1, QueueAssumption DEF GpuExclusive
<1>4. QED
  BY <1>1, <1>2, <1>3, PTL DEF Spec

-----------------------------------------------------------------------------
(* One operator at a time and no Jobs page: a runner is alone, with its    *)
(* parent, and the save that parent makes late still names it.             *)

\* Nobody is alive or starting beside a live or starting runner.
Present(r) == Alive(r) \/ claim[r] # "none"
Alone == \A r, s \in Runners : Present(r) /\ Present(s) => r = s

\* From its claim to its outcome, state.json and the runner's copy name it.
Owns(r) == pc[r] \in {"next", "release", "finish"} \cup AtStep
OwnerNamed == \A r \in Runners : Owns(r) => disk.pid = r /\ mem[r].pid = r

OwnerInv == TypeInv /\ (gui = "shut" => Alone /\ OwnerNamed)

\* Nobody opens a Jobs page on the way, nor closes one.
LEMMA GuiShut == TypeOK /\ [Next]_vars => (gui' = "shut" <=> gui = "shut")
<1> SUFFICES ASSUME TypeOK, [Next]_vars PROVE gui' = "shut" <=> gui = "shut"
  OBVIOUS
<1> USE QueueAssumption DEF TypeOK, parent
<1>1. ASSUME NEW r \in Runners, RunFile(r) PROVE gui' = "shut" <=> gui = "shut"
  BY <1>1 DEF RunFile, MayStart, Started
<1>2. ASSUME NEW r \in Runners, Resume(r) PROVE gui' = "shut" <=> gui = "shut"
  BY <1>2 DEF Resume, MayStart, Started
<1>3. ASSUME NEW r \in Runners, Detach(r) PROVE gui' = "shut" <=> gui = "shut"
  BY <1>3 DEF Detach, MayStart, Started
<1>4. ASSUME NEW r \in Runners, GuiResume(r) PROVE gui' = "shut" <=> gui = "shut"
  BY <1>4 DEF GuiResume, Started
<1>5. ASSUME NEW r \in Runners, Load(r) PROVE gui' = "shut" <=> gui = "shut"
  BY <1>5 DEF Load, Goto
<1>6. ASSUME NEW r \in Runners, PinGone(r) PROVE gui' = "shut" <=> gui = "shut"
  BY <1>6 DEF PinGone, Leave
<1>7. ASSUME NEW r \in Runners, Arm(r) PROVE gui' = "shut" <=> gui = "shut"
  BY <1>7 DEF Arm
<1>8. ASSUME NEW r \in Runners, TakeLease(r) PROVE gui' = "shut" <=> gui = "shut"
  BY <1>8 DEF TakeLease, Goto
<1>9. ASSUME NEW r \in Runners, Defer(r) PROVE gui' = "shut" <=> gui = "shut"
  BY <1>9 DEF Defer, Leave
<1>10. ASSUME NEW r \in Runners, Claim(r) PROVE gui' = "shut" <=> gui = "shut"
  BY <1>10 DEF Claim, Goto
<1>11. ASSUME NEW r \in Runners, NEW i \in Steps, SkipStep(r, i)
       PROVE gui' = "shut" <=> gui = "shut"
  BY <1>11 DEF SkipStep, Begin, FirstTodo
<1>12. ASSUME NEW r \in Runners, NEW i \in Steps, InputMissing(r, i)
       PROVE gui' = "shut" <=> gui = "shut"
  BY <1>12 DEF InputMissing, Begin, FirstTodo
<1>13. ASSUME NEW r \in Runners, NEW i \in Steps, GateRefuses(r, i)
       PROVE gui' = "shut" <=> gui = "shut"
  BY <1>13 DEF GateRefuses, Begin, FirstTodo
<1>14. ASSUME NEW r \in Runners, NEW i \in Steps, Admit(r, i) PROVE gui' = "shut" <=> gui = "shut"
  BY <1>14 DEF Admit, Begin, FirstTodo
<1>15. ASSUME NEW r \in Runners, Attempt(r) PROVE gui' = "shut" <=> gui = "shut"
  BY <1>15 DEF Attempt, Goto
<1>16. ASSUME NEW r \in Runners, StopRetrying(r) PROVE gui' = "shut" <=> gui = "shut"
  BY <1>16 DEF StopRetrying, Goto
<1>17. ASSUME NEW r \in Runners, NoVerdict(r) PROVE gui' = "shut" <=> gui = "shut"
  BY <1>17 DEF NoVerdict, Goto
<1>18. ASSUME NEW r \in Runners, Popen(r) PROVE gui' = "shut" <=> gui = "shut"
  BY <1>18 DEF Popen, Goto
<1>19. ASSUME NEW r \in Runners, Register(r) PROVE gui' = "shut" <=> gui = "shut"
  BY <1>19 DEF Register, Goto
<1>20. ASSUME NEW r \in Runners, Reap(r) PROVE gui' = "shut" <=> gui = "shut"
  BY <1>20 DEF Reap, Goto
<1>21. ASSUME NEW r \in Runners, Judge(r) PROVE gui' = "shut" <=> gui = "shut"
  BY <1>21 DEF Judge
<1>22. ASSUME NEW r \in Runners, Wake(r) PROVE gui' = "shut" <=> gui = "shut"
  BY <1>22 DEF Wake, Goto
<1>23. ASSUME NEW r \in Runners, Record(r) PROVE gui' = "shut" <=> gui = "shut"
  BY <1>23 DEF Record
<1>24. ASSUME NEW r \in Runners, Drained(r) PROVE gui' = "shut" <=> gui = "shut"
  BY <1>24 DEF Drained, Goto
<1>25. ASSUME NEW r \in Runners, ReleaseLease(r) PROVE gui' = "shut" <=> gui = "shut"
  BY <1>25 DEF ReleaseLease, Goto, Freed
<1>26. ASSUME NEW r \in Runners, Break(r) PROVE gui' = "shut" <=> gui = "shut"
  BY <1>26 DEF Break, Leave, Freed
<1>27. ASSUME NEW r \in Runners, Finish(r) PROVE gui' = "shut" <=> gui = "shut"
  BY <1>27 DEF Finish, Goto
<1>28. ASSUME NEW r \in Runners, Tidy(r) PROVE gui' = "shut" <=> gui = "shut"
  BY <1>28 DEF Tidy, Leave
<1>29. ASSUME NEW r \in Runners, ParentLoads(r) PROVE gui' = "shut" <=> gui = "shut"
  BY <1>29 DEF ParentLoads
<1>30. ASSUME NEW r \in Runners, ParentSaves(r) PROVE gui' = "shut" <=> gui = "shut"
  BY <1>30 DEF ParentSaves
<1>31. ASSUME NEW r \in Runners, ParentDies(r) PROVE gui' = "shut" <=> gui = "shut"
  BY <1>31 DEF ParentDies
<1>32. ASSUME NEW r \in Runners, JobEnds(r) PROVE gui' = "shut" <=> gui = "shut"
  BY <1>32 DEF JobEnds, Busy
<1>33. ASSUME NEW r \in Runners, Signal(r) PROVE gui' = "shut" <=> gui = "shut"
  BY <1>33 DEF Signal, Leave
<1>34. ASSUME NEW r \in Runners, Kill(r) PROVE gui' = "shut" <=> gui = "shut"
  BY <1>34 DEF Kill, Leave, Freed
<1>35. CASE GuiCheck
  BY <1>35 DEF GuiCheck
<1>36. CASE GuiRefused
  BY <1>36 DEF GuiRefused
<1>37. CASE OtherTakes
  BY <1>37 DEF OtherTakes
<1>38. CASE OtherGives
  BY <1>38 DEF OtherGives
<1>39. CASE UNCHANGED vars
  BY <1>39 DEF vars
<1>40. QED
  BY <1>1, <1>2, <1>3, <1>4, <1>5, <1>6, <1>7, <1>8, <1>9, <1>10, <1>11, <1>12, <1>13, <1>14,
    <1>15, <1>16, <1>17, <1>18, <1>19, <1>20, <1>21, <1>22, <1>23, <1>24, <1>25, <1>26, <1>27,
    <1>28, <1>29, <1>30, <1>31, <1>32, <1>33, <1>34, <1>35, <1>36, <1>37, <1>38, <1>39 DEF
    Next, Start, Work, ParentWork

LEMMA OwnerInit == Init => OwnerInv
  BY TypeInit DEF OwnerInv, Alone, OwnerNamed, Present, Owns, Alive, AtStep, Init

LEMMA OwnerNext ==
  ASSUME OneAtATime, OwnerInv, [Next]_vars
  PROVE  OwnerInv'
<1> SUFFICES ASSUME gui' = "shut" PROVE Alone' /\ OwnerNamed'
  BY TypeNext DEF OwnerInv
<1>0. TypeOK /\ gui = "shut" /\ Alone /\ OwnerNamed
  BY GuiShut DEF OwnerInv, TypeInv
<1> USE <1>0, QueueAssumption DEF TypeOK, State, Alone, OwnerNamed, Present, Owns, Alive, AtStep,
          local, parent
<1>1. ASSUME NEW r \in Runners, RunFile(r) PROVE Alone' /\ OwnerNamed'
  BY <1>1 DEF RunFile, MayStart, Started
<1>2. ASSUME NEW r \in Runners, Resume(r) PROVE Alone' /\ OwnerNamed'
  BY <1>2 DEF Resume, MayStart, Started
<1>3. ASSUME NEW r \in Runners, Detach(r) PROVE Alone' /\ OwnerNamed'
  BY <1>3 DEF Detach, MayStart, Started
<1>4. ASSUME NEW r \in Runners, GuiResume(r) PROVE Alone' /\ OwnerNamed'
  BY <1>4 DEF GuiResume, Started
<1>5. ASSUME NEW r \in Runners, Load(r) PROVE Alone' /\ OwnerNamed'
  BY <1>5 DEF Load, Goto
<1>6. ASSUME NEW r \in Runners, PinGone(r) PROVE Alone' /\ OwnerNamed'
  BY <1>6 DEF PinGone, Leave
<1>7. ASSUME NEW r \in Runners, Arm(r) PROVE Alone' /\ OwnerNamed'
  BY <1>7 DEF Arm
<1>8. ASSUME NEW r \in Runners, TakeLease(r) PROVE Alone' /\ OwnerNamed'
  BY <1>8 DEF TakeLease, Goto
<1>9. ASSUME NEW r \in Runners, Defer(r) PROVE Alone' /\ OwnerNamed'
  <2>1. \A s \in Runners : s # r => ~Present(s)
    BY <1>9 DEF Defer
  <2>2. ~Owns(r)' /\ \A s \in Runners : pc'[s] = IF s = r THEN "exited" ELSE pc[s]
    BY <1>9 DEF Defer, Leave
  <2>3. claim' = claim
    BY <1>9 DEF Defer
  <2> HIDE <1>0, QueueAssumption DEF TypeOK, State
  <2>4. QED
    BY <2>1, <2>2, <2>3
<1>10. ASSUME NEW r \in Runners, Claim(r) PROVE Alone' /\ OwnerNamed'
  <2>1. \A s \in Runners : s # r => ~Present(s)
    BY <1>10 DEF Claim, Goto
  <2>2. disk' = mem'[r] /\ mem'[r].pid = r
    BY <1>10 DEF Claim
  <2>3. pc'[r] = "next" /\ claim' = claim /\ \A s \in Runners : s # r => pc'[s] = pc[s]
    BY <1>10 DEF Claim, Goto
  <2> HIDE <1>0, QueueAssumption DEF TypeOK, State
  <2>4. Alone'
    BY <2>1, <2>3
  <2>5. OwnerNamed'
    BY <1>0, <2>1, <2>2, <2>3
  <2>6. QED
    BY <2>4, <2>5
<1>11. ASSUME NEW r \in Runners, NEW i \in Steps, SkipStep(r, i) PROVE Alone' /\ OwnerNamed'
  BY <1>11 DEF SkipStep, Begin, FirstTodo
<1>12. ASSUME NEW r \in Runners, NEW i \in Steps, InputMissing(r, i) PROVE Alone' /\ OwnerNamed'
  BY <1>12 DEF InputMissing, Begin, FirstTodo
<1>13. ASSUME NEW r \in Runners, NEW i \in Steps, GateRefuses(r, i) PROVE Alone' /\ OwnerNamed'
  BY <1>13 DEF GateRefuses, Begin, FirstTodo
<1>14. ASSUME NEW r \in Runners, NEW i \in Steps, Admit(r, i) PROVE Alone' /\ OwnerNamed'
  BY <1>14 DEF Admit, Begin, FirstTodo
<1>15. ASSUME NEW r \in Runners, Attempt(r) PROVE Alone' /\ OwnerNamed'
  BY <1>15 DEF Attempt, Goto
<1>16. ASSUME NEW r \in Runners, StopRetrying(r) PROVE Alone' /\ OwnerNamed'
  BY <1>16 DEF StopRetrying, Goto
<1>17. ASSUME NEW r \in Runners, NoVerdict(r) PROVE Alone' /\ OwnerNamed'
  BY <1>17 DEF NoVerdict, Goto
<1>18. ASSUME NEW r \in Runners, Popen(r) PROVE Alone' /\ OwnerNamed'
  BY <1>18 DEF Popen, Goto
<1>19. ASSUME NEW r \in Runners, Register(r) PROVE Alone' /\ OwnerNamed'
  BY <1>19 DEF Register, Goto
<1>20. ASSUME NEW r \in Runners, Reap(r) PROVE Alone' /\ OwnerNamed'
  BY <1>20 DEF Reap, Goto
<1>21. ASSUME NEW r \in Runners, Judge(r) PROVE Alone' /\ OwnerNamed'
  BY <1>21 DEF Judge
<1>22. ASSUME NEW r \in Runners, Wake(r) PROVE Alone' /\ OwnerNamed'
  BY <1>22 DEF Wake, Goto
<1>23. ASSUME NEW r \in Runners, Record(r) PROVE Alone' /\ OwnerNamed'
  BY <1>23 DEF Record
<1>24. ASSUME NEW r \in Runners, Drained(r) PROVE Alone' /\ OwnerNamed'
  BY <1>24 DEF Drained, Goto
<1>25. ASSUME NEW r \in Runners, ReleaseLease(r) PROVE Alone' /\ OwnerNamed'
  BY <1>25 DEF ReleaseLease, Goto, Freed
<1>26. ASSUME NEW r \in Runners, Break(r) PROVE Alone' /\ OwnerNamed'
  BY <1>26 DEF Break, Leave, Freed
<1>27. ASSUME NEW r \in Runners, Finish(r) PROVE Alone' /\ OwnerNamed'
  BY <1>27 DEF Finish, Goto
<1>28. ASSUME NEW r \in Runners, Tidy(r) PROVE Alone' /\ OwnerNamed'
  <2>1. \A s \in Runners : s # r => ~Present(s)
    BY <1>28 DEF Tidy
  <2>2. ~Owns(r)' /\ \A s \in Runners : pc'[s] = IF s = r THEN "exited" ELSE pc[s]
    BY <1>28 DEF Tidy, Leave
  <2>3. claim' = claim
    BY <1>28 DEF Tidy
  <2> HIDE <1>0, QueueAssumption DEF TypeOK, State
  <2>4. QED
    BY <2>1, <2>2, <2>3
<1>29. ASSUME NEW r \in Runners, ParentLoads(r) PROVE Alone' /\ OwnerNamed'
  BY <1>29 DEF ParentLoads
<1>30. ASSUME NEW r \in Runners, ParentSaves(r) PROVE Alone' /\ OwnerNamed'
  <2>1. disk'.pid = r
    <3>1. disk' = [copy[r] EXCEPT !.status = "running", !.pid = r] /\ copy[r] \in State
      BY <1>30 DEF ParentSaves
    <3>2. QED
      BY <3>1
  <2>2. \A s \in Runners : s # r => ~Present(s)
    BY <1>30 DEF ParentSaves
  <2>3. /\ pc' = pc
        /\ mem' = mem
        /\ \A s \in Runners : claim'[s] = IF s = r THEN "none" ELSE claim[s]
    BY <1>30 DEF ParentSaves
  <2> HIDE <1>0, QueueAssumption DEF TypeOK, State
  <2>4. Alone'
    BY <2>2, <2>3
  <2>5. ASSUME NEW s \in Runners, Owns(s)' PROVE disk'.pid = s /\ mem'[s].pid = s
    <3>1. Owns(s) /\ Present(s)
      BY <2>3, <2>5
    <3>2. s = r
      BY <2>2, <3>1
    <3>3. mem[s].pid = s
      BY <1>0, <3>1
    <3>4. QED
      BY <2>1, <2>3, <3>2, <3>3
  <2>6. QED
    BY <2>4, <2>5 DEF OwnerNamed
<1>31. ASSUME NEW r \in Runners, ParentDies(r) PROVE Alone' /\ OwnerNamed'
  BY <1>31 DEF ParentDies
<1>32. ASSUME NEW r \in Runners, JobEnds(r) PROVE Alone' /\ OwnerNamed'
  BY <1>32 DEF JobEnds, Busy
<1>33. ASSUME NEW r \in Runners, Signal(r) PROVE Alone' /\ OwnerNamed'
  BY <1>33 DEF Signal, Leave
<1>34. ASSUME NEW r \in Runners, Kill(r) PROVE Alone' /\ OwnerNamed'
  BY <1>34 DEF Kill, Leave, Freed
<1>35. CASE GuiCheck
  BY <1>35 DEF GuiCheck
<1>36. CASE GuiRefused
  BY <1>36 DEF GuiRefused
<1>37. CASE OtherTakes
  BY <1>37 DEF OtherTakes
<1>38. CASE OtherGives
  BY <1>38 DEF OtherGives
<1>39. CASE UNCHANGED vars
  BY <1>39 DEF vars
<1>40. QED
  BY <1>1, <1>2, <1>3, <1>4, <1>5, <1>6, <1>7, <1>8, <1>9, <1>10, <1>11, <1>12, <1>13, <1>14,
    <1>15, <1>16, <1>17, <1>18, <1>19, <1>20, <1>21, <1>22, <1>23, <1>24, <1>25, <1>26, <1>27,
    <1>28, <1>29, <1>30, <1>31, <1>32, <1>33, <1>34, <1>35, <1>36, <1>37, <1>38, <1>39 DEF
    Next, Start, Work, ParentWork

\* While the runner drains, `queue stop`, `queue wait` and the Jobs page find
\* it in state.json, wherever its parent's load and save fall.
THEOREM QueueFindable == ASSUME OneAtATime PROVE Spec => []DetachedIsFindable
<1>1. OwnerInv => DetachedIsFindable
  BY DEF OwnerInv, OwnerNamed, DetachedIsFindable, RunnerIsFindable, RunnerPid, Draining, Owns,
    AtStep, Alive
<1>2. OwnerInv /\ [Next]_vars => OwnerInv'
  BY OwnerNext
<1>3. QED
  BY OwnerInit, <1>1, <1>2, PTL DEF Spec

-----------------------------------------------------------------------------
(* A runner alone, started from a shell.  Its copy is what is on disk, so  *)
(* what it settled at its start stays true until its end; what no longer   *)
(* is to do has a record that lets the queue go on.                        *)

NoParent == \A r \in Runners : claim[r] = "none"

\* A runner that has loaded the state and is not gone.
Held(r) == pc[r] \notin {"off", "started", "exited", "dead"}
InStep == \A r \in Runners : Held(r) => mem[r] = disk

Claimed == \A r \in Runners : Owns(r) => disk.status = "running"

\* What is to do has no lasting record; what is not has one to go on from.
Working(r) == pc[r] \in {"waiting", "claiming", "next"} \cup AtStep
TodoOpen ==
  \A r \in Runners : Working(r) =>
    \A i \in todo[r] : disk.steps[i] \notin {"pass", "skipped"}
Settled(i) ==
  \/ disk.steps[i] = "pass"
  \/ disk.preflight /\ disk.steps[i] \in {"skipped", "fail"}
  \/ i \in Continue /\ disk.steps[i] = "fail"
TodoLeft == \A r \in Runners : Working(r) => \A i \in Steps : i \in todo[r] \/ Settled(i)

AtFirst == \A r \in Runners : pc[r] \in AtStep => FirstTodo(r, cur[r])

JobReaped == \A r \in Runners : job[r] \in {"ok", "bad"} => pc[r] \in {"spawned", "wait"}

\* In a real run a pass, recorded or about to be, has an output.
MadeOutput ==
  /\ \A i \in Steps : disk.steps[i] # "skipped" /\ (disk.steps[i] = "pass" => i \in products)
  /\ \A r \in Runners : job[r] = "ok" \/ verdict[r] = "pass" => cur[r] \in products
Made == ~disk.preflight => MadeOutput

VerdictMeans ==
  \A r \in Runners :
    /\ verdict[r] = "skipped" => disk.preflight
    /\ verdict[r] = "missing" => pc[r] = "record"
    /\ verdict[r] = "pass" => pc[r] \in {"judge", "record"}
    /\ verdict[r] = "stopped" => stop[r]

\* A preflight's drain ends early only for a stop.
Judged == \A i \in Steps : disk.steps[i] \notin {"pending", "running"}
EndedFor ==
  \A r \in Runners :
    pc[r] \in {"release", "finish"} => stop[r] \/ ~disk.preflight \/ Judged

TreeGone == ~tree => Done(disk) /\ \A r \in Runners : ~Held(r)

Chained == ~disk.preflight => ChainFindsInputs

\* What a saved outcome says of the steps.
Outcomes ==
  /\ disk.status = "passed" => Done(disk)
  /\ disk.preflight /\ disk.status \in {"passed", "failed"} => Judged

Solo ==
  /\ NoParent /\ InStep /\ Claimed /\ TodoOpen /\ TodoLeft /\ AtFirst /\ JobReaped
  /\ Made /\ VerdictMeans /\ Chained /\ EndedFor /\ TreeGone /\ Outcomes

\* Of a step: no recorded pass is lost.
KeepsPasses == \A i \in Steps : disk.steps[i] = "pass" => disk'.steps[i] = "pass"

SoloInv == OwnerInv /\ LeaseInv /\ (gui = "shut" => Solo)

LEMMA SoloInit == Init => SoloInv
<1> SUFFICES ASSUME Init PROVE SoloInv
  OBVIOUS
<1>1. OwnerInv /\ LeaseInv
  BY OwnerInit, LeaseInvInit
<1>2. /\ disk.steps = [i \in Steps |-> "pending"] /\ disk.status = "created"
      /\ \A r \in Runners : pc[r] = "off" /\ claim[r] = "none"
             /\ job[r] = "none" /\ verdict[r] = "none"
      /\ tree
  BY DEF Init, Created
<1>3. QED
  BY <1>1, <1>2 DEF SoloInv, Solo, NoParent, Held, InStep, Claimed, Owns, Working, TodoOpen,
    TodoLeft, AtFirst, AtStep, JobReaped, Made, MadeOutput, VerdictMeans, Chained,
    ChainFindsInputs, EndedFor, TreeGone, Outcomes

LEMMA SoloNext ==
  ASSUME OneAtATime, "detach" \notin Entries, SoloInv, [Next]_vars
  PROVE  SoloInv' /\ (gui' = "shut" => KeepsPasses)
<1> SUFFICES ASSUME gui' = "shut" PROVE Solo' /\ KeepsPasses
  BY OwnerNext, LeaseInvNext DEF SoloInv
<1>0. TypeOK /\ VerdictReady /\ gui = "shut" /\ Alone /\ JobPlaced /\ Solo
  BY GuiShut DEF SoloInv, OwnerInv, LeaseInv, TypeInv
<1> USE <1>0, QueueAssumption DEF TypeOK, State, VerdictReady, Alone, Present, Alive,
          JobPlaced, AtStep, Solo, NoParent, Held, InStep, Claimed, Owns, Working, TodoOpen,
          Settled, TodoLeft, AtFirst, FirstTodo, JobReaped, Made, MadeOutput, VerdictMeans,
          Judged, Chained, ChainFindsInputs, EndedFor, TreeGone, Outcomes, KeepsPasses, Done,
          local, parent
<1>1. ASSUME NEW r \in Runners, RunFile(r) PROVE Solo' /\ KeepsPasses
  BY <1>1 DEF RunFile, MayStart, Started
<1>2. ASSUME NEW r \in Runners, Resume(r) PROVE Solo' /\ KeepsPasses
  BY <1>2 DEF Resume, MayStart, Started
<1>3. ASSUME NEW r \in Runners, Detach(r) PROVE Solo' /\ KeepsPasses
  BY <1>3 DEF Detach, MayStart, Started
<1>4. ASSUME NEW r \in Runners, GuiResume(r) PROVE Solo' /\ KeepsPasses
  BY <1>4 DEF GuiResume, Started
<1>5. ASSUME NEW r \in Runners, Load(r) PROVE Solo' /\ KeepsPasses
  BY <1>5 DEF Load, Goto
<1>6. ASSUME NEW r \in Runners, PinGone(r) PROVE Solo' /\ KeepsPasses
  BY <1>6 DEF PinGone, Leave
<1>7. ASSUME NEW r \in Runners, Arm(r) PROVE Solo' /\ KeepsPasses
  <2>1. pc[r] = "loaded" /\ mem[r] = disk
    BY <1>7 DEF Arm
  <2>2. \A s \in Runners : s # r => pc[s] \in {"off", "exited", "dead"}
    BY <2>1
  <2>3. /\ pc'[r] \in {"claiming", "waiting"}
        /\ \A s \in Runners : s # r => pc'[s] = pc[s]
    <3>1. PICK p \in {"claiming", "waiting"} : pc' = [pc EXCEPT ![r] = p]
      BY <1>7 DEF Arm
    <3>2. QED
      BY <3>1
  <2>4. todo'[r] = {i \in Steps : disk.steps[i] \notin {"pass", "skipped"}}
    BY <1>7, <2>1 DEF Arm
  <2>5. UNCHANGED <<disk, tree, products, mem, cur, stop, verdict, job, claim>>
    BY <1>7 DEF Arm
  <2>6. ~disk.preflight => \A i \in Steps : disk.steps[i] # "skipped"
    OBVIOUS
  <2> HIDE QueueAssumption DEF TypeOK, State, VerdictReady, JobPlaced
  <2>7. NoParent' /\ InStep' /\ Claimed'
    BY <2>1, <2>2, <2>3, <2>4, <2>5, <2>6
  <2>8. TodoOpen' /\ TodoLeft' /\ AtFirst'
    BY <2>1, <2>2, <2>3, <2>4, <2>5, <2>6
  <2>9. JobReaped' /\ Made' /\ VerdictMeans' /\ Chained'
    BY <2>1, <2>2, <2>3, <2>4, <2>5, <2>6
  <2>10. EndedFor' /\ TreeGone' /\ Outcomes' /\ KeepsPasses
    BY <2>1, <2>2, <2>3, <2>4, <2>5, <2>6
  <2>11. QED
    BY <2>7, <2>8, <2>9, <2>10
<1>8. ASSUME NEW r \in Runners, TakeLease(r) PROVE Solo' /\ KeepsPasses
  BY <1>8 DEF TakeLease, Goto
<1>9. ASSUME NEW r \in Runners, Defer(r) PROVE Solo' /\ KeepsPasses
  <2>1. \A s \in Runners : s # r => pc[s] \in {"off", "exited", "dead"}
    BY <1>9 DEF Defer, Leave
  <2>2. pc[r] = "waiting" /\ Held(r) /\ mem[r] = disk /\ disk \in State
    BY <1>9 DEF Defer, Leave
  <2>3. disk' = [disk EXCEPT !.status = "deferred"]
    BY <1>9, <2>2 DEF Defer, Leave
  <2>4. disk'.status = "deferred" /\ disk'.preflight = disk.preflight /\ disk'.steps = disk.steps
    BY <1>9, <2>2, <2>3 DEF Defer, Leave
  <2>5. \A s \in Runners : pc'[s] = IF s = r THEN "exited" ELSE pc[s]
    BY <1>9 DEF Defer, Leave
  <2>6. \A s \in Runners : verdict'[s] = IF s = r THEN "none" ELSE verdict[s]
    BY <1>9 DEF Defer, Leave
  <2>7. \A s \in Runners : s # r => stop'[s] = stop[s]
    BY <1>9 DEF Defer, Leave
  <2>8. UNCHANGED <<tree, products, cur, job, claim>>
    BY <1>9 DEF Defer, Leave
  <2> HIDE QueueAssumption DEF TypeOK, State, VerdictReady, JobPlaced
  <2>9. NoParent' /\ InStep' /\ Claimed'
    BY <2>1, <2>2, <2>3, <2>4, <2>5, <2>6, <2>7, <2>8
  <2>10. TodoOpen' /\ TodoLeft' /\ AtFirst'
    BY <2>1, <2>2, <2>3, <2>4, <2>5, <2>6, <2>7, <2>8
  <2>11. JobReaped' /\ Made' /\ VerdictMeans' /\ Chained'
    BY <2>1, <2>2, <2>3, <2>4, <2>5, <2>6, <2>7, <2>8
  <2>12. EndedFor' /\ TreeGone' /\ Outcomes' /\ KeepsPasses
    BY <2>1, <2>2, <2>3, <2>4, <2>5, <2>6, <2>7, <2>8
  <2>13. QED
    BY <2>9, <2>10, <2>11, <2>12
<1>10. ASSUME NEW r \in Runners, Claim(r) PROVE Solo' /\ KeepsPasses
  <2>1. \A s \in Runners : s # r => pc[s] \in {"off", "exited", "dead"}
    BY <1>10 DEF Claim, Goto
  <2>2. pc[r] = "claiming" /\ Held(r) /\ mem[r] = disk /\ disk \in State
    BY <1>10 DEF Claim, Goto
  <2>3. disk' = [disk EXCEPT !.status = "running", !.pid = r] /\ mem'[r] = disk'
    BY <1>10, <2>2 DEF Claim, Goto
  <2>4. disk'.status = "running" /\ disk'.preflight = disk.preflight /\ disk'.steps = disk.steps
    BY <1>10, <2>2, <2>3 DEF Claim, Goto
  <2>5. \A s \in Runners : pc'[s] = IF s = r THEN "next" ELSE pc[s]
    BY <1>10 DEF Claim, Goto
  <2>6. UNCHANGED <<tree, products, todo, cur, stop, verdict, job, claim>>
    BY <1>10 DEF Claim, Goto
  <2> HIDE QueueAssumption DEF TypeOK, State, VerdictReady, JobPlaced
  <2>7. NoParent' /\ InStep' /\ Claimed'
    BY <2>1, <2>2, <2>3, <2>4, <2>5, <2>6
  <2>8. TodoOpen' /\ TodoLeft' /\ AtFirst'
    BY <2>1, <2>2, <2>3, <2>4, <2>5, <2>6
  <2>9. JobReaped' /\ Made' /\ VerdictMeans' /\ Chained'
    BY <2>1, <2>2, <2>3, <2>4, <2>5, <2>6
  <2>10. EndedFor' /\ TreeGone' /\ Outcomes' /\ KeepsPasses
    BY <2>1, <2>2, <2>3, <2>4, <2>5, <2>6
  <2>11. QED
    BY <2>7, <2>8, <2>9, <2>10
<1>11. ASSUME NEW r \in Runners, NEW i \in Steps, SkipStep(r, i) PROVE Solo' /\ KeepsPasses
  <2>1. pc[r] = "next" /\ mem[r] = disk /\ disk.preflight /\ FirstTodo(r, i)
    BY <1>11 DEF SkipStep, Begin, Skipped
  <2>2. \A s \in Runners : s # r => pc[s] \in {"off", "exited", "dead"}
    BY <1>11 DEF SkipStep, Begin
  <2>3. \A s \in Runners :
          /\ pc'[s] = IF s = r THEN "record" ELSE pc[s]
          /\ cur'[s] = IF s = r THEN i ELSE cur[s]
          /\ verdict'[s] = IF s = r THEN "skipped" ELSE verdict[s]
    BY <1>11 DEF SkipStep, Begin
  <2>4. UNCHANGED <<disk, tree, products, mem, todo, stop, job, claim>>
    BY <1>11 DEF SkipStep, Begin
  <2> HIDE QueueAssumption DEF TypeOK, State, VerdictReady, JobPlaced
  <2>5. NoParent' /\ InStep' /\ Claimed'
    BY <2>1, <2>2, <2>3, <2>4
  <2>6. TodoOpen' /\ TodoLeft' /\ AtFirst'
    BY <2>1, <2>2, <2>3, <2>4
  <2>7. JobReaped' /\ Made' /\ VerdictMeans' /\ Chained'
    BY <2>1, <2>2, <2>3, <2>4
  <2>8. EndedFor' /\ TreeGone' /\ Outcomes' /\ KeepsPasses
    BY <2>1, <2>2, <2>3, <2>4
  <2>9. QED
    BY <2>5, <2>6, <2>7, <2>8
<1>12. ASSUME NEW r \in Runners, NEW i \in Steps, InputMissing(r, i) PROVE Solo' /\ KeepsPasses
  <2>1. pc[r] = "next" /\ mem[r] = disk /\ FirstTodo(r, i)
    BY <1>12 DEF InputMissing, Begin
  <2>2. \A s \in Runners : s # r => pc[s] \in {"off", "exited", "dead"}
    BY <1>12 DEF InputMissing, Begin
  <2>3. \A s \in Runners :
          /\ pc'[s] = IF s = r THEN "record" ELSE pc[s]
          /\ cur'[s] = IF s = r THEN i ELSE cur[s]
          /\ verdict'[s] = IF s = r THEN "missing" ELSE verdict[s]
    BY <1>12 DEF InputMissing, Begin
  <2>4. UNCHANGED <<disk, tree, products, mem, todo, stop, job, claim>>
    BY <1>12 DEF InputMissing, Begin
  <2>5. ~disk.preflight => \E j \in PathInputs(i) : disk.steps[j] # "pass"
    <3>1. \A j \in PathInputs(i) : j \in Steps
      BY DEF PathInputs
    <3>2. ~disk.preflight => \E j \in PathInputs(i) : j \notin products
      BY <1>12, <2>1 DEF InputMissing, Found
    <3>3. QED
      BY <3>1, <3>2
  <2> HIDE QueueAssumption DEF TypeOK, State, VerdictReady, JobPlaced
  <2>6. NoParent' /\ InStep' /\ Claimed'
    BY <2>1, <2>2, <2>3, <2>4
  <2>7. TodoOpen' /\ TodoLeft' /\ AtFirst'
    BY <2>1, <2>2, <2>3, <2>4
  <2>8. JobReaped' /\ Made' /\ VerdictMeans'
    BY <2>1, <2>2, <2>3, <2>4
  <2>9. Chained'
    BY <2>1, <2>2, <2>3, <2>4, <2>5
  <2>10. EndedFor' /\ TreeGone' /\ Outcomes' /\ KeepsPasses
    BY <2>1, <2>2, <2>3, <2>4
  <2>11. QED
    BY <2>6, <2>7, <2>8, <2>9, <2>10
<1>13. ASSUME NEW r \in Runners, NEW i \in Steps, GateRefuses(r, i) PROVE Solo' /\ KeepsPasses
  BY <1>13 DEF GateRefuses, Begin, FirstTodo
<1>14. ASSUME NEW r \in Runners, NEW i \in Steps, Admit(r, i) PROVE Solo' /\ KeepsPasses
  <2>1. pc[r] = "next" /\ mem[r] = disk /\ FirstTodo(r, i)
    BY <1>14 DEF Admit, Begin
  <2>2. \A s \in Runners : s # r => pc[s] \in {"off", "exited", "dead"}
    BY <1>14 DEF Admit, Begin
  <2>3. \A s \in Runners :
          /\ pc'[s] = IF s = r THEN "attempt" ELSE pc[s]
          /\ cur'[s] = IF s = r THEN i ELSE cur[s]
          /\ verdict'[s] = IF s = r THEN "none" ELSE verdict[s]
    BY <1>14 DEF Admit, Begin
  <2>4. UNCHANGED <<disk, tree, products, mem, todo, stop, job, claim>>
    BY <1>14 DEF Admit, Begin
  <2> HIDE QueueAssumption DEF TypeOK, State, VerdictReady, JobPlaced
  <2>5. NoParent' /\ InStep' /\ Claimed'
    BY <2>1, <2>2, <2>3, <2>4
  <2>6. TodoOpen' /\ TodoLeft' /\ AtFirst'
    BY <2>1, <2>2, <2>3, <2>4
  <2>7. JobReaped' /\ Made' /\ VerdictMeans' /\ Chained'
    BY <2>1, <2>2, <2>3, <2>4
  <2>8. EndedFor' /\ TreeGone' /\ Outcomes' /\ KeepsPasses
    BY <2>1, <2>2, <2>3, <2>4
  <2>9. QED
    BY <2>5, <2>6, <2>7, <2>8
<1>15. ASSUME NEW r \in Runners, Attempt(r) PROVE Solo' /\ KeepsPasses
  <2>1. \A s \in Runners : s # r => pc[s] \in {"off", "exited", "dead"}
    BY <1>15 DEF Attempt, Goto
  <2>2. pc[r] = "attempt" /\ Held(r) /\ mem[r] = disk /\ disk \in State
    BY <1>15 DEF Attempt, Goto
  <2>3. disk' = [disk EXCEPT !.steps[cur[r]] = "running"] /\ mem'[r] = disk'
    BY <1>15, <2>2 DEF Attempt, Goto
  <2>4. /\ disk'.status = disk.status
        /\ disk'.preflight = disk.preflight
        /\ \A i \in Steps : disk'.steps[i] = IF i = cur[r] THEN "running" ELSE disk.steps[i]
    BY <1>15, <2>2, <2>3 DEF Attempt, Goto
  <2>5. \A s \in Runners : pc'[s] = IF s = r THEN "popen" ELSE pc[s]
    BY <1>15 DEF Attempt, Goto
  <2>6. cur[r] \in todo[r] /\ cur[r] \in Steps
    BY <1>15 DEF Attempt, Goto
  <2>7. UNCHANGED <<tree, products, todo, cur, stop, verdict, job, claim>>
    BY <1>15 DEF Attempt, Goto
  <2> HIDE QueueAssumption DEF TypeOK, State, VerdictReady, JobPlaced
  <2>8. NoParent' /\ InStep' /\ Claimed'
    BY <2>1, <2>2, <2>3, <2>4, <2>5, <2>6, <2>7
  <2>9. TodoOpen' /\ TodoLeft' /\ AtFirst'
    BY <2>1, <2>2, <2>3, <2>4, <2>5, <2>6, <2>7
  <2>10. JobReaped' /\ Made' /\ VerdictMeans' /\ Chained'
    BY <2>1, <2>2, <2>3, <2>4, <2>5, <2>6, <2>7
  <2>11. EndedFor' /\ TreeGone' /\ Outcomes' /\ KeepsPasses
    BY <2>1, <2>2, <2>3, <2>4, <2>5, <2>6, <2>7
  <2>12. QED
    BY <2>8, <2>9, <2>10, <2>11
<1>16. ASSUME NEW r \in Runners, StopRetrying(r) PROVE Solo' /\ KeepsPasses
  BY <1>16 DEF StopRetrying, Goto
<1>17. ASSUME NEW r \in Runners, NoVerdict(r) PROVE Solo' /\ KeepsPasses
  BY <1>17 DEF NoVerdict, Goto
<1>18. ASSUME NEW r \in Runners, Popen(r) PROVE Solo' /\ KeepsPasses
  BY <1>18 DEF Popen, Goto
<1>19. ASSUME NEW r \in Runners, Register(r) PROVE Solo' /\ KeepsPasses
  BY <1>19 DEF Register, Goto
<1>20. ASSUME NEW r \in Runners, Reap(r) PROVE Solo' /\ KeepsPasses
  BY <1>20 DEF Reap, Goto
<1>21. ASSUME NEW r \in Runners, Judge(r) PROVE Solo' /\ KeepsPasses
  <2>1. NoParent' /\ InStep' /\ Claimed' /\ TodoOpen' /\ TodoLeft' /\ AtFirst' /\ JobReaped'
    BY <1>21 DEF Judge
  <2>2. Made' /\ VerdictMeans' /\ EndedFor' /\ TreeGone' /\ Outcomes' /\ KeepsPasses
    BY <1>21 DEF Judge
  <2>3. Chained'
    BY <1>21 DEF Judge
  <2>4. QED
    BY <2>1, <2>2, <2>3
<1>22. ASSUME NEW r \in Runners, Wake(r) PROVE Solo' /\ KeepsPasses
  BY <1>22 DEF Wake, Goto
<1>23. ASSUME NEW r \in Runners, Record(r) PROVE Solo' /\ KeepsPasses
  <2>1. \A s \in Runners : s # r => pc[s] \in {"off", "exited", "dead"}
    BY <1>23 DEF Record
  <2>2. pc[r] = "record" /\ Held(r) /\ mem[r] = disk /\ disk \in State
    BY <1>23 DEF Record
  <2>3. /\ disk' = [disk EXCEPT !.steps[cur[r]] =
                      IF verdict[r] = "missing" THEN "fail" ELSE verdict[r]]
        /\ mem'[r] = disk'
    BY <1>23, <2>2 DEF Record
  <2>4. /\ disk'.status = disk.status
        /\ disk'.preflight = disk.preflight
        /\ \A i \in Steps :
             disk'.steps[i] = IF i = cur[r]
                              THEN (IF verdict[r] = "missing" THEN "fail" ELSE verdict[r])
                              ELSE disk.steps[i]
    BY <1>23, <2>2, <2>3 DEF Record
  <2>5. /\ cur[r] \in todo[r]
        /\ cur[r] \in Steps
        /\ verdict[r] \in {"pass", "fail", "missing", "stopped", "skipped"}
    BY <1>23 DEF Record
  <2>6. \A s \in Runners : pc'[s] = IF s = r THEN pc'[r] ELSE pc[s]
    BY <1>23 DEF Record
  <2>7. \/ pc'[r] = "release" /\ (verdict[r] = "stopped" \/ ~disk.preflight)
        \/ /\ pc'[r] = "next" /\ verdict[r] # "stopped"
           /\ verdict[r] \in {"fail", "missing"} => disk.preflight \/ cur[r] \in Continue
    BY <1>23, <2>2, <2>5 DEF Record
  <2>8. \A s \in Runners : verdict'[s] = IF s = r THEN "none" ELSE verdict[s]
    BY <1>23 DEF Record
  <2>9. \A s \in Runners : todo'[s] = IF s = r THEN todo[r] \ {cur[r]} ELSE todo[s]
    BY <1>23 DEF Record
  <2>10. UNCHANGED <<tree, products, cur, stop, job, claim>>
    BY <1>23 DEF Record
  <2> HIDE QueueAssumption DEF TypeOK, State, VerdictReady, JobPlaced
  <2>11. NoParent' /\ InStep' /\ Claimed'
    BY <2>1, <2>2, <2>3, <2>4, <2>5, <2>6, <2>7, <2>8, <2>9, <2>10
  <2>12. TodoOpen' /\ TodoLeft' /\ AtFirst'
    BY <2>1, <2>2, <2>3, <2>4, <2>5, <2>6, <2>7, <2>8, <2>9, <2>10
  <2>13. JobReaped' /\ Made' /\ VerdictMeans' /\ Chained'
    BY <2>1, <2>2, <2>3, <2>4, <2>5, <2>6, <2>7, <2>8, <2>9, <2>10
  <2>14. EndedFor' /\ TreeGone' /\ Outcomes' /\ KeepsPasses
    BY <2>1, <2>2, <2>3, <2>4, <2>5, <2>6, <2>7, <2>8, <2>9, <2>10
  <2>15. QED
    BY <2>11, <2>12, <2>13, <2>14
<1>24. ASSUME NEW r \in Runners, Drained(r) PROVE Solo' /\ KeepsPasses
  <2>1. EndedFor'
    BY <1>24 DEF Drained, Goto
  <2>2. NoParent' /\ InStep' /\ Claimed' /\ TodoOpen' /\ TodoLeft' /\ AtFirst' /\ JobReaped'
    BY <1>24 DEF Drained, Goto
  <2>3. Made' /\ VerdictMeans' /\ Chained' /\ TreeGone' /\ Outcomes' /\ KeepsPasses
    BY <1>24 DEF Drained, Goto
  <2>4. QED
    BY <2>1, <2>2, <2>3
<1>25. ASSUME NEW r \in Runners, ReleaseLease(r) PROVE Solo' /\ KeepsPasses
  BY <1>25 DEF ReleaseLease, Goto, Freed
<1>26. ASSUME NEW r \in Runners, Break(r) PROVE Solo' /\ KeepsPasses
  BY <1>26 DEF Break, Leave, Freed
<1>27. ASSUME NEW r \in Runners, Finish(r) PROVE Solo' /\ KeepsPasses
  <2>1. \A s \in Runners : s # r => pc[s] \in {"off", "exited", "dead"}
    BY <1>27 DEF Finish, Goto
  <2>2. pc[r] = "finish" /\ Held(r) /\ mem[r] = disk /\ disk \in State
    BY <1>27 DEF Finish, Goto
  <2>3. disk' = [disk EXCEPT !.status = Outcome(r), !.pid = Nobody] /\ mem'[r] = disk'
    BY <1>27, <2>2 DEF Finish, Goto
  <2>4. disk'.status = Outcome(r) /\ disk'.preflight = disk.preflight /\ disk'.steps = disk.steps
    BY <1>27, <2>2, <2>3 DEF Finish, Goto
  <2>5. \A s \in Runners : pc'[s] = IF s = r THEN "tidy" ELSE pc[s]
    BY <1>27 DEF Finish, Goto
  <2>6. UNCHANGED <<tree, products, todo, cur, stop, verdict, job, claim>>
    BY <1>27 DEF Finish, Goto
  <2>7. Outcome(r) = IF stop[r] THEN "stopped" ELSE IF Done(disk) THEN "passed" ELSE "failed"
    BY <1>27, <2>2 DEF Finish, Goto, Outcome
  <2> HIDE QueueAssumption DEF TypeOK, State, VerdictReady, JobPlaced
  <2>8. NoParent' /\ InStep'
    <3>1. mem'[r] = disk' /\ claim' = claim
      BY <2>3, <2>6
    <3>2. QED
      BY <2>1, <2>5, <3>1
  <2>9. Claimed' /\ TodoOpen' /\ TodoLeft' /\ AtFirst'
    BY <2>1, <2>2, <2>3, <2>4, <2>5, <2>6, <2>7
  <2>10. JobReaped' /\ Made' /\ VerdictMeans' /\ Chained'
    BY <2>1, <2>2, <2>3, <2>4, <2>5, <2>6, <2>7
  <2>11. EndedFor' /\ TreeGone' /\ Outcomes' /\ KeepsPasses
    BY <2>1, <2>2, <2>3, <2>4, <2>5, <2>6, <2>7
  <2>12. QED
    BY <2>8, <2>9, <2>10, <2>11
<1>28. ASSUME NEW r \in Runners, Tidy(r) PROVE Solo' /\ KeepsPasses
  <2>1. \A s \in Runners : s # r => pc[s] \in {"off", "exited", "dead"}
    BY <1>28 DEF Tidy, Leave
  <2>2. pc[r] = "tidy" /\ Held(r) /\ mem[r] = disk /\ disk \in State
    BY <1>28 DEF Tidy, Leave
  <2>3. disk' = disk
    BY <1>28, <2>2 DEF Tidy, Leave
  <2>4. \A s \in Runners : pc'[s] = IF s = r THEN "exited" ELSE pc[s]
    BY <1>28 DEF Tidy, Leave
  <2>5. \A s \in Runners : verdict'[s] = IF s = r THEN "none" ELSE verdict[s]
    BY <1>28 DEF Tidy, Leave
  <2>6. \A s \in Runners : s # r => stop'[s] = stop[s]
    BY <1>28 DEF Tidy, Leave
  <2>7. ~disk.preflight => products' = products
    BY <1>28, <2>2 DEF Tidy, Leave
  <2>8. tree' = tree \/ Done(disk)
    BY <1>28, <2>2 DEF Tidy, Leave
  <2>9. UNCHANGED <<cur, job, claim>>
    BY <1>28 DEF Tidy, Leave
  <2> HIDE QueueAssumption DEF TypeOK, State, VerdictReady, JobPlaced
  <2>10. NoParent' /\ InStep' /\ Claimed'
    BY <2>1, <2>2, <2>3, <2>4, <2>5, <2>6, <2>7, <2>8, <2>9
  <2>11. TodoOpen' /\ TodoLeft' /\ AtFirst'
    BY <2>1, <2>2, <2>3, <2>4, <2>5, <2>6, <2>7, <2>8, <2>9
  <2>12. JobReaped' /\ Made' /\ VerdictMeans' /\ Chained'
    BY <2>1, <2>2, <2>3, <2>4, <2>5, <2>6, <2>7, <2>8, <2>9
  <2>13. EndedFor' /\ TreeGone' /\ Outcomes' /\ KeepsPasses
    BY <2>1, <2>2, <2>3, <2>4, <2>5, <2>6, <2>7, <2>8, <2>9
  <2>14. QED
    BY <2>10, <2>11, <2>12, <2>13
<1>29. ASSUME NEW r \in Runners, ParentLoads(r) PROVE Solo' /\ KeepsPasses
  BY <1>29 DEF ParentLoads
<1>30. ASSUME NEW r \in Runners, ParentSaves(r) PROVE Solo' /\ KeepsPasses
  BY <1>30 DEF ParentSaves
<1>31. ASSUME NEW r \in Runners, ParentDies(r) PROVE Solo' /\ KeepsPasses
  BY <1>31 DEF ParentDies
<1>32. ASSUME NEW r \in Runners, JobEnds(r) PROVE Solo' /\ KeepsPasses
  BY <1>32 DEF JobEnds, Busy
<1>33. ASSUME NEW r \in Runners, Signal(r) PROVE Solo' /\ KeepsPasses
  <2>1. CASE Armed(r)
    <3>1. /\ stop' = [stop EXCEPT ![r] = TRUE]
          /\ UNCHANGED <<disk, tree, products, pc, cur, job, parent, mem, todo, verdict>>
      BY <1>33, <2>1 DEF Signal
    <3>2. stop'[r] /\ \A s \in Runners : s # r => stop'[s] = stop[s]
      BY <3>1
    <3> HIDE QueueAssumption DEF TypeOK, State, VerdictReady, JobPlaced
    <3>3. QED
      BY <3>1, <3>2
  <2>2. CASE ~Armed(r)
    <3>1. /\ Leave(r, "dead")
          /\ UNCHANGED <<disk, tree, products, cur, job, parent>>
      BY <1>33, <2>2 DEF Signal
    <3>2. pc[r] \in {"started", "loaded"}
      BY <1>33, <2>2 DEF Signal, Armed
    <3>3. \A s \in Runners :
            /\ pc'[s] = IF s = r THEN "dead" ELSE pc[s]
            /\ mem'[s] = IF s = r THEN Created ELSE mem[s]
            /\ verdict'[s] = IF s = r THEN "none" ELSE verdict[s]
            /\ todo'[s] = IF s = r THEN {} ELSE todo[s]
      BY <3>1 DEF Leave
    <3> HIDE QueueAssumption DEF TypeOK, State, VerdictReady, JobPlaced
    <3>4. /\ UNCHANGED <<disk, tree, products, cur, job, claim>>
          /\ \A s \in Runners : s # r => stop'[s] = stop[s]
      BY <3>1 DEF Leave
    <3> HIDE <3>1
    <3>5. NoParent' /\ InStep' /\ Claimed'
      BY <3>2, <3>3, <3>4
    <3>6. TodoOpen' /\ TodoLeft' /\ AtFirst'
      BY <3>2, <3>3, <3>4
    <3>7. JobReaped' /\ Made' /\ VerdictMeans' /\ Chained'
      BY <3>2, <3>3, <3>4
    <3>8. EndedFor' /\ TreeGone' /\ Outcomes' /\ KeepsPasses
      BY <3>2, <3>3, <3>4
    <3>9. QED
      BY <3>5, <3>6, <3>7, <3>8
  <2>3. QED
    BY <2>1, <2>2
<1>34. ASSUME NEW r \in Runners, Kill(r) PROVE Solo' /\ KeepsPasses
  BY <1>34 DEF Kill, Leave, Freed
<1>35. CASE GuiCheck
  BY <1>35 DEF GuiCheck
<1>36. CASE GuiRefused
  BY <1>36 DEF GuiRefused
<1>37. CASE OtherTakes
  BY <1>37 DEF OtherTakes
<1>38. CASE OtherGives
  BY <1>38 DEF OtherGives
<1>39. CASE UNCHANGED vars
  BY <1>39 DEF vars
<1>40. QED
  <2> HIDE <1>0, QueueAssumption DEF TypeOK, State, VerdictReady, JobPlaced, Solo, KeepsPasses
  <2> QED
    BY <1>1, <1>2, <1>3, <1>4, <1>5, <1>6, <1>7, <1>8, <1>9, <1>10, <1>11, <1>12, <1>13, <1>14,
      <1>15, <1>16, <1>17, <1>18, <1>19, <1>20, <1>21, <1>22, <1>23, <1>24, <1>25, <1>26, <1>27,
      <1>28, <1>29, <1>30, <1>31, <1>32, <1>33, <1>34, <1>35, <1>36, <1>37, <1>38, <1>39 DEF
      Next, Start, Work, ParentWork

-----------------------------------------------------------------------------
(* What the runs check of a queue with one operator at a time, for any     *)
(* number of runners, steps and retries.                                   *)

\* The invariant as a shell leaves it: no Jobs page is ever opened.
ShellInv == SoloInv /\ gui = "shut"

OneOperator == OneAtATime /\ Entries \subseteq {"file", "resume"}

LEMMA ShellHolds ==
  ASSUME OneOperator
  PROVE  /\ Init => ShellInv
         /\ ShellInv /\ [Next]_vars => ShellInv' /\ KeepsPasses
<1>1. OneAtATime /\ "detach" \notin Entries /\ "gui" \notin Entries
  BY DEF OneOperator
<1>2. Init => ShellInv
  BY <1>1, SoloInit DEF ShellInv, Init
<1>3. ASSUME ShellInv, [Next]_vars PROVE ShellInv' /\ KeepsPasses
  <2>1. TypeOK /\ SoloInv /\ gui = "shut"
    BY <1>3 DEF ShellInv, SoloInv, LeaseInv, TypeInv
  <2>2. gui' = "shut"
    BY <1>3, <2>1, GuiShut
  <2>3. QED
    BY <1>1, <1>3, <2>1, <2>2, SoloNext DEF ShellInv
<1>4. QED
  BY <1>2, <1>3

\* Steps of a real run are run in order: each step that runs finds every
\* earlier one passed, or failed with leave to continue.
THEOREM QueueInOrder == ASSUME OneOperator PROVE Spec => []InOrder
<1>1. ShellInv => InOrder
  <2> SUFFICES ASSUME ShellInv, NEW r \in Runners, Alive(r), Busy(r), ~disk.preflight,
                      NEW j \in 1..(cur[r] - 1)
               PROVE  disk.steps[j] = "pass" \/ (j \in Continue /\ disk.steps[j] = "fail")
    BY DEF InOrder
  <2>1. pc[r] \in {"spawned", "wait"} /\ cur[r] \in Steps
    BY DEF ShellInv, SoloInv, LeaseInv, TypeInv, TypeOK, JobPlaced, Busy, Alive
  <2>2. j \in Steps /\ j < cur[r]
    BY <2>1, QueueAssumption DEF Steps
  <2>3. j \notin todo[r]
    BY <2>1, <2>2, QueueAssumption DEF ShellInv, SoloInv, Solo, AtFirst, FirstTodo, AtStep, Steps
  <2>4. Settled(j)
    BY <2>1, <2>2, <2>3 DEF ShellInv, SoloInv, Solo, TodoLeft, Working, AtStep
  <2>5. QED
    BY <2>4 DEF Settled
<1>2. QED
  BY ShellHolds, <1>1, PTL DEF Spec

\* The pinned worktree is there for every running step and every step to come.
THEOREM QueueTreeOutlivesWork == ASSUME OneOperator PROVE Spec => []TreeOutlivesWork
<1>1. ShellInv => TreeOutlivesWork
  BY DEF ShellInv, SoloInv, LeaseInv, JobPlaced, Solo, TreeGone, Held, TreeOutlivesWork, Busy,
    Alive
<1>2. QED
  BY ShellHolds, <1>1, PTL DEF Spec

\* A queue reported `passed` ran every step to a pass and left all it made.
THEOREM QueuePassedMeansAll == ASSUME OneOperator PROVE Spec => []PassedMeansAll
<1>1. ShellInv => PassedMeansAll
  <2> SUFFICES ASSUME ShellInv, disk.status = "passed"
               PROVE  Done(disk) /\ (disk.preflight \/ products = Steps)
    BY DEF PassedMeansAll
  <2>1. Done(disk) /\ (disk.preflight \/ MadeOutput)
    BY DEF ShellInv, SoloInv, Solo, Outcomes, Made
  <2>2. products \subseteq Steps
    BY DEF ShellInv, SoloInv, LeaseInv, TypeInv, TypeOK
  <2>3. QED
    BY <2>1, <2>2 DEF Done, MadeOutput
<1>2. QED
  BY ShellHolds, <1>1, PTL DEF Spec

\* No sequence of stops, kills and resumes loses a recorded pass.
THEOREM QueuePassIsKept == ASSUME OneOperator PROVE Spec => PassIsKept
<1>1. ShellInv /\ [Next]_vars =>
        [\A i \in Steps : disk.steps[i] = "pass" => disk'.steps[i] = "pass"]_vars
  BY ShellHolds DEF KeepsPasses
<1>2. QED
  BY ShellHolds, <1>1, PTL DEF Spec, PassIsKept

\* What one runner of a real queue made, a later one finds.
THEOREM QueueChainFindsInputs ==
  ASSUME OneOperator PROVE Spec => [](~disk.preflight => ChainFindsInputs)
<1>1. ShellInv => (~disk.preflight => ChainFindsInputs)
  BY DEF ShellInv, SoloInv, Solo, Chained
<1>2. QED
  BY ShellHolds, <1>1, PTL DEF Spec

\* A preflight that ended has judged every step, a Jobs page open or not.
THEOREM QueuePreflightJudges ==
  ASSUME OneAtATime, "detach" \notin Entries PROVE Spec => []PreflightJudgesEach
<1>1. SoloInv => PreflightJudgesEach
  BY DEF SoloInv, Solo, Outcomes, Judged, PreflightJudgesEach, PreflightJudgesAll
<1>2. SoloInv /\ [Next]_vars => SoloInv'
  BY SoloNext
<1>3. QED
  BY SoloInit, <1>1, <1>2, PTL DEF Spec


=============================================================================

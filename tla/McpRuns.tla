------------------------------- MODULE McpRuns -------------------------------
(***************************************************************************)
(* Jobs an agent launches on this box: vqlab/ops/runs.py (launch, status,  *)
(* stop) and the detached process it starts, vqlab/ops/supervisor.py.      *)
(*                                                                         *)
(* A run is a directory with one meta.json.  Its launcher, its supervisor  *)
(* and whoever stops it each hold a copy of that record and write it whole *)
(* by truncating the file and then filling it; nothing locks it.  The      *)
(* supervisor holds the GPU lease (GpuLease) around the job and its        *)
(* retries.                                                                *)
(***************************************************************************)
EXTENDS Naturals, FiniteSets

CONSTANTS
  Runs,      \* run directories; each has one launcher and one supervisor
  Nobody,    \* no holder of the GPU lease
  Other,     \* a lease holder that is not one of these runs
  Free,      \* runs of commands that never touch the GPU
  Timed,     \* runs of commands that refuse a busy box (bench/box_quiet.py)
  Resumable, \* runs of commands that may be tried again (RESUMABLE)
  MaxRetries, \* most retries a launch is asked for
  MaxStops   \* stop calls considered for one run

ASSUME RunsAssumption ==
  /\ Free \subseteq Runs /\ Timed \subseteq Runs \ Free
  /\ Resumable \subseteq Runs
  /\ MaxRetries \in Nat /\ MaxStops \in Nat
  /\ Nobody \notin Runs /\ Other \notin Runs /\ Nobody # Other

VARIABLES
  meta,     \* meta.json of each run
  lease,    \* who holds the GPU lease
  launcher, \* how far launch() is for each run
  retries,  \* the retries its record allows
  sup,      \* where each supervisor is
  mine,     \* the supervisor's copy of meta
  tries,    \* its attempts so far
  rc,       \* the outcome it will record: the last attempt's
  job,      \* the job process of the current attempt
  told,     \* TRUE once the run's process group was sent SIGTERM
  stopper,  \* a stop() call: its place and its copy of meta
  stops     \* stop calls made

vars == <<meta, lease, launcher, retries, sup, mine, tries, rc, job, told, stopper, stops>>

-----------------------------------------------------------------------------
(* meta.json: what its readers look at, or nothing while a write is on.    *)

Status == {"launching", "running", "completed", "failed", "stopped", "deferred"}
Record == [status : Status, pid : BOOLEAN, cmd : BOOLEAN]
NoFile == [status |-> "none", pid |-> FALSE, cmd |-> FALSE]
Metas  == Record \cup {NoFile}

\* _read_meta: a missing or half-written file reads as {}.
First == [status |-> "launching", pid |-> FALSE, cmd |-> TRUE]

Places == {"off", "started", "waiting", "deferring", "held", "attempt", "filling", "popen",
           "born", "noting", "filling2", "wait", "ending", "judge", "nap", "final",
           "filling3", "release", "gone"}

Alive(r) == sup[r] \notin {"off", "gone"}
Gpu(r)   == r \notin Free

Freed(r) == IF lease = r THEN Nobody ELSE lease

\* A job that exists and has not ended.
Running(r) == job[r] \in {"starting", "live"}

Init ==
  /\ meta = [r \in Runs |-> NoFile]
  /\ lease = Nobody
  /\ launcher = [r \in Runs |-> "none"]
  /\ retries = [r \in Runs |-> 0]
  /\ sup = [r \in Runs |-> "off"]
  /\ mine = [r \in Runs |-> NoFile]
  /\ tries = [r \in Runs |-> 0]
  /\ rc = [r \in Runs |-> "bad"]
  /\ job = [r \in Runs |-> "none"]
  /\ told = [r \in Runs |-> FALSE]
  /\ stopper = [r \in Runs |-> [at |-> "none", copy |-> NoFile]]
  /\ stops = [r \in Runs |-> 0]

-----------------------------------------------------------------------------
(* launch(): refuse, make the run, start its supervisor, note its pid.     *)

\* _refuse asks who holds the lease; the answer is old as soon as it is given.
Launch(r) ==
  /\ launcher[r] = "none"
  /\ Gpu(r) => lease = Nobody
  /\ launcher' = [launcher EXCEPT ![r] = "created"]
  /\ \E n \in 0..MaxRetries :
       retries' = [retries EXCEPT ![r] = IF r \in Resumable THEN n ELSE 0]
  /\ meta' = [meta EXCEPT ![r] = First]
  /\ UNCHANGED <<lease, sup, mine, tries, rc, job, told, stopper, stops>>

StartSupervisor(r) ==
  /\ launcher[r] = "created"
  /\ launcher' = [launcher EXCEPT ![r] = "spawned"]
  /\ sup' = [sup EXCEPT ![r] = "started"]
  /\ UNCHANGED <<meta, lease, retries, mine, tries, rc, job, told, stopper, stops>>

LauncherTruncates(r) ==
  /\ launcher[r] = "spawned"
  /\ launcher' = [launcher EXCEPT ![r] = "filling"]
  /\ meta' = [meta EXCEPT ![r] = NoFile]
  /\ UNCHANGED <<lease, retries, sup, mine, tries, rc, job, told, stopper, stops>>

LauncherFills(r) ==
  /\ launcher[r] = "filling"
  /\ launcher' = [launcher EXCEPT ![r] = "done"]
  /\ meta' = [meta EXCEPT ![r] = [First EXCEPT !.status = "running", !.pid = TRUE]]
  /\ UNCHANGED <<lease, retries, sup, mine, tries, rc, job, told, stopper, stops>>

-----------------------------------------------------------------------------
(* supervise(): read the run, take the lease, run the attempts.            *)

Step(r, from, to) == sup[r] = from /\ sup' = [sup EXCEPT ![r] = to]

\* A command that did not read back is not known to be GPU-free.
ReadMeta(r) ==
  /\ Step(r, "started", IF meta[r].cmd /\ r \in Free THEN "held" ELSE "waiting")
  /\ mine' = [mine EXCEPT ![r] = meta[r]]
  /\ UNCHANGED <<meta, lease, launcher, retries, tries, rc, job, told, stopper, stops>>

TakeLease(r) ==
  /\ Step(r, "waiting", "held")
  /\ lease = Nobody
  /\ lease' = r
  /\ UNCHANGED <<meta, launcher, retries, mine, tries, rc, job, told, stopper, stops>>

\* 1800 s with the lease held elsewhere: the run is deferred.
Defer(r) ==
  /\ Step(r, "waiting", "deferring")
  /\ lease # Nobody
  /\ mine' = [mine EXCEPT ![r].status = "deferred"]
  /\ meta' = [meta EXCEPT ![r] = NoFile]
  /\ UNCHANGED <<lease, launcher, retries, tries, rc, job, told, stopper, stops>>

DeferFills(r) ==
  /\ Step(r, "deferring", "gone")
  /\ meta' = [meta EXCEPT ![r] = mine[r]]
  /\ UNCHANGED <<lease, launcher, retries, mine, tries, rc, job, told, stopper, stops>>

\* The command to run is looked up in the record; without one it raises.
NoCommand(r) ==
  /\ Step(r, "held", "gone")
  /\ ~mine[r].cmd
  /\ lease' = Freed(r)
  /\ UNCHANGED <<meta, launcher, retries, mine, tries, rc, job, told, stopper, stops>>

\* From here on SIGTERM is handled.
Arm(r) ==
  /\ Step(r, "held", "attempt")
  /\ mine[r].cmd
  /\ UNCHANGED <<meta, lease, launcher, retries, mine, tries, rc, job, told, stopper, stops>>

\* Mutant: attempts are not counted.
AttemptUncounted(r) ==
  /\ Step(r, "attempt", "filling")
  /\ mine' = [mine EXCEPT ![r].status = "running"]
  /\ meta' = [meta EXCEPT ![r] = NoFile]
  /\ UNCHANGED <<lease, launcher, retries, tries, rc, job, told, stopper, stops>>

Attempt(r) ==
  /\ Step(r, "attempt", "filling")
  /\ tries[r] <= retries[r]
  /\ tries' = [tries EXCEPT ![r] = @ + 1]
  /\ mine' = [mine EXCEPT ![r].status = "running"]
  /\ meta' = [meta EXCEPT ![r] = NoFile]
  /\ UNCHANGED <<lease, launcher, retries, rc, job, told, stopper, stops>>

AttemptFills(r) ==
  /\ Step(r, "filling", "popen")
  /\ meta' = [meta EXCEPT ![r] = mine[r]]
  /\ UNCHANGED <<lease, launcher, retries, mine, tries, rc, job, told, stopper, stops>>

\* The job exists before `proc` names it.
Popen(r) ==
  /\ Step(r, "popen", "born")
  /\ job' = [job EXCEPT ![r] = IF r \in Timed THEN "starting" ELSE "live"]
  /\ UNCHANGED <<meta, lease, launcher, retries, mine, tries, rc, told, stopper, stops>>

NameJob(r) ==
  /\ Step(r, "born", "noting")
  /\ UNCHANGED <<meta, lease, launcher, retries, mine, tries, rc, job, told, stopper, stops>>

NoteJob(r) ==
  /\ Step(r, "noting", "filling2")
  /\ meta' = [meta EXCEPT ![r] = NoFile]
  /\ UNCHANGED <<lease, launcher, retries, mine, tries, rc, job, told, stopper, stops>>

NoteFills(r) ==
  /\ Step(r, "filling2", "wait")
  /\ meta' = [meta EXCEPT ![r] = mine[r]]
  /\ UNCHANGED <<lease, launcher, retries, mine, tries, rc, job, told, stopper, stops>>

Reap(r) ==
  /\ Step(r, "wait", "judge")
  /\ job[r] \in {"ok", "bad", "refused"}
  /\ rc' = [rc EXCEPT ![r] = IF job[r] = "ok" THEN "ok" ELSE "bad"]
  /\ job' = [job EXCEPT ![r] = "none"]
  /\ UNCHANGED <<meta, lease, launcher, retries, mine, tries, told, stopper, stops>>

\* Mutant: the loop ends after the first attempt.
JudgeFirst(r) ==
  /\ Step(r, "judge", "final")
  /\ UNCHANGED <<meta, lease, launcher, retries, mine, tries, rc, job, told, stopper, stops>>

\* Exit 0 or out of retries ends the loop; else sleep and go round.
Judge(r) ==
  /\ Step(r, "judge", IF rc[r] = "ok" \/ tries[r] > retries[r] THEN "final" ELSE "nap")
  /\ UNCHANGED <<meta, lease, launcher, retries, mine, tries, rc, job, told, stopper, stops>>

\* Mutant: the lease is given back before each retry's sleep and not retaken.
WakeReleased(r) ==
  /\ Step(r, "nap", "attempt")
  /\ lease' = Freed(r)
  /\ UNCHANGED <<meta, launcher, retries, mine, tries, rc, job, told, stopper, stops>>

Wake(r) ==
  /\ Step(r, "nap", "attempt")
  /\ UNCHANGED <<meta, lease, launcher, retries, mine, tries, rc, job, told, stopper, stops>>

\* The handler's wait: until the job ended, or for 30 s.
StopWaitEnds(r) ==
  /\ Step(r, "ending", "final")
  /\ job' = [job EXCEPT ![r] = IF Running(r) THEN @ ELSE "none"]
  /\ UNCHANGED <<meta, lease, launcher, retries, mine, tries, rc, told, stopper, stops>>

Outcome(r) ==
  IF told[r] THEN "stopped" ELSE IF rc[r] = "ok" THEN "completed" ELSE "failed"

RecordOutcome(r) ==
  /\ Step(r, "final", "filling3")
  /\ mine' = [mine EXCEPT ![r].status = Outcome(r)]
  /\ meta' = [meta EXCEPT ![r] = NoFile]
  /\ UNCHANGED <<lease, launcher, retries, tries, rc, job, told, stopper, stops>>

OutcomeFills(r) ==
  /\ Step(r, "filling3", "release")
  /\ meta' = [meta EXCEPT ![r] = mine[r]]
  /\ UNCHANGED <<lease, launcher, retries, mine, tries, rc, job, told, stopper, stops>>

ReleaseLease(r) ==
  /\ Step(r, "release", "gone")
  /\ lease' = Freed(r)
  /\ UNCHANGED <<meta, launcher, retries, mine, tries, rc, job, told, stopper, stops>>

-----------------------------------------------------------------------------
(* The job process.  It is in its supervisor's process group.              *)

\* box_quiet.guard: a timed command refuses while anyone holds the lease; only
\* under `vqlab queue` does the holder not count.
GuardRefuses(r) ==
  /\ job[r] = "starting"
  /\ lease # Nobody
  /\ job' = [job EXCEPT ![r] = "refused"]
  /\ UNCHANGED <<meta, lease, launcher, retries, sup, mine, tries, rc, told, stopper, stops>>

GuardPasses(r) ==
  /\ job[r] = "starting"
  /\ lease = Nobody
  /\ job' = [job EXCEPT ![r] = "live"]
  /\ UNCHANGED <<meta, lease, launcher, retries, sup, mine, tries, rc, told, stopper, stops>>

JobEnds(r) ==
  /\ job[r] = "live"
  /\ \E end \in {"ok", "bad"} : job' = [job EXCEPT ![r] = IF Alive(r) THEN end ELSE "none"]
  /\ UNCHANGED <<meta, lease, launcher, retries, sup, mine, tries, rc, told, stopper, stops>>

-----------------------------------------------------------------------------
(* stop() and status(), from any process of the box.                       *)

StopReads(r) ==
  /\ stopper[r].at = "none"
  /\ stops[r] < MaxStops
  /\ meta[r].pid
  /\ Alive(r)
  /\ stops' = [stops EXCEPT ![r] = @ + 1]
  /\ stopper' = [stopper EXCEPT ![r] = [at |-> "read", copy |-> meta[r]]]
  /\ UNCHANGED <<meta, lease, launcher, retries, sup, mine, tries, rc, job, told>>

\* Where SIGTERM takes an armed supervisor: inside the try around the job it
\* ends the job; elsewhere it goes straight to the record; a second one leaves
\* the record unwritten or torn.  An unarmed one dies.
AfterTerm(place) ==
  CASE place \in {"noting", "filling2", "wait"} -> "ending"
    [] place \in {"attempt", "filling", "popen", "born", "judge", "nap", "ending"} -> "final"
    [] OTHER -> "gone"

StopKills(r) ==
  /\ stopper[r].at = "read"
  /\ Alive(r)
  /\ stopper' = [stopper EXCEPT ![r].at = "killed"]
  /\ sup' = [sup EXCEPT ![r] = AfterTerm(@)]
  /\ lease' = IF sup'[r] = "gone" THEN Freed(r) ELSE lease
  /\ told' = [told EXCEPT ![r] = TRUE]
  /\ rc' = [rc EXCEPT ![r] = IF sup'[r] = "ending" THEN "bad" ELSE @]
  /\ UNCHANGED <<meta, launcher, retries, mine, tries, job, stops>>

\* The group is gone: KILL_FAILED, nothing is written.
StopFails(r) ==
  /\ stopper[r].at = "read"
  /\ ~Alive(r)
  /\ stopper' = [stopper EXCEPT ![r] = [at |-> "none", copy |-> NoFile]]
  /\ UNCHANGED <<meta, lease, launcher, retries, sup, mine, tries, rc, job, told, stops>>

StopTruncates(r) ==
  /\ stopper[r].at = "killed"
  /\ stopper' = [stopper EXCEPT ![r].at = "filling"]
  /\ meta' = [meta EXCEPT ![r] = NoFile]
  /\ UNCHANGED <<lease, launcher, retries, sup, mine, tries, rc, job, told, stops>>

StopFills(r) ==
  /\ stopper[r].at = "filling"
  /\ meta' = [meta EXCEPT ![r] = [stopper[r].copy EXCEPT !.status = "stopped"]]
  /\ stopper' = [stopper EXCEPT ![r] = [at |-> "none", copy |-> NoFile]]
  /\ UNCHANGED <<lease, launcher, retries, sup, mine, tries, rc, job, told, stops>>

OtherTakes ==
  /\ lease = Nobody
  /\ lease' = Other
  /\ UNCHANGED <<meta, launcher, retries, sup, mine, tries, rc, job, told, stopper, stops>>

OtherGives ==
  /\ lease = Other
  /\ lease' = Nobody
  /\ UNCHANGED <<meta, launcher, retries, sup, mine, tries, rc, job, told, stopper, stops>>

-----------------------------------------------------------------------------
LaunchWork(r) == StartSupervisor(r) \/ LauncherTruncates(r) \/ LauncherFills(r)

Supervise(r) ==
  \/ ReadMeta(r) \/ TakeLease(r) \/ Defer(r) \/ DeferFills(r) \/ NoCommand(r) \/ Arm(r)
  \/ Attempt(r) \/ AttemptFills(r) \/ Popen(r) \/ NameJob(r) \/ NoteJob(r) \/ NoteFills(r)
  \/ Reap(r) \/ Judge(r) \/ Wake(r) \/ StopWaitEnds(r)
  \/ RecordOutcome(r) \/ OutcomeFills(r) \/ ReleaseLease(r)

JobWork(r) == GuardRefuses(r) \/ GuardPasses(r) \/ JobEnds(r)

StopWork(r) == StopKills(r) \/ StopFails(r) \/ StopTruncates(r) \/ StopFills(r)

Next ==
  \/ \E r \in Runs :
       \/ Launch(r) \/ LaunchWork(r) \/ Supervise(r) \/ JobWork(r)
       \/ StopReads(r) \/ StopWork(r)
  \/ OtherTakes \/ OtherGives

Spec == Init /\ [][Next]_vars

\* Live processes run on, and a job ends by itself sooner or later.
Fairness ==
  \A r \in Runs :
    WF_vars(LaunchWork(r)) /\ WF_vars(Supervise(r)) /\ WF_vars(JobWork(r))
      /\ WF_vars(StopWork(r))

FairSpec == Spec /\ Fairness

-----------------------------------------------------------------------------
(* Properties.                                                             *)

\* Every variable holds a value the code can give it.
TypeOK ==
  /\ meta \in [Runs -> Metas]
  /\ lease \in Runs \cup {Nobody, Other}
  /\ launcher \in [Runs -> {"none", "created", "spawned", "filling", "done"}]
  /\ retries \in [Runs -> 0..MaxRetries]
  /\ sup \in [Runs -> Places]
  /\ mine \in [Runs -> Metas]
  /\ tries \in [Runs -> Nat]
  /\ rc \in [Runs -> {"ok", "bad"}]
  /\ job \in [Runs -> {"none", "starting", "live", "ok", "bad", "refused"}]
  /\ told \in [Runs -> BOOLEAN]
  /\ stopper \in [Runs -> [at : {"none", "read", "killed", "filling"},
                           copy : Metas]]
  /\ stops \in [Runs -> 0..MaxStops]

\* The job of a run that nobody stopped runs alone on the GPU: beside no other
\* such run and no other tenant, through retries and all.
Undisturbed(r) == Gpu(r) /\ Running(r) /\ ~told[r]
GpuExclusive ==
  /\ \A r, s \in Runs : Undisturbed(r) /\ Undisturbed(s) => r = s
  /\ lease = Other => \A r \in Runs : ~Undisturbed(r)

\* A run is never reported `completed` unless its last attempt exited 0, nor
\* `failed` before its retries were spent, whoever wrote meta.json last.
OutcomeIsTrue ==
  \A r \in Runs :
    /\ meta[r].status = "completed" => rc[r] = "ok"
    /\ meta[r].status = "failed" => rc[r] = "bad" /\ tries[r] = retries[r] + 1

\* Every launched run's supervisor comes to an end and gives up the lease.
Settles == \A r \in Runs : launcher[r] = "created" ~> sup[r] = "gone" /\ lease # r

\* box_quiet.guard refuses a timed command on a box someone else is using: the
\* lease its own supervisor took for it is no reason.
GuardSparesOwnRun ==
  \A r \in Runs : job[r] = "refused" => lease # r

=============================================================================

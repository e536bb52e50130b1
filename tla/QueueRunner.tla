----------------------------- MODULE QueueRunner -----------------------------
(***************************************************************************)
(* One queue directory and the processes that run it: vqlab/queue/         *)
(* runner.py (run, _drain, run_step, _attempts, _spawn, _tidy, _detach,    *)
(* stop), queue/report.py (who runs it) and the resume of agents/jobs.py.  *)
(*                                                                         *)
(* A runner works on its own copy of state.json, loaded once at its start  *)
(* and saved whole after each change.  Its steps are processes in sessions *)
(* of their own: they outlive it.  The GPU lease is taken for the length   *)
(* of the drain and is dropped by the kernel when the runner dies.         *)
(***************************************************************************)
EXTENDS Naturals, FiniteSets, TLC

CONSTANTS
  Runners,     \* `queue run` processes of this queue dir, one life each
  Nobody,      \* no runner, no lease holder
  Other,       \* any other tenant of the GPU lease
  NumSteps,    \* how many steps the queue has
  Gpu,         \* steps that need the GPU (queue/steps.py needs_gpu)
  Retries,     \* retries of each step in a real run
  Continue,    \* steps with on_fail = "continue"
  Timed,       \* steps that end by themselves or by their timeout_s
  Inputs,      \* for each step, the earlier steps whose output it names
  Links,       \* knurlogic-link steps: the output is a models-dir entry
  Preflights,  \* what a queue may be created as: a preflight (TRUE), a real run (FALSE)
  Skips,       \* steps whose preflight block is {"skip": ...}
  Entries,     \* how runners get started: "file", "resume", "detach", "gui"
  OneAtATime,  \* TRUE: operators start no runner beside a live one
  Signals,     \* TRUE: runners may get SIGTERM or SIGINT
  Kills        \* TRUE: runners may be SIGKILLed

Steps == 1..NumSteps

ASSUME QueueAssumption ==
  /\ NumSteps \in Nat \ {0}
  /\ Gpu \subseteq Steps /\ Continue \subseteq Steps /\ Timed \subseteq Steps
  /\ Links \subseteq Steps /\ Skips \subseteq Steps
  /\ Retries \in [Steps -> Nat]
  /\ Inputs \in [Steps -> SUBSET Steps]
  /\ \A i \in Steps : \A j \in Inputs[i] : j < i
  /\ Entries \subseteq {"file", "resume", "detach", "gui"}
  /\ Preflights \subseteq BOOLEAN
  /\ {OneAtATime, Signals, Kills} \subseteq BOOLEAN
  /\ Nobody \notin Runners /\ Other \notin Runners /\ Nobody # Other
  /\ Runners \cap {"shut", "idle", "checked"} = {}

VARIABLES
  disk,      \* state.json: status, pid, preflight and the status of every step
  tree,      \* TRUE while the pinned worktree exists
  products,  \* steps whose output (or models-dir entry) exists
  lease,     \* who holds the GPU lease
  pc,        \* where each runner is
  cmdline,   \* what its command line names: the queue "file" or "resume" DIR
  mem,       \* its copy of state.json
  todo,      \* the steps it still has to run, chosen at its start
  cur,       \* the step it is at
  tries,     \* attempts of that step so far
  stop,      \* _stop["flag"]
  verdict,   \* the verdict of its current step
  outmap,    \* preflight: earlier steps whose output it knows how to redirect
  job,       \* its step process
  told,      \* TRUE once that process was sent SIGTERM
  claim,     \* progress of the `--detach` parent that started it
  copy,      \* the state.json that parent read
  gui        \* the GUI's resume, one at a time: "idle", "checked" or whom it
             \* started; "shut" while nobody has a Jobs page open

local  == <<mem, todo, tries, stop, verdict, outmap>>
parent == <<claim, copy, gui>>
vars   == <<disk, tree, products, lease, pc, cmdline, mem, todo, cur, tries, stop,
            verdict, outmap, job, told, claim, copy, gui>>

-----------------------------------------------------------------------------
StepStatus  == {"pending", "running", "pass", "fail", "stopped", "skipped"}
QueueStatus == {"created", "running", "passed", "failed", "stopped", "deferred"}
State == [status : QueueStatus, pid : Runners \cup {Nobody}, preflight : BOOLEAN,
          steps : [Steps -> StepStatus]]

Places == {"off", "started", "loaded", "waiting", "claiming", "next", "attempt", "popen",
           "spawned", "wait", "judge", "nap", "record", "release", "finish", "tidy",
           "broken", "exited", "dead"}

Created ==
  [status |-> "created", pid |-> Nobody, preflight |-> FALSE,
   steps |-> [i \in Steps |-> "pending"]]

Alive(r) == pc[r] \notin {"off", "exited", "dead"}

\* Places where a runner drains steps, and where it handles signals.
Draining(r) == pc[r] \in {"next", "attempt", "popen", "spawned", "wait", "judge", "nap", "record"}
Armed(r)    == Alive(r) /\ pc[r] \notin {"started", "loaded"}

Done(s) == \A i \in Steps : s.steps[i] \in {"pass", "skipped"}

\* The process of the step a runner waits for or has left behind.
Busy(r) == job[r] = "live"
Orphan(r) == Busy(r) /\ ~Alive(r)

Goto(r, from, to) == pc[r] = from /\ pc' = [pc EXCEPT ![r] = to]

Init ==
  /\ \E p \in Preflights : disk = [Created EXCEPT !.preflight = p]
  /\ tree = TRUE
  /\ products = {}
  /\ lease = Nobody
  /\ pc = [r \in Runners |-> "off"]
  /\ cmdline = [r \in Runners |-> "file"]
  /\ mem = [r \in Runners |-> Created]
  /\ todo = [r \in Runners |-> {}]
  /\ cur = [r \in Runners |-> 1]
  /\ tries = [r \in Runners |-> 0]
  /\ stop = [r \in Runners |-> FALSE]
  /\ verdict = [r \in Runners |-> "none"]
  /\ outmap = [r \in Runners |-> {}]
  /\ job = [r \in Runners |-> "none"]
  /\ told = [r \in Runners |-> FALSE]
  /\ claim = [r \in Runners |-> "none"]
  /\ copy = [r \in Runners |-> Created]
  /\ gui \in IF "gui" \in Entries THEN {"shut", "idle"} ELSE {"shut"}

-----------------------------------------------------------------------------
(* Starting a runner.                                                      *)

MayStart(r) ==
  /\ pc[r] = "off"
  /\ OneAtATime => \A s \in Runners : ~Alive(s) /\ claim[s] = "none"

\* A process start: the runner has not read anything yet.
Started(r, names) ==
  /\ pc' = [pc EXCEPT ![r] = "started"]
  /\ cmdline' = [cmdline EXCEPT ![r] = names]
  /\ UNCHANGED <<disk, tree, products, lease, cur, job, told, local>>

\* `queue run FILE` in the foreground: the queue was just created.
RunFile(r) ==
  /\ "file" \in Entries /\ MayStart(r)
  /\ \A s \in Runners : pc[s] = "off"
  /\ Started(r, "file")
  /\ UNCHANGED parent

\* `queue run --resume DIR` in the foreground, at any time, by anyone.
Resume(r) ==
  /\ "resume" \in Entries /\ MayStart(r)
  /\ Started(r, "resume")
  /\ UNCHANGED parent

\* `queue run ... --detach`: the parent checks the pin and starts the runner.
Detach(r) ==
  /\ "detach" \in Entries /\ MayStart(r)
  /\ tree
  /\ Started(r, "resume")
  /\ claim' = [claim EXCEPT ![r] = "spawned"]
  /\ UNCHANGED <<copy, gui>>

\* report.runner_pid: the live process state.json names.
RunnerPid(s, strict) ==
  IF s.pid \in Runners /\ Alive(s.pid) /\ (strict => cmdline[s.pid] = "resume")
  THEN s.pid ELSE Nobody

Resumable == {"stopped", "failed", "deferred", "running"}

\* jobs.resume: refuse unless the queue halted and no runner may own it.
GuiCheck ==
  /\ gui = "idle"
  /\ disk.status \in Resumable
  /\ RunnerPid(disk, FALSE) = Nobody
  /\ gui' = "checked"
  /\ UNCHANGED <<disk, tree, products, lease, pc, cmdline, cur, job, told, claim, copy, local>>

\* ... then it runs `queue run --resume DIR --detach` and waits for it.
GuiResume(r) ==
  /\ gui = "checked"
  /\ pc[r] = "off"
  /\ tree
  /\ Started(r, "resume")
  /\ claim' = [claim EXCEPT ![r] = "spawned"]
  /\ gui' = r
  /\ UNCHANGED copy

\* That command refuses when the pinned tree is gone.
GuiRefused ==
  /\ gui = "checked"
  /\ ~tree
  /\ gui' = "idle"
  /\ UNCHANGED <<disk, tree, products, lease, pc, cmdline, cur, job, told, claim, copy, local>>

\* _detach: the parent claims the queue for the runner it just started, by a
\* load and a save that the runner's own saves may come between.
ParentLoads(r) ==
  /\ claim[r] = "spawned"
  /\ claim' = [claim EXCEPT ![r] = "read"]
  /\ copy' = [copy EXCEPT ![r] = disk]
  /\ UNCHANGED <<disk, tree, products, lease, pc, cmdline, cur, job, told, gui, local>>

\* Mutant: the parent claims the queue under its own pid, and exits.
ParentSavesSelf(r) ==
  /\ claim[r] = "read"
  /\ claim' = [claim EXCEPT ![r] = "none"]
  /\ disk' = [copy[r] EXCEPT !.status = "running", !.pid = Nobody]
  /\ copy' = [copy EXCEPT ![r] = Created]
  /\ gui' = IF gui = r THEN "idle" ELSE gui
  /\ UNCHANGED <<tree, products, lease, pc, cmdline, cur, job, told, local>>

ParentSaves(r) ==
  /\ claim[r] = "read"
  /\ claim' = [claim EXCEPT ![r] = "none"]
  /\ disk' = [copy[r] EXCEPT !.status = "running", !.pid = r]
  /\ copy' = [copy EXCEPT ![r] = Created]
  /\ gui' = IF gui = r THEN "idle" ELSE gui
  /\ UNCHANGED <<tree, products, lease, pc, cmdline, cur, job, told, local>>

\* The parent is killed first: by its terminal, or by the GUI's 120 s timeout.
ParentDies(r) ==
  /\ Kills
  /\ claim[r] # "none"
  /\ claim' = [claim EXCEPT ![r] = "none"]
  /\ copy' = [copy EXCEPT ![r] = Created]
  /\ gui' = IF gui = r THEN "idle" ELSE gui
  /\ UNCHANGED <<disk, tree, products, lease, pc, cmdline, cur, job, told, local>>

-----------------------------------------------------------------------------
(* run(): load, take the lease, claim the queue.                           *)

\* A process that is gone has no memory; its step process may live on.
Leave(r, how) ==
  /\ pc' = [pc EXCEPT ![r] = how]
  /\ mem' = [mem EXCEPT ![r] = Created]
  /\ todo' = [todo EXCEPT ![r] = {}]
  /\ tries' = [tries EXCEPT ![r] = 0]
  /\ stop' = [stop EXCEPT ![r] = FALSE]
  /\ verdict' = [verdict EXCEPT ![r] = "none"]
  /\ outmap' = [outmap EXCEPT ![r] = {}]

Load(r) ==
  /\ Goto(r, "started", "loaded")
  /\ tree
  /\ mem' = [mem EXCEPT ![r] = disk]
  /\ UNCHANGED <<disk, tree, products, lease, cmdline, todo, cur, tries, stop, verdict,
                 outmap, job, told, parent>>

PinGone(r) ==
  /\ pc[r] = "started"
  /\ ~tree
  /\ Leave(r, "exited")
  /\ UNCHANGED <<disk, tree, products, lease, cmdline, cur, job, told, parent>>

\* Mutant: a resume runs every step again.
ArmAll(r) ==
  /\ pc[r] = "loaded"
  /\ todo' = [todo EXCEPT ![r] = Steps]
  /\ pc' = [pc EXCEPT ![r] = IF Gpu = {} THEN "claiming" ELSE "waiting"]
  /\ UNCHANGED <<disk, tree, products, lease, cmdline, mem, cur, tries, stop, verdict,
                 outmap, job, told, parent>>

\* Mutant: the lease is taken only if the first step left needs the GPU.
ArmByFirst(r) ==
  /\ pc[r] = "loaded"
  /\ LET left == {i \in Steps : mem[r].steps[i] \notin {"pass", "skipped"}}
     IN  /\ todo' = [todo EXCEPT ![r] = left]
         /\ pc' = [pc EXCEPT ![r] =
              IF \E i \in left \cap Gpu : \A j \in left : i <= j THEN "waiting" ELSE "claiming"]
  /\ UNCHANGED <<disk, tree, products, lease, cmdline, mem, cur, tries, stop, verdict,
                 outmap, job, told, parent>>

\* Signals are handled from here on; what is to do is settled here, once.
Arm(r) ==
  /\ pc[r] = "loaded"
  /\ LET left == {i \in Steps : mem[r].steps[i] \notin {"pass", "skipped"}}
     IN  /\ todo' = [todo EXCEPT ![r] = left]
         /\ pc' = [pc EXCEPT ![r] = IF left \cap Gpu = {} THEN "claiming" ELSE "waiting"]
  /\ UNCHANGED <<disk, tree, products, lease, cmdline, mem, cur, tries, stop, verdict,
                 outmap, job, told, parent>>

TakeLease(r) ==
  /\ Goto(r, "waiting", "claiming")
  /\ lease = Nobody
  /\ lease' = r
  /\ UNCHANGED <<disk, tree, products, cmdline, local, cur, job, told, parent>>

Defer(r) ==
  /\ pc[r] = "waiting"
  /\ lease # Nobody
  /\ disk' = [mem[r] EXCEPT !.status = "deferred"]
  /\ Leave(r, "exited")
  /\ UNCHANGED <<tree, products, lease, cmdline, cur, job, told, parent>>

Claim(r) ==
  /\ Goto(r, "claiming", "next")
  /\ mem' = [mem EXCEPT ![r].status = "running", ![r].pid = r]
  /\ disk' = mem'[r]
  /\ UNCHANGED <<tree, products, lease, cmdline, todo, cur, tries, stop, verdict, outmap,
                 job, told, parent>>

-----------------------------------------------------------------------------
(* _drain and run_step: the checks before a step.                          *)

FirstTodo(r, i) == i \in todo[r] /\ \A j \in todo[r] : i <= j

\* A preflight step that names an earlier output is pointed at that step's
\* preflight output, which is known once this runner came past that step.
PathInputs(i) == Inputs[i] \ Links
Found(r, i) ==
  PathInputs(i) \subseteq IF mem[r].preflight THEN products \cap outmap[r] ELSE products

Skipped(r, i) == mem[r].preflight /\ i \in Skips

Begin(r, i) ==
  /\ pc[r] = "next"
  /\ FirstTodo(r, i)
  /\ cur' = [cur EXCEPT ![r] = i]
  /\ tries' = [tries EXCEPT ![r] = 0]
  /\ outmap' = [outmap EXCEPT ![r] = IF mem[r].preflight /\ ~Skipped(r, i) THEN @ \cup {i} ELSE @]
  /\ UNCHANGED <<disk, tree, products, lease, cmdline, mem, todo, stop, job, told, parent>>

SkipStep(r, i) ==
  /\ Begin(r, i)
  /\ Skipped(r, i)
  /\ verdict' = [verdict EXCEPT ![r] = "skipped"]
  /\ pc' = [pc EXCEPT ![r] = "record"]

\* static_check: an input path does not exist.
InputMissing(r, i) ==
  /\ Begin(r, i)
  /\ ~Skipped(r, i)
  /\ ~Found(r, i)
  /\ verdict' = [verdict EXCEPT ![r] = "missing"]
  /\ pc' = [pc EXCEPT ![r] = "record"]

\* A pin, a placed exo instance, too little scratch: any step, any time.
GateRefuses(r, i) ==
  /\ Begin(r, i)
  /\ ~Skipped(r, i)
  /\ Found(r, i)
  /\ verdict' = [verdict EXCEPT ![r] = "fail"]
  /\ pc' = [pc EXCEPT ![r] = "record"]

Admit(r, i) ==
  /\ Begin(r, i)
  /\ ~Skipped(r, i)
  /\ Found(r, i)
  /\ verdict' = [verdict EXCEPT ![r] = "none"]
  /\ pc' = [pc EXCEPT ![r] = "attempt"]

-----------------------------------------------------------------------------
(* _attempts and _spawn: run the step, judge it, retry it.                 *)

Allowed(r) == IF mem[r].preflight THEN 0 ELSE Retries[cur[r]]

\* Mutant: attempts are not counted.
AttemptUncounted(r) ==
  /\ Goto(r, "attempt", "popen")
  /\ ~stop[r]
  /\ tries' = [tries EXCEPT ![r] = 1]
  /\ mem' = [mem EXCEPT ![r].steps[cur[r]] = "running"]
  /\ disk' = mem'[r]
  /\ UNCHANGED <<tree, products, lease, cmdline, todo, cur, stop, verdict, outmap, job,
                 told, parent>>

Attempt(r) ==
  /\ Goto(r, "attempt", "popen")
  /\ tries[r] <= Allowed(r)
  /\ ~stop[r]
  /\ tries' = [tries EXCEPT ![r] = @ + 1]
  /\ mem' = [mem EXCEPT ![r].steps[cur[r]] = "running"]
  /\ disk' = mem'[r]
  /\ UNCHANGED <<tree, products, lease, cmdline, todo, cur, stop, verdict, outmap, job,
                 told, parent>>

\* The flag ended the loop after an attempt: that attempt's verdict stands.
StopRetrying(r) ==
  /\ Goto(r, "attempt", "record")
  /\ stop[r]
  /\ tries[r] > 0
  /\ verdict' = [verdict EXCEPT ![r] = "stopped"]
  /\ UNCHANGED <<disk, tree, products, lease, cmdline, mem, todo, cur, tries, stop, outmap,
                 job, told, parent>>

\* The flag was up before the first attempt: _attempts returns None, which
\* run_step indexes; the exception leaves through _drain.
NoVerdict(r) ==
  /\ Goto(r, "attempt", "broken")
  /\ stop[r]
  /\ tries[r] = 0
  /\ UNCHANGED <<disk, tree, products, lease, cmdline, local, cur, job, told, parent>>

\* The step process exists before _stop["proc"] names it.
Popen(r) ==
  /\ Goto(r, "popen", "spawned")
  /\ job' = [job EXCEPT ![r] = "live"]
  /\ told' = [told EXCEPT ![r] = FALSE]
  /\ UNCHANGED <<disk, tree, products, lease, cmdline, local, cur, parent>>

Register(r) ==
  /\ Goto(r, "spawned", "wait")
  /\ UNCHANGED <<disk, tree, products, lease, cmdline, local, cur, job, told, parent>>

\* A step that needs a models-dir entry fails without it, whatever it does.
CanPass(i) == Inputs[i] \cap Links \subseteq products

JobEnds(r) ==
  /\ Busy(r)
  /\ \E end \in {"ok", "bad"} :
       /\ end = "ok" => CanPass(cur[r])
       /\ job' = [job EXCEPT ![r] = IF Alive(r) THEN end ELSE "none"]
       /\ products' = IF end = "ok" THEN products \cup {cur[r]} ELSE products
  /\ UNCHANGED <<disk, tree, lease, pc, cmdline, local, cur, told, parent>>

\* Mutant: the exit code is not looked at.
ReapBlindly(r) ==
  /\ Goto(r, "wait", "judge")
  /\ job[r] \in {"ok", "bad"}
  /\ verdict' = [verdict EXCEPT ![r] = "pass"]
  /\ job' = [job EXCEPT ![r] = "none"]
  /\ told' = [told EXCEPT ![r] = FALSE]
  /\ UNCHANGED <<disk, tree, products, lease, cmdline, mem, todo, cur, tries, stop, outmap,
                 parent>>

Reap(r) ==
  /\ Goto(r, "wait", "judge")
  /\ job[r] \in {"ok", "bad"}
  /\ verdict' = [verdict EXCEPT ![r] = IF job[r] = "ok" THEN "pass" ELSE "fail"]
  /\ job' = [job EXCEPT ![r] = "none"]
  /\ told' = [told EXCEPT ![r] = FALSE]
  /\ UNCHANGED <<disk, tree, products, lease, cmdline, mem, todo, cur, tries, stop, outmap,
                 parent>>

\* Passed, stopped or out of retries: on to the record; else sleep and retry.
Judge(r) ==
  /\ pc[r] = "judge"
  /\ LET failed == verdict[r] = "fail"
         over   == ~failed \/ stop[r] \/ tries[r] > Allowed(r)
     IN  /\ verdict' = [verdict EXCEPT ![r] = IF failed /\ stop[r] THEN "stopped" ELSE @]
         /\ pc' = [pc EXCEPT ![r] = IF over THEN "record" ELSE "nap"]
  /\ UNCHANGED <<disk, tree, products, lease, cmdline, mem, todo, cur, tries, stop, outmap,
                 job, told, parent>>

Wake(r) ==
  /\ Goto(r, "nap", "attempt")
  /\ UNCHANGED <<disk, tree, products, lease, cmdline, local, cur, job, told, parent>>

\* Mutant: the raw verdict is recorded as the step's status.
RecordRaw(r) ==
  /\ pc[r] = "record"
  /\ LET i == cur[r]
         s == verdict[r]
         ends == s = "stopped" \/ (s = "fail" /\ ~mem[r].preflight /\ i \notin Continue)
     IN  /\ mem' = [mem EXCEPT ![r].steps[i] = s]
         /\ todo' = [todo EXCEPT ![r] = @ \ {i}]
         /\ pc' = [pc EXCEPT ![r] = IF ends THEN "release" ELSE "next"]
  /\ verdict' = [verdict EXCEPT ![r] = "none"]
  /\ disk' = mem'[r]
  /\ UNCHANGED <<tree, products, lease, cmdline, cur, tries, stop, outmap, job, told, parent>>

\* Mutant: on_fail is read the wrong way round for a preflight and a real run.
RecordSwapped(r) ==
  /\ pc[r] = "record"
  /\ LET i == cur[r]
         s == IF verdict[r] = "missing" THEN "fail" ELSE verdict[r]
         ends == s = "stopped" \/ (s = "fail" /\ mem[r].preflight /\ i \notin Continue)
     IN  /\ mem' = [mem EXCEPT ![r].steps[i] = s]
         /\ todo' = [todo EXCEPT ![r] = @ \ {i}]
         /\ pc' = [pc EXCEPT ![r] = IF ends THEN "release" ELSE "next"]
  /\ verdict' = [verdict EXCEPT ![r] = "none"]
  /\ disk' = mem'[r]
  /\ UNCHANGED <<tree, products, lease, cmdline, cur, tries, stop, outmap, job, told, parent>>

\* The verdict goes to state.json; the drain ends on a stop, and on a failure
\* unless this is a preflight or the step says to continue.
Record(r) ==
  /\ pc[r] = "record"
  /\ LET i == cur[r]
         s == IF verdict[r] = "missing" THEN "fail" ELSE verdict[r]
         ends == s = "stopped" \/ (s = "fail" /\ ~mem[r].preflight /\ i \notin Continue)
     IN  /\ mem' = [mem EXCEPT ![r].steps[i] = s]
         /\ todo' = [todo EXCEPT ![r] = @ \ {i}]
         /\ pc' = [pc EXCEPT ![r] = IF ends THEN "release" ELSE "next"]
  /\ verdict' = [verdict EXCEPT ![r] = "none"]
  /\ disk' = mem'[r]
  /\ UNCHANGED <<tree, products, lease, cmdline, cur, tries, stop, outmap, job, told, parent>>

Drained(r) ==
  /\ Goto(r, "next", "release")
  /\ todo[r] = {}
  /\ UNCHANGED <<disk, tree, products, lease, cmdline, local, cur, job, told, parent>>

-----------------------------------------------------------------------------
(* The end of run(): give the lease back, save the outcome, tidy.          *)

Freed(r) == IF lease = r THEN Nobody ELSE lease

ReleaseLease(r) ==
  /\ Goto(r, "release", "finish")
  /\ lease' = Freed(r)
  /\ UNCHANGED <<disk, tree, products, cmdline, local, cur, job, told, parent>>

\* The exception of NoVerdict: the lease is released, nothing is saved.
Break(r) ==
  /\ pc[r] = "broken"
  /\ lease' = Freed(r)
  /\ Leave(r, "exited")
  /\ UNCHANGED <<disk, tree, products, cmdline, cur, job, told, parent>>

\* Mutant: passed once nothing is left to do, failed steps included.
OutcomeByTodo(r) ==
  IF stop[r] THEN "stopped" ELSE IF todo[r] = {} THEN "passed" ELSE "failed"

Outcome(r) ==
  IF stop[r] THEN "stopped" ELSE IF Done(mem[r]) THEN "passed" ELSE "failed"

Finish(r) ==
  /\ Goto(r, "finish", "tidy")
  /\ mem' = [mem EXCEPT ![r].status = Outcome(r), ![r].pid = Nobody]
  /\ disk' = mem'[r]
  /\ UNCHANGED <<tree, products, lease, cmdline, todo, cur, tries, stop, verdict, outmap,
                 job, told, parent>>

\* Mutant: the worktree goes at the end of every real run.
TidyAlways(r) ==
  /\ pc[r] = "tidy"
  /\ tree' = mem[r].preflight
  /\ disk' = mem[r]
  /\ Leave(r, "exited")
  /\ UNCHANGED <<products, lease, cmdline, cur, job, told, parent>>

\* A preflight's models-dir entries go unless it was stopped, its outputs go
\* once every step passed; a real run's worktree goes once every step passed.
Tidy(r) ==
  /\ pc[r] = "tidy"
  /\ LET done == Done(mem[r])
         kept == IF mem[r].status = "stopped" THEN products ELSE products \ Links
     IN  IF mem[r].preflight
         THEN /\ products' = IF done THEN kept \cap Links ELSE kept
              /\ UNCHANGED tree
         ELSE /\ tree' = (tree /\ ~done)
              /\ UNCHANGED products
  /\ disk' = mem[r]
  /\ Leave(r, "exited")
  /\ UNCHANGED <<lease, cmdline, cur, job, told, parent>>

-----------------------------------------------------------------------------
(* Signals, kills and the rest of the machine.                             *)

\* SIGTERM (`queue stop`, the Jobs page) or SIGINT (its terminal): before the
\* handler is installed it kills; then it raises the flag and ends the step
\* process that _stop["proc"] names.
Signal(r) ==
  /\ Signals
  /\ Alive(r)
  /\ cmdline[r] = "file" \/ RunnerPid(disk, TRUE) = r
  /\ IF Armed(r)
     THEN /\ stop' = [stop EXCEPT ![r] = TRUE]
          /\ told' = [told EXCEPT ![r] = @ \/ (pc[r] = "wait" /\ Busy(r))]
          /\ UNCHANGED <<pc, mem, todo, tries, verdict, outmap>>
     ELSE Leave(r, "dead") /\ UNCHANGED told
  /\ UNCHANGED <<disk, tree, products, lease, cmdline, cur, job, parent>>

\* SIGKILL, power, panic of the runner alone: no handler, no record.
Kill(r) ==
  /\ Kills
  /\ Alive(r)
  /\ Leave(r, "dead")
  /\ lease' = Freed(r)
  /\ job' = [job EXCEPT ![r] = IF Busy(r) THEN "live" ELSE "none"]
  /\ UNCHANGED <<disk, tree, products, cmdline, cur, told, parent>>

OtherTakes ==
  /\ lease = Nobody
  /\ lease' = Other
  /\ UNCHANGED <<disk, tree, products, pc, cmdline, local, cur, job, told, parent>>

OtherGives ==
  /\ lease = Other
  /\ lease' = Nobody
  /\ UNCHANGED <<disk, tree, products, pc, cmdline, local, cur, job, told, parent>>

-----------------------------------------------------------------------------
Start(r) == RunFile(r) \/ Resume(r) \/ Detach(r) \/ GuiResume(r)

Work(r) ==
  \/ Load(r) \/ PinGone(r) \/ Arm(r) \/ TakeLease(r) \/ Defer(r) \/ Claim(r)
  \/ \E i \in Steps :
       SkipStep(r, i) \/ InputMissing(r, i) \/ GateRefuses(r, i) \/ Admit(r, i)
  \/ Attempt(r) \/ StopRetrying(r) \/ NoVerdict(r) \/ Popen(r) \/ Register(r)
  \/ Reap(r) \/ Judge(r) \/ Wake(r) \/ Record(r) \/ Drained(r)
  \/ ReleaseLease(r) \/ Break(r) \/ Finish(r) \/ Tidy(r)

ParentWork(r) == ParentLoads(r) \/ ParentSaves(r)

Next ==
  \/ \E r \in Runners :
       Start(r) \/ Work(r) \/ ParentWork(r) \/ ParentDies(r) \/ JobEnds(r)
       \/ Signal(r) \/ Kill(r)
  \/ GuiCheck \/ GuiRefused
  \/ OtherTakes \/ OtherGives

Spec == Init /\ [][Next]_vars

\* A live runner and its parent run on; a step process ends if it was told to
\* or if it has a time limit.  Nobody is obliged to start, stop or kill.
MustEnd(r) == JobEnds(r) /\ (told[r] \/ cur[r] \in Timed)

Fairness ==
  \A r \in Runners : WF_vars(Work(r)) /\ WF_vars(ParentWork(r)) /\ WF_vars(MustEnd(r))

FairSpec == Spec /\ Fairness

-----------------------------------------------------------------------------
(* Properties.                                                             *)

\* Every variable holds a value the code can give it.
TypeOK ==
  /\ disk \in State
  /\ tree \in BOOLEAN
  /\ products \subseteq Steps
  /\ lease \in Runners \cup {Nobody, Other}
  /\ pc \in [Runners -> Places]
  /\ cmdline \in [Runners -> {"file", "resume"}]
  /\ mem \in [Runners -> State]
  /\ todo \in [Runners -> SUBSET Steps]
  /\ cur \in [Runners -> Steps]
  /\ tries \in [Runners -> Nat]
  /\ stop \in [Runners -> BOOLEAN]
  /\ verdict \in [Runners -> {"none", "pass", "fail", "missing", "stopped", "skipped"}]
  /\ outmap \in [Runners -> SUBSET Steps]
  /\ job \in [Runners -> {"none", "live", "ok", "bad"}]
  /\ told \in [Runners -> BOOLEAN]
  /\ claim \in [Runners -> {"none", "spawned", "read"}]
  /\ copy \in [Runners -> State]
  /\ gui \in {"shut", "idle", "checked"} \cup Runners

\* A GPU step of a live runner never runs beside another live runner's GPU
\* step nor beside another tenant of the lease, however many runners of one
\* queue are started by mistake: the one lease spans the drain.
OnGpu(r) == Busy(r) /\ Alive(r) /\ cur[r] \in Gpu
GpuExclusive ==
  /\ \A r, s \in Runners : OnGpu(r) /\ OnGpu(s) => r = s
  /\ lease = Other => \A r \in Runners : ~OnGpu(r)

\* A step of a real run starts only after every earlier step passed, or failed
\* with leave to continue (on_fail); through resumes and kills alike.
InOrder ==
  \A r \in Runners : Alive(r) /\ Busy(r) /\ ~disk.preflight =>
    \A j \in 1..(cur[r] - 1) :
      disk.steps[j] = "pass" \/ (j \in Continue /\ disk.steps[j] = "fail")

\* The pinned worktree outlives every step that runs from it under a live
\* runner, and every step that is still to be run.
TreeOutlivesWork ==
  /\ \A r \in Runners : Alive(r) /\ Busy(r) => tree
  /\ ~Done(disk) => tree

\* A queue reported `passed` ran every step to a pass and left all it made.
PassedMeansAll ==
  disk.status = "passed" => Done(disk) /\ (disk.preflight \/ products = Steps)

\* While a runner drains, state.json names it: `queue stop`, `queue wait` and
\* the Jobs page find it whatever the starting parent's late save did.
RunnerIsFindable ==
  \A r \in Runners : Draining(r) => RunnerPid(disk, FALSE) = r

\* RunnerIsFindable, for the parent and the runner it started.
DetachedIsFindable == gui = "shut" => RunnerIsFindable

\* A step recorded as passed is never run again nor loses its record, by any
\* sequence of stops, kills and resumes.
PassIsKept ==
  [][\A i \in Steps : disk.steps[i] = "pass" => disk'.steps[i] = "pass"]_vars

\* A step is refused for a missing input only if a step it depends on has not
\* passed: what one runner made, a later one finds.
ChainFindsInputs ==
  \A r \in Runners : verdict[r] = "missing" =>
    \E j \in PathInputs(cur[r]) : mem[r].steps[j] # "pass"

\* A preflight reports every problem in one pass: once it is `passed` or
\* `failed` each step has been judged, whatever failed before it.
PreflightJudgesAll ==
  disk.preflight /\ disk.status \in {"passed", "failed"} =>
    \A i \in Steps : disk.steps[i] \notin {"pending", "running"}

\* PreflightJudgesAll, of a preflight that is nobody else's.
PreflightJudgesEach == gui = "shut" => PreflightJudgesAll

\* A started runner ends if every step does, and leaves the lease to others.
Terminates == \A r \in Runners : Alive(r) ~> ~Alive(r) /\ lease # r

\* runner.stop: a runner told to stop while it drains "records `stopped`".
StopIsRecorded ==
  [][\A r \in Runners :
       stop[r] /\ pc[r] # "tidy" /\ pc[r] # "waiting" /\ pc'[r] = "exited"
         => disk'.status = "stopped"]_vars

-----------------------------------------------------------------------------
(* Small queues, for TLC.  The three-step queue is build, link, score: the    *)
(* second step takes the first one's output, the third takes both.          *)

\* Steps 1 and 3 need the GPU; step 2 only moves files.
BuildAndScore == {1, 3}
ThreeInputs == [i \in 1..3 |-> CASE i = 1 -> {} [] i = 2 -> {1} [] i = 3 -> {1, 2}]

OneRetryFirst == [i \in 1..NumSteps |-> IF i = 1 THEN 1 ELSE 0]

Symmetry == Permutations(Runners)

-----------------------------------------------------------------------------
(* The same queue, its second step a models-dir link and the third one a    *)
(* preflight skips, started in three ways, chosen at the beginning: by a    *)
(* crowd of operators and Jobs pages side by side, by parents that detach   *)
(* their runner, and by one operator at a time, who runs a preflight.       *)

NoRetries == [i \in 1..3 |-> 0]

Starts(r) == pc[r] = "off" /\ pc'[r] = "started"
Claims(r) == claim[r] = "none" /\ claim'[r] = "spawned"
StopsNone == \A r \in Runners : ~stop'[r]
OneByOne ==
  \A r \in Runners : Starts(r) => \A s \in Runners : ~Alive(s) /\ claim[s] = "none"

Crowd == gui # "shut"
Detaching == ~Crowd /\ ~disk.preflight

\* What keeps a step within its mode: a crowd runs no preflight and stops
\* nobody, elsewhere starts come one by one, and only a parent's is claimed.
InMode ==
  \/ Crowd /\ ~disk.preflight /\ StopsNone /\ \A r \in Runners : Claims(r) => gui' = r
  \/ Detaching /\ OneByOne
  \/ ~Crowd /\ disk.preflight /\ OneByOne /\ \A r \in Runners : ~Claims(r)

=============================================================================

------------------------------- MODULE Onboard -------------------------------
(***************************************************************************)
(* Taking on a new teacher (vqlab/agents/onboard.py).  `vqlab onboard` puts  *)
(* six steps in order, keeps each one's result in onboard.json and takes up *)
(* where it stopped: the profile and the loader's check, two teacher caches *)
(* made alike, whether they are the same bytes (a teacher that is not       *)
(* deterministic cannot rank its quants), and the sweep of initialisations. *)
(* The caches and the sweep are launched as MCP runs, one an invocation,    *)
(* and polled by a later one.                                              *)
(*                                                                         *)
(* A command is one at a time and may be killed; runs end as they like, at  *)
(* any time.  A checkpoint that no family entry reads keeps its state apart *)
(* and is left out.                                                        *)
(***************************************************************************)
EXTENDS Naturals, Sequences, FiniteSets

CONSTANTS Redos,  \* the steps --redo is used for
          MaxCommands, MaxRuns  \* bounds

VARIABLES teacher,   \* [exact, streamed, fits]: its scores are deterministic, a
                     \* validated streamed scorer is there, it fits resident
          file,      \* onboard.json: step -> [is, run, tool, same]
          cmd,       \* the command at work: what it holds in memory and its step
          runs,      \* the MCP runs: [step, tool, is]
          cache,     \* step -> what its cache folder holds
          commands,  \* commands given
          astray,    \* a run was launched that no command knows of
          redone     \* a cache was reset after the verdict, or one while a run was out

ovars == <<teacher, file, cmd, runs, cache, commands, astray, redone>>

Steps == <<"profile", "loader", "cache_a", "cache_b", "determinism", "init_sweep">>
Names == {Steps[i] : i \in DOMAIN Steps}
GpuSteps == {"cache_a", "cache_b", "init_sweep"}
CacheSteps == {"cache_a", "cache_b"}
Settled == {"done", "blocked"}
Pending == [is |-> "pending", run |-> 0, tool |-> "", same |-> FALSE]
Idle == [at |-> 0]

Init ==
  /\ teacher \in {t \in [exact : BOOLEAN, streamed : BOOLEAN, fits : BOOLEAN] :
                   t.streamed => t.fits}
  /\ file = [s \in Names |-> Pending]
  /\ cmd = Idle /\ runs = <<>>
  /\ cache = [s \in CacheSteps |-> 0]
  /\ commands = 0 /\ astray = FALSE /\ redone = FALSE

-----------------------------------------------------------------------------
\* A command starts: the profile is made anew, a step of --redo is reset, in
\* memory.
Start(launch, redo, profiled) ==
  LET steps == [file EXCEPT !["profile"].is = IF profiled THEN "done" ELSE "failed"]
  IN  /\ cmd = Idle /\ commands < MaxCommands
      /\ commands' = commands + 1
      /\ cmd' = [at |-> 2, launch |-> launch, profiled |-> profiled,
                 steps |-> IF redo = "none" \/ redo = "profile" THEN steps
                           ELSE [steps EXCEPT ![redo] = Pending]]
      /\ redone' = (redone \/ (redo \in GpuSteps /\ \E s \in GpuSteps : file[s].is = "running")
                           \/ (redo \in CacheSteps /\ file["determinism"].is = "done"))
      /\ UNCHANGED <<teacher, file, runs, cache, astray>>

Step == Steps[cmd.at]
Now == cmd.steps[Step]
Before == cmd.steps[Steps[cmd.at - 1]].is

\* The command goes on to the next step, or ends, with what it holds saved.
Save(steps, on) ==
  /\ file' = steps
  /\ cmd' = IF on /\ cmd.at < Len(Steps) THEN [cmd EXCEPT !.at = cmd.at + 1, !.steps = steps] ELSE Idle

Put(record) == [cmd.steps EXCEPT ![Step] = record]

PassBy ==
  /\ cmd # Idle /\ Now.is \in Settled
  /\ IF cmd.at < Len(Steps) THEN cmd' = [cmd EXCEPT !.at = cmd.at + 1] /\ UNCHANGED file
     ELSE Save(cmd.steps, FALSE)
  /\ UNCHANGED <<teacher, runs, cache, commands, astray, redone>>

\* The step is this command's to do: the one before it is settled.
Due == cmd # Idle /\ Now.is \notin Settled /\ Before \in Settled

NotYet ==
  /\ cmd # Idle /\ Now.is \notin Settled /\ ~Due
  /\ Save(cmd.steps, FALSE)
  /\ UNCHANGED <<teacher, runs, cache, commands, astray, redone>>

CheckLoader(loads) ==
  /\ Due /\ Step = "loader"
  /\ Save(Put([Now EXCEPT !.is = IF loads THEN "done" ELSE "failed"]), loads)
  /\ UNCHANGED <<teacher, runs, cache, commands, astray, redone>>

\* Are the two caches byte-identical?  Without caches on this box, blocked; a
\* folder that is not there fails the step.
Compare ==
  /\ Due /\ Step = "determinism"
  /\ IF \E s \in CacheSteps : cmd.steps[s].is = "blocked"
     THEN Save(Put([Now EXCEPT !.is = "blocked"]), TRUE)
     ELSE IF \E s \in CacheSteps : cache[s] = 0
     THEN Save(Put([Now EXCEPT !.is = "failed"]), FALSE)
     ELSE Save(Put([Now EXCEPT !.is = "done", !.same = cache["cache_a"] = cache["cache_b"]]), TRUE)
  /\ UNCHANGED <<teacher, runs, cache, commands, astray, redone>>

\* Mutant: whatever has ended counts.
AnyEnd(r) == IF r \in {"waiting", "running"} THEN "running" ELSE "done"

\* poll: what a run's state makes of its step.
Polled(r) == CASE r = "completed" -> "done"
               [] r = "failed" -> "failed"
               [] r = "deferred" -> "pending"
               [] OTHER -> "running"

Poll ==
  /\ Due /\ Step \in GpuSteps /\ Now.is = "running"
  /\ LET got == Polled(runs[Now.run].is)
     IN  Save(Put([Now EXCEPT !.is = got]), got = "done")
  /\ UNCHANGED <<teacher, runs, cache, commands, astray, redone>>

\* A step to launch.  A cache is made by the streamed scorer, where this
\* command's profile names a model type that has one, or by `kl cache`, which
\* needs room; the sweep cannot be put together without the profile.
Streamed == cmd.profiled /\ teacher.streamed
Tool == IF Step = "init_sweep" THEN "probe-init" ELSE IF Streamed THEN "stream-score" ELSE "kl cache"
ToLaunch == Due /\ Step \in GpuSteps /\ Now.is # "running"
NoRoom == Step \in CacheSteps /\ ~Streamed /\ ~teacher.fits
Composed == Step = "init_sweep" => cmd.profiled

Block ==
  /\ ToLaunch /\ NoRoom
  /\ Save(Put([Now EXCEPT !.is = "blocked"]), TRUE)
  /\ UNCHANGED <<teacher, runs, cache, commands, astray, redone>>

\* The command is printed, or the launch refused.
NotLaunched ==
  /\ ToLaunch /\ ~NoRoom /\ Composed
  /\ Save(Put([Now EXCEPT !.run = 0, !.tool = Tool]), FALSE)
  /\ UNCHANGED <<teacher, runs, cache, commands, astray, redone>>

\* The run is started, and only then written down: here a command can die.
Launch(dies) ==
  /\ ToLaunch /\ ~NoRoom /\ Composed /\ cmd.launch
  /\ Len(runs) < MaxRuns
  /\ runs' = Append(runs, [step |-> Step, tool |-> Tool, is |-> "waiting"])
  /\ IF dies THEN cmd' = Idle /\ UNCHANGED file
     ELSE Save(Put([is |-> "running", run |-> Len(runs'), tool |-> Tool, same |-> FALSE]), FALSE)
  /\ astray' = (astray \/ dies)
  /\ UNCHANGED <<teacher, cache, commands, redone>>

\* The command is killed elsewhere, or fails on what it lacks.
Die ==
  /\ cmd # Idle
  /\ cmd' = Idle
  /\ UNCHANGED <<teacher, file, runs, cache, commands, astray, redone>>

-----------------------------------------------------------------------------
\* A run gets the GPU, alone, and begins its folder anew, gives up waiting
\* for it, or ends.  A teacher that is not exact gives other bytes each time;
\* the two tools do not write the same files.
Half == 1
Whole(i) == IF ~teacher.exact THEN 3 + i ELSE IF runs[i].tool = "kl cache" THEN 3 ELSE 2

RunStarts(i) ==
  /\ runs[i].is = "waiting" /\ \A j \in DOMAIN runs : runs[j].is # "running"
  /\ runs' = [runs EXCEPT ![i].is = "running"]
  /\ cache' = IF runs[i].step \in CacheSteps THEN [cache EXCEPT ![runs[i].step] = Half] ELSE cache
  /\ UNCHANGED <<teacher, file, cmd, commands, astray, redone>>

RunEnds(i, how) ==
  /\ \/ runs[i].is = "running" /\ how \in {"completed", "failed"}
     \/ runs[i].is = "waiting" /\ how \in {"deferred", "failed"}
  /\ runs' = [runs EXCEPT ![i].is = how]
  /\ cache' = IF how = "completed" /\ runs[i].step \in CacheSteps
              THEN [cache EXCEPT ![runs[i].step] = Whole(i)] ELSE cache
  /\ UNCHANGED <<teacher, file, cmd, commands, astray, redone>>

Next ==
  \/ \E launch, profiled \in BOOLEAN, redo \in {"none"} \cup Redos : Start(launch, redo, profiled)
  \/ PassBy \/ NotYet \/ Compare \/ Poll \/ Block \/ NotLaunched \/ Die
  \/ \E b \in BOOLEAN : CheckLoader(b) \/ Launch(b)
  \/ \E i \in DOMAIN runs, how \in {"completed", "failed", "deferred"} :
       RunStarts(i) \/ RunEnds(i, how)

-----------------------------------------------------------------------------
\* Unless a command died between launching a run and writing it down, or a
\* cache was reset after the verdict, or one while a run was out: the verdict on
\* the teacher is the truth about it, as far as one tool made both caches,
\* both are whole, and one run is under way at most.
VerdictStands ==
  ~astray /\ ~redone =>
    /\ file["determinism"].is = "done" =>
         /\ file["determinism"].same <=>
              (teacher.exact /\ file["cache_a"].tool = file["cache_b"].tool)
         /\ \A s \in CacheSteps : cache[s] > Half
    /\ \A i, j \in DOMAIN runs :
         runs[i].is \in {"waiting", "running"} /\ runs[j].is \in {"waiting", "running"} => i = j

=============================================================================

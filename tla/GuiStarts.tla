----------------------------- MODULE GuiStarts -----------------------------
(***************************************************************************)
(* Queues started and resumed from the GUI (vqlab/agents/jobs.py): a plan   *)
(* is shown and gets a token, a start spends one, and the CLI reads the     *)
(* queue file for itself and detaches the runner.                          *)
(***************************************************************************)
EXTENDS Naturals, Sequences, FiniteSets

CONSTANTS Versions,    \* contents of the one queue file offered
          MaxTokens,   \* plans shown (bound)
          MaxRuns,     \* queues created (bound)
          MaxCuts      \* launches cut short (bound)

VARIABLES file,        \* the queue file's content
          tokens,      \* tokens still good: number -> digest
          issued,      \* tokens given so far
          busy,        \* the start or resume under way: one at a time
          runs         \* the queues created, each with its runners

gvars == <<file, tokens, issued, busy, runs>>

Idle == [does |-> "idle", of |-> 0, token |-> 0, shown |-> <<>>]

\* What a start is confirmed by: the bytes it will run, and in which mode.
\* of = 0 is the offered file's preflight, else the full run of queue `of`.
Digest(of) == IF of = 0 THEN <<file, "preflight">> ELSE <<runs[of].ran[1], "full">>

\* Mutant: an earlier full run is not looked for.
SourceOnceMore(of) ==
  of # 0 => runs[of].ran[2] = "preflight" /\ runs[of].status = "passed"

\* _source: a full run needs a preflight that passed and has no full run yet.
Source(of) ==
  of # 0 => /\ runs[of].ran[2] = "preflight" /\ runs[of].status = "passed"
            /\ \A i \in DOMAIN runs : runs[i].of # of

Plan(of) ==
  /\ Source(of) /\ issued < MaxTokens
  /\ issued' = issued + 1
  /\ tokens' = [t \in DOMAIN tokens \cup {issued'} |->
                  IF t = issued' THEN Digest(of) ELSE tokens[t]]
  /\ UNCHANGED <<file, busy, runs>>

Without(t) == [u \in DOMAIN tokens \ {t} |-> tokens[u]]

\* After 15 minutes.
Expire(t) ==
  /\ tokens' = Without(t)
  /\ UNCHANGED <<file, issued, busy, runs>>

Edit(v) ==
  /\ v # file /\ file' = v
  /\ UNCHANGED <<tokens, issued, busy, runs>>

\* Mutant: a token is looked up, not taken.
StartLooksUp(of, t) ==
  /\ busy = Idle /\ Source(of) /\ tokens[t] = Digest(of)
  /\ busy' = [Idle EXCEPT !.does = "start", !.of = of, !.token = t, !.shown = tokens[t]]
  /\ UNCHANGED <<file, tokens, issued, runs>>

\* A token is spent by trying it, right or wrong.
Start(of, t) ==
  /\ busy = Idle /\ Source(of)
  /\ tokens' = Without(t)
  /\ busy' = IF tokens[t] # Digest(of) THEN Idle
             ELSE [Idle EXCEPT !.does = "start", !.of = of, !.token = t, !.shown = tokens[t]]
  /\ UNCHANGED <<file, issued, runs>>

\* Mutant: a runner may still be alive.
ResumeAny(i) ==
  /\ busy = Idle
  /\ runs[i].status \in {"running", "halted"}
  /\ busy' = [Idle EXCEPT !.does = "resume", !.of = i]
  /\ UNCHANGED <<file, tokens, issued, runs>>

\* A queue whose recorded runner is alive is not resumed.
Resume(i) ==
  /\ busy = Idle
  /\ runs[i].status \in {"running", "halted"} /\ ~runs[i].recorded
  /\ busy' = [Idle EXCEPT !.does = "resume", !.of = i]
  /\ UNCHANGED <<file, tokens, issued, runs>>

\* `queue run`: the file as it is now, in a queue of its own.
Create ==
  /\ busy.does = "start" /\ Len(runs) < MaxRuns
  /\ runs' = Append(runs, [of |-> busy.of, ran |-> Digest(busy.of), token |-> busy.token,
                           shown |-> busy.shown, status |-> "pinned", live |-> 0,
                           recorded |-> FALSE, cut |-> FALSE])
  /\ busy' = [busy EXCEPT !.does = "resume", !.of = Len(runs')]
  /\ UNCHANGED <<file, tokens, issued>>

\* The detached runner; its pid is in the state a moment later.
Detach ==
  /\ busy.does = "resume"
  /\ runs' = [runs EXCEPT ![busy.of].status = "running", ![busy.of].live = @ + 1]
  /\ busy' = [busy EXCEPT !.does = "claim"]
  /\ UNCHANGED <<file, tokens, issued>>

Claim ==
  /\ busy.does = "claim"
  /\ runs' = [runs EXCEPT ![busy.of].recorded = runs[busy.of].live > 0]
  /\ busy' = Idle
  /\ UNCHANGED <<file, tokens, issued>>

\* The CLI refused, or was ended after 120 s wherever it was.
Abandon ==
  /\ busy # Idle
  /\ busy.does = "claim" => Cardinality({i \in DOMAIN runs : runs[i].cut}) < MaxCuts
  /\ busy' = Idle
  /\ runs' = IF busy.does = "claim" THEN [runs EXCEPT ![busy.of].cut = TRUE] ELSE runs
  /\ UNCHANGED <<file, tokens, issued>>

\* A runner has its lease and writes its own pid.
Runs(i) ==
  /\ runs[i].live > 0
  /\ runs' = [runs EXCEPT ![i].recorded = TRUE]
  /\ UNCHANGED <<file, tokens, issued, busy>>

\* A runner ends: passed, or stopped, failed or killed.
Ends(i, how) ==
  /\ runs[i].live > 0
  /\ runs' = [runs EXCEPT ![i].status = how, ![i].live = @ - 1,
                           ![i].recorded = @ /\ runs[i].live > 1]
  /\ UNCHANGED <<file, tokens, issued, busy>>

Init ==
  /\ file \in Versions
  /\ tokens = <<>> /\ issued = 0 /\ busy = Idle /\ runs = <<>>

Next ==
  \/ \E of \in {0} \cup DOMAIN runs :
       Plan(of) \/ \E t \in DOMAIN tokens : Start(of, t)
  \/ \E t \in DOMAIN tokens : Expire(t)
  \/ \E v \in Versions : Edit(v)
  \/ \E i \in DOMAIN runs : Resume(i) \/ Runs(i) \/ \E how \in {"passed", "halted"} : Ends(i, how)
  \/ Create \/ Detach \/ Claim \/ Abandon

-----------------------------------------------------------------------------
\* Every queue has a confirmation of its own, and ran in the mode confirmed;
\* the full run of a preflight is exactly what was confirmed ("a double click
\* or a second tab cannot start a queue twice").  The file of a preflight can
\* still change between the token and the CLI's own reading of it.
StartsAreConfirmed ==
  \A i \in DOMAIN runs :
    /\ runs[i].ran[2] = runs[i].shown[2]
    /\ runs[i].of # 0 => runs[i].ran = runs[i].shown
    /\ \A j \in DOMAIN runs : i # j => runs[i].token # runs[j].token

\* A preflight's full run is created once, whatever was abandoned half-way
\* (the CLI is killed after 120 s), and only for a preflight that passed (and
\* has, unless it got two runners, not been run again since).
FullRunOnce ==
  \A i \in DOMAIN runs : runs[i].of # 0 =>
    /\ runs[runs[i].of].status = "passed" \/ runs[runs[i].of].cut
    /\ \A j \in DOMAIN runs : i # j => runs[i].of # runs[j].of

\* A queue has two runners only if a start was killed between the launch of
\* the first and its pid in the state (runner._detach).
OneRunner ==
  \A i \in DOMAIN runs : runs[i].live > 1 => runs[i].cut

=============================================================================

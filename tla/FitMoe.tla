------------------------------- MODULE FitMoe -------------------------------
(***************************************************************************)
(* fit-moe (vqlab/fit/fit_moe.py): an artifact fitted shard by shard, in    *)
(* runs that are killed and started again on the same folder, each shard    *)
(* filed in the fit store and shipped away as it is done.                  *)
(***************************************************************************)
EXTENDS Naturals

CONSTANTS Shards,
          TailShards,        \* shards of the layers with a geometry of their own
          Flags,       \* what --dim, --k and --tail-geom may say
          MaxRuns      \* runs, and copies from elsewhere (bound)

VARIABLES out,         \* shard -> nothing, or what it is in the output folder
          shipped,     \* the same for the ship folder
          filed,       \* fits of this folder in the fit store
          config,      \* shard -> the geometry the config gives its modules
          run,         \* the run at work
          ships,       \* the run's --ship
          given,       \* the flags of the runs so far
          turns,       \* runs and copies so far
          missed       \* shards a run was killed over before they were filed

mvars == <<out, shipped, filed, config, run, ships, given, turns, missed>>

Nothing == [is |-> "none", geom |-> <<>>]
Shard(is, geom) == [is |-> is, geom |-> geom]
There(where, s) == where[s].is # "none"
Off == [pc |-> "off", todo |-> {}, at |-> {}, fitted |-> {}, flags |-> {}]
At(pc) == run.pc = pc
GeomFor(flags, s) == <<flags, IF s \in TailShards THEN "tail" ELSE "flat">>

Start(flags) ==
  /\ run.pc \in {"off", "done"} /\ turns < MaxRuns
  /\ run' = [Off EXCEPT !.pc = "next", !.todo = Shards, !.flags = {flags}]
  /\ given' = given \cup {flags} /\ turns' = turns + 1
  /\ UNCHANGED <<out, shipped, filed, config, ships, missed>>

TheFlags == CHOOSE f \in run.flags : TRUE
Skip(s) == run' = [run EXCEPT !.todo = @ \ {s}]
Fitting(s) == run' = [run EXCEPT !.todo = @ \ {s}, !.at = {s}, !.pc = "fit"]

\* Mutant: a file of the right name is a finished shard.
NextIfThere(s) ==
  /\ At("next") /\ s \in run.todo
  /\ IF There(out, s) \/ There(shipped, s) THEN Skip(s) ELSE Fitting(s)
  /\ UNCHANGED <<out, shipped, filed, config, ships, given, turns, missed>>

\* _complete: a partial shard is removed; one that is here, or was shipped, is
\* skipped.
Next_(s) ==
  /\ At("next") /\ s \in run.todo
  /\ out' = IF out[s].is = "whole" THEN out ELSE [out EXCEPT ![s] = Nothing]
  /\ IF There(out', s) \/ There(shipped, s) THEN Skip(s) ELSE Fitting(s)
  /\ UNCHANGED <<shipped, filed, config, ships, given, turns, missed>>

\* The shard under its temporary name, then renamed.
Fit(s) ==
  /\ At("fit") /\ s \in run.at
  /\ out' = [out EXCEPT ![s] = Shard("whole", GeomFor(TheFlags, s))]
  /\ run' = [run EXCEPT !.pc = "put", !.fitted = @ \cup {s}]
  /\ UNCHANGED <<shipped, filed, config, ships, given, turns, missed>>

\* Mutant: shipped first, filed afterwards.
PutLast(s) ==
  /\ At("put") /\ s \in run.at
  /\ shipped' = IF ships THEN [shipped EXCEPT ![s] = out[s]] ELSE shipped
  /\ run' = [run EXCEPT !.pc = "ship"]
  /\ UNCHANGED <<out, filed, config, ships, given, turns, missed>>

\* Its fits go to the store before it can be shipped.
Put(s) ==
  /\ At("put") /\ s \in run.at
  /\ filed' = filed \cup {<<s, out[s].geom>>}
  /\ run' = [run EXCEPT !.pc = "ship"]
  /\ UNCHANGED <<out, shipped, config, ships, given, turns, missed>>

Ship(s) ==
  /\ At("ship") /\ s \in run.at
  /\ shipped' = IF ships THEN [shipped EXCEPT ![s] = out[s]] ELSE shipped
  /\ run' = [run EXCEPT !.pc = "drop"]
  /\ UNCHANGED <<out, filed, config, ships, given, turns, missed>>

Drop(s) ==
  /\ At("drop") /\ s \in run.at
  /\ out' = IF ships THEN [out EXCEPT ![s] = Nothing] ELSE out
  /\ run' = [run EXCEPT !.pc = "next", !.at = {}]
  /\ UNCHANGED <<shipped, filed, config, ships, given, turns, missed>>

\* Mutant: what an earlier run fitted gets the main geometry.
FinishFlat ==
  /\ At("next") /\ run.todo = {}
  /\ config' = [s \in Shards |->
       IF s \in run.fitted THEN GeomFor(TheFlags, s) ELSE <<TheFlags, "flat">>]
  /\ shipped' = IF ships THEN [s \in Shards |-> IF There(out, s) THEN out[s] ELSE shipped[s]]
                ELSE shipped
  /\ run' = [run EXCEPT !.pc = "done"]
  /\ UNCHANGED <<out, filed, ships, given, turns, missed>>

\* Index, config (what earlier runs fitted is described from the flags),
\* model.py and record; and what is still here is shipped.
Finish ==
  /\ At("next") /\ run.todo = {}
  /\ config' = [s \in Shards |-> GeomFor(TheFlags, s)]
  /\ shipped' = IF ships THEN [s \in Shards |-> IF There(out, s) THEN out[s] ELSE shipped[s]]
                ELSE shipped
  /\ run' = [run EXCEPT !.pc = "done"]
  /\ UNCHANGED <<out, filed, ships, given, turns, missed>>

\* Killed, or a fit that stays bad after its refits.
Killed ==
  /\ run.pc \notin {"off", "done"}
  /\ missed' = IF At("put") THEN missed \cup run.at ELSE missed
  /\ run' = Off
  /\ UNCHANGED <<out, shipped, filed, config, ships, given, turns>>

\* Someone brings a shard of an earlier run back; a run may find it half there.
Copied(s, is, flags) ==
  /\ run.pc \in {"off", "done"} /\ turns < MaxRuns /\ ~There(out, s)
  /\ out' = [out EXCEPT ![s] = Shard(is, GeomFor(flags, s))]
  /\ filed' = filed \cup {<<s, GeomFor(flags, s)>>}
  /\ given' = given \cup {flags} /\ turns' = turns + 1
  /\ run' = Off
  /\ UNCHANGED <<shipped, config, ships, missed>>

Init ==
  /\ out = [s \in Shards |-> Nothing] /\ shipped = out
  /\ filed = {} /\ config = [s \in Shards |-> <<>>]
  /\ run = Off /\ ships \in BOOLEAN
  /\ given = {} /\ turns = 0 /\ missed = {}

Next ==
  \/ \E f \in Flags : Start(f) \/ \E s \in Shards, is \in {"whole", "torn"} : Copied(s, is, f)
  \/ \E s \in Shards : Next_(s) \/ Fit(s) \/ Put(s) \/ Ship(s) \/ Drop(s)
  \/ Finish \/ Killed

-----------------------------------------------------------------------------
\* A run that finished leaves a whole artifact: every shard is here or was
\* shipped, no truncated one among them, whichever runs made them.
BuiltIsWhole ==
  At("done") => \A s \in Shards : (IF ships THEN shipped[s] ELSE out[s]).is = "whole"

\* The config a finished run writes describes each shard's codes, those of
\* earlier runs too ("geom_for, NOT GEOM"), if all runs had the same flags.
ConfigTellsGeometry ==
  At("done") /\ (\A f, g \in given : f = g) =>
    \A s \in Shards : (IF ships THEN shipped[s] ELSE out[s]).geom = config[s]

\* No fit leaves the folder unfiled ("BEFORE ship() can move the shard"),
\* unless a run was killed between its rename and the store: no later run
\* files it.
FitsOutlive ==
  \A s \in Shards \ missed : There(shipped, s) => <<s, shipped[s].geom>> \in filed

=============================================================================

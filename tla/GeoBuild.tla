------------------------------ MODULE GeoBuild ------------------------------
(***************************************************************************)
(* geo-build (vqlab/fit/geo_build.py): modules of a shipped artifact refit  *)
(* at the geometries of a geomap.  Each fit is a part in a parts folder     *)
(* that outlives the run, with a ledger of where the parts came from; the   *)
(* artifact is assembled from all of them at the end.                      *)
(***************************************************************************)
EXTENDS Naturals

CONSTANTS Modules, Geoms,
          Pool,        \* parts another run or the store offers
          MaxRuns      \* (bound)

VARIABLES parts,       \* part -> "none", "torn", or who made it: "fit" or "reuse"
          ledger,      \* part -> "none", "fit" or "reuse" (origins.json)
          stored,      \* parts fitted here that are in the fit store
          run,         \* the run at work
          runs,        \* runs so far
          built,       \* module -> the part assembled, or "shipped"
          record,      \* module -> the origin in the build record
          unfiled      \* parts a run was killed over before they were stored

bvars == <<parts, ledger, stored, run, runs, built, record, unfiled>>

Parts == Modules \X Geoms
Off == [pc |-> "off", geo |-> <<>>, todo |-> {}, at |-> <<>>]
At(pc) == run.pc = pc
Goto(pc, at) == run' = [run EXCEPT !.pc = pc, !.at = at]
Wanted == {<<n, run.geo[n]>> : n \in DOMAIN run.geo}

\* A run, with the modules and geometries of its geomap.
Start(geo) ==
  /\ run.pc \in {"off", "done"} /\ runs < MaxRuns
  /\ run' = [pc |-> "reuse", geo |-> geo, todo |-> {<<n, geo[n]>> : n \in DOMAIN geo}, at |-> <<>>]
  /\ runs' = runs + 1
  /\ UNCHANGED <<parts, ledger, stored, built, record, unfiled>>

\* Mutant: noted when the copy begins.
ReuseNoted(x) ==
  /\ At("reuse") /\ x \in run.todo \cap Pool /\ parts[x] = "none"
  /\ parts' = [parts EXCEPT ![x] = "torn"]
  /\ ledger' = [ledger EXCEPT ![x] = "reuse"]
  /\ Goto("copy", x)
  /\ UNCHANGED <<stored, runs, built, record, unfiled>>

\* A part of the pool with the right shapes is copied in, ...
Reuse(x) ==
  /\ At("reuse") /\ x \in run.todo \cap Pool /\ parts[x] = "none"
  /\ parts' = [parts EXCEPT ![x] = "torn"]
  /\ Goto("copy", x)
  /\ UNCHANGED <<ledger, stored, runs, built, record, unfiled>>

Copied ==
  /\ At("copy")
  /\ parts' = [parts EXCEPT ![run.at] = "reuse"]
  /\ Goto("copied", run.at)
  /\ UNCHANGED <<ledger, stored, runs, built, record, unfiled>>

\* ... and noted.
Noted ==
  /\ At("copied")
  /\ ledger' = [ledger EXCEPT ![run.at] = "reuse"]
  /\ Goto("reuse", <<>>)
  /\ UNCHANGED <<parts, stored, runs, built, record, unfiled>>

Reused ==
  /\ At("reuse") /\ \A x \in run.todo \cap Pool : parts[x] # "none"
  /\ Goto("fit", <<>>)
  /\ UNCHANGED <<parts, ledger, stored, runs, built, record, unfiled>>

\* Mutant: a part that exists is a part that is finished.
PickIfThere(x) ==
  /\ At("fit") /\ x \in run.todo
  /\ run' = [run EXCEPT !.todo = @ \ {x}, !.at = x, !.pc = IF parts[x] = "none" THEN "save" ELSE "fit"]
  /\ UNCHANGED <<parts, ledger, stored, runs, built, record, unfiled>>

\* A part that can be read is done; a torn one is removed and fitted again.
Pick(x) ==
  /\ At("fit") /\ x \in run.todo
  /\ run' = [run EXCEPT !.todo = @ \ {x}, !.at = x,
                        !.pc = IF parts[x] \in {"none", "torn"} THEN "save" ELSE "fit"]
  /\ parts' = IF parts[x] = "torn" THEN [parts EXCEPT ![x] = "none"] ELSE parts
  /\ UNCHANGED <<ledger, stored, runs, built, record, unfiled>>

\* A fit is saved in place, ...
Save ==
  /\ At("save")
  /\ parts' = [parts EXCEPT ![run.at] = IF @ = "torn" THEN "fit" ELSE "torn"]
  /\ Goto(IF parts'[run.at] = "fit" THEN "note" ELSE "save", run.at)
  /\ UNCHANGED <<ledger, stored, runs, built, record, unfiled>>

\* Mutant: only noted.
NoteOnly ==
  /\ At("note")
  /\ ledger' = [ledger EXCEPT ![run.at] = "fit"]
  /\ Goto("fit", <<>>)
  /\ UNCHANGED <<parts, stored, runs, built, record, unfiled>>

\* ... noted, and put in the store.
Note ==
  /\ At("note")
  /\ ledger' = [ledger EXCEPT ![run.at] = "fit"]
  /\ Goto("put", run.at)
  /\ UNCHANGED <<parts, stored, runs, built, record, unfiled>>

Put ==
  /\ At("put")
  /\ stored' = stored \cup {run.at}
  /\ Goto("fit", <<>>)
  /\ UNCHANGED <<parts, ledger, runs, built, record, unfiled>>

\* Everything in the parts folder is taken; of two parts of one module the
\* later one of the listing.  The record gives the origins of the geomap's.
Assemble ==
  /\ At("fit") /\ run.todo = {}
  /\ LET offered(n) == {x \in Parts : x[1] = n /\ parts[x] # "none"}
     IN  \E pick \in [Modules -> Parts \cup {"shipped"}] :
           /\ \A n \in Modules : IF offered(n) = {} THEN pick[n] = "shipped" ELSE pick[n] \in offered(n)
           /\ built' = pick
  /\ record' = [n \in Modules |->
       IF n \notin DOMAIN run.geo THEN "shipped"
       ELSE IF ledger[n, run.geo[n]] = "none" THEN "resume" ELSE ledger[n, run.geo[n]]]
  /\ Goto("done", <<>>)
  /\ UNCHANGED <<parts, ledger, stored, runs, unfiled>>

Killed ==
  /\ run.pc \notin {"off", "done"}
  /\ unfiled' = IF run.pc \in {"note", "put"} THEN unfiled \cup {run.at} ELSE unfiled
  /\ run' = Off
  /\ UNCHANGED <<parts, ledger, stored, runs, built, record>>

Init ==
  /\ parts = [x \in Parts |-> "none"] /\ ledger = parts
  /\ stored = {} /\ run = Off /\ runs = 0 /\ unfiled = {}
  /\ built = [n \in Modules |-> "shipped"] /\ record = built

Next ==
  \/ \E some \in SUBSET Modules : \E geo \in [some -> Geoms] : some # {} /\ Start(geo)
  \/ \E x \in Parts : Reuse(x) \/ Pick(x)
  \/ Copied \/ Noted \/ Reused \/ Save \/ Note \/ Put \/ Assemble \/ Killed

-----------------------------------------------------------------------------
\* A finished build is its geomap: every module has the whole part of its
\* geometry and no other module changed, whichever runs made the parts, as
\* long as the parts folder served no other geomap.
BuildIsGeomap ==
  At("done") /\ (\A x \in Parts : parts[x] # "none" => x \in Wanted) =>
    /\ \A n \in Modules : built[n] = IF n \in DOMAIN run.geo THEN <<n, run.geo[n]>> ELSE "shipped"
    /\ \A x \in Wanted : parts[x] # "torn"

\* The build record does not call a part a fit of this lab's that was copied,
\* or the other way round ("how a checkpoint came to be"): after any number of
\* killed runs an origin is the true one or says that it is not known.
OriginsAreTrue ==
  /\ \A x \in Parts : ledger[x] # "none" /\ parts[x] \in {"fit", "reuse"} => ledger[x] = parts[x]
  /\ At("done") => \A x \in Wanted : record[x[1]] \in {parts[x], "resume"}

\* A fit made here is in the store, unless the run was killed between saving
\* it and storing it: a resumed run skips the part and does not file it.
FitsAreStored ==
  \A x \in Parts \ unfiled :
    parts[x] = "fit" /\ ~(run.pc \in {"note", "put"} /\ run.at = x) => x \in stored

=============================================================================

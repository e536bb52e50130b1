------------------------------ MODULE MCBuilds ------------------------------
(***************************************************************************)
(* What builds an artifact, checked side by side: a recipe's chain of       *)
(* steps, the fitters that keep their work between runs, the tools that     *)
(* write artifact folders, the build record those folders carry, and what   *)
(* may be deleted of them.  Each behaviour is one part's, chosen in the     *)
(* initial state; the parts take turns at v1 to v9.                         *)
(***************************************************************************)
EXTENDS RecipeChain, Integers, TLC

CONSTANTS MoeShards, TailShards, Flags, MoeRuns,   \* fit-moe
          Modules, Geoms, Pool, RefitRuns,         \* geo-build
          Experts, Banked, Targets, Texts, BaseCode, BaseScale, Codebook,
          MaxBanks, SelectRuns,                    \* reselect
          FolderTools,                             \* artifact folders
          RecordFiles, RecordEdits, RecordJobs,    \* build records
          VolumeEdits,                             \* scratch
          None

VARIABLES part,                               \* the part that moves
          v1, v2, v3, v4, v5, v6, v7, v8, v9  \* its state

vs == <<v1, v2, v3, v4, v5, v6, v7, v8, v9>>

\* Every family and mode; a dense recipe alone names a base.
MCRecipes == {r \in Recipe : (r.base => r.mode = "vq" /\ Fam(r).kind = "dense")}

\* One module of a store; two that are banked and one that is not; two teachers
\* and two texts, which differ in what they weigh.
FirstGeometry == {<<"m", 1>>, <<"n", 1>>}
TwoTargets == {("m" :> <<3, 1>> @@ "n" :> <<-1, 2>>), ("m" :> <<2, 2>> @@ "n" :> <<-2, 1>>)}
TwoTexts == {("m" :> <<<<2, 1>>, <<1, 0>>>> @@ "n" :> <<<<2, 1>>>>),
             ("m" :> <<<<0, 1>>, <<1, -2>>>> @@ "n" :> <<<<1, 3>>>>)}
SomeCodes == ("m" :> 1 @@ "n" :> 3 @@ "p" :> 2)
SomeScales == ("m" :> 2 @@ "n" :> 2 @@ "p" :> 1)
FourCodewords == <<<<0, 0>>, <<1, 0>>, <<-1, 1>>, <<1, 1>>>>

Queue == INSTANCE RecipeRun WITH
  Recipes <- MCRecipes,
  recipe <- v1, phase <- v2, at <- v3, files <- v4, outmap <- v5, seen <- v6
Fitter == INSTANCE FitMoe WITH
  Shards <- MoeShards, MaxRuns <- MoeRuns,
  out <- v1, shipped <- v2, filed <- v3, config <- v4, run <- v5, ships <- v6, given <- v7,
  turns <- v8, missed <- v9
Refit == INSTANCE GeoBuild WITH
  MaxRuns <- RefitRuns,
  parts <- v1, ledger <- v2, stored <- v3, run <- v4, runs <- v5, built <- v6, record <- v7,
  unfiled <- v8
Folders == INSTANCE ArtifactDirs WITH
  MaxTools <- FolderTools, file <- v1, job <- v2, owed <- v3, dense <- v4, turns <- v5

Reselection == INSTANCE Reselect WITH
  Modules <- Experts, MaxRuns <- SelectRuns,
  banks <- v1, parts <- v2, out <- v3, run <- v4, runs <- v5, mixed <- v6
\* What reselect computes with: numbers, and a code for every module.  The
\* Gram matrices are what its texts give.
Rows == Int \X Int
ASSUME SelectAssumption ==
  /\ Banked \subseteq Experts
  /\ Codebook \in Seq(Rows) /\ Codebook # <<>>
  /\ BaseCode \in [Experts -> DOMAIN Codebook] /\ BaseScale \in [Experts -> Int]
  /\ \A t \in Targets : \A m \in Banked : t[m] \in Rows
  /\ \A text \in Texts : \A m \in Banked : Reselection!Gram(text[m]) \in Int \X Int \X Int

\* No file holds what stands for a missing one, nor is a folder called so.
ASSUME FolderAssumption ==
  None \notin Folders!Dirs \cup Folders!Contents \cup Folders!PleEntries \cup Folders!Configs \cup Folders!Indexes

Records == INSTANCE Provenance WITH
  Files <- RecordFiles, MaxEdits <- RecordEdits, MaxJobs <- RecordJobs,
  files <- v1, cfgpath <- v2, record <- v3, history <- v4, children <- v5, job <- v6, spent <- v7,
  sound <- v8, cut <- v9
\* The files of an artifact; --portable rewrites its config.
ASSUME RecordAssumption == "config" \in RecordFiles

Volume == INSTANCE Scratch WITH
  MaxEdits <- VolumeEdits, data <- v1, shown <- v2, within <- v3, packed <- v4, links <- v5, queue <- v6,
  filed <- v7, registered <- v8, spent <- v9

Unused7 == v7 = None /\ v8 = None /\ v9 = None

BuildsInit ==
  \/ part = "recipe" /\ Queue!Init /\ Unused7
  \/ part = "moe" /\ Fitter!Init
  \/ part = "refit" /\ Refit!Init /\ v9 = None
  \/ part = "folders" /\ Folders!Init /\ v6 = None /\ Unused7
  \/ part = "reselect" /\ Reselection!Init /\ Unused7
  \/ part = "records" /\ Records!Init
  \/ part = "scratch" /\ Volume!Init

BuildsNext ==
  /\ UNCHANGED part
  /\ \/ part = "recipe" /\ Queue!Next /\ UNCHANGED <<v7, v8, v9>>
     \/ part = "moe" /\ Fitter!Next
     \/ part = "refit" /\ Refit!Next /\ UNCHANGED v9
     \/ part = "folders" /\ Folders!Next /\ UNCHANGED <<v6, v7, v8, v9>>
     \/ part = "reselect" /\ Reselection!Next /\ UNCHANGED <<v7, v8, v9>>
     \/ part = "records" /\ Records!Next
     \/ part = "scratch" /\ Volume!Next

BuildsSpec == BuildsInit /\ [][BuildsNext]_<<part, vs>>

-----------------------------------------------------------------------------
\* Every compiled chain finds its inputs, in the preflight and in the run, and
\* a preflight writes under its own folders only; what the closing checks looked
\* at is what is pinned, and it is everything the recipe asked for.
ChainIsSound ==
  part = "recipe" => /\ Queue!ChainCloses /\ Queue!PreflightIsApart
                     /\ Queue!CheckedIsPinned /\ Queue!AskedForIsPinned

\* A finished fit-moe leaves no truncated shard, its config describes the
\* codes, those of earlier runs too, and its fits are in the store; a finished
\* re-selection holds the best codes there are under the Grams and flags its
\* parts were made by.
FitIsWhole ==
  /\ part = "moe" =>
       Fitter!BuiltIsWhole /\ Fitter!ConfigTellsGeometry /\ Fitter!FitsOutlive
  /\ part = "reselect" => Reselection!SelectedIsBest

\* A finished geo-build is its geomap, its record never calls a copied part a
\* fit, or the other way round, and no fit is left out of the store; and a
\* build record keeps the chain of what it amends and finds every id a child
\* named, in a history that can be read, unless a kill cut a write of that
\* history or a --portable, and verifies until something else touches a file.
BuildIsAsRecorded ==
  /\ part = "refit" =>
       Refit!BuildIsGeomap /\ Refit!OriginsAreTrue /\ Refit!FitsAreStored
  /\ part = "records" => Records!ChainIsWhole

\* A folder no tool was left unfinished in agrees with itself, and a pin with
\* a record is whole.
FoldersAgree ==
  part = "folders" => Folders!FinishedAgrees /\ Folders!RecordedIsWhole

\* A tool in a derived folder leaves its source alone.
SourcesSurvive == [][part = "folders" => Folders!SourceUntouched]_vs

\* The rm lines of a scratch survey leave a copy of everything they delete,
\* but of sources edited in a way the survey cannot see.
ReclaimIsSafe == [][part = "scratch" => Volume!DeletedIsElsewhere]_vs

=============================================================================

--------------------------- MODULE MCLocalStores ---------------------------
(***************************************************************************)
(* The parts that keep state of their own and share none, checked side by  *)
(* side: each behaviour is one part's, chosen in the initial state.  The    *)
(* findings log has its own variables, the other parts take turns at v1 to  *)
(* v10.                                                                    *)
(***************************************************************************)
EXTENDS FindingsLog, Sequences, TLC

CONSTANTS Callers, HostOf,           \* sessions that reserve, and the host of each
          Commands, MaxEntries,      \* commands at the validation queue
          Fits, Fitters, MaxCommands, \* fits, and the commands at their store
          Requests, MaxFetches,      \* downloads asked for
          Versions, MaxTokens, MaxRuns, MaxCuts,  \* the GUI's queues
          Shells, MaxSets, MaxLookups, \* processes that set the locations,
          Environments, Settable, Words,  \* in what environments, to what
          Models, Folders, NameOf, MaxChanges, MaxScans, MaxProfiles,  \* the model scan
          box, other,                \* two hosts' sessions
          None

\* The scan's places together reach the models there can be.
ASSUME LibraryAssumption ==
  /\ IsFiniteSet(Models) /\ Folders \in Seq(SUBSET Models)
  /\ Models = UNION {Folders[i] : i \in DOMAIN Folders}

\* None is no session; fetches and entries are counted.
ASSUME LocalAssumption == None \notin Callers /\ MaxFetches \in Nat /\ MaxEntries \in Nat

\* A place is a path, or paths; one that is empty counts as none.
PlaceOf(k, x) ==
  /\ x # <<>>
  /\ IF k \in {"fit_store", "roots"} THEN x \in Seq(Seq(Words)) ELSE x \in Seq(Words)
ASSUME SettingsAssumption ==
  /\ {"home", ".vqlab", ".local", "VQLab", "scratch", "models", "teachers", "fits",
       "gpu.lease", "records", "x"} \subseteq Words
  /\ \A e \in Environments :
       e = [k \in DOMAIN e |-> e[k]] /\ \A k \in DOMAIN e : PlaceOf(k, e[k])
  /\ "lab" \in DOMAIN Settable
  /\ \A k \in DOMAIN Settable : \A x \in Settable[k] : PlaceOf(k, x)

VARIABLES part,                                    \* the part that moves
          v1, v2, v3, v4, v5, v6, v7, v8, v9, v10  \* its state

vs == <<v1, v2, v3, v4, v5, v6, v7, v8, v9, v10>>

TwoHosts == (box :> "box" @@ other :> "other")

\* Places that overlap, and two folders that hold copies of one model.
TwoPlaces == <<{"a", "b"}, {"b", "c"}>>
Copies == ("a" :> "x" @@ "b" :> "y" @@ "c" :> "x")

\* A folder has at most one flaw; what decides about an image processor
\* counts only where the config declares a tower and the processor is missing.
MCLike == {a \in [tower : BOOLEAN, vision : BOOLEAN, processor : BOOLEAN,
                  base : {"unknown", "ships", "without"}, fits : BOOLEAN] :
             /\ ~a.vision => a.processor
             /\ a.processor => a.base = "unknown"}
MCArtifacts == [like : MCLike,
                flaws : {{}} \cup {{x} : x \in {"incomplete", "dtype", "foreign", "elsewhere",
                          "mute", "long", "unwired", "record", "spelling", "leak"}}]
MCCalls == [arm : {"local", "cluster", "knurlogic"}, smoke : BOOLEAN, prefill : BOOLEAN,
            vision : BOOLEAN, upload : {{}, {"model", "card"}, {"card"}}]

\* The teachers may go into a folder of the models'.  The environment may name
\* the models' folder, two fit stores and a root of its own.
TwoEnvironments == {<<>>, [fit_store |-> <<<<"drive", "a">>, <<"b">>>>, roots |-> <<<<"c">>>>,
                           models |-> <<"e">>]}
ThreePlaces == [lab |-> {<<"drive">>}, models |-> {<<"drive", "m">>},
                teachers |-> {<<"drive", "m", "t">>}]
SomeWords == {"home", ".vqlab", ".local", "VQLab", "scratch", "models", "teachers", "fits",
              "gpu.lease", "records", "x", "drive", "a", "b", "c", "e", "m", "t"}

Gate == INSTANCE Release WITH
  Calls <- MCCalls, Artifacts <- MCArtifacts, Edited <- {"model", "card"}, MaxEdits <- 2,
  call <- v1, art <- v2, flaws <- v3, stage <- v4, failed <- v5, hashed <- v6, edits <- v7,
  late <- v8, hub <- v9
Boxes == INSTANCE Reservations WITH
  store <- v1, mounted <- v2, pc <- v3, saw <- v4, owed <- v5
Overnight == INSTANCE ValidateQueue WITH
  queue <- v1, added <- v2, cleared <- v3, did <- v4, proc <- v5, overlap <- v6
Store == INSTANCE FitStore WITH
  Commands <- Fitters,
  data <- v1, side <- v2, index <- v3, proc <- v4, given <- v5, put <- v6, torn <- v7,
  overlap <- v8
Hub == INSTANCE Downloads WITH
  entry <- v1, fetch <- v2, rc <- v3, lockpid <- v4, own <- v5, asked <- v6, whole <- v7,
  orphan <- v8
Gui == INSTANCE GuiStarts WITH
  file <- v1, tokens <- v2, issued <- v3, busy <- v4, runs <- v5

Library == INSTANCE ModelScan WITH
  Places <- Folders,
  disk <- v1, scans <- v2, locked <- v3, index <- v4, profiles <- v5, profiling <- v6, jobs <- v7,
  spent <- v8, stale <- v9, overlap <- v10
Teacher == INSTANCE Onboard WITH
  Redos <- {"cache_a"}, MaxCommands <- 4, MaxRuns <- 3,
  teacher <- v1, file <- v2, cmd <- v3, runs <- v4, cache <- v5, commands <- v6, astray <- v7,
  redone <- v8

Bundle == INSTANCE Bundles WITH
  MaxRevs <- 4, MaxTools <- 1, MaxLooks <- 1, MaxFixes <- 1,
  repo <- v1, registry <- v2, same <- v3, art <- v4, mtime <- v5, tool <- v6, look <- v7,
  cache <- v8, shipped <- v9, spent <- v10

Settings == INSTANCE Locations WITH
  Procs <- Shells, MaxWrites <- MaxSets, MaxRecords <- MaxLookups,
  Envs <- Environments, Places <- Settable,
  Leftovers <- {{}, {"data", "log"}, {"records"}},
  file <- v1, temp <- v2, older <- v3, proc <- v4, kept <- v5, recs <- v6, told <- v7,
  overlap <- v8, strayed <- v9, env <- v10

Unused9 == v9 = None /\ v10 = None
Unused7 == v7 = None /\ v8 = None /\ Unused9
Unused6 == v6 = None /\ Unused7

LocalInit ==
  /\ Init
  /\ \/ part = "log" /\ v1 = None /\ v2 = None /\ v3 = None /\ v4 = None /\ v5 = None /\ Unused6
     \/ part = "gate" /\ Gate!Init /\ v10 = None
     \/ part = "boxes" /\ Boxes!Init /\ Unused6
     \/ part = "overnight" /\ Overnight!Init /\ Unused7
     \/ part = "fits" /\ Store!Init /\ Unused9
     \/ part = "hub" /\ Hub!Init /\ Unused9
     \/ part = "gui" /\ Gui!Init /\ Unused6
     \/ part = "library" /\ Library!Init
     \/ part = "teacher" /\ Teacher!Init /\ Unused9
     \/ part = "bundle" /\ Bundle!Init
     \/ part = "settings" /\ Settings!Init

LocalNext ==
  /\ UNCHANGED part
  /\ \/ part = "log" /\ Next /\ UNCHANGED vs
     \/ /\ UNCHANGED vars
        /\ \/ part = "gate" /\ Gate!Next /\ UNCHANGED v10
           \/ part = "boxes" /\ Boxes!Next /\ UNCHANGED <<v6, v7, v8, v9, v10>>
           \/ part = "overnight" /\ Overnight!Next /\ UNCHANGED <<v7, v8, v9, v10>>
           \/ part = "fits" /\ Store!Next /\ UNCHANGED <<v9, v10>>
           \/ part = "hub" /\ Hub!Next /\ UNCHANGED <<v9, v10>>
           \/ part = "gui" /\ Gui!Next /\ UNCHANGED <<v6, v7, v8, v9, v10>>
           \/ part = "library" /\ Library!Next
           \/ part = "teacher" /\ Teacher!Next /\ UNCHANGED <<v9, v10>>
           \/ part = "bundle" /\ Bundle!Next
           \/ part = "settings" /\ Settings!Next

LocalSpec == LocalInit /\ [][LocalNext]_<<part, vars, vs>>

Symmetry == Permutations(Commands) \cup Permutations(Versions)

\* Contents of the queue file that a run was made of or a token is good for.
ContentsSeen == {v5[i].ran[1] : i \in DOMAIN v5} \cup {v2[t][1] : t \in DOMAIN v2}

\* Of a teacher with a run nobody knows of nothing is claimed, nor of settings
\* two processes wrote at once: such histories are not followed further.  Past
\* the second of the GUI's tokens only those of one content are (bound).
Followed == /\ part = "teacher" => ~v7
            /\ part = "settings" => ~v8
            /\ part = "gui" /\ v3 > 2 => ContentsSeen \subseteq {v1}

-----------------------------------------------------------------------------
\* check-release passes only what every check it promises has looked at, and
\* publish uploads nothing flawed but a file rebuilt behind its two digests;
\* what check-bundle and the Fleet page say of a bundle's runtime holds.
ReleaseIsGated ==
  /\ part = "gate" => Gate!PassMeansLooked /\ Gate!UploadedIsGated
  /\ part = "bundle" => Bundle!VerdictIsTrue

\* reserve replaces another session's reservation only unseen, and runner.run
\* starts nothing on a box reserved for others before the launch.
ReservationsHold == [][part = "boxes" => Boxes!Replaces /\ Boxes!Starts]_vs

\* validate: a saved result is one its gates gave, and commands one at a
\* time, killed anywhere, lose nothing.  onboard: its verdict on a teacher is
\* the truth about it.
ResultsAreTrue ==
  /\ part = "overnight" => Overnight!ResultIsEarned /\ Overnight!NothingIsLost
  /\ part = "teacher" => Teacher!VerdictStands

\* A fit that was put keeps its data and a sidecar, a sidecar has its data
\* file, and the index finds the fit, at least after a reindex.
FitsAreKept == part = "fits" => Store!ArchiveKept /\ Store!SidecarHasData /\ Store!IndexFinds

\* A download turns `done` only when every file is there; one fetch runs at a
\* time, and none behind a download shown as ended.
DownloadsAreTrue == [][part = "hub" => Hub!Settles /\ Hub!ShownAsItIs']_vs

\* Every queue the GUI creates has a confirmation of its own, the full run of
\* a preflight is created once, and a queue gets one runner; the model index
\* lists every model once, as it is, and one process profiles it at a time.
StartsAreSingle ==
  /\ part = "gui" => Gui!StartsAreConfirmed /\ Gui!FullRunOnce /\ Gui!OneRunner
  /\ part = "library" => Library!IndexIsTrue

\* The config file holds every setting made, records find what they name
\* while its place stands, and nothing else moves a location or a run log.
SettingsStand ==
  part = "settings" =>
    Settings!SettingsKept /\ Settings!RecordsOpen /\ Settings!NothingStrays

=============================================================================

----------------------------- MODULE Locations -----------------------------
(***************************************************************************)
(* Where vqlab reads and writes (vqlab/config.py) and what changes it: the  *)
(* first command of an install, `vqlab lab config set` and `init`, the      *)
(* GUI's Settings page (agents/first_run.py, config_cmd.py, settings.py).   *)
(* A place is a path, a sequence of names; the config file is its [paths]   *)
(* table, every other line being carried along; a build record names the    *)
(* artifacts it was made from by portable paths.                           *)
(***************************************************************************)
EXTENDS Naturals, Sequences, SequencesExt

CONSTANTS Procs,      \* processes: commands, the GUI's server
          Envs,       \* the $VQLAB_* the processes may be started with
          Places,    \* what may be set: key -> its places
          Leftovers,  \* what an older install may have left
          MaxWrites,  \* writes of the config file (bound)
          MaxRecords  \* records looked after (bound)

VARIABLES env,      \* the environment of all of them
          file,     \* the config file: <<>>, or <<its table>>
          temp,     \* the file a set writes before it replaces that one
          older,    \* what an install from before the lab folder left
          proc,     \* the processes
          kept,     \* what the file should hold: the settings made
          recs,     \* records of places nobody set anew since
          told,     \* writes of the config file so far
          overlap,  \* two writers were at the config file at once
          strayed   \* the locations or run logs something else moved

lvars == <<env, file, temp, older, proc, kept, recs, told, overlap, strayed>>

Old == <<"home", ".vqlab">>
Xdg == <<"home", ".local">>
Nothing == [k \in {} |-> <<>>]
Asked == <<"lab", "scratch", "models", "teachers", "fit_store", "gpu_lease", "records">>
Contents(f) == IF f = <<>> THEN Nothing ELSE f[1]

-----------------------------------------------------------------------------
(* A view of the locations: the environment, the table, the older data.      *)

\* _raw: the environment before the file; <<>> where neither sets it.
Raw(v, k) == CASE k \in DOMAIN v.env -> v.env[k]
               [] k \in DOMAIN v.table \ DOMAIN v.env -> v.table[k]
               [] OTHER -> <<>>
Or(set, default) == IF set = <<>> THEN default ELSE set

Lab(v) == Or(Raw(v, "lab"), <<"home", "VQLab">>)

\* _legacy_home_used, where no lab folder is set.
Legacy(v) == Raw(v, "lab") = <<>> /\ "data" \in v.older
Base(v) == IF Legacy(v) THEN Old ELSE Lab(v)

Scratch(v) == Or(Raw(v, "scratch"), Append(Base(v), "scratch"))
ModelsFolder(v) == Or(Raw(v, "models"), Append(Base(v), "models"))
GpuLease(v) == Or(Raw(v, "gpu_lease"), Append(Base(v), "gpu.lease"))

\* bf16 teachers share the models folder, but not in an older install.
Teachers(v) == Or(Raw(v, "teachers"), IF Legacy(v) THEN Append(Old, "teachers") ELSE ModelsFolder(v))
Records(v) == Or(Raw(v, "records"),
                 IF Raw(v, "lab") = <<>> /\ "records" \in v.older THEN Xdg
                 ELSE Append(Lab(v), "records"))

\* These two may be lists; the first entry of fit_store receives new fits.
FitStore(v) == Or(Raw(v, "fit_store"), <<Append(Base(v), "fits")>>)
Roots(v) == Or(Raw(v, "roots"), <<Scratch(v), ModelsFolder(v), Teachers(v)>> \o FitStore(v))

\* run_log: one already there is kept.
RunLog(v) == IF "log" \in v.older THEN Old ELSE Records(v)

Location(v, k) == CASE k = "lab" -> Lab(v) [] k = "scratch" -> Scratch(v)
                    [] k = "models" -> ModelsFolder(v) [] k = "teachers" -> Teachers(v)
                    [] k = "gpu_lease" -> GpuLease(v) [] k = "records" -> Records(v)
                    [] k = "fit_store" -> FitStore(v)

\* require_storage: where a command may write an artifact.
Storage(v) == {Scratch(v)} \cup Range(Roots(v))

\* Mutant: teachers that share the models folder have a label of their own.
LabelledEach(v) == <<<<"teachers", Teachers(v)>>, <<"models", ModelsFolder(v)>>, <<"scratch", Scratch(v)>>>>

\* _labelled_roots, and what private_prefixes adds for the text of a record.
Labelled(v) ==
  <<<<"models", ModelsFolder(v)>>, <<"scratch", Scratch(v)>>>>
  \o (IF Teachers(v) # ModelsFolder(v) THEN <<<<"teachers", Teachers(v)>>>> ELSE <<>>)
Private(v) ==
  Labelled(v) \o [i \in DOMAIN FitStore(v) |-> <<"fit_store", FitStore(v)[i]>>]
  \o [i \in DOMAIN Raw(v, "roots") |-> <<"roots", Raw(v, "roots")[i]>>] \o <<<<"~", <<"home">>>>>>

\* The most specific prefix of a path, the first of equals; a path under none
\* of them stays absolute.
Portable(prefixes, path) ==
  LET under == {i \in DOMAIN prefixes : IsPrefix(prefixes[i][2], path)}
      best == {i \in under : \A j \in under :
                 \/ Len(prefixes[j][2]) < Len(prefixes[i][2])
                 \/ Len(prefixes[j][2]) = Len(prefixes[i][2]) /\ i <= j}
  IN  IF under = {} THEN [label |-> "none", rest |-> path]
      ELSE [label |-> prefixes[CHOOSE i \in best : TRUE][1],
            rest |-> SubSeq(path, Len(prefixes[CHOOSE i \in best : TRUE][2]) + 1, Len(path))]

\* resolve_recorded and expand: <root> is none of their placeholders.
Resolve(v, r) ==
  CASE r.label = "none" -> r.rest
    [] r.label = "~" -> <<"home">> \o r.rest
    [] r.label = "fit_store" -> FitStore(v)[1] \o r.rest
    [] r.label = "roots" -> <<"<root>">> \o r.rest
    [] OTHER -> Location(v, r.label) \o r.rest

-----------------------------------------------------------------------------
\* A process reads the file once (lru_cache), and again only after its own
\* writes.  `at` is the folder its run log line began in; `ask` and `was` are
\* the questions `init` still has and the places it showed.
Off == [pc |-> "off", read |-> <<>>, at |-> <<>>, own |-> FALSE,
        key |-> "none", lines |-> Nothing, ask |-> <<>>, was |-> Nothing, enter |-> FALSE]

Given(table) == [env |-> env, table |-> table, older |-> older]
Now == Given(Contents(file))
Table(p) == IF proc[p].read = <<>> THEN Contents(file) ELSE proc[p].read[1]

\* Mutant: the file is read each time.
ViewAnew(p) == Now
View(p) == Given(Table(p))

Put(table, k, place) ==
  [l \in DOMAIN table \cup {k} |-> IF l = k THEN place ELSE table[l]]

Writing(p) == proc[p].pc \in {"new", "edit", "temp"} \/ proc[p].ask # <<>>
Enters(p) == overlap' = (overlap \/ \E q \in Procs \ {p} : Writing(q))

\* The records a set of k leaves where they are; setting the teachers apart
\* leaves all that were written before.
Unmoved(k) ==
  {r \in recs : /\ r.label = k => k = "teachers" /\ r.shared
                /\ k = "lab" => ~r.default}

\* Names no record finds again: of a process with an old view of the file, of
\* a later fit store, of an explicit root.
Lost(v, as, path) ==
  \/ v.table # Contents(file)
  \/ as.label = "roots"
  \/ as.label = "fit_store" /\ FitStore(v)[1] \o as.rest # path

-----------------------------------------------------------------------------
\* Mutant: older records are not looked for.
NeededAnew == file = <<>> /\ env = Nothing /\ "data" \notin older

\* first_run.needed
Needed == file = <<>> /\ env = Nothing /\ {"data", "records"} \cap older = {}

\* A command or the GUI's server starts; its first line goes to the run log.
Begin(p) ==
  /\ proc[p] = Off
  /\ IF Needed
     THEN proc' = [proc EXCEPT ![p].pc = "new"] /\ Enters(p)
     ELSE /\ proc' = [proc EXCEPT ![p].pc = "up", ![p].read = <<Contents(file)>>,
                        ![p].at = RunLog(Now)]
          /\ UNCHANGED overlap
  /\ UNCHANGED <<env, file, temp, older, kept, recs, told, strayed>>

\* Two views differ in some location.
Differ(v, w) == \E k \in Range(Asked) : Location(v, k) # Location(w, k)

\* The lab folder is made and a config file that names it.
FirstRun(p) ==
  /\ proc[p].pc = "new"
  /\ LET table == Put(Nothing, "lab", Lab(Now))
     IN  /\ file' = <<table>>
         /\ kept' = Put(kept, "lab", table["lab"])
         /\ strayed' = IF ~overlap /\ Differ(Now, Given(table))
                       THEN strayed \cup {"first_run"} ELSE strayed
         /\ proc' = [proc EXCEPT ![p].pc = "up", ![p].read = file',
                       ![p].at = RunLog(Given(table))]
  /\ UNCHANGED <<env, temp, older, recs, told, overlap>>

\* Mutant: the lines are those the process read at its start.
EditCached(p, k, place) ==
  proc' = [proc EXCEPT ![p].pc = "edit", ![p].key = k,
             ![p].lines = Put(Table(p), k, place)]

\* set_value: a place that passed validate is put into the lines read now.
Edit(p, k, place) ==
  proc' = [proc EXCEPT ![p].pc = "edit", ![p].key = k,
             ![p].lines = Put(Contents(file), k, place)]

Set(p, k, place) ==
  /\ proc[p].pc = "up" /\ proc[p].ask = <<>> /\ told < MaxWrites
  /\ Edit(p, k, place) /\ told' = told + 1 /\ Enters(p)
  /\ UNCHANGED <<env, file, temp, older, kept, recs, strayed>>

\* Every process writes the same temporary file.
WriteTemp(p) ==
  /\ proc[p].pc = "edit"
  /\ temp' = <<proc[p].lines>>
  /\ proc' = [proc EXCEPT ![p].pc = "temp"]
  /\ UNCHANGED <<env, file, older, kept, recs, told, overlap, strayed>>

\* `init` on no older file, answered with Enter only, moved something.
Astray(p) ==
  /\ Len(proc[p].ask) = 1 /\ proc[p].enter /\ ~overlap
  /\ \E k \in Range(Asked) : Location(Given(temp[1]), k) # proc[p].was[k]

\* os.replace, which fails when another process moved the file away.
Replace(p) ==
  /\ proc[p].pc = "temp"
  /\ IF temp = <<>>
     THEN /\ proc' = [proc EXCEPT ![p].pc = "up", ![p].ask = <<>>]
          /\ UNCHANGED <<file, kept, recs, strayed>>
     ELSE /\ file' = temp
          /\ kept' = Put(kept, proc[p].key, proc[p].lines[proc[p].key])
          /\ recs' = Unmoved(proc[p].key)
          /\ strayed' = IF Astray(p) THEN strayed \cup {"init"} ELSE strayed
          /\ proc' = [proc EXCEPT ![p].pc = "up", ![p].read = <<>>, ![p].own = TRUE, ![p].at = <<>>,
                        ![p].key = "none", ![p].lines = Nothing,
                        ![p].ask = IF @ = <<>> THEN @ ELSE Tail(@),
                        ![p].was = IF Len(proc[p].ask) > 1 THEN @ ELSE Nothing,
                        ![p].enter = @ /\ Len(proc[p].ask) > 1]
  /\ temp' = <<>>
  /\ UNCHANGED <<env, older, told, overlap>>

\* `init` without flags drops the file it was told to --force, shows where
\* everything is then, and asks for one key after the other.
Walk(p) ==
  /\ proc[p].pc = "up" /\ proc[p].ask = <<>> /\ told < MaxWrites
  /\ file' = <<>> /\ kept' = Nothing
  /\ recs' = IF file = <<>> THEN recs ELSE {}
  /\ told' = MaxWrites /\ Enters(p)
  /\ proc' = [proc EXCEPT ![p].ask = Asked, ![p].enter = TRUE, ![p].own = TRUE, ![p].at = <<>>,
                ![p].read = <<Nothing>>,
                ![p].was = [k \in Range(Asked) |-> Location(Given(Nothing), k)]]
  /\ UNCHANGED <<env, temp, older, strayed>>

\* Mutant: the place is looked up when its turn comes.
ShownThen(p, k) ==
  IF k = "fit_store" THEN <<FitStore(View(p))[1]>> ELSE Location(View(p), k)

\* Enter takes the place shown, of a list its first.
Shown(p, k) == IF k = "fit_store" THEN <<proc[p].was[k][1]>> ELSE proc[p].was[k]

Enter(p) ==
  /\ proc[p].pc = "up" /\ proc[p].ask # <<>>
  /\ Edit(p, Head(proc[p].ask), Shown(p, Head(proc[p].ask)))
  /\ UNCHANGED <<env, file, temp, older, kept, recs, told, overlap, strayed>>

Answer(p, place) ==
  /\ proc[p].pc = "up" /\ proc[p].ask # <<>> /\ proc[p].enter
  /\ proc' = [proc EXCEPT ![p].pc = "edit", ![p].key = Head(proc[p].ask), ![p].enter = FALSE,
                ![p].lines = Put(Contents(file), Head(proc[p].ask), place)]
  /\ UNCHANGED <<env, file, temp, older, kept, recs, told, overlap, strayed>>

\* `init --root` writes every place but the lab folder and the lease.
InitUnder(p, root) ==
  /\ proc[p].pc = "up" /\ proc[p].ask = <<>> /\ told < MaxWrites
  /\ LET table == [k \in {"scratch", "models", "teachers", "fit_store", "records"} |->
                     IF k = "fit_store" THEN <<Append(root, "fits")>> ELSE Append(root, k)]
     IN  file' = <<table>> /\ kept' = table
  /\ recs' = {}
  /\ told' = MaxWrites /\ Enters(p)
  /\ proc' = [proc EXCEPT ![p].read = <<>>, ![p].own = TRUE, ![p].at = <<>>]
  /\ UNCHANGED <<env, temp, older, strayed>>

\* A tool writes an artifact where it may, and something records where it is:
\* `portable`, or the text of a build record.  Looked after is what a record
\* names by a location of its own.
Record(p, place, text) ==
  LET v == View(p)
      path == Append(place, "x")
      as == Portable(IF text THEN Private(v) ELSE Labelled(v), path)
  IN  /\ proc[p].pc = "up" /\ proc[p].ask = <<>> /\ Cardinality(recs) < MaxRecords
      /\ place \in Storage(v)
      /\ recs' = IF as.label \in {"none", "~"} \/ Lost(v, as, path) THEN recs
                 ELSE recs \cup {[label |-> as.label, rest |-> as.rest, real |-> path,
                                  default |-> Raw(v, as.label) = <<>>,
                                  shared |-> Teachers(v) = ModelsFolder(v)]}
      /\ proc' = [proc EXCEPT ![p].read = <<Table(p)>>]
      /\ UNCHANGED <<env, file, temp, older, kept, told, overlap, strayed>>

\* The process ends, with a line in the run log; or it is killed.
End(p) ==
  /\ proc[p].pc = "up" /\ proc[p].ask = <<>>
  /\ strayed' = IF RunLog(View(p)) = proc[p].at \/ proc[p].own THEN strayed
                ELSE strayed \cup {"log"}
  /\ proc' = [proc EXCEPT ![p] = Off]
  /\ UNCHANGED <<env, file, temp, older, kept, recs, told, overlap>>

Killed(p) ==
  /\ proc[p] # Off
  /\ proc' = [proc EXCEPT ![p] = Off]
  /\ UNCHANGED <<env, file, temp, older, kept, recs, told, overlap, strayed>>

\* The last of the data under ~/.vqlab is removed: its defaults are over.
Emptied ==
  /\ "data" \in older
  /\ older' = older \ {"data"}
  /\ recs' = {r \in recs : ~IsPrefix(Old, r.real)}
  /\ UNCHANGED <<env, file, temp, proc, kept, told, overlap, strayed>>

Init ==
  /\ env \in Envs /\ file = <<>> /\ temp = <<>> /\ older \in Leftovers
  /\ proc = [p \in Procs |-> Off]
  /\ kept = Nothing /\ recs = {} /\ told = 0 /\ overlap = FALSE /\ strayed = {}

Next ==
  \/ \E p \in Procs :
       \/ Begin(p)
       \/ \E k \in DOMAIN Places : \E place \in Places[k] :
            Set(p, k, place) \/ (proc[p].ask # <<>> /\ Head(proc[p].ask) = k /\ Answer(p, place))
       \/ FirstRun(p) \/ WriteTemp(p) \/ Replace(p) \/ Walk(p) \/ Enter(p)
       \/ \E root \in Places["lab"] : InitUnder(p, root)
       \/ \E place \in Storage(View(p)) : \E text \in BOOLEAN : Record(p, place, text)
       \/ End(p) \/ Killed(p)
  \/ Emptied

Spec == Init /\ [][Next]_lvars

-----------------------------------------------------------------------------
\* The config file holds every setting made, first run's included, and loses
\* none to a set that was killed anywhere: unless two were at it at once, for
\* then they write one temporary file, each from lines of its own.
SettingsKept == ~overlap => Contents(file) = kept

\* What a record names is found where it was until somebody sets the very
\* place anew, or the lab folder it followed: setting the teachers apart, a
\* first run or the end of the older data move no other record.
RecordsOpen ==
  \A r \in recs : ~overlap => Resolve(Now, r) = r.real

\* A first run moves nothing, of an older install least of all; `init` answered
\* with Enter alone leaves everything where it was shown; and
\* a run's end is logged beside its start, unless the run wrote settings itself.
NothingStrays == strayed = {}

=============================================================================

------------------------------ MODULE ModelScan ------------------------------
(***************************************************************************)
(* Finding the models on a machine, and profiling those a build can start   *)
(* from (vqlab/agents: model_scan.py, teachers.py).  A scan goes through    *)
(* the places Mac tools keep models in, one after the other, and then       *)
(* replaces the index in one step.  The server scans on a thread, one at a  *)
(* time; `vqlab lab scan` is a process of its own.  The GUI's Library lists *)
(* the index's originals that have no profile, and profiles one on a thread.*)
(*                                                                         *)
(* Models come, are completed and go while scans read.                     *)
(***************************************************************************)
EXTENDS Naturals, Sequences, FiniteSets

CONSTANTS Models,  \* model folders, by real path
          Places,  \* the places, in order: each the models it reaches
          NameOf,  \* a model's name; two folders may hold copies of one
          MaxChanges, MaxScans, MaxProfiles  \* bounds

VARIABLES disk,      \* model -> "absent", "incomplete", "original", "quantized", "unreadable"
          scans,     \* the server's scan and the command's
          locked,    \* the server's scan lock
          index,     \* found.jsonl: rows [model, use], in order
          profiles,  \* the teachers' profiles: [name, at], of what folder
          profiling, \* real paths the server says it is profiling
          jobs,      \* family-profile processes at work, one per entry
          spent,     \* [changes, scans, profiles]
          stale,     \* something changed since the last scan that was started
          overlap    \* two scans ran at once

mvars == <<disk, scans, locked, index, profiles, profiling, jobs, spent, stale, overlap>>

Scanners == {"server", "command"}
Idle == [at |-> 0]
RowModels(rows) == {rows[i].model : i \in DOMAIN rows}

Init ==
  /\ disk = [m \in Models |-> "absent"]
  /\ scans = [s \in Scanners |-> Idle] /\ locked = FALSE
  /\ index = <<>>
  /\ profiles = {} /\ profiling = {} /\ jobs = {}
  /\ spent = [changes |-> 0, scans |-> 0, profiles |-> 0]
  /\ stale = TRUE /\ overlap = FALSE

-----------------------------------------------------------------------------
\* A download begins or is complete, a build ends, a folder is deleted.
Change(m, use) ==
  /\ disk[m] # use /\ spent.changes < MaxChanges
  /\ disk' = [disk EXCEPT ![m] = use]
  /\ spent' = [spent EXCEPT !.changes = @ + 1]
  /\ stale' = TRUE
  /\ UNCHANGED <<scans, locked, index, profiles, profiling, jobs, overlap>>

Begin(s) ==
  /\ spent.scans < MaxScans
  /\ scans' = [scans EXCEPT ![s] = [at |-> 1, rows |-> <<>>]]
  /\ spent' = [spent EXCEPT !.scans = @ + 1]
  /\ stale' = FALSE
  /\ overlap' = (overlap \/ \E t \in Scanners \ {s} : scans[t] # Idle)
  /\ UNCHANGED <<disk, index, profiles, profiling, jobs>>

\* refresh_in_background: a scan that runs is not started twice, and what
\* asked for it goes without.
BackgroundScan == ~locked /\ locked' = TRUE /\ Begin("server")
CommandScan == scans["command"] = Idle /\ UNCHANGED locked /\ Begin("command")

\* Mutant: a model in two places is listed twice.
EveryRow(s, place) == {m \in place : disk[m] # "absent"}

\* The models of a place that no earlier place showed.
NewHere(s, place) == {m \in place : disk[m] # "absent"} \ RowModels(scans[s].rows)

\* Their rows, in some order.
InOrder(ms) ==
  LET order == CHOOSE o \in [1..Cardinality(ms) -> ms] : \A m \in ms : \E i \in DOMAIN o : o[i] = m
  IN  [i \in DOMAIN order |-> [model |-> order[i], use |-> disk[order[i]]]]

\* One place is read: each new model's config and file list, and its row.
ReadPlace(s) ==
  /\ scans[s] # Idle /\ scans[s].at <= Len(Places)
  /\ scans' = [scans EXCEPT ![s] = [at |-> @.at + 1,
                                    rows |-> @.rows \o InOrder(NewHere(s, Places[@.at]))]]
  /\ UNCHANGED <<disk, locked, index, profiles, profiling, jobs, spent, stale, overlap>>

\* The index is replaced whole, or cannot be written; either way the scan is over.
EndScan(s, written) ==
  /\ scans[s] # Idle /\ scans[s].at > Len(Places)
  /\ index' = IF written THEN scans[s].rows ELSE index
  /\ stale' = (stale \/ ~written)
  /\ scans' = [scans EXCEPT ![s] = Idle]
  /\ locked' = (locked /\ s # "server")
  /\ UNCHANGED <<disk, profiles, profiling, jobs, spent, overlap>>

-----------------------------------------------------------------------------
\* teachers: an original that the index lists, unless a teacher of its name
\* has a profile and a folder here: the same folder, or another copy.
Covered(m) == \E p \in profiles : p.name = NameOf[m] /\ disk[p.at] # "absent"
Unprofiled(m) == (\E i \in DOMAIN index : index[i] = [model |-> m, use |-> "original"]) /\ ~Covered(m)

\* Mutant: whether it is being profiled is not looked at.
NotAsked(m) == FALSE

Profiling(m) == m \in profiling

\* POST /api/teachers/profile: of a path in the index, under the lock.
Profile(m) ==
  /\ m \in RowModels(index) /\ ~Profiling(m)
  /\ spent.profiles < MaxProfiles
  /\ profiling' = profiling \cup {m}
  /\ jobs' = jobs \cup {<<m, spent.profiles>>}
  /\ spent' = [spent EXCEPT !.profiles = @ + 1]
  /\ UNCHANGED <<disk, scans, locked, index, profiles, stale, overlap>>

\* family-profile ends: with a profile of what is there, or with an error;
\* whatever happened, the row stops saying "profiling".
ProfileEnds(job, made) ==
  /\ job \in jobs
  /\ made => disk[job[1]] # "absent"
  /\ jobs' = jobs \ {job}
  /\ profiling' = profiling \ {job[1]}
  /\ profiles' = IF made THEN {p \in profiles : p.name # NameOf[job[1]]}
                                \cup {[name |-> NameOf[job[1]], at |-> job[1]]}
                 ELSE profiles
  /\ UNCHANGED <<disk, scans, locked, index, spent, stale, overlap>>

Next ==
  \/ \E m \in Models, use \in {"absent", "incomplete", "original", "quantized"} : Change(m, use)
  \/ BackgroundScan \/ CommandScan
  \/ \E s \in Scanners : ReadPlace(s) \/ \E b \in BOOLEAN : EndScan(s, b)
  \/ \E m \in Models : Profile(m)
  \/ \E job \in jobs, made \in BOOLEAN : ProfileEnds(job, made)

-----------------------------------------------------------------------------
Current == (\A s \in Scanners : scans[s] = Idle) /\ ~stale /\ ~overlap

\* The index lists a model once, however many places reach it; when no scan
\* is at work, none ran beside another and nothing has changed since the last
\* one began, it is what is on the machine, and every original is a profiled
\* teacher or offered to be one.  One process at most profiles a folder, and
\* it does while the row says so.
IndexIsTrue ==
  /\ \A i, j \in DOMAIN index : index[i].model = index[j].model => i = j
  /\ Current =>
       /\ {<<index[i].model, index[i].use>> : i \in DOMAIN index} =
            {<<m, disk[m]>> : m \in {x \in Models : disk[x] # "absent"}}
       /\ \A m \in Models : disk[m] = "original" => Covered(m) \/ Unprofiled(m)
  /\ \A m \in Models : Cardinality({j \in jobs : j[1] = m}) = (IF m \in profiling THEN 1 ELSE 0)

=============================================================================

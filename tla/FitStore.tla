------------------------------ MODULE FitStore ------------------------------
(***************************************************************************)
(* The fit store (vqlab/core/source/fit_store.py, vqlab/fit/fits.py): per   *)
(* fit a data file and a sidecar under its teacher's name, and an index all *)
(* commands share.  A fitter's put appends to the index; file, index, retag *)
(* and reindex load it whole, and save it whole when they are done.         *)
(*                                                                         *)
(* A teacher has the name it was profiled under, "new", and maybe the name  *)
(* of a copy's folder, "copy", which retag moves fits away from.            *)
(***************************************************************************)
EXTENDS Naturals, FiniteSets

CONSTANTS Fits, Commands,
          MaxCommands  \* commands given (bound)

VARIABLES data,        \* data files: pairs of a fit and a teacher's name
          side,        \* sidecars: such a pair -> the name written in it, or "no"
          index,       \* fit -> "no", "inplace" or the name it is filed under
          proc,        \* each command at work
          given,       \* commands given
          put,         \* fits whose put ended well
          torn,        \* fits a retag left half-moved
          overlap      \* "none"; an index was or will be saved over others' lines; or files raced

fvars == <<data, side, index, proc, given, put, torn, overlap>>

Names == {"copy", "new"}
Off == [does |-> "off", pc |-> "end", list |-> <<>>, fit |-> <<>>, to |-> "new", alone |-> TRUE]
At(p, pc) == proc[p].pc = pc
Goto(p, pc) == proc' = [proc EXCEPT ![p].pc = pc]
Finish(p) == proc' = [proc EXCEPT ![p] = Off]

\* A command starts: what it does first to the index it has read.
Begin(p, does, fit, to, list) ==
  LET others == {q \in Commands : proc[q] # Off}
  IN  /\ proc[p] = Off /\ given < MaxCommands
      /\ given' = given + 1
      /\ proc' = [q \in Commands |->
           IF q = p
           THEN [does |-> does, list |-> list, fit |-> fit, to |-> to, alone |-> others = {},
                 pc |-> CASE does = "put" -> "data" [] does = "index" -> "write"
                          [] does = "reindex" -> "scan" [] OTHER -> "pick"]
           ELSE IF proc[q] = Off THEN Off ELSE [proc[q] EXCEPT !.alone = FALSE]]
      /\ overlap' =
           IF others = {} \/ overlap = "files" THEN overlap
           ELSE IF "retag" \in {does} \cup {proc[q].does : q \in others} THEN "files" ELSE "index"
      /\ UNCHANGED <<data, side, index, put, torn>>

\* put: one fit, under the name its teacher has now.
Put(p, f, t) == Begin(p, "put", f, t, <<>>)

\* Mutant: what is found is recorded, known or not.
IndexRunsOver(p, found) ==
  Begin(p, "index", <<>>, "new", [f \in Fits |-> IF f \in found THEN "inplace" ELSE index[f]])

\* fits index: fits found in run folders, where they lie.
IndexRuns(p, found) ==
  Begin(p, "index", <<>>, "new",
        [f \in Fits |-> IF f \in found /\ index[f] = "no" THEN "inplace" ELSE index[f]])

\* fits file: every unfiled fit, one after the other.
File(p) == Begin(p, "file", <<>>, "new", index)

\* retag: refused before the first move if any destination exists.
Retag(p) ==
  /\ \A f \in Fits : index[f] = "copy" => <<f, "new">> \notin data
  /\ Begin(p, "retag", <<>>, "new", index)

\* reindex: what is unfiled in the index is kept, ...
Reindex(p) ==
  Begin(p, "reindex", <<>>, "new", [f \in Fits |-> IF index[f] = "inplace" THEN "inplace" ELSE "no"])

\* ... and the sidecars are the truth for the rest.
Scan(p) ==
  /\ At(p, "scan")
  /\ \E found \in [Fits -> Names \cup {"no"}] :
       /\ \A f \in Fits : LET written == {side[<<f, t>>] : t \in Names} \ {"no"}
                          IN  IF written = {} THEN found[f] = "no" ELSE found[f] \in written
       /\ LET kept == proc[p].list
          IN  proc' = [proc EXCEPT ![p].pc = "write",
                                   ![p].list = [f \in Fits |->
                                     IF found[f] = "no" THEN kept[f] ELSE found[f]]]
  /\ UNCHANGED <<data, side, index, given, put, torn, overlap>>

\* The next fit to file or to move.
Pick(p) ==
  /\ At(p, "pick")
  /\ LET todo == {f \in Fits : proc[p].list[f] = IF proc[p].does = "file" THEN "inplace" ELSE "copy"}
     IN  IF todo = {} THEN Goto(p, "write")
         ELSE \E f \in todo :
                proc' = [proc EXCEPT ![p].fit = f,
                                     ![p].pc = IF proc[p].does = "file" THEN "data" ELSE "move"]
  /\ UNCHANGED <<data, side, index, given, put, torn, overlap>>

Listed(p, pc) ==
  proc' = [proc EXCEPT ![p].pc = pc, ![p].list = [proc[p].list EXCEPT ![proc[p].fit] = proc[p].to]]

\* Mutant: the sidecar goes first.
DataLast(p) ==
  /\ At(p, "data")
  /\ side' = [side EXCEPT ![<<proc[p].fit, proc[p].to>>] = proc[p].to]
  /\ Goto(p, "side")
  /\ UNCHANGED <<data, index, given, put, torn, overlap>>

\* file_fit: the data, whole or not at all, then the sidecar.
Data(p) ==
  /\ At(p, "data")
  /\ data' = data \cup {<<proc[p].fit, proc[p].to>>}
  /\ Goto(p, "side")
  /\ UNCHANGED <<side, index, given, put, torn, overlap>>

Side(p) ==
  /\ At(p, "side")
  /\ side' = [side EXCEPT ![<<proc[p].fit, proc[p].to>>] = proc[p].to]
  /\ IF proc[p].does = "put" THEN Goto(p, "append") ELSE Listed(p, "pick")
  /\ UNCHANGED <<data, index, given, put, torn, overlap>>

\* One appended line; a later line of a fit wins.
AppendIndex(p) ==
  /\ At(p, "append")
  /\ index' = [index EXCEPT ![proc[p].fit] = proc[p].to]
  /\ put' = put \cup {proc[p].fit}
  /\ Finish(p)
  /\ UNCHANGED <<data, side, given, torn, overlap>>

\* retag, one fit: the data moves, ...
MoveData(p) ==
  /\ At(p, "move")
  /\ LET f == proc[p].fit
     IN  IF <<f, "new">> \in data THEN Finish(p) /\ UNCHANGED data
         ELSE /\ Goto(p, "moveside")
              /\ data' = IF <<f, "copy">> \in data
                         THEN (data \ {<<f, "copy">>}) \cup {<<f, "new">>} ELSE data
  /\ UNCHANGED <<side, index, given, put, torn, overlap>>

\* Mutant: the old sidecar is removed, the new one comes next.
MoveSideAway(p) ==
  /\ At(p, "moveside")
  /\ Goto(p, "restate")
  /\ side' = [side EXCEPT ![<<proc[p].fit, "copy">>] = "no"]
  /\ UNCHANGED <<data, index, given, put, torn, overlap>>

\* ... the sidecar moves, ...
MoveSide(p) ==
  /\ At(p, "moveside")
  /\ LET f == proc[p].fit
     IN  IF side[<<f, "new">>] # "no" THEN Finish(p) /\ torn' = torn \cup {f} /\ UNCHANGED side
         ELSE /\ Goto(p, "restate") /\ UNCHANGED torn
              /\ side' = [side EXCEPT ![<<f, "new">>] = side[<<f, "copy">>], ![<<f, "copy">>] = "no"]
  /\ UNCHANGED <<data, index, given, put, overlap>>

\* ... and is written again with the new name.
Restate(p) ==
  /\ At(p, "restate")
  /\ side' = [side EXCEPT ![<<proc[p].fit, "new">>] = "new"]
  /\ Listed(p, "pick")
  /\ UNCHANGED <<data, index, given, put, torn, overlap>>

WriteIndex(p) ==
  /\ At(p, "write")
  /\ index' = proc[p].list
  /\ overlap' = IF proc[p].does = "reindex" /\ proc[p].alone /\ overlap # "files" THEN "none" ELSE overlap
  /\ Finish(p)
  /\ UNCHANGED <<data, side, given, put, torn>>

\* Killed at any point; a retag has moved fits the index has elsewhere.
Killed(p) ==
  /\ proc[p] # Off
  /\ torn' = IF proc[p].does # "retag" THEN torn
             ELSE torn \cup {f \in Fits : index[f] = "copy" /\ <<f, "new">> \in data}
  /\ Finish(p)
  /\ UNCHANGED <<data, side, index, given, put, overlap>>

Init ==
  /\ data = {} /\ side = [x \in Fits \X Names |-> "no"]
  /\ index = [f \in Fits |-> "no"]
  /\ proc = [p \in Commands |-> Off] /\ given = 0
  /\ put = {} /\ torn = {} /\ overlap = "none"

Next ==
  \E p \in Commands :
    \/ \E f \in Fits, t \in Names : Put(p, f, t)
    \/ \E found \in SUBSET Fits : IndexRuns(p, found)
    \/ File(p) \/ Retag(p) \/ Reindex(p)
    \/ Scan(p) \/ Pick(p) \/ Data(p) \/ Side(p) \/ AppendIndex(p)
    \/ MoveData(p) \/ MoveSide(p) \/ Restate(p) \/ WriteIndex(p) \/ Killed(p)

-----------------------------------------------------------------------------
Moving == {proc[p].fit : p \in {q \in Commands : proc[q].does = "retag"}}

\* What a fit cost is never lost: once it is put, its data and a sidecar that
\* describes it exist, wherever any command was killed and however they
\* overlapped (file_fit, retag: "checked BEFORE the first move").
ArchiveKept ==
  \A f \in put : /\ \E t \in Names : <<f, t>> \in data
                 /\ \E t \in Names : side[<<f, t>>] # "no"

\* A sidecar stands for data: what reindex calls the source of truth has its
\* file beside it, except where a retag was, or ran next to another command.
SidecarHasData ==
  overlap # "files" =>
    \A f \in Fits \ (torn \cup Moving), t \in Names : side[<<f, t>>] # "no" => <<f, t>> \in data

\* The index has every fit that was put, under a name where its data is,
\* unless commands overlapped, and again after a reindex on its own.
IndexFinds ==
  overlap = "none" /\ (\A p \in Commands : proc[p].does # "retag") =>
    \A f \in put \ torn : index[f] \in Names /\ <<f, index[f]>> \in data

=============================================================================

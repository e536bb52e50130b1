------------------------------ MODULE Provenance ------------------------------
(***************************************************************************)
(* The build record an artifact carries (vqlab/records/provenance.py).      *)
(* A tool that writes into the folder records the bytes it left, as its     *)
(* last step; the record that was there goes to the history file, and the   *)
(* new one names it by id, as a child artifact names its parent.  `--amend` *)
(* records files a person edited; `--portable` takes local paths out of the *)
(* record, the history and the config, file by file.                       *)
(*                                                                         *)
(* One artifact and the ids its children hold.  Commands take turns and can *)
(* be killed between two writes, or in one: of a record, which is written   *)
(* in place, of a history line, appended by a build, or of the whole        *)
(* history, which an amendment writes again.  Only --portable replaces      *)
(* files by rename.  An id stands for the content it was hashed from; only  *)
(* paths can change under a kept id.                                       *)
(***************************************************************************)
EXTENDS Naturals, Sequences, FiniteSets

CONSTANTS Files,  \* the artifact's files, "config" among them
          MaxEdits, MaxJobs  \* bounds

VARIABLES files,    \* file -> version of its bytes
          cfgpath,  \* config.json names a local path (vq_skipzero.source)
          record,   \* vqlab_provenance.json
          history,  \* vqlab_provenance.history.jsonl
          children, \* ids of this artifact that children recorded
          job,      \* the command at work
          spent,    \* [edits, jobs]
          sound,    \* the last tool recorded what it left, and nothing touched it since
          cut       \* a command was killed in its write of the history, or a
                    \* --portable between two of its writes

pvars == <<files, cfgpath, record, history, children, job, spent, sound, cut>>

Idle == [does |-> "none"]
Nothing == [is |-> "none"]
Torn == [is |-> "torn"]  \* what a killed write left of a record or a line, without its end
Spoilt == [is |-> "spoilt"]  \* a line of the history that ends and cannot be read
Readable == record \notin {Nothing, Torn}

Init ==
  /\ files = [f \in Files |-> 1]
  /\ cfgpath \in BOOLEAN
  /\ record = Nothing /\ history = <<>> /\ children = {}
  /\ job = Idle /\ spent = [edits |-> 0, jobs |-> 0]
  /\ sound = FALSE /\ cut = FALSE

-----------------------------------------------------------------------------
Fresh == spent.jobs + 1   \* the id of the job's record

\* portable_record: paths only; the id others link by is kept.
Portable(r) == [r EXCEPT !.paths = "portable"]

\* id_ok is kept by Portable (portable_id names the rewritten content), so
\* what verify compares is the files.
Verifies == Readable /\ \A f \in Files : record.outs[f] = files[f]

BeginJob(j) ==
  /\ job = Idle /\ spent.jobs < MaxJobs
  /\ job' = j
  /\ spent' = [spent EXCEPT !.jobs = @ + 1]

\* A tool builds the artifact, or changes a file of it in place.
ToolWrites(f, path) ==
  /\ BeginJob([does |-> "record", id |-> Fresh, todo |-> <<"history", "record">>])
  /\ files' = [files EXCEPT ![f] = @ + 1]
  /\ cfgpath' = IF f = "config" THEN path ELSE cfgpath
  /\ sound' = FALSE
  /\ UNCHANGED <<record, history, children, cut>>

\* --amend: the named files as they are now.
Amend(names) ==
  /\ Readable
  /\ BeginJob([does |-> "amend", id |-> Fresh, names |-> names, todo |-> <<"history", "record">>])
  /\ UNCHANGED <<files, cfgpath, record, history, children, sound, cut>>

\* Mutant: the record is replaced, as the first record is.
Overwrites(r) == <<>>

\* What the history gets of a record that is replaced.
Replaced(r) == <<r>>

\* The lines of the history that end, and whether another is left without.
Unended == history # <<>> /\ history[Len(history)] = Torn
Lines == IF Unended THEN SubSeq(history, 1, Len(history) - 1) ELSE history

\* amend ends a last line that has no end; a build writes on in it.
Mended == IF Unended THEN Append(Lines, Spoilt) ELSE history
Kept == IF job.does = "amend" THEN Mended \o Replaced(record)
        ELSE IF record = Nothing THEN history
        ELSE IF Unended THEN Mended
        ELSE history \o Replaced(Portable(record))

\* The history is written before the record is.
KeepOld ==
  /\ job.does \in {"record", "amend"} /\ job.todo = <<"history", "record">>
  /\ record # Torn
  /\ history' = Kept
  /\ job' = [job EXCEPT !.todo = Tail(@)]
  /\ UNCHANGED <<files, cfgpath, record, children, spent, sound, cut>>

\* A build cannot read the record it would amend; its files are written.
Unreadable ==
  /\ job.does = "record" /\ record = Torn
  /\ job' = Idle
  /\ UNCHANGED <<files, cfgpath, record, history, children, spent, sound, cut>>

\* write_build_record hashes every file; its own paths are portable already.
\* amend hashes the named ones and keeps the rest of the record it replaces.
NewRecord ==
  IF job.does = "record"
  THEN [is |-> "record", id |-> job.id, prev |-> IF record = Nothing THEN 0 ELSE record.id,
        outs |-> files, paths |-> "portable"]
  ELSE [record EXCEPT !.id = job.id, !.prev = record.id,
                      !.outs = [f \in Files |-> IF f \in job.names THEN files[f] ELSE @[f]]]

\* Records of tools before 2026-10-10 hold local paths.
WriteRecord(paths) ==
  /\ job.does \in {"record", "amend"} /\ job.todo = <<"record">>
  /\ record' = IF job.does = "record" THEN [NewRecord EXCEPT !.paths = paths] ELSE NewRecord
  /\ job' = Idle
  /\ sound' = (job.does = "record" \/ sound \/ job.names = Files)
  /\ UNCHANGED <<files, cfgpath, history, children, spent, cut>>

-----------------------------------------------------------------------------
\* --portable.  What it will write, in order: the record if paths in it
\* change, the history if they do there, then the config, and after it the
\* record and the history where an amendment for the config is all that
\* changes them.

\* Mutant: the config is rewritten and its recorded hash left.
SilentEdit(id, version) == [rec |-> IF Readable THEN Portable(record) ELSE record,
                            hist |-> [i \in DOMAIN history |-> Portable(history[i])]]

\* The record and the history a portable config needs: an amendment that
\* differs from the record in that one hash, with the record in the history.
Sanitized(id, version) ==
  LET plain == [i \in DOMAIN history |-> Portable(history[i])]
  IN  IF ~Readable THEN [rec |-> record, hist |-> plain]
      ELSE [rec |-> [Portable(record) EXCEPT !.id = id, !.prev = record.id,
                                             !.outs = [@ EXCEPT !["config"] = version]],
            hist |-> Append(plain, Portable(record))]

\* It refuses a record or a history line that it cannot read.
BeginPortable ==
  LET plain == [i \in DOMAIN history |-> Portable(history[i])]
      new == IF cfgpath THEN Sanitized(Fresh, files["config"] + 1)
             ELSE [rec |-> IF Readable THEN Portable(record) ELSE record, hist |-> plain]
      Early(x) == IF x = "record" THEN Readable /\ record.paths = "local" ELSE plain # history
      Part(x, when) == IF when THEN <<x>> ELSE <<>>
      Late(x) == Part(x, cfgpath /\ Readable /\ ~Early(x))
      todo == Part("record", Early("record")) \o Part("history", Early("history"))
              \o Part("config", cfgpath) \o Late("record") \o Late("history")
  IN  /\ record # Torn /\ \A i \in DOMAIN history : history[i] \notin {Torn, Spoilt}
      /\ todo # <<>>
      /\ BeginJob([does |-> "portable", rec |-> new.rec, hist |-> new.hist, todo |-> todo])
      /\ UNCHANGED <<files, cfgpath, record, history, children, sound, cut>>

WritePortable ==
  /\ job.does = "portable"
  /\ record' = IF Head(job.todo) = "record" THEN job.rec ELSE record
  /\ history' = IF Head(job.todo) = "history" THEN job.hist ELSE history
  /\ files' = IF Head(job.todo) = "config" THEN [files EXCEPT !["config"] = @ + 1] ELSE files
  /\ cfgpath' = (cfgpath /\ Head(job.todo) # "config")
  /\ job' = IF Len(job.todo) = 1 THEN Idle ELSE [job EXCEPT !.todo = Tail(@)]
  /\ UNCHANGED <<children, spent, sound, cut>>

-----------------------------------------------------------------------------
\* A command is killed, maybe in the middle of its write of the record.
Die(torn) ==
  /\ job # Idle
  /\ torn => job.does # "portable" /\ job.todo = <<"record">>
  /\ record' = IF torn THEN Torn ELSE record
  /\ job' = Idle /\ cut' = (cut \/ job.does = "portable") /\ sound' = FALSE
  /\ UNCHANGED <<files, cfgpath, history, children, spent>>

\* A command is killed in its write of the history.  A build's append leaves
\* the lines that were there and a part of its own; an amendment's leaves the
\* file cut short anywhere, for it begins by emptying it.
DieInHistory(k, part) ==
  /\ job.does \in {"record", "amend"} /\ job.todo = <<"history", "record">>
  /\ record \notin {Nothing, Torn}
  /\ history' = IF job.does = "record" THEN Append(Lines, Torn)
                ELSE SubSeq(Mended, 1, k) \o (IF part THEN <<Torn>> ELSE <<>>)
  /\ job' = Idle /\ cut' = TRUE /\ sound' = FALSE
  /\ UNCHANGED <<files, cfgpath, record, children, spent>>

\* A person edits a file outside the tools.
HandEdit(f) ==
  /\ job = Idle /\ spent.edits < MaxEdits
  /\ files' = [files EXCEPT ![f] = @ + 1]
  /\ spent' = [spent EXCEPT !.edits = @ + 1]
  /\ sound' = FALSE
  /\ UNCHANGED <<cfgpath, record, history, children, job, cut>>

\* A child is built from this artifact: its record holds this one's id.
ChildNames ==
  /\ Readable
  /\ children' = children \cup {record.id}
  /\ UNCHANGED <<files, cfgpath, record, history, job, spent, sound, cut>>

Next ==
  \/ \E f \in Files, path \in BOOLEAN : ToolWrites(f, path)
  \/ \E names \in SUBSET Files \ {{}} : Amend(names)
  \/ KeepOld \/ Unreadable
  \/ \E paths \in {"portable", "local"} : WriteRecord(paths)
  \/ BeginPortable \/ WritePortable
  \/ \E torn \in BOOLEAN : Die(torn)
  \/ \E k \in 0..Len(Mended), part \in BOOLEAN : DieInHistory(k, part)
  \/ \E f \in Files : HandEdit(f)
  \/ ChildNames

-----------------------------------------------------------------------------
Past == {history[i] : i \in DOMAIN history} \ {Torn, Spoilt}
Present == IF Readable THEN {record} ELSE {}
Ids == {r.id : r \in Past \cup Present}
Prevs == {r.prev : r \in Past \cup Present}

\* Whatever tools, amendments and --portable do to an artifact in place, the
\* id a child named it by is found in its record or its history, and so is
\* every record an amendment names, back to the first build; lineage can read
\* every line of the history; and the record goes on verifying until something
\* outside the tools touches a file.  (A --portable killed between two of its
\* writes can lose the record it amends, an amendment killed in its write of
\* the history the records of all earlier ones, and a build killed there the
\* line the next build writes.)
ChainIsWhole ==
  job = Idle =>
    /\ ~cut => /\ children \subseteq Ids /\ Prevs \ {0} \subseteq Ids
               /\ \A i \in DOMAIN history : history[i] \notin {Torn, Spoilt}
    /\ sound => Verifies

=============================================================================

------------------------------ MODULE KlLadder ------------------------------
(***************************************************************************)
(* Ranking rungs by KL to a teacher's cache (vqlab/score: stream_score.py,  *)
(* kl_ladder.py, kl_pair.py, kl_damage.py).  A teacher pass fills the       *)
(* cache's folder file by file; a ladder scores rung after rung, each in a  *)
(* child that checks the numerics build (family/version_stamp.py), keeps    *)
(* the numbers of every position in an array and the record beside it; a    *)
(* ladder that died is run again and takes up the cells already scored;     *)
(* what was scored goes to the scores index (records/scores.py).            *)
(*                                                                         *)
(* Passes and ladders take turns (the GPU lease); rungs are edited and      *)
(* packages upgraded at any time, and a job can die anywhere.  One cache.   *)
(* A ladder knows a rung by its look: the sizes and first megabytes of its  *)
(* shards and its model.py, which other weights may share.                  *)
(***************************************************************************)
EXTENDS Naturals, Sequences, FiniteSets

CONSTANTS Rungs, Reference,  \* the rungs of a ladder, and the first of them
          Edited,            \* rungs some tool may write (bound)
          Contents, FirstContent,  \* what a rung may hold, and holds at first
          Looks,             \* content -> what `measured` sees of it
          Envs, FirstEnv,    \* numerics builds, [mlx, arch], and the one at first
          Listed,            \* arch files arch_equivalence.json calls bit-identical
          MaxPasses, MaxLadders, MaxChanges  \* bounds

VARIABLES env,      \* the build of the interpreter that scores
          bytes,    \* each rung's content
          passes,   \* the teacher passes: each one's build and token ids
          cache,    \* the cache's files: file -> the pass it is of, 0 for none
          job,      \* the job at work
          arr, side, \* each rung's array, and the record beside it
          index,    \* lines of the scores index
          cut,      \* rungs whose array is newer than the record beside it
          spent     \* ladders started; edits and upgrades made

kvars == <<env, bytes, passes, cache, job, arr, side, index, cut, spent>>

Idle == [does |-> "none"]
Gone == [is |-> "gone"]  \* no such file
Torn == [is |-> "torn"]  \* a file its writer was killed in

\* diff and arch_equivalence: two builds give the same numbers.
SameBuild(a, b) == a = b \/ (a.mlx = b.mlx /\ {a.arch, b.arch} \subseteq Listed)

\* The file a teacher's logprobs are read from: the full one if there is one.
Teacher == IF cache["full"] # 0 THEN <<"full", cache["full"]>> ELSE <<"topk", cache["topk"]>>
Whole == Teacher[2] = cache["meta"] /\ cache["tokens"] = cache["meta"]

\* shard_fingerprint and runtime_state of a rung.
Look(r) == Looks[bytes[r]]

Init ==
  /\ env = FirstEnv
  /\ bytes = [r \in Rungs |-> FirstContent]
  /\ passes = <<>>
  /\ cache = [f \in {"topk", "full", "tokens", "meta"} |-> 0]
  /\ job = Idle
  /\ arr = [r \in Rungs |-> Gone] /\ side = [r \in Rungs |-> Gone]
  /\ index = {} /\ cut = {}
  /\ spent = [ladders |-> 0, changes |-> 0]

-----------------------------------------------------------------------------
\* A teacher pass: stream-score --save-topk, with --save-full or without it,
\* or kl_damage cache, which writes the tokens before its forward.
PassOrders == {<<"topk", "tokens", "meta">>, <<"topk", "full", "tokens", "meta">>,
               <<"tokens", "topk", "meta">>}

BeginPass(order, ids) ==
  /\ job = Idle /\ Len(passes) < MaxPasses
  /\ passes' = Append(passes, [env |-> env, ids |-> ids])
  /\ job' = [does |-> "pass", left |-> order]
  /\ UNCHANGED <<env, bytes, cache, arr, side, index, cut, spent>>

SaveFile ==
  /\ job.does = "pass"
  /\ cache' = [cache EXCEPT ![Head(job.left)] = Len(passes)]
  /\ job' = IF Len(job.left) = 1 THEN Idle ELSE [job EXCEPT !.left = Tail(@)]
  /\ UNCHANGED <<env, bytes, passes, arr, side, index, cut, spent>>

-----------------------------------------------------------------------------
\* kl-ladder: reads the cache's meta, compares what the interpreter runs with
\* it, and stamps every rung.  `away`, which no step reads, keeps the rungs
\* that looked otherwise at some time since.
BeginLadder(allow, preflight) ==
  /\ job = Idle /\ spent.ladders < MaxLadders /\ cache["meta"] # 0
  /\ allow \/ passes[cache["meta"]].env.mlx = env.mlx
  /\ spent' = [spent EXCEPT !.ladders = @ + 1]
  /\ job' = [does |-> "ladder", at |-> "cell", allow |-> allow, preflight |-> preflight,
             env |-> env, before |-> [r \in Rungs |-> Look(r)], away |-> {},
             table |-> [r \in Rungs |-> Gone], fresh |-> {}, held |-> <<>>, rung |-> Reference]
  /\ UNCHANGED <<env, bytes, passes, cache, arr, side, index, cut>>

At(pc) == job.does = "ladder" /\ job.at = pc

\* A cell is done: the next rung's, or the table's end.
Filled(rec, fresh) ==
  LET table == [job.table EXCEPT ![job.rung] = rec]
      left == {r \in Rungs : table[r] = Gone}
      done == [job EXCEPT !.table = table, !.held = <<>>,
                          !.fresh = IF fresh THEN @ \cup {job.rung} ELSE @]
  IN  IF job.preflight \/ left = {} THEN job' = [done EXCEPT !.at = "end"]
      ELSE \E r \in left : job' = [done EXCEPT !.at = "cell", !.rung = r]

\* The cell's record and array are there, of this folder, this cache's folder
\* and this mlx.
Resumable(r) ==
  /\ arr[r] # Gone /\ side[r] \notin {Gone, Torn}
  /\ side[r].dir /\ side[r].number.env.mlx = job.env.mlx

Resume ==
  /\ At("cell") /\ Resumable(job.rung)
  /\ Filled(side[job.rung], FALSE)
  /\ UNCHANGED <<env, bytes, passes, cache, arr, side, index, cut, spent>>

\* A record that cannot be read ends the ladder.
Unreadable ==
  /\ At("cell") /\ arr[job.rung] # Gone /\ side[job.rung] = Torn
  /\ job' = Idle
  /\ UNCHANGED <<env, bytes, passes, cache, arr, side, index, cut, spent>>

\* Mutant: a mismatch is only warned about.
WarnsOnly(allow) == TRUE

\* check_cache: this build is the one the cache's meta names, or allowed.
BuildAccepted(allow) == allow \/ SameBuild(passes[cache["meta"]].env, env)

\* Mutant: the token ids are taken to be the cache's.
IdsAssumed == cache["tokens"] # 0

\* The ids of the corpus meta names are the ones of the tokens file.
IdsAgree == cache["tokens"] # 0 /\ passes[cache["tokens"]].ids = passes[cache["meta"]].ids

\* The child: a build not accepted, or other ids, end the ladder; then the
\* rung's forward, and its KL to the teacher at every position.
Score ==
  /\ At("cell") /\ ~Resumable(job.rung) /\ ~(arr[job.rung] # Gone /\ side[job.rung] = Torn)
  /\ LET meta == passes[cache["meta"]]
         held == [number |-> [bytes |-> bytes[job.rung], teacher |-> Teacher,
                              env |-> env, ids |-> meta.ids],
                  allowed |-> job.allow, whole |-> Whole, dir |-> FALSE,
                  ident |-> [teacher |-> Teacher, ids |-> passes[cache["tokens"]].ids]]
     IN  job' = IF BuildAccepted(job.allow) /\ IdsAgree /\ Teacher[2] # 0
                THEN [job EXCEPT !.at = "array", !.held = held]
                ELSE Idle
  /\ UNCHANGED <<env, bytes, passes, cache, arr, side, index, cut, spent>>

SaveArray ==
  /\ At("array")
  /\ arr' = [arr EXCEPT ![job.rung] = job.held.number]
  /\ cut' = cut \cup {job.rung}
  /\ job' = [job EXCEPT !.at = "record"]
  /\ UNCHANGED <<env, bytes, passes, cache, side, index, spent>>

\* The child writes the record, the ladder adds the cache's folder to it.
SaveRecord ==
  /\ At("record")
  /\ side' = [side EXCEPT ![job.rung] = job.held]
  /\ cut' = cut \ {job.rung}
  /\ job' = [job EXCEPT !.at = "own"]
  /\ UNCHANGED <<env, bytes, passes, cache, arr, index, spent>>

OwnRecord ==
  /\ At("own")
  /\ LET rec == [job.held EXCEPT !.dir = TRUE]
     IN  side' = [side EXCEPT ![job.rung] = rec] /\ Filled(rec, TRUE)
  /\ UNCHANGED <<env, bytes, passes, cache, arr, index, cut, spent>>

\* Mutant: the rungs are stamped once.
NotStampedAgain == {}

\* Rungs that no longer look as they were stamped first.
Changed == {r \in Rungs : Look(r) # job.before[r]}

\* The table is complete: every unchanged rung's number goes to the index,
\* under the stamp taken first, unless such a line is there.
Finish ==
  /\ At("end")
  /\ index' =
       IF job.preflight THEN index
       ELSE index \cup {l \in {[of |-> job.before[r], rung |-> r, number |-> job.table[r].number,
                                fresh |-> r \in job.fresh, back |-> r \in job.away] :
                                 r \in Rungs \ Changed} :
                          \A k \in index : <<k.of, k.rung, k.number>> # <<l.of, l.rung, l.number>>}
  /\ job' = Idle
  /\ UNCHANGED <<env, bytes, passes, cache, arr, side, cut, spent>>

-----------------------------------------------------------------------------
\* vqlab bundle, or any tool, writes a rung, perhaps with weights that look
\* the same, or with what it held before; a package is upgraded.
Edit(r, b) ==
  /\ b # bytes[r] /\ spent.changes < MaxChanges
  /\ bytes' = [bytes EXCEPT ![r] = b]
  /\ spent' = [spent EXCEPT !.changes = @ + 1]
  /\ job' = IF job.does = "ladder" /\ Looks[b] # job.before[r]
            THEN [job EXCEPT !.away = @ \cup {r}] ELSE job
  /\ UNCHANGED <<env, passes, cache, arr, side, index, cut>>

Upgrade(e) ==
  /\ e # env /\ spent.changes < MaxChanges
  /\ env' = e /\ spent' = [spent EXCEPT !.changes = @ + 1]
  /\ UNCHANGED <<bytes, passes, cache, job, arr, side, index, cut>>

\* The job is killed, maybe in the middle of the child's plain write.
Kill(torn) ==
  /\ job # Idle
  /\ torn => At("record")
  /\ side' = IF torn THEN [side EXCEPT ![job.rung] = Torn] ELSE side
  /\ job' = Idle
  /\ UNCHANGED <<env, bytes, passes, cache, arr, index, cut, spent>>

Next ==
  \/ \E order \in PassOrders : \E ids \in 1..(Len(passes) + 1) : BeginPass(order, ids)
  \/ SaveFile
  \/ \E allow, preflight \in BOOLEAN : ~(allow /\ preflight) /\ BeginLadder(allow, preflight)
  \/ Resume \/ Unreadable \/ Score
  \/ SaveArray \/ SaveRecord \/ OwnRecord \/ Finish
  \/ \E r \in Edited, b \in Contents : Edit(r, b)
  \/ \E e \in Envs : Upgrade(e)
  \/ \E torn \in BOOLEAN : Kill(torn)

-----------------------------------------------------------------------------
\* Mutant: builds are not compared.
IgnoresBuild(a, b) == a.ident = b.ident

\* pairing_problems: none, the sidecars vouch for the pair.
Pairable(a, b) == a.ident = b.ident /\ SameBuild(a.number.env, b.number.env)

Records == {r \in Rungs : side[r] \notin {Gone, Torn}}

\* kl-pair "verifies a pairing from" the records beside the arrays: two arrays
\* it pairs hold the same positions against the same teacher, computed by the
\* same build, save where a scoring was cut off between array and record.
PairsAgree ==
  \A r, q \in Records \ cut :
    Pairable(side[r], side[q]) =>
      /\ <<arr[r].teacher, arr[r].ids>> = <<arr[q].teacher, arr[q].ids>>
      /\ SameBuild(arr[r].env, arr[q].env)

\* The record beside an array is of that array, unless a scoring was cut off
\* between the two.
RecordsVouch == \A r \in Records \ cut : side[r].number = arr[r]

\* A number taken without --allow-build-mismatch is of the teacher's own build,
\* and of the teacher's positions, if the cache's files were all of one pass.
TeacherMatches ==
  \A r \in Records :
    LET pass == passes[side[r].number.teacher[2]]
    IN  side[r].whole => /\ ~side[r].allowed => SameBuild(pass.env, side[r].number.env)
                         /\ pass.ids = side[r].number.ids

\* A number scored by the ladder that indexed it is of weights that look as the
\* line says (a resumed one need not be), unless the rung was written during
\* the ladder so that it showed and was brought back before the end.
IndexNamesBytes ==
  \A l \in index : l.fresh /\ ~l.back => Looks[l.number.bytes] = l.of

\* The pairs a ladder reports of cells it scored itself share the teacher.
FreshCellsPair ==
  At("end") => \A r, q \in job.fresh :
    job.table[r].number.teacher = job.table[q].number.teacher

ScoresAreHonest ==
  PairsAgree /\ RecordsVouch /\ TeacherMatches /\ IndexNamesBytes /\ FreshCellsPair

=============================================================================

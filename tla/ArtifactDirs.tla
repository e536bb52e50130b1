---------------------------- MODULE ArtifactDirs ----------------------------
(***************************************************************************)
(* Artifact folders and the tools that write them, one file at a time: the  *)
(* in-place tools (splice-ple, pack-ple, graft, graft-extras, bundle,       *)
(* rebundle-dense, vision-layout) and those that derive a folder from       *)
(* another one (pack, pack-dense, unpack-dense, reskeleton, mix, ple-swap,  *)
(* pin).  Derived folders link shards, a tool may die between two files, and *)
(* it may be run again.  One tool runs at a time.                          *)
(***************************************************************************)
EXTENDS Naturals, Sequences, FiniteSets

CONSTANTS None,
          MaxTools     \* tools started (bound)

VARIABLES file,        \* folder -> file -> [to |-> the folder it links to, holds |-> content]
          job,         \* the tool at work
          owed,        \* folder -> why its files need not agree: a tool died there and
                       \* was not run to an end since, another fit was spliced before,
                       \* a folder it is made of or linked to is that way or changed
          dense,       \* the artifact is a dense one
          turns        \* tools started

avars == <<file, job, owed, dense, turns>>

Dirs == {"a", "b", "c"}        \* an artifact, what is derived from it, a donor
Codes == {"code1", "code2"}
Tables == {"t1", "t2"}         \* PLE tables: affine in emb1 (with other tensors) and emb2
Ple == {"ple1", "ple2"}
Shards == Codes \cup {"emb1", "emb2"} \cup Ple \cup {"tower", "extras"}
Leaves == Shards \cup {"index", "config", "model", "record"}
PleOf(t) == IF t = "t1" THEN "ple1" ELSE "ple2"

Real(v) == [to |-> None, holds |-> v]
LinkTo(d) == [to |-> d, holds |-> None]
Missing == Real(None)
Show(f, d, l) == IF f[d][l].to = None THEN f[d][l].holds ELSE f[f[d][l].to][l].holds
See(d, l) == Show(file, d, l)
Config(d) == See(d, "config")
Map(d) == See(d, "index").map
Listed(d) == {Map(d)[k] : k \in DOMAIN Map(d)}
Empty(d) == \A l \in Leaves : file[d][l] = Missing

\* What files hold, but for nothing: shards, a config's vq_ple entry, configs
\* and indexes.
Contents == {"raw", "packed", "tables", "rest", "torn", "source", "named", "hf", "last", "whole", "old", "new", "ok"}
PleEntries == [tables : SUBSET Tables, packed : BOOLEAN]
Configs == [codes : [Codes -> {"raw", "packed"}], affine : SUBSET Tables, ple : {None} \cup PleEntries,
            spliced : SUBSET {{"t1"}, Tables}, tower : {"none", "other", "own"}]
Names == Codes \cup {"rest"} \cup Tables \cup {"tower", "extras"}
Indexes == [map : UNION {[names -> Shards] : names \in SUBSET Names}, sized : SUBSET (Shards \X Contents)]

\* The tensors a shard holds under the artifact's names.
Serves(l, content) ==
  IF content \in {None, "torn", "source"} THEN {}
  ELSE CASE l = "emb1" -> IF content = "tables" THEN {"rest", "t1"} ELSE {"rest"}
         [] l \in {"emb2", "ple2"} -> {"t2"}
         [] l = "ple1" -> {"t1"}
         [] OTHER -> {l}

\* What a tool does to a file: save writes where the name leads, swap puts a
\* new file under the name.
Write(how, l, v) == [how |-> how, leaf |-> l, value |-> v]
Save(l, v) == Write("save", l, v)
Swap(l, v) == Write("swap", l, v)
Drop(l) == Write("swap", l, None)
Link(l, d) == Write("link", l, IF file[d][l].to = None THEN d ELSE file[d][l].to)
Index(map) == Write("index", "index", map)
Fail == Write("fail", "index", None)
Each(writes) ==
  LET of(l) == IF l \in DOMAIN writes THEN <<writes[l]>> ELSE <<>>
  IN  of("code1") \o of("code2") \o of("emb1") \o of("emb2") \o of("ple1") \o of("ple2")
      \o of("tower") \o of("extras")
Copied(d) == Save("model", See(d, "model"))

\* A tool starts to write o, from the folders given.
Begin(tool, from, o, plan) ==
  /\ job.tool = "idle" /\ turns < MaxTools
  /\ job' = [tool |-> tool, dir |-> o, todo |-> plan]
  /\ owed' = [owed EXCEPT ![o] = @ \cup {tool}
                \cup (IF \E d \in from \ {o} : owed[d] # {} THEN {"source"} ELSE {})]
  /\ turns' = turns + 1
  /\ UNCHANGED <<file, dense>>
Whole(d) == See(d, "config") # None /\ See(d, "index") # None

-----------------------------------------------------------------------------
(* In place.                                                                *)

\* splice-ple: each affine shard without the fitted tables (removed when that
\* leaves nothing), the fit's shards copied unless they are there and renamed,
\* index, config.
Splice(d, fit) ==
  /\ Whole(d) /\ fit \subseteq DOMAIN Map(d)
  /\ LET holding == {Map(d)[t] : t \in fit}
         left(l) == Serves(l, See(d, l)) \ fit
         gone(l) == l \in holding /\ left(l) = {}
         strip(l) == IF See(d, l) = None THEN Fail
                     ELSE IF gone(l) THEN Drop(l) ELSE Swap(l, "rest")
         bring(l) == IF See(d, l) = None \/ gone(l) THEN <<Save(l, "torn"), Save(l, "source"), Swap(l, "named")>>
                     ELSE IF See(d, l) = "torn" THEN <<Fail>> ELSE <<Swap(l, "named")>>
         brought(t) == IF t \in fit THEN bring(PleOf(t)) ELSE <<>>
     IN  Begin(IF fit = Tables THEN "splice-ple" ELSE "splice-ple of one table", {d}, d,
           Each([l \in holding |-> strip(l)]) \o brought("t1") \o brought("t2")
           \o <<Index([k \in DOMAIN Map(d) |-> IF k \in fit THEN PleOf(k) ELSE Map(d)[k]]),
                Save("config", [Config(d) EXCEPT !.affine = @ \ fit, !.spliced = @ \cup {fit},
                                                 !.ple = [tables |-> fit, packed |-> FALSE]])>>)

\* pack-ple: refused when the config says packed or no table is unpacked; the
\* config is written before the index.
CanPackPle(d) ==
  /\ Whole(d) /\ Config(d).ple # None /\ ~Config(d).ple.packed
  /\ \E t \in Config(d).ple.tables : See(d, PleOf(t)) = "named"
PackedConfig(d) == [Config(d) EXCEPT !.ple = [@ EXCEPT !.packed = TRUE]]

\* Mutant: shards are written in place.
PackPleInPlace(d) ==
  /\ CanPackPle(d)
  /\ Begin("pack-ple", {d}, d,
       Each([l \in {p \in Ple : See(d, p) = "named"} |-> Save(l, "packed")])
       \o <<Save("config", PackedConfig(d)), Index(Map(d))>>)

PackPle(d) ==
  /\ CanPackPle(d)
  /\ Begin("pack-ple", {d}, d,
       Each([l \in {p \in Ple : See(d, p) = "named"} |-> Swap(l, "packed")])
       \o <<Save("config", PackedConfig(d)), Index(Map(d))>>)

\* graft: the tower's shard, the index, then the config, refused when it
\* describes another tower and may not be replaced.
Graft(d, replace) ==
  /\ Whole(d)
  /\ Begin("graft", {d}, d,
       <<Save("tower", "hf"), Index([k \in DOMAIN Map(d) \cup {"tower"} |-> IF k = "tower" THEN k ELSE Map(d)[k]]),
         IF Config(d).tower = "other" /\ ~replace THEN Fail
         ELSE Save("config", [Config(d) EXCEPT !.tower = "own"])>>)

GraftExtras(d) ==
  /\ Whole(d)
  /\ Begin("graft-extras", {d}, d,
       <<Swap("extras", "whole"),
         Index([k \in DOMAIN Map(d) \cup {"extras"} |-> IF k = "extras" THEN k ELSE Map(d)[k]])>>)

\* What bundle registers is what the shards hold.
Bundled(d) == [Config(d) EXCEPT !.codes = [l \in Codes |-> See(d, l)]]

\* bundle: refuses dense artifacts, packed codes the config has no width for,
\* and to write through a link.
Bundle(d) ==
  /\ Whole(d) /\ ~dense
  /\ \A l \in Codes : See(d, l) = "packed" => Config(d).codes[l] = "packed"
  /\ \A l \in {"config", "model"} : file[d][l].to = None
  /\ Begin("bundle", {d}, d, <<Save("config", Bundled(d)), Save("model", "new")>>)

Rebundle(d) ==
  /\ Whole(d) /\ dense
  /\ Begin("rebundle-dense", {d}, d, <<Save("model", "new")>>)

\* vision-layout --fix, in place or into a folder of links.
Permute(d, o) ==
  /\ Whole(d) /\ See(d, "tower") = "hf"
  /\ Begin("vision-layout", {d}, o,
       (IF o = d THEN <<>>
        ELSE Each([l \in {s \in Shards \ {"tower"} : See(d, s) # None /\ See(o, s) = None} |-> Link(l, d)])
             \o (IF Whole(o) THEN <<>>
                 ELSE <<Link("index", d), Link("config", d), Copied(d)>>))
       \o <<Swap("tower", "last")>>)

-----------------------------------------------------------------------------
(* From one folder to another.                                              *)

AllCodes(c, v) == [c EXCEPT !.codes = [l \in Codes |-> v]]

\* pack: small files first, then the shards, the index measured anew, the
\* config with the widths, and a bundle.
Pack(d, o) ==
  /\ Whole(d) /\ ~dense /\ \E l \in Codes : Config(d).codes[l] = "raw"
  /\ file[o]["config"].to = None
  /\ Begin("pack", {d}, o,
       <<Save("config", Config(d)), Copied(d)>>
       \o Each([l \in Listed(d) |-> Save(l, IF l \in Codes THEN "packed" ELSE See(d, l))])
       \o <<Index(Map(d)), Save("config", AllCodes(Config(d), "packed")), Save("model", "new")>>)

\* pack-dense: the shards, the index, then the small files.
PackDense(d, o) ==
  /\ Whole(d) /\ dense /\ \E l \in Codes : Config(d).codes[l] = "raw"
  /\ Begin("pack-dense", {d}, o,
       Each([l \in Listed(d) |-> Save(l, IF l \in Codes THEN "packed" ELSE See(d, l))])
       \o <<Index(Map(d)), Save("config", AllCodes(Config(d), "packed")), Copied(d)>>)

\* unpack-dense refuses mixed packing and copies the index as it is.
UnpackDense(d, o) ==
  /\ Whole(d) /\ dense /\ \A l \in Codes : Config(d).codes[l] = "packed"
  /\ Begin("unpack-dense", {d}, o,
       Each([l \in Listed(d) |-> Save(l, IF l \in Codes THEN "raw" ELSE See(d, l))])
       \o <<Copied(d), Save("config", AllCodes(Config(d), "raw")), Save("index", See(d, "index"))>>)

\* reskeleton: experts of one artifact, everything else of another, into a
\* new folder.
Reskeleton(d, other, o) ==
  /\ Whole(d) /\ Whole(other) /\ Empty(o) /\ ~dense
  /\ DOMAIN Map(d) \cap Tables = DOMAIN Map(other) \cap Tables
  /\ \A k \in Tables : Map(d)[k] = Map(other)[k]
  /\ Begin("reskeleton", {d, other}, o,
       <<Copied(d), Save("config", Config(d))>>
       \o Each([l \in Listed(d) |-> Save(l, IF l = "emb1" THEN See(other, l) ELSE See(d, l))])
       \o <<Index(Map(d))>>)

\* Mutant: the base's config for all of it.
MixedConfigBase(d, other, band) == Config(d)

\* mix: a band of shards from another artifact, linked into a new folder; the
\* config follows the bytes.
MixedConfig(d, other, band) ==
  [Config(d) EXCEPT !.codes = [l \in Codes |-> Config(IF l \in band THEN other ELSE d).codes[l]]]

Mix(d, other, band, o) ==
  /\ Whole(d) /\ Whole(other) /\ Empty(o) /\ ~dense
  /\ See(d, "model") = See(other, "model")
  /\ Begin("mix", {d, other}, o,
       Each([l \in Listed(d) |-> Link(l, IF l \in band THEN other ELSE d)])
       \o <<Index(Map(d)), Save("config", MixedConfig(d, other, band)), Copied(d)>>)

\* ple-swap: the donor's tables on the base's other shards, all linked.
PleSwap(d, donor, o) ==
  /\ Whole(d) /\ Whole(donor) /\ ~dense
  /\ \A t \in Tables : Map(d)[t] \in Ple /\ Map(donor)[t] \in Ple
  /\ LET base == Listed(d) \ Ple
         linked(l) == IF file[o][l].to # None THEN Link(l, file[o][l].to)
                      ELSE IF file[o][l] = Missing THEN Link(l, d) ELSE Fail
         kept == \E l \in base : file[o][l].to \notin {None, d}
     IN  Begin(IF kept THEN "ple-swap over links" ELSE "ple-swap", {d, donor}, o,
           <<Swap("config", Config(d)), Swap("model", See(d, "model")), Swap("index", See(d, "index"))>>
           \o Each([l \in base |-> linked(l)]) \o Each([l \in Ple |-> Link(l, donor)])
           \o <<Index(Map(d)), Save("config", [Config(d) EXCEPT !.ple = Config(donor).ple])>>)

\* Mutant: the record comes first.
PinRecordFirst(d, o) ==
  /\ Whole(d) /\ Empty(o)
  /\ Begin("pin", {d}, o,
       <<Save("record", "ok"), Save("config", Config(d)), Save("index", See(d, "index")),
         Copied(d)>>
       \o Each([l \in {s \in Shards : See(d, s) # None} |-> Link(l, d)]))

\* pin: every shard linked, the rest copied, into a new folder; the record
\* comes last, after the smoke.
Pin(d, o) ==
  /\ Whole(d) /\ Empty(o)
  /\ Begin("pin", {d}, o,
       Each([l \in {s \in Shards : See(d, s) # None} |-> Link(l, d)])
       \o <<Save("config", Config(d)), Save("index", See(d, "index")), Copied(d),
            Save("record", "ok")>>)

-----------------------------------------------------------------------------
Bytes(v) == IF v \in {"hf", "last"} THEN "whole" ELSE IF v = "source" THEN "named" ELSE v

\* Where a write lands, and what is there afterwards; an index is measured
\* from the shards it lists.
Landing(d, w) == IF w.how \in {"save", "index"} /\ file[d][w.leaf].to # None THEN file[d][w.leaf].to ELSE d
Sized(d, map) == {<<map[k], Bytes(See(d, map[k]))>> : k \in DOMAIN map}
Landed(d, w) ==
  CASE w.how = "link" -> LinkTo(w.value)
    [] w.how = "index" -> Real([map |-> w.value, sized |-> Sized(d, w.value)])
    [] OTHER -> Real(w.value)
Impossible(d, w) ==
  \/ w.how = "fail"
  \/ w.how = "index" /\ \E k \in DOMAIN w.value : See(d, w.value[k]) = None

Changed(d) == \E l \in Leaves : Show(file', d, l) # See(d, l)

\* The next file.
Step ==
  /\ job.tool # "idle" /\ job.todo # <<>>
  /\ LET w == job.todo[1]
     IN  /\ ~Impossible(job.dir, w)
         /\ file' = [file EXCEPT ![Landing(job.dir, w)][w.leaf] = Landed(job.dir, w)]
  /\ owed' = [d \in Dirs |-> IF d # job.dir /\ Changed(d) THEN owed[d] \cup {"moved"} ELSE owed[d]]
  /\ job' = [job EXCEPT !.todo = Tail(@)]
  /\ UNCHANGED <<dense, turns>>

Idle == [tool |-> "idle", dir |-> "a", todo |-> <<>>]

\* The tool ends.  unpack-dense's index keeps the packed sizes, ple-swap keeps
\* what links to another base, and a second fit leaves the config without the
\* tables of the first.
Finish ==
  /\ job.tool # "idle" /\ job.todo = <<>>
  /\ LET d == job.dir
         settled == {job.tool} \ {"unpack-dense", "ple-swap over links"}
         refit == IF Cardinality(Config(d).spliced) > 1 THEN {"refit"} ELSE {}
     IN  owed' = [owed EXCEPT ![d] = (@ \ settled) \cup refit]
  /\ job' = Idle
  /\ UNCHANGED <<file, dense, turns>>

\* Killed, or ended by an error of its own.
Die ==
  /\ job.tool # "idle"
  /\ job' = Idle
  /\ UNCHANGED <<file, owed, dense, turns>>

MapOf(dns, spliced, tower) ==
  [k \in Codes \cup (IF dns THEN {} ELSE {"rest"} \cup Tables) \cup (IF tower THEN {"tower"} ELSE {}) |->
     IF k \in Tables THEN IF spliced THEN PleOf(k) ELSE IF k = "t1" THEN "emb1" ELSE "emb2"
     ELSE IF k = "rest" THEN "emb1" ELSE k]
Built(dns, done, tower) ==
  LET map == MapOf(dns, done, FALSE)
      shard(l) == IF l \notin {map[k] : k \in DOMAIN map} THEN None
                  ELSE IF l \in Codes THEN (IF done THEN "packed" ELSE "raw")
                  ELSE IF l \in Ple THEN "packed"
                  ELSE IF done THEN "rest" ELSE "tables"
  IN  [l \in Leaves |->
        Real(CASE l \in Shards -> shard(l)
               [] l = "index" -> [map |-> map, sized |-> {<<map[k], shard(map[k])>> : k \in DOMAIN map}]
               [] l = "config" -> [codes |-> [c \in Codes |-> IF done THEN "packed" ELSE "raw"],
                                   affine |-> IF done \/ dns THEN {} ELSE Tables,
                                   ple |-> IF done /\ ~dns THEN [tables |-> Tables, packed |-> TRUE] ELSE None,
                                   spliced |-> IF done /\ ~dns THEN {Tables} ELSE {}, tower |-> tower]
               [] l = "model" -> "old"
               [] OTHER -> None)]

Init ==
  /\ dense \in BOOLEAN
  /\ \E tower \in {"none", "other"} :
       file = [d \in Dirs |-> IF d = "a" THEN Built(dense, FALSE, tower)
                              ELSE IF d = "c" THEN Built(dense, TRUE, "none")
                              ELSE [l \in Leaves |-> Missing]]
  /\ job = Idle /\ owed = [d \in Dirs |-> {}] /\ turns = 0

Next ==
  \/ \E d \in {"a", "b"} :
       \/ \E fit \in {{"t1"}, Tables} : Splice(d, fit)
       \/ PackPle(d) \/ GraftExtras(d) \/ Bundle(d) \/ Rebundle(d) \/ Permute(d, d)
       \/ \E replace \in BOOLEAN : Graft(d, replace)
  \/ Permute("a", "b") \/ Pack("a", "b") \/ PackDense("a", "b") \/ UnpackDense("c", "b")
  \/ Reskeleton("a", "c", "b") \/ PleSwap("a", "c", "b")
  \/ \E band \in {{"code2"}, Codes} : Mix("a", "c", band, "b")
  \/ Pin("a", "b")
  \/ Step \/ Finish \/ Die

-----------------------------------------------------------------------------
\* Index, shards and config describe one artifact: every tensor is in the
\* shard the index names, total_size counts these shards, and the config says
\* which codes and tables are packed.
Agrees(d) ==
  LET map == Map(d)
      vq == {t \in Tables \cap DOMAIN map : map[t] \in Ple}
      c == Config(d)
  IN  /\ \A k \in DOMAIN map : k \in Serves(map[k], See(d, map[k]))
      /\ See(d, "index").sized = Sized(d, map)
      /\ \A l \in Codes : c.codes[l] = See(d, l)
      /\ c.affine = (Tables \cap DOMAIN map) \ vq
      /\ IF c.ple = None THEN vq = {}
         ELSE /\ c.ple.tables = vq
              /\ \A t \in vq : See(d, map[t]) = IF c.ple.packed THEN "packed" ELSE "named"
      /\ "tower" \in DOMAIN map => c.tower = "own"

\* Whatever tools ran in whatever order, and died and ran again, a folder in
\* which none is left unfinished agrees with itself.
FinishedAgrees == \A d \in Dirs : owed[d] = {} /\ Whole(d) => Agrees(d)

\* The files a tool may write through a link of the folder it works in.
Through(tool) ==
  CASE tool \in {"splice-ple", "splice-ple of one table"} -> Ple \cup {"index", "config"}
    [] tool \in {"pack-ple", "graft-extras"} -> {"index", "config"}
    [] tool = "graft" -> {"index", "config", "tower"}
    [] tool \in {"pack", "pack-dense", "unpack-dense"} -> Shards \cup {"index", "config"}
    [] OTHER -> {}

\* A tool at work in the derived folder leaves its source alone but for these:
\* splice-ple copies a shard where a dangling link leads.
SourceUntouched ==
  job.dir = "b" => \A l \in Leaves : Show(file', "a", l) # See("a", l) => l \in Through(job.tool)

\* A pin with a record is whole: a killed pin has none.
RecordedIsWhole ==
  See("b", "record") # None /\ owed["b"] \subseteq {"pin"} =>
    Whole("b") /\ \A l \in Listed("b") : See("b", l) # None

Spec == Init /\ [][Next]_avars

=============================================================================

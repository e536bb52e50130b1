------------------------------ MODULE SkipZero ------------------------------
(***************************************************************************)
(* Artifacts whose dead rows are not stored (vqlab/skipzero/): sz-pack      *)
(* drops them and appends a loader that puts zeros back, sz-resident swaps  *)
(* that loader for one that keeps the rows compact, geo-build refits a      *)
(* module of any artifact, bundle gives one the current runtime, which      *)
(* serves compact rows itself.  Each may follow the others, on a part of    *)
(* the modules at a time; sz-check, sz-bitexact and check-bundle judge.     *)
(*                                                                         *)
(* A row is <<module, fit, place>>; how large its scales are is `Scales`.   *)
(* The tools run one at a time and each writes a folder of its own, except  *)
(* bundle; each may be killed.                                              *)
(***************************************************************************)
EXTENDS Integers, FiniteSets

CONSTANTS Modules,      \* VQ expert modules, each in a shard of its own
          Places,       \* 1 .. rows of a module, all its experts'
          Scales,       \* Scales[m][fit][r]: the largest scale of a row
          Geometries,   \* codebook geometries: [d, packed]
          Folders, Tinies,
          Runtimes      \* what the first artifact's model.py may be built of

VARIABLE lib            \* what each folder holds
Nothing == [state |-> "absent"]
Torn    == [state |-> "torn"]      \* without a config.json: nothing loads it
Zero    == << >>
Junk    == <<"junk">>

Whole(d) == lib[d].state = "whole"
Refused == [m \in Modules |-> << >>]

-----------------------------------------------------------------------------
(* Rows on disk and in memory.                                             *)

Tiny(row, t) == Scales[row[1]][row[2]][row[3]] < t
Rank(live, r) == Cardinality({s \in live : s <= r})
Compact(rows, live) == [i \in 1..Cardinality(live) |->
                          rows[CHOOSE r \in live : Rank(live, r) = i]]

Plain(d, rows) == [at |-> d, sz |-> FALSE, rows |-> rows, mask |-> Places]
Packed(d, rows, live) == [at |-> d, sz |-> TRUE, rows |-> Compact(rows, live), mask |-> live]

\* expand_np and expand_mx: full rows, zeros where the mask has none.
Expand(file) == IF ~file.sz THEN file.rows
                ELSE [r \in Places |-> IF r \in file.mask THEN file.rows[Rank(file.mask, r)] ELSE Zero]

\* Mutant: the table counts places, not live rows.
RowTableOfPlaces(mask) == [r \in Places |-> IF r \in mask THEN r - 1 ELSE -1]

row_table(mask) == [r \in Places |-> IF r \in mask THEN Rank(mask, r) - 1 ELSE -1]

\* The kernels' use of it; what lies past the compact rows is anybody's.
ByTable(file) == [r \in Places |-> LET i == row_table(file.mask)[r] IN
                    IF i < 0 THEN Zero ELSE IF i + 1 \in DOMAIN file.rows THEN file.rows[i + 1] ELSE Junk]

-----------------------------------------------------------------------------
(* Loading.  model.py is a runtime and at most one appended hook.          *)

servable(g) == g.d \in {2, 4, 8} /\ (g.d = 4 \/ g.packed)

\* swap_modules and SZSwitchLinear: the geometries each vintage has kernels for.
Forked(runtime, g) == g.d = 4 /\ (runtime = "walk" <=> g.packed)

\* The map names exactly the compact modules, with their numbers of rows.
InStep(a) == /\ \A m \in Modules : m \in DOMAIN a.map <=> a.disk[m].sz
             /\ \A m \in DOMAIN a.map : a.map[m] = Cardinality(a.disk[m].mask)

Compacted(a) == [m \in Modules |-> IF a.disk[m].sz THEN ByTable(a.disk[m]) ELSE a.disk[m].rows]

\* The stage-1 hook: full rows for the runtime, whose modules are full sized
\* unless it reads the map itself.
ServedExpanded(a) == IF a.runtime = "native" /\ DOMAIN a.map # {} THEN Refused
                     ELSE [m \in Modules |-> Expand(a.disk[m])]

\* The resident hook: its modules for those of the map.
ServedResident(a) == IF a.resident /\ InStep(a) /\ \A m \in DOMAIN a.map : Forked(a.runtime, a.geo[m])
                     THEN Compacted(a) ELSE Refused

\* No hook: a native runtime reads the map, an older one knows no compact rows.
ServedBare(a) == IF a.runtime = "native"
                 THEN IF InStep(a) /\ \A m \in DOMAIN a.map : servable(a.geo[m]) THEN Compacted(a) ELSE Refused
                 ELSE IF \A m \in Modules : ~a.disk[m].sz THEN [m \in Modules |-> a.disk[m].rows] ELSE Refused

\* What every row of the artifact is served as, or Refused: at load, by a
\* strict load_weights, or at the first call.
Served(a) == IF a.hook = "stage1" THEN ServedExpanded(a)
             ELSE IF a.hook = "resident" THEN ServedResident(a) ELSE ServedBare(a)

-----------------------------------------------------------------------------
(* The tools.                                                              *)

First(runtime, geo, d) ==
  LET fit == [m \in Modules |-> [r \in Places |-> <<m, 1, r>>]] IN
  [state |-> "whole", disk |-> [m \in Modules |-> Plain(d, fit[m])], runtime |-> runtime,
   hook |-> "none", sz |-> FALSE, map |-> << >>, tiny |-> 0, used |-> 0, resident |-> FALSE,
   loader |-> FALSE, geo |-> geo, truth |-> fit, from |-> d, by |-> "build"]

Init ==
  LET first == CHOOSE d \in Folders : TRUE IN
  \E runtime \in Runtimes, geo \in [Modules -> Geometries] :
    lib = [d \in Folders |-> IF d = first THEN First(runtime, geo, d) ELSE Nothing]

Write(out, a) == lib' = [lib EXCEPT ![out] = a]

\* plan_shard: the modules a pack takes, and the rows of theirs it keeps.
LiveRows(file, t) == {r \in Places : ~Tiny(file.rows[r], t)}
Planned(a, layers, t) ==
  {m \in layers : /\ ~a.disk[m].sz
                               /\ servable(a.geo[m])
                               /\ LiveRows(a.disk[m], t) # Places}

\* Mutant: an incremental pack starts a map of its own.
FreshMap(a, new, t) == [m \in new |-> Cardinality(LiveRows(a.disk[m], t))]

\* The entries of the modules packed now, beside those packed before.
MergedMap(a, new, t) ==
  [m \in DOMAIN a.map \cup new |-> IF m \in new THEN Cardinality(LiveRows(a.disk[m], t)) ELSE a.map[m]]

HookOf(a) == IF a.sz THEN a.hook ELSE "stage1"

SzPack(src, out, layers, t, whole) ==
  LET a   == lib[src]
      new == Planned(a, layers, t)
      live(m) == LiveRows(a.disk[m], t)
  IN
  /\ Whole(src) /\ lib[out].state = "absent" /\ new # {}
  /\ Write(out,
       IF ~whole THEN Torn ELSE
       [a EXCEPT !.disk = [m \in Modules |-> IF m \in new THEN Packed(out, a.disk[m].rows, live(m))
                                              ELSE a.disk[m]],
                 !.hook = HookOf(a), !.sz = TRUE, !.map = MergedMap(a, new, t),
                 !.tiny = IF a.sz THEN a.tiny ELSE t, !.used = t,
                 !.truth = [m \in Modules |-> IF m \in new
                              THEN [r \in Places |-> IF r \in live(m) THEN a.truth[m][r] ELSE Zero]
                              ELSE a.truth[m]],
                 !.from = src, !.by = "pack"])

plan_resident(a) == /\ a.sz /\ ~a.resident /\ InStep(a)
                    /\ \A m \in DOMAIN a.map : a.geo[m].d = 4

check_vintage(a) == a.runtime # "native" /\ \A m \in DOMAIN a.map : Forked(a.runtime, a.geo[m])

SzResident(src, out, whole) ==
  /\ Whole(src) /\ lib[out].state = "absent"
  /\ plan_resident(lib[src]) /\ lib[src].hook = "stage1" /\ check_vintage(lib[src])
  /\ Write(out, IF ~whole THEN Torn ELSE
                [lib[src] EXCEPT !.hook = "resident", !.resident = TRUE, !.from = src, !.by = "resident"])

\* Mutant: a refit module stays in the skip-zero map.
KeepEntry(a, m) == a.map
Unlisted(a, m) == [n \in DOMAIN a.map \ {m} |-> a.map[n]]

\* geo-build of one module, into a folder of its own.  Its config.json comes
\* first and its shards after, so a folder it leaves torn loads no weights.
Refit(src, out, m, g, whole) ==
  LET a == lib[src]
      rows == [r \in Places |-> <<m, 2, r>>]
  IN
  /\ Whole(src) /\ lib[out].state = "absent"
  /\ \A r \in Places : a.truth[m][r] # rows[r]
  /\ Write(out, IF ~whole THEN Torn ELSE
                [a EXCEPT !.disk[m] = Plain(out, rows), !.map = Unlisted(a, m), !.geo[m] = g,
                          !.truth[m] = rows, !.from = src, !.by = "refit"])

\* bundle, in place: config.json, then model.py.
Bundle(d, whole) ==
  LET a == lib[d]
      cfg == IF DOMAIN a.map # {} THEN [a EXCEPT !.loader = TRUE, !.resident = FALSE] ELSE a
  IN
  /\ Whole(d)
  /\ \A m \in DOMAIN a.map : a.disk[m].sz
  /\ Write(d, IF whole THEN [cfg EXCEPT !.runtime = "native", !.hook = "none"] ELSE cfg)

Next ==
  \E src \in Folders, whole \in BOOLEAN :
    \/ \E out \in Folders, layers \in SUBSET Modules, t \in Tinies : SzPack(src, out, layers, t, whole)
    \/ \E out \in Folders : SzResident(src, out, whole)
    \/ \E out \in Folders, m \in Modules, g \in Geometries : Refit(src, out, m, g, whole)
    \/ Bundle(src, whole)

Spec == Init /\ [][Next]_lib

-----------------------------------------------------------------------------
(* The judges.                                                             *)

\* sz-check, of a pack against what it was made of: new modules row by row,
\* the others file by file or byte by byte.
SzCheck(p, o) ==
  LET prior == {m \in DOMAIN p.map : o.disk[m].sz} IN
  /\ \A m \in DOMAIN p.map \ prior :
       LET file == p.disk[m] full == Expand(file) was == o.disk[m].rows IN
       /\ Cardinality(file.mask) = p.map[m]
       /\ \A r \in Places : /\ r \in file.mask => full[r] = was[r] /\ ~Tiny(was[r], p.tiny)
                          /\ r \notin file.mask => full[r] = Zero /\ Tiny(was[r], p.tiny)
  /\ \A m \in Modules \ (DOMAIN p.map \ prior) :
       /\ p.disk[m].sz = o.disk[m].sz
       /\ IF p.disk[m].at = p.from THEN p.disk[m] = o.disk[m] ELSE p.disk[m].at = o.disk[m].at

\* sz-bitexact: whole answers of two artifacts; modules of the older runtime
\* alone; and kernels on rows made up, whatever the mask.
compare(res, ref) == Served(res) # Refused /\ Served(res) = Served(ref)
partial(res, st1) == \A m \in DOMAIN res.map : /\ res.disk[m] = st1.disk[m]
                                               /\ ByTable(res.disk[m]) = Expand(st1.disk[m])
synthetic(rows) == \A live \in SUBSET Places : LET file == Packed(1, rows, live) IN ByTable(file) = Expand(file)

\* check-bundle's word on a skip-zero artifact.
check_bundle(a) ==
  /\ a.sz => /\ a.hook = "none" /\ a.loader
             /\ \A m \in DOMAIN a.map : servable(a.geo[m])
  /\ a.runtime = "native"

-----------------------------------------------------------------------------
(* What must hold.                                                         *)

\* An artifact serves every row as it was fitted, or as zero if a pack it
\* descends from dropped it; or it refuses to load.  It may refuse where
\* the stage-1 hook sits on a runtime that serves compact rows itself, and
\* where a resident artifact was packed again at a geometry its kernels lack.
RowsAreTrue ==
  \A d \in Folders : Whole(d) =>
    LET a == lib[d] IN
    \/ Served(a) = a.truth
    \/ /\ Served(a) = Refused
       /\ \/ a.hook = "stage1" /\ a.runtime = "native"
          \/ a.hook = "resident" /\ (~a.resident \/ \E m \in DOMAIN a.map : ~Forked(a.runtime, a.geo[m]))

\* What check-bundle passes, the runtime serves.
PassedIsServed == \A d \in Folders : Whole(d) /\ check_bundle(lib[d]) => Served(lib[d]) = lib[d].truth

\* Every pack passes sz-check against its source, unless it was packed on at
\* another --tiny; every resident artifact passes sz-bitexact against its pack
\* (as long as neither was bundled), and the made-up rows pass it too.
PacksPass ==
  \A d \in Folders : Whole(d) =>
    LET a == lib[d] o == lib[a.from] IN
    /\ a.by = "pack" /\ a.used = a.tiny => SzCheck(a, o)
    /\ a.by = "resident" => partial(a, o)
    /\ a.by = "resident" /\ a.hook = "resident" /\ a.resident /\ o.hook = "stage1" /\ o.runtime = a.runtime
         => compare(a, o)
    /\ a.by = "build" => \A m \in Modules : synthetic(a.truth[m])

\* The three together.
SkipZeroHolds == RowsAreTrue /\ PassedIsServed /\ PacksPass
=============================================================================

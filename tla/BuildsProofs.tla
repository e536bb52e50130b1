----------------------------- MODULE BuildsProofs -----------------------------
(***************************************************************************)
(* That the fitters finish what was asked for, that a build record is true  *)
(* of its artifact, that what a scratch survey lists can be deleted, and    *)
(* that a tool leaves its source alone, for any modules, shards,            *)
(* geometries, flags and files and any sequence of runs that are killed and *)
(* taken up again (GeoBuild, FitMoe, Reselect, Provenance, Scratch and      *)
(* ArtifactDirs, as parts of MCBuilds).  Each part has its variables under  *)
(* names of its own, an inductive invariant, and lemmas: it holds at first, *)
(* every step keeps it, and it implies the part's property.  The theorems   *)
(* at the end are of BuildsSpec.                                            *)
(***************************************************************************)
EXTENDS MCBuilds, FiniteSetTheorems, SequenceTheorems, WellFoundedInduction, TLAPS

-----------------------------------------------------------------------------
(* geo-build (GeoBuild).                                                    *)

pieces == v1
origins == v2
archived == v3
build == v4
builds == v5
result == v6
told == v7
unarchived == v8

Pieces == Refit!Parts
Whole == {"fit", "reuse"}
Work == {"copy", "copied", "save", "note", "put"}

BuildTypes ==
  /\ pieces \in [Pieces -> {"none", "torn"} \cup Whole]
  /\ origins \in [Pieces -> {"none"} \cup Whole]
  /\ DOMAIN build = {"pc", "geo", "todo", "at"}
  /\ build.pc \in {"off", "reuse", "fit", "done"} \cup Work

\* A run's geomap, and the part it is at.
Mapped ==
  build.pc # "off" =>
    /\ \A n \in DOMAIN build.geo : n \in Modules /\ build.geo[n] \in Geoms
    /\ build.todo \subseteq Refit!Wanted
    /\ build.pc \in Work => build.at \in Refit!Wanted

\* What the run has behind it, and how the part it is at stands.
Behind ==
  /\ build.pc \in {"reuse", "copy", "copied"} => build.todo = Refit!Wanted
  /\ build.pc \in {"fit", "save", "note", "put", "done"} =>
       \A x \in Refit!Wanted \ build.todo :
         (build.pc = "save" /\ x = build.at) \/ pieces[x] \in Whole
  /\ build.pc = "copy" => pieces[build.at] = "torn"
  /\ build.pc = "copied" => pieces[build.at] = "reuse"
  /\ build.pc = "save" => pieces[build.at] \in {"none", "torn"}
  /\ build.pc \in {"note", "put"} => pieces[build.at] = "fit"

\* Only what is whole was noted, and as what it is.
NotedTrue ==
  \A x \in Pieces : /\ pieces[x] \notin Whole => origins[x] = "none"
                    /\ origins[x] # "none" => origins[x] = pieces[x]

Archived ==
  \A x \in Pieces \ unarchived :
    pieces[x] = "fit" => x \in archived \/ (build.pc \in {"note", "put"} /\ build.at = x)

\* What a finished run has assembled and recorded.
Assembled ==
  build.pc = "done" =>
    /\ build.todo = {}
    /\ \A n \in Modules :
         LET offered == {x \in Pieces : x[1] = n /\ pieces[x] # "none"}
         IN  IF offered = {} THEN result[n] = "shipped" ELSE result[n] \in offered
    /\ \A x \in Refit!Wanted : told[x[1]] \in {pieces[x], "resume"}

BuildInv == BuildTypes /\ Mapped /\ Behind /\ NotedTrue /\ Archived /\ Assembled

LEMMA BuildInit == Refit!Init => BuildInv
  <1> SUFFICES ASSUME Refit!Init PROVE BuildInv
    OBVIOUS
  <1>1. /\ pieces = [x \in Pieces |-> "none"] /\ origins = [x \in Pieces |-> "none"]
        /\ build = Refit!Off
    BY DEF Refit!Init, pieces, origins, build, Pieces
  <1>2. build.pc = "off" /\ DOMAIN build = {"pc", "geo", "todo", "at"}
    BY <1>1 DEF Refit!Off
  <1>3. BuildTypes
    BY <1>1, <1>2 DEF BuildTypes
  <1>4. Mapped /\ Behind /\ NotedTrue /\ Archived /\ Assembled
    BY <1>1, <1>2 DEF Mapped, Behind, NotedTrue, Archived, Assembled, Whole
  <1>5. QED
    BY <1>3, <1>4 DEF BuildInv

\* A wanted part is a module's, of the geometry the run wants of it.
LEMMA WantedIs ==
  /\ Refit!Wanted = {<<n, build.geo[n]>> : n \in DOMAIN build.geo}
  /\ \A x \in Refit!Wanted : x[1] \in DOMAIN build.geo /\ x = <<x[1], build.geo[x[1]]>>
  /\ BuildInv /\ build.pc # "off" => Refit!Wanted \subseteq Pieces
  <1>1. Refit!Wanted = {<<n, build.geo[n]>> : n \in DOMAIN build.geo}
    BY DEF Refit!Wanted, build
  <1>2. BuildInv /\ build.pc # "off" => Refit!Wanted \subseteq Pieces
    BY <1>1 DEF BuildInv, Mapped, Pieces, Refit!Parts
  <1>3. QED
    BY <1>1, <1>2

\* A step of a run to another place of its code, the geomap kept.
LEMMA BuildGoes ==
  ASSUME BuildInv, NEW pc, NEW at, build' = [build EXCEPT !.pc = pc, !.at = at]
  PROVE  /\ DOMAIN build' = DOMAIN build /\ build'.pc = pc /\ build'.at = at
         /\ build'.geo = build.geo /\ build'.todo = build.todo
         /\ Refit!Wanted' = Refit!Wanted
  <1>1. /\ DOMAIN build' = DOMAIN build /\ build'.pc = pc /\ build'.at = at
        /\ build'.geo = build.geo /\ build'.todo = build.todo
    BY DEF BuildInv, BuildTypes
  <1>2. QED
    BY <1>1 DEF Refit!Wanted, build

LEMMA BuildStart ==
  ASSUME BuildInv, NEW some \in SUBSET Modules, NEW geo \in [some -> Geoms], Refit!Start(geo)
  PROVE  BuildInv'
  <1>1. /\ build.pc \in {"off", "done"}
        /\ build' = [pc |-> "reuse", geo |-> geo, todo |-> {<<n, geo[n]>> : n \in DOMAIN geo}, at |-> <<>>]
        /\ UNCHANGED <<pieces, origins, archived, result, told, unarchived>>
    BY DEF Refit!Start, pieces, origins, archived, build, result, told, unarchived
  <1>2. /\ build'.pc = "reuse" /\ build'.geo = geo /\ build'.todo = {<<n, geo[n]>> : n \in DOMAIN geo}
        /\ DOMAIN build' = {"pc", "geo", "todo", "at"}
    BY <1>1
  <1>3. Refit!Wanted' = build'.todo
    BY <1>2 DEF Refit!Wanted, build
  <1>4. BuildTypes'
    BY <1>1, <1>2 DEF BuildInv, BuildTypes, Pieces, Refit!Parts
  <1>5. Mapped'
    BY <1>2, <1>3 DEF Mapped, Work
  <1>6. Behind' /\ Assembled'
    BY <1>2, <1>3 DEF Behind, Assembled
  <1>7. NotedTrue' /\ Archived'
    BY <1>1, <1>2 DEF BuildInv, NotedTrue, Archived, Pieces, Refit!Parts
  <1>8. QED
    BY <1>4, <1>5, <1>6, <1>7 DEF BuildInv

\* A part is copied in from the pool, in two writes, and noted.
LEMMA BuildCopies ==
  ASSUME BuildInv,
         (\E x \in Pieces : Refit!Reuse(x)) \/ Refit!Copied \/ Refit!Noted \/ Refit!Reused
  PROVE  BuildInv'
  <1>0. BuildTypes /\ Mapped /\ Behind /\ NotedTrue /\ Archived
    BY DEF BuildInv
  <1>1. ASSUME NEW x \in Pieces, Refit!Reuse(x) PROVE BuildInv'
    <2>1. /\ build.pc = "reuse" /\ x \in build.todo /\ pieces[x] = "none"
          /\ pieces' = [pieces EXCEPT ![x] = "torn"]
          /\ build' = [build EXCEPT !.pc = "copy", !.at = x]
          /\ UNCHANGED <<origins, archived, result, told, unarchived>>
      BY <1>1 DEF Refit!Reuse, Refit!At, Refit!Goto, pieces, origins, archived, build, result, told, unarchived
    <2>2. /\ DOMAIN build' = DOMAIN build /\ build'.pc = "copy" /\ build'.at = x
          /\ build'.geo = build.geo /\ build'.todo = build.todo /\ Refit!Wanted' = Refit!Wanted
      BY <2>1, BuildGoes
    <2> HIDE DEF pieces, build, origins, archived, unarchived
    <2>3. BuildTypes'
      BY <1>0, <2>1, <2>2 DEF BuildTypes, Work, Pieces, Refit!Parts
    <2>4. Mapped'
      BY <1>0, <2>1, <2>2 DEF Mapped, Behind
    <2>5. Behind' /\ Assembled'
      BY <1>0, <2>1, <2>2 DEF Behind, BuildTypes, Assembled
    <2>6. NotedTrue'
      BY <1>0, <2>1 DEF NotedTrue, BuildTypes, Whole, Pieces, Refit!Parts
    <2>7. Archived'
      BY <1>0, <2>1, <2>2 DEF Archived, BuildTypes, Pieces, Refit!Parts
    <2>8. QED
      BY <2>3, <2>4, <2>5, <2>6, <2>7 DEF BuildInv
  <1>2. CASE Refit!Copied
    <2>1. /\ build.pc = "copy"
          /\ pieces' = [pieces EXCEPT ![build.at] = "reuse"]
          /\ build' = [build EXCEPT !.pc = "copied", !.at = build.at]
          /\ UNCHANGED <<origins, archived, result, told, unarchived>>
      BY <1>2 DEF Refit!Copied, Refit!At, Refit!Goto, pieces, origins, archived, build, result, told, unarchived
    <2>2. /\ DOMAIN build' = DOMAIN build /\ build'.pc = "copied" /\ build'.at = build.at
          /\ build'.geo = build.geo /\ build'.todo = build.todo /\ Refit!Wanted' = Refit!Wanted
      BY <2>1, BuildGoes
    <2>a. build.at \in Pieces /\ build.at \in Refit!Wanted /\ pieces[build.at] = "torn"
      BY <1>0, <2>1, WantedIs DEF Mapped, Work, Behind
    <2> HIDE DEF pieces, build, origins, archived, unarchived
    <2>3. BuildTypes'
      BY <1>0, <2>1, <2>2 DEF BuildTypes, Work, Whole, Pieces, Refit!Parts
    <2>4. Mapped'
      BY <1>0, <2>1, <2>2, <2>a DEF Mapped, Behind
    <2>5. Behind' /\ Assembled'
      BY <1>0, <2>1, <2>2, <2>a DEF Behind, BuildTypes, Assembled
    <2>6. NotedTrue'
      BY <1>0, <2>1, <2>a DEF NotedTrue, BuildTypes, Whole, Pieces, Refit!Parts
    <2>7. Archived'
      BY <1>0, <2>1, <2>2, <2>a DEF Archived, BuildTypes, Pieces, Refit!Parts
    <2>8. QED
      BY <2>3, <2>4, <2>5, <2>6, <2>7 DEF BuildInv
  <1>3. CASE Refit!Noted
    <2>1. /\ build.pc = "copied"
          /\ origins' = [origins EXCEPT ![build.at] = "reuse"]
          /\ build' = [build EXCEPT !.pc = "reuse", !.at = <<>>]
          /\ UNCHANGED <<pieces, archived, result, told, unarchived>>
      BY <1>3 DEF Refit!Noted, Refit!At, Refit!Goto, pieces, origins, archived, build, result, told, unarchived
    <2>2. /\ DOMAIN build' = DOMAIN build /\ build'.pc = "reuse"
          /\ build'.geo = build.geo /\ build'.todo = build.todo /\ Refit!Wanted' = Refit!Wanted
      BY <2>1, BuildGoes
    <2>a. build.at \in Pieces /\ pieces[build.at] = "reuse"
      BY <1>0, <2>1, WantedIs DEF Mapped, Work, Behind
    <2> HIDE DEF pieces, build, origins, archived, unarchived
    <2>3. BuildTypes'
      BY <1>0, <2>1, <2>2 DEF BuildTypes, Work, Whole, Pieces, Refit!Parts
    <2>4. Mapped' /\ Behind' /\ Assembled'
      BY <1>0, <2>1, <2>2 DEF Mapped, Behind, Assembled, Work
    <2>6. NotedTrue'
      BY <1>0, <2>1, <2>a DEF NotedTrue, BuildTypes, Whole, Pieces, Refit!Parts
    <2>7. Archived'
      BY <1>0, <2>1, <2>2 DEF Archived, Pieces, Refit!Parts
    <2>8. QED
      BY <2>3, <2>4, <2>6, <2>7 DEF BuildInv
  <1>4. CASE Refit!Reused
    <2>1. /\ build.pc = "reuse"
          /\ build' = [build EXCEPT !.pc = "fit", !.at = <<>>]
          /\ UNCHANGED <<pieces, origins, archived, result, told, unarchived>>
      BY <1>4 DEF Refit!Reused, Refit!At, Refit!Goto, pieces, origins, archived, build, result, told, unarchived
    <2>2. /\ DOMAIN build' = DOMAIN build /\ build'.pc = "fit"
          /\ build'.geo = build.geo /\ build'.todo = build.todo /\ Refit!Wanted' = Refit!Wanted
      BY <2>1, BuildGoes
    <2> HIDE DEF pieces, build, origins, archived, unarchived
    <2>3. BuildTypes'
      BY <1>0, <2>1, <2>2 DEF BuildTypes, Work, Whole, Pieces, Refit!Parts
    <2>4. Mapped' /\ Behind' /\ Assembled'
      BY <1>0, <2>1, <2>2 DEF Mapped, Behind, Assembled, Work
    <2>6. NotedTrue' /\ Archived'
      BY <1>0, <2>1, <2>2 DEF NotedTrue, Archived, Pieces, Refit!Parts
    <2>8. QED
      BY <2>3, <2>4, <2>6 DEF BuildInv
  <1>5. QED
    BY <1>1, <1>2, <1>3, <1>4

\* A part that is not whole is fitted, saved in two writes, noted and stored.
LEMMA BuildFits ==
  ASSUME BuildInv,
         (\E x \in Pieces : Refit!Pick(x)) \/ Refit!Save \/ Refit!Note \/ Refit!Put
  PROVE  BuildInv'
  <1>0. BuildTypes /\ Mapped /\ Behind /\ NotedTrue /\ Archived
    BY DEF BuildInv
  <1>1. ASSUME NEW x \in Pieces, Refit!Pick(x) PROVE BuildInv'
    <2>1. /\ build.pc = "fit" /\ x \in build.todo
          /\ build' = [build EXCEPT !.todo = build.todo \ {x}, !.at = x,
                         !.pc = IF pieces[x] \in {"none", "torn"} THEN "save" ELSE "fit"]
          /\ pieces' = IF pieces[x] = "torn" THEN [pieces EXCEPT ![x] = "none"] ELSE pieces
          /\ UNCHANGED <<origins, archived, result, told, unarchived>>
      BY <1>1 DEF Refit!Pick, Refit!At, pieces, origins, archived, build, result, told, unarchived
    <2>2. /\ DOMAIN build' = DOMAIN build /\ build'.at = x /\ build'.geo = build.geo
          /\ build'.pc = (IF pieces[x] \in {"none", "torn"} THEN "save" ELSE "fit")
          /\ build'.todo = build.todo \ {x}
      BY <1>0, <2>1 DEF BuildTypes
    <2>a. Refit!Wanted' = Refit!Wanted /\ x \in Refit!Wanted
      <3>1. Refit!Wanted' = Refit!Wanted
        BY <2>2, WantedIs DEF Refit!Wanted, build
      <3>2. QED
        BY <1>0, <2>1, <3>1 DEF Mapped
    <2> HIDE DEF pieces, build, origins, archived, unarchived
    <2>3. BuildTypes'
      BY <1>0, <2>1, <2>2 DEF BuildTypes, Work, Whole, Pieces, Refit!Parts
    <2>4. Mapped'
      BY <1>0, <2>1, <2>2, <2>a DEF Mapped
    <2>5. /\ \A y \in Pieces \ {x} : pieces'[y] = pieces[y]
          /\ pieces'[x] = (IF pieces[x] = "torn" THEN "none" ELSE pieces[x])
          /\ pieces[x] \in {"none", "torn"} \cup Whole
      BY <1>0, <2>1 DEF BuildTypes
    <2>6. Refit!Wanted \subseteq Pieces
      BY <2>1, WantedIs
    <2>7. Behind' /\ Assembled'
      BY <1>0, <2>1, <2>2, <2>a, <2>5, <2>6 DEF Behind, Assembled, Whole
    <2>8. NotedTrue'
      BY <1>0, <2>1, <2>5 DEF NotedTrue, Whole, Pieces, Refit!Parts
    <2>9. Archived'
      BY <1>0, <2>1, <2>2, <2>5 DEF Archived, Pieces, Refit!Parts
    <2>10. QED
      BY <2>3, <2>4, <2>7, <2>8, <2>9 DEF BuildInv
  <1>2. CASE Refit!Save
    <2>1. /\ build.pc = "save"
          /\ pieces' = [pieces EXCEPT ![build.at] = IF pieces[build.at] = "torn" THEN "fit" ELSE "torn"]
          /\ build' = [build EXCEPT !.pc = IF pieces'[build.at] = "fit" THEN "note" ELSE "save", !.at = build.at]
          /\ UNCHANGED <<origins, archived, result, told, unarchived>>
      BY <1>2 DEF Refit!Save, Refit!At, Refit!Goto, pieces, origins, archived, build, result, told, unarchived
    <2>2. /\ DOMAIN build' = DOMAIN build /\ build'.at = build.at
          /\ build'.pc = (IF pieces'[build.at] = "fit" THEN "note" ELSE "save")
          /\ build'.geo = build.geo /\ build'.todo = build.todo /\ Refit!Wanted' = Refit!Wanted
      BY <2>1, BuildGoes
    <2>a. build.at \in Pieces /\ build.at \in Refit!Wanted /\ pieces[build.at] \in {"none", "torn"}
      BY <1>0, <2>1, WantedIs DEF Mapped, Work, Behind
    <2> HIDE DEF pieces, build, origins, archived, unarchived
    <2>3. BuildTypes'
      BY <1>0, <2>1, <2>2 DEF BuildTypes, Work, Whole, Pieces, Refit!Parts
    <2>4. Mapped'
      BY <1>0, <2>1, <2>2, <2>a DEF Mapped
    <2>5. /\ \A y \in Pieces \ {build.at} : pieces'[y] = pieces[y]
          /\ pieces'[build.at] = (IF pieces[build.at] = "torn" THEN "fit" ELSE "torn")
      BY <1>0, <2>1, <2>a DEF BuildTypes
    <2>6. Refit!Wanted \subseteq Pieces
      BY <2>1, WantedIs
    <2>7. Behind' /\ Assembled'
      BY <1>0, <2>1, <2>2, <2>a, <2>5, <2>6 DEF Behind, Assembled, Whole
    <2>8. NotedTrue'
      BY <1>0, <2>1, <2>a, <2>5 DEF NotedTrue, Whole, Pieces, Refit!Parts
    <2>9. Archived'
      BY <1>0, <2>1, <2>2, <2>5 DEF Archived, Pieces, Refit!Parts
    <2>10. QED
      BY <2>3, <2>4, <2>7, <2>8, <2>9 DEF BuildInv
  <1>3. CASE Refit!Note
    <2>1. /\ build.pc = "note"
          /\ origins' = [origins EXCEPT ![build.at] = "fit"]
          /\ build' = [build EXCEPT !.pc = "put", !.at = build.at]
          /\ UNCHANGED <<pieces, archived, result, told, unarchived>>
      BY <1>3 DEF Refit!Note, Refit!At, Refit!Goto, pieces, origins, archived, build, result, told, unarchived
    <2>2. /\ DOMAIN build' = DOMAIN build /\ build'.pc = "put" /\ build'.at = build.at
          /\ build'.geo = build.geo /\ build'.todo = build.todo /\ Refit!Wanted' = Refit!Wanted
      BY <2>1, BuildGoes
    <2>a. build.at \in Pieces /\ build.at \in Refit!Wanted /\ pieces[build.at] = "fit"
      BY <1>0, <2>1, WantedIs DEF Mapped, Work, Behind
    <2> HIDE DEF pieces, build, origins, archived, unarchived
    <2>3. BuildTypes'
      BY <1>0, <2>1, <2>2 DEF BuildTypes, Work, Whole, Pieces, Refit!Parts
    <2>4. Mapped' /\ Behind' /\ Assembled'
      BY <1>0, <2>1, <2>2, <2>a DEF Mapped, Behind, Assembled, Work
    <2>6. NotedTrue'
      BY <1>0, <2>1, <2>a DEF NotedTrue, BuildTypes, Whole, Pieces, Refit!Parts
    <2>7. Archived'
      BY <1>0, <2>1, <2>2 DEF Archived, Pieces, Refit!Parts
    <2>8. QED
      BY <2>3, <2>4, <2>6, <2>7 DEF BuildInv
  <1>4. CASE Refit!Put
    <2>1. /\ build.pc = "put"
          /\ archived' = archived \cup {build.at}
          /\ build' = [build EXCEPT !.pc = "fit", !.at = <<>>]
          /\ UNCHANGED <<pieces, origins, result, told, unarchived>>
      BY <1>4 DEF Refit!Put, Refit!At, Refit!Goto, pieces, origins, archived, build, result, told, unarchived
    <2>2. /\ DOMAIN build' = DOMAIN build /\ build'.pc = "fit"
          /\ build'.geo = build.geo /\ build'.todo = build.todo /\ Refit!Wanted' = Refit!Wanted
      BY <2>1, BuildGoes
    <2> HIDE DEF pieces, build, origins, archived, unarchived
    <2>3. BuildTypes'
      BY <1>0, <2>1, <2>2 DEF BuildTypes, Work, Whole, Pieces, Refit!Parts
    <2>4. Mapped' /\ Behind' /\ Assembled'
      BY <1>0, <2>1, <2>2 DEF Mapped, Behind, Assembled, Work
    <2>6. NotedTrue' /\ Archived'
      BY <1>0, <2>1, <2>2 DEF NotedTrue, Archived, Pieces, Refit!Parts
    <2>8. QED
      BY <2>3, <2>4, <2>6 DEF BuildInv
  <1>5. QED
    BY <1>1, <1>2, <1>3, <1>4

LEMMA BuildEnds ==
  ASSUME BuildInv, Refit!Assemble \/ Refit!Killed
  PROVE  BuildInv'
  <1>0. BuildTypes /\ Mapped /\ Behind /\ NotedTrue /\ Archived
    BY DEF BuildInv
  <1>1. CASE Refit!Assemble
    <2> DEFINE offered(n) == {x \in Pieces : x[1] = n /\ pieces[x] # "none"}
    <2>1. /\ build.pc = "fit" /\ build.todo = {}
          /\ build' = [build EXCEPT !.pc = "done", !.at = <<>>]
          /\ UNCHANGED <<pieces, origins, archived, unarchived>>
          /\ told' = [n \in Modules |->
               IF n \notin DOMAIN build.geo THEN "shipped"
               ELSE IF origins[<<n, build.geo[n]>>] = "none" THEN "resume" ELSE origins[<<n, build.geo[n]>>]]
      BY <1>1 DEF Refit!Assemble, Refit!At, Refit!Goto, pieces, origins, archived, build, told, unarchived
    <2>2. \A n \in Modules : IF offered(n) = {} THEN result'[n] = "shipped" ELSE result'[n] \in offered(n)
      BY <1>1, ZenonT(40) DEF Refit!Assemble, result, pieces, Pieces
    <2>3. /\ DOMAIN build' = DOMAIN build /\ build'.pc = "done"
          /\ build'.geo = build.geo /\ build'.todo = build.todo /\ Refit!Wanted' = Refit!Wanted
      BY <2>1, BuildGoes
    <2>4. \A x \in Refit!Wanted : told'[x[1]] \in {pieces[x], "resume"}
      <3> SUFFICES ASSUME NEW x \in Refit!Wanted
                   PROVE  told'[x[1]] \in {pieces[x], "resume"}
        OBVIOUS
      <3>1. x \in Pieces /\ x[1] \in DOMAIN build.geo /\ x = <<x[1], build.geo[x[1]]>> /\ x[1] \in Modules
        BY <1>0, <2>1, WantedIs DEF Mapped
      <3>2. told'[x[1]] = IF origins[x] = "none" THEN "resume" ELSE origins[x]
        BY <2>1, <3>1
      <3>3. QED
        BY <1>0, <3>1, <3>2 DEF NotedTrue
    <2>5. BuildTypes'
      BY <1>0, <2>1, <2>3 DEF BuildTypes, Work, Whole, Pieces, Refit!Parts
    <2>6. Assembled'
      <3>1. \A n \in Modules : offered(n)' = offered(n)
        BY <2>1 DEF Pieces, Refit!Parts
      <3>2. QED
        BY <2>1, <2>2, <2>3, <2>4, <3>1 DEF Assembled
    <2> HIDE DEF offered, pieces, build, origins, archived, unarchived, told, result
    <2>7. Mapped' /\ Behind'
      BY <1>0, <2>1, <2>3 DEF Mapped, Behind, Work
    <2>8. NotedTrue' /\ Archived'
      BY <1>0, <2>1, <2>3 DEF NotedTrue, Archived, Pieces, Refit!Parts
    <2>9. QED
      BY <2>5, <2>6, <2>7, <2>8 DEF BuildInv
  <1>2. CASE Refit!Killed
    <2>1. /\ build.pc \notin {"off", "done"}
          /\ unarchived' = IF build.pc \in {"note", "put"} THEN unarchived \cup {build.at} ELSE unarchived
          /\ build' = Refit!Off
          /\ UNCHANGED <<pieces, origins, archived, result, told>>
      BY <1>2 DEF Refit!Killed, pieces, origins, archived, build, result, told, unarchived
    <2>2. build'.pc = "off" /\ DOMAIN build' = {"pc", "geo", "todo", "at"}
      BY <2>1 DEF Refit!Off
    <2> HIDE DEF pieces, build, origins, archived, unarchived
    <2>3. BuildTypes'
      BY <1>0, <2>1, <2>2 DEF BuildTypes, Pieces, Refit!Parts
    <2>4. Mapped' /\ Behind' /\ Assembled'
      BY <2>2 DEF Mapped, Behind, Assembled
    <2>5. NotedTrue' /\ Archived'
      BY <1>0, <2>1, <2>2 DEF NotedTrue, Archived, Pieces, Refit!Parts
    <2>6. QED
      BY <2>3, <2>4, <2>5 DEF BuildInv
  <1>3. QED
    BY <1>1, <1>2

LEMMA BuildNext == BuildInv /\ [Refit!Next]_(Refit!bvars) => BuildInv'
  <1> SUFFICES ASSUME BuildInv, [Refit!Next]_(Refit!bvars)
               PROVE  BuildInv'
    OBVIOUS
  <1>1. CASE UNCHANGED Refit!bvars
    <2>1. UNCHANGED <<pieces, origins, archived, build, result, told, unarchived>>
      BY <1>1 DEF Refit!bvars, pieces, origins, archived, build, result, told, unarchived
    <2>2. Refit!Wanted' = Refit!Wanted
      BY <2>1 DEF Refit!Wanted, build
    <2>3. QED
      BY <2>1, <2>2 DEF BuildInv, BuildTypes, Mapped, Behind, NotedTrue, Archived, Assembled,
        Pieces, Refit!Parts
  <1>2. CASE Refit!Next
    <2>1. ASSUME NEW some \in SUBSET Modules, NEW geo \in [some -> Geoms], Refit!Start(geo)
          PROVE  BuildInv'
      BY <2>1, BuildStart
    <2>2. QED
      BY <1>2, <2>1, BuildCopies, BuildFits, BuildEnds DEF Refit!Next, Pieces
  <1>3. QED
    BY <1>1, <1>2

LEMMA BuildHolds ==
  BuildInv => Refit!BuildIsGeomap /\ Refit!OriginsAreTrue /\ Refit!FitsAreStored
  <1> SUFFICES ASSUME BuildInv
               PROVE  Refit!BuildIsGeomap /\ Refit!OriginsAreTrue /\ Refit!FitsAreStored
    OBVIOUS
  <1>1. Refit!BuildIsGeomap
    <2> SUFFICES ASSUME build.pc = "done", \A x \in Pieces : pieces[x] # "none" => x \in Refit!Wanted
                 PROVE  /\ \A n \in Modules :
                             result[n] = IF n \in DOMAIN build.geo THEN <<n, build.geo[n]>> ELSE "shipped"
                        /\ \A x \in Refit!Wanted : pieces[x] # "torn"
      BY DEF Refit!BuildIsGeomap, Refit!At, Pieces, pieces, build, result
    <2>1. \A x \in Refit!Wanted : x \in Pieces /\ pieces[x] \in Whole
      BY WantedIs DEF BuildInv, Behind, Assembled
    <2>2. ASSUME NEW n \in Modules
          PROVE  result[n] = IF n \in DOMAIN build.geo THEN <<n, build.geo[n]>> ELSE "shipped"
      <3> DEFINE offered == {x \in Pieces : x[1] = n /\ pieces[x] # "none"}
      <3>1. IF offered = {} THEN result[n] = "shipped" ELSE result[n] \in offered
        BY DEF BuildInv, Assembled
      <3>2. \A x \in offered : n \in DOMAIN build.geo /\ x = <<n, build.geo[n]>>
        BY WantedIs
      <3>3. n \in DOMAIN build.geo => <<n, build.geo[n]>> \in offered
        BY <2>1, WantedIs DEF Whole
      <3>4. QED
        BY <3>1, <3>2, <3>3
    <2>3. QED
      BY <2>1, <2>2 DEF Whole
  <1>2. Refit!OriginsAreTrue
    BY DEF BuildInv, NotedTrue, Assembled, Refit!OriginsAreTrue, Refit!At, Whole, Pieces,
      pieces, origins, told, build
  <1>3. Refit!FitsAreStored
    BY DEF BuildInv, Archived, Refit!FitsAreStored, Pieces, pieces, archived, unarchived, build
  <1>4. QED
    BY <1>1, <1>2, <1>3

-----------------------------------------------------------------------------
(* fit-moe (FitMoe).                                                        *)

here == v1
gone == v2
kept == v3
says == v4
moe == v5
shipping == v6
flagged == v7
counted == v8
unkept == v9

Standing == {"none", "torn", "whole"}
Handling == {"put", "ship", "drop"}

MoeTypes ==
  /\ DOMAIN here = MoeShards /\ \A s \in MoeShards : here[s].is \in Standing
  /\ DOMAIN gone = MoeShards
  /\ DOMAIN moe = {"pc", "todo", "at", "fitted", "flags"}
  /\ moe.pc \in {"off", "next", "fit", "done"} \cup Handling

\* A run has the flags it was started with, and a shard at hand from its fit on.
AtHand ==
  /\ moe.pc # "off" => \E f \in flagged : moe.flags = {f}
  /\ moe.pc \in {"next", "done"} => moe.at = {}
  /\ moe.pc \in {"fit"} \cup Handling => \E s \in MoeShards : moe.at = {s}
  /\ moe.pc \in Handling => \A s \in moe.at : here[s].is = "whole"
  /\ moe.pc = "drop" /\ shipping => \A s \in moe.at : gone[s] = here[s]
  /\ moe.pc = "done" => moe.todo = {}

\* Every shard the run has passed is whole here, or not here but shipped.
ShardsPassed ==
  moe.pc # "off" =>
    \A s \in MoeShards \ (moe.todo \cup moe.at) :
      here[s].is = "whole" \/ (here[s].is = "none" /\ gone[s].is # "none")

\* What was shipped is whole; only a run told to ships anything.
ShippedWhole ==
  /\ \A s \in MoeShards : gone[s].is \in {"none", "whole"}
  /\ ~shipping => \A s \in MoeShards : gone[s].is = "none"
  /\ moe.pc = "done" /\ shipping => \A s \in MoeShards : gone[s].is = "whole"

\* Shards, and the config of a finished run, are of flags that were given.
OfFlags ==
  /\ \A s \in MoeShards : here[s].is # "none" => \E f \in flagged : here[s].geom = Fitter!GeomFor(f, s)
  /\ \A s \in MoeShards : gone[s].is # "none" => \E f \in flagged : gone[s].geom = Fitter!GeomFor(f, s)
  /\ moe.pc = "done" => \E f \in flagged : \A s \in MoeShards : says[s] = Fitter!GeomFor(f, s)

FitsKept ==
  \A s \in MoeShards \ unkept :
    /\ gone[s].is # "none" => <<s, gone[s].geom>> \in kept
    /\ here[s].is # "none" => <<s, here[s].geom>> \in kept \/ (moe.pc = "put" /\ s \in moe.at)

MoeInv == MoeTypes /\ AtHand /\ ShardsPassed /\ ShippedWhole /\ OfFlags /\ FitsKept

LEMMA MoeInit == Fitter!Init => MoeInv
  <1> SUFFICES ASSUME Fitter!Init PROVE MoeInv
    OBVIOUS
  <1>1. /\ here = [s \in MoeShards |-> Fitter!Nothing] /\ gone = here /\ moe = Fitter!Off
    BY DEF Fitter!Init, here, gone, moe
  <1>2. moe.pc = "off" /\ DOMAIN moe = {"pc", "todo", "at", "fitted", "flags"}
    BY <1>1 DEF Fitter!Off
  <1>3. \A s \in MoeShards : here[s].is = "none" /\ gone[s].is = "none"
    BY <1>1 DEF Fitter!Nothing
  <1>4. DOMAIN here = MoeShards /\ DOMAIN gone = MoeShards
    BY <1>1
  <1> HIDE DEF here, gone, moe
  <1>5. QED
    BY <1>2, <1>3, <1>4 DEF MoeInv, MoeTypes, AtHand, ShardsPassed, ShippedWhole, OfFlags, FitsKept,
      Handling, Standing

LEMMA TheFlagsAre == MoeInv /\ moe.pc # "off" => Fitter!TheFlags \in flagged
  <1> SUFFICES ASSUME MoeInv, moe.pc # "off" PROVE Fitter!TheFlags \in flagged
    OBVIOUS
  <1>1. PICK f \in flagged : moe.flags = {f}
    BY DEF MoeInv, AtHand
  <1>2. Fitter!TheFlags = CHOOSE g \in moe.flags : TRUE
    BY DEF Fitter!TheFlags, moe
  <1>3. QED
    BY <1>1, <1>2

\* A run starts, with flags of its own; a shard is brought back from elsewhere.
LEMMA MoeStarts ==
  ASSUME MoeInv, NEW f \in Flags, Fitter!Start(f)
  PROVE  MoeInv'
  <1>1. /\ moe.pc \in {"off", "done"}
        /\ moe' = [Fitter!Off EXCEPT !.pc = "next", !.todo = MoeShards, !.flags = {f}]
        /\ flagged' = flagged \cup {f}
        /\ UNCHANGED <<here, gone, kept, says, shipping, unkept>>
    BY DEF Fitter!Start, here, gone, kept, says, moe, shipping, flagged, unkept
  <1>2. /\ moe'.pc = "next" /\ moe'.todo = MoeShards /\ moe'.flags = {f} /\ moe'.at = {}
        /\ DOMAIN moe' = {"pc", "todo", "at", "fitted", "flags"}
    BY <1>1 DEF Fitter!Off
  <1> HIDE DEF here, gone, kept, says, moe, shipping, flagged, unkept
  <1>3. MoeTypes'
    BY <1>1, <1>2 DEF MoeInv, MoeTypes, Handling
  <1>4. AtHand' /\ ShardsPassed'
    BY <1>1, <1>2 DEF AtHand, ShardsPassed, Handling
  <1>5. ShippedWhole' /\ FitsKept'
    BY <1>1, <1>2 DEF MoeInv, ShippedWhole, FitsKept, AtHand
  <1>6. OfFlags'
    BY <1>1, <1>2 DEF MoeInv, OfFlags
  <1>7. QED
    BY <1>3, <1>4, <1>5, <1>6 DEF MoeInv

LEMMA MoeCopied ==
  ASSUME MoeInv, NEW f \in Flags, NEW s \in MoeShards, NEW is \in {"whole", "torn"},
         Fitter!Copied(s, is, f)
  PROVE  MoeInv'
  <1>1. /\ moe.pc \in {"off", "done"}
        /\ here' = [here EXCEPT ![s] = Fitter!Shard(is, Fitter!GeomFor(f, s))]
        /\ kept' = kept \cup {<<s, Fitter!GeomFor(f, s)>>}
        /\ moe' = Fitter!Off
        /\ flagged' = flagged \cup {f}
        /\ UNCHANGED <<gone, says, shipping, unkept>>
    BY DEF Fitter!Copied, here, gone, kept, says, moe, shipping, flagged, unkept
  <1>2. moe'.pc = "off" /\ DOMAIN moe' = {"pc", "todo", "at", "fitted", "flags"}
    BY <1>1 DEF Fitter!Off
  <1>3. /\ DOMAIN here' = MoeShards
        /\ here'[s].is = is /\ here'[s].geom = Fitter!GeomFor(f, s)
        /\ \A t \in MoeShards \ {s} : here'[t] = here[t]
    BY <1>1 DEF MoeInv, MoeTypes, Fitter!Shard
  <1> HIDE DEF here, gone, kept, says, moe, shipping, flagged, unkept
  <1>4. MoeTypes'
    BY <1>1, <1>2, <1>3 DEF MoeInv, MoeTypes, Standing
  <1>5. AtHand' /\ ShardsPassed'
    BY <1>2 DEF AtHand, ShardsPassed, Handling
  <1>6. ShippedWhole'
    BY <1>1, <1>2 DEF MoeInv, ShippedWhole
  <1>7. FitsKept'
    BY <1>1, <1>2, <1>3 DEF MoeInv, FitsKept
  <1>8. OfFlags'
    BY <1>1, <1>2, <1>3 DEF MoeInv, OfFlags
  <1>9. QED
    BY <1>4, <1>5, <1>6, <1>7, <1>8 DEF MoeInv

\* A shard is looked at: skipped, or taken up to be fitted.
LEMMA MoeLooks ==
  ASSUME MoeInv, NEW s \in MoeShards, Fitter!Next_(s)
  PROVE  MoeInv'
  <1>1. /\ moe.pc = "next" /\ s \in moe.todo
        /\ here' = IF here[s].is = "whole" THEN here ELSE [here EXCEPT ![s] = Fitter!Nothing]
        /\ moe' = IF here'[s].is # "none" \/ gone[s].is # "none"
                  THEN [moe EXCEPT !.todo = @ \ {s}]
                  ELSE [moe EXCEPT !.todo = @ \ {s}, !.at = {s}, !.pc = "fit"]
        /\ UNCHANGED <<gone, kept, says, shipping, flagged, unkept>>
    BY DEF Fitter!Next_, Fitter!At, Fitter!There, Fitter!Skip, Fitter!Fitting,
      here, gone, kept, says, moe, shipping, flagged, unkept
  <1>2. /\ DOMAIN here' = MoeShards
        /\ \A t \in MoeShards \ {s} : here'[t] = here[t]
        /\ IF here[s].is = "whole" THEN here'[s] = here[s] ELSE here'[s].is = "none"
    BY <1>1 DEF MoeInv, MoeTypes, Fitter!Nothing
  <1>3. /\ DOMAIN moe' = DOMAIN moe /\ moe'.todo = moe.todo \ {s} /\ moe'.flags = moe.flags
        /\ IF here'[s].is # "none" \/ gone[s].is # "none"
           THEN moe'.pc = "next" /\ moe'.at = moe.at ELSE moe'.pc = "fit" /\ moe'.at = {s}
    BY <1>1 DEF MoeInv, MoeTypes
  <1>4. moe.at = {} /\ moe'.pc \in {"next", "fit"}
    BY <1>1, <1>3 DEF MoeInv, AtHand
  <1> HIDE DEF here, gone, kept, says, moe, shipping, flagged, unkept
  <1>5. MoeTypes'
    BY <1>1, <1>2, <1>3, <1>4 DEF MoeInv, MoeTypes, Standing
  <1>6. AtHand'
    BY <1>1, <1>3, <1>4 DEF MoeInv, AtHand, Handling
  <1>7. ShardsPassed'
    BY <1>1, <1>2, <1>3, <1>4 DEF MoeInv, ShardsPassed
  <1>8. ShippedWhole'
    BY <1>1, <1>4 DEF MoeInv, ShippedWhole
  <1>9. FitsKept'
    BY <1>1, <1>2, <1>4 DEF MoeInv, FitsKept
  <1>10. OfFlags'
    BY <1>1, <1>2, <1>4 DEF MoeInv, OfFlags
  <1>11. QED
    BY <1>5, <1>6, <1>7, <1>8, <1>9, <1>10 DEF MoeInv

\* A run goes on with the shard at hand.
LEMMA MoeGoes ==
  ASSUME MoeInv, NEW pc, moe' = [moe EXCEPT !.pc = pc]
  PROVE  /\ DOMAIN moe' = DOMAIN moe /\ moe'.pc = pc
         /\ moe'.todo = moe.todo /\ moe'.at = moe.at /\ moe'.flags = moe.flags
  BY DEF MoeInv, MoeTypes

LEMMA MoeHandles ==
  ASSUME MoeInv, NEW s \in MoeShards,
         Fitter!Fit(s) \/ Fitter!Put(s) \/ Fitter!Ship(s) \/ Fitter!Drop(s)
  PROVE  MoeInv'
  <1>0. MoeTypes /\ AtHand /\ ShardsPassed /\ ShippedWhole /\ OfFlags /\ FitsKept
    BY DEF MoeInv
  <1>a. moe.pc \in {"fit"} \cup Handling /\ s \in moe.at => moe.at = {s}
    BY <1>0 DEF AtHand
  <1>1. CASE Fitter!Fit(s)
    <2>1. /\ moe.pc = "fit" /\ s \in moe.at
          /\ here' = [here EXCEPT ![s] = Fitter!Shard("whole", Fitter!GeomFor(Fitter!TheFlags, s))]
          /\ moe' = [moe EXCEPT !.pc = "put", !.fitted = @ \cup {s}]
          /\ UNCHANGED <<gone, kept, says, shipping, flagged, unkept>>
      BY <1>1 DEF Fitter!Fit, Fitter!At, here, gone, kept, says, moe, shipping, flagged, unkept
    <2>2. /\ DOMAIN here' = MoeShards
          /\ here'[s].is = "whole" /\ here'[s].geom = Fitter!GeomFor(Fitter!TheFlags, s)
          /\ \A t \in MoeShards \ {s} : here'[t] = here[t]
      BY <1>0, <2>1 DEF MoeTypes, Fitter!Shard
    <2>3. /\ DOMAIN moe' = DOMAIN moe /\ moe'.pc = "put"
          /\ moe'.todo = moe.todo /\ moe'.at = moe.at /\ moe'.flags = moe.flags
      BY <1>0, <2>1 DEF MoeTypes
    <2>4. Fitter!TheFlags \in flagged
      BY <2>1, TheFlagsAre
    <2> HIDE DEF here, gone, kept, says, moe, shipping, flagged, unkept
    <2>5. MoeTypes'
      BY <1>0, <2>1, <2>2, <2>3 DEF MoeTypes, Handling, Standing
    <2>6. AtHand'
      BY <1>0, <1>a, <2>1, <2>2, <2>3 DEF AtHand, Handling
    <2>7. ShardsPassed' /\ ShippedWhole'
      BY <1>0, <1>a, <2>1, <2>2, <2>3 DEF ShardsPassed, ShippedWhole, Handling
    <2>8. OfFlags'
      BY <1>0, <2>1, <2>2, <2>3, <2>4 DEF OfFlags
    <2>9. FitsKept'
      BY <1>0, <2>1, <2>2, <2>3 DEF FitsKept
    <2>10. QED
      BY <2>5, <2>6, <2>7, <2>8, <2>9 DEF MoeInv
  <1>2. CASE Fitter!Put(s)
    <2>1. /\ moe.pc = "put" /\ s \in moe.at
          /\ kept' = kept \cup {<<s, here[s].geom>>}
          /\ moe' = [moe EXCEPT !.pc = "ship"]
          /\ UNCHANGED <<here, gone, says, shipping, flagged, unkept>>
      BY <1>2 DEF Fitter!Put, Fitter!At, here, gone, kept, says, moe, shipping, flagged, unkept
    <2>2. /\ DOMAIN moe' = DOMAIN moe /\ moe'.pc = "ship"
          /\ moe'.todo = moe.todo /\ moe'.at = moe.at /\ moe'.flags = moe.flags
      BY <2>1, MoeGoes
    <2>3. moe.at = {s}
      BY <1>a, <2>1 DEF Handling
    <2> HIDE DEF here, gone, kept, says, moe, shipping, flagged, unkept
    <2>4. MoeTypes' /\ AtHand'
      BY <1>0, <2>1, <2>2 DEF MoeTypes, AtHand, Handling
    <2>5. ShardsPassed' /\ ShippedWhole' /\ OfFlags'
      BY <1>0, <2>1, <2>2 DEF ShardsPassed, ShippedWhole, OfFlags
    <2>6. FitsKept'
      BY <1>0, <2>1, <2>2, <2>3 DEF FitsKept
    <2>7. QED
      BY <2>4, <2>5, <2>6 DEF MoeInv
  <1>3. CASE Fitter!Ship(s)
    <2>1. /\ moe.pc = "ship" /\ s \in moe.at
          /\ gone' = IF shipping THEN [gone EXCEPT ![s] = here[s]] ELSE gone
          /\ moe' = [moe EXCEPT !.pc = "drop"]
          /\ UNCHANGED <<here, kept, says, shipping, flagged, unkept>>
      BY <1>3 DEF Fitter!Ship, Fitter!At, here, gone, kept, says, moe, shipping, flagged, unkept
    <2>2. /\ DOMAIN moe' = DOMAIN moe /\ moe'.pc = "drop"
          /\ moe'.todo = moe.todo /\ moe'.at = moe.at /\ moe'.flags = moe.flags
      BY <2>1, MoeGoes
    <2>3. moe.at = {s} /\ here[s].is = "whole"
      BY <1>0, <1>a, <2>1 DEF AtHand, Handling
    <2>4. /\ DOMAIN gone' = MoeShards
          /\ \A t \in MoeShards \ {s} : gone'[t] = gone[t]
          /\ gone'[s] = IF shipping THEN here[s] ELSE gone[s]
      BY <1>0, <2>1 DEF MoeTypes
    <2> HIDE DEF here, gone, kept, says, moe, shipping, flagged, unkept
    <2>5. MoeTypes'
      BY <1>0, <2>1, <2>2, <2>4 DEF MoeTypes, Handling
    <2>6. AtHand'
      BY <1>0, <2>1, <2>2, <2>3, <2>4 DEF AtHand, Handling
    <2>7. ShardsPassed'
      BY <1>0, <2>1, <2>2, <2>3, <2>4 DEF ShardsPassed
    <2>8. ShippedWhole'
      BY <1>0, <2>1, <2>2, <2>3, <2>4 DEF ShippedWhole
    <2>9. OfFlags'
      BY <1>0, <2>1, <2>2, <2>3, <2>4 DEF OfFlags
    <2>10. FitsKept'
      BY <1>0, <2>1, <2>2, <2>3, <2>4 DEF FitsKept
    <2>11. QED
      BY <2>5, <2>6, <2>7, <2>8, <2>9, <2>10 DEF MoeInv
  <1>4. CASE Fitter!Drop(s)
    <2>1. /\ moe.pc = "drop" /\ s \in moe.at
          /\ here' = IF shipping THEN [here EXCEPT ![s] = Fitter!Nothing] ELSE here
          /\ moe' = [moe EXCEPT !.pc = "next", !.at = {}]
          /\ UNCHANGED <<gone, kept, says, shipping, flagged, unkept>>
      BY <1>4 DEF Fitter!Drop, Fitter!At, here, gone, kept, says, moe, shipping, flagged, unkept
    <2>2. /\ DOMAIN moe' = DOMAIN moe /\ moe'.pc = "next"
          /\ moe'.todo = moe.todo /\ moe'.at = {} /\ moe'.flags = moe.flags
      BY <1>0, <2>1 DEF MoeTypes
    <2>3. /\ moe.at = {s} /\ here[s].is = "whole"
          /\ shipping => gone[s].is = "whole"
      BY <1>0, <1>a, <2>1 DEF AtHand, Handling
    <2>4. /\ DOMAIN here' = MoeShards
          /\ \A t \in MoeShards \ {s} : here'[t] = here[t]
          /\ IF shipping THEN here'[s].is = "none" ELSE here'[s] = here[s]
      BY <1>0, <2>1 DEF MoeTypes, Fitter!Nothing
    <2> HIDE DEF here, gone, kept, says, moe, shipping, flagged, unkept
    <2>5. MoeTypes'
      BY <1>0, <2>1, <2>2, <2>4 DEF MoeTypes, Standing
    <2>6. AtHand'
      BY <1>0, <2>1, <2>2 DEF AtHand, Handling
    <2>7. ShardsPassed'
      BY <1>0, <2>1, <2>2, <2>3, <2>4 DEF ShardsPassed
    <2>8. ShippedWhole'
      BY <1>0, <2>1, <2>2 DEF ShippedWhole
    <2>9. OfFlags'
      BY <1>0, <2>1, <2>2, <2>3, <2>4 DEF OfFlags
    <2>10. FitsKept'
      BY <1>0, <2>1, <2>2, <2>3, <2>4 DEF FitsKept
    <2>11. QED
      BY <2>5, <2>6, <2>7, <2>8, <2>9, <2>10 DEF MoeInv
  <1>5. QED
    BY <1>1, <1>2, <1>3, <1>4

LEMMA MoeEnds ==
  ASSUME MoeInv, Fitter!Finish \/ Fitter!Killed
  PROVE  MoeInv'
  <1>0. MoeTypes /\ AtHand /\ ShardsPassed /\ ShippedWhole /\ OfFlags /\ FitsKept
    BY DEF MoeInv
  <1>1. CASE Fitter!Finish
    <2>1. /\ moe.pc = "next" /\ moe.todo = {}
          /\ says' = [s \in MoeShards |-> Fitter!GeomFor(Fitter!TheFlags, s)]
          /\ gone' = IF shipping THEN [s \in MoeShards |-> IF here[s].is # "none" THEN here[s] ELSE gone[s]]
                     ELSE gone
          /\ moe' = [moe EXCEPT !.pc = "done"]
          /\ UNCHANGED <<here, kept, shipping, flagged, unkept>>
      BY <1>1 DEF Fitter!Finish, Fitter!At, Fitter!There,
        here, gone, kept, says, moe, shipping, flagged, unkept
    <2>2. /\ DOMAIN moe' = DOMAIN moe /\ moe'.pc = "done"
          /\ moe'.todo = moe.todo /\ moe'.at = moe.at /\ moe'.flags = moe.flags
      BY <2>1, MoeGoes
    <2>3. moe.at = {} /\ Fitter!TheFlags \in flagged
      BY <1>0, <2>1, TheFlagsAre DEF AtHand
    <2>4. /\ DOMAIN gone' = MoeShards
          /\ \A s \in MoeShards : gone'[s] = IF shipping /\ here[s].is # "none" THEN here[s] ELSE gone[s]
      BY <1>0, <2>1 DEF MoeTypes
    <2>5. \A s \in MoeShards : says'[s] = Fitter!GeomFor(Fitter!TheFlags, s)
      BY <2>1
    <2>6. \A s \in MoeShards : here[s].is = "whole" \/ (here[s].is = "none" /\ gone[s].is # "none")
      BY <1>0, <2>1, <2>3 DEF ShardsPassed
    <2> HIDE DEF here, gone, kept, says, moe, shipping, flagged, unkept
    <2>7. MoeTypes' /\ AtHand'
      BY <1>0, <2>1, <2>2, <2>3, <2>4 DEF MoeTypes, AtHand, Handling
    <2>8. ShardsPassed' /\ ShippedWhole'
      BY <1>0, <2>1, <2>2, <2>3, <2>4, <2>6 DEF ShardsPassed, ShippedWhole
    <2>9. OfFlags'
      BY <1>0, <2>1, <2>3, <2>4, <2>5 DEF OfFlags
    <2>10. FitsKept'
      BY <1>0, <2>1, <2>2, <2>4 DEF FitsKept
    <2>11. QED
      BY <2>7, <2>8, <2>9, <2>10 DEF MoeInv
  <1>2. CASE Fitter!Killed
    <2>1. /\ unkept' = IF moe.pc = "put" THEN unkept \cup moe.at ELSE unkept
          /\ moe' = Fitter!Off
          /\ UNCHANGED <<here, gone, kept, says, shipping, flagged>>
      BY <1>2 DEF Fitter!Killed, Fitter!At, here, gone, kept, says, moe, shipping, flagged, unkept
    <2>2. moe'.pc = "off" /\ DOMAIN moe' = {"pc", "todo", "at", "fitted", "flags"}
      BY <2>1 DEF Fitter!Off
    <2> HIDE DEF here, gone, kept, says, moe, shipping, flagged, unkept
    <2>3. MoeTypes' /\ AtHand' /\ ShardsPassed'
      BY <1>0, <2>1, <2>2 DEF MoeTypes, AtHand, ShardsPassed, Handling
    <2>4. ShippedWhole' /\ OfFlags' /\ FitsKept'
      BY <1>0, <2>1, <2>2 DEF ShippedWhole, OfFlags, FitsKept
    <2>5. QED
      BY <2>3, <2>4 DEF MoeInv
  <1>3. QED
    BY <1>1, <1>2

LEMMA MoeNext == MoeInv /\ [Fitter!Next]_(Fitter!mvars) => MoeInv'
  <1> SUFFICES ASSUME MoeInv, [Fitter!Next]_(Fitter!mvars)
               PROVE  MoeInv'
    OBVIOUS
  <1>1. CASE UNCHANGED Fitter!mvars
    <2>1. UNCHANGED <<here, gone, kept, says, moe, shipping, flagged, unkept>>
      BY <1>1 DEF Fitter!mvars, here, gone, kept, says, moe, shipping, flagged, unkept
    <2>2. QED
      BY <2>1 DEF MoeInv, MoeTypes, AtHand, ShardsPassed, ShippedWhole, OfFlags, FitsKept
  <1>2. CASE Fitter!Next
    BY <1>2, MoeStarts, MoeCopied, MoeLooks, MoeHandles, MoeEnds DEF Fitter!Next
  <1>3. QED
    BY <1>1, <1>2

LEMMA MoeHolds ==
  MoeInv => Fitter!BuiltIsWhole /\ Fitter!ConfigTellsGeometry /\ Fitter!FitsOutlive
  <1> SUFFICES ASSUME MoeInv
               PROVE  Fitter!BuiltIsWhole /\ Fitter!ConfigTellsGeometry /\ Fitter!FitsOutlive
    OBVIOUS
  <1>1. moe.pc = "done" => \A s \in MoeShards : (IF shipping THEN gone[s] ELSE here[s]).is = "whole"
    BY DEF MoeInv, AtHand, ShardsPassed, ShippedWhole
  <1>2. Fitter!BuiltIsWhole
    BY <1>1 DEF Fitter!BuiltIsWhole, Fitter!At, here, gone, moe, shipping
  <1>3. ASSUME moe.pc = "done", \A f, g \in flagged : f = g, NEW s \in MoeShards
        PROVE  (IF shipping THEN gone[s] ELSE here[s]).geom = says[s]
    <2>1. PICK f \in flagged : \A t \in MoeShards : says[t] = Fitter!GeomFor(f, t)
      BY <1>3 DEF MoeInv, OfFlags
    <2>2. \E g \in flagged : (IF shipping THEN gone[s] ELSE here[s]).geom = Fitter!GeomFor(g, s)
      BY <1>1, <1>3 DEF MoeInv, OfFlags
    <2>3. QED
      BY <1>3, <2>1, <2>2
  <1>4. Fitter!ConfigTellsGeometry
    BY <1>3 DEF Fitter!ConfigTellsGeometry, Fitter!At, here, gone, says, moe, shipping, flagged
  <1>5. Fitter!FitsOutlive
    BY DEF MoeInv, FitsKept, Fitter!FitsOutlive, Fitter!There, gone, kept, unkept
  <1>6. QED
    BY <1>2, <1>4, <1>5

-----------------------------------------------------------------------------
(* reselect (Reselect): what the least of some numbers is.                  *)

LEMMA LeastNat ==
  ASSUME NEW T, T \subseteq Nat, T # {}
  PROVE  \E x \in T : \A y \in T : x <= y
  <1> DEFINE R == OpToRel(<, Nat)
  <1>1. IsWellFoundedOn(R, Nat)
    BY NatLessThanWellFounded
  <1>2. \A x, y \in Nat : <<y, x>> \in R <=> y < x
    BY DEF OpToRel
  <1> HIDE DEF R
  <1>3. PICK x \in T : \A y \in T : ~(<<y, x>> \in R)
    BY <1>1, WFMin
  <1>4. \A y \in T : ~(y < x)
    BY <1>2, <1>3
  <1>5. \A y \in T : x <= y
    BY <1>4
  <1>6. QED
    BY <1>5

\* A sequence of integers has a least one: were there prefixes without, a
\* shortest of them would be one longer than a prefix that has.
LEMMA LeastOfMany ==
  ASSUME NEW n \in Nat \ {0}, NEW d \in [1..n -> Int]
  PROVE  \E k \in 1..n : \A l \in 1..n : d[k] <= d[l]
  <1> DEFINE has(i) == \E k \in 1..i : \A l \in 1..i : d[k] <= d[l]
             bad == {i \in 1..n : ~has(i)}
  <1> SUFFICES ASSUME ~has(n) PROVE FALSE
    OBVIOUS
  <1>1. has(1)
    <2>1. d[1] \in Int /\ \A l \in 1..1 : l = 1
      OBVIOUS
    <2>2. \A l \in 1..1 : d[1] <= d[l]
      BY <2>1
    <2>3. QED
      BY <2>2
  <1>2. n \in bad /\ bad \subseteq Nat
    OBVIOUS
  <1>3. \A i \in bad : i \in 1..n /\ ~has(i)
    OBVIOUS
  <1>4. \A i \in 1..n : i \notin bad => has(i)
    OBVIOUS
  <1> HIDE DEF bad
  <1>5. PICK i \in 1..n : i \in bad /\ \A j \in bad : i <= j
    BY <1>2, <1>3, LeastNat
  <1>6. i \in 2..n /\ ~has(i)
    <2> HIDE DEF has
    <2>1. QED
      BY <1>1, <1>3, <1>5
  <1>7. i - 1 \in 1..n /\ i - 1 \notin bad
    <2>1. i - 1 \in 1..n /\ ~(i <= i - 1)
      BY <1>6
    <2>2. QED
      BY <1>5, <2>1
  <1>8. PICK k \in 1..(i - 1) : \A l \in 1..(i - 1) : d[k] <= d[l]
    BY <1>4, <1>7
  <1> HIDE DEF has
  <1>9. \A l \in 1..i : l \in 1..n /\ d[l] \in Int
    BY <1>6
  <1>10. k \in 1..i /\ \A l \in 1..i : l = i \/ l \in 1..(i - 1)
    BY <1>6, <1>8
  <1>11. \E m \in {k, i} : d[m] <= d[k] /\ d[m] <= d[i]
    BY <1>6, <1>9, <1>10
  <1>12. PICK m \in {k, i} : d[m] <= d[k] /\ d[m] <= d[i]
    BY <1>11
  <1>13. \A l \in 1..i : d[m] <= d[l]
    <2>1. ASSUME NEW l \in 1..i PROVE d[m] <= d[l]
      <3>1. CASE l = i
        BY <1>12, <3>1
      <3>2. CASE l \in 1..(i - 1)
        <4>1. d[k] <= d[l]
          BY <1>8, <3>2
        <4>2. d[m] \in Int /\ d[k] \in Int /\ d[l] \in Int
          BY <1>6, <1>9, <1>10, <1>12
        <4>3. QED
          BY <1>12, <4>1, <4>2
      <3>3. QED
        BY <1>10, <3>1, <3>2
    <2>2. QED
      BY <2>1
  <1>14. m \in 1..i
    BY <1>6, <1>10, <1>12
  <1>15. QED
    BY <1>6, <1>13, <1>14 DEF has

LEMMA MinIs ==
  ASSUME NEW S, S \subseteq Int, NEW x \in S, \A y \in S : x <= y
  PROVE  Reselection!Min(S) = x
  <1>1. Reselection!Min(S) \in S /\ \A y \in S : Reselection!Min(S) <= y
    BY DEF Reselection!Min
  <1> DEFINE least == Reselection!Min(S)
  <1>2. least \in Int /\ x \in Int /\ least <= x /\ x <= least
    BY <1>1
  <1> HIDE DEF least
  <1>3. least = x
    BY <1>2
  <1>4. QED
    BY <1>3 DEF least

LEMMA MaxOfThree ==
  ASSUME NEW a \in Int, NEW b \in Int, NEW c \in Int
  PROVE  Reselection!Max({a, b, c}) \in Int
  <1>1. \E x \in {a, b, c} : \A y \in {a, b, c} : x >= y
    <2>1. CASE a >= b /\ a >= c
      BY <2>1
    <2>2. CASE b >= a /\ b >= c
      BY <2>2
    <2>3. CASE c >= a /\ c >= b
      BY <2>3
    <2>4. QED
      BY <2>1, <2>2, <2>3
  <1>2. QED
    BY <1>1 DEF Reselection!Max

\* The quadratic form of a difference, as reselect_codes sums it.
LEMMA FormOfDifference ==
  ASSUME NEW w1 \in Int, NEW w2 \in Int, NEW c1 \in Int, NEW c2 \in Int,
         NEW g1 \in Int, NEW g2 \in Int, NEW g3 \in Int
  PROVE  (w1 - c1) * (g1 * (w1 - c1) + g2 * (w2 - c2)) + (w2 - c2) * (g2 * (w1 - c1) + g3 * (w2 - c2))
           = (w1 * (g1 * w1 + g2 * w2) + w2 * (g2 * w1 + g3 * w2))
             - 2 * (w1 * (g1 * c1 + g2 * c2) + w2 * (g2 * c1 + g3 * c2))
             + (c1 * (g1 * c1 + g2 * c2) + c2 * (g2 * c1 + g3 * c2))
  OBVIOUS

Matrices == Int \X Int \X Int

\* The codebook has codewords, and an error is a number.
LEMMA CodebookIs ==
  /\ Len(Codebook) \in Nat \ {0} /\ DOMAIN Codebook = 1..Len(Codebook)
  /\ \A k \in DOMAIN Codebook : Codebook[k] \in Rows
  BY SelectAssumption

LEMMA ErrorIs ==
  ASSUME NEW w \in Rows, NEW s \in Int, NEW g \in Matrices, NEW k \in DOMAIN Codebook
  PROVE  LET c == Reselection!Times(s, Codebook[k])
         IN  /\ Reselection!Error(w, s, k, g) \in Int
             /\ Reselection!Form(w, g, w) - 2 * Reselection!Form(w, g, c) + Reselection!Form(c, g, c)
                  = Reselection!Error(w, s, k, g)
  <1> DEFINE c == Reselection!Times(s, Codebook[k])
             c1 == s * Codebook[k][1]
             c2 == s * Codebook[k][2]
  <1>1. Codebook[k][1] \in Int /\ Codebook[k][2] \in Int
    BY CodebookIs DEF Rows
  <1>2. c1 \in Int /\ c2 \in Int
    BY <1>1
  <1>3. c = <<c1, c2>>
    BY DEF Reselection!Times
  <1>4. /\ w[1] \in Int /\ w[2] \in Int /\ g[1] \in Int /\ g[2] \in Int /\ g[3] \in Int
    BY DEF Rows, Matrices
  <1>5. /\ c[1] = c1 /\ c[2] = c2
    BY <1>3
  <1>6. Reselection!Error(w, s, k, g) =
          (w[1] - c1) * (g[1] * (w[1] - c1) + g[2] * (w[2] - c2))
            + (w[2] - c2) * (g[2] * (w[1] - c1) + g[3] * (w[2] - c2))
    BY DEF Reselection!Error, Reselection!Form
  <1>7. /\ Reselection!Form(w, g, w) = w[1] * (g[1] * w[1] + g[2] * w[2]) + w[2] * (g[2] * w[1] + g[3] * w[2])
        /\ Reselection!Form(w, g, c) = w[1] * (g[1] * c1 + g[2] * c2) + w[2] * (g[2] * c1 + g[3] * c2)
        /\ Reselection!Form(c, g, c) = c1 * (g[1] * c1 + g[2] * c2) + c2 * (g[2] * c1 + g[3] * c2)
    BY <1>5 DEF Reselection!Form
  <1> HIDE DEF c, c1, c2
  <1>8. Reselection!Error(w, s, k, g) \in Int
    BY <1>2, <1>4, <1>6
  <1>9. Reselection!Form(w, g, w) - 2 * Reselection!Form(w, g, c) + Reselection!Form(c, g, c)
          = Reselection!Error(w, s, k, g)
    BY <1>2, <1>4, <1>6, <1>7, FormOfDifference
  <1>10. QED
    BY <1>8, <1>9 DEF c

\* The code that is picked has the least error there is.
LEMMA PickIsBest ==
  ASSUME NEW w \in Rows, NEW s \in Int, NEW g \in Matrices
  PROVE  LET k == Reselection!Pick(w, s, g)
         IN  /\ k \in DOMAIN Codebook
             /\ \A l \in DOMAIN Codebook : Reselection!Error(w, s, k, g) <= Reselection!Error(w, s, l, g)
             /\ Reselection!Error(w, s, k, g)
                  = Reselection!Min({Reselection!Error(w, s, l, g) : l \in DOMAIN Codebook})
  <1> DEFINE e(l) == Reselection!Error(w, s, l, g)
             d(l) == LET c == Reselection!Times(s, Codebook[l])
                     IN  Reselection!Form(w, g, w) - 2 * Reselection!Form(w, g, c) + Reselection!Form(c, g, c)
             best == {k \in DOMAIN Codebook : \A l \in DOMAIN Codebook : d(k) <= d(l)}
             f == [l \in 1..Len(Codebook) |-> e(l)]
             k == Reselection!Pick(w, s, g)
  <1>1. \A l \in DOMAIN Codebook : d(l) = e(l) /\ e(l) \in Int
    BY ErrorIs
  <1>2. k = Reselection!Min(best)
    BY DEF Reselection!Pick
  <1> HIDE DEF d, e, k
  <1>3. best = {m \in DOMAIN Codebook : \A l \in DOMAIN Codebook : e(m) <= e(l)}
    BY <1>1
  <1>4. best # {}
    <2>1. f \in [1..Len(Codebook) -> Int] /\ Len(Codebook) \in Nat \ {0}
      BY <1>1, CodebookIs
    <2> HIDE DEF f
    <2>2. PICK m \in 1..Len(Codebook) : \A l \in 1..Len(Codebook) : f[m] <= f[l]
      BY <2>1, LeastOfMany
    <2>3. \A l \in 1..Len(Codebook) : f[l] = e(l)
      BY DEF f
    <2>4. m \in best
      BY <1>3, <2>2, <2>3, CodebookIs
    <2>5. QED
      BY <2>4
  <1>5. k \in best
    <2>1. best \subseteq Nat /\ best \subseteq Int
      BY CodebookIs
    <2> HIDE DEF best
    <2>2. PICK m \in best : \A l \in best : m <= l
      BY <1>4, <2>1, LeastNat
    <2>3. QED
      BY <1>2, <2>1, <2>2, MinIs
  <1>6. k \in DOMAIN Codebook /\ \A l \in DOMAIN Codebook : e(k) <= e(l)
    BY <1>3, <1>5
  <1>7. e(k) = Reselection!Min({e(l) : l \in DOMAIN Codebook})
    <2> DEFINE all == {e(l) : l \in DOMAIN Codebook}
    <2>1. all \subseteq Int /\ e(k) \in all /\ \A y \in all : e(k) <= y
      BY <1>1, <1>6
    <2> HIDE DEF all
    <2>2. e(k) = Reselection!Min(all)
      BY <2>1, MinIs
    <2>3. QED
      BY <2>2 DEF all
  <1>8. QED
    BY <1>6, <1>7 DEF e, k

\* A scale is a number.
LEMMA ScaleIs ==
  ASSUME NEW w \in Rows, NEW m \in Experts, NEW keep
  PROVE  Reselection!Scale(w, m, keep) \in Int
  <1>1. Reselection!Abs(w[1]) \in Int /\ Reselection!Abs(w[2]) \in Int
    BY DEF Reselection!Abs, Rows
  <1>2. Reselection!Max({1, Reselection!Abs(w[1]), Reselection!Abs(w[2])}) \in Int
    BY <1>1, MaxOfThree
  <1>3. BaseScale[m] \in Int
    BY SelectAssumption
  <1>4. QED
    BY <1>2, <1>3 DEF Reselection!Scale

-----------------------------------------------------------------------------
(* reselect: its runs.                                                      *)

weighed == v1
selected == v2
folder == v3
sel == v4
mingled == v6

GramsOf(text) == [m \in Banked |-> Reselection!Gram(text[m])]
BankSet == {[grams |-> GramsOf(text), manifest |-> TRUE] : text \in Texts}
             \cup {[grams |-> <<>>, manifest |-> FALSE]}

\* Flags of a run that could begin, with the banks there are.
Usable(f, bs) ==
  /\ f.bank \in DOMAIN bs /\ f.target \in Targets
  /\ \E text \in Texts : bs[f.bank].grams = GramsOf(text)

Fields == {"is", "code", "scale", "old", "new", "moved", "by"}

\* A part is what one selection made: that of the flags it is by.
Made(m, p, bs) ==
  LET w == p.by.target[m]
      g == bs[p.by.bank].grams[m]
  IN  /\ m \in Banked /\ Usable(p.by, bs)
      /\ p.scale = Reselection!Scale(w, m, p.by.keep)
      /\ p.code = Reselection!Pick(w, p.scale, g)
      /\ p.old = Reselection!Error(w, p.scale, BaseCode[m], g)
      /\ p.new = Reselection!Error(w, p.scale, p.code, g)

SelTypes ==
  /\ weighed \in Seq(BankSet)
  /\ DOMAIN selected = Experts
  /\ sel.at \in {"none", "fit", "saved", "record"}
  /\ sel.at # "none" => DOMAIN sel = {"at", "flags", "mods", "report", "of"}

PartsMade == \A m \in Experts : selected[m].is = "part" => Made(m, selected[m], weighed)

\* A run's report is of the parts there are, by its own flags unless mixed.
Reported ==
  sel.at # "none" =>
    /\ Usable(sel.flags, weighed)
    /\ sel.mods \subseteq Banked
    /\ \A m \in DOMAIN sel.report :
         /\ m \in sel.mods /\ selected[m].is = "part" /\ sel.report[m] = selected[m]
         /\ mingled \/ sel.report[m].by = sel.flags

Saved ==
  sel.at = "saved" =>
    /\ sel.of \in sel.mods /\ sel.of \notin DOMAIN sel.report
    /\ DOMAIN selected[sel.of] = Fields
    /\ Made(sel.of, selected[sel.of], weighed) /\ selected[sel.of].by = sel.flags

FolderMade ==
  /\ sel.at = "record" => folder.is # "none"
  /\ folder.is # "none" =>
       /\ DOMAIN folder = {"is", "tensors", "report", "flags"}
       /\ \A m \in Experts :
            IF m \in DOMAIN folder.report
            THEN /\ Made(m, folder.report[m], weighed)
                 /\ folder.tensors[m].code = folder.report[m].code
                 /\ folder.tensors[m].scale = folder.report[m].scale
                 /\ mingled \/ folder.report[m].by = folder.flags
            ELSE folder.tensors[m] = [code |-> BaseCode[m], scale |-> BaseScale[m]]

SelInv == SelTypes /\ PartsMade /\ Reported /\ Saved /\ FolderMade

LEMMA SelInit == Reselection!Init => SelInv
  <1> SUFFICES ASSUME Reselection!Init PROVE SelInv
    OBVIOUS
  <1>1. /\ weighed = <<>> /\ selected = [m \in Experts |-> Reselection!Nothing]
        /\ folder = Reselection!Nothing /\ sel = Reselection!Idle
    BY DEF Reselection!Init, weighed, selected, folder, sel
  <1>2. sel.at = "none" /\ folder.is = "none" /\ \A m \in Experts : selected[m].is = "none"
    BY <1>1 DEF Reselection!Nothing, Reselection!Idle
  <1>3. SelTypes
    BY <1>1, <1>2 DEF SelTypes
  <1>4. PartsMade /\ Reported /\ Saved /\ FolderMade
    BY <1>2 DEF PartsMade, Reported, Saved, FolderMade
  <1>5. QED
    BY <1>3, <1>4 DEF SelInv

\* What a selection made stays what it made: banks are only added.
LEMMA MadeStays ==
  ASSUME NEW bs, NEW more, DOMAIN bs \subseteq DOMAIN more,
         \A b \in DOMAIN bs : more[b] = bs[b]
  PROVE  /\ \A f : Usable(f, bs) => Usable(f, more)
         /\ \A m, p : Made(m, p, bs) => Made(m, p, more)
  <1>1. \A f : Usable(f, bs) => Usable(f, more) /\ more[f.bank] = bs[f.bank]
    BY DEF Usable
  <1>2. ASSUME NEW m, NEW p, Made(m, p, bs) PROVE Made(m, p, more)
    <2>1. Usable(p.by, more) /\ more[p.by.bank] = bs[p.by.bank]
      BY <1>1, <1>2 DEF Made
    <2>2. QED
      BY <1>2, <2>1 DEF Made
  <1>3. QED
    BY <1>1, <1>2

\* A calibration adds a bank, or the start of one.
LEMMA SelBanks ==
  ASSUME SelInv, (\E text \in Texts : Reselection!Calibrate(text)) \/ Reselection!CalibrateDies
  PROVE  SelInv'
  <1>1. PICK b \in BankSet : weighed' = Append(weighed, b)
    <2>1. ASSUME NEW text \in Texts, Reselection!Calibrate(text)
          PROVE  \E b \in BankSet : weighed' = Append(weighed, b)
      BY <2>1 DEF Reselection!Calibrate, weighed, BankSet, GramsOf
    <2>2. CASE Reselection!CalibrateDies
      BY <2>2 DEF Reselection!CalibrateDies, weighed, BankSet
    <2>3. QED
      BY <2>1, <2>2
  <1>2. UNCHANGED <<selected, folder, sel, mingled>>
    BY DEF Reselection!Calibrate, Reselection!CalibrateDies, selected, folder, sel, mingled
  <1>3. weighed \in Seq(BankSet)
    BY DEF SelInv, SelTypes
  <1>4. /\ weighed' \in Seq(BankSet)
        /\ DOMAIN weighed \subseteq DOMAIN weighed'
        /\ \A i \in DOMAIN weighed : weighed'[i] = weighed[i]
    <2> HIDE DEF weighed
    <2>1. QED
      BY <1>1, <1>3
  <1>5. /\ \A f : Usable(f, weighed) => Usable(f, weighed')
        /\ \A m, p : Made(m, p, weighed) => Made(m, p, weighed')
    BY <1>4, MadeStays
  <1> HIDE DEF weighed, selected, folder, sel, mingled
  <1>6. SelTypes'
    BY <1>2, <1>4 DEF SelInv, SelTypes
  <1>7. PartsMade'
    BY <1>2, <1>5 DEF SelInv, PartsMade
  <1>8. Reported'
    BY <1>2, <1>5 DEF SelInv, Reported
  <1>9. Saved'
    BY <1>2, <1>5 DEF SelInv, Saved
  <1>10. FolderMade'
    BY <1>2, <1>5 DEF SelInv, FolderMade
  <1>11. QED
    BY <1>6, <1>7, <1>8, <1>9, <1>10 DEF SelInv

LEMMA SelBegins ==
  ASSUME SelInv, NEW b \in DOMAIN weighed, NEW t \in Targets, NEW keep \in BOOLEAN,
         NEW chosen \in SUBSET Experts, Reselection!Begin(b, t, keep, chosen)
  PROVE  SelInv'
  <1> DEFINE flags == [bank |-> b, target |-> t, keep |-> keep]
  <1>1. /\ weighed[b].manifest
        /\ folder = Reselection!Nothing
        /\ sel' = [at |-> "fit", flags |-> flags, mods |-> Banked \cap chosen, report |-> <<>>, of |-> "none"]
        /\ UNCHANGED <<weighed, selected, folder, mingled>>
    BY DEF Reselection!Begin, weighed, selected, folder, sel, mingled
  <1>2. /\ sel'.at = "fit" /\ sel'.flags = flags /\ sel'.mods = Banked \cap chosen
        /\ sel'.report = <<>> /\ DOMAIN sel' = {"at", "flags", "mods", "report", "of"}
    BY <1>1
  <1>3. DOMAIN sel'.report = {}
    BY <1>2
  <1>4. Usable(flags, weighed)
    <2>1. weighed[b] \in BankSet
      BY DEF SelInv, SelTypes
    <2>2. PICK text \in Texts : weighed[b] = [grams |-> GramsOf(text), manifest |-> TRUE]
      BY <1>1, <2>1 DEF BankSet
    <2>3. flags.bank = b /\ flags.target = t
      OBVIOUS
    <2> HIDE DEF flags
    <2>4. QED
      BY <2>2, <2>3 DEF Usable
  <1>5. folder.is = "none"
    BY <1>1 DEF Reselection!Nothing
  <1> HIDE DEF weighed, selected, folder, sel, mingled, flags
  <1>6. SelTypes'
    BY <1>1, <1>2 DEF SelInv, SelTypes
  <1>7. PartsMade'
    BY <1>1 DEF SelInv, PartsMade
  <1>8. Reported' /\ Saved'
    BY <1>1, <1>2, <1>3, <1>4 DEF Reported, Saved
  <1>9. FolderMade'
    BY <1>1, <1>2, <1>5 DEF FolderMade
  <1>10. QED
    BY <1>6, <1>7, <1>8, <1>9 DEF SelInv

\* A part that is there is taken up, whatever flags it is by.
LEMMA SelTakesUp ==
  ASSUME SelInv, NEW m \in Experts, Reselection!TakeUp(m)
  PROVE  SelInv'
  <1>1. /\ sel.at = "fit" /\ m \in sel.mods /\ selected[m].is = "part"
        /\ sel' = [sel EXCEPT !.report = Reselection!With(m, selected[m])]
        /\ mingled' = (mingled \/ selected[m].by # sel.flags)
        /\ UNCHANGED <<weighed, selected, folder>>
    BY DEF Reselection!TakeUp, Reselection!Left, Reselection!Reusable, weighed, selected, folder, sel, mingled
  <1>2. /\ DOMAIN sel' = DOMAIN sel /\ sel'.at = "fit" /\ sel'.mods = sel.mods /\ sel'.flags = sel.flags
        /\ sel'.report = [x \in DOMAIN sel.report \cup {m} |-> IF x = m THEN selected[m] ELSE sel.report[x]]
    BY <1>1 DEF SelInv, SelTypes, Reselection!With, sel
  <1>3. /\ mingled => mingled'
        /\ selected[m].by # sel.flags => mingled'
    BY <1>1
  <1>4. /\ DOMAIN sel'.report = DOMAIN sel.report \cup {m}
        /\ sel'.report[m] = selected[m]
        /\ \A x \in DOMAIN sel.report : x # m => sel'.report[x] = sel.report[x]
    BY <1>2
  <1> HIDE DEF weighed, selected, folder, sel, mingled
  <1>5. SelTypes'
    BY <1>1, <1>2 DEF SelInv, SelTypes
  <1>6. PartsMade' /\ Saved'
    BY <1>1, <1>2 DEF SelInv, PartsMade, Saved
  <1>7. Reported'
    BY <1>1, <1>2, <1>3, <1>4 DEF SelInv, Reported
  <1>8. FolderMade'
    BY <1>1, <1>2, <1>3 DEF SelInv, FolderMade
  <1>9. QED
    BY <1>5, <1>6, <1>7, <1>8 DEF SelInv

\* A module is computed and its part saved, without the report that makes it
\* one to take up.
LEMMA SelFits ==
  ASSUME SelInv, NEW m \in Experts, Reselection!FitModule(m)
  PROVE  SelInv'
  <1> DEFINE p == [Reselection!PartOf(m, sel.flags) EXCEPT !.is = "tensors"]
  <1>1. /\ sel.at = "fit" /\ m \in sel.mods /\ m \notin DOMAIN sel.report /\ selected[m].is # "part"
        /\ selected' = [selected EXCEPT ![m] = p]
        /\ sel' = [sel EXCEPT !.at = "saved", !.of = m]
        /\ UNCHANGED <<weighed, folder, mingled>>
    BY DEF Reselection!FitModule, Reselection!Left, Reselection!Reusable, weighed, selected, folder, sel, mingled
  <1>2. /\ DOMAIN sel' = DOMAIN sel /\ sel'.at = "saved" /\ sel'.mods = sel.mods /\ sel'.flags = sel.flags
        /\ sel'.report = sel.report /\ sel'.of = m
    BY <1>1 DEF SelInv, SelTypes
  <1>3. m \in Banked /\ Usable(sel.flags, weighed)
    BY <1>1 DEF SelInv, Reported
  <1>4. p.is = "tensors" /\ DOMAIN p = Fields /\ p.by = sel.flags /\ Made(m, p, weighed)
    <2> DEFINE f == sel.flags
               w == f.target[m]
               g == weighed[f.bank].grams[m]
               s == Reselection!Scale(w, m, f.keep)
               k == Reselection!Pick(w, s, g)
    <2>1. Reselection!PartOf(m, sel.flags) =
            [is |-> "part", code |-> k, scale |-> s,
             old |-> Reselection!Error(w, s, BaseCode[m], g), new |-> Reselection!Error(w, s, k, g),
             moved |-> k # BaseCode[m], by |-> f]
      BY DEF Reselection!PartOf, weighed
    <2> HIDE DEF f, w, g, s, k
    <2>2. /\ p.is = "tensors" /\ DOMAIN p = Fields /\ p.by = f
          /\ p.code = k /\ p.scale = s /\ p.old = Reselection!Error(w, s, BaseCode[m], g)
          /\ p.new = Reselection!Error(w, s, k, g)
      BY <2>1 DEF Fields
    <2> HIDE DEF p
    <2>3. w = p.by.target[m] /\ g = weighed[p.by.bank].grams[m] /\ s = Reselection!Scale(w, m, p.by.keep)
          /\ k = Reselection!Pick(w, s, g)
      BY <2>2 DEF f, w, g, s, k
    <2>4. Made(m, p, weighed)
      BY <1>3, <2>2, <2>3 DEF Made, f
    <2>5. QED
      BY <2>2, <2>4 DEF f
  <1> HIDE DEF p
  <1>5. /\ DOMAIN selected' = Experts /\ selected'[m] = p
        /\ \A x \in Experts \ {m} : selected'[x] = selected[x]
    BY <1>1 DEF SelInv, SelTypes
  <1> HIDE DEF weighed, selected, folder, sel, mingled
  <1>6. SelTypes'
    BY <1>1, <1>2, <1>5 DEF SelInv, SelTypes
  <1>7. PartsMade'
    BY <1>1, <1>4, <1>5 DEF SelInv, PartsMade
  <1>8. Reported'
    BY <1>1, <1>2, <1>5, SelectAssumption DEF SelInv, Reported
  <1>9. Saved'
    BY <1>1, <1>2, <1>4, <1>5 DEF Saved
  <1>10. FolderMade'
    BY <1>1, <1>2 DEF SelInv, FolderMade
  <1>11. QED
    BY <1>6, <1>7, <1>8, <1>9, <1>10 DEF SelInv

LEMMA SelReports ==
  ASSUME SelInv, Reselection!ReportModule
  PROVE  SelInv'
  <1> DEFINE m == sel.of
             p == [selected[m] EXCEPT !.is = "part"]
  <1>1. /\ sel.at = "saved"
        /\ selected' = [selected EXCEPT ![m] = p]
        /\ sel' = [sel EXCEPT !.at = "fit", !.of = "none", !.report = Reselection!With(m, selected'[m])]
        /\ UNCHANGED <<weighed, folder, mingled>>
    BY DEF Reselection!ReportModule, weighed, selected, folder, sel, mingled
  <1>2. /\ m \in sel.mods /\ m \notin DOMAIN sel.report /\ m \in Experts
        /\ DOMAIN selected[m] = Fields /\ Made(m, selected[m], weighed) /\ selected[m].by = sel.flags
    BY <1>1, SelectAssumption DEF SelInv, Saved, Reported
  <1>3. /\ p.is = "part" /\ p.by = selected[m].by /\ p.code = selected[m].code
        /\ p.scale = selected[m].scale /\ p.old = selected[m].old /\ p.new = selected[m].new
    BY <1>2, SMTT(20) DEF Fields
  <1> HIDE DEF p
  <1>4. Made(m, p, weighed)
    BY <1>2, <1>3 DEF Made
  <1>5. /\ DOMAIN selected' = Experts /\ selected'[m] = p
        /\ \A x \in Experts \ {m} : selected'[x] = selected[x]
    BY <1>1, <1>2 DEF SelInv, SelTypes
  <1>6. /\ DOMAIN sel' = DOMAIN sel /\ sel'.at = "fit" /\ sel'.mods = sel.mods /\ sel'.flags = sel.flags
        /\ sel'.report = [x \in DOMAIN sel.report \cup {m} |-> IF x = m THEN p ELSE sel.report[x]]
    BY <1>1, <1>5 DEF SelInv, SelTypes, Reselection!With, sel
  <1>7. /\ DOMAIN sel'.report = DOMAIN sel.report \cup {m}
        /\ sel'.report[m] = p
        /\ \A x \in DOMAIN sel.report : sel'.report[x] = sel.report[x]
    BY <1>2, <1>6
  <1> HIDE DEF weighed, selected, folder, sel, mingled, m
  <1>8. SelTypes'
    BY <1>1, <1>5, <1>6 DEF SelInv, SelTypes
  <1>9. PartsMade'
    BY <1>1, <1>4, <1>5 DEF SelInv, PartsMade
  <1>10. Reported'
    BY <1>1, <1>2, <1>3, <1>5, <1>6, <1>7, SelectAssumption DEF SelInv, Reported
  <1>11. Saved' /\ FolderMade'
    BY <1>1, <1>6 DEF SelInv, Saved, FolderMade
  <1>12. QED
    BY <1>8, <1>9, <1>10, <1>11 DEF SelInv

LEMMA SelAssembles ==
  ASSUME SelInv, Reselection!Assemble
  PROVE  SelInv'
  <1> DEFINE tensors == [m \in Experts |-> IF m \in sel.mods
                                           THEN [code |-> selected[m].code, scale |-> selected[m].scale]
                                           ELSE [code |-> BaseCode[m], scale |-> BaseScale[m]]]
  <1>1. /\ sel.at = "fit" /\ sel.mods \ DOMAIN sel.report = {}
        /\ folder' = [is |-> "open", tensors |-> tensors, report |-> sel.report, flags |-> sel.flags]
        /\ sel' = [sel EXCEPT !.at = "record"]
        /\ UNCHANGED <<weighed, selected, mingled>>
    BY DEF Reselection!Assemble, Reselection!Left, weighed, selected, folder, sel, mingled
  <1>2. /\ DOMAIN folder' = {"is", "tensors", "report", "flags"} /\ folder'.is = "open"
        /\ folder'.tensors = tensors /\ folder'.report = sel.report /\ folder'.flags = sel.flags
    BY <1>1
  <1>3. /\ DOMAIN sel' = DOMAIN sel /\ sel'.at = "record" /\ sel'.mods = sel.mods /\ sel'.flags = sel.flags
        /\ sel'.report = sel.report
    BY <1>1 DEF SelInv, SelTypes
  <1>4. \A m \in Experts :
          IF m \in sel.mods
          THEN tensors[m].code = selected[m].code /\ tensors[m].scale = selected[m].scale
          ELSE tensors[m] = [code |-> BaseCode[m], scale |-> BaseScale[m]]
    OBVIOUS
  <1> HIDE DEF weighed, selected, folder, sel, mingled, tensors
  <1>5. \A m \in Experts :
          IF m \in DOMAIN sel.report
          THEN /\ m \in sel.mods /\ Made(m, selected[m], weighed) /\ sel.report[m] = selected[m]
               /\ mingled \/ selected[m].by = sel.flags
          ELSE m \notin sel.mods
    BY <1>1 DEF SelInv, Reported, PartsMade
  <1>6. SelTypes' /\ Saved'
    BY <1>1, <1>3 DEF SelInv, SelTypes, Saved
  <1>7. PartsMade' /\ Reported'
    BY <1>1, <1>3 DEF SelInv, PartsMade, Reported
  <1>8. FolderMade'
    BY <1>1, <1>2, <1>4, <1>5 DEF FolderMade
  <1>9. QED
    BY <1>6, <1>7, <1>8 DEF SelInv

\* A run ends: with nothing to write, with its record, killed; or its folder
\* is cleared.
LEMMA SelEnds ==
  ASSUME SelInv,
         \/ Reselection!RefuseUnchanged \/ Reselection!Record \/ Reselection!Die
         \/ \E all \in BOOLEAN : Reselection!Clear(all)
  PROVE  SelInv'
  <1>0. SelTypes /\ PartsMade /\ FolderMade
    BY DEF SelInv
  <1>1. CASE Reselection!RefuseUnchanged \/ Reselection!Die
    <2>1. sel' = Reselection!Idle /\ UNCHANGED <<weighed, selected, folder, mingled>>
      BY <1>1 DEF Reselection!RefuseUnchanged, Reselection!Die, weighed, selected, folder, sel, mingled
    <2>2. sel'.at = "none"
      BY <2>1 DEF Reselection!Idle
    <2> HIDE DEF weighed, selected, folder, sel, mingled
    <2>3. SelTypes' /\ PartsMade' /\ Reported' /\ Saved' /\ FolderMade'
      BY <1>0, <2>1, <2>2 DEF SelTypes, PartsMade, Reported, Saved, FolderMade
    <2>4. QED
      BY <2>3 DEF SelInv
  <1>2. CASE Reselection!Record
    <2>1. /\ sel.at = "record" /\ folder' = [folder EXCEPT !.is = "recorded"]
          /\ sel' = Reselection!Idle /\ UNCHANGED <<weighed, selected, mingled>>
      BY <1>2 DEF Reselection!Record, weighed, selected, folder, sel, mingled
    <2>2. sel'.at = "none"
      BY <2>1 DEF Reselection!Idle
    <2>3. folder.is # "none" /\ DOMAIN folder = {"is", "tensors", "report", "flags"}
      BY <1>0, <2>1 DEF FolderMade
    <2>4. /\ DOMAIN folder' = DOMAIN folder /\ folder'.tensors = folder.tensors
          /\ folder'.report = folder.report /\ folder'.flags = folder.flags
      BY <2>1, <2>3
    <2> HIDE DEF weighed, selected, folder, sel, mingled
    <2>5. SelTypes' /\ PartsMade' /\ Reported' /\ Saved'
      BY <1>0, <2>1, <2>2 DEF SelTypes, PartsMade, Reported, Saved
    <2>6. FolderMade'
      BY <1>0, <2>1, <2>2, <2>3, <2>4 DEF FolderMade
    <2>7. QED
      BY <2>5, <2>6 DEF SelInv
  <1>3. ASSUME NEW all \in BOOLEAN, Reselection!Clear(all) PROVE SelInv'
    <2>1. /\ sel = Reselection!Idle /\ folder' = Reselection!Nothing
          /\ selected' = IF all THEN [m \in Experts |-> Reselection!Nothing] ELSE selected
          /\ UNCHANGED <<weighed, sel>>
      BY <1>3 DEF Reselection!Clear, weighed, selected, folder, sel, mingled
    <2>2. sel'.at = "none" /\ folder'.is = "none"
      BY <2>1 DEF Reselection!Idle, Reselection!Nothing
    <2>3. /\ DOMAIN selected' = Experts
          /\ \A m \in Experts : selected'[m].is # "none" => selected'[m] = selected[m]
      BY <1>0, <2>1 DEF SelTypes, Reselection!Nothing
    <2> HIDE DEF weighed, selected, folder, sel, mingled
    <2>4. SelTypes' /\ PartsMade'
      BY <1>0, <2>1, <2>2, <2>3 DEF SelTypes, PartsMade
    <2>5. Reported' /\ Saved' /\ FolderMade'
      BY <2>2 DEF Reported, Saved, FolderMade
    <2>6. QED
      BY <2>4, <2>5 DEF SelInv
  <1>4. QED
    BY <1>1, <1>2, <1>3

LEMMA SelNext == SelInv /\ [Reselection!Next]_(Reselection!rvars) => SelInv'
  <1> SUFFICES ASSUME SelInv, [Reselection!Next]_(Reselection!rvars)
               PROVE  SelInv'
    OBVIOUS
  <1>1. CASE UNCHANGED Reselection!rvars
    <2>1. UNCHANGED <<weighed, selected, folder, sel, mingled>>
      BY <1>1 DEF Reselection!rvars, weighed, selected, folder, sel, mingled
    <2>2. QED
      BY <2>1 DEF SelInv, SelTypes, PartsMade, Reported, Saved, FolderMade
  <1>2. CASE Reselection!Next
    <2>1. \/ (\E text \in Texts : Reselection!Calibrate(text)) \/ Reselection!CalibrateDies
          \/ \E b \in DOMAIN weighed, t \in Targets, keep \in BOOLEAN, chosen \in SUBSET Experts :
               Reselection!Begin(b, t, keep, chosen)
          \/ \E m \in Experts : Reselection!TakeUp(m) \/ Reselection!FitModule(m)
          \/ Reselection!ReportModule \/ Reselection!Assemble
          \/ (\/ Reselection!RefuseUnchanged \/ Reselection!Record \/ Reselection!Die
              \/ \E all \in BOOLEAN : Reselection!Clear(all))
      BY <1>2 DEF Reselection!Next, weighed
    <2>2. QED
      BY <2>1, SelBanks, SelBegins, SelTakesUp, SelFits, SelReports, SelAssembles, SelEnds
  <1>3. QED
    BY <1>1, <1>2

LEMMA SelHolds == SelInv => Reselection!SelectedIsBest
  <1> SUFFICES ASSUME SelInv, folder.is = "recorded", NEW m \in Experts
               PROVE  IF m \in DOMAIN folder.report
                      THEN LET r == folder.report[m]
                               w == r.by.target[m]
                               g == weighed[r.by.bank].grams[m]
                           IN  /\ folder.tensors[m].scale = Reselection!Scale(w, m, r.by.keep)
                               /\ Reselection!Error(w, folder.tensors[m].scale, folder.tensors[m].code, g)
                                    = Reselection!Least(m, r.by)
                               /\ r.new = Reselection!Least(m, r.by) /\ r.new <= r.old
                               /\ mingled \/ r.by = folder.flags
                      ELSE folder.tensors[m] = [code |-> BaseCode[m], scale |-> BaseScale[m]]
    BY DEF Reselection!SelectedIsBest, folder, weighed, mingled
  <1>1. IF m \in DOMAIN folder.report
        THEN /\ Made(m, folder.report[m], weighed)
             /\ folder.tensors[m].code = folder.report[m].code
             /\ folder.tensors[m].scale = folder.report[m].scale
             /\ mingled \/ folder.report[m].by = folder.flags
        ELSE folder.tensors[m] = [code |-> BaseCode[m], scale |-> BaseScale[m]]
    BY DEF SelInv, FolderMade
  <1>2. ASSUME m \in DOMAIN folder.report
        PROVE  LET r == folder.report[m]
                   w == r.by.target[m]
                   g == weighed[r.by.bank].grams[m]
               IN  /\ r.scale = Reselection!Scale(w, m, r.by.keep)
                   /\ Reselection!Error(w, r.scale, r.code, g) = Reselection!Least(m, r.by)
                   /\ r.new = Reselection!Least(m, r.by) /\ r.new <= r.old
    <2> DEFINE r == folder.report[m]
               w == r.by.target[m]
               g == weighed[r.by.bank].grams[m]
               s == Reselection!Scale(w, m, r.by.keep)
               k == Reselection!Pick(w, s, g)
    <2>1. Reselection!Least(m, r.by)
            = Reselection!Min({Reselection!Error(w, s, l, g) : l \in DOMAIN Codebook})
      BY DEF Reselection!Least, weighed
    <2>2. Made(m, r, weighed)
      BY <1>1, <1>2
    <2> HIDE DEF r
    <2>3. /\ m \in Banked /\ Usable(r.by, weighed)
          /\ r.scale = s /\ r.code = k
          /\ r.old = Reselection!Error(w, s, BaseCode[m], g)
          /\ r.new = Reselection!Error(w, s, k, g)
      BY <2>2 DEF Made
    <2>4. w \in Rows /\ g \in Matrices
      BY <2>3, SelectAssumption DEF Usable, GramsOf, Matrices
    <2> HIDE DEF w, g
    <2>5. s \in Int /\ BaseCode[m] \in DOMAIN Codebook
      BY <2>3, <2>4, ScaleIs, SelectAssumption
    <2> HIDE DEF s
    <2>6. /\ k \in DOMAIN Codebook
          /\ \A l \in DOMAIN Codebook : Reselection!Error(w, s, k, g) <= Reselection!Error(w, s, l, g)
          /\ Reselection!Error(w, s, k, g)
               = Reselection!Min({Reselection!Error(w, s, l, g) : l \in DOMAIN Codebook})
      BY <2>4, <2>5, PickIsBest
    <2> HIDE DEF k
    <2>7. /\ r.scale = s
          /\ Reselection!Error(w, r.scale, r.code, g) = Reselection!Least(m, r.by)
          /\ r.new = Reselection!Least(m, r.by) /\ r.new <= r.old
      BY <2>1, <2>3, <2>5, <2>6
    <2>8. QED
      BY <2>7 DEF r, w, g, s
  <1>3. QED
    BY <1>1, <1>2

-----------------------------------------------------------------------------
(* Build records (Provenance): sequences of what is still to be written.    *)

Among(x, s) == \E i \in DOMAIN s : s[i] = x
Distinct(s) == \A i, j \in DOMAIN s : s[i] = s[j] => i = j

LEMMA JoinIs ==
  ASSUME NEW S, NEW s \in Seq(S), NEW t \in Seq(S), Distinct(s), Distinct(t),
         \A x \in S : ~(Among(x, s) /\ Among(x, t))
  PROVE  /\ s \o t \in Seq(S) /\ Distinct(s \o t)
         /\ \A x : Among(x, s \o t) <=> Among(x, s) \/ Among(x, t)
  <1> DEFINE u == s \o t
             m == Len(s)
             n == Len(t)
  <1>1. /\ m \in Nat /\ n \in Nat /\ DOMAIN s = 1..m /\ DOMAIN t = 1..n
        /\ \A i \in 1..m : s[i] \in S
        /\ \A i \in 1..n : t[i] \in S
    OBVIOUS
  <1>2. /\ u \in Seq(S) /\ Len(u) = m + n
        /\ \A i \in 1..(m + n) : u[i] = IF i <= m THEN s[i] ELSE t[i - m]
    BY ConcatProperties
  <1>3. DOMAIN u = 1..(m + n)
    BY <1>2
  <1> HIDE DEF u, m, n
  <1>4. ASSUME NEW i \in 1..(m + n)
        PROVE  (i \in 1..m /\ u[i] = s[i]) \/ (i - m \in 1..n /\ u[i] = t[i - m])
    BY <1>1, <1>2
  <1>5. \A i \in 1..m : i \in 1..(m + n) /\ u[i] = s[i]
    BY <1>1, <1>2
  <1>6. \A i \in 1..n : m + i \in 1..(m + n) /\ u[m + i] = t[i]
    <2>1. \A i \in 1..n : m + i \in 1..(m + n) /\ ~(m + i <= m) /\ (m + i) - m = i
      BY <1>1
    <2>2. QED
      BY <1>2, <2>1
  <1>7. \A x : Among(x, u) <=> Among(x, s) \/ Among(x, t)
    <2>1. ASSUME NEW x, Among(x, u) PROVE Among(x, s) \/ Among(x, t)
      BY <1>1, <1>3, <1>4, <2>1 DEF Among
    <2>2. ASSUME NEW x, Among(x, s) \/ Among(x, t) PROVE Among(x, u)
      BY <1>1, <1>3, <1>5, <1>6, <2>2 DEF Among
    <2>3. QED
      BY <2>1, <2>2
  <1>8. Distinct(u)
    <2> SUFFICES ASSUME NEW i \in 1..(m + n), NEW j \in 1..(m + n), u[i] = u[j]
                 PROVE  i = j
      BY <1>3 DEF Distinct
    <2>1. CASE i \in 1..m /\ u[i] = s[i] /\ j \in 1..m /\ u[j] = s[j]
      BY <1>1, <2>1 DEF Distinct
    <2>2. CASE i - m \in 1..n /\ u[i] = t[i - m] /\ j - m \in 1..n /\ u[j] = t[j - m]
      <3>1. i - m = j - m
        BY <1>1, <2>2 DEF Distinct
      <3>2. QED
        BY <1>1, <3>1
    <2>3. ASSUME NEW k \in 1..m, NEW l \in 1..n, s[k] = t[l] PROVE FALSE
      BY <1>1, <2>3 DEF Among
    <2>4. QED
      BY <1>4, <2>1, <2>2, <2>3
  <1>9. QED
    BY <1>2, <1>7, <1>8 DEF u

\* Of what is to be written, the head is the next, and the tail what is left.
LEMMA TodoIs ==
  ASSUME NEW S, NEW s \in Seq(S), s # <<>>, Distinct(s)
  PROVE  /\ Head(s) \in S /\ Among(Head(s), s)
         /\ Tail(s) \in Seq(S) /\ Distinct(Tail(s))
         /\ \A x : Among(x, Tail(s)) <=> Among(x, s) /\ x # Head(s)
         /\ Len(s) # 1 => Tail(s) # <<>>
         /\ Len(s) = 1 => \A x : Among(x, s) => x = Head(s)
  <1> DEFINE u == Tail(s)
             m == Len(s)
  <1>1. /\ m \in Nat \ {0} /\ DOMAIN s = 1..m /\ \A i \in 1..m : s[i] \in S
    OBVIOUS
  <1>2. /\ u \in Seq(S) /\ Len(u) = m - 1
        /\ \A i \in 1..(m - 1) : u[i] = s[i + 1]
        /\ Head(s) = s[1]
    OBVIOUS
  <1>3. DOMAIN u = 1..(m - 1)
    BY <1>1, <1>2
  <1>4. m # 1 => u # <<>>
    <2>1. m # 1 => Len(u) # 0
      BY <1>1, <1>2
    <2>2. QED
      BY <2>1, EmptySeq
  <1> HIDE DEF u, m
  <1>5. \A i \in 1..(m - 1) : i + 1 \in 1..m /\ i + 1 # 1
    BY <1>1
  <1>6. \A i \in 1..m : i = 1 \/ (i - 1 \in 1..(m - 1) /\ (i - 1) + 1 = i)
    BY <1>1
  <1>7. 1 \in 1..m
    BY <1>1
  <1>8. \A x : Among(x, u) <=> Among(x, s) /\ x # s[1]
    <2>1. ASSUME NEW x, Among(x, u) PROVE Among(x, s) /\ x # s[1]
      <3>1. PICK i \in 1..(m - 1) : u[i] = x
        BY <1>3, <2>1 DEF Among
      <3>2. i + 1 \in 1..m /\ i + 1 # 1 /\ s[i + 1] = x
        BY <1>2, <1>5, <3>1
      <3>3. QED
        BY <1>1, <1>7, <3>2 DEF Among, Distinct
    <2>2. ASSUME NEW x, Among(x, s), x # s[1] PROVE Among(x, u)
      <3>1. PICK i \in 1..m : s[i] = x
        BY <1>1, <2>2 DEF Among
      <3>2. i - 1 \in 1..(m - 1) /\ (i - 1) + 1 = i
        BY <1>6, <2>2, <3>1
      <3>3. u[i - 1] = x
        BY <1>2, <3>1, <3>2
      <3>4. QED
        BY <1>3, <3>2, <3>3 DEF Among
    <2>3. QED
      BY <2>1, <2>2
  <1>9. Distinct(u)
    <2> SUFFICES ASSUME NEW i \in 1..(m - 1), NEW j \in 1..(m - 1), u[i] = u[j]
                 PROVE  i = j
      BY <1>3 DEF Distinct
    <2>1. i + 1 = j + 1
      BY <1>1, <1>2, <1>5, SMTT(20) DEF Distinct
    <2>2. QED
      BY <1>1, <2>1
  <1>10. m = 1 => \A x : Among(x, s) => x = s[1]
    BY <1>1 DEF Among
  <1>11. Among(s[1], s)
    BY <1>1, <1>7 DEF Among
  <1>12. QED
    BY <1>1, <1>2, <1>4, <1>7, <1>8, <1>9, <1>10, <1>11 DEF u, m

-----------------------------------------------------------------------------
(* Build records: the record, its history and who names it.                 *)

bytes == v1
cfg == v2
rec == v3
past == v4
named == v5
doing == v6
spend == v7
standing == v8
severed == v9

AnyRec == [is : {"record"}, id : Nat, prev : Nat, outs : [RecordFiles -> Nat],
           paths : {"portable", "local"}]
NoRec == {Records!Nothing, Records!Torn}
Line == AnyRec \cup {Records!Torn, Records!Spoilt}

\* The ids of a history and a record, and those they name.
Pids(h) == {h[i].id : i \in DOMAIN h}
Pprevs(h) == {h[i].prev : i \in DOMAIN h}
Rids(r) == IF r \in AnyRec THEN {r.id} ELSE {}
Rprevs(r) == IF r \in AnyRec THEN {r.prev} ELSE {}
Has(h, r) == Pids(h) \cup Rids(r)

\* The ids children hold, and those the records name, are found.
Chained(h, r, c) == c \cup ((Pprevs(h) \cup Rprevs(r)) \ {0}) \subseteq Has(h, r)
Tells(r, b) == r \in AnyRec /\ r.outs = b

Writes == {<<"history", "record">>, <<"record">>}
What == {"record", "history", "config"}
NoJob == {Records!Idle}
ToolJob == [does : {"record"}, id : Nat, todo : Writes]
AmendJob == [does : {"amend"}, id : Nat, names : SUBSET RecordFiles, todo : Writes]
PortJob == [does : {"portable"}, rec : AnyRec \cup {Records!Nothing}, hist : Seq(AnyRec),
            todo : Seq(What)]

RecTypes ==
  /\ bytes \in [RecordFiles -> Nat] /\ cfg \in BOOLEAN
  /\ rec \in AnyRec \cup NoRec
  /\ past \in Seq(Line)
  /\ spend \in [edits : Nat, jobs : Nat]
  /\ doing \in NoJob \cup ToolJob \cup AmendJob \cup PortJob

\* The history of an artifact that no command was killed with.
Intact == ~severed => past \in Seq(AnyRec)

\* A command at work: the record it replaces is whole, and in the history
\* before the new one is written.
Works ==
  /\ doing \notin NoJob /\ (doing \in ToolJob => doing.todo = <<"record">>) => rec # Records!Torn
  /\ doing \in AmendJob => rec \in AnyRec
  /\ ~severed /\ doing \in ToolJob \cup AmendJob /\ doing.todo = <<"record">> =>
       Rids(rec) \subseteq Pids(past)
  /\ doing \in PortJob => doing.todo # <<>> /\ Distinct(doing.todo)

\* What a --portable at work leaves when it is through.
FinalRec == IF doing \in PortJob /\ Among("record", doing.todo) THEN doing.rec ELSE rec
FinalPast == IF doing \in PortJob /\ Among("history", doing.todo) THEN doing.hist ELSE past
FinalBytes == IF doing \in PortJob /\ Among("config", doing.todo)
              THEN [bytes EXCEPT !["config"] = @ + 1] ELSE bytes

Traces == ~severed => Chained(FinalPast, FinalRec, named) /\ Rids(rec) \subseteq Has(FinalPast, FinalRec)
Stands == standing => doing \notin ToolJob /\ Tells(FinalRec, FinalBytes)

RecInv == RecTypes /\ Intact /\ Works /\ Traces /\ Stands

LEMMA JobsDiffer ==
  /\ NoJob = {Records!Idle}
  /\ \A j \in NoJob : j.does = "none"
  /\ \A j \in ToolJob : j.does = "record" /\ j \notin NoJob \cup AmendJob \cup PortJob
  /\ \A j \in AmendJob : j.does = "amend" /\ j \notin NoJob \cup ToolJob \cup PortJob
  /\ \A j \in PortJob : j.does = "portable" /\ j \notin NoJob \cup ToolJob \cup AmendJob
  <1>1. \A j \in NoJob : j.does = "none"
    BY DEF NoJob, Records!Idle
  <1>2. \A j \in ToolJob : j.does = "record"
    BY DEF ToolJob
  <1>3. \A j \in AmendJob : j.does = "amend"
    BY DEF AmendJob
  <1>4. \A j \in PortJob : j.does = "portable"
    BY DEF PortJob
  <1>5. NoJob = {Records!Idle}
    BY DEF NoJob
  <1>6. QED
    BY <1>1, <1>2, <1>3, <1>4, <1>5

LEMMA RecordsDiffer ==
  /\ \A r \in AnyRec : r \notin NoRec /\ r # Records!Spoilt
  /\ Records!Nothing # Records!Torn
  /\ \A r \in NoRec : Rids(r) = {} /\ Rprevs(r) = {}
  <1>1. \A r \in AnyRec : r.is = "record"
    BY DEF AnyRec
  <1>2. Records!Nothing.is = "none" /\ Records!Torn.is = "torn" /\ Records!Spoilt.is = "spoilt"
    BY DEF Records!Nothing, Records!Torn, Records!Spoilt
  <1>3. QED
    BY <1>1, <1>2 DEF NoRec, Rids, Rprevs

\* Portable keeps a record's id and what it names; the history it makes of a
\* history finds and names the same.
LEMMA PortableIs ==
  ASSUME NEW r \in AnyRec
  PROVE  /\ Records!Portable(r) \in AnyRec
         /\ Records!Portable(r).id = r.id /\ Records!Portable(r).prev = r.prev
         /\ Records!Portable(r).outs = r.outs
  BY DEF AnyRec, Records!Portable

Plain(h) == [i \in DOMAIN h |-> Records!Portable(h[i])]

LEMMA PlainIs ==
  ASSUME NEW h \in Seq(AnyRec)
  PROVE  Plain(h) \in Seq(AnyRec) /\ Pids(Plain(h)) = Pids(h) /\ Pprevs(Plain(h)) = Pprevs(h)
  <1>1. /\ DOMAIN h = 1..Len(h) /\ Len(h) \in Nat
        /\ \A i \in DOMAIN h : h[i] \in AnyRec
    OBVIOUS
  <1>2. /\ DOMAIN Plain(h) = DOMAIN h
        /\ \A i \in DOMAIN h : /\ Plain(h)[i] \in AnyRec
                               /\ Plain(h)[i].id = h[i].id /\ Plain(h)[i].prev = h[i].prev
    BY <1>1, PortableIs DEF Plain
  <1>3. Plain(h) \in Seq(AnyRec)
    <2>1. Plain(h) = [i \in 1..Len(h) |-> Plain(h)[i]]
      BY <1>1 DEF Plain
    <2>2. QED
      BY <1>1, <1>2, <2>1, IsASeq
  <1>4. QED
    BY <1>2, <1>3 DEF Pids, Pprevs

\* A history with one more record.
LEMMA OneMore ==
  ASSUME NEW h \in Seq(AnyRec), NEW r \in AnyRec
  PROVE  /\ Append(h, r) \in Seq(AnyRec) /\ h \o <<r>> = Append(h, r)
         /\ Pids(Append(h, r)) = Pids(h) \cup {r.id}
         /\ Pprevs(Append(h, r)) = Pprevs(h) \cup {r.prev}
  <1> DEFINE g == Append(h, r)
             n == Len(h)
  <1>1. /\ n \in Nat /\ DOMAIN h = 1..n
    OBVIOUS
  <1>2. g \in Seq(AnyRec) /\ Len(g) = n + 1 /\ g[n + 1] = r /\ \A i \in 1..n : g[i] = h[i]
    OBVIOUS
  <1>3. DOMAIN g = 1..(n + 1)
    BY <1>2
  <1>4. h \o <<r>> = g
    BY AppendIsConcat
  <1> HIDE DEF g, n
  <1>5. \A i : i \in 1..(n + 1) <=> i \in 1..n \/ i = n + 1
    BY <1>1
  <1>6. Pids(g) = Pids(h) \cup {r.id}
    BY <1>1, <1>2, <1>3, <1>5 DEF Pids
  <1>7. Pprevs(g) = Pprevs(h) \cup {r.prev}
    BY <1>1, <1>2, <1>3, <1>5 DEF Pprevs
  <1>8. QED
    BY <1>2, <1>4, <1>6, <1>7 DEF g

LEMMA WritesAre ==
  /\ <<"history", "record">> # <<"record">>
  /\ Tail(<<"history", "record">>) = <<"record">>
  /\ <<"record">> \in Writes /\ <<"history", "record">> \in Writes
  <1>1. Len(<<"history", "record">>) = 2 /\ Len(<<"record">>) = 1
    OBVIOUS
  <1>2. <<"history", "record">> # <<"record">>
    BY <1>1
  <1>3. Tail(<<"history", "record">>) = <<"record">>
    OBVIOUS
  <1>4. QED
    BY <1>2, <1>3 DEF Writes

\* A job is counted; its number is the id of its record.
LEMMA JobCounts ==
  ASSUME NEW s \in [edits : Nat, jobs : Nat]
  PROVE  s.jobs + 1 \in Nat /\ [s EXCEPT !.jobs = @ + 1] \in [edits : Nat, jobs : Nat]
  OBVIOUS

\* Without a --portable at work, what is to be left is what is there.
LEMMA FinalIs ==
  /\ doing \notin PortJob => FinalRec = rec /\ FinalPast = past /\ FinalBytes = bytes
  /\ (doing \notin PortJob)' => FinalRec' = rec' /\ FinalPast' = past' /\ FinalBytes' = bytes'
  BY DEF FinalRec, FinalPast, FinalBytes

LEMMA RecInit == Records!Init => RecInv
  <1> SUFFICES ASSUME Records!Init PROVE RecInv
    OBVIOUS
  <1>1. /\ cfg \in BOOLEAN
        /\ bytes = [f \in RecordFiles |-> 1] /\ rec = Records!Nothing /\ past = <<>> /\ named = {}
        /\ doing = Records!Idle /\ spend = [edits |-> 0, jobs |-> 0] /\ standing = FALSE
    BY DEF Records!Init, bytes, cfg, rec, past, named, doing, spend, standing
  <1>2. doing \in NoJob /\ doing \notin ToolJob \cup AmendJob \cup PortJob
    BY <1>1, JobsDiffer
  <1>3. RecTypes
    BY <1>1, <1>2 DEF RecTypes, NoRec
  <1>4. Pids(past) = {} /\ Pprevs(past) = {} /\ Rids(rec) = {} /\ Rprevs(rec) = {}
    BY <1>1, RecordsDiffer DEF Pids, Pprevs, NoRec
  <1>5. Intact /\ Works /\ Stands
    BY <1>1, <1>2 DEF Intact, Works, Stands
  <1>6. Traces
    BY <1>1, <1>2, <1>4, FinalIs DEF Traces, Chained, Has
  <1>7. QED
    BY <1>3, <1>5, <1>6 DEF RecInv

\* A job of a tool or an amendment begins.
LEMMA RecToolWrites ==
  ASSUME RecInv, NEW f \in RecordFiles, NEW path \in BOOLEAN, Records!ToolWrites(f, path)
  PROVE  RecInv'
  <1>1. /\ doing = Records!Idle
        /\ doing' = [does |-> "record", id |-> spend.jobs + 1, todo |-> <<"history", "record">>]
        /\ spend' = [spend EXCEPT !.jobs = @ + 1]
        /\ bytes' = [bytes EXCEPT ![f] = @ + 1] /\ standing' = FALSE
        /\ cfg' = IF f = "config" THEN path ELSE cfg
        /\ UNCHANGED <<rec, past, named, severed>>
    BY DEF Records!ToolWrites, Records!BeginJob, Records!Fresh, bytes, cfg, rec, past, named, doing, spend,
           standing, severed
  <1>2. spend.jobs + 1 \in Nat /\ spend' \in [edits : Nat, jobs : Nat]
    <2>1. spend \in [edits : Nat, jobs : Nat]
      BY DEF RecInv, RecTypes
    <2>2. QED
      BY <1>1, <2>1, JobCounts
  <1>3. doing' \in ToolJob /\ doing' \notin NoJob \cup AmendJob \cup PortJob
        /\ doing'.todo = <<"history", "record">>
    BY <1>1, <1>2, JobsDiffer, WritesAre DEF ToolJob
  <1>4. bytes' \in [RecordFiles -> Nat] /\ cfg' \in BOOLEAN
    BY <1>1 DEF RecInv, RecTypes
  <1>5. RecTypes'
    BY <1>1, <1>2, <1>3, <1>4 DEF RecInv, RecTypes
  <1>6. Intact' /\ Works'
    BY <1>1, <1>3, WritesAre DEF RecInv, Intact, Works
  <1>7. Traces'
    BY <1>1, <1>3, JobsDiffer, FinalIs DEF RecInv, Traces
  <1>8. Stands'
    BY <1>1 DEF Stands
  <1>9. QED
    BY <1>5, <1>6, <1>7, <1>8 DEF RecInv

LEMMA RecAmend ==
  ASSUME RecInv, NEW names \in SUBSET RecordFiles, Records!Amend(names)
  PROVE  RecInv'
  <1>1. /\ doing = Records!Idle /\ rec \notin NoRec
        /\ doing' = [does |-> "amend", id |-> spend.jobs + 1, names |-> names,
                     todo |-> <<"history", "record">>]
        /\ spend' = [spend EXCEPT !.jobs = @ + 1]
        /\ UNCHANGED <<bytes, cfg, rec, past, named, standing, severed>>
    BY DEF Records!Amend, Records!BeginJob, Records!Fresh, Records!Readable, NoRec, bytes, cfg, rec, past,
           named, doing, spend, standing, severed
  <1>2. spend.jobs + 1 \in Nat /\ spend' \in [edits : Nat, jobs : Nat]
    <2>1. spend \in [edits : Nat, jobs : Nat]
      BY DEF RecInv, RecTypes
    <2>2. QED
      BY <1>1, <2>1, JobCounts
  <1>3. doing' \in AmendJob /\ doing' \notin NoJob \cup ToolJob \cup PortJob
        /\ doing'.todo = <<"history", "record">>
    BY <1>1, <1>2, JobsDiffer, WritesAre DEF AmendJob
  <1>4. RecTypes'
    BY <1>1, <1>2, <1>3 DEF RecInv, RecTypes
  <1>5. Intact' /\ Works'
    BY <1>1, <1>3, WritesAre, RecordsDiffer DEF RecInv, RecTypes, NoRec, Intact, Works
  <1>6. Traces'
    BY <1>1, <1>3, JobsDiffer, FinalIs DEF RecInv, Traces
  <1>7. Stands'
    BY <1>1, <1>3, JobsDiffer, FinalIs DEF RecInv, Stands
  <1>8. QED
    BY <1>4, <1>5, <1>6, <1>7 DEF RecInv

\* The lines of a history, and what a writer makes of them.
LEMMA LinesAre ==
  ASSUME past \in Seq(Line)
  PROVE  /\ Records!Lines \in Seq(Line) /\ Records!Mended \in Seq(Line)
         /\ past \in Seq(AnyRec) => ~Records!Unended
         /\ \A k \in 0..Len(Records!Mended) : SubSeq(Records!Mended, 1, k) \in Seq(Line)
  <1>1. Len(past) \in Nat /\ (past # <<>> => Len(past) - 1 \in Nat)
    BY EmptySeq
  <1>2. Records!Torn \in Line /\ Records!Spoilt \in Line
    BY DEF Line
  <1>3. Records!Lines \in Seq(Line)
    <2>1. CASE Records!Unended
      <3>1. past # <<>>
        BY <2>1 DEF Records!Unended, past
      <3>2. SubSeq(past, 1, Len(past) - 1) \in Seq(Line)
        BY <1>1, <3>1
      <3>3. QED
        BY <2>1, <3>2 DEF Records!Lines, past
    <2>2. QED
      BY <2>1 DEF Records!Lines, past
  <1>4. Records!Mended \in Seq(Line)
    <2>1. Append(Records!Lines, Records!Spoilt) \in Seq(Line)
      BY <1>2, <1>3
    <2>2. QED
      BY <2>1 DEF Records!Mended, past
  <1>5. past \in Seq(AnyRec) => ~Records!Unended
    <2> SUFFICES ASSUME past \in Seq(AnyRec), Records!Unended
                 PROVE  FALSE
      OBVIOUS
    <2>1. past # <<>> /\ past[Len(past)] = Records!Torn
      BY DEF Records!Unended, past
    <2>2. past[Len(past)] \in AnyRec
      BY <1>1, <2>1
    <2>3. QED
      BY <2>1, <2>2, RecordsDiffer DEF NoRec
  <1>6. ASSUME NEW k \in 0..Len(Records!Mended)
        PROVE  SubSeq(Records!Mended, 1, k) \in Seq(Line)
    <2> DEFINE m == Records!Mended
    <2>1. m \in Seq(Line) /\ k \in 0..Len(m)
      BY <1>4
    <2> HIDE DEF m
    <2>2. SubSeq(m, 1, k) \in Seq(Line)
      BY <2>1
    <2>3. QED
      BY <2>2 DEF m
  <1>7. QED
    BY <1>3, <1>4, <1>5, <1>6

\* What the history is after the old record went to it: a history that was
\* whole is whole and has it.
LEMMA KeptIs ==
  ASSUME past \in Seq(Line), rec \in AnyRec \cup {Records!Nothing},
         doing.does = "amend" => rec \in AnyRec
  PROVE  /\ Records!Kept \in Seq(Line)
         /\ past \in Seq(AnyRec) =>
              /\ Records!Kept \in Seq(AnyRec)
              /\ Pids(Records!Kept) = Pids(past) \cup Rids(rec)
              /\ Pprevs(Records!Kept) = Pprevs(past) \cup Rprevs(rec)
  <1> DEFINE old == IF doing.does = "amend" THEN rec ELSE Records!Portable(rec)
             base == IF doing.does = "amend" THEN Records!Mended ELSE past
  <1>1. CASE rec = Records!Nothing
    <2>1. doing.does # "amend"
      BY <1>1, RecordsDiffer DEF NoRec
    <2>2. Records!Kept = past
      BY <1>1, <2>1 DEF Records!Kept, rec, doing, past
    <2>3. Rids(rec) = {} /\ Rprevs(rec) = {}
      BY <1>1, RecordsDiffer DEF NoRec
    <2>4. QED
      BY <2>2, <2>3
  <1>2. CASE rec \in AnyRec
    <2>1. old \in AnyRec /\ old.id = rec.id /\ old.prev = rec.prev
      BY <1>2, PortableIs
    <2>2. Records!Mended \in Seq(Line)
      BY LinesAre
    <2>3. CASE Records!Unended /\ doing.does # "amend"
      <3>1. Records!Kept = Records!Mended
        BY <1>2, <2>3, RecordsDiffer DEF Records!Kept, rec, doing, NoRec
      <3>2. past \notin Seq(AnyRec)
        BY <2>3, LinesAre
      <3>3. QED
        BY <2>2, <3>1, <3>2
    <2>4. CASE ~Records!Unended \/ doing.does = "amend"
      <3>1. Records!Kept = base \o <<old>>
        BY <1>2, <2>4, RecordsDiffer DEF Records!Kept, Records!Replaced, rec, doing, past, NoRec
      <3>2. base \in Seq(Line) /\ old \in Line
        BY <2>1, <2>2 DEF Line
      <3>3. base \o <<old>> \in Seq(Line)
        <4> HIDE DEF base, old
        <4>1. QED
          BY <3>2
      <3>4. ASSUME past \in Seq(AnyRec)
            PROVE  /\ Records!Kept \in Seq(AnyRec)
                   /\ Pids(Records!Kept) = Pids(past) \cup Rids(rec)
                   /\ Pprevs(Records!Kept) = Pprevs(past) \cup Rprevs(rec)
        <4>1. ~Records!Unended
          BY <3>4, LinesAre
        <4>2. Records!Mended = past
          BY <4>1 DEF Records!Mended, past
        <4>3. Records!Kept = past \o <<old>>
          BY <3>1, <4>2
        <4>4. Rids(rec) = {old.id} /\ Rprevs(rec) = {old.prev}
          BY <1>2, <2>1 DEF Rids, Rprevs
        <4> HIDE DEF old
        <4>5. /\ past \o <<old>> = Append(past, old) /\ Append(past, old) \in Seq(AnyRec)
              /\ Pids(Append(past, old)) = Pids(past) \cup {old.id}
              /\ Pprevs(Append(past, old)) = Pprevs(past) \cup {old.prev}
          BY <2>1, <3>4, OneMore
        <4>6. QED
          BY <4>3, <4>4, <4>5
      <3>5. QED
        BY <3>1, <3>3, <3>4
    <2>5. QED
      BY <2>3, <2>4
  <1>3. QED
    BY <1>1, <1>2

\* The record that is to be replaced goes to the history.
LEMMA RecKeepOld ==
  ASSUME RecInv, Records!KeepOld
  PROVE  RecInv'
  <1>1. /\ doing.does \in {"record", "amend"} /\ doing.todo = <<"history", "record">>
        /\ rec # Records!Torn /\ past' = Records!Kept
        /\ doing' = [doing EXCEPT !.todo = Tail(@)]
        /\ UNCHANGED <<bytes, cfg, rec, named, spend, standing, severed>>
    BY DEF Records!KeepOld, bytes, cfg, rec, past, named, doing, spend, standing, severed
  <1>2. doing \in ToolJob \cup AmendJob /\ doing \notin NoJob \cup PortJob
    BY <1>1, JobsDiffer DEF RecInv, RecTypes
  <1>3. doing \in AmendJob => rec \in AnyRec
    BY <1>2 DEF RecInv, Works
  <1>4. /\ doing \in ToolJob => doing' \in ToolJob
        /\ doing \in AmendJob => doing' \in AmendJob
        /\ doing'.todo = <<"record">>
    <2>1. doing \in ToolJob => doing' \in ToolJob /\ doing'.todo = <<"record">>
      BY <1>1, WritesAre DEF ToolJob
    <2>2. doing \in AmendJob => doing' \in AmendJob /\ doing'.todo = <<"record">>
      BY <1>1, WritesAre DEF AmendJob
    <2>3. QED
      BY <1>2, <2>1, <2>2
  <1>5. doing' \in ToolJob \cup AmendJob /\ doing' \notin NoJob \cup PortJob
        /\ (doing \notin ToolJob => doing' \notin ToolJob)
    BY <1>2, <1>4, JobsDiffer
  <1>6. /\ past' \in Seq(Line)
        /\ ~severed => /\ past' \in Seq(AnyRec) /\ Pids(past') = Pids(past) \cup Rids(rec)
                       /\ Pprevs(past') = Pprevs(past) \cup Rprevs(rec)
    <2>1. /\ past \in Seq(Line) /\ rec \in AnyRec \cup {Records!Nothing}
          /\ ~severed => past \in Seq(AnyRec)
      BY <1>1 DEF RecInv, RecTypes, Intact, NoRec
    <2>2. doing.does = "amend" => rec \in AnyRec
      BY <1>2, <1>3, JobsDiffer
    <2>3. QED
      BY <1>1, <2>1, <2>2, KeptIs
  <1>7. RecTypes'
    BY <1>1, <1>5, <1>6 DEF RecInv, RecTypes
  <1>8. Intact' /\ Works'
    <2>1. doing \notin AmendJob => doing' \notin AmendJob
      BY <1>2, <1>4, JobsDiffer
    <2>2. Rids(rec)' = Rids(rec) /\ Pids(past)' = Pids(past')
      BY <1>1 DEF Rids, Pids
    <2>3. ~severed => Rids(rec) \subseteq Pids(past')
      BY <1>6
    <2>4. QED
      BY <1>1, <1>3, <1>5, <1>6, <2>1, <2>2, <2>3 DEF Intact, Works
  <1>9. Traces'
    <2>1. /\ ~severed => Chained(past, rec, named)
          /\ FinalRec' = rec' /\ FinalPast' = past'
      BY <1>2, <1>5, FinalIs DEF RecInv, Traces
    <2>2. ~severed /\ Chained(past, rec, named) => Chained(past', rec, named)
      BY <1>6 DEF Chained, Has
    <2>3. Rids(rec) \subseteq Has(past', rec)
      BY DEF Has
    <2>4. QED
      BY <1>1, <2>1, <2>2, <2>3 DEF Traces
  <1>10. Stands'
    BY <1>1, <1>2, <1>5, FinalIs DEF RecInv, Stands
  <1>11. QED
    BY <1>7, <1>8, <1>9, <1>10 DEF RecInv

\* A build that cannot amend the record ends.
LEMMA RecUnreadable ==
  ASSUME RecInv, Records!Unreadable
  PROVE  RecInv'
  <1>1. /\ doing.does = "record" /\ doing' = Records!Idle
        /\ UNCHANGED <<bytes, cfg, rec, past, named, spend, standing, severed>>
    BY DEF Records!Unreadable, bytes, cfg, rec, past, named, doing, spend, standing, severed
  <1>2. doing \in ToolJob /\ doing \notin PortJob
        /\ doing' \in NoJob /\ doing' \notin ToolJob \cup AmendJob \cup PortJob
    BY <1>1, JobsDiffer DEF RecInv, RecTypes
  <1>3. RecTypes' /\ Intact' /\ Works'
    BY <1>1, <1>2 DEF RecInv, RecTypes, Intact, Works
  <1>4. Traces' /\ Stands'
    BY <1>1, <1>2, FinalIs DEF RecInv, Traces, Stands
  <1>5. QED
    BY <1>3, <1>4 DEF RecInv

\* The new record is written, over the one that is in the history.
LEMMA RecWrites ==
  ASSUME RecInv, NEW paths \in {"portable", "local"}, Records!WriteRecord(paths)
  PROVE  RecInv'
  <1>1. /\ doing.does \in {"record", "amend"} /\ doing.todo = <<"record">>
        /\ rec' = IF doing.does = "record" THEN [Records!NewRecord EXCEPT !.paths = paths]
                  ELSE Records!NewRecord
        /\ doing' = Records!Idle
        /\ standing' = (doing.does = "record" \/ standing \/ doing.names = RecordFiles)
        /\ UNCHANGED <<bytes, cfg, past, named, spend, severed>>
    BY DEF Records!WriteRecord, bytes, cfg, rec, past, named, doing, spend, standing, severed
  <1>2. doing \in ToolJob \cup AmendJob /\ doing \notin NoJob \cup PortJob
    BY <1>1, JobsDiffer DEF RecInv, RecTypes
  <1>3. /\ rec # Records!Torn /\ (doing \in AmendJob => rec \in AnyRec)
        /\ ~severed => Rids(rec) \subseteq Pids(past)
    BY <1>1, <1>2 DEF RecInv, Works
  <1>4. rec \in AnyRec \cup {Records!Nothing} /\ bytes \in [RecordFiles -> Nat]
    BY <1>3 DEF RecInv, RecTypes, NoRec
  <1>5. rec' \in AnyRec /\ rec'.prev \in {0} \cup Rids(rec)
    <2>1. CASE doing \in ToolJob
      <3> DEFINE prev == IF rec = Records!Nothing THEN 0 ELSE rec.id
      <3>1. doing.does = "record" /\ doing.id \in Nat
        BY <2>1 DEF ToolJob
      <3>2. prev \in Nat /\ prev \in {0} \cup Rids(rec)
        BY <1>4, RecordsDiffer DEF Rids, AnyRec
      <3>3. Records!NewRecord = [is |-> "record", id |-> doing.id, prev |-> prev, outs |-> bytes,
                                 paths |-> "portable"]
        BY <3>1 DEF Records!NewRecord, rec, doing, bytes
      <3> HIDE DEF prev
      <3>4. rec' = [is |-> "record", id |-> doing.id, prev |-> prev, outs |-> bytes, paths |-> paths]
        BY <1>1, <3>1, <3>3
      <3>5. QED
        BY <1>4, <3>1, <3>2, <3>4 DEF AnyRec
    <2>2. CASE doing \in AmendJob
      <3>1. doing.does = "amend" /\ doing.id \in Nat /\ rec \in AnyRec
        BY <1>3, <2>2 DEF AmendJob
      <3> DEFINE outs == [f \in RecordFiles |-> IF f \in doing.names THEN bytes[f] ELSE rec.outs[f]]
      <3>2. rec' = [rec EXCEPT !.id = doing.id, !.prev = rec.id, !.outs = outs]
        BY <1>1, <3>1 DEF Records!NewRecord, rec, doing, bytes
      <3>3. outs \in [RecordFiles -> Nat]
        BY <1>4, <3>1 DEF AnyRec
      <3> HIDE DEF outs
      <3>4. QED
        BY <3>1, <3>2, <3>3 DEF AnyRec, Rids
    <2>3. QED
      BY <1>2, <2>1, <2>2
  <1>6. standing' => rec'.outs = bytes
    <2>1. CASE doing \in ToolJob
      <3>1. doing.does = "record"
        BY <2>1 DEF ToolJob
      <3>2. Records!NewRecord.outs = bytes /\ rec' = [Records!NewRecord EXCEPT !.paths = paths]
        BY <1>1, <3>1 DEF Records!NewRecord, bytes, doing
      <3>3. QED
        BY <3>1, <3>2 DEF Records!NewRecord, doing
    <2>2. CASE doing \in AmendJob /\ standing'
      <3>1. doing.does = "amend" /\ rec \in AnyRec /\ doing.names \in SUBSET RecordFiles
        BY <1>3, <2>2 DEF AmendJob
      <3> DEFINE outs == [f \in RecordFiles |-> IF f \in doing.names THEN bytes[f] ELSE rec.outs[f]]
      <3>2. rec' = [rec EXCEPT !.id = doing.id, !.prev = rec.id, !.outs = outs]
        BY <1>1, <3>1 DEF Records!NewRecord, rec, doing, bytes
      <3>3. rec'.outs = outs
        BY <3>1, <3>2 DEF AnyRec
      <3>4. standing \/ doing.names = RecordFiles
        BY <1>1, <2>2, <3>1
      <3>5. standing => rec.outs = bytes
        BY <1>2, FinalIs DEF RecInv, Stands, Tells
      <3>6. \A f \in RecordFiles : outs[f] = bytes[f]
        BY <3>4, <3>5
      <3>7. outs = bytes
        BY <1>4, <3>6
      <3>8. QED
        BY <3>3, <3>7
    <2>3. QED
      BY <1>2, <2>1, <2>2
  <1>7. doing' \in NoJob /\ doing' \notin ToolJob \cup AmendJob \cup PortJob
    BY <1>1, JobsDiffer
  <1>8. RecTypes'
    BY <1>1, <1>5, <1>7 DEF RecInv, RecTypes
  <1>9. Intact' /\ Works'
    BY <1>1, <1>7 DEF RecInv, Intact, Works
  <1>10. Traces'
    <2>1. /\ ~severed => Chained(past, rec, named)
          /\ FinalRec' = rec' /\ FinalPast' = past'
      BY <1>2, <1>7, FinalIs DEF RecInv, Traces
    <2>2. Rids(rec') = {rec'.id} /\ Rprevs(rec') = {rec'.prev}
      BY <1>5 DEF Rids, Rprevs
    <2>3. ~severed /\ Chained(past, rec, named) => Chained(past, rec', named)
      BY <1>3, <1>5, <2>2 DEF Chained, Has
    <2>4. Rids(rec') \subseteq Has(past, rec')
      BY DEF Has
    <2>5. Rids(rec)' = Rids(rec')
      BY DEF Rids
    <2>6. QED
      BY <1>1, <2>1, <2>3, <2>4, <2>5 DEF Traces
  <1>11. Stands'
    BY <1>1, <1>5, <1>6, <1>7, FinalIs DEF Stands, Tells
  <1>12. QED
    BY <1>8, <1>9, <1>10, <1>11 DEF RecInv

\* What a --portable is to write: the parts whose conditions hold.
Piece(x, when) == IF when THEN <<x>> ELSE <<>>

LEMMA PieceIs ==
  ASSUME NEW x \in What, NEW w \in BOOLEAN
  PROVE  /\ Piece(x, w) \in Seq(What) /\ Distinct(Piece(x, w))
         /\ \A y : Among(y, Piece(x, w)) <=> w /\ y = x
  <1>1. CASE w = TRUE
    <2>1. Piece(x, w) = <<x>>
      BY <1>1 DEF Piece
    <2>2. <<x>> \in Seq(What) /\ DOMAIN <<x>> = {1} /\ <<x>>[1] = x
      OBVIOUS
    <2>3. QED
      BY <1>1, <2>1, <2>2 DEF Distinct, Among
  <1>2. CASE w = FALSE
    <2>1. Piece(x, w) = <<>>
      BY <1>2 DEF Piece
    <2>2. <<>> \in Seq(What) /\ DOMAIN <<>> = {}
      OBVIOUS
    <2>3. QED
      BY <1>2, <2>1, <2>2 DEF Distinct, Among
  <1>3. QED
    BY <1>1, <1>2

InOrder5(a, b, c, d, e) ==
  Piece("record", a) \o Piece("history", b) \o Piece("config", c)
  \o Piece("record", d) \o Piece("history", e)

LEMMA PiecesAre ==
  ASSUME NEW a \in BOOLEAN, NEW b \in BOOLEAN, NEW c \in BOOLEAN, NEW d \in BOOLEAN, NEW e \in BOOLEAN,
         ~(a /\ d), ~(b /\ e)
  PROVE  LET todo == InOrder5(a, b, c, d, e)
         IN  /\ todo \in Seq(What) /\ Distinct(todo)
             /\ Among("record", todo) <=> a \/ d
             /\ Among("history", todo) <=> b \/ e
             /\ Among("config", todo) <=> c
  <1> DEFINE p1 == Piece("record", a)
             p2 == Piece("history", b)
             p3 == Piece("config", c)
             p4 == Piece("record", d)
             p5 == Piece("history", e)
             q2 == p1 \o p2
             q3 == q2 \o p3
             q4 == q3 \o p4
             q5 == q4 \o p5
  <1>1. /\ p1 \in Seq(What) /\ Distinct(p1) /\ \A y : Among(y, p1) <=> a /\ y = "record"
        /\ p2 \in Seq(What) /\ Distinct(p2) /\ \A y : Among(y, p2) <=> b /\ y = "history"
        /\ p3 \in Seq(What) /\ Distinct(p3) /\ \A y : Among(y, p3) <=> c /\ y = "config"
        /\ p4 \in Seq(What) /\ Distinct(p4) /\ \A y : Among(y, p4) <=> d /\ y = "record"
        /\ p5 \in Seq(What) /\ Distinct(p5) /\ \A y : Among(y, p5) <=> e /\ y = "history"
    <2>1. "record" \in What /\ "history" \in What /\ "config" \in What
      BY DEF What
    <2>2. QED
      BY <2>1, PieceIs
  <1> HIDE DEF p1, p2, p3, p4, p5
  <1>2. q2 \in Seq(What) /\ Distinct(q2) /\ \A y : Among(y, q2) <=> Among(y, p1) \/ Among(y, p2)
    <2>1. \A y \in What : ~(Among(y, p1) /\ Among(y, p2))
      BY <1>1
    <2>2. QED
      BY <1>1, <2>1, JoinIs
  <1> HIDE DEF q2
  <1>3. q3 \in Seq(What) /\ Distinct(q3) /\ \A y : Among(y, q3) <=> Among(y, q2) \/ Among(y, p3)
    <2>1. \A y \in What : ~(Among(y, q2) /\ Among(y, p3))
      BY <1>1, <1>2
    <2>2. QED
      BY <1>1, <1>2, <2>1, JoinIs
  <1> HIDE DEF q3
  <1>4. q4 \in Seq(What) /\ Distinct(q4) /\ \A y : Among(y, q4) <=> Among(y, q3) \/ Among(y, p4)
    <2>1. \A y \in What : ~(Among(y, q3) /\ Among(y, p4))
      BY <1>1, <1>2, <1>3
    <2>2. QED
      BY <1>1, <1>3, <2>1, JoinIs
  <1> HIDE DEF q4
  <1>5. q5 \in Seq(What) /\ Distinct(q5) /\ \A y : Among(y, q5) <=> Among(y, q4) \/ Among(y, p5)
    <2>1. \A y \in What : ~(Among(y, q4) /\ Among(y, p5))
      BY <1>1, <1>2, <1>3, <1>4
    <2>2. QED
      BY <1>1, <1>4, <2>1, JoinIs
  <1> HIDE DEF q5
  <1>6. /\ Among("record", q5) <=> a \/ d
        /\ Among("history", q5) <=> b \/ e
        /\ Among("config", q5) <=> c
    <2>1. \A y : Among(y, q5) <=> Among(y, p1) \/ Among(y, p2) \/ Among(y, p3) \/ Among(y, p4)
                                \/ Among(y, p5)
      BY <1>2, <1>3, <1>4, <1>5
    <2>2. "record" # "history" /\ "record" # "config" /\ "history" # "config"
      OBVIOUS
    <2>3. Among("record", q5) <=> a \/ d
      BY <1>1, <2>1, <2>2
    <2>4. Among("history", q5) <=> b \/ e
      BY <1>1, <2>1, <2>2
    <2>5. Among("config", q5) <=> c
      BY <1>1, <2>1, <2>2
    <2>6. QED
      BY <2>3, <2>4, <2>5
  <1>7. QED
    BY <1>5, <1>6 DEF p1, p2, p3, p4, p5, q2, q3, q4, q5, InOrder5

\* A sequence is one of what all its elements are.
LEMMA SeqOfAll ==
  ASSUME NEW S, NEW T, NEW q \in Seq(S), \A i \in 1..Len(q) : q[i] \in T
  PROVE  q \in Seq(T)
  OBVIOUS

\* What a --portable is to leave, before it starts: the record and the history
\* find and name what they did, the record it amends for the config apart.
LEMMA RecBeginPortable ==
  ASSUME RecInv, Records!BeginPortable
  PROVE  RecInv'
  <1> DEFINE readable == rec \notin NoRec
             plain == Plain(past)
             e1 == readable /\ rec.paths = "local"
             e2 == plain # past
             new == IF cfg THEN Records!Sanitized(spend.jobs + 1, bytes["config"] + 1)
                    ELSE [rec |-> IF readable THEN Records!Portable(rec) ELSE rec, hist |-> plain]
             todo == Piece("record", e1) \o Piece("history", e2) \o Piece("config", cfg)
                     \o Piece("record", cfg /\ readable /\ ~e1)
                     \o Piece("history", cfg /\ readable /\ ~e2)
  <1>1. /\ doing = Records!Idle /\ rec # Records!Torn /\ todo # <<>>
        /\ \A i \in DOMAIN past : past[i] \notin {Records!Torn, Records!Spoilt}
        /\ doing' = [does |-> "portable", rec |-> new.rec, hist |-> new.hist, todo |-> todo]
        /\ spend' = [spend EXCEPT !.jobs = @ + 1]
        /\ UNCHANGED <<bytes, cfg, rec, past, named, standing, severed>>
    BY DEF Records!BeginPortable, Records!BeginJob, Records!Fresh, Records!Readable, NoRec, Plain, Piece,
           bytes, cfg, rec, past, named, doing, spend, standing, severed
  <1>2. /\ spend.jobs + 1 \in Nat /\ spend' \in [edits : Nat, jobs : Nat]
        /\ bytes \in [RecordFiles -> Nat] /\ bytes["config"] + 1 \in Nat
        /\ cfg \in BOOLEAN /\ past \in Seq(AnyRec)
        /\ rec \in AnyRec \cup {Records!Nothing}
    <2>1. spend \in [edits : Nat, jobs : Nat]
      BY DEF RecInv, RecTypes
    <2>2. spend.jobs + 1 \in Nat /\ spend' \in [edits : Nat, jobs : Nat]
      BY <1>1, <2>1, JobCounts
    <2>3. bytes \in [RecordFiles -> Nat] /\ cfg \in BOOLEAN /\ past \in Seq(AnyRec)
      <3>1. past \in Seq(Line) /\ bytes \in [RecordFiles -> Nat] /\ cfg \in BOOLEAN
        BY DEF RecInv, RecTypes
      <3>2. \A i \in 1..Len(past) : past[i] \in AnyRec
        BY <1>1, <3>1 DEF Line
      <3>3. past \in Seq(AnyRec)
        BY <3>1, <3>2, SeqOfAll
      <3>4. QED
        BY <3>1, <3>3
    <2>4. bytes["config"] + 1 \in Nat
      BY <2>3, RecordAssumption
    <2>5. rec \in AnyRec \cup {Records!Nothing}
      BY <1>1 DEF RecInv, RecTypes, NoRec
    <2>6. QED
      BY <2>2, <2>3, <2>4, <2>5
  <1>3. readable <=> rec \in AnyRec
    BY <1>2, RecordsDiffer DEF NoRec
  <1>4. plain \in Seq(AnyRec) /\ Pids(plain) = Pids(past) /\ Pprevs(plain) = Pprevs(past)
    BY <1>2, PlainIs
  <1>5. cfg /\ readable =>
          /\ new.rec \in AnyRec /\ new.rec.prev = rec.id
          /\ new.rec.outs = [rec.outs EXCEPT !["config"] = bytes["config"] + 1]
          /\ new.hist \in Seq(AnyRec) /\ Pids(new.hist) = Pids(past) \cup {rec.id}
          /\ Pprevs(new.hist) = Pprevs(past) \cup {rec.prev}
    <2> SUFFICES ASSUME cfg, rec \in AnyRec
                 PROVE  /\ new.rec \in AnyRec /\ new.rec.prev = rec.id
                        /\ new.rec.outs = [rec.outs EXCEPT !["config"] = bytes["config"] + 1]
                        /\ new.hist \in Seq(AnyRec) /\ Pids(new.hist) = Pids(past) \cup {rec.id}
                        /\ Pprevs(new.hist) = Pprevs(past) \cup {rec.prev}
      BY <1>3
    <2> DEFINE was == Records!Portable(rec)
               now == [was EXCEPT !.id = spend.jobs + 1, !.prev = rec.id,
                                  !.outs = [@ EXCEPT !["config"] = bytes["config"] + 1]]
    <2>1. was \in AnyRec /\ was.id = rec.id /\ was.prev = rec.prev /\ was.outs = rec.outs
      BY PortableIs
    <2>2. new = [rec |-> now, hist |-> Append(plain, was)]
      BY <1>3 DEF Records!Sanitized, Records!Readable, NoRec, Plain, rec, past
    <2>3. new.rec = now /\ new.hist = Append(plain, was)
      BY <2>2
    <2> HIDE DEF was, new
    <2>4. rec.id \in Nat
      BY DEF AnyRec
    <2>5. now \in AnyRec /\ now.prev = rec.id
          /\ now.outs = [rec.outs EXCEPT !["config"] = bytes["config"] + 1]
      BY <1>2, <2>1, <2>4 DEF AnyRec
    <2> HIDE DEF now, plain
    <2>6. /\ Append(plain, was) \in Seq(AnyRec)
          /\ Pids(Append(plain, was)) = Pids(plain) \cup {was.id}
          /\ Pprevs(Append(plain, was)) = Pprevs(plain) \cup {was.prev}
      BY <1>4, <2>1, OneMore
    <2>7. QED
      BY <1>4, <2>1, <2>3, <2>5, <2>6
  <1>6. ~(cfg /\ readable) =>
          /\ new.hist = plain /\ new.rec \in AnyRec \cup {Records!Nothing}
          /\ readable => /\ new.rec \in AnyRec /\ new.rec.id = rec.id /\ new.rec.prev = rec.prev
                         /\ new.rec.outs = rec.outs
    <2>1. CASE ~readable
      <3>1. rec = Records!Nothing
        BY <1>2, <1>3, <2>1
      <3>2. new = [rec |-> rec, hist |-> plain]
        BY <2>1 DEF Records!Sanitized, Records!Readable, NoRec, Plain, rec, past
      <3>3. QED
        BY <2>1, <3>1, <3>2
    <2>2. CASE readable /\ ~cfg
      <3>1. new = [rec |-> Records!Portable(rec), hist |-> plain]
        BY <2>2
      <3>2. rec \in AnyRec
        BY <1>3, <2>2
      <3>3. /\ Records!Portable(rec) \in AnyRec
            /\ Records!Portable(rec).id = rec.id /\ Records!Portable(rec).prev = rec.prev
            /\ Records!Portable(rec).outs = rec.outs
        BY <3>2, PortableIs
      <3>4. new.rec = Records!Portable(rec) /\ new.hist = plain
        BY <3>1
      <3>5. QED
        BY <3>3, <3>4
    <2>3. QED
      BY <1>2, <2>1, <2>2
  <1>7. /\ todo \in Seq(What) /\ Distinct(todo)
        /\ Among("record", todo) <=> e1 \/ (cfg /\ readable /\ ~e1)
        /\ Among("history", todo) <=> e2 \/ (cfg /\ readable /\ ~e2)
        /\ Among("config", todo) <=> cfg
    <2> DEFINE d == cfg /\ readable /\ ~e1
               e == cfg /\ readable /\ ~e2
    <2>1. e1 \in BOOLEAN /\ e2 \in BOOLEAN /\ d \in BOOLEAN /\ e \in BOOLEAN
          /\ ~(e1 /\ d) /\ ~(e2 /\ e)
      BY <1>2
    <2> HIDE DEF e1, e2, d, e
    <2>2. LET list == InOrder5(e1, e2, cfg, d, e)
          IN  /\ list \in Seq(What) /\ Distinct(list)
              /\ Among("record", list) <=> e1 \/ d
              /\ Among("history", list) <=> e2 \/ e
              /\ Among("config", list) <=> cfg
      BY <1>2, <2>1, PiecesAre, ZenonT(40)
    <2>3. QED
      BY <2>2 DEF d, e, InOrder5
  <1> HIDE DEF new, todo
  <1>8. new.rec \in AnyRec \cup {Records!Nothing} /\ new.hist \in Seq(AnyRec)
    BY <1>4, <1>5, <1>6
  <1>9. /\ doing' \in PortJob /\ doing'.todo = todo /\ doing'.rec = new.rec /\ doing'.hist = new.hist
        /\ doing' \notin NoJob \cup ToolJob \cup AmendJob
    <2>1. doing' \in PortJob /\ doing'.todo = todo /\ doing'.rec = new.rec /\ doing'.hist = new.hist
      BY <1>1, <1>7, <1>8 DEF PortJob
    <2>2. QED
      BY <2>1, JobsDiffer
  <1>10. /\ FinalRec' = IF Among("record", todo) THEN new.rec ELSE rec
         /\ FinalPast' = IF Among("history", todo) THEN new.hist ELSE past
         /\ FinalBytes' = IF cfg THEN [bytes EXCEPT !["config"] = @ + 1] ELSE bytes
    BY <1>1, <1>7, <1>9 DEF FinalRec, FinalPast, FinalBytes, Among
  <1>11. doing \notin PortJob /\ FinalRec = rec /\ FinalPast = past /\ FinalBytes = bytes
    BY <1>1, FinalIs, JobsDiffer
  <1>12. RecTypes'
    BY <1>1, <1>2, <1>9 DEF RecInv, RecTypes
  <1>13. Intact' /\ Works'
    BY <1>1, <1>7, <1>9 DEF RecInv, Intact, Works
  <1>14. Traces'
    <2>1. /\ ~severed => Chained(past, rec, named)
          /\ UNCHANGED <<severed, named>> /\ Rids(rec)' = Rids(rec)
      BY <1>1, <1>11 DEF RecInv, Traces, Rids
    <2>2. CASE cfg /\ readable
      <3>1. FinalRec' = new.rec /\ FinalPast' = new.hist
        BY <1>7, <1>10, <2>2
      <3>2. Rids(rec) = {rec.id} /\ Rprevs(rec) = {rec.prev}
        BY <1>3, <2>2 DEF Rids, Rprevs
      <3>3. Rids(new.rec) = {new.rec.id} /\ Rprevs(new.rec) = {rec.id}
        BY <1>5, <2>2 DEF Rids, Rprevs
      <3>4. Chained(past, rec, named) => Chained(new.hist, new.rec, named)
        BY <1>5, <2>2, <3>2, <3>3 DEF Chained, Has
      <3>5. Rids(rec) \subseteq Has(new.hist, new.rec)
        BY <1>5, <2>2, <3>2 DEF Has
      <3>6. QED
        BY <2>1, <3>1, <3>4, <3>5 DEF Traces
    <2>3. CASE ~(cfg /\ readable)
      <3>1. Rids(FinalRec') = Rids(rec) /\ Rprevs(FinalRec') = Rprevs(rec)
        <4>1. CASE Among("record", todo)
          <5>1. readable /\ FinalRec' = new.rec
            BY <1>7, <1>10, <2>3, <4>1
          <5>2. QED
            BY <1>3, <1>6, <2>3, <5>1 DEF Rids, Rprevs
        <4>2. CASE ~Among("record", todo)
          BY <1>10, <4>2
        <4>3. QED
          BY <4>1, <4>2
      <3>2. Pids(FinalPast') = Pids(past) /\ Pprevs(FinalPast') = Pprevs(past)
        <4>1. FinalPast' \in {plain, past}
          BY <1>6, <1>10, <2>3
        <4>2. QED
          BY <1>4, <4>1
      <3>3. Chained(past, rec, named) => Chained(FinalPast', FinalRec', named)
        BY <3>1, <3>2 DEF Chained, Has
      <3>4. Rids(rec) \subseteq Has(FinalPast', FinalRec')
        BY <3>1 DEF Has
      <3>5. QED
        BY <2>1, <3>3, <3>4 DEF Traces
    <2>4. QED
      BY <2>2, <2>3
  <1>15. Stands'
    <2> SUFFICES ASSUME standing
                 PROVE  FinalRec' \in AnyRec /\ FinalRec'.outs = FinalBytes'
      BY <1>1, <1>9 DEF Stands, Tells
    <2>1. rec \in AnyRec /\ rec.outs = bytes
      BY <1>11 DEF RecInv, Stands, Tells
    <2>2. CASE cfg
      <3>1. FinalRec' = new.rec /\ FinalBytes' = [bytes EXCEPT !["config"] = @ + 1]
        BY <1>3, <1>7, <1>10, <2>1, <2>2
      <3>2. QED
        BY <1>3, <1>5, <2>1, <2>2, <3>1
    <2>3. CASE ~cfg
      <3>1. FinalRec' \in {new.rec, rec} /\ FinalBytes' = bytes
        BY <1>10, <2>3
      <3>2. QED
        BY <1>3, <1>6, <2>1, <2>3, <3>1
    <2>4. QED
      BY <2>2, <2>3
  <1>16. QED
    BY <1>12, <1>13, <1>14, <1>15 DEF RecInv


\* The next of the files of a --portable is written.
LEMMA RecWritePortable ==
  ASSUME RecInv, Records!WritePortable
  PROVE  RecInv'
  <1> DEFINE todo == doing.todo
             h == Head(doing.todo)
  <1>1. /\ doing.does = "portable"
        /\ rec' = IF h = "record" THEN doing.rec ELSE rec
        /\ past' = IF h = "history" THEN doing.hist ELSE past
        /\ bytes' = IF h = "config" THEN [bytes EXCEPT !["config"] = @ + 1] ELSE bytes
        /\ cfg' = (cfg /\ h # "config")
        /\ doing' = IF Len(todo) = 1 THEN Records!Idle ELSE [doing EXCEPT !.todo = Tail(@)]
        /\ UNCHANGED <<named, spend, standing, severed>>
    BY DEF Records!WritePortable, bytes, cfg, rec, past, named, doing, spend, standing, severed
  <1>2. doing \in PortJob /\ doing \notin NoJob \cup ToolJob \cup AmendJob
    BY <1>1, JobsDiffer DEF RecInv, RecTypes
  <1>3. /\ doing.rec \in AnyRec \cup {Records!Nothing} /\ doing.hist \in Seq(AnyRec)
        /\ todo \in Seq(What)
    BY <1>2 DEF PortJob
  <1>4. todo # <<>> /\ Distinct(todo) /\ rec # Records!Torn
    BY <1>2 DEF RecInv, Works
  <1>5. /\ h \in What /\ Among(h, todo)
        /\ Tail(todo) \in Seq(What) /\ Distinct(Tail(todo))
        /\ \A x : Among(x, Tail(todo)) <=> Among(x, todo) /\ x # h
        /\ Len(todo) # 1 => Tail(todo) # <<>>
        /\ Len(todo) = 1 => \A x : Among(x, todo) => x = h
    BY <1>3, <1>4, TodoIs
  <1>6. /\ FinalRec = IF Among("record", todo) THEN doing.rec ELSE rec
        /\ FinalPast = IF Among("history", todo) THEN doing.hist ELSE past
        /\ FinalBytes = IF Among("config", todo) THEN [bytes EXCEPT !["config"] = @ + 1] ELSE bytes
    BY <1>2 DEF FinalRec, FinalPast, FinalBytes
  <1>7. Len(todo) # 1 =>
          /\ doing' \in PortJob /\ doing' \notin NoJob \cup ToolJob \cup AmendJob
          /\ doing'.todo = Tail(todo) /\ doing'.rec = doing.rec /\ doing'.hist = doing.hist
    <2> SUFFICES ASSUME Len(todo) # 1
                 PROVE  /\ doing' \in PortJob
                        /\ doing'.todo = Tail(todo) /\ doing'.rec = doing.rec /\ doing'.hist = doing.hist
      BY JobsDiffer
    <2>1. doing' = [doing EXCEPT !.todo = Tail(todo)]
      BY <1>1
    <2> HIDE DEF todo
    <2>2. QED
      BY <1>2, <1>5, <2>1 DEF PortJob
  <1>8. Len(todo) = 1 => doing' \in NoJob /\ doing' \notin ToolJob \cup AmendJob \cup PortJob
    BY <1>1, JobsDiffer
  <1> HIDE DEF todo, h
  <1>9. UNCHANGED <<FinalRec, FinalPast, FinalBytes>>
    <2>1. CASE Len(todo) # 1
      <3>1. /\ FinalRec' = IF Among("record", Tail(todo)) THEN doing.rec ELSE rec'
            /\ FinalPast' = IF Among("history", Tail(todo)) THEN doing.hist ELSE past'
            /\ FinalBytes' = IF Among("config", Tail(todo)) THEN [bytes' EXCEPT !["config"] = @ + 1]
                             ELSE bytes'
        BY <1>7, <2>1 DEF FinalRec, FinalPast, FinalBytes, Among
      <3>2. FinalRec' = FinalRec
        BY <1>1, <1>5, <1>6, <3>1
      <3>3. FinalPast' = FinalPast
        BY <1>1, <1>5, <1>6, <3>1
      <3>4. FinalBytes' = FinalBytes
        BY <1>1, <1>5, <1>6, <3>1
      <3>5. QED
        BY <3>2, <3>3, <3>4
    <2>2. CASE Len(todo) = 1
      <3>1. FinalRec' = rec' /\ FinalPast' = past' /\ FinalBytes' = bytes'
        BY <1>8, <2>2, FinalIs
      <3>2. \A x : Among(x, todo) <=> x = h
        BY <1>5, <2>2
      <3>3. FinalRec' = FinalRec
        BY <1>1, <1>6, <3>1, <3>2
      <3>4. FinalPast' = FinalPast
        BY <1>1, <1>6, <3>1, <3>2
      <3>5. FinalBytes' = FinalBytes
        BY <1>1, <1>6, <3>1, <3>2
      <3>6. QED
        BY <3>3, <3>4, <3>5
    <2>3. QED
      BY <2>1, <2>2
  <1>10. rec' \in {rec, FinalRec} /\ rec' \in AnyRec \cup {Records!Nothing}
    <2>1. rec \in AnyRec \cup {Records!Nothing}
      BY <1>4 DEF RecInv, RecTypes, NoRec
    <2>2. QED
      BY <1>1, <1>3, <1>5, <1>6, <2>1
  <1>11. RecTypes'
    <2>1. bytes' \in [RecordFiles -> Nat] /\ cfg' \in BOOLEAN /\ spend' \in [edits : Nat, jobs : Nat]
      BY <1>1, RecordAssumption DEF RecInv, RecTypes
    <2>4. past' \in Seq(Line)
      <3>1. doing.hist \in Seq(Line)
        BY <1>3, SeqMonotonic DEF Line
      <3>2. QED
        BY <1>1, <3>1 DEF RecInv, RecTypes
    <2>2. doing' \in NoJob \cup PortJob
      BY <1>7, <1>8
    <2>3. QED
      BY <1>10, <2>1, <2>2, <2>4 DEF RecTypes, NoRec
  <1>12. Intact' /\ Works'
    <2>1. rec' # Records!Torn
      BY <1>10, RecordsDiffer DEF NoRec
    <2>2. doing' \notin ToolJob \cup AmendJob
      BY <1>7, <1>8
    <2>3. doing' \in PortJob => doing'.todo # <<>> /\ Distinct(doing'.todo)
      BY <1>5, <1>7, <1>8
    <2>4. Intact'
      BY <1>1, <1>3 DEF RecInv, Intact
    <2>5. QED
      BY <2>1, <2>2, <2>3, <2>4 DEF Works, Distinct
  <1>13. Traces'
    <2>1. ~severed => Rids(rec') \subseteq Has(FinalPast, FinalRec)
      <3>1. ~severed => Rids(rec) \subseteq Has(FinalPast, FinalRec)
        BY DEF RecInv, Traces
      <3>2. Rids(FinalRec) \subseteq Has(FinalPast, FinalRec)
        BY DEF Has
      <3>3. QED
        BY <1>10, <3>1, <3>2
    <2>2. ~severed => Chained(FinalPast, FinalRec, named)
      BY DEF RecInv, Traces
    <2>3. Rids(rec)' = Rids(rec') /\ UNCHANGED <<severed, named>>
      BY <1>1 DEF Rids
    <2>4. QED
      BY <1>9, <2>1, <2>2, <2>3 DEF Traces
  <1>14. Stands'
    <2>1. doing' \notin ToolJob
      BY <1>7, <1>8
    <2>2. QED
      BY <1>1, <1>9, <2>1 DEF RecInv, Stands, Tells
  <1>15. QED
    BY <1>11, <1>12, <1>13, <1>14 DEF RecInv

\* A command is killed: a torn record is of a command that had put the record
\* it replaces into the history.
LEMMA RecDies ==
  ASSUME RecInv, NEW torn \in BOOLEAN, Records!Die(torn)
  PROVE  RecInv'
  <1>1. /\ doing # Records!Idle
        /\ torn => doing.does # "portable" /\ doing.todo = <<"record">>
        /\ rec' = IF torn THEN Records!Torn ELSE rec
        /\ doing' = Records!Idle /\ severed' = (severed \/ doing.does = "portable")
        /\ standing' = FALSE
        /\ UNCHANGED <<bytes, cfg, past, named, spend>>
    BY DEF Records!Die, bytes, cfg, rec, past, named, doing, spend, standing, severed
  <1>2. doing' \in NoJob /\ doing' \notin ToolJob \cup AmendJob \cup PortJob
    BY <1>1, JobsDiffer
  <1>3. RecTypes'
    BY <1>1, <1>2 DEF RecInv, RecTypes, NoRec
  <1>4. Intact' /\ Works'
    BY <1>1, <1>2 DEF RecInv, Intact, Works
  <1>5. Stands'
    BY <1>1 DEF Stands
  <1>6. Traces'
    <2> SUFFICES ASSUME ~severed, doing.does # "portable"
                 PROVE  Chained(past, rec', named) /\ Rids(rec') \subseteq Has(past, rec')
      <3>1. FinalRec' = rec' /\ FinalPast' = past /\ Rids(rec)' = Rids(rec') /\ named' = named
        BY <1>1, <1>2, FinalIs DEF Rids
      <3>2. QED
        BY <1>1, <3>1 DEF Traces
    <2>1. doing \notin PortJob
      BY JobsDiffer
    <2>2. Chained(past, rec, named)
      BY <2>1, FinalIs DEF RecInv, Traces
    <2>3. CASE torn
      <3>1. doing \in ToolJob \cup AmendJob
        BY <1>1, <2>1, JobsDiffer DEF RecInv, RecTypes
      <3>2. Rids(rec) \subseteq Pids(past)
        BY <1>1, <2>3, <3>1 DEF RecInv, Works
      <3>3. Rids(rec') = {} /\ Rprevs(rec') = {}
        BY <1>1, <2>3, RecordsDiffer DEF NoRec
      <3>4. QED
        BY <2>2, <3>2, <3>3 DEF Chained, Has
    <2>4. CASE ~torn
      BY <1>1, <2>2, <2>4 DEF Has
    <2>5. QED
      BY <2>3, <2>4
  <1>7. QED
    BY <1>3, <1>4, <1>5, <1>6 DEF RecInv

\* A command is killed in its write of the history.
LEMMA RecDiesInHistory ==
  ASSUME RecInv, NEW k \in 0..Len(Records!Mended), NEW part0 \in BOOLEAN,
         Records!DieInHistory(k, part0)
  PROVE  RecInv'
  <1> DEFINE some == SubSeq(Records!Mended, 1, k)
             rest == IF part0 THEN <<Records!Torn>> ELSE <<>>
  <1>1. /\ past' = IF doing.does = "record" THEN Append(Records!Lines, Records!Torn) ELSE some \o rest
        /\ doing' = Records!Idle /\ severed' = TRUE /\ standing' = FALSE
        /\ UNCHANGED <<bytes, cfg, rec, named, spend>>
    BY DEF Records!DieInHistory, bytes, cfg, rec, past, named, doing, spend, standing, severed
  <1>2. doing' \in NoJob /\ doing' \notin ToolJob \cup AmendJob \cup PortJob
    BY <1>1, JobsDiffer
  <1>3. past' \in Seq(Line)
    <2>1. past \in Seq(Line) /\ Records!Torn \in Line
      BY DEF RecInv, RecTypes, Line
    <2>2. Records!Lines \in Seq(Line) /\ some \in Seq(Line)
      BY <2>1, LinesAre
    <2>3. rest \in Seq(Line)
      BY <2>1
    <2> HIDE DEF some, rest
    <2>4. Append(Records!Lines, Records!Torn) \in Seq(Line) /\ some \o rest \in Seq(Line)
      BY <2>1, <2>2, <2>3
    <2>5. QED
      BY <1>1, <2>4
  <1>4. RecTypes'
    BY <1>1, <1>2, <1>3 DEF RecInv, RecTypes
  <1>5. QED
    BY <1>1, <1>2, <1>4 DEF RecInv, Intact, Works, Traces, Stands

LEMMA RecEdits ==
  ASSUME RecInv, NEW f \in RecordFiles, Records!HandEdit(f)
  PROVE  RecInv'
  <1>1. /\ doing = Records!Idle /\ standing' = FALSE
        /\ bytes' = [bytes EXCEPT ![f] = @ + 1]
        /\ spend' = [spend EXCEPT !.edits = @ + 1]
        /\ UNCHANGED <<cfg, rec, past, named, doing, severed>>
    BY DEF Records!HandEdit, bytes, cfg, rec, past, named, doing, spend, standing, severed
  <1>2. bytes' \in [RecordFiles -> Nat] /\ spend' \in [edits : Nat, jobs : Nat]
    <2>1. bytes' \in [RecordFiles -> Nat]
      BY <1>1 DEF RecInv, RecTypes
    <2>2. \A s \in [edits : Nat, jobs : Nat] : [s EXCEPT !.edits = @ + 1] \in [edits : Nat, jobs : Nat]
      OBVIOUS
    <2>3. QED
      BY <1>1, <2>1, <2>2 DEF RecInv, RecTypes
  <1>3. RecTypes' /\ Intact' /\ Works' /\ Stands'
    <2>1. RecTypes'
      BY <1>1, <1>2 DEF RecInv, RecTypes
    <2>2. Intact' /\ Works'
      BY <1>1 DEF RecInv, Intact, Works, Rids, Pids, Distinct
    <2>3. Stands'
      BY <1>1 DEF Stands
    <2>4. QED
      BY <2>1, <2>2, <2>3
  <1>4. Traces'
    BY <1>1, FinalIs, JobsDiffer DEF RecInv, Traces
  <1>5. QED
    BY <1>3, <1>4 DEF RecInv

\* A child names the record that is there, which is found when a --portable
\* at work is through, too.
LEMMA RecNames ==
  ASSUME RecInv, Records!ChildNames
  PROVE  RecInv'
  <1>1. /\ rec \notin NoRec /\ named' = named \cup {rec.id}
        /\ UNCHANGED <<bytes, cfg, rec, past, doing, spend, standing, severed>>
    BY DEF Records!ChildNames, Records!Readable, NoRec, bytes, cfg, rec, past, named, doing, spend,
           standing, severed
  <1>2. rec \in AnyRec /\ Rids(rec) = {rec.id}
    BY <1>1 DEF RecInv, RecTypes, Rids
  <1>3. UNCHANGED <<FinalRec, FinalPast, FinalBytes>>
    BY <1>1 DEF FinalRec, FinalPast, FinalBytes, Among
  <1>4. RecTypes' /\ Intact' /\ Works' /\ Stands'
    <2>1. RecTypes'
      BY <1>1 DEF RecInv, RecTypes
    <2>2. Intact' /\ Works'
      BY <1>1 DEF RecInv, Intact, Works, Rids, Pids, Distinct
    <2>3. Stands'
      BY <1>1, <1>3 DEF RecInv, Stands, Tells
    <2>4. QED
      BY <2>1, <2>2, <2>3
  <1>5. Traces'
    <2>1. ~severed => Chained(FinalPast, FinalRec, named) /\ Rids(rec) \subseteq Has(FinalPast, FinalRec)
      BY DEF RecInv, Traces
    <2>2. ~severed => Chained(FinalPast, FinalRec, named')
      BY <1>1, <1>2, <2>1 DEF Chained
    <2>3. QED
      BY <1>1, <1>3, <2>1, <2>2 DEF Traces
  <1>6. QED
    BY <1>4, <1>5 DEF RecInv

LEMMA RecNext == RecInv /\ [Records!Next]_(Records!pvars) => RecInv'
  <1> SUFFICES ASSUME RecInv, [Records!Next]_(Records!pvars)
               PROVE  RecInv'
    OBVIOUS
  <1>1. CASE UNCHANGED Records!pvars
    <2>1. UNCHANGED <<bytes, cfg, rec, past, named, doing, spend, standing, severed>>
      BY <1>1 DEF Records!pvars, bytes, cfg, rec, past, named, doing, spend, standing, severed
    <2>2. UNCHANGED <<FinalRec, FinalPast, FinalBytes>>
      BY <2>1 DEF FinalRec, FinalPast, FinalBytes, Among
    <2>3. RecTypes'
      BY <2>1 DEF RecInv, RecTypes
    <2>4. Intact' /\ Works'
      BY <2>1 DEF RecInv, Intact, Works, Rids, Pids, Distinct
    <2>5. Stands'
      BY <2>1, <2>2 DEF RecInv, Stands, Tells
    <2>6. Traces'
      BY <2>1, <2>2 DEF RecInv, Traces
    <2>7. QED
      BY <2>3, <2>4, <2>5, <2>6 DEF RecInv
  <1>2. CASE Records!Next
    BY <1>2, RecToolWrites, RecAmend, RecKeepOld, RecUnreadable, RecWrites, RecBeginPortable,
       RecWritePortable, RecDies, RecDiesInHistory, RecEdits, RecNames
    DEF Records!Next
  <1>3. QED
    BY <1>1, <1>2

LEMMA RecHolds == RecInv => Records!ChainIsWhole
  <1> SUFFICES ASSUME RecInv, doing = Records!Idle
               PROVE  /\ ~severed =>
                           /\ named \subseteq Records!Ids /\ Records!Prevs \ {0} \subseteq Records!Ids
                           /\ \A i \in DOMAIN past : past[i] \notin {Records!Torn, Records!Spoilt}
                      /\ standing => Records!Verifies
    BY DEF Records!ChainIsWhole, doing, severed, named, standing, past
  <1>1. doing \notin PortJob
    BY JobsDiffer
  <1>2. FinalRec = rec /\ FinalPast = past /\ FinalBytes = bytes
    BY <1>1, FinalIs
  <1>3. Records!Readable <=> rec \in AnyRec
    BY RecordsDiffer DEF RecInv, RecTypes, Records!Readable, NoRec, rec
  <1>4. ASSUME ~severed
        PROVE  /\ \A i \in DOMAIN past : past[i] \notin {Records!Torn, Records!Spoilt}
               /\ Records!Past = {past[i] : i \in DOMAIN past}
    <2>1. past \in Seq(AnyRec)
      BY <1>4 DEF RecInv, Intact
    <2>2. \A i \in DOMAIN past : past[i] \in AnyRec
      BY <2>1
    <2>3. \A i \in DOMAIN past : past[i] \notin {Records!Torn, Records!Spoilt}
      BY <2>2, RecordsDiffer DEF NoRec
    <2>4. QED
      BY <2>3 DEF Records!Past, past
  <1>5. Records!Present = IF rec \in AnyRec THEN {rec} ELSE {}
    BY <1>3 DEF Records!Present, rec
  <1>6. ~severed => Records!Ids = Has(past, rec)
    BY <1>4, <1>5 DEF Records!Ids, Has, Pids, Rids
  <1>7. ~severed => Records!Prevs = Pprevs(past) \cup Rprevs(rec)
    BY <1>4, <1>5 DEF Records!Prevs, Pprevs, Rprevs
  <1>8. ~severed => Chained(past, rec, named)
    BY <1>2 DEF RecInv, Traces
  <1>9. standing => Records!Verifies
    BY <1>2, <1>3 DEF RecInv, Stands, Tells, Records!Verifies, rec, bytes
  <1>10. QED
    BY <1>4, <1>6, <1>7, <1>8, <1>9 DEF Chained


-----------------------------------------------------------------------------
(* The scratch volume (Scratch).                                            *)

held == v1
seems == v2
lying == v3
packing == v4
joined == v5
awaits == v6
deposit == v7
enlisted == v8
altered == v9

VolFolders == {"src", "pack", "repack", "pre", "part", "store", "one", "two", "camp"}
VolPacks == {"pack", "repack"}
VolPlaces == {"root", "src", "one", "camp"}

\* Where folders lie never changes, and the families register caches only.
VolTypes ==
  /\ held \in [VolFolders -> 0..2] /\ seems \in [VolFolders -> 0..2]
  /\ DOMAIN packing = VolPacks
  /\ \A l \in joined : l[1] \in VolPlaces /\ l[2] \in VolFolders
  /\ enlisted \subseteq {"one", "two"}
  /\ lying["src"] \in {"root", "camp", "pre"} /\ lying["part"] \in {"root", "pre"}
  /\ lying["two"] = "camp"
  /\ \A d \in VolFolders \ {"src", "part", "two"} : lying[d] = "root"

VolInv == VolTypes

LEMMA VolNames ==
  /\ Volume!Folders = VolFolders /\ Volume!Packs = VolPacks /\ Volume!Caches = {"one", "two"}
  /\ Volume!Source("pack") = "src" /\ Volume!Source("repack") = "pack"
  /\ \A d : Volume!There(d) <=> held[d] # 0
  BY DEF Volume!Folders, VolFolders, Volume!Packs, VolPacks, Volume!Caches, Volume!Source, Volume!There,
         held

LEMMA VolInit == Volume!Init => VolInv
  <1> SUFFICES ASSUME Volume!Init PROVE VolInv
    OBVIOUS
  <1>1. /\ held = [d \in VolFolders |-> IF d \in VolPacks THEN 0 ELSE 1] /\ seems = held
        /\ packing = [p \in VolPacks |-> Volume!Nothing]
        /\ joined = {} /\ enlisted \in {{"one"}, {"one", "two"}}
    BY VolNames DEF Volume!Init, held, seems, packing, joined, enlisted
  <1>2. PICK s \in {"root", "camp", "pre"}, p \in {"root", "pre"} :
          lying = [d \in VolFolders |-> CASE d = "src" -> s [] d = "part" -> p
                                          [] d = "two" -> "camp" [] OTHER -> "root"]
    BY VolNames DEF Volume!Init, lying
  <1>3. /\ lying["src"] = s /\ lying["part"] = p /\ lying["two"] = "camp"
        /\ \A d \in VolFolders \ {"src", "part", "two"} : lying[d] = "root"
    <2>1. {"src", "part", "two"} \subseteq VolFolders
      BY DEF VolFolders
    <2>2. QED
      BY <1>2, <2>1
  <1>4. VolTypes
    BY <1>1, <1>3 DEF VolTypes
  <1>5. QED
    BY <1>4 DEF VolInv

LEMMA VolPackFolder ==
  ASSUME VolInv, NEW p \in VolPacks, NEW plain \in BOOLEAN, Volume!PackFolder(p, plain)
  PROVE  VolInv'
  <1> DEFINE s == Volume!Source(p)
             note == [is |-> "record", plain |-> plain, saw |-> seems[s], of |-> held[s],
                      out |-> held[s], looks |-> seems[s]]
  <1>1. /\ held[s] # 0
        /\ held' = [held EXCEPT ![p] = held[s]] /\ seems' = [seems EXCEPT ![p] = seems[s]]
        /\ packing' = [packing EXCEPT ![p] = note]
        /\ UNCHANGED <<lying, joined, enlisted>>
    BY VolNames DEF Volume!PackFolder, held, seems, packing, lying, joined, enlisted
  <1>2. s \in VolFolders /\ p \in VolFolders
    BY VolNames DEF VolPacks, VolFolders
  <1> HIDE DEF s, note
  <1>3. VolTypes'
    BY <1>1, <1>2 DEF VolInv, VolTypes
  <1>4. QED
    BY <1>3 DEF VolInv

LEMMA VolFile ==
  ASSUME VolInv, Volume!File
  PROVE  VolInv'
  <1>1. /\ held' = [held EXCEPT !["store"] = held["part"]]
        /\ seems' = [seems EXCEPT !["store"] = seems["part"]]
        /\ UNCHANGED <<lying, packing, joined, enlisted>>
    BY DEF Volume!File, held, seems, packing, lying, joined, enlisted
  <1>2. QED
    BY <1>1 DEF VolInv, VolTypes, VolFolders

LEMMA VolEdit ==
  ASSUME VolInv, NEW d \in VolFolders, NEW plainly \in BOOLEAN, Volume!Edit(d, plainly)
  PROVE  VolInv'
  <1>1. /\ held[d] # 0
        /\ held' = [held EXCEPT ![d] = 3 - @]
        /\ seems' = IF plainly THEN [seems EXCEPT ![d] = held'[d]] ELSE seems
        /\ UNCHANGED <<lying, packing, joined, enlisted>>
    BY VolNames DEF Volume!Edit, held, seems, packing, lying, joined, enlisted
  <1>2. held' \in [VolFolders -> 0..2] /\ seems' \in [VolFolders -> 0..2]
    <2>1. held[d] \in 0..2 /\ 3 - held[d] \in 0..2
      BY <1>1 DEF VolInv, VolTypes
    <2>2. held' \in [VolFolders -> 0..2]
      BY <1>1, <2>1 DEF VolInv, VolTypes
    <2>3. QED
      BY <1>1, <2>2 DEF VolInv, VolTypes
  <1>3. QED
    BY <1>1, <1>2 DEF VolInv, VolTypes

LEMMA VolLink ==
  ASSUME VolInv, NEW place \in VolPlaces, NEW d \in VolFolders, Volume!Link(place, d)
  PROVE  VolInv'
  <1>1. /\ joined' = joined \cup {<<place, d>>}
        /\ UNCHANGED <<held, seems, lying, packing, enlisted>>
    BY DEF Volume!Link, held, seems, packing, lying, joined, enlisted
  <1>2. QED
    BY <1>1 DEF VolInv, VolTypes

LEMMA VolReclaim ==
  ASSUME VolInv, NEW full \in BOOLEAN, Volume!Reclaim(full)
  PROVE  VolInv'
  <1> DEFINE dead == UNION {{d \in VolFolders : Volume!Inside(d, e)} : e \in Volume!RmLines(full)}
  <1>1. /\ held' = [d \in VolFolders |-> IF d \in dead THEN 0 ELSE held[d]]
        /\ joined' = {l \in joined : l[1] \notin dead}
        /\ UNCHANGED <<seems, lying, packing, enlisted>>
    BY VolNames DEF Volume!Reclaim, held, seems, packing, lying, joined, enlisted
  <1> HIDE DEF dead
  <1>2. QED
    BY <1>1 DEF VolInv, VolTypes

LEMMA VolNext == VolInv /\ [Volume!Next]_(Volume!svars) => VolInv'
  <1> SUFFICES ASSUME VolInv, [Volume!Next]_(Volume!svars)
               PROVE  VolInv'
    OBVIOUS
  <1>1. ASSUME UNCHANGED <<held, seems, lying, packing, joined, enlisted>> PROVE VolInv'
    BY <1>1 DEF VolInv, VolTypes
  <1>2. CASE UNCHANGED Volume!svars
    BY <1>1, <1>2 DEF Volume!svars, held, seems, lying, packing, joined, enlisted
  <1>3. ASSUME NEW q, Volume!QueueMoves(q) PROVE VolInv'
    BY <1>1, <1>3 DEF Volume!QueueMoves, held, seems, lying, packing, joined, enlisted
  <1>4. CASE Volume!Next
    BY <1>3, <1>4, VolNames, VolPackFolder, VolFile, VolEdit, VolLink, VolReclaim
    DEF Volume!Next, VolPlaces
  <1>5. QED
    BY <1>2, <1>4


\* What a listed folder is evidence of: no link from outside resolves into
\* it, and a copy is where the survey says.
VolItems(full) == Volume!PackedListed(full) \cup Volume!PreflightListed \cup Volume!FitsListed(full)
                  \cup Volume!CachesListed

LEMMA VolListed ==
  ASSUME NEW full, NEW e \in VolItems(full)
  PROVE  /\ ~Volume!LinkedInto(e) /\ held[e] # 0
         /\ \/ /\ e \in {"src", "pack"}
               /\ \E p \in VolPacks : /\ Volume!Source(p) = e /\ packing[p] # Volume!Nothing
                                      /\ held[p] # 0 /\ (full => held[p] = packing[p].out)
                                      /\ seems[e] = packing[p].saw
            \/ e = "pre" /\ awaits # "running"
            \/ e = "part" /\ held["store"] # 0 /\ held["store"] = held["part"]
            \/ e \in {"one", "two"} \ enlisted /\ \E r \in enlisted : held[r] # 0 /\ held[r] = held[e]
  <1>1. CASE e \in Volume!PackedListed(full)
    <2>1. e \in {"src", "pack"} /\ held[e] # 0 /\ ~Volume!LinkedInto(e)
      BY <1>1, VolNames DEF Volume!PackedListed
    <2>2. PICK p \in VolPacks : /\ Volume!Source(p) = e /\ held[p] # 0 /\ packing[p] # Volume!Nothing
                                /\ Volume!PackedOk(p, full) /\ seems[e] = packing[p].saw
      BY <1>1, VolNames DEF Volume!PackedListed, packing, seems
    <2>3. full => held[p] = packing[p].out
      BY <2>2 DEF Volume!PackedOk, held, packing
    <2>4. QED
      BY <2>1, <2>2, <2>3
  <1>2. CASE e \in Volume!PreflightListed
    <2>1. e = "pre" /\ held[e] # 0 /\ ~Volume!LinkedInto(e) /\ awaits \in {"passed", "died", "no record"}
      BY <1>2, VolNames DEF Volume!PreflightListed, awaits
    <2>2. QED
      BY <2>1
  <1>3. CASE e \in Volume!FitsListed(full)
    <2>1. /\ e = "part" /\ held[e] # 0 /\ ~Volume!LinkedInto(e)
          /\ held["store"] # 0 /\ held["store"] = held["part"]
      BY <1>3, VolNames DEF Volume!FitsListed, held
    <2>2. QED
      BY <2>1
  <1>4. CASE e \in Volume!CachesListed
    <2>1. /\ e \in {"one", "two"} \ enlisted /\ held[e] # 0 /\ ~Volume!LinkedInto(e)
          /\ \E r \in enlisted : held[r] # 0 /\ held[r] = held[e]
      BY <1>4, VolNames DEF Volume!CachesListed, held, enlisted
    <2>2. QED
      BY <2>1
  <1>5. QED
    BY <1>1, <1>2, <1>3, <1>4 DEF VolItems

\* What the rm lines of a survey delete has another copy they do not delete.
LEMMA VolHolds ==
  ASSUME VolInv, NEW full \in BOOLEAN, Volume!Reclaim(full)
  PROVE  Volume!NothingUniqueGoes(full)
  <1> DEFINE lines == Volume!RmLines(full)
             dead == UNION {{d \in VolFolders : Volume!Inside(d, e)} : e \in lines}
  <1>1. /\ held' = [d \in VolFolders |-> IF d \in dead THEN 0 ELSE held[d]]
        /\ joined' = {l \in joined : l[1] \notin dead}
        /\ UNCHANGED <<packing, enlisted, awaits>>
    BY VolNames DEF Volume!Reclaim, held, packing, joined, enlisted, awaits
  <1>2. lines \subseteq VolItems(full)
    BY DEF Volume!RmLines, Volume!Outermost, VolItems
  <1>3. \A d, e : Volume!Inside(d, e) <=> d = e \/ (d # "root" /\ lying[d] = e)
    BY DEF Volume!Inside, lying
  <1> HIDE DEF lines
  \* What is listed: of the protected folders none.
  <1>4. \A e \in lines : e \in {"src", "pack", "pre", "part"} \cup ({"one", "two"} \ enlisted)
    BY <1>2, VolListed
  <1>5. \A d \in VolFolders : d \in dead <=> d \in lines \/ (lying[d] = "pre" /\ "pre" \in lines)
    <2> SUFFICES ASSUME NEW d \in VolFolders
                 PROVE  d \in dead <=> d \in lines \/ (lying[d] = "pre" /\ "pre" \in lines)
      OBVIOUS
    <2>1. d # "root"
      BY DEF VolFolders
    <2>2. lying[d] \in {"root", "camp", "pre"}
      BY DEF VolInv, VolTypes
    <2>3. "root" \notin lines /\ "camp" \notin lines
      BY <1>4
    <2>4. d \in dead <=> \E e \in lines : d = e \/ lying[d] = e
      BY <1>3, <2>1
    <2>5. QED
      BY <2>2, <2>3, <2>4
  <1> HIDE DEF dead
  <1>6. \A d \in VolFolders : held'[d] = IF d \in dead THEN 0 ELSE held[d]
    BY <1>1
  <1>7. \A d \in {"camp", "store", "repack"} \cup enlisted : d \in VolFolders /\ d \notin dead
    <2>1. enlisted \subseteq {"one", "two"} /\ lying["two"] = "camp"
          /\ \A d \in {"camp", "store", "repack", "one"} : lying[d] = "root"
      BY DEF VolInv, VolTypes, VolFolders
    <2>2. \A d \in {"camp", "store", "repack"} \cup enlisted :
            d \in VolFolders /\ d \notin lines /\ lying[d] # "pre"
      BY <1>4, <2>1 DEF VolFolders
    <2>3. QED
      BY <1>5, <2>2
  \* A source that looks as it did when it was packed, and looked and looks
  \* like what it holds, holds what was packed.
  <1>8. ASSUME NEW e \in {"src", "pack"}, ~Volume!Disguised(e), NEW p \in VolPacks,
               Volume!Source(p) = e, packing[p] # Volume!Nothing, seems[e] = packing[p].saw
        PROVE  packing[p].of = held[e]
    <2>1. seems[e] = held[e] /\ packing[p].saw = packing[p].of
      BY <1>8, VolNames DEF Volume!Disguised, held, seems, packing
    <2>2. QED
      BY <1>8, <2>1
  <1>9. ASSUME NEW d \in {"src", "pack"}, d \in lines, ~Volume!Disguised(d),
               d = "src" /\ "pack" \in dead => ~Volume!Disguised("pack")
        PROVE  Volume!Recoverable(d, full)
    <2>1. PICK p \in VolPacks : /\ Volume!Source(p) = d /\ packing[p] # Volume!Nothing
                                /\ held[p] # 0 /\ (full => held[p] = packing[p].out)
                                /\ seems[d] = packing[p].saw
      <3>1. d \in VolItems(full) /\ d # "pre" /\ d # "part" /\ d \notin {"one", "two"}
        BY <1>2, <1>9
      <3>2. QED
        BY <3>1, VolListed
    <2>2. p \in VolPacks
      OBVIOUS
    <2>3. packing[p].of = held[d]
      BY <1>8, <1>9, <2>1
    <2>4. p \in VolFolders
      BY DEF VolPacks, VolFolders
    <2>5. CASE p \notin dead
      <3>1. held'[p] = held[p]
        BY <1>6, <2>4, <2>5
      <3>2. Volume!Unpacks(p, held[d], full)
        <4>1. packing'[p] = packing[p] /\ held'[p] # 0
          BY <1>1, <2>1, <3>1
        <4>2. full => held'[p] = packing'[p].out
          BY <2>1, <3>1, <4>1
        <4>3. packing'[p] # Volume!Nothing /\ packing'[p].of = held[d]
          BY <2>1, <2>3, <4>1
        <4>4. QED
          BY <4>1, <4>2, <4>3 DEF Volume!Unpacks, held, packing
      <3>3. QED
        BY <2>1, <3>2, VolNames DEF Volume!Recoverable, held
    <2>6. CASE p \in dead
      <3>1. p = "pack" /\ d = "src"
        BY <1>7, <2>1, <2>6, VolNames DEF VolPacks
      <3>2. "pack" \in lines
        <4>1. lying["pack"] = "root"
          BY DEF VolInv, VolTypes, VolFolders
        <4>2. QED
          BY <1>5, <2>4, <2>6, <3>1, <4>1
      <3>3. PICK q \in VolPacks : /\ Volume!Source(q) = "pack" /\ packing[q] # Volume!Nothing
                                  /\ held[q] # 0 /\ (full => held[q] = packing[q].out)
                                  /\ seems["pack"] = packing[q].saw
        <4>1. "pack" \in VolItems(full)
          BY <1>2, <3>2
        <4>2. QED
          BY <4>1, VolListed
      <3>4. q = "repack"
        BY <3>3, VolNames DEF VolPacks
      <3>5. ~Volume!Disguised("pack")
        BY <1>9, <2>6, <3>1
      <3>6. packing["repack"].of = held["pack"]
        BY <1>8, <3>3, <3>4, <3>5
      <3>7. held'["repack"] = held["repack"]
        BY <1>6, <1>7
      <3>8. Volume!Unpacks("repack", held["pack"], full)
        <4>1. packing'["repack"] = packing["repack"] /\ held'["repack"] # 0
          BY <1>1, <3>3, <3>4, <3>7
        <4>2. full => held'["repack"] = packing'["repack"].out
          BY <3>3, <3>4, <3>7, <4>1
        <4>3. packing'["repack"] # Volume!Nothing /\ packing'["repack"].of = held["pack"]
          BY <3>3, <3>4, <3>6, <4>1
        <4>4. QED
          BY <4>1, <4>2, <4>3 DEF Volume!Unpacks, held, packing
      <3>9. packing["pack"] # Volume!Nothing /\ packing["pack"].of = held["src"]
        BY <2>1, <2>3, <3>1
      <3>10. QED
        BY <3>1, <3>8, <3>9 DEF Volume!Recoverable, held, packing
    <2>7. QED
      BY <2>5, <2>6
  <1>10. ASSUME NEW d \in VolFolders, held[d] # 0, held'[d] = 0
         PROVE  \/ Volume!Inside(d, "pre") /\ awaits # "running"
                \/ d \in {"src", "pack"} /\ (Volume!Recoverable(d, full) \/ Volume!Disguised(d))
                \/ d = "src" /\ held["pack"] # 0 /\ held'["pack"] = 0 /\ Volume!Disguised("pack")
                \/ d = "part" /\ held'["store"] = held[d]
                \/ d \in {"one", "two"} /\ \E r \in enlisted : held'[r] = held[d]
    <2>1. d \in dead
      BY <1>6, <1>10
    <2>2. "pre" \in lines => awaits # "running"
      <3>1. "pre" \in VolItems(full) => awaits # "running"
        BY VolListed
      <3>2. QED
        BY <1>2, <3>1
    <2>3. CASE lying[d] = "pre" /\ "pre" \in lines
      <3>1. Volume!Inside(d, "pre")
        BY <1>3, <2>3 DEF VolFolders
      <3>2. QED
        BY <2>2, <2>3, <3>1
    <2>4. CASE d = "pre" /\ d \in lines
      BY <1>3, <2>2, <2>4
    <2>5. CASE d \in {"src", "pack"} /\ d \in lines
      <3>1. "pack" \in dead => held["pack"] # 0 /\ held'["pack"] = 0
        <4>1. "pack" \in VolFolders /\ lying["pack"] = "root"
          BY DEF VolInv, VolTypes, VolFolders
        <4>2. "pack" \in lines => held["pack"] # 0
          BY <1>2, VolListed
        <4>3. QED
          BY <1>5, <1>6, <4>1, <4>2
      <3>2. CASE Volume!Disguised(d)
        BY <2>5, <3>2
      <3>3. CASE d = "src" /\ "pack" \in dead /\ Volume!Disguised("pack")
        BY <3>1, <3>3
      <3>4. CASE ~Volume!Disguised(d) /\ (d = "src" /\ "pack" \in dead => ~Volume!Disguised("pack"))
        BY <1>9, <2>5, <3>4
      <3>5. QED
        BY <3>2, <3>3, <3>4
    <2>6. CASE d = "part" /\ d \in lines
      <3>1. held["store"] = held["part"]
        BY <1>2, <2>6, VolListed
      <3>2. held'["store"] = held["store"]
        BY <1>6, <1>7
      <3>3. QED
        BY <2>6, <3>1, <3>2
    <2>7. CASE d \in {"one", "two"} \ enlisted /\ d \in lines
      <3>1. \E r \in enlisted : held[r] # 0 /\ held[r] = held[d]
        BY <1>2, <2>7, VolListed
      <3>2. \A r \in enlisted : held'[r] = held[r]
        BY <1>6, <1>7
      <3>3. QED
        BY <2>7, <3>1, <3>2
    <2>8. d \in lines \/ (lying[d] = "pre" /\ "pre" \in lines)
      BY <1>5, <2>1
    <2>9. QED
      BY <1>4, <2>3, <2>4, <2>5, <2>6, <2>7, <2>8
  \* A link that is left comes from outside what is deleted.
  <1>11. ASSUME NEW l \in joined', held[l[2]] # 0 PROVE held'[l[2]] # 0
    <2>1. l \in joined /\ l[1] \notin dead /\ l[1] \in VolPlaces /\ l[2] \in VolFolders
      BY <1>1, <1>11 DEF VolInv, VolTypes
    <2>2. ASSUME l[2] \in dead PROVE FALSE
      <3>1. PICK e \in lines : Volume!Inside(l[2], e)
        BY <2>2 DEF dead
      <3>2. ~Volume!LinkedInto(e)
        BY <1>2, VolListed
      <3>3. Volume!Inside(l[1], e)
        BY <2>1, <3>1, <3>2 DEF Volume!LinkedInto, joined
      <3>4. l[1] # "root"
        BY <1>3, <1>4, <3>3
      <3>5. l[1] \in VolFolders
        BY <2>1, <3>4 DEF VolPlaces, VolFolders
      <3>6. l[1] \in dead
        BY <3>3, <3>5 DEF dead
      <3>7. QED
        BY <2>1, <3>6
    <2>3. QED
      BY <1>6, <1>11, <2>1, <2>2
  <1>12. /\ {d \in VolFolders : held[d] # 0 /\ held'[d] = 0}
              \cap ({"camp", "store", "repack"} \cup enlisted) = {}
    BY <1>6, <1>7
  <1> DEFINE removed == {d \in VolFolders : held[d] # 0 /\ held'[d] = 0}
  <1>13. ASSUME NEW d \in removed
         PROVE  \/ Volume!Inside(d, "pre") /\ awaits # "running"
                \/ d \in {"src", "pack"} /\ (Volume!Recoverable(d, full) \/ Volume!Disguised(d))
                \/ d = "src" /\ "pack" \in removed /\ Volume!Disguised("pack")
                \/ d = "part" /\ held'["store"] = held[d]
                \/ d \in {"one", "two"} /\ \E r \in enlisted : held'[r] = held[d]
    <2>1. "pack" \in VolFolders
      BY DEF VolFolders
    <2>2. QED
      BY <1>10, <1>13, <2>1
  <1>14. removed = {d \in Volume!Folders : Volume!There(d) /\ held'[d] = 0}
    BY VolNames
  <1> HIDE DEF removed
  <1>15. removed \cap ({"camp", "store", "repack"} \cup enlisted) = {}
    BY <1>12 DEF removed
  <1>16. \A l \in joined' : Volume!There(l[2]) => held'[l[2]] # 0
    BY <1>11, VolNames
  <1>17. QED
    BY <1>13, <1>14, <1>15, <1>16, VolNames
    DEF Volume!NothingUniqueGoes, held, joined, awaits, enlisted

-----------------------------------------------------------------------------
(* Artifact folders (ArtifactDirs): plans.                                  *)

WritesOf(s) == {s[i] : i \in DOMAIN s}

\* No write of B comes after one of A.
Ordered(s, A, B) == \A i, j \in DOMAIN s : i < j /\ s[i] \in A => s[j] \notin B

LEMMA JoinIsSeq ==
  ASSUME NEW S, NEW s \in Seq(S), NEW T, NEW t \in Seq(T)
  PROVE  /\ s \o t \in Seq(S \cup T) /\ Len(s) \in Nat /\ Len(t) \in Nat
         /\ DOMAIN s = 1..Len(s) /\ DOMAIN t = 1..Len(t)
         /\ Len(s \o t) = Len(s) + Len(t) /\ DOMAIN (s \o t) = 1..(Len(s) + Len(t))
         /\ \A i \in 1..Len(s) : (s \o t)[i] = s[i]
         /\ \A i \in 1..Len(t) : (s \o t)[Len(s) + i] = t[i]
         /\ \A i \in 1..(Len(s) + Len(t)) :
              i \in 1..Len(s) \/ (i - Len(s) \in 1..Len(t) /\ (s \o t)[i] = t[i - Len(s)] /\ i > Len(s))
  <1>1. s \in Seq(S \cup T) /\ t \in Seq(S \cup T)
    BY SeqMonotonic
  <1>2. /\ s \o t \in Seq(S \cup T) /\ Len(s \o t) = Len(s) + Len(t)
        /\ \A i \in 1..(Len(s) + Len(t)) : (s \o t)[i] = IF i <= Len(s) THEN s[i] ELSE t[i - Len(s)]
    BY <1>1, ConcatProperties
  <1>3. Len(s) \in Nat /\ Len(t) \in Nat /\ DOMAIN s = 1..Len(s) /\ DOMAIN t = 1..Len(t)
        /\ DOMAIN (s \o t) = 1..Len(s \o t)
    BY <1>1, <1>2, LenProperties
  <1>4. \A i \in 1..Len(t) : (s \o t)[Len(s) + i] = t[i]
    <2> TAKE i \in 1..Len(t)
    <2>1. Len(s) + i \in 1..(Len(s) + Len(t)) /\ ~(Len(s) + i <= Len(s)) /\ (Len(s) + i) - Len(s) = i
      BY <1>3
    <2>2. QED
      BY <1>2, <2>1
  <1>5. QED
    BY <1>2, <1>3, <1>4

LEMMA JoinWrites ==
  ASSUME NEW S, NEW s \in Seq(S), NEW T, NEW t \in Seq(T)
  PROVE  WritesOf(s \o t) = WritesOf(s) \cup WritesOf(t)
  <1>1. \A x \in WritesOf(s \o t) : x \in WritesOf(s) \cup WritesOf(t)
    BY JoinIsSeq DEF WritesOf
  <1>2. \A x \in WritesOf(s) : x \in WritesOf(s \o t)
    <2> TAKE x \in WritesOf(s)
    <2>1. PICK i \in 1..Len(s) : x = s[i]
      BY JoinIsSeq DEF WritesOf
    <2>2. i \in DOMAIN (s \o t) /\ (s \o t)[i] = x
      BY <2>1, JoinIsSeq
    <2>3. QED
      BY <2>2 DEF WritesOf
  <1>3. \A x \in WritesOf(t) : x \in WritesOf(s \o t)
    <2> TAKE x \in WritesOf(t)
    <2>1. PICK i \in 1..Len(t) : x = t[i]
      BY JoinIsSeq DEF WritesOf
    <2>2. Len(s) + i \in DOMAIN (s \o t) /\ (s \o t)[Len(s) + i] = x
      BY <2>1, JoinIsSeq
    <2>3. QED
      BY <2>2 DEF WritesOf
  <1>4. QED
    BY <1>1, <1>2, <1>3

LEMMA JoinOrdered ==
  ASSUME NEW S, NEW s \in Seq(S), NEW T, NEW t \in Seq(T), NEW A, NEW B,
         Ordered(s, A, B), Ordered(t, A, B), WritesOf(s) \cap A = {} \/ WritesOf(t) \cap B = {}
  PROVE  Ordered(s \o t, A, B)
  <1> SUFFICES ASSUME NEW i \in DOMAIN (s \o t), NEW j \in DOMAIN (s \o t), i < j,
                      (s \o t)[i] \in A, (s \o t)[j] \in B
               PROVE  FALSE
    BY DEF Ordered
  <1>1. CASE j \in 1..Len(s)
    <2>1. i \in 1..Len(s) /\ (s \o t)[i] = s[i] /\ (s \o t)[j] = s[j] /\ DOMAIN s = 1..Len(s)
      BY <1>1, JoinIsSeq
    <2>2. QED
      BY <2>1, <1>1 DEF Ordered
  <1>2. CASE i \in 1..Len(s) /\ j \notin 1..Len(s)
    <2>1. (s \o t)[i] \in WritesOf(s)
      BY <1>2, JoinIsSeq DEF WritesOf
    <2>2. (s \o t)[j] \in WritesOf(t)
      BY <1>2, JoinIsSeq DEF WritesOf
    <2>3. QED
      BY <2>1, <2>2
  <1>3. CASE i \notin 1..Len(s) /\ j \notin 1..Len(s)
    <2>1. /\ i - Len(s) \in DOMAIN t /\ j - Len(s) \in DOMAIN t /\ i - Len(s) < j - Len(s)
          /\ (s \o t)[i] = t[i - Len(s)] /\ (s \o t)[j] = t[j - Len(s)]
      BY <1>3, JoinIsSeq
    <2>2. QED
      BY <2>1 DEF Ordered
  <1>4. QED
    BY <1>1, <1>2, <1>3

LEMMA ApartOrdered ==
  ASSUME NEW s, NEW A, NEW B, WritesOf(s) \cap A = {} \/ WritesOf(s) \cap B = {}
  PROVE  Ordered(s, A, B)
  BY DEF Ordered, WritesOf

\* The next write done.
LEMMA TailIs ==
  ASSUME NEW S, NEW s \in Seq(S), s # <<>>
  PROVE  /\ Tail(s) \in Seq(S) /\ 1 \in DOMAIN s /\ s[1] \in WritesOf(s) /\ WritesOf(Tail(s)) \subseteq WritesOf(s)
         /\ Len(s) \in Nat /\ DOMAIN s = 1..Len(s) /\ DOMAIN Tail(s) = 1..(Len(s) - 1)
         /\ \A i \in DOMAIN Tail(s) : i + 1 \in DOMAIN s /\ Tail(s)[i] = s[i + 1]
         /\ \A i \in DOMAIN s : i = 1 \/ (i - 1 \in DOMAIN Tail(s) /\ Tail(s)[i - 1] = s[i])
         /\ \A w \in WritesOf(s) : w = s[1] \/ w \in WritesOf(Tail(s))
  <1>1. /\ Tail(s) \in Seq(S) /\ Len(Tail(s)) = Len(s) - 1
        /\ \A i \in 1..Len(Tail(s)) : Tail(s)[i] = s[i + 1]
    BY HeadTailProperties
  <1>2. Len(s) \in Nat /\ DOMAIN s = 1..Len(s) /\ DOMAIN Tail(s) = 1..Len(Tail(s)) /\ Len(s) > 0
    <2>1. Len(s) \in Nat /\ DOMAIN s = 1..Len(s) /\ DOMAIN Tail(s) = 1..Len(Tail(s))
      BY <1>1, LenProperties
    <2>2. Len(s) # 0
      BY EmptySeq
    <2>3. QED
      BY <2>1, <2>2
  <1>3. \A i \in DOMAIN Tail(s) : i + 1 \in DOMAIN s /\ Tail(s)[i] = s[i + 1]
    BY <1>1, <1>2
  <1>4. \A i \in DOMAIN s : i = 1 \/ (i - 1 \in DOMAIN Tail(s) /\ Tail(s)[i - 1] = s[i])
    <2> TAKE i \in DOMAIN s
    <2>1. i # 1 => i - 1 \in 1..Len(Tail(s)) /\ (i - 1) + 1 = i
      BY <1>1, <1>2
    <2>2. QED
      BY <2>1, <1>1, <1>2
  <1>5. \A w \in WritesOf(s) : w = s[1] \/ w \in WritesOf(Tail(s))
    <2> TAKE w \in WritesOf(s)
    <2>1. PICK i \in DOMAIN s : w = s[i]
      BY DEF WritesOf
    <2>2. CASE i # 1
      <3>1. i - 1 \in DOMAIN Tail(s) /\ Tail(s)[i - 1] = w
        BY <1>4, <2>1, <2>2
      <3>2. QED
        BY <3>1 DEF WritesOf
    <2>3. QED
      BY <2>1, <2>2
  <1>6. WritesOf(Tail(s)) \subseteq WritesOf(s)
    BY <1>3 DEF WritesOf
  <1>7. DOMAIN Tail(s) = 1..(Len(s) - 1) /\ 1 \in DOMAIN s /\ s[1] \in WritesOf(s)
    BY <1>1, <1>2 DEF WritesOf
  <1>8. QED
    BY <1>1, <1>2, <1>3, <1>4, <1>5, <1>6, <1>7

LEMMA TailOrdered ==
  ASSUME NEW S, NEW s \in Seq(S), s # <<>>, NEW A, NEW B, Ordered(s, A, B)
  PROVE  /\ Ordered(Tail(s), A, B)
         /\ s[1] \in A => WritesOf(Tail(s)) \cap B = {}
  <1>1. Ordered(Tail(s), A, B)
    <2> SUFFICES ASSUME NEW i \in DOMAIN Tail(s), NEW j \in DOMAIN Tail(s), i < j, Tail(s)[i] \in A
                 PROVE  Tail(s)[j] \notin B
      BY DEF Ordered
    <2>1. /\ i + 1 \in DOMAIN s /\ j + 1 \in DOMAIN s /\ i + 1 < j + 1
          /\ s[i + 1] = Tail(s)[i] /\ s[j + 1] = Tail(s)[j]
      BY TailIs
    <2>2. QED
      BY <2>1 DEF Ordered
  <1>2. ASSUME s[1] \in A, NEW x \in WritesOf(Tail(s)) PROVE x \notin B
    <2>1. PICK i \in DOMAIN Tail(s) : x = Tail(s)[i]
      BY DEF WritesOf
    <2>2. i + 1 \in DOMAIN s /\ 1 \in DOMAIN s /\ 1 < i + 1 /\ s[i + 1] = x
      BY <2>1, TailIs
    <2>3. QED
      BY <1>2, <2>2 DEF Ordered
  <1>3. QED
    BY <1>1, <1>2

\* A plan is a sequence of its writes.
PlanOf(s) == s \in Seq(WritesOf(s))

LEMMA PlanIs ==
  ASSUME NEW S, NEW s \in Seq(S)
  PROVE  PlanOf(s)
  <1>1. Len(s) \in Nat /\ DOMAIN s = 1..Len(s) /\ s = [i \in 1..Len(s) |-> s[i]]
    BY LenProperties
  <1>2. \A i \in 1..Len(s) : s[i] \in WritesOf(s)
    BY <1>1 DEF WritesOf
  <1>3. s \in [1..Len(s) -> WritesOf(s)]
    BY <1>1, <1>2
  <1>4. QED
    BY <1>1, <1>3, SeqDef DEF PlanOf

LEMMA PlanJoin ==
  ASSUME NEW s, NEW t, PlanOf(s), PlanOf(t)
  PROVE  PlanOf(s \o t) /\ WritesOf(s \o t) = WritesOf(s) \cup WritesOf(t)
  BY JoinIsSeq, JoinWrites, PlanIs DEF PlanOf

LEMMA ShortPlans ==
  /\ PlanOf(<<>>) /\ WritesOf(<<>>) = {}
  /\ \A a : PlanOf(<<a>>) /\ WritesOf(<<a>>) = {a}
  /\ \A a, b : PlanOf(<<a, b>>) /\ WritesOf(<<a, b>>) = {a, b}
  /\ \A a, b, c : PlanOf(<<a, b, c>>) /\ WritesOf(<<a, b, c>>) = {a, b, c}
  /\ \A a, b, c, d : PlanOf(<<a, b, c, d>>) /\ WritesOf(<<a, b, c, d>>) = {a, b, c, d}
  <1>1. PlanOf(<<>>) /\ WritesOf(<<>>) = {}
    BY DEF PlanOf, WritesOf
  <1>2. \A a : PlanOf(<<a>>) /\ WritesOf(<<a>>) = {a}
    <2> TAKE a
    <2>1. <<a>> \in Seq({a}) /\ DOMAIN <<a>> = {1} /\ <<a>>[1] = a
      OBVIOUS
    <2>2. QED
      BY <2>1, PlanIs DEF WritesOf
  <1>3. \A a, b : PlanOf(<<a, b>>) /\ WritesOf(<<a, b>>) = {a, b}
    <2> TAKE a, b
    <2>1. <<a, b>> \in Seq({a, b}) /\ DOMAIN <<a, b>> = {1, 2} /\ <<a, b>>[1] = a /\ <<a, b>>[2] = b
      OBVIOUS
    <2>2. QED
      BY <2>1, PlanIs DEF WritesOf
  <1>4. \A a, b, c : PlanOf(<<a, b, c>>) /\ WritesOf(<<a, b, c>>) = {a, b, c}
    <2> TAKE a, b, c
    <2>1. <<a, b, c>> \in Seq({a, b, c}) /\ DOMAIN <<a, b, c>> = {1, 2, 3}
          /\ <<a, b, c>>[1] = a /\ <<a, b, c>>[2] = b /\ <<a, b, c>>[3] = c
      OBVIOUS
    <2>2. QED
      BY <2>1, PlanIs DEF WritesOf
  <1>5. \A a, b, c, d : PlanOf(<<a, b, c, d>>) /\ WritesOf(<<a, b, c, d>>) = {a, b, c, d}
    <2> TAKE a, b, c, d
    <2>1. <<a, b, c, d>> \in Seq({a, b, c, d}) /\ DOMAIN <<a, b, c, d>> = {1, 2, 3, 4}
          /\ <<a, b, c, d>>[1] = a /\ <<a, b, c, d>>[2] = b /\ <<a, b, c, d>>[3] = c /\ <<a, b, c, d>>[4] = d
      OBVIOUS
    <2>2. QED
      BY <2>1, PlanIs DEF WritesOf
  <1>6. QED
    BY <1>1, <1>2, <1>3, <1>4, <1>5

LEMMA PlanEach ==
  ASSUME NEW W
  PROVE  PlanOf(Folders!Each(W)) /\ WritesOf(Folders!Each(W)) = {W[l] : l \in DOMAIN W \cap Folders!Shards}
  <1> DEFINE o(l) == IF l \in DOMAIN W THEN <<W[l]>> ELSE <<>>
             T(s, D) == PlanOf(s) /\ WritesOf(s) = {W[l] : l \in DOMAIN W \cap D}
  <1>1. \A l : T(o(l), {l})
    <2> TAKE l
    <2>1. CASE l \in DOMAIN W
      <3>1. DOMAIN W \cap {l} = {l} /\ o(l) = <<W[l]>>
        BY <2>1
      <3>2. QED
        BY <3>1, ShortPlans
    <2>2. CASE l \notin DOMAIN W
      <3>1. DOMAIN W \cap {l} = {} /\ o(l) = <<>>
        BY <2>2
      <3>2. QED
        BY <3>1, ShortPlans
    <2>3. QED
      BY <2>1, <2>2
  <1> HIDE DEF o
  <1>2. \A s, D, l : T(s, D) => T(s \o o(l), D \cup {l})
    <2> TAKE s, D, l
    <2> HAVE T(s, D)
    <2>1. PlanOf(s \o o(l)) /\ WritesOf(s \o o(l)) = WritesOf(s) \cup WritesOf(o(l))
      BY <1>1, PlanJoin
    <2>2. {W[x] : x \in DOMAIN W \cap (D \cup {l})}
            = {W[x] : x \in DOMAIN W \cap D} \cup {W[x] : x \in DOMAIN W \cap {l}}
      OBVIOUS
    <2>3. QED
      BY <1>1, <2>1, <2>2
  <1> HIDE DEF T
  <1>3. T(o("code1") \o o("code2") \o o("emb1") \o o("emb2"), {"code1"} \cup {"code2"} \cup {"emb1"} \cup {"emb2"})
    BY <1>1, <1>2
  <1>4. T(o("code1") \o o("code2") \o o("emb1") \o o("emb2") \o o("ple1") \o o("ple2"),
          {"code1"} \cup {"code2"} \cup {"emb1"} \cup {"emb2"} \cup {"ple1"} \cup {"ple2"})
    BY <1>2, <1>3
  <1>5. T(o("code1") \o o("code2") \o o("emb1") \o o("emb2") \o o("ple1") \o o("ple2") \o o("tower") \o o("extras"),
          {"code1"} \cup {"code2"} \cup {"emb1"} \cup {"emb2"} \cup {"ple1"} \cup {"ple2"} \cup {"tower"} \cup {"extras"})
    BY <1>2, <1>4
  <1>6. Folders!Each(W) = o("code1") \o o("code2") \o o("emb1") \o o("emb2") \o o("ple1") \o o("ple2")
                          \o o("tower") \o o("extras")
    BY DEF Folders!Each, o
  <1>7. {"code1"} \cup {"code2"} \cup {"emb1"} \cup {"emb2"} \cup {"ple1"} \cup {"ple2"} \cup {"tower"} \cup {"extras"}
        = Folders!Shards
    BY DEF Folders!Shards, Folders!Codes, Folders!Ple
  <1>8. QED
    BY <1>5, <1>6, <1>7 DEF T

-----------------------------------------------------------------------------
(* Artifact folders: links and what is written through them.                *)

\* Writes that follow a link.
Aimed(w) == w.how \in {"save", "index"}

\* The names of a folder that are no links.
Free(f, d) == {l \in Folders!Leaves : f[d][l].to = None}

\* Away from what its tool writes through links, a plan for b writes where no
\* link is, or where it first puts a file of its own.
Apart(s, tool, free) ==
  \A w \in WritesOf(s) :
    Aimed(w) /\ w.leaf \notin Folders!Through(tool) =>
      /\ \A x \in WritesOf(s) : x.how = "link" => x.leaf # w.leaf
      /\ \/ w.leaf \in free
         \/ /\ \E x \in WritesOf(s) : x.how = "swap" /\ x.leaf = w.leaf
            /\ Ordered(s, {y \in WritesOf(s) : Aimed(y)}, {y \in WritesOf(s) : y.how = "swap"})

\* Links are made in b, and not of model files.
PlanOK(f, j) ==
  /\ j = [tool |-> j.tool, dir |-> j.dir, todo |-> j.todo]
  /\ PlanOf(j.todo)
  /\ \A w \in WritesOf(j.todo) : w.leaf \in Folders!Leaves
                              /\ (w.how = "link" => j.dir = "b" /\ w.leaf # "model")
  /\ j.dir \in {"a", "b"}
  /\ j.dir = "b" => Apart(j.todo, j.tool, Free(f, "b"))

LinksOK(f) ==
  /\ DOMAIN f = Folders!Dirs /\ \A d \in Folders!Dirs : DOMAIN f[d] = Folders!Leaves
  /\ \A l \in Folders!Leaves : f["a"][l].to = None
  /\ f["b"]["model"].to = None

LinkInv == LinksOK(v1) /\ (v2.tool = "idle" \/ PlanOK(v1, v2))

LEMMA LeavesAre ==
  /\ Folders!Shards = {"code1", "code2", "emb1", "emb2", "ple1", "ple2", "tower", "extras"}
  /\ Folders!Leaves = Folders!Shards \cup {"index", "config", "model", "record"}
  /\ Folders!Ple = {"ple1", "ple2"} /\ Folders!Codes = {"code1", "code2"} /\ Folders!Tables = {"t1", "t2"}
  /\ Folders!Dirs = {"a", "b", "c"}
  BY DEF Folders!Shards, Folders!Leaves, Folders!Ple, Folders!Codes, Folders!Tables, Folders!Dirs

LEMMA ThroughIs ==
  /\ \A tool \in {"splice-ple", "splice-ple of one table"} :
       Folders!Through(tool) = Folders!Ple \cup {"index", "config"}
  /\ \A tool \in {"pack-ple", "graft-extras"} : Folders!Through(tool) = {"index", "config"}
  /\ Folders!Through("graft") = {"index", "config", "tower"}
  /\ \A tool \in {"pack", "pack-dense", "unpack-dense"} :
       Folders!Through(tool) = Folders!Shards \cup {"index", "config"}
  BY DEF Folders!Through

\* Writes that make no link and aim at X.
Linkless(s, X) ==
  /\ PlanOf(s)
  /\ \A w \in WritesOf(s) : w.leaf \in Folders!Leaves /\ w.how # "link" /\ (Aimed(w) => w.leaf \in X)

LEMMA LinklessJoin ==
  ASSUME NEW X, NEW s, NEW t, Linkless(s, X), Linkless(t, X)
  PROVE  Linkless(s \o t, X)
  BY PlanJoin DEF Linkless

LEMMA LinklessEach ==
  ASSUME NEW X, NEW W,
         \A l \in DOMAIN W \cap Folders!Shards :
            W[l].leaf \in Folders!Leaves /\ W[l].how # "link" /\ (Aimed(W[l]) => W[l].leaf \in X)
  PROVE  Linkless(Folders!Each(W), X)
  BY PlanEach DEF Linkless

\* A plan with no links that aims at what its tool may write through, or at no
\* link.
LEMMA LinklessPlan ==
  ASSUME NEW f, NEW j, NEW tool, NEW d \in {"a", "b"}, NEW s, j = [tool |-> tool, dir |-> d, todo |-> s],
         Linkless(s, Folders!Through(tool) \cup Free(f, d))
  PROVE  PlanOK(f, j)
  BY DEF PlanOK, Apart, Linkless

\* A plan that links what it does not aim at.
LEMMA LinkedPlan ==
  ASSUME NEW f, NEW j, NEW tool, NEW s, j = [tool |-> tool, dir |-> "b", todo |-> s],
         NEW L, "model" \notin L, PlanOf(s),
         \A w \in WritesOf(s) : w.leaf \in Folders!Leaves
                             /\ (w.how = "link" => w.leaf \in L)
                             /\ (Aimed(w) => w.leaf \in Free(f, "b") \ L)
  PROVE  PlanOK(f, j)
  BY DEF PlanOK, Apart

LEMMA KindsAre ==
  /\ \A l, v : Folders!Save(l, v).how = "save" /\ Folders!Save(l, v).leaf = l
  /\ \A l, v : Folders!Swap(l, v).how = "swap" /\ Folders!Swap(l, v).leaf = l
  /\ \A l : Folders!Drop(l).how = "swap" /\ Folders!Drop(l).leaf = l
  /\ \A l, d : Folders!Link(l, d).how = "link" /\ Folders!Link(l, d).leaf = l
  /\ \A m : Folders!Index(m).how = "index" /\ Folders!Index(m).leaf = "index"
  /\ Folders!Fail.how = "fail" /\ Folders!Fail.leaf = "index"
  /\ \A d : Folders!Copied(d).how = "save" /\ Folders!Copied(d).leaf = "model"
  BY DEF Folders!Save, Folders!Swap, Folders!Drop, Folders!Link, Folders!Index, Folders!Fail, Folders!Write,
         Folders!Copied

LEMMA FreeIs ==
  ASSUME LinksOK(v1)
  PROVE  Free(v1, "a") = Folders!Leaves /\ "model" \in Free(v1, "b")
  BY LeavesAre DEF LinksOK, Free

LEMMA SplicePlan ==
  ASSUME LinksOK(v1), NEW d \in {"a", "b"}, NEW fit \in {{"t1"}, Folders!Tables}, Folders!Splice(d, fit)
  PROVE  PlanOK(v1, v2')
  <1> DEFINE m == Folders!Map(d)
             holding == {m[t] : t \in fit}
             left(l) == Folders!Serves(l, Folders!See(d, l)) \ fit
             emptied(l) == l \in holding /\ left(l) = {}
             strip(l) == IF Folders!See(d, l) = None THEN Folders!Fail
                         ELSE IF emptied(l) THEN Folders!Drop(l) ELSE Folders!Swap(l, "rest")
             bring(l) == IF Folders!See(d, l) = None \/ emptied(l)
                         THEN <<Folders!Save(l, "torn"), Folders!Save(l, "source"), Folders!Swap(l, "named")>>
                         ELSE IF Folders!See(d, l) = "torn" THEN <<Folders!Fail>> ELSE <<Folders!Swap(l, "named")>>
             brought(t) == IF t \in fit THEN bring(Folders!PleOf(t)) ELSE <<>>
             e == Folders!Each([l \in holding |-> strip(l)])
             ix == Folders!Index([k \in DOMAIN m |-> IF k \in fit THEN Folders!PleOf(k) ELSE m[k]])
             conf == Folders!Save("config", [Folders!Config(d) EXCEPT !.affine = @ \ fit, !.spliced = @ \cup {fit},
                                                                     !.ple = [tables |-> fit, packed |-> FALSE]])
             plan == e \o brought("t1") \o brought("t2") \o <<ix, conf>>
             tool == IF fit = Folders!Tables THEN "splice-ple" ELSE "splice-ple of one table"
             X == Folders!Through(tool) \cup Free(v1, d)
  <1>1. v2' = [tool |-> tool, dir |-> d, todo |-> plan]
    BY DEF Folders!Splice, Folders!Begin
  <1>2. {"ple1", "ple2", "index", "config"} \subseteq X
    BY ThroughIs, LeavesAre
  <1> HIDE DEF m, left, emptied, X
  <1>3. Linkless(e, X)
    <2>1. \A l : strip(l).how # "link" /\ ~Aimed(strip(l)) /\ (l \in Folders!Leaves => strip(l).leaf \in Folders!Leaves)
      BY KindsAre, LeavesAre DEF Aimed
    <2> HIDE DEF strip
    <2>2. QED
      BY <2>1, LeavesAre, LinklessEach
  <1>4. \A t : Linkless(brought(t), X)
    <2> TAKE t
    <2> DEFINE l == Folders!PleOf(t)
    <2>1. l \in {"ple1", "ple2"} /\ l \in Folders!Leaves /\ l \in X
      BY <1>2, LeavesAre DEF Folders!PleOf
    <2> HIDE DEF l
    <2>2. /\ Linkless(<<Folders!Save(l, "torn"), Folders!Save(l, "source"), Folders!Swap(l, "named")>>, X)
          /\ Linkless(<<Folders!Fail>>, X) /\ Linkless(<<Folders!Swap(l, "named")>>, X) /\ Linkless(<<>>, X)
      BY <2>1, ShortPlans, KindsAre, LeavesAre DEF Linkless, Aimed
    <2>3. QED
      BY <2>2 DEF l
  <1>5. Linkless(<<ix, conf>>, X)
    BY <1>2, ShortPlans, KindsAre, LeavesAre DEF Linkless, Aimed
  <1> HIDE DEF e, brought, ix, conf
  <1>6. Linkless(plan, X)
    BY <1>3, <1>4, <1>5, LinklessJoin
  <1> HIDE DEF plan, tool
  <1>7. QED
    BY <1>1, <1>6, LinklessPlan DEF X

LEMMA InPlacePlan ==
  ASSUME LinksOK(v1), NEW d \in {"a", "b"},
         \/ Folders!PackPle(d) \/ Folders!GraftExtras(d) \/ Folders!Bundle(d) \/ Folders!Rebundle(d)
         \/ Folders!Permute(d, d) \/ \E replace \in BOOLEAN : Folders!Graft(d, replace)
  PROVE  PlanOK(v1, v2')
  <1> USE ShortPlans, KindsAre, LeavesAre
  <1>1. "model" \in Free(v1, d)
    BY FreeIs
  <1>2. CASE Folders!PackPle(d)
    <2> DEFINE X == Folders!Through("pack-ple") \cup Free(v1, d)
               e == Folders!Each([l \in {p \in Folders!Ple : Folders!See(d, p) = "named"} |-> Folders!Swap(l, "packed")])
               t == <<Folders!Save("config", Folders!PackedConfig(d)), Folders!Index(Folders!Map(d))>>
    <2>1. v2' = [tool |-> "pack-ple", dir |-> d, todo |-> e \o t]
      BY <1>2 DEF Folders!PackPle, Folders!Begin
    <2>2. {"index", "config"} \subseteq X
      BY ThroughIs
    <2> HIDE DEF X
    <2>3. Linkless(e, X)
      BY LinklessEach DEF Aimed
    <2>4. Linkless(t, X)
      BY <2>2 DEF Linkless, Aimed
    <2> HIDE DEF e, t
    <2>5. Linkless(e \o t, X)
      BY <2>3, <2>4, LinklessJoin
    <2>6. QED
      BY <2>1, <2>5, LinklessPlan DEF X
  <1>3. CASE Folders!GraftExtras(d)
    <2> DEFINE X == Folders!Through("graft-extras") \cup Free(v1, d)
               ix == Folders!Index([k \in DOMAIN Folders!Map(d) \cup {"extras"} |->
                                      IF k = "extras" THEN k ELSE Folders!Map(d)[k]])
               t == <<Folders!Swap("extras", "whole"), ix>>
    <2>1. v2' = [tool |-> "graft-extras", dir |-> d, todo |-> t]
      BY <1>3 DEF Folders!GraftExtras, Folders!Begin
    <2>2. "index" \in X
      BY ThroughIs
    <2> HIDE DEF X
    <2>3. Linkless(t, X)
      BY <2>2 DEF Linkless, Aimed
    <2> HIDE DEF t
    <2>4. QED
      BY <2>1, <2>3, LinklessPlan DEF X
  <1>4. CASE Folders!Bundle(d)
    <2> DEFINE X == Folders!Through("bundle") \cup Free(v1, d)
               t == <<Folders!Save("config", Folders!Bundled(d)), Folders!Save("model", "new")>>
    <2>1. v2' = [tool |-> "bundle", dir |-> d, todo |-> t]
      BY <1>4 DEF Folders!Bundle, Folders!Begin
    <2>2. {"config", "model"} \subseteq X
      BY <1>4 DEF Folders!Bundle, Free
    <2> HIDE DEF X
    <2>3. Linkless(t, X)
      BY <2>2 DEF Linkless, Aimed
    <2> HIDE DEF t
    <2>4. QED
      BY <2>1, <2>3, LinklessPlan DEF X
  <1>5. CASE Folders!Rebundle(d)
    <2> DEFINE X == Folders!Through("rebundle-dense") \cup Free(v1, d)
               t == <<Folders!Save("model", "new")>>
    <2>1. v2' = [tool |-> "rebundle-dense", dir |-> d, todo |-> t]
      BY <1>5 DEF Folders!Rebundle, Folders!Begin
    <2>2. "model" \in X
      BY <1>1
    <2> HIDE DEF X
    <2>3. Linkless(t, X)
      BY <2>2 DEF Linkless, Aimed
    <2> HIDE DEF t
    <2>4. QED
      BY <2>1, <2>3, LinklessPlan DEF X
  <1>6. CASE Folders!Permute(d, d)
    <2> DEFINE X == Folders!Through("vision-layout") \cup Free(v1, d)
               t == <<Folders!Swap("tower", "last")>>
    <2>1. v2' = [tool |-> "vision-layout", dir |-> d, todo |-> <<>> \o t]
      BY <1>6 DEF Folders!Permute, Folders!Begin
    <2>2. Linkless(t, X) /\ Linkless(<<>>, X)
      BY DEF Linkless, Aimed
    <2> HIDE DEF t, X
    <2>3. Linkless(<<>> \o t, X)
      BY <2>2, LinklessJoin
    <2>4. QED
      BY <2>1, <2>3, LinklessPlan DEF X
  <1>7. ASSUME NEW replace \in BOOLEAN, Folders!Graft(d, replace)
        PROVE  PlanOK(v1, v2')
    <2> DEFINE X == Folders!Through("graft") \cup Free(v1, d)
               ix == Folders!Index([k \in DOMAIN Folders!Map(d) \cup {"tower"} |->
                                      IF k = "tower" THEN k ELSE Folders!Map(d)[k]])
               conf == IF Folders!Config(d).tower = "other" /\ ~replace THEN Folders!Fail
                      ELSE Folders!Save("config", [Folders!Config(d) EXCEPT !.tower = "own"])
               t == <<Folders!Save("tower", "hf"), ix, conf>>
    <2>1. v2' = [tool |-> "graft", dir |-> d, todo |-> t]
      BY <1>7 DEF Folders!Graft, Folders!Begin
    <2>2. {"index", "config", "tower"} \subseteq X
      BY ThroughIs
    <2> HIDE DEF X
    <2>3. conf.leaf \in {"index", "config"} /\ conf.how # "link"
      OBVIOUS
    <2> HIDE DEF conf
    <2>4. Linkless(t, X)
      BY <2>2, <2>3 DEF Linkless, Aimed
    <2> HIDE DEF t
    <2>5. QED
      BY <2>1, <2>4, LinklessPlan DEF X
  <1>8. QED
    BY <1>2, <1>3, <1>4, <1>5, <1>6, <1>7

LEMMA CopyPlan ==
  ASSUME LinksOK(v1),
         \/ Folders!Pack("a", "b") \/ Folders!PackDense("a", "b") \/ Folders!UnpackDense("c", "b")
         \/ Folders!Reskeleton("a", "c", "b")
  PROVE  PlanOK(v1, v2')
  <1> USE ShortPlans, KindsAre, LeavesAre
  <1>1. "model" \in Free(v1, "b")
    BY FreeIs
  <1>2. ASSUME NEW X, "model" \in X, Folders!Shards \cup {"index", "config"} \subseteq X
        PROVE  /\ \A c, d : Linkless(<<Folders!Save("config", c), Folders!Copied(d)>>, X)
               /\ \A m, c, v : Linkless(<<Folders!Index(m), Folders!Save("config", c), Folders!Save("model", v)>>, X)
               /\ \A m, c, d : Linkless(<<Folders!Index(m), Folders!Save("config", c), Folders!Copied(d)>>, X)
               /\ \A i, c, d : Linkless(<<Folders!Copied(d), Folders!Save("config", c), Folders!Save("index", i)>>, X)
               /\ \A m : Linkless(<<Folders!Index(m)>>, X)
    <2>2. /\ \A c, d : Linkless(<<Folders!Save("config", c), Folders!Copied(d)>>, X)
          /\ \A m, c, v : Linkless(<<Folders!Index(m), Folders!Save("config", c), Folders!Save("model", v)>>, X)
          /\ \A m, c, d : Linkless(<<Folders!Index(m), Folders!Save("config", c), Folders!Copied(d)>>, X)
      BY <1>2 DEF Linkless
    <2>3. /\ \A i, c, d : Linkless(<<Folders!Copied(d), Folders!Save("config", c), Folders!Save("index", i)>>, X)
          /\ \A m : Linkless(<<Folders!Index(m)>>, X)
      BY <1>2 DEF Linkless
    <2>4. QED
      BY <2>2, <2>3
  <1>4. CASE Folders!Pack("a", "b")
    <2> DEFINE X == Folders!Through("pack") \cup Free(v1, "b")
               h == <<Folders!Save("config", Folders!Config("a")), Folders!Copied("a")>>
               e == Folders!Each([l \in Folders!Listed("a") |->
                      Folders!Save(l, IF l \in Folders!Codes THEN "packed" ELSE Folders!See("a", l))])
               t == <<Folders!Index(Folders!Map("a")),
                      Folders!Save("config", Folders!AllCodes(Folders!Config("a"), "packed")), Folders!Save("model", "new")>>
    <2>1. v2' = [tool |-> "pack", dir |-> "b", todo |-> h \o e \o t]
      BY <1>4 DEF Folders!Pack, Folders!Begin
    <2>2. "model" \in X /\ Folders!Shards \cup {"index", "config"} \subseteq X
      BY <1>1, ThroughIs
    <2> HIDE DEF X
    <2>3. Linkless(h, X) /\ Linkless(t, X)
      BY <1>2, <2>2
    <2> HIDE DEF h, t
    <2>4. Linkless(e, X)
      BY <2>2, LinklessEach
    <2> HIDE DEF e
    <2>5. Linkless(h \o e \o t, X)
      BY <2>3, <2>4, LinklessJoin
    <2>6. QED
      BY <2>1, <2>5, LinklessPlan DEF X
  <1>5. CASE Folders!PackDense("a", "b")
    <2> DEFINE X == Folders!Through("pack-dense") \cup Free(v1, "b")
               e == Folders!Each([l \in Folders!Listed("a") |->
                      Folders!Save(l, IF l \in Folders!Codes THEN "packed" ELSE Folders!See("a", l))])
               t == <<Folders!Index(Folders!Map("a")),
                      Folders!Save("config", Folders!AllCodes(Folders!Config("a"), "packed")), Folders!Copied("a")>>
    <2>1. v2' = [tool |-> "pack-dense", dir |-> "b", todo |-> e \o t]
      BY <1>5 DEF Folders!PackDense, Folders!Begin
    <2>2. "model" \in X /\ Folders!Shards \cup {"index", "config"} \subseteq X
      BY <1>1, ThroughIs
    <2> HIDE DEF X
    <2>3. Linkless(t, X)
      BY <1>2, <2>2
    <2> HIDE DEF t
    <2>4. Linkless(e, X)
      BY <2>2, LinklessEach
    <2> HIDE DEF e
    <2>5. Linkless(e \o t, X)
      BY <2>3, <2>4, LinklessJoin
    <2>6. QED
      BY <2>1, <2>5, LinklessPlan DEF X
  <1>6. CASE Folders!UnpackDense("c", "b")
    <2> DEFINE X == Folders!Through("unpack-dense") \cup Free(v1, "b")
               e == Folders!Each([l \in Folders!Listed("c") |->
                      Folders!Save(l, IF l \in Folders!Codes THEN "raw" ELSE Folders!See("c", l))])
               t == <<Folders!Copied("c"), Folders!Save("config", Folders!AllCodes(Folders!Config("c"), "raw")),
                      Folders!Save("index", Folders!See("c", "index"))>>
    <2>1. v2' = [tool |-> "unpack-dense", dir |-> "b", todo |-> e \o t]
      BY <1>6 DEF Folders!UnpackDense, Folders!Begin
    <2>2. "model" \in X /\ Folders!Shards \cup {"index", "config"} \subseteq X
      BY <1>1, ThroughIs
    <2> HIDE DEF X
    <2>3. Linkless(t, X)
      BY <1>2, <2>2
    <2> HIDE DEF t
    <2>4. Linkless(e, X)
      BY <2>2, LinklessEach
    <2> HIDE DEF e
    <2>5. Linkless(e \o t, X)
      BY <2>3, <2>4, LinklessJoin
    <2>6. QED
      BY <2>1, <2>5, LinklessPlan DEF X
  <1>7. CASE Folders!Reskeleton("a", "c", "b")
    <2> DEFINE X == Folders!Through("reskeleton") \cup Free(v1, "b")
               h == <<Folders!Copied("a"), Folders!Save("config", Folders!Config("a"))>>
               e == Folders!Each([l \in Folders!Listed("a") |->
                      Folders!Save(l, IF l = "emb1" THEN Folders!See("c", l) ELSE Folders!See("a", l))])
               t == <<Folders!Index(Folders!Map("a"))>>
    <2>1. v2' = [tool |-> "reskeleton", dir |-> "b", todo |-> h \o e \o t]
      BY <1>7 DEF Folders!Reskeleton, Folders!Begin
    <2>2. Folders!Leaves \subseteq X
      BY <1>7 DEF Folders!Reskeleton, Folders!Empty, Folders!Missing, Folders!Real, Free
    <2> HIDE DEF X
    <2>3. Linkless(h, X)
      BY <2>2 DEF Linkless
    <2>4. Linkless(t, X)
      BY <1>2, <2>2
    <2> HIDE DEF h, t
    <2>5. Linkless(e, X)
      BY <2>2, LinklessEach
    <2> HIDE DEF e
    <2>6. Linkless(h \o e \o t, X)
      BY <2>3, <2>4, <2>5, LinklessJoin
    <2>7. QED
      BY <2>1, <2>6, LinklessPlan DEF X
  <1>8. QED
    BY <1>4, <1>5, <1>6, <1>7

LEMMA LinkPlan ==
  ASSUME LinksOK(v1),
         \/ Folders!Permute("a", "b") \/ Folders!PleSwap("a", "c", "b") \/ Folders!Pin("a", "b")
         \/ \E band \in {{"code2"}, Folders!Codes} : Folders!Mix("a", "c", band, "b")
  PROVE  PlanOK(v1, v2')
  <1> USE ShortPlans, KindsAre, LeavesAre
  <1>1. "model" \in Free(v1, "b")
    BY FreeIs
  <1>2. CASE Folders!Permute("a", "b")
    <2> DEFINE L == Folders!Leaves \ {"model"}
               W == [l \in {s \in Folders!Shards \ {"tower"} : Folders!See("a", s) # None /\ Folders!See("b", s) = None}
                       |-> Folders!Link(l, "a")]
               e == Folders!Each(W)
               r == <<Folders!Link("index", "a"), Folders!Link("config", "a"), Folders!Copied("a")>>
               g == IF Folders!Whole("b") THEN <<>> ELSE r
               t == <<Folders!Swap("tower", "last")>>
               Good(s) == PlanOf(s) /\ \A w \in WritesOf(s) : w.leaf \in Folders!Leaves
                                                           /\ (w.how = "link" => w.leaf \in L)
                                                           /\ (Aimed(w) => w.leaf = "model")
    <2>1. v2' = [tool |-> "vision-layout", dir |-> "b", todo |-> e \o g \o t]
      BY <1>2 DEF Folders!Permute, Folders!Begin
    <2>2. Good(e)
      <3>1. PlanOf(e) /\ WritesOf(e) = {W[l] : l \in DOMAIN W \cap Folders!Shards}
        BY PlanEach
      <3>2. \A l \in DOMAIN W \cap Folders!Shards : W[l].leaf = l /\ W[l].how = "link"
        OBVIOUS
      <3> HIDE DEF W, e
      <3>3. QED
        BY <3>1, <3>2 DEF Aimed
    <2>3. Good(r) /\ Good(t) /\ Good(<<>>)
      BY DEF Aimed
    <2> HIDE DEF e, r, t
    <2>4. Good(e \o g \o t)
      <3>1. Good(g)
        BY <2>3
      <3> HIDE DEF g
      <3>2. PlanOf(e \o g) /\ WritesOf(e \o g) = WritesOf(e) \cup WritesOf(g)
        BY <2>2, <3>1, PlanJoin
      <3>3. PlanOf(e \o g \o t) /\ WritesOf(e \o g \o t) = WritesOf(e \o g) \cup WritesOf(t)
        BY <2>3, <3>2, PlanJoin
      <3>4. QED
        BY <2>2, <2>3, <3>1, <3>2, <3>3
    <2> DEFINE p == e \o g \o t
    <2> HIDE DEF p, g
    <2>5. \A w \in WritesOf(p) : w.leaf \in Folders!Leaves /\ (w.how = "link" => w.leaf \in L)
                              /\ (Aimed(w) => w.leaf \in Free(v1, "b") \ L)
      <3>1. Good(p)
        BY <2>4 DEF p
      <3>2. "model" \in Free(v1, "b") \ L
        BY <1>1
      <3> HIDE DEF L
      <3>3. QED
        BY <3>1, <3>2
    <2>6. PlanOf(p) /\ v2' = [tool |-> "vision-layout", dir |-> "b", todo |-> p] /\ "model" \notin L
      BY <2>1, <2>4 DEF p
    <2> HIDE DEF L
    <2>7. QED
      BY <2>5, <2>6, LinkedPlan
  <1>3. ASSUME NEW W, \A l \in DOMAIN W : W[l].leaf = l /\ W[l].how = "link", NEW t, PlanOf(t), NEW tool,
               \A w \in WritesOf(t) : w.leaf \in Folders!Leaves \ Folders!Shards /\ w.how \in {"save", "index"},
               Folders!Empty("b"), v2' = [tool |-> tool, dir |-> "b", todo |-> Folders!Each(W) \o t]
        PROVE  PlanOK(v1, v2')
    <2> DEFINE e == Folders!Each(W)
               p == e \o t
    <2>1. Free(v1, "b") = Folders!Leaves
      BY <1>3 DEF Folders!Empty, Folders!Missing, Folders!Real, Free
    <2>2. PlanOf(e) /\ \A w \in WritesOf(e) : w.leaf \in Folders!Shards /\ w.how = "link"
      <3>1. PlanOf(e) /\ WritesOf(e) = {W[l] : l \in DOMAIN W \cap Folders!Shards}
        BY PlanEach
      <3>2. QED
        BY <1>3, <3>1
    <2> HIDE DEF e
    <2>3. PlanOf(p) /\ WritesOf(p) = WritesOf(e) \cup WritesOf(t)
      BY <1>3, <2>2, PlanJoin
    <2>4. \A w \in WritesOf(p) : w.leaf \in Folders!Leaves /\ (w.how = "link" => w.leaf \in Folders!Shards)
                              /\ (Aimed(w) => w.leaf \in Free(v1, "b") \ Folders!Shards)
      BY <1>3, <2>1, <2>2, <2>3 DEF Aimed
    <2>5. v2' = [tool |-> tool, dir |-> "b", todo |-> p] /\ "model" \notin Folders!Shards
      BY <1>3 DEF e
    <2> DEFINE L == Folders!Shards
    <2>6. PlanOf(p) /\ "model" \notin L /\ v2' = [tool |-> tool, dir |-> "b", todo |-> p]
          /\ \A w \in WritesOf(p) : w.leaf \in Folders!Leaves /\ (w.how = "link" => w.leaf \in L)
                                 /\ (Aimed(w) => w.leaf \in Free(v1, "b") \ L)
      BY <2>3, <2>4, <2>5
    <2> HIDE DEF p, L
    <2>7. QED
      BY <2>6, LinkedPlan
  <1>4. CASE Folders!Pin("a", "b")
    <2> DEFINE W == [l \in {s \in Folders!Shards : Folders!See("a", s) # None} |-> Folders!Link(l, "a")]
               t == <<Folders!Save("config", Folders!Config("a")), Folders!Save("index", Folders!See("a", "index")),
                      Folders!Copied("a"), Folders!Save("record", "ok")>>
    <2>1. v2' = [tool |-> "pin", dir |-> "b", todo |-> Folders!Each(W) \o t] /\ Folders!Empty("b")
      BY <1>4 DEF Folders!Pin, Folders!Begin
    <2>2. \A l \in DOMAIN W : W[l].leaf = l /\ W[l].how = "link"
      OBVIOUS
    <2>3. PlanOf(t) /\ \A w \in WritesOf(t) : w.leaf \in Folders!Leaves \ Folders!Shards /\ w.how \in {"save", "index"}
      OBVIOUS
    <2> HIDE DEF W, t
    <2>4. QED
      BY <1>3, <2>1, <2>2, <2>3
  <1>5. ASSUME NEW band \in {{"code2"}, Folders!Codes}, Folders!Mix("a", "c", band, "b")
        PROVE  PlanOK(v1, v2')
    <2> DEFINE W == [l \in Folders!Listed("a") |-> Folders!Link(l, IF l \in band THEN "c" ELSE "a")]
               t == <<Folders!Index(Folders!Map("a")), Folders!Save("config", Folders!MixedConfig("a", "c", band)),
                      Folders!Copied("a")>>
    <2>1. v2' = [tool |-> "mix", dir |-> "b", todo |-> Folders!Each(W) \o t] /\ Folders!Empty("b")
      BY <1>5 DEF Folders!Mix, Folders!Begin
    <2>2. \A l \in DOMAIN W : W[l].leaf = l /\ W[l].how = "link"
      OBVIOUS
    <2>3. PlanOf(t) /\ \A w \in WritesOf(t) : w.leaf \in Folders!Leaves \ Folders!Shards /\ w.how \in {"save", "index"}
      OBVIOUS
    <2> HIDE DEF W, t
    <2>4. QED
      BY <1>3, <2>1, <2>2, <2>3
  <1>6. CASE Folders!PleSwap("a", "c", "b")
    <2> DEFINE base == Folders!Listed("a") \ Folders!Ple
               linked(l) == IF v1["b"][l].to # None THEN Folders!Link(l, v1["b"][l].to)
                            ELSE IF v1["b"][l] = Folders!Missing THEN Folders!Link(l, "a") ELSE Folders!Fail
               stays == \E l \in base : v1["b"][l].to \notin {None, "a"}
               tool == IF stays THEN "ple-swap over links" ELSE "ple-swap"
               h == <<Folders!Swap("config", Folders!Config("a")), Folders!Swap("model", Folders!See("a", "model")),
                      Folders!Swap("index", Folders!See("a", "index"))>>
               W == [l \in base |-> linked(l)]
               U == [l \in Folders!Ple |-> Folders!Link(l, "c")]
               e == Folders!Each(W)
               g == Folders!Each(U)
               t == <<Folders!Index(Folders!Map("a")),
                      Folders!Save("config", [Folders!Config("a") EXCEPT !.ple = Folders!Config("c").ple])>>
               r == h \o e \o g
               p == r \o t
    <2>1. v2' = [tool |-> tool, dir |-> "b", todo |-> p]
      BY <1>6 DEF Folders!PleSwap, Folders!Begin
    <2>2. /\ PlanOf(h) /\ \A w \in WritesOf(h) : w.how = "swap" /\ w.leaf \in {"config", "model", "index"}
          /\ \A l \in {"config", "index"} : \E w \in WritesOf(h) : w.how = "swap" /\ w.leaf = l
          /\ PlanOf(t) /\ \A w \in WritesOf(t) : w.how \in {"index", "save"} /\ w.leaf \in {"config", "index"}
      OBVIOUS
    <2>3. PlanOf(e) /\ \A w \in WritesOf(e) : w.how \in {"link", "fail"} /\ w.leaf \in Folders!Shards \cup {"index"}
                                           /\ (w.how = "link" => w.leaf \in Folders!Shards)
      <3>1. PlanOf(e) /\ WritesOf(e) = {W[l] : l \in DOMAIN W \cap Folders!Shards}
        BY PlanEach
      <3>2. \A l \in DOMAIN W \cap Folders!Shards :
              W[l].how \in {"link", "fail"} /\ W[l].leaf \in Folders!Shards \cup {"index"}
              /\ (W[l].how = "link" => W[l].leaf \in Folders!Shards)
        OBVIOUS
      <3> HIDE DEF W, e
      <3>3. QED
        BY <3>1, <3>2
    <2>4. PlanOf(g) /\ \A w \in WritesOf(g) : w.how = "link" /\ w.leaf \in Folders!Shards
      <3>1. PlanOf(g) /\ WritesOf(g) = {U[l] : l \in DOMAIN U \cap Folders!Shards}
        BY PlanEach
      <3>2. \A l \in DOMAIN U : U[l].how = "link" /\ U[l].leaf = l
        OBVIOUS
      <3> HIDE DEF U, g
      <3>3. QED
        BY <3>1, <3>2
    <2> HIDE DEF h, e, g, t, tool
    <2>5. PlanOf(r) /\ WritesOf(r) = WritesOf(h) \cup WritesOf(e) \cup WritesOf(g)
      <3>1. PlanOf(h \o e) /\ WritesOf(h \o e) = WritesOf(h) \cup WritesOf(e)
        BY <2>2, <2>3, PlanJoin
      <3>2. QED
        BY <2>4, <3>1, PlanJoin
    <2> HIDE DEF r
    <2>6. PlanOf(p) /\ WritesOf(p) = WritesOf(r) \cup WritesOf(t)
      BY <2>2, <2>5, PlanJoin
    <2> DEFINE A == {y \in WritesOf(p) : Aimed(y)}
               B == {y \in WritesOf(p) : y.how = "swap"}
    <2>7. WritesOf(r) \cap A = {} /\ WritesOf(t) \cap B = {}
      BY <2>2, <2>3, <2>4, <2>5 DEF Aimed
    <2>8. Ordered(p, A, B)
      <3> HIDE DEF A, B
      <3>1. Ordered(r, A, B) /\ Ordered(t, A, B)
        BY <2>7, ApartOrdered
      <3>2. r \in Seq(WritesOf(r)) /\ t \in Seq(WritesOf(t))
        BY <2>2, <2>5 DEF PlanOf
      <3>3. QED
        BY <2>7, <3>1, <3>2, JoinOrdered
    <2> HIDE DEF p
    <2>9. ASSUME NEW w \in WritesOf(p), Aimed(w)
          PROVE  /\ \A x \in WritesOf(p) : x.how = "link" => x.leaf # w.leaf
                 /\ \E x \in WritesOf(p) : x.how = "swap" /\ x.leaf = w.leaf
      <3>1. w \in WritesOf(t) /\ w.leaf \in {"config", "index"}
        BY <2>2, <2>6, <2>7, <2>9
      <3>2. \A x \in WritesOf(p) : x.how = "link" => x.leaf \in Folders!Shards
        BY <2>2, <2>3, <2>4, <2>5, <2>6
      <3>3. QED
        BY <2>2, <2>5, <2>6, <3>1, <3>2
    <2>10. \A w \in WritesOf(p) : w.leaf \in Folders!Leaves /\ (w.how = "link" => w.leaf # "model")
      BY <2>2, <2>3, <2>4, <2>5, <2>6
    <2>11. QED
      BY <2>1, <2>6, <2>8, <2>9, <2>10 DEF PlanOK, Apart
  <1>7. QED
    BY <1>2, <1>4, <1>5, <1>6

LEMMA LinkInit ==
  ASSUME Folders!Init
  PROVE  LinkInv
  <1> DEFINE Linkfree(f) == DOMAIN f = Folders!Leaves /\ \A l \in Folders!Leaves : f[l].to = None
             void == [l \in Folders!Leaves |-> Folders!Missing]
  <1>1. v2.tool = "idle"
    BY DEF Folders!Init, Folders!Idle
  <1>2. \A dns, done, tower : Linkfree(Folders!Built(dns, done, tower))
    <2> TAKE dns, done, tower
    <2>1. \A v : Folders!Real(v).to = None
      BY DEF Folders!Real
    <2>2. DOMAIN Folders!Built(dns, done, tower) = Folders!Leaves
      BY DEF Folders!Built
    <2>3. \A l \in Folders!Leaves : \E v : Folders!Built(dns, done, tower)[l] = Folders!Real(v)
      BY Zenon DEF Folders!Built
    <2>4. QED
      BY <2>1, <2>2, <2>3
  <1>3. Linkfree(void)
    BY DEF Folders!Missing, Folders!Real
  <1>4. PICK tower : v1 = [d \in Folders!Dirs |-> IF d = "a" THEN Folders!Built(v4, FALSE, tower)
                                                ELSE IF d = "c" THEN Folders!Built(v4, TRUE, "none")
                                                ELSE void]
    BY Zenon DEF Folders!Init
  <1> HIDE DEF Linkfree, void
  <1>5. DOMAIN v1 = Folders!Dirs /\ \A d \in Folders!Dirs : Linkfree(v1[d])
    BY <1>2, <1>3, <1>4
  <1>6. LinksOK(v1)
    BY <1>5, LeavesAre DEF LinksOK, Linkfree
  <1>7. QED
    BY <1>1, <1>6 DEF LinkInv

\* What the next write does to the folders.
LEMMA LinkStep ==
  ASSUME LinkInv, Folders!Step
  PROVE  LinkInv' /\ Folders!SourceUntouched
  <1> DEFINE d == v2.dir
             s == v2.todo
             w == s[1]
             x == Folders!Landing(d, w)
             r == Folders!Landed(d, w)
  <1>1. v2.tool # "idle" /\ s # <<>> /\ PlanOK(v1, v2) /\ LinksOK(v1)
    BY DEF Folders!Step, LinkInv
  <1>2. v1' = [v1 EXCEPT ![x][w.leaf] = r] /\ v2' = [v2 EXCEPT !.todo = Tail(s)]
    BY DEF Folders!Step
  <1>3. /\ s \in Seq(WritesOf(s)) /\ d \in {"a", "b"}
        /\ \A y \in WritesOf(s) : y.leaf \in Folders!Leaves /\ (y.how = "link" => d = "b" /\ y.leaf # "model")
        /\ d = "b" => Apart(s, v2.tool, Free(v1, "b"))
    BY <1>1 DEF PlanOK, PlanOf
  <1>4. /\ Tail(s) \in Seq(WritesOf(s)) /\ w \in WritesOf(s) /\ WritesOf(Tail(s)) \subseteq WritesOf(s)
        /\ \A y \in WritesOf(s) : y = w \/ y \in WritesOf(Tail(s))
    BY <1>1, <1>3, TailIs
  <1>5. w.how # "link" => r.to = None
    BY DEF Folders!Landed, Folders!Real
  <1>6. x = d \/ (Aimed(w) /\ x = v1[d][w.leaf].to /\ v1[d][w.leaf].to # None)
    BY DEF Folders!Landing, Aimed
  <1>7. LinksOK(v1)
    BY <1>1
  <1> HIDE DEF d, s, w, x, r
  <1>8. /\ DOMAIN v1' = Folders!Dirs /\ \A e \in Folders!Dirs : DOMAIN v1'[e] = Folders!Leaves
        /\ \A e \in Folders!Dirs : \A l \in Folders!Leaves :
             v1'[e][l] = IF e = x /\ l = w.leaf THEN r ELSE v1[e][l]
    BY <1>2, <1>7 DEF LinksOK
  <1>9. w.how = "link" => x = "b" /\ w.leaf # "model"
    BY <1>3, <1>4, <1>6 DEF Aimed
  <1>10. LinksOK(v1')
    <2>1. \A l \in Folders!Leaves : v1'["a"][l].to = None
      BY <1>5, <1>7, <1>8, <1>9, LeavesAre DEF LinksOK
    <2>2. v1'["b"]["model"].to = None
      BY <1>5, <1>7, <1>8, <1>9, LeavesAre DEF LinksOK
    <2>3. QED
      BY <1>8, <2>1, <2>2 DEF LinksOK
  \* What is written away from the links a tool may write through stays in b.
  <1>11. ASSUME d = "b", w.leaf \notin Folders!Through(v2.tool)
         PROVE  x = "b"
    <2> SUFFICES ASSUME x # "b" PROVE FALSE
      OBVIOUS
    <2>1. Aimed(w) /\ w.leaf \notin Free(v1, "b")
      BY <1>6, <1>11 DEF Free
    <2>2. PICK y \in WritesOf(s) : /\ y.how = "swap"
                                /\ Ordered(s, {z \in WritesOf(s) : Aimed(z)}, {z \in WritesOf(s) : z.how = "swap"})
      BY <1>3, <1>4, <1>11, <2>1 DEF Apart
    <2>3. y \in WritesOf(Tail(s))
      BY <1>4, <2>1, <2>2 DEF Aimed
    <2>4. WritesOf(Tail(s)) \cap {z \in WritesOf(s) : z.how = "swap"} = {}
      <3> DEFINE A == {z \in WritesOf(s) : Aimed(z)}
                 B == {z \in WritesOf(s) : z.how = "swap"}
      <3>1. s[1] \in A /\ Ordered(s, A, B)
        BY <1>4, <2>1, <2>2 DEF w
      <3> HIDE DEF A, B
      <3>2. WritesOf(Tail(s)) \cap B = {}
        BY <1>1, <1>3, <3>1, TailOrdered DEF s
      <3>3. QED
        BY <3>2 DEF B
    <2>5. QED
      BY <2>2, <2>3, <2>4
  <1>12. Folders!SourceUntouched
    <2> SUFFICES ASSUME d = "b", NEW l \in Folders!Leaves, Folders!Show(v1', "a", l) # Folders!See("a", l)
                 PROVE  l \in Folders!Through(v2.tool)
      BY DEF Folders!SourceUntouched, d
    <2>1. Folders!See("a", l) = v1["a"][l].holds /\ Folders!Show(v1', "a", l) = v1'["a"][l].holds
      BY <1>7, <1>10 DEF LinksOK, Folders!See, Folders!Show
    <2>2. l = w.leaf /\ x = "a"
      BY <1>8, <2>1, LeavesAre
    <2>3. QED
      BY <1>11, <2>2
  <1>13. ASSUME d = "b" PROVE Apart(Tail(s), v2.tool, Free(v1', "b"))
    <2> SUFFICES ASSUME NEW y \in WritesOf(Tail(s)), Aimed(y), y.leaf \notin Folders!Through(v2.tool)
                 PROVE  /\ \A z \in WritesOf(Tail(s)) : z.how = "link" => z.leaf # y.leaf
                        /\ \/ y.leaf \in Free(v1', "b")
                           \/ /\ \E z \in WritesOf(Tail(s)) : z.how = "swap" /\ z.leaf = y.leaf
                              /\ Ordered(Tail(s), {z \in WritesOf(Tail(s)) : Aimed(z)}, {z \in WritesOf(Tail(s)) : z.how = "swap"})
      BY DEF Apart
    <2>1. /\ y \in WritesOf(s) /\ y.leaf \in Folders!Leaves
          /\ \A z \in WritesOf(s) : z.how = "link" => z.leaf # y.leaf
          /\ \/ y.leaf \in Free(v1, "b")
             \/ /\ \E z \in WritesOf(s) : z.how = "swap" /\ z.leaf = y.leaf
                /\ Ordered(s, {z \in WritesOf(s) : Aimed(z)}, {z \in WritesOf(s) : z.how = "swap"})
      BY <1>3, <1>4, <1>13 DEF Apart
    <2>2. \A z \in WritesOf(Tail(s)) : z.how = "link" => z.leaf # y.leaf
      BY <1>4, <2>1
    <2>3. CASE w.leaf = y.leaf
      <3>1. x = "b" /\ w.how # "link"
        BY <1>4, <1>11, <1>13, <2>1, <2>3
      <3>2. v1'["b"][y.leaf].to = None
        BY <1>5, <1>8, <2>1, <2>3, <3>1, LeavesAre
      <3>3. QED
        BY <2>1, <2>2, <3>2 DEF Free
    <2>4. CASE w.leaf # y.leaf
      <3>1. y.leaf \in Free(v1, "b") => y.leaf \in Free(v1', "b")
        BY <1>8, <2>1, <2>4, LeavesAre DEF Free
      <3>2. \A z \in WritesOf(s) : z.leaf = y.leaf => z \in WritesOf(Tail(s))
        BY <1>4, <2>4
      <3>3. ASSUME Ordered(s, {z \in WritesOf(s) : Aimed(z)}, {z \in WritesOf(s) : z.how = "swap"})
            PROVE  Ordered(Tail(s), {z \in WritesOf(Tail(s)) : Aimed(z)}, {z \in WritesOf(Tail(s)) : z.how = "swap"})
        <4> DEFINE A == {z \in WritesOf(s) : Aimed(z)}
                   B == {z \in WritesOf(s) : z.how = "swap"}
                   C == {z \in WritesOf(Tail(s)) : Aimed(z)}
                   D == {z \in WritesOf(Tail(s)) : z.how = "swap"}
        <4>1. C \subseteq A /\ D \subseteq B /\ Ordered(s, A, B)
          BY <1>4, <3>3
        <4> HIDE DEF A, B, C, D
        <4>2. Ordered(Tail(s), A, B)
          BY <1>1, <1>3, <4>1, TailOrdered DEF s
        <4>3. Ordered(Tail(s), C, D)
          BY <4>1, <4>2 DEF Ordered
        <4>4. QED
          BY <4>3 DEF C, D
      <3>4. QED
        BY <2>1, <2>2, <3>1, <3>2, <3>3
    <2>5. QED
      BY <2>3, <2>4
  <1>14. PlanOK(v1', v2') \/ v2'.tool = "idle"
    <2>1. PlanOf(Tail(s))
      BY <1>4, PlanIs
    <2>2. v2' = [tool |-> v2.tool, dir |-> d, todo |-> Tail(s)]
      BY <1>1, <1>2 DEF d, PlanOK
    <2>3. QED
      BY <1>3, <1>4, <1>13, <2>1, <2>2 DEF PlanOK
  <1>15. QED
    BY <1>10, <1>12, <1>14 DEF LinkInv

LEMMA LinkNext ==
  ASSUME LinkInv, [Folders!Next]_(Folders!avars)
  PROVE  LinkInv'
  <1> USE DEF LinkInv
  <1>1. CASE UNCHANGED Folders!avars
    BY <1>1 DEF Folders!avars, LinksOK, PlanOK, Apart, Free
  <1>2. CASE Folders!Step
    BY <1>2, LinkStep
  <1>3. CASE Folders!Finish \/ Folders!Die
    <2>1. v2' = Folders!Idle /\ v1' = v1
      BY <1>3 DEF Folders!Finish, Folders!Die
    <2>2. v2'.tool = "idle"
      BY <2>1 DEF Folders!Idle
    <2>3. QED
      BY <2>1, <2>2
  <1>4. ASSUME UNCHANGED v1, PlanOK(v1, v2') PROVE LinkInv'
    BY <1>4
  <1>5. ASSUME NEW d \in {"a", "b"},
               \/ \E fit \in {{"t1"}, Folders!Tables} : Folders!Splice(d, fit)
               \/ Folders!PackPle(d) \/ Folders!GraftExtras(d) \/ Folders!Bundle(d) \/ Folders!Rebundle(d)
               \/ Folders!Permute(d, d) \/ \E replace \in BOOLEAN : Folders!Graft(d, replace)
        PROVE  LinkInv'
    <2>1. PlanOK(v1, v2')
      BY <1>5, SplicePlan, InPlacePlan, Zenon
    <2>2. UNCHANGED v1
      BY <1>5, Zenon DEF Folders!Splice, Folders!PackPle, Folders!GraftExtras, Folders!Bundle, Folders!Rebundle,
                  Folders!Permute, Folders!Graft, Folders!Begin
    <2>3. QED
      BY <1>4, <2>1, <2>2
  <1>6. ASSUME \/ Folders!Permute("a", "b") \/ Folders!PleSwap("a", "c", "b") \/ Folders!Pin("a", "b")
               \/ \E band \in {{"code2"}, Folders!Codes} : Folders!Mix("a", "c", band, "b")
               \/ Folders!Pack("a", "b") \/ Folders!PackDense("a", "b") \/ Folders!UnpackDense("c", "b")
               \/ Folders!Reskeleton("a", "c", "b")
        PROVE  LinkInv'
    <2>1. PlanOK(v1, v2')
      BY <1>6, LinkPlan, CopyPlan, Zenon
    <2>2. UNCHANGED v1
      BY <1>6, Zenon DEF Folders!Permute, Folders!PleSwap, Folders!Pin, Folders!Mix, Folders!Pack, Folders!PackDense,
                  Folders!UnpackDense, Folders!Reskeleton, Folders!Begin
    <2>3. QED
      BY <1>4, <2>1, <2>2
  <1>7. QED
    BY <1>1, <1>2, <1>3, <1>5, <1>6 DEF Folders!Next

LEMMA LinkHolds ==
  ASSUME LinkInv, [Folders!Next]_(Folders!avars)
  PROVE  Folders!SourceUntouched
  <1>1. CASE v1' = v1
    BY <1>1 DEF Folders!SourceUntouched, Folders!See
  <1>2. CASE Folders!Step
    BY <1>2, LinkStep, Zenon
  <1>3. [Folders!Next]_(Folders!avars) => v1' = v1 \/ Folders!Step
    BY Zenon DEF Folders!Next, Folders!avars, Folders!Finish, Folders!Die, Folders!Splice, Folders!PackPle,
           Folders!GraftExtras, Folders!Bundle, Folders!Rebundle, Folders!Graft, Folders!Begin,
           Folders!Permute, Folders!PleSwap, Folders!Pin, Folders!Mix, Folders!Pack, Folders!PackDense,
           Folders!UnpackDense, Folders!Reskeleton
  <1>4. QED
    BY <1>1, <1>2, <1>3

-----------------------------------------------------------------------------
(* The parts side by side.                                                  *)

BuildersInv ==
  /\ part = "refit" => BuildInv
  /\ part = "moe" => MoeInv
  /\ part = "reselect" => SelInv
  /\ part = "records" => RecInv
  /\ part = "scratch" => VolInv
  /\ part = "folders" => LinkInv

LEMMA BuildersInvariant == BuildsSpec => []BuildersInv
  <1>1. BuildsInit => BuildersInv
    BY BuildInit, MoeInit, SelInit, RecInit, VolInit, LinkInit DEF BuildsInit, BuildersInv
  <1>2. BuildersInv /\ [BuildsNext]_<<part, vs>> => BuildersInv'
    <2> SUFFICES ASSUME BuildersInv, [BuildsNext]_<<part, vs>>
                 PROVE  BuildersInv'
      OBVIOUS
    <2>1. UNCHANGED part
      BY DEF BuildsNext
    <2>2. ASSUME part = "refit" PROVE BuildInv'
      <3>1. [Refit!Next]_(Refit!bvars)
        BY <2>2 DEF BuildsNext, Refit!bvars, vs
      <3>2. QED
        BY <2>2, <3>1, BuildNext DEF BuildersInv
    <2>3. ASSUME part = "moe" PROVE MoeInv'
      <3>1. [Fitter!Next]_(Fitter!mvars)
        BY <2>3 DEF BuildsNext, Fitter!mvars, vs
      <3>2. QED
        BY <2>3, <3>1, MoeNext DEF BuildersInv
    <2>4. ASSUME part = "reselect" PROVE SelInv'
      <3>1. [Reselection!Next]_(Reselection!rvars)
        BY <2>4 DEF BuildsNext, Reselection!rvars, vs
      <3>2. QED
        BY <2>4, <3>1, SelNext DEF BuildersInv
    <2>5. ASSUME part = "records" PROVE RecInv'
      <3>1. [Records!Next]_(Records!pvars)
        BY <2>5 DEF BuildsNext, Records!pvars, vs
      <3>2. QED
        BY <2>5, <3>1, RecNext DEF BuildersInv
    <2>6. ASSUME part = "scratch" PROVE VolInv'
      <3>1. [Volume!Next]_(Volume!svars)
        BY <2>6 DEF BuildsNext, Volume!svars, vs
      <3>2. QED
        BY <2>6, <3>1, VolNext DEF BuildersInv
    <2>7. ASSUME part = "folders" PROVE LinkInv'
      <3>1. [Folders!Next]_(Folders!avars)
        BY <2>7 DEF BuildsNext, Folders!avars, vs
      <3>2. QED
        BY <2>7, <3>1, LinkNext DEF BuildersInv
    <2>8. QED
      BY <2>1, <2>2, <2>3, <2>4, <2>5, <2>6, <2>7 DEF BuildersInv
  <1>3. QED
    BY <1>1, <1>2, PTL DEF BuildsSpec

\* A finished geo-build is its geomap, whatever was reused, fitted or torn on
\* the way, its record never calls a copied part a fit, or the other way
\* round, and no fit of it is left out of the store unless its run was killed
\* before it got there (geo_build.py); a build record keeps the chain of what
\* it amends and finds every id a child named, in a history that can be read,
\* whatever tools, amendments and --portable do, unless a kill hit a write of
\* the history or a --portable; and it verifies until something else touches a
\* file (provenance.py).
THEOREM BuildsAsRecorded == BuildsSpec => []BuildIsAsRecorded
  <1>1. BuildersInv => BuildIsAsRecorded
    BY BuildHolds, RecHolds DEF BuildersInv, BuildIsAsRecorded
  <1>2. QED
    BY <1>1, BuildersInvariant, PTL

\* A finished fit-moe leaves no truncated shard, whichever runs made them, its
\* config describes the codes and its fits are in the store, unless the run
\* was killed before it got there; a finished re-selection holds, for every
\* module, a code no other beats under the Gram and the flags its part was
\* made by (fit_moe.py, reselect.py).
THEOREM BuildsFitWhole == BuildsSpec => []FitIsWhole
  <1>1. BuildersInv => FitIsWhole
    BY MoeHolds, SelHolds DEF BuildersInv, FitIsWhole
  <1>2. QED
    BY <1>1, BuildersInvariant, PTL

\* When all rm lines of a scratch survey are run, what they delete has a copy
\* they leave, nothing that is registered, filed or the last pack is touched,
\* and no symlink that is left dangles, whatever was packed, edited, filed and
\* linked before; only of a source edited where its record, sizes and first
\* megabytes do not show it the sole copy may go (scratch.py).
THEOREM BuildsReclaimSafe == BuildsSpec => ReclaimIsSafe
  <1>1. BuildersInv /\ [BuildsNext]_<<part, vs>> => [part = "scratch" => Volume!DeletedIsElsewhere]_vs
    <2> SUFFICES ASSUME BuildersInv, part = "scratch"
                 PROVE  Volume!DeletedIsElsewhere
      OBVIOUS
    <2>1. VolInv
      BY DEF BuildersInv
    <2>2. QED
      BY <2>1, VolHolds DEF Volume!DeletedIsElsewhere
  <1>2. QED
    BY <1>1, BuildersInvariant, PTL DEF BuildsSpec, ReclaimIsSafe

\* Whatever tools ran before, were killed and ran again, a tool at work in the
\* derived folder changes nothing its source shows but for the files that are
\* written where the folder's link leads: the index, the config and the fit's
\* shards of splice-ple, the tower's shard of graft, the shards of the packers
\* (splice_ple.py, vision_graft.py, bundle.py, pin.py and the other builders).
THEOREM BuildsSourcesSurvive == BuildsSpec => SourcesSurvive
  <1>1. BuildersInv /\ [BuildsNext]_<<part, vs>> => [part = "folders" => Folders!SourceUntouched]_vs
    <2> SUFFICES ASSUME BuildersInv, [BuildsNext]_<<part, vs>>, part = "folders"
                 PROVE  Folders!SourceUntouched
      OBVIOUS
    <2>1. LinkInv
      BY DEF BuildersInv
    <2>2. [Folders!Next]_(Folders!avars)
      BY DEF BuildsNext, Folders!avars, vs
    <2>3. QED
      BY <2>1, <2>2, LinkHolds
  <1>2. QED
    BY <1>1, BuildersInvariant, PTL DEF BuildsSpec, SourcesSurvive

=============================================================================

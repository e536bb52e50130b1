----------------------------- MODULE RecipeRun -----------------------------
(***************************************************************************)
(* What a compiled recipe does to the files when a queue runs it: first    *)
(* the preflight (vqlab/queue/steps.py: preflight_args, redirect_outs),    *)
(* then the steps as written.  A file is its provenance: the steps that    *)
(* made it and what it was made of.                                        *)
(*                                                                         *)
(* A step that finds an input missing stops the queue; a step's tool may   *)
(* edit the artifact it is given; a pin is links, so it shows what its     *)
(* source holds.                                                           *)
(***************************************************************************)
EXTENDS RecipeChain

CONSTANT Recipes              \* the recipes compiled
VARIABLES recipe,
          phase,              \* "preflight", "run", "done", "broken"
          at,                 \* the next step
          files,              \* path -> the steps in its provenance
          outmap,             \* this preflight's outputs, <<real, preflight>>
          seen                \* check -> what the artifact held when it ran

vars == <<recipe, phase, at, files, outmap, seen>>

chain == Chain(recipe)
Checks == {"smoke", "runtime-check", "release-check", "score"}
InPlace == {"graft", "splice-ple", "pack-ple", "bundle"}

\* What lies at or below a path.
Content(fs, path) == UNION {fs[p] : p \in {q \in DOMAIN fs : Under(q, path)}}

\* The step as this phase runs it, and the outputs redirected so far.
Ready(st) ==
  IF phase = "run" THEN [args |-> st.args, map |-> outmap]
  ELSE Redirected(st, <<"pf", st.name>>, outmap)

Edited(st) == IF st.cmd \in InPlace
              THEN {a.path : a \in {b \in ToSet(st.args) : b.flag = "--artifact"}} ELSE {}
\* The dry run names its output and writes nothing.
Written(st) == IF st.name = "remap-check" THEN {} ELSE Outs(st)

\* files after a step: new outputs carry what the step read, and a file
\* made inside an artifact carries only the step.
After(fs, st) ==
  LET read == UNION {Content(fs, p) : p \in Ins(st)}
      new(p) == {st.name} \cup read
  IN  [p \in DOMAIN fs \cup Written(st) |->
         IF p \in Written(st) THEN new(p)
         ELSE IF p \in Edited(st) THEN fs[p] \cup new(p) ELSE fs[p]]

Init ==
  /\ recipe \in {r \in Recipes : ~Refused(r)}
  /\ phase = "preflight" /\ at = 1 /\ outmap = {} /\ seen = <<>>
  /\ files = [p \in {src, given, hub} |-> {p[1]}]

RunStep ==
  /\ phase \in {"preflight", "run"} /\ at <= Len(chain)
  /\ LET st == chain[at]
         ready == Ready(st)
         now == [st EXCEPT !.args = ready.args]
         art == CHOOSE a \in Ins(now) : a[1] # "src"
     IN  IF Missing(now, DOMAIN files) # {}
         THEN phase' = "broken" /\ UNCHANGED <<at, files, outmap, seen>>
         ELSE /\ at' = at + 1
              /\ outmap' = ready.map
              /\ files' = After(files, now)
              /\ seen' = IF st.name \in Checks THEN (st.name :> Content(files, art)) @@ seen
                         ELSE seen
              /\ UNCHANGED phase
  /\ UNCHANGED recipe

\* The preflight passed: the real run starts from the files as they were.
StartRun ==
  /\ phase = "preflight" /\ at = Len(chain) + 1
  /\ phase' = "run" /\ at' = 1 /\ seen' = <<>>
  /\ UNCHANGED <<recipe, files, outmap>>

Finish ==
  /\ phase = "run" /\ at = Len(chain) + 1
  /\ phase' = "done"
  /\ UNCHANGED <<recipe, at, files, outmap, seen>>

Next == RunStep \/ StartRun \/ Finish
Spec == Init /\ [][Next]_vars

-----------------------------------------------------------------------------
\* A compiled chain closes: no step of it, in the preflight or in the run,
\* reads a path that no earlier step made, and the queue accepts the file
\* (steps.static_check, steps.validate over what _compile returns).
ChainCloses == phase # "broken" /\ Problems(chain) = {}

\* A preflight writes under its own folders only: the teacher, an incumbent
\* and the recipe's work folder are as they were (steps.redirect_outs).
PreflightIsApart ==
  phase = "preflight" =>
    \A p \in DOMAIN files : p[1] = "pf" \/ (p \in {src, given, hub} /\ files[p] = {p[1]})

\* What was checked is what is pinned: no step of a run touches the folder
\* the pin points into after the first of the closing checks read it
\* (_tail_steps: the sidecar, the graft and the skip-zero pack come first).
CheckedIsPinned ==
  phase \in {"run", "done"} =>
    \A c \in DOMAIN seen \ {"score"} : seen[c] = Content(files, Shipped(recipe))

\* A finished run pins everything the recipe asked for (_compile).
AskedForIsPinned ==
  phase = "done" =>
    LET has(step) == step \in Content(files, pin)
    IN  /\ has("vision") = (recipe.vision /\ recipe.tower /\ Fam(recipe).tower = "graft")
        /\ has("mtp-pack") = (recipe.mtp # "off")
        /\ has("skipzero-bundle") = (recipe.skipzero # "off")
        /\ recipe.mode = "vq" => has("fit")
        /\ recipe.mode = "vq" /\ Fam(recipe).ple => has("ple-pack")

\* The release check of a preflight sees the draft head the build ships, as
\* it does in the run (claimed of the served folder by _mtp_steps).
PreflightServesTheHead ==
  phase = "preflight" /\ "release-check" \in DOMAIN seen /\ recipe.mtp # "off"
    => "mtp-pack" \in seen["release-check"]

=============================================================================

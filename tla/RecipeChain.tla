---------------------------- MODULE RecipeChain ----------------------------
(***************************************************************************)
(* The steps of a queue file as data (vqlab/queue/steps.py), and the recipe *)
(* compiler (vqlab/plan/recipe_queue.py): which arguments of a step are     *)
(* read and which are written, what a preflight makes of them, which queue  *)
(* files are refused; which recipes are refused, and the chain of steps     *)
(* each of the others becomes.  Sizes are abstracted to one choice, whether *)
(* the build is past this box's resident bar; bits, geometries and timeouts *)
(* are left out.                                                            *)
(*                                                                          *)
(* An argument is a flag ("" for a positional) and the path it names; a     *)
(* path is the sequence of its parts, "work" the recipe's scratch folder.   *)
(* Arguments that are no paths are left out.                                *)
(***************************************************************************)
EXTENDS Naturals, FiniteSets, SequencesExt

Arg(flag, path) == [flag |-> flag, path |-> path]

\* Flags whose value is an output, and the command that reads one of them.
OUT_FLAGS == {"--out", "--output", "--parts", "--save", "--log", "--per-pos-dir", "--keep-dir"}
INPUT_FLAGS(cmd) == IF cmd = "kl-pair" THEN {"--per-pos-dir"} ELSE {}
IsOut(cmd, a) == a.flag \in OUT_FLAGS \ INPUT_FLAGS(cmd)

Outs(st) == {st.args[i].path : i \in {j \in DOMAIN st.args : IsOut(st.cmd, st.args[j])}}
Ins(st)  == {st.args[i].path : i \in {j \in DOMAIN st.args : ~IsOut(st.cmd, st.args[j])}}

Under(path, dir) == IsPrefix(dir, path)

\* static_check: every input exists, as itself or as a directory something is in.
Missing(st, files) == {p \in Ins(st) : \A f \in files : ~Under(f, p)}

-----------------------------------------------------------------------------
\* Mutant: the first output that matches, not the longest.
RenamedShortest(path, outmap) ==
  {o \in outmap : Under(path, o[1])
     /\ \A p \in outmap : Under(path, p[1]) => Len(p[1]) >= Len(o[1])}

\* The longest output made so far that `path` is, or lies in.
Renamed(path, outmap) ==
  {o \in outmap : Under(path, o[1])
     /\ \A p \in outmap : Under(path, p[1]) => Len(p[1]) <= Len(o[1])}

\* Mutant: outputs are recorded as moved and left where they were.
MovedInputs(cmd, a, dir, outmap) ==
  LET hit == Renamed(a.path, outmap)
  IN  IF IsOut(cmd, a) \/ hit = {} THEN a.path
      ELSE LET o == CHOOSE o \in hit : TRUE
           IN  o[2] \o SubSeq(a.path, Len(o[1]) + 1, Len(a.path))

\* One argument of a preflight: an output goes to the step's own folder under
\* its last part, an input follows what an earlier step put there.
Moved(cmd, a, dir, outmap) ==
  IF IsOut(cmd, a) THEN Append(dir, Last(a.path))
  ELSE LET hit == Renamed(a.path, outmap)
       IN  IF hit = {} THEN a.path
           ELSE LET o == CHOOSE o \in hit : TRUE
                IN  o[2] \o SubSeq(a.path, Len(o[1]) + 1, Len(a.path))

Recorded(cmd, a, dir, outmap) ==
  IF IsOut(cmd, a)
  THEN {o \in outmap : o[1] # a.path} \cup {<<a.path, Append(dir, Last(a.path))>>}
  ELSE outmap

\* redirect_outs, argument by argument: what is redirected is found again by
\* the arguments that follow it.
Redirected(st, dir, outmap) ==
  FoldLeft(LAMBDA acc, a :
             [args |-> Append(acc.args, Arg(a.flag, Moved(st.cmd, a, dir, acc.map))),
              map  |-> Recorded(st.cmd, a, dir, acc.map)],
           [args |-> <<>>, map |-> outmap], st.args)

-----------------------------------------------------------------------------
\* What validate finds wrong with a queue, as pairs of a step and a problem.
Problems(steps) ==
  LET at(i) == steps[i]
      bad(i, what) ==
        CASE what = "no name"     -> at(i).name = ""
          [] what = "twice"       -> \E j \in 1..(i - 1) : at(j).name = at(i).name
          [] what = "cmd/script"  -> (at(i).cmd = "") = (at(i).script = "")
          [] what = "publish"     -> at(i).cmd = "publish"
          [] what = "on_fail"     -> at(i).on_fail \notin {"stop", "continue"}
          [] what = "preflight"   -> at(i).pf \notin {"none", "args", "append", "skip", "full"}
      kinds == {"no name", "twice", "cmd/script", "publish", "on_fail", "preflight"}
  IN  {w \in (DOMAIN steps) \X kinds : bad(w[1], w[2])}

-----------------------------------------------------------------------------
(* The chain of a recipe.                                                    *)

src   == <<"src">>            \* the teacher
given == <<"base">>           \* the incumbent a dense recipe names
hub   == <<"hub">>            \* the incumbent a family's registry entry names
work(leaf) == <<"work", leaf>>
out == work("out")
pin == work("pin")

\* What FAMILY declares of the chain: its kind, n-gram tables, whether the
\* tower rides the base, whether the base is an incumbent Hub build, and the
\* draft head vqlab packs ("wired": the checkpoint leaves its wiring open).
Entry(kind, ple, tower, incumbent, head) ==
  [kind |-> kind, ple |-> ple, tower |-> tower, incumbent |-> incumbent, head |-> head]
FAMILY ==
  [qwen3_5       |-> Entry("moe",   FALSE, "graft", FALSE, "wired"),
   qwen4_exp     |-> Entry("moe",   TRUE,  "graft", FALSE, "fixed"),
   glm5_next     |-> Entry("moe",   FALSE, "base",  FALSE, "fixed"),
   gemma4        |-> Entry("moe",   FALSE, "graft", FALSE, "none"),
   gemma4_e4b    |-> Entry("dense", FALSE, "base",  TRUE,  "none"),
   qwen3_8_dense |-> Entry("dense", FALSE, "graft", FALSE, "wired")]
Fam(r) == FAMILY[r.family]

\* "mtp": off, the teacher has no head, or its wiring is recorded or not.
\* "skipzero": off, dead rows measured or not.
Recipe ==
  [family : DOMAIN FAMILY, mode : {"vq", "affine"}, base : BOOLEAN,
   vision : BOOLEAN, tower : BOOLEAN, mtp : {"off", "headless", "recorded", "open"},
   skipzero : {"off", "measured", "unmeasured"},
   score : {"off", "cached", "uncached"}, oversized : BOOLEAN]

\* Dead rows nobody has measured, or cannot be priced at this geometry.
Unmeasured(r) == r.skipzero = "unmeasured"

\* The teacher has no draft head, or one that cannot be packed or wired.
NoHead(r) ==
  \/ r.mtp = "headless"
  \/ r.mtp # "off" /\ Fam(r).head = "none"
  \/ r.mtp = "open" /\ Fam(r).head = "wired" /\ r.oversized

Refused(r) ==
  \/ r.skipzero # "off" /\ ~(r.mode = "vq" /\ Fam(r).kind = "moe")
  \/ Unmeasured(r) \/ NoHead(r)
  \/ r.mode = "affine" /\ Fam(r).incumbent

Step(name, cmd, args, pf) ==
  [name |-> name, cmd |-> cmd, script |-> "", args |-> args, pf |-> pf, on_fail |-> "stop"]
On(cond, steps) == IF cond THEN steps ELSE <<>>

-----------------------------------------------------------------------------
Affine == << Step("convert", "stream-convert", <<Arg("--src", src), Arg("--out", out)>>, "full") >>

\* The tables are fitted on their own, spliced into the build and packed.
Ple ==
  << Step("ple-fit", "fit-ple", <<Arg("--src", src), Arg("--out", work("ple-fit"))>>, "append"),
     Step("ple-splice", "splice-ple", <<Arg("--artifact", out), Arg("--ple-fit", work("ple-fit"))>>, "full"),
     Step("ple-pack", "pack-ple", <<Arg("--artifact", out)>>, "full") >>

Moe(r) ==
  << Step("struct-base", "stream-convert", <<Arg("--src", src), Arg("--out", work("struct"))>>, "full"),
     Step("fit", "fit-moe",
          <<Arg("--base", work("struct")), Arg("--src", src), Arg("--out", out)>>, "args") >>
  \o On(Fam(r).ple, Ple)

DenseBase(r) == IF r.base THEN given ELSE IF Fam(r).incumbent THEN hub ELSE work("base-q")

Dense(r) ==
  LET base == DenseBase(r)
      Build(name) == Step(name, "build-dense",
        <<Arg("--base", base), Arg("--mlp", work("fit")), Arg("--out", work("build"))>>, "full")
  IN  On(base = work("base-q"),
         << Step("base", "stream-convert", <<Arg("--src", src), Arg("--out", base)>>, "full") >>)
      \o << Step("fit", IF Fam(r).incumbent THEN "fit-ple" ELSE "fit-dense",
                 <<Arg("--src", src), Arg("--out", work("fit"))>>,
                 IF Fam(r).incumbent THEN "append" ELSE "args"),
            Build("remap-check"), Build("build"),
            Step("pack", "pack-dense", <<Arg("--src", work("build")), Arg("--out", out)>>, "full") >>

-----------------------------------------------------------------------------
Vision(r) ==
  IF ~r.tower \/ (Fam(r).tower = "graft" /\ ~r.vision) THEN <<>>
  ELSE On(Fam(r).tower = "graft",
          << Step("vision", "graft", <<Arg("--artifact", out), Arg("--src", src)>>, "full") >>)
       \o On(~r.oversized, << Step("vision-smoke", "vision-smoke", <<Arg("", out)>>, "full") >>)

sz == work("sz")
SkipZero ==
  << Step("skipzero", "sz-pack", <<Arg("", out), Arg("--out", sz)>>, "append"),
     Step("skipzero-check", "sz-check", <<Arg("", sz), Arg("", out)>>, "full"),
     Step("skipzero-bundle", "bundle", <<Arg("--artifact", sz)>>, "full") >>

\* The head's sidecar goes into the artifact; where its wiring is not
\* recorded a trial pack is probed first.
DraftHead(r, art) ==
  LET graft   == work("mtp-graft")
      sidecar == Append(art, "head")
      trial   == work("mtp-trial")
      probed  == r.mtp = "open" /\ Fam(r).head = "wired"
      read    == <<Arg("--model", art), Arg("--mtp", graft)>>
  IN  << Step("mtp-extract", "mtp-extract", <<Arg("--src", src), Arg("--out", graft)>>, "full") >>
      \o On(probed,
            << Step("mtp-trial-pack", "mtp-pack", Append(read, Arg("--out", trial)), "full"),
               Step("mtp-wiring-probe", "mtp-probe35",
                    <<Arg("--model", art), Arg("--sidecar", trial), Arg("--out", work("probe"))>>,
                    "append") >>)
      \o << Step("mtp-pack", "mtp-pack",
                 read \o On(probed, <<Arg("--wiring-from", work("probe"))>>)
                      \o <<Arg("--out", sidecar)>>, "full"),
            Step("mtp-smoke", "mtp-smoke-head",
                 <<Arg("--model", art), Arg("--sidecar", sidecar)>>, "append") >>
      \o On(~r.oversized,
            << Step("mtp-accept", "mtp-accept",
                    <<Arg("--model", art), Arg("--head", sidecar), Arg("--out", work("accept"))>>,
                    "append") >>)

\* Mutant: the checks run on the unpacked build after a skip-zero pack.
ShippedUnpacked(r) == out

\* The folder the pin and every check after it read.
Shipped(r) == IF r.skipzero = "off" THEN out ELSE sz

\* Mutant: the pin is made before the draft head is packed.
TailPinsFirst(r) ==
  LET art == Shipped(r)
  IN  Vision(r) \o On(r.skipzero # "off", SkipZero)
      \o << Step("smoke", "pin", <<Arg("", art), Arg("--out", pin)>>, "full") >>
      \o On(r.mtp # "off", DraftHead(r, art))
      \o << Step("runtime-check", "check-bundle", <<Arg("--artifact", art)>>, "full"),
            Step("release-check", "check-release",
                 <<Arg("--artifact", art), Arg("--tokenizer-ref", src)>>, "full") >>

\* What every chain ends with.
Tail_(r) ==
  LET art == Shipped(r)
  IN  Vision(r) \o On(r.skipzero # "off", SkipZero) \o On(r.mtp # "off", DraftHead(r, art))
      \o << Step("smoke", "pin", <<Arg("", art), Arg("--out", pin)>>, "full"),
            Step("runtime-check", "check-bundle", <<Arg("--artifact", art)>>, "full") >>
      \o On(r.oversized, << Step("knurlogic-link", "knurlogic-link", <<Arg("", art)>>, "full") >>)
      \o << Step("release-check", "check-release",
                 <<Arg("--artifact", art), Arg("--tokenizer-ref", src)>>, "full") >>
      \o On(r.score = "cached",
            << Step("score", "kl-ladder",
                    <<Arg("--rung", pin), Arg("--per-pos-dir", work("kl-per-pos")),
                      Arg("--out", work("kl.json"))>>, "append") >>)

Chain(r) ==
  (IF r.mode = "affine" THEN Affine
   ELSE IF Fam(r).kind = "moe" THEN Moe(r) ELSE Dense(r)) \o Tail_(r)

=============================================================================

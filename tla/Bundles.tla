------------------------------- MODULE Bundles -------------------------------
(***************************************************************************)
(* The runtime an artifact carries in its model.py, and what is said of it  *)
(* (bundle/add_model_file.py, bundle/rebundle_dense.py, gate/pin.py --flag, *)
(* runtime/runtime_profile.py, gate/check_bundle.py).  A bundle is the      *)
(* repository's runtime text with the defaults the artifact shipped with;   *)
(* check-bundle compares it with the runtime of the day, PASS, or with      *)
(* earlier revisions certified to give the same bytes, STALE.  The Fleet    *)
(* page keeps verdicts by the modification times of what they are about.    *)
(*                                                                         *)
(* A MoE bundle carries vq_switch.py, a dense one vq_dense.py as well.  Of   *)
(* the defaults there are two: "cut" stands for those a certification names *)
(* (VQ_FUSED_MAX_N, VQ_GEMMSEG_ACCS, VQ_GEMMSEG_CVEC; the first revision has *)
(* none and runs the legacy values), "io" for the bf16 pair of a profile.   *)
(* The repository moves on at any time; a revision lands with a registry    *)
(* its equivalence test accepts.  Every write has a time of its own.        *)
(***************************************************************************)
EXTENDS Naturals

CONSTANTS MaxRevs,  \* revisions of both parts, and
          MaxTools, MaxLooks, MaxFixes  \* bounds

VARIABLES repo,      \* [rev : part -> revision, cut, io]: the runtime of the day
          registry,  \* certified revisions: [part, rev, cut, only]
          same,      \* part -> revision -> the cuts at which it equals today's output
          art,       \* [dense, sz, text]: the artifact
          mtime,     \* file -> when it was last written
          tool,      \* the bundler or pin at work
          look,      \* the page's verdict being made
          cache,     \* the page's verdicts: [key, word]
          shipped,   \* [cut, io]: the defaults last chosen for the artifact
          spent      \* [tools, looks, fixes, torn]

bvars == <<repo, registry, same, art, mtime, tool, look, cache, shipped, spent>>

Parts == {"switch", "dense"}
Cuts == {"legacy", "new"}
Profiles == {"v1.5", "v2"}
Files == {"model.py", "config.json", "registry"} \cup Parts
Idle == [at |-> "none"]
Torn == [rev |-> [p \in Parts |-> 0], cut |-> "none", io |-> "none"]

\* The parts a bundle of the artifact's kind carries.
Carried == IF art.dense THEN Parts ELSE {"switch"}

Text(cut, io) ==
  [rev |-> [p \in Parts |-> IF p \in Carried THEN repo.rev[p] ELSE 0],
   cut |-> cut, io |-> io]

\* The repository is at its second vq_switch.py, which has the knobs and is
\* certified against the first at the legacy values.
Init ==
  /\ repo = [rev |-> [p \in Parts |-> IF p = "switch" THEN 2 ELSE 1], cut |-> "new", io |-> "v1.5"]
  /\ registry = {[part |-> "switch", rev |-> 1, cut |-> "legacy", only |-> FALSE]}
  /\ same = [p \in Parts |-> [r \in 1..repo.rev[p] |-> IF r < repo.rev[p] THEN {"legacy"} ELSE Cuts]]
  /\ \E dense, sz \in BOOLEAN, switch \in 0..2, io \in Profiles \cup {"none"}, cut \in Cuts \cup {"none"} :
       /\ sz => ~dense
       /\ switch = 0 => dense
       /\ (io = "none") <=> (switch = 0)
       /\ (cut = "none") <=> (switch < 2)
       /\ art = [dense |-> dense, sz |-> sz,
                 text |-> [rev |-> [p \in Parts |-> IF p = "switch" THEN switch ELSE IF dense THEN 1 ELSE 0],
                           cut |-> cut, io |-> io]]
  /\ mtime = [f \in Files |-> 0]
  /\ tool = Idle /\ look = Idle /\ cache = {}
  /\ shipped = [cut |-> art.text.cut, io |-> art.text.io]
  /\ spent = [tools |-> 0, looks |-> 0, fixes |-> 0, torn |-> FALSE]

Written(files) == mtime' = [f \in Files |-> IF f \in files THEN mtime[f] + 1 ELSE mtime[f]]

-----------------------------------------------------------------------------
\* A revision of one part lands.  Its output equals the one before it at the
\* cuts of `agree`, for vq_dense at all or none; certified revisions stay in
\* the registry while the test holds, and today's may join them (what a later
\* one lacks is taken to be for features the artifact does not use).
Land(p, agree, cut, joins) ==
  LET r == repo.rev[p]
      now == [q \in Parts |-> [x \in 1..(repo.rev[q] + IF q = p THEN 1 ELSE 0) |->
               IF q # p THEN same[q][x] ELSE IF x = r + 1 THEN Cuts ELSE same[q][x] \cap agree]]
      was == [part |-> p, rev |-> r, only |-> r > 1,
              cut |-> IF p = "switch" THEN repo.cut ELSE "legacy"]
      holds(e) == IF e.part = "switch" THEN e.cut \in now[e.part][e.rev]
                                       ELSE now[e.part][e.rev] = Cuts
  IN  /\ p \in Carried /\ repo.rev["switch"] + repo.rev["dense"] < MaxRevs
      /\ p = "dense" => agree \in {{}, Cuts} /\ cut = repo.cut
      /\ repo' = [repo EXCEPT !.rev = [repo.rev EXCEPT ![p] = r + 1], !.cut = cut]
      /\ same' = now
      /\ registry' = {e \in registry \cup (IF joins THEN {was} ELSE {}) : holds(e)}
      /\ Written({p, "registry"})
      /\ UNCHANGED <<art, tool, look, cache, shipped, spent>>

\* An entry is found wrong or no longer wanted, and taken out alone.
Withdraw(e) ==
  /\ spent.fixes < MaxFixes
  /\ registry' = registry \ {e}
  /\ Written({"registry"})
  /\ spent' = [spent EXCEPT !.fixes = @ + 1]
  /\ UNCHANGED <<repo, same, art, tool, look, cache, shipped>>

-----------------------------------------------------------------------------
\* A bundler begins: that of MoE artifacts writes config.json first.
BeginBundle(profile, adopt) ==
  /\ tool = Idle /\ spent.tools < MaxTools
  /\ tool' = [at |-> "config", profile |-> profile, adopt |-> adopt]
  /\ spent' = [spent EXCEPT !.tools = @ + 1]
  /\ Written(IF art.dense THEN {} ELSE {"config.json"})
  /\ UNCHANGED <<repo, registry, same, art, look, cache, shipped>>

\* Mutant: a rebundle takes the repository's default.
Todays(flag) == repo[flag]

\* preserve_shipped: a default the artifact ships is kept, one that it has
\* not got, or that is adopted, is the repository's.
Kept(flag) == IF art.text[flag] = "none" \/ flag \in tool.adopt THEN repo[flag] ELSE art.text[flag]

\* resolve_runtime; model.py is written in place, and is empty for a while.
Resolve ==
  /\ tool.at = "config"
  /\ tool' = [at |-> "writing",
              text |-> Text(Kept("cut"), IF tool.profile # "none" THEN tool.profile ELSE Kept("io")),
              chosen |-> [cut |-> art.text.cut = "none" \/ "cut" \in tool.adopt,
                          io |-> art.text.io = "none" \/ "io" \in tool.adopt \/ tool.profile # "none"]]
  /\ art' = [art EXCEPT !.text = Torn]
  /\ Written({"model.py"})
  /\ UNCHANGED <<repo, registry, same, look, cache, shipped, spent>>

\* pin --flag: one default of the text is set.
BakeFlag(flag, value) ==
  /\ tool = Idle /\ spent.tools < MaxTools
  /\ art.text[flag] # "none"
  /\ tool' = [at |-> "writing", text |-> [art.text EXCEPT ![flag] = value],
              chosen |-> [f \in {"cut", "io"} |-> f = flag]]
  /\ art' = [art EXCEPT !.text = Torn]
  /\ spent' = [spent EXCEPT !.tools = @ + 1]
  /\ Written({"model.py"})
  /\ UNCHANGED <<repo, registry, same, look, cache, shipped>>

FinishWrite ==
  /\ tool.at = "writing"
  /\ art' = [art EXCEPT !.text = tool.text]
  /\ shipped' = [f \in {"cut", "io"} |-> IF tool.chosen[f] THEN tool.text[f] ELSE shipped[f]]
  /\ tool' = Idle
  /\ Written({"model.py"})
  /\ UNCHANGED <<repo, registry, same, look, cache, spent>>

Die ==
  /\ tool # Idle
  /\ tool' = Idle
  /\ spent' = IF tool.at = "writing" THEN [spent EXCEPT !.torn = TRUE] ELSE spent
  /\ UNCHANGED <<repo, registry, same, art, mtime, look, cache, shipped>>

-----------------------------------------------------------------------------
\* check-bundle on a text.

\* _baked_prefill_flags: a knob the text does not have runs its legacy value.
Baked(text) == IF text.cut = "none" THEN "legacy" ELSE text.cut

\* Mutant: a certification is taken to hold at every default.
AtAnyFlags(text, e) == TRUE

\* The certification holds at one set of flags.
Covered(text, e) == e.part = "switch" => Baked(text) = e.cut

\* _stale_as: the certified revision the text carries.
Certified(text, p) ==
  {e \in registry : e.part = p /\ e.rev = text.rev[p] /\ Covered(text, e)}

Verbatim(text, p) ==
  /\ text.rev[p] = repo.rev[p]
  /\ p = "switch" => text.io = repo.io /\ text.cut = repo.cut

\* matches_modulo_flags: today's code, whatever defaults it bakes.
Current(text) == \A p \in Carried : text.rev[p] = repo.rev[p]

Revisions(a) ==
  IF a.dense THEN UNION {Certified(a.text, p) : p \in {q \in Parts : ~Verbatim(a.text, q)}}
  ELSE Certified(a.text, "switch")

\* check and _verdict: the current code with any defaults passes; one earlier
\* but certified is STALE, or CURRENT where it gains nothing for this artifact;
\* every part of a dense bundle that is not verbatim must be certified; nothing
\* is certified for skip-zero artifacts.
Verdict(a) ==
  CASE \E p \in Carried : a.text.rev[p] = 0 -> "FAIL"
    [] Current(a.text) -> "PASS"
    [] a.dense /\ \E p \in Parts : ~Verbatim(a.text, p) /\ Certified(a.text, p) = {} -> "FAIL"
    [] ~a.dense /\ (a.sz \/ Certified(a.text, "switch") = {}) -> "FAIL"
    [] OTHER -> IF \A e \in Revisions(a) : e.only THEN "CURRENT" ELSE "STALE"

\* Mutant: the registry is taken for fixed.
SansRegistry == [f \in Files |-> IF f = "registry" THEN 0 ELSE mtime[f]]

Key == mtime

\* The page asks: a verdict made for these times is shown as it is.  Another
\* is made, from the artifact's files and then the repository's, and kept.
BeginLook ==
  /\ look = Idle /\ spent.looks < MaxLooks
  /\ \A c \in cache : c.key # Key
  /\ look' = [at |-> "stat", key |-> Key]
  /\ spent' = [spent EXCEPT !.looks = @ + 1]
  /\ UNCHANGED <<repo, registry, same, art, mtime, tool, cache, shipped>>

ReadBundle ==
  /\ look.at = "stat"
  /\ look' = [at |-> "read", key |-> look.key, art |-> art]
  /\ UNCHANGED <<repo, registry, same, art, mtime, tool, cache, shipped, spent>>

EndLook ==
  /\ look.at = "read"
  /\ cache' = cache \cup {[key |-> look.key, word |-> Verdict(look.art)]}
  /\ look' = Idle
  /\ UNCHANGED <<repo, registry, same, art, mtime, tool, shipped, spent>>

Next ==
  \/ \E p \in Parts, agree \in SUBSET Cuts, cut \in Cuts, joins \in BOOLEAN :
       Land(p, agree, cut, joins)
  \/ \E e \in registry : Withdraw(e)
  \/ \E profile \in {"none"} \cup Profiles, adopt \in {{}, {"cut", "io"}} :
       BeginBundle(profile, adopt)
  \/ Resolve \/ FinishWrite \/ Die \/ BeginLook \/ ReadBundle \/ EndLook
  \/ \E cut \in Cuts : BakeFlag("cut", cut)
  \/ \E io \in Profiles : BakeFlag("io", io)

-----------------------------------------------------------------------------
\* What is said of a bundle holds: one that does not fail gives today's output
\* at the defaults it bakes (as far as a certification names them), and the
\* verdict a page would show is the one a check made now would give.  As long
\* as no bundler was killed amid its write, the artifact's defaults are those
\* last chosen for it, whatever the repository's have become.
VerdictIsTrue ==
  /\ Verdict(art) # "FAIL" =>
       \A p \in Carried : Baked(art.text) \in same[p][art.text.rev[p]]
  /\ \A c \in cache : c.key = Key => c.word = Verdict(art)
  /\ art.text # Torn /\ ~spent.torn => [cut |-> art.text.cut, io |-> art.text.io] = shipped

=============================================================================

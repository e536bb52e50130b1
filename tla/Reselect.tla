------------------------------ MODULE Reselect ------------------------------
(***************************************************************************)
(* Activation-aware re-selection of codes (vqlab/fit/reselect.py).          *)
(* `calibrate` has the artifact generate its own text and banks, for every  *)
(* expert module, the Gram matrix of what the module sees; `apply` picks    *)
(* each subvector's code anew, as the one with the least error under that   *)
(* Gram, into parts kept beside the folder it will write, and assembles the *)
(* folder when every module has its part.  A run that died is taken up from *)
(* its parts by the next one with the same --out.                           *)
(*                                                                         *)
(* One subvector of two numbers stands for a module; numbers are integers,  *)
(* and a subvector is compared with `scale` times a codeword, which is the  *)
(* code's comparison after the division by the scale.                       *)
(***************************************************************************)
EXTENDS Integers, Sequences, FiniteSets, FiniteSetsExt

CONSTANTS Modules,    \* the artifact's expert modules
          Banked,     \* those a bank can hold
          Targets,    \* teacher checkpoints: module -> its weights, <<x, y>>
          Texts,      \* what sampling can give: the rows a module sees
          BaseCode, BaseScale,  \* the artifact's own codes and scales
          Codebook,   \* the codewords, a sequence of <<x, y>>
          MaxBanks, MaxRuns  \* bounds

VARIABLES banks,  \* bank folders: [grams, manifest], in the order they were made
          parts,  \* <out>.parts: module -> what is there of its part and report
          out,    \* the folder `apply` writes
          run,    \* the apply at work
          runs,   \* the flags of the runs there were
          mixed   \* a part of other flags was taken up

rvars == <<banks, parts, out, run, runs, mixed>>

Idle == [at |-> "none"]
Nothing == [is |-> "none"]

-----------------------------------------------------------------------------
Abs(i) == IF i < 0 THEN -i ELSE i

\* G = sum of X^T X over the rows a module sees, chunk after chunk: <<xx, xy, yy>>.
\* The capture hook adds up what each call sees; the division by the row count
\* scales every error alike.
Gram(rows) == <<FoldSet(LAMBDA i, s : s + rows[i][1] * rows[i][1], 0, DOMAIN rows),
                FoldSet(LAMBDA i, s : s + rows[i][1] * rows[i][2], 0, DOMAIN rows),
                FoldSet(LAMBDA i, s : s + rows[i][2] * rows[i][2], 0, DOMAIN rows)>>

\* normalize: max-abs of the group, or the scale the artifact shipped.
Scale(w, m, keep) == IF keep THEN BaseScale[m] ELSE Max({1, Abs(w[1]), Abs(w[2])})

\* a G b^T for the symmetric G.
Form(a, g, b) == a[1] * (g[1] * b[1] + g[2] * b[2]) + a[2] * (g[2] * b[1] + g[3] * b[2])
Times(s, c) == <<s * c[1], s * c[2]>>

\* Mutant: the nearest codeword, whatever the activations weigh.
Unweighted(w, s, g) ==
  LET d(k) == LET c == Times(s, Codebook[k])
              IN  (w[1] - c[1]) * (w[1] - c[1]) + (w[2] - c[2]) * (w[2] - c[2])
      best == {k \in DOMAIN Codebook : \A l \in DOMAIN Codebook : d(k) <= d(l)}
  IN  Min(best)

\* reselect_codes: the first code with the least xGx - 2 xGc + cGc.
Pick(w, s, g) ==
  LET d(k) == LET c == Times(s, Codebook[k])
              IN  Form(w, g, w) - 2 * Form(w, g, c) + Form(c, g, c)
      best == {k \in DOMAIN Codebook : \A l \in DOMAIN Codebook : d(k) <= d(l)}
  IN  Min(best)

\* blockdiag_error of one code.
Error(w, s, k, g) ==
  LET e == <<w[1] - s * Codebook[k][1], w[2] - s * Codebook[k][2]>> IN Form(e, g, e)

\* What a run makes of a module: its codes and scales, and the report's figures.
PartOf(m, flags) ==
  LET w == flags.target[m]
      g == banks[flags.bank].grams[m]
      s == Scale(w, m, flags.keep)
      k == Pick(w, s, g)
  IN  [is |-> "part", code |-> k, scale |-> s,
       old |-> Error(w, s, BaseCode[m], g), new |-> Error(w, s, k, g),
       moved |-> k # BaseCode[m], by |-> flags]

-----------------------------------------------------------------------------
Init ==
  /\ banks = <<>>
  /\ parts = [m \in Modules |-> Nothing]
  /\ out = Nothing
  /\ run = Idle /\ runs = <<>> /\ mixed = FALSE

\* calibrate, into a folder that must be new: the pool sampled from the
\* artifact, every module's Gram of the rows it saw, and last the manifest.
Calibrate(text) ==
  /\ Len(banks) < MaxBanks
  /\ banks' = Append(banks, [grams |-> [m \in Banked |-> Gram(text[m])], manifest |-> TRUE])
  /\ UNCHANGED <<parts, out, run, runs, mixed>>

\* A calibration that died: its folder exists, and no manifest will.
CalibrateDies ==
  /\ Len(banks) < MaxBanks
  /\ banks' = Append(banks, [grams |-> <<>>, manifest |-> FALSE])
  /\ UNCHANGED <<parts, out, run, runs, mixed>>

\* apply: refused where --out exists; reads the manifest of its bank.
Begin(bank, target, keep, chosen) ==
  LET flags == [bank |-> bank, target |-> target, keep |-> keep]
      mods == Banked \cap chosen
  IN  /\ run = Idle /\ Len(runs) < MaxRuns
      /\ out = Nothing
      /\ banks[bank].manifest
      /\ mods # {}
      /\ run' = [at |-> "fit", flags |-> flags, mods |-> mods, report |-> <<>>, of |-> "none"]
      /\ runs' = Append(runs, flags)
      /\ UNCHANGED <<banks, parts, out, mixed>>

Left == run.mods \ DOMAIN run.report
With(m, p) == [x \in DOMAIN run.report \cup {m} |-> IF x = m THEN p ELSE run.report[x]]

\* A part and its report are there: the module is not computed again.
Reusable(m) == parts[m].is = "part"

TakeUp(m) ==
  /\ run.at = "fit" /\ m \in Left
  /\ Reusable(m)
  /\ run' = [run EXCEPT !.report = With(m, parts[m])]
  /\ mixed' = (mixed \/ parts[m].by # run.flags)
  /\ UNCHANGED <<banks, parts, out, runs>>

\* A module computed, and its part saved.
FitModule(m) ==
  /\ run.at = "fit" /\ m \in Left /\ ~Reusable(m)
  /\ parts' = [parts EXCEPT ![m] = [PartOf(m, run.flags) EXCEPT !.is = "tensors"]]
  /\ run' = [run EXCEPT !.at = "saved", !.of = m]
  /\ UNCHANGED <<banks, out, runs, mixed>>

\* Its report beside it, written last.
ReportModule ==
  /\ run.at = "saved"
  /\ parts' = [parts EXCEPT ![run.of].is = "part"]
  /\ run' = [run EXCEPT !.at = "fit", !.of = "none", !.report = With(run.of, parts'[run.of])]
  /\ UNCHANGED <<banks, out, runs, mixed>>

\* Codes only, and not one moved: nothing to write.
RefuseUnchanged ==
  /\ run.at = "fit" /\ Left = {}
  /\ run.flags.keep /\ \A m \in run.mods : ~run.report[m].moved
  /\ run' = Idle
  /\ UNCHANGED <<banks, parts, out, runs, mixed>>

\* The new folder: a shard whose tensors were selected anew is rewritten, the
\* others are linked, and the report is written.  A run killed amid this
\* leaves a folder without a record, as one killed right after it does.
Assemble ==
  /\ run.at = "fit" /\ Left = {}
  /\ ~run.flags.keep \/ \E m \in run.mods : run.report[m].moved
  /\ out' = [is |-> "open",
             tensors |-> [m \in Modules |-> IF m \in run.mods
                                            THEN [code |-> parts[m].code, scale |-> parts[m].scale]
                                            ELSE [code |-> BaseCode[m], scale |-> BaseScale[m]]],
             report |-> run.report, flags |-> run.flags]
  /\ run' = [run EXCEPT !.at = "record"]
  /\ UNCHANGED <<banks, parts, runs, mixed>>

\* The build record closes it; the parts stay.
Record ==
  /\ run.at = "record"
  /\ out' = [out EXCEPT !.is = "recorded"]
  /\ run' = Idle
  /\ UNCHANGED <<banks, parts, runs, mixed>>

\* The run is killed, wherever it is.
Die ==
  /\ run # Idle
  /\ run' = Idle
  /\ UNCHANGED <<banks, parts, out, runs, mixed>>

\* A person clears a folder without a record, or the parts too.
Clear(all) ==
  /\ run = Idle /\ out.is = "open"
  /\ out' = Nothing
  /\ parts' = IF all THEN [m \in Modules |-> Nothing] ELSE parts
  /\ mixed' = (mixed /\ ~all)
  /\ UNCHANGED <<banks, run, runs>>

Next ==
  \/ \E text \in Texts : Calibrate(text)
  \/ CalibrateDies
  \/ \E b \in DOMAIN banks, t \in Targets, keep \in BOOLEAN, chosen \in SUBSET Modules :
       Begin(b, t, keep, chosen)
  \/ \E m \in Modules : TakeUp(m) \/ FitModule(m)
  \/ ReportModule
  \/ RefuseUnchanged
  \/ Assemble
  \/ Record
  \/ Die
  \/ \E all \in BOOLEAN : Clear(all)

-----------------------------------------------------------------------------
\* The best error there is for a module under a run's flags, by definition.
Least(m, flags) ==
  LET w == flags.target[m]
      s == Scale(w, m, flags.keep)
  IN  Min({Error(w, s, k, banks[flags.bank].grams[m]) : k \in DOMAIN Codebook})

\* A recorded folder holds, for every module of its report, codes and scales
\* of one and the same selection, whose error no other code beats and which
\* the report's figures are of; for every other module, what the base has;
\* and unless parts of other flags were taken up, all of it is the selection
\* its record names.
SelectedIsBest ==
  out.is = "recorded" =>
    \A m \in Modules :
      IF m \in DOMAIN out.report
      THEN LET r == out.report[m]
               w == r.by.target[m]
               g == banks[r.by.bank].grams[m]
           IN  /\ out.tensors[m].scale = Scale(w, m, r.by.keep)
               /\ Error(w, out.tensors[m].scale, out.tensors[m].code, g) = Least(m, r.by)
               /\ r.new = Least(m, r.by) /\ r.new <= r.old
               /\ mixed \/ r.by = out.flags
      ELSE out.tensors[m] = [code |-> BaseCode[m], scale |-> BaseScale[m]]

=============================================================================

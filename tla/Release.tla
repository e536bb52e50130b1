------------------------------ MODULE Release ------------------------------
(***************************************************************************)
(* The release gate (vqlab/gate/check_release.py, smoke.py, vision_smoke.py)*)
(* and the upload that runs it (vqlab/ship/publish.py), while other         *)
(* sessions rebuild files of the same artifact.                            *)
(*                                                                         *)
(* What a gate can find out about an artifact is a set of flaws, each in    *)
(* one file.  A stage of the gate sees the flaws it looks for, in the files *)
(* as they are when it runs; a stage that found some keeps the costlier     *)
(* ones from running.                                                      *)
(***************************************************************************)
EXTENDS Naturals, FiniteSets

CONSTANTS Calls,       \* the commands given
          Artifacts,   \* what a folder is like and which flaws it has
          Edited,      \* files that other sessions rebuild
          MaxEdits     \* rebuilds of each (bound)

VARIABLES call,        \* the command
          art,         \* what the folder is like; no session changes that
          flaws,       \* flaws in the folder now
          stage,       \* the stage to run
          failed,      \* a stage found something
          hashed,      \* publish: the flaws in the files hashed before the gate
          edits,       \* rebuilds of each file since then
          late,        \* files rebuilt after the second hash
          hub          \* the flaws uploaded

rvars == <<call, art, flaws, stage, failed, hashed, edits, late, hub>>

\* Where a flaw sits, and who looks for it.
Flaw(file, by) == [file |-> file, by |-> by]
FLAWS ==
  [incomplete |-> Flaw("config", "static"),  dtype     |-> Flaw("shards", "static"),
   foreign    |-> Flaw("model", "static"),   elsewhere |-> Flaw("model", "origin"),
   mute       |-> Flaw("shards", "text"),    long      |-> Flaw("model", "prefill"),
   unwired    |-> Flaw("shards", "image"),   record    |-> Flaw("record", "late"),
   spelling   |-> Flaw("card", "late"),      leak      |-> Flaw("card", "leak")]
In(files) == {x \in DOMAIN FLAWS : FLAWS[x].file \in files}
By(who)   == {x \in DOMAIN FLAWS : FLAWS[x].by \in who}
Files == {FLAWS[x].file : x \in DOMAIN FLAWS}

\* A command: the smoke's arm, what it leaves out, and the files it uploads
\* ({} for check-release).
Call == [arm : {"local", "cluster", "knurlogic"}, smoke : BOOLEAN, prefill : BOOLEAN,
         vision : BOOLEAN, upload : {{}, Files, {"model", "card"}, {"card"}}]
\* publish offers no way around the gate; an upload of documents skips the smoke.
Offered(c) ==
  c.upload # {} => /\ c.arm # "knurlogic" /\ c.prefill /\ c.vision
                   /\ c.smoke = (c.upload # {"card"})

\* tower: tensors of a vision tower; vision: the config declares one;
\* base: whether the base model ships the missing image processor's config.
Artifact == [tower : BOOLEAN, vision : BOOLEAN, processor : BOOLEAN,
             base : {"unknown", "ships", "without"}, fits : BOOLEAN]
Gap == art.vision /\ ~art.processor

Found(who) == flaws \cap By(who) # {}
Goto(from, to) == stage = from /\ stage' = to
Kept == UNCHANGED <<call, art, flaws, edits, late>>

-----------------------------------------------------------------------------
\* publish: machine-specific text in the files is refused first, then they
\* are hashed.  check-release goes straight to the checks.
Prepare ==
  /\ stage = "start"
  /\ IF call.upload # {} /\ flaws \cap In(call.upload) \cap By({"leak"}) # {}
     THEN stage' = "refused" /\ UNCHANGED hashed
     ELSE stage' = "static" /\ hashed' = flaws \cap In(call.upload)
  /\ UNCHANGED <<failed, hub>> /\ Kept

\* Files, index, dtypes, tokenizer, bundle imports; and what the base ships.
Static ==
  /\ Goto("static", "text")
  /\ failed' = (Found({"static"}) \/ (Gap /\ art.base = "ships"))
  /\ UNCHANGED <<hashed, hub>> /\ Kept

\* Mutant: a failed smoke is printed and not counted.
TextUncounted ==
  /\ Goto("text", IF call.smoke /\ ~failed /\ call.arm = "local" THEN "prefill" ELSE "image")
  /\ failed' = (failed \/ (call.smoke /\ call.arm = "local" /\ ~art.fits))
  /\ UNCHANGED <<hashed, hub>> /\ Kept

\* smoke.py --strict: the runtime resolves from the artifact, and generates.
Traced == ~Found({"origin"})
Spoke == ~Found({"text"})

\* An exo cluster, whose copy is compared first, or Knurlogic, which must run
\* the bundle; a cluster does not say what its nodes ran.
Served == Spoke /\ (call.arm # "cluster" => Traced)

Text ==
  /\ Goto("text", IF call.smoke /\ ~failed /\ call.arm = "local" THEN "prefill" ELSE "image")
  /\ failed' = \/ failed
               \/ /\ call.smoke
                  /\ IF call.arm = "local" THEN ~(Spoke /\ Traced /\ art.fits) ELSE ~Served
  /\ UNCHANGED <<hashed, hub>> /\ Kept

\* ~1500 tokens through the large-N path, after a local smoke that passed.
Prefill ==
  /\ Goto("prefill", "image")
  /\ failed' = (failed \/ (call.prefill /\ Found({"prefill"})))
  /\ UNCHANGED <<hashed, hub>> /\ Kept

\* vision_smoke: loaded whole, an image moves the logits.
Wired == art.vision /\ ~Found({"image"})
\* The other arms ask their server about an image.
Answered == ~Found({"image"})

\* Mutant: the image smoke is left to the configs that declare a tower.
ImageByConfig ==
  /\ Goto("image", "late")
  /\ failed' = \/ failed
               \/ /\ art.tower /\ art.vision /\ call.smoke
                  /\ ~call.vision \/ Found({"image"})
  /\ UNCHANGED <<hashed, hub>> /\ Kept

\* Tower tensors make an image part of the gate, on the smoke's own arm; the
\* local one (vision_smoke.py) needs a config that declares the tower.
Image ==
  /\ Goto("image", "late")
  /\ failed' = \/ failed
               \/ /\ art.tower /\ call.smoke
                  /\ \/ ~call.vision
                     \/ IF call.arm = "local" THEN ~Wired ELSE ~Answered
  /\ UNCHANGED <<hashed, hub>> /\ Kept

\* The record, the card's spelling, the tokenizer's base, machine paths; then
\* the missing image processor is judged by whether a smoke passed.
Late ==
  /\ stage = "late"
  /\ failed' = (failed \/ Found({"late", "leak"}) \/ (Gap /\ ~call.smoke))
  /\ stage' = IF failed' THEN "refused" ELSE IF call.upload = {} THEN "passed" ELSE "rehash"
  /\ UNCHANGED <<hashed, hub>> /\ Kept

\* Mutant: the digests are not compared again.
RehashNot ==
  /\ Goto("rehash", "upload")
  /\ UNCHANGED <<failed, hashed, hub>> /\ Kept

\* A file that moved while the gate ran stops the upload.
Rehash ==
  /\ Goto("rehash", IF flaws \cap In(call.upload) = hashed THEN "upload" ELSE "refused")
  /\ UNCHANGED <<failed, hashed, hub>> /\ Kept

\* One commit of the files as they are now.
Upload ==
  /\ Goto("upload", "passed")
  /\ hub' = flaws \cap In(call.upload)
  /\ UNCHANGED <<failed, hashed>> /\ Kept

\* Another session rebuilds a file, with or without a flaw.
Edit(f) ==
  /\ call.upload # {} /\ stage \notin {"start", "passed", "refused"}
  /\ edits[f] < MaxEdits
  /\ \E new \in SUBSET In({f}) :
       /\ Cardinality(new) <= 1 /\ new # flaws \cap In({f})
       /\ flaws' = (flaws \ In({f})) \cup new
  /\ edits' = [edits EXCEPT ![f] = @ + 1]
  /\ late' = IF stage = "upload" THEN late \cup {f} ELSE late
  /\ UNCHANGED <<call, art, stage, failed, hashed, hub>>

Init ==
  /\ call \in {c \in Calls : Offered(c)}
  /\ \E a \in Artifacts : art = a.like /\ flaws = a.flaws
  /\ stage = "start" /\ failed = FALSE
  /\ hashed = {} /\ hub = {} /\ late = {}
  /\ edits = [f \in Files |-> 0]

Next ==
  \/ Prepare \/ Static \/ Text \/ Prefill \/ Image \/ Late \/ Rehash \/ Upload
  \/ \E f \in Edited : Edit(f)

-----------------------------------------------------------------------------
\* What the gate promises to look for under this command.
Sought ==
  {"static", "late", "leak"}
  \cup IF ~call.smoke THEN {}
       ELSE {"text"} \cup (IF art.tower THEN {"image"} ELSE {})
            \cup (IF call.arm # "cluster" THEN {"origin"} ELSE {})
            \cup (IF call.arm = "local" /\ call.prefill THEN {"prefill"} ELSE {})

\* A pass is worth what the gate says: no flaw it promised to look for is
\* there, however the arms and the stages left out combine, and a missing
\* image processor passed only where a smoke ran and the base has none either.
PassMeansLooked ==
  stage = "passed" /\ call.upload = {} =>
    ~Found(Sought) /\ (Gap => call.smoke /\ art.base # "ships")

\* Nothing flawed is uploaded but a file that was rebuilt after the second
\* digest, or rebuilt and put back between the two (publish: "the gate did not
\* certify what would be uploaded").
UploadedIsGated ==
  stage = "passed" =>
    \A f \in call.upload :
      edits[f] < 2 /\ f \notin late => hub \cap In({f}) \cap By(Sought) = {}

=============================================================================

-------------------------- MODULE LocalStoresProofs --------------------------
(***************************************************************************)
(* What the parts that give a verdict or keep a store of their own promise *)
(* for every value of their constants: the release gate and the upload,    *)
(* the runtime of a bundle, the overnight validation queue, onboarding's   *)
(* word on a teacher, the findings log, whose theorems are of its own      *)
(* specification, and the other parts of MCLocalStores.  Each part has its *)
(* variables under names of its own, an inductive invariant, and three     *)
(* lemmas: it holds at first, every step keeps it, and it implies the      *)
(* part's properties.  At the end they are put together, with the parts of *)
(* KeepingProofs: a behaviour of LocalSpec is one part's from its first    *)
(* state on.                                                               *)
(***************************************************************************)
EXTENDS KeepingProofs, FiniteSetTheorems, SequenceTheorems, TLAPS

-----------------------------------------------------------------------------
(* The release gate and the upload (Release).                              *)

wants == v1
folder == v2
flaws == v3
stage == v4
failed == v5
hashed == v6
edits == v7
late == v8
uploaded == v9

\* The flaws in one file.
Of(d) == Gate!In({d})

\* Nothing these stages look for is in a file nobody has rebuilt.
Clean(who) == \A d \in Gate!Files : edits[d] = 0 => flaws \cap Of(d) \cap Gate!By(who) = {}

ImageGap == folder.vision /\ ~folder.processor

GateTypes ==
  /\ edits \in [Gate!Files -> Nat] 
  /\ stage \in {"start", "static", "text", "prefill", "image", "late", "rehash", "upload",
                "passed", "refused"}

Behind == {"static", "text", "prefill", "image", "late", "rehash", "upload", "passed"}

\* What each stage that is behind has looked at, where nothing was found.
LookedSoFar ==
  ~failed =>
    /\ stage \in Behind \ {"static"} => Clean({"static"}) /\ ~(ImageGap /\ folder.base = "ships")
    /\ stage \in Behind \ {"static", "text"} /\ wants.smoke =>
         Clean({"text"}) /\ (wants.arm # "cluster" => Clean({"origin"}))
    /\ stage \in Behind \ {"static", "text", "prefill"} /\ wants.smoke /\ wants.arm = "local" /\ wants.prefill =>
         Clean({"prefill"})
    /\ stage \in {"late", "rehash", "upload", "passed"} /\ folder.tower /\ wants.smoke =>
         Clean({"image"})
    /\ stage \in {"rehash", "upload", "passed"} =>
         Clean({"late", "leak"}) /\ (ImageGap => wants.smoke)

\* A file rebuilt once is not the file that was hashed; past the second hash
\* only a file rebuilt twice, or since then, is another.
Hashes ==
  /\ stage \in {"rehash", "upload", "passed"} => ~failed
  /\ wants.upload = {} => \A d \in Gate!Files : edits[d] = 0
  /\ \A d \in Gate!Files :
       d \in wants.upload =>
         /\ stage \in Behind \ {"upload", "passed"} /\ edits[d] = 1 =>
              flaws \cap Of(d) # hashed \cap Of(d)
         /\ stage \in Behind \ {"upload", "passed"} /\ edits[d] = 0 =>
              flaws \cap Of(d) = hashed \cap Of(d)
         /\ stage = "start" => edits[d] = 0
         /\ stage \in {"upload", "passed"} /\ edits[d] < 2 /\ d \notin late => edits[d] = 0
  /\ stage = "passed" /\ wants.upload # {} => uploaded = flaws \cap Gate!In(wants.upload)

GateInv == GateTypes /\ LookedSoFar /\ Hashes

\* A rebuilt file is one of the files, and changes no other file's flaws.
LEMMA Rebuilds ==
  ASSUME GateTypes, NEW d \in {"model", "card"}, Gate!Edit(d)
  PROVE  /\ d \in Gate!Files /\ wants.upload # {} /\ stage \in Behind \ {"passed"}
         /\ edits' = [edits EXCEPT ![d] = edits[d] + 1]
         /\ flaws' \cap Of(d) # flaws \cap Of(d)
         /\ \A g \in Gate!Files : g # d => flaws' \cap Of(g) = flaws \cap Of(g)
         /\ late' = IF stage = "upload" THEN late \cup {d} ELSE late
         /\ UNCHANGED <<wants, folder, stage, failed, hashed, uploaded>>
  <1>1. d \in Gate!Files
    <2>1. "foreign" \in DOMAIN Gate!FLAWS /\ Gate!FLAWS["foreign"].file = "model"
          /\ "leak" \in DOMAIN Gate!FLAWS /\ Gate!FLAWS["leak"].file = "card"
      BY DEF Gate!FLAWS, Gate!Flaw
    <2>2. QED
      BY <2>1 DEF Gate!Files
  <1>2. /\ wants.upload # {} /\ stage \notin {"start", "passed", "refused"}
        /\ edits' = [edits EXCEPT ![d] = edits[d] + 1]
        /\ late' = IF stage = "upload" THEN late \cup {d} ELSE late
        /\ UNCHANGED <<wants, folder, stage, failed, hashed, uploaded>>
    BY DEF Gate!Edit, wants, folder, flaws, stage, failed, hashed, edits, late, uploaded
  <1>3. PICK new \in SUBSET Of(d) : new # flaws \cap Of(d) /\ flaws' = (flaws \ Of(d)) \cup new
    BY DEF Gate!Edit, flaws, Of
  <1>4. ASSUME NEW g \in Gate!Files, g # d PROVE Of(g) \cap Of(d) = {}
    BY <1>4 DEF Of, Gate!In
  <1>5. QED
    BY <1>1, <1>2, <1>3, <1>4 DEF GateTypes, Behind

LEMMA GateInit == Gate!Init => GateInv
  <1> SUFFICES ASSUME Gate!Init PROVE GateInv
    OBVIOUS
  <1>1. stage = "start" /\ edits = [d \in Gate!Files |-> 0]
    BY DEF Gate!Init, stage, edits
  <1>2. GateTypes
    BY <1>1 DEF GateTypes
  <1>3. LookedSoFar
    BY <1>1 DEF LookedSoFar, Behind
  <1>4. Hashes
    BY <1>1 DEF Hashes, Behind
  <1>5. QED
    BY <1>2, <1>3, <1>4 DEF GateInv

\* A stage that found nothing leaves what it looked for clean.
LEMMA FoundNothing ==
  ASSUME NEW who, ~Gate!Found(who) PROVE Clean(who)
  BY DEF Gate!Found, Clean, flaws

LEMMA GateNext == GateInv /\ [Gate!Next]_(Gate!rvars) => GateInv'
  <1> SUFFICES ASSUME GateInv, [Gate!Next]_(Gate!rvars)
               PROVE  GateInv'
    OBVIOUS
  <1>t. GateTypes /\ LookedSoFar /\ Hashes
    BY DEF GateInv
  <1>k. ASSUME Gate!Kept
        PROVE  /\ UNCHANGED <<wants, folder, flaws, edits, late>> /\ UNCHANGED ImageGap
               /\ \A who : Clean(who)' <=> Clean(who)
    <2>1. UNCHANGED <<wants, folder, flaws, edits, late>>
      BY <1>k DEF Gate!Kept, wants, folder, flaws, edits, late
    <2>2. QED
      BY <2>1 DEF Clean, ImageGap
  \* A stage leaves what the ones before it have seen, and adds its own.
  <1>1. CASE Gate!Prepare
    <2>1. /\ Gate!Kept /\ stage = "start" /\ UNCHANGED <<failed, uploaded>>
          /\ \/ stage' = "refused" /\ hashed' = hashed
             \/ stage' = "static" /\ hashed' = flaws \cap Gate!In(wants.upload)
      BY <1>1 DEF Gate!Prepare, wants, flaws, stage, failed, hashed, uploaded
    <2>2. UNCHANGED <<wants, folder, flaws, edits, late>>
      BY <1>k, <2>1
    <2>3. GateTypes' /\ LookedSoFar'
      BY <1>t, <2>1, <2>2 DEF GateTypes, LookedSoFar, Behind
    <2>4. \A d \in wants.upload : (flaws \cap Gate!In(wants.upload)) \cap Of(d) = flaws \cap Of(d)
      BY DEF Of, Gate!In
    <2>5. Hashes'
      BY <1>t, <2>1, <2>2, <2>4 DEF Hashes, Behind
    <2>6. QED
      BY <2>3, <2>5 DEF GateInv
  <1>2. CASE Gate!Static
    <2>1. /\ Gate!Kept /\ stage = "static" /\ stage' = "text" /\ UNCHANGED <<hashed, uploaded>>
          /\ failed' = (Gate!Found({"static"}) \/ (ImageGap /\ folder.base = "ships"))
      BY <1>2 DEF Gate!Static, Gate!Goto, Gate!Gap, ImageGap, folder, stage, failed, hashed, uploaded
    <2>2. UNCHANGED <<wants, folder, flaws, edits, late>> /\ UNCHANGED ImageGap
          /\ \A who : Clean(who)' <=> Clean(who)
      BY <1>k, <2>1
    <2>3. ~failed' => Clean({"static"}) /\ ~(ImageGap /\ folder.base = "ships")
      BY <2>1, FoundNothing
    <2>4. LookedSoFar'
      BY <2>1, <2>2, <2>3 DEF LookedSoFar, Behind
    <2>5. GateTypes' /\ Hashes'
      BY <1>t, <2>1, <2>2 DEF GateTypes, Hashes, Behind
    <2>6. QED
      BY <2>4, <2>5 DEF GateInv
  <1>3. CASE Gate!Text
    <2>1. /\ Gate!Kept /\ stage = "text" /\ UNCHANGED <<hashed, uploaded>>
          /\ stage' = IF wants.smoke /\ ~failed /\ wants.arm = "local" THEN "prefill" ELSE "image"
          /\ ~failed' => ~failed
          /\ ~failed' /\ wants.smoke =>
               ~Gate!Found({"text"}) /\ (wants.arm # "cluster" => ~Gate!Found({"origin"}))
      BY <1>3 DEF Gate!Text, Gate!Spoke, Gate!Traced, Gate!Served, Gate!Goto, wants, stage, failed, hashed, uploaded
    <2>2. UNCHANGED <<wants, folder, flaws, edits, late>> /\ UNCHANGED ImageGap
          /\ \A who : Clean(who)' <=> Clean(who)
      BY <1>k, <2>1
    <2>3. ~failed' /\ wants.smoke => Clean({"text"}) /\ (wants.arm # "cluster" => Clean({"origin"}))
      BY <2>1, FoundNothing
    <2>4. ~failed' => Clean({"static"}) /\ ~(ImageGap /\ folder.base = "ships")
      BY <1>t, <2>1 DEF LookedSoFar, Behind
    <2>5. LookedSoFar'
      BY <2>1, <2>2, <2>3, <2>4 DEF LookedSoFar, Behind
    <2>6. GateTypes' /\ Hashes'
      BY <1>t, <2>1, <2>2 DEF GateTypes, Hashes, Behind
    <2>7. QED
      BY <2>5, <2>6 DEF GateInv
  <1>4. CASE Gate!Prefill
    <2>1. /\ Gate!Kept /\ stage = "prefill" /\ stage' = "image" /\ UNCHANGED <<hashed, uploaded>>
          /\ ~failed' => ~failed /\ (wants.prefill => ~Gate!Found({"prefill"}))
      BY <1>4 DEF Gate!Prefill, Gate!Goto, wants, stage, failed, hashed, uploaded
    <2>2. UNCHANGED <<wants, folder, flaws, edits, late>> /\ UNCHANGED ImageGap
          /\ \A who : Clean(who)' <=> Clean(who)
      BY <1>k, <2>1
    <2>3. ~failed' /\ wants.prefill => Clean({"prefill"})
      BY <2>1, FoundNothing
    <2>4. LookedSoFar'
      BY <1>t, <2>1, <2>2, <2>3 DEF LookedSoFar, Behind
    <2>5. GateTypes' /\ Hashes'
      BY <1>t, <2>1, <2>2 DEF GateTypes, Hashes, Behind
    <2>6. QED
      BY <2>4, <2>5 DEF GateInv
  <1>5. CASE Gate!Image
    <2>1. /\ Gate!Kept /\ stage = "image" /\ stage' = "late" /\ UNCHANGED <<hashed, uploaded>>
          /\ ~failed' => ~failed /\ (folder.tower /\ wants.smoke => ~Gate!Found({"image"}))
      BY <1>5 DEF Gate!Image, Gate!Goto, Gate!Wired, Gate!Answered, wants, folder, stage, failed, hashed, uploaded
    <2>2. UNCHANGED <<wants, folder, flaws, edits, late>> /\ UNCHANGED ImageGap
          /\ \A who : Clean(who)' <=> Clean(who)
      BY <1>k, <2>1
    <2>3. ~failed' /\ folder.tower /\ wants.smoke => Clean({"image"})
      BY <2>1, FoundNothing
    <2>4. LookedSoFar'
      BY <1>t, <2>1, <2>2, <2>3 DEF LookedSoFar, Behind
    <2>5. GateTypes' /\ Hashes'
      BY <1>t, <2>1, <2>2 DEF GateTypes, Hashes, Behind
    <2>6. QED
      BY <2>4, <2>5 DEF GateInv
  <1>6. CASE Gate!Late
    <2>1. /\ Gate!Kept /\ stage = "late" /\ UNCHANGED <<hashed, uploaded>>
          /\ failed' => stage' = "refused"
          /\ ~failed' => /\ stage' = IF wants.upload = {} THEN "passed" ELSE "rehash"
                         /\ ~failed /\ ~Gate!Found({"late", "leak"}) /\ (ImageGap => wants.smoke)
      BY <1>6 DEF Gate!Late, Gate!Gap, ImageGap, wants, folder, stage, failed, hashed, uploaded
    <2>2. UNCHANGED <<wants, folder, flaws, edits, late>> /\ UNCHANGED ImageGap
          /\ \A who : Clean(who)' <=> Clean(who)
      BY <1>k, <2>1
    <2>3. ~failed' => Clean({"late", "leak"}) /\ (ImageGap => wants.smoke)
      BY <2>1, FoundNothing
    <2>4. LookedSoFar'
      BY <1>t, <2>1, <2>2, <2>3 DEF LookedSoFar, Behind
    <2>5. GateTypes' /\ Hashes'
      BY <1>t, <2>1, <2>2 DEF GateTypes, Hashes, Behind
    <2>6. QED
      BY <2>4, <2>5 DEF GateInv
  <1>7. CASE Gate!Rehash
    <2>1. /\ Gate!Kept /\ stage = "rehash" /\ UNCHANGED <<failed, hashed, uploaded>>
          /\ \/ stage' = "refused"
             \/ stage' = "upload" /\ flaws \cap Gate!In(wants.upload) = hashed
      BY <1>7 DEF Gate!Rehash, Gate!Goto, wants, flaws, stage, failed, hashed, uploaded
    <2>2. UNCHANGED <<wants, folder, flaws, edits, late>> /\ UNCHANGED ImageGap
          /\ \A who : Clean(who)' <=> Clean(who)
      BY <1>k, <2>1
    <2>3. GateTypes' /\ LookedSoFar'
      BY <1>t, <2>1, <2>2 DEF GateTypes, LookedSoFar, Behind
    <2>4. \A d \in wants.upload : (flaws \cap Gate!In(wants.upload)) \cap Of(d) = flaws \cap Of(d)
      BY DEF Of, Gate!In
    <2>5. stage' = "upload" => \A d \in Gate!Files : d \in wants.upload => edits[d] # 1
      BY <1>t, <2>1, <2>4 DEF Hashes, Behind
    <2>6. \A d \in Gate!Files : edits[d] < 2 /\ edits[d] # 1 => edits[d] = 0
      BY <1>t DEF GateTypes
    <2>7. Hashes'
      BY <1>t, <2>1, <2>2, <2>5, <2>6 DEF Hashes, Behind
    <2>8. QED
      BY <2>3, <2>7 DEF GateInv
  <1>8. CASE Gate!Upload
    <2>1. /\ Gate!Kept /\ stage = "upload" /\ stage' = "passed" /\ UNCHANGED <<failed, hashed>>
          /\ uploaded' = flaws \cap Gate!In(wants.upload)
      BY <1>8 DEF Gate!Upload, Gate!Goto, wants, flaws, stage, failed, hashed, uploaded
    <2>2. UNCHANGED <<wants, folder, flaws, edits, late>> /\ UNCHANGED ImageGap
          /\ \A who : Clean(who)' <=> Clean(who)
      BY <1>k, <2>1
    <2>3. GateTypes' /\ LookedSoFar'
      BY <1>t, <2>1, <2>2 DEF GateTypes, LookedSoFar, Behind
    <2>4. Hashes'
      BY <1>t, <2>1, <2>2 DEF Hashes, Behind
    <2>5. QED
      BY <2>3, <2>4 DEF GateInv
  <1>9. ASSUME NEW d \in {"model", "card"}, Gate!Edit(d) PROVE GateInv'
    <2>1. /\ d \in Gate!Files /\ wants.upload # {} /\ stage \in Behind \ {"passed"}
          /\ edits' = [edits EXCEPT ![d] = edits[d] + 1]
          /\ flaws' \cap Of(d) # flaws \cap Of(d)
          /\ \A g \in Gate!Files : g # d => flaws' \cap Of(g) = flaws \cap Of(g)
          /\ late' = IF stage = "upload" THEN late \cup {d} ELSE late
          /\ UNCHANGED <<wants, folder, stage, failed, hashed, uploaded>>
      BY <1>t, <1>9, Rebuilds
    <2>2. /\ GateTypes' /\ edits[d] \in Nat /\ edits'[d] = edits[d] + 1
          /\ \A g \in Gate!Files : g # d => edits'[g] = edits[g]
      BY <1>t, <2>1 DEF GateTypes
    <2>3. \A who : Clean(who) => Clean(who)'
      <3>1. \A g \in Gate!Files : edits'[g] = 0 => g # d /\ edits[g] = 0
        BY <2>2
      <3>2. QED
        BY <2>1, <3>1 DEF Clean
    <2>4. UNCHANGED ImageGap
      BY <2>1 DEF ImageGap
    <2>5. LookedSoFar'
      BY <1>t, <2>1, <2>3, <2>4 DEF LookedSoFar
    <2>6. Hashes'
      <3>1. ASSUME NEW g \in Gate!Files, g \in wants.upload
            PROVE  /\ stage \in Behind \ {"upload", "passed"} /\ edits'[g] = 1 =>
                        flaws' \cap Of(g) # hashed \cap Of(g)
                   /\ stage \in Behind \ {"upload", "passed"} /\ edits'[g] = 0 =>
                        flaws' \cap Of(g) = hashed \cap Of(g)
                   /\ stage \in {"upload", "passed"} /\ edits'[g] < 2 /\ g \notin late' => edits'[g] = 0
        <4>1. CASE g = d
          BY <1>t, <2>1, <2>2, <3>1, <4>1 DEF Hashes, Behind
        <4>2. CASE g # d
          BY <1>t, <2>1, <2>2, <3>1, <4>2 DEF Hashes
        <4>3. QED
          BY <4>1, <4>2
      <3>2. QED
        BY <1>t, <2>1, <3>1 DEF Hashes, Behind
    <2>7. QED
      BY <2>2, <2>5, <2>6 DEF GateInv
  <1>10. CASE UNCHANGED Gate!rvars
    <2>1. Gate!Kept /\ UNCHANGED <<stage, failed, hashed, uploaded>>
      BY <1>10 DEF Gate!rvars, Gate!Kept, stage, failed, hashed, uploaded
    <2>2. UNCHANGED <<wants, folder, flaws, edits, late>> /\ UNCHANGED ImageGap
          /\ \A who : Clean(who)' <=> Clean(who)
      BY <1>k, <2>1
    <2>3. GateTypes' /\ LookedSoFar' /\ Hashes'
      BY <1>t, <2>1, <2>2 DEF GateTypes, LookedSoFar, Hashes
    <2>4. QED
      BY <2>3 DEF GateInv
  <1>11. QED
    BY <1>1, <1>2, <1>3, <1>4, <1>5, <1>6, <1>7, <1>8, <1>9, <1>10 DEF Gate!Next

\* What is sought is what some stage has looked at.
LEMMA SoughtIsClean ==
  ASSUME LookedSoFar, Hashes, stage = "passed",
         NEW d \in Gate!Files, edits[d] = 0
  PROVE  flaws \cap Of(d) \cap Gate!By(Gate!Sought) = {}
  <1>1. ASSUME NEW x \in flaws \cap Of(d) \cap Gate!By(Gate!Sought) PROVE FALSE
    <2> DEFINE by == Gate!FLAWS[x].by
    <2>1. by \in Gate!Sought /\ \A who : by \in who => x \in Gate!By(who)
      BY DEF Gate!By, Of, Gate!In
    <2>2. \A who : Clean(who) => by \notin who
      BY <2>1 DEF Clean
    <2> HIDE DEF by
    <2>3. ~failed /\ Clean({"static"}) /\ Clean({"late", "leak"})
      BY DEF LookedSoFar, Hashes, Behind
    <2>4. /\ wants.smoke => Clean({"text"}) /\ (wants.arm # "cluster" => Clean({"origin"}))
          /\ wants.smoke /\ folder.tower => Clean({"image"})
          /\ wants.smoke /\ wants.arm = "local" /\ wants.prefill => Clean({"prefill"})
      BY <2>3 DEF LookedSoFar, Behind
    <2>5. \/ by \in {"static", "late", "leak"}
          \/ wants.smoke /\ \/ by = "text"
                            \/ folder.tower /\ by = "image"
                            \/ wants.arm # "cluster" /\ by = "origin"
                            \/ wants.arm = "local" /\ wants.prefill /\ by = "prefill"
      BY <2>1 DEF Gate!Sought, wants, folder
    <2>6. QED
      BY <2>2, <2>3, <2>4, <2>5
  <1>2. QED
    BY <1>1

LEMMA GateHolds == GateInv => Gate!PassMeansLooked /\ Gate!UploadedIsGated
  <1> SUFFICES ASSUME GateInv, stage = "passed"
               PROVE  Gate!PassMeansLooked /\ Gate!UploadedIsGated
    BY DEF Gate!PassMeansLooked, Gate!UploadedIsGated, stage
  <1>t. GateTypes /\ LookedSoFar /\ Hashes /\ ~failed
    BY DEF GateInv, Hashes
  <1>1. ASSUME wants.upload = {}
        PROVE  ~Gate!Found(Gate!Sought) /\ (ImageGap => wants.smoke /\ folder.base # "ships")
    <2>1. \A d \in Gate!Files : edits[d] = 0
      BY <1>t, <1>1 DEF Hashes
    <2>2. ASSUME NEW x \in flaws \cap Gate!By(Gate!Sought) PROVE FALSE
      <3>1. Gate!FLAWS[x].file \in Gate!Files /\ x \in Of(Gate!FLAWS[x].file)
        BY DEF Gate!By, Gate!Files, Of, Gate!In
      <3>2. QED
        BY <1>t, <2>1, <3>1, SoughtIsClean
    <2>3. ~Gate!Found(Gate!Sought)
      BY <2>2 DEF Gate!Found, flaws
    <2>4. QED
      BY <1>t, <2>3 DEF LookedSoFar, Behind
  <1>2. ASSUME NEW d \in wants.upload, edits[d] < 2, d \notin late
        PROVE  uploaded \cap Of(d) \cap Gate!By(Gate!Sought) = {}
    <2>1. uploaded = flaws \cap Gate!In(wants.upload)
      BY <1>t, <1>2 DEF Hashes
    <2>2. CASE d \in Gate!Files
      <3>1. edits[d] = 0
        BY <1>t, <1>2, <2>2 DEF Hashes
      <3>2. QED
        BY <1>t, <2>1, <2>2, <3>1, SoughtIsClean
    <2>3. CASE d \notin Gate!Files
      <3>1. Of(d) = {}
        BY <2>3 DEF Of, Gate!In, Gate!Files
      <3>2. QED
        BY <3>1
    <2>4. QED
      BY <2>2, <2>3
  <1>3. Gate!PassMeansLooked
    BY <1>1 DEF Gate!PassMeansLooked, Gate!Gap, ImageGap, wants, folder, stage
  <1>4. Gate!UploadedIsGated
    BY <1>2 DEF Gate!UploadedIsGated, Of, wants, stage, edits, late, uploaded
  <1>5. QED
    BY <1>3, <1>4

-----------------------------------------------------------------------------
(* The runtime of a bundle (Bundles).                                      *)

repo == v1
registry == v2
same == v3
bundle == v4
mtime == v5
tool == v6
look == v7
verdicts == v8
shipped == v9
limit == v10

BakedCuts == Bundle!Cuts \cup {"none"}
BakedPairs == Bundle!Profiles \cup {"none"}
Revs == [Bundle!Parts -> Nat]
Texts == [rev : Revs, cut : BakedCuts, io : BakedPairs]

\* A text's revisions are among those the repository has had.
Known(text) == \A p \in Bundle!Parts : text.rev[p] <= repo.rev[p]

BundleTypes ==
  /\ repo \in [rev : Revs, cut : Bundle!Cuts, io : Bundle!Profiles]
  /\ \A p \in Bundle!Parts : repo.rev[p] >= 1
  /\ same \in [Bundle!Parts -> UNION {[S -> SUBSET Bundle!Cuts] : S \in SUBSET Nat}]
  /\ \A p \in Bundle!Parts : DOMAIN same[p] = 1..repo.rev[p] /\ same[p][repo.rev[p]] = Bundle!Cuts
  /\ registry \subseteq [part : Bundle!Parts, rev : Nat, cut : Bundle!Cuts, only : BOOLEAN]
  /\ bundle \in [dense : BOOLEAN, sz : BOOLEAN, text : Texts] /\ Known(bundle.text)
  /\ mtime \in [Bundle!Files -> Nat]
  /\ shipped \in [{"cut", "io"} -> BakedCuts \cup BakedPairs]
  /\ "torn" \in DOMAIN limit

\* What the registry certifies holds: the revision gives today's output at the
\* cut it names, a part of a dense bundle at any.
Certifies ==
  \A e \in registry : /\ e.rev \in 1..repo.rev[e.part]
                      /\ IF e.part = "switch" THEN e.cut \in same[e.part][e.rev]
                         ELSE same[e.part][e.rev] = Bundle!Cuts

\* The text a bundler is about to write changes no default but the chosen.
ToolTypes ==
  /\ tool.at = "config" => tool.adopt \subseteq {"cut", "io"} /\ tool.profile \in BakedPairs
  /\ tool.at = "writing" =>
       /\ tool.text \in Texts /\ Known(tool.text)
       /\ ~limit.torn =>
            /\ bundle.text = Bundle!Torn
            /\ \A x \in {"cut", "io"} : ~tool.chosen[x] => tool.text[x] = shipped[x]
  /\ tool.at # "writing" /\ ~limit.torn =>
       bundle.text.cut = shipped["cut"] /\ bundle.text.io = shipped["io"]

\* A look's key is no later than the files; what it read is the artifact of
\* that key, and what is kept is the verdict of that key.
Before(key) == key \in [Bundle!Files -> Nat] /\ \A x \in Bundle!Files : key[x] <= mtime[x]
LooksStand ==
  /\ look.at \in {"stat", "read"} => Before(look.key)
  /\ look.at = "read" /\ look.key = mtime => look.art = bundle
  /\ \A c \in verdicts : Before(c.key) /\ (c.key = mtime => c.word = Bundle!Verdict(bundle))

BundleInv == BundleTypes /\ Certifies /\ ToolTypes /\ LooksStand

LEMMA BundleHolds == BundleInv => Bundle!VerdictIsTrue
  <1> SUFFICES ASSUME BundleInv PROVE Bundle!VerdictIsTrue
    OBVIOUS
  <1>t. BundleTypes /\ Certifies /\ ToolTypes /\ LooksStand
    BY DEF BundleInv
  <1> DEFINE text == bundle.text
             Baked == Bundle!Baked(text)
  <1>b. Baked \in Bundle!Cuts
    BY <1>t DEF BundleTypes, Texts, BakedCuts, Bundle!Baked, Bundle!Cuts
  <1>p. Bundle!Carried \subseteq Bundle!Parts /\ "switch" \in Bundle!Carried
        /\ (bundle.dense => Bundle!Carried = Bundle!Parts) /\ (~bundle.dense => Bundle!Carried = {"switch"})
    BY DEF Bundle!Carried, Bundle!Parts, bundle
  <1>1. ASSUME NEW p \in Bundle!Parts, text.rev[p] = repo.rev[p]
        PROVE  Baked \in same[p][text.rev[p]]
    BY <1>t, <1>b, <1>1 DEF BundleTypes
  <1>2. ASSUME NEW p \in Bundle!Parts, Bundle!Certified(text, p) # {}
        PROVE  Baked \in same[p][text.rev[p]]
    <2>1. PICK e \in registry : e.part = p /\ e.rev = text.rev[p] /\ (e.part = "switch" => Baked = e.cut)
      BY <1>2 DEF Bundle!Certified, Bundle!Covered, registry
    <2>2. QED
      BY <1>t, <1>b, <2>1 DEF Certifies
  <1>3. Bundle!Verdict(bundle) # "FAIL" => \A p \in Bundle!Carried : Baked \in same[p][text.rev[p]]
    <2> SUFFICES ASSUME Bundle!Verdict(bundle) # "FAIL", NEW p \in Bundle!Carried
                 PROVE  Baked \in same[p][text.rev[p]]
      OBVIOUS
    <2>1. \/ Bundle!Current(text)
          \/ bundle.dense /\ (Bundle!Verbatim(text, p) \/ Bundle!Certified(text, p) # {})
          \/ ~bundle.dense /\ Bundle!Certified(text, "switch") # {}
      BY <1>p DEF Bundle!Verdict
    <2>2. CASE Bundle!Current(text)
      BY <1>1, <1>p, <2>2 DEF Bundle!Current, repo
    <2>3. CASE Bundle!Verbatim(text, p)
      BY <1>1, <1>p, <2>3 DEF Bundle!Verbatim, repo
    <2>4. QED
      BY <1>2, <1>p, <2>1, <2>2, <2>3
  <1>4. \A c \in verdicts : c.key = mtime => c.word = Bundle!Verdict(bundle)
    BY <1>t DEF LooksStand
  <1>5. text # Bundle!Torn /\ ~limit.torn => [cut |-> text.cut, io |-> text.io] = shipped
    <2>1. text # Bundle!Torn /\ ~limit.torn => text.cut = shipped["cut"] /\ text.io = shipped["io"]
      BY <1>t DEF ToolTypes
    <2>2. shipped = [x \in {"cut", "io"} |-> shipped[x]]
      BY <1>t DEF BundleTypes
    <2>3. QED
      BY <2>1, <2>2
  <1>6. QED
    BY <1>3, <1>4, <1>5 DEF Bundle!VerdictIsTrue, Bundle!Key, repo, same, bundle, mtime, verdicts, shipped, limit

LEMMA BundleInit == Bundle!Init => BundleInv
  <1> SUFFICES ASSUME Bundle!Init PROVE BundleInv
    OBVIOUS
  <1>1. /\ repo = [rev |-> [p \in Bundle!Parts |-> IF p = "switch" THEN 2 ELSE 1], cut |-> "new", io |-> "v1.5"]
        /\ registry = {[part |-> "switch", rev |-> 1, cut |-> "legacy", only |-> FALSE]}
        /\ same = [p \in Bundle!Parts |-> [r \in 1..repo.rev[p] |-> IF r < repo.rev[p] THEN {"legacy"} ELSE Bundle!Cuts]]
        /\ mtime = [x \in Bundle!Files |-> 0]
        /\ tool = [at |-> "none"] /\ look = [at |-> "none"] /\ verdicts = {}
        /\ shipped = [cut |-> bundle.text.cut, io |-> bundle.text.io]
        /\ "torn" \in DOMAIN limit
    BY DEF Bundle!Init, Bundle!Idle, repo, registry, same, bundle, mtime, tool, look, verdicts, shipped, limit
  <1>2. PICK dense \in BOOLEAN, sz \in BOOLEAN, switch \in 0..2,
             io \in Bundle!Profiles \cup {"none"}, cut \in Bundle!Cuts \cup {"none"} :
          bundle = [dense |-> dense, sz |-> sz,
                    text |-> [rev |-> [p \in Bundle!Parts |-> IF p = "switch" THEN switch ELSE IF dense THEN 1 ELSE 0],
                              cut |-> cut, io |-> io]]
    BY ZenonT(40) DEF Bundle!Init, bundle
  <1>s. Bundle!Parts = {"switch", "dense"}
    BY DEF Bundle!Parts
  <1>5. repo.rev \in Revs /\ repo.rev["switch"] = 2 /\ repo.rev["dense"] = 1
    <2> DEFINE rev == [p \in Bundle!Parts |-> IF p = "switch" THEN 2 ELSE 1]
    <2>1. rev \in [Bundle!Parts -> Nat] /\ rev["switch"] = 2 /\ rev["dense"] = 1
      BY <1>s
    <2>2. repo.rev = rev
      BY <1>1
    <2>3. QED
      BY <2>1, <2>2 DEF Revs
  <1>4. /\ \A p \in Bundle!Parts : /\ DOMAIN same[p] = 1..repo.rev[p]
                                   /\ same[p] \in [1..repo.rev[p] -> SUBSET Bundle!Cuts]
                                   /\ same[p][repo.rev[p]] = Bundle!Cuts
        /\ same["switch"][1] = {"legacy"}
        /\ same = [p \in Bundle!Parts |-> same[p]]
    <2>1. {"legacy"} \subseteq Bundle!Cuts
      BY DEF Bundle!Cuts
    <2>2. \A p \in Bundle!Parts : repo.rev[p] \in {1, 2}
      BY <1>s, <1>5
    <2>3. \A p \in Bundle!Parts : same[p] = [r \in 1..repo.rev[p] |-> IF r < repo.rev[p] THEN {"legacy"} ELSE Bundle!Cuts]
      BY <1>1
    <2>4. ASSUME NEW p \in Bundle!Parts
          PROVE  /\ DOMAIN same[p] = 1..repo.rev[p]
                 /\ same[p] \in [1..repo.rev[p] -> SUBSET Bundle!Cuts]
                 /\ same[p][repo.rev[p]] = Bundle!Cuts
      <3> DEFINE n == repo.rev[p]
                 agrees == [r \in 1..n |-> IF r < n THEN {"legacy"} ELSE Bundle!Cuts]
      <3>1. n \in {1, 2} /\ same[p] = agrees
        BY <2>2, <2>3
      <3> HIDE DEF n
      <3>2. DOMAIN agrees = 1..n /\ agrees \in [1..n -> SUBSET Bundle!Cuts]
        BY <2>1
      <3>3. n \in 1..n /\ ~(n < n)
        BY <3>1
      <3>4. agrees[n] = Bundle!Cuts
        BY <3>3
      <3> HIDE DEF agrees
      <3>5. QED
        BY <3>1, <3>2, <3>4 DEF n
    <2>6. same["switch"][1] = {"legacy"}
      BY <1>s, <1>5, <2>3
    <2>7. same = [p \in Bundle!Parts |-> same[p]]
      BY <1>1
    <2>8. QED
      BY <2>4, <2>6, <2>7
  <1>6. bundle.text.rev \in Revs /\ bundle.text.rev["switch"] = switch
        /\ bundle.text.rev["dense"] = IF dense THEN 1 ELSE 0
    <2> DEFINE rev == [p \in Bundle!Parts |-> IF p = "switch" THEN switch ELSE IF dense THEN 1 ELSE 0]
    <2>1. rev \in [Bundle!Parts -> Nat] /\ rev["switch"] = switch /\ rev["dense"] = IF dense THEN 1 ELSE 0
      BY <1>s
    <2>2. bundle.text.rev = rev
      BY <1>2
    <2>3. QED
      BY <2>1, <2>2 DEF Revs
  <1>7. BundleTypes
    <2>1. repo \in [rev : Revs, cut : Bundle!Cuts, io : Bundle!Profiles]
      BY <1>1, <1>5 DEF Bundle!Cuts, Bundle!Profiles
    <2>2. \A p \in Bundle!Parts : /\ repo.rev[p] >= 1 /\ DOMAIN same[p] = 1..repo.rev[p]
                                  /\ same[p][repo.rev[p]] = Bundle!Cuts
      BY <1>4, <1>5 DEF Bundle!Parts
    <2>3. same \in [Bundle!Parts -> UNION {[S -> SUBSET Bundle!Cuts] : S \in SUBSET Nat}]
      <3>1. \A p \in Bundle!Parts : 1..repo.rev[p] \in SUBSET Nat
        BY <1>s, <1>5
      <3>2. ASSUME NEW p \in Bundle!Parts
            PROVE  same[p] \in UNION {[S -> SUBSET Bundle!Cuts] : S \in SUBSET Nat}
        <4>1. same[p] \in [1..repo.rev[p] -> SUBSET Bundle!Cuts]
          BY <1>4
        <4>2. QED
          BY <3>1, <4>1
      <3>3. QED
        BY <1>4, <3>2
    <2>4. registry \subseteq [part : Bundle!Parts, rev : Nat, cut : Bundle!Cuts, only : BOOLEAN]
      BY <1>1 DEF Bundle!Parts, Bundle!Cuts
    <2>5. bundle.text \in Texts
      BY <1>2, <1>6 DEF Texts, BakedCuts, BakedPairs
    <2>6. bundle \in [dense : BOOLEAN, sz : BOOLEAN, text : Texts]
      BY <1>2, <2>5
    <2>7. Known(bundle.text)
      BY <1>5, <1>6 DEF Known, Bundle!Parts
    <2>8. shipped \in [{"cut", "io"} -> BakedCuts \cup BakedPairs]
      BY <1>1, <2>5 DEF Texts
    <2>9. mtime \in [Bundle!Files -> Nat]
      BY <1>1
    <2>10. QED
      BY <1>1, <2>1, <2>2, <2>3, <2>4, <2>6, <2>7, <2>8, <2>9 DEF BundleTypes
  <1>8. Certifies
    BY <1>1, <1>4, <1>5, <1>s DEF Certifies
  <1>9. ToolTypes
    BY <1>1 DEF ToolTypes
  <1>10. LooksStand
    BY <1>1 DEF LooksStand
  <1>11. QED
    BY <1>7, <1>8, <1>9, <1>10 DEF BundleInv

\* A write moves the times on, and no look begun before is of this time.
LEMMA WriteMoves ==
  ASSUME BundleTypes, NEW files \in SUBSET Bundle!Files, Bundle!Written(files)
  PROVE  /\ mtime' \in [Bundle!Files -> Nat]
         /\ \A key : Before(key) => Before(key)' /\ (files # {} => key # mtime')
         /\ files = {} => mtime' = mtime
  <1>1. mtime' = [x \in Bundle!Files |-> IF x \in files THEN mtime[x] + 1 ELSE mtime[x]]
    BY DEF Bundle!Written, mtime
  <1>2. mtime' \in [Bundle!Files -> Nat] /\ \A x \in Bundle!Files : mtime[x] <= mtime'[x]
    BY <1>1 DEF BundleTypes
  <1>3. \A x \in files : mtime'[x] = mtime[x] + 1 /\ mtime[x] \in Nat
    BY <1>1 DEF BundleTypes
  <1>4. ASSUME NEW key, Before(key) PROVE Before(key)' /\ (files # {} => key # mtime')
    <2>1. key \in [Bundle!Files -> Nat] /\ \A x \in Bundle!Files : key[x] <= mtime[x]
      BY <1>4 DEF Before
    <2>2. \A x \in Bundle!Files : key[x] <= mtime'[x]
      BY <1>2, <2>1 DEF BundleTypes
    <2>3. \A x \in files : key[x] # mtime'[x]
      BY <1>3, <2>1
    <2>4. QED
      BY <2>1, <2>2, <2>3 DEF Before
  <1>5. files = {} => mtime' = mtime
    BY <1>1 DEF BundleTypes
  <1>6. QED
    BY <1>2, <1>4, <1>5

\* A change to what verdicts are about is a write, and past it none is shown.
LEMMA LooksPass ==
  ASSUME BundleTypes, LooksStand, NEW files \in SUBSET Bundle!Files, files # {}, Bundle!Written(files),
         UNCHANGED <<look, verdicts>>
  PROVE  LooksStand'
  BY WriteMoves DEF LooksStand

\* The verdict is about the artifact, the repository and the registry.
LEMMA VerdictDepends ==
  ASSUME UNCHANGED <<repo, registry, bundle>>
  PROVE  Bundle!Verdict(bundle)' = Bundle!Verdict(bundle)
  BY DEF Bundle!Verdict, Bundle!Revisions, Bundle!Certified, Bundle!Covered, Bundle!Baked, Bundle!Verbatim,
         Bundle!Current, Bundle!Carried, repo, registry, bundle

LEMMA BundleNext == BundleInv /\ [Bundle!Next]_(Bundle!bvars) => BundleInv'
  <1> SUFFICES ASSUME BundleInv, [Bundle!Next]_(Bundle!bvars)
               PROVE  BundleInv'
    OBVIOUS
  <1>t. BundleTypes /\ Certifies /\ ToolTypes /\ LooksStand
    BY DEF BundleInv
  <1>f. /\ {"registry"} \in SUBSET Bundle!Files /\ {"model.py"} \in SUBSET Bundle!Files
        /\ {"config.json"} \in SUBSET Bundle!Files
        /\ \A p \in Bundle!Parts : {p, "registry"} \in SUBSET Bundle!Files
    BY DEF Bundle!Files
  <1>1. ASSUME NEW p \in Bundle!Parts, NEW agree \in SUBSET Bundle!Cuts, NEW cut \in Bundle!Cuts,
               NEW joins \in BOOLEAN, Bundle!Land(p, agree, cut, joins)
        PROVE  BundleInv'
    <2> DEFINE r == repo.rev[p]
               rev == [repo.rev EXCEPT ![p] = r + 1]
               now == [q \in Bundle!Parts |-> [x \in 1..(repo.rev[q] + IF q = p THEN 1 ELSE 0) |->
                        IF q # p THEN same[q][x] ELSE IF x = r + 1 THEN Bundle!Cuts ELSE same[q][x] \cap agree]]
               was == [part |-> p, rev |-> r, only |-> r > 1,
                       cut |-> IF p = "switch" THEN repo.cut ELSE "legacy"]
    <2>1. /\ repo' = [repo EXCEPT !.rev = rev, !.cut = cut]
          /\ same' = now
          /\ \A e \in registry' : /\ e \in registry \/ e = was
                                  /\ IF e.part = "switch" THEN e.cut \in now[e.part][e.rev]
                                     ELSE now[e.part][e.rev] = Bundle!Cuts
          /\ Bundle!Written({p, "registry"})
          /\ UNCHANGED <<bundle, tool, look, verdicts, shipped, limit>>
      BY <1>1 DEF Bundle!Land, repo, registry, same, bundle, tool, look, verdicts, shipped, limit
    <2>2. /\ rev \in Revs /\ rev[p] = r + 1 /\ r \in Nat /\ r >= 1
          /\ \A q \in Bundle!Parts : q # p => rev[q] = repo.rev[q]
          /\ \A q \in Bundle!Parts : repo.rev[q] <= rev[q] /\ rev[q] \in Nat /\ repo.rev[q] \in Nat
      BY <1>t DEF BundleTypes, Revs
    <2>3. repo' \in [rev : Revs, cut : Bundle!Cuts, io : Bundle!Profiles] /\ repo'.rev = rev
      BY <1>t, <2>1, <2>2 DEF BundleTypes
    <2>4. /\ \A q \in Bundle!Parts : DOMAIN now[q] = 1..rev[q]
          /\ \A x \in 1..r : now[p][x] = same[p][x] \cap agree
          /\ now[p][r + 1] = Bundle!Cuts
          /\ \A q \in Bundle!Parts : q # p => \A x \in 1..repo.rev[q] : now[q][x] = same[q][x]
      BY <2>2
    <2>5. \A q \in Bundle!Parts : now[q] \in [1..rev[q] -> SUBSET Bundle!Cuts]
      <3>1. ASSUME NEW q \in Bundle!Parts, NEW x \in 1..repo.rev[q] PROVE same[q][x] \in SUBSET Bundle!Cuts
        <4>1. PICK S \in SUBSET Nat : same[q] \in [S -> SUBSET Bundle!Cuts]
          BY <1>t DEF BundleTypes
        <4>2. DOMAIN same[q] = 1..repo.rev[q]
          BY <1>t DEF BundleTypes
        <4>3. QED
          BY <4>1, <4>2
      <3>2. \A q \in Bundle!Parts : \A x \in 1..rev[q] : now[q][x] \in SUBSET Bundle!Cuts
        BY <2>2, <2>4, <3>1
      <3>3. QED
        BY <2>4, <3>2
    <2>6. DOMAIN now = Bundle!Parts /\ now = [q \in Bundle!Parts |-> now[q]]
      OBVIOUS
    <2> HIDE DEF now, rev, r
    <2>7. same' \in [Bundle!Parts -> UNION {[S -> SUBSET Bundle!Cuts] : S \in SUBSET Nat}]
      <3>1. \A q \in Bundle!Parts : 1..rev[q] \in SUBSET Nat
        BY <2>2
      <3>2. \A q \in Bundle!Parts : now[q] \in UNION {[S -> SUBSET Bundle!Cuts] : S \in SUBSET Nat}
        BY <2>5, <3>1
      <3>3. QED
        BY <2>1, <2>6, <3>2
    <2>8. \A q \in Bundle!Parts : /\ repo'.rev[q] >= 1 /\ DOMAIN same'[q] = 1..repo'.rev[q]
                                  /\ same'[q][repo'.rev[q]] = Bundle!Cuts
      <3>1. \A q \in Bundle!Parts : repo.rev[q] >= 1 /\ same[q][repo.rev[q]] = Bundle!Cuts
        BY <1>t DEF BundleTypes
      <3>2. ASSUME NEW q \in Bundle!Parts, q # p PROVE now[q][rev[q]] = Bundle!Cuts
        BY <2>2, <2>4, <3>1, <3>2
      <3>3. QED
        BY <2>1, <2>2, <2>3, <2>4, <3>1, <3>2
    <2>9. was \in [part : Bundle!Parts, rev : Nat, cut : Bundle!Cuts, only : BOOLEAN]
      <3>1. repo.cut \in Bundle!Cuts /\ "legacy" \in Bundle!Cuts
        BY <1>t DEF BundleTypes, Bundle!Cuts
      <3>2. QED
        BY <2>2, <3>1 DEF r
    <2>10. registry' \subseteq [part : Bundle!Parts, rev : Nat, cut : Bundle!Cuts, only : BOOLEAN]
      BY <1>t, <2>1, <2>9 DEF BundleTypes
    <2>11. Known(bundle.text)' /\ \A text \in Texts : Known(text) => Known(text)'
      <3>1. \A text \in Texts : Known(text) => Known(text)'
        BY <2>2, <2>3 DEF Known, Texts, Revs
      <3>2. QED
        BY <1>t, <2>1, <3>1 DEF BundleTypes
    <2>12. mtime' \in [Bundle!Files -> Nat]
      BY <1>f, <1>t, <2>1, WriteMoves
    <2>13. BundleTypes'
      BY <1>t, <2>1, <2>3, <2>7, <2>8, <2>10, <2>11, <2>12 DEF BundleTypes
    <2>14. Certifies'
      <3>1. \A e \in registry' : e.part \in Bundle!Parts /\ e.rev \in 1..repo.rev[e.part]
        BY <1>t, <2>1, <2>2, <2>9 DEF Certifies, BundleTypes, r
      <3>2. \A e \in registry' : e.rev \in 1..repo'.rev[e.part]
        BY <2>2, <2>3, <3>1
      <3>3. QED
        BY <2>1, <3>2 DEF Certifies
    <2>15. ToolTypes'
      BY <1>t, <2>1, <2>11 DEF ToolTypes
    <2>16. LooksStand'
      BY <1>f, <1>t, <2>1, LooksPass
    <2>17. QED
      BY <2>13, <2>14, <2>15, <2>16 DEF BundleInv
  <1>2. ASSUME NEW e \in registry, Bundle!Withdraw(e) PROVE BundleInv'
    <2>1. /\ registry' \subseteq registry /\ Bundle!Written({"registry"})
          /\ limit'.torn = limit.torn /\ "torn" \in DOMAIN limit'
          /\ UNCHANGED <<repo, same, bundle, tool, look, verdicts, shipped>>
      BY <1>t, <1>2 DEF BundleTypes, Bundle!Withdraw, repo, registry, same, bundle, tool, look, verdicts, shipped, limit
    <2>2. BundleTypes'
      BY <1>f, <1>t, <2>1, WriteMoves DEF BundleTypes, Known
    <2>3. Certifies'
      BY <1>t, <2>1 DEF Certifies
    <2>4. ToolTypes'
      BY <1>t, <2>1 DEF ToolTypes, Known
    <2>5. LooksStand'
      BY <1>f, <1>t, <2>1, LooksPass
    <2>6. QED
      BY <2>2, <2>3, <2>4, <2>5 DEF BundleInv
  <1>3. ASSUME NEW profile \in {"none"} \cup Bundle!Profiles, NEW adopt \in {{}, {"cut", "io"}},
               Bundle!BeginBundle(profile, adopt)
        PROVE  BundleInv'
    <2>1. /\ tool = Bundle!Idle /\ tool' = [at |-> "config", profile |-> profile, adopt |-> adopt]
          /\ limit'.torn = limit.torn /\ "torn" \in DOMAIN limit'
          /\ Bundle!Written(IF bundle.dense THEN {} ELSE {"config.json"})
          /\ UNCHANGED <<repo, registry, same, bundle, look, verdicts, shipped>>
      BY <1>t, <1>3 DEF BundleTypes, Bundle!BeginBundle, repo, registry, same, bundle, tool, look, verdicts, shipped, limit
    <2>2. BundleTypes' /\ Certifies'
      BY <1>f, <1>t, <2>1, WriteMoves DEF BundleTypes, Known, Certifies
    <2>3. ToolTypes'
      BY <1>t, <2>1 DEF ToolTypes, Bundle!Idle, BakedPairs
    <2>4. LooksStand'
      <3>1. CASE bundle.dense
        <4>1. mtime' = mtime
          BY <1>t, <2>1, <3>1, WriteMoves
        <4>2. Bundle!Verdict(bundle)' = Bundle!Verdict(bundle)
          BY <2>1, VerdictDepends
        <4>3. QED
          BY <1>t, <2>1, <4>1, <4>2 DEF LooksStand, Before
      <3>2. CASE ~bundle.dense
        BY <1>f, <1>t, <2>1, <3>2, LooksPass
      <3>3. QED
        BY <3>1, <3>2
    <2>5. QED
      BY <2>2, <2>3, <2>4 DEF BundleInv
  <1>4. CASE Bundle!Resolve
    <2> DEFINE cut == Bundle!Kept("cut")
               io == IF tool.profile # "none" THEN tool.profile ELSE Bundle!Kept("io")
               text == Bundle!Text(cut, io)
               chosen == [cut |-> bundle.text.cut = "none" \/ "cut" \in tool.adopt,
                          io |-> bundle.text.io = "none" \/ "io" \in tool.adopt \/ tool.profile # "none"]
    <2>1. /\ tool.at = "config" /\ tool' = [at |-> "writing", text |-> text, chosen |-> chosen]
          /\ bundle' = [bundle EXCEPT !.text = Bundle!Torn]
          /\ Bundle!Written({"model.py"})
          /\ UNCHANGED <<repo, registry, same, look, verdicts, shipped, limit>>
      BY <1>4 DEF Bundle!Resolve, repo, registry, same, bundle, tool, look, verdicts, shipped, limit
    <2>2. /\ cut \in BakedCuts /\ io \in BakedPairs
          /\ ~chosen.cut => cut = bundle.text.cut
          /\ ~chosen.io => io = bundle.text.io
      BY <1>t, <2>1 DEF BundleTypes, ToolTypes, Texts, BakedCuts, BakedPairs, Bundle!Kept, repo, bundle, tool
    <2>4. text \in Texts /\ Known(text) /\ text.cut = cut /\ text.io = io
      <3>1. text = [rev |-> [p \in Bundle!Parts |-> IF p \in Bundle!Carried THEN repo.rev[p] ELSE 0],
                    cut |-> cut, io |-> io]
        BY DEF Bundle!Text, repo
      <3> HIDE DEF cut, io, text
      <3>2. text.rev \in Revs /\ \A p \in Bundle!Parts : text.rev[p] <= repo.rev[p]
        BY <1>t, <3>1 DEF BundleTypes, Revs
      <3>3. QED
        BY <2>2, <3>1, <3>2 DEF Texts, Known
    <2> HIDE DEF cut, io, text, chosen
    <2>5. /\ Bundle!Torn \in Texts /\ Known(Bundle!Torn)
          /\ bundle' \in [dense : BOOLEAN, sz : BOOLEAN, text : Texts] /\ bundle'.text = Bundle!Torn
      <3>1. Bundle!Torn \in Texts /\ \A p \in Bundle!Parts : Bundle!Torn.rev[p] = 0
        BY DEF Bundle!Torn, Texts, Revs, BakedCuts, BakedPairs
      <3>2. Known(Bundle!Torn)
        BY <1>t, <3>1 DEF BundleTypes, Known, Revs
      <3>3. QED
        BY <1>t, <2>1, <3>1, <3>2 DEF BundleTypes
    <2>6. BundleTypes' /\ Certifies'
      BY <1>f, <1>t, <2>1, <2>5, WriteMoves DEF BundleTypes, Known, Certifies
    <2>7. ToolTypes'
      <3>1. ~limit.torn => bundle.text.cut = shipped["cut"] /\ bundle.text.io = shipped["io"]
        BY <1>t, <2>1 DEF ToolTypes
      <3>2. ~limit.torn => \A x \in {"cut", "io"} : ~chosen[x] => text[x] = shipped[x]
        BY <2>2, <2>4, <3>1
      <3>3. /\ tool'.at = "writing" /\ tool'.text = text /\ tool'.chosen = chosen
        BY <2>1
      <3>4. QED
        BY <2>1, <2>4, <2>5, <3>2, <3>3 DEF ToolTypes, Known
    <2>8. LooksStand'
      BY <1>f, <1>t, <2>1, LooksPass
    <2>9. QED
      BY <2>6, <2>7, <2>8 DEF BundleInv
  <1>5. ASSUME NEW flag \in {"cut", "io"}, NEW value, Bundle!BakeFlag(flag, value),
               flag = "cut" => value \in Bundle!Cuts, flag = "io" => value \in Bundle!Profiles
        PROVE  BundleInv'
    <2> DEFINE text == [bundle.text EXCEPT ![flag] = value]
               chosen == [x \in {"cut", "io"} |-> x = flag]
    <2>1. /\ tool = Bundle!Idle /\ tool' = [at |-> "writing", text |-> text, chosen |-> chosen]
          /\ bundle' = [bundle EXCEPT !.text = Bundle!Torn]
          /\ limit'.torn = limit.torn /\ "torn" \in DOMAIN limit'
          /\ Bundle!Written({"model.py"})
          /\ UNCHANGED <<repo, registry, same, look, verdicts, shipped>>
      BY <1>t, <1>5 DEF BundleTypes, Bundle!BakeFlag, repo, registry, same, bundle, tool, look, verdicts, shipped, limit
    <2>2. bundle.text \in Texts /\ Known(bundle.text)
      BY <1>t DEF BundleTypes
    <2>3. /\ text \in Texts /\ Known(text)
          /\ \A x \in {"cut", "io"} : ~chosen[x] => text[x] = bundle.text[x]
      <3>1. \A x \in {"cut", "io"} : chosen[x] <=> x = flag
        OBVIOUS
      <3>2. CASE flag = "cut"
        <4>1. text = [bundle.text EXCEPT !.cut = value]
          BY <3>2
        <4>2. text.rev = bundle.text.rev /\ text.io = bundle.text.io /\ text \in Texts
          BY <1>5, <2>2, <3>2, <4>1 DEF Texts, BakedCuts
        <4>3. QED
          BY <2>2, <3>1, <3>2, <4>2 DEF Known
      <3>3. CASE flag = "io"
        <4>1. text = [bundle.text EXCEPT !.io = value]
          BY <3>3
        <4>2. text.rev = bundle.text.rev /\ text.cut = bundle.text.cut /\ text \in Texts
          BY <1>5, <2>2, <3>3, <4>1 DEF Texts, BakedPairs
        <4>3. QED
          BY <2>2, <3>1, <3>3, <4>2 DEF Known
      <3>4. QED
        BY <3>2, <3>3
    <2> HIDE DEF text, chosen
    <2>5. /\ bundle' \in [dense : BOOLEAN, sz : BOOLEAN, text : Texts] /\ bundle'.text = Bundle!Torn
          /\ Known(Bundle!Torn)
      <3>1. Bundle!Torn \in Texts /\ \A p \in Bundle!Parts : Bundle!Torn.rev[p] = 0
        BY DEF Bundle!Torn, Texts, Revs, BakedCuts, BakedPairs
      <3>2. Known(Bundle!Torn)
        BY <1>t, <3>1 DEF BundleTypes, Known, Revs
      <3>3. QED
        BY <1>t, <2>1, <3>1, <3>2 DEF BundleTypes
    <2>6. BundleTypes' /\ Certifies'
      BY <1>f, <1>t, <2>1, <2>5, WriteMoves DEF BundleTypes, Known, Certifies
    <2>7. ToolTypes'
      <3>1. ~limit.torn => bundle.text["cut"] = shipped["cut"] /\ bundle.text["io"] = shipped["io"]
        BY <1>t, <2>1 DEF ToolTypes, Bundle!Idle
      <3>2. ~limit.torn => \A x \in {"cut", "io"} : ~chosen[x] => text[x] = shipped[x]
        BY <2>3, <3>1
      <3>4. /\ tool'.at = "writing" /\ tool'.text = text /\ tool'.chosen = chosen
        BY <2>1
      <3>5. QED
        BY <2>1, <2>3, <2>5, <3>2, <3>4 DEF ToolTypes, Known
    <2>8. LooksStand'
      BY <1>f, <1>t, <2>1, LooksPass
    <2>9. QED
      BY <2>6, <2>7, <2>8 DEF BundleInv
  <1>6. CASE Bundle!FinishWrite
    <2>1. /\ tool.at = "writing" /\ tool' = Bundle!Idle
          /\ bundle' = [bundle EXCEPT !.text = tool.text]
          /\ shipped' = [x \in {"cut", "io"} |-> IF tool.chosen[x] THEN tool.text[x] ELSE shipped[x]]
          /\ Bundle!Written({"model.py"})
          /\ UNCHANGED <<repo, registry, same, look, verdicts, limit>>
      BY <1>6 DEF Bundle!FinishWrite, repo, registry, same, bundle, tool, look, verdicts, shipped, limit
    <2>2. /\ tool.text \in Texts /\ Known(tool.text)
          /\ ~limit.torn => \A x \in {"cut", "io"} : ~tool.chosen[x] => tool.text[x] = shipped[x]
      BY <1>t, <2>1 DEF ToolTypes
    <2>3. bundle' \in [dense : BOOLEAN, sz : BOOLEAN, text : Texts] /\ bundle'.text = tool.text
      BY <1>t, <2>1, <2>2 DEF BundleTypes
    <2>4. Known(bundle.text)'
      BY <2>1, <2>2, <2>3 DEF Known
    <2>5. shipped' \in [{"cut", "io"} -> BakedCuts \cup BakedPairs]
      <3>1. tool.text["cut"] \in BakedCuts /\ tool.text["io"] \in BakedPairs
        BY <2>2 DEF Texts
      <3>2. QED
        BY <1>t, <2>1, <3>1 DEF BundleTypes
    <2>6. BundleTypes' /\ Certifies'
      <3>1. mtime' \in [Bundle!Files -> Nat]
        BY <1>f, <1>t, <2>1, WriteMoves
      <3>2. QED
        BY <1>t, <2>1, <2>3, <2>4, <2>5, <3>1 DEF BundleTypes, Certifies
    <2>7. ToolTypes'
      <3>1. ~limit'.torn => \A x \in {"cut", "io"} : shipped'[x] = tool.text[x]
        BY <2>1, <2>2
      <3>2. QED
        BY <2>1, <2>3, <3>1 DEF ToolTypes, Bundle!Idle
    <2>8. LooksStand'
      BY <1>f, <1>t, <2>1, LooksPass
    <2>9. QED
      BY <2>6, <2>7, <2>8 DEF BundleInv
  <1>7. CASE Bundle!Die
    <2>1. /\ tool' = Bundle!Idle /\ (~limit'.torn => ~limit.torn /\ tool.at # "writing")
          /\ "torn" \in DOMAIN limit'
          /\ UNCHANGED <<repo, registry, same, bundle, mtime, look, verdicts, shipped>>
      BY <1>t, <1>7 DEF BundleTypes, Bundle!Die, repo, registry, same, bundle, mtime, tool, look, verdicts, shipped, limit
    <2>2. BundleTypes' /\ Certifies'
      BY <1>t, <2>1 DEF BundleTypes, Known, Certifies
    <2>3. ToolTypes'
      BY <1>t, <2>1 DEF ToolTypes, Bundle!Idle
    <2>4. Bundle!Verdict(bundle)' = Bundle!Verdict(bundle)
      BY <2>1, VerdictDepends
    <2>5. LooksStand'
      BY <1>t, <2>1, <2>4 DEF LooksStand, Before
    <2>6. QED
      BY <2>2, <2>3, <2>5 DEF BundleInv
  <1>8. ASSUME UNCHANGED <<repo, registry, same, bundle, mtime, tool, shipped>>,
               limit'.torn = limit.torn, "torn" \in DOMAIN limit',
               \/ /\ look' = [at |-> "stat", key |-> mtime] /\ verdicts' = verdicts
               \/ /\ look.at = "stat" /\ look' = [at |-> "read", key |-> look.key, art |-> bundle]
                  /\ verdicts' = verdicts
               \/ /\ look.at = "read" /\ look' = Bundle!Idle
                  /\ verdicts' = verdicts \cup {[key |-> look.key, word |-> Bundle!Verdict(look.art)]}
               \/ UNCHANGED <<look, verdicts>>
        PROVE  BundleInv'
    <2>1. BundleTypes' /\ Certifies' /\ ToolTypes'
      BY <1>t, <1>8 DEF BundleTypes, Known, Certifies, ToolTypes
    <2>2. Bundle!Verdict(bundle)' = Bundle!Verdict(bundle)
      BY <1>8, VerdictDepends
    <2>3. \A key : Before(key)' <=> Before(key)
      BY <1>8 DEF Before
    <2>4. Before(mtime)
      BY <1>t DEF BundleTypes, Before
    <2>5. /\ look'.at \in {"stat", "read"} => Before(look'.key)
          /\ look'.at = "read" /\ look'.key = mtime => look'.art = bundle
      BY <1>t, <1>8, <2>4 DEF LooksStand, Bundle!Idle
    <2>6. \A c \in verdicts' : Before(c.key) /\ (c.key = mtime => c.word = Bundle!Verdict(bundle))
      BY <1>t, <1>8 DEF LooksStand
    <2>7. LooksStand'
      <3>1. look'.at \in {"stat", "read"} => Before(look.key)'
        <4>1. \A key : key = look'.key /\ Before(key) => Before(look.key)'
          BY <1>8 DEF Before
        <4>2. QED
          BY <2>5, <4>1
      <3>2. \A c \in verdicts' : Before(c.key)' /\ (c.key = mtime' => c.word = Bundle!Verdict(bundle)')
        BY <1>8, <2>2, <2>3, <2>6
      <3>3. QED
        BY <1>8, <2>5, <3>1, <3>2 DEF LooksStand
    <2>8. QED
      BY <2>1, <2>7 DEF BundleInv
  <1>9. CASE Bundle!BeginLook \/ Bundle!ReadBundle \/ Bundle!EndLook \/ UNCHANGED Bundle!bvars
    <2>1. CASE Bundle!BeginLook
      BY <1>t, <1>8, <2>1 DEF BundleTypes, Bundle!BeginLook, Bundle!Key,
         repo, registry, same, bundle, mtime, tool, look, verdicts, shipped, limit
    <2>2. CASE Bundle!ReadBundle
      BY <1>t, <1>8, <2>2 DEF BundleTypes, Bundle!ReadBundle,
         repo, registry, same, bundle, mtime, tool, look, verdicts, shipped, limit
    <2>3. CASE Bundle!EndLook
      BY <1>t, <1>8, <2>3 DEF BundleTypes, Bundle!EndLook,
         repo, registry, same, bundle, mtime, tool, look, verdicts, shipped, limit
    <2>4. CASE UNCHANGED Bundle!bvars
      BY <1>t, <1>8, <2>4 DEF BundleTypes, Bundle!bvars,
         repo, registry, same, bundle, mtime, tool, look, verdicts, shipped, limit
    <2>5. QED
      BY <1>9, <2>1, <2>2, <2>3, <2>4
  <1>10. QED
    BY <1>1, <1>2, <1>3, <1>4, <1>5, <1>6, <1>7, <1>9 DEF Bundle!Next, registry

-----------------------------------------------------------------------------
(* The overnight validation queue (ValidateQueue).                         *)

book == v1
added == v2
cleared == v3
did == v4
cmd == v5
crossed == v6

Entries == 1..MaxEntries
Results == {"pending", "pass", "FAIL"}
Lists == UNION {[S -> Results] : S \in SUBSET Entries}

NightTypes ==
  /\ added \in 0..MaxEntries /\ cleared \subseteq 1..added /\ crossed \in BOOLEAN
  /\ did \in [Entries -> Results] /\ \A e \in Entries : e > added => did[e] = "pending"
  /\ book \in Lists /\ DOMAIN book \subseteq 1..added
  /\ cmd \in [Commands -> [does : {"off", "done", "add", "clear", "run"},
                           list : Lists, at : 0..MaxEntries]]

\* A command at an entry took the first of its list that is pending.
AtFirst(p) ==
  cmd[p].at # 0 => /\ cmd[p].does = "run"
                   /\ cmd[p].at \in DOMAIN cmd[p].list
                   /\ cmd[p].list[cmd[p].at] = "pending"
                   /\ did[cmd[p].at] # "pending"
                   /\ \A d \in DOMAIN cmd[p].list : d < cmd[p].at => cmd[p].list[d] # "pending"

\* What any list says was a result was one.
Earned(list) == \A e \in DOMAIN list : list[e] # "pending" => did[e] # "pending"

Busy(p) == cmd[p].does \in {"add", "clear", "run"}

\* One command at a time holds the queue as the book has it.
HoldsFile ==
  ~crossed => /\ \A p \in Commands : Busy(p) => cmd[p].list = book
              /\ \A p, q \in Commands : Busy(p) /\ Busy(q) => p = q

Lossless ==
  ~crossed =>
    /\ \A e \in 1..added : (e \in cleared) # (e \in DOMAIN book)
    /\ \A e \in cleared : did[e] # "pending"
    /\ \A e \in DOMAIN book :
         did[e] # book[e] =>
           /\ book[e] = "pending"
           /\ \A d \in DOMAIN book : d < e => book[d] # "pending"

NightInv ==
  /\ NightTypes /\ HoldsFile
  /\ \A p \in Commands : AtFirst(p) /\ Earned(cmd[p].list)
                         /\ DOMAIN cmd[p].list \subseteq 1..added
  /\ Earned(book) /\ Lossless

LEMMA NightInit == Overnight!Init => NightInv
  <1> SUFFICES ASSUME Overnight!Init PROVE NightInv
    OBVIOUS
  <1>1. /\ book = Overnight!NoEntries /\ added = 0 /\ cleared = {} /\ crossed = FALSE
        /\ did = [e \in Entries |-> "pending"] /\ cmd = [p \in Commands |-> Overnight!Nothing]
    BY DEF Overnight!Init, book, added, cleared, did, cmd, crossed, Entries
  <1>2. Overnight!NoEntries \in [{} -> Results] /\ DOMAIN Overnight!NoEntries = {}
    BY DEF Overnight!NoEntries
  <1>3. Overnight!NoEntries \in Lists
    BY <1>2 DEF Lists
  <1>4. NightTypes
    <2>1. did \in [Entries -> Results] /\ \A e \in Entries : did[e] = "pending"
      BY <1>1 DEF Results
    <2>2. Overnight!Nothing \in [does : {"off", "done", "add", "clear", "run"},
                                 list : Lists, at : 0..MaxEntries]
      BY <1>3, LocalAssumption DEF Overnight!Nothing
    <2>3. \A p \in Commands : cmd[p] \in [does : {"off", "done", "add", "clear", "run"},
                                          list : Lists, at : 0..MaxEntries]
      BY <1>1, <2>2
    <2>a. crossed \in BOOLEAN
      BY <1>1, Zenon
    <2>4. added \in 0..MaxEntries /\ cleared \subseteq 1..added
      BY <1>1, LocalAssumption
    <2>5. book \in Lists /\ DOMAIN book \subseteq 1..added
      BY <1>1, <1>2, <1>3
    <2>6. cmd \in [Commands -> [does : {"off", "done", "add", "clear", "run"},
                               list : Lists, at : 0..MaxEntries]]
      BY <1>1, <2>2
    <2>7. QED
      BY <2>1, <2>a, <2>4, <2>5, <2>6 DEF NightTypes
  <1>5. \A p \in Commands : cmd[p] = Overnight!Nothing
    BY <1>1
  <1>6. HoldsFile
    BY <1>1, <1>5 DEF HoldsFile, Busy, Overnight!Nothing
  <1>7. \A p \in Commands : AtFirst(p) /\ Earned(cmd[p].list) /\ DOMAIN cmd[p].list \subseteq 1..added
    BY <1>5, <1>2 DEF AtFirst, Earned, Overnight!Nothing
  <1>8. Earned(book) /\ Lossless
    BY <1>1, <1>2 DEF Earned, Lossless
  <1>9. QED
    BY <1>4, <1>6, <1>7, <1>8 DEF NightInv

\* A step of one command leaves the others as they are.
LEMMA NightStep ==
  ASSUME NightTypes, NEW p \in Commands, NEW does \in {"off", "done", "add", "clear", "run"},
         NEW list \in Lists, NEW at \in 0..MaxEntries, Overnight!Step(p, does, list, at)
  PROVE  /\ cmd' \in [Commands -> [does : {"off", "done", "add", "clear", "run"},
                                   list : Lists, at : 0..MaxEntries]]
         /\ cmd'[p].does = does /\ cmd'[p].list = list /\ cmd'[p].at = at
         /\ \A q \in Commands : q # p => cmd'[q] = cmd[q]
  BY DEF NightTypes, Overnight!Step, cmd

LEMMA NoEntriesList == Overnight!NoEntries \in Lists /\ DOMAIN Overnight!NoEntries = {}
  <1>1. Overnight!NoEntries \in [{} -> Results] /\ DOMAIN Overnight!NoEntries = {}
    BY DEF Overnight!NoEntries
  <1>2. QED
    BY <1>1 DEF Lists

\* A list's entries and their results.
LEMMA ListTypes ==
  ASSUME NEW list \in Lists
  PROVE  /\ DOMAIN list \subseteq Entries
         /\ \A e \in DOMAIN list : list[e] \in Results
         /\ list = [e \in DOMAIN list |-> list[e]]
  BY DEF Lists

LEMMA NightNext == NightInv /\ [Overnight!Next]_(Overnight!qvars) => NightInv'
  <1> SUFFICES ASSUME NightInv, [Overnight!Next]_(Overnight!qvars)
               PROVE  NightInv'
    OBVIOUS
  <1>t. /\ NightTypes /\ HoldsFile /\ Lossless /\ Earned(book)
        /\ \A p \in Commands : AtFirst(p) /\ Earned(cmd[p].list) /\ DOMAIN cmd[p].list \subseteq 1..added
    BY DEF NightInv
  <1>r. \A p \in Commands : Overnight!Running(p) <=> Busy(p)
    BY <1>t DEF NightTypes, Overnight!Running, Busy, cmd
  <1>q. ASSUME NightTypes', HoldsFile', Lossless', Earned(book)',
               \A p \in Commands : (AtFirst(p) /\ Earned(cmd[p].list) /\ DOMAIN cmd[p].list \subseteq 1..added)'
        PROVE  NightInv'
    BY <1>q DEF NightInv
  <1>1. ASSUME NEW p \in Commands, NEW does \in {"add", "clear", "run"}, Overnight!Load(p, does)
        PROVE  NightInv'
    <2>1. /\ cmd[p].does = "off" /\ Overnight!Step(p, does, book, 0)
          /\ crossed' = (crossed \/ \E q \in Commands : Overnight!Running(q))
          /\ UNCHANGED <<book, added, cleared, did>>
      BY <1>1 DEF Overnight!Load, book, added, cleared, did, cmd, crossed
    <2>2. book \in Lists /\ 0 \in 0..MaxEntries
      BY <1>t, LocalAssumption DEF NightTypes
    <2>3. /\ cmd' \in [Commands -> [does : {"off", "done", "add", "clear", "run"},
                                    list : Lists, at : 0..MaxEntries]]
          /\ cmd'[p].does = does /\ cmd'[p].list = book /\ cmd'[p].at = 0
          /\ \A q \in Commands : q # p => cmd'[q] = cmd[q]
      BY <1>t, <2>1, <2>2, NightStep
    <2>4. NightTypes'
      BY <1>t, <2>1, <2>3 DEF NightTypes
    <2>5. \A q \in Commands : (AtFirst(q) /\ Earned(cmd[q].list) /\ DOMAIN cmd[q].list \subseteq 1..added)'
      <3>1. \A q \in Commands : AtFirst(q)'
        BY <1>t, <2>1, <2>3 DEF AtFirst
      <3>2. \A q \in Commands : Earned(cmd[q].list)'
        BY <1>t, <2>1, <2>3 DEF Earned
      <3>3. QED
        BY <1>t, <2>1, <2>3, <3>1, <3>2 DEF NightTypes
    <2>6. Earned(book)'
      BY <1>t, <2>1 DEF Earned
    <2>7. ~crossed' => ~crossed /\ \A q \in Commands : ~Busy(q)
      BY <1>r, <2>1
    <2>8. HoldsFile'
      <3>1. ~crossed' => \A q \in Commands : Busy(q)' => q = p
        BY <2>3, <2>7 DEF Busy
      <3>2. QED
        BY <2>1, <2>3, <3>1 DEF HoldsFile
    <2>9. Lossless'
      BY <1>t, <2>1, <2>7 DEF Lossless
    <2>10. QED
      BY <1>q, <2>4, <2>5, <2>6, <2>8, <2>9
  <1>2. ASSUME NEW p \in Commands, Overnight!Add(p) PROVE NightInv'
    <2> DEFINE list == cmd[p].list
    <2>1. /\ cmd[p].does = "add" /\ added < MaxEntries /\ added' = added + 1
          /\ book' = [e \in DOMAIN list \cup {added'} |-> IF e = added' THEN "pending" ELSE list[e]]
          /\ Overnight!Step(p, "done", Overnight!NoEntries, 0)
          /\ UNCHANGED <<cleared, did, crossed>>
      BY <1>2 DEF Overnight!Add, book, added, cleared, did, cmd, crossed
    <2>2. list \in Lists /\ DOMAIN list \subseteq 1..added /\ Earned(list)
      BY <1>t DEF NightTypes
    <2>3. /\ cmd' \in [Commands -> [does : {"off", "done", "add", "clear", "run"},
                                    list : Lists, at : 0..MaxEntries]]
          /\ cmd'[p].does = "done" /\ cmd'[p].list = Overnight!NoEntries /\ cmd'[p].at = 0
          /\ \A q \in Commands : q # p => cmd'[q] = cmd[q]
      BY <1>t, <2>1, NoEntriesList, NightStep, LocalAssumption
    <2> HIDE DEF list
    <2>a. added \in 0..MaxEntries /\ added' \in Entries /\ added' \notin 1..added
          /\ 1..added \subseteq 1..added' /\ 1..added' = 1..added \cup {added'}
      BY <1>t, <2>1, LocalAssumption DEF NightTypes, Entries
    <2>f. /\ book' \in Lists /\ DOMAIN book' = DOMAIN list \cup {added'}
          /\ \A e \in DOMAIN list : book'[e] = list[e]
          /\ book'[added'] = "pending"
      <3>1. \A e \in DOMAIN list : list[e] \in Results /\ e \in Entries
        BY <2>2, ListTypes
      <3>2. /\ DOMAIN book' = DOMAIN list \cup {added'}
            /\ \A e \in DOMAIN list : book'[e] = list[e]
            /\ book'[added'] = "pending"
        BY <2>1, <2>2, <2>a
      <3>3. book' \in [DOMAIN list \cup {added'} -> Results]
        BY <2>1, <3>1 DEF Results
      <3>4. QED
        BY <2>a, <3>1, <3>2, <3>3 DEF Lists
    <2>4. NightTypes'
      BY <1>t, <2>1, <2>2, <2>3, <2>a, <2>f DEF NightTypes, Entries
    <2>5. \A q \in Commands : (AtFirst(q) /\ Earned(cmd[q].list) /\ DOMAIN cmd[q].list \subseteq 1..added)'
      <3>1. \A q \in Commands : AtFirst(q)'
        BY <1>t, <2>1, <2>3 DEF AtFirst
      <3>2. \A q \in Commands : Earned(cmd[q].list)'
        BY <1>t, <2>1, <2>3, NoEntriesList DEF Earned
      <3>3. QED
        BY <1>t, <2>a, <2>3, <3>1, <3>2, NoEntriesList
    <2>6. Earned(book)'
      BY <2>1, <2>2, <2>f DEF Earned
    <2>7. ~crossed' => ~crossed /\ list = book /\ \A q \in Commands : ~Busy(q)'
      <3>1. Busy(p) /\ \A q \in Commands : Busy(q)' => q # p /\ Busy(q)
        BY <2>1, <2>3 DEF Busy
      <3>2. QED
        BY <1>t, <2>1, <3>1 DEF HoldsFile, list
    <2>h. HoldsFile'
      BY <2>7 DEF HoldsFile
    <2>8. did[added'] = "pending"
      BY <1>t, <2>a DEF NightTypes
    <2>9. ~crossed' => \A e \in 1..added' : (e \in cleared') # (e \in DOMAIN book')
      BY <1>t, <2>1, <2>2, <2>7, <2>a, <2>f DEF NightTypes, Lossless
    <2>10. ~crossed' => \A e \in DOMAIN book' :
                 did'[e] # book'[e] =>
                   /\ book'[e] = "pending"
                   /\ \A d \in DOMAIN book' : d < e => book'[d] # "pending"
      <3>1. \A e \in 1..added : ~(added' < e)
        BY <2>a
      <3>2. QED
        BY <1>t, <2>1, <2>2, <2>7, <2>f, <2>8, <3>1 DEF Lossless
    <2>11. Lossless'
      BY <1>t, <2>1, <2>7, <2>9, <2>10 DEF Lossless
    <2>12. QED
      BY <1>q, <2>4, <2>5, <2>6, <2>h, <2>11
  <1>3. ASSUME NEW p \in Commands, Overnight!ClearDone(p) PROVE NightInv'
    <2> DEFINE list == cmd[p].list
    <2>1. /\ cmd[p].does = "clear"
          /\ book' = Restrict(list, Overnight!Pending(list))
          /\ cleared' = cleared \cup (DOMAIN list \ DOMAIN book')
          /\ Overnight!Step(p, "done", Overnight!NoEntries, 0)
          /\ UNCHANGED <<added, did, crossed>>
      BY <1>3 DEF Overnight!ClearDone, Overnight!Restrict, Restrict, book, added, cleared, did, cmd, crossed
    <2>2. list \in Lists /\ DOMAIN list \subseteq 1..added /\ Earned(list)
      BY <1>t DEF NightTypes
    <2>3. /\ cmd' \in [Commands -> [does : {"off", "done", "add", "clear", "run"},
                                    list : Lists, at : 0..MaxEntries]]
          /\ cmd'[p].does = "done" /\ cmd'[p].list = Overnight!NoEntries /\ cmd'[p].at = 0
          /\ \A q \in Commands : q # p => cmd'[q] = cmd[q]
      BY <1>t, <2>1, NoEntriesList, NightStep, LocalAssumption
    <2> HIDE DEF list
    <2>f. /\ book' \in Lists /\ DOMAIN book' = {e \in DOMAIN list : list[e] = "pending"}
          /\ \A e \in DOMAIN book' : book'[e] = "pending"
      <3> DEFINE S == {e \in DOMAIN list : list[e] = "pending"}
      <3>1. S \in SUBSET Entries
        BY <2>2, ListTypes
      <3>2. book' = [e \in S |-> list[e]]
        BY <2>1 DEF Restrict, Overnight!Pending
      <3>3. book' \in [S -> Results] /\ DOMAIN book' = S /\ \A e \in S : book'[e] = "pending"
        BY <3>2 DEF Results
      <3>4. QED
        BY <3>1, <3>3 DEF Lists
    <2>4. NightTypes'
      <3>1. cleared' \subseteq 1..added'
        BY <1>t, <2>1, <2>2 DEF NightTypes
      <3>2. QED
        BY <1>t, <2>1, <2>2, <2>3, <2>f, <3>1 DEF NightTypes
    <2>5. \A q \in Commands : (AtFirst(q) /\ Earned(cmd[q].list) /\ DOMAIN cmd[q].list \subseteq 1..added)'
      <3>1. \A q \in Commands : AtFirst(q)'
        BY <1>t, <2>1, <2>3 DEF AtFirst
      <3>2. \A q \in Commands : Earned(cmd[q].list)'
        BY <1>t, <2>1, <2>3, NoEntriesList DEF Earned
      <3>3. QED
        BY <1>t, <2>1, <2>3, <3>1, <3>2, NoEntriesList
    <2>6. Earned(book)'
      BY <2>f DEF Earned
    <2>7. ~crossed' => ~crossed /\ list = book /\ \A q \in Commands : ~Busy(q)'
      <3>1. Busy(p) /\ \A q \in Commands : Busy(q)' => q # p /\ Busy(q)
        BY <2>1, <2>3 DEF Busy
      <3>2. QED
        BY <1>t, <2>1, <3>1 DEF HoldsFile, list
    <2>h. HoldsFile'
      BY <2>7 DEF HoldsFile
    <2>8. ~crossed' => \A e \in 1..added' : (e \in cleared') # (e \in DOMAIN book')
      BY <1>t, <2>1, <2>7, <2>f DEF Lossless
    <2>9. ~crossed' => \A e \in cleared' : did'[e] # "pending"
      BY <1>t, <2>1, <2>2, <2>7, <2>f DEF Earned, Lossless
    <2>10. ~crossed' => \A e \in DOMAIN book' :
                 did'[e] # book'[e] =>
                   /\ book'[e] = "pending"
                   /\ \A d \in DOMAIN book' : d < e => book'[d] # "pending"
      BY <1>t, <2>1, <2>7, <2>f DEF Lossless
    <2>11. Lossless'
      BY <2>8, <2>9, <2>10 DEF Lossless
    <2>12. QED
      BY <1>q, <2>4, <2>5, <2>6, <2>h, <2>11
  <1>4. ASSUME NEW p \in Commands, Overnight!RunEntry(p) PROVE NightInv'
    <2> DEFINE list == cmd[p].list
    <2>1. /\ cmd[p].does = "run" /\ cmd[p].at = 0
          /\ UNCHANGED <<book, added, cleared, crossed>>
      BY <1>4 DEF Overnight!RunEntry, book, added, cleared, cmd, crossed
    <2>2. list \in Lists /\ DOMAIN list \subseteq 1..added /\ Earned(list)
      BY <1>t DEF NightTypes
    <2>3. Earned(book) /\ UNCHANGED <<book, added, cleared, crossed>> /\ (~crossed => list = book)
      <3>1. Busy(p)
        BY <2>1 DEF Busy
      <3>2. QED
        BY <1>t, <2>1, <3>1 DEF HoldsFile
    <2>4. CASE Overnight!Step(p, "done", Overnight!NoEntries, 0) /\ UNCHANGED did
      <3>1. /\ cmd' \in [Commands -> [does : {"off", "done", "add", "clear", "run"},
                                      list : Lists, at : 0..MaxEntries]]
            /\ cmd'[p].does = "done" /\ cmd'[p].list = Overnight!NoEntries /\ cmd'[p].at = 0
            /\ \A q \in Commands : q # p => cmd'[q] = cmd[q]
        BY <1>t, <2>4, NoEntriesList, NightStep, LocalAssumption
      <3>2. NightTypes'
        BY <1>t, <2>1, <2>4, <3>1 DEF NightTypes
      <3>3. \A q \in Commands : (AtFirst(q) /\ Earned(cmd[q].list) /\ DOMAIN cmd[q].list \subseteq 1..added)'
        <4>1. \A q \in Commands : AtFirst(q)'
          BY <1>t, <2>1, <2>4, <3>1 DEF AtFirst
        <4>2. \A q \in Commands : Earned(cmd[q].list)'
          BY <1>t, <2>1, <2>4, <3>1, NoEntriesList DEF Earned
        <4>3. QED
          BY <1>t, <2>1, <3>1, <4>1, <4>2, NoEntriesList
      <3>4. Earned(book)'
        BY <2>3, <2>4 DEF Earned
      <3>5. HoldsFile'
        <4>1. \A q \in Commands : Busy(q)' => Busy(q) /\ cmd'[q].list = cmd[q].list
          BY <3>1 DEF Busy
        <4>2. QED
          BY <1>t, <2>1, <4>1 DEF HoldsFile
      <3>6. Lossless'
        BY <1>t, <2>1, <2>4 DEF Lossless
      <3>7. QED
        BY <1>q, <3>2, <3>3, <3>4, <3>5, <3>6
    <2>5. ASSUME NEW e \in Overnight!Pending(list), NEW end \in {"pass", "FAIL"},
                 \A d \in Overnight!Pending(list) : e <= d,
                 did' = [did EXCEPT ![e] = end], Overnight!Step(p, "run", list, e)
          PROVE  NightInv'
      <3> HIDE DEF list
      <3>e. /\ e \in DOMAIN list /\ list[e] = "pending" /\ e \in 1..added /\ e \in Entries
            /\ \A d \in DOMAIN list : d < e => list[d] # "pending"
        <4>1. e \in DOMAIN list /\ list[e] = "pending" /\ e \in 1..added /\ e \in Entries
          BY <1>t, <2>2, ListTypes DEF Overnight!Pending
        <4>2. \A d \in DOMAIN list : d \in Entries /\ (list[d] = "pending" => e <= d)
          BY <2>2, <2>5, ListTypes DEF Overnight!Pending
        <4>3. QED
          BY <4>1, <4>2, LocalAssumption DEF Entries
      <3>d. /\ did' \in [Entries -> Results] /\ did'[e] = end
            /\ \A d \in Entries : d # e => did'[d] = did[d]
        BY <1>t, <2>5, <3>e DEF NightTypes, Results
      <3>1. /\ cmd' \in [Commands -> [does : {"off", "done", "add", "clear", "run"},
                                      list : Lists, at : 0..MaxEntries]]
            /\ cmd'[p].does = "run" /\ cmd'[p].list = list /\ cmd'[p].at = e
            /\ \A q \in Commands : q # p => cmd'[q] = cmd[q]
        <4>1. e \in 0..MaxEntries
          BY <3>e DEF Entries
        <4>2. QED
          BY <1>t, <2>2, <2>5, <4>1, NightStep
      <3>2. NightTypes'
        <4>1. \A d \in Entries : d > added' => did'[d] = "pending"
          BY <1>t, <2>1, <3>d, <3>e DEF NightTypes
        <4>2. QED
          BY <1>t, <2>1, <3>d, <3>1, <4>1 DEF NightTypes
      <3>s. \A d \in Entries : did[d] # "pending" => did'[d] # "pending"
        BY <3>d
      <3>3. \A q \in Commands : AtFirst(q)'
        <4>1. AtFirst(p)'
          BY <2>1, <3>1, <3>d, <3>e DEF AtFirst
        <4>2. ASSUME NEW q \in Commands, q # p PROVE AtFirst(q)'
          <5>1. cmd'[q] = cmd[q] /\ cmd[q].list \in Lists /\ AtFirst(q)
            BY <1>t, <3>1, <4>2 DEF NightTypes
          <5>2. cmd[q].at # 0 => cmd[q].at \in Entries
            BY <5>1, ListTypes DEF AtFirst
          <5>3. QED
            BY <3>s, <5>1, <5>2 DEF AtFirst
        <4>3. QED
          BY <4>1, <4>2
      <3>4. \A q \in Commands : Earned(cmd[q].list)' /\ (DOMAIN cmd[q].list \subseteq 1..added)'
        <4>1. \A q \in Commands : cmd'[q].list = cmd[q].list
          BY <2>2, <3>1 DEF list
        <4>2. \A q \in Commands : Earned(cmd[q].list) /\ DOMAIN cmd[q].list \subseteq Entries
          BY <1>t, ListTypes DEF NightTypes
        <4>3. QED
          BY <1>t, <2>1, <3>s, <4>1, <4>2 DEF Earned
      <3>5. Earned(book)'
        <4>1. DOMAIN book \subseteq Entries
          BY <1>t, ListTypes DEF NightTypes
        <4>2. QED
          BY <2>1, <2>3, <3>s, <4>1 DEF Earned
      <3>6. HoldsFile'
        <4>1. \A q \in Commands : (Busy(q)' <=> Busy(q)) /\ cmd'[q].list = cmd[q].list
          BY <2>1, <3>1 DEF Busy, list
        <4>2. QED
          BY <1>t, <2>1, <4>1 DEF HoldsFile
      <3>7. ~crossed' => \A d \in cleared' : did'[d] # "pending"
        <4>1. cleared \subseteq Entries
          BY <1>t, LocalAssumption DEF NightTypes, Entries
        <4>2. QED
          BY <1>t, <2>1, <3>s, <4>1 DEF Lossless
      <3>8. ~crossed' => \A d \in DOMAIN book' :
                 did'[d] # book'[d] =>
                   /\ book'[d] = "pending"
                   /\ \A g \in DOMAIN book' : g < d => book'[g] # "pending"
        <4>1. ASSUME ~crossed', NEW d \in DOMAIN book', did'[d] # book'[d]
              PROVE  /\ book'[d] = "pending"
                     /\ \A g \in DOMAIN book' : g < d => book'[g] # "pending"
          <5>1. book' = list /\ book = list /\ ~crossed
            BY <2>1, <2>3, <4>1
          <5>2. CASE d = e
            BY <3>e, <5>1, <5>2
          <5>3. CASE d # e
            <6>1. d \in Entries
              BY <2>2, <4>1, <5>1, ListTypes
            <6>2. QED
              BY <1>t, <3>d, <4>1, <5>1, <5>3, <6>1 DEF Lossless
          <5>4. QED
            BY <5>2, <5>3
        <4>2. QED
          BY <4>1
      <3>9. ~crossed' => \A d \in 1..added' : (d \in cleared') # (d \in DOMAIN book')
        BY <1>t, <2>1 DEF Lossless
      <3>10. Lossless'
        BY <3>7, <3>8, <3>9 DEF Lossless
      <3>11. QED
        BY <1>q, <3>2, <3>3, <3>4, <3>5, <3>6, <3>10
    <2>6. QED
      BY <1>4, <2>4, <2>5 DEF Overnight!RunEntry, cmd, did
  <1>5. ASSUME NEW p \in Commands, Overnight!SaveEntry(p) PROVE NightInv'
    <2> DEFINE e == cmd[p].at
               old == cmd[p].list
               list == [old EXCEPT ![e] = did[e]]
    <2>1. /\ cmd[p].does = "run" /\ e # 0
          /\ Overnight!Step(p, "run", list, 0) /\ book' = list
          /\ UNCHANGED <<added, cleared, did, crossed>>
      BY <1>5 DEF Overnight!SaveEntry, book, added, cleared, did, cmd, crossed
    <2>2. /\ old \in Lists /\ DOMAIN old \subseteq 1..added /\ Earned(old)
          /\ e \in DOMAIN old /\ old[e] = "pending" /\ did[e] # "pending"
          /\ \A d \in DOMAIN old : d < e => old[d] # "pending"
      BY <1>t, <2>1 DEF NightTypes, AtFirst
    <2> HIDE DEF e, old
    <2>3. /\ list \in Lists /\ DOMAIN list = DOMAIN old /\ list[e] = did[e]
          /\ \A d \in DOMAIN old : d # e => list[d] = old[d]
      <3>1. DOMAIN old \subseteq Entries /\ \A d \in DOMAIN old : old[d] \in Results
        BY <2>2, ListTypes
      <3>2. did[e] \in Results
        BY <1>t, <2>2, <3>1 DEF NightTypes
      <3>3. /\ DOMAIN list = DOMAIN old /\ list[e] = did[e]
            /\ \A d \in DOMAIN old : d # e => list[d] = old[d]
        BY <2>2
      <3>4. list = [d \in DOMAIN old |-> list[d]]
        BY <2>2
      <3>5. list \in [DOMAIN old -> Results]
        BY <3>1, <3>2, <3>3, <3>4
      <3>6. QED
        BY <3>1, <3>3, <3>5 DEF Lists
    <2> HIDE DEF list
    <2>4. Earned(list)
      BY <2>2, <2>3 DEF Earned
    <2>5. /\ cmd' \in [Commands -> [does : {"off", "done", "add", "clear", "run"},
                                    list : Lists, at : 0..MaxEntries]]
          /\ cmd'[p].does = "run" /\ cmd'[p].list = list /\ cmd'[p].at = 0
          /\ \A q \in Commands : q # p => cmd'[q] = cmd[q]
      BY <1>t, <2>1, <2>3, NightStep, LocalAssumption
    <2>6. NightTypes'
      BY <1>t, <2>1, <2>2, <2>3, <2>5 DEF NightTypes
    <2>7. \A q \in Commands : (AtFirst(q) /\ Earned(cmd[q].list) /\ DOMAIN cmd[q].list \subseteq 1..added)'
      <3>1. \A q \in Commands : AtFirst(q)'
        BY <1>t, <2>1, <2>5 DEF AtFirst
      <3>2. \A q \in Commands : Earned(cmd[q].list)'
        BY <1>t, <2>1, <2>4, <2>5 DEF Earned
      <3>3. QED
        BY <1>t, <2>1, <2>2, <2>3, <2>5, <3>1, <3>2
    <2>8. Earned(book)'
      BY <2>1, <2>4 DEF Earned
    <2>9. Busy(p) /\ (~crossed' => ~crossed /\ old = book)
      <3>1. Busy(p)
        BY <2>1 DEF Busy
      <3>2. QED
        BY <1>t, <2>1, <3>1 DEF HoldsFile, old
    <2>10. HoldsFile'
      <3>1. \A q \in Commands : Busy(q)' <=> Busy(q)
        BY <2>1, <2>5 DEF Busy
      <3>2. QED
        BY <1>t, <2>1, <2>5, <2>9, <3>1 DEF HoldsFile
    <2>11. ~crossed' => \A d \in DOMAIN book' :
                 did'[d] # book'[d] =>
                   /\ book'[d] = "pending"
                   /\ \A g \in DOMAIN book' : g < d => book'[g] # "pending"
      <3>1. ASSUME ~crossed', NEW d \in DOMAIN book', did'[d] # book'[d]
            PROVE  FALSE
        <4>1. ~crossed /\ old = book /\ d \in DOMAIN old /\ d # e /\ did[d] # old[d]
          BY <2>1, <2>3, <2>9, <3>1
        <4>2. old[d] = "pending" /\ \A g \in DOMAIN old : g < d => old[g] # "pending"
          BY <1>t, <4>1 DEF Lossless
        <4>3. d \in 1..added /\ e \in 1..added /\ added \in Nat
          BY <1>t, <2>2, <4>1, LocalAssumption DEF NightTypes
        <4>4. QED
          BY <2>2, <4>1, <4>2, <4>3
      <3>2. QED
        BY <3>1
    <2>12. ~crossed' => /\ \A d \in 1..added' : (d \in cleared') # (d \in DOMAIN book')
                        /\ \A d \in cleared' : did'[d] # "pending"
      BY <1>t, <2>1, <2>3, <2>9 DEF Lossless
    <2>13. Lossless'
      BY <2>11, <2>12 DEF Lossless
    <2>14. QED
      BY <1>q, <2>6, <2>7, <2>8, <2>10, <2>13
  <1>6. ASSUME NEW p \in Commands, Overnight!Killed(p) PROVE NightInv'
    <2>1. /\ Busy(p)
          /\ Overnight!Step(p, "done", Overnight!NoEntries, 0)
          /\ UNCHANGED <<book, added, cleared, did, crossed>>
      BY <1>6, <1>r DEF Overnight!Killed, book, added, cleared, did, cmd, crossed
    <2>2. /\ cmd' \in [Commands -> [does : {"off", "done", "add", "clear", "run"},
                                    list : Lists, at : 0..MaxEntries]]
          /\ cmd'[p].does = "done" /\ cmd'[p].list = Overnight!NoEntries /\ cmd'[p].at = 0
          /\ \A q \in Commands : q # p => cmd'[q] = cmd[q]
      BY <1>t, <2>1, NoEntriesList, NightStep, LocalAssumption
    <2>3. NightTypes'
      BY <1>t, <2>1, <2>2 DEF NightTypes
    <2>4. \A q \in Commands : (AtFirst(q) /\ Earned(cmd[q].list) /\ DOMAIN cmd[q].list \subseteq 1..added)'
      <3>1. \A q \in Commands : AtFirst(q)'
        BY <1>t, <2>1, <2>2 DEF AtFirst
      <3>2. \A q \in Commands : Earned(cmd[q].list)'
        BY <1>t, <2>1, <2>2, NoEntriesList DEF Earned
      <3>3. QED
        BY <1>t, <2>1, <2>2, <3>1, <3>2, NoEntriesList
    <2>5. Earned(book)'
      BY <1>t, <2>1 DEF Earned
    <2>6. HoldsFile'
      <3>1. \A q \in Commands : Busy(q)' => Busy(q) /\ cmd'[q].list = cmd[q].list
        BY <2>2 DEF Busy
      <3>2. QED
        BY <1>t, <2>1, <3>1 DEF HoldsFile
    <2>7. Lossless'
      BY <1>t, <2>1 DEF Lossless
    <2>8. QED
      BY <1>q, <2>3, <2>4, <2>5, <2>6, <2>7
  <1>7. ASSUME UNCHANGED Overnight!qvars PROVE NightInv'
    <2>1. UNCHANGED <<book, added, cleared, did, cmd, crossed>>
      BY <1>7 DEF Overnight!qvars, book, added, cleared, did, cmd, crossed
    <2>2. NightTypes' /\ HoldsFile' /\ Lossless'
      BY <1>t, <2>1 DEF NightTypes, HoldsFile, Lossless, Busy
    <2>3. /\ Earned(book)'
          /\ \A p \in Commands : (AtFirst(p) /\ Earned(cmd[p].list) /\ DOMAIN cmd[p].list \subseteq 1..added)'
      BY <1>t, <2>1 DEF AtFirst, Earned
    <2>4. QED
      BY <1>q, <2>2, <2>3
  <1>8. QED
    BY <1>1, <1>2, <1>3, <1>4, <1>5, <1>6, <1>7 DEF Overnight!Next

LEMMA NightHolds == NightInv => Overnight!ResultIsEarned /\ Overnight!NothingIsLost
  BY DEF NightInv, Earned, Lossless, Overnight!ResultIsEarned, Overnight!NothingIsLost,
         book, did, cleared, added, crossed

-----------------------------------------------------------------------------
(* Taking on a teacher (Onboard).                                          *)

tested == v1
saved == v2
agent == v3
launched == v4
caches == v5
lost == v7
reset == v8

Order == Teacher!Steps
Out == {"waiting", "running"}
Tools == {"probe-init", "stream-score", "kl cache"}

\* A step's entry in onboard.json.
Entry(e) == /\ DOMAIN e = {"is", "run", "tool", "same"}
            /\ e.is \in {"pending", "running", "done", "blocked", "failed"}
Entered(steps) == DOMAIN steps = Teacher!Names /\ \A s \in Teacher!Names : Entry(steps[s])

Launches ==
  /\ launched \in Seq([step : Teacher!GpuSteps, tool : Tools,
                       is : Out \cup {"completed", "failed", "deferred"}])
  /\ caches \in [Teacher!CacheSteps -> Nat]

TeacherTypes ==
  /\ Entered(saved)
  /\ agent # Teacher!Idle =>
       /\ DOMAIN agent = {"at", "launch", "profiled", "steps"}
       /\ agent.at \in 2..6 /\ Entered(agent.steps)
  /\ Launches

Bytes(i, runs) == IF ~tested.exact THEN 3 + i ELSE IF runs[i].tool = "kl cache" THEN 3 ELSE 2

\* A step that is out has every step before it settled, and is a run's.
InOneOrder(steps) ==
  /\ \A s \in Teacher!Names : steps[s].is = "running" => s \in Teacher!GpuSteps
  /\ \A k, l \in 2..6 : l < k /\ steps[Order[k]].is = "running" => steps[Order[l]].is \in Teacher!Settled

\* A run that is out is one its step knows of.
KnownRuns(steps, runs) ==
  \A i \in DOMAIN runs : runs[i].is \in Out => steps[runs[i].step].is = "running" /\ steps[runs[i].step].run = i

\* A cache that is out or done is the work of the run its step names.
Traced(s, e, runs, folders) ==
  e.is \in {"running", "done"} =>
    /\ e.run \in DOMAIN runs /\ runs[e.run].step = s
    /\ runs[e.run].tool = e.tool /\ e.tool \in {"stream-score", "kl cache"}
    /\ runs[e.run].is = "completed" => folders[s] = Bytes(e.run, runs)
    /\ e.is = "done" => runs[e.run].is = "completed"

Compared(steps, folders) ==
  steps["determinism"].is = "done" =>
    /\ \A s \in Teacher!CacheSteps : steps[s].is = "done"
    /\ steps["determinism"].same <=> folders["cache_a"] = folders["cache_b"]

Sound(steps, runs, folders) ==
  /\ InOneOrder(steps) /\ KnownRuns(steps, runs) /\ Compared(steps, folders)
  /\ \A s \in Teacher!CacheSteps : Traced(s, steps[s], runs, folders)

\* The steps before the one at hand are settled.
SettledUpTo(steps, at) == \A k \in 2..6 : k < at => steps[Order[k]].is \in Teacher!Settled

TeacherInv ==
  /\ TeacherTypes
  /\ ~lost /\ ~reset =>
       /\ Sound(saved, launched, caches)
       /\ agent # Teacher!Idle => /\ Sound(agent.steps, launched, caches)
                                  /\ SettledUpTo(agent.steps, agent.at)

LEMMA StepOrder ==
  /\ Order[1] = "profile" /\ Order[2] = "loader" /\ Order[3] = "cache_a" /\ Order[4] = "cache_b"
  /\ Order[5] = "determinism" /\ Order[6] = "init_sweep"
  /\ Len(Order) = 6 /\ DOMAIN Order = 1..6
  /\ Teacher!Names = {"profile", "loader", "cache_a", "cache_b", "determinism", "init_sweep"}
  /\ Teacher!GpuSteps = {"cache_a", "cache_b", "init_sweep"} /\ Teacher!CacheSteps = {"cache_a", "cache_b"}
  <1>1. /\ Order[1] = "profile" /\ Order[2] = "loader" /\ Order[3] = "cache_a" /\ Order[4] = "cache_b"
        /\ Order[5] = "determinism" /\ Order[6] = "init_sweep"
        /\ Len(Order) = 6 /\ DOMAIN Order = 1..6
    BY DEF Order, Teacher!Steps
  <1>2. 1..6 = {1, 2, 3, 4, 5, 6}
    OBVIOUS
  <1>3. Teacher!Names = {Order[i] : i \in 1..6}
    BY <1>1 DEF Order, Teacher!Names
  <1>4. QED
    BY <1>1, <1>2, <1>3 DEF Teacher!GpuSteps, Teacher!CacheSteps

\* The order's places are the steps' own.
LEMMA OrderPlaces ==
  /\ \A k, l \in 2..6 : Order[k] = Order[l] => k = l
  /\ \A k \in 2..6 : Order[k] \in Teacher!Names
  /\ \A s \in Teacher!GpuSteps : \E k \in 2..6 : Order[k] = s
  <1>1. 2..6 = {2, 3, 4, 5, 6}
    OBVIOUS
  <1>2. QED
    BY <1>1, StepOrder

\* Two runs are not out at once, and no step past one that is due is out.
LEMMA OneIsOut ==
  ASSUME NEW steps, NEW runs, InOneOrder(steps), KnownRuns(steps, runs),
         \A i \in DOMAIN runs : runs[i].step \in Teacher!GpuSteps,
         NEW i \in DOMAIN runs, NEW j \in DOMAIN runs, runs[i].is \in Out, runs[j].is \in Out
  PROVE  i = j
  <1>1. PICK k \in 2..6 : Order[k] = runs[i].step
    BY OrderPlaces
  <1>2. PICK l \in 2..6 : Order[l] = runs[j].step
    BY OrderPlaces
  <1>3. /\ steps[Order[k]].is = "running" /\ steps[Order[k]].run = i
        /\ steps[Order[l]].is = "running" /\ steps[Order[l]].run = j
    BY <1>1, <1>2 DEF KnownRuns
  <1>4. ~(l < k) /\ ~(k < l)
    BY <1>3 DEF InOneOrder, Teacher!Settled
  <1>5. k = l
    BY <1>4
  <1>6. QED
    BY <1>3, <1>5

LEMMA NoneIsOut ==
  ASSUME NEW steps, NEW runs, InOneOrder(steps), KnownRuns(steps, runs),
         \A i \in DOMAIN runs : runs[i].step \in Teacher!GpuSteps,
         NEW at \in 2..6, SettledUpTo(steps, at), steps[Order[at]].is \notin Teacher!Settled,
         NEW i \in DOMAIN runs, runs[i].is \in Out
  PROVE  runs[i].step = Order[at] /\ steps[Order[at]].is = "running"
  <1>1. PICK k \in 2..6 : Order[k] = runs[i].step
    BY OrderPlaces
  <1>2. steps[Order[k]].is = "running"
    BY <1>1 DEF KnownRuns
  <1>3. ~(at < k) /\ ~(k < at)
    BY <1>2 DEF InOneOrder, SettledUpTo, Teacher!Settled
  <1>4. k = at
    BY <1>3
  <1>5. QED
    BY <1>1, <1>2, <1>4

\* The entry of the step at hand is replaced, maybe with a run begun.
LEMMA PutKeeps ==
  ASSUME NEW steps, NEW runs, NEW folders, NEW at \in 2..6, NEW e, NEW after,
         Entered(steps), Sound(steps, runs, folders), SettledUpTo(steps, at),
         steps[Order[at]].is \notin Teacher!Settled, Entry(e),
         e.is = "running" => Order[at] \in Teacher!GpuSteps,
         \A i \in DOMAIN runs : i \in DOMAIN after /\ after[i] = runs[i],
         \A i \in DOMAIN runs : runs[i].step \in Teacher!GpuSteps,
         \A i \in DOMAIN after : after[i].is \in Out /\ (i \in DOMAIN runs => after[i].step = Order[at]) =>
             after[i].step = Order[at] /\ e.is = "running" /\ e.run = i,
         Order[at] \in Teacher!CacheSteps => Traced(Order[at], e, after, folders),
         Order[at] = "determinism" /\ e.is = "done" =>
           /\ \A s \in Teacher!CacheSteps : steps[s].is = "done"
           /\ e.same <=> folders["cache_a"] = folders["cache_b"]
  PROVE  /\ Entered([steps EXCEPT ![Order[at]] = e])
         /\ Sound([steps EXCEPT ![Order[at]] = e], after, folders)
         /\ e.is \in Teacher!Settled => SettledUpTo([steps EXCEPT ![Order[at]] = e], at + 1)
  <1> DEFINE s == Order[at]
             new == [steps EXCEPT ![s] = e]
  <1>s. s \in Teacher!Names /\ \A k \in 2..6 : k # at => Order[k] # s
    BY OrderPlaces
  <1>n. DOMAIN new = Teacher!Names /\ new[s] = e /\ \A x \in Teacher!Names : x # s => new[x] = steps[x]
    BY <1>s DEF Entered
  <1>p. /\ InOneOrder(steps) /\ KnownRuns(steps, runs) /\ Compared(steps, folders)
        /\ \A x \in Teacher!CacheSteps : Traced(x, steps[x], runs, folders)
    BY DEF Sound
  <1>o. s = Order[at] /\ steps[s].is \notin Teacher!Settled
    OBVIOUS
  <1> HIDE DEF new, s
  <1>c. "cache_a" \in Teacher!Names /\ "cache_b" \in Teacher!Names /\ "determinism" \in Teacher!Names
        /\ Teacher!CacheSteps = {"cache_a", "cache_b"}
    BY StepOrder
  <1>1. Entered(new)
    BY <1>n DEF Entered
  <1>2. InOneOrder(new)
    <2>1. \A x \in Teacher!Names : new[x].is = "running" => x \in Teacher!GpuSteps
      BY <1>n, <1>o, <1>p DEF InOneOrder
    <2>2. ASSUME NEW k \in 2..6, NEW l \in 2..6, l < k, new[Order[k]].is = "running"
          PROVE  new[Order[l]].is \in Teacher!Settled
      <3>1. CASE k = at
        BY <1>n, <1>o, <1>s, <2>2, <3>1, OrderPlaces DEF SettledUpTo
      <3>2. CASE k # at
        <4>1. steps[Order[k]].is = "running"
          BY <1>n, <1>s, <2>2, <3>2, OrderPlaces
        <4>2. l # at /\ steps[Order[l]].is \in Teacher!Settled
          BY <1>o, <1>p, <2>2, <4>1 DEF InOneOrder
        <4>3. QED
          BY <1>n, <1>s, <4>2, OrderPlaces
      <3>3. QED
        BY <3>1, <3>2
    <2>3. QED
      BY <2>1, <2>2 DEF InOneOrder
  <1>3. KnownRuns(new, after)
    <2>1. ASSUME NEW i \in DOMAIN after, after[i].is \in Out
          PROVE  new[after[i].step].is = "running" /\ new[after[i].step].run = i
      <3>1. CASE i \in DOMAIN runs => after[i].step = s
        BY <1>n, <1>o, <2>1, <3>1
      <3>2. CASE i \in DOMAIN runs /\ after[i].step # s
        <4>1. runs[i].step = Order[at] /\ after[i] = runs[i]
          BY <1>o, <1>p, <2>1, <3>2, NoneIsOut
        <4>2. QED
          BY <1>o, <3>2, <4>1
      <3>3. QED
        BY <3>1, <3>2
    <2>2. QED
      BY <2>1 DEF KnownRuns
  <1>4. Compared(new, folders)
    <2>1. CASE s = "determinism"
      BY <1>c, <1>n, <1>o, <2>1 DEF Compared
    <2>2. CASE s # "determinism"
      <3>1. new["determinism"] = steps["determinism"]
        BY <1>c, <1>n, <2>2
      <3>2. CASE steps["determinism"].is = "done"
        <4>1. \A x \in Teacher!CacheSteps : steps[x].is = "done" /\ x # s
          BY <1>o, <1>p, <3>2 DEF Compared, Teacher!Settled
        <4>2. \A x \in Teacher!CacheSteps : new[x] = steps[x]
          BY <1>c, <1>n, <4>1
        <4>3. QED
          BY <1>p, <3>1, <3>2, <4>1, <4>2 DEF Compared
      <3>3. QED
        BY <3>1, <3>2 DEF Compared
    <2>3. QED
      BY <2>1, <2>2
  <1>5. ASSUME NEW x \in Teacher!CacheSteps PROVE Traced(x, new[x], after, folders)
    <2>1. CASE x = s
      BY <1>n, <1>o, <1>s, <2>1
    <2>2. CASE x # s
      <3>1. new[x] = steps[x] /\ Traced(x, steps[x], runs, folders)
        BY <1>c, <1>n, <1>p, <2>2
      <3>2. ASSUME steps[x].is \in {"running", "done"}
            PROVE  /\ steps[x].run \in DOMAIN after /\ after[steps[x].run] = runs[steps[x].run]
                   /\ Bytes(steps[x].run, after) = Bytes(steps[x].run, runs)
        <4>1. steps[x].run \in DOMAIN runs
          BY <3>1, <3>2 DEF Traced
        <4>2. QED
          BY <4>1 DEF Bytes
      <3> DEFINE was == steps[x]
      <3>3. CASE was.is \in {"running", "done"}
        <4>1. /\ runs[was.run].step = x
              /\ runs[was.run].tool = was.tool /\ was.tool \in {"stream-score", "kl cache"}
              /\ runs[was.run].is = "completed" => folders[x] = Bytes(was.run, runs)
              /\ was.is = "done" => runs[was.run].is = "completed"
          BY <3>1, <3>3 DEF Traced
        <4>2. was.run \in DOMAIN after /\ after[was.run] = runs[was.run]
              /\ Bytes(was.run, after) = Bytes(was.run, runs)
          BY <3>2, <3>3
        <4> HIDE DEF was
        <4>3. Traced(x, was, after, folders)
          BY <4>1, <4>2 DEF Traced
        <4>4. QED
          BY <3>1, <4>3 DEF was
      <3>4. CASE was.is \notin {"running", "done"}
        BY <3>1, <3>4 DEF Traced
      <3>5. QED
        BY <3>3, <3>4
    <2>3. QED
      BY <2>1, <2>2
  <1>6. ASSUME e.is \in Teacher!Settled PROVE SettledUpTo(new, at + 1)
    <2>1. ASSUME NEW k \in 2..6, k < at + 1 PROVE new[Order[k]].is \in Teacher!Settled
      <3>1. CASE k = at
        BY <1>6, <1>n, <1>o, <3>1
      <3>2. CASE k # at
        <4>1. k < at
          BY <2>1, <3>2
        <4>2. QED
          BY <1>n, <1>s, <3>2, <4>1, OrderPlaces DEF SettledUpTo
      <3>3. QED
        BY <3>1, <3>2
    <2>2. QED
      BY <2>1 DEF SettledUpTo
  <1>7. QED
    BY <1>1, <1>2, <1>3, <1>4, <1>5, <1>6 DEF new, s, Sound

LEMMA SoundNext ==
  ASSUME UNCHANGED tested, Sound(saved', launched', caches')
  PROVE  Sound(saved, launched, caches)'
  <1>1. InOneOrder(saved)' /\ KnownRuns(saved, launched)' /\ Compared(saved, caches)'
    BY DEF Sound, InOneOrder, KnownRuns, Compared
  <1>2. ASSUME NEW s \in Teacher!CacheSteps PROVE Traced(s, saved[s], launched, caches)'
    <2>1. Traced(s, saved'[s], launched', caches')
      BY DEF Sound
    <2>2. \A i : Bytes(i, launched)' = Bytes(i, launched')
      BY DEF Bytes
    <2>3. QED
      BY <2>1, <2>2 DEF Traced
  <1>3. QED
    BY <1>1, <1>2 DEF Sound

LEMMA SoundNextAgent ==
  ASSUME UNCHANGED tested, Sound(agent'.steps, launched', caches')
  PROVE  Sound(agent.steps, launched, caches)'
  <1>1. InOneOrder(agent.steps)' /\ KnownRuns(agent.steps, launched)' /\ Compared(agent.steps, caches)'
    BY DEF Sound, InOneOrder, KnownRuns, Compared
  <1>2. ASSUME NEW s \in Teacher!CacheSteps PROVE Traced(s, agent.steps[s], launched, caches)'
    <2>1. Traced(s, agent'.steps[s], launched', caches')
      BY DEF Sound
    <2>2. \A i : Bytes(i, launched)' = Bytes(i, launched')
      BY DEF Bytes
    <2>3. QED
      BY <2>1, <2>2 DEF Traced
  <1>3. QED
    BY <1>1, <1>2 DEF Sound

LEMMA TeacherInit == Teacher!Init => TeacherInv
  <1> SUFFICES ASSUME Teacher!Init PROVE TeacherInv
    OBVIOUS
  <1>1. /\ saved = [s \in Teacher!Names |-> Teacher!Pending] /\ agent = Teacher!Idle /\ launched = <<>>
        /\ caches = [s \in Teacher!CacheSteps |-> 0]
    BY DEF Teacher!Init, saved, agent, launched, caches
  <1>2. Entered(saved) /\ \A s \in Teacher!Names : saved[s].is = "pending"
    BY <1>1 DEF Entered, Entry, Teacher!Pending
  <1>3. TeacherTypes
    BY <1>1, <1>2 DEF TeacherTypes, Launches
  <1>4. \A k \in 2..6 : Order[k] \in Teacher!Names
    BY OrderPlaces
  <1>5. InOneOrder(saved) /\ KnownRuns(saved, launched) /\ Compared(saved, caches)
    BY <1>1, <1>2, <1>4, StepOrder DEF InOneOrder, KnownRuns, Compared
  <1>6. \A s \in Teacher!CacheSteps : Traced(s, saved[s], launched, caches)
    BY <1>2, StepOrder DEF Traced
  <1>7. QED
    BY <1>1, <1>3, <1>5, <1>6 DEF TeacherInv, Sound

\* What a command saves is sound, and where it goes on all before is settled.
LEMMA SaveKeeps ==
  ASSUME TeacherTypes, agent # Teacher!Idle, NEW steps, Entered(steps), NEW on, Teacher!Save(steps, on),
         UNCHANGED tested, Launches',
         ~lost' /\ ~reset' => /\ Sound(steps, launched', caches')
                              /\ on => SettledUpTo(steps, agent.at + 1)
  PROVE  TeacherInv'
  <1>1. /\ saved' = steps
        /\ agent' = IF on /\ agent.at < 6 THEN [agent EXCEPT !.at = agent.at + 1, !.steps = steps]
                    ELSE Teacher!Idle
    BY StepOrder DEF Teacher!Save, Order, saved, agent
  <1>2. /\ DOMAIN agent = {"at", "launch", "profiled", "steps"} /\ agent.at \in 2..6
    BY DEF TeacherTypes
  <1>3. CASE on /\ agent.at < 6
    <2>1. /\ DOMAIN agent' = {"at", "launch", "profiled", "steps"}
          /\ agent'.at = agent.at + 1 /\ agent'.steps = steps /\ agent'.at \in 2..6
      BY <1>1, <1>2, <1>3
    <2>2. TeacherTypes'
      BY <1>1, <2>1 DEF TeacherTypes, Entered
    <2>3. ~lost' /\ ~reset' => /\ Sound(saved, launched, caches)' /\ Sound(agent.steps, launched, caches)'
      BY <1>1, <2>1, SoundNext, SoundNextAgent
    <2>4. ~lost' /\ ~reset' => SettledUpTo(agent.steps, agent.at)'
      BY <1>3, <2>1 DEF SettledUpTo
    <2>5. QED
      BY <2>2, <2>3, <2>4 DEF TeacherInv
  <1>4. CASE ~(on /\ agent.at < 6)
    <2>1. agent' = Teacher!Idle
      BY <1>1, <1>4
    <2>2. TeacherTypes'
      BY <1>1, <2>1 DEF TeacherTypes, Entered
    <2>3. ~lost' /\ ~reset' => Sound(saved, launched, caches)'
      BY <1>1, SoundNext
    <2>4. QED
      BY <2>1, <2>2, <2>3 DEF TeacherInv
  <1>5. QED
    BY <1>3, <1>4

LEMMA LaunchedSteps ==
  ASSUME Launches, NEW i \in DOMAIN launched
  PROVE  launched[i].step \in Teacher!GpuSteps
  <1> DEFINE R == [step : Teacher!GpuSteps, tool : Tools, is : Out \cup {"completed", "failed", "deferred"}]
  <1>1. launched \in Seq(R)
    BY DEF Launches
  <1>2. \A r \in R : r.step \in Teacher!GpuSteps
    OBVIOUS
  <1> HIDE DEF R
  <1>3. QED
    BY <1>1, <1>2

\* The step at hand gets another entry, and no run begins.
LEMMA EntryKeeps ==
  ASSUME TeacherInv, Teacher!Due, NEW e, Entry(e), NEW on,
         Teacher!Save([agent.steps EXCEPT ![Order[agent.at]] = e], on),
         UNCHANGED <<tested, launched, caches, lost, reset>>,
         on => e.is \in Teacher!Settled,
         e.is = "running" => /\ agent.steps[Order[agent.at]].is = "running"
                             /\ e.run = agent.steps[Order[agent.at]].run,
         \A i \in DOMAIN launched :
           launched[i].is \in Out /\ launched[i].step = Order[agent.at]
             /\ agent.steps[Order[agent.at]].is = "running" /\ agent.steps[Order[agent.at]].run = i
           => e.is = "running",
         Order[agent.at] \in Teacher!CacheSteps /\ e.is \in {"running", "done"} =>
           /\ agent.steps[Order[agent.at]].is = "running"
           /\ e.run = agent.steps[Order[agent.at]].run /\ e.tool = agent.steps[Order[agent.at]].tool
           /\ e.is = "done" => launched[e.run].is = "completed",
         ~lost /\ ~reset /\ Order[agent.at] = "determinism" /\ e.is = "done" =>
           /\ \A s \in Teacher!CacheSteps : agent.steps[s].is = "done"
           /\ e.same <=> caches["cache_a"] = caches["cache_b"]
  PROVE  TeacherInv'
  <1> DEFINE at == agent.at
             s == Order[at]
             new == [agent.steps EXCEPT ![s] = e]
  <1>1. TeacherTypes /\ agent # Teacher!Idle /\ at \in 2..6 /\ Entered(agent.steps)
        /\ agent.steps[s].is \notin Teacher!Settled
    BY DEF TeacherInv, TeacherTypes, Teacher!Due, Teacher!Now, Teacher!Step, Order, agent
  <1>2. Launches' /\ \A i \in DOMAIN launched : launched[i].step \in Teacher!GpuSteps
    <2>1. Launches
      BY <1>1 DEF TeacherTypes
    <2>2. QED
      BY <2>1, LaunchedSteps DEF Launches
  <1>3. Entered(new)
    BY <1>1, OrderPlaces DEF Entered
  <1>4. ASSUME ~lost', ~reset'
        PROVE  Sound(new, launched', caches') /\ (on => SettledUpTo(new, at + 1))
    <2>1. ~lost /\ ~reset /\ Sound(agent.steps, launched, caches) /\ SettledUpTo(agent.steps, at)
      BY <1>1, <1>4 DEF TeacherInv
    <2>2. /\ InOneOrder(agent.steps) /\ KnownRuns(agent.steps, launched)
          /\ \A x \in Teacher!CacheSteps : Traced(x, agent.steps[x], launched, caches)
      BY <2>1 DEF Sound
    <2>3. e.is = "running" => s \in Teacher!GpuSteps
      BY <1>1, <2>2, OrderPlaces DEF InOneOrder
    <2>4. \A i \in DOMAIN launched : launched[i].is \in Out /\ launched[i].step = s => e.is = "running" /\ e.run = i
      <3>1. ASSUME NEW i \in DOMAIN launched, launched[i].is \in Out, launched[i].step = s
            PROVE  agent.steps[s].is = "running" /\ agent.steps[s].run = i
        BY <2>2, <3>1 DEF KnownRuns
      <3>2. QED
        BY <3>1
    <2>5. s \in Teacher!CacheSteps => Traced(s, e, launched, caches)
      <3>1. ASSUME s \in Teacher!CacheSteps, e.is \in {"running", "done"}
            PROVE  /\ e.run \in DOMAIN launched /\ launched[e.run].step = s
                   /\ launched[e.run].tool = e.tool /\ e.tool \in {"stream-score", "kl cache"}
                   /\ launched[e.run].is = "completed" => caches[s] = Bytes(e.run, launched)
        <4> DEFINE was == agent.steps[s]
        <4>1. Traced(s, was, launched, caches) /\ was.is = "running" /\ e.run = was.run /\ e.tool = was.tool
          BY <2>2, <3>1
        <4> HIDE DEF was
        <4>2. QED
          BY <4>1 DEF Traced
      <3>2. QED
        BY <3>1 DEF Traced
    <2> HIDE DEF at, new
    <2>6. /\ Sound(new, launched, caches)
          /\ e.is \in Teacher!Settled => SettledUpTo(new, at + 1)
      BY <1>1, <1>2, <2>1, <2>3, <2>4, <2>5, PutKeeps DEF new, at
    <2>7. QED
      BY <2>6
  <1> HIDE DEF at, new, s
  <1>5. Teacher!Save(new, on)
    BY DEF new, s, at
  <1>6. QED
    BY <1>1, <1>2, <1>3, <1>4, <1>5, SaveKeeps DEF at

LEMMA TeacherStarts ==
  ASSUME TeacherInv, NEW launch, NEW profiled, NEW redo \in {"none", "cache_a"},
         Teacher!Start(launch, redo, profiled)
  PROVE  TeacherInv'
  <1> DEFINE steps == [saved EXCEPT !["profile"].is = IF profiled THEN "done" ELSE "failed"]
             new == IF redo = "none" THEN steps ELSE [steps EXCEPT ![redo] = Teacher!Pending]
  <1>1. /\ agent' = [at |-> 2, launch |-> launch, profiled |-> profiled, steps |-> new]
        /\ ~reset' => /\ ~reset
                      /\ redo = "cache_a" => /\ \A s \in Teacher!GpuSteps : saved[s].is # "running"
                                             /\ saved["determinism"].is # "done"
        /\ UNCHANGED <<tested, saved, launched, caches, lost>>
    BY StepOrder DEF Teacher!Start, tested, saved, agent, launched, caches, lost, reset
  <1>2. Entered(saved) /\ Launches
    BY DEF TeacherInv, TeacherTypes
  <1>3. /\ DOMAIN steps = Teacher!Names /\ Entry(steps["profile"]) /\ steps["profile"].is # "running"
        /\ \A s \in Teacher!Names : s # "profile" => steps[s] = saved[s]
    BY <1>2, StepOrder DEF Entered, Entry
  <1> HIDE DEF steps
  <1>4. /\ Entered(new) /\ new["profile"].is # "running"
        /\ \A s \in Teacher!Names : s # "profile" =>
             new[s] = saved[s] \/ (redo = "cache_a" /\ s = "cache_a" /\ new[s].is = "pending")
    BY <1>2, <1>3, StepOrder, ZenonT(40) DEF Entered, Entry, Teacher!Pending
  <1> HIDE DEF new
  <1>5. /\ agent'.at = 2 /\ agent'.steps = new /\ DOMAIN agent' = {"at", "launch", "profiled", "steps"}
    BY <1>1
  <1>6. TeacherTypes'
    BY <1>1, <1>2, <1>4, <1>5 DEF TeacherTypes, Launches, Entered
  <1>7. ASSUME ~lost', ~reset' PROVE Sound(new, launched, caches) /\ Sound(saved, launched, caches)
    <2>1. Sound(saved, launched, caches)
      BY <1>1, <1>7 DEF TeacherInv
    <2>2. /\ InOneOrder(saved) /\ KnownRuns(saved, launched) /\ Compared(saved, caches)
          /\ \A x \in Teacher!CacheSteps : Traced(x, saved[x], launched, caches)
      BY <2>1 DEF Sound
    <2>3. \A s \in Teacher!Names : new[s].is = "running" => s \in Teacher!GpuSteps /\ saved[s].is = "running" /\ redo # "cache_a"
      BY <1>1, <1>4, <1>7, <2>2 DEF InOneOrder
    <2>4. \A k \in 2..6 : Order[k] \in Teacher!Names /\ Order[k] # "profile"
      <3>1. 2..6 = {2, 3, 4, 5, 6}
        OBVIOUS
      <3>2. QED
        BY <3>1, StepOrder
    <2>5. InOneOrder(new)
      <3>1. ASSUME NEW k \in 2..6, NEW l \in 2..6, l < k, new[Order[k]].is = "running"
            PROVE  new[Order[l]].is \in Teacher!Settled
        <4>1. saved[Order[k]].is = "running" /\ redo # "cache_a"
          BY <2>3, <2>4, <3>1
        <4>2. new[Order[l]] = saved[Order[l]]
          BY <1>4, <2>4, <4>1
        <4>3. QED
          BY <2>2, <3>1, <4>1, <4>2 DEF InOneOrder
      <3>2. QED
        BY <2>3, <3>1 DEF InOneOrder
    <2>6. KnownRuns(new, launched)
      <3>1. ASSUME NEW i \in DOMAIN launched, launched[i].is \in Out
            PROVE  new[launched[i].step].is = "running" /\ new[launched[i].step].run = i
        <4>1. /\ saved[launched[i].step].is = "running" /\ saved[launched[i].step].run = i
              /\ launched[i].step \in Teacher!GpuSteps
          BY <1>2, <2>2, <3>1, LaunchedSteps DEF KnownRuns
        <4>2. redo # "cache_a" /\ launched[i].step \in Teacher!Names /\ launched[i].step # "profile"
          BY <1>1, <1>7, <4>1, StepOrder
        <4>3. QED
          BY <1>4, <4>1, <4>2
      <3>2. QED
        BY <3>1 DEF KnownRuns
    <2>7. Compared(new, caches)
      <3>1. CASE redo = "cache_a"
        BY <1>1, <1>4, <1>7, <3>1, StepOrder DEF Compared
      <3>2. CASE redo # "cache_a"
        <4>1. \A s \in Teacher!CacheSteps \cup {"determinism"} : new[s] = saved[s]
          BY <1>4, <3>2, StepOrder
        <4>2. QED
          BY <2>2, <4>1 DEF Compared
      <3>3. QED
        BY <3>1, <3>2
    <2>8. ASSUME NEW x \in Teacher!CacheSteps PROVE Traced(x, new[x], launched, caches)
      <3>1. CASE new[x] = saved[x]
        BY <2>2, <3>1
      <3>2. CASE new[x].is = "pending"
        BY <3>2 DEF Traced
      <3>3. QED
        BY <1>4, <3>1, <3>2, StepOrder
    <2>9. QED
      BY <2>1, <2>5, <2>6, <2>7, <2>8 DEF Sound
  <1>8. ~lost' /\ ~reset' => Sound(saved, launched, caches)' /\ Sound(agent.steps, launched, caches)'
    BY <1>1, <1>5, <1>7, SoundNext, SoundNextAgent
  <1>9. SettledUpTo(agent.steps, agent.at)'
    BY <1>5 DEF SettledUpTo
  <1>10. QED
    BY <1>6, <1>8, <1>9 DEF TeacherInv

\* A run that starts or ends keeps what is said of any steps sound.
LEMMA RunKeeps ==
  ASSUME Launches, NEW i \in DOMAIN launched, launched[i].is \in Out, NEW how \in {"running", "completed", "failed", "deferred"},
         launched' = [launched EXCEPT ![i].is = how],
         caches' = IF launched[i].step \in Teacher!CacheSteps /\ how \in {"running", "completed"}
                   THEN [caches EXCEPT ![launched[i].step] = IF how = "running" THEN 1 ELSE Bytes(i, launched)]
                   ELSE caches
  PROVE  /\ Launches'
         /\ \A steps : Sound(steps, launched, caches) => Sound(steps, launched', caches')
  <1> DEFINE s == launched[i].step
  <1>1. /\ s \in Teacher!GpuSteps /\ DOMAIN launched' = DOMAIN launched
        /\ launched'[i].is = how /\ launched'[i].step = s /\ launched'[i].tool = launched[i].tool
        /\ \A j \in DOMAIN launched : j # i => launched'[j] = launched[j]
        /\ Launches'
    <2> DEFINE R == [step : Teacher!GpuSteps, tool : Tools, is : Out \cup {"completed", "failed", "deferred"}]
    <2>s. launched \in Seq(R)
      BY DEF Launches
    <2>1. launched \in Seq(R) /\ launched[i] \in R /\ i \in Nat
      <3> HIDE DEF R
      <3>1. QED
        BY <2>s
    <2>2. [launched[i] EXCEPT !.is = how] \in R
      BY <2>1 DEF Out
    <2>3. launched' = [launched EXCEPT ![i] = [launched[i] EXCEPT !.is = how]]
      OBVIOUS
    <2>4. launched'[i] = [launched[i] EXCEPT !.is = how] /\ DOMAIN launched' = DOMAIN launched
          /\ \A j \in DOMAIN launched : j # i => launched'[j] = launched[j]
      BY <2>3
    <2>5. launched' \in Seq(R)
      BY <2>1, <2>2, <2>3, ExceptSeq
    <2>6. launched'[i].is = how /\ launched'[i].step = s /\ launched'[i].tool = launched[i].tool
      BY <2>1, <2>4
    <2>7. Bytes(i, launched) \in Nat
      <3>1. Bytes(i, launched) \in {3 + i, 3, 2}
        BY DEF Bytes
      <3>2. QED
        BY <2>1, <3>1
    <2>8. caches' \in [Teacher!CacheSteps -> Nat]
      BY <2>7 DEF Launches
    <2> HIDE DEF R
    <2>9. Launches'
      BY <2>5, <2>8 DEF Launches, R
    <2>10. QED
      BY <2>4, <2>6, <2>9, LaunchedSteps
  <1>2. \A j \in DOMAIN launched : Bytes(j, launched') = Bytes(j, launched)
    BY <1>1 DEF Bytes
  <1>3. \A x \in Teacher!CacheSteps : x # s => caches'[x] = caches[x]
    BY DEF Launches
  <1>4. s \in Teacher!CacheSteps /\ how = "completed" => caches'[s] = Bytes(i, launched)
    BY DEF Launches
  <1>5. s \notin Teacher!CacheSteps => caches' = caches
    OBVIOUS
  <1> HIDE DEF s
  <1>6. ASSUME NEW steps, Sound(steps, launched, caches) PROVE Sound(steps, launched', caches')
    <2>1. /\ InOneOrder(steps) /\ KnownRuns(steps, launched) /\ Compared(steps, caches)
          /\ \A x \in Teacher!CacheSteps : Traced(x, steps[x], launched, caches)
      BY <1>6 DEF Sound
    <2>2. steps[s].is = "running" /\ steps[s].run = i
      BY <2>1 DEF KnownRuns, s
    <2>3. KnownRuns(steps, launched')
      BY <1>1, <2>1 DEF KnownRuns
    <2>4. Compared(steps, caches')
      <3>1. CASE steps["determinism"].is = "done"
        <4>1. s \notin Teacher!CacheSteps
          BY <2>1, <2>2, <3>1 DEF Compared
        <4>2. QED
          BY <1>5, <2>1, <4>1
      <3>2. QED
        BY <3>1 DEF Compared
    <2>5. ASSUME NEW x \in Teacher!CacheSteps PROVE Traced(x, steps[x], launched', caches')
      <3> DEFINE e == steps[x]
      <3>1. Traced(x, e, launched, caches)
        BY <2>1
      <3>2. x = s => e.is = "running" /\ e.run = i
        BY <2>2
      <3> HIDE DEF e
      <3>3. ASSUME e.is \in {"running", "done"}
            PROVE  /\ e.run \in DOMAIN launched' /\ launched'[e.run].step = x
                   /\ launched'[e.run].tool = e.tool /\ e.tool \in {"stream-score", "kl cache"}
                   /\ launched'[e.run].is = "completed" => caches'[x] = Bytes(e.run, launched')
                   /\ e.is = "done" => launched'[e.run].is = "completed"
        <4>1. /\ e.run \in DOMAIN launched /\ launched[e.run].step = x
              /\ launched[e.run].tool = e.tool /\ e.tool \in {"stream-score", "kl cache"}
              /\ launched[e.run].is = "completed" => caches[x] = Bytes(e.run, launched)
              /\ e.is = "done" => launched[e.run].is = "completed"
          BY <3>1, <3>3 DEF Traced
        <4>2. CASE e.run = i
          <5>1. x = s
            BY <4>1, <4>2 DEF s
          <5>2. QED
            BY <1>1, <1>2, <1>4, <3>2, <3>3, <4>1, <4>2, <5>1
        <4>3. CASE e.run # i
          BY <1>1, <1>2, <1>3, <3>2, <4>1, <4>3
        <4>4. QED
          BY <4>2, <4>3
      <3>4. Traced(x, e, launched', caches')
        BY <3>3 DEF Traced
      <3>5. QED
        BY <3>4 DEF e
    <2>6. QED
      BY <2>1, <2>3, <2>4, <2>5 DEF Sound
  <1>7. QED
    BY <1>1, <1>6

LEMMA TeacherRuns ==
  ASSUME TeacherInv, NEW i \in DOMAIN launched, NEW how,
         Teacher!RunStarts(i) \/ Teacher!RunEnds(i, how)
  PROVE  TeacherInv'
  <1>1. PICK end \in {"running", "completed", "failed", "deferred"} :
          /\ launched[i].is \in Out /\ launched' = [launched EXCEPT ![i].is = end]
          /\ caches' = IF launched[i].step \in Teacher!CacheSteps /\ end \in {"running", "completed"}
                       THEN [caches EXCEPT ![launched[i].step] = IF end = "running" THEN 1 ELSE Bytes(i, launched)]
                       ELSE caches
    <2>1. CASE Teacher!RunStarts(i)
      BY <2>1 DEF Teacher!RunStarts, Teacher!Half, Out, launched, caches
    <2>2. CASE Teacher!RunEnds(i, how)
      BY <2>2 DEF Teacher!RunEnds, Teacher!Whole, Bytes, Out, launched, caches, tested
    <2>3. QED
      BY <2>1, <2>2
  <1>2. UNCHANGED <<tested, saved, agent, lost, reset>>
    BY DEF Teacher!RunStarts, Teacher!RunEnds, tested, saved, agent, lost, reset
  <1>3. Launches
    BY DEF TeacherInv, TeacherTypes
  <1>4. Launches' /\ \A steps : Sound(steps, launched, caches) => Sound(steps, launched', caches')
    BY <1>1, <1>3, RunKeeps
  <1>5. TeacherTypes'
    BY <1>2, <1>4 DEF TeacherInv, TeacherTypes, Entered
  <1>6. ~lost' /\ ~reset' => Sound(saved, launched, caches)'
    <2>1. ~lost' /\ ~reset' => Sound(saved, launched', caches')
      BY <1>2, <1>4 DEF TeacherInv
    <2>2. QED
      BY <1>2, <2>1, SoundNext
  <1>7. ~lost' /\ ~reset' /\ agent' # Teacher!Idle =>
          Sound(agent.steps, launched, caches)' /\ SettledUpTo(agent.steps, agent.at)'
    <2>1. ~lost' /\ ~reset' /\ agent # Teacher!Idle =>
            Sound(agent.steps, launched', caches') /\ SettledUpTo(agent.steps, agent.at)
      BY <1>2, <1>4 DEF TeacherInv
    <2>2. QED
      BY <1>2, <2>1, SoundNextAgent DEF SettledUpTo
  <1>8. QED
    BY <1>5, <1>6, <1>7 DEF TeacherInv

LEMMA TeacherNext == TeacherInv /\ [Teacher!Next]_(Teacher!ovars) => TeacherInv'
  <1> SUFFICES ASSUME TeacherInv, [Teacher!Next]_(Teacher!ovars)
               PROVE  TeacherInv'
    OBVIOUS
  <1> DEFINE at == agent.at
             s == Order[at]
             now == agent.steps[s]
             Quiet == UNCHANGED <<tested, launched, caches, lost, reset>>
  <1>t. /\ TeacherTypes /\ Launches
        /\ agent # Teacher!Idle => /\ at \in 2..6 /\ Entered(agent.steps) /\ s \in Teacher!Names /\ Entry(now)
                                   /\ s = Teacher!Step /\ now = Teacher!Now
                                   /\ DOMAIN agent = {"at", "launch", "profiled", "steps"}
    BY OrderPlaces DEF TeacherInv, TeacherTypes, Entered, Order, Teacher!Step, Teacher!Now, agent
  <1>q. ~lost /\ ~reset =>
          /\ Sound(saved, launched, caches)
          /\ agent # Teacher!Idle => Sound(agent.steps, launched, caches) /\ SettledUpTo(agent.steps, at)
    BY DEF TeacherInv
  <1>d. Teacher!Due => agent # Teacher!Idle /\ now.is \notin Teacher!Settled
    BY <1>t, Zenon DEF Teacher!Due, agent
  \* Another entry with the same run and tool, or none of a cache's.
  <1>e. ASSUME Teacher!Due, Quiet, NEW is \in {"pending", "running", "done", "blocked", "failed"}, NEW on,
               Teacher!Save(Teacher!Put([now EXCEPT !.is = is]), on), on => is \in Teacher!Settled,
               is = "running" => now.is = "running",
               s \in Teacher!CacheSteps /\ is \in {"running", "done"} =>
                 now.is = "running" /\ (is = "done" => launched[now.run].is = "completed"),
               \A i \in DOMAIN launched :
                 launched[i].is \in Out /\ launched[i].step = s /\ now.is = "running" /\ now.run = i
                 => is = "running",
               s # "determinism" \/ is # "done"
        PROVE  TeacherInv'
    <2> DEFINE e == [now EXCEPT !.is = is]
    <2>1. Entry(e) /\ e.is = is /\ e.run = now.run /\ e.tool = now.tool
      BY <1>t, <1>d, <1>e DEF Entry
    <2>2. Teacher!Put(e) = [agent.steps EXCEPT ![s] = e]
      BY <1>t, <1>d, <1>e DEF Teacher!Put, agent
    <2> HIDE DEF e
    <2>3. Teacher!Save([agent.steps EXCEPT ![s] = e], on)
      BY <1>e, <2>2 DEF e
    <2>4. /\ on => e.is \in Teacher!Settled
          /\ e.is = "running" => now.is = "running" /\ e.run = now.run
          /\ \A i \in DOMAIN launched :
               launched[i].is \in Out /\ launched[i].step = s /\ now.is = "running" /\ now.run = i
               => e.is = "running"
      BY <1>e, <2>1, Zenon
    <2>5. /\ s \in Teacher!CacheSteps /\ e.is \in {"running", "done"} =>
               /\ now.is = "running" /\ e.run = now.run /\ e.tool = now.tool
               /\ e.is = "done" => launched[e.run].is = "completed"
          /\ s # "determinism" \/ e.is # "done"
      BY <1>e, <2>1, Zenon
    <2>6. QED
      BY <1>e, <2>1, <2>3, <2>4, <2>5, EntryKeeps, Zenon
  <1>1. ASSUME NEW launch \in BOOLEAN, NEW profiled \in BOOLEAN, NEW redo \in {"none"} \cup {"cache_a"},
               Teacher!Start(launch, redo, profiled)
        PROVE  TeacherInv'
    BY <1>1, TeacherStarts
  <1>2. CASE Teacher!PassBy
    <2>1. agent # Teacher!Idle /\ now.is \in Teacher!Settled /\ Quiet
      BY <1>2, <1>t DEF Teacher!PassBy, agent, tested, launched, caches, lost, reset
    <2>2. CASE at < 6
      <3>1. agent' = [agent EXCEPT !.at = at + 1] /\ UNCHANGED saved
        BY <1>2, <2>2, StepOrder DEF Teacher!PassBy, Order, agent, saved
      <3>2. /\ DOMAIN agent' = {"at", "launch", "profiled", "steps"}
            /\ agent'.at = at + 1 /\ agent'.at \in 2..6 /\ agent'.steps = agent.steps
        BY <1>t, <2>1, <2>2, <3>1
      <3>3. TeacherTypes'
        BY <1>t, <2>1, <3>1, <3>2 DEF TeacherTypes, Entered, Launches
      <3>4. ~lost' /\ ~reset' => Sound(saved, launched, caches)' /\ Sound(agent.steps, launched, caches)'
        BY <1>q, <2>1, <3>1, <3>2, SoundNext, SoundNextAgent
      <3>5. ~lost' /\ ~reset' => SettledUpTo(agent.steps, agent.at)'
        <4>1. ASSUME ~lost, ~reset, NEW k \in 2..6, k < at + 1 PROVE agent.steps[Order[k]].is \in Teacher!Settled
          <5>1. CASE k = at
            BY <2>1, <5>1
          <5>2. CASE k # at
            <6>1. k < at
              BY <1>t, <2>1, <4>1, <5>2
            <6>2. QED
              BY <1>q, <2>1, <4>1, <6>1 DEF SettledUpTo
          <5>3. QED
            BY <5>1, <5>2
        <4>2. QED
          BY <2>1, <3>2, <4>1 DEF SettledUpTo
      <3>6. QED
        BY <3>3, <3>4, <3>5 DEF TeacherInv
    <2>3. CASE ~(at < 6)
      <3>1. Teacher!Save(agent.steps, FALSE)
        BY <1>2, <2>3, StepOrder DEF Teacher!PassBy, Order, agent
      <3>2. Launches'
        BY <1>t, <2>1 DEF Launches
      <3>3. QED
        BY <1>t, <1>q, <2>1, <3>1, <3>2, SaveKeeps
    <2>4. QED
      BY <2>2, <2>3
  <1>3. CASE Teacher!NotYet
    <2>1. agent # Teacher!Idle /\ Quiet /\ Teacher!Save(agent.steps, FALSE)
      BY <1>3 DEF Teacher!NotYet, agent, tested, launched, caches, lost, reset
    <2>2. Launches'
      BY <1>t, <2>1 DEF Launches
    <2>3. QED
      BY <1>t, <1>q, <2>1, <2>2, SaveKeeps
  <1>4. ASSUME NEW loads \in BOOLEAN, Teacher!CheckLoader(loads) PROVE TeacherInv'
    <2> DEFINE is == IF loads THEN "done" ELSE "failed"
    <2>1. Teacher!Due /\ Quiet /\ s = "loader" /\ Teacher!Save(Teacher!Put([now EXCEPT !.is = is]), loads)
      BY <1>4, <1>t, <1>d DEF Teacher!CheckLoader, tested, launched, caches, lost, reset
    <2>2. \A i \in DOMAIN launched : launched[i].step # "loader"
      BY <1>t, LaunchedSteps, StepOrder
    <2>3. QED
      <3>1. is \in {"done", "failed"} /\ (loads => is \in Teacher!Settled)
        BY DEF Teacher!Settled
      <3>2. s \notin Teacher!CacheSteps /\ s # "determinism"
        BY <2>1, StepOrder
      <3> HIDE DEF is
      <3>3. QED
        BY <1>e, <2>1, <2>2, <3>1, <3>2
  <1>5. CASE Teacher!Compare
    <2>1. Teacher!Due /\ Quiet /\ s = "determinism"
      BY <1>5, <1>t, <1>d DEF Teacher!Compare, tested, launched, caches, lost, reset
    <2>2. (\A i \in DOMAIN launched : launched[i].step # "determinism") /\ s \notin Teacher!CacheSteps
      BY <1>t, <2>1, LaunchedSteps, StepOrder
    <2>3. CASE Teacher!Save(Teacher!Put([now EXCEPT !.is = "blocked"]), TRUE)
      BY <1>e, <2>1, <2>2, <2>3 DEF Teacher!Settled
    <2>4. CASE Teacher!Save(Teacher!Put([now EXCEPT !.is = "failed"]), FALSE)
      BY <1>e, <2>1, <2>2, <2>4
    <2>5. CASE /\ Teacher!Save(Teacher!Put([now EXCEPT !.is = "done", !.same = caches["cache_a"] = caches["cache_b"]]), TRUE)
               /\ \A x \in Teacher!CacheSteps : agent.steps[x].is # "blocked"
      <3> DEFINE e == [now EXCEPT !.is = "done", !.same = caches["cache_a"] = caches["cache_b"]]
      <3>1. Entry(e) /\ e.is = "done" /\ (e.same <=> caches["cache_a"] = caches["cache_b"])
        BY <1>t, <1>d, <2>1 DEF Entry
      <3>2. Teacher!Put(e) = [agent.steps EXCEPT ![s] = e]
        BY <1>t, <1>d, <2>1 DEF Teacher!Put, agent
      <3> HIDE DEF e
      <3>3. Teacher!Save([agent.steps EXCEPT ![s] = e], TRUE)
        BY <2>5, <3>2 DEF e
      <3>4. ~lost /\ ~reset => \A x \in Teacher!CacheSteps : agent.steps[x].is = "done"
        <4>1. at = 5
          <5>1. Order[5] = s /\ 5 \in 2..6 /\ at \in 2..6
            BY <1>t, <1>d, <2>1, StepOrder
          <5>2. QED
            BY <5>1, OrderPlaces
        <4>2. ~lost /\ ~reset => \A x \in Teacher!CacheSteps : agent.steps[x].is \in Teacher!Settled
          <5>1. ~lost /\ ~reset => \A k \in 2..6 : k < 5 => agent.steps[Order[k]].is \in Teacher!Settled
            BY <1>q, <1>d, <2>1, <4>1 DEF SettledUpTo
          <5>2. Teacher!CacheSteps = {Order[3], Order[4]}
            BY StepOrder, Zenon
          <5>3. /\ 3 \in 2..6 /\ 3 < 5
                /\ 4 \in 2..6 /\ 4 < 5
            OBVIOUS
          <5>4. QED
            BY <5>1, <5>2, <5>3, Zenon
        <4>3. QED
          BY <2>5, <4>2 DEF Teacher!Settled
      <3>5. QED
        BY <2>1, <2>2, <3>1, <3>3, <3>4, EntryKeeps DEF Teacher!Settled
    <2>6. QED
      BY <1>5, <1>t, <1>d, <2>1, <2>3, <2>4, <2>5 DEF Teacher!Compare, agent, caches
  <1>6. CASE Teacher!Poll
    <2> DEFINE r == launched[now.run].is
               is == Teacher!Polled(r)
    <2>1. /\ Teacher!Due /\ Quiet /\ s \in Teacher!GpuSteps /\ now.is = "running"
          /\ Teacher!Save(Teacher!Put([now EXCEPT !.is = is]), is = "done")
      BY <1>6, <1>t, <1>d DEF Teacher!Poll, tested, launched, caches, lost, reset
    <2>2. /\ is \in {"pending", "running", "done", "failed"}
          /\ is = "done" => r = "completed"
          /\ r \in Out => is = "running"
      BY Zenon DEF Teacher!Polled, Out
    <2>3. s # "determinism" /\ "done" \in Teacher!Settled
      BY <2>1, StepOrder, Zenon DEF Teacher!Settled
    <2>4. \A i \in DOMAIN launched :
            launched[i].is \in Out /\ launched[i].step = s /\ now.is = "running" /\ now.run = i => is = "running"
      BY <2>2, Zenon
    <2> HIDE DEF is
    <2>5. QED
      BY <1>e, <2>1, <2>2, <2>3, <2>4, Zenon
  <1>7. CASE Teacher!Block
    <2>1. /\ Teacher!Due /\ Quiet /\ s \in Teacher!GpuSteps /\ now.is # "running"
          /\ Teacher!Save(Teacher!Put([now EXCEPT !.is = "blocked"]), TRUE)
      BY <1>7, <1>t, <1>d DEF Teacher!Block, Teacher!ToLaunch, tested, launched, caches, lost, reset
    <2>2. QED
      BY <1>e, <2>1, Zenon DEF Teacher!Settled
  <1>8. CASE Teacher!NotLaunched
    <2> DEFINE e == [now EXCEPT !.run = 0, !.tool = Teacher!Tool]
    <2>1. /\ Teacher!Due /\ Quiet /\ now.is # "running" /\ Teacher!Save(Teacher!Put(e), FALSE)
      BY <1>8, <1>t, <1>d DEF Teacher!NotLaunched, Teacher!ToLaunch, tested, launched, caches, lost, reset
    <2>2. Entry(e) /\ e.is = now.is /\ e.is \notin {"running", "done"}
      BY <1>t, <1>d, <2>1 DEF Entry, Teacher!Settled
    <2>3. Teacher!Put(e) = [agent.steps EXCEPT ![s] = e]
      BY <1>t, <1>d, <2>1 DEF Teacher!Put, agent
    <2> HIDE DEF e
    <2>4. Teacher!Save([agent.steps EXCEPT ![s] = e], FALSE)
      BY <2>1, <2>3
    <2>5. QED
      BY <2>1, <2>2, <2>4, EntryKeeps
  <1>9. ASSUME NEW dies \in BOOLEAN, Teacher!Launch(dies) PROVE TeacherInv'
    <2> DEFINE n == Len(launched) + 1
               run == [step |-> s, tool |-> Teacher!Tool, is |-> "waiting"]
               e == [is |-> "running", run |-> n, tool |-> Teacher!Tool, same |-> FALSE]
    <2>1. /\ Teacher!Due /\ s \in Teacher!GpuSteps /\ now.is # "running"
          /\ launched' = Append(launched, run) /\ lost' = (lost \/ dies)
          /\ UNCHANGED <<tested, caches, reset>>
      BY <1>9, <1>t, <1>d DEF Teacher!Launch, Teacher!ToLaunch, tested, launched, caches, lost, reset
    <2>2. Teacher!Tool \in Tools /\ (s \in Teacher!CacheSteps => Teacher!Tool \in {"stream-score", "kl cache"})
      BY <1>t, <1>d, <2>1, StepOrder DEF Teacher!Tool, Tools
    <2> DEFINE R == [step : Teacher!GpuSteps, tool : Tools, is : Out \cup {"completed", "failed", "deferred"}]
    <2>3. launched \in Seq(R)
      BY <1>t DEF Launches
    <2>4. run \in R
      BY <2>1, <2>2 DEF Out
    <2> HIDE DEF run, R
    <2>5. /\ launched' \in Seq(R) /\ DOMAIN launched' = DOMAIN launched \cup {n} /\ n \notin DOMAIN launched
          /\ launched'[n] = run /\ \A i \in DOMAIN launched : launched'[i] = launched[i]
      BY <2>1, <2>3, <2>4, AppendProperties
    <2>6. Launches'
      BY <1>t, <2>1, <2>5 DEF Launches, R
    <2>7. CASE dies
      <3>1. agent' = Teacher!Idle /\ UNCHANGED saved /\ lost'
        BY <1>9, <2>1, <2>7 DEF Teacher!Launch, agent, saved
      <3>2. TeacherTypes'
        BY <1>t, <2>6, <3>1 DEF TeacherTypes, Entered
      <3>3. QED
        BY <3>1, <3>2 DEF TeacherInv
    <2>8. CASE ~dies
      <3>1. Teacher!Save(Teacher!Put(e), FALSE)
        <4>1. Len(launched') = n
          BY <2>1, <2>3, <2>4, AppendProperties
        <4>2. Teacher!Save(Teacher!Put([is |-> "running", run |-> Len(launched'), tool |-> Teacher!Tool, same |-> FALSE]), FALSE)
          BY <1>9, <2>8 DEF Teacher!Launch, launched
        <4>3. QED
          BY <4>1, <4>2
      <3>2. Teacher!Put(e) = [agent.steps EXCEPT ![s] = e]
        BY <1>t, <1>d, <2>1 DEF Teacher!Put, agent
      <3>3. Entry(e) /\ e.is = "running" /\ e.run = n /\ e.tool = Teacher!Tool
        BY DEF Entry
      <3> HIDE DEF e
      <3>4. ASSUME ~lost', ~reset'
            PROVE  Sound([agent.steps EXCEPT ![s] = e], launched', caches)
        <4>1. Sound(agent.steps, launched, caches) /\ SettledUpTo(agent.steps, at)
              /\ at \in 2..6 /\ Entered(agent.steps) /\ now.is \notin Teacher!Settled
          BY <1>t, <1>q, <1>d, <2>1, <3>4
        <4>2. \A i \in DOMAIN launched : launched[i].step \in Teacher!GpuSteps
          BY <1>t, LaunchedSteps
        <4>3. \A i \in DOMAIN launched : launched[i].is \notin Out
          BY <2>1, <4>1, <4>2, NoneIsOut DEF Sound
        <4>4. \A i \in DOMAIN launched' : launched'[i].is \in Out => i = n
          BY <2>5, <4>3
        <4>5. launched'[n].step = s /\ launched'[n].is = "waiting" /\ launched'[n].tool = Teacher!Tool
          BY <2>5 DEF run
        <4>6. s \in Teacher!CacheSteps => Traced(s, e, launched', caches)
          BY <2>2, <2>5, <3>3, <4>5 DEF Traced
        <4>7. s # "determinism"
          BY <2>1, StepOrder
        <4> HIDE DEF at, n
        <4>8. QED
          BY <2>1, <2>5, <3>3, <4>1, <4>2, <4>4, <4>5, <4>6, <4>7, PutKeeps
      <3>5. Entered([agent.steps EXCEPT ![s] = e])
        BY <1>t, <1>d, <2>1, <3>3 DEF Entered
      <3>6. Teacher!Save([agent.steps EXCEPT ![s] = e], FALSE)
        BY <3>1, <3>2
      <3>7. QED
        BY <1>t, <1>d, <2>1, <2>6, <3>4, <3>5, <3>6, SaveKeeps
    <2>9. QED
      BY <2>7, <2>8
  <1>10. CASE Teacher!Die \/ UNCHANGED Teacher!ovars
    <2>1. /\ agent' = Teacher!Idle \/ UNCHANGED agent
          /\ UNCHANGED <<tested, saved, launched, caches, lost, reset>>
      BY <1>10 DEF Teacher!Die, Teacher!ovars, tested, saved, agent, launched, caches, lost, reset
    <2>2. TeacherTypes'
      BY <1>t, <2>1 DEF TeacherTypes, Entered, Launches
    <2>3. ~lost' /\ ~reset' => Sound(saved, launched, caches)'
      BY <1>q, <2>1, SoundNext
    <2>4. ~lost' /\ ~reset' /\ agent' # Teacher!Idle =>
            Sound(agent.steps, launched, caches)' /\ SettledUpTo(agent.steps, agent.at)'
      BY <1>q, <2>1, SoundNextAgent DEF SettledUpTo
    <2>5. QED
      BY <2>2, <2>3, <2>4 DEF TeacherInv
  <1>11. ASSUME NEW i \in DOMAIN launched, NEW how, Teacher!RunStarts(i) \/ Teacher!RunEnds(i, how)
         PROVE  TeacherInv'
    BY <1>11, TeacherRuns
  <1>12. QED
    BY <1>1, <1>2, <1>3, <1>4, <1>5, <1>6, <1>7, <1>8, <1>9, <1>10, <1>11 DEF Teacher!Next, launched

LEMMA TeacherHolds == TeacherInv => Teacher!VerdictStands
  <1> SUFFICES ASSUME TeacherInv, ~lost, ~reset PROVE Teacher!VerdictStands
    BY DEF Teacher!VerdictStands, lost, reset
  <1>1. /\ InOneOrder(saved) /\ KnownRuns(saved, launched) /\ Compared(saved, caches) /\ Launches
        /\ \A x \in Teacher!CacheSteps : Traced(x, saved[x], launched, caches)
    BY DEF TeacherInv, TeacherTypes, Sound
  <1>2. \A i \in DOMAIN launched : launched[i].step \in Teacher!GpuSteps /\ i \in Nat /\ i >= 1
    BY <1>1, LaunchedSteps DEF Launches
  <1>3. \A i, j \in DOMAIN launched : launched[i].is \in Out /\ launched[j].is \in Out => i = j
    BY <1>1, <1>2, OneIsOut
  <1>4. ASSUME saved["determinism"].is = "done"
        PROVE  /\ saved["determinism"].same <=>
                    (tested.exact /\ saved["cache_a"].tool = saved["cache_b"].tool)
               /\ \A x \in Teacher!CacheSteps : caches[x] > Teacher!Half
    <2> DEFINE a == saved["cache_a"]
               b == saved["cache_b"]
    <2>1. a.is = "done" /\ b.is = "done"
          /\ (saved["determinism"].same <=> caches["cache_a"] = caches["cache_b"])
      BY <1>1, <1>4, StepOrder DEF Compared
    <2>2. /\ Traced("cache_a", a, launched, caches) /\ Traced("cache_b", b, launched, caches)
      BY <1>1, StepOrder
    <2> HIDE DEF a, b
    <2>3. /\ a.run \in DOMAIN launched /\ launched[a.run].step = "cache_a" /\ launched[a.run].tool = a.tool
          /\ caches["cache_a"] = Bytes(a.run, launched)
          /\ b.run \in DOMAIN launched /\ launched[b.run].step = "cache_b" /\ launched[b.run].tool = b.tool
          /\ caches["cache_b"] = Bytes(b.run, launched)
          /\ a.tool \in {"stream-score", "kl cache"} /\ b.tool \in {"stream-score", "kl cache"}
      BY <2>1, <2>2 DEF Traced
    <2>4. a.run # b.run /\ a.run \in Nat /\ b.run \in Nat /\ a.run >= 1 /\ b.run >= 1
      BY <1>2, <2>3
    <2>5. /\ caches["cache_a"] = IF ~tested.exact THEN 3 + a.run ELSE IF a.tool = "kl cache" THEN 3 ELSE 2
          /\ caches["cache_b"] = IF ~tested.exact THEN 3 + b.run ELSE IF b.tool = "kl cache" THEN 3 ELSE 2
      BY <2>3 DEF Bytes
    <2>6. /\ caches["cache_a"] = caches["cache_b"] <=> (tested.exact /\ a.tool = b.tool)
          /\ caches["cache_a"] > 1 /\ caches["cache_b"] > 1
      <3>1. CASE tested.exact
        <4>1. /\ caches["cache_a"] = IF a.tool = "kl cache" THEN 3 ELSE 2
              /\ caches["cache_b"] = IF b.tool = "kl cache" THEN 3 ELSE 2
          BY <2>5, <3>1, Zenon
        <4>2. /\ a.tool # "kl cache" => a.tool = "stream-score"
              /\ b.tool # "kl cache" => b.tool = "stream-score"
          BY <2>3, Zenon
        <4> DEFINE kl(step) == step.tool = "kl cache"
        <4>3. a.tool = b.tool <=> (kl(a) <=> kl(b))
          BY <4>2, Zenon
        <4>4. /\ kl(a) => caches["cache_a"] = 3
              /\ ~kl(a) => caches["cache_a"] = 2
              /\ kl(b) => caches["cache_b"] = 3
              /\ ~kl(b) => caches["cache_b"] = 2
          BY <4>1, Zenon
        <4> HIDE DEF kl
        <4>5. /\ caches["cache_a"] > 1 /\ caches["cache_b"] > 1
              /\ caches["cache_a"] = caches["cache_b"] <=> (kl(a) <=> kl(b))
          BY <4>4
        <4>6. /\ caches["cache_a"] = caches["cache_b"] <=> a.tool = b.tool
              /\ caches["cache_a"] > 1 /\ caches["cache_b"] > 1
          BY <4>3, <4>5, Zenon
        <4>7. QED
          BY <3>1, <4>6, Zenon
      <3>2. CASE ~tested.exact
        <4>1. caches["cache_a"] = 3 + a.run /\ caches["cache_b"] = 3 + b.run
          BY <2>5, <3>2, Zenon
        <4>2. /\ caches["cache_a"] # caches["cache_b"]
              /\ caches["cache_a"] > 1 /\ caches["cache_b"] > 1
          BY <2>4, <4>1
        <4>3. QED
          BY <3>2, <4>2, Zenon
      <3>3. QED
        BY <3>1, <3>2
    <2>8. QED
      BY <2>1, <2>6, StepOrder DEF a, b, Teacher!Half
  <1>5. QED
    BY <1>3, <1>4 DEF Teacher!VerdictStands, Out, tested, saved, launched, caches


(***************************************************************************)
(* The findings log.  HoldersDiffer is not inductive.  Its strengthening   *)
(* says that whatever a session has read or listed can only name numbers   *)
(* that are published by now or whose lock ran out (ReadsAreOld), and that *)
(* the lock of any other number somebody has still stands (LocksStand):    *)
(* then O_EXCL refuses the next one.                                       *)
(***************************************************************************)
AtWork == {"listed", "create", "holding", "checked", "write", "unlink", "gone"}

\* A session past its scan has a number.
HasNumber == \A s \in Sessions : pc[s] \in AtWork => f[s] \in Numbers

Typed == TypeOK /\ HasNumber

\* What was read of log and lock folder is out of date in one direction only.
ReadsAreOld ==
  /\ stale \subseteq expired
  /\ \A s \in Sessions : pub[s] \subseteq Published /\ drop[s] \subseteq Published \cup expired

\* The lock of a number in somebody's hands stands until it is published.
LocksStand ==
  \A s \in Sessions, n \in Numbers \ (Published \cup expired) : Has(s, n) => n \in locks

\* The lock is unlinked after the entry is in the log.
WrittenFirst == \A s \in Sessions : pc[s] = "unlink" => f[s] \in Published

Inv == Typed /\ ReadsAreOld /\ LocksStand /\ WrittenFirst /\ HoldersDiffer /\ NothingBurnt

-----------------------------------------------------------------------------
\* Sessions start with nothing read, held or published.
LEMMA InitInv == Init => Inv
  BY LogAssumption DEF Init, Inv, Typed, TypeOK, HasNumber, AtWork, Numbers, Published, Places, ReadsAreOld,
     LocksStand, WrittenFirst, HoldersDiffer, NothingBurnt, Has

\* Types are preserved, and the number a session tries is always a number.
LEMMA TypedNext == Typed /\ [Next]_vars => Typed'
<1> SUFFICES ASSUME Typed, [Next]_vars PROVE Typed'
    OBVIOUS
<1> USE LogAssumption DEF Typed, TypeOK, HasNumber, AtWork, Places
<1>1. ASSUME NEW s \in Sessions, ReadLog(s) PROVE Typed'
    BY <1>1 DEF ReadLog, Goto, Published
<1>2. ASSUME NEW s \in Sessions, ListLocks(s) PROVE Typed'
    BY <1>2 DEF ListLocks, Goto
<1>3. ASSUME NEW s \in Sessions, DropLocks(s) PROVE Typed'
    BY <1>3 DEF DropLocks
<1>4. ASSUME NEW s \in Sessions, Create(s) PROVE Typed'
    BY <1>4 DEF Create
<1>5. ASSUME NEW s \in Sessions, CreateLoses(s) PROVE Typed'
    BY <1>5 DEF CreateLoses, Numbers
<1>6. ASSUME NEW s \in Sessions, CheckReserved(s) PROVE Typed'
    BY <1>6 DEF CheckReserved, Goto
<1>7. ASSUME NEW s \in Sessions, CheckLock(s) PROVE Typed'
    BY <1>7 DEF CheckLock, Goto
<1>8. ASSUME NEW s \in Sessions, Refused(s) PROVE Typed'
    BY <1>8 DEF Refused
<1>9. ASSUME NEW s \in Sessions, Write(s) PROVE Typed'
    BY <1>9 DEF Write, Goto
<1>10. ASSUME NEW s \in Sessions, Unlink(s) PROVE Typed'
    BY <1>10 DEF Unlink, Goto
<1>11. ASSUME NEW s \in Sessions, Release(s) PROVE Typed'
    BY <1>11 DEF Release, Goto
<1>12. ASSUME NEW s \in Sessions, Crash(s) PROVE Typed'
    BY <1>12 DEF Crash, Has
<1>13. ASSUME NEW n \in Numbers, Expire(n) PROVE Typed'
    BY <1>13 DEF Expire
<1>14. CASE UNCHANGED vars
    BY <1>14 DEF vars
<1>15. QED
    BY <1>1, <1>2, <1>3, <1>4, <1>5, <1>6, <1>7, <1>8, <1>9, <1>10, <1>11, <1>12, <1>13, <1>14 DEF Next, Call

-----------------------------------------------------------------------------
\* A published number stays published: the log is only appended to.
LEMMA LogGrows ==
  ASSUME Typed, [Next]_vars
  PROVE  /\ Published \subseteq Published'
         /\ Published \subseteq Numbers /\ Published' \subseteq Numbers
<1> USE DEF Typed, TypeOK, Published
<1>1. log' = log \/ \E s \in Sessions : Write(s)
    BY DEF Next, Call, vars, ReadLog, ListLocks, DropLocks, Create, CreateLoses, CheckReserved,
       CheckLock, Refused, Unlink, Release, Crash, Expire
<1>2. CASE log' = log
    BY <1>2
<1>3. ASSUME NEW s \in Sessions, Write(s) PROVE \A n \in Numbers : log[n] > 0 => log'[n] > 0
    BY <1>3 DEF Write, Goto, HasNumber, AtWork
<1>4. QED
    BY <1>1, <1>2, <1>3

\* A write is the only step that publishes, and it publishes its own number.
LEMMA WritePublishes ==
  ASSUME Typed, NEW s \in Sessions, Write(s)
  PROVE  Published' = Published \cup {f[s]}
  BY DEF Write, Goto, Typed, TypeOK, HasNumber, AtWork, Published

\* The strengthened invariant is inductive.
LEMMA InvNext == Inv /\ [Next]_vars => Inv'
<1> SUFFICES ASSUME Inv, [Next]_vars PROVE Inv'
    OBVIOUS
<1>t. Typed'
    BY TypedNext DEF Inv
<1>p. Published \subseteq Published' /\ Published \subseteq Numbers /\ Published' \subseteq Numbers
    BY LogGrows DEF Inv
<1> DEFINE Rest == ReadsAreOld /\ LocksStand /\ WrittenFirst /\ HoldersDiffer /\ NothingBurnt
<1> USE DEF Inv, Typed, TypeOK, HasNumber, AtWork, Places
<1>1. ASSUME NEW s \in Sessions, ReadLog(s) PROVE Rest'
  <2>0. Published' = Published
      BY <1>1 DEF ReadLog, Published
  <2>1. QED
      BY <1>1, <2>0 DEF ReadLog, Goto, ReadsAreOld, LocksStand, WrittenFirst, HoldersDiffer, NothingBurnt, Has
<1>2. ASSUME NEW s \in Sessions, ListLocks(s) PROVE Rest'
  <2>0. Published' = Published
      BY <1>2 DEF ListLocks, Published
  <2>1. QED
      BY <1>2, <2>0 DEF ListLocks, Goto, ReadsAreOld, LocksStand, WrittenFirst, HoldersDiffer, NothingBurnt, Has
<1>3. ASSUME NEW s \in Sessions, DropLocks(s) PROVE Rest'
  <2>0. Published' = Published
      BY <1>3 DEF DropLocks, Published
  <2>1. ReadsAreOld'
      BY <1>3, <2>0 DEF DropLocks, ReadsAreOld
  <2>2. LocksStand'
      BY <1>3, <2>0 DEF DropLocks, LocksStand, Has, ReadsAreOld
  <2>3. WrittenFirst'
      BY <1>3, <2>0 DEF DropLocks, WrittenFirst
  <2>4. HoldersDiffer'
      BY <1>3, <2>0 DEF DropLocks, HoldersDiffer, LocksStand, Has
  <2>5. NothingBurnt'
      BY <1>3, <2>0 DEF DropLocks, NothingBurnt, Has, ReadsAreOld
  <2>6. QED
      BY <2>1, <2>2, <2>3, <2>4, <2>5
<1>4. ASSUME NEW s \in Sessions, Create(s) PROVE Rest'
  <2>0. Published' = Published
      BY <1>4 DEF Create, Published
  <2>1. ReadsAreOld'
      BY <1>4, <2>0 DEF Create, ReadsAreOld
  <2>2. LocksStand'
      BY <1>4, <2>0 DEF Create, LocksStand, Has
  <2>3. WrittenFirst'
      BY <1>4, <2>0 DEF Create, WrittenFirst
  <2>4. HoldersDiffer'
      BY <1>4, <2>0 DEF Create, HoldersDiffer, LocksStand, Has
  <2>5. NothingBurnt'
      BY <1>4, <2>0 DEF Create, NothingBurnt, Has
  <2>6. QED
      BY <2>1, <2>2, <2>3, <2>4, <2>5
<1>5. ASSUME NEW s \in Sessions, CreateLoses(s) PROVE Rest'
  <2>0. Published' = Published
      BY <1>5 DEF CreateLoses, Published
  <2>1. QED
      BY <1>5, <2>0 DEF CreateLoses, ReadsAreOld, LocksStand, WrittenFirst, HoldersDiffer, NothingBurnt, Has
<1>6. ASSUME NEW s \in Sessions, CheckReserved(s) PROVE Rest'
  <2>0. Published' = Published
      BY <1>6 DEF CheckReserved, Published
  <2>1. QED
      BY <1>6, <2>0 DEF CheckReserved, Goto, ReadsAreOld, LocksStand, WrittenFirst, HoldersDiffer, NothingBurnt, Has
<1>7. ASSUME NEW s \in Sessions, CheckLock(s) PROVE Rest'
  <2>0. Published' = Published
      BY <1>7 DEF CheckLock, Published
  <2>1. QED
      BY <1>7, <2>0 DEF CheckLock, Goto, ReadsAreOld, LocksStand, WrittenFirst, HoldersDiffer, NothingBurnt, Has
<1>8. ASSUME NEW s \in Sessions, Refused(s) PROVE Rest'
  <2>0. Published' = Published
      BY <1>8 DEF Refused, Published
  <2>1. QED
      BY <1>8, <2>0 DEF Refused, ReadsAreOld, LocksStand, WrittenFirst, HoldersDiffer, NothingBurnt, Has
<1>9. ASSUME NEW s \in Sessions, Write(s) PROVE Rest'
  <2>0. Published' = Published \cup {f[s]}
      BY <1>9, WritePublishes
  <2>1. ReadsAreOld'
      BY <1>9, <2>0 DEF Write, Goto, ReadsAreOld
  <2>2. LocksStand'
      BY <1>9, <2>0 DEF Write, Goto, LocksStand, Has
  <2>3. WrittenFirst'
      BY <1>9, <2>0 DEF Write, Goto, WrittenFirst
  <2>4. HoldersDiffer'
      BY <1>9, <2>0 DEF Write, Goto, HoldersDiffer, LocksStand, Has
  <2>5. NothingBurnt'
      BY <1>9, <2>0 DEF Write, Goto, NothingBurnt, Has
  <2>6. QED
      BY <2>1, <2>2, <2>3, <2>4, <2>5
<1>10. ASSUME NEW s \in Sessions, Unlink(s) PROVE Rest'
  <2>0. Published' = Published
      BY <1>10 DEF Unlink, Published
  <2>1. ReadsAreOld'
      BY <1>10, <2>0 DEF Unlink, Goto, ReadsAreOld
  <2>2. LocksStand'
      BY <1>10, <2>0 DEF Unlink, Goto, LocksStand, Has, WrittenFirst, HoldersDiffer
  <2>3. WrittenFirst'
      BY <1>10, <2>0 DEF Unlink, Goto, WrittenFirst
  <2>4. HoldersDiffer'
      BY <1>10, <2>0 DEF Unlink, Goto, HoldersDiffer, LocksStand, Has, WrittenFirst
  <2>5. NothingBurnt'
      BY <1>10, <2>0 DEF Unlink, Goto, NothingBurnt, Has
  <2>6. QED
      BY <2>1, <2>2, <2>3, <2>4, <2>5
<1>11. ASSUME NEW s \in Sessions, Release(s) PROVE Rest'
  <2>0. Published' = Published
      BY <1>11 DEF Release, Published
  <2>1. ReadsAreOld'
      BY <1>11, <2>0 DEF Release, Goto, ReadsAreOld
  <2>2. LocksStand'
      BY <1>11, <2>0 DEF Release, Goto, LocksStand, Has, WrittenFirst, HoldersDiffer
  <2>3. WrittenFirst'
      BY <1>11, <2>0 DEF Release, Goto, WrittenFirst
  <2>4. HoldersDiffer'
      BY <1>11, <2>0 DEF Release, Goto, HoldersDiffer, LocksStand, Has, WrittenFirst
  <2>5. NothingBurnt'
      BY <1>11, <2>0 DEF Release, Goto, NothingBurnt, Has
  <2>6. QED
      BY <2>1, <2>2, <2>3, <2>4, <2>5
<1>12. ASSUME NEW s \in Sessions, Crash(s) PROVE Rest'
  <2>0. Published' = Published
      BY <1>12 DEF Crash, Published
  <2>1. ReadsAreOld'
      BY <1>12, <2>0 DEF Crash, ReadsAreOld
  <2>2. LocksStand'
      BY <1>12, <2>0 DEF Crash, LocksStand, Has
  <2>3. WrittenFirst'
      BY <1>12, <2>0 DEF Crash, WrittenFirst
  <2>4. HoldersDiffer'
      BY <1>12, <2>0 DEF Crash, HoldersDiffer, LocksStand, Has
  <2>5. NothingBurnt'
      BY <1>12, <2>0 DEF Crash, NothingBurnt, Has
  <2>6. QED
      BY <2>1, <2>2, <2>3, <2>4, <2>5
<1>13. ASSUME NEW n \in Numbers, Expire(n) PROVE Rest'
    BY <1>13 DEF Expire, Inv, Typed, TypeOK, Published, ReadsAreOld, LocksStand, WrittenFirst, HoldersDiffer, NothingBurnt, Has
<1>14. CASE UNCHANGED vars
    BY <1>14, <1>t DEF vars, Inv, Published, ReadsAreOld, LocksStand, WrittenFirst, HoldersDiffer, NothingBurnt, Has
<1>15. QED
    BY <1>t, <1>1, <1>2, <1>3, <1>4, <1>5, <1>6, <1>7, <1>8, <1>9, <1>10, <1>11, <1>12, <1>13, <1>14 DEF Next, Call, Inv

\* The invariant holds in every reachable state.
THEOREM FindingsInv == Spec => []Inv
  BY InitInv, InvNext, PTL DEF Spec

\* Type correctness of the findings log.
THEOREM FindingsTypes == Spec => []TypeOK
<1>1. Inv => TypeOK
    BY DEF Inv, Typed
<1>2. QED
    BY FindingsInv, <1>1, PTL

\* Sessions that reserve, append or die in any order never both hold one
\* number that is still to be published and whose lock never ran out.
THEOREM FindingsHolders == Spec => []HoldersDiffer
<1>1. Inv => HoldersDiffer
    BY DEF Inv
<1>2. QED
    BY FindingsInv, <1>1, PTL

\* A lock that blocks an unpublished number has a session behind it.
THEOREM FindingsNothingBurnt == Spec => []NothingBurnt
<1>1. Inv => NothingBurnt
    BY DEF Inv
<1>2. QED
    BY FindingsInv, <1>1, PTL

-----------------------------------------------------------------------------
(* The reservations of a box (Reservations).                               *)

store == v1
mounted == v2
session == v3
seen == v4
owed == v5

BoxTypes ==
  /\ store \in [{"shared"} \cup Boxes!Hosts -> [Boxes!Names -> Callers \cup {None}]]
  /\ mounted \subseteq Boxes!Hosts
  /\ session \in [Callers -> Boxes!Names \cup {"idle", "forced", "launched", "refused", "running"}]
  /\ seen \in [Callers -> Callers \cup {None}]
  /\ owed \subseteq Callers

\* Who is about to write has seen no reservation but its own.
SawNoOther == \A c \in Callers : session[c] \in Boxes!Names => seen[c] \in {None, c}

\* While somebody is owed the box, the shared file has a reservation: another
\* session's reservation may have come over it, but none was taken back.
StillReserved == owed # {} => \E n \in Boxes!Names : store["shared"][n] # None

BoxInv == BoxTypes /\ SawNoOther /\ StillReserved

LEMMA BoxInit == Boxes!Init => BoxInv
  BY LocalAssumption DEF Boxes!Init, Boxes!Names, Boxes!Hosts, BoxInv, BoxTypes, SawNoOther, StillReserved,
     store, mounted, session, seen, owed

\* What active() finds is nobody or a session.
LEMMA ActiveIsCaller ==
  ASSUME BoxTypes, NEW h \in Boxes!Hosts, NEW n \in Boxes!Names
  PROVE  Boxes!Active(h, n) \in Callers \cup {None}
  BY DEF BoxTypes, Boxes!Active, store, mounted

\* A reservation that is written is in one file, under one name.
LEMMA BoxPuts ==
  ASSUME BoxInv, NEW c \in Callers, NEW n \in Boxes!Names, Boxes!Put(c, n)
  PROVE  /\ store' \in [{"shared"} \cup Boxes!Hosts -> [Boxes!Names -> Callers \cup {None}]]
         /\ \A m \in Boxes!Names : store["shared"][m] # None => store'["shared"][m] # None
  <1> DEFINE w == Boxes!Writable(HostOf[c])
             there == [store[w] EXCEPT ![n] = c]
  <1>1. w \in {"shared"} \cup Boxes!Hosts
    BY DEF Boxes!Writable, Boxes!Hosts
  <1>2. store' = [store EXCEPT ![w] = there]
    BY DEF Boxes!Put, store
  <1>3. there \in [Boxes!Names -> Callers \cup {None}]
        /\ \A m \in Boxes!Names : store[w][m] # None => there[m] # None
    BY <1>1, LocalAssumption DEF BoxInv, BoxTypes
  <1> HIDE DEF w, there
  <1>4. QED
    BY <1>1, <1>2, <1>3 DEF BoxInv, BoxTypes

LEMMA BoxNext == BoxInv /\ [Boxes!Next]_(Boxes!vvars) => BoxInv'
  <1> SUFFICES ASSUME BoxInv, [Boxes!Next]_(Boxes!vvars)
               PROVE  BoxInv'
    OBVIOUS
  <1> USE DEF BoxInv
  <1>n. "name" \in Boxes!Names /\ "hostname" \in Boxes!Names
        /\ {"idle", "forced", "launched", "refused", "running"} \cap Boxes!Names = {}
    BY DEF Boxes!Names
  <1>1. ASSUME NEW c \in Callers, Boxes!Write(c) PROVE BoxInv'
    <2>1. /\ session[c] \in Boxes!Names /\ Boxes!Put(c, session[c])
          /\ session' = [session EXCEPT ![c] = "idle"]
          /\ UNCHANGED <<mounted, seen, owed>>
      BY <1>1 DEF Boxes!Write, session, mounted, seen, owed
    <2>2. QED
      BY <1>n, <2>1, BoxPuts DEF BoxTypes, SawNoOther, StillReserved
  <1>2. ASSUME NEW c \in Callers, Boxes!RunOn(c) PROVE BoxInv'
    <2>1. /\ session' = [session EXCEPT ![c] = "launched"]
          /\ owed' = {d \in Callers \ {c} : \E n \in Boxes!Names : store["shared"][n] = d}
          /\ UNCHANGED <<store, mounted, seen>>
      BY <1>2 DEF Boxes!RunOn, session, owed, store, mounted, seen
    <2>2. QED
      BY <1>n, <2>1, LocalAssumption DEF BoxTypes, SawNoOther, StillReserved
  <1>3. ASSUME NEW c \in Callers, Boxes!RunHere(c) PROVE BoxInv'
    <2>1. /\ \E end \in {"refused", "running"} : session' = [session EXCEPT ![c] = end]
          /\ UNCHANGED <<store, mounted, seen, owed>>
      BY <1>3 DEF Boxes!RunHere, session, owed, store, mounted, seen
    <2>2. QED
      BY <1>n, <2>1 DEF BoxTypes, SawNoOther, StillReserved
  <1>4. ASSUME NEW c \in Callers, NEW n \in Boxes!Names, Boxes!Check(c, n) PROVE BoxInv'
    <2>1. /\ Boxes!Active(HostOf[c], n) \in {None, c}
          /\ session' = [session EXCEPT ![c] = n]
          /\ seen' = [seen EXCEPT ![c] = Boxes!Active(HostOf[c], n)]
          /\ UNCHANGED <<store, mounted, owed>>
      BY <1>4 DEF Boxes!Check, session, owed, store, mounted, seen
    <2>2. QED
      BY <2>1 DEF BoxTypes, SawNoOther, StillReserved
  <1>5. ASSUME NEW c \in Callers, NEW n \in Boxes!Names, Boxes!Force(c, n) PROVE BoxInv'
    <2>1. /\ Boxes!Put(c, n) /\ session' = [session EXCEPT ![c] = "forced"]
          /\ UNCHANGED <<mounted, seen, owed>>
      BY <1>5 DEF Boxes!Force, session, owed, mounted, seen
    <2>2. QED
      BY <1>n, <2>1, BoxPuts DEF BoxTypes, SawNoOther, StillReserved
  <1>6. ASSUME NEW h \in Boxes!Hosts, Boxes!Remount(h) PROVE BoxInv'
    <2>1. /\ mounted' \subseteq Boxes!Hosts /\ owed' = {} /\ UNCHANGED <<store, session, seen>>
      BY <1>6 DEF Boxes!Remount, BoxTypes, session, owed, store, mounted, seen
    <2>2. QED
      BY <2>1 DEF BoxTypes, SawNoOther, StillReserved
  <1>7. ASSUME NEW h \in Boxes!Hosts, NEW n \in Boxes!Names, Boxes!Release(h, n) PROVE BoxInv'
    <2>1. /\ store' = [p \in DOMAIN store |->
                         IF p = h \/ (p = "shared" /\ h \in mounted)
                         THEN [store[p] EXCEPT ![n] = None] ELSE store[p]]
          /\ owed' = {} /\ UNCHANGED <<mounted, session, seen>>
      BY <1>7 DEF Boxes!Release, session, owed, store, mounted, seen
    <2>2. store' \in [{"shared"} \cup Boxes!Hosts -> [Boxes!Names -> Callers \cup {None}]]
      BY <2>1 DEF BoxTypes
    <2>3. QED
      BY <2>1, <2>2 DEF BoxTypes, SawNoOther, StillReserved
  <1>8. CASE UNCHANGED Boxes!vvars
    <2>1. UNCHANGED <<store, mounted, session, seen, owed>>
      BY <1>8 DEF Boxes!vvars, session, owed, store, mounted, seen
    <2>2. QED
      BY <2>1 DEF BoxTypes, SawNoOther, StillReserved
  <1>9. QED
    <2> HIDE DEF BoxInv
    <2>1. QED
      BY <1>1, <1>2, <1>3, <1>4, <1>5, <1>6, <1>7, <1>8 DEF Boxes!Next

\* Only its own write ends a session's reserve, and it saw nobody else's.
LEMMA BoxReplaces == BoxInv /\ Boxes!Next => Boxes!Replaces
  <1> SUFFICES ASSUME BoxInv, NEW c \in Callers, session[c] \in Boxes!Names
               PROVE  seen[c] \in {None, c}
    BY DEF Boxes!Replaces, session, seen
  <1>1. QED
    BY DEF BoxInv, SawNoOther

\* What lets a queue start is a reservation of its own wherever the shared
\* file has one: by name, or by hostname when there is none by name.
LEMMA BoxStarts == BoxInv /\ Boxes!Next => Boxes!Starts
  <1> SUFFICES ASSUME BoxInv, Boxes!Next, NEW c \in Callers,
                      session[c] = "launched", session'[c] = "running", owed # {}, "box" \in mounted
               PROVE  \E n \in Boxes!Names : c \in {store["shared"][n], store["box"][n]}
    BY DEF Boxes!Starts, session, owed, store, mounted
  <1>1. Boxes!RunHere(c)
    <2>1. ASSUME NEW d \in Callers, Boxes!Write(d) \/ Boxes!RunOn(d)
                                    \/ \E n \in Boxes!Names : Boxes!Check(d, n) \/ Boxes!Force(d, n)
          PROVE  FALSE
      BY <2>1 DEF Boxes!Write, Boxes!RunOn, Boxes!Check, Boxes!Force, Boxes!Names, BoxInv, BoxTypes,
                  session
    <2>2. ASSUME NEW h \in Boxes!Hosts, Boxes!Remount(h) \/ \E n \in Boxes!Names : Boxes!Release(h, n)
          PROVE  FALSE
      BY <2>2 DEF Boxes!Remount, Boxes!Release, session
    <2>3. ASSUME NEW d \in Callers, Boxes!RunHere(d) PROVE d = c
      BY <2>3 DEF Boxes!RunHere, BoxInv, BoxTypes, session
    <2>4. QED
      BY <2>1, <2>2, <2>3 DEF Boxes!Next
  <1>2. ~Boxes!Refusal("box", "here", c)
    BY <1>1 DEF Boxes!RunHere, BoxInv, BoxTypes, session
  <1> DEFINE A(n) == Boxes!Active("box", n)
  <1>3. \A n \in Boxes!Names :
          A(n) = IF store["shared"][n] # None THEN store["shared"][n] ELSE store["box"][n]
    BY DEF Boxes!Active, store, mounted
  <1>4. (IF A("name") = None THEN A("hostname") ELSE A("name")) \in {None, c}
    BY <1>2 DEF Boxes!Refusal
  <1>5. store["shared"]["name"] # None \/ store["shared"]["hostname"] # None
    BY DEF BoxInv, StillReserved, Boxes!Names
  <1> HIDE DEF A
  <1>6. QED
    BY <1>3, <1>4, <1>5 DEF Boxes!Names

\* Library's finite sets are counted like anyone's.
LEMMA LibraryCounts == ASSUME NEW S PROVE Library!Cardinality(S) = Cardinality(S)
  BY DEF Library!Cardinality, Cardinality

-----------------------------------------------------------------------------
(* The downloads of a repository (Downloads).                              *)

entry == v1
fetch == v2
rc == v3
lockpid == v4
child == v5
asked == v6
whole == v7
orphan == v8

Stages == {"none", "spawned", "locked", "fetching", "dying", "over"}

HubTypes ==
  /\ entry \in [status : {"downloading", "done", "stopped", "failed"}, pid : {0} \cup Hub!Fetches]
  /\ fetch \in [Hub!Fetches -> Stages]
  /\ child \in {0} \cup Hub!Fetches /\ orphan \in BOOLEAN

\* One fetch is past the lock, and the lock has its pid once it fetches.
LockIsHeld ==
  /\ \A p, g \in Hub!Fetches :
       fetch[p] \in {"locked", "fetching"} /\ fetch[g] \in {"locked", "fetching"} => p = g
  /\ \A p \in Hub!Fetches : fetch[p] = "fetching" => lockpid = p

\* A fetch at work is the entry's, and this server's child or one that has
\* written its pid.
Works(p) == fetch[p] \in {"spawned", "locked", "fetching"}
EntryHasIt ==
  ~orphan => \A p \in Hub!Fetches : Works(p) =>
    /\ entry.status = "downloading" /\ entry.pid = p
    /\ child = p \/ (child = 0 /\ fetch[p] = "fetching")

\* The exit code of the download that is shown is of files that are there.
RcIsTrue == entry.status = "downloading" /\ rc = "0" => whole

HubInv == HubTypes /\ LockIsHeld /\ EntryHasIt /\ RcIsTrue

LEMMA HubFetches == 0 \notin Hub!Fetches /\ IsFiniteSet(Hub!Fetches)
  BY LocalAssumption, FS_Interval DEF Hub!Fetches

LEMMA HubInit == Hub!Init => HubInv
  <1> SUFFICES ASSUME Hub!Init
               PROVE  HubInv
    OBVIOUS
  <1>1. /\ entry = [status |-> "stopped", pid |-> 0] /\ fetch = [p \in Hub!Fetches |-> "none"]
        /\ child = 0 /\ orphan = FALSE
    BY DEF Hub!Init, Hub!Entry, entry, fetch, child, orphan
  <1>2. QED
    BY <1>1 DEF HubInv, HubTypes, Stages, LockIsHeld, EntryHasIt, Works, RcIsTrue

\* What _alive says: while a fetch is at work and known, it is alive.
LEMMA AliveSees ==
  ASSUME HubInv, ~orphan, NEW p \in Hub!Fetches, Works(p)
  PROVE  Hub!Alive
  <1>1. entry.pid = p /\ (child = p \/ (child = 0 /\ fetch[p] = "fetching" /\ lockpid = p))
    BY DEF HubInv, EntryHasIt, LockIsHeld
  <1>2. p \in Hub!Living /\ p # 0 /\ (fetch[p] = "fetching" => p \in Hub!Holding)
    BY HubFetches DEF Hub!Living, Hub!Holding, Works, fetch
  <1>3. QED
    BY <1>1, <1>2 DEF Hub!Alive, child, entry, lockpid

\* A fetch that ends, or is told to, disturbs nothing.
LEMMA FetchLeaves ==
  ASSUME HubInv, NEW p \in Hub!Fetches, NEW to \in {"dying", "over"},
         fetch' = [fetch EXCEPT ![p] = to], UNCHANGED <<entry, lockpid, child, orphan>>,
         RcIsTrue'
  PROVE  HubInv'
  <1>1. \A g \in Hub!Fetches : fetch'[g] = IF g = p THEN to ELSE fetch[g]
    BY DEF HubInv, HubTypes
  <1>2. HubTypes'
    BY DEF HubInv, HubTypes, Stages
  <1>3. LockIsHeld'
    BY <1>1 DEF HubInv, LockIsHeld
  <1>4. EntryHasIt'
    BY <1>1 DEF HubInv, EntryHasIt, Works
  <1>5. QED
    BY <1>2, <1>3, <1>4 DEF HubInv

LEMMA HubNext == HubInv /\ [Hub!Next]_(Hub!dvars) => HubInv'
  <1> SUFFICES ASSUME HubInv, [Hub!Next]_(Hub!dvars)
               PROVE  HubInv'
    OBVIOUS
  <1>t. HubTypes /\ LockIsHeld /\ EntryHasIt /\ RcIsTrue
    BY DEF HubInv
  <1>e. Hub!Ended \in [status : {"done", "stopped", "failed"}, pid : {0} \cup Hub!Fetches]
    BY DEF Hub!Ended, Hub!Entry
  <1>a. ~orphan /\ ~Hub!Alive => \A p \in Hub!Fetches : ~Works(p)
    BY AliveSees
  <1>1. ASSUME NEW r \in Requests, Hub!Ask(r) \/ Hub!Refused(r) PROVE HubInv'
    <2>1. UNCHANGED <<entry, fetch, rc, lockpid, child, whole, orphan>>
      BY <1>1 DEF Hub!Ask, Hub!Refused, entry, fetch, rc, lockpid, child, whole, orphan
    <2>2. QED
      BY <1>t, <2>1 DEF HubInv, HubTypes, LockIsHeld, EntryHasIt, Works, RcIsTrue
  <1>2. ASSUME NEW r \in Requests, NEW p \in Hub!Fetches, Hub!Begin(r, p) PROVE HubInv'
    <2>1. CASE Hub!Alive
      <3>1. UNCHANGED <<entry, fetch, rc, lockpid, child, whole, orphan>>
        BY <1>2, <2>1 DEF Hub!Begin, entry, fetch, rc, lockpid, child, whole, orphan
      <3>2. QED
        BY <1>t, <3>1 DEF HubInv, HubTypes, LockIsHeld, EntryHasIt, Works, RcIsTrue
    <2>2. CASE ~Hub!Alive
      <3>1. /\ fetch' = [fetch EXCEPT ![p] = "spawned"] /\ rc' = "none" /\ child' = p
            /\ entry' = [status |-> "downloading", pid |-> p]
            /\ UNCHANGED <<lockpid, whole, orphan>>
        BY <1>2, <2>2 DEF Hub!Begin, Hub!Launch, Hub!Entry, entry, fetch, rc, lockpid, child, whole,
                         orphan
      <3>2. \A g \in Hub!Fetches : fetch'[g] = IF g = p THEN "spawned" ELSE fetch[g]
        BY <1>t, <3>1 DEF HubTypes
      <3>3. HubTypes'
        BY <1>t, <3>1 DEF HubTypes, Stages
      <3>4. LockIsHeld'
        BY <1>t, <3>1, <3>2 DEF LockIsHeld
      <3>5. EntryHasIt'
        BY <1>a, <2>2, <3>1, <3>2 DEF EntryHasIt, Works
      <3>6. QED
        BY <3>1, <3>3, <3>4, <3>5 DEF HubInv, RcIsTrue
    <2>3. QED
      BY <2>1, <2>2
  <1>3. CASE Hub!List
    <2>1. /\ ~Hub!Alive /\ entry' = Hub!Ended /\ UNCHANGED <<fetch, rc, lockpid, child, whole, orphan>>
      BY <1>3 DEF Hub!List, entry, fetch, rc, lockpid, child, whole, orphan
    <2>2. QED
      BY <1>t, <1>e, <1>a, <2>1 DEF HubInv, HubTypes, LockIsHeld, EntryHasIt, Works, RcIsTrue
  <1>4. CASE Hub!Stop
    <2>1. CASE Hub!Alive
      <3>1. /\ fetch' = [fetch EXCEPT ![entry.pid] = "dying"]
            /\ entry' = [status |-> "stopped", pid |-> 0]
            /\ UNCHANGED <<rc, lockpid, child, whole, orphan>>
        BY <1>4, <2>1 DEF Hub!Stop, Hub!Entry, entry, fetch, rc, lockpid, child, whole, orphan
      <3>2. \A g \in Hub!Fetches : fetch'[g] = IF g = entry.pid THEN "dying" ELSE fetch[g]
        BY <1>t, <3>1 DEF HubTypes
      <3>3. HubTypes'
        BY <1>t, <3>1 DEF HubTypes, Stages
      <3>4. LockIsHeld' /\ EntryHasIt' /\ RcIsTrue'
        BY <1>t, <3>1, <3>2 DEF LockIsHeld, EntryHasIt, Works, RcIsTrue
      <3>5. QED
        BY <3>3, <3>4 DEF HubInv
    <2>2. CASE ~Hub!Alive
      <3>1. entry' = Hub!Ended /\ UNCHANGED <<fetch, rc, lockpid, child, whole, orphan>>
        BY <1>4, <2>2 DEF Hub!Stop, entry, fetch, rc, lockpid, child, whole, orphan
      <3>2. QED
        BY <1>t, <1>e, <1>a, <2>2, <3>1 DEF HubInv, HubTypes, LockIsHeld, EntryHasIt, Works, RcIsTrue
    <2>3. QED
      BY <2>1, <2>2
  <1>5. CASE Hub!Removed
    <2>1. /\ entry.status # "downloading"
          /\ UNCHANGED <<entry, fetch, rc, lockpid, child, orphan>>
      BY <1>5 DEF Hub!Removed, entry, fetch, rc, lockpid, child, orphan
    <2>2. QED
      BY <1>t, <2>1 DEF HubInv, HubTypes, LockIsHeld, EntryHasIt, Works, RcIsTrue
  <1>6. ASSUME NEW cut \in {0} \cup Hub!Fetches, Hub!Restart(cut) PROVE HubInv'
    <2>1. CASE cut = 0
      <3>1. /\ child' = 0 /\ UNCHANGED <<entry, fetch, rc, lockpid, whole>>
            /\ orphan' = (orphan \/ \E p \in Hub!Fetches : fetch[p] \in {"spawned", "locked"})
        BY <1>6, <2>1 DEF Hub!Restart, entry, fetch, rc, lockpid, child, whole, orphan
      <3>2. QED
        BY <1>t, <3>1 DEF HubInv, HubTypes, LockIsHeld, EntryHasIt, Works, RcIsTrue
    <2>2. CASE cut # 0
      <3>1. /\ fetch' = [fetch EXCEPT ![cut] = "spawned"] /\ rc' = "none" /\ child' = 0
            /\ orphan' = TRUE /\ UNCHANGED <<entry, lockpid, whole>> /\ cut \in Hub!Fetches
        BY <1>6, <2>2 DEF Hub!Restart, Hub!Launch, entry, fetch, rc, lockpid, child, whole, orphan
      <3>2. \A g \in Hub!Fetches : fetch'[g] = IF g = cut THEN "spawned" ELSE fetch[g]
        BY <1>t, <3>1 DEF HubTypes
      <3>3. HubTypes'
        BY <1>t, <3>1 DEF HubTypes, Stages
      <3>4. LockIsHeld' /\ EntryHasIt' /\ RcIsTrue'
        BY <1>t, <3>1, <3>2 DEF LockIsHeld, EntryHasIt, RcIsTrue
      <3>5. QED
        BY <3>3, <3>4 DEF HubInv
    <2>3. QED
      BY <2>1, <2>2
  <1>7. ASSUME NEW p \in Hub!Fetches, Hub!Lock(p) PROVE HubInv'
    <2>1. /\ fetch[p] = "spawned" /\ UNCHANGED <<entry, rc, lockpid, child, whole, orphan>>
          /\ fetch' = [fetch EXCEPT ![p] = IF Hub!Holding = {} THEN "locked" ELSE "over"]
      BY <1>7 DEF Hub!Lock, entry, fetch, rc, lockpid, child, whole, orphan
    <2>2. RcIsTrue'
      BY <1>t, <2>1 DEF RcIsTrue
    <2>3. CASE Hub!Holding # {}
      BY <2>1, <2>2, <2>3, FetchLeaves
    <2>4. CASE Hub!Holding = {}
      <3>1. \A g \in Hub!Fetches : fetch[g] \notin {"locked", "fetching", "dying"}
        BY <2>4 DEF Hub!Holding, fetch
      <3>2. \A g \in Hub!Fetches : fetch'[g] = IF g = p THEN "locked" ELSE fetch[g]
        BY <1>t, <2>1, <2>4 DEF HubTypes
      <3>3. HubTypes'
        BY <1>t, <2>1, <2>4 DEF HubTypes, Stages
      <3>4. LockIsHeld'
        BY <3>1, <3>2 DEF LockIsHeld
      <3>5. EntryHasIt'
        BY <1>t, <2>1, <3>2 DEF EntryHasIt, Works
      <3>6. QED
        BY <2>2, <3>3, <3>4, <3>5 DEF HubInv
    <2>5. QED
      BY <2>3, <2>4
  <1>8. ASSUME NEW p \in Hub!Fetches, Hub!WritePid(p) PROVE HubInv'
    <2>1. /\ fetch[p] = "locked" /\ lockpid' = p /\ UNCHANGED <<entry, rc, child, whole, orphan>>
          /\ fetch' = [fetch EXCEPT ![p] = "fetching"]
      BY <1>8 DEF Hub!WritePid, entry, fetch, rc, lockpid, child, whole, orphan
    <2>2. \A g \in Hub!Fetches : fetch'[g] = IF g = p THEN "fetching" ELSE fetch[g]
      BY <1>t, <2>1 DEF HubTypes
    <2>3. HubTypes'
      BY <1>t, <2>1 DEF HubTypes, Stages
    <2>4. LockIsHeld'
      BY <1>t, <2>1, <2>2 DEF LockIsHeld
    <2>5. EntryHasIt'
      BY <1>t, <2>1, <2>2 DEF EntryHasIt, Works
    <2>6. QED
      BY <1>t, <2>1, <2>3, <2>4, <2>5 DEF HubInv, RcIsTrue
  <1>9. ASSUME NEW p \in Hub!Fetches, NEW ok \in BOOLEAN, Hub!Fetched(p, ok) PROVE HubInv'
    <2>1. /\ fetch' = [fetch EXCEPT ![p] = "over"] /\ UNCHANGED <<entry, lockpid, child, orphan>>
          /\ rc' = (IF ok THEN "0" ELSE "1") /\ whole' = (whole \/ ok)
      BY <1>9 DEF Hub!Fetched, entry, fetch, rc, lockpid, child, whole, orphan
    <2>2. RcIsTrue'
      BY <2>1 DEF RcIsTrue
    <2>3. QED
      BY <2>1, <2>2, FetchLeaves
  <1>10. ASSUME NEW p \in Hub!Fetches, Hub!Dies(p) PROVE HubInv'
    <2>1. /\ fetch' = [fetch EXCEPT ![p] = "over"]
          /\ UNCHANGED <<entry, rc, lockpid, child, whole, orphan>>
      BY <1>10 DEF Hub!Dies, entry, fetch, rc, lockpid, child, whole, orphan
    <2>2. RcIsTrue'
      BY <1>t, <2>1 DEF RcIsTrue
    <2>3. QED
      BY <2>1, <2>2, FetchLeaves
  <1>11. CASE UNCHANGED Hub!dvars
    <2>1. UNCHANGED <<entry, fetch, rc, lockpid, child, whole, orphan>>
      BY <1>11 DEF Hub!dvars, entry, fetch, rc, lockpid, child, whole, orphan
    <2>2. QED
      BY <1>t, <2>1 DEF HubInv, HubTypes, LockIsHeld, EntryHasIt, Works, RcIsTrue
  <1>12. QED
    BY <1>1, <1>2, <1>3, <1>4, <1>5, <1>6, <1>7, <1>8, <1>9, <1>10, <1>11 DEF Hub!Next

\* A download turns done by its exit code, which is of what is there.
LEMMA HubSettles == HubInv /\ Hub!Next => Hub!Settles
  <1> SUFFICES ASSUME HubInv, Hub!Next, entry'.status = "done", entry.status # "done"
               PROVE  whole
    BY DEF Hub!Settles, entry, whole
  <1>1. entry.status = "downloading" /\ entry' = Hub!Ended
    <2>1. entry' # entry
      OBVIOUS
    <2>2. ~\E r \in Requests, p \in Hub!Fetches : Hub!Begin(r, p)
      BY <2>1 DEF Hub!Begin, Hub!Entry, entry
    <2>3. Hub!List \/ Hub!Stop
      BY <2>1, <2>2 DEF Hub!Next, Hub!Ask, Hub!Refused, Hub!Removed, Hub!Restart, Hub!Lock,
                        Hub!WritePid, Hub!Dies, Hub!Fetched, entry
    <2>4. QED
      BY <2>3 DEF Hub!List, Hub!Stop, Hub!Entry, entry
  <1>2. rc = "0"
    BY <1>1 DEF Hub!Ended, Hub!Entry, rc
  <1>3. QED
    BY <1>1, <1>2 DEF HubInv, RcIsTrue

\* One fetch is at work at most, and the entry shows it.
LEMMA HubShows == HubInv => Hub!ShownAsItIs
  <1> SUFFICES ASSUME HubInv, ~orphan
               PROVE  LET working == {p \in Hub!Living : fetch[p] # "dying"}
                      IN  /\ Cardinality(working) <= 1
                          /\ entry.status # "downloading" => working = {}
    BY LibraryCounts DEF Hub!ShownAsItIs, Hub!Cardinality, Cardinality, fetch, orphan, entry
  <1> DEFINE working == {p \in Hub!Living : fetch[p] # "dying"}
  <1>1. \A p \in working : p \in Hub!Fetches /\ Works(p)
    BY DEF HubInv, HubTypes, Stages, Hub!Living, Works, fetch
  <1>2. \A p \in working : entry.status = "downloading" /\ p = entry.pid
    BY <1>1 DEF HubInv, EntryHasIt
  <1> HIDE DEF working
  <1>3. Cardinality(working) <= 1
    <2>1. CASE working = {}
      BY <2>1, FS_EmptySet
    <2>2. CASE working # {}
      <3>1. working = {entry.pid}
        BY <1>2, <2>2
      <3>2. Cardinality(working) = 1
        BY <3>1, FS_Singleton
      <3>3. QED
        BY <3>2
    <2>3. QED
      BY <2>1, <2>2
  <1>4. QED
    BY <1>2, <1>3 DEF working

-----------------------------------------------------------------------------
(* Queues started from the GUI (GuiStarts).                                *)

file == v1
tokens == v2
issued == v3
busy == v4
runs == v5

Shown == Versions \X {"preflight", "full"}

GuiRun == [of : Nat, ran : Shown, token : Nat, shown : Shown,
           status : {"pinned", "running", "passed", "halted"}, live : Nat,
           recorded : BOOLEAN, cut : BOOLEAN]

Doing == [does : {"idle", "start", "resume", "claim"}, of : Nat, token : Nat,
          shown : Shown \cup {<<>>}]

GuiTypes ==
  /\ file \in Versions /\ issued \in Nat
  /\ DOMAIN tokens \subseteq 1..issued /\ \A t \in DOMAIN tokens : tokens[t] \in Shown
  /\ busy \in Doing /\ runs \in Seq(GuiRun)
  /\ busy.of \in 0..Len(runs) /\ \A i \in 1..Len(runs) : runs[i].of \in 0..Len(runs)

\* A token that a queue or the start under way was given for is spent.
TokensOnce ==
  /\ \A i \in 1..Len(runs) : runs[i].token \in 1..issued /\ runs[i].token \notin DOMAIN tokens
  /\ \A i, j \in 1..Len(runs) : i # j => runs[i].token # runs[j].token
  /\ busy.does = "start" =>
       /\ busy.token \in 1..issued /\ busy.token \notin DOMAIN tokens
       /\ \A i \in 1..Len(runs) : runs[i].token # busy.token

\* What was confirmed fixes the mode, and the bytes where they are pinned.
AsConfirmed ==
  /\ \A i \in 1..Len(runs) :
       runs[i].ran[2] = runs[i].shown[2] /\ (runs[i].of # 0 => runs[i].ran = runs[i].shown)
  /\ busy.does = "start" =>
       /\ busy.shown \in Shown
       /\ busy.of = 0 => busy.shown[2] = "preflight"
       /\ busy.of # 0 => busy.shown = <<runs[busy.of].ran[1], "full">>

\* A preflight with a full run, made or under way, has passed and has only that.
Passed(i) == runs[i].status = "passed" \/ runs[i].cut
FullOnce ==
  /\ \A i \in 1..Len(runs) : runs[i].of # 0 =>
       Passed(runs[i].of) /\ \A j \in 1..Len(runs) : i # j => runs[i].of # runs[j].of
  /\ busy.does = "start" /\ busy.of # 0 =>
       Passed(busy.of) /\ \A i \in 1..Len(runs) : runs[i].of # busy.of

\* A runner whose launch was not cut short is the only one, and while it lives
\* its pid is recorded or about to be: so a resume finds none alive.
Runners ==
  /\ busy.does \in {"resume", "claim"} => busy.of # 0
  /\ \A i \in 1..Len(runs) : ~runs[i].cut =>
       /\ runs[i].live <= 1
       /\ runs[i].live > 0 =>
            /\ runs[i].status = "running"
            /\ runs[i].recorded \/ (busy.does = "claim" /\ busy.of = i)
       /\ busy.does = "resume" /\ busy.of = i => runs[i].live = 0 /\ runs[i].status # "passed"

GuiInv == GuiTypes /\ TokensOnce /\ AsConfirmed /\ FullOnce /\ Runners

LEMMA GuiInit == Gui!Init => GuiInv
  BY DEF Gui!Init, Gui!Idle, GuiInv, GuiTypes, TokensOnce, AsConfirmed, FullOnce, Runners,
     file, tokens, issued, busy, runs, Doing

\* What a start is confirmed by is a content and a mode.
LEMMA DigestIsShown ==
  ASSUME GuiTypes, NEW of \in {0} \cup DOMAIN runs
  PROVE  /\ Gui!Digest(of) \in Shown
         /\ of = 0 => Gui!Digest(of)[2] = "preflight"
         /\ of # 0 => Gui!Digest(of) = <<runs[of].ran[1], "full">>
  <1>1. CASE of = 0
    BY <1>1 DEF GuiTypes, Shown, Gui!Digest, file
  <1>2. CASE of # 0
    <2>1. runs[of].ran \in Shown
      <3>1. runs[of] \in GuiRun
        BY <1>2 DEF GuiTypes
      <3>2. QED
        BY <3>1 DEF GuiRun
    <2>2. Gui!Digest(of) = <<runs[of].ran[1], "full">>
      BY <1>2 DEF Gui!Digest, runs
    <2>3. QED
      BY <1>2, <2>1, <2>2 DEF Shown
  <1>3. QED
    BY <1>1, <1>2

\* A token that is spent is gone, the others stay as they were.
LEMMA TokenSpent ==
  ASSUME NEW t
  PROVE  /\ DOMAIN Gui!Without(t) = DOMAIN tokens \ {t}
         /\ \A u \in DOMAIN Gui!Without(t) : Gui!Without(t)[u] = tokens[u]
  BY DEF Gui!Without, tokens

\* A step that rewrites one queue's record: Create apart, what every action on
\* the queues does to their list.
LEMMA QueueRewritten ==
  ASSUME GuiTypes, NEW i \in 1..Len(runs), NEW r \in GuiRun, runs' = [runs EXCEPT ![i] = r]
  PROVE  /\ runs' \in Seq(GuiRun) /\ Len(runs') = Len(runs)
         /\ runs'[i] = r
         /\ \A j \in 1..Len(runs) : j # i => runs'[j] = runs[j]
  BY ExceptSeq DEF GuiTypes

LEMMA GuiNext == GuiInv /\ [Gui!Next]_(Gui!gvars) => GuiInv'
  <1> SUFFICES ASSUME GuiInv, [Gui!Next]_(Gui!gvars)
               PROVE  GuiInv'
    OBVIOUS
  <1> USE DEF GuiInv
  <1>d. DOMAIN runs = 1..Len(runs) /\ Len(runs) \in Nat
    BY DEF GuiTypes
  <1>t. \A i \in 1..Len(runs) : runs[i] \in GuiRun
    BY DEF GuiTypes
  <1>0. \A x : Gui!Idle.does = "idle" /\ Gui!Idle.of = 0 /\ Gui!Idle \in Doing
    BY DEF Gui!Idle, Doing
  <1>1. ASSUME NEW of \in {0} \cup DOMAIN runs, Gui!Plan(of) PROVE GuiInv'
    <2>1. UNCHANGED <<file, busy, runs>> /\ issued' = issued + 1 /\ issued \in Nat
      BY <1>1 DEF Gui!Plan, GuiTypes, file, busy, runs, issued
    <2>2. /\ DOMAIN tokens' = DOMAIN tokens \cup {issued + 1}
          /\ tokens'[issued + 1] = Gui!Digest(of)
          /\ \A t \in DOMAIN tokens : t # issued + 1 => tokens'[t] = tokens[t]
      BY <1>1, <2>1 DEF Gui!Plan, tokens, issued
    <2>3. GuiTypes'
      BY <2>1, <2>2, DigestIsShown DEF GuiTypes
    <2>4. TokensOnce'
      BY <2>1, <2>2 DEF TokensOnce, GuiTypes
    <2>5. QED
      BY <2>1, <2>3, <2>4 DEF AsConfirmed, FullOnce, Passed, Runners
  <1>2. ASSUME NEW t, Gui!Expire(t) PROVE GuiInv'
    <2>1. UNCHANGED <<file, busy, runs, issued>> /\ tokens' = Gui!Without(t)
      BY <1>2 DEF Gui!Expire, file, busy, runs, issued, tokens
    <2>2. GuiTypes'
      BY <2>1, TokenSpent DEF GuiTypes
    <2>3. TokensOnce'
      BY <2>1, TokenSpent DEF TokensOnce
    <2>4. QED
      BY <2>1, <2>2, <2>3 DEF AsConfirmed, FullOnce, Passed, Runners
  <1>3. ASSUME NEW v \in Versions, Gui!Edit(v) PROVE GuiInv'
    <2>1. UNCHANGED <<tokens, busy, runs, issued>> /\ file' \in Versions
      BY <1>3 DEF Gui!Edit, file, busy, runs, issued, tokens
    <2>2. QED
      BY <2>1 DEF GuiTypes, TokensOnce, AsConfirmed, FullOnce, Passed, Runners
  <1>4. ASSUME NEW of \in {0} \cup DOMAIN runs, NEW t \in DOMAIN tokens, Gui!Start(of, t)
        PROVE  GuiInv'
    <2>1. UNCHANGED <<file, runs, issued>> /\ tokens' = Gui!Without(t) /\ busy.does = "idle"
      BY <1>0, <1>4 DEF Gui!Start, file, busy, runs, issued, tokens
    <2>t. /\ DOMAIN tokens' = DOMAIN tokens \ {t}
          /\ \A u \in DOMAIN tokens' : tokens'[u] = tokens[u]
      BY <2>1, TokenSpent
    <2>2. CASE busy' = Gui!Idle
      <3>1. GuiTypes'
        BY <1>0, <1>d, <2>1, <2>2, <2>t DEF GuiTypes
      <3>2. TokensOnce'
        BY <1>0, <2>1, <2>2, <2>t DEF TokensOnce
      <3>3. QED
        BY <1>0, <2>1, <2>2, <3>1, <3>2 DEF AsConfirmed, FullOnce, Passed, Runners
    <2>3. CASE busy' # Gui!Idle
      <3>1. /\ tokens[t] = Gui!Digest(of) /\ Gui!Source(of)
            /\ busy' = [does |-> "start", of |-> of, token |-> t, shown |-> tokens[t]]
        BY <1>4, <2>3 DEF Gui!Start, Gui!Idle, busy, tokens
      <3>2. of \in Nat /\ of <= Len(runs) /\ t \in Nat /\ tokens[t] \in Shown
        BY <1>d DEF GuiTypes
      <3>3. GuiTypes'
        <4>1. busy' \in Doing /\ busy'.of = of
          BY <3>1, <3>2 DEF Doing
        <4>2. QED
          BY <1>d, <2>1, <2>t, <3>2, <4>1 DEF GuiTypes
      <3>4. TokensOnce'
        BY <2>1, <2>t, <3>1 DEF TokensOnce, GuiTypes
      <3>5. AsConfirmed'
        BY <2>1, <3>1, <3>2, DigestIsShown DEF AsConfirmed
      <3>6. of # 0 => runs[of].status = "passed" /\ \A i \in 1..Len(runs) : runs[i].of # of
        BY <1>d, <3>1 DEF Gui!Source, runs
      <3>7. FullOnce'
        BY <2>1, <3>1, <3>6 DEF FullOnce, Passed
      <3>8. Runners'
        BY <2>1, <3>1 DEF Runners
      <3>9. QED
        BY <3>3, <3>4, <3>5, <3>7, <3>8
    <2>4. QED
      BY <2>2, <2>3
  <1>5. ASSUME NEW i \in DOMAIN runs, Gui!Resume(i) PROVE GuiInv'
    <2>1. /\ UNCHANGED <<file, tokens, issued, runs>> /\ busy.does = "idle"
          /\ runs[i].status \in {"running", "halted"} /\ ~runs[i].recorded
          /\ busy' = [does |-> "resume", of |-> i, token |-> 0, shown |-> <<>>]
      BY <1>0, <1>5 DEF Gui!Resume, Gui!Idle, file, busy, runs, issued, tokens
    <2>2. i \in 1..Len(runs) /\ i # 0
      BY <1>d
    <2>3. GuiTypes'
      BY <1>d, <2>1, <2>2 DEF GuiTypes, Doing
    <2>4. Runners'
      BY <1>t, <2>1, <2>2 DEF Runners, GuiRun
    <2>5. QED
      BY <2>1, <2>3, <2>4 DEF TokensOnce, AsConfirmed, FullOnce, Passed
  <1>6. ASSUME Gui!Create PROVE GuiInv'
    <2> DEFINE new == [of |-> busy.of, ran |-> Gui!Digest(busy.of), token |-> busy.token,
                       shown |-> busy.shown, status |-> "pinned", live |-> 0,
                       recorded |-> FALSE, cut |-> FALSE]
    <2>1. /\ UNCHANGED <<file, tokens, issued>> /\ busy.does = "start"
          /\ runs' = Append(runs, new)
          /\ busy' = [busy EXCEPT !.does = "resume", !.of = Len(runs')]
      BY <1>6 DEF Gui!Create, file, tokens, issued, busy, runs
    <2>2. /\ busy.of \in {0} \cup DOMAIN runs /\ busy.of \in Nat /\ busy.token \in Nat
          /\ busy.shown \in Shown
      BY <1>d, <2>1 DEF GuiTypes, Doing, AsConfirmed
    <2>3. new \in GuiRun
      BY <2>2, DigestIsShown DEF GuiRun
    <2>4. /\ runs' \in Seq(GuiRun) /\ Len(runs') = Len(runs) + 1
          /\ runs'[Len(runs) + 1] = new
          /\ \A i \in 1..Len(runs) : runs'[i] = runs[i]
      BY <2>1, <2>3, AppendProperties DEF GuiTypes
    <2>5. busy' \in Doing /\ busy'.does = "resume" /\ busy'.of = Len(runs) + 1
      <3>1. busy \in Doing /\ Len(runs) + 1 \in Nat
        BY <1>d DEF GuiTypes
      <3>2. busy' = [busy EXCEPT !.does = "resume", !.of = Len(runs) + 1]
        BY <2>1, <2>4
      <3>3. QED
        BY <3>1, <3>2 DEF Doing
    <2>6. /\ new.of = busy.of /\ new.ran = Gui!Digest(busy.of) /\ new.token = busy.token
          /\ new.shown = busy.shown /\ new.status = "pinned" /\ new.live = 0 /\ ~new.cut
      OBVIOUS
    <2> HIDE DEF new
    <2>7. \A i \in 1..Len(runs') : i \in 1..Len(runs) \/ i = Len(runs) + 1
      BY <1>d, <2>4
    <2>8. GuiTypes'
      BY <1>d, <2>1, <2>2, <2>4, <2>5, <2>6, <2>7 DEF GuiTypes
    <2>9. TokensOnce'
      BY <2>1, <2>4, <2>5, <2>6, <2>7 DEF TokensOnce
    <2>10. AsConfirmed'
      <3>1. /\ new.ran[2] = new.shown[2]
            /\ new.of # 0 => new.ran = new.shown
        BY <2>1, <2>2, <2>6, DigestIsShown DEF AsConfirmed
      <3>2. QED
        BY <2>1, <2>4, <2>5, <2>7, <3>1 DEF AsConfirmed
    <2>11. FullOnce'
      <3>1. \A k \in 1..Len(runs) : Passed(k) => Passed(k)'
        BY <2>4 DEF Passed
      <3>2. busy.of # 0 => busy.of \in 1..Len(runs)
        BY <1>d, <2>2
      <3>3. \A i \in 1..Len(runs) : runs[i].of # 0 => runs[i].of \in 1..Len(runs)
        BY <1>d DEF GuiTypes
      <3>4. QED
        BY <2>1, <2>4, <2>5, <2>6, <2>7, <3>1, <3>2, <3>3 DEF FullOnce
    <2>12. Runners'
      BY <1>d, <1>t, <2>1, <2>4, <2>5, <2>6, <2>7 DEF Runners, GuiRun
    <2>13. QED
      BY <2>8, <2>9, <2>10, <2>11, <2>12
  <1>7. ASSUME Gui!Detach PROVE GuiInv'
    <2> DEFINE b == busy.of
               r == [runs[b] EXCEPT !.status = "running", !.live = @ + 1]
    <2>1. /\ UNCHANGED <<file, tokens, issued>> /\ busy.does = "resume"
          /\ runs' = [runs EXCEPT ![b] = r]
          /\ busy' = [busy EXCEPT !.does = "claim"]
      BY <1>7 DEF Gui!Detach, file, tokens, issued, busy, runs
    <2>2. b \in 1..Len(runs) /\ runs[b] \in GuiRun
      BY <1>d, <1>t, <2>1 DEF GuiTypes, Runners
    <2>3. /\ r \in GuiRun /\ r.status = "running" /\ r.live = runs[b].live + 1
          /\ r.of = runs[b].of /\ r.ran = runs[b].ran /\ r.token = runs[b].token
          /\ r.shown = runs[b].shown /\ r.cut = runs[b].cut
      <3>1. runs[b].live + 1 \in Nat
        BY <2>2 DEF GuiRun
      <3>2. r = [[runs[b] EXCEPT !.status = "running"] EXCEPT !.live = runs[b].live + 1]
        BY <2>2 DEF GuiRun
      <3>3. QED
        BY <2>2, <3>1, <3>2 DEF GuiRun
    <2> HIDE DEF r
    <2>4. /\ runs' \in Seq(GuiRun) /\ Len(runs') = Len(runs) /\ runs'[b] = r
          /\ \A j \in 1..Len(runs) : j # b => runs'[j] = runs[j]
      BY <2>1, <2>2, <2>3, QueueRewritten
    <2>5. busy' \in Doing /\ busy'.does = "claim" /\ busy'.of = b
      BY <2>1 DEF GuiTypes, Doing
    <2>6. GuiTypes'
      BY <2>1, <2>2, <2>3, <2>4, <2>5 DEF GuiTypes
    <2>7. TokensOnce'
      BY <2>1, <2>3, <2>4, <2>5 DEF TokensOnce
    <2>8. AsConfirmed'
      BY <2>1, <2>3, <2>4, <2>5 DEF AsConfirmed
    <2>9. FullOnce'
      BY <2>1, <2>3, <2>4, <2>5 DEF FullOnce, Passed, Runners
    <2>10. Runners'
      <3>1. ~runs[b].cut => runs[b].live = 0
        BY <2>1, <2>2 DEF Runners
      <3>2. ~r.cut => r.live = 1
        BY <2>2, <2>3, <3>1
      <3>3. \A i \in 1..Len(runs) : i # b /\ ~runs[i].cut =>
              runs[i].live <= 1
                /\ (runs[i].live > 0 => runs[i].status = "running" /\ runs[i].recorded)
        BY <2>1 DEF Runners
      <3>4. QED
        BY <2>2, <2>3, <2>4, <2>5, <3>2, <3>3 DEF Runners
    <2>11. QED
      BY <2>6, <2>7, <2>8, <2>9, <2>10
  <1>8. ASSUME Gui!Claim PROVE GuiInv'
    <2> DEFINE b == busy.of
               r == [runs[b] EXCEPT !.recorded = runs[b].live > 0]
    <2>1. /\ UNCHANGED <<file, tokens, issued>> /\ busy.does = "claim"
          /\ runs' = [runs EXCEPT ![b] = r]
          /\ busy' = Gui!Idle
      BY <1>8 DEF Gui!Claim, file, tokens, issued, busy, runs
    <2>2. b \in 1..Len(runs) /\ runs[b] \in GuiRun
      BY <1>d, <1>t, <2>1 DEF GuiTypes, Runners
    <2>3. /\ r \in GuiRun /\ r.status = runs[b].status /\ r.live = runs[b].live
          /\ r.of = runs[b].of /\ r.ran = runs[b].ran /\ r.token = runs[b].token
          /\ r.shown = runs[b].shown /\ r.cut = runs[b].cut
          /\ runs[b].live > 0 => r.recorded
      <3> DEFINE p == runs[b].live > 0
      <3>1. p \in BOOLEAN /\ r = [runs[b] EXCEPT !.recorded = p]
        OBVIOUS
      <3> HIDE DEF p
      <3>2. /\ r \in GuiRun /\ r.status = runs[b].status /\ r.live = runs[b].live
            /\ r.of = runs[b].of /\ r.ran = runs[b].ran /\ r.token = runs[b].token
            /\ r.shown = runs[b].shown /\ r.cut = runs[b].cut
            /\ p => r.recorded
        BY <2>2, <3>1 DEF GuiRun
      <3>3. QED
        BY <3>2 DEF p
    <2> HIDE DEF r
    <2>4. /\ runs' \in Seq(GuiRun) /\ Len(runs') = Len(runs) /\ runs'[b] = r
          /\ \A j \in 1..Len(runs) : j # b => runs'[j] = runs[j]
      BY <2>1, <2>2, <2>3, QueueRewritten
    <2>5. busy' \in Doing /\ busy'.does = "idle" /\ busy'.of = 0
      BY <1>0, <2>1
    <2>6. GuiTypes'
      BY <1>d, <2>1, <2>2, <2>3, <2>4, <2>5 DEF GuiTypes
    <2>7. TokensOnce'
      BY <2>1, <2>3, <2>4, <2>5 DEF TokensOnce
    <2>8. AsConfirmed'
      BY <2>1, <2>3, <2>4, <2>5 DEF AsConfirmed
    <2>9. FullOnce'
      BY <2>1, <2>3, <2>4, <2>5 DEF FullOnce, Passed, Runners
    <2>10. Runners'
      <3>1. ~r.cut => r.live <= 1 /\ (r.live > 0 => r.status = "running" /\ r.recorded)
        BY <2>2, <2>3 DEF Runners
      <3>2. \A i \in 1..Len(runs) : i # b /\ ~runs[i].cut =>
              runs[i].live <= 1
                /\ (runs[i].live > 0 => runs[i].status = "running" /\ runs[i].recorded)
        BY <2>1 DEF Runners
      <3>3. QED
        BY <2>2, <2>4, <2>5, <3>1, <3>2 DEF Runners
    <2>11. QED
      BY <2>6, <2>7, <2>8, <2>9, <2>10
  <1>9. ASSUME Gui!Abandon PROVE GuiInv'
    <2>1. UNCHANGED <<file, tokens, issued>> /\ busy' = Gui!Idle
      BY <1>9 DEF Gui!Abandon, file, tokens, issued, busy
    <2>2. busy' \in Doing /\ busy'.does = "idle" /\ busy'.of = 0
      BY <1>0, <2>1
    <2>3. CASE busy.does # "claim"
      <3>1. runs' = runs
        BY <1>9, <2>3 DEF Gui!Abandon, runs, busy
      <3>2. GuiTypes'
        BY <1>d, <2>1, <2>2, <3>1 DEF GuiTypes
      <3>3. QED
        BY <2>1, <2>2, <2>3, <3>1, <3>2 DEF TokensOnce, AsConfirmed, FullOnce, Passed, Runners
    <2>4. CASE busy.does = "claim"
      <3> DEFINE b == busy.of
                 r == [runs[b] EXCEPT !.cut = TRUE]
      <3>1. runs' = [runs EXCEPT ![b] = r]
        BY <1>9, <2>4 DEF Gui!Abandon, runs, busy
      <3>2. b \in 1..Len(runs) /\ runs[b] \in GuiRun
        BY <1>d, <1>t, <2>4 DEF GuiTypes, Runners
      <3>3. /\ r \in GuiRun /\ r.cut
            /\ r.of = runs[b].of /\ r.ran = runs[b].ran /\ r.token = runs[b].token
            /\ r.shown = runs[b].shown
        BY <3>2 DEF GuiRun
      <3> HIDE DEF r
      <3>4. /\ runs' \in Seq(GuiRun) /\ Len(runs') = Len(runs) /\ runs'[b] = r
            /\ \A j \in 1..Len(runs) : j # b => runs'[j] = runs[j]
        BY <3>1, <3>2, <3>3, QueueRewritten
      <3>5. GuiTypes'
        <4>1. \A k \in 1..Len(runs) : runs'[k].of = runs[k].of
          BY <3>3, <3>4
        <4>2. QED
          BY <1>d, <2>1, <2>2, <3>4, <4>1 DEF GuiTypes
      <3>6. TokensOnce'
        BY <2>1, <2>2, <3>3, <3>4, SMTT(40) DEF TokensOnce
      <3>7. AsConfirmed'
        BY <2>1, <2>2, <3>3, <3>4 DEF AsConfirmed
      <3>8. FullOnce'
        <4>1. \A k \in 1..Len(runs) : Passed(k) => Passed(k)'
          BY <3>3, <3>4 DEF Passed
        <4>2. \A k \in 1..Len(runs) : runs'[k].of = runs[k].of
          BY <3>3, <3>4
        <4>3. QED
          BY <1>d, <2>1, <2>2, <3>4, <4>1, <4>2 DEF FullOnce, GuiTypes
      <3>9. Runners'
        BY <2>1, <2>2, <2>4, <3>2, <3>3, <3>4 DEF Runners
      <3>10. QED
        BY <3>5, <3>6, <3>7, <3>8, <3>9
    <2>5. QED
      BY <2>3, <2>4
  <1>10. ASSUME NEW i \in DOMAIN runs, Gui!Runs(i) PROVE GuiInv'
    <2> DEFINE r == [runs[i] EXCEPT !.recorded = TRUE]
    <2>1. UNCHANGED <<file, tokens, issued, busy>> /\ runs' = [runs EXCEPT ![i] = r]
      BY <1>10 DEF Gui!Runs, file, tokens, issued, busy, runs
    <2>2. i \in 1..Len(runs) /\ runs[i] \in GuiRun
      BY <1>d, <1>t
    <2>3. /\ r \in GuiRun /\ r.status = runs[i].status /\ r.live = runs[i].live
          /\ r.of = runs[i].of /\ r.ran = runs[i].ran /\ r.token = runs[i].token
          /\ r.shown = runs[i].shown /\ r.cut = runs[i].cut /\ r.recorded
      BY <2>2 DEF GuiRun
    <2> HIDE DEF r
    <2>4. /\ runs' \in Seq(GuiRun) /\ Len(runs') = Len(runs) /\ runs'[i] = r
          /\ \A j \in 1..Len(runs) : j # i => runs'[j] = runs[j]
      BY <2>1, <2>2, <2>3, QueueRewritten
    <2>5. GuiTypes'
      BY <2>1, <2>2, <2>3, <2>4 DEF GuiTypes
    <2>6. TokensOnce'
      BY <2>1, <2>3, <2>4 DEF TokensOnce
    <2>7. AsConfirmed'
      BY <2>1, <2>2, <2>3, <2>4 DEF AsConfirmed
    <2>8. FullOnce'
      BY <2>1, <2>3, <2>4 DEF FullOnce, Passed
    <2>9. Runners'
      BY <2>1, <2>3, <2>4 DEF Runners
    <2>10. QED
      BY <2>5, <2>6, <2>7, <2>8, <2>9
  <1>11. ASSUME NEW i \in DOMAIN runs, NEW how \in {"passed", "halted"}, Gui!Ends(i, how)
         PROVE  GuiInv'
    <2> DEFINE r == [runs[i] EXCEPT !.status = how, !.live = @ - 1,
                                    !.recorded = @ /\ runs[i].live > 1]
    <2>1. /\ UNCHANGED <<file, tokens, issued, busy>> /\ runs' = [runs EXCEPT ![i] = r]
          /\ runs[i].live > 0
      BY <1>11 DEF Gui!Ends, file, tokens, issued, busy, runs
    <2>2. i \in 1..Len(runs) /\ runs[i] \in GuiRun
      BY <1>d, <1>t
    <2>3. /\ r \in GuiRun /\ r.status = how /\ r.live = runs[i].live - 1
          /\ r.of = runs[i].of /\ r.ran = runs[i].ran /\ r.token = runs[i].token
          /\ r.shown = runs[i].shown /\ r.cut = runs[i].cut
      <3> DEFINE n == runs[i].live - 1
                 p == runs[i].recorded /\ runs[i].live > 1
      <3>1. n \in Nat /\ p \in BOOLEAN
        BY <2>1, <2>2 DEF GuiRun
      <3>2. r = [runs[i] EXCEPT !.status = how, !.live = n, !.recorded = p]
        BY <2>2 DEF GuiRun
      <3> HIDE DEF n, p
      <3>3. /\ r \in GuiRun /\ r.status = how /\ r.live = n
            /\ r.of = runs[i].of /\ r.ran = runs[i].ran /\ r.token = runs[i].token
            /\ r.shown = runs[i].shown /\ r.cut = runs[i].cut
        BY <2>2, <3>1, <3>2 DEF GuiRun
      <3>4. QED
        BY <3>3 DEF n
    <2> HIDE DEF r
    <2>4. /\ runs' \in Seq(GuiRun) /\ Len(runs') = Len(runs) /\ runs'[i] = r
          /\ \A j \in 1..Len(runs) : j # i => runs'[j] = runs[j]
      BY <2>1, <2>2, <2>3, QueueRewritten
    <2>5. GuiTypes'
      BY <2>1, <2>2, <2>3, <2>4 DEF GuiTypes
    <2>6. TokensOnce'
      BY <2>1, <2>3, <2>4 DEF TokensOnce
    <2>7. AsConfirmed'
      BY <2>1, <2>2, <2>3, <2>4 DEF AsConfirmed
    <2>8. FullOnce'
      <3>1. \A k \in 1..Len(runs) : Passed(k) => Passed(k)'
        BY <2>1, <2>2, <2>3, <2>4 DEF Passed, Runners
      <3>2. \A k \in 1..Len(runs) : runs'[k].of = runs[k].of
        BY <2>3, <2>4
      <3>3. QED
        BY <1>d, <2>1, <2>4, <3>1, <3>2 DEF FullOnce, GuiTypes
    <2>9. Runners'
      BY <2>1, <2>2, <2>3, <2>4, SMTT(40) DEF Runners, GuiRun
    <2>10. QED
      BY <2>5, <2>6, <2>7, <2>8, <2>9
  <1>12. CASE UNCHANGED Gui!gvars
    <2>1. UNCHANGED <<file, tokens, issued, busy, runs>>
      BY <1>12 DEF Gui!gvars, file, tokens, issued, busy, runs
    <2>2. QED
      BY <2>1 DEF GuiTypes, TokensOnce, AsConfirmed, FullOnce, Passed, Runners
  <1>13. QED
    <2> HIDE DEF GuiInv
    <2>1. QED
      BY <1>1, <1>2, <1>3, <1>4, <1>5, <1>6, <1>7, <1>8, <1>9, <1>10, <1>11, <1>12
      DEF Gui!Next, runs, tokens

\* Every queue made from the GUI was confirmed for itself, a preflight gets its
\* full run once, and a queue has two runners only after a launch cut short.
LEMMA GuiHolds == GuiInv => Gui!StartsAreConfirmed /\ Gui!FullRunOnce /\ Gui!OneRunner
  <1> SUFFICES ASSUME GuiInv
               PROVE  Gui!StartsAreConfirmed /\ Gui!FullRunOnce /\ Gui!OneRunner
    OBVIOUS
  <1>1. DOMAIN runs = 1..Len(runs) /\ \A i \in 1..Len(runs) : runs[i] \in GuiRun
    BY DEF GuiInv, GuiTypes
  <1>2. Gui!StartsAreConfirmed
    BY <1>1 DEF GuiInv, AsConfirmed, TokensOnce, Gui!StartsAreConfirmed, runs
  <1>3. Gui!FullRunOnce
    BY <1>1 DEF GuiInv, FullOnce, Passed, Gui!FullRunOnce, runs
  <1>4. Gui!OneRunner
    BY <1>1 DEF GuiInv, Runners, GuiRun, Gui!OneRunner, runs
  <1>5. QED
    BY <1>2, <1>3, <1>4

-----------------------------------------------------------------------------
(* The models on the machine and their index (ModelScan).                  *)

disk == v1
scans == v2
found == v4
profiling == v6
profilers == v7
spent == v8
dated == v9
scansOverlap == v10

Uses == {"absent", "incomplete", "original", "quantized"}
Row == [model : Models, use : Uses]
Scanning == [at : 1..(Len(Folders) + 1), rows : Seq(Row)]
Active(s) == scans[s] \in Scanning

LibTypes ==
  /\ disk \in [Models -> Uses] /\ found \in Seq(Row)
  /\ scans \in [Library!Scanners -> Scanning \cup {Library!Idle}]
  /\ profiling \subseteq Models /\ profilers \subseteq Models \X Nat
  /\ spent \in [changes : Nat, scans : Nat, profiles : Nat]
  /\ dated \in BOOLEAN /\ scansOverlap \in BOOLEAN

\* A list of rows has a model once.
Once(rows) == \A i, j \in 1..Len(rows) : rows[i].model = rows[j].model => i = j

RowsOnce == Once(found) /\ \A s \in Library!Scanners : Active(s) => Once(scans[s].rows)

\* The models of the places before the k-th.
Reached(k) == {m \in Models : \E i \in 1..Len(Folders) : i < k /\ m \in Folders[i]}

\* A list of rows is the truth about some models.
Tells(rows, models) ==
  /\ \A i \in 1..Len(rows) : /\ rows[i].model \in models
                             /\ rows[i].use = disk[rows[i].model] /\ rows[i].use # "absent"
  /\ \A m \in models : disk[m] # "absent" => \E i \in 1..Len(rows) : rows[i].model = m

\* A scan beside no other, since which nothing changed, has the truth so far;
\* once it has ended, so has the index.
ScanTells ==
  ~scansOverlap =>
    /\ \A s, t \in Library!Scanners : Active(s) /\ Active(t) => s = t
    /\ ~dated =>
         /\ \A s \in Library!Scanners : Active(s) => Tells(scans[s].rows, Reached(scans[s].at))
         /\ (\A s \in Library!Scanners : ~Active(s)) => Tells(found, Models)

\* The models that are being profiled have a process each.
OneProfiler ==
  /\ \A j \in profilers : j[1] \in profiling /\ j[2] < spent.profiles
  /\ \A j, k \in profilers : j[1] = k[1] => j = k
  /\ \A m \in profiling : \E j \in profilers : j[1] = m

LibInv == LibTypes /\ RowsOnce /\ ScanTells /\ OneProfiler

\* A scanner is active or idle, never both.
LEMMA IdleIsNotActive ==
  ASSUME LibTypes, NEW s \in Library!Scanners
  PROVE  /\ scans[s] # Library!Idle <=> Active(s)
         /\ Active(s) => /\ scans[s].at \in Nat \ {0} /\ scans[s].at <= Len(Folders) + 1
                         /\ scans[s].rows \in Seq(Row)
  <1>1. Len(Folders) \in Nat
    BY LibraryAssumption
  <1>2. \A x \in Scanning : x.at \in Nat \ {0} /\ x.at <= Len(Folders) + 1 /\ x.rows \in Seq(Row)
    BY <1>1 DEF Scanning
  <1>3. Library!Idle \notin Scanning
    BY <1>2 DEF Library!Idle
  <1>4. QED
    BY <1>2, <1>3 DEF LibTypes, Active

\* The rows of some models, listed in any order: each model once, as it is.
LEMMA InOrderLists ==
  ASSUME LibTypes, NEW models \in SUBSET Models
  PROVE  /\ Library!InOrder(models) \in Seq(Row)
         /\ Once(Library!InOrder(models))
         /\ \A i \in 1..Len(Library!InOrder(models)) :
              /\ Library!InOrder(models)[i].model \in models
              /\ Library!InOrder(models)[i].use = disk[Library!InOrder(models)[i].model]
         /\ \A m \in models : \E i \in 1..Len(Library!InOrder(models)) :
              Library!InOrder(models)[i].model = m
  <1> DEFINE n == Cardinality(models)
             Onto(o) == \A m \in models : \E i \in DOMAIN o : o[i] = m
             order == CHOOSE o \in [1..n -> models] : Onto(o)
             rows == Library!InOrder(models)
  <1>1. IsFiniteSet(models)
    BY LibraryAssumption, FS_Subset
  <1>2. n \in Nat /\ ExistsBijection(1..n, models)
    BY <1>1, FS_CardinalityType
  <1>3. \E o \in [1..n -> models] : Onto(o)
    BY <1>2 DEF ExistsBijection, Bijection, Surjection, Injection
  <1>4. order \in [1..n -> models] /\ Onto(order)
    BY <1>3
  <1>5. order \in Surjection(1..n, models)
    BY <1>4 DEF Surjection
  <1>6. Cardinality(1..n) = n /\ IsFiniteSet(1..n)
    BY <1>2, FS_Interval
  <1>7. order \in Injection(1..n, models)
    BY <1>5, <1>6, FS_SurjSameCardinalityImpliesInj
  <1>8. rows = [i \in 1..n |-> [model |-> order[i], use |-> disk[order[i]]]]
    <2>1. rows = [i \in DOMAIN order |-> [model |-> order[i], use |-> disk[order[i]]]]
      <3>1. Library!Cardinality(models) = n
        BY LibraryCounts
      <3>2. QED
        BY <3>1, Zenon DEF Library!InOrder, disk
    <2> HIDE DEF order, rows
    <2>2. DOMAIN order = 1..n
      BY <1>4
    <2>3. QED
      BY <2>1, <2>2
  <1> HIDE DEF order, rows, n
  <1>9. \A i \in 1..n : order[i] \in models /\ rows[i] \in Row
                        /\ rows[i].model = order[i] /\ rows[i].use = disk[order[i]]
    BY <1>4, <1>8 DEF LibTypes, Row
  <1>10. rows \in Seq(Row) /\ Len(rows) = n
    <2>1. rows \in [1..n -> Row] /\ DOMAIN rows = 1..n
      BY <1>8, <1>9
    <2>2. n \in Nat
      BY <1>2
    <2>3. rows \in Seq(Row)
      BY <2>1, <2>2, SeqDef
    <2>4. QED
      BY <2>1, <2>2, <2>3, LenProperties
  <1>11. Once(rows)
    <2>1. \A i, j \in 1..n : order[i] = order[j] => i = j
      BY <1>7 DEF Injection, IsInjective
    <2>2. \A i, j \in 1..n : rows[i].model = rows[j].model => i = j
      BY <1>9, <2>1
    <2>3. QED
      BY <1>10, <2>2 DEF Once
  <1>12. \A m \in models : \E i \in 1..Len(rows) : rows[i].model = m
    BY <1>4, <1>9, <1>10
  <1>13. QED
    BY <1>9, <1>10, <1>11, <1>12 DEF rows

LEMMA LibInit == Library!Init => LibInv
  <1> SUFFICES ASSUME Library!Init
               PROVE  LibInv
    OBVIOUS
  <1>1. LibTypes
    <2>1. /\ disk = [m \in Models |-> "absent"] /\ scans = [s \in Library!Scanners |-> Library!Idle]
          /\ found = <<>> /\ profiling = {} /\ profilers = {}
          /\ spent = [changes |-> 0, scans |-> 0, profiles |-> 0] /\ dated = TRUE
          /\ scansOverlap = FALSE
      BY DEF Library!Init, disk, scans, found, profiling, profilers, spent, dated, scansOverlap
    <2>2. found \in Seq(Row)
      BY <2>1
    <2>3. QED
      BY <2>1, <2>2 DEF LibTypes, Uses
  <1>2. \A s \in Library!Scanners : ~Active(s)
    BY <1>1, IdleIsNotActive DEF Library!Init, scans
  <1>3. found = <<>> /\ dated = TRUE /\ profilers = {} /\ profiling = {}
    BY DEF Library!Init, found, dated, profilers, profiling
  <1>4. QED
    BY <1>1, <1>2, <1>3 DEF LibInv, RowsOnce, Once, ScanTells, OneProfiler

\* A scan begins with no rows, and alone unless that is noted.
LEMMA LibBegins ==
  ASSUME LibInv, NEW s \in Library!Scanners, Library!Begin(s)
  PROVE  LibInv'
  <1> USE DEF LibInv
  <1>1. /\ UNCHANGED <<disk, found, profiling, profilers>>
        /\ scans' = [scans EXCEPT ![s] = [at |-> 1, rows |-> <<>>]]
        /\ spent' = [spent EXCEPT !.scans = @ + 1]
        /\ dated' = FALSE
        /\ scansOverlap' = (scansOverlap \/ \E t \in Library!Scanners \ {s} : scans[t] # Library!Idle)
    BY DEF Library!Begin, disk, scans, found, profiling, profilers, spent, dated, scansOverlap
  <1>2. Len(Folders) \in Nat /\ [at |-> 1, rows |-> <<>>] \in Scanning
    BY LibraryAssumption DEF Scanning
  <1>3. spent' \in [changes : Nat, scans : Nat, profiles : Nat] /\ spent'.profiles = spent.profiles
    BY <1>1 DEF LibTypes
  <1>4. /\ scans' \in [Library!Scanners -> Scanning \cup {Library!Idle}]
        /\ scans'[s].at = 1 /\ scans'[s].rows = <<>>
        /\ \A t \in Library!Scanners : t # s => scans'[t] = scans[t]
    BY <1>1, <1>2 DEF LibTypes
  <1>5. LibTypes'
    BY <1>1, <1>3, <1>4 DEF LibTypes
  <1>6. ~scansOverlap' => \A t \in Library!Scanners : t # s => ~Active(t)'
    BY <1>1, <1>4, IdleIsNotActive DEF Active
  <1>7. RowsOnce'
    BY <1>1, <1>4 DEF RowsOnce, Once, Active
  <1>8. Active(s)'
    BY <1>1, <1>2, <1>4 DEF Active, LibTypes
  <1>9. ScanTells'
    BY <1>1, <1>4, <1>6, <1>8 DEF ScanTells, Tells, Reached
  <1>10. QED
    BY <1>1, <1>3, <1>5, <1>7, <1>9 DEF OneProfiler

\* A place's new models join the rows, each once and as it is.
LEMMA LibReads ==
  ASSUME LibInv, NEW s \in Library!Scanners, Library!ReadPlace(s)
  PROVE  LibInv'
  <1> USE DEF LibInv
  <1> DEFINE at == scans[s].at
             rows == scans[s].rows
             new == Library!NewHere(s, Folders[at])
             more == Library!InOrder(new)
  <1>1. /\ UNCHANGED <<disk, found, profiling, profilers, spent, dated, scansOverlap>>
        /\ scans[s] # Library!Idle /\ at <= Len(Folders)
        /\ scans' = [scans EXCEPT ![s] = [at |-> at + 1, rows |-> rows \o more]]
    BY DEF Library!ReadPlace, disk, scans, found, profiling, profilers, spent, dated, scansOverlap
  <1>2. /\ Active(s) /\ at \in 1..Len(Folders) /\ rows \in Seq(Row)
        /\ Len(Folders) \in Nat
    BY <1>1, IdleIsNotActive, LibraryAssumption
  <1>3. /\ new \subseteq Models
        /\ \A m \in new : m \in Folders[at] /\ disk[m] # "absent"
                          /\ \A i \in 1..Len(rows) : rows[i].model # m
        /\ \A m \in Folders[at] : disk[m] # "absent" =>
             m \in new \/ \E i \in 1..Len(rows) : rows[i].model = m
    <2>1. Folders[at] \subseteq Models
      BY <1>2, LibraryAssumption
    <2>2. DOMAIN rows = 1..Len(rows)
      BY <1>2
    <2>3. QED
      BY <2>1, <2>2 DEF Library!NewHere, Library!RowModels, disk, scans
  <1>4. /\ more \in Seq(Row) /\ Once(more)
        /\ \A i \in 1..Len(more) : more[i].model \in new /\ more[i].use = disk[more[i].model]
        /\ \A m \in new : \E i \in 1..Len(more) : more[i].model = m
    BY <1>3, InOrderLists
  <1> HIDE DEF new, more
  <1> DEFINE all == rows \o more
  <1>5. /\ all \in Seq(Row) /\ Len(all) = Len(rows) + Len(more)
        /\ \A i \in 1..Len(rows) : i \in 1..Len(all) /\ all[i] = rows[i]
        /\ \A i \in 1..Len(more) : Len(rows) + i \in 1..Len(all) /\ all[Len(rows) + i] = more[i]
        /\ \A i \in 1..Len(all) :
             i \in 1..Len(rows) \/ \E k \in 1..Len(more) : i = Len(rows) + k
    <2>1. Len(rows) \in Nat /\ Len(more) \in Nat
      BY <1>2, <1>4
    <2>2. /\ all \in Seq(Row) /\ Len(all) = Len(rows) + Len(more)
          /\ \A i \in 1..(Len(rows) + Len(more)) :
               all[i] = IF i <= Len(rows) THEN rows[i] ELSE more[i - Len(rows)]
      BY <1>2, <1>4, ConcatProperties
    <2>3. \A i \in 1..(Len(rows) + Len(more)) : i > Len(rows) =>
            i - Len(rows) \in 1..Len(more) /\ i = Len(rows) + (i - Len(rows))
      BY <2>1
    <2>4. QED
      BY <2>1, <2>2, <2>3
  <1> HIDE DEF all
  <1>6. /\ scans' \in [Library!Scanners -> Scanning \cup {Library!Idle}]
        /\ Active(s)' /\ scans'[s].at = at + 1 /\ scans'[s].rows = all
        /\ \A t \in Library!Scanners : t # s => scans'[t] = scans[t]
    <2>1. [at |-> at + 1, rows |-> all] \in Scanning
      BY <1>2, <1>5 DEF Scanning
    <2>2. QED
      BY <1>1, <2>1 DEF LibTypes, Active, all
  <1>7. LibTypes'
    BY <1>1, <1>6 DEF LibTypes
  <1>8. Once(rows)
    BY <1>2 DEF RowsOnce
  <1>9. Once(all)
    <2>1. \A i \in 1..Len(rows), k \in 1..Len(more) : rows[i].model # more[k].model
      BY <1>3, <1>4
    <2>2. \A i \in 1..Len(rows), j \in 1..Len(rows) : all[i].model = all[j].model => i = j
      BY <1>5, <1>8 DEF Once
    <2>3. \A i \in 1..Len(more), j \in 1..Len(more) :
            all[Len(rows) + i].model = all[Len(rows) + j].model => i = j
      BY <1>4, <1>5, ZenonT(40) DEF Once
    <2>4. \A i \in 1..Len(rows), k \in 1..Len(more) : all[i].model # all[Len(rows) + k].model
      <3> SUFFICES ASSUME NEW i \in 1..Len(rows), NEW k \in 1..Len(more)
                   PROVE  all[i].model # all[Len(rows) + k].model
        OBVIOUS
      <3>1. all[i] = rows[i] /\ all[Len(rows) + k] = more[k]
        BY <1>5
      <3>2. QED
        BY <2>1, <3>1
    <2> SUFFICES ASSUME NEW i \in 1..Len(all), NEW j \in 1..Len(all), all[i].model = all[j].model
                 PROVE  i = j
      BY DEF Once
    <2>5. CASE i \in 1..Len(rows)
      <3>1. j \in 1..Len(rows)
        <4>1. ASSUME j \notin 1..Len(rows) PROVE FALSE
          <5>1. PICK k \in 1..Len(more) : j = Len(rows) + k
            BY <1>5, <4>1
          <5>2. QED
            BY <2>4, <2>5, <5>1
        <4>2. QED
          BY <4>1
      <3>2. QED
        BY <2>2, <2>5, <3>1
    <2>6. CASE i \notin 1..Len(rows)
      <3>2. PICK k \in 1..Len(more) : i = Len(rows) + k
        BY <1>5, <2>6
      <3>1. j \notin 1..Len(rows)
        BY <2>4, <3>2
      <3>3. PICK l \in 1..Len(more) : j = Len(rows) + l
        BY <1>5, <3>1
      <3>4. QED
        BY <2>3, <3>2, <3>3
    <2>7. QED
      BY <2>5, <2>6
  <1>10. RowsOnce'
    BY <1>1, <1>6, <1>9 DEF RowsOnce, Active
  <1>11. ASSUME Tells(rows, Reached(at)) PROVE Tells(all, Reached(at + 1))
    <2>1. \A m \in Models : m \in Reached(at + 1) <=> m \in Reached(at) \/ m \in Folders[at]
      BY <1>2 DEF Reached
    <2>2. \A i \in 1..Len(all) : /\ all[i].model \in Reached(at + 1)
                                 /\ all[i].use = disk[all[i].model] /\ all[i].use # "absent"
      <3>1. \A i \in 1..Len(rows) : /\ rows[i].model \in Reached(at + 1)
                                    /\ rows[i].use = disk[rows[i].model] /\ rows[i].use # "absent"
        BY <1>11, <2>1 DEF Tells, Reached
      <3>2. \A i \in 1..Len(more) : /\ more[i].model \in Reached(at + 1)
                                    /\ more[i].use = disk[more[i].model] /\ more[i].use # "absent"
        BY <1>3, <1>4, <2>1
      <3> SUFFICES ASSUME NEW i \in 1..Len(all)
                   PROVE  /\ all[i].model \in Reached(at + 1)
                          /\ all[i].use = disk[all[i].model] /\ all[i].use # "absent"
        OBVIOUS
      <3>3. CASE i \in 1..Len(rows)
        BY <1>5, <3>1, <3>3
      <3>4. CASE i \notin 1..Len(rows)
        <4>1. PICK k \in 1..Len(more) : i = Len(rows) + k
          BY <1>5, <3>4
        <4>2. all[i] = more[k]
          BY <1>5, <4>1
        <4>3. QED
          BY <3>2, <4>2
      <3>5. QED
        BY <3>3, <3>4
    <2>3. \A m \in Reached(at + 1) : disk[m] # "absent" => \E i \in 1..Len(all) : all[i].model = m
      <3> SUFFICES ASSUME NEW m \in Reached(at + 1), disk[m] # "absent"
                   PROVE  \E i \in 1..Len(all) : all[i].model = m
        OBVIOUS
      <3>1. m \in Models
        BY DEF Reached
      <3>2. m \in new \/ \E i \in 1..Len(rows) : rows[i].model = m
        BY <1>3, <1>11, <2>1, <3>1 DEF Tells
      <3>3. QED
        <4>1. CASE m \in new
          <5>1. PICK k \in 1..Len(more) : more[k].model = m
            BY <1>4, <4>1
          <5>2. Len(rows) + k \in 1..Len(all) /\ all[Len(rows) + k] = more[k]
            BY <1>5
          <5>3. QED
            BY <5>1, <5>2
        <4>2. CASE \E i \in 1..Len(rows) : rows[i].model = m
          BY <1>5, <4>2
        <4>3. QED
          BY <3>2, <4>1, <4>2
    <2>4. QED
      BY <2>2, <2>3 DEF Tells
  <1>12. ScanTells'
    <2> SUFFICES ASSUME ~scansOverlap
                 PROVE  ScanTells'
      BY <1>1 DEF ScanTells
    <2>1. \A t \in Library!Scanners : Active(t)' => t = s
      BY <1>2, <1>6 DEF ScanTells, Active
    <2>2. ~dated => Tells(scans[s].rows, Reached(scans[s].at))'
      <3>1. ~dated => Tells(rows, Reached(at))
        BY <1>2 DEF ScanTells
      <3>2. ~dated => Tells(all, Reached(at + 1))
        BY <1>1, <1>11, <3>1
      <3>3. Tells(all, Reached(at + 1)) => Tells(scans[s].rows, Reached(scans[s].at))'
        <4>1. Reached(scans[s].at)' = Reached(at + 1)
          BY <1>6 DEF Reached
        <4>2. scans'[s].rows = all /\ disk' = disk
          BY <1>1, <1>6
        <4>3. QED
          BY <4>1, <4>2 DEF Tells
      <3>4. QED
        BY <3>2, <3>3
    <2>3. QED
      BY <1>1, <1>6, <2>1, <2>2 DEF ScanTells
  <1>13. QED
    BY <1>1, <1>7, <1>10, <1>12 DEF OneProfiler

\* A scan that ends puts its rows in the index, or leaves that as it was.
LEMMA LibEnds ==
  ASSUME LibInv, NEW s \in Library!Scanners, NEW written \in BOOLEAN, Library!EndScan(s, written)
  PROVE  LibInv'
  <1> USE DEF LibInv
  <1>1. /\ UNCHANGED <<disk, profiling, profilers, spent, scansOverlap>>
        /\ scans[s] # Library!Idle /\ scans[s].at > Len(Folders)
        /\ scans' = [scans EXCEPT ![s] = Library!Idle]
        /\ found' = IF written THEN scans[s].rows ELSE found
        /\ dated' = (dated \/ ~written)
    BY DEF Library!EndScan, disk, scans, found, profiling, profilers, spent, dated, scansOverlap
  <1>2. /\ Active(s) /\ scans[s].rows \in Seq(Row) /\ scans[s].at = Len(Folders) + 1
        /\ Len(Folders) \in Nat
    BY <1>1, IdleIsNotActive, LibraryAssumption
  <1>3. Reached(scans[s].at) = Models
    BY <1>2, LibraryAssumption DEF Reached
  <1>4. /\ scans' \in [Library!Scanners -> Scanning \cup {Library!Idle}]
        /\ scans'[s] = Library!Idle
        /\ \A t \in Library!Scanners : t # s => scans'[t] = scans[t]
    BY <1>1 DEF LibTypes
  <1>5. LibTypes'
    BY <1>1, <1>2, <1>4 DEF LibTypes
  <1>6. ~Active(s)' /\ \A t \in Library!Scanners : t # s => (Active(t)' <=> Active(t))
    BY <1>4, <1>5, IdleIsNotActive DEF Active, Scanning, Library!Idle
  <1>7. RowsOnce'
    BY <1>1, <1>2, <1>4, <1>6 DEF RowsOnce
  <1>8. ScanTells'
    <2> SUFFICES ASSUME ~scansOverlap
                 PROVE  ScanTells'
      BY <1>1 DEF ScanTells
    <2>1. \A t \in Library!Scanners : ~Active(t)'
      BY <1>2, <1>6 DEF ScanTells
    <2>2. ~dated' => ~dated /\ found' = scans[s].rows
      BY <1>1
    <2>3. ~dated' => Tells(found, Models)'
      BY <1>1, <1>2, <1>3, <2>2 DEF ScanTells, Tells
    <2>4. QED
      BY <2>1, <2>3 DEF ScanTells
  <1>9. QED
    BY <1>1, <1>5, <1>7, <1>8 DEF OneProfiler

\* Models that come, change and go make the index dated; profiling does not
\* touch it.
LEMMA LibOthers ==
  ASSUME LibInv,
         \/ \E m \in Models, use \in {"absent", "incomplete", "original", "quantized"} :
              Library!Change(m, use)
         \/ \E m \in Models : Library!Profile(m)
         \/ \E job \in profilers, made \in BOOLEAN : Library!ProfileEnds(job, made)
         \/ UNCHANGED Library!mvars
  PROVE  LibInv'
  <1> USE DEF LibInv
  <1>1. ASSUME NEW m \in Models, NEW use \in Uses, Library!Change(m, use) PROVE LibInv'
    <2>1. /\ UNCHANGED <<scans, found, profiling, profilers, scansOverlap>> /\ dated' = TRUE
          /\ disk' = [disk EXCEPT ![m] = use]
          /\ spent' = [spent EXCEPT !.changes = @ + 1]
      BY <1>1 DEF Library!Change, disk, scans, found, profiling, profilers, spent, dated, scansOverlap
    <2>2. /\ disk' \in [Models -> Uses] /\ spent'.profiles = spent.profiles
          /\ spent' \in [changes : Nat, scans : Nat, profiles : Nat]
      BY <2>1 DEF LibTypes
    <2>3. QED
      BY <2>1, <2>2 DEF LibTypes, RowsOnce, ScanTells, OneProfiler, Active
  <1>2. ASSUME NEW m \in Models, Library!Profile(m) PROVE LibInv'
    <2> DEFINE k == spent.profiles
    <2>1. /\ UNCHANGED <<disk, scans, found, dated, scansOverlap>> /\ m \notin profiling
          /\ profiling' = profiling \cup {m} /\ profilers' = profilers \cup {<<m, k>>}
          /\ spent' = [spent EXCEPT !.profiles = @ + 1]
      BY <1>2 DEF Library!Profile, Library!Profiling, disk, scans, found, profiling, profilers, spent,
                  dated, scansOverlap
    <2>2. /\ spent' \in [changes : Nat, scans : Nat, profiles : Nat]
          /\ spent'.profiles = k + 1 /\ k \in Nat
      BY <2>1 DEF LibTypes
    <2>3. LibTypes'
      BY <2>1, <2>2 DEF LibTypes
    <2>4. OneProfiler'
      <3>1. \A j \in profilers' : j[1] \in profiling' /\ j[2] < spent'.profiles
        <4>1. \A j \in profilers : j[2] \in Nat
          BY DEF LibTypes
        <4>2. QED
          BY <2>1, <2>2, <4>1 DEF OneProfiler
      <3>2. \A j \in profilers : j[1] # m
        BY <2>1 DEF OneProfiler
      <3>3. \A j, l \in profilers' : j[1] = l[1] => j = l
        <4>1. \A j \in profilers' : j \in profilers \/ (j = <<m, spent.profiles>> /\ j[1] = m)
          BY <2>1
        <4>2. QED
          BY <3>2, <4>1 DEF OneProfiler
      <3>4. \A x \in profiling' : \E j \in profilers' : j[1] = x
        <4>1. <<m, spent.profiles>> \in profilers' /\ <<m, spent.profiles>>[1] = m
          BY <2>1
        <4>2. \A x \in profiling : \E j \in profilers' : j[1] = x
          BY <2>1 DEF OneProfiler
        <4>3. QED
          BY <2>1, <4>1, <4>2
      <3>5. QED
        BY <3>1, <3>3, <3>4 DEF OneProfiler
    <2>5. QED
      BY <2>1, <2>3, <2>4 DEF RowsOnce, ScanTells, Active, Tells
  <1>3. ASSUME NEW job \in profilers, NEW made \in BOOLEAN, Library!ProfileEnds(job, made)
        PROVE  LibInv'
    <2>1. /\ UNCHANGED <<disk, scans, found, dated, scansOverlap, spent>>
          /\ profiling' = profiling \ {job[1]} /\ profilers' = profilers \ {job}
      BY <1>3 DEF Library!ProfileEnds, disk, scans, found, profiling, profilers, spent, dated,
                  scansOverlap
    <2>2. OneProfiler'
      BY <2>1 DEF OneProfiler
    <2>3. QED
      BY <2>1, <2>2 DEF LibTypes, RowsOnce, ScanTells, Active, Tells
  <1>4. CASE UNCHANGED Library!mvars
    <2>1. UNCHANGED <<disk, scans, found, profiling, profilers, spent, dated, scansOverlap>>
      BY <1>4 DEF Library!mvars, disk, scans, found, profiling, profilers, spent, dated, scansOverlap
    <2>2. QED
      BY <2>1 DEF LibTypes, RowsOnce, ScanTells, OneProfiler, Active, Tells
  <1>5. QED
    BY <1>1, <1>2, <1>3, <1>4 DEF Uses

LEMMA LibNext == LibInv /\ [Library!Next]_(Library!mvars) => LibInv'
  <1> SUFFICES ASSUME LibInv, [Library!Next]_(Library!mvars)
               PROVE  LibInv'
    OBVIOUS
  <1>1. ASSUME Library!BackgroundScan \/ Library!CommandScan PROVE LibInv'
    BY <1>1, LibBegins DEF Library!BackgroundScan, Library!CommandScan, Library!Scanners
  <1>2. QED
    BY <1>1, LibReads, LibEnds, LibOthers DEF Library!Next, profilers

\* The index lists a model once, and as it is when nothing has changed since it
\* was made by a scan alone; a model has one profiling process.
LEMMA LibHolds == LibInv => Library!IndexIsTrue
  <1> SUFFICES ASSUME LibInv
               PROVE  Library!IndexIsTrue
    OBVIOUS
  <1> USE DEF LibInv
  <1>1. DOMAIN found = 1..Len(found) /\ \A i \in 1..Len(found) : found[i] \in Row
    BY DEF LibTypes
  <1>2. \A i, j \in DOMAIN found : found[i].model = found[j].model => i = j
    BY <1>1 DEF RowsOnce, Once
  <1>3. Library!Current => Tells(found, Models)
    BY IdleIsNotActive DEF Library!Current, ScanTells, scans, dated, scansOverlap
  <1>4. ASSUME Library!Current
        PROVE  {<<found[i].model, found[i].use>> : i \in DOMAIN found} =
                 {<<m, disk[m]>> : m \in {x \in Models : disk[x] # "absent"}}
    BY <1>1, <1>3, <1>4 DEF Tells
  <1>5. ASSUME Library!Current, NEW m \in Models, disk[m] = "original"
        PROVE  \E i \in DOMAIN found : found[i] = [model |-> m, use |-> "original"]
    BY <1>1, <1>3, <1>5 DEF Tells, Row
  <1>6. \A m \in Models :
          Cardinality({j \in profilers : j[1] = m}) = (IF m \in profiling THEN 1 ELSE 0)
    <2> SUFFICES ASSUME NEW m \in Models
                 PROVE  Cardinality({j \in profilers : j[1] = m}) =
                          (IF m \in profiling THEN 1 ELSE 0)
      OBVIOUS
    <2>1. CASE m \in profiling
      <3>1. PICK k \in profilers : k[1] = m
        BY <2>1 DEF OneProfiler
      <3>2. {j \in profilers : j[1] = m} = {k}
        BY <3>1 DEF OneProfiler
      <3>3. QED
        BY <2>1, <3>2, FS_Singleton
    <2>2. CASE m \notin profiling
      <3>1. {j \in profilers : j[1] = m} = {}
        BY <2>2 DEF OneProfiler
      <3>2. QED
        BY <2>2, <3>1, FS_EmptySet
    <2>3. QED
      BY <2>1, <2>2
  <1>7. \A m \in Models : Library!Current /\ disk[m] = "original" =>
          Library!Covered(m) \/ Library!Unprofiled(m)
    BY <1>5 DEF Library!Unprofiled, disk, found
  <1>8. QED
    BY <1>2, <1>4, <1>6, <1>7, LibraryCounts
    DEF Library!IndexIsTrue, disk, found, profiling, profilers

-----------------------------------------------------------------------------
(* The parts side by side: a behaviour is one part's from its first state   *)
(* on, and the other parts' claims are about no state of it.               *)

PartsInv == /\ part = "gate" => GateInv
            /\ part = "boxes" => BoxInv
            /\ part = "overnight" => NightInv
            /\ part = "fits" => StoreInv
            /\ part = "hub" => HubInv
            /\ part = "gui" => GuiInv
            /\ part = "library" => LibInv
            /\ part = "teacher" => TeacherInv
            /\ part = "bundle" => BundleInv
            /\ part = "settings" => SetInv

LEMMA PartsInit == LocalInit => PartsInv
  BY GateInit, BoxInit, NightInit, StoreInit, HubInit, GuiInit, LibInit, TeacherInit, BundleInit, SetInit
     DEF LocalInit, PartsInv

\* A step is one of the part's own, or leaves its variables alone.
LEMMA PartSteps ==
  ASSUME [LocalNext]_<<part, vars, vs>>
  PROVE  /\ part' = part
         /\ part = "gate" => [Gate!Next]_(Gate!rvars)
         /\ part = "boxes" => [Boxes!Next]_(Boxes!vvars)
         /\ part = "overnight" => [Overnight!Next]_(Overnight!qvars)
         /\ part = "fits" => [Store!Next]_(Store!fvars)
         /\ part = "hub" => [Hub!Next]_(Hub!dvars)
         /\ part = "gui" => [Gui!Next]_(Gui!gvars)
         /\ part = "library" => [Library!Next]_(Library!mvars)
         /\ part = "teacher" => [Teacher!Next]_(Teacher!ovars)
         /\ part = "bundle" => [Bundle!Next]_(Bundle!bvars)
         /\ part = "settings" => [Settings!Next]_(Settings!lvars)
  <1>1. CASE LocalNext
    BY <1>1 DEF LocalNext
  <1>2. CASE UNCHANGED <<part, vars, vs>>
    <2>1. UNCHANGED <<part, v1, v2, v3, v4, v5, v6, v7, v8, v9, v10>>
      BY <1>2 DEF vs
    <2>2. QED
      BY <2>1 DEF Gate!rvars, Boxes!vvars, Overnight!qvars, Store!fvars, Hub!dvars, Gui!gvars,
         Library!mvars, Teacher!ovars, Bundle!bvars, Settings!lvars
  <1>3. QED
    BY <1>1, <1>2

LEMMA PartsNext == PartsInv /\ [LocalNext]_<<part, vars, vs>> => PartsInv'
  <1> SUFFICES ASSUME PartsInv, [LocalNext]_<<part, vars, vs>>
               PROVE  PartsInv'
    OBVIOUS
  <1>1. part' = part
    BY PartSteps
  <1>2. part = "gate" => GateInv'
    BY PartSteps, GateNext DEF PartsInv
  <1>3. part = "boxes" => BoxInv'
    BY PartSteps, BoxNext DEF PartsInv
  <1>4. part = "overnight" => NightInv'
    BY PartSteps, NightNext DEF PartsInv
  <1>5. part = "fits" => StoreInv'
    BY PartSteps, StoreNext DEF PartsInv
  <1>6. part = "hub" => HubInv'
    BY PartSteps, HubNext DEF PartsInv
  <1>7. part = "gui" => GuiInv'
    BY PartSteps, GuiNext DEF PartsInv
  <1>8. part = "library" => LibInv'
    BY PartSteps, LibNext DEF PartsInv
  <1>9. part = "teacher" => TeacherInv'
    BY PartSteps, TeacherNext DEF PartsInv
  <1>10. part = "bundle" => BundleInv'
    BY PartSteps, BundleNext DEF PartsInv
  <1>11. part = "settings" => SetInv'
    BY PartSteps, SetNext DEF PartsInv
  <1>12. QED
    BY <1>1, <1>2, <1>3, <1>4, <1>5, <1>6, <1>7, <1>8, <1>9, <1>10, <1>11 DEF PartsInv

LEMMA PartsInvariant == LocalSpec => []PartsInv
  BY PartsInit, PartsNext, PTL DEF LocalSpec

\* What check-release passes, everything it promises has been looked at; what
\* publish uploads is flawed in nothing but a file rebuilt after its second
\* digest; and a verdict on a bundle's runtime, kept by the Fleet page or given
\* now, is the truth about it (check_release.py, publish.py, check_bundle.py).
THEOREM LocalReleaseIsGated == LocalSpec => []ReleaseIsGated
  <1>1. PartsInv => ReleaseIsGated
    BY GateHolds, BundleHolds DEF PartsInv, ReleaseIsGated
  <1>2. QED
    BY <1>1, PartsInvariant, PTL

\* A result in the validation queue is one its gates gave, and commands that do
\* not overlap lose no entry and bring none back, whichever of them are killed;
\* a teacher called deterministic is (validate.py, onboard.py).
THEOREM LocalResultsAreTrue == LocalSpec => []ResultsAreTrue
  <1>1. PartsInv => ResultsAreTrue
    BY NightHolds, TeacherHolds DEF PartsInv, ResultsAreTrue
  <1>2. QED
    BY <1>1, PartsInvariant, PTL

\* Whatever command dies at whatever place, a fit that was put keeps its data
\* and a sidecar, no sidecar is without its data, and the index finds the fit
\* where no two commands overlapped, or will after a reindex (fit_store.py).
THEOREM LocalFitsAreKept == LocalSpec => []FitsAreKept
  <1>1. PartsInv => FitsAreKept
    BY StoreHolds DEF PartsInv, FitsAreKept
  <1>2. QED
    BY <1>1, PartsInvariant, PTL

\* Every queue the GUI makes is confirmed for itself and gets one runner, the
\* full run of a preflight is made once, the model index is the truth, and a
\* model is profiled by one process (jobs.py, model_scan.py, teachers.py).
THEOREM LocalStartsAreSingle == LocalSpec => []StartsAreSingle
  <1>1. PartsInv => StartsAreSingle
    BY GuiHolds, LibHolds DEF PartsInv, StartsAreSingle
  <1>2. QED
    BY <1>1, PartsInvariant, PTL

\* The config file holds every setting made, a record finds the artifact where
\* it was until somebody moves that very place, and neither a first run, an init
\* answered with Enter nor a run's end finds anything elsewhere (config.py,
\* first_run.py, settings.py, config_cmd.py).
THEOREM LocalSettingsStand == LocalSpec => []SettingsStand
  <1>1. PartsInv => SettingsStand
    BY SetHolds DEF PartsInv, SettingsStand
  <1>2. QED
    BY <1>1, PartsInvariant, PTL

\* A reservation is replaced only unseen, and a queue starts on a box somebody
\* had reserved only where its own session has a reservation too (reserve.py,
\* runner.run).
THEOREM LocalReservationsHold == LocalSpec => ReservationsHold
  <1>1. PartsInv /\ [LocalNext]_<<part, vars, vs>>
          => [part = "boxes" => Boxes!Replaces /\ Boxes!Starts]_vs
    <2> SUFFICES ASSUME PartsInv, LocalNext, part = "boxes"
                 PROVE  Boxes!Replaces /\ Boxes!Starts
      OBVIOUS
    <2>1. BoxInv /\ Boxes!Next
      BY DEF PartsInv, LocalNext
    <2>2. QED
      BY <2>1, BoxReplaces, BoxStarts
  <1>2. QED
    BY <1>1, PartsInvariant, PTL DEF LocalSpec, ReservationsHold

\* A download turns done only when its files are there, and one fetch at most
\* works, shown as downloading (downloads.py).
THEOREM LocalDownloadsAreTrue == LocalSpec => DownloadsAreTrue
  <1>1. PartsInv /\ [LocalNext]_<<part, vars, vs>>
          => [part = "hub" => Hub!Settles /\ Hub!ShownAsItIs']_vs
    <2> SUFFICES ASSUME PartsInv, LocalNext, part = "hub"
                 PROVE  Hub!Settles /\ Hub!ShownAsItIs'
      OBVIOUS
    <2>1. HubInv /\ Hub!Next
      BY DEF PartsInv, LocalNext
    <2>2. HubInv'
      BY <2>1, HubNext
    <2>3. Hub!ShownAsItIs'
      BY <2>2, HubShows, PTL
    <2>4. QED
      BY <2>1, <2>3, HubSettles
  <1>2. QED
    BY <1>1, PartsInvariant, PTL DEF LocalSpec, DownloadsAreTrue

\* Beside the other parts the findings log is the one of FindingsLog, so that
\* its theorems hold there too (findings.py).
THEOREM LocalLogIsTheLog == LocalSpec => Spec
  <1>1. LocalInit => Init
    BY DEF LocalInit
  <1>2. [LocalNext]_<<part, vars, vs>> => [Next]_vars
    BY DEF LocalNext
  <1>3. QED
    BY <1>1, <1>2, PTL DEF LocalSpec, Spec

==============================================================================

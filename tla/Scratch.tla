------------------------------- MODULE Scratch -------------------------------
(***************************************************************************)
(* What a person may delete from the scratch volume (vqlab/agents/          *)
(* scratch.py, `vqlab scratch reclaimable`).  The survey lists folders in   *)
(* five classes, four of which end up as rm lines, each with the evidence   *)
(* that a copy is elsewhere; it deletes nothing itself.  Here a survey's    *)
(* rm lines are run at once, all of them: the worst a person who trusts the *)
(* list can do.                                                            *)
(*                                                                         *)
(* One unpacked artifact with its pack and the pack of that, a preflight's  *)
(* copies, a folder of fit parts with the store's filed copies, two teacher *)
(* caches and the folder of a written campaign.  What lies in a folder is   *)
(* a version of it: `data` tells bytes apart, `shown` is the version it      *)
(* looks like to a reader of its record, its sizes and the first megabyte   *)
(* of each file.                                                           *)
(***************************************************************************)
EXTENDS Naturals, FiniteSets

CONSTANTS MaxEdits  \* edits and links (bound)

VARIABLES data, shown,  \* folder -> its bytes, 0 once deleted; and how they look
          within,       \* folder -> the folder it lies in, or "root"
          packed,       \* the build records of the packs
          links,        \* symlinks: <<place, folder they resolve into>>
          queue,        \* the preflight's queue
          filed,        \* the fit store's index entry of the parts' fits
          registered,   \* the teacher cache the families register
          spent

svars == <<data, shown, within, packed, links, queue, filed, registered, spent>>

Folders == {"src", "pack", "repack", "pre", "part", "store", "one", "two", "camp"}
Packs == {"pack", "repack"}
Source(p) == IF p = "pack" THEN "src" ELSE "pack"  \* the input role `src` of its record
Caches == {"one", "two"}
Nothing == [is |-> "none"]

There(d) == data[d] # 0
Inside(d, e) == d = e \/ (d # "root" /\ within[d] = e)  \* folders nest once

Init ==
  /\ data = [d \in Folders |-> IF d \in Packs THEN 0 ELSE 1]
  /\ shown = data
  /\ \E s \in {"root", "camp", "pre"}, p \in {"root", "pre"} :
       within = [d \in Folders |-> CASE d = "src" -> s [] d = "part" -> p
                                     [] d = "two" -> "camp" [] OTHER -> "root"]
  /\ packed = [p \in Packs |-> Nothing]
  /\ links = {} /\ queue = "running"
  /\ filed = Nothing
  /\ registered \in {{"one"}, {"one", "two"}}
  /\ spent = 0

-----------------------------------------------------------------------------
\* What happens on the volume.

\* `vqlab pack` and `pack-dense`: a packed copy, whose record names what it
\* packed, by a path.  A path under a root of the configuration is kept as a
\* placeholder, and the survey reads only paths.
PackFolder(p, plain) ==
  LET s == Source(p)
  IN  /\ There(s) /\ ~There(p)
      /\ data' = [data EXCEPT ![p] = data[s]]
      /\ shown' = [shown EXCEPT ![p] = shown[s]]
      /\ packed' = [packed EXCEPT ![p] = [is |-> "record", plain |-> plain, saw |-> shown[s],
                                          of |-> data[s], out |-> data[s], looks |-> shown[s]]]
      /\ UNCHANGED <<within, links, queue, filed, registered, spent>>

\* The parts are filed in the fit store.
File ==
  /\ There("part")
  /\ filed' = [is |-> "filed", sha |-> data["part"]]
  /\ data' = [data EXCEPT !["store"] = data["part"]]
  /\ shown' = [shown EXCEPT !["store"] = shown["part"]]
  /\ UNCHANGED <<within, packed, links, queue, registered, spent>>

\* A folder's bytes change: plainly, as when a tool rebuilds it, or in a way
\* that neither its record nor sizes and first megabytes show.
Edit(d, plainly) ==
  /\ There(d) /\ spent < MaxEdits
  /\ d \notin {"pre", "camp", "two"}
  /\ data' = [data EXCEPT ![d] = 3 - @]
  /\ shown' = IF plainly THEN [shown EXCEPT ![d] = data'[d]] ELSE shown
  /\ spent' = spent + 1
  /\ UNCHANGED <<within, packed, links, queue, filed, registered>>

\* A pin, a mix or a served name links into a folder.
Link(place, d) ==
  /\ There(d) /\ place # d /\ spent < MaxEdits
  /\ place # "root" => There(place)
  /\ d \notin {"camp", "store"}
  /\ links' = links \cup {<<place, d>>}
  /\ spent' = spent + 1
  /\ UNCHANGED <<data, shown, within, packed, queue, filed, registered>>

\* The queue ends, or its runner dies; a person deletes its record.
QueueMoves(q) ==
  /\ <<queue, q>> \in {<<"running", "passed">>, <<"running", "died">>, <<"passed", "no record">>}
  /\ queue' = q
  /\ UNCHANGED <<data, shown, within, packed, links, filed, registered, spent>>

-----------------------------------------------------------------------------
\* The survey.

\* Mutant: a link counts only where it starts at the top.
TopLinks(d) == \E l \in links : l[1] = "root" /\ l[2] = d

\* _links_into: a link from outside a folder resolves into it.
LinkedInto(d) == \E l \in links : Inside(l[2], d) /\ ~Inside(l[1], d)

\* Mutant: only the sizes, whatever --full says.
PackSizes(p, full) == There(p) /\ shown[p] = packed[p].looks

\* _packed_ok: the pack matches its record, by sizes or by every byte.
PackedOk(p, full) ==
  /\ There(p) /\ shown[p] = packed[p].looks
  /\ full => data[p] = packed[p].out

\* packed_items: --full reads every byte of the pack, and none of the source.
PackedListed(full) ==
  {s \in {"src", "pack"} :
     /\ There(s) /\ ~LinkedInto(s)
     /\ \E p \in Packs : /\ Source(p) = s /\ There(p) /\ packed[p] # Nothing /\ packed[p].plain
                         /\ PackedOk(p, full)
                         /\ shown[s] = packed[p].saw}

\* _queue_verdict: finished, or its runner dead, or no record of it.
PreflightListed ==
  {d \in {"pre"} : There(d) /\ queue \in {"passed", "died", "no record"} /\ ~LinkedInto(d)}

\* Every module of the folder is in the index and its filed copy holds the
\* same bytes; --full hashes the filed copy against its record too.
FitsListed(full) ==
  {d \in {"part"} :
     /\ There(d) /\ within[d] # "pre" /\ ~LinkedInto(d)
     /\ filed # Nothing /\ There("store")
     /\ data["store"] = data[d]
     /\ full => data["store"] = filed.sha}

\* A cache that is not registered and has the bytes of one that is.
CachesListed ==
  {d \in Caches \ registered :
     There(d) /\ ~LinkedInto(d) /\ \E r \in registered : There(r) /\ data[r] = data[d]}

\* _nested_out: an item inside another is listed once, with the outer one.
Outermost(items, archive) ==
  {d \in items : ~\E e \in (items \cup archive) \ {d} : Inside(d, e)}

RmLines(full) ==
  LET items == PackedListed(full) \cup PreflightListed \cup FitsListed(full) \cup CachesListed
      archive == {d \in {"camp"} : There(d)}
  IN  Outermost(items, archive)

\* A person runs every rm line of a survey.
Reclaim(full) ==
  LET lines == RmLines(full)
      dead == UNION {{d \in Folders : Inside(d, e)} : e \in lines}
  IN  /\ lines # {}
      /\ data' = [d \in Folders |-> IF d \in dead THEN 0 ELSE data[d]]
      /\ links' = {l \in links : l[1] \notin dead}
      /\ UNCHANGED <<shown, within, packed, queue, filed, registered, spent>>

Next ==
  \/ \E p \in Packs, plain \in BOOLEAN : PackFolder(p, plain)
  \/ File
  \/ \E d \in Folders, plainly \in BOOLEAN : Edit(d, plainly)
  \/ \E place \in {"root", "src", "one", "camp"}, d \in Folders : Link(place, d)
  \/ \E q \in {"passed", "died", "no record"} : QueueMoves(q)
  \/ \E full \in BOOLEAN : Reclaim(full)

-----------------------------------------------------------------------------
\* A pack that is there and can be unpacked to these bytes, through the pack
\* of the pack too where the pack itself was deleted by the same lines.
Unpacks(p, bytes, full) == packed'[p] # Nothing /\ packed'[p].of = bytes /\ data'[p] # 0
                           /\ (full => data'[p] = packed'[p].out)
Recoverable(s, full) ==
  \/ \E p \in Packs : Source(p) = s /\ Unpacks(p, data[s], full)
  \/ s = "src" /\ packed["pack"] # Nothing /\ packed["pack"].of = data["src"]
     /\ Unpacks("repack", data["pack"], full)

\* A source that does not hold the version it looks like, or did not when it
\* was packed.
Disguised(s) ==
  \/ shown[s] # data[s]
  \/ \E p \in Packs : Source(p) = s /\ packed[p] # Nothing /\ packed[p].saw # packed[p].of

\* When all rm lines of a survey have run, everything they deleted has
\* another copy that they did not delete: the unpacked artifact its pack or
\* the pack of that one, the fits their filed copies, the cache its
\* registered twin; only copies of a preflight that no queue runs are gone
\* for good.  No registered cache, campaign, filed copy or last pack is
\* touched, and no symlink that is left dangles.  (Of an unpacked artifact, or
\* of the pack deleted with it, that was edited in a way that does not show
\* the only copy can go, with --full too.)
NothingUniqueGoes(full) ==
  LET dead == {d \in Folders : There(d) /\ data'[d] = 0}
  IN  /\ dead \cap ({"camp", "store", "repack"} \cup registered) = {}
      /\ \A d \in dead :
           \/ Inside(d, "pre") /\ queue # "running"
           \/ d \in {"src", "pack"} /\ (Recoverable(d, full) \/ Disguised(d))
           \/ d = "src" /\ "pack" \in dead /\ Disguised("pack")
           \/ d = "part" /\ data'["store"] = data[d]
           \/ d \in Caches /\ \E r \in registered : data'[r] = data[d]
      /\ \A l \in links' : There(l[2]) => data'[l[2]] # 0

DeletedIsElsewhere ==
  (\E d \in Folders : There(d) /\ data'[d] = 0) =>
    \A full \in BOOLEAN : Reclaim(full) => NothingUniqueGoes(full)

=============================================================================

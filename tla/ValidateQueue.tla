---------------------------- MODULE ValidateQueue ----------------------------
(***************************************************************************)
(* The overnight validation queue (vqlab/queue/validate.py): one file that  *)
(* `add`, `run` and `clear-done` each load whole, change and save whole.   *)
(* Entries are numbered as they are added, and the file has them in that   *)
(* order: `add` appends, the other commands keep the order.                *)
(***************************************************************************)
EXTENDS Naturals, Functions

CONSTANTS Commands,    \* command processes, one life each
          MaxEntries   \* entries ever added (bound)

VARIABLES queue,       \* the file: entry -> its status
          added,       \* entries added so far
          cleared,     \* entries a `clear-done` has dropped
          did,         \* how each entry's gates last ended
          proc,        \* each command: what it does, the queue it holds, the entry it is at
          overlap      \* two commands have run at once

qvars == <<queue, added, cleared, did, proc, overlap>>

NoEntries == [e \in {} |-> "pending"]
Nothing == [does |-> "off", list |-> NoEntries, at |-> 0]
Running(p) == proc[p].does \notin {"off", "done"}
Step(p, does, list, at) == proc' = [proc EXCEPT ![p] = [does |-> does, list |-> list, at |-> at]]
Pending(list) == {e \in DOMAIN list : list[e] = "pending"}

\* Every command loads the queue first.
Load(p, does) ==
  /\ proc[p].does = "off"
  /\ does = "add" => added < MaxEntries
  /\ Step(p, does, queue, 0)
  /\ overlap' = (overlap \/ \E q \in Commands : Running(q))
  /\ UNCHANGED <<queue, added, cleared, did>>

Add(p) ==
  /\ proc[p].does = "add" /\ added < MaxEntries
  /\ added' = added + 1
  /\ queue' = [e \in DOMAIN proc[p].list \cup {added'} |->
               IF e = added' THEN "pending" ELSE proc[p].list[e]]
  /\ Step(p, "done", NoEntries, 0)
  /\ UNCHANGED <<cleared, did, overlap>>

\* Mutant: the test is turned round, and what is done stays.
ClearDonePending(p) ==
  /\ proc[p].does = "clear"
  /\ queue' = Restrict(proc[p].list, DOMAIN proc[p].list \ Pending(proc[p].list))
  /\ cleared' = cleared \cup (DOMAIN proc[p].list \ DOMAIN queue')
  /\ Step(p, "done", NoEntries, 0)
  /\ UNCHANGED <<added, did, overlap>>

ClearDone(p) ==
  /\ proc[p].does = "clear"
  /\ queue' = Restrict(proc[p].list, Pending(proc[p].list))
  /\ cleared' = cleared \cup (DOMAIN proc[p].list \ DOMAIN queue')
  /\ Step(p, "done", NoEntries, 0)
  /\ UNCHANGED <<added, did, overlap>>

\* The gates of the next pending entry, up to the first that fails.
RunEntry(p) ==
  /\ proc[p].does = "run" /\ proc[p].at = 0
  /\ LET left == Pending(proc[p].list)
     IN  \/ left = {} /\ Step(p, "done", NoEntries, 0) /\ UNCHANGED did
         \/ \E e \in left, end \in {"pass", "FAIL"} :
              /\ \A d \in left : e <= d
              /\ did' = [did EXCEPT ![e] = end]
              /\ Step(p, "run", proc[p].list, e)
  /\ UNCHANGED <<queue, added, cleared, overlap>>

\* Mutant: the results are saved when the last entry has run.
SaveEntryLast(p) ==
  /\ proc[p].does = "run" /\ proc[p].at # 0
  /\ LET list == [proc[p].list EXCEPT ![proc[p].at] = did[proc[p].at]]
     IN  Step(p, "run", list, 0) /\ queue' = IF Pending(list) = {} THEN list ELSE queue
  /\ UNCHANGED <<added, cleared, did, overlap>>

\* Mutant: every entry that is still pending gets the result.
SaveEntryAll(p) ==
  /\ proc[p].does = "run" /\ proc[p].at # 0
  /\ LET list == [e \in DOMAIN proc[p].list |->
           IF proc[p].list[e] = "pending" THEN did[proc[p].at] ELSE proc[p].list[e]]
     IN  Step(p, "run", list, 0) /\ queue' = list
  /\ UNCHANGED <<added, cleared, did, overlap>>

\* ... and the whole list is saved with its result.
SaveEntry(p) ==
  /\ proc[p].does = "run" /\ proc[p].at # 0
  /\ LET list == [proc[p].list EXCEPT ![proc[p].at] = did[proc[p].at]]
     IN  Step(p, "run", list, 0) /\ queue' = list
  /\ UNCHANGED <<added, cleared, did, overlap>>

Killed(p) ==
  /\ Running(p)
  /\ Step(p, "done", NoEntries, 0)
  /\ UNCHANGED <<queue, added, cleared, did, overlap>>

Init ==
  /\ queue = NoEntries /\ added = 0 /\ cleared = {} /\ overlap = FALSE
  /\ did = [e \in 1..MaxEntries |-> "pending"]
  /\ proc = [p \in Commands |-> Nothing]

Next ==
  \E p \in Commands :
    \/ \E does \in {"add", "clear", "run"} : Load(p, does)
    \/ Add(p) \/ ClearDone(p) \/ RunEntry(p) \/ SaveEntry(p) \/ Killed(p)

-----------------------------------------------------------------------------
\* A result in the queue is one its gates gave, whatever commands overlap.
ResultIsEarned ==
  \A e \in DOMAIN queue : queue[e] # "pending" => did[e] # "pending"

\* One command at a time, killed anywhere, loses nothing: an entry that was
\* added is there until it is cleared, only what ran is cleared, and of the
\* results at most the one a run was about to save is missing (cmd_run:
\* "persist after each artifact").  Commands that overlap do lose entries.
NothingIsLost ==
  ~overlap =>
    /\ \A e \in 1..added : (e \in cleared) # (e \in DOMAIN queue)
    /\ \A e \in cleared : did[e] # "pending"
    /\ \A e \in DOMAIN queue :
         did[e] # queue[e] =>
           /\ queue[e] = "pending"
           /\ \A d \in DOMAIN queue : d < e => queue[d] # "pending"

=============================================================================

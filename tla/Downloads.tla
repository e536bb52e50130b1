----------------------------- MODULE Downloads -----------------------------
(***************************************************************************)
(* The GUI's downloads (vqlab/agents/downloads.py) and the process of each  *)
(* fetch (vqlab/agents/_fetch.py), for one repository.                     *)
(*                                                                         *)
(* Under the server's lock an action is one step; a start measures the      *)
(* repository between its two locked parts.                                *)
(***************************************************************************)
EXTENDS Naturals, FiniteSets

CONSTANTS Requests,    \* requests under way at once
          MaxFetches   \* fetch processes ever started (bound)

VARIABLES entry,       \* the saved entry: its status and pid (0: none)
          fetch,       \* each process: where it is
          rc,          \* the exit-code file
          lockpid,     \* the pid in the lock file
          own,         \* the child this server started (0: none)
          asked,       \* start requests that are measuring
          whole,       \* every file is on disk
          orphan       \* the server died while a fetch had not written its pid

dvars == <<entry, fetch, rc, lockpid, own, asked, whole, orphan>>

Fetches == 1..MaxFetches
Holding == {f \in Fetches : fetch[f] \in {"locked", "fetching", "dying"}}
Living  == {f \in Fetches : fetch[f] \notin {"none", "over"}}
Entry(status, pid) == [status |-> status, pid |-> pid]

\* Mutant: the lock decides for a child of this server too.
AliveByLock ==
  entry.pid # 0 /\ Holding # {} /\ lockpid = entry.pid

\* _alive: this server's own child by poll(), one of an earlier server by
\* its lock and the pid in it.
Alive ==
  IF own # 0 THEN own \in Living
  ELSE entry.pid # 0 /\ Holding # {} /\ lockpid = entry.pid

\* _ended: what the exit-code file says.
Ended == Entry(CASE rc = "0" -> "done" [] rc = "none" -> "stopped" [] OTHER -> "failed", 0)

\* start, first look.
Ask(r) ==
  /\ r \notin asked /\ ~Alive
  /\ asked' = asked \cup {r}
  /\ UNCHANGED <<entry, fetch, rc, lockpid, own, whole, orphan>>

\* The Hub refuses, or there is no room.
Refused(r) ==
  /\ r \in asked
  /\ asked' = asked \ {r}
  /\ UNCHANGED <<entry, fetch, rc, lockpid, own, whole, orphan>>

\* Mutant: an old exit-code file stays.
LaunchKeepsRc(f) ==
  /\ fetch' = [fetch EXCEPT ![f] = "spawned"]
  /\ UNCHANGED <<rc, lockpid, whole>>

Launch(f) ==
  /\ fetch' = [fetch EXCEPT ![f] = "spawned"]
  /\ rc' = "none"
  /\ UNCHANGED <<lockpid, whole>>

\* Mutant: no second look.
BeginUnasked(r, f) ==
  /\ r \in asked /\ fetch[f] = "none" /\ \A g \in Fetches : g < f => fetch[g] # "none"
  /\ asked' = asked \ {r}
  /\ Launch(f) /\ own' = f /\ entry' = Entry("downloading", f)
  /\ UNCHANGED orphan

\* start, second look: another request may have started it meanwhile.
Begin(r, f) ==
  /\ r \in asked /\ fetch[f] = "none" /\ \A g \in Fetches : g < f => fetch[g] # "none"
  /\ asked' = asked \ {r}
  /\ IF Alive THEN UNCHANGED <<fetch, rc, lockpid, whole, own, entry>>
     ELSE Launch(f) /\ own' = f /\ entry' = Entry("downloading", f)
  /\ UNCHANGED orphan

\* downloads(): every listing settles what has ended.
List ==
  /\ entry.status = "downloading" /\ ~Alive
  /\ entry' = Ended
  /\ UNCHANGED <<fetch, rc, lockpid, own, asked, whole, orphan>>

\* stop: settled if it has ended, else signalled.
Stop ==
  /\ entry.status = "downloading"
  /\ entry' = IF Alive THEN Entry("stopped", 0) ELSE Ended
  /\ fetch' = IF Alive THEN [fetch EXCEPT ![entry.pid] = "dying"] ELSE fetch
  /\ UNCHANGED <<rc, lockpid, own, asked, whole, orphan>>

\* The server goes away, in the middle of a launch or not, and comes back.
Restart(cut) ==
  /\ IF cut # 0
     THEN /\ asked # {} /\ ~Alive /\ fetch[cut] = "none"
          /\ \A g \in Fetches : g < cut => fetch[g] # "none"
          /\ Launch(cut)
     ELSE UNCHANGED <<fetch, rc, lockpid, whole>>
  /\ own' = 0 /\ asked' = {}
  /\ orphan' = (orphan \/ cut # 0 \/ \E f \in Fetches : fetch[f] \in {"spawned", "locked"})
  /\ UNCHANGED entry

-----------------------------------------------------------------------------
\* The fetch takes the lock (a second one leaves at once), ...
Lock(f) ==
  /\ fetch[f] = "spawned"
  /\ fetch' = [fetch EXCEPT ![f] = IF Holding = {} THEN "locked" ELSE "over"]
  /\ UNCHANGED <<entry, rc, lockpid, own, asked, whole, orphan>>

\* ... then writes its pid, ...
WritePid(f) ==
  /\ fetch[f] = "locked"
  /\ lockpid' = f
  /\ fetch' = [fetch EXCEPT ![f] = "fetching"]
  /\ UNCHANGED <<entry, rc, own, asked, whole, orphan>>

\* ... and records how it ended.
Fetched(f, ok) ==
  /\ fetch[f] = "fetching"
  /\ rc' = IF ok THEN "0" ELSE "1"
  /\ whole' = (whole \/ ok)
  /\ fetch' = [fetch EXCEPT ![f] = "over"]
  /\ UNCHANGED <<entry, lockpid, own, asked, orphan>>

\* Killed, or the signal it was sent arrives: nothing is recorded.
Dies(f) ==
  /\ f \in Living
  /\ fetch' = [fetch EXCEPT ![f] = "over"]
  /\ UNCHANGED <<entry, rc, lockpid, own, asked, whole, orphan>>

\* The operator removes files of a model that nothing is fetching.
Removed ==
  /\ Living = {} /\ entry.status # "downloading" /\ whole
  /\ whole' = FALSE
  /\ UNCHANGED <<entry, fetch, rc, lockpid, own, asked, orphan>>

Init ==
  /\ entry = Entry("stopped", 0)
  /\ fetch = [f \in Fetches |-> "none"]
  /\ rc = "none" /\ lockpid = 0 /\ own = 0 /\ asked = {}
  /\ whole = FALSE /\ orphan = FALSE

Next ==
  \/ \E r \in Requests : Ask(r) \/ Refused(r) \/ \E f \in Fetches : Begin(r, f)
  \/ List \/ Stop \/ Removed
  \/ \E cut \in {0} \cup Fetches : Restart(cut)
  \/ \E f \in Fetches : Lock(f) \/ WritePid(f) \/ Dies(f) \/ \E ok \in BOOLEAN : Fetched(f, ok)

-----------------------------------------------------------------------------
Settles == entry'.status = "done" /\ entry.status # "done" => whole

\* A download turns `done` only with every file there, also a model fetched
\* again after its files were removed, a stop, or a restart of the server
\* (_ended, the exit file removed by start).
DoneIsWhole == [][Settles]_dvars

\* At most one process ever works on the folder unsignalled, and while the
\* entry does not say `downloading` none does, unless the server died before
\* a fetch had written its pid (then the fetch runs on, shown as stopped).
ShownAsItIs ==
  LET working == {f \in Living : fetch[f] # "dying"}
  IN  ~orphan => /\ Cardinality(working) <= 1
                 /\ entry.status # "downloading" => working = {}

=============================================================================

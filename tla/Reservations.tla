---------------------------- MODULE Reservations ----------------------------
(***************************************************************************)
(* Reservations of one box (vqlab/queue/reserve.py) and the queues started  *)
(* on it from another one (vqlab/queue/remote.py run_on, runner.run).      *)
(*                                                                         *)
(* A reservation is in the shared file, or in a host's own file while the   *)
(* shared folder is not mounted there.  A box has two names, the one of the *)
(* config and its hostname; a host whose config does not name the box knows *)
(* the hostname only.                                                      *)
(***************************************************************************)
EXTENDS Naturals

CONSTANTS Callers,     \* $VQLAB_WHO of each session
          HostOf,      \* where each session runs: "box" or another host
          None

VARIABLES store,       \* file -> name -> for whom, or None
          mounted,     \* hosts that reach the shared folder
          pc,          \* where each session is
          saw,         \* whom its check read, by name
          owed         \* sessions with a reservation since before a launch began

vvars == <<store, mounted, pc, saw, owed>>

Names == {"name", "hostname"}
Hosts == {"box"} \cup {HostOf[c] : c \in Callers}

\* active(): the shared file first, then this host's own.
Active(host, name) ==
  IF host \in mounted /\ store["shared"][name] # None THEN store["shared"][name]
  ELSE store[host][name]

Writable(host) == IF host \in mounted THEN "shared" ELSE host

\* Mutant: a queue does not look for its own box by hostname.
RefusalByName(host, box, c) ==
  Active(host, "name") \notin {None, c}

\* refusal: on the box itself a reservation made by hostname counts as well,
\* when there is none by name.
Refusal(host, box, c) ==
  LET own == Active(host, "name")
      r == IF own = None /\ box = "here" THEN Active(host, "hostname") ELSE own
  IN  r \notin {None, c}

-----------------------------------------------------------------------------
\* Mutant: someone else's reservation is not looked for.
CheckNot(c, name) ==
  /\ pc[c] = "idle"
  /\ pc' = [pc EXCEPT ![c] = name]
  /\ saw' = [saw EXCEPT ![c] = Active(HostOf[c], name)]
  /\ UNCHANGED <<store, mounted, owed>>

\* reserve: the check is made before the file is locked.
Check(c, name) ==
  /\ pc[c] = "idle"
  /\ Active(HostOf[c], name) \in {None, c}
  /\ pc' = [pc EXCEPT ![c] = name]
  /\ saw' = [saw EXCEPT ![c] = Active(HostOf[c], name)]
  /\ UNCHANGED <<store, mounted, owed>>

Put(c, name) ==
  store' = [store EXCEPT ![Writable(HostOf[c])] = [@ EXCEPT ![name] = c]]

Write(c) ==
  /\ pc[c] \in Names
  /\ Put(c, pc[c])
  /\ pc' = [pc EXCEPT ![c] = "idle"]
  /\ UNCHANGED <<mounted, saw, owed>>

\* --force.
Force(c, name) ==
  /\ pc[c] = "idle"
  /\ Put(c, name)
  /\ pc' = [pc EXCEPT ![c] = "forced"]
  /\ UNCHANGED <<mounted, saw, owed>>

\* Released or run out: gone from every file the releasing host reaches.
Release(host, name) ==
  /\ store' = [f \in DOMAIN store |->
       IF f = host \/ (f = "shared" /\ host \in mounted)
       THEN [store[f] EXCEPT ![name] = None] ELSE store[f]]
  /\ owed' = {}
  /\ UNCHANGED <<mounted, pc, saw>>

Remount(host) ==
  /\ mounted' = IF host \in mounted THEN mounted \ {host} ELSE mounted \cup {host}
  /\ owed' = {}
  /\ UNCHANGED <<store, pc, saw>>

-----------------------------------------------------------------------------
\* run_on: refused here by the box's name, else the queue is started there.
RunOn(c) ==
  /\ pc[c] = "idle"
  /\ ~Refusal(HostOf[c], "there", c)
  /\ pc' = [pc EXCEPT ![c] = "launched"]
  /\ owed' = {d \in Callers \ {c} : \E n \in Names : store["shared"][n] = d}
  /\ UNCHANGED <<store, mounted, saw>>

\* ... where runner.run asks again.
RunHere(c) ==
  /\ pc[c] = "launched"
  /\ pc' = [pc EXCEPT ![c] = IF Refusal("box", "here", c) THEN "refused" ELSE "running"]
  /\ UNCHANGED <<store, mounted, saw, owed>>

Init ==
  /\ store = [f \in {"shared"} \cup Hosts |-> [n \in Names |-> None]]
  /\ mounted = Hosts
  /\ pc = [c \in Callers |-> "idle"]
  /\ saw = [c \in Callers |-> None]
  /\ owed = {}

Next ==
  \/ \E c \in Callers : Write(c) \/ RunOn(c) \/ RunHere(c)
  \/ \E c \in Callers, n \in Names : Check(c, n) \/ Force(c, n)
  \/ \E h \in Hosts : Remount(h) \/ \E n \in Names : Release(h, n)

-----------------------------------------------------------------------------
Replaces ==
  \A c \in Callers, f \in DOMAIN store, n \in Names :
    pc[c] = n /\ pc'[c] = "idle" /\ store[f][n] # store'[f][n] => saw[c] \in {None, c}

\* Without --force a session replaces another's reservation only where its
\* check could not see it: it was written since, or is in a file that was not
\* mounted then (reserve, its refusal before the lock).
ReplacedUnseen == [][Replaces]_vvars

Starts ==
  \A c \in Callers :
    pc[c] = "launched" /\ pc'[c] = "running" /\ owed # {} /\ "box" \in mounted
      => \E n \in Names : c \in {store["shared"][n], store["box"][n]}

\* A queue starts on a box that somebody else had reserved in the shared file
\* before its launch, by either name, only if its own session holds one too.
StartsUnreserved == [][Starts]_vvars

=============================================================================

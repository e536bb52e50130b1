------------------------------ MODULE GpuLease ------------------------------
(***************************************************************************)
(* The GPU lease protocol (vqlab/core/box/gpu_lease.py): one file that     *)
(* every GPU tenant of the machine flocks in turn, stamped with its        *)
(* holder's name, and probed by readers that only want to know who has it. *)
(*                                                                         *)
(* A tenant is one process.  The kernel gives the flock to at most one     *)
(* open file at a time and takes it back when the process dies; a process  *)
(* a tenant started for its GPU job is not part of that.                   *)
(***************************************************************************)
EXTENDS Naturals, FiniteSets

CONSTANTS
  Tenants,   \* processes that call acquire_lease
  Probers,   \* processes that call lease_holder
  Nobody,    \* the owner of an unlocked file; the answer "no holder"
  Blank,     \* the lease file's content between truncation and the stamp
  Missing,   \* the lease file before any tenant has created it
  MaxPolls   \* lock attempts that fit before the deadline (wait_s / poll_s)

Processes == Tenants \cup Probers

ASSUME LeaseAssumption ==
  /\ MaxPolls \in Nat
  /\ Tenants \cap Probers = {}
  /\ {Nobody, Blank, Missing} \cap Processes = {}
  /\ Nobody # Blank /\ Nobody # Missing /\ Blank # Missing

VARIABLES
  flock,     \* who holds the exclusive flock
  stamp,     \* the lease file's content: whose holder JSON it is
  pc,        \* where each process is
  polls,     \* attempts a tenant has left before its deadline
  job,       \* tenants whose GPU job is alive
  answer     \* what a prober's last lease_holder() returned

vars == <<flock, stamp, pc, polls, job, answer>>

-----------------------------------------------------------------------------
(* States of the two kinds of process.                                     *)

TenantStates == {"idle", "polling", "flocked", "truncated", "holding", "dead"}
ProberStates == {"rest", "locked", "refused"}

Holding(t) == pc[t] \in {"flocked", "truncated", "holding"}
Waiting(t) == pc[t] = "polling"

Goto(p, from, to) ==
  /\ pc[p] = from
  /\ pc' = [pc EXCEPT ![p] = to]

Init ==
  /\ flock = Nobody
  /\ stamp = Missing
  /\ pc = [p \in Processes |-> IF p \in Tenants THEN "idle" ELSE "rest"]
  /\ polls = [t \in Tenants |-> 0]
  /\ job = {}
  /\ answer = [p \in Probers |-> Nobody]

-----------------------------------------------------------------------------
(* acquire_lease: open the file (creating it), then try the flock without  *)
(* blocking until it is taken or the deadline has passed.                  *)

\* Mutant: the file is opened with truncation, before the flock is held.
OpenTruncating(t) ==
  /\ Goto(t, "idle", "polling")
  /\ polls' = [polls EXCEPT ![t] = MaxPolls]
  /\ stamp' = Blank
  /\ UNCHANGED <<flock, job, answer>>

Open(t) ==
  /\ Goto(t, "idle", "polling")
  /\ polls' = [polls EXCEPT ![t] = MaxPolls]
  /\ stamp' = IF stamp = Missing THEN Blank ELSE stamp
  /\ UNCHANGED <<flock, job, answer>>

TakeFlock(t) ==
  /\ Goto(t, "polling", "flocked")
  /\ flock = Nobody
  /\ flock' = t
  /\ UNCHANGED <<stamp, polls, job, answer>>

\* Mutant: the deadline is never looked at.
PollPastDeadline(t) ==
  /\ pc[t] = "polling"
  /\ flock # Nobody
  /\ polls' = [polls EXCEPT ![t] = @ - 1]
  /\ UNCHANGED <<flock, stamp, pc, job, answer>>

\* Mutant: the deadline is computed anew on every turn of the loop.
PollFreshDeadline(t) ==
  /\ pc[t] = "polling"
  /\ flock # Nobody
  /\ polls[t] > 0
  /\ UNCHANGED vars

PollAgain(t) ==
  /\ pc[t] = "polling"
  /\ flock # Nobody
  /\ polls[t] > 0
  /\ polls' = [polls EXCEPT ![t] = @ - 1]
  /\ UNCHANGED <<flock, stamp, pc, job, answer>>

\* Mutant: at the deadline the lock is taken for stale and broken.
GiveUpBreaksLock(t) ==
  /\ Goto(t, "polling", "flocked")
  /\ flock # Nobody
  /\ polls[t] = 0
  /\ flock' = t
  /\ UNCHANGED <<stamp, polls, job, answer>>

GiveUp(t) ==
  /\ Goto(t, "polling", "idle")
  /\ flock # Nobody
  /\ polls[t] = 0
  /\ UNCHANGED <<flock, stamp, polls, job, answer>>

\* The stamp is rewritten in place, only after the flock is held.
Truncate(t) ==
  /\ Goto(t, "flocked", "truncated")
  /\ stamp' = Blank
  /\ UNCHANGED <<flock, polls, job, answer>>

WriteStamp(t) ==
  /\ Goto(t, "truncated", "holding")
  /\ stamp' = t
  /\ UNCHANGED <<flock, polls, job, answer>>

-----------------------------------------------------------------------------
(* The tenant's time under the lease, and release_lease.                   *)

StartJob(t) ==
  /\ pc[t] = "holding"
  /\ t \notin job
  /\ job' = job \cup {t}
  /\ UNCHANGED <<flock, stamp, pc, polls, answer>>

JobEnds(t) ==
  /\ t \in job
  /\ job' = job \ {t}
  /\ UNCHANGED <<flock, stamp, pc, polls, answer>>

\* The tenant waits for its job before it lets the lease go; the stamp stays.
\* Mutant: the lease is let go without waiting for the job.
ReleaseEarly(t) ==
  /\ Goto(t, "holding", "idle")
  /\ flock' = Nobody
  /\ UNCHANGED <<stamp, polls, job, answer>>

Release(t) ==
  /\ Goto(t, "holding", "idle")
  /\ t \notin job
  /\ flock' = Nobody
  /\ UNCHANGED <<stamp, polls, job, answer>>

\* SIGKILL of the tenant: the kernel drops its flock, its job goes on.
Die(t) ==
  /\ pc[t] # "dead"
  /\ pc' = [pc EXCEPT ![t] = "dead"]
  /\ flock' = IF flock = t THEN Nobody ELSE flock
  /\ UNCHANGED <<stamp, polls, job, answer>>

-----------------------------------------------------------------------------
(* lease_holder: probe by taking the flock for a moment; when that fails,  *)
(* the file's content is the answer.                                       *)

ProbeNoFile(p) ==
  /\ pc[p] = "rest"
  /\ stamp = Missing
  /\ answer' = [answer EXCEPT ![p] = Nobody]
  /\ UNCHANGED <<flock, stamp, pc, polls, job>>

ProbeLock(p) ==
  /\ Goto(p, "rest", "locked")
  /\ stamp # Missing
  /\ flock = Nobody
  /\ flock' = p
  /\ UNCHANGED <<stamp, polls, job, answer>>

ProbeUnlock(p) ==
  /\ Goto(p, "locked", "rest")
  /\ flock' = Nobody
  /\ answer' = [answer EXCEPT ![p] = Nobody]
  /\ UNCHANGED <<stamp, polls, job>>

ProbeRefused(p) ==
  /\ Goto(p, "rest", "refused")
  /\ stamp # Missing
  /\ flock # Nobody
  /\ UNCHANGED <<flock, stamp, polls, job, answer>>

\* The content is read after the attempt failed: the holder may have changed.
ProbeRead(p) ==
  /\ Goto(p, "refused", "rest")
  /\ answer' = [answer EXCEPT ![p] = stamp]
  /\ UNCHANGED <<flock, stamp, polls, job>>

-----------------------------------------------------------------------------
Acquire(t) == TakeFlock(t) \/ PollAgain(t) \/ GiveUp(t) \/ Truncate(t) \/ WriteStamp(t)

Probe(p) ==
  ProbeNoFile(p) \/ ProbeLock(p) \/ ProbeUnlock(p) \/ ProbeRefused(p) \/ ProbeRead(p)

Next ==
  \/ \E t \in Tenants :
       Open(t) \/ Acquire(t) \/ StartJob(t) \/ JobEnds(t) \/ Release(t) \/ Die(t)
  \/ \E p \in Probers : Probe(p)

Spec == Init /\ [][Next]_vars

\* A live process runs on.  Nobody is obliged to ask for the lease, to probe,
\* or to give the lease back.
Fairness ==
  /\ \A t \in Tenants : WF_vars(Acquire(t))
  /\ \A p \in Probers : WF_vars(ProbeUnlock(p)) /\ WF_vars(ProbeRead(p))

FairSpec == Spec /\ Fairness

-----------------------------------------------------------------------------
(* Properties.                                                             *)

\* Every variable holds a value the code can give it.
TypeOK ==
  /\ flock \in Processes \cup {Nobody}
  /\ stamp \in Tenants \cup {Blank, Missing}
  /\ pc \in [Processes -> TenantStates \cup ProberStates]
  /\ polls \in [Tenants -> 0..MaxPolls]
  /\ job \subseteq Tenants
  /\ answer \in [Probers -> Tenants \cup {Blank, Nobody}]

\* Two GPU jobs run at once only if one of them was left behind by a killed
\* tenant: waiting, probing, giving up and stamping never let two in.
GpuExclusive ==
  \A s, t \in job : s = t \/ pc[s] = "dead" \/ pc[t] = "dead"

\* While a tenant runs under the lease, the file names that tenant: nobody
\* who lost the race, gave up or probed has overwritten its stamp.
StampNamesHolder ==
  \A t \in Tenants : pc[t] = "holding" => stamp = t

\* A tenant that holds the lease keeps it until it releases it or dies; no
\* other process's attempt, probe or exit takes it away.
LeaseIsKept ==
  [][\A t \in Tenants : flock = t /\ flock' # t => pc'[t] \in {"idle", "dead"}]_vars

\* The lease file implements turn taking on the GPU.
Turns == INSTANCE GpuTurns WITH
           turn    <- IF flock \in Tenants THEN flock ELSE Nobody,
           running <- job,
           killed  <- {t \in Tenants : pc[t] = "dead"}

TakesTurns == Turns!Spec

\* A waiting tenant does not wait forever, however often others take the
\* lease before it: it gets the lease, gives up at its deadline, or dies.
WaitEnds == \A t \in Tenants : Waiting(t) ~> ~Waiting(t)

=============================================================================

--------------------------- MODULE GpuLeaseProofs ---------------------------
(***************************************************************************)
(* Proofs about GpuLease for any number of tenants and probers.  The       *)
(* inductive invariant ties every process's program counter to the owner   *)
(* of the flock; GPU exclusion, the stamp and turn taking follow from it.  *)
(***************************************************************************)
EXTENDS GpuLease, TLAPS

\* Who holds the flock is read off the program counters, and a job is only
\* alive under a tenant that holds the lease or has died.
LeaseInv ==
  /\ \A t \in Tenants : pc[t] \in TenantStates
  /\ \A p \in Probers : pc[p] \in ProberStates
  /\ \A t \in Tenants : Holding(t) <=> flock = t
  /\ \A p \in Probers : pc[p] = "locked" <=> flock = p
  /\ \A p \in Probers : pc[p] = "refused" => stamp # Missing
  /\ \A t \in job : pc[t] \in {"holding", "dead"}
  /\ StampNamesHolder

IInv == TypeOK /\ LeaseInv

-----------------------------------------------------------------------------
\* The initial state satisfies the inductive invariant.
LEMMA InitIInv == Init => IInv
  BY LeaseAssumption
  DEF Init, IInv, TypeOK, LeaseInv, StampNamesHolder, Holding, Processes,
      TenantStates, ProberStates

\* Every step of acquire_lease, release_lease, lease_holder and of the kernel
\* preserves the inductive invariant.
LEMMA NextIInv == IInv /\ [Next]_vars => IInv'
  <1> SUFFICES ASSUME IInv, [Next]_vars
               PROVE  IInv'
    OBVIOUS
  <1> USE LeaseAssumption
      DEF IInv, TypeOK, LeaseInv, StampNamesHolder, Holding, Processes,
          TenantStates, ProberStates, Goto
  <1>1. ASSUME NEW t \in Tenants, Open(t) PROVE IInv'
    BY <1>1 DEF Open
  <1>2. ASSUME NEW t \in Tenants, TakeFlock(t) PROVE IInv'
    BY <1>2 DEF TakeFlock
  <1>3. ASSUME NEW t \in Tenants, PollAgain(t) PROVE IInv'
    BY <1>3 DEF PollAgain
  <1>4. ASSUME NEW t \in Tenants, GiveUp(t) PROVE IInv'
    BY <1>4 DEF GiveUp
  <1>5. ASSUME NEW t \in Tenants, Truncate(t) PROVE IInv'
    BY <1>5 DEF Truncate
  <1>6. ASSUME NEW t \in Tenants, WriteStamp(t) PROVE IInv'
    BY <1>6 DEF WriteStamp
  <1>7. ASSUME NEW t \in Tenants, StartJob(t) PROVE IInv'
    BY <1>7 DEF StartJob
  <1>8. ASSUME NEW t \in Tenants, JobEnds(t) PROVE IInv'
    BY <1>8 DEF JobEnds
  <1>9. ASSUME NEW t \in Tenants, Release(t) PROVE IInv'
    BY <1>9 DEF Release
  <1>10. ASSUME NEW t \in Tenants, Die(t) PROVE IInv'
    BY <1>10 DEF Die
  <1>11. ASSUME NEW p \in Probers, ProbeNoFile(p) PROVE IInv'
    BY <1>11 DEF ProbeNoFile
  <1>12. ASSUME NEW p \in Probers, ProbeLock(p) PROVE IInv'
    BY <1>12 DEF ProbeLock
  <1>13. ASSUME NEW p \in Probers, ProbeUnlock(p) PROVE IInv'
    BY <1>13 DEF ProbeUnlock
  <1>14. ASSUME NEW p \in Probers, ProbeRefused(p) PROVE IInv'
    BY <1>14 DEF ProbeRefused
  <1>15. ASSUME NEW p \in Probers, ProbeRead(p) PROVE IInv'
    BY <1>15 DEF ProbeRead
  <1>16. CASE UNCHANGED vars
    BY <1>16 DEF vars
  <1>17. QED
    BY <1>1, <1>2, <1>3, <1>4, <1>5, <1>6, <1>7, <1>8, <1>9, <1>10, <1>11,
       <1>12, <1>13, <1>14, <1>15, <1>16 DEF Next, Acquire, Probe

\* The inductive invariant holds throughout.
THEOREM LeaseInvariant == Spec => []IInv
  BY InitIInv, NextIInv, PTL DEF Spec

\* Every variable keeps its type.
THEOREM LeaseTypes == Spec => []TypeOK
  <1>1. IInv => TypeOK
    BY DEF IInv
  <1>2. QED
    BY <1>1, LeaseInvariant, PTL

\* GPU jobs of two tenants overlap only after a kill: a live tenant with a
\* job holds the flock, and one process owns the flock.
THEOREM LeaseExclusion == Spec => []GpuExclusive
  <1>1. IInv => GpuExclusive
    BY DEF IInv, TypeOK, LeaseInv, GpuExclusive, Holding
  <1>2. QED
    BY <1>1, LeaseInvariant, PTL

\* The lease file names the tenant that runs under it.
THEOREM LeaseStamp == Spec => []StampNamesHolder
  <1>1. IInv => StampNamesHolder
    BY DEF IInv, LeaseInv
  <1>2. QED
    BY <1>1, LeaseInvariant, PTL

-----------------------------------------------------------------------------
\* A step that ends a tenant's hold on the flock is its own release or death.
LEMMA KeptStep ==
  IInv /\ [Next]_vars
    => [\A t \in Tenants : flock = t /\ flock' # t => pc'[t] \in {"idle", "dead"}]_vars
  <1> SUFFICES ASSUME IInv, Next, NEW t \in Tenants, flock = t, flock' # t
               PROVE  pc'[t] \in {"idle", "dead"}
    BY DEF vars
  <1> USE LeaseAssumption DEF IInv, TypeOK, LeaseInv, Holding, Processes, Goto
  <1>1. ASSUME NEW s \in Tenants, Open(s) \/ Acquire(s) \/ StartJob(s) \/ JobEnds(s)
        PROVE  FALSE
    BY <1>1 DEF Open, Acquire, TakeFlock, PollAgain, GiveUp, Truncate, WriteStamp,
                StartJob, JobEnds
  <1>2. ASSUME NEW s \in Tenants, Release(s) PROVE pc'[t] \in {"idle", "dead"}
    BY <1>2 DEF Release
  <1>3. ASSUME NEW s \in Tenants, Die(s) PROVE pc'[t] \in {"idle", "dead"}
    BY <1>3 DEF Die
  <1>4. ASSUME NEW p \in Probers, Probe(p) PROVE FALSE
    BY <1>4 DEF Probe, ProbeNoFile, ProbeLock, ProbeUnlock, ProbeRefused, ProbeRead
  <1>5. QED
    BY <1>1, <1>2, <1>3, <1>4 DEF Next

\* Nobody but the holder, or its death, ends a lease.
THEOREM LeaseKept == Spec => LeaseIsKept
  BY LeaseInvariant, KeptStep, PTL DEF Spec, LeaseIsKept

-----------------------------------------------------------------------------

\* A step of the lease file is a step of turn taking, or leaves it alone.
LEMMA TurnStep == IInv /\ IInv' /\ [Next]_vars => [Turns!Next]_(Turns!vars)
  <1> SUFFICES ASSUME IInv, IInv', [Next]_vars
               PROVE  Turns!Next \/ UNCHANGED Turns!vars
    BY DEF Turns!vars
  <1> USE LeaseAssumption DEF IInv, TypeOK, LeaseInv, Holding, Processes, Goto
  <1>1. ASSUME NEW t \in Tenants, TakeFlock(t) PROVE Turns!Take(t)
    BY <1>1 DEF TakeFlock, Turns!Take
  <1>2. ASSUME NEW t \in Tenants, StartJob(t) PROVE Turns!Start(t)
    BY <1>2 DEF StartJob, Turns!Start
  <1>3. ASSUME NEW t \in Tenants, JobEnds(t) PROVE Turns!Finish(t)
    BY <1>3 DEF JobEnds, Turns!Finish
  <1>4. ASSUME NEW t \in Tenants, Release(t) PROVE Turns!Give(t)
    BY <1>4 DEF Release, Turns!Give
  <1>5. ASSUME NEW t \in Tenants, Die(t) PROVE Turns!Die(t)
    BY <1>5 DEF Die, Turns!Die
  <1>6. ASSUME NEW t \in Tenants,
               Open(t) \/ PollAgain(t) \/ GiveUp(t) \/ Truncate(t) \/ WriteStamp(t)
        PROVE  UNCHANGED Turns!vars
    BY <1>6 DEF Open, PollAgain, GiveUp, Truncate, WriteStamp, Turns!vars
  <1>7. ASSUME NEW p \in Probers, Probe(p) PROVE UNCHANGED Turns!vars
    BY <1>7 DEF Probe, ProbeNoFile, ProbeLock, ProbeUnlock, ProbeRefused, ProbeRead,
                Turns!vars
  <1>8. CASE UNCHANGED vars
    BY <1>8 DEF vars, Turns!vars
  <1>9. QED
    BY <1>1, <1>2, <1>3, <1>4, <1>5, <1>6, <1>7, <1>8 DEF Next, Acquire, Turns!Next

\* The lease protocol implements turn taking on the GPU.
THEOREM LeaseTakesTurns == Spec => TakesTurns
  <1>1. Init => Turns!Init
    BY LeaseAssumption DEF Init, Turns!Init, Processes
  <1>2. QED
    BY <1>1, LeaseInvariant, TurnStep, PTL DEF Spec, TakesTurns, Turns!Spec

=============================================================================

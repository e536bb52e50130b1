------------------------------ MODULE GpuTurns ------------------------------
(***************************************************************************)
(* What the GPU lease of vqlab/core/box/gpu_lease.py promises: the tenants *)
(* of one machine take turns on its GPU.  A tenant starts a GPU job only   *)
(* in its own turn, and ends its turn with its job finished; only a tenant *)
(* that is killed leaves a job behind.                                     *)
(***************************************************************************)
CONSTANTS
  Tenants,   \* processes that take the lease: queue runners, MCP supervisors
  Nobody     \* the turn when no tenant has it; not itself a tenant

VARIABLES
  turn,      \* the tenant whose turn it is, or Nobody
  running,   \* the tenants with a GPU job alive
  killed     \* the tenants that died without ending their turn in order

vars == <<turn, running, killed>>

Init ==
  /\ turn = Nobody
  /\ running = {}
  /\ killed = {}

Take(t) ==
  /\ turn = Nobody
  /\ t \notin killed
  /\ turn' = t
  /\ UNCHANGED <<running, killed>>

Start(t) ==
  /\ turn = t
  /\ running' = running \cup {t}
  /\ UNCHANGED <<turn, killed>>

Finish(t) ==
  /\ t \in running
  /\ running' = running \ {t}
  /\ UNCHANGED <<turn, killed>>

Give(t) ==
  /\ turn = t
  /\ t \notin running
  /\ turn' = Nobody
  /\ UNCHANGED <<running, killed>>

\* The kernel takes a dead tenant's turn away; its job lives on.
Die(t) ==
  /\ turn' = IF turn = t THEN Nobody ELSE turn
  /\ killed' = killed \cup {t}
  /\ UNCHANGED running

Next == \E t \in Tenants : Take(t) \/ Start(t) \/ Finish(t) \/ Give(t) \/ Die(t)

Spec == Init /\ [][Next]_vars

=============================================================================

----------------------------- MODULE Threadgroup -----------------------------
(***************************************************************************)
(* The threads of one Metal threadgroup that run one kernel: a list of      *)
(* instructions, the same for all, and a place in it for each.  A process   *)
(* is a thread, or the 32 threads of a simdgroup where the kernel gives a   *)
(* row to a simdgroup: those run in lockstep.                              *)
(***************************************************************************)
EXTENDS Integers, Sequences

VARIABLES prog,   \* the instructions of this launch
          pc      \* where each process is; -i, for one that returned at i

At(p, op) == pc[p] \in 1..Len(prog) /\ prog[pc[p]].op = op
Instr(p)  == prog[pc[p]]
Onward(p) == pc' = [pc EXCEPT ![p] = @ + 1]

\* Barriers up to this place, p has been at.
Place(p) == IF pc[p] < 0 THEN -pc[p] ELSE pc[p]

\* threadgroup_barrier: nobody passes before everybody has come.
Meet(p) ==
  /\ At(p, "barrier")
  /\ \A q \in DOMAIN pc : Place(q) >= pc[p]
  /\ Onward(p)

\* return, before the end of the kernel.
Leave(p) == pc' = [pc EXCEPT ![p] = -@]

Ended == \A p \in DOMAIN pc : pc[p] \notin 1..Len(prog)

\* Nobody waits at a barrier for a process that returned before it: Metal
\* leaves undefined what happens then.
NobodyIsMissed ==
  \A p, q \in DOMAIN pc : pc[p] < 0 /\ At(q, "barrier") => Place(p) > pc[q]

=============================================================================

----------------------------- MODULE FindingsLog -----------------------------
(***************************************************************************)
(* The F-numbered findings log (vqlab/ops/findings.py): sessions of several *)
(* MCP servers and CLIs take numbers and publish entries through one        *)
(* append-only file and a folder of lock files, F<n>.lock.                  *)
(*                                                                         *)
(* A call reads the log, then reads the lock folder, then creates its lock *)
(* with O_EXCL; those are separate steps.  A lock goes when its entry is   *)
(* written, when it is given back, or when a reader finds it out of date.  *)
(***************************************************************************)
EXTENDS Naturals, FiniteSets

CONSTANTS
  Sessions,  \* callers; each makes one call at a time
  MaxF       \* bound: numbers above this are not asked for

ASSUME LogAssumption == MaxF \in Nat \ {0}

Numbers == 1..MaxF

VARIABLES
  log,      \* how many entries of the log carry each number
  locks,    \* numbers whose lock file exists
  stale,    \* of those, the ones past the 6 h TTL
  expired,  \* numbers a lock of which was ever past its TTL (history)
  pc,       \* where each session is
  want,     \* what its call is for: "peek", "reserve" or "append"
  pub,      \* the numbers it read in the log
  drop,     \* lock files it found out of date and will unlink
  f         \* the number it is trying, holds or writes (0: none)

vars == <<log, locks, stale, expired, pc, want, pub, drop, f>>

-----------------------------------------------------------------------------
Places == {"idle", "read", "listed", "create", "holding", "checked", "write", "unlink", "gone"}

Published == {n \in Numbers : log[n] > 0}

Goto(s, from, to) == pc[s] = from /\ pc' = [pc EXCEPT ![s] = to]

\* The lowest number above the highest of `known` that is not in `taken`.
Above(known, n) == \A k \in known : k < n
FirstFree(known, taken, n) ==
  /\ Above(known, n) /\ n \notin taken
  /\ \A m \in 1..(n - 1) : Above(known, m) => m \in taken

Init ==
  /\ log = [n \in Numbers |-> 0]
  /\ locks = {}
  /\ stale = {}
  /\ expired = {}
  /\ pc = [s \in Sessions |-> "idle"]
  /\ want = [s \in Sessions |-> "peek"]
  /\ pub = [s \in Sessions |-> {}]
  /\ drop = [s \in Sessions |-> {}]
  /\ f = [s \in Sessions |-> 0]

-----------------------------------------------------------------------------
(* next_f_number, called alone or by findings_append.                      *)

ReadLog(s) ==
  /\ Goto(s, "idle", "read")
  /\ \E w \in {"peek", "reserve", "append"} : want' = [want EXCEPT ![s] = w]
  /\ pub' = [pub EXCEPT ![s] = Published]
  /\ UNCHANGED <<log, locks, stale, expired, drop, f>>

\* Mutant: the highest number itself, not the one after it.
ListLocksTop(s) ==
  /\ Goto(s, "read", "listed")
  /\ drop' = [drop EXCEPT ![s] = locks \cap (stale \cup pub[s])]
  /\ \E n \in {0} \cup pub[s] : (\A k \in pub[s] : k <= n) /\ f' = [f EXCEPT ![s] = n]
  /\ UNCHANGED <<log, locks, stale, expired, want, pub>>

\* _live_reservations: which lock files stand, and which are out of date.
ListLocks(s) ==
  /\ Goto(s, "read", "listed")
  /\ drop' = [drop EXCEPT ![s] = locks \cap (stale \cup pub[s])]
  /\ LET taken == pub[s] \cup (locks \ (stale \cup pub[s]))
     IN  \E n \in Numbers : FirstFree(pub[s], taken, n) /\ f' = [f EXCEPT ![s] = n]
  /\ UNCHANGED <<log, locks, stale, expired, want, pub>>

\* ... and the unlinking of those, by name.  A peek ends there: it is two such
\* scans in a row.  What the call read is not looked at again.
DropLocks(s) ==
  /\ pc[s] = "listed"
  /\ LET peek == want[s] = "peek"
     IN  /\ pc' = [pc EXCEPT ![s] = IF peek THEN "idle" ELSE "create"]
         /\ f' = [f EXCEPT ![s] = IF peek THEN 0 ELSE @]
  /\ locks' = locks \ drop[s]
  /\ stale' = stale \ drop[s]
  /\ drop' = [drop EXCEPT ![s] = {}]
  /\ pub' = [pub EXCEPT ![s] = {}]
  /\ UNCHANGED <<log, expired, want>>

\* Mutant: the lock file is opened without O_EXCL.
CreateAnyway(s) ==
  /\ pc[s] = "create"
  /\ pc' = [pc EXCEPT ![s] = IF want[s] = "reserve" THEN "holding" ELSE "write"]
  /\ locks' = locks \cup {f[s]}
  /\ UNCHANGED <<log, stale, expired, want, pub, drop, f>>

\* O_CREAT | O_EXCL: one creator per name.
Create(s) ==
  /\ pc[s] = "create"
  /\ f[s] \notin locks
  /\ pc' = [pc EXCEPT ![s] = IF want[s] = "reserve" THEN "holding" ELSE "write"]
  /\ locks' = locks \cup {f[s]}
  /\ UNCHANGED <<log, stale, expired, want, pub, drop, f>>

\* EEXIST: the next number, without reading log or locks again.
CreateLoses(s) ==
  /\ pc[s] = "create"
  /\ f[s] \in locks
  /\ f[s] < MaxF
  /\ f' = [f EXCEPT ![s] = @ + 1]
  /\ UNCHANGED <<log, locks, stale, expired, pc, want, pub, drop>>

-----------------------------------------------------------------------------
(* findings_append, and giving a number back.                              *)

\* use_reserved: the number must not be in the log, and its lock must stand.
CheckReserved(s) ==
  /\ Goto(s, "holding", "checked")
  /\ f[s] \notin Published
  /\ UNCHANGED <<log, locks, stale, expired, want, pub, drop, f>>

CheckLock(s) ==
  /\ Goto(s, "checked", "write")
  /\ f[s] \in locks
  /\ UNCHANGED <<log, locks, stale, expired, want, pub, drop, f>>

\* Either check fails: the caller is told and has no number any more.
Refused(s) ==
  /\ \/ pc[s] = "holding" /\ f[s] \in Published
     \/ pc[s] = "checked" /\ f[s] \notin locks
  /\ pc' = [pc EXCEPT ![s] = "idle"]
  /\ f' = [f EXCEPT ![s] = 0]
  /\ UNCHANGED <<log, locks, stale, expired, want, pub, drop>>

Write(s) ==
  /\ Goto(s, "write", "unlink")
  /\ log' = [log EXCEPT ![f[s]] = @ + 1]
  /\ UNCHANGED <<locks, stale, expired, want, pub, drop, f>>

Unlink(s) ==
  /\ Goto(s, "unlink", "idle")
  /\ locks' = locks \ {f[s]}
  /\ stale' = stale \ {f[s]}
  /\ f' = [f EXCEPT ![s] = 0]
  /\ UNCHANGED <<log, expired, want, pub, drop>>

\* Mutant: the number is forgotten, its lock is left for the TTL to clear.
ReleaseKeepsLock(s) ==
  /\ Goto(s, "holding", "idle")
  /\ f' = [f EXCEPT ![s] = 0]
  /\ UNCHANGED <<log, locks, stale, expired, want, pub, drop>>

\* release_f_number: an abandoned experiment gives its number back.
Release(s) ==
  /\ Goto(s, "holding", "idle")
  /\ locks' = locks \ {f[s]}
  /\ stale' = stale \ {f[s]}
  /\ f' = [f EXCEPT ![s] = 0]
  /\ UNCHANGED <<log, expired, want, pub, drop>>

-----------------------------------------------------------------------------
(* Sessions that end mid-experiment, and the TTL of what they held.        *)

Has(s, n) == pc[s] \in {"holding", "checked", "write", "unlink"} /\ f[s] = n

\* The session dies, or its append raises: the lock stays.
Crash(s) ==
  /\ Has(s, f[s])
  /\ pc' = [pc EXCEPT ![s] = "gone"]
  /\ UNCHANGED <<log, locks, stale, expired, want, pub, drop, f>>

\* Six hours pass: the holder died, or its experiment is a long one.
Expire(n) ==
  /\ n \in locks \ stale
  /\ stale' = stale \cup {n}
  /\ expired' = expired \cup {n}
  /\ UNCHANGED <<log, locks, pc, want, pub, drop, f>>

-----------------------------------------------------------------------------
Call(s) ==
  \/ ReadLog(s) \/ ListLocks(s) \/ DropLocks(s) \/ Create(s) \/ CreateLoses(s)
  \/ CheckReserved(s) \/ CheckLock(s) \/ Refused(s) \/ Write(s) \/ Unlink(s) \/ Release(s)

Next ==
  \/ \E s \in Sessions : Call(s) \/ Crash(s)
  \/ \E n \in Numbers : Expire(n)

Spec == Init /\ [][Next]_vars

-----------------------------------------------------------------------------
(* Properties.                                                             *)

\* Every variable holds a value the code can give it.
TypeOK ==
  /\ log \in [Numbers -> Nat]
  /\ locks \subseteq Numbers
  /\ stale \subseteq locks
  /\ expired \subseteq Numbers
  /\ pc \in [Sessions -> Places]
  /\ want \in [Sessions -> {"peek", "reserve", "append"}]
  /\ pub \in [Sessions -> SUBSET Numbers]
  /\ drop \in [Sessions -> SUBSET Numbers]
  /\ f \in [Sessions -> Numbers \cup {0}]

\* Two sessions never both have a number that is still to be published, though
\* reads of log and locks, lost creations, clean-ups and deaths come in any
\* order.  Numbers whose lock has run out are left out: two sessions that both
\* found it out of date may unlink it one after the other, the second time
\* when it is somebody's fresh lock.
HoldersDiffer ==
  \A n \in Numbers \ (Published \cup expired) :
    \A s, t \in Sessions : Has(s, n) /\ Has(t, n) => s = t

\* No number is burnt: a lock that stands in the way of others belongs to a
\* session at work or to a dead one (whose TTL runs), or its number is in the
\* log and the next scan unlinks it.
NothingBurnt ==
  \A n \in locks \ Published :
    \E s \in Sessions : Has(s, n) \/ (pc[s] = "gone" /\ f[s] = n)

\* next_f_number: two sessions never write the same F-number.
UniqueNumbers == \A n \in Numbers : log[n] <= 1

=============================================================================

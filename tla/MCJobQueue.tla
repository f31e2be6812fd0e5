------------------------------ MODULE MCJobQueue ------------------------------
(***************************************************************************)
(* Small instances of JobQueue for TLC.                                    *)
(***************************************************************************)
EXTENDS JobQueue, TLC

CONSTANTS j1, j2, k1, k2, s1, p1, p2, w1

\* Both processes run under one configured worker id: the owner column alone
\* tells them apart no better than a restarted process from its predecessor.
MCWorkerId == [p \in Procs |-> w1]
MCPriority == [j \in Jobs |-> 100]
MCBackoffs == {0, 1}

ProcSymmetry == Permutations({p1, p2}) \cup Permutations({j1, j2})
                  \cup Permutations({k1, k2})
=============================================================================

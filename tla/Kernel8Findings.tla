-------------------------- MODULE Kernel8Findings --------------------------
(***************************************************************************)
(* What a comment of the repository says of the ch8 kernel and its code   *)
(* does not do.  A run refutes the property.                               *)
(***************************************************************************)
EXTENDS Kernel8

\* sync.h says of condvar_wait "wait (block the current thread)": a thread
\* that waits on a condition variable is not runnable afterwards.
CondvarWaitBlocks ==
    [][\A t \in Tids :
          (\E i, j \in Slots : CondvarWait(t, i, j)) => ~Occurs(t, ready')]_vars
=============================================================================

----------------------------- MODULE BlockStore -----------------------------
(***************************************************************************)
(* What a block cache promises: one array of blocks.  Nothing else that    *)
(* the cache does may show in it.                                          *)
(***************************************************************************)
CONSTANTS Blocks, Contents

VARIABLE store

TypeOK == store \in [Blocks -> Contents]

Write(b, c) == store' = [store EXCEPT ![b] = c]

Next == \E b \in Blocks, c \in Contents : Write(b, c)

Spec == TypeOK /\ [][Next]_store
=============================================================================

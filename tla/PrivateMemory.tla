---------------------------- MODULE PrivateMemory ----------------------------
(***************************************************************************)
(* What address spaces promise programs: memory of their own, with the     *)
(* program in it that was last loaded, as far as there was room for it.    *)
(***************************************************************************)
CONSTANTS Procs, Words,
          NoProgram,   \* in a process that does not exist yet
          Content      \* [word, writable] at each address, for each program

VARIABLES memory,      \* of each process, by address
          program

Init == /\ memory  = [p \in Procs |-> <<>>]
        /\ program = [p \in Procs |-> NoProgram]

PartOf(m, c) == DOMAIN m \subseteq DOMAIN c /\ \A a \in DOMAIN m : m[a] = c[a]

\* A new process, or exec: its program's memory and nothing else.
Load(p, prog) == /\ program' = [program EXCEPT ![p] = prog]
                 /\ \A q \in Procs \ {p} : memory'[q] = memory[q]
                 /\ PartOf(memory'[p], Content[prog])

Fork(p, c) == /\ program[c] = NoProgram
              /\ program' = [program EXCEPT ![c] = program[p]]
              /\ memory' = [memory EXCEPT ![c] = memory[p]]

Store(p, a, w) == /\ a \in DOMAIN memory[p] /\ memory[p][a].writable
                  /\ memory' = [memory EXCEPT ![p][a].word = w]
                  /\ UNCHANGED program

Next == \/ \E p \in Procs, prog \in DOMAIN Content : Load(p, prog)
        \/ \E p, c \in Procs : Fork(p, c)
        \/ \E p \in Procs : \E a \in DOMAIN memory[p], w \in Words : Store(p, a, w)

Spec == Init /\ [][Next]_<<memory, program>>
=============================================================================

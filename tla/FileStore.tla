----------------------------- MODULE FileStore ------------------------------
(***************************************************************************)
(* What the files are to the programs: a sequence of words under a name,   *)
(* and open files, each with an offset of its own in one of them.  There   *)
(* are no blocks, no cache and no device here.                             *)
(***************************************************************************)
EXTENDS Integers, Sequences, FiniteSets

CONSTANTS Pids, Fds, Names, FlagSets, Data, Lengths,
          Closed, Absent       \* no open file; no file

VARIABLES files,     \* the content under each name
          handles,   \* the open files of each process
          words      \* what the last call read

Zeros(n) == [i \in 1..n |-> 0]
Take(s, n) == SubSeq(s, 1, n)
Least(a, b) == IF a <= b THEN a ELSE b

\* The content once data has been written at an offset, which may be past the
\* end: what lies between is zero.
Overwrite(s, at, data) ==
    LET padded == s \o Zeros(at - Len(s))
    IN  Take(padded, at) \o data \o SubSeq(padded, at + Len(data) + 1, Len(padded))

Opened(name, flags) == [name |-> name, offset |-> 0,
                        readable |-> flags = {} \/ "RDWR" \in flags,
                        writable |-> flags \cap {"WRONLY", "RDWR"} # {}]

-----------------------------------------------------------------------------
Open(p, name, flags) ==
    LET free == {f \in Fds : handles[p][f] = Closed}
        fd   == CHOOSE f \in free : \A g \in free : f <= g
    IN  /\ free # {}
        /\ files[name] # Absent \/ "CREATE" \in flags
        /\ files' = IF files[name] = Absent \/ flags \cap {"CREATE", "TRUNC"} # {}
                    THEN [files EXCEPT ![name] = <<>>] ELSE files
        /\ handles' = [handles EXCEPT ![p][fd] = Opened(name, flags)]
        /\ words' = <<>>

Close(p, fd) == /\ handles[p][fd] # Closed
                /\ handles' = [handles EXCEPT ![p][fd] = Closed]
                /\ UNCHANGED files
                /\ words' = <<>>

Write(p, fd, data) ==
    LET h == handles[p][fd]
    IN  /\ h # Closed /\ h.name \in Names /\ h.writable
        /\ files' = [files EXCEPT ![h.name] = Overwrite(@, h.offset, data)]
        /\ handles' = [handles EXCEPT ![p][fd].offset = @ + Len(data)]
        /\ words' = <<>>

Read(p, fd, n) ==
    LET h == handles[p][fd]
        s == files[h.name]
        d == SubSeq(s, h.offset + 1, Least(h.offset + n, Len(s)))
    IN  /\ h # Closed /\ h.name \in Names /\ h.readable
        /\ handles' = [handles EXCEPT ![p][fd].offset = @ + Len(d)]
        /\ UNCHANGED files
        /\ words' = d

\* The whole file, as a program to run; nothing, if there is none.
Exec(name) == /\ UNCHANGED <<files, handles>>
              /\ words' = IF files[name] = Absent THEN <<>> ELSE files[name]

\* The child has its parent's open files, with offsets of its own.
Fork(p, c) == /\ handles' = [handles EXCEPT ![c] = handles[p]]
              /\ UNCHANGED files
              /\ words' = <<>>

Next == \/ \E p \in Pids, name \in Names, flags \in FlagSets : Open(p, name, flags)
        \/ \E p \in Pids, fd \in Fds : Close(p, fd)
        \/ \E p \in Pids, fd \in Fds, d \in Data : Write(p, fd, d)
        \/ \E p \in Pids, fd \in Fds, n \in Lengths : Read(p, fd, n)
        \/ \E name \in Names : Exec(name)
        \/ \E p, c \in Pids : Fork(p, c)

Init == /\ files \in [Names -> Seq(Nat) \cup {Absent}]
        /\ words = <<>>

Spec == Init /\ [][Next]_<<files, handles, words>>
=============================================================================

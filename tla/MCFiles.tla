------------------------------ MODULE MCFiles -------------------------------
(***************************************************************************)
(* The images of the run of Files.  Programs run on three of them: the     *)
(* file they use is past the first index block in the first and empty in   *)
(* the second, and the directory has an index block in the third.  The     *)
(* others are only mounted and looked at: they have every size of a file,  *)
(* and every length of the directory, up to what needs all kinds of index  *)
(* blocks.                                                                 *)
(***************************************************************************)
EXTENDS Files

\* Distinct words, none of which a program writes.
Packed(from, n) == [i \in 1..n |-> Number(from + i)]
File(name, data) == [name |-> name, data |-> data]

\* A file of n words, and initproc, before it or after it.
OfSize(n) == { <<File("a", Packed(20, n)), File("initproc", Packed(40, 1))>>,
               <<File("initproc", Packed(40, 4)), File("a", Packed(20, n))>> }

\* A directory of n more files, of which the last has some content.
Others == <<"c", "d", "e", "f", "g", "h", "i">>
OfLength(n) == <<File("a", Packed(20, 1)), File("initproc", Packed(40, 1))>>
                 \o [k \in 1..n |-> File(Others[k], Packed(60, IF k = n THEN 1 ELSE 0))]

\* The third is used for fewer calls.
LongDirectory == OfLength(5)
LONG_DIRECTORY_CALLS == 3

MCUsed == { <<File("a", Packed(20, 10)), File("initproc", Packed(40, 1))>>,
            <<File("initproc", Packed(20, 4)), File("a", <<>>)>>,
            LongDirectory }
MCImageLists == MCUsed \cup UNION {OfSize(n) : n \in 0..10} \cup {OfLength(n) : n \in 0..7}

MCFlagSets == { {"RDWR"}, {"CREATE", "WRONLY"}, {"TRUNC", "RDWR"} }

-----------------------------------------------------------------------------
VARIABLES shown,     \* what the device shows, worked out once for a state
          packed,    \* the list of files the tool was given
          changed    \* the names under which programs have opened files to write

history == <<shown, packed, changed>>

Shown(d, table) == [files |-> FilesOn(d), handles |-> OpenFiles(d, table)]

\* The names of the files that are open to be written.
Writable(handles) ==
    {h.name : h \in {g \in UNION {Range(handles[p]) : p \in Pids} : g # NULL /\ g.writable}}

\* From where the first process has opened a file for reading: the descriptor
\* it gets is stderr's, so the next one is the first to write to.
MCInit == /\ \E files \in ImageLists :
                \E image \in {Image(files)} :
                   \E f \in {file_open(Boot(image), "a", {})} :
                      /\ Begin(f.m, [first_fds EXCEPT ![FD_STDERR] = file_handle(inode(f.id), {})])
                      /\ packed = files
          /\ shown = Shown(disk, fd_table)
          /\ changed = {}
MCNext == /\ packed \in MCUsed
          /\ packed = LongDirectory => calls < LONG_DIRECTORY_CALLS
          /\ Next
          /\ shown' = Shown(disk', fd_table')
          /\ changed' = changed \cup Writable(shown'.handles)
          /\ UNCHANGED packed
MCSpec == MCInit /\ [][MCNext]_<<vars, history>>

Store == INSTANCE FileStore WITH
    Closed  <- NULL, Absent <- NULL,
    Data    <- {[i \in 1..n |-> c] : n \in Lengths, c \in 1..MAX_CALLS},
    files   <- shown.files,
    handles <- shown.handles,
    words   <- Plain(words)

\* file_open, file_read, file_write, do_fork, read_all: what the programs see
\* is a store of files under names: the words written and no others, whatever
\* the blocks held before and whoever else uses the cache; an offset for each
\* open file of each process; for exec, the program that was packed or written.
IsFileStore == Store!Spec

\* efs_create, the tool's disk_inode_increase_size, efs_open, inode_create,
\* inode_write_at, inode_clear: the kernel can mount the image, and finds in it
\* the files the tool was given, each with its content and no others; and
\* whatever programs do with theirs, those they have not opened to write stay.
AsPacked ==
    LET kept  == {i \in DOMAIN packed : packed[i].name \notin changed}
        found == {e \in Directory(disk) : e.name \notin changed}
    IN  /\ disk[0][0] = SuperBlock
        /\ {e.name : e \in found} = {packed[i].name : i \in kept}
        /\ \A i \in kept, e \in found :
              e.name = packed[i].name => Content(disk, e.inode_number) = packed[i].data
=============================================================================

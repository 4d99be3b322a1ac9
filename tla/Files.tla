------------------------------- MODULE Files --------------------------------
(***************************************************************************)
(* The file calls of the ch6 kernel (ch7 and ch8 have the same): the file  *)
(* descriptors of each process, what fork and exec do with files, and the  *)
(* file system under them, on an image that fs-pack made.  The kernel runs *)
(* a call to its end before the next one, of any process, begins.          *)
(***************************************************************************)
EXTENDS FsPack

CONSTANTS MAX_PROCS, MAX_FD,
          NULL,                \* an unused file descriptor
          Names,               \* of files
          ImageLists,          \* the lists of files an image is made of
          FlagSets,            \* the flags programs open files with
          Lengths,             \* words a program reads or writes at once
          MAX_CALLS,           \* bound on the calls of a run, refused ones apart
          StalePointers        \* whether calls may use a stale pointer

ASSUME FilesAssumption == \A files \in ImageLists : Len(files) \in Nat /\ DOMAIN files = 1..Len(files)

VARIABLES stale,       \* a pointer was used after its slot went to another block
          procs,       \* how many processes there are: 0..procs-1
          fd_table,
          words,       \* what the last call read
          calls

vars == <<cache, disk, stale, procs, fd_table, words, calls>>

Pids == 0..(MAX_PROCS - 1)
Fds  == 0..(MAX_FD - 1)

FD_STDIN  == 0
FD_STDOUT == 1
FD_STDERR == 2

Memory == [cache |-> cache, disk |-> disk, stale |-> stale]

-----------------------------------------------------------------------------
\* Looking a file up reads the directory; reading it all, as exec does, takes
\* a block at a time.
read_all(m, i) ==
    LET s == inode_size(m, i)
        Chunk(x, k) == LET r == file_read(x.m, x.fh, BLOCK_SZ)
                       IN  [m |-> r.m, fh |-> r.fh, data |-> x.data \o r.buf]
    IN  Each(Chunk, [m |-> s.m, fh |-> file_handle(i, {}), data |-> <<>>],
                 UpTo(disk_inode_data_blocks(s.size)))

\* exec: the program found, if there is one, read as a whole.
ReadFound(f) == IF f.id < 0 THEN [m |-> f.m, data |-> <<>>] ELSE read_all(f.m, inode(f.id))

\* main: the super block, without which the machine is switched off, the list
\* of files, and initproc.
Boot(image) ==
    LET m == [cache |-> [s \in Slots |-> Unused(0, ZeroBlock)], disk |-> image.disk,
              stale |-> image.stale]
        n == get_block_cache(m, 0)
    IN  IF HasMagic(n) THEN ReadFound(file_open(inode_readdir(n, 16), "initproc", {})).m ELSE n

Images == {Image(files) : files \in ImageLists}
Booted == {Boot(image) : image \in Images}

\* create_process_from_elf: stdin and stdout are open, stderr is not.
first_fds == [fd \in Fds |-> CASE fd = FD_STDIN  -> file_handle(NoInode, {})
                               [] fd = FD_STDOUT -> file_handle(NoInode, {"WRONLY"})
                               [] OTHER -> NULL]

\* One process with these open files, on this memory; none, if it is off.
Begin(m, fds) ==
    /\ cache = m.cache /\ disk = m.disk /\ stale = m.stale
    /\ procs = IF HasMagic(m) THEN 1 ELSE 0
    /\ fd_table = [p \in Pids |-> IF p = 0 THEN fds ELSE [fd \in Fds |-> NULL]]
    /\ words = <<>>
    /\ calls = 0

Init == \E m \in Booted : Begin(m, first_fds)

\* A call ends, with these words in its buffer.
Return(m, data) == /\ \E n \in {m} : cache' = n.cache /\ disk' = n.disk /\ stale' = n.stale
                   /\ stale' => StalePointers
                   /\ words' = data
                   /\ calls' = calls + 1

\* It returns -1.
NoChange == UNCHANGED vars

FreeFds(p) == {fd \in Fds : fd_table[p][fd] = NULL}

\* Room for a file to grow, and not from exactly its direct blocks.  What
\* happens else is described in the README.
Used == Cardinality({b \in Blocks : b >= fs.data_area_start_block /\
            LET bit == b - fs.data_area_start_block
            IN  View(Memory, fs.data_bitmap.start + bit \div BLOCK_BITS)[bit % BLOCK_BITS]})
SizeOf(i) == View(Memory, i.block)[i.pos].size
MayGrow(i, size) ==
    LET old == disk_inode_data_blocks(SizeOf(i))
        new == disk_inode_data_blocks(size)
    IN  \/ new <= old
        \/ /\ old # INODE_DIRECT_COUNT
           /\ new <= INODE_DIRECT_COUNT + INODE_INDIRECT1_COUNT
           /\ Used + new - old + 1 <= TOTAL_BLOCKS - fs.data_area_start_block
RoomToCreate == /\ MayGrow(efs_root_inode, SizeOf(efs_root_inode) + 1)
                /\ bitmap_free(Memory, fs.inode_bitmap.start) # {}

-----------------------------------------------------------------------------
\* Nor is a file emptied that is past the first index block.
MayEmpty(i) == disk_inode_data_blocks(SizeOf(i)) <= INODE_DIRECT_COUNT + INODE_INDIRECT1_COUNT

do_open(p, name, flags) ==
    LET fd == First(FreeFds(p))
        id == inode_find(Memory, name).id
    IN  IF FreeFds(p) = {} THEN NoChange
        ELSE /\ id < 0 /\ "CREATE" \in flags => RoomToCreate
             /\ id >= 0 /\ flags \cap {"CREATE", "TRUNC"} # {} => MayEmpty(inode(id))
             /\ \E f \in {file_open(Memory, name, flags)} :
                  /\ Return(f.m, <<>>)
                  /\ fd_table' = IF f.id < 0 THEN fd_table
                                 ELSE [fd_table EXCEPT ![p][fd] = file_handle(inode(f.id), flags)]
             /\ UNCHANGED procs

do_close(p, fd) ==
    IF fd_table[p][fd] = NULL THEN NoChange
    ELSE /\ Return(Memory, <<>>)
         /\ fd_table' = [fd_table EXCEPT ![p][fd] = NULL]
         /\ UNCHANGED procs

\* What is written to stdout or stderr goes to the console.
do_write(p, fd, buf) ==
    LET fh == fd_table[p][fd]
    IN  IF fd \in {FD_STDOUT, FD_STDERR} THEN Return(Memory, words) /\ UNCHANGED <<procs, fd_table>>
        ELSE IF fh = NULL THEN NoChange
        ELSE IF ~fh.writable THEN NoChange
        ELSE /\ MayGrow(fh.inode, fh.offset + Len(buf))
             /\ \E w \in {file_write(Memory, fh, buf)} :
                  Return(w.m, <<>>) /\ fd_table' = [fd_table EXCEPT ![p][fd] = w.fh]
             /\ UNCHANGED procs

\* Input from the console is always there, and not looked at.
do_read(p, fd, count) ==
    LET fh == fd_table[p][fd]
    IN  IF fd = FD_STDIN \/ fh = NULL THEN NoChange
        ELSE IF ~fh.readable THEN NoChange
        ELSE /\ \E r \in {file_read(Memory, fh, count)} :
                  Return(r.m, r.buf) /\ fd_table' = [fd_table EXCEPT ![p][fd] = r.fh]
             /\ UNCHANGED procs

\* fork_process: each open file is copied, with its offset.
fork_fds(p) == fd_table[p]

do_fork(p) ==
    IF procs = MAX_PROCS THEN NoChange
    ELSE /\ Return(Memory, <<>>)
         /\ procs' = procs + 1
         /\ fd_table' = [fd_table EXCEPT ![procs] = fork_fds(p)]

\* The program that is loaded, if it is found; the open files stay.
do_exec(p, name) ==
    /\ \E r \in {ReadFound(file_open(Memory, name, {}))} : Return(r.m, r.data)
    /\ UNCHANGED <<procs, fd_table>>

\* The words a program writes with its next call.
Buffer(n) == [i \in 1..n |-> Number(calls + 1)]

Next == /\ calls < MAX_CALLS
        /\ \E p \in 0..(procs - 1) :
            \/ \E name \in Names, flags \in FlagSets : do_open(p, name, flags)
            \/ \E fd \in Fds : do_close(p, fd)
            \/ \E fd \in Fds, n \in Lengths : do_write(p, fd, Buffer(n))
            \/ \E fd \in Fds, n \in Lengths : do_read(p, fd, n)
            \/ do_fork(p)
            \/ \E name \in Names : do_exec(p, name)

Spec == Init /\ [][Next]_vars

-----------------------------------------------------------------------------
(* What a device d holds between two calls *)

DiskInode(d, id) == d[inode(id).block][inode(id).pos]
Entry(d, b, i)   == d[b][i].inode_number

\* The number of the k-th block of an inode.
BlockOf(d, di, k) ==
    LET last == k - INODE_DIRECT_COUNT - INODE_INDIRECT1_COUNT
    IN  IF k < INODE_DIRECT_COUNT THEN di.direct[k]
        ELSE IF last < 0 THEN Entry(d, di.indirect1, k - INODE_DIRECT_COUNT)
        ELSE Entry(d, Entry(d, di.indirect2, last \div INODE_INDIRECT1_COUNT),
                   last % INODE_INDIRECT1_COUNT)

Content(d, id) ==
    LET di == DiskInode(d, id)
    IN  [w \in 1..di.size |-> d[BlockOf(d, di, (w - 1) \div BLOCK_SZ)][(w - 1) % BLOCK_SZ]]

\* The entries of the directory.
Directory(d) == Range(Content(d, 0))
InodesOf(d)  == {e.inode_number : e \in Directory(d)} \cup {0}

\* Every reference to a data block: which block, from where.
References(d) ==
    UNION {LET di == DiskInode(d, id)
               n  == disk_inode_data_blocks(di.size)
               N  == INODE_DIRECT_COUNT + INODE_INDIRECT1_COUNT
           IN  {<<BlockOf(d, di, k), id, "data", k>> : k \in 0..(n - 1)}
               \cup {<<di.indirect1, id, "index", 1>> : k \in INODE_DIRECT_COUNT..(n - 1)}
               \cup {<<di.indirect2, id, "index", 2>> : k \in N..(n - 1)}
               \cup {<<Entry(d, di.indirect2, (k - N) \div INODE_INDIRECT1_COUNT), id, "index",
                       3 + (k - N) \div INODE_INDIRECT1_COUNT>> : k \in N..(n - 1)}
           : id \in InodesOf(d)}

\* The bits that are set in a bitmap.
Taken(d, bm) == UNION {{k * BLOCK_BITS + i : i \in {j \in 0..(BLOCK_BITS - 1) : d[bm.start + k][j]}}
                       : k \in 0..(bm.blocks - 1)}

\* The files, as the programs know them, and a process's open ones.
Plain(buf) == [k \in DOMAIN buf |-> buf[k].inode_number]

FilesOn(d) == [name \in Names |->
                 IF \E e \in Directory(d) : e.name = name
                 THEN Plain(Content(d, (CHOOSE e \in Directory(d) : e.name = name).inode_number))
                 ELSE NULL]

OpenFile(d, fh) ==
    LET named == {e.name : e \in {f \in Directory(d) : inode(f.inode_number) = fh.inode}}
    IN  [name |-> IF fh.inode = NoInode THEN "console" ELSE CHOOSE n \in named : TRUE,
         offset |-> fh.offset, readable |-> fh.readable, writable |-> fh.writable]

OpenFiles(d, table) ==
    [p \in Pids |-> [fd \in Fds |-> IF table[p][fd] = NULL THEN NULL ELSE OpenFile(d, table[p][fd])]]

-----------------------------------------------------------------------------
\* disk_inode_increase_size, inode_clear, efs_alloc_data, efs_dealloc_data: no
\* block belongs to two files or twice to one, and a bit is set in a bitmap
\* exactly for what some file uses: nothing in use can be allocated again, and
\* nothing is lost.
BlocksAccounted ==
    /\ \A r, s \in References(disk) : r[1] = s[1] => r = s
    /\ Taken(disk, fs.data_bitmap) = {r[1] - fs.data_area_start_block : r \in References(disk)}
    /\ Taken(disk, fs.inode_bitmap) = InodesOf(disk)
    /\ Cardinality(InodesOf(disk)) = DiskInode(disk, 0).size + 1

\* inode_create, inode_write_at, inode_clear: a call that returned is on the
\* device, whole; switching the machine off between two calls loses nothing.
Durable == \A b \in Blocks : View(Memory, b) = disk[b]
=============================================================================

-------------------------------- MODULE Vfs --------------------------------
(***************************************************************************)
(* The in-memory file system and the descriptor table:                     *)
(* munux-os/kernel/rust/munux-rs/src/vfs.rs.                               *)
(*                                                                         *)
(* A path is the sequence of its components, "/" being << "" >> and        *)
(* "/a/" << "a", "" >>, so that splitting at the last slash is Front and   *)
(* Last.  The content of a file is its length: reads hand out positions.   *)
(*                                                                         *)
(* ROOT and FDS are two locks, never held together.  fd_open() takes each  *)
(* once and fd_read() takes FDS, ROOT and FDS again: a step here is one    *)
(* critical section, and other threads run between them.                   *)
(***************************************************************************)
EXTENDS Integers, SequencesExt

CONSTANTS
    Threads,
    Paths,          \* the paths threads use, clean or not
    NewFiles,       \* those that they create files at
    Lengths,        \* the lengths that they write
    ReadSizes,      \* the buffer lengths that they read with
    MOTD_LENGTH,    \* the length of the /etc/motd written at boot
    MAX_OPEN        \* bound: descriptors a thread holds at a time

ASSUME VfsAssumption ==
    /\ NewFiles \subseteq Paths
    /\ Lengths \subseteq Nat /\ ReadSizes \subseteq Nat
    /\ MOTD_LENGTH \in Nat /\ MAX_OPEN \in Nat

VARIABLES
    nodes,      \* TmpFs.nodes: clean path -> DIR or the file's length
    fds,        \* FDS: descriptor -> path and offset
    call,       \* per thread: the call that it is in the middle of
    consumed    \* per thread: its descriptors -> the bytes read so far

vars == <<nodes, fds, call, consumed>>

-----------------------------------------------------------------------------

DIR == -1
ROOT_PATH == << "" >>
ETC == << "etc" >>
MOTD == << "etc", "motd" >>

\* One trailing slash is removed, except from the root.
clean(path) ==
    IF Len(path) > 1 /\ Last(path) = "" THEN Front(path) ELSE path

\* A path that does not start with "/" is no sequence of ours: it is refused.
parent_of(path) == IF Len(path) = 1 THEN ROOT_PATH ELSE Front(path)

Exists(path) == path \in DOMAIN nodes
IsDir(path) == Exists(path) /\ nodes[path] = DIR
IsFile(path) == Exists(path) /\ nodes[path] # DIR

With(map, key, value) ==
    [k \in DOMAIN map \cup {key} |-> IF k = key THEN value ELSE map[k]]
Without(map, key) == [k \in DOMAIN map \ {key} |-> map[k]]

NoCall == [op |-> "none"]

\* init_default(): the root, /etc and /etc/motd, and an empty table.
Init ==
    /\ nodes = With(With(With(<< >>, ROOT_PATH, DIR), ETC, DIR), MOTD, MOTD_LENGTH)
    /\ fds = << >>
    /\ call = [t \in Threads |-> NoCall]
    /\ consumed = [t \in Threads |-> << >>]

-----------------------------------------------------------------------------
(* The tree.  A call that returns an error changes nothing.                *)

\* TmpFs::create() of a directory (DIR) or of an empty file (0).
create(path, kind) ==
    /\ ~Exists(clean(path))
    /\ IsDir(parent_of(clean(path)))
    /\ nodes' = With(nodes, clean(path), kind)
    /\ UNCHANGED <<fds, call, consumed>>

\* Mutant: whatever is there is replaced.
write_anything(path, len) ==
    /\ Exists(clean(path))
    /\ nodes' = With(nodes, clean(path), len)
    /\ UNCHANGED <<fds, call, consumed>>

\* TmpFs::write() replaces the content of a file.
write(path, len) ==
    /\ IsFile(clean(path))
    /\ nodes' = With(nodes, clean(path), len)
    /\ UNCHANGED <<fds, call, consumed>>

-----------------------------------------------------------------------------
(* Descriptors                                                             *)

\* fd_open(), first section: the path is a file.
fd_open_check(t, path) ==
    /\ call[t] = NoCall
    /\ Cardinality(DOMAIN consumed[t]) < MAX_OPEN
    /\ IsFile(clean(path))
    /\ call' = [call EXCEPT ![t] = [op |-> "open", path |-> path]]
    /\ UNCHANGED <<nodes, fds, consumed>>

\* Mutant: the number of open descriptors gives the next one.
free_fd_counted(table) == 3 + Cardinality(DOMAIN table)

\* The lowest number from 3 that is not in the table.
free_fd(table) ==
    CHOOSE fd \in 3 .. (3 + Cardinality(DOMAIN table)) :
        /\ fd \notin DOMAIN table
        /\ \A g \in 3 .. (fd - 1) : g \in DOMAIN table

\* fd_open(), second section: the number is chosen and entered.
fd_open_insert(t) ==
    /\ call[t].op = "open"
    /\ LET fd == free_fd(fds)
       IN  /\ fds' = With(fds, fd, [path |-> call[t].path, offset |-> 0])
           /\ consumed' = [consumed EXCEPT ![t] = With(@, fd, 0)]
    /\ call' = [call EXCEPT ![t] = NoCall]
    /\ UNCHANGED nodes

\* fd_read(), first section: path and offset are copied.
fd_read_lookup(t, fd, size) ==
    /\ call[t] = NoCall
    /\ fd \in DOMAIN consumed[t]
    /\ fd \in DOMAIN fds
    /\ call' = [call EXCEPT ![t] = [op |-> "read", fd |-> fd, size |-> size,
                                    path |-> fds[fd].path, offset |-> fds[fd].offset]]
    /\ UNCHANGED <<nodes, fds, consumed>>

\* min(out.len(), content.len() - offset).
Copied(c) ==
    LET left == nodes[clean(c.path)] - c.offset
    IN  IF c.size < left THEN c.size ELSE left

\* fd_read(), second section: the content is copied, or the call ends.
fd_read_copy(t) ==
    LET c == call[t]
    IN  /\ c.op = "read"
        /\ IF IsFile(clean(c.path)) /\ c.offset < nodes[clean(c.path)]
           THEN call' = [call EXCEPT ![t] = [op |-> "advance", fd |-> c.fd,
                                             n |-> Copied(c)]]
           ELSE call' = [call EXCEPT ![t] = NoCall]
        /\ UNCHANGED <<nodes, fds, consumed>>

\* Mutant: the offset becomes the number of bytes of this read.
fd_read_advance_sets(t) ==
    LET c == call[t]
    IN  /\ c.op = "advance"
        /\ fds' = IF c.fd \in DOMAIN fds
                  THEN [fds EXCEPT ![c.fd].offset = c.n] ELSE fds
        /\ consumed' = [consumed EXCEPT ![t][c.fd] = @ + c.n]
        /\ call' = [call EXCEPT ![t] = NoCall]
        /\ UNCHANGED nodes

\* fd_read(), third section: the offset moves, if the descriptor is open.
fd_read_advance(t) ==
    LET c == call[t]
    IN  /\ c.op = "advance"
        /\ fds' = IF c.fd \in DOMAIN fds
                  THEN [fds EXCEPT ![c.fd].offset = @ + c.n] ELSE fds
        /\ consumed' = [consumed EXCEPT ![t][c.fd] = @ + c.n]
        /\ call' = [call EXCEPT ![t] = NoCall]
        /\ UNCHANGED nodes

\* fd_close().
fd_close(t, fd) ==
    /\ call[t] = NoCall
    /\ fd \in DOMAIN consumed[t]
    /\ fds' = Without(fds, fd)
    /\ consumed' = [consumed EXCEPT ![t] = Without(@, fd)]
    /\ UNCHANGED <<nodes, call>>

Next ==
    \/ \E path \in NewFiles : create(path, 0)
    \/ \E path \in Paths \ NewFiles : create(path, DIR)
    \/ \E path \in Paths, len \in Lengths : write(path, len)
    \/ \E t \in Threads :
          \/ \E path \in Paths : fd_open_check(t, path)
          \/ fd_open_insert(t)
          \/ \E fd \in DOMAIN consumed[t] :
                \/ \E size \in ReadSizes : fd_read_lookup(t, fd, size)
                \/ fd_close(t, fd)
          \/ fd_read_copy(t)
          \/ fd_read_advance(t)

Spec == Init /\ [][Next]_vars

-----------------------------------------------------------------------------
(* Properties                                                              *)

TypeOK ==
    /\ \A p \in DOMAIN nodes : nodes[p] \in Nat \cup {DIR}
    /\ \A fd \in DOMAIN fds : fd \in Nat /\ fds[fd].offset \in Nat
    /\ DOMAIN call = Threads /\ DOMAIN consumed = Threads
    /\ \A t \in Threads : call[t].op = "advance" => call[t].n \in Nat

\* Every node but the root has a parent, and that is a directory: no write
\* turns a directory into a file, and nothing is created under one.
Tree ==
    /\ IsDir(ROOT_PATH)
    /\ \A p \in DOMAIN nodes : IsDir(parent_of(p))

\* Whatever is created and written, the paths form a tree of directories with
\* files as leaves, and offsets and copies in progress stay natural numbers.
TreeIsSound == TypeOK /\ Tree

\* Each descriptor belongs to the one call of fd_open() that returned it until
\* it is closed, however opens and closes of other threads fall between the
\* two sections of fd_open().
FdsAreOwned ==
    /\ \A t \in Threads : DOMAIN consumed[t] \subseteq DOMAIN fds
    /\ \A fd \in DOMAIN fds : \E t \in Threads : fd \in DOMAIN consumed[t]
    /\ \A t, u \in Threads : t # u => DOMAIN consumed[t] \cap DOMAIN consumed[u] = {}

\* Every descriptor that is open names a file, also while others write.
FdsAreFiles == \A fd \in DOMAIN fds : IsFile(clean(fds[fd].path))

\* What fd_open() checked under ROOT's lock still holds of every descriptor it
\* inserted under that of FDS, and of no other.
DescriptorsAreSound == FdsAreOwned /\ FdsAreFiles

\* No byte is skipped or read twice through a descriptor that one thread uses,
\* although its offset is read in one critical section and moved in another.
OffsetsAreExact ==
    \A t \in Threads : \A fd \in DOMAIN consumed[t] :
        fd \in DOMAIN fds => fds[fd].offset = consumed[t][fd]

\* vfs.rs says of clean() "Normaliza um caminho absoluto: [...] remove uma barra
\* final redundante (exceto na raiz)": no node but the root is stored under a
\* path that ends in a slash.
NodesAreNormalised == \A p \in DOMAIN nodes : Last(p) = "" => p = ROOT_PATH
=============================================================================

---------------------------- MODULE FileProofs -----------------------------
(***************************************************************************)
(* Files and sectors: the safety of Vfs, for any number of threads and     *)
(* descriptors, any paths and any lengths, and that of BufferCache, for any *)
(* sectors, any size of the cache and any number of writes. The two modules *)
(* share no name; each half of this one is about its own.                  *)
(***************************************************************************)
EXTENDS Vfs, BufferCache, FiniteSetTheorems, NaturalsInduction, SequenceTheorems,
        TLAPS

\* What the table keeps for a descriptor.
Descriptor == [path : Paths, offset : Nat]

\* The table is finite, so that the search for a free number ends.
TableInv ==
    /\ IsFiniteSet(DOMAIN fds)
    /\ fds \in [DOMAIN fds -> Descriptor]

\* What a call found in one critical section holds until the next: the path of
\* an open is a file, and a read keeps its descriptor and reads on from where
\* that descriptor stands.
CallInv ==
    \A t \in Threads :
        /\ call[t].op = "open" => call[t].path \in Paths /\ IsFile(clean(call[t].path))
        /\ call[t].op = "read" =>
              /\ call[t].fd \in DOMAIN consumed[t]
              /\ call[t].size \in Nat
              /\ call[t].offset = fds[call[t].fd].offset
        /\ call[t].op = "advance" =>
              /\ call[t].fd \in DOMAIN consumed[t]
              /\ call[t].n \in Nat

IInv == TypeOK /\ Tree /\ TableInv /\ CallInv /\ FdsAreOwned /\ FdsAreFiles /\ OffsetsAreExact

-----------------------------------------------------------------------------
(* The search for a descriptor.                                            *)

\* A non-empty set of numbers has a lowest one.
LEMMA Minimum ==
    ASSUME NEW T, T \subseteq Nat, T # {}
    PROVE  \E s \in T : \A t \in T : s <= t
<1>1. PICK s \in T : \A t \in T : ~ (<<t, s>> \in OpToRel(<, Nat))
  BY NatLessThanWellFounded, WFMin
<1>2. \A t \in T : ~ (t < s)
  BY <1>1 DEF OpToRel
<1> QED
  BY <1>2

\* Among one more numbers than the table has entries, one is free, and so is
\* a lowest one.
LEMMA FreeFd ==
    ASSUME NEW table, IsFiniteSet(DOMAIN table)
    PROVE  free_fd(table) \in Nat /\ free_fd(table) \notin DOMAIN table
<1> DEFINE n == Cardinality(DOMAIN table)
           Free == {fd \in 3 .. (3 + n) : fd \notin DOMAIN table}
<1>1. n \in Nat
  BY FS_CardinalityType
<1> HIDE DEF n
<1>2. Free # {}
  <2> SUFFICES ASSUME 3 .. (3 + n) \subseteq DOMAIN table
               PROVE  FALSE
    OBVIOUS
  <2>1. Cardinality(3 .. (3 + n)) = n + 1
    <3>1. 3 \in Int /\ 3 + n \in Int /\ ~(3 > 3 + n) /\ (3 + n) - 3 + 1 = n + 1
      BY <1>1
    <3> QED
      BY <3>1, FS_Interval
  <2>2. Cardinality(3 .. (3 + n)) <= n
    BY FS_Subset DEF n
  <2> QED
    BY <1>1, <2>1, <2>2
<1>3. PICK fd \in Free : \A g \in Free : fd <= g
  <2>1. Free \subseteq Nat
    BY <1>1
  <2> HIDE DEF Free
  <2> QED
    BY <1>2, <2>1, Minimum
<1>4. \A g \in 3 .. (fd - 1) : g \in DOMAIN table
  BY <1>1, <1>3
<1>5. \E f \in 3 .. (3 + n) : f \notin DOMAIN table /\ \A g \in 3 .. (f - 1) : g \in DOMAIN table
  BY <1>3, <1>4
<1>6. free_fd(table) \in 3 .. (3 + n) /\ free_fd(table) \notin DOMAIN table
  BY <1>5 DEF free_fd, n
<1> QED
  BY <1>1, <1>6

-----------------------------------------------------------------------------
(* The tree.                                                               *)

\* The tree that init_default() builds.
LEMMA InitTree ==
    ASSUME Init
    PROVE  /\ \A p \in DOMAIN nodes : nodes[p] \in Nat \cup {DIR}
           /\ Tree
<1> DEFINE n1 == With(<< >>, ROOT_PATH, DIR)
           n2 == With(n1, ETC, DIR)
<1>1. ROOT_PATH # ETC /\ ROOT_PATH # MOTD /\ ETC # MOTD
  BY DEF ROOT_PATH, ETC, MOTD
<1>2. /\ parent_of(ROOT_PATH) = ROOT_PATH /\ parent_of(ETC) = ROOT_PATH
  BY DEF parent_of, ROOT_PATH, ETC
<1>3. parent_of(MOTD) = ETC
  <2>1. Len(MOTD) = 2 /\ MOTD[1] = "etc"
    BY DEF MOTD
  <2>2. parent_of(MOTD) = SubSeq(MOTD, 1, 1)
    BY <2>1 DEF parent_of, Front
  <2>3. /\ SubSeq(MOTD, 1, 1) \in Seq({"etc"}) /\ Len(SubSeq(MOTD, 1, 1)) = 1
        /\ SubSeq(MOTD, 1, 1)[1] = MOTD[1]
    <3>1. \A i \in 1 .. 1 : MOTD[i] \in {"etc"}
      BY <2>1
    <3> QED
      BY <3>1, SubSeqProperties
  <2>4. ETC \in Seq({"etc"}) /\ Len(ETC) = 1 /\ ETC[1] = "etc"
    BY DEF ETC
  <2>5. \A i \in 1 .. Len(ETC) : SubSeq(MOTD, 1, 1)[i] = ETC[i]
    BY <2>1, <2>3, <2>4
  <2> QED
    BY <2>2, <2>3, <2>4, <2>5, SeqEqual
<1>4. DOMAIN n1 = {ROOT_PATH} /\ n1[ROOT_PATH] = DIR
  BY DEF With
<1> HIDE DEF n1
<1>5. DOMAIN n2 = {ROOT_PATH, ETC} /\ n2[ROOT_PATH] = DIR /\ n2[ETC] = DIR
  BY <1>1, <1>4 DEF With
<1> HIDE DEF n2
<1>6. /\ DOMAIN nodes = {ROOT_PATH, ETC, MOTD} /\ nodes[ROOT_PATH] = DIR
      /\ nodes[ETC] = DIR /\ nodes[MOTD] = MOTD_LENGTH
  <2>1. nodes = With(n2, MOTD, MOTD_LENGTH)
    BY DEF Init, n2, n1
  <2> QED
    BY <1>1, <1>5, <2>1 DEF With
<1> QED
  BY <1>2, <1>3, <1>6, VfsAssumption DEF Tree, IsDir, Exists

\* A step of the tree keeps its nodes and their kinds.
KindsStay ==
    /\ \A p : IsFile(p) => IsFile(p)'
    /\ \A p : IsDir(p) => IsDir(p)'

\* Creations and writes keep the tree and the kinds.
LEMMA TreeStep ==
    ASSUME TypeOK, Tree,
           \/ \E path \in NewFiles : create(path, 0)
           \/ \E path \in Paths \ NewFiles : create(path, DIR)
           \/ \E path \in Paths, len \in Lengths : write(path, len)
    PROVE  /\ Tree' /\ KindsStay /\ UNCHANGED <<fds, call, consumed>>
           /\ (\A p \in DOMAIN nodes : nodes[p] \in Nat \cup {DIR})'
<1>1. ASSUME NEW path, NEW kind \in {0, DIR}, create(path, kind)
      PROVE  /\ Tree' /\ KindsStay /\ UNCHANGED <<fds, call, consumed>>
             /\ (\A p \in DOMAIN nodes : nodes[p] \in Nat \cup {DIR})'
  <2> DEFINE new == clean(path)
  <2>1. /\ new \notin DOMAIN nodes /\ IsDir(parent_of(new)) /\ nodes' = With(nodes, new, kind)
        /\ UNCHANGED <<fds, call, consumed>>
    BY <1>1 DEF create, Exists
  <2> HIDE DEF new
  <2>2. /\ DOMAIN nodes' = DOMAIN nodes \cup {new} /\ nodes'[new] = kind
        /\ \A p \in DOMAIN nodes : nodes'[p] = nodes[p]
    BY <2>1 DEF With
  <2>3. KindsStay
    BY <2>2 DEF KindsStay, IsFile, IsDir, Exists
  <2>4. Tree'
    BY <2>1, <2>2, <2>3 DEF Tree, KindsStay
  <2> QED
    BY <2>1, <2>2, <2>3, <2>4 DEF TypeOK
<1>2. ASSUME NEW path, NEW len \in Lengths, write(path, len)
      PROVE  /\ Tree' /\ KindsStay /\ UNCHANGED <<fds, call, consumed>>
             /\ (\A p \in DOMAIN nodes : nodes[p] \in Nat \cup {DIR})'
  <2> DEFINE old == clean(path)
  <2>1. /\ old \in DOMAIN nodes /\ nodes[old] # DIR /\ nodes' = With(nodes, old, len)
        /\ UNCHANGED <<fds, call, consumed>>
    BY <1>2 DEF write, IsFile, Exists
  <2> HIDE DEF old
  <2>2. /\ DOMAIN nodes' = DOMAIN nodes /\ nodes'[old] = len /\ len # DIR /\ len \in Nat
        /\ \A p \in DOMAIN nodes : p # old => nodes'[p] = nodes[p]
    BY <2>1, VfsAssumption DEF DIR, With
  <2>3. KindsStay
    BY <2>1, <2>2 DEF KindsStay, IsFile, IsDir, Exists
  <2>4. Tree'
    BY <2>2, <2>3 DEF Tree, KindsStay
  <2> QED
    BY <2>1, <2>2, <2>3, <2>4 DEF TypeOK
<1> QED
  BY <1>1, <1>2

-----------------------------------------------------------------------------
(* The steps of the descriptors leave the tree alone.                      *)

\* Every part of the invariant but the tree's.
TablesInv == TableInv /\ CallInv /\ FdsAreOwned /\ FdsAreFiles /\ OffsetsAreExact

\* The types of the table and of the calls, which are all that the type
\* invariant says of them.
TablesType ==
    /\ \A fd \in DOMAIN fds : fd \in Nat /\ fds[fd].offset \in Nat
    /\ DOMAIN call = Threads /\ DOMAIN consumed = Threads
    /\ \A t \in Threads : call[t].op = "advance" => call[t].n \in Nat

\* fd_open() finds a file.
LEMMA OpenCheck ==
    ASSUME IInv, NEW t \in Threads, NEW path \in Paths, fd_open_check(t, path)
    PROVE  TablesInv' /\ TablesType' /\ UNCHANGED nodes
<1> DEFINE k == [op |-> "open", path |-> path]
<1>1. /\ IsFile(clean(path)) /\ call' = [call EXCEPT ![t] = k]
      /\ UNCHANGED <<nodes, fds, consumed>>
  BY DEF fd_open_check
<1>2. k.op = "open" /\ k.path = path
  OBVIOUS
<1> HIDE DEF k
<1>3. call'[t] = k /\ DOMAIN call' = Threads /\ \A u \in Threads : u # t => call'[u] = call[u]
  BY <1>1 DEF IInv, TypeOK
<1>4. CallInv'
  BY <1>1, <1>2, <1>3 DEF IInv, CallInv, IsFile, Exists
<1>5. TablesType'
  BY <1>1, <1>2, <1>3 DEF IInv, TypeOK, TablesType
<1> QED
  BY <1>1, <1>4, <1>5
     DEF IInv, TablesInv, TableInv, FdsAreOwned, FdsAreFiles, OffsetsAreExact, IsFile, Exists

\* fd_open() enters the descriptor.
LEMMA OpenInsert ==
    ASSUME IInv, NEW t \in Threads, fd_open_insert(t)
    PROVE  TablesInv' /\ TablesType' /\ UNCHANGED nodes
<1> DEFINE fd == free_fd(fds)
           e == [path |-> call[t].path, offset |-> 0]
<1>1. fd \in Nat /\ fd \notin DOMAIN fds
  BY FreeFd DEF IInv, TableInv
<1>2. /\ call[t].op = "open" /\ fds' = With(fds, fd, e) /\ UNCHANGED nodes
      /\ consumed' = [consumed EXCEPT ![t] = With(consumed[t], fd, 0)]
      /\ call' = [call EXCEPT ![t] = NoCall]
  BY DEF fd_open_insert
<1>3. e \in Descriptor /\ e.path = call[t].path /\ e.offset = 0 /\ IsFile(clean(call[t].path))
  BY <1>2 DEF Descriptor, IInv, CallInv
<1> HIDE DEF fd, e
<1>4. /\ DOMAIN fds' = DOMAIN fds \cup {fd} /\ fds'[fd] = e
      /\ \A g \in DOMAIN fds : fds'[g] = fds[g]
      /\ fds' \in [DOMAIN fds' -> Descriptor]
  BY <1>1, <1>2, <1>3 DEF With, IInv, TableInv
<1>5. /\ DOMAIN consumed' = Threads /\ DOMAIN call' = Threads /\ call'[t] = NoCall
      /\ \A u \in Threads : u # t => consumed'[u] = consumed[u] /\ call'[u] = call[u]
      /\ consumed'[t] = With(consumed[t], fd, 0)
  BY <1>2 DEF IInv, TypeOK
<1>6. /\ DOMAIN consumed'[t] = DOMAIN consumed[t] \cup {fd} /\ consumed'[t][fd] = 0
      /\ \A g \in DOMAIN consumed[t] : g # fd => consumed'[t][g] = consumed[t][g]
  BY <1>5 DEF With
<1>7. NoCall.op = "none"
  BY DEF NoCall
<1>8. TableInv'
  BY <1>4, FS_AddElement DEF IInv, TableInv
<1>9. CallInv'
  BY <1>1, <1>2, <1>4, <1>5, <1>7 DEF IInv, CallInv, FdsAreOwned, IsFile, Exists
<1>10. FdsAreOwned'
  BY <1>1, <1>4, <1>5, <1>6 DEF IInv, FdsAreOwned
<1>11. FdsAreFiles'
  BY <1>2, <1>3, <1>4 DEF IInv, FdsAreFiles, IsFile, Exists
<1>12. OffsetsAreExact'
  BY <1>1, <1>3, <1>4, <1>5, <1>6 DEF IInv, OffsetsAreExact, FdsAreOwned
<1>13. TablesType'
  BY <1>1, <1>3, <1>4, <1>5, <1>7 DEF IInv, TypeOK, TablesType
<1> QED
  BY <1>2, <1>8, <1>9, <1>10, <1>11, <1>12, <1>13 DEF TablesInv

\* fd_read() copies the path and the offset.
LEMMA ReadLookup ==
    ASSUME IInv, NEW t \in Threads, NEW fd, NEW size \in ReadSizes, fd_read_lookup(t, fd, size)
    PROVE  TablesInv' /\ TablesType' /\ UNCHANGED nodes
<1> DEFINE k == [op |-> "read", fd |-> fd, size |-> size, path |-> fds[fd].path,
                 offset |-> fds[fd].offset]
<1>1. /\ fd \in DOMAIN consumed[t] /\ call' = [call EXCEPT ![t] = k]
      /\ UNCHANGED <<nodes, fds, consumed>>
  BY DEF fd_read_lookup
<1>2. k.op = "read" /\ k.fd = fd /\ k.size = size /\ k.offset = fds[fd].offset /\ size \in Nat
  BY VfsAssumption
<1> HIDE DEF k
<1>3. call'[t] = k /\ DOMAIN call' = Threads /\ \A u \in Threads : u # t => call'[u] = call[u]
  BY <1>1 DEF IInv, TypeOK
<1>4. CallInv'
  BY <1>1, <1>2, <1>3 DEF IInv, CallInv, IsFile, Exists
<1>5. TablesType'
  BY <1>1, <1>2, <1>3 DEF IInv, TypeOK, TablesType
<1> QED
  BY <1>1, <1>4, <1>5
     DEF IInv, TablesInv, TableInv, FdsAreOwned, FdsAreFiles, OffsetsAreExact, IsFile, Exists

\* fd_read() copies the content, as it now is.
LEMMA ReadCopy ==
    ASSUME IInv, NEW t \in Threads, fd_read_copy(t)
    PROVE  TablesInv' /\ TablesType' /\ UNCHANGED nodes
<1> DEFINE c == call[t]
           n == Copied(c)
           k == [op |-> "advance", fd |-> c.fd, n |-> n]
<1>1. c.op = "read" /\ UNCHANGED <<nodes, fds, consumed>>
  BY DEF fd_read_copy
<1>2. c.fd \in DOMAIN consumed[t] /\ c.size \in Nat /\ c.offset = fds[c.fd].offset
  BY <1>1 DEF IInv, CallInv
<1>3. c.fd \in DOMAIN fds /\ c.offset \in Nat
  BY <1>2 DEF IInv, FdsAreOwned, TypeOK
<1>4. IsFile(clean(c.path)) /\ c.offset < nodes[clean(c.path)] => n \in Nat
  <2> SUFFICES ASSUME IsFile(clean(c.path)), c.offset < nodes[clean(c.path)]
               PROVE  Copied(c) \in Nat
    OBVIOUS
  <2>1. nodes[clean(c.path)] \in Nat
    BY DEF IInv, TypeOK, IsFile, Exists
  <2> QED
    BY <1>2, <1>3, <2>1 DEF Copied
<1>5. k.op = "advance" /\ k.fd = c.fd /\ k.n = n /\ NoCall.op = "none"
  BY DEF NoCall
<1>6. PICK m : /\ m = NoCall \/ (m = k /\ n \in Nat)
               /\ call' = [call EXCEPT ![t] = m]
  BY <1>4 DEF fd_read_copy
<1> HIDE DEF k, n
<1>7. call'[t] = m /\ DOMAIN call' = Threads /\ \A u \in Threads : u # t => call'[u] = call[u]
  BY <1>6 DEF IInv, TypeOK
<1>8. \/ m.op = "none"
      \/ m.op = "advance" /\ m.fd \in DOMAIN consumed[t] /\ m.n \in Nat
  BY <1>2, <1>5, <1>6
<1>9. CallInv'
  BY <1>1, <1>7, <1>8 DEF IInv, CallInv, IsFile, Exists
<1>10. TablesType'
  BY <1>1, <1>7, <1>8 DEF IInv, TypeOK, TablesType
<1> QED
  BY <1>1, <1>9, <1>10
     DEF IInv, TablesInv, TableInv, FdsAreOwned, FdsAreFiles, OffsetsAreExact, IsFile, Exists

\* fd_read() moves the offset by what it copied.
LEMMA ReadAdvance ==
    ASSUME IInv, NEW t \in Threads, fd_read_advance(t)
    PROVE  TablesInv' /\ TablesType' /\ UNCHANGED nodes
<1> DEFINE fd == call[t].fd
           n == call[t].n
           e == [fds[fd] EXCEPT !.offset = fds[fd].offset + n]
<1>1. call[t].op = "advance" /\ fd \in DOMAIN consumed[t] /\ n \in Nat /\ fd \in DOMAIN fds
  BY DEF fd_read_advance, IInv, CallInv, FdsAreOwned
<1>2. /\ fds' = [fds EXCEPT ![fd] = e] /\ UNCHANGED nodes
      /\ consumed' = [consumed EXCEPT ![t] = [consumed[t] EXCEPT ![fd] = consumed[t][fd] + n]]
      /\ call' = [call EXCEPT ![t] = NoCall]
  BY <1>1 DEF fd_read_advance
<1>3. /\ fds[fd] \in Descriptor /\ fds[fd].offset \in Nat
      /\ fds[fd].offset = consumed[t][fd]
  BY <1>1 DEF IInv, TableInv, TypeOK, OffsetsAreExact
<1> HIDE DEF n
<1>4. e \in Descriptor /\ e.path = fds[fd].path /\ e.offset = consumed[t][fd] + n
  BY <1>1, <1>3 DEF Descriptor
<1> HIDE DEF fd, e
<1>5. /\ DOMAIN fds' = DOMAIN fds /\ fds'[fd] = e
      /\ \A g \in DOMAIN fds : g # fd => fds'[g] = fds[g]
      /\ fds' \in [DOMAIN fds' -> Descriptor]
  BY <1>1, <1>2, <1>4 DEF IInv, TableInv
<1>6. /\ DOMAIN consumed' = Threads /\ DOMAIN call' = Threads /\ call'[t] = NoCall
      /\ \A u \in Threads : u # t => consumed'[u] = consumed[u] /\ call'[u] = call[u]
      /\ consumed'[t] = [consumed[t] EXCEPT ![fd] = consumed[t][fd] + n]
  BY <1>2 DEF IInv, TypeOK
<1>7. /\ DOMAIN consumed'[t] = DOMAIN consumed[t] /\ consumed'[t][fd] = consumed[t][fd] + n
      /\ \A g \in DOMAIN consumed[t] : g # fd => consumed'[t][g] = consumed[t][g]
  BY <1>1, <1>6
<1>8. NoCall.op = "none"
  BY DEF NoCall
<1>9. \A u \in Threads : u # t => fd \notin DOMAIN consumed[u]
  BY <1>1 DEF IInv, FdsAreOwned
<1>10. TableInv'
  BY <1>5 DEF IInv, TableInv
<1>11. CallInv'
  BY <1>2, <1>5, <1>6, <1>8, <1>9 DEF IInv, CallInv, FdsAreOwned, IsFile, Exists
<1>12. FdsAreOwned'
  BY <1>5, <1>6, <1>7 DEF IInv, FdsAreOwned
<1>13. FdsAreFiles'
  BY <1>1, <1>2, <1>4, <1>5 DEF IInv, FdsAreFiles, IsFile, Exists
<1>14. OffsetsAreExact'
  BY <1>4, <1>5, <1>6, <1>7, <1>9 DEF IInv, OffsetsAreExact
<1>15. TablesType'
  <2>1. e.offset \in Nat
    BY <1>4 DEF Descriptor
  <2> QED
    BY <1>1, <1>5, <1>6, <1>8, <2>1 DEF IInv, TypeOK, TablesType
<1> QED
  BY <1>2, <1>10, <1>11, <1>12, <1>13, <1>14, <1>15 DEF TablesInv

\* fd_close() takes the descriptor out of the table.
LEMMA Close ==
    ASSUME IInv, NEW t \in Threads, NEW fd, fd_close(t, fd)
    PROVE  TablesInv' /\ TablesType' /\ UNCHANGED nodes
<1>1. /\ call[t].op = "none" /\ fd \in DOMAIN consumed[t] /\ fds' = Without(fds, fd)
      /\ consumed' = [consumed EXCEPT ![t] = Without(consumed[t], fd)]
      /\ UNCHANGED <<nodes, call>>
  BY DEF fd_close, NoCall
<1>2. /\ DOMAIN fds' = DOMAIN fds \ {fd} /\ \A g \in DOMAIN fds' : fds'[g] = fds[g]
      /\ fds' \in [DOMAIN fds' -> Descriptor]
  BY <1>1 DEF Without, IInv, TableInv
<1>3. /\ DOMAIN consumed' = Threads /\ consumed'[t] = Without(consumed[t], fd)
      /\ \A u \in Threads : u # t => consumed'[u] = consumed[u]
  BY <1>1 DEF IInv, TypeOK
<1>4. /\ DOMAIN consumed'[t] = DOMAIN consumed[t] \ {fd}
      /\ \A g \in DOMAIN consumed'[t] : consumed'[t][g] = consumed[t][g]
  BY <1>3 DEF Without
<1>5. \A u \in Threads : u # t => fd \notin DOMAIN consumed[u]
  BY <1>1 DEF IInv, FdsAreOwned
<1>6. TableInv'
  BY <1>2, FS_Subset DEF IInv, TableInv
<1>7. CallInv'
  <2>1. \A u \in Threads : u # t => \A g \in DOMAIN consumed[u] : g \in DOMAIN fds'
    BY <1>2, <1>5 DEF IInv, FdsAreOwned
  <2> QED
    BY <1>1, <1>2, <1>3, <2>1 DEF IInv, CallInv, IsFile, Exists
<1>8. FdsAreOwned'
  BY <1>1, <1>2, <1>3, <1>4, <1>5 DEF IInv, FdsAreOwned
<1>9. FdsAreFiles'
  BY <1>1, <1>2 DEF IInv, FdsAreFiles, IsFile, Exists
<1>10. OffsetsAreExact'
  BY <1>2, <1>3, <1>4 DEF IInv, OffsetsAreExact
<1>11. TablesType'
  BY <1>1, <1>2, <1>3 DEF IInv, TypeOK, TablesType
<1> QED
  BY <1>1, <1>6, <1>7, <1>8, <1>9, <1>10, <1>11 DEF TablesInv

-----------------------------------------------------------------------------
(* The invariant.                                                          *)

\* init_default() establishes it.
LEMMA InitInv ==
    ASSUME Init
    PROVE  IInv
<1>1. DOMAIN fds = {} /\ call = [t \in Threads |-> NoCall] /\ consumed = [t \in Threads |-> << >>]
  BY DEF Init
<1>2. NoCall.op = "none"
  BY DEF NoCall
<1>3. fds \in [DOMAIN fds -> Descriptor]
  BY DEF Init
<1>4. TypeOK /\ Tree
  BY <1>1, <1>2, InitTree DEF TypeOK
<1>5. \A t \in Threads : DOMAIN consumed[t] = {}
  BY <1>1
<1>6. TableInv
  BY <1>1, <1>3, FS_EmptySet DEF TableInv
<1>7. CallInv
  BY <1>1, <1>2 DEF CallInv
<1>8. FdsAreOwned /\ FdsAreFiles /\ OffsetsAreExact
  BY <1>1, <1>5 DEF FdsAreOwned, FdsAreFiles, OffsetsAreExact
<1> QED
  BY <1>4, <1>6, <1>7, <1>8 DEF IInv

\* Every step keeps it: those of the tree because what is a file stays one, and
\* those of the descriptors by the lemmas above.
LEMMA NextInv ==
    ASSUME IInv, [Next]_vars
    PROVE  IInv'
<1>1. CASE \/ \E path \in NewFiles : create(path, 0)
           \/ \E path \in Paths \ NewFiles : create(path, DIR)
           \/ \E path \in Paths, len \in Lengths : write(path, len)
  <2>1. /\ Tree' /\ KindsStay /\ UNCHANGED <<fds, call, consumed>>
        /\ (\A p \in DOMAIN nodes : nodes[p] \in Nat \cup {DIR})'
    BY <1>1, TreeStep DEF IInv
  <2>2. TypeOK'
    BY <2>1 DEF IInv, TypeOK
  <2>3. CallInv'
    BY <2>1 DEF IInv, CallInv, KindsStay
  <2>4. FdsAreFiles'
    BY <2>1 DEF IInv, FdsAreFiles, KindsStay
  <2> QED
    BY <2>1, <2>2, <2>3, <2>4 DEF IInv, TableInv, FdsAreOwned, OffsetsAreExact
<1>2. ASSUME TablesInv', TablesType', UNCHANGED nodes
      PROVE  IInv'
  <2>1. TypeOK' /\ Tree'
    BY <1>2 DEF IInv, TypeOK, TablesType, Tree, IsDir, Exists
  <2> QED
    BY <1>2, <2>1 DEF IInv, TablesInv
<1>3. ASSUME NEW t \in Threads,
             \/ \E path \in Paths : fd_open_check(t, path)
             \/ fd_open_insert(t)
             \/ \E fd \in DOMAIN consumed[t] :
                   \/ \E size \in ReadSizes : fd_read_lookup(t, fd, size)
                   \/ fd_close(t, fd)
             \/ fd_read_copy(t)
             \/ fd_read_advance(t)
      PROVE  IInv'
  BY <1>2, <1>3, OpenCheck, OpenInsert, ReadLookup, Close, ReadCopy, ReadAdvance
<1>4. CASE UNCHANGED vars
  BY <1>4 DEF vars, IInv, TypeOK, Tree, TableInv, CallInv, FdsAreOwned, FdsAreFiles,
              OffsetsAreExact, IsDir, IsFile, Exists
<1> QED
  BY <1>1, <1>3, <1>4 DEF Next

\* The inductive invariant of the file system and its descriptors.
THEOREM Invariance == Spec => []IInv
<1>1. Init => IInv
  BY InitInv
<1>2. IInv /\ [Next]_vars => IInv'
  BY NextInv
<1> QED
  BY <1>1, <1>2, PTL DEF Spec

\* Whatever TmpFs::create() and write() are called with, and whichever threads
\* call them, the nodes of vfs.rs form a tree whose inner nodes are directories.
THEOREM TreeSoundness == Spec => []TreeIsSound
<1>1. IInv => TreeIsSound
  BY DEF IInv, TreeIsSound
<1> QED
  BY <1>1, Invariance, PTL

\* fd_open() lets go of one lock before it takes the other, and still every
\* descriptor has one owner, who alone can close it, and names a file.
THEOREM DescriptorSoundness == Spec => []DescriptorsAreSound
<1>1. IInv => DescriptorsAreSound
  BY DEF IInv, DescriptorsAreSound
<1> QED
  BY <1>1, Invariance, PTL

\* fd_read() takes the offset in one critical section, copies in another and
\* moves the offset in a third, while files are rewritten: a thread still gets
\* every position once.
THEOREM OffsetExactness == Spec => []OffsetsAreExact
<1>1. IInv => OffsetsAreExact
  BY DEF IInv
<1> QED
  BY <1>1, Invariance, PTL

-----------------------------------------------------------------------------
(***************************************************************************)
(* The buffer cache: the bound on reads whatever the disk does and however *)
(* many threads write; write-through and reads that never go back when one *)
(* thread writes and the disk does what it is told, without which neither  *)
(* holds.                                                                  *)
(***************************************************************************)

\* One thread calls write_sector(), and ATA commands succeed.
OneWriter == \A v, w \in Writers : v = w
DiskWorks == ReadOutcomes = {"ok"} /\ WriteOutcomes = {"ok"}

\* The disk is never behind the cache, nor ahead of the writes begun.
BehindInv ==
    /\ \A s \in Sectors : disk[s] <= latest[s]
    /\ \A s \in Cached : cache[s] <= disk[s]

\* Between its two halves, what write_sector() wrote is on the disk.
WritingInv ==
    \A w \in Writers : writing[w] # NoWrite => disk[writing[w].lba] = writing[w].data

CacheIInv == CacheIsSound /\ ReadsNeverGoBack /\ BehindInv /\ WritingInv

-----------------------------------------------------------------------------
(* The map of the cache.                                                   *)

\* An entry is added, and the others stay.
LEMMA PutProperties ==
    ASSUME NEW map, NEW lba, NEW data
    PROVE  /\ DOMAIN Put(map, lba, data) = DOMAIN map \cup {lba}
           /\ Put(map, lba, data)[lba] = data
           /\ \A s \in DOMAIN map \ {lba} : Put(map, lba, data)[s] = map[s]
BY DEF Put

\* Making room changes no entry that stays.
LEMMA EvictedProperties ==
    ASSUME NEW map
    PROVE  /\ DOMAIN Evicted(map) \subseteq DOMAIN map
           /\ \A s \in DOMAIN Evicted(map) : Evicted(map)[s] = map[s]
BY DEF Evicted, WithoutSector

\* After making room, one more entry is within the bound, or no more than
\* there were before.
LEMMA EvictedRoom ==
    ASSUME NEW map, IsFiniteSet(DOMAIN map), DOMAIN map \subseteq Nat,
           NEW lba, NEW data
    PROVE  LET after == DOMAIN Put(Evicted(map), lba, data)
           IN  /\ IsFiniteSet(after)
               /\ \/ Cardinality(after) <= MAX_ENTRIES
                  \/ Cardinality(after) <= Cardinality(DOMAIN map)
<1> USE BufferCacheAssumption
<1> DEFINE S == DOMAIN map
           E == DOMAIN Evicted(map)
           after == DOMAIN Put(Evicted(map), lba, data)
<1>1. after = E \cup {lba}
  BY PutProperties
<1>2. Cardinality(S) \in Nat
  BY FS_CardinalityType
<1>3. CASE Cardinality(S) >= MAX_ENTRIES
  <2>1. S # {}
    BY <1>3, FS_EmptySet
  <2>2. victim(map) \in S
    BY <2>1, Minimum DEF victim
  <2>3. E = S \ {victim(map)}
    BY <1>3 DEF Evicted, WithoutSector
  <2>4. IsFiniteSet(E) /\ Cardinality(E) = Cardinality(S) - 1
    BY <2>2, <2>3, FS_RemoveElement
  <2> HIDE DEF E, S, after
  <2>5. IsFiniteSet(after) /\ Cardinality(after) <= Cardinality(E) + 1
    <3>1. /\ IsFiniteSet(E \cup {lba})
          /\ Cardinality(E \cup {lba}) = IF lba \in E THEN Cardinality(E) ELSE Cardinality(E) + 1
      BY <2>4, FS_AddElement
    <3> QED
      BY <1>1, <1>2, <2>4, <3>1
  <2> QED
    BY <1>2, <2>4, <2>5 DEF S, after
<1>4. CASE ~ (Cardinality(S) >= MAX_ENTRIES)
  <2>1. E = S
    BY <1>4 DEF Evicted
  <2> HIDE DEF E, S, after
  <2>2. IsFiniteSet(S)
    BY DEF S
  <2>3. IsFiniteSet(after) /\ Cardinality(after) <= Cardinality(S) + 1
    <3>1. /\ IsFiniteSet(S \cup {lba})
          /\ Cardinality(S \cup {lba}) = IF lba \in S THEN Cardinality(S) ELSE Cardinality(S) + 1
      BY <2>2, FS_AddElement
    <3> QED
      BY <1>1, <1>2, <2>1, <3>1
  <2> QED
    <3>0. Cardinality(after) \in Nat
      BY <2>3, FS_CardinalityType
    <3>1. Cardinality(after) <= MAX_ENTRIES
      BY <1>2, <1>4, <2>3, <3>0
    <3> QED
      BY <2>3, <3>1 DEF after
<1> QED
  BY <1>3, <1>4

-----------------------------------------------------------------------------
(* The bound.                                                              *)

\* The cache is finite, and holds sectors; so does every write under way.
FiniteInv ==
    /\ IsFiniteSet(Cached) /\ Cached \subseteq Sectors
    /\ writing \in [Writers -> [lba : Sectors, data : Int] \cup {NoWrite}]
    /\ latest \in [Sectors -> Int]

\* The cache stays finite.
LEMMA Finite == CacheSpec => []FiniteInv
<1> USE BufferCacheAssumption
<1>1. CacheInit => FiniteInv
  BY FS_EmptySet DEF CacheInit, FiniteInv, Cached
<1>2. FiniteInv /\ [CacheNext]_cacheVars => FiniteInv'
  <2> SUFFICES ASSUME FiniteInv, [CacheNext]_cacheVars
               PROVE  FiniteInv'
    OBVIOUS
  <2>1. ASSUME NEW lba \in Sectors, read_hit(lba)
        PROVE  FiniteInv'
    BY <2>1 DEF read_hit, FiniteInv, Cached
  <2>2. ASSUME NEW lba \in Sectors, NEW outcome \in ReadOutcomes, read_miss(lba, outcome)
        PROVE  FiniteInv'
    <3> DEFINE block == disk_read_sector(lba, outcome)
    <3>1. cache' = Put(Evicted(cache), lba, block) /\ UNCHANGED <<writing, latest>>
      BY <2>2 DEF read_miss
    <3>2. IsFiniteSet(DOMAIN cache) /\ DOMAIN cache \subseteq Nat
      BY DEF FiniteInv, Cached
    <3> HIDE DEF block
    <3>3. IsFiniteSet(DOMAIN Put(Evicted(cache), lba, block))
      BY <3>2, EvictedRoom
    <3>4. DOMAIN Put(Evicted(cache), lba, block) \subseteq Sectors
      BY EvictedProperties DEF Put, FiniteInv, Cached
    <3> QED
      BY <3>1, <3>3, <3>4 DEF FiniteInv, Cached
  <2>3. ASSUME NEW lba \in Sectors, NEW w \in Writers, NEW outcome \in WriteOutcomes,
               write_disk(w, lba, outcome)
        PROVE  FiniteInv'
    BY <2>3 DEF write_disk, FiniteInv, Cached
  <2>4. ASSUME NEW w \in Writers, write_cache(w)
        PROVE  FiniteInv'
    <3>1. writing[w].lba \in Sectors
      BY <2>4 DEF write_cache, FiniteInv
    <3>2. DOMAIN cache' = DOMAIN cache \cup {writing[w].lba}
      BY <2>4 DEF write_cache, Put
    <3>3. IsFiniteSet(DOMAIN cache') /\ DOMAIN cache' \subseteq Sectors
      BY <3>1, <3>2, FS_AddElement DEF FiniteInv, Cached
    <3> QED
      BY <2>4, <3>3 DEF write_cache, FiniteInv, Cached
  <2>5. CASE UNCHANGED cacheVars
    BY <2>5 DEF cacheVars, FiniteInv, Cached
  <2> QED
    BY <2>1, <2>2, <2>3, <2>4, <2>5 DEF CacheNext
<1> QED
  BY <1>1, <1>2, PTL DEF CacheSpec

\* Whatever the writes before it, and whatever the disk answers, a read leaves
\* the cache within MAX_ENTRIES or no larger than it found it.
THEOREM CacheBound == CacheSpec => ReadsKeepTheBound
<1>1. FiniteInv =>
         \A lba \in Sectors, outcome \in ReadOutcomes : read_miss(lba, outcome) =>
              \/ Cardinality(DOMAIN cache') <= MAX_ENTRIES
              \/ Cardinality(DOMAIN cache') <= Cardinality(DOMAIN cache)
  <2> SUFFICES ASSUME FiniteInv, NEW lba \in Sectors, NEW outcome \in ReadOutcomes,
                      read_miss(lba, outcome)
               PROVE  \/ Cardinality(DOMAIN cache') <= MAX_ENTRIES
                      \/ Cardinality(DOMAIN cache') <= Cardinality(DOMAIN cache)
    OBVIOUS
  <2>1. cache' = Put(Evicted(cache), lba, disk_read_sector(lba, outcome))
    BY DEF read_miss
  <2>2. IsFiniteSet(DOMAIN cache) /\ DOMAIN cache \subseteq Nat
    BY BufferCacheAssumption DEF FiniteInv, Cached
  <2> QED
    BY <2>1, <2>2, EvictedRoom
<1> QED
  BY <1>1, Finite, PTL DEF CacheSpec, ReadsKeepTheBound

-----------------------------------------------------------------------------
(* Write-through.                                                          *)

\* The invariant holds of the empty cache.
LEMMA CacheInitInv == CacheInit => CacheIInv
BY BufferCacheAssumption
   DEF CacheInit, CacheIInv, CacheIsSound, CacheTypeOK, WriteThrough, ReadsNeverGoBack, Value,
       BehindInv, WritingInv, Cached

\* Every step keeps it.
LEMMA CacheNextInv == OneWriter /\ DiskWorks /\ CacheIInv /\ [CacheNext]_cacheVars => CacheIInv'
<1> SUFFICES ASSUME OneWriter, DiskWorks, CacheIInv, [CacheNext]_cacheVars
             PROVE  CacheIInv'
  OBVIOUS
<1> USE BufferCacheAssumption
<1>0. /\ CacheTypeOK /\ WriteThrough /\ ReadsNeverGoBack /\ BehindInv /\ WritingInv
      /\ \A s \in Sectors : disk[s] \in Int /\ latest[s] \in Int /\ seen[s] \in Int
      /\ \A s \in Cached : s \in Sectors /\ cache[s] \in Int
      /\ \A s \in Sectors : s # -1
  BY DEF CacheIInv, CacheIsSound, CacheTypeOK, ZEROS
<1>1. ASSUME NEW lba \in Sectors, read_hit(lba)
      PROVE  CacheIInv'
  <2>1. /\ lba \in Cached /\ cache[lba] \in Int /\ seen[lba] <= cache[lba]
        /\ cache[lba] <= MAX_WRITES
    BY <1>0, <1>1 DEF read_hit, ReadsNeverGoBack, Value, BehindInv, CacheTypeOK
  <2>2. /\ seen' = [seen EXCEPT ![lba] = cache[lba]] \/ seen' = seen
        /\ UNCHANGED <<disk, cache, writing, latest>>
    BY <1>0, <1>1, <2>1 DEF read_hit, Returned, CacheTypeOK
  <2>3. cache[lba] >= 0
    BY <1>0, <2>1 DEF CacheTypeOK
  <2>4. CacheTypeOK'
    BY <1>0, <2>1, <2>2, <2>3 DEF CacheTypeOK, Cached
  <2>5. ReadsNeverGoBack'
    BY <1>0, <2>1, <2>2 DEF ReadsNeverGoBack, Value, Cached, CacheTypeOK
  <2> QED
    BY <1>0, <2>2, <2>4, <2>5 DEF CacheIInv, CacheIsSound, WriteThrough, Quiet, BehindInv,
                                  WritingInv, Cached
<1>2. ASSUME NEW lba \in Sectors, NEW outcome \in ReadOutcomes, read_miss(lba, outcome)
      PROVE  CacheIInv'
  <2>1. /\ lba \notin Cached
        /\ cache' = Put(Evicted(cache), lba, disk[lba])
        /\ Returned(lba, disk[lba])
        /\ UNCHANGED <<disk, writing, latest>>
    BY <1>2 DEF read_miss, DiskWorks, disk_read_sector
  <2>2. /\ Cached' \subseteq Cached \cup {lba} /\ lba \in Cached'
        /\ cache'[lba] = disk[lba]
        /\ \A s \in Cached' \ {lba} : s \in Cached /\ cache'[s] = cache[s]
    BY <2>1, EvictedProperties DEF Put, Cached
  <2>3. seen[lba] <= disk[lba]
    BY <1>0, <2>1 DEF ReadsNeverGoBack, Value
  <2>4. seen' = [seen EXCEPT ![lba] = disk[lba]]
    <3>1. seen[lba] \in Int /\ disk[lba] \in Int
      BY <1>0
    <3>2. (IF disk[lba] > seen[lba] THEN disk[lba] ELSE seen[lba]) = disk[lba]
      BY <2>3, <3>1
    <3> QED
      BY <2>1, <3>2 DEF Returned
  <2>5. CacheTypeOK'
    BY <1>0, <2>1, <2>2, <2>4 DEF CacheTypeOK, ZEROS
  <2>6. WriteThrough'
    BY <1>0, <2>1, <2>2 DEF WriteThrough, Quiet
  <2>7. ReadsNeverGoBack'
    <3> SUFFICES ASSUME NEW s \in Sectors
                 PROVE  Value(s)' >= seen'[s]
      BY DEF ReadsNeverGoBack
    <3>1. CASE s = lba
      BY <1>0, <2>1, <2>2, <2>4, <3>1 DEF Value, CacheTypeOK
    <3>2. CASE s # lba
      <4>1. seen'[s] = seen[s] /\ seen[s] <= Value(s)
        BY <1>0, <2>4, <3>2 DEF ReadsNeverGoBack, CacheTypeOK
      <4>2. Value(s) <= Value(s)'
        BY <1>0, <2>1, <2>2, <3>2 DEF Value, BehindInv
      <4>3. Value(s) \in Int /\ Value(s)' \in Int
        BY <1>0, <2>1, <2>2, <3>2 DEF Value
      <4> QED
        BY <1>0, <4>1, <4>2, <4>3
    <3> QED
      BY <3>1, <3>2
  <2>8. BehindInv' /\ WritingInv'
    BY <1>0, <2>1, <2>2 DEF BehindInv, WritingInv
  <2> QED
    BY <2>5, <2>6, <2>7, <2>8 DEF CacheIInv, CacheIsSound
<1>3. ASSUME NEW lba \in Sectors, NEW w \in Writers, NEW outcome \in WriteOutcomes,
             write_disk(w, lba, outcome)
      PROVE  CacheIInv'
  <2> DEFINE data == latest[lba] + 1
  <2>1. /\ writing[w] = NoWrite /\ data <= MAX_WRITES
        /\ latest' = [latest EXCEPT ![lba] = data]
        /\ disk' = [disk EXCEPT ![lba] = data]
        /\ writing' = [writing EXCEPT ![w] = [lba |-> lba, data |-> data]]
        /\ UNCHANGED <<cache, seen>>
    BY <1>3 DEF write_disk, DiskWorks
  <2>2. data \in 1 .. MAX_WRITES /\ disk[lba] < data
    BY <1>0, <2>1 DEF CacheTypeOK, BehindInv
  <2> HIDE DEF data
  <2>3. /\ disk'[lba] = data /\ latest'[lba] = data
        /\ \A s \in Sectors \ {lba} : disk'[s] = disk[s] /\ latest'[s] = latest[s]
        /\ \A s \in Sectors : disk[s] <= disk'[s]
        /\ Cached' = Cached
    BY <1>0, <2>1, <2>2 DEF CacheTypeOK, Cached
  <2>4. \A v \in Writers : v = w
    BY DEF OneWriter
  <2>5. writing'[w] = [lba |-> lba, data |-> data]
    BY <1>0, <2>1 DEF CacheTypeOK
  <2>6. CacheTypeOK'
    BY <1>0, <2>1, <2>2, <2>3 DEF CacheTypeOK
  <2>7. WriteThrough'
    <3> SUFFICES ASSUME NEW s \in Cached, Quiet(s)'
                 PROVE  cache[s] = disk'[s]
      BY <2>1, <2>3 DEF WriteThrough
    <3>1. s # lba /\ Quiet(s)
      BY <1>0, <2>1, <2>4, <2>5 DEF Quiet, NoWrite
    <3> QED
      BY <1>0, <2>3, <3>1 DEF WriteThrough
  <2>8. ReadsNeverGoBack'
    BY <1>0, <2>1, <2>2, <2>3 DEF ReadsNeverGoBack, Value
  <2>9. BehindInv'
    BY <1>0, <2>1, <2>2, <2>3 DEF BehindInv
  <2>10. WritingInv'
    BY <2>3, <2>4, <2>5 DEF WritingInv
  <2> QED
    BY <2>6, <2>7, <2>8, <2>9, <2>10 DEF CacheIInv, CacheIsSound
<1>4. ASSUME NEW w \in Writers, write_cache(w)
      PROVE  CacheIInv'
  <2> DEFINE lba == writing[w].lba
  <2>1. /\ writing[w] # NoWrite
        /\ cache' = Put(cache, lba, writing[w].data)
        /\ writing' = [writing EXCEPT ![w] = NoWrite]
        /\ UNCHANGED <<disk, latest, seen>>
    BY <1>4 DEF write_cache
  <2>2. lba \in Sectors /\ writing[w].data = disk[lba]
    BY <1>0, <2>1 DEF CacheTypeOK, WritingInv
  <2> HIDE DEF lba
  <2>3. /\ Cached' = Cached \cup {lba}
        /\ cache'[lba] = disk[lba]
        /\ \A s \in Cached \ {lba} : cache'[s] = cache[s]
    BY <2>1, <2>2 DEF Put, Cached
  <2>4. CacheTypeOK'
    BY <1>0, <2>1, <2>2, <2>3 DEF CacheTypeOK, ZEROS
  <2>5. WriteThrough'
    <3> SUFFICES ASSUME NEW s \in Cached \ {lba}
                 PROVE  cache[s] = disk[s]
      BY <2>1, <2>2, <2>3 DEF WriteThrough
    <3>1. Quiet(s)
      BY DEF OneWriter, Quiet, lba
    <3> QED
      BY <1>0, <3>1 DEF WriteThrough
  <2>6. ReadsNeverGoBack'
    <3> SUFFICES ASSUME NEW s \in Sectors
                 PROVE  Value(s)' >= seen[s]
      BY <2>1 DEF ReadsNeverGoBack
    <3>1. Value(s)' \in Int /\ Value(s) \in Int /\ Value(s) <= Value(s)'
      BY <1>0, <2>1, <2>2, <2>3 DEF Value, BehindInv
    <3> QED
      BY <1>0, <3>1 DEF ReadsNeverGoBack
  <2>7. BehindInv'
    BY <1>0, <2>1, <2>2, <2>3 DEF BehindInv
  <2>8. WritingInv'
    BY <1>0, <2>1 DEF WritingInv, CacheTypeOK
  <2> QED
    BY <2>4, <2>5, <2>6, <2>7, <2>8 DEF CacheIInv, CacheIsSound
<1>5. CASE UNCHANGED cacheVars
  BY <1>0, <1>5 DEF cacheVars, CacheIInv, CacheIsSound, CacheTypeOK, WriteThrough, Quiet,
                    ReadsNeverGoBack, Value, BehindInv, WritingInv, Cached
<1> QED
  BY <1>1, <1>2, <1>3, <1>4, <1>5 DEF CacheNext

\* The inductive invariant of the cache.
THEOREM CacheInvariance ==
    ASSUME OneWriter, DiskWorks
    PROVE  CacheSpec => []CacheIInv
<1>1. CacheInit => CacheIInv
  BY CacheInitInv
<1>2. CacheIInv /\ [CacheNext]_cacheVars => CacheIInv'
  BY CacheNextInv
<1> QED
  BY <1>1, <1>2, PTL DEF CacheSpec

\* With one writer and a disk that works, whatever reads, writes and evictions
\* came before, the cache is write-through: a sector that no write_sector() is
\* in the middle of has the disk's content in the cache.
THEOREM CacheSoundness ==
    ASSUME OneWriter, DiskWorks
    PROVE  CacheSpec => []CacheIsSound
<1>1. CacheIInv => CacheIsSound
  BY DEF CacheIInv
<1>2. CacheSpec => []CacheIInv
  BY CacheInvariance
<1> QED
  BY <1>1, <1>2, PTL

\* Under the same conditions no read returns an older content than a read
\* before it, not even while a write is between the disk and the cache, and
\* whichever entries read_sector() evicts.
THEOREM CacheMonotonicity ==
    ASSUME OneWriter, DiskWorks
    PROVE  CacheSpec => []ReadsNeverGoBack
<1>1. CacheIInv => ReadsNeverGoBack
  BY DEF CacheIInv
<1>2. CacheSpec => []CacheIInv
  BY CacheInvariance
<1> QED
  BY <1>1, <1>2, PTL
=============================================================================

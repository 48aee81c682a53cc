-------------------------------- MODULE Files --------------------------------
(***************************************************************************)
(* The file system: the calls of src/src/kernel/vfs/vfs.c and the FAT12    *)
(* driver below them, src/src/kernel/vfs/floppy_fat12.c, as spawn_process  *)
(* (multitask.c) and the commands of the shell make them: a process opens  *)
(* a path, reads on and closes.                                            *)
(*                                                                         *)
(* FDC_readSectors is where a process waits, for the disk and for others   *)
(* who use it: a step is what a call does from one sector read to the      *)
(* next, and the calls of several processes interleave there.              *)
(***************************************************************************)
EXTENDS Integers, Sequences, FiniteSets, SequencesExt, FiniteSetsExt

CONSTANTS
    Client,     \* processes that use files
    Disk,       \* what a sector holds: entries of the FAT or of a directory
    RESERVED, FATSIZE, COPIES, ROOTSIZE,  \* of the boot sector, in sectors
    ENTRIES,    \* entries of the FAT in a sector
    CLUSTER,    \* bytes of a cluster, one sector
    EOC,        \* what ends a chain: 0xFF8
    FatName,    \* string_to_fatname: the name of a file for one in a path
    MAXVNODE,   \* MAX_VNODE_PER_VFS: 16
    MAXOPEN,    \* MAX_OPEN_FILES: 24
    Paths,      \* sequences of names, asked of VFS_open
    Sizes       \* asked of VFS_read

ASSUME FilesAssumption ==
    /\ {FATSIZE, COPIES, ROOTSIZE, ENTRIES, CLUSTER, MAXVNODE, MAXOPEN} \subseteq Nat \ {0}
    /\ {RESERVED, EOC} \subseteq Nat /\ Sizes \subseteq Nat \ {0}
    /\ Paths \subseteq Seq(DOMAIN FatName)

VARIABLES
    mounted,  \* VFS_mount("fat12", "/"): "no" yet, "yes", "failed"
    vnode,    \* the vnodes in the heap, and their inodes
    cache,    \* total_vnode: a vnode in each slot, or nil
    open,     \* vfs_open_files: [node, position], node nil if not in use
    act,      \* where each process is in its calls
    got,      \* the bytes it read since it opened its file
    wild      \* the kernel followed a pointer to nothing; then it stops

filesVars == <<mounted, vnode, cache, open, act, got, wild>>

nil == 0
root == -1
Vnode == 1 .. MAXVNODE + 1
Descriptor == 0 .. MAXOPEN - 1
free == [name |-> "", dir |-> FALSE, first |-> 0, size |-> 0, ref_count |-> -1]
closed == [node |-> nil, position |-> 0]
idle == [at |-> "idle"]

FilesInit ==
    /\ mounted = "no"
    /\ vnode = [v \in Vnode |-> free]
    /\ cache = [i \in 1 .. MAXVNODE |-> nil]
    /\ open = [fd \in Descriptor |-> closed]
    /\ act = [p \in Client |-> idle]
    /\ got = [p \in Client |-> <<>>]
    /\ wild = FALSE

-----------------------------------------------------------------------------
(***************************************************************************)
(* The disk as the driver reads it                                         *)
(***************************************************************************)

\* fat12_mount reads the FAT in one FDC_readSectors, whose sector k is not
\* the k-th but k (k + 1) / 2 after the first.
LoadedAt(k) == RESERVED + (k * (k + 1)) \div 2

get_next_cluster(c) == Disk[LoadedAt(c \div ENTRIES)][c % ENTRIES]

RootLba == RESERVED + FATSIZE * COPIES

cluster_to_Lba(c) == RootLba + ROOTSIZE + (c - 2)

\* The n-th cluster of the chain that starts at c.
Skip(c, n) ==
    LET nth[k \in 0 .. n] == IF k = 0 THEN c ELSE get_next_cluster(nth[k - 1])
    IN  nth[n]

Bytes(sector, from, n) == [k \in 1 .. n |-> <<sector, from + k - 1>>]

-----------------------------------------------------------------------------
(***************************************************************************)
(* Vnodes                                                                  *)
(***************************************************************************)

\* The slots that hold a vnode of that name, whatever its directory.
CachedUnder(name) == {i \in DOMAIN cache : cache[i] # nil /\ vnode[cache[i]].name = name}

\* Mutated, to show that DescriptorsHoldVnodes can fail: a vnode in use is
\* evicted too.
ReusableAny(i) == TRUE

Reusable(i) == cache[i] = nil \/ vnode[cache[i]].ref_count <= 0

\* create_vnode: the node it returns, and vnodes and cache after it.
Created(entry) ==
    LET new == Min({v \in Vnode : vnode[v] = free})
        slots == {i \in DOMAIN cache : Reusable(i)}
        slot == Min(slots)
        filled == [vnode EXCEPT ![new] = [name |-> entry.name, dir |-> entry.dir,
                       first |-> entry.first, size |-> entry.size, ref_count |-> 0]]
    IN  IF CachedUnder(entry.name) # {}
        THEN [node |-> cache[Min(CachedUnder(entry.name))], vnode |-> vnode, cache |-> cache]
        ELSE IF slots = {} THEN [node |-> nil, vnode |-> vnode, cache |-> cache]
        ELSE [node |-> new,
              vnode |-> IF cache[slot] = nil THEN filled
                        ELSE [filled EXCEPT ![cache[slot]] = free],
              cache |-> [cache EXCEPT ![slot] = new]]

Unchanged == [node |-> root, vnode |-> vnode, cache |-> cache]

-----------------------------------------------------------------------------
(***************************************************************************)
(* VFS_mount, as init_process calls it; it goes on if the mount failed     *)
(***************************************************************************)
Mount ==
    /\ mounted = "no"
    /\ mounted' \in {"yes", "failed"}
    /\ UNCHANGED <<vnode, cache, open, act, got, wild>>

-----------------------------------------------------------------------------
(***************************************************************************)
(* VFS_open                                                                *)
(***************************************************************************)

\* It returns an error.
Refused(p) ==
    /\ act' = [act EXCEPT ![p] = idle]
    /\ UNCHANGED open

\* file_node->ref_count++.
Counted(nodes, v) == [nodes EXCEPT ![v].ref_count = @ + 1]

\* find_free_fd, and the descriptor filled.
Opened(p, found, path) ==
    LET unused == {fd \in Descriptor : open[fd].node = nil}
    IN  IF unused = {}
        THEN vnode' = found.vnode /\ Refused(p)
        ELSE /\ vnode' = Counted(found.vnode, found.node)
             /\ open' = [open EXCEPT ![Min(unused)] = [node |-> found.node, position |-> 0]]
             /\ act' = [act EXCEPT ![p] = [at |-> "open", fd |-> Min(unused), path |-> path]]

\* The loop of lookup_path_name has reached a node: it looks the next name
\* up in it, where fat12_lookup reads a first sector, or VFS_open goes on.
Reached(p, found, names, path) ==
    LET v == found.node
        isDir == v = root \/ (v # nil /\ found.vnode[v].dir)
        place == IF v = root THEN RootLba ELSE found.vnode[v].first
    IN  /\ cache' = found.cache
        /\ IF names # <<>> /\ isDir /\ (v = root \/ place < EOC)
           THEN /\ act' = [act EXCEPT ![p] = [at |-> "lookup", node |-> v,
                              place |-> place, names |-> names, path |-> path]]
                /\ vnode' = found.vnode
                /\ UNCHANGED open
           ELSE IF names = <<>> /\ v # nil /\ ~isDir THEN Opened(p, found, path)
           ELSE vnode' = found.vnode /\ Refused(p)

VFS_open(p) ==
    /\ act[p] = idle /\ mounted # "no"
    /\ \E path \in Paths :
        IF mounted = "yes" THEN Reached(p, Unchanged, path, path) /\ UNCHANGED wild
        ELSE wild' = TRUE /\ UNCHANGED <<vnode, cache, open, act>>
    /\ got' = [got EXCEPT ![p] = <<>>]
    /\ UNCHANGED mounted

\* The sector fat12_lookup waited for is in fat_buffer; a directory is read
\* sector by sector until an entry has the name.
LookupSector(p) ==
    /\ act[p].at = "lookup"
    /\ LET a == act[p]
           sector == IF a.node = root THEN a.place ELSE cluster_to_Lba(a.place)
           hits == {k \in DOMAIN Disk[sector] : Disk[sector][k].name = FatName[Head(a.names)]}
           next == IF a.node = root THEN a.place + 1 ELSE get_next_cluster(a.place)
           more == next < IF a.node = root THEN RootLba + ROOTSIZE ELSE EOC
       IN  \/ /\ hits # {}
              /\ a.node # root => vnode[a.node] # free
              /\ Reached(p, Created(Disk[sector][Min(hits)]), Tail(a.names), a.path)
              /\ UNCHANGED wild
           \/ \* node->vnode_vfs of a directory another process evicted
              /\ hits # {} /\ a.node # root /\ vnode[a.node] = free
              /\ wild' = TRUE
              /\ UNCHANGED <<vnode, cache, open, act>>
           \/ /\ hits = {} /\ more
              /\ act' = [act EXCEPT ![p].place = next]
              /\ UNCHANGED <<vnode, cache, open, wild>>
           \/ /\ hits = {} /\ ~more
              /\ Refused(p)
              /\ UNCHANGED <<vnode, cache, wild>>
    /\ UNCHANGED <<mounted, got>>

-----------------------------------------------------------------------------
(***************************************************************************)
(* VFS_read and VFS_close                                                  *)
(***************************************************************************)

\* fat12_read, up to its first sector, or at the end of the file.
VFS_read(p) ==
    /\ act[p].at = "open"
    /\ \E size \in Sizes :
        LET fd == act[p].fd
            v == vnode[open[fd].node]
            offset == open[fd].position
            cluster == Skip(v.first, offset \div CLUSTER)
        IN  /\ offset < v.size /\ cluster < EOC
            /\ act' = [act EXCEPT ![p] = [at |-> "read", fd |-> fd, path |-> @.path,
                   cluster |-> cluster, offset |-> offset % CLUSTER,
                   size |-> IF offset + size > v.size THEN v.size - offset ELSE size,
                   bytes |-> <<>>]]
    /\ UNCHANGED <<mounted, vnode, cache, open, got, wild>>

\* Mutated, to show that ReadReturnsFile can fail: the offset in the first
\* cluster is kept for those that follow.
NextOffsetKept(a) == a.offset

NextOffset(a) == 0

\* A cluster is in fat_buffer.  The call goes on with the next one, or adds
\* what it read to the position.
ReadCluster(p) ==
    /\ act[p].at = "read"
    /\ LET a == act[p]
           n == Min({CLUSTER - a.offset, a.size})
           bytes == a.bytes \o Bytes(cluster_to_Lba(a.cluster), a.offset, n)
           next == get_next_cluster(a.cluster)
       IN  IF n < a.size /\ next < EOC
           THEN /\ act' = [act EXCEPT ![p].cluster = next, ![p].offset = NextOffset(a),
                                      ![p].size = @ - n, ![p].bytes = bytes]
                /\ UNCHANGED <<open, got>>
           ELSE /\ open' = [open EXCEPT ![a.fd].position = @ + Len(bytes)]
                /\ got' = [got EXCEPT ![p] = @ \o bytes]
                /\ act' = [act EXCEPT ![p] = [at |-> "open", fd |-> a.fd, path |-> a.path]]
    /\ UNCHANGED <<mounted, vnode, cache, wild>>

VFS_close(p) ==
    /\ act[p].at = "open"
    /\ LET fd == act[p].fd
       IN  /\ vnode' = [vnode EXCEPT ![open[fd].node].ref_count = @ - 1]
           /\ open' = [open EXCEPT ![fd] = closed]
    /\ act' = [act EXCEPT ![p] = idle]
    /\ got' = [got EXCEPT ![p] = <<>>]
    /\ UNCHANGED <<mounted, cache, wild>>

FilesNext ==
    /\ ~wild
    /\ \/ Mount
       \/ \E p \in Client :
            VFS_open(p) \/ LookupSector(p) \/ VFS_read(p) \/ ReadCluster(p) \/ VFS_close(p)

FilesSpec == FilesInit /\ [][FilesNext]_filesVars

-----------------------------------------------------------------------------
(***************************************************************************)
(* Properties                                                              *)
(***************************************************************************)

\* Two processes never have one descriptor, a descriptor in use belongs to a
\* process, its vnode has not been freed and counts each descriptor once, and
\* the cache holds every vnode once: none leaks, none is freed twice.
DescriptorsHoldVnodes ==
    LET users(fd) == {p \in Client : act[p].at \in {"open", "read"} /\ act[p].fd = fd}
    IN  /\ \A fd \in Descriptor :
            Cardinality(users(fd)) = IF open[fd].node = nil THEN 0 ELSE 1
        /\ \A v \in Vnode : vnode[v] # free =>
            /\ vnode[v].ref_count = Cardinality({fd \in Descriptor : open[fd].node = v})
            /\ Cardinality({i \in DOMAIN cache : cache[i] = v}) = 1
        /\ \A fd \in Descriptor : open[fd].node # nil => vnode[open[fd].node] # free

\* The chain of clusters that starts at c, as the disk has it.
TrueNext(c) == Disk[RESERVED + c \div ENTRIES][c % ENTRIES]

TrueChain(c) ==
    LET n == FATSIZE * ENTRIES
        nth[k \in 0 .. n] ==
            IF k = 0 THEN c ELSE IF nth[k - 1] < EOC THEN TrueNext(nth[k - 1]) ELSE EOC
        end == Min({k \in 0 .. n : k = n \/ nth[k] >= EOC})
    IN  [k \in 1 .. end |-> nth[k - 1]]

\* The sectors of the directories a path leads through, the entries the k-th
\* name of it has there, and all that the paths name.
EntriesOf(sectors) == UNION {ToSet(Disk[s]) : s \in sectors}

SectorsOf(entry) == {cluster_to_Lba(c) : c \in ToSet(TrueChain(entry.first))}

Directories(path) ==
    LET dir[k \in 0 .. Len(path)] ==
            IF k = 0 THEN RootLba .. RootLba + ROOTSIZE - 1
            ELSE LET named == {e \in EntriesOf(dir[k - 1]) : e.name = FatName[path[k]]}
                 IN  UNION {SectorsOf(e) : e \in {e \in named : e.dir}}
    IN  dir

Named(path, k) == {e \in EntriesOf(Directories(path)[k - 1]) : e.name = FatName[path[k]]}

NamedEntries == UNION {UNION {Named(path, k) : k \in 1 .. Len(path)} : path \in Paths}

\* The file at a path, and its bytes.
TrueEntry(path) == CHOOSE e \in Named(path, Len(path)) : TRUE

TrueBytes(entry) ==
    [k \in 1 .. entry.size |->
        <<cluster_to_Lba(TrueChain(entry.first)[(k - 1) \div CLUSTER + 1]), (k - 1) % CLUSTER>>]

\* A disk the driver can read: no two entries of one name, which the cache
\* would take for each other; the FAT, where it is used, is what fat12_mount
\* reads; the chain of a directory ends, that of a file has its clusters.
DiskIsSound ==
    /\ \A path \in Paths : \A k \in 1 .. Len(path) : \A s \in Directories(path)[k - 1] :
           Disk[s] \in Seq(ToSet(Disk[s]))
    /\ \A e, f \in NamedEntries : e.name = f.name => e = f
    /\ \A e \in NamedEntries :
           LET chain == TrueChain(e.first)
           IN  /\ {e.first, e.size} \subseteq Nat
               /\ \A c \in ToSet(chain) :
                      TrueNext(c) \in Nat /\ get_next_cluster(c) = TrueNext(c)
               /\ IF e.dir THEN chain # <<>> => TrueNext(Last(chain)) >= EOC
                  ELSE e.size <= Len(chain) * CLUSTER

\* A process that reads a file on gets the bytes of the file at the path it
\* opened, one after the other, and the position follows.
ReadReturnsFile ==
    \A p \in Client : act[p].at \in {"open", "read"} =>
        /\ IsPrefix(got[p], TrueBytes(TrueEntry(act[p].path)))
        /\ open[act[p].fd].position = Len(got[p])
=============================================================================

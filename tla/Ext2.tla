-------------------------------- MODULE Ext2 --------------------------------
(***************************************************************************)
(* The ext2 file system (src/kernel/modules/ext2.cc) on a partition of the *)
(* disk, as the loader of programs, the look-up of paths and the read call *)
(* use it: mounting, scanning a directory, opening a file, which reads all *)
(* of it into memory, and reading from that copy.                          *)
(*                                                                         *)
(* What is on the disk is given twice: volume says which files there are   *)
(* and what they hold, and disk is that volume laid out in cells (the work *)
(* of mke2fs).  The code sees only the disk.  A memory request is granted. *)
(***************************************************************************)
EXTENDS Volumes, SequencesExt, FiniteSetsExt

CONSTANTS
    Fds,        \* the descriptors open on files of the volume
    Amounts     \* how much a program asks read for

JUNK == -1

ASSUME Ext2Assumption == Amounts \subseteq Nat \ {0}

VARIABLES
    volume,     \* what the disk was made from
    mounted,    \* the ext2_disk read when mounting, or NULL
    nodes,      \* the Ext2 objects; the first is the root
    fd          \* the descriptors, with what was read from each (history)

ext2Vars == <<disk, partition_info, volume, mounted, nodes, fd>>

Shut == [node |-> 0, ptr |-> 0, got |-> <<>>, ended |-> FALSE]

-----------------------------------------------------------------------------
(* Reading the structures of the disk *)

Rounded(a, b) == a \div b + (IF a % b # 0 THEN 1 ELSE 0)

(* ext2_read_sb: 1024 bytes of the partition, at its second kilobyte.      *)
SuperBlock(n) == PartitionRead(n, KILO, KILO)[1]

(* ext2_get_disk_info: the super block and the table of the groups, each   *)
(* of which says where its inodes begin.                                   *)
DiskInfo(n) ==
    LET sb == SuperBlock(n)
        blocksize == KILO * 2 ^ sb.s_log_block_size
        groups == Max({Rounded(sb.s_blocks_count, sb.s_blocks_per_group),
                       Rounded(sb.s_inodes_count, sb.s_inodes_per_group)})
        offset == IF blocksize = KILO THEN 2 * KILO ELSE blocksize
    IN  [sb |-> sb, blocksize |-> blocksize, groups |-> groups, dev |-> n,
         gd |-> PartitionRead(n, offset, groups)]

(* ext2_read_inode: i_num - 1 is divided as an unsigned number; an inode   *)
(* of a group that does not exist is junk, whatever memory holds there.    *)
InodeAt(hd, gr_num, index) ==
    PartitionRead(hd.dev, hd.gd[gr_num + 1] * hd.blocksize + index * hd.sb.s_inode_size,
                  hd.sb.s_inode_size)[1]

ext2_read_inode(hd, i_num, junk) ==
    LET n == (i_num - 1) % Width
        gr_num == n \div hd.sb.s_inodes_per_group
    IN  IF gr_num >= hd.groups THEN junk
        ELSE InodeAt(hd, gr_num, n % hd.sb.s_inodes_per_group)

(* ext2_is_directory tests one bit of the mode.                            *)
IsDirectory(inode) == (inode.i_mode \div EXT2_S_IFDIR) % 2 = 1

Block(hd, b) == PartitionRead(hd.dev, b * hd.blocksize, hd.blocksize)

(* A walk through block numbers ends at the first that is zero.            *)
UpToZero(p) ==
    LET holes == {i \in DOMAIN p : p[i] = 0}
    IN  IF holes = {} THEN p ELSE SubSeq(p, 1, Min(holes) - 1)

Single(hd, b) == IF b = 0 THEN <<>> ELSE UpToZero(Block(hd, b))
Double(hd, b) ==
    LET p == Single(hd, b) IN FlattenSeq([i \in DOMAIN p |-> Single(hd, p[i])])
Triple(hd, b) ==
    LET p == Single(hd, b) IN FlattenSeq([i \in DOMAIN p |-> Double(hd, p[i])])

(* ext2_read_file: the blocks of the file, one after the other, as far as  *)
(* its size goes.                                                          *)
FileBlocks_NoDouble(hd, inode) ==
    UpToZero(SubSeq(inode.i_block, 1, NDIRECT))
        \o Single(hd, inode.i_block[NDIRECT + 1])
        \o Triple(hd, inode.i_block[NDIRECT + 3])

FileBlocks(hd, inode) ==
    UpToZero(SubSeq(inode.i_block, 1, NDIRECT))
        \o Single(hd, inode.i_block[NDIRECT + 1])
        \o Double(hd, inode.i_block[NDIRECT + 2])
        \o Triple(hd, inode.i_block[NDIRECT + 3])

ext2_read_file(hd, inode) ==
    LET blocks == FileBlocks(hd, inode)
        base == FlattenSeq([i \in DOMAIN blocks |-> Block(hd, blocks[i])])
    IN  [i \in 1 .. inode.i_size |-> IF i <= Len(base) THEN base[i] ELSE JUNK]

-----------------------------------------------------------------------------
(* Directories *)

(* The entries of a directory: each says where the next begins, and the    *)
(* last ends where the size does.                                          *)
Following(map, dsize, o) == IF o = dsize THEN o ELSE o + map[o + 1].rec_len

Entries(map, dsize) ==
    LET at[k \in 0 .. dsize] == IF k = 0 THEN 0 ELSE Following(map, dsize, at[k - 1])
    IN  [k \in 1 .. Min({k \in 0 .. dsize : at[k] = dsize}) |-> map[at[k - 1] + 1]]

Node(parent, name, i_num, type, size) ==
    [parent |-> parent, name |-> name, ext2inode |-> i_num, type |-> type,
     size |-> size, map |-> NULL, scanned |-> FALSE]

(* The body of the loop of ext2_scan: ns with a leaf for the entry, unless *)
(* dir has a child of that name by then.                                   *)
Leaf(hd, dir, dentry, junk) ==
    LET inode == ext2_read_inode(hd, dentry.inode, junk)
    IN  Node(dir, dentry.name, dentry.inode,
             IF IsDirectory(inode) THEN "directory" ELSE "file", inode.i_size)

Enter_Again(hd, ns, dir, dentry, junk) ==
    IF dentry.name \in Dots THEN ns ELSE Append(ns, Leaf(hd, dir, dentry, junk))

Enter(hd, ns, dir, dentry, junk) ==
    IF \/ dentry.name \in Dots
       \/ \E i \in DOMAIN ns : ns[i].parent = dir /\ ns[i].name = dentry.name
    THEN ns
    ELSE Append(ns, Leaf(hd, dir, dentry, junk))

(* ext2_scan of the node dir of ns: it reads the directory, unless that is *)
(* open, and frees its copy at the end.                                    *)
ext2_scan(hd, ns, dir, junk) ==
    LET inode == ext2_read_inode(hd, ns[dir].ext2inode, junk)
        map == IF ns[dir].map = NULL THEN ext2_read_file(hd, inode) ELSE ns[dir].map
        dentries == Entries(map, inode.i_size)
        scan[k \in 0 .. Len(dentries)] ==
            IF k = 0 THEN ns ELSE Enter(hd, scan[k - 1], dir, dentries[k], junk)
    IN  [scan[Len(dentries)] EXCEPT ![dir].scanned = TRUE]

-----------------------------------------------------------------------------

Ext2Init ==
    /\ \E d \in Disks : volume = d.volume /\ disk = d.disk
    /\ partition_info = [n \in Partitions |-> NULL]
    /\ mounted = NULL
    /\ nodes = <<>>
    /\ fd = [f \in Fds |-> Shut]

(* Module::install of a dospartition, at boot.                             *)
Install(n) ==
    /\ partition_info[n] = NULL
    /\ partition_info' = [partition_info EXCEPT ![n] = Partition(n)]
    /\ UNCHANGED <<disk, volume, mounted, nodes, fd>>

(* Module::mount, at boot: ext2_check_disk, without whose magic number     *)
(* nothing is mounted, then ext2_get_disk_info and a scan of the root.     *)
Mount(n) ==
    /\ nodes = <<>> /\ partition_info[n] # NULL
    /\ SuperBlock(n).s_magic
    /\ mounted' = DiskInfo(n)
    /\ \E junk \in Junks :
         nodes' = ext2_scan(DiskInfo(n),
                            <<Node(0, "boot", EXT2_INUM_ROOT, "directory", 0)>>, 1, junk)
    /\ UNCHANGED <<disk, partition_info, volume, fd>>

(* Filesystem::path scans every directory it goes through.                 *)
Scan(d) ==
    /\ d \in DOMAIN nodes /\ nodes[d].type = "directory"
    /\ \E junk \in Junks : nodes' = ext2_scan(mounted, nodes, d, junk)
    /\ UNCHANGED <<disk, partition_info, volume, mounted, fd>>

(* The open call: Ext2::open reads the file into new memory, whatever map  *)
(* pointed to before, and the descriptor begins at 0.                      *)
Open(f, n) ==
    /\ fd[f] = Shut /\ n \in DOMAIN nodes
    /\ \E junk \in Junks :
         nodes' = [nodes EXCEPT ![n].map =
                      ext2_read_file(mounted, ext2_read_inode(mounted, nodes[n].ext2inode, junk))]
    /\ fd' = [fd EXCEPT ![f].node = n]
    /\ UNCHANGED <<disk, partition_info, volume, mounted>>

(* The close call: Ext2::close does nothing, the copy stays.               *)
Close(f) ==
    /\ fd[f].node # 0
    /\ fd' = [fd EXCEPT ![f] = Shut]
    /\ UNCHANGED <<disk, partition_info, volume, mounted, nodes>>

(* Ext2::read cuts the amount at the size of the file.                     *)
Amount(n, pos, sizee) ==
    IF pos + sizee > nodes[n].size THEN (nodes[n].size - pos) % Width ELSE sizee

(* The read call on a file: the position moves by what was read.           *)
Ext2Read(f, sizee) ==
    LET n == fd[f].node
        pos == fd[f].ptr
        bufsize == Amount(n, pos, sizee)
        cell(i) == IF i \in DOMAIN nodes[n].map THEN nodes[n].map[i] ELSE JUNK
    IN  /\ n # 0 /\ nodes[n].type = "file"
        /\ fd' = [fd EXCEPT ![f].ptr = (pos + bufsize) % Width,
                            ![f].got = @ \o [i \in 1 .. bufsize |-> cell(pos + i)],
                            ![f].ended = bufsize < sizee]
        /\ UNCHANGED <<disk, partition_info, volume, mounted, nodes>>

Ext2Next ==
    \/ \E n \in Partitions : Install(n) \/ Mount(n)
    \/ \E d \in DOMAIN nodes : Scan(d)
    \/ \E f \in Fds : \/ \E n \in DOMAIN nodes : Open(f, n)
                      \/ \E sizee \in Amounts : Ext2Read(f, sizee)
                      \/ Close(f)

Ext2Spec == Ext2Init /\ [][Ext2Next]_ext2Vars

-----------------------------------------------------------------------------
(* Properties *)

Stored(f) == volume[nodes[fd[f].node].ext2inode]

(* What a program reads from an open file, by calls of any sizes, is what  *)
(* the volume holds of it, in order, and the end is reported only at the   *)
(* end: through the cut at the size, the three levels of indirect blocks,  *)
(* the offset of the partition and the window of sectors of the driver.    *)
(* From the first hole of a file on, nothing is said, and nothing of the   *)
(* files that the code makes of unused entries, which have no inode.       *)
IsFile(n) == nodes[n].type = "file" /\ nodes[n].ext2inode # 0

ReadsWhatIsStored ==
    \A f \in Fds : fd[f].node # 0 /\ IsFile(fd[f].node) =>
        /\ Len(fd[f].got) = fd[f].ptr
        /\ fd[f].ptr <= Len(Stored(f).content)
        /\ \A i \in 1 .. fd[f].ptr :
             i <= Stored(f).whole => fd[f].got[i] = Stored(f).content[i]
        /\ fd[f].ended => fd[f].ptr = Len(Stored(f).content)

Listed(d) == {i \in DOMAIN nodes : nodes[i].parent = d /\ nodes[i].ext2inode # 0}

(* A scanned directory shows the used entries it has on the disk, once,    *)
(* with its inode, its size and, for a regular file or a directory, its    *)
(* type: also when it is scanned again, or while it is open.               *)
ListsTheDirectory ==
    \A d \in DOMAIN nodes : nodes[d].scanned /\ nodes[d].ext2inode # 0 =>
        LET held == volume[nodes[d].ext2inode].entries IN
        /\ {nodes[i].name : i \in Listed(d)} = DOMAIN held
        /\ Cardinality(Listed(d)) = Cardinality(DOMAIN held)
        /\ \A i \in Listed(d) :
             LET file == volume[held[nodes[i].name]] IN
             /\ nodes[i].ext2inode = held[nodes[i].name]
             /\ nodes[i].size = Len(file.content)
             /\ file.mode \in {EXT2_S_IFDIR, EXT2_S_IFREG} =>
                  (nodes[i].type = "directory" <=> file.mode = EXT2_S_IFDIR)
=============================================================================

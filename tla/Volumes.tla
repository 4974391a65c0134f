------------------------------- MODULE Volumes ------------------------------
(***************************************************************************)
(* What fdisk and mke2fs put on a disk: a table of partitions and, on some *)
(* of them, an ext2 file system.  This is the format, as the code under    *)
(* src/kernel/modules relies on it, said of single cells: where the number *)
(* of a block of a file is, where the entries of a directory begin.        *)
(*                                                                         *)
(* A volume is what the user of such a disk means by it: for each inode    *)
(* in use, the file: what it holds (content, of which whole cells come     *)
(* before the first hole), its mode and, for a directory, the entries in   *)
(* use by their names and the places (starts) where entries begin.         *)
(***************************************************************************)
EXTENDS Disk

CONSTANTS
    KILO,       \* the cells of 1024 bytes
    NDIRECT,    \* the direct blocks of an inode, 12 in the code
    Width,      \* integers are modulo this, 2^32 in the code
    Disks,      \* the pairs of a volume and its disk
    Junks       \* inodes that memory nobody has written may look like

EXT2_INUM_ROOT == 2
EXT2_S_IFDIR == 4               \* modes by their first four bits
EXT2_S_IFREG == 8
EXT2_S_IFBLK == 6
EXT2_S_IFSOCK == 12
Modes == {1, 2, 10, EXT2_S_IFDIR, EXT2_S_IFREG, EXT2_S_IFBLK, EXT2_S_IFSOCK}
Dots == {".", ".."}

-----------------------------------------------------------------------------
(* Places on the disk d with an ext2 file system on the partition n *)

Start(d, n) == d[PARTS + n].s_lba * SECTOR
Super(d, n) == d[Start(d, n) + KILO]
BlockSize(d, n) == KILO * 2 ^ Super(d, n).s_log_block_size

(* The cell c, from 0, of the block b of the partition.                    *)
CellOf(d, n, b, c) == d[Start(d, n) + b * BlockSize(d, n) + c]

(* The table of the groups is in the block after that of the super block;  *)
(* it says where the inodes of the group begin.                            *)
GroupOf(d, n, g) ==
    CellOf(d, n, IF Super(d, n).s_log_block_size = 0 THEN 2 ELSE 1, g)

InodeOf(d, n, i) ==
    LET per == Super(d, n).s_inodes_per_group
    IN  CellOf(d, n, GroupOf(d, n, (i - 1) \div per),
               ((i - 1) % per) * Super(d, n).s_inode_size)

(* The k-th number, from 0, of the block b of numbers, of those in the     *)
(* blocks that b has the numbers of, and of those one level further down.  *)
Number1(d, n, b, k) == IF b = 0 THEN 0 ELSE CellOf(d, n, b, k)
Number2(d, n, b, k) ==
    LET bs == BlockSize(d, n)
    IN  Number1(d, n, Number1(d, n, b, k \div bs), k % bs)
Number3(d, n, b, k) ==
    LET bs == BlockSize(d, n)
    IN  Number2(d, n, Number1(d, n, b, k \div (bs * bs)), k % (bs * bs))

(* The number of the k-th block of a file, 0 for a hole.                   *)
BlockOf(d, n, inode, k) ==
    LET bs == BlockSize(d, n)
        single == NDIRECT
        double == single + bs
        triple == double + bs * bs
        end == triple + bs * bs * bs
    IN  CASE k < single -> inode.i_block[k + 1]
          [] single <= k /\ k < double -> Number1(d, n, inode.i_block[NDIRECT + 1], k - single)
          [] double <= k /\ k < triple -> Number2(d, n, inode.i_block[NDIRECT + 2], k - double)
          [] triple <= k /\ k < end -> Number3(d, n, inode.i_block[NDIRECT + 3], k - triple)
          [] OTHER -> 0

-----------------------------------------------------------------------------
(* The format *)

(* The cells that block numbers are read from have numbers.                *)
HasNumbers(d, n, inode) ==
    LET bs == BlockSize(d, n)
        b(j) == inode.i_block[NDIRECT + j]
    IN  /\ inode.i_block \in [1 .. NDIRECT + 3 -> Nat]
        /\ \A k \in 0 .. bs - 1 : \A j \in 1 .. 3 : Number1(d, n, b(j), k) \in Nat
        /\ \A k \in 0 .. bs * bs - 1 : \A j \in 2 .. 3 : Number2(d, n, b(j), k) \in Nat
        /\ \A k \in 0 .. bs * bs * bs - 1 : Number3(d, n, b(3), k) \in Nat

(* The cell k of a file is in its block k \div bs.                         *)
HoldsFile(d, n, inode, file) ==
    LET bs == BlockSize(d, n) IN
    /\ inode.i_size = Len(file.content)
    /\ inode.i_mode = file.mode
    /\ file.whole > 0 => HasNumbers(d, n, inode)
    /\ \A k \in 0 .. file.whole - 1 :
         LET b == BlockOf(d, n, inode, k \div bs)
         IN  b # 0 /\ CellOf(d, n, b, k % bs) = file.content[k + 1]

(* A directory is entry after entry; a name is in use once, and no entry   *)
(* that is not in use has a name that is.                                  *)
IsListing(file, inodes) ==
    LET size == Len(file.content)
        entry(o) == file.content[o + 1]
        next(o) == o + entry(o).rec_len
        used(o) == entry(o).inode # 0 /\ entry(o).name \notin Dots
    IN  /\ file.whole = size
        /\ file.starts \subseteq 0 .. size - 1
        /\ size > 0 => 0 \in file.starts
        /\ \A o \in file.starts :
             /\ entry(o).rec_len \in Nat \ {0}
             /\ next(o) \in file.starts \cup {size}
             /\ o # 0 => \E p \in file.starts : next(p) = o
             /\ used(o) =>
                  /\ entry(o).name \in DOMAIN file.entries
                  /\ file.entries[entry(o).name] = entry(o).inode
                  /\ entry(o).inode \in inodes
        /\ \A o, p \in file.starts : used(o) /\ entry(p).name = entry(o).name => p = o
        /\ \A name \in DOMAIN file.entries :
             \E o \in file.starts : used(o) /\ entry(o).name = name

IsFileOf(file, inodes) ==
    /\ DOMAIN file.content = 1 .. Len(file.content) /\ Len(file.content) \in 0 .. Width - 1
    /\ file.whole \in 0 .. Len(file.content)
    /\ file.mode \in Modes
    /\ file.mode = EXT2_S_IFDIR => IsListing(file, inodes)
    /\ file.mode \in {EXT2_S_IFBLK, EXT2_S_IFSOCK} => file.content = <<>> /\ file.entries = <<>>

(* There is no group for the number below that of the first inode.         *)
HasGroups(sb) ==
    /\ sb.s_log_block_size \in 0 .. 2
    /\ sb.s_blocks_count \in Nat /\ sb.s_blocks_per_group \in Nat \ {0}
    /\ sb.s_inodes_count \in Nat /\ sb.s_inodes_per_group \in Nat \ {0}
    /\ sb.s_inode_size \in Nat \ {0}
    /\ (sb.s_blocks_count \div sb.s_blocks_per_group + 1) * sb.s_inodes_per_group < Width
    /\ (sb.s_inodes_count \div sb.s_inodes_per_group + 1) * sb.s_inodes_per_group < Width

Holds(d, n, volume_) ==
    LET sb == Super(d, n) IN
    /\ HasGroups(sb)
    /\ EXT2_INUM_ROOT \in DOMAIN volume_
    /\ volume_[EXT2_INUM_ROOT].mode = EXT2_S_IFDIR
    /\ \A i \in DOMAIN volume_ :
         /\ i \in 1 .. sb.s_inodes_count
         /\ GroupOf(d, n, (i - 1) \div sb.s_inodes_per_group) \in Nat
         /\ IsFileOf(volume_[i], DOMAIN volume_)
         /\ HoldsFile(d, n, InodeOf(d, n, i), volume_[i])

ASSUME VolumesAssumption ==
    /\ KILO = 2 * SECTOR
    /\ NDIRECT \in Nat \ {0}
    /\ Width \in Nat \ {0}
    /\ \A d \in Disks : \A n \in Partitions :
         /\ d.disk[PARTS + n].s_lba \in Nat
         /\ Super(d.disk, n).s_magic => Holds(d.disk, n, d.volume)
    /\ \A junk \in Junks : junk.i_size = 0
=============================================================================

-------------------------------- MODULE Disk --------------------------------
(***************************************************************************)
(* Reading from a disk: the IDE driver (src/kernel/modules/ide.cc) and the *)
(* DOS partitions in front of it (src/kernel/modules/dospartition.cc).     *)
(*                                                                         *)
(* The disk is an array of cells.  A cell is four bytes that are read      *)
(* together, or a whole record (a partition, an inode, an entry of a       *)
(* directory) followed by the cells it takes up.                           *)
(***************************************************************************)
EXTENDS Integers, Sequences

CONSTANTS
    SECTOR,       \* the cells of a sector, 512 bytes in the code
    PARTS,        \* where the table of partitions is, DOS_PART_1
    Partitions,   \* the partitions of the table, numbered from 0
    NULL

ASSUME DiskAssumption ==
    /\ SECTOR \in Nat \ {0}
    /\ PARTS \in Nat
    /\ Partitions \subseteq Nat

VARIABLES
    disk,             \* disk[c] is the cell c; nothing writes on it
    partition_info    \* partition_info[n], or NULL before n is installed

(* bl_read: count whole sectors from numblock on.                          *)
bl_read(numblock, count) ==
    [i \in 1 .. count * SECTOR |-> disk[numblock * SECTOR + i - 1]]

(* Ide::read: the sectors from that of the first cell to that of the cell  *)
(* after the last one, of which the cells asked for are copied.            *)
Blocks(offset, count) ==
    (offset + count) \div SECTOR - offset \div SECTOR + 1

IdeRead(offset, count) ==
    LET blocks == Blocks(offset, count)
        bl_buffer == bl_read(offset \div SECTOR, blocks)
        at == offset % SECTOR
    IN  [i \in 1 .. count |->
            IF at + i <= blocks * SECTOR THEN bl_buffer[at + i] ELSE -1]

(* The constructor of DosPartition reads the entry of its number.          *)
Partition(n) == IdeRead(PARTS + n, 1)[1]

(* DosPartition::read                                                      *)
PartitionRead(n, pos, count) ==
    IdeRead(partition_info[n].s_lba * SECTOR + pos, count)
=============================================================================

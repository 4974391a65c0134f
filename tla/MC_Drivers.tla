------------------------------ MODULE MC_Drivers ----------------------------
(***************************************************************************)
(* Volumes and the disks mke2fs and fdisk make of them.  Sectors have two  *)
(* cells, so a block of a kilobyte has four and holds four block numbers;  *)
(* inodes have two direct blocks.                                          *)
(*                                                                         *)
(* A volume has a root (inode 2) whose second block holds an entry, a      *)
(* directory (3), a file (5) of each of the sizes where a level of         *)
(* indirect blocks begins or ends, a file with a hole (6), a socket (7)    *)
(* and, when it is not clean, an entry of a deleted file.                  *)
(***************************************************************************)
EXTENDS Drivers

CONSTANTS f1, f2,
          Sizes,        \* of the file 5, in cells, with blocks of four cells ...
          LargeSizes,   \* ... and of eight
          Unclean       \* sizes with which a volume is not clean

bs(log) == KILO * 2 ^ log
Cells(i, n) == [c \in 1 .. n |-> 1000 * i + c]
Pad(n) == [c \in 1 .. n |-> 0]
Zeros == Pad(NDIRECT + 3)

DirEntry(name, i, len) == <<[name |-> name, inode |-> i, rec_len |-> len]>> \o Pad(len - 1)

RootDir(b, clean) ==
    DirEntry(".", 2, 1) \o DirEntry("..", 2, 1) \o DirEntry("d", 3, b - 2)
        \o (IF clean THEN DirEntry("f", 5, 2) ELSE DirEntry("x", 0, 1) \o DirEntry("f", 5, 1))
        \o DirEntry("s", 7, b - 2)
SubDir(b) == DirEntry(".", 3, 1) \o DirEntry("..", 2, 1) \o DirEntry("h", 6, b - 2)

Starts(b, clean) == [i \in {2, 3} |-> {0, 1, 2} \cup
    (IF i = 3 THEN {} ELSE IF clean THEN {b, b + 2} ELSE {b, b + 1, b + 2})]

(* The contents of the inodes: the blocks of a hole hold nothing.          *)
Contents(b, n, clean) == (2 :> RootDir(b, clean)) @@ (3 :> SubDir(b)) @@ (5 :> Cells(5, n))
                     @@ (6 :> Cells(6, 3 * b + 1)) @@ (7 :> <<>>)

MCVolume(b, n, clean) ==
    LET file(i, mode, entries) ==
            [content |-> Contents(b, n, clean)[i],
             whole |-> IF i = 6 THEN b ELSE Len(Contents(b, n, clean)[i]),
             mode |-> mode, entries |-> entries,
             starts |-> IF i \in {2, 3} THEN Starts(b, clean)[i] ELSE {}]
    IN  (2 :> file(2, 4, ("d" :> 3) @@ ("f" :> 5) @@ ("s" :> 7)))
        @@ (3 :> file(3, 4, "h" :> 6)) @@ (5 :> file(5, 8, <<>>))
        @@ (6 :> file(6, 8, <<>>)) @@ (7 :> file(7, 12, <<>>))

-----------------------------------------------------------------------------
(* mke2fs: block 0 for the boot, the super block, the groups, two inodes   *)
(* of two cells to a group, whose tables are in blocks 3, 4, 5 and 6, and  *)
(* from block 7 on a region for each file, its data before the blocks of   *)
(* numbers.                                                                *)
PerGroup == 2
Inodes == {2, 3, 5, 6, 7}

Region(b, len) == LET n == Rounded(len, b)
                  IN  IF n <= NDIRECT THEN n ELSE n + 3 + 2 * b + b * b
Base(b, n, clean) == [i \in Inodes |->
    7 + MapThenSumSet(LAMBDA j : Region(b, Len(Contents(b, n, clean)[j])), {j \in Inodes : j < i})]

(* The blocks of the file i: number b blocks from base on, data from 0 to  *)
(* k - 1, then the single, the double and the triple indirect blocks.      *)
Laid(b, base, cells, hole) ==
    LET k == Rounded(Len(cells), b)
        data(j) == IF j >= k \/ j = hole THEN 0 ELSE base + j
        bi == k + 1
        tri == bi + 1 + b
        numbers(first, step, at) ==
            [j \in 1 .. b |-> IF first + (j - 1) * step < k THEN at + j - 1 ELSE 0]
        leaf(first) == [j \in 1 .. b |-> data(first + j - 1)]
        two == NDIRECT + b
        three == two + b * b
    IN  [data |-> [j \in 0 .. k - 1 |->
                     IF j = hole THEN Pad(b)
                     ELSE [c \in 1 .. b |->
                             IF j * b + c <= Len(cells) THEN cells[j * b + c] ELSE 0]],
         block |-> [j \in 1 .. NDIRECT |-> data(j - 1)]
                      \o <<IF k > NDIRECT THEN base + k ELSE 0,
                           IF k > two THEN base + bi ELSE 0,
                           IF k > three THEN base + tri ELSE 0>>,
         numbers |-> <<leaf(NDIRECT), numbers(two, b, base + bi + 1)>>
                       \o [j \in 1 .. b |-> leaf(two + (j - 1) * b)]
                       \o <<numbers(three, b * b, base + tri + 1)>>
                       \o [j \in 1 .. b |-> numbers(three + (j - 1) * b * b, b,
                                                    base + tri + 1 + b + (j - 1) * b)]
                       \o [j \in 1 .. b * b |-> leaf(three + (j - 1) * b)]]

MCDisk(log, n, clean) ==
    LET b == bs(log)
        file(i) == Laid(b, Base(b, n, clean)[i], Contents(b, n, clean)[i], IF i = 6 THEN 1 ELSE -1)
        region(i) == LET r == file(i)
                         k == Cardinality(DOMAIN r.data)
                     IN  [j \in 1 .. k |-> r.data[j - 1]]
                           \o (IF k > NDIRECT THEN r.numbers ELSE <<>>)
        inode(i) == IF i \in Inodes
                    THEN <<[i_mode |-> MCVolume(b, n, clean)[i].mode,
                            i_size |-> Len(Contents(b, n, clean)[i]),
                            i_block |-> file(i).block], 0>>
                    ELSE <<[i_mode |-> 0, i_size |-> 0, i_block |-> Zeros], 0>>
        table(g) == inode(2 * g - 1) \o inode(2 * g) \o Pad(b - 4)
        files == FlattenSeq([i \in 1 .. 6 |-> IF i + 1 \in Inodes THEN region(i + 1) ELSE <<>>])
        count == 7 + Len(files)
        sb == <<[s_magic |-> TRUE, s_log_block_size |-> log, s_inodes_count |-> 2 * 4,
                 s_inodes_per_group |-> 2, s_blocks_count |-> count,
                 s_blocks_per_group |-> Rounded(count, 3), s_inode_size |-> 2]>> \o Pad(KILO - 1)
        start == IF log = 0 THEN Pad(KILO) \o sb \o <<3, 4, 5, 6>>
                 ELSE Pad(KILO) \o sb \o <<3, 4, 5, 6>> \o Pad(2 * b - 2 * KILO - 4) \o Pad(b)
        volume_ == start \o table(1) \o table(2) \o table(3) \o table(4) \o FlattenSeq(files)
        plain == Pad(KILO) \o <<[s_magic |-> FALSE]>> \o Pad(KILO - 1)
        mbr == <<[s_lba |-> 1], [s_lba |-> 1 + Len(plain) \div SECTOR]>>
        cells == mbr \o plain \o volume_ \o Pad(SECTOR)
    IN  [c \in 0 .. Len(cells) - 1 |-> cells[c + 1]]

Disk_(log, n, clean) ==
    [volume |-> MCVolume(bs(log), n, clean), disk |-> MCDisk(log, n, clean)]
MCDisks == {Disk_(0, n, n \notin Unclean) : n \in Sizes} \cup {Disk_(1, n, TRUE) : n \in LargeSizes}

MCJunks == {[i_mode |-> m, i_size |-> 0, i_block |-> Zeros] : m \in {4, 8}}
=============================================================================

# A verification development of the teaching kernel

This directory holds TLA+ modules that model the kernel in `src/src/kernel`
(about 7,200 lines of C++ and assembly for a single 32-bit x86 processor) and the
C library for its programs in `src/src/sdk/src/libc`, the TLC configurations that
check them on small instances, and proofs that hold for every size. Line numbers
below are those of the repository; paths without a directory are relative to
`src/src/kernel`, those that begin with `libc/` to `src/src/sdk/src/libc/src` in
place of `libc`. The chapters of the book (`Chapter-1` to `chapter9`) describe the
intentions; every definition here is taken from the code.

    tlc -config MC_Heap.cfg Heap                       # check an instance
    tlapm KernelHeap_proofs.tla                        # check the proofs

## 1. The system

### Components, state and operations

| component | state | operations |
|---|---|---|
| page frames and page heap (`arch/x86/vmm.cc`, `vmm.h`) | `mem_bitmap`, the list `kern_free_vm`, the kernel's page tables, `kern_heap` | `page_frame_aquire/release`, `page_new`, `page_free`, `pd0_add_page/remove_page`, `ksbrk` (`alloc.cc`) |
| kernel heap (`arch/x86/alloc.cc`) | the chunk headers between `KERN_HEAP` and `kern_heap` | `kmalloc`, `kfree`, `ksbrk` |
| address spaces (`architecture.cc`, `vmm.cc`, `x86.cc`) | each process's page directory, page tables, kernel stack, `pglist`, list of page tables; cr3 | `create_process`, `isr_PF_exc`, `destroy_process`, `page_directory_*` |
| processes, scheduler, signals (`core/process.cc`, `architecture.cc`, `x86.cc`) | list `plist`/`pnext`, `pparent`, `state_`, pending signals, `pcurrent` | `execv`, `fork`, `exit`, `wait`, `destroy_all_zombie`, `change_process_father`, `schedule` |
| system calls (`x86.cc`, `architecture.cc`, `core/syscalls.cc`, `core/api_posix.cc`) | the globals `ret_reg` and `stack_ptr`, the saved registers | `do_syscalls`, `setParam`, `getArg`, `setRet`, 20-odd handlers |
| console, keyboard, screen (`arch/x86/io.cc`, `modules/stdtty.cc`) | `inbuf_`, `keypos_`, `inlock_`, `keystate_`; the video memory and the cursor `x_`, `y_` | `isr_kbd_int`, `putctty`, `read`; `putc`, `scrollup`, `clear`, `print` |
| file descriptors (`core/process.cc`, `core/api_posix.cc`) | `openfp_[CONFIG_MAX_FILE]`: file, position; the current directory | `addFile`, `getFile`, `deleteFile`, `setFile`; open, close, dup2, read, write, getdents, chdir, symlink |
| file tree (`core/file.cc`, `filesystem.cc`) | parent, child, next and previous pointers of `File` | `File`, `add`, `find`, `~File`, `path`, `path_parent`, `link`, `add_file` |
| inter-process buffer (`runtime/buffer.cc`) | one growing block per process | `add`, `get` (from the end) |
| runtime library (`runtime/`) | none | `strncpy`, `strlen`, `strcmp`, `itoa`, `memcpy`, lists |
| ELF loader (`core/elf_loader.cc`) | none | `is_elf`, `load_elf`, `execv`, `execv_module` |
| ext2 (`modules/ext2.cc`) | the mounted disk's description, the nodes made so far, a copy of each opened file | `ext2_mount`, `ext2_scan`, `ext2_read_inode`, `ext2_read_file`, open, close, read |
| IDE disk, DOS partitions (`modules/ide.cc`, `dospartition.cc`) | the offset of each partition | `Ide::read`, `DosPartition::read`, mount |
| modules and drivers (`modules/`, `core/modulelink.cc`) | a static table, device ports | `initLink`, `install`, `mount`, port I/O |
| system, users, environment (`core/system.cc`, `user.cc`, `env.cc`) | a user list, variables | `login`, `getUser`, `write` |
| boot (`core/kernel.cc`, `arch/x86/start.asm`, `x86.cc`) | GDT, IDT, PIC | straight-line initialisation |
| C library: streams (`libc/stdio/`) | a `FILE`: buffer, position, flags, characters given back | fopen, fputc, fwrite, fgetc, fread, ungetc, fflush, setvbuf, fpurge, fseek, fclose |
| C library: heap (`libc/stdlib/malloc.c`) | chunk headers between `b_heap` and `e_heap` | malloc, free, realloc, over the kernel's sbrk |
| C library: getopt (`libc/getopt/`) | `getopt_data`: where the scan is, what is permuted | getopt, getopt_long, getopt_long_only |
| C library: functions (`libc/udivmoddi4.c`, `libc/stdlib/`, `libc/string/`, `libc/sscanf.c`, `libc/stdio/support_*.c`, `libc/time/`) | none (strtok apart) | 64-bit division, strtoul and its kin, printf, sprintf, sscanf, qsort, bsearch, string functions, gmtime, mktime, strftime |
| trio (`libc/trio/`), the vendored alternative to printf | dynamic strings; the callbacks registered, the separators | strings, parsing of formats, printing to seven kinds of destination |

The rest of the C library and `src/src/userland` are listed in
`PROJECT.json` and in section 5.

### How they interact

* There is one processor. Code with interrupts disabled is atomic; the timer
  (`isr_schedule_int`) calls `schedule` whenever they are enabled.
* A system call enters through a trap gate: interrupts stay enabled until
  `do_syscalls` has stored the arguments in the global `ret_reg`
  (`x86.cc:143`). From the `cli` to the `sti` the handler is atomic, except in
  `Io::read`, `Process::read` and `Process::wait`, which enable interrupts to
  spin, and in `destroy_process`, which enables them on its way out
  (`architecture.cc:274`).
* The result goes through the global `stack_ptr`, which `schedule` uses as well.
* Almost everything allocates with `kmalloc`, which takes no lock: it relies on
  its callers having interrupts disabled, but `Process::read` and `Process::wait`
  enable them and then reach `kmalloc` and `kfree`.
* `create_process` loads cr3 with the new page directory and leaves `pcurrent`
  at the parent; the page fault handler maps into the one and keeps its lists
  under the other.
* An open file is a `File` of the tree; a process is one too (in `/proc`), and its
  destructor takes it out of the tree while others may have it open.
* ext2 makes its nodes as paths are walked; reading goes through the partition's
  offset to the disk's sectors.
* Keys are not echoed: what is read from the console and what is written on it
  are members of one object, `Io`, that do not touch each other.
* A child tells its parent of its end through a `pparent` pointer and one bit,
  SIGCHLD; `wait` spins on the bit and then destroys *every* zombie of the
  system.

### What is hard, and what makes each part correct

* **Frames and page heap.** Long sequences of allocations and releases; both
  resources run out. Correct: no frame behind two pages, a frame in use is
  marked, the free list sorted, merged and complete.
* **Kernel heap.** Splits leave rests at the boundary of the smallest chunk,
  merges leave stale headers, `ksbrk` can fail half way, two callers enable
  interrupts. Correct: blocks never overlap, the chunks tile the heap.
* **Address spaces.** Two records of one memory kept in two places, freed in an
  order that depends on who dies first. Correct: no frame serves two processes,
  none is freed twice, none is lost.
* **Processes.** The list is walked with interrupts enabled while others change
  it; signals coalesce; a process can die in every step. Correct: list and
  parent pointers never dangle, no exit goes unnoticed, memory is freed once,
  every runnable process runs, `wait` returns.
* **System calls.** Globals shared by calls and scheduler. Correct: a call works
  on its own arguments and returns its own result.
* **Console and screen.** A wait that another process, or a key, can overtake; a
  cursor that tabs push beyond the margin. Correct: the buffer is the edited
  line, a key wakes those who wait and no others, a read returns; what is seen is
  what a sheet of paper would show.
* **Files.** Four pointers per file changed by hand; objects deleted under open
  descriptors and open directories; a table whose end is off by one. Correct: the
  pointers implement a directory, a path finds its file, a listing misses nothing.
* **ext2 and disk.** Windows of sectors, three levels of indirect blocks, copies
  that are replaced while they are read. Correct: what is read and listed is what
  was stored.
* **C library.** Buffers that turn from writing to reading, devices that fail in
  between, walks over headers, arithmetic at the ends of the range, indices that
  cross, permutations remembered in three numbers. Correct: what the C standard,
  and the comments of getopt, promise.

`PROJECT.json` lists all of these hazards with the line where each bites and the
properties aimed at it, or the reason there is none yet.

## 2. The modules

| module | models | extends / uses |
|---|---|---|
| `KernelPages` | frames, page heap, page tables | |
| `Allocator` | what kmalloc and kfree promise (abstract) | |
| `KernelHeap` | kmalloc, kfree, ksbrk, each call atomic | refines `Allocator` (`Promise`, `IsAllocator`) |
| `HeapRace` | the same code step by step, several processes | |
| `Heap` | both grains side by side | composes `KernelHeap` and `HeapRace` |
| `Processes` | life, scheduling and reaping of processes | |
| `AddressSpaces` | who owns which frame | |
| `Syscalls` | the way of arguments and results | |
| `SystemCalls` | calls in registers, and calls on files | composes `Files` and `Syscalls` |
| `AddressSpaces_proofs`, `KernelPages_proofs`, `Processes_proofs` | theorems | extend the module of that name |
| `Drivers_proofs` | theorems about the console, the screen, and files read from a disk | extends `Io` and `Ext2` |
| `KernelHeap_proofs` | theorems about the kernel's heap, call by call and step by step | extends `KernelHeap` and `HeapRace` |
| `Library_proofs` | theorems about a program's heap, its streams, its 64-bit division, its sorting and searching, and its dates | extends `UserHeap`, `Streams` and `LibraryCalls` |
| `Calls_proofs` | theorems about the calls on files, and about how calls pass arguments and results | extends `Files` and `Syscalls` |
| `Induction` | least elements, induction with a set for the property, functions defined step by step, products and quotients | used by the proofs about `Processes`, the heaps, the files, the streams, division, sorting, dates, the screen and ext2 |
| `Console` | keyboard interrupt and readers | |
| `Paper` | what the screen promises (abstract): a sheet, a place on it | |
| `Screen` | video memory and cursor | refines `Paper` (`Sheet`, `IsPaper`) |
| `Io` | the object both are of | composes `Console` and `Screen` |
| `Directory` | what the tree of files promises (abstract): rows of entries | |
| `FileTree` | the pointers of `File`, paths | |
| `Files` | descriptors, processes in `/proc`, the calls on files | extends `FileTree`, refines `Directory` (`Promise`, `IsDirectory`) |
| `Disk` | sectors, IDE, partitions | |
| `Volumes` | the format of the disk, as fdisk and mke2fs write it: where each cell of a file is | extends `Disk` |
| `Ext2` | mounting, scanning, opening, reading | extends `Volumes` |
| `Drivers` | the terminal and the disk side by side | composes `Io` and `Ext2` |
| `Streams` | a stdio stream over a device | |
| `UserHeap` | malloc, free, realloc over sbrk | |
| `Division` | 64-bit division | |
| `Texts` | string functions | |
| `Numbers` | strtoul and its kin, printf, sprintf; itoa and print of the kernel | extends `Texts` |
| `Scanning` | sscanf | extends `Numbers` |
| `Sorting` | qsort, bsearch | |
| `Options` | getopt, getopt_long, getopt_long_only | extends `Texts` |
| `Dates` | gmtime, mktime, the day of the week; the clock's registers | |
| `Calendar` | strftime, asctime | extends `Dates` |
| `TrioStrings` | trio's static and dynamic strings | extends `Texts` |
| `TrioPrinting` | trio's formats, its printing, and what it should write | extends `Numbers` |
| `LibraryCalls` | calls of division, of qsort with bsearch, and of gmtime with mktime | composes `Division`, `Sorting` and `Dates` |
| `Library` | the C library's parts side by side | composes the modules from `Streams` to here |
| `MC_Calls`, `MC_Drivers`, `MC_Library` | constants for TLC and the disks (they extend `SystemCalls`, `Drivers` and `Library`); the other configurations need none, and `MC_X.cfg` or `MC_X_y.cfg` is of the module `X` (`MC_Heap_interrupts.cfg` of `HeapRace`) | |

Operators named `X_Something` in front of `X` are variants of `X` with a
plausible bug (a guard dropped, an off-by-one, a missing reset). They belong to
no specification; `PROJECT.json` ("mutants") names, for each property, the
variant that violates it, which shows that the property depends on the code.

### KernelPages

`mem_bitmap` is the set of frames whose bit is set. `pte` stands for the page
table entries of every page that can own a frame: the page heap, the kmalloc
heap, the user pages (`UserMap` is the page fault, `UserRelease` the end of the
process). `kern_free_vm` is the sequence of free areas. `PageNew`, `PageFree`,
`Kmalloc` are whole calls. `PageFree` is split by the four branches of
`page_free` (`FreeGrowPrev` ... `FreeCorrupted`); `page_new` and the branch that
inserts an area call `kmalloc`, so the `ksbrk` inside is part of the step.
`page_frame_aquire` is deterministic (first clear bit) and returns the top frame,
the address -1 shifted, when there is none. `page_new` prints "System halted"
there and goes on; so does the model (`panics`).

Past the last area `page_free` takes the list head for an area and reads its
`vm_start` from some other word of the kernel image: `HeadWords`, any words that
are not addresses of the page heap. `pd0_add_page` passes an address to a macro
that expects a page number (`vmm.cc:302`), so the bit it sets is outside
`mem_bitmap`; `MarksAssumption` states this of the constants, and what the stray
bit hits is not modelled. With no area left `page_new` writes through a pointer
nobody set; the model ends there (`"no_area"`).

### KernelHeap, Allocator, HeapRace

`chunks` is the set of headers that a walk by size meets; `top` is where the walk
ends, which is `kern_heap` unless a `ksbrk` failed after it had moved
`kern_heap`: then there are pages without a header, and the next walk that gets
there halts, goes on, or believes garbage (`fate`; the model ends with the
latter). `held` is what the callers have. `KmallocFit` and `KmallocGrow` are the
two ways a call succeeds, `KmallocNoFrame`, `KmallocNoAddress`,
`KmallocNoHeader` the ways it fails. "halt" is a choice because `hlt` stops the
machine only when interrupts are disabled.

`Allocator` has no chunks: only that a block handed out is apart from all that
are out. `KernelHeap!IsAllocator` says that the detailed module implements it;
the refinement mapping is the identity on `held`.

`HeapRace` keeps the headers themselves, stale ones too, and takes kmalloc and
kfree apart into steps. The calls of the processes in `Enabled` run with interrupts
enabled, as those do that `Process::read` makes through `Buffer::get` and
`Process::wait` through the deletion of a process: while one of them is cut,
the others run (`Runs`). A merge whose neighbour lies beyond the heap by then adds
what is there, nothing. `overtaken` is history: a call of kmalloc has had another call
beside it. Growth of the heap is left to `KernelHeap`. `kmalloc_used` is never read and
left out of all three.

### Processes

One action is what runs between two points where the timer may switch. `Tick` is
`isr_schedule_int`; a process moves only while it is `pcurrent`. `Execv`, `Fork`,
`Exit`, `Crash` are calls with interrupts disabled. `wait` and
`destroy_all_zombie` are taken apart: `Wait`, `WaitSignalled`, `WaitClear`,
`ReapTest`, `Destroy` (`destroy_process`), `Delete` (the destructor, with
`change_process_father`), `ReapDone`, with the locals `p` and `pn` of each
caller. `space` follows a process's memory: `live`, `unloaded` (given back by
`create_process` when the program is not an executable), `freed`, and `again` or
`twice` when something is freed that was already given back; its frames may be
another's by then, so the model ends there (`Doomed`). `pid`s are never reused,
as in the code. The kernel's own process is a zombie from the start, as
`init_process` leaves it. `hung` is the scheduler's endless search when every
process is a zombie. `adopted` is history. Only SIGCHLD exists: nothing in the
kernel raises or installs handlers for others, and its default action does
nothing.

### AddressSpaces

A process has what its page directory maps (`base`, `pde`, `pte`, `kstack`) and
the lists `destroy_process` walks (`pglist`, `pt`). `Execv`, `ExecvArgs` and
`ExecvFails` take their frames in the order of the code and file the code pages
under the *parent*, because `isr_PF_exc` uses `pcurrent`. Calls are atomic here
(`Processes` has the interleavings). init is loaded with one argument by the
kernel's own process (`kernel.cc:6`, `22`), so that four frames of it are on nobody's
list (`Unlisted`). A program that failed to load is reaped like any zombie
(`DestroyFailed`): its page directory is read through memory that kfree has had back, and
its kernel stack was never set, so that up to `MaxStray` frames, any of those in use, are
given back (`Strayed` from then on). `Fault` requires that enough frames are left; running
out is `KernelPages`'s subject.

### Syscalls

`Enter` is the `int 0x80`, `SetFirst` and `SetSecond` the stores of `setParam`
(two of the five are enough to be torn), `Handle` everything from `cli` to `sti`,
`HandleVoid` the same of close and exit, which set no result, `HandleWaits` and
`WaitEnds` a handler that waits in between (read, or wait, whose `setRet` is commented
out), `Tick` the timer, which may come at any point with interrupts enabled and points
`stack_ptr` at its own frame. A value is identified with the process it belongs to.
`last` is history: of which of the three kinds a process's last call was.

### Console

`Key` is one keyboard interrupt: `KeyChar`, `KeyBackspace`, `KeyNewline` in
buffered mode, `KeyAlone` for a read of one character. `Read`, `Lock`, `Leave`,
`Copy` are the steps of `Io::read` (`io.cc:268-280`): mode and `sti`, `inlock_ =
1`, the end of the spin, `cli` with `strncpy` and `strlen`. The kernel is built
without optimisation, so the spin reads `inlock_` anew each time. What lies
behind `inbuf_` is `keypos_`; the first write there (`beyond`) ends the model.
`line` (the line as an editor would have it) and `since` are history.

### Screen, Paper, Io

`screen` is the video memory as a function of places, each with its character
and whether its attribute lets it be seen, and the cursor; `putc` has the five
branches of `Io::putc` and the scroll at its end, `write` is one call of
`Console::write`, which is atomic. A tab moves `x_` without wrapping, so that `x_`
may be 80 or more and the next character lands on a later line, and on the last
line behind the video memory: what is stored there is never shown and is ignored.
`Paper` says what a user sees: rows, fed when the last one is full. `IsPaper` maps
the memory to rows (`Shown`: a dimmed or zero cell is blank), and what is written to what
is seen of it (`Seen`). The two halves of `Io`
share no member, so a behaviour exercises one of them (`half`), which keeps the
run from multiplying states that cannot interact. There is one `Io` object:
nothing in the kernel makes a second console.

### FileTree, Directory, Files

`tree` has, for each `File`, its four pointers, name and type; `Add` and `Unlink` are
the constructor with `add` and the destructor, with what becomes of every pointer;
the destructor's branch for an only child comes too late (`file.cc:49`), and its
write through null goes to page 0, which is mapped and never read. `path` and
`path_parent` are recursive functions over the words of a path. Of the tree that
`Filesystem::init` builds, the root, `/dev`, `/dev/tty` and `/proc` are there; processes
come and go in `/proc`, and links are made. There are finitely many `File` objects, and
the name of a program is one word, not a slash (`FileTreeAssumption`). `Directory` knows
only which entries a file has, newest first, and that what is under a deleted file goes
with it; `IsDirectory` maps each chain of pointers to its row.

`Files` adds the processes: each call is a step, for it runs with interrupts
disabled, but the reaping of a process is two (`WaitDelete` and `Deleted`),
because `destroy_process` enables them in between. The table `openfp_[p]` has an
entry more than `CONFIG_MAX_FILE`, which `getFile`, `setFile`, `deleteFile` and the
information call reach (`fd > CONFIG_MAX_FILE`): what lies there nobody has
written. A call that uses a null, deleted or unwritten `File` sets `wild` and two
changes of `/proc` that overlap (one inside a destructor's pause) set `raced`: the model ends there, and both are reachable,
for the code checks neither. Positions count modulo `Width` and only for
directories. What `getdents` gives of an entry is the number of its file, `d_ino`, for
the kernel's `strncpy` blanks `d_name`; numbers are never used twice, and a file stands
for its own. Left out: read and write of devices and of a process's own buffer.

### Ext2, Volumes, Disk

A disk is an array of cells: four bytes, or a record of ext2 and the room it
takes. The code sees only the cells: `SuperBlock`, `DiskInfo`, `InodeAt` find their
way by the arithmetic of the code, and `IdeRead` cuts each read into sectors. What the
cells mean is said in `Volumes`, of single cells and without any of the code's loops:
`BlockOf` is the number of the k-th block of a file, `HoldsFile` says which cell holds
which part of it, `IsListing` what the entries of a directory are. None of this is under
`src/`, so it is modelled from what the code relies on. `VolumesAssumption` says that
each disk has the files its volume says it has, in this format; `MC_Drivers` lays volumes
out on disks by a construction of its own, and TLC evaluates the assumption on them. `FileBlocks` is the loop over
direct, single, double and triple blocks (`UpToZero`, `Single`, `Double`, `Triple`),
`ext2_scan` makes nodes, `Open` and `Scan` read a whole file into memory and
replace the copy made before, `Ext2Read` takes from the copy. Requests for memory are
granted. Integers are modulo `Width`.

### The C library

* `Streams`: `stream` is the `FILE`, `device` what came in and went out, and whether
  calls work; `program` is history (what the program tried to write and was
  told). Characters are numbered, so that loss, repetition and reordering show.
  fseek moves nothing, because the kernel has no handler for lseek's number.
* `UserHeap`: chunks by their headers; `Sbrk` is the program's own call, after which
  a walk may never end (`lost`).
* `Options`: one call of getopt is a step (`getopt`); it goes through `Advanced` (the
  next element, with `MovedBack`, `Permuted`, `exchange`) and `Decoded` (`LongOption`,
  `ShortOption`, `WOption`). `Rewind` is the program that begins again with optind 0
  or 1. `Meaning` says what a command line means, read once from left to right
  without permuting anything. Messages are left out.
* `Sorting`: arrays are functions from 0 on. The loop of a call of `quicksort` is `Round`
  again and again (`Partition`), its two loops afterwards are `Swapped`, and the calls within
  a call are a function of how deep they may nest, which the length of the array bounds.
* `Division`, `Numbers`, `Scanning`, `Texts`: functions, as operators and folds, over words of 4 bits (division) and 8 bits (numbers, cut where the code
  cuts words). Texts are sequences; memories are sequences with zeros in them, so
  that overlapping and unterminated operands can be told apart.
* `Dates`: the three tables of days and their searches, and what the clock's registers
  show. `Calendar`: strftime as a recursion over the format, whose composed directives (`Made`) call it again
  with the room that is left. The texts of numbers are those of the library's own snprintf,
  which pads with blanks and has no limit: what it writes beyond `tmp` ends the model
  (`overrun`). The names of days and months are one character each.
* `TrioStrings`: the functions on static strings are operators over the memories of
  `Texts`. A dynamic string is a variable (`string`) and every function on it an action
  (`AppendText`, `CopyOther`, `Terminate`, ...), in any order, with memory that may run
  out at any of them; `meant` is history: the text that the program has made.
* `TrioPrinting`: `TrioParse` makes a list of parameters of a format and the arguments
  (qualifiers, positions, widths that are arguments, sticky conversions, handlers of
  the user), in the order in which the code numbers them; `TrioFormatProcess` writes
  them to a destination that may be full. The end of the module is the reference: `Standard`
  lays out a number as the C standard has it, and the other definitions ask that
  fields given in the format, by arguments, by a sticky conversion or by a callback
  give the same text, and every destination the same characters. `MAX_PARAMETERS` is 64
  as in the code. Words are of 8 bits and the long ones of 16.
* `Library`: a behaviour is one of a stream, of a heap, of a scan by getopt, of a
  dynamic string, or a call of a function whose arguments are the state `input`. The
  parts share no state.

## 3. What the runs check

| run | result | bounds |
|---|---|---|
| `pages` | pass | 16 bitmap bits of which 5 are free frames, 5 heap pages, 2 pages of kmalloc heap, 1 user page: frames, addresses and the heap all run out, and the free list can have three areas, so that every branch of `page_free` meets every neighbour |
| `heap` | pass | three pages of 8 bytes, header 1, smallest chunk 3, requests of 1, 4 and 9: rests just below and exactly at the smallest chunk, and requests of two pages; step by step: three processes, all of which may be interrupted, five units, blocks of 1 or 2, one held by each: three calls of kfree cut each other, the heap fills, all merges happen. States after kmalloc has run beside another call are not continued (`NotOvertaken`) |
| `heap_interrupts` | violation | two processes, one of which runs with interrupts enabled |
| `processes` | pass | the kernel's process, init and three programs; init waits. Three is the least with two zombies on the list while a third is created, and with a grandparent |
| `spaces` | pass | init and two programs, 19 frames, parents end after their children; frames are reused. A second destruction gives back up to two frames (`MaxStray`); states after one are not continued (`NotStrayed`) |
| `spaces_orphans` | violation | init and three programs, 22 frames, parents may end first |
| `spaces_failed` | violation | as `spaces`, without the last bound |
| `calls` | pass | two `Process` objects used again and again, one of which makes five calls; one link; a table of five entries (an own buffer and one more beside the three of the terminal), of which descriptors 2, 4 and the one past the end are named; positions modulo 4; registers: three processes, all kinds of calls; states that differ only in the arguments are one (`ResultView`: no step that sets a result looks at them) |
| `syscalls_args`, `syscalls_result` | violation | the registers of `calls`, all of the state |
| `drivers` | pass | two readers, two characters, a buffer of 4; a screen of two lines of four columns, tabs of 2, `x_` up to 6 before a tab (`MaxTabs`), so beyond the margin by one tab and more; two partitions, blocks of one and two kilobytes (4 and 8 cells), two descriptors, files of every size where a level of indirect blocks begins or ends (with the larger blocks one of two levels), a hole, a socket, an unused entry, reads within and across sectors |
| `library` | pass | streams with buffers of 2 and up to four characters, two of which come in; a heap that grows to 28 with requests below, at and above the smallest chunk; words of 4 bits divided in all ways; texts of a beginning and three characters in bases 0, 8, 10, 16; all values of 8 bits in 60 formats; arrays of up to six; memories of five; command lines of up to three words, with 3 orderings, optional arguments, abbreviations and `-W`; every day of the years 1970 to 2028 (those of the tables), first and last second; strftime with 1 to 24 bytes of room; texts of up to three characters against patterns of up to four; dynamic strings of up to three; trio's conversions with every subset of flags, widths and precisions of none, one side and the other, all sizes, and up to three positions from 0 to 65, one more than there may be |

Deadlock is not checked where the modelled system may stop: frames and addresses
run out (`pages`), `hlt` (`heap`), all programs have been created and ended
(`processes`, `spaces`), the model ends at the first write behind the buffer
or memory nobody wrote has been believed (`drivers`), calls are used up (`calls`), a
program closes its stream or a function has been called (`library`).

Three runs are of parts that share no state, side by side: `Heap`, `SystemCalls` and
`Drivers` choose a part in the first state, and the other one rests. Each part has the
states it has alone; the actions and the fairness are those of the parts' modules.

Three disagreements described below can be seen with a change of one line of a
configuration: `FreedOnce` in place of `LoadedFreedOnce` in `MC_Processes.cfg`, the
property `ReadsAString` added to `MC_Drivers.cfg`, and `LayoutStaysInRoom` to
`MC_Library.cfg`.

### What holds

* `pages`: frames are never shared (`FrameExclusive`), even after `page_new` went on
  without a frame. The free list stays ordered and merged (`FreeListOrdered`) and
  has exactly the pages that are not mapped (`ListedIffUnmapped`).
* `heap`, whole calls: `Tiling`, `UsedIsHeld` and the refinement `IsAllocator`, through growth and
  every failure of `ksbrk`.
* `heap`, step by step: as long as kmalloc does not run beside another call, a walk meets the
  blocks handed out, one for one, and ends at the end of the heap (`WalkIsSound`),
  although calls of kfree cut each other between the test of a neighbour and the merge
  with it, and merged headers stay in memory.
* `processes`: the list holds exactly the processes that are alive
  (`ListIsComplete`) although it is walked with interrupts enabled; neither
  `pcurrent`, nor a parent pointer, nor a reaper's pointer dangles
  (`NoDanglingPointer`); what runs has its memory (`RunningHasMemory`); every exit
  of a program leaves a signal or is ahead of the walk (`ExitIsNoticed`); loaded
  programs are freed once (`LoadedFreedOnce`); every runnable process gets the
  processor (`RunnableRuns`) and a signalled wait returns (`WaitReturns`).
* `spaces`: as long as parents outlive their children, no frame serves two
  processes (`IsolationHolds`) and the frames marked are exactly those that are owned:
  none in use is free, none is lost (`MarkedIsOwned`); none is on two lists
  (`ListedOnce`). All three hold while programs fail to load, until one of those is
  reaped.
* `calls`, registers: whatever overlaps, no call returns another's result, and one that has a
  result and does not wait returns its own (`ResultsAreOwn`).
* `drivers`, the terminal: the buffer is the edited line (`LineAsEdited`), a read ends only by a
  key that came while it waited (`WokenByKey`) and returns (`ReadReturns`); the
  screen is a sheet of paper (`IsPaper`).
* `calls`, files: the pointers implement a directory (`IsDirectory`), every file is found
  by its path and only that one (`EveryFileIsFound`), a listing from which nothing
  is deleted meanwhile returns all that was there at its start
  (`ListingMissesNone`), and a child's own buffer is its descriptor 3 exactly when
  its parent's first three are open (`OwnBufferIsThird`).
* `drivers`, the disk: what is read is what was stored, up to the first hole
  (`ReadsWhatIsStored`), and a directory lists its entries (`ListsTheDirectory`).
* `library`: what a stream was told is written arrives once and in order
  (`OutputInOrder`), what comes in is read in order (`InputInOrder`), blocks are
  apart (`BlocksApart`), and the functions do what the standard says
  (`DivisionIsRight`, `NumbersAreRead`, `PrintedAsAsked`, `SortedAndFound`,
  `TextsAreRight`, `DatesAreRight`; the second, third and fifth have trio's part in
  them, the third strftime as well), each but for the exceptions its comment names; getopt returns
  the options of the command line in their order, then the arguments in theirs,
  and what it permutes means the same when it is read again (`OptionsInOrder`).

### Where the code does not do what it says

Five are runs with a counterexample and findings in `PROJECT.json`:

* `heap_interrupts`: `Process::read` and `Process::wait` enable interrupts and
  reach `kmalloc` and `kfree`; the same chunk is handed out twice (`BlocksDisjoint`).
* `spaces_failed`: `execv` of a file that is not an executable leaves a zombie whose page
  directory has already been destroyed; the next `wait` destroys it again, and frames of
  running processes are given to others (`Isolation`).
* `syscalls_args`: a call that the timer cuts between `setParam` and the `cli` works on
  the arguments of another process's call (`ArgsAreOwn`).
* `spaces_orphans`: a process that ends before its child takes the child's code
  pages with it (`IsolationHolds`).
* `syscalls_result`: a call that waits (a read of the console) writes its result
  into an interrupt's frame; the program sees the number of the call.

Three are shown by the changes of configurations named above:

* What a failed `execv` leaves is destroyed twice (`FreedOnce`), as in `spaces_failed`.
* The kernel's `strncpy` fills the destination with zeroes from its beginning after
  the copy (`runtime/string.cc:24`), so a console read always gives the empty
  string and 0.
* The library's snprintf has no limit (`support_pf.c:228`), so strftime writes a number
  that does not fit beyond its own `tmp` (`LayoutStaysInRoom`), although `strftime.c:44`
  reserves space for the end of the text. What a room that is large enough gets is
  right (`FormatsRight`, in `PrintedAsAsked`).

Seen while modelling:

* Kernel: the stray mark of `pd0_add_page`; "System halted" without a halt
  (`vmm.cc:44`); a second process in `wait` that destroys the same zombie (with `Waiters = {2, 3}`
  TLC finds `LoadedFreedOnce` violated); code pages that `destroy_process` leaves on
  the parent's list; a long line written over `keypos_`; a second reader whose
  `inlock_ = 1` hides a line from the first; a backspace rubs out the cell under the
  cursor; `print`'s `%s` interprets what it prints as a format (`io.cc:231`); a
  console that is not shown never scrolls, for `scrollup` compares with an address
  of the video memory, and its `clear` clears the one that is shown.
* Files: `open` of a path that is not there uses a null `File` (`api_posix.cc:18`); two
  files of one name in `/proc`; `getdents` returns entries without a name, for
  `strncpy` blanks it (`api_posix.cc:215`); `path_parent` returns what it last met when a word is
  missing (`filesystem.cc:123-131`); the position grows by the error code of a failed
  read (`api_posix.cc:65`).
* ext2: a hole ends the walk (`ext2.cc:171`); a socket or block device passes for a
  directory (line 147); unused entries appear as files (line 254), and one whose name is
  that of a file listed further on hides it (line 255); opening twice
  leaks the first copy (line 44); a position beyond the end underflows (line 52).
* Streams: `_start` opens all three streams with `fdopen(0, "rw")`, which makes the
  output stream write-only on descriptor 0 (`libc/start.c:22`); freopen keeps the
  characters given back; a flush clears `_IO_BUFSIZE` bytes of a smaller buffer
  (`fflush.c:26`); output pending when a failing stream turns is lost
  (`stdio_internal.c:14`); fseek succeeds, discards and moves nothing.
* Heap: calloc neither zeroes nor checks (`malloc.c:130`); the program's own sbrk
  makes malloc walk for ever.
* Text and numbers: the least int is printed as "-" (`support_supcon.c:121`); a
  precision puts its zeros before the sign (`support_pf.c:81`); vsnprintf ignores its
  size (`support_pf.c:228`); a 0 in front of a width is a digit of it, so that strftime
  pads with blanks (`support_pf.c:389`); sprintf prints a literal "l" on the screen
  (`support_pf.c:317`); scanf and fscanf read into a pointer nobody set
  (`sscanf.c:338`, `351`); sscanf takes `%s` for four characters, ignores the width of a
  number, and stores 0 for a negative `%zd` and stays there (line 298); the calendar
  takes 1970 for a leap year (`time_int.c:16`) and never matches December (line 56).
* getopt: a sign that orders the scan is an option letter from the second call on;
  an ambiguous `-W` takes an argument too many (`getopt.c:785`).

### Fairness

* `Processes`: `WF(Tick)`: the timer never stops. `SF(WaitStep(q))` for the
  processes in `wait`: a process that is given the processor again and again gets
  some instruction of its kernel code done before the next tick. Nothing is
  assumed of programs: they need not exit, call `wait`, or do anything.
* `Console` (and `Io` and `Drivers`, whose fairness is the same steps): `WF(Key(NEWLINE))`: somebody
  presses Enter again and again. Weak fairness of each reader's kernel steps: the
  scheduler brings it back (`RunnableRuns` of `Processes`). `ReadReturns` asks that
  other readers stop in the end, because the code lets a reader that goes on
  reading hide every line from the others.
* The other modules state safety only: their steps are calls, which nothing obliges
  a program to make, and the calls themselves are atomic.

## 4. What is proved

With the proof system, from the named assumptions on the constants and the
hypotheses named below, thus for every size of memory, heap, header and request and
every number of processes.

* **KernelPages**: `FrameExclusiveAlways`, `MappedFrameUsedAlways`, `TypeCorrect`,
  `FreeListOrderedAlways`, `ListedIffUnmappedAlways`. Neither of the first two is
  inductive alone: that `page_frame_aquire` returns a frame no page has needs
  "marked", and that `page_free` clears nobody else's mark needs "exclusive". The
  invariant `FramesInv` has both, as a predicate `Sound` of a bitmap and a map, so
  that the lemmas `AquireSound`, `ReleaseSound` and `KmallocSound` can be chained
  inside one step (page_new takes a frame, then kmalloc takes another).
  `TypeCorrect` also needs that no word read past the end of the list looks like
  the end of a page (`PlaceOfNext`). The last two are one invariant, `ListInv`: that
  an insertion keeps the order needs that the page is on no area (listed implies
  unmapped), and that it goes to the right place needs the order.
* **KernelHeap**: `HeldDisjointAlways`, `HeldInChunkAlways`, `TypeCorrect`,
  `HeapImplementsAllocator`, `TilingAlways`, `UsedIsHeldAlways`. That blocks are
  disjoint is not inductive: it follows from the chunks being disjoint (`Shaped`)
  and each block having a used chunk of its own (`OwnedIn`), which is `HeapInv`. One
  lemma per way a call can go (`FitHeap`, `GrowHeap`, `FreeHeap`) shows that the step
  preserves `HeapInv` and is a step of `Allocator`. `WalkInv` adds that every chunk
  ends where another begins or at `top` (`Linked`), and that every used one is held
  (`Claimed`).
* **AddressSpaces**: `ListedOnceAlways` from `ShapeInv` and `OwnInv`: each marked frame
  has exactly one owner, for `page_frame_aquire` returns only unmarked ones, all
  different (`TakeSound`), and all that is listed is marked. All three say what holds until a program
  that failed to load is reaped (`Strayed`): what that gives back is anybody's, and nothing is
  left to be shown; the failing loads before it, and what they leave on the parents'
  lists, are in the theorems. `IsolationAlways` and `MarkedIsOwnedAlways` assume
  `~OrphansAllowed`, as the run does: `MapInv` says that what a page directory maps is
  on its own list or on its parent's, who is still alive.
* **Syscalls**: `ResultsAreOwnAlways`. `CallsInv` adds `PointerIsOwn`: when `stack_ptr`
  points to a call's frame it is the frame of the process that runs, and `WaitingWaits`: who
  waits has not made a quick call.
* **Files**: `FilesAreAlwaysFound`, `ListingsMissNone`, `OwnBufferIsTheThird` and the
  refinement `TreeIsDirectory` (`IsDirectory`), from `FilesInv`. `Children`, `find`, `Above` and
  `PathOf` are defined by recursion along pointers, which define something only if the
  pointers do not go round. `TreeInv` therefore says that *some* rows exist, one per file and
  newest first, which the four pointers spell out (`Rows`), and *some* ages, such that
  parents and next siblings are older (`Ages`). `PointerRecursion` shows that what is
  defined along pointers to older things exists, and by induction along a row
  `ChildrenAre`, `FindIs` and `AboveIs` say what the definitions mean. `AddTree` and `UnlinkTree`
  are what File::add and the destructor do to the rows, all pointers included;
  `AddEnters` and `UnlinkLeaves` conclude that the abstract directory makes the same step.
  (The abstract `Under` counts as many steps as there are files, and `Saturates` shows that
  these are enough.) A path leads to its file by induction on the age of the file, whose
  parent is older: a directory is one of three that stay where they are (`FixedInv`), and
  nothing else in the root has their names (`NamesInv`), because `path_parent` stops at a
  word only if it is missing (`MissingWord`) and processes go to `/proc` (`ProcIsFound`). A
  listing misses none because what the reader has not got yet is behind its position
  (`Ahead`): a new file moves it one place further back. Of processes and links only that
  there are finitely many is assumed, of a table only that it has more than three entries.
* **Console**: `WokenByKeyAlways`, `LockedByWaiterAlways`, `LineAsEditedAlways`.
  `WaitInv` adds `UnservedLocked`: `inlock_` stays set for a reader that no key has come
  for. These are theorems of `Console`'s own specification; the run checks the same
  properties in its composition `Io`.
* **Screen**: `ScreenIsPaper`, the refinement `IsPaper`, of `IoSpec` as in the run. The
  invariant is only what a screen is (`ScreenInv`: the cursor is on a line, perhaps to
  the right of it); the work is in the mapping. A place of the video memory is one line
  and one column (`PlaceIsOne`, `PlacesAre`), and one beyond the right margin is
  `x_ / COLUMNS` lines further down (`Wrapped`), so that a cell written at the cursor is
  a character put on the sheet, or on neither (`PutIs`); the scroll by one line drops
  the first row and appends a blank one (`FedIs`). `CharacterIs` has the five branches
  of `putc`, and `TextIs` concludes by induction along a text. What is assumed is
  that the sizes are positive and that texts are sequences.
* **Processes**: `ListIsCompleteAlways`, `NoDanglingPointerAlways`,
  `RunningHasMemoryAlways`, `ExitIsNoticedAlways`, `LoadedFreedOnceAlways`, from
  `LifeInv`. The list is given by links, and the properties speak of what a walk along
  them meets (`From`), which is a recursive function; nothing can be said of it step by
  step. But a new process is put in front of the list and has the greatest pid so far,
  and nothing else is ever put on it, so the list *descends*: each link leads to the
  greatest living pid below (`ChainInv`). `FromHops` and `FromIsBelow` conclude, by
  induction, that what a walk meets from q on is every living process up to q; from
  there on the proof has only inequalities. A reaper that stands at p with the next
  place pn in its hands is right as long as pn is the greatest living pid below p
  (`WalkInv`), whatever is put in front meanwhile; and an exit is noticed if the
  signal is pending or the zombie is no greater than where the reaper stands
  (`NoticedInv`). That a parent pointer does not dangle needs that parents are older
  than their children (`ParentInv`), and that what runs has memory needs that
  only those who spin run as zombies (`CurrentInv`). The hypothesis is `OneWaiter`: at most one
  process ever waits, as in the boot image, where only init does. Without it the
  theorems are false: two reapers destroy one zombie (section 3).
* **HeapRace**: `WalkIsSoundAlways`, from `RaceInv`, for calls that are interrupted
  anywhere. Memory is full of stale headers, so that no invariant can speak of all of them:
  it says that, unless kmalloc has run beside another call, *some* set M of addresses are
  the true starts, where each chunk ends where the next one begins (`Chain`), that the used
  ones are the blocks handed out, one for one (`Owned`), and that a call of kmalloc, which is
  alone, stands at one of M, where its tests still hold (`Searching`). Of a call of kfree
  it cannot say that: another one may have merged its chunk away. But the chunk is free and no
  other call's, hence still what the call found behind it (`Freeing`), and no header says
  more than there is (`Within`). A cut adds an address to M (`CutRace`), a
  merge takes one out if it is of a chunk that M still has, and changes only a stale
  header if not (`AddRace`); the other steps keep M. `MetIsChain` shows by induction
  that a walk from the first header meets M and nothing else. `BlocksDisjoint` is not
  proved: it is false (`heap_interrupts`).
* **UserHeap**: `BlocksApartAlways`, of the heap's own specification `HeapSpec`, whose steps
  are the heap's steps of `Library`. `UserHeapInv` says that the chunks are disjoint and
  that each block has a used chunk of its own; `MallocGood` and `FreeGood` are lemmas about
  the operators `malloc` and `free` on any such heap, so that realloc, which is one after the
  other, is both of them. That a block fits its chunk is the arithmetic of
  `RealSize` (`RoundedUp`), that `free` merges over unused chunks only is that it stops at
  the least start of a used one (`LeastOfIs`).

* **Streams**: `OutputInOrderAlways`, `InputInOrderAlways`, of the streams' own specification
  `Spec`, whose steps are the streams' steps of `Library`. Neither property is inductive:
  a stream that reads has its position and its end in the same two fields that one
  that writes has, so the invariant `StreamsInv` first says which buffers can be
  (`Sound`: input ends within the buffer, output starts at its beginning, none without
  buffering). With that, each function of stdio is a lemma about two sequences, whatever
  the state it is called in: `Out`, what was written followed by what waits, and `Inp`,
  the character given back, the rest of the buffer and what waits on the device.
  `fputc` appends to `Out` or fails (`PutRight`), `fgetc` takes the first of `Inp`
  (`GetRight`), `fflush` moves what waits and keeps `Out`; turning from writing to reading
  keeps both unless something waits that cannot be written (`TurnRight`). `fwrite` and
  `fread` are loops over these, hence by induction (`PutsRight`, `ReadsRight`). The
  actions only add what the program was told: characters are numbers that grow
  (`OutRight`), and what was read followed by `Inp` is what came in (`InRight`). The
  invariant holds without the hypothesis that no memory was overwritten
  (`~program.smashed`), which the properties have.
* **Division**: `EveryDivisionIsRight`, that `DividesRight`, which the run checks of words of
  4 bits (`DivisionIsRight`), holds of every two numbers of two words of any number of
  bits. Moved left until it has its leading bit (`LeadingIs`, `PowSplit`), the divisor is
  at least half of what two words hold, so that its first word gives a quotient that is at
  most one too large: the product exceeds what it is subtracted from by no more than
  the divisor (`EstimateIs`). One correction puts quotient and remainder right
  (`CorrectedIs`, `TwoWordsAre`), and the remainder moved back loses no bit (`MovedBack`).
  Where the instruction is used its quotient fits a word (`InstructionIs`). Signs are put
  on afterwards (`SignIs`, `SignedAre`): only the least number divided by -1 wraps. The
  nonlinear arithmetic is hidden behind `Cut`, what a quotient and a remainder are.
  `DivisionIsRightAlways` says it of the calls: `DivisionIsRight` is an invariant of
  `CallsSpec`.
* **Sorting**: `EveryArrayIsSorted`, for arrays of every length, with whatever keys are
  equal. The first part is one call of quicksort. The invariant of its loop has
  the elements up to p and from q on equal to the pivot, those up to i not larger, those
  from j on not smaller, and the array a rearrangement of the one given (`Rearranges`: a
  permutation that moves nothing outside l .. r). It must also say that j stays
  above l while i and j have not met, since the code tests `j == l` only after comparing: this is what keeps
  the scan to the left inside the array (`RoundIsRight`). Each round brings i and j nearer, so
  that r - l + 1 rounds end the loop (`RoundNears`, `PartitionIs`). Moving the equal elements inwards
  exchanges each with an element from the other side, or with itself where the two
  ranges overlap (`SwappedIs`, `EqualsToTheEnd`, `EqualsToTheStart`), and leaves the smaller, the equal
  and the larger ones in three rows (`MovedInIs`). The second part is the calls within
  a call. Both are on shorter ranges, so that r - l of them nest at most (`CallIsRight`,
  `QuicksortIs`, by induction on how many may nest), and rearranging a row keeps
  the bounds its elements had towards the others (`MovedAtMost`, `JoinedInOrder`). Then
  `BsearchIs`: in an ordered array what bsearch has cut away never holds the key, and
  each step halves what is left. `SortedAndFoundAlways` says it of the calls: `SortedAndFound`
  is an invariant of `CallsSpec`, under `ArgumentsAssumption`, which only says that
  an array has its elements from 0 on and each of them a key. As the run's, the theorem's
  comparison is by difference of integers, a total order, as the C standard asks of `compar`.
* **Dates**: `EveryDateAgrees`, that `DatesAgree`, which the run checks of two seconds of each
  day (`DatesAreRight`), holds of every second of the years 1970 to 2028. The entries
  of the tables are given by formulas: year i begins on day 365 i + (i + 3) div 4
  (`SumsAre`), a month where `MonthsAre` says, a day later from March on in leap years. The searches
  stop at the first entry that is larger, so that what they find is the last year or
  month that begins before the day (`YearIsFound`, `MonthIsFound`), and the time of day
  is taken off in front (`TimeIs`, `MomentIsTakenApart`). `daysdiff` counts the
  leap years itself, (i + 1) div 4 of them among the first i (`LeapsAre`, by induction), which puts
  it a day beside the table in two years of four (`DaysAre`).
  A number below 100 survives the form that the clock's registers show it in (`ShownIsRead`,
  `ClockIsRead`). `DatesAreRightAlways` says it of the calls: `DatesAreRight` is an invariant
  of `CallsSpec`. The years are bounded by the code: its table has 60 entries, and its last year
  has no end in it.
* **Ext2**: `FilesAreRead`, `DirectoriesAreListed`. They hold of every disk that
  `VolumesAssumption` holds of, thus for every size of sectors, blocks, inodes, groups and
  files, any number of partitions and descriptors, and reads of all sizes. From the bottom
  up: the window of sectors that `Ide::read` takes has the cells asked for where
  they are expected (`IdeReadsTheWindow`, `PartitionReadsItsCells`); mounting finds the size
  of a block and the table of each group, although it rounds the number of groups in
  two ways and takes the larger (`RoundedHolds`, `MountKnowsTheDisk`); an inode is read
  from its group (`InodeIsRead`), and that of the number 0 from none (`NoInodeIsJunk`).
  What the code makes of the numbers of a file's blocks is said by `Follows(s, f, n)`: s
  lists f from 0 on up to its first zero, or to n, and nothing else. One level of
  indirection is a walk that stops (`SingleFollows`), two are such lists put together, where a hole
  in one must not let the next begin too early (`FlattenFollows`, `DoubleFollows`,
  `TripleFollows`), and the four parts are joined where one level ends and the next
  begins (`FollowsConcat`). So the walk meets the blocks that `BlockOf` gives
  (`FileBlocksFollow`), and the copy of a file is right up to its first hole
  (`FileIsCopied`). The entries are found by steps of `rec_len` from 0 to the size
  (`EntriesAreFound`); entering them one by one keeps what the nodes are (`NodesRight`) and
  leaves a node for each entry in use (`ScanShowsTheDirectory`).
  `DiskReadsRight` concludes, of the state, that everything the code reads of a mounted
  volume is right (`ReadsRight`); from there on the inductive invariant `Ext2Inv` speaks of
  volumes only. It says that what is installed and mounted is what the disk says, that
  each node stands for an entry of the directory above it, each name once
  (needed because a scan adds only names that are not there yet), that scanned
  directories are complete, that the copy of an open file is right (whoever opens it again
  replaces the copy), and that a descriptor has read as far as its position.
  The assumptions are the format: offsets do not wrap (the disk is below 2 GB), names
  are in use once, and three things that the code does wrong otherwise (section 3):
  an entry that is not in use has no name that is, a socket or a block device is empty,
  and memory taken for the inode of an unused entry has size 0.

The proofs above need induction in many places. The library's theorem of
induction takes an operator as a parameter, which the provers cannot instantiate;
`Induction` derives from well-foundedness of the numbers the form with a *set* in place
of the property (`LeastElement`, `SetInduction`, `RangeInduction`), which they can,
and with it that a function defined step by step is what its definition says
(`StepwiseExists`, and for the iteration of a function `IteratesExist`).

Each inductive invariant was checked as an invariant of a run before it was proved.

Only model-checked: the functions of the C library except division, qsort,
bsearch and those on dates (`NumbersAreRead`, `PrintedAsAsked` with strftime, `TextsAreRight`), and getopt
(`OptionsInOrder`). They are written as recursive operators and folds over texts, patterns and
tables, which is what the code's loops are; what such a definition computes for every input is
an induction over data, out of the prover's reach, as are the liveness properties
(`RunnableRuns`, `WaitReturns`, `ReadReturns`).

## 5. What is not modelled

* Contents of pages, registers, the context switch, the switch to paging, the
  port protocols of keyboard and disk, boot.
* `Vmm::kmap`, `mmap` of devices, `page_directory_copy` (no reachable code calls
  it), the contents of page tables (`vmm.cc:345`).
* Shift state, colours, a second console and `switchtty`.
* Read and write of devices and of a process's own buffer. The buffer gives back
  the bytes added last, and not atomically; nothing in the repository says what
  a reader should get, so there is nothing to check it against.
* The ioctls, `stat`, system, users and environment: lookups and copies.
* Of the C library: floating point, getcwd, directories,
  freopen, fgets and fputs, random numbers, wrappers of one system call.
* trio (`libc/trio`, 11 000 lines, a third of the repository's code) is commented out
  of the Makefile (line 255) and called by no other file, so that what holds of it
  holds of no program of the repository until it is put back; the library's own printf
  and sscanf are modelled beside it. Left out of it: floating point (with
  `trionan.c`), scanning, `print_ref`, the locale of the system and its decimal point,
  wide characters of more than one byte.
* Mathematics: floating point in assembly has no state. Together with headers and
  tables this is most of the lines that no module stands for.

## 6. What comes next

1. The inter-process buffer as a channel, once its order is settled.
2. A second console with `switchtty`, and the keyboard redirected to it.
3. Theorems about `Options` and `Texts`, with their recursive operators written as functions
   defined step by step, as those of `Sorting` are.

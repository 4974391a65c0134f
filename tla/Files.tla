------------------------------- MODULE Files --------------------------------
(***************************************************************************)
(* Processes at work on the tree of files: descriptors, the current        *)
(* directory and the system calls on them (src/kernel/core/process.cc,     *)
(* core/api_posix.cc, core/elf_loader.cc), over the tree of FileTree.      *)
(*                                                                         *)
(* A system call runs with interrupts disabled and is one step.  wait is   *)
(* not: destroy_process enables them, so the destructor of a process runs  *)
(* while other processes may make calls, and is two steps.                 *)
(*                                                                         *)
(* The position of a descriptor counts for directories only: no driver     *)
(* and no buffer of a process looks at it.                                 *)
(***************************************************************************)
EXTENDS FileTree

CONSTANTS
    Callers,    \* the processes whose programs make file calls
    MaxFile,    \* CONFIG_MAX_FILE
    MaxCalls,   \* bound on the file calls made in a behaviour
    Width,      \* the positions are modulo this, 2^32 in the code
    FdArgs,     \* the descriptors the programs name
    OpenPaths, LinkPaths, LinkTargets, CwdPaths

UNSET == "unset"    \* memory that nobody has written

ASSUME FilesAssumption ==
    /\ Callers \subseteq Procs
    /\ MaxCalls \in Nat
    /\ MaxFile \in Nat /\ MaxFile > 3
    /\ FdArgs \subseteq Nat
    /\ Width \in Nat \ {0}
    /\ UNSET \notin Ptr
    /\ LinkPaths \subseteq Seq(STRING)

VARIABLES
    state_,     \* state_[p] = "none", "run" or "zombie"
    openfp_,    \* openfp_[p][fd], and in [MaxFile] the field after the table
    cwd_,       \* the current directories
    calls,      \* how many file calls have been made
    listing,    \* history: the directory one process is reading, see Idle
    raced,      \* two changes of /proc overlapped: nothing is known after
    wild        \* a null, dead or unset File was used: likewise

vars == <<tree, state_, openfp_, cwd_, calls, listing, raced, wild>>

Fd     == 0 .. MaxFile - 1
Closed == [fp |-> NULL, ptr |-> 0]
At0(f) == [fp |-> f, ptr |-> 0]
Tables == [0 .. MaxFile -> [fp : Ptr \cup {UNSET}, ptr : 0 .. Width - 1]]

Empty == [fd \in 0 .. MaxFile |-> IF fd = MaxFile THEN At0(UNSET) ELSE Closed]

(* A directory being read: who reads it where, what it held at the start,  *)
(* what was returned, whether something was deleted from it meanwhile, and *)
(* whether the end has been reported.                                      *)
Idle == [reader |-> NULL, fd |-> 0, dir |-> NULL, held |-> {}, got |-> {},
         shrunk |-> FALSE, ended |-> FALSE]

Running(p) == ~wild /\ ~raced /\ state_[p] = "run"

Calls(p) ==
    /\ Running(p) /\ p \in Callers
    /\ calls < MaxCalls
    /\ calls' = calls + 1

-----------------------------------------------------------------------------
(* The table of descriptors *)

(* addFile: the first free entry; with none, or without a file, nothing    *)
(* is done and what is returned is undefined.                              *)
addFile(t, f) ==
    LET free == {fd \in Fd : t[fd].fp = NULL}
    IN  IF f = NULL \/ free = {} THEN t
        ELSE [t EXCEPT ![CHOOSE fd \in free : \A e \in free : fd <= e] = At0(f)]

(* getFile lets MaxFile through, where the table has no entry: what lies   *)
(* there is the beginning of ppinfo.                                       *)
getFile(t, fd) == IF fd > MaxFile THEN NULL ELSE t[fd].fp

setFile(t, fd, f) == IF fd > MaxFile THEN t ELSE [t EXCEPT ![fd] = At0(f)]

deleteFile(t, fd) == IF fd > MaxFile THEN t ELSE [t EXCEPT ![fd] = Closed]

(* The table that create gives to a process q of p's.                      *)
create_OwnFirst(p, q) ==
    LET own == addFile(Empty, q)
    IN  [fd \in 0 .. MaxFile |-> IF fd < 3 THEN openfp_[p][fd] ELSE own[fd]]

create(p, q) ==
    addFile([fd \in 0 .. MaxFile |-> IF fd < 3 THEN openfp_[p][fd] ELSE Empty[fd]], q)

-----------------------------------------------------------------------------

(* The first process has the kernel's three descriptors of /dev/tty and    *)
(* its own buffer.                                                         *)
InitTable == addFile(addFile(addFile(addFile(Empty, TTY), TTY), TTY), FirstProc)

Init ==
    /\ TreeInit
    /\ state_ = [p \in Procs |-> IF p = FirstProc THEN "run" ELSE "none"]
    /\ openfp_ = [p \in Procs |-> IF p = FirstProc THEN InitTable ELSE Empty]
    /\ cwd_ = [p \in Procs |-> ROOT]
    /\ calls = 0
    /\ listing = Idle
    /\ raced = FALSE
    /\ wild = FALSE

(* execv: new Process adds itself to /proc, then create fills its table.   *)
(* A program that cannot be loaded leaves a zombie.                        *)
Execv(p) ==
    /\ Running(p)
    /\ \E q \in Procs \ alive, n \in ProcNames, s \in {"run", "zombie"} :
         /\ Add(q, n, path(cwd_[p], <<SLASH, PROC, SLASH>>))
         /\ state_' = [state_ EXCEPT ![q] = s]
         /\ openfp_' = [openfp_ EXCEPT ![q] = create(p, q)]
         /\ cwd_' = [cwd_ EXCEPT ![q] = cwd_[p]]
    /\ raced' = (dying # NULL)
    /\ UNCHANGED <<link, dying, calls, listing, wild>>

(* The program of the first process does not return.                      *)
Exit(p) ==
    /\ Running(p) /\ p # FirstProc
    /\ state_' = [state_ EXCEPT ![p] = "zombie"]
    /\ UNCHANGED <<tree, openfp_, cwd_, calls, listing, raced, wild>>

(* wait: destroy_all_zombie deletes any zombie, whoever its parent is.     *)
WaitDelete(p) ==
    /\ Running(p)
    /\ \E z \in Procs :
         /\ state_[z] = "zombie"
         /\ dying' = z
    /\ raced' = (dying # NULL)
    /\ UNCHANGED <<alive, name, parent, child, next, prev, link,
                   state_, openfp_, cwd_, calls, listing, wild>>

(* The end of a destructor: the file leaves the tree and is freed.         *)
Deleted ==
    /\ dying # NULL /\ ~raced /\ ~wild
    /\ Unlink(dying)
    /\ dying' = NULL
    /\ state_' = [state_ EXCEPT ![dying] = "none"]
    /\ openfp_' = [openfp_ EXCEPT ![dying] = Empty]
    /\ cwd_' = [cwd_ EXCEPT ![dying] = ROOT]
    /\ listing' = IF listing.reader = dying THEN Idle
                  ELSE [listing EXCEPT !.shrunk = @ \/ parent[dying] = listing.dir]
    /\ UNCHANGED <<calls, raced, wild>>

-----------------------------------------------------------------------------
(* The calls *)

GoWild ==
    /\ wild' = TRUE
    /\ UNCHANGED <<tree, state_, openfp_, cwd_, listing, raced>>

(* call_open opens what path returns without looking at it.                *)
Open(p) ==
    /\ Calls(p)
    /\ \E pn \in OpenPaths :
         LET fp == path(cwd_[p], pn) IN
         IF fp \notin alive THEN GoWild
         ELSE LET t == addFile(openfp_[p], fp) IN
              /\ openfp_' = [openfp_ EXCEPT ![p] = t]
              /\ listing' = IF listing = Idle /\ type(fp) = "directory" /\ t # openfp_[p]
                            THEN [Idle EXCEPT !.reader = p,
                                              !.fd = CHOOSE fd \in Fd : t[fd] # openfp_[p][fd],
                                              !.dir = fp,
                                              !.held = {f \in alive : parent[f] = fp}]
                            ELSE listing
              /\ UNCHANGED <<tree, state_, cwd_, raced, wild>>

(* A call on a descriptor that is not open returns at once, and one whose  *)
(* file is gone, or was never set, uses whatever is there.                 *)
OnFile(p, fd) == getFile(openfp_[p], fd) # NULL

StaleFile(p) ==
    /\ Calls(p)
    /\ \E fd \in FdArgs : OnFile(p, fd) /\ getFile(openfp_[p], fd) \notin alive
    /\ GoWild

Reads(p, fd) == listing.reader = p /\ listing.fd = fd

Close(p) ==
    /\ Calls(p)
    /\ \E fd \in FdArgs :
         /\ OnFile(p, fd)
         /\ getFile(openfp_[p], fd) \in alive
         /\ openfp_' = [openfp_ EXCEPT ![p] = deleteFile(@, fd)]
         /\ listing' = IF Reads(p, fd) THEN Idle ELSE listing
    /\ UNCHANGED <<tree, state_, cwd_, raced, wild>>

(* call_read and call_write of a file that has no operation of its own:    *)
(* the -1 that says so is added to the position.                           *)
NOT_DEFINED == -1

ReadWrite(p) ==
    /\ Calls(p)
    /\ \E fd \in FdArgs :
         /\ OnFile(p, fd)
         /\ getFile(openfp_[p], fd) \in alive
         /\ type(getFile(openfp_[p], fd)) \in {"directory", "link"}
         /\ openfp_' = [openfp_ EXCEPT ![p][fd].ptr = (@ + NOT_DEFINED) % Width]
         /\ listing' = IF Reads(p, fd) THEN Idle ELSE listing
    /\ UNCHANGED <<tree, state_, cwd_, raced, wild>>

(* call_getdents reads the descriptor's position after it has moved it.    *)
Getdents_Early(p) ==
    /\ Calls(p)
    /\ \E fd \in FdArgs :
         /\ OnFile(p, fd)
         /\ getFile(openfp_[p], fd) \in alive
         /\ LET info == openfp_[p][fd]
                kids == Children(info.fp)
            IN  IF info.ptr + 1 < Len(kids)
                  THEN /\ openfp_' = [openfp_ EXCEPT ![p][fd].ptr = (@ + 1) % Width]
                       /\ listing' = IF Reads(p, fd)
                            THEN [listing EXCEPT !.got = @ \cup {kids[info.ptr + 2]}]
                            ELSE listing
                  ELSE /\ UNCHANGED openfp_
                       /\ listing' = IF Reads(p, fd)
                            THEN [listing EXCEPT !.ended = TRUE] ELSE listing
    /\ UNCHANGED <<tree, state_, cwd_, raced, wild>>

(* call_getdents returns the child number ptr, counted from the newest.    *)
(* What the caller gets of it is d_ino, the number that no other File has  *)
(* (inode_), and stands here for the File: strncpy has blanked d_name      *)
(* (runtime/string.cc:24).                                                 *)
Getdents(p) ==
    /\ Calls(p)
    /\ \E fd \in FdArgs :
         /\ OnFile(p, fd)
         /\ getFile(openfp_[p], fd) \in alive
         /\ LET info == openfp_[p][fd]
                kids == Children(info.fp)
            IN  IF info.ptr < Len(kids)
                  THEN /\ openfp_' = [openfp_ EXCEPT ![p][fd].ptr = (@ + 1) % Width]
                       /\ listing' = IF Reads(p, fd)
                            THEN [listing EXCEPT !.got = @ \cup {kids[info.ptr + 1]}]
                            ELSE listing
                  ELSE /\ UNCHANGED openfp_
                       /\ listing' = IF Reads(p, fd)
                            THEN [listing EXCEPT !.ended = TRUE] ELSE listing
    /\ UNCHANGED <<tree, state_, cwd_, raced, wild>>

Dup2(p) ==
    /\ Calls(p)
    /\ \E old, new \in FdArgs :
         /\ openfp_' = [openfp_ EXCEPT ![p] = setFile(@, new, getFile(@, old))]
         /\ listing' = IF Reads(p, new) THEN Idle ELSE listing
    /\ UNCHANGED <<tree, state_, cwd_, raced, wild>>

Chdir(p) ==
    /\ Calls(p)
    /\ \E pn \in CwdPaths :
         LET f == path(cwd_[p], pn) IN
         IF f = NOWHERE THEN GoWild
         ELSE /\ f # NULL
              /\ cwd_' = [cwd_ EXCEPT ![p] = f]
              /\ UNCHANGED <<tree, state_, openfp_, listing, raced, wild>>

(* API_PROC_GET_INFO of a process file: reset_pinfo blanks the name in its *)
(* ppinfo, and with it the entry past the end of its table.                *)
GetInfo(p) ==
    /\ Calls(p)
    /\ \E fd \in FdArgs :
         /\ OnFile(p, fd)
         /\ getFile(openfp_[p], fd) \in alive \cap Procs
         /\ openfp_' = [openfp_ EXCEPT ![getFile(openfp_[p], fd)][MaxFile] = Closed]
    /\ UNCHANGED <<tree, state_, cwd_, listing, raced, wild>>

(* Filesystem::link does not look at the directory path_parent returns.    *)
Symlink(p) ==
    /\ Calls(p)
    /\ \E target \in LinkTargets, pn \in LinkPaths, l \in Links \ alive :
         LET tolink == path(cwd_[p], target)
             par    == path_parent(pn)
         IN  /\ tolink # NULL
             /\ IF tolink = NOWHERE \/ par.at \notin alive THEN GoWild
                ELSE /\ Add(l, par.fname, par.at)
                     /\ link' = [link EXCEPT ![l] = tolink]
                     /\ raced' = (dying # NULL /\ par.at = PROC)
                     /\ UNCHANGED <<dying, state_, openfp_, cwd_, listing, wild>>

Next ==
    \/ \E p \in Procs :
         \/ Execv(p) \/ Exit(p) \/ WaitDelete(p)
         \/ Open(p) \/ StaleFile(p) \/ Close(p) \/ ReadWrite(p) \/ Getdents(p)
         \/ Dup2(p) \/ Chdir(p) \/ GetInfo(p) \/ Symlink(p)
    \/ Deleted

Spec == Init /\ [][Next]_vars

-----------------------------------------------------------------------------
(* Properties *)

(* The children of every file, as its list of siblings gives them, are a   *)
(* directory: File::add puts a file in front of one list, the destructor   *)
(* takes it out of it, and no other entry moves, however the calls of the  *)
(* processes come (core/file.cc).                                          *)
Promise == INSTANCE Directory
    WITH Files <- File, entries <- [f \in File |-> Children(f)]

IsDirectory == Promise!Spec

(* Whatever has been added and deleted, a file is found by the path made   *)
(* of the names above it, a link as what it stands for; except one that a  *)
(* newer file of the same name hides, one with a name that path reads as a *)
(* step, and one below a file that is no directory (Filesystem::path).     *)
Text(n) == IF n = "a/b" THEN <<"a", SLASH, "b">> ELSE <<n>>

PathOf(f) ==
    LET up[g \in Ptr] ==
            IF g \in {ROOT, NULL} THEN <<>> ELSE up[parent[g]] \o <<SLASH>> \o Text(name[g])
    IN  up[f]

Hidden(f) ==
    LET row == Children(parent[f])
    IN  \E i, j \in DOMAIN row : i < j /\ row[j] = f /\ name[row[i]] = name[f]

EveryFileIsFound ==
    \A f \in alive \ {ROOT} :
       \/ Hidden(f)
       \/ name[f] \in {"..", ".", JUNK}
       \/ type(parent[f]) # "directory"
       \/ path(ROOT, PathOf(f)) = Follow(f)

(* A process that reads a directory to its end has got the number of every *)
(* file that was there when it began, even if files were added meanwhile;  *)
(* deletions may make it miss one (call_getdents, File::add).              *)
ListingMissesNone ==
    listing.ended /\ ~listing.shrunk => listing.held \subseteq listing.got

(* STDIPC_FILENO: the descriptor 3 of a new process is its own buffer      *)
(* exactly when its parent's first three descriptors are open.             *)
STDIPC_FILENO == 3

OwnBufferIsThird ==
    [][\A p, q \in Procs :
         /\ state_[q] = "none" /\ state_'[q] # "none"
         /\ Execv(p)
         => (openfp_'[q][STDIPC_FILENO].fp = q
               <=> \A fd \in 0 .. 2 : openfp_[p][fd].fp # NULL)]_vars
=============================================================================

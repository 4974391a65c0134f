------------------------------ MODULE FileTree ------------------------------
(***************************************************************************)
(* The tree of files: File's constructor, add and destructor, and the two  *)
(* walks of Filesystem, path and path_parent (src/kernel/core/file.cc and  *)
(* core/filesystem.cc).                                                    *)
(*                                                                         *)
(* A file points at its parent, its first child and its two neighbours.    *)
(* Of what Filesystem::init and the drivers create, the root, /dev, /proc  *)
(* and /dev/tty are here; processes come and go in /proc, and links are    *)
(* made by symlink and never removed.                                      *)
(*                                                                         *)
(* A path is a sequence of words and slashes, no two words side by side.   *)
(***************************************************************************)
EXTENDS Integers, Sequences, FiniteSets

CONSTANTS
    Procs,      \* the Process objects, used again once they are deleted
    Links,      \* the links that may ever be made
    FirstProc,  \* "init", there before the first system call
    ProcNames,  \* the argv[0] of the programs
    NULL

ROOT == "root"
DEV  == "dev"
PROC == "proc"
TTY  == "tty"

Fixed  == {ROOT, DEV, PROC, TTY}
File   == Fixed \cup Procs \cup Links
Ptr    == File \cup {NULL}
SLASH == "/"
MISSING == "missing"    \* where a walk is that has found nothing
NOWHERE == "nowhere"    \* where a walk is that has used a null or dead File
JUNK    == "junk"       \* a name nobody wrote: kmalloc'ed and never filled

ASSUME FileTreeAssumption ==
    /\ Procs \cap Links = {} /\ FirstProc \in Procs
    /\ (Procs \cup Links) \cap (Fixed \cup {NULL, MISSING, NOWHERE}) = {}
    /\ NULL \notin Fixed \cup {MISSING, NOWHERE}
    /\ IsFiniteSet(Procs) /\ IsFiniteSet(Links)
    /\ ProcNames \subseteq STRING \ {SLASH}

VARIABLES
    alive,      \* the files that have been constructed and not deleted
    name,       \* name[f] = its name_, after checkName
    parent, child, next, prev,
    link,       \* link[f] = what a link stands for
    dying       \* the file whose destructor runs, or NULL

tree == <<alive, name, parent, child, next, prev, link, dying>>

type(f) == CASE f \in {ROOT, DEV, PROC} -> "directory"
             [] f = TTY                 -> "device"
             [] f \in Procs             -> "process"
             [] OTHER                   -> "link"

(* checkName: a name that would be more than one word of a path, or part   *)
(* of one, is turned into one word.                                        *)
checkName_Kept(n) == n
checkName(n) == IF n = "a/b" THEN "a_b" ELSE n

(* The tree after Filesystem::init, the modules and load_modules.          *)
TreeInit ==
    /\ alive = Fixed \cup {FirstProc}
    /\ name = [f \in File |-> CASE f \in Fixed   -> f
                                [] f = FirstProc -> "init"
                                [] OTHER         -> JUNK]
    /\ parent = [f \in File |-> CASE f \in {DEV, PROC} -> ROOT
                                  [] f = TTY           -> DEV
                                  [] f = FirstProc     -> PROC
                                  [] OTHER             -> NULL]
    /\ child = [f \in File |-> CASE f = ROOT -> PROC
                                 [] f = DEV  -> TTY
                                 [] f = PROC -> FirstProc
                                 [] OTHER    -> NULL]
    /\ next = [f \in File |-> IF f = PROC THEN DEV ELSE NULL]
    /\ prev = [f \in File |-> IF f = DEV THEN PROC ELSE NULL]
    /\ link = [f \in File |-> NULL]
    /\ dying = NULL

(* new File(n, t) and d->add(f): f is put in front of d's children.        *)
Add_NoBackLink(f, n, d) ==
    /\ alive' = alive \cup {f}
    /\ name' = [name EXCEPT ![f] = checkName(n)]
    /\ parent' = [parent EXCEPT ![f] = d]
    /\ next' = [next EXCEPT ![f] = child[d]]
    /\ child' = [child EXCEPT ![f] = NULL, ![d] = f]
    /\ prev' = [prev EXCEPT ![f] = NULL]

Add(f, n, d) ==
    /\ alive' = alive \cup {f}
    /\ name' = [name EXCEPT ![f] = checkName(n)]
    /\ parent' = [parent EXCEPT ![f] = d]
    /\ next' = [next EXCEPT ![f] = child[d]]
    /\ child' = [child EXCEPT ![f] = NULL, ![d] = f]
    /\ prev' = [prev EXCEPT ![f] = NULL,
                            ![IF child[d] = NULL THEN f ELSE child[d]] =
                                IF child[d] = NULL THEN NULL ELSE f]

(* What a deleted file takes with it: the files below it.                  *)
Above(f) ==
    LET up[g \in Ptr] == IF g = NULL THEN {} ELSE {g} \cup up[parent[g]]
    IN  up[parent[f]]

Below(f) == {g \in alive : f \in Above(g)}

(* The destructor of f: its neighbours and its parent are made to skip it, *)
(* and its children are deleted.  The writes that go through a null next_  *)
(* when f is an only child land in page 0, which nothing reads.            *)
Unlink(f) ==
    LET gone == {f} \cup Below(f)
        Forget(F) == [g \in File |-> IF g \in gone THEN NULL ELSE F[g]]
    IN  /\ alive' = alive \ gone
        /\ name' = [g \in File |-> IF g \in gone THEN JUNK ELSE name[g]]
        /\ child' = Forget(IF prev[f] = NULL
                             THEN [child EXCEPT ![parent[f]] = next[f]] ELSE child)
        /\ next' = Forget(IF prev[f] = NULL
                            THEN next ELSE [next EXCEPT ![prev[f]] = next[f]])
        /\ prev' = Forget(IF next[f] = NULL
                            THEN prev ELSE [prev EXCEPT ![next[f]] = prev[f]])
        /\ parent' = Forget(parent)
        /\ link' = Forget(link)

-----------------------------------------------------------------------------

(* The children of d in the order of the list.                             *)
Children(d) ==
    LET from[f \in Ptr] == IF f = NULL THEN <<>> ELSE <<f>> \o from[next[f]]
    IN  from[child[d]]

find(d, n) ==
    LET from[f \in Ptr] ==
            IF f = NULL \/ name[f] = n THEN f ELSE from[next[f]]
    IN  from[child[d]]

(* One word of Filesystem::path, reached file fp.  A walk that has given   *)
(* up is at MISSING; one that goes on from the parent of the root, or from *)
(* a file that has been deleted, is NOWHERE.                               *)
Follow(f) == IF type(f) = "link" /\ link[f] # NULL THEN link[f] ELSE f

PathStep(fp, w) ==
    CASE fp = MISSING             -> MISSING
      [] fp \notin alive \cup {MISSING} -> NOWHERE
      [] OTHER -> IF type(fp) # "directory" THEN MISSING
                  ELSE CASE w = ".." -> parent[fp]
                         [] w = "."  -> fp
                         [] OTHER    -> LET f == find(fp, w)
                                        IN  IF f = NULL THEN MISSING ELSE Follow(f)

IsAbsolute(p) == p # <<>> /\ p[1] = SLASH

path(cwd, p) ==
    LET at[i \in 0 .. Len(p)] ==
            IF i = 0 THEN IF IsAbsolute(p) THEN ROOT ELSE cwd
            ELSE IF p[i] = SLASH THEN at[i - 1] ELSE PathStep(at[i - 1], p[i])
        fp == at[Len(p)]
    IN  IF fp = MISSING THEN NULL ELSE fp

(* path_parent: the directory where the first missing word of p belongs,   *)
(* and that word.  It begins at the root whatever p begins with, gives up  *)
(* at a link, and when no word is missing ends at the file p names and     *)
(* writes no name.                                                         *)
ParentStep(s, w) ==
    IF s.fname # JUNK \/ s.at = MISSING THEN s
    ELSE IF s.at \notin alive THEN [s EXCEPT !.at = NOWHERE]
    ELSE IF type(s.at) # "directory" THEN [s EXCEPT !.at = MISSING]
    ELSE CASE w = ".." -> [s EXCEPT !.at = parent[s.at]]
           [] w = "."  -> s
           [] OTHER    -> LET f == find(s.at, w)
                          IN  IF f = NULL THEN [s EXCEPT !.fname = w]
                                          ELSE [s EXCEPT !.at = f]

path_parent(p) ==
    LET at[i \in 0 .. Len(p)] ==
            IF i = 0 THEN [at |-> ROOT, fname |-> JUNK]
            ELSE IF p[i] = SLASH THEN at[i - 1] ELSE ParentStep(at[i - 1], p[i])
    IN  at[Len(p)]
=============================================================================

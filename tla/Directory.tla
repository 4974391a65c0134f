----------------------------- MODULE Directory ------------------------------
(***************************************************************************)
(* What the tree of files promises: each file holds its entries in a row,  *)
(* newest first, and a file is an entry of one other file at most.  The    *)
(* linked lists of FileTree implement it.                                  *)
(***************************************************************************)
EXTENDS Sequences, SequencesExt

CONSTANT Files      \* what may be an entry or hold entries

VARIABLE entries    \* entries[d] = the entries of d, newest first

(* The file whose entry f is: none, or one.                                *)
HoldersOf(f) == {d \in Files : f \in ToSet(entries[d])}

Init == \A f \in Files : IsInjective(entries[f]) /\ Cardinality(HoldersOf(f)) <= 1

(* File::add of a file that is in no directory yet and holds nothing.      *)
Enter(f) ==
    /\ HoldersOf(f) = {}
    /\ entries[f] = <<>>
    /\ \E d \in Files \ {f} : entries' = [entries EXCEPT ![d] = <<f>> \o @]

Without(row, f) ==
    IF f \in ToSet(row) THEN RemoveAt(row, CHOOSE i \in DOMAIN row : row[i] = f) ELSE row

(* The destructor of f: what f holds goes with it.                         *)
Under(f) ==
    LET down[n \in 0 .. Cardinality(Files)] ==
            IF n = 0 THEN {f}
            ELSE LET near == down[n - 1]
                 IN  near \cup UNION {ToSet(entries[e]) : e \in near}
    IN  down[Cardinality(Files)]

Leave(f) ==
    /\ HoldersOf(f) # {}
    /\ LET gone == Under(f)
       IN  entries' = [e \in Files |-> IF e \in gone THEN <<>> ELSE Without(entries[e], f)]

Next == \E f \in Files : Enter(f) \/ Leave(f)

Spec == Init /\ [][Next]_entries
=============================================================================

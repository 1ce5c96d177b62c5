-------------------------------- MODULE Path --------------------------------
(***************************************************************************)
(* kernel/fs/path.c.  A path is what follows its drive, "0:/", which the   *)
(* system calls put in front of every name: names and separators, of which *)
(* two names never meet.                                                   *)
(***************************************************************************)
EXTENDS Integers, Sequences, FiniteSetsExt

CONSTANTS
    Name,     \* file names
    MaxPath   \* bound: names and separators in a path

Sep == "/"

ASSUME PathAssumption == MaxPath \in Nat /\ Sep \notin Name

Paths ==
    {s \in UNION {[1 .. n -> Name \cup {Sep}] : n \in 0 .. MaxPath} :
        \A k \in 1 .. (Len(s) - 1) : s[k] = Sep \/ s[k + 1] = Sep}

(* Mutant: the parts behind the first are not linked to it. *)
ParseFirstPart(path) == IF path = <<>> \/ path[1] = Sep THEN <<>> ELSE <<path[1]>>

(* A part is a name and one separator behind it, so names are looked for   *)
(* at every other position.  No name, no part: that is the end of the path. *)
path_parse_part(path, n) == 2 * n - 1 <= Len(path) /\ path[2 * n - 1] # Sep

path_parse(path) ==
    LET parts == Min({n \in 0 .. Len(path) : ~path_parse_part(path, n + 1)})
    IN  [n \in 1 .. parts |-> path[2 * n - 1]]
=============================================================================

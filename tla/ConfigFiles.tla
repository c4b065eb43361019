----------------------------- MODULE ConfigFiles ----------------------------
(***************************************************************************)
(* The files of a configuration and of an agent's state directory.  A file *)
(* is <<name, content>>: its body is known by the configuration it is from *)
(* or is Torn, part of one.  Names hold no path separator.                 *)
(***************************************************************************)
CONSTANTS
    Contents,    \* contents of configurations, up to their hash
    FileNames,   \* FileNames[c]: the names of the files of c
    Torn         \* the body a failed or interrupted write left

ASSUME FilesAssumption ==
    /\ Torn \notin Contents
    /\ DOMAIN FileNames = Contents /\ \A c \in Contents : FileNames[c] # {}

AllFiles == (UNION {FileNames[c] : c \in Contents}) \X (Contents \cup {Torn})

Files(c) == FileNames[c] \X {c}

(* Files that are written replace those of the same name and no others.     *)
Overwrite(disk, F) == {f \in disk : \A g \in F : g[1] # f[1]} \cup F

(* Writing c, in any order, ended at file n: those before it are new, n is  *)
(* as it was or torn.                                                       *)
EndedAt(n, disk, c) ==
    {Overwrite(disk, (S \X {c}) \cup (T \X {Torn})) :
        S \in SUBSET (FileNames[c] \ {n}), T \in SUBSET {n}}

Interrupted(disk, c) == UNION {EndedAt(n, disk, c) : n \in FileNames[c]}
=============================================================================

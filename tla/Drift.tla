-------------------------------- MODULE Drift -------------------------------
(***************************************************************************)
(* The drift engine: what it reports and recommends for the rows of the    *)
(* inventory, given in the order of their names.                           *)
(*                                                                         *)
(* A version is a name; Digits gives the digit strings FindAllString finds *)
(* in it.  A status matches the patterns or it does not.  A row is         *)
(* [version, status, ip].                                                  *)
(***************************************************************************)
EXTENDS Integers, Sequences, FiniteSets, FiniteSetsExt, SequencesExt

CONSTANTS
    Digits,      \* Digits[v]: a sequence of sequences of digits
    Unknown,     \* the version "unknown"
    Blank,       \* a version, status or address that is empty
    DownRE,      \* the statuses downRE matches
    UpRE,        \* those upRE matches; some match both
    AtoiLimit    \* one more digit is taken while a field is not greater

ASSUME DigitsAssumption ==
    /\ {Unknown, Blank} \subseteq DOMAIN Digits
    /\ \A v \in DOMAIN Digits : Digits[v] \in Seq(Seq(0..9))
    /\ AtoiLimit \in Nat
\* "active" is up and not down.
ASSUME StatusAssumption == Blank \notin DownRE \cup UpRE /\ UpRE \ DownRE # {}

-----------------------------------------------------------------------------
atoi(ds) ==
    LET n[i \in 0..Len(ds)] ==
        IF i = 0 THEN 0 ELSE IF n[i - 1] > AtoiLimit THEN n[i - 1] ELSE n[i - 1] * 10 + ds[i]
    IN n[Len(ds)]

(* Field i of a version; one that is missing counts as zero.                *)
Field(v, i) == IF i <= Len(Digits[v]) THEN atoi(Digits[v][i]) ELSE 0

(* Mutant: of two versions the longer one is the newer.                     *)
compareVersionLength(a, b) ==
    LET n == Min({Len(Digits[a]), Len(Digits[b])})
        differ == {i \in 1..n : Field(a, i) # Field(b, i)}
    IN IF differ = {} THEN Len(Digits[a]) - Len(Digits[b])
       ELSE IF Field(a, Min(differ)) < Field(b, Min(differ)) THEN -1 ELSE 1

compareVersion(a, b) ==
    LET n == Max({Len(Digits[a]), Len(Digits[b])})
        differ == {i \in 1..n : Field(a, i) # Field(b, i)}
    IN IF a = b \/ differ = {} THEN 0
       ELSE IF Field(a, Min(differ)) < Field(b, Min(differ)) THEN -1 ELSE 1

(* Down patterns win over up patterns.                                      *)
classify(status) ==
    IF status \in DownRE THEN "down" ELSE IF status \in UpRE THEN "up" ELSE "unknown"

(* The newest version, the first of equal ones.                             *)
newest(best, a) ==
    IF a.version \notin {Blank, Unknown} /\ compareVersion(a.version, best) > 0
    THEN a.version ELSE best

LatestVersion(agents) ==
    LET best[i \in 0..Len(agents)] ==
            IF i = 0 THEN Blank ELSE newest(best[i - 1], agents[i])
    IN best[Len(agents)]

(* The elements of s that are in T, in the order of s.                      *)
Select(s, T) ==
    LET kept[i \in 0..Len(s)] ==
            IF i = 0 THEN <<>>
            ELSE IF s[i] \in T THEN Append(kept[i - 1], s[i]) ELSE kept[i - 1]
    IN kept[Len(s)]

Classified(agents, class) ==
    Select(agents, {a \in Range(agents) : classify(a.status) = class})

Outdated(agents) ==
    LET latest == LatestVersion(agents) IN
    Select(agents, {a \in Range(agents) :
        latest # Blank /\ a.version # Blank /\ compareVersion(a.version, latest) < 0})

(* The hosts of a recommendation: agents without an address are only        *)
(* counted.                                                                 *)
Hosts(agents) == Select(agents, {a \in Range(agents) : a.ip # Blank})

Evaluate(agents) ==
    [total   |-> Len(agents),
     active  |-> Len(Classified(agents, "up")),
     down    |-> Len(Classified(agents, "down")),
     unknown |-> Len(Classified(agents, "unknown")),
     latest  |-> LatestVersion(agents),
     outdated |-> Len(Outdated(agents)),
     repair  |-> Hosts(Classified(agents, "down")),
     upgrade |-> Hosts(Outdated(agents))]
=============================================================================

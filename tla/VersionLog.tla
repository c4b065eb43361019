----------------------------- MODULE VersionLog -----------------------------
(***************************************************************************)
(* What the store promises about groups: each is an append-only log of     *)
(* numbered configurations with a pointer to the one in use, every         *)
(* operation takes effect at one moment or not at all, and an agent is     *)
(* assigned only to a group that exists.  A request that outlives its      *)
(* group and meets a new one of the same name is the exception.            *)
(***************************************************************************)
EXTENDS Naturals

CONSTANTS
    Groups, Agents, Contents, Numbers,
    Default,   \* the group that cannot be deleted
    Null,      \* no such group, or no assignment
    Lost       \* a pointer to a configuration that went with a deleted group

VARIABLES
    log,       \* log[g]: the configurations of g by their numbers, or Null
    current,   \* current[g]: a number of log[g], 0 for none, or Lost
    assigned,  \* assigned[a]: a group, or Null
    dropped    \* the groups that have been deleted at some time

vars == <<log, current, assigned, dropped>>

Init ==
    /\ log = [g \in Groups |-> IF g = Default THEN [n \in {} |-> Null] ELSE Null]
    /\ current = [g \in Groups |-> 0]
    /\ assigned = [a \in Agents |-> Null]
    /\ dropped = {}

Create(g) ==
    /\ log[g] = Null
    /\ log' = [log EXCEPT ![g] = [n \in {} |-> Null]]
    /\ UNCHANGED <<current, assigned, dropped>>

Drop(g) ==
    /\ log[g] # Null /\ g # Default
    /\ log' = [log EXCEPT ![g] = Null]
    /\ current' = [current EXCEPT ![g] = 0]
    /\ assigned' = [a \in Agents |-> IF assigned[a] = g THEN Null ELSE assigned[a]]
    /\ dropped' = dropped \cup {g}

(* A new configuration gets the next number and is in use at once.  Only    *)
(* after a deletion the number may be one counted in the group before.      *)
Publish(g, n, c) ==
    /\ log[g] # Null /\ n \notin DOMAIN log[g]
    /\ g \notin dropped => DOMAIN log[g] = 1..(n - 1)
    /\ log' = [log EXCEPT ![g] = [m \in DOMAIN @ \cup {n} |-> IF m = n THEN c ELSE @[m]]]
    /\ current' = [current EXCEPT ![g] = n]
    /\ UNCHANGED <<assigned, dropped>>

Rollback(g, v) ==
    /\ v \in DOMAIN log[g]
    /\ current' = [current EXCEPT ![g] = v]
    /\ UNCHANGED <<log, assigned, dropped>>

(* A roll back that outlived its group.                                     *)
Lose(g) ==
    /\ log[g] # Null /\ g \in dropped
    /\ current' = [current EXCEPT ![g] = Lost]
    /\ UNCHANGED <<log, assigned, dropped>>

Assign(a, g) ==
    /\ g # Null => log[g] # Null
    /\ assigned' = [assigned EXCEPT ![a] = g]
    /\ UNCHANGED <<log, current, dropped>>

Next ==
    \/ \E g \in Groups :
        \/ Create(g) \/ Drop(g) \/ Lose(g)
        \/ \E n \in Numbers, c \in Contents : Publish(g, n, c)
        \/ log[g] # Null /\ \E v \in DOMAIN log[g] : Rollback(g, v)
    \/ \E a \in Agents, g \in Groups \cup {Null} : Assign(a, g)

Spec == Init /\ [][Next]_vars
=============================================================================

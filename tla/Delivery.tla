------------------------------ MODULE Delivery ------------------------------
(***************************************************************************)
(* What the orchestrator and the agent promise about remote configuration, *)
(* with no connections, messages or threads: an agent runs the whole of    *)
(* one configuration that an operator published for a group the agent has  *)
(* belonged to, or, from a restart until an offer is applied, files that   *)
(* such configurations left on its disk.                                   *)
(***************************************************************************)
EXTENDS ConfigFiles

CONSTANTS Agents, Groups

VARIABLES
    published,   \* contents an operator ever published for a group
    member,      \* groups an agent ever belonged to
    effective,   \* the files that the agent runs
    disk         \* the files it has

vars == <<published, member, effective, disk>>

Allowed(a) == UNION {published[g] : g \in member[a]}

Init ==
    /\ published = [g \in Groups |-> {}]
    /\ member = [a \in Agents |-> {}]
    /\ effective = [a \in Agents |-> {}]
    /\ disk = [a \in Agents |-> {}]

Publish(g, c) ==
    /\ published' = [published EXCEPT ![g] = @ \cup {c}]
    /\ UNCHANGED <<member, effective, disk>>

Join(a, g) ==
    /\ member' = [member EXCEPT ![a] = @ \cup {g}]
    /\ UNCHANGED <<published, effective, disk>>

Run(a, c) ==
    /\ c \in Allowed(a)
    /\ effective' = [effective EXCEPT ![a] = Files(c)]
    /\ disk' = [disk EXCEPT ![a] = Overwrite(@, Files(c))]
    /\ UNCHANGED <<published, member>>

\* A write fails: the agent goes on with what it runs.
Fail(a, c) ==
    /\ c \in Allowed(a)
    /\ \E d \in Interrupted(disk[a], c) : disk' = [disk EXCEPT ![a] = d]
    /\ UNCHANGED <<published, member, effective>>

\* In the middle of a write or not: what can be read of the disk is run.
Restart(a) ==
    /\ \E d \in {disk[a]} \cup UNION {Interrupted(disk[a], c) : c \in Allowed(a)} :
        /\ disk' = [disk EXCEPT ![a] = d]
        /\ \E read \in SUBSET d : effective' = [effective EXCEPT ![a] = read]
    /\ UNCHANGED <<published, member>>

Next ==
    \/ \E g \in Groups, c \in Contents : Publish(g, c)
    \/ \E a \in Agents, g \in Groups : Join(a, g)
    \/ \E a \in Agents, c \in Contents : Run(a, c) \/ Fail(a, c)
    \/ \E a \in Agents : Restart(a)

Spec == Init /\ [][Next]_vars
=============================================================================

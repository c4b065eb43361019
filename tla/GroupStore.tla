----------------------------- MODULE GroupStore -----------------------------
(***************************************************************************)
(* Groups, their configuration versions and the assignments of agents, as  *)
(* the admin handlers change them in PostgreSQL, one statement at a time.  *)
(*                                                                         *)
(* Statements are READ COMMITTED: each sees what is committed when it      *)
(* starts.  CreateConfigVersion is a transaction; its INSERT holds a share *)
(* lock on the group row (foreign key) and the entry of the unique index,  *)
(* its UPDATE the row lock.  Every other statement commits by itself.  The *)
(* pushes that follow are ConfigRollout.                                   *)
(***************************************************************************)
EXTENDS Naturals, FiniteSets, FiniteSetsExt

CONSTANTS
    Threads,      \* admin requests of more than one statement
    Groups, Agents, Contents,
    Default,      \* the group of 0001_init.sql
    EmptyName,    \* the group name "", which no group has
    Null,
    Lost,         \* see VersionLog
    MaxRequests   \* bound on those requests

ASSUME NamesAssumption ==
    /\ Default \in Groups
    /\ {Null, EmptyName} \cap Groups = {} /\ Null # EmptyName
ASSUME RequestsAssumption == MaxRequests \in Nat
\* Null is no number, no row of a transaction and no log of a group.
ASSUME NullAssumption ==
    /\ Null \notin 0..MaxRequests
    /\ Null \notin [group : Groups, number : 1..MaxRequests, updated : BOOLEAN]
    /\ \A ns \in SUBSET (1..MaxRequests) : Null \notin [ns -> SUBSET Contents]

VARIABLES
    groups,    \* groups[g]: current_version, or Null when there is no row
    versions,  \* rows of config_versions
    assigned,  \* agents.assigned_group
    req,       \* the request a thread serves
    open,      \* what a thread's transaction has written and not committed, or Null
    dropped,   \* history: the groups deleted so far
    requests

vars == <<groups, versions, assigned, req, open, dropped, requests>>

Numbers == 1..MaxRequests
Versions == [group : Groups, number : Numbers, content : Contents]

\* The statement a request executes next, and its parameters.
Idle == [pc |-> "idle"]
Creates == [pc : {"max"}, group : Groups, content : Contents]
    \cup [pc : {"insert", "update", "commit"}, group : Groups, content : Contents,
          number : Numbers]
Rollbacks == [pc : {"repoint"}, group : Groups, number : Numbers]
Assigns == [pc : {"assign"}, agent : Agents, group : Groups \cup {Null, EmptyName}]

TypeOK ==
    /\ groups \in [Groups -> 0..MaxRequests \cup {Null}]
    /\ versions \subseteq Versions
    /\ assigned \in [Agents -> Groups \cup {Null}]
    /\ req \in [Threads -> {Idle} \cup Creates \cup Rollbacks \cup Assigns]
    /\ open \in [Threads -> [group : Groups, number : Numbers, updated : BOOLEAN] \cup {Null}]
    /\ dropped \subseteq Groups
    /\ requests \in 0..MaxRequests

Init ==
    /\ groups = [g \in Groups |-> IF g = Default THEN 0 ELSE Null]
    /\ versions = {}
    /\ assigned = [a \in Agents |-> Null]
    /\ req = [t \in Threads |-> Idle]
    /\ open = [t \in Threads |-> Null]
    /\ dropped = {}
    /\ requests = 0

Existing == {g \in Groups : groups[g] # Null}
NumbersOf(g) == {v.number : v \in {w \in versions : w.group = g}}

-----------------------------------------------------------------------------
(* UpsertGroup of a new name; that of an existing one changes nothing here. *)
UpsertGroup(g) ==
    /\ g \notin Existing
    /\ groups' = [groups EXCEPT ![g] = 0]
    /\ UNCHANGED <<versions, assigned, req, open, dropped, requests>>

(* DeleteGroup waits for a transaction that refers to the row; its versions *)
(* go with it, its agents lose the assignment.                              *)
DeleteGroup(g) ==
    /\ g \in Existing /\ g # Default
    /\ \A t \in Threads : open[t] # Null => open[t].group # g
    /\ groups' = [groups EXCEPT ![g] = Null]
    /\ versions' = {v \in versions : v.group # g}
    /\ assigned' = [a \in Agents |-> IF assigned[a] = g THEN Null ELSE assigned[a]]
    /\ dropped' = dropped \cup {g}
    /\ UNCHANGED <<req, open, requests>>

-----------------------------------------------------------------------------
Begin(t, r) ==
    /\ req[t] = Idle
    /\ requests < MaxRequests
    /\ requests' = requests + 1
    /\ req' = [req EXCEPT ![t] = r]
    /\ UNCHANGED <<groups, versions, assigned, open, dropped>>

Continue(t, r) ==
    /\ req' = [req EXCEPT ![t] = r]
    /\ UNCHANGED <<dropped, requests>>

(* handleCreateConfig up to GetGroup; without the group it answers 404.     *)
CreateConfig(t, g, c) ==
    /\ g \in Existing
    /\ Begin(t, [pc |-> "max", group |-> g, content |-> c])

(* SELECT MAX(version) + 1.                                                 *)
SelectNext(t) ==
    /\ req[t].pc = "max"
    /\ Continue(t, [pc |-> "insert", group |-> req[t].group, content |-> req[t].content,
                    number |-> Max(NumbersOf(req[t].group) \cup {0}) + 1])
    /\ UNCHANGED <<groups, versions, assigned, open>>

\* Has another transaction inserted the number of t, or updated the group row?
InsertWaits(t) ==
    \E u \in Threads \ {t} :
        /\ open[u] # Null
        /\ open[u].group = req[t].group /\ open[u].number = req[t].number
RowLocked(g) == \E u \in Threads : open[u] # Null /\ open[u].group = g /\ open[u].updated

Inserted(t) == [group |-> req[t].group, number |-> req[t].number, updated |-> FALSE]

(* Mutant: two rows of a group may have the same number.                    *)
InsertNoUnique(t) ==
    /\ req[t].pc = "insert"
    /\ IF req[t].group \in Existing
       THEN Continue(t, [req[t] EXCEPT !.pc = "update"]) /\ open' = [open EXCEPT ![t] = Inserted(t)]
       ELSE Continue(t, Idle) /\ UNCHANGED open
    /\ UNCHANGED <<groups, versions, assigned>>

(* INSERT: waits for another transaction that has inserted the number, and  *)
(* fails when the number is taken or the group is gone.                     *)
Insert(t) ==
    /\ req[t].pc = "insert"
    /\ ~InsertWaits(t)
    /\ IF req[t].group \in Existing /\ req[t].number \notin NumbersOf(req[t].group)
       THEN Continue(t, [req[t] EXCEPT !.pc = "update"]) /\ open' = [open EXCEPT ![t] = Inserted(t)]
       ELSE Continue(t, Idle) /\ UNCHANGED open
    /\ UNCHANGED <<groups, versions, assigned>>

(* Mutant: the group is updated outside the transaction.                    *)
UpdateCurrentOutside(t) ==
    /\ req[t].pc = "update"
    /\ Continue(t, [req[t] EXCEPT !.pc = "commit"])
    /\ groups' = [groups EXCEPT ![req[t].group] = req[t].number]
    /\ UNCHANGED <<versions, assigned, open>>

(* UPDATE groups SET current_version: waits for the row; not visible before *)
(* the COMMIT.                                                              *)
UpdateCurrent(t) ==
    /\ req[t].pc = "update"
    /\ ~RowLocked(req[t].group)
    /\ Continue(t, [req[t] EXCEPT !.pc = "commit"])
    /\ open' = [open EXCEPT ![t].updated = TRUE]
    /\ UNCHANGED <<groups, versions, assigned>>

Commit(t) ==
    LET r == req[t] IN
    /\ r.pc = "commit"
    /\ versions' = versions \cup {[group |-> r.group, number |-> r.number, content |-> r.content]}
    /\ groups' = [groups EXCEPT ![r.group] = r.number]
    /\ open' = [open EXCEPT ![t] = Null]
    /\ Continue(t, Idle)
    /\ UNCHANGED assigned

(* Mutant: a transaction that fails is left open.                           *)
AbortLeaks(t) ==
    /\ req[t].pc \in {"max", "insert", "update", "commit"}
    /\ Continue(t, Idle)
    /\ UNCHANGED <<groups, versions, assigned, open>>

(* A statement fails or the client has gone: the deferred Rollback.         *)
Abort(t) ==
    /\ req[t].pc \in {"max", "insert", "update", "commit"}
    /\ open' = [open EXCEPT ![t] = Null]
    /\ Continue(t, Idle)
    /\ UNCHANGED <<groups, versions, assigned>>

-----------------------------------------------------------------------------
(* SetCurrentConfigVersion up to SELECT EXISTS; not found without the row.  *)
Rollback(t, g, n) ==
    /\ n \in NumbersOf(g)
    /\ Begin(t, [pc |-> "repoint", group |-> g, number |-> n])

(* Its UPDATE, outside a transaction; no row is no error.                   *)
Repoint(t) ==
    LET g == req[t].group IN
    /\ req[t].pc = "repoint"
    /\ ~RowLocked(g)
    /\ groups' = IF g \in Existing THEN [groups EXCEPT ![g] = req[t].number] ELSE groups
    /\ Continue(t, Idle)
    /\ UNCHANGED <<versions, assigned, open>>

(* handleSetAgentGroup up to its checks, which "" and null pass.            *)
SetAgentGroup(t, a, g) ==
    /\ g \in Existing \cup {Null, EmptyName}
    /\ Begin(t, [pc |-> "assign", agent |-> a, group |-> g])

(* Mutant: assigned_group is not a foreign key.                             *)
AssignAnything(t) ==
    /\ req[t].pc = "assign"
    /\ assigned' = [assigned EXCEPT ![req[t].agent] = req[t].group]
    /\ Continue(t, Idle)
    /\ UNCHANGED <<groups, versions, open>>

(* Its UPDATE: the foreign key refuses a group that is not there.           *)
Assign(t) ==
    LET r == req[t] IN
    /\ r.pc = "assign"
    /\ assigned' = IF r.group \in Existing \cup {Null}
                   THEN [assigned EXCEPT ![r.agent] = r.group] ELSE assigned
    /\ Continue(t, Idle)
    /\ UNCHANGED <<groups, versions, open>>

(* A single statement fails or the client has gone before it.               *)
GiveUp(t) ==
    /\ req[t].pc \in {"repoint", "assign"}
    /\ Continue(t, Idle)
    /\ UNCHANGED <<groups, versions, assigned, open>>

-----------------------------------------------------------------------------
Proceed(t) ==
    \/ SelectNext(t) \/ Insert(t) \/ UpdateCurrent(t) \/ Commit(t)
    \/ Repoint(t) \/ Assign(t)

Next ==
    \/ \E g \in Groups : UpsertGroup(g) \/ DeleteGroup(g)
    \/ \E t \in Threads :
        \/ \E g \in Groups, c \in Contents : CreateConfig(t, g, c)
        \/ \E g \in Groups, n \in Numbers : Rollback(t, g, n)
        \/ \E a \in Agents, g \in Groups \cup {Null, EmptyName} : SetAgentGroup(t, a, g)
        \/ Proceed(t) \/ Abort(t) \/ GiveUp(t)

Spec == Init /\ [][Next]_vars

(* Every statement that does not wait for another is executed.              *)
FairSpec == Spec /\ \A t \in Threads : WF_vars(Proceed(t))

-----------------------------------------------------------------------------
(* What readers of the store see: a group's versions by their numbers, and  *)
(* GetCurrentConfig, which finds none for a lost pointer.                   *)
ListConfigVersions(g) ==
    [n \in NumbersOf(g) |->
        {v.content : v \in {w \in versions : w.group = g /\ w.number = n}}]

GetCurrentConfig(g) ==
    IF groups[g] = Null THEN 0
    ELSE IF groups[g] \in NumbersOf(g) \cup {0} THEN groups[g] ELSE Lost

Log == INSTANCE VersionLog WITH
    log <- [g \in Groups |-> IF g \in Existing THEN ListConfigVersions(g) ELSE Null],
    current <- [g \in Groups |-> GetCurrentConfig(g)],
    Contents <- {{c} : c \in Contents}

\* The statements of the handlers, interleaved and failing in the middle, are
\* the atomic operations of VersionLog: no two versions have one number, and
\* none changes or vanishes while its group exists; a new one is in use when
\* it appears; numbers have no gaps and a pointer names a version, except for
\* requests that raced with the deletion of their group; and no agent is
\* assigned to a group that is not there.
ImplementsVersionLog == Log!Spec

\* No request waits for ever for the locks of another: the transactions that
\* number the versions of a group cannot block each other or the roll backs
\* for good, whichever of them fail.
RequestsEnd == \A t \in Threads : req[t] # Idle ~> req[t] = Idle
=============================================================================

-------------------------------- MODULE Fleet -------------------------------
(***************************************************************************)
(* The inventory: the resources of the tenant, the synchronisations that   *)
(* copy them page by page and row by row into the store, and what the      *)
(* drift engine makes of the rows.                                         *)
(*                                                                         *)
(* A synchronisation is one of the poll loop or one that a request asked   *)
(* for (Connector); they may overlap.  Rows are written and never removed. *)
(* Resources and rows are known by the order of their names.               *)
(***************************************************************************)
EXTENDS Drift, Targets

CONSTANTS
    Count,       \* resources are 1..Count, in the order of their names
    Profiles,    \* Profiles[r]: what r may say, [version, status, state, ip, host]
    Gone,        \* a resource the search does not find
    NoRow,
    PollLoop, SyncNow,   \* the two synchronisations
    PageSize,    \* 200 in the code
    Typed,       \* specifications of targets that operators type
    MaxChanges,  \* bound on changes of the tenant
    MaxFaults    \* bound on failed searches and statements

ASSUME FleetAssumption ==
    /\ Count \in Nat /\ PageSize \in Nat \ {0}
    /\ MaxChanges \in Nat /\ MaxFaults \in Nat
    /\ PollLoop # SyncNow
    /\ DOMAIN Profiles = 1..Count
    /\ \A p \in UNION Range(Profiles) :
           p.version \in DOMAIN Digits /\ p.ip \in Texts \cup {Blank}
    /\ Typed \subseteq Seq(Tokens)

Resources == 1..Count
Syncs == {PollLoop, SyncNow}

VARIABLES
    cloud,    \* cloud[r]: the profile of a resource, or Gone
    rows,     \* rows[r]: the row of opsramp_agents, or NoRow
    sync,     \* sync[s]: the next page, and what was found and not yet written
    changes, faults

vars == <<cloud, rows, sync, changes, faults>>

(* toModel: the state stands in for a status that is blank.                 *)
toModel(p) ==
    [version |-> p.version, status |-> IF p.status = Blank THEN p.state ELSE p.status,
     ip |-> p.ip, host |-> p.host]

Idle == [pc |-> "idle", page |-> 0, found |-> <<>>]

Init ==
    /\ cloud \in {c \in [Resources -> UNION Range(Profiles) \cup {Gone}] :
                     \A r \in Resources : c[r] \in Profiles[r] \cup {Gone}}
    /\ rows = [r \in Resources |-> NoRow]
    /\ sync = [s \in Syncs |-> Idle]
    /\ changes = 0 /\ faults = 0

-----------------------------------------------------------------------------
(* The tenant: a resource appears, changes, or goes.                        *)
Change(r) ==
    /\ changes < MaxChanges
    /\ changes' = changes + 1
    /\ \E p \in Profiles[r] \cup {Gone} : p # cloud[r] /\ cloud' = [cloud EXCEPT ![r] = p]
    /\ UNCHANGED <<rows, sync, faults>>

(* DeregisterByHost: the resource of the first row with the address or the  *)
(* name is deleted, whether that row is stale or not; the row stays.        *)
DeregisterByHost(host) ==
    LET matching == {r \in Resources : rows[r] # NoRow /\ host \in {rows[r].ip, rows[r].host}}
    IN
    /\ matching # {}
    /\ changes < MaxChanges
    /\ changes' = changes + 1
    /\ cloud' = [cloud EXCEPT ![Min(matching)] = Gone]
    /\ UNCHANGED <<rows, sync, faults>>

-----------------------------------------------------------------------------
(* The search at this moment, in pages.                                     *)

Found == Select([r \in Resources |-> r], {r \in Resources : cloud[r] # Gone})
Page(n) ==
    LET page == SubSeq(Found, (n - 1) * PageSize + 1, Min({n * PageSize, Len(Found)}))
    IN [i \in DOMAIN page |-> <<page[i], cloud[page[i]]>>]
TotalPages == (Len(Found) + PageSize - 1) \div PageSize

(* Mutant: pages are taken to be numbered from zero.                        *)
LastPageEarly(n) == Page(n) = <<>> \/ n >= TotalPages - 1

(* ListAgentResources stops: no next page, an empty page, or the last one.  *)
LastPage(n) == Page(n) = <<>> \/ n >= TotalPages

(* syncWith, from its start.                                                *)
StartSync(s) ==
    /\ sync[s].pc = "idle"
    /\ sync' = [sync EXCEPT ![s] = [pc |-> "search", page |-> 1, found |-> <<>>]]
    /\ UNCHANGED <<cloud, rows, changes, faults>>

(* SearchResources: resources that come or go between two pages may be      *)
(* missed or found twice.                                                   *)
SearchPage(s) ==
    LET found == sync[s].found \o Page(sync[s].page) IN
    /\ sync[s].pc = "search"
    /\ sync' = [sync EXCEPT ![s] =
           IF ~LastPage(@.page) THEN [pc |-> "search", page |-> @.page + 1, found |-> found]
           ELSE IF found = <<>> THEN Idle
           ELSE [pc |-> "write", page |-> 0, found |-> found]]
    /\ UNCHANGED <<cloud, rows, changes, faults>>

(* No token, or a page that fails: nothing of the synchronisation is kept.  *)
SearchFails(s) ==
    /\ sync[s].pc = "search"
    /\ faults < MaxFaults /\ faults' = faults + 1
    /\ sync' = [sync EXCEPT ![s] = Idle]
    /\ UNCHANGED <<cloud, rows, changes>>

Written(s) ==
    [sync EXCEPT ![s] = IF Len(@.found) = 1 THEN Idle
                        ELSE [pc |-> "write", page |-> 0, found |-> Tail(@.found)]]

(* UpsertOpsRampAgent, one row.                                             *)
Upsert(s) ==
    /\ sync[s].pc = "write"
    /\ rows' = [rows EXCEPT ![Head(sync[s].found)[1]] = toModel(Head(sync[s].found)[2])]
    /\ sync' = Written(s)
    /\ UNCHANGED <<cloud, changes, faults>>

(* It fails: the row is left out.                                           *)
UpsertFails(s) ==
    /\ sync[s].pc = "write"
    /\ faults < MaxFaults /\ faults' = faults + 1
    /\ sync' = Written(s)
    /\ UNCHANGED <<cloud, rows, changes>>

-----------------------------------------------------------------------------
SyncSteps(s) == SearchPage(s) \/ SearchFails(s) \/ Upsert(s) \/ UpsertFails(s)

\* The hosts a deployment may name.
Addressed == UNION {{p.ip, p.host} : p \in UNION Range(Profiles)} \ {Blank}

Next ==
    \/ \E r \in Resources : Change(r)
    \/ \E host \in Addressed : DeregisterByHost(host)
    \/ \E s \in Syncs : StartSync(s) \/ SyncSteps(s)

Spec == Init /\ [][Next]_vars

(* The poll loop's ticker fires and the calls of a synchronisation end.     *)
FairSpec ==
    /\ Spec
    /\ WF_vars(StartSync(PollLoop))
    /\ \A s \in Syncs : WF_vars(SyncSteps(s))

-----------------------------------------------------------------------------
(* ListOpsRampAgents.                                                       *)
Agents == Select(rows, Range(rows) \ {NoRow})

\* One version is newer than another: some field is greater and those before
\* it are equal, missing ones being zero.
Newer(v, w) ==
    \E i \in DOMAIN Digits[v] :
        /\ Field(v, i) > Field(w, i)
        /\ \A j \in 1..(i - 1) : Field(v, j) = Field(w, j)

\* The rows after an operator has applied both recommendations to row a.
Applied(a, rep) ==
    [version |-> IF a \in Range(rep.upgrade) THEN rep.latest ELSE a.version,
     status |-> IF a \in Range(rep.repair) THEN CHOOSE st \in UpRE \ DownRE : TRUE ELSE a.status,
     ip |-> a.ip, host |-> a.host]

\* Evaluate, whatever half-synchronised rows it reads: every agent is counted
\* once; no agent is newer than the version called latest; the agents behind
\* it, and only they, are to be upgraded; and a fleet whose hosts were treated
\* as recommended needs nothing more, so the engine never asks for the same
\* again or drives versions round in a circle.
ReportRight ==
    LET rep == Evaluate(Agents)
        again == Evaluate([i \in DOMAIN Agents |-> Applied(Agents[i], rep)])
        known == {a \in Range(Agents) : a.version \notin {Blank, Unknown}}
    IN
    /\ rep.active + rep.down + rep.unknown = rep.total
    /\ rep.latest # Blank => rep.latest \in {a.version : a \in known}
    /\ \A a \in known : ~Newer(a.version, rep.latest)
    /\ Range(rep.upgrade) =
        {a \in Range(Agents) : /\ a.ip # Blank /\ a.version # Blank
                               /\ rep.latest # Blank /\ Newer(rep.latest, a.version)}
    /\ again.latest = rep.latest
    /\ again.repair = <<>> /\ again.upgrade = <<>>

\* joinIPs: the targets of a recommendation.
TargetSpec(hosts) == [i \in DOMAIN hosts |-> Host(hosts[i].ip)]

TypedExact == \A spec \in Typed : Exact(spec)

\* ExpandTargets names every host that a specification means, each text once,
\* and no other, or refuses it when that is nothing or more than the limit, at
\* every edge of blocks, ranges and limit, but for the two forms of Taken; so
\* a recommendation reaches exactly its hosts, as the rows spell them, unless
\* they are more than the limit.
TargetsExact ==
    /\ TypedExact
    /\ LET rep == Evaluate(Agents) IN
       \A hosts \in {rep.repair, rep.upgrade} : Exact(TargetSpec(hosts))

\* Searches that see the tenant change between two pages, overlapping
\* synchronisations that write what is no longer so, and failed rows do not
\* last: once the tenant stays as it is, the row of every resource in it does
\* so too and is right.
RowsSettle ==
    \A r \in Resources : <>[](cloud[r] # Gone => rows[r] = toModel(cloud[r]))
=============================================================================

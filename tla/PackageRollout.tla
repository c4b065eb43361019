---------------------------- MODULE PackageRollout ---------------------------
(***************************************************************************)
(* Packages: the catalogue and the assignments of a group, the offers made *)
(* from them, and the agent that downloads what is offered.                *)
(*                                                                         *)
(* A package is known by its content, which the admin API hashes; the      *)
(* all-packages hash is over the names and hashes offered, so the offer    *)
(* stands for it.  The agent starts a goroutine for each offer, and the    *)
(* syncer of opamp-go (external) lets one of them work at a time, in an    *)
(* order nobody fixes.  A download URL names the package only: what comes  *)
(* is the content of that moment, written without comparing its hash.      *)
(* Which group an agent is in, and the connections pushes need, are        *)
(* ConfigRollout; one group and one agent are enough here.                 *)
(***************************************************************************)
EXTENDS Naturals

CONSTANTS
    Packages,
    MaxContent,   \* contents are 1..MaxContent, numbered as they were built
    Goroutines,   \* names of the agent's sync goroutines: bounds those at a time
    MaxOps,       \* bound on what operators change
    MaxFaults     \* bound on failed downloads and restarts of the agent

ASSUME BoundsAssumption == MaxContent \in Nat /\ MaxOps \in Nat /\ MaxFaults \in Nat

Contents == 1..MaxContent
None == 0               \* no row, no file, no recorded hash
Partial == MaxContent + 1   \* a file whose download broke off

VARIABLES
    catalogue,  \* catalogue[p]: the content of the row of packages, or None
    assigned,   \* rows of group_packages
    local,      \* filePackagesProvider: states, allHash and the files
    provided,   \* ServerProvidedAllPackagesHash of the agent's statuses
    sync,       \* sync[g]: the offer a goroutine works off, and how far it is
    torn,       \* history: packages a failed sync deleted or could not download,
                \* and that were not recorded since
    newest,     \* history: the newest content of each package uploaded so far
    reverted,   \* history: an upload put an older content back
    ops, faults

server == <<catalogue, assigned, newest, reverted>>
vars == <<catalogue, assigned, local, provided, sync, torn, newest, reverted, ops, faults>>

Offers == [Packages -> Contents \cup {None}]
NoOffer == [p \in Packages |-> None]
Names(offer) == {p \in Packages : offer[p] # None}

\* state: the recorded hashes (a package may be known and have none).
Locals == [known : SUBSET Packages, state : Offers, allHash : Offers,
           file : [Packages -> Contents \cup {None, Partial}]]
Syncs == [pc : {"idle", "wait", "run"}, offer : Offers, todo : SUBSET Packages, failed : BOOLEAN]

TypeOK ==
    /\ catalogue \in Offers
    /\ assigned \subseteq Names(catalogue)
    /\ local \in Locals
    /\ provided \in Offers
    /\ sync \in [Goroutines -> Syncs]
    /\ newest \in Offers /\ reverted \in BOOLEAN /\ torn \subseteq Packages
    /\ ops \in 0..MaxOps /\ faults \in 0..MaxFaults

Fresh(files) == [known |-> {}, state |-> NoOffer, allHash |-> NoOffer, file |-> files]
Idle == [pc |-> "idle", offer |-> NoOffer, todo |-> {}, failed |-> FALSE]

Init ==
    /\ catalogue = NoOffer /\ assigned = {}
    /\ local = Fresh(NoOffer) /\ provided = NoOffer
    /\ sync = [g \in Goroutines |-> Idle]
    /\ torn = {} /\ newest = NoOffer /\ reverted = FALSE
    /\ ops = 0 /\ faults = 0

Fault == faults < MaxFaults /\ faults' = faults + 1
Operate == ops < MaxOps /\ ops' = ops + 1 /\ UNCHANGED <<local, provided, torn, faults>>

-----------------------------------------------------------------------------
(* Offers.                                                                  *)

(* ListGroupPackages and buildPackagesAvailable.                            *)
Available(cat, names) == [p \in Packages |-> IF p \in names THEN cat[p] ELSE None]
Wanted == Available(catalogue, assigned)

(* An offer reaches the agent and onMessage starts a goroutine; or it is    *)
(* lost with the connection.  Without packages there is no offer.           *)
Deliver(offer) ==
    \/ UNCHANGED sync
    \/ /\ offer # NoOffer
       /\ \E g \in Goroutines :
            /\ sync[g].pc = "idle"
            /\ sync' = [sync EXCEPT ![g] = [Idle EXCEPT !.pc = "wait", !.offer = offer]]

(* Mutant: a message without statuses is taken to report the last ones.     *)
HeartbeatKnown ==
    /\ Deliver(IF Wanted = provided THEN NoOffer ELSE Wanted)
    /\ UNCHANGED <<server, local, provided, torn, ops, faults>>

(* buildServerToAgent for a message without package statuses, such as a     *)
(* heartbeat: it reports no hash, so the packages are offered.              *)
Heartbeat ==
    /\ Deliver(Wanted)
    /\ UNCHANGED <<server, local, provided, torn, ops, faults>>

(* For a message with statuses: only when the hash differs.                 *)
Report ==
    /\ Wanted # provided
    /\ Deliver(Wanted)
    /\ UNCHANGED <<server, local, provided, torn, ops, faults>>

-----------------------------------------------------------------------------
(* The admin API.                                                           *)

(* handleUpsertPackage: pushes nothing.                                     *)
UpsertPackage(p, c) ==
    /\ Operate
    /\ c # catalogue[p]
    /\ catalogue' = [catalogue EXCEPT ![p] = c]
    /\ newest' = [newest EXCEPT ![p] = IF c > @ THEN c ELSE @]
    /\ reverted' = (reverted \/ c < newest[p])
    /\ UNCHANGED <<assigned, sync>>

(* Mutant: the assignments of a package stay.                               *)
DeleteKeepsAssignments(p) ==
    /\ Operate
    /\ catalogue[p] # None
    /\ catalogue' = [catalogue EXCEPT ![p] = None]
    /\ UNCHANGED <<assigned, sync, newest, reverted>>

(* handleDeletePackage: the assignments go with the row; pushes nothing.    *)
DeletePackage(p) ==
    /\ Operate
    /\ catalogue[p] # None
    /\ catalogue' = [catalogue EXCEPT ![p] = None]
    /\ assigned' = assigned \ {p}
    /\ UNCHANGED <<sync, newest, reverted>>

(* handleAssignPackage: GetPackage finds it; PushGroup offers every package *)
(* of the group, changed or not.                                            *)
AssignPackage(p) ==
    /\ Operate
    /\ catalogue[p] # None
    /\ assigned' = assigned \cup {p}
    /\ Deliver(Available(catalogue, assigned'))
    /\ UNCHANGED <<catalogue, newest, reverted>>

UnassignPackage(p) ==
    /\ Operate
    /\ p \in assigned
    /\ assigned' = assigned \ {p}
    /\ Deliver(Available(catalogue, assigned'))
    /\ UNCHANGED <<catalogue, newest, reverted>>

-----------------------------------------------------------------------------
(* The agent.                                                               *)

Syncing == \E g \in Goroutines : sync[g].pc = "run"

(* Sync gets the lock, reports the hash of the offer, and when the agent    *)
(* does not have it yet deletes the packages that are not offered.          *)
BeginSync(g) ==
    LET offer == sync[g].offer IN
    /\ sync[g].pc = "wait" /\ ~Syncing
    /\ provided' = offer
    /\ IF local.allHash = offer
       THEN sync' = [sync EXCEPT ![g] = Idle] /\ UNCHANGED local
       ELSE /\ sync' = [sync EXCEPT ![g].pc = "run", ![g].todo = Names(offer)]
            /\ local' = [local EXCEPT
                   !.known = @ \cap Names(offer),
                   !.state = [p \in Packages |-> IF offer[p] = None THEN None ELSE @[p]],
                   !.file = [p \in Packages |->
                       IF p \in local.known /\ offer[p] = None THEN None ELSE @[p]]]
    /\ UNCHANGED <<server, torn, ops, faults>>

SyncsPackage(g, p) == sync[g].pc = "run" /\ p \in sync[g].todo

(* CreatePackage when it is not known, then SetPackageState with the hash   *)
(* that was offered.                                                        *)
Record(p, offer, file) ==
    /\ local' = [local EXCEPT !.known = @ \cup {p}, !.state[p] = offer[p], !.file[p] = file]
    /\ torn' = torn \ {p}

(* The recorded hash, or that of the file, is the one offered: nothing is   *)
(* downloaded.                                                              *)
SkipDownload(g, p) ==
    LET offer == sync[g].offer IN
    /\ SyncsPackage(g, p)
    /\ offer[p] \in {local.state[p], local.file[p]}
    /\ IF local.state[p] = offer[p] THEN UNCHANGED <<local, torn>>
       ELSE Record(p, offer, local.file[p])
    /\ sync' = [sync EXCEPT ![g].todo = @ \ {p}]
    /\ UNCHANGED <<server, provided, ops, faults>>

NeedsDownload(g, p) ==
    SyncsPackage(g, p) /\ sync[g].offer[p] \notin {local.state[p], local.file[p]}

(* Mutant: the URL of an offer names its content.                           *)
DownloadOffered(g, p) ==
    /\ NeedsDownload(g, p)
    /\ catalogue[p] # None
    /\ Record(p, sync[g].offer, sync[g].offer[p])
    /\ sync' = [sync EXCEPT ![g].todo = @ \ {p}]
    /\ UNCHANGED <<server, provided, ops, faults>>

(* handlePackageContent and UpdateContent: the content of the moment is     *)
(* written and recorded as the one that was offered.                        *)
Download(g, p) ==
    /\ NeedsDownload(g, p)
    /\ catalogue[p] # None
    /\ Record(p, sync[g].offer, catalogue[p])
    /\ sync' = [sync EXCEPT ![g].todo = @ \ {p}]
    /\ UNCHANGED <<server, provided, ops, faults>>

(* The package is gone (404), the server is not reached, or the copy breaks *)
(* off in the file that os.Create has truncated.                            *)
DownloadFails(g, p) ==
    /\ NeedsDownload(g, p)
    /\ \/ catalogue[p] = None /\ UNCHANGED <<faults>>
          /\ local' = [local EXCEPT !.known = @ \cup {p}]
       \/ Fault /\ \E file \in {local.file[p], Partial} :
              local' = [local EXCEPT !.known = @ \cup {p}, !.file[p] = file]
    /\ sync' = [sync EXCEPT ![g].todo = @ \ {p}, ![g].failed = TRUE]
    /\ torn' = torn \cup {p}
    /\ UNCHANGED <<server, provided, ops>>

(* All packages are done: the hash is kept only when none failed.           *)
EndSync(g) ==
    /\ sync[g].pc = "run" /\ sync[g].todo = {}
    /\ local' = IF sync[g].failed THEN local ELSE [local EXCEPT !.allHash = sync[g].offer]
    /\ torn' = IF sync[g].failed THEN torn \cup (Packages \ Names(sync[g].offer))
                ELSE torn \cap Names(sync[g].offer)
    /\ sync' = [sync EXCEPT ![g] = Idle]
    /\ UNCHANGED <<server, provided, ops, faults>>

(* The states are in memory, the files are not.                             *)
AgentRestart ==
    /\ Fault
    /\ local' = Fresh(local.file)
    /\ provided' = NoOffer
    /\ sync' = [g \in Goroutines |-> Idle]
    /\ torn' = {}
    /\ UNCHANGED <<server, ops>>

-----------------------------------------------------------------------------
SyncSteps(g) ==
    \/ BeginSync(g) \/ EndSync(g)
    \/ \E p \in Packages : SkipDownload(g, p) \/ Download(g, p) \/ DownloadFails(g, p)

Admin ==
    \E p \in Packages :
        \/ \E c \in Contents : UpsertPackage(p, c)
        \/ DeletePackage(p) \/ AssignPackage(p) \/ UnassignPackage(p)

Next ==
    \/ Admin \/ Heartbeat \/ Report \/ AgentRestart
    \/ \E g \in Goroutines : SyncSteps(g)

Spec == Init /\ [][Next]_vars

(* The agent's heartbeats go on and some are answered; goroutines get the   *)
(* lock in turn.  Operators need not act and nothing has to fail.           *)
FairSpec ==
    /\ Spec
    /\ SF_vars(Heartbeat)
    /\ \A g \in Goroutines : SF_vars(SyncSteps(g))

-----------------------------------------------------------------------------
\* Offers, goroutines and downloads in any order never put an older content
\* in place of a newer one that the agent has, as long as no operator does:
\* an offer that is handled late records an old hash, but for the newest
\* content.
FilesForward ==
    [][\A p \in Packages :
        /\ ~reverted'
        /\ local.file[p] \in Contents /\ local'.file[p] \in Contents
        => local'.file[p] >= local.file[p]]_vars

Installed ==
    /\ local.known = assigned
    /\ local.allHash = Wanted /\ local.state = Wanted
    /\ \A p \in assigned : local.file[p] = catalogue[p]

\* The hash of an earlier success is the one wanted, but a sync of something
\* else failed in between: nothing tells the agent to repair what it broke.
Fooled == local.allHash = Wanted /\ torn # {}

\* Although uploads are not pushed, offers are lost or overtake each other
\* and downloads fail, once operators stop the agent gets exactly the packages
\* of its group, each with its content, and keeps them: provided the group
\* has a package (nothing is offered without), no upload put an older content
\* back (then a hash may be recorded for another content), and the agent is
\* not fooled for ever.
PackagesConverge ==
    <>[](assigned # {} /\ ~reverted /\ ~Fooled) => <>[]Installed
=============================================================================

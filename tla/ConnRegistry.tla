---------------------------- MODULE ConnRegistry ----------------------------
(***************************************************************************)
(* The live connection registry of the OpAMP server (Manager.byUID and     *)
(* Manager.byConn) together with the status column of the agents table and *)
(* the connected/disconnected events.                                      *)
(*                                                                         *)
(* The OpAMP library runs one goroutine per connection: it calls onMessage *)
(* for each message of that connection in turn and onConnectionClose once, *)
(* after the last of them.  Goroutines of different connections interleave *)
(* at every lock and at every database statement, and nothing stops two    *)
(* connections from speaking for one instance UID (an agent that           *)
(* reconnects before the server noticed the loss of its old socket, two    *)
(* hosts cloned with one state directory).                                 *)
(***************************************************************************)
EXTENDS Naturals

CONSTANTS
    Conns,        \* connection objects (a name is reused once it is free)
    Uids,         \* instance UIDs
    None,         \* no connection, no UID
    MaxFaults     \* bound on failed statements and restarts together

ASSUME NoneAssumption == None \notin Conns /\ None \notin Uids
ASSUME FaultsAssumption == MaxFaults \in Nat

VARIABLES
    pc,         \* where the goroutine of a connection stands
    speaks,     \* the UID of the peer that opened the connection
    cur,        \* local variable uid of the running callback
    isNew,      \* local variable isNew of onMessage
    byUID,      \* Manager.byUID
    byConn,     \* Manager.byConn
    status,     \* column status of the agents table; "absent" when no row
    announced,  \* history: UIDs a "connected" event was added for, by connection
    missed,     \* history: UIDs whose "connected" event could not be added, likewise
    lost,       \* history: UIDs whose last "disconnected" write never happened
    faults      \* failed statements and restarts so far

vars == <<pc, speaks, cur, isNew, byUID, byConn, status, announced, missed, lost, faults>>

\* "free": no socket.  "idle": open, waiting for a message.  onMessage is at
\* "touch" (registered, before TouchAgent) or "event" (before AddEvent);
\* onConnectionClose at "setStatus" (unlocked, before SetAgentStatus) or
\* "logClose" (before AddEvent).
PCs == {"free", "idle", "touch", "event", "setStatus", "logClose"}
Statuses == {"absent", "connected", "disconnected"}

TypeOK ==
    /\ pc \in [Conns -> PCs]
    /\ speaks \in [Conns -> Uids \cup {None}]
    /\ cur \in [Conns -> Uids \cup {None}]
    /\ isNew \in [Conns -> BOOLEAN]
    /\ byUID \in [Uids -> Conns \cup {None}]
    /\ byConn \in [Conns -> Uids \cup {None}]
    /\ status \in [Uids -> Statuses]
    /\ announced \in [Conns -> SUBSET Uids]
    /\ missed \in [Conns -> SUBSET Uids]
    /\ lost \in SUBSET Uids
    /\ faults \in 0..MaxFaults

Init ==
    /\ pc = [c \in Conns |-> "free"]
    /\ speaks = [c \in Conns |-> None]
    /\ cur = [c \in Conns |-> None]
    /\ isNew = [c \in Conns |-> FALSE]
    /\ byUID = [u \in Uids |-> None]
    /\ byConn = [c \in Conns |-> None]
    /\ status = [u \in Uids |-> "absent"]
    /\ announced = [c \in Conns |-> {}]
    /\ missed = [c \in Conns |-> {}]
    /\ lost = {}
    /\ faults = 0

-----------------------------------------------------------------------------
(* OnConnecting and onConnected: a socket opens and nothing is registered.  *)
(* A connection the registry still refers to is not collected, so its name  *)
(* cannot be that of a new connection.                                      *)
Accept(c, u) ==
    /\ pc[c] = "free"
    /\ \A v \in Uids : byUID[v] # c
    /\ pc' = [pc EXCEPT ![c] = "idle"]
    /\ speaks' = [speaks EXCEPT ![c] = u]
    /\ announced' = [announced EXCEPT ![c] = {}]
    /\ missed' = [missed EXCEPT ![c] = {}]
    /\ UNCHANGED <<cur, isNew, byUID, byConn, status, lost, faults>>

(* Mutant: a replacement of a live connection is not reported as new.       *)
NewlyObservedOnlyFirst(c, u) == byUID[u] = None
NewlyObserved(c, u) == byUID[u] # c

(* onMessage up to and including registerConn, one critical section of mu.  *)
Register(c, u) ==
    /\ pc[c] = "idle"
    /\ u = speaks[c]
    /\ byUID' = [byUID EXCEPT ![u] = c]
    /\ byConn' = [byConn EXCEPT ![c] = u]
    /\ isNew' = [isNew EXCEPT ![c] = NewlyObserved(c, u)]
    /\ cur' = [cur EXCEPT ![c] = u]
    /\ pc' = [pc EXCEPT ![c] = "touch"]
    /\ UNCHANGED <<speaks, status, announced, missed, lost, faults>>

Fault == faults < MaxFaults /\ faults' = faults + 1

Return(c, to) ==
    /\ pc' = [pc EXCEPT ![c] = to]
    /\ cur' = [cur EXCEPT ![c] = None]
    /\ isNew' = [isNew EXCEPT ![c] = FALSE]

AfterTouch(c) ==
    IF isNew[c] THEN pc' = [pc EXCEPT ![c] = "event"] /\ UNCHANGED <<cur, isNew>>
                ELSE Return(c, "idle")

(* Mutant: only a new connection marks the row.                             *)
TouchOnlyNew(c) ==
    /\ pc[c] = "touch"
    /\ status' = [status EXCEPT ![cur[c]] = IF isNew[c] THEN "connected" ELSE @]
    /\ lost' = lost \ {cur[c]}
    /\ AfterTouch(c)
    /\ UNCHANGED <<speaks, byUID, byConn, announced, missed, faults>>

(* TouchAgent: the upsert that marks the row connected.  Its error is only  *)
(* logged.                                                                  *)
Touch(c) ==
    /\ pc[c] = "touch"
    /\ status' = [status EXCEPT ![cur[c]] = "connected"]
    /\ lost' = lost \ {cur[c]}
    /\ AfterTouch(c)
    /\ UNCHANGED <<speaks, byUID, byConn, announced, missed, faults>>

TouchFails(c) ==
    /\ Fault
    /\ pc[c] = "touch"
    /\ AfterTouch(c)
    /\ UNCHANGED <<speaks, byUID, byConn, status, announced, missed, lost>>

(* AddEvent "connected", when registerConn said the connection is new.      *)
AnnounceConnected(c) ==
    /\ pc[c] = "event"
    /\ announced' = [announced EXCEPT ![c] = @ \cup {cur[c]}]
    /\ Return(c, "idle")
    /\ UNCHANGED <<speaks, byUID, byConn, status, missed, lost, faults>>

(* It fails, which onMessage ignores; the next message of the connection is *)
(* not that of a new one.                                                   *)
AnnounceConnectedFails(c) ==
    /\ Fault
    /\ pc[c] = "event"
    /\ missed' = [missed EXCEPT ![c] = @ \cup {cur[c]}]
    /\ Return(c, "idle")
    /\ UNCHANGED <<speaks, byUID, byConn, status, announced, lost>>

-----------------------------------------------------------------------------
(* Mutants: the entry goes whatever it points at; it never goes.            *)
UnregisteredAlways(c) ==
    [u \in Uids |-> IF u = byConn[c] THEN None ELSE byUID[u]]
UnregisteredNever(c) == byUID

(* The entry of uid is cleared only if it still points at this connection.  *)
Unregistered(c) ==
    [u \in Uids |-> IF u = byConn[c] /\ byUID[u] = c THEN None ELSE byUID[u]]

(* Mutant: an already replaced connection leaves the status alone.          *)
AfterCloseOnlyCurrent(c) ==
    IF byConn[c] # None /\ c \in {byUID[u] : u \in Uids} THEN "setStatus" ELSE "free"
(* A connection that never registered has nothing left to do.               *)
AfterClose(c) == IF byConn[c] = None THEN "free" ELSE "setStatus"

(* onConnectionClose, the critical section of mu.                           *)
Close(c) ==
    /\ pc[c] = "idle"
    /\ speaks' = [speaks EXCEPT ![c] = None]
    /\ byConn' = [byConn EXCEPT ![c] = None]
    /\ byUID' = Unregistered(c)
    /\ cur' = [cur EXCEPT ![c] = byConn[c]]
    /\ pc' = [pc EXCEPT ![c] = AfterClose(c)]
    /\ UNCHANGED <<isNew, status, announced, missed, lost, faults>>

(* Mutant: a status the schema does not know.                               *)
DisconnectedOffline(u) ==
    [status EXCEPT ![u] = IF @ = "absent" THEN "absent" ELSE "offline"]
(* SetAgentStatus "disconnected": an UPDATE, so it does nothing when there  *)
(* is no row.  It does not ask whether the UID has a newer connection.      *)
Disconnected(u) ==
    [status EXCEPT ![u] = IF @ = "absent" THEN "absent" ELSE "disconnected"]

SetDisconnected(c) ==
    /\ pc[c] = "setStatus"
    /\ status' = Disconnected(cur[c])
    /\ lost' = lost \ {cur[c]}
    /\ pc' = [pc EXCEPT ![c] = "logClose"]
    /\ UNCHANGED <<speaks, cur, isNew, byUID, byConn, announced, missed, faults>>

SetDisconnectedFails(c) ==
    /\ Fault
    /\ pc[c] = "setStatus"
    /\ lost' = lost \cup {cur[c]}
    /\ pc' = [pc EXCEPT ![c] = "logClose"]
    /\ UNCHANGED <<speaks, cur, isNew, byUID, byConn, status, announced, missed>>

(* AddEvent "disconnected", whose error is ignored; the goroutine of the    *)
(* connection ends.                                                         *)
AnnounceDisconnected(c) ==
    /\ pc[c] = "logClose"
    /\ Return(c, "free")
    /\ UNCHANGED <<speaks, byUID, byConn, status, announced, missed, lost, faults>>

(* The orchestrator dies and is started again: New makes empty maps, the    *)
(* agents table keeps what was written.                                     *)
Restart ==
    /\ Fault
    /\ pc' = [c \in Conns |-> "free"]
    /\ speaks' = [c \in Conns |-> None]
    /\ cur' = [c \in Conns |-> None]
    /\ isNew' = [c \in Conns |-> FALSE]
    /\ byUID' = [u \in Uids |-> None]
    /\ byConn' = [c \in Conns |-> None]
    /\ announced' = [c \in Conns |-> {}]
    /\ missed' = [c \in Conns |-> {}]
    /\ lost' = lost \cup {u \in Uids : status[u] = "connected"}
    /\ UNCHANGED status

Message(c) == \E u \in Uids : Register(c, u)

Callback(c) ==
    \/ Touch(c)
    \/ TouchFails(c)
    \/ AnnounceConnected(c)
    \/ AnnounceConnectedFails(c)
    \/ SetDisconnected(c)
    \/ SetDisconnectedFails(c)
    \/ AnnounceDisconnected(c)

Next ==
    \/ \E c \in Conns :
        \/ \E u \in Uids : Accept(c, u)
        \/ Message(c)
        \/ Callback(c)
        \/ Close(c)
    \/ Restart

Spec == Init /\ [][Next]_vars

(* A callback that runs is scheduled until it returns; a peer whose         *)
(* connection stays open sends another heartbeat.  Nothing obliges a peer   *)
(* to connect or to leave, or the process to restart.                       *)
Fairness == \A c \in Conns : WF_vars(Callback(c)) /\ WF_vars(Message(c))

FairSpec == Spec /\ Fairness

-----------------------------------------------------------------------------
(* ConnectedUIDs, the set a group push and the agent list go by.            *)
ConnectedUIDs == {u \in Uids : byUID[u] # None}

(* What GET /agents/{uid} answers: the column, corrected towards connected. *)
ShownStatus(u) == IF u \in ConnectedUIDs THEN "connected" ELSE status[u]

Open(c) == pc[c] \in {"idle", "touch", "event"}

(* Owns(c, u): connection c still speaks for u, or is closing and has yet   *)
(* to write that u is disconnected.                                         *)
Owns(c, u) == byConn[c] = u \/ (pc[c] = "setStatus" /\ cur[c] = u)

\* The registry never hands out a dead connection: what byUID gives for a
\* UID is an open connection that byConn files under the same UID.
RegistryLive ==
    \A u \in Uids : byUID[u] # None =>
        /\ Open(byUID[u])
        /\ byConn[byUID[u]] = u

\* An agent is shown as connected only while one of its connections is
\* registered or about to write otherwise, except where that write was lost
\* to a failed statement or to a restart.
StatusHonest ==
    \A u \in Uids : ShownStatus(u) = "connected" =>
        u \in lost \/ \E c \in Conns : Owns(c, u)

\* The event log pairs: a connection whose "disconnected" event is about to
\* be added had its "connected" event added for the same UID, however other
\* connections of that UID came and went; only a statement that failed for
\* this very connection leaves the one without the other.
EventsPaired ==
    \A c \in Conns : pc[c] \in {"setStatus", "logClose"} =>
        cur[c] \in announced[c] \cup missed[c]

\* Closing a connection never takes a newer connection of the same agent out
\* of the registry: an entry disappears only with the connection it names.
NoEviction ==
    [][Restart \/
        \A u \in Uids : byUID[u] # None /\ byUID'[u] = None =>
            byConn[byUID[u]] # None /\ byConn'[byUID[u]] = None]_vars

\* An agent whose connection stays open is, again and again, registered for
\* pushes and shown as connected, whatever its older connections do while
\* they close.
PresenceHeals ==
    \A c \in Conns, u \in Uids :
        <>[](speaks[c] = u) =>
            []<>(u \in ConnectedUIDs /\ status[u] = "connected")

\* An agent all of whose connections are gone for good ends as not connected,
\* unless the write that says so was lost.
AbsenceSettles ==
    \A u \in Uids :
        <>[](\A c \in Conns : speaks[c] # u) =>
            <>[](u \in lost \/ ShownStatus(u) # "connected")
=============================================================================

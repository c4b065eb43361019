------------------------- MODULE ConnRegistryProofs -------------------------
(* The safety properties of ConnRegistry hold for every set of connections  *)
(* and UIDs and any bound on failing statements and restarts.             *)
EXTENDS ConnRegistry, TLAPS

(* What each program counter says of the variables the connection owns:     *)
(* a connection leaves byConn before it closes, and while a callback runs   *)
(* its local uid is the UID its peer speaks for.                            *)
LocalsAgree ==
    \A c \in Conns :
        /\ Open(c) => speaks[c] \in Uids
        /\ byConn[c] # None => Open(c) /\ byConn[c] = speaks[c]
        /\ pc[c] \in {"touch", "event"} => cur[c] = speaks[c] /\ byConn[c] = speaks[c]
        /\ pc[c] \in {"setStatus", "logClose"} => cur[c] \in Uids
        /\ pc[c] = "event" => isNew[c]

(* Why no connection closes unannounced: registerConn answers FALSE only to *)
(* a connection byUID already names, and for such a one the event was added *)
(* or the statement that adds it failed.                                   *)
AnnouncedFirst ==
    \A c \in Conns :
        /\ pc[c] = "idle" /\ byConn[c] # None => byConn[c] \in announced[c] \cup missed[c]
        /\ pc[c] = "touch" /\ ~isNew[c] => cur[c] \in announced[c] \cup missed[c]
        /\ pc[c] \in {"setStatus", "logClose"} => cur[c] \in announced[c] \cup missed[c]

ColumnHonest ==
    \A u \in Uids : status[u] = "connected" =>
        u \in lost \/ \E c \in Conns : Owns(c, u)

IInv == TypeOK /\ LocalsAgree /\ RegistryLive /\ AnnouncedFirst /\ ColumnHonest

(* The maps start empty, so every part of the invariant holds vacuously.    *)
LEMMA InitIInv == Init => IInv
BY NoneAssumption, FaultsAssumption
   DEF Init, IInv, TypeOK, PCs, Statuses, LocalsAgree, RegistryLive,
       AnnouncedFirst, ColumnHonest, Open, Owns

(* One step for each action; a stuttering step changes nothing.             *)
LEMMA NextIInv == IInv /\ [Next]_vars => IInv'
<1> SUFFICES ASSUME IInv, [Next]_vars PROVE IInv'
    OBVIOUS
<1> USE NoneAssumption, FaultsAssumption
    DEF IInv, TypeOK, PCs, Statuses, LocalsAgree, RegistryLive,
        AnnouncedFirst, ColumnHonest, Open, Owns
<1>1. ASSUME NEW c \in Conns, NEW u \in Uids, Accept(c, u) PROVE IInv'
    BY <1>1 DEF Accept
<1>2. ASSUME NEW c \in Conns, NEW u \in Uids, Register(c, u) PROVE IInv'
    <2>1. TypeOK'
        BY <1>2 DEF Register, NewlyObserved
    <2>2. LocalsAgree'
        BY <1>2 DEF Register, NewlyObserved
    <2>3. RegistryLive'
        BY <1>2 DEF Register, NewlyObserved
    <2>4. AnnouncedFirst'
        <3>1. byUID[u] = c => u \in announced[c] \cup missed[c]
            BY <1>2 DEF Register
        <3>2. byUID[u] # c => isNew'[c]
            <4>1. isNew'[c] = NewlyObserved(c, u)
                BY <1>2 DEF Register
            <4> QED BY <4>1, Zenon DEF NewlyObserved
        <3>3. cur'[c] = u /\ pc'[c] = "touch" /\ announced' = announced /\ missed' = missed
            BY <1>2 DEF Register
        <3>4. \A d \in Conns \ {c} : /\ pc'[d] = pc[d] /\ cur'[d] = cur[d]
                                     /\ isNew'[d] = isNew[d] /\ byConn'[d] = byConn[d]
            BY <1>2 DEF Register
        <3> QED BY <3>1, <3>2, <3>3, <3>4
    <2>5. ColumnHonest'
        BY <1>2 DEF Register, NewlyObserved
    <2> QED BY <2>1, <2>2, <2>3, <2>4, <2>5
<1>3. ASSUME NEW c \in Conns, Touch(c) PROVE IInv'
    <2>1. TypeOK'
        <3>1. CASE isNew[c]
            <4>1. cur' = cur /\ isNew' = isNew /\ pc' = [pc EXCEPT ![c] = "event"]
                BY <1>3, <3>1 DEF Touch, AfterTouch
            <4> QED BY <1>3, <4>1 DEF Touch
        <3>2. CASE ~isNew[c]
            <4>1. Return(c, "idle")
                BY <1>3, <3>2 DEF Touch, AfterTouch
            <4> QED BY <1>3, <4>1 DEF Touch, Return
        <3> QED BY <3>1, <3>2
    <2>2. LocalsAgree'
        BY <1>3 DEF Touch, AfterTouch, Return
    <2>3. RegistryLive'
        BY <1>3 DEF Touch, AfterTouch, Return
    <2>4. AnnouncedFirst'
        BY <1>3 DEF Touch, AfterTouch, Return
    <2>5. ColumnHonest'
        BY <1>3 DEF Touch, AfterTouch, Return
    <2> QED BY <2>1, <2>2, <2>3, <2>4, <2>5
<1>4. ASSUME NEW c \in Conns, TouchFails(c) PROVE IInv'
    <2>1. TypeOK'
        <3>1. CASE isNew[c]
            <4>1. cur' = cur /\ isNew' = isNew /\ pc' = [pc EXCEPT ![c] = "event"]
                BY <1>4, <3>1 DEF TouchFails, Fault, AfterTouch
            <4> QED BY <1>4, <4>1 DEF TouchFails, Fault
        <3>2. CASE ~isNew[c]
            <4>1. Return(c, "idle")
                BY <1>4, <3>2 DEF TouchFails, Fault, AfterTouch
            <4> QED BY <1>4, <4>1 DEF TouchFails, Fault, Return
        <3> QED BY <3>1, <3>2
    <2>2. LocalsAgree'
        BY <1>4 DEF TouchFails, Fault, AfterTouch, Return
    <2>3. RegistryLive'
        BY <1>4 DEF TouchFails, Fault, AfterTouch, Return
    <2>4. AnnouncedFirst'
        BY <1>4 DEF TouchFails, Fault, AfterTouch, Return
    <2>5. ColumnHonest'
        BY <1>4 DEF TouchFails, Fault, AfterTouch, Return
    <2> QED BY <2>1, <2>2, <2>3, <2>4, <2>5
<1>5. ASSUME NEW c \in Conns, AnnounceConnected(c) PROVE IInv'
    <2>1. TypeOK'
        BY <1>5 DEF AnnounceConnected, Return
    <2>2. LocalsAgree'
        BY <1>5 DEF AnnounceConnected, Return
    <2>3. RegistryLive'
        BY <1>5 DEF AnnounceConnected, Return
    <2>4. AnnouncedFirst'
        BY <1>5 DEF AnnounceConnected, Return
    <2>5. ColumnHonest'
        BY <1>5 DEF AnnounceConnected, Return
    <2> QED BY <2>1, <2>2, <2>3, <2>4, <2>5
<1>13. ASSUME NEW c \in Conns, AnnounceConnectedFails(c) PROVE IInv'
    <2>1. TypeOK'
        BY <1>13 DEF AnnounceConnectedFails, Fault, Return
    <2>2. LocalsAgree'
        BY <1>13 DEF AnnounceConnectedFails, Fault, Return
    <2>3. RegistryLive'
        BY <1>13 DEF AnnounceConnectedFails, Fault, Return
    <2>4. AnnouncedFirst'
        BY <1>13 DEF AnnounceConnectedFails, Fault, Return
    <2>5. ColumnHonest'
        BY <1>13 DEF AnnounceConnectedFails, Fault, Return
    <2> QED BY <2>1, <2>2, <2>3, <2>4, <2>5
<1>6. ASSUME NEW c \in Conns, Close(c) PROVE IInv'
    BY <1>6 DEF Close, AfterClose, Unregistered
<1>7. ASSUME NEW c \in Conns, SetDisconnected(c) PROVE IInv'
    BY <1>7 DEF SetDisconnected, Disconnected
<1>8. ASSUME NEW c \in Conns, SetDisconnectedFails(c) PROVE IInv'
    BY <1>8 DEF SetDisconnectedFails, Fault
<1>9. ASSUME NEW c \in Conns, AnnounceDisconnected(c) PROVE IInv'
    BY <1>9 DEF AnnounceDisconnected, Return
<1>10. ASSUME Restart PROVE IInv'
    BY <1>10 DEF Restart, Fault
<1>11. CASE UNCHANGED vars
    BY <1>11 DEF vars
<1>12. QED
    BY <1>1, <1>2, <1>3, <1>4, <1>5, <1>6, <1>7, <1>8, <1>9, <1>10, <1>11, <1>13
       DEF Next, Message, Callback

(* The inductive invariant: IInv holds of every reachable state.            *)
THEOREM Invariance == Spec => []IInv
<1> QED BY InitIInv, NextIInv, PTL DEF Spec

(* Every variable keeps its type.                                           *)
THEOREM TypeCorrect == Spec => []TypeOK
<1>1. IInv => TypeOK
    BY DEF IInv
<1> QED BY <1>1, Invariance, PTL

(* What byUID gives for an agent (connFor, and so PushToAgent) is an open   *)
(* connection that byConn files under the same UID.                         *)
THEOREM LiveRegistry == Spec => []RegistryLive
<1>1. IInv => RegistryLive
    BY DEF IInv
<1> QED BY <1>1, Invariance, PTL

(* GET /agents/{uid} shows connected only for an agent one of whose         *)
(* connections is registered or is about to write otherwise, unless that    *)
(* write was lost: for a listed UID the connection byUID names is the       *)
(* witness, for the others the column speaks.                               *)
THEOREM HonestStatus == Spec => []StatusHonest
<1>1. IInv => StatusHonest
  <2> SUFFICES ASSUME IInv, NEW u \in Uids, ShownStatus(u) = "connected"
               PROVE  u \in lost \/ \E c \in Conns : Owns(c, u)
      BY DEF StatusHonest
  <2>1. CASE u \in ConnectedUIDs
    <3>1. byUID[u] \in Conns /\ byConn[byUID[u]] = u
        BY <2>1 DEF IInv, TypeOK, RegistryLive, ConnectedUIDs
    <3> QED BY <3>1 DEF Owns
  <2>2. CASE u \notin ConnectedUIDs
    <3>1. status[u] = "connected"
        BY <2>2 DEF ShownStatus
    <3> QED BY <3>1 DEF IInv, ColumnHonest
  <2> QED BY <2>1, <2>2
<1> QED BY <1>1, Invariance, PTL

(* onConnectionClose logs "disconnected" only for a connection onMessage    *)
(* logged "connected" for, unless that statement failed.                    *)
THEOREM PairedEvents == Spec => []EventsPaired
<1>1. IInv => EventsPaired
    BY DEF IInv, AnnouncedFirst, EventsPaired
<1> QED BY <1>1, Invariance, PTL

(* The check cur == conn of onConnectionClose: between restarts an entry of *)
(* byUID disappears only with the connection it names, never with an older  *)
(* connection of the same agent.                                            *)
THEOREM NeverEvicts == Spec => NoEviction
<1> DEFINE Evicts == Restart \/
        \A u \in Uids : byUID[u] # None /\ byUID'[u] = None =>
            byConn[byUID[u]] # None /\ byConn'[byUID[u]] = None
<1>1. IInv /\ [Next]_vars => [Evicts]_vars
  <2> SUFFICES ASSUME IInv, Next, ~Restart,
                      NEW u \in Uids, byUID[u] # None, byUID'[u] = None
               PROVE  byConn[byUID[u]] # None /\ byConn'[byUID[u]] = None
      BY DEF Evicts
  <2> USE NoneAssumption, FaultsAssumption DEF IInv, TypeOK, RegistryLive
  <2>1. ASSUME NEW c \in Conns, NEW v \in Uids, Register(c, v) PROVE byUID'[u] # None
      BY <2>1 DEF Register
  <2>2. ASSUME NEW c \in Conns, Close(c)
        PROVE  byConn[byUID[u]] # None /\ byConn'[byUID[u]] = None
      BY <2>2 DEF Close, Unregistered
  <2>3. ASSUME NEW c \in Conns, NEW v \in Uids, Accept(c, v) PROVE byUID' = byUID
      BY <2>3 DEF Accept
  <2>4. ASSUME NEW c \in Conns, Callback(c) PROVE byUID' = byUID
      BY <2>4 DEF Callback, Touch, TouchFails, AnnounceConnected, AnnounceConnectedFails, SetDisconnected,
                  SetDisconnectedFails, AnnounceDisconnected
  <2> QED BY <2>1, <2>2, <2>3, <2>4 DEF Next, Message
<1> QED BY <1>1, Invariance, PTL DEF Spec, NoEviction
=============================================================================

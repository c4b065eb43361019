------------------------ MODULE ConfigRolloutProofs -------------------------
(* ConfigRollout implements Delivery for every set of agents, requests,     *)
(* groups and contents, and any bounds: all that an agent runs or has comes *)
(* from configurations published for its groups, and what it says it        *)
(* applied it runs whole.  And without faults an agent with nothing in      *)
(* flight runs what is current (second part).                               *)
EXTENDS ConfigRollout, SequenceTheorems, TLAPS

LEMMA InitTypeOK == Init => TypeOK
BY BoundsAssumption
   DEF Init, TypeOK, Task, Idle, Hosts, Tasks, Pushes, Hashes, Sections, Workers

(* A worker that waits, lists or loops holds no agent.                      *)
LEMMA TaskType ==
    ASSUME NEW pc \in {"idle", "list", "filter", "loop", "load"}
    PROVE  Task(pc) \in Tasks
BY DEF Task, Tasks, Hashes, Sections

LEMMA WorkersAre == Agents \subseteq Workers /\ Threads \subseteq Workers
BY DEF Workers

(* Changing a field of a record keeps its type.                             *)
LEMMA TaskField ==
    ASSUME NEW k \in Tasks
    PROVE  /\ \A x \in {"filter", "loop", "build", "send"} : [k EXCEPT !.pc = x] \in Tasks
           /\ \A x \in Groups : [k EXCEPT !.group = x] \in Tasks
           /\ \A x \in Hashes : [k EXCEPT !.offer = x] \in Tasks
           /\ \A x \in BOOLEAN : [k EXCEPT !.held = x] \in Tasks
BY DEF Tasks

LEMMA PushField ==
    ASSUME NEW k \in Pushes
    PROVE  \A x \in SUBSET Agents : [k EXCEPT !.todo = x] \in Pushes
BY DEF Pushes

(* Writing files, all of them or some, leaves files of the disk and files   *)
(* of the configuration that is written.                                    *)
LEMMA Written ==
    ASSUME NEW c \in Contents, NEW d
    PROVE  /\ Files(c) \subseteq AllFiles
           /\ \A f \in Files(c) : f[2] = c
           /\ \A f \in Overwrite(d, Files(c)) : f \in d \cup Files(c)
BY FilesAssumption DEF Files, AllFiles, Overwrite

LEMMA PartlyWritten ==
    ASSUME NEW c \in Contents, NEW d, NEW e \in Interrupted(d, c), NEW f \in e
    PROVE  f \in d \/ (f \in AllFiles /\ f[2] \in {c, Torn})
<1>1. PICK n \in FileNames[c] : e \in EndedAt(n, d, c)
    BY DEF Interrupted
<1>2. PICK S \in SUBSET (FileNames[c] \ {n}), T \in SUBSET {n} :
          e = Overwrite(d, (S \X {c}) \cup (T \X {Torn}))
    BY <1>1 DEF EndedAt
<1>3. f \in d \/ f \in S \X {c} \/ f \in T \X {Torn}
    BY <1>2 DEF Overwrite
<1>4. \A m \in S \cup T : m \in UNION {FileNames[x] : x \in Contents}
    OBVIOUS
<1> QED BY <1>3, <1>4 DEF AllFiles

LEMMA DiskType ==
    \A c \in Contents, d \in SUBSET AllFiles :
        /\ Files(c) \in SUBSET AllFiles
        /\ Overwrite(d, Files(c)) \in SUBSET AllFiles
        /\ \A e \in Interrupted(d, c) : e \in SUBSET AllFiles
<1> SUFFICES ASSUME NEW c \in Contents, NEW d \in SUBSET AllFiles
             PROVE  /\ Files(c) \in SUBSET AllFiles
                    /\ Overwrite(d, Files(c)) \in SUBSET AllFiles
                    /\ \A e \in Interrupted(d, c) : e \in SUBSET AllFiles
    OBVIOUS
<1>1. Files(c) \in SUBSET AllFiles /\ Overwrite(d, Files(c)) \in SUBSET AllFiles
    BY Written
<1>2. ASSUME NEW e \in Interrupted(d, c) PROVE e \in SUBSET AllFiles
    BY PartlyWritten
<1> QED BY <1>1, <1>2

LEMMA HostWrites ==
    ASSUME NEW k \in Hosts, NEW c \in Contents, NEW due \in BOOLEAN
    PROVE  /\ [effective |-> Files(c), disk |-> Overwrite(k.disk, Files(c)),
               last |-> c, failed |-> FALSE, due |-> due] \in Hosts
           /\ \A d \in Interrupted(k.disk, c) :
                  [effective |-> k.effective, disk |-> d,
                   last |-> c, failed |-> TRUE, due |-> due] \in Hosts
<1>1. k.disk \in SUBSET AllFiles /\ k.effective \in SUBSET AllFiles
    BY DEF Hosts
<1>2. /\ Files(c) \in SUBSET AllFiles
      /\ Overwrite(k.disk, Files(c)) \in SUBSET AllFiles
      /\ \A d \in Interrupted(k.disk, c) : d \in SUBSET AllFiles
    BY <1>1, DiskType, Zenon
<1>3. c \in Hashes
    BY DEF Hashes
<1> QED BY <1>1, <1>2, <1>3 DEF Hosts

LEMMA TaskStep ==
    ASSUME NEW k \in Tasks
    PROVE  /\ \A x \in Groups : [k EXCEPT !.pc = "build", !.group = x] \in Tasks
           /\ \A x \in Hashes : [k EXCEPT !.pc = "send", !.offer = x] \in Tasks
<1>1. [k EXCEPT !.pc = "build"] \in Tasks /\ [k EXCEPT !.pc = "send"] \in Tasks
    BY TaskField
<1> QED BY <1>1, TaskField

LEMMA ResolvedType ==
    ASSUME NEW a \in Agents, NEW group, NEW attributes
    PROVE  Resolved(a, group, attributes) \in Groups
BY SelectedAssumption DEF Resolved

(* Whatever fails of it, a message is taken.                                *)
LEMMA TakesMessage ==
    ASSUME NEW a \in Agents, ReceiveAny(a)
    PROVE  \E describes \in BOOLEAN, section \in {Absent, Head(up[a])} :
               Take(a, describes, section)
<1>1. (link[a] = "open") \in BOOLEAN
    OBVIOUS
<1> QED BY <1>1 DEF ReceiveAny, Receive, ReceiveUnsaved

(* A worker past its loop is about an agent, and one that builds an offer   *)
(* about a group.                                                           *)
HasAgent ==
    \A w \in Workers :
        /\ task[w].pc \in {"load", "build", "send"} => task[w].agent \in Agents
        /\ task[w].pc = "build" => task[w].group \in Groups

(* Each action assigns every variable a value of its type; only those that  *)
(* change a record or a queue take a step of their own.                     *)
LEMMA NextTypeOK == TypeOK /\ HasAgent /\ [Next]_vars => TypeOK'
<1> SUFFICES ASSUME TypeOK, HasAgent, [Next]_vars PROVE TypeOK'
    OBVIOUS
<1> USE BoundsAssumption, WorkersAre DEF TypeOK, database, network, Fault
<1>1. ASSUME NEW a \in Agents, Connect(a)
      PROVE  TypeOK'
    <2>1. host' \in [Agents -> Hosts]
        BY <1>1 DEF Connect, Hosts
    <2> QED BY <1>1, <2>1 DEF Connect
<1>2. ASSUME NEW a \in Agents, AgentSend(a)
      PROVE  TypeOK'
    <2>1. host' \in [Agents -> Hosts]
        BY <1>2 DEF AgentSend, Hosts
    <2>2. up' \in [Agents -> Seq(Sections)]
        BY <1>2 DEF AgentSend, Hosts, Sections
    <2> QED BY <1>2, <2>1, <2>2 DEF AgentSend
<1>3. ASSUME NEW a \in Agents, Apply(a)
      PROVE  TypeOK'
    <2>1. Head(down[a]) \in Contents /\ Tail(down[a]) \in Seq(Contents)
        BY <1>3, HeadTailProperties DEF Apply, Offered
    <2>2. host' \in [Agents -> Hosts]
      <3>1. host[a] \in Hosts /\ host[a].due \in BOOLEAN
          BY DEF Hosts
      <3>2. PICK due \in Status(a, Head(down[a]), FALSE) :
              host' = [host EXCEPT ![a] =
                          [effective |-> Files(Head(down[a])),
                           disk |-> Overwrite(host[a].disk, Files(Head(down[a]))),
                           last |-> Head(down[a]), failed |-> FALSE, due |-> due]]
          BY <1>3 DEF Apply
      <3>3. due \in BOOLEAN
          BY <3>1, <3>2 DEF Status
      <3> QED BY <2>1, <3>1, <3>2, <3>3, HostWrites
    <2> QED BY <1>3, <2>1, <2>2 DEF Apply, Offered
<1>4. ASSUME NEW a \in Agents, ApplyFails(a)
      PROVE  TypeOK'
    <2>1. Head(down[a]) \in Contents /\ Tail(down[a]) \in Seq(Contents)
        BY <1>4, HeadTailProperties DEF ApplyFails, Offered
    <2>2. host' \in [Agents -> Hosts]
      <3>1. host[a] \in Hosts /\ host[a].due \in BOOLEAN
          BY DEF Hosts
      <3>2. PICK due \in Status(a, Head(down[a]), TRUE),
                 d \in Interrupted(host[a].disk, Head(down[a])) :
              host' = [host EXCEPT ![a] =
                          [effective |-> host[a].effective, disk |-> d,
                           last |-> Head(down[a]), failed |-> TRUE, due |-> due]]
          BY <1>4 DEF ApplyFails
      <3>3. due \in BOOLEAN
          BY <3>1, <3>2 DEF Status
      <3> QED BY <2>1, <3>1, <3>2, <3>3, HostWrites
    <2> QED BY <1>4, <2>1, <2>2 DEF ApplyFails, Offered
<1>5. ASSUME NEW a \in Agents, Drop(a)
      PROVE  TypeOK'
    <2>1. task' \in [Workers -> Tasks]
        <3>1. task' = [w \in Workers |->
                          [task[w] EXCEPT !.held = task[w].held /\ task[w].agent # a]]
            BY <1>5 DEF Drop, Cut
        <3>2. \A w \in Workers : (task[w].held /\ task[w].agent # a) \in BOOLEAN
            OBVIOUS
        <3> QED BY <3>1, <3>2, TaskField
    <2> QED BY <1>5, <2>1 DEF Drop, Cut, Registered
<1>6. ASSUME NEW a \in Agents, AgentRestart(a)
      PROVE  TypeOK'
    <2>1. task' \in [Workers -> Tasks]
        <3>1. task' = [w \in Workers |->
                          [task[w] EXCEPT !.held = task[w].held /\ task[w].agent # a]]
            BY <1>6 DEF AgentRestart, Cut
        <3>2. \A w \in Workers : (task[w].held /\ task[w].agent # a) \in BOOLEAN
            OBVIOUS
        <3> QED BY <3>1, <3>2, TaskField
    <2>2. host' \in [Agents -> Hosts]
      <3>1. /\ host[a].disk \in SUBSET AllFiles
            /\ down[a] # <<>> => Head(down[a]) \in Contents
          BY HeadTailProperties DEF Hosts
      <3>2. PICK d \in {host[a].disk} \cup (IF down[a] = <<>> THEN {}
                                            ELSE Interrupted(host[a].disk, Head(down[a]))) :
              \E read \in SUBSET d :
                host' = [host EXCEPT ![a] =
                            [effective |-> read, disk |-> d, last |-> NoConfig,
                             failed |-> FALSE, due |-> FALSE]]
          BY <1>6 DEF AgentRestart
      <3>3. d \in SUBSET AllFiles
        <4>1. CASE d = host[a].disk
            BY <3>1, <4>1
        <4>2. CASE down[a] # <<>> /\ d \in Interrupted(host[a].disk, Head(down[a]))
            BY <3>1, <4>2, DiskType, Zenon
        <4> QED BY <3>2, <4>1, <4>2
      <3>4. \A read \in SUBSET d : read \in SUBSET AllFiles
          BY <3>3
      <3> QED BY <3>2, <3>3, <3>4 DEF Hosts, Hashes
    <2> QED BY <1>6, <2>1, <2>2 DEF AgentRestart, Cut, Registered
<1>7. ASSUME NEW a \in Agents, ReceiveAny(a)
      PROVE  TypeOK'
    <2>1. Head(up[a]) \in Sections /\ Tail(up[a]) \in Seq(Sections)
        BY <1>7, TakesMessage, HeadTailProperties DEF Take
    <2>2. PICK describes \in BOOLEAN, section \in {Absent, Head(up[a])} :
              Take(a, describes, section)
        BY <1>7, TakesMessage
    <2>3. task' \in [Workers -> Tasks]
        BY <2>1, <2>2 DEF Take, Task, Tasks, Hashes
    <2>4. reported' \in [Agents -> Hashes]
        BY <2>1, <2>2 DEF Take, Reported, Sections
    <2>5. member' \in [Agents -> SUBSET Groups]
        BY <2>2, ResolvedType DEF Take
    <2>6. faults' \in 0..MaxFaults
      <3>1. faults' \in {faults, faults + 1} /\ (faults' = faults \/ faults < MaxFaults)
          BY <1>7 DEF ReceiveAny, Receive, ReceiveUnsaved
      <3> QED BY <3>1
    <2> QED BY <2>1, <2>2, <2>3, <2>4, <2>5, <2>6 DEF Take
<1>9. ASSUME NEW a \in Agents, CloseConn(a) \/ ReceiveUnknown(a)
      PROVE  TypeOK'
    <2>1. CASE CloseConn(a)
        BY <2>1 DEF CloseConn
    <2>2. CASE ReceiveUnknown(a)
        <3>1. Tail(up[a]) \in Seq(Sections)
            BY <2>2, HeadTailProperties DEF ReceiveUnknown
        <3> QED BY <2>2, <3>1 DEF ReceiveUnknown
    <2> QED BY <1>9, <2>1, <2>2
<1>10. ASSUME NEW w \in Workers, Load(w)
      PROVE  TypeOK'
    <2>1. ResolveGroup(task[w].agent) \in Groups
        BY <1>10, ResolvedType DEF Load, ResolveGroup, HasAgent
    <2>2. task' \in [Workers -> Tasks]
        BY <1>10, <2>1, TaskStep DEF Load
    <2> QED BY <1>10, <2>1, <2>2 DEF Load
<1>11. ASSUME NEW w \in Workers, Build(w)
      PROVE  TypeOK'
    <2>1. task' \in [Workers -> Tasks]
        <3>1. Wanted(w) \in Hashes
            BY <1>11 DEF Build, Wanted, HasAgent, Hashes
        <3> QED BY <1>11, <3>1, TaskStep DEF Build
    <2> QED BY <1>11, <2>1 DEF Build
<1>8. ASSUME NEW w \in Workers, LoadIncapable(w)
      PROVE  TypeOK'
    <2>1. task' \in [Workers -> Tasks]
        BY <1>8, TaskStep DEF LoadIncapable, Hashes
    <2> QED BY <1>8, <2>1 DEF LoadIncapable
<1>12. ASSUME NEW w \in Workers, BuildFails(w) \/ LoadMissing(w)
      PROVE  TypeOK'
    <2>1. task' \in [Workers -> Tasks]
        BY <1>12, TaskType DEF BuildFails, LoadMissing, Finish, Idle
    <2> QED BY <1>12, <2>1 DEF BuildFails, LoadMissing
<1>13. ASSUME NEW w \in Workers, Send(w)
      PROVE  TypeOK'
    <2>1. task' \in [Workers -> Tasks]
        BY <1>13, TaskType DEF Send, Finish, Idle
    <2>2. push' = push
        BY <1>13 DEF Send
    <2>3. down' \in [Agents -> Seq(Contents)]
        <3>1. task[w].agent \in Agents /\ task[w].offer \in Hashes
            BY <1>13 DEF Send, HasAgent, Tasks
        <3>2. CASE task[w].offer = NoConfig
            BY <1>13, <3>2 DEF Send
        <3>3. CASE task[w].offer # NoConfig
            <4>1. task[w].offer \in Contents
                BY <3>1, <3>3 DEF Hashes
            <4>2. Append(down[task[w].agent], task[w].offer) \in Seq(Contents)
                BY <3>1, <4>1
            <4> QED BY <1>13, <3>1, <3>3, <4>2 DEF Send
        <3> QED BY <3>2, <3>3
    <2> QED BY <1>13, <2>1, <2>2, <2>3 DEF Send
<1>14. ASSUME NEW w \in Workers, SendFails(w)
      PROVE  TypeOK'
    <2>1. task' \in [Workers -> Tasks]
        BY <1>14, TaskType DEF SendFails, Finish, Idle
    <2> QED BY <1>14, <2>1 DEF SendFails
<1>15. ASSUME NEW t \in Threads, NEW g \in Groups, NEW c \in Contents, CreateConfig(t, g, c)
      PROVE  TypeOK'
    <2>1. task' \in [Workers -> Tasks]
        BY <1>15, TaskType DEF CreateConfig, ThenPushGroup, Request
    <2>2. push' \in [Threads -> Pushes]
        BY <1>15 DEF CreateConfig, ThenPushGroup, Request, Pushes
    <2> QED BY <1>15, <2>1, <2>2 DEF CreateConfig, ThenPushGroup, Request, Hashes
<1>16. ASSUME NEW t \in Threads, NEW g \in Groups, NEW c \in Contents, RollbackConfig(t, g, c)
      PROVE  TypeOK'
    <2>1. task' \in [Workers -> Tasks]
        BY <1>16, TaskType DEF RollbackConfig, ThenPushGroup, Request
    <2>2. push' \in [Threads -> Pushes]
        BY <1>16 DEF RollbackConfig, ThenPushGroup, Request, Pushes
    <2> QED BY <1>16, <2>1, <2>2 DEF RollbackConfig, ThenPushGroup, Request, Hashes
<1>17. ASSUME NEW t \in Threads, NEW a \in Agents, NEW g \in Groups \cup {NoGroup}, SetGroup(t, a, g)
      PROVE  TypeOK'
    <2>1. task' \in [Workers -> Tasks]
        BY <1>17, TaskType DEF SetGroup, ThenPushAgent, Request
    <2>2. push' \in [Threads -> Pushes]
        <3>1. [todo |-> {a}, scope |-> NoGroup] \in Pushes
            BY DEF Pushes
        <3> QED BY <1>17, <3>1 DEF SetGroup, ThenPushAgent, Request
    <2>3. member' \in [Agents -> SUBSET Groups]
        BY <1>17, ResolvedType DEF SetGroup
    <2> QED BY <1>17, <2>1, <2>2, <2>3 DEF SetGroup, ThenPushAgent, Request
<1>18. ASSUME NEW t \in Threads, NEW a \in Agents, PushButton(t, a)
      PROVE  TypeOK'
    <2>1. task' \in [Workers -> Tasks]
        BY <1>18, TaskType DEF PushButton, ThenPushAgent, Request
    <2>2. push' \in [Threads -> Pushes]
        BY <1>18 DEF PushButton, ThenPushAgent, Request, Pushes
    <2> QED BY <1>18, <2>1, <2>2 DEF PushButton, ThenPushAgent, Request
<1>19. ASSUME NEW t \in Threads, ListAgents(t)
      PROVE  TypeOK'
    <2>1. task' \in [Workers -> Tasks]
        BY <1>19, TaskField DEF ListAgents
    <2>2. push' \in [Threads -> Pushes]
        BY <1>19 DEF ListAgents, Pushes
    <2> QED BY <1>19, <2>1, <2>2 DEF ListAgents
<1>20. ASSUME NEW t \in Threads, FilterConnected(t)
      PROVE  TypeOK'
    <2>1. task' \in [Workers -> Tasks]
        BY <1>20, TaskField DEF FilterConnected
    <2>2. push' \in [Threads -> Pushes]
        BY <1>20 DEF FilterConnected, Pushes
    <2> QED BY <1>20, <2>1, <2>2 DEF FilterConnected
<1>21. ASSUME NEW t \in Threads, NEW a \in Agents, PickAgent(t, a)
      PROVE  TypeOK'
    <2>1. task' \in [Workers -> Tasks]
        BY <1>21 DEF PickAgent, Task, Tasks, Hashes, Sections
    <2>2. push' \in [Threads -> Pushes]
        BY <1>21 DEF PickAgent, Pushes
    <2> QED BY <1>21, <2>1, <2>2 DEF PickAgent
<1>22. ASSUME NEW t \in Threads, NEW a \in Agents, SkipAgent(t, a)
      PROVE  TypeOK'
    <2>1. push' \in [Threads -> Pushes]
        <3>1. push[t] \in Pushes /\ push[t].todo \ {a} \in SUBSET Agents
            BY DEF Pushes
        <3>2. [push[t] EXCEPT !.todo = push[t].todo \ {a}] \in Pushes
            BY <3>1, PushField
        <3> QED BY <1>22, <3>2 DEF SkipAgent
    <2> QED BY <1>22, <2>1 DEF SkipAgent
<1>23. ASSUME NEW t \in Threads, Answer(t)
      PROVE  TypeOK'
    <2>1. task' \in [Workers -> Tasks]
        BY <1>23, TaskType DEF Answer, Idle
    <2> QED BY <1>23, <2>1 DEF Answer
<1>24. ASSUME NEW t \in Threads, Cancel(t)
      PROVE  TypeOK'
    <2>1. task' \in [Workers -> Tasks]
        BY <1>24, TaskType DEF Cancel, Idle
    <2>2. push' \in [Threads -> Pushes]
        BY <1>24, PushField DEF Cancel
    <2> QED BY <1>24, <2>1, <2>2 DEF Cancel
<1>25. ASSUME ServerRestart
      PROVE  TypeOK'
    <2>1. task' \in [Workers -> Tasks]
        BY <1>25, TaskType DEF ServerRestart, Idle
    <2>2. push' \in [Threads -> Pushes]
        BY <1>25, PushField DEF ServerRestart
    <2> QED BY <1>25, <2>1, <2>2 DEF ServerRestart
<1>26. ASSUME NEW w \in Workers, LoadFallback(w)
       PROVE  TypeOK'
    <2>1. task' \in [Workers -> Tasks]
        BY <1>26, SelectedAssumption, TaskStep DEF LoadFallback
    <2>2. member' \in [Agents -> SUBSET Groups]
        BY <1>26, SelectedAssumption DEF LoadFallback
    <2> QED BY <1>26, <2>1, <2>2 DEF LoadFallback
<1>27. ASSUME NEW t \in Threads, ListFallback(t)
       PROVE  TypeOK'
    <2>1. task' \in [Workers -> Tasks]
        BY <1>27, TaskField DEF ListFallback
    <2>2. push' \in [Threads -> Pushes]
        <3>1. PICK S \in SUBSET Agents : push' = [push EXCEPT ![t].todo = S]
            BY <1>27 DEF ListFallback
        <3>2. push' = [push EXCEPT ![t] = [push[t] EXCEPT !.todo = S]]
            BY <3>1
        <3> QED BY <3>2, PushField
    <2> QED BY <1>27, <2>1, <2>2 DEF ListFallback
<1>28. CASE UNCHANGED vars
    BY <1>28 DEF vars
<1> QED
    BY <1>1, <1>2, <1>3, <1>4, <1>5, <1>6, <1>7, <1>8, <1>9,
       <1>10, <1>11, <1>12, <1>13, <1>14, <1>15, <1>16, <1>17,
       <1>18, <1>19, <1>20, <1>21, <1>22, <1>23, <1>24, <1>25, <1>26, <1>27, <1>28
    DEF Next, AgentSteps, WorkerSteps, Operator, Loop

-----------------------------------------------------------------------------
(* Where what an agent may run comes from.                                  *)

CurrentPublished == \A g \in Groups : current[g] \in published[g] \cup {NoConfig}

(* An agent with a row belongs to the group it resolves to.                 *)
RowsResolved == \A a \in Agents : assigned[a] # NoRow => ResolveGroup(a) \in member[a]

(* A push or an answer is about an agent, goes by a group the agent has     *)
(* belonged to and offers what was published there.                         *)
Sound(w) ==
    /\ task[w].pc = "load" => task[w].agent \in Agents
    /\ task[w].pc = "build" => /\ task[w].agent \in Agents
                               /\ task[w].group \in member[task[w].agent]
    /\ task[w].pc = "send" => /\ task[w].agent \in Agents
                              /\ task[w].offer \in Allowed(task[w].agent) \cup {NoConfig}

TasksSound == \A w \in Workers : Sound(w)

QueuesSound == \A a \in Agents : down[a] \in Seq(Allowed(a))

(* What an agent says it applied was offered to it, and runs; all files are *)
(* from what was offered or torn.                                           *)
Says(a) ==
    /\ host[a].last \in Allowed(a) \cup {NoConfig}
    /\ host[a].last # NoConfig /\ ~host[a].failed => host[a].effective = Files(host[a].last)

Holds(a) ==
    \A f \in host[a].effective \cup host[a].disk :
        f[2] \in Allowed(a) \cup {Torn} /\ (f[2] = Torn => faults > 0)

HostsSound == \A a \in Agents : Says(a) /\ Holds(a)

IInv == TypeOK /\ CurrentPublished /\ RowsResolved /\ TasksSound /\ QueuesSound /\ HostsSound

LEMMA InitIInv == Init => IInv
<1> SUFFICES ASSUME Init PROVE IInv
    OBVIOUS
<1>1. TypeOK
    BY InitTypeOK
<1>2. QueuesSound
    BY EmptySeq DEF Init, QueuesSound
<1> QED
    BY <1>1, <1>2
    DEF Init, IInv, CurrentPublished, RowsResolved, TasksSound, Sound, Task, Idle,
        HostsSound, Says, Holds

LEMMA SoundHasAgent == TypeOK /\ TasksSound => HasAgent
BY DEF TypeOK, TasksSound, Sound, HasAgent

(* Nothing is unpublished and no membership forgotten; rows stay.           *)
Grows ==
    /\ \A g \in Groups : published[g] \subseteq published'[g]
    /\ \A a \in Agents : member[a] \subseteq member'[a]
    /\ \A a \in Agents : assigned[a] # NoRow => assigned'[a] # NoRow
    /\ \A a \in Agents : described[a] => described'[a]
    /\ faults \in Nat /\ faults' \in {faults, faults + 1}

LEMMA NextGrows == TypeOK /\ [Next]_vars => Grows
<1> SUFFICES ASSUME TypeOK, [Next]_vars PROVE Grows
    OBVIOUS
<1> USE BoundsAssumption DEF TypeOK, database, network, Grows, Fault
<1>1. ASSUME NEW a \in Agents, AgentSteps(a) PROVE Grows
  <2>1. CASE ReceiveAny(a)
    <3>1. PICK describes \in BOOLEAN, section \in {Absent, Head(up[a])} :
              Take(a, describes, section)
        BY <2>1, TakesMessage
    <3>2. faults' \in {faults, faults + 1}
        BY <2>1 DEF ReceiveAny, Receive, ReceiveUnsaved
    <3> QED BY <3>1, <3>2, SetsAssumption DEF Take
  <2>2. CASE ~ReceiveAny(a)
    <3>1. /\ UNCHANGED <<published, member, assigned, described>>
          /\ faults' = faults \/ faults' = faults + 1
        BY <1>1, <2>2 DEF AgentSteps, Connect, AgentSend, Apply, ApplyFails, Offered, Drop,
                          AgentRestart, CloseConn, ReceiveUnknown
    <3> QED BY <3>1
  <2> QED BY <2>1, <2>2
<1>2. ASSUME NEW w \in Workers, WorkerSteps(w) PROVE Grows
    BY <1>2 DEF WorkerSteps, Load, LoadIncapable, LoadMissing, Build, BuildFails, Send, SendFails
<1>3. ASSUME NEW t \in Threads, Operator(t) PROVE Grows
  <2>0. faults' = faults /\ described' = described
      BY <1>3 DEF Operator, CreateConfig, RollbackConfig, SetGroup, PushButton, ThenPushGroup,
                  ThenPushAgent, Request
  <2>1. ASSUME NEW g \in Groups, NEW c \in Contents, CreateConfig(t, g, c) PROVE Grows
      BY <2>0, <2>1 DEF CreateConfig
  <2>2. ASSUME NEW g \in Groups, NEW c \in Contents, RollbackConfig(t, g, c) PROVE Grows
      BY <2>0, <2>2 DEF RollbackConfig
  <2>3. ASSUME NEW a \in Agents, NEW g \in Groups \cup {NoGroup}, SetGroup(t, a, g) PROVE Grows
      BY <2>0, <2>3, SetsAssumption DEF SetGroup
  <2>4. ASSUME NEW a \in Agents, PushButton(t, a) PROVE Grows
      BY <2>0, <2>4 DEF PushButton
  <2> QED BY <1>3, <2>1, <2>2, <2>3, <2>4 DEF Operator
<1>4. ASSUME NEW t \in Threads, Loop(t) \/ Cancel(t) \/ ListFallback(t) PROVE Grows
  <2>1. /\ UNCHANGED <<published, member, assigned, described>>
        /\ faults' = faults \/ faults' = faults + 1
      BY <1>4 DEF Loop, Cancel, ListFallback, ListAgents, FilterConnected, Answer, PickAgent, SkipAgent
  <2> QED BY <2>1
<1>5. ASSUME ServerRestart PROVE Grows
    BY <1>5 DEF ServerRestart
<1>6. ASSUME NEW w \in Workers, LoadFallback(w) PROVE Grows
    BY <1>6 DEF LoadFallback
<1>7. CASE UNCHANGED vars
    BY <1>7 DEF vars
<1> QED BY <1>1, <1>2, <1>3, <1>4, <1>5, <1>6, <1>7 DEF Next

LEMMA AllowedGrows ==
    ASSUME TypeOK, Grows, NEW a \in Agents
    PROVE  Allowed(a) \subseteq Allowed(a)'
BY DEF TypeOK, Grows, Allowed

(* How a step can change the locals of a worker.                            *)
Released(w) == task'[w].pc \in {"idle", "list", "filter", "loop"}

Kept(w) == /\ task'[w].pc = task[w].pc /\ task'[w].agent = task[w].agent
           /\ task'[w].group = task[w].group /\ task'[w].offer = task[w].offer

Started(w) == /\ task'[w].pc = "load" /\ task'[w].agent \in Agents

TaskChange(w) ==
    \/ Released(w) \/ Kept(w) \/ Started(w)
    \/ Load(w) \/ LoadIncapable(w) \/ LoadFallback(w) \/ Build(w)

LEMMA NextTaskChange == IInv /\ [Next]_vars => \A w \in Workers : TaskChange(w)
<1> SUFFICES ASSUME IInv, [Next]_vars, NEW w \in Workers PROVE TaskChange(w)
    OBVIOUS
<1> USE WorkersAre DEF IInv, TypeOK, TaskChange, Released, Kept, Started, Idle, Task
<1>1. ASSUME NEW a \in Agents, ReceiveAny(a) PROVE TaskChange(w)
  <2>1. task' = [task EXCEPT ![a] = [Task("load") EXCEPT !.agent = a, !.msg = Head(up[a]),
                                                         !.held = TRUE]]
      BY <1>1, TakesMessage DEF Take
  <2>3. CASE w = a
      BY <2>1, <2>3
  <2>4. CASE w # a
      BY <2>1, <2>4
  <2> QED BY <2>3, <2>4
<1>2. ASSUME NEW a \in Agents, Drop(a) \/ AgentRestart(a) PROVE TaskChange(w)
  <2>1. task'[w] = [task[w] EXCEPT !.held = @ /\ task[w].agent # a]
      BY <1>2 DEF Drop, AgentRestart, Cut
  <2> QED BY <2>1 DEF Tasks
<1>3. ASSUME NEW a \in Agents,
             Connect(a) \/ AgentSend(a) \/ Apply(a) \/ ApplyFails(a) \/ CloseConn(a)
             \/ ReceiveUnknown(a)
      PROVE  TaskChange(w)
    BY <1>3 DEF Connect, AgentSend, Apply, ApplyFails, Offered, CloseConn, ReceiveUnknown
<1>4. ASSUME NEW v \in Workers, WorkerSteps(v) PROVE TaskChange(w)
  <2>1. CASE w = v
      BY <1>4, <2>1 DEF WorkerSteps, LoadMissing, BuildFails, Send, SendFails, Finish
  <2>2. CASE w # v
      BY <1>4, <2>2 DEF WorkerSteps, Load, LoadIncapable, LoadMissing, Build, BuildFails, Send, SendFails, Finish
  <2> QED BY <2>1, <2>2
<1>5. ASSUME NEW t \in Threads, Operator(t) PROVE TaskChange(w)
  <2>1. \E x \in {"list", "loop"} : task' = [task EXCEPT ![t] = Task(x)]
      BY <1>5 DEF Operator, CreateConfig, RollbackConfig, SetGroup, PushButton,
                  ThenPushGroup, ThenPushAgent, Request
  <2> QED BY <2>1
<1>6. ASSUME NEW t \in Threads, NEW a \in Agents, PickAgent(t, a) PROVE TaskChange(w)
  <2>1. task' = [task EXCEPT ![t] = [Task("load") EXCEPT !.agent = a, !.held = link[a] = "live"]]
      BY <1>6 DEF PickAgent
  <2>3. CASE w = t
      BY <2>1, <2>3
  <2>4. CASE w # t
      BY <2>1, <2>4
  <2> QED BY <2>3, <2>4
<1>7. ASSUME NEW t \in Threads, ListAgents(t) \/ ListFallback(t) \/ FilterConnected(t)
      PROVE  TaskChange(w)
  <2>1. \E x \in {"filter", "loop"} : task' = [task EXCEPT ![t].pc = x]
      BY <1>7 DEF ListAgents, ListFallback, FilterConnected
  <2> QED BY <2>1 DEF Tasks
<1>8. ASSUME NEW t \in Threads, NEW a \in Agents, SkipAgent(t, a) PROVE TaskChange(w)
    BY <1>8 DEF SkipAgent
<1>9. ASSUME NEW t \in Threads, Answer(t) \/ Cancel(t) PROVE TaskChange(w)
  <2>1. task' = [task EXCEPT ![t] = Idle]
      BY <1>9 DEF Answer, Cancel
  <2> QED BY <2>1
<1>10. ASSUME ServerRestart PROVE TaskChange(w)
    BY <1>10 DEF ServerRestart
<1>11. ASSUME NEW v \in Workers, LoadFallback(v) PROVE TaskChange(w)
  <2>1. CASE w = v
      BY <1>11, <2>1
  <2>2. CASE w # v
      BY <1>11, <2>2 DEF LoadFallback
  <2> QED BY <2>1, <2>2
<1>12. CASE UNCHANGED vars
    BY <1>12 DEF vars
<1> QED BY <1>1, <1>2, <1>3, <1>4, <1>5, <1>6, <1>7, <1>8, <1>9, <1>10, <1>11, <1>12
        DEF Next, AgentSteps, Operator, Loop

LEMMA NextCurrentPublished == IInv /\ [Next]_vars => CurrentPublished'
<1> SUFFICES ASSUME IInv, [Next]_vars PROVE CurrentPublished'
    OBVIOUS
<1> USE DEF IInv, TypeOK, CurrentPublished, database, network
<1>1. ASSUME NEW t \in Threads, NEW g \in Groups, NEW c \in Contents, CreateConfig(t, g, c)
      PROVE  CurrentPublished'
    BY <1>1 DEF CreateConfig
<1>2. ASSUME NEW t \in Threads, NEW g \in Groups, NEW c \in Contents, RollbackConfig(t, g, c)
      PROVE  CurrentPublished'
    BY <1>2 DEF RollbackConfig
<1>3. CASE UNCHANGED <<current, published>>
    BY <1>3
<1>4. ASSUME NEW t \in Threads, Operator(t) PROVE CurrentPublished'
    BY <1>1, <1>2, <1>3, <1>4 DEF Operator, SetGroup, PushButton
<1>5. ASSUME NEW a \in Agents, AgentSteps(a) PROVE UNCHANGED <<current, published>>
    BY <1>5 DEF AgentSteps, Connect, AgentSend, Apply, ApplyFails, Offered, Drop, AgentRestart,
                ReceiveAny, Receive, ReceiveUnsaved, Take, CloseConn, ReceiveUnknown
<1>6. ASSUME NEW w \in Workers, WorkerSteps(w) \/ LoadFallback(w)
      PROVE  UNCHANGED <<current, published>>
    BY <1>6 DEF LoadFallback, WorkerSteps, Load, LoadIncapable, LoadMissing, Build, BuildFails,
                Send, SendFails
<1>7. ASSUME NEW t \in Threads, Loop(t) \/ Cancel(t) \/ ListFallback(t) PROVE UNCHANGED <<current, published>>
    BY <1>7 DEF Loop, Cancel, ListFallback, ListAgents, FilterConnected, Answer, PickAgent, SkipAgent
<1>8. ServerRestart \/ UNCHANGED vars => UNCHANGED <<current, published>>
    BY DEF ServerRestart, vars
<1> QED BY <1>3, <1>4, <1>5, <1>6, <1>7, <1>8 DEF Next

LEMMA NextRowsResolved == IInv /\ [Next]_vars => RowsResolved'
<1> SUFFICES ASSUME IInv, [Next]_vars PROVE RowsResolved'
    OBVIOUS
<1> USE SetsAssumption
    DEF IInv, TypeOK, RowsResolved, ResolveGroup, Resolved, database, network
<1>1. ASSUME NEW a \in Agents, ReceiveAny(a) PROVE RowsResolved'
  <2>1. PICK describes \in BOOLEAN, section \in {Absent, Head(up[a])} :
            Take(a, describes, section)
      BY <1>1, TakesMessage
  <2> QED BY <2>1 DEF Take
<1>2. ASSUME NEW t \in Threads, NEW a \in Agents, NEW g \in Groups \cup {NoGroup},
             SetGroup(t, a, g)
      PROVE  RowsResolved'
    BY <1>2 DEF SetGroup, ThenPushAgent, Request
<1>5. CASE UNCHANGED <<assigned, member, described>>
    BY <1>5
<1>6. ASSUME NEW a \in Agents, AgentSteps(a), ~ReceiveAny(a)
      PROVE  UNCHANGED <<assigned, member, described>>
    BY <1>6 DEF AgentSteps, Connect, AgentSend, Apply, ApplyFails, Offered, Drop, AgentRestart,
                CloseConn, ReceiveUnknown
<1>7. ASSUME NEW w \in Workers, WorkerSteps(w) PROVE UNCHANGED <<assigned, member, described>>
    BY <1>7 DEF WorkerSteps, Load, LoadIncapable, LoadMissing, Build, BuildFails, Send, SendFails
<1>8. ASSUME NEW t \in Threads, Loop(t) \/ Cancel(t) \/ ListFallback(t)
      PROVE  UNCHANGED <<assigned, member, described>>
    BY <1>8 DEF Loop, Cancel, ListFallback, ListAgents, FilterConnected, Answer, PickAgent, SkipAgent
<1>9. ASSUME NEW t \in Threads, Operator(t) PROVE RowsResolved'
    BY <1>2, <1>5, <1>9 DEF Operator, CreateConfig, RollbackConfig, PushButton, ThenPushGroup,
                            ThenPushAgent, Request
<1>10. ASSUME NEW w \in Workers, LoadFallback(w) PROVE RowsResolved'
    BY <1>10 DEF LoadFallback
<1>11. ServerRestart \/ UNCHANGED vars => UNCHANGED <<assigned, member, described>>
    BY DEF ServerRestart, vars
<1> QED BY <1>1, <1>5, <1>6, <1>7, <1>8, <1>9, <1>10, <1>11 DEF Next

(* What a worker loads and builds comes from the group it read.             *)
LEMMA NextTasksSound == IInv /\ [Next]_vars => TasksSound'
<1> SUFFICES ASSUME IInv, [Next]_vars, NEW w \in Workers PROVE Sound(w)'
    BY DEF TasksSound
<1>1. TypeOK /\ Grows /\ Sound(w) /\ TaskChange(w)
    BY NextGrows, NextTaskChange DEF IInv, TasksSound
<1>2. \A a \in Agents : Allowed(a) \subseteq Allowed(a)'
    BY <1>1, AllowedGrows
<1>3. CASE Released(w)
    BY <1>3 DEF Released, Sound
<1>4. CASE Started(w)
    BY <1>4 DEF Started, Sound
<1>5. CASE Kept(w)
    BY <1>1, <1>2, <1>5 DEF Kept, Sound, Grows
<1>6. CASE Load(w)
  <2>1. task[w].agent \in Agents /\ ResolveGroup(task[w].agent) \in member[task[w].agent]
      BY <1>1, <1>6 DEF Load, Sound, IInv, RowsResolved
  <2>2. task[w] \in Tasks /\ member' = member
      BY <1>1, <1>6 DEF TypeOK, Load
  <2>3. task'[w] = [task[w] EXCEPT !.pc = "build", !.group = ResolveGroup(task[w].agent)]
      BY <1>1, <1>6 DEF TypeOK, Load
  <2> QED BY <2>1, <2>2, <2>3 DEF Sound, Tasks
<1>7. CASE Build(w)
  <2>1. task[w].agent \in Agents /\ task[w].group \in member[task[w].agent]
      BY <1>1, <1>7 DEF Build, Sound
  <2>2. current[task[w].group] \in Allowed(task[w].agent) \cup {NoConfig}
      BY <2>1 DEF IInv, TypeOK, CurrentPublished, Allowed
  <2>3. Wanted(w) \in Allowed(task[w].agent) \cup {NoConfig}
      BY <2>2 DEF Wanted
  <2>4. task'[w] = [task[w] EXCEPT !.pc = "send", !.offer = Wanted(w)]
      BY <1>1, <1>7 DEF TypeOK, Build
  <2>5. task[w] \in Tasks
      BY <1>1 DEF TypeOK
  <2> QED BY <1>2, <2>1, <2>3, <2>4, <2>5 DEF Sound, Tasks
<1>9. CASE LoadIncapable(w)
  <2>1. task[w] \in Tasks /\ task[w].agent \in Agents
      BY <1>1, <1>9 DEF TypeOK, LoadIncapable, Sound
  <2>2. task'[w] = [task[w] EXCEPT !.pc = "send", !.offer = NoConfig]
      BY <1>1, <1>9 DEF TypeOK, LoadIncapable
  <2> QED BY <2>1, <2>2 DEF Sound, Tasks
<1>8. CASE LoadFallback(w)
  <2>1. task[w] \in Tasks /\ task[w].agent \in Agents
      BY <1>1, <1>8 DEF TypeOK, LoadFallback, Sound
  <2>2. DefaultGroup \in member'[task[w].agent]
      BY <1>1, <1>8, <2>1 DEF TypeOK, LoadFallback
  <2>3. task'[w] = [task[w] EXCEPT !.pc = "build", !.group = DefaultGroup]
      BY <1>1, <1>8 DEF TypeOK, LoadFallback
  <2> QED BY <2>1, <2>2, <2>3 DEF Sound, Tasks
<1> QED BY <1>1, <1>3, <1>4, <1>5, <1>6, <1>7, <1>8, <1>9 DEF TaskChange

(* The queue grows only at its end, by a sound offer.                       *)
QueueChange(a) ==
    \/ down'[a] \in {<<>>, down[a]}
    \/ down[a] # <<>> /\ down'[a] = Tail(down[a])
    \/ \E w \in Workers : /\ task[w].pc = "send" /\ task[w].agent = a
                          /\ task[w].offer # NoConfig
                          /\ down'[a] = Append(down[a], task[w].offer)

LEMMA NextQueueChange == IInv /\ [Next]_vars => \A a \in Agents : QueueChange(a)
<1> SUFFICES ASSUME IInv, [Next]_vars, NEW a \in Agents PROVE QueueChange(a)
    OBVIOUS
<1> USE DEF IInv, TypeOK, QueueChange, database, network
<1>1. ASSUME NEW b \in Agents, Apply(b) \/ ApplyFails(b) PROVE QueueChange(a)
    BY <1>1 DEF Apply, ApplyFails, Offered
<1>2. ASSUME NEW b \in Agents, Drop(b) \/ AgentRestart(b) PROVE QueueChange(a)
    BY <1>2 DEF Drop, AgentRestart, Cut
<1>3. ASSUME NEW w \in Workers, Send(w) PROVE QueueChange(a)
  <2>1. CASE UNCHANGED down
      BY <2>1
  <2>2. CASE /\ task[w].offer # NoConfig
             /\ down' = [down EXCEPT ![task[w].agent] = Append(@, task[w].offer)]
    <3>1. CASE task[w].agent = a
        BY <1>3, <2>2, <3>1 DEF Send
    <3>2. CASE task[w].agent # a
        BY <2>2, <3>2
    <3> QED BY <3>1, <3>2
  <2> QED BY <1>3, <2>1, <2>2 DEF Send
<1>4. CASE ServerRestart
    BY <1>4 DEF ServerRestart
<1>5. CASE UNCHANGED down
    BY <1>5
<1>6. ASSUME NEW b \in Agents, Connect(b) \/ AgentSend(b) \/ ReceiveAny(b) \/ CloseConn(b)
             \/ ReceiveUnknown(b)
      PROVE  UNCHANGED down
    BY <1>6 DEF Connect, AgentSend, ReceiveAny, Receive, ReceiveUnsaved, Take, CloseConn, ReceiveUnknown
<1>7. ASSUME NEW w \in Workers, Load(w) \/ LoadIncapable(w) \/ LoadMissing(w) \/ Build(w)
             \/ BuildFails(w) \/ SendFails(w) \/ LoadFallback(w)
      PROVE  UNCHANGED down
    BY <1>7 DEF Load, LoadIncapable, LoadFallback, LoadMissing, Finish, Build, BuildFails, SendFails
<1>8. ASSUME NEW t \in Threads, Operator(t) \/ Loop(t) \/ Cancel(t) \/ ListFallback(t) PROVE UNCHANGED down
    BY <1>8 DEF Operator, CreateConfig, RollbackConfig, SetGroup, PushButton, ThenPushGroup,
                ThenPushAgent, Request, Loop, Cancel, ListFallback, ListAgents, FilterConnected, Answer,
                PickAgent, SkipAgent
<1>9. UNCHANGED vars => UNCHANGED down
    BY DEF vars
<1> QED BY <1>1, <1>2, <1>3, <1>4, <1>5, <1>6, <1>7, <1>8, <1>9
        DEF Next, AgentSteps, WorkerSteps

LEMMA NextQueuesSound == IInv /\ [Next]_vars => QueuesSound'
<1> SUFFICES ASSUME IInv, [Next]_vars, NEW a \in Agents PROVE (down[a] \in Seq(Allowed(a)))'
    BY DEF QueuesSound
<1>1. Allowed(a) \subseteq Allowed(a)' /\ QueueChange(a) /\ down[a] \in Seq(Allowed(a))
    BY NextGrows, AllowedGrows, NextQueueChange DEF IInv, QueuesSound
<1>2. Seq(Allowed(a)) \subseteq Seq(Allowed(a)')
    BY <1>1
<1>3. CASE down'[a] \in {<<>>, down[a]}
    BY <1>1, <1>2, <1>3, EmptySeq
<1>4. CASE down[a] # <<>> /\ down'[a] = Tail(down[a])
    BY <1>1, <1>2, <1>4, HeadTailProperties
<1>5. ASSUME NEW w \in Workers, task[w].pc = "send", task[w].agent = a,
             task[w].offer # NoConfig, down'[a] = Append(down[a], task[w].offer)
      PROVE  down'[a] \in Seq(Allowed(a)')
  <2>1. task[w].offer \in Allowed(a)
      BY <1>5 DEF IInv, TasksSound, Sound
  <2>2. down'[a] \in Seq(Allowed(a))
      BY <1>1, <1>5, <2>1, AppendProperties
  <2> QED BY <1>2, <2>2
<1> QED BY <1>1, <1>3, <1>4, <1>5 DEF QueueChange

(* An agent applies the head of its queue, fails to write it, restarts on   *)
(* what is on its disk, perhaps while it writes, or goes on.                *)
Same(a) ==
    /\ host'[a].effective = host[a].effective /\ host'[a].disk = host[a].disk
    /\ host'[a].last = host[a].last /\ host'[a].failed = host[a].failed

Applied(a, c) ==
    /\ host'[a].effective = Files(c) /\ host'[a].disk = Overwrite(host[a].disk, Files(c))
    /\ host'[a].last = c

NotApplied(a, c) ==
    /\ host'[a].effective = host[a].effective
    /\ host'[a].disk \in Interrupted(host[a].disk, c)
    /\ host'[a].last = c /\ host'[a].failed
    /\ faults' = faults + 1

Restarted(a) ==
    /\ \/ host'[a].disk = host[a].disk
       \/ down[a] # <<>> /\ host'[a].disk \in Interrupted(host[a].disk, Head(down[a]))
    /\ host'[a].effective \in SUBSET host'[a].disk
    /\ host'[a].last = NoConfig
    /\ faults' = faults + 1

HostChange(a) ==
    \/ Same(a)
    \/ down[a] # <<>> /\ Applied(a, Head(down[a]))
    \/ down[a] # <<>> /\ NotApplied(a, Head(down[a]))
    \/ Restarted(a)

LEMMA NextHostChange == IInv /\ [Next]_vars => \A a \in Agents : HostChange(a)
<1> SUFFICES ASSUME IInv, [Next]_vars, NEW a \in Agents PROVE HostChange(a)
    OBVIOUS
<1> USE DEF IInv, TypeOK
<1>0. ASSUME host'[a] = host[a] PROVE HostChange(a)
    BY <1>0 DEF HostChange, Same
<1>1. ASSUME NEW b \in Agents, Apply(b) PROVE HostChange(a)
  <2>1. PICK due \in Status(b, Head(down[b]), FALSE) :
          host' = [host EXCEPT ![b] =
                      [effective |-> Files(Head(down[b])),
                       disk |-> Overwrite(host[b].disk, Files(Head(down[b]))),
                       last |-> Head(down[b]), failed |-> FALSE, due |-> due]]
      BY <1>1 DEF Apply
  <2>2. CASE a = b
      BY <1>1, <2>1, <2>2 DEF Apply, Offered, HostChange, Applied
  <2>3. CASE a # b
      BY <1>0, <2>1, <2>3
  <2> QED BY <2>2, <2>3
<1>2. ASSUME NEW b \in Agents, ApplyFails(b) PROVE HostChange(a)
  <2>1. PICK due \in Status(b, Head(down[b]), TRUE),
             d \in Interrupted(host[b].disk, Head(down[b])) :
          host' = [host EXCEPT ![b] =
                      [effective |-> host[b].effective, disk |-> d,
                       last |-> Head(down[b]), failed |-> TRUE, due |-> due]]
      BY <1>2 DEF ApplyFails
  <2>2. CASE a = b
      BY <1>2, <2>1, <2>2 DEF ApplyFails, Offered, Fault, HostChange, NotApplied
  <2>3. CASE a # b
      BY <1>0, <2>1, <2>3
  <2> QED BY <2>2, <2>3
<1>3. ASSUME NEW b \in Agents, AgentRestart(b) PROVE HostChange(a)
  <2>1. PICK d \in {host[b].disk} \cup (IF down[b] = <<>> THEN {}
                                        ELSE Interrupted(host[b].disk, Head(down[b]))) :
          \E read \in SUBSET d :
            host' = [host EXCEPT ![b] =
                        [effective |-> read, disk |-> d, last |-> NoConfig,
                         failed |-> FALSE, due |-> FALSE]]
      BY <1>3 DEF AgentRestart
  <2>2. CASE a = b
      BY <1>3, <2>1, <2>2 DEF AgentRestart, Fault, HostChange, Restarted
  <2>3. CASE a # b
      BY <1>0, <2>1, <2>3
  <2> QED BY <2>2, <2>3
<1>4. ASSUME NEW b \in Agents, Connect(b) \/ AgentSend(b) PROVE HostChange(a)
  <2>1. \E x \in BOOLEAN : host' = [host EXCEPT ![b].due = x]
      BY <1>4 DEF Connect, AgentSend
  <2>2. Same(a)
      BY <2>1 DEF Same, Hosts
  <2> QED BY <2>2 DEF HostChange
<1>5. CASE UNCHANGED host
    BY <1>0, <1>5
<1>6. ASSUME NEW b \in Agents, ReceiveAny(b) \/ CloseConn(b) \/ Drop(b)
             \/ ReceiveUnknown(b)
      PROVE UNCHANGED host
    BY <1>6 DEF ReceiveAny, Receive, ReceiveUnsaved, Take, CloseConn, Drop, ReceiveUnknown
<1>7. ASSUME NEW w \in Workers, WorkerSteps(w) \/ LoadFallback(w) PROVE UNCHANGED host
    BY <1>7 DEF LoadFallback, WorkerSteps, Load, LoadIncapable, LoadMissing, Build, BuildFails,
                Send, SendFails
<1>8. ASSUME NEW t \in Threads, Operator(t) \/ Loop(t) \/ Cancel(t) \/ ListFallback(t) PROVE UNCHANGED host
    BY <1>8 DEF Operator, CreateConfig, RollbackConfig, SetGroup, PushButton, ThenPushGroup,
                ThenPushAgent, Request, Loop, Cancel, ListFallback, ListAgents, FilterConnected, Answer,
                PickAgent, SkipAgent
<1>9. ServerRestart \/ UNCHANGED vars => UNCHANGED host
    BY DEF ServerRestart, vars
<1> QED BY <1>1, <1>2, <1>3, <1>4, <1>5, <1>6, <1>7, <1>8, <1>9 DEF Next, AgentSteps

LEMMA NextHostsSound == IInv /\ [Next]_vars => HostsSound'
<1> SUFFICES ASSUME IInv, [Next]_vars, NEW a \in Agents PROVE Says(a)' /\ Holds(a)'
    BY DEF HostsSound
<1>1. Allowed(a) \subseteq Allowed(a)' /\ HostChange(a) /\ Says(a) /\ Holds(a)
    BY NextGrows, AllowedGrows, NextHostChange DEF IInv, HostsSound
<1>2. faults \in Nat /\ faults' \in {faults, faults + 1}
    BY NextGrows DEF IInv, Grows
<1>3. down[a] # <<>> => Head(down[a]) \in Allowed(a) /\ Head(down[a]) \in Contents
    BY HeadTailProperties DEF IInv, QueuesSound, TypeOK
<1>4. Torn \notin Contents /\ NoConfig \notin Contents
    BY FilesAssumption, SetsAssumption
<1>5. CASE Same(a)
    BY <1>1, <1>2, <1>5 DEF Same, Says, Holds
<1>6. CASE down[a] # <<>> /\ Applied(a, Head(down[a]))
  <2>1. Says(a)'
      BY <1>1, <1>3, <1>6 DEF Applied, Says
  <2>2. ASSUME NEW f \in host'[a].effective \cup host'[a].disk
        PROVE  f \in host[a].disk \/ f[2] = Head(down[a])
      BY <1>3, <1>6, <2>2, Written DEF Applied
  <2>3. ASSUME NEW f \in host'[a].effective \cup host'[a].disk
        PROVE  f[2] \in Allowed(a)' \cup {Torn} /\ (f[2] = Torn => faults' > 0)
    <3>1. CASE f \in host[a].disk
        BY <1>1, <1>2, <3>1 DEF Holds
    <3>2. CASE f[2] = Head(down[a])
        BY <1>1, <1>3, <1>4, <1>6, <3>2
    <3> QED BY <2>2, <3>1, <3>2
  <2> QED BY <2>1, <2>3 DEF Holds
<1>7. CASE down[a] # <<>> /\ NotApplied(a, Head(down[a]))
  <2>1. Says(a)'
      BY <1>1, <1>3, <1>7 DEF NotApplied, Says
  <2>2. ASSUME NEW f \in host'[a].effective \cup host'[a].disk
        PROVE  f \in host[a].effective \cup host[a].disk \/ f[2] \in {Head(down[a]), Torn}
      BY <1>3, <1>7, <2>2, PartlyWritten DEF NotApplied
  <2>3. faults' > 0
      BY <1>2, <1>7 DEF NotApplied
  <2>4. ASSUME NEW f \in host'[a].effective \cup host'[a].disk
        PROVE  f[2] \in Allowed(a)' \cup {Torn}
    <3>1. CASE f \in host[a].effective \cup host[a].disk
        BY <1>1, <3>1 DEF Holds
    <3> QED BY <1>1, <1>3, <1>7, <2>2, <3>1
  <2> QED BY <2>1, <2>3, <2>4 DEF Holds
<1>8. CASE Restarted(a)
  <2>1. Says(a)'
      BY <1>8 DEF Restarted, Says
  <2>2. ASSUME NEW f \in host'[a].effective \cup host'[a].disk
        PROVE  f \in host[a].disk \/ f[2] = Torn \/ (down[a] # <<>> /\ f[2] = Head(down[a]))
    <3>1. f \in host'[a].disk
        BY <1>8, <2>2 DEF Restarted
    <3> QED BY <1>3, <1>8, <3>1, PartlyWritten DEF Restarted
  <2>3. faults' > 0
      BY <1>2, <1>8 DEF Restarted
  <2>4. Holds(a)'
      BY <1>1, <1>3, <2>2, <2>3 DEF Holds
  <2> QED BY <2>1, <2>4
<1> QED BY <1>1, <1>5, <1>6, <1>7, <1>8 DEF HostChange

LEMMA NextIInv == IInv /\ [Next]_vars => IInv'
<1> SUFFICES ASSUME IInv, [Next]_vars PROVE IInv'
    OBVIOUS
<1>1. TypeOK'
    BY NextTypeOK, SoundHasAgent DEF IInv
<1> QED BY <1>1, NextCurrentPublished, NextRowsResolved, NextTasksSound, NextQueuesSound,
           NextHostsSound DEF IInv

(* The inductive invariant: everything on its way to an agent comes from a  *)
(* group the agent has belonged to.                                         *)
THEOREM Invariance == Spec => []IInv
<1> QED BY InitIInv, NextIInv, PTL DEF Spec

(* Every variable keeps its type.                                           *)
THEOREM TypeCorrect == Spec => []TypeOK
<1>1. IInv => TypeOK
    BY DEF IInv
<1> QED BY <1>1, Invariance, PTL

(* What an agent says it applied it runs, all of it and nothing else, and   *)
(* every file it runs or has is from a configuration published for one of   *)
(* its groups, whatever overtakes what between the operator and the agent,  *)
(* and whatever files earlier configurations and broken writes left.        *)
THEOREM Provenance == Spec => []OnlyPublished
<1>1. IInv => OnlyPublished
    BY DEF IInv, HostsSound, Says, Holds, OnlyPublished
<1> QED BY <1>1, Invariance, PTL

-----------------------------------------------------------------------------
(* The steps of Delivery.  An agent's member set grows by one group, the    *)
(* published contents by one; what it runs and has changes by an offer of   *)
(* an allowed configuration or a restart.                                   *)
LEMMA InitPromise == Init => Promise!Init
BY DEF Init, Promise!Init

Running == [a \in Agents |-> host[a].effective]
Disks == [a \in Agents |-> host[a].disk]

(* One agent changes what it runs and has, or none does.                    *)
LEMMA RunStep ==
    ASSUME IInv, UNCHANGED <<published, member>>, NEW b \in Agents, HostChange(b),
           \A a \in Agents \ {b} : host'[a] = host[a]
    PROVE  Promise!Next \/ UNCHANGED Promise!vars
<1>0. /\ \A c : Promise!Files(c) = Files(c)
      /\ \A d, F : Promise!Overwrite(d, F) = Overwrite(d, F)
      /\ \A d, c : Promise!Interrupted(d, c) = Interrupted(d, c)
    BY DEF Promise!Files, Files, Promise!Overwrite, Overwrite, Promise!Interrupted, Interrupted,
           Promise!EndedAt, EndedAt
<1>1. /\ Running' = [Running EXCEPT ![b] = host'[b].effective]
      /\ Disks' = [Disks EXCEPT ![b] = host'[b].disk]
      /\ Running[b] = host[b].effective /\ Disks[b] = host[b].disk
    BY DEF Running, Disks
<1>2. down[b] # <<>> => Head(down[b]) \in Allowed(b) /\ Head(down[b]) \in Contents
    BY HeadTailProperties DEF IInv, QueuesSound, TypeOK
<1>3. \A a \in Agents : Promise!Allowed(a) = Allowed(a)
    BY DEF Promise!Allowed, Allowed
<1>4. CASE Same(b)
  <2>1. Running' = Running /\ Disks' = Disks
      BY <1>4 DEF Same, Running, Disks
  <2> QED BY <2>1 DEF Promise!vars, Running, Disks
<1>5. CASE down[b] # <<>> /\ Applied(b, Head(down[b]))
  <2>1. PICK c \in Contents : c \in Allowed(b) /\ Applied(b, c)
      BY <1>2, <1>5
  <2>2. Promise!Run(b, c)
      BY <1>1, <1>3, <2>1, <1>0 DEF Promise!Run, Applied, Running, Disks
  <2> QED BY <2>2 DEF Promise!Next
<1>6. CASE down[b] # <<>> /\ NotApplied(b, Head(down[b]))
  <2>1. Running' = Running
      BY <1>1, <1>6 DEF NotApplied, Running
  <2>2. PICK c \in Contents : c \in Allowed(b) /\ NotApplied(b, c)
      BY <1>2, <1>6
  <2>3. Promise!Fail(b, c)
      BY <1>1, <1>3, <2>1, <2>2, <1>0 DEF Promise!Fail, NotApplied, Running, Disks
  <2> QED BY <2>3 DEF Promise!Next
<1>7. CASE Restarted(b)
  <2> DEFINE Broken == UNION {Promise!Interrupted(Disks[b], c) : c \in Promise!Allowed(b)}
  <2>1. host'[b].disk \in {Disks[b]} \cup Broken
    <3>1. CASE down[b] # <<>> /\ host'[b].disk \in Promise!Interrupted(Disks[b], Head(down[b]))
        BY <1>2, <1>3, <3>1
    <3> QED BY <1>0, <1>1, <1>7, <3>1 DEF Restarted
  <2>2. \E read \in SUBSET host'[b].disk : Running' = [Running EXCEPT ![b] = read]
      BY <1>1, <1>7 DEF Restarted
  <2>3. Promise!Restart(b)
      BY <1>1, <2>1, <2>2 DEF Promise!Restart, Running, Disks
  <2> QED BY <2>3 DEF Promise!Next
<1> QED BY <1>4, <1>5, <1>6, <1>7 DEF HostChange

LEMMA JoinStep ==
    ASSUME NEW b \in Agents, NEW g \in Groups, UNCHANGED <<published, host>>,
           member' = [member EXCEPT ![b] = @ \cup {g}]
    PROVE  Promise!Next
BY DEF Promise!Next, Promise!Join

LEMMA PublishStep ==
    ASSUME NEW g \in Groups, NEW c \in Contents, UNCHANGED <<member, host>>,
           published' = [published EXCEPT ![g] = @ \cup {c}]
    PROVE  Promise!Next
BY DEF Promise!Next, Promise!Publish

LEMMA NextPromise == IInv /\ [Next]_vars => [Promise!Next]_(Promise!vars)
<1> SUFFICES ASSUME IInv, [Next]_vars PROVE [Promise!Next]_(Promise!vars)
    OBVIOUS
<1> USE DEF database, network
<1>1. ASSUME NEW b \in Agents,
             Apply(b) \/ ApplyFails(b) \/ AgentRestart(b) \/ Connect(b) \/ AgentSend(b)
      PROVE  Promise!Next \/ UNCHANGED Promise!vars
  <2>1. \A a \in Agents \ {b} : host'[a] = host[a]
      BY <1>1 DEF Apply, ApplyFails, AgentRestart, Connect, AgentSend, IInv, TypeOK
  <2>2. UNCHANGED <<published, member>>
      BY <1>1 DEF Apply, ApplyFails, AgentRestart, Offered, Connect, AgentSend
  <2> QED BY <2>1, <2>2, NextHostChange, RunStep
<1>3. ASSUME NEW b \in Agents, ReceiveAny(b) PROVE Promise!Next
  <2>1. PICK describes \in BOOLEAN, section \in {Absent, Head(up[b])} :
            Take(b, describes, section)
      BY <1>3, TakesMessage
  <2>2. Resolved(b, assigned[b], described[b] \/ describes) \in Groups
      BY ResolvedType
  <2> QED BY <2>1, <2>2, JoinStep DEF Take
<1>4. ASSUME NEW t \in Threads, NEW b \in Agents, NEW g \in Groups \cup {NoGroup},
             SetGroup(t, b, g)
      PROVE  Promise!Next
  <2>1. Resolved(b, g, described[b]) \in Groups
      BY ResolvedType
  <2> QED BY <1>4, <2>1, JoinStep DEF SetGroup, ThenPushAgent, Request
<1>5. ASSUME NEW t \in Threads, NEW g \in Groups, NEW c \in Contents, CreateConfig(t, g, c)
      PROVE  Promise!Next
    BY <1>5, PublishStep DEF CreateConfig, ThenPushGroup, Request
<1>6. CASE UNCHANGED <<published, member, host>>
    BY <1>6 DEF Promise!vars
<1>7. ASSUME NEW b \in Agents, CloseConn(b) \/ Drop(b) \/ ReceiveUnknown(b)
      PROVE  UNCHANGED <<published, member, host>>
    BY <1>7 DEF CloseConn, Drop, ReceiveUnknown
<1>8. ASSUME NEW w \in Workers, WorkerSteps(w) PROVE UNCHANGED <<published, member, host>>
    BY <1>8 DEF WorkerSteps, Load, LoadIncapable, LoadMissing, Build, BuildFails, Send, SendFails
<1>9. ASSUME NEW t \in Threads, NEW g \in Groups, NEW c \in Contents,
              RollbackConfig(t, g, c)
       PROVE  UNCHANGED <<published, member, host>>
    BY <1>9 DEF RollbackConfig, ThenPushGroup, Request
<1>10. ASSUME NEW t \in Threads, NEW b \in Agents, PushButton(t, b)
       PROVE  UNCHANGED <<published, member, host>>
    BY <1>10 DEF PushButton, ThenPushAgent, Request
<1>11. ASSUME NEW t \in Threads, Loop(t) \/ Cancel(t) \/ ListFallback(t)
       PROVE  UNCHANGED <<published, member, host>>
    BY <1>11 DEF Loop, Cancel, ListFallback, ListAgents, FilterConnected, Answer, PickAgent, SkipAgent
<1>12. ServerRestart \/ UNCHANGED vars => UNCHANGED <<published, member, host>>
    BY DEF ServerRestart, vars
<1>13. ASSUME NEW w \in Workers, LoadFallback(w) PROVE Promise!Next
  <2>1. task[w].agent \in Agents
      BY <1>13 DEF LoadFallback, IInv, TasksSound, Sound
  <2> QED BY <1>13, <2>1, SelectedAssumption, JoinStep DEF LoadFallback
<1> QED BY <1>1, <1>3, <1>4, <1>5, <1>6, <1>7, <1>8, <1>9, <1>10, <1>11, <1>12, <1>13
        DEF Next, AgentSteps, Operator

(* The detailed system, with its reads and sends interleaved any way,       *)
(* implements Delivery: it only publishes, moves agents and lets them run   *)
(* the whole of what was published for a group of theirs, or after a        *)
(* restart files that their disk has of such.                               *)
THEOREM Implements == Spec => KeepsPromise
<1> QED BY InitIInv, InitPromise, NextIInv, NextPromise, Invariance, PTL
        DEF Spec, KeepsPromise, Promise!Spec

-----------------------------------------------------------------------------
(* Without faults: once nothing is in flight to or from an agent, it runs   *)
(* the current configuration of its group.  No single guard gives this.     *)
(* The invariant says that an agent that will not come to run its           *)
(* configuration by itself is always still in someone's hands: its own      *)
(* report on the way, an answer, or a push that has not passed it yet.      *)

(* What the agent reports once it has handled the offers in its queue.      *)
LastOf(a) == IF down[a] = <<>> THEN host[a].last ELSE down[a][Len(down[a])]

(* Without faults an agent registers once, with the row and description it  *)
(* then keeps, and before that nothing was offered to it.                   *)
Calm(a) ==
    /\ link[a] \in {"down", "open", "live"}
    /\ link[a] = "live" <=> assigned[a] # NoRow
    /\ described[a] <=> link[a] = "live"
    /\ ~host[a].failed
    /\ link[a] # "live" => /\ host[a].last = NoConfig
                           /\ down[a] = <<>>
                           /\ \A i \in 1..Len(up[a]) : up[a][i] \in {NoConfig, Absent}
    /\ link[a] = "down" => up[a] = <<>>
    /\ link[a] = "open" => host[a].due \/ up[a] # <<>>

(* A worker that builds or sends has a live connection to send on.          *)
Attached(w) ==
    task[w].pc \in {"load", "build", "send"} =>
        /\ task[w].held
        /\ link[task[w].agent] = "live"
        /\ w \in Agents => task[w].agent = w

(* The last report on the way, or else the row, is the agent's last status. *)
Told(a) ==
    link[a] # "down" /\ ~host[a].due =>
        \E i \in 0..Len(up[a]) :
            /\ host[a].last = IF i = 0 THEN reported[a] ELSE up[a][i]
            /\ \A j \in (i + 1)..Len(up[a]) : up[a][j] = Absent

(* An offer in the queue is not what the agent reported last.               *)
Changing(a) == \E i \in 1..Len(down[a]) : down[a][i] # host[a].last

(* The agent is or will be about to report, or a message of it will be      *)
(* answered.                                                                *)
Telling(a) ==
    \/ host[a].due
    \/ Changing(a)
    \/ \E i \in 1..Len(up[a]) : up[a][i] # Desired(a)

(* The answer or push of a worker will offer, or offers, what is current.   *)
Serves(w, a) ==
    /\ task[w].agent = a
    /\ \/ /\ task[w].pc = "load"
          /\ w \in Agents => task[w].msg # Desired(a)
       \/ /\ task[w].pc = "build"
          /\ w \in Agents => task[w].msg # Desired(a)
          /\ task[w].group = ResolveGroup(a)
       \/ /\ task[w].pc = "send"
          /\ task[w].offer = Desired(a)

(* A request has the agent still to visit.                                  *)
Will(t, a) ==
    \/ task[t].pc = "list" /\ push[t].scope = ResolveGroup(a)
    \/ task[t].pc \notin {"idle", "list"} /\ a \in push[t].todo

InHand(a) ==
    \/ LastOf(a) = Desired(a)
    \/ Telling(a)
    \/ \E w \in Workers : Serves(w, a)
    \/ \E t \in Threads : Will(t, a)

Served(a) == link[a] # "down" /\ Desired(a) # NoConfig => InHand(a)

Settling ==
    /\ \A a \in Agents : Calm(a) /\ Told(a) /\ Served(a)
    /\ \A w \in Workers : Attached(w)

SettledInv == faults = 0 => Settling

LEMMA InitSettled == Init => SettledInv
<1> SUFFICES ASSUME Init PROVE Settling
    BY DEF SettledInv
<1>1. ASSUME NEW a \in Agents PROVE Calm(a) /\ Told(a) /\ Served(a)
    BY <1>1 DEF Init, Calm, Told, Served
<1>2. ASSUME NEW w \in Workers PROVE Attached(w)
    BY <1>2 DEF Init, Attached, Idle, Task
<1> QED BY <1>1, <1>2 DEF Settling

-----------------------------------------------------------------------------
(* The steps a run without faults takes.                                    *)
Healthy ==
    \/ \E a \in Agents : Connect(a) \/ AgentSend(a) \/ Apply(a) \/ Receive(a)
    \/ \E w \in Workers : Load(w) \/ Build(w) \/ Send(w)
    \/ \E t \in Threads : Operator(t) \/ Loop(t)

LEMMA OnlyHealthy ==
    ASSUME IInv, SettledInv, [Next]_vars, faults' = 0
    PROVE  Settling /\ (Healthy \/ UNCHANGED vars)
<1>0. faults \in Nat
    BY BoundsAssumption DEF IInv, TypeOK
<1>1. ~Fault
    BY <1>0 DEF Fault
<1>2. CASE UNCHANGED vars
    BY <1>2 DEF vars, SettledInv
<1>3. CASE Next
  <2>1. ASSUME NEW a \in Agents, AgentSteps(a)
        PROVE  faults' = faults /\ (Healthy \/ CloseConn(a))
      BY <1>1, <2>1 DEF AgentSteps, ReceiveAny, ApplyFails, Drop, AgentRestart,
         ReceiveUnsaved, ReceiveUnknown, Connect, AgentSend, Apply, Receive, CloseConn, Healthy
  <2>2. ASSUME NEW w \in Workers, WorkerSteps(w) \/ LoadFallback(w)
        PROVE  /\ faults' = faults
               /\ Healthy \/ LoadIncapable(w) \/ LoadMissing(w) \/ SendFails(w)
      BY <1>1, <2>2 DEF WorkerSteps, LoadFallback, BuildFails, Load, LoadMissing, Build,
         LoadIncapable, Send, SendFails, Healthy
  <2>3. ASSUME NEW t \in Threads, Operator(t) \/ Loop(t) \/ Cancel(t) \/ ListFallback(t)
        PROVE  faults' = faults /\ Healthy
    <3>1. ~Cancel(t) /\ ~ListFallback(t)
        BY <1>1 DEF Cancel, ListFallback
    <3>2. Operator(t) => faults' = faults
        BY DEF Operator, CreateConfig, RollbackConfig, SetGroup, PushButton, ThenPushGroup,
               ThenPushAgent, Request
    <3>3. Loop(t) => faults' = faults
        BY DEF Loop, ListAgents, FilterConnected, Answer, PickAgent, SkipAgent
    <3> QED BY <2>3, <3>1, <3>2, <3>3 DEF Healthy
  <2>4. ~ServerRestart
      BY <1>1 DEF ServerRestart
  <2>5. faults = 0
      BY <1>3, <2>1, <2>2, <2>3, <2>4 DEF Next
  <2>6. Settling
      BY <2>5 DEF SettledInv
  <2>7. ASSUME NEW a \in Agents PROVE ~CloseConn(a)
      BY <2>6 DEF Settling, Calm, CloseConn
  <2>8. ASSUME NEW w \in Workers PROVE ~LoadIncapable(w) /\ ~LoadMissing(w) /\ ~SendFails(w)
      BY <2>6, SoundHasAgent
      DEF Settling, Calm, Attached, LoadIncapable, LoadMissing, SendFails, IInv, HasAgent
  <2> QED BY <1>3, <2>1, <2>2, <2>3, <2>4, <2>6, <2>7, <2>8 DEF Next
<1> QED BY <1>2, <1>3

-----------------------------------------------------------------------------
(* What a message that goes out or is taken does to the reports on the way. *)
LEMMA Queues ==
    ASSUME NEW S, NEW s \in Seq(S), NEW e \in S
    PROVE  /\ Len(s) \in Nat
           /\ Append(s, e) \in Seq(S) /\ Append(s, e) # <<>>
           /\ Len(Append(s, e)) = Len(s) + 1
           /\ \A i \in 1..Len(s) : Append(s, e)[i] = s[i]
           /\ Append(s, e)[Len(s) + 1] = e
           /\ s = <<>> <=> Len(s) = 0
           /\ s # <<>> => /\ Tail(s) \in Seq(S)
                          /\ Len(Tail(s)) = Len(s) - 1
                          /\ \A i \in 1..Len(Tail(s)) : Tail(s)[i] = s[i + 1]
                          /\ Head(s) = s[1] /\ Head(s) \in S
<1>1. Len(s) \in Nat /\ (s = <<>> <=> Len(s) = 0)
    BY EmptySeq, LenProperties
<1>2. s # <<>> => /\ Tail(s) \in Seq(S)
                  /\ Len(Tail(s)) = Len(s) - 1
                  /\ \A i \in 1..Len(Tail(s)) : Tail(s)[i] = s[i + 1]
                  /\ Head(s) = s[1] /\ Head(s) \in S
    BY HeadTailProperties
<1>3. /\ Append(s, e) \in Seq(S) /\ Append(s, e) # <<>>
      /\ Len(Append(s, e)) = Len(s) + 1
      /\ \A i \in 1..Len(s) : Append(s, e)[i] = s[i]
      /\ Append(s, e)[Len(s) + 1] = e
    BY <1>1, AppendProperties
<1> QED BY <1>1, <1>2, <1>3

LEMMA SentLast == \A S : \A s \in Seq(S), e \in S : Append(s, e) # <<>>
BY AppendProperties

-----------------------------------------------------------------------------
(* Only what happens at an agent, an offer sent to it and its assignment    *)
(* touch the parts of Calm.                                                 *)
LEMMA NextCalm ==
    ASSUME IInv, Settling, Healthy \/ UNCHANGED vars, NEW b \in Agents
    PROVE  Calm(b)'
<1> USE DEF IInv, TypeOK, Settling, database, network
<1>0. Calm(b)
    OBVIOUS
<1>1. ASSUME NEW a \in Agents, Connect(a) PROVE Calm(b)'
    BY <1>0, <1>1 DEF Connect, Calm, Hosts
<1>2. ASSUME NEW a \in Agents, AgentSend(a) PROVE Calm(b)'
  <2>1. CASE a # b
      BY <1>0, <1>2, <2>1 DEF AgentSend, Calm
  <2>2. CASE a = b
    <3> DEFINE e == IF host[b].due THEN host[b].last ELSE Absent
    <3>1. /\ up'[b] = Append(up[b], e) /\ e \in Sections
          /\ host'[b].last = host[b].last /\ host'[b].failed = host[b].failed
          /\ UNCHANGED <<link, down, assigned, described>>
        BY <1>2, <2>2 DEF AgentSend, Hosts, Sections
    <3>2. link[b] # "down"
        BY <1>2, <2>2 DEF AgentSend
    <3>4. up'[b] # <<>>
        BY <3>1, SentLast
    <3>3. ASSUME link[b] # "live", NEW i \in 1..Len(up'[b])
          PROVE  up'[b][i] \in {NoConfig, Absent}
      <4>1. e \in {NoConfig, Absent}
          BY <1>0, <3>3 DEF Calm
      <4>2. i = Len(up[b]) + 1 \/ i \in 1..Len(up[b])
          BY <3>1, <3>3, Queues
      <4> QED BY <1>0, <3>1, <3>3, <4>1, <4>2, Queues DEF Calm
    <3> QED BY <1>0, <3>1, <3>2, <3>3, <3>4 DEF Calm
  <2> QED BY <2>1, <2>2
<1>3. ASSUME NEW a \in Agents, Apply(a) PROVE Calm(b)'
  <2>1. CASE a # b
      BY <1>0, <1>3, <2>1 DEF Apply, Offered, Calm
  <2>2. CASE a = b
    <3>1. /\ UNCHANGED <<link, up, assigned, described>>
          /\ ~host'[b].failed /\ down[b] # <<>>
        BY <1>3, <2>2 DEF Apply, Offered
    <3> QED BY <1>0, <3>1 DEF Calm
  <2> QED BY <2>1, <2>2
<1>4. ASSUME NEW a \in Agents, Receive(a) PROVE Calm(b)'
    BY <1>0, <1>4, SetsAssumption DEF Receive, Take, Calm
<1>5. ASSUME NEW w \in Workers, Send(w) PROVE Calm(b)'
    BY <1>0, <1>5, SoundHasAgent DEF Send, HasAgent, Calm, Attached
<1>6. ASSUME NEW t \in Threads, Operator(t) PROVE Calm(b)'
  <2>1. UNCHANGED <<network, host, described>>
      BY <1>6 DEF Operator, CreateConfig, RollbackConfig, SetGroup, PushButton,
                  ThenPushGroup, ThenPushAgent, Request
  <2>2. assigned'[b] # NoRow <=> assigned[b] # NoRow
    <3>1. ASSUME NEW a \in Agents, NEW g \in Groups \cup {NoGroup}, SetGroup(t, a, g)
          PROVE  assigned'[b] # NoRow <=> assigned[b] # NoRow
        BY <3>1, SetsAssumption DEF SetGroup
    <3> QED BY <1>6, <3>1 DEF Operator, CreateConfig, RollbackConfig, PushButton
  <2> QED BY <1>0, <2>1, <2>2 DEF Calm
<1>7. CASE UNCHANGED <<network, host, assigned, described>>
    BY <1>0, <1>7 DEF Calm
<1>8. ASSUME NEW w \in Workers, Load(w) \/ Build(w) PROVE UNCHANGED <<network, host, assigned, described>>
    BY <1>8 DEF Load, Build
<1>9. ASSUME NEW t \in Threads, Loop(t) PROVE UNCHANGED <<network, host, assigned, described>>
    BY <1>9 DEF Loop, ListAgents, FilterConnected, Answer, PickAgent, SkipAgent
<1>10. UNCHANGED vars => UNCHANGED <<network, host, assigned, described>>
    BY DEF vars
<1> QED BY <1>1, <1>2, <1>3, <1>4, <1>5, <1>6, <1>7, <1>8, <1>9, <1>10 DEF Healthy

(* Connections do not go, and a worker starts only on a live one.           *)
LEMMA NextAttached ==
    ASSUME IInv, Settling, Healthy \/ UNCHANGED vars, NEW v \in Workers
    PROVE  Attached(v)'
<1> USE DEF IInv, TypeOK, Settling, database, network
<1>0. Attached(v) /\ HasAgent
    BY SoundHasAgent
<1>1. \A a \in Agents : link[a] = "live" => link'[a] = "live"
  <2>1. ASSUME NEW a \in Agents, Connect(a) \/ Receive(a)
        PROVE  \A b \in Agents : link[b] = "live" => link'[b] = "live"
      BY <2>1 DEF Connect, Receive, Take
  <2>2. ASSUME NEW a \in Agents, AgentSend(a) \/ Apply(a) PROVE UNCHANGED link
      BY <2>2 DEF AgentSend, Apply, Offered
  <2>3. ASSUME NEW w \in Workers, Load(w) \/ Build(w) \/ Send(w) PROVE UNCHANGED link
      BY <2>3 DEF Load, Build, Send
  <2>4. ASSUME NEW t \in Threads, Operator(t) PROVE UNCHANGED link
      BY <2>4 DEF Operator, CreateConfig, RollbackConfig, SetGroup, PushButton,
                  ThenPushGroup, ThenPushAgent, Request
  <2>5. ASSUME NEW t \in Threads, Loop(t) PROVE UNCHANGED link
      BY <2>5 DEF Loop, ListAgents, FilterConnected, Answer, PickAgent, SkipAgent
  <2>6. UNCHANGED vars => UNCHANGED link
      BY DEF vars
  <2> QED BY <2>1, <2>2, <2>3, <2>4, <2>5, <2>6 DEF Healthy
<1>2. CASE /\ task'[v].pc \in {"load", "build", "send"} => task[v].pc \in {"load", "build", "send"}
           /\ task'[v].held = task[v].held
           /\ task'[v].agent = task[v].agent
    BY <1>0, <1>1, <1>2 DEF Attached, HasAgent
<1>3. CASE task'[v].pc \in {"idle", "list", "filter", "loop"}
    BY <1>3 DEF Attached
<1>4. ASSUME NEW a \in Agents, Receive(a) PROVE Attached(v)'
  <2>1. task' = [task EXCEPT ![a] = [Task("load") EXCEPT !.agent = a, !.msg = Head(up[a]),
                                                         !.held = TRUE]]
      BY <1>4 DEF Receive, Take
  <2>2. CASE v = a
    <3>1. task'[v].held /\ task'[v].agent = a
        BY <2>1, <2>2 DEF Task
    <3>2. link'[a] = "live"
        BY <1>4 DEF Receive, Take
    <3> QED BY <2>2, <3>1, <3>2 DEF Attached
  <2>3. CASE v # a
      BY <1>2, <2>1, <2>3
  <2> QED BY <2>2, <2>3
<1>5. ASSUME NEW w \in Workers, Load(w) \/ Build(w) PROVE Attached(v)'
  <2>1. CASE v = w
    <3>1. /\ task[v].pc \in {"load", "build"}
          /\ \/ task'[v] = [task[v] EXCEPT !.pc = "build", !.group = ResolveGroup(task[v].agent)]
             \/ task'[v] = [task[v] EXCEPT !.pc = "send", !.offer = Wanted(v)]
        BY <1>5, <2>1 DEF Load, Build
    <3>2. task[v] \in Tasks
        OBVIOUS
    <3>3. task'[v].held = task[v].held /\ task'[v].agent = task[v].agent
        BY <3>1, <3>2 DEF Tasks
    <3> QED BY <1>2, <3>1, <3>3
  <2>2. CASE v # w
      BY <1>2, <1>5, <2>2 DEF Load, Build
  <2> QED BY <2>1, <2>2
<1>6. ASSUME NEW w \in Workers, Send(w) PROVE Attached(v)'
  <2>1. CASE v = w
      BY <1>3, <1>6, <2>1 DEF Send, Finish, Idle, Task
  <2>2. CASE v # w
      BY <1>2, <1>6, <2>2 DEF Send, Finish
  <2> QED BY <2>1, <2>2
<1>7. ASSUME NEW t \in Threads, Operator(t) PROVE Attached(v)'
  <2>1. task' = [task EXCEPT ![t] = Task("list")] \/ task' = [task EXCEPT ![t] = Task("loop")]
      BY <1>7 DEF Operator, CreateConfig, RollbackConfig, SetGroup, PushButton,
                  ThenPushGroup, ThenPushAgent, Request
  <2>2. CASE v = t
      BY <1>3, <2>1, <2>2, WorkersAre DEF Task
  <2>3. CASE v # t
      BY <1>2, <2>1, <2>3
  <2> QED BY <2>2, <2>3
<1>8. ASSUME NEW t \in Threads, ListAgents(t) \/ FilterConnected(t) \/ Answer(t)
      PROVE  Attached(v)'
  <2>1. CASE v = t
      BY <1>3, <1>8, <2>1 DEF ListAgents, FilterConnected, Answer, Idle, Task, Tasks
  <2>2. CASE v # t
      BY <1>2, <1>8, <2>2 DEF ListAgents, FilterConnected, Answer
  <2> QED BY <2>1, <2>2
<1>9. ASSUME NEW t \in Threads, NEW a \in Agents, PickAgent(t, a) PROVE Attached(v)'
  <2>1. task' = [task EXCEPT ![t] = [Task("load") EXCEPT !.agent = a, !.held = link[a] = "live"]]
      BY <1>9 DEF PickAgent
  <2>2. CASE v = t
    <3>1. link[a] = "live"
        BY <1>9 DEF PickAgent, Registered, Calm
    <3>2. task'[v].held /\ task'[v].agent = a
        BY <2>1, <2>2, <3>1 DEF Task
    <3>3. v \notin Agents
        BY <2>2, SetsAssumption
    <3> QED BY <1>1, <3>1, <3>2, <3>3 DEF Attached
  <2>3. CASE v # t
      BY <1>2, <2>1, <2>3
  <2> QED BY <2>2, <2>3
<1>10. ASSUME NEW a \in Agents, Connect(a) \/ AgentSend(a) \/ Apply(a) PROVE Attached(v)'
    BY <1>2, <1>10 DEF Connect, AgentSend, Apply, Offered
<1>11. ASSUME NEW t \in Threads, NEW a \in Agents, SkipAgent(t, a) PROVE Attached(v)'
    BY <1>2, <1>11 DEF SkipAgent
<1>12. CASE UNCHANGED vars
    BY <1>2, <1>12 DEF vars
<1> QED BY <1>4, <1>5, <1>6, <1>7, <1>8, <1>9, <1>10, <1>11, <1>12 DEF Healthy, Loop

(* An offer that changes what the agent reports is reported, of one that    *)
(* does not nothing is to be told.                                          *)
LEMMA ApplyTells ==
    ASSUME IInv, Settling, NEW b \in Agents, Apply(b)
    PROVE  \/ host'[b].due
           \/ /\ host'[b].due = host[b].due /\ host'[b].last = host[b].last
              /\ Head(down[b]) = host[b].last
<1>1. PICK due \in Status(b, Head(down[b]), FALSE) :
        host' = [host EXCEPT ![b] =
                    [effective |-> Files(Head(down[b])),
                     disk |-> Overwrite(host[b].disk, Files(Head(down[b]))),
                     last |-> Head(down[b]), failed |-> FALSE, due |-> due]]
    BY DEF Apply
<1>2. host'[b].due = due /\ host'[b].last = Head(down[b])
    BY <1>1 DEF IInv, TypeOK
<1>3. due = TRUE \/ (due = host[b].due /\ Head(down[b]) = host[b].last)
    BY DEF Status
<1> QED BY <1>2, <1>3

(* A message is taken from the front and added at the end, so that the last *)
(* report stays the last one until it is the one stored.                    *)
LEMMA NextTold ==
    ASSUME IInv, Settling, Healthy \/ UNCHANGED vars, NEW b \in Agents
    PROVE  Told(b)'
<1> USE DEF IInv, TypeOK, Settling, database, network
<1>0. Told(b) /\ Calm(b) /\ up[b] \in Seq(Sections) /\ Len(up[b]) \in Nat
    BY LenProperties
<1>1. ASSUME NEW a \in Agents, Connect(a) PROVE Told(b)'
    BY <1>0, <1>1 DEF Connect, Told, Hosts
<1>2. ASSUME NEW a \in Agents, AgentSend(a) PROVE Told(b)'
  <2>1. CASE a # b
      BY <1>0, <1>2, <2>1 DEF AgentSend, Told
  <2>2. CASE a = b
    <3> DEFINE e == IF host[b].due THEN host[b].last ELSE Absent
               n == Len(up[b])
    <3>1. /\ up'[b] = Append(up[b], e) /\ e \in Sections
          /\ host'[b].last = host[b].last
          /\ UNCHANGED <<link, reported>>
        BY <1>2, <2>2 DEF AgentSend, Hosts, Sections
    <3>2. link[b] # "down"
        BY <1>2, <2>2 DEF AgentSend
    <3>3. /\ Len(up'[b]) = n + 1 /\ up'[b][n + 1] = e
          /\ \A i \in 1..n : up'[b][i] = up[b][i]
        BY <1>0, <3>1, Queues
    <3> HIDE DEF n
    <3>4. n \in Nat
        BY <1>0 DEF n
    <3>5. CASE host[b].due
      <4>1. n + 1 \in 0..Len(up'[b]) /\ n + 1 # 0
          BY <3>3, <3>4
      <4>2. host'[b].last = up'[b][n + 1]
          BY <3>1, <3>3, <3>5
      <4>3. \A j \in (n + 1 + 1)..Len(up'[b]) : up'[b][j] = Absent
          BY <3>3, <3>4
      <4> QED BY <4>1, <4>2, <4>3 DEF Told
    <3>6. CASE ~host[b].due
      <4>1. PICK i \in 0..n :
                /\ host[b].last = IF i = 0 THEN reported[b] ELSE up[b][i]
                /\ \A j \in (i + 1)..n : up[b][j] = Absent
          BY <1>0, <3>2, <3>6 DEF Told, n
      <4>2. i \in 0..Len(up'[b])
          BY <3>3, <3>4
      <4>3. host'[b].last = IF i = 0 THEN reported'[b] ELSE up'[b][i]
          BY <3>1, <3>3, <3>4, <4>1
      <4>4. ASSUME NEW j \in (i + 1)..Len(up'[b]) PROVE up'[b][j] = Absent
        <5>1. j = n + 1 \/ (j \in 1..n /\ j \in (i + 1)..n)
            BY <3>3, <3>4, <4>4
        <5> QED BY <3>3, <3>6, <4>1, <5>1
      <4> QED BY <4>2, <4>3, <4>4 DEF Told
    <3> QED BY <3>5, <3>6
  <2> QED BY <2>1, <2>2
<1>3. ASSUME NEW a \in Agents, Apply(a) PROVE Told(b)'
  <2>1. CASE a # b
      BY <1>0, <1>3, <2>1 DEF Apply, Offered, Told
  <2>2. CASE a = b
    <3>1. host'[b].due \/ (host'[b].due = host[b].due /\ host'[b].last = host[b].last)
        BY <1>3, <2>2, ApplyTells
    <3>2. UNCHANGED <<link, up, reported>>
        BY <1>3 DEF Apply, Offered
    <3> QED BY <1>0, <3>1, <3>2 DEF Told
  <2> QED BY <2>1, <2>2
<1>4. ASSUME NEW a \in Agents, Receive(a) PROVE Told(b)'
  <2>1. CASE a # b
      BY <1>0, <1>4, <2>1 DEF Receive, Take, Reported, Told
  <2>2. CASE a = b
    <3> DEFINE n == Len(up[b])
               s == up'[b]
    <3>1. /\ s = Tail(up[b]) /\ up[b] # <<>>
          /\ UNCHANGED host
          /\ reported'[b] = IF Head(up[b]) = Absent THEN reported[b] ELSE Head(up[b])
        BY <1>4, <2>2 DEF Receive, Take, Reported
    <3>2. link[b] # "down"
        BY <1>0, <3>1 DEF Calm
    <3>3. /\ Len(s) = n - 1 /\ Head(up[b]) = up[b][1]
          /\ \A i \in 1..Len(s) : s[i] = up[b][i + 1]
        BY <1>0, <3>1, HeadTailProperties
    <3>4. n \in Nat /\ n # 0
        BY <1>0, <3>1, EmptySeq
    <3>5. SUFFICES ASSUME ~host[b].due
                   PROVE  \E i \in 0..Len(s) :
                             /\ host'[b].last = IF i = 0 THEN reported'[b] ELSE s[i]
                             /\ \A j \in (i + 1)..Len(s) : s[j] = Absent
        BY <3>1 DEF Told
    <3>6. PICK i \in 0..n :
              /\ host[b].last = IF i = 0 THEN reported[b] ELSE up[b][i]
              /\ \A j \in (i + 1)..n : up[b][j] = Absent
        BY <1>0, <3>2, <3>5 DEF Told
    <3>7. host[b].last # Absent
        BY SetsAssumption DEF Hosts, Hashes
    <3> HIDE DEF n, s
    <3>8. CASE i = 0
      <4>1. up[b][1] = Absent
          BY <3>4, <3>6, <3>8
      <4>2. host'[b].last = reported'[b]
          BY <3>1, <3>3, <3>6, <3>8, <4>1
      <4>3. ASSUME NEW j \in 1..Len(s) PROVE s[j] = Absent
        <5>1. s[j] = up[b][j + 1]
            BY <3>3
        <5>2. j + 1 \in (i + 1)..n
            BY <3>3, <3>4, <3>8
        <5> QED BY <3>6, <5>1, <5>2
      <4>4. 0 \in 0..Len(s) /\ 0 + 1 = 1
          BY <3>3, <3>4
      <4> QED BY <4>2, <4>3, <4>4
    <3>9. CASE i = 1
      <4>1. host'[b].last = reported'[b]
          BY <3>1, <3>3, <3>6, <3>7, <3>9
      <4>2. ASSUME NEW j \in 1..Len(s) PROVE s[j] = Absent
        <5>1. s[j] = up[b][j + 1]
            BY <3>3
        <5>2. j + 1 \in (i + 1)..n
            BY <3>3, <3>4, <3>9
        <5> QED BY <3>6, <5>1, <5>2
      <4>4. 0 \in 0..Len(s) /\ 0 + 1 = 1
          BY <3>3, <3>4
      <4> QED BY <4>1, <4>2, <4>4
    <3>10. CASE i > 1
      <4>1. i - 1 \in 0..Len(s) /\ i - 1 \in 1..Len(s) /\ i - 1 # 0 /\ (i - 1) + 1 = i
          BY <3>3, <3>4, <3>10
      <4>2. host'[b].last = s[i - 1]
        <5>1. s[i - 1] = up[b][(i - 1) + 1]
            BY <3>3, <4>1
        <5> QED BY <3>1, <3>6, <3>10, <4>1, <5>1
      <4>3. ASSUME NEW j \in i..Len(s) PROVE s[j] = Absent
        <5>1. j \in 1..Len(s) /\ j + 1 \in (i + 1)..n
            BY <3>3, <3>4, <3>10
        <5>2. s[j] = up[b][j + 1]
            BY <3>3, <5>1
        <5> QED BY <3>6, <5>1, <5>2
      <4> QED BY <4>1, <4>2, <4>3
    <3> QED BY <3>8, <3>9, <3>10
  <2> QED BY <2>1, <2>2
<1>5. CASE UNCHANGED <<link, up, host, reported>>
    BY <1>0, <1>5 DEF Told
<1>6. ASSUME NEW w \in Workers, Load(w) \/ Build(w) \/ Send(w)
      PROVE  UNCHANGED <<link, up, host, reported>>
    BY <1>6 DEF Load, Build, Send
<1>7. ASSUME NEW t \in Threads, Operator(t) PROVE UNCHANGED <<link, up, host, reported>>
    BY <1>7 DEF Operator, CreateConfig, RollbackConfig, SetGroup, PushButton,
                ThenPushGroup, ThenPushAgent, Request
<1>8. ASSUME NEW t \in Threads, Loop(t) PROVE UNCHANGED <<link, up, host, reported>>
    BY <1>8 DEF Loop, ListAgents, FilterConnected, Answer, PickAgent, SkipAgent
<1>9. UNCHANGED vars => UNCHANGED <<link, up, host, reported>>
    BY DEF vars
<1> QED BY <1>1, <1>2, <1>3, <1>4, <1>5, <1>6, <1>7, <1>8, <1>9 DEF Healthy

-----------------------------------------------------------------------------
(* A step that leaves the agent and its queues alone keeps it in someone's  *)
(* hands if each worker that had it keeps it or hands it on.                *)
LEMMA Keeps ==
    ASSUME NEW b \in Agents, InHand(b),
           ResolveGroup(b)' = ResolveGroup(b), Desired(b)' = Desired(b),
           up'[b] = up[b], down'[b] = down[b], host'[b] = host[b],
           \A w \in Workers : Serves(w, b) => task'[w] = task[w] \/ InHand(b)',
           \A t \in Threads :
               Will(t, b) => (task'[t] = task[t] /\ push'[t] = push[t]) \/ InHand(b)'
    PROVE  InHand(b)'
<1>1. CASE LastOf(b) = Desired(b)
    BY <1>1 DEF InHand, LastOf
<1>2. CASE Telling(b)
    BY <1>2 DEF InHand, Telling, Changing
<1>3. ASSUME NEW w \in Workers, Serves(w, b) PROVE InHand(b)'
    BY <1>3 DEF InHand, Serves
<1>4. ASSUME NEW t \in Threads, Will(t, b) PROVE InHand(b)'
    BY <1>4 DEF InHand, Will
<1> QED BY <1>1, <1>2, <1>3, <1>4 DEF InHand

LEMMA DesiredType ==
    ASSUME IInv, NEW b \in Agents
    PROVE  /\ ResolveGroup(b) \in Groups
           /\ Desired(b) \in Hashes /\ Desired(b) # Absent
BY ResolvedType, SetsAssumption DEF ResolveGroup, Desired, IInv, TypeOK, Hashes

(* An agent that no message registered yet is about to send one, or has,    *)
(* that any configuration is an answer to.                                  *)
LEMMA OpenTells ==
    ASSUME IInv, Settling, NEW b \in Agents, link[b] = "open", Desired(b) # NoConfig
    PROVE  Telling(b)
<1>1. Calm(b) /\ up[b] \in Seq(Sections)
    BY DEF Settling, IInv, TypeOK
<1>2. CASE up[b] # <<>>
  <2>1. 1 \in 1..Len(up[b])
      BY <1>1, <1>2, EmptySeq
  <2>2. up[b][1] \in {NoConfig, Absent}
      BY <1>1, <2>1 DEF Calm
  <2> QED BY <2>1, <2>2, DesiredType DEF Telling
<1> QED BY <1>1, <1>2 DEF Calm, Telling

(* What the agent sends differs from what is current, or it runs that, or   *)
(* will run something else first.                                           *)
LEMMA AgentSendServes ==
    ASSUME IInv, Settling, NEW b \in Agents, AgentSend(b), Desired(b) # NoConfig
    PROVE  InHand(b)'
<1> USE DEF IInv, TypeOK, database, network
<1> DEFINE e == IF host[b].due THEN host[b].last ELSE Absent
<1>1. /\ up'[b] = Append(up[b], e) /\ e \in Sections
      /\ host'[b].last = host[b].last
      /\ UNCHANGED <<down, current, assigned, described>>
    BY DEF AgentSend, Hosts, Sections
<1>2. Desired(b)' = Desired(b) /\ LastOf(b)' = LastOf(b) /\ Changing(b)' = Changing(b)
    BY <1>1 DEF Desired, ResolveGroup, LastOf, Changing
<1>3. CASE e # Desired(b)
  <2>1. up'[b][Len(up[b]) + 1] = e /\ Len(up[b]) + 1 \in 1..Len(up'[b])
      BY <1>1, Queues
  <2> QED BY <1>2, <1>3, <2>1 DEF InHand, Telling
<1>4. CASE e = Desired(b)
  <2>1. host[b].last = Desired(b)
      BY <1>4, DesiredType
  <2>2. CASE down[b] = <<>>
      BY <1>2, <2>1, <2>2 DEF InHand, LastOf
  <2>3. CASE Changing(b)
      BY <1>2, <2>3 DEF InHand, Telling
  <2>4. CASE down[b] # <<>> /\ ~Changing(b)
    <3>1. Len(down[b]) \in 1..Len(down[b])
        BY <2>4, EmptySeq, LenProperties
    <3>2. LastOf(b) = host[b].last
        BY <2>4, <3>1 DEF LastOf, Changing
    <3> QED BY <1>2, <2>1, <3>2 DEF InHand
  <2> QED BY <2>2, <2>3, <2>4
<1> QED BY <1>3, <1>4

(* An offer that the agent reported before is passed over, any other is     *)
(* reported.                                                                *)
LEMMA ApplyServes ==
    ASSUME IInv, Settling, NEW b \in Agents, Apply(b), InHand(b)
    PROVE  InHand(b)'
<1> USE DEF IInv, TypeOK, database, network
<1>1. /\ UNCHANGED <<current, assigned, described, up, task, push>>
      /\ down[b] # <<>> /\ down'[b] = Tail(down[b])
    BY DEF Apply, Offered
<1>2. ResolveGroup(b)' = ResolveGroup(b) /\ Desired(b)' = Desired(b)
    BY <1>1 DEF ResolveGroup, Desired
<1>3. CASE host'[b].due
    BY <1>3 DEF InHand, Telling
<1>4. CASE /\ host'[b].due = host[b].due /\ host'[b].last = host[b].last
           /\ Head(down[b]) = host[b].last
  <2> DEFINE s == down[b]
             n == Len(down[b])
  <2>1. /\ n \in Nat /\ n # 0 /\ Len(down'[b]) = n - 1 /\ s[1] = host[b].last
        /\ \A i \in 1..(n - 1) : down'[b][i] = s[i + 1]
        /\ down'[b] = <<>> <=> n - 1 = 0
    <3>1. s \in Seq(Contents) /\ Tail(s) \in Seq(Contents)
        BY <1>1, HeadTailProperties
    <3>2. /\ n \in Nat /\ n # 0 /\ s[1] = Head(s)
          /\ Len(Tail(s)) = n - 1 /\ \A i \in 1..Len(Tail(s)) : Tail(s)[i] = s[i + 1]
        BY <1>1, <3>1, HeadTailProperties, EmptySeq, LenProperties
    <3>3. Tail(s) = <<>> <=> Len(Tail(s)) = 0
        BY <3>1, EmptySeq, LenProperties
    <3> HIDE DEF n, s
    <3>4. down'[b] = Tail(s) /\ s[1] = host[b].last
        BY <1>1, <1>4, <3>2 DEF s
    <3> QED BY <3>2, <3>3, <3>4
  <2> HIDE DEF n
  <2>2. CASE LastOf(b) = Desired(b)
    <3>1. LastOf(b) = s[n]
        BY <1>1 DEF LastOf, n
    <3>2. LastOf(b)' = s[n]
      <4>1. CASE n = 1
          BY <1>4, <2>1, <4>1 DEF LastOf
      <4>2. CASE n # 1
        <5>1. n - 1 \in 1..(n - 1) /\ (n - 1) + 1 = n /\ down'[b] # <<>>
            BY <2>1, <4>2
        <5> QED BY <2>1, <5>1 DEF LastOf
      <4> QED BY <4>1, <4>2
    <3> QED BY <1>2, <2>2, <3>1, <3>2 DEF InHand
  <2>3. CASE Changing(b)
    <3>1. PICK i \in 1..n : s[i] # host[b].last
        BY <2>3 DEF Changing, n
    <3>2. i - 1 \in 1..(n - 1) /\ (i - 1) + 1 = i
        BY <2>1, <3>1
    <3>3. down'[b][i - 1] # host'[b].last /\ i - 1 \in 1..Len(down'[b])
        BY <1>4, <2>1, <3>1, <3>2
    <3> QED BY <3>3 DEF InHand, Telling, Changing
  <2>4. CASE Telling(b) /\ ~Changing(b)
      BY <1>1, <1>2, <1>4, <2>4 DEF InHand, Telling
  <2>5. ASSUME NEW w \in Workers, Serves(w, b) PROVE InHand(b)'
      BY <1>1, <1>2, <2>5 DEF InHand, Serves
  <2>6. ASSUME NEW t \in Threads, Will(t, b) PROVE InHand(b)'
      BY <1>1, <1>2, <2>6 DEF InHand, Will
  <2> QED BY <2>2, <2>3, <2>4, <2>5, <2>6 DEF InHand
<1> QED BY <1>3, <1>4, ApplyTells

(* A report of anything else will be answered with what is current; one of  *)
(* what is current leaves the agent in the hands it was in.                 *)
LEMMA ReceiveServes ==
    ASSUME IInv, Settling, NEW b \in Agents, NEW a \in Agents, Receive(a),
           link'[b] # "down", Desired(b)' # NoConfig
    PROVE  InHand(b)'
<1> USE DEF IInv, TypeOK, database, network
<1>1. /\ task[a].pc = "idle" /\ up[a] # <<>>
      /\ task' = [task EXCEPT ![a] = [Task("load") EXCEPT !.agent = a, !.msg = Head(up[a]),
                                                         !.held = TRUE]]
      /\ up' = [up EXCEPT ![a] = Tail(@)]
      /\ UNCHANGED <<current, down, host, push>>
    BY DEF Receive, Take
<1>0. CASE a = b /\ link[b] = "open"
  <2>1. Head(up[b]) \in {NoConfig, Absent}
    <3>1. 1 \in 1..Len(up[b]) /\ Head(up[b]) = up[b][1]
        BY <1>0, <1>1, HeadTailProperties, EmptySeq, LenProperties
    <3> QED BY <1>0, <3>1 DEF Settling, Calm
  <2>2. Desired(b)' # Absent
      BY <1>1, ResolvedType, SetsAssumption DEF Desired, ResolveGroup, Hashes
  <2>3. Serves(b, b)'
      BY <1>0, <1>1, <2>1, <2>2, WorkersAre DEF Serves, Task
  <2> QED BY <2>3, WorkersAre DEF InHand
<1> SUFFICES ASSUME ~(a = b /\ link[b] = "open") PROVE InHand(b)'
    BY <1>0
<1>2. ResolveGroup(b)' = ResolveGroup(b) /\ Desired(b)' = Desired(b)
  <2>1. /\ assigned' = [assigned EXCEPT ![a] = IF @ = NoRow THEN NoGroup ELSE @]
        /\ described' = [described EXCEPT ![a] = @ \/ link[a] = "open"]
      BY DEF Receive, Take
  <2>2. assigned'[b] \in Groups <=> assigned[b] \in Groups
      BY <2>1, SetsAssumption
  <2>3. assigned'[b] \in Groups => assigned'[b] = assigned[b]
      BY <2>1, SetsAssumption
  <2>4. described'[b] = described[b]
      BY <2>1
  <2> QED BY <1>1, <2>2, <2>3, <2>4 DEF ResolveGroup, Resolved, Desired
<1>3. link[b] # "down"
    BY <1>1 DEF Receive, Take, Settling, Calm
<1>4. InHand(b)
    BY <1>2, <1>3 DEF Settling, Served
<1>5. \A w \in Workers : Serves(w, b) => task'[w] = task[w]
    BY <1>1 DEF Serves
<1>6. \A t \in Threads : task'[t] = task[t] /\ push'[t] = push[t]
    BY <1>1, WorkersAre, SetsAssumption
<1>7. CASE a # b
    BY <1>1, <1>2, <1>4, <1>5, <1>6, <1>7, Keeps
<1>8. CASE a = b /\ Head(up[b]) # Desired(b)
  <2>1. /\ task'[b].pc = "load" /\ task'[b].agent = b
        /\ task'[b].msg = Head(up[b])
      BY <1>1, <1>8, WorkersAre DEF Task
  <2>2. Serves(b, b)'
      BY <1>2, <1>8, <2>1 DEF Serves
  <2> QED BY <2>2, WorkersAre DEF InHand
<1>9. CASE a = b /\ Head(up[b]) = Desired(b)
  <2>1. CASE LastOf(b) = Desired(b)
      BY <1>1, <1>2, <2>1 DEF InHand, LastOf
  <2>2. CASE host[b].due \/ Changing(b)
      BY <1>1, <2>2 DEF InHand, Telling, Changing
  <2>3. ASSUME NEW i \in 1..Len(up[b]), up[b][i] # Desired(b) PROVE InHand(b)'
    <3>1. /\ Len(up[b]) \in Nat /\ Len(Tail(up[b])) = Len(up[b]) - 1
          /\ \A j \in 1..Len(Tail(up[b])) : Tail(up[b])[j] = up[b][j + 1]
          /\ Head(up[b]) = up[b][1]
        BY <1>1, <1>9, HeadTailProperties, LenProperties
    <3>2. i # 1
        BY <1>9, <2>3, <3>1
    <3>3. i - 1 \in 1..Len(Tail(up[b])) /\ (i - 1) + 1 = i
        BY <3>1, <3>2
    <3>4. Tail(up[b])[i - 1] = up[b][i]
        BY <3>1, <3>3
    <3>5. up'[b] = Tail(up[b])
        BY <1>1, <1>9
    <3> QED BY <1>2, <2>3, <3>3, <3>4, <3>5 DEF InHand, Telling
  <2>4. ASSUME NEW w \in Workers, Serves(w, b) PROVE InHand(b)'
      BY <1>2, <1>5, <2>4 DEF InHand, Serves
  <2>5. ASSUME NEW t \in Threads, Will(t, b) PROVE InHand(b)'
      BY <1>2, <1>6, <2>5 DEF InHand, Will
  <2> QED BY <1>4, <2>1, <2>2, <2>3, <2>4, <2>5 DEF InHand, Telling
<1> QED BY <1>7, <1>8, <1>9

(* A worker builds for the group the agent resolves to, and sends what is   *)
(* current there, or it is a move or a publication that has a push to come. *)
LEMMA WorkerServes ==
    ASSUME IInv, Settling, NEW b \in Agents, NEW v \in Workers,
           Load(v) \/ Build(v) \/ Send(v), InHand(b), Desired(b) # NoConfig
    PROVE  InHand(b)'
<1> USE DEF IInv, TypeOK, database, network
<1>1. /\ UNCHANGED <<current, assigned, described, up, host, push>>
      /\ \A w \in Workers \ {v} : task'[w] = task[w]
    BY DEF Load, Build, Send, Finish
<1>2. ResolveGroup(b)' = ResolveGroup(b) /\ Desired(b)' = Desired(b)
    BY <1>1 DEF ResolveGroup, Desired
<1>3. task[v] \in Tasks
    OBVIOUS
<1>4. task'[v].pc \in {"idle", "list"} => v \notin Threads
  <2>1. CASE Load(v)
    <3>1. task'[v] = [task[v] EXCEPT !.pc = "build", !.group = ResolveGroup(task[v].agent)]
        BY <2>1 DEF Load
    <3> QED BY <1>3, <3>1 DEF Tasks
  <2>2. CASE Build(v)
    <3>1. task'[v] = [task[v] EXCEPT !.pc = "send", !.offer = Wanted(v)]
        BY <2>2 DEF Build
    <3> QED BY <1>3, <3>1 DEF Tasks
  <2>3. CASE Send(v)
    <3>1. v \notin Agents => task'[v] = Task("loop")
        BY <2>3 DEF Send, Finish
    <3> QED BY <3>1, SetsAssumption DEF Task
  <2> QED BY <2>1, <2>2, <2>3
<1>5. ASSUME NEW t \in Threads, Will(t, b) PROVE InHand(b)'
  <2>1. CASE t # v
      BY <1>1, <1>2, <1>5, <2>1, WorkersAre DEF InHand, Will
  <2>2. CASE t = v
    <3>1. b \in push[t].todo
        BY <1>5, <2>2 DEF Will, Load, Build, Send
    <3>2. Will(t, b)'
        BY <1>1, <1>4, <2>2, <3>1 DEF Will
    <3> QED BY <3>2 DEF InHand
  <2> QED BY <2>1, <2>2
<1>6. CASE Load(v)
  <2>1. ASSUME Serves(v, b) PROVE Serves(v, b)'
    <3>1. /\ task[v].pc = "load" /\ task[v].agent = b
          /\ v \in Agents => task[v].msg # Desired(b)
        BY <1>6, <2>1 DEF Load, Serves
    <3>2. task'[v] = [task[v] EXCEPT !.pc = "build", !.group = ResolveGroup(b)]
        BY <1>6, <3>1 DEF Load
    <3> DEFINE k == [task[v] EXCEPT !.pc = "build"]
    <3>3. k \in Tasks /\ k.pc = "build" /\ k.agent = b /\ k.msg = task[v].msg
        BY <1>3, <3>1 DEF Tasks
    <3>4. task'[v] = [k EXCEPT !.group = ResolveGroup(b)]
        BY <3>2
    <3> HIDE DEF k
    <3>5. /\ task'[v].pc = "build" /\ task'[v].agent = b
          /\ task'[v].group = ResolveGroup(b) /\ task'[v].msg = task[v].msg
        BY <3>3, <3>4 DEF Tasks
    <3> QED BY <1>2, <3>1, <3>5 DEF Serves
  <2>2. down' = down
      BY <1>6 DEF Load
  <2> QED BY <1>1, <1>2, <1>5, <2>1, <2>2, Keeps DEF InHand
<1>7. CASE Build(v)
  <2>1. ASSUME Serves(v, b) PROVE Serves(v, b)'
    <3>1. /\ task[v].pc = "build" /\ task[v].agent = b
          /\ v \in Agents => task[v].msg # Desired(b)
          /\ task[v].group = ResolveGroup(b)
        BY <1>7, <2>1 DEF Build, Serves
    <3>2. Wanted(v) = Desired(b)
        BY <3>1 DEF Wanted, Desired
    <3>3. task'[v] = [task[v] EXCEPT !.pc = "send", !.offer = Wanted(v)]
        BY <1>7 DEF Build
    <3>4. task'[v].pc = "send" /\ task'[v].agent = b /\ task'[v].offer = Desired(b)
        BY <1>3, <3>1, <3>2, <3>3 DEF Tasks
    <3> QED BY <1>2, <3>4 DEF Serves
  <2>2. down' = down
      BY <1>7 DEF Build
  <2> QED BY <1>1, <1>2, <1>5, <2>1, <2>2, Keeps DEF InHand
<1>8. CASE Send(v)
  <2>1. task[v].agent \in Agents /\ task[v].offer \in Hashes
      BY <1>8, SoundHasAgent DEF Send, HasAgent, Tasks
  <2>2. CASE task[v].agent = b /\ task[v].offer # NoConfig
    <3> DEFINE o == task[v].offer
               n == Len(down[b])
    <3>1. down'[b] = Append(down[b], o) /\ o \in Contents
        BY <1>8, <2>1, <2>2 DEF Send, Hashes
    <3>2. /\ n \in Nat /\ Len(down'[b]) = n + 1 /\ down'[b][n + 1] = o
          /\ \A i \in 1..n : down'[b][i] = down[b][i]
          /\ down'[b] # <<>> /\ (down[b] = <<>> <=> n = 0)
      <4>1. /\ n \in Nat /\ Len(down'[b]) = n + 1 /\ down'[b][n + 1] = o
            /\ \A i \in 1..n : down'[b][i] = down[b][i]
          BY <3>1, <2>2, AppendProperties, LenProperties
      <4>2. down'[b] # <<>>
          BY <2>2, <3>1, SentLast
      <4>3. down[b] = <<>> <=> n = 0
          BY <2>2, EmptySeq, LenProperties
      <4> QED BY <4>1, <4>2, <4>3
    <3> HIDE DEF n, o
    <3>3. CASE o = Desired(b)
      <4>1. LastOf(b)' = o
          BY <3>2 DEF LastOf
      <4> QED BY <1>2, <3>3, <4>1 DEF InHand
    <3>4. CASE LastOf(b) = Desired(b) /\ o # Desired(b)
      <4>1. PICK i \in 1..(n + 1) : down'[b][i] # host[b].last
        <5>1. CASE n = 0
            BY <3>2, <3>4, <5>1 DEF LastOf
        <5>2. CASE n # 0
          <6>1. n \in 1..n /\ n \in 1..(n + 1) /\ n + 1 \in 1..(n + 1)
              BY <3>2, <5>2
          <6>2. down[b][n] = Desired(b)
              BY <3>2, <3>4, <5>2 DEF LastOf, n
          <6>3. down'[b][n] = Desired(b)
              BY <3>2, <6>1, <6>2
          <6> QED BY <3>2, <3>4, <6>1, <6>3
        <5> QED BY <5>1, <5>2
      <4> QED BY <1>1, <3>2, <4>1 DEF InHand, Telling, Changing
    <3>5. CASE Changing(b)
      <4>1. PICK i \in 1..n : down[b][i] # host[b].last
          BY <3>5 DEF Changing, n
      <4>2. i \in 1..Len(down'[b]) /\ down'[b][i] # host[b].last
          BY <3>2, <4>1
      <4> QED BY <1>1, <4>2 DEF InHand, Telling, Changing
    <3>6. CASE Telling(b) /\ ~Changing(b)
        BY <1>1, <1>2, <3>6 DEF InHand, Telling
    <3>7. ASSUME NEW w \in Workers, Serves(w, b), o # Desired(b) PROVE InHand(b)'
      <4>1. w # v
          BY <1>8, <3>7 DEF Send, Serves, o
      <4> QED BY <1>1, <1>2, <3>7, <4>1 DEF InHand, Serves
    <3> QED BY <1>5, <3>3, <3>4, <3>5, <3>6, <3>7 DEF InHand
  <2>3. CASE ~(task[v].agent = b /\ task[v].offer # NoConfig)
    <3>1. down'[b] = down[b]
        BY <1>8, <2>1, <2>3 DEF Send
    <3>2. ~Serves(v, b)
        BY <1>8, <2>3 DEF Send, Serves
    <3> QED BY <1>1, <1>2, <1>5, <3>1, <3>2, Keeps
  <2> QED BY <2>2, <2>3
<1> QED BY <1>6, <1>7, <1>8

(* A change of what is current for the agent has its push to come; any      *)
(* other request takes a worker that had nobody in hand.                    *)
LEMMA OperatorServes ==
    ASSUME IInv, Settling, NEW b \in Agents, NEW t \in Threads, Operator(t),
           link'[b] # "down", Desired(b)' # NoConfig
    PROVE  InHand(b)'
<1> USE DEF IInv, TypeOK, database, network
<1>1. ASSUME task' = [task EXCEPT ![t] = Task("list")],
             push' = [push EXCEPT ![t] = [todo |-> {}, scope |-> ResolveGroup(b)']]
      PROVE  InHand(b)'
  <2>1. task'[t].pc = "list" /\ push'[t].scope = ResolveGroup(b)'
      BY <1>1, WorkersAre DEF Task
  <2> QED BY <2>1 DEF InHand, Will
<1>2. ASSUME task' = [task EXCEPT ![t] = Task("loop")],
             push' = [push EXCEPT ![t] = [todo |-> {b}, scope |-> NoGroup]]
      PROVE  InHand(b)'
  <2>1. task'[t].pc = "loop" /\ b \in push'[t].todo
      BY <1>2, WorkersAre DEF Task
  <2> QED BY <2>1 DEF InHand, Will
<1>3. ASSUME ResolveGroup(b)' = ResolveGroup(b), Desired(b)' = Desired(b)
      PROVE  InHand(b)'
  <2>1. /\ task[t].pc = "idle"
        /\ \A w \in Workers \ {t} : task'[w] = task[w]
        /\ \A u \in Threads \ {t} : push'[u] = push[u]
        /\ UNCHANGED <<link, up, down, host>>
      BY DEF Operator, CreateConfig, RollbackConfig, SetGroup, PushButton, ThenPushGroup,
             ThenPushAgent, Request
  <2>2. InHand(b)
      BY <1>3, <2>1 DEF Settling, Served
  <2>3. ~Serves(t, b) /\ ~Will(t, b)
      BY <2>1 DEF Serves, Will
  <2> QED BY <1>3, <2>1, <2>2, <2>3, WorkersAre, Keeps
<1>4. ASSUME NEW g \in Groups, NEW c \in Contents, CreateConfig(t, g, c) \/ RollbackConfig(t, g, c)
      PROVE  InHand(b)'
  <2>1. /\ current' = [current EXCEPT ![g] = c] /\ assigned' = assigned
        /\ task' = [task EXCEPT ![t] = Task("list")]
        /\ push' = [push EXCEPT ![t] = [todo |-> {}, scope |-> g]]
      BY <1>4 DEF CreateConfig, RollbackConfig, ThenPushGroup, Request
  <2>2. ResolveGroup(b)' = ResolveGroup(b)
      BY <1>4, <2>1 DEF ResolveGroup, CreateConfig, RollbackConfig, ThenPushGroup, Request
  <2>3. CASE g = ResolveGroup(b)
      BY <1>1, <2>1, <2>2, <2>3
  <2>4. CASE g # ResolveGroup(b)
      BY <1>3, <2>1, <2>2, <2>4, DesiredType DEF Desired
  <2> QED BY <2>3, <2>4
<1>5. ASSUME NEW a \in Agents, NEW g \in Groups \cup {NoGroup}, SetGroup(t, a, g)
      PROVE  InHand(b)'
  <2>1. /\ assigned' = [assigned EXCEPT ![a] = g] /\ current' = current
        /\ task' = [task EXCEPT ![t] = Task("loop")]
        /\ push' = [push EXCEPT ![t] = [todo |-> {a}, scope |-> NoGroup]]
      BY <1>5 DEF SetGroup, ThenPushAgent, Request
  <2>2. CASE a = b
      BY <1>2, <2>1, <2>2
  <2>3. CASE a # b
      BY <1>3, <1>5, <2>1, <2>3 DEF ResolveGroup, Desired, SetGroup, ThenPushAgent, Request
  <2> QED BY <2>2, <2>3
<1>6. ASSUME NEW a \in Agents, PushButton(t, a) PROVE InHand(b)'
    BY <1>3, <1>6 DEF PushButton, ResolveGroup, Desired, ThenPushAgent, Request
<1> QED BY <1>4, <1>5, <1>6 DEF Operator

(* A push loses an agent from its list only to a worker that loads it, or   *)
(* before the agent's first message, which will be answered.                *)
LEMMA LoopServes ==
    ASSUME IInv, Settling, NEW b \in Agents, NEW t \in Threads, Loop(t), InHand(b),
           link[b] # "down", Desired(b) # NoConfig
    PROVE  InHand(b)'
<1> USE DEF IInv, TypeOK, database, network
<1>1. /\ UNCHANGED <<current, assigned, described, link, up, down, host>>
      /\ \A w \in Workers \ {t} : task'[w] = task[w]
      /\ \A u \in Threads \ {t} : push'[u] = push[u]
      /\ task[t].pc \in {"list", "filter", "loop"}
    BY DEF Loop, ListAgents, FilterConnected, Answer, PickAgent, SkipAgent
<1>2. ResolveGroup(b)' = ResolveGroup(b) /\ Desired(b)' = Desired(b)
    BY <1>1 DEF ResolveGroup, Desired
<1>3. ~Serves(t, b)
    BY <1>1 DEF Serves
<1>4. Calm(b)
    BY DEF Settling
<1>5. CASE link[b] = "open"
  <2>1. Telling(b)'
      BY <1>1, <1>2, <1>5, OpenTells DEF Telling, Changing
  <2> QED BY <2>1 DEF InHand
<1>6. CASE link[b] = "live"
  <2>1. Will(t, b)' => InHand(b)'
      BY DEF InHand
  <2>2. SUFFICES ASSUME Will(t, b) PROVE InHand(b)'
      BY <1>1, <1>2, <1>3, WorkersAre, Keeps
  <2>3. task[t] \in Tasks /\ push[t] \in Pushes
      BY WorkersAre
  <2>4. CASE ListAgents(t)
    <3>1. push[t].scope = ResolveGroup(b)
        BY <2>2, <2>4 DEF ListAgents, Will
    <3>2. assigned[b] # NoRow
        BY <1>4, <1>6 DEF Calm
    <3>3. task'[t].pc = "filter" /\ b \in push'[t].todo
        BY <2>3, <2>4, <3>1, <3>2, WorkersAre DEF ListAgents, Tasks, Pushes
    <3> QED BY <2>1, <3>3 DEF Will
  <2>5. CASE FilterConnected(t)
    <3>1. b \in push[t].todo
        BY <2>2, <2>5 DEF FilterConnected, Will
    <3>2. task'[t].pc = "loop" /\ b \in push'[t].todo
        BY <1>6, <2>3, <2>5, <3>1, WorkersAre DEF FilterConnected, Registered, Tasks, Pushes
    <3> QED BY <2>1, <3>2 DEF Will
  <2>6. CASE Answer(t)
      BY <2>2, <2>6 DEF Answer, Will
  <2>7. ASSUME NEW a \in Agents, PickAgent(t, a) PROVE InHand(b)'
    <3>1. b \in push[t].todo
        BY <2>2, <2>7 DEF PickAgent, Will
    <3>2. task'[t].pc = "load" /\ task'[t].agent = a
        BY <2>7, WorkersAre DEF PickAgent, Task
    <3>3. CASE a = b
      <4>1. Serves(t, b)'
          BY <3>2, <3>3, SetsAssumption DEF Serves
      <4> QED BY <4>1, WorkersAre DEF InHand
    <3>4. CASE a # b
      <4>1. b \in push'[t].todo
          BY <2>3, <2>7, <3>1, <3>4 DEF PickAgent, Pushes
      <4> QED BY <2>1, <3>2, <4>1 DEF Will
    <3> QED BY <3>3, <3>4
  <2>8. ASSUME NEW a \in Agents, SkipAgent(t, a) PROVE InHand(b)'
    <3>1. b \in push[t].todo /\ a # b
        BY <1>6, <2>2, <2>8 DEF SkipAgent, Will, Registered
    <3>2. b \in push'[t].todo /\ task'[t].pc = "loop"
        BY <2>3, <2>8, <3>1 DEF SkipAgent, Pushes
    <3> QED BY <2>1, <3>2 DEF Will
  <2> QED BY <2>4, <2>5, <2>6, <2>7, <2>8 DEF Loop
<1> QED BY <1>4, <1>5, <1>6 DEF Calm

LEMMA NextServed ==
    ASSUME IInv, Settling, Healthy \/ UNCHANGED vars, NEW b \in Agents
    PROVE  Served(b)'
<1> SUFFICES ASSUME link'[b] # "down", Desired(b)' # NoConfig PROVE InHand(b)'
    BY DEF Served
<1> USE DEF IInv, TypeOK, database, network
<1>0. Served(b)
    BY DEF Settling
<1>1. ASSUME NEW a \in Agents, Connect(a) \/ AgentSend(a) \/ Apply(a)
      PROVE  InHand(b)'
  <2>1. UNCHANGED <<current, assigned, described, task, push>>
      BY <1>1 DEF Connect, AgentSend, Apply, Offered
  <2>2. ResolveGroup(b)' = ResolveGroup(b) /\ Desired(b)' = Desired(b)
      BY <2>1 DEF ResolveGroup, Desired
  <2>3. CASE a # b
    <3>1. /\ link'[b] = link[b] /\ up'[b] = up[b] /\ down'[b] = down[b]
          /\ host'[b] = host[b]
        BY <1>1, <2>3 DEF Connect, AgentSend, Apply, Offered
    <3> QED BY <1>0, <2>1, <2>2, <3>1, Keeps DEF Served
  <2>4. CASE a = b /\ AgentSend(a)
      BY <2>2, <2>4, AgentSendServes
  <2>5. CASE a = b /\ Connect(a)
    <3>1. host'[b].due
        BY <2>5 DEF Connect, Hosts
    <3> QED BY <3>1 DEF InHand, Telling
  <2>6. CASE a = b /\ Apply(a)
    <3>1. InHand(b)
        BY <1>0, <2>2, <2>6 DEF Apply, Offered, Served
    <3> QED BY <2>6, <3>1, ApplyServes
  <2> QED BY <1>1, <2>3, <2>4, <2>5, <2>6
<1>2. ASSUME NEW a \in Agents, Receive(a) PROVE InHand(b)'
    BY <1>2, ReceiveServes
<1>3. ASSUME NEW v \in Workers, Load(v) \/ Build(v) \/ Send(v) PROVE InHand(b)'
  <2>1. UNCHANGED <<current, assigned, described, link>>
      BY <1>3 DEF Load, Build, Send
  <2>2. Desired(b)' = Desired(b)
      BY <2>1 DEF ResolveGroup, Desired
  <2> QED BY <1>0, <1>3, <2>1, <2>2, WorkerServes DEF Served
<1>4. ASSUME NEW t \in Threads, Operator(t) PROVE InHand(b)'
    BY <1>4, OperatorServes
<1>5. ASSUME NEW t \in Threads, Loop(t) PROVE InHand(b)'
  <2>1. UNCHANGED <<current, assigned, described, link>>
      BY <1>5 DEF Loop, ListAgents, FilterConnected, Answer, PickAgent, SkipAgent
  <2>2. Desired(b)' = Desired(b)
      BY <2>1 DEF ResolveGroup, Desired
  <2> QED BY <1>0, <1>5, <2>1, <2>2, LoopServes DEF Served
<1>6. CASE UNCHANGED vars
    BY <1>0, <1>6, Keeps DEF Served, vars, ResolveGroup, Desired
<1> QED BY <1>1, <1>2, <1>3, <1>4, <1>5, <1>6 DEF Healthy

LEMMA NextSettled == IInv /\ SettledInv /\ [Next]_vars => SettledInv'
<1> SUFFICES ASSUME IInv, SettledInv, [Next]_vars, faults' = 0 PROVE Settling'
    BY DEF SettledInv
<1>1. Settling /\ (Healthy \/ UNCHANGED vars)
    BY OnlyHealthy
<1>2. \A b \in Agents : Calm(b)' /\ Told(b)' /\ Served(b)'
    BY <1>1, NextCalm, NextTold, NextServed
<1>3. \A v \in Workers : Attached(v)'
    BY <1>1, NextAttached
<1> QED BY <1>2, <1>3 DEF Settling

(* When nothing is in flight, none of the hands is left.                    *)
LEMMA SettlingIsCurrent == IInv /\ SettledInv => SettledIsCurrent
<1> SUFFICES ASSUME IInv, SettledInv, NEW a \in Agents,
                    faults = 0, Quiet(a), Desired(a) # NoConfig
             PROVE  host[a].effective = Files(Desired(a)) /\ reported[a] = Desired(a)
    BY DEF SettledIsCurrent
<1>1. Calm(a) /\ Told(a) /\ Served(a)
    BY DEF SettledInv, Settling
<1>2. /\ link[a] = "live" /\ up[a] = <<>> /\ down[a] = <<>> /\ ~host[a].due
      /\ \A w \in Workers : task[w].pc = "idle"
    BY DEF Quiet
<1>3. Len(up[a]) = 0
    BY <1>2
<1>4. ~Telling(a)
    BY <1>2, <1>3 DEF Telling, Changing
<1>5. (\A w \in Workers : ~Serves(w, a)) /\ (\A t \in Threads : ~Will(t, a))
    BY <1>2, WorkersAre DEF Serves, Will
<1>6. host[a].last = Desired(a)
    BY <1>1, <1>2, <1>4, <1>5 DEF Served, InHand, LastOf
<1>7. host[a].last = reported[a]
    BY <1>1, <1>2, <1>3 DEF Told
<1>8. host[a].effective = Files(host[a].last)
    BY <1>1, <1>6 DEF Calm, IInv, HostsSound, Says
<1> QED BY <1>6, <1>7, <1>8

(* Without faults, when every request is answered and nothing is in flight  *)
(* to or from a connected agent, it runs the current configuration of its   *)
(* group and the server knows: no push or answer is ever lost to another.   *)
THEOREM Settled == Spec => []SettledIsCurrent
<1> QED BY InitIInv, NextIInv, InitSettled, NextSettled, SettlingIsCurrent, PTL DEF Spec
=============================================================================

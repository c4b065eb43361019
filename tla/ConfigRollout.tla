---------------------------- MODULE ConfigRollout ---------------------------
(***************************************************************************)
(* Remote configuration from the operator to the agent: the groups and     *)
(* config_versions tables, the admin handlers that publish, roll back,     *)
(* move and push, the onMessage handler that answers an agent, and the     *)
(* agent that applies an offer and reports it.                             *)
(*                                                                         *)
(* A worker is the goroutine of an agent's connection (named by the agent) *)
(* or of an admin request.  Both read the agent's row, then the group's    *)
(* current version, then send: three steps other workers interleave with.  *)
(* Two workers that send to one agent share its WebSocket, a FIFO.         *)
(*                                                                         *)
(* ConnRegistry models several connections of one UID; here an agent has   *)
(* one at a time.  A configuration is a content: two versions with the     *)
(* same files have the same hash and no agent can tell them apart.  All    *)
(* agents say that they accept remote config.                              *)
(***************************************************************************)
EXTENDS Naturals, Sequences, ConfigFiles

CONSTANTS
    Agents,      \* instance UIDs, and the workers of their connections
    Threads,     \* workers of admin requests
    Groups,
    Selected,    \* Selected[a]: the group whose selector matches a, or the default
    DefaultGroup,
    NoConfig,    \* no configuration, no hash, no offer
    NoGroup,     \* no explicit assignment (or no group to push)
    NoRow,       \* the agents table has no row for the agent
    Absent,      \* the message carries no RemoteConfigStatus section
    Nobody,      \* no agent
    QueueCap,    \* bound on the messages in flight, each way, of a connection
    MaxChanges,  \* bound on admin requests
    MaxFaults    \* bound on drops, restarts, cancels, failed statements and writes

ASSUME SetsAssumption ==
    /\ Agents \cap Threads = {} /\ Nobody \notin Agents
    /\ {NoConfig, Absent} \cap Contents = {} /\ NoConfig # Absent
    /\ {NoGroup, NoRow} \cap Groups = {} /\ NoGroup # NoRow
ASSUME SelectedAssumption == Selected \in [Agents -> Groups] /\ DefaultGroup \in Groups
ASSUME BoundsAssumption ==
    QueueCap \in Nat \ {0} /\ MaxChanges \in Nat /\ MaxFaults \in Nat

VARIABLES
    current,    \* content of groups.current_version
    published,  \* contents of the group's rows of config_versions
    assigned,   \* agents.assigned_group
    described,  \* whether the row has the agent's attributes and capabilities
    reported,   \* agents.last_remote_config_hash
    link,       \* "down", "open" (no message yet), "live" (registered), "dead"
    up,         \* messages to the server: the status section of each
    down,       \* offers to the agent
    host,       \* the agent: what it runs, its disk, what its client reports
    task,       \* the locals of a worker
    push,       \* the locals of PushGroup and its callers
    member,     \* history: groups the agent ever was taken for a member of
    unsaved,    \* history: the last hash that the agent reported was not stored
    changes, faults

database == <<current, published, assigned, described, reported, unsaved>>
network == <<link, up, down>>
vars == <<current, published, assigned, described, reported, link, up, down, host, task,
          push, member, unsaved, changes, faults>>

Workers == Agents \cup Threads
Hashes == Contents \cup {NoConfig}
Sections == Hashes \cup {Absent}

\* effective: agent.effective; disk: the files under stateDir/config; last and
\* failed: the RemoteConfigStatus of the OpAMP client; due: whether the next
\* message must carry that section.
Hosts == [effective : SUBSET AllFiles, disk : SUBSET AllFiles, last : Hashes,
          failed : BOOLEAN, due : BOOLEAN]

\* agent, group and offer: the agent the worker is about, its ResolvedGroup
\* and resp.RemoteConfig; msg: the section of the message onMessage answers;
\* held: whether the connection the worker will send on still stands.
Tasks == [pc : {"idle", "list", "filter", "loop", "load", "build", "send"},
          agent : Agents \cup {Nobody}, group : Groups \cup {NoGroup},
          offer : Hashes, msg : Sections, held : BOOLEAN]

\* todo: agents still to visit; scope: the group PushGroup was called for,
\* NoGroup for PushToAgent.  Its result, the number in the response, is left out.
Pushes == [todo : SUBSET Agents, scope : Groups \cup {NoGroup}]

TypeOK ==
    /\ current \in [Groups -> Hashes]
    /\ published \in [Groups -> SUBSET Contents]
    /\ assigned \in [Agents -> Groups \cup {NoGroup, NoRow}]
    /\ described \in [Agents -> BOOLEAN]
    /\ reported \in [Agents -> Hashes]
    /\ link \in [Agents -> {"down", "open", "live", "dead"}]
    /\ up \in [Agents -> Seq(Sections)]
    /\ down \in [Agents -> Seq(Contents)]
    /\ host \in [Agents -> Hosts]
    /\ task \in [Workers -> Tasks]
    /\ push \in [Threads -> Pushes]
    /\ member \in [Agents -> SUBSET Groups]
    /\ unsaved \in [Agents -> BOOLEAN]
    /\ changes \in 0..MaxChanges
    /\ faults \in 0..MaxFaults

Task(pc) == [pc |-> pc, agent |-> Nobody, group |-> NoGroup, offer |-> NoConfig,
             msg |-> Absent, held |-> FALSE]

Idle == Task("idle")

Init ==
    /\ current = [g \in Groups |-> NoConfig]
    /\ published = [g \in Groups |-> {}]
    /\ assigned = [a \in Agents |-> NoRow]
    /\ described = [a \in Agents |-> FALSE]
    /\ reported = [a \in Agents |-> NoConfig]
    /\ link = [a \in Agents |-> "down"]
    /\ up = [a \in Agents |-> <<>>]
    /\ down = [a \in Agents |-> <<>>]
    /\ host = [a \in Agents |-> [effective |-> {}, disk |-> {}, last |-> NoConfig,
                                 failed |-> FALSE, due |-> FALSE]]
    /\ task = [w \in Workers |-> Idle]
    /\ push = [t \in Threads |-> [todo |-> {}, scope |-> NoGroup]]
    /\ member = [a \in Agents |-> {}]
    /\ unsaved = [a \in Agents |-> FALSE]
    /\ changes = 0
    /\ faults = 0

-----------------------------------------------------------------------------
(* resolveGroup for an agent with an assignment, or with attributes.  An    *)
(* assignment wins; no selector matches an agent without attributes.        *)
(* Selectors and attributes do not change, hence the constant Selected.     *)
Resolved(a, group, attributes) ==
    IF group \in Groups THEN group ELSE IF attributes THEN Selected[a] ELSE DefaultGroup

ResolveGroup(a) == Resolved(a, assigned[a], described[a])

Registered(a) == link[a] \in {"live", "dead"}

Fault == faults < MaxFaults /\ faults' = faults + 1

-----------------------------------------------------------------------------
(* The agent and its OpAMP client.                                          *)

(* The client connects; its first message carries its whole state.          *)
Connect(a) ==
    /\ link[a] = "down"
    /\ link' = [link EXCEPT ![a] = "open"]
    /\ host' = [host EXCEPT ![a].due = TRUE]
    /\ UNCHANGED <<database, up, down, task, push, member, changes, faults>>

(* The client sends what is due, or a heartbeat with no section.            *)
AgentSend(a) ==
    /\ link[a] \in {"open", "live"}
    /\ Len(up[a]) < QueueCap
    /\ up' = [up EXCEPT ![a] = Append(@, IF host[a].due THEN host[a].last ELSE Absent)]
    /\ host' = [host EXCEPT ![a].due = FALSE]
    /\ UNCHANGED <<database, link, down, task, push, member, changes, faults>>

Offered(a) ==
    /\ down[a] # <<>>
    /\ down' = [down EXCEPT ![a] = Tail(@)]
    /\ UNCHANGED <<database, link, up, task, push, member, changes>>

(* SetRemoteConfigStatus: only a status that is new is sent.  Two failures  *)
(* of one configuration may differ in their message.                        *)
Status(a, c, failed) ==
    IF <<c, failed>> # <<host[a].last, host[a].failed>> THEN {TRUE}
    ELSE IF failed THEN {host[a].due, TRUE} ELSE {host[a].due}

(* Mutant: files are added to those that run.                               *)
ApplyAdding(a) ==
    /\ Offered(a)
    /\ \E due \in Status(a, Head(down[a]), FALSE) :
        host' = [host EXCEPT ![a] =
                    [effective |-> Overwrite(host[a].effective, Files(Head(down[a]))),
                     disk |-> Overwrite(host[a].disk, Files(Head(down[a]))),
                     last |-> Head(down[a]), failed |-> FALSE, due |-> due]]
    /\ UNCHANGED faults

(* applyRemoteConfig: every offer is written out, whether or not it is new; *)
(* files of earlier ones stay on the disk.                                  *)
Apply(a) ==
    /\ Offered(a)
    /\ \E due \in Status(a, Head(down[a]), FALSE) :
        host' = [host EXCEPT ![a] =
                    [effective |-> Files(Head(down[a])),
                     disk |-> Overwrite(host[a].disk, Files(Head(down[a]))),
                     last |-> Head(down[a]), failed |-> FALSE, due |-> due]]
    /\ UNCHANGED faults

(* A file cannot be written: the offer's hash is reported as FAILED.        *)
ApplyFails(a) ==
    /\ Fault
    /\ Offered(a)
    /\ \E due \in Status(a, Head(down[a]), TRUE), d \in Interrupted(host[a].disk, Head(down[a])) :
        host' = [host EXCEPT ![a] =
                    [effective |-> host[a].effective, disk |-> d,
                     last |-> Head(down[a]), failed |-> TRUE, due |-> due]]

Cut(a) ==
    /\ link' = [link EXCEPT ![a] = IF Registered(a) THEN "dead" ELSE "down"]
    /\ up' = [up EXCEPT ![a] = <<>>]
    /\ down' = [down EXCEPT ![a] = <<>>]
    /\ task' = [w \in Workers |->
                   [task[w] EXCEPT !.held = @ /\ task[w].agent # a]]

(* The connection breaks; what is in flight is lost.                        *)
Drop(a) ==
    /\ Fault
    /\ link[a] \in {"open", "live"}
    /\ Cut(a)
    /\ UNCHANGED <<database, host, push, member, changes>>

(* The agent's process stops, perhaps while it writes an offer, and         *)
(* restarts: loadPersistedConfig reads what it can of the disk, the client  *)
(* has no RemoteConfigStatus.                                               *)
AgentRestart(a) ==
    /\ Fault
    /\ Cut(a)
    /\ \E d \in {host[a].disk} \cup (IF down[a] = <<>> THEN {}
                                   ELSE Interrupted(host[a].disk, Head(down[a]))) :
       \E read \in SUBSET d :
        host' = [host EXCEPT ![a] = [effective |-> read, disk |-> d, last |-> NoConfig,
                                     failed |-> FALSE, due |-> FALSE]]
    /\ UNCHANGED <<database, push, member, changes>>

-----------------------------------------------------------------------------
(* onMessage, one message at a time for each connection.                    *)

(* Mutant: a missing section overwrites the reported hash.                  *)
ReportedAlways(a, section) == [reported EXCEPT ![a] = section]
(* persistReportedState writes only the sections the message carries.       *)
Reported(a, section) ==
    [reported EXCEPT ![a] = IF section = Absent THEN @ ELSE section]

(* registerConn, TouchAgent (the row exists from now on) and the sections   *)
(* that are stored: the description or not, and the status.                 *)
Take(a, describes, section) ==
    /\ task[a].pc = "idle"
    /\ up[a] # <<>>
    /\ link' = [link EXCEPT ![a] = "live"]
    /\ up' = [up EXCEPT ![a] = Tail(@)]
    /\ task' = [task EXCEPT ![a] = [Task("load") EXCEPT !.agent = a, !.msg = Head(up[a]),
                                                        !.held = TRUE]]
    /\ assigned' = [assigned EXCEPT ![a] = IF @ = NoRow THEN NoGroup ELSE @]
    /\ described' = [described EXCEPT ![a] = @ \/ describes]
    /\ member' = [member EXCEPT ![a] =
                      @ \cup {Resolved(a, assigned[a], described[a] \/ describes)}]
    /\ reported' = Reported(a, section)
    /\ unsaved' = [unsaved EXCEPT ![a] = IF Head(up[a]) = Absent THEN @ ELSE section = Absent]
    /\ UNCHANGED <<current, published, down, host, push, changes>>

\* Only the first message of a connection has the description.
Receive(a) == Take(a, link[a] = "open", Head(up[a])) /\ UNCHANGED faults

(* SaveAgentDescription, SaveAgentRemoteConfigStatus or both fail; onMessage *)
(* goes on.                                                                 *)
ReceiveUnsaved(a) ==
    /\ Fault
    /\ \/ Take(a, link[a] = "open", Absent)
       \/ Take(a, FALSE, Head(up[a]))
       \/ Take(a, FALSE, Absent)

(* TouchAgent fails for an agent without a row: there is nothing to update  *)
(* or to load, and the answer is empty.                                     *)
ReceiveUnknown(a) ==
    /\ Fault
    /\ task[a].pc = "idle"
    /\ up[a] # <<>>
    /\ assigned[a] = NoRow
    /\ link' = [link EXCEPT ![a] = "live"]
    /\ up' = [up EXCEPT ![a] = Tail(@)]
    /\ unsaved' = [unsaved EXCEPT ![a] = @ \/ Head(up[a]) # Absent]
    /\ UNCHANGED <<current, published, assigned, described, reported,
                   down, host, task, push, member, changes>>

(* onConnectionClose, once the handler of the last message has returned.    *)
CloseConn(a) ==
    /\ link[a] = "dead"
    /\ task[a].pc = "idle"
    /\ link' = [link EXCEPT ![a] = "down"]
    /\ UNCHANGED <<database, up, down, host, task, push, member, changes, faults>>

-----------------------------------------------------------------------------
(* What onMessage and PushToAgent share.                                    *)

(* GetAgent and resolveGroup.                                               *)
Load(w) ==
    /\ task[w].pc = "load"
    /\ assigned[task[w].agent] # NoRow /\ described[task[w].agent]
    /\ task' = [task EXCEPT ![w] = [@ EXCEPT !.pc = "build", !.group = ResolveGroup(task[w].agent)]]
    /\ UNCHANGED <<database, network, host, push, member, changes, faults>>

(* The row has no capabilities: there is nothing to offer to such an agent. *)
LoadIncapable(w) ==
    /\ task[w].pc = "load"
    /\ assigned[task[w].agent] # NoRow /\ ~described[task[w].agent]
    /\ task' = [task EXCEPT ![w] = [@ EXCEPT !.pc = "send", !.offer = NoConfig]]
    /\ UNCHANGED <<database, network, host, push, member, changes, faults>>

(* resolveGroup: ListGroups fails, so an agent without assignment is taken  *)
(* for one of the default group.                                            *)
LoadFallback(w) ==
    /\ Fault
    /\ task[w].pc = "load"
    /\ assigned[task[w].agent] = NoGroup /\ described[task[w].agent]
    /\ task' = [task EXCEPT ![w] = [@ EXCEPT !.pc = "build", !.group = DefaultGroup]]
    /\ member' = [member EXCEPT ![task[w].agent] = @ \cup {DefaultGroup}]
    /\ UNCHANGED <<database, network, host, push, changes>>

(* Mutant: the answer goes by the hash stored with the agent's row.         *)
WantedByRow(w) ==
    IF w \in Agents /\ current[task[w].group] = reported[w]
    THEN NoConfig ELSE current[task[w].group]

(* Mutant: a group without configuration borrows another group's.           *)
WantedBorrowed(w) ==
    IF current[task[w].group] = NoConfig
    THEN current[CHOOSE g \in Groups : g # task[w].group]
    ELSE current[task[w].group]

(* buildServerToAgent leaves the offer out when the message being answered  *)
(* reports its hash; buildOfferForPush never does.                          *)
Wanted(w) ==
    IF w \in Agents /\ current[task[w].group] = task[w].msg
    THEN NoConfig ELSE current[task[w].group]

(* GetCurrentConfig of the group resolved before.                           *)
Build(w) ==
    /\ task[w].pc = "build"
    /\ task' = [task EXCEPT ![w] = [@ EXCEPT !.pc = "send", !.offer = Wanted(w)]]
    /\ UNCHANGED <<database, network, host, push, member, changes, faults>>

(* The worker is done with its agent: a handler returns, a push goes on.    *)
Finish(w) ==
    task' = [task EXCEPT ![w] = IF w \in Agents THEN Idle ELSE Task("loop")]

(* GetAgent or GetCurrentConfig fails: the answer carries no offer, or the  *)
(* push of this agent is given up.                                          *)
BuildFails(w) ==
    /\ Fault
    /\ task[w].pc \in {"load", "build"}
    /\ Finish(w)
    /\ UNCHANGED <<database, network, host, push, member, changes>>

(* GetAgent finds no row: the agent was never recorded.                     *)
LoadMissing(w) ==
    /\ task[w].pc = "load"
    /\ assigned[task[w].agent] = NoRow
    /\ Finish(w)
    /\ UNCHANGED <<database, network, host, push, member, changes, faults>>

(* The answer or the push is written to the connection; one without an      *)
(* offer changes nothing at the agent.                                      *)
Send(w) ==
    /\ task[w].pc = "send"
    /\ task[w].held
    /\ \/ task[w].offer = NoConfig /\ UNCHANGED down
       \/ /\ task[w].offer # NoConfig
          /\ Len(down[task[w].agent]) < QueueCap
          /\ down' = [down EXCEPT ![task[w].agent] = Append(@, task[w].offer)]
    /\ Finish(w)
    /\ UNCHANGED <<database, link, up, host, push, member, changes, faults>>

(* The connection broke meanwhile: Send returns an error.                   *)
SendFails(w) ==
    /\ task[w].pc = "send"
    /\ ~task[w].held
    /\ Finish(w)
    /\ UNCHANGED <<database, network, host, push, member, changes, faults>>

-----------------------------------------------------------------------------
(* The admin API.                                                           *)

Request(t, pc, todo, scope) ==
    /\ task[t].pc = "idle"
    /\ changes < MaxChanges
    /\ changes' = changes + 1
    /\ task' = [task EXCEPT ![t] = Task(pc)]
    /\ push' = [push EXCEPT ![t] = [todo |-> todo, scope |-> scope]]
    /\ UNCHANGED <<described, reported, unsaved, network, host, faults>>

ThenPushGroup(t, g) == Request(t, "list", {}, g)

(* Mutant: the change is not pushed.                                        *)
ThenNoPush(t, a) == Request(t, "loop", {}, NoGroup)
ThenPushAgent(t, a) == Request(t, "loop", {a}, NoGroup)

(* handleCreateConfig: CreateConfigVersion commits, then PushGroup.         *)
CreateConfig(t, g, c) ==
    /\ published' = [published EXCEPT ![g] = @ \cup {c}]
    /\ current' = [current EXCEPT ![g] = c]
    /\ ThenPushGroup(t, g)
    /\ UNCHANGED <<assigned, member>>

(* handleRollbackConfig: an existing version becomes current, then PushGroup. *)
RollbackConfig(t, g, c) ==
    /\ c \in published[g]
    /\ current' = [current EXCEPT ![g] = c]
    /\ ThenPushGroup(t, g)
    /\ UNCHANGED <<published, assigned, member>>

(* handleSetAgentGroup: SetAgentGroup, then tryPush.  NoGroup unassigns.    *)
SetGroup(t, a, g) ==
    /\ assigned[a] # NoRow
    /\ assigned' = [assigned EXCEPT ![a] = g]
    /\ member' = [member EXCEPT ![a] = @ \cup {Resolved(a, g, described[a])}]
    /\ ThenPushAgent(t, a)
    /\ UNCHANGED <<current, published>>

(* handlePushAgent.                                                         *)
PushButton(t, a) ==
    /\ ThenPushAgent(t, a)
    /\ UNCHANGED <<current, published, assigned, member>>

(* Mutant: agents that only a selector puts in the group are not listed.    *)
ListAssigned(t) ==
    /\ task[t].pc = "list"
    /\ task' = [task EXCEPT ![t].pc = "filter"]
    /\ push' = [push EXCEPT ![t].todo = {a \in Agents : assigned[a] = push[t].scope}]
    /\ UNCHANGED <<database, network, host, member, changes, faults>>

(* PushGroup: ListAgents, whose rows the group is later resolved from.      *)
ListAgents(t) ==
    /\ task[t].pc = "list"
    /\ task' = [task EXCEPT ![t].pc = "filter"]
    /\ push' = [push EXCEPT ![t].todo =
                   {a \in Agents : assigned[a] # NoRow /\ ResolveGroup(a) = push[t].scope}]
    /\ UNCHANGED <<database, network, host, member, changes, faults>>

(* PushGroup: ListGroups fails for one agent, which the push may now miss.  *)
ListFallback(t) ==
    /\ Fault
    /\ task[t].pc = "list"
    /\ task' = [task EXCEPT ![t].pc = "filter"]
    /\ \E b \in Agents :
        /\ assigned[b] = NoGroup
        /\ push' = [push EXCEPT ![t].todo =
                       {a \in Agents : /\ assigned[a] # NoRow
                                      /\ push[t].scope = IF a = b THEN DefaultGroup
                                                                  ELSE ResolveGroup(a)}]
    /\ UNCHANGED <<database, network, host, member, changes>>

(* PushGroup: ConnectedUIDs.                                                *)
FilterConnected(t) ==
    /\ task[t].pc = "filter"
    /\ task' = [task EXCEPT ![t].pc = "loop"]
    /\ push' = [push EXCEPT ![t].todo = {a \in @ : Registered(a)}]
    /\ UNCHANGED <<database, network, host, member, changes, faults>>

(* PushToAgent: connFor gives the registered connection.                    *)
PickAgent(t, a) ==
    /\ task[t].pc = "loop"
    /\ a \in push[t].todo
    /\ Registered(a)
    /\ task' = [task EXCEPT ![t] = [Task("load") EXCEPT !.agent = a, !.held = link[a] = "live"]]
    /\ push' = [push EXCEPT ![t].todo = @ \ {a}]
    /\ UNCHANGED <<database, network, host, member, changes, faults>>

(* ErrNotConnected, which PushGroup ignores.                                *)
SkipAgent(t, a) ==
    /\ task[t].pc = "loop"
    /\ a \in push[t].todo
    /\ ~Registered(a)
    /\ push' = [push EXCEPT ![t].todo = @ \ {a}]
    /\ UNCHANGED <<database, network, host, task, member, changes, faults>>

(* The request is answered.                                                 *)
Answer(t) ==
    /\ task[t].pc = "loop"
    /\ push[t].todo = {}
    /\ task' = [task EXCEPT ![t] = Idle]
    /\ UNCHANGED <<database, network, host, push, member, changes, faults>>

(* The operator's request is cancelled: every later statement and Send of   *)
(* the handler fails with its context.                                      *)
Cancel(t) ==
    /\ Fault
    /\ task[t].pc # "idle"
    /\ task' = [task EXCEPT ![t] = Idle]
    /\ push' = [push EXCEPT ![t].todo = {}]
    /\ UNCHANGED <<database, network, host, member, changes>>

(* The orchestrator restarts: handlers, connections and what they carried   *)
(* are gone, the database stays.                                            *)
ServerRestart ==
    /\ Fault
    /\ link' = [a \in Agents |-> "down"]
    /\ up' = [a \in Agents |-> <<>>]
    /\ down' = [a \in Agents |-> <<>>]
    /\ task' = [w \in Workers |-> Idle]
    /\ push' = [t \in Threads |-> [push[t] EXCEPT !.todo = {}]]
    /\ UNCHANGED <<database, host, member, changes>>

-----------------------------------------------------------------------------
ReceiveAny(a) == Receive(a) \/ ReceiveUnsaved(a)

AgentSteps(a) ==
    \/ Connect(a) \/ AgentSend(a) \/ Apply(a) \/ ApplyFails(a)
    \/ Drop(a) \/ AgentRestart(a) \/ ReceiveAny(a) \/ ReceiveUnknown(a)
    \/ CloseConn(a)

WorkerSteps(w) ==
    \/ Load(w) \/ LoadIncapable(w) \/ LoadMissing(w)
    \/ Build(w) \/ BuildFails(w) \/ Send(w) \/ SendFails(w)

Operator(t) ==
    \/ \E g \in Groups, c \in Contents : CreateConfig(t, g, c) \/ RollbackConfig(t, g, c)
    \/ \E a \in Agents, g \in Groups \cup {NoGroup} : SetGroup(t, a, g)
    \/ \E a \in Agents : PushButton(t, a)

Loop(t) ==
    \/ ListAgents(t) \/ FilterConnected(t) \/ Answer(t)
    \/ \E a \in Agents : PickAgent(t, a) \/ SkipAgent(t, a)

Next ==
    \/ \E a \in Agents : AgentSteps(a)
    \/ \E w \in Workers : WorkerSteps(w) \/ LoadFallback(w)
    \/ \E t \in Threads : Operator(t) \/ Loop(t) \/ Cancel(t) \/ ListFallback(t)
    \/ ServerRestart

Spec == Init /\ [][Next]_vars

(* Goroutines are scheduled; the connection's mutex is fair, so a worker    *)
(* that can send time and again gets its turn; the client keeps             *)
(* reconnecting, sends heartbeats and handles what it receives; the library *)
(* notices a dead connection.  No operator has to act, no fault to occur.   *)
Fairness ==
    /\ \A a \in Agents :
        /\ WF_vars(Connect(a))
        /\ WF_vars(AgentSend(a))
        /\ WF_vars(Apply(a))
        /\ WF_vars(Receive(a))
        /\ WF_vars(CloseConn(a))
    /\ \A w \in Workers : 
        /\ WF_vars(Load(w) \/ LoadIncapable(w) \/ LoadMissing(w) \/ Build(w) \/ SendFails(w))
        /\ SF_vars(Send(w))
    /\ \A t \in Threads : WF_vars(Loop(t))

FairSpec == Spec /\ Fairness

-----------------------------------------------------------------------------
Desired(a) == current[ResolveGroup(a)]

Allowed(a) == UNION {published[g] : g \in member[a]}

\* However an operator's moves and publications fall between the reads of a
\* push, and whatever fails, an agent that says it applied a configuration runs
\* all of it and nothing else, and every file that it runs or has is from a
\* configuration published for a group it has belonged to; only a failed or
\* interrupted write leaves others.
OnlyPublished ==
    \A a \in Agents :
        /\ host[a].last \in Allowed(a) \cup {NoConfig}
        /\ host[a].last # NoConfig /\ ~host[a].failed => host[a].effective = Files(host[a].last)
        /\ \A f \in host[a].effective \cup host[a].disk :
               /\ f[2] \in Allowed(a) \cup {Torn}
               /\ f[2] = Torn => faults > 0

Quiet(a) ==
    /\ link[a] = "live" /\ up[a] = <<>> /\ down[a] = <<>> /\ ~host[a].due
    /\ \A w \in Workers : task[w].pc = "idle"

\* Without faults no heartbeat is needed: when every request is answered and
\* nothing is in flight to or from a connected agent, it runs the current
\* configuration of its group, although the answer to an older message may
\* have overtaken the push of a newer version on the way.
SettledIsCurrent ==
    \A a \in Agents : faults = 0 /\ Quiet(a) /\ Desired(a) # NoConfig =>
        host[a].effective = Files(Desired(a)) /\ reported[a] = Desired(a)

\* Once the operators and the faults stop, every agent of a group with a
\* configuration runs it for good, and the row of the agent says so.  Two
\* losses last: an agent whose description was not stored is offered nothing
\* until it connects again, and a status that was not stored is not sent again
\* until it changes.
Converges ==
    \A a \in Agents :
        <>[](described[a] /\ Desired(a) # NoConfig =>
                /\ host[a].effective = Files(Desired(a))
                /\ reported[a] = Desired(a) \/ unsaved[a])

\* The abstract promise: the detailed system only publishes, moves agents
\* between groups, and lets them run what was published for them; a mix of
\* configurations comes only from the disk, with a restart.
Promise == INSTANCE Delivery WITH effective <- [a \in Agents |-> host[a].effective],
                                  disk <- [a \in Agents |-> host[a].disk]
KeepsPromise == Promise!Spec
=============================================================================

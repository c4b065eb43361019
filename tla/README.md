# A TLA+ model of the OpsRamp agent orchestrator

The orchestrator (`src/`, Go) manages two kinds of agents. OpAMP agents hold a
WebSocket to it, report their state and receive configurations and packages;
OpsRamp agents are installed on hosts over SSH and observed through the OpsRamp
REST API. One process serves the OpAMP endpoint, an admin API with a web page,
and background loops; PostgreSQL holds everything that survives a restart.

This directory holds TLA+ modules translated from that code, TLC configurations
that check them on small instances, and proofs for all instances, checked by
TLAPS. `PROJECT.json` relates every definition to the lines it models and lists
the hazards of the code with the properties aimed at them.

## Inventory

| Part | State | Operations | Interacts with | What is hard | What makes it correct | Status |
|---|---|---|---|---|---|---|
| Connection registry (`opampserver/server.go`, `push.go`) | `byUID`, `byConn` under `mu`; `agents.status`; events | `onMessage` registers, `onConnectionClose` unregisters, `ConnectedUIDs`, `connFor` | OpAMP library (one goroutine per connection), store, pushes | a new connection of an agent overlaps the close of its old one; status written outside the lock; restart | only live connections are handed out; a close never hits a newer connection; the status heals | `ConnRegistry` |
| Remote configuration (`opampserver/message.go`, `reconcile.go`, `push.go`) | `groups`, `config_versions`, `agents` | answer a message, push to one agent, push to a group | admin API, store, agents | reads and send are separate steps of several goroutines; offers overtake each other; losses | an agent runs only what was published for its groups, and in the end the current version | `ConfigRollout`, `Delivery`, `ConfigFiles` |
| Admin API (`api/groups.go`, `agents.go`, `packages.go`) | - | publish, roll back, assign, push; groups, packages | managers, store | commit and push are not one step; cancelled requests | a change reaches every agent it concerns | in `ConfigRollout`, `GroupStore`, `PackageRollout` |
| Groups and versions in the store (`store/postgres.go`, migrations) | tables, foreign keys, version numbers | create, delete, publish, roll back, assign | admin API | statements outside transactions, cascades, locks | readers see an append-only log with a pointer | `GroupStore`, `VersionLog` |
| Packages (`api/packages.go`, `opampserver/reconcile.go`) | `packages`, `group_packages` | upload, delete, assign, offer, download | agents | changes that push nothing; offers out of order; a URL without a version | agents end with the group's packages | `PackageRollout` |
| Demo agent (`cmd/demo-agent`) | effective config, files on disk, package states, OpAMP client state | apply, report, persist, reload, sync packages | server | failed writes, torn files, files of earlier configurations, one goroutine per package offer, restart | reports what it runs | configuration in `ConfigRollout`, packages in `PackageRollout` |
| OpsRamp connector (`opsramp/connector.go`) | settings, enabled, client, poll loop; `opsramp_config` | `Start`, `Reconfigure`, `SyncNow`, poll loop | API client, store, deploy jobs | lock released between reading, checking, saving and applying; old poll loop still running | stored and live settings agree; one tenant at a time | `Connector` |
| OpsRamp API client (`opsramp/client.go`) | token and its expiry under `mu` | `do` with one retry, `EnsureToken`, `Token` | connector, admin API | concurrent callers with rejected tokens, dead or not; lost answers | a request is executed at most once; the retry presents what its own token request answered | `TokenCache`, `ApiCall` |
| Inventory (`opsramp/api.go`, `poller.go`) | `opsramp_agents` | search pages, upsert rows | connector | the tenant changes between pages; overlapping syncs; nothing is ever removed | rows follow the tenant | `Fleet` |
| Drift engine (`reconcile/reconcile.go`) | - | `Evaluate`, `Run` | inventory, targets | versions as strings; half-synchronised rows | the report agrees with the rows, and its remedies end | `Drift`, in `Fleet` |
| Targets (`deploy/targets.go`) | - | expand lists, ranges, networks | deploy jobs | limits, ends of blocks, duplicates, what a parser lets pass | the set of hosts that was meant | `Targets`, in `Fleet` |
| Deploy jobs (`deploy/manager.go`) | semaphore, wait group, counters; `deploy_jobs`, `deploy_host_results` | `StartJob`, `run` | SSH, connector, store | goroutines, a context that expires, failing statements, hangs, restart | bounded concurrency, no outcome lost or invented, the verdict adds up and stands | `DeployJob` |
| SSH operations (`deploy/ssh.go`) | - | dial, upload, run a command | hosts | which waits obey the context | an outcome or a time limit for each host | abstracted in `DeployJob` |
| Known hosts (`deploy/hostkeys.go`) | map and JSON file | trust on first use | SSH | torn file | a changed key is rejected | not modelled |
| Hashes, protobuf mapping, routing, authentication, UI, configuration, logging | - | - | - | - | - | data, text and wiring; not modelled |

How the modules meet: `ConnRegistry` decides whom a push can reach, which
`ConfigRollout` and `PackageRollout` take as connections that come and go.
`GroupStore` refines the tables that `ConfigRollout` changes in one step.
`Connector` owns the clients whose inside is `TokenCache`, and starts the
synchronisations whose inside is `Fleet`; `Fleet` feeds `Drift`, whose
recommendations become specifications for `Targets` and hosts of a `DeployJob`.

## Modules

### ConnRegistry

One goroutine per connection, as the OpAMP library runs them: `onMessage` for
each message in turn, `onConnectionClose` once after the last. `pc[c]` is the
place of the goroutine between two points where others may run: the critical
section of `mu` (`Register`, `Close`), then one step per database statement
(`Touch`, `AnnounceConnected`, `SetDisconnected`, `AnnounceDisconnected`). Any
number of connections may speak for one UID. Each statement whose failure makes a
difference has an action in which it fails (`TouchFails`, `AnnounceConnectedFails`,
`SetDisconnectedFails`); `onMessage` and `onConnectionClose` go on in every case.
`Restart` empties the maps and keeps the table. `announced`, `missed` and `lost` are
history: the "connected" events a connection added, those whose statement failed, and
the UIDs for which the write of "disconnected" never happened. `EventsPaired` says
that a "disconnected" event without its "connected" has no other reason than that
failure.

Abstractions: a connection speaks for one UID; a row is its status; sections of
a message other than its UID are left to `ConfigRollout`; HTTP polling is not
modelled.

### ConfigFiles, Delivery and ConfigRollout

`ConfigFiles` has the files of a configuration, of what an agent runs and of its
disk. A file is a name and the configuration that its body is from, or `Torn`.
Writing a configuration replaces the files of the same names and no others
(`Overwrite`); a write that fails or is interrupted leaves any part of that
(`Interrupted`).

`Delivery` is the promise without threads or messages: operators publish
configurations for groups, agents join groups, an agent runs the whole of one
published for one of its groups (`Run`) or goes on with what it runs when a write
fails (`Fail`). Only a restart (`Restart`) makes it run anything else: what can be
read of the disk, where the files of earlier configurations still are.

`ConfigRollout` is the code. A *worker* is the goroutine of an agent's
connection or of an admin request. Both go through `Load` (GetAgent and
resolveGroup), `Build` (GetCurrentConfig and, for an answer, the comparison with
the hash in the message) and `Send`; other workers act in between. `Send` of
several workers to one agent appends to one FIFO, the WebSocket. An admin request
commits (`CreateConfig`, `RollbackConfig`, `SetGroup`, `PushButton`), then goes
through the agents as `PushGroup` does: `ListAgents`, `FilterConnected`, and one
`PickAgent` or `SkipAgent` for each. The agent is the demo agent with the OpAMP
client: `Connect`, `AgentSend` (what is due, or a heartbeat), `Apply`,
`ApplyFails`, `AgentRestart`. The client sends a status that differs from its last
one and nothing else (`Status`), so a status the server failed to store is not
repeated. The first message of a connection has the description; `described` says
whether the row has it. Without it no selector matches (`Resolved`) and, with no
capabilities in the row, nothing is offered (`LoadIncapable`).

Faults: a lost connection with what it carries; a restart of either side, that of
the agent also in the middle of a write; failed statements (`BuildFails`;
`ReceiveUnsaved`, the description, the status or both; `ReceiveUnknown`, the row
itself; `LoadFallback` and `ListFallback`, where resolveGroup answers with the
default group because ListGroups failed); a failed write of a file; a cancelled
request, which also stands for a failed ListAgents.

Abstractions: configurations with the same files have the same hash; file names have
no path separators (the agent flattens those, which could make two names one); an
agent has one connection at a time (several are `ConnRegistry`); what `onMessage`
stores before it loads the agent is one step, `Take`; selectors, the attributes and
capabilities that an agent reports and the set of groups are constant (`Selected`,
`DefaultGroup`), and no selector wants an empty value; groups that come and go are
`GroupStore`, packages `PackageRollout`.

### DeployJob

`StartJob` records the job and its hosts in one transaction; `Spawn` is the loop
with the semaphore; a host's goroutine is `Begin`, `Dial`, `Command`, `Record`
with its second attempt, `Count` under `mu`, `Progress` outside it, `Leave`;
`Finish` waits for all and writes the verdict. All statements use the context
that `Expire` ends: none is sent afterwards. A statement that fails for another
reason may have been executed. `Hang` is a peer that never answers where the
code sets no limit (handshake, tunnel, upload, and the opening of a session).
`Restart` loses the goroutines.

Abstractions: one job (jobs share nothing), rows are statuses, the three kinds of
operation are one (dial, then a command), removal from OpsRamp after an uninstall
and the output are left out.

### VersionLog and GroupStore

`VersionLog` is what readers of the store rely on: for each group an append-only
log of numbered configurations with a pointer, changed by atomic operations.
`GroupStore` is the code, one statement a step. A publication is `CreateConfig`
(GetGroup), `SelectNext` (MAX + 1), `Insert`, `UpdateCurrent`, `Commit`, with
`Abort` for the deferred rollback at any point; a roll back is `Rollback` (SELECT
EXISTS) and `Repoint`, without a transaction; a move is `SetAgentGroup` (the
check) and `Assign`. `open[t]` is what a transaction has written: it makes others
wait where PostgreSQL does (`InsertWaits`, `RowLocked`, and `DeleteGroup` against
the share lock of the foreign key). Isolation is READ COMMITTED, the default the
code uses.

Two behaviours of the code are part of the promise as exceptions, both of
requests that outlive the deletion of their group and meet one of the same name:
a publication may leave a gap in the numbers, and a roll back may leave
`current_version` at a number that names nothing (`Lost`), in which case
GetCurrentConfig finds no configuration.

Abstractions: statements on other tables; a group is its name and pointer;
`EmptyName` stands for every name that no group has.

### PackageRollout

One group, one agent. Operators upload, replace, delete, assign and take away
packages (`UpsertPackage` and `DeletePackage` push nothing, the others push). An
offer is what `ListGroupPackages` and `buildPackagesAvailable` make of the tables
at one moment; `Deliver` loses it or starts a goroutine of the agent for it, as
`onMessage` does. `BeginSync`, `SkipDownload`, `Download`, `DownloadFails` and
`EndSync` are the steps of the opamp-go syncer (external) as they call the
provider of `cmd/demo-agent/packages.go`; a download brings the content of that
moment, because the URL names only the package. A content is a number, in the
order of building.

Abstractions: the all-packages hash is the offer itself; type and version of a
package are left out, neither hash covers them; group resolution and connections
are `ConfigRollout`.

### Connector

A worker is an admin request or a poll loop. `Reconfigure` takes the first
critical section (previous settings, blank secret), then `CheckOk`/`CheckFails`
(Ping), `Save`/`SaveFails`, and `Apply`, the second one, in which `ApplySettings`
cancels the loop and starts another. `Fetch` and `Write` are syncWith with one
resource; `Wake` and `LoopEnds` the `select` of pollLoop, which may take the
ticker although the context has ended; `late` lets a call that was under way when
the context ended still take effect. `StartStored`, `StartEnv`,
`StartUnconfigured` and `StartFails` are Start, `Restart` the process.

Ping asks for a token, so what OpsRamp checks is a key with its secret
(`Credential`, `Good`); the tenant is only part of the paths that a client asks for
later. `OnlyChecked` therefore speaks of key and secret, and of the tenant nothing is
claimed. The credentials of the environment are not checked by the code; the property
takes them as given (`StartEnv` adds them to `checked`).

Abstractions: the base URL is that of the one OpsRamp there is; the interval; the poll
loops of ended names are reused.

### ApiCall and TokenCache

`ApiCall` promises a caller that its request is executed at most once, that
success means it was and a refusal that it was not. `TokenCache` is the
client: `UseCached` or `StartFetch` under the mutex, `Grant` (the endpoint),
`Store` or `FetchFails` with the mutex still held, then `Answered`, `AnswerLost`,
`NeverSent` or `Refused`, which repeats the call once with a forced refresh.
`Token` takes the mutex a second time (`ReadExpiry`). OpsRamp's token is one for
the tenant, given out with its remaining life, and may be rotated unannounced.
`Refused` is a 401 or 407 for any reason, also one that has nothing to do with the
token: `do` retries then too, and if the token was good the endpoint answers the same
one, which the retry presents a second time. `RetryIsFresh` says what is promised in
both cases: the retry presents what a token request of its own answered after the
refusal (`own`), and nothing that was dead by then (`least`). That a refused request
was not executed is an assumption on OpsRamp.

Abstractions: the clock counts units of `Skew`; `OddReports` are implausible
values of `expires_in`, a negative one also standing for a conversion that
overflows; the body of a request.

### Targets, Drift and Fleet

`Targets` and `Drift` are pure: ExpandTargets on tokens, and Evaluate with
classify, compareVersion and atoi on rows. A loop of the code is a recursive
function on the numbers of its turns (`done`, `best`, `kept`), so that it can be
proved about; `Select` is the loop that appends what passes a condition. Each is
compared with a definition by membership: `Denoted` says which addresses a specification means without walking
them, `Newer` compares versions by the first field that differs. `Fleet` is the
inventory: `SearchPage` reads a page of the tenant as it is then, `Upsert` writes
a row, two synchronisations may overlap, `Change` and `DeregisterByHost` change
the tenant. `ReportRight` and `TargetsExact` hold of what the engine makes of the
rows in every state, also half way through a synchronisation.

A host is a text, as in the code: the text an address is printed as (`Printed`), or any
other (`Names`), a host name or another spelling of an address. Texts that differ are
different hosts, so `2001:DB8::1` and `2001:db8::1` are two. The forms of a token are
those the code tells apart: a text without slash and hyphen, taken as it is; a prefix;
a range; a short range, with or without text after the number (`10.0.0.5-7x`,
`10.0.0.1-20-30`: Sscanf stops at the number); a host name with a hyphen (`Hyphened`);
and what does not parse (`Bad`). `Valid` are the forms that are documented, `Taken`
those the code accepts; they differ in `Hyphened` and in the text after a number, the
findings below.

Abstractions: an address is a number of `Width` bits; a version is a name with its
digit strings; a status is matched by the patterns or not; ParseAddr and ParsePrefix
are the tokens' kinds, their zones are left out, and a range from one family to the
other is a `Bad` token (it would be refused, or run into the limit); the address of a
resource has no separator, slash or hyphen; the histogram is left out.

## Runs

| Run | Instance | Question | Answer |
|---|---|---|---|
| `registry` | 3 connections, 2 agents, 1 fault | registry live, status honest, events paired unless the first could not be added, no eviction; presence heals, absence settles | holds |
| `rollout_safety` | 1 agent, 2 request threads, 2 groups, 2 configurations of one file, 3 requests, no fault | current whenever quiet | holds |
| `rollout_fleet` | 2 agents of different groups, 1 request at a time, 2 requests | current whenever quiet, for a fleet | holds |
| `rollout_live` | 1 agent, 2 groups, 2 configurations of files `{n1, n2}` and `{n1}`, 2 requests, 1 fault of any kind | provenance of every file, refinement of `Delivery`; converges | holds |
| `group_store` | 2 threads, 2 groups, 1 agent, 2 contents, 4 requests, any failures | refinement of `VersionLog`; requests end | holds |
| `packages` | 2 packages, 2 contents, 2 goroutines, 5 changes, 1 fault | files never go back; the agent converges | holds |
| `token_cache` | 2 callers, lives 2 to 3, clock to 3, 1 rotation, any losses | refinement of `ApiCall`; retry with what its own token request answered, cache never goes back; calls end | holds |
| `connector` | 2 tenants, 2 requests, 3 poll loops, 1 fault | one live tenant, only checked keys with secrets, live is stored; old loops end | holds |
| `fleet` | 3 resources in pages of 1, 2 synchronisations, 1 change, 1 fault; addresses of 3 bits, limit 4, all pairs of 88 tokens | report right, targets exact; rows settle | holds |
| `deploy` | 3 hosts, 2 slots, 1 fault, the context may expire | limit, verdict, honesty, fallback; the job ends, a hang costs a slot | holds |
| `deploy_expiry` | 2 hosts, 1 slot, no fault | is every outcome kept? | no: finding |
| `connector_secret` | 2 tenants, 1 request at a time, restart and failed start | is a stored secret kept? | no: finding |

Why the bounds are enough to be interesting. Three connections of two agents give
one agent an old, a new and a newest connection at once. Two requests
are the least that can race (publication against move, publication against
publication); a third lets one overtake both. One fault is enough for the
properties of `rollout_live` and `deploy`: each speaks of the recovery from a
fault, and the proofs cover any number of them for the safety part. The two
configurations of `rollout_live` share one file name and differ in another, so that
the second leaves a file of the first behind, which a restart then loads. `QueueCap = 1` makes a sender wait
for the connection's buffer and keeps one older offer under way while the next
is built, which is what overtaking needs. Three hosts for two slots make
the third wait for a release, let two progress writes land out of order and leave
a slot beside a hanging host; with the context expired the fallback of a failed
statement fails as well.

Four requests of two threads let a group be filled, deleted, created again and
met by two requests of its former life; only requests of several statements count,
creation and deletion of groups are unbounded. Two goroutines of the agent are
what an older offer needs to be worked off after a newer one; five changes
are an upload and an assignment for each package and a replacement. Three poll
loops are one running and two cancelled ones that have not noticed; the
environment names a tenant at one start and none at another. In
`token_cache` a token's life of 3 with a skew of 1 has a moment when the token is
good and not used any more, and one when it is used and dead; a rotation makes a
cached one refused, and with two callers one may fetch between the other's
refusal and its retry; a good token may be refused as well, twice. Addresses of three bits with octets of 4 have every prefix
length, both forms of range, and sizes 3, 4 and 5 around the limit of 4; the
texts are addresses of both families, a name, and a second spelling of an address
that is listed too.

Each property has a mutant of the code, listed in `PROJECT.json`, that breaks it
on the same instance.

`CHECK_DEADLOCK FALSE` only where the system really stops: in the runs of
`DeployJob`, whose job ends, and of `Connector`, where a connector that is
disabled rests once no request is left. Everywhere else something can always
happen (an agent sends or reconnects, a group is created, a caller calls, a
resource is synchronised).

### Fairness

* `ConnRegistry`: a callback that runs is scheduled until it returns, and the
  peer of an open connection sends another heartbeat (the client sends one every
  20 seconds, `cmd/demo-agent/main.go:65`). Nobody has to connect, leave or
  restart.
* `ConfigRollout`: goroutines are scheduled; the client reconnects, sends and
  applies (opamp-go's reconnect loop and heartbeat); the library notices a dead
  connection. `Send` has strong fairness: writers of one connection take a mutex
  that Go hands to a starving waiter, so one that can send again and again gets
  its turn. No operator has to act and no fault to happen.
* `GroupStore`: a statement that waits for nothing is executed. Weak fairness is
  enough, a lock that is released stays free for the waiter or goes to another
  request of a bounded number.
* `PackageRollout`: heartbeats go on and again and again one is answered and the
  answer arrives (strong, since an offer may be lost any number of times);
  goroutines that wait for the syncer's mutex get it in turn.
* `TokenCache`: requests have a time limit (30 seconds, `client.go:73`), so each
  wait ends; the mutex is handed to a starving waiter (strong fairness of
  `UseCached`/`StartFetch`). Nobody has to call, the clock may stand still.
* `Connector`: goroutines are scheduled, calls have time limits, the ticker fires,
  and `select`, which chooses at random between a ticker and an ended context,
  does not choose the ticker for ever (strong fairness of `LoopEnds`).
* `Fleet`: the poll loop's ticker fires and calls end. `SyncNow` need not happen.
* `DeployJob`: goroutines are scheduled and each wait of one that does not hang
  ends: dialling has a time limit, statements and the command end with the
  context. `Hang` and `Expire` are never obliged.

`Converges` does not assume that pushes arrive. It holds because the server
answers a heartbeat with an offer even when nothing changed. Replacing the hash in
the message by the hash in the row, as a comment has it (mutant `WantedByRow`),
breaks convergence: an agent that reported a failed write under the new hash would
never be offered it again. `PackagesConverge` depends on the same redundancy
(mutant `HeartbeatKnown`).

`Converges` has two exceptions, each a loss that lasts. An agent whose description
could not be stored is offered nothing until it connects again: only the first
message of a connection carries the description (`described`). A status that could not
be stored is not sent again until it changes, so the row stays wrong although the
agent runs the right configuration (`unsaved`).

`PackagesConverge` has three exceptions, each a behaviour of the code that the
run showed. A group without packages is offered none, so the agent keeps the last
one it had. A package put back to an older content may be recorded under that hash
while the file is the newer one, because the file is not compared with the hash.
And an agent that had everything, failed in a synchronisation of something else,
and is then wanted to have the former again is told nothing: the hash of its
earlier success is still the one it compares with (`Fooled`).

## Findings

Each is a run that must be violated; `PROJECT.json` quotes the lines.

1. When a job's 30 minutes are over, outcomes and the verdict are lost: every
   attempt to record them uses the expired context (`manager.go:230`).
2. A secret left blank "keeps the previously stored secret"
   (`connector.go:163-164`). The code keeps the one in memory, which is empty
   after a start that could not read the settings; it then overwrites the stored
   secret with nothing and disables the connector.

What was met while modelling and has no run:

* `ConnectedUIDs` leaves out an agent whose newer connection closed while its
  older one lives, against `push.go:17`, until that one's next message.
* The answer to a heartbeat repeats an offer the agent has reported, against
  `reconcile.go:60-62`; recovery depends on it.
* An agent is served from the default group when the list of groups cannot be
  read, although its selector matches another, against `reconcile.go:19-21`.
* `PushGroup` counts agents that were not pushed, against `push.go:61-62`.
* `registerConn` compares with the connection that spoke last, so that two
  connections of one UID which speak in turn are each "newly observed" at every
  message (`server.go:109`).
* The demo agent does not compare the hash of an offer with the one it runs,
  although `push.go:89-90` relies on that.
* The demo agent never removes a file of an earlier configuration and loads all it
  finds when it starts (`cmd/demo-agent/main.go:143-155`, `194-211`): until the next
  offer it runs a mix that nobody published, and reports it as its effective config.
* An agent whose first message met a failing SaveAgentDescription is offered nothing,
  and no selector matches it, until it connects again (`message.go:49`,
  `reconcile.go:68`, `push.go:95`).
* A status that could not be stored is lost until the agent has another one
  (`message.go:70`): the client sends only what changed.
* Every message without a status section is answered with an offer, and the demo agent
  answers every offer it applied with a message that has none (`main.go:165`;
  opamp-go's `UpdateEffectiveConfig` sends it whether or not it is new): the two go on without waiting for a
  heartbeat as long as the configuration has files.
* `registerConn` reports a connection as new once; when the AddEvent of that moment
  fails, which `message.go:26` ignores, the log has a "disconnected" without a
  "connected".
* `Reconfigure` saves and uses a valid key with a tenant that nobody checked
  (`client.go:113-118`), although `connector.go:268-270` says that the two go wrong
  separately.
* A host name with a hyphen is refused as a range, although hostnames are documented
  as targets (`targets.go:16`, `50`).
* Two spellings of one address are two hosts of the "de-duplicated" list
  (`targets.go:14`, `60-63`).
* What follows the number of a short range is passed over (`targets.go:125`):
  `10.0.0.1-20-30` deploys to `10.0.0.1` to `10.0.0.20`.
* A job whose process stops, or whose creation was committed but not confirmed, stays
  "running" (`manager.go:186-195`); nothing resumes or closes it.
* With `DEFAULT_GROUP` set to another name than `default`, the group every
  unmatched agent resolves to can be deleted (`postgres.go:262`).
* A package replaced by the same content with another version or type is never
  offered again: neither hash covers them (`reconcile.go:114-118`).
* A token whose remaining life is below the skew is fetched again at every call.
* `Client.Token` may return a token with the expiry of a later one (it takes the
  lock twice), or with none.
* Two overlapping `Reconfigure` calls may save in one order and apply in the
  other; a restart then changes what is in use (`LiveIsStored` excludes it).
* `StartJob` reads the connector three times; a `Reconfigure` in between mixes the
  keys of one tenant with the script of another.
* Rows of resources that left the tenant stay, count as drift, and
  `DeregisterByHost` may pick one of them before the resource that has the
  address now.
* A recommendation for more hosts than `MaxTargets` is refused as a whole, and a
  range of `MaxTargets + 1` is refused by `add` and not by `expandRange`.

## Proofs

`*Proofs.tla` hold for any number of agents, connections, groups, contents,
hosts, slots and faults, from the named assumptions on the constants
(`NoneAssumption`, `SetsAssumption`, `SelectedAssumption`, `BoundsAssumption`,
`HostsAssumption`, ...), which TLC evaluates in every run.

* `ConnRegistryProofs`: `TypeCorrect`, `LiveRegistry`, `HonestStatus`,
  `PairedEvents`, `NeverEvicts`. The invariants alone are not inductive. That a
  `byUID` entry is an open connection needs the converse of the two maps (an entry
  points back through `byConn`) and where the goroutine of a registered connection
  can be; that events pair needs that a connection registered for a UID was either
  announced for it, missed its announcement, or is about to be announced.
* `ConfigRolloutProofs`: `TypeCorrect`, `Provenance`, `Implements`. The inductive
  invariant follows a content from the table to the agent: what is current was
  published; a row's group is among the agent's groups; what a worker loaded or
  built, what is in the queue, what the client says and each file that runs or is on
  the disk was published for a group of that agent, or is a file torn by a fault. The
  sets only grow (`Grows`), so a step that is late stays right. What the client says it
  applied is the whole of what runs (`Says`, `Holds`). `Implements` maps each step to a
  step of `Delivery` or a stutter.
  Its second part proves `Settled`, that is `SettledIsCurrent`, on top of that
  invariant. Without faults an agent that does not run what is current, and
  will not once its queue is empty, is *in someone's hands* (`InHand`): a report of
  something else is due or on its way, an offer in its queue will change what it has to
  report (`Changing`), its connection's goroutine is going to
  answer one, a worker has resolved its group since the last change, or a push has
  it still to visit. Each step hands the agent on; a push loses one only before the
  agent's first message, and that is answered. The rest of the invariant says what
  a run without faults cannot do (lose a connection, register twice) and that the
  last report on the way is what the client last had to report.
* `GroupStoreProofs`: `TypeCorrect`, `Implements` (`VersionLog`). Invariant: an open
  transaction is that of its request, its group cannot go, and its number is taken
  by nobody; before a group is deleted its numbers are `1..k`, so `MAX + 1` appends
  to the log. The type of the numbers needs that they do not run ahead of the
  requests that have ended (`Counted`), a cardinality argument. `Max` is a CHOOSE;
  that it is in a bounded set is `MaxOf`, from the well-foundedness of `<` on `Nat`.
  The named exceptions of `VersionLog` are matched by the steps of requests that
  outlive their group (`dropped`).
* `PackageRolloutProofs`: `TypeCorrect`, `ForwardOnly`. Invariant: no file and no row
  of the catalogue is newer than the newest upload, and while no operator has put an
  older content back the catalogue has the newest. A download takes what the
  catalogue has at that moment, so nothing about offers is needed: the order they
  arrive in does not matter, which is the point.
* `TokenCacheProofs`: `TypeCorrect`, `FreshRetries`, `CacheForward`, `Implements`
  (`ApiCall`). Invariant: the mutex is held over the whole token request, with the
  cache empty; tokens are numbered as the tenant issued them, and a granted one is
  not older than any cached before; the oldest token that the tenant could give out at
  a refusal is not newer than its present one, or than the next if that has expired, so
  the call that was refused comes out of its own token request with nothing older; a
  request is executed only in the step that ends its call.
* `ConnectorProofs`: `TypeCorrect`, `LiveTenant`, `CheckedOnly`, `StoreAgrees`.
  Invariant: what each place of a worker carries; that settings past the check, and
  every client a worker has, are of an accepted key and secret; and that between save and
  apply the store is ahead of memory by exactly what the one request there is about
  to apply.
* `DeployJobProofs`: `TypeCorrect`, `Limited`, `Honest`, `AddsUp`,
  `FallbackSuffices`, `FinalStays`. The invariant says where a host may be in each
  phase of the job, that the counters are the numbers of hosts counted so far with
  each outcome, that what a goroutine read is not ahead of them, that every started
  host that has not left holds a slot, and what a finished row says. Arithmetic on
  cardinalities comes from `FiniteSetTheorems`.
* `FleetProofs`: `Inventory`, `Report` (`ReportRight`), `Expansion`, `Targeting`
  (`TargetsExact`). The state part is short: whatever a synchronisation holds and
  every row is something that very resource has said, however searches and writes
  overlap, so the rows are well-typed agents. The rest is about what the code
  computes from them.
  - *Loops.* An induction rule with a predicate as parameter cannot be used here, one
    with a set can: `Induction` says that a set with 0 that is closed under successor
    up to `n` contains `0..n`, and comes from the well-foundedness of `<`. `Recursion`
    and `Unfolding` say that the function a loop is defined by exists and unfolds; the
    step of the loop is a function too. Each loop gets one lemma (`SelectLoop`,
    `LatestLoop`, `AddAllLoop`, `ExpandLoop`, `AtoiType`, `Powers`) that proves the
    loop's invariant with these.
  - *Report.* `NewerAhead` and `CompareNewer`: `compareVersion` agrees with the first
    field that differs, whatever the numbers of fields. `NewerOrder`: newer is
    asymmetric and its negation transitive, which the choice of the latest version
    needs, since unequal names may be equal versions (`17.2`, `17.2.0`). `LatestIs` and
    `LatestUnique`: no agent is newer than the latest, and that is the first such in
    the order of names. `TreatedRight`: after the treatment the latest is the same
    name, because agents of an equal version keep theirs, and nothing is left to do.
  - *Targets.* `InBlock`, `SameBlock`, `BlockEnds`: two addresses have the same prefix
    exactly if they are in the same aligned block, and an address has a neighbour
    outside exactly if it is one of the ends. So each block or range that is
    taken spans an interval (`RangeSpans`, `ShortSpans`, `CidrSpans`), which `WalkRight`
    lists once each, the one address beyond the limit in `expandRange` included. `Added` is
    the invariant of the outer loop: the list so far is what the tokens so far denote,
    or there are more than `MaxTargets` of them and it is `Error`; both can only be
    decided by the cardinality of the union, in which tokens overlap (`DenotedFinite`). A malformed token
    and an overflow, in either order, end in the same refusal.

What the last of these assumes of the constants. Addresses are whole octets
(`WidthAssumption`: 32 or 128 bits, octets of 256), on which the short form of a range
depends. Some status is up and not down (`StatusAssumption`: "active" matches `upRE`
and not `downRE`), or no treatment could make an agent healthy. A version is a finite
sequence of digit strings (`DigitsAssumption`: what `FindAllString` returns). What a
resource says has such a version and a text or nothing as its address
(`FleetAssumption`); tokens are of the forms of `Tokens`, with any text for a host and
any integer for the last octet. `Error` is not a list of hosts (`ErrorAssumption`).

The assumptions that are about names only say that the special values differ from
the ordinary ones: `Null` of `GroupStore` is no number, no row of a transaction and
no log (`NullAssumption`), that of `Connector` no client, worker or settings
(`NamesAssumption`, which also gives each key the one secret that OpsRamp accepts with
it). A configuration has at least one file and no configuration is called `Torn`
(`FilesAssumption`): the server offers nothing for a version without files. Each inductive invariant was checked by TLC on the instances of
the runs before it was proved.

Only model-checked is liveness (`PresenceHeals`, `AbsenceSettles`, `Converges`,
`PackagesConverge`, `OldLoopsEnd`, `CallsEnd`, `RowsSettle`, `RequestsEnd`, `RunEnds`,
`OthersGoOn`): fairness and ENABLED are out of the prover's reach. Every other property
of the passing runs is a theorem.

## Not modelled

* Known hosts: one critical section around a lookup, an insertion and the
  rewriting of a file; what can go wrong is a torn file.
* The inside of opamp-go, pgx and PostgreSQL beyond what the calls rely on; these
  are the definitions marked external.
* Rendering, routing, authentication, the proxies to OpsRamp, `CheckSettings` and
  `Settings`: they read and change nothing.
* Health, effective configuration and package statuses that agents report: stored and
  shown, never read back by a decision. (Attributes and capabilities are read back, by
  resolveGroup and by the offers: `described` of `ConfigRollout`.)
* Shutdown order, logging, configuration from the environment, hash functions.

## Plan

Done: every module of the list above, and a proof of every property of the passing
runs that is not liveness. Left: the composition of
`Targets` with `DeployJob`, as the set of hosts of a job.

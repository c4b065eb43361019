------------------------------ MODULE Connector -----------------------------
(***************************************************************************)
(* The OpsRamp connector: its settings in the store and in memory, the     *)
(* client and poll loop made from them, and the synchronisations that copy *)
(* a tenant's resources into the inventory.                                *)
(*                                                                         *)
(* A worker is an admin request (Reconfigure or SyncNow) or a poll loop.   *)
(* Reconfigure reads the previous settings, checks the credentials, saves  *)
(* and applies in four separate steps, of which only the first and the     *)
(* last hold the lock.  apply cancels the old poll loop without waiting    *)
(* for it; the context of a SyncNow is its own and is not cancelled.       *)
(*                                                                         *)
(* OpsRamp checks a key with its secret; the tenant is only part of the    *)
(* paths a client asks for.  The tokens of a client are TokenCache, the    *)
(* pages and rows of a synchronisation are Fleet; here it is one search    *)
(* and one row, known by the client that fetched it.                       *)
(***************************************************************************)
EXTENDS Naturals

CONSTANTS
    Requests,     \* threads of admin requests
    Loops,        \* names of poll loops; one is reused when its loop has ended
    Tenants, Keys, Secrets,
    SecretOf,     \* SecretOf[k]: the secret OpsRamp accepts with the key k
    NoSecret,     \* a blank secret
    Null,         \* no row, no settings, no client
    Environments, \* what the environment may name at a start; Null: it is not complete
    Bodies,       \* the settings operators enter
    MaxRequests,  \* bound on admin requests
    MaxFaults     \* bound on failed statements on the settings, and restarts

Settings == [tenant : Tenants, key : Keys, secret : Secrets \cup {NoSecret}, enabled : BOOLEAN]

\* A client is made of complete settings.
Clients == [tenant : Tenants, key : Keys, secret : Secrets]
ClientOf(s) == [tenant |-> s.tenant, key |-> s.key, secret |-> s.secret]
Credential(s) == <<s.key, s.secret>>

ASSUME NamesAssumption ==
    /\ Requests \cap Loops = {}
    /\ Null \notin Clients \cup Requests \cup Loops \cup Settings
    /\ Environments \subseteq Clients \cup {Null}
    /\ NoSecret \notin Secrets
    /\ SecretOf \in [Keys -> Secrets]
    /\ Bodies \subseteq Settings
ASSUME BoundsAssumption == MaxRequests \in Nat /\ MaxFaults \in Nat

VARIABLES
    stored,     \* the row of opsramp_config
    live,       \* Connector.settings, enabled, client and the loop of pollCancel
    task,       \* the locals of a worker
    inventory,  \* the clients that fetched the rows of opsramp_agents
    booted,     \* has Start run?
    checked,    \* history: keys with secrets that OpsRamp accepted or the environment gave
    raced,      \* history: saves and applies may have happened in different orders
    requests, faults

settings == <<stored, live, checked, raced>>
bounds == <<requests, faults>>
vars == <<stored, live, task, inventory, booted, checked, raced, requests, faults>>

Workers == Requests \cup Loops

\* in: the parameter of Reconfigure, and whether its secret came blank; client:
\* the client a worker syncs with; cancelled and late: the
\* loop's context, and whether a call that was under way when it ended may
\* still take effect.
Tasks == [pc : {"idle", "check", "save", "apply", "fetch", "write", "wait"},
          in : Settings \cup {Null}, blank : BOOLEAN, client : Clients \cup {Null},
          cancelled : BOOLEAN, late : BOOLEAN]

TypeOK ==
    /\ stored \in Settings \cup {Null}
    /\ live \in [settings : Settings \cup {Null}, enabled : BOOLEAN,
                 client : Clients \cup {Null}, loop : Loops \cup {Null}]
    /\ task \in [Workers -> Tasks]
    /\ inventory \subseteq Clients
    /\ booted \in BOOLEAN /\ raced \in BOOLEAN
    /\ checked \subseteq Keys \X Secrets
    /\ requests \in 0..MaxRequests /\ faults \in 0..MaxFaults

Idle == [pc |-> "idle", in |-> Null, blank |-> FALSE, client |-> Null,
         cancelled |-> FALSE, late |-> FALSE]
Down == [settings |-> Null, enabled |-> FALSE, client |-> Null, loop |-> Null]

Init ==
    /\ stored = Null
    /\ live = Down
    /\ task = [w \in Workers |-> Idle]
    /\ inventory = {}
    /\ booted = FALSE
    /\ checked = {}
    /\ raced = FALSE
    /\ requests = 0 /\ faults = 0

Fault == faults < MaxFaults /\ faults' = faults + 1

-----------------------------------------------------------------------------
Complete(s) == s.secret # NoSecret

(* syncWith with a client, from its start.                                  *)
Syncing(client) == [Idle EXCEPT !.pc = "fetch", !.client = client]

(* pollCancel: the loop's calls fail from now on, up to one under way.      *)
Cancelled(k) == [k EXCEPT !.cancelled = TRUE, !.late = k.pc \in {"fetch", "write"}]

(* Mutant: the old loop is only cancelled where a new one is started.       *)
ApplyNoCancel(s, tasks) ==
    IF ~(s.enabled /\ Complete(s))
    THEN /\ live' = [settings |-> s, enabled |-> FALSE, client |-> Null, loop |-> Null]
         /\ task' = tasks
    ELSE \E l \in Loops :
        /\ task[l].pc = "idle"
        /\ live' = [settings |-> s, enabled |-> TRUE, client |-> ClientOf(s), loop |-> l]
        /\ task' = [w \in Workers |-> IF w = l THEN Syncing(ClientOf(s))
                                      ELSE IF w = live.loop THEN Cancelled(task[w])
                                      ELSE tasks[w]]

(* Mutant: settings that do not enable the connector are not kept.          *)
ApplyDisabledForgets(s, tasks) ==
    LET stopped == [w \in Workers |-> IF w = live.loop THEN Cancelled(task[w]) ELSE tasks[w]] IN
    IF ~(s.enabled /\ Complete(s))
    THEN /\ live' = [live EXCEPT !.enabled = FALSE, !.client = Null, !.loop = Null]
         /\ task' = stopped
    ELSE \E l \in Loops :
        /\ task[l].pc = "idle"
        /\ live' = [settings |-> s, enabled |-> TRUE, client |-> ClientOf(s), loop |-> l]
        /\ task' = [stopped EXCEPT ![l] = Syncing(ClientOf(s))]

Swapped(s) == [tenant |-> s.tenant, key |-> s.secret, secret |-> s.key]

(* Mutant: key and secret of the client are swapped.                        *)
ApplySwapped(s, tasks) ==
    LET stopped == [w \in Workers |-> IF w = live.loop THEN Cancelled(task[w]) ELSE tasks[w]] IN
    IF ~(s.enabled /\ Complete(s))
    THEN /\ live' = [settings |-> s, enabled |-> FALSE, client |-> Null, loop |-> Null]
         /\ task' = stopped
    ELSE \E l \in Loops :
        /\ task[l].pc = "idle"
        /\ live' = [settings |-> s, enabled |-> TRUE, client |-> Swapped(s), loop |-> l]
        /\ task' = [stopped EXCEPT ![l] = Syncing(Swapped(s))]

(* apply(s), one critical section: the old loop is cancelled, the settings  *)
(* are taken, and when they enable the connector a client is made and a     *)
(* loop started with it.  tasks: the other workers after the step.          *)
ApplySettings(s, tasks) ==
    LET stopped == [w \in Workers |-> IF w = live.loop THEN Cancelled(task[w]) ELSE tasks[w]] IN
    IF ~(s.enabled /\ Complete(s))
    THEN /\ live' = [settings |-> s, enabled |-> FALSE, client |-> Null, loop |-> Null]
         /\ task' = stopped
    ELSE \E l \in Loops :
        /\ task[l].pc = "idle"
        /\ live' = [settings |-> s, enabled |-> TRUE, client |-> ClientOf(s), loop |-> l]
        /\ task' = [stopped EXCEPT ![l] = Syncing(ClientOf(s))]

-----------------------------------------------------------------------------
(* Start: the stored settings, or else those of the environment.            *)
StartStored ==
    /\ ~booted /\ booted' = TRUE
    /\ stored # Null
    /\ ApplySettings(stored, task)
    /\ UNCHANGED <<stored, inventory, checked, raced, bounds>>

EnvSettings(e) == [tenant |-> e.tenant, key |-> e.key, secret |-> e.secret, enabled |-> TRUE]

(* First boot: they are saved, which may fail, and taken either way.  They  *)
(* are not checked.                                                         *)
StartEnv ==
    /\ ~booted /\ booted' = TRUE
    /\ stored = Null
    /\ \E e \in Environments \ {Null} :
        /\ checked' = checked \cup {Credential(e)}
        /\ \/ stored' = EnvSettings(e) /\ UNCHANGED <<raced, faults>>
           \/ Fault /\ UNCHANGED stored /\ raced' = TRUE
        /\ ApplySettings(EnvSettings(e), task)
    /\ UNCHANGED <<inventory, requests>>

StartUnconfigured ==
    /\ ~booted /\ booted' = TRUE
    /\ stored = Null /\ Null \in Environments
    /\ UNCHANGED <<settings, task, inventory, bounds>>

(* GetOpsRampSettings fails: main logs it and goes on without settings.     *)
StartFails ==
    /\ ~booted /\ booted' = TRUE
    /\ Fault
    /\ raced' = TRUE
    /\ UNCHANGED <<stored, live, task, inventory, checked, requests>>

(* The orchestrator stops, which ends every worker, and is started again.   *)
Restart ==
    /\ booted /\ booted' = FALSE
    /\ Fault
    /\ live' = Down
    /\ task' = [w \in Workers |-> Idle]
    /\ raced' = FALSE
    /\ UNCHANGED <<stored, inventory, checked, requests>>

-----------------------------------------------------------------------------
(* Reconfigure.                                                             *)

Request(t) ==
    /\ booted
    /\ task[t].pc = "idle"
    /\ requests < MaxRequests
    /\ requests' = requests + 1
    /\ UNCHANGED <<settings, inventory, booted, faults>>

KnownSecret == IF live.settings = Null THEN NoSecret ELSE live.settings.secret

(* A blank secret is replaced by the one in memory, and settings that are   *)
(* not complete are not enabled.                                            *)
Merged(body) ==
    LET in == [body EXCEPT !.secret = IF @ = NoSecret THEN KnownSecret ELSE @]
    IN [in EXCEPT !.enabled = @ /\ Complete(in)]

(* The first critical section.                                              *)
Reconfigure(t, body) ==
    /\ Request(t)
    /\ task' = [task EXCEPT ![t] =
                   [Idle EXCEPT !.pc = IF Merged(body).enabled THEN "check" ELSE "save",
                                !.in = Merged(body), !.blank = body.secret = NoSecret]]

\* What a token request answers to: the key and its secret.
Good(credential) == credential[2] = SecretOf[credential[1]]

(* Mutant: credentials whose secret was not entered again are not checked.  *)
CheckEntered(t) ==
    /\ task[t].pc = "check"
    /\ task[t].blank \/ Good(Credential(task[t].in))
    /\ task' = [task EXCEPT ![t].pc = "save"]
    /\ checked' = checked \cup {c \in {Credential(task[t].in)} : Good(c)}
    /\ UNCHANGED <<stored, live, raced, inventory, booted, bounds>>

(* Ping, a token request of a client of its own: OpsRamp accepts the key    *)
(* and the secret.  It does not get to see the tenant.                      *)
CheckOk(t) ==
    /\ task[t].pc = "check"
    /\ Good(Credential(task[t].in))
    /\ task' = [task EXCEPT ![t].pc = "save"]
    /\ checked' = checked \cup {Credential(task[t].in)}
    /\ UNCHANGED <<stored, live, raced, inventory, booted, bounds>>

(* It refuses them, or cannot be reached.                                   *)
CheckFails(t) ==
    /\ task[t].pc = "check"
    /\ task' = [task EXCEPT ![t] = Idle]
    /\ UNCHANGED <<settings, inventory, booted, bounds>>

\* Is another request between its save and its apply?
Overlaps(t) == \E u \in Requests \ {t} : task[u].pc = "apply"

Save(t) ==
    /\ task[t].pc = "save"
    /\ stored' = task[t].in
    /\ raced' = (raced \/ Overlaps(t))
    /\ task' = [task EXCEPT ![t].pc = "apply"]
    /\ UNCHANGED <<live, checked, inventory, booted, bounds>>

(* The statement fails; it may have been executed all the same.             *)
SaveFails(t) ==
    /\ task[t].pc = "save"
    /\ Fault
    /\ \/ UNCHANGED <<stored, raced>>
       \/ stored' = task[t].in /\ raced' = TRUE
    /\ task' = [task EXCEPT ![t] = Idle]
    /\ UNCHANGED <<live, checked, inventory, booted, requests>>

(* The second critical section.                                             *)
Apply(t) ==
    /\ task[t].pc = "apply"
    /\ ApplySettings(task[t].in, [task EXCEPT ![t] = Idle])
    /\ UNCHANGED <<stored, checked, raced, inventory, booted, bounds>>

-----------------------------------------------------------------------------
(* Synchronisations.                                                        *)

(* SyncNow takes the client of the moment.                                  *)
SyncNow(t) ==
    /\ Request(t)
    /\ live.client # Null
    /\ task' = [task EXCEPT ![t] = Syncing(live.client)]

(* A worker whose context has ended can only finish a call under way.       *)
Proceeds(w) == task[w].cancelled => task[w].late

(* A sync has ended: a request is answered, a loop waits for its ticker.    *)
Rested(w) == [Idle EXCEPT !.pc = IF w \in Loops THEN "wait" ELSE "idle",
                          !.client = IF w \in Loops THEN task[w].client ELSE Null,
                          !.cancelled = task[w].cancelled]

(* EnsureToken and ListAgentResources: answered to good credentials.        *)
Fetch(w) ==
    /\ task[w].pc = "fetch"
    /\ Proceeds(w)
    /\ Good(Credential(task[w].client))
    /\ task' = [task EXCEPT ![w] = [@ EXCEPT !.pc = "write", !.late = FALSE]]
    /\ UNCHANGED <<settings, inventory, booted, bounds>>

(* No token, no answer, or the context has ended: nothing is written.       *)
FetchFails(w) ==
    /\ task[w].pc = "fetch"
    /\ task' = [task EXCEPT ![w] = Rested(w)]
    /\ UNCHANGED <<settings, inventory, booted, bounds>>

(* UpsertOpsRampAgent.                                                      *)
Write(w) ==
    /\ task[w].pc = "write"
    /\ Proceeds(w)
    /\ inventory' = inventory \cup {task[w].client}
    /\ task' = [task EXCEPT ![w] = Rested(w)]
    /\ UNCHANGED <<settings, booted, bounds>>

(* A row that fails is logged and left out; a tenant may have none.         *)
WriteFails(w) ==
    /\ task[w].pc = "write"
    /\ task' = [task EXCEPT ![w] = Rested(w)]
    /\ UNCHANGED <<settings, inventory, booted, bounds>>

(* pollLoop: the ticker, or the end of the context; when both are ready     *)
(* select takes either.                                                     *)
Wake(l) ==
    /\ task[l].pc = "wait"
    /\ task' = [task EXCEPT ![l] = [Syncing(@.client) EXCEPT !.cancelled = task[l].cancelled]]
    /\ UNCHANGED <<settings, inventory, booted, bounds>>

(* Mutant: the loop does not look at its context.                           *)
LoopNeverEnds(l) == FALSE /\ UNCHANGED vars

(* ctx.Done: the loop returns.                                              *)
LoopEnds(l) ==
    /\ task[l].pc = "wait"
    /\ task[l].cancelled
    /\ task' = [task EXCEPT ![l] = Idle]
    /\ UNCHANGED <<settings, inventory, booted, bounds>>

-----------------------------------------------------------------------------
Start == StartStored \/ StartEnv \/ StartUnconfigured \/ StartFails

RequestSteps(t) ==
    CheckOk(t) \/ CheckFails(t) \/ Save(t) \/ SaveFails(t) \/ Apply(t)
SyncSteps(w) == Fetch(w) \/ FetchFails(w) \/ Write(w) \/ WriteFails(w)
LoopSteps(l) == Wake(l) \/ LoopEnds(l)

Next ==
    \/ Start
    \/ Restart
    \/ \E t \in Requests :
        \/ \E body \in Bodies : Reconfigure(t, body)
        \/ SyncNow(t)
        \/ RequestSteps(t)
    \/ \E w \in Workers : SyncSteps(w)
    \/ \E l \in Loops : LoopSteps(l)

Spec == Init /\ [][Next]_vars

(* Goroutines are scheduled, calls end (they have time limits), and the     *)
(* ticker of a loop fires; select does not ignore an ended context for      *)
(* ever.  Nobody has to act, and nothing has to fail.                       *)
Fairness ==
    /\ WF_vars(Start)
    /\ \A t \in Requests : WF_vars(RequestSteps(t))
    /\ \A w \in Workers : WF_vars(SyncSteps(w))
    /\ \A l \in Loops : WF_vars(Wake(l)) /\ SF_vars(LoopEnds(l))

FairSpec == Spec /\ Fairness

-----------------------------------------------------------------------------
\* apply, Start and restarts leave one tenant in use at a time: the connector
\* has a client exactly when its settings enable it, made of them, and one poll
\* loop that is not cancelled, which uses that client.
OneLiveTenant ==
    LET running == {l \in Loops : task[l].pc # "idle" /\ ~task[l].cancelled} IN
    /\ live.enabled <=> live.client # Null
    /\ running = {live.loop} \ {Null}
    /\ live.loop = Null <=> live.client = Null
    /\ live.enabled =>
        /\ live.settings.enabled /\ live.client = ClientOf(live.settings)
        /\ task[live.loop].client = live.client

\* Reconfigure: settings that enable the connector, stored or in use, carry a
\* key with a secret that OpsRamp accepted (or the environment gave), and so
\* did every client that fetched a row of the inventory, whatever other
\* requests did between the check, the save and the apply.  Of the tenant they
\* name nothing is checked.
OnlyChecked ==
    /\ \A s \in {stored, live.settings} \ {Null} : s.enabled => Credential(s) \in checked
    /\ \A client \in inventory : Credential(client) \in checked

\* What is in use is what a restart would load: the settings in memory are
\* those in the store, except while a request is between its save and its
\* apply, after two requests overlapped there, or after a statement failed.
LiveIsStored ==
    booted /\ ~raced /\ (\A t \in Requests : task[t].pc # "apply") =>
        live.settings = stored

\* A replaced poll loop does not live on: it ends, and with it the writes of
\* the tenant before, although nobody waits for it.
OldLoopsEnd == \A l \in Loops : task[l].cancelled ~> task[l].pc = "idle"

\* connector.go, Reconfigure: "A missing ClientSecret keeps the previously
\* stored secret."
SecretKept ==
    [][\A t \in Requests :
        /\ task[t].pc = "save" /\ task'[t].pc = "apply"
        /\ task[t].blank /\ stored # Null
        => stored'.secret = stored.secret]_vars
=============================================================================

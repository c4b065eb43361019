--------------------------- MODULE ConnectorProofs --------------------------
(* The connector proved for any tenants, requests and poll loops, and any   *)
(* number of requests and faults: its types, one live tenant at a time,     *)
(* only checked credentials, and settings that agree with the store.        *)
EXTENDS Connector, TLAPS

(* Before Start, and where no settings were loaded, nothing runs.           *)
NotStarted ==
    ~booted => /\ live = Down /\ ~raced
               /\ \A w \in Workers : task[w] = Idle

(* What a worker carries is what its place needs: a request its settings,   *)
(* a sync its client; only loops wait, only requests reconfigure.           *)
Stages ==
    /\ \A w \in Workers :
        /\ task[w].pc \in {"check", "save", "apply"} => task[w].in \in Settings /\ w \in Requests
        /\ task[w].pc \in {"fetch", "write", "wait"} => task[w].client # Null
        /\ task[w].pc = "wait" => w \in Loops
    /\ live.client # Null => live.settings \in Settings

(* Credentials that were entered to be used were accepted by OpsRamp before *)
(* they are saved and applied, and every client a worker has is of such.    *)
Accepted(s) == s \in Settings /\ s.enabled => Credential(s) \in checked
Checked ==
    /\ Accepted(stored) /\ Accepted(live.settings)
    /\ \A w \in Workers :
        /\ task[w].pc \in {"save", "apply"} => Accepted(task[w].in)
        /\ task[w].client # Null => Credential(task[w].client) \in checked
    /\ \A client \in inventory : Credential(client) \in checked

(* Between save and apply the store is ahead of memory by what the request  *)
(* is about to apply.                                                       *)
Agree ==
    booted /\ ~raced =>
        /\ \A t, u \in Requests : task[t].pc = "apply" /\ task[u].pc = "apply" => t = u
        /\ \A t \in Requests : task[t].pc = "apply" => stored = task[t].in
        /\ (\A t \in Requests : task[t].pc # "apply") => live.settings = stored

IInv == TypeOK /\ NotStarted /\ Stages /\ OneLiveTenant /\ Checked /\ Agree

-----------------------------------------------------------------------------
(* Types of what the steps make of a worker.                                *)

Stops == {"idle", "check", "save", "apply", "fetch", "write", "wait"}

LEMMA IdleType == Idle \in Tasks
    BY DEF Idle, Tasks

LEMMA TaskField ==
    ASSUME NEW k \in Tasks
    PROVE  /\ \A x \in Stops : [k EXCEPT !.pc = x] \in Tasks
           /\ \A x \in Settings : [k EXCEPT !.in = x] \in Tasks
           /\ \A x \in BOOLEAN : [k EXCEPT !.blank = x] \in Tasks
           /\ \A x \in Clients \cup {Null} : [k EXCEPT !.client = x] \in Tasks
           /\ \A x \in BOOLEAN : [k EXCEPT !.cancelled = x] \in Tasks
           /\ \A x \in BOOLEAN : [k EXCEPT !.late = x] \in Tasks
    BY DEF Tasks, Stops

LEMMA TaskStep ==
    ASSUME task \in [Workers -> Tasks], NEW w \in Workers, NEW k \in Tasks,
           task' = [task EXCEPT ![w] = k]
    PROVE  task' \in [Workers -> Tasks]
    OBVIOUS

LEMMA SyncingType ==
    ASSUME NEW c \in Clients
    PROVE  Syncing(c) \in Tasks /\ Syncing(c).pc = "fetch" /\ Syncing(c).client = c
           /\ ~Syncing(c).cancelled
<1>1. [Idle EXCEPT !.pc = "fetch"] \in Tasks
    BY IdleType, TaskField DEF Stops
<1>2. Syncing(c) \in Tasks
    BY <1>1, TaskField DEF Syncing
<1> QED BY <1>2 DEF Syncing, Idle

LEMMA CancelledType ==
    ASSUME NEW k \in Tasks
    PROVE  /\ Cancelled(k) \in Tasks
           /\ Cancelled(k).pc = k.pc /\ Cancelled(k).in = k.in
           /\ Cancelled(k).client = k.client /\ Cancelled(k).cancelled
<1>1. (k.pc \in {"fetch", "write"}) \in BOOLEAN
    OBVIOUS
<1>2. [k EXCEPT !.cancelled = TRUE] \in Tasks
    BY TaskField
<1>3. Cancelled(k) \in Tasks
    BY <1>1, <1>2, TaskField DEF Cancelled
<1> QED BY <1>3 DEF Cancelled, Tasks

LEMMA RestedType ==
    ASSUME TypeOK, NEW w \in Workers
    PROVE  /\ Rested(w) \in Tasks
           /\ Rested(w).pc = IF w \in Loops THEN "wait" ELSE "idle"
           /\ Rested(w).client = IF w \in Loops THEN task[w].client ELSE Null
           /\ Rested(w).cancelled = task[w].cancelled
<1> DEFINE p == IF w \in Loops THEN "wait" ELSE "idle"
           c == IF w \in Loops THEN task[w].client ELSE Null
           k1 == [Idle EXCEPT !.pc = p]
           k2 == [k1 EXCEPT !.client = c]
           k3 == [k2 EXCEPT !.cancelled = task[w].cancelled]
<1>1. p \in Stops /\ c \in Clients \cup {Null} /\ task[w].cancelled \in BOOLEAN
    BY DEF TypeOK, Tasks, Stops
<1>2. Rested(w) = k3
    BY DEF Rested
<1> HIDE DEF p, c
<1>3. k1 \in Tasks /\ k1.pc = p
    BY <1>1, IdleType, TaskField DEF Idle
<1> HIDE DEF k1
<1>4. k2 \in Tasks /\ k2.pc = p /\ k2.client = c
    BY <1>1, <1>3, TaskField DEF Tasks
<1> HIDE DEF k2
<1>5. k3 \in Tasks /\ k3.pc = p /\ k3.client = c /\ k3.cancelled = task[w].cancelled
    BY <1>1, <1>4, TaskField DEF Tasks
<1> QED BY <1>2, <1>5 DEF p, c

-----------------------------------------------------------------------------
(* The three kinds of steps.  A worker that synchronises keeps its client   *)
(* until it ends, and a loop ends only when it is cancelled.                *)

Synced(w, k) ==
    /\ task[w].pc \in {"fetch", "write", "wait"}
    /\ k.pc \in {"fetch", "write", "wait", "idle"}
    /\ k.client = task[w].client \/ (k.client = Null /\ k.pc = "idle")
    /\ k.pc = "wait" => w \in Loops
    /\ w \in Loops => IF k.pc = "idle" THEN task[w].cancelled
                      ELSE k.cancelled = task[w].cancelled

LEMMA SyncStep ==
    ASSUME TypeOK, Stages, NEW w \in Workers,
           SyncSteps(w) \/ (w \in Loops /\ LoopSteps(w))
    PROVE  /\ \E k \in Tasks : task' = [task EXCEPT ![w] = k] /\ Synced(w, k)
           /\ inventory' = inventory \/ inventory' = inventory \cup {task[w].client}
           /\ task[w].client \in Clients
           /\ UNCHANGED <<stored, live, checked, raced, booted, requests, faults>>
<1> USE DEF settings, bounds
<1> task[w] \in Tasks
    BY DEF TypeOK
<1>1. CASE Fetch(w)
    <2> DEFINE k == [task[w] EXCEPT !.pc = "write", !.late = FALSE]
    <2>1. [task[w] EXCEPT !.pc = "write"] \in Tasks
        BY TaskField DEF Stops
    <2>2. k \in Tasks
        BY <2>1, TaskField
    <2>3. Synced(w, k)
        BY <1>1 DEF Fetch, Synced, Tasks
    <2>4. task' = [task EXCEPT ![w] = k]
        BY <1>1 DEF Fetch
    <2>5. task[w].client \in Clients
        BY <1>1 DEF Fetch, Stages, Tasks
    <2> QED BY <1>1, <2>2, <2>3, <2>4, <2>5 DEF Fetch
<1>2. CASE FetchFails(w) \/ Write(w) \/ WriteFails(w)
    <2>1. task' = [task EXCEPT ![w] = Rested(w)] /\ task[w].pc \in {"fetch", "write"}
        BY <1>2 DEF FetchFails, Write, WriteFails
    <2>2. Synced(w, Rested(w)) /\ Rested(w) \in Tasks
        BY <2>1, RestedType DEF Synced
    <2>3. task[w].client \in Clients
        BY <2>1 DEF Stages, Tasks
    <2> QED BY <1>2, <2>1, <2>2, <2>3 DEF FetchFails, Write, WriteFails
<1>3. CASE w \in Loops /\ Wake(w)
    <2> DEFINE k == [Syncing(task[w].client) EXCEPT !.cancelled = task[w].cancelled]
    <2>1. task[w].client \in Clients /\ task[w].cancelled \in BOOLEAN
        BY <1>3 DEF Wake, Stages, Tasks
    <2>2. k \in Tasks
        BY <2>1, SyncingType, TaskField
    <2>3. k.pc = "fetch" /\ k.client = task[w].client /\ k.cancelled = task[w].cancelled
        BY <2>1, SyncingType DEF Tasks
    <2>4. Synced(w, k)
        BY <1>3, <2>3 DEF Wake, Synced
    <2>5. task' = [task EXCEPT ![w] = k]
        BY <1>3 DEF Wake
    <2> QED BY <1>3, <2>1, <2>2, <2>4, <2>5 DEF Wake
<1>4. CASE w \in Loops /\ LoopEnds(w)
    <2>1. Synced(w, Idle)
        BY <1>4 DEF LoopEnds, Synced, Idle
    <2>2. task[w].client \in Clients
        BY <1>4 DEF LoopEnds, Stages, Tasks
    <2> QED BY <1>4, <2>1, <2>2, IdleType DEF LoopEnds
<1> QED BY <1>1, <1>2, <1>3, <1>4 DEF SyncSteps, LoopSteps

(* The settings a request works with: the merged ones, or what was stored.  *)
LEMMA MergedType ==
    ASSUME TypeOK, NEW body \in Bodies
    PROVE  Merged(body) \in Settings
<1> DEFINE sec == IF body.secret = NoSecret THEN KnownSecret ELSE body.secret
           in == [body EXCEPT !.secret = sec]
           on == body.enabled /\ Complete(in)
<1>1. body \in Settings
    BY NamesAssumption DEF Settings
<1>2. sec \in Secrets \cup {NoSecret}
    BY <1>1 DEF KnownSecret, TypeOK, Settings
<1>3. in \in Settings
    BY <1>1, <1>2 DEF Settings
<1>4. on \in BOOLEAN
    BY <1>1 DEF Complete, Settings
<1>5. in.enabled = body.enabled
    BY <1>1 DEF Settings
<1> HIDE DEF in, on
<1>6. [in EXCEPT !.enabled = on] \in Settings
    BY <1>3, <1>4 DEF Settings
<1>7. Merged(body) = [in EXCEPT !.enabled = on]
    BY <1>5 DEF Merged, in, on
<1> QED BY <1>6, <1>7

(* What Reconfigure takes up: to be checked exactly if it enables.          *)
LEMMA ReconfigureStep ==
    ASSUME TypeOK, NEW t \in Requests, NEW body \in Bodies, Reconfigure(t, body)
    PROVE  \E k \in Tasks :
              /\ task' = [task EXCEPT ![t] = k]
              /\ k.pc \in {"check", "save"} /\ k.in \in Settings /\ k.client = Null
              /\ k.pc = "save" => ~k.in.enabled
<1> DEFINE m == Merged(body)
           p == IF m.enabled THEN "check" ELSE "save"
           b == body.secret = NoSecret
           k1 == [Idle EXCEPT !.pc = p]
           k2 == [k1 EXCEPT !.in = m]
           k3 == [k2 EXCEPT !.blank = b]
<1>1. m \in Settings /\ p \in {"check", "save"} /\ b \in BOOLEAN
    BY MergedType
<1>2. p = "save" => ~m.enabled
    BY <1>1 DEF Settings
<1>3. task' = [task EXCEPT ![t] = k3]
    BY DEF Reconfigure
<1> HIDE DEF m, p, b
<1>4. k1 \in Tasks /\ k1.pc = p /\ k1.client = Null
    BY <1>1, IdleType, TaskField DEF Idle, Stops
<1> HIDE DEF k1
<1>5. k2 \in Tasks /\ k2.pc = p /\ k2.client = Null /\ k2.in = m
    BY <1>1, <1>4, TaskField DEF Tasks
<1> HIDE DEF k2
<1>6. k3 \in Tasks /\ k3.pc = p /\ k3.client = Null /\ k3.in = m
    BY <1>1, <1>5, TaskField DEF Tasks
<1> HIDE DEF k3
<1> QED BY <1>1, <1>2, <1>3, <1>6

(* apply with settings s: the old loop is cancelled, and if there is to be  *)
(* a new one it is the only one left, with a client of these settings.      *)
LEMMA Applied ==
    ASSUME TypeOK, OneLiveTenant, NEW s \in Settings, NEW tasks \in [Workers -> Tasks],
           \A l \in Loops : tasks[l] = task[l],
           ApplySettings(s, tasks)
    PROVE  /\ OneLiveTenant'
           /\ live' \in [settings : Settings \cup {Null}, enabled : BOOLEAN,
                         client : Clients \cup {Null}, loop : Loops \cup {Null}]
           /\ live'.settings = s
           /\ task' \in [Workers -> Tasks]
           /\ \A w \in Workers :
                 \/ /\ task'[w].pc = tasks[w].pc /\ task'[w].in = tasks[w].in
                    /\ task'[w].client = tasks[w].client
                 \/ /\ w \in Loops /\ task'[w].pc = "fetch"
                    /\ task'[w].client = ClientOf(s) /\ s.enabled
                    /\ ClientOf(s) \in Clients
<1> DEFINE stopped == [w \in Workers |-> IF w = live.loop THEN Cancelled(task[w]) ELSE tasks[w]]
<1> Loops \subseteq Workers /\ live.loop \in Loops \cup {Null} /\ Null \notin Workers
    BY NamesAssumption DEF Workers, TypeOK
<1>1. stopped \in [Workers -> Tasks]
    BY CancelledType DEF TypeOK
<1>2. \A w \in Workers : /\ stopped[w].pc = tasks[w].pc /\ stopped[w].in = tasks[w].in
                         /\ stopped[w].client = tasks[w].client
    BY CancelledType DEF TypeOK
<1>3. ASSUME NEW l \in Loops, stopped[l].pc # "idle"
      PROVE  stopped[l].cancelled
    <2>1. CASE l = live.loop
        BY <2>1, CancelledType DEF TypeOK
    <2>2. CASE l # live.loop
        BY <1>3, <2>2 DEF OneLiveTenant
    <2> QED BY <2>1, <2>2
<1>4. CASE ~(s.enabled /\ Complete(s))
    <2>1. /\ live' = [settings |-> s, enabled |-> FALSE, client |-> Null, loop |-> Null]
          /\ task' = stopped
        BY <1>4 DEF ApplySettings
    <2> HIDE DEF stopped
    <2>2. OneLiveTenant'
        BY <1>3, <2>1 DEF OneLiveTenant
    <2> QED BY <1>1, <1>2, <2>1, <2>2
<1>5. CASE s.enabled /\ Complete(s)
    <2>1. PICK l \in Loops :
              /\ task[l].pc = "idle"
              /\ live' = [settings |-> s, enabled |-> TRUE, client |-> ClientOf(s), loop |-> l]
              /\ task' = [stopped EXCEPT ![l] = Syncing(ClientOf(s))]
        BY <1>5 DEF ApplySettings
    <2> HIDE DEF stopped
    <2>2. ClientOf(s) \in Clients
        BY <1>5 DEF Settings, Clients, ClientOf, Complete
    <2>3. task' \in [Workers -> Tasks]
        BY <1>1, <2>1, <2>2, SyncingType
    <2>4. /\ task'[l].pc = "fetch" /\ task'[l].client = ClientOf(s) /\ ~task'[l].cancelled
          /\ \A w \in Workers : w # l => task'[w] = stopped[w]
        BY <1>1, <2>1, <2>2, SyncingType
    <2>5. OneLiveTenant'
        <3>1. live'.enabled /\ live'.client = ClientOf(s) /\ live'.loop = l /\ live'.settings = s
            BY <2>1
        <3>2. {k \in Loops : task'[k].pc # "idle" /\ ~task'[k].cancelled} = {l}
            BY <1>3, <2>4
        <3>3. l # Null /\ ClientOf(s) # Null
            BY <2>2, NamesAssumption
        <3> QED BY <1>5, <2>4, <3>1, <3>2, <3>3 DEF OneLiveTenant
    <2>6. live' \in [settings : Settings \cup {Null}, enabled : BOOLEAN,
                     client : Clients \cup {Null}, loop : Loops \cup {Null}]
        BY <2>1, <2>2
    <2> QED BY <1>2, <1>5, <2>1, <2>2, <2>3, <2>4, <2>5, <2>6
<1> QED BY <1>4, <1>5


-----------------------------------------------------------------------------
(* The invariant is kept by each kind of step.                              *)

LEMMA LiveFrame ==
    ASSUME OneLiveTenant, TypeOK, live' = live, \A l \in Loops : task'[l] = task[l]
    PROVE  OneLiveTenant'
<1>1. live.loop # Null => task'[live.loop] = task[live.loop]
    BY DEF TypeOK
<1>2. {l \in Loops : task'[l].pc # "idle" /\ ~task'[l].cancelled}
          = {l \in Loops : task[l].pc # "idle" /\ ~task[l].cancelled}
    OBVIOUS
<1> QED BY <1>1, <1>2 DEF OneLiveTenant

LEMMA LiveChecked ==
    ASSUME IInv, live.client # Null
    PROVE  Credential(live.client) \in checked
<1>1. /\ live.settings \in Settings /\ live.settings.enabled
      /\ live.client = ClientOf(live.settings)
    BY DEF IInv, Stages, OneLiveTenant
<1>2. Credential(live.settings) \in checked
    BY <1>1 DEF IInv, Checked, Accepted
<1> QED BY <1>1, <1>2 DEF Credential, ClientOf

LEMMA SyncKeeps ==
    ASSUME IInv, NEW w \in Workers, SyncSteps(w) \/ (w \in Loops /\ LoopSteps(w))
    PROVE  IInv'
<1> TypeOK /\ Stages
    BY DEF IInv
<1>1. /\ inventory' = inventory \/ inventory' = inventory \cup {task[w].client}
      /\ task[w].client \in Clients /\ task[w].client # Null
      /\ UNCHANGED <<stored, live, checked, raced, booted, requests, faults>>
    BY SyncStep, NamesAssumption
<1>2. PICK k \in Tasks : task' = [task EXCEPT ![w] = k] /\ Synced(w, k)
    BY SyncStep
<1>3. booted
    BY <1>2 DEF IInv, NotStarted, Synced, Idle
<1>4. TypeOK'
    BY <1>1, <1>2, TaskStep DEF TypeOK
<1>5. NotStarted'
    BY <1>1, <1>3 DEF NotStarted
<1>6. Stages'
    BY <1>1, <1>2 DEF Stages, Synced, TypeOK
<1>7. OneLiveTenant'
    <2>1. CASE w \notin Loops
        <3>1. \A l \in Loops : task'[l] = task[l]
            BY <1>2, <2>1 DEF TypeOK, Workers
        <3> QED BY <1>1, <3>1, LiveFrame DEF IInv
    <2>2. CASE w \in Loops
        <3>1. \A l \in Loops : /\ task'[l].pc # "idle" /\ ~task'[l].cancelled
                                    <=> task[l].pc # "idle" /\ ~task[l].cancelled
                               /\ task'[l].pc # "idle" => task'[l].client = task[l].client
            BY <1>2, <2>2 DEF Synced, TypeOK, Workers
        <3>2. {l \in Loops : task'[l].pc # "idle" /\ ~task'[l].cancelled}
                  = {l \in Loops : task[l].pc # "idle" /\ ~task[l].cancelled}
            BY <3>1
        <3> QED BY <1>1, <3>1, <3>2 DEF OneLiveTenant, IInv, TypeOK
    <2> QED BY <2>1, <2>2
<1>8. Checked'
    BY <1>1, <1>2 DEF IInv, Checked, Accepted, Synced, TypeOK
<1>9. Agree'
    BY <1>1, <1>2 DEF IInv, Agree, Synced, TypeOK, Workers
<1> QED BY <1>4, <1>5, <1>6, <1>7, <1>8, <1>9 DEF IInv

(* A request that leaves the connector as it is and goes on with k.         *)
LEMMA RequestFrame ==
    ASSUME IInv, NEW t \in Requests, NEW k \in Tasks,
           task' = [task EXCEPT ![t] = k], UNCHANGED <<live, inventory, booted>>, booted
    PROVE  /\ task' \in [Workers -> Tasks] /\ NotStarted' /\ OneLiveTenant'
           /\ task'[t] = k /\ \A w \in Workers : w # t => task'[w] = task[w]
<1>1. t \in Workers /\ t \notin Loops /\ Loops \subseteq Workers
    BY NamesAssumption DEF Workers
<1>2. /\ task' \in [Workers -> Tasks]
      /\ task'[t] = k /\ \A w \in Workers : w # t => task'[w] = task[w]
    BY <1>1 DEF IInv, TypeOK
<1>3. NotStarted'
    BY DEF NotStarted
<1>4. OneLiveTenant'
    BY <1>1, <1>2, LiveFrame DEF IInv
<1> QED BY <1>2, <1>3, <1>4

LEMMA ReconfigureKeeps ==
    ASSUME IInv, NEW t \in Requests, NEW body \in Bodies, Reconfigure(t, body)
    PROVE  IInv'
<1> USE DEF settings
<1>1. PICK k \in Tasks :
          /\ task' = [task EXCEPT ![t] = k]
          /\ k.pc \in {"check", "save"} /\ k.in \in Settings /\ k.client = Null
          /\ k.pc = "save" => ~k.in.enabled
    BY ReconfigureStep DEF IInv
<1>2. /\ UNCHANGED <<stored, live, checked, raced, inventory, booted, faults>> /\ booted
      /\ requests' = requests + 1 /\ requests < MaxRequests /\ task[t].pc = "idle"
    BY DEF Reconfigure, Request
<1>3. /\ task' \in [Workers -> Tasks] /\ NotStarted' /\ OneLiveTenant'
      /\ task'[t] = k /\ \A w \in Workers : w # t => task'[w] = task[w]
    BY <1>1, <1>2, RequestFrame
<1>4. TypeOK'
    BY <1>2, <1>3, BoundsAssumption DEF IInv, TypeOK
<1>5. Stages'
    BY <1>1, <1>2, <1>3 DEF IInv, Stages
<1>6. Checked'
    BY <1>1, <1>2, <1>3 DEF IInv, Checked, Accepted
<1>7. Agree'
    BY <1>1, <1>2, <1>3 DEF IInv, Agree, Workers
<1> QED BY <1>3, <1>4, <1>5, <1>6, <1>7 DEF IInv

LEMMA SyncNowKeeps ==
    ASSUME IInv, NEW t \in Requests, SyncNow(t)
    PROVE  IInv'
<1> USE DEF settings
<1> DEFINE k == Syncing(live.client)
<1>1. live.client \in Clients /\ live.client # Null
    BY DEF SyncNow, IInv, TypeOK
<1>2. k \in Tasks /\ k.pc = "fetch" /\ k.client = live.client
    BY <1>1, SyncingType
<1>3. /\ UNCHANGED <<stored, live, checked, raced, inventory, booted, faults>> /\ booted
      /\ requests' = requests + 1 /\ requests < MaxRequests /\ task[t].pc = "idle"
      /\ task' = [task EXCEPT ![t] = k]
    BY DEF SyncNow, Request
<1>4. Credential(live.client) \in checked
    BY <1>1, LiveChecked
<1> HIDE DEF k
<1>5. /\ task' \in [Workers -> Tasks] /\ NotStarted' /\ OneLiveTenant'
      /\ task'[t] = k /\ \A w \in Workers : w # t => task'[w] = task[w]
    BY <1>2, <1>3, RequestFrame
<1>6. TypeOK'
    BY <1>3, <1>5, BoundsAssumption DEF IInv, TypeOK
<1>7. Stages'
    BY <1>1, <1>2, <1>3, <1>5 DEF IInv, Stages
<1>8. Checked'
    BY <1>2, <1>3, <1>4, <1>5 DEF IInv, Checked, Accepted
<1>9. Agree'
    BY <1>2, <1>3, <1>5 DEF IInv, Agree, Workers
<1> QED BY <1>5, <1>6, <1>7, <1>8, <1>9 DEF IInv

LEMMA CheckOkKeeps ==
    ASSUME IInv, NEW t \in Requests, CheckOk(t)
    PROVE  IInv'
<1> USE DEF bounds
<1> DEFINE k == [task[t] EXCEPT !.pc = "save"]
<1> t \in Workers
    BY DEF Workers
<1>1. task[t] \in Tasks /\ task[t].pc = "check" /\ task[t].in \in Settings
    BY DEF CheckOk, IInv, TypeOK, Stages
<1>2. k \in Tasks /\ k.pc = "save" /\ k.in = task[t].in /\ k.client = task[t].client
    BY <1>1, TaskField DEF Tasks, Stops
<1>3. /\ UNCHANGED <<stored, live, raced, inventory, booted, requests, faults>>
      /\ task' = [task EXCEPT ![t] = k]
      /\ checked' = checked \cup {Credential(task[t].in)}
    BY DEF CheckOk
<1>4. booted
    BY <1>1 DEF IInv, NotStarted, Idle
<1>5. Credential(task[t].in) \in Keys \X Secrets
    <2>1. Credential(task[t].in)[2] = SecretOf[Credential(task[t].in)[1]]
        BY DEF CheckOk, Good
    <2>2. task[t].in.key \in Keys /\ task[t].in.secret = SecretOf[task[t].in.key]
        BY <1>1, <2>1 DEF Credential, Settings
    <2> QED BY <2>2, NamesAssumption DEF Credential
<1> HIDE DEF k
<1>6. /\ task' \in [Workers -> Tasks] /\ NotStarted' /\ OneLiveTenant'
      /\ task'[t] = k /\ \A w \in Workers : w # t => task'[w] = task[w]
    BY <1>2, <1>3, <1>4, RequestFrame
<1>7. TypeOK'
    BY <1>3, <1>5, <1>6 DEF IInv, TypeOK
<1>8. Stages'
    BY <1>1, <1>2, <1>3, <1>6 DEF IInv, Stages
<1>9. Checked'
    BY <1>1, <1>2, <1>3, <1>6 DEF IInv, Checked, Accepted
<1>10. Agree'
    BY <1>1, <1>2, <1>3, <1>6 DEF IInv, Agree, Workers
<1> QED BY <1>6, <1>7, <1>8, <1>9, <1>10 DEF IInv

LEMMA CheckFailsKeeps ==
    ASSUME IInv, NEW t \in Requests, CheckFails(t)
    PROVE  IInv'
<1> USE DEF bounds, settings
<1>1. task[t].pc = "check" /\ t \in Workers
    BY DEF CheckFails, Workers
<1>2. /\ UNCHANGED <<stored, live, raced, checked, inventory, booted, requests, faults>>
      /\ task' = [task EXCEPT ![t] = Idle]
    BY DEF CheckFails
<1>3. booted
    BY <1>1 DEF IInv, NotStarted, Idle
<1>4. Idle.pc = "idle" /\ Idle.client = Null
    BY DEF Idle
<1>5. /\ task' \in [Workers -> Tasks] /\ NotStarted' /\ OneLiveTenant'
      /\ task'[t] = Idle /\ \A w \in Workers : w # t => task'[w] = task[w]
    BY <1>2, <1>3, IdleType, RequestFrame
<1>6. TypeOK'
    BY <1>2, <1>5 DEF IInv, TypeOK
<1>7. Stages'
    BY <1>2, <1>4, <1>5 DEF IInv, Stages
<1>8. Checked'
    BY <1>2, <1>4, <1>5 DEF IInv, Checked, Accepted
<1>9. Agree'
    BY <1>1, <1>2, <1>4, <1>5 DEF IInv, Agree, Workers
<1> QED BY <1>5, <1>6, <1>7, <1>8, <1>9 DEF IInv

LEMMA SaveKeeps ==
    ASSUME IInv, NEW t \in Requests, Save(t)
    PROVE  IInv'
<1> USE DEF bounds
<1> DEFINE k == [task[t] EXCEPT !.pc = "apply"]
<1> t \in Workers
    BY DEF Workers
<1>1. task[t] \in Tasks /\ task[t].pc = "save" /\ task[t].in \in Settings
    BY DEF Save, IInv, TypeOK, Stages
<1>2. k \in Tasks /\ k.pc = "apply" /\ k.in = task[t].in /\ k.client = task[t].client
    BY <1>1, TaskField DEF Tasks, Stops
<1>3. /\ UNCHANGED <<live, checked, inventory, booted, requests, faults>>
      /\ task' = [task EXCEPT ![t] = k]
      /\ stored' = task[t].in
      /\ raced' = (raced \/ Overlaps(t))
    BY DEF Save
<1>4. booted
    BY <1>1 DEF IInv, NotStarted, Idle
<1> HIDE DEF k
<1>5. /\ task' \in [Workers -> Tasks] /\ NotStarted' /\ OneLiveTenant'
      /\ task'[t] = k /\ \A w \in Workers : w # t => task'[w] = task[w]
    BY <1>2, <1>3, <1>4, RequestFrame
<1>6. TypeOK'
    BY <1>1, <1>3, <1>5 DEF IInv, TypeOK
<1>7. Stages'
    BY <1>1, <1>2, <1>3, <1>5 DEF IInv, Stages
<1>8. Checked'
    BY <1>1, <1>2, <1>3, <1>5 DEF IInv, Checked, Accepted
<1>9. Agree'
    <2>1. ~raced' => ~raced /\ \A u \in Requests \ {t} : task[u].pc # "apply"
        BY <1>3 DEF Overlaps
    <2> QED BY <1>2, <1>3, <1>5, <2>1 DEF IInv, Agree, Workers
<1> QED BY <1>5, <1>6, <1>7, <1>8, <1>9 DEF IInv

LEMMA SaveFailsKeeps ==
    ASSUME IInv, NEW t \in Requests, SaveFails(t)
    PROVE  IInv'
<1> t \in Workers
    BY DEF Workers
<1>1. task[t].pc = "save" /\ task[t].in \in Settings /\ Accepted(task[t].in)
    BY DEF SaveFails, IInv, Stages, Checked
<1>2. /\ UNCHANGED <<live, checked, inventory, booted, requests>>
      /\ faults < MaxFaults /\ faults' = faults + 1
      /\ task' = [task EXCEPT ![t] = Idle]
      /\ (stored' = stored /\ raced' = raced) \/ (stored' = task[t].in /\ raced' = TRUE)
    BY DEF SaveFails, Fault
<1>3. booted
    BY <1>1 DEF IInv, NotStarted, Idle
<1>4. Idle.pc = "idle" /\ Idle.client = Null
    BY DEF Idle
<1>5. /\ task' \in [Workers -> Tasks] /\ NotStarted' /\ OneLiveTenant'
      /\ task'[t] = Idle /\ \A w \in Workers : w # t => task'[w] = task[w]
    BY <1>2, <1>3, IdleType, RequestFrame
<1>6. TypeOK'
    <2>1. stored' \in Settings \cup {Null} /\ raced' \in BOOLEAN
        BY <1>1, <1>2 DEF IInv, TypeOK
    <2>2. faults' \in 0..MaxFaults
        BY <1>2, BoundsAssumption DEF IInv, TypeOK
    <2> QED BY <1>2, <1>5, <2>1, <2>2 DEF IInv, TypeOK
<1>7. Stages'
    BY <1>2, <1>4, <1>5 DEF IInv, Stages
<1>8. Checked'
    BY <1>1, <1>2, <1>4, <1>5 DEF IInv, Checked, Accepted
<1>9. Agree'
    BY <1>1, <1>2, <1>4, <1>5 DEF IInv, Agree, Workers
<1> QED BY <1>5, <1>6, <1>7, <1>8, <1>9 DEF IInv

(* Settings that are applied, at a start or by a request, are stored or at  *)
(* least accepted by then.                                                  *)
LEMMA ApplyFrame ==
    ASSUME IInv, NEW s \in Settings, NEW tasks \in [Workers -> Tasks],
           \A w \in Workers : tasks[w] = task[w] \/ (tasks[w] = Idle /\ w \in Requests),
           ApplySettings(s, tasks),
           s.enabled => Credential(s) \in checked',
           checked \subseteq checked',
           stored' = stored \/ stored' = s, booted', inventory' = inventory
    PROVE  /\ task' \in [Workers -> Tasks]
           /\ live' \in [settings : Settings \cup {Null}, enabled : BOOLEAN,
                         client : Clients \cup {Null}, loop : Loops \cup {Null}]
           /\ live'.settings = s
           /\ \A t \in Requests : task'[t].pc = tasks[t].pc /\ task'[t].in = tasks[t].in
           /\ NotStarted' /\ Stages' /\ OneLiveTenant' /\ Checked'
<1>1. \A l \in Loops : tasks[l] = task[l]
    BY NamesAssumption DEF Workers
<1>2. /\ OneLiveTenant' /\ live'.settings = s
      /\ live' \in [settings : Settings \cup {Null}, enabled : BOOLEAN,
                    client : Clients \cup {Null}, loop : Loops \cup {Null}]
      /\ task' \in [Workers -> Tasks]
      /\ \A w \in Workers :
            \/ /\ task'[w].pc = tasks[w].pc /\ task'[w].in = tasks[w].in
               /\ task'[w].client = tasks[w].client
            \/ /\ w \in Loops /\ task'[w].pc = "fetch"
               /\ task'[w].client = ClientOf(s) /\ s.enabled
               /\ ClientOf(s) \in Clients
    BY <1>1, Applied DEF IInv
<1>3. \A t \in Requests : t \in Workers /\ t \notin Loops
    BY NamesAssumption DEF Workers
<1>4. \A t \in Requests : task'[t].pc = tasks[t].pc /\ task'[t].in = tasks[t].in
    BY <1>2, <1>3
<1>5. NotStarted'
    BY DEF NotStarted
<1>6. Idle.pc = "idle" /\ Idle.client = Null
    BY DEF Idle
<1>7. Null \notin Clients
    BY NamesAssumption
<1>8. s.enabled => Credential(ClientOf(s)) \in checked'
    BY DEF Credential, ClientOf
<1>9. Stages'
    BY <1>2, <1>6, <1>7 DEF IInv, Stages
<1>10. Checked'
    <2>1. ASSUME NEW w \in Workers
          PROVE  /\ task'[w].pc \in {"save", "apply"} => Accepted(task[w].in)
                                                      /\ task'[w].in = task[w].in
                 /\ task'[w].client # Null => Credential(task'[w].client) \in checked'
        <3>1. /\ task[w].pc \in {"save", "apply"} => Accepted(task[w].in)
              /\ task[w].client # Null => Credential(task[w].client) \in checked
            BY DEF IInv, Checked
        <3>2. CASE /\ task'[w].pc = tasks[w].pc /\ task'[w].in = tasks[w].in
                   /\ task'[w].client = tasks[w].client
            BY <1>6, <3>1, <3>2
        <3>3. CASE /\ task'[w].pc = "fetch" /\ task'[w].client = ClientOf(s)
                   /\ s.enabled /\ ClientOf(s) \in Clients
            BY <1>8, <3>3
        <3> QED BY <1>2, <3>2, <3>3
    <2>2. Accepted(stored)' /\ Accepted(live.settings)'
        BY <1>2 DEF IInv, Checked, Accepted
    <2> QED BY <2>1, <2>2 DEF IInv, Checked, Accepted
<1> QED BY <1>2, <1>4, <1>5, <1>9, <1>10

LEMMA ApplyKeeps ==
    ASSUME IInv, NEW t \in Requests, Apply(t)
    PROVE  IInv'
<1> USE DEF bounds
<1> DEFINE tasks == [task EXCEPT ![t] = Idle]
<1> t \in Workers
    BY DEF Workers
<1>1. PICK s \in Settings : s = task[t].in
    BY DEF Apply, IInv, Stages
<1>2. /\ UNCHANGED <<stored, checked, raced, inventory, booted, requests, faults>>
      /\ ApplySettings(s, tasks) /\ task[t].pc = "apply"
    BY <1>1 DEF Apply
<1>3. booted
    BY <1>2 DEF IInv, NotStarted, Idle
<1>4. tasks \in [Workers -> Tasks]
    BY IdleType DEF IInv, TypeOK
<1>5. tasks[t] = Idle /\ \A w \in Workers : w # t => tasks[w] = task[w]
    BY DEF IInv, TypeOK
<1> HIDE DEF tasks
<1>6. s.enabled => Credential(s) \in checked
    BY <1>1, <1>2 DEF IInv, Checked, Accepted
<1>8. /\ task' \in [Workers -> Tasks]
      /\ live' \in [settings : Settings \cup {Null}, enabled : BOOLEAN,
                    client : Clients \cup {Null}, loop : Loops \cup {Null}]
      /\ live'.settings = s
      /\ \A u \in Requests : task'[u].pc = tasks[u].pc /\ task'[u].in = tasks[u].in
      /\ NotStarted' /\ Stages' /\ OneLiveTenant' /\ Checked'
    BY <1>2, <1>3, <1>4, <1>5, <1>6, ApplyFrame
<1>9. TypeOK'
    BY <1>2, <1>8 DEF IInv, TypeOK
<1>10. Agree'
    <2>1. Idle.pc = "idle" /\ \A u \in Requests : u \in Workers
        BY DEF Idle, Workers
    <2> QED BY <1>1, <1>2, <1>5, <1>8, <2>1 DEF IInv, Agree
<1> QED BY <1>8, <1>9, <1>10 DEF IInv

(* Start finds nothing running.                                             *)
LEMMA StartKeeps ==
    ASSUME IInv, Start
    PROVE  IInv'
<1> USE DEF bounds, settings
<1>1. /\ ~booted /\ booted' /\ live = Down /\ ~raced
      /\ \A w \in Workers : task[w] = Idle
      /\ booted' = TRUE
    BY DEF Start, StartStored, StartEnv, StartUnconfigured, StartFails, IInv, NotStarted
<1>2. Idle.pc = "idle" /\ \A t \in Requests : t \in Workers
    BY DEF Idle, Workers
<1>3. task \in [Workers -> Tasks]
    BY DEF IInv, TypeOK
<1>4. /\ faults \in 0..MaxFaults /\ MaxFaults \in Nat
      /\ stored \in Settings \cup {Null} /\ raced \in BOOLEAN
    BY BoundsAssumption DEF IInv, TypeOK
<1>5. CASE StartStored
    <2>1. PICK s \in Settings : s = stored
        BY <1>5 DEF StartStored, IInv, TypeOK
    <2>2. /\ UNCHANGED <<stored, inventory, checked, raced, requests, faults>>
          /\ ApplySettings(s, task)
        BY <1>5, <2>1 DEF StartStored
    <2>3. s.enabled => Credential(s) \in checked
        BY <2>1 DEF IInv, Checked, Accepted
    <2>4. /\ task' \in [Workers -> Tasks]
          /\ live' \in [settings : Settings \cup {Null}, enabled : BOOLEAN,
                        client : Clients \cup {Null}, loop : Loops \cup {Null}]
          /\ live'.settings = s
          /\ \A u \in Requests : task'[u].pc = task[u].pc /\ task'[u].in = task[u].in
          /\ NotStarted' /\ Stages' /\ OneLiveTenant' /\ Checked'
        BY <1>1, <1>3, <2>2, <2>3, ApplyFrame
    <2>5. TypeOK'
        BY <1>1, <2>2, <2>4 DEF IInv, TypeOK
    <2>6. Agree'
        BY <1>1, <1>2, <2>1, <2>2, <2>4 DEF Agree
    <2> QED BY <2>4, <2>5, <2>6 DEF IInv
<1>6. CASE StartEnv
    <2>1. PICK e \in Environments \ {Null} :
              /\ checked' = checked \cup {Credential(e)}
              /\ \/ stored' = EnvSettings(e) /\ UNCHANGED <<raced, faults>>
                 \/ Fault /\ UNCHANGED stored /\ raced' = TRUE
              /\ ApplySettings(EnvSettings(e), task)
        BY <1>6 DEF StartEnv
    <2>2. e \in Clients
        BY NamesAssumption
    <2>3. PICK s \in Settings : s = EnvSettings(e)
        BY <2>2 DEF EnvSettings, Settings, Clients
    <2>4. s.enabled /\ Credential(s) = Credential(e)
        BY <2>3 DEF EnvSettings, Credential
    <2>5. /\ UNCHANGED <<inventory, requests>> /\ ApplySettings(s, task)
          /\ stored' = stored \/ stored' = s
        BY <1>6, <2>1, <2>3 DEF StartEnv
    <2>6. checked \subseteq checked'
        BY <2>1
    <2>7. s.enabled => Credential(s) \in checked'
        BY <2>1, <2>4
    <2>8. /\ task' \in [Workers -> Tasks]
          /\ live' \in [settings : Settings \cup {Null}, enabled : BOOLEAN,
                        client : Clients \cup {Null}, loop : Loops \cup {Null}]
          /\ live'.settings = s
          /\ \A u \in Requests : task'[u].pc = task[u].pc /\ task'[u].in = task[u].in
          /\ NotStarted' /\ Stages' /\ OneLiveTenant' /\ Checked'
        BY <1>1, <1>3, <2>5, <2>6, <2>7, ApplyFrame
    <2>9. stored' \in Settings \cup {Null} /\ raced' \in BOOLEAN /\ faults' \in 0..MaxFaults
        <3>1. raced' \in BOOLEAN
            BY <1>4, <2>1, Zenon
        <3>2. faults' = faults \/ (faults < MaxFaults /\ faults' = faults + 1)
            BY <2>1 DEF Fault
        <3> QED BY <1>4, <2>5, <3>1, <3>2
    <2>10. checked' \subseteq Keys \X Secrets
        BY <2>1, <2>2 DEF IInv, TypeOK, Credential, Clients
    <2>11. TypeOK'
        BY <1>1, <2>5, <2>8, <2>9, <2>10 DEF IInv, TypeOK
    <2>12. Agree'
        BY <1>1, <1>2, <2>1, <2>3, <2>8 DEF Agree
    <2> QED BY <2>8, <2>11, <2>12 DEF IInv
<1>7. CASE StartUnconfigured \/ StartFails
    <2>1. /\ UNCHANGED <<stored, live, task, inventory, checked, requests>>
          /\ \/ raced' = raced /\ faults' = faults /\ stored = Null
             \/ raced' = TRUE /\ Fault
        BY <1>7 DEF StartUnconfigured, StartFails
    <2>2. raced' \in BOOLEAN /\ faults' \in 0..MaxFaults
        <3>1. raced' \in BOOLEAN
            BY <1>4, <2>1, Zenon
        <3>2. faults' = faults \/ (faults < MaxFaults /\ faults' = faults + 1)
            BY <2>1 DEF Fault
        <3> QED BY <1>4, <3>1, <3>2
    <2>3. TypeOK'
        BY <1>1, <2>1, <2>2 DEF IInv, TypeOK
    <2>4. NotStarted' /\ Stages'
        BY <1>1, <2>1 DEF IInv, NotStarted, Stages
    <2>5. OneLiveTenant'
        BY <2>1, LiveFrame DEF IInv
    <2>6. Checked'
        BY <2>1 DEF IInv, Checked, Accepted
    <2>7. Agree'
        BY <1>1, <1>2, <2>1 DEF Agree, Down
    <2> QED BY <2>3, <2>4, <2>5, <2>6, <2>7 DEF IInv
<1> QED BY <1>5, <1>6, <1>7 DEF Start

LEMMA NothingRuns ==
    ASSUME live = Down, task = [w \in Workers |-> Idle]
    PROVE  /\ task \in [Workers -> Tasks] /\ OneLiveTenant /\ Stages
           /\ live \in [settings : Settings \cup {Null}, enabled : BOOLEAN,
                        client : Clients \cup {Null}, loop : Loops \cup {Null}]
<1>1. \A w \in Workers : task[w].pc = "idle"
    BY DEF Idle
<1>2. Loops \subseteq Workers
    BY DEF Workers
<1>3. OneLiveTenant
    BY <1>1, <1>2 DEF OneLiveTenant, Down
<1>4. Stages
    BY <1>1 DEF Stages, Down
<1> QED BY <1>3, <1>4, IdleType DEF Down

LEMMA RestartKeeps ==
    ASSUME IInv, Restart
    PROVE  IInv'
<1>1. /\ booted' = FALSE /\ live' = Down /\ task' = [w \in Workers |-> Idle]
      /\ ~raced' /\ raced' = FALSE /\ UNCHANGED <<stored, inventory, checked, requests>>
      /\ faults < MaxFaults /\ faults' = faults + 1
    BY DEF Restart, Fault
<1>2. /\ (task \in [Workers -> Tasks])' /\ OneLiveTenant' /\ Stages'
      /\ (live \in [settings : Settings \cup {Null}, enabled : BOOLEAN,
                    client : Clients \cup {Null}, loop : Loops \cup {Null}])'
    <2>1. \A w \in Workers : task'[w].pc = "idle" /\ Loops \subseteq Workers
        BY <1>1 DEF Idle, Workers
    <2>2. OneLiveTenant'
        BY <1>1, <2>1 DEF OneLiveTenant, Down, Workers
    <2>3. Stages'
        BY <1>1, <2>1 DEF Stages, Down
    <2> QED BY <1>1, <2>2, <2>3, IdleType DEF Down
<1>3. faults' \in 0..MaxFaults
    BY <1>1, BoundsAssumption DEF IInv, TypeOK
<1>4. TypeOK'
    BY <1>1, <1>2, <1>3 DEF IInv, TypeOK
<1>5. NotStarted' /\ Agree'
    BY <1>1 DEF NotStarted, Agree
<1>6. Checked'
    <2>1. Null \notin Settings /\ live'.settings = Null
        BY <1>1, NamesAssumption DEF Down
    <2>2. \A w \in Workers : task'[w].pc = "idle" /\ task'[w].client = Null
        BY <1>1 DEF Idle
    <2> QED BY <1>1, <2>1, <2>2 DEF IInv, Checked, Accepted
<1> QED BY <1>2, <1>4, <1>5, <1>6 DEF IInv

LEMMA InitIInv ==
    ASSUME Init
    PROVE  IInv
<1> USE DEF Init
<1>1. /\ task \in [Workers -> Tasks] /\ OneLiveTenant /\ Stages
      /\ live \in [settings : Settings \cup {Null}, enabled : BOOLEAN,
                   client : Clients \cup {Null}, loop : Loops \cup {Null}]
    BY NothingRuns
<1>2. TypeOK
    <2>1. requests \in 0..MaxRequests /\ faults \in 0..MaxFaults
        BY BoundsAssumption
    <2>2. inventory \subseteq Clients /\ checked \subseteq Keys \X Secrets
        BY DEF Init
    <2> HIDE DEF Init
    <2> QED BY <1>1, <2>1, <2>2 DEF Init, TypeOK
<1>3. NotStarted /\ Agree
    BY DEF NotStarted, Agree
<1>4. Null \notin Settings
    BY NamesAssumption
<1>5. Checked
    BY <1>4 DEF Checked, Accepted, Idle, Down
<1> QED BY <1>1, <1>2, <1>3, <1>5 DEF IInv

LEMMA NextIInv ==
    ASSUME IInv, [Next]_vars
    PROVE  IInv'
<1>1. CASE UNCHANGED vars
    BY <1>1 DEF vars, IInv, TypeOK, NotStarted, Stages, OneLiveTenant, Checked, Accepted, Agree
<1>2. CASE Next
    <2>1. ASSUME NEW t \in Requests,
                 (\E body \in Bodies : Reconfigure(t, body)) \/ SyncNow(t) \/ RequestSteps(t)
          PROVE  IInv'
        BY <2>1, ReconfigureKeeps, SyncNowKeeps, CheckOkKeeps, CheckFailsKeeps,
           SaveKeeps, SaveFailsKeeps, ApplyKeeps DEF RequestSteps
    <2>2. ASSUME NEW w \in Workers, SyncSteps(w)
          PROVE  IInv'
        BY <2>2, SyncKeeps
    <2>3. ASSUME NEW l \in Loops, LoopSteps(l)
          PROVE  IInv'
        BY <2>3, SyncKeeps DEF Workers
    <2> QED BY <1>2, <2>1, <2>2, <2>3, StartKeeps, RestartKeeps DEF Next
<1> QED BY <1>1, <1>2

-----------------------------------------------------------------------------
(* Every step of the connector keeps the inductive invariant.               *)
THEOREM Invariance == Spec => []IInv
<1> QED BY InitIInv, NextIInv, PTL DEF Spec

(* The connector's settings, workers and inventory have their types,        *)
(* whatever the order of requests, polls and failures.                      *)
THEOREM TypeCorrect == Spec => []TypeOK
<1>1. IInv => TypeOK
    BY DEF IInv
<1> QED BY <1>1, Invariance, PTL

(* apply, Start and restarts leave one tenant in use: a client exactly when *)
(* the settings enable it, of their tenant, and one loop that uses it.      *)
THEOREM LiveTenant == Spec => []OneLiveTenant
<1>1. IInv => OneLiveTenant
    BY DEF IInv
<1> QED BY <1>1, Invariance, PTL

(* Reconfigure enables, and a sync writes, nothing with a key and a secret  *)
(* that OpsRamp did not accept, in any order of any number of requests.     *)
THEOREM CheckedOnly == Spec => []OnlyChecked
<1>1. IInv => OnlyChecked
    <2>1. ASSUME IInv, NEW s \in {stored, live.settings} \ {Null}, s.enabled
          PROVE  Credential(s) \in checked
        <3>1. s \in Settings
            BY <2>1 DEF IInv, TypeOK
        <3> QED BY <2>1, <3>1 DEF IInv, Checked, Accepted
    <2> QED BY <2>1 DEF IInv, Checked, OnlyChecked
<1> QED BY <1>1, Invariance, PTL

(* Save and apply, in separate steps, leave in memory what a restart would  *)
(* load, unless requests overlapped there or a statement failed.            *)
THEOREM StoreAgrees == Spec => []LiveIsStored
<1>1. IInv => LiveIsStored
    BY DEF IInv, Agree, LiveIsStored
<1> QED BY <1>1, Invariance, PTL
=============================================================================

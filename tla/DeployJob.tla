------------------------------ MODULE DeployJob ------------------------------
(***************************************************************************)
(* One job of the deploy manager: StartJob records it and starts run, which *)
(* works on the hosts in goroutines of their own, at most Concurrency at a  *)
(* time, records what became of each host, counts, and at last writes the   *)
(* verdict of the job.  All statements of run share one context, which      *)
(* expires after 30 minutes; nothing takes a job up again after a restart.  *)
(*                                                                         *)
(* The operation on a host (install, probe, uninstall) is: connect, run a   *)
(* command.  Only dialling and waiting for the command obey the context;    *)
(* the SSH handshake, the tunnel and the upload do not, and may never end.  *)
(* Jobs share nothing, so there is one; its hosts are the outcome of        *)
(* ExpandTargets, in any order.  A host's row is its status: the output,    *)
(* which the second attempt to record a host drops, is left out.            *)
(***************************************************************************)
EXTENDS Naturals, FiniteSets

CONSTANTS
    Hosts,
    Concurrency,  \* Manager.concurrency
    MaxFaults     \* bound on failed statements, hangs and restarts

ASSUME HostsAssumption == IsFiniteSet(Hosts)
ASSUME BoundsAssumption == Concurrency \in Nat \ {0} /\ MaxFaults \in Nat

VARIABLES
    main,               \* run: "idle" (no job), "spawn", "done", "lost" (no longer runs)
    todo,               \* hosts run has not spawned a goroutine for
    slots,              \* hosts that hold a slot of sem and one of the WaitGroup
    pc,                 \* where the goroutine of a host is
    outcome,            \* HostOutcome.OK, "none" before there is one
    succeeded, failed,  \* the counters mu protects
    seen,               \* s, f: the counters a goroutine read under mu
    row,                \* the row of deploy_jobs
    results,            \* deploy_host_results.status
    expired,            \* whether the job's context has expired
    faults

local == <<main, todo, slots, outcome, succeeded, failed, seen, expired>>
vars == <<local, pc, row, results, faults>>

NoRow == [status |-> "none", succeeded |-> 0, failed |-> 0, finished |-> FALSE]

Finals == {"succeeded", "partial", "failed"}
Rows == [status : {"none", "running"} \cup Finals, succeeded : 0..Cardinality(Hosts),
         failed : 0..Cardinality(Hosts), finished : BOOLEAN]
PCs == {"none", "start", "dial", "command", "hung", "record", "retry", "count",
        "progress", "leave", "left"}

TypeOK ==
    /\ main \in {"idle", "spawn", "done", "lost"}
    /\ todo \subseteq Hosts /\ slots \subseteq Hosts
    /\ pc \in [Hosts -> PCs]
    /\ outcome \in [Hosts -> {"none", "success", "failed"}]
    /\ succeeded \in 0..Cardinality(Hosts)
    /\ failed \in 0..Cardinality(Hosts)
    /\ seen \in [Hosts -> [s : 0..Cardinality(Hosts), f : 0..Cardinality(Hosts)]]
    /\ row \in Rows
    /\ results \in [Hosts -> {"none", "pending", "running", "success", "failed"}]
    /\ expired \in BOOLEAN
    /\ faults \in 0..MaxFaults

Init ==
    /\ main = "idle"
    /\ todo = {}
    /\ slots = {}
    /\ pc = [h \in Hosts |-> "none"]
    /\ outcome = [h \in Hosts |-> "none"]
    /\ succeeded = 0
    /\ failed = 0
    /\ seen = [h \in Hosts |-> [s |-> 0, f |-> 0]]
    /\ row = NoRow
    /\ results = [h \in Hosts |-> "none"]
    /\ expired = FALSE
    /\ faults = 0

-----------------------------------------------------------------------------
(* Statements.  One with an expired context is not sent; one that fails     *)
(* with the connection may have been executed all the same.                 *)
Fault == faults < MaxFaults /\ faults' = faults + 1

Upsert(h, status) ==
    /\ ~expired
    /\ results' = [results EXCEPT ![h] = status]
    /\ UNCHANGED faults

UpsertFails(h, status) ==
    \/ expired /\ UNCHANGED <<results, faults>>
    \/ Fault /\ results' \in {results, [results EXCEPT ![h] = status]}

SetJobStatus(status, s, f, finished) ==
    LET new == [status |-> status, succeeded |-> s, failed |-> f,
                finished |-> finished \/ row.finished]
    IN  \/ ~expired /\ row' = new /\ UNCHANGED faults
        \/ expired /\ UNCHANGED <<row, faults>>
        \/ Fault /\ row' \in {row, new}

-----------------------------------------------------------------------------
Created(targets) ==
    /\ row' = [NoRow EXCEPT !.status = "running"]
    /\ results' = [h \in Hosts |-> IF h \in targets THEN "pending" ELSE "none"]

(* StartJob: the job and its hosts are recorded in one transaction.         *)
StartJob(targets) ==
    /\ main = "idle"
    /\ Created(targets)
    /\ main' = "spawn"
    /\ todo' = targets
    /\ UNCHANGED <<slots, pc, outcome, succeeded, failed, seen, expired, faults>>

(* The commit is not confirmed: the operator gets an error and no goroutine *)
(* starts, but the job may be recorded.                                     *)
StartUnconfirmed(targets) ==
    /\ Fault
    /\ main = "idle"
    /\ Created(targets) \/ UNCHANGED <<row, results>>
    /\ main' = "lost"
    /\ UNCHANGED <<todo, slots, pc, outcome, succeeded, failed, seen, expired>>

(* Mutant: the loop does not wait for a slot.                               *)
SpawnUnbounded(h) ==
    /\ main = "spawn"
    /\ h \in todo
    /\ todo' = todo \ {h}
    /\ slots' = slots \cup {h}
    /\ pc' = [pc EXCEPT ![h] = "start"]
    /\ UNCHANGED <<main, outcome, succeeded, failed, seen, row, results, expired, faults>>

(* Mutant: a host that the targets name twice is worked on twice.           *)
SpawnTwice(h) ==
    /\ main = "spawn"
    /\ h \in todo
    /\ Cardinality(slots) < Concurrency
    /\ todo' \in {todo, todo \ {h}}
    /\ slots' = slots \cup {h}
    /\ pc' = [pc EXCEPT ![h] = "start"]
    /\ UNCHANGED <<main, outcome, succeeded, failed, seen, row, results, expired, faults>>

(* run: wg.Add, and sem has room for one more goroutine.                    *)
Spawn(h) ==
    /\ main = "spawn"
    /\ h \in todo
    /\ Cardinality(slots) < Concurrency
    /\ todo' = todo \ {h}
    /\ slots' = slots \cup {h}
    /\ pc' = [pc EXCEPT ![h] = "start"]
    /\ UNCHANGED <<main, outcome, succeeded, failed, seen, row, results, expired, faults>>

-----------------------------------------------------------------------------
(* The goroutine of a host.                                                 *)
Goes(h, from, to) == pc[h] = from /\ pc' = [pc EXCEPT ![h] = to]

(* The host is recorded as running; a failure is only logged.               *)
Begin(h) ==
    /\ Goes(h, "start", "dial")
    /\ Upsert(h, "running") \/ UpsertFails(h, "running")
    /\ UNCHANGED <<local, row>>

(* DialContext, the handshake and the upload.                               *)
Dial(h) ==
    /\ ~expired
    /\ Goes(h, "dial", "command")
    /\ UNCHANGED <<local, row, results, faults>>

(* The host ends with this outcome, now to be recorded.                     *)
Outcome(h, from, verdict) ==
    /\ Goes(h, from, "record")
    /\ outcome' = [outcome EXCEPT ![h] = verdict]
    /\ UNCHANGED <<main, todo, slots, succeeded, failed, seen, expired, row, results, faults>>

(* Unreachable, refused, or the context has expired.                        *)
DialFails(h) == Outcome(h, "dial", "failed")

(* runCommand: the exit code, or the context expires first.                 *)
Command(h) == \E verdict \in {"success", "failed"} : Outcome(h, "command", verdict)

(* The peer accepts the connection and never answers.                       *)
Hang(h) ==
    /\ Fault
    /\ Goes(h, "command", "hung") \/ (~expired /\ Goes(h, "dial", "hung"))
    /\ UNCHANGED <<local, row, results>>

Record(h) ==
    /\ Goes(h, "record", "count")
    /\ Upsert(h, outcome[h])
    /\ UNCHANGED <<local, row>>

(* Mutant: a result that is not stored is only logged.                      *)
RecordOnce(h) ==
    /\ Goes(h, "record", "count")
    /\ UpsertFails(h, outcome[h])
    /\ UNCHANGED <<local, row>>

RecordFails(h) ==
    /\ Goes(h, "record", "retry")
    /\ UpsertFails(h, outcome[h])
    /\ UNCHANGED <<local, row>>

(* The second attempt, without the output.                                  *)
RecordAgain(h) ==
    /\ Goes(h, "retry", "count")
    /\ Upsert(h, outcome[h]) \/ UpsertFails(h, outcome[h])
    /\ UNCHANGED <<local, row>>

(* Mutant: the counters go on from those of the job's row.                  *)
CountFromRow(h) ==
    /\ Goes(h, "count", "progress")
    /\ succeeded' = row.succeeded + IF outcome[h] = "success" THEN 1 ELSE 0
    /\ failed' = row.failed + IF outcome[h] = "success" THEN 0 ELSE 1
    /\ seen' = [seen EXCEPT ![h] = [s |-> succeeded', f |-> failed']]
    /\ UNCHANGED <<main, todo, slots, outcome, expired, row, results, faults>>

(* Mutant: wg.Done comes before the last write.                             *)
CountAndDone(h) ==
    /\ Goes(h, "count", "progress")
    /\ succeeded' = succeeded + IF outcome[h] = "success" THEN 1 ELSE 0
    /\ failed' = failed + IF outcome[h] = "success" THEN 0 ELSE 1
    /\ seen' = [seen EXCEPT ![h] = [s |-> succeeded', f |-> failed']]
    /\ slots' = slots \ {h}
    /\ UNCHANGED <<main, todo, outcome, expired, row, results, faults>>

(* Under mu.                                                                *)
Count(h) ==
    /\ Goes(h, "count", "progress")
    /\ succeeded' = succeeded + IF outcome[h] = "success" THEN 1 ELSE 0
    /\ failed' = failed + IF outcome[h] = "success" THEN 0 ELSE 1
    /\ seen' = [seen EXCEPT ![h] = [s |-> succeeded', f |-> failed']]
    /\ UNCHANGED <<main, todo, slots, outcome, expired, row, results, faults>>

(* Mutant: what has not failed is shown as succeeded.                       *)
ProgressOptimistic(h) ==
    /\ Goes(h, "progress", "leave")
    /\ SetJobStatus("running", Cardinality({x \in Hosts : results[x] # "none"}) - seen[h].f,
                    seen[h].f, FALSE)
    /\ UNCHANGED <<local, results>>

(* The counters read before go to the row outside mu, so that an older pair *)
(* may overwrite a newer one.                                               *)
Progress(h) ==
    /\ Goes(h, "progress", "leave")
    /\ SetJobStatus("running", seen[h].s, seen[h].f, FALSE)
    /\ UNCHANGED <<local, results>>

(* Mutant: a goroutine whose host failed returns without releasing.         *)
LeaveOnSuccess(h) ==
    /\ Goes(h, "leave", "left")
    /\ slots' = IF outcome[h] = "success" THEN slots \ {h} ELSE slots
    /\ UNCHANGED <<main, todo, outcome, succeeded, failed, seen, expired, row, results, faults>>

(* The deferred <-sem and wg.Done.                                          *)
Leave(h) ==
    /\ Goes(h, "leave", "left")
    /\ slots' = slots \ {h}
    /\ UNCHANGED <<main, todo, outcome, succeeded, failed, seen, expired, row, results, faults>>

-----------------------------------------------------------------------------
Final ==
    IF succeeded = 0 THEN "failed" ELSE IF failed > 0 THEN "partial" ELSE "succeeded"

(* wg.Wait, and the verdict of the job; a failure to write it is logged.    *)
Finish ==
    /\ main = "spawn"
    /\ todo = {} /\ slots = {}
    /\ SetJobStatus(Final, succeeded, failed, TRUE)
    /\ main' = "done"
    /\ UNCHANGED <<todo, slots, pc, outcome, succeeded, failed, seen, expired, results>>

(* The context of the job expires.                                          *)
Expire ==
    /\ main = "spawn"
    /\ ~expired
    /\ expired' = TRUE
    /\ UNCHANGED <<main, todo, slots, pc, outcome, succeeded, failed, seen, row, results, faults>>

(* The orchestrator stops; no start-up code looks for unfinished jobs.      *)
Restart ==
    /\ Fault
    /\ main = "spawn"
    /\ main' = "lost"
    /\ todo' = {}
    /\ slots' = {}
    /\ pc' = [h \in Hosts |-> "none"]
    /\ UNCHANGED <<outcome, succeeded, failed, seen, expired, row, results>>

Worker(h) ==
    \/ Begin(h) \/ Dial(h) \/ DialFails(h) \/ Command(h)
    \/ Record(h) \/ RecordFails(h) \/ RecordAgain(h)
    \/ Count(h) \/ Progress(h) \/ Leave(h)

Next ==
    \/ \E targets \in SUBSET Hosts \ {{}} : StartJob(targets) \/ StartUnconfirmed(targets)
    \/ \E h \in Hosts : Spawn(h) \/ Worker(h) \/ Hang(h)
    \/ Finish \/ Expire \/ Restart

Spec == Init /\ [][Next]_vars

(* Goroutines are scheduled and every wait of one that does not hang ends:  *)
(* dialling and statements have time limits, the command at the latest with *)
(* the context.                                                             *)
Fairness ==
    /\ \A h \in Hosts : WF_vars(Spawn(h)) /\ WF_vars(Worker(h))
    /\ WF_vars(Finish)

FairSpec == Spec /\ Fairness

-----------------------------------------------------------------------------
Settled(h) == results[h] \in {"success", "failed"}
Hung == {h \in Hosts : pc[h] = "hung"}
Targets == {h \in Hosts : results[h] # "none"}

\* The limit of DEPLOY_CONCURRENCY: goroutines that hang keep their slot, and
\* no more than that many hosts are ever worked on.
ConcurrencyBound ==
    Cardinality({h \in Hosts : pc[h] \in PCs \ {"none", "left"}}) <= Concurrency

\* A verdict once shown is never taken back: no late progress write reopens a
\* finished job or changes its counts, nor does one of its hosts change.
VerdictsStand ==
    [][/\ row.finished => UNCHANGED <<row, results>>
       /\ \A h \in Hosts : Settled(h) => results'[h] = results[h]]_vars

\* A finished job accounts for each of its hosts exactly once, and its status
\* is the one its hosts' outcomes call for, whatever was lost on the way.
FinishedAddsUp ==
    row.finished =>
        LET ok == {h \in Targets : outcome[h] = "success"}
        IN  /\ row.succeeded = Cardinality(ok)
            /\ row.failed = Cardinality(Targets \ ok)
            /\ row.status = IF ok = {} THEN "failed"
                            ELSE IF ok = Targets THEN "succeeded" ELSE "partial"

\* Neither a host's row nor the counters of a job, final or not, ever claim a
\* success or a failure that did not happen.
NothingInvented ==
    /\ \A h \in Hosts : Settled(h) => results[h] = outcome[h]
    /\ row.succeeded <= Cardinality({h \in Hosts : outcome[h] = "success"})
    /\ row.failed <= Cardinality({h \in Hosts : outcome[h] = "failed"})

\* The second attempt is worth its while: while the context lives, one failed
\* statement loses no host's outcome.
OneFaultLosesNothing ==
    main = "done" /\ ~expired /\ faults <= 1 =>
        \A h \in Targets : results[h] = outcome[h]

\* Run ends, unless a host hangs it or the orchestrator stops.
RunEnds == main = "spawn" ~> main \in {"done", "lost"} \/ Hung # {}

\* A host that hangs costs a slot, not the job: as long as a slot is left every
\* other host is worked on and left again.
OthersGoOn ==
    \A h \in Hosts :
        h \in todo ~> \/ pc[h] \in {"left", "hung"}
                      \/ main = "lost"
                      \/ Cardinality(Hung) >= Concurrency

\* manager.go, run: "The outcome itself must not be lost": when run has ended
\* every host's row holds its outcome (here no statement fails for another
\* reason than the expired context).
OutcomeKept ==
    main = "done" => \A h \in Targets : results[h] = outcome[h]
=============================================================================

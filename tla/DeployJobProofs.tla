--------------------------- MODULE DeployJobProofs ---------------------------
(* What a deploy job records and shows, proved for every finite set of      *)
(* hosts, every concurrency limit and any number of faults.                 *)
EXTENDS DeployJob, FiniteSetTheorems, TLAPS

Ended == {"record", "retry", "count", "progress", "leave", "left"}
Past == {"progress", "leave", "left"}

With(verdict) == {h \in Hosts : outcome[h] = verdict}
Counted(verdict) == {h \in With(verdict) : pc[h] \in Past}

(* Goroutines run only while run does, and each holds its slot; hosts wait  *)
(* for theirs only meanwhile.                                               *)
Phases ==
    /\ main # "spawn" => todo = {} /\ slots = {}
    /\ slots = {h \in Hosts : pc[h] \notin {"none", "left"}}
    /\ \A h \in todo : pc[h] = "none"
    /\ main = "idle" => \A h \in Hosts : pc[h] = "none" /\ outcome[h] = "none"
    /\ row.finished => main = "done"

(* A host has an outcome once its operation has ended, and its row says     *)
(* nothing final before that and nothing else after it.                     *)
Stages ==
    \A h \in Hosts :
        /\ pc[h] \in Ended => outcome[h] # "none"
        /\ pc[h] \notin Ended /\ main # "lost" => outcome[h] = "none"
        /\ Settled(h) => results[h] = outcome[h]

(* The counters count the hosts past mu.                                    *)
Tally ==
    /\ main # "lost" => /\ succeeded = Cardinality(Counted("success"))
                        /\ failed = Cardinality(Counted("failed"))
    /\ succeeded <= Cardinality(With("success"))
    /\ failed <= Cardinality(With("failed"))

(* What goroutines and the row hold of the counters is at most older.       *)
Behind ==
    /\ \A h \in Hosts : seen[h].s <= succeeded /\ seen[h].f <= failed
    /\ row.succeeded <= succeeded /\ row.failed <= failed

(* While run works, the hosts of the job are those it spawned or will.      *)
Covered ==
    main \in {"idle", "spawn", "done"} =>
        \A h \in Hosts : results[h] # "none" <=> h \in todo \/ pc[h] # "none"

(* The row of a finished job is the last thing run computed.                *)
Finished ==
    row.finished => /\ row.succeeded = succeeded /\ row.failed = failed
                    /\ row.status = Final

(* An outcome that is not recorded took the expired context or two faults.  *)
Recorded ==
    ~expired /\ main # "lost" =>
        \A h \in Hosts :
            /\ pc[h] = "retry" => faults >= 1
            /\ pc[h] \in Past \cup {"count"} => results[h] = outcome[h] \/ faults >= 2

(* No more slots than the channel has room for.                             *)
Bounded == Cardinality(slots) <= Concurrency

IInv == /\ TypeOK /\ Phases /\ Stages /\ Tally /\ Behind /\ Covered /\ Finished /\ Recorded
        /\ Bounded

-----------------------------------------------------------------------------
LEMMA Sizes ==
    \A S \in SUBSET Hosts : /\ IsFiniteSet(S)
                            /\ Cardinality(S) \in 0..Cardinality(Hosts)
BY HostsAssumption, FS_Subset, FS_CardinalityType

LEMMA AddOne ==
    ASSUME NEW S \in SUBSET Hosts, NEW h \in Hosts
    PROVE  Cardinality(S \cup {h}) \in {Cardinality(S), Cardinality(S) + 1}
BY Sizes, FS_AddElement

LEMMA DropOne ==
    ASSUME NEW S \in SUBSET Hosts, NEW h \in Hosts
    PROVE  Cardinality(S \ {h}) \in {Cardinality(S), Cardinality(S) - 1}
BY Sizes, FS_RemoveElement

LEMMA InitIInv == Init => IInv
<1> SUFFICES ASSUME Init PROVE IInv
    OBVIOUS
<1>1. TypeOK
  <2>1. 0 \in 0..Cardinality(Hosts) /\ 0 \in 0..MaxFaults
      BY Sizes, BoundsAssumption
  <2>2. seen \in [Hosts -> [s : 0..Cardinality(Hosts), f : 0..Cardinality(Hosts)]]
      BY <2>1 DEF Init
  <2> QED BY <2>1, <2>2 DEF Init, TypeOK, Rows, NoRow, PCs
<1>2. Counted("success") = {} /\ Counted("failed") = {} /\ With("success") = {}
      /\ With("failed") = {} /\ Cardinality({}) = 0
    BY FS_EmptySet DEF Init, Counted, With
<1>3. Tally /\ Bounded
    BY <1>2, BoundsAssumption DEF Init, Tally, Bounded
<1>4. Phases /\ Stages /\ Behind /\ Covered /\ Finished /\ Recorded
    BY DEF Init, Phases, Stages, Settled, Behind, Covered, Finished, Recorded, NoRow, Ended, Past
<1> QED BY <1>1, <1>3, <1>4 DEF IInv

(* Goroutines and slots.                                                    *)
LEMMA NextPhases == IInv /\ [Next]_vars => Phases'
<1> SUFFICES ASSUME IInv, [Next]_vars PROVE Phases'
    OBVIOUS
<1> USE DEF IInv, TypeOK, Rows, PCs, local, Fault, Phases, NoRow
<1>1. ASSUME NEW targets \in SUBSET Hosts, StartJob(targets) PROVE Phases'
    BY <1>1 DEF StartJob, Created
<1>2. ASSUME NEW targets \in SUBSET Hosts, StartUnconfirmed(targets) PROVE Phases'
    BY <1>2 DEF StartUnconfirmed, Created
<1>3. ASSUME NEW h \in Hosts, Spawn(h) PROVE Phases'
    BY <1>3 DEF Spawn
<1>4. ASSUME NEW h \in Hosts, Begin(h) PROVE Phases'
    BY <1>4 DEF Begin, Goes, Upsert, UpsertFails
<1>5. ASSUME NEW h \in Hosts, Dial(h) PROVE Phases'
    BY <1>5 DEF Dial, Goes
<1>6. ASSUME NEW h \in Hosts, DialFails(h) \/ Command(h) PROVE Phases'
    BY <1>6 DEF DialFails, Command, Outcome, Goes
<1>7. ASSUME NEW h \in Hosts, Hang(h) PROVE Phases'
    BY <1>7 DEF Hang, Goes
<1>8. ASSUME NEW h \in Hosts, Record(h) PROVE Phases'
    BY <1>8 DEF Record, Goes, Upsert
<1>9. ASSUME NEW h \in Hosts, RecordFails(h) PROVE Phases'
    BY <1>9 DEF RecordFails, Goes, UpsertFails
<1>10. ASSUME NEW h \in Hosts, RecordAgain(h) PROVE Phases'
    BY <1>10 DEF RecordAgain, Goes, Upsert, UpsertFails
<1>11. ASSUME NEW h \in Hosts, Count(h) PROVE Phases'
    BY <1>11 DEF Count, Goes
<1>12. ASSUME NEW h \in Hosts, Progress(h) PROVE Phases'
    BY <1>12 DEF Progress, Goes, SetJobStatus
<1>13. ASSUME NEW h \in Hosts, Leave(h) PROVE Phases'
    BY <1>13 DEF Leave, Goes
<1>14. CASE Finish
    BY <1>14 DEF Finish, SetJobStatus
<1>15. CASE Expire
    BY <1>15 DEF Expire
<1>16. CASE Restart
    BY <1>16 DEF Restart
<1>17. CASE UNCHANGED vars
    BY <1>17 DEF vars
<1> QED BY <1>1, <1>2, <1>3, <1>4, <1>5, <1>6, <1>7, <1>8, <1>9,
           <1>10, <1>11, <1>12, <1>13, <1>14, <1>15, <1>16, <1>17 DEF Next, Worker

(* Outcomes.                                                                *)
LEMMA NextStages == IInv /\ [Next]_vars => Stages'
<1> SUFFICES ASSUME IInv, [Next]_vars PROVE Stages'
    OBVIOUS
<1> USE DEF IInv, TypeOK, Rows, PCs, local, Fault, Phases, Stages, Settled, Ended
<1>1. ASSUME NEW targets \in SUBSET Hosts, StartJob(targets) PROVE Stages'
    BY <1>1 DEF StartJob, Created
<1>2. ASSUME NEW targets \in SUBSET Hosts, StartUnconfirmed(targets) PROVE Stages'
    BY <1>2 DEF StartUnconfirmed, Created
<1>3. ASSUME NEW h \in Hosts, Spawn(h) PROVE Stages'
    BY <1>3 DEF Spawn
<1>4. ASSUME NEW h \in Hosts, Begin(h) PROVE Stages'
    BY <1>4 DEF Begin, Goes, Upsert, UpsertFails
<1>5. ASSUME NEW h \in Hosts, Dial(h) PROVE Stages'
    BY <1>5 DEF Dial, Goes
<1>6. ASSUME NEW h \in Hosts, DialFails(h) \/ Command(h) PROVE Stages'
    BY <1>6 DEF DialFails, Command, Outcome, Goes
<1>7. ASSUME NEW h \in Hosts, Hang(h) PROVE Stages'
    BY <1>7 DEF Hang, Goes
<1>8. ASSUME NEW h \in Hosts, Record(h) PROVE Stages'
    BY <1>8 DEF Record, Goes, Upsert
<1>9. ASSUME NEW h \in Hosts, RecordFails(h) PROVE Stages'
    BY <1>9 DEF RecordFails, Goes, UpsertFails
<1>10. ASSUME NEW h \in Hosts, RecordAgain(h) PROVE Stages'
    BY <1>10 DEF RecordAgain, Goes, Upsert, UpsertFails
<1>11. ASSUME NEW h \in Hosts, Count(h) PROVE Stages'
    BY <1>11 DEF Count, Goes
<1>12. ASSUME NEW h \in Hosts, Progress(h) PROVE Stages'
    BY <1>12 DEF Progress, Goes, SetJobStatus
<1>13. ASSUME NEW h \in Hosts, Leave(h) PROVE Stages'
    BY <1>13 DEF Leave, Goes
<1>14. CASE Finish
    BY <1>14 DEF Finish, SetJobStatus
<1>15. CASE Expire
    BY <1>15 DEF Expire
<1>16. CASE Restart
    BY <1>16 DEF Restart
<1>17. CASE UNCHANGED vars
    BY <1>17 DEF vars
<1> QED BY <1>1, <1>2, <1>3, <1>4, <1>5, <1>6, <1>7, <1>8, <1>9,
           <1>10, <1>11, <1>12, <1>13, <1>14, <1>15, <1>16, <1>17 DEF Next, Worker

(* The targets of the job.                                                  *)
LEMMA NextCovered == IInv /\ [Next]_vars => Covered'
<1> SUFFICES ASSUME IInv, [Next]_vars PROVE Covered'
    OBVIOUS
<1> USE DEF IInv, TypeOK, Rows, PCs, local, Fault, Phases, Stages, Covered, Ended
<1>1. ASSUME NEW targets \in SUBSET Hosts, StartJob(targets) PROVE Covered'
    BY <1>1 DEF StartJob, Created
<1>2. ASSUME NEW targets \in SUBSET Hosts, StartUnconfirmed(targets) PROVE Covered'
    BY <1>2 DEF StartUnconfirmed, Created
<1>3. ASSUME NEW h \in Hosts, Spawn(h) PROVE Covered'
    BY <1>3 DEF Spawn
<1>4. ASSUME NEW h \in Hosts, Begin(h) PROVE Covered'
    BY <1>4 DEF Begin, Goes, Upsert, UpsertFails
<1>5. ASSUME NEW h \in Hosts, Dial(h) PROVE Covered'
    BY <1>5 DEF Dial, Goes
<1>6. ASSUME NEW h \in Hosts, DialFails(h) \/ Command(h) PROVE Covered'
    BY <1>6 DEF DialFails, Command, Outcome, Goes
<1>7. ASSUME NEW h \in Hosts, Hang(h) PROVE Covered'
    BY <1>7 DEF Hang, Goes
<1>8. ASSUME NEW h \in Hosts, Record(h) PROVE Covered'
    BY <1>8 DEF Record, Goes, Upsert
<1>9. ASSUME NEW h \in Hosts, RecordFails(h) PROVE Covered'
    BY <1>9 DEF RecordFails, Goes, UpsertFails
<1>10. ASSUME NEW h \in Hosts, RecordAgain(h) PROVE Covered'
    BY <1>10 DEF RecordAgain, Goes, Upsert, UpsertFails
<1>11. ASSUME NEW h \in Hosts, Count(h) PROVE Covered'
    BY <1>11 DEF Count, Goes
<1>12. ASSUME NEW h \in Hosts, Progress(h) PROVE Covered'
    BY <1>12 DEF Progress, Goes, SetJobStatus
<1>13. ASSUME NEW h \in Hosts, Leave(h) PROVE Covered'
    BY <1>13 DEF Leave, Goes
<1>14. CASE Finish
    BY <1>14 DEF Finish, SetJobStatus
<1>15. CASE Expire
    BY <1>15 DEF Expire
<1>16. CASE Restart
    BY <1>16 DEF Restart
<1>17. CASE UNCHANGED vars
    BY <1>17 DEF vars
<1> QED BY <1>1, <1>2, <1>3, <1>4, <1>5, <1>6, <1>7, <1>8, <1>9,
           <1>10, <1>11, <1>12, <1>13, <1>14, <1>15, <1>16, <1>17 DEF Next, Worker

(* What is recorded.                                                        *)
LEMMA NextRecorded == IInv /\ [Next]_vars => Recorded'
<1> SUFFICES ASSUME IInv, [Next]_vars PROVE Recorded'
    OBVIOUS
<1> USE BoundsAssumption DEF IInv, TypeOK, Rows, PCs, local, Fault, Phases, Stages, Recorded, Past, Ended
<1>1. ASSUME NEW targets \in SUBSET Hosts, StartJob(targets) PROVE Recorded'
    BY <1>1 DEF StartJob, Created
<1>2. ASSUME NEW targets \in SUBSET Hosts, StartUnconfirmed(targets) PROVE Recorded'
    BY <1>2 DEF StartUnconfirmed, Created
<1>3. ASSUME NEW h \in Hosts, Spawn(h) PROVE Recorded'
    BY <1>3 DEF Spawn
<1>4. ASSUME NEW h \in Hosts, Begin(h) PROVE Recorded'
    BY <1>4 DEF Begin, Goes, Upsert, UpsertFails
<1>5. ASSUME NEW h \in Hosts, Dial(h) PROVE Recorded'
    BY <1>5 DEF Dial, Goes
<1>6. ASSUME NEW h \in Hosts, DialFails(h) \/ Command(h) PROVE Recorded'
    BY <1>6 DEF DialFails, Command, Outcome, Goes
<1>7. ASSUME NEW h \in Hosts, Hang(h) PROVE Recorded'
    BY <1>7 DEF Hang, Goes
<1>8. ASSUME NEW h \in Hosts, Record(h) PROVE Recorded'
    BY <1>8 DEF Record, Goes, Upsert
<1>9. ASSUME NEW h \in Hosts, RecordFails(h) PROVE Recorded'
    BY <1>9 DEF RecordFails, Goes, UpsertFails
<1>10. ASSUME NEW h \in Hosts, RecordAgain(h) PROVE Recorded'
    BY <1>10 DEF RecordAgain, Goes, Upsert, UpsertFails
<1>11. ASSUME NEW h \in Hosts, Count(h) PROVE Recorded'
    BY <1>11 DEF Count, Goes
<1>12. ASSUME NEW h \in Hosts, Progress(h) PROVE Recorded'
    BY <1>12 DEF Progress, Goes, SetJobStatus
<1>13. ASSUME NEW h \in Hosts, Leave(h) PROVE Recorded'
    BY <1>13 DEF Leave, Goes
<1>14. CASE Finish
    BY <1>14 DEF Finish, SetJobStatus
<1>15. CASE Expire
    BY <1>15 DEF Expire
<1>16. CASE Restart
    BY <1>16 DEF Restart
<1>17. CASE UNCHANGED vars
    BY <1>17 DEF vars
<1> QED BY <1>1, <1>2, <1>3, <1>4, <1>5, <1>6, <1>7, <1>8, <1>9,
           <1>10, <1>11, <1>12, <1>13, <1>14, <1>15, <1>16, <1>17 DEF Next, Worker

(* A finished job is left alone; the row of run's end is what it counted.   *)
LEMMA NextFinished == IInv /\ [Next]_vars => Finished'
<1> SUFFICES ASSUME IInv, [Next]_vars PROVE Finished'
    OBVIOUS
<1> USE DEF IInv, TypeOK, Rows, PCs, local, Fault, Phases, Finished, Final, NoRow
<1>1. ASSUME NEW targets \in SUBSET Hosts, StartJob(targets) PROVE Finished'
    BY <1>1 DEF StartJob, Created
<1>2. ASSUME NEW targets \in SUBSET Hosts, StartUnconfirmed(targets) PROVE Finished'
    BY <1>2 DEF StartUnconfirmed, Created
<1>3. ASSUME NEW h \in Hosts, Spawn(h) PROVE Finished'
    BY <1>3 DEF Spawn
<1>4. ASSUME NEW h \in Hosts, Begin(h) PROVE Finished'
    BY <1>4 DEF Begin, Goes, Upsert, UpsertFails
<1>5. ASSUME NEW h \in Hosts, Dial(h) PROVE Finished'
    BY <1>5 DEF Dial, Goes
<1>6. ASSUME NEW h \in Hosts, DialFails(h) \/ Command(h) PROVE Finished'
    BY <1>6 DEF DialFails, Command, Outcome, Goes
<1>7. ASSUME NEW h \in Hosts, Hang(h) PROVE Finished'
    BY <1>7 DEF Hang, Goes
<1>8. ASSUME NEW h \in Hosts, Record(h) PROVE Finished'
    BY <1>8 DEF Record, Goes, Upsert
<1>9. ASSUME NEW h \in Hosts, RecordFails(h) PROVE Finished'
    BY <1>9 DEF RecordFails, Goes, UpsertFails
<1>10. ASSUME NEW h \in Hosts, RecordAgain(h) PROVE Finished'
    BY <1>10 DEF RecordAgain, Goes, Upsert, UpsertFails
<1>11. ASSUME NEW h \in Hosts, Count(h) PROVE Finished'
    BY <1>11 DEF Count, Goes
<1>12. ASSUME NEW h \in Hosts, Progress(h) PROVE Finished'
    BY <1>12 DEF Progress, Goes, SetJobStatus
<1>13. ASSUME NEW h \in Hosts, Leave(h) PROVE Finished'
    BY <1>13 DEF Leave, Goes
<1>14. CASE Finish
    BY <1>14 DEF Finish, SetJobStatus
<1>15. CASE Expire
    BY <1>15 DEF Expire
<1>16. CASE Restart
    BY <1>16 DEF Restart
<1>17. CASE UNCHANGED vars
    BY <1>17 DEF vars
<1> QED BY <1>1, <1>2, <1>3, <1>4, <1>5, <1>6, <1>7, <1>8, <1>9,
           <1>10, <1>11, <1>12, <1>13, <1>14, <1>15, <1>16, <1>17 DEF Next, Worker

(* No step but that of Count changes, in a job that goes on, which hosts    *)
(* are counted or how many, and outcomes are never taken back.              *)
Verdicts == {"success", "failed"}

NothingCounted ==
    /\ \A v \in Verdicts : With(v) \subseteq With(v)'
    /\ main' # "lost" => main # "lost" /\ \A v \in Verdicts : Counted(v)' = Counted(v)
    /\ UNCHANGED <<succeeded, failed>>

CountChange == NothingCounted \/ \E h \in Hosts : Count(h)

LEMMA NextCountChange == IInv /\ [Next]_vars => CountChange
<1> SUFFICES ASSUME IInv, [Next]_vars PROVE CountChange
    OBVIOUS
<1> USE DEF IInv, TypeOK, Rows, PCs, local, Fault, Phases, Stages, Past, Ended, CountChange, NothingCounted, Counted, With, Verdicts
<1>1. ASSUME NEW targets \in SUBSET Hosts, StartJob(targets) PROVE CountChange
    BY <1>1 DEF StartJob, Created
<1>2. ASSUME NEW targets \in SUBSET Hosts, StartUnconfirmed(targets) PROVE CountChange
    BY <1>2 DEF StartUnconfirmed, Created
<1>3. ASSUME NEW h \in Hosts, Spawn(h) PROVE CountChange
    BY <1>3 DEF Spawn
<1>4. ASSUME NEW h \in Hosts, Begin(h) PROVE CountChange
    BY <1>4 DEF Begin, Goes, Upsert, UpsertFails
<1>5. ASSUME NEW h \in Hosts, Dial(h) PROVE CountChange
    BY <1>5 DEF Dial, Goes
<1>6. ASSUME NEW h \in Hosts, DialFails(h) \/ Command(h) PROVE CountChange
    BY <1>6 DEF DialFails, Command, Outcome, Goes
<1>7. ASSUME NEW h \in Hosts, Hang(h) PROVE CountChange
    BY <1>7 DEF Hang, Goes
<1>8. ASSUME NEW h \in Hosts, Record(h) PROVE CountChange
    BY <1>8 DEF Record, Goes, Upsert
<1>9. ASSUME NEW h \in Hosts, RecordFails(h) PROVE CountChange
    BY <1>9 DEF RecordFails, Goes, UpsertFails
<1>10. ASSUME NEW h \in Hosts, RecordAgain(h) PROVE CountChange
    BY <1>10 DEF RecordAgain, Goes, Upsert, UpsertFails
<1>11. ASSUME NEW h \in Hosts, Count(h) PROVE CountChange
    BY <1>11 DEF Count, Goes
<1>12. ASSUME NEW h \in Hosts, Progress(h) PROVE CountChange
    BY <1>12 DEF Progress, Goes, SetJobStatus
<1>13. ASSUME NEW h \in Hosts, Leave(h) PROVE CountChange
    BY <1>13 DEF Leave, Goes
<1>14. CASE Finish
    BY <1>14 DEF Finish, SetJobStatus
<1>15. CASE Expire
    BY <1>15 DEF Expire
<1>16. CASE Restart
    BY <1>16 DEF Restart
<1>17. CASE UNCHANGED vars
    BY <1>17 DEF vars
<1> QED BY <1>1, <1>2, <1>3, <1>4, <1>5, <1>6, <1>7, <1>8, <1>9,
           <1>10, <1>11, <1>12, <1>13, <1>14, <1>15, <1>16, <1>17 DEF Next, Worker

LEMMA NextTally == IInv /\ [Next]_vars => Tally'
<1> SUFFICES ASSUME IInv, [Next]_vars PROVE Tally'
    OBVIOUS
<1> USE DEF IInv, TypeOK, Rows, PCs
<1>1. \A v \in Verdicts : /\ With(v)' \in SUBSET Hosts /\ IsFiniteSet(With(v)')
                          /\ Counted(v)' \in SUBSET With(v)'
    BY Sizes DEF With, Counted
<1>2. \A v \in Verdicts : Cardinality(Counted(v)') <= Cardinality(With(v)')
    BY <1>1, FS_Subset
<1>3. CASE NothingCounted
  <2>1. \A v \in Verdicts : Cardinality(With(v)) <= Cardinality(With(v)')
      BY <1>1, <1>3, FS_Subset DEF NothingCounted
  <2>2. \A v \in Verdicts : /\ Cardinality(With(v)) \in Nat
                            /\ Cardinality(With(v)') \in Nat
      BY <1>1, Sizes DEF With
  <2>3. succeeded' <= Cardinality(With("success")') /\ failed' <= Cardinality(With("failed")')
      BY <1>3, <2>1, <2>2 DEF NothingCounted, Tally, Verdicts
  <2> QED BY <1>3, <2>3 DEF NothingCounted, Tally, Verdicts
<1>4. ASSUME NEW h \in Hosts, Count(h) PROVE Tally'
  <2> USE <1>4 DEF Count, Goes
  <2>1. outcome[h] \in Verdicts /\ h \notin Counted(outcome[h]) /\ main # "lost"
      BY DEF Stages, Ended, Verdicts, Counted, Past, Phases
  <2>2. \A v \in Verdicts :
            Counted(v)' = IF v = outcome[h] THEN Counted(v) \cup {h} ELSE Counted(v)
      BY DEF Counted, With, Past, Verdicts
  <2>3. \A v \in Verdicts : IsFiniteSet(Counted(v)) /\ Cardinality(Counted(v)) \in Nat
      BY Sizes DEF Counted, With
  <2>4. Cardinality(Counted(outcome[h]) \cup {h}) = Cardinality(Counted(outcome[h])) + 1
      BY <2>1, <2>3, FS_AddElement
  <2>5. /\ succeeded = Cardinality(Counted("success"))
        /\ failed = Cardinality(Counted("failed"))
      BY <2>1 DEF Tally
  <2>6. CASE outcome[h] = "success"
    <3>1. /\ Cardinality(Counted("success")') = succeeded + 1
          /\ Cardinality(Counted("failed")') = failed
        BY <2>2, <2>4, <2>5, <2>6 DEF Verdicts
    <3> QED BY <1>2, <2>6, <3>1 DEF Tally, Verdicts
  <2>7. CASE outcome[h] = "failed"
    <3>1. /\ Cardinality(Counted("success")') = succeeded
          /\ Cardinality(Counted("failed")') = failed + 1
        BY <2>2, <2>4, <2>5, <2>7 DEF Verdicts
    <3> QED BY <1>2, <2>7, <3>1 DEF Tally, Verdicts
  <2> QED BY <2>1, <2>6, <2>7 DEF Verdicts
<1> QED BY <1>3, <1>4, NextCountChange DEF CountChange

(* The counters stay in their bounds and never go back.                     *)
LEMMA NextCounters ==
    IInv /\ [Next]_vars => /\ succeeded' \in 0..Cardinality(Hosts) /\ succeeded <= succeeded'
                           /\ failed' \in 0..Cardinality(Hosts) /\ failed <= failed'
<1> SUFFICES ASSUME IInv, [Next]_vars
             PROVE  /\ succeeded' \in 0..Cardinality(Hosts) /\ succeeded <= succeeded'
                    /\ failed' \in 0..Cardinality(Hosts) /\ failed <= failed'
    OBVIOUS
<1>1. CASE NothingCounted
    BY <1>1, Sizes DEF NothingCounted, IInv, TypeOK
<1>2. ASSUME NEW h \in Hosts, Count(h)
      PROVE  /\ succeeded' \in 0..Cardinality(Hosts) /\ succeeded <= succeeded'
             /\ failed' \in 0..Cardinality(Hosts) /\ failed <= failed'
  <2>1. /\ Cardinality(With("success")') \in 0..Cardinality(Hosts)
        /\ Cardinality(With("failed")') \in 0..Cardinality(Hosts)
      BY Sizes DEF With
  <2>2. /\ succeeded' <= Cardinality(With("success")')
        /\ failed' <= Cardinality(With("failed")')
      BY NextTally DEF Tally
  <2>3. /\ succeeded \in Nat /\ failed \in Nat /\ Cardinality(Hosts) \in Nat
        /\ succeeded' \in {succeeded, succeeded + 1} /\ failed' \in {failed, failed + 1}
      BY <1>2, Sizes DEF Count, IInv, TypeOK
  <2> QED BY <2>1, <2>2, <2>3
<1> QED BY <1>1, <1>2, NextCountChange DEF CountChange

(* Every variable keeps its type.                                           *)
LEMMA NextTypeOK == IInv /\ [Next]_vars => TypeOK'
<1> SUFFICES ASSUME IInv, [Next]_vars PROVE TypeOK'
    OBVIOUS
<1>0. /\ succeeded' \in 0..Cardinality(Hosts) /\ succeeded <= succeeded'
      /\ failed' \in 0..Cardinality(Hosts) /\ failed <= failed'
      /\ Cardinality(Hosts) \in Nat
    BY NextCounters, Sizes
<1> USE <1>0, BoundsAssumption DEF IInv, TypeOK, PCs, local, Fault
<1>1. ASSUME NEW targets \in SUBSET Hosts, StartJob(targets) PROVE TypeOK'
  <2>1. row' = [status |-> "running", succeeded |-> 0, failed |-> 0, finished |-> FALSE]
      BY <1>1 DEF StartJob, Created, NoRow
  <2>2. results' \in [Hosts -> {"none", "pending", "running", "success", "failed"}]
      BY <1>1 DEF StartJob, Created
  <2>3. row' \in Rows
      BY <1>0, <2>1 DEF Rows
  <2> QED BY <1>1, <2>2, <2>3 DEF StartJob
<1>2. ASSUME NEW targets \in SUBSET Hosts, StartUnconfirmed(targets) PROVE TypeOK'
  <2>1. \/ UNCHANGED row
        \/ row' = [status |-> "running", succeeded |-> 0, failed |-> 0, finished |-> FALSE]
      BY <1>2 DEF StartUnconfirmed, Created, NoRow
  <2>2. results' \in [Hosts -> {"none", "pending", "running", "success", "failed"}]
      BY <1>2 DEF StartUnconfirmed, Created
  <2>3. [status |-> "running", succeeded |-> 0, failed |-> 0, finished |-> FALSE] \in Rows
      BY <1>0 DEF Rows
  <2>4. row' \in Rows
      BY <2>1, <2>3
  <2> QED BY <1>2, <2>2, <2>4 DEF StartUnconfirmed
<1>3. ASSUME NEW h \in Hosts, Spawn(h) PROVE TypeOK'
    BY <1>3 DEF Spawn
<1>4. ASSUME NEW h \in Hosts, Begin(h) PROVE TypeOK'
    BY <1>4 DEF Begin, Goes, Upsert, UpsertFails
<1>5. ASSUME NEW h \in Hosts, Dial(h) PROVE TypeOK'
    BY <1>5 DEF Dial, Goes
<1>6. ASSUME NEW h \in Hosts, DialFails(h) \/ Command(h) PROVE TypeOK'
  <2>1. PICK v \in Verdicts : outcome' = [outcome EXCEPT ![h] = v]
      BY <1>6 DEF DialFails, Command, Outcome, Verdicts
  <2>2. outcome' \in [Hosts -> {"none", "success", "failed"}]
      BY <2>1 DEF Verdicts
  <2> QED BY <1>6, <2>2 DEF DialFails, Command, Outcome, Goes
<1>7. ASSUME NEW h \in Hosts, Hang(h) PROVE TypeOK'
    BY <1>7 DEF Hang, Goes
<1>8. ASSUME NEW h \in Hosts, Record(h) PROVE TypeOK'
    BY <1>8 DEF Record, Goes, Upsert
<1>9. ASSUME NEW h \in Hosts, RecordFails(h) PROVE TypeOK'
    BY <1>9 DEF RecordFails, Goes, UpsertFails
<1>10. ASSUME NEW h \in Hosts, RecordAgain(h) PROVE TypeOK'
    BY <1>10 DEF RecordAgain, Goes, Upsert, UpsertFails
<1>11. ASSUME NEW h \in Hosts, Count(h) PROVE TypeOK'
    BY <1>11 DEF Count, Goes
<1>12. ASSUME NEW h \in Hosts, Progress(h) PROVE TypeOK'
  <2>1. \A b \in BOOLEAN : [status |-> "running", succeeded |-> seen[h].s,
                            failed |-> seen[h].f, finished |-> b] \in Rows
      BY DEF Rows
  <2>2. row.finished \in BOOLEAN
      BY DEF Rows
  <2>3. row' \in Rows
      BY <1>12, <2>1, <2>2 DEF Progress, SetJobStatus
  <2> QED BY <1>12, <2>3 DEF Progress, SetJobStatus, Goes
<1>13. ASSUME NEW h \in Hosts, Leave(h) PROVE TypeOK'
    BY <1>13 DEF Leave, Goes
<1>14. CASE Finish
  <2>1. Final \in Finals
      BY DEF Final, Finals
  <2>2. \A b \in BOOLEAN : [status |-> Final, succeeded |-> succeeded, failed |-> failed,
                            finished |-> b] \in Rows
      BY <2>1 DEF Rows
  <2>3. row' \in Rows
      BY <1>14, <2>2 DEF Finish, SetJobStatus
  <2> QED BY <1>14, <2>3 DEF Finish, SetJobStatus
<1>15. CASE Expire
    BY <1>15 DEF Expire
<1>16. CASE Restart
    BY <1>16 DEF Restart
<1>17. CASE UNCHANGED vars
    BY <1>17 DEF vars
<1> QED BY <1>1, <1>2, <1>3, <1>4, <1>5, <1>6, <1>7, <1>8, <1>9,
           <1>10, <1>11, <1>12, <1>13, <1>14, <1>15, <1>16, <1>17 DEF Next, Worker

(* Copies of the counters are never newer.                                  *)
LEMMA NextBehind == IInv /\ [Next]_vars => Behind'
<1> SUFFICES ASSUME IInv, [Next]_vars PROVE Behind'
    OBVIOUS
<1>0. /\ succeeded' \in 0..Cardinality(Hosts) /\ succeeded <= succeeded'
      /\ failed' \in 0..Cardinality(Hosts) /\ failed <= failed'
      /\ Cardinality(Hosts) \in Nat
    BY NextCounters, Sizes
<1> USE <1>0 DEF IInv, TypeOK, Rows, PCs, local, Fault, Behind, NoRow
<1>1. ASSUME NEW targets \in SUBSET Hosts, StartJob(targets) PROVE Behind'
    BY <1>1 DEF StartJob, Created
<1>2. ASSUME NEW targets \in SUBSET Hosts, StartUnconfirmed(targets) PROVE Behind'
    BY <1>2 DEF StartUnconfirmed, Created
<1>3. ASSUME NEW h \in Hosts, Spawn(h) PROVE Behind'
    BY <1>3 DEF Spawn
<1>4. ASSUME NEW h \in Hosts, Begin(h) PROVE Behind'
    BY <1>4 DEF Begin, Goes, Upsert, UpsertFails
<1>5. ASSUME NEW h \in Hosts, Dial(h) PROVE Behind'
    BY <1>5 DEF Dial, Goes
<1>6. ASSUME NEW h \in Hosts, DialFails(h) \/ Command(h) PROVE Behind'
    BY <1>6 DEF DialFails, Command, Outcome, Goes
<1>7. ASSUME NEW h \in Hosts, Hang(h) PROVE Behind'
    BY <1>7 DEF Hang, Goes
<1>8. ASSUME NEW h \in Hosts, Record(h) PROVE Behind'
    BY <1>8 DEF Record, Goes, Upsert
<1>9. ASSUME NEW h \in Hosts, RecordFails(h) PROVE Behind'
    BY <1>9 DEF RecordFails, Goes, UpsertFails
<1>10. ASSUME NEW h \in Hosts, RecordAgain(h) PROVE Behind'
    BY <1>10 DEF RecordAgain, Goes, Upsert, UpsertFails
<1>11. ASSUME NEW h \in Hosts, Count(h) PROVE Behind'
    BY <1>11 DEF Count, Goes
<1>12. ASSUME NEW h \in Hosts, Progress(h) PROVE Behind'
    BY <1>12 DEF Progress, Goes, SetJobStatus
<1>13. ASSUME NEW h \in Hosts, Leave(h) PROVE Behind'
    BY <1>13 DEF Leave, Goes
<1>14. CASE Finish
    BY <1>14 DEF Finish, SetJobStatus
<1>15. CASE Expire
    BY <1>15 DEF Expire
<1>16. CASE Restart
    BY <1>16 DEF Restart
<1>17. CASE UNCHANGED vars
    BY <1>17 DEF vars
<1> QED BY <1>1, <1>2, <1>3, <1>4, <1>5, <1>6, <1>7, <1>8, <1>9,
           <1>10, <1>11, <1>12, <1>13, <1>14, <1>15, <1>16, <1>17 DEF Next, Worker

(* A slot is taken only while one is free.                                  *)
LEMMA NextBounded == IInv /\ [Next]_vars => Bounded'
<1> SUFFICES ASSUME IInv, [Next]_vars PROVE Bounded'
    OBVIOUS
<1> USE BoundsAssumption DEF IInv, TypeOK, local, Bounded
<1>1. ASSUME NEW targets \in SUBSET Hosts, StartJob(targets) PROVE Bounded'
    BY <1>1 DEF StartJob, Created
<1>2. ASSUME NEW targets \in SUBSET Hosts, StartUnconfirmed(targets) PROVE Bounded'
    BY <1>2 DEF StartUnconfirmed
<1>3. ASSUME NEW h \in Hosts, Spawn(h) PROVE Bounded'
  <2>1. slots' = slots \cup {h} /\ Cardinality(slots) < Concurrency
      BY <1>3 DEF Spawn
  <2>2. IsFiniteSet(slots) /\ Cardinality(slots) \in Nat
      BY Sizes
  <2>3. Cardinality(slots \cup {h}) \in {Cardinality(slots), Cardinality(slots) + 1}
      BY AddOne
  <2> QED BY <2>1, <2>2, <2>3
<1>4. ASSUME NEW h \in Hosts, Begin(h) PROVE Bounded'
    BY <1>4 DEF Begin, Goes, Upsert, UpsertFails
<1>5. ASSUME NEW h \in Hosts, Dial(h) PROVE Bounded'
    BY <1>5 DEF Dial, Goes
<1>6. ASSUME NEW h \in Hosts, DialFails(h) \/ Command(h) PROVE Bounded'
    BY <1>6 DEF DialFails, Command, Outcome, Goes
<1>7. ASSUME NEW h \in Hosts, Hang(h) PROVE Bounded'
    BY <1>7 DEF Hang, Goes
<1>8. ASSUME NEW h \in Hosts, Record(h) PROVE Bounded'
    BY <1>8 DEF Record, Goes, Upsert
<1>9. ASSUME NEW h \in Hosts, RecordFails(h) PROVE Bounded'
    BY <1>9 DEF RecordFails, Goes, UpsertFails
<1>10. ASSUME NEW h \in Hosts, RecordAgain(h) PROVE Bounded'
    BY <1>10 DEF RecordAgain, Goes, Upsert, UpsertFails
<1>11. ASSUME NEW h \in Hosts, Count(h) PROVE Bounded'
    BY <1>11 DEF Count, Goes
<1>12. ASSUME NEW h \in Hosts, Progress(h) PROVE Bounded'
    BY <1>12 DEF Progress, Goes, SetJobStatus
<1>13. ASSUME NEW h \in Hosts, Leave(h) PROVE Bounded'
  <2>1. slots' = slots \ {h}
      BY <1>13 DEF Leave
  <2>2. IsFiniteSet(slots) /\ Cardinality(slots) \in Nat
      BY Sizes
  <2>3. Cardinality(slots \ {h}) \in {Cardinality(slots), Cardinality(slots) - 1}
      BY DropOne
  <2> QED BY <2>1, <2>2, <2>3
<1>14. CASE Finish
    BY <1>14 DEF Finish, SetJobStatus
<1>15. CASE Expire
    BY <1>15 DEF Expire
<1>16. CASE Restart
    BY <1>16, FS_EmptySet DEF Restart
<1>17. CASE UNCHANGED vars
    BY <1>17 DEF vars
<1> QED BY <1>1, <1>2, <1>3, <1>4, <1>5, <1>6, <1>7, <1>8, <1>9,
           <1>10, <1>11, <1>12, <1>13, <1>14, <1>15, <1>16, <1>17 DEF Next, Worker

LEMMA NextIInv == IInv /\ [Next]_vars => IInv'
BY NextTypeOK, NextPhases, NextStages, NextTally, NextBehind, NextCovered, NextFinished,
   NextRecorded, NextBounded DEF IInv

-----------------------------------------------------------------------------
(* The inductive invariant: where goroutines stand, what was counted and    *)
(* what was recorded belong together.                                       *)
THEOREM Invariance == Spec => []IInv
<1> QED BY InitIInv, NextIInv, PTL DEF Spec

(* Every variable keeps its type.                                           *)
THEOREM TypeCorrect == Spec => []TypeOK
<1>1. IInv => TypeOK
    BY DEF IInv
<1> QED BY <1>1, Invariance, PTL

(* No more hosts than slots are worked on.                                  *)
THEOREM Limited == Spec => []ConcurrencyBound
<1>1. IInv => ConcurrencyBound
  <2>1. PCs \ {"none", "left"} = {"start", "dial", "command", "hung", "record", "retry",
                                  "count", "progress", "leave"}
      BY DEF PCs
  <2>2. IInv => {h \in Hosts : pc[h] \in PCs \ {"none", "left"}} = slots
      BY DEF IInv, TypeOK, Phases
  <2> QED BY <2>2 DEF IInv, Bounded, ConcurrencyBound
<1> QED BY <1>1, Invariance, PTL

(* Whatever statements fail and whenever the context expires, the database  *)
(* never shows a success or a failure that did not happen.                  *)
THEOREM Honest == Spec => []NothingInvented
<1>1. IInv => NothingInvented
  <2> SUFFICES ASSUME IInv PROVE NothingInvented
      OBVIOUS
  <2>1. /\ Cardinality(With("success")) \in Nat /\ Cardinality(With("failed")) \in Nat
        /\ row.succeeded \in Nat /\ row.failed \in Nat /\ succeeded \in Nat /\ failed \in Nat
      BY Sizes DEF With, IInv, TypeOK, Rows
  <2>2. /\ row.succeeded <= Cardinality(With("success"))
        /\ row.failed <= Cardinality(With("failed"))
      BY <2>1 DEF IInv, Behind, Tally
  <2> QED BY <2>2 DEF IInv, Stages, With, NothingInvented
<1> QED BY <1>1, Invariance, PTL

(* A finished job's counts and status are those of its hosts' outcomes.     *)
THEOREM AddsUp == Spec => []FinishedAddsUp
<1>1. IInv => FinishedAddsUp
  <2> SUFFICES ASSUME IInv, row.finished PROVE FinishedAddsUp
      BY DEF FinishedAddsUp
  <2> DEFINE ok == {h \in Targets : outcome[h] = "success"}
  <2>1. main = "done" /\ todo = {} /\ \A h \in Hosts : pc[h] \in {"none", "left"}
      BY DEF IInv, Phases, TypeOK
  <2>2. Targets = {h \in Hosts : pc[h] = "left"}
      BY <2>1 DEF Targets, IInv, Covered
  <2>3. \A h \in Targets : outcome[h] \in {"success", "failed"}
      BY <2>2 DEF IInv, TypeOK, Stages, Ended
  <2>4. ok = Counted("success") /\ Targets \ ok = Counted("failed")
      BY <2>1, <2>2, <2>3 DEF Counted, With, Past
  <2>5. row.succeeded = Cardinality(ok) /\ row.failed = Cardinality(Targets \ ok)
      BY <2>1, <2>4 DEF IInv, Tally, Finished
  <2>6. row.status = IF row.succeeded = 0 THEN "failed"
                     ELSE IF row.failed > 0 THEN "partial" ELSE "succeeded"
      BY DEF IInv, Finished, Final
  <2>7. /\ Cardinality(ok) \in Nat /\ Cardinality(Targets \ ok) \in Nat
        /\ Cardinality(ok) = 0 <=> ok = {}
        /\ Cardinality(Targets \ ok) = 0 <=> Targets \ ok = {}
      BY Sizes, FS_EmptySet DEF Targets
  <2>8. row.status = IF ok = {} THEN "failed"
                     ELSE IF ok = Targets THEN "succeeded" ELSE "partial"
      BY <2>5, <2>6, <2>7
  <2> QED BY <2>5, <2>8 DEF FinishedAddsUp
<1> QED BY <1>1, Invariance, PTL

(* One failed statement costs no host its outcome while the context lives.  *)
THEOREM FallbackSuffices == Spec => []OneFaultLosesNothing
<1>1. IInv => OneFaultLosesNothing
  <2> SUFFICES ASSUME IInv, main = "done", ~expired, faults <= 1, NEW h \in Targets
               PROVE  results[h] = outcome[h]
      BY DEF OneFaultLosesNothing
  <2>1. h \in Hosts /\ results[h] # "none"
      BY DEF Targets
  <2>2. pc[h] = "left"
      BY <2>1 DEF IInv, TypeOK, Phases, Covered
  <2>3. ~(faults >= 2)
      BY DEF IInv, TypeOK
  <2> QED BY <2>1, <2>2, <2>3 DEF IInv, Recorded, Past
<1> QED BY <1>1, Invariance, PTL

(* What a step may do to what is shown as final.                            *)
Stand ==
    /\ row.finished => UNCHANGED <<row, results>>
    /\ \A h \in Hosts : Settled(h) => results'[h] = results[h]

LEMMA NextStands == IInv /\ [Next]_vars => Stand
<1> SUFFICES ASSUME IInv, [Next]_vars PROVE Stand
    OBVIOUS
<1> USE DEF IInv, TypeOK, PCs, local, Fault, Phases, Stages, Covered, Settled, Ended, Stand
<1>1. ASSUME NEW targets \in SUBSET Hosts, StartJob(targets) PROVE Stand
    BY <1>1 DEF StartJob, Created
<1>2. ASSUME NEW targets \in SUBSET Hosts, StartUnconfirmed(targets) PROVE Stand
    BY <1>2 DEF StartUnconfirmed, Created
<1>3. ASSUME NEW h \in Hosts, Spawn(h) PROVE Stand
    BY <1>3 DEF Spawn
<1>4. ASSUME NEW h \in Hosts, Begin(h) PROVE Stand
    BY <1>4 DEF Begin, Goes, Upsert, UpsertFails
<1>5. ASSUME NEW h \in Hosts, Dial(h) PROVE Stand
    BY <1>5 DEF Dial, Goes
<1>6. ASSUME NEW h \in Hosts, DialFails(h) \/ Command(h) PROVE Stand
    BY <1>6 DEF DialFails, Command, Outcome, Goes
<1>7. ASSUME NEW h \in Hosts, Hang(h) PROVE Stand
    BY <1>7 DEF Hang, Goes
<1>8. ASSUME NEW h \in Hosts, Record(h) PROVE Stand
    BY <1>8 DEF Record, Goes, Upsert
<1>9. ASSUME NEW h \in Hosts, RecordFails(h) PROVE Stand
    BY <1>9 DEF RecordFails, Goes, UpsertFails
<1>10. ASSUME NEW h \in Hosts, RecordAgain(h) PROVE Stand
    BY <1>10 DEF RecordAgain, Goes, Upsert, UpsertFails
<1>11. ASSUME NEW h \in Hosts, Count(h) PROVE Stand
    BY <1>11 DEF Count, Goes
<1>12. ASSUME NEW h \in Hosts, Progress(h) PROVE Stand
    BY <1>12 DEF Progress, Goes, SetJobStatus
<1>13. ASSUME NEW h \in Hosts, Leave(h) PROVE Stand
    BY <1>13 DEF Leave, Goes
<1>14. CASE Finish
    BY <1>14 DEF Finish, SetJobStatus
<1>15. CASE Expire
    BY <1>15 DEF Expire
<1>16. CASE Restart
    BY <1>16 DEF Restart
<1>17. CASE UNCHANGED vars
    BY <1>17 DEF vars
<1> QED BY <1>1, <1>2, <1>3, <1>4, <1>5, <1>6, <1>7, <1>8, <1>9,
           <1>10, <1>11, <1>12, <1>13, <1>14, <1>15, <1>16, <1>17 DEF Next, Worker

(* What was shown as final stays: no write of a goroutine comes after the   *)
(* job's last, and no host's row changes once it has a verdict.             *)
THEOREM FinalStays == Spec => VerdictsStand
<1>1. IInv /\ [Next]_vars => [Stand]_vars
    BY NextStands
<1> QED BY <1>1, Invariance, PTL DEF Spec, VerdictsStand, Stand
=============================================================================

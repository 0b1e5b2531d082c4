---------------------- MODULE KnowledgeSnapshots_proofs ----------------------
(***************************************************************************)
(* What readers of the knowledge base are guaranteed, for any jobs,        *)
(* snapshots, numbers of batches, builds and faults.                       *)
(***************************************************************************)
EXTENDS KnowledgeSnapshots, TLAPS

Collections == [state : States, build : 0..MaxBuilds, points : 0..Batches]
Names == Snapshots \cup {None}
JobRecords == [at : Stages, target : Names, build : 0..MaxBuilds, state : States,
               active : Names, ended : {None, "success", "error", "refused", "died"}]

TypeInv ==
    /\ coll \in [Snapshots -> Collections]
    /\ alias \in Names
    /\ job \in [Jobs -> JobRecords]
    /\ builds \in 0..MaxBuilds /\ faults \in 0..MaxFaults
    /\ reader \in [index : Names, ready : BOOLEAN]

\* A collection: an absent one has no build, a complete one all its points.
Whole(c) == /\ c.state = "absent" => c.build = 0
            /\ c.state = "complete" => c.points = Batches

BeforeCreation == {"inspect", "decide", "reuse", "guard", "drop", "create", "recheck_rollback"}

\* What a job r relies on, stage by stage, of the collections C and the alias a, when n
\* builds have been started.
Relies(r, C, a, n) ==
    r.at # "idle" =>
        /\ r.target \in Snapshots /\ r.build \in 1..n
        /\ \A s \in Snapshots : C[s].build = r.build =>
               s = r.target /\ r.at \notin BeforeCreation
        /\ r.at \in {"upload", "verify", "complete"} =>
               C[r.target].build = r.build /\ C[r.target].state = "building"
        /\ r.at = "upload" => C[r.target].points < Batches
        /\ r.at \in {"verify", "complete"} => C[r.target].points = Batches
        /\ r.at = "recheck" => C[r.target].build = r.build
        /\ r.at \in {"recheck", "publish", "switch", "reuse"} => C[r.target].state = "complete"
        /\ r.at = "decide" => /\ r.state # "absent"
                              /\ r.state \in {"failed", "complete"} =>
                                     C[r.target].state = r.state
        /\ r.at = "drop" => a # r.target
        /\ r.at = "discard" => a # r.target /\ C[r.target].build = r.build

\* A job that repairs: the discipline of the operators, seen from the job's record.
Repairs(r, c) == \/ c.state = "failed" \/ r.at \in {"guard", "drop"}
                 \/ r.at \in {"condemn", "discard"} /\ c.build = r.build

Running(j) == job[j].at # "idle"

StoreInv == \A s \in Snapshots : /\ Whole(coll[s]) /\ coll[s].build <= builds
                                 /\ alias = s => coll[s].state = "complete"
JobsInv == \A j \in Jobs : Relies(job[j], coll, alias, builds)
AloneInv == \A j, k \in Jobs : j # k /\ Running(j) /\ Running(k) =>
                /\ job[j].build # job[k].build
                /\ job[j].target = job[k].target => ~Repairs(job[j], coll[job[j].target])
ReaderInv == reader.ready \/ reader.index # None => alias # None

Inv == TypeInv /\ StoreInv /\ JobsInv /\ AloneInv /\ ReaderInv

LEMMA InitInv == Init => Inv
<1> SUFFICES ASSUME Init PROVE Inv
  OBVIOUS
<1> USE SnapshotsAssumption
<1>1. Absent \in Collections /\ NoJob \in JobRecords
  BY DEF Absent, Collections, NoJob, JobRecords, States, Stages, Names
<1>2. TypeInv
  BY <1>1 DEF Init, TypeInv, NoReader, Names
<1>3. StoreInv /\ JobsInv /\ AloneInv /\ ReaderInv
  BY DEF Init, StoreInv, Whole, Absent, JobsInv, Relies, NoJob, AloneInv, Running, ReaderInv,
         NoReader
<1> QED
  BY <1>2, <1>3 DEF Inv

\* Nobody shares the snapshot of a job.
Alone(j) == \A k \in Jobs \ {j} : Running(k) => job[k].target # job[j].target

LEMMA FaultAlone ==
    ASSUME Inv, NEW j \in Jobs, Fault(j)
    PROVE  Alone(j) /\ faults' \in 0..MaxFaults
BY SnapshotsAssumption DEF Fault, Sharing, Alone, Running, At, Target, Inv, TypeInv

\* A step of a job that changes nothing but its own record.
LEMMA RecordStep ==
    ASSUME Inv, NEW j \in Jobs, Running(j), NEW r \in JobRecords,
           job' = [job EXCEPT ![j] = r], UNCHANGED <<store, builds, reader>>,
           faults' \in 0..MaxFaults,
           r.target = job[j].target, r.build = job[j].build,
           Relies(r, coll, alias, builds),
           r.at # "idle" /\ Repairs(r, coll[r.target]) =>
               Alone(j) \/ Repairs(job[j], coll[job[j].target])
    PROVE  Inv'
<1>1. /\ coll' = coll /\ alias' = alias /\ builds' = builds /\ reader' = reader
      /\ job' \in [Jobs -> JobRecords] /\ job'[j] = r
      /\ \A k \in Jobs \ {j} : job'[k] = job[k]
  BY DEF store, Inv, TypeInv
<1>2. TypeInv' /\ StoreInv' /\ ReaderInv'
  BY <1>1 DEF Inv, TypeInv, StoreInv, ReaderInv
<1>3. JobsInv'
  BY <1>1 DEF Inv, JobsInv
<1>4. AloneInv'
  <2> SUFFICES ASSUME NEW k \in Jobs, NEW l \in Jobs, k # l, Running(k)', Running(l)'
               PROVE  /\ job'[k].build # job'[l].build
                      /\ job'[k].target = job'[l].target =>
                             ~Repairs(job'[k], coll[job'[k].target])
    BY <1>1 DEF AloneInv
  <2>1. CASE k # j /\ l # j
    BY <1>1, <2>1 DEF Running, Inv, AloneInv
  <2>2. CASE k = j
    <3>1. job'[k] = r /\ job'[l] = job[l] /\ Running(l)
      BY <1>1, <2>2 DEF Running
    <3> QED
      BY <2>2, <3>1 DEF Running, Inv, AloneInv, Alone
  <2>3. CASE l = j
    <3>1. job'[l] = r /\ job'[k] = job[k] /\ Running(k)
      BY <1>1, <2>3 DEF Running
    <3> QED
      BY <2>3, <3>1 DEF Running, Inv, AloneInv
  <2> QED
    BY <2>1, <2>2, <2>3
<1> QED
  BY <1>2, <1>3, <1>4 DEF Inv

\* A step of a job that writes its collection, and its own record: it is alone with the
\* snapshot, or it is the one that creates and fills the collection.
Writes(j, r, c) ==
    /\ Running(j) /\ r.target = job[j].target /\ r.build = job[j].build
    /\ job' = [job EXCEPT ![j] = r] /\ coll' = [coll EXCEPT ![job[j].target] = c]
    /\ UNCHANGED <<alias, builds, reader>> /\ faults' \in 0..MaxFaults
    /\ c.build \in {coll[job[j].target].build, job[j].build, 0}
    /\ Whole(c) /\ alias # job[j].target /\ Relies(r, coll', alias, builds)
    /\ r.at # "idle" /\ Repairs(r, c) => Alone(j)
    /\ \/ Alone(j)
       \/ /\ coll[job[j].target].state \in {"absent", "building"}
          /\ c.state \in {"building", "complete"} /\ c.build = job[j].build
          /\ coll[job[j].target].state = "building" =>
                 coll[job[j].target].build = job[j].build

LEMMA CollectionStep ==
    ASSUME Inv, NEW j \in Jobs, NEW r \in JobRecords, NEW c \in Collections, Writes(j, r, c)
    PROVE  Inv'
<1> USE DEF Writes
<1> DEFINE t == job[j].target
<1>1. t \in Snapshots /\ job[j].build \in 1..builds
  BY DEF Inv, JobsInv, Relies, Running
<1>2. /\ alias' = alias /\ builds' = builds /\ reader' = reader
      /\ job' \in [Jobs -> JobRecords] /\ job'[j] = r
      /\ \A k \in Jobs \ {j} : job'[k] = job[k]
      /\ coll' \in [Snapshots -> Collections] /\ coll'[t] = c
      /\ \A s \in Snapshots \ {t} : coll'[s] = coll[s]
  BY <1>1 DEF Inv, TypeInv
<1> HIDE DEF t
<1>3. TypeInv' /\ ReaderInv'
  BY <1>2 DEF Inv, TypeInv, ReaderInv
<1>4. coll[t].build \in 0..MaxBuilds /\ coll[t].build <= builds /\ builds \in Nat
  BY <1>1 DEF Inv, StoreInv, TypeInv, Collections, t
<1>5. StoreInv'
  BY <1>1, <1>2, <1>4 DEF Inv, StoreInv, t
<1>6. ASSUME NEW k \in Jobs, k # j, Running(k)
      PROVE  /\ Relies(job[k], coll', alias, builds)
             /\ job[k].target # t => coll'[job[k].target] = coll[job[k].target]
             /\ job[k].build # job[j].build
             /\ job[k].target = t => ~Repairs(job[k], c)
  <2>1. /\ Relies(job[k], coll, alias, builds) /\ job[k].target \in Snapshots
        /\ job[k].build \in 1..builds /\ job[k].build # job[j].build
    BY <1>6 DEF Inv, JobsInv, Relies, Running, AloneInv
  <2>2. \A s \in Snapshots : coll'[s].build = job[k].build => coll[s].build = job[k].build
    BY <1>1, <1>2, <1>4, <2>1 DEF t
  <2>3. CASE job[k].target # t
    BY <1>2, <1>6, <2>1, <2>2, <2>3 DEF Relies, Running
  <2>4. CASE job[k].target = t
    <3>1. ~Alone(j)
      BY <1>6, <2>4 DEF Alone, t
    <3>2. /\ coll[t].state \in {"absent", "building"} /\ c.build = job[j].build
          /\ c.state \in {"building", "complete"}
          /\ coll[t].state = "building" => coll[t].build = job[j].build
          /\ ~Repairs(job[k], coll[t])
      BY <1>6, <2>4, <3>1 DEF t, Inv, AloneInv, Running
    <3>3. coll[t].build # job[k].build
      BY <1>1, <2>1, <3>2 DEF Inv, StoreInv, Whole
    <3>4. job[k].at \notin {"upload", "verify", "complete", "recheck", "publish", "switch",
                            "reuse", "discard", "drop", "guard"}
      BY <1>6, <2>1, <2>4, <3>2, <3>3 DEF Relies, Repairs, Running
    <3>5. job[k].at = "decide" => job[k].state = "building"
      <4>1. job[k].state \in States
        BY DEF Inv, TypeInv, JobRecords
      <4> QED
        BY <1>6, <2>1, <2>4, <3>2, <4>1 DEF Relies, States, Running
    <3>6. Relies(job[k], coll', alias, builds)
      BY <2>1, <2>2, <3>4, <3>5 DEF Relies
    <3>7. ~Repairs(job[k], c)
      BY <2>1, <3>2, <3>4 DEF Repairs
    <3> QED
      BY <2>1, <2>4, <3>6, <3>7
  <2> QED
    BY <2>3, <2>4
<1>7. JobsInv'
  <2> SUFFICES ASSUME NEW k \in Jobs PROVE Relies(job'[k], coll', alias, builds)
    BY <1>2 DEF JobsInv
  <2>1. CASE k # j /\ ~Running(k)
    BY <1>2, <2>1 DEF Relies, Running
  <2> QED
    BY <1>2, <1>6, <2>1
<1>8. AloneInv'
  <2> SUFFICES ASSUME NEW k \in Jobs, NEW l \in Jobs, k # l, Running(k)', Running(l)'
               PROVE  /\ job'[k].build # job'[l].build
                      /\ job'[k].target = job'[l].target =>
                             ~Repairs(job'[k], coll'[job'[k].target])
    BY DEF AloneInv
  <2>1. CASE k # j /\ l # j
    <3>1. job'[k] = job[k] /\ job'[l] = job[l] /\ Running(k) /\ Running(l)
      BY <1>2, <2>1 DEF Running
    <3>2. CASE job[k].target = t
      BY <1>2, <1>6, <2>1, <3>1, <3>2 DEF Inv, AloneInv
    <3>3. CASE job[k].target # t
      BY <1>6, <2>1, <3>1, <3>3 DEF Inv, AloneInv
    <3> QED
      BY <3>2, <3>3
  <2>2. CASE k = j
    <3>1. job'[k] = r /\ job'[l] = job[l] /\ Running(l)
      BY <1>2, <2>2 DEF Running
    <3> QED
      BY <1>2, <1>6, <2>2, <3>1 DEF Running, Alone, t
  <2>3. CASE l = j
    <3>1. job'[l] = r /\ job'[k] = job[k] /\ Running(k)
      BY <1>2, <2>3 DEF Running
    <3> QED
      BY <1>2, <1>6, <2>3, <3>1 DEF t
  <2> QED
    BY <2>1, <2>2, <2>3
<1> QED
  BY <1>3, <1>5, <1>7, <1>8 DEF Inv

-----------------------------------------------------------------------------
(* The forms of a step.                                                    *)

MovedTo(j, stage) == [job[j] EXCEPT !.at = stage]
Ended(j, how) == [job[j] EXCEPT !.at = "idle", !.ended = how]
Hows == {"success", "error", "refused", "died"}

LEMMA MovedRecord ==
    ASSUME Inv, NEW j \in Jobs, NEW stage \in Stages
    PROVE  /\ MovedTo(j, stage) \in JobRecords /\ MovedTo(j, stage).at = stage
           /\ MovedTo(j, stage).target = job[j].target /\ MovedTo(j, stage).build = job[j].build
           /\ MovedTo(j, stage).state = job[j].state
           /\ Goto(j, stage) => job' = [job EXCEPT ![j] = MovedTo(j, stage)]
BY DEF Inv, TypeInv, JobRecords, MovedTo, Goto

LEMMA EndedRecord ==
    ASSUME Inv, NEW j \in Jobs, NEW how \in Hows
    PROVE  /\ Ended(j, how) \in JobRecords /\ Ended(j, how).at = "idle"
           /\ Ended(j, how).target = job[j].target /\ Ended(j, how).build = job[j].build
           /\ End(j, how) => job' = [job EXCEPT ![j] = Ended(j, how)]
BY DEF Inv, TypeInv, JobRecords, Ended, End, Hows, Stages

LEMMA EndStep ==
    ASSUME Inv, NEW j \in Jobs, Running(j), NEW how \in Hows, End(j, how),
           UNCHANGED <<store, builds, reader>>, faults' \in 0..MaxFaults
    PROVE  Inv'
<1>1. Relies(Ended(j, how), coll, alias, builds)
  BY EndedRecord DEF Relies
<1> QED
  BY <1>1, EndedRecord, RecordStep

LEMMA GotoStep ==
    ASSUME Inv, NEW j \in Jobs, Running(j), NEW stage \in Stages, Goto(j, stage),
           UNCHANGED <<store, builds, reader>>, faults' \in 0..MaxFaults,
           Relies(MovedTo(j, stage), coll, alias, builds),
           Repairs(MovedTo(j, stage), coll[job[j].target]) =>
               Alone(j) \/ Repairs(job[j], coll[job[j].target])
    PROVE  Inv'
BY MovedRecord, RecordStep

\* What a running job relies on, whatever its stage.
LEMMA RunningJob ==
    ASSUME Inv, NEW j \in Jobs, Running(j)
    PROVE  /\ job[j] \in JobRecords /\ job[j].target \in Snapshots
           /\ job[j].build \in 1..builds /\ builds \in 0..MaxBuilds
           /\ Relies(job[j], coll, alias, builds)
           /\ coll[job[j].target] \in Collections
           /\ Whole(coll[job[j].target])
           /\ faults \in 0..MaxFaults
           /\ Repairs(job[j], coll[job[j].target]) => Alone(j)
BY DEF Inv, TypeInv, JobsInv, StoreInv, AloneInv, Relies, Running, Alone

LEMMA CondemnRelies ==
    ASSUME Inv, NEW j \in Jobs, Running(j), job[j].at \notin BeforeCreation \ {"create"}
    PROVE  /\ Relies(MovedTo(j, "condemn"), coll, alias, builds)
           /\ "condemn" \in Stages
<1>1. "condemn" \in Stages
  BY DEF Stages
<1>2. /\ MovedTo(j, "condemn").at = "condemn" /\ MovedTo(j, "condemn").target = job[j].target
      /\ MovedTo(j, "condemn").build = job[j].build
  BY <1>1, MovedRecord
<1>3. Relies(job[j], coll, alias, builds)
  BY RunningJob
<1> QED
  BY <1>1, <1>2, <1>3 DEF Relies, Running, BeforeCreation

LEMMA OnErrorStep ==
    ASSUME Inv, NEW j \in Jobs, Running(j), Fault(j), OnError(j),
           UNCHANGED <<store, builds, reader>>
    PROVE  Inv'
<1>1. Alone(j) /\ faults' \in 0..MaxFaults
  BY FaultAlone
<1>2. CASE job[j].at \in {"create", "upload", "verify", "complete", "recheck"}
  <2>1. Goto(j, "condemn") /\ job[j].at \notin BeforeCreation \ {"create"}
    BY <1>2 DEF OnError, BeforeCreation
  <2> QED
    BY <1>1, <2>1, CondemnRelies, GotoStep
<1>3. CASE job[j].at \notin {"create", "upload", "verify", "complete", "recheck"}
  BY <1>1, <1>3, EndStep DEF OnError, Hows
<1> QED
  BY <1>2, <1>3

-----------------------------------------------------------------------------
(* The steps of a job that only read.                                      *)

LEMMA RecheckRollbackInv ==
    ASSUME Inv, NEW j \in Jobs, RecheckRollback(j)
    PROVE  Inv'
<1>1. /\ Running(j) /\ job[j].at = "recheck_rollback" /\ UNCHANGED <<store, builds, reader>>
  BY DEF RecheckRollback, Read, At, Running
<1>2. CASE Fault(j) /\ OnError(j)
  BY <1>1, <1>2, OnErrorStep
<1>3. CASE /\ UNCHANGED faults
           /\ IF Valid(Target(j), "complete") THEN Goto(j, "publish") ELSE End(j, "error")
  <2>1. CASE Valid(Target(j), "complete")
    <3>1. "publish" \in Stages
      BY DEF Stages
    <3>2. Relies(MovedTo(j, "publish"), coll, alias, builds)
      BY <1>1, <2>1, <3>1, MovedRecord, RunningJob
         DEF Relies, Running, BeforeCreation, Valid, Target
    <3>3. ~Repairs(MovedTo(j, "publish"), coll[job[j].target])
      BY <2>1, <3>1, MovedRecord DEF Repairs, Valid, Target
    <3> QED
      BY <1>1, <1>3, <2>1, <3>1, <3>2, <3>3, RunningJob, GotoStep
  <2>2. CASE ~Valid(Target(j), "complete")
    BY <1>1, <1>3, <2>2, RunningJob, EndStep DEF Hows
  <2> QED
    BY <2>1, <2>2
<1> QED
  BY <1>2, <1>3 DEF RecheckRollback, Read

LEMMA InspectInv ==
    ASSUME Inv, NEW j \in Jobs, Inspect(j)
    PROVE  Inv'
<1>1. Running(j) /\ job[j].at = "inspect" /\ UNCHANGED <<store, builds, reader>>
  BY DEF Inspect, Read, At, Running
<1>2. CASE Fault(j) /\ OnError(j)
  BY <1>1, <1>2, OnErrorStep
<1>3. CASE ~(Fault(j) /\ OnError(j))
  <2> DEFINE found == coll[job[j].target].state
             r == [job[j] EXCEPT !.state = found,
                                 !.at = IF found = "absent" THEN "create" ELSE "decide"]
  <2>1. UNCHANGED faults /\ job' = [job EXCEPT ![j] = r]
    BY <1>3 DEF Inspect, Read, Target, Inv, TypeInv
  <2>2. found \in States /\ job[j] \in JobRecords /\ "create" \in Stages /\ "decide" \in Stages
    BY <1>1, RunningJob DEF Collections, Stages
  <2>3. /\ r \in JobRecords /\ r.target = job[j].target /\ r.build = job[j].build
        /\ r.state = found /\ r.at = IF found = "absent" THEN "create" ELSE "decide"
    BY <2>2 DEF JobRecords
  <2> HIDE DEF r
  <2>4. Relies(r, coll, alias, builds)
    BY <1>1, <2>2, <2>3, RunningJob DEF Relies, BeforeCreation, States, Running
  <2>5. Repairs(r, coll[r.target]) => Repairs(job[j], coll[job[j].target])
    BY <2>3 DEF Repairs
  <2> QED
    BY <1>1, <2>1, <2>3, <2>4, <2>5, RunningJob, RecordStep
<1> QED
  BY <1>2, <1>3

LEMMA DecideInv ==
    ASSUME Inv, NEW j \in Jobs, Decide(j)
    PROVE  Inv'
<1>1. Running(j) /\ job[j].at = "decide" /\ UNCHANGED <<store, builds, reader>>
  BY DEF Decide, Read, At, Running
<1>2. CASE Fault(j) /\ OnError(j)
  BY <1>1, <1>2, OnErrorStep
<1>3. CASE ~(Fault(j) /\ OnError(j))
  <2>1. /\ UNCHANGED faults
        /\ CASE job[j].state = "building" -> End(j, "refused")
             [] job[j].state = "complete" ->
                    job' = [job EXCEPT ![j].active = alias, ![j].at = "reuse"]
             [] job[j].state = "failed" ->
                    IF alias = Target(j) THEN End(j, "refused") ELSE Goto(j, "guard")
    BY <1>3 DEF Decide, Read
  <2>2. /\ job[j].state \in {"building", "complete", "failed"} /\ faults' \in 0..MaxFaults
        /\ job[j].state # "building" => coll[job[j].target].state = job[j].state
    BY <1>1, <2>1, RunningJob DEF Relies, JobRecords, States, Running
  <2>3. CASE End(j, "refused")
    BY <1>1, <2>2, <2>3, EndStep DEF Hows
  <2>4. CASE job[j].state = "complete"
    <3> DEFINE r == [job[j] EXCEPT !.active = alias, !.at = "reuse"]
    <3>1. job' = [job EXCEPT ![j] = r]
      BY <2>1, <2>4 DEF Inv, TypeInv
    <3>2. /\ r \in JobRecords /\ r.target = job[j].target /\ r.build = job[j].build
          /\ r.at = "reuse"
      BY <1>1, RunningJob DEF JobRecords, Stages, Inv, TypeInv
    <3> HIDE DEF r
    <3>3. Relies(r, coll, alias, builds)
      BY <1>1, <2>2, <2>4, <3>2, RunningJob DEF Relies, BeforeCreation, Running
    <3>4. Repairs(r, coll[r.target]) => Repairs(job[j], coll[job[j].target])
      BY <3>2 DEF Repairs
    <3> QED
      BY <1>1, <2>2, <3>1, <3>2, <3>3, <3>4, RecordStep
  <2>5. CASE job[j].state = "failed" /\ Goto(j, "guard")
    <3>1. "guard" \in Stages
      BY DEF Stages
    <3>2. Relies(MovedTo(j, "guard"), coll, alias, builds)
      BY <1>1, <3>1, MovedRecord, RunningJob DEF Relies, BeforeCreation, Running
    <3>3. Repairs(job[j], coll[job[j].target])
      BY <2>2, <2>5 DEF Repairs
    <3> QED
      BY <1>1, <2>2, <2>5, <3>1, <3>2, <3>3, GotoStep
  <2> QED
    BY <2>1, <2>2, <2>3, <2>4, <2>5
<1> QED
  BY <1>2, <1>3

LEMMA ReuseInv ==
    ASSUME Inv, NEW j \in Jobs, Reuse(j)
    PROVE  Inv'
<1>1. /\ Running(j) /\ job[j].at = "reuse" /\ UNCHANGED <<store, builds, reader>>
  BY DEF Reuse, At, Running
<1>2. Valid(Target(j), "complete")
  BY <1>1, RunningJob DEF Relies, Whole, Valid, Target, Running
<1>3. faults' \in 0..MaxFaults
  BY <1>1, FaultAlone, RunningJob DEF Reuse
<1>4. "publish" \in Stages /\ "guard" \in Stages
  BY DEF Stages
<1>5. CASE \E how \in Hows : End(j, how)
  BY <1>1, <1>3, <1>5, EndStep
<1>6. CASE Goto(j, "publish")
  <2>1. Relies(MovedTo(j, "publish"), coll, alias, builds)
    BY <1>1, <1>4, MovedRecord, RunningJob DEF Relies, BeforeCreation, Running
  <2>2. ~Repairs(MovedTo(j, "publish"), coll[job[j].target])
    BY <1>2, <1>4, MovedRecord DEF Repairs, Valid, Target
  <2> QED
    BY <1>1, <1>3, <1>4, <1>6, <2>1, <2>2, GotoStep
<1>7. CASE Goto(j, "guard") /\ Fault(j)
  <2>1. Relies(MovedTo(j, "guard"), coll, alias, builds)
    BY <1>1, <1>4, MovedRecord, RunningJob DEF Relies, BeforeCreation, Running
  <2> QED
    BY <1>1, <1>3, <1>4, <1>7, <2>1, FaultAlone, GotoStep
<1> QED
  BY <1>2, <1>5, <1>6, <1>7 DEF Reuse, Hows

LEMMA GuardDropInv ==
    ASSUME Inv, NEW j \in Jobs, GuardDrop(j)
    PROVE  Inv'
<1>1. Running(j) /\ job[j].at = "guard" /\ UNCHANGED <<store, builds, reader>>
  BY DEF GuardDrop, Read, At, Running
<1>2. CASE Fault(j) /\ OnError(j)
  BY <1>1, <1>2, OnErrorStep
<1>3. CASE UNCHANGED faults /\ End(j, "refused")
  BY <1>1, <1>3, RunningJob, EndStep DEF Hows
<1>4. CASE UNCHANGED faults /\ alias # job[j].target /\ Goto(j, "drop")
  <2>1. "drop" \in Stages
    BY DEF Stages
  <2>2. Relies(MovedTo(j, "drop"), coll, alias, builds)
    BY <1>1, <1>4, <2>1, MovedRecord, RunningJob DEF Relies, BeforeCreation, Running
  <2>3. Repairs(job[j], coll[job[j].target])
    BY <1>1 DEF Repairs
  <2> QED
    BY <1>1, <1>4, <2>1, <2>2, <2>3, RunningJob, GotoStep
<1> QED
  BY <1>2, <1>3, <1>4 DEF GuardDrop, Read, Target

LEMMA VerifyInv ==
    ASSUME Inv, NEW j \in Jobs, Verify(j)
    PROVE  Inv'
<1>1. Running(j) /\ job[j].at = "verify" /\ UNCHANGED <<store, builds, reader>>
  BY DEF Verify, Read, At, Running
<1>2. CASE Fault(j) /\ OnError(j)
  BY <1>1, <1>2, OnErrorStep
<1>3. CASE ~(Fault(j) /\ OnError(j))
  <2>1. Valid(Target(j), "building")
    BY <1>1, RunningJob DEF Relies, Valid, Target, Running
  <2>2. UNCHANGED faults /\ Goto(j, "complete") /\ "complete" \in Stages
    BY <1>3, <2>1 DEF Verify, Read, Stages
  <2>3. Relies(MovedTo(j, "complete"), coll, alias, builds)
    BY <1>1, <2>2, MovedRecord, RunningJob DEF Relies, BeforeCreation, Running
  <2>4. ~Repairs(MovedTo(j, "complete"), coll[job[j].target])
    BY <2>1, <2>2, MovedRecord DEF Repairs, Valid, Target
  <2> QED
    BY <1>1, <2>2, <2>3, <2>4, RunningJob, GotoStep
<1> QED
  BY <1>2, <1>3

LEMMA RecheckInv ==
    ASSUME Inv, NEW j \in Jobs, Recheck(j)
    PROVE  Inv'
<1>1. Running(j) /\ job[j].at = "recheck" /\ UNCHANGED <<store, builds, reader>>
  BY DEF Recheck, Read, At, Running
<1>2. CASE Fault(j) /\ OnError(j)
  BY <1>1, <1>2, OnErrorStep
<1>3. CASE ~(Fault(j) /\ OnError(j))
  <2>1. Valid(Target(j), "complete")
    BY <1>1, RunningJob DEF Relies, Whole, Valid, Target, Running
  <2>2. UNCHANGED faults /\ Goto(j, "publish") /\ "publish" \in Stages
    BY <1>3, <2>1 DEF Recheck, Read, Stages
  <2>3. Relies(MovedTo(j, "publish"), coll, alias, builds)
    BY <1>1, <2>2, MovedRecord, RunningJob DEF Relies, BeforeCreation, Running
  <2>4. ~Repairs(MovedTo(j, "publish"), coll[job[j].target])
    BY <2>1, <2>2, MovedRecord DEF Repairs, Valid, Target
  <2> QED
    BY <1>1, <2>2, <2>3, <2>4, RunningJob, GotoStep
<1> QED
  BY <1>2, <1>3

LEMMA PublishInv ==
    ASSUME Inv, NEW j \in Jobs, Publish(j)
    PROVE  Inv'
<1>1. Running(j) /\ job[j].at = "publish" /\ UNCHANGED <<store, builds, reader>>
  BY DEF Publish, Read, At, Running
<1>2. CASE Fault(j) /\ OnError(j)
  BY <1>1, <1>2, OnErrorStep
<1>3. CASE ~(Fault(j) /\ OnError(j))
  <2>1. Valid(Target(j), "complete")
    BY <1>1, RunningJob DEF Relies, Whole, Valid, Target, Running
  <2>2. UNCHANGED faults /\ Goto(j, "switch") /\ "switch" \in Stages
    BY <1>3, <2>1 DEF Publish, Read, Stages
  <2>3. Relies(MovedTo(j, "switch"), coll, alias, builds)
    BY <1>1, <2>2, MovedRecord, RunningJob DEF Relies, BeforeCreation, Running
  <2>4. ~Repairs(MovedTo(j, "switch"), coll[job[j].target])
    BY <2>1, <2>2, MovedRecord DEF Repairs, Valid, Target
  <2> QED
    BY <1>1, <2>2, <2>3, <2>4, RunningJob, GotoStep
<1> QED
  BY <1>2, <1>3

LEMMA CondemnInv ==
    ASSUME Inv, NEW j \in Jobs, Condemn(j)
    PROVE  Inv'
<1>1. Running(j) /\ job[j].at = "condemn" /\ UNCHANGED <<store, builds, reader>>
  BY DEF Condemn, At, Running
<1>2. faults' \in 0..MaxFaults
  BY <1>1, FaultAlone, RunningJob DEF Condemn
<1>3. CASE End(j, "error")
  BY <1>1, <1>2, <1>3, EndStep DEF Hows
<1>4. CASE /\ alias # Target(j) /\ coll[Target(j)].build = job[j].build /\ Goto(j, "discard")
  <2>1. "discard" \in Stages
    BY DEF Stages
  <2>2. Relies(MovedTo(j, "discard"), coll, alias, builds)
    BY <1>1, <1>4, <2>1, MovedRecord, RunningJob DEF Relies, BeforeCreation, Running, Target
  <2>3. Repairs(job[j], coll[job[j].target])
    BY <1>1, <1>4 DEF Repairs, Target
  <2> QED
    BY <1>1, <1>2, <1>4, <2>1, <2>2, <2>3, GotoStep
<1> QED
  BY <1>3, <1>4 DEF Condemn

LEMMA DieInv ==
    ASSUME Inv, NEW j \in Jobs, Die(j)
    PROVE  Inv'
BY FaultAlone, EndStep DEF Die, At, Running, Hows

-----------------------------------------------------------------------------
(* The steps of a job that write.                                          *)

LEMMA DropInv ==
    ASSUME Inv, NEW j \in Jobs, Drop(j)
    PROVE  Inv'
<1>1. Running(j) /\ job[j].at = "drop" /\ UNCHANGED <<builds, reader>>
  BY DEF Drop, Write, At, Running
<1>2. Alone(j) /\ alias # job[j].target /\ job[j].target \in Snapshots /\ faults' \in 0..MaxFaults
  BY <1>1, RunningJob, FaultAlone DEF Repairs, Relies, Drop, Write, Running
<1>3. CASE UNCHANGED store /\ Fault(j) /\ OnError(j)
  BY <1>1, <1>3, OnErrorStep
<1>4. CASE ~(UNCHANGED store /\ Fault(j) /\ OnError(j))
  <2>1. /\ coll' = [coll EXCEPT ![job[j].target] = Absent] /\ alias' = alias
        /\ Goto(j, "create") \/ OnError(j)
    BY <1>2, <1>4 DEF Drop, Write, Target
  <2>2. PICK r \in {MovedTo(j, "create"), Ended(j, "error")} : job' = [job EXCEPT ![j] = r]
    BY <1>1, <2>1, MovedRecord, EndedRecord DEF OnError, Stages, Hows
  <2>3. /\ r \in JobRecords /\ r.target = job[j].target /\ r.build = job[j].build
        /\ r.at \in {"create", "idle"}
    <3>1. /\ MovedTo(j, "create") \in JobRecords /\ MovedTo(j, "create").target = job[j].target
         /\ MovedTo(j, "create").build = job[j].build /\ MovedTo(j, "create").at = "create"
      BY MovedRecord DEF Stages
    <3>2. /\ Ended(j, "error") \in JobRecords /\ Ended(j, "error").target = job[j].target
         /\ Ended(j, "error").build = job[j].build /\ Ended(j, "error").at = "idle"
      BY EndedRecord DEF Hows
    <3> QED
      BY <2>2, <3>1, <3>2
  <2>4. Absent \in Collections /\ Whole(Absent) /\ Absent.build = 0 /\ Absent.state = "absent"
    BY SnapshotsAssumption DEF Absent, Collections, States, Whole
  <2>5. Relies(r, coll', alias, builds)
    <3>1. \A s \in Snapshots : coll'[s].build # job[j].build
      BY <1>1, <1>2, <2>1, <2>4, RunningJob DEF Relies, BeforeCreation, Running, Inv, TypeInv
    <3> QED
      BY <1>1, <2>3, <3>1, RunningJob DEF Relies
  <2>6. r.at # "idle" => ~Repairs(r, Absent)
    BY <2>3, <2>4 DEF Repairs
  <2>7. Writes(j, r, Absent)
    BY <1>1, <1>2, <2>1, <2>2, <2>3, <2>4, <2>5, <2>6 DEF Writes
  <2> QED
    BY <2>3, <2>4, <2>7, CollectionStep
<1> QED
  BY <1>3, <1>4

LEMMA CreateInv ==
    ASSUME Inv, NEW j \in Jobs, Create(j)
    PROVE  Inv'
<1>1. Running(j) /\ job[j].at = "create" /\ UNCHANGED <<builds, reader>>
  BY DEF Create, Write, At, Running
<1>2. job[j].target \in Snapshots /\ (Fault(j) => Alone(j)) /\ faults' \in 0..MaxFaults
  BY <1>1, RunningJob, FaultAlone DEF Create, Write
<1>3. CASE UNCHANGED store /\ Fault(j) /\ OnError(j)
  BY <1>1, <1>3, OnErrorStep
<1>4. CASE coll[job[j].target].state # "absent"
  <2>1. Goto(j, "condemn") /\ UNCHANGED store
    BY <1>4 DEF Create, Target
  <2>2. Relies(MovedTo(j, "condemn"), coll, alias, builds) /\ "condemn" \in Stages
    BY <1>1, CondemnRelies DEF BeforeCreation
  <2>3. Repairs(MovedTo(j, "condemn"), coll[job[j].target]) =>
            Repairs(job[j], coll[job[j].target])
    BY <1>1, <2>2, MovedRecord, RunningJob DEF Repairs, Relies, BeforeCreation, Running
  <2> QED
    BY <1>1, <1>2, <2>1, <2>2, <2>3, GotoStep
<1>5. CASE /\ coll[job[j].target].state = "absent"
           /\ ~(UNCHANGED store /\ Fault(j) /\ OnError(j))
  <2> DEFINE c == [state |-> "building", build |-> job[j].build, points |-> 0]
  <2>1. /\ coll' = [coll EXCEPT ![job[j].target] = c] /\ alias' = alias
        /\ Goto(j, "upload") \/ (Fault(j) /\ OnError(j))
    BY <1>5 DEF Create, Write, Target
  <2>2. PICK r \in {MovedTo(j, "upload"), MovedTo(j, "condemn")} :
          /\ job' = [job EXCEPT ![j] = r]
          /\ r = MovedTo(j, "upload") \/ Fault(j)
    BY <1>1, <2>1, MovedRecord DEF OnError, Stages
  <2>3. /\ r \in JobRecords /\ r.target = job[j].target /\ r.build = job[j].build
        /\ r.at \in {"upload", "condemn"} /\ (r.at = "upload" \/ Fault(j))
    <3>1. /\ MovedTo(j, "upload") \in JobRecords /\ MovedTo(j, "upload").target = job[j].target
         /\ MovedTo(j, "upload").build = job[j].build /\ MovedTo(j, "upload").at = "upload"
      BY MovedRecord DEF Stages
    <3>2. /\ MovedTo(j, "condemn") \in JobRecords /\ MovedTo(j, "condemn").target = job[j].target
         /\ MovedTo(j, "condemn").build = job[j].build /\ MovedTo(j, "condemn").at = "condemn"
      BY MovedRecord DEF Stages
    <3> QED
      BY <2>2, <3>1, <3>2
  <2>4. c \in Collections /\ Whole(c)
    BY <1>1, RunningJob, SnapshotsAssumption DEF Collections, States, Whole
  <2>5. alias # job[j].target
    BY <1>2, <1>5 DEF Inv, StoreInv
  <2>6. Relies(r, coll', alias, builds)
    <3>1. /\ coll'[job[j].target] = c
          /\ \A s \in Snapshots : coll'[s].build = job[j].build => s = job[j].target
      BY <1>1, <1>2, <2>1, RunningJob DEF Relies, BeforeCreation, Running, Inv, TypeInv
    <3> QED
      BY <1>1, <2>3, <3>1, RunningJob, SnapshotsAssumption DEF Relies, BeforeCreation
  <2>7. Repairs(r, c) => Alone(j)
    BY <1>2, <2>3 DEF Repairs
  <2> HIDE DEF c
  <2>8. c.build = job[j].build /\ c.state = "building"
    BY DEF c
  <2>9. Writes(j, r, c)
    BY <1>1, <1>2, <1>5, <2>1, <2>2, <2>3, <2>4, <2>5, <2>6, <2>7, <2>8 DEF Writes
  <2> QED
    BY <2>3, <2>4, <2>9, CollectionStep
<1> QED
  BY <1>3, <1>4, <1>5

LEMMA UploadInv ==
    ASSUME Inv, NEW j \in Jobs, Upload(j)
    PROVE  Inv'
<1>1. Running(j) /\ job[j].at = "upload" /\ UNCHANGED <<builds, reader>>
  BY DEF Upload, Write, At, Running
<1>2. job[j].target \in Snapshots /\ (Fault(j) => Alone(j)) /\ faults' \in 0..MaxFaults
  BY <1>1, RunningJob, FaultAlone DEF Upload, Write
<1>3. CASE UNCHANGED store /\ Fault(j) /\ OnError(j)
  BY <1>1, <1>3, OnErrorStep
<1>4. CASE ~(UNCHANGED store /\ Fault(j) /\ OnError(j))
  <2> DEFINE old == coll[job[j].target]
             c == [old EXCEPT !.points = @ + 1]
  <2>1. /\ old \in Collections /\ old.state = "building" /\ old.build = job[j].build
        /\ old.points < Batches
    BY <1>1, RunningJob DEF Relies, Running
  <2>2. coll' = [coll EXCEPT ![job[j].target] = c] /\ alias' = alias
    BY <1>2, <1>4 DEF Upload, Write, Target, Inv, TypeInv
  <2>3. /\ c \in Collections /\ c.state = "building" /\ c.build = job[j].build
        /\ c.points = old.points + 1 /\ Whole(c)
    BY <2>1, SnapshotsAssumption DEF Collections, Whole
  <2>4. coll'[job[j].target] = c
    BY <1>2, <2>2 DEF Inv, TypeInv
  <2>5. PICK r \in {MovedTo(j, "upload"), MovedTo(j, "verify"), MovedTo(j, "condemn")} :
          /\ job' = [job EXCEPT ![j] = r]
          /\ r = MovedTo(j, "condemn") => Fault(j)
          /\ r = MovedTo(j, "upload") => c.points # Batches
          /\ r = MovedTo(j, "verify") => c.points = Batches
    <3>1. "upload" \in Stages /\ "verify" \in Stages /\ "condemn" \in Stages
      BY DEF Stages
    <3>2. \/ c.points = Batches /\ Goto(j, "verify")
          \/ c.points # Batches /\ Goto(j, "upload")
          \/ Fault(j) /\ Goto(j, "condemn")
      BY <1>1, <1>4, <2>4 DEF Upload, Write, OnError, Target
    <3> HIDE DEF c
    <3>3. /\ MovedTo(j, "upload").at = "upload" /\ MovedTo(j, "verify").at = "verify"
          /\ MovedTo(j, "condemn").at = "condemn"
      BY <3>1, MovedRecord
    <3> QED
      BY <3>1, <3>2, <3>3, MovedRecord
  <2>6. /\ r \in JobRecords /\ r.target = job[j].target /\ r.build = job[j].build
        /\ \/ r.at = "upload" /\ c.points # Batches
           \/ r.at = "verify" /\ c.points = Batches
           \/ r.at = "condemn" /\ Fault(j)
    <3>1. /\ MovedTo(j, "upload") \in JobRecords /\ MovedTo(j, "upload").target = job[j].target
         /\ MovedTo(j, "upload").build = job[j].build /\ MovedTo(j, "upload").at = "upload"
      BY MovedRecord DEF Stages
    <3>2. /\ MovedTo(j, "verify") \in JobRecords /\ MovedTo(j, "verify").target = job[j].target
         /\ MovedTo(j, "verify").build = job[j].build /\ MovedTo(j, "verify").at = "verify"
      BY MovedRecord DEF Stages
    <3>3. /\ MovedTo(j, "condemn") \in JobRecords /\ MovedTo(j, "condemn").target = job[j].target
         /\ MovedTo(j, "condemn").build = job[j].build /\ MovedTo(j, "condemn").at = "condemn"
      BY MovedRecord DEF Stages
    <3> HIDE DEF c
    <3> QED
      BY <2>5, <3>1, <3>2, <3>3
  <2> HIDE DEF c
  <2>7. alias # job[j].target
    BY <1>2, <2>1 DEF Inv, StoreInv
  <2>8. Relies(r, coll', alias, builds)
    <3>1. \A s \in Snapshots : coll'[s].build = job[j].build => s = job[j].target
      BY <1>1, <1>2, <2>2, RunningJob DEF Relies, Running, Inv, TypeInv
    <3>2. c.points < Batches \/ c.points = Batches
      BY <2>1, <2>3, SnapshotsAssumption DEF Collections
    <3> QED
      BY <1>1, <2>3, <2>4, <2>6, <3>1, <3>2, RunningJob DEF Relies, BeforeCreation
  <2>9. Repairs(r, c) => Alone(j)
    BY <1>2, <2>3, <2>6 DEF Repairs
  <2>10. Writes(j, r, c)
    BY <1>1, <1>2, <2>1, <2>2, <2>3, <2>5, <2>6, <2>7, <2>8, <2>9 DEF Writes
  <2> QED
    BY <2>3, <2>6, <2>10, CollectionStep
<1> QED
  BY <1>3, <1>4

LEMMA CompleteInv ==
    ASSUME Inv, NEW j \in Jobs, Complete(j)
    PROVE  Inv'
<1>1. Running(j) /\ job[j].at = "complete" /\ UNCHANGED <<builds, reader>>
  BY DEF Complete, Write, At, Running
<1>2. job[j].target \in Snapshots /\ (Fault(j) => Alone(j)) /\ faults' \in 0..MaxFaults
  BY <1>1, RunningJob, FaultAlone DEF Complete, Write
<1>3. CASE UNCHANGED store /\ Fault(j) /\ OnError(j)
  BY <1>1, <1>3, OnErrorStep
<1>4. CASE ~(UNCHANGED store /\ Fault(j) /\ OnError(j))
  <2> DEFINE old == coll[job[j].target]
             c == [old EXCEPT !.state = "complete"]
  <2>1. /\ old \in Collections /\ old.state = "building" /\ old.build = job[j].build
        /\ old.points = Batches
    BY <1>1, RunningJob DEF Relies, Running
  <2>2. coll' = [coll EXCEPT ![job[j].target] = c] /\ alias' = alias
    BY <1>2, <1>4 DEF Complete, Write, Target, Inv, TypeInv
  <2>3. /\ c \in Collections /\ c.state = "complete" /\ c.build = job[j].build
        /\ Whole(c)
    BY <2>1 DEF Collections, States, Whole
  <2>4. coll'[job[j].target] = c
    BY <1>2, <2>2 DEF Inv, TypeInv
  <2> HIDE DEF c
  <2>5. PICK r \in {MovedTo(j, "recheck"), MovedTo(j, "condemn")} :
          /\ job' = [job EXCEPT ![j] = r]
          /\ r = MovedTo(j, "recheck") \/ Fault(j)
    BY <1>1, <1>4, MovedRecord DEF Complete, Write, OnError, Stages
  <2>6. /\ r \in JobRecords /\ r.target = job[j].target /\ r.build = job[j].build
        /\ r.at \in {"recheck", "condemn"} /\ (r.at = "recheck" \/ Fault(j))
    <3>1. /\ MovedTo(j, "recheck") \in JobRecords
          /\ MovedTo(j, "recheck").target = job[j].target
          /\ MovedTo(j, "recheck").build = job[j].build /\ MovedTo(j, "recheck").at = "recheck"
      BY MovedRecord DEF Stages
    <3>2. /\ MovedTo(j, "condemn") \in JobRecords
          /\ MovedTo(j, "condemn").target = job[j].target
          /\ MovedTo(j, "condemn").build = job[j].build /\ MovedTo(j, "condemn").at = "condemn"
      BY MovedRecord DEF Stages
    <3> QED
      BY <2>5, <3>1, <3>2
  <2>7. alias # job[j].target
    BY <1>2, <2>1 DEF Inv, StoreInv
  <2>8. Relies(r, coll', alias, builds)
    <3>1. \A s \in Snapshots : coll'[s].build = job[j].build => s = job[j].target
      BY <1>1, <1>2, <2>2, RunningJob DEF Relies, Running, Inv, TypeInv
    <3> QED
      BY <1>1, <2>3, <2>4, <2>6, <3>1, RunningJob DEF Relies, BeforeCreation
  <2>9. Repairs(r, c) => Alone(j)
    BY <1>2, <2>3, <2>6 DEF Repairs
  <2>10. Writes(j, r, c)
    BY <1>1, <1>2, <2>1, <2>2, <2>3, <2>5, <2>6, <2>7, <2>8, <2>9 DEF Writes
  <2> QED
    BY <2>3, <2>6, <2>10, CollectionStep
<1> QED
  BY <1>3, <1>4

LEMMA DiscardInv ==
    ASSUME Inv, NEW j \in Jobs, Discard(j)
    PROVE  Inv'
<1>1. /\ Running(j) /\ job[j].at = "discard" /\ End(j, "error")
      /\ UNCHANGED <<alias, builds, reader>>
  BY DEF Discard, At, Running
<1>2. faults' \in 0..MaxFaults
  BY <1>1, FaultAlone, RunningJob DEF Discard
<1>3. CASE UNCHANGED coll
  BY <1>1, <1>2, <1>3, EndStep DEF Hows, store
<1>4. CASE coll' = [coll EXCEPT ![job[j].target].state = "failed"]
  <2> DEFINE old == coll[job[j].target]
             c == [old EXCEPT !.state = "failed"]
             r == Ended(j, "error")
  <2>1. /\ old \in Collections /\ old.build = job[j].build /\ alias # job[j].target
        /\ job[j].target \in Snapshots /\ Alone(j)
    BY <1>1, RunningJob DEF Relies, Running, Repairs
  <2>2. coll' = [coll EXCEPT ![job[j].target] = c]
    BY <1>4, <2>1 DEF Inv, TypeInv
  <2>3. c \in Collections /\ c.state = "failed" /\ c.build = job[j].build /\ Whole(c)
    BY <2>1 DEF Collections, States, Whole
  <2>4. /\ r \in JobRecords /\ r.target = job[j].target /\ r.build = job[j].build
        /\ r.at = "idle" /\ job' = [job EXCEPT ![j] = r]
    BY <1>1, EndedRecord DEF Hows
  <2> HIDE DEF c, r
  <2>5. Relies(r, coll', alias, builds)
    BY <2>4 DEF Relies
  <2>6. Writes(j, r, c)
    BY <1>1, <1>2, <2>1, <2>2, <2>3, <2>4, <2>5 DEF Writes
  <2> QED
    BY <2>3, <2>4, <2>6, CollectionStep
<1> QED
  BY <1>3, <1>4 DEF Discard, Target

LEMMA SwitchInv ==
    ASSUME Inv, NEW j \in Jobs, Switch(j)
    PROVE  Inv'
<1>1. Running(j) /\ job[j].at = "switch" /\ UNCHANGED <<builds, reader>>
  BY DEF Switch, Write, At, Running
<1>2. faults' \in 0..MaxFaults
  BY <1>1, FaultAlone, RunningJob DEF Switch, Write
<1>3. CASE UNCHANGED store
  <2>1. End(j, "success") \/ End(j, "error")
    BY <1>1, <1>3 DEF Switch, Write, OnError
  <2> QED
    BY <1>1, <1>2, <1>3, <2>1, EndStep DEF Hows
<1>4. CASE alias' = job[j].target /\ UNCHANGED coll
  <2>1. PICK r \in {Ended(j, "success"), Ended(j, "error")} : job' = [job EXCEPT ![j] = r]
    BY <1>1, EndedRecord DEF Switch, Write, OnError, Hows
  <2>2. r \in JobRecords /\ r.at = "idle"
    <3>1. Ended(j, "success") \in JobRecords /\ Ended(j, "success").at = "idle"
      BY EndedRecord DEF Hows
    <3>2. Ended(j, "error") \in JobRecords /\ Ended(j, "error").at = "idle"
      BY EndedRecord DEF Hows
    <3> QED
      BY <2>1, <3>1, <3>2
  <2>3. /\ job' \in [Jobs -> JobRecords] /\ job'[j].at = "idle"
        /\ \A k \in Jobs \ {j} : job'[k] = job[k]
    BY <2>1, <2>2 DEF Inv, TypeInv
  <2>4. /\ job[j].target \in Snapshots /\ coll[job[j].target].state = "complete"
        /\ Relies(job[j], coll, alias, builds)
    BY <1>1, RunningJob DEF Relies, Running
  <2>5. TypeInv' /\ StoreInv' /\ ReaderInv'
    <3>1. alias' \in Snapshots /\ alias' \in Names /\ alias' # None
      BY <1>4, <2>4, SnapshotsAssumption DEF Names
    <3> QED
      BY <1>1, <1>2, <1>4, <2>3, <2>4, <3>1 DEF Inv, TypeInv, StoreInv, ReaderInv
  <2>6. JobsInv'
    <3> SUFFICES ASSUME NEW k \in Jobs PROVE Relies(job'[k], coll, alias', builds)
      BY <1>1, <1>4 DEF JobsInv
    <3>1. CASE k = j
      BY <2>3, <3>1 DEF Relies
    <3>2. CASE k # j /\ job[k].target = job[j].target /\ Running(k)
      <4>1. ~Repairs(job[k], coll[job[k].target]) /\ Relies(job[k], coll, alias, builds)
        BY <1>1, <3>2, RunningJob DEF Inv, AloneInv
      <4>2. job[k].at # "drop" /\ job[k].at # "discard"
        BY <3>2, <4>1 DEF Repairs, Relies, Running
      <4> QED
        BY <2>3, <3>2, <4>1, <4>2 DEF Relies
    <3>3. CASE k # j /\ (job[k].target # job[j].target \/ ~Running(k))
      BY <1>4, <2>3, <3>3 DEF Relies, Running, Inv, JobsInv
    <3> QED
      BY <3>1, <3>2, <3>3
  <2>7. AloneInv'
    BY <1>4, <2>3 DEF Inv, AloneInv, Running
  <2> QED
    BY <2>5, <2>6, <2>7 DEF Inv
<1> QED
  BY <1>3, <1>4 DEF Switch, Write, Target, store

-----------------------------------------------------------------------------
(* A job starts, the service reads.                                        *)

LEMMA StartInv ==
    ASSUME Inv, NEW j \in Jobs, NEW s \in Snapshots,
           NEW stage \in {"inspect", "recheck_rollback"}, Start(j, s, stage)
    PROVE  Inv'
<1> DEFINE r == [NoJob EXCEPT !.at = stage, !.target = s, !.build = builds + 1]
<1>1. /\ ~Running(j) /\ builds < MaxBuilds /\ builds' = builds + 1
      /\ coll' = coll /\ alias' = alias /\ faults' = faults /\ reader' = reader
      /\ \A k \in Jobs \ {j} : Running(k) /\ job[k].target = s =>
             ~Repairs(job[k], coll[job[k].target])
  BY DEF Start, At, Running, Target, Repairing, Repairs, store
<1>2. builds \in Nat /\ builds' \in 0..MaxBuilds /\ MaxBuilds \in Nat
  BY <1>1, SnapshotsAssumption DEF Inv, TypeInv
<1>3. /\ r \in JobRecords /\ r.at = stage /\ r.target = s /\ r.build = builds'
      /\ job' = [job EXCEPT ![j] = r]
  BY <1>1, <1>2 DEF Start, NoJob, JobRecords, Stages, Names, States
<1> HIDE DEF r
<1>4. /\ job' \in [Jobs -> JobRecords] /\ job'[j] = r
      /\ \A k \in Jobs \ {j} : job'[k] = job[k]
  BY <1>3 DEF Inv, TypeInv
<1>5. \A q \in Snapshots : coll[q] \in Collections /\ coll[q].build < builds'
  BY <1>1, <1>2 DEF Inv, TypeInv, StoreInv, Collections
<1>6. TypeInv' /\ StoreInv' /\ ReaderInv'
  BY <1>1, <1>2, <1>4, <1>5 DEF Inv, TypeInv, StoreInv, ReaderInv, Collections
<1>7. JobsInv'
  <2> SUFFICES ASSUME NEW k \in Jobs PROVE Relies(job'[k], coll, alias, builds')
    BY <1>1 DEF JobsInv
  <2>1. CASE k = j
    <3>1. \A q \in Snapshots : coll[q].build # r.build
      BY <1>2, <1>3, <1>5 DEF Collections
    <3> QED
      BY <1>1, <1>2, <1>3, <1>4, <2>1, <3>1 DEF Relies
  <2>2. CASE k # j
    BY <1>1, <1>2, <1>4, <2>2 DEF Inv, JobsInv, Relies
  <2> QED
    BY <2>1, <2>2
<1>8. AloneInv'
  <2> SUFFICES ASSUME NEW k \in Jobs, NEW l \in Jobs, k # l, Running(k)', Running(l)'
               PROVE  /\ job'[k].build # job'[l].build
                      /\ job'[k].target = job'[l].target =>
                             ~Repairs(job'[k], coll[job'[k].target])
    BY <1>1 DEF AloneInv
  <2>1. \A i \in Jobs : i # j /\ Running(i) =>
            job[i].build \in 1..builds /\ job[i].build # builds'
    BY <1>1, <1>2 DEF Inv, JobsInv, Relies, Running
  <2>2. CASE k # j /\ l # j
    BY <1>4, <2>2 DEF Inv, AloneInv, Running
  <2>3. CASE k = j
    <3>1. job'[l] = job[l] /\ Running(l) /\ job'[k] = r
      BY <1>4, <2>3 DEF Running
    <3>2. job[l].target = s => coll[s].state # "failed"
      BY <1>1, <2>3, <3>1 DEF Repairs
    <3> QED
      BY <1>3, <2>1, <2>3, <3>1, <3>2 DEF Repairs
  <2>4. CASE l = j
    <3>1. job'[k] = job[k] /\ Running(k) /\ job'[l] = r
      BY <1>4, <2>4 DEF Running
    <3> QED
      BY <1>1, <1>3, <2>1, <2>4, <3>1
  <2> QED
    BY <2>2, <2>3, <2>4
<1> QED
  BY <1>6, <1>7, <1>8 DEF Inv

LEMMA ReaderStepInv ==
    ASSUME Inv, ReadIndex \/ Query \/ Probe
    PROVE  Inv'
<1>1. /\ coll' = coll /\ alias' = alias /\ job' = job /\ builds' = builds
      /\ faults' = faults
  BY DEF ReadIndex, Query, Probe, store
<1>2. reader' \in [index : Names, ready : BOOLEAN] /\ ReaderInv'
  <2>1. (alias # None /\ Valid(alias, "complete")) \in BOOLEAN
    BY DEF Valid
  <2>2. CASE ReadIndex
    BY <1>1, <2>2 DEF ReadIndex, Inv, TypeInv, ReaderInv, Names
  <2>3. CASE Query
    BY <1>1, <2>3 DEF Query, Inv, TypeInv, ReaderInv, Names
  <2>4. CASE Probe
    BY <1>1, <2>1, <2>4 DEF Probe, Inv, TypeInv, ReaderInv, Names
  <2> QED
    BY <2>2, <2>3, <2>4
<1> QED
  BY <1>1, <1>2 DEF Inv, TypeInv, StoreInv, JobsInv, AloneInv, Running

LEMMA Invariance == Inv /\ [Next]_vars => Inv'
<1> SUFFICES ASSUME Inv, [Next]_vars PROVE Inv'
  OBVIOUS
<1>1. CASE UNCHANGED vars
  BY <1>1 DEF vars, Inv, TypeInv, StoreInv, JobsInv, AloneInv, Running, ReaderInv
<1>2. ASSUME NEW j \in Jobs, Build(j) \/ Rollback(j)
      PROVE  Inv'
  BY <1>2, StartInv DEF Build, Rollback
<1>3. ASSUME NEW j \in Jobs, JobStep(j)
      PROVE  Inv'
  BY <1>3, RecheckRollbackInv, InspectInv, DecideInv, ReuseInv, GuardDropInv, DropInv,
     CreateInv, UploadInv, VerifyInv, CompleteInv, RecheckInv, PublishInv, SwitchInv,
     CondemnInv, DiscardInv DEF JobStep
<1> QED
  BY <1>1, <1>2, <1>3, DieInv, ReaderStepInv DEF Next

LEMMA Invariant == Spec => []Inv
BY InitInv, Invariance, PTL DEF Spec

-----------------------------------------------------------------------------
(* What operators and readers are promised.                                *)

\* Collection metadata, alias and jobs stay within their fields.
THEOREM TypeCorrect == Spec => []TypeOK
<1>1. Inv => TypeOK
  BY DEF Inv, TypeInv, TypeOK, Collections, Names, JobRecords
<1> QED
  BY <1>1, Invariant, PTL

\* What the alias names is complete and has all its points, and there is one for a
\* retrieval that has begun: the alias is only ever switched to a snapshot found complete,
\* and no job condemns or deletes what it names (_mark_build_failed,
\* _delete_inactive_managed_snapshot).
THEOREM ActiveWhole == Spec => []ActiveIsWhole
<1>1. Inv => ActiveIsWhole
  BY DEF Inv, TypeInv, StoreInv, Whole, ReaderInv, ActiveIsWhole, Valid, Names
<1> QED
  BY <1>1, Invariant, PTL

\* What a step of any process does to the store under the active snapshot.
LEMMA ActiveStep ==
    ASSUME Inv, [Next]_vars, alias # None
    PROVE  alias' # None /\ coll'[alias] = coll[alias]
<1>1. alias \in Snapshots /\ coll[alias].state = "complete"
  BY DEF Inv, TypeInv, Names, StoreInv
<1>2. CASE UNCHANGED store
  BY <1>2 DEF store
<1>3. ASSUME NEW j \in Jobs, Drop(j) \/ Create(j) \/ Upload(j) \/ Complete(j) \/ Discard(j),
             ~UNCHANGED store
      PROVE  alias' = alias /\ coll'[alias] = coll[alias]
  <2>1. /\ Running(j) /\ job[j].at \in {"drop", "create", "upload", "complete", "discard"}
        /\ job[j].at = "create" => coll[job[j].target].state = "absent"
    BY <1>3 DEF Drop, Create, Upload, Complete, Discard, Write, At, Running, Target, store
  <2>2. job[j].target \in Snapshots /\ alias # job[j].target
    BY <1>1, <2>1, RunningJob DEF Relies, Running
  <2> QED
    BY <1>1, <1>3, <2>2
       DEF Drop, Create, Upload, Complete, Discard, Write, Target, Inv, TypeInv
<1>4. ASSUME NEW j \in Jobs, Switch(j), ~UNCHANGED store
      PROVE  alias' # None /\ coll' = coll
  <2>1. Running(j) /\ alias' = job[j].target /\ coll' = coll
    BY <1>4 DEF Switch, Write, At, Running, Target, store
  <2> QED
    BY <2>1, RunningJob, SnapshotsAssumption
<1>5. ASSUME NEW j \in Jobs,
             \/ RecheckRollback(j) \/ Inspect(j) \/ Decide(j) \/ Reuse(j) \/ GuardDrop(j)
             \/ Verify(j) \/ Recheck(j) \/ Publish(j) \/ Condemn(j) \/ Die(j)
      PROVE  UNCHANGED store
  BY <1>5 DEF RecheckRollback, Inspect, Decide, Reuse, GuardDrop, Verify, Recheck, Publish,
              Condemn, Die, Read
<1>6. ASSUME NEW j \in Jobs, Build(j) \/ Rollback(j) PROVE UNCHANGED store
  BY <1>6 DEF Build, Rollback, Start
<1>7. ASSUME ReadIndex \/ Query \/ Probe PROVE UNCHANGED store
  BY <1>7 DEF ReadIndex, Query, Probe
<1>8. CASE UNCHANGED vars
  BY <1>8 DEF vars
<1> QED
  BY <1>2, <1>3, <1>4, <1>5, <1>6, <1>7, <1>8 DEF Next, JobStep

\* Once knowledge is published the service is never without it, and the active snapshot
\* does not change under it (the one-request switch, and the two checks of the alias
\* before a collection is deleted or condemned).
THEOREM ActiveKept == Spec => ActiveIsKept
<1>1. Inv /\ [Next]_vars =>
          [alias # None => alias' # None /\ coll'[alias] = coll[alias]]_vars
  BY ActiveStep
<1> QED
  BY <1>1, Invariant, PTL DEF Spec, ActiveIsKept

\* A job that runs has not ended yet.
EndedInv == \A j \in Jobs : Running(j) => job[j].ended = None

\* A step of a job touches no other job; only a reuse and a switch end in success.
LEMMA JobForms ==
    ASSUME Inv, NEW j \in Jobs, JobStep(j) \/ Die(j)
    PROVE  /\ \A k \in Jobs \ {j} : job'[k] = job[k]
           /\ job'[j].ended = job[j].ended \/ job'[j].at = "idle"
           /\ \/ job'[j].ended \in {job[j].ended, "error", "refused", "died"}
              \/ Reuse(j) \/ Switch(j)
<1> DEFINE Moves == \E stage \in Stages : Goto(j, stage)
           Ends == \E how \in {"error", "refused", "died"} : End(j, how)
<1>1. CASE Moves \/ Ends
  <2>1. ASSUME NEW stage \in Stages, Goto(j, stage)
        PROVE  /\ \A k \in Jobs \ {j} : job'[k] = job[k]
               /\ job'[j].ended = job[j].ended
    BY <2>1 DEF Goto, Inv, TypeInv, JobRecords
  <2>2. ASSUME NEW how \in {"error", "refused", "died"}, End(j, how)
        PROVE  /\ \A k \in Jobs \ {j} : job'[k] = job[k]
               /\ job'[j].at = "idle" /\ job'[j].ended = how
    BY <2>2 DEF End, Inv, TypeInv, JobRecords
  <2> QED
    BY <1>1, <2>1, <2>2
<1>2. OnError(j) => Moves \/ Ends
  BY DEF OnError, Stages
<1>3. Inspect(j) => \/ Moves \/ Ends
                    \/ /\ \A k \in Jobs \ {j} : job'[k] = job[k]
                       /\ job'[j].ended = job[j].ended
  <2> HIDE DEF Moves, Ends
  <2> QED
    BY <1>2 DEF Inspect, Read, Inv, TypeInv, JobRecords
<1>4. Decide(j) => \/ Moves \/ Ends
                   \/ /\ \A k \in Jobs \ {j} : job'[k] = job[k]
                      /\ job'[j].ended = job[j].ended
  <2>1. Decide(j) => job[j].state \in {"building", "complete", "failed"}
    BY RunningJob DEF Decide, At, Running, Relies, JobRecords, States
  <2>2. End(j, "refused") => Ends
    OBVIOUS
  <2>3. Goto(j, "guard") => Moves
    BY DEF Stages
  <2> HIDE DEF Moves, Ends
  <2> QED
    BY <1>2, <2>1, <2>2, <2>3 DEF Decide, Read, Inv, TypeInv, JobRecords
<1>5. ASSUME NEW how \in Hows, NEW stage \in Stages, End(j, how) \/ Goto(j, stage)
      PROVE  /\ \A k \in Jobs \ {j} : job'[k] = job[k]
             /\ job'[j].ended = job[j].ended \/ job'[j].at = "idle"
  BY <1>5 DEF End, Goto, Inv, TypeInv, JobRecords
<1>6. CASE Reuse(j) \/ Switch(j)
  <2>1. Reuse(j) => \/ \E how \in Hows : End(j, how)
                    \/ \E stage \in Stages : Goto(j, stage)
    BY DEF Reuse, Hows, Stages
  <2>2. Switch(j) => \E how \in Hows : End(j, how)
    BY DEF Switch, Write, OnError, At, Hows
  <2>3. "idle" \in Stages /\ "error" \in Hows
    BY DEF Stages, Hows
  <2> QED
    BY <1>5, <1>6, <2>1, <2>2, <2>3
<1>7. \/ RecheckRollback(j) \/ GuardDrop(j) \/ Drop(j) \/ Create(j) \/ Upload(j) \/ Verify(j)
      \/ Complete(j) \/ Recheck(j) \/ Publish(j) \/ Condemn(j) \/ Discard(j) \/ Die(j)
      => Moves \/ Ends
  <2>1. \A how \in {"error", "refused", "died"} : End(j, how) => Ends
    OBVIOUS
  <2>2. \A stage \in Stages : Goto(j, stage) => Moves
    OBVIOUS
  <2>3. {"publish", "drop", "create", "condemn", "upload", "verify", "complete", "recheck",
         "switch", "discard"} \subseteq Stages
    BY DEF Stages
  <2> HIDE DEF Moves, Ends
  <2>4. RecheckRollback(j) \/ GuardDrop(j) \/ Verify(j) \/ Recheck(j) \/ Publish(j)
        => Moves \/ Ends
    BY <1>2, <2>1, <2>2, <2>3 DEF RecheckRollback, GuardDrop, Verify, Recheck, Publish, Read
  <2>5. Drop(j) \/ Create(j) \/ Upload(j) \/ Complete(j) => Moves \/ Ends
    BY <1>2, <2>1, <2>2, <2>3 DEF Drop, Create, Upload, Complete, Write
  <2>6. Condemn(j) \/ Discard(j) \/ Die(j) => Moves \/ Ends
    BY <2>1, <2>2, <2>3 DEF Condemn, Discard, Die
  <2> QED
    BY <2>4, <2>5, <2>6
<1> HIDE DEF Moves, Ends
<1> QED
  BY <1>1, <1>3, <1>4, <1>6, <1>7 DEF JobStep

LEMMA EndedInvariant == Spec => []EndedInv
<1>1. Init => EndedInv
  BY DEF Init, EndedInv, Running, NoJob
<1>2. Inv /\ EndedInv /\ [Next]_vars => EndedInv'
  <2> SUFFICES ASSUME Inv, EndedInv, [Next]_vars, NEW k \in Jobs, Running(k)'
               PROVE  job'[k].ended = None
    BY DEF EndedInv
  <2>1. ASSUME NEW j \in Jobs, JobStep(j) \/ Die(j) PROVE job'[k].ended = None
    <3>1. Running(j)
      BY <2>1 DEF JobStep, RecheckRollback, Inspect, Decide, Reuse, GuardDrop, Drop, Create,
                  Upload, Verify, Complete, Recheck, Publish, Switch, Condemn, Discard, Die,
                  At, Running
    <3> QED
      BY <2>1, <3>1, JobForms DEF EndedInv, Running
  <2>2. ASSUME NEW j \in Jobs, Build(j) \/ Rollback(j) PROVE job'[k].ended = None
    <3>1. PICK s \in Snapshots, stage \in {"inspect", "recheck_rollback"} :
            job' = [job EXCEPT ![j] = [NoJob EXCEPT !.at = stage, !.target = s,
                                                    !.build = builds + 1]]
      BY <2>2 DEF Build, Rollback, Start
    <3>2. job \in [Jobs -> JobRecords]
      BY DEF Inv, TypeInv
    <3>3. CASE k = j
      BY <3>1, <3>2, <3>3 DEF NoJob
    <3>4. CASE k # j
      <4>1. job'[k] = job[k]
        BY <3>1, <3>2, <3>4
      <4> QED
        BY <4>1 DEF EndedInv, Running
    <3> QED
      BY <3>3, <3>4
  <2>3. ASSUME UNCHANGED job PROVE job'[k].ended = None
    BY <2>3 DEF EndedInv, Running
  <2> QED
    BY <2>1, <2>2, <2>3 DEF Next, ReadIndex, Query, Probe, vars
<1> QED
  BY <1>1, <1>2, Invariant, PTL DEF Spec

LEMMA SuccessStep ==
    ASSUME Inv, NEW j \in Jobs, Reuse(j) \/ Switch(j), job'[j].ended = "success",
           EndedInv
    PROVE  /\ coll'[Target(j)].state = "complete" /\ coll'[Target(j)].points = Batches
           /\ Target(j) \in {alias', job[j].active}
<1>1. /\ Running(j) /\ job[j].ended = None /\ job[j].at \in {"reuse", "switch"}
      /\ coll' = coll
  BY DEF Reuse, Switch, Write, At, Running, EndedInv, store
<1>2. coll[job[j].target].state = "complete" /\ coll[job[j].target].points = Batches
  BY <1>1, RunningJob DEF Relies, Whole, Running
<1>3. \A stage \in Stages : Goto(j, stage) => job'[j].ended = None
  BY <1>1 DEF Goto, Inv, TypeInv, JobRecords, None
<1>4. \A how \in Hows : End(j, how) => job'[j].ended = how
  BY DEF End, Inv, TypeInv, JobRecords
<1>5. "publish" \in Stages /\ "guard" \in Stages /\ "refused" \in Hows /\ "error" \in Hows
  BY DEF Stages, Hows
<1>6. CASE Reuse(j)
  <2>1. job[j].active = Target(j)
    BY <1>3, <1>4, <1>5, <1>6 DEF Reuse, None
  <2> QED
    BY <1>1, <1>2, <2>1 DEF Target
<1>7. CASE Switch(j)
  <2>1. ~(Fault(j) /\ OnError(j))
    BY <1>4, <1>5, <1>7 DEF OnError, Switch, At
  <2> QED
    BY <1>1, <1>2, <1>7, <2>1 DEF Switch, Write, Target
<1> QED
  BY <1>6, <1>7

\* A job that reports success leaves its snapshot complete and whole, published by it or
\* found published: neither build_snapshot nor rollback ends well for the half of another.
THEOREM SuccessCorrect == Spec => SuccessIsWhole
<1> DEFINE Claim(j) ==
      ~At(j, "idle") /\ job'[j].ended = "success" =>
          /\ coll'[Target(j)].state = "complete" /\ coll'[Target(j)].points = Batches
          /\ Target(j) \in {alias', job[j].active}
<1>1. Inv /\ EndedInv /\ [Next]_vars => [\A j \in Jobs : Claim(j)]_vars
  <2> SUFFICES ASSUME Inv, EndedInv, Next, NEW j \in Jobs, Running(j),
                      job'[j].ended = "success"
               PROVE  /\ coll'[Target(j)].state = "complete"
                      /\ coll'[Target(j)].points = Batches
                      /\ Target(j) \in {alias', job[j].active}
    BY DEF Running, At
  <2>1. job[j].ended = None
    BY DEF EndedInv
  <2>2. job'[j] # job[j]
    BY <2>1 DEF None
  <2>3. ASSUME NEW k \in Jobs, JobStep(k) \/ Die(k)
        PROVE  Reuse(j) \/ Switch(j)
    BY <2>1, <2>2, <2>3, JobForms DEF None
  <2>4. ASSUME NEW k \in Jobs, Build(k) \/ Rollback(k)
        PROVE  FALSE
    BY <2>2, <2>4 DEF Build, Rollback, Start, At, Running, Inv, TypeInv
  <2>5. ~(ReadIndex \/ Query \/ Probe)
    BY <2>2 DEF ReadIndex, Query, Probe
  <2> QED
    BY <2>3, <2>4, <2>5, SuccessStep DEF Next
<1> QED
  BY <1>1, Invariant, EndedInvariant, PTL DEF Spec, SuccessIsWhole
=============================================================================

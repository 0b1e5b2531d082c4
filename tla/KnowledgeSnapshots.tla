-------------------------- MODULE KnowledgeSnapshots --------------------------
(***************************************************************************)
(* The knowledge base of the agent in Qdrant.  A job (the ingestion script *)
(* run by an operator) builds an immutable collection for one corpus, or   *)
(* rolls back to one, and switches an alias to it; the running service     *)
(* reads through the alias.  Every step of a job is one call to Qdrant,    *)
(* any of which may fail before or after its effect, and a job may die     *)
(* between any two.  Jobs run side by side, those of one snapshot too while *)
(* nothing goes wrong with it; that a snapshot which failed is repaired by *)
(* one job at a time is the operator's discipline: no lock imposes it.     *)
(***************************************************************************)
EXTENDS Naturals, FiniteSets

CONSTANTS
    Jobs,         \* processes that build or roll back
    Snapshots,    \* physical collections, one per corpus and configuration
    Batches,      \* batches of points a snapshot is uploaded in
    MaxBuilds,    \* bound: jobs started
    MaxFaults     \* bound: calls that fail and jobs that die

None == "none"

ASSUME SnapshotsAssumption ==
    /\ None \notin Snapshots
    /\ Batches \in Nat \ {0} /\ MaxBuilds \in Nat /\ MaxFaults \in Nat

VARIABLES
    coll,       \* Qdrant: the collection of each snapshot
    alias,      \* Qdrant: what the logical collection name points to
    job,        \* the jobs
    builds,     \* build identifiers handed out
    faults,     \* faults so far
    reader      \* the retrieval of the service, and its readiness

vars == <<coll, alias, job, builds, faults, reader>>
store == <<coll, alias>>

States == {"absent", "building", "failed", "complete"}
Stages == {"idle", "inspect", "decide", "reuse", "guard", "drop", "create", "upload",
           "verify", "complete", "recheck", "recheck_rollback", "publish", "switch", "condemn", "discard"}
Absent == [state |-> "absent", build |-> 0, points |-> 0]
NoJob == [at |-> "idle", target |-> None, build |-> 0, state |-> "absent", active |-> None,
          ended |-> None]
NoReader == [index |-> None, ready |-> FALSE]

Init ==
    /\ coll = [s \in Snapshots |-> Absent]
    /\ alias = None
    /\ job = [j \in Jobs |-> NoJob]
    /\ builds = 0 /\ faults = 0
    /\ reader = NoReader

\* Mutant: points are counted, the state is not looked at.
ValidByCount(s, state) == coll[s].points = Batches

\* validate_snapshot of a snapshot in a state.
Valid(s, state) == coll[s].state = state /\ coll[s].points = Batches

At(j, stage) == job[j].at = stage
Target(j) == job[j].target
Goto(j, stage) == job' = [job EXCEPT ![j].at = stage]
End(j, how) == job' = [job EXCEPT ![j].at = "idle", ![j].ended = how]

Sharing(j) == {k \in Jobs \ {j} : ~At(k, "idle") /\ Target(k) = Target(j)}
Repairing(j) ==
    \/ coll[Target(j)].state = "failed" \/ job[j].at \in {"guard", "drop"}
    \/ job[j].at \in {"condemn", "discard"} /\ coll[Target(j)].build = job[j].build

\* Something goes wrong, in a job that is alone with its snapshot.
Fault(j) == faults < MaxFaults /\ faults' = faults + 1 /\ Sharing(j) = {}

\* An error before the collection exists ends the job; a later one condemns the build.
OnError(j) ==
    IF job[j].at \in {"create", "upload", "verify", "complete", "recheck"}
    THEN Goto(j, "condemn") ELSE End(j, "error")

\* A read of Qdrant that goes on, or fails.
Read(j, Then) ==
    /\ UNCHANGED <<store, builds, reader>>
    /\ \/ Then /\ UNCHANGED faults
       \/ Fault(j) /\ OnError(j)

\* A write of Qdrant: its reply may be lost whether or not it took effect.
Write(j, Effect, Then) ==
    /\ UNCHANGED <<builds, reader>>
    /\ \/ Effect /\ Then /\ UNCHANGED faults
       \/ Fault(j) /\ (Effect \/ UNCHANGED store) /\ OnError(j)

-----------------------------------------------------------------------------
(* The jobs.                                                               *)

Start(j, s, stage) ==
    /\ At(j, "idle") /\ builds < MaxBuilds
    /\ \A k \in Jobs \ {j} : ~At(k, "idle") /\ Target(k) = s => ~Repairing(k)
    /\ builds' = builds + 1
    /\ job' = [job EXCEPT ![j] = [NoJob EXCEPT !.at = stage, !.target = s, !.build = builds + 1]]
    /\ UNCHANGED <<store, faults, reader>>

Build(j) == \E s \in Snapshots : Start(j, s, "inspect")

\* A rollback validates its target and goes on as an activation.
Rollback(j) == \E s \in Snapshots : coll[s].state # "absent" /\ Start(j, s, "recheck_rollback")

RecheckRollback(j) ==
    /\ At(j, "recheck_rollback")
    /\ Read(j, IF Valid(Target(j), "complete") THEN Goto(j, "publish") ELSE End(j, "error"))

Inspect(j) ==
    /\ At(j, "inspect")
    /\ Read(j, LET state == coll[Target(j)].state
               IN job' = [job EXCEPT ![j].state = state,
                              ![j].at = IF state = "absent" THEN "create" ELSE "decide"])

\* A build under way is refused, a failed one is built again unless it is active.
Decide(j) ==
    /\ At(j, "decide")
    /\ Read(j, CASE job[j].state = "building" -> End(j, "refused")
                 [] job[j].state = "complete" ->
                        job' = [job EXCEPT ![j].active = alias, ![j].at = "reuse"]
                 [] job[j].state = "failed" ->
                        IF alias = Target(j) THEN End(j, "refused") ELSE Goto(j, "guard"))

\* A snapshot that cannot be validated, for whatever reason, counts as invalid.
Reuse(j) ==
    /\ At(j, "reuse")
    /\ UNCHANGED <<store, builds, reader>>
    /\ \/ /\ Valid(Target(j), "complete") /\ UNCHANGED faults
          /\ IF job[j].active = Target(j) THEN End(j, "success") ELSE Goto(j, "publish")
       \/ /\ \/ ~Valid(Target(j), "complete") /\ UNCHANGED faults
             \/ Fault(j)
          /\ IF job[j].active = Target(j) THEN End(j, "refused") ELSE Goto(j, "guard")

\* _delete_inactive_managed_snapshot looks at the alias once more, then deletes.
GuardDrop(j) ==
    /\ At(j, "guard")
    /\ Read(j, IF alias = Target(j) THEN End(j, "refused") ELSE Goto(j, "drop"))

\* Qdrant deletes the aliases of a collection with it.
Drop(j) ==
    /\ At(j, "drop")
    /\ Write(j, /\ coll' = [coll EXCEPT ![Target(j)] = Absent]
                /\ alias' = IF alias = Target(j) THEN None ELSE alias,
             Goto(j, "create"))

\* Mutant: a build waits until it can create the collection.
CreateWaiting(j) ==
    /\ At(j, "create") /\ coll[Target(j)].state = "absent"
    /\ Write(j, /\ coll' = [coll EXCEPT ![Target(j)] =
                                [state |-> "building", build |-> job[j].build, points |-> 0]]
                /\ UNCHANGED alias,
             Goto(j, "upload"))

\* Another job may have created the collection in the meantime.
Create(j) ==
    /\ At(j, "create")
    /\ IF coll[Target(j)].state = "absent"
       THEN Write(j, /\ coll' = [coll EXCEPT ![Target(j)] =
                                    [state |-> "building", build |-> job[j].build, points |-> 0]]
                     /\ UNCHANGED alias,
                  Goto(j, "upload"))
       ELSE Goto(j, "condemn") /\ UNCHANGED <<store, builds, faults, reader>>

Upload(j) ==
    /\ At(j, "upload")
    /\ Write(j, /\ coll' = [coll EXCEPT ![Target(j)].points = @ + 1]
                /\ UNCHANGED alias,
             Goto(j, IF coll'[Target(j)].points = Batches THEN "verify" ELSE "upload"))

Verify(j) ==
    /\ At(j, "verify")
    /\ Read(j, Goto(j, IF Valid(Target(j), "building") THEN "complete" ELSE "condemn"))

Complete(j) ==
    /\ At(j, "complete")
    /\ Write(j, coll' = [coll EXCEPT ![Target(j)].state = "complete"] /\ UNCHANGED alias,
             Goto(j, "recheck"))

Recheck(j) ==
    /\ At(j, "recheck")
    /\ Read(j, Goto(j, IF Valid(Target(j), "complete") THEN "publish" ELSE "condemn"))

\* activate validates the snapshot, whoever calls it, then switches the alias.
Publish(j) ==
    /\ At(j, "publish")
    /\ Read(j, IF Valid(Target(j), "complete") THEN Goto(j, "switch") ELSE End(j, "error"))

\* Mutant: the old alias is deleted by a request of its own.
SwitchInTwo(j) ==
    /\ At(j, "switch")
    /\ Write(j, alias' = (IF alias = None THEN Target(j) ELSE None) /\ UNCHANGED coll,
             IF alias = None THEN End(j, "success") ELSE Goto(j, "switch"))

\* The old alias is deleted and the new one created in one request.
Switch(j) ==
    /\ At(j, "switch")
    /\ Write(j, alias' = Target(j) /\ UNCHANGED coll, End(j, "success"))

\* Mutant: the build identifier is not compared.
CondemnAnyBuild(j) ==
    /\ At(j, "condemn")
    /\ UNCHANGED <<store, builds, faults, reader>>
    /\ IF coll[Target(j)].state # "absent" /\ alias # Target(j)
       THEN Goto(j, "discard") ELSE End(j, "error")

\* _mark_build_failed: only a build of its own, and never the active one.
Condemn(j) ==
    /\ At(j, "condemn")
    /\ UNCHANGED <<store, builds, reader>>
    /\ \/ Fault(j) /\ End(j, "error")
       \/ /\ UNCHANGED faults
          /\ IF /\ coll[Target(j)].state # "absent" /\ alias # Target(j)
                /\ coll[Target(j)].build = job[j].build
             THEN Goto(j, "discard") ELSE End(j, "error")

Discard(j) ==
    /\ At(j, "discard")
    /\ UNCHANGED <<alias, builds, reader>>
    /\ \/ coll' = [coll EXCEPT ![Target(j)].state = "failed"] /\ UNCHANGED faults
       \/ UNCHANGED coll /\ Fault(j)
    /\ End(j, "error")

Die(j) ==
    /\ ~At(j, "idle") /\ Fault(j) /\ End(j, "died")
    /\ UNCHANGED <<store, builds, reader>>

-----------------------------------------------------------------------------
(* The service reads through the alias, without a lock on it.              *)

\* The vocabulary that encodes the query is read first, ...
ReadIndex ==
    /\ reader' = [reader EXCEPT !.index = alias]
    /\ UNCHANGED <<store, job, builds, faults>>

\* ... then the points are queried, in whatever the alias names by then.
Query ==
    /\ reader.index # None /\ alias # None
    /\ reader' = [reader EXCEPT !.index = None]
    /\ UNCHANGED <<store, job, builds, faults>>

\* is_ready of the backend.
Probe ==
    /\ reader' = [reader EXCEPT !.ready = alias # None /\ Valid(alias, "complete")]
    /\ UNCHANGED <<store, job, builds, faults>>

-----------------------------------------------------------------------------
JobStep(j) == \/ RecheckRollback(j) \/ Inspect(j) \/ Decide(j) \/ Reuse(j) \/ GuardDrop(j)
              \/ Drop(j) \/ Create(j) \/ Upload(j) \/ Verify(j) \/ Complete(j) \/ Recheck(j)
              \/ Publish(j) \/ Switch(j) \/ Condemn(j) \/ Discard(j)

Next == \/ \E j \in Jobs : Build(j) \/ Rollback(j) \/ JobStep(j) \/ Die(j)
        \/ ReadIndex \/ Query \/ Probe

Spec == Init /\ [][Next]_vars

\* A job that lives goes on: the client's calls have deadlines.
FairSpec == Spec /\ \A j \in Jobs : WF_vars(JobStep(j))

-----------------------------------------------------------------------------
(* Correctness.                                                            *)

\* Type invariant: collection metadata, alias and jobs stay within the fields that
\* build_snapshot writes.
TypeOK ==
    /\ coll \in [Snapshots -> [state : States, build : 0..MaxBuilds, points : 0..Batches]]
    /\ alias \in Snapshots \cup {None}
    /\ \A j \in Jobs : job[j].at \in Stages /\ job[j].target \in Snapshots \cup {None}
    /\ builds \in 0..MaxBuilds /\ faults \in 0..MaxFaults

\* What the alias names is complete and has all its points, whatever builds, rollbacks,
\* lost replies and crashes there were; and there is one for a retrieval that has begun,
\* and for as long as the last readiness probe said so.
ActiveIsWhole ==
    alias # None \/ reader.ready \/ reader.index # None =>
        alias # None /\ Valid(alias, "complete")

\* Once knowledge is published the service is never without: the alias moves from one
\* snapshot to another, and neither the active snapshot nor its points change under it.
ActiveIsKept ==
    [][alias # None => /\ alias' # None
                       /\ coll'[alias] = coll[alias]]_vars

\* A job that reports success leaves its snapshot complete and whole, and has published
\* it or found it published: a build that lost the race to create the collection never
\* reports success for the half of another.
SuccessIsWhole ==
    [][\A j \in Jobs : ~At(j, "idle") /\ job'[j].ended = "success" =>
           /\ coll'[Target(j)].state = "complete" /\ coll'[Target(j)].points = Batches
           /\ Target(j) \in {alias', job[j].active}]_vars

\* Liveness: a job ends, however many other jobs share its snapshot.
EveryJobEnds == \A j \in Jobs : ~At(j, "idle") ~> At(j, "idle")
=============================================================================

---------------------------- MODULE RestoreJobs -----------------------------
(***************************************************************************)
(* The life of restore jobs.  Users and administrators queue and cancel    *)
(* them; several workers claim them under a five-minute lease and carry    *)
(* each through `process_restore_jobs`: pre-restore snapshot (one          *)
(* transaction), lease renewal, manifest to the object store, snapshot     *)
(* ready, lease renewal, execution (one transaction under the project      *)
(* row).  A worker may stall until its lease is taken over and then go on, *)
(* or crash between any two steps; every step may fail.  Client writes,    *)
(* user snapshots, the 24-hour expiry of pending snapshots, reopening,     *)
(* disabling and purging the project interleave with all of that.          *)
(***************************************************************************)
EXTENDS ProjectStore, FiniteSets

CONSTANTS
    Jobs,           \* ids of restore_jobs
    Workers,        \* worker processes
    Client,         \* the connection of client pushes
    RestoreTargets, \* the targets users ask for (a subset of Targets)
    MaxSnapshots,   \* bound: snapshots created in one behaviour
    MaxUserSnapshots,  \* bound: those of them that users ask for
    MaxLeases,      \* bound: lease tokens issued in one behaviour
    MaxFaults,      \* bound: crashes, stalls and database errors around leases
    StallsPastExpiry,  \* may a worker stall for 24 hours between two steps?
    None

ASSUME RestoreAssumption ==
    /\ Writers = Workers \cup {Client}
    /\ Client \notin Workers
    /\ None \notin Writers
    /\ MaxSnapshots \in Nat
    /\ MaxUserSnapshots \in 0 .. MaxSnapshots
    /\ MaxLeases \in Nat
    /\ MaxFaults \in Nat
    /\ StallsPastExpiry \in BOOLEAN

Snapshots == 1 .. MaxSnapshots

VARIABLES
    job,            \* restore_jobs
    snap,           \* snapshots, with the manifest object of each
    worker,         \* where each worker is in process_restore_jobs
    leases,         \* lease tokens issued so far
    faults          \* faults so far (bound)

jobVars == <<job, snap, worker, leases, faults>>
vars == <<storeVars, jobVars>>

(***************************************************************************)
(* Rows.  token = 0 is a NULL lease_token; expired stands for              *)
(* lease_expires_at < now, due for run_after <= now; pre = 0 and           *)
(* before = 0 are NULL columns.  A target is a snapshot or a sequence.     *)
(***************************************************************************)
Targets == [snap: Snapshots, seq: {0}] \cup [snap: {0}, seq: 0 .. MaxSeq]
ASSUME TargetAssumption == RestoreTargets \subseteq Targets

NoJob == [status |-> "none", target |-> None, cancel |-> FALSE, due |-> FALSE,
          token |-> 0, expired |-> FALSE, attempts |-> 0,
          before |-> 0, after |-> 0, pre |-> 0]
NoSnapshot == [status |-> "none", owner |-> None, gen |-> 0, seq |-> 0,
               items |-> {}, stored |-> FALSE]
AtRest == [pc |-> "idle", job |-> None, token |-> 0, snap |-> 0, todo |-> {}]

RetryLimit == 3

RestoreInit ==
    /\ StoreInit
    /\ job = [j \in Jobs |-> NoJob]
    /\ snap = [s \in Snapshots |-> NoSnapshot]
    /\ worker = [w \in Workers |-> AtRest]
    /\ leases = 0
    /\ faults = 0

Active(j) == job[j].status \in {"queued", "running"}
NoActiveJob == \A j \in Jobs : ~Active(j)

\* The rows of object_heads joined with their revisions.
HeadItems(st) == {c \in st.log : st.heads[c.obj].at = c.seq}

Fault == faults < MaxFaults /\ faults' = faults + 1

(***************************************************************************)
(* Snapshots.  A pending row with the heads, then the object, then ready.  *)
(***************************************************************************)
NextSnapshot(s) == snap[s] = NoSnapshot /\ \A r \in Snapshots : r < s => snap[r] # NoSnapshot

Pending(owner) == [status |-> "pending", owner |-> owner, gen |-> generation,
                   seq |-> store.seq, items |-> HeadItems(store), stored |-> FALSE]

TakeUserSnapshot(s) ==
    /\ status = "active"
    /\ holder = Nobody
    /\ NextSnapshot(s)
    /\ Cardinality({r \in Snapshots : snap[r].owner = Client}) < MaxUserSnapshots
    /\ snap' = [snap EXCEPT ![s] = Pending(Client)]
    /\ UNCHANGED <<storeVars, job, worker, leases, faults>>

StoreUserManifest(s) ==
    /\ snap[s].owner = Client
    /\ ~snap[s].stored
    /\ snap' = [snap EXCEPT ![s].stored = TRUE]
    /\ UNCHANGED <<storeVars, job, worker, leases, faults>>

RecordUserSnapshot(s) ==
    /\ snap[s].owner = Client
    /\ snap[s].stored
    /\ snap[s].status = "pending"
    /\ status \notin {"disabled", "deleting"}
    /\ snap' = [snap EXCEPT ![s].status = "ready"]
    /\ UNCHANGED <<storeVars, job, worker, leases, faults>>

BusyWith(s) == \E w \in Workers : worker[w].snap = s

\* The hourly clean-up of a worker: pending rows of more than 24 hours fail ...
ExpirePending(s) ==
    /\ snap[s].status = "pending"
    /\ BusyWith(s) => StallsPastExpiry
    /\ snap' = [snap EXCEPT ![s].status = "failed"]
    /\ UNCHANGED <<storeVars, job, worker, leases, faults>>

\* ... and then their objects are deleted.
DeleteManifest(s) ==
    /\ snap[s].status = "failed"
    /\ snap[s].stored
    /\ snap' = [snap EXCEPT ![s].stored = FALSE]
    /\ UNCHANGED <<storeVars, job, worker, leases, faults>>

(***************************************************************************)
(* Users and administrators.                                               *)
(***************************************************************************)
EnqueueRestore(j, target) ==
    /\ holder = Nobody
    /\ status = "active"
    /\ NoActiveJob
    /\ target.seq <= store.seq
    /\ target.snap # 0 => snap[target.snap].status = "ready"
    /\ job[j] = NoJob
    /\ job' = [job EXCEPT ![j] = [NoJob EXCEPT !.status = "queued", !.target = target,
                                               !.due = TRUE]]
    /\ UNCHANGED <<storeVars, snap, worker, leases, faults>>

\* The transaction of a worker that executes j holds its row.
RowIsLocked(j) == \E w \in Workers : worker[w].pc = "applying" /\ worker[w].job = j

CancelQueued(j) ==
    /\ job[j].status = "queued"
    /\ job' = [job EXCEPT ![j].status = "cancelled"]
    /\ UNCHANGED <<storeVars, snap, worker, leases, faults>>

RequestCancel(j) ==
    /\ ~RowIsLocked(j)
    /\ job[j].status = "running"
    /\ job' = [job EXCEPT ![j].cancel = TRUE]
    /\ UNCHANGED <<storeVars, snap, worker, leases, faults>>

ReopenFailed ==
    /\ \E j \in Jobs : job[j].status = "failed"
    /\ LeaveMaintenance
    /\ UNCHANGED jobVars

Disable == DisableProject /\ UNCHANGED jobVars

EnqueuePurge == NoActiveJob /\ StartPurge /\ UNCHANGED jobVars

\* A client pushes: the details are in PushProtocol.
ClientPush ==
    /\ \/ status = "active" /\ LockProject(Client)
       \/ \E o \in Objects, b \in Bodies : Revise(Client, o, work.heads[o].rev, b)
       \/ CommitWrites(Client)
    /\ UNCHANGED jobVars

(***************************************************************************)
(* The worker.  Holds(w): the row is running under the token w got.        *)
(***************************************************************************)
JobOf(w) == worker[w].job

\* Mutant: any worker of a running job holds it.
HoldsWithoutToken(w) == job[JobOf(w)].status = "running"

Holds(w) == job[JobOf(w)].status = "running" /\ job[JobOf(w)].token = worker[w].token
At(w, pc) == worker[w].pc = pc
Goes(w, pc) == worker' = [worker EXCEPT ![w].pc = pc]
Returns(w) == worker' = [worker EXCEPT ![w] = AtRest]
\* lease_token and lease_expires_at back to NULL.
LeaseFree(row) == [row EXCEPT !.token = 0, !.expired = FALSE]

\* Mutant: an expired lease is never taken over.
ClaimableIfQueued(j) == job[j].status = "queued" /\ job[j].due

Claimable(j) == \/ job[j].status = "queued" /\ job[j].due
                \/ job[j].status = "running" /\ job[j].expired

\* Mutant: a takeover goes on with the token of the dead worker.
ClaimJobKeepingToken(w, j) ==
    /\ At(w, "idle")
    /\ Claimable(j)
    /\ leases < MaxLeases
    /\ IF job[j].status = "queued" THEN EnterMaintenance
       ELSE status = "maintenance" /\ MoveTo(status)
    /\ leases' = leases + 1
    /\ LET token == IF job[j].token = 0 THEN leases + 1 ELSE job[j].token IN
        /\ job' = [job EXCEPT ![j].status = "running", ![j].token = token,
                              ![j].expired = FALSE,
                              ![j].before = IF @ = 0 THEN generation ELSE @]
        /\ worker' = [worker EXCEPT ![w] = [AtRest EXCEPT !.pc = "claimed", !.job = j,
                                                          !.token = token]]
    /\ UNCHANGED <<snap, faults>>

ClaimJob(w, j) ==
    /\ At(w, "idle")
    /\ Claimable(j)
    /\ leases < MaxLeases
    /\ IF job[j].status = "queued" THEN EnterMaintenance
       ELSE status = "maintenance" /\ MoveTo(status)
    /\ leases' = leases + 1
    /\ job' = [job EXCEPT ![j].status = "running",
                          ![j].token = leases + 1,
                          ![j].expired = FALSE,
                          ![j].before = IF @ = 0 THEN generation ELSE @]
    /\ worker' = [worker EXCEPT ![w] = [AtRest EXCEPT !.pc = "claimed", !.job = j,
                                                      !.token = leases + 1]]
    /\ UNCHANGED <<snap, faults>>

\* The project was disabled, or reopened under a running job: the claim fails the job.
ClaimRefused(w, j) ==
    /\ At(w, "idle")
    /\ Claimable(j)
    /\ status \notin (IF job[j].status = "queued" THEN {"active", "maintenance"}
                                                  ELSE {"maintenance"})
    /\ job' = [job EXCEPT ![j].status = "failed"]
    /\ UNCHANGED <<storeVars, snap, worker, leases, faults>>

\* Mutant: a retried job keeps the snapshot of its first attempt.
CreatePreRestoreSnapshotOnce(w, s) ==
    /\ At(w, "claimed")
    /\ Holds(w)
    /\ ~job[JobOf(w)].cancel
    /\ holder = Nobody
    /\ IF job[JobOf(w)].pre # 0 /\ snap[job[JobOf(w)].pre].status = "ready"
       THEN /\ s = job[JobOf(w)].pre
            /\ worker' = [worker EXCEPT ![w].pc = "renewingAgain", ![w].snap = s]
            /\ UNCHANGED <<snap, job>>
       ELSE /\ NextSnapshot(s)
            /\ snap' = [snap EXCEPT ![s] = Pending(w)]
            /\ job' = [job EXCEPT ![JobOf(w)].pre = s]
            /\ worker' = [worker EXCEPT ![w].pc = "renewing", ![w].snap = s]
    /\ UNCHANGED <<storeVars, leases, faults>>

CreatePreRestoreSnapshot(w, s) ==
    /\ At(w, "claimed")
    /\ Holds(w)
    /\ ~job[JobOf(w)].cancel
    /\ holder = Nobody
    /\ NextSnapshot(s)
    /\ snap' = [snap EXCEPT ![s] = Pending(w)]
    /\ job' = [job EXCEPT ![JobOf(w)].pre = s]
    /\ worker' = [worker EXCEPT ![w].pc = "renewing", ![w].snap = s]
    /\ UNCHANGED <<storeVars, leases, faults>>

\* Both transactions that look at the flag report it as RestoreCancelled.
SeesCancellation(w) ==
    /\ At(w, "claimed") \/ At(w, "executing")
    /\ Holds(w)
    /\ job[JobOf(w)].cancel
    /\ At(w, "claimed") => holder = Nobody
    /\ Goes(w, "cancelling")
    /\ UNCHANGED <<storeVars, job, snap, leases, faults>>

\* renew_restore_lease, before the manifest and again before the execution.
RenewLease(w) ==
    /\ At(w, "renewing") \/ At(w, "renewingAgain")
    /\ Holds(w)
    /\ job' = [job EXCEPT ![JobOf(w)].expired = FALSE]
    /\ Goes(w, IF At(w, "renewing") THEN "storing" ELSE "executing")
    /\ UNCHANGED <<storeVars, snap, leases, faults>>

\* The lease is lost (Conflict): the error leaves process_restore_jobs.
LeaseIsLost(w) ==
    /\ At(w, "renewing") \/ At(w, "renewingAgain")
    /\ ~Holds(w)
    /\ Returns(w)
    /\ UNCHANGED <<storeVars, job, snap, leases, faults>>

StoreManifest(w) ==
    /\ At(w, "storing")
    /\ snap' = [snap EXCEPT ![worker[w].snap].stored = TRUE]
    /\ Goes(w, "marking")
    /\ UNCHANGED <<storeVars, job, leases, faults>>

\* Mutant: the UPDATE does not ask that the snapshot is still pending.
MarkSnapshotReadyOfAny(w) ==
    /\ At(w, "marking")
    /\ snap' = IF Holds(w) THEN [snap EXCEPT ![worker[w].snap].status = "ready"] ELSE snap
    /\ Goes(w, "renewingAgain")
    /\ UNCHANGED <<storeVars, job, leases, faults>>

\* mark_snapshot_ready_for_job does not look at the number of rows it changed.
MarkSnapshotReady(w) ==
    /\ At(w, "marking")
    /\ snap' = IF Holds(w) /\ snap[worker[w].snap].status = "pending"
               THEN [snap EXCEPT ![worker[w].snap].status = "ready"]
               ELSE snap
    /\ Goes(w, "renewingAgain")
    /\ UNCHANGED <<storeVars, job, leases, faults>>

(***************************************************************************)
(* execute_restore_with_lease.  The target state of every object, less     *)
(* what the heads already are; objects the target does not have become     *)
(* tombstones.                                                             *)
(***************************************************************************)
TargetItems(t) == IF t.snap # 0 THEN snap[t.snap].items ELSE RankedAt(store, t.seq)

\* Mutant: objects the target does not have are left alone.
WantedOfTarget(t) ==
    {[obj |-> c.obj, rev |-> c.rev, body |-> c.body] : c \in TargetItems(t)}

Wanted(t) ==
    {[obj |-> c.obj, rev |-> c.rev, body |-> c.body] : c \in TargetItems(t)}
    \cup {[obj |-> c.obj, rev |-> 0, body |-> Tombstone] :
            c \in {d \in HeadItems(store) : \A e \in TargetItems(t) : e.obj # d.obj}}

SameState(item) ==
    \E c \in HeadItems(store) : c.obj = item.obj /\ c.rev = item.rev /\ c.body = item.body

\* Mutant: the flag of the cancellation is not read again.
ExecuteRestoreUncancelled(w) ==
    /\ At(w, "executing")
    /\ Holds(w)
    /\ status = "maintenance"
    /\ LET t == job[JobOf(w)].target IN t.snap # 0 => snap[t.snap].status = "ready"
    /\ LockProject(w)
    /\ worker' = [worker EXCEPT
                    ![w].pc = "applying",
                    ![w].todo = {i \in Wanted(job[JobOf(w)].target) : ~SameState(i)}]
    /\ UNCHANGED <<job, snap, leases, faults>>

\* Mutant: the execution trusts the renewal before it and does not check the lease.
ExecuteRestoreUnleased(w) ==
    /\ At(w, "executing")
    /\ ~job[JobOf(w)].cancel
    /\ status = "maintenance"
    /\ LET t == job[JobOf(w)].target IN t.snap # 0 => snap[t.snap].status = "ready"
    /\ LockProject(w)
    /\ worker' = [worker EXCEPT
                    ![w].pc = "applying",
                    ![w].todo = {i \in Wanted(job[JobOf(w)].target) : ~SameState(i)}]
    /\ UNCHANGED <<job, snap, leases, faults>>

ExecuteRestore(w) ==
    /\ At(w, "executing")
    /\ Holds(w)
    /\ ~job[JobOf(w)].cancel
    /\ status = "maintenance"
    /\ LET t == job[JobOf(w)].target IN t.snap # 0 => snap[t.snap].status = "ready"
    /\ LockProject(w)
    /\ worker' = [worker EXCEPT
                    ![w].pc = "applying",
                    ![w].todo = {i \in Wanted(job[JobOf(w)].target) : ~SameState(i)}]
    /\ UNCHANGED <<job, snap, leases, faults>>

RestoreItem(w) ==
    /\ At(w, "applying")
    /\ \E item \in worker[w].todo :
        /\ Revise(w, item.obj, work.heads[item.obj].rev, item.body)
        /\ worker' = [worker EXCEPT ![w].todo = @ \ {item}]
    /\ UNCHANGED <<job, snap, leases, faults>>

CommitExecution(w) ==
    /\ At(w, "applying")
    /\ worker[w].todo = {}
    /\ CommitRestore(w)
    /\ job' = [job EXCEPT ![JobOf(w)] = [LeaseFree(@) EXCEPT !.status = "succeeded",
                                                              !.after = generation + 1]]
    /\ Returns(w)
    /\ UNCHANGED <<snap, leases, faults>>

\* Mutant: the job is cancelled, the project stays closed.
CancelWithLeaseOnly(w) ==
    /\ At(w, "cancelling")
    /\ job' = IF Holds(w)
              THEN [job EXCEPT ![JobOf(w)] = [LeaseFree(@) EXCEPT !.status = "cancelled"]]
              ELSE job
    /\ Returns(w)
    /\ UNCHANGED <<storeVars, snap, leases, faults>>

CancelWithLease(w) ==
    /\ At(w, "cancelling")
    /\ IF Holds(w)
       THEN /\ job' = [job EXCEPT ![JobOf(w)] = [LeaseFree(@) EXCEPT !.status = "cancelled"]]
            /\ IF status = "maintenance" THEN LeaveMaintenance ELSE UNCHANGED storeVars
       ELSE UNCHANGED <<storeVars, job>>
    /\ Returns(w)
    /\ UNCHANGED <<snap, leases, faults>>

\* An error return of a step before "retrying": a lost lease, a reopened project,
\* a database error, or an object store error (the object may be there all the same).
StepFails(w) ==
    /\ \/ (At(w, "claimed") \/ At(w, "executing")) /\ UNCHANGED <<storeVars, snap>>
       \/ At(w, "applying") /\ Rollback(w) /\ UNCHANGED snap
       \/ /\ At(w, "storing")
          /\ snap' \in {snap, [snap EXCEPT ![worker[w].snap].stored = TRUE]}
          /\ UNCHANGED storeVars
    /\ Goes(w, "retrying")
    /\ UNCHANGED <<job, leases, faults>>

RetryWithLease(w) ==
    /\ At(w, "retrying")
    /\ job' = IF ~Holds(w) THEN job
              ELSE LET tried == job[JobOf(w)].attempts + 1 IN
                   [job EXCEPT ![JobOf(w)] =
                        [LeaseFree(@) EXCEPT
                            !.attempts = tried,
                            !.status = IF tried < RetryLimit THEN "queued" ELSE "failed",
                            !.due = FALSE]]
    /\ Returns(w)
    /\ UNCHANGED <<storeVars, snap, leases, faults>>

\* A crash, or a database error in a step whose error is not handled.
Crash(w) ==
    /\ ~At(w, "idle")
    /\ Fault
    /\ IF holder = w THEN Rollback(w) ELSE UNCHANGED storeVars
    /\ Returns(w)
    /\ UNCHANGED <<job, snap, leases>>

(***************************************************************************)
(* Time.  The lease of a worker that is still at work expires only if the  *)
(* worker stalls (a fault); a dead worker's lease always does.             *)
(***************************************************************************)
LeaseExpires(j) ==
    /\ job[j].status = "running"
    /\ ~job[j].expired
    /\ job' = [job EXCEPT ![j].expired = TRUE]
    /\ \/ /\ \E w \in Workers : JobOf(w) = j /\ Holds(w)
          /\ Fault
       \/ /\ \A w \in Workers : JobOf(w) = j => ~Holds(w)
          /\ UNCHANGED faults
    /\ UNCHANGED <<storeVars, snap, worker, leases>>

RunAfterPasses(j) ==
    /\ job[j].status = "queued"
    /\ ~job[j].due
    /\ job' = [job EXCEPT ![j].due = TRUE]
    /\ UNCHANGED <<storeVars, snap, worker, leases, faults>>

WorkerStep(w) ==
    \/ \E j \in Jobs : ClaimJob(w, j) \/ ClaimRefused(w, j)
    \/ \E s \in Snapshots : CreatePreRestoreSnapshot(w, s)
    \/ SeesCancellation(w)
    \/ RenewLease(w)
    \/ LeaseIsLost(w)
    \/ StoreManifest(w)
    \/ MarkSnapshotReady(w)
    \/ ExecuteRestore(w)
    \/ RestoreItem(w)
    \/ CommitExecution(w)
    \/ CancelWithLease(w)
    \/ StepFails(w)
    \/ RetryWithLease(w)

UserStep ==
    \/ \E s \in Snapshots : TakeUserSnapshot(s) \/ StoreUserManifest(s) \/ RecordUserSnapshot(s)
    \/ \E j \in Jobs, t \in RestoreTargets : EnqueueRestore(j, t)
    \/ \E j \in Jobs : CancelQueued(j) \/ RequestCancel(j)
    \/ ReopenFailed
    \/ Disable
    \/ EnqueuePurge
    \/ ClientPush

TimeStep ==
    \/ \E j \in Jobs : LeaseExpires(j) \/ RunAfterPasses(j)
    \/ \E s \in Snapshots : ExpirePending(s) \/ DeleteManifest(s)

RestoreNext ==
    \/ \E w \in Workers : WorkerStep(w) \/ Crash(w)
    \/ UserStep
    \/ TimeStep

RestoreSpec == RestoreInit /\ [][RestoreNext]_vars

(***************************************************************************)
(* A live worker polls every five seconds and runs its steps one after the *)
(* other; PostgreSQL queues the waiters of a row lock, so a worker that    *)
(* keeps finding the project row taken gets it (strong fairness).  Pushes  *)
(* end; leases and retry delays run out.                                   *)
(***************************************************************************)
Fairness ==
    /\ \A w \in Workers : SF_vars(WorkerStep(w))
    /\ WF_vars(CommitWrites(Client) /\ UNCHANGED jobVars)
    /\ \A j \in Jobs : WF_vars(LeaseExpires(j)) /\ WF_vars(RunAfterPasses(j))

FairRestoreSpec == RestoreSpec /\ Fairness

-----------------------------------------------------------------------------
(* Properties. *)

JobStates == {"none", "queued", "running", "succeeded", "failed", "cancelled"}
SnapshotStates == {"none", "pending", "ready", "failed"}
WorkerPlaces == {"idle", "claimed", "renewing", "storing", "marking", "renewingAgain",
                 "executing", "applying", "cancelling", "retrying"}

\* Types; a worker that executes holds the project row, and no two hold one lease.
RestoreTypeOK ==
    /\ StoreTypeOK
    /\ \A j \in Jobs : /\ job[j].status \in JobStates
                       /\ job[j].attempts \in 0 .. RetryLimit
                       /\ job[j].token \in 0 .. leases
    /\ \A s \in Snapshots : snap[s].status \in SnapshotStates
    /\ \A w \in Workers : /\ worker[w].pc \in WorkerPlaces
                          /\ worker[w].pc = "applying" <=> holder = w
    /\ \A v, w \in Workers : v # w /\ worker[v].token = worker[w].token => worker[v].token = 0

(***************************************************************************)
(* Each restore that succeeds moves the generation on by one, and nothing  *)
(* else does: no zombie worker that lost its lease, no second worker that  *)
(* took the job over and no retry applies a job a second time.             *)
(***************************************************************************)
EachRestoreAppliedOnce ==
    /\ generation = 1 + Cardinality({j \in Jobs : job[j].status = "succeeded"})
    /\ \A j \in Jobs : job[j].status = "succeeded" => job[j].after = job[j].before + 1

(***************************************************************************)
(* A restore can be undone: the pre-restore snapshot its job names is      *)
(* ready and holds exactly the heads, sequence and generation that the     *)
(* restore replaces, whoever took the snapshot and whatever happened       *)
(* between the two transactions.                                           *)
(***************************************************************************)
Succeeds(j) == job[j].status # "succeeded" /\ job'[j].status = "succeeded"
RestoreIsUndoable ==
    [][\A j \in Jobs : Succeeds(j) =>
          /\ job[j].pre # 0
          /\ snap[job[j].pre].status = "ready"
          /\ snap[job[j].pre].items = HeadItems(store)
          /\ snap[job[j].pre].seq = store.seq
          /\ snap[job[j].pre].gen = generation]_vars

(***************************************************************************)
(* A restore brings back its target: the objects alive afterwards are the  *)
(* ones alive in the target, with the same contents.                       *)
(***************************************************************************)
Living(items) == {[obj |-> c.obj, body |-> c.body] : c \in {d \in items : d.body # Tombstone}}
RestoreReachesTarget ==
    [][\A j \in Jobs : Succeeds(j) =>
          Living(HeadItems(store')) = Living(TargetItems(job[j].target))]_vars

(***************************************************************************)
(* All of it together implements AtomicRestore: whatever workers, leases,  *)
(* retries and clean-ups do, who asks for a restore sees it happen as a    *)
(* whole, once, with the contents the target had when it was asked for, or *)
(* sees it dropped without a trace.                                        *)
(***************************************************************************)
Fate(row) ==
    IF row.status = "none" THEN "none"
    ELSE IF row.status \in {"queued", "running"} THEN "pending"
    ELSE IF row.status = "succeeded" THEN "restored"
    ELSE "dropped"
RequestOf(j) ==
    [state  |-> Fate(job[j]),
     wanted |-> IF job[j].status = "none" THEN {} ELSE Living(TargetItems(job[j].target))]
Promise == INSTANCE AtomicRestore WITH
    Requests <- Jobs,
    request <- [j \in Jobs |-> RequestOf(j)],
    shown <- Living(HeadItems(store)),
    epoch <- generation,
    open <- status = "active"
RestoresAreAtomic == Promise!Spec

(***************************************************************************)
(* A cancellation that was accepted is kept: the job never succeeds later, *)
(* although the flag and the execution are set by different transactions.  *)
(***************************************************************************)
CancelledNeverSucceeds ==
    \A j \in Jobs : job[j].status = "succeeded" => ~job[j].cancel

(***************************************************************************)
(* A snapshot offered for restore has its manifest in the object store:    *)
(* the clean-up that fails pending rows, and deletes their objects later,  *)
(* may overtake the worker that is about to mark its snapshot ready.       *)
(***************************************************************************)
ReadySnapshotIsStored ==
    \A s \in Snapshots : snap[s].status = "ready" => snap[s].stored

(***************************************************************************)
(* A project in maintenance has a way out: a job that will finish, or a    *)
(* failed one that an administrator may reopen.  The code keeps this       *)
(* except for a job that was cancelled while it waited for a retry.        *)
(***************************************************************************)
WayOut == \E j \in Jobs : Active(j) \/ job[j].status = "failed"
MaintenanceHasAWayOut == status = "maintenance" => WayOut
StuckOnlyByCancelledRetry ==
    status = "maintenance" =>
        WayOut \/ \E j \in Jobs : job[j].status = "cancelled" /\ job[j].attempts > 0

\* Every accepted restore ends, although workers crash, stall and fail.
EveryRestoreEnds == \A j \in Jobs : Active(j) ~> ~Active(j)
=============================================================================

--------------------------- MODULE RestoreProofs ----------------------------
(***************************************************************************)
(* Restore jobs implement the store's specification and keep the promises  *)
(* of leases, cancellations, retries and snapshots, for any number of      *)
(* jobs, workers, crashes, stalls, snapshots and objects.                  *)
(***************************************************************************)
EXTENDS RestoreJobs, ProjectStoreProofs, FiniteSetTheorems

(***************************************************************************)
(* Types of the rows.                                                      *)
(***************************************************************************)
JobRows == [status: JobStates, target: Targets \cup {None}, cancel: BOOLEAN, due: BOOLEAN,
            token: Nat, expired: BOOLEAN, attempts: Nat, before: Nat, after: Nat,
            pre: Nat]
SnapshotRows == [status: SnapshotStates, owner: Workers \cup {Client, None}, gen: Nat,
                 seq: Nat, items: SUBSET Changes, stored: BOOLEAN]
WantedItems == [obj: Objects, rev: Nat, body: Bodies]
WorkerRows == [pc: WorkerPlaces, job: Jobs \cup {None}, token: Nat,
               snap: Nat, todo: SUBSET WantedItems]

RowsTyped ==
    /\ job \in [Jobs -> JobRows]
    /\ snap \in [Snapshots -> SnapshotRows]
    /\ worker \in [Workers -> WorkerRows]
    /\ leases \in Nat
    /\ \A j \in Jobs : job[j].status # "none" => job[j].target \in Targets

(***************************************************************************)
(* Leases.  No two workers have the same token, and the worker that        *)
(* executes a restore holds the project row and the lease of its job.      *)
(***************************************************************************)
LeaseHeld ==
    /\ \A w \in Workers : /\ worker[w].pc = "idle" => worker[w] = AtRest
                          /\ worker[w].pc # "idle" => /\ worker[w].job \in Jobs
                                                      /\ worker[w].token \in 1 .. leases
                          /\ worker[w].pc = "applying" <=> holder = w
                          /\ worker[w].pc = "applying" => /\ Holds(w)
                                                          /\ ~job[JobOf(w)].cancel
                                                          /\ status = "maintenance"
    /\ \A v, w \in Workers : v # w /\ worker[v].token = worker[w].token => worker[v].token = 0
    /\ \A j \in Jobs : job[j].token \in 0 .. leases

(***************************************************************************)
(* Jobs.  At most one is active; the generation it found when it was first *)
(* claimed is still the current one, and it grew once per success.         *)
(***************************************************************************)
Succeeded == {j \in Jobs : job[j].status = "succeeded"}

JobOK(j) ==
    /\ job[j].status = "running" => job[j].before = generation
    /\ job[j].status = "queued" => job[j].before \in {0, generation}
    /\ job[j].status = "succeeded" => job[j].after = job[j].before + 1 /\ ~job[j].cancel
    /\ job[j].attempts <= RetryLimit
    /\ Active(j) => job[j].attempts < RetryLimit
    /\ job[j].status = "queued" /\ job[j].attempts = 0 => status # "maintenance"

JobsHeld ==
    /\ \A i, j \in Jobs : Active(i) /\ Active(j) => i = j
    /\ IsFiniteSet(Succeeded)
    /\ generation = 1 + Cardinality(Succeeded)
    /\ \A j \in Jobs : JobOK(j)
    /\ StuckOnlyByCancelledRetry

(***************************************************************************)
(* Snapshots.  The one a worker is about to mark ready has its manifest in *)
(* the object store, or has failed in the meantime.                        *)
(***************************************************************************)
SnapshotsHeld ==
    /\ ReadySnapshotIsStored
    /\ \A s \in Snapshots : snap[s].status = "none" => snap[s] = NoSnapshot
    /\ \A w \in Workers :
          /\ worker[w].pc \in {"renewing", "storing", "marking"} =>
                 worker[w].snap \in Snapshots /\ snap[worker[w].snap].status # "none"
          /\ worker[w].pc = "marking" /\ snap[worker[w].snap].status = "pending" =>
                 snap[worker[w].snap].stored

RestoreInvariant ==
    /\ StoreInvariant
    /\ RowsTyped
    /\ LeaseHeld
    /\ JobsHeld
    /\ SnapshotsHeld

-----------------------------------------------------------------------------
(***************************************************************************)
(* Refinement.  Every step of the restore machinery is one of the store or *)
(* none.                                                                   *)
(***************************************************************************)
LEMMA WorkerStepStore ==
    ASSUME RowsTyped, NEW w \in Workers, WorkerStep(w) \/ Crash(w)
    PROVE  [StoreNext]_storeVars
<1>1. w \in Writers
  BY RestoreAssumption
<1>2. ASSUME NEW j \in Jobs, ClaimJob(w, j) PROVE [StoreNext]_storeVars
  <2>1. CASE EnterMaintenance
    BY <2>1 DEF StoreNext
  <2>2. CASE status = "maintenance" /\ MoveTo(status)
    BY <2>2 DEF MoveTo, storeVars
  <2> QED
    BY <1>2, <2>1, <2>2 DEF ClaimJob
<1>3. CASE ExecuteRestore(w)
  BY <1>1, <1>3 DEF ExecuteRestore, StoreNext
<1>4. CASE RestoreItem(w)
  <2>1. PICK item \in worker[w].todo :
            Revise(w, item.obj, work.heads[item.obj].rev, item.body)
    BY <1>4 DEF RestoreItem
  <2>2. item.obj \in Objects /\ item.body \in Bodies
    BY DEF RowsTyped, WorkerRows, WantedItems
  <2> QED
    BY <1>1, <2>1, <2>2 DEF StoreNext
<1>5. CASE CommitExecution(w)
  BY <1>1, <1>5 DEF CommitExecution, StoreNext
<1>6. CASE CancelWithLease(w)
  BY <1>6 DEF CancelWithLease, StoreNext
<1>7. CASE StepFails(w) \/ Crash(w)
  BY <1>1, <1>7 DEF StepFails, Crash, StoreNext
<1>8. CASE \/ \E j \in Jobs : ClaimRefused(w, j)
           \/ \E s \in Snapshots : CreatePreRestoreSnapshot(w, s)
           \/ SeesCancellation(w) \/ RenewLease(w) \/ LeaseIsLost(w) \/ StoreManifest(w)
           \/ MarkSnapshotReady(w) \/ RetryWithLease(w)
  BY <1>8 DEF ClaimRefused, CreatePreRestoreSnapshot, SeesCancellation, RenewLease, LeaseIsLost,
              StoreManifest, MarkSnapshotReady, RetryWithLease
<1> QED
  BY <1>2, <1>3, <1>4, <1>5, <1>6, <1>7, <1>8 DEF WorkerStep

LEMMA UserStepStore == UserStep => [StoreNext]_storeVars
<1> SUFFICES ASSUME UserStep PROVE [StoreNext]_storeVars
  OBVIOUS
<1>1. Client \in Writers
  BY RestoreAssumption
<1>2. CASE \/ \E s \in Snapshots : TakeUserSnapshot(s) \/ StoreUserManifest(s)
                                   \/ RecordUserSnapshot(s)
           \/ \E j \in Jobs, t \in RestoreTargets : EnqueueRestore(j, t)
           \/ \E j \in Jobs : CancelQueued(j) \/ RequestCancel(j)
  BY <1>2 DEF TakeUserSnapshot, StoreUserManifest, RecordUserSnapshot, EnqueueRestore,
              CancelQueued, RequestCancel
<1>3. CASE ReopenFailed \/ Disable \/ EnqueuePurge
  BY <1>3 DEF ReopenFailed, Disable, EnqueuePurge, StoreNext
<1>4. CASE ClientPush
  BY <1>1, <1>4 DEF ClientPush, StoreNext
<1> QED
  BY <1>2, <1>3, <1>4 DEF UserStep

LEMMA TimeStepStore == TimeStep => UNCHANGED storeVars
BY DEF TimeStep, LeaseExpires, RunAfterPasses, ExpirePending, DeleteManifest

LEMMA StepStore == RowsTyped /\ [RestoreNext]_vars => [StoreNext]_storeVars
BY WorkerStepStore, UserStepStore, TimeStepStore DEF RestoreNext, vars

-----------------------------------------------------------------------------
(***************************************************************************)
(* The rows stay typed.                                                    *)
(***************************************************************************)
LEMMA HeadItemsTyped == ASSUME NEW st \in Stores PROVE HeadItems(st) \subseteq Changes
BY DEF HeadItems, Stores

LEMMA PendingTyped ==
    ASSUME StoreInvariant, NEW owner \in Workers \cup {Client}
    PROVE  Pending(owner) \in SnapshotRows /\ Pending(owner).status = "pending"
<1>1. store \in Stores /\ store.seq \in Nat /\ generation \in Nat
  BY DEF StoreInvariant, StoreTypeOK, Stores
<1>2. HeadItems(store) \in SUBSET Changes
  BY <1>1, HeadItemsTyped
<1> QED
  BY <1>1, <1>2 DEF Pending, SnapshotRows, SnapshotStates

LEMMA WantedTyped ==
    ASSUME StoreInvariant, RowsTyped, NEW t \in Targets
    PROVE  Wanted(t) \subseteq WantedItems
<1>1. store \in Stores
  BY DEF StoreInvariant, StoreTypeOK
<1>2. HeadItems(store) \subseteq Changes
  BY <1>1, HeadItemsTyped
<1>3. TargetItems(t) \subseteq Changes
  <2>1. CASE t.snap # 0
    <3>1. t.snap \in Snapshots
      BY <2>1 DEF Targets
    <3> QED
      BY <2>1, <3>1 DEF TargetItems, RowsTyped, SnapshotRows
  <2>2. CASE t.snap = 0
    BY <1>1, <2>2 DEF TargetItems, RankedAt, Stores
  <2> QED
    BY <2>1, <2>2
<1>4. \A c \in Changes : c.obj \in Objects /\ c.rev \in Nat /\ c.body \in Bodies
  BY DEF Changes
<1>5. ASSUME NEW item \in Wanted(t) PROVE item \in WantedItems
  <2>1. CASE \E c \in TargetItems(t) : item = [obj |-> c.obj, rev |-> c.rev, body |-> c.body]
    BY <1>3, <1>4, <2>1 DEF WantedItems
  <2>2. CASE \E c \in HeadItems(store) : item = [obj |-> c.obj, rev |-> 0, body |-> Tombstone]
    BY <1>2, <1>4, <2>2 DEF WantedItems, Bodies
  <2> QED
    BY <1>5, <2>1, <2>2 DEF Wanted
<1> QED
  BY <1>5

-----------------------------------------------------------------------------
(***************************************************************************)
(* What a step may do to the jobs: leave them alone, edit one row that no  *)
(* execution depends on, or complete the execution of one.                 *)
(***************************************************************************)
IsActive(row) == row.status \in {"queued", "running"}
IsWayOut(row) == \/ IsActive(row) \/ row.status = "failed"
                 \/ row.status = "cancelled" /\ row.attempts > 0

RowOK(row, g, s) ==
    /\ row.status = "running" => row.before = g
    /\ row.status = "queued" => row.before \in {0, g}
    /\ row.attempts <= RetryLimit
    /\ IsActive(row) => row.attempts < RetryLimit
    /\ row.status = "queued" /\ row.attempts = 0 => s # "maintenance"

SameLease(row, old) ==
    row.status = old.status /\ row.token = old.token /\ row.cancel = old.cancel

Edit(j, row) ==
    /\ job' = [job EXCEPT ![j] = row]
    /\ generation' = generation
    /\ row.status # "none" /\ row.target \in Targets
    /\ row.token \in 0 .. leases'
    /\ row.status # "succeeded" /\ job[j].status # "succeeded"
    /\ IsActive(row) => Active(j) \/ NoActiveJob
    /\ RowOK(row, generation, status')
    /\ status' = "maintenance" => IsWayOut(row) /\ (status = "maintenance" \/ Active(j))
    /\ RowIsLocked(j) => SameLease(row, job[j])

JobEdits ==
    \/ /\ UNCHANGED <<job, generation>>
       /\ status' = "maintenance" => status = "maintenance"
    \/ \E j \in Jobs, row \in JobRows : Edit(j, row)
    \/ \E w \in Workers : CommitExecution(w)

\* A job that is being executed belongs to the holder of the project row.
LEMMA Locked ==
    ASSUME RowsTyped, LeaseHeld, NEW j \in Jobs, RowIsLocked(j)
    PROVE  \E w \in Workers : /\ worker[w].pc = "applying" /\ worker[w].job = j /\ holder = w
                              /\ worker[w].token # 0 /\ job[j].token = worker[w].token
                              /\ job[j].status = "running"
                              /\ status = "maintenance" /\ holder # Nobody
<1>1. PICK w \in Workers : worker[w].pc = "applying" /\ worker[w].job = j
  BY DEF RowIsLocked, At
<1>2. /\ holder = w /\ Holds(w) /\ status = "maintenance"
      /\ worker[w].token \in 1 .. leases /\ leases \in Nat
  BY <1>1 DEF LeaseHeld, RowsTyped
<1>3. worker[w].token # 0
  BY <1>2
<1>4. holder # Nobody
  BY <1>2, RestoreAssumption, StoreAssumption
<1> QED
  BY <1>1, <1>2, <1>3, <1>4 DEF Holds, JobOf

LEMMA JobTyped ==
    ASSUME RowsTyped, LeaseHeld, JobsHeld, NEW j \in Jobs
    PROVE  /\ job[j] \in JobRows /\ JobOK(j) /\ job[j].token \in 0 .. leases
           /\ job[j].status # "none" => job[j].target \in Targets
BY DEF RowsTyped, LeaseHeld, JobsHeld

\* A running job whose lease another worker holds is not being executed.
LEMMA HolderIsAlone ==
    ASSUME RowsTyped, LeaseHeld, NEW w \in Workers, worker[w].pc # "idle",
           Holds(w), worker[w].pc # "applying"
    PROVE  JobOf(w) \in Jobs /\ ~RowIsLocked(JobOf(w))
<1>1. JobOf(w) \in Jobs
  BY DEF LeaseHeld, JobOf
<1>2. ASSUME RowIsLocked(JobOf(w)) PROVE FALSE
  <2>1. PICK v \in Workers : /\ worker[v].pc = "applying"
                             /\ job[JobOf(w)].token = worker[v].token
                             /\ worker[v].token # 0
    BY <1>1, <1>2, Locked
  <2>2. worker[v].token = worker[w].token /\ v # w
    BY <2>1 DEF Holds
  <2> QED
    BY <2>1, <2>2 DEF LeaseHeld
<1> QED
  BY <1>1, <1>2

LEMMA ClaimEdits ==
    ASSUME StoreInvariant, RowsTyped, LeaseHeld, JobsHeld, NEW w \in Workers, NEW j \in Jobs,
           ClaimJob(w, j) \/ ClaimRefused(w, j)
    PROVE  JobEdits
<1>1. /\ job[j] \in JobRows /\ JobOK(j) /\ job[j].token \in 0 .. leases
      /\ job[j].status # "none" => job[j].target \in Targets
      /\ leases \in Nat /\ generation \in Nat
  BY JobTyped DEF RowsTyped, StoreInvariant, StoreTypeOK
<1>2. job[j].status \in {"queued", "running"}
  BY DEF ClaimJob, ClaimRefused, Claimable
<1>3. CASE ClaimJob(w, j)
  <2> DEFINE found == IF job[j].before = 0 THEN generation ELSE job[j].before
             row == [job[j] EXCEPT !.status = "running", !.token = leases + 1,
                                   !.expired = FALSE, !.before = found]
  <2>1. job' = [job EXCEPT ![j] = row] /\ leases' = leases + 1
    BY <1>3, <1>1 DEF ClaimJob, RowsTyped
  <2>2. found = generation /\ found \in Nat /\ leases + 1 \in Nat
    BY <1>1, <1>2 DEF JobOK
  <2> HIDE DEF found
  <2>3. /\ row \in JobRows /\ row.status = "running" /\ row.token = leases + 1
        /\ row.target = job[j].target /\ row.attempts = job[j].attempts
        /\ row.before = found
    BY <1>1, <2>2 DEF JobRows, JobStates
  <2>4. holder = Nobody /\ generation' = generation
    BY <1>3 DEF ClaimJob, EnterMaintenance, MoveTo
  <2>5. ~RowIsLocked(j)
    BY <2>4, Locked
  <2>6. row.before = generation
    BY <2>3, <2>2
  <2> HIDE DEF row
  <2>7. RowOK(row, generation, status')
    BY <1>1, <1>2, <2>3, <2>6 DEF RowOK, JobOK, IsActive, Active
  <2>8. Edit(j, row)
    BY <1>1, <1>2, <2>3, <2>1, <2>4, <2>5, <2>7 DEF Edit, IsActive, IsWayOut, Active
  <2> QED
    BY <2>3, <2>8 DEF JobEdits
<1>4. CASE ClaimRefused(w, j)
  <2> DEFINE row == [job[j] EXCEPT !.status = "failed"]
  <2>1. /\ row \in JobRows /\ row.status = "failed" /\ row.token = job[j].token
        /\ row.target = job[j].target /\ row.attempts = job[j].attempts
    BY <1>1 DEF JobRows, JobStates
  <2>2. /\ job' = [job EXCEPT ![j] = row] /\ UNCHANGED <<status, generation, leases>>
        /\ status # "maintenance"
    BY <1>4, <1>1 DEF ClaimRefused, RowsTyped, storeVars
  <2>3. ~RowIsLocked(j)
    BY <2>2, Locked
  <2> HIDE DEF row
  <2>4. RowOK(row, generation, status')
    BY <1>1, <2>1 DEF RowOK, JobOK, IsActive
  <2>5. Edit(j, row)
    BY <1>1, <1>2, <2>1, <2>2, <2>3, <2>4 DEF Edit, IsActive, IsWayOut
  <2> QED
    BY <2>1, <2>5 DEF JobEdits
<1> QED
  BY <1>3, <1>4

\* Edits of columns that decide nothing about the job: due, expired, the snapshot.
LEMMA MinorEdit ==
    ASSUME RowsTyped, LeaseHeld, JobsHeld, NEW j \in Jobs, Active(j),
           NEW row \in JobRows, job' = [job EXCEPT ![j] = row],
           row.status = job[j].status, row.target = job[j].target,
           row.token = job[j].token, row.cancel = job[j].cancel,
           row.attempts = job[j].attempts, row.before = job[j].before,
           UNCHANGED <<status, generation, leases>>
    PROVE  JobEdits
<1>1. /\ JobOK(j) /\ job[j].token \in 0 .. leases
      /\ job[j].status # "none" => job[j].target \in Targets
  BY JobTyped
<1>2. RowOK(row, generation, status')
  BY <1>1 DEF RowOK, JobOK, IsActive, Active
<1>3. Edit(j, row)
  BY <1>1, <1>2 DEF Edit, IsActive, IsWayOut, Active, SameLease
<1> QED
  BY <1>3 DEF JobEdits

LEMMA WorkerEdits ==
    ASSUME StoreInvariant, RowsTyped, LeaseHeld, JobsHeld, NEW w \in Workers,
           WorkerStep(w) \/ Crash(w)
    PROVE  JobEdits
<1>1. worker[w].pc # "idle" => JobOf(w) \in Jobs
  BY DEF LeaseHeld, JobOf
<1>2. ASSUME NEW s \in Snapshots, CreatePreRestoreSnapshot(w, s) PROVE JobEdits
  <2> DEFINE j == JobOf(w)
             row == [job[j] EXCEPT !.pre = s]
  <2>1. j \in Jobs /\ job[j] \in JobRows /\ Active(j)
    BY <1>1, <1>2, JobTyped DEF CreatePreRestoreSnapshot, At, Holds, Active
  <2>2. /\ row \in JobRows /\ row.status = job[j].status /\ row.target = job[j].target
        /\ row.token = job[j].token /\ row.cancel = job[j].cancel
        /\ row.attempts = job[j].attempts /\ row.before = job[j].before
    BY <2>1, RestoreAssumption DEF JobRows, Snapshots
  <2>3. /\ job' = [job EXCEPT ![j] = row]
        /\ UNCHANGED <<status, generation, leases>>
    BY <1>2 DEF CreatePreRestoreSnapshot, storeVars
  <2> QED
    BY <2>1, <2>2, <2>3, MinorEdit
<1>3. CASE RenewLease(w)
  <2> DEFINE j == JobOf(w)
             row == [job[j] EXCEPT !.expired = FALSE]
  <2>1. j \in Jobs /\ job[j] \in JobRows /\ Active(j)
    BY <1>1, <1>3, JobTyped DEF RenewLease, At, Holds, Active
  <2>2. /\ row \in JobRows /\ row.status = job[j].status /\ row.target = job[j].target
        /\ row.token = job[j].token /\ row.cancel = job[j].cancel
        /\ row.attempts = job[j].attempts /\ row.before = job[j].before
    BY <2>1 DEF JobRows
  <2>3. /\ job' = [job EXCEPT ![j] = row]
        /\ UNCHANGED <<status, generation, leases>>
    BY <1>3 DEF RenewLease, storeVars
  <2> QED
    BY <2>1, <2>2, <2>3, MinorEdit
<1>4. CASE CancelWithLease(w) /\ Holds(w)
  <2> DEFINE j == JobOf(w)
             row == [LeaseFree(job[j]) EXCEPT !.status = "cancelled"]
  <2>1. /\ j \in Jobs /\ job[j] \in JobRows /\ Active(j) /\ ~RowIsLocked(j)
        /\ JobOK(j) /\ job[j].target \in Targets /\ leases \in Nat
    BY <1>1, <1>4, JobTyped, HolderIsAlone
       DEF CancelWithLease, At, Holds, Active, RowsTyped
  <2>2. /\ row \in JobRows /\ row.status = "cancelled" /\ row.target = job[j].target
        /\ row.token = 0 /\ row.attempts = job[j].attempts
    BY <2>1 DEF JobRows, JobStates, LeaseFree
  <2>3. /\ job' = [job EXCEPT ![j] = row] /\ UNCHANGED <<generation, leases>>
        /\ status' # "maintenance"
    BY <1>4 DEF CancelWithLease, LeaveMaintenance, MoveTo, storeVars
  <2> HIDE DEF row
  <2>4. RowOK(row, generation, status')
    BY <2>1, <2>2 DEF RowOK, JobOK, IsActive
  <2>5. Edit(j, row)
    BY <2>1, <2>2, <2>3, <2>4 DEF Edit, IsActive, Active
  <2> QED
    BY <2>1, <2>2, <2>5 DEF JobEdits
<1>5. CASE RetryWithLease(w) /\ Holds(w)
  <2> DEFINE j == JobOf(w)
             tried == job[j].attempts + 1
             next == IF tried < RetryLimit THEN "queued" ELSE "failed"
             row == [LeaseFree(job[j]) EXCEPT !.attempts = tried, !.status = next,
                                              !.due = FALSE]
  <2>1. /\ j \in Jobs /\ job[j] \in JobRows /\ job[j].status = "running" /\ ~RowIsLocked(j)
        /\ JobOK(j) /\ job[j].target \in Targets /\ leases \in Nat
    BY <1>1, <1>5, JobTyped, HolderIsAlone DEF RetryWithLease, At, Holds, RowsTyped
  <2>2. job' = [job EXCEPT ![j] = row] /\ UNCHANGED <<status, generation, leases>>
    BY <1>5 DEF RetryWithLease, storeVars
  <2>3. /\ tried \in Nat \ {0} /\ tried <= RetryLimit
        /\ next \in JobStates /\ next \in {"queued", "failed"}
        /\ next = "queued" => tried < RetryLimit
    BY <2>1 DEF JobRows, JobOK, JobStates, Active, RetryLimit
  <2> HIDE DEF next, tried
  <2>4. /\ row \in JobRows /\ row.status = next /\ row.target = job[j].target
        /\ row.token = 0 /\ row.attempts = tried /\ row.before = job[j].before
    BY <2>1, <2>3 DEF JobRows, LeaseFree
  <2> HIDE DEF row
  <2>5. RowOK(row, generation, status')
    BY <2>1, <2>3, <2>4 DEF RowOK, JobOK, IsActive
  <2>6. Edit(j, row)
    BY <2>1, <2>2, <2>3, <2>4, <2>5 DEF Edit, IsActive, Active, IsWayOut
  <2> QED
    BY <2>1, <2>4, <2>6 DEF JobEdits
<1>6. ASSUME \/ LeaseIsLost(w) \/ StoreManifest(w) \/ MarkSnapshotReady(w) \/ SeesCancellation(w)
             \/ ExecuteRestore(w) \/ RestoreItem(w) \/ StepFails(w) \/ Crash(w)
             \/ (CancelWithLease(w) \/ RetryWithLease(w)) /\ ~Holds(w)
      PROVE  JobEdits
  <2>1. UNCHANGED <<job, generation, status>>
    BY <1>6 DEF LeaseIsLost, StoreManifest, MarkSnapshotReady, SeesCancellation, ExecuteRestore,
       RestoreItem, StepFails, Crash, CancelWithLease, RetryWithLease, LockProject, Revise,
       Rollback, storeVars
  <2> QED
    BY <2>1 DEF JobEdits
<1>7. CASE CommitExecution(w)
  BY <1>7 DEF JobEdits
<1> QED
  BY <1>2, <1>3, <1>4, <1>5, <1>6, <1>7, ClaimEdits DEF WorkerStep

LEMMA UserEdits ==
    ASSUME StoreInvariant, RowsTyped, LeaseHeld, JobsHeld, UserStep
    PROVE  JobEdits
<1>1. leases \in Nat /\ generation \in Nat
  BY DEF RowsTyped, StoreInvariant, StoreTypeOK
<1>2. ASSUME NEW j \in Jobs, NEW target \in RestoreTargets, EnqueueRestore(j, target)
      PROVE  JobEdits
  <2> DEFINE row == [NoJob EXCEPT !.status = "queued", !.target = target, !.due = TRUE]
  <2>1. /\ row \in JobRows /\ row.status = "queued" /\ row.target = target
        /\ row.token = 0 /\ row.before = 0 /\ row.attempts = 0
    BY TargetAssumption DEF NoJob, JobRows, JobStates
  <2>2. /\ job' = [job EXCEPT ![j] = row] /\ UNCHANGED <<status, generation, leases>>
        /\ status = "active" /\ NoActiveJob /\ job[j].status = "none" /\ holder = Nobody
    BY <1>2 DEF EnqueueRestore, storeVars, NoJob
  <2>3. ~RowIsLocked(j) /\ target \in Targets
    BY <2>2, Locked, TargetAssumption
  <2> HIDE DEF row
  <2>4. RowOK(row, generation, status')
    BY <2>1, <2>2 DEF RowOK, RetryLimit, IsActive
  <2>5. Edit(j, row)
    BY <1>1, <2>1, <2>2, <2>3, <2>4 DEF Edit
  <2> QED
    BY <2>1, <2>5 DEF JobEdits
<1>3. ASSUME NEW j \in Jobs, CancelQueued(j) PROVE JobEdits
  <2> DEFINE row == [job[j] EXCEPT !.status = "cancelled"]
  <2>1. /\ job[j] \in JobRows /\ job[j].status = "queued" /\ JobOK(j)
        /\ job[j].target \in Targets /\ job[j].token \in 0 .. leases /\ ~RowIsLocked(j)
    BY <1>3, JobTyped, Locked DEF CancelQueued
  <2>2. /\ row \in JobRows /\ row.status = "cancelled" /\ row.target = job[j].target
        /\ row.token = job[j].token /\ row.attempts = job[j].attempts
        /\ row.attempts \in Nat
    BY <2>1 DEF JobRows, JobStates
  <2>3. job' = [job EXCEPT ![j] = row] /\ UNCHANGED <<status, generation, leases>>
    BY <1>3 DEF CancelQueued, storeVars
  <2> HIDE DEF row
  <2>4. RowOK(row, generation, status')
    BY <2>1, <2>2 DEF RowOK, JobOK, IsActive
  <2>5. status' = "maintenance" => row.attempts > 0
    BY <2>1, <2>2, <2>3 DEF JobOK
  <2>6. Edit(j, row)
    BY <2>1, <2>2, <2>3, <2>4, <2>5 DEF Edit, IsActive, IsWayOut
  <2> QED
    BY <2>2, <2>6 DEF JobEdits
<1>4. ASSUME NEW j \in Jobs, RequestCancel(j) PROVE JobEdits
  <2> DEFINE row == [job[j] EXCEPT !.cancel = TRUE]
  <2>1. /\ job[j] \in JobRows /\ job[j].status = "running" /\ JobOK(j)
        /\ job[j].target \in Targets /\ job[j].token \in 0 .. leases /\ ~RowIsLocked(j)
    BY <1>4, JobTyped DEF RequestCancel
  <2>2. /\ row \in JobRows /\ row.status = "running" /\ row.target = job[j].target
        /\ row.token = job[j].token /\ row.attempts = job[j].attempts
        /\ row.before = job[j].before
    BY <2>1 DEF JobRows
  <2>3. job' = [job EXCEPT ![j] = row] /\ UNCHANGED <<status, generation, leases>>
    BY <1>4 DEF RequestCancel, storeVars
  <2> HIDE DEF row
  <2>4. RowOK(row, generation, status')
    BY <2>1, <2>2 DEF RowOK, JobOK, IsActive, Active
  <2>5. Edit(j, row)
    BY <2>1, <2>2, <2>3, <2>4 DEF Edit, IsActive, Active, IsWayOut
  <2> QED
    BY <2>2, <2>5 DEF JobEdits
<1>5. ASSUME \/ \E s \in Snapshots : TakeUserSnapshot(s) \/ StoreUserManifest(s)
                                     \/ RecordUserSnapshot(s)
             \/ ReopenFailed \/ Disable \/ EnqueuePurge \/ ClientPush
      PROVE  JobEdits
  <2>1. UNCHANGED <<job, generation>> /\ (status' = "maintenance" => status = "maintenance")
    BY <1>5 DEF TakeUserSnapshot, StoreUserManifest, RecordUserSnapshot, ReopenFailed, Disable,
       EnqueuePurge, ClientPush, LeaveMaintenance, DisableProject, StartPurge, MoveTo,
       LockProject, Revise, CommitWrites, Commit, jobVars, storeVars
  <2> QED
    BY <2>1 DEF JobEdits
<1> QED
  BY <1>2, <1>3, <1>4, <1>5 DEF UserStep

LEMMA TimeEdits ==
    ASSUME StoreInvariant, RowsTyped, LeaseHeld, JobsHeld, TimeStep
    PROVE  JobEdits
<1>1. ASSUME NEW j \in Jobs, LeaseExpires(j) PROVE JobEdits
  <2> DEFINE row == [job[j] EXCEPT !.expired = TRUE]
  <2>1. /\ row \in JobRows /\ row.status = job[j].status /\ row.target = job[j].target
        /\ row.token = job[j].token /\ row.cancel = job[j].cancel
        /\ row.attempts = job[j].attempts /\ row.before = job[j].before
    BY JobTyped DEF JobRows
  <2>2. /\ job' = [job EXCEPT ![j] = row] /\ Active(j)
        /\ UNCHANGED <<status, generation, leases>>
    BY <1>1 DEF LeaseExpires, Active, storeVars
  <2> QED
    BY <2>1, <2>2, MinorEdit
<1>2. ASSUME NEW j \in Jobs, RunAfterPasses(j) PROVE JobEdits
  <2> DEFINE row == [job[j] EXCEPT !.due = TRUE]
  <2>1. /\ row \in JobRows /\ row.status = job[j].status /\ row.target = job[j].target
        /\ row.token = job[j].token /\ row.cancel = job[j].cancel
        /\ row.attempts = job[j].attempts /\ row.before = job[j].before
    BY JobTyped DEF JobRows
  <2>2. /\ job' = [job EXCEPT ![j] = row] /\ Active(j)
        /\ UNCHANGED <<status, generation, leases>>
    BY <1>2 DEF RunAfterPasses, Active, storeVars
  <2> QED
    BY <2>1, <2>2, MinorEdit
<1>3. ASSUME NEW s \in Snapshots, ExpirePending(s) \/ DeleteManifest(s) PROVE JobEdits
  <2>1. UNCHANGED <<job, generation, status>>
    BY <1>3 DEF ExpirePending, DeleteManifest, storeVars
  <2> QED
    BY <2>1 DEF JobEdits
<1> QED
  BY <1>1, <1>2, <1>3 DEF TimeStep

LEMMA StepEdits ==
    ASSUME StoreInvariant, RowsTyped, LeaseHeld, JobsHeld, [RestoreNext]_vars
    PROVE  JobEdits
<1>1. CASE UNCHANGED vars
  BY <1>1 DEF JobEdits, vars, storeVars, jobVars
<1> QED
  BY <1>1, WorkerEdits, UserEdits, TimeEdits DEF RestoreNext

-----------------------------------------------------------------------------
(***************************************************************************)
(* Jobs: one is active, one success per generation, always a way out.      *)
(***************************************************************************)
LEMMA EditKeepsJobs ==
    ASSUME RowsTyped, JobsHeld, NEW j \in Jobs, NEW row \in JobRows, Edit(j, row)
    PROVE  /\ JobsHeld'
           /\ job' \in [Jobs -> JobRows]
           /\ \A i \in Jobs : job'[i].status # "none" => job'[i].target \in Targets
<1>1. /\ job' = [job EXCEPT ![j] = row] /\ generation' = generation
      /\ row.status \notin {"none", "succeeded"} /\ row.target \in Targets
      /\ job[j].status # "succeeded"
      /\ IsActive(row) => Active(j) \/ NoActiveJob
      /\ RowOK(row, generation, status')
      /\ status' = "maintenance" => IsWayOut(row) /\ (status = "maintenance" \/ Active(j))
  BY DEF Edit
<1>2. /\ job \in [Jobs -> JobRows]
      /\ \A i \in Jobs : job[i].status # "none" => job[i].target \in Targets
  BY DEF RowsTyped
<1>3. job'[j] = row /\ \A i \in Jobs \ {j} : job'[i] = job[i]
  BY <1>1, <1>2
<1>4. /\ job' \in [Jobs -> JobRows]
      /\ \A i \in Jobs : job'[i].status # "none" => job'[i].target \in Targets
  BY <1>1, <1>2, <1>3
<1>5. \A i, k \in Jobs : Active(i)' /\ Active(k)' => i = k
  BY <1>1, <1>3 DEF Active, IsActive, NoActiveJob, JobsHeld
<1>6. Succeeded' = Succeeded
  BY <1>1, <1>3 DEF Succeeded
<1>7. ASSUME NEW i \in Jobs PROVE JobOK(i)'
  <2>1. CASE i = j
    BY <2>1, <1>1, <1>3 DEF JobOK, RowOK, Active, IsActive
  <2>2. CASE i # j
    <3>1. JobOK(i) /\ job'[i] = job[i]
      BY <2>2, <1>3 DEF JobsHeld
    <3>2. job[i].status = "queued" /\ status' = "maintenance" => status = "maintenance"
      BY <2>2, <1>1 DEF JobsHeld, Active
    <3> QED
      BY <3>1, <3>2, <1>1 DEF JobOK, Active
  <2> QED
    BY <2>1, <2>2
<1>8. StuckOnlyByCancelledRetry'
  BY <1>1, <1>3 DEF StuckOnlyByCancelledRetry, WayOut, Active, IsWayOut, IsActive
<1> QED
  BY <1>1, <1>4, <1>5, <1>6, <1>7, <1>8 DEF JobsHeld

LEMMA CommitKeepsJobs ==
    ASSUME StoreInvariant, RowsTyped, LeaseHeld, JobsHeld, NEW w \in Workers,
           CommitExecution(w)
    PROVE  /\ JobsHeld'
           /\ job' \in [Jobs -> JobRows]
           /\ \A i \in Jobs : job'[i].status # "none" => job'[i].target \in Targets
           /\ job'[JobOf(w)].token = 0 /\ \A i \in Jobs \ {JobOf(w)} : job'[i] = job[i]
<1> DEFINE j == JobOf(w)
           next == generation + 1
           row == [LeaseFree(job[j]) EXCEPT !.status = "succeeded", !.after = next]
<1>1. /\ j \in Jobs /\ job[j] \in JobRows /\ JobOK(j)
      /\ job[j].status = "running" /\ ~job[j].cancel /\ job[j].target \in Targets
      /\ generation \in Nat
  <2>1. worker[w].pc = "applying" /\ j \in Jobs /\ Holds(w) /\ ~job[JobOf(w)].cancel
    BY DEF CommitExecution, At, LeaseHeld, JobOf
  <2> QED
    BY <2>1, JobTyped DEF Holds, StoreInvariant, StoreTypeOK
<1>2. /\ row \in JobRows /\ row.status = "succeeded" /\ row.target = job[j].target
      /\ row.token = 0 /\ row.cancel = job[j].cancel /\ row.attempts = job[j].attempts
      /\ row.before = job[j].before /\ row.after = generation + 1
  <2>1. next \in Nat
    BY <1>1
  <2> HIDE DEF next
  <2>2. LeaseFree(job[j]) \in JobRows
    BY <1>1 DEF JobRows, LeaseFree
  <2>3. /\ row \in JobRows /\ row.status = "succeeded" /\ row.target = job[j].target
        /\ row.token = 0 /\ row.cancel = job[j].cancel /\ row.attempts = job[j].attempts
        /\ row.before = job[j].before /\ row.after = next
    BY <1>1, <2>1, <2>2 DEF JobRows, JobStates, LeaseFree
  <2> QED
    BY <2>3 DEF next
<1>3. job' = [job EXCEPT ![j] = row]
  BY DEF CommitExecution
<1>4. generation' = generation + 1 /\ status' = "active"
  BY DEF CommitExecution, CommitRestore, Commit
<1> HIDE DEF row, j
<1>5. job'[j] = row /\ \A i \in Jobs \ {j} : job'[i] = job[i]
  BY <1>1, <1>3 DEF RowsTyped
<1>6. /\ job' \in [Jobs -> JobRows]
      /\ \A i \in Jobs : job'[i].status # "none" => job'[i].target \in Targets
  BY <1>1, <1>2, <1>3, <1>5 DEF RowsTyped
<1>7. \A i \in Jobs \ {j} : ~Active(i)
  BY <1>1 DEF JobsHeld, Active
<1>8. \A i, k \in Jobs : Active(i)' /\ Active(k)' => i = k
  BY <1>2, <1>5, <1>7 DEF Active
<1>9. IsFiniteSet(Succeeded') /\ generation' = 1 + Cardinality(Succeeded')
  <2>1. Succeeded' = Succeeded \cup {j} /\ j \notin Succeeded
    BY <1>1, <1>2, <1>5 DEF Succeeded
  <2>2. IsFiniteSet(Succeeded) /\ generation = 1 + Cardinality(Succeeded)
    BY DEF JobsHeld
  <2>3. Cardinality(Succeeded) \in Nat
    BY <2>2, FS_CardinalityType
  <2>4. /\ IsFiniteSet(Succeeded \cup {j})
        /\ Cardinality(Succeeded \cup {j}) = Cardinality(Succeeded) + 1
    BY <2>1, <2>2, FS_AddElement
  <2> QED
    BY <1>4, <2>1, <2>2, <2>3, <2>4
<1>10. ASSUME NEW i \in Jobs PROVE JobOK(i)'
  <2>1. CASE i = j
    BY <2>1, <1>1, <1>2, <1>5 DEF JobOK, Active
  <2>2. CASE i # j
    <3>1. JobOK(i) /\ job'[i] = job[i] /\ ~Active(i)
      BY <2>2, <1>5, <1>7 DEF JobsHeld
    <3> QED
      BY <3>1 DEF JobOK, Active
  <2> QED
    BY <2>1, <2>2
<1>11. StuckOnlyByCancelledRetry'
  BY <1>4 DEF StuckOnlyByCancelledRetry
<1> QED
  BY <1>2, <1>5, <1>6, <1>8, <1>9, <1>10, <1>11 DEF JobsHeld, j

LEMMA JobsStep ==
    ASSUME StoreInvariant, RowsTyped, LeaseHeld, JobsHeld, [RestoreNext]_vars
    PROVE  /\ JobsHeld'
           /\ job' \in [Jobs -> JobRows]
           /\ \A i \in Jobs : job'[i].status # "none" => job'[i].target \in Targets
<1>1. CASE UNCHANGED <<job, generation>> /\ (status' = "maintenance" => status = "maintenance")
  <2>1. /\ job \in [Jobs -> JobRows]
        /\ \A i \in Jobs : job[i].status # "none" => job[i].target \in Targets
    BY DEF RowsTyped
  <2>2. job' = job /\ generation' = generation
    BY <1>1
  <2>3. Succeeded' = Succeeded /\ \A i \in Jobs : Active(i)' <=> Active(i)
    BY <2>2 DEF Succeeded, Active
  <2>4. \A i \in Jobs : JobOK(i)'
    BY <1>1, <2>2, <2>3 DEF JobsHeld, JobOK
  <2>5. StuckOnlyByCancelledRetry'
    BY <1>1, <2>2, <2>3 DEF JobsHeld, StuckOnlyByCancelledRetry, WayOut
  <2> QED
    BY <2>1, <2>2, <2>3, <2>4, <2>5 DEF JobsHeld
<1> QED
  BY <1>1, StepEdits, EditKeepsJobs, CommitKeepsJobs DEF JobEdits

-----------------------------------------------------------------------------
(***************************************************************************)
(* Leases.  The worker that executes keeps its lease until it is done:     *)
(* edits skip the job it holds, and the status of the project cannot move. *)
(***************************************************************************)
LEMMA StatusIsHeld ==
    ASSUME [RestoreNext]_vars, holder # Nobody
    PROVE  UNCHANGED status \/ \E w \in Workers : CommitExecution(w)
<1>1. ASSUME NEW w \in Workers, WorkerStep(w), ~CommitExecution(w) PROVE UNCHANGED status
  <2>1. CASE \E j \in Jobs : ClaimJob(w, j) \/ ClaimRefused(w, j)
    BY <2>1 DEF ClaimJob, ClaimRefused, EnterMaintenance, MoveTo, storeVars
  <2>2. CASE \/ \E s \in Snapshots : CreatePreRestoreSnapshot(w, s)
             \/ SeesCancellation(w) \/ RenewLease(w) \/ LeaseIsLost(w)
    BY <2>2 DEF CreatePreRestoreSnapshot, SeesCancellation, RenewLease, LeaseIsLost, storeVars
  <2>3. CASE StoreManifest(w) \/ MarkSnapshotReady(w) \/ ExecuteRestore(w) \/ RestoreItem(w)
    BY <2>3 DEF StoreManifest, MarkSnapshotReady, ExecuteRestore, RestoreItem, LockProject,
       Revise, storeVars
  <2>4. CASE CancelWithLease(w)
    BY <2>4 DEF CancelWithLease, LeaveMaintenance, MoveTo, storeVars
  <2>5. CASE StepFails(w) \/ RetryWithLease(w)
    BY <2>5 DEF StepFails, RetryWithLease, Rollback, storeVars
  <2> QED
    BY <1>1, <2>1, <2>2, <2>3, <2>4, <2>5 DEF WorkerStep
<1>2. ASSUME NEW w \in Workers, Crash(w) PROVE UNCHANGED status
  BY <1>2 DEF Crash, Rollback, storeVars
<1>3. CASE UserStep
  <2>1. CASE \/ \E s \in Snapshots : TakeUserSnapshot(s) \/ StoreUserManifest(s)
                                   \/ RecordUserSnapshot(s)
             \/ \E j \in Jobs : (\E t \in RestoreTargets : EnqueueRestore(j, t))
                               \/ CancelQueued(j) \/ RequestCancel(j)
    BY <2>1 DEF TakeUserSnapshot, StoreUserManifest, RecordUserSnapshot, EnqueueRestore,
       CancelQueued, RequestCancel, storeVars
  <2>2. CASE ReopenFailed \/ Disable \/ EnqueuePurge \/ ClientPush
    BY <2>2 DEF ReopenFailed, Disable, EnqueuePurge, ClientPush, DisableProject, StartPurge,
       MoveTo, LeaveMaintenance, LockProject, Revise, CommitWrites, Commit
  <2> QED
    BY <1>3, <2>1, <2>2 DEF UserStep
<1>4. CASE TimeStep
  BY <1>4, TimeStepStore DEF storeVars
<1>5. CASE UNCHANGED vars
  BY <1>5 DEF vars, storeVars
<1> QED
  BY <1>1, <1>2, <1>3, <1>4, <1>5 DEF RestoreNext

LEMMA ExecutionKeepsLease ==
    ASSUME StoreInvariant, RowsTyped, LeaseHeld, JobsHeld, [RestoreNext]_vars,
           NEW v \in Workers, worker[v].pc = "applying", worker'[v].pc = "applying",
           worker'[v].job = worker[v].job, worker'[v].token = worker[v].token
    PROVE  Holds(v)' /\ ~job'[JobOf(v)'].cancel /\ status' = "maintenance"
<1>1. /\ holder = v /\ Holds(v) /\ ~job[JobOf(v)].cancel /\ status = "maintenance"
      /\ JobOf(v) \in Jobs /\ holder # Nobody
  BY RestoreAssumption, StoreAssumption DEF LeaseHeld, JobOf
<1>2. ASSUME NEW w \in Workers, CommitExecution(w) PROVE FALSE
  <2>1. w = v
    BY <1>1, <1>2 DEF CommitExecution, At, LeaseHeld
  <2>2. worker'[v].pc = "idle"
    BY <1>2, <2>1 DEF CommitExecution, Returns, RowsTyped, AtRest
  <2> QED
    BY <2>2
<1>3. status' = status
  BY <1>1, <1>2, StatusIsHeld
<1>4. SameLease(job'[JobOf(v)], job[JobOf(v)])
  <2>1. CASE UNCHANGED job
    BY <2>1 DEF SameLease
  <2>2. ASSUME NEW j \in Jobs, NEW row \in JobRows, Edit(j, row)
        PROVE  SameLease(job'[JobOf(v)], job[JobOf(v)])
    <3>1. job'[j] = row /\ \A i \in Jobs \ {j} : job'[i] = job[i]
      BY <2>2 DEF Edit, RowsTyped
    <3>2. RowIsLocked(JobOf(v))
      BY DEF RowIsLocked, At, JobOf
    <3>3. CASE j = JobOf(v)
      BY <2>2, <3>1, <3>2, <3>3 DEF Edit
    <3>4. CASE j # JobOf(v)
      BY <1>1, <3>1, <3>4 DEF SameLease
    <3> QED
      BY <3>3, <3>4
  <2> QED
    BY <1>2, <2>1, <2>2, StepEdits DEF JobEdits
<1>5. JobOf(v)' = JobOf(v)
  BY DEF JobOf
<1> QED
  BY <1>1, <1>3, <1>4, <1>5 DEF Holds, SameLease

LEMMA LeasesGrow == RowsTyped /\ [RestoreNext]_vars => leases' \in Nat /\ leases <= leases'
<1> SUFFICES ASSUME RowsTyped, [RestoreNext]_vars
             PROVE  leases' \in Nat /\ leases <= leases'
  OBVIOUS
<1>1. leases \in Nat
  BY DEF RowsTyped
<1>2. ASSUME NEW w \in Workers, WorkerStep(w) \/ Crash(w) PROVE leases' \in {leases, leases + 1}
  <2>1. CASE \/ \E j \in Jobs : ClaimJob(w, j) \/ ClaimRefused(w, j)
             \/ \E s \in Snapshots : CreatePreRestoreSnapshot(w, s)
    BY <2>1 DEF ClaimJob, ClaimRefused, CreatePreRestoreSnapshot
  <2>2. CASE SeesCancellation(w) \/ RenewLease(w) \/ LeaseIsLost(w) \/ StoreManifest(w)
             \/ MarkSnapshotReady(w) \/ ExecuteRestore(w)
    BY <2>2 DEF SeesCancellation, RenewLease, LeaseIsLost, StoreManifest, MarkSnapshotReady,
       ExecuteRestore
  <2>3. CASE RestoreItem(w) \/ CommitExecution(w) \/ CancelWithLease(w) \/ StepFails(w)
             \/ RetryWithLease(w) \/ Crash(w)
    BY <2>3 DEF RestoreItem, CommitExecution, CancelWithLease, StepFails, RetryWithLease, Crash
  <2> QED
    BY <1>2, <2>1, <2>2, <2>3 DEF WorkerStep
<1>3. CASE UserStep
  <2>1. CASE \E s \in Snapshots : \/ TakeUserSnapshot(s) \/ StoreUserManifest(s)
                                 \/ RecordUserSnapshot(s)
    BY <1>1, <2>1 DEF TakeUserSnapshot, StoreUserManifest, RecordUserSnapshot
  <2>2. ASSUME NEW j \in Jobs, \/ \E t \in RestoreTargets : EnqueueRestore(j, t)
                             \/ CancelQueued(j) \/ RequestCancel(j)
        PROVE  UNCHANGED leases
    BY <2>2 DEF EnqueueRestore, CancelQueued, RequestCancel
  <2>3. CASE ReopenFailed \/ Disable \/ EnqueuePurge \/ ClientPush
    BY <1>1, <2>3 DEF ReopenFailed, Disable, EnqueuePurge, ClientPush, jobVars
  <2> QED
    BY <1>1, <1>3, <2>1, <2>2, <2>3 DEF UserStep
<1>4. CASE TimeStep
  BY <1>1, <1>4 DEF TimeStep, LeaseExpires, RunAfterPasses, ExpirePending, DeleteManifest
<1>5. CASE UNCHANGED vars
  BY <1>1, <1>5 DEF vars, jobVars
<1> QED
  BY <1>1, <1>2, <1>3, <1>4, <1>5 DEF RestoreNext

LEMMA JobTokens ==
    ASSUME StoreInvariant, RowsTyped, LeaseHeld, JobsHeld, [RestoreNext]_vars
    PROVE  \A i \in Jobs : job'[i].token \in 0 .. leases'
<1> SUFFICES ASSUME NEW i \in Jobs PROVE job'[i].token \in 0 .. leases'
  OBVIOUS
<1>1. /\ leases \in Nat /\ leases' \in Nat /\ leases <= leases'
      /\ job[i].token \in 0 .. leases
  BY LeasesGrow DEF RowsTyped, LeaseHeld
<1>2. CASE job'[i] = job[i]
  BY <1>1, <1>2
<1>3. ASSUME NEW j \in Jobs, NEW row \in JobRows, Edit(j, row)
      PROVE  job'[i].token \in 0 .. leases'
  <2>1. job'[i] = IF i = j THEN row ELSE job[i]
    BY <1>3 DEF Edit, RowsTyped
  <2> QED
    BY <1>2, <1>3, <2>1 DEF Edit
<1>4. ASSUME NEW w \in Workers, CommitExecution(w)
      PROVE  job'[i].token \in 0 .. leases'
  BY <1>1, <1>2, <1>4, CommitKeepsJobs
<1> QED
  BY <1>2, <1>3, <1>4, StepEdits DEF JobEdits

LEMMA WorkerChanges ==
    ASSUME StoreInvariant, RowsTyped, LeaseHeld, JobsHeld, [RestoreNext]_vars,
           NEW w \in Workers, NEW r \in WorkerRows, worker' = [worker EXCEPT ![w] = r],
           r.pc = "idle" => r = AtRest,
           r.pc # "idle" => r.job \in Jobs /\ r.token \in 1 .. leases',
           \/ r.token = 0
           \/ r.token = worker[w].token
           \/ r.token = leases + 1,
           r.pc = "applying" <=> holder' = w,
           \A v \in Workers \ {w} : holder = v <=> holder' = v,
           r.pc = "applying" =>
               \/ worker[w].pc = "applying" /\ r.job = worker[w].job
                                            /\ r.token = worker[w].token
               \/ job'[r.job].status = "running" /\ job'[r.job].token = r.token
                    /\ ~job'[r.job].cancel /\ status' = "maintenance"
    PROVE  LeaseHeld' /\ worker' \in [Workers -> WorkerRows]
<1>1. /\ worker \in [Workers -> WorkerRows] /\ leases \in Nat /\ leases' \in Nat
      /\ leases <= leases'
  BY LeasesGrow DEF RowsTyped
<1>2. worker'[w] = r /\ \A v \in Workers \ {w} : worker'[v] = worker[v]
  BY <1>1
<1>3. worker' \in [Workers -> WorkerRows]
  BY <1>1
<1>4. \A v \in Workers : worker[v].token \in 0 .. leases
  <2>1. AtRest.token = 0
    BY DEF AtRest
  <2> QED
    BY <1>1, <2>1 DEF LeaseHeld
<1>5. \A u, v \in Workers : u # v /\ worker'[u].token = worker'[v].token
                            => worker'[u].token = 0
  BY <1>1, <1>2, <1>4 DEF LeaseHeld
<1>6. ASSUME NEW v \in Workers
      PROVE  /\ worker'[v].pc = "idle" => worker'[v] = AtRest
             /\ worker'[v].pc # "idle" => /\ worker'[v].job \in Jobs
                                          /\ worker'[v].token \in 1 .. leases'
             /\ worker'[v].pc = "applying" <=> holder' = v
             /\ worker'[v].pc = "applying" => /\ Holds(v)' /\ ~job'[JobOf(v)'].cancel
                                              /\ status' = "maintenance"
  <2>1. CASE v = w
    <3>1. ASSUME worker[w].pc = "applying", r.pc = "applying", r.job = worker[w].job,
                 r.token = worker[w].token
          PROVE  Holds(w)' /\ ~job'[JobOf(w)'].cancel /\ status' = "maintenance"
      BY <1>2, <3>1, ExecutionKeepsLease
    <3> QED
      BY <2>1, <1>2, <3>1 DEF Holds, JobOf
  <2>2. CASE v # w
    <3>1. worker'[v] = worker[v]
      BY <1>2, <2>2
    <3>2. /\ worker[v].pc = "idle" => worker[v] = AtRest
          /\ worker[v].pc # "idle" => worker[v].job \in Jobs /\ worker[v].token \in 1 .. leases
          /\ worker[v].pc = "applying" <=> holder = v
      BY DEF LeaseHeld
    <3>3. holder = v <=> holder' = v
      BY <2>2
    <3>4. worker[v].token \in 1 .. leases => worker[v].token \in 1 .. leases'
      BY <1>1
    <3>5. worker[v].pc = "applying" => /\ Holds(v)' /\ ~job'[JobOf(v)'].cancel
                                       /\ status' = "maintenance"
      BY <3>1, ExecutionKeepsLease
    <3> QED
      BY <3>1, <3>2, <3>3, <3>4, <3>5
  <2> QED
    BY <2>1, <2>2
<1>7. \A i \in Jobs : job'[i].token \in 0 .. leases'
  BY JobTokens
<1> QED
  BY <1>3, <1>5, <1>6, <1>7 DEF LeaseHeld

LEMMA WorkersStay ==
    ASSUME StoreInvariant, RowsTyped, LeaseHeld, JobsHeld, [RestoreNext]_vars,
           UNCHANGED worker, \A v \in Workers : holder = v <=> holder' = v
    PROVE  LeaseHeld' /\ worker' \in [Workers -> WorkerRows]
<1>1. leases \in Nat /\ leases' \in Nat /\ leases <= leases'
  BY LeasesGrow DEF RowsTyped
<1>2. ASSUME NEW v \in Workers
      PROVE  /\ worker'[v].pc = "idle" => worker'[v] = AtRest
             /\ worker'[v].pc # "idle" => /\ worker'[v].job \in Jobs
                                          /\ worker'[v].token \in 1 .. leases'
             /\ worker'[v].pc = "applying" <=> holder' = v
             /\ worker'[v].pc = "applying" => /\ Holds(v)' /\ ~job'[JobOf(v)'].cancel
                                              /\ status' = "maintenance"
  <2>1. /\ worker[v].pc = "idle" => worker[v] = AtRest
        /\ worker[v].pc # "idle" => worker[v].job \in Jobs /\ worker[v].token \in 1 .. leases
        /\ worker[v].pc = "applying" <=> holder = v
    BY DEF LeaseHeld
  <2>2. worker[v].token \in 1 .. leases => worker[v].token \in 1 .. leases'
    BY <1>1
  <2>3. worker[v].pc = "applying" => /\ Holds(v)' /\ ~job'[JobOf(v)'].cancel
                                     /\ status' = "maintenance"
    BY ExecutionKeepsLease
  <2> QED
    BY <2>1, <2>2, <2>3
<1>3. \A i \in Jobs : job'[i].token \in 0 .. leases'
  BY JobTokens
<1> QED
  BY <1>2, <1>3 DEF LeaseHeld, RowsTyped

LEMMA WorkerLease ==
    ASSUME StoreInvariant, RowsTyped, LeaseHeld, JobsHeld, [RestoreNext]_vars,
           NEW w \in Workers, WorkerStep(w) \/ Crash(w)
    PROVE  LeaseHeld' /\ worker' \in [Workers -> WorkerRows]
<1>1. /\ worker[w] \in WorkerRows /\ leases \in Nat /\ leases' \in Nat /\ leases <= leases'
      /\ worker[w].pc = "idle" => worker[w] = AtRest
      /\ worker[w].pc # "idle" => worker[w].job \in Jobs /\ worker[w].token \in 1 .. leases'
      /\ worker[w].pc = "applying" <=> holder = w
      /\ Nobody \notin Workers
  <2>1. leases \in Nat /\ leases' \in Nat /\ leases <= leases'
    BY LeasesGrow DEF RowsTyped
  <2> QED
    BY <2>1, RestoreAssumption, StoreAssumption DEF LeaseHeld, RowsTyped
<1>2. AtRest \in WorkerRows /\ AtRest.pc = "idle" /\ AtRest.token = 0
  BY DEF AtRest, WorkerRows, WorkerPlaces
\* The worker gives up or is done: it does not hold the row any more.
<1>3. ASSUME Returns(w), holder' # w, \A v \in Workers \ {w} : holder = v <=> holder' = v
      PROVE  LeaseHeld' /\ worker' \in [Workers -> WorkerRows]
  BY <1>2, <1>3, WorkerChanges DEF Returns
\* The worker goes on to a place other than the execution.
<1>4. ASSUME NEW pc \in WorkerPlaces \ {"idle", "applying"}, Goes(w, pc),
             worker[w].pc # "idle", holder' # w,
             \A v \in Workers \ {w} : holder = v <=> holder' = v
      PROVE  LeaseHeld' /\ worker' \in [Workers -> WorkerRows]
  <2> DEFINE r == [worker[w] EXCEPT !.pc = pc]
  <2>1. r \in WorkerRows /\ r.pc = pc /\ r.job = worker[w].job /\ r.token = worker[w].token
    BY <1>1, <1>4 DEF WorkerRows
  <2>2. worker' = [worker EXCEPT ![w] = r]
    BY <1>4 DEF Goes
  <2> HIDE DEF r
  <2> QED
    BY <1>1, <1>4, <2>1, <2>2, WorkerChanges
<1>5. ASSUME NEW j \in Jobs, ClaimJob(w, j)
      PROVE  LeaseHeld' /\ worker' \in [Workers -> WorkerRows]
  <2> DEFINE token == leases + 1
             r == [AtRest EXCEPT !.pc = "claimed", !.job = j, !.token = token]
  <2>1. leases' = leases + 1 /\ worker' = [worker EXCEPT ![w] = r]
        /\ holder' = holder /\ holder = Nobody
    BY <1>5 DEF ClaimJob, EnterMaintenance, MoveTo
  <2>2. token = leases + 1 /\ token \in Nat /\ token \in 1 .. leases'
    BY <1>1, <2>1
  <2> HIDE DEF token
  <2>3. r \in WorkerRows /\ r.pc = "claimed" /\ r.job = j /\ r.token = token
    BY <1>2, <2>2 DEF WorkerRows, WorkerPlaces
  <2> HIDE DEF r
  <2> QED
    BY <1>1, <2>1, <2>2, <2>3, WorkerChanges
<1>6. ASSUME NEW j \in Jobs, ClaimRefused(w, j)
      PROVE  LeaseHeld' /\ worker' \in [Workers -> WorkerRows]
  BY <1>6, WorkersStay DEF ClaimRefused, storeVars
<1>7. ASSUME NEW s \in Snapshots, CreatePreRestoreSnapshot(w, s)
      PROVE  LeaseHeld' /\ worker' \in [Workers -> WorkerRows]
  <2> DEFINE r == [worker[w] EXCEPT !.pc = "renewing", !.snap = s]
  <2>1. s \in Nat
    BY RestoreAssumption DEF Snapshots
  <2>2. r \in WorkerRows /\ r.pc = "renewing" /\ r.job = worker[w].job
           /\ r.token = worker[w].token
    BY <1>1, <2>1 DEF WorkerRows, WorkerPlaces
  <2>3. worker' = [worker EXCEPT ![w] = r] /\ holder' = holder /\ worker[w].pc = "claimed"
    BY <1>7 DEF CreatePreRestoreSnapshot, At, storeVars
  <2> HIDE DEF r
  <2> QED
    BY <1>1, <2>2, <2>3, WorkerChanges
<1>8. CASE SeesCancellation(w) \/ RenewLease(w) \/ StoreManifest(w) \/ MarkSnapshotReady(w)
  <2>1. PICK pc \in {"cancelling", "storing", "executing", "marking", "renewingAgain"} :
            Goes(w, pc)
    BY <1>8 DEF SeesCancellation, RenewLease, StoreManifest, MarkSnapshotReady
  <2>2. worker[w].pc \notin {"idle", "applying"} /\ holder' = holder
    BY <1>8 DEF SeesCancellation, RenewLease, StoreManifest, MarkSnapshotReady, At, storeVars
  <2>3. pc \in WorkerPlaces \ {"idle", "applying"}
    BY DEF WorkerPlaces
  <2> QED
    BY <1>1, <1>4, <2>1, <2>2, <2>3
<1>9. CASE LeaseIsLost(w) \/ CancelWithLease(w) \/ RetryWithLease(w)
  <2>1. Returns(w) /\ worker[w].pc # "applying" /\ holder' = holder
    BY <1>9 DEF LeaseIsLost, CancelWithLease, RetryWithLease, At, LeaveMaintenance, MoveTo,
       storeVars
  <2> QED
    BY <1>1, <1>3, <2>1
<1>10. CASE ExecuteRestore(w)
  <2> DEFINE t == job[JobOf(w)].target
             todo == {i \in Wanted(t) : ~SameState(i)}
             r == [worker[w] EXCEPT !.pc = "applying", !.todo = todo]
  <2>1. /\ worker[w].pc = "executing" /\ Holds(w) /\ ~job[JobOf(w)].cancel
        /\ status = "maintenance" /\ status' = status /\ job' = job
        /\ holder = Nobody /\ holder' = w
        /\ worker' = [worker EXCEPT ![w] = r]
    BY <1>10 DEF ExecuteRestore, At, LockProject
  <2>2. JobOf(w) \in Jobs
    BY <1>1, <2>1 DEF JobOf
  <2>3. t \in Targets
    BY <2>1, <2>2 DEF Holds, RowsTyped
  <2>4. todo \in SUBSET WantedItems
    BY <2>3, WantedTyped
  <2> HIDE DEF todo, t
  <2>5. r \in WorkerRows /\ r.pc = "applying" /\ r.job = worker[w].job
           /\ r.token = worker[w].token
    BY <1>1, <2>4 DEF WorkerRows, WorkerPlaces
  <2>6. /\ job'[r.job].status = "running" /\ job'[r.job].token = r.token
        /\ ~job'[r.job].cancel /\ status' = "maintenance"
    BY <2>1, <2>5 DEF Holds, JobOf
  <2> HIDE DEF r
  <2> QED
    BY <1>1, <2>1, <2>5, <2>6, WorkerChanges
<1>11. CASE RestoreItem(w)
  <2>1. PICK item \in worker[w].todo : worker' = [worker EXCEPT ![w].todo = @ \ {item}]
    BY <1>11 DEF RestoreItem
  <2> DEFINE todo == worker[w].todo \ {item}
             r == [worker[w] EXCEPT !.todo = todo]
  <2>2. todo \in SUBSET WantedItems
    BY <1>1 DEF WorkerRows
  <2>3. worker[w].pc = "applying" /\ holder' = holder /\ worker' = [worker EXCEPT ![w] = r]
    BY <1>11, <2>1 DEF RestoreItem, At, Revise
  <2> HIDE DEF todo
  <2>4. r \in WorkerRows /\ r.pc = "applying" /\ r.job = worker[w].job
           /\ r.token = worker[w].token
    BY <1>1, <2>2, <2>3 DEF WorkerRows
  <2> HIDE DEF r
  <2> QED
    BY <1>1, <2>3, <2>4, WorkerChanges
<1>12. CASE CommitExecution(w)
  <2>1. Returns(w) /\ holder = w /\ holder' = Nobody
    BY <1>12 DEF CommitExecution, CommitRestore, Commit
  <2> QED
    BY <1>1, <1>3, <2>1
<1>13. CASE StepFails(w)
  <2>1. /\ Goes(w, "retrying") /\ worker[w].pc # "idle"
        /\ \/ worker[w].pc # "applying" /\ holder' = holder
           \/ worker[w].pc = "applying" /\ holder' = Nobody
    BY <1>13 DEF StepFails, At, Rollback, storeVars
  <2>2. "retrying" \in WorkerPlaces \ {"idle", "applying"}
    BY DEF WorkerPlaces
  <2> QED
    BY <1>1, <1>4, <2>1, <2>2
<1>14. CASE Crash(w)
  <2>1. /\ Returns(w)
        /\ \/ holder = w /\ holder' = Nobody
           \/ holder # w /\ holder' = holder
    BY <1>14 DEF Crash, Rollback, storeVars
  <2> QED
    BY <1>1, <1>3, <2>1
<1> QED
  BY <1>5, <1>6, <1>7, <1>8, <1>9, <1>10, <1>11, <1>12, <1>13, <1>14 DEF WorkerStep

LEMMA LeaseStep ==
    ASSUME StoreInvariant, RowsTyped, LeaseHeld, JobsHeld, [RestoreNext]_vars
    PROVE  LeaseHeld' /\ worker' \in [Workers -> WorkerRows]
<1>1. Nobody \notin Workers /\ Client \notin Workers
  BY RestoreAssumption, StoreAssumption
<1>2. CASE UserStep
  <2>1. UNCHANGED worker
    BY <1>2 DEF UserStep, TakeUserSnapshot, StoreUserManifest, RecordUserSnapshot,
       EnqueueRestore, CancelQueued, RequestCancel, ReopenFailed, Disable, EnqueuePurge,
       ClientPush, jobVars
  <2>2. holder' = holder \/ {holder, holder'} \subseteq {Client, Nobody}
    BY <1>2 DEF UserStep, TakeUserSnapshot, StoreUserManifest, RecordUserSnapshot,
       EnqueueRestore, CancelQueued, RequestCancel, ReopenFailed, Disable, EnqueuePurge,
       ClientPush, LeaveMaintenance, DisableProject, StartPurge, MoveTo, LockProject, Revise,
       CommitWrites, Commit, storeVars
  <2> QED
    BY <1>1, <2>1, <2>2, WorkersStay
<1>3. CASE TimeStep \/ UNCHANGED vars
  <2>1. UNCHANGED <<worker, holder>>
    BY <1>3 DEF TimeStep, LeaseExpires, RunAfterPasses, ExpirePending, DeleteManifest,
       vars, jobVars, storeVars
  <2> QED
    BY <2>1, WorkersStay
<1> QED
  BY <1>2, <1>3, WorkerLease DEF RestoreNext

-----------------------------------------------------------------------------
(***************************************************************************)
(* Snapshots.  A row never goes back to pending and a pending one never    *)
(* loses its manifest, so what a worker stored is there when it marks it.  *)
(***************************************************************************)
Awaited == {"renewing", "storing", "marking"}

SnapshotsMoveOn ==
    \A t \in Snapshots : snap[t].status # "none" =>
        /\ snap'[t].status # "none"
        /\ snap'[t].status = "pending" => /\ snap[t].status = "pending"
                                          /\ snap[t].stored => snap'[t].stored

SnapshotsFine == /\ snap' \in [Snapshots -> SnapshotRows]
                 /\ ReadySnapshotIsStored'
                 /\ \A t \in Snapshots : snap'[t].status = "none" => snap'[t] = NoSnapshot
                 /\ SnapshotsMoveOn

LEMMA SnapshotChanges ==
    ASSUME RowsTyped, SnapshotsHeld, NEW s \in Snapshots, NEW r \in SnapshotRows,
           snap' = [snap EXCEPT ![s] = r],
           r.status # "none",
           r.status = "ready" => r.stored,
           r.status = "pending" => \/ snap[s].status = "none"
                                   \/ snap[s].status = "pending" /\ (snap[s].stored => r.stored)
    PROVE  SnapshotsFine
<1>1. snap'[s] = r /\ \A t \in Snapshots \ {s} : snap'[t] = snap[t]
  BY DEF RowsTyped
<1>2. snap' \in [Snapshots -> SnapshotRows]
  BY DEF RowsTyped
<1>3. ReadySnapshotIsStored'
  BY <1>1 DEF ReadySnapshotIsStored, SnapshotsHeld
<1>4. \A t \in Snapshots : snap'[t].status = "none" => snap'[t] = NoSnapshot
  BY <1>1 DEF SnapshotsHeld
<1> QED
  BY <1>1, <1>2, <1>3, <1>4 DEF SnapshotsFine, SnapshotsMoveOn

LEMMA SnapshotsStay ==
    ASSUME RowsTyped, SnapshotsHeld, UNCHANGED snap PROVE SnapshotsFine
BY DEF SnapshotsFine, SnapshotsMoveOn, SnapshotsHeld, ReadySnapshotIsStored, RowsTyped

LEMMA SnapshotStored ==
    ASSUME RowsTyped, SnapshotsHeld, NEW s \in Snapshots, snap[s].status # "none",
           snap' = [snap EXCEPT ![s].stored = TRUE]
    PROVE  SnapshotsFine /\ snap'[s].stored
<1> DEFINE r == [snap[s] EXCEPT !.stored = TRUE]
<1>1. r \in SnapshotRows /\ r.stored = TRUE /\ r.status = snap[s].status
  BY DEF RowsTyped, SnapshotRows
<1>2. snap' = [snap EXCEPT ![s] = r] /\ snap'[s] = r
  BY DEF RowsTyped
<1>3. r.status \in SnapshotStates
  BY <1>1 DEF SnapshotRows
<1>4. r.status = "pending" => snap[s].status = "pending"
  BY <1>1
<1> HIDE DEF r
<1>5. SnapshotsFine
  BY <1>1, <1>2, <1>4, SnapshotChanges
<1> QED
  BY <1>1, <1>2, <1>5

LEMMA SnapshotMarked ==
    ASSUME RowsTyped, SnapshotsHeld, NEW s \in Snapshots, snap[s].status = "pending",
           NEW next \in {"ready", "failed"}, next = "ready" => snap[s].stored,
           snap' = [snap EXCEPT ![s].status = next]
    PROVE  SnapshotsFine
<1> DEFINE r == [snap[s] EXCEPT !.status = next]
<1>1. r \in SnapshotRows /\ r.status = next /\ r.stored = snap[s].stored
  BY DEF RowsTyped, SnapshotRows, SnapshotStates
<1>2. snap' = [snap EXCEPT ![s] = r]
  BY DEF RowsTyped
<1> HIDE DEF r
<1> QED
  BY <1>1, <1>2, SnapshotChanges

LEMMA SnapshotTaken ==
    ASSUME StoreInvariant, RowsTyped, SnapshotsHeld, NEW s \in Snapshots,
           NEW owner \in Workers \cup {Client}, NextSnapshot(s),
           snap' = [snap EXCEPT ![s] = Pending(owner)]
    PROVE  SnapshotsFine /\ snap'[s].status # "none"
<1>1. Pending(owner) \in SnapshotRows /\ Pending(owner).status = "pending"
  BY PendingTyped
<1>2. snap[s].status = "none" /\ snap'[s] = Pending(owner)
  BY DEF NextSnapshot, NoSnapshot, RowsTyped
<1>3. SnapshotsFine
  BY <1>1, <1>2, SnapshotChanges
<1> QED
  BY <1>1, <1>2, <1>3

LEMMA WorkersAwait ==
    ASSUME RowsTyped, SnapshotsHeld, SnapshotsFine,
           \A v \in Workers : worker'[v].pc \in Awaited =>
               \/ /\ worker[v].pc \in Awaited /\ worker'[v].snap = worker[v].snap
                  /\ worker'[v].pc = "marking" =>
                         worker[v].pc = "marking" \/ snap'[worker[v].snap].stored
               \/ /\ worker'[v].pc # "marking" /\ worker'[v].snap \in Snapshots
                  /\ snap'[worker'[v].snap].status # "none"
    PROVE  SnapshotsHeld'
<1> SUFFICES ASSUME NEW v \in Workers, worker'[v].pc \in Awaited
             PROVE  /\ worker'[v].snap \in Snapshots /\ snap'[worker'[v].snap].status # "none"
                    /\ worker'[v].pc = "marking" /\ snap'[worker'[v].snap].status = "pending" =>
                           snap'[worker'[v].snap].stored
  BY DEF SnapshotsHeld, SnapshotsFine, Awaited
<1>1. worker[v].pc \in Awaited =>
          worker[v].snap \in Snapshots /\ snap[worker[v].snap].status # "none"
  BY DEF SnapshotsHeld, Awaited
<1>2. worker[v].pc = "marking" /\ snap[worker[v].snap].status = "pending" =>
          snap[worker[v].snap].stored
  BY DEF SnapshotsHeld
<1> QED
  BY <1>1, <1>2 DEF SnapshotsFine, SnapshotsMoveOn

LEMMA WorkerSnapshots ==
    ASSUME StoreInvariant, RowsTyped, SnapshotsHeld, NEW w \in Workers,
           WorkerStep(w) \/ Crash(w)
    PROVE  SnapshotsFine /\ SnapshotsHeld'
<1>1. worker[w].pc \in Awaited =>
          worker[w].snap \in Snapshots /\ snap[worker[w].snap].status # "none"
  BY DEF SnapshotsHeld, Awaited
\* The worker leaves the snapshots alone and does not go on towards marking one.
<1>2. ASSUME UNCHANGED snap, NEW r, worker' = [worker EXCEPT ![w] = r],
             r.pc \in Awaited => worker[w].pc \in Awaited /\ r.snap = worker[w].snap
                                    /\ r.pc # "marking"
      PROVE  SnapshotsFine /\ SnapshotsHeld'
  <2>1. SnapshotsFine
    BY <1>2, SnapshotsStay
  <2>2. worker'[w] = r /\ \A v \in Workers \ {w} : worker'[v] = worker[v]
    BY <1>2 DEF RowsTyped
  <2> QED
    BY <1>2, <2>1, <2>2, WorkersAwait
<1>3. ASSUME UNCHANGED snap, NEW pc, Goes(w, pc), worker[w].pc \in Awaited \/ pc \notin Awaited,
             pc # "marking"
      PROVE  SnapshotsFine /\ SnapshotsHeld'
  <2> DEFINE r == [worker[w] EXCEPT !.pc = pc]
  <2>1. r.pc = pc /\ r.snap = worker[w].snap
    BY DEF RowsTyped, WorkerRows
  <2>2. worker' = [worker EXCEPT ![w] = r]
    BY <1>3 DEF Goes
  <2> HIDE DEF r
  <2> QED
    BY <1>2, <1>3, <2>1, <2>2
<1>4. ASSUME UNCHANGED snap, Returns(w) PROVE SnapshotsFine /\ SnapshotsHeld'
  BY <1>2, <1>4 DEF Returns, AtRest, Awaited
<1>5. ASSUME NEW j \in Jobs, ClaimJob(w, j) PROVE SnapshotsFine /\ SnapshotsHeld'
  <2> DEFINE r == [AtRest EXCEPT !.pc = "claimed", !.job = j, !.token = leases + 1]
  <2>1. UNCHANGED snap /\ worker' = [worker EXCEPT ![w] = r] /\ r.pc = "claimed"
    BY <1>5 DEF ClaimJob, AtRest
  <2> HIDE DEF r
  <2> QED
    BY <1>2, <2>1 DEF Awaited
<1>6. ASSUME NEW s \in Snapshots, CreatePreRestoreSnapshot(w, s)
      PROVE  SnapshotsFine /\ SnapshotsHeld'
  <2>1. snap' = [snap EXCEPT ![s] = Pending(w)] /\ NextSnapshot(s)
           /\ worker' = [worker EXCEPT ![w].pc = "renewing", ![w].snap = s]
    BY <1>6 DEF CreatePreRestoreSnapshot
  <2>2. SnapshotsFine /\ snap'[s].status # "none"
    BY <2>1, SnapshotTaken
  <2>3. /\ worker'[w].pc = "renewing" /\ worker'[w].snap = s
        /\ \A v \in Workers \ {w} : worker'[v] = worker[v]
    BY <2>1 DEF RowsTyped, WorkerRows
  <2> QED
    BY <2>2, <2>3, WorkersAwait
<1>7. CASE SeesCancellation(w) \/ RenewLease(w)
  BY <1>3, <1>7 DEF SeesCancellation, RenewLease, At, Awaited
<1>8. CASE StoreManifest(w)
  <2> DEFINE s == worker[w].snap
  <2>1. s \in Snapshots /\ snap[s].status # "none" /\ worker[w].pc = "storing"
    BY <1>1, <1>8 DEF StoreManifest, At, Awaited
  <2>2. SnapshotsFine /\ snap'[s].stored
    BY <1>8, <2>1, SnapshotStored DEF StoreManifest
  <2>3. /\ worker'[w].snap = s /\ \A v \in Workers \ {w} : worker'[v] = worker[v]
    BY <1>8 DEF StoreManifest, Goes, RowsTyped, WorkerRows
  <2> QED
    BY <2>1, <2>2, <2>3, WorkersAwait DEF Awaited
<1>9. CASE MarkSnapshotReady(w)
  <2> DEFINE s == worker[w].snap
  <2>1. /\ s \in Snapshots /\ Goes(w, "renewingAgain") /\ worker[w].pc = "marking"
    BY <1>1, <1>9 DEF MarkSnapshotReady, At, Awaited
  <2>2. snap[s].status = "pending" => snap[s].stored
    BY <2>1 DEF SnapshotsHeld
  <2>3. CASE UNCHANGED snap
    BY <1>3, <2>1, <2>3 DEF Awaited
  <2>4. CASE snap[s].status = "pending" /\ snap' = [snap EXCEPT ![s].status = "ready"]
    <3>1. SnapshotsFine
      BY <2>1, <2>2, <2>4, SnapshotMarked
    <3>2. worker'[w].pc = "renewingAgain" /\ \A v \in Workers \ {w} : worker'[v] = worker[v]
      BY <2>1 DEF Goes, RowsTyped, WorkerRows
    <3> QED
      BY <3>1, <3>2, WorkersAwait DEF Awaited
  <2> QED
    BY <1>9, <2>3, <2>4 DEF MarkSnapshotReady
<1>10. CASE ExecuteRestore(w)
  <2> DEFINE r == [worker[w] EXCEPT !.pc = "applying",
                      !.todo = {i \in Wanted(job[JobOf(w)].target) : ~SameState(i)}]
  <2>1. UNCHANGED snap /\ worker' = [worker EXCEPT ![w] = r]
    BY <1>10 DEF ExecuteRestore
  <2>2. r.pc = "applying"
    BY DEF RowsTyped, WorkerRows
  <2> HIDE DEF r
  <2> QED
    BY <1>2, <2>1, <2>2 DEF Awaited
<1>11. CASE RestoreItem(w)
  <2>1. PICK item \in worker[w].todo : worker' = [worker EXCEPT ![w].todo = @ \ {item}]
    BY <1>11 DEF RestoreItem
  <2> DEFINE r == [worker[w] EXCEPT !.todo = @ \ {item}]
  <2>2. r.pc = "applying"
    BY <1>11 DEF RestoreItem, At, RowsTyped, WorkerRows
  <2>3. UNCHANGED snap /\ worker' = [worker EXCEPT ![w] = r]
    BY <1>11, <2>1 DEF RestoreItem
  <2> HIDE DEF r
  <2> QED
    BY <1>2, <2>2, <2>3 DEF Awaited
<1>12. CASE \/ LeaseIsLost(w) \/ CommitExecution(w) \/ CancelWithLease(w) \/ RetryWithLease(w)
            \/ Crash(w)
  <2>1. UNCHANGED snap /\ Returns(w)
    BY <1>12 DEF LeaseIsLost, CommitExecution, CancelWithLease, RetryWithLease, Crash
  <2> QED
    BY <1>4, <2>1
<1>13. CASE StepFails(w)
  <2>1. Goes(w, "retrying")
    BY <1>13 DEF StepFails
  <2>2. CASE UNCHANGED snap
    BY <1>3, <2>1, <2>2 DEF Awaited
  <2>3. CASE At(w, "storing") /\ snap' = [snap EXCEPT ![worker[w].snap].stored = TRUE]
    <3>1. SnapshotsFine
      BY <1>1, <2>3, SnapshotStored DEF At, Awaited
    <3>2. worker'[w].pc = "retrying" /\ \A v \in Workers \ {w} : worker'[v] = worker[v]
      BY <2>1 DEF Goes, RowsTyped, WorkerRows
    <3> QED
      BY <3>1, <3>2, WorkersAwait DEF Awaited
  <2> QED
    BY <1>13, <2>2, <2>3 DEF StepFails
<1>14. ASSUME NEW j \in Jobs, ClaimRefused(w, j) PROVE SnapshotsFine /\ SnapshotsHeld'
  <2>1. UNCHANGED <<snap, worker>>
    BY <1>14 DEF ClaimRefused
  <2> QED
    BY <2>1, SnapshotsStay, WorkersAwait
<1> QED
  BY <1>5, <1>6, <1>7, <1>8, <1>9, <1>10, <1>11, <1>12, <1>13, <1>14 DEF WorkerStep

LEMMA SnapshotsStep ==
    ASSUME StoreInvariant, RowsTyped, SnapshotsHeld, [RestoreNext]_vars
    PROVE  SnapshotsFine /\ SnapshotsHeld'
<1>1. ASSUME UserStep \/ TimeStep \/ UNCHANGED vars
      PROVE  UNCHANGED worker
  BY <1>1 DEF UserStep, TimeStep, TakeUserSnapshot, StoreUserManifest, RecordUserSnapshot,
     EnqueueRestore, CancelQueued, RequestCancel, ReopenFailed, Disable, EnqueuePurge,
     ClientPush, LeaseExpires, RunAfterPasses, ExpirePending, DeleteManifest, vars, jobVars
<1>2. ASSUME SnapshotsFine, UNCHANGED worker PROVE SnapshotsFine /\ SnapshotsHeld'
  BY <1>2, WorkersAwait
<1>3. ASSUME NEW s \in Snapshots, TakeUserSnapshot(s) PROVE SnapshotsFine
  BY <1>3, SnapshotTaken DEF TakeUserSnapshot
<1>4. ASSUME NEW s \in Snapshots, StoreUserManifest(s) PROVE SnapshotsFine
  <2>1. snap[s].status # "none"
    BY <1>4, RestoreAssumption DEF StoreUserManifest, SnapshotsHeld, NoSnapshot
  <2> QED
    BY <1>4, <2>1, SnapshotStored DEF StoreUserManifest
<1>5. ASSUME NEW s \in Snapshots, RecordUserSnapshot(s) PROVE SnapshotsFine
  BY <1>5, SnapshotMarked DEF RecordUserSnapshot
<1>6. ASSUME NEW s \in Snapshots, ExpirePending(s) PROVE SnapshotsFine
  BY <1>6, SnapshotMarked DEF ExpirePending
<1>7. ASSUME NEW s \in Snapshots, DeleteManifest(s) PROVE SnapshotsFine
  <2> DEFINE r == [snap[s] EXCEPT !.stored = FALSE]
  <2>1. snap' = [snap EXCEPT ![s] = r] /\ r \in SnapshotRows /\ r.status = "failed"
    BY <1>7 DEF DeleteManifest, RowsTyped, SnapshotRows
  <2> HIDE DEF r
  <2> QED
    BY <2>1, SnapshotChanges
<1>8. CASE UserStep
  <2>1. \/ \E s \in Snapshots : TakeUserSnapshot(s) \/ StoreUserManifest(s)
                                \/ RecordUserSnapshot(s)
        \/ UNCHANGED snap
    BY <1>8 DEF UserStep, EnqueueRestore, CancelQueued, RequestCancel, ReopenFailed, Disable,
       EnqueuePurge, ClientPush, jobVars
  <2> QED
    BY <1>1, <1>2, <1>3, <1>4, <1>5, <1>8, <2>1, SnapshotsStay
<1>9. CASE TimeStep
  <2>1. (\E s \in Snapshots : ExpirePending(s) \/ DeleteManifest(s)) \/ UNCHANGED snap
    BY <1>9 DEF TimeStep, LeaseExpires, RunAfterPasses
  <2> QED
    BY <1>1, <1>2, <1>6, <1>7, <1>9, <2>1, SnapshotsStay
<1>10. CASE UNCHANGED vars
  BY <1>1, <1>2, <1>10, SnapshotsStay DEF vars, jobVars
<1> QED
  BY <1>8, <1>9, <1>10, WorkerSnapshots DEF RestoreNext

-----------------------------------------------------------------------------
(***************************************************************************)
(* The invariant is inductive.  Its parts lean on each other: the one job  *)
(* that is active keeps the generation it found, because only the worker   *)
(* with the job's lease commits an execution, and that worker keeps the    *)
(* lease because nobody else can lock the row it holds.                    *)
(***************************************************************************)
LEMMA RestoreInitInvariant == RestoreInit => RestoreInvariant
<1> SUFFICES ASSUME RestoreInit PROVE RestoreInvariant
  OBVIOUS
<1>1. /\ StoreInvariant /\ generation = 1 /\ status = "active" /\ holder = Nobody
      /\ job = [j \in Jobs |-> NoJob] /\ snap = [s \in Snapshots |-> NoSnapshot]
      /\ worker = [w \in Workers |-> AtRest] /\ leases = 0
  BY InitInvariant DEF RestoreInit, StoreInit
<1>2. Nobody \notin Workers
  BY RestoreAssumption, StoreAssumption
<1>3. NoJob \in JobRows /\ NoSnapshot \in SnapshotRows /\ AtRest \in WorkerRows
  BY DEF NoJob, JobRows, JobStates, NoSnapshot, SnapshotRows, SnapshotStates,
         AtRest, WorkerRows, WorkerPlaces
<1>4. RowsTyped
  BY <1>1, <1>3 DEF RowsTyped, NoJob
<1>5. LeaseHeld
  BY <1>1, <1>2 DEF LeaseHeld, AtRest, NoJob
<1>6. JobsHeld
  <2>1. \A j \in Jobs : /\ job[j].status = "none" /\ job[j].attempts = 0
                        /\ ~Active(j) /\ JobOK(j)
    BY <1>1 DEF NoJob, Active, JobOK, RetryLimit
  <2>2. Succeeded = {}
    BY <2>1 DEF Succeeded
  <2>3. IsFiniteSet(Succeeded) /\ Cardinality(Succeeded) = 0
    BY <2>2, FS_EmptySet
  <2>4. StuckOnlyByCancelledRetry
    BY <1>1 DEF StuckOnlyByCancelledRetry
  <2> QED
    BY <1>1, <2>1, <2>3, <2>4 DEF JobsHeld
<1>7. SnapshotsHeld
  BY <1>1 DEF SnapshotsHeld, ReadySnapshotIsStored, NoSnapshot, AtRest
<1> QED
  BY <1>1, <1>4, <1>5, <1>6, <1>7 DEF RestoreInvariant

LEMMA RestoreNextInvariant == RestoreInvariant /\ [RestoreNext]_vars => RestoreInvariant'
<1> SUFFICES ASSUME RestoreInvariant, [RestoreNext]_vars PROVE RestoreInvariant'
  OBVIOUS
<1>1. StoreInvariant /\ RowsTyped /\ LeaseHeld /\ JobsHeld /\ SnapshotsHeld
  BY DEF RestoreInvariant
<1>2. StoreInvariant'
  BY <1>1, StepStore, NextInvariant
<1>3. /\ JobsHeld'
      /\ job' \in [Jobs -> JobRows]
      /\ \A i \in Jobs : job'[i].status # "none" => job'[i].target \in Targets
  BY <1>1, JobsStep
<1>4. LeaseHeld' /\ worker' \in [Workers -> WorkerRows]
  BY <1>1, LeaseStep
<1>5. snap' \in [Snapshots -> SnapshotRows] /\ SnapshotsHeld'
  BY <1>1, SnapshotsStep DEF SnapshotsFine
<1>6. RowsTyped'
  BY <1>1, <1>3, <1>4, <1>5, LeasesGrow DEF RowsTyped
<1> QED
  BY <1>2, <1>3, <1>4, <1>5, <1>6 DEF RestoreInvariant

\* Jobs, leases, snapshots and the store stay consistent through takeovers, crashes,
\* stalls, retries and cancellations.
THEOREM RestoreCorrect == RestoreSpec => []RestoreInvariant
<1> QED
  BY RestoreInitInvariant, RestoreNextInvariant, PTL DEF RestoreSpec

\* The restore machinery does nothing to heads, revisions and change log that the
\* store does not allow, so what holds of the store holds under restores.
THEOREM RestoreImplementsStore == RestoreSpec => StoreSpec
<1>1. RestoreInit => StoreInit
  BY DEF RestoreInit
<1>2. RestoreInvariant /\ [RestoreNext]_vars => [StoreNext]_storeVars
  BY StepStore DEF RestoreInvariant
<1> QED
  BY <1>1, <1>2, RestoreCorrect, PTL DEF RestoreSpec, StoreSpec

\* Devices see one growing history per generation, whatever restores do.
THEOREM RestoreImplementsHistory == RestoreSpec => ImplementsHistory
<1> QED
  BY RestoreImplementsStore, StoreImplementsHistory

\* The rows of jobs, snapshots and workers keep their types, tokens are unique, and the
\* worker that applies a restore holds the project row.
THEOREM RestoreTypes == RestoreSpec => []RestoreTypeOK
<1>1. RestoreInvariant => RestoreTypeOK
  <2> SUFFICES ASSUME RestoreInvariant PROVE RestoreTypeOK
    OBVIOUS
  <2>1. StoreTypeOK
    BY DEF RestoreInvariant, StoreInvariant
  <2>2. ASSUME NEW j \in Jobs
        PROVE  /\ job[j].status \in JobStates
               /\ job[j].attempts \in 0 .. RetryLimit
               /\ job[j].token \in 0 .. leases
    <3>1. job[j].status \in JobStates /\ job[j].attempts \in Nat
      BY DEF RestoreInvariant, RowsTyped, JobRows
    <3>2. job[j].attempts <= RetryLimit /\ RetryLimit \in Nat
      BY DEF RestoreInvariant, JobsHeld, JobOK, RetryLimit
    <3> QED
      BY <3>1, <3>2 DEF RestoreInvariant, LeaseHeld
  <2>3. \A s \in Snapshots : snap[s].status \in SnapshotStates
    BY DEF RestoreInvariant, RowsTyped, SnapshotRows
  <2>4. \A w \in Workers : worker[w].pc \in WorkerPlaces
    BY DEF RestoreInvariant, RowsTyped, WorkerRows
  <2> QED
    BY <2>1, <2>2, <2>3, <2>4 DEF RestoreInvariant, LeaseHeld, RestoreTypeOK
<1> QED
  BY <1>1, RestoreCorrect, PTL

\* No zombie worker, takeover or retry applies a restore a second time.
THEOREM AppliedOnce == RestoreSpec => []EachRestoreAppliedOnce
<1>1. RestoreInvariant => EachRestoreAppliedOnce
  BY DEF RestoreInvariant, JobsHeld, JobOK, Succeeded, EachRestoreAppliedOnce
<1> QED
  BY <1>1, RestoreCorrect, PTL

\* A job whose cancellation was accepted never succeeds.
THEOREM CancellationHolds == RestoreSpec => []CancelledNeverSucceeds
<1>1. RestoreInvariant => CancelledNeverSucceeds
  BY DEF RestoreInvariant, JobsHeld, JobOK, CancelledNeverSucceeds
<1> QED
  BY <1>1, RestoreCorrect, PTL

\* A snapshot offered for restore has its manifest in the object store.
THEOREM SnapshotStaysStored == RestoreSpec => []ReadySnapshotIsStored
<1>1. RestoreInvariant => ReadySnapshotIsStored
  BY DEF RestoreInvariant, SnapshotsHeld
<1> QED
  BY <1>1, RestoreCorrect, PTL

\* A project stays in maintenance without a way out only through a job that was cancelled
\* while it waited for a retry.
THEOREM StuckOnlyThatWay == RestoreSpec => []StuckOnlyByCancelledRetry
<1>1. RestoreInvariant => StuckOnlyByCancelledRetry
  BY DEF RestoreInvariant, JobsHeld
<1> QED
  BY <1>1, RestoreCorrect, PTL
=============================================================================

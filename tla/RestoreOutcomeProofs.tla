------------------------ MODULE RestoreOutcomeProofs ------------------------
(***************************************************************************)
(* What a restore leaves behind, for any number of jobs, workers, objects, *)
(* snapshots and faults: the state it replaced, in a ready snapshot, and   *)
(* the state of its target, in the heads.                                  *)
(***************************************************************************)
EXTENDS RestoreProofs

(***************************************************************************)
(* A worker carries its snapshot from the transaction that takes it to the *)
(* transaction that restores.                                              *)
(***************************************************************************)
Carrying == Awaited \cup {"renewingAgain", "executing", "applying"}

(***************************************************************************)
(* The snapshot a worker carries shows what its restore would replace, as  *)
(* long as the worker has the lease and the project is closed: nobody may  *)
(* commit to a closed project but the worker with the lease of its job.    *)
(* A project that was reopened meanwhile has moved on, and is not closed   *)
(* again before that job ends.                                             *)
(***************************************************************************)
Replaces(s) ==
    /\ snap[s].items = HeadItems(store)
    /\ snap[s].seq = store.seq
    /\ snap[s].gen = generation

Carries(w) ==
    /\ worker[w].snap \in Snapshots
    /\ snap[worker[w].snap].status # "none"
    /\ Holds(w) => /\ job[JobOf(w)].pre = worker[w].snap
                   /\ status = "maintenance" => Replaces(worker[w].snap)

UndoHeld == \A w \in Workers : worker[w].pc \in Carrying => Carries(w)

(***************************************************************************)
(* No clean-up expires the snapshot of a worker that is under way, so the  *)
(* one it marked is ready when it restores.                                *)
(***************************************************************************)
Keeps(w) ==
    /\ worker[w].pc \in Awaited => snap[worker[w].snap].status \in {"pending", "ready"}
    /\ worker[w].pc \in Carrying \ Awaited /\ Holds(w) =>
           snap[worker[w].snap].status = "ready"

UndoReady == \A w \in Workers : Keeps(w)

-----------------------------------------------------------------------------
(***************************************************************************)
(* What a step may do to a running job, to the project, to a snapshot and  *)
(* to a worker that carries one.                                           *)
(***************************************************************************)
SameClaim(j) ==
    /\ job[j].status = "running"
    /\ job'[j].token = job[j].token
    /\ job'[j].target = job[j].target
    /\ \/ job'[j].pre = job[j].pre
       \/ \E w \in Workers, s \in Snapshots : CreatePreRestoreSnapshot(w, s) /\ JobOf(w) = j

LEMMA RowEdited ==
    ASSUME RowsTyped, NEW i, NEW row, job' = [job EXCEPT ![i] = row], NEW j \in Jobs
    PROVE  job'[j] = IF i = j THEN row ELSE job[j]
BY DEF RowsTyped

LEMMA RunningJobs ==
    ASSUME RowsTyped, [RestoreNext]_vars, NEW j \in Jobs, job'[j].status = "running"
    PROVE  SameClaim(j) \/ \E w \in Workers : ClaimJob(w, j)
<1>1. job[j] \in JobRows
  BY DEF RowsTyped
<1>2. ASSUME job'[j] = job[j] PROVE SameClaim(j)
  BY <1>2 DEF SameClaim
<1>3. ASSUME NEW w \in Workers, NEW i \in Jobs, ClaimJob(w, i) \/ ClaimRefused(w, i)
      PROVE  SameClaim(j) \/ \E v \in Workers : ClaimJob(v, j)
  <2>1. CASE i = j
    <3>1. ClaimRefused(w, i) => job'[j].status = "failed"
      BY <1>1, <2>1 DEF ClaimRefused, RowsTyped, JobRows
    <3> QED
      BY <1>3, <2>1, <3>1
  <2>2. CASE i # j
    BY <1>2, <1>3, <2>2, RowEdited DEF ClaimJob, ClaimRefused, RowsTyped
  <2> QED
    BY <2>1, <2>2
<1>4. ASSUME NEW w \in Workers, NEW s \in Snapshots, CreatePreRestoreSnapshot(w, s)
      PROVE  SameClaim(j)
  <2>1. CASE JobOf(w) = j
    <3>1. /\ job'[j].status = job[j].status /\ job'[j].token = job[j].token
          /\ job'[j].target = job[j].target
      BY <1>1, <1>4, <2>1 DEF CreatePreRestoreSnapshot, RowsTyped, JobRows
    <3> QED
      BY <1>4, <2>1, <3>1 DEF SameClaim
  <2>2. CASE JobOf(w) # j
    <3>1. job'[j] = job[j]
      BY <1>4, <2>2 DEF CreatePreRestoreSnapshot, RowsTyped
    <3> QED
      BY <1>2, <3>1
  <2> QED
    BY <2>1, <2>2
<1>5. ASSUME NEW w \in Workers, RenewLease(w)
      PROVE  SameClaim(j)
  <2>1. /\ job'[j].status = job[j].status /\ job'[j].token = job[j].token
        /\ job'[j].target = job[j].target /\ job'[j].pre = job[j].pre
    BY <1>1, <1>5 DEF RenewLease, RowsTyped, JobRows
  <2> QED
    BY <2>1 DEF SameClaim
<1>6. ASSUME NEW w \in Workers, CommitExecution(w) \/ CancelWithLease(w) \/ RetryWithLease(w)
      PROVE  SameClaim(j)
  <2>1. CASE JobOf(w) = j /\ job' # job
    <3>1. LeaseFree(job[j]) \in JobRows
      BY <1>1 DEF LeaseFree, JobRows
    <3>2. CASE CommitExecution(w) \/ CancelWithLease(w)
      BY <2>1, <3>1, <3>2 DEF CommitExecution, CancelWithLease, RowsTyped, JobRows
    <3>3. CASE RetryWithLease(w)
      <4> DEFINE next == IF job[j].attempts + 1 < RetryLimit THEN "queued" ELSE "failed"
      <4>1. job'[j].status = next
        BY <2>1, <3>1, <3>3 DEF RetryWithLease, RowsTyped, JobRows
      <4> QED
        BY <4>1
    <3> QED
      BY <1>6, <3>2, <3>3
  <2>2. CASE JobOf(w) # j \/ job' = job
    <3>1. job'[j] = job[j]
      BY <1>6, <2>2 DEF CommitExecution, CancelWithLease, RetryWithLease, RowsTyped
    <3> QED
      BY <1>2, <3>1
  <2> QED
    BY <2>1, <2>2
<1>7. ASSUME NEW i \in Jobs,
             LeaseExpires(i) \/ RunAfterPasses(i) \/ CancelQueued(i) \/ RequestCancel(i)
      PROVE  SameClaim(j)
  <2>1. CASE i = j
    <3>1. /\ job'[j].token = job[j].token /\ job'[j].target = job[j].target
          /\ job'[j].pre = job[j].pre
          /\ job'[j].status = job[j].status \/ job'[j].status = "cancelled"
      BY <1>1, <1>7, <2>1
         DEF LeaseExpires, RunAfterPasses, CancelQueued, RequestCancel, RowsTyped, JobRows
    <3> QED
      BY <3>1 DEF SameClaim
  <2>2. CASE i # j
    <3>1. job'[j] = job[j]
      BY <1>7, <2>2
         DEF LeaseExpires, RunAfterPasses, CancelQueued, RequestCancel, RowsTyped
    <3> QED
      BY <1>2, <3>1
  <2> QED
    BY <2>1, <2>2
<1>8. ASSUME NEW i \in Jobs, NEW t \in RestoreTargets, EnqueueRestore(i, t)
      PROVE  SameClaim(j)
  <2>1. CASE i = j
    <3>1. job'[j].status = "queued"
      BY <1>8, <2>1 DEF EnqueueRestore, RowsTyped, NoJob
    <3> QED
      BY <3>1
  <2>2. CASE i # j
    <3>1. job'[j] = job[j]
      BY <1>8, <2>2 DEF EnqueueRestore, RowsTyped
    <3> QED
      BY <1>2, <3>1
  <2> QED
    BY <2>1, <2>2
<1>9. CASE \/ UNCHANGED vars
           \/ \E w \in Workers : \/ SeesCancellation(w) \/ LeaseIsLost(w) \/ StoreManifest(w)
                                 \/ MarkSnapshotReady(w) \/ ExecuteRestore(w) \/ RestoreItem(w)
                                 \/ StepFails(w) \/ Crash(w)
           \/ \E s \in Snapshots : \/ TakeUserSnapshot(s) \/ StoreUserManifest(s)
                                   \/ RecordUserSnapshot(s) \/ ExpirePending(s)
                                   \/ DeleteManifest(s)
           \/ ReopenFailed \/ Disable \/ EnqueuePurge \/ ClientPush
  <2>1. UNCHANGED job
    BY <1>9 DEF SeesCancellation, LeaseIsLost, StoreManifest, MarkSnapshotReady, ExecuteRestore,
       RestoreItem, StepFails, Crash, TakeUserSnapshot, StoreUserManifest, RecordUserSnapshot,
       ExpirePending, DeleteManifest, ReopenFailed, Disable, EnqueuePurge, ClientPush, vars,
       jobVars
  <2> QED
    BY <1>2, <2>1
<1> QED
  BY <1>3, <1>4, <1>5, <1>6, <1>7, <1>8, <1>9
     DEF RestoreNext, WorkerStep, UserStep, TimeStep

\* A lease is never given back to a worker: whoever has it after a step had it before.
LEMMA HeldBefore ==
    ASSUME RowsTyped, LeaseHeld, [RestoreNext]_vars, NEW w \in Workers,
           worker[w].pc # "idle", worker'[w].job = worker[w].job,
           worker'[w].token = worker[w].token, Holds(w)'
    PROVE  /\ Holds(w) /\ JobOf(w)' = JobOf(w) /\ JobOf(w) \in Jobs
           /\ job'[JobOf(w)].target = job[JobOf(w)].target
           /\ \/ job'[JobOf(w)].pre = job[JobOf(w)].pre
              \/ worker[w].pc = "claimed"
<1> DEFINE j == JobOf(w)
<1>1. /\ j \in Jobs /\ worker[w].token \in 1 .. leases /\ leases \in Nat
      /\ JobOf(w)' = j
  BY DEF LeaseHeld, RowsTyped, JobOf
<1>2. job'[j].status = "running" /\ job'[j].token = worker[w].token
  BY <1>1 DEF Holds
<1>3. ASSUME NEW v \in Workers, ClaimJob(v, j) PROVE FALSE
  <2>1. job'[j].token = leases + 1
    BY <1>1, <1>3 DEF ClaimJob, RowsTyped, JobRows
  <2> QED
    BY <1>1, <1>2, <2>1
<1>4. SameClaim(j)
  BY <1>1, <1>2, <1>3, RunningJobs
<1>5. Holds(w)
  BY <1>2, <1>4 DEF SameClaim, Holds
<1>6. ASSUME NEW v \in Workers, NEW s \in Snapshots, CreatePreRestoreSnapshot(v, s),
             JobOf(v) = j
      PROVE  worker[w].pc = "claimed"
  <2>1. worker[v].pc = "claimed" /\ worker[v].token = worker[w].token
    BY <1>5, <1>6 DEF CreatePreRestoreSnapshot, At, Holds
  <2>2. v = w
    BY <1>1, <2>1 DEF LeaseHeld
  <2> QED
    BY <2>1, <2>2
<1> QED
  BY <1>1, <1>4, <1>5, <1>6 DEF SameClaim

\* A project that is closed after a step was so before, or a queued job was claimed; and
\* what a restore would replace did not change.
LEMMA ClosedBefore ==
    ASSUME [RestoreNext]_vars, status' = "maintenance"
    PROVE  /\ UNCHANGED <<store, generation>>
           /\ \/ status = "maintenance"
              \/ \E w \in Workers, j \in Jobs : ClaimJob(w, j) /\ job[j].status = "queued"
<1>1. ASSUME NEW w \in Workers, NEW j \in Jobs, ClaimJob(w, j)
      PROVE  /\ UNCHANGED <<store, generation>>
             /\ status = "maintenance" \/ job[j].status = "queued"
  BY <1>1 DEF ClaimJob, EnterMaintenance, MoveTo
<1>2. ASSUME NEW w \in Workers, CommitExecution(w)
      PROVE  FALSE
  BY <1>2 DEF CommitExecution, CommitRestore, Commit
<1>3. ASSUME NEW w \in Workers,
             \/ \E j \in Jobs : ClaimRefused(w, j)
             \/ \E s \in Snapshots : CreatePreRestoreSnapshot(w, s)
             \/ SeesCancellation(w) \/ RenewLease(w) \/ LeaseIsLost(w) \/ StoreManifest(w)
             \/ MarkSnapshotReady(w) \/ ExecuteRestore(w) \/ RestoreItem(w)
             \/ CancelWithLease(w) \/ StepFails(w) \/ RetryWithLease(w) \/ Crash(w)
      PROVE  UNCHANGED <<store, generation, status>>
  BY <1>3 DEF ClaimRefused, CreatePreRestoreSnapshot, SeesCancellation, RenewLease, LeaseIsLost,
     StoreManifest, MarkSnapshotReady, ExecuteRestore, RestoreItem, CancelWithLease, StepFails,
     RetryWithLease, Crash, LockProject, Revise, Rollback, LeaveMaintenance, MoveTo, storeVars
<1>4. CASE UserStep
  BY <1>4 DEF UserStep, TakeUserSnapshot, StoreUserManifest, RecordUserSnapshot, EnqueueRestore,
     CancelQueued, RequestCancel, ReopenFailed, Disable, EnqueuePurge, ClientPush,
     LeaveMaintenance, DisableProject, StartPurge, MoveTo, LockProject, Revise, CommitWrites,
     Commit, storeVars
<1>5. CASE TimeStep \/ UNCHANGED vars
  BY <1>5, TimeStepStore DEF vars, storeVars
<1> QED
  BY <1>1, <1>2, <1>3, <1>4, <1>5 DEF RestoreNext, WorkerStep

(***************************************************************************)
(* A snapshot keeps what it shows; a ready one stays ready; a pending one  *)
(* that a worker carries expires only if workers may stall for a day.      *)
(***************************************************************************)
SameContents(s) ==
    /\ snap'[s].items = snap[s].items
    /\ snap'[s].seq = snap[s].seq
    /\ snap'[s].gen = snap[s].gen

StaysUsable(s) ==
    /\ snap[s].status = "ready" => snap'[s].status = "ready"
    /\ snap[s].status = "pending" /\ BusyWith(s) /\ ~StallsPastExpiry =>
           snap'[s].status \in {"pending", "ready"}

LEMMA SnapshotKeeps ==
    ASSUME StoreInvariant, RowsTyped, SnapshotsHeld, [RestoreNext]_vars, NEW s \in Snapshots,
           snap[s].status # "none"
    PROVE  SameContents(s) /\ StaysUsable(s) /\ snap'[s].status # "none"
<1> DEFINE Kept == SameContents(s) /\ StaysUsable(s)
<1>1. snap[s] \in SnapshotRows
  BY DEF RowsTyped
<1>2. ASSUME snap'[s] = snap[s] PROVE Kept
  BY <1>2 DEF SameContents, StaysUsable
<1>3. ASSUME NEW t, NEW b \in BOOLEAN, snap' = [snap EXCEPT ![t].stored = b],
             b \/ snap[t].status = "failed"
      PROVE  Kept
  BY <1>1, <1>3 DEF SameContents, StaysUsable, RowsTyped, SnapshotRows
<1>4. ASSUME NEW t, NEW next \in {"ready", "failed"},
             snap' = [snap EXCEPT ![t].status = next], snap[t].status = "pending",
             next = "failed" /\ BusyWith(t) => StallsPastExpiry
      PROVE  Kept
  BY <1>1, <1>4 DEF SameContents, StaysUsable, RowsTyped, SnapshotRows
<1>5. ASSUME NEW t \in Snapshots, NEW owner, NextSnapshot(t),
             snap' = [snap EXCEPT ![t] = Pending(owner)]
      PROVE  Kept
  <2>1. t # s
    BY <1>5 DEF NextSnapshot, NoSnapshot
  <2> QED
    BY <1>2, <1>5, <2>1 DEF RowsTyped
<1>6. ASSUME NEW w \in Workers, WorkerStep(w) \/ Crash(w)
      PROVE  Kept
  <2>1. CASE \E t \in Snapshots : CreatePreRestoreSnapshot(w, t)
    BY <1>5, <2>1 DEF CreatePreRestoreSnapshot
  <2>2. CASE StoreManifest(w)
    BY <1>3, <2>2 DEF StoreManifest
  <2>3. CASE MarkSnapshotReady(w)
    BY <1>2, <1>4, <2>3 DEF MarkSnapshotReady
  <2>4. CASE StepFails(w)
    BY <1>2, <1>3, <2>4 DEF StepFails
  <2>5. CASE \/ \E j \in Jobs : ClaimJob(w, j) \/ ClaimRefused(w, j)
             \/ SeesCancellation(w) \/ RenewLease(w) \/ LeaseIsLost(w) \/ ExecuteRestore(w)
             \/ RestoreItem(w) \/ CommitExecution(w) \/ CancelWithLease(w)
             \/ RetryWithLease(w) \/ Crash(w)
    BY <1>2, <2>5 DEF ClaimJob, ClaimRefused, SeesCancellation, RenewLease, LeaseIsLost,
       ExecuteRestore, RestoreItem, CommitExecution, CancelWithLease, RetryWithLease, Crash
  <2> QED
    BY <1>6, <2>1, <2>2, <2>3, <2>4, <2>5 DEF WorkerStep
<1>7. ASSUME UserStep PROVE Kept
  <2>1. CASE \E t \in Snapshots : TakeUserSnapshot(t)
    BY <1>5, <2>1 DEF TakeUserSnapshot
  <2>2. CASE \E t \in Snapshots : StoreUserManifest(t)
    BY <1>3, <2>2 DEF StoreUserManifest
  <2>3. CASE \E t \in Snapshots : RecordUserSnapshot(t)
    BY <1>4, <2>3 DEF RecordUserSnapshot
  <2>4. CASE \/ \E j \in Jobs, t \in RestoreTargets : EnqueueRestore(j, t)
             \/ \E j \in Jobs : CancelQueued(j) \/ RequestCancel(j)
             \/ ReopenFailed \/ Disable \/ EnqueuePurge \/ ClientPush
    BY <1>2, <2>4 DEF EnqueueRestore, CancelQueued, RequestCancel, ReopenFailed, Disable,
       EnqueuePurge, ClientPush, jobVars
  <2> QED
    BY <1>7, <2>1, <2>2, <2>3, <2>4 DEF UserStep
<1>8. ASSUME TimeStep PROVE Kept
  <2>1. CASE \E t \in Snapshots : ExpirePending(t)
    BY <1>4, <2>1 DEF ExpirePending
  <2>2. CASE \E t \in Snapshots : DeleteManifest(t)
    BY <1>3, <2>2 DEF DeleteManifest
  <2>3. CASE \E j \in Jobs : LeaseExpires(j) \/ RunAfterPasses(j)
    BY <1>2, <2>3 DEF LeaseExpires, RunAfterPasses
  <2> QED
    BY <1>8, <2>1, <2>2, <2>3 DEF TimeStep
<1>9. ASSUME UNCHANGED vars PROVE Kept
  BY <1>2, <1>9 DEF vars, jobVars
<1>10. Kept
  BY <1>6, <1>7, <1>8, <1>9 DEF RestoreNext
<1> QED
  BY <1>10, SnapshotsStep DEF SnapshotsFine, SnapshotsMoveOn

(***************************************************************************)
(* A worker that carries a snapshot has just taken it, or has it with the  *)
(* job and the token of the step before; it is past the third phase only   *)
(* through mark_snapshot_ready_for_job.                                    *)
(***************************************************************************)
CarriesOn(w) ==
    /\ worker[w].pc \in Carrying
    /\ worker'[w].job = worker[w].job
    /\ worker'[w].token = worker[w].token
    /\ worker'[w].snap = worker[w].snap
    /\ worker'[w].pc \in Awaited => worker[w].pc \in Awaited
    /\ worker'[w].pc \notin Awaited /\ worker[w].pc \in Awaited => MarkSnapshotReady(w)

LEMMA WorkersCarry ==
    ASSUME RowsTyped, [RestoreNext]_vars, NEW w \in Workers, worker'[w].pc \in Carrying
    PROVE  CarriesOn(w) \/ \E s \in Snapshots : CreatePreRestoreSnapshot(w, s)
<1> USE DEF Carrying, Awaited
<1>1. worker[w] \in WorkerRows
  BY DEF RowsTyped
<1>2. ASSUME worker'[w] = worker[w] PROVE CarriesOn(w)
  BY <1>2 DEF CarriesOn
<1>3. ASSUME NEW v \in Workers, WorkerStep(v) \/ Crash(v), v # w PROVE CarriesOn(w)
  <2>1. worker'[w] = worker[w]
    BY <1>3 DEF WorkerStep, ClaimJob, ClaimRefused, CreatePreRestoreSnapshot, SeesCancellation,
       RenewLease, LeaseIsLost, StoreManifest, MarkSnapshotReady, ExecuteRestore, RestoreItem,
       CommitExecution, CancelWithLease, StepFails, RetryWithLease, Crash, Goes, Returns,
       RowsTyped
  <2> QED
    BY <1>2, <2>1
<1>4. ASSUME NEW pc, Goes(w, pc), pc \notin Carrying \/ worker[w].pc \in Carrying,
             pc \in Awaited => worker[w].pc \in Awaited,
             pc \notin Awaited /\ worker[w].pc \in Awaited =>
                 pc \notin Carrying \/ MarkSnapshotReady(w)
      PROVE  CarriesOn(w)
  BY <1>1, <1>4 DEF Goes, CarriesOn, RowsTyped, WorkerRows
<1>5. CASE WorkerStep(w) \/ Crash(w)
  <2>1. ASSUME NEW j \in Jobs, ClaimJob(w, j) PROVE FALSE
    <3>1. worker'[w] = [AtRest EXCEPT !.pc = "claimed", !.job = j, !.token = leases + 1]
      BY <2>1 DEF ClaimJob, RowsTyped
    <3>2. worker'[w].pc = "claimed"
      BY <3>1 DEF AtRest
    <3> QED
      BY <3>2
  <2>7. CASE Returns(w)
    <3>1. worker'[w].pc = "idle"
      BY <2>7 DEF Returns, AtRest, RowsTyped
    <3> QED
      BY <3>1
  <2>2. CASE \E j \in Jobs : ClaimRefused(w, j)
    BY <1>2, <2>2 DEF ClaimRefused
  <2>3. CASE SeesCancellation(w) \/ RenewLease(w) \/ StoreManifest(w) \/ StepFails(w)
    BY <1>4, <2>3 DEF SeesCancellation, RenewLease, StoreManifest, StepFails, At
  <2>4. CASE MarkSnapshotReady(w)
    BY <1>4, <2>4 DEF MarkSnapshotReady, At
  <2>5. CASE ExecuteRestore(w)
    BY <1>1, <2>5 DEF ExecuteRestore, At, CarriesOn, RowsTyped, WorkerRows
  <2>6. CASE RestoreItem(w)
    <3>1. PICK item \in worker[w].todo : worker' = [worker EXCEPT ![w].todo = @ \ {item}]
      BY <2>6 DEF RestoreItem
    <3> QED
      BY <1>1, <2>6, <3>1 DEF RestoreItem, At, CarriesOn, RowsTyped, WorkerRows
  <2> QED
    BY <1>5, <2>1, <2>2, <2>3, <2>4, <2>5, <2>6, <2>7
       DEF WorkerStep, Crash, LeaseIsLost, CommitExecution, CancelWithLease, RetryWithLease
<1>6. CASE UserStep \/ TimeStep \/ UNCHANGED vars
  <2>1. UNCHANGED worker
    BY <1>6 DEF UserStep, TimeStep, TakeUserSnapshot, StoreUserManifest, RecordUserSnapshot,
       EnqueueRestore, CancelQueued, RequestCancel, ReopenFailed, Disable, EnqueuePurge,
       ClientPush, LeaseExpires, RunAfterPasses, ExpirePending, DeleteManifest, vars, jobVars
  <2> QED
    BY <1>2, <2>1
<1> QED
  BY <1>3, <1>5, <1>6 DEF RestoreNext

-----------------------------------------------------------------------------
(***************************************************************************)
(* The snapshot shows what the restore replaces.                           *)
(***************************************************************************)
\* No store changes and no other restore succeeds between the snapshot and the restore.
LEMMA UndoStep ==
    ASSUME RestoreInvariant, UndoHeld, [RestoreNext]_vars PROVE UndoHeld'
<1> SUFFICES ASSUME NEW w \in Workers, worker'[w].pc \in Carrying PROVE Carries(w)'
  BY DEF UndoHeld
<1>1. /\ StoreInvariant /\ RowsTyped /\ LeaseHeld /\ JobsHeld /\ SnapshotsHeld
      /\ worker[w] \in WorkerRows /\ job \in [Jobs -> JobRows]
      /\ snap \in [Snapshots -> SnapshotRows]
  BY DEF RestoreInvariant, RowsTyped
<1>2. ASSUME NEW s \in Snapshots, CreatePreRestoreSnapshot(w, s) PROVE Carries(w)'
  <2>1. /\ worker[w].pc = "claimed" /\ JobOf(w) \in Jobs /\ Holds(w)
        /\ snap' = [snap EXCEPT ![s] = Pending(w)]
        /\ job' = [job EXCEPT ![JobOf(w)].pre = s]
        /\ worker' = [worker EXCEPT ![w].pc = "renewing", ![w].snap = s]
        /\ UNCHANGED <<status, generation, store>>
    BY <1>1, <1>2 DEF CreatePreRestoreSnapshot, At, LeaseHeld, JobOf, storeVars
  <2>2. worker'[w].snap = s /\ JobOf(w)' = JobOf(w)
    BY <1>1, <2>1 DEF JobOf, RowsTyped, WorkerRows
  <2>3. job'[JobOf(w)].pre = s
    BY <1>1, <2>1 DEF JobRows
  <2>4. snap'[s] = Pending(w)
    BY <1>1, <2>1
  <2>5. /\ snap'[s].status # "none" /\ snap'[s].items = HeadItems(store)
        /\ snap'[s].seq = store.seq /\ snap'[s].gen = generation
    BY <2>4 DEF Pending
  <2>6. HeadItems(store') = HeadItems(store)
    BY <2>1
  <2> QED
    BY <2>1, <2>2, <2>3, <2>5, <2>6 DEF Carries, Replaces, HeadItems
<1>3. ASSUME CarriesOn(w) PROVE Carries(w)'
  <2> DEFINE s == worker[w].snap
  <2>1. /\ worker[w].pc \in Carrying /\ worker'[w].job = worker[w].job
        /\ worker'[w].token = worker[w].token /\ worker'[w].snap = s
        /\ worker[w].pc \notin {"idle", "claimed"}
    BY <1>3 DEF CarriesOn, Carrying, Awaited
  <2>2. /\ s \in Snapshots /\ snap[s].status # "none"
        /\ Holds(w) => /\ job[JobOf(w)].pre = s
                       /\ status = "maintenance" => Replaces(s)
    BY <2>1 DEF UndoHeld, Carries
  <2>3. SameContents(s) /\ snap'[s].status # "none"
    BY <1>1, <2>2, SnapshotKeeps
  <2>4. ASSUME Holds(w)'
        PROVE  /\ job'[JobOf(w)'].pre = s
               /\ status' = "maintenance" => Replaces(s)'
    <3>1. /\ Holds(w) /\ JobOf(w)' = JobOf(w) /\ JobOf(w) \in Jobs
          /\ job'[JobOf(w)].pre = job[JobOf(w)].pre
      BY <1>1, <2>1, <2>4, HeldBefore
    <3>2. ASSUME status' = "maintenance" PROVE Replaces(s)'
      <4>1. UNCHANGED <<store, generation>>
        BY <3>2, ClosedBefore
      <4>2. ASSUME NEW v \in Workers, NEW i \in Jobs, ClaimJob(v, i),
                   job[i].status = "queued"
            PROVE  FALSE
        <5>1. i = JobOf(w)
          BY <1>1, <3>1, <4>2 DEF JobsHeld, Active, Holds
        <5> QED
          BY <3>1, <4>2, <5>1 DEF Holds
      <4>3. status = "maintenance"
        BY <3>2, <4>2, ClosedBefore
      <4>4. HeadItems(store') = HeadItems(store)
        BY <4>1
      <4> QED
        BY <2>1, <2>2, <2>3, <3>1, <4>1, <4>3, <4>4 DEF Replaces, SameContents, HeadItems
    <3> QED
      BY <2>2, <3>1, <3>2
  <2> QED
    BY <2>1, <2>2, <2>3, <2>4 DEF Carries
<1> QED
  BY <1>1, <1>2, <1>3, WorkersCarry

\* The snapshot of a worker that does not stall for a day gets ready and stays so.
LEMMA ReadyStep ==
    ASSUME ~StallsPastExpiry, RestoreInvariant, UndoHeld, UndoReady, [RestoreNext]_vars
    PROVE  UndoReady'
<1> SUFFICES ASSUME NEW w \in Workers, worker'[w].pc \in Carrying PROVE Keeps(w)'
  BY DEF UndoReady, Keeps, Carrying
<1>1. /\ StoreInvariant /\ RowsTyped /\ LeaseHeld /\ JobsHeld /\ SnapshotsHeld
      /\ worker[w] \in WorkerRows /\ snap \in [Snapshots -> SnapshotRows]
  BY DEF RestoreInvariant, RowsTyped
<1>2. ASSUME NEW s \in Snapshots, CreatePreRestoreSnapshot(w, s) PROVE Keeps(w)'
  <2>1. worker'[w].pc = "renewing" /\ worker'[w].snap = s
    BY <1>1, <1>2 DEF CreatePreRestoreSnapshot, RowsTyped, WorkerRows
  <2>2. snap'[s].status = "pending"
    BY <1>1, <1>2 DEF CreatePreRestoreSnapshot, Pending
  <2> QED
    BY <2>1, <2>2 DEF Keeps, Awaited
<1>3. ASSUME CarriesOn(w) PROVE Keeps(w)'
  <2> DEFINE s == worker[w].snap
  <2>1. /\ worker[w].pc \in Carrying /\ worker'[w].job = worker[w].job
        /\ worker'[w].token = worker[w].token /\ worker'[w].snap = s
        /\ worker[w].pc # "idle"
    BY <1>3 DEF CarriesOn, Carrying, Awaited
  <2>2. s \in Snapshots /\ snap[s].status # "none" /\ BusyWith(s) /\ Keeps(w)
    BY <2>1 DEF UndoHeld, Carries, UndoReady, BusyWith
  <2>3. StaysUsable(s)
    BY <1>1, <2>2, SnapshotKeeps
  <2>4. ASSUME worker'[w].pc \in Awaited PROVE snap'[s].status \in {"pending", "ready"}
    BY <1>3, <2>2, <2>3, <2>4 DEF CarriesOn, Keeps, StaysUsable
  <2>5. ASSUME worker'[w].pc \in Carrying \ Awaited, Holds(w)'
        PROVE  snap'[s].status = "ready"
    <3>1. Holds(w)
      BY <1>1, <2>1, <2>5, HeldBefore
    <3>2. CASE worker[w].pc \in Awaited
      <4>1. MarkSnapshotReady(w) /\ snap[s].status \in {"pending", "ready"}
        BY <1>3, <2>2, <2>5, <3>2 DEF CarriesOn, Keeps
      <4> QED
        BY <1>1, <2>2, <3>1, <4>1 DEF MarkSnapshotReady, SnapshotRows
    <3>3. CASE worker[w].pc \notin Awaited
      BY <2>1, <2>2, <2>3, <3>1, <3>3 DEF Keeps, StaysUsable
    <3> QED
      BY <3>2, <3>3
  <2> QED
    BY <2>1, <2>4, <2>5 DEF Keeps
<1> QED
  BY <1>1, <1>2, <1>3, WorkersCarry

LEMMA UndoInit == RestoreInit => UndoHeld /\ UndoReady
BY DEF RestoreInit, UndoHeld, UndoReady, Keeps, AtRest, Carrying, Awaited

\* The worker whose commit makes a job succeed holds the lease of that job.
LEMMA SuccessIsACommit ==
    ASSUME RestoreInvariant, [RestoreNext]_vars, NEW j \in Jobs, Succeeds(j)
    PROVE  \E w \in Workers : CommitExecution(w) /\ JobOf(w) = j
<1>1. RowsTyped /\ LeaseHeld /\ JobsHeld /\ StoreInvariant
  BY DEF RestoreInvariant
<1>2. ASSUME NEW i \in Jobs, NEW row \in JobRows, Edit(i, row) PROVE FALSE
  <2>1. job'[j] = IF i = j THEN row ELSE job[j]
    BY <1>1, <1>2, RowEdited DEF Edit
  <2> QED
    BY <1>2, <2>1 DEF Edit, Succeeds
<1>3. PICK w \in Workers : CommitExecution(w)
  BY <1>1, <1>2, StepEdits DEF JobEdits, Succeeds
<1>4. JobOf(w) = j
  BY <1>1, <1>3, CommitKeepsJobs DEF Succeeds
<1> QED
  BY <1>3, <1>4

(***************************************************************************)
(* A restore can be undone, unless a worker stalls for a day: then the     *)
(* clean-up may have taken the snapshot away (the run stalled_worker).     *)
(***************************************************************************)
LEMMA UndoableStep ==
    ASSUME RestoreInvariant, UndoHeld, UndoReady, [RestoreNext]_vars,
           NEW j \in Jobs, Succeeds(j)
    PROVE  /\ job[j].pre # 0
           /\ snap[job[j].pre].status = "ready"
           /\ snap[job[j].pre].items = HeadItems(store)
           /\ snap[job[j].pre].seq = store.seq
           /\ snap[job[j].pre].gen = generation
<1>1. PICK w \in Workers : CommitExecution(w) /\ JobOf(w) = j
  BY SuccessIsACommit
<1>2. worker[w].pc = "applying" /\ Holds(w) /\ status = "maintenance"
  BY <1>1 DEF CommitExecution, At, RestoreInvariant, LeaseHeld
<1>3. worker[w].pc \in Carrying \ Awaited
  BY <1>2 DEF Carrying, Awaited
<1>4. Carries(w) /\ Keeps(w)
  BY <1>3 DEF UndoHeld, UndoReady
<1>5. worker[w].snap # 0
  BY <1>4, RestoreAssumption DEF Carries, Snapshots
<1> QED
  BY <1>1, <1>2, <1>3, <1>4, <1>5 DEF Carries, Keeps, Replaces

\* Stalls or not, the pre-restore snapshot a worker carries shows exactly what its restore
\* is about to replace, for as long as the worker has the lease of a closed project.
THEOREM SnapshotShowsTheReplaced == RestoreSpec => []UndoHeld
<1> QED
  BY UndoInit, UndoStep, RestoreCorrect, PTL DEF RestoreSpec

\* Whatever happens between the two transactions of a restore, its job names a ready
\* snapshot of exactly what the restore replaces, if no worker stalls past the expiry.
THEOREM RestoresCanBeUndone ==
    ASSUME ~StallsPastExpiry PROVE RestoreSpec => RestoreIsUndoable
<1>1. RestoreInit => UndoHeld /\ UndoReady
  BY UndoInit
<1>2. RestoreInvariant /\ UndoHeld /\ UndoReady /\ [RestoreNext]_vars
        => UndoHeld' /\ UndoReady'
  BY UndoStep, ReadyStep
<1>3. RestoreInvariant /\ UndoHeld /\ UndoReady /\ [RestoreNext]_vars =>
        [\A j \in Jobs : Succeeds(j) =>
              /\ job[j].pre # 0
              /\ snap[job[j].pre].status = "ready"
              /\ snap[job[j].pre].items = HeadItems(store)
              /\ snap[job[j].pre].seq = store.seq
              /\ snap[job[j].pre].gen = generation]_vars
  BY UndoableStep
<1> QED
  BY <1>1, <1>2, <1>3, RestoreCorrect, PTL DEF RestoreSpec, RestoreIsUndoable

-----------------------------------------------------------------------------
(***************************************************************************)
(* The heads show what the target shows.  One change per object is in a    *)
(* head list, in a snapshot and in a ranking by sequence, so an item of    *)
(* the target decides what its object looks like.                          *)
(***************************************************************************)
OnePerObject(items) == \A c, d \in items : c.obj = d.obj => c = d
Shows(items, o, b) == \E c \in items : c.obj = o /\ c.body = b

(***************************************************************************)
(* An execution under way: the objects that have no item left look like    *)
(* the target already.                                                     *)
(***************************************************************************)
Settled(todo, o) == \A i \in todo : i.obj # o
Reaches(w) ==
    LET t == job[JobOf(w)].target IN
    /\ t.snap # 0 => snap[t.snap].status # "none"
    /\ worker[w].todo \subseteq Wanted(t)
    /\ \A o \in Objects, b \in Contents :
          Settled(worker[w].todo, o) =>
              (Shows(HeadItems(work), o, b) <=> Shows(TargetItems(t), o, b))

ReachHeld ==
    /\ \A s \in Snapshots : OnePerObject(snap[s].items)
    /\ \A w \in Workers : worker[w].pc = "applying" => Reaches(w)

LEMMA HeadsOnePerObject ==
    ASSUME NEW st \in Stores, Sound(st) PROVE OnePerObject(HeadItems(st))
BY DEF OnePerObject, HeadItems, Sound, Gapless

LEMMA RankedOnePerObject ==
    ASSUME NEW st \in Stores, Sound(st), NEW n PROVE OnePerObject(RankedAt(st, n))
<1> SUFFICES ASSUME NEW c \in RankedAt(st, n), NEW d \in RankedAt(st, n), c.obj = d.obj
             PROVE  c = d
  BY DEF OnePerObject
<1>1. c \in st.log /\ d \in st.log /\ c.seq \in Nat /\ d.seq \in Nat
  BY DEF RankedAt, Stores, Changes
<1>2. c.seq <= d.seq /\ d.seq <= c.seq
  BY <1>1 DEF RankedAt
<1> QED
  BY <1>1, <1>2 DEF Sound, Gapless

LEMMA TargetOnePerObject ==
    ASSUME StoreInvariant, \A s \in Snapshots : OnePerObject(snap[s].items), NEW t \in Targets
    PROVE  OnePerObject(TargetItems(t))
<1>1. store \in Stores /\ Sound(store)
  BY DEF StoreInvariant, StoreTypeOK
<1>2. CASE t.snap # 0
  BY <1>2 DEF Targets, TargetItems
<1>3. CASE t.snap = 0
  BY <1>1, <1>3, RankedOnePerObject DEF TargetItems
<1> QED
  BY <1>2, <1>3

(***************************************************************************)
(* The plan.  An object without an item in it is the same in the heads and *)
(* in the target: a head that the target does not have is always planned,  *)
(* because no change has revision 0.                                       *)
(***************************************************************************)
LEMMA PlanIsComplete ==
    ASSUME StoreInvariant, RowsTyped, \A s \in Snapshots : OnePerObject(snap[s].items),
           NEW t \in Targets, NEW o \in Objects, NEW b \in Contents,
           Settled({i \in Wanted(t) : ~SameState(i)}, o)
    PROVE  Shows(HeadItems(store), o, b) <=> Shows(TargetItems(t), o, b)
<1>1. /\ store \in Stores /\ Sound(store)
      /\ OnePerObject(HeadItems(store)) /\ OnePerObject(TargetItems(t))
      /\ \A d \in HeadItems(store) : d.rev # 0
  <2>1. store \in Stores /\ Sound(store)
    BY DEF StoreInvariant, StoreTypeOK
  <2>2. \A d \in HeadItems(store) : d.rev # 0
    BY <2>1, HeadItemsTyped DEF Changes
  <2> QED
    BY <2>1, <2>2, HeadsOnePerObject, TargetOnePerObject
<1>2. \A i \in Wanted(t) : i.obj = o => SameState(i)
  BY DEF Settled
<1>3. CASE \E c \in TargetItems(t) : c.obj = o
  <2>1. PICK c \in TargetItems(t) : c.obj = o
    BY <1>3
  <2> DEFINE i == [obj |-> c.obj, rev |-> c.rev, body |-> c.body]
  <2>2. i \in Wanted(t) /\ i.obj = o /\ i.body = c.body
    BY <2>1 DEF Wanted
  <2> HIDE DEF i
  <2>3. PICK d \in HeadItems(store) : d.obj = o /\ d.body = c.body
    BY <1>2, <2>2 DEF SameState
  <2> QED
    BY <1>1, <2>1, <2>3 DEF Shows, OnePerObject
<1>4. CASE \A c \in TargetItems(t) : c.obj # o
  <2>1. ASSUME NEW d \in HeadItems(store), d.obj = o PROVE FALSE
    <3> DEFINE i == [obj |-> d.obj, rev |-> 0, body |-> Tombstone]
    <3>1. d \in {e \in HeadItems(store) : \A c \in TargetItems(t) : c.obj # e.obj}
      BY <1>4, <2>1
    <3>2. i \in Wanted(t)
      BY <3>1 DEF Wanted
    <3>3. i.obj = o /\ i.rev = 0
      BY <2>1
    <3> HIDE DEF i
    <3>4. SameState(i)
      BY <1>2, <3>2, <3>3
    <3> QED
      BY <1>1, <3>3, <3>4 DEF SameState
  <2> QED
    BY <1>4, <2>1 DEF Shows
<1> QED
  BY <1>3, <1>4

(***************************************************************************)
(* A revision changes the look of its own object only, to its body: all    *)
(* changes before it have lower sequences, so it is the one head.          *)
(***************************************************************************)
LEMMA RevisedShows ==
    ASSUME NEW st \in Stores, Sound(st), NEW x \in Objects, NEW base, NEW body,
           NEW o \in Objects, NEW b
    PROVE  Shows(HeadItems(Revised(st, x, base, body)), o, b)
              <=> IF o = x THEN b = body ELSE Shows(HeadItems(st), o, b)
<1> DEFINE new == [seq |-> st.seq + 1, obj |-> x, rev |-> st.heads[x].rev + 1,
                   base |-> base, body |-> body]
           next == Revised(st, x, base, body)
<1>1. /\ next.log = st.log \cup {new}
      /\ next.heads = [st.heads EXCEPT ![x] = [rev |-> st.heads[x].rev + 1, at |-> st.seq + 1]]
  BY DEF Revised
<1>2. /\ st.seq \in Nat /\ st.heads \in [Objects -> HeadRows]
      /\ \A c \in st.log : c.obj \in Objects /\ c.seq # st.seq + 1
  BY DEF Stores, Changes, Sound, Gapless
<1>3. new.obj = x /\ new.seq = st.seq + 1 /\ new.body = body
  OBVIOUS
<1> HIDE DEF new, next
<1>4. next.heads[x].at = st.seq + 1 /\ \A y \in Objects \ {x} : next.heads[y] = st.heads[y]
  BY <1>1, <1>2
<1>5. CASE o = x
  BY <1>1, <1>2, <1>3, <1>4, <1>5 DEF Shows, HeadItems, next
<1>6. CASE o # x
  BY <1>1, <1>2, <1>3, <1>4, <1>6 DEF Shows, HeadItems, next
<1> QED
  BY <1>5, <1>6

\* The item of an object in the plan is what the target shows of it.
LEMMA WantedDecides ==
    ASSUME NEW t, OnePerObject(TargetItems(t)), NEW i \in Wanted(t), NEW b \in Contents
    PROVE  Shows(TargetItems(t), i.obj, b) <=> b = i.body
<1>1. CASE \E c \in TargetItems(t) : i = [obj |-> c.obj, rev |-> c.rev, body |-> c.body]
  BY <1>1 DEF Shows, OnePerObject
<1>2. CASE \E c \in HeadItems(store) : /\ i = [obj |-> c.obj, rev |-> 0, body |-> Tombstone]
                                       /\ \A e \in TargetItems(t) : e.obj # c.obj
  BY <1>2, StoreAssumption DEF Shows
<1> QED
  BY <1>1, <1>2 DEF Wanted

(***************************************************************************)
(* While a worker holds the row, only its own steps touch the tables; the  *)
(* job it holds keeps its target, and the target keeps its items.          *)
(***************************************************************************)
LEMMA HeldTables ==
    ASSUME LeaseHeld, [RestoreNext]_vars, NEW w \in Workers, holder = w,
           worker'[w].pc = "applying", RowsTyped
    PROVE  /\ UNCHANGED store
           /\ \/ RestoreItem(w)
              \/ UNCHANGED work /\ worker'[w] = worker[w]
<1>1. /\ holder # Client /\ holder # Nobody /\ worker[w].pc = "applying"
      /\ \A v \in Workers \ {w} : worker[v].pc # "applying" /\ holder # v
  BY RestoreAssumption, StoreAssumption DEF LeaseHeld
<1>2. ASSUME NEW v \in Workers \ {w}, WorkerStep(v) \/ Crash(v)
      PROVE  UNCHANGED <<store, work>> /\ worker'[w] = worker[w]
  BY <1>1, <1>2 DEF WorkerStep, ClaimJob, ClaimRefused, CreatePreRestoreSnapshot,
     SeesCancellation, RenewLease, LeaseIsLost, StoreManifest, MarkSnapshotReady,
     ExecuteRestore, RestoreItem, CommitExecution, CancelWithLease, StepFails, RetryWithLease,
     Crash, Goes, Returns, At, EnterMaintenance, LeaveMaintenance, MoveTo, LockProject,
     storeVars, RowsTyped
<1>3. ASSUME WorkerStep(w) \/ Crash(w)
      PROVE  UNCHANGED store /\ RestoreItem(w)
  <2>1. CASE CommitExecution(w) \/ Crash(w)
    <3>1. worker'[w].pc = "idle"
      BY <2>1 DEF CommitExecution, Crash, Returns, AtRest, RowsTyped
    <3> QED
      BY <3>1
  <2>2. CASE StepFails(w)
    <3>1. worker'[w].pc = "retrying"
      BY <2>2 DEF StepFails, Goes, RowsTyped, WorkerRows
    <3> QED
      BY <3>1
  <2>3. CASE RestoreItem(w)
    BY <2>3 DEF RestoreItem, Revise
  <2> QED
    BY <1>1, <1>3, <2>1, <2>2, <2>3 DEF WorkerStep, ClaimJob, ClaimRefused,
       CreatePreRestoreSnapshot, SeesCancellation, RenewLease, LeaseIsLost, StoreManifest,
       MarkSnapshotReady, ExecuteRestore, CancelWithLease, RetryWithLease, At
<1>4. CASE UserStep
  <2>1. UNCHANGED <<store, work, worker>>
    BY <1>1, <1>4 DEF UserStep, TakeUserSnapshot, StoreUserManifest, RecordUserSnapshot,
       EnqueueRestore, CancelQueued, RequestCancel, ReopenFailed, Disable, EnqueuePurge,
       ClientPush, LeaveMaintenance, DisableProject, StartPurge, MoveTo, LockProject, Revise,
       CommitWrites, Commit, storeVars, jobVars
  <2> QED
    BY <2>1
<1>5. CASE TimeStep \/ UNCHANGED vars
  <2>1. UNCHANGED <<store, work, worker>>
    BY <1>5, TimeStepStore DEF TimeStep, LeaseExpires, RunAfterPasses, ExpirePending,
       DeleteManifest, vars, storeVars, jobVars
  <2> QED
    BY <2>1
<1> QED
  BY <1>2, <1>3, <1>4, <1>5 DEF RestoreNext

LEMMA TargetStays ==
    ASSUME RestoreInvariant, [RestoreNext]_vars, NEW t \in Targets, UNCHANGED store,
           t.snap # 0 => snap[t.snap].status # "none"
    PROVE  /\ TargetItems(t)' = TargetItems(t) /\ Wanted(t)' = Wanted(t)
           /\ t.snap # 0 => snap'[t.snap].status # "none"
<1>1. StoreInvariant /\ RowsTyped /\ SnapshotsHeld
  BY DEF RestoreInvariant
<1>2. CASE t.snap # 0
  <2>1. t.snap \in Snapshots
    BY <1>2 DEF Targets
  <2>2. SameContents(t.snap) /\ snap'[t.snap].status # "none"
    BY <1>1, <1>2, <2>1, SnapshotKeeps
  <2>3. TargetItems(t)' = TargetItems(t)
    BY <1>2, <2>2 DEF TargetItems, SameContents
  <2> QED
    BY <2>2, <2>3 DEF Wanted, HeadItems
<1>3. CASE t.snap = 0
  <2>1. TargetItems(t)' = TargetItems(t)
    BY <1>3 DEF TargetItems, RankedAt
  <2> QED
    BY <1>3, <2>1 DEF Wanted, HeadItems
<1> QED
  BY <1>2, <1>3

LEMMA SnapshotsOnePerObject ==
    ASSUME RestoreInvariant, [RestoreNext]_vars,
           \A s \in Snapshots : OnePerObject(snap[s].items)
    PROVE  \A s \in Snapshots : OnePerObject(snap'[s].items)
<1> SUFFICES ASSUME NEW s \in Snapshots PROVE OnePerObject(snap'[s].items)
  OBVIOUS
<1>1. StoreInvariant /\ RowsTyped /\ SnapshotsHeld /\ snap \in [Snapshots -> SnapshotRows]
  BY DEF RestoreInvariant, RowsTyped
<1>2. CASE snap[s].status # "none"
  BY <1>1, <1>2, SnapshotKeeps DEF SameContents
<1>3. ASSUME NEW owner, NEW t \in Snapshots, snap' = [snap EXCEPT ![t] = Pending(owner)]
      PROVE  OnePerObject(snap'[s].items)
  <2>1. OnePerObject(HeadItems(store))
    BY <1>1, HeadsOnePerObject DEF StoreInvariant, StoreTypeOK
  <2> QED
    BY <1>1, <1>3, <2>1 DEF Pending
<1>4. CASE snap[s].status = "none" /\ snap'[s].items = snap[s].items
  BY <1>4
<1>5. ASSUME NEW t, NEW b, \/ snap' = [snap EXCEPT ![t].stored = b]
                           \/ snap' = [snap EXCEPT ![t].status = b]
      PROVE  snap'[s].items = snap[s].items
  BY <1>1, <1>5 DEF SnapshotRows
<1>6. ASSUME snap[s].status = "none", NEW w \in Workers, WorkerStep(w) \/ Crash(w)
      PROVE  OnePerObject(snap'[s].items)
  <2>1. CASE \E t \in Snapshots : CreatePreRestoreSnapshot(w, t)
    BY <1>3, <2>1 DEF CreatePreRestoreSnapshot
  <2>2. CASE StoreManifest(w) \/ MarkSnapshotReady(w) \/ StepFails(w)
    BY <1>4, <1>5, <1>6, <2>2 DEF StoreManifest, MarkSnapshotReady, StepFails
  <2>3. CASE \/ \E j \in Jobs : ClaimJob(w, j) \/ ClaimRefused(w, j)
             \/ SeesCancellation(w) \/ RenewLease(w) \/ LeaseIsLost(w) \/ ExecuteRestore(w)
             \/ RestoreItem(w) \/ CommitExecution(w) \/ CancelWithLease(w)
             \/ RetryWithLease(w) \/ Crash(w)
    BY <1>4, <1>6, <2>3 DEF ClaimJob, ClaimRefused, SeesCancellation, RenewLease, LeaseIsLost,
       ExecuteRestore, RestoreItem, CommitExecution, CancelWithLease, RetryWithLease, Crash
  <2> QED
    BY <1>6, <2>1, <2>2, <2>3 DEF WorkerStep
<1>7. ASSUME snap[s].status = "none", UserStep \/ TimeStep \/ UNCHANGED vars
      PROVE  OnePerObject(snap'[s].items)
  <2>1. CASE \E t \in Snapshots : TakeUserSnapshot(t)
    BY <1>3, <2>1 DEF TakeUserSnapshot
  <2>2. CASE \E t \in Snapshots : \/ StoreUserManifest(t) \/ RecordUserSnapshot(t)
                                  \/ ExpirePending(t) \/ DeleteManifest(t)
    BY <1>4, <1>5, <1>7, <2>2
       DEF StoreUserManifest, RecordUserSnapshot, ExpirePending, DeleteManifest
  <2>3. CASE \/ \E j \in Jobs, t \in RestoreTargets : EnqueueRestore(j, t)
             \/ \E j \in Jobs : \/ CancelQueued(j) \/ RequestCancel(j) \/ LeaseExpires(j)
                                \/ RunAfterPasses(j)
             \/ ReopenFailed \/ Disable \/ EnqueuePurge \/ ClientPush \/ UNCHANGED vars
    BY <1>4, <1>7, <2>3 DEF EnqueueRestore, CancelQueued, RequestCancel, LeaseExpires,
       RunAfterPasses, ReopenFailed, Disable, EnqueuePurge, ClientPush, vars, jobVars
  <2> QED
    BY <1>7, <2>1, <2>2, <2>3 DEF UserStep, TimeStep
<1> QED
  BY <1>2, <1>6, <1>7 DEF RestoreNext

\* A worker begins to apply with a complete plan.
LEMMA ExecutionBegins ==
    ASSUME RestoreInvariant, ReachHeld, NEW w \in Workers, ExecuteRestore(w)
    PROVE  Reaches(w)'
<1>1. /\ StoreInvariant /\ RowsTyped /\ LeaseHeld
      /\ \A s \in Snapshots : OnePerObject(snap[s].items)
  BY DEF RestoreInvariant, ReachHeld
<1>2. /\ worker[w].pc = "executing" /\ Holds(w) /\ UNCHANGED <<store, job, snap>>
      /\ work' = store
  BY DEF ExecuteRestore, At, LockProject
<1>3. JobOf(w) \in Jobs
  BY <1>1, <1>2 DEF LeaseHeld, JobOf
<1>4. PICK t \in Targets : t = job[JobOf(w)].target
  BY <1>1, <1>2, <1>3 DEF Holds, RowsTyped
<1> DEFINE todo == {i \in Wanted(t) : ~SameState(i)}
<1>5. /\ worker' = [worker EXCEPT ![w].pc = "applying", ![w].todo = todo]
      /\ worker[w] \in WorkerRows /\ worker \in [Workers -> WorkerRows]
      /\ t.snap # 0 => snap[t.snap].status # "none"
  BY <1>1, <1>4 DEF ExecuteRestore, RowsTyped
<1>6. worker'[w].todo = todo /\ JobOf(w)' = JobOf(w)
  <2> HIDE DEF todo
  <2> QED
    BY <1>5 DEF JobOf, WorkerRows
<1>7. \A o \in Objects, b \in Contents :
          Settled(todo, o) => (Shows(HeadItems(store), o, b) <=> Shows(TargetItems(t), o, b))
  BY <1>1, <1>4, PlanIsComplete
<1>8. todo \subseteq Wanted(t)
  OBVIOUS
<1> HIDE DEF todo
<1>9. /\ job'[JobOf(w)'].target = t /\ HeadItems(work') = HeadItems(store)
      /\ TargetItems(t)' = TargetItems(t) /\ Wanted(t)' = Wanted(t)
  BY <1>2, <1>4, <1>6 DEF TargetItems, RankedAt, HeadItems, Wanted
<1>10. HeadItems(work)' = HeadItems(work')
  BY DEF HeadItems
<1> QED
  BY <1>2, <1>5, <1>6, <1>7, <1>8, <1>9, <1>10 DEF Reaches

\* An item that is applied settles its object and no other.
LEMMA ItemSettles ==
    ASSUME RestoreInvariant, ReachHeld, NEW w \in Workers, RestoreItem(w),
           NEW t \in Targets, t = job[JobOf(w)].target,
           NEW o \in Objects, NEW b \in Contents, Settled(worker'[w].todo, o)
    PROVE  Shows(HeadItems(work'), o, b) <=> Shows(TargetItems(t), o, b)
<1>1. /\ StoreInvariant /\ work \in Stores /\ Sound(work) /\ worker[w].pc = "applying"
      /\ Reaches(w) /\ worker[w].todo \subseteq WantedItems
      /\ worker \in [Workers -> WorkerRows]
      /\ OnePerObject(TargetItems(t))
  <2>1. worker[w].pc = "applying"
    BY DEF RestoreItem, At
  <2>2. OnePerObject(TargetItems(t))
    BY TargetOnePerObject DEF ReachHeld, RestoreInvariant
  <2> QED
    BY <2>1, <2>2
       DEF RestoreInvariant, ReachHeld, StoreInvariant, StoreTypeOK, RowsTyped, WorkerRows
<1>2. PICK item \in worker[w].todo :
          /\ work' = Revised(work, item.obj, work.heads[item.obj].rev, item.body)
          /\ worker' = [worker EXCEPT ![w].todo = @ \ {item}]
  BY DEF RestoreItem, Revise
<1>3. worker'[w].todo = worker[w].todo \ {item} /\ item.obj \in Objects
  BY <1>1, <1>2 DEF WorkerRows, WantedItems
<1>4. item \in Wanted(t)
  BY <1>1 DEF Reaches
<1>5. Shows(HeadItems(work'), o, b)
          <=> IF o = item.obj THEN b = item.body ELSE Shows(HeadItems(work), o, b)
  BY <1>1, <1>2, <1>3, RevisedShows
<1>6. CASE o = item.obj
  BY <1>1, <1>4, <1>5, <1>6, WantedDecides
<1>7. CASE o # item.obj
  <2>1. Settled(worker[w].todo, o)
    BY <1>3, <1>7 DEF Settled
  <2>2. Shows(HeadItems(work), o, b) <=> Shows(TargetItems(t), o, b)
    BY <1>1, <2>1 DEF Reaches
  <2> QED
    BY <1>5, <1>7, <2>2
<1> QED
  BY <1>6, <1>7

\* A worker gets the project row by the transaction that restores, and by no other step.
LEMMA ProjectTaken ==
    ASSUME [RestoreNext]_vars, NEW w \in Workers, holder # w, holder' = w
    PROVE  ExecuteRestore(w)
<1> USE RestoreAssumption, StoreAssumption
<1>1. ASSUME NEW v \in Workers, WorkerStep(v) PROVE ExecuteRestore(w)
  <2>1. CASE \E j \in Jobs : ClaimJob(v, j) \/ ClaimRefused(v, j)
    BY <2>1 DEF ClaimJob, ClaimRefused, EnterMaintenance, MoveTo, storeVars
  <2>2. CASE \/ \E s \in Snapshots : CreatePreRestoreSnapshot(v, s)
             \/ SeesCancellation(v) \/ RenewLease(v) \/ LeaseIsLost(v)
    BY <2>2 DEF CreatePreRestoreSnapshot, SeesCancellation, RenewLease, LeaseIsLost, storeVars
  <2>3. CASE StoreManifest(v) \/ MarkSnapshotReady(v) \/ RestoreItem(v)
    BY <2>3 DEF StoreManifest, MarkSnapshotReady, RestoreItem, Revise, storeVars
  <2>4. CASE ExecuteRestore(v)
    BY <2>4 DEF ExecuteRestore, LockProject
  <2>5. CASE CommitExecution(v)
    BY <2>5 DEF CommitExecution, CommitRestore, Commit
  <2>6. CASE CancelWithLease(v)
    BY <2>6 DEF CancelWithLease, LeaveMaintenance, MoveTo, storeVars
  <2>7. CASE StepFails(v) \/ RetryWithLease(v)
    BY <2>7 DEF StepFails, RetryWithLease, Rollback, storeVars
  <2> QED
    BY <1>1, <2>1, <2>2, <2>3, <2>4, <2>5, <2>6, <2>7 DEF WorkerStep
<1>2. ASSUME NEW v \in Workers, Crash(v) PROVE FALSE
  BY <1>2 DEF Crash, Rollback, storeVars
<1>3. CASE UserStep
  <2>1. CASE \/ \E s \in Snapshots : TakeUserSnapshot(s) \/ StoreUserManifest(s)
                                   \/ RecordUserSnapshot(s)
             \/ \E j \in Jobs : (\E t \in RestoreTargets : EnqueueRestore(j, t))
                               \/ CancelQueued(j) \/ RequestCancel(j)
    BY <2>1 DEF TakeUserSnapshot, StoreUserManifest, RecordUserSnapshot, EnqueueRestore,
       CancelQueued, RequestCancel, storeVars
  <2>2. CASE ReopenFailed \/ Disable \/ EnqueuePurge
    BY <2>2 DEF ReopenFailed, Disable, EnqueuePurge, DisableProject, StartPurge, MoveTo,
       LeaveMaintenance
  <2>3. CASE ClientPush
    BY <2>3 DEF ClientPush, LockProject, Revise, CommitWrites, Commit
  <2> QED
    BY <1>3, <2>1, <2>2, <2>3 DEF UserStep
<1>4. CASE TimeStep
  BY <1>4, TimeStepStore DEF storeVars
<1>5. CASE UNCHANGED vars
  BY <1>5 DEF vars, storeVars
<1> QED
  BY <1>1, <1>2, <1>3, <1>4, <1>5 DEF RestoreNext

LEMMA ReachStep ==
    ASSUME RestoreInvariant, ReachHeld, [RestoreNext]_vars PROVE ReachHeld'
<1>1. \A s \in Snapshots : OnePerObject(snap'[s].items)
  BY SnapshotsOnePerObject DEF ReachHeld
<1>2. /\ RowsTyped /\ LeaseHeld /\ LeaseHeld' /\ StoreInvariant
  BY RestoreNextInvariant DEF RestoreInvariant
<1>3. ASSUME NEW w \in Workers, worker'[w].pc = "applying" PROVE Reaches(w)'
  <2>1. CASE worker[w].pc # "applying"
    <3>1. ExecuteRestore(w)
      <4>1. holder' = w /\ holder # w
        BY <1>2, <1>3, <2>1 DEF LeaseHeld
      <4> QED
        BY <4>1, ProjectTaken
    <3> QED
      BY <3>1, ExecutionBegins
  <2>2. CASE worker[w].pc = "applying"
    <3>1. /\ holder = w /\ Holds(w) /\ JobOf(w) \in Jobs /\ Reaches(w)
          /\ worker[w] \in WorkerRows
      BY <1>2, <2>2 DEF LeaseHeld, JobOf, ReachHeld, RowsTyped
    <3>2. /\ UNCHANGED store
          /\ \/ RestoreItem(w)
             \/ UNCHANGED work /\ worker'[w] = worker[w]
      BY <1>2, <1>3, <3>1, HeldTables
    <3>3. /\ worker'[w].job = worker[w].job /\ worker'[w].token = worker[w].token
          /\ worker'[w].todo \subseteq worker[w].todo
      <4>1. ASSUME NEW item, worker' = [worker EXCEPT ![w].todo = @ \ {item}]
            PROVE  /\ worker'[w].job = worker[w].job /\ worker'[w].token = worker[w].token
                   /\ worker'[w].todo \subseteq worker[w].todo
        BY <1>2, <3>1, <4>1 DEF RowsTyped, WorkerRows
      <4> QED
        BY <3>2, <4>1 DEF RestoreItem
    <3>4. Holds(w)'
      BY <1>2, <1>3 DEF LeaseHeld
    <3>5. PICK t \in Targets : t = job[JobOf(w)].target
      BY <1>2, <3>1 DEF Holds, RowsTyped
    <3>6. JobOf(w)' = JobOf(w) /\ job'[JobOf(w)].target = t
      BY <1>2, <2>2, <3>3, <3>4, <3>5, HeldBefore
    <3>7. /\ t.snap # 0 => snap[t.snap].status # "none"
          /\ worker[w].todo \subseteq Wanted(t)
      BY <3>1, <3>5 DEF Reaches
    <3>8. /\ TargetItems(t)' = TargetItems(t) /\ Wanted(t)' = Wanted(t)
          /\ t.snap # 0 => snap'[t.snap].status # "none"
      BY <3>2, <3>7, TargetStays
    <3>9. ASSUME NEW o \in Objects, NEW b \in Contents, Settled(worker'[w].todo, o)
          PROVE  Shows(HeadItems(work'), o, b) <=> Shows(TargetItems(t), o, b)
      <4>1. CASE RestoreItem(w)
        BY <3>9, <3>5, <4>1, ItemSettles
      <4>2. CASE UNCHANGED work /\ worker'[w] = worker[w]
        BY <3>1, <3>9, <3>5, <4>2 DEF Reaches
      <4> QED
        BY <3>2, <4>1, <4>2
    <3>10. HeadItems(work)' = HeadItems(work')
      BY DEF HeadItems
    <3> QED
      BY <3>3, <3>6, <3>7, <3>8, <3>9, <3>10 DEF Reaches
  <2> QED
    BY <2>1, <2>2
<1> QED
  BY <1>1, <1>3 DEF ReachHeld

LEMMA ReachInit == RestoreInit => ReachHeld
BY DEF RestoreInit, ReachHeld, OnePerObject, NoSnapshot, AtRest

\* The commit of an execution publishes tables in which every object is settled.
LEMMA ReachedStep ==
    ASSUME RestoreInvariant, ReachHeld, [RestoreNext]_vars, NEW j \in Jobs, Succeeds(j)
    PROVE  Living(HeadItems(store')) = Living(TargetItems(job[j].target))
<1>1. PICK w \in Workers : CommitExecution(w) /\ JobOf(w) = j
  BY SuccessIsACommit
<1>2. /\ worker[w].pc = "applying" /\ worker[w].todo = {} /\ store' = work /\ Holds(w)
      /\ RowsTyped /\ StoreInvariant
  BY <1>1 DEF CommitExecution, CommitRestore, Commit, At, RestoreInvariant, LeaseHeld
<1>3. PICK t \in Targets : t = job[j].target
  BY <1>1, <1>2 DEF Holds, RowsTyped
<1>4. \A o \in Objects, b \in Contents :
          Shows(HeadItems(work), o, b) <=> Shows(TargetItems(t), o, b)
  BY <1>1, <1>2, <1>3 DEF ReachHeld, Reaches, Settled
<1>5. HeadItems(work) \subseteq Changes /\ TargetItems(t) \subseteq Changes
  <2>1. store \in Stores /\ work \in Stores
    BY <1>2 DEF StoreInvariant, StoreTypeOK
  <2>2. CASE t.snap # 0
    BY <1>2, <2>1, <2>2, HeadItemsTyped DEF Targets, TargetItems, RowsTyped, SnapshotRows
  <2>3. CASE t.snap = 0
    BY <2>1, <2>3, HeadItemsTyped DEF TargetItems, RankedAt, Stores
  <2> QED
    BY <2>2, <2>3
\* Item sets that show the same contents have the same living objects.
<1>6. ASSUME NEW I \in SUBSET Changes, NEW J \in SUBSET Changes,
             \A o \in Objects, b \in Contents : Shows(I, o, b) => Shows(J, o, b)
      PROVE  Living(I) \subseteq Living(J)
  <2> SUFFICES ASSUME NEW c \in I, c.body # Tombstone
               PROVE  [obj |-> c.obj, body |-> c.body] \in Living(J)
    BY DEF Living
  <2>1. c.obj \in Objects /\ c.body \in Contents
    BY DEF Changes, Bodies
  <2>2. PICK d \in J : d.obj = c.obj /\ d.body = c.body
    BY <1>6, <2>1 DEF Shows
  <2> QED
    BY <2>2 DEF Living
<1>7. /\ Living(HeadItems(work)) \subseteq Living(TargetItems(t))
      /\ Living(TargetItems(t)) \subseteq Living(HeadItems(work))
  BY <1>4, <1>5, <1>6
<1> QED
  BY <1>2, <1>3, <1>7

\* The objects alive after a restore are the ones alive in its target, with the same
\* contents, whether the target is a snapshot or a sequence of the log.
THEOREM RestoresReachTheirTarget == RestoreSpec => RestoreReachesTarget
<1>1. RestoreInit => ReachHeld
  BY ReachInit
<1>2. RestoreInvariant /\ ReachHeld /\ [RestoreNext]_vars => ReachHeld'
  BY ReachStep
<1>3. RestoreInvariant /\ ReachHeld /\ [RestoreNext]_vars =>
        [\A j \in Jobs : Succeeds(j) =>
              Living(HeadItems(store')) = Living(TargetItems(job[j].target))]_vars
  BY ReachedStep
<1> QED
  BY <1>1, <1>2, <1>3, RestoreCorrect, PTL DEF RestoreSpec, RestoreReachesTarget

-----------------------------------------------------------------------------
(***************************************************************************)
(* Restores are atomic.  A target keeps the contents it had when it was    *)
(* asked for: a snapshot never changes its items, and no later change gets *)
(* a sequence that the log had already.                                    *)
(***************************************************************************)
TargetKnown(t) ==
    /\ t.snap # 0 => snap[t.snap].status # "none"
    /\ t.seq <= store.seq

TargetsKnown == \A j \in Jobs : job[j].status # "none" => TargetKnown(job[j].target)

LEMMA RankedStays ==
    ASSUME NEW st \in Stores, NEW later \in Stores, Gapless(st), Gapless(later),
           Extends(later, st), NEW n \in Nat, n <= st.seq
    PROVE  RankedAt(later, n) = RankedAt(st, n)
<1>1. ASSUME NEW c \in later.log, c.seq <= n PROVE c \in st.log
  <2>1. c.seq \in 1 .. st.seq
    BY <1>1 DEF Gapless, Stores
  <2>2. PICK d \in st.log : d.seq = c.seq
    BY <2>1 DEF Gapless
  <2> QED
    BY <2>2 DEF Gapless, Extends
<1> QED
  BY <1>1 DEF RankedAt, Extends

LEMMA TargetFixed ==
    ASSUME RestoreInvariant, RestoreInvariant', Extends(work, store), [RestoreNext]_vars,
           NEW t \in Targets, TargetKnown(t)
    PROVE  TargetItems(t)' = TargetItems(t) /\ TargetKnown(t)'
<1>1. /\ StoreInvariant /\ StoreInvariant' /\ RowsTyped /\ SnapshotsHeld
  BY DEF RestoreInvariant
<1>2. /\ store \in Stores /\ store' \in Stores /\ Gapless(store) /\ Gapless(store')
      /\ store.seq \in Nat /\ store'.seq \in Nat
  BY <1>1 DEF StoreInvariant, StoreTypeOK, Sound, Gapless, Stores
<1>3. Extends(store', store)
  BY <1>1, StepStore, NextExtends
<1>4. t.seq \in Nat /\ t.seq <= store'.seq
  BY <1>2, <1>3, StoreAssumption DEF Targets, TargetKnown, Extends
<1>5. CASE t.snap # 0
  <2>1. t.snap \in Snapshots
    BY <1>5 DEF Targets
  <2>2. SameContents(t.snap) /\ snap'[t.snap].status # "none"
    BY <1>1, <1>5, <2>1, SnapshotKeeps DEF TargetKnown
  <2> QED
    BY <1>4, <1>5, <2>2 DEF TargetItems, SameContents, TargetKnown
<1>6. CASE t.snap = 0
  <2>1. RankedAt(store', t.seq) = RankedAt(store, t.seq)
    BY <1>2, <1>3, <1>4, RankedStays DEF TargetKnown
  <2>2. TargetItems(t) = RankedAt(store, t.seq) /\ TargetItems(t)' = RankedAt(store', t.seq)
    BY <1>6 DEF TargetItems, RankedAt
  <2> QED
    BY <1>4, <1>6, <2>1, <2>2 DEF TargetKnown
<1> QED
  BY <1>5, <1>6

(***************************************************************************)
(* What a step makes of the requests: nothing, one more, one dropped, or   *)
(* one restored.                                                           *)
(***************************************************************************)
Stays(j) == Fate(job'[j]) = Fate(job[j]) /\ job'[j].target = job[j].target
Drops(j) ==
    /\ Active(j)
    /\ Fate(job'[j]) = "dropped" /\ job'[j].target = job[j].target
    /\ \A i \in Jobs \ {j} : job'[i] = job[i]
    /\ UNCHANGED <<store, generation>>
    /\ UNCHANGED status \/ LeaveMaintenance

LEMMA EditStays ==
    ASSUME RowsTyped, NEW i, NEW row, job' = [job EXCEPT ![i] = row],
           Fate(row) = Fate(job[i]), row.target = job[i].target
    PROVE  \A j \in Jobs : Stays(j)
BY RowEdited DEF Stays

LEMMA EditDrops ==
    ASSUME RowsTyped, NEW i \in Jobs, NEW row, job' = [job EXCEPT ![i] = row], Active(i),
           Fate(row) = "dropped", row.target = job[i].target,
           UNCHANGED <<store, generation>>, UNCHANGED status \/ LeaveMaintenance
    PROVE  Drops(i)
<1>1. job'[i] = row /\ \A j \in Jobs \ {i} : job'[j] = job[j]
  BY DEF RowsTyped
<1> QED
  BY <1>1 DEF Drops

LEMMA WorkerFates ==
    ASSUME RowsTyped, LeaseHeld, NEW w \in Workers, WorkerStep(w) \/ Crash(w)
    PROVE  \/ \A j \in Jobs : Stays(j)
           \/ \E j \in Jobs : Drops(j)
           \/ CommitExecution(w)
<1> DEFINE Fine == (\A j \in Jobs : Stays(j)) \/ \E j \in Jobs : Drops(j)
<1>1. ASSUME UNCHANGED job PROVE Fine
  BY <1>1 DEF Stays
<1>2. \A j \in Jobs : job[j] \in JobRows
  BY DEF RowsTyped
<1>3. ASSUME worker[w].pc # "idle", Holds(w)
      PROVE  JobOf(w) \in Jobs /\ job[JobOf(w)].status = "running" /\ Active(JobOf(w))
  BY <1>3 DEF LeaseHeld, Holds, JobOf, Active
<1>4. ASSUME NEW j \in Jobs, ClaimJob(w, j) PROVE Fine
  <2> DEFINE row == [job[j] EXCEPT !.status = "running", !.token = leases + 1, !.expired = FALSE,
                                   !.before = IF @ = 0 THEN generation ELSE @]
  <2>1. job' = [job EXCEPT ![j] = row] /\ Active(j)
    BY <1>4 DEF ClaimJob, Claimable, RowsTyped, Active
  <2>2. Fate(row) = Fate(job[j]) /\ row.target = job[j].target
    BY <1>2, <2>1 DEF Fate, Active, JobRows
  <2> HIDE DEF row
  <2> QED
    BY <2>1, <2>2, EditStays
<1>5. ASSUME NEW j \in Jobs, ClaimRefused(w, j) PROVE Fine
  <2> DEFINE row == [job[j] EXCEPT !.status = "failed"]
  <2>1. /\ job' = [job EXCEPT ![j] = row] /\ Active(j)
        /\ UNCHANGED <<store, generation>> /\ UNCHANGED status
    BY <1>5 DEF ClaimRefused, Claimable, RowsTyped, Active, storeVars
  <2>2. Fate(row) = "dropped" /\ row.target = job[j].target
    BY <1>2 DEF Fate, JobRows
  <2> HIDE DEF row
  <2> QED
    BY <2>1, <2>2, EditDrops
<1>6. ASSUME NEW s \in Snapshots, CreatePreRestoreSnapshot(w, s) PROVE Fine
  <2> DEFINE j == JobOf(w)
             row == [job[j] EXCEPT !.pre = s]
  <2>1. job' = [job EXCEPT ![j] = row] /\ j \in Jobs
    BY <1>3, <1>6 DEF CreatePreRestoreSnapshot, At, RowsTyped
  <2>2. Fate(row) = Fate(job[j]) /\ row.target = job[j].target
    BY <1>2, <2>1 DEF Fate, JobRows
  <2> HIDE DEF row
  <2> QED
    BY <2>1, <2>2, EditStays
<1>7. ASSUME RenewLease(w) PROVE Fine
  <2> DEFINE j == JobOf(w)
             row == [job[j] EXCEPT !.expired = FALSE]
  <2>1. job' = [job EXCEPT ![j] = row] /\ j \in Jobs
    BY <1>3, <1>7 DEF RenewLease, At, RowsTyped
  <2>2. Fate(row) = Fate(job[j]) /\ row.target = job[j].target
    BY <1>2, <2>1 DEF Fate, JobRows
  <2> HIDE DEF row
  <2> QED
    BY <2>1, <2>2, EditStays
<1>8. ASSUME CancelWithLease(w) PROVE Fine
  <2> DEFINE j == JobOf(w)
             row == [LeaseFree(job[j]) EXCEPT !.status = "cancelled"]
  <2>1. CASE ~Holds(w)
    BY <1>1, <1>8, <2>1 DEF CancelWithLease
  <2>2. CASE Holds(w)
    <3>1. j \in Jobs /\ Active(j)
      BY <1>3, <1>8, <2>2 DEF CancelWithLease, At
    <3>2. /\ job' = [job EXCEPT ![j] = row]
          /\ UNCHANGED <<store, generation>> /\ (UNCHANGED status \/ LeaveMaintenance)
      BY <1>8, <2>2, <3>1 DEF CancelWithLease, RowsTyped, LeaveMaintenance, MoveTo, storeVars
    <3>3. Fate(row) = "dropped" /\ row.target = job[j].target
      BY <1>2, <3>1 DEF Fate, JobRows, LeaseFree
    <3> HIDE DEF row, j
    <3> QED
      BY <3>1, <3>2, <3>3, EditDrops
  <2> QED
    BY <2>1, <2>2
<1>9. ASSUME RetryWithLease(w) PROVE Fine
  <2> DEFINE j == JobOf(w)
  <2>1. CASE ~Holds(w)
    BY <1>1, <1>9, <2>1 DEF RetryWithLease
  <2>2. CASE Holds(w)
    <3>1. j \in Jobs /\ Active(j) /\ UNCHANGED <<store, generation, status>>
      BY <1>3, <1>9, <2>2 DEF RetryWithLease, At, storeVars
    <3> DEFINE tried == job[j].attempts + 1
               next == IF tried < RetryLimit THEN "queued" ELSE "failed"
               row == [LeaseFree(job[j]) EXCEPT !.attempts = tried, !.status = next, !.due = FALSE]
    <3>2. job' = [job EXCEPT ![j] = row] /\ next \in {"queued", "failed"}
      BY <1>9, <2>2, <3>1 DEF RetryWithLease, RowsTyped
    <3> HIDE DEF tried, next
    <3>3. /\ row.target = job[j].target
          /\ Fate(row) = IF next = "queued" THEN Fate(job[j]) ELSE "dropped"
      <4>1. row.target = job[j].target /\ row.status = next
        BY <1>2, <3>1 DEF JobRows, LeaseFree
      <4> HIDE DEF row
      <4> QED
        BY <3>1, <3>2, <4>1 DEF Fate, Active
    <3> HIDE DEF row, j
    <3> QED
      BY <3>1, <3>2, <3>3, EditStays, EditDrops
  <2> QED
    BY <2>1, <2>2
<1> QED
  BY <1>1, <1>4, <1>5, <1>6, <1>7, <1>8, <1>9
     DEF WorkerStep, SeesCancellation, LeaseIsLost, StoreManifest, MarkSnapshotReady,
         ExecuteRestore, RestoreItem, StepFails, Crash

LEMMA OtherFates ==
    ASSUME RowsTyped, UserStep \/ TimeStep
    PROVE  \/ \A j \in Jobs : Stays(j)
           \/ \E j \in Jobs, t \in RestoreTargets : EnqueueRestore(j, t)
           \/ \E j \in Jobs : Drops(j)
<1> DEFINE Fine == (\A j \in Jobs : Stays(j)) \/ \E j \in Jobs : Drops(j)
<1>1. ASSUME UNCHANGED job PROVE Fine
  BY <1>1 DEF Stays
<1>2. \A j \in Jobs : job[j] \in JobRows
  BY DEF RowsTyped
<1>3. ASSUME NEW j \in Jobs, CancelQueued(j) PROVE Fine
  <2> DEFINE row == [job[j] EXCEPT !.status = "cancelled"]
  <2>1. /\ job' = [job EXCEPT ![j] = row] /\ Active(j)
        /\ UNCHANGED <<store, generation>> /\ UNCHANGED status
    BY <1>3 DEF CancelQueued, RowsTyped, Active, storeVars
  <2>2. Fate(row) = "dropped" /\ row.target = job[j].target
    BY <1>2 DEF Fate, JobRows
  <2> HIDE DEF row
  <2> QED
    BY <2>1, <2>2, EditDrops
<1>4. ASSUME NEW j \in Jobs, RequestCancel(j) \/ LeaseExpires(j) \/ RunAfterPasses(j) PROVE Fine
  <2>1. PICK row \in {[job[j] EXCEPT !.cancel = TRUE], [job[j] EXCEPT !.expired = TRUE],
                      [job[j] EXCEPT !.due = TRUE]} : job' = [job EXCEPT ![j] = row]
    BY <1>4 DEF RequestCancel, LeaseExpires, RunAfterPasses, RowsTyped
  <2>2. row.status = job[j].status /\ row.target = job[j].target
    BY <1>2, <2>1 DEF JobRows
  <2> QED
    BY <2>1, <2>2, EditStays DEF Fate
<1> QED
  BY <1>1, <1>3, <1>4
     DEF UserStep, TimeStep, TakeUserSnapshot, StoreUserManifest, RecordUserSnapshot,
         ReopenFailed, Disable, EnqueuePurge, ClientPush, ExpirePending, DeleteManifest, jobVars

\* Nobody but clients and the execution of a restore commits changes.
LEMMA TableFates ==
    ASSUME [RestoreNext]_vars
    PROVE  \/ UNCHANGED <<store, generation>>
           \/ CommitWrites(Client) /\ UNCHANGED job
           \/ \E w \in Workers : CommitExecution(w)
<1>1. ASSUME NEW w \in Workers, WorkerStep(w) \/ Crash(w)
      PROVE  UNCHANGED <<store, generation>> \/ CommitExecution(w)
  BY <1>1 DEF WorkerStep, ClaimJob, ClaimRefused, CreatePreRestoreSnapshot, SeesCancellation,
     RenewLease, LeaseIsLost, StoreManifest, MarkSnapshotReady, ExecuteRestore, RestoreItem,
     CancelWithLease, StepFails, RetryWithLease, Crash, EnterMaintenance, LeaveMaintenance,
     MoveTo, LockProject, Revise, Rollback, storeVars
<1>2. CASE UserStep
  BY <1>2 DEF UserStep, TakeUserSnapshot, StoreUserManifest, RecordUserSnapshot,
     EnqueueRestore, CancelQueued, RequestCancel, ReopenFailed, Disable, EnqueuePurge,
     ClientPush, LeaveMaintenance, DisableProject, StartPurge, MoveTo, LockProject, Revise,
     storeVars, jobVars
<1>3. CASE TimeStep \/ UNCHANGED vars
  BY <1>3, TimeStepStore DEF vars, storeVars
<1> QED
  BY <1>1, <1>2, <1>3 DEF RestoreNext

LEMMA ExecutionFate ==
    ASSUME RestoreInvariant, NEW w \in Workers, CommitExecution(w)
    PROVE  /\ JobOf(w) \in Jobs /\ Active(JobOf(w)) /\ status = "maintenance"
           /\ job'[JobOf(w)].status = "succeeded"
           /\ job'[JobOf(w)].target = job[JobOf(w)].target
           /\ \A j \in Jobs \ {JobOf(w)} : job'[j] = job[j]
           /\ generation' = generation + 1 /\ status' = "active"
<1> DEFINE j == JobOf(w)
           next == generation + 1
           row == [LeaseFree(job[j]) EXCEPT !.status = "succeeded", !.after = next]
<1>1. RowsTyped /\ LeaseHeld
  BY DEF RestoreInvariant
<1>2. /\ j \in Jobs /\ Active(j) /\ job[j] \in JobRows
  BY <1>1 DEF CommitExecution, At, LeaseHeld, JobOf, Holds, Active, RowsTyped
<1>3. job' = [job EXCEPT ![j] = row]
  BY DEF CommitExecution
<1>4. status = "maintenance" /\ generation' = generation + 1 /\ status' = "active"
  BY DEF CommitExecution, CommitRestore, Commit
<1> HIDE DEF next
<1>5. LeaseFree(job[j]) \in [status: JobStates, target: Targets \cup {None}, cancel: BOOLEAN,
                             due: BOOLEAN, token: Nat, expired: BOOLEAN, attempts: Nat,
                             before: Nat, after: Nat, pre: Nat]
      /\ LeaseFree(job[j]).target = job[j].target
  BY <1>2 DEF JobRows, LeaseFree
<1>6. row.status = "succeeded" /\ row.target = job[j].target
  BY <1>5
<1> HIDE DEF row, j
<1>7. job'[j] = row /\ \A i \in Jobs \ {j} : job'[i] = job[i]
  BY <1>1, <1>2, <1>3 DEF RowsTyped
<1> QED
  BY <1>2, <1>4, <1>6, <1>7 DEF j

LEMMA JobFates ==
    ASSUME RestoreInvariant, [RestoreNext]_vars
    PROVE  \/ \A j \in Jobs : Stays(j)
           \/ \E j \in Jobs, t \in RestoreTargets : EnqueueRestore(j, t)
           \/ \E j \in Jobs : Drops(j)
           \/ \E w \in Workers : CommitExecution(w)
<1>1. RowsTyped /\ LeaseHeld
  BY DEF RestoreInvariant
<1>2. CASE UNCHANGED vars
  BY <1>2 DEF vars, jobVars, Stays
<1> QED
  BY <1>1, <1>2, WorkerFates, OtherFates DEF RestoreNext

LEMMA EnqueuedJob ==
    ASSUME RowsTyped, NEW i \in Jobs, NEW t \in RestoreTargets, EnqueueRestore(i, t)
    PROVE  /\ t \in Targets /\ TargetKnown(t)' /\ TargetItems(t)' = TargetItems(t)
           /\ job[i].status = "none"
           /\ job'[i].status = "queued" /\ job'[i].target = t
           /\ \A j \in Jobs \ {i} : job'[j] = job[j]
<1> DEFINE row == [NoJob EXCEPT !.status = "queued", !.target = t, !.due = TRUE]
<1>1. /\ job' = [job EXCEPT ![i] = row] /\ job[i] = NoJob
      /\ UNCHANGED <<store, snap>>
      /\ t.seq <= store.seq
      /\ t.snap # 0 => snap[t.snap].status = "ready"
  BY DEF EnqueueRestore, storeVars
<1>2. row.status = "queued" /\ row.target = t /\ job[i].status = "none"
  BY <1>1 DEF NoJob
<1> HIDE DEF row
<1>3. job'[i] = row /\ \A j \in Jobs \ {i} : job'[j] = job[j]
  BY <1>1 DEF RowsTyped
<1>4. TargetKnown(t)' /\ TargetItems(t)' = TargetItems(t)
  BY <1>1 DEF TargetKnown, TargetItems, RankedAt
<1> QED
  BY <1>2, <1>3, <1>4, TargetAssumption

LEMMA TargetsStep ==
    ASSUME RestoreInvariant, RestoreInvariant', Extends(work, store), TargetsKnown,
           [RestoreNext]_vars
    PROVE  /\ TargetsKnown'
           /\ \A j \in Jobs : job[j].status # "none" /\ job'[j].target = job[j].target =>
                  TargetItems(job[j].target)' = TargetItems(job[j].target)
<1>1. RowsTyped
  BY DEF RestoreInvariant
<1>2. ASSUME NEW j \in Jobs, job[j].status # "none", job'[j].target = job[j].target
      PROVE  /\ TargetKnown(job[j].target)'
             /\ TargetItems(job[j].target)' = TargetItems(job[j].target)
  <2>1. PICK t \in Targets : t = job[j].target
    BY <1>1, <1>2 DEF RowsTyped
  <2>2. TargetItems(t)' = TargetItems(t) /\ TargetKnown(t)'
    BY <1>2, <2>1, TargetFixed DEF TargetsKnown
  <2> QED
    BY <1>2, <2>1, <2>2 DEF TargetKnown, TargetItems
<1>3. ASSUME NEW j \in Jobs, job'[j].status # "none" PROVE TargetKnown(job[j].target)'
  <2>1. CASE job[j].status # "none" /\ job'[j].target = job[j].target
    BY <1>2, <2>1
  <2>2. CASE \E i \in Jobs, t \in RestoreTargets : EnqueueRestore(i, t)
    <3>1. PICK i \in Jobs, t \in RestoreTargets : EnqueueRestore(i, t)
      BY <2>2
    <3>2. /\ job'[i].target = t /\ TargetKnown(t)'
          /\ \A k \in Jobs \ {i} : job'[k] = job[k]
      BY <1>1, <3>1, EnqueuedJob
    <3>3. CASE j = i
      BY <3>2, <3>3 DEF TargetKnown
    <3>4. CASE j # i
      BY <1>2, <1>3, <3>2, <3>4
    <3> QED
      BY <3>3, <3>4
  <2>3. CASE Stays(j)
    BY <1>3, <2>1, <2>3 DEF Stays, Fate
  <2>4. CASE \E i \in Jobs : Drops(i)
    BY <1>3, <2>1, <2>4 DEF Drops, Active
  <2>5. CASE \E w \in Workers : CommitExecution(w)
    BY <1>3, <2>1, <2>5, ExecutionFate DEF Active
  <2> QED
    BY <2>2, <2>3, <2>4, <2>5, JobFates
<1>4. \A j \in Jobs : job[j].status # "none" /\ job'[j].target = job[j].target =>
          TargetItems(job[j].target)' = TargetItems(job[j].target)
  BY <1>2
<1>5. TargetsKnown'
  BY <1>3 DEF TargetsKnown, TargetKnown
<1> QED
  BY <1>4, <1>5

LEMMA TargetItemsTyped ==
    ASSUME StoreInvariant, RowsTyped, NEW t \in Targets
    PROVE  TargetItems(t) \subseteq Changes
<1>1. store \in Stores
  BY DEF StoreInvariant, StoreTypeOK
<1>2. CASE t.snap # 0
  BY <1>2 DEF Targets, TargetItems, RowsTyped, SnapshotRows
<1>3. CASE t.snap = 0
  BY <1>1, <1>3 DEF TargetItems, RankedAt, Stores
<1> QED
  BY <1>2, <1>3

(***************************************************************************)
(* Every step is one of AtomicRestore, or none.                            *)
(***************************************************************************)
Requested == [j \in Jobs |-> RequestOf(j)]
Shown == Living(HeadItems(store))

LEMMA LivingTyped ==
    ASSUME NEW I \in SUBSET Changes
    PROVE  Living(I) \subseteq [obj: Objects, body: Contents]
BY DEF Living, Changes, Bodies

LEMMA RequestStays ==
    ASSUME RestoreInvariant, RestoreInvariant', Extends(work, store), TargetsKnown,
           [RestoreNext]_vars, NEW j \in Jobs, Stays(j)
    PROVE  RequestOf(j)' = RequestOf(j)
<1>1. job[j].status # "none" => TargetItems(job[j].target)' = TargetItems(job[j].target)
  BY TargetsStep DEF Stays
<1>2. Fate(job[j])' = Fate(job'[j])
  BY DEF Fate
<1>3. job[j].status = "none" <=> job'[j].status = "none"
  BY DEF Stays, Fate
<1>4. Living(TargetItems(job[j].target))' = Living(TargetItems(job[j].target)')
  BY DEF Living
<1> QED
  BY <1>1, <1>2, <1>3, <1>4 DEF RequestOf, Stays

\* The other jobs stay, so one request moves on and keeps what it asks for.
LEMMA RequestMoves ==
    ASSUME RestoreInvariant, RestoreInvariant', Extends(work, store), TargetsKnown,
           [RestoreNext]_vars, NEW i \in Jobs, Active(i), NEW state,
           Fate(job'[i]) = state, state # "none", job'[i].target = job[i].target,
           \A j \in Jobs \ {i} : job'[j] = job[j]
    PROVE  /\ Requested[i].state = "pending"
           /\ Requested[i].wanted = Living(TargetItems(job[i].target))
           /\ Requested' = [Requested EXCEPT ![i].state = state]
<1>1. \A j \in Jobs \ {i} : RequestOf(j)' = RequestOf(j)
  BY RequestStays DEF Stays
<1>2. TargetItems(job[i].target)' = TargetItems(job[i].target)
  BY TargetsStep DEF Active
<1>3. Living(TargetItems(job[i].target))' = Living(TargetItems(job[i].target)')
  BY DEF Living
<1>4. Fate(job[i])' = state /\ job'[i].status # "none"
  BY DEF Fate
<1>5. RequestOf(i) = [state |-> "pending", wanted |-> Living(TargetItems(job[i].target))]
  BY DEF RequestOf, Fate, Active
<1>6. RequestOf(i)' = [state |-> state, wanted |-> Living(TargetItems(job[i].target))]
  BY <1>2, <1>3, <1>4 DEF RequestOf
<1>7. RequestOf(i)' = [RequestOf(i) EXCEPT !.state = state]
  BY <1>5, <1>6
<1>8. Requested' = [Requested EXCEPT ![i].state = state]
  <2>1. Requested[i] = RequestOf(i)
    BY DEF Requested
  <2>2. \A j \in Jobs : RequestOf(j)' = IF j = i THEN [Requested[i] EXCEPT !.state = state]
                                          ELSE Requested[j]
    BY <1>1, <1>7, <2>1 DEF Requested
  <2>3. Requested' = [j \in Jobs |-> RequestOf(j)']
    BY DEF Requested
  <2> QED
    BY <2>2, <2>3 DEF Requested
<1> QED
  BY <1>5, <1>8 DEF Requested

LEMMA PromiseStep ==
    ASSUME RestoreInvariant, RestoreInvariant', ReachHeld, Extends(work, store), TargetsKnown,
           [RestoreNext]_vars
    PROVE  [Promise!Next]_<<Requested, Shown, generation, status = "active">>
<1> DEFINE Next == [Promise!Next]_<<Requested, Shown, generation, status = "active">>
           open == status = "active"
<1>1. RowsTyped /\ StoreInvariant /\ StoreInvariant'
  BY DEF RestoreInvariant
<1>2. UNCHANGED store => UNCHANGED Shown
  BY DEF Shown, HeadItems
<1>3. ASSUME NEW w \in Workers, CommitExecution(w) PROVE Next
  <2> DEFINE j == JobOf(w)
  <2>1. /\ j \in Jobs /\ Active(j) /\ status = "maintenance"
        /\ job'[j].status = "succeeded" /\ job'[j].target = job[j].target
        /\ \A i \in Jobs \ {j} : job'[i] = job[i]
        /\ generation' = generation + 1 /\ status' = "active"
    BY <1>3, ExecutionFate
  <2>2. Fate(job'[j]) = "restored" /\ Succeeds(j)
    BY <2>1 DEF Fate, Succeeds, Active
  <2> HIDE DEF j
  <2>3. /\ Requested[j].state = "pending"
        /\ Requested[j].wanted = Living(TargetItems(job[j].target))
        /\ Requested' = [Requested EXCEPT ![j].state = "restored"]
    BY <2>1, <2>2, RequestMoves
  <2>4. Shown' = Requested[j].wanted
    <3>1. Living(HeadItems(store')) = Living(TargetItems(job[j].target))
      BY <2>1, <2>2, ReachedStep
    <3>2. Shown' = Living(HeadItems(store'))
      BY DEF Shown, HeadItems, Living
    <3> QED
      BY <2>3, <3>1, <3>2
  <2>5. Promise!Restore(j)
    BY <2>1, <2>3, <2>4 DEF Promise!Restore, Promise!Pending, Requested, Shown
  <2> QED
    BY <2>1, <2>5 DEF Promise!Next
<1>4. ASSUME NEW j \in Jobs, Drops(j) PROVE Next
  <2>1. /\ Requested[j].state = "pending"
        /\ Requested' = [Requested EXCEPT ![j].state = "dropped"]
    BY <1>4, RequestMoves DEF Drops
  <2>2. open' \in {open, TRUE} /\ UNCHANGED <<Shown, generation>>
    BY <1>2, <1>4 DEF Drops, LeaveMaintenance, MoveTo
  <2>3. Promise!Drop(j)
    BY <2>1, <2>2 DEF Promise!Drop, Promise!Pending, Requested, Shown
  <2> QED
    BY <2>3 DEF Promise!Next
<1>5. ASSUME NEW i \in Jobs, NEW t \in RestoreTargets, EnqueueRestore(i, t) PROVE Next
  <2>1. /\ t \in Targets /\ TargetItems(t)' = TargetItems(t) /\ job[i].status = "none"
        /\ job'[i].status = "queued" /\ job'[i].target = t
        /\ \A j \in Jobs \ {i} : job'[j] = job[j]
    BY <1>1, <1>5, EnqueuedJob
  <2>2. /\ status = "active" /\ UNCHANGED <<store, status, generation>>
        /\ \A j \in Jobs : ~Active(j)
    BY <1>5 DEF EnqueueRestore, NoActiveJob, storeVars
  <2> DEFINE wanted == Living(TargetItems(t))
  <2>3. \A j \in Jobs \ {i} : RequestOf(j)' = RequestOf(j)
    BY <2>1, RequestStays DEF Stays
  <2>4. RequestOf(i)' = [state |-> "pending", wanted |-> wanted]
    <3>1. Fate(job[i])' = "pending"
      BY <2>1 DEF Fate
    <3>2. Living(TargetItems(job[i].target))' = wanted
      BY <2>1 DEF Living, TargetItems
    <3> QED
      BY <2>1, <3>1, <3>2 DEF RequestOf
  <2>5. RequestOf(i).state = "none" /\ \A j \in Jobs : RequestOf(j).state # "pending"
    BY <2>1, <2>2 DEF RequestOf, Fate, Active
  <2>6. Requested' = [Requested EXCEPT ![i] = [state |-> "pending", wanted |-> wanted]]
    BY <2>3, <2>4 DEF Requested
  <2>7. wanted \subseteq [obj: Objects, body: Contents]
    <3>1. TargetItems(t) \subseteq Changes
      BY <1>1, <2>1, TargetItemsTyped
    <3> QED
      BY <3>1, LivingTyped
  <2>8. Promise!Ask(i)
    <3> HIDE DEF wanted
    <3> QED
      BY <1>2, <2>2, <2>5, <2>6, <2>7
         DEF Promise!Ask, Promise!Pending, Promise!Item, Requested, Shown
  <2> QED
    BY <2>8 DEF Promise!Next
<1>6. ASSUME \A j \in Jobs : Stays(j) PROVE Next
  <2>1. UNCHANGED Requested
    BY <1>6, RequestStays DEF Requested
  <2>2. CASE UNCHANGED <<store, generation>>
    <3>1. CASE UNCHANGED open
      BY <1>2, <2>1, <2>2, <3>1
    <3>2. CASE open' = ~open
      BY <1>2, <2>1, <2>2, <3>2 DEF Promise!Next, Promise!Gate, Requested, Shown
    <3> QED
      BY <3>1, <3>2
  <2>3. CASE CommitWrites(Client)
    <3>1. open /\ open' /\ UNCHANGED generation
      BY <2>3 DEF CommitWrites, Commit
    <3>2. Shown' \subseteq [obj: Objects, body: Contents]
      <4>1. HeadItems(store') \subseteq Changes
        BY <1>1, HeadItemsTyped DEF StoreInvariant, StoreTypeOK
      <4>2. Shown' = Living(HeadItems(store'))
        BY DEF Shown, HeadItems, Living
      <4> QED
        BY <4>1, <4>2, LivingTyped
    <3>3. Promise!Write
      BY <2>1, <3>1, <3>2 DEF Promise!Write, Promise!Item, Requested, Shown
    <3> QED
      BY <3>3 DEF Promise!Next
  <2> QED
    BY <1>3, <2>2, <2>3, TableFates
<1> QED
  BY <1>3, <1>4, <1>5, <1>6, JobFates

LEMMA PromiseInit == RestoreInit => Promise!Init /\ TargetsKnown
<1> SUFFICES ASSUME RestoreInit PROVE Promise!Init /\ TargetsKnown
  OBVIOUS
<1>1. \A j \in Jobs : job[j].status = "none" /\ RequestOf(j) = [state |-> "none", wanted |-> {}]
  BY DEF RestoreInit, NoJob, RequestOf, Fate
<1>2. Living(HeadItems(store)) = {}
  BY DEF RestoreInit, StoreInit, EmptyStore, HeadItems, Living
<1> QED
  BY <1>1, <1>2 DEF RestoreInit, StoreInit, Promise!Init, TargetsKnown

\* Whatever workers, leases, retries, crashes and clean-ups do: a restore happens at one
\* moment, as a whole and at most once, with the contents its target had when the user
\* asked for it; or it is dropped without a trace.
THEOREM RestoresImplementPromise == RestoreSpec => RestoresAreAtomic
<1>1. RestoreInit => Promise!Init /\ TargetsKnown /\ ReachHeld
  BY PromiseInit, ReachInit
<1>2. RestoreInvariant /\ RestoreInvariant' /\ ReachHeld /\ Extends(work, store)
        /\ TargetsKnown /\ [RestoreNext]_vars
        => TargetsKnown'
           /\ [Promise!Next]_<<[j \in Jobs |-> RequestOf(j)], Living(HeadItems(store)),
                               generation, status = "active">>
  BY TargetsStep, PromiseStep DEF Requested, Shown
<1>3. RestoreInvariant /\ ReachHeld /\ [RestoreNext]_vars => ReachHeld'
  BY ReachStep
<1>4. RestoreSpec => [](StoreInvariant /\ Extends(work, store))
  BY RestoreImplementsStore, StoreExtends
<1> QED
  BY <1>1, <1>2, <1>3, <1>4, RestoreCorrect, PTL
     DEF RestoreSpec, RestoresAreAtomic, Promise!Spec
=============================================================================

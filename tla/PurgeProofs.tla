---------------------------- MODULE PurgeProofs -----------------------------
(***************************************************************************)
(* Nothing is destroyed that was not exported, a purge that has succeeded  *)
(* left nothing, and purges fail only because of faults: for any number of *)
(* projects, payloads, jobs and workers, and any bounds on attempts and    *)
(* faults.                                                                 *)
(***************************************************************************)
EXTENDS Purge, TLAPS

(***************************************************************************)
(* Types of the rows.                                                      *)
(***************************************************************************)
Archives == {Archive(j) : j \in Jobs}
Objects == Payloads \cup Archives
AccountStates == {"active", "disabled", "deleting", "deleted"}
ProjectRows == [status: {"active", "disabled", "deleting", "gone"}, undone: BOOLEAN]
UploadRows == [key: Payloads \cup {None}, pc: {"idle", "checked", "put"}]
JobRows == [kind: {"none", "project", "account"}, phase: {"", "export", "purge"},
            project: Projects \cup {None}, export: Jobs \cup {None},
            status: {"none", "queued", "running", "succeeded", "failed"},
            lease: Workers \cup {None}, expired: BOOLEAN, attempts: 0 .. MaxAttempts,
            failures: Nat, detached: BOOLEAN, keys: SUBSET Objects]
ExportStates == {"none", "pending", "ready", "failed", "purging", "completed"}
ExportRows == [status: ExportStates, expired: BOOLEAN]
Places == {"idle", "claimed", "fetching", "archived", "deleting", "failing"}
WorkerRows == [pc: Places, job: Jobs \cup {None}, todo: SUBSET Objects]

Typed ==
    /\ account \in AccountStates
    /\ project \in [Projects -> ProjectRows]
    /\ rows \subseteq Payloads
    /\ stored \subseteq Objects
    /\ upload \in UploadRows
    /\ job \in [Jobs -> JobRows]
    /\ export \in [Jobs -> ExportRows]
    /\ confirming \in Jobs \cup {None}
    /\ worker \in [Workers -> WorkerRows]

(***************************************************************************)
(* The kinds of jobs, and what a worker is doing for one.                  *)
(***************************************************************************)
IsProjectJob(r) == r.kind = "project"
IsExporter(j, r) == r.kind = "account" /\ r.export = j
IsPurger(j, r) == r.kind = "account" /\ r.export # j

JobOK(j, r) ==
    /\ r.kind = "none" <=> r.status = "none"
    /\ r.kind = "none" => ~r.detached /\ r.phase = ""
    /\ r.kind = "project" => r.project \in Projects /\ r.phase = ""
    /\ r.kind = "account" => r.export \in Jobs
    /\ IsExporter(j, r) => r.phase = "export" /\ ~r.detached
    /\ IsPurger(j, r) => r.phase = IF r.detached THEN "" ELSE "purge"
    /\ r.lease # None <=> r.status = "running"
    /\ ~r.detached => r.keys = {}
    /\ r.detached /\ r.kind = "project" => r.keys \subseteq OfProject(r.project)
    /\ r.detached /\ r.kind = "account" =>
           Archive(r.export) \in r.keys /\ r.keys \subseteq Payloads \cup {Archive(r.export)}
    /\ r.status = "failed" => r.attempts = MaxAttempts
JobsHeld == \A j \in Jobs : JobOK(j, job[j])

WorkerOK(x) ==
    /\ x.pc = "idle" <=> x.job = None
    /\ x.pc # "idle" => job[x.job].kind # "none"
    /\ x.pc \in {"fetching", "archived"} => IsExporter(x.job, job[x.job])
    /\ x.pc = "deleting" => job[x.job].detached /\ x.todo \subseteq job[x.job].keys
WorkersHeld == \A w \in Workers : WorkerOK(worker[w])

(***************************************************************************)
(* Rows and objects.  The keys of a job that detached them belong to       *)
(* projects that are gone, so no upload registers one of them any more.    *)
(***************************************************************************)
Flying == IF upload.pc = "idle" THEN {} ELSE {upload.key}

UploadHeld ==
    /\ upload.pc # "idle" => upload.key \in Payloads
    /\ upload.pc = "put" /\ project[upload.key[1]].status # "gone" => upload.key \in stored
RowsHeld ==
    /\ rows \subseteq stored
    /\ \A p \in Projects : project[p].status = "gone" => rows \cap OfProject(p) = {}
    /\ \A j \in Jobs : job[j].detached /\ job[j].kind = "project"
           => project[job[j].project].status = "gone"
    /\ \A j \in Jobs : job[j].detached /\ job[j].kind = "account"
           => \A p \in Projects : project[p].status = "gone"

\* What a worker has deleted is only there again because of an upload, or an exporter.
DeletedHeld ==
    \A w \in Workers : worker[w].pc = "deleting" =>
        (job[worker[w].job].keys \ worker[w].todo) \cap stored \subseteq orphans \cup Flying

\* Every object is accounted for.
Pending(k) == \E j \in Jobs : /\ job[j].detached /\ job[j].status # "succeeded"
                              /\ k \in job[j].keys
Accounted ==
    /\ \A k \in stored \cap Payloads : k \in rows \cup orphans \cup Flying \/ Pending(k)
    /\ \A j \in Jobs : IsPurger(j, job[j]) /\ job[j].status = "succeeded"
           => Archive(job[j].export) \notin stored \ orphans

(***************************************************************************)
(* At most one purge of the account, and none of a project next to it.     *)
(***************************************************************************)
OnePurge ==
    /\ confirming # None => account \in {"active", "disabled"} /\ NoneActive("project")
    /\ \A i, j \in Jobs : IsPurger(i, job[i]) /\ IsPurger(j, job[j]) => i = j
    /\ \A j \in Jobs : IsPurger(j, job[j]) => account \in {"deleting", "deleted"}
    /\ account \in {"deleting", "deleted"} =>
           \A j \in Jobs : Active(j) => IsPurger(j, job[j])
    /\ \A j \in Jobs : IsPurger(j, job[j]) /\ Active(j) => account = "deleting"

\* Keys are detached once.
DetachedOnce ==
    /\ \A i, j \in Jobs :
           /\ job[i].detached /\ job[i].kind = "project"
           /\ job[j].detached /\ job[j].kind = "project"
           /\ job[i].project = job[j].project
           => i = j
    /\ \A i, j \in Jobs :
           /\ job[i].detached /\ job[i].kind = "project"
           /\ job[j].detached /\ job[j].kind = "account"
           => job[j].keys \cap OfProject(job[i].project) = {}

\* A project purge that waits finds its project "deleting", or taken out of it.
Waiting(j) == job[j].kind = "project" /\ Active(j) /\ ~job[j].detached
WaitingHeld ==
    /\ \A j \in Jobs : Waiting(j) =>
           project[job[j].project].status = "deleting" \/ project[job[j].project].undone
    /\ \A i, j \in Jobs : Waiting(i) /\ Waiting(j) /\ i # j /\ job[i].project = job[j].project
           => project[job[j].project].undone

(***************************************************************************)
(* Exports, from the request to the purge that uses them.                  *)
(***************************************************************************)
ExportsHeld ==
    /\ \A e \in Jobs : export[e].status # "none" => IsExporter(e, job[e])
    /\ \A e \in Jobs : export[e].status = "ready" => Archive(e) \in stored
    /\ \A w \in Workers :
           worker[w].pc = "archived" /\ export[worker[w].job].status = "pending"
               => Archive(worker[w].job) \in stored

ConfirmingHeld ==
    confirming # None =>
        /\ IsExporter(confirming, job[confirming]) /\ job[confirming].status = "succeeded"
        /\ export[confirming].status = "ready"

PurgerHeld ==
    \A j \in Jobs : IsPurger(j, job[j]) =>
        LET e == job[j].export IN
        /\ IsExporter(e, job[e]) /\ job[e].status = "succeeded"
        /\ export[e].status \in {"purging", "completed"}
        /\ job[j].phase = "purge" => Archive(e) \in stored

(***************************************************************************)
(* Attempts.  Each attempt but the one under way has met a fault.          *)
(***************************************************************************)
Clean(j) ==
    LET w == job[j].lease IN
    /\ job[j].status = "running" /\ ~job[j].expired
    /\ worker[w].job = j /\ worker[w].pc # "failing"

Exempt(j) ==
    \/ job[j].kind = "project" /\ project[job[j].project].undone
    \/ job[j].kind = "account" /\ job[j].detached /\ job[j].failures > 0

CountOK(j) ==
    job[j].kind = "project" \/ IsPurger(j, job[j]) =>
        \/ Exempt(j)
        \/ job[j].status = "succeeded"
        \/ job[j].attempts <= job[j].failures
        \/ Clean(j) /\ job[j].attempts <= job[j].failures + 1

RetryOK(j) ==
    IsPurger(j, job[j]) /\ job[j].detached =>
        \/ job[j].failures > 0
        \/ job[j].status = "succeeded"
        \/ Clean(j) /\ worker[job[j].lease].pc = "deleting"

CountHeld == \A j \in Jobs : CountOK(j) /\ RetryOK(j)

PurgeInvariant ==
    /\ Typed
    /\ JobsHeld
    /\ WorkersHeld
    /\ UploadHeld
    /\ RowsHeld
    /\ DeletedHeld
    /\ Accounted
    /\ OnePurge
    /\ DetachedOnce
    /\ WaitingHeld
    /\ ExportsHeld
    /\ ConfirmingHeld
    /\ PurgerHeld
    /\ CountHeld

-----------------------------------------------------------------------------
(***************************************************************************)
(* What a step does to one row, field by field.                            *)
(***************************************************************************)
Only(j) == /\ job' \in [Jobs -> JobRows]
           /\ \A i \in Jobs \ {j} : job'[i] = job[i]

Alike(r, s) == /\ r.kind = s.kind /\ r.phase = s.phase /\ r.project = s.project
               /\ r.export = s.export /\ r.detached = s.detached /\ r.keys = s.keys

LEMMA AttemptsBounded == MaxAttempts \in Nat /\ 0 \in 0 .. MaxAttempts
BY PurgeAssumption DEF PurgeAssumption

LEMMA SetRow ==
    ASSUME Typed, NEW j \in Jobs, NEW r \in JobRows, job' = [job EXCEPT ![j] = r]
    PROVE  Only(j) /\ job'[j] = r
BY DEF Typed, Only

LEMMA ClaimRow ==
    ASSUME Typed, NEW w \in Workers, NEW j \in Jobs, Claim(w, j)
    PROVE  /\ Only(j) /\ Alike(job'[j], job[j])
           /\ job'[j].status = "running" /\ job'[j].lease = w /\ ~job'[j].expired
           /\ job'[j].failures = job[j].failures
           /\ job'[j].attempts <= job[j].attempts + 1
<1> DEFINE a == IF job[j].attempts < MaxAttempts THEN job[j].attempts + 1 ELSE job[j].attempts
           r == [job[j] EXCEPT !.status = "running", !.lease = w, !.expired = FALSE,
                               !.attempts = a]
<1>1. job[j] \in JobRows /\ job[j].attempts \in 0 .. MaxAttempts /\ MaxAttempts \in Nat
  BY PurgeAssumption DEF PurgeAssumption, Typed, JobRows
<1>2. a \in 0 .. MaxAttempts /\ a <= job[j].attempts + 1
  BY <1>1
<1>3. job' = [job EXCEPT ![j] = r]
  BY DEF Claim, Typed
<1> HIDE DEF a
<1>4. /\ r \in JobRows /\ Alike(r, job[j])
      /\ r.status = "running" /\ r.lease = w /\ ~r.expired
      /\ r.failures = job[j].failures /\ r.attempts = a
  BY <1>1, <1>2 DEF JobRows, Alike
<1> HIDE DEF r
<1> QED
  BY <1>2, <1>3, <1>4, SetRow

LEMMA FaultRow ==
    ASSUME Typed, NEW j \in Jobs, Fault(j)
    PROVE  /\ Only(j) /\ Alike(job'[j], job[j])
           /\ job'[j].status = job[j].status /\ job'[j].lease = job[j].lease
           /\ job'[j].expired = job[j].expired
           /\ job'[j].failures = job[j].failures + 1
           /\ job'[j].attempts = job[j].attempts
<1> DEFINE n == job[j].failures + 1
           r == [job[j] EXCEPT !.failures = n]
<1>1. job[j] \in JobRows /\ n \in Nat
  <2>1. job[j] \in JobRows
    BY DEF Typed
  <2>2. job[j].failures \in Nat
    BY <2>1 DEF JobRows
  <2> QED
    BY <2>1, <2>2
<1>2. job' = [job EXCEPT ![j] = r]
  BY DEF Fault, Typed
<1> HIDE DEF n
<1>3. /\ r \in JobRows /\ Alike(r, job[j])
      /\ r.status = job[j].status /\ r.lease = job[j].lease /\ r.expired = job[j].expired
      /\ r.failures = n /\ r.attempts = job[j].attempts
  BY <1>1 DEF JobRows, Alike
<1> HIDE DEF r
<1> QED
  BY <1>2, <1>3, SetRow DEF n

LEMMA ExpireRow ==
    ASSUME Typed, NEW j \in Jobs, LeaseExpires(j)
    PROVE  /\ Only(j) /\ Alike(job'[j], job[j])
           /\ job'[j].status = "running" /\ job[j].status = "running"
           /\ job'[j].lease = job[j].lease /\ job'[j].expired
           /\ job'[j].attempts = job[j].attempts
           /\ job'[j].failures >= job[j].failures
           /\ ~Abandoned(j) => job'[j].failures = job[j].failures + 1
<1>1. PICK n \in {job[j].failures, job[j].failures + 1} :
          /\ job' = [job EXCEPT ![j] = [job[j] EXCEPT !.expired = TRUE, !.failures = n]]
          /\ ~Abandoned(j) => n = job[j].failures + 1
  <2>1. job[j] \in JobRows
    BY DEF Typed
  <2>2. CASE ~Abandoned(j)
    BY <2>1, <2>2 DEF LeaseExpires, Typed, JobRows
  <2>3. CASE Abandoned(j)
    <3>1. [job[j] EXCEPT !.expired = TRUE, !.failures = job[j].failures]
            = [job[j] EXCEPT !.expired = TRUE]
      BY <2>1 DEF JobRows
    <3> QED
      BY <2>3, <3>1 DEF LeaseExpires, Typed
  <2> QED
    BY <2>2, <2>3
<1> DEFINE r == [job[j] EXCEPT !.expired = TRUE, !.failures = n]
<1>2. job[j] \in JobRows /\ n \in Nat /\ job[j].failures <= n
  <2>1. job[j] \in JobRows
    BY DEF Typed
  <2>2. job[j].failures \in Nat
    BY <2>1 DEF JobRows
  <2> QED
    BY <2>1, <2>2
<1>3. /\ r \in JobRows /\ Alike(r, job[j])
      /\ r.status = job[j].status /\ r.lease = job[j].lease /\ r.expired
      /\ r.failures = n /\ r.attempts = job[j].attempts
  BY <1>2 DEF JobRows, Alike
<1>4. job' = [job EXCEPT ![j] = r]
  BY <1>1
<1>5. job[j].status = "running"
  BY DEF LeaseExpires
<1> HIDE DEF r
<1> QED
  BY <1>1, <1>2, <1>3, <1>4, <1>5, SetRow

LEMMA SucceedRow ==
    ASSUME Typed, NEW w \in Workers, worker[w].job \in Jobs,
           Sets(w, [Mine(w) EXCEPT !.status = "succeeded", !.lease = None])
    PROVE  LET j == worker[w].job IN
           /\ Only(j) /\ Alike(job'[j], job[j])
           /\ job'[j].status = "succeeded" /\ job'[j].lease = None
           /\ job'[j].attempts = job[j].attempts /\ job'[j].failures = job[j].failures
<1> DEFINE j == worker[w].job
           r == [job[j] EXCEPT !.status = "succeeded", !.lease = None]
<1>1. job[j] \in JobRows
  BY DEF Typed
<1>2. job' = [job EXCEPT ![j] = r]
  BY DEF Sets, Mine
<1>3. /\ r \in JobRows /\ Alike(r, job[j])
      /\ r.status = "succeeded" /\ r.lease = None
      /\ r.attempts = job[j].attempts /\ r.failures = job[j].failures
  BY <1>1 DEF JobRows, Alike
<1> HIDE DEF r
<1> QED
  BY <1>2, <1>3, SetRow

LEMMA FailRow ==
    ASSUME Typed, NEW w \in Workers, worker[w].job \in Jobs, Fail(w)
    PROVE  LET j == worker[w].job IN
           /\ ~Owns(w) => UNCHANGED <<job, export>>
           /\ Owns(w) =>
                /\ Only(j) /\ Alike(job'[j], job[j])
                /\ job'[j].status = IF job[j].attempts = MaxAttempts THEN "failed" ELSE "queued"
                /\ job'[j].lease = None /\ ~job'[j].expired
                /\ job'[j].attempts = job[j].attempts /\ job'[j].failures = job[j].failures
<1> DEFINE j == worker[w].job
           s == IF job[j].attempts = MaxAttempts THEN "failed" ELSE "queued"
           r == [job[j] EXCEPT !.status = s, !.lease = None, !.expired = FALSE]
<1>1. job[j] \in JobRows /\ s \in {"failed", "queued"}
  BY DEF Typed
<1>2. ~Owns(w) => UNCHANGED <<job, export>>
  BY DEF Fail
<1>3. ASSUME Owns(w) PROVE job' = [job EXCEPT ![j] = r]
  BY <1>3 DEF Fail, Sets, Mine
<1> HIDE DEF s
<1>4. /\ r \in JobRows /\ Alike(r, job[j])
      /\ r.status = s /\ r.lease = None /\ ~r.expired
      /\ r.attempts = job[j].attempts /\ r.failures = job[j].failures
  BY <1>1 DEF JobRows, Alike
<1> HIDE DEF r
<1> QED
  BY <1>2, <1>3, <1>4, SetRow DEF s

LEMMA DetachRow ==
    ASSUME Typed, NEW w \in Workers, worker[w].job \in Jobs, NEW keys \in SUBSET Objects,
           Sets(w, Detached(w, keys))
    PROVE  LET j == worker[w].job IN
           /\ Only(j)
           /\ job'[j].kind = job[j].kind /\ job'[j].project = job[j].project
           /\ job'[j].export = job[j].export
           /\ job'[j].detached /\ job'[j].phase = "" /\ job'[j].keys = keys
           /\ job'[j].status = job[j].status /\ job'[j].lease = job[j].lease
           /\ job'[j].expired = job[j].expired
           /\ job'[j].attempts = job[j].attempts /\ job'[j].failures = job[j].failures
<1> DEFINE j == worker[w].job
           r == [job[j] EXCEPT !.detached = TRUE, !.phase = "", !.keys = keys]
<1>1. job[j] \in JobRows
  BY DEF Typed
<1>2. job' = [job EXCEPT ![j] = r]
  BY DEF Sets, Mine, Detached
<1>3. /\ r \in JobRows /\ r.detached /\ r.phase = "" /\ r.keys = keys
      /\ r.kind = job[j].kind /\ r.project = job[j].project /\ r.export = job[j].export
      /\ r.status = job[j].status /\ r.lease = job[j].lease /\ r.expired = job[j].expired
      /\ r.attempts = job[j].attempts /\ r.failures = job[j].failures
  BY <1>1 DEF JobRows
<1> HIDE DEF r
<1> QED
  BY <1>2, <1>3, SetRow

\* A job that was just made: of an owner's purge, an export, or an account's purge.
Made(j, kind, phase, p, e) ==
    /\ Only(j)
    /\ job'[j].kind = kind /\ job'[j].phase = phase /\ job'[j].project = p
    /\ job'[j].export = e /\ job'[j].status = "queued" /\ job'[j].lease = None
    /\ ~job'[j].expired /\ job'[j].attempts = 0 /\ job'[j].failures = 0
    /\ ~job'[j].detached /\ job'[j].keys = {}

LEMMA GoesRow ==
    ASSUME Typed, NEW w \in Workers, NEW pc \in Places, NEW todo \in SUBSET Objects,
           Goes(w, pc, todo)
    PROVE  /\ worker' \in [Workers -> WorkerRows]
           /\ \A v \in Workers \ {w} : worker'[v] = worker[v]
           /\ worker'[w].pc = pc /\ worker'[w].todo = todo
           /\ worker'[w].job = worker[w].job
<1> DEFINE x == [worker[w] EXCEPT !.pc = pc, !.todo = todo]
<1>1. worker[w] \in WorkerRows
  BY DEF Typed
<1>2. x \in WorkerRows /\ x.pc = pc /\ x.todo = todo /\ x.job = worker[w].job
  BY <1>1 DEF WorkerRows
<1>3. worker' = [worker EXCEPT ![w] = x]
  BY DEF Goes, Typed
<1> HIDE DEF x
<1> QED
  BY <1>2, <1>3 DEF Typed

LEMMA RestsRow ==
    ASSUME Typed, NEW w \in Workers, Rests(w)
    PROVE  /\ worker' \in [Workers -> WorkerRows]
           /\ \A v \in Workers \ {w} : worker'[v] = worker[v]
           /\ worker'[w].pc = "idle" /\ worker'[w].job = None
<1>1. AtRest \in WorkerRows /\ AtRest.pc = "idle" /\ AtRest.job = None
  BY DEF AtRest, WorkerRows, Places
<1> QED
  BY <1>1 DEF Rests, Typed

-----------------------------------------------------------------------------
(***************************************************************************)
(* Which steps change which variable.                                      *)
(***************************************************************************)
Succeeds(w) ==
    /\ Holds(w)
    /\ Sets(w, [Mine(w) EXCEPT !.status = "succeeded", !.lease = None])
    /\ Rests(w)
    /\ \/ CompleteExport(w)
       \/ CompleteAccountPurge(w)
       \/ CompleteProjectPurge(w)

DetachesAccount(w) == PrepareAccountPurge(w) /\ Holds(w) /\ account = "deleting"
DetachesProject(w) == /\ PrepareProjectPurge(w) /\ Holds(w) /\ ~Mine(w).detached
                      /\ project[Mine(w).project].status = "deleting"

LEMMA Working ==
    ASSUME Typed, WorkersHeld, NEW w \in Workers, worker[w].pc # "idle"
    PROVE  worker[w].job \in Jobs /\ worker[w].pc \in Places /\ worker[w].todo \subseteq Objects
<1>1. worker[w] \in WorkerRows /\ worker[w].job # None
  BY DEF Typed, WorkersHeld, WorkerOK
<1> QED
  BY <1>1 DEF WorkerRows

LEMMA NoneHasNoJob == None \notin Jobs /\ None \notin Workers /\ None \notin Projects
BY PurgeAssumption DEF PurgeAssumption

LEMMA WhoChangesJobs ==
    ASSUME [Next]_vars
    PROVE  \/ UNCHANGED job
           \/ \E p \in Projects, j \in Jobs : EnqueueProjectPurge(p, j)
           \/ \E j \in Jobs : RequestExport(j) \/ Confirm(j) \/ LeaseExpires(j)
           \/ \E w \in Workers, j \in Jobs : Claim(w, j)
           \/ \E w \in Workers : \/ Succeeds(w) \/ DetachesAccount(w) \/ DetachesProject(w)
                                 \/ Fail(w) \/ StepFails(w) \/ Crash(w)
<1>1. CASE Request
  BY <1>1 DEF Request, StartUpload, PutObject, RegisterPayload, DisableProject,
              SetAccountStatus, StartConfirm, ConfirmFails
<1>2. ASSUME NEW e \in Jobs, ExportLapses(e) PROVE UNCHANGED job
  BY <1>2 DEF ExportLapses
<1>3. ASSUME NEW w \in Workers, Step(w)
      PROVE  UNCHANGED job \/ Succeeds(w) \/ DetachesAccount(w) \/ DetachesProject(w) \/ Fail(w)
  <2>1. CASE PrepareExport(w) \/ StoreArchive(w) \/ RefusePhase(w)
    BY <2>1 DEF PrepareExport, StoreArchive, RefusePhase
  <2>2. CASE \E k \in worker[w].todo : FetchPayload(w, k) \/ DeleteKey(w, k)
    BY <2>2 DEF FetchPayload, DeleteKey
  <2>3. CASE CompleteExport(w)
    BY <2>3 DEF CompleteExport, Succeeds
  <2>4. CASE CompleteAccountPurge(w)
    BY <2>4 DEF CompleteAccountPurge, Succeeds
  <2>5. CASE CompleteProjectPurge(w)
    BY <2>5 DEF CompleteProjectPurge, Succeeds
  <2>6. CASE PrepareAccountPurge(w)
    BY <2>6 DEF PrepareAccountPurge, DetachesAccount
  <2>7. CASE PrepareProjectPurge(w)
    BY <2>7 DEF PrepareProjectPurge, DetachesProject
  <2> QED
    BY <1>3, <2>1, <2>2, <2>3, <2>4, <2>5, <2>6, <2>7 DEF Step
<1>4. CASE UNCHANGED vars
  BY <1>4 DEF vars
<1> QED
  BY <1>1, <1>2, <1>3, <1>4 DEF Next

\* A row that is changed but remains what it was.
DetachKeys(w) == IF Mine(w).kind = "account" THEN rows \cup {Archive(Mine(w).export)}
                                             ELSE rows \cap OfProject(Mine(w).project)

DetachEffect(w, j) ==
    /\ j \in Jobs /\ Only(j)
    /\ DetachesAccount(w) => job[j].kind = "account" /\ IsPurger(j, job[j])
                             /\ job[j].phase = "purge"
    /\ ~DetachesAccount(w) => job[j].kind = "project"
    /\ ~job[j].detached
    /\ job[j].status = "running" /\ job[j].lease = w /\ ~job[j].expired
    /\ job'[j].kind = job[j].kind /\ job'[j].project = job[j].project
    /\ job'[j].export = job[j].export
    /\ job'[j].detached /\ job'[j].phase = "" /\ job'[j].keys = DetachKeys(w)
    /\ job'[j].status = "running" /\ job'[j].lease = w /\ ~job'[j].expired
    /\ job'[j].attempts = job[j].attempts /\ job'[j].failures = job[j].failures
    /\ DetachKeys(w) \subseteq Objects
    /\ Goes(w, "deleting", DetachKeys(w))

LEMMA DetachesRow ==
    ASSUME Typed, JobsHeld, WorkersHeld, NEW w \in Workers,
           DetachesAccount(w) \/ DetachesProject(w)
    PROVE  DetachEffect(w, worker[w].job)
<1> DEFINE j == worker[w].job
<1>1. worker[w].pc = "claimed" /\ j \in Jobs
  BY Working DEF DetachesAccount, DetachesProject, PrepareAccountPurge, PrepareProjectPurge, At
<1>2. job[j] \in JobRows /\ JobOK(j, job[j]) /\ rows \subseteq Payloads
  BY <1>1 DEF Typed, JobsHeld
<1>3. job[j].status = "running" /\ job[j].lease = w /\ ~job[j].expired
  BY DEF DetachesAccount, DetachesProject, Holds, Owns, Mine
<1>4. CASE DetachesAccount(w)
  <2>1. job[j].kind = "account" /\ job[j].phase = "purge"
    BY <1>4 DEF DetachesAccount, PrepareAccountPurge, Mine
  <2>2. job[j].export \in Jobs /\ IsPurger(j, job[j]) /\ ~job[j].detached
    BY <1>2, <2>1 DEF JobOK, IsPurger, IsExporter
  <2>3. DetachKeys(w) = rows \cup {Archive(job[j].export)} /\ DetachKeys(w) \subseteq Objects
    BY <1>2, <2>1, <2>2 DEF DetachKeys, Mine, Objects, Archives
  <2>4. Sets(w, Detached(w, DetachKeys(w))) /\ Goes(w, "deleting", job'[j].keys)
    BY <1>4, <2>3 DEF DetachesAccount, PrepareAccountPurge, Mine
  <2> HIDE DEF j
  <2>5. job'[j].keys = DetachKeys(w)
    BY <1>1, <2>3, <2>4, DetachRow DEF j
  <2>6. Goes(w, "deleting", DetachKeys(w))
    BY <2>4, <2>5
  <2> QED
    BY <1>1, <1>3, <1>4, <2>1, <2>2, <2>3, <2>4, <2>6, DetachRow DEF j, DetachEffect
<1>5. CASE ~DetachesAccount(w) /\ DetachesProject(w)
  <2>1. job[j].kind = "project" /\ ~job[j].detached
    BY <1>5 DEF DetachesProject, PrepareProjectPurge, Mine
  <2>2. DetachKeys(w) = rows \cap OfProject(job[j].project) /\ DetachKeys(w) \subseteq Objects
    BY <1>2, <2>1 DEF DetachKeys, Mine, Objects
  <2>3. Sets(w, Detached(w, DetachKeys(w))) /\ Goes(w, "deleting", DetachKeys(w))
    BY <1>5, <2>2 DEF DetachesProject, PrepareProjectPurge, Mine
  <2> HIDE DEF j
  <2> QED
    BY <1>1, <1>3, <1>5, <2>1, <2>2, <2>3, DetachRow DEF j, DetachEffect
<1> QED
  BY <1>4, <1>5

-----------------------------------------------------------------------------
(***************************************************************************)
(* Jobs.                                                                   *)
(***************************************************************************)
LEMMA OneJob ==
    ASSUME Typed, JobsHeld, NEW j \in Jobs, Only(j), JobOK(j, job'[j])
    PROVE  job' \in [Jobs -> JobRows] /\ JobsHeld'
<1>1. \A i \in Jobs : JobOK(i, job'[i])
  BY DEF Only, JobsHeld
<1> QED
  BY <1>1 DEF Only, JobsHeld, JobOK, IsExporter, IsPurger

LEMMA AlikeOK ==
    ASSUME NEW j \in Jobs, NEW r, NEW s, Alike(r, s), JobOK(j, s),
           s.status # "none", r.status # "none",
           r.lease # None <=> r.status = "running",
           r.status = "failed" => r.attempts = MaxAttempts
    PROVE  JobOK(j, r)
BY DEF Alike, JobOK, IsExporter, IsPurger

LEMMA EnqueueMakes ==
    ASSUME Typed, NEW p \in Projects, NEW j \in Jobs, EnqueueProjectPurge(p, j)
    PROVE  Made(j, "project", "", p, None)
<1> DEFINE r == [NoJob EXCEPT !.kind = "project", !.project = p, !.status = "queued"]
<1>1. 0 \in 0 .. MaxAttempts
  BY AttemptsBounded
<1>2. job' = [job EXCEPT ![j] = r]
  BY DEF EnqueueProjectPurge
<1>3. /\ r \in JobRows
      /\ r.kind = "project" /\ r.phase = "" /\ r.project = p
      /\ r.export = None /\ r.status = "queued" /\ r.lease = None
      /\ ~r.expired /\ r.attempts = 0 /\ r.failures = 0 /\ ~r.detached /\ r.keys = {}
  BY AttemptsBounded, <1>1 DEF JobRows, NoJob
<1> HIDE DEF r
<1> QED
  BY <1>1, <1>2, <1>3, SetRow DEF Made

LEMMA RequestMakes ==
    ASSUME Typed, NEW j \in Jobs, RequestExport(j)
    PROVE  Made(j, "account", "export", None, j)
<1> DEFINE r == [NoJob EXCEPT !.kind = "account", !.phase = "export", !.export = j,
                              !.status = "queued"]
<1>1. 0 \in 0 .. MaxAttempts
  BY AttemptsBounded
<1>2. job' = [job EXCEPT ![j] = r]
  BY DEF RequestExport
<1>3. /\ r \in JobRows
      /\ r.kind = "account" /\ r.phase = "export" /\ r.project = None
      /\ r.export = j /\ r.status = "queued" /\ r.lease = None
      /\ ~r.expired /\ r.attempts = 0 /\ r.failures = 0 /\ ~r.detached /\ r.keys = {}
  BY AttemptsBounded, <1>1 DEF JobRows, NoJob
<1> HIDE DEF r
<1> QED
  BY <1>1, <1>2, <1>3, SetRow DEF Made

LEMMA ConfirmMakes ==
    ASSUME Typed, ConfirmingHeld, NEW j \in Jobs, Confirm(j)
    PROVE  /\ Made(j, "account", "purge", None, confirming)
           /\ confirming \in Jobs /\ confirming # j
<1> DEFINE r == [NoJob EXCEPT !.kind = "account", !.phase = "purge", !.export = confirming,
                              !.status = "queued"]
<1>1. confirming \in Jobs /\ confirming # j
  BY DEF Confirm, Typed, ConfirmingHeld, IsExporter, Unused
<1>2. job' = [job EXCEPT ![j] = r]
  BY DEF Confirm
<1>3. /\ r \in JobRows
      /\ r.kind = "account" /\ r.phase = "purge" /\ r.project = None
      /\ r.export = confirming /\ r.status = "queued" /\ r.lease = None
      /\ ~r.expired /\ r.attempts = 0 /\ r.failures = 0 /\ ~r.detached /\ r.keys = {}
  BY AttemptsBounded, <1>1 DEF JobRows, NoJob
<1> HIDE DEF r
<1> QED
  BY <1>1, <1>2, <1>3, SetRow DEF Made

LEMMA NewOK ==
    ASSUME NEW j \in Jobs, NEW kind, NEW phase, NEW p, NEW e, Made(j, kind, phase, p, e),
           \/ kind = "project" /\ phase = "" /\ p \in Projects
           \/ kind = "account" /\ phase = "export" /\ e = j
           \/ kind = "account" /\ phase = "purge" /\ e \in Jobs /\ e # j
    PROVE  JobOK(j, job'[j]) /\ Only(j)
<1> DEFINE r == job'[j]
<1>1. /\ r.kind = kind /\ r.phase = phase /\ r.project = p /\ r.export = e
      /\ r.status = "queued" /\ r.lease = None /\ ~r.detached /\ r.keys = {} /\ Only(j)
  BY DEF Made
<1> HIDE DEF r
<1>2. JobOK(j, r)
  BY <1>1 DEF JobOK, IsExporter, IsPurger
<1> QED
  BY <1>1, <1>2 DEF r

LEMMA JobsStep ==
    ASSUME Typed, JobsHeld, WorkersHeld, ConfirmingHeld, [Next]_vars
    PROVE  job' \in [Jobs -> JobRows] /\ JobsHeld'
<1>1. CASE UNCHANGED job
  BY <1>1 DEF Typed, JobsHeld, JobOK, IsExporter, IsPurger
<1>2. ASSUME NEW p \in Projects, NEW j \in Jobs, EnqueueProjectPurge(p, j)
      PROVE  job' \in [Jobs -> JobRows] /\ JobsHeld'
  <2>1. Made(j, "project", "", p, None)
    BY <1>2, EnqueueMakes
  <2>2. JobOK(j, job'[j]) /\ Only(j)
    BY <2>1, NewOK
  <2> QED
    BY <2>2, OneJob
<1>3. ASSUME NEW j \in Jobs, RequestExport(j)
      PROVE  job' \in [Jobs -> JobRows] /\ JobsHeld'
  <2>1. Made(j, "account", "export", None, j)
    BY <1>3, RequestMakes
  <2>2. JobOK(j, job'[j]) /\ Only(j)
    BY <2>1, NewOK
  <2> QED
    BY <2>2, OneJob
<1>4. ASSUME NEW j \in Jobs, Confirm(j)
      PROVE  job' \in [Jobs -> JobRows] /\ JobsHeld'
  <2>1. Made(j, "account", "purge", None, confirming) /\ confirming \in Jobs /\ confirming # j
    BY <1>4, ConfirmMakes
  <2>2. JobOK(j, job'[j]) /\ Only(j)
    BY <2>1, NewOK
  <2> QED
    BY <2>2, OneJob
<1>5. ASSUME NEW j \in Jobs, LeaseExpires(j)
      PROVE  job' \in [Jobs -> JobRows] /\ JobsHeld'
  <2>1. JobOK(j, job[j]) /\ job[j].status = "running" /\ job[j].lease # None
    BY <1>5 DEF JobsHeld, JobOK, LeaseExpires
  <2>2. Only(j) /\ JobOK(j, job'[j])
    BY <1>5, <2>1, ExpireRow, AlikeOK
  <2> QED
    BY <2>2, OneJob
<1>6. ASSUME NEW w \in Workers, NEW j \in Jobs, Claim(w, j)
      PROVE  job' \in [Jobs -> JobRows] /\ JobsHeld'
  <2>1. job[j].status \in {"queued", "running"}
    BY <1>6 DEF Claim
  <2>2. Only(j) /\ JobOK(j, job'[j])
    BY <1>6, <2>1, ClaimRow, AlikeOK, NoneHasNoJob DEF JobsHeld
  <2> QED
    BY <2>2, OneJob
<1>7. ASSUME NEW w \in Workers, Succeeds(w)
      PROVE  job' \in [Jobs -> JobRows] /\ JobsHeld'
  <2>1. worker[w].job \in Jobs /\ job[worker[w].job].status = "running"
    BY <1>7, Working DEF Succeeds, CompleteExport, CompleteAccountPurge, CompleteProjectPurge,
                         At, Holds, Owns, Mine
  <2>2. Only(worker[w].job) /\ JobOK(worker[w].job, job'[worker[w].job])
    BY <1>7, <2>1, SucceedRow, AlikeOK DEF JobsHeld, Succeeds
  <2> QED
    BY <2>1, <2>2, OneJob
<1>8. ASSUME NEW w \in Workers, DetachesAccount(w) \/ DetachesProject(w)
      PROVE  job' \in [Jobs -> JobRows] /\ JobsHeld'
  <2> DEFINE j == worker[w].job
  <2> HIDE DEF j
  <2>1. DetachEffect(w, j) /\ j \in Jobs
    BY <1>8, DetachesRow DEF j, DetachEffect
  <2>2. Mine(w) = job[j] /\ rows \subseteq Payloads /\ JobOK(j, job[j])
    BY <2>1 DEF Mine, Typed, JobsHeld, j
  <2>3. JobOK(j, job'[j])
    <3>1. CASE job[j].kind = "account"
      BY <2>1, <2>2, <3>1, NoneHasNoJob DEF JobOK, IsExporter, IsPurger, DetachKeys, DetachEffect
    <3>2. CASE job[j].kind = "project"
      BY <2>1, <2>2, <3>2, NoneHasNoJob DEF JobOK, IsExporter, IsPurger, DetachKeys, DetachEffect
    <3> QED
      BY <2>1, <3>1, <3>2 DEF DetachEffect
  <2> QED
    BY <2>1, <2>3, OneJob DEF DetachEffect
<1>9. ASSUME NEW w \in Workers, Fail(w)
      PROVE  job' \in [Jobs -> JobRows] /\ JobsHeld'
  <2> DEFINE j == worker[w].job
  <2>1. j \in Jobs
    BY <1>9, Working DEF Fail, At
  <2>2. CASE ~Owns(w)
    BY <1>9, <2>1, <2>2, <1>1, FailRow
  <2>3. CASE Owns(w)
    <3>1. job[j].status = "running"
      BY <2>3 DEF Owns, Mine
    <3> HIDE DEF j
    <3>2. Only(j) /\ JobOK(j, job'[j])
      BY <1>9, <2>1, <2>3, <3>1, FailRow, AlikeOK DEF JobsHeld, j
    <3> QED
      BY <2>1, <3>2, OneJob
  <2> QED
    BY <2>2, <2>3
<1>10. ASSUME NEW w \in Workers, StepFails(w) \/ Crash(w)
       PROVE  job' \in [Jobs -> JobRows] /\ JobsHeld'
  <2> DEFINE j == worker[w].job
  <2>1. j \in Jobs /\ Fault(j) /\ job[j].kind # "none"
    BY <1>10, Working DEF StepFails, Crash, At, WorkersHeld, WorkerOK
  <2>2. /\ JobOK(j, job[j]) /\ job[j].status # "none"
        /\ job[j].lease # None <=> job[j].status = "running"
        /\ job[j].status = "failed" => job[j].attempts = MaxAttempts
    BY <2>1 DEF JobsHeld, JobOK
  <2>3. Only(j) /\ JobOK(j, job'[j])
    BY <2>1, <2>2, FaultRow, AlikeOK
  <2> QED
    BY <2>1, <2>3, OneJob
<1> QED
  BY <1>1, <1>2, <1>3, <1>4, <1>5, <1>6, <1>7, <1>8, <1>9, <1>10, WhoChangesJobs

\* What becomes of the rows of jobs: a job stays what it is, keys stay detached, and a job
\* that has ended stays ended.
Kept(j) ==
    job[j].kind # "none" =>
        /\ job'[j].kind = job[j].kind /\ job'[j].project = job[j].project
        /\ job'[j].export = job[j].export
        /\ job[j].detached => job'[j].detached /\ job'[j].keys = job[j].keys
        /\ job'[j].status \in {"queued", "running"} => job[j].status \in {"queued", "running"}
        /\ job[j].status \in {"succeeded", "failed"} => job'[j].status = job[j].status

LEMMA OnlyKept ==
    ASSUME NEW j \in Jobs, Only(j), Kept(j)
    PROVE  \A i \in Jobs : Kept(i)
BY DEF Only, Kept

LEMMA JobsKept ==
    ASSUME Typed, JobsHeld, WorkersHeld, ConfirmingHeld, [Next]_vars
    PROVE  \A j \in Jobs : Kept(j)
<1>1. CASE UNCHANGED job
  BY <1>1 DEF Kept
<1>2. ASSUME NEW j \in Jobs, NEW kind, NEW phase, NEW p, NEW e, Made(j, kind, phase, p, e),
             job[j].kind = "none"
      PROVE  \A i \in Jobs : Kept(i)
  BY <1>2, OnlyKept DEF Made, Kept
<1>3. ASSUME NEW p \in Projects, NEW j \in Jobs, EnqueueProjectPurge(p, j)
      PROVE  \A i \in Jobs : Kept(i)
  BY <1>2, <1>3, EnqueueMakes DEF EnqueueProjectPurge, Unused
<1>4. ASSUME NEW j \in Jobs, RequestExport(j) PROVE \A i \in Jobs : Kept(i)
  BY <1>2, <1>4, RequestMakes DEF RequestExport, Unused
<1>5. ASSUME NEW j \in Jobs, Confirm(j) PROVE \A i \in Jobs : Kept(i)
  BY <1>2, <1>5, ConfirmMakes DEF Confirm, Unused
<1>6. ASSUME NEW j \in Jobs, LeaseExpires(j) PROVE \A i \in Jobs : Kept(i)
  BY <1>6, ExpireRow, OnlyKept DEF Alike, Kept
<1>7. ASSUME NEW w \in Workers, NEW j \in Jobs, Claim(w, j) PROVE \A i \in Jobs : Kept(i)
  <2>1. job[j].status \in {"queued", "running"}
    BY <1>7 DEF Claim
  <2> QED
    BY <1>7, <2>1, ClaimRow, OnlyKept DEF Alike, Kept
<1>8. ASSUME NEW w \in Workers, Succeeds(w) PROVE \A i \in Jobs : Kept(i)
  <2>1. worker[w].job \in Jobs /\ job[worker[w].job].status = "running"
    BY <1>8, Working DEF Succeeds, CompleteExport, CompleteAccountPurge, CompleteProjectPurge,
                         At, Holds, Owns, Mine
  <2> QED
    BY <1>8, <2>1, SucceedRow, OnlyKept DEF Alike, Kept, Succeeds
<1>9. ASSUME NEW w \in Workers, DetachesAccount(w) \/ DetachesProject(w)
      PROVE  \A i \in Jobs : Kept(i)
  BY <1>9, DetachesRow, OnlyKept DEF DetachEffect, Kept
<1>10. ASSUME NEW w \in Workers, Fail(w) PROVE \A i \in Jobs : Kept(i)
  <2> DEFINE j == worker[w].job
  <2>1. j \in Jobs
    BY <1>10, Working DEF Fail, At
  <2>2. CASE ~Owns(w)
    BY <1>10, <2>1, <2>2, <1>1, FailRow
  <2>3. CASE Owns(w)
    <3>1. job[j].status = "running"
      BY <2>3 DEF Owns, Mine
    <3> HIDE DEF j
    <3>2. Only(j) /\ Alike(job'[j], job[j])
      BY <1>10, <2>1, <2>3, FailRow DEF j
    <3> QED
      BY <2>1, <3>1, <3>2, OnlyKept DEF Alike, Kept
  <2> QED
    BY <2>2, <2>3
<1>11. ASSUME NEW w \in Workers, StepFails(w) \/ Crash(w) PROVE \A i \in Jobs : Kept(i)
  <2> DEFINE j == worker[w].job
  <2>1. j \in Jobs /\ Fault(j)
    BY <1>11, Working DEF StepFails, Crash, At
  <2> QED
    BY <2>1, FaultRow, OnlyKept DEF Alike, Kept
<1> QED
  BY <1>1, <1>3, <1>4, <1>5, <1>6, <1>7, <1>8, <1>9, <1>10, <1>11, WhoChangesJobs

-----------------------------------------------------------------------------
(***************************************************************************)
(* Workers.                                                                *)
(***************************************************************************)
Moves(w) ==
    /\ worker' \in [Workers -> WorkerRows]
    /\ \A v \in Workers \ {w} : worker'[v] = worker[v]

LEMMA Moved ==
    ASSUME Typed, WorkersHeld, \A j \in Jobs : Kept(j), NEW w \in Workers, Moves(w),
           WorkerOK(worker[w])'
    PROVE  WorkersHeld'
<1> SUFFICES ASSUME NEW v \in Workers PROVE WorkerOK(worker[v])'
  BY DEF WorkersHeld
<1>1. CASE v = w
  BY <1>1
<1>2. CASE v # w
  <2> DEFINE x == worker[v]
             j == x.job
  <2>1. worker'[v] = x /\ WorkerOK(x) /\ x.pc \in Places
    BY <1>2 DEF Moves, WorkersHeld, Typed, WorkerRows
  <2>2. CASE x.pc = "idle"
    BY <2>1, <2>2 DEF WorkerOK
  <2>3. CASE x.pc # "idle"
    <3>1. j \in Jobs
      BY <2>3, Working
    <3> HIDE DEF j
    <3>2. Kept(j) /\ job[j].kind # "none"
      BY <2>1, <2>3, <3>1 DEF WorkerOK, j
    <3> QED
      BY <2>1, <2>3, <3>2 DEF WorkerOK, Kept, IsExporter, j
  <2> QED
    BY <2>2, <2>3
<1> QED
  BY <1>1, <1>2

LEMMA UnmovedWorkers ==
    ASSUME Typed, WorkersHeld, \A j \in Jobs : Kept(j), UNCHANGED worker
    PROVE  worker' \in [Workers -> WorkerRows] /\ WorkersHeld'
<1>1. worker' \in [Workers -> WorkerRows]
  BY DEF Typed
<1>2. ASSUME NEW v \in Workers PROVE WorkerOK(worker[v])'
  <2> DEFINE x == worker[v]
             j == x.job
  <2>1. worker'[v] = x /\ WorkerOK(x)
    BY DEF WorkersHeld
  <2>2. CASE x.pc = "idle"
    BY <2>1, <2>2 DEF WorkerOK
  <2>3. CASE x.pc # "idle"
    <3>1. j \in Jobs
      BY <2>3, Working
    <3> HIDE DEF j
    <3>2. Kept(j) /\ job[j].kind # "none"
      BY <2>1, <2>3, <3>1 DEF WorkerOK, j
    <3> QED
      BY <2>1, <2>3, <3>2 DEF WorkerOK, Kept, IsExporter, j
  <2> QED
    BY <2>2, <2>3
<1> QED
  BY <1>1, <1>2 DEF WorkersHeld

\* A worker that stays at work, at a place that asks nothing new of its job.
LEMMA Advances ==
    ASSUME Typed, WorkersHeld, \A j \in Jobs : Kept(j), NEW w \in Workers,
           worker[w].pc # "idle", NEW pc \in Places, NEW todo \in SUBSET Objects,
           Goes(w, pc, todo), pc # "idle",
           pc \in {"fetching", "archived"} => IsExporter(worker[w].job, job[worker[w].job]),
           pc = "deleting" => /\ job'[worker[w].job].detached
                              /\ todo \subseteq job'[worker[w].job].keys
    PROVE  worker' \in [Workers -> WorkerRows] /\ WorkersHeld'
<1> DEFINE j == worker[w].job
<1>1. Moves(w) /\ worker'[w].pc = pc /\ worker'[w].todo = todo /\ worker'[w].job = j
  BY GoesRow DEF Moves
<1>2. j \in Jobs /\ job[j].kind # "none"
  BY Working DEF WorkersHeld, WorkerOK
<1> HIDE DEF j
<1>3. Kept(j)
  BY <1>2
<1>4. /\ pc \in {"fetching", "archived"} => IsExporter(j, job[j])
      /\ pc = "deleting" => job'[j].detached /\ todo \subseteq job'[j].keys
  BY DEF j
<1>5. WorkerOK(worker[w])'
  BY <1>1, <1>2, <1>3, <1>4, NoneHasNoJob DEF WorkerOK, Kept, IsExporter
<1> QED
  BY <1>1, <1>5, Moved DEF Moves

LEMMA ComesToRest ==
    ASSUME Typed, WorkersHeld, \A j \in Jobs : Kept(j), NEW w \in Workers, Rests(w)
    PROVE  worker' \in [Workers -> WorkerRows] /\ WorkersHeld'
<1>1. Moves(w) /\ worker'[w].pc = "idle" /\ worker'[w].job = None
  BY RestsRow DEF Moves
<1>2. WorkerOK(worker[w])'
  BY <1>1 DEF WorkerOK
<1> QED
  BY <1>1, <1>2, Moved DEF Moves

LEMMA ClaimMoves ==
    ASSUME Typed, NEW w \in Workers, NEW j \in Jobs, Claim(w, j)
    PROVE  Moves(w) /\ worker'[w].pc = "claimed" /\ worker'[w].job = j
<1> DEFINE x == [worker[w] EXCEPT !.pc = "claimed", !.job = j]
<1>1. worker[w] \in WorkerRows
  BY DEF Typed
<1>2. x \in WorkerRows /\ x.pc = "claimed" /\ x.job = j
  BY <1>1 DEF WorkerRows, Places
<1>3. worker' = [worker EXCEPT ![w] = x]
  BY DEF Claim, Typed
<1> HIDE DEF x
<1> QED
  BY <1>2, <1>3 DEF Typed, Moves

\* What a worker does once it has a job.
Acts(w) ==
    \/ PrepareExport(w) \/ StoreArchive(w) \/ CompleteExport(w)
    \/ PrepareAccountPurge(w) \/ RefusePhase(w) \/ PrepareProjectPurge(w)
    \/ \E k \in worker[w].todo : FetchPayload(w, k) \/ DeleteKey(w, k)
    \/ CompleteAccountPurge(w) \/ CompleteProjectPurge(w)
    \/ Fail(w) \/ StepFails(w) \/ Crash(w)

LEMMA WhoMoves ==
    ASSUME [Next]_vars
    PROVE  \/ UNCHANGED worker
           \/ \E w \in Workers, j \in Jobs : Claim(w, j)
           \/ \E w \in Workers : Acts(w)
<1>1. CASE Request
  BY <1>1 DEF Request, StartUpload, PutObject, RegisterPayload, DisableProject,
              EnqueueProjectPurge, SetAccountStatus, RequestExport, StartConfirm, Confirm,
              ConfirmFails
<1>2. ASSUME NEW e \in Jobs, ExportLapses(e) PROVE UNCHANGED worker
  BY <1>2 DEF ExportLapses
<1>3. CASE \E j \in Jobs : LeaseExpires(j)
  BY <1>3 DEF LeaseExpires
<1>4. CASE UNCHANGED vars
  BY <1>4 DEF vars
<1>5. ASSUME NEW w \in Workers, Step(w) \/ StepFails(w) \/ Crash(w)
      PROVE  Acts(w)
  BY <1>5 DEF Acts, Step
<1> QED
  BY <1>1, <1>2, <1>3, <1>4, <1>5 DEF Next

LEMMA WorkersStep ==
    ASSUME Typed, JobsHeld, WorkersHeld, ConfirmingHeld, [Next]_vars
    PROVE  worker' \in [Workers -> WorkerRows] /\ WorkersHeld'
<1> DEFINE Goal == worker' \in [Workers -> WorkerRows] /\ WorkersHeld'
<1>1. \A j \in Jobs : Kept(j)
  BY JobsKept
<1>2. {} \in SUBSET Objects
  OBVIOUS
<1>3. ASSUME NEW w \in Workers, worker[w].pc # "idle", Fails(w) PROVE Goal
  BY <1>1, <1>2, <1>3, Advances DEF Fails, Places
<1>4. ASSUME NEW w \in Workers, Rests(w) PROVE Goal
  BY <1>1, <1>4, ComesToRest
<1> HIDE DEF Goal
<1>5. ASSUME NEW w \in Workers, NEW j \in Jobs, Claim(w, j) PROVE Goal
  <2>1. Moves(w) /\ worker'[w].pc = "claimed" /\ worker'[w].job = j
    BY <1>5, ClaimMoves
  <2>2. job[j].kind # "none" /\ Kept(j)
    BY <1>1, <1>5 DEF Claim, JobsHeld, JobOK
  <2>3. WorkerOK(worker[w])'
    BY <2>1, <2>2, NoneHasNoJob DEF WorkerOK, Kept
  <2> QED
    BY <1>1, <2>1, <2>3, Moved DEF Goal, Moves
<1>6. ASSUME NEW w \in Workers, PrepareExport(w) PROVE Goal
  <2>1. worker[w].pc = "claimed"
    BY <1>6 DEF PrepareExport, At
  <2>2. worker[w].job \in Jobs /\ rows \in SUBSET Objects
    BY <2>1, Working DEF Typed, Objects
  <2>3. IsExporter(worker[w].job, job[worker[w].job])
    BY <1>6, <2>2 DEF PrepareExport, Mine, JobsHeld, JobOK, IsExporter, IsPurger
  <2>4. Goes(w, "fetching", rows) \/ Fails(w)
    BY <1>6 DEF PrepareExport
  <2>5. CASE Goes(w, "fetching", rows)
    BY <1>1, <2>1, <2>2, <2>3, <2>5, Advances DEF Places, Goal
  <2> QED
    BY <1>3, <2>1, <2>4, <2>5
<1>7. ASSUME NEW w \in Workers, NEW k \in worker[w].todo, FetchPayload(w, k) PROVE Goal
  <2>1. worker[w].pc = "fetching"
    BY <1>7 DEF FetchPayload, At
  <2>2. worker[w].todo \ {k} \in SUBSET Objects /\ IsExporter(worker[w].job, job[worker[w].job])
    BY <2>1, Working DEF WorkersHeld, WorkerOK
  <2>3. Goes(w, "fetching", worker[w].todo \ {k}) \/ Fails(w)
    BY <1>7 DEF FetchPayload
  <2>4. CASE Goes(w, "fetching", worker[w].todo \ {k})
    BY <1>1, <2>1, <2>2, <2>4, Advances DEF Places, Goal
  <2> QED
    BY <1>3, <2>1, <2>3, <2>4
<1>8. ASSUME NEW w \in Workers, StoreArchive(w) PROVE Goal
  <2>1. worker[w].pc = "fetching"
    BY <1>8 DEF StoreArchive, At
  <2>2. IsExporter(worker[w].job, job[worker[w].job])
    BY <2>1 DEF WorkersHeld, WorkerOK
  <2>3. Goes(w, "archived", {}) \/ Fails(w)
    BY <1>8 DEF StoreArchive
  <2>4. CASE Goes(w, "archived", {})
    BY <1>1, <1>2, <2>1, <2>2, <2>4, Advances DEF Places, Goal
  <2> QED
    BY <1>3, <2>1, <2>3, <2>4
<1>9. ASSUME NEW w \in Workers,
             CompleteExport(w) \/ CompleteAccountPurge(w) \/ CompleteProjectPurge(w) \/ Fail(w)
      PROVE  Goal
  <2>1. worker[w].pc # "idle"
    BY <1>9 DEF CompleteExport, CompleteAccountPurge, CompleteProjectPurge, Fail, At
  <2>2. Rests(w) \/ Fails(w)
    BY <1>9 DEF CompleteExport, CompleteAccountPurge, CompleteProjectPurge, Fail
  <2> QED
    BY <1>3, <1>4, <2>1, <2>2
<1>10. ASSUME NEW w \in Workers, PrepareAccountPurge(w) \/ PrepareProjectPurge(w) PROVE Goal
  <2>1. worker[w].pc = "claimed"
    BY <1>10 DEF PrepareAccountPurge, PrepareProjectPurge, At
  <2>2. CASE DetachesAccount(w) \/ DetachesProject(w)
    <3> DEFINE j == worker[w].job
    <3>1. /\ job'[j].detached /\ job'[j].keys = DetachKeys(w)
          /\ DetachKeys(w) \in SUBSET Objects /\ Goes(w, "deleting", DetachKeys(w))
      BY <2>2, DetachesRow DEF DetachEffect
    <3> QED
      BY <1>1, <2>1, <3>1, Advances DEF Places, Goal
  <2>3. CASE Mine(w).detached /\ Goes(w, "deleting", Mine(w).keys) /\ UNCHANGED job
    <3>1. worker[w].job \in Jobs
      BY <2>1, Working
    <3>2. job[worker[w].job].keys \in SUBSET Objects
      BY <3>1 DEF Typed, JobRows
    <3> QED
      BY <1>1, <2>1, <2>3, <3>2, Advances DEF Places, Mine, Goal
  <2>4. \/ Fails(w) \/ DetachesAccount(w) \/ DetachesProject(w)
        \/ Mine(w).detached /\ Goes(w, "deleting", Mine(w).keys) /\ UNCHANGED job
    <3>1. CASE PrepareAccountPurge(w)
      <4>1. CASE ~(Holds(w) /\ account = "deleting")
        BY <3>1, <4>1 DEF PrepareAccountPurge
      <4> QED
        BY <3>1, <4>1 DEF DetachesAccount
    <3>2. CASE PrepareProjectPurge(w)
      <4>1. CASE ~(/\ Holds(w) /\ ~Mine(w).detached
                   /\ project[Mine(w).project].status = "deleting")
        BY <3>2, <4>1 DEF PrepareProjectPurge
      <4> QED
        BY <3>2, <4>1 DEF DetachesProject
    <3> QED
      BY <1>10, <3>1, <3>2
  <2> QED
    BY <1>3, <2>1, <2>2, <2>3, <2>4
<1>11. ASSUME NEW w \in Workers, RefusePhase(w) \/ StepFails(w) PROVE Goal
  BY <1>3, <1>11 DEF RefusePhase, StepFails, At
<1>12. ASSUME NEW w \in Workers, NEW k \in worker[w].todo, DeleteKey(w, k) PROVE Goal
  <2>1. worker[w].pc = "deleting" /\ Goes(w, "deleting", worker[w].todo \ {k}) /\ UNCHANGED job
    BY <1>12 DEF DeleteKey, At
  <2>2. /\ worker[w].todo \ {k} \in SUBSET Objects
        /\ job'[worker[w].job].detached
        /\ worker[w].todo \ {k} \subseteq job'[worker[w].job].keys
    BY <2>1, Working DEF WorkersHeld, WorkerOK
  <2> QED
    BY <1>1, <2>1, <2>2, Advances DEF Places, Goal
<1>13. ASSUME NEW w \in Workers, Crash(w) PROVE Goal
  BY <1>4, <1>13 DEF Crash
<1>14. ASSUME UNCHANGED worker PROVE Goal
  BY <1>1, <1>14, UnmovedWorkers DEF Goal
<1>15. ASSUME NEW w \in Workers, Acts(w) PROVE Goal
  <2>1. CASE \E k \in worker[w].todo : FetchPayload(w, k) \/ DeleteKey(w, k)
    BY <1>7, <1>12, <2>1
  <2>2. CASE CompleteExport(w) \/ CompleteAccountPurge(w) \/ CompleteProjectPurge(w) \/ Fail(w)
    BY <1>9, <2>2
  <2>3. CASE PrepareAccountPurge(w) \/ PrepareProjectPurge(w)
    BY <1>10, <2>3
  <2>4. CASE RefusePhase(w) \/ StepFails(w)
    BY <1>11, <2>4
  <2> QED
    BY <1>6, <1>8, <1>13, <1>15, <2>1, <2>2, <2>3, <2>4 DEF Acts
<1>16. Goal
  <2>1. CASE \E w \in Workers, j \in Jobs : Claim(w, j)
    BY <1>5, <2>1
  <2> QED
    BY <1>14, <1>15, <2>1, WhoMoves
<1> QED
  BY <1>16 DEF Goal

-----------------------------------------------------------------------------
(***************************************************************************)
(* Who changes the other variables.                                        *)
(***************************************************************************)
LEMMA PrepareProjectEffect ==
    ASSUME NEW w \in Workers, PrepareProjectPurge(w)
    PROVE  DetachesProject(w) \/ UNCHANGED <<job, rows, project>>
<1>1. CASE /\ Holds(w) /\ ~Mine(w).detached
           /\ project[Mine(w).project].status = "deleting"
  BY <1>1 DEF DetachesProject
<1>2. CASE ~(/\ Holds(w) /\ ~Mine(w).detached
             /\ project[Mine(w).project].status = "deleting")
  BY <1>2 DEF PrepareProjectPurge
<1> QED
  BY <1>1, <1>2

LEMMA PrepareAccountEffect ==
    ASSUME NEW w \in Workers, PrepareAccountPurge(w)
    PROVE  DetachesAccount(w) \/ UNCHANGED <<job, rows, project>>
<1>1. CASE Holds(w) /\ account = "deleting"
  BY <1>1 DEF DetachesAccount
<1>2. CASE ~(Holds(w) /\ account = "deleting")
  BY <1>2 DEF PrepareAccountPurge
<1> QED
  BY <1>1, <1>2

LEMMA WhoChangesProjects ==
    ASSUME [Next]_vars
    PROVE  \/ UNCHANGED project
           \/ \E p \in Projects : DisableProject(p)
           \/ \E p \in Projects, j \in Jobs : EnqueueProjectPurge(p, j)
           \/ \E j \in Jobs : Confirm(j)
           \/ \E w \in Workers : DetachesAccount(w) \/ DetachesProject(w)
<1>1. CASE Request
  BY <1>1 DEF Request, StartUpload, PutObject, RegisterPayload, SetAccountStatus,
              RequestExport, StartConfirm, ConfirmFails
<1>2. ASSUME NEW e \in Jobs, ExportLapses(e) PROVE UNCHANGED project
  BY <1>2 DEF ExportLapses
<1>3. ASSUME NEW w \in Workers, Step(w)
      PROVE  UNCHANGED project \/ DetachesAccount(w) \/ DetachesProject(w)
  <2>1. CASE PrepareProjectPurge(w) \/ PrepareAccountPurge(w)
    BY <2>1, PrepareProjectEffect, PrepareAccountEffect
  <2>2. CASE PrepareExport(w) \/ StoreArchive(w) \/ RefusePhase(w) \/ CompleteExport(w)
             \/ CompleteAccountPurge(w) \/ CompleteProjectPurge(w) \/ Fail(w)
    BY <2>2 DEF PrepareExport, StoreArchive, RefusePhase, CompleteExport,
                CompleteAccountPurge, CompleteProjectPurge, Fail
  <2>3. CASE \E k \in worker[w].todo : FetchPayload(w, k) \/ DeleteKey(w, k)
    BY <2>3 DEF FetchPayload, DeleteKey
  <2> QED
    BY <1>3, <2>1, <2>2, <2>3 DEF Step
<1>4. ASSUME \/ \E w \in Workers : StepFails(w) \/ Crash(w)
             \/ \E j \in Jobs : LeaseExpires(j)
             \/ \E w \in Workers, j \in Jobs : Claim(w, j)
             \/ UNCHANGED vars
      PROVE  UNCHANGED project
  BY <1>4 DEF StepFails, Crash, LeaseExpires, Claim, vars
<1> QED
  BY <1>1, <1>2, <1>3, <1>4 DEF Next

LEMMA WhoChangesData ==
    ASSUME [Next]_vars
    PROVE  \/ UNCHANGED <<rows, stored, upload, orphans>>
           \/ \E k \in Payloads : StartUpload(k)
           \/ PutObject \/ RegisterPayload
           \/ \E w \in Workers : \/ StoreArchive(w) \/ DetachesAccount(w) \/ DetachesProject(w)
                                 \/ \E k \in worker[w].todo : DeleteKey(w, k)
<1>1. CASE Request
  BY <1>1 DEF Request, DisableProject, EnqueueProjectPurge, SetAccountStatus,
              RequestExport, StartConfirm, Confirm, ConfirmFails
<1>2. ASSUME NEW e \in Jobs, ExportLapses(e) PROVE UNCHANGED <<rows, stored, upload, orphans>>
  BY <1>2 DEF ExportLapses
<1>3. ASSUME NEW w \in Workers, Step(w)
      PROVE  \/ UNCHANGED <<rows, stored, upload, orphans>>
             \/ StoreArchive(w) \/ DetachesAccount(w) \/ DetachesProject(w)
             \/ \E k \in worker[w].todo : DeleteKey(w, k)
  <2>1. CASE PrepareProjectPurge(w)
    <3>1. UNCHANGED <<stored, upload, orphans>>
      BY <2>1 DEF PrepareProjectPurge
    <3> QED
      BY <2>1, <3>1, PrepareProjectEffect
  <2>2. CASE PrepareAccountPurge(w)
    <3>1. UNCHANGED <<stored, upload, orphans>>
      BY <2>2 DEF PrepareAccountPurge
    <3> QED
      BY <2>2, <3>1, PrepareAccountEffect
  <2>3. CASE PrepareExport(w) \/ RefusePhase(w) \/ CompleteExport(w)
             \/ CompleteAccountPurge(w) \/ CompleteProjectPurge(w) \/ Fail(w)
    BY <2>3 DEF PrepareExport, RefusePhase, CompleteExport,
                CompleteAccountPurge, CompleteProjectPurge, Fail
  <2>4. CASE \E k \in worker[w].todo : FetchPayload(w, k)
    BY <2>4 DEF FetchPayload
  <2> QED
    BY <1>3, <2>1, <2>2, <2>3, <2>4 DEF Step
<1>4. ASSUME \/ \E w \in Workers : StepFails(w) \/ Crash(w)
             \/ \E j \in Jobs : LeaseExpires(j)
             \/ \E w \in Workers, j \in Jobs : Claim(w, j)
             \/ UNCHANGED vars
      PROVE  UNCHANGED <<rows, stored, upload, orphans>>
  BY <1>4 DEF StepFails, Crash, LeaseExpires, Claim, vars
<1> QED
  BY <1>1, <1>2, <1>3, <1>4 DEF Next

LEMMA WhoChangesAccount ==
    ASSUME [Next]_vars
    PROVE  \/ UNCHANGED <<account, confirming>>
           \/ SetAccountStatus \/ ConfirmFails
           \/ \E j \in Jobs : StartConfirm(j) \/ Confirm(j)
           \/ \E w \in Workers : CompleteAccountPurge(w) /\ Succeeds(w)
<1>1. CASE Request
  BY <1>1 DEF Request, StartUpload, PutObject, RegisterPayload, DisableProject,
              EnqueueProjectPurge, RequestExport
<1>2. ASSUME NEW e \in Jobs, ExportLapses(e) PROVE UNCHANGED <<account, confirming>>
  BY <1>2 DEF ExportLapses
<1>3. ASSUME NEW w \in Workers, Step(w)
      PROVE  UNCHANGED <<account, confirming>> \/ (CompleteAccountPurge(w) /\ Succeeds(w))
  <2>1. CASE CompleteAccountPurge(w)
    BY <2>1 DEF CompleteAccountPurge, Succeeds
  <2>2. CASE PrepareExport(w) \/ StoreArchive(w) \/ RefusePhase(w) \/ CompleteExport(w)
             \/ PrepareAccountPurge(w) \/ PrepareProjectPurge(w)
             \/ CompleteProjectPurge(w) \/ Fail(w)
    BY <2>2 DEF PrepareExport, StoreArchive, RefusePhase, CompleteExport, PrepareAccountPurge,
                PrepareProjectPurge, CompleteProjectPurge, Fail
  <2>3. CASE \E k \in worker[w].todo : FetchPayload(w, k) \/ DeleteKey(w, k)
    BY <2>3 DEF FetchPayload, DeleteKey
  <2> QED
    BY <1>3, <2>1, <2>2, <2>3 DEF Step
<1>4. ASSUME \/ \E w \in Workers : StepFails(w) \/ Crash(w)
             \/ \E j \in Jobs : LeaseExpires(j)
             \/ \E w \in Workers, j \in Jobs : Claim(w, j)
             \/ UNCHANGED vars
      PROVE  UNCHANGED <<account, confirming>>
  BY <1>4 DEF StepFails, Crash, LeaseExpires, Claim, vars
<1> QED
  BY <1>1, <1>2, <1>3, <1>4 DEF Next

LEMMA WhoChangesExports ==
    ASSUME [Next]_vars
    PROVE  \/ UNCHANGED export
           \/ \E j \in Jobs : RequestExport(j) \/ Confirm(j) \/ ExportLapses(j)
           \/ \E w \in Workers : \/ CompleteExport(w) /\ Succeeds(w)
                                 \/ CompleteAccountPurge(w) /\ Succeeds(w)
                                 \/ Fail(w)
<1>1. CASE Request
  BY <1>1 DEF Request, StartUpload, PutObject, RegisterPayload, DisableProject,
              EnqueueProjectPurge, SetAccountStatus, StartConfirm, ConfirmFails
<1>2. ASSUME NEW w \in Workers, Step(w)
      PROVE  \/ UNCHANGED export
             \/ CompleteExport(w) /\ Succeeds(w)
             \/ CompleteAccountPurge(w) /\ Succeeds(w)
             \/ Fail(w)
  <2>1. CASE CompleteAccountPurge(w)
    BY <2>1 DEF CompleteAccountPurge, Succeeds
  <2>2. CASE CompleteExport(w)
    BY <2>2 DEF CompleteExport, Succeeds
  <2>3. CASE PrepareExport(w) \/ StoreArchive(w) \/ RefusePhase(w)
             \/ PrepareAccountPurge(w) \/ PrepareProjectPurge(w) \/ CompleteProjectPurge(w)
    BY <2>3 DEF PrepareExport, StoreArchive, RefusePhase, PrepareAccountPurge,
                PrepareProjectPurge, CompleteProjectPurge
  <2>4. CASE \E k \in worker[w].todo : FetchPayload(w, k) \/ DeleteKey(w, k)
    BY <2>4 DEF FetchPayload, DeleteKey
  <2> QED
    BY <1>2, <2>1, <2>2, <2>3, <2>4 DEF Step
<1>3. ASSUME \/ \E w \in Workers : StepFails(w) \/ Crash(w)
             \/ \E j \in Jobs : LeaseExpires(j)
             \/ \E w \in Workers, j \in Jobs : Claim(w, j)
             \/ UNCHANGED vars
      PROVE  UNCHANGED export
  BY <1>3 DEF StepFails, Crash, LeaseExpires, Claim, vars
<1> QED
  BY <1>1, <1>2, <1>3 DEF Next

-----------------------------------------------------------------------------
(***************************************************************************)
(* Projects: "gone" is for good, and reached only by detaching the rows.   *)
(***************************************************************************)
LEMMA DetachesProjects ==
    ASSUME Typed, JobsHeld, WorkersHeld, NEW w \in Workers,
           DetachesAccount(w) \/ DetachesProject(w)
    PROVE  /\ project' \in [Projects -> ProjectRows]
           /\ \A p \in Projects : project'[p].undone = project[p].undone
           /\ DetachesAccount(w) => \A p \in Projects : project'[p].status = "gone"
           /\ ~DetachesAccount(w) =>
                /\ Mine(w).project \in Projects
                /\ project[Mine(w).project].status = "deleting"
                /\ project'[Mine(w).project].status = "gone"
                /\ \A p \in Projects \ {Mine(w).project} : project'[p] = project[p]
           /\ rows' = rows \ DetachKeys(w)
           /\ UNCHANGED <<account, stored, upload, orphans, export, confirming>>
<1>1. DetachEffect(w, worker[w].job) /\ JobOK(worker[w].job, Mine(w)) /\ Mine(w) = job[worker[w].job]
  BY DetachesRow DEF DetachEffect, JobsHeld, Mine
<1>2. \A p \in Projects : project[p] \in ProjectRows
  BY DEF Typed
<1>3. CASE DetachesAccount(w)
  <2>1. /\ project' = [p \in Projects |-> [project[p] EXCEPT !.status = "gone"]]
        /\ rows' = {}
        /\ UNCHANGED <<account, stored, upload, orphans, export, confirming>>
    BY <1>3 DEF DetachesAccount, PrepareAccountPurge
  <2>2. \A p \in Projects : /\ [project[p] EXCEPT !.status = "gone"] \in ProjectRows
                            /\ [project[p] EXCEPT !.status = "gone"].status = "gone"
                            /\ [project[p] EXCEPT !.status = "gone"].undone = project[p].undone
    BY <1>2 DEF ProjectRows
  <2>3. rows' = rows \ DetachKeys(w)
    BY <1>1, <1>3, <2>1 DEF DetachEffect, DetachKeys
  <2> QED
    BY <1>3, <2>1, <2>2, <2>3
<1>4. CASE ~DetachesAccount(w)
  <2> DEFINE p == Mine(w).project
             r == [project[p] EXCEPT !.status = "gone"]
  <2>1. /\ Mine(w).kind = "project" /\ p \in Projects
        /\ project[p].status = "deleting"
    BY <1>1, <1>4 DEF DetachEffect, JobOK, DetachesProject
  <2>2. /\ project' = [project EXCEPT ![p].status = "gone"]
        /\ rows' = rows \ OfProject(p)
        /\ UNCHANGED <<account, stored, upload, orphans, export, confirming>>
    BY <1>4, <2>1 DEF DetachesProject, PrepareProjectPurge
  <2> HIDE DEF p
  <2>3. r \in ProjectRows /\ r.status = "gone" /\ r.undone = project[p].undone
    BY <1>2, <2>1 DEF ProjectRows
  <2>4. project' = [project EXCEPT ![p] = r]
    BY <2>2
  <2>5. rows' = rows \ DetachKeys(w)
    BY <2>1, <2>2 DEF DetachKeys, p
  <2> HIDE DEF r
  <2> QED
    BY <1>4, <2>1, <2>2, <2>3, <2>4, <2>5 DEF Typed, p
<1> QED
  BY <1>3, <1>4

ProjectMoves(p) ==
    /\ project[p].status = "gone" => project'[p].status = "gone"
    /\ project[p].undone => project'[p].undone
    /\ project[p].status = "deleting" =>
           project'[p].status \in {"deleting", "gone"} \/ project'[p].undone
    /\ project'[p].status = "gone" /\ project[p].status # "gone" =>
           \E w \in Workers : \/ DetachesAccount(w)
                              \/ DetachesProject(w) /\ p = Mine(w).project

LEMMA ProjectsStep ==
    ASSUME Typed, JobsHeld, WorkersHeld, [Next]_vars
    PROVE  project' \in [Projects -> ProjectRows] /\ \A p \in Projects : ProjectMoves(p)
<1>1. \A p \in Projects : project[p] \in ProjectRows
  BY DEF Typed
<1>2. CASE UNCHANGED project
  BY <1>2 DEF Typed, ProjectMoves
<1>3. ASSUME NEW p \in Projects, DisableProject(p)
      PROVE  project' \in [Projects -> ProjectRows] /\ \A q \in Projects : ProjectMoves(q)
  <2> DEFINE u == project[p].undone \/ project[p].status = "deleting"
             r == [status |-> "disabled", undone |-> u]
  <2>1. project' = [project EXCEPT ![p] = r] /\ project[p].status # "gone"
    BY <1>3 DEF DisableProject
  <2>2. r \in ProjectRows /\ r.status = "disabled" /\ r.undone = u
    <3>1. u \in BOOLEAN
      BY <1>1 DEF ProjectRows
    <3> QED
      BY <3>1 DEF ProjectRows
  <2>3. project' \in [Projects -> ProjectRows] /\ project'[p] = r
        /\ \A q \in Projects \ {p} : project'[q] = project[q]
    BY <2>1, <2>2 DEF Typed
  <2>4. /\ project[p].undone => project'[p].undone
        /\ project[p].status = "deleting" => project'[p].undone
    BY <2>2, <2>3
  <2> HIDE DEF r
  <2> QED
    BY <2>1, <2>2, <2>3, <2>4 DEF ProjectMoves
<1>4. ASSUME NEW p \in Projects, NEW j \in Jobs, EnqueueProjectPurge(p, j)
      PROVE  project' \in [Projects -> ProjectRows] /\ \A q \in Projects : ProjectMoves(q)
  <2> DEFINE r == [project[p] EXCEPT !.status = "deleting"]
  <2>1. project' = [project EXCEPT ![p] = r] /\ project[p].status \in {"active", "disabled"}
    BY <1>4 DEF EnqueueProjectPurge
  <2>2. r \in ProjectRows /\ r.status = "deleting" /\ r.undone = project[p].undone
    BY <1>1 DEF ProjectRows
  <2> HIDE DEF r
  <2> QED
    BY <2>1, <2>2 DEF ProjectMoves, Typed
<1>5. ASSUME NEW j \in Jobs, Confirm(j)
      PROVE  project' \in [Projects -> ProjectRows] /\ \A q \in Projects : ProjectMoves(q)
  <2> DEFINE r(p) == [project[p] EXCEPT !.status = "deleting"]
  <2>1. project' = [p \in Projects |-> IF project[p].status = "gone" THEN project[p] ELSE r(p)]
    BY <1>5 DEF Confirm
  <2>2. \A p \in Projects : /\ r(p) \in ProjectRows /\ r(p).status = "deleting"
                            /\ r(p).undone = project[p].undone
    BY <1>1 DEF ProjectRows
  <2> HIDE DEF r
  <2>3. project' \in [Projects -> ProjectRows]
    BY <1>1, <2>1, <2>2
  <2> QED
    BY <2>1, <2>2, <2>3 DEF ProjectMoves
<1>6. ASSUME NEW w \in Workers, DetachesAccount(w) \/ DetachesProject(w)
      PROVE  project' \in [Projects -> ProjectRows] /\ \A q \in Projects : ProjectMoves(q)
  BY <1>6, DetachesProjects DEF ProjectMoves
<1> QED
  BY <1>2, <1>3, <1>4, <1>5, <1>6, WhoChangesProjects

-----------------------------------------------------------------------------
(***************************************************************************)
(* Exports and the types of the rest.                                      *)
(***************************************************************************)
OnlyExport(e) == /\ export' \in [Jobs -> ExportRows]
                 /\ \A i \in Jobs \ {e} : export'[i] = export[i]

LEMMA SetStatus ==
    ASSUME Typed, NEW e \in Jobs, NEW s \in ExportStates, export' = [export EXCEPT ![e].status = s]
    PROVE  /\ OnlyExport(e) /\ export'[e].status = s
           /\ export'[e].expired = export[e].expired
<1> DEFINE r == [export[e] EXCEPT !.status = s]
<1>1. export[e] \in ExportRows
  BY DEF Typed
<1>2. /\ r \in ExportRows /\ r.status = s
      /\ r.expired = export[e].expired
  BY <1>1 DEF ExportRows
<1>3. export' = [export EXCEPT ![e] = r]
  OBVIOUS
<1> HIDE DEF r
<1> QED
  BY <1>2, <1>3 DEF Typed, OnlyExport

LEMMA LapseRow ==
    ASSUME Typed, NEW e \in Jobs, ExportLapses(e)
    PROVE  OnlyExport(e) /\ export'[e].status = export[e].status /\ export'[e].expired
<1> DEFINE r == [export[e] EXCEPT !.expired = TRUE]
<1>1. export[e] \in ExportRows
  BY DEF Typed
<1>2. export' = [export EXCEPT ![e] = r]
  BY DEF ExportLapses, Typed
<1>3. r \in ExportRows /\ r.status = export[e].status /\ r.expired
  BY <1>1 DEF ExportRows
<1> HIDE DEF r
<1> QED
  BY <1>2, <1>3 DEF Typed, OnlyExport

LEMMA CompleteRow ==
    ASSUME Typed, WorkersHeld, NEW w \in Workers, CompleteExport(w), Succeeds(w)
    PROVE  LET e == worker[w].job IN
           /\ e \in Jobs /\ OnlyExport(e)
           /\ export'[e].status = IF export[e].status = "pending" THEN "ready"
                                                                  ELSE export[e].status
           /\ export'[e].expired = export[e].expired
<1> DEFINE e == worker[w].job
           s == IF export[e].status = "pending" THEN "ready" ELSE export[e].status
<1>1. worker[w].pc = "archived"
  BY DEF CompleteExport, At
<1>2. e \in Jobs /\ Mine(w).export = e
  BY <1>1, Working DEF WorkersHeld, WorkerOK, IsExporter, Mine
<1>3. s \in ExportStates
  <2>1. export[e].status \in ExportStates
    BY <1>2 DEF Typed, ExportRows
  <2> QED
    BY <2>1 DEF ExportStates
<1>4. export' = [export EXCEPT ![e].status = s]
  BY <1>2 DEF CompleteExport, Succeeds
<1> HIDE DEF e
<1> QED
  BY <1>2, <1>3, <1>4, SetStatus DEF e

SameTime(e) == export'[e].expired = export[e].expired

\* What may become of the row of an export.
ExportMoves(e) ==
    \/ export'[e] = export[e]
    \/ RequestExport(e) /\ export'[e].status = "pending" /\ SameTime(e)
    \/ /\ \E j \in Jobs : Confirm(j)
       /\ e = confirming /\ export'[e].status = "purging" /\ SameTime(e)
    \/ /\ ExportLapses(e)
       /\ export'[e].status = export[e].status /\ export'[e].expired
    \/ /\ \E w \in Workers : CompleteExport(w) /\ Succeeds(w) /\ e = worker[w].job
       /\ export[e].status = "pending" /\ export'[e].status = "ready" /\ SameTime(e)
    \/ /\ \E w \in Workers : CompleteAccountPurge(w) /\ Succeeds(w) /\ e = Mine(w).export
       /\ export'[e].status = "completed" /\ SameTime(e)
    \/ /\ \E w \in Workers : Fail(w) /\ e = worker[w].job
       /\ export[e].status = "pending" /\ export'[e].status = "failed" /\ SameTime(e)

LEMMA OneExport ==
    ASSUME NEW e \in Jobs, OnlyExport(e), ExportMoves(e)
    PROVE  export' \in [Jobs -> ExportRows] /\ \A i \in Jobs : ExportMoves(i)
BY DEF OnlyExport, ExportMoves

LEMMA ExportsStep ==
    ASSUME Typed, JobsHeld, WorkersHeld, ConfirmingHeld, [Next]_vars
    PROVE  export' \in [Jobs -> ExportRows] /\ \A e \in Jobs : ExportMoves(e)
<1> DEFINE Goal == export' \in [Jobs -> ExportRows] /\ \A e \in Jobs : ExportMoves(e)
<1>1. ASSUME NEW e \in Jobs, OnlyExport(e), ExportMoves(e) PROVE Goal
  BY <1>1, OneExport
<1>2. CASE UNCHANGED export
  BY <1>2 DEF Typed, ExportMoves
<1>3. {"pending", "purging", "completed"} \subseteq ExportStates
  BY DEF ExportStates
<1> HIDE DEF Goal
<1>4. ASSUME NEW j \in Jobs, RequestExport(j) PROVE Goal
  <2>1. export' = [export EXCEPT ![j].status = "pending"]
    BY <1>4 DEF RequestExport
  <2>2. OnlyExport(j) /\ export'[j].status = "pending" /\ SameTime(j)
    BY <1>3, <2>1, SetStatus DEF SameTime
  <2> QED
    BY <1>1, <1>4, <2>2 DEF ExportMoves
<1>5. ASSUME NEW j \in Jobs, Confirm(j) PROVE Goal
  <2>1. export' = [export EXCEPT ![confirming].status = "purging"] /\ confirming \in Jobs
    BY <1>5 DEF Confirm, Typed
  <2>2. OnlyExport(confirming) /\ export'[confirming].status = "purging" /\ SameTime(confirming)
    BY <1>3, <2>1, SetStatus DEF SameTime
  <2> QED
    BY <1>1, <1>5, <2>1, <2>2 DEF ExportMoves
<1>6. ASSUME NEW e \in Jobs, ExportLapses(e) PROVE Goal
  BY <1>1, <1>6, LapseRow DEF ExportMoves
<1>7. ASSUME NEW w \in Workers, CompleteExport(w), Succeeds(w) PROVE Goal
  <2> DEFINE e == worker[w].job
  <2>1. /\ e \in Jobs /\ OnlyExport(e) /\ SameTime(e)
        /\ export'[e].status = IF export[e].status = "pending" THEN "ready" ELSE export[e].status
    BY <1>7, CompleteRow DEF SameTime
  <2>2. CASE export[e].status = "pending"
    BY <1>1, <1>7, <2>1, <2>2 DEF ExportMoves
  <2>3. CASE export[e].status # "pending"
    <3>1. export'[e] \in ExportRows /\ export[e] \in ExportRows
      BY <2>1 DEF OnlyExport, Typed
    <3>2. export'[e] = export[e]
      BY <2>1, <2>3, <3>1 DEF ExportRows, SameTime
    <3> QED
      BY <1>1, <2>1, <3>2 DEF ExportMoves
  <2> QED
    BY <2>2, <2>3
<1>8. ASSUME NEW w \in Workers, CompleteAccountPurge(w), Succeeds(w) PROVE Goal
  <2> DEFINE e == Mine(w).export
  <2>1. worker[w].pc = "deleting" /\ Mine(w).kind = "account" /\ Holds(w)
    BY <1>8 DEF CompleteAccountPurge, Succeeds, At
  <2>2. e \in Jobs /\ export' = [export EXCEPT ![e].status = "completed"]
    <3>1. worker[w].job \in Jobs
      BY <2>1, Working
    <3> QED
      BY <1>8, <2>1, <3>1 DEF JobsHeld, JobOK, Mine, CompleteAccountPurge
  <2> HIDE DEF e
  <2>3. OnlyExport(e) /\ export'[e].status = "completed" /\ SameTime(e)
    BY <1>3, <2>2, SetStatus DEF SameTime
  <2> QED
    BY <1>1, <1>8, <2>2, <2>3 DEF ExportMoves, e
<1>9. ASSUME NEW w \in Workers, Fail(w) PROVE Goal
  <2> DEFINE j == worker[w].job
             Lost(e) == /\ Mine(w).attempts = MaxAttempts /\ e = j
                        /\ Mine(w).phase = "export" /\ export[e].status = "pending"
             r(e) == [export[e] EXCEPT !.status = "failed"]
  <2>1. CASE ~Owns(w)
    BY <1>2, <1>9, <2>1 DEF Fail, Goal
  <2>2. CASE Owns(w)
    <3>1. export' = [e \in Jobs |-> IF Lost(e) THEN r(e) ELSE export[e]]
      BY <1>9, <2>2 DEF Fail
    <3>2. \A e \in Jobs : /\ export[e] \in ExportRows
                          /\ r(e) \in ExportRows /\ r(e).status = "failed"
                          /\ r(e).expired = export[e].expired
      BY DEF Typed, ExportRows, ExportStates
    <3>3. \A e \in Jobs : Lost(e) => e = j /\ export[e].status = "pending"
      OBVIOUS
    <3> HIDE DEF Lost, r
    <3>4. export' \in [Jobs -> ExportRows]
      BY <3>1, <3>2
    <3>5. ASSUME NEW e \in Jobs PROVE ExportMoves(e)
      BY <1>9, <3>1, <3>2, <3>3 DEF ExportMoves, SameTime
    <3> QED
      BY <3>4, <3>5 DEF Goal
  <2> QED
    BY <2>1, <2>2
<1> QED
  BY <1>2, <1>4, <1>5, <1>6, <1>7, <1>8, <1>9, WhoChangesExports DEF Goal

-----------------------------------------------------------------------------
(***************************************************************************)
(* Objects: payloads and archives, and the keys a job may delete.          *)
(***************************************************************************)
LEMMA PayloadKey ==
    ASSUME NEW k \in Payloads
    PROVE  /\ k[1] \in Projects /\ k \in OfProject(k[1])
           /\ \A j \in Jobs : k # Archive(j)
           /\ \A p \in Projects : k \in OfProject(p) => p = k[1]
<1>1. PICK p \in Projects, h \in Hashes : k = <<p, h>>
  BY DEF Payloads
<1>2. h # None
  BY PurgeAssumption DEF PurgeAssumption
<1>3. k[1] = p /\ k[2] = h
  BY <1>1
<1> QED
  BY <1>1, <1>2, <1>3 DEF OfProject, Archive

\* The keys of a job that is not over belong to nobody any more.
LEMMA KeysGone ==
    ASSUME Typed, JobsHeld, RowsHeld, NEW j \in Jobs, job[j].detached, NEW k \in job[j].keys
    PROVE  \/ job[j].kind = "account" /\ k = Archive(job[j].export) /\ k \notin Payloads
           \/ k \in Payloads /\ project[k[1]].status = "gone" /\ k \notin rows
<1>1. JobOK(j, job[j])
  BY DEF JobsHeld
<1>2. CASE job[j].kind = "project"
  <2>1. job[j].project \in Projects /\ k \in OfProject(job[j].project)
        /\ project[job[j].project].status = "gone"
    BY <1>1, <1>2 DEF JobOK, RowsHeld
  <2>2. k \in Payloads
    BY <2>1 DEF OfProject, Payloads
  <2>3. k[1] = job[j].project
    BY <2>1, <2>2, PayloadKey
  <2> QED
    BY <2>1, <2>2, <2>3 DEF RowsHeld
<1>3. CASE job[j].kind = "account"
  <2>1. job[j].export \in Jobs /\ k \in Payloads \cup {Archive(job[j].export)}
    BY <1>1, <1>3 DEF JobOK
  <2>2. CASE k \in Payloads
    <3>1. k[1] \in Projects /\ k \in OfProject(k[1])
      BY <2>2, PayloadKey
    <3> QED
      BY <1>3, <2>2, <3>1 DEF RowsHeld
  <2> QED
    BY <1>3, <2>1, <2>2
<1>4. job[j].kind \in {"project", "account"}
  BY <1>1 DEF JobOK, Typed, JobRows
<1> QED
  BY <1>2, <1>3, <1>4

\* What a worker may still delete is among the keys of its job.
LEMMA TodoGone ==
    ASSUME Typed, JobsHeld, WorkersHeld, RowsHeld, NEW w \in Workers,
           NEW k \in worker[w].todo, DeleteKey(w, k)
    PROVE  /\ worker[w].job \in Jobs /\ job[worker[w].job].detached
           /\ k \in job[worker[w].job].keys
           /\ \/ /\ job[worker[w].job].kind = "account"
                 /\ k = Archive(job[worker[w].job].export) /\ k \notin Payloads
              \/ k \in Payloads /\ project[k[1]].status = "gone" /\ k \notin rows
<1> DEFINE j == worker[w].job
<1>1. worker[w].pc = "deleting"
  BY DEF DeleteKey, At
<1>2. j \in Jobs /\ job[j].detached /\ k \in job[j].keys
  BY <1>1, Working DEF WorkersHeld, WorkerOK
<1> HIDE DEF j
<1>3. \/ job[j].kind = "account" /\ k = Archive(job[j].export) /\ k \notin Payloads
      \/ k \in Payloads /\ project[k[1]].status = "gone" /\ k \notin rows
  BY <1>2, KeysGone
<1> QED
  BY <1>2, <1>3 DEF j

LEMMA StartRow ==
    ASSUME NEW k \in Payloads, StartUpload(k)
    PROVE  upload' \in UploadRows /\ upload'.pc = "checked" /\ upload'.key = k
BY DEF StartUpload, UploadRows

LEMMA PutRow ==
    ASSUME Typed, UploadHeld, PutObject
    PROVE  /\ upload' \in UploadRows /\ upload'.pc = "put" /\ upload'.key = upload.key
           /\ upload.key \in Payloads
<1> DEFINE r == [upload EXCEPT !.pc = "put"]
<1>1. upload \in UploadRows /\ upload.key \in Payloads
  BY DEF Typed, UploadHeld, PutObject
<1>2. r \in UploadRows /\ r.pc = "put" /\ r.key = upload.key
  BY <1>1 DEF UploadRows
<1>3. upload' = r
  BY DEF PutObject
<1> HIDE DEF r
<1> QED
  BY <1>1, <1>2, <1>3

LEMMA RegisterRow ==
    ASSUME Typed, UploadHeld, RegisterPayload
    PROVE  /\ upload' \in UploadRows /\ upload'.pc = "idle" /\ upload.key \in Payloads
           /\ upload.pc = "put"
<1>1. NoUpload \in UploadRows /\ NoUpload.pc = "idle"
  BY DEF NoUpload, UploadRows
<1> QED
  BY <1>1 DEF RegisterPayload, UploadHeld

LEMMA ArchiveKey ==
    ASSUME Typed, JobsHeld, WorkersHeld, NEW w \in Workers, StoreArchive(w)
    PROVE  /\ worker[w].job \in Jobs /\ IsExporter(worker[w].job, job[worker[w].job])
           /\ Archive(Mine(w).export) = Archive(worker[w].job)
           /\ Archive(worker[w].job) \in Archives
<1>1. worker[w].pc = "fetching"
  BY DEF StoreArchive, At
<1>2. worker[w].job \in Jobs /\ IsExporter(worker[w].job, job[worker[w].job])
  BY <1>1, Working DEF WorkersHeld, WorkerOK
<1> QED
  BY <1>2 DEF IsExporter, Mine, Archives

LEMMA DataTyped ==
    ASSUME Typed, JobsHeld, WorkersHeld, UploadHeld, [Next]_vars
    PROVE  rows' \subseteq Payloads /\ stored' \subseteq Objects /\ upload' \in UploadRows
<1> DEFINE Goal == rows' \subseteq Payloads /\ stored' \subseteq Objects /\ upload' \in UploadRows
<1>0. rows \subseteq Payloads /\ stored \subseteq Objects /\ upload \in UploadRows
  BY DEF Typed
<1>1. CASE UNCHANGED <<rows, stored, upload, orphans>>
  BY <1>0, <1>1
<1>2. ASSUME NEW k \in Payloads, StartUpload(k) PROVE Goal
  BY <1>0, <1>2, StartRow DEF StartUpload
<1>3. CASE PutObject
  BY <1>0, <1>3, PutRow DEF PutObject, Objects
<1>4. CASE RegisterPayload
  <2>1. rows' = rows \/ rows' = rows \cup {upload.key}
    BY <1>4 DEF RegisterPayload
  <2>2. stored' = stored
    BY <1>4 DEF RegisterPayload
  <2> QED
    BY <1>0, <1>4, <2>1, <2>2, RegisterRow
<1>5. ASSUME NEW w \in Workers, StoreArchive(w) PROVE Goal
  <2>1. stored' \subseteq stored \cup {Archive(worker[w].job)} /\ UNCHANGED <<rows, upload>>
    BY <1>5, ArchiveKey DEF StoreArchive
  <2> QED
    BY <1>0, <1>5, <2>1, ArchiveKey DEF Objects
<1>6. ASSUME NEW w \in Workers, DetachesAccount(w) \/ DetachesProject(w) PROVE Goal
  BY <1>0, <1>6, DetachesProjects
<1>7. ASSUME NEW w \in Workers, NEW k \in worker[w].todo, DeleteKey(w, k) PROVE Goal
  BY <1>0, <1>7 DEF DeleteKey
<1> QED
  BY <1>1, <1>2, <1>3, <1>4, <1>5, <1>6, <1>7, WhoChangesData

LEMMA TypedStep ==
    ASSUME Typed, JobsHeld, WorkersHeld, UploadHeld, ConfirmingHeld, [Next]_vars
    PROVE  Typed'
<1>1. account' \in AccountStates /\ confirming' \in Jobs \cup {None}
  <2>1. account \in AccountStates /\ confirming \in Jobs \cup {None}
    BY DEF Typed
  <2> QED
    BY <2>1, WhoChangesAccount
       DEF SetAccountStatus, ConfirmFails, StartConfirm, Confirm, CompleteAccountPurge,
           AccountStates
<1> QED
  BY <1>1, DataTyped, JobsStep, WorkersStep, ProjectsStep, ExportsStep DEF Typed

-----------------------------------------------------------------------------
(***************************************************************************)
(* Which steps make a job, detach its keys, or end it well.                *)
(***************************************************************************)
Detaches(w) == DetachesAccount(w) \/ DetachesProject(w)

Makes(j) ==
    \/ \E p \in Projects : EnqueueProjectPurge(p, j) /\ Made(j, "project", "", p, None)
    \/ RequestExport(j) /\ Made(j, "account", "export", None, j)
    \/ /\ Confirm(j) /\ Made(j, "account", "purge", None, confirming)
       /\ confirming \in Jobs /\ confirming # j

Caused(j) ==
    /\ job[j].kind = "none" /\ job'[j].kind # "none" => Makes(j)
    /\ job'[j].detached /\ ~job[j].detached =>
           \E w \in Workers : Detaches(w) /\ j = worker[w].job
    /\ job'[j].status = "succeeded" /\ job[j].status # "succeeded" =>
           \E w \in Workers : Succeeds(w) /\ j = worker[w].job

LEMMA OnlyCaused ==
    ASSUME NEW j \in Jobs, Only(j), Caused(j)
    PROVE  \A i \in Jobs : Caused(i)
BY DEF Only, Caused

LEMMA JobsCaused ==
    ASSUME Typed, JobsHeld, WorkersHeld, ConfirmingHeld, [Next]_vars
    PROVE  \A j \in Jobs : Caused(j)
<1> DEFINE Goal == \A j \in Jobs : Caused(j)
<1>1. CASE UNCHANGED job
  BY <1>1 DEF Caused
<1>2. ASSUME NEW j \in Jobs, Only(j), Caused(j) PROVE Goal
  BY <1>2, OnlyCaused
<1> HIDE DEF Goal
<1>3. ASSUME NEW p \in Projects, NEW j \in Jobs, EnqueueProjectPurge(p, j) PROVE Goal
  <2>1. Made(j, "project", "", p, None)
    BY <1>3, EnqueueMakes
  <2> QED
    BY <1>2, <1>3, <2>1 DEF Caused, Makes, Made
<1>4. ASSUME NEW j \in Jobs, RequestExport(j) PROVE Goal
  <2>1. Made(j, "account", "export", None, j)
    BY <1>4, RequestMakes
  <2> QED
    BY <1>2, <1>4, <2>1 DEF Caused, Makes, Made
<1>5. ASSUME NEW j \in Jobs, Confirm(j) PROVE Goal
  <2>1. Made(j, "account", "purge", None, confirming) /\ confirming \in Jobs /\ confirming # j
    BY <1>5, ConfirmMakes
  <2> QED
    BY <1>2, <1>5, <2>1 DEF Caused, Makes, Made
<1>6. ASSUME NEW j \in Jobs, LeaseExpires(j) PROVE Goal
  BY <1>2, <1>6, ExpireRow DEF Caused, Alike
<1>7. ASSUME NEW w \in Workers, NEW j \in Jobs, Claim(w, j) PROVE Goal
  BY <1>2, <1>7, ClaimRow DEF Caused, Alike
<1>8. ASSUME NEW w \in Workers, Succeeds(w) PROVE Goal
  <2>1. worker[w].job \in Jobs
    BY <1>8, Working DEF Succeeds, CompleteExport, CompleteAccountPurge, CompleteProjectPurge, At
  <2>2. Only(worker[w].job) /\ Alike(job'[worker[w].job], job[worker[w].job])
    BY <1>8, <2>1, SucceedRow DEF Succeeds
  <2> QED
    BY <1>2, <1>8, <2>1, <2>2 DEF Caused, Alike
<1>9. ASSUME NEW w \in Workers, Detaches(w) PROVE Goal
  <2> DEFINE j == worker[w].job
  <2> HIDE DEF j
  <2>1. DetachEffect(w, j)
    BY <1>9, DetachesRow DEF j, Detaches
  <2>2. Caused(j)
    BY <1>9, <2>1 DEF Caused, DetachEffect, j
  <2> QED
    BY <1>2, <2>1, <2>2 DEF DetachEffect
<1>10. ASSUME NEW w \in Workers, Fail(w) PROVE Goal
  <2> DEFINE j == worker[w].job
  <2>1. j \in Jobs
    BY <1>10, Working DEF Fail, At
  <2>2. CASE ~Owns(w)
    BY <1>1, <1>10, <2>1, <2>2, FailRow DEF Goal
  <2>3. CASE Owns(w)
    <3> HIDE DEF j
    <3>1. /\ Only(j) /\ Alike(job'[j], job[j])
          /\ job'[j].status = IF job[j].attempts = MaxAttempts THEN "failed" ELSE "queued"
      BY <1>10, <2>1, <2>3, FailRow DEF j
    <3>2. job'[j].status # "succeeded"
      BY <3>1
    <3> QED
      BY <1>2, <2>1, <3>1, <3>2 DEF Alike, Caused
  <2> QED
    BY <2>2, <2>3
<1>11. ASSUME NEW w \in Workers, StepFails(w) \/ Crash(w) PROVE Goal
  <2> DEFINE j == worker[w].job
  <2>1. j \in Jobs /\ Fault(j)
    BY <1>11, Working DEF StepFails, Crash, At
  <2> QED
    BY <1>2, <2>1, FaultRow DEF Alike, Caused
<1> QED
  BY <1>1, <1>3, <1>4, <1>5, <1>6, <1>7, <1>8, <1>9, <1>10, <1>11, WhoChangesJobs
     DEF Goal, Detaches

-----------------------------------------------------------------------------
(***************************************************************************)
(* Rows have their objects.                                                *)
(***************************************************************************)
LEMMA UploadStep ==
    ASSUME Typed, JobsHeld, WorkersHeld, UploadHeld, RowsHeld, [Next]_vars
    PROVE  UploadHeld'
<1>1. ASSUME NEW p \in Projects, project'[p].status # "gone" PROVE project[p].status # "gone"
  BY <1>1, ProjectsStep DEF ProjectMoves
<1>2. CASE UNCHANGED upload /\ (upload.key \in stored /\ upload.key \in Payloads
                                 /\ project[upload.key[1]].status # "gone"
                                   => upload.key \in stored')
  <2>1. ASSUME upload.key \in Payloads
        PROVE  /\ upload.key[1] \in Projects
               /\ upload.pc = "put" /\ project'[upload.key[1]].status # "gone"
                    => upload.key \in stored'
    <3>1. upload.key[1] \in Projects
      BY <2>1, PayloadKey
    <3> QED
      BY <1>1, <1>2, <2>1, <3>1 DEF UploadHeld
  <2> QED
    BY <1>2, <2>1 DEF UploadHeld
<1>3. CASE UNCHANGED <<rows, stored, upload, orphans>>
  BY <1>2, <1>3
<1>4. ASSUME NEW k \in Payloads, StartUpload(k) PROVE UploadHeld'
  BY <1>4, StartRow DEF UploadHeld
<1>5. CASE PutObject
  BY <1>5, PutRow DEF PutObject, UploadHeld
<1>6. CASE RegisterPayload
  BY <1>6, RegisterRow DEF UploadHeld
<1>7. ASSUME NEW w \in Workers, StoreArchive(w) PROVE UploadHeld'
  BY <1>2, <1>7 DEF StoreArchive
<1>8. ASSUME NEW w \in Workers, DetachesAccount(w) \/ DetachesProject(w) PROVE UploadHeld'
  BY <1>2, <1>8, DetachesProjects
<1>9. ASSUME NEW w \in Workers, NEW k \in worker[w].todo, DeleteKey(w, k) PROVE UploadHeld'
  <2>1. k \notin Payloads \/ project[k[1]].status = "gone"
    BY <1>9, TodoGone
  <2> QED
    BY <1>2, <1>9, <2>1 DEF DeleteKey
<1> QED
  BY <1>3, <1>4, <1>5, <1>6, <1>7, <1>8, <1>9, WhoChangesData

LEMMA RowsStored ==
    ASSUME Typed, JobsHeld, WorkersHeld, UploadHeld, RowsHeld, [Next]_vars
    PROVE  rows' \subseteq stored'
<1>0. rows \subseteq stored /\ rows \subseteq Payloads
  BY DEF RowsHeld, Typed
<1>1. CASE UNCHANGED <<rows, stored, upload, orphans>>
  BY <1>0, <1>1
<1>2. ASSUME NEW k \in Payloads, StartUpload(k) PROVE rows' \subseteq stored'
  BY <1>0, <1>2 DEF StartUpload
<1>3. CASE PutObject
  BY <1>0, <1>3 DEF PutObject
<1>4. CASE RegisterPayload
  BY <1>0, <1>4, RegisterRow DEF RegisterPayload, UploadHeld
<1>5. ASSUME NEW w \in Workers, StoreArchive(w) PROVE rows' \subseteq stored'
  BY <1>0, <1>5 DEF StoreArchive
<1>6. ASSUME NEW w \in Workers, DetachesAccount(w) \/ DetachesProject(w)
      PROVE  rows' \subseteq stored'
  BY <1>0, <1>6, DetachesProjects
<1>7. ASSUME NEW w \in Workers, NEW k \in worker[w].todo, DeleteKey(w, k)
      PROVE  rows' \subseteq stored'
  <2>1. k \notin rows
    BY <1>0, <1>7, TodoGone
  <2> QED
    BY <1>0, <1>7, <2>1 DEF DeleteKey
<1> QED
  BY <1>1, <1>2, <1>3, <1>4, <1>5, <1>6, <1>7, WhoChangesData

LEMMA GoneEmpty ==
    ASSUME Typed, JobsHeld, WorkersHeld, UploadHeld, RowsHeld, [Next]_vars,
           NEW p \in Projects, project'[p].status = "gone"
    PROVE  rows' \cap OfProject(p) = {}
<1>1. CASE project[p].status = "gone"
  <2>1. rows \cap OfProject(p) = {}
    BY <1>1 DEF RowsHeld
  <2>2. CASE rows' \subseteq rows
    BY <2>1, <2>2
  <2>3. CASE RegisterPayload
    <3>1. upload.key \in Payloads
      BY <2>3, RegisterRow
    <3>2. upload.key \in OfProject(p) => p = upload.key[1]
      BY <3>1, PayloadKey
    <3>3. rows' = rows \/ (rows' = rows \cup {upload.key} /\ project[upload.key[1]].status = "active")
      BY <2>3 DEF RegisterPayload
    <3> QED
      BY <1>1, <2>1, <3>2, <3>3
  <2>4. CASE \E w \in Workers : DetachesAccount(w) \/ DetachesProject(w)
    BY <2>2, <2>4, DetachesProjects
  <2> QED
    BY <2>2, <2>3, <2>4, WhoChangesData DEF StartUpload, PutObject, StoreArchive, DeleteKey
<1>2. CASE project[p].status # "gone"
  <2>1. PICK w \in Workers : DetachesAccount(w) \/ (DetachesProject(w) /\ p = Mine(w).project)
    BY <1>2, ProjectsStep DEF ProjectMoves
  <2>2. rows' = rows \ DetachKeys(w) /\ DetachEffect(w, worker[w].job)
    BY <2>1, DetachesProjects, DetachesRow
  <2>3. CASE DetachesAccount(w)
    <3>1. rows \subseteq DetachKeys(w)
      BY <2>2, <2>3 DEF DetachKeys, DetachEffect, Mine
    <3> QED
      BY <2>2, <3>1
  <2>4. CASE ~DetachesAccount(w)
    <3>1. DetachKeys(w) = rows \cap OfProject(p)
      BY <2>1, <2>2, <2>4 DEF DetachKeys, DetachEffect, Mine
    <3> QED
      BY <2>2, <3>1
  <2> QED
    BY <2>3, <2>4
<1> QED
  BY <1>1, <1>2

LEMMA RowsStep ==
    ASSUME Typed, JobsHeld, WorkersHeld, UploadHeld, RowsHeld, ConfirmingHeld, [Next]_vars
    PROVE  RowsHeld'
<1> DEFINE DetachedGone(j) ==
        /\ job'[j].kind = "project" => project'[job'[j].project].status = "gone"
        /\ job'[j].kind = "account" => \A p \in Projects : project'[p].status = "gone"
<1>1. ASSUME NEW j \in Jobs, job'[j].detached PROVE DetachedGone(j)
  <2>1. CASE job[j].detached
    <3>1. JobOK(j, job[j]) /\ job[j].kind # "none"
      BY <2>1 DEF JobsHeld, JobOK
    <3>2. job'[j].kind = job[j].kind /\ job'[j].project = job[j].project
      BY <3>1, JobsKept DEF Kept
    <3>3. \A p \in Projects : project[p].status = "gone" => project'[p].status = "gone"
      BY ProjectsStep DEF ProjectMoves
    <3> QED
      BY <2>1, <3>1, <3>2, <3>3 DEF JobOK, RowsHeld
  <2>2. CASE ~job[j].detached
    <3>1. PICK w \in Workers : Detaches(w) /\ j = worker[w].job
      BY <1>1, <2>2, JobsCaused DEF Caused
    <3>2. DetachEffect(w, j)
      BY <3>1, DetachesRow DEF Detaches
    <3>3. CASE DetachesAccount(w)
      BY <3>2, <3>3, DetachesProjects DEF DetachEffect
    <3>4. CASE ~DetachesAccount(w)
      <4>1. project'[Mine(w).project].status = "gone"
        BY <3>1, <3>4, DetachesProjects DEF Detaches
      <4>2. job'[j].kind = "project" /\ job'[j].project = Mine(w).project
        BY <3>1, <3>2, <3>4 DEF DetachEffect, Mine
      <4> QED
        BY <4>1, <4>2
    <3> QED
      BY <3>3, <3>4
  <2> QED
    BY <2>1, <2>2
<1> QED
  BY <1>1, RowsStored, GoneEmpty DEF RowsHeld

-----------------------------------------------------------------------------
(***************************************************************************)
(* What a purge has deleted comes back only with an upload, or with an     *)
(* exporter that has lost its lease.                                       *)
(***************************************************************************)
Excused == orphans \cup Flying

LEMMA ComesBack ==
    ASSUME Typed, JobsHeld, WorkersHeld, UploadHeld, RowsHeld, PurgerHeld, [Next]_vars,
           NEW j \in Jobs, job[j].detached, NEW k \in job[j].keys, k \in stored', k \notin Excused'
    PROVE  k \in stored /\ k \notin Excused
<1>0. \/ /\ job[j].kind = "account" /\ k = Archive(job[j].export) /\ k \notin Payloads
         /\ job[j].export \in Jobs /\ job[job[j].export].status = "succeeded"
      \/ k \in Payloads /\ project[k[1]].status = "gone" /\ k \notin rows
  <2>1. JobOK(j, job[j])
    BY DEF JobsHeld
  <2> QED
    BY <2>1, KeysGone DEF JobOK, PurgerHeld, IsPurger, IsExporter
<1>1. CASE UNCHANGED <<rows, stored, upload, orphans>>
  BY <1>1 DEF Excused, Flying
<1>2. ASSUME NEW l \in Payloads, StartUpload(l) PROVE k \in stored /\ k \notin Excused
  BY <1>2 DEF StartUpload, Excused, Flying, NoUpload
<1>3. CASE PutObject
  BY <1>3, PutRow DEF PutObject, Excused, Flying
<1>4. CASE RegisterPayload
  <2>1. upload.key \in Payloads /\ Flying = {upload.key} /\ UNCHANGED stored
    BY <1>4, RegisterRow DEF RegisterPayload, Flying
  <2>2. CASE project[upload.key[1]].status = "active"
    <3>1. k # upload.key /\ UNCHANGED orphans
      BY <1>0, <1>4, <2>1, <2>2 DEF RegisterPayload
    <3> QED
      BY <2>1, <3>1 DEF Excused
  <2>3. CASE project[upload.key[1]].status # "active"
    BY <1>4, <2>1, <2>3 DEF RegisterPayload, Excused
  <2> QED
    BY <2>2, <2>3
<1>5. ASSUME NEW w \in Workers, StoreArchive(w) PROVE k \in stored /\ k \notin Excused
  <2> DEFINE e == worker[w].job
  <2>1. /\ e \in Jobs /\ Archive(Mine(w).export) = Archive(e) /\ UNCHANGED upload
        /\ Archive(e) \in Archives
    BY <1>5, ArchiveKey DEF StoreArchive
  <2>2. orphans \subseteq orphans' /\ Flying' = Flying
    BY <1>5, <2>1 DEF StoreArchive, Flying
  <2>3. CASE UNCHANGED <<stored, orphans>>
    BY <2>2, <2>3 DEF Excused
  <2>4. CASE stored' = stored \cup {Archive(e)} /\ Archive(e) \in orphans'
    BY <2>2, <2>4 DEF Excused
  <2>5. CASE stored' = stored \cup {Archive(e)} /\ Holds(w)
    <3>1. job[e].status = "running"
      BY <2>5 DEF Holds, Owns, Mine
    <3>2. k # Archive(e)
      BY <1>0, <2>1, <3>1, PayloadKey DEF Archive
    <3> QED
      BY <2>2, <2>5, <3>2 DEF Excused
  <2> QED
    BY <1>5, <2>1, <2>3, <2>4, <2>5 DEF StoreArchive
<1>6. ASSUME NEW w \in Workers, DetachesAccount(w) \/ DetachesProject(w)
      PROVE  k \in stored /\ k \notin Excused
  BY <1>6, DetachesProjects DEF Excused, Flying
<1>7. ASSUME NEW w \in Workers, NEW l \in worker[w].todo, DeleteKey(w, l)
      PROVE  k \in stored /\ k \notin Excused
  BY <1>7 DEF DeleteKey, Excused, Flying
<1> QED
  BY <1>1, <1>2, <1>3, <1>4, <1>5, <1>6, <1>7, WhoChangesData

LEMMA WhoDeletes ==
    ASSUME Typed, JobsHeld, WorkersHeld, [Next]_vars, NEW w \in Workers,
           worker'[w].pc = "deleting"
    PROVE  \/ worker'[w] = worker[w]
           \/ worker'[w].job \in Jobs /\ worker'[w].todo = job'[worker'[w].job].keys
           \/ \E k \in worker[w].todo : /\ DeleteKey(w, k)
                                        /\ worker'[w].job = worker[w].job
                                        /\ worker'[w].todo = worker[w].todo \ {k}
<1>1. ASSUME NEW v \in Workers, Fails(v) \/ Rests(v) PROVE worker'[w] = worker[w]
  <2>1. Fails(v) => v # w
    BY GoesRow DEF Fails, Places
  <2>2. Rests(v) => v # w
    BY RestsRow
  <2> QED
    BY <1>1, <2>1, <2>2, GoesRow, RestsRow DEF Fails, Places
<1>2. ASSUME NEW v \in Workers, NEW pc \in Places \ {"deleting"}, NEW todo \in SUBSET Objects,
             Goes(v, pc, todo)
      PROVE  worker'[w] = worker[w]
  BY <1>2, GoesRow
<1>3. ASSUME NEW v \in Workers, NEW j \in Jobs, Claim(v, j) PROVE worker'[w] = worker[w]
  BY <1>3, ClaimMoves DEF Moves
<1>4. rows \subseteq Objects /\ {} \subseteq Objects
  BY DEF Typed, Objects
<1>5. ASSUME NEW v \in Workers, PrepareExport(v) PROVE worker'[w] = worker[w]
  BY <1>1, <1>2, <1>4, <1>5 DEF PrepareExport, Places
<1>6. ASSUME NEW v \in Workers, NEW k \in worker[v].todo, FetchPayload(v, k)
      PROVE  worker'[w] = worker[w]
  <2>1. worker[v].todo \ {k} \subseteq Objects
    BY <1>6, Working DEF FetchPayload, At
  <2> QED
    BY <1>1, <1>2, <1>6, <2>1 DEF FetchPayload, Places
<1>7. ASSUME NEW v \in Workers, StoreArchive(v) PROVE worker'[w] = worker[w]
  BY <1>1, <1>2, <1>4, <1>7 DEF StoreArchive, Places
<1>8. ASSUME NEW v \in Workers,
             \/ CompleteExport(v) \/ RefusePhase(v) \/ CompleteAccountPurge(v)
             \/ CompleteProjectPurge(v) \/ Fail(v) \/ StepFails(v) \/ Crash(v)
      PROVE  worker'[w] = worker[w]
  BY <1>1, <1>8 DEF CompleteExport, RefusePhase, CompleteAccountPurge, CompleteProjectPurge,
                    Fail, StepFails, Crash
<1>9. ASSUME NEW v \in Workers, v # w, NEW todo \in SUBSET Objects, Goes(v, "deleting", todo)
      PROVE  worker'[w] = worker[w]
  BY <1>9, GoesRow DEF Places
<1>10. ASSUME NEW v \in Workers, NEW k \in worker[v].todo, DeleteKey(v, k)
       PROVE  \/ worker'[w] = worker[w]
              \/ v = w /\ worker'[w].job = worker[w].job /\ worker'[w].todo = worker[w].todo \ {k}
  <2>1. worker[v].todo \ {k} \in SUBSET Objects
    BY <1>10, Working DEF DeleteKey, At
  <2> QED
    BY <1>9, <1>10, <2>1, GoesRow DEF DeleteKey, Places
<1>11. ASSUME NEW v \in Workers, Detaches(v)
       PROVE  \/ worker'[w] = worker[w]
              \/ worker'[w].job \in Jobs /\ worker'[w].todo = job'[worker'[w].job].keys
  <2>1. DetachEffect(v, worker[v].job)
    BY <1>11, DetachesRow DEF Detaches
  <2>2. Goes(v, "deleting", DetachKeys(v)) /\ DetachKeys(v) \in SUBSET Objects
    BY <2>1 DEF DetachEffect
  <2>3. v = w => worker'[w].job = worker[w].job /\ worker'[w].todo = DetachKeys(w)
    BY <2>2, GoesRow DEF Places
  <2> QED
    BY <1>9, <2>1, <2>2, <2>3 DEF DetachEffect
<1>12. ASSUME NEW v \in Workers, PrepareProjectPurge(v) \/ PrepareAccountPurge(v)
       PROVE  \/ worker'[w] = worker[w]
              \/ worker'[w].job \in Jobs /\ worker'[w].todo = job'[worker'[w].job].keys
  <2>1. \/ Detaches(v) \/ Fails(v)
        \/ PrepareProjectPurge(v) /\ Goes(v, "deleting", Mine(v).keys) /\ UNCHANGED job
    BY <1>12 DEF PrepareProjectPurge, PrepareAccountPurge, Detaches, DetachesAccount,
                 DetachesProject
  <2>2. CASE PrepareProjectPurge(v) /\ Goes(v, "deleting", Mine(v).keys) /\ UNCHANGED job
    <3>1. worker[v].job \in Jobs
      BY <2>2, Working DEF PrepareProjectPurge, At
    <3>2. Mine(v).keys \in SUBSET Objects
      BY <3>1 DEF Typed, JobRows, Mine
    <3>3. v = w => worker'[w].job = worker[w].job /\ worker'[w].todo = Mine(w).keys
      BY <2>2, <3>2, GoesRow DEF Places
    <3> QED
      BY <1>9, <2>2, <3>1, <3>2, <3>3 DEF Mine
  <2> QED
    BY <1>1, <1>11, <2>1, <2>2
<1> QED
  BY <1>3, <1>5, <1>6, <1>7, <1>8, <1>10, <1>12, WhoMoves DEF Acts

LEMMA DeletedStep ==
    ASSUME Typed, JobsHeld, WorkersHeld, UploadHeld, RowsHeld, DeletedHeld, PurgerHeld,
           ConfirmingHeld, [Next]_vars
    PROVE  DeletedHeld'
<1> SUFFICES ASSUME NEW w \in Workers, worker'[w].pc = "deleting",
                    NEW k \in job'[worker'[w].job].keys \ worker'[w].todo,
                    k \in stored', k \notin Excused'
             PROVE  FALSE
  BY DEF DeletedHeld, Excused
<1>1. ASSUME worker[w].pc = "deleting", worker'[w].job = worker[w].job
      PROVE  /\ worker[w].job \in Jobs /\ job[worker[w].job].detached
             /\ k \in job[worker[w].job].keys
             /\ k \in stored /\ k \notin Excused
  <2> DEFINE j == worker[w].job
  <2>1. j \in Jobs /\ job[j].detached /\ job[j].kind # "none"
    BY <1>1, Working DEF WorkersHeld, WorkerOK
  <2> HIDE DEF j
  <2>2. job'[j].keys = job[j].keys
    BY <2>1, JobsKept DEF Kept
  <2>3. k \in job[j].keys
    BY <1>1, <2>2 DEF j
  <2>4. k \in stored /\ k \notin Excused
    BY <2>1, <2>3, ComesBack
  <2> QED
    BY <2>1, <2>3, <2>4 DEF j
<1>2. CASE worker'[w] = worker[w]
  BY <1>1, <1>2 DEF DeletedHeld, Excused
<1>3. CASE worker'[w].todo = job'[worker'[w].job].keys
  BY <1>3
<1>4. ASSUME NEW l \in worker[w].todo, DeleteKey(w, l), worker'[w].job = worker[w].job,
             worker'[w].todo = worker[w].todo \ {l}
      PROVE  FALSE
  <2>1. worker[w].pc = "deleting" /\ k # l
    BY <1>4 DEF DeleteKey, At
  <2> QED
    BY <1>1, <1>4, <2>1 DEF DeletedHeld, Excused
<1> QED
  BY <1>2, <1>3, <1>4, WhoDeletes

-----------------------------------------------------------------------------
(***************************************************************************)
(* Every object is accounted for.                                          *)
(***************************************************************************)
LEMMA Completes ==
    ASSUME Typed, JobsHeld, WorkersHeld, NEW w \in Workers, Succeeds(w)
    PROVE  LET j == worker[w].job IN
           /\ j \in Jobs /\ Only(j) /\ Alike(job'[j], job[j])
           /\ job[j].status = "running" /\ job'[j].status = "succeeded"
           /\ job[j].lease = w /\ ~job[j].expired /\ job'[j].failures = job[j].failures
           /\ UNCHANGED <<project, rows, stored, upload, orphans, confirming>>
           /\ Rests(w)
           /\ \/ CompleteExport(w) /\ worker[w].pc = "archived" /\ IsExporter(j, job[j])
              \/ /\ CompleteAccountPurge(w) \/ CompleteProjectPurge(w)
                 /\ ~CompleteExport(w) /\ ~IsExporter(j, job[j])
                 /\ worker[w].pc = "deleting" /\ worker[w].todo = {} /\ job[j].detached
<1> DEFINE j == worker[w].job
<1>1. /\ worker[w].pc \in {"archived", "deleting"}
      /\ CompleteExport(w) => worker[w].pc = "archived"
      /\ ~CompleteExport(w) => worker[w].pc = "deleting" /\ worker[w].todo = {}
      /\ UNCHANGED <<project, rows, stored, upload, orphans, confirming>>
  BY DEF Succeeds, CompleteExport, CompleteAccountPurge, CompleteProjectPurge, At
<1>2. /\ j \in Jobs
      /\ worker[w].pc = "archived" => IsExporter(j, job[j])
      /\ worker[w].pc = "deleting" => job[j].detached
  BY <1>1, Working DEF WorkersHeld, WorkerOK
<1>3. job[j].detached => ~IsExporter(j, job[j])
  BY <1>2 DEF JobsHeld, JobOK
<1>4. job[j].status = "running" /\ job[j].lease = w /\ ~job[j].expired
  BY DEF Succeeds, Holds, Owns, Mine
<1>5. /\ Only(j) /\ Alike(job'[j], job[j])
      /\ job'[j].status = "succeeded" /\ job'[j].failures = job[j].failures
  BY <1>2, SucceedRow DEF Succeeds
<1> HIDE DEF j
<1> QED
  BY <1>1, <1>2, <1>3, <1>4, <1>5 DEF Succeeds, j

LEMMA PendingStays ==
    ASSUME Typed, JobsHeld, WorkersHeld, DeletedHeld, ConfirmingHeld, [Next]_vars,
           NEW k, k \in stored, k \notin Excused, Pending(k)
    PROVE  Pending(k)'
<1>1. PICK j \in Jobs : job[j].detached /\ job[j].status # "succeeded" /\ k \in job[j].keys
  BY DEF Pending
<1>2. job'[j].detached /\ job'[j].keys = job[j].keys
  BY <1>1, JobsKept DEF Kept, JobsHeld, JobOK
<1>3. ASSUME job'[j].status = "succeeded" PROVE FALSE
  <2>1. PICK w \in Workers : Succeeds(w) /\ j = worker[w].job
    BY <1>1, <1>3, JobsCaused DEF Caused
  <2>2. worker[w].pc = "deleting" /\ worker[w].todo = {}
    BY <1>1, <2>1, Completes DEF JobsHeld, JobOK
  <2> QED
    BY <1>1, <2>1, <2>2 DEF DeletedHeld, Excused
<1> QED
  BY <1>1, <1>2, <1>3 DEF Pending

LEMMA NewlyStored ==
    ASSUME Typed, JobsHeld, WorkersHeld, UploadHeld, [Next]_vars,
           NEW k \in stored', k \notin stored
    PROVE  k \in Flying' \/ k \notin Payloads
<1>1. CASE PutObject
  BY <1>1, PutRow DEF PutObject, Flying
<1>2. ASSUME NEW w \in Workers, StoreArchive(w) PROVE k \notin Payloads
  <2>1. stored' = stored \/ stored' = stored \cup {Archive(worker[w].job)}
    BY <1>2, ArchiveKey DEF StoreArchive
  <2> QED
    BY <1>2, <2>1, ArchiveKey, PayloadKey
<1> QED
  BY <1>1, <1>2, WhoChangesData, DetachesProjects
     DEF StartUpload, RegisterPayload, DeleteKey

LEMMA RowsLeave ==
    ASSUME Typed, JobsHeld, WorkersHeld, [Next]_vars, NEW k \in rows, k \notin rows'
    PROVE  Pending(k)'
<1>1. PICK w \in Workers : DetachesAccount(w) \/ DetachesProject(w)
  BY WhoChangesData
     DEF StartUpload, PutObject, RegisterPayload, StoreArchive, DeleteKey
<1>2. k \in DetachKeys(w) /\ DetachEffect(w, worker[w].job)
  BY <1>1, DetachesProjects, DetachesRow
<1> QED
  BY <1>2 DEF DetachEffect, Pending

LEMMA ExcusedStay ==
    ASSUME Typed, UploadHeld, [Next]_vars, NEW k \in Excused, k \in stored'
    PROVE  k \in rows' \cup Excused'
<1>1. CASE RegisterPayload
  BY <1>1, RegisterRow DEF RegisterPayload, Excused, Flying
<1>2. ASSUME NEW l \in Payloads, StartUpload(l) PROVE k \in Excused'
  BY <1>2 DEF StartUpload, Excused, Flying, NoUpload
<1>3. CASE PutObject
  BY <1>3, PutRow DEF PutObject, Excused, Flying
<1>4. CASE \/ UNCHANGED <<rows, stored, upload, orphans>>
           \/ \E w \in Workers : \E l \in worker[w].todo : DeleteKey(w, l)
  BY <1>4 DEF DeleteKey, Excused, Flying
<1>5. ASSUME NEW w \in Workers, StoreArchive(w) PROVE k \in Excused'
  BY <1>5 DEF StoreArchive, Excused, Flying
<1>6. ASSUME NEW w \in Workers, DetachesAccount(w) \/ DetachesProject(w) PROVE k \in Excused'
  <2>1. UNCHANGED <<upload, orphans>>
    BY <1>6 DEF DetachesAccount, DetachesProject, PrepareAccountPurge, PrepareProjectPurge
  <2> QED
    BY <2>1 DEF Excused, Flying
<1> QED
  BY <1>1, <1>2, <1>3, <1>4, <1>5, <1>6, WhoChangesData

LEMMA ArchiveStaysGone ==
    ASSUME Typed, JobsHeld, WorkersHeld, UploadHeld, PurgerHeld, [Next]_vars,
           NEW j \in Jobs, IsPurger(j, job[j]),
           Archive(job[j].export) \in stored', Archive(job[j].export) \notin orphans'
    PROVE  Archive(job[j].export) \in stored /\ Archive(job[j].export) \notin orphans
<1> DEFINE a == Archive(job[j].export)
<1>1. job[j].export \in Jobs /\ job[job[j].export].status = "succeeded"
  BY DEF PurgerHeld, IsPurger, JobsHeld, JobOK
<1>2. a \notin Payloads
  BY <1>1, PayloadKey
<1>3. orphans \cap stored' \subseteq orphans'
  BY WhoChangesData, DetachesProjects
     DEF StartUpload, PutObject, RegisterPayload, StoreArchive, DeleteKey
<1>4. a \in stored
  <2>1. CASE PutObject
    BY <1>2, <2>1, PutRow DEF PutObject
  <2>2. ASSUME NEW w \in Workers, StoreArchive(w) PROVE a \in stored
    <3>1. /\ worker[w].job \in Jobs /\ Archive(Mine(w).export) = Archive(worker[w].job)
          /\ Mine(w) = job[worker[w].job]
      BY <2>2, ArchiveKey DEF Mine
    <3>2. CASE Holds(w)
      <4>1. job[worker[w].job].status = "running"
        BY <3>1, <3>2 DEF Holds, Owns
      <4>2. a # Archive(worker[w].job)
        BY <1>1, <4>1 DEF Archive
      <4> QED
        BY <2>2, <3>1, <4>2 DEF StoreArchive
    <3>3. CASE ~Holds(w)
      BY <2>2, <3>1, <3>3 DEF StoreArchive
    <3> QED
      BY <3>2, <3>3
  <2> QED
    BY <2>1, <2>2, WhoChangesData, DetachesProjects
       DEF StartUpload, RegisterPayload, DeleteKey
<1> QED
  BY <1>3, <1>4

LEMMA AccountedStep ==
    ASSUME Typed, JobsHeld, WorkersHeld, UploadHeld, RowsHeld, DeletedHeld, Accounted,
           PurgerHeld, ConfirmingHeld, [Next]_vars
    PROVE  Accounted'
<1>1. ASSUME NEW k \in stored' \cap Payloads
      PROVE  k \in (rows \cup orphans \cup Flying)' \/ Pending(k)'
  <2>1. CASE k \notin stored
    BY <1>1, <2>1, NewlyStored
  <2>2. CASE k \in Excused
    BY <2>2, ExcusedStay DEF Excused
  <2>3. CASE k \in rows
    BY <2>3, RowsLeave
  <2>4. CASE k \in stored /\ k \notin Excused /\ k \notin rows
    BY <1>1, <2>4, PendingStays DEF Accounted, Excused
  <2> QED
    BY <2>1, <2>2, <2>3, <2>4
<1>2. ASSUME NEW j \in Jobs, IsPurger(j, job'[j]), job'[j].status = "succeeded"
      PROVE  Archive(job'[j].export) \notin (stored \ orphans)'
  <2>0. ~Makes(j) /\ job[j].kind # "none"
    BY <1>2, JobsCaused DEF IsPurger, Caused, Makes, Made
  <2>1. IsPurger(j, job[j]) /\ job'[j].export = job[j].export
    BY <1>2, <2>0, JobsKept DEF Kept, IsPurger
  <2>2. CASE job[j].status = "succeeded"
    BY <2>1, <2>2, ArchiveStaysGone DEF Accounted
  <2>3. CASE job[j].status # "succeeded"
    <3>1. PICK w \in Workers : Succeeds(w) /\ j = worker[w].job
      BY <1>2, <2>3, JobsCaused DEF Caused
    <3>2. /\ worker[w].pc = "deleting" /\ worker[w].todo = {} /\ job[j].detached
          /\ UNCHANGED <<stored, orphans>>
      BY <2>1, <3>1, Completes DEF IsPurger, IsExporter
    <3>3. Archive(job[j].export) \in job[j].keys /\ job[j].export \in Jobs
      BY <2>1, <3>2 DEF JobsHeld, JobOK, IsPurger
    <3>4. Archive(job[j].export) \notin Flying
      BY <3>3, PayloadKey DEF Flying, UploadHeld
    <3> QED
      BY <2>1, <3>1, <3>2, <3>3, <3>4 DEF DeletedHeld
  <2> QED
    BY <2>2, <2>3
<1> QED
  BY <1>1, <1>2 DEF Accounted

-----------------------------------------------------------------------------
(***************************************************************************)
(* At most one purge of the account.                                       *)
(***************************************************************************)
Ready == Typed /\ JobsHeld /\ WorkersHeld /\ ConfirmingHeld /\ [Next]_vars

LEMMA PurgerBefore ==
    ASSUME Ready, NEW j \in Jobs, IsPurger(j, job'[j])
    PROVE  \/ IsPurger(j, job[j]) /\ job'[j].export = job[j].export
           \/ /\ Confirm(j) /\ Made(j, "account", "purge", None, confirming)
              /\ job[j].kind = "none" /\ confirming \in Jobs /\ confirming # j
<1>1. CASE job[j].kind = "none"
  <2>1. Makes(j) /\ job'[j].kind = "account" /\ job'[j].export # j
    BY <1>1, JobsCaused DEF Ready, Caused, IsPurger
  <2> QED
    BY <1>1, <2>1 DEF Makes, Made
<1>2. CASE job[j].kind # "none"
  BY <1>2, JobsKept DEF Ready, Kept, IsPurger
<1> QED
  BY <1>1, <1>2

LEMMA PurgerAfter ==
    ASSUME Ready, NEW j \in Jobs, IsPurger(j, job[j])
    PROVE  IsPurger(j, job'[j]) /\ job'[j].export = job[j].export
BY JobsKept DEF Ready, Kept, IsPurger

LEMMA ExporterAfter ==
    ASSUME Ready, NEW j \in Jobs, IsExporter(j, job[j])
    PROVE  IsExporter(j, job'[j]) /\ (job[j].status = "succeeded" => job'[j].status = "succeeded")
BY JobsKept DEF Ready, Kept, IsExporter

LEMMA ActiveBefore ==
    ASSUME Ready, NEW j \in Jobs, Active(j)'
    PROVE  \/ /\ Active(j) /\ job[j].kind # "none" /\ job'[j].kind = job[j].kind
              /\ job'[j].export = job[j].export /\ job'[j].project = job[j].project
           \/ Makes(j) /\ job[j].kind = "none"
<1>1. job'[j].kind # "none"
  BY JobsStep DEF Ready, JobsHeld, JobOK, Active
<1>2. CASE job[j].kind = "none"
  BY <1>1, <1>2, JobsCaused DEF Ready, Caused
<1>3. CASE job[j].kind # "none"
  BY <1>3, JobsKept DEF Ready, Kept, Active
<1> QED
  BY <1>2, <1>3

\* The purger that completes is the account's only one.
LEMMA PurgerCompletes ==
    ASSUME Ready, OnePurge, NEW w \in Workers, CompleteAccountPurge(w), Succeeds(w)
    PROVE  LET j == worker[w].job IN
           /\ j \in Jobs /\ IsPurger(j, job[j]) /\ account = "deleting" /\ account' = "deleted"
           /\ job'[j].status = "succeeded" /\ UNCHANGED confirming
<1> DEFINE j == worker[w].job
<1>1. worker[w].pc = "deleting" /\ Mine(w).kind = "account" /\ account' = "deleted"
  BY DEF CompleteAccountPurge, Succeeds, At
<1>2. /\ j \in Jobs /\ job[j].status = "running" /\ job'[j].status = "succeeded"
      /\ ~IsExporter(j, job[j]) /\ UNCHANGED confirming
  BY <1>1, Completes DEF Ready
<1>3. IsPurger(j, job[j])
  BY <1>1, <1>2 DEF Mine, IsPurger, IsExporter
<1>4. account = "deleting"
  BY <1>2, <1>3 DEF OnePurge, Active
<1> QED
  BY <1>1, <1>2, <1>3, <1>4

LEMMA NoPurgerYet ==
    ASSUME OnePurge, account \in {"active", "disabled"}, NEW j \in Jobs
    PROVE  ~IsPurger(j, job[j])
BY DEF OnePurge

LEMMA OnePurgeStep ==
    ASSUME Ready, OnePurge
    PROVE  OnePurge'
<1>1. ASSUME confirming' # None
      PROVE  account' \in {"active", "disabled"} /\ NoneActive("project")'
  <2>1. /\ account \in {"active", "disabled"} /\ NoneActive("project")
        /\ account' \in {"active", "disabled"}
    <3>1. CASE UNCHANGED <<account, confirming>>
      BY <1>1, <3>1 DEF OnePurge
    <3>2. CASE SetAccountStatus \/ ConfirmFails
      BY <1>1, <3>2 DEF SetAccountStatus, ConfirmFails
    <3>3. ASSUME NEW j \in Jobs, StartConfirm(j) \/ Confirm(j)
          PROVE  /\ account \in {"active", "disabled"} /\ NoneActive("project")
                 /\ account' \in {"active", "disabled"}
      BY <1>1, <3>3 DEF StartConfirm, Confirm
    <3>4. ASSUME NEW w \in Workers, CompleteAccountPurge(w), Succeeds(w) PROVE FALSE
      BY <1>1, <3>4, PurgerCompletes DEF OnePurge
    <3> QED
      BY <3>1, <3>2, <3>3, <3>4, WhoChangesAccount DEF Ready
  <2>2. ASSUME NEW j \in Jobs, job'[j].kind = "project", Active(j)' PROVE FALSE
    <3>1. \/ Active(j) /\ job'[j].kind = job[j].kind
          \/ Makes(j)
      BY <2>2, ActiveBefore
    <3>2. Makes(j)
      BY <2>1, <2>2, <3>1 DEF NoneActive
    <3> QED
      BY <1>1, <2>2, <3>2 DEF Makes, Made, EnqueueProjectPurge
  <2> QED
    BY <2>1, <2>2 DEF NoneActive
<1>2. ASSUME NEW i \in Jobs, NEW j \in Jobs, IsPurger(i, job'[i]), IsPurger(j, job'[j])
      PROVE  i = j
  <2>1. CASE IsPurger(i, job[i]) /\ IsPurger(j, job[j])
    BY <2>1 DEF OnePurge
  <2>2. ASSUME NEW l \in Jobs, Confirm(l), Made(l, "account", "purge", None, confirming),
               NEW m \in Jobs, l # m
        PROVE  ~IsPurger(m, job'[m])
    <3>1. job'[m] = job[m]
      BY <2>2 DEF Made, Only
    <3>2. account \in {"active", "disabled"}
      BY <2>2 DEF Confirm, OnePurge
    <3> QED
      BY <3>1, <3>2, NoPurgerYet
  <2> QED
    BY <1>2, <2>1, <2>2, PurgerBefore
<1>3. ASSUME NEW j \in Jobs, IsPurger(j, job'[j])
      PROVE  /\ account' \in {"deleting", "deleted"}
             /\ Active(j)' => account' = "deleting"
  <2>1. CASE Confirm(j)
    BY <2>1 DEF Confirm
  <2>2. CASE IsPurger(j, job[j])
    <3>1. account \in {"deleting", "deleted"} /\ (Active(j) => account = "deleting")
          /\ confirming = None
      BY <2>2 DEF OnePurge
    <3>2. Active(j)' => Active(j)
      BY <2>2, JobsKept DEF Ready, Kept, IsPurger, Active
    <3>3. ASSUME NEW w \in Workers, CompleteAccountPurge(w), Succeeds(w)
          PROVE  account' = "deleted" /\ ~Active(j)'
      <4>1. worker[w].job = j /\ account' = "deleted" /\ job'[j].status = "succeeded"
        BY <2>2, <3>3, PurgerCompletes DEF OnePurge
      <4> QED
        BY <4>1 DEF Active
    <3>4. CASE account' = account
      BY <3>1, <3>2, <3>4
    <3> QED
      BY <3>1, <3>3, <3>4, WhoChangesAccount
         DEF Ready, SetAccountStatus, ConfirmFails, StartConfirm, Confirm
  <2> QED
    BY <1>3, <2>1, <2>2, PurgerBefore
<1>4. ASSUME account' \in {"deleting", "deleted"}, NEW j \in Jobs, Active(j)'
      PROVE  IsPurger(j, job'[j])
  <2>1. CASE account \in {"deleting", "deleted"}
    <3>1. ~Makes(j)
      BY <2>1 DEF Makes, EnqueueProjectPurge, RequestExport, Confirm, OnePurge
    <3>2. Active(j)
      BY <1>4, <3>1, ActiveBefore
    <3>3. IsPurger(j, job[j])
      BY <2>1, <3>2 DEF OnePurge
    <3> QED
      BY <3>3, PurgerAfter
  <2>2. CASE account \in {"active", "disabled"}
    <3>1. PICK l \in Jobs : Confirm(l)
      BY <1>4, <2>2, PurgerCompletes, WhoChangesAccount
         DEF Ready, SetAccountStatus, ConfirmFails, StartConfirm
    <3>2. Made(l, "account", "purge", None, confirming) /\ confirming # l
      BY <3>1, ConfirmMakes DEF Ready
    <3>3. CASE j = l
      BY <3>2, <3>3 DEF Made, IsPurger
    <3>4. CASE j # l
      <4>1. job'[j] = job[j]
        BY <3>2, <3>4 DEF Made, Only
      <4>2. Active(j) /\ job[j].kind \in {"project", "account"}
        <5>1. Active(j)
          BY <1>4, <4>1 DEF Active
        <5>2. job[j].kind # "none" /\ job[j].kind \in {"none", "project", "account"}
          BY <5>1 DEF Ready, JobsHeld, JobOK, Active, Typed, JobRows
        <5> QED
          BY <5>1, <5>2
      <4> QED
        BY <3>1, <4>2 DEF Confirm, NoneActive, OnePurge
    <3> QED
      BY <3>3, <3>4
  <2>3. account \in AccountStates
    BY DEF Ready, Typed
  <2> QED
    BY <2>1, <2>2, <2>3 DEF AccountStates
<1> QED
  BY <1>1, <1>2, <1>3, <1>4 DEF OnePurge

-----------------------------------------------------------------------------
(***************************************************************************)
(* Keys are detached once, and waiting purges find their project.          *)
(***************************************************************************)
LEMMA DetachedBefore ==
    ASSUME Ready, NEW j \in Jobs, job'[j].detached, ~job[j].detached
    PROVE  \E w \in Workers : Detaches(w) /\ j = worker[w].job /\ DetachEffect(w, j)
BY JobsCaused, DetachesRow DEF Ready, Caused, Detaches

LEMMA DetachedAfter ==
    ASSUME Ready, NEW j \in Jobs, job[j].detached
    PROVE  /\ job'[j].detached /\ job'[j].keys = job[j].keys
           /\ job'[j].kind = job[j].kind /\ job'[j].project = job[j].project
BY JobsKept DEF Ready, Kept, JobsHeld, JobOK

LEMMA DetachedOnceStep ==
    ASSUME Ready, RowsHeld, DetachedOnce
    PROVE  DetachedOnce'
<1>1. ASSUME NEW i \in Jobs, NEW j \in Jobs, i # j,
             job[i].detached, job[i].kind = "project",
             job'[j].detached, job'[j].kind = "project", ~job[j].detached
      PROVE  job'[j].project # job'[i].project
  <2>1. PICK w \in Workers : Detaches(w) /\ j = worker[w].job /\ DetachEffect(w, j)
    BY <1>1, DetachedBefore
  <2>2. ~DetachesAccount(w) /\ job'[j].project = job[j].project
    BY <1>1, <2>1 DEF DetachEffect
  <2>3. project[job[j].project].status = "deleting"
    BY <2>1, <2>2 DEF Detaches, DetachesProject, Mine
  <2>4. project[job[i].project].status = "gone" /\ job'[i].project = job[i].project
    BY <1>1, DetachedAfter DEF RowsHeld
  <2> QED
    BY <2>2, <2>3, <2>4
<1>2. ASSUME NEW i \in Jobs, NEW j \in Jobs,
             job'[i].detached, job'[i].kind = "project",
             job'[j].detached, job'[j].kind = "project",
             job'[i].project = job'[j].project, i # j
      PROVE  FALSE
  <2>1. CASE job[i].detached /\ job[j].detached
    BY <1>2, <2>1, DetachedAfter DEF DetachedOnce
  <2>2. CASE job[i].detached /\ ~job[j].detached
    BY <1>1, <1>2, <2>2, DetachedAfter
  <2>3. CASE ~job[i].detached /\ job[j].detached
    BY <1>1, <1>2, <2>3, DetachedAfter
  <2>4. CASE ~job[i].detached /\ ~job[j].detached
    <3>1. PICK w \in Workers : DetachEffect(w, j)
      BY <1>2, <2>4, DetachedBefore
    <3>2. job'[i] = job[i]
      BY <1>2, <3>1 DEF DetachEffect, Only
    <3> QED
      BY <1>2, <2>4, <3>2
  <2> QED
    BY <2>1, <2>2, <2>3, <2>4
<1>3. ASSUME NEW i \in Jobs, NEW j \in Jobs,
             job'[i].detached, job'[i].kind = "project",
             job'[j].detached, job'[j].kind = "account"
      PROVE  job'[j].keys \cap OfProject(job'[i].project) = {}
  <2>1. CASE job[i].detached /\ job[j].detached
    BY <1>3, <2>1, DetachedAfter DEF DetachedOnce
  <2>2. CASE job[i].detached /\ ~job[j].detached
    <3>1. PICK w \in Workers : Detaches(w) /\ j = worker[w].job /\ DetachEffect(w, j)
      BY <2>2, <1>3, DetachedBefore
    <3>2. /\ job'[j].keys = rows \cup {Archive(job[j].export)}
          /\ job[j].kind = "account"
      BY <1>3, <3>1 DEF DetachEffect, DetachKeys, Mine
    <3>3. /\ job'[i].project = job[i].project /\ job[i].project \in Projects
          /\ rows \cap OfProject(job[i].project) = {}
          /\ job[j].export \in Jobs
      <4>1. JobOK(i, job[i]) /\ JobOK(j, job[j]) /\ job'[i].project = job[i].project
            /\ job[i].kind = "project"
        BY <1>3, <2>2, DetachedAfter DEF Ready, JobsHeld
      <4>2. job[i].project \in Projects /\ job[j].export \in Jobs
        BY <3>2, <4>1 DEF JobOK
      <4> QED
        BY <2>2, <4>1, <4>2 DEF RowsHeld
    <3>4. Archive(job[j].export) \notin OfProject(job[i].project)
      <4>1. OfProject(job[i].project) \subseteq Payloads
        BY <3>3 DEF OfProject, Payloads
      <4> QED
        BY <3>3, <4>1, PayloadKey
    <3> QED
      BY <3>2, <3>3, <3>4
  <2>3. CASE ~job[i].detached
    <3>1. PICK w \in Workers : Detaches(w) /\ i = worker[w].job /\ DetachEffect(w, i)
      BY <2>3, <1>3, DetachedBefore
    <3>2. i # j /\ ~DetachesAccount(w) /\ job'[j] = job[j]
      BY <1>3, <3>1 DEF DetachEffect, Only
    <3>3. Mine(w).project \in Projects /\ project[Mine(w).project].status = "deleting"
      BY <3>1, <3>2, DetachesProjects DEF Detaches, Ready
    <3> QED
      BY <1>3, <3>2, <3>3 DEF RowsHeld
  <2> QED
    BY <2>1, <2>2, <2>3
<1> QED
  BY <1>2, <1>3 DEF DetachedOnce

LEMMA WaitingBefore ==
    ASSUME Ready, NEW j \in Jobs, Waiting(j)'
    PROVE  /\ job'[j].project \in Projects
           /\ \/ Waiting(j) /\ job'[j].project = job[j].project
              \/ /\ EnqueueProjectPurge(job'[j].project, j)
                 /\ Made(j, "project", "", job'[j].project, None)
<1>1. job'[j].kind = "project" /\ Active(j)' /\ ~job'[j].detached
  BY DEF Waiting
<1>2. job'[j].project \in Projects
  BY <1>1, JobsStep DEF Ready, JobsHeld, JobOK
<1>3. CASE Makes(j)
  BY <1>1, <1>2, <1>3 DEF Makes, Made
<1>4. CASE Active(j) /\ job'[j].kind = job[j].kind /\ job'[j].project = job[j].project
  BY <1>1, <1>2, <1>4, DetachedAfter DEF Waiting
<1> QED
  BY <1>1, <1>3, <1>4, ActiveBefore

LEMMA WaitingStep ==
    ASSUME Ready, OnePurge, WaitingHeld
    PROVE  WaitingHeld'
<1>1. ASSUME NEW p \in Projects PROVE ProjectMoves(p)
  BY ProjectsStep DEF Ready
<1>2. ASSUME NEW p \in Projects, NEW j \in Jobs, EnqueueProjectPurge(p, j)
      PROVE  /\ project'[p].status = "deleting" /\ project'[p].undone = project[p].undone
             /\ project[p].status \in {"active", "disabled"}
  BY <1>2 DEF EnqueueProjectPurge, Ready, Typed, ProjectRows
<1>3. ASSUME NEW j \in Jobs, Waiting(j)'
      PROVE  project'[job'[j].project].status = "deleting" \/ project'[job'[j].project].undone
  <2> DEFINE p == job'[j].project
  <2>1. p \in Projects
    BY <1>3, WaitingBefore
  <2>2. CASE EnqueueProjectPurge(p, j)
    BY <1>2, <2>1, <2>2
  <2>3. CASE Waiting(j) /\ p = job[j].project
    <3>1. project[p].status = "deleting" \/ project[p].undone
      BY <2>3 DEF WaitingHeld
    <3>2. ASSUME project[p].status = "deleting", project'[p].status = "gone",
                 ~project'[p].undone
          PROVE  FALSE
      <4>1. PICK w \in Workers : \/ DetachesAccount(w)
                                 \/ DetachesProject(w) /\ p = Mine(w).project
        BY <1>1, <2>1, <3>2 DEF ProjectMoves
      <4>2. CASE DetachesAccount(w)
        <5>1. account = "deleting"
          BY <4>2 DEF DetachesAccount
        <5> QED
          BY <2>3, <5>1 DEF OnePurge, Waiting, IsPurger
      <4>3. CASE ~DetachesAccount(w)
        <5> DEFINE i == worker[w].job
        <5>1. i \in Jobs /\ DetachEffect(w, i) /\ job[i].project = p
          BY <4>1, <4>3, DetachesRow DEF DetachEffect, Mine, Ready
        <5> HIDE DEF i
        <5>2. Waiting(i) /\ job'[i].detached
          BY <4>3, <5>1 DEF DetachEffect, Waiting, Active
        <5>3. i # j
          BY <1>3, <5>2 DEF Waiting
        <5>4. project[p].undone
          BY <2>3, <5>1, <5>2, <5>3 DEF WaitingHeld
        <5> QED
          BY <1>1, <2>1, <3>2, <5>4 DEF ProjectMoves
      <4> QED
        BY <4>2, <4>3
    <3> QED
      BY <1>1, <2>1, <3>1, <3>2 DEF ProjectMoves
  <2> QED
    BY <1>3, <2>2, <2>3, WaitingBefore
<1>4. ASSUME NEW i \in Jobs, NEW j \in Jobs, i # j, Waiting(i)', Waiting(j)',
             job'[i].project = job'[j].project
      PROVE  project'[job'[j].project].undone
  <2> DEFINE p == job'[j].project
  <2>1. p \in Projects
    BY <1>4, WaitingBefore
  <2>2. ASSUME NEW m \in Jobs, NEW n \in Jobs, m # n, Waiting(m)',
               job'[m].project = p,
               EnqueueProjectPurge(p, n), Made(n, "project", "", p, None)
        PROVE  project'[p].undone
    <3>1. job'[m] = job[m]
      BY <2>2 DEF Made, Only
    <3>2. Waiting(m) /\ job[m].project = p
      BY <2>2, <3>1 DEF Waiting, Active
    <3>3. project[p].undone
      BY <1>2, <2>1, <2>2, <3>2 DEF WaitingHeld
    <3> QED
      BY <1>2, <2>1, <2>2, <3>3
  <2>3. CASE Waiting(i) /\ job'[i].project = job[i].project
             /\ Waiting(j) /\ p = job[j].project
    <3>1. project[p].undone
      BY <1>4, <2>3 DEF WaitingHeld
    <3> QED
      BY <1>1, <2>1, <3>1 DEF ProjectMoves
  <2> HIDE DEF p
  <2>4. CASE EnqueueProjectPurge(p, j) /\ Made(j, "project", "", p, None)
    BY <1>4, <2>2, <2>4 DEF p
  <2>5. CASE EnqueueProjectPurge(p, i) /\ Made(i, "project", "", p, None)
    BY <1>4, <2>2, <2>5 DEF p
  <2> QED
    BY <1>4, <2>3, <2>4, <2>5, WaitingBefore DEF p
<1> QED
  BY <1>3, <1>4 DEF WaitingHeld

LEMMA WhoArchives ==
    ASSUME Ready, NEW w \in Workers, worker'[w].pc = "archived"
    PROVE  \/ worker'[w] = worker[w]
           \/ /\ StoreArchive(w) /\ Goes(w, "archived", {})
              /\ stored' = stored \cup {Archive(Mine(w).export)}
<1>0. Typed /\ JobsHeld /\ WorkersHeld /\ [Next]_vars
  BY DEF Ready
<1>1. ASSUME NEW v \in Workers, Fails(v) \/ Rests(v) PROVE worker'[w] = worker[w]
  <2>1. CASE v = w
    <3>1. Fails(v) => worker'[w].pc = "failing"
      BY <1>0, <2>1, GoesRow DEF Fails, Places
    <3>2. Rests(v) => worker'[w].pc = "idle"
      BY <1>0, <2>1, RestsRow
    <3> QED
      BY <1>1, <3>1, <3>2
  <2>2. CASE v # w
    BY <1>0, <1>1, <2>2, GoesRow, RestsRow DEF Fails, Places
  <2> QED
    BY <2>1, <2>2
<1>2. ASSUME NEW v \in Workers, NEW pc \in Places \ {"archived"}, NEW todo \in SUBSET Objects,
             Goes(v, pc, todo)
      PROVE  worker'[w] = worker[w]
  BY <1>0, <1>2, GoesRow
<1>3. ASSUME NEW v \in Workers, NEW j \in Jobs, Claim(v, j) PROVE worker'[w] = worker[w]
  BY <1>0, <1>3, ClaimMoves DEF Moves
<1>4. rows \subseteq Objects /\ {} \subseteq Objects
  BY <1>0 DEF Typed, Objects
<1>5. ASSUME NEW v \in Workers, PrepareExport(v) PROVE worker'[w] = worker[w]
  BY <1>1, <1>2, <1>4, <1>5 DEF PrepareExport, Places
<1>6. ASSUME NEW v \in Workers, NEW k \in worker[v].todo, FetchPayload(v, k) \/ DeleteKey(v, k)
      PROVE  worker'[w] = worker[w]
  <2>1. worker[v].todo \ {k} \subseteq Objects
    BY <1>0, <1>6, Working DEF FetchPayload, DeleteKey, At
  <2> QED
    BY <1>1, <1>2, <1>6, <2>1 DEF FetchPayload, DeleteKey, Places
<1>7. ASSUME NEW v \in Workers, StoreArchive(v)
      PROVE  \/ worker'[w] = worker[w]
             \/ /\ StoreArchive(w) /\ Goes(w, "archived", {})
                /\ stored' = stored \cup {Archive(Mine(w).export)}
  <2>1. CASE Fails(v)
    BY <1>1, <2>1
  <2>2. CASE Goes(v, "archived", {}) /\ stored' = stored \cup {Archive(Mine(v).export)}
    BY <1>0, <1>4, <1>7, <2>2, GoesRow DEF Places
  <2> QED
    BY <1>7, <2>1, <2>2 DEF StoreArchive
<1>8. ASSUME NEW v \in Workers,
             \/ CompleteExport(v) \/ RefusePhase(v) \/ CompleteAccountPurge(v)
             \/ CompleteProjectPurge(v) \/ Fail(v) \/ StepFails(v) \/ Crash(v)
      PROVE  worker'[w] = worker[w]
  BY <1>1, <1>8 DEF CompleteExport, RefusePhase, CompleteAccountPurge, CompleteProjectPurge,
                    Fail, StepFails, Crash
<1>9. ASSUME NEW v \in Workers, PrepareProjectPurge(v) \/ PrepareAccountPurge(v)
       PROVE  worker'[w] = worker[w]
  <2>1. worker[v].job \in Jobs
    BY <1>0, <1>9, Working DEF PrepareProjectPurge, PrepareAccountPurge, At
  <2>2. \/ Detaches(v) \/ Fails(v) \/ Goes(v, "deleting", Mine(v).keys)
    BY <1>9 DEF PrepareProjectPurge, PrepareAccountPurge, Detaches, DetachesAccount,
                 DetachesProject
  <2>3. Mine(v).keys \in SUBSET Objects
    BY <1>0, <2>1 DEF Typed, JobRows, Mine
  <2>4. CASE Detaches(v)
    <3>1. Goes(v, "deleting", DetachKeys(v)) /\ DetachKeys(v) \in SUBSET Objects
      BY <1>0, <2>4, DetachesRow DEF Detaches, DetachEffect
    <3> QED
      BY <1>2, <3>1 DEF Places
  <2> QED
    BY <1>1, <1>2, <2>2, <2>3, <2>4 DEF Places
<1> QED
  BY <1>0, <1>3, <1>5, <1>6, <1>7, <1>8, <1>9, WhoMoves DEF Acts

-----------------------------------------------------------------------------
(***************************************************************************)
(* Archives, from the worker that stores them to the purge.                *)
(***************************************************************************)
LEMMA ArchiveLeaves ==
    ASSUME Ready, RowsHeld, NEW e \in Jobs, Archive(e) \in stored, Archive(e) \notin stored'
    PROVE  \E j \in Jobs : IsPurger(j, job[j]) /\ job[j].detached /\ job[j].export = e
<1> DEFINE a == Archive(e)
<1>1. a \notin Payloads
  BY PayloadKey
<1>2. ASSUME NEW w \in Workers, NEW k \in worker[w].todo, DeleteKey(w, k)
      PROVE  \E j \in Jobs : IsPurger(j, job[j]) /\ job[j].detached /\ job[j].export = e
  <2> DEFINE j == worker[w].job
  <2>1. k = a
    BY <1>2 DEF DeleteKey
  <2>2. /\ j \in Jobs /\ job[j].detached /\ job[j].kind = "account"
        /\ k = Archive(job[j].export)
    BY <1>1, <1>2, <2>1, TodoGone DEF Ready
  <2>3. job[j].export = e
    BY <2>1, <2>2 DEF Archive
  <2>4. IsPurger(j, job[j])
    BY <2>2 DEF Ready, JobsHeld, JobOK, IsPurger, IsExporter
  <2> QED
    BY <2>2, <2>3, <2>4
<1>3. ASSUME stored \subseteq stored' PROVE FALSE
  BY <1>3
<1>4. CASE \/ UNCHANGED <<rows, stored, upload, orphans>>
           \/ \E l \in Payloads : StartUpload(l)
           \/ PutObject \/ RegisterPayload
  BY <1>3, <1>4 DEF StartUpload, PutObject, RegisterPayload
<1>5. ASSUME NEW w \in Workers, StoreArchive(w) PROVE FALSE
  BY <1>3, <1>5 DEF StoreArchive
<1>6. ASSUME NEW w \in Workers, DetachesAccount(w) \/ DetachesProject(w) PROVE FALSE
  BY <1>3, <1>6, DetachesProjects DEF Ready
<1> QED
  BY <1>2, <1>4, <1>5, <1>6, WhoChangesData DEF Ready

\* The completed purge's export was being purged.
LEMMA CompletedExport ==
    ASSUME Ready, OnePurge, PurgerHeld,
           NEW w \in Workers, CompleteAccountPurge(w), Succeeds(w)
    PROVE  export[Mine(w).export].status \in {"purging", "completed"} /\ confirming = None
<1>1. worker[w].job \in Jobs /\ IsPurger(worker[w].job, Mine(w)) /\ account = "deleting"
  BY PurgerCompletes DEF Mine
<1> QED
  BY <1>1 DEF PurgerHeld, OnePurge, Mine

LEMMA ExportsHeldStep ==
    ASSUME Ready, RowsHeld, OnePurge, ExportsHeld, PurgerHeld
    PROVE  ExportsHeld'
<1>1. ASSUME NEW e \in Jobs PROVE ExportMoves(e)
  BY ExportsStep DEF Ready
<1>2. ASSUME NEW e \in Jobs, RequestExport(e) PROVE job[e].kind = "none"
  BY <1>2 DEF RequestExport, Unused
<1>3. ASSUME NEW e \in Jobs, export'[e].status # "none" PROVE IsExporter(e, job'[e])
  <2>1. CASE export[e].status # "none"
    BY <2>1, ExporterAfter DEF ExportsHeld
  <2>2. CASE RequestExport(e)
    BY <2>2, RequestMakes DEF Ready, Made, IsExporter
  <2>3. ASSUME NEW j \in Jobs, Confirm(j), e = confirming PROVE IsExporter(e, job'[e])
    BY <2>3, ExporterAfter DEF Ready, ConfirmingHeld, Confirm
  <2>4. ASSUME NEW w \in Workers, CompleteAccountPurge(w), Succeeds(w), e = Mine(w).export
        PROVE  export[e].status # "none"
    BY <2>4, CompletedExport
  <2> QED
    BY <1>1, <1>3, <2>1, <2>2, <2>3, <2>4 DEF ExportMoves, ExportLapses
<1>5. ASSUME NEW e \in Jobs, export[e].status \in {"pending", "ready"}, Archive(e) \in stored
      PROVE  Archive(e) \in stored'
  <2>1. ASSUME NEW j \in Jobs, IsPurger(j, job[j]), job[j].export = e PROVE FALSE
    BY <1>5, <2>1 DEF PurgerHeld
  <2> QED
    BY <1>5, <2>1, ArchiveLeaves
<1>6. ASSUME NEW e \in Jobs, export'[e].status = "ready" PROVE Archive(e) \in stored'
  <2>1. CASE export[e].status = "ready"
    BY <1>5, <2>1 DEF ExportsHeld
  <2>2. ASSUME NEW w \in Workers, CompleteExport(w), Succeeds(w), e = worker[w].job,
               export[e].status = "pending"
        PROVE  Archive(e) \in stored'
    <3>1. worker[w].pc = "archived"
      BY <2>2 DEF CompleteExport, At
    <3> QED
      BY <1>5, <2>2, <3>1 DEF ExportsHeld
  <2> QED
    BY <1>1, <1>6, <2>1, <2>2 DEF ExportMoves
<1>7. ASSUME NEW w \in Workers, worker'[w].pc = "archived",
             export'[worker'[w].job].status = "pending"
      PROVE  Archive(worker'[w].job) \in stored'
  <2>1. CASE worker'[w] = worker[w]
    <3> DEFINE e == worker[w].job
    <3>1. e \in Jobs /\ IsExporter(e, job[e])
      BY <1>7, <2>1, Working DEF Ready, WorkersHeld, WorkerOK
    <3>2. export'[e].status = "pending"
      BY <1>7, <2>1
    <3> HIDE DEF e
    <3>3. export[e].status = "pending"
      BY <1>1, <1>2, <3>1, <3>2 DEF ExportMoves, ExportLapses, IsExporter
    <3> QED
      BY <1>5, <1>7, <2>1, <3>1, <3>3 DEF ExportsHeld, e
  <2>2. ASSUME StoreArchive(w), Goes(w, "archived", {}),
               stored' = stored \cup {Archive(Mine(w).export)}
        PROVE  Archive(worker'[w].job) \in stored'
    <3>1. worker'[w].job = worker[w].job
      BY <2>2, GoesRow DEF Places, Ready
    <3>2. Archive(Mine(w).export) = Archive(worker[w].job)
      BY <2>2, ArchiveKey DEF Ready
    <3> QED
      BY <2>2, <3>1, <3>2
  <2> QED
    BY <1>7, <2>1, <2>2, WhoArchives
<1> QED
  BY <1>3, <1>6, <1>7 DEF ExportsHeld

LEMMA ConfirmingStep ==
    ASSUME Ready, OnePurge, ExportsHeld, PurgerHeld
    PROVE  ConfirmingHeld'
<1> SUFFICES ASSUME confirming' # None
             PROVE  /\ IsExporter(confirming', job'[confirming'])
                    /\ job'[confirming'].status = "succeeded"
                    /\ export'[confirming'].status = "ready"
  BY DEF ConfirmingHeld
<1>1. ASSUME NEW e \in Jobs, StartConfirm(e)
      PROVE  /\ confirming' = e /\ UNCHANGED <<job, export>>
             /\ export[e].status = "ready" /\ job[e].status = "succeeded"
  BY <1>1 DEF StartConfirm
<1>2. CASE \E e \in Jobs : StartConfirm(e)
  BY <1>1, <1>2 DEF ExportsHeld
<1>3. CASE confirming' = confirming
  <2> DEFINE e == confirming
  <2>1. e \in Jobs /\ ExportMoves(e)
    BY <1>3, ExportsStep DEF Ready, Typed
  <2>2. /\ IsExporter(e, job[e]) /\ job[e].status = "succeeded"
        /\ export[e].status = "ready"
    BY <1>3 DEF Ready, ConfirmingHeld
  <2> HIDE DEF e
  <2>3. IsExporter(e, job'[e]) /\ job'[e].status = "succeeded"
    BY <2>1, <2>2, ExporterAfter
  <2>4. ~RequestExport(e) /\ ~\E j \in Jobs : Confirm(j)
    BY <1>3 DEF RequestExport, Confirm
  <2>5. ~\E w \in Workers : CompleteAccountPurge(w) /\ Succeeds(w)
    BY <1>3, CompletedExport
  <2>6. export'[e].status = "ready"
    BY <2>1, <2>2, <2>4, <2>5 DEF ExportMoves
  <2> QED
    BY <1>3, <2>3, <2>6 DEF e
<1> QED
  BY <1>2, <1>3, WhoChangesAccount, PurgerCompletes
     DEF Ready, SetAccountStatus, ConfirmFails, Confirm

LEMMA PurgerStep ==
    ASSUME Ready, RowsHeld, OnePurge, ExportsHeld, PurgerHeld
    PROVE  PurgerHeld'
<1> DEFINE Backed(j, e) ==
        /\ IsExporter(e, job'[e]) /\ job'[e].status = "succeeded"
        /\ export'[e].status \in {"purging", "completed"}
        /\ job'[j].phase = "purge" => Archive(e) \in stored'
<1> SUFFICES ASSUME NEW j \in Jobs, IsPurger(j, job'[j]) PROVE Backed(j, job'[j].export)
  BY DEF PurgerHeld
<1>1. CASE IsPurger(j, job[j]) /\ job'[j].export = job[j].export
  <2> DEFINE e == job[j].export
  <2>1. /\ e \in Jobs /\ IsExporter(e, job[e]) /\ job[e].status = "succeeded"
        /\ export[e].status \in {"purging", "completed"}
        /\ job[j].phase = "purge" => Archive(e) \in stored
    BY <1>1 DEF PurgerHeld, Ready, JobsHeld, JobOK, IsPurger
  <2> HIDE DEF e
  <2>2. IsExporter(e, job'[e]) /\ job'[e].status = "succeeded"
    BY <2>1, ExporterAfter
  <2>3. ~RequestExport(e)
    BY <2>1 DEF RequestExport, Unused, IsExporter
  <2>4. export'[e].status \in {"purging", "completed"}
    <3>1. ExportMoves(e)
      BY <2>1, ExportsStep DEF Ready
    <3> QED
      BY <2>1, <2>3, <3>1 DEF ExportMoves
  <2>5. ASSUME job'[j].phase = "purge" PROVE Archive(e) \in stored'
    <3>1. ~job'[j].detached
      BY <2>5, JobsStep DEF Ready, JobsHeld, JobOK
    <3>2. ~job[j].detached
      BY <3>1, DetachedAfter
    <3>3. job[j].phase = "purge"
      BY <1>1, <3>2 DEF Ready, JobsHeld, JobOK
    <3>4. ~\E i \in Jobs : IsPurger(i, job[i]) /\ job[i].detached /\ job[i].export = e
      BY <1>1, <3>2 DEF OnePurge
    <3> QED
      BY <2>1, <3>3, <3>4, ArchiveLeaves
  <2> QED
    BY <1>1, <2>2, <2>4, <2>5 DEF e
<1>2. CASE Confirm(j) /\ job'[j].export = confirming /\ confirming \in Jobs
  <2> DEFINE e == confirming
  <2>1. export' = [export EXCEPT ![e].status = "purging"] /\ UNCHANGED stored /\ e # None
    BY <1>2 DEF Confirm
  <2>2. export'[e].status = "purging"
    BY <1>2, <2>1, SetStatus DEF Ready, ExportStates
  <2>3. /\ IsExporter(e, job[e]) /\ job[e].status = "succeeded"
        /\ export[e].status = "ready"
    BY <2>1 DEF Ready, ConfirmingHeld
  <2>4. IsExporter(e, job'[e]) /\ job'[e].status = "succeeded"
    BY <1>2, <2>3, ExporterAfter
  <2>5. Archive(e) \in stored'
    BY <1>2, <2>1, <2>2, <2>3 DEF ExportsHeld
  <2> QED
    BY <1>2, <2>2, <2>4, <2>5
<1> QED
  BY <1>1, <1>2, PurgerBefore DEF Made

-----------------------------------------------------------------------------
(***************************************************************************)
(* Attempts: a job loses one only to a fault.                              *)
(***************************************************************************)
Counts(j) == job[j].kind = "project" \/ IsPurger(j, job[j])

LEMMA CountTypes ==
    ASSUME Ready, NEW j \in Jobs
    PROVE  /\ job[j].failures \in Nat /\ job'[j].failures \in Nat
           /\ job[j].attempts \in Nat /\ job'[j].attempts \in Nat
           /\ job[j].lease \in Workers \cup {None}
           /\ job[j].status = "running" => job[j].lease \in Workers
<1>1. job[j] \in JobRows /\ job'[j] \in JobRows
  BY JobsStep DEF Ready, Typed
<1>2. 0 .. MaxAttempts \subseteq Nat
  BY AttemptsBounded
<1>3. /\ job[j].failures \in Nat /\ job'[j].failures \in Nat
      /\ job[j].attempts \in 0 .. MaxAttempts /\ job'[j].attempts \in 0 .. MaxAttempts
      /\ job[j].lease \in Workers \cup {None}
  BY <1>1 DEF JobRows
<1>4. job[j].status = "running" => job[j].lease # None
  BY DEF Ready, JobsHeld, JobOK
<1> QED
  BY <1>2, <1>3, <1>4

LEMMA ExemptStays ==
    ASSUME Ready, NEW j \in Jobs, Exempt(j), job'[j].failures >= job[j].failures
    PROVE  Exempt(j)'
<1>1. CASE job[j].kind = "project" /\ project[job[j].project].undone
  <2>1. job[j].project \in Projects /\ job'[j].kind = "project"
        /\ job'[j].project = job[j].project
    BY <1>1, JobsKept DEF Ready, Kept, JobsHeld, JobOK
  <2> QED
    BY <1>1, <2>1, ProjectsStep DEF Ready, ProjectMoves, Exempt
<1>2. CASE job[j].kind = "account" /\ job[j].detached /\ job[j].failures > 0
  <2>1. job'[j].failures > 0
    BY <1>2, CountTypes
  <2> QED
    BY <1>2, <2>1, DetachedAfter DEF Exempt
<1> QED
  BY <1>1, <1>2 DEF Exempt

LEMMA ActsAlone ==
    ASSUME Typed, NEW v \in Workers, Acts(v), NEW w \in Workers, w # v
    PROVE  worker'[w] = worker[w]
<1>1. ASSUME NEW pc, NEW todo, Goes(v, pc, todo) PROVE worker'[w] = worker[w]
  BY <1>1 DEF Goes, Typed
<1>2. ASSUME Rests(v) \/ Fails(v) PROVE worker'[w] = worker[w]
  BY <1>1, <1>2 DEF Rests, Fails, Typed
<1>3. CASE PrepareExport(v) \/ StoreArchive(v) \/ RefusePhase(v)
  BY <1>1, <1>2, <1>3 DEF PrepareExport, StoreArchive, RefusePhase
<1>4. CASE PrepareAccountPurge(v)
  BY <1>1, <1>2, <1>4 DEF PrepareAccountPurge
<1>5. CASE PrepareProjectPurge(v)
  BY <1>1, <1>2, <1>5 DEF PrepareProjectPurge
<1>6. CASE \E k \in worker[v].todo : FetchPayload(v, k) \/ DeleteKey(v, k)
  BY <1>1, <1>2, <1>6 DEF FetchPayload, DeleteKey
<1>7. CASE CompleteExport(v) \/ CompleteAccountPurge(v) \/ CompleteProjectPurge(v)
           \/ Fail(v) \/ StepFails(v) \/ Crash(v)
  BY <1>2, <1>7 DEF CompleteExport, CompleteAccountPurge, CompleteProjectPurge, Fail,
                    StepFails, Crash
<1> QED
  BY <1>3, <1>4, <1>5, <1>6, <1>7 DEF Acts

LEMMA WhoMoved ==
    ASSUME Ready, NEW w \in Workers, worker[w].pc # "idle"
    PROVE  worker'[w] = worker[w] \/ Acts(w)
<1>1. ASSUME NEW v \in Workers, NEW j \in Jobs, Claim(v, j) PROVE worker'[w] = worker[w]
  BY <1>1, ClaimMoves DEF Ready, Moves, Claim, At
<1> QED
  BY <1>1, WhoMoves, ActsAlone DEF Ready

\* A worker with a good lease whose job stays as it is goes on, unless the job is exempt.
LEMMA CleanStays ==
    ASSUME Ready, OnePurge, WaitingHeld, NEW j \in Jobs, Counts(j), RetryOK(j), Clean(j),
           job'[j] = job[j]
    PROVE  \/ Exempt(j)
           \/ /\ Clean(j)'
              /\ worker[job[j].lease].pc = "deleting" => worker'[job[j].lease].pc = "deleting"
<1> DEFINE w == job[j].lease
           Goal == \/ Exempt(j)
                   \/ Clean(j)' /\ (worker[w].pc = "deleting" => worker'[w].pc = "deleting")
<1> SUFFICES Goal
  OBVIOUS
<1>1. /\ w \in Workers /\ worker[w].job = j /\ worker[w].pc # "failing"
      /\ job[j].status = "running" /\ ~job[j].expired
  BY CountTypes DEF Clean
<1>2. worker[w].pc # "idle"
  BY <1>1, NoneHasNoJob DEF Ready, WorkersHeld, WorkerOK
<1> HIDE DEF w
<1>3. Holds(w) /\ Mine(w) = job[j]
  BY <1>1 DEF Holds, Owns, Mine, w
<1>4. ~IsExporter(j, job[j])
  BY DEF Counts, IsPurger, IsExporter
<1>5. ASSUME worker'[w].job = j, worker'[w].pc # "failing",
             worker[w].pc = "deleting" => worker'[w].pc = "deleting"
      PROVE  Goal
  BY <1>1, <1>5 DEF Clean, w
<1> HIDE DEF Goal
<1>6. CASE worker'[w] = worker[w]
  BY <1>1, <1>5, <1>6
<1>7. ASSUME NEW todo \in SUBSET Objects, Goes(w, "deleting", todo) PROVE Goal
  BY <1>1, <1>5, <1>7, GoesRow DEF Places, Ready
<1>8. worker[w].pc \notin {"fetching", "archived"}
  BY <1>1, <1>4 DEF Ready, WorkersHeld, WorkerOK
<1>9. CASE PrepareExport(w)
  <2>1. job[j].kind = "account" /\ job[j].phase = "export"
    BY <1>3, <1>9 DEF PrepareExport
  <2> QED
    BY <1>4, <2>1 DEF Ready, JobsHeld, JobOK, IsPurger, IsExporter
<1>10. CASE StoreArchive(w) \/ CompleteExport(w) \/ Fail(w)
            \/ \E k \in worker[w].todo : FetchPayload(w, k)
  BY <1>1, <1>8, <1>10 DEF StoreArchive, CompleteExport, Fail, FetchPayload, At
<1>11. CASE PrepareAccountPurge(w)
  <2>1. job[j].kind = "account" /\ worker[w].pc = "claimed"
    BY <1>3, <1>11 DEF PrepareAccountPurge, At
  <2>2. account = "deleting"
    BY <1>1, <2>1 DEF Counts, OnePurge, Active
  <2>3. DetachEffect(w, j)
    BY <1>1, <1>3, <1>11, <2>2, DetachesRow DEF DetachesAccount, Ready
  <2> QED
    BY <1>7, <2>3 DEF DetachEffect
<1>12. CASE RefusePhase(w)
  <2>1. job[j].kind = "account" /\ job[j].phase = "" /\ worker[w].pc = "claimed"
    BY <1>3, <1>12 DEF RefusePhase, At
  <2>2. IsPurger(j, job[j]) /\ job[j].detached
    BY <1>4, <2>1 DEF Ready, JobsHeld, JobOK, IsPurger, IsExporter
  <2>3. job[j].failures > 0
    BY <1>1, <2>1, <2>2 DEF RetryOK, w
  <2> QED
    BY <2>1, <2>2, <2>3 DEF Goal, Exempt
<1>13. CASE PrepareProjectPurge(w)
  <2>1. job[j].kind = "project"
    BY <1>3, <1>13 DEF PrepareProjectPurge
  <2>2. CASE job[j].detached
    <3>1. Goes(w, "deleting", job[j].keys)
      BY <1>3, <1>13, <2>2 DEF PrepareProjectPurge
    <3>2. job[j] \in JobRows
      BY DEF Ready, Typed
    <3>3. job[j].keys \in SUBSET Objects
      BY <3>2 DEF JobRows
    <3> QED
      BY <1>7, <3>1, <3>3
  <2>3. CASE ~job[j].detached /\ project[job[j].project].status = "deleting"
    <3>1. DetachEffect(w, j)
      BY <1>1, <1>3, <1>13, <2>3, DetachesRow DEF DetachesProject, Ready
    <3> QED
      BY <1>7, <3>1 DEF DetachEffect
  <2>4. CASE ~job[j].detached /\ project[job[j].project].status # "deleting"
    BY <1>1, <2>1, <2>4 DEF WaitingHeld, Waiting, Active, Goal, Exempt
  <2> QED
    BY <2>2, <2>3, <2>4
<1>14. ASSUME NEW k \in worker[w].todo, DeleteKey(w, k) PROVE Goal
  <2>1. worker[w].todo \ {k} \in SUBSET Objects
    BY <1>1, <1>2, Working DEF Ready
  <2> QED
    BY <1>7, <1>14, <2>1 DEF DeleteKey
<1>15. CASE CompleteAccountPurge(w) \/ CompleteProjectPurge(w)
  <2>1. Succeeds(w)
    BY <1>3, <1>15 DEF Succeeds, CompleteAccountPurge, CompleteProjectPurge
  <2>2. job'[j].status = "succeeded"
    BY <1>1, <2>1, Completes DEF Ready
  <2> QED
    BY <1>1, <2>2
<1>16. CASE StepFails(w) \/ Crash(w)
  <2>1. job'[j].failures = job[j].failures + 1
    BY <1>1, <1>16, FaultRow DEF StepFails, Crash, Ready
  <2> QED
    BY <2>1, CountTypes
<1> QED
  BY <1>1, <1>2, <1>6, <1>9, <1>10, <1>11, <1>12, <1>13, <1>14, <1>15, <1>16, WhoMoved
     DEF Acts, Goal, w

LEMMA CountsBefore ==
    ASSUME Ready, NEW j \in Jobs, Counts(j)'
    PROVE  Counts(j) \/ Makes(j)
<1>1. job'[j].kind \in {"project", "account"}
  BY DEF Counts, IsPurger
<1>2. CASE job[j].kind = "none"
  BY <1>1, <1>2, JobsCaused DEF Ready, Caused
<1>3. CASE job[j].kind # "none"
  BY <1>3, JobsKept DEF Ready, Kept, Counts, IsPurger
<1> QED
  BY <1>2, <1>3

\* What is left of the two bounds once the attempt under way does not count any more.
LEMMA CountBase ==
    ASSUME Ready, NEW j \in Jobs, Counts(j), CountOK(j), RetryOK(j), ~Clean(j),
           job[j].status # "succeeded"
    PROVE  /\ Exempt(j) \/ job[j].attempts <= job[j].failures
           /\ IsPurger(j, job[j]) /\ job[j].detached => job[j].failures > 0
BY DEF Counts, CountOK, RetryOK

LEMMA CountEnough ==
    ASSUME Ready, NEW j \in Jobs,
           Exempt(j)' \/ job'[j].attempts <= job'[j].failures,
           IsPurger(j, job'[j]) /\ job'[j].detached => job'[j].failures > 0
    PROVE  CountOK(j)' /\ RetryOK(j)'
BY DEF CountOK, RetryOK

LEMMA CountStep ==
    ASSUME Ready, OnePurge, WaitingHeld, CountHeld
    PROVE  CountHeld'
<1> DEFINE Goal(j) == CountOK(j)' /\ RetryOK(j)'
<1> SUFFICES ASSUME NEW j \in Jobs PROVE Goal(j)
  BY DEF CountHeld
<1>0. Typed /\ JobsHeld /\ WorkersHeld /\ ConfirmingHeld /\ [Next]_vars
  BY DEF Ready
<1>1. ASSUME ~Counts(j)' PROVE Goal(j)
  BY <1>1 DEF Counts, CountOK, RetryOK
<1>2. ASSUME job'[j].status = "succeeded" PROVE Goal(j)
  BY <1>2 DEF CountOK, RetryOK
<1> HIDE DEF Goal
<1>3. CountOK(j) /\ RetryOK(j)
  BY DEF CountHeld
<1>4. /\ job[j].failures \in Nat /\ job'[j].failures \in Nat
      /\ job[j].attempts \in Nat /\ job'[j].attempts \in Nat
  BY CountTypes
<1>5. ASSUME Makes(j) PROVE Goal(j)
  <2>1. job'[j].attempts = 0 /\ job'[j].failures = 0 /\ ~job'[j].detached
    BY <1>5 DEF Makes, Made
  <2> QED
    BY <2>1, CountEnough DEF Goal
<1>6. ASSUME Counts(j), job'[j] = job[j], job[j].status # "succeeded" PROVE Goal(j)
  <2>1. Exempt(j) => Exempt(j)'
    BY <1>4, <1>6, ExemptStays
  <2>2. CASE Exempt(j)
    <3>1. RetryOK(j)' \/ (IsPurger(j, job[j]) /\ job[j].failures = 0)
      BY <1>4, <1>6, <2>2 DEF RetryOK, Exempt, IsPurger
    <3> QED
      BY <1>6, <2>1, <2>2, <3>1 DEF Goal, CountOK, Exempt, IsPurger, RetryOK
  <2>3. CASE ~Exempt(j) /\ Clean(j)
    <3>1. Clean(j)' /\ (worker[job[j].lease].pc = "deleting" => worker'[job[j].lease].pc = "deleting")
      BY <1>3, <1>6, <2>3, CleanStays
    <3> QED
      BY <1>3, <1>6, <2>3, <3>1 DEF Goal, CountOK, RetryOK, Counts
  <2>4. CASE ~Exempt(j) /\ ~Clean(j)
    <3>1. /\ job[j].attempts <= job[j].failures
          /\ IsPurger(j, job[j]) /\ job[j].detached => job[j].failures > 0
      BY <1>3, <1>6, <2>4, CountBase
    <3> QED
      BY <1>6, <3>1, CountEnough DEF Goal
  <2> QED
    BY <2>2, <2>3, <2>4
\* A fault of an attempt.
<1>7. ASSUME Counts(j), Alike(job'[j], job[j]), job[j].status # "succeeded",
             job'[j].failures = job[j].failures + 1, job'[j].attempts = job[j].attempts
      PROVE  Goal(j)
  <2>1. Exempt(j) => Exempt(j)'
    BY <1>4, <1>7, ExemptStays
  <2>2. Exempt(j) \/ job[j].attempts <= job[j].failures + 1
    BY <1>3, <1>4, <1>7 DEF CountOK, Counts
  <2>3. job'[j].failures > 0
    BY <1>4, <1>7
  <2> QED
    BY <1>7, <2>1, <2>2, <2>3, CountEnough DEF Goal
\* The end of an attempt that had met its fault.
<1>8. ASSUME Counts(j), Alike(job'[j], job[j]), job[j].status # "succeeded", ~Clean(j),
             job'[j].failures >= job[j].failures, job'[j].attempts = job[j].attempts
      PROVE  Goal(j)
  <2>1. /\ Exempt(j) \/ job[j].attempts <= job[j].failures
        /\ IsPurger(j, job[j]) /\ job[j].detached => job[j].failures > 0
    BY <1>3, <1>8, CountBase
  <2>2. Exempt(j) => Exempt(j)'
    BY <1>8, ExemptStays
  <2>3. job[j].attempts <= job[j].failures => job'[j].attempts <= job'[j].failures
    BY <1>4, <1>8
  <2>4. IsPurger(j, job'[j]) /\ job'[j].detached => job'[j].failures > 0
    BY <1>4, <1>8, <2>1 DEF Alike, IsPurger
  <2> QED
    BY <2>1, <2>2, <2>3, <2>4, CountEnough DEF Goal
<1>9. ASSUME NEW w \in Workers, Claim(w, j), Counts(j) PROVE Goal(j)
  <2>1. /\ Alike(job'[j], job[j])
        /\ job'[j].status = "running" /\ job'[j].lease = w /\ ~job'[j].expired
        /\ job'[j].failures = job[j].failures /\ job'[j].attempts <= job[j].attempts + 1
    BY <1>0, <1>9, ClaimRow
  <2>2. ~Clean(j) /\ job[j].status # "succeeded"
    BY <1>9 DEF Claim, Clean
  <2>3. worker'[w].pc = "claimed" /\ worker'[w].job = j
    BY <1>0, <1>9, ClaimMoves
  <2>4. Clean(j)'
    BY <2>1, <2>3 DEF Clean
  <2>5. /\ Exempt(j) \/ job[j].attempts <= job[j].failures
        /\ IsPurger(j, job[j]) /\ job[j].detached => job[j].failures > 0
    BY <1>3, <1>9, <2>2, CountBase
  <2>6. Exempt(j) => Exempt(j)'
    BY <1>4, <2>1, ExemptStays
  <2>7. RetryOK(j)'
    BY <2>1, <2>5 DEF RetryOK, Alike, IsPurger
  <2>8. job[j].attempts <= job[j].failures => job'[j].attempts <= job'[j].failures + 1
    BY <1>4, <2>1
  <2> QED
    BY <2>4, <2>5, <2>6, <2>7, <2>8 DEF Goal, CountOK
<1>10. ASSUME LeaseExpires(j), Counts(j) PROVE Goal(j)
  <2>1. /\ Alike(job'[j], job[j]) /\ job[j].status = "running"
        /\ job'[j].attempts = job[j].attempts /\ job'[j].failures >= job[j].failures
        /\ ~Abandoned(j) => job'[j].failures = job[j].failures + 1
    BY <1>0, <1>10, ExpireRow
  <2>2. Clean(j) => ~Abandoned(j)
    BY <2>1, CountTypes DEF Clean, Abandoned
  <2> QED
    BY <1>7, <1>8, <1>10, <2>1, <2>2
<1>11. ASSUME NEW w \in Workers, Detaches(w), j = worker[w].job PROVE Goal(j)
  <2>1. DetachEffect(w, j)
    BY <1>0, <1>11, DetachesRow DEF Detaches
  <2>2. worker'[w].pc = "deleting" /\ worker'[w].job = j
    BY <1>0, <1>11, <2>1, GoesRow DEF DetachEffect, Places
  <2>3. Clean(j)' /\ job'[j].lease = w
    BY <2>1, <2>2 DEF Clean, DetachEffect
  <2>4. Exempt(j) => Exempt(j)'
    <3>1. job'[j].failures = job[j].failures
      BY <2>1 DEF DetachEffect
    <3>2. job'[j].failures >= job[j].failures
      BY <1>4, <3>1
    <3> QED
      BY <3>2, ExemptStays
  <2>5. RetryOK(j)'
    BY <2>2, <2>3 DEF RetryOK
  <2>6. Counts(j) /\ job[j].status # "succeeded"
    BY <2>1 DEF DetachEffect, Counts
  <2>7. Exempt(j) \/ job[j].attempts <= job[j].failures + 1
    BY <1>3, <1>4, <2>6 DEF CountOK, Counts
  <2> QED
    BY <2>1, <2>3, <2>4, <2>5, <2>7 DEF Goal, CountOK, DetachEffect
<1>12. ASSUME NEW w \in Workers, Fail(w), Owns(w), j = worker[w].job, Counts(j) PROVE Goal(j)
  <2>1. /\ Alike(job'[j], job[j])
        /\ job'[j].attempts = job[j].attempts /\ job'[j].failures = job[j].failures
    BY <1>0, <1>12, FailRow
  <2>2. job[j].status = "running" /\ job[j].lease = w /\ worker[w].pc = "failing"
    BY <1>12 DEF Owns, Mine, Fail, At
  <2> QED
    BY <1>4, <1>8, <1>12, <2>1, <2>2 DEF Clean
<1>13. ASSUME NEW w \in Workers, StepFails(w) \/ Crash(w), j = worker[w].job, Counts(j),
              job[j].status # "succeeded"
       PROVE  Goal(j)
  <2>1. Fault(j)
    BY <1>13 DEF StepFails, Crash
  <2> QED
    BY <1>0, <1>7, <1>13, <2>1, FaultRow
<1>14. ASSUME Counts(j), job[j].status = "succeeded" PROVE Goal(j)
  <2>1. job'[j].status = "succeeded"
    BY <1>0, <1>14, JobsKept DEF Kept, Counts, IsPurger
  <2> QED
    BY <1>2, <2>1
<1>15. ASSUME Counts(j), job[j].status # "succeeded" PROVE Goal(j)
  <2>1. ASSUME NEW i \in Jobs, Only(i), i # j PROVE Goal(j)
    BY <1>6, <1>15, <2>1 DEF Only
  <2>2. ASSUME NEW p \in Projects, NEW i \in Jobs, EnqueueProjectPurge(p, i) PROVE Goal(j)
    <3>1. Only(i) /\ job[i].kind = "none"
      BY <1>0, <2>2, EnqueueMakes DEF Made, EnqueueProjectPurge, Unused
    <3> QED
      BY <1>15, <2>1, <3>1 DEF Counts, IsPurger
  <2>3. ASSUME NEW i \in Jobs, RequestExport(i) \/ Confirm(i) PROVE Goal(j)
    <3>1. Only(i) /\ job[i].kind = "none"
      BY <1>0, <2>3, RequestMakes, ConfirmMakes DEF Made, RequestExport, Confirm, Unused
    <3> QED
      BY <1>15, <2>1, <3>1 DEF Counts, IsPurger
  <2>4. ASSUME NEW i \in Jobs, LeaseExpires(i) PROVE Goal(j)
    BY <1>0, <1>10, <1>15, <2>1, <2>4, ExpireRow
  <2>5. ASSUME NEW w \in Workers, NEW i \in Jobs, Claim(w, i) PROVE Goal(j)
    BY <1>0, <1>9, <1>15, <2>1, <2>5, ClaimRow
  <2>6. ASSUME NEW w \in Workers, Succeeds(w) PROVE Goal(j)
    BY <1>0, <1>2, <2>1, <2>6, Completes
  <2>7. ASSUME NEW w \in Workers, Detaches(w) PROVE Goal(j)
    <3>1. worker[w].job \in Jobs /\ Only(worker[w].job)
      BY <1>0, <2>7, DetachesRow DEF Detaches, DetachEffect
    <3> QED
      BY <1>11, <2>1, <2>7, <3>1
  <2>8. ASSUME NEW w \in Workers, Fail(w) PROVE Goal(j)
    <3>1. worker[w].job \in Jobs
      BY <1>0, <2>8, Working DEF Fail, At
    <3>2. CASE Owns(w)
      BY <1>0, <1>12, <1>15, <2>1, <2>8, <3>1, <3>2, FailRow
    <3>3. CASE ~Owns(w)
      BY <1>0, <1>6, <1>15, <2>8, <3>1, <3>3, FailRow
    <3> QED
      BY <3>2, <3>3
  <2>9. ASSUME NEW w \in Workers, StepFails(w) \/ Crash(w) PROVE Goal(j)
    <3>1. worker[w].job \in Jobs /\ Fault(worker[w].job)
      BY <1>0, <2>9, Working DEF StepFails, Crash, At
    <3> QED
      BY <1>0, <1>13, <1>15, <2>1, <2>9, <3>1, FaultRow
  <2>10. ASSUME UNCHANGED job PROVE Goal(j)
    BY <1>6, <1>15, <2>10
  <2> QED
    BY <1>0, <2>2, <2>3, <2>4, <2>5, <2>6, <2>7, <2>8, <2>9, <2>10, WhoChangesJobs DEF Detaches
<1> QED
  BY <1>1, <1>5, <1>14, <1>15, CountsBefore

-----------------------------------------------------------------------------
(***************************************************************************)
(* The theorems.                                                           *)
(***************************************************************************)
LEMMA PurgeInitInvariant == PurgeInit => PurgeInvariant
<1> SUFFICES ASSUME PurgeInit PROVE PurgeInvariant
  OBVIOUS
<1>1. \A j \in Jobs : job[j] = NoJob /\ export[j] = NoExport
  BY DEF PurgeInit
<1>2. \A w \in Workers : worker[w] = AtRest
  BY DEF PurgeInit
<1>3. rows = stored /\ rows \subseteq Payloads /\ confirming = None /\ account = "active"
  BY DEF PurgeInit
<1>4. \A p \in Projects : project[p].status = "active"
  BY DEF PurgeInit
<1>5. upload.pc = "idle"
  BY DEF PurgeInit, NoUpload
<1>6. /\ NoJob.kind = "none" /\ NoJob.status = "none" /\ ~NoJob.detached /\ NoJob.phase = ""
      /\ NoJob.lease = None /\ NoJob.keys = {} /\ NoExport.status = "none"
      /\ AtRest.pc = "idle" /\ AtRest.job = None
  BY DEF NoJob, NoExport, AtRest
<1>7. Typed
  <2>1. NoJob \in JobRows
    BY AttemptsBounded DEF NoJob, JobRows
  <2>2. NoExport \in ExportRows /\ AtRest \in WorkerRows /\ NoUpload \in UploadRows
    BY DEF NoExport, ExportRows, ExportStates, AtRest, WorkerRows, Places, NoUpload, UploadRows
  <2>3. [status |-> "active", undone |-> FALSE] \in ProjectRows
    BY DEF ProjectRows
  <2>4. project \in [Projects -> ProjectRows]
    BY <2>3 DEF PurgeInit
  <2>5. job \in [Jobs -> JobRows] /\ export \in [Jobs -> ExportRows]
        /\ worker \in [Workers -> WorkerRows]
    BY <2>1, <2>2 DEF PurgeInit
  <2> QED
    BY <1>3, <2>2, <2>4, <2>5 DEF Typed, PurgeInit, Objects, AccountStates
<1>8. JobsHeld /\ WorkersHeld
  BY <1>1, <1>2, <1>6 DEF JobsHeld, JobOK, IsExporter, IsPurger, WorkersHeld, WorkerOK
<1>9. UploadHeld /\ RowsHeld /\ DeletedHeld /\ Accounted
  BY <1>1, <1>2, <1>3, <1>4, <1>5, <1>6 DEF UploadHeld, RowsHeld, DeletedHeld, Accounted, IsPurger
<1>10. OnePurge /\ DetachedOnce /\ WaitingHeld
  BY <1>1, <1>3, <1>6 DEF OnePurge, DetachedOnce, WaitingHeld, Waiting, Active, NoneActive, IsPurger
<1>11. ExportsHeld /\ ConfirmingHeld /\ PurgerHeld /\ CountHeld
  BY <1>1, <1>2, <1>3, <1>6 DEF ExportsHeld, ConfirmingHeld, PurgerHeld, CountHeld, CountOK,
     RetryOK, IsPurger
<1> QED
  BY <1>7, <1>8, <1>9, <1>10, <1>11 DEF PurgeInvariant

LEMMA PurgeNextInvariant == PurgeInvariant /\ [Next]_vars => PurgeInvariant'
<1> SUFFICES ASSUME PurgeInvariant, [Next]_vars PROVE PurgeInvariant'
  OBVIOUS
<1>1. /\ Typed /\ JobsHeld /\ WorkersHeld /\ UploadHeld /\ RowsHeld /\ DeletedHeld
      /\ Accounted /\ OnePurge /\ DetachedOnce /\ WaitingHeld /\ ExportsHeld
      /\ ConfirmingHeld /\ PurgerHeld /\ CountHeld
  BY DEF PurgeInvariant
<1>2. Ready
  BY <1>1 DEF Ready
<1>3. Typed'
  BY <1>1, TypedStep
<1>4. JobsHeld' /\ WorkersHeld'
  BY <1>1, JobsStep, WorkersStep
<1>5. UploadHeld' /\ RowsHeld'
  BY <1>1, UploadStep, RowsStep
<1>6. DeletedHeld'
  BY <1>1, DeletedStep
<1>7. Accounted'
  BY <1>1, AccountedStep
<1>8. OnePurge'
  BY <1>1, <1>2, OnePurgeStep
<1>9. DetachedOnce' /\ WaitingHeld'
  BY <1>1, <1>2, DetachedOnceStep, WaitingStep
<1>10. ExportsHeld' /\ ConfirmingHeld' /\ PurgerHeld'
  BY <1>1, <1>2, ExportsHeldStep, ConfirmingStep, PurgerStep
<1>11. CountHeld'
  BY <1>1, <1>2, CountStep
<1> QED
  BY <1>3, <1>4, <1>5, <1>6, <1>7, <1>8, <1>9, <1>10, <1>11 DEF PurgeInvariant

\* The inductive invariant: where each object is accounted for, who may purge what, which
\* export a purge rests on, and that attempts are lost to faults only.
THEOREM PurgeCorrect == PurgeSpec => []PurgeInvariant
BY PurgeInitInvariant, PurgeNextInvariant, PTL DEF PurgeSpec

\* Types, and that a row of the catalog always has its object.
THEOREM PurgeTypes == PurgeSpec => []PurgeTypeOK
<1>1. PurgeInvariant => PurgeTypeOK
  <2> SUFFICES ASSUME PurgeInvariant PROVE PurgeTypeOK
    OBVIOUS
  <2>1. Typed /\ JobsHeld /\ WorkersHeld /\ RowsHeld
    BY DEF PurgeInvariant
  <2>2. \A j \in Jobs : job[j].attempts \in 0 .. MaxAttempts
    BY <2>1 DEF Typed, JobRows
  <2>3. \A j \in Jobs : job[j].lease # None <=> job[j].status = "running"
    BY <2>1 DEF JobsHeld, JobOK
  <2>4. \A w \in Workers : At(w, "idle") <=> worker[w].job = None
    BY <2>1 DEF WorkersHeld, WorkerOK, At
  <2>5. stored \subseteq Payloads \cup {Archive(j) : j \in Jobs} /\ account \in AccountStates
    BY <2>1 DEF Typed, Objects, Archives
  <2> QED
    BY <2>1, <2>2, <2>3, <2>4, <2>5 DEF PurgeTypeOK, RowsHeld, AccountStates
<1> QED
  BY <1>1, PurgeCorrect, PTL

LEMMA NothingLeft == PurgeInvariant => SucceededPurgeLeftNothing
<1> DEFINE GivenUp == UNION {job[i].keys : i \in {f \in Jobs : job[f].status = "failed"}}
<1> SUFFICES ASSUME PurgeInvariant, NEW j \in Jobs, job[j].detached,
                    job[j].status = "succeeded", NEW k \in stored \cap Purged(j)
             PROVE  k \in orphans \cup {upload.key} \cup GivenUp
  BY DEF SucceededPurgeLeftNothing
<1>1. /\ Typed /\ JobsHeld /\ RowsHeld /\ Accounted /\ OnePurge /\ DetachedOnce
  BY DEF PurgeInvariant
<1>2. \A i \in Jobs : JobOK(i, job[i]) /\ job[i] \in JobRows
  BY <1>1 DEF JobsHeld, Typed
<1>3. job[j].kind \in {"project", "account"}
  BY <1>2 DEF JobOK, JobRows
<1>4. ASSUME k \in Payloads, k \notin rows, ~Pending(k) PROVE k \in orphans \cup {upload.key}
  BY <1>1, <1>4 DEF Accounted, Flying
<1>5. CASE job[j].kind = "project"
  <2>1. job[j].project \in Projects /\ project[job[j].project].status = "gone"
    BY <1>1, <1>2, <1>5 DEF JobOK, RowsHeld
  <2>2. k \in OfProject(job[j].project) /\ k \in Payloads
    BY <1>5, <2>1 DEF Purged, OfProject, Payloads
  <2>3. k \notin rows
    BY <1>1, <2>1, <2>2 DEF RowsHeld
  <2>4. ~Pending(k)
    <3> SUFFICES ASSUME NEW i \in Jobs, job[i].detached, job[i].status # "succeeded",
                        k \in job[i].keys
                 PROVE  FALSE
      BY DEF Pending
    <3>1. CASE job[i].kind = "project"
      <4>1. k \in OfProject(job[i].project) /\ job[i].project \in Projects
        BY <1>2, <3>1 DEF JobOK
      <4>2. job[i].project = job[j].project
        BY <2>1, <2>2, <4>1, PayloadKey
      <4> QED
        BY <1>1, <1>5, <3>1, <4>2 DEF DetachedOnce
    <3>2. CASE job[i].kind = "account"
      BY <1>1, <1>5, <2>2, <3>2 DEF DetachedOnce
    <3> QED
      BY <1>2, <3>1, <3>2 DEF JobOK, JobRows
  <2> QED
    BY <1>4, <2>2, <2>3, <2>4
<1>6. CASE job[j].kind = "account"
  <2>1. IsPurger(j, job[j])
    BY <1>2, <1>6 DEF JobOK, IsExporter, IsPurger
  <2>2. CASE k \notin Payloads
    <3>1. k = Archive(job[j].export)
      BY <1>6, <2>2 DEF Purged
    <3> QED
      BY <1>1, <2>1, <3>1 DEF Accounted
  <2>3. CASE k \in Payloads
    <3>1. k[1] \in Projects /\ k \in OfProject(k[1])
      BY <2>3, PayloadKey
    <3>2. k \notin rows
      BY <1>1, <1>6, <3>1 DEF RowsHeld
    <3>3. ASSUME Pending(k) PROVE k \in GivenUp
      <4>1. PICK i \in Jobs : /\ job[i].detached /\ job[i].status # "succeeded"
                              /\ k \in job[i].keys
        BY <3>3 DEF Pending
      <4>2. ~Active(i)
        <5> SUFFICES ASSUME Active(i) PROVE FALSE
          OBVIOUS
        <5>1. IsPurger(i, job[i])
          BY <1>1, <2>1 DEF OnePurge
        <5> QED
          BY <1>1, <2>1, <4>1, <5>1 DEF OnePurge
      <4>3. job[i].status = "failed"
        BY <1>2, <4>1, <4>2 DEF JobOK, JobRows, Active
      <4> QED
        BY <4>1, <4>3
    <3> QED
      BY <1>4, <2>3, <3>2, <3>3
  <2> QED
    BY <2>2, <2>3
<1> QED
  BY <1>3, <1>5, <1>6

\* A purge that has succeeded left nothing in the object store, whatever was retried,
\* uploaded or lost meanwhile, but what SucceededPurgeLeftNothing excepts.
THEOREM SucceededLeavesNothing == PurgeSpec => []SucceededPurgeLeftNothing
BY NothingLeft, PurgeCorrect, PTL

\* From the confirmation to the destruction of the rows the archive is in the object store.
THEOREM ExportedFirst == PurgeSpec => []DestroyedOnlyIfExported
<1>1. PurgeInvariant => DestroyedOnlyIfExported
  <2> SUFFICES ASSUME PurgeInvariant, NEW j \in Jobs, job[j].phase = "purge"
               PROVE  Archive(job[j].export) \in stored
    BY DEF DestroyedOnlyIfExported
  <2>1. JobOK(j, job[j]) /\ job[j] \in JobRows
    BY DEF PurgeInvariant, JobsHeld, Typed
  <2>2. IsPurger(j, job[j])
    BY <2>1 DEF JobOK, JobRows, IsExporter, IsPurger
  <2> QED
    BY <2>2 DEF PurgeInvariant, PurgerHeld
<1> QED
  BY <1>1, PurgeCorrect, PTL

\* Whatever the workers do to each other, only faults use up the attempts of a purge.
THEOREM FailsOnlyByFaults == PurgeSpec => []PurgeFailsOnlyByFaults
<1>1. PurgeInvariant => PurgeFailsOnlyByFaults
  <2> SUFFICES ASSUME PurgeInvariant, NEW j \in Jobs, job[j].status = "failed",
                      job[j].phase # "export", ~Exempt(j)
               PROVE  job[j].failures >= MaxAttempts
    BY DEF PurgeFailsOnlyByFaults, Exempt
  <2>1. JobOK(j, job[j]) /\ job[j] \in JobRows
    BY DEF PurgeInvariant, JobsHeld, Typed
  <2>2. job[j].kind = "project" \/ IsPurger(j, job[j])
    BY <2>1 DEF JobOK, JobRows, IsExporter, IsPurger
  <2>3. CountOK(j)
    BY DEF PurgeInvariant, CountHeld
  <2>4. job[j].attempts <= job[j].failures
    BY <2>2, <2>3 DEF CountOK, Clean
  <2> QED
    BY <2>1, <2>4, AttemptsBounded DEF JobOK, JobRows
<1> QED
  BY <1>1, PurgeCorrect, PTL

-----------------------------------------------------------------------------
(***************************************************************************)
(* The refinement of AtomicPurge.  What a job's request is about is frozen *)
(* by the request itself: its projects are never active again, so nothing  *)
(* is registered under them; and a purge ends well only after it has       *)
(* detached its keys.                                                      *)
(***************************************************************************)
AskedHeld ==
    /\ \A j \in Jobs : job[j].kind = "project" =>
           job[j].export = None /\ project[job[j].project].status # "active"
    /\ \A j \in Jobs : IsPurger(j, job[j]) =>
           \A p \in Projects : project[p].status # "active"
    /\ \A j \in Jobs : job[j].status = "succeeded" =>
           job[j].detached \/ IsExporter(j, job[j])

\* A request closes the projects it is about.
LEMMA RequestCloses ==
    ASSUME Typed, NEW p \in Projects, NEW j \in Jobs, EnqueueProjectPurge(p, j)
    PROVE  /\ project'[p].status = "deleting"
           /\ \A q \in Projects \ {p} : project'[q] = project[q]
<1>1. project[p] \in ProjectRows
  BY DEF Typed
<1>2. [project[p] EXCEPT !.status = "deleting"].status = "deleting"
  BY <1>1 DEF ProjectRows
<1>3. project' = [project EXCEPT ![p] = [project[p] EXCEPT !.status = "deleting"]]
  BY DEF EnqueueProjectPurge, Typed
<1> QED
  BY <1>2, <1>3 DEF Typed

LEMMA ConfirmationCloses ==
    ASSUME Typed, NEW j \in Jobs, Confirm(j), NEW p \in Projects
    PROVE  /\ project'[p].status \in {"deleting", "gone"}
           /\ project'[p].status = "gone" => project[p].status = "gone"
<1>1. project[p] \in ProjectRows
  BY DEF Typed
<1>2. project'[p] = IF project[p].status = "gone" THEN project[p]
                    ELSE [project[p] EXCEPT !.status = "deleting"]
  BY DEF Confirm
<1> QED
  BY <1>1, <1>2 DEF ProjectRows

LEMMA NeverActiveAgain ==
    ASSUME Typed, JobsHeld, WorkersHeld, [Next]_vars,
           NEW p \in Projects, project[p].status # "active"
    PROVE  project'[p].status # "active"
<1>1. ASSUME NEW q \in Projects, DisableProject(q) PROVE project'[p].status # "active"
  BY <1>1 DEF DisableProject, Typed
<1>2. ASSUME NEW q \in Projects, NEW j \in Jobs, EnqueueProjectPurge(q, j)
      PROVE  project'[p].status # "active"
  BY <1>2, RequestCloses
<1>3. ASSUME NEW j \in Jobs, Confirm(j) PROVE project'[p].status # "active"
  BY <1>3, ConfirmationCloses
<1>4. ASSUME NEW w \in Workers, Detaches(w) PROVE project'[p].status # "active"
  BY <1>4, DetachesProjects DEF Detaches, Mine
<1> QED
  BY <1>1, <1>2, <1>3, <1>4, WhoChangesProjects DEF Detaches

LEMMA AskedStep ==
    ASSUME Ready, AskedHeld PROVE AskedHeld'
<1>1. Typed /\ JobsHeld /\ WorkersHeld /\ ConfirmingHeld /\ [Next]_vars
  BY DEF Ready
<1>2. ASSUME NEW i \in Jobs PROVE Caused(i) /\ Kept(i) /\ JobOK(i, job[i])
  BY <1>1, JobsCaused, JobsKept DEF JobsHeld
<1>3. ASSUME NEW j \in Jobs, job'[j].kind = "project"
      PROVE  job'[j].export = None /\ project'[job'[j].project].status # "active"
  <2>1. CASE job[j].kind = "none"
    <3>1. Makes(j)
      BY <1>2, <1>3, <2>1 DEF Caused
    <3>2. PICK p \in Projects : EnqueueProjectPurge(p, j) /\ Made(j, "project", "", p, None)
      BY <1>3, <3>1 DEF Makes, Made
    <3>3. job'[j].export = None /\ job'[j].project = p
      BY <3>2 DEF Made
    <3> QED
      BY <1>1, <3>2, <3>3, RequestCloses
  <2>2. CASE job[j].kind # "none"
    <3>1. /\ job[j].kind = "project" /\ job'[j].project = job[j].project
          /\ job'[j].export = job[j].export
      BY <1>2, <1>3, <2>2 DEF Kept
    <3>2. JobOK(j, job[j])
      BY <1>2
    <3>3. job[j].project \in Projects
      BY <3>1, <3>2 DEF JobOK
    <3>4. job[j].export = None /\ project[job[j].project].status # "active"
      BY <3>1 DEF AskedHeld
    <3> QED
      BY <1>1, <3>1, <3>3, <3>4, NeverActiveAgain
  <2> QED
    BY <2>1, <2>2
<1>4. ASSUME NEW j \in Jobs, IsPurger(j, job'[j]), NEW p \in Projects
      PROVE  project'[p].status # "active"
  <2>1. CASE IsPurger(j, job[j])
    BY <1>1, <2>1, NeverActiveAgain DEF AskedHeld
  <2>2. CASE Confirm(j)
    BY <1>1, <2>2, ConfirmationCloses
  <2> QED
    BY <1>4, <2>1, <2>2, PurgerBefore
<1>5. ASSUME NEW j \in Jobs, job'[j].status = "succeeded"
      PROVE  job'[j].detached \/ IsExporter(j, job'[j])
  <2>1. CASE job[j].status = "succeeded"
    <3>1. job[j].kind # "none"
      BY <1>2, <2>1 DEF JobOK
    <3> QED
      BY <1>2, <2>1, <3>1 DEF AskedHeld, Kept, IsExporter
  <2>2. CASE job[j].status # "succeeded"
    <3>1. PICK w \in Workers : Succeeds(w) /\ j = worker[w].job
      BY <1>2, <1>5, <2>2 DEF Caused
    <3>2. Alike(job'[j], job[j]) /\ (job[j].detached \/ IsExporter(j, job[j]))
      BY <1>1, <3>1, Completes
    <3> QED
      BY <3>2 DEF Alike, IsExporter
  <2> QED
    BY <2>1, <2>2
<1> QED
  BY <1>3, <1>4, <1>5 DEF AskedHeld

(***************************************************************************)
(* What the jobs ask for, as AtomicPurge sees it.                          *)
(***************************************************************************)
StateOf(j) ==
    IF Active(j) THEN IF job[j].detached THEN "destroyed" ELSE "asked"
    ELSE IF job[j].status = "succeeded" THEN "done" ELSE "failed"
IsRequest(j) == job[j].kind = "project" \/ IsPurger(j, job[j])
Asked == [j \in Jobs |-> RequestOf(j)]

LEMMA RequestFields ==
    ASSUME Typed, JobsHeld, AskedHeld, NEW j \in Jobs
    PROVE  /\ ~IsRequest(j) => RequestOf(j) = Promise!NoRequest
           /\ IsRequest(j) => /\ RequestOf(j).state = StateOf(j)
                              /\ RequestOf(j).archive = job[j].export
           /\ job[j].kind = "project" => /\ RequestOf(j).of = {job[j].project}
                                         /\ RequestOf(j).archive = None
           /\ IsPurger(j, job[j]) => RequestOf(j).of = Projects /\ RequestOf(j).archive \in Jobs
<1>1. JobOK(j, job[j]) /\ job[j].kind \in {"none", "project", "account"} /\ None \notin Jobs
  BY NoneHasNoJob DEF JobsHeld, Typed, JobRows
<1>2. CASE ~IsRequest(j)
  BY <1>1, <1>2 DEF IsRequest, IsPurger, RequestOf, Promise!NoRequest
<1>3. CASE job[j].kind = "project"
  BY <1>1, <1>3 DEF RequestOf, StateOf, AskedHeld, IsRequest, IsPurger
<1>4. CASE IsPurger(j, job[j])
  BY <1>1, <1>4 DEF RequestOf, StateOf, IsRequest, IsPurger, JobOK
<1> QED
  BY <1>2, <1>3, <1>4 DEF IsRequest

\* A purge covers its keys, and no row that is not among them.
LEMMA ScopeOfRequest ==
    ASSUME Typed, JobsHeld, AskedHeld, NEW j \in Jobs, IsRequest(j)
    PROVE  Promise!Scope(RequestOf(j)) = Purged(j)
<1>1. CASE job[j].kind = "project"
  BY <1>1, RequestFields DEF Promise!Scope, Purged, OfProject
<1>2. CASE IsPurger(j, job[j])
  <2>1. /\ RequestOf(j).of = Projects /\ RequestOf(j).archive = job[j].export
        /\ job[j].export # None
    BY <1>2, RequestFields, NoneHasNoJob DEF IsRequest
  <2> QED
    BY <1>2, <2>1 DEF Promise!Scope, Purged, Payloads, Archive, IsPurger
<1> QED
  BY <1>1, <1>2 DEF IsRequest

LEMMA PromiseKept == PurgeInvariant /\ AskedHeld => Promise!Kept
<1> SUFFICES ASSUME PurgeInvariant, AskedHeld PROVE Promise!Kept
  OBVIOUS
<1>1. Typed /\ JobsHeld /\ RowsHeld /\ PurgerHeld
  BY DEF PurgeInvariant
<1> DEFINE Visible == stored \ (LeftBehind \ rows)
           There == {e \in Jobs : Archive(e) \in stored}
<1>2. rows \subseteq Visible
  BY <1>1 DEF RowsHeld
<1>3. ASSUME NEW j \in Jobs, Asked[j].state = "done"
      PROVE  Visible \cap Promise!Scope(Asked[j]) = {}
  <2>1. IsRequest(j) /\ StateOf(j) = "done" /\ Asked[j] = RequestOf(j)
    BY <1>1, <1>3, RequestFields DEF Asked, Promise!NoRequest
  <2>2. job[j].status = "succeeded" /\ ~Active(j)
    BY <2>1 DEF StateOf
  <2>3. job[j].detached
    BY <2>1, <2>2 DEF AskedHeld, IsRequest, IsPurger, IsExporter
  <2>4. stored \cap Purged(j) \subseteq LeftBehind
    BY <2>2, <2>3, NothingLeft DEF SucceededPurgeLeftNothing, LeftBehind
  <2>5. rows \cap Purged(j) = {}
    <3>1. CASE job[j].kind = "project"
      <4>1. job[j].project \in Projects /\ Purged(j) = OfProject(job[j].project)
        BY <1>1, <3>1 DEF JobsHeld, JobOK, Purged
      <4> QED
        BY <1>1, <2>3, <3>1, <4>1 DEF RowsHeld
    <3>2. CASE IsPurger(j, job[j])
      <4>1. ASSUME NEW k \in rows PROVE FALSE
        <5>1. k \in Payloads
          BY <1>1 DEF Typed
        <5>2. k[1] \in Projects /\ k \in OfProject(k[1])
          BY <5>1, PayloadKey
        <5> QED
          BY <1>1, <2>3, <3>2, <5>2 DEF RowsHeld, IsPurger
      <4> QED
        BY <4>1
    <3> QED
      BY <2>1, <3>1, <3>2 DEF IsRequest
  <2>6. Promise!Scope(Asked[j]) = Purged(j)
    BY <1>1, <2>1, ScopeOfRequest
  <2> QED
    BY <2>4, <2>5, <2>6
<1>4. ASSUME NEW j \in Jobs, Asked[j].state = "asked", Asked[j].archive # None
      PROVE  Asked[j].archive \in There
  <2>1. IsRequest(j) /\ StateOf(j) = "asked" /\ Asked[j] = RequestOf(j)
    BY <1>1, <1>4, RequestFields DEF Asked, Promise!NoRequest
  <2>2. IsPurger(j, job[j]) /\ ~job[j].detached
    BY <1>1, <1>4, <2>1, RequestFields DEF IsRequest, StateOf
  <2>3. job[j].phase = "purge" /\ job[j].export \in Jobs
    BY <1>1, <2>2 DEF JobsHeld, JobOK, IsPurger
  <2>4. Archive(job[j].export) \in stored
    BY <1>1, <2>2, <2>3 DEF PurgerHeld
  <2> QED
    BY <1>1, <2>1, <2>3, <2>4, RequestFields
<1> QED
  BY <1>2, <1>3, <1>4 DEF Promise!Kept, Asked

\* One row of the jobs changes: one request, or none.
LEMMA OneRequest ==
    ASSUME NEW j \in Jobs, Only(j)
    PROVE  Asked' = [Asked EXCEPT ![j] = RequestOf(j)']
<1>1. ASSUME NEW i \in Jobs, i # j PROVE RequestOf(i)' = RequestOf(i)
  BY <1>1 DEF Only, RequestOf, Active
<1> QED
  BY <1>1 DEF Asked

\* While a job goes on, its request is of the same projects and rests on the same archive.
LEMMA RequestMoves ==
    ASSUME NEW j \in Jobs, Only(j), IsRequest(j), job[j].export # j, job[j].kind # "none",
           job'[j].kind = job[j].kind, job'[j].project = job[j].project,
           job'[j].export = job[j].export
    PROVE  Asked' = [Asked EXCEPT ![j].state = StateOf(j)']
<1> DEFINE of == IF job[j].kind = "project" THEN {job[j].project} ELSE Projects
<1>1. RequestOf(j) = [state |-> StateOf(j), of |-> of, archive |-> job[j].export]
  BY DEF RequestOf, StateOf
<1>2. RequestOf(j)' = [state |-> StateOf(j)', of |-> of, archive |-> job[j].export]
  BY DEF RequestOf, StateOf
<1>3. RequestOf(j)' = [RequestOf(j) EXCEPT !.state = StateOf(j)']
  BY <1>1, <1>2
<1>4. Asked[j] = RequestOf(j)
  BY DEF Asked
<1> QED
  BY <1>3, <1>4, OneRequest

LEMMA RequestIs ==
    ASSUME Typed, JobsHeld, AskedHeld, NEW j \in Jobs, IsRequest(j)
    PROVE  job[j].kind # "none" /\ job[j].export # j
BY NoneHasNoJob DEF IsRequest, IsPurger, AskedHeld, JobsHeld, JobOK

LEMMA SameRequests ==
    ASSUME NEW j \in Jobs, Only(j), Alike(job'[j], job[j]),
           job'[j].status = job[j].status \/ (Active(j) /\ Active(j)')
    PROVE  Asked' = Asked
<1>1. RequestOf(j)' = RequestOf(j)
  BY DEF Alike, RequestOf, Active
<1> QED
  BY <1>1, OneRequest DEF Asked

Closed == {p \in Projects : project[p].status = "gone"}

\* Between requests and destructions nothing closes and no row goes.
LEMMA ClosedStays ==
    ASSUME Typed, JobsHeld, WorkersHeld, [Next]_vars, ~\E w \in Workers : Detaches(w)
    PROVE  Closed' = Closed
<1>1. \A p \in Projects : ProjectMoves(p)
  BY ProjectsStep
<1>2. \A p \in Projects : project'[p].status = "gone" <=> project[p].status = "gone"
  BY <1>1 DEF ProjectMoves, Detaches
<1> QED
  BY <1>2 DEF Closed

LEMMA RowsStay ==
    ASSUME [Next]_vars, ~\E w \in Workers : Detaches(w), ~RegisterPayload
    PROVE  UNCHANGED rows
BY WhoChangesData
   DEF Detaches, StartUpload, PutObject, StoreArchive, DeleteKey

LEMMA Registers ==
    ASSUME Typed, JobsHeld, UploadHeld, AskedHeld, RegisterPayload,
           project[upload.key[1]].status = "active"
    PROVE  \E k \in Payloads : Promise!Register(k)
<1> DEFINE k == upload.key
<1>1. k \in Payloads /\ k[1] \in Projects
  BY RegisterRow, PayloadKey
<1>2. rows' = rows \cup {k} /\ UNCHANGED <<project, job>>
  BY DEF RegisterPayload
<1>3. k[1] \notin Closed
  BY DEF Closed
<1>4. ASSUME NEW j \in Jobs PROVE k[1] \notin Asked[j].of
  <2>1. CASE ~IsRequest(j)
    BY <2>1, RequestFields DEF Asked, Promise!NoRequest
  <2>2. CASE job[j].kind = "project"
    BY <2>2, RequestFields DEF Asked, AskedHeld
  <2>3. CASE IsPurger(j, job[j])
    BY <1>1, <2>3 DEF AskedHeld
  <2> QED
    BY <2>1, <2>2, <2>3 DEF IsRequest
<1>5. Asked' = Asked /\ Closed' = Closed
  BY <1>2 DEF Asked, RequestOf, Active, Closed
<1> QED
  BY <1>1, <1>2, <1>3, <1>4, <1>5 DEF Promise!Register, Asked, Closed

LEMMA DestructionDestroys ==
    ASSUME PurgeInvariant, AskedHeld, NEW w \in Workers, Detaches(w),
           NEW j \in Jobs, j = worker[w].job
    PROVE  Promise!Destroy(j)
<1>1. Typed /\ JobsHeld /\ WorkersHeld /\ PurgerHeld
  BY DEF PurgeInvariant
<1>2. /\ DetachEffect(w, j) /\ Only(j) /\ Mine(w) = job[j]
      /\ JobOK(j, job[j]) /\ None \notin Jobs
  <2>1. DetachEffect(w, j)
    BY <1>1, DetachesRow DEF Detaches
  <2>2. Only(j)
    BY <2>1 DEF DetachEffect
  <2> QED
    BY <1>1, <2>1, <2>2, NoneHasNoJob DEF Mine, JobsHeld
<1>3. /\ Active(j) /\ ~job[j].detached /\ Active(j)' /\ job'[j].detached
      /\ job'[j].kind = job[j].kind /\ job'[j].project = job[j].project
      /\ job'[j].export = job[j].export
      /\ DetachesAccount(w) => IsPurger(j, job[j]) /\ job[j].phase = "purge"
      /\ ~DetachesAccount(w) => job[j].kind = "project"
  BY <1>2 DEF DetachEffect, Active
<1>4. IsRequest(j) /\ RequestOf(j).state = "asked"
  <2>1. IsRequest(j)
    BY <1>3 DEF IsRequest
  <2> QED
    BY <1>1, <1>2, <1>3, <2>1, RequestFields DEF StateOf
<1>5. StateOf(j)' = "destroyed"
  BY <1>3 DEF StateOf
<1>6. Asked' = [Asked EXCEPT ![j].state = "destroyed"]
  BY <1>1, <1>2, <1>3, <1>4, <1>5, RequestIs, RequestMoves
<1>7. rows' = rows \ Promise!Scope(Asked[j])
  <2>1. rows \cap DetachKeys(w) = rows \cap Purged(j)
    <3>1. CASE job[j].kind = "project"
      BY <1>2, <3>1 DEF DetachKeys, Purged
    <3>2. CASE IsPurger(j, job[j])
      BY <1>1, <1>2, <3>2 DEF DetachKeys, Purged, IsPurger, Typed
    <3> QED
      BY <1>4, <3>1, <3>2 DEF IsRequest
  <2>2. rows' = rows \ DetachKeys(w)
    BY <1>1, DetachesProjects DEF Detaches
  <2>3. Promise!Scope(Asked[j]) = Purged(j)
    BY <1>1, <1>2, <1>4, ScopeOfRequest DEF Asked
  <2> QED
    BY <2>1, <2>2, <2>3
<1>8. Closed' = Closed \cup Asked[j].of
  <2>1. CASE DetachesAccount(w)
    <3>1. \A p \in Projects : project'[p].status = "gone"
      BY <1>1, <2>1, DetachesProjects
    <3>2. Asked[j].of = Projects
      BY <1>1, <1>2, <1>3, <2>1, RequestFields DEF Asked
    <3> QED
      BY <3>1, <3>2 DEF Closed
  <2>2. CASE ~DetachesAccount(w)
    <3>1. /\ job[j].project \in Projects /\ project'[job[j].project].status = "gone"
          /\ \A p \in Projects \ {job[j].project} : project'[p] = project[p]
      BY <1>1, <1>2, <2>2, DetachesProjects DEF Detaches
    <3>2. Asked[j].of = {job[j].project}
      BY <1>1, <1>2, <1>3, <2>2, RequestFields DEF Asked
    <3> QED
      BY <3>1, <3>2 DEF Closed
  <2> QED
    BY <2>1, <2>2
<1>9. \/ Asked[j].archive = None /\ Asked[j].of \cap Closed = {}
      \/ Asked[j].archive \in {e \in Jobs : Archive(e) \in stored}
  <2>1. CASE DetachesAccount(w)
    <3>1. Asked[j].archive = job[j].export /\ job[j].export \in Jobs
      BY <1>1, <1>2, <1>3, <1>4, <2>1, RequestFields DEF Asked
    <3>2. Archive(job[j].export) \in stored
      BY <1>1, <1>2, <1>3, <2>1 DEF PurgerHeld
    <3> QED
      BY <3>1, <3>2
  <2>2. CASE ~DetachesAccount(w)
    <3>1. project[job[j].project].status = "deleting"
      BY <1>1, <1>2, <2>2, DetachesProjects DEF Detaches
    <3>2. Asked[j].archive = None /\ Asked[j].of = {job[j].project}
      BY <1>1, <1>2, <1>3, <2>2, RequestFields DEF Asked
    <3> QED
      BY <3>1, <3>2 DEF Closed
  <2> QED
    BY <2>1, <2>2
<1>10. Asked[j].state = "asked"
  BY <1>2, <1>4 DEF Asked
<1> QED
  BY <1>2, <1>6, <1>7, <1>8, <1>9, <1>10 DEF Promise!Destroy, Asked, Closed

(***************************************************************************)
(* Every other step leaves the catalog and the projects' ends alone, and   *)
(* changes at most one request.                                            *)
(***************************************************************************)
Quiet == UNCHANGED rows /\ Closed' = Closed

LEMMA RequestAsks ==
    ASSUME PurgeInvariant, AskedHeld, Quiet,
           NEW p \in Projects, NEW j \in Jobs, EnqueueProjectPurge(p, j)
    PROVE  Promise!Ask(j, p)
<1>1. Typed /\ JobsHeld /\ OnePurge
  BY DEF PurgeInvariant
<1>2. /\ account = "active" /\ job[j].kind = "none"
      /\ project[p].status \in {"active", "disabled"}
  BY DEF EnqueueProjectPurge, Unused
<1>3. Asked[j] = Promise!NoRequest
  BY <1>1, <1>2, RequestFields DEF Asked, IsRequest, IsPurger
<1>4. p \notin Closed
  BY <1>2 DEF Closed
<1>5. ASSUME NEW i \in Jobs PROVE Asked[i].archive = None
  <2>1. ~IsPurger(i, job[i])
    BY <1>1, <1>2 DEF OnePurge
  <2> QED
    BY <1>1, <2>1, RequestFields DEF Asked, IsRequest, Promise!NoRequest
<1>6. RequestOf(j)' = [state |-> "asked", of |-> {p}, archive |-> None]
  <2>1. Made(j, "project", "", p, None) /\ None # j
    BY <1>1, EnqueueMakes, NoneHasNoJob
  <2>2. /\ job'[j].kind = "project" /\ job'[j].project = p /\ job'[j].export = None
        /\ job'[j].status = "queued" /\ ~job'[j].detached
    BY <2>1 DEF Made
  <2> QED
    BY <2>1, <2>2 DEF RequestOf, Active
<1>7. Asked' = [Asked EXCEPT ![j] = [state |-> "asked", of |-> {p}, archive |-> None]]
  BY <1>1, <1>6, EnqueueMakes, OneRequest DEF Made
<1> QED
  BY <1>3, <1>4, <1>5, <1>7 DEF Promise!Ask, Quiet, Asked, Closed

LEMMA ConfirmationAsks ==
    ASSUME PurgeInvariant, AskedHeld, Quiet, NEW j \in Jobs, Confirm(j)
    PROVE  Promise!AskAll(j, confirming) /\ confirming \in Jobs
<1>1. Typed /\ JobsHeld /\ OnePurge /\ ConfirmingHeld /\ ExportsHeld
  BY DEF PurgeInvariant
<1>2. /\ Made(j, "account", "purge", None, confirming) /\ confirming \in Jobs /\ confirming # j
      /\ confirming # None /\ job[j].kind = "none"
  BY <1>1, ConfirmMakes DEF Confirm, Unused
<1>3. Asked[j] = Promise!NoRequest
  BY <1>1, <1>2, RequestFields DEF Asked, IsRequest, IsPurger
<1>4. confirming \in {e \in Jobs : Archive(e) \in stored}
  BY <1>1, <1>2 DEF ConfirmingHeld, ExportsHeld
<1>5. ASSUME NEW i \in Jobs
      PROVE  Asked[i].archive = None /\ Asked[i].state \notin {"asked", "destroyed"}
  <2>1. ~IsPurger(i, job[i])
    BY <1>1, <1>2 DEF OnePurge
  <2>2. CASE job[i].kind = "project"
    <3>1. ~Active(i)
      BY <1>1, <1>2, <2>2 DEF OnePurge, NoneActive
    <3> QED
      BY <1>1, <2>2, <3>1, RequestFields DEF Asked, IsRequest, StateOf
  <2>3. CASE job[i].kind # "project"
    BY <1>1, <2>1, <2>3, RequestFields DEF Asked, IsRequest, Promise!NoRequest
  <2> QED
    BY <2>2, <2>3
<1>6. RequestOf(j)' = [state |-> "asked", of |-> Projects, archive |-> confirming]
  <2>1. /\ job'[j].kind = "account" /\ job'[j].export = confirming
        /\ job'[j].status = "queued" /\ ~job'[j].detached
    BY <1>2 DEF Made
  <2> QED
    BY <1>2, <2>1 DEF RequestOf, Active
<1>7. Asked' = [Asked EXCEPT ![j] = [state |-> "asked", of |-> Projects, archive |-> confirming]]
  BY <1>2, <1>6, OneRequest DEF Made
<1> QED
  BY <1>2, <1>3, <1>4, <1>5, <1>7
     DEF Promise!AskAll, Promise!UnderWay, Quiet, Asked, Closed

LEMMA SuccessIsDone ==
    ASSUME PurgeInvariant, AskedHeld, Quiet, NEW w \in Workers, Succeeds(w),
           NEW j \in Jobs, j = worker[w].job
    PROVE  Asked' = Asked \/ Promise!Done(j)
<1>1. Typed /\ JobsHeld /\ WorkersHeld
  BY DEF PurgeInvariant
<1>2. /\ Only(j) /\ Alike(job'[j], job[j])
      /\ job[j].status = "running" /\ job'[j].status = "succeeded"
      /\ IsExporter(j, job[j]) \/ (~IsExporter(j, job[j]) /\ job[j].detached)
  BY <1>1, Completes
<1>3. JobOK(j, job[j]) /\ job[j] \in JobRows
  BY <1>1, <1>2 DEF JobsHeld, Typed
<1>4. CASE IsExporter(j, job[j])
  <2>1. RequestOf(j)' = RequestOf(j)
    BY <1>2, <1>4 DEF Alike, IsExporter, RequestOf
  <2> QED
    BY <1>2, <2>1, OneRequest DEF Asked
<1>5. CASE ~IsExporter(j, job[j]) /\ job[j].detached
  <2>1. IsRequest(j)
    BY <1>2, <1>3, <1>5 DEF IsRequest, IsPurger, IsExporter, JobOK, JobRows
  <2>2. RequestOf(j).state = "destroyed"
    BY <1>1, <1>2, <1>5, <2>1, RequestFields DEF StateOf, Active
  <2>3. StateOf(j)' = "done"
    BY <1>2 DEF StateOf, Active
  <2>4. Asked' = [Asked EXCEPT ![j].state = "done"]
    BY <1>1, <1>2, <2>1, <2>3, RequestIs, RequestMoves DEF Alike
  <2> QED
    BY <1>2, <2>2, <2>4 DEF Promise!Done, Quiet, Asked, Closed
<1> QED
  BY <1>2, <1>4, <1>5

LEMMA FailureFails ==
    ASSUME PurgeInvariant, AskedHeld, Quiet, NEW w \in Workers, Fail(w),
           NEW j \in Jobs, j = worker[w].job
    PROVE  Asked' = Asked \/ Promise!Fail(j)
<1>1. Typed /\ JobsHeld /\ WorkersHeld
  BY DEF PurgeInvariant
<1>3. JobOK(j, job[j]) /\ job[j] \in JobRows
  BY <1>1 DEF JobsHeld, Typed
<1>4. CASE ~Owns(w)
  BY <1>1, <1>4, FailRow DEF Asked, RequestOf, Active
<1>5. CASE Owns(w)
  <2>1. /\ Only(j) /\ Alike(job'[j], job[j]) /\ job[j].status = "running"
        /\ job'[j].status \in {"failed", "queued"}
    BY <1>1, <1>5, FailRow DEF Owns, Mine
  <2>2. CASE job'[j].status = "queued"
    BY <2>1, <2>2, SameRequests DEF Active
  <2>3. CASE job'[j].status = "failed" /\ ~IsRequest(j)
    <3>1. RequestOf(j)' = RequestOf(j)
      BY <1>3, <2>1, <2>3 DEF Alike, IsRequest, IsPurger, RequestOf, JobOK, JobRows
    <3> QED
      BY <2>1, <3>1, OneRequest DEF Asked
  <2>4. CASE job'[j].status = "failed" /\ IsRequest(j)
    <3>1. RequestOf(j).state \in {"asked", "destroyed"}
      BY <1>1, <2>1, <2>4, RequestFields DEF StateOf, Active
    <3>2. StateOf(j)' = "failed"
      BY <2>4 DEF StateOf, Active
    <3>3. Asked' = [Asked EXCEPT ![j].state = "failed"]
      BY <1>1, <2>1, <2>4, <3>2, RequestIs, RequestMoves DEF Alike
    <3> QED
      BY <3>1, <3>3 DEF Promise!Fail, Promise!UnderWay, Quiet, Asked, Closed
  <2> QED
    BY <2>1, <2>2, <2>3, <2>4
<1> QED
  BY <1>4, <1>5

LEMMA OthersAskNothing ==
    ASSUME PurgeInvariant, [Next]_vars
    PROVE  \/ Asked' = Asked
           \/ \E p \in Projects, j \in Jobs : EnqueueProjectPurge(p, j)
           \/ \E j \in Jobs : Confirm(j)
           \/ \E w \in Workers : Succeeds(w) \/ Detaches(w) \/ Fail(w)
<1>1. Typed /\ JobsHeld /\ WorkersHeld
  BY DEF PurgeInvariant
<1>2. CASE UNCHANGED job
  BY <1>2 DEF Asked, RequestOf, Active
<1>3. ASSUME NEW j \in Jobs, RequestExport(j) PROVE Asked' = Asked
  <2>1. Made(j, "account", "export", None, j) /\ job[j].kind = "none"
    BY <1>1, <1>3, RequestMakes DEF RequestExport, Unused
  <2>2. RequestOf(j)' = RequestOf(j)
    BY <2>1 DEF Made, RequestOf
  <2> QED
    BY <2>1, <2>2, OneRequest DEF Asked, Made
<1>4. ASSUME NEW j \in Jobs, LeaseExpires(j) PROVE Asked' = Asked
  BY <1>1, <1>4, ExpireRow, SameRequests
<1>5. ASSUME NEW w \in Workers, NEW j \in Jobs, Claim(w, j) PROVE Asked' = Asked
  <2>1. Only(j) /\ Alike(job'[j], job[j]) /\ job'[j].status = "running"
    BY <1>1, <1>5, ClaimRow
  <2>2. Active(j) /\ Active(j)'
    BY <1>5, <2>1 DEF Claim, Active
  <2> QED
    BY <2>1, <2>2, SameRequests
<1>6. ASSUME NEW w \in Workers, StepFails(w) \/ Crash(w) PROVE Asked' = Asked
  <2>1. worker[w].job \in Jobs /\ Fault(worker[w].job)
    BY <1>1, <1>6, Working DEF StepFails, Crash, At
  <2> QED
    BY <1>1, <2>1, FaultRow, SameRequests
<1> QED
  BY <1>2, <1>3, <1>4, <1>5, <1>6, WhoChangesJobs DEF Detaches

LEMMA PromiseStep ==
    ASSUME PurgeInvariant, AskedHeld, [Next]_vars
    PROVE  Promise!Next
<1>1. Typed /\ JobsHeld /\ WorkersHeld /\ UploadHeld
  BY DEF PurgeInvariant
<1>2. CASE \E w \in Workers : Detaches(w)
  <2>1. PICK w \in Workers : Detaches(w)
    BY <1>2
  <2>2. PICK j \in Jobs : j = worker[w].job
    BY <1>1, <2>1, DetachesRow DEF Detaches, DetachEffect
  <2>3. Promise!Destroy(j)
    BY <2>1, <2>2, DestructionDestroys
  <2> QED
    BY <2>3 DEF Promise!Next
<1>3. CASE RegisterPayload /\ project[upload.key[1]].status = "active"
  BY <1>1, <1>3, Registers DEF Promise!Next, Payloads
<1>4. CASE /\ ~\E w \in Workers : Detaches(w)
           /\ ~(RegisterPayload /\ project[upload.key[1]].status = "active")
  <2>1. Quiet
    <3>1. UNCHANGED rows
      BY <1>4, RowsStay DEF RegisterPayload
    <3> QED
      BY <1>1, <1>4, <3>1, ClosedStays DEF Quiet
  <2>2. CASE Asked' = Asked
    BY <2>1, <2>2 DEF Promise!Next, Promise!Storage, Quiet, Asked, Closed
  <2>3. ASSUME NEW p \in Projects, NEW j \in Jobs, EnqueueProjectPurge(p, j) PROVE Promise!Next
    BY <2>1, <2>3, RequestAsks DEF Promise!Next
  <2>4. ASSUME NEW j \in Jobs, Confirm(j) PROVE Promise!Next
    BY <2>1, <2>4, ConfirmationAsks DEF Promise!Next
  <2>5. ASSUME NEW w \in Workers, Succeeds(w) PROVE Promise!Next
    <3>1. PICK j \in Jobs : j = worker[w].job
      BY <1>1, <2>5, Completes
    <3>2. Asked' = Asked \/ Promise!Done(j)
      BY <2>1, <2>5, <3>1, SuccessIsDone
    <3> QED
      BY <2>2, <3>2 DEF Promise!Next
  <2>6. ASSUME NEW w \in Workers, Fail(w) PROVE Promise!Next
    <3>1. PICK j \in Jobs : j = worker[w].job
      BY <1>1, <2>6, Working DEF Fail, At
    <3>2. Asked' = Asked \/ Promise!Fail(j)
      BY <2>1, <2>6, <3>1, FailureFails
    <3> QED
      BY <2>2, <3>2 DEF Promise!Next
  <2> QED
    BY <1>4, <2>2, <2>3, <2>4, <2>5, <2>6, OthersAskNothing
<1> QED
  BY <1>2, <1>3, <1>4

LEMMA PromiseInit == PurgeInit => AskedHeld /\ Promise!Init
<1> SUFFICES ASSUME PurgeInit PROVE AskedHeld /\ Promise!Init
  OBVIOUS
<1>1. /\ \A j \in Jobs : job[j].kind = "none" /\ job[j].status = "none" /\ ~export[j].expired
                         /\ job[j].keys = {}
      /\ rows \subseteq Payloads /\ stored = rows
      /\ \A p \in Projects : project[p].status = "active"
  BY DEF PurgeInit, NoJob, NoExport
<1>2. AskedHeld
  BY <1>1 DEF AskedHeld, IsPurger
<1>3. Asked = [j \in Jobs |-> Promise!NoRequest]
  BY <1>1 DEF Asked, RequestOf, Promise!NoRequest
<1>4. {e \in Jobs : Archive(e) \in stored} = {}
  BY <1>1, PayloadKey
<1> QED
  BY <1>1, <1>2, <1>3, <1>4 DEF Promise!Init, Asked, Payloads

\* Purges implement AtomicPurge: from the moment a purge is accepted nothing is added to
\* what it covers, its rows go at one moment and only while its archive is there, and when
\* it is done nothing is left, for any number of jobs, workers, retries and faults.
THEOREM PurgeKeepsPromise == PurgeSpec => PurgesAreAtomic
<1>1. PurgeInit => AskedHeld /\ Promise!Init
  BY PromiseInit
<1>2. PurgeInvariant /\ AskedHeld /\ [Next]_vars => AskedHeld'
  BY AskedStep DEF PurgeInvariant, Ready
<1>3. PurgeInvariant /\ AskedHeld /\ [Next]_vars => [Promise!Next]_Promise!pvars
  BY PromiseStep
<1>4. PurgeInvariant /\ AskedHeld => Promise!Kept
  BY PromiseKept
<1> QED
  BY <1>1, <1>2, <1>3, <1>4, PurgeCorrect, PTL DEF PurgeSpec, PurgesAreAtomic, Promise!Spec
=============================================================================

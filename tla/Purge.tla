------------------------------- MODULE Purge -------------------------------
(***************************************************************************)
(* How the data of a project, or of a whole account, is destroyed.  The    *)
(* owner purges a project in one job.  An administrator purges an account  *)
(* in two: the first exports everything into an archive in the object      *)
(* store; once that is ready the administrator confirms, and the second    *)
(* deletes the rows in one transaction ("detaches" the objects, whose keys *)
(* it keeps in the job) and then the objects one by one.  Workers run the  *)
(* jobs under leases; a job is retried until it has used up its attempts.  *)
(*                                                                         *)
(* The one-minute delay before a retry is left to scheduling.  The hourly  *)
(* clean-up has no action here: it ends at a malformed statement (see      *)
(* PayloadStore), so that no export is marked expired and nothing but a    *)
(* purge deletes an archive or a payload's object.                         *)
(***************************************************************************)
EXTENDS Integers, FiniteSets, TLC

CONSTANTS
    Projects,       \* the projects of the account
    Hashes,         \* content hashes of payloads
    Jobs,           \* rows of jobs
    Workers,
    MaxAttempts,    \* 5 in the code
    MaxFaults,      \* bound: crashes, slow workers, errors of a store
    None

ASSUME PurgeAssumption ==
    /\ None \notin Projects \cup Hashes \cup Jobs \cup Workers
    /\ MaxAttempts \in Nat \ {0}
    /\ MaxFaults \in Nat

VARIABLES
    account,        \* users.status
    project,        \* projects.status, and whether it was taken out of "deleting"
    rows,           \* payloads that have a row
    stored,         \* keys of the objects in the object store
    upload,         \* the upload in flight
    orphans,        \* history: what is left in the object store of uploads that found the
                    \* project closed, and of workers that had lost the lease
    job,
    export,         \* account_purge_exports, by the job that makes them
    confirming,     \* the export of a confirmation whose transaction is open
    worker,
    faults

vars == <<account, project, rows, stored, upload, orphans, job, export, confirming,
          worker, faults>>

Payloads == Projects \X Hashes
Archive(j) == <<j, None>>
OfProject(p) == {p} \X Hashes
Symmetry == Permutations(Jobs) \cup Permutations(Workers) \cup Permutations(Hashes)

\* lease: the worker whose lease_token the job holds.  failures: attempts lost to faults.
NoJob == [kind |-> "none", phase |-> "", project |-> None, export |-> None, status |-> "none",
          lease |-> None, expired |-> FALSE, attempts |-> 0, failures |-> 0,
          detached |-> FALSE, keys |-> {}]
NoExport == [status |-> "none", expired |-> FALSE]
AtRest == [pc |-> "idle", job |-> None, todo |-> {}]
NoUpload == [key |-> None, pc |-> "idle"]

PurgeInit ==
    /\ account = "active"
    /\ project = [p \in Projects |-> [status |-> "active", undone |-> FALSE]]
    /\ rows \in SUBSET Payloads
    /\ stored = rows
    /\ upload = NoUpload
    /\ orphans = {}
    /\ job = [j \in Jobs |-> NoJob]
    /\ export = [j \in Jobs |-> NoExport]
    /\ confirming = None
    /\ worker = [w \in Workers |-> AtRest]
    /\ faults = 0

Active(j) == job[j].status \in {"queued", "running"}
NoneActive(kind) == \A j \in Jobs : job[j].kind = kind => ~Active(j)
Unused(j) == job[j].kind = "none"

(***************************************************************************)
(* The API.                                                                *)
(***************************************************************************)
\* PUT payload: the project is looked at, the object written, the row inserted.
StartUpload(k) ==
    /\ upload = NoUpload
    /\ account = "active" /\ project[k[1]].status = "active"
    /\ upload' = [key |-> k, pc |-> "checked"]
    /\ UNCHANGED <<account, project, rows, stored, orphans, job, export, confirming,
                   worker, faults>>

PutObject ==
    /\ upload.pc = "checked"
    /\ stored' = stored \cup {upload.key}
    /\ upload' = [upload EXCEPT !.pc = "put"]
    /\ UNCHANGED <<account, project, rows, orphans, job, export, confirming, worker, faults>>

\* Mutant: the project is not looked at again.
RegisterUnchecked ==
    /\ upload.pc = "put"
    /\ rows' = rows \cup {upload.key}
    /\ upload' = NoUpload
    /\ UNCHANGED <<account, project, stored, orphans, job, export, confirming, worker, faults>>

\* register_payload locks the project and looks at it again.
RegisterPayload ==
    /\ upload.pc = "put"
    /\ IF project[upload.key[1]].status = "active"
       THEN rows' = rows \cup {upload.key} /\ UNCHANGED orphans
       ELSE orphans' = orphans \cup ({upload.key} \cap stored) /\ UNCHANGED rows
    /\ upload' = NoUpload
    /\ UNCHANGED <<account, project, stored, job, export, confirming, worker, faults>>

\* disable_project does not look at the status it replaces.
DisableProject(p) ==
    /\ account = "active"
    /\ project[p].status # "gone"
    /\ project' = [project EXCEPT ![p] = [status |-> "disabled",
                                          undone |-> @.undone \/ @.status = "deleting"]]
    /\ UNCHANGED <<account, rows, stored, upload, orphans, job, export, confirming,
                   worker, faults>>

\* The jobs row's foreign key waits for a confirmation that holds the users row.
EnqueueProjectPurge(p, j) ==
    /\ confirming = None
    /\ account = "active"
    /\ project[p].status \in {"active", "disabled"}
    /\ Unused(j)
    /\ project' = [project EXCEPT ![p].status = "deleting"]
    /\ job' = [job EXCEPT ![j] = [NoJob EXCEPT !.kind = "project", !.project = p,
                                               !.status = "queued"]]
    /\ UNCHANGED <<account, rows, stored, upload, orphans, export, confirming, worker, faults>>

SetAccountStatus ==
    /\ confirming = None
    /\ \/ account = "active" /\ account' = "disabled"
       \/ account = "disabled" /\ account' = "active"
    /\ UNCHANGED <<project, rows, stored, upload, orphans, job, export, confirming,
                   worker, faults>>

\* An export that is pending or ready, and not past its seven days, is answered as it is;
\* jobs_one_account_purge_per_user refuses a second active job.
RequestExport(j) ==
    /\ confirming = None
    /\ account \in {"active", "disabled"}
    /\ NoneActive("project") /\ NoneActive("account")
    /\ \A e \in Jobs : export[e].status \in {"pending", "ready"} => export[e].expired
    /\ Unused(j)
    /\ job' = [job EXCEPT ![j] = [NoJob EXCEPT !.kind = "account", !.phase = "export",
                                               !.export = j, !.status = "queued"]]
    /\ export' = [export EXCEPT ![j].status = "pending"]
    /\ UNCHANGED <<account, project, rows, stored, upload, orphans, confirming, worker, faults>>

\* Mutant: a purge of one of the projects may be under way.
StartConfirmAnyway(e) ==
    /\ confirming = None
    /\ account \in {"active", "disabled"}
    /\ export[e].status = "ready" /\ job[e].status = "succeeded" /\ ~export[e].expired
    /\ confirming' = e
    /\ UNCHANGED <<account, project, rows, stored, upload, orphans, job, export, worker, faults>>

\* confirm_account_purge locks the users row and makes its checks: the export's row is not
\* locked, and expires_at is compared with the beginning of the transaction ...
StartConfirm(e) ==
    /\ confirming = None
    /\ account \in {"active", "disabled"}
    /\ export[e].status = "ready" /\ job[e].status = "succeeded" /\ ~export[e].expired
    /\ NoneActive("project")
    /\ confirming' = e
    /\ UNCHANGED <<account, project, rows, stored, upload, orphans, job, export, worker, faults>>

\* Mutant: the projects stay as they are.
ConfirmAccountOnly(j) ==
    /\ confirming # None
    /\ NoneActive("account")
    /\ Unused(j)
    /\ account' = "deleting"
    /\ export' = [export EXCEPT ![confirming].status = "purging"]
    /\ job' = [job EXCEPT ![j] = [NoJob EXCEPT !.kind = "account", !.phase = "purge",
                                               !.export = confirming, !.status = "queued"]]
    /\ confirming' = None
    /\ UNCHANGED <<project, rows, stored, upload, orphans, worker, faults>>

\* ... and then writes, after waiting for pushes that hold rows of projects.
Confirm(j) ==
    /\ confirming # None
    /\ NoneActive("account")
    /\ Unused(j)
    /\ account' = "deleting"
    /\ project' = [p \in Projects |->
                    IF project[p].status = "gone" THEN project[p]
                    ELSE [project[p] EXCEPT !.status = "deleting"]]
    /\ export' = [export EXCEPT ![confirming].status = "purging"]
    /\ job' = [job EXCEPT ![j] = [NoJob EXCEPT !.kind = "account", !.phase = "purge",
                                               !.export = confirming, !.status = "queued"]]
    /\ confirming' = None
    /\ UNCHANGED <<rows, stored, upload, orphans, worker, faults>>

ConfirmFails ==
    /\ confirming # None
    /\ confirming' = None
    /\ UNCHANGED <<account, project, rows, stored, upload, orphans, job, export, worker, faults>>

\* The seven days of an export end.
ExportLapses(e) ==
    /\ export[e].status \in {"pending", "ready"} /\ ~export[e].expired
    /\ export' = [export EXCEPT ![e].expired = TRUE]
    /\ UNCHANGED <<account, project, rows, stored, upload, orphans, job, confirming,
                   worker, faults>>

(***************************************************************************)
(* Workers.  A step that needs the lease checks it in its transaction; the *)
(* object store is written without looking.                                *)
(***************************************************************************)
At(w, pc) == worker[w].pc = pc
Goes(w, pc, todo) == worker' = [worker EXCEPT ![w].pc = pc, ![w].todo = todo]
Rests(w) == worker' = [worker EXCEPT ![w] = AtRest]
Fails(w) == Goes(w, "failing", {})
Mine(w) == job[worker[w].job]
Owns(w) == Mine(w).status = "running" /\ Mine(w).lease = w
Holds(w) == Owns(w) /\ ~Mine(w).expired
Sets(w, f) == job' = [job EXCEPT ![worker[w].job] = f]

\* claim_project_purge_job and claim_account_purge_job.
Claim(w, j) ==
    /\ At(w, "idle")
    /\ job[j].status = "queued" \/ (job[j].status = "running" /\ job[j].expired)
    /\ job' = [job EXCEPT ![j].status = "running", ![j].lease = w, ![j].expired = FALSE,
                          ![j].attempts = IF @ < MaxAttempts THEN @ + 1 ELSE @]
    /\ worker' = [worker EXCEPT ![w].pc = "claimed", ![w].job = j]
    /\ UNCHANGED <<account, project, rows, stored, upload, orphans, export, confirming, faults>>

\* account_purge_phase and prepare_account_export.
PrepareExport(w) ==
    LET e == Mine(w).export IN
    /\ At(w, "claimed")
    /\ Mine(w).kind = "account" /\ Mine(w).phase = "export"
    /\ IF Holds(w) /\ export[e].status = "pending" /\ ~export[e].expired
       THEN Goes(w, "fetching", rows)
       ELSE Fails(w)
    /\ UNCHANGED <<account, project, rows, stored, upload, orphans, job, export, confirming, faults>>

\* Each payload renews the lease (which takes one that has not expired) and is fetched.
FetchPayload(w, k) ==
    /\ At(w, "fetching")
    /\ k \in worker[w].todo
    /\ IF Holds(w) /\ k \in stored THEN Goes(w, "fetching", worker[w].todo \ {k}) ELSE Fails(w)
    /\ UNCHANGED <<account, project, rows, stored, upload, orphans, job, export, confirming, faults>>

\* put_export_file.  An archive that an earlier attempt left is kept, and is an error unless
\* it is the same: with payloads in it the times of their temporary files make it differ.
StoreArchive(w) ==
    /\ At(w, "fetching")
    /\ worker[w].todo = {}
    /\ \/ /\ Goes(w, "archived", {})
          /\ stored' = stored \cup {Archive(Mine(w).export)}
          /\ orphans' = IF Holds(w) THEN orphans ELSE orphans \cup {Archive(Mine(w).export)}
       \/ Archive(Mine(w).export) \in stored /\ Fails(w) /\ UNCHANGED <<stored, orphans>>
    /\ UNCHANGED <<account, project, rows, upload, job, export, confirming, faults>>

\* The export's row is written if it is still pending; the job has succeeded in any case.
CompleteExport(w) ==
    LET e == Mine(w).export IN
    /\ At(w, "archived")
    /\ IF Holds(w)
       THEN /\ export' = [export EXCEPT ![e].status = IF @ = "pending" THEN "ready" ELSE @]
            /\ Sets(w, [Mine(w) EXCEPT !.status = "succeeded", !.lease = None])
            /\ Rests(w)
       ELSE Fails(w) /\ UNCHANGED <<job, export>>
    /\ UNCHANGED <<account, project, rows, stored, upload, orphans, confirming, faults>>

\* Mutant: the archive is not among the keys.
DetachedPayloads(w, keys) ==
    [Mine(w) EXCEPT !.detached = TRUE, !.phase = "",
                    !.keys = keys \ {Archive(Mine(w).export)}]

\* The job's payload is replaced by one that has no "phase".
Detached(w, keys) == [Mine(w) EXCEPT !.detached = TRUE, !.phase = "", !.keys = keys]

\* prepare_account_purge; all rows of the account go.
PrepareAccountPurge(w) ==
    /\ At(w, "claimed")
    /\ Mine(w).kind = "account" /\ Mine(w).phase = "purge"
    /\ IF Holds(w) /\ account = "deleting"
       THEN /\ Sets(w, Detached(w, rows \cup {Archive(Mine(w).export)}))
            /\ rows' = {}
            /\ project' = [p \in Projects |-> [project[p] EXCEPT !.status = "gone"]]
            /\ Goes(w, "deleting", job'[worker[w].job].keys)
       ELSE Fails(w) /\ UNCHANGED <<job, rows, project>>
    /\ UNCHANGED <<account, stored, upload, orphans, export, confirming, faults>>

\* account_purge_phase accepts "export" and "purge" only.
RefusePhase(w) ==
    /\ At(w, "claimed")
    /\ Mine(w).kind = "account" /\ Mine(w).phase = ""
    /\ Fails(w)
    /\ UNCHANGED <<account, project, rows, stored, upload, orphans, job, export, confirming, faults>>

\* prepare_project_purge; a retry after the commit finds the keys in the job.
PrepareProjectPurge(w) ==
    LET p == Mine(w).project IN
    /\ At(w, "claimed")
    /\ Mine(w).kind = "project"
    /\ \/ /\ Holds(w) /\ Mine(w).detached
          /\ Goes(w, "deleting", Mine(w).keys)
          /\ UNCHANGED <<job, rows, project>>
       \/ /\ Holds(w) /\ ~Mine(w).detached /\ project[p].status = "deleting"
          /\ Sets(w, Detached(w, rows \cap OfProject(p)))
          /\ rows' = rows \ OfProject(p)
          /\ project' = [project EXCEPT ![p].status = "gone"]
          /\ Goes(w, "deleting", rows \cap OfProject(p))
       \/ /\ ~Holds(w) \/ (~Mine(w).detached /\ project[p].status # "deleting")
          /\ Fails(w)
          /\ UNCHANGED <<job, rows, project>>
    /\ UNCHANGED <<account, stored, upload, orphans, export, confirming, faults>>

DeleteKey(w, k) ==
    /\ At(w, "deleting")
    /\ k \in worker[w].todo
    /\ stored' = stored \ {k}
    /\ orphans' = orphans \ {k}
    /\ Goes(w, "deleting", worker[w].todo \ {k})
    /\ UNCHANGED <<account, project, rows, upload, job, export, confirming, faults>>

CompleteAccountPurge(w) ==
    /\ At(w, "deleting") /\ worker[w].todo = {}
    /\ Mine(w).kind = "account"
    /\ IF Holds(w)
       THEN /\ account' = "deleted"
            /\ export' = [export EXCEPT ![Mine(w).export].status = "completed"]
            /\ Sets(w, [Mine(w) EXCEPT !.status = "succeeded", !.lease = None])
            /\ Rests(w)
       ELSE Fails(w) /\ UNCHANGED <<account, export, job>>
    /\ UNCHANGED <<project, rows, stored, upload, orphans, confirming, faults>>

\* An error of complete_project_purge does not call fail_project_purge.
CompleteProjectPurge(w) ==
    /\ At(w, "deleting") /\ worker[w].todo = {}
    /\ Mine(w).kind = "project"
    /\ IF Holds(w)
       THEN Sets(w, [Mine(w) EXCEPT !.status = "succeeded", !.lease = None])
       ELSE UNCHANGED job
    /\ Rests(w)
    /\ UNCHANGED <<account, project, rows, stored, upload, orphans, export, confirming, faults>>

\* fail_project_purge and fail_account_purge: they look at the lease's token, not its time.
Fail(w) ==
    LET failed == Mine(w).attempts = MaxAttempts IN
    /\ At(w, "failing")
    /\ IF Owns(w)
       THEN /\ Sets(w, [Mine(w) EXCEPT !.status = IF failed THEN "failed" ELSE "queued",
                                       !.lease = None, !.expired = FALSE])
            /\ export' = [e \in Jobs |->
                  IF failed /\ e = worker[w].job /\ Mine(w).phase = "export"
                            /\ export[e].status = "pending"
                  THEN [export[e] EXCEPT !.status = "failed"] ELSE export[e]]
       ELSE UNCHANGED <<job, export>>
    /\ Rests(w)
    /\ UNCHANGED <<account, project, rows, stored, upload, orphans, confirming, faults>>

(***************************************************************************)
(* Faults.  Each costs the job one attempt.                                *)
(***************************************************************************)
Fault(j) == /\ faults < MaxFaults
            /\ faults' = faults + 1
            /\ job' = [job EXCEPT ![j].failures = @ + 1]

\* An error of a store.
StepFails(w) ==
    /\ worker[w].pc \in {"claimed", "fetching", "archived", "deleting"}
    /\ Fault(worker[w].job)
    /\ Fails(w)
    /\ UNCHANGED <<account, project, rows, stored, upload, orphans, export, confirming>>

Crash(w) ==
    /\ ~At(w, "idle")
    /\ Fault(worker[w].job)
    /\ Rests(w)
    /\ UNCHANGED <<account, project, rows, stored, upload, orphans, export, confirming>>

Abandoned(j) == \A w \in Workers : worker[w].job # j \/ job[j].lease # w

\* Five minutes pass: the worker is slow, or gone.
LeaseExpires(j) ==
    /\ job[j].status = "running" /\ ~job[j].expired
    /\ \/ /\ ~Abandoned(j)
          /\ faults < MaxFaults /\ faults' = faults + 1
          /\ job' = [job EXCEPT ![j].expired = TRUE, ![j].failures = @ + 1]
       \/ /\ Abandoned(j)
          /\ job' = [job EXCEPT ![j].expired = TRUE]
          /\ UNCHANGED faults
    /\ UNCHANGED <<account, project, rows, stored, upload, orphans, export, confirming, worker>>
----------------------------------------------------------------------------
Step(w) ==
    \/ PrepareExport(w) \/ StoreArchive(w) \/ CompleteExport(w)
    \/ PrepareAccountPurge(w) \/ RefusePhase(w) \/ PrepareProjectPurge(w)
    \/ \E k \in worker[w].todo : FetchPayload(w, k) \/ DeleteKey(w, k)
    \/ CompleteAccountPurge(w) \/ CompleteProjectPurge(w) \/ Fail(w)

Request ==
    \/ \E k \in Payloads : StartUpload(k)
    \/ PutObject \/ RegisterPayload
    \/ \E p \in Projects : DisableProject(p)
    \/ \E p \in Projects, j \in Jobs : EnqueueProjectPurge(p, j)
    \/ SetAccountStatus
    \/ \E j \in Jobs : RequestExport(j) \/ StartConfirm(j) \/ Confirm(j)
    \/ ConfirmFails

Next ==
    \/ Request
    \/ \E w \in Workers, j \in Jobs : Claim(w, j)
    \/ \E w \in Workers : Step(w) \/ StepFails(w) \/ Crash(w)
    \/ \E j \in Jobs : LeaseExpires(j) \/ ExportLapses(j)

PurgeSpec == PurgeInit /\ [][Next]_vars
----------------------------------------------------------------------------
(***************************************************************************)
(* The types, and that the catalog never promises an object that is gone:  *)
(* whatever is deleted and whoever deletes it, rows have their objects.    *)
(***************************************************************************)
PurgeTypeOK ==
    /\ account \in {"active", "disabled", "deleting", "deleted"}
    /\ rows \subseteq stored
    /\ stored \subseteq Payloads \cup {Archive(j) : j \in Jobs}
    /\ \A p \in Projects : project[p].status = "gone" => rows \cap OfProject(p) = {}
    /\ \A j \in Jobs :
        /\ job[j].attempts \in 0 .. MaxAttempts
        /\ job[j].lease # None <=> job[j].status = "running"
    /\ \A w \in Workers : At(w, "idle") <=> worker[w].job = None

(***************************************************************************)
(* complete_project_purge, complete_account_purge: when the job has        *)
(* succeeded its objects are gone, the archive too, however many attempts  *)
(* there were.  The exceptions: what an upload in flight put back, what an *)
(* earlier purge of a project gave up, and an archive that an exporter     *)
(* stored after losing its lease.                                          *)
(***************************************************************************)
Purged(j) == IF job[j].kind = "project" THEN OfProject(job[j].project)
                                       ELSE Payloads \cup {Archive(job[j].export)}

SucceededPurgeLeftNothing ==
    \A j \in Jobs : job[j].detached /\ job[j].status = "succeeded"
        => stored \cap Purged(j) \subseteq
               orphans \cup {upload.key}
                       \cup UNION {job[i].keys : i \in {f \in Jobs : job[f].status = "failed"}}

(***************************************************************************)
(* confirm_account_purge, prepare_account_purge: from the confirmation to  *)
(* the transaction that destroys the account's rows the archive is in the  *)
(* store, whatever exporters that lost their lease and other purges do.    *)
(***************************************************************************)
DestroyedOnlyIfExported ==
    \A j \in Jobs : job[j].phase = "purge" =>
        Archive(job[j].export) \in stored

(***************************************************************************)
(* An accepted purge fails only if every attempt met a fault.  The         *)
(* exceptions: a project taken out of "deleting" by disable_project, and   *)
(* an account purge that is retried after its rows are gone.               *)
(***************************************************************************)
PurgeFailsOnlyByFaults ==
    \A j \in Jobs : job[j].status = "failed" /\ job[j].phase # "export" =>
        \/ job[j].failures >= MaxAttempts
        \/ job[j].kind = "project" /\ project[job[j].project].undone
        \/ job[j].kind = "account" /\ job[j].detached /\ job[j].failures > 0

(***************************************************************************)
(* docs/self-hosting.md: an account purge that fails keeps the account     *)
(* "deleting", and can only be retried or resumed; fail_account_purge      *)
(* "records a bounded account purge retry".  So one fault of one attempt   *)
(* ought not to be the end of the job.                                     *)
(***************************************************************************)
ConfirmedPurgeSurvivesRetry ==
    \A j \in Jobs : job[j].status = "failed" /\ job[j].kind = "account" /\ job[j].export # j
        => job[j].failures >= MaxAttempts

(***************************************************************************)
(* Together, this implements AtomicPurge: however jobs are queued, taken   *)
(* over, retried and failed, an accepted purge destroys its rows at one    *)
(* moment, and only them; nothing is registered under it; and the archive  *)
(* of an account's export stays until then.  An exporter's job is nobody's *)
(* request.  What an upload, a failed job or an exporter without a lease   *)
(* left behind is not promised to go, unless it has a row.                 *)
(***************************************************************************)
RequestOf(j) ==
    IF job[j].kind = "none" \/ job[j].export = j
    THEN [state |-> "none", of |-> {}, archive |-> None]
    ELSE [state   |-> IF Active(j) THEN IF job[j].detached THEN "destroyed" ELSE "asked"
                      ELSE IF job[j].status = "succeeded" THEN "done" ELSE "failed",
          of      |-> IF job[j].kind = "project" THEN {job[j].project} ELSE Projects,
          archive |-> job[j].export]
LeftBehind ==
    orphans \cup {upload.key} \cup UNION {job[i].keys : i \in {f \in Jobs : job[f].status = "failed"}}

Promise == INSTANCE AtomicPurge WITH
    Requests <- Jobs,
    request <- [j \in Jobs |-> RequestOf(j)],
    catalog <- rows,
    closed <- {p \in Projects : project[p].status = "gone"},
    objects <- stored \ (LeftBehind \ rows),
    archives <- {e \in Jobs : Archive(e) \in stored}
PurgesAreAtomic == Promise!Spec
=============================================================================

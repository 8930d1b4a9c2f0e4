---------------------------- MODULE PayloadStore ----------------------------
(***************************************************************************)
(* Payloads live twice: their bytes in the object store, under a key made  *)
(* of the content hash, and a row of `payloads` in PostgreSQL.  PUT        *)
(* .../payloads/{hash} writes first the object, then the row, and holds an *)
(* advisory lock on the hash meanwhile.  A push inserts revisions that     *)
(* refer to rows.  The purge of the project deletes first the rows, then   *)
(* the objects, and does not take the advisory lock.                       *)
(*                                                                         *)
(* PayloadLock begins its transaction with a plain BEGIN, which the        *)
(* connection pool does not know about: a lock that is dropped without     *)
(* COMMIT or ROLLBACK goes back to the pool with its transaction open, and *)
(* keeps its locks until somebody else uses the connection.                *)
(*                                                                         *)
(* cleanup_orphans, which is to delete what uploads left behind, sends a   *)
(* malformed statement before it comes to any payload, and ends there.     *)
(***************************************************************************)
EXTENDS Integers, FiniteSets

CONSTANTS
    Hashes,         \* content hashes of one project
    Uploaders,      \* connections that serve PUT payload
    Pushers,        \* connections that serve push
    Workers,        \* worker processes
    MaxFaults,      \* bound: crashes, disconnections, object-store errors
    None

ASSUME PayloadAssumption ==
    /\ IsFiniteSet(Hashes)
    /\ None \notin Hashes
    /\ MaxFaults \in Nat
    /\ Uploaders \cap Pushers = {}
    /\ Workers \cap (Uploaders \cup Pushers) = {}

VARIABLES
    project,        \* projects.status, or "gone" when the row is
    rows,           \* hashes that have a row in payloads
    objects,        \* hashes whose object is in the object store
    temps,          \* hashes of which a temporary object was left behind
    refs,           \* hashes that a committed revision refers to
    keys,           \* what the purge job has detached and is to delete
    proc,           \* where each upload, push and worker is
    faults

dataVars == <<project, rows, objects, temps, refs, keys>>
vars == <<project, rows, objects, temps, refs, keys, proc, faults>>

Processes == Uploaders \cup Pushers \cup Workers
AtRest == [pc |-> "idle", hash |-> None, todo |-> {}]

PayloadInit ==
    /\ project = "active"
    /\ rows = {} /\ objects = {} /\ temps = {} /\ refs = {} /\ keys = {}
    /\ proc = [p \in Processes |-> AtRest]
    /\ faults = 0

At(p, pc) == proc[p].pc = pc
Goes(p, pc) == proc' = [proc EXCEPT ![p].pc = pc]
GoesWith(p, pc, h) == proc' = [proc EXCEPT ![p].pc = pc, ![p].hash = h]
Returns(p) == proc' = [proc EXCEPT ![p] = AtRest]
Fault == faults < MaxFaults /\ faults' = faults + 1

(***************************************************************************)
(* Locks: the advisory lock of a hash, and FOR UPDATE on the project row.  *)
(* A leaked transaction has the first, or both ("refused", "inserted").    *)
(***************************************************************************)
\* Mutant: the uploads do not wait for the lock.
HashIsNotLocked(h) == FALSE

HashIsLocked(h) == \E u \in Uploaders : proc[u].hash = h /\ ~At(u, "waiting")
ProjectIsLocked ==
    \/ \E p \in Pushers : At(p, "found")
    \/ \E u \in Uploaders : At(u, "refused") \/ At(u, "inserted")

(***************************************************************************)
(* PUT payload.                                                            *)
(***************************************************************************)
\* validate_sync_project, and the body is received and hashed.
UploadStart(u, h) ==
    /\ At(u, "idle")
    /\ project = "active"
    /\ GoesWith(u, "waiting", h)
    /\ UNCHANGED <<dataVars, faults>>

UploadLock(u) ==
    /\ At(u, "waiting")
    /\ ~HashIsLocked(proc[u].hash)
    /\ Goes(u, "locked")
    /\ UNCHANGED <<dataVars, faults>>

\* put_payload_file: an object that is there is verified and kept; otherwise the file is put
\* under a temporary key, ...
StorePayload(u) ==
    /\ At(u, "locked")
    /\ Goes(u, IF proc[u].hash \in objects THEN "stored" ELSE "copying")
    /\ UNCHANGED <<dataVars, faults>>

\* ... copied, and the temporary object deleted; an error of that is ignored.
CopyPayload(u) ==
    /\ At(u, "copying")
    /\ objects' = objects \cup {proc[u].hash}
    /\ Goes(u, "copied")
    /\ \/ UNCHANGED <<temps, faults>>
       \/ Fault /\ temps' = temps \cup {proc[u].hash}
    /\ UNCHANGED <<project, rows, refs, keys>>

\* The copy is looked at again: a purge may have deleted it.  Then ROLLBACK.
VerifyPayload(u) ==
    /\ At(u, "copied")
    /\ IF proc[u].hash \in objects THEN Goes(u, "stored") ELSE Returns(u)
    /\ UNCHANGED <<dataVars, faults>>

\* The row of an earlier upload stays.
RegisterPayload(u) ==
    /\ At(u, "stored")
    /\ ~ProjectIsLocked
    /\ project = "active"
    /\ rows' = rows \cup {proc[u].hash}
    /\ Returns(u)
    /\ UNCHANGED <<project, objects, temps, refs, keys, faults>>

\* The project has closed: an error, and the lock is dropped with its transaction open.
RefuseToRegister(u) ==
    /\ At(u, "stored")
    /\ ~ProjectIsLocked
    /\ project # "active"
    /\ Goes(u, IF project = "gone" THEN "leaked" ELSE "refused")
    /\ UNCHANGED <<dataVars, faults>>

\* What a call of the object store that does not return may have done.
HalfStored(u) ==
    \/ UNCHANGED <<objects, temps>>
    \/ /\ At(u, "locked") \/ At(u, "copying")
       /\ temps' = temps \cup {proc[u].hash}
       /\ UNCHANGED objects
    \/ /\ At(u, "copying")
       /\ objects' = objects \cup {proc[u].hash}
       /\ temps' \in {temps, temps \cup {proc[u].hash}}

\* Mutant: the error is ignored, as that of the temporary object's deletion is.
StoreFailsUnnoticed(u) ==
    /\ At(u, "locked") \/ At(u, "copying")
    /\ Fault
    /\ HalfStored(u)
    /\ Goes(u, "stored")
    /\ UNCHANGED <<project, rows, refs, keys>>

\* The object store fails: ROLLBACK.  The object may have been written all the same.
StoreFails(u) ==
    /\ proc[u].pc \in {"locked", "copying", "copied"}
    /\ Fault
    /\ HalfStored(u)
    /\ Returns(u)
    /\ UNCHANGED <<project, rows, refs, keys>>

\* The client goes away, and the handler with it, while it waits for a store: the statement
\* that was sent is carried out, up to the INSERT, but not the COMMIT.
Abandon(u) ==
    /\ Fault
    /\ HalfStored(u)
    /\ \/ /\ At(u, "waiting") /\ ~HashIsLocked(proc[u].hash)
          /\ Goes(u, "leaked")
       \/ /\ proc[u].pc \in {"locked", "copying", "copied", "stored"}
          /\ Goes(u, "leaked")
       \/ /\ At(u, "stored") /\ ~ProjectIsLocked
          /\ project = "active"
          /\ Goes(u, "refused") \/ Goes(u, "inserted")
    /\ UNCHANGED <<project, rows, refs, keys>>

\* Mutant: pg_advisory_lock, which outlives the transaction.
ReuseUnderLock(u) ==
    /\ proc[u].pc \in {"leaked", "refused", "inserted"}
    /\ Goes(u, "leaked")
    /\ UNCHANGED <<dataVars, faults>>

\* The connection serves another request, whose COMMIT ends the open transaction - and
\* commits what it has inserted - or the pool closes it.
ReuseConnection(u) ==
    /\ proc[u].pc \in {"leaked", "refused", "inserted"}
    /\ \/ UNCHANGED rows
       \/ At(u, "inserted") /\ rows' = rows \cup {proc[u].hash}
    /\ Returns(u)
    /\ UNCHANGED <<project, objects, temps, refs, keys, faults>>

(***************************************************************************)
(* A push of one item: under the project row, look up the payload's row    *)
(* and insert a revision that refers to it.                                *)
(***************************************************************************)
PushStart(p, h) ==
    /\ At(p, "idle")
    /\ project = "active"
    /\ GoesWith(p, "waiting", h)
    /\ UNCHANGED <<dataVars, faults>>

PushLook(p) ==
    /\ At(p, "waiting")
    /\ ~ProjectIsLocked
    /\ IF project = "active" /\ proc[p].hash \in rows THEN Goes(p, "found") ELSE Returns(p)
    /\ UNCHANGED <<dataVars, faults>>

PushCommit(p) ==
    /\ At(p, "found")
    /\ refs' = refs \cup {proc[p].hash}
    /\ Returns(p)
    /\ UNCHANGED <<project, rows, objects, temps, keys, faults>>

(***************************************************************************)
(* The status of the project: a restore closes and reopens it, its owner   *)
(* disables it or has it purged.                                           *)
(***************************************************************************)
ChangeStatus ==
    /\ ~ProjectIsLocked
    /\ \/ project = "active" /\ project' = "maintenance"
       \/ project = "maintenance" /\ project' = "active"
       \/ project # "gone" /\ project' = "disabled"
       \/ project \in {"active", "disabled"} /\ project' = "deleting"
    /\ UNCHANGED <<rows, objects, temps, refs, keys, proc, faults>>

(***************************************************************************)
(* Workers: the purge of the project, and the clean-up.                    *)
(***************************************************************************)
WorksOn(w, pc, todo) == proc' = [proc EXCEPT ![w].pc = pc, ![w].todo = todo]

\* prepare_project_purge: the rows go, and the keys of their objects into the job; ...
DetachPayloads(w) ==
    /\ At(w, "idle")
    /\ project = "deleting" /\ ~ProjectIsLocked
    /\ project' = "gone"
    /\ rows' = {} /\ refs' = {} /\ keys' = rows
    /\ WorksOn(w, "purging", rows)
    /\ UNCHANGED <<objects, temps, faults>>

\* ... a retry finds them there.
ResumePurge(w) ==
    /\ At(w, "idle")
    /\ project = "gone" /\ keys # {}
    /\ WorksOn(w, "purging", keys)
    /\ UNCHANGED <<dataVars, faults>>

DeleteKey(w, h) ==
    /\ At(w, "purging")
    /\ h \in proc[w].todo
    /\ objects' = objects \ {h}
    /\ WorksOn(w, "purging", proc[w].todo \ {h})
    /\ UNCHANGED <<project, rows, temps, refs, keys, faults>>

CompletePurge(w) ==
    /\ At(w, "purging") /\ proc[w].todo = {}
    /\ keys' = {}
    /\ Returns(w)
    /\ UNCHANGED <<project, rows, objects, temps, refs, faults>>

\* cleanup_orphans expires snapshots and bootstrap manifests, which have objects of their
\* own; ...
StartCleanup(w) ==
    /\ At(w, "idle")
    /\ Goes(w, "cleaning")
    /\ UNCHANGED <<dataVars, faults>>

\* ... then expire_account_purge_exports is a syntax error.  What was to follow - payloads
\* without a revision, objects without a row, temporary objects - never does.
CleanupFails(w) ==
    /\ At(w, "cleaning")
    /\ Returns(w)
    /\ UNCHANGED <<dataVars, faults>>

\* A process is gone, or a store does not answer a worker: the transaction is rolled back.
Crash(p) ==
    /\ ~At(p, "idle")
    /\ Fault
    /\ IF p \in Uploaders THEN HalfStored(p) ELSE UNCHANGED <<objects, temps>>
    /\ Returns(p)
    /\ UNCHANGED <<project, rows, refs, keys>>
----------------------------------------------------------------------------
UploadProgress(u) ==
    UploadLock(u) \/ StorePayload(u) \/ CopyPayload(u) \/ VerifyPayload(u)
        \/ RegisterPayload(u) \/ RefuseToRegister(u)

PushProgress(p) == PushLook(p) \/ PushCommit(p)

PurgeStep(w) ==
    DetachPayloads(w) \/ ResumePurge(w) \/ CompletePurge(w) \/ \E h \in Hashes : DeleteKey(w, h)

CleanupStep(w) == StartCleanup(w) \/ CleanupFails(w)

PayloadNext ==
    \/ \E u \in Uploaders : \/ \E h \in Hashes : UploadStart(u, h)
                            \/ UploadProgress(u)
                            \/ StoreFails(u) \/ Abandon(u) \/ ReuseConnection(u)
    \/ \E p \in Pushers : PushProgress(p) \/ \E h \in Hashes : PushStart(p, h)
    \/ \E w \in Workers : PurgeStep(w) \/ CleanupStep(w)
    \/ \E p \in Processes : Crash(p)
    \/ ChangeStatus

PayloadSpec == PayloadInit /\ [][PayloadNext]_vars

(***************************************************************************)
(* PostgreSQL queues the waiters of a lock; requests go on; workers take   *)
(* jobs, and clean up every hour; the pool uses a connection again, or     *)
(* closes it when it has been idle.                                        *)
(***************************************************************************)
Fairness ==
    /\ \A u \in Uploaders : SF_vars(UploadProgress(u)) /\ WF_vars(ReuseConnection(u))
    /\ \A p \in Pushers : SF_vars(PushProgress(p))
    /\ \A w \in Workers : SF_vars(PurgeStep(w)) /\ SF_vars(CleanupStep(w))

FairPayloadSpec == PayloadSpec /\ Fairness

-----------------------------------------------------------------------------
(* Properties. *)

Holders(h) == {u \in Uploaders : proc[u].hash = h /\ ~At(u, "waiting")}
RowHolders == {p \in Pushers : At(p, "found")}
                  \cup {u \in Uploaders : At(u, "refused") \/ At(u, "inserted")}

\* Types; one holder of each advisory lock, one transaction on the project row.
PayloadTypeOK ==
    /\ project \in {"active", "maintenance", "disabled", "deleting", "gone"}
    /\ rows \cup objects \cup temps \cup refs \cup keys \subseteq Hashes
    /\ \A h \in Hashes : Cardinality(Holders(h)) <= 1
    /\ Cardinality(RowHolders) <= 1

(***************************************************************************)
(* What a committed revision refers to has a row, and every row has its    *)
(* object: through failed and abandoned uploads, rows that are committed   *)
(* by somebody else's COMMIT, and a purge that deletes objects without     *)
(* looking at the locks of uploads.                                        *)
(***************************************************************************)
CatalogIsStored == refs \subseteq rows /\ rows \subseteq objects

(***************************************************************************)
(* A lock that went back to the pool with its transaction open keeps       *)
(* nobody waiting for ever: every upload and every push is answered, and   *)
(* the purge of a project gets its row.                                    *)
(***************************************************************************)
Asked(p) == ~(proc[p].pc \in {"idle", "leaked", "refused", "inserted"})
RequestsAreAnswered ==
    /\ \A p \in Uploaders \cup Pushers : Asked(p) ~> ~Asked(p)
    /\ project = "deleting" ~> project # "deleting"

(***************************************************************************)
(* delete_orphans "deletes stale temporary or content-addressed objects    *)
(* that have no database reference", and the review says that the worker   *)
(* collects them: so what an upload left behind ought not to stay.         *)
(***************************************************************************)
Orphan(h) == h \in temps \cup (objects \ rows)
OrphansAreCollected == \A h \in Hashes : Orphan(h) ~> ~Orphan(h)
=============================================================================

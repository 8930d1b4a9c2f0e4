---------------------------- MODULE ProjectStore ----------------------------
(***************************************************************************)
(* One project as PostgreSQL keeps it: the row of `projects` (status,      *)
(* generation, change_seq), `object_heads`, `object_revisions` and         *)
(* `change_log`, and the one transaction that may hold the project row     *)
(* FOR UPDATE.  Every writer of the tables - push, restore, snapshot,      *)
(* status changes - first locks that row, so the uncommitted copy of the   *)
(* tables belongs to a single writer; readers see the committed copy only  *)
(* (READ COMMITTED).                                                       *)
(*                                                                         *)
(* The module is the store the other modules write to, and its own         *)
(* specification StoreSpec states what any writer may do to it.            *)
(***************************************************************************)
EXTENDS Integers, Sequences

CONSTANTS
    Objects,        \* the (kind, object_id) pairs of the project
    Contents,       \* payload content hashes
    Tombstone,      \* the body of a revision that deletes its object
    Writers,        \* connections that may hold the project row
    Nobody,         \* the row is not locked
    MaxSeq,         \* bound: revisions appended in one behaviour
    MaxGeneration   \* bound: generations of one behaviour

ASSUME StoreAssumption ==
    /\ Tombstone \notin Contents
    /\ Nobody \notin Writers
    /\ MaxSeq \in Nat
    /\ MaxGeneration \in Nat \ {0}

VARIABLES
    status,         \* projects.status
    generation,     \* projects.generation
    store,          \* the committed tables
    holder,         \* the writer whose transaction holds the project row
    work            \* the tables as that transaction sees them

storeVars == <<status, generation, store, holder, work>>

Statuses == {"active", "maintenance", "disabled", "deleting"}
Bodies == Contents \cup {Tombstone}

(***************************************************************************)
(* A row of change_log joined with its revision.  base = 0 stands for a    *)
(* NULL base_revision.  A head names its revision by revision number and   *)
(* by the change that made it; <<0, 0>> is an object without a row.        *)
(***************************************************************************)
Changes == [seq: Nat \ {0}, obj: Objects, rev: Nat \ {0}, base: Nat, body: Bodies]
HeadRows == [rev: Nat, at: Nat]
Stores == [seq: Nat, heads: [Objects -> HeadRows], log: SUBSET Changes]

NoHead == [rev |-> 0, at |-> 0]
EmptyStore == [seq |-> 0, heads |-> [o \in Objects |-> NoHead], log |-> {}]

\* Mutant: a tombstone is logged but does not move the head.
RevisedLeavingHead(st, o, base, body) ==
    LET seq == st.seq + 1
        rev == st.heads[o].rev + 1
    IN  [seq   |-> seq,
         heads |-> IF body = Tombstone THEN st.heads
                   ELSE [st.heads EXCEPT ![o] = [rev |-> rev, at |-> seq]],
         log   |-> st.log \cup
                     {[seq |-> seq, obj |-> o, rev |-> rev, base |-> base, body |-> body]}]

\* Mutant: a tombstone removes the head row, the numbering of the object starts again.
RevisedDroppingHead(st, o, base, body) ==
    LET seq == st.seq + 1
        rev == st.heads[o].rev + 1
    IN  [seq   |-> seq,
         heads |-> [st.heads EXCEPT ![o] = IF body = Tombstone THEN NoHead
                                           ELSE [rev |-> rev, at |-> seq]],
         log   |-> st.log \cup
                     {[seq |-> seq, obj |-> o, rev |-> rev, base |-> base, body |-> body]}]

(***************************************************************************)
(* change_seq + 1, a revision one above the head, the head moved to it,    *)
(* and the change_log row.                                                 *)
(***************************************************************************)
Revised(st, o, base, body) ==
    LET seq == st.seq + 1
        rev == st.heads[o].rev + 1
    IN  [seq   |-> seq,
         heads |-> [st.heads EXCEPT ![o] = [rev |-> rev, at |-> seq]],
         log   |-> st.log \cup
                     {[seq |-> seq, obj |-> o, rev |-> rev, base |-> base, body |-> body]}]

\* The rows a query "ranked by sequence, at most n" returns: per object its last change.
RankedAt(st, n) ==
    {c \in st.log : /\ c.seq <= n
                    /\ \A d \in st.log : d.obj = c.obj /\ d.seq <= n => d.seq <= c.seq}

(***************************************************************************)
(* Transactions on the project row.                                        *)
(***************************************************************************)
StoreInit ==
    /\ status = "active"
    /\ generation = 1
    /\ store = EmptyStore
    /\ holder = Nobody
    /\ work = EmptyStore

\* SELECT ... FOR UPDATE of the project row.
LockProject(w) ==
    /\ holder = Nobody
    /\ holder' = w
    /\ work' = store
    /\ UNCHANGED <<status, generation, store>>

Revise(w, o, base, body) ==
    /\ holder = w
    /\ work.seq < MaxSeq
    /\ work' = Revised(work, o, base, body)
    /\ UNCHANGED <<status, generation, store, holder>>

\* COMMIT, with the status and generation the transaction wrote to the row.
Commit(w, g, s) ==
    /\ holder = w
    /\ store' = work
    /\ holder' = Nobody
    /\ generation' = g
    /\ status' = s
    /\ UNCHANGED work

\* Mutant: change_seq is drawn from an SQL sequence, which a rollback does not take back.
RollbackKeepingSeq(w) ==
    /\ holder = w
    /\ holder' = Nobody
    /\ store' = [store EXCEPT !.seq = work.seq]
    /\ work' = store'
    /\ UNCHANGED <<status, generation>>

\* ROLLBACK: an error return drops the transaction, a crash closes the connection.
Rollback(w) ==
    /\ holder = w
    /\ holder' = Nobody
    /\ work' = store
    /\ UNCHANGED <<status, generation, store>>

\* An UPDATE of projects.status; it waits while another transaction holds the row.
MoveTo(s) ==
    /\ holder = Nobody
    /\ status' = s
    /\ UNCHANGED <<generation, store, holder, work>>

(***************************************************************************)
(* The status changes of the code.                                         *)
(***************************************************************************)
EnterMaintenance == status \in {"active", "maintenance"} /\ MoveTo("maintenance")
LeaveMaintenance == status = "maintenance" /\ MoveTo("active")
DisableProject == MoveTo("disabled")  \* whatever the status was
StartPurge == status \in {"active", "disabled"} /\ MoveTo("deleting")

CommitWrites(w) == status = "active" /\ Commit(w, generation, status)

\* Mutant: a restore starts its generation with an empty log.
CommitRestoreRewinding(w) ==
    /\ status = "maintenance"
    /\ generation < MaxGeneration
    /\ holder = w
    /\ store' = EmptyStore
    /\ work' = EmptyStore
    /\ holder' = Nobody
    /\ generation' = generation + 1
    /\ status' = "active"

CommitRestore(w) ==
    /\ status = "maintenance"
    /\ generation < MaxGeneration
    /\ Commit(w, generation + 1, "active")

StoreNext ==
    \/ \E w \in Writers : LockProject(w)
    \/ \E w \in Writers, o \in Objects, b \in Bodies : Revise(w, o, work.heads[o].rev, b)
    \/ \E w \in Writers : CommitWrites(w)
    \/ \E w \in Writers : CommitRestore(w)
    \/ \E w \in Writers : Rollback(w)
    \/ EnterMaintenance
    \/ LeaveMaintenance
    \/ DisableProject
    \/ StartPurge

StoreSpec == StoreInit /\ [][StoreNext]_storeVars

-----------------------------------------------------------------------------
(* Properties. *)

\* The rows have the types of their tables; an idle project has no uncommitted copy.
StoreTypeOK ==
    /\ status \in Statuses
    /\ generation \in Nat \ {0}
    /\ store \in Stores
    /\ work \in Stores
    /\ holder \in Writers \cup {Nobody}
    /\ holder = Nobody => work = store

(***************************************************************************)
(* A pull cursor is a change sequence: a client that has seen everything   *)
(* up to n resumes with n + 1.  That is sound only if the sequences of the *)
(* log are exactly 1 .. change_seq, each used by one change, although      *)
(* pushes and restores that number them may roll back half-way.            *)
(***************************************************************************)
Gapless(st) ==
    /\ \A c \in st.log : c.seq \in 1 .. st.seq
    /\ \A i \in 1 .. st.seq : \E c \in st.log : c.seq = i
    /\ \A c, d \in st.log : c.seq = d.seq => c = d
ChangeLogIsGapless == Gapless(store)

(***************************************************************************)
(* object_heads repeats what object_revisions says: the head of an object  *)
(* is its highest revision, made by its last change, and an object without *)
(* a head has no revision at all.                                          *)
(***************************************************************************)
HeadsAgree(st) ==
    \A o \in Objects :
        /\ \A c \in st.log : c.obj = o => c.rev <= st.heads[o].rev /\ c.seq <= st.heads[o].at
        /\ st.heads[o] # NoHead =>
               \E c \in st.log : /\ c.obj = o
                                 /\ c.rev = st.heads[o].rev
                                 /\ c.seq = st.heads[o].at
HeadIsLatestRevision == HeadsAgree(store)

(***************************************************************************)
(* No lost update: every revision was written on top of the one before it  *)
(* (its base is the revision below), the revisions of an object are        *)
(* numbered without gaps or repeats, in the order of the change log.       *)
(***************************************************************************)
Chained(st) ==
    /\ \A c \in st.log : c.base = c.rev - 1
    /\ \A c \in st.log : c.rev > 1 =>
           \E d \in st.log : d.obj = c.obj /\ d.rev = c.base /\ d.seq < c.seq
    /\ \A c, d \in st.log : c.obj = d.obj => (c.seq < d.seq <=> c.rev < d.rev)
RevisionsAreChained == Chained(store)

(***************************************************************************)
(* The strengthening that is inductive: the uncommitted tables satisfy the *)
(* same three facts as the committed ones.                                 *)
(***************************************************************************)
Sound(st) == Gapless(st) /\ HeadsAgree(st) /\ Chained(st)
StoreInvariant == StoreTypeOK /\ Sound(store) /\ Sound(work)

(***************************************************************************)
(* The store implements ChangeHistory: read the committed log in sequence  *)
(* order.  A half-done push is invisible, a batch appears at once, and a   *)
(* restore appends instead of rewinding.                                   *)
(***************************************************************************)
ChangeAt(st, i) == CHOOSE c \in st.log : c.seq = i
HistoryOf(st) ==
    [i \in 1 .. st.seq |-> [obj |-> ChangeAt(st, i).obj, body |-> ChangeAt(st, i).body]]
History == INSTANCE ChangeHistory WITH history <- HistoryOf(store), epoch <- generation
ImplementsHistory == History!Spec

=============================================================================

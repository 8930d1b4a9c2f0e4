---------------------------- MODULE Replication -----------------------------
(***************************************************************************)
(* How a device comes to hold a project: POST .../sync/bootstrap captures  *)
(* the state in a manifest under the project row and hands it out in       *)
(* pages; POST .../sync/pull then continues from the cursor of the last    *)
(* page.  Pages and pulls read the project row without locking it and the  *)
(* data in a second statement (READ COMMITTED), so pushes, restores and    *)
(* status changes commit between the two; the answer to any request may be *)
(* lost, and a manifest expires after a day.                               *)
(*                                                                         *)
(* The device itself is not in the repository: it replaces its copy at the *)
(* end of a bootstrap, applies pulled changes in their order, and starts   *)
(* over when it is told GENERATION_MISMATCH or CURSOR_INVALID.             *)
(***************************************************************************)
EXTENDS ProjectStore, SequencesExt

CONSTANTS
    Devices,
    PageSize,       \* the `limit` of pages and pulls
    MaxFaults,      \* bound: lost answers, failed calls and expired manifests
    None

Cursors == [gen: Nat, seq: Nat]
Manifests == [gen: Nat, seq: Nat, items: Seq(Changes)]
Tokens == [manifest: Manifests, offset: Nat]

ASSUME ReplicationAssumption ==
    /\ PageSize \in Nat \ {0}
    /\ MaxFaults \in Nat
    /\ None \notin Cursors \cup Tokens

VARIABLES
    call,           \* the transaction that serves each device's request
    client,         \* the device: cursor, page token, pages so far, its copy
    completions,    \* bootstrap_completions, with their change_sequence
    began,          \* history: change_seq when each generation began
    faults

replVars == <<call, client, completions, began, faults>>
vars == <<storeVars, replVars>>

(***************************************************************************)
(* A manifest never changes, so a page token carries the manifest it names *)
(* and the offset; whether the row still exists is decided when it is read.*)
(***************************************************************************)
Idle == [pc |-> "idle"]
NewClient == [cursor |-> None, token |-> None, pages |-> {}, replica |-> {}]

ReplInit ==
    /\ StoreInit
    /\ call = [d \in Devices |-> Idle]
    /\ client = [d \in Devices |-> NewClient]
    /\ completions = {}
    /\ began = <<0>>
    /\ faults = 0

Fault == faults < MaxFaults /\ faults' = faults + 1

CallGoes(d, c) == call' = [call EXCEPT ![d] = c]
CallEnds(d) == CallGoes(d, Idle)

\* GENERATION_MISMATCH or CURSOR_INVALID: the device keeps its copy and bootstraps.
StartsOver(d) ==
    client' = [client EXCEPT ![d] = [@ EXCEPT !.cursor = None, !.token = None, !.pages = {}]]

(***************************************************************************)
(* Bootstrap, first request: capture the state under the row lock, put the *)
(* object, insert the manifest row, then go on with the first page.        *)
(***************************************************************************)
PrepareManifest(d) ==
    /\ call[d] = Idle
    /\ client[d].cursor = None /\ client[d].token = None
    /\ holder = Nobody
    /\ status = "active"
    /\ CallGoes(d, [pc |-> "prepared", gen |-> generation, seq |-> store.seq,
                    items |-> SetToSeq(RankedAt(store, store.seq))])
    /\ UNCHANGED <<storeVars, client, completions, began, faults>>

\* The foreign key of the row waits for the project row; the status is not looked at.
RecordManifest(d) ==
    /\ call[d].pc = "prepared"
    /\ holder = Nobody
    /\ CallGoes(d, [call[d] EXCEPT !.pc = "recorded"])
    /\ UNCHANGED <<storeVars, client, completions, began, faults>>

(***************************************************************************)
(* A page.  First statement: status and generation; second statement: the  *)
(* manifest; on the last page the completion is recorded.                  *)
(***************************************************************************)
Manifest(x) == [gen |-> x.gen, seq |-> x.seq, items |-> x.items]

\* The state a page is served in: generation as the first statement read it.
OpenPage(d, manifest, offset) ==
    CallGoes(d, IF status = "active"
                THEN [pc |-> "page", manifest |-> manifest, offset |-> offset,
                      generation |-> generation]
                ELSE Idle)

OpenFirstPage(d) ==
    /\ call[d].pc = "recorded"
    /\ OpenPage(d, Manifest(call[d]), 0)
    /\ UNCHANGED <<storeVars, client, completions, began, faults>>

OpenNextPage(d) ==
    /\ call[d] = Idle
    /\ client[d].token # None
    /\ OpenPage(d, client[d].token.manifest, client[d].token.offset)
    /\ UNCHANGED <<storeVars, client, completions, began, faults>>

PageEnd(c) == IF c.offset + PageSize < Len(c.manifest.items)
              THEN c.offset + PageSize ELSE Len(c.manifest.items)
HasMore(c) == c.offset + PageSize < Len(c.manifest.items)
PageItems(c) == {c.manifest.items[i] : i \in c.offset + 1 .. PageEnd(c)}

\* Mutant: the next token names the offset of the page it comes with.
TakesPageOfOffset(cl, c) ==
    LET pages == cl.pages \cup PageItems(c) IN
    IF HasMore(c)
    THEN [cl EXCEPT !.pages = pages, !.token = [manifest |-> c.manifest, offset |-> c.offset]]
    ELSE [cursor |-> [gen |-> c.generation, seq |-> c.manifest.seq],
          token |-> None, pages |-> {}, replica |-> pages]

\* What the device does with a page: collect, or replace its copy and take the cursor.
TakesPage(cl, c) ==
    LET pages == cl.pages \cup PageItems(c) IN
    IF HasMore(c)
    THEN [cl EXCEPT !.pages = pages, !.token = [manifest |-> c.manifest, offset |-> PageEnd(c)]]
    ELSE [cursor |-> [gen |-> c.generation, seq |-> c.manifest.seq],
          token |-> None, pages |-> {}, replica |-> pages]

\* Mutant: the page does not compare the generations.
PageIsOfGenerationAny(c) == TRUE

PageIsOfGeneration(c) == c.manifest.gen = c.generation

RefusePage(d) ==
    /\ call[d].pc = "page"
    /\ ~PageIsOfGeneration(call[d])
    /\ StartsOver(d)
    /\ CallEnds(d)
    /\ UNCHANGED <<storeVars, completions, began, faults>>

\* One completion per device and generation: a later one replaces its sequence.
Completed(d, c) ==
    {r \in completions : ~(r.dev = d /\ r.gen = c.generation)}
        \cup {[dev |-> d, gen |-> c.generation, seq |-> c.manifest.seq]}

ServePage(d) ==
    /\ call[d].pc = "page"
    /\ PageIsOfGeneration(call[d])
    /\ IF HasMore(call[d]) THEN UNCHANGED completions
       ELSE holder = Nobody /\ completions' = Completed(d, call[d])
    /\ \/ client' = [client EXCEPT ![d] = TakesPage(@, call[d])] /\ UNCHANGED faults
       \/ UNCHANGED client /\ Fault     \* the answer is lost
    /\ CallEnds(d)
    /\ UNCHANGED <<storeVars, began>>

\* The manifest has expired: CURSOR_INVALID.
MissManifest(d) ==
    /\ call[d].pc = "page"
    /\ Fault
    /\ StartsOver(d)
    /\ CallEnds(d)
    /\ UNCHANGED <<storeVars, completions, began>>

(***************************************************************************)
(* Pull: the row first, then the log after the cursor.                     *)
(***************************************************************************)
OpenPull(d) ==
    /\ call[d] = Idle
    /\ client[d].cursor # None
    /\ status = "active"
    /\ LET cursor == client[d].cursor IN
       IF cursor.gen # generation THEN StartsOver(d) /\ CallEnds(d)
       ELSE /\ cursor.seq <= store.seq
            /\ CallGoes(d, [pc |-> "pull", cursor |-> cursor])
            /\ UNCHANGED client
    /\ UNCHANGED <<storeVars, completions, began, faults>>

\* The first PageSize changes after the cursor.
Pulled(after) == {c \in store.log : after < c.seq /\ c.seq <= after + PageSize}

\* Mutant: the answer names the sequence the project is at, not that of the last record.
LastSeqOfProject(records, after) == store.seq

\* Mutant: the answer repeats the cursor it was asked with.
LastSeqOfCursor(records, after) == after

LastSeq(records, after) ==
    IF records = {} THEN after
    ELSE CHOOSE n \in {c.seq : c \in records} : \A c \in records : c.seq <= n

\* A device keeps, of each object, the last change it has seen.
Applied(replica, records) ==
    {c \in replica \cup records :
        \A r \in records : r.obj = c.obj => r.seq <= c.seq}

ServePull(d) ==
    /\ call[d].pc = "pull"
    /\ LET cursor == call[d].cursor
           records == Pulled(cursor.seq)
       IN  \/ /\ client' = [client EXCEPT
                    ![d].cursor = [cursor EXCEPT !.seq = LastSeq(records, cursor.seq)],
                    ![d].replica = Applied(@, records)]
              /\ UNCHANGED faults
           \/ UNCHANGED client /\ Fault     \* the answer is lost
    /\ CallEnds(d)
    /\ UNCHANGED <<storeVars, completions, began>>

\* The call fails: object store, database, or the API process.
CallFails(d) ==
    /\ call[d] # Idle
    /\ Fault
    /\ CallEnds(d)
    /\ UNCHANGED <<storeVars, client, completions, began>>

DeviceStep(d) ==
    \/ PrepareManifest(d) \/ RecordManifest(d)
    \/ OpenFirstPage(d) \/ OpenNextPage(d) \/ RefusePage(d) \/ ServePage(d)
    \/ OpenPull(d) \/ ServePull(d)

\* Pushes, restores and status changes, as ProjectStore has them.
ServerStep ==
    /\ StoreNext
    /\ began' = IF generation' = generation THEN began ELSE Append(began, store'.seq)
    /\ UNCHANGED <<call, client, completions, faults>>

ReplNext ==
    \/ \E d \in Devices : DeviceStep(d) \/ MissManifest(d) \/ CallFails(d)
    \/ ServerStep

ReplSpec == ReplInit /\ [][ReplNext]_vars

(***************************************************************************)
(* A device goes on asking; PostgreSQL queues those who wait for the row,  *)
(* and a transaction that holds it ends.                                   *)
(***************************************************************************)
Fairness ==
    /\ \A d \in Devices : SF_vars(DeviceStep(d))
    /\ \A w \in Writers : WF_vars(ServerStep /\ holder = w /\ holder' = Nobody)

FairReplSpec == ReplSpec /\ Fairness

-----------------------------------------------------------------------------
(* Properties. *)

Places == {"idle", "prepared", "recorded", "page", "pull"}

\* Types, and what a device collects it collects from one manifest.
ReplTypeOK ==
    /\ StoreTypeOK
    /\ Len(began) = generation
    /\ \A d \in Devices :
        /\ call[d].pc \in Places
        /\ client[d].replica \subseteq Changes
        /\ client[d].token # None =>
              /\ client[d].cursor = None
              /\ client[d].pages \subseteq
                    {client[d].token.manifest.items[i] : i \in 1 .. client[d].token.offset}

(***************************************************************************)
(* The copy of a device is the project exactly as it was after the change  *)
(* its cursor names: no change is skipped, applied twice or out of order,  *)
(* however pages, pulls, pushes and restores interleave and whichever      *)
(* answers are lost.                                                       *)
(***************************************************************************)
ReplicaIsPrefix ==
    \A d \in Devices : client[d].cursor # None =>
        /\ client[d].cursor.seq <= store.seq
        /\ client[d].replica = RankedAt(store, client[d].cursor.seq)

(***************************************************************************)
(* A completion lets the device push in that generation, so it must have   *)
(* been shown a state at least as new as the restore that began it, even   *)
(* if the restore committed while the pages were handed out.               *)
(***************************************************************************)
CompletionIsOfGeneration ==
    \A r \in completions : r.gen <= generation /\ began[r.gen] <= r.seq

(***************************************************************************)
(* A project that stays open is eventually copied by every device that     *)
(* goes on asking, unless somebody goes on writing.                        *)
(***************************************************************************)
UpToDate(d) == client[d].cursor = [gen |-> generation, seq |-> store.seq]
DevicesCatchUp ==
    <>[](status = "active") => \A d \in Devices : []<>UpToDate(d)
=============================================================================

--------------------------- MODULE PayloadProofs ----------------------------
(***************************************************************************)
(* The locks of uploads and pushes exclude each other, leaked or not, and  *)
(* whatever fails, is abandoned or is purged, a revision has its row and a *)
(* row its object: for any number of hashes, connections and workers, and  *)
(* any number of faults.                                                   *)
(***************************************************************************)
EXTENDS PayloadStore, FiniteSetTheorems, TLAPS

(***************************************************************************)
(* Where a process can be, and when it names a hash.                       *)
(***************************************************************************)
LeakPlaces == {"leaked", "refused", "inserted"}
UploadPlaces == {"waiting", "locked", "copying", "copied", "stored"} \cup LeakPlaces
PushPlaces == {"waiting", "found"}
WorkPlaces == {"purging", "cleaning"}
ProcRows == [pc: {"idle"} \cup UploadPlaces \cup PushPlaces \cup WorkPlaces,
             hash: Hashes \cup {None}, todo: SUBSET Hashes]

RowOK(p, r) ==
    /\ p \in Uploaders => r.pc \in {"idle"} \cup UploadPlaces
    /\ p \in Pushers => r.pc \in {"idle"} \cup PushPlaces
    /\ p \in Workers => r.pc \in {"idle"} \cup WorkPlaces
    /\ p \in Uploaders \cup Pushers /\ r.pc # "idle" => r.hash \in Hashes
    /\ r.pc = "idle" => r.hash = None

ProcsTyped ==
    /\ proc \in [Processes -> ProcRows]
    /\ \A p \in Processes : RowOK(p, proc[p])

(***************************************************************************)
(* The locks of the hash and of the project row.                           *)
(***************************************************************************)
HasHash(r) == r.pc \notin {"idle", "waiting"}
HasProject(r) == r.pc \in {"found", "refused", "inserted"}

HashLock == \A u, v \in Uploaders :
    HasHash(proc[u]) /\ HasHash(proc[v]) /\ proc[u].hash = proc[v].hash => u = v
ProjectLock == \A p, q \in Processes : HasProject(proc[p]) /\ HasProject(proc[q]) => p = q

(***************************************************************************)
(* What a process has found that is still true while it has its locks, and *)
(* what is true of the catalog.                                            *)
(***************************************************************************)
Fact(r) ==
    /\ r.pc = "found" => project = "active" /\ r.hash \in rows
    /\ r.pc = "stored" => project = "gone" \/ r.hash \in objects
    /\ r.pc = "inserted" => project = "active" /\ r.hash \in objects
    /\ r.pc = "purging" => project = "gone"
FactsHeld == \A p \in Processes : Fact(proc[p])

CatalogHeld ==
    /\ project \in {"active", "maintenance", "disabled", "deleting", "gone"}
    /\ rows \cup objects \cup temps \cup refs \cup keys \subseteq Hashes
    /\ CatalogIsStored
    /\ project = "gone" => rows = {}

PayloadInvariant == ProcsTyped /\ HashLock /\ ProjectLock /\ FactsHeld /\ CatalogHeld

-----------------------------------------------------------------------------
(***************************************************************************)
(* A step moves at most one process, takes a lock only when it is free,    *)
(* and changes the data in one of three ways.                               *)
(***************************************************************************)
LEMMA ProjectFree ==
    ASSUME ProcsTyped, ~ProjectIsLocked, NEW p \in Processes
    PROVE  ~HasProject(proc[p])
BY PayloadAssumption
   DEF ProcsTyped, ProjectIsLocked, HasProject, Processes, RowOK, At,
       UploadPlaces, LeakPlaces, PushPlaces, WorkPlaces

LEMMA HashFree ==
    ASSUME ProcsTyped, NEW h \in Hashes, ~HashIsLocked(h), NEW u \in Uploaders,
           HasHash(proc[u])
    PROVE  proc[u].hash # h
BY DEF HashIsLocked, HasHash, At

Takes(p, r) ==
    /\ p \in Uploaders /\ HasHash(r) =>
           ~HashIsLocked(r.hash) \/ (HasHash(proc[p]) /\ proc[p].hash = r.hash)
    /\ HasProject(r) => ~ProjectIsLocked \/ HasProject(proc[p])

Typed(p, r) == p \in Processes /\ r \in ProcRows /\ RowOK(p, r)

Grows ==
    /\ UNCHANGED project /\ rows \subseteq rows' /\ objects \subseteq objects'
    /\ refs \subseteq refs' /\ refs' \subseteq rows' /\ rows' \subseteq objects'
    /\ project = "gone" => rows' = rows
Shrinks == project = "gone" /\ UNCHANGED <<project, rows, refs>>
Closes == /\ ~ProjectIsLocked /\ project # "gone"
          /\ \/ UNCHANGED <<rows, objects, refs>>
                  /\ project' \in {"active", "maintenance", "disabled", "deleting"}
             \/ project' = "gone" /\ rows' = {} /\ refs' = {} /\ UNCHANGED objects
Changes ==
    /\ rows' \cup objects' \cup temps' \cup refs' \cup keys' \subseteq Hashes
    /\ Grows \/ Shrinks \/ Closes

LEMMA CatalogStep ==
    ASSUME CatalogHeld, Changes
    PROVE  CatalogHeld'
BY DEF CatalogHeld, Changes, Grows, Shrinks, Closes, CatalogIsStored

LEMMA FactStays ==
    ASSUME ProcsTyped, CatalogHeld, Changes, NEW p \in Processes, NEW r, r = proc[p], Fact(r)
    PROVE  Fact(r)'
<1>1. CASE Grows
  BY <1>1 DEF Fact, Grows
<1>2. CASE Shrinks
  BY <1>2 DEF Fact, Shrinks
<1>3. CASE Closes
  <2>1. r.pc \notin {"found", "inserted"}
    BY <1>3, ProjectFree DEF Closes, HasProject
  <2>2. r.pc # "purging"
    BY <1>3 DEF Closes, Fact
  <2> QED
    BY <1>3, <2>1, <2>2 DEF Fact, Closes
<1> QED
  BY <1>1, <1>2, <1>3 DEF Changes

\* Nobody moves.
LEMMA Quiet ==
    ASSUME PayloadInvariant, UNCHANGED proc, Changes
    PROVE  PayloadInvariant'
<1>1. ProcsTyped' /\ HashLock' /\ ProjectLock'
  BY DEF PayloadInvariant, ProcsTyped, HashLock, ProjectLock
<1>2. ASSUME NEW p \in Processes PROVE Fact(proc[p])'
  <2>1. PICK r : r = proc[p]
    OBVIOUS
  <2>2. Fact(r)'
    BY <2>1, FactStays DEF PayloadInvariant, FactsHeld
  <2> QED
    BY <2>1, <2>2
<1> QED
  BY <1>1, <1>2, CatalogStep DEF PayloadInvariant, FactsHeld

\* One process moves.
LEMMA Moves ==
    ASSUME PayloadInvariant, NEW p, NEW r, Typed(p, r), proc' = [proc EXCEPT ![p] = r],
           Takes(p, r), Changes, Fact(r)'
    PROVE  PayloadInvariant'
<1>1. /\ p \in Processes /\ r \in ProcRows /\ proc'[p] = r
      /\ \A q \in Processes \ {p} : proc'[q] = proc[q]
      /\ proc' \in [Processes -> ProcRows]
  BY DEF Typed, PayloadInvariant, ProcsTyped
<1>2. ProcsTyped'
  BY <1>1 DEF Typed, PayloadInvariant, ProcsTyped, RowOK
<1>3. HashLock'
  <2> SUFFICES ASSUME NEW u \in Uploaders, NEW v \in Uploaders, u # v,
                      HasHash(proc'[u]), HasHash(proc'[v]), proc'[u].hash = proc'[v].hash
               PROVE  FALSE
    BY DEF HashLock, HasHash
  <2>1. ASSUME NEW x \in Uploaders, NEW y \in Uploaders, x # y, p = x,
               HasHash(proc'[x]), HasHash(proc'[y]), proc'[x].hash = proc'[y].hash
        PROVE  FALSE
    <3>1. proc'[y] = proc[y] /\ HasHash(r) /\ r.hash = proc[y].hash /\ HasHash(proc[y])
      BY <1>1, <2>1 DEF Processes
    <3>2. r.hash \in Hashes
      BY <2>1, <3>1 DEF Typed, RowOK, HasHash
    <3>3. CASE ~HashIsLocked(r.hash)
      BY <2>1, <3>1, <3>2, <3>3, HashFree DEF PayloadInvariant
    <3>4. CASE HasHash(proc[p]) /\ proc[p].hash = r.hash
      BY <2>1, <3>1, <3>4 DEF PayloadInvariant, HashLock
    <3> QED
      BY <2>1, <3>1, <3>3, <3>4 DEF Takes
  <2>2. CASE p \notin {u, v}
    BY <1>1, <2>2 DEF PayloadInvariant, HashLock, Processes
  <2> QED
    BY <2>1, <2>2
<1>4. ProjectLock'
  <2> SUFFICES ASSUME NEW a \in Processes, NEW b \in Processes, a # b,
                      HasProject(proc'[a]), HasProject(proc'[b])
               PROVE  FALSE
    BY DEF ProjectLock, HasProject
  <2>1. ASSUME NEW x \in Processes, NEW y \in Processes, x # y, p = x,
               HasProject(proc'[x]), HasProject(proc'[y])
        PROVE  FALSE
    <3>1. HasProject(r) /\ HasProject(proc[y])
      BY <1>1, <2>1
    <3> QED
      BY <2>1, <3>1, ProjectFree DEF Takes, PayloadInvariant, ProjectLock
  <2>2. CASE p \notin {a, b}
    BY <1>1, <2>2 DEF PayloadInvariant, ProjectLock
  <2> QED
    BY <2>1, <2>2
<1>5. ASSUME NEW q \in Processes PROVE Fact(proc[q])'
  <2>1. CASE q = p
    BY <1>1, <2>1
  <2>2. CASE q # p
    <3>1. PICK s : s = proc[q]
      OBVIOUS
    <3>2. Fact(s)'
      BY <3>1, FactStays DEF PayloadInvariant, FactsHeld
    <3> QED
      BY <1>1, <2>2, <3>1, <3>2
  <2> QED
    BY <2>1, <2>2
<1> QED
  BY <1>2, <1>3, <1>4, <1>5, CatalogStep DEF PayloadInvariant, FactsHeld

-----------------------------------------------------------------------------
(***************************************************************************)
(* The ways in which actions move a process.                               *)
(***************************************************************************)
LEMMA Kinds ==
    ASSUME PayloadInvariant, NEW p \in Processes
    PROVE  /\ p \in Uploaders => p \notin Pushers /\ p \notin Workers
           /\ p \in Pushers => p \notin Uploaders /\ p \notin Workers
           /\ p \in Workers => p \notin Uploaders /\ p \notin Pushers
           /\ proc[p] \in ProcRows /\ RowOK(p, proc[p]) /\ Fact(proc[p])
           /\ proc[p].todo \subseteq Hashes
BY PayloadAssumption
   DEF PayloadInvariant, ProcsTyped, FactsHeld, ProcRows, Processes

LEMMA SameData ==
    ASSUME PayloadInvariant, UNCHANGED dataVars
    PROVE  Changes
BY DEF dataVars, Changes, Grows, PayloadInvariant, CatalogHeld, CatalogIsStored

LEMMA Ends ==
    ASSUME PayloadInvariant, NEW p \in Processes, Returns(p), Changes
    PROVE  PayloadInvariant'
<1>1. /\ AtRest \in ProcRows /\ AtRest.pc = "idle" /\ AtRest.hash = None
  BY DEF AtRest, ProcRows
<1>2. Typed(p, AtRest) /\ Takes(p, AtRest)
  BY <1>1 DEF Typed, RowOK, Takes, HasHash, HasProject
<1>3. Fact(AtRest)'
  BY <1>1 DEF Fact
<1> QED
  BY <1>2, <1>3, Moves DEF Returns

LEMMA Advances ==
    ASSUME PayloadInvariant, NEW p \in Uploaders \cup Pushers, NEW pc, Goes(p, pc), Changes,
           proc[p].pc # "idle",
           p \in Uploaders => pc \in UploadPlaces,
           p \in Pushers => pc \in PushPlaces,
           p \in Uploaders => HasHash(proc[p]) \/ ~HashIsLocked(proc[p].hash),
           pc \in {"found", "refused", "inserted"} => ~ProjectIsLocked,
           pc = "found" => project' = "active" /\ proc[p].hash \in rows',
           pc = "stored" => project' = "gone" \/ proc[p].hash \in objects',
           pc = "inserted" => project' = "active" /\ proc[p].hash \in objects'
    PROVE  PayloadInvariant'
<1>1. p \in Processes
  BY DEF Processes
<1>2. /\ proc[p] \in ProcRows /\ RowOK(p, proc[p]) /\ p \notin Workers
      /\ p \in Uploaders <=> p \notin Pushers
  BY <1>1, Kinds
<1>3. pc \in UploadPlaces \cup PushPlaces
  OBVIOUS
<1>4. PICK r \in ProcRows : /\ r.pc = pc /\ r.hash = proc[p].hash
                            /\ proc' = [proc EXCEPT ![p] = r]
  <2> DEFINE s == [proc[p] EXCEPT !.pc = pc]
  <2>1. s \in ProcRows /\ s.pc = pc /\ s.hash = proc[p].hash
    BY <1>2, <1>3 DEF ProcRows
  <2>2. proc' = [proc EXCEPT ![p] = s]
    BY <1>1 DEF Goes, PayloadInvariant, ProcsTyped
  <2> HIDE DEF s
  <2> QED
    BY <2>1, <2>2
<1>5. pc # "idle" /\ pc # "purging"
  BY <1>3 DEF UploadPlaces, LeakPlaces, PushPlaces
<1>6. Typed(p, r)
  BY <1>1, <1>2, <1>4, <1>5 DEF Typed, RowOK
<1>7. Takes(p, r)
  BY <1>4 DEF Takes, HasProject
<1>8. Fact(r)'
  BY <1>4, <1>5 DEF Fact
<1> QED
  BY <1>4, <1>6, <1>7, <1>8, Moves

LEMMA Begins ==
    ASSUME PayloadInvariant, NEW p \in Uploaders \cup Pushers, NEW h \in Hashes,
           GoesWith(p, "waiting", h), UNCHANGED dataVars
    PROVE  PayloadInvariant'
<1>1. p \in Processes
  BY DEF Processes
<1>2. proc[p] \in ProcRows /\ p \notin Workers
  BY <1>1, Kinds
<1>3. PICK r \in ProcRows : /\ r.pc = "waiting" /\ r.hash = h
                            /\ proc' = [proc EXCEPT ![p] = r]
  <2> DEFINE s == [proc[p] EXCEPT !.pc = "waiting", !.hash = h]
  <2>1. s \in ProcRows /\ s.pc = "waiting" /\ s.hash = h
    BY <1>2 DEF ProcRows, PushPlaces
  <2>2. proc' = [proc EXCEPT ![p] = s]
    BY <1>1 DEF GoesWith, PayloadInvariant, ProcsTyped
  <2> HIDE DEF s
  <2> QED
    BY <2>1, <2>2
<1>4. Typed(p, r) /\ Takes(p, r)
  BY <1>1, <1>2, <1>3
     DEF Typed, RowOK, Takes, HasHash, HasProject, UploadPlaces, PushPlaces
<1>5. Fact(r)'
  BY <1>3 DEF Fact
<1> QED
  BY <1>3, <1>4, <1>5, SameData, Moves

LEMMA Works ==
    ASSUME PayloadInvariant, NEW w \in Workers, NEW pc \in WorkPlaces, NEW S \in SUBSET Hashes,
           proc' = [proc EXCEPT ![w].pc = pc, ![w].todo = S], Changes,
           pc = "purging" => project' = "gone"
    PROVE  PayloadInvariant'
<1>1. w \in Processes
  BY DEF Processes
<1>2. proc[w] \in ProcRows /\ w \notin Uploaders /\ w \notin Pushers
  BY <1>1, Kinds
<1>3. PICK r \in ProcRows : r.pc = pc /\ proc' = [proc EXCEPT ![w] = r]
  <2> DEFINE s == [proc[w] EXCEPT !.pc = pc, !.todo = S]
  <2>1. s \in ProcRows /\ s.pc = pc
    BY <1>2 DEF ProcRows
  <2>2. proc' = [proc EXCEPT ![w] = s]
    BY <1>1, <1>2 DEF PayloadInvariant, ProcsTyped, ProcRows
  <2> HIDE DEF s
  <2> QED
    BY <2>1, <2>2
<1>4. Typed(w, r) /\ Takes(w, r)
  BY <1>1, <1>2, <1>3 DEF Typed, RowOK, Takes, HasProject, WorkPlaces
<1>5. Fact(r)'
  BY <1>3 DEF Fact, WorkPlaces
<1> QED
  BY <1>3, <1>4, <1>5, Moves

\* Objects and temporary objects are added.
LEMMA MoreData ==
    ASSUME PayloadInvariant, NEW h \in Hashes, UNCHANGED <<project, rows, refs, keys>>,
           objects' \in {objects, objects \cup {h}}, temps' \in {temps, temps \cup {h}}
    PROVE  Changes
BY DEF Changes, Grows, PayloadInvariant, CatalogHeld, CatalogIsStored

LEMMA HalfData ==
    ASSUME PayloadInvariant, NEW u \in Uploaders, proc[u].pc # "idle",
           HalfStored(u), UNCHANGED <<project, rows, refs, keys>>
    PROVE  Changes
<1>1. proc[u].hash \in Hashes
  BY Kinds DEF Processes, RowOK
<1> QED
  BY <1>1, MoreData DEF HalfStored

-----------------------------------------------------------------------------
(***************************************************************************)
(* The actions.                                                            *)
(***************************************************************************)
LEMMA UploadStep ==
    ASSUME PayloadInvariant, NEW u \in Uploaders,
           \/ \E h \in Hashes : UploadStart(u, h)
           \/ UploadProgress(u)
           \/ StoreFails(u) \/ Abandon(u) \/ ReuseConnection(u)
    PROVE  PayloadInvariant'
<1>1. /\ u \in Processes /\ u \notin Pushers
      /\ proc[u].pc # "idle" => proc[u].hash \in Hashes
      /\ Fact(proc[u])
  BY Kinds DEF Processes, RowOK
<1>2. CASE \E h \in Hashes : UploadStart(u, h)
  BY <1>2, Begins DEF UploadStart
<1>3. CASE UploadLock(u)
  <2>1. /\ proc[u].pc = "waiting" /\ ~HashIsLocked(proc[u].hash) /\ Goes(u, "locked")
        /\ UNCHANGED dataVars
    BY <1>3 DEF UploadLock, At
  <2> QED
    BY <1>1, <2>1, SameData, Advances DEF UploadPlaces
<1>4. CASE StorePayload(u)
  <2>1. proc[u].pc = "locked" /\ HasHash(proc[u]) /\ UNCHANGED dataVars
    BY <1>4 DEF StorePayload, At, HasHash
  <2>2. CASE proc[u].hash \in objects /\ Goes(u, "stored")
    BY <1>1, <2>1, <2>2, SameData, Advances DEF UploadPlaces, dataVars
  <2>3. CASE Goes(u, "copying")
    BY <1>1, <2>1, <2>3, SameData, Advances DEF UploadPlaces
  <2> QED
    BY <1>4, <2>2, <2>3 DEF StorePayload
<1>5. CASE CopyPayload(u)
  <2>1. /\ proc[u].pc = "copying" /\ HasHash(proc[u]) /\ Goes(u, "copied")
        /\ objects' = objects \cup {proc[u].hash}
        /\ UNCHANGED <<project, rows, refs, keys>>
        /\ temps' \in {temps, temps \cup {proc[u].hash}}
    BY <1>5 DEF CopyPayload, At, HasHash
  <2>2. Changes
    BY <1>1, <2>1, MoreData
  <2> QED
    BY <1>1, <2>1, <2>2, Advances DEF UploadPlaces
<1>6. CASE VerifyPayload(u)
  <2>1. proc[u].pc = "copied" /\ HasHash(proc[u]) /\ UNCHANGED dataVars
    BY <1>6 DEF VerifyPayload, At, HasHash
  <2>2. CASE proc[u].hash \in objects /\ Goes(u, "stored")
    BY <1>1, <2>1, <2>2, SameData, Advances DEF UploadPlaces, dataVars
  <2>3. CASE Returns(u)
    BY <1>1, <2>1, <2>3, SameData, Ends
  <2> QED
    BY <1>6, <2>2, <2>3 DEF VerifyPayload
<1>7. CASE RegisterPayload(u)
  <2>1. /\ proc[u].pc = "stored" /\ project = "active" /\ Returns(u)
        /\ rows' = rows \cup {proc[u].hash}
        /\ UNCHANGED <<project, objects, temps, refs, keys>>
    BY <1>7 DEF RegisterPayload, At
  <2>2. proc[u].hash \in objects
    BY <1>1, <2>1 DEF Fact
  <2>3. Changes
    BY <1>1, <2>1, <2>2
       DEF Changes, Grows, PayloadInvariant, CatalogHeld, CatalogIsStored
  <2> QED
    BY <1>1, <2>1, <2>3, Ends
<1>8. CASE RefuseToRegister(u)
  <2>1. /\ proc[u].pc = "stored" /\ HasHash(proc[u]) /\ ~ProjectIsLocked /\ UNCHANGED dataVars
        /\ Goes(u, "leaked") \/ Goes(u, "refused")
    BY <1>8 DEF RefuseToRegister, At, HasHash
  <2> QED
    BY <1>1, <2>1, SameData, Advances DEF UploadPlaces, LeakPlaces
<1>9. CASE StoreFails(u)
  <2>1. /\ proc[u].pc # "idle" /\ HalfStored(u) /\ UNCHANGED <<project, rows, refs, keys>>
        /\ Returns(u)
    BY <1>9 DEF StoreFails
  <2> QED
    BY <1>1, <2>1, HalfData, Ends
<1>10. CASE Abandon(u)
  <2>1. /\ proc[u].pc # "idle" /\ HalfStored(u) /\ UNCHANGED <<project, rows, refs, keys>>
        /\ HasHash(proc[u]) \/ ~HashIsLocked(proc[u].hash)
    BY <1>10 DEF Abandon, At, HasHash
  <2>2. Changes
    BY <2>1, HalfData
  <2>3. CASE Goes(u, "leaked")
    BY <1>1, <2>1, <2>2, <2>3, Advances DEF UploadPlaces, LeakPlaces
  <2>4. CASE /\ At(u, "stored") /\ ~ProjectIsLocked /\ project = "active"
             /\ Goes(u, "refused") \/ Goes(u, "inserted")
    <3>1. proc[u].hash \in objects /\ objects' = objects /\ project' = "active"
      BY <1>1, <2>1, <2>4 DEF Fact, At, HalfStored
    <3> QED
      BY <1>1, <2>1, <2>2, <2>4, <3>1, Advances DEF UploadPlaces, LeakPlaces
  <2> QED
    BY <1>10, <2>3, <2>4 DEF Abandon
<1>11. CASE ReuseConnection(u)
  <2>1. /\ proc[u].pc \in LeakPlaces /\ Returns(u)
        /\ UNCHANGED <<project, objects, temps, refs, keys>>
        /\ rows' = rows \/ (proc[u].pc = "inserted" /\ rows' = rows \cup {proc[u].hash})
    BY <1>11 DEF ReuseConnection, LeakPlaces, At
  <2>2. Changes
    BY <1>1, <2>1
       DEF Changes, Grows, PayloadInvariant, CatalogHeld, CatalogIsStored, Fact
  <2> QED
    BY <1>1, <2>1, <2>2, Ends
<1> QED
  BY <1>2, <1>3, <1>4, <1>5, <1>6, <1>7, <1>8, <1>9, <1>10, <1>11 DEF UploadProgress

LEMMA PushStep ==
    ASSUME PayloadInvariant, NEW p \in Pushers,
           PushProgress(p) \/ \E h \in Hashes : PushStart(p, h)
    PROVE  PayloadInvariant'
<1>1. /\ p \in Processes /\ p \notin Uploaders
      /\ proc[p].pc # "idle" => proc[p].hash \in Hashes
      /\ Fact(proc[p])
  BY Kinds DEF Processes, RowOK
<1>2. CASE \E h \in Hashes : PushStart(p, h)
  BY <1>2, Begins DEF PushStart
<1>3. CASE PushLook(p)
  <2>1. proc[p].pc = "waiting" /\ ~ProjectIsLocked /\ UNCHANGED dataVars
    BY <1>3 DEF PushLook, At
  <2>2. CASE project = "active" /\ proc[p].hash \in rows /\ Goes(p, "found")
    BY <1>1, <2>1, <2>2, SameData, Advances DEF PushPlaces, dataVars
  <2>3. CASE Returns(p)
    BY <1>1, <2>1, <2>3, SameData, Ends
  <2> QED
    BY <1>3, <2>2, <2>3 DEF PushLook
<1>4. CASE PushCommit(p)
  <2>1. /\ proc[p].pc = "found" /\ Returns(p) /\ refs' = refs \cup {proc[p].hash}
        /\ UNCHANGED <<project, rows, objects, temps, keys>>
    BY <1>4 DEF PushCommit, At
  <2>2. Changes
    BY <1>1, <2>1 DEF Changes, Grows, PayloadInvariant, CatalogHeld, CatalogIsStored, Fact
  <2> QED
    BY <1>1, <2>1, <2>2, Ends
<1> QED
  BY <1>2, <1>3, <1>4 DEF PushProgress

LEMMA WorkStep ==
    ASSUME PayloadInvariant, NEW w \in Workers, PurgeStep(w) \/ CleanupStep(w)
    PROVE  PayloadInvariant'
<1>1. w \in Processes /\ Fact(proc[w]) /\ proc[w].todo \subseteq Hashes
  BY Kinds DEF Processes
<1>2. CatalogHeld
  BY DEF PayloadInvariant
<1>3. CASE DetachPayloads(w)
  <2>1. /\ ~ProjectIsLocked /\ project # "gone" /\ project' = "gone"
        /\ rows' = {} /\ refs' = {} /\ keys' = rows /\ UNCHANGED <<objects, temps>>
        /\ WorksOn(w, "purging", rows)
    BY <1>3 DEF DetachPayloads
  <2>2. Changes
    BY <1>2, <2>1 DEF Changes, Closes, CatalogHeld
  <2>3. rows \in SUBSET Hashes
    BY <1>2 DEF CatalogHeld
  <2> QED
    BY <2>1, <2>2, <2>3, Works DEF WorksOn, WorkPlaces
<1>4. CASE ResumePurge(w)
  <2>1. keys \in SUBSET Hashes
    BY <1>2 DEF CatalogHeld
  <2> QED
    BY <1>4, <2>1, SameData, Works DEF ResumePurge, WorksOn, WorkPlaces, dataVars
<1>5. ASSUME NEW h \in Hashes, DeleteKey(w, h) PROVE PayloadInvariant'
  <2>1. /\ proc[w].pc = "purging" /\ objects' = objects \ {h}
        /\ UNCHANGED <<project, rows, temps, refs, keys>>
        /\ WorksOn(w, "purging", proc[w].todo \ {h})
    BY <1>5 DEF DeleteKey, At
  <2>2. project = "gone"
    BY <1>1, <2>1 DEF Fact
  <2>3. Changes
    BY <1>2, <2>1, <2>2 DEF Changes, Shrinks, CatalogHeld
  <2>4. proc[w].todo \ {h} \in SUBSET Hashes
    BY <1>1
  <2> QED
    BY <2>1, <2>2, <2>3, <2>4, Works DEF WorksOn, WorkPlaces
<1>6. CASE CompletePurge(w)
  <2>1. Returns(w) /\ UNCHANGED <<project, rows, objects, temps, refs>> /\ keys' = {}
    BY <1>6 DEF CompletePurge
  <2>2. Changes
    BY <1>2, <2>1 DEF Changes, Grows, CatalogHeld, CatalogIsStored
  <2> QED
    BY <1>1, <2>1, <2>2, Ends
<1>7. CASE StartCleanup(w)
  <2>1. proc' = [proc EXCEPT ![w].pc = "cleaning", ![w].todo = proc[w].todo]
    BY <1>1, <1>7 DEF StartCleanup, Goes, PayloadInvariant, ProcsTyped, ProcRows
  <2>2. UNCHANGED dataVars
    BY <1>7 DEF StartCleanup
  <2> QED
    BY <1>1, <2>1, <2>2, SameData, Works DEF WorkPlaces
<1>8. CASE CleanupFails(w)
  BY <1>1, <1>8, SameData, Ends DEF CleanupFails
<1> QED
  BY <1>3, <1>4, <1>5, <1>6, <1>7, <1>8 DEF PurgeStep, CleanupStep

LEMMA CrashStep ==
    ASSUME PayloadInvariant, NEW p \in Processes, Crash(p)
    PROVE  PayloadInvariant'
<1>1. CASE p \in Uploaders
  BY <1>1, HalfData, Ends DEF Crash, At
<1>2. CASE p \notin Uploaders
  BY <1>2, SameData, Ends DEF Crash, dataVars
<1> QED
  BY <1>1, <1>2

LEMMA StatusStep ==
    ASSUME PayloadInvariant, ChangeStatus
    PROVE  PayloadInvariant'
<1>1. /\ ~ProjectIsLocked /\ project # "gone" /\ UNCHANGED <<rows, objects, temps, refs, keys, proc>>
      /\ project' \in {"active", "maintenance", "disabled", "deleting"}
  BY DEF ChangeStatus
<1>2. Changes
  BY <1>1 DEF Changes, Closes, PayloadInvariant, CatalogHeld
<1> QED
  BY <1>1, <1>2, Quiet

LEMMA PayloadInitInvariant == PayloadInit => PayloadInvariant
<1> SUFFICES ASSUME PayloadInit PROVE PayloadInvariant
  OBVIOUS
<1>1. /\ AtRest \in ProcRows /\ AtRest.pc = "idle" /\ AtRest.hash = None
      /\ proc = [p \in Processes |-> AtRest]
  BY DEF AtRest, ProcRows, PayloadInit
<1>2. \A p \in Processes : proc[p] = AtRest
  BY <1>1
<1> HIDE DEF AtRest
<1>3. ProcsTyped
  BY <1>1, <1>2 DEF ProcsTyped, RowOK
<1>4. HashLock /\ ProjectLock /\ FactsHeld
  BY <1>1, <1>2 DEF HashLock, ProjectLock, FactsHeld, Fact, HasHash, HasProject, Processes
<1>5. CatalogHeld
  BY DEF PayloadInit, CatalogHeld, CatalogIsStored
<1> QED
  BY <1>3, <1>4, <1>5 DEF PayloadInvariant

LEMMA PayloadNextInvariant == PayloadInvariant /\ [PayloadNext]_vars => PayloadInvariant'
<1> SUFFICES ASSUME PayloadInvariant, [PayloadNext]_vars PROVE PayloadInvariant'
  OBVIOUS
<1>1. CASE UNCHANGED vars
  BY <1>1, SameData, Quiet DEF vars, dataVars
<1> QED
  BY <1>1, UploadStep, PushStep, WorkStep, CrashStep, StatusStep DEF PayloadNext

\* The invariant of uploads, pushes, purges and leaked transactions.
THEOREM PayloadCorrect == PayloadSpec => []PayloadInvariant
BY PayloadInitInvariant, PayloadNextInvariant, PTL DEF PayloadSpec

-----------------------------------------------------------------------------
LEMMA AtMostOne ==
    ASSUME NEW S, \A x, y \in S : x = y
    PROVE  Cardinality(S) <= 1
<1>1. CASE S = {}
  BY <1>1, FS_EmptySet
<1>2. CASE S # {}
  <2>1. PICK x : S = {x}
    BY <1>2
  <2> QED
    BY <2>1, FS_Singleton
<1> QED
  BY <1>1, <1>2

\* An advisory lock has one holder and the project row one, leaked transactions counted.
THEOREM PayloadTypes == PayloadSpec => []PayloadTypeOK
<1>1. PayloadInvariant => PayloadTypeOK
  <2> SUFFICES ASSUME PayloadInvariant PROVE PayloadTypeOK
    OBVIOUS
  <2>1. ASSUME NEW h \in Hashes PROVE Cardinality(Holders(h)) <= 1
    <3>1. ASSUME NEW u \in Holders(h), NEW v \in Holders(h) PROVE u = v
      <4>1. /\ u \in Uploaders /\ v \in Uploaders
            /\ proc[u].hash = h /\ proc[v].hash = h
            /\ proc[u].pc # "waiting" /\ proc[v].pc # "waiting"
        BY DEF Holders, At
      <4>2. RowOK(u, proc[u]) /\ RowOK(v, proc[v]) /\ h # None
        BY <4>1, Kinds, PayloadAssumption DEF Processes
      <4>3. HasHash(proc[u]) /\ HasHash(proc[v])
        BY <4>1, <4>2 DEF RowOK, HasHash
      <4> QED
        BY <4>1, <4>3 DEF PayloadInvariant, HashLock
    <3> QED
      BY <3>1, AtMostOne
  <2>2. Cardinality(RowHolders) <= 1
    <3>1. ASSUME NEW p \in RowHolders, NEW q \in RowHolders PROVE p = q
      <4>1. p \in Processes /\ q \in Processes /\ HasProject(proc[p]) /\ HasProject(proc[q])
        BY DEF RowHolders, HasProject, At, Processes
      <4> QED
        BY <4>1 DEF PayloadInvariant, ProjectLock
    <3> QED
      BY <3>1, AtMostOne
  <2> QED
    BY <2>1, <2>2 DEF PayloadTypeOK, PayloadInvariant, CatalogHeld
<1> QED
  BY <1>1, PayloadCorrect, PTL

\* A revision has its row and a row its object, whatever fails, is abandoned or is purged.
THEOREM CatalogStored == PayloadSpec => []CatalogIsStored
<1>1. PayloadInvariant => CatalogIsStored
  BY DEF PayloadInvariant, CatalogHeld
<1> QED
  BY <1>1, PayloadCorrect, PTL
=============================================================================

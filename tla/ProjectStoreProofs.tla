------------------------- MODULE ProjectStoreProofs -------------------------
(***************************************************************************)
(* The store invariant, for any number of objects, writers, revisions and  *)
(* generations.                                                            *)
(***************************************************************************)
EXTENDS ProjectStore, TLAPS

USE DEF Bodies

(***************************************************************************)
(* Appending a revision on top of the head keeps the tables well-typed.    *)
(***************************************************************************)
LEMMA RevisedTyped ==
    ASSUME NEW st \in Stores, NEW o \in Objects, NEW b \in Bodies
    PROVE  Revised(st, o, st.heads[o].rev, b) \in Stores
<1> DEFINE head == st.heads[o]
           new == [seq |-> st.seq + 1, obj |-> o, rev |-> head.rev + 1,
                   base |-> head.rev, body |-> b]
<1>1. /\ st.seq \in Nat /\ st.log \subseteq Changes
      /\ st.heads \in [Objects -> HeadRows] /\ head \in HeadRows /\ head.rev \in Nat
  BY DEF Stores, HeadRows
<1>2. new \in Changes
  BY <1>1 DEF Changes
<1>3. [st.heads EXCEPT ![o] = [rev |-> head.rev + 1, at |-> st.seq + 1]]
        \in [Objects -> HeadRows]
  BY <1>1 DEF HeadRows
<1> QED
  BY <1>1, <1>2, <1>3 DEF Revised, Stores

(***************************************************************************)
(* It also keeps the log gapless, the heads right and the chains whole:    *)
(* the new change has the next sequence, and a revision number above all   *)
(* those of its object, because the head was the highest of them.          *)
(***************************************************************************)
LEMMA RevisedSound ==
    ASSUME NEW st \in Stores, Sound(st), NEW o \in Objects, NEW b \in Bodies
    PROVE  Sound(Revised(st, o, st.heads[o].rev, b))
<1> DEFINE head == st.heads[o]
           new == [seq |-> st.seq + 1, obj |-> o, rev |-> head.rev + 1,
                   base |-> head.rev, body |-> b]
           next == Revised(st, o, st.heads[o].rev, b)
<1>1. /\ st.seq \in Nat /\ st.log \subseteq Changes
      /\ st.heads \in [Objects -> HeadRows] /\ head.rev \in Nat /\ head.at \in Nat
  BY DEF Stores, HeadRows
<1>2. /\ next.seq = st.seq + 1
      /\ next.log = st.log \cup {new}
      /\ next.heads = [st.heads EXCEPT ![o] = [rev |-> head.rev + 1, at |-> st.seq + 1]]
  BY DEF Revised
<1>3. \A c \in st.log : /\ c.seq \in Nat \ {0} /\ c.rev \in Nat \ {0}
                        /\ c.base \in Nat /\ c.obj \in Objects
  BY <1>1 DEF Changes
<1>4. Gapless(st) /\ HeadsAgree(st) /\ Chained(st)
  BY DEF Sound
<1> HIDE DEF next
<1>5. Gapless(next)
  <2>1. \A c \in next.log : c.seq \in 1 .. next.seq
    BY <1>1, <1>2, <1>3, <1>4 DEF Gapless
  <2>2. \A i \in 1 .. next.seq : \E c \in next.log : c.seq = i
    <3> SUFFICES ASSUME NEW i \in 1 .. next.seq
                 PROVE  \E c \in next.log : c.seq = i
      OBVIOUS
    <3>1. CASE i = st.seq + 1
      <4>1. new \in next.log /\ new.seq = i
        BY <3>1, <1>2
      <4> QED
        BY <4>1
    <3>2. CASE i # st.seq + 1
      <4>1. i \in 1 .. st.seq
        BY <3>2, <1>1, <1>2
      <4> QED
        BY <4>1, <1>2, <1>4 DEF Gapless
    <3> QED
      BY <3>1, <3>2
  <2>3. \A c, d \in next.log : c.seq = d.seq => c = d
    BY <1>1, <1>2, <1>3, <1>4 DEF Gapless
  <2> QED
    BY <2>1, <2>2, <2>3 DEF Gapless
<1>6. \A c \in st.log : c.obj = o => c.rev <= head.rev
  BY <1>4 DEF HeadsAgree
<1>7. \A c \in st.log : c.seq < st.seq + 1
  BY <1>1, <1>3, <1>4 DEF Gapless
<1>8. HeadsAgree(next)
  <2> SUFFICES ASSUME NEW x \in Objects
               PROVE  /\ \A c \in next.log :
                            c.obj = x => c.rev <= next.heads[x].rev /\ c.seq <= next.heads[x].at
                      /\ next.heads[x] # NoHead =>
                            \E c \in next.log : /\ c.obj = x
                                                /\ c.rev = next.heads[x].rev
                                                /\ c.seq = next.heads[x].at
    BY DEF HeadsAgree
  <2>1. CASE x = o
    <3>1. next.heads[x].rev = head.rev + 1 /\ next.heads[x].at = st.seq + 1
      BY <2>1, <1>1, <1>2
    <3>2. \A c \in next.log : c.obj = x => c.rev <= next.heads[x].rev /\ c.seq <= next.heads[x].at
      BY <2>1, <3>1, <1>1, <1>2, <1>3, <1>6, <1>7
    <3>3. new \in next.log /\ new.obj = x /\ new.rev = next.heads[x].rev
             /\ new.seq = next.heads[x].at
      BY <2>1, <3>1, <1>2
    <3> QED
      BY <3>2, <3>3
  <2>2. CASE x # o
    <3>1. next.heads[x] = st.heads[x]
      BY <2>2, <1>1, <1>2
    <3>2. new.obj # x
      BY <2>2
    <3> QED
      BY <3>1, <3>2, <1>2, <1>4 DEF HeadsAgree
  <2> QED
    BY <2>1, <2>2
<1>9. Chained(next)
  <2>1. \A c \in next.log : c.base = c.rev - 1
    BY <1>1, <1>2, <1>4 DEF Chained
  <2>2. ASSUME NEW c \in next.log, c.rev > 1
        PROVE  \E d \in next.log : d.obj = c.obj /\ d.rev = c.base /\ d.seq < c.seq
    <3>1. CASE c = new
      <4>1. head # NoHead
        BY <2>2, <3>1, <1>1 DEF NoHead
      <4>2. PICK d \in st.log : d.obj = o /\ d.rev = head.rev /\ d.seq = head.at
        BY <4>1, <1>4 DEF HeadsAgree
      <4> QED
        BY <4>2, <3>1, <1>2, <1>7
    <3>2. CASE c # new
      <4>1. c \in st.log
        BY <3>2, <1>2
      <4> QED
        BY <4>1, <2>2, <1>2, <1>4 DEF Chained
    <3> QED
      BY <3>1, <3>2
  <2>3. ASSUME NEW c \in next.log, NEW d \in next.log, c.obj = d.obj
        PROVE  c.seq < d.seq <=> c.rev < d.rev
    <3>1. CASE c \in st.log /\ d \in st.log
      BY <2>3, <3>1, <1>4 DEF Chained
    <3>2. CASE c = new /\ d = new
      BY <3>2, <1>1
    <3>3. CASE c = new /\ d \in st.log
      BY <2>3, <3>3, <1>1, <1>3, <1>6, <1>7
    <3>4. CASE c \in st.log /\ d = new
      BY <2>3, <3>4, <1>1, <1>3, <1>6, <1>7
    <3> QED
      BY <3>1, <3>2, <3>3, <3>4, <1>2
  <2> QED
    BY <2>1, <2>2, <2>3 DEF Chained
<1> QED
  BY <1>5, <1>8, <1>9 DEF Sound, next

-----------------------------------------------------------------------------
(***************************************************************************)
(* The invariant holds at first.                                           *)
(***************************************************************************)
LEMMA InitInvariant == StoreInit => StoreInvariant
<1> SUFFICES ASSUME StoreInit PROVE StoreInvariant
  OBVIOUS
<1>1. EmptyStore \in Stores
  BY DEF EmptyStore, Stores, HeadRows, NoHead, Changes
<1>2. Sound(EmptyStore)
  BY DEF Sound, Gapless, HeadsAgree, Chained, EmptyStore
<1> QED
  BY <1>1, <1>2 DEF StoreInit, StoreInvariant, StoreTypeOK, Statuses

(***************************************************************************)
(* Each action keeps it.  A commit or a rollback copies tables that are    *)
(* sound already, so only Revise has anything to show; that is why the     *)
(* invariant speaks of the uncommitted tables too.                         *)
(***************************************************************************)
LEMMA LockKeeps ==
    ASSUME StoreInvariant, NEW w \in Writers, LockProject(w)
    PROVE  StoreInvariant'
BY StoreAssumption DEF StoreInvariant, StoreTypeOK, LockProject

LEMMA ReviseKeeps ==
    ASSUME StoreInvariant, NEW w \in Writers, NEW o \in Objects, NEW b \in Bodies,
           Revise(w, o, work.heads[o].rev, b)
    PROVE  StoreInvariant'
<1>1. work \in Stores /\ Sound(work)
  BY DEF StoreInvariant, StoreTypeOK
<1>2. work' \in Stores
  BY <1>1, RevisedTyped DEF Revise
<1>3. Sound(work')
  BY <1>1, RevisedSound DEF Revise
<1>4. Sound(work)'
  BY <1>3
<1> QED
  BY <1>2, <1>4, StoreAssumption DEF Revise, StoreInvariant, StoreTypeOK

LEMMA CommitKeeps ==
    ASSUME StoreInvariant, NEW w \in Writers, NEW g \in Nat \ {0}, NEW s \in Statuses,
           Commit(w, g, s)
    PROVE  StoreInvariant'
BY StoreAssumption DEF Commit, StoreInvariant, StoreTypeOK

LEMMA RollbackKeeps ==
    ASSUME StoreInvariant, NEW w \in Writers, Rollback(w)
    PROVE  StoreInvariant'
BY StoreAssumption DEF Rollback, StoreInvariant, StoreTypeOK

LEMMA MoveToKeeps ==
    ASSUME StoreInvariant, NEW s \in Statuses, MoveTo(s)
    PROVE  StoreInvariant'
BY DEF MoveTo, StoreInvariant, StoreTypeOK

LEMMA NextInvariant == StoreInvariant /\ [StoreNext]_storeVars => StoreInvariant'
<1> SUFFICES ASSUME StoreInvariant, [StoreNext]_storeVars PROVE StoreInvariant'
  OBVIOUS
<1>1. ASSUME NEW w \in Writers, LockProject(w) PROVE StoreInvariant'
  BY <1>1, LockKeeps
<1>2. ASSUME NEW w \in Writers, NEW o \in Objects, NEW b \in Bodies,
             Revise(w, o, work.heads[o].rev, b)
      PROVE  StoreInvariant'
  BY <1>2, ReviseKeeps
<1>3. ASSUME NEW w \in Writers, CommitWrites(w) PROVE StoreInvariant'
  <2>1. generation \in Nat \ {0} /\ status \in Statuses
    BY DEF StoreInvariant, StoreTypeOK
  <2> QED
    BY <1>3, <2>1, CommitKeeps DEF CommitWrites
<1>4. ASSUME NEW w \in Writers, CommitRestore(w) PROVE StoreInvariant'
  <2>1. generation + 1 \in Nat \ {0} /\ "active" \in Statuses
    BY DEF StoreInvariant, StoreTypeOK, Statuses
  <2> QED
    BY <1>4, <2>1, CommitKeeps DEF CommitRestore
<1>5. ASSUME NEW w \in Writers, Rollback(w) PROVE StoreInvariant'
  BY <1>5, RollbackKeeps
<1>6. CASE EnterMaintenance \/ LeaveMaintenance \/ DisableProject \/ StartPurge
  <2>1. PICK s \in Statuses : MoveTo(s)
    BY <1>6 DEF EnterMaintenance, LeaveMaintenance, DisableProject, StartPurge, Statuses
  <2> QED
    BY <2>1, MoveToKeeps
<1>7. CASE UNCHANGED storeVars
  BY <1>7 DEF storeVars, StoreInvariant, StoreTypeOK, Sound, Gapless, HeadsAgree, Chained
<1> QED
  BY <1>1, <1>2, <1>3, <1>4, <1>5, <1>6, <1>7 DEF StoreNext

(***************************************************************************)
(* The invariant, and the properties that rest on it.                      *)
(***************************************************************************)
THEOREM StoreCorrect == StoreSpec => []StoreInvariant
<1>1. StoreInit => StoreInvariant
  BY InitInvariant
<1>2. StoreInvariant /\ [StoreNext]_storeVars => StoreInvariant'
  BY NextInvariant
<1> QED
  BY <1>1, <1>2, PTL DEF StoreSpec

\* The rows keep their types: every column stays in the range its table declares.
THEOREM StoreTypes == StoreSpec => []StoreTypeOK
<1>1. StoreInvariant => StoreTypeOK
  BY DEF StoreInvariant
<1> QED
  BY <1>1, StoreCorrect, PTL

\* The sequences of change_log are 1 .. change_seq at every moment (pull cursors).
THEOREM LogGapless == StoreSpec => []ChangeLogIsGapless
<1>1. StoreInvariant => ChangeLogIsGapless
  BY DEF StoreInvariant, Sound, ChangeLogIsGapless
<1> QED
  BY <1>1, StoreCorrect, PTL

\* object_heads agrees with object_revisions after pushes, restores and rollbacks.
THEOREM HeadsLatest == StoreSpec => []HeadIsLatestRevision
<1>1. StoreInvariant => HeadIsLatestRevision
  BY DEF StoreInvariant, Sound, HeadIsLatestRevision
<1> QED
  BY <1>1, StoreCorrect, PTL

\* No lost update: every revision extends the one it was based on.
THEOREM NoLostUpdate == StoreSpec => []RevisionsAreChained
<1>1. StoreInvariant => RevisionsAreChained
  BY DEF StoreInvariant, Sound, RevisionsAreChained
<1> QED
  BY <1>1, StoreCorrect, PTL

-----------------------------------------------------------------------------
(***************************************************************************)
(* The uncommitted tables extend the committed ones, and so does every     *)
(* commit: nothing that was ever committed leaves the log.                 *)
(***************************************************************************)
Extends(later, earlier) == earlier.log \subseteq later.log /\ earlier.seq <= later.seq

LEMMA NextExtends ==
    ASSUME StoreInvariant, Extends(work, store), [StoreNext]_storeVars
    PROVE  Extends(work, store)' /\ Extends(store', store)
<1>1. store.seq \in Nat /\ work.seq \in Nat
  BY DEF StoreInvariant, StoreTypeOK, Stores
<1>2. Extends(store, store)
  BY <1>1 DEF Extends
<1>3. ASSUME NEW w \in Writers, LockProject(w) \/ Rollback(w)
      PROVE  Extends(work, store)' /\ Extends(store', store)
  BY <1>2, <1>3 DEF LockProject, Rollback, Extends
<1>4. ASSUME NEW w \in Writers, NEW o \in Objects, NEW b \in Bodies,
             Revise(w, o, work.heads[o].rev, b)
      PROVE  Extends(work, store)' /\ Extends(store', store)
  <2>1. /\ work'.seq = work.seq + 1
        /\ work.log \subseteq work'.log
        /\ UNCHANGED store
    BY <1>4 DEF Revise, Revised
  <2> QED
    BY <2>1, <1>1 DEF Extends
<1>5. ASSUME NEW w \in Writers, CommitWrites(w) \/ CommitRestore(w)
      PROVE  Extends(work, store)' /\ Extends(store', store)
  <2>1. store' = work /\ work' = work
    BY <1>5 DEF CommitWrites, CommitRestore, Commit
  <2> QED
    BY <2>1, <1>1 DEF Extends
<1>6. CASE UNCHANGED <<store, work>>
  BY <1>2, <1>6 DEF Extends
<1>7. ASSUME EnterMaintenance \/ LeaveMaintenance \/ DisableProject \/ StartPurge
             \/ UNCHANGED storeVars
      PROVE  UNCHANGED <<store, work>>
  BY <1>7 DEF EnterMaintenance, LeaveMaintenance, DisableProject, StartPurge, MoveTo, storeVars
<1> QED
  BY <1>3, <1>4, <1>5, <1>6, <1>7 DEF StoreNext

(***************************************************************************)
(* Refinement: the committed log, read in sequence order, is the history   *)
(* of ChangeHistory.  A commit extends it because the log before is part   *)
(* of the log after and every sequence belongs to one change.              *)
(***************************************************************************)
LEMMA ChangeAtIs ==
    ASSUME NEW st \in Stores, Gapless(st), NEW i \in 1 .. st.seq
    PROVE  /\ ChangeAt(st, i) \in st.log /\ ChangeAt(st, i).seq = i
           /\ \A c \in st.log : c.seq = i => c = ChangeAt(st, i)
<1>1. \E c \in st.log : c.seq = i
  BY DEF Gapless
<1>2. ChangeAt(st, i) \in st.log /\ ChangeAt(st, i).seq = i
  BY <1>1 DEF ChangeAt
<1> QED
  BY <1>2 DEF Gapless

LEMMA HistoryTyped ==
    ASSUME NEW st \in Stores, Gapless(st)
    PROVE  HistoryOf(st) \in Seq(History!Change) /\ Len(HistoryOf(st)) = st.seq
<1>1. st.seq \in Nat /\ st.log \subseteq Changes
  BY DEF Stores
<1>2. ASSUME NEW i \in 1 .. st.seq
      PROVE  [obj |-> ChangeAt(st, i).obj, body |-> ChangeAt(st, i).body] \in History!Change
  BY <1>1, ChangeAtIs DEF Changes, History!Change
<1>3. HistoryOf(st) \in [1 .. st.seq -> History!Change]
  BY <1>2 DEF HistoryOf
<1> QED
  BY <1>1, <1>3

LEMMA HistoryExtends ==
    ASSUME NEW st \in Stores, NEW later \in Stores, Gapless(st), Gapless(later),
           Extends(later, st)
    PROVE  History!ExtensionOf(HistoryOf(later), HistoryOf(st))
<1> DEFINE old == HistoryOf(st)
           new == HistoryOf(later)
<1>1. st.seq \in Nat /\ later.seq \in Nat /\ st.seq <= later.seq
  BY DEF Stores, Extends
<1>2. ASSUME NEW i \in 1 .. st.seq
      PROVE  new[i] = old[i]
  <2>1. i \in 1 .. later.seq
    BY <1>1
  <2>2. ChangeAt(st, i) \in later.log /\ ChangeAt(st, i).seq = i
    BY ChangeAtIs DEF Extends
  <2>3. ChangeAt(st, i) = ChangeAt(later, i)
    BY <2>1, <2>2, ChangeAtIs
  <2> QED
    BY <2>1, <2>3 DEF HistoryOf
<1>3. /\ old \in Seq(History!Change) /\ Len(old) = st.seq
      /\ new \in Seq(History!Change) /\ Len(new) = later.seq
  BY HistoryTyped
<1> HIDE DEF old, new
<1>4. SubSeq(new, 1, st.seq) = old
  BY <1>1, <1>2, <1>3
<1> QED
  BY <1>1, <1>3, <1>4 DEF History!ExtensionOf, old, new

LEMMA HistoryStep ==
    ASSUME StoreInvariant, StoreInvariant', Extends(work, store), [StoreNext]_storeVars
    PROVE  [History!Next]_<<HistoryOf(store), generation>>
<1>1. /\ store \in Stores /\ store' \in Stores
      /\ Gapless(store) /\ Gapless(store')
  BY DEF StoreInvariant, StoreTypeOK, Sound, Gapless
<1>2. Extends(store', store)
  BY NextExtends
<1>3. /\ History!ExtensionOf(HistoryOf(store'), HistoryOf(store))
      /\ HistoryOf(store') \in Seq(History!Change)
  BY <1>1, <1>2, HistoryExtends, HistoryTyped
<1>4. HistoryOf(store)' = HistoryOf(store')
  BY DEF HistoryOf, ChangeAt
<1>5. generation' = generation \/ generation' = generation + 1
  BY DEF StoreNext, LockProject, Revise, CommitWrites, CommitRestore, Commit, Rollback,
         EnterMaintenance, LeaveMaintenance, DisableProject, StartPurge, MoveTo, storeVars
<1> QED
  BY <1>3, <1>4, <1>5 DEF History!Next, History!Publish, History!Restore

\* What was committed stays committed: no push, restore or rollback takes a change back.
THEOREM StoreExtends == StoreSpec => [](StoreInvariant /\ Extends(work, store))
<1>1. StoreInit => StoreInvariant /\ Extends(work, store)
  BY InitInvariant DEF StoreInit, Extends, EmptyStore
<1>2. StoreInvariant /\ Extends(work, store) /\ [StoreNext]_storeVars
        => StoreInvariant' /\ Extends(work, store)'
  BY NextInvariant, NextExtends
<1> QED
  BY <1>1, <1>2, PTL DEF StoreSpec

\* Devices that read the change log see one history that only grows at its end.
THEOREM StoreImplementsHistory == StoreSpec => ImplementsHistory
<1>1. StoreInit => History!Init
  <2> SUFFICES ASSUME StoreInit PROVE HistoryOf(store) = << >> /\ generation = 1
    BY DEF History!Init
  <2>1. store.seq = 0
    BY DEF StoreInit, EmptyStore
  <2> QED
    BY <2>1 DEF StoreInit, HistoryOf
<1>2. StoreInvariant /\ StoreInvariant' /\ Extends(work, store) /\ [StoreNext]_storeVars
        => [History!Next]_<<HistoryOf(store), generation>>
  BY HistoryStep
<1> QED
  BY <1>1, <1>2, StoreExtends, PTL DEF StoreSpec, ImplementsHistory, History!Spec
=============================================================================

------------------------- MODULE ReplicationProofs --------------------------
(***************************************************************************)
(* The copy a device keeps is the project at its cursor, and a completion  *)
(* is of the generation it names: for any number of objects, devices and   *)
(* writers, pages of any size, and any bounds.                             *)
(***************************************************************************)
EXTENDS Replication, ProjectStoreProofs, FiniteSetTheorems

(***************************************************************************)
(* Manifests.  Those captured and those that a device or a call still      *)
(* names hold the state of the project at their sequence.                  *)
(***************************************************************************)
ItemsUpTo(m, n) == {m.items[i] : i \in 1 .. n}

Captured(m) ==
    /\ m.gen \in 1 .. generation
    /\ began[m.gen] <= m.seq
    /\ m.seq <= store.seq
    /\ ItemsUpTo(m, Len(m.items)) = RankedAt(store, m.seq)

(***************************************************************************)
(* Types of the calls and of what the devices keep.                        *)
(***************************************************************************)
Preparing == [pc: {"prepared", "recorded"}, gen: Nat, seq: Nat, items: Seq(Changes)]
Paging == [pc: {"page"}, manifest: Manifests, offset: Nat, generation: Nat]
Pulling == [pc: {"pull"}, cursor: Cursors]
CallRows == {Idle} \cup Preparing \cup Paging \cup Pulling
ClientRows == [cursor: Cursors \cup {None}, token: Tokens \cup {None},
               pages: SUBSET Changes, replica: SUBSET Changes]

Typed == /\ call \in [Devices -> CallRows]
         /\ client \in [Devices -> ClientRows]

(***************************************************************************)
(* Each generation began at a sequence that is committed.                  *)
(***************************************************************************)
BeganHeld ==
    /\ began \in Seq(Nat)
    /\ Len(began) = generation
    /\ \A g \in 1 .. generation : began[g] <= store.seq

(***************************************************************************)
(* The device has collected the pages up to the offset of its token, or of *)
(* the call that serves it the next one.                                   *)
(***************************************************************************)
ClientOK(cl) ==
    /\ cl.token # None =>
           /\ cl.cursor = None
           /\ Captured(cl.token.manifest)
           /\ cl.token.offset <= Len(cl.token.manifest.items)
           /\ cl.pages = ItemsUpTo(cl.token.manifest, cl.token.offset)
    /\ cl.token = None => cl.pages = {}
    /\ cl.cursor # None =>
           /\ cl.cursor.seq <= store.seq
           /\ cl.replica = RankedAt(store, cl.cursor.seq)

CallOK(c, cl) ==
    /\ c.pc \in {"prepared", "recorded"} =>
           cl.cursor = None /\ cl.token = None /\ Captured(Manifest(c))
    /\ c.pc = "page" =>
           /\ cl.cursor = None
           /\ Captured(c.manifest)
           /\ c.offset <= Len(c.manifest.items)
           /\ cl.pages = ItemsUpTo(c.manifest, c.offset)
           /\ c.generation \in 1 .. generation
    /\ c.pc = "pull" => cl.cursor = c.cursor

DevicesHeld == \A d \in Devices : ClientOK(client[d]) /\ CallOK(call[d], client[d])

CompletionsHeld ==
    \A r \in completions : /\ r.gen \in 1 .. generation
                           /\ r.seq \in Nat
                           /\ began[r.gen] <= r.seq

ReplInvariant ==
    /\ StoreInvariant
    /\ Extends(work, store)
    /\ Typed
    /\ BeganHeld
    /\ DevicesHeld
    /\ CompletionsHeld

-----------------------------------------------------------------------------
(***************************************************************************)
(* A log is finite, so what a manifest lists is exactly its set.           *)
(***************************************************************************)
LEMMA LogIsFinite ==
    ASSUME NEW st \in Stores, Gapless(st)
    PROVE  IsFiniteSet(st.log)
<1> DEFINE f == [c \in st.log |-> c.seq]
<1>1. st.seq \in Nat
  BY DEF Stores
<1>2. f \in Injection(st.log, 1 .. st.seq)
  BY DEF Gapless, Injection, IsInjective
<1>3. IsFiniteSet(1 .. st.seq)
  BY <1>1, FS_Interval
<1> QED
  BY <1>2, <1>3, FS_Injection

LEMMA ListsTheSet ==
    ASSUME NEW S, IsFiniteSet(S)
    PROVE  /\ SetToSeq(S) \in Seq(S)
           /\ {SetToSeq(S)[i] : i \in 1 .. Len(SetToSeq(S))} = S
<1> DEFINE n == Cardinality(S)
           s == SetToSeq(S)
<1>1. n \in Nat /\ Bijection(1 .. n, S) # {}
  BY FS_CardinalityType DEF ExistsBijection
<1>2. \E f \in [1 .. n -> S] : IsInjective(f)
  BY <1>1 DEF Bijection, Injection
<1>3. s \in [1 .. n -> S] /\ IsInjective(s)
  BY <1>2 DEF SetToSeq
<1> HIDE DEF s
<1>4. s \in Injection(1 .. n, S)
  BY <1>3 DEF Injection
<1>5. IsFiniteSet(1 .. n) /\ Cardinality(1 .. n) = n
  BY <1>1, FS_Interval
<1>6. s \in Surjection(1 .. n, S)
  BY <1>4, <1>5, FS_Injection
<1>7. \A x \in S : \E i \in 1 .. n : s[i] = x
  BY <1>6 DEF Surjection
<1>8. s \in Seq(S) /\ Len(s) = n
  BY <1>1, <1>3
<1>9. {s[i] : i \in 1 .. n} = S
  BY <1>3, <1>7
<1> QED
  BY <1>8, <1>9 DEF s

LEMMA CaptureLists ==
    ASSUME NEW st \in Stores, Gapless(st), NEW n
    PROVE  LET items == SetToSeq(RankedAt(st, n)) IN
           /\ items \in Seq(Changes)
           /\ {items[i] : i \in 1 .. Len(items)} = RankedAt(st, n)
<1> DEFINE S == RankedAt(st, n)
<1>1. S \subseteq st.log /\ st.log \subseteq Changes
  BY DEF RankedAt, Stores
<1>2. IsFiniteSet(S)
  BY <1>1, LogIsFinite, FS_Subset
<1>3. SetToSeq(S) \in Seq(S)
      /\ {SetToSeq(S)[i] : i \in 1 .. Len(SetToSeq(S))} = S
  BY <1>2, ListsTheSet
<1> HIDE DEF S
<1>4. SetToSeq(S) \in Seq(Changes)
  BY <1>1, <1>3
<1> QED
  BY <1>3, <1>4 DEF S

(***************************************************************************)
(* What a prefix of the log says does not change as the log grows.         *)
(***************************************************************************)
LEMMA RankedStays ==
    ASSUME NEW st \in Stores, NEW later \in Stores, Gapless(st), Gapless(later),
           Extends(later, st), NEW n \in Nat, n <= st.seq
    PROVE  RankedAt(later, n) = RankedAt(st, n)
<1>1. ASSUME NEW c \in later.log, c.seq <= n PROVE c \in st.log
  <2>1. c.seq \in 1 .. st.seq
    BY <1>1 DEF Gapless, Stores
  <2>2. PICK b \in st.log : b.seq = c.seq
    BY <2>1 DEF Gapless
  <2>3. b \in later.log
    BY DEF Extends
  <2> QED
    BY <2>2, <2>3 DEF Gapless
<1>2. \A c \in st.log : c \in later.log
  BY DEF Extends
<1> QED
  BY <1>1, <1>2 DEF RankedAt

(***************************************************************************)
(* A pull continues where the copy ended: the changes after the cursor, in *)
(* their order and without a gap.                                          *)
(***************************************************************************)
LEMMA PullContinues ==
    ASSUME NEW st \in Stores, Gapless(st), NEW after \in Nat, after <= st.seq, NEW records,
           records = {c \in st.log : after < c.seq /\ c.seq <= after + PageSize}
    PROVE  LET last == LastSeq(records, after) IN
           /\ last \in Nat /\ last <= st.seq
           /\ Applied(RankedAt(st, after), records) = RankedAt(st, last)
<1>0. st.seq \in Nat /\ PageSize \in Nat \ {0}
  BY ReplicationAssumption DEF Stores
<1>1. CASE records = {}
  <2>1. LastSeq(records, after) = after
    BY <1>1 DEF LastSeq
  <2>2. Applied(RankedAt(st, after), records) = RankedAt(st, after)
    BY <1>1 DEF Applied
  <2> QED
    BY <1>0, <2>1, <2>2
<1>2. CASE records # {}
  <2> DEFINE n == IF after + PageSize <= st.seq THEN after + PageSize ELSE st.seq
  <2>1. \A c \in st.log : c.seq \in Nat /\ c.seq <= st.seq
    BY <1>0 DEF Gapless
  <2>2. after < st.seq
    BY <1>0, <1>2, <2>1
  <2>3. n \in 1 .. st.seq /\ after < n /\ n <= after + PageSize
    BY <1>0, <2>2
  <2>4. PICK e \in st.log : e.seq = n
    BY <2>3 DEF Gapless
  <2>5. e \in records /\ \A c \in records : c.seq <= n
    BY <1>0, <2>1, <2>3, <2>4
  <2>6. \A c \in st.log : c.seq <= n <=> c.seq <= after \/ c \in records
    BY <1>0, <2>1, <2>3
  <2> HIDE DEF n
  <2>7. LastSeq(records, after) = n
    <3> DEFINE P(m) == \A c \in records : c.seq <= m
               Seqs == {c.seq : c \in records}
    <3>1. n \in Seqs /\ P(n)
      BY <2>4, <2>5
    <3>2. \A m \in Seqs : m \in Nat /\ (P(m) => m = n)
      BY <2>1, <2>3, <2>4, <2>5
    <3>3. (CHOOSE m \in Seqs : P(m)) = n
      BY <3>1, <3>2
    <3> QED
      BY <1>2, <3>3 DEF LastSeq
  <2>8. Applied(RankedAt(st, after), records) = RankedAt(st, n)
    <3>1. ASSUME NEW c \in Applied(RankedAt(st, after), records) PROVE c \in RankedAt(st, n)
      <4>1. c \in RankedAt(st, after) \/ c \in records
        BY DEF Applied
      <4>2. c \in st.log /\ c.seq <= n
        BY <2>6, <4>1 DEF RankedAt
      <4>3. ASSUME NEW r \in st.log, r.obj = c.obj, r.seq <= n PROVE r.seq <= c.seq
        <5>1. CASE r \in records
          BY <4>3, <5>1 DEF Applied
        <5>2. CASE r.seq <= after
          <6>1. CASE c \in RankedAt(st, after)
            BY <4>3, <5>2, <6>1 DEF RankedAt
          <6>2. CASE c \in records
            BY <1>0, <2>1, <4>2, <5>2, <6>2
          <6> QED
            BY <4>1, <6>1, <6>2
        <5> QED
          BY <2>6, <4>3, <5>1, <5>2
      <4> QED
        BY <4>2, <4>3 DEF RankedAt
    <3>2. ASSUME NEW c \in RankedAt(st, n) PROVE c \in Applied(RankedAt(st, after), records)
      <4>1. c \in st.log /\ c.seq <= n /\ \A r \in st.log : r.obj = c.obj /\ r.seq <= n
                                                            => r.seq <= c.seq
        BY <3>2 DEF RankedAt
      <4>2. \A r \in records : r.obj = c.obj => r.seq <= c.seq
        BY <2>5, <4>1
      <4>3. c \in RankedAt(st, after) \/ c \in records
        BY <2>6, <4>1 DEF RankedAt
      <4> QED
        BY <4>2, <4>3 DEF Applied
    <3> QED
      BY <3>1, <3>2
  <2> QED
    BY <2>3, <2>7, <2>8
<1> QED
  BY <1>1, <1>2

-----------------------------------------------------------------------------
(***************************************************************************)
(* Pushes, restores and status changes.  The committed log only grows, so  *)
(* what was captured or copied stays the state at its sequence.            *)
(***************************************************************************)
LEMMA ServerKeeps ==
    ASSUME ReplInvariant, ServerStep
    PROVE  ReplInvariant'
<1>1. /\ StoreInvariant /\ Extends(work, store) /\ Typed /\ BeganHeld /\ DevicesHeld
      /\ CompletionsHeld
  BY DEF ReplInvariant
<1>2. [StoreNext]_storeVars /\ UNCHANGED <<call, client, completions>>
  BY DEF ServerStep
<1>3. StoreInvariant' /\ Extends(work, store)' /\ Extends(store', store)
  BY <1>1, <1>2, NextInvariant, NextExtends
<1>4. /\ store \in Stores /\ store' \in Stores /\ Gapless(store) /\ Gapless(store')
      /\ generation \in Nat \ {0} /\ store.seq \in Nat /\ store'.seq \in Nat
      /\ store.seq <= store'.seq
  BY <1>1, <1>3 DEF StoreInvariant, StoreTypeOK, Sound, Stores, Extends
<1>5. generation' = generation \/ generation' = generation + 1
  BY <1>2 DEF StoreNext, LockProject, Revise, CommitWrites, CommitRestore, Commit, Rollback,
     EnterMaintenance, LeaveMaintenance, DisableProject, StartPurge, MoveTo, storeVars
<1>6. BeganHeld' /\ \A g \in 1 .. generation : began'[g] = began[g]
  <2>1. CASE generation' = generation
    <3>1. began' = began
      BY <2>1 DEF ServerStep
    <3>2. \A g \in 1 .. generation : began[g] \in Nat
      BY <1>1, <1>4 DEF BeganHeld
    <3> QED
      BY <1>1, <1>4, <2>1, <3>1, <3>2 DEF BeganHeld
  <2>2. CASE generation' = generation + 1
    <3>1. began' = Append(began, store'.seq)
      BY <1>4, <2>2 DEF ServerStep
    <3>2. /\ began' \in Seq(Nat) /\ Len(began') = generation'
          /\ \A g \in 1 .. generation : began'[g] = began[g] /\ began[g] \in Nat
          /\ began'[generation'] = store'.seq
      BY <1>1, <1>4, <2>2, <3>1 DEF BeganHeld
    <3>3. ASSUME NEW g \in 1 .. generation' PROVE began'[g] <= store'.seq
      <4>1. CASE g = generation'
        BY <1>4, <3>2, <4>1
      <4>2. CASE g # generation'
        <5>1. g \in 1 .. generation
          BY <1>4, <2>2, <4>2
        <5> QED
          BY <1>1, <1>4, <3>2, <5>1 DEF BeganHeld
      <4> QED
        BY <4>1, <4>2
    <3> QED
      BY <3>2, <3>3 DEF BeganHeld
  <2> QED
    BY <1>5, <2>1, <2>2
<1>7. \A g \in 1 .. generation : g \in 1 .. generation'
  BY <1>4, <1>5
<1>8. ASSUME NEW n \in Nat, n <= store.seq
      PROVE  n <= store'.seq /\ RankedAt(store', n) = RankedAt(store, n)
  BY <1>3, <1>4, <1>8, RankedStays
<1>9. ASSUME NEW m, m.seq \in Nat, Captured(m) PROVE Captured(m)'
  <2>1. m.gen \in 1 .. generation' /\ began'[m.gen] <= m.seq
    BY <1>6, <1>7, <1>9 DEF Captured
  <2>2. m.seq <= store'.seq /\ ItemsUpTo(m, Len(m.items)) = RankedAt(store', m.seq)
    BY <1>8, <1>9 DEF Captured
  <2> QED
    BY <2>1, <2>2 DEF Captured, ItemsUpTo
<1>10. DevicesHeld'
  <2>1. ASSUME NEW c \in CallRows, NEW cl \in ClientRows, ClientOK(cl), CallOK(c, cl)
        PROVE  ClientOK(cl)' /\ CallOK(c, cl)'
    <3>1. /\ cl.token # None => cl.token.manifest.seq \in Nat
          /\ cl.cursor # None => cl.cursor.seq \in Nat
      BY <2>1 DEF ClientRows, Tokens, Manifests, Cursors
    <3>2. /\ c.pc \in {"prepared", "recorded"} => Manifest(c).seq \in Nat
          /\ c.pc = "page" => c.manifest.seq \in Nat
      BY <2>1 DEF CallRows, Preparing, Paging, Pulling, Idle, Manifest, Manifests
    <3>3. cl.token # None => Captured(cl.token.manifest)'
      BY <1>9, <2>1, <3>1 DEF ClientOK
    <3>4. cl.cursor # None => cl.cursor.seq <= store'.seq
                              /\ cl.replica = RankedAt(store', cl.cursor.seq)
      BY <1>8, <2>1, <3>1 DEF ClientOK
    <3>5. c.pc \in {"prepared", "recorded"} => Captured(Manifest(c))'
      BY <1>9, <2>1, <3>2 DEF CallOK
    <3>6. c.pc = "page" => Captured(c.manifest)' /\ c.generation \in 1 .. generation'
      BY <1>7, <1>9, <2>1, <3>2 DEF CallOK
    <3> QED
      BY <2>1, <3>3, <3>4, <3>5, <3>6 DEF ClientOK, CallOK
  <2> SUFFICES ASSUME NEW d \in Devices
               PROVE  ClientOK(client[d])' /\ CallOK(call[d], client[d])'
    BY DEF DevicesHeld
  <2>2. ClientOK(client[d]) /\ CallOK(call[d], client[d])
        /\ client[d] \in ClientRows /\ call[d] \in CallRows
    BY <1>1 DEF DevicesHeld, Typed
  <2>3. client'[d] = client[d] /\ call'[d] = call[d]
    BY <1>2
  <2>4. PICK c \in CallRows, cl \in ClientRows : c = call[d] /\ cl = client[d]
    BY <2>2
  <2>5. ClientOK(cl)' /\ CallOK(c, cl)'
    BY <2>1, <2>2, <2>4
  <2>6. c = call'[d] /\ cl = client'[d]
    BY <2>3, <2>4
  <2>7. ClientOK(client[d])'
    BY <2>5, <2>6 DEF ClientOK, Captured, ItemsUpTo
  <2>8. CallOK(call[d], client[d])'
    BY <2>5, <2>6 DEF CallOK, Captured, ItemsUpTo, Manifest
  <2> QED
    BY <2>7, <2>8
<1>11. CompletionsHeld'
  BY <1>1, <1>2, <1>6, <1>7 DEF CompletionsHeld
<1>12. Typed'
  BY <1>1, <1>2 DEF Typed
<1> QED
  BY <1>3, <1>6, <1>10, <1>11, <1>12 DEF ReplInvariant

-----------------------------------------------------------------------------
(***************************************************************************)
(* A step of one device's request.  The store stays as it is.              *)
(***************************************************************************)
LEMMA RowShapes ==
    ASSUME NEW c \in CallRows
    PROVE  /\ c.pc \in Places
           /\ c.pc = "idle" => c = Idle
           /\ c.pc \in {"prepared", "recorded"} => c \in Preparing
           /\ c.pc = "page" => c \in Paging
           /\ c.pc = "pull" => c \in Pulling
BY DEF CallRows, Preparing, Paging, Pulling, Idle, Places

LEMMA IdleCall ==
    ASSUME NEW cl
    PROVE  Idle \in CallRows /\ Idle.pc = "idle" /\ CallOK(Idle, cl)
BY DEF Idle, CallRows, CallOK

LEMMA OneDevice ==
    ASSUME ReplInvariant, NEW d \in Devices, NEW c \in CallRows, NEW cl \in ClientRows,
           call' = [call EXCEPT ![d] = c], client' = [client EXCEPT ![d] = cl],
           UNCHANGED <<storeVars, began>>, ClientOK(cl), CallOK(c, cl), CompletionsHeld'
    PROVE  ReplInvariant'
<1>1. /\ StoreInvariant /\ Extends(work, store) /\ Typed /\ BeganHeld /\ DevicesHeld
  BY DEF ReplInvariant
<1>2. StoreInvariant' /\ Extends(work, store)' /\ BeganHeld'
  BY <1>1 DEF StoreInvariant, StoreTypeOK, Extends, BeganHeld, storeVars
<1>3. Typed'
  BY <1>1 DEF Typed
<1>4. ASSUME NEW e \in Devices PROVE ClientOK(client'[e]) /\ CallOK(call'[e], client'[e])
  BY <1>1 DEF Typed, DevicesHeld
<1>5. DevicesHeld'
  BY <1>4 DEF DevicesHeld, ClientOK, CallOK, Captured, storeVars
<1> QED
  BY <1>2, <1>3, <1>5 DEF ReplInvariant

LEMMA SameClient ==
    ASSUME ReplInvariant, NEW d \in Devices, UNCHANGED client
    PROVE  /\ client' = [client EXCEPT ![d] = client[d]]
           /\ client[d] \in ClientRows /\ ClientOK(client[d])
BY DEF ReplInvariant, Typed, DevicesHeld

LEMMA StartedOver ==
    ASSUME ReplInvariant, NEW d \in Devices, StartsOver(d)
    PROVE  \E cl \in ClientRows : /\ client' = [client EXCEPT ![d] = cl]
                                  /\ ClientOK(cl) /\ cl.token = None /\ cl.cursor = None
<1> DEFINE cl == [client[d] EXCEPT !.cursor = None, !.token = None, !.pages = {}]
<1>1. client[d] \in ClientRows
  BY DEF ReplInvariant, Typed
<1>2. cl \in ClientRows /\ cl.cursor = None /\ cl.token = None /\ cl.pages = {}
  BY <1>1 DEF ClientRows
<1>3. client' = [client EXCEPT ![d] = cl]
  BY DEF StartsOver, ReplInvariant, Typed
<1> HIDE DEF cl
<1> QED
  BY <1>2, <1>3 DEF ClientOK

LEMMA SameCompletions ==
    ASSUME ReplInvariant, UNCHANGED <<began, storeVars, completions>>
    PROVE  CompletionsHeld'
BY DEF ReplInvariant, CompletionsHeld, storeVars

LEMMA PrepareKeeps ==
    ASSUME ReplInvariant, NEW d \in Devices, PrepareManifest(d)
    PROVE  ReplInvariant'
<1> DEFINE items == SetToSeq(RankedAt(store, store.seq))
           c == [pc |-> "prepared", gen |-> generation, seq |-> store.seq, items |-> items]
<1>1. /\ store \in Stores /\ Gapless(store) /\ generation \in Nat \ {0} /\ store.seq \in Nat
  BY DEF ReplInvariant, StoreInvariant, StoreTypeOK, Sound, Stores
<1>2. /\ items \in Seq(Changes)
      /\ {items[i] : i \in 1 .. Len(items)} = RankedAt(store, store.seq)
  BY <1>1, CaptureLists
<1> HIDE DEF items
<1>3. c \in CallRows
  BY <1>1, <1>2 DEF CallRows, Preparing
<1>4. began[generation] <= store.seq
  BY <1>1 DEF ReplInvariant, BeganHeld
<1>5. Captured(Manifest(c))
  BY <1>1, <1>2, <1>4 DEF Captured, Manifest, ItemsUpTo
<1>6. CallOK(c, client[d])
  BY <1>5 DEF CallOK, PrepareManifest
<1>7. call' = [call EXCEPT ![d] = c]
  BY DEF PrepareManifest, CallGoes, items
<1>8. UNCHANGED <<storeVars, began, client, completions>>
  BY DEF PrepareManifest
<1> HIDE DEF c
<1> QED
  BY <1>3, <1>6, <1>7, <1>8, OneDevice, SameClient, SameCompletions

LEMMA RecordKeeps ==
    ASSUME ReplInvariant, NEW d \in Devices, RecordManifest(d)
    PROVE  ReplInvariant'
<1> DEFINE c == [call[d] EXCEPT !.pc = "recorded"]
<1>1. call[d] \in CallRows /\ CallOK(call[d], client[d])
  BY DEF ReplInvariant, Typed, DevicesHeld
<1>2. call[d].pc = "prepared" /\ call[d] \in Preparing
  BY <1>1, RowShapes DEF RecordManifest
<1>3. c \in Preparing /\ c.pc = "recorded" /\ Manifest(c) = Manifest(call[d])
  BY <1>2 DEF Preparing, Manifest
<1>4. call' = [call EXCEPT ![d] = c] /\ UNCHANGED <<storeVars, began, client, completions>>
  BY DEF RecordManifest, CallGoes
<1> HIDE DEF c
<1>5. c \in CallRows /\ CallOK(c, client[d])
  BY <1>1, <1>2, <1>3 DEF CallRows, CallOK
<1> QED
  BY <1>4, <1>5, OneDevice, SameClient, SameCompletions

LEMMA OpenPageKeeps ==
    ASSUME ReplInvariant, NEW d \in Devices, NEW m \in Manifests, NEW offset \in Nat,
           OpenPage(d, m, offset), UNCHANGED <<storeVars, began, client, completions>>,
           Captured(m), offset <= Len(m.items), client[d].cursor = None,
           client[d].pages = ItemsUpTo(m, offset)
    PROVE  ReplInvariant'
<1> DEFINE page == [pc |-> "page", manifest |-> m, offset |-> offset, generation |-> generation]
<1>1. generation \in Nat \ {0}
  BY DEF ReplInvariant, StoreInvariant, StoreTypeOK
<1>2. page \in CallRows /\ CallOK(page, client[d])
  <2>1. page \in Paging
    BY <1>1 DEF Paging
  <2>2. page.pc = "page" /\ page.manifest = m /\ page.offset = offset
        /\ page.generation \in 1 .. generation
    BY <1>1
  <2> HIDE DEF page
  <2> QED
    BY <2>1, <2>2 DEF CallRows, CallOK
<1>3. call' = [call EXCEPT ![d] = page] \/ call' = [call EXCEPT ![d] = Idle]
  BY DEF OpenPage, CallGoes
<1> HIDE DEF page
<1> QED
  BY <1>2, <1>3, OneDevice, SameClient, SameCompletions, IdleCall

LEMMA FirstPageKeeps ==
    ASSUME ReplInvariant, NEW d \in Devices, OpenFirstPage(d)
    PROVE  ReplInvariant'
<1> DEFINE m == Manifest(call[d])
<1>1. call[d] \in CallRows /\ CallOK(call[d], client[d]) /\ ClientOK(client[d])
  BY DEF ReplInvariant, Typed, DevicesHeld
<1>2. call[d].pc = "recorded" /\ call[d] \in Preparing
  BY <1>1, RowShapes DEF OpenFirstPage
<1>3. m \in Manifests
  BY <1>2 DEF Preparing, Manifest, Manifests
<1>4. client[d].cursor = None /\ client[d].token = None /\ Captured(m)
  BY <1>1, <1>2 DEF CallOK
<1>5. client[d].pages = {} /\ ItemsUpTo(m, 0) = {}
  BY <1>1, <1>4 DEF ClientOK, ItemsUpTo
<1>6. OpenPage(d, m, 0) /\ UNCHANGED <<storeVars, began, client, completions>>
  BY DEF OpenFirstPage
<1> HIDE DEF m
<1>7. 0 <= Len(m.items)
  BY <1>3 DEF Manifests
<1> QED
  BY <1>3, <1>4, <1>5, <1>6, <1>7, OpenPageKeeps

LEMMA NextPageKeeps ==
    ASSUME ReplInvariant, NEW d \in Devices, OpenNextPage(d)
    PROVE  ReplInvariant'
<1>1. client[d] \in ClientRows /\ ClientOK(client[d]) /\ client[d].token # None
  BY DEF ReplInvariant, Typed, DevicesHeld, OpenNextPage
<1>2. client[d].token.manifest \in Manifests /\ client[d].token.offset \in Nat
  BY <1>1 DEF ClientRows, Tokens
<1>3. OpenPage(d, client[d].token.manifest, client[d].token.offset)
      /\ UNCHANGED <<storeVars, began, client, completions>>
  BY DEF OpenNextPage
<1> QED
  BY <1>1, <1>2, <1>3, OpenPageKeeps DEF ClientOK

LEMMA StartOverKeeps ==
    ASSUME ReplInvariant, NEW d \in Devices, StartsOver(d), CallEnds(d),
           UNCHANGED <<storeVars, began, completions>>
    PROVE  ReplInvariant'
<1>1. PICK cl \in ClientRows : client' = [client EXCEPT ![d] = cl] /\ ClientOK(cl)
  BY StartedOver
<1>2. call' = [call EXCEPT ![d] = Idle]
  BY DEF CallEnds, CallGoes
<1> QED
  BY <1>1, <1>2, OneDevice, IdleCall, SameCompletions

LEMMA EndKeeps ==
    ASSUME ReplInvariant, NEW d \in Devices, CallEnds(d),
           UNCHANGED <<storeVars, began, client>>, CompletionsHeld'
    PROVE  ReplInvariant'
<1>1. call' = [call EXCEPT ![d] = Idle]
  BY DEF CallEnds, CallGoes
<1> QED
  BY <1>1, OneDevice, IdleCall, SameClient

(***************************************************************************)
(* A page adds the items up to its end; the last one completes the set     *)
(* that was captured, and the copy becomes the project at that sequence.   *)
(***************************************************************************)
LEMMA PageTaken ==
    ASSUME ReplInvariant, NEW c \in Paging, NEW cl \in ClientRows, CallOK(c, cl)
    PROVE  TakesPage(cl, c) \in ClientRows /\ ClientOK(TakesPage(cl, c))
<1> DEFINE m == c.manifest
           end == PageEnd(c)
           pages == cl.pages \cup PageItems(c)
<1>1. /\ m \in Manifests /\ c.offset \in Nat /\ c.generation \in Nat
      /\ PageSize \in Nat \ {0} /\ None \notin Cursors /\ None \notin Tokens
  BY ReplicationAssumption DEF Paging
<1>2. /\ m.items \in Seq(Changes) /\ m.seq \in Nat
  BY <1>1 DEF Manifests
<1>3. /\ cl.cursor = None /\ Captured(m) /\ c.offset <= Len(m.items)
      /\ cl.pages = ItemsUpTo(m, c.offset)
  BY DEF CallOK, Paging
<1>4. end \in Nat /\ c.offset <= end /\ end <= Len(m.items)
  BY <1>1, <1>2, <1>3 DEF PageEnd
<1>5. pages = ItemsUpTo(m, end)
  <2>1. PageItems(c) = {m.items[i] : i \in c.offset + 1 .. end}
    BY DEF PageItems
  <2> HIDE DEF m, end
  <2>2. \A i : i \in 1 .. end <=> i \in 1 .. c.offset \/ i \in c.offset + 1 .. end
    BY <1>1, <1>4
  <2> QED
    BY <1>3, <2>1, <2>2 DEF ItemsUpTo
<1>6. pages \subseteq Changes
  BY <1>2, <1>4, <1>5 DEF ItemsUpTo
<1> HIDE DEF pages
<1>7. CASE HasMore(c)
  <2> DEFINE token == [manifest |-> m, offset |-> end]
             next == [cl EXCEPT !.pages = pages, !.token = token]
  <2>1. TakesPage(cl, c) = next
    BY <1>7 DEF TakesPage, pages
  <2>2. token \in Tokens /\ token # None /\ token.manifest = m /\ token.offset = end
    BY <1>1, <1>4 DEF Tokens
  <2> HIDE DEF token
  <2>3. next \in ClientRows /\ next.token = token /\ next.pages = pages /\ next.cursor = None
    BY <1>3, <1>6, <2>2 DEF ClientRows
  <2> HIDE DEF next, m, end
  <2>4. ClientOK(next)
    BY <1>3, <1>4, <1>5, <2>2, <2>3 DEF ClientOK
  <2> QED
    BY <2>1, <2>3, <2>4
<1>8. CASE ~HasMore(c)
  <2> DEFINE cursor == [gen |-> c.generation, seq |-> m.seq]
             next == [cursor |-> cursor, token |-> None, pages |-> {}, replica |-> pages]
  <2>1. TakesPage(cl, c) = next
    BY <1>8 DEF TakesPage, pages
  <2>2. cursor \in Cursors /\ cursor.seq = m.seq
    BY <1>1, <1>2 DEF Cursors
  <2>3. end = Len(m.items)
    BY <1>8 DEF HasMore, PageEnd
  <2>4. pages = RankedAt(store, m.seq) /\ m.seq <= store.seq
    BY <1>3, <1>5, <2>3 DEF Captured
  <2> HIDE DEF cursor
  <2>5. next \in ClientRows /\ next.token = None /\ next.pages = {} /\ next.cursor = cursor
        /\ next.replica = pages
    BY <1>6, <2>2 DEF ClientRows
  <2> HIDE DEF next, m, end
  <2>6. ClientOK(next)
    BY <2>2, <2>4, <2>5 DEF ClientOK
  <2> QED
    BY <2>1, <2>5, <2>6
<1> QED
  BY <1>7, <1>8

LEMMA ServePageKeeps ==
    ASSUME ReplInvariant, NEW d \in Devices, ServePage(d)
    PROVE  ReplInvariant'
<1> DEFINE c == call[d]
<1>1. /\ c \in CallRows /\ client[d] \in ClientRows
      /\ CallOK(c, client[d]) /\ ClientOK(client[d])
  BY DEF ReplInvariant, Typed, DevicesHeld
<1>2. c.pc = "page" /\ c \in Paging
  BY <1>1, RowShapes DEF ServePage
<1>3. /\ UNCHANGED <<storeVars, began>> /\ CallEnds(d) /\ call' = [call EXCEPT ![d] = Idle]
  BY DEF ServePage, CallEnds, CallGoes
<1>4. CompletionsHeld'
  <2>1. CASE completions' = completions
    BY <1>3, <2>1, SameCompletions
  <2>2. CASE completions' = Completed(d, c)
    <3>1. c.manifest.gen = c.generation /\ Captured(c.manifest) /\ c.manifest.seq \in Nat
      BY <1>1, <1>2 DEF ServePage, PageIsOfGeneration, CallOK, Paging, Manifests
    <3>2. c.generation \in 1 .. generation /\ began[c.generation] <= c.manifest.seq
      BY <3>1 DEF Captured
    <3> HIDE DEF c
    <3>3. ASSUME NEW r \in Completed(d, c)
          PROVE  r \in completions \/ (r.gen = c.generation /\ r.seq = c.manifest.seq)
      <4> DEFINE new == [dev |-> d, gen |-> c.generation, seq |-> c.manifest.seq]
      <4>1. r \in completions \/ r = new
        BY DEF Completed
      <4>2. new.gen = c.generation /\ new.seq = c.manifest.seq
        OBVIOUS
      <4> HIDE DEF new
      <4> QED
        BY <4>1, <4>2
    <3>4. \A r \in Completed(d, c) : /\ r.gen \in 1 .. generation
                                     /\ r.seq \in Nat /\ began[r.gen] <= r.seq
      BY <3>1, <3>2, <3>3 DEF ReplInvariant, CompletionsHeld
    <3> QED
      BY <1>3, <2>2, <3>4 DEF CompletionsHeld, storeVars
  <2> QED
    BY <2>1, <2>2 DEF ServePage
<1>5. CASE client' = client
  BY <1>3, <1>4, <1>5, EndKeeps
<1>6. CASE client' = [client EXCEPT ![d] = TakesPage(@, c)]
  <2> DEFINE cl == TakesPage(client[d], c)
  <2>1. cl \in ClientRows /\ ClientOK(cl)
    BY <1>1, <1>2, PageTaken
  <2>2. client' = [client EXCEPT ![d] = cl]
    BY <1>6
  <2> HIDE DEF cl
  <2> QED
    BY <1>3, <1>4, <2>1, <2>2, OneDevice, IdleCall
<1> QED
  BY <1>5, <1>6 DEF ServePage

LEMMA OpenPullKeeps ==
    ASSUME ReplInvariant, NEW d \in Devices, OpenPull(d)
    PROVE  ReplInvariant'
<1> DEFINE cursor == client[d].cursor
           pull == [pc |-> "pull", cursor |-> cursor]
<1>1. UNCHANGED <<storeVars, began, completions>>
  BY DEF OpenPull
<1>2. CASE StartsOver(d) /\ CallEnds(d)
  BY <1>1, <1>2, StartOverKeeps
<1>3. CASE CallGoes(d, pull) /\ UNCHANGED client
  <2>1. cursor \in Cursors
    BY DEF OpenPull, ReplInvariant, Typed, ClientRows
  <2>2. pull \in Pulling /\ pull.pc = "pull" /\ pull.cursor = client[d].cursor
    BY <2>1 DEF Pulling
  <2>3. call' = [call EXCEPT ![d] = pull]
    BY <1>3 DEF CallGoes
  <2> HIDE DEF pull
  <2>4. pull \in CallRows /\ CallOK(pull, client[d])
    BY <2>2 DEF CallRows, CallOK
  <2> QED
    BY <1>1, <1>3, <2>3, <2>4, OneDevice, SameClient, SameCompletions
<1> QED
  BY <1>2, <1>3 DEF OpenPull

LEMMA ServePullKeeps ==
    ASSUME ReplInvariant, NEW d \in Devices, ServePull(d)
    PROVE  ReplInvariant'
<1> DEFINE cursor == call[d].cursor
           records == Pulled(cursor.seq)
           last == LastSeq(records, cursor.seq)
<1>1. /\ call[d] \in CallRows /\ client[d] \in ClientRows
      /\ CallOK(call[d], client[d]) /\ ClientOK(client[d])
  BY DEF ReplInvariant, Typed, DevicesHeld
<1>2. call[d].pc = "pull" /\ call[d] \in Pulling
  BY <1>1, RowShapes DEF ServePull
<1>3. cursor \in Cursors /\ cursor # None /\ client[d].cursor = cursor
  BY <1>1, <1>2, ReplicationAssumption DEF CallOK, Pulling
<1>4. /\ cursor.seq \in Nat /\ cursor.seq <= store.seq
      /\ client[d].replica = RankedAt(store, cursor.seq)
      /\ client[d].token = None /\ client[d].pages = {}
  BY <1>1, <1>3 DEF ClientOK, Cursors
<1>5. store \in Stores /\ Gapless(store)
  BY DEF ReplInvariant, StoreInvariant, StoreTypeOK, Sound
<1>6. /\ last \in Nat /\ last <= store.seq
      /\ Applied(client[d].replica, records) = RankedAt(store, last)
  BY <1>4, <1>5, PullContinues DEF Pulled
<1>7. /\ UNCHANGED <<storeVars, began, completions>> /\ CallEnds(d)
      /\ call' = [call EXCEPT ![d] = Idle]
  BY DEF ServePull, CallEnds, CallGoes
<1>8. CASE client' = client
  BY <1>7, <1>8, EndKeeps, SameCompletions
<1>9. CASE client' = [client EXCEPT ![d].cursor = [cursor EXCEPT !.seq = last],
                                    ![d].replica = Applied(@, records)]
  <2> DEFINE next == [cursor EXCEPT !.seq = last]
             cl == [client[d] EXCEPT !.cursor = next, !.replica = RankedAt(store, last)]
  <2>1. next \in Cursors /\ next.seq = last
    BY <1>3, <1>6 DEF Cursors
  <2>2. RankedAt(store, last) \subseteq Changes
    BY <1>5 DEF RankedAt, Stores
  <2> HIDE DEF last, records, cursor, next
  <2>3. client' = [client EXCEPT ![d] = cl]
    BY <1>6, <1>9 DEF ReplInvariant, Typed, ClientRows, next
  <2>4. cl \in ClientRows /\ cl.cursor = next /\ cl.token = None /\ cl.pages = {}
        /\ cl.replica = RankedAt(store, last)
    BY <1>1, <1>4, <2>1, <2>2 DEF ClientRows
  <2> HIDE DEF cl
  <2>5. ClientOK(cl)
    BY <1>6, <2>1, <2>4 DEF ClientOK
  <2> QED
    BY <1>7, <2>3, <2>4, <2>5, OneDevice, IdleCall, SameCompletions
<1> QED
  BY <1>8, <1>9 DEF ServePull

LEMMA DeviceKeeps ==
    ASSUME ReplInvariant, NEW d \in Devices,
           DeviceStep(d) \/ MissManifest(d) \/ CallFails(d)
    PROVE  ReplInvariant' /\ UNCHANGED storeVars
<1>1. CASE PrepareManifest(d)
  BY <1>1, PrepareKeeps DEF PrepareManifest
<1>2. CASE RecordManifest(d)
  BY <1>2, RecordKeeps DEF RecordManifest
<1>3. CASE OpenFirstPage(d)
  BY <1>3, FirstPageKeeps DEF OpenFirstPage
<1>4. CASE OpenNextPage(d)
  BY <1>4, NextPageKeeps DEF OpenNextPage
<1>5. CASE RefusePage(d)
  BY <1>5, StartOverKeeps DEF RefusePage
<1>6. CASE ServePage(d)
  BY <1>6, ServePageKeeps DEF ServePage
<1>7. CASE MissManifest(d)
  BY <1>7, StartOverKeeps DEF MissManifest
<1>8. CASE OpenPull(d)
  BY <1>8, OpenPullKeeps DEF OpenPull
<1>9. CASE ServePull(d)
  BY <1>9, ServePullKeeps DEF ServePull
<1>10. CASE CallFails(d)
  BY <1>10, EndKeeps, SameCompletions DEF CallFails
<1> QED
  BY <1>1, <1>2, <1>3, <1>4, <1>5, <1>6, <1>7, <1>8, <1>9, <1>10 DEF DeviceStep

LEMMA ReplInitInvariant == ReplInit => ReplInvariant
<1> SUFFICES ASSUME ReplInit PROVE ReplInvariant
  OBVIOUS
<1>1. StoreInit
  BY DEF ReplInit
<1>2. StoreInvariant /\ Extends(work, store)
  BY <1>1, InitInvariant DEF StoreInit, Extends, EmptyStore
<1>3. generation = 1 /\ store.seq \in Nat /\ began = <<0>>
  BY <1>1, <1>2 DEF ReplInit, StoreInit, StoreInvariant, StoreTypeOK, Stores
<1>4. BeganHeld
  BY <1>3 DEF BeganHeld
<1>5. NewClient \in ClientRows /\ ClientOK(NewClient)
  <2>1. NewClient.token = None /\ NewClient.cursor = None /\ NewClient.pages = {}
    BY DEF NewClient
  <2> QED
    BY <2>1 DEF NewClient, ClientRows, ClientOK
<1>6. Typed /\ DevicesHeld
  BY <1>5, IdleCall DEF ReplInit, Typed, DevicesHeld
<1>7. CompletionsHeld
  BY DEF ReplInit, CompletionsHeld
<1> QED
  BY <1>2, <1>4, <1>6, <1>7 DEF ReplInvariant

LEMMA ReplNextInvariant == ReplInvariant /\ [ReplNext]_vars => ReplInvariant'
<1> SUFFICES ASSUME ReplInvariant, [ReplNext]_vars PROVE ReplInvariant'
  OBVIOUS
<1>1. CASE UNCHANGED vars
  BY <1>1 DEF vars, replVars, storeVars, ReplInvariant, StoreInvariant, StoreTypeOK, Extends,
     Typed, BeganHeld, DevicesHeld, CompletionsHeld, ClientOK, CallOK, Captured
<1>2. CASE ServerStep
  BY <1>2, ServerKeeps
<1>3. CASE \E d \in Devices : DeviceStep(d) \/ MissManifest(d) \/ CallFails(d)
  BY <1>3, DeviceKeeps
<1> QED
  BY <1>1, <1>2, <1>3 DEF ReplNext

-----------------------------------------------------------------------------
(***************************************************************************)
(* The inductive invariant: the project store's own, and that whatever a   *)
(* manifest, a page token, a cursor, a copy or a completion says of the    *)
(* project is what the log says at the sequence it names.                  *)
(***************************************************************************)
THEOREM ReplCorrect == ReplSpec => []ReplInvariant
BY ReplInitInvariant, ReplNextInvariant, PTL DEF ReplSpec

(***************************************************************************)
(* Types hold, a generation has a beginning, and the pages a device has    *)
(* collected are all of the manifest its token names.                      *)
(***************************************************************************)
THEOREM ReplTypes == ReplSpec => []ReplTypeOK
<1>1. ReplInvariant => ReplTypeOK
  <2> SUFFICES ASSUME ReplInvariant PROVE ReplTypeOK
    OBVIOUS
  <2>1. StoreTypeOK /\ Len(began) = generation
    BY DEF ReplInvariant, StoreInvariant, BeganHeld
  <2>2. ASSUME NEW d \in Devices
        PROVE  /\ call[d].pc \in Places
               /\ client[d].replica \subseteq Changes
               /\ client[d].token # None =>
                     /\ client[d].cursor = None
                     /\ client[d].pages \subseteq
                           {client[d].token.manifest.items[i] : i \in 1 .. client[d].token.offset}
    <3>1. call[d] \in CallRows /\ client[d] \in ClientRows /\ ClientOK(client[d])
      BY DEF ReplInvariant, Typed, DevicesHeld
    <3>2. call[d].pc \in Places /\ client[d].replica \subseteq Changes
      BY <3>1, RowShapes DEF ClientRows
    <3> QED
      BY <3>1, <3>2 DEF ClientOK, ItemsUpTo
  <2> QED
    BY <2>1, <2>2 DEF ReplTypeOK
<1> QED
  BY <1>1, ReplCorrect, PTL

(***************************************************************************)
(* The copy of a device is the project exactly as it was after the change  *)
(* its cursor names, after any number of pages and pulls, whatever commits *)
(* between their statements and whichever answers are lost.                *)
(***************************************************************************)
THEOREM CopiesAreExact == ReplSpec => []ReplicaIsPrefix
<1>1. ReplInvariant => ReplicaIsPrefix
  BY DEF ReplInvariant, DevicesHeld, ClientOK, ReplicaIsPrefix
<1> QED
  BY <1>1, ReplCorrect, PTL

(***************************************************************************)
(* A device that completed a bootstrap of a generation was shown a state   *)
(* at least as new as the restore that began the generation.               *)
(***************************************************************************)
THEOREM CompletionsCurrent == ReplSpec => []CompletionIsOfGeneration
<1>1. ReplInvariant => CompletionIsOfGeneration
  BY DEF ReplInvariant, CompletionsHeld, CompletionIsOfGeneration, StoreInvariant, StoreTypeOK
<1> QED
  BY <1>1, ReplCorrect, PTL

(***************************************************************************)
(* Devices only read the project: with any number of them bootstrapping    *)
(* and pulling, the store goes on as the project store alone does.         *)
(***************************************************************************)
THEOREM ReplImplementsStore == ReplSpec => StoreSpec
<1>1. ReplInit => StoreInit
  BY DEF ReplInit
<1>2. ReplInvariant /\ [ReplNext]_vars => [StoreNext]_storeVars
  BY DeviceKeeps DEF ReplNext, ServerStep, vars
<1> QED
  BY <1>1, <1>2, ReplCorrect, PTL DEF ReplSpec, StoreSpec

(***************************************************************************)
(* ... so it also goes through an append-only history of changes, as       *)
(* ChangeHistory has it.                                                   *)
(***************************************************************************)
THEOREM ReplImplementsHistory == ReplSpec => ImplementsHistory
BY ReplImplementsStore, StoreImplementsHistory, PTL
=============================================================================

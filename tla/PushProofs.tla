----------------------------- MODULE PushProofs -----------------------------
(***************************************************************************)
(* Push implements the store's specification, and its promises, for any    *)
(* number of calls, devices, keys, batches, objects and generations.       *)
(***************************************************************************)
EXTENDS PushProtocol, ProjectStoreProofs

(***************************************************************************)
(* The rows of a call and the places it goes through: a call that is not   *)
(* idle has a request, and the one that works through items holds the row. *)
(***************************************************************************)
Rows == [pc: {"idle", "waiting", "applying"}, req: Requests \cup {None},
         todo: Seq(Items), results: Seq(Outcomes)]

CallsTyped ==
    /\ call \in [Calls -> Rows]
    /\ \A c \in Calls : /\ call[c].pc = "idle" => call[c] = Idle
                        /\ call[c].pc # "idle" => call[c].req \in Requests
                        /\ call[c].pc = "applying" <=> holder = c

-----------------------------------------------------------------------------
(***************************************************************************)
(* Refinement.  Every step of a push is a step of the store or none.       *)
(***************************************************************************)
LEMMA ItemsTyped ==
    ASSUME CallsTyped, NEW c \in Calls, call[c].todo # << >>
    PROVE  /\ Head(call[c].todo) \in Items
           /\ Tail(call[c].todo) \in Seq(Items)
<1>1. call[c].todo \in Seq(Items)
  BY DEF CallsTyped, Rows
<1> QED
  BY <1>1

LEMMA RequestTyped ==
    ASSUME NEW req \in Requests
    PROVE  req.items \in Seq(Items) /\ req.gen \in 1 .. MaxGeneration /\ SlotOf(req) \in Slots
BY PushAssumption DEF Requests, SlotOf, Slots

LEMMA CallStepStore ==
    ASSUME CallsTyped, NEW c \in Calls, PushStep(c)
    PROVE  [StoreNext]_storeVars
<1>1. c \in Writers
  BY PushAssumption
<1>2. CASE \E req \in Requests : PushReplay(c, req) \/ PushStart(c, req)
  BY <1>2 DEF PushReplay, PushStart
<1>3. CASE PushRefuse(c)
  BY <1>3 DEF PushRefuse
<1>4. CASE PushAdmit(c)
  BY <1>1, <1>4 DEF PushAdmit, StoreNext
<1>5. CASE PushSkipItem(c)
  BY <1>5 DEF PushSkipItem
<1>6. CASE PushApplyItem(c)
  <2> DEFINE item == Head(call[c].todo)
  <2>1. item \in Items /\ item.obj \in Objects /\ item.body \in Bodies
    BY <1>6, ItemsTyped DEF PushApplyItem, Items
  <2>2. item.base = work.heads[item.obj].rev /\ Revise(c, item.obj, item.base, item.body)
    BY <1>6 DEF PushApplyItem, ItemOutcome
  <2> QED
    BY <1>1, <2>1, <2>2 DEF StoreNext
<1>7. CASE PushCommit(c)
  BY <1>1, <1>7 DEF PushCommit, StoreNext
<1>8. CASE PushAbort(c)
  BY <1>1, <1>8 DEF PushAbort, StoreNext
<1> QED
  BY <1>2, <1>3, <1>4, <1>5, <1>6, <1>7, <1>8 DEF PushStep

LEMMA StepStore == CallsTyped /\ [PushNext]_vars => [StoreNext]_storeVars
<1> SUFFICES ASSUME CallsTyped, [PushNext]_vars PROVE [StoreNext]_storeVars
  OBVIOUS
<1>1. Restorer \in Writers
  BY PushAssumption
<1>2. CASE \E c \in Calls : PushStep(c)
  BY <1>2, CallStepStore
<1>3. CASE \E s \in Slots : ExpireRecord(s)
  BY <1>3 DEF ExpireRecord
<1>4. CASE \E d \in Devices, g \in 1 .. generation : CompleteBootstrap(d, g)
  BY <1>4 DEF CompleteBootstrap
<1>5. CASE \E h \in Contents : RegisterPayload(h)
  BY <1>5 DEF RegisterPayload
<1>6. CASE RestoreStart \/ RestoreCommit \/ RestoreAbort
  BY <1>1, <1>6 DEF RestoreStart, RestoreCommit, RestoreAbort, StoreNext
<1>7. CASE \E o \in Objects, b \in Bodies : RestoreItem(o, b)
  BY <1>1, <1>7 DEF RestoreItem, StoreNext
<1>8. CASE ChangeStatus
  BY <1>8 DEF ChangeStatus, StoreNext
<1>9. CASE UNCHANGED vars
  BY <1>9 DEF vars
<1> QED
  BY <1>2, <1>3, <1>4, <1>5, <1>6, <1>7, <1>8, <1>9 DEF PushNext

(***************************************************************************)
(* The types of the calls are inductive: the row is handed over only while *)
(* nobody holds it, and a call that gives it back is idle again.           *)
(***************************************************************************)
LEMMA CallChanges ==
    ASSUME CallsTyped, NEW c \in Calls, NEW row \in Rows,
           call' = [call EXCEPT ![c] = row],
           row.pc = "idle" => row = Idle,
           row.pc # "idle" => row.req \in Requests,
           row.pc = "applying" <=> holder' = c,
           \A d \in Calls \ {c} : holder = d <=> holder' = d
    PROVE  CallsTyped'
BY DEF CallsTyped

LEMMA OthersChange ==
    ASSUME CallsTyped, UNCHANGED call, \A d \in Calls : holder = d <=> holder' = d
    PROVE  CallsTyped'
BY DEF CallsTyped

LEMMA CallStepTyped ==
    ASSUME StoreInvariant, CallsTyped, NEW c \in Calls, PushStep(c)
    PROVE  CallsTyped'
<1>1. /\ c \in Writers /\ Nobody \notin Calls
      /\ call[c] \in Rows /\ work.seq \in Nat
  BY PushAssumption, StoreAssumption DEF CallsTyped, StoreInvariant, StoreTypeOK, Stores
<1>2. Idle \in Rows
  BY DEF Idle, Rows
<1>3. CASE \E req \in Requests : PushReplay(c, req)
  BY <1>3, OthersChange DEF PushReplay, storeVars
<1>4. CASE \E req \in Requests : PushStart(c, req)
  <2>1. PICK req \in Requests : PushStart(c, req)
    BY <1>4
  <2> DEFINE row == [pc |-> "waiting", req |-> req, todo |-> req.items, results |-> << >>]
  <2>2. row \in Rows
    BY RequestTyped DEF Rows
  <2>3. call' = [call EXCEPT ![c] = row] /\ holder' = holder /\ call[c].pc = "idle"
    BY <2>1 DEF PushStart, storeVars
  <2> QED
    BY <2>2, <2>3, CallChanges DEF CallsTyped
<1>5. CASE PushRefuse(c)
  BY <1>1, <1>2, <1>5, CallChanges DEF PushRefuse, storeVars, Idle
<1>6. CASE PushAdmit(c)
  <2> DEFINE row == [call[c] EXCEPT !.pc = "applying"]
  <2>1. row \in Rows
    BY <1>1 DEF Rows
  <2>2. call' = [call EXCEPT ![c] = row] /\ holder' = c /\ holder = Nobody
        /\ call[c].pc = "waiting"
    BY <1>6 DEF PushAdmit, LockProject
  <2> QED
    BY <1>1, <2>1, <2>2, CallChanges DEF CallsTyped, Rows
<1>7. ASSUME PushSkipItem(c) \/ PushApplyItem(c)
      PROVE  CallsTyped'
  <2>1. PICK result \in Outcomes : ItemDone(c, result)
    <3>1. CASE PushSkipItem(c)
      BY <3>1 DEF PushSkipItem, ItemOutcome, Outcomes
    <3>2. CASE PushApplyItem(c)
      BY <1>1, <3>2 DEF PushApplyItem, Outcomes
    <3> QED
      BY <1>7, <3>1, <3>2
  <2>2. call[c].pc = "applying" /\ call[c].todo # << >> /\ holder' = holder
    BY <1>7 DEF PushSkipItem, PushApplyItem, Revise, storeVars
  <2> DEFINE row == [call[c] EXCEPT !.todo = Tail(@), !.results = Append(@, result)]
  <2>3. row \in Rows
    <3>1. Tail(call[c].todo) \in Seq(Items)
      BY <2>2, ItemsTyped
    <3>2. Append(call[c].results, result) \in Seq(Outcomes)
      BY <1>1 DEF Rows
    <3> QED
      BY <1>1, <3>1, <3>2 DEF Rows
  <2>4. call' = [call EXCEPT ![c] = row]
    BY <2>1 DEF ItemDone
  <2>5. row.pc = call[c].pc /\ row.req = call[c].req
    BY <1>1 DEF Rows
  <2> QED
    BY <2>2, <2>3, <2>4, <2>5, CallChanges DEF CallsTyped
<1>8. CASE PushCommit(c)
  BY <1>1, <1>2, <1>8, CallChanges DEF PushCommit, CommitWrites, Commit, Idle
<1>9. CASE PushAbort(c)
  <2>1. call' = [call EXCEPT ![c] = Idle]
    BY <1>9 DEF PushAbort
  <2>2. CASE call[c].pc = "waiting" /\ UNCHANGED storeVars
    BY <1>1, <1>2, <2>1, <2>2, CallChanges DEF CallsTyped, storeVars, Idle
  <2>3. CASE Rollback(c)
    BY <1>1, <1>2, <2>1, <2>3, CallChanges DEF Rollback, Idle
  <2> QED
    BY <1>9, <2>2, <2>3 DEF PushAbort
<1> QED
  BY <1>3, <1>4, <1>5, <1>6, <1>7, <1>8, <1>9 DEF PushStep

LEMMA StepTyped == StoreInvariant /\ CallsTyped /\ [PushNext]_vars => CallsTyped'
<1> SUFFICES ASSUME StoreInvariant, CallsTyped, [PushNext]_vars PROVE CallsTyped'
  OBVIOUS
<1>1. Restorer \notin Calls /\ Nobody \notin Calls
  BY PushAssumption, StoreAssumption
<1>2. CASE \E c \in Calls : PushStep(c)
  BY <1>2, CallStepTyped
<1>3. CASE RestoreStart \/ RestoreCommit \/ RestoreAbort
  <2>1. UNCHANGED call /\ {holder, holder'} \cap Calls = {}
    BY <1>1, <1>3 DEF RestoreStart, RestoreCommit, RestoreAbort, pushVars, LockProject,
                      CommitRestore, Commit, Rollback
  <2> QED
    BY <2>1, OthersChange
<1>4. ASSUME UNCHANGED <<call, holder>> PROVE CallsTyped'
  BY <1>4, OthersChange
<1>5. CASE ChangeStatus
  BY <1>4, <1>5 DEF ChangeStatus, EnterMaintenance, LeaveMaintenance, DisableProject, StartPurge,
                    MoveTo, pushVars
<1>6. CASE \E o \in Objects, b \in Bodies : RestoreItem(o, b)
  BY <1>4, <1>6 DEF RestoreItem, Revise, pushVars
<1>7. ASSUME \/ \E s \in Slots : ExpireRecord(s)
             \/ \E d \in Devices, g \in 1 .. generation : CompleteBootstrap(d, g)
             \/ \E h \in Contents : RegisterPayload(h)
             \/ UNCHANGED vars
      PROVE  UNCHANGED <<call, holder>>
  BY <1>7 DEF ExpireRecord, CompleteBootstrap, RegisterPayload, vars, pushVars,
              storeVars
<1> QED
  BY <1>2, <1>3, <1>4, <1>5, <1>6, <1>7 DEF PushNext

\* Every step of a push, with whatever goes on around it, is one the store allows.
THEOREM PushImplementsStore == PushSpec => StoreSpec
<1>1. PushInit => StoreInit /\ StoreInvariant /\ CallsTyped
  <2> SUFFICES ASSUME PushInit PROVE StoreInit /\ StoreInvariant /\ CallsTyped
    OBVIOUS
  <2>1. StoreInit /\ StoreInvariant
    BY InitInvariant DEF PushInit
  <2>2. Idle \in Rows /\ Nobody \notin Calls
    BY PushAssumption, StoreAssumption DEF Idle, Rows
  <2> QED
    BY <2>1, <2>2 DEF PushInit, StoreInit, CallsTyped, Idle
<1>2. StoreInvariant /\ CallsTyped /\ [PushNext]_vars
        => [StoreNext]_storeVars /\ StoreInvariant' /\ CallsTyped'
  BY StepStore, StepTyped, NextInvariant
<1> QED
  BY <1>1, <1>2, PTL DEF PushSpec, StoreSpec

-----------------------------------------------------------------------------
(***************************************************************************)
(* Keys.  While a call holds the advisory lock of a key there is no record *)
(* under it and no other call; an answer repeats what the record says.     *)
(***************************************************************************)
ReplyOf(record, req) ==
    IF record.req = req THEN record.response ELSE Refused("IDEMPOTENCY_CONFLICT")

KeysHeld ==
    /\ idem \in [Slots -> Records \cup {None}]
    /\ \A s \in Slots : idem[s] # None => SlotOf(idem[s].req) = s
    /\ \A c \in Calls : call[c].pc # "idle" => idem[SlotOf(call[c].req)] = None
    /\ \A c, d \in Calls : call[c].pc # "idle" /\ call[d].pc # "idle" /\ c # d
                             => SlotOf(call[c].req) # SlotOf(call[d].req)
    /\ \A a \in answers : /\ a.req \in Requests
                           /\ idem[SlotOf(a.req)] # None
                           /\ a.response = ReplyOf(idem[SlotOf(a.req)], a.req)

(***************************************************************************)
(* Changes.  Item i of a request is in the log as the client wrote it, one *)
(* revision above the base the client had seen.                            *)
(***************************************************************************)
Recorded(st, req, i, seq) ==
    /\ i \in DOMAIN req.items
    /\ \E c \in st.log : /\ c.seq = seq
                         /\ c.obj = req.items[i].obj
                         /\ c.body = req.items[i].body
                         /\ c.rev = req.items[i].base + 1

Reported(st, req, response) ==
    \A i \in DOMAIN response.results :
        response.results[i].status = "applied" =>
            Recorded(st, req, i, response.results[i].seq)

\* Each generation began at a sequence that is committed.
BeganHeld ==
    /\ began \in Seq(Nat)
    /\ Len(began) = generation
    /\ \A g \in 1 .. generation : began[g] <= store.seq

\* The results and the items left over make up the batch; what was applied is uncommitted.
BatchOf(c) ==
    LET req == call[c].req
        done == Len(call[c].results)
    IN  /\ done + Len(call[c].todo) = Len(req.items)
        /\ \A k \in 1 .. Len(call[c].todo) : call[c].todo[k] = req.items[done + k]
        /\ call[c].pc = "waiting" => done = 0
        /\ call[c].pc = "applying" =>
                /\ req.gen = generation
                /\ <<req.dev, req.gen>> \in completions
                /\ Reported(work, req, call[c])
                /\ \A i \in 1 .. done : call[c].results[i].status = "applied" =>
                        store.seq < call[c].results[i].seq
BatchHeld == \A c \in Calls : call[c].pc # "idle" => BatchOf(c)

\* A change made for a request is committed and lies within the request's generation.
AppliedHeld ==
    \A a \in applied :
        /\ a.req \in Requests
        /\ a.seq \in Nat
        /\ Recorded(store, a.req, a.pos, a.seq)
        /\ <<a.req.dev, a.req.gen>> \in completions
        /\ a.req.gen <= generation
        /\ began[a.req.gen] < a.seq
        /\ a.req.gen < generation => a.seq <= began[a.req.gen + 1]

AnswersHeld ==
    /\ \A s \in Slots : idem[s] # None => Reported(store, idem[s].req, idem[s].response)
    /\ \A a \in answers : Reported(store, a.req, a.response)

PushInvariant ==
    /\ StoreInvariant
    /\ Extends(work, store)
    /\ CallsTyped
    /\ KeysHeld
    /\ BeganHeld
    /\ BatchHeld
    /\ AppliedHeld
    /\ AnswersHeld

(***************************************************************************)
(* What a step leaves alone.                                               *)
(***************************************************************************)
LEMMA GenerationChanges ==
    [PushNext]_vars => UNCHANGED <<generation, began>> \/ RestoreCommit
BY DEF PushNext, PushStep, PushReplay, PushStart, PushRefuse, PushAdmit, PushSkipItem,
       PushApplyItem, PushCommit, PushAbort, ItemDone, ExpireRecord, CompleteBootstrap,
       RegisterPayload, RestoreStart, RestoreItem, RestoreAbort, ChangeStatus,
       EnterMaintenance, LeaveMaintenance, DisableProject, StartPurge, MoveTo, LockProject,
       Revise, Rollback, CommitWrites, Commit, vars, pushVars, storeVars

LEMMA CompletionsGrow == [PushNext]_vars => completions \subseteq completions'
BY DEF PushNext, PushStep, PushReplay, PushStart, PushRefuse, PushAdmit, PushSkipItem,
       PushApplyItem, PushCommit, PushAbort, ItemDone, ExpireRecord, CompleteBootstrap,
       RegisterPayload, RestoreStart, RestoreItem, RestoreCommit, RestoreAbort,
       ChangeStatus, vars, pushVars

LEMMA AppliedChanges ==
    [PushNext]_vars => UNCHANGED applied \/ \E c \in Calls : PushCommit(c)
BY DEF PushNext, PushStep, PushReplay, PushStart, PushRefuse, PushAdmit, PushSkipItem,
       PushApplyItem, PushAbort, ItemDone, ExpireRecord, CompleteBootstrap,
       RegisterPayload, RestoreStart, RestoreItem, RestoreCommit, RestoreAbort,
       ChangeStatus, vars, pushVars

\* Only calls change calls; only calls and the expiry change records and answers.
LEMMA AroundChanges ==
    [PushNext]_vars => \/ \E c \in Calls : PushStep(c)
                       \/ \E s \in Slots : ExpireRecord(s)
                       \/ UNCHANGED <<call, idem, answers>>
BY DEF PushNext, CompleteBootstrap, RegisterPayload, RestoreStart, RestoreItem,
       RestoreCommit, RestoreAbort, ChangeStatus, vars, pushVars

-----------------------------------------------------------------------------
(***************************************************************************)
(* Keys stay held.                                                         *)
(***************************************************************************)
LEMMA KeysKept ==
    ASSUME CallsTyped, KeysHeld, UNCHANGED <<idem, answers>>,
           \A c \in Calls : call'[c].pc # "idle" =>
               call[c].pc # "idle" /\ call'[c].req = call[c].req
    PROVE  KeysHeld'
BY DEF KeysHeld

LEMMA StoreAnswerKeepsKeys ==
    ASSUME CallsTyped, KeysHeld, NEW c \in Calls, call[c].pc # "idle",
           NEW response \in Responses, StoreAnswer(call[c].req, response),
           call' = [call EXCEPT ![c] = Idle]
    PROVE  KeysHeld'
<1> DEFINE req == call[c].req
           slot == SlotOf(req)
           record == [req |-> req, response |-> response]
<1>1. /\ req \in Requests /\ slot \in Slots
      /\ record \in Records /\ record # None
      /\ record.req = req /\ record.response = response
  BY RequestTyped, PushAssumption DEF CallsTyped, Records
<1>2. /\ idem' = [idem EXCEPT ![slot] = record]
      /\ answers' = answers \cup {[req |-> req, response |-> response]}
  BY DEF StoreAnswer, Answer
<1>3. /\ idem \in [Slots -> Records \cup {None}]
      /\ idem[slot] = None
      /\ idem'[slot] = record
      /\ \A s \in Slots \ {slot} : idem'[s] = idem[s]
  BY <1>1, <1>2 DEF KeysHeld
<1> HIDE DEF record, slot
<1>4. idem' \in [Slots -> Records \cup {None}]
  BY <1>1, <1>2, <1>3
<1>5. \A s \in Slots : idem'[s] # None => SlotOf(idem'[s].req) = s
  <2>1. SlotOf(record.req) = slot
    BY <1>1 DEF slot
  <2> QED
    BY <1>3, <2>1 DEF KeysHeld
<1>6. \A d \in Calls : call'[d].pc # "idle" => d # c /\ call'[d] = call[d]
  BY DEF CallsTyped, Idle
<1>7. \A d \in Calls \ {c} : call[d].pc # "idle" =>
          SlotOf(call[d].req) # slot /\ SlotOf(call[d].req) \in Slots
  BY RequestTyped DEF KeysHeld, CallsTyped, slot
<1>8. \A d \in Calls : call'[d].pc # "idle" => idem'[SlotOf(call'[d].req)] = None
  BY <1>3, <1>6, <1>7 DEF KeysHeld
<1>9. \A d, e \in Calls : call'[d].pc # "idle" /\ call'[e].pc # "idle" /\ d # e
                            => SlotOf(call'[d].req) # SlotOf(call'[e].req)
  BY <1>6 DEF KeysHeld
<1>10. ASSUME NEW a \in answers'
       PROVE  /\ a.req \in Requests
              /\ idem'[SlotOf(a.req)] # None
              /\ a.response = ReplyOf(idem'[SlotOf(a.req)], a.req)
  <2>1. CASE a \in answers
    <3>1. /\ a.req \in Requests
          /\ idem[SlotOf(a.req)] # None
          /\ a.response = ReplyOf(idem[SlotOf(a.req)], a.req)
      BY <2>1 DEF KeysHeld
    <3>2. SlotOf(a.req) \in Slots /\ SlotOf(a.req) # slot
      BY <3>1, <1>3, RequestTyped
    <3> QED
      BY <3>1, <3>2, <1>3
  <2>2. CASE a = [req |-> req, response |-> response]
    <3>1. a.req = req /\ a.response = response /\ SlotOf(a.req) = slot
      BY <2>2 DEF slot
    <3> QED
      BY <3>1, <1>1, <1>3 DEF ReplyOf
  <2> QED
    BY <2>1, <2>2, <1>2
<1> QED
  BY <1>4, <1>5, <1>8, <1>9, <1>10 DEF KeysHeld

LEMMA KeysStep ==
    ASSUME StoreInvariant, CallsTyped, KeysHeld, [PushNext]_vars
    PROVE  KeysHeld'
<1>1. ASSUME NEW c \in Calls, PushStep(c) PROVE KeysHeld'
  <2>1. call[c] \in Rows /\ generation \in Nat
    BY DEF CallsTyped, StoreInvariant, StoreTypeOK
  <2>2. ASSUME NEW req \in Requests, PushReplay(c, req) PROVE KeysHeld'
    <3> DEFINE response == ReplyOf(idem[SlotOf(req)], req)
    <3>1. /\ answers' = answers \cup {[req |-> req, response |-> response]}
          /\ idem[SlotOf(req)] # None
          /\ UNCHANGED <<call, idem>>
      BY <2>2 DEF PushReplay, Answer, ReplyOf
    <3> QED
      BY <3>1 DEF KeysHeld
  <2>3. ASSUME NEW req \in Requests, PushStart(c, req) PROVE KeysHeld'
    <3> DEFINE row == [pc |-> "waiting", req |-> req, todo |-> req.items, results |-> << >>]
    <3>1. /\ idem[SlotOf(req)] = None
          /\ ~KeyIsLocked(SlotOf(req))
          /\ call' = [call EXCEPT ![c] = row]
          /\ UNCHANGED <<idem, answers>>
      BY <2>3 DEF PushStart
    <3>2. \A d \in Calls : call[d].pc # "idle" => SlotOf(call[d].req) # SlotOf(req)
      BY <3>1 DEF KeyIsLocked
    <3>3. call'[c].req = req /\ \A d \in Calls \ {c} : call'[d] = call[d]
      BY <3>1 DEF CallsTyped
    <3>4. \A d \in Calls : call'[d].pc # "idle" => idem[SlotOf(call'[d].req)] = None
      BY <3>1, <3>3 DEF KeysHeld
    <3>5. \A d, e \in Calls : call'[d].pc # "idle" /\ call'[e].pc # "idle" /\ d # e
                                => SlotOf(call'[d].req) # SlotOf(call'[e].req)
      BY <3>2, <3>3 DEF KeysHeld
    <3> QED
      BY <3>1, <3>4, <3>5 DEF KeysHeld
  <2>4. CASE PushRefuse(c)
    <3> DEFINE response == Refused(Refusal(call[c].req))
    <3>1. response \in Responses
      BY <2>4 DEF PushRefuse, Refused, Refusal, Responses, Codes
    <3>2. call[c].pc # "idle" /\ StoreAnswer(call[c].req, response)
             /\ call' = [call EXCEPT ![c] = Idle]
      BY <2>4 DEF PushRefuse
    <3> QED
      BY <3>1, <3>2, StoreAnswerKeepsKeys
  <2>5. CASE PushCommit(c)
    <3> DEFINE response == [code |-> "OK", gen |-> generation, results |-> call[c].results]
    <3>1. response \in Responses
      BY <2>1 DEF Rows, Responses, Codes
    <3>2. call[c].pc # "idle" /\ StoreAnswer(call[c].req, response)
             /\ call' = [call EXCEPT ![c] = Idle]
      BY <2>5 DEF PushCommit
    <3> QED
      BY <3>1, <3>2, StoreAnswerKeepsKeys
  <2>6. CASE PushAdmit(c)
    <3>1. call[c].pc # "idle" /\ call' = [call EXCEPT ![c].pc = "applying"]
             /\ UNCHANGED <<idem, answers>>
      BY <2>6 DEF PushAdmit
    <3> DEFINE row == [call[c] EXCEPT !.pc = "applying"]
    <3>2. row.req = call[c].req
      BY <2>1 DEF Rows
    <3>3. call'[c] = row /\ \A d \in Calls \ {c} : call'[d] = call[d]
      BY <3>1 DEF CallsTyped
    <3> QED
      BY <3>1, <3>2, <3>3, KeysKept
  <2>7. ASSUME PushSkipItem(c) \/ PushApplyItem(c) PROVE KeysHeld'
    <3>1. PICK result : ItemDone(c, result)
      BY <2>7 DEF PushSkipItem, PushApplyItem
    <3> DEFINE row == [call[c] EXCEPT !.todo = Tail(@), !.results = Append(@, result)]
    <3>2. row.req = call[c].req /\ row.pc = call[c].pc
      BY <2>1 DEF Rows
    <3>3. call'[c] = row /\ \A d \in Calls \ {c} : call'[d] = call[d]
      BY <3>1 DEF ItemDone, CallsTyped
    <3> QED
      BY <3>1, <3>2, <3>3, KeysKept DEF ItemDone
  <2>8. CASE PushAbort(c)
    <3>1. call' = [call EXCEPT ![c] = Idle] /\ UNCHANGED <<idem, answers>>
      BY <2>8 DEF PushAbort
    <3>2. \A d \in Calls : call'[d].pc # "idle" => call'[d] = call[d]
      BY <3>1 DEF CallsTyped, Idle
    <3> QED
      BY <3>1, <3>2, KeysKept
  <2> QED
    BY <1>1, <2>2, <2>3, <2>4, <2>5, <2>6, <2>7, <2>8 DEF PushStep
<1>2. ASSUME NEW s \in Slots, ExpireRecord(s) PROVE KeysHeld'
  <2>1. /\ idem' = [idem EXCEPT ![s] = None]
        /\ answers' = {a \in answers : SlotOf(a.req) # s}
        /\ UNCHANGED call
    BY <1>2 DEF ExpireRecord
  <2>2. \A c \in Calls : call[c].pc # "idle" => SlotOf(call[c].req) \in Slots
    BY RequestTyped DEF CallsTyped
  <2>3. \A a \in answers' : a \in answers /\ SlotOf(a.req) \in Slots \ {s}
    BY <2>1, RequestTyped DEF KeysHeld
  <2>4. \A r \in Slots : idem'[r] = IF r = s THEN None ELSE idem[r]
    BY <2>1 DEF KeysHeld
  <2>5. idem' \in [Slots -> Records \cup {None}]
    BY <2>1 DEF KeysHeld
  <2>6. \A r \in Slots : idem'[r] # None => SlotOf(idem'[r].req) = r
    BY <2>4 DEF KeysHeld
  <2>7. \A c \in Calls : call[c].pc # "idle" => idem'[SlotOf(call[c].req)] = None
    BY <2>2, <2>4 DEF KeysHeld
  <2>8. \A a \in answers' : /\ a.req \in Requests
                            /\ idem'[SlotOf(a.req)] # None
                            /\ a.response = ReplyOf(idem'[SlotOf(a.req)], a.req)
    BY <2>3, <2>4 DEF KeysHeld
  <2> QED
    BY <2>1, <2>5, <2>6, <2>7, <2>8 DEF KeysHeld
<1>3. CASE UNCHANGED <<call, idem, answers>>
  BY <1>3, KeysKept
<1> QED
  BY <1>1, <1>2, <1>3, AroundChanges

-----------------------------------------------------------------------------
(***************************************************************************)
(* Changes stay recorded.                                                  *)
(***************************************************************************)
LEMMA RecordedStays ==
    ASSUME NEW st, NEW later, Extends(later, st), NEW req, NEW i, NEW seq,
           Recorded(st, req, i, seq)
    PROVE  Recorded(later, req, i, seq)
BY DEF Extends, Recorded

LEMMA ReportedStays ==
    ASSUME NEW st, NEW later, Extends(later, st), NEW req, NEW response,
           Reported(st, req, response)
    PROVE  Reported(later, req, response)
BY RecordedStays DEF Reported

LEMMA BeganStep ==
    ASSUME StoreInvariant, StoreInvariant', Extends(work, store), Extends(store', store),
           BeganHeld, [PushNext]_vars
    PROVE  BeganHeld'
<1>1. /\ store.seq \in Nat /\ work.seq \in Nat /\ generation \in Nat \ {0}
      /\ store.seq <= work.seq /\ store.seq <= store'.seq
  BY DEF StoreInvariant, StoreTypeOK, Stores, Extends
<1>2. store'.seq \in Nat
  BY DEF StoreInvariant, StoreTypeOK, Stores
<1>3. CASE UNCHANGED <<generation, began>>
  <2>1. \A g \in 1 .. generation : began[g] \in Nat /\ began[g] <= store.seq
    BY <1>1 DEF BeganHeld
  <2>2. \A g \in 1 .. generation : began[g] <= store'.seq
    BY <1>1, <1>2, <2>1
  <2>3. began' = began /\ generation' = generation
    BY <1>3
  <2>4. \A g \in 1 .. generation' : began'[g] <= store'.seq
    BY <2>2, <2>3
  <2> QED
    BY <2>3, <2>4 DEF BeganHeld
<1>4. CASE RestoreCommit
  <2>1. /\ began' = Append(began, work.seq) /\ generation' = generation + 1
        /\ store'.seq = work.seq
    BY <1>4 DEF RestoreCommit, CommitRestore, Commit
  <2>2. ASSUME NEW g \in 1 .. generation' PROVE began'[g] <= store'.seq
    <3>1. CASE g \in 1 .. generation
      BY <1>1, <2>1, <3>1 DEF BeganHeld
    <3>2. CASE g = generation + 1
      BY <1>1, <2>1, <3>2 DEF BeganHeld
    <3>3. g \in 1 .. (generation + 1)
      BY <2>1
    <3>4. g \in 1 .. generation \/ g = generation + 1
      BY <1>1, <3>3
    <3> QED
      BY <3>1, <3>2, <3>4
  <2> QED
    BY <1>1, <2>1, <2>2 DEF BeganHeld
<1> QED
  BY <1>3, <1>4, GenerationChanges

(***************************************************************************)
(* Batches.  While a call works through its items nobody else touches the  *)
(* project, because it holds the row.                                      *)
(***************************************************************************)
LEMMA RowIsHeld ==
    ASSUME CallsTyped, NEW d \in Calls, call[d].pc = "applying",
           [PushNext]_vars, ~PushStep(d)
    PROVE  UNCHANGED <<generation, store, work>>
<1>1. /\ holder = d /\ Restorer # d /\ Nobody # d
  BY PushAssumption, StoreAssumption DEF CallsTyped
<1>2. ASSUME NEW c \in Calls, PushStep(c) PROVE UNCHANGED <<generation, store, work>>
  <2>1. holder # c /\ holder # Nobody
    BY <1>1, <1>2
  <2>2. call[c].pc # "applying"
    BY <2>1 DEF CallsTyped
  <2> QED
    BY <1>2, <2>1, <2>2 DEF PushStep, PushReplay, PushStart, PushRefuse, PushAdmit, LockProject,
       PushSkipItem, PushApplyItem, PushCommit, PushAbort, storeVars
<1>3. CASE RestoreStart \/ RestoreCommit \/ RestoreAbort
           \/ \E o \in Objects, b \in Bodies : RestoreItem(o, b)
  BY <1>1, <1>3 DEF RestoreStart, RestoreCommit, RestoreAbort, RestoreItem, LockProject,
                    CommitRestore, Commit, Rollback, Revise
<1>4. CASE ChangeStatus
  BY <1>4 DEF ChangeStatus, EnterMaintenance, LeaveMaintenance, DisableProject, StartPurge,
              MoveTo
<1>5. CASE \/ \E s \in Slots : ExpireRecord(s)
           \/ \E e \in Devices, g \in 1 .. generation : CompleteBootstrap(e, g)
           \/ \E h \in Contents : RegisterPayload(h)
           \/ UNCHANGED vars
  BY <1>5 DEF ExpireRecord, CompleteBootstrap, RegisterPayload, vars, storeVars
<1> QED
  BY <1>2, <1>3, <1>4, <1>5 DEF PushNext

LEMMA BatchStays ==
    ASSUME CallsTyped, BatchHeld, NEW c \in Calls, call'[c] = call[c],
           call[c].pc # "idle", completions \subseteq completions',
           call[c].pc = "applying" => UNCHANGED <<generation, store, work>>
    PROVE  BatchOf(c)'
<1>1. BatchOf(c)
  BY DEF BatchHeld
<1>2. CASE call[c].pc # "applying"
  BY <1>1, <1>2 DEF BatchOf
<1>3. CASE call[c].pc = "applying"
  <2>1. generation' = generation /\ store' = store /\ work' = work
    BY <1>3
  <2> QED
    BY <1>1, <2>1 DEF BatchOf
<1> QED
  BY <1>2, <1>3

\* One more item is done: the results grow by one, the items left over shrink by one.
LEMMA ItemMovesOn ==
    ASSUME NEW items \in Seq(Items), NEW todo \in Seq(Items), NEW results \in Seq(Outcomes),
           NEW result \in Outcomes, todo # << >>,
           Len(results) + Len(todo) = Len(items),
           \A k \in 1 .. Len(todo) : todo[k] = items[Len(results) + k]
    PROVE  /\ Len(Append(results, result)) = Len(results) + 1
           /\ (Len(results) + 1) + Len(Tail(todo)) = Len(items)
           /\ \A k \in 1 .. Len(Tail(todo)) : Tail(todo)[k] = items[(Len(results) + 1) + k]
           /\ Len(results) + 1 \in DOMAIN items
           /\ Head(todo) = items[Len(results) + 1]
<1>1. Len(todo) \in Nat \ {0} /\ Len(results) \in Nat
  OBVIOUS
<1>2. /\ Len(Tail(todo)) = Len(todo) - 1 /\ Len(Append(results, result)) = Len(results) + 1
      /\ Head(todo) = todo[1]
      /\ \A k \in 1 .. Len(Tail(todo)) : Tail(todo)[k] = todo[k + 1]
  OBVIOUS
<1>3. \A k \in 1 .. Len(Tail(todo)) : k + 1 \in 1 .. Len(todo)
                                      /\ Len(results) + (k + 1) = (Len(results) + 1) + k
  BY <1>1, <1>2
<1>4. \A k \in 1 .. Len(Tail(todo)) : Tail(todo)[k] = items[(Len(results) + 1) + k]
  BY <1>2, <1>3
<1>5. Head(todo) = items[Len(results) + 1] /\ Len(results) + 1 \in 1 .. Len(items)
  BY <1>1, <1>2
<1>6. Len(results) + 1 \in DOMAIN items
  BY <1>5
<1>7. (Len(results) + 1) + Len(Tail(todo)) = Len(items)
  BY <1>1, <1>2
<1> QED
  BY <1>2, <1>4, <1>5, <1>6, <1>7

LEMMA ItemStepBatch ==
    ASSUME StoreInvariant, CallsTyped, BatchHeld, Extends(work, store), NEW c \in Calls,
           PushSkipItem(c) \/ PushApplyItem(c)
    PROVE  BatchOf(c)'
<1> DEFINE req == call[c].req
           todo == call[c].todo
           results == call[c].results
           done == Len(results)
<1>1. /\ call[c] \in Rows /\ call[c].pc = "applying" /\ todo # << >>
      /\ todo \in Seq(Items) /\ results \in Seq(Outcomes)
      /\ req \in Requests /\ req.items \in Seq(Items)
  BY RequestTyped DEF CallsTyped, Rows, PushSkipItem, PushApplyItem
<1>2. /\ done + Len(todo) = Len(req.items)
      /\ \A k \in 1 .. Len(todo) : todo[k] = req.items[done + k]
      /\ req.gen = generation
      /\ <<req.dev, req.gen>> \in completions
      /\ Reported(work, req, call[c])
      /\ \A i \in 1 .. done : results[i].status = "applied" => store.seq < results[i].seq
  BY <1>1 DEF BatchHeld, BatchOf
<1>3. store.seq \in Nat /\ work.seq \in Nat /\ store.seq <= work.seq
  BY DEF StoreInvariant, StoreTypeOK, Stores, Extends
<1>4. PICK result \in Outcomes :
          /\ ItemDone(c, result)
          /\ work.log \subseteq work'.log
          /\ result.status = "applied" =>
                 /\ store.seq < result.seq
                 /\ \E e \in work'.log : /\ e.seq = result.seq
                                         /\ e.obj = Head(todo).obj
                                         /\ e.body = Head(todo).body
                                         /\ e.rev = Head(todo).base + 1
  <2>1. CASE PushSkipItem(c)
    <3> DEFINE result == [status |-> ItemOutcome(Head(todo)), seq |-> 0]
    <3>1. result \in Outcomes /\ result.status # "applied" /\ ItemDone(c, result)
             /\ work' = work
      BY <2>1 DEF PushSkipItem, ItemOutcome, Outcomes, storeVars
    <3> QED
      BY <3>1
  <2>2. CASE PushApplyItem(c)
    <3> DEFINE item == Head(todo)
               result == [status |-> "applied", seq |-> work.seq + 1]
               e == [seq |-> work.seq + 1, obj |-> item.obj,
                     rev |-> work.heads[item.obj].rev + 1, base |-> item.base,
                     body |-> item.body]
    <3>1. /\ ItemDone(c, result)
          /\ item.base = work.heads[item.obj].rev
          /\ work' = Revised(work, item.obj, item.base, item.body)
      BY <2>2 DEF PushApplyItem, ItemOutcome, Revise
    <3>2. work'.log = work.log \cup {e}
      BY <3>1 DEF Revised
    <3>3. result \in Outcomes /\ store.seq < result.seq
      BY <1>3 DEF Outcomes
    <3>4. e.seq = result.seq /\ e.obj = item.obj /\ e.body = item.body /\ e.rev = item.base + 1
      BY <3>1
    <3> QED
      BY <3>1, <3>2, <3>3, <3>4
  <2> QED
    BY <2>1, <2>2
<1> DEFINE row == [call[c] EXCEPT !.todo = Tail(@), !.results = Append(@, result)]
<1>5. /\ row.pc = "applying" /\ row.req = req
      /\ row.todo = Tail(todo) /\ row.results = Append(results, result)
  BY <1>1 DEF Rows
<1>6. /\ call'[c] = row
      /\ UNCHANGED <<completions, generation, store>>
  <2>1. UNCHANGED <<generation, store>>
    BY DEF PushSkipItem, PushApplyItem, Revise, storeVars
  <2> QED
    BY <1>4, <2>1 DEF ItemDone, CallsTyped
<1>7. /\ Len(Append(results, result)) = done + 1
      /\ (done + 1) + Len(Tail(todo)) = Len(req.items)
      /\ \A k \in 1 .. Len(Tail(todo)) : Tail(todo)[k] = req.items[(done + 1) + k]
      /\ done + 1 \in DOMAIN req.items
      /\ Head(todo) = req.items[done + 1]
  BY <1>1, <1>2, <1>4, ItemMovesOn
<1> HIDE DEF req, todo, results, row
<1>8. \A i \in 1 .. done + 1 : row.results[i] = IF i = done + 1 THEN result ELSE results[i]
  BY <1>1, <1>4, <1>5
<1>9. ASSUME NEW i \in 1 .. done + 1, row.results[i].status = "applied"
      PROVE  Recorded(work', req, i, row.results[i].seq) /\ store.seq < row.results[i].seq
  <2>1. CASE i = done + 1
    BY <1>4, <1>7, <1>8, <1>9, <2>1 DEF Recorded
  <2>2. CASE i # done + 1
    <3>1. i \in 1 .. done /\ i \in DOMAIN results /\ row.results[i] = results[i]
      BY <1>1, <1>8, <2>2
    <3>2. Recorded(work, req, i, results[i].seq) /\ store.seq < results[i].seq
      BY <1>2, <1>9, <3>1 DEF Reported, results
    <3> QED
      BY <1>4, <3>1, <3>2 DEF Recorded
  <2> QED
    BY <2>1, <2>2
<1>10. DOMAIN row.results = 1 .. done + 1 /\ Len(row.results) = done + 1
  BY <1>1, <1>4, <1>5
<1>11. Reported(work', req, row)
  BY <1>9, <1>10 DEF Reported
<1> QED
  BY <1>2, <1>5, <1>6, <1>7, <1>9, <1>10, <1>11 DEF BatchOf, req

\* A step of another call, or of something around the calls, leaves a call's row alone.
LEMMA OthersLeaveTheCall ==
    ASSUME CallsTyped, NEW c \in Calls, [PushNext]_vars, ~PushStep(c)
    PROVE  call'[c] = call[c]
<1>1. ASSUME NEW d \in Calls, PushStep(d) PROVE call'[c] = call[c]
  <2>1. d # c
    BY <1>1
  <2> QED
    BY <1>1, <2>1 DEF CallsTyped, PushStep, PushReplay, PushStart, PushRefuse, PushAdmit,
       PushSkipItem, PushApplyItem, PushCommit, PushAbort, ItemDone
<1>2. CASE \E s \in Slots : ExpireRecord(s)
  BY <1>2 DEF ExpireRecord
<1> QED
  BY <1>1, <1>2, AroundChanges

LEMMA BatchStep ==
    ASSUME StoreInvariant, CallsTyped, CallsTyped', BatchHeld, Extends(work, store),
           [PushNext]_vars
    PROVE  BatchHeld'
<1> SUFFICES ASSUME NEW c \in Calls, call'[c].pc # "idle"
             PROVE  BatchOf(c)'
  BY DEF BatchHeld
<1>1. completions \subseteq completions'
  BY CompletionsGrow
<1>2. ASSUME ~PushStep(c) PROVE BatchOf(c)'
  <2>1. call'[c] = call[c]
    BY <1>2, OthersLeaveTheCall
  <2>2. call[c].pc = "applying" => UNCHANGED <<generation, store, work>>
    BY <1>2, RowIsHeld
  <2> QED
    BY <1>1, <2>1, <2>2, BatchStays
<1>3. CASE PushStep(c)
  <2>1. call[c] \in Rows /\ Idle.pc = "idle"
    BY DEF CallsTyped, Idle
  <2>2. ASSUME NEW req \in Requests, PushReplay(c, req) PROVE FALSE
    BY <2>2 DEF PushReplay
  <2>3. ASSUME NEW req \in Requests, PushStart(c, req) PROVE BatchOf(c)'
    <3> DEFINE row == [pc |-> "waiting", req |-> req, todo |-> req.items, results |-> << >>]
    <3>1. call'[c] = row
      BY <2>3 DEF PushStart, CallsTyped
    <3>2. req.items \in Seq(Items)
      BY RequestTyped
    <3> QED
      BY <3>1, <3>2 DEF BatchOf
  <2>4. CASE PushRefuse(c) \/ PushCommit(c) \/ PushAbort(c)
    BY <2>1, <2>4 DEF PushRefuse, PushCommit, PushAbort, CallsTyped
  <2>5. CASE PushAdmit(c)
    <3> DEFINE row == [call[c] EXCEPT !.pc = "applying"]
               req == call[c].req
    <3>1. /\ call[c].pc = "waiting" /\ Refusal(req) = "none"
          /\ call'[c] = row /\ UNCHANGED <<generation, completions>>
      BY <2>5 DEF PushAdmit, LockProject, CallsTyped
    <3>2. row.pc = "applying" /\ row.req = req /\ row.todo = call[c].todo
             /\ row.results = call[c].results
      BY <2>1 DEF Rows
    <3>3. req.gen = generation /\ <<req.dev, req.gen>> \in completions
      BY <3>1 DEF Refusal
    <3>4. /\ Len(call[c].results) = 0
          /\ Len(call[c].results) + Len(call[c].todo) = Len(req.items)
          /\ \A k \in 1 .. Len(call[c].todo) :
                call[c].todo[k] = req.items[Len(call[c].results) + k]
      BY <3>1 DEF BatchHeld, BatchOf
    <3>5. call[c].results = << >>
      BY <2>1, <3>4 DEF Rows
    <3> HIDE DEF row, req
    <3>6. Reported(work', req, row)
      BY <3>2, <3>5 DEF Reported
    <3> QED
      BY <3>1, <3>2, <3>3, <3>4, <3>5, <3>6 DEF BatchOf, req
  <2>6. CASE PushSkipItem(c) \/ PushApplyItem(c)
    BY <2>6, ItemStepBatch
  <2> QED
    BY <1>3, <2>2, <2>3, <2>4, <2>5, <2>6 DEF PushStep
<1> QED
  BY <1>2, <1>3

-----------------------------------------------------------------------------
(***************************************************************************)
(* What a commit makes visible.  The changes of its batch lie above        *)
(* everything committed before, so within the generation of the request.   *)
(***************************************************************************)
LEMMA AppliedStays ==
    ASSUME StoreInvariant, StoreInvariant', Extends(work, store), Extends(store', store),
           BeganHeld, AppliedHeld, [PushNext]_vars, NEW a \in applied
    PROVE  /\ a.req \in Requests
           /\ a.seq \in Nat
           /\ Recorded(store', a.req, a.pos, a.seq)
           /\ <<a.req.dev, a.req.gen>> \in completions'
           /\ a.req.gen <= generation'
           /\ began'[a.req.gen] < a.seq
           /\ a.req.gen < generation' => a.seq <= began'[a.req.gen + 1]
<1>1. /\ a.req \in Requests /\ a.req.gen \in Nat \ {0} /\ a.seq \in Nat
      /\ Recorded(store, a.req, a.pos, a.seq)
      /\ <<a.req.dev, a.req.gen>> \in completions
      /\ a.req.gen <= generation
      /\ began[a.req.gen] < a.seq
      /\ a.req.gen < generation => a.seq <= began[a.req.gen + 1]
  BY RequestTyped DEF AppliedHeld
<1>2. Recorded(store', a.req, a.pos, a.seq)
  BY <1>1, RecordedStays
<1>3. <<a.req.dev, a.req.gen>> \in completions'
  BY <1>1, CompletionsGrow
<1>4. CASE UNCHANGED <<generation, began>>
  <2>1. generation' = generation /\ began' = began
    BY <1>4
  <2> QED
    BY <1>1, <1>2, <1>3, <2>1
<1>5. CASE RestoreCommit
  <2>1. began' = Append(began, work.seq) /\ generation' = generation + 1
    BY <1>5 DEF RestoreCommit, CommitRestore, Commit
  <2>2. /\ generation \in Nat \ {0} /\ work.seq \in Nat /\ store.seq \in Nat
        /\ store.seq <= work.seq /\ began \in Seq(Nat) /\ Len(began) = generation
    BY DEF StoreInvariant, StoreTypeOK, Stores, Extends, BeganHeld
  <2>3. a.seq <= store.seq
    BY <1>1, <2>2 DEF Recorded, StoreInvariant, Sound, Gapless
  <2>4. \A g \in 1 .. generation : began'[g] = began[g]
    BY <2>1, <2>2
  <2>5. began'[generation + 1] = work.seq
    BY <2>1, <2>2
  <2>6. a.req.gen < generation => a.req.gen + 1 \in 1 .. generation
    BY <1>1, <2>2
  <2>7. a.req.gen \in 1 .. generation
    BY <1>1, <2>2
  <2>8. a.req.gen <= generation'
    BY <1>1, <2>1, <2>2
  <2>9. began'[a.req.gen] < a.seq
    BY <1>1, <2>4, <2>7
  <2>10. a.seq <= began'[a.req.gen + 1]
    <3>1. CASE a.req.gen < generation
      BY <1>1, <2>4, <2>6, <3>1
    <3>2. CASE a.req.gen = generation
      BY <1>1, <2>2, <2>3, <2>5, <3>2
    <3> QED
      BY <1>1, <2>2, <3>1, <3>2
  <2> QED
    BY <1>1, <1>2, <1>3, <2>8, <2>9, <2>10
<1> QED
  BY <1>4, <1>5, GenerationChanges

\* The answer of a finished batch reports what the commit makes visible.
LEMMA CommitReports ==
    ASSUME StoreInvariant, CallsTyped, BatchHeld, NEW c \in Calls, PushCommit(c)
    PROVE  /\ Reported(store', call[c].req, call[c])
           /\ call[c].req \in Requests /\ call[c].results \in Seq(Outcomes)
           /\ call[c].req.gen = generation /\ generation' = generation
           /\ <<call[c].req.dev, call[c].req.gen>> \in completions
           /\ \A i \in DOMAIN call[c].results : call[c].results[i].status = "applied" =>
                  store.seq < call[c].results[i].seq
<1>1. call[c] \in Rows /\ call[c].pc = "applying" /\ store' = work /\ generation' = generation
  BY DEF PushCommit, CommitWrites, Commit, CallsTyped
<1>2. call[c].results \in Seq(Outcomes) /\ call[c].req \in Requests
  BY <1>1 DEF Rows, CallsTyped
<1>3. BatchOf(c)
  BY <1>1 DEF BatchHeld
<1>4. /\ call[c].req.gen = generation
      /\ <<call[c].req.dev, call[c].req.gen>> \in completions
      /\ Reported(work, call[c].req, call[c])
      /\ \A i \in 1 .. Len(call[c].results) : call[c].results[i].status = "applied" =>
             store.seq < call[c].results[i].seq
  BY <1>1, <1>3 DEF BatchOf
<1> QED
  BY <1>1, <1>2, <1>4

LEMMA AppliedStep ==
    ASSUME StoreInvariant, StoreInvariant', Extends(work, store), Extends(store', store),
           CallsTyped, BeganHeld, BatchHeld, AppliedHeld, [PushNext]_vars
    PROVE  AppliedHeld'
<1>1. CASE UNCHANGED applied
  BY <1>1, AppliedStays DEF AppliedHeld
<1>2. ASSUME NEW c \in Calls, PushCommit(c) PROVE AppliedHeld'
  <2> DEFINE req == call[c].req
  <2>1. applied' = applied \cup AppliedBy(c) /\ began' = began
    BY <1>2 DEF PushCommit
  <2>2. /\ Reported(store', req, call[c])
        /\ req \in Requests /\ call[c].results \in Seq(Outcomes)
        /\ req.gen = generation /\ generation' = generation
        /\ <<req.dev, req.gen>> \in completions
        /\ \A i \in DOMAIN call[c].results : call[c].results[i].status = "applied" =>
               store.seq < call[c].results[i].seq
    BY <1>2, CommitReports
  <2>3. generation \in Nat \ {0} /\ store.seq \in Nat /\ completions \subseteq completions'
    BY CompletionsGrow DEF StoreInvariant, StoreTypeOK, Stores
  <2>4. began[generation] \in Nat /\ began[generation] <= store.seq
    BY <2>3 DEF BeganHeld
  <2>5. ASSUME NEW a \in AppliedBy(c)
        PROVE  /\ a.req = req
               /\ a.seq \in Nat
               /\ Recorded(store', a.req, a.pos, a.seq)
               /\ began[generation] < a.seq
    <3>1. PICK i \in DOMAIN call[c].results :
              /\ call[c].results[i].status = "applied"
              /\ a = [req |-> req, pos |-> i, seq |-> call[c].results[i].seq]
      BY DEF AppliedBy
    <3>2. call[c].results[i] \in Outcomes
      BY <2>2
    <3>3. a.seq \in Nat /\ store.seq < a.seq
      BY <2>2, <3>1, <3>2 DEF Outcomes
    <3>4. Recorded(store', a.req, a.pos, a.seq)
      BY <2>2, <3>1 DEF Reported
    <3> QED
      BY <2>3, <2>4, <3>1, <3>3, <3>4
  <2>6. ASSUME NEW a \in applied'
        PROVE  /\ a.req \in Requests
               /\ a.seq \in Nat
               /\ Recorded(store', a.req, a.pos, a.seq)
               /\ <<a.req.dev, a.req.gen>> \in completions'
               /\ a.req.gen <= generation'
               /\ began'[a.req.gen] < a.seq
               /\ a.req.gen < generation' => a.seq <= began'[a.req.gen + 1]
    <3>1. CASE a \in applied
      BY <3>1, AppliedStays
    <3>2. CASE a \in AppliedBy(c)
      BY <2>1, <2>2, <2>3, <2>5, <3>2
    <3> QED
      BY <2>1, <3>1, <3>2
  <2> QED
    BY <2>6 DEF AppliedHeld
<1> QED
  BY <1>1, <1>2, AppliedChanges

LEMMA AnswersStep ==
    ASSUME StoreInvariant, CallsTyped, KeysHeld, BatchHeld, AnswersHeld,
           Extends(store', store), [PushNext]_vars
    PROVE  AnswersHeld'
<1>1. /\ \A s \in Slots : idem[s] # None => Reported(store', idem[s].req, idem[s].response)
      /\ \A a \in answers : Reported(store', a.req, a.response)
  BY ReportedStays DEF AnswersHeld
<1>2. ASSUME NEW c \in Calls, NEW response, StoreAnswer(call[c].req, response),
             call[c].pc # "idle", Reported(store', call[c].req, response)
      PROVE  AnswersHeld'
  <2> DEFINE req == call[c].req
             record == [req |-> req, response |-> response]
  <2>1. /\ idem' = [idem EXCEPT ![SlotOf(req)] = record]
        /\ answers' = answers \cup {record}
    BY <1>2 DEF StoreAnswer, Answer
  <2>2. SlotOf(req) \in Slots
    BY <1>2, RequestTyped DEF CallsTyped
  <2>3. record.req = req /\ record.response = response
    OBVIOUS
  <2> HIDE DEF record
  <2>4. \A s \in Slots : idem'[s] = IF s = SlotOf(req) THEN record ELSE idem[s]
    BY <2>1, <2>2 DEF KeysHeld
  <2> QED
    BY <1>1, <1>2, <2>1, <2>3, <2>4 DEF AnswersHeld
<1>3. ASSUME NEW c \in Calls, PushStep(c) PROVE AnswersHeld'
  <2>1. ASSUME NEW req \in Requests, PushReplay(c, req) PROVE AnswersHeld'
    <3> DEFINE response == ReplyOf(idem[SlotOf(req)], req)
    <3>1. /\ answers' = answers \cup {[req |-> req, response |-> response]}
          /\ idem[SlotOf(req)] # None
          /\ UNCHANGED idem
      BY <2>1 DEF PushReplay, Answer, ReplyOf
    <3>2. Reported(store', req, response)
      <4>1. CASE idem[SlotOf(req)].req = req
        BY <1>1, <3>1, <4>1, RequestTyped DEF ReplyOf
      <4>2. CASE idem[SlotOf(req)].req # req
        BY <4>2 DEF ReplyOf, Reported, Refused
      <4> QED
        BY <4>1, <4>2
    <3> HIDE DEF response
    <3> QED
      BY <1>1, <3>1, <3>2 DEF AnswersHeld
  <2>2. CASE PushRefuse(c)
    <3> DEFINE response == Refused(Refusal(call[c].req))
    <3>1. StoreAnswer(call[c].req, response) /\ call[c].pc # "idle"
      BY <2>2 DEF PushRefuse
    <3>2. Reported(store', call[c].req, response)
      BY DEF Reported, Refused
    <3> QED
      BY <3>1, <3>2, <1>2
  <2>3. CASE PushCommit(c)
    <3> DEFINE response == [code |-> "OK", gen |-> generation, results |-> call[c].results]
    <3>1. StoreAnswer(call[c].req, response) /\ call[c].pc # "idle"
      BY <2>3 DEF PushCommit
    <3>2. Reported(store', call[c].req, response)
      BY <2>3, CommitReports DEF Reported
    <3> QED
      BY <3>1, <3>2, <1>2
  <2>4. ASSUME \/ \E req \in Requests : PushStart(c, req)
               \/ PushAdmit(c) \/ PushSkipItem(c) \/ PushApplyItem(c) \/ PushAbort(c)
        PROVE  UNCHANGED <<idem, answers>>
    BY <2>4 DEF PushStart, PushAdmit, PushSkipItem, PushApplyItem, PushAbort, ItemDone
  <2>5. CASE UNCHANGED <<idem, answers>>
    BY <1>1, <2>5 DEF AnswersHeld
  <2> QED
    BY <1>3, <2>1, <2>2, <2>3, <2>4, <2>5 DEF PushStep
<1>4. ASSUME NEW s \in Slots, ExpireRecord(s) PROVE AnswersHeld'
  <2>1. answers' \subseteq answers
    BY <1>4 DEF ExpireRecord
  <2>2. \A r \in Slots : idem'[r] # None => idem'[r] = idem[r]
    BY <1>4 DEF ExpireRecord, KeysHeld
  <2> QED
    BY <1>1, <2>1, <2>2 DEF AnswersHeld
<1>5. CASE UNCHANGED <<call, idem, answers>>
  BY <1>1, <1>5 DEF AnswersHeld
<1> QED
  BY <1>3, <1>4, <1>5, AroundChanges

-----------------------------------------------------------------------------
(***************************************************************************)
(* The invariant, and what a client may rely on.                           *)
(***************************************************************************)
LEMMA PushInitInvariant == PushInit => PushInvariant
<1> SUFFICES ASSUME PushInit PROVE PushInvariant
  OBVIOUS
<1>1. StoreInit /\ StoreInvariant
  BY InitInvariant DEF PushInit
<1>2. /\ store = EmptyStore /\ work = EmptyStore /\ holder = Nobody /\ generation = 1
      /\ call = [c \in Calls |-> Idle] /\ idem = [s \in Slots |-> None]
      /\ answers = {} /\ applied = {} /\ began = <<0>>
  BY <1>1 DEF PushInit, StoreInit
<1>3. Extends(work, store)
  BY <1>2 DEF Extends, EmptyStore
<1>4. CallsTyped
  BY <1>2, PushAssumption, StoreAssumption DEF CallsTyped, Rows, Idle
<1>5. KeysHeld
  BY <1>2 DEF KeysHeld, Idle
<1>6. BeganHeld
  BY <1>2 DEF BeganHeld, EmptyStore
<1>7. BatchHeld
  BY <1>2 DEF BatchHeld, Idle
<1>8. AppliedHeld /\ AnswersHeld
  BY <1>2 DEF AppliedHeld, AnswersHeld
<1> QED
  BY <1>1, <1>3, <1>4, <1>5, <1>6, <1>7, <1>8 DEF PushInvariant

LEMMA PushNextInvariant == PushInvariant /\ [PushNext]_vars => PushInvariant'
<1> SUFFICES ASSUME PushInvariant, [PushNext]_vars PROVE PushInvariant'
  OBVIOUS
<1>1. /\ StoreInvariant /\ Extends(work, store) /\ CallsTyped /\ KeysHeld
      /\ BeganHeld /\ BatchHeld /\ AppliedHeld /\ AnswersHeld
  BY DEF PushInvariant
<1>2. [StoreNext]_storeVars
  BY <1>1, StepStore
<1>3. StoreInvariant' /\ Extends(work, store)' /\ Extends(store', store)
  BY <1>1, <1>2, NextInvariant, NextExtends
<1>4. CallsTyped' /\ KeysHeld'
  BY <1>1, StepTyped, KeysStep
<1>5. BeganHeld' /\ AppliedHeld' /\ AnswersHeld'
  BY <1>1, <1>3, BeganStep, AppliedStep, AnswersStep
<1>6. BatchHeld'
  BY <1>1, <1>4, BatchStep
<1> QED
  BY <1>3, <1>4, <1>5, <1>6 DEF PushInvariant

\* Calls, records, answers and changes stay consistent through every interleaving.
THEOREM PushCorrect == PushSpec => []PushInvariant
<1> QED
  BY PushInitInvariant, PushNextInvariant, PTL DEF PushSpec

\* A request that is sent again, at once or after its record expired, is applied once.
THEOREM OnceOnly == PushSpec => []AppliedAtMostOnce
<1>1. PushInvariant => AppliedAtMostOnce
  <2> SUFFICES ASSUME PushInvariant, NEW a \in applied, NEW b \in applied,
                      a.req = b.req, a.pos = b.pos
               PROVE  a.seq = b.seq
    BY DEF AppliedAtMostOnce
  <2>1. store \in Stores /\ Chained(store)
    BY DEF PushInvariant, StoreInvariant, StoreTypeOK, Sound
  <2>2. PICK c \in store.log : /\ c.seq = a.seq
                               /\ c.obj = a.req.items[a.pos].obj
                               /\ c.rev = a.req.items[a.pos].base + 1
    BY DEF PushInvariant, AppliedHeld, Recorded
  <2>3. PICK d \in store.log : /\ d.seq = b.seq
                               /\ d.obj = a.req.items[a.pos].obj
                               /\ d.rev = a.req.items[a.pos].base + 1
    BY DEF PushInvariant, AppliedHeld, Recorded
  <2>4. c.seq \in Nat /\ d.seq \in Nat /\ c.rev \in Nat /\ d.rev \in Nat
    BY <2>1 DEF Stores, Changes
  <2>5. ~(c.seq < d.seq) /\ ~(d.seq < c.seq)
    BY <2>1, <2>2, <2>3, <2>4 DEF Chained
  <2> QED
    BY <2>2, <2>3, <2>4, <2>5
<1> QED
  BY <1>1, PushCorrect, PTL

\* Every reply under a live record is the recorded answer.
THEOREM OneAnswer == PushSpec => []OneAnswerPerRequest
<1>1. PushInvariant => OneAnswerPerRequest
  BY DEF PushInvariant, KeysHeld, OneAnswerPerRequest
<1> QED
  BY <1>1, PushCorrect, PTL

\* An acknowledged item is in the committed log, as the client wrote it.
THEOREM Acknowledged == PushSpec => []AcknowledgedIsCommitted
<1>1. PushInvariant => AcknowledgedIsCommitted
  BY DEF PushInvariant, AnswersHeld, Reported, Recorded, AcknowledgedIsCommitted
<1> QED
  BY <1>1, PushCorrect, PTL

\* A push that waited for the row while a restore ran does not land behind it.
THEOREM WithinGeneration == PushSpec => []NoPushCrossesARestore
<1>1. PushInvariant => NoPushCrossesARestore
  BY DEF PushInvariant, AppliedHeld, NoPushCrossesARestore
<1> QED
  BY <1>1, PushCorrect, PTL

\* A device that has not finished the bootstrap of a generation changes nothing in it.
THEOREM BootstrappedOnly == PushSpec => []OnlyBootstrappedDevicesWrite
<1>1. PushInvariant => OnlyBootstrappedDevicesWrite
  BY DEF PushInvariant, AppliedHeld, OnlyBootstrappedDevicesWrite
<1> QED
  BY <1>1, PushCorrect, PTL

\* With the store's own refinement: devices see one growing history, whatever is pushed.
THEOREM PushImplementsHistory == PushSpec => ImplementsHistory
<1> QED
  BY PushImplementsStore, StoreImplementsHistory

-----------------------------------------------------------------------------
(***************************************************************************)
(* The types.  Bootstraps are of generations that have begun, and payloads *)
(* are contents.                                                           *)
(***************************************************************************)
AroundTyped ==
    /\ completions \subseteq Devices \X (1 .. generation)
    /\ payloads \subseteq Contents

LEMMA AroundTypedStep ==
    ASSUME StoreInvariant, AroundTyped, [PushNext]_vars
    PROVE  AroundTyped'
<1>1. /\ generation \in Nat
      /\ completions \subseteq Devices \X (1 .. generation)
      /\ payloads \subseteq Contents
  BY DEF StoreInvariant, StoreTypeOK, AroundTyped
<1>2. CASE RestoreCommit
  <2>1. generation' = generation + 1 /\ UNCHANGED <<completions, payloads>>
    BY <1>2 DEF RestoreCommit, CommitRestore, Commit
  <2> QED
    BY <1>1, <2>1 DEF AroundTyped
<1>3. CASE UNCHANGED <<generation, began>>
  <2>1. CASE \E d \in Devices, g \in 1 .. generation : CompleteBootstrap(d, g)
    BY <1>1, <1>3, <2>1 DEF CompleteBootstrap, AroundTyped
  <2>2. CASE \E h \in Contents : RegisterPayload(h)
    BY <1>1, <1>3, <2>2 DEF RegisterPayload, AroundTyped
  <2>3. ASSUME UNCHANGED <<completions, payloads>> PROVE AroundTyped'
    BY <1>1, <1>3, <2>3 DEF AroundTyped
  <2>4. ASSUME NEW c \in Calls, PushStep(c) PROVE UNCHANGED <<completions, payloads>>
    BY <2>4 DEF PushStep, PushReplay, PushStart, PushRefuse, PushAdmit, PushSkipItem,
                PushApplyItem, PushCommit, PushAbort, ItemDone
  <2>5. ASSUME \/ \E s \in Slots : ExpireRecord(s)
               \/ RestoreStart \/ RestoreCommit \/ RestoreAbort
               \/ \E o \in Objects, b \in Bodies : RestoreItem(o, b)
               \/ ChangeStatus
               \/ UNCHANGED vars
        PROVE  UNCHANGED <<completions, payloads>>
    BY <2>5 DEF ExpireRecord, RestoreStart, RestoreCommit, RestoreAbort, RestoreItem,
                ChangeStatus, vars, pushVars
  <2> QED
    BY <2>1, <2>2, <2>3, <2>4, <2>5 DEF PushNext
<1> QED
  BY <1>2, <1>3, GenerationChanges

\* Calls, records, bootstraps and payloads keep their types, and the call that applies
\* items holds the project row.
THEOREM PushTypes == PushSpec => []PushTypeOK
<1>1. PushInit => AroundTyped
  BY DEF PushInit, AroundTyped
<1>2. PushInvariant /\ AroundTyped /\ [PushNext]_vars => AroundTyped'
  BY AroundTypedStep DEF PushInvariant
<1>3. PushInvariant /\ AroundTyped => PushTypeOK
  <2> SUFFICES ASSUME PushInvariant, AroundTyped PROVE PushTypeOK
    OBVIOUS
  <2>1. StoreTypeOK /\ CallsTyped /\ KeysHeld /\ Len(began) = generation
    BY DEF PushInvariant, StoreInvariant, BeganHeld
  <2>2. ASSUME NEW c \in Calls
        PROVE  CallTypeOK(call[c]) /\ (call[c].pc = "applying" <=> holder = c)
    <3>1. call[c] \in Rows
      BY <2>1 DEF CallsTyped
    <3>2. /\ call[c].pc \in {"idle", "waiting", "applying"}
          /\ call[c].todo \in Seq(Items)
          /\ call[c].results \in Seq(Outcomes)
      BY <3>1 DEF Rows
    <3> QED
      BY <2>1, <3>2 DEF CallsTyped, CallTypeOK
  <2>3. \A s \in Slots : idem[s] # None => idem[s] \in Records /\ SlotOf(idem[s].req) = s
    BY <2>1 DEF KeysHeld
  <2> QED
    BY <2>1, <2>2, <2>3 DEF PushTypeOK, AroundTyped
<1> QED
  BY <1>1, <1>2, <1>3, PushCorrect, PTL DEF PushSpec

-----------------------------------------------------------------------------
(***************************************************************************)
(* Atomicity.  What a call has in its transaction beyond the committed log *)
(* is what its results call applied, so the commit and the answer show the *)
(* same changes.                                                           *)
(***************************************************************************)
ChangeOf(req, i, outcome) ==
    [seq |-> outcome.seq, obj |-> req.items[i].obj, rev |-> req.items[i].base + 1,
     base |-> req.items[i].base, body |-> req.items[i].body]
ChangesOf(req, results) ==
    {ChangeOf(req, i, results[i]) : i \in {j \in DOMAIN results : results[j].status = "applied"}}

BatchIsAll ==
    \A c \in Calls : call[c].pc = "applying" =>
        work.log = store.log \cup ChangesOf(call[c].req, call[c].results)

LEMMA ChangesOfNone == \A req : ChangesOf(req, << >>) = {}
BY DEF ChangesOf

LEMMA ChangesOfAppend ==
    ASSUME NEW req, NEW results \in Seq(Outcomes), NEW result \in Outcomes
    PROVE  ChangesOf(req, Append(results, result)) =
               ChangesOf(req, results) \cup
                   {ChangeOf(req, i, result) :
                       i \in {j \in {Len(results) + 1} : result.status = "applied"}}
<1> DEFINE more == Append(results, result)
           Applied(rs) == {j \in DOMAIN rs : rs[j].status = "applied"}
           last == {j \in {Len(results) + 1} : result.status = "applied"}
<1>1. /\ DOMAIN more = DOMAIN results \cup {Len(results) + 1}
      /\ Len(results) + 1 \notin DOMAIN results
      /\ more[Len(results) + 1] = result
      /\ \A i \in DOMAIN results : more[i] = results[i]
  OBVIOUS
<1> HIDE DEF more
<1>2. Applied(more) = Applied(results) \cup last
  BY <1>1
<1>3. \A i \in Applied(results) : more[i] = results[i]
  BY <1>1
<1>4. \A i \in last : more[i] = result
  BY <1>1
<1> HIDE DEF Applied, last
<1>5. {ChangeOf(req, i, more[i]) : i \in Applied(more)} =
          {ChangeOf(req, i, results[i]) : i \in Applied(results)} \cup
              {ChangeOf(req, i, result) : i \in last}
  BY <1>2, <1>3, <1>4
<1> QED
  BY <1>5 DEF ChangesOf, Applied, last, more

LEMMA ItemIsAdded ==
    ASSUME StoreInvariant, CallsTyped, BatchHeld, BatchIsAll, NEW c \in Calls,
           PushSkipItem(c) \/ PushApplyItem(c)
    PROVE  work'.log = store'.log \cup ChangesOf(call'[c].req, call'[c].results)
<1> DEFINE req == call[c].req
           todo == call[c].todo
           results == call[c].results
<1>1. /\ call[c] \in Rows /\ call[c].pc = "applying" /\ todo # << >>
      /\ todo \in Seq(Items) /\ results \in Seq(Outcomes)
      /\ req \in Requests /\ req.items \in Seq(Items)
  BY RequestTyped DEF CallsTyped, Rows, PushSkipItem, PushApplyItem
<1>2. /\ Len(results) + Len(todo) = Len(req.items)
      /\ \A k \in 1 .. Len(todo) : todo[k] = req.items[Len(results) + k]
  BY <1>1 DEF BatchHeld, BatchOf
<1>3. work.seq \in Nat /\ work.log = store.log \cup ChangesOf(req, results) /\ store' = store
  BY <1>1 DEF StoreInvariant, StoreTypeOK, Stores, BatchIsAll, PushSkipItem, PushApplyItem,
              Revise, storeVars
<1>4. PICK result \in Outcomes :
          /\ ItemDone(c, result)
          /\ work'.log = work.log \cup {ChangeOf(req, i, result) :
                 i \in {j \in {Len(results) + 1} : result.status = "applied"}}
  <2>1. CASE PushSkipItem(c)
    <3> DEFINE result == [status |-> ItemOutcome(Head(todo)), seq |-> 0]
    <3>1. result \in Outcomes /\ result.status # "applied" /\ ItemDone(c, result)
             /\ work' = work
      BY <2>1 DEF PushSkipItem, ItemOutcome, Outcomes, storeVars
    <3> HIDE DEF result
    <3>2. {ChangeOf(req, i, result) :
               i \in {j \in {Len(results) + 1} : result.status = "applied"}} = {}
      BY <3>1
    <3> QED
      BY <3>1, <3>2
  <2>2. CASE PushApplyItem(c)
    <3> DEFINE item == Head(todo)
               result == [status |-> "applied", seq |-> work.seq + 1]
               e == [seq |-> work.seq + 1, obj |-> item.obj,
                     rev |-> work.heads[item.obj].rev + 1, base |-> item.base,
                     body |-> item.body]
    <3>1. /\ ItemDone(c, result)
          /\ item.base = work.heads[item.obj].rev
          /\ work' = Revised(work, item.obj, item.base, item.body)
      BY <2>2 DEF PushApplyItem, ItemOutcome, Revise
    <3>2. work'.log = work.log \cup {e}
      BY <3>1 DEF Revised
    <3>3. result \in Outcomes /\ result.status = "applied"
      BY <1>3 DEF Outcomes
    <3>4. item = req.items[Len(results) + 1]
      BY <1>1, <1>2, <1>3, <3>3, ItemMovesOn
    <3>5. e = ChangeOf(req, Len(results) + 1, result)
      BY <3>1, <3>4 DEF ChangeOf
    <3> HIDE DEF e, result
    <3>6. {ChangeOf(req, i, result) :
               i \in {j \in {Len(results) + 1} : result.status = "applied"}} = {e}
      BY <3>3, <3>5
    <3> QED
      BY <3>1, <3>2, <3>3, <3>6
  <2> QED
    BY <2>1, <2>2
<1> DEFINE row == [call[c] EXCEPT !.todo = Tail(@), !.results = Append(@, result)]
<1>5. row.req = req /\ row.results = Append(results, result)
  BY <1>1 DEF Rows
<1>6. call'[c] = row
  BY <1>4 DEF ItemDone, CallsTyped
<1>7. /\ call'[c].req = req
      /\ call'[c].results = Append(results, result)
  BY <1>5, <1>6
<1> HIDE DEF row, req, results
<1>8. ChangesOf(req, Append(results, result)) =
          ChangesOf(req, results) \cup
              {ChangeOf(req, i, result) :
                  i \in {j \in {Len(results) + 1} : result.status = "applied"}}
  BY <1>1, <1>4, ChangesOfAppend
<1> QED
  BY <1>3, <1>4, <1>7, <1>8

LEMMA BatchIsAllStep ==
    ASSUME StoreInvariant, CallsTyped, BatchHeld, BatchIsAll, [PushNext]_vars
    PROVE  BatchIsAll'
<1> SUFFICES ASSUME NEW c \in Calls, call'[c].pc = "applying"
             PROVE  work'.log = store'.log \cup ChangesOf(call'[c].req, call'[c].results)
  BY DEF BatchIsAll
<1>1. CASE ~PushStep(c)
  <2>1. call'[c] = call[c]
    BY <1>1, OthersLeaveTheCall
  <2>2. UNCHANGED <<store, work>>
    BY <1>1, <2>1, RowIsHeld
  <2> QED
    BY <2>1, <2>2 DEF BatchIsAll
<1>2. CASE PushStep(c)
  <2>1. call[c] \in Rows
    BY DEF CallsTyped
  <2>2. CASE PushAdmit(c)
    <3> DEFINE row == [call[c] EXCEPT !.pc = "applying"]
    <3>1. /\ call[c].pc = "waiting" /\ call'[c] = row /\ work' = store /\ store' = store
      BY <2>2 DEF PushAdmit, LockProject, CallsTyped
    <3>2. row.results = call[c].results /\ row.req = call[c].req
      BY <2>1 DEF Rows
    <3>3. Len(call[c].results) = 0
      BY <3>1 DEF BatchHeld, BatchOf
    <3>4. call[c].results = << >>
      BY <2>1, <3>3 DEF Rows
    <3> QED
      BY <3>1, <3>2, <3>4, ChangesOfNone
  <2>3. CASE PushSkipItem(c) \/ PushApplyItem(c)
    BY <2>3, ItemIsAdded
  <2>4. ASSUME \/ \E req \in Requests : PushReplay(c, req) \/ PushStart(c, req)
               \/ PushRefuse(c) \/ PushCommit(c) \/ PushAbort(c)
        PROVE  FALSE
    BY <2>4 DEF PushReplay, PushStart, PushRefuse, PushCommit, PushAbort, CallsTyped, Idle
  <2> QED
    BY <1>2, <2>2, <2>3, <2>4 DEF PushStep
<1> QED
  BY <1>1, <1>2

-----------------------------------------------------------------------------
(***************************************************************************)
(* Every step of the protocol decides a request, repeats a decision,       *)
(* forgets one, is a restore's commit, or cannot be noticed.               *)
(***************************************************************************)
LEMMA SlotsAgree == \A req : Decision!Slot(req) = SlotOf(req)
BY DEF Decision!Slot, SlotOf

\* What has to be shown of a step that stores an answer.
LEMMA StoredIsDecided ==
    ASSUME CallsTyped, KeysHeld, NEW c \in Calls, call[c].pc # "idle",
           NEW response \in Responses, StoreAnswer(call[c].req, response),
           UNCHANGED generation,
           \/ response.code = "OK" /\ Len(response.results) = Len(call[c].req.items)
                                   /\ call[c].req.gen = generation
           \/ response.code # "OK" /\ response.results = << >>,
           store'.log = store.log \cup ChangesOf(call[c].req, response.results),
           \A e \in ChangesOf(call[c].req, response.results), d \in store.log :
               d.seq < e.seq /\ (d.obj = e.obj => d.rev <= e.base)
    PROVE  Decision!Decide(SlotOf(call[c].req))
<1> DEFINE req == call[c].req
           slot == SlotOf(req)
           entry == [req |-> req, response |-> response]
<1>1. /\ req \in Requests /\ slot \in Slots
      /\ entry \in Records /\ entry # None
      /\ entry.req = req /\ entry.response = response
  BY RequestTyped, PushAssumption DEF CallsTyped, Records
<1>2. /\ idem' = [idem EXCEPT ![slot] = entry]
      /\ answers' = answers \cup {entry}
  BY DEF StoreAnswer, Answer
<1>3. idem[slot] = None /\ idem'[slot] = entry
  BY <1>1, <1>2 DEF KeysHeld
<1> HIDE DEF entry
<1>4. Decision!Effects(entry) = ChangesOf(req, response.results)
  BY <1>1 DEF Decision!Effects, ChangesOf, ChangeOf
<1>5. Decision!Complete(entry)
  BY <1>1 DEF Decision!Complete
<1>6. Decision!Slot(entry.req) = slot
  BY <1>1, SlotsAgree
<1> HIDE DEF slot
<1> QED
  BY <1>1, <1>2, <1>3, <1>4, <1>5, <1>6 DEF Decision!Decide, slot

LEMMA RefusalDecides ==
    ASSUME CallsTyped, KeysHeld, NEW c \in Calls, PushRefuse(c)
    PROVE  Decision!Decide(SlotOf(call[c].req))
<1> DEFINE response == Refused(Refusal(call[c].req))
<1>1. response \in Responses /\ response.code # "OK" /\ response.results = << >>
  BY DEF PushRefuse, Refused, Refusal, Responses, Codes
<1>2. /\ call[c].pc # "idle" /\ StoreAnswer(call[c].req, response)
      /\ store' = store /\ generation' = generation
  BY DEF PushRefuse, storeVars
<1>3. ChangesOf(call[c].req, response.results) = {}
  BY <1>1, ChangesOfNone
<1> QED
  BY <1>1, <1>2, <1>3, StoredIsDecided

LEMMA CommitDecides ==
    ASSUME PushInvariant, StoreInvariant', BatchIsAll, NEW c \in Calls, PushCommit(c)
    PROVE  Decision!Decide(SlotOf(call[c].req))
<1> DEFINE req == call[c].req
           results == call[c].results
           response == [code |-> "OK", gen |-> generation, results |-> results]
<1>1. /\ StoreInvariant /\ CallsTyped /\ KeysHeld /\ BatchHeld
      /\ generation \in Nat /\ call[c] \in Rows
  BY DEF PushInvariant, CallsTyped, StoreInvariant, StoreTypeOK
<1>2. /\ call[c].pc = "applying" /\ call[c].todo = << >> /\ store' = work
      /\ StoreAnswer(req, response) /\ generation' = generation
  BY DEF PushCommit, CommitWrites, Commit
<1>3. response \in Responses
  BY <1>1 DEF Rows, Responses, Codes
<1>4. /\ req.gen = generation /\ results \in Seq(Outcomes)
      /\ \A i \in DOMAIN results : results[i].status = "applied" =>
             store.seq < results[i].seq
  BY <1>1, CommitReports
<1>5. Len(results) = Len(req.items)
  <2>1. Len(results) + Len(call[c].todo) = Len(req.items)
    BY <1>1, <1>2 DEF BatchHeld, BatchOf
  <2> QED
    BY <1>2, <1>4, <2>1
<1>6. store'.log = store.log \cup ChangesOf(req, results)
  BY <1>2 DEF BatchIsAll
<1>7. ASSUME NEW e \in ChangesOf(req, results), NEW d \in store.log
      PROVE  d.seq < e.seq /\ (d.obj = e.obj => d.rev <= e.base)
  <2>1. d \in store'.log /\ e \in store'.log
    BY <1>6
  <2>2. /\ d.seq \in Nat /\ e.seq \in Nat /\ d.rev \in Nat /\ e.rev \in Nat
        /\ e.base = e.rev - 1
        /\ d.obj = e.obj => (d.seq < e.seq <=> d.rev < e.rev)
    BY <2>1 DEF StoreInvariant, StoreTypeOK, Stores, Changes, Sound, Chained
  <2>3. store.seq < e.seq
    BY <1>4 DEF ChangesOf, ChangeOf
  <2>4. store.seq \in Nat /\ d.seq <= store.seq
    BY <1>1 DEF StoreInvariant, StoreTypeOK, Stores, Sound, Gapless
  <2> QED
    BY <2>2, <2>3, <2>4
<1> HIDE DEF results
<1> QED
  BY <1>1, <1>2, <1>3, <1>4, <1>5, <1>6, <1>7, StoredIsDecided

LEMMA ReplayReplies ==
    ASSUME NEW c \in Calls, NEW req \in Requests, PushReplay(c, req)
    PROVE  Decision!Reply(SlotOf(req), req)
BY SlotsAgree DEF PushReplay, Answer, Decision!Reply, storeVars

LEMMA ExpiryForgets ==
    ASSUME NEW s \in Slots, ExpireRecord(s)
    PROVE  Decision!Forget(s)
BY SlotsAgree DEF ExpireRecord, Decision!Forget, storeVars

LEMMA RestoreCommitRestores ==
    ASSUME Extends(work, store), RestoreCommit
    PROVE  Decision!Restore
BY DEF RestoreCommit, CommitRestore, Commit, Extends, Decision!Restore

LEMMA StepDecides ==
    ASSUME PushInvariant, StoreInvariant', BatchIsAll, [PushNext]_vars
    PROVE  [Decision!Next]_<<idem, answers, store.log, generation>>
<1>1. CallsTyped /\ KeysHeld /\ Extends(work, store)
  BY DEF PushInvariant
<1>2. ASSUME NEW c \in Calls, PushStep(c)
      PROVE  [Decision!Next]_<<idem, answers, store.log, generation>>
  <2>1. call[c].pc # "idle" => SlotOf(call[c].req) \in Slots
    BY <1>1, RequestTyped DEF CallsTyped
  <2>2. CASE PushRefuse(c)
    BY <1>1, <2>1, <2>2, RefusalDecides DEF PushRefuse, Decision!Next
  <2>3. CASE PushCommit(c)
    BY <2>1, <2>3, CommitDecides DEF PushCommit, Decision!Next
  <2>4. ASSUME NEW req \in Requests, PushReplay(c, req)
        PROVE  Decision!Next
    BY <2>4, ReplayReplies, RequestTyped DEF Decision!Next
  <2>5. ASSUME \/ \E req \in Requests : PushStart(c, req)
               \/ PushAdmit(c) \/ PushSkipItem(c) \/ PushApplyItem(c) \/ PushAbort(c)
        PROVE  UNCHANGED <<idem, answers, store, generation>>
    BY <2>5 DEF PushStart, PushAdmit, PushSkipItem, PushApplyItem, PushAbort, ItemDone,
                LockProject, Revise, Rollback, storeVars
  <2> QED
    BY <1>2, <2>2, <2>3, <2>4, <2>5 DEF PushStep
<1>3. CASE \E s \in Slots : ExpireRecord(s)
  BY <1>3, ExpiryForgets DEF Decision!Next
<1>4. CASE RestoreCommit
  BY <1>1, <1>4, RestoreCommitRestores DEF Decision!Next
<1>5. ASSUME \/ \E d \in Devices, g \in 1 .. generation : CompleteBootstrap(d, g)
             \/ \E h \in Contents : RegisterPayload(h)
             \/ RestoreStart \/ RestoreAbort
             \/ \E o \in Objects, b \in Bodies : RestoreItem(o, b)
             \/ ChangeStatus
             \/ UNCHANGED vars
      PROVE  UNCHANGED <<idem, answers, store, generation>>
  BY <1>5 DEF CompleteBootstrap, RegisterPayload, RestoreStart, RestoreAbort,
              RestoreItem, ChangeStatus, EnterMaintenance, LeaveMaintenance, DisableProject,
              StartPurge, MoveTo, LockProject, Revise, Rollback, vars, pushVars, storeVars
<1> QED
  BY <1>2, <1>3, <1>4, <1>5 DEF PushNext

(***************************************************************************)
(* Whatever calls run at once, wait, repeat, abort or are answered late, a *)
(* request is decided at one moment: its answer, and what it applied, are  *)
(* there together or not at all.                                           *)
(***************************************************************************)
THEOREM PushImplementsDecision == PushSpec => PushesAreAtomic
<1>1. PushInit => BatchIsAll /\ Decision!Init
  BY DEF PushInit, StoreInit, EmptyStore, Idle, BatchIsAll, Decision!Init
<1>2. PushInvariant /\ BatchIsAll /\ [PushNext]_vars => BatchIsAll'
  BY BatchIsAllStep DEF PushInvariant
<1>3. PushInvariant /\ PushInvariant' /\ BatchIsAll /\ [PushNext]_vars
        => [Decision!Next]_<<idem, answers, store.log, generation>>
  <2>1. PushInvariant' => StoreInvariant'
    BY DEF PushInvariant
  <2> QED
    BY <2>1, StepDecides
<1> QED
  BY <1>1, <1>2, <1>3, PushCorrect, PTL DEF PushSpec, PushesAreAtomic, Decision!Spec
=============================================================================

---------------------------- MODULE PushProtocol ----------------------------
(***************************************************************************)
(* POST .../sync/push: several API calls run `push_with_outcome` at once,  *)
(* each one PostgreSQL transaction.  A call                                *)
(*   - takes the advisory lock of (device, request key) and looks the key  *)
(*     up in `idempotency_records`,                                        *)
(*   - waits for the project row, then re-reads status and generation,     *)
(*     and asks `bootstrap_completions` whether the device has seen the    *)
(*     generation,                                                         *)
(*   - works through the items one by one: compare-and-set on the head,    *)
(*     payload look-up, append,                                            *)
(*   - commits the appended revisions and the stored answer together.      *)
(* A client that does not hear an answer sends the same key again, also    *)
(* while the first call is still running.  Restores, status changes,       *)
(* uploads and the expiry of records go on around it.                      *)
(***************************************************************************)
EXTENDS ProjectStore

CONSTANTS
    Calls,          \* API calls in flight, each with a database connection
    Restorer,       \* the worker connection that executes restores
    Devices,
    Keys,           \* client-chosen request ids
    Batches,        \* item lists a client may push: sequences of Items
    None            \* no record, no request

Items == [obj: Objects, base: Nat, body: Bodies]
\* What a client sends; two requests have the same hash iff they are equal.
Requests == [dev: Devices, key: Keys, gen: 1 .. MaxGeneration, items: Batches]

\* What became of an item; the answer to a request; a row of idempotency_records.
Outcomes == [status: {"applied", "conflict", "rejected"}, seq: Nat]
Codes == {"OK", "IDEMPOTENCY_CONFLICT", "PROJECT_MAINTENANCE", "GENERATION_MISMATCH",
          "BOOTSTRAP_REQUIRED"}
Responses == [code: Codes, gen: Nat, results: Seq(Outcomes)]
Records == [req: Requests, response: Responses]

ASSUME PushAssumption ==
    /\ Writers = Calls \cup {Restorer}
    /\ Restorer \notin Calls
    /\ Batches \subseteq Seq(Items)
    /\ None \notin Requests \cup Records

VARIABLES
    call,           \* what each API call is doing
    idem,           \* idempotency_records of the project
    completions,    \* bootstrap_completions: <<device, generation>>
    payloads,       \* registered rows of payloads (by content hash)
    answers,        \* history: the answers given for the live records
    applied,        \* history: which request made which change
    began           \* history: change_seq when each generation began

pushVars == <<call, idem, completions, payloads, answers, applied, began>>
vars == <<storeVars, pushVars>>

Slots == Devices \X Keys
SlotOf(req) == <<req.dev, req.key>>

Idle == [pc |-> "idle", req |-> None, todo |-> << >>, results |-> << >>]

PushInit ==
    /\ StoreInit
    /\ call = [c \in Calls |-> Idle]
    /\ idem = [s \in Slots |-> None]
    /\ completions = {}
    /\ payloads = {}
    /\ answers = {}
    /\ applied = {}
    /\ began = <<0>>

(***************************************************************************)
(* The advisory lock and the look-up of the key.                           *)
(***************************************************************************)
KeyIsLocked(slot) == \E c \in Calls : call[c].pc # "idle" /\ SlotOf(call[c].req) = slot

Refused(code) == [code |-> code, gen |-> 0, results |-> << >>]
Answer(req, response) == answers' = answers \cup {[req |-> req, response |-> response]}

PushReplay(c, req) ==
    /\ call[c].pc = "idle"
    /\ ~KeyIsLocked(SlotOf(req))
    /\ idem[SlotOf(req)] # None
    /\ Answer(req, IF idem[SlotOf(req)].req = req
                   THEN idem[SlotOf(req)].response
                   ELSE Refused("IDEMPOTENCY_CONFLICT"))
    /\ UNCHANGED <<storeVars, call, idem, completions, payloads, applied, began>>

PushStart(c, req) ==
    /\ call[c].pc = "idle"
    /\ ~KeyIsLocked(SlotOf(req))
    /\ idem[SlotOf(req)] = None
    /\ call' = [call EXCEPT ![c] = [pc |-> "waiting", req |-> req,
                                    todo |-> req.items, results |-> << >>]]
    /\ UNCHANGED <<storeVars, idem, completions, payloads, answers, applied, began>>

\* Mutant: the request's generation is not compared.
RefusalOfAnyGeneration(req) ==
    IF status # "active" THEN "PROJECT_MAINTENANCE"
    ELSE IF <<req.dev, generation>> \notin completions THEN "BOOTSTRAP_REQUIRED"
    ELSE "none"

\* Mutant: a bootstrap of any generation will do.
RefusalOnceBootstrapped(req) ==
    IF status # "active" THEN "PROJECT_MAINTENANCE"
    ELSE IF req.gen # generation THEN "GENERATION_MISMATCH"
    ELSE IF \A g \in 1 .. generation : <<req.dev, g>> \notin completions
         THEN "BOOTSTRAP_REQUIRED"
    ELSE "none"

(***************************************************************************)
(* The project row is ours: the request-level guards, in the order of the  *)
(* code.  A refusal is stored under the key and committed.                 *)
(***************************************************************************)
Refusal(req) ==
    IF status # "active" THEN "PROJECT_MAINTENANCE"
    ELSE IF req.gen # generation THEN "GENERATION_MISMATCH"
    ELSE IF <<req.dev, generation>> \notin completions THEN "BOOTSTRAP_REQUIRED"
    ELSE "none"

\* Mutant: only successes are remembered.
StoreAnswerOfSuccess(req, response) ==
    /\ idem' = IF response.code = "OK"
               THEN [idem EXCEPT ![SlotOf(req)] = [req |-> req, response |-> response]]
               ELSE idem
    /\ Answer(req, response)

StoreAnswer(req, response) ==
    /\ idem' = [idem EXCEPT ![SlotOf(req)] = [req |-> req, response |-> response]]
    /\ Answer(req, response)

PushRefuse(c) ==
    /\ call[c].pc = "waiting"
    /\ holder = Nobody
    /\ Refusal(call[c].req) # "none"
    /\ StoreAnswer(call[c].req, Refused(Refusal(call[c].req)))
    /\ call' = [call EXCEPT ![c] = Idle]
    /\ UNCHANGED <<storeVars, completions, payloads, applied, began>>

PushAdmit(c) ==
    /\ call[c].pc = "waiting"
    /\ Refusal(call[c].req) = "none"
    /\ LockProject(c)
    /\ call' = [call EXCEPT ![c].pc = "applying"]
    /\ UNCHANGED <<idem, completions, payloads, answers, applied, began>>

\* Mutant: the last writer wins, no compare-and-set.
ItemOutcomeLastWriterWins(item) ==
    IF item.body # Tombstone /\ item.body \notin payloads THEN "rejected" ELSE "applied"

(***************************************************************************)
(* One item: a conflict or a rejection is a result of its own and does not *)
(* stop the batch.                                                         *)
(***************************************************************************)
ItemOutcome(item) ==
    IF item.base # work.heads[item.obj].rev THEN "conflict"
    ELSE IF item.body # Tombstone /\ item.body \notin payloads THEN "rejected"
    ELSE "applied"

ItemDone(c, result) ==
    /\ call' = [call EXCEPT ![c].todo = Tail(@), ![c].results = Append(@, result)]
    /\ UNCHANGED <<idem, completions, payloads, answers, applied, began>>

PushSkipItem(c) ==
    /\ call[c].pc = "applying"
    /\ call[c].todo # << >>
    /\ LET item == Head(call[c].todo) IN
        /\ ItemOutcome(item) # "applied"
        /\ ItemDone(c, [status |-> ItemOutcome(item), seq |-> 0])
    /\ UNCHANGED storeVars

PushApplyItem(c) ==
    /\ call[c].pc = "applying"
    /\ call[c].todo # << >>
    /\ LET item == Head(call[c].todo) IN
        /\ ItemOutcome(item) = "applied"
        /\ Revise(c, item.obj, item.base, item.body)
        /\ ItemDone(c, [status |-> "applied", seq |-> work.seq + 1])

(***************************************************************************)
(* The appended revisions and the answer become visible in one commit.     *)
(***************************************************************************)
AppliedBy(c) ==
    {[req |-> call[c].req, pos |-> i, seq |-> call[c].results[i].seq] :
        i \in {j \in DOMAIN call[c].results : call[c].results[j].status = "applied"}}

\* Mutant: the answer is stored by a transaction of its own, the revisions may be lost.
PushCommitApart(c) ==
    /\ call[c].pc = "applying"
    /\ call[c].todo = << >>
    /\ CommitWrites(c) \/ Rollback(c)
    /\ StoreAnswer(call[c].req,
                   [code |-> "OK", gen |-> generation, results |-> call[c].results])
    /\ applied' = applied \cup AppliedBy(c)
    /\ call' = [call EXCEPT ![c] = Idle]
    /\ UNCHANGED <<completions, payloads, began>>

PushCommit(c) ==
    /\ call[c].pc = "applying"
    /\ call[c].todo = << >>
    /\ CommitWrites(c)
    /\ StoreAnswer(call[c].req,
                   [code |-> "OK", gen |-> generation, results |-> call[c].results])
    /\ applied' = applied \cup AppliedBy(c)
    /\ call' = [call EXCEPT ![c] = Idle]
    /\ UNCHANGED <<completions, payloads, began>>

\* Mutant: an error return leaves the transaction open.
PushAbortLeaking(c) ==
    /\ call[c].pc \in {"waiting", "applying"}
    /\ call' = [call EXCEPT ![c] = Idle]
    /\ UNCHANGED <<storeVars, idem, completions, payloads, answers, applied, began>>

\* A database error or a dropped connection, at any point of the transaction.
PushAbort(c) ==
    /\ \/ call[c].pc = "waiting" /\ UNCHANGED storeVars
       \/ call[c].pc = "applying" /\ Rollback(c)
    /\ call' = [call EXCEPT ![c] = Idle]
    /\ UNCHANGED <<idem, completions, payloads, answers, applied, began>>

(***************************************************************************)
(* What goes on around the calls.                                          *)
(***************************************************************************)
\* The 30 days are over: to a call with the key the row is none, and it deletes it.
ExpireRecord(slot) ==
    /\ idem[slot] # None
    /\ idem' = [idem EXCEPT ![slot] = None]
    /\ answers' = {a \in answers : SlotOf(a.req) # slot}
    /\ UNCHANGED <<storeVars, call, completions, payloads, applied, began>>

\* The last bootstrap page; its transaction may have read the generation before a restore.
CompleteBootstrap(d, g) ==
    /\ holder = Nobody
    /\ g \in 1 .. generation
    /\ completions' = completions \cup {<<d, g>>}
    /\ UNCHANGED <<storeVars, call, idem, payloads, answers, applied, began>>

RegisterPayload(h) ==
    /\ status = "active"
    /\ holder = Nobody
    /\ payloads' = payloads \cup {h}
    /\ UNCHANGED <<storeVars, call, idem, completions, answers, applied, began>>

\* A worker executes a restore: it appends what it likes and starts a generation.
RestoreStart ==
    /\ status = "maintenance"
    /\ LockProject(Restorer)
    /\ UNCHANGED pushVars
RestoreItem(o, body) ==
    /\ body \in payloads \cup {Tombstone}
    /\ Revise(Restorer, o, work.heads[o].rev, body)
    /\ UNCHANGED pushVars
RestoreCommit ==
    /\ CommitRestore(Restorer)
    /\ began' = Append(began, work.seq)
    /\ UNCHANGED <<call, idem, completions, payloads, answers, applied>>
RestoreAbort == Rollback(Restorer) /\ UNCHANGED pushVars

ChangeStatus ==
    /\ \/ EnterMaintenance
       \/ LeaveMaintenance
       \/ DisableProject
       \/ StartPurge
    /\ UNCHANGED pushVars

PushStep(c) ==
    \/ \E req \in Requests : req.gen <= generation /\ (PushReplay(c, req) \/ PushStart(c, req))
    \/ PushRefuse(c)
    \/ PushAdmit(c)
    \/ PushSkipItem(c)
    \/ PushApplyItem(c)
    \/ PushCommit(c)
    \/ PushAbort(c)

PushNext ==
    \/ \E c \in Calls : PushStep(c)
    \/ \E s \in Slots : ExpireRecord(s)
    \/ \E d \in Devices, g \in 1 .. generation : CompleteBootstrap(d, g)
    \/ \E h \in Contents : RegisterPayload(h)
    \/ RestoreStart
    \/ \E o \in Objects, b \in Bodies : RestoreItem(o, b)
    \/ RestoreCommit
    \/ RestoreAbort
    \/ ChangeStatus

PushSpec == PushInit /\ [][PushNext]_vars

-----------------------------------------------------------------------------
(* Properties. *)

CallTypeOK(cl) ==
    /\ cl.pc \in {"idle", "waiting", "applying"}
    /\ cl.todo \in Seq(Items)
    /\ cl.results \in Seq(Outcomes)
    /\ cl.pc = "idle" => cl = Idle
    /\ cl.pc # "idle" => cl.req \in Requests

\* Every variable has its type, and the call that applies items holds the project row.
PushTypeOK ==
    /\ StoreTypeOK
    /\ \A c \in Calls : CallTypeOK(call[c]) /\ (call[c].pc = "applying" <=> holder = c)
    /\ \A s \in Slots : idem[s] # None => idem[s] \in Records /\ SlotOf(idem[s].req) = s
    /\ completions \subseteq Devices \X (1 .. generation)
    /\ payloads \subseteq Contents
    /\ Len(began) = generation

(***************************************************************************)
(* However often a client repeats a request, concurrently or later, even   *)
(* after its record has expired, an item of it is applied at most once:    *)
(* the record answers the repeats it still knows, and the compare-and-set  *)
(* turns the others into conflicts.                                        *)
(***************************************************************************)
AppliedAtMostOnce ==
    \A a, b \in applied : a.req = b.req /\ a.pos = b.pos => a.seq = b.seq

(***************************************************************************)
(* As long as its record lives, a request has one answer, whichever call   *)
(* gives it and whatever happened to the project in between.               *)
(***************************************************************************)
OneAnswerPerRequest ==
    \A a, b \in answers : a.req = b.req => a.response = b.response

(***************************************************************************)
(* What a client is told was applied is in the committed log, as its item  *)
(* said, and one revision above the base the client had seen.              *)
(***************************************************************************)
AcknowledgedIsCommitted ==
    \A a \in answers : \A i \in DOMAIN a.response.results :
        LET item == a.req.items[i]
            result == a.response.results[i]
        IN  result.status = "applied" =>
                \E c \in store.log : /\ c.seq = result.seq
                                     /\ c.obj = item.obj
                                     /\ c.body = item.body
                                     /\ c.rev = item.base + 1

(***************************************************************************)
(* A push made for one generation never lands behind a restore, although   *)
(* it may wait for the project row while the restore runs: its changes lie *)
(* between the beginning of its generation and that of the next one.       *)
(***************************************************************************)
NoPushCrossesARestore ==
    \A a \in applied :
        /\ began[a.req.gen] < a.seq
        /\ a.req.gen < generation => a.seq <= began[a.req.gen + 1]

(***************************************************************************)
(* Only a device that finished the bootstrap of a generation writes in it. *)
(***************************************************************************)
OnlyBootstrappedDevicesWrite ==
    \A a \in applied : <<a.req.dev, a.req.gen>> \in completions

(***************************************************************************)
(* All of it together implements AtomicPush: whatever calls run at once,   *)
(* wait, repeat, abort or are answered late, a request is decided at one   *)
(* moment, and the log holds what its answer calls applied and no more.    *)
(***************************************************************************)
Decision == INSTANCE AtomicPush WITH
    KeyTaken <- Refused("IDEMPOTENCY_CONFLICT"),
    record <- idem,
    heard <- answers,
    log <- store.log
PushesAreAtomic == Decision!Spec
=============================================================================

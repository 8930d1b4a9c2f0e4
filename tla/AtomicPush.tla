----------------------------- MODULE AtomicPush ------------------------------
(***************************************************************************)
(* What a push promises to the device that sends it: the request is        *)
(* decided at one moment.  Its answer and the changes that the answer      *)
(* calls applied appear together, those and no others, and each change     *)
(* stands on all that was committed to its object before.  From then on    *)
(* everybody who asks under the key is told what was decided, until the    *)
(* answer is forgotten.  There are no calls, locks, transactions and       *)
(* aborted attempts here: nobody may notice them.                          *)
(***************************************************************************)
EXTENDS Integers, Sequences

CONSTANTS
    Requests, Responses,
    Slots,      \* a device and a key of its choice
    KeyTaken,   \* the answer to another request under a key in use
    None

VARIABLES
    record,     \* the answer decided in each slot, with its request
    heard,      \* what has been answered under the live records
    log,        \* the committed changes
    generation

Slot(req) == <<req.dev, req.key>>

Init ==
    /\ record = [s \in Slots |-> None]
    /\ heard = {}
    /\ log = {}
    /\ generation = 1

\* The changes that an answer calls applied.
Effects(entry) ==
    LET items == entry.req.items
        results == entry.response.results
    IN  {[seq |-> results[i].seq, obj |-> items[i].obj, rev |-> items[i].base + 1,
          base |-> items[i].base, body |-> items[i].body] :
            i \in {j \in DOMAIN results : results[j].status = "applied"}}

Complete(entry) ==
    \/ entry.response.code = "OK" /\ Len(entry.response.results) = Len(entry.req.items)
                                  /\ entry.req.gen = generation
    \/ entry.response.code # "OK" /\ entry.response.results = << >>

\* The entry is whatever the next state has in the slot: there is no need to choose it.
Decide(s) ==
    LET entry == record'[s] IN
    /\ record[s] = None /\ entry # None
    /\ record' = [record EXCEPT ![s] = entry]
    /\ entry.req \in Requests /\ Slot(entry.req) = s
    /\ entry.response \in Responses /\ Complete(entry)
    /\ heard' = heard \cup {entry}
    /\ log' = log \cup Effects(entry)
    /\ \A e \in Effects(entry), c \in log :
            c.seq < e.seq /\ (c.obj = e.obj => c.rev <= e.base)
    /\ UNCHANGED generation

Reply(s, req) ==
    /\ record[s] # None
    /\ Slot(req) = s
    /\ heard' = heard \cup {[req |-> req,
                             response |-> IF record[s].req = req THEN record[s].response
                                          ELSE KeyTaken]}
    /\ UNCHANGED <<record, log, generation>>

Forget(s) ==
    /\ record' = [record EXCEPT ![s] = None]
    /\ heard' = {entry \in heard : Slot(entry.req) # s}
    /\ UNCHANGED <<log, generation>>

\* A restore adds what it likes and begins a generation; it decides no request.
Restore ==
    /\ log \subseteq log'
    /\ generation' = generation + 1
    /\ UNCHANGED <<record, heard>>

Next ==
    \/ \E s \in Slots : Decide(s) \/ Forget(s) \/ \E req \in Requests : Reply(s, req)
    \/ Restore

Spec == Init /\ [][Next]_<<record, heard, log, generation>>
=============================================================================

---------------------------- MODULE AtomicRestore ----------------------------
(***************************************************************************)
(* What a restore promises to who asks for it: it happens at one moment,   *)
(* as a whole and at most once, or not at all.  That moment shows exactly  *)
(* the contents that were asked for, starts the next epoch and opens the   *)
(* project again; as long as the project is closed, what it shows does not *)
(* change otherwise.  There are no workers, leases, snapshots and retries  *)
(* here: nobody may notice them.                                           *)
(***************************************************************************)
EXTENDS Integers

CONSTANTS Requests, Objects, Contents

VARIABLES
    request,    \* of each request: its state, and the contents it asks for
    shown,      \* the contents of the project's living objects
    epoch,
    open        \* may clients write?

Item == [obj: Objects, body: Contents]

Pending(r) == request[r].state = "pending"

Init ==
    /\ request = [r \in Requests |-> [state |-> "none", wanted |-> {}]]
    /\ shown = {}
    /\ epoch = 1
    /\ open = TRUE

\* One request at a time, and of an open project; what it asks for is settled here.
Ask(r) ==
    /\ open
    /\ \A q \in Requests : ~Pending(q)
    /\ request[r].state = "none"
    /\ \E wanted \in SUBSET Item :
        request' = [request EXCEPT ![r] = [state |-> "pending", wanted |-> wanted]]
    /\ UNCHANGED <<shown, epoch, open>>

Write ==
    /\ open
    /\ shown' \in SUBSET Item
    /\ UNCHANGED <<request, epoch, open>>

Restore(r) ==
    /\ ~open
    /\ Pending(r)
    /\ request' = [request EXCEPT ![r].state = "restored"]
    /\ shown' = request[r].wanted
    /\ epoch' = epoch + 1
    /\ open' = TRUE

\* A request that fails or is cancelled leaves no trace, and may open the project.
Drop(r) ==
    /\ Pending(r)
    /\ request' = [request EXCEPT ![r].state = "dropped"]
    /\ open' \in {open, TRUE}
    /\ UNCHANGED <<shown, epoch>>

\* The project is closed or opened, or nobody notices anything.
Gate ==
    /\ UNCHANGED <<request, shown, epoch>>
    /\ open' \in BOOLEAN

Next ==
    \/ Gate
    \/ Write
    \/ \E r \in Requests : Ask(r) \/ Restore(r) \/ Drop(r)

Spec == Init /\ [][Next]_<<request, shown, epoch, open>>
=============================================================================

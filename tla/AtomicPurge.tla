---------------------------- MODULE AtomicPurge -----------------------------
(***************************************************************************)
(* What a purge promises to whoever asks for it.  From the moment it is    *)
(* accepted nothing is added to what it is to destroy; everything in the   *)
(* catalog that it covers disappears at one moment, with the projects, and *)
(* for a whole account only while the archive it rests on is there; when   *)
(* it is done no object that it covers is left.  There are no jobs,        *)
(* workers, leases, attempts and transactions here: nobody may notice      *)
(* them.                                                                   *)
(***************************************************************************)
CONSTANTS Projects, Hashes, Requests, None

VARIABLES
    request,    \* what was asked, of which projects, resting on which archive
    catalog,    \* the payloads that the service says it has
    closed,     \* the projects that are gone
    objects,    \* what is in the object store and was not left behind
    archives    \* the archives that a purge may rest on

pvars == <<request, catalog, closed, objects, archives>>

NoRequest == [state |-> "none", of |-> {}, archive |-> None]
Scope(row) ==
    (row.of \X Hashes) \cup (IF row.archive = None THEN {} ELSE {<<row.archive, None>>})
UnderWay(r) == request[r].state \in {"asked", "destroyed"}

Init ==
    /\ request = [r \in Requests |-> NoRequest]
    /\ catalog \in SUBSET (Projects \X Hashes)
    /\ closed = {}
    /\ objects = catalog
    /\ archives = {}

\* At every moment: the catalog is served, what is done is gone, and an archive is kept
\* while a purge that was asked for rests on it.
Kept ==
    /\ catalog \subseteq objects
    /\ \A r \in Requests : LET row == request[r] IN
        /\ row.state = "done" => objects \cap Scope(row) = {}
        /\ row.state = "asked" /\ row.archive # None => row.archive \in archives

\* Several may ask for the same project, but none after a whole account.
Ask(r, p) ==
    /\ request[r] = NoRequest
    /\ p \notin closed
    /\ \A q \in Requests : request[q].archive = None
    /\ request' = [request EXCEPT ![r] = [state |-> "asked", of |-> {p}, archive |-> None]]
    /\ UNCHANGED <<catalog, closed>>

AskAll(r, a) ==
    /\ request[r] = NoRequest
    /\ a \in archives
    /\ \A q \in Requests : ~UnderWay(q) /\ request[q].archive = None
    /\ request' = [request EXCEPT ![r] = [state |-> "asked", of |-> Projects, archive |-> a]]
    /\ UNCHANGED <<catalog, closed>>

Register(k) ==
    /\ k[1] \notin closed
    /\ \A r \in Requests : k[1] \notin request[r].of
    /\ catalog' = catalog \cup {k}
    /\ UNCHANGED <<request, closed>>

Destroy(r) ==
    /\ request[r].state = "asked"
    /\ \/ request[r].archive = None /\ request[r].of \cap closed = {}
       \/ request[r].archive \in archives
    /\ request' = [request EXCEPT ![r].state = "destroyed"]
    /\ catalog' = catalog \ Scope(request[r])
    /\ closed' = closed \cup request[r].of

Done(r) ==
    /\ request[r].state = "destroyed"
    /\ request' = [request EXCEPT ![r].state = "done"]
    /\ UNCHANGED <<catalog, closed>>

Fail(r) ==
    /\ UnderWay(r)
    /\ request' = [request EXCEPT ![r].state = "failed"]
    /\ UNCHANGED <<catalog, closed>>

\* Uploads, exports and purges write and delete objects all the time.
Storage == UNCHANGED <<request, catalog, closed>>

Next ==
    \/ Storage
    \/ \E r \in Requests : \/ \E p \in Projects : Ask(r, p)
                           \/ \E a \in Requests : AskAll(r, a)
                           \/ Destroy(r) \/ Done(r) \/ Fail(r)
    \/ \E k \in Projects \X Hashes : Register(k)

Spec == Init /\ [][Next]_pvars /\ []Kept
=============================================================================

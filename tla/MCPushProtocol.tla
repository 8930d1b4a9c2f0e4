--------------------------- MODULE MCPushProtocol ---------------------------
(* The batch of every push creates an object and deletes it again, so that   *)
(* its second item stands on its first (the API appends the tombstones of a  *)
(* request to its objects).  Two keys make two calls contend for the object. *)
EXTENDS PushProtocol, TLC

CONSTANTS o1, h1

Item(base, body) == [obj |-> o1, base |-> base, body |-> body]
PushedBatches == {<<Item(0, h1), Item(1, Tombstone)>>}

Symmetry == Permutations(Calls) \cup Permutations(Keys)
=============================================================================

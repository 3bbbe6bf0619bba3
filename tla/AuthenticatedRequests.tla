------------------------- MODULE AuthenticatedRequests -------------------------
(***************************************************************************)
(* What Web Bot Auth promises an origin: it admits a request, as made with *)
(* a key to an authority, only if the holder of that key made it and the   *)
(* origin trusts the key when it admits it.                                *)
(***************************************************************************)
CONSTANTS Key, Authority

VARIABLES
  made,      \* requests the holders of keys have made
  trusted,   \* keys the origin trusts now
  admitted   \* requests it has admitted

Request == [key : Key, authority : Authority]

Init == made = {} /\ trusted \subseteq Key /\ admitted = {}

Make == \E r \in Request : made' = made \cup {r} /\ UNCHANGED <<trusted, admitted>>

Trust == trusted' \subseteq Key /\ UNCHANGED <<made, admitted>>

Admit ==
  /\ \E r \in made : r.key \in trusted /\ admitted' = admitted \cup {r}
  /\ UNCHANGED <<made, trusted>>

Next == Make \/ Trust \/ Admit

Spec == Init /\ [][Next]_<<made, trusted, admitted>>
===============================================================================

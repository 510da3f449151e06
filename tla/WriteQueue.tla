----------------------------- MODULE WriteQueue -----------------------------
(***************************************************************************)
(* What the Firestore client promises about the writes of the users of one *)
(* device: each user's writes reach the server in the order they were made,*)
(* every one at least once, and are answered in that order, after the      *)
(* server has decided on them.                                             *)
(***************************************************************************)
EXTENDS Naturals, Sequences

CONSTANTS
  User,
  MaxWrites     \* bound: the writes a user may make, numbered from 1

VARIABLES
  pending,      \* per user: the writes not yet answered, in order
  outcome       \* per user and write: what the server last did with it

writeQueueVars == <<pending, outcome>>

Write == 1..MaxWrites

Outcome == {"none", "applied", "rejected"}

Init ==
  /\ pending = [u \in User |-> <<>>]
  /\ outcome = [u \in User |-> [w \in Write |-> "none"]]

(* User u makes the next write. *)
Make(u) ==
  \E w \in Write :
    /\ outcome[u][w] = "none"
    /\ \A i \in DOMAIN pending[u] : pending[u][i] < w
    /\ \A v \in 1..(w - 1) :
         outcome[u][v] # "none" \/ \E i \in DOMAIN pending[u] : pending[u][i] = v
    /\ pending' = [pending EXCEPT ![u] = Append(@, w)]
    /\ UNCHANGED outcome

(* The server decides on a pending write, perhaps once more, but on none   *)
(* before it has decided on all the earlier ones.                          *)
Decide(u) ==
  /\ \E i \in DOMAIN pending[u], o \in {"applied", "rejected"} :
       /\ \A j \in 1..(i - 1) : outcome[u][pending[u][j]] # "none"
       /\ outcome' = [outcome EXCEPT ![u][pending[u][i]] = o]
  /\ UNCHANGED pending

(* The oldest pending write is answered. *)
Answer(u) ==
  /\ pending[u] # <<>>
  /\ outcome[u][Head(pending[u])] # "none"
  /\ pending' = [pending EXCEPT ![u] = Tail(@)]
  /\ UNCHANGED outcome

Next == \E u \in User : Make(u) \/ Decide(u) \/ Answer(u)

Spec == Init /\ [][Next]_writeQueueVars
=============================================================================

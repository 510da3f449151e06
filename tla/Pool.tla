-------------------------------- MODULE Pool --------------------------------
(***************************************************************************)
(* The pool document and the pure operations on it (Pool.swift), and the   *)
(* field writes that FirebaseInterface.swift makes on it.                  *)
(*                                                                         *)
(* A member, a team and their identifiers are one value each.  A pool is a *)
(* record with the fields of the Swift structure, less its id and name.    *)
(* Two fields are history, which the code neither stores nor reads:        *)
(*   deal   how many times addMember has dealt the draft order,            *)
(*   mixed  whether a pick of this deal was confirmed by a user who was    *)
(*          still looking at an earlier deal.                              *)
(***************************************************************************)
EXTENDS Naturals, FiniteSets

CONSTANTS
  Member,            \* everyone who can sign in
  Team,              \* Team.Id.allCases
  NoTeam,            \* a nil teamId
  NumPicks,          \* 30 in the code: one pick for each team
  sizeToDraftOrder   \* for each pool size, the seat that picks at each number

ASSUME PoolAssumption ==
  /\ NumPicks \in Nat \ {0, 1}
  /\ IsFiniteSet(Team) /\ Cardinality(Team) = NumPicks
  /\ NoTeam \notin Team
  /\ IsFiniteSet(Member)
  /\ \A s \in DOMAIN sizeToDraftOrder :
       s \in Nat \ {0, 1} /\ sizeToDraftOrder[s] \in [1..NumPicks -> 1..s]

Size == DOMAIN sizeToDraftOrder
PickNumber == 1..NumPicks
Pick == [member : Member, teamId : Team \cup {NoTeam}, didNotifyMember : BOOLEAN]
noPicks == [n \in {} |-> NoTeam]

PoolDocument ==
  [size : Size, idToMember : SUBSET Member,
   numberToPick : [PickNumber -> Pick] \cup {noPicks},
   deal : Nat, mixed : BOOLEAN]

(* Pool.init with the creator as the only member. *)
newPool(s, creator) ==
  [size |-> s, idToMember |-> {creator}, numberToPick |-> noPicks,
   deal |-> 0, mixed |-> FALSE]

isFull(p) == Cardinality(p.idToMember) = p.size

(* The numbers whose team is still nil, and those already drafted. *)
openPicks(p) == {n \in DOMAIN p.numberToPick : p.numberToPick[n].teamId = NoTeam}
madePicks(p) == DOMAIN p.numberToPick \ openPicks(p)

(* Mutant: the scan does not sort the picks first. *)
isCurrentPick_unsorted(p, n) == n \in openPicks(p)

(* n is the number of currentPick: the first pick without a team. *)
isCurrentPick(p, n) ==
  /\ n \in openPicks(p)
  /\ \A k \in openPicks(p) : n <= k

(* Mutant: any pick of the member will do. *)
isTurnOf_anyPick(p, m, n) ==
  n \in DOMAIN p.numberToPick /\ p.numberToPick[n].member = m

(* It is m's turn, at number n. *)
isTurnOf(p, m, n) == isCurrentPick(p, n) /\ p.numberToPick[n].member = m

isComplete(p) ==
  /\ DOMAIN p.numberToPick # {}
  /\ p.numberToPick[NumPicks].teamId # NoTeam

teamsRemaining(p) == Team \ {p.numberToPick[n].teamId : n \in madePicks(p)}

(* shuffled(): a member for each seat. *)
Shuffles(S) ==
  LET seats == 1..Cardinality(S)
  IN  {f \in [seats -> S] : \A i, j \in seats : f[i] = f[j] => i = j}

(* The picks that the draft order gives the shuffled members. *)
dealtPicks(s, seat) ==
  [n \in PickNumber |-> [member |-> seat[sizeToDraftOrder[s][n]],
                         teamId |-> NoTeam, didNotifyMember |-> FALSE]]

(* Mutant: joining a full pool deals it again. *)
addMember_dealsFullPool(p, m) ==
  LET q == [p EXCEPT !.idToMember = @ \cup {m}]
  IN  IF Cardinality(q.idToMember) # q.size
      THEN {q}
      ELSE {[q EXCEPT !.numberToPick = dealtPicks(q.size, seat), !.deal = @ + 1] :
              seat \in Shuffles(q.idToMember)}

(* Mutant: a pool that was dealt once is not dealt when it fills again. *)
addMember_keepsPicks(p, m) ==
  LET q == [p EXCEPT !.idToMember = @ \cup {m}]
  IN  IF isFull(p) THEN {p}
      ELSE IF ~isFull(q) \/ DOMAIN q.numberToPick # {} THEN {q}
      ELSE {[q EXCEPT !.numberToPick = dealtPicks(q.size, seat), !.deal = @ + 1] :
              seat \in Shuffles(q.idToMember)}

(* addMember: the pools it may leave behind, one for each shuffle.  A full *)
(* pool is left as it is; the member who fills the pool deals the draft.   *)
addMember(p, m) ==
  LET q == [p EXCEPT !.idToMember = @ \cup {m}]
  IN  IF Cardinality(p.idToMember) >= p.size
      THEN {p}
      ELSE IF ~isFull(q) \/ q.size \notin Size
      THEN {q}
      ELSE {[q EXCEPT !.numberToPick = dealtPicks(q.size, seat),
                      !.deal = @ + 1, !.mixed = FALSE] :
              seat \in Shuffles(q.idToMember)}

(* Mutant: the team just picked is not subtracted from those left. *)
pickUpdates_keepsTeam(p, n, t) ==
  LET left == teamsRemaining(p)
  IN  IF n # NumPicks - 1
      THEN {[k \in {n} |-> t]}
      ELSE {[k \in {n, NumPicks} |-> IF k = n THEN t ELSE u] : u \in left}

(* Mutant: the last pick is filled in one pick too early. *)
pickUpdates_early(p, n, t) ==
  LET left == teamsRemaining(p) \ {t}
  IN  IF n # NumPicks - 2 \/ left = {}
      THEN {[k \in {n} |-> t]}
      ELSE {[k \in {n, NumPicks} |-> IF k = n THEN t ELSE u] : u \in left}

(* Mutant: the last pick is not filled in. *)
pickUpdates_single(p, n, t) == {[k \in {n} |-> t]}

(* The dictionary that pickTeam writes: the pick, and with the last pick   *)
(* but one the last one too, from the teams then left (`first' of a Set).  *)
pickUpdates(p, n, t) ==
  LET left == teamsRemaining(p) \ {t}
  IN  IF n # NumPicks - 1 \/ left = {}
      THEN {[k \in {n} |-> t]}
      ELSE {[k \in {n, NumPicks} |-> IF k = n THEN t ELSE u] : u \in left}

(* updateData on numberToPick.<k>.teamId for each k of the update. *)
setTeams(p, update) ==
  [p EXCEPT !.numberToPick =
     [k \in DOMAIN p.numberToPick |->
        IF k \in DOMAIN update
        THEN [p.numberToPick[k] EXCEPT !.teamId = update[k]]
        ELSE p.numberToPick[k]]]

(* Mutant: leaving a pool resets its draft. *)
removeMember_clearsPicks(p, m) ==
  [p EXCEPT !.idToMember = @ \ {m}, !.numberToPick = noPicks]

(* updateData deleting idToMember.<id>: the picks stay. *)
removeMember(p, m) == [p EXCEPT !.idToMember = @ \ {m}]

(* updateData on numberToPick.<n>.didNotifyMember, of existing picks. *)
setNotified(p, numbers) ==
  [p EXCEPT !.numberToPick =
     [k \in DOMAIN p.numberToPick |->
        IF k \in numbers
        THEN [p.numberToPick[k] EXCEPT !.didNotifyMember = TRUE]
        ELSE p.numberToPick[k]]]
=============================================================================

----------------------------- MODULE PoolProofs -----------------------------
(***************************************************************************)
(* What the operations of module Pool do to a pool, for every set of       *)
(* members and teams, every number of picks and every draft order.         *)
(***************************************************************************)
EXTENDS Pool, FiniteSetTheorems, TLAPS

(* A pool's picks are all there or none is. *)
LEMMA PicksAllOrNone ==
  ASSUME NEW p \in PoolDocument
  PROVE  /\ DOMAIN p.numberToPick \in {{}, PickNumber}
         /\ DOMAIN p.numberToPick # {} => p.numberToPick \in [PickNumber -> Pick]
         /\ madePicks(p) \subseteq PickNumber
         /\ openPicks(p) \subseteq PickNumber
BY DEF PoolDocument, noPicks, madePicks, openPicks

(* A deal gives each number a member of the pool and no team. *)
LEMMA DealtPicksFacts ==
  ASSUME NEW S \in SUBSET Member, NEW seat \in Shuffles(S),
         Cardinality(S) \in Size
  PROVE  /\ dealtPicks(Cardinality(S), seat) \in [PickNumber -> Pick]
         /\ \A n \in PickNumber :
              /\ dealtPicks(Cardinality(S), seat)[n].member \in S
              /\ dealtPicks(Cardinality(S), seat)[n].teamId = NoTeam
              /\ ~dealtPicks(Cardinality(S), seat)[n].didNotifyMember
<1> DEFINE s == Cardinality(S)
<1>1. seat \in [1..s -> S]
  BY DEF Shuffles
<1>2. \A n \in PickNumber : sizeToDraftOrder[s][n] \in 1..s
  BY PoolAssumption DEF Size, PickNumber
<1>3. \A n \in PickNumber : seat[sizeToDraftOrder[s][n]] \in S
  BY <1>1, <1>2
<1> QED
  BY <1>3 DEF dealtPicks, Pick

(* What addMember can leave behind: the pool itself, the pool with one     *)
(* more member and still room, or a full pool with a fresh draft.          *)
LEMMA AddMemberFacts ==
  ASSUME NEW p \in PoolDocument, NEW m \in Member, NEW q \in addMember(p, m)
  PROVE  /\ q \in PoolDocument
         /\ \/ q = p
            \/ /\ q = [p EXCEPT !.idToMember = p.idToMember \cup {m}]
               /\ Cardinality(p.idToMember) < p.size
               /\ ~isFull(q)
            \/ /\ q.size = p.size
               /\ q.idToMember = p.idToMember \cup {m}
               /\ q.deal = p.deal + 1
               /\ Cardinality(p.idToMember) < p.size
               /\ isFull(q)
               /\ q.numberToPick \in [PickNumber -> Pick]
               /\ \A n \in PickNumber : /\ q.numberToPick[n].member \in q.idToMember
                                        /\ q.numberToPick[n].teamId = NoTeam
                                        /\ ~q.numberToPick[n].didNotifyMember
<1> DEFINE r == [p EXCEPT !.idToMember = p.idToMember \cup {m}]
<1>1. r \in PoolDocument
  BY DEF PoolDocument
<1>2. r.size \in Size /\ r.size = p.size /\ r.idToMember = p.idToMember \cup {m}
       /\ r.deal = p.deal
  BY DEF PoolDocument
<1>3. IsFiniteSet(p.idToMember) /\ Cardinality(p.idToMember) \in Nat /\ p.size \in Nat
  BY FS_Subset, FS_CardinalityType, PoolAssumption DEF PoolDocument, Size
<1>4. CASE Cardinality(p.idToMember) >= p.size
  BY <1>4 DEF addMember
<1>5. CASE ~(Cardinality(p.idToMember) >= p.size) /\ ~isFull(r)
  <2>1. q = r
    BY <1>2, <1>5 DEF addMember
  <2> QED
    BY <2>1, <1>1, <1>3, <1>5
<1>6. CASE ~(Cardinality(p.idToMember) >= p.size) /\ isFull(r)
  <2>1. PICK seat \in Shuffles(r.idToMember) :
          q = [r EXCEPT !.numberToPick = dealtPicks(r.size, seat),
                        !.deal = r.deal + 1, !.mixed = FALSE]
    BY <1>2, <1>6 DEF addMember
  <2>2. r.size = Cardinality(r.idToMember) /\ r.idToMember \in SUBSET Member
    BY <1>1, <1>6 DEF isFull, PoolDocument
  <2>3. /\ dealtPicks(r.size, seat) \in [PickNumber -> Pick]
        /\ \A n \in PickNumber :
             /\ dealtPicks(r.size, seat)[n].member \in r.idToMember
             /\ dealtPicks(r.size, seat)[n].teamId = NoTeam
             /\ ~dealtPicks(r.size, seat)[n].didNotifyMember
    BY <2>2, <1>2, DealtPicksFacts
  <2> HIDE DEF r
  <2> DEFINE picks == dealtPicks(r.size, seat)
  <2> HIDE DEF picks
  <2>4. /\ q.size = r.size /\ q.idToMember = r.idToMember /\ q.deal = r.deal + 1
        /\ q.numberToPick = picks
        /\ q \in PoolDocument
    <3>1. q = [r EXCEPT !.numberToPick = picks, !.deal = r.deal + 1, !.mixed = FALSE]
      BY <2>1 DEF picks
    <3>2. picks \in [PickNumber -> Pick] \cup {noPicks}
      BY <2>3 DEF picks
    <3>3. q = [size |-> r.size, idToMember |-> r.idToMember, numberToPick |-> picks,
               deal |-> r.deal + 1, mixed |-> FALSE]
      BY <3>1, <1>1 DEF PoolDocument
    <3>4. r.size \in Size /\ r.idToMember \in SUBSET Member /\ r.deal + 1 \in Nat
      BY <1>1 DEF PoolDocument
    <3> QED
      BY <3>2, <3>3, <3>4 DEF PoolDocument
  <2>5. isFull(q)
    BY <2>4, <1>6 DEF isFull
  <2> QED
    BY <2>3, <2>4, <2>5, <1>2, <1>3, <1>6 DEF picks
<1> QED
  BY <1>4, <1>5, <1>6

(* What pickTeam writes: the team at its number, and a team for the last   *)
(* number only together with the last but one.                             *)
LEMMA PickUpdatesFacts ==
  ASSUME NEW p \in PoolDocument, NEW n \in PickNumber, NEW t \in Team,
         NEW update \in pickUpdates(p, n, t)
  PROVE  /\ \/ DOMAIN update = {n}
            \/ /\ DOMAIN update = {n, NumPicks} /\ n = NumPicks - 1
               /\ update[NumPicks] \in teamsRemaining(p) \ {t}
         /\ update[n] = t
         /\ \A k \in DOMAIN update : update[k] \in Team
         /\ n = NumPicks - 1 /\ teamsRemaining(p) \ {t} # {} => NumPicks \in DOMAIN update
<1> DEFINE left == teamsRemaining(p) \ {t}
<1>1. left \subseteq Team
  BY DEF teamsRemaining
<1>2. NumPicks \in Nat /\ NumPicks # NumPicks - 1
  BY PoolAssumption
<1>3. CASE n # NumPicks - 1 \/ left = {}
  BY <1>3 DEF pickUpdates
<1>4. CASE ~(n # NumPicks - 1 \/ left = {})
  <2>1. PICK u \in left : update = [k \in {n, NumPicks} |-> IF k = n THEN t ELSE u]
    BY <1>4 DEF pickUpdates
  <2> QED
    BY <2>1, <1>1, <1>2, <1>4
<1> QED
  BY <1>3, <1>4

(* updateData on the teams changes the teams it names and nothing else. *)
LEMMA SetTeamsFacts ==
  ASSUME NEW p \in PoolDocument, DOMAIN p.numberToPick # {},
         NEW update, \A k \in DOMAIN update : update[k] \in Team
  PROVE  LET q == setTeams(p, update)
         IN  /\ q \in PoolDocument
             /\ q.size = p.size /\ q.idToMember = p.idToMember
             /\ q.deal = p.deal /\ q.mixed = p.mixed
             /\ q.numberToPick \in [PickNumber -> Pick]
             /\ \A k \in PickNumber :
                  /\ q.numberToPick[k].member = p.numberToPick[k].member
                  /\ q.numberToPick[k].didNotifyMember = p.numberToPick[k].didNotifyMember
                  /\ k \in DOMAIN update => q.numberToPick[k].teamId = update[k]
                  /\ k \notin DOMAIN update =>
                       q.numberToPick[k].teamId = p.numberToPick[k].teamId
<1> DEFINE picks == [k \in PickNumber |->
                       IF k \in DOMAIN update
                       THEN [p.numberToPick[k] EXCEPT !.teamId = update[k]]
                       ELSE p.numberToPick[k]]
<1>1. p.numberToPick \in [PickNumber -> Pick] /\ DOMAIN p.numberToPick = PickNumber
  BY PicksAllOrNone
<1>2. setTeams(p, update) = [p EXCEPT !.numberToPick = picks]
  BY <1>1 DEF setTeams
<1>3. picks \in [PickNumber -> Pick]
  BY <1>1 DEF Pick
<1>4. \A k \in PickNumber :
        /\ picks[k].member = p.numberToPick[k].member
        /\ picks[k].didNotifyMember = p.numberToPick[k].didNotifyMember
        /\ k \in DOMAIN update => picks[k].teamId = update[k]
        /\ k \notin DOMAIN update => picks[k].teamId = p.numberToPick[k].teamId
  BY <1>1 DEF Pick
<1> HIDE DEF picks
<1> QED
  BY <1>2, <1>3, <1>4 DEF PoolDocument

(* didNotifyTurn changes flags only. *)
LEMMA SetNotifiedFacts ==
  ASSUME NEW p \in PoolDocument, DOMAIN p.numberToPick # {}, NEW N
  PROVE  LET q == setNotified(p, N)
         IN  /\ q \in PoolDocument
             /\ q.size = p.size /\ q.idToMember = p.idToMember
             /\ q.deal = p.deal /\ q.mixed = p.mixed
             /\ q.numberToPick \in [PickNumber -> Pick]
             /\ \A k \in PickNumber :
                  /\ q.numberToPick[k].member = p.numberToPick[k].member
                  /\ q.numberToPick[k].teamId = p.numberToPick[k].teamId
                  /\ k \notin N => q.numberToPick[k] = p.numberToPick[k]
<1> DEFINE picks == [k \in PickNumber |->
                       IF k \in N
                       THEN [p.numberToPick[k] EXCEPT !.didNotifyMember = TRUE]
                       ELSE p.numberToPick[k]]
<1>1. p.numberToPick \in [PickNumber -> Pick] /\ DOMAIN p.numberToPick = PickNumber
  BY PicksAllOrNone
<1>2. setNotified(p, N) = [p EXCEPT !.numberToPick = picks]
  BY <1>1 DEF setNotified
<1>3. picks \in [PickNumber -> Pick]
  BY <1>1 DEF Pick
<1>4. \A k \in PickNumber : /\ picks[k].member = p.numberToPick[k].member
                            /\ picks[k].teamId = p.numberToPick[k].teamId
                            /\ k \notin N => picks[k] = p.numberToPick[k]
  BY <1>1 DEF Pick
<1> HIDE DEF picks
<1> QED
  BY <1>2, <1>3, <1>4 DEF PoolDocument

(* Leaving takes one member out and keeps the picks. *)
LEMMA RemoveMemberFacts ==
  ASSUME NEW p \in PoolDocument, NEW m \in Member
  PROVE  LET q == removeMember(p, m)
         IN  /\ q \in PoolDocument
             /\ q.size = p.size /\ q.idToMember = p.idToMember \ {m}
             /\ q.numberToPick = p.numberToPick
             /\ q.deal = p.deal /\ q.mixed = p.mixed
BY DEF removeMember, PoolDocument

(* A new pool has its creator and no picks. *)
LEMMA NewPoolFacts ==
  ASSUME NEW s \in Size, NEW m \in Member
  PROVE  LET q == newPool(s, m)
         IN  /\ q \in PoolDocument
             /\ q.size = s /\ q.idToMember = {m} /\ q.numberToPick = noPicks
             /\ q.deal = 0
BY DEF newPool, PoolDocument

(* A document whose picks have the same teams has made the same picks. *)
LEMMA SameTeams ==
  ASSUME NEW p \in PoolDocument, NEW q \in PoolDocument,
         DOMAIN q.numberToPick = DOMAIN p.numberToPick,
         \A k \in DOMAIN p.numberToPick :
           q.numberToPick[k].teamId = p.numberToPick[k].teamId
  PROVE  /\ madePicks(q) = madePicks(p)
         /\ isComplete(q) <=> isComplete(p)
         /\ teamsRemaining(q) = teamsRemaining(p)
<1>1. madePicks(q) = madePicks(p)
  BY DEF madePicks, openPicks
<1>2. madePicks(p) \subseteq DOMAIN p.numberToPick
  BY DEF madePicks
<1>3. DOMAIN p.numberToPick # {} => NumPicks \in DOMAIN p.numberToPick
  BY PicksAllOrNone, PoolAssumption DEF PickNumber
<1>4. isComplete(q) <=> isComplete(p)
  BY <1>3 DEF isComplete
<1>5. teamsRemaining(q) = teamsRemaining(p)
  BY <1>1, <1>2 DEF teamsRemaining
<1> QED
  BY <1>1, <1>4, <1>5

(* The picks made before the current one are exactly those below it. *)
LEMMA MadeBelowCurrent ==
  ASSUME NEW p \in PoolDocument, NEW n \in PickNumber, isCurrentPick(p, n),
         \A k \in madePicks(p) : 1..k \subseteq madePicks(p)
  PROVE  madePicks(p) = 1..(n - 1)
<1>1. DOMAIN p.numberToPick = PickNumber
  BY PicksAllOrNone DEF isCurrentPick, openPicks
<1>2. n \in Nat /\ NumPicks \in Nat /\ PickNumber = 1..NumPicks /\ n \in 1..NumPicks
  BY PoolAssumption DEF PickNumber
<1>3. ASSUME NEW k \in 1..(n - 1) PROVE k \in madePicks(p)
  <2>1. k \in PickNumber /\ ~(n <= k)
    BY <1>2
  <2>2. k \notin openPicks(p)
    BY <2>1 DEF isCurrentPick
  <2> QED
    BY <2>1, <2>2, <1>1 DEF madePicks
<1>4. ASSUME NEW k \in madePicks(p) PROVE k \in 1..(n - 1)
  <2>1. k \in 1..NumPicks
    BY <1>1, <1>2 DEF madePicks
  <2>2. n \notin madePicks(p)
    BY DEF isCurrentPick, madePicks
  <2>3. n \notin 1..k
    BY <2>2
  <2> QED
    BY <2>1, <2>3, <1>2
<1> QED
  BY <1>3, <1>4

(* With all but two picks made there is a team for the last pick whatever  *)
(* is chosen for the last but one: there are as many teams as picks.       *)
LEMMA TeamForLastPick ==
  ASSUME NEW p \in PoolDocument, NEW t \in Team,
         madePicks(p) = 1..(NumPicks - 2), DOMAIN p.numberToPick # {}
  PROVE  teamsRemaining(p) \ {t} # {}
<1> SUFFICES ASSUME teamsRemaining(p) \ {t} = {} PROVE FALSE
  OBVIOUS
<1> DEFINE S == 1..(NumPicks - 1)
           f == [k \in S |-> IF k = NumPicks - 1 THEN t ELSE p.numberToPick[k].teamId]
<1>1. NumPicks \in Nat /\ NumPicks >= 2
  BY PoolAssumption
<1>2. p.numberToPick \in [PickNumber -> Pick]
  BY PicksAllOrNone
<1>3. ASSUME NEW k \in S PROVE f[k] \in Team
  <2>1. CASE k = NumPicks - 1
    BY <2>1
  <2>2. CASE k # NumPicks - 1
    <3>1. k \in madePicks(p) /\ k \in PickNumber
      BY <2>2, <1>1 DEF PickNumber
    <3>2. p.numberToPick[k].teamId \in Team
      BY <3>1, <1>2 DEF madePicks, openPicks, Pick
    <3> QED
      BY <3>2, <2>2
  <2> QED
    BY <2>1, <2>2
<1>4. ASSUME NEW u \in Team PROVE \E k \in S : f[k] = u
  <2>1. CASE u = t
    BY <2>1, <1>1
  <2>2. CASE u # t
    <3>1. PICK k \in madePicks(p) : u = p.numberToPick[k].teamId
      BY <2>2 DEF teamsRemaining
    <3>2. k \in S /\ k # NumPicks - 1
      BY <3>1, <1>1
    <3> QED
      BY <3>1, <3>2
  <2> QED
    BY <2>1, <2>2
<1>5. f \in Surjection(S, Team)
  BY <1>3, <1>4 DEF Surjection
<1>6. IsFiniteSet(S) /\ Cardinality(S) = NumPicks - 1
  BY <1>1, FS_Interval
<1>7. Cardinality(Team) <= Cardinality(S)
  BY <1>5, <1>6, FS_Surjection
<1> QED
  BY <1>1, <1>6, <1>7, PoolAssumption

(* The order of the draft: the made picks are a prefix of it, and the last *)
(* two are made together.                                                  *)
InOrder(p) ==
  /\ \A n \in madePicks(p) : 1..n \subseteq madePicks(p)
  /\ NumPicks - 1 \in madePicks(p) => isComplete(p)

(* q is p after m's pick of team t at number n. *)
Picked(p, q, m, n, t) ==
  /\ isTurnOf(p, m, n)
  /\ \E update \in pickUpdates(p, n, t) :
       \/ t \in teamsRemaining(p) /\ q = setTeams(p, update)
       \/ q = [setTeams(p, update) EXCEPT !.mixed = TRUE]

(* What a pick does to the document. *)
LEMMA PickedFacts ==
  ASSUME NEW p \in PoolDocument, NEW q,
         NEW m \in Member, NEW n \in PickNumber, NEW t \in Team, Picked(p, q, m, n, t)
  PROVE  /\ q \in PoolDocument
         /\ p.numberToPick \in [PickNumber -> Pick]
         /\ q.numberToPick \in [PickNumber -> Pick]
         /\ q.size = p.size /\ q.idToMember = p.idToMember
         /\ q.deal = p.deal
         /\ isCurrentPick(p, n)
         /\ q.numberToPick[n].teamId = t
         /\ \A k \in PickNumber :
              /\ q.numberToPick[k].member = p.numberToPick[k].member
              /\ q.numberToPick[k].didNotifyMember = p.numberToPick[k].didNotifyMember
              /\ \/ k = n
                 \/ q.numberToPick[k].teamId = p.numberToPick[k].teamId
                 \/ /\ k = NumPicks /\ n = NumPicks - 1
                    /\ q.numberToPick[k].teamId \in teamsRemaining(p) \ {t}
         /\ n = NumPicks - 1 /\ teamsRemaining(p) \ {t} # {} =>
              q.numberToPick[NumPicks].teamId \in Team
         /\ ~q.mixed => ~p.mixed /\ t \in teamsRemaining(p)
<1>1. p \in PoolDocument /\ isCurrentPick(p, n) /\ n \in DOMAIN p.numberToPick
  BY DEF Picked, isTurnOf, isCurrentPick, openPicks
<1>2. p.numberToPick \in [PickNumber -> Pick]
  BY <1>1, PicksAllOrNone
<1>3. PICK update \in pickUpdates(p, n, t) :
        \/ t \in teamsRemaining(p) /\ q = setTeams(p, update)
        \/ q = [setTeams(p, update) EXCEPT !.mixed = TRUE]
  BY DEF Picked
<1> DEFINE r == setTeams(p, update)
<1>4. /\ \/ DOMAIN update = {n}
         \/ /\ DOMAIN update = {n, NumPicks} /\ n = NumPicks - 1
            /\ update[NumPicks] \in teamsRemaining(p) \ {t}
      /\ update[n] = t
      /\ \A k \in DOMAIN update : update[k] \in Team
      /\ n = NumPicks - 1 /\ teamsRemaining(p) \ {t} # {} => NumPicks \in DOMAIN update
  BY <1>1, PickUpdatesFacts
<1>5. /\ r \in PoolDocument
      /\ r.size = p.size /\ r.idToMember = p.idToMember
      /\ r.deal = p.deal /\ r.mixed = p.mixed
      /\ r.numberToPick \in [PickNumber -> Pick]
      /\ \A k \in PickNumber :
           /\ r.numberToPick[k].member = p.numberToPick[k].member
           /\ r.numberToPick[k].didNotifyMember = p.numberToPick[k].didNotifyMember
           /\ k \in DOMAIN update => r.numberToPick[k].teamId = update[k]
           /\ k \notin DOMAIN update =>
                r.numberToPick[k].teamId = p.numberToPick[k].teamId
  BY <1>1, <1>4, SetTeamsFacts
<1> HIDE DEF r
<1>6. /\ q \in PoolDocument
      /\ q.size = r.size /\ q.idToMember = r.idToMember /\ q.deal = r.deal
      /\ q.numberToPick = r.numberToPick
  <2>1. CASE q = r
    BY <2>1, <1>5
  <2>2. CASE q = [r EXCEPT !.mixed = TRUE]
    BY <2>2, <1>5 DEF PoolDocument
  <2> QED
    BY <2>1, <2>2, <1>3 DEF r
<1>7. ~q.mixed => ~p.mixed /\ t \in teamsRemaining(p)
  <2>1. CASE t \in teamsRemaining(p) /\ q = r
    BY <2>1, <1>5
  <2>2. CASE q = [r EXCEPT !.mixed = TRUE]
    <3>1. q.mixed = TRUE
      BY <2>2, <1>5 DEF PoolDocument
    <3> QED
      BY <3>1
  <2> QED
    BY <2>1, <2>2, <1>3 DEF r
<1>8. NumPicks \in PickNumber
  BY PoolAssumption DEF PickNumber
<1>9. \A k \in PickNumber :
        /\ r.numberToPick[k].member = p.numberToPick[k].member
        /\ r.numberToPick[k].didNotifyMember = p.numberToPick[k].didNotifyMember
        /\ \/ k = n
           \/ r.numberToPick[k].teamId = p.numberToPick[k].teamId
           \/ /\ k = NumPicks /\ n = NumPicks - 1
              /\ r.numberToPick[k].teamId \in teamsRemaining(p) \ {t}
  BY <1>4, <1>5
<1>10. /\ r.numberToPick[n].teamId = t
       /\ n = NumPicks - 1 /\ teamsRemaining(p) \ {t} # {} =>
            r.numberToPick[NumPicks].teamId \in Team
  BY <1>4, <1>5, <1>8
<1> QED
  BY <1>1, <1>2, <1>5, <1>6, <1>7, <1>9, <1>10

(* The picks that it leaves made. *)
LEMMA PickedMade ==
  ASSUME NEW p \in PoolDocument, InOrder(p), NEW q,
         NEW m \in Member, NEW n \in PickNumber, NEW t \in Team, Picked(p, q, m, n, t)
  PROVE  /\ madePicks(p) = 1..(n - 1)
         /\ n < NumPicks
         /\ madePicks(q) = IF n = NumPicks - 1 THEN PickNumber ELSE 1..n
<1>1. /\ q \in PoolDocument
      /\ p.numberToPick \in [PickNumber -> Pick]
      /\ q.numberToPick \in [PickNumber -> Pick]
      /\ isCurrentPick(p, n)
      /\ q.numberToPick[n].teamId = t
      /\ \A k \in PickNumber :
           \/ k = n
           \/ q.numberToPick[k].teamId = p.numberToPick[k].teamId
           \/ k = NumPicks /\ n = NumPicks - 1
      /\ n = NumPicks - 1 /\ teamsRemaining(p) \ {t} # {} =>
           q.numberToPick[NumPicks].teamId \in Team
  BY PickedFacts
<1>2. NumPicks \in Nat /\ NumPicks >= 2 /\ PickNumber = 1..NumPicks /\ n \in 1..NumPicks
      /\ NoTeam \notin Team
  BY PoolAssumption DEF PickNumber
<1>3. madePicks(p) = 1..(n - 1)
  BY <1>1, MadeBelowCurrent DEF InOrder
<1>4. n < NumPicks
  <2>1. n \notin madePicks(p)
    BY <1>1 DEF isCurrentPick, madePicks
  <2>2. n # NumPicks
    <3>1. SUFFICES ASSUME n = NumPicks PROVE FALSE
      OBVIOUS
    <3>2. NumPicks - 1 \in madePicks(p)
      BY <3>1, <1>2, <1>3
    <3>3. p.numberToPick[NumPicks].teamId # NoTeam
      BY <3>2, <1>1 DEF InOrder, isComplete
    <3> QED
      BY <3>1, <3>3, <1>1 DEF isCurrentPick, openPicks
  <2> QED
    BY <2>2, <1>2
<1>5. \A k \in PickNumber : /\ k \in madePicks(p) <=> p.numberToPick[k].teamId # NoTeam
                            /\ k \in madePicks(q) <=> q.numberToPick[k].teamId # NoTeam
  BY <1>1 DEF madePicks, openPicks
<1>6. madePicks(q) \subseteq PickNumber
  BY <1>1, PicksAllOrNone
<1>7. CASE n # NumPicks - 1
  <2>1. \A k \in PickNumber : k \in madePicks(q) <=> k = n \/ k \in madePicks(p)
    BY <1>1, <1>2, <1>5, <1>7
  <2>2. \A k \in PickNumber : k \in madePicks(q) <=> k \in 1..n
    BY <2>1, <1>2, <1>3
  <2>3. 1..n \subseteq PickNumber
    BY <1>2
  <2>4. madePicks(q) = 1..n
    BY <2>2, <2>3, <1>6
  <2> QED
    BY <2>4, <1>3, <1>4, <1>7
<1>8. CASE n = NumPicks - 1
  <2>1. q.numberToPick[NumPicks].teamId \in Team
    BY <1>1, <1>2, <1>3, <1>8, TeamForLastPick
  <2>2. ASSUME NEW k \in PickNumber PROVE k \in madePicks(q)
    <3>1. CASE k = n
      BY <3>1, <1>1, <1>2, <1>5
    <3>2. CASE k = NumPicks
      BY <3>2, <2>1, <1>2, <1>5
    <3>3. CASE k # n /\ k # NumPicks
      <4>1. k \in madePicks(p)
        BY <3>3, <1>2, <1>3, <1>8
      <4>2. q.numberToPick[k].teamId = p.numberToPick[k].teamId
        BY <3>3, <1>1
      <4> QED
        BY <4>1, <4>2, <1>5
    <3> QED
      BY <3>1, <3>2, <3>3
  <2> QED
    BY <2>2, <1>3, <1>4, <1>6, <1>8
<1> QED
  BY <1>3, <1>4, <1>7, <1>8

-----------------------------------------------------------------------------
(* What every operation keeps. *)

(* q is p, or what operations have made of it: never an earlier deal, and  *)
(* within the deal the same members at the same numbers and the same teams *)
(* where there were any.                                                   *)
Follows(p, q) ==
  /\ p.deal <= q.deal
  /\ p.deal = q.deal =>
       \A n \in DOMAIN p.numberToPick :
         /\ n \in DOMAIN q.numberToPick
         /\ q.numberToPick[n].member = p.numberToPick[n].member
         /\ n \in madePicks(p) => q.numberToPick[n].teamId = p.numberToPick[n].teamId

(* A pool has picks as soon as it was dealt. *)
DealtHasPicks(p) == p.deal = 0 <=> DOMAIN p.numberToPick = {}

(* What was made stays made. *)
LEMMA FollowsMade ==
  ASSUME NEW p, NEW q, Follows(p, q), p.deal = q.deal
  PROVE  madePicks(p) \subseteq madePicks(q)
BY DEF Follows, madePicks, openPicks

(* A later document of a later document is a later document. *)
LEMMA FollowsTransitive ==
  ASSUME NEW p \in PoolDocument, NEW q \in PoolDocument, NEW r \in PoolDocument,
         Follows(p, q), Follows(q, r)
  PROVE  Follows(p, r)
<1>1. p.deal \in Nat /\ q.deal \in Nat /\ r.deal \in Nat
  BY DEF PoolDocument
<1>2. p.deal <= q.deal /\ q.deal <= r.deal
  BY DEF Follows
<1>3. p.deal = r.deal => p.deal = q.deal /\ q.deal = r.deal
  BY <1>1, <1>2
<1>4. p.deal = r.deal => madePicks(p) \subseteq madePicks(q)
  BY <1>3, FollowsMade
<1> QED
  BY <1>1, <1>2, <1>3, <1>4 DEF Follows

(* A document follows another whose picks have the same members and teams. *)
LEMMA SamePicksFollow ==
  ASSUME NEW p \in PoolDocument, NEW q \in PoolDocument,
         q.deal = p.deal, DOMAIN q.numberToPick = DOMAIN p.numberToPick,
         \A k \in DOMAIN p.numberToPick :
           /\ q.numberToPick[k].member = p.numberToPick[k].member
           /\ q.numberToPick[k].teamId = p.numberToPick[k].teamId
  PROVE  /\ Follows(p, q) /\ Follows(q, p)
         /\ InOrder(p) => InOrder(q)
         /\ DealtHasPicks(p) => DealtHasPicks(q)
<1>1. p.deal <= p.deal
  BY DEF PoolDocument
<1>2. Follows(p, q) /\ Follows(q, p)
  BY <1>1 DEF Follows, madePicks
<1>3. madePicks(q) = madePicks(p) /\ (isComplete(q) <=> isComplete(p))
  BY SameTeams
<1> QED
  BY <1>2, <1>3 DEF InOrder, DealtHasPicks

(* A pool without teams is in order. *)
LEMMA OpenIsInOrder ==
  ASSUME NEW p, \A n \in DOMAIN p.numberToPick : p.numberToPick[n].teamId = NoTeam
  PROVE  InOrder(p)
<1>1. madePicks(p) = {}
  BY DEF madePicks, openPicks
<1> QED
  BY <1>1 DEF InOrder

(* createPool. *)
LEMMA NewPoolKeeps ==
  ASSUME NEW s \in Size, NEW m \in Member
  PROVE  InOrder(newPool(s, m)) /\ DealtHasPicks(newPool(s, m))
<1>1. newPool(s, m).numberToPick = noPicks /\ newPool(s, m).deal = 0
  BY NewPoolFacts
<1>2. DOMAIN noPicks = {}
  BY DEF noPicks
<1> QED
  BY <1>1, <1>2, OpenIsInOrder DEF DealtHasPicks

(* joinPool. *)
LEMMA AddMemberKeeps ==
  ASSUME NEW p \in PoolDocument, NEW m \in Member, NEW q \in addMember(p, m)
  PROVE  /\ Follows(p, q)
         /\ InOrder(p) => InOrder(q)
         /\ DealtHasPicks(p) => DealtHasPicks(q)
<1>1. q \in PoolDocument
  BY AddMemberFacts
<1>2. CASE q.numberToPick = p.numberToPick /\ q.deal = p.deal
  BY <1>1, <1>2, SamePicksFollow
<1>3. CASE /\ q.deal = p.deal + 1
           /\ q.numberToPick \in [PickNumber -> Pick]
           /\ \A n \in PickNumber : q.numberToPick[n].teamId = NoTeam
  <2>1. p.deal \in Nat /\ PickNumber # {}
    BY PoolAssumption DEF PoolDocument, PickNumber
  <2>2. DealtHasPicks(q)
    BY <2>1, <1>3 DEF DealtHasPicks
  <2>3. Follows(p, q)
    BY <2>1, <1>3 DEF Follows
  <2> QED
    BY <2>2, <2>3, <1>3, OpenIsInOrder
<1> QED
  BY <1>2, <1>3, AddMemberFacts DEF PoolDocument

(* leavePool. *)
LEMMA RemoveMemberKeeps ==
  ASSUME NEW p \in PoolDocument, NEW m \in Member
  PROVE  LET q == removeMember(p, m)
         IN  /\ Follows(p, q) /\ Follows(q, p)
             /\ InOrder(p) => InOrder(q)
             /\ DealtHasPicks(p) => DealtHasPicks(q)
BY RemoveMemberFacts, SamePicksFollow

(* pickTeam. *)
LEMMA PickedKeeps ==
  ASSUME NEW p \in PoolDocument, InOrder(p), NEW q, NEW m \in Member,
         NEW n \in PickNumber, NEW t \in Team, Picked(p, q, m, n, t)
  PROVE  /\ Follows(p, q)
         /\ InOrder(q)
         /\ DealtHasPicks(p) => DealtHasPicks(q)
<1>1. NumPicks \in Nat /\ NumPicks >= 2 /\ PickNumber = 1..NumPicks /\ n \in 1..NumPicks
  BY PoolAssumption DEF PickNumber
<1>2. /\ p.numberToPick \in [PickNumber -> Pick]
      /\ q.numberToPick \in [PickNumber -> Pick]
      /\ q.deal = p.deal
      /\ \A k \in PickNumber :
           /\ q.numberToPick[k].member = p.numberToPick[k].member
           /\ \/ k = n
              \/ q.numberToPick[k].teamId = p.numberToPick[k].teamId
              \/ k = NumPicks /\ n = NumPicks - 1
  BY PickedFacts
<1>3. /\ madePicks(p) = 1..(n - 1) /\ n < NumPicks
      /\ madePicks(q) = IF n = NumPicks - 1 THEN PickNumber ELSE 1..n
  BY PickedMade
<1>4. InOrder(q)
  <2>1. \A k \in madePicks(q) : 1..k \subseteq madePicks(q)
    BY <1>1, <1>3
  <2>2. NumPicks - 1 \in madePicks(q) => NumPicks \in madePicks(q)
    BY <1>1, <1>3
  <2>3. NumPicks \in madePicks(q) => isComplete(q)
    BY DEF isComplete, madePicks, openPicks
  <2> QED
    BY <2>1, <2>2, <2>3 DEF InOrder
<1>5. n \notin madePicks(p) /\ NumPicks \notin madePicks(p)
  BY <1>1, <1>3
<1>6. p.deal <= p.deal
  BY DEF PoolDocument
<1>7. Follows(p, q)
  BY <1>2, <1>5, <1>6 DEF Follows
<1> QED
  BY <1>2, <1>4, <1>7 DEF DealtHasPicks

(* didNotifyTurn, of any numbers: a pool without picks stays as it is. *)
LEMMA SetNotifiedKeeps ==
  ASSUME NEW p \in PoolDocument, NEW N
  PROVE  LET q == setNotified(p, N)
         IN  /\ q \in PoolDocument
             /\ q.size = p.size /\ q.idToMember = p.idToMember
             /\ q.deal = p.deal
             /\ DOMAIN q.numberToPick = DOMAIN p.numberToPick
             /\ \A k \in DOMAIN p.numberToPick :
                  /\ q.numberToPick[k].member = p.numberToPick[k].member
                  /\ q.numberToPick[k].teamId = p.numberToPick[k].teamId
                  /\ k \notin N => q.numberToPick[k] = p.numberToPick[k]
             /\ Follows(p, q) /\ Follows(q, p)
             /\ InOrder(p) => InOrder(q)
             /\ DealtHasPicks(p) => DealtHasPicks(q)
<1> DEFINE q == setNotified(p, N)
<1>1. /\ q \in PoolDocument
      /\ q.size = p.size /\ q.idToMember = p.idToMember
      /\ q.deal = p.deal
      /\ DOMAIN q.numberToPick = DOMAIN p.numberToPick
      /\ \A k \in DOMAIN p.numberToPick :
           /\ q.numberToPick[k].member = p.numberToPick[k].member
           /\ q.numberToPick[k].teamId = p.numberToPick[k].teamId
           /\ k \notin N => q.numberToPick[k] = p.numberToPick[k]
  <2>1. CASE DOMAIN p.numberToPick = {}
    <3>1. p.numberToPick = noPicks
      <4>1. PickNumber # {}
        BY PoolAssumption DEF PickNumber
      <4> QED
        BY <4>1, <2>1 DEF PoolDocument
    <3>2. q = [p EXCEPT !.numberToPick = noPicks]
      <4>1. [k \in DOMAIN p.numberToPick |->
               IF k \in N
               THEN [p.numberToPick[k] EXCEPT !.didNotifyMember = TRUE]
               ELSE p.numberToPick[k]] = noPicks
        BY <2>1 DEF noPicks
      <4> QED
        BY <4>1 DEF setNotified
    <3>3. q = p
      BY <3>1, <3>2 DEF PoolDocument
    <3> QED
      BY <3>3
  <2>2. CASE DOMAIN p.numberToPick # {}
    BY <2>2, SetNotifiedFacts, PicksAllOrNone
  <2> QED
    BY <2>1, <2>2
<1> HIDE DEF q
<1>2. /\ Follows(p, q) /\ Follows(q, p)
      /\ InOrder(p) => InOrder(q)
      /\ DealtHasPicks(p) => DealtHasPicks(q)
  BY <1>1, SamePicksFollow
<1> QED
  BY <1>1, <1>2 DEF q

(* Nothing to flag, nothing changed. *)
LEMMA SetNotifiedNone ==
  ASSUME NEW p \in PoolDocument
  PROVE  setNotified(p, {}) = p
<1>1. [k \in DOMAIN p.numberToPick |->
         IF k \in {}
         THEN [p.numberToPick[k] EXCEPT !.didNotifyMember = TRUE]
         ELSE p.numberToPick[k]] = p.numberToPick
  BY DEF PoolDocument, noPicks
<1>2. setNotified(p, {}) = [p EXCEPT !.numberToPick = p.numberToPick]
  BY <1>1 DEF setNotified
<1> QED
  BY <1>2 DEF PoolDocument
=============================================================================

-------------------------- MODULE PoolStoreProofs ---------------------------
(***************************************************************************)
(* The invariants of PoolStore for every set of members and teams, every   *)
(* number of picks and every draft order.                                  *)
(***************************************************************************)
EXTENDS DraftDay, PoolProofs

-----------------------------------------------------------------------------
(* The actions of PoolStore. *)

(* pickTeam is a pick on the latest document. *)
LEMMA PickTeamIsPicked ==
  ASSUME TypeOK, NEW m \in Member, NEW n \in PickNumber, NEW t \in Team,
         pickTeam(m, n, t)
  PROVE  doc \in PoolDocument /\ doc # NoPool /\ Picked(doc, doc', m, n, t)
BY DEF TypeOK, pickTeam, Picked

(* Every operation keeps the document one that can be decoded. *)
LEMMA TypeStep == TypeOK /\ [Next]_storeVars => TypeOK'
<1> SUFFICES ASSUME TypeOK, [Next]_storeVars PROVE TypeOK'
  OBVIOUS
<1> USE DEF TypeOK
<1>1. ASSUME NEW m \in Member, NEW s \in Size, createPool(m, s) PROVE TypeOK'
  BY <1>1, NewPoolFacts DEF createPool
<1>2. ASSUME NEW m \in Member, joinPool(m) PROVE TypeOK'
  BY <1>2, AddMemberFacts DEF joinPool
<1>3. ASSUME NEW m \in Member, leavePool(m) PROVE TypeOK'
  BY <1>3, RemoveMemberFacts DEF leavePool
<1>4. ASSUME NEW m \in Member, NEW n \in PickNumber, NEW t \in Team, pickTeam(m, n, t)
      PROVE  TypeOK'
  BY <1>4, PickTeamIsPicked, PickedFacts DEF pickTeam
<1>5. CASE deletePool
  BY <1>5 DEF deletePool
<1>6. ASSUME NEW n \in PickNumber, didNotifyTurn(n) PROVE TypeOK'
  BY <1>6, SetNotifiedFacts DEF didNotifyTurn
<1>7. CASE UNCHANGED storeVars
  BY <1>7 DEF storeVars
<1> QED
  BY <1>1, <1>2, <1>3, <1>4, <1>5, <1>6, <1>7 DEF Next

(* Every pool that the operations of FirebaseInterface can make is one     *)
(* that the decoder of Pool accepts, picks included.                       *)
THEOREM TypeCorrect == Spec => []TypeOK
<1>1. Init => TypeOK
  BY DEF Init, TypeOK
<1> QED
  BY <1>1, TypeStep, PTL DEF Spec

-----------------------------------------------------------------------------
(* The order of the picks. *)

(* Every operation keeps the made picks a prefix of the draft, and makes   *)
(* the last two together.                                                  *)
LEMMA PicksInOrderStep == TypeOK /\ PicksInOrder /\ [Next]_storeVars => PicksInOrder'
<1> SUFFICES ASSUME TypeOK, PicksInOrder, [Next]_storeVars PROVE PicksInOrder'
  OBVIOUS
<1>0. doc # NoPool => InOrder(doc)
  BY DEF PicksInOrder, InOrder
<1>1. ASSUME NEW m \in Member, NEW s \in Size, createPool(m, s) PROVE InOrder(doc')
  BY <1>1, NewPoolKeeps DEF createPool
<1>2. ASSUME NEW m \in Member, joinPool(m) PROVE InOrder(doc')
  BY <1>0, <1>2, AddMemberKeeps DEF joinPool, TypeOK
<1>3. ASSUME NEW m \in Member, leavePool(m) PROVE InOrder(doc')
  BY <1>0, <1>3, RemoveMemberKeeps DEF leavePool, TypeOK
<1>4. ASSUME NEW m \in Member, NEW n \in PickNumber, NEW t \in Team, pickTeam(m, n, t)
      PROVE  InOrder(doc')
  BY <1>0, <1>4, PickTeamIsPicked, PickedKeeps
<1>5. CASE deletePool
  BY <1>5 DEF deletePool, PicksInOrder
<1>6. ASSUME NEW n \in PickNumber, didNotifyTurn(n) PROVE InOrder(doc')
  BY <1>0, <1>6, SetNotifiedKeeps DEF didNotifyTurn, TypeOK
<1>7. CASE UNCHANGED storeVars
  BY <1>7 DEF storeVars, PicksInOrder, madePicks, openPicks, isComplete
<1> QED
  BY <1>1, <1>2, <1>3, <1>4, <1>5, <1>6, <1>7 DEF Next, InOrder, PicksInOrder

(* The first open pick, which currentPick looks for, and the last pick,    *)
(* which isComplete looks at, never disagree about how far the draft is.   *)
THEOREM PicksAreInOrder == Spec => []PicksInOrder
<1>1. Init => PicksInOrder
  BY DEF Init, PicksInOrder
<1> QED
  BY <1>1, TypeCorrect, PicksInOrderStep, PTL DEF Spec

(* A complete pool has no current pick, so the turn notification that      *)
(* getStandings asks for, of complete pools only, is never given.          *)
THEOREM CompletePoolHasNoTurn ==
  Spec => [](doc # NoPool /\ isComplete(doc) => \A n \in PickNumber : ~isCurrentPick(doc, n))
<1>1. TypeOK /\ PicksInOrder =>
        (doc # NoPool /\ isComplete(doc) => \A n \in PickNumber : ~isCurrentPick(doc, n))
  <2> SUFFICES ASSUME TypeOK, PicksInOrder, doc # NoPool, isComplete(doc),
                      NEW n \in PickNumber, isCurrentPick(doc, n)
               PROVE  FALSE
    OBVIOUS
  <2>1. NumPicks \in madePicks(doc)
    BY PicksAllOrNone, PoolAssumption
       DEF TypeOK, PoolDocument, isComplete, madePicks, openPicks, PickNumber
  <2>2. n \in 1..NumPicks /\ 1..NumPicks \subseteq madePicks(doc)
    BY <2>1 DEF PicksInOrder, PickNumber
  <2> QED
    BY <2>2 DEF isCurrentPick, madePicks
<1> QED
  BY <1>1, TypeCorrect, PicksAreInOrder, PTL

-----------------------------------------------------------------------------
(* The members of the pool and the draft. *)

(* Every operation keeps a full pool dealt to its members. *)
LEMMA FullPoolIsDealtStep ==
  TypeOK /\ FullPoolIsDealt /\ [Next]_storeVars => FullPoolIsDealt'
<1> SUFFICES ASSUME TypeOK, FullPoolIsDealt, [Next]_storeVars PROVE FullPoolIsDealt'
  OBVIOUS
<1>0. \A p \in PoolDocument : /\ IsFiniteSet(p.idToMember)
                             /\ Cardinality(p.idToMember) \in Nat
                             /\ p.size \in Nat /\ p.size >= 2
  BY FS_Subset, FS_CardinalityType, PoolAssumption DEF PoolDocument, Size
<1>1. ASSUME NEW m \in Member, NEW s \in Size, createPool(m, s) PROVE FullPoolIsDealt'
  <2>1. doc' \in PoolDocument /\ doc'.idToMember = {m}
    BY <1>1, NewPoolFacts DEF createPool
  <2>2. Cardinality(doc'.idToMember) = 1
    BY <2>1, FS_Singleton
  <2> QED
    BY <2>1, <2>2, <1>0 DEF FullPoolIsDealt, isFull
<1>2. ASSUME NEW m \in Member, joinPool(m) PROVE FullPoolIsDealt'
  <2>1. doc \in PoolDocument /\ doc # NoPool /\ doc' \in addMember(doc, m)
    BY <1>2 DEF joinPool, TypeOK
  <2>2. CASE doc' = doc
    BY <2>2, <2>1 DEF FullPoolIsDealt, isFull
  <2>3. CASE /\ doc' = [doc EXCEPT !.idToMember = doc.idToMember \cup {m}]
             /\ Cardinality(doc.idToMember) < doc.size
             /\ ~isFull(doc')
    <3>1. doc'.idToMember = doc.idToMember \cup {m} /\ doc'.size = doc.size
      BY <2>1, <2>3 DEF PoolDocument
    <3> DEFINE S == doc.idToMember
    <3>a. IsFiniteSet(S) /\ Cardinality(S) \in Nat /\ doc.size \in Nat
      BY <2>1, <1>0
    <3>b. Cardinality(S \cup {m}) = IF m \in S THEN Cardinality(S) ELSE Cardinality(S) + 1
      BY <3>a, FS_AddElement
    <3>2. Cardinality(doc'.idToMember) <= Cardinality(doc.idToMember) + 1
      BY <3>1, <3>a, <3>b
    <3>3. doc' \in PoolDocument
      BY <2>1, AddMemberFacts
    <3>4. Cardinality(doc'.idToMember) <= doc'.size
      BY <3>1, <3>a, <3>b, <2>3
    <3> QED
      BY <3>4, <2>3 DEF FullPoolIsDealt
  <2>4. CASE /\ isFull(doc')
             /\ doc'.numberToPick \in [PickNumber -> Pick]
             /\ \A n \in PickNumber : doc'.numberToPick[n].member \in doc'.idToMember
    <3>1. doc' \in PoolDocument
      BY <2>1, AddMemberFacts
    <3>2. Cardinality(doc'.idToMember) <= doc'.size
      BY <3>1, <2>4, <1>0 DEF isFull
    <3>3. DOMAIN doc'.numberToPick # {}
      BY <2>4, PoolAssumption DEF PickNumber
    <3> QED
      BY <3>2, <3>3, <2>4 DEF FullPoolIsDealt
  <2> QED
    BY <2>1, <2>2, <2>3, <2>4, AddMemberFacts
<1>3. ASSUME NEW m \in Member, leavePool(m) PROVE FullPoolIsDealt'
  <2>1. /\ doc \in PoolDocument /\ doc # NoPool /\ doc' \in PoolDocument
        /\ doc'.size = doc.size /\ doc'.idToMember = doc.idToMember \ {m}
        /\ doc'.numberToPick = doc.numberToPick
    BY <1>3, RemoveMemberFacts DEF leavePool, TypeOK
  <2>2. Cardinality(doc'.idToMember) = IF m \in doc.idToMember
                                       THEN Cardinality(doc.idToMember) - 1
                                       ELSE Cardinality(doc.idToMember)
    <3>1. IsFiniteSet(doc.idToMember)
      BY <2>1, <1>0
    <3>2. Cardinality(doc.idToMember \ {m}) = IF m \in doc.idToMember
                                             THEN Cardinality(doc.idToMember) - 1
                                             ELSE Cardinality(doc.idToMember)
      BY <3>1, FS_RemoveElement
    <3> QED
      BY <2>1, <3>2
  <2>3. Cardinality(doc.idToMember) <= doc.size
    BY <2>1 DEF FullPoolIsDealt
  <2>4. CASE m \in doc.idToMember
    <3>1. Cardinality(doc'.idToMember) < doc'.size
      BY <2>1, <2>2, <2>3, <2>4, <1>0
    <3> QED
      BY <3>1, <2>1, <1>0 DEF FullPoolIsDealt, isFull
  <2>5. CASE m \notin doc.idToMember
    <3>1. doc'.idToMember = doc.idToMember
      BY <2>1, <2>5
    <3> QED
      BY <3>1, <2>1 DEF FullPoolIsDealt, isFull
  <2> QED
    BY <2>4, <2>5
<1>4. ASSUME NEW m \in Member, NEW n \in PickNumber, NEW t \in Team, pickTeam(m, n, t)
      PROVE  FullPoolIsDealt'
  <2>1. /\ doc # NoPool
        /\ doc.numberToPick \in [PickNumber -> Pick]
        /\ doc'.numberToPick \in [PickNumber -> Pick]
        /\ doc'.size = doc.size /\ doc'.idToMember = doc.idToMember
        /\ \A k \in PickNumber : doc'.numberToPick[k].member = doc.numberToPick[k].member
    BY <1>4, PickTeamIsPicked, PickedFacts
  <2> QED
    BY <2>1 DEF FullPoolIsDealt, isFull
<1>5. CASE deletePool
  BY <1>5 DEF deletePool, FullPoolIsDealt
<1>6. ASSUME NEW n \in PickNumber, didNotifyTurn(n) PROVE FullPoolIsDealt'
  <2>1. doc \in PoolDocument /\ doc # NoPool /\ DOMAIN doc.numberToPick # {}
        /\ doc' = setNotified(doc, {n})
    BY <1>6 DEF didNotifyTurn, TypeOK
  <2>2. /\ doc'.size = doc.size /\ doc'.idToMember = doc.idToMember
        /\ DOMAIN doc'.numberToPick # {}
        /\ \A k \in PickNumber : doc'.numberToPick[k].member = doc.numberToPick[k].member
    BY <2>1, SetNotifiedFacts, PicksAllOrNone
  <2> QED
    BY <2>1, <2>2 DEF FullPoolIsDealt, isFull
<1>7. CASE UNCHANGED storeVars
  BY <1>7 DEF storeVars, FullPoolIsDealt, isFull
<1> QED
  BY <1>1, <1>2, <1>3, <1>4, <1>5, <1>6, <1>7 DEF Next

(* However members come and go, a full pool has a draft among exactly the  *)
(* people who are in it.                                                   *)
THEOREM FullPoolAlwaysDealt == Spec => []FullPoolIsDealt
<1>1. Init => FullPoolIsDealt
  BY DEF Init, FullPoolIsDealt
<1> QED
  BY <1>1, TypeCorrect, FullPoolIsDealtStep, PTL DEF Spec

-----------------------------------------------------------------------------
(* The teams. *)

(* Every operation keeps the teams of an unmixed deal different. *)
LEMMA TeamsUniqueStep ==
  TypeOK /\ PicksInOrder /\ TeamsUnique /\ [Next]_storeVars => TeamsUnique'
<1> SUFFICES ASSUME TypeOK, PicksInOrder, TeamsUnique, [Next]_storeVars PROVE TeamsUnique'
  OBVIOUS
<1>0. ASSUME doc \in PoolDocument, doc # NoPool, doc' \in PoolDocument,
             DOMAIN doc'.numberToPick = DOMAIN doc.numberToPick,
             \A k \in DOMAIN doc.numberToPick :
               doc'.numberToPick[k].teamId = doc.numberToPick[k].teamId,
             doc'.mixed = doc.mixed
      PROVE  TeamsUnique'
  <2>1. madePicks(doc') = madePicks(doc) /\ madePicks(doc) \subseteq DOMAIN doc.numberToPick
    BY <1>0, SameTeams DEF madePicks
  <2> QED
    BY <2>1, <1>0 DEF TeamsUnique
<1>1. ASSUME NEW m \in Member, NEW s \in Size, createPool(m, s) PROVE TeamsUnique'
  <2>1. doc'.numberToPick = noPicks
    BY <1>1, NewPoolFacts DEF createPool
  <2> QED
    BY <2>1 DEF TeamsUnique, madePicks, noPicks
<1>2. ASSUME NEW m \in Member, joinPool(m) PROVE TeamsUnique'
  <2>1. doc \in PoolDocument /\ doc # NoPool /\ doc' \in addMember(doc, m)
    BY <1>2 DEF joinPool, TypeOK
  <2>2. doc' \in PoolDocument
    BY <2>1, AddMemberFacts
  <2>3. CASE doc' = doc
    BY <2>1, <2>2, <2>3, <1>0
  <2>4. CASE doc' = [doc EXCEPT !.idToMember = doc.idToMember \cup {m}]
    <3>1. doc'.numberToPick = doc.numberToPick /\ doc'.mixed = doc.mixed
      BY <2>1, <2>4 DEF PoolDocument
    <3> QED
      BY <2>1, <2>2, <3>1, <1>0
  <2>5. CASE /\ doc'.numberToPick \in [PickNumber -> Pick]
             /\ \A n \in PickNumber : doc'.numberToPick[n].teamId = NoTeam
    BY <2>5 DEF TeamsUnique, madePicks, openPicks
  <2> QED
    BY <2>1, <2>3, <2>4, <2>5, AddMemberFacts
<1>3. ASSUME NEW m \in Member, leavePool(m) PROVE TeamsUnique'
  BY <1>0, <1>3, RemoveMemberFacts DEF leavePool, TypeOK
<1>4. ASSUME NEW m \in Member, NEW n \in PickNumber, NEW t \in Team, pickTeam(m, n, t)
      PROVE  TeamsUnique'
  <2> SUFFICES ASSUME ~doc'.mixed, NEW i \in madePicks(doc'), NEW j \in madePicks(doc'),
                      doc'.numberToPick[i].teamId = doc'.numberToPick[j].teamId
               PROVE  i = j
    BY DEF TeamsUnique
  <2> DEFINE old(k) == doc.numberToPick[k].teamId
             new(k) == doc'.numberToPick[k].teamId
  <2>1. NumPicks \in Nat /\ PickNumber = 1..NumPicks /\ n \in 1..NumPicks
    BY PoolAssumption DEF PickNumber
  <2>2. /\ doc # NoPool /\ ~doc.mixed /\ t \in teamsRemaining(doc)
        /\ new(n) = t
        /\ \A k \in PickNumber :
             \/ k = n
             \/ new(k) = old(k)
             \/ k = NumPicks /\ n = NumPicks - 1 /\ new(k) \in teamsRemaining(doc) \ {t}
    BY <1>4, PickTeamIsPicked, PickedFacts
  <2>3. madePicks(doc) = 1..(n - 1) /\ n < NumPicks
        /\ madePicks(doc') = IF n = NumPicks - 1 THEN PickNumber ELSE 1..n
    BY <1>4, PickTeamIsPicked, PickedMade DEF PicksInOrder, InOrder
  <2>4. \A k \in madePicks(doc) : old(k) \notin teamsRemaining(doc)
    BY DEF teamsRemaining
  <2>5. \A k, l \in madePicks(doc) : old(k) = old(l) => k = l
    BY <2>2 DEF TeamsUnique
  <2>6. \A k \in madePicks(doc) : new(k) = old(k)
    BY <2>1, <2>2, <2>3
  <2>7. ASSUME NEW k \in madePicks(doc'), k \notin madePicks(doc)
        PROVE  \/ k = n
               \/ k = NumPicks /\ n = NumPicks - 1
    BY <2>1, <2>3, <2>7
  <2> HIDE DEF old, new
  <2>8. n \notin madePicks(doc) /\ NumPicks \notin madePicks(doc)
    BY <2>1, <2>3
  <2>9. new(NumPicks) \in teamsRemaining(doc) \ {t} \/ new(NumPicks) = old(NumPicks)
    BY <2>1, <2>2, <2>3
  <2>10. NumPicks \in madePicks(doc') => new(NumPicks) \in teamsRemaining(doc) \ {t}
    <3>1. NumPicks \in madePicks(doc') => new(NumPicks) # NoTeam
      BY DEF madePicks, openPicks, new
    <3>2. old(NumPicks) = NoTeam
      <4>1. DOMAIN doc.numberToPick = PickNumber
        BY <1>4, PickTeamIsPicked, PickedFacts
      <4>2. NumPicks \in DOMAIN doc.numberToPick
        BY <4>1, <2>1
      <4> QED
        BY <4>2, <2>8 DEF madePicks, openPicks, old
    <3> QED
      BY <3>1, <3>2, <2>9
  <2>11. new(i) = new(j)
    BY DEF new
  <2> QED
    BY <2>2, <2>4, <2>5, <2>6, <2>7, <2>10, <2>11
<1>5. CASE deletePool
  BY <1>5 DEF deletePool, TeamsUnique
<1>6. ASSUME NEW n \in PickNumber, didNotifyTurn(n) PROVE TeamsUnique'
  <2>1. doc \in PoolDocument /\ doc # NoPool /\ DOMAIN doc.numberToPick # {}
        /\ doc' = setNotified(doc, {n})
    BY <1>6 DEF didNotifyTurn, TypeOK
  <2>2. /\ doc' \in PoolDocument /\ DOMAIN doc'.numberToPick = DOMAIN doc.numberToPick
        /\ doc'.mixed = doc.mixed
        /\ \A k \in DOMAIN doc.numberToPick :
             doc'.numberToPick[k].teamId = doc.numberToPick[k].teamId
    BY <2>1, SetNotifiedFacts, PicksAllOrNone
  <2> QED
    BY <2>1, <2>2, <1>0
<1>7. CASE UNCHANGED storeVars
  BY <1>7 DEF storeVars, TeamsUnique, madePicks, openPicks
<1> QED
  BY <1>1, <1>2, <1>3, <1>4, <1>5, <1>6, <1>7 DEF Next

(* No team is drafted twice unless a pick came from the screen of an       *)
(* earlier deal.                                                           *)
THEOREM NoTeamDraftedTwice == Spec => []TeamsUnique
<1>1. Init => TeamsUnique
  BY DEF Init, TeamsUnique
<1> QED
  BY <1>1, TypeCorrect, PicksAreInOrder, TeamsUniqueStep, PTL DEF Spec

(* Then a complete draft has used every team: thirty different ones. *)
THEOREM WholeLeagueDrafted == Spec => []CompleteIsWholeLeague
<1>1. TypeOK /\ PicksInOrder /\ TeamsUnique => CompleteIsWholeLeague
  <2> SUFFICES ASSUME TypeOK, PicksInOrder, TeamsUnique,
                      doc # NoPool, ~doc.mixed, isComplete(doc)
               PROVE  teamsRemaining(doc) = {}
    BY DEF CompleteIsWholeLeague
  <2>1. doc \in PoolDocument /\ doc.numberToPick \in [PickNumber -> Pick]
    BY PicksAllOrNone DEF TypeOK, isComplete
  <2>2. NumPicks \in Nat /\ NumPicks \in PickNumber /\ PickNumber = 1..NumPicks
    BY PoolAssumption DEF PickNumber
  <2>3. NumPicks \in madePicks(doc)
    BY <2>1, <2>2 DEF isComplete, madePicks, openPicks
  <2>4. madePicks(doc) = PickNumber
    BY <2>1, <2>2, <2>3, PicksAllOrNone DEF PicksInOrder
  <2> DEFINE f == [n \in PickNumber |-> doc.numberToPick[n].teamId]
  <2>5. f \in [PickNumber -> Team]
    BY <2>1, <2>4 DEF madePicks, openPicks, Pick
  <2>6. f \in Injection(PickNumber, Team)
    <3>1. \A i, j \in PickNumber : f[i] = f[j] => i = j
      BY <2>4 DEF TeamsUnique
    <3> QED
      BY <3>1, <2>5 DEF Injection, IsInjective
  <2>7. Cardinality(PickNumber) = Cardinality(Team)
    BY <2>2, FS_Interval, PoolAssumption
  <2>8. f \in Surjection(PickNumber, Team)
    BY <2>6, <2>7, FS_Injection, PoolAssumption
  <2>9. \A u \in Team : \E n \in PickNumber : doc.numberToPick[n].teamId = u
    BY <2>8 DEF Surjection
  <2> QED
    BY <2>4, <2>9 DEF teamsRemaining
<1> QED
  BY <1>1, TypeCorrect, PicksAreInOrder, NoTeamDraftedTwice, PTL

-----------------------------------------------------------------------------

(* The document exists only after createPool: its id is used once. *)
CreatedOnce == doc # NoPool => created

(* No operation but createPool makes the document exist. *)
LEMMA CreatedOnceStep == CreatedOnce /\ [Next]_storeVars => CreatedOnce'
BY DEF CreatedOnce, Next, storeVars, createPool, joinPool, leavePool, deletePool,
       pickTeam, didNotifyTurn

(* Within a deal no operation, retried or repeated as it may be, changes a *)
(* pick that was made or whose pick it is.                                 *)
THEOREM MadePicksAreFinal == Spec => MadePickIsFinal
<1>1. TypeOK /\ PicksInOrder /\ CreatedOnce /\ [Next]_storeVars
        => [KeepsMadePicks]_storeVars
  <2> SUFFICES ASSUME TypeOK, PicksInOrder, CreatedOnce, [Next]_storeVars,
                      doc # NoPool, doc' # NoPool
               PROVE  Follows(doc, doc')
    BY DEF KeepsMadePicks, Follows
  <2>0. doc \in PoolDocument /\ InOrder(doc)
    BY DEF TypeOK, PicksInOrder, InOrder
  <2>1. ASSUME NEW m \in Member, NEW s \in Size, createPool(m, s) PROVE FALSE
    BY <2>1 DEF CreatedOnce, createPool
  <2>2. ASSUME NEW m \in Member, joinPool(m) PROVE Follows(doc, doc')
    BY <2>0, <2>2, AddMemberKeeps DEF joinPool
  <2>3. ASSUME NEW m \in Member, leavePool(m) PROVE Follows(doc, doc')
    BY <2>0, <2>3, RemoveMemberKeeps DEF leavePool
  <2>4. ASSUME NEW m \in Member, NEW n \in PickNumber, NEW t \in Team, pickTeam(m, n, t)
        PROVE  Follows(doc, doc')
    BY <2>0, <2>4, PickTeamIsPicked, PickedKeeps
  <2>5. CASE deletePool
    BY <2>5 DEF deletePool
  <2>6. ASSUME NEW n \in PickNumber, didNotifyTurn(n) PROVE Follows(doc, doc')
    BY <2>0, <2>6, SetNotifiedKeeps DEF didNotifyTurn
  <2>7. CASE UNCHANGED storeVars
    BY <2>0, <2>7, SamePicksFollow DEF storeVars
  <2> QED
    BY <2>1, <2>2, <2>3, <2>4, <2>5, <2>6, <2>7 DEF Next
<1>2. Init => CreatedOnce
  BY DEF Init, CreatedOnce
<1> QED
  BY <1>1, <1>2, TypeCorrect, PicksAreInOrder, CreatedOnceStep, PTL
     DEF Spec, MadePickIsFinal

-----------------------------------------------------------------------------
(* The drafts of DraftDay. *)

(* p is full, and a shuffle of its members has been dealt by its order. *)
Dealt(p) ==
  /\ isFull(p)
  /\ p.numberToPick \in [PickNumber -> Pick]
  /\ \E seat \in Shuffles(p.idToMember) :
       \A n \in PickNumber : p.numberToPick[n].member = seat[sizeToDraftOrder[p.size][n]]

DraftIsDealt == doc # NoPool /\ doc.deal > 0 => Dealt(doc)

(* Whoever fills a pool deals it. *)
LEMMA AddMemberDeals ==
  ASSUME NEW p \in PoolDocument, NEW m \in Member, NEW q \in addMember(p, m), isFull(q),
         Cardinality(p.idToMember) < p.size
  PROVE  Dealt(q)
<1> DEFINE r == [p EXCEPT !.idToMember = p.idToMember \cup {m}]
<1>1. /\ r \in PoolDocument /\ r.size \in Size /\ r.size = p.size
      /\ r.idToMember = p.idToMember \cup {m} /\ r.deal = p.deal
  BY DEF PoolDocument
<1>2. IsFiniteSet(p.idToMember) /\ Cardinality(p.idToMember) \in Nat /\ p.size \in Nat
  BY FS_Subset, FS_CardinalityType, PoolAssumption DEF PoolDocument, Size
<1>a. ~(Cardinality(p.idToMember) >= p.size)
  BY <1>2
<1>b. ~isFull(r) => q = r
  BY <1>a DEF addMember
<1>3. isFull(r)
  BY <1>b
<1>4. PICK seat \in Shuffles(r.idToMember) :
        q = [r EXCEPT !.numberToPick = dealtPicks(r.size, seat),
                      !.deal = r.deal + 1, !.mixed = FALSE]
  BY <1>1, <1>3, <1>a DEF addMember
<1> HIDE DEF r
<1>5. /\ q.size = r.size /\ q.idToMember = r.idToMember
      /\ q.numberToPick = dealtPicks(r.size, seat)
  BY <1>1, <1>4 DEF PoolDocument
<1>6. r.size = Cardinality(r.idToMember) /\ r.idToMember \in SUBSET Member
  BY <1>1, <1>3 DEF isFull, PoolDocument
<1>7. dealtPicks(r.size, seat) \in [PickNumber -> Pick]
  BY <1>1, <1>6, DealtPicksFacts
<1>8. \A n \in PickNumber :
        dealtPicks(r.size, seat)[n].member = seat[sizeToDraftOrder[r.size][n]]
  BY DEF dealtPicks
<1> QED
  BY <1>5, <1>7, <1>8 DEF Dealt

(* DraftDay's steps are steps of PoolStore. *)
LEMMA DraftIsStore == ASSUME TypeOK, [DraftNext]_storeVars PROVE [Next]_storeVars
<1>1. ASSUME NEW m \in Member, pickLowest(m) PROVE Next
  <2>1. PICK n \in PickNumber, t \in teamsRemaining(doc) : pickTeam(m, n, t)
    BY <1>1 DEF pickLowest
  <2> QED
    BY <2>1 DEF Next, teamsRemaining
<1> QED
  BY <1>1 DEF DraftNext, Next

(* The invariants of PoolStore hold of them. *)
LEMMA DraftInvariants == DraftSpec => [](TypeOK /\ PicksInOrder /\ FullPoolIsDealt)
<1>1. Init => TypeOK /\ PicksInOrder /\ FullPoolIsDealt
  BY DEF Init, TypeOK, PicksInOrder, FullPoolIsDealt
<1>2. TypeOK /\ PicksInOrder /\ FullPoolIsDealt /\ [DraftNext]_storeVars
        => (TypeOK /\ PicksInOrder /\ FullPoolIsDealt)'
  BY DraftIsStore, TypeStep, PicksInOrderStep, FullPoolIsDealtStep
<1> QED
  BY <1>1, <1>2, PTL DEF DraftSpec

(* Nobody leaves a draft, so it stays dealt. *)
LEMMA DraftIsDealtStep ==
  ASSUME TypeOK, DraftIsDealt, [DraftNext]_storeVars
  PROVE  DraftIsDealt'
<1> SUFFICES ASSUME doc' # NoPool, doc'.deal > 0 PROVE Dealt(doc')
  BY DEF DraftIsDealt, Dealt, isFull
<1>1. ASSUME NEW m \in Member, NEW s \in Size, createPool(m, s) PROVE FALSE
  BY <1>1, NewPoolFacts DEF createPool
<1>2. ASSUME NEW m \in Member, joinPool(m) PROVE Dealt(doc')
  <2>1. doc \in PoolDocument /\ doc # NoPool /\ doc' \in addMember(doc, m)
    BY <1>2 DEF joinPool, TypeOK
  <2> DEFINE q == doc'
  <2>2. q \in addMember(doc, m) /\ q.deal > 0
    BY <2>1
  <2> HIDE DEF q
  <2>3. CASE q = doc
    BY <2>1, <2>2, <2>3 DEF DraftIsDealt, q
  <2>4. CASE q = [doc EXCEPT !.idToMember = doc.idToMember \cup {m}] /\ ~isFull(q)
             /\ Cardinality(doc.idToMember) < doc.size
    <3>1. q.deal = doc.deal
      BY <2>1, <2>4 DEF PoolDocument
    <3>2. isFull(doc)
      BY <2>1, <2>2, <3>1 DEF DraftIsDealt, Dealt
    <3>3. Cardinality(doc.idToMember) = doc.size /\ doc.size \in Nat
      BY <2>1, <3>2, PoolAssumption DEF isFull, PoolDocument, Size
    <3> QED
      BY <2>4, <3>3
  <2>5. CASE Cardinality(doc.idToMember) < doc.size /\ isFull(q)
    BY <2>1, <2>2, <2>5, AddMemberDeals DEF q
  <2> QED
    BY <2>1, <2>2, <2>3, <2>4, <2>5, AddMemberFacts DEF q
<1>3. ASSUME NEW m \in Member, pickLowest(m) PROVE Dealt(doc')
  <2>1. PICK n \in PickNumber, t \in teamsRemaining(doc) : pickTeam(m, n, t)
    BY <1>3 DEF pickLowest
  <2>2. t \in Team
    BY DEF teamsRemaining
  <2>3. doc \in PoolDocument /\ doc # NoPool /\ Picked(doc, doc', m, n, t)
    BY <2>1, <2>2, PickTeamIsPicked
  <2> DEFINE q == doc'
  <2>4. /\ q.numberToPick \in [PickNumber -> Pick]
        /\ q.size = doc.size /\ q.idToMember = doc.idToMember /\ q.deal = doc.deal
        /\ \A k \in PickNumber : q.numberToPick[k].member = doc.numberToPick[k].member
    BY <2>2, <2>3, PickedFacts
  <2>5. q.deal > 0
    OBVIOUS
  <2> HIDE DEF q
  <2>6. Dealt(doc)
    BY <2>3, <2>4, <2>5 DEF DraftIsDealt
  <2>7. Dealt(q)
    BY <2>4, <2>6 DEF Dealt, isFull
  <2> QED
    BY <2>7 DEF q
<1>4. CASE UNCHANGED storeVars
  BY <1>4 DEF storeVars, DraftIsDealt
<1> QED
  BY <1>1, <1>2, <1>3, <1>4 DEF DraftNext

LEMMA DraftStaysDealt == DraftSpec => []DraftIsDealt
<1>1. Init => DraftIsDealt
  BY DEF Init, DraftIsDealt
<1> QED
  BY <1>1, DraftIsDealtStep, DraftInvariants, PTL DEF DraftSpec

(* Where the made picks are a prefix of the draft and not all of it, there *)
(* is a first pick without a team.                                         *)
LEMMA CurrentPickExists ==
  ASSUME NEW p \in PoolDocument, InOrder(p), DOMAIN p.numberToPick = PickNumber,
         NumPicks \notin madePicks(p)
  PROVE  \E n \in PickNumber : isCurrentPick(p, n)
<1> DEFINE M == madePicks(p)
           k == Cardinality(M)
<1>0. NumPicks \in Nat /\ NumPicks >= 2
  BY PoolAssumption
<1>1. M \subseteq PickNumber /\ \A n \in M : 1..n \subseteq M
  BY PicksAllOrNone DEF InOrder
<1>2. IsFiniteSet(M) /\ k \in Nat
  <2>1. IsFiniteSet(PickNumber)
    BY <1>0, FS_Interval DEF PickNumber
  <2> QED
    BY <1>1, <2>1, FS_Subset, FS_CardinalityType
<1>3. \A i \in Nat : IsFiniteSet(1..i) /\ Cardinality(1..i) = i
  <2> SUFFICES ASSUME NEW i \in Nat PROVE IsFiniteSet(1..i) /\ Cardinality(1..i) = i
    OBVIOUS
  <2>1. IsFiniteSet(1..i) /\ Cardinality(1..i) = IF 1 > i THEN 0 ELSE i - 1 + 1
    BY FS_Interval
  <2> QED
    BY <2>1
<1> HIDE DEF M
<1>4. \A i \in M : i \in Nat /\ i <= k
  <2> SUFFICES ASSUME NEW i \in M PROVE i \in Nat /\ i <= k
    OBVIOUS
  <2>1. i \in Nat /\ 1..i \in SUBSET M
    BY <1>1 DEF PickNumber
  <2>2. Cardinality(1..i) <= k
    BY <1>2, <2>1, FS_Subset
  <2> QED
    BY <1>3, <2>1, <2>2
<1>5. \A j \in 1..k : j \in M
  <2> SUFFICES ASSUME NEW j \in 1..k, j \notin M PROVE FALSE
    OBVIOUS
  <2>1. j - 1 \in Nat /\ j - 1 < k
    BY <1>2
  <2>2. \A i \in M : i \in 1..(j - 1)
    <3> SUFFICES ASSUME NEW i \in M PROVE i \in 1..(j - 1)
      OBVIOUS
    <3>1. i \in PickNumber /\ j \notin 1..i
      BY <1>1
    <3> QED
      BY <3>1, <2>1 DEF PickNumber
  <2>3. k <= Cardinality(1..(j - 1))
    BY <1>3, <2>1, <2>2, FS_Subset
  <2>4. Cardinality(1..(j - 1)) = j - 1
    BY <1>3, <2>1
  <2> QED
    BY <1>2, <2>1, <2>3, <2>4
<1>6. k + 1 \in PickNumber
  <2>1. k # NumPicks
    <3> SUFFICES ASSUME k = NumPicks PROVE FALSE
      OBVIOUS
    <3>1. NumPicks \in 1..k
      BY <1>0
    <3> QED
      BY <1>5, <3>1 DEF M
  <2>2. k <= NumPicks
    <3>1. k = 0 \/ k \in 1..k
      BY <1>2
    <3> QED
      BY <1>0, <1>1, <1>5, <3>1 DEF PickNumber
  <2> QED
    BY <1>0, <1>2, <2>1, <2>2 DEF PickNumber
<1>7. openPicks(p) = PickNumber \ M
  BY DEF openPicks, madePicks, M
<1>8. k + 1 \in openPicks(p)
  BY <1>2, <1>4, <1>6, <1>7
<1>9. \A j \in openPicks(p) : k + 1 <= j
  <2> SUFFICES ASSUME NEW j \in PickNumber, j \notin M PROVE k + 1 <= j
    BY <1>7
  <2>1. j \notin 1..k
    BY <1>5
  <2> QED
    BY <1>2, <2>1 DEF PickNumber
<1> QED
  BY <1>6, <1>8, <1>9 DEF isCurrentPick

(* As long as a draft is not complete somebody in the pool can make the    *)
(* next pick, and it is never the last one: PicksInOrder leaves a first    *)
(* pick without a team, FullPoolIsDealt says whose it is.                  *)
THEOREM NextPickIsSomebodys == DraftSpec => []SomebodyCanPick
<1>1. TypeOK /\ PicksInOrder /\ FullPoolIsDealt /\ DraftIsDealt => SomebodyCanPick
  <2> SUFFICES ASSUME TypeOK, PicksInOrder, FullPoolIsDealt, DraftIsDealt,
                      doc # NoPool, doc.deal > 0, ~isComplete(doc)
               PROVE  \E m \in doc.idToMember, n \in 1..(NumPicks - 1) : isTurnOf(doc, m, n)
    BY DEF SomebodyCanPick
  <2>1. doc \in PoolDocument /\ InOrder(doc)
    BY DEF TypeOK, PicksInOrder, InOrder
  <2>2. isFull(doc) /\ doc.numberToPick \in [PickNumber -> Pick]
    BY DEF DraftIsDealt, Dealt
  <2>3. \A n \in PickNumber : doc.numberToPick[n].member \in doc.idToMember
    BY <2>2 DEF FullPoolIsDealt
  <2>4. NumPicks \in PickNumber /\ NumPicks \in Nat /\ NumPicks >= 2
    BY PoolAssumption DEF PickNumber
  <2>5. NumPicks \notin madePicks(doc)
    BY <2>2, <2>4 DEF isComplete, madePicks, openPicks
  <2>6. PICK n \in PickNumber : isCurrentPick(doc, n)
    BY <2>1, <2>2, <2>5, CurrentPickExists
  <2>7. n # NumPicks
    <3> SUFFICES ASSUME n = NumPicks PROVE FALSE
      OBVIOUS
    <3>1. NumPicks - 1 \in PickNumber /\ NumPicks - 1 < n
      BY <2>4 DEF PickNumber
    <3>2. NumPicks - 1 \notin openPicks(doc)
      BY <2>4, <2>6, <3>1 DEF isCurrentPick
    <3>3. NumPicks - 1 \in madePicks(doc)
      BY <2>2, <3>1, <3>2 DEF madePicks
    <3> QED
      BY <3>3 DEF PicksInOrder
  <2>8. n \in 1..(NumPicks - 1)
    BY <2>4, <2>7 DEF PickNumber
  <2> QED
    BY <2>3, <2>6, <2>8 DEF isTurnOf
<1> QED
  BY <1>1, DraftInvariants, DraftStaysDealt, PTL

(* In round r of an order o for s seats each seat comes once. *)
RoundIsBalanced(o, s, r) ==
  \A seat \in 1..s : \E n \in (r * s + 1)..((r + 1) * s) :
    \A k \in (r * s + 1)..((r + 1) * s) : o[k] = seat <=> k = n

OrdersAreBalanced ==
  \A s \in Size : \A r \in 0..(NumPicks \div s - 1) : RoundIsBalanced(sizeToDraftOrder[s], s, r)

(* The rounds are made of picks. *)
LEMMA RoundIsOfPicks ==
  ASSUME NEW s \in Size, NEW r \in 0..(NumPicks \div s - 1)
  PROVE  (r * s + 1)..((r + 1) * s) \subseteq PickNumber
<1>1. NumPicks \in Nat /\ s \in Nat /\ s > 0
  BY PoolAssumption DEF Size
<1> DEFINE q == NumPicks \div s
<1>2. q \in Nat /\ q * s <= NumPicks
  BY <1>1
<1> HIDE DEF q
<1>3. r \in Nat /\ r <= q - 1
  BY <1>2 DEF q
<1>4. (r + 1) * s <= q * s /\ r * s \in Nat /\ (r + 1) * s \in Nat /\ q * s \in Nat
  BY <1>1, <1>2, <1>3
<1>5. (r + 1) * s <= NumPicks
  BY <1>1, <1>2, <1>4
<1> QED
  BY <1>1, <1>4, <1>5 DEF PickNumber

(* Whatever the shuffle was, in each round every member has one pick, if   *)
(* only the orders in the table of Pool.swift are balanced: which seat a   *)
(* number belongs to is fixed, and the shuffle is a bijection.             *)
THEOREM RoundsAreFair ==
  ASSUME OrdersAreBalanced
  PROVE  DraftSpec => []EveryRoundHasEveryone
<1>1. TypeOK /\ DraftIsDealt => EveryRoundHasEveryone
  <2> SUFFICES ASSUME TypeOK, DraftIsDealt, doc # NoPool, doc.deal > 0,
                      NEW r \in 0..(NumPicks \div doc.size - 1), NEW m \in doc.idToMember
               PROVE  Cardinality(picksOf(m, (r * doc.size + 1)..((r + 1) * doc.size))) = 1
    BY DEF EveryRoundHasEveryone
  <2> DEFINE S == doc.idToMember
             s == doc.size
             round == (r * s + 1)..((r + 1) * s)
  <2>1. doc \in PoolDocument /\ Dealt(doc)
    BY DEF TypeOK, DraftIsDealt
  <2>2. s \in Size /\ IsFiniteSet(S) /\ Cardinality(S) = s /\ s \in Nat
    BY <2>1, FS_Subset, PoolAssumption DEF PoolDocument, Dealt, isFull, Size
  <2>3. PICK seat \in Shuffles(S) :
          \A n \in PickNumber : doc.numberToPick[n].member = seat[sizeToDraftOrder[s][n]]
    BY <2>1 DEF Dealt
  <2>4. seat \in [1..s -> S] /\ \A i, j \in 1..s : seat[i] = seat[j] => i = j
    BY <2>2, <2>3 DEF Shuffles
  <2>5. round \subseteq PickNumber
    BY <2>2, RoundIsOfPicks
  <2>6. \A j \in 1..s : \E n \in round : \A k \in round : sizeToDraftOrder[s][k] = j <=> k = n
    BY <2>2 DEF OrdersAreBalanced, RoundIsBalanced
  <2>7. \A k \in PickNumber : sizeToDraftOrder[s][k] \in 1..s
    BY <2>2, PoolAssumption DEF Size, PickNumber
  <2>8. m \in S
    OBVIOUS
  <2> HIDE DEF S, s, round
  <2>9. PICK j \in 1..s : seat[j] = m
    <3>1. IsFiniteSet(1..s) /\ Cardinality(1..s) = IF 1 > s THEN 0 ELSE s - 1 + 1
      BY <2>2, FS_Interval
    <3>2. Cardinality(1..s) = Cardinality(S)
      BY <2>2, <3>1
    <3>3. seat \in Injection(1..s, S)
      BY <2>4 DEF Injection, IsInjective
    <3>4. seat \in Surjection(1..s, S)
      BY <2>2, <3>2, <3>3, FS_Injection
    <3> QED
      BY <2>8, <3>4 DEF Surjection
  <2>10. PICK n \in round : \A k \in round : sizeToDraftOrder[s][k] = j <=> k = n
    BY <2>6
  <2>11. \A k \in round : doc.numberToPick[k].member = m <=> k = n
    BY <2>3, <2>4, <2>5, <2>7, <2>9, <2>10
  <2>12. picksOf(m, round) = {n}
    BY <2>11 DEF picksOf
  <2>13. Cardinality(picksOf(m, round)) = 1
    BY <2>12, FS_Singleton
  <2> QED
    BY <2>13 DEF round, s
<1> QED
  BY <1>1, DraftInvariants, DraftStaysDealt, PTL

(* The table of Pool.swift, entry by entry, is balanced in every round. *)
LEMMA OrderForTwoIsBalanced ==
  \A r \in 0..14 : RoundIsBalanced(draftOrders[2], 2, r)
<1> DEFINE o == draftOrders[2]
<1>1. /\ o[1] = 1 /\ o[2] = 2
     /\ o[3] = 2 /\ o[4] = 1
     /\ o[5] = 2 /\ o[6] = 1
     /\ o[7] = 2 /\ o[8] = 1
     /\ o[9] = 1 /\ o[10] = 2
     /\ o[11] = 2 /\ o[12] = 1
     /\ o[13] = 1 /\ o[14] = 2
     /\ o[15] = 2 /\ o[16] = 1
     /\ o[17] = 1 /\ o[18] = 2
     /\ o[19] = 2 /\ o[20] = 1
     /\ o[21] = 1 /\ o[22] = 2
     /\ o[23] = 2 /\ o[24] = 1
     /\ o[25] = 1 /\ o[26] = 2
     /\ o[27] = 2 /\ o[28] = 1
     /\ o[29] = 2 /\ o[30] = 1
  BY DEF draftOrders
<1> HIDE DEF o
<1>2. \A r \in 0..14 : RoundIsBalanced(o, 2, r)
  BY <1>1 DEF RoundIsBalanced
<1> QED
  BY <1>2 DEF o

LEMMA OrderForThreeIsBalanced ==
  \A r \in 0..9 : RoundIsBalanced(draftOrders[3], 3, r)
<1> DEFINE o == draftOrders[3]
<1>1. /\ o[1] = 1 /\ o[2] = 2 /\ o[3] = 3
     /\ o[4] = 3 /\ o[5] = 2 /\ o[6] = 1
     /\ o[7] = 2 /\ o[8] = 1 /\ o[9] = 3
     /\ o[10] = 3 /\ o[11] = 2 /\ o[12] = 1
     /\ o[13] = 1 /\ o[14] = 2 /\ o[15] = 3
     /\ o[16] = 3 /\ o[17] = 2 /\ o[18] = 1
     /\ o[19] = 1 /\ o[20] = 2 /\ o[21] = 3
     /\ o[22] = 3 /\ o[23] = 2 /\ o[24] = 1
     /\ o[25] = 2 /\ o[26] = 1 /\ o[27] = 3
     /\ o[28] = 3 /\ o[29] = 2 /\ o[30] = 1
  BY DEF draftOrders
<1> HIDE DEF o
<1>2. \A r \in 0..9 : RoundIsBalanced(o, 3, r)
  <2>1. RoundIsBalanced(o, 3, 0)
    BY <1>1 DEF RoundIsBalanced
  <2>2. RoundIsBalanced(o, 3, 1)
    BY <1>1 DEF RoundIsBalanced
  <2>3. RoundIsBalanced(o, 3, 2)
    BY <1>1 DEF RoundIsBalanced
  <2>4. RoundIsBalanced(o, 3, 3)
    BY <1>1 DEF RoundIsBalanced
  <2>5. RoundIsBalanced(o, 3, 4)
    BY <1>1 DEF RoundIsBalanced
  <2>6. RoundIsBalanced(o, 3, 5)
    BY <1>1 DEF RoundIsBalanced
  <2>7. RoundIsBalanced(o, 3, 6)
    BY <1>1 DEF RoundIsBalanced
  <2>8. RoundIsBalanced(o, 3, 7)
    BY <1>1 DEF RoundIsBalanced
  <2>9. RoundIsBalanced(o, 3, 8)
    BY <1>1 DEF RoundIsBalanced
  <2>10. RoundIsBalanced(o, 3, 9)
    BY <1>1 DEF RoundIsBalanced
  <2> QED
    BY <2>1, <2>2, <2>3, <2>4, <2>5, <2>6, <2>7, <2>8, <2>9, <2>10
<1> QED
  BY <1>2 DEF o

LEMMA OrderForFiveIsBalanced ==
  \A r \in 0..5 : RoundIsBalanced(draftOrders[5], 5, r)
<1> DEFINE o == draftOrders[5]
<1>1. /\ o[1] = 1 /\ o[2] = 2 /\ o[3] = 3 /\ o[4] = 4 /\ o[5] = 5
     /\ o[6] = 5 /\ o[7] = 4 /\ o[8] = 3 /\ o[9] = 2 /\ o[10] = 1
     /\ o[11] = 1 /\ o[12] = 2 /\ o[13] = 3 /\ o[14] = 5 /\ o[15] = 4
     /\ o[16] = 5 /\ o[17] = 4 /\ o[18] = 3 /\ o[19] = 2 /\ o[20] = 1
     /\ o[21] = 4 /\ o[22] = 2 /\ o[23] = 3 /\ o[24] = 1 /\ o[25] = 5
     /\ o[26] = 5 /\ o[27] = 4 /\ o[28] = 3 /\ o[29] = 2 /\ o[30] = 1
  BY DEF draftOrders
<1> HIDE DEF o
<1>2. \A r \in 0..5 : RoundIsBalanced(o, 5, r)
  <2>1. RoundIsBalanced(o, 5, 0)
    BY <1>1 DEF RoundIsBalanced
  <2>2. RoundIsBalanced(o, 5, 1)
    BY <1>1 DEF RoundIsBalanced
  <2>3. RoundIsBalanced(o, 5, 2)
    BY <1>1 DEF RoundIsBalanced
  <2>4. RoundIsBalanced(o, 5, 3)
    BY <1>1 DEF RoundIsBalanced
  <2>5. RoundIsBalanced(o, 5, 4)
    BY <1>1 DEF RoundIsBalanced
  <2>6. RoundIsBalanced(o, 5, 5)
    BY <1>1 DEF RoundIsBalanced
  <2> QED
    BY <2>1, <2>2, <2>3, <2>4, <2>5, <2>6
<1> QED
  BY <1>2 DEF o

LEMMA OrderForSixIsBalanced ==
  \A r \in 0..4 : RoundIsBalanced(draftOrders[6], 6, r)
<1> DEFINE o == draftOrders[6]
<1>1. /\ o[1] = 1 /\ o[2] = 2 /\ o[3] = 3 /\ o[4] = 4 /\ o[5] = 5 /\ o[6] = 6
     /\ o[7] = 6 /\ o[8] = 5 /\ o[9] = 4 /\ o[10] = 3 /\ o[11] = 2 /\ o[12] = 1
     /\ o[13] = 5 /\ o[14] = 2 /\ o[15] = 4 /\ o[16] = 3 /\ o[17] = 6 /\ o[18] = 1
     /\ o[19] = 5 /\ o[20] = 6 /\ o[21] = 4 /\ o[22] = 2 /\ o[23] = 3 /\ o[24] = 1
     /\ o[25] = 6 /\ o[26] = 5 /\ o[27] = 4 /\ o[28] = 3 /\ o[29] = 2 /\ o[30] = 1
  BY DEF draftOrders
<1> HIDE DEF o
<1>2. \A r \in 0..4 : RoundIsBalanced(o, 6, r)
  <2>1. RoundIsBalanced(o, 6, 0)
    BY <1>1 DEF RoundIsBalanced
  <2>2. RoundIsBalanced(o, 6, 1)
    BY <1>1 DEF RoundIsBalanced
  <2>3. RoundIsBalanced(o, 6, 2)
    BY <1>1 DEF RoundIsBalanced
  <2>4. RoundIsBalanced(o, 6, 3)
    BY <1>1 DEF RoundIsBalanced
  <2>5. RoundIsBalanced(o, 6, 4)
    BY <1>1 DEF RoundIsBalanced
  <2> QED
    BY <2>1, <2>2, <2>3, <2>4, <2>5
<1> QED
  BY <1>2 DEF o

LEMMA DraftOrdersAreBalanced ==
  ASSUME NumPicks = 30, sizeToDraftOrder = draftOrders
  PROVE  OrdersAreBalanced
<1>1. Size = {2, 3, 5, 6}
  BY DEF Size, draftOrders
<1>2. 30 \div 2 = 15 /\ 30 \div 3 = 10 /\ 30 \div 5 = 6 /\ 30 \div 6 = 5
  OBVIOUS
<1> QED
  BY <1>1, <1>2, OrderForTwoIsBalanced, OrderForThreeIsBalanced, OrderForFiveIsBalanced,
     OrderForSixIsBalanced DEF OrdersAreBalanced

(* With the thirty teams and the table of Pool.swift every draft is fair   *)
(* in every round, whoever the members are (Pool.sizeToDraftOrder).        *)
THEOREM DraftsAreFair ==
  ASSUME NumPicks = 30, sizeToDraftOrder = draftOrders
  PROVE  DraftSpec => []EveryRoundHasEveryone
<1>1. OrdersAreBalanced
  BY DraftOrdersAreBalanced
<1> QED
  BY <1>1, RoundsAreFair
=============================================================================

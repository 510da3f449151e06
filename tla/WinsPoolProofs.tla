--------------------------- MODULE WinsPoolProofs ---------------------------
(***************************************************************************)
(* WinsPool implements PoolStore and keeps its invariants, for every set   *)
(* of members, devices, teams and transactions, every number of picks and  *)
(* every draft order, however often people leave and apps are killed.      *)
(***************************************************************************)
EXTENDS WinsPool, PoolProofs, SequenceTheorems

-----------------------------------------------------------------------------
(* The inductive invariant.                                                *)

Types ==
  /\ doc \in PoolDocument \cup {NoPool}
  /\ link \in {"none", "created", "shared"}
  /\ txn \in [Txn -> TxnRecord \cup {noTxn}]
  /\ writes \in [Device -> Seq(Mutation)]
  /\ screen \in [Device -> {"pools", "draft", "pick"}]
  /\ shown \in [Device -> PoolDocument \cup {NoPool}]
  /\ pickVC \in [Device -> [teamId : Team \cup {NoTeam},
                          number : PickNumber \cup {0}, deal : Nat]]
  /\ notified \in [Device -> SUBSET (Nat \X PickNumber)]
  /\ leaves \in 0..MaxLeaves
  /\ crashes \in 0..MaxCrashes

(* Where there are writes of a kind in the queues ws. *)
At(ws, kind) ==
  {x \in Device \X Nat : x[2] \in DOMAIN ws[x[1]] /\ ws[x[1]][x[2]].kind = kind}

(* The pool was asked for and is not on the server yet. *)
unborn == At(writes, "set") # {}

(* It is created once, by the first write of one device, and nothing can   *)
(* be seen or asked of it before.                                          *)
CreatedOnce ==
  /\ \A x, y \in At(writes, "set") : x = y /\ x[2] = 1
  /\ unborn => doc = NoPool
  /\ link = "none" =>
       /\ doc = NoPool
       /\ \A d \in Device : writes[d] = <<>> /\ shown[d] = NoPool

DocumentIsSound == doc # NoPool => InOrder(doc) /\ DealtHasPicks(doc)

(* p is an earlier version of the document, or the document with what was  *)
(* asked of it and not sent.                                               *)
Past(p) ==
  /\ DealtHasPicks(p)
  /\ unborn => p.deal = 0
  /\ p.deal <= leaves + 1
  /\ doc # NoPool => Follows(p, doc)

(* What a device shows is such a version. *)
ShownIsPast == \A d \in Device : shown[d] # NoPool => Past(shown[d])

(* All the numbers below n have teams, and not t. *)
Free(p, t, n) == \A i \in 1..(n - 1) : i \in madePicks(p) /\ p.numberToPick[i].teamId # t

(* Team t was chosen for number n of deal k, and as long as the deal lasts *)
(* nobody but the member whose turn it is can take it.                     *)
Choice(t, n, k) ==
  /\ t \in Team /\ n \in PickNumber /\ k \in 1..(leaves + 1)
  /\ link # "none" /\ ~unborn
  /\ doc # NoPool => k <= doc.deal
  /\ doc # NoPool /\ k = doc.deal => Free(doc, t, n)

ScreensAreSound ==
  \A d \in Device :
    /\ screen[d] # "pools" => shown[d] # NoPool
    /\ screen[d] = "pick" => Choice(pickVC[d].teamId, pickVC[d].number, pickVC[d].deal)

(* A pick in flight was free when it was chosen; a transaction that will   *)
(* commit has read the document as it is; one that went well is in it.     *)
TransactionIsSound(t) ==
  /\ t.op = "pick" => Choice(t.teamId, t.number, t.deal)
  /\ t.op = "pick" /\ t.caller = "waiting" => screen[t.dev] = "pick"
  /\ t.phase = "commit" => t.read = doc /\ admitted(doc, t)
  /\ t.phase = "ok" /\ t.op = "pick" /\ doc # NoPool /\ t.deal = doc.deal =>
       doc.numberToPick[t.number].teamId = t.teamId

TransactionsAreSound == \A x \in Txn : txn[x] # noTxn => TransactionIsSound(txn[x])

(* Every deal but the first was paid for by somebody who left, and so will *)
(* be the next one as soon as the pool is not full.                        *)
LeavesPayForDeals ==
  /\ IsFiniteSet(At(writes, "leave"))
  /\ Cardinality(At(writes, "leave")) <= leaves
  /\ doc # NoPool =>
       doc.deal + Cardinality(At(writes, "leave")) <= leaves + (IF isFull(doc) THEN 1 ELSE 0)

(* A turn write asks for a pick of its own member, in a deal that was.     *)
NotifyIsSound ==
  \A x \in At(writes, "notify") :
    LET w == writes[x[1]][x[2]]
    IN  /\ w.deal \in 1..(leaves + 1)
        /\ ~unborn
        /\ crashes = 0 => w.live
        /\ doc # NoPool =>
             /\ DOMAIN doc.numberToPick # {}
             /\ w.deal <= doc.deal
             /\ w.deal = doc.deal =>
                  doc.numberToPick[w.number].member = currentMember[x[1]]

IInv ==
  /\ Types
  /\ CreatedOnce
  /\ DocumentIsSound
  /\ ShownIsPast
  /\ ScreensAreSound
  /\ TransactionsAreSound
  /\ LeavesPayForDeals
  /\ NotifyIsSound
  /\ FlagMeansAlert

-----------------------------------------------------------------------------
(* The queues. *)

Kind == {"set", "leave", "delete", "notify"}

(* The four kinds of writes. *)
LEMMA MutationKinds ==
  /\ \A s \in Size : set(s) \in Mutation
  /\ leave \in Mutation /\ delete \in Mutation
  /\ \A n \in PickNumber, k \in 0..(MaxLeaves + 1), l \in BOOLEAN :
       notify(n, k, l) \in Mutation
  /\ \A w \in Mutation :
       \/ w.kind = "set" /\ \E s \in Size : w = set(s)
       \/ w.kind = "leave" /\ w = leave
       \/ w.kind = "delete" /\ w = delete
       \/ /\ w.kind = "notify"
          /\ w.number \in PickNumber /\ w.deal \in 0..(MaxLeaves + 1) /\ w.live \in BOOLEAN
          /\ w = notify(w.number, w.deal, w.live)
<1>1. /\ \A s \in Size : set(s) \in Mutation
      /\ leave \in Mutation /\ delete \in Mutation
      /\ \A n \in PickNumber, k \in 0..(MaxLeaves + 1), l \in BOOLEAN :
           notify(n, k, l) \in Mutation
  BY DEF Mutation
<1>2. ASSUME NEW w \in Mutation
      PROVE  \/ w.kind = "set" /\ \E s \in Size : w = set(s)
             \/ w.kind = "leave" /\ w = leave
             \/ w.kind = "delete" /\ w = delete
             \/ /\ w.kind = "notify"
                /\ w.number \in PickNumber /\ w.deal \in 0..(MaxLeaves + 1)
                /\ w.live \in BOOLEAN
                /\ w = notify(w.number, w.deal, w.live)
  <2>1. CASE w \in {set(s) : s \in Size}
    BY <2>1 DEF set
  <2>2. CASE w \in {leave, delete}
    BY <2>2 DEF leave, delete
  <2>3. CASE w \in {notify(n, k, l) : n \in PickNumber, k \in 0..(MaxLeaves + 1),
                                     l \in BOOLEAN}
    BY <2>3 DEF notify
  <2> QED
    BY <2>1, <2>2, <2>3 DEF Mutation
<1> QED
  BY <1>1, <1>2

(* A write is queued last. *)
appended(ws, d, w) == [ws EXCEPT ![d] = Append(ws[d], w)]

(* A write joins the queue of its device behind the others, and only the   *)
(* others of its kind get company.                                         *)
LEMMA AppendAt ==
  ASSUME NEW ws \in [Device -> Seq(Mutation)], NEW d \in Device, NEW w \in Mutation,
         NEW kind \in Kind
  PROVE  LET vs == appended(ws, d, w)
         IN  /\ vs \in [Device -> Seq(Mutation)]
             /\ vs[d][Len(ws[d]) + 1] = w
             /\ \A x \in At(ws, kind) : vs[x[1]][x[2]] = ws[x[1]][x[2]]
             /\ At(vs, kind) = IF w.kind = kind THEN At(ws, kind) \cup {<<d, Len(ws[d]) + 1>>}
                                                ELSE At(ws, kind)
<1> DEFINE vs == appended(ws, d, w)
<1> DEFINE n == Len(ws[d]) + 1
<1>1. /\ \A e \in Device : ws[e] \in Seq(Mutation) /\ Len(ws[e]) \in Nat
                           /\ DOMAIN ws[e] = 1..Len(ws[e])
      /\ n \in Nat
  BY LenProperties
<1>2. /\ Append(ws[d], w) \in Seq(Mutation)
      /\ Len(Append(ws[d], w)) = n
      /\ \A i \in 1..Len(ws[d]) : Append(ws[d], w)[i] = ws[d][i]
      /\ Append(ws[d], w)[n] = w
  BY <1>1, AppendProperties
<1>3. vs \in [Device -> Seq(Mutation)] /\ vs[d] = Append(ws[d], w)
      /\ \A e \in Device : e # d => vs[e] = ws[e]
  BY <1>2 DEF appended
<1> HIDE DEF vs
<1>4. DOMAIN vs[d] = 1..n /\ vs[d][n] = w
      /\ \A i \in 1..Len(ws[d]) : vs[d][i] = ws[d][i]
  BY <1>2, <1>3, LenProperties
<1>5. \A e \in Device, i \in Nat :
        <<e, i>> \in At(vs, kind) <=>
          \/ <<e, i>> \in At(ws, kind)
          \/ e = d /\ i = n /\ w.kind = kind
  <2> SUFFICES ASSUME NEW e \in Device, NEW i \in Nat
               PROVE  (i \in DOMAIN vs[e] /\ vs[e][i].kind = kind) <=>
                        \/ i \in DOMAIN ws[e] /\ ws[e][i].kind = kind
                        \/ e = d /\ i = n /\ w.kind = kind
    BY DEF At
  <2>1. CASE e # d
    BY <2>1, <1>3
  <2>2. CASE e = d
    BY <2>2, <1>1, <1>4
  <2> QED
    BY <2>1, <2>2
<1>6. \A x \in At(ws, kind) : vs[x[1]][x[2]] = ws[x[1]][x[2]]
  BY <1>1, <1>3, <1>4 DEF At
<1>7. ASSUME NEW x \in Device \X Nat
      PROVE  x \in At(vs, kind) <=> \/ x \in At(ws, kind)
                                    \/ x = <<d, n>> /\ w.kind = kind
  <2>1. PICK e \in Device, i \in Nat : x = <<e, i>>
    OBVIOUS
  <2> QED
    BY <2>1, <1>5
<1>8. <<d, n>> \in Device \X Nat /\ At(vs, kind) \subseteq Device \X Nat
       /\ At(ws, kind) \subseteq Device \X Nat
  BY <1>1 DEF At
<1>9. At(vs, kind) = IF w.kind = kind THEN At(ws, kind) \cup {<<d, n>>} ELSE At(ws, kind)
  BY <1>7, <1>8
<1> QED
  BY <1>3, <1>4, <1>6, <1>9 DEF vs

(* The first write of d leaves its queue: where the others were. *)
sent(ws, d) == [ws EXCEPT ![d] = Tail(ws[d])]

front(d) == <<d, 1>>
before(d, x) == IF x[1] = d THEN <<x[1], x[2] + 1>> ELSE x

(* The other writes of the device move up one place, those of the other    *)
(* devices stay, and each is still the write it was.                       *)
LEMMA TailAt ==
  ASSUME NEW ws \in [Device -> Seq(Mutation)], NEW d \in Device, ws[d] # <<>>,
         NEW kind \in Kind
  PROVE  LET vs == sent(ws, d)
         IN  /\ vs \in [Device -> Seq(Mutation)]
             /\ Head(ws[d]) \in Mutation /\ Head(ws[d]) = ws[d][1]
             /\ front(d) \in Device \X Nat /\ front(d)[1] = d /\ front(d)[2] = 1
             /\ front(d) \in At(ws, kind) <=> Head(ws[d]).kind = kind
             /\ \A x \in At(vs, kind) :
                  /\ before(d, x) \in At(ws, kind) /\ before(d, x) # front(d)
                  /\ vs[x[1]][x[2]] = ws[before(d, x)[1]][before(d, x)[2]]
                  /\ before(d, x)[1] = x[1]
             /\ \A x \in At(ws, kind) : x[1] # d => x \in At(vs, kind)
<1> DEFINE vs == sent(ws, d)
<1>1. /\ \A e \in Device : ws[e] \in Seq(Mutation) /\ Len(ws[e]) \in Nat
                           /\ DOMAIN ws[e] = 1..Len(ws[e])
  BY LenProperties
<1>2. /\ Head(ws[d]) \in Mutation /\ Head(ws[d]) = ws[d][1]
      /\ Tail(ws[d]) \in Seq(Mutation) /\ Len(ws[d]) >= 1
      /\ Len(Tail(ws[d])) = Len(ws[d]) - 1
      /\ \A i \in 1..Len(Tail(ws[d])) : Tail(ws[d])[i] = ws[d][i + 1]
  BY <1>1, HeadTailProperties, EmptySeq
<1>3. vs \in [Device -> Seq(Mutation)] /\ vs[d] = Tail(ws[d])
      /\ \A e \in Device : e # d => vs[e] = ws[e]
  BY <1>2 DEF sent
<1> HIDE DEF vs
<1>4. /\ DOMAIN vs[d] = 1..(Len(ws[d]) - 1)
      /\ \A i \in 1..(Len(ws[d]) - 1) : vs[d][i] = ws[d][i + 1]
  BY <1>2, <1>3, LenProperties
<1>5. /\ front(d) \in Device \X Nat /\ front(d)[1] = d /\ front(d)[2] = 1
      /\ front(d) \in At(ws, kind) <=> Head(ws[d]).kind = kind
  BY <1>1, <1>2 DEF At, front
<1>6. ASSUME NEW x \in At(vs, kind)
      PROVE  /\ before(d, x) \in At(ws, kind) /\ before(d, x) # front(d)
             /\ vs[x[1]][x[2]] = ws[before(d, x)[1]][before(d, x)[2]]
             /\ before(d, x)[1] = x[1]
  <2>1. PICK e \in Device, i \in Nat : x = <<e, i>>
    BY DEF At
  <2>2. i \in DOMAIN vs[e] /\ vs[e][i].kind = kind
    BY <2>1 DEF At
  <2>3. CASE e # d
    <3>1. before(d, x) = x
      BY <2>1, <2>3 DEF before
    <3> QED
      BY <3>1, <2>1, <2>2, <2>3, <1>3 DEF At, front
  <2>4. CASE e = d
    <3>1. before(d, x) = <<d, i + 1>>
      BY <2>1, <2>4 DEF before
    <3>2. i \in 1..(Len(ws[d]) - 1) /\ i + 1 \in DOMAIN ws[d] /\ i + 1 \in Nat /\ i + 1 # 1
      BY <2>2, <2>4, <1>1, <1>4
    <3>3. vs[d][i] = ws[d][i + 1]
      BY <3>2, <1>4
    <3>4. <<d, i + 1>> \in At(ws, kind)
      BY <3>2, <3>3, <2>2, <2>4 DEF At
    <3> QED
      BY <3>1, <3>2, <3>3, <3>4, <2>1, <2>4 DEF front
  <2> QED
    BY <2>3, <2>4
<1>7. \A x \in At(ws, kind) : x[1] # d => x \in At(vs, kind)
  BY <1>3 DEF At
<1> QED
  BY <1>2, <1>3, <1>5, <1>6, <1>7 DEF vs

(* The app that asked is gone. *)
lost(w) == IF w.kind = "notify" THEN notify(w.number, w.deal, FALSE) ELSE w

abandoned(ws, d) == [ws EXCEPT ![d] = [i \in DOMAIN ws[d] |-> lost(ws[d][i])]]

(* A crash leaves every write in its place, with the number and the deal   *)
(* it had.                                                                 *)
LEMMA LostAt ==
  ASSUME NEW ws \in [Device -> Seq(Mutation)], NEW d \in Device,
         NEW kind \in Kind
  PROVE  LET vs == abandoned(ws, d)
         IN  /\ vs \in [Device -> Seq(Mutation)]
             /\ At(vs, kind) = At(ws, kind)
             /\ \A e \in Device : ws[e] = <<>> => vs[e] = <<>>
             /\ \A x \in At(ws, "notify") :
                  /\ vs[x[1]][x[2]].number = ws[x[1]][x[2]].number
                  /\ vs[x[1]][x[2]].deal = ws[x[1]][x[2]].deal
<1> DEFINE vs == abandoned(ws, d)
<1>1. /\ \A e \in Device : ws[e] \in Seq(Mutation) /\ Len(ws[e]) \in Nat
                           /\ DOMAIN ws[e] = 1..Len(ws[e])
                           /\ \A i \in DOMAIN ws[e] : ws[e][i] \in Mutation
  BY LenProperties, ElementOfSeq
<1>2. \A w \in Mutation : /\ lost(w) \in Mutation /\ lost(w).kind = w.kind
                          /\ w.kind = "notify" => lost(w).number = w.number
                                                  /\ lost(w).deal = w.deal
  BY MutationKinds DEF lost, notify
<1> DEFINE f == [i \in DOMAIN ws[d] |-> lost(ws[d][i])]
<1>3. f \in Seq(Mutation)
  <2>1. f \in [1..Len(ws[d]) -> Mutation]
    BY <1>1, <1>2
  <2> QED
    BY <2>1, <1>1, SeqDef
<1>4. vs \in [Device -> Seq(Mutation)] /\ vs[d] = f
      /\ \A e \in Device : e # d => vs[e] = ws[e]
  BY <1>3 DEF abandoned
<1> HIDE DEF f, vs
<1>5. \A e \in Device : /\ DOMAIN vs[e] = DOMAIN ws[e]
                        /\ \A i \in DOMAIN ws[e] : \/ vs[e][i] = ws[e][i]
                                                   \/ vs[e][i] = lost(ws[e][i])
  BY <1>4 DEF f
<1>6. ASSUME NEW e \in Device, NEW i \in DOMAIN ws[e]
      PROVE  /\ vs[e][i].kind = ws[e][i].kind
             /\ ws[e][i].kind = "notify" => /\ vs[e][i].number = ws[e][i].number
                                            /\ vs[e][i].deal = ws[e][i].deal
  <2>1. ws[e][i] \in Mutation
    BY <1>1
  <2> QED
    BY <2>1, <1>2, <1>5
<1>7. At(vs, kind) = At(ws, kind)
  <2>1. ASSUME NEW x \in Device \X Nat
        PROVE  /\ DOMAIN vs[x[1]] = DOMAIN ws[x[1]]
               /\ x[2] \in DOMAIN ws[x[1]] => vs[x[1]][x[2]].kind = ws[x[1]][x[2]].kind
    BY <1>5, <1>6
  <2> QED
    BY <2>1 DEF At
<1> QED
  <2>1. \A x \in At(ws, "notify") : /\ vs[x[1]][x[2]].number = ws[x[1]][x[2]].number
                                     /\ vs[x[1]][x[2]].deal = ws[x[1]][x[2]].deal
    BY <1>6 DEF At
  <2>2. ASSUME NEW e \in Device, ws[e] = <<>> PROVE vs[e] = <<>>
    <3>1. vs[e] \in Seq(Mutation) /\ DOMAIN vs[e] = 1..Len(vs[e]) /\ Len(vs[e]) \in Nat
      BY <1>4, LenProperties
    <3>2. DOMAIN vs[e] = {}
      BY <2>2, <1>5
    <3>3. 1 \notin 1..Len(vs[e])
      BY <3>1, <3>2
    <3>4. Len(vs[e]) = 0
      BY <3>1, <3>3
    <3> QED
      BY <3>1, <3>4, EmptySeq
  <2> QED
    BY <2>1, <2>2, <1>4, <1>7 DEF vs

-----------------------------------------------------------------------------
(* What writes and transactions do. *)

(* One write, as the server applies it. *)
LEMMA WrittenOne ==
  ASSUME NEW p \in PoolDocument \cup {NoPool}, NEW m \in Member, NEW w \in Mutation
  PROVE  /\ w.kind = "set" => \E s \in Size : written(p, m, {w}) = newPool(s, m)
         /\ w.kind # "set" /\ p = NoPool => written(p, m, {w}) = NoPool
         /\ w.kind = "leave" /\ p # NoPool => written(p, m, {w}) = removeMember(p, m)
         /\ w.kind = "delete" => written(p, m, {w}) = NoPool
         /\ w.kind = "notify" /\ p # NoPool =>
              written(p, m, {w}) = setNotified(p, {w.number})
<1>0. NoPool \notin PoolDocument
  BY DeviceAssumption
<1>1. CASE w.kind = "set"
  <2>1. PICK s \in Size : w = set(s)
    BY <1>1, MutationKinds
  <2>2. /\ \E z \in Size : set(z) \in {w}
        /\ (CHOOSE z \in Size : set(z) \in {w}) = s
        /\ leave \notin {w} /\ delete \notin {w}
        /\ {v.number : v \in {u \in {w} : u.kind = "notify"}} = {}
    BY <2>1 DEF set, leave, delete
  <2>3. newPool(s, m) \in PoolDocument
    BY NewPoolFacts
  <2>4. written(p, m, {w}) = setNotified(newPool(s, m), {})
    BY <2>2, <2>3, <1>0 DEF written
  <2>5. written(p, m, {w}) = newPool(s, m)
    BY <2>3, <2>4, SetNotifiedNone
  <2> QED
    BY <2>5, <1>1
<1>2. w.kind # "set" => ~\E z \in Size : set(z) \in {w}
  BY DEF set
<1>3. CASE w.kind = "leave"
  <2>1. /\ w = leave /\ delete \notin {w}
        /\ {v.number : v \in {u \in {w} : u.kind = "notify"}} = {}
    BY <1>3, MutationKinds DEF leave, delete
  <2>2. p # NoPool => written(p, m, {w}) = setNotified(removeMember(p, m), {})
    BY <2>1, <1>2, <1>3 DEF written
  <2>3. p # NoPool => written(p, m, {w}) = removeMember(p, m)
    BY <2>2, RemoveMemberFacts, SetNotifiedNone
  <2>4. p = NoPool => written(p, m, {w}) = NoPool
    BY <1>2, <1>3 DEF written
  <2> QED
    BY <2>3, <2>4, <1>3
<1>4. CASE w.kind = "delete"
  <2>1. w = delete
    BY <1>4, MutationKinds
  <2> QED
    BY <2>1, <1>4 DEF written
<1>5. CASE w.kind = "notify"
  <2>1. /\ leave \notin {w} /\ delete \notin {w}
        /\ {v.number : v \in {u \in {w} : u.kind = "notify"}} = {w.number}
    BY <1>5 DEF leave, delete
  <2> QED
    BY <2>1, <1>2, <1>5 DEF written
<1> QED
  BY <1>1, <1>3, <1>4, <1>5, MutationKinds

(* The queue of a device on top of the document, as its listeners see it.  *)
LEMMA WrittenMany ==
  ASSUME NEW p \in PoolDocument \cup {NoPool}, NEW m \in Member,
         NEW ws \in SUBSET Mutation
  PROVE  LET q    == written(p, m, ws)
             sets == \E s \in Size : set(s) \in ws
         IN  /\ q \in PoolDocument \cup {NoPool}
             /\ q # NoPool /\ sets => q.deal = 0 /\ DOMAIN q.numberToPick = {}
             /\ q # NoPool /\ ~sets =>
                  /\ p # NoPool
                  /\ q.deal = p.deal /\ DOMAIN q.numberToPick = DOMAIN p.numberToPick
                  /\ Follows(q, p)
<1>0. NoPool \notin PoolDocument
  BY DeviceAssumption
<1> DEFINE q    == written(p, m, ws)
           sets == \E s \in Size : set(s) \in ws
           base == IF sets THEN newPool(CHOOSE s \in Size : set(s) \in ws, m) ELSE p
           left == IF leave \in ws THEN removeMember(base, m) ELSE base
           N    == {w.number : w \in {v \in ws : v.kind = "notify"}}
<1>1. q = IF base = NoPool \/ delete \in ws THEN NoPool ELSE setNotified(left, N)
  BY DEF written
<1>2. sets => /\ base \in PoolDocument
              /\ base.deal = 0 /\ DOMAIN base.numberToPick = {}
  BY NewPoolFacts DEF noPicks
<1>3. ~sets => base = p
  OBVIOUS
<1> HIDE DEF q, sets, base
<1>4. base \in PoolDocument \cup {NoPool}
  BY <1>2, <1>3
<1>5. base # NoPool => /\ left \in PoolDocument
                       /\ left.deal = base.deal
                       /\ DOMAIN left.numberToPick = DOMAIN base.numberToPick
                       /\ Follows(left, base)
  <2>1. CASE leave \in ws
    BY <2>1, <1>4, RemoveMemberFacts, RemoveMemberKeeps
  <2>2. CASE leave \notin ws
    BY <2>2, <1>4, SamePicksFollow
  <2> QED
    BY <2>1, <2>2
<1> HIDE DEF left, N
<1>6. q # NoPool => /\ base # NoPool
                    /\ q \in PoolDocument
                    /\ q.deal = base.deal
                    /\ DOMAIN q.numberToPick = DOMAIN base.numberToPick
                    /\ Follows(q, base)
  <2>1. SUFFICES ASSUME q # NoPool
                 PROVE  /\ base # NoPool
                        /\ q \in PoolDocument
                        /\ q.deal = base.deal
                        /\ DOMAIN q.numberToPick = DOMAIN base.numberToPick
                        /\ Follows(q, base)
    OBVIOUS
  <2>2. base # NoPool /\ base \in PoolDocument /\ q = setNotified(left, N)
    BY <2>1, <1>1, <1>4
  <2>3. /\ q \in PoolDocument /\ q.deal = left.deal
        /\ DOMAIN q.numberToPick = DOMAIN left.numberToPick /\ Follows(q, left)
    BY <2>2, <1>5, SetNotifiedKeeps
  <2> QED
    BY <2>2, <2>3, <1>5, FollowsTransitive
<1>7. /\ q \in PoolDocument \cup {NoPool}
      /\ q # NoPool /\ sets => q.deal = 0 /\ DOMAIN q.numberToPick = {}
      /\ q # NoPool /\ ~sets =>
           /\ p # NoPool
           /\ q.deal = p.deal /\ DOMAIN q.numberToPick = DOMAIN p.numberToPick
           /\ Follows(q, p)
  BY <1>2, <1>3, <1>6
<1> QED
  BY <1>7 DEF q, sets

(* u asks for the same as t, and is waited for only if t was. *)
SameRequest(t, u) ==
  /\ u.dev = t.dev /\ u.op = t.op
  /\ u.teamId = t.teamId /\ u.number = t.number /\ u.deal = t.deal
  /\ u.caller = "waiting" => t.caller = "waiting"

(* A transaction is not the absence of one. *)
LEMMA NoTxnFacts == noTxn \notin TxnRecord /\ noTxn.phase = "idle"
<1>1. \A t \in TxnRecord : t.phase # "idle"
  BY DEF TxnRecord, Phase
<1> QED
  BY <1>1 DEF noTxn

(* The result of a transaction. *)
LEMMA EndedFacts ==
  ASSUME NEW t \in TxnRecord, NEW result \in {"ok", "failed"}
  PROVE  LET u == ended(t, result)
         IN  \/ u = noTxn
             \/ u \in TxnRecord /\ u.phase = result /\ SameRequest(t, u)
BY DEF ended, TxnRecord, Phase, SameRequest

(* A transaction that is run again, or has failed. *)
LEMMA RetriedFacts ==
  ASSUME NEW t \in TxnRecord
  PROVE  LET u == retried(t)
         IN  \/ u = noTxn
             \/ u \in TxnRecord /\ u.phase \in {"lookup", "failed"} /\ SameRequest(t, u)
<1>1. kRetryCount \in Nat
  BY DeviceAssumption
<1>2. CASE t.caller # "crashed" /\ t.retriesLeft > 0
  <2>1. retried(t) = [t EXCEPT !.phase = "lookup", !.retriesLeft = t.retriesLeft - 1,
                               !.read = NoPool]
    BY <1>2 DEF retried
  <2>2. t.retriesLeft - 1 \in 0..kRetryCount
    BY <1>1, <1>2 DEF TxnRecord
  <2> QED
    BY <2>1, <2>2 DEF TxnRecord, Phase, SameRequest
<1>3. CASE ~(t.caller # "crashed" /\ t.retriesLeft > 0)
  <2>1. retried(t) = noTxn \/ retried(t) = ended(t, "failed")
    BY <1>3 DEF retried
  <2> QED
    BY <2>1, EndedFacts
<1> QED
  BY <1>2, <1>3

(* The document changes to p under a transaction. *)
LEMMA OutdatedFacts ==
  ASSUME NEW t \in TxnRecord, NEW p
  PROVE  LET u == outdated(t, p)
         IN  /\ u \in TxnRecord /\ SameRequest(t, u)
             /\ u.phase = "commit" => u = t /\ p = doc
             /\ u.phase = "ok" => u = t
BY DEF outdated, TxnRecord, Phase, SameRequest

(* And leaves an absent one alone. *)
LEMMA OutdatedNoTxn == ASSUME NEW p PROVE outdated(noTxn, p) = noTxn
BY NoTxnFacts DEF outdated

-----------------------------------------------------------------------------
(* What a device sees, and asks for. *)

(* The pool is unborn while a set is queued anywhere. *)
LEMMA SetQueued ==
  ASSUME NEW ws \in [Device -> Seq(Mutation)]
  PROVE  /\ At(ws, "set") # {} <=> \E d \in Device, s \in Size :
                                     set(s) \in {ws[d][i] : i \in DOMAIN ws[d]}
         /\ \A d \in Device : {ws[d][i] : i \in DOMAIN ws[d]} \subseteq Mutation
<1>1. \A d \in Device : /\ DOMAIN ws[d] \subseteq Nat
                        /\ \A i \in DOMAIN ws[d] : ws[d][i] \in Mutation
  BY LenProperties, ElementOfSeq
<1>2. ASSUME NEW d \in Device, NEW s \in Size, NEW i \in DOMAIN ws[d], ws[d][i] = set(s)
      PROVE  At(ws, "set") # {}
  <2>1. <<d, i>> \in At(ws, "set")
    BY <1>1, <1>2 DEF At, set
  <2> QED
    BY <2>1
<1>3. ASSUME NEW x \in At(ws, "set")
      PROVE  \E d \in Device, s \in Size : set(s) \in {ws[d][i] : i \in DOMAIN ws[d]}
  <2>1. x[1] \in Device /\ x[2] \in DOMAIN ws[x[1]] /\ ws[x[1]][x[2]].kind = "set"
    BY DEF At
  <2>2. ws[x[1]][x[2]] \in Mutation
    BY <2>1, <1>1
  <2>3. PICK s \in Size : ws[x[1]][x[2]] = set(s)
    BY <2>1, <2>2, MutationKinds
  <2> QED
    BY <2>1, <2>3
<1> QED
  BY <1>1, <1>2, <1>3

(* The same of the queues of a state. *)
LEMMA UnbornIff ==
  ASSUME Types
  PROVE  /\ unborn <=> \E d \in Device, s \in Size : set(s) \in queued(d)
         /\ \A d \in Device : queued(d) \subseteq Mutation
<1>1. writes \in [Device -> Seq(Mutation)]
  BY DEF Types
<1> QED
  BY <1>1, SetQueued DEF unborn, queued

(* The deals are bounded: DealtOnce. *)
LEMMA DealBound == ASSUME Types, LeavesPayForDeals PROVE DealtOnce
<1>1. Cardinality(At(writes, "leave")) \in Nat
  BY FS_CardinalityType DEF LeavesPayForDeals
<1>2. leaves \in Nat /\ (doc # NoPool => doc.deal \in Nat)
  BY DEF Types, PoolDocument
<1> QED
  BY <1>1, <1>2 DEF LeavesPayForDeals, DealtOnce

(* What a listener may be given is a past version. *)
LEMMA SnapshotFacts ==
  ASSUME IInv, NEW d \in Device, snapshot(d) # NoPool
  PROVE  LET p == snapshot(d)
         IN  /\ p \in PoolDocument
             /\ Past(p)
             /\ link # "none"
             /\ DOMAIN p.numberToPick # {} => doc # NoPool /\ p.deal = doc.deal
<1> DEFINE p == snapshot(d)
           sets == \E s \in Size : set(s) \in queued(d)
<1>1. /\ Types /\ CreatedOnce /\ DocumentIsSound /\ LeavesPayForDeals
      /\ doc \in PoolDocument \cup {NoPool} /\ leaves \in Nat
  BY DEF IInv, Types
<1>2. queued(d) \in SUBSET Mutation /\ (sets => unborn)
  BY <1>1, UnbornIff
<1>3. currentMember[d] \in Member
  BY DeviceAssumption
<1>4. /\ p \in PoolDocument \cup {NoPool}
      /\ p # NoPool /\ sets => p.deal = 0 /\ DOMAIN p.numberToPick = {}
      /\ p # NoPool /\ ~sets =>
           /\ doc # NoPool
           /\ p.deal = doc.deal /\ DOMAIN p.numberToPick = DOMAIN doc.numberToPick
           /\ Follows(p, doc)
  BY <1>1, <1>2, <1>3, WrittenMany DEF snapshot
<1>5. p # NoPool
  OBVIOUS
<1>6. link # "none"
  <2> SUFFICES ASSUME link = "none" PROVE FALSE
    OBVIOUS
  <2>1. doc = NoPool /\ writes[d] = <<>>
    BY <1>1 DEF CreatedOnce
  <2>2. ~sets
    BY <2>1 DEF queued
  <2> QED
    BY <2>1, <2>2, <1>4, <1>5
<1> HIDE DEF p
<1>7. CASE sets
  <2>1. doc = NoPool
    BY <1>1, <1>2, <1>7 DEF CreatedOnce
  <2> QED
    BY <2>1, <1>1, <1>4, <1>5, <1>6, <1>7 DEF Past, DealtHasPicks, p
<1>8. CASE ~sets
  <2>1. doc # NoPool /\ ~unborn /\ DealtHasPicks(doc) /\ doc.deal <= leaves + 1
    BY <1>1, <1>4, <1>5, <1>8, DealBound DEF CreatedOnce, DocumentIsSound, DealtOnce
  <2> QED
    BY <2>1, <1>1, <1>4, <1>5, <1>6, <1>8 DEF Past, DealtHasPicks, p
<1> QED
  BY <1>7, <1>8

(* The turn write of a snapshot, if there is one. *)
LEMMA TurnWriteFacts ==
  ASSUME Types, NEW d \in Device, NEW p
  PROVE  \/ withTurnWrite(d, p) = writes
         \/ \E n \in PickNumber :
              /\ isTurnOf(p, currentMember[d], n)
              /\ withTurnWrite(d, p) =
                   appended(writes, d, notify(n, p.deal, TRUE))
<1>1. CASE turnWrites(d, p) = {}
  BY <1>1 DEF withTurnWrite
<1>2. CASE turnWrites(d, p) # {}
  <2> DEFINE w == CHOOSE v \in turnWrites(d, p) : TRUE
  <2>1. w \in turnWrites(d, p)
    BY <1>2
  <2>2. PICK n \in PickNumber : /\ isTurnOf(p, currentMember[d], n)
                                /\ w = notify(n, p.deal, TRUE)
    BY <2>1 DEF turnWrites
  <2>3. withTurnWrite(d, p) = appended(writes, d, w)
    BY <1>2 DEF withTurnWrite, appended
  <2> QED
    BY <2>2, <2>3
<1> QED
  BY <1>1, <1>2

(* Deliver: what is shown, and the write it makes the device ask for.      *)
LEMMA DeliverFacts ==
  ASSUME IInv, NEW d \in Device, Deliver(d)
  PROVE  /\ \E p \in PoolDocument \cup {NoPool} :
              /\ shown' = [shown EXCEPT ![d] = p]
              /\ p # NoPool => Past(p) /\ link # "none"
              /\ screen[d] = "draft" => p # NoPool
         /\ screen[d] # "pick"
         /\ \/ writes' = writes
            \/ \E n \in PickNumber :
                 /\ doc # NoPool /\ doc.deal \in 1..(leaves + 1)
                 /\ n \in DOMAIN doc.numberToPick
                 /\ doc.numberToPick[n].member = currentMember[d]
                 /\ writes' = appended(writes, d, notify(n, doc.deal, TRUE))
<1> DEFINE p == IF screen[d] = "pools" THEN listed(d, snapshot(d)) ELSE snapshot(d)
<1>1. Types /\ doc \in PoolDocument \cup {NoPool} /\ leaves \in Nat
  BY DEF IInv, Types
<1>2. p = NoPool \/ p = snapshot(d)
  BY DEF listed
<1>3. /\ screen[d] # "pick"
      /\ screen[d] = "draft" => p # NoPool
      /\ shown' = [shown EXCEPT ![d] = p]
      /\ writes' = IF p = NoPool THEN writes ELSE withTurnWrite(d, p)
  BY DEF Deliver
<1> HIDE DEF p
<1>4. p # NoPool => /\ p \in PoolDocument /\ Past(p) /\ link # "none"
                    /\ DOMAIN p.numberToPick # {} => doc # NoPool /\ p.deal = doc.deal
  BY <1>2, SnapshotFacts
<1>5. CASE p = NoPool
  BY <1>3, <1>5
<1>6. CASE p # NoPool
  <2>1. CASE withTurnWrite(d, p) = writes
    BY <2>1, <1>3, <1>4, <1>6
  <2>2. CASE \E n \in PickNumber :
               /\ isTurnOf(p, currentMember[d], n)
               /\ withTurnWrite(d, p) =
                    appended(writes, d, notify(n, p.deal, TRUE))
    <3>1. PICK n \in PickNumber :
               /\ isTurnOf(p, currentMember[d], n)
               /\ withTurnWrite(d, p) =
                    appended(writes, d, notify(n, p.deal, TRUE))
      BY <2>2
    <3>2. n \in DOMAIN p.numberToPick /\ p.numberToPick[n].member = currentMember[d]
      BY <3>1 DEF isTurnOf, isCurrentPick, openPicks
    <3>3. doc # NoPool /\ p.deal = doc.deal /\ Follows(p, doc) /\ doc \in PoolDocument
      BY <3>2, <1>1, <1>4, <1>6 DEF Past
    <3>4. n \in DOMAIN doc.numberToPick /\ doc.numberToPick[n].member = currentMember[d]
      BY <3>2, <3>3 DEF Follows
    <3>5. p.deal # 0 /\ p.deal \in Nat /\ p.deal <= leaves + 1
      BY <3>2, <1>4, <1>6 DEF Past, DealtHasPicks, PoolDocument
    <3>6. doc.deal \in 1..(leaves + 1)
      BY <3>3, <3>5, <1>1
    <3> QED
      BY <3>1, <3>3, <3>4, <3>6, <1>3, <1>4, <1>6
  <2> QED
    BY <2>1, <2>2, <1>1, TurnWriteFacts
<1> QED
  BY <1>5, <1>6

-----------------------------------------------------------------------------
(* What a step does to the document. *)

(* pickTeam of PoolStore. *)
PickOf(p, q, m, n, t) ==
  /\ isTurnOf(p, m, n)
  /\ \E update \in pickUpdates(p, n, t) :
       \/ t \in teamsRemaining(p) /\ q = setTeams(p, update)
       \/ p.deal > 1 /\ q = [setTeams(p, update) EXCEPT !.mixed = TRUE]

(* It is a pick in the sense of the lemmas about Pool. *)
LEMMA PickOfIsPicked ==
  ASSUME NEW p, NEW q, NEW m, NEW n, NEW t, PickOf(p, q, m, n, t)
  PROVE  Picked(p, q, m, n, t)
BY DEF PickOf, Picked

(* The operations of PoolStore on a document that stays. *)
Operation(p, q) ==
  \/ \E m \in Member : q \in addMember(p, m)
  \/ \E m \in Member : p.deal < MaxLeaves + 1 /\ q = removeMember(p, m)
  \/ \E m \in Member, n \in PickNumber, t \in Team : PickOf(p, q, m, n, t)
  \/ \E n \in PickNumber : n \in DOMAIN p.numberToPick /\ q = setNotified(p, {n})

(* Every operation keeps the type of the document, its order and what was  *)
(* made in this deal.                                                      *)
LEMMA OperationKeeps ==
  ASSUME NEW p \in PoolDocument, InOrder(p), NEW q, Operation(p, q)
  PROVE  /\ q \in PoolDocument
         /\ Follows(p, q)
         /\ InOrder(q)
         /\ DealtHasPicks(p) => DealtHasPicks(q)
<1>1. ASSUME NEW m \in Member, q \in addMember(p, m)
      PROVE  q \in PoolDocument /\ Follows(p, q) /\ InOrder(q)
             /\ (DealtHasPicks(p) => DealtHasPicks(q))
  BY <1>1, AddMemberFacts, AddMemberKeeps
<1>2. ASSUME NEW m \in Member, q = removeMember(p, m)
      PROVE  q \in PoolDocument /\ Follows(p, q) /\ InOrder(q)
             /\ (DealtHasPicks(p) => DealtHasPicks(q))
  BY <1>2, RemoveMemberFacts, RemoveMemberKeeps
<1>3. ASSUME NEW m \in Member, NEW n \in PickNumber, NEW t \in Team, PickOf(p, q, m, n, t)
      PROVE  q \in PoolDocument /\ Follows(p, q) /\ InOrder(q)
             /\ (DealtHasPicks(p) => DealtHasPicks(q))
  BY <1>3, PickOfIsPicked, PickedFacts, PickedKeeps
<1>4. ASSUME NEW n \in PickNumber, q = setNotified(p, {n})
      PROVE  q \in PoolDocument /\ Follows(p, q) /\ InOrder(q)
             /\ (DealtHasPicks(p) => DealtHasPicks(q))
  BY <1>4, SetNotifiedKeeps
<1> QED
  BY <1>1, <1>2, <1>3, <1>4 DEF Operation

(* A team chosen on a snapshot of this deal is still free on its turn. *)
LEMMA ChoiceIsFree ==
  ASSUME IInv, NEW m, NEW n \in PickNumber, NEW t \in Team,
         Choice(t, n, doc.deal), doc # NoPool, isTurnOf(doc, m, n)
  PROVE  t \in teamsRemaining(doc)
<1>1. doc \in PoolDocument /\ InOrder(doc)
  BY DEF IInv, Types, DocumentIsSound
<1>2. madePicks(doc) = 1..(n - 1)
  BY <1>1, MadeBelowCurrent DEF isTurnOf, InOrder
<1>3. \A i \in madePicks(doc) : doc.numberToPick[i].teamId # t
  BY <1>2 DEF Choice, Free
<1> QED
  BY <1>3 DEF teamsRemaining

(* A commit is one operation on the latest document. *)
LEMMA CommitFacts ==
  ASSUME IInv, NEW x \in Txn, Commit(x)
  PROVE  LET t == txn[x]
             m == currentMember[t.dev]
         IN  /\ t \in TxnRecord /\ t # noTxn /\ TransactionIsSound(t)
             /\ m \in Member /\ t.dev \in Device
             /\ doc \in PoolDocument /\ doc # NoPool
             /\ t.op \in {"join", "pick"}
             /\ t.op = "join" => doc' \in addMember(doc, m)
             /\ t.op = "pick" => /\ t.number \in PickNumber /\ t.teamId \in Team
                                 /\ PickOf(doc, doc', m, t.number, t.teamId)
<1> DEFINE t == txn[x]
           m == currentMember[t.dev]
<1>1. t.phase = "commit" /\ t # noTxn /\ t \in TxnRecord
  BY NoTxnFacts DEF Commit, IInv, Types
<1>2. TransactionIsSound(t)
  BY <1>1 DEF IInv, TransactionsAreSound
<1>3. t.read = doc /\ doc # NoPool
      /\ (t.op = "pick" => isTurnOf(doc, m, t.number))
  BY <1>1, <1>2 DEF TransactionIsSound, admitted
<1>4. doc \in PoolDocument
  BY <1>3 DEF IInv, Types
<1>5. t.dev \in Device /\ m \in Member /\ t.op \in {"join", "pick"}
  BY <1>1, DeviceAssumption DEF TxnRecord
<1>6. t.op = "join" => doc' \in addMember(doc, m)
  BY <1>3 DEF Commit, outcomes
<1>7. ASSUME t.op = "pick"
      PROVE  /\ t.number \in PickNumber /\ t.teamId \in Team
             /\ PickOf(doc, doc', m, t.number, t.teamId)
  <2>1. /\ t.number \in PickNumber /\ t.teamId \in Team
        /\ Choice(t.teamId, t.number, t.deal)
    BY <1>2, <1>7 DEF TransactionIsSound, Choice
  <2>2. PICK update \in pickUpdates(doc, t.number, t.teamId) :
          doc' = [setTeams(doc, update) EXCEPT
                    !.mixed = setTeams(doc, update).mixed \/ t.deal # doc.deal]
    BY <1>3, <1>7 DEF Commit, outcomes
  <2> DEFINE q == setTeams(doc, update)
  <2>3. q \in PoolDocument
    <3>1. DOMAIN doc.numberToPick # {}
      BY <1>3, <1>7 DEF isTurnOf, isCurrentPick, openPicks
    <3>2. \A k \in DOMAIN update : update[k] \in Team
      BY <2>1, <1>4, PickUpdatesFacts
    <3> QED
      BY <3>1, <3>2, <1>4, SetTeamsFacts
  <2> HIDE DEF q
  <2>4. CASE t.deal = doc.deal
    <3>1. t.teamId \in teamsRemaining(doc)
      BY <2>1, <2>4, <1>3, <1>7, ChoiceIsFree
    <3>2. (q.mixed \/ t.deal # doc.deal) = q.mixed
      BY <2>3, <2>4 DEF PoolDocument
    <3>3. doc' = [q EXCEPT !.mixed = q.mixed]
      BY <2>2, <3>2 DEF q
    <3>4. [q EXCEPT !.mixed = q.mixed] = q
      BY <2>3 DEF PoolDocument
    <3> QED
      BY <3>1, <3>3, <3>4, <2>1, <1>3, <1>7 DEF PickOf, q
  <2>5. CASE t.deal # doc.deal
    <3>1. doc.deal > 1
      <4>1. t.deal \in Nat /\ t.deal >= 1 /\ t.deal <= doc.deal /\ doc.deal \in Nat
        BY <2>1, <1>3, <1>4 DEF Choice, PoolDocument
      <4> QED
        BY <4>1, <2>5
    <3>2. (q.mixed \/ t.deal # doc.deal) = TRUE
      BY <2>5
    <3>3. doc' = [q EXCEPT !.mixed = TRUE]
      BY <2>2, <3>2 DEF q
    <3> QED
      BY <3>1, <3>3, <2>1, <1>3, <1>7 DEF PickOf, q
  <2> QED
    BY <2>1, <2>4, <2>5
<1> QED
  BY <1>1, <1>2, <1>3, <1>4, <1>5, <1>6, <1>7

(* A write that arrives is one operation on the latest document, or none.  *)
LEMMA SendFacts ==
  ASSUME IInv, NEW d \in Device, SendWrite(d)
  PROVE  LET w == Head(writes[d])
             m == currentMember[d]
         IN  /\ w \in Mutation /\ m \in Member
             /\ w.kind = "set" =>
                  /\ doc = NoPool /\ unborn /\ ~unborn' /\ link # "none"
                  /\ \E s \in Size : doc' = newPool(s, m)
             /\ w.kind # "set" => (unborn' <=> unborn)
             /\ w.kind # "set" /\ doc = NoPool => doc' = NoPool
             /\ w.kind = "leave" /\ doc # NoPool =>
                  doc.deal < MaxLeaves + 1 /\ doc' = removeMember(doc, m)
             /\ w.kind = "delete" => doc' = NoPool
             /\ w.kind = "notify" /\ doc # NoPool =>
                  /\ w.number \in DOMAIN doc.numberToPick /\ w.number \in PickNumber
                  /\ doc' = setNotified(doc, {w.number})
<1> USE DEF Kind
<1> DEFINE w == Head(writes[d])
           m == currentMember[d]
<1>a. writes \in [Device -> Seq(Mutation)] /\ writes[d] # <<>>
  BY DEF IInv, Types, SendWrite
<1>1. /\ writes' = sent(writes, d)
      /\ doc' = written(doc, m, {w})
      /\ doc \in PoolDocument \cup {NoPool}
      /\ leaves \in 0..MaxLeaves /\ MaxLeaves \in Nat
  BY DeviceAssumption DEF IInv, Types, SendWrite, sent
<1>2. m \in Member
  BY DeviceAssumption
<1>3. ASSUME NEW kind \in Kind
      PROVE  /\ w \in Mutation /\ w = writes[d][1]
             /\ front(d) \in At(writes, kind) <=> w.kind = kind
             /\ \A x \in At(writes', kind) : /\ before(d, x) \in At(writes, kind)
                                            /\ before(d, x) # front(d)
             /\ \A x \in At(writes, kind) : x[1] # d => x \in At(writes', kind)
  BY <1>a, <1>1, TailAt
<1>4. \A x, y \in At(writes, "set") : x = y /\ x[2] = 1
  BY DEF IInv, CreatedOnce
<1> HIDE DEF w, m
<1>5. ASSUME w.kind = "set"
      PROVE  /\ doc = NoPool /\ unborn /\ ~unborn' /\ link # "none"
             /\ \E s \in Size : doc' = newPool(s, m)
  <2>1. front(d) \in At(writes, "set")
    BY <1>3, <1>5
  <2>2. unborn /\ doc = NoPool
    BY <2>1 DEF unborn, IInv, CreatedOnce
  <2>3. ~unborn'
    BY <2>1, <1>3, <1>4 DEF unborn
  <2>4. link # "none"
    BY <1>a DEF IInv, CreatedOnce
  <2> QED
    BY <2>2, <2>3, <2>4, <1>1, <1>2, <1>3, <1>5, WrittenOne
<1>6. ASSUME w.kind # "set" PROVE unborn' <=> unborn
  <2>1. ASSUME unborn PROVE unborn'
    <3>1. PICK x \in At(writes, "set") : x[2] = 1
      BY <2>1, <1>4 DEF unborn
    <3>2. x[1] # d
      <4>1. x = <<x[1], x[2]>>
        BY DEF At
      <4>2. x[1] = d => x = front(d)
        BY <4>1, <3>1 DEF front
      <4>3. front(d) \notin At(writes, "set")
        BY <1>3, <1>6
      <4> QED
        BY <4>2, <4>3
    <3> QED
      BY <3>2, <1>3 DEF unborn
  <2>2. ASSUME unborn' PROVE unborn
    BY <2>2, <1>3 DEF unborn
  <2> QED
    BY <2>1, <2>2
<1>7. ASSUME w.kind = "leave", doc # NoPool PROVE doc.deal < MaxLeaves + 1
  <2> DEFINE L == At(writes, "leave")
  <2>1. front(d) \in L
    BY <1>3, <1>7
  <2>2. IsFiniteSet(L) /\ doc.deal + Cardinality(L) <= leaves + (IF isFull(doc) THEN 1 ELSE 0)
    BY <1>7 DEF IInv, LeavesPayForDeals
  <2>3. Cardinality(L) \in Nat /\ Cardinality(L) # 0
    BY <2>1, <2>2, FS_CardinalityType, FS_EmptySet
  <2>4. doc.deal \in Nat
    BY <1>1, <1>7 DEF PoolDocument
  <2> HIDE DEF L
  <2> QED
    BY <2>2, <2>3, <2>4, <1>1
<1>8. ASSUME w.kind = "notify", doc # NoPool
      PROVE  w.number \in DOMAIN doc.numberToPick /\ w.number \in PickNumber
  <2>1. DOMAIN doc.numberToPick # {}
    BY <1>3, <1>8 DEF IInv, NotifyIsSound
  <2>2. w.number \in PickNumber
    BY <1>3, <1>8, MutationKinds
  <2> QED
    BY <2>1, <2>2, <1>1, <1>8, PicksAllOrNone
<1> QED
  BY <1>1, <1>2, <1>3, <1>5, <1>6, <1>7, <1>8, WrittenOne DEF w, m

(* `created' of PoolStore. *)
Created == link # "none" /\ ~unborn

(* How a step of WinsPool changes what the other parts of the invariant    *)
(* depend on: the document by one operation of PoolStore, and the bounds   *)
(* and the birth of the pool in one direction.                             *)
StoreStep ==
  \/ doc' = doc /\ (Created' <=> Created)
  \/ /\ ~Created /\ Created' /\ unborn /\ doc = NoPool
     /\ \E m \in Member, s \in Size : doc' = newPool(s, m)
  \/ /\ doc # NoPool
     /\ doc' = NoPool \/ Operation(doc, doc')
     /\ Created' <=> Created

Onward ==
  /\ leaves' \in Nat /\ leaves <= leaves'
  /\ link # "none" => link' # "none" /\ (unborn' => unborn)
  /\ StoreStep

(* Every step is of that form: handler by handler, a commit and a write    *)
(* that arrives are operations of PoolStore and the rest leave the         *)
(* document alone.                                                         *)
LEMMA StepIsOnward == ASSUME IInv, [Next]_vars PROVE Onward
<1> USE DEF Kind
<1>a. writes \in [Device -> Seq(Mutation)]
  BY DEF IInv, Types
<1>b. ASSUME NEW d \in Device, NEW w \in Mutation,
             writes' = appended(writes, d, w)
      PROVE  At(writes', "set") = IF w.kind = "set"
                                  THEN At(writes, "set") \cup {<<d, Len(writes[d]) + 1>>}
                                  ELSE At(writes, "set")
  BY <1>a, <1>b, AppendAt
<1>0. /\ leaves \in Nat /\ leaves <= leaves
      /\ \A d \in Device : shown[d] # NoPool => link # "none"
  BY DeviceAssumption DEF IInv, Types, CreatedOnce
<1>1. ASSUME UNCHANGED <<doc, link, writes, leaves>> PROVE Onward
  BY <1>0, <1>1 DEF Onward, StoreStep, Created, unborn, At
<1>2. ASSUME UNCHANGED <<doc, link, leaves>>, At(writes', "set") = At(writes, "set")
      PROVE Onward
  BY <1>0, <1>2 DEF Onward, StoreStep, Created, unborn
<1>3. ASSUME NEW x \in Txn, Lookup(x) \/ LookupUnavailable(x) \/ CommitFailed(x)
                            \/ Completion(x)
      PROVE  Onward
  BY <1>1, <1>3 DEF Lookup, LookupUnavailable, CommitFailed, Completion, bounds
<1>4. ASSUME NEW x \in Txn, Commit(x) PROVE Onward
  <2>1. /\ doc # NoPool /\ Operation(doc, doc')
    BY <1>4, CommitFacts DEF Operation
  <2>2. UNCHANGED <<link, writes, leaves>>
    BY <1>4 DEF Commit, bounds
  <2> QED
    BY <2>1, <2>2, <1>0 DEF Onward, StoreStep, Created, unborn, At
<1>5. ASSUME NEW d \in Device, SendWrite(d) PROVE Onward
  <2>1. UNCHANGED <<link, leaves>>
    BY <1>5 DEF SendWrite, bounds
  <2> DEFINE w == Head(writes[d])
             m == currentMember[d]
  <2>2. /\ w \in Mutation /\ m \in Member
        /\ w.kind = "set" =>
             /\ doc = NoPool /\ unborn /\ ~unborn' /\ link # "none"
             /\ \E s \in Size : doc' = newPool(s, m)
        /\ w.kind # "set" => (unborn' <=> unborn)
        /\ w.kind # "set" /\ doc = NoPool => doc' = NoPool
        /\ w.kind = "leave" /\ doc # NoPool =>
             doc.deal < MaxLeaves + 1 /\ doc' = removeMember(doc, m)
        /\ w.kind = "delete" => doc' = NoPool
        /\ w.kind = "notify" /\ doc # NoPool =>
             /\ w.number \in DOMAIN doc.numberToPick /\ w.number \in PickNumber
             /\ doc' = setNotified(doc, {w.number})
    BY <1>5, SendFacts
  <2> HIDE DEF w, m
  <2>3. CASE w.kind = "set"
    BY <2>1, <2>2, <2>3, <1>0 DEF Onward, StoreStep, Created
  <2>4. CASE w.kind # "set"
    <3>1. doc # NoPool => doc' = NoPool \/ Operation(doc, doc')
      BY <2>2, <2>4, MutationKinds DEF Operation
    <3> QED
      BY <3>1, <2>1, <2>2, <2>4, <1>0 DEF Onward, StoreStep, Created
  <2> QED
    BY <2>3, <2>4
<1>6. ASSUME NEW d \in Device, Deliver(d) PROVE Onward
  <2>1. UNCHANGED <<doc, link, leaves>>
    BY <1>6 DEF Deliver, bounds
  <2>2. CASE writes' = writes
    BY <2>1, <2>2, <1>1
  <2>3. ASSUME NEW n \in PickNumber, doc.deal \in 1..(leaves + 1),
               writes' = appended(writes, d, notify(n, doc.deal, TRUE))
        PROVE  Onward
    <3>1. notify(n, doc.deal, TRUE) \in Mutation /\ notify(n, doc.deal, TRUE).kind # "set"
      <4>1. leaves \in 0..MaxLeaves /\ MaxLeaves \in Nat
        BY DeviceAssumption DEF IInv, Types
      <4>2. doc.deal \in 0..(MaxLeaves + 1)
        BY <4>1, <2>3
      <4> QED
        BY <4>2, MutationKinds DEF notify
    <3>2. At(writes', "set") = At(writes, "set")
      BY <3>1, <2>3, <1>b
    <3> QED
      BY <3>2, <2>1, <1>2
  <2> QED
    BY <2>2, <2>3, <1>6, DeliverFacts
<1>7. ASSUME NEW d \in Device, Crash(d) PROVE Onward
  <2>1. UNCHANGED <<doc, link, leaves>>
        /\ writes' = abandoned(writes, d)
    BY <1>7 DEF Crash, lost, abandoned
  <2>2. At(writes', "set") = At(writes, "set")
    BY <2>1, <1>a, LostAt
  <2> QED
    BY <2>1, <2>2, <1>2
<1>8. ASSUME NEW d \in Device, NEW s \in Size, createPool(d, s) PROVE Onward
  <2>1. /\ link = "none" /\ link' = "created" /\ UNCHANGED <<doc, leaves>>
        /\ writes' = appended(writes, d, set(s))
    BY <1>8 DEF createPool, bounds, appended
  <2>2. set(s) \in Mutation /\ set(s).kind = "set"
    BY MutationKinds DEF set
  <2>3. <<d, Len(writes[d]) + 1>> \in At(writes', "set")
    BY <2>1, <2>2, <1>b
  <2>4. unborn'
    BY <2>3 DEF unborn
  <2> QED
    BY <2>1, <2>4, <1>0 DEF Onward, StoreStep, Created
<1>9. ASSUME NEW d \in Device, invite(d) PROVE Onward
  <2>1. /\ link # "none" /\ link' = "shared" /\ UNCHANGED <<doc, writes, leaves>>
    BY <1>9, <1>0 DEF invite, bounds
  <2> QED
    BY <2>1, <1>0 DEF Onward, StoreStep, Created, unborn, At
<1>10. ASSUME NEW d \in Device, leavePool(d) PROVE Onward
  <2>1. /\ leaves' = leaves + 1 /\ UNCHANGED <<doc, link>>
        /\ \E w \in {delete, leave} : writes' = appended(writes, d, w)
    BY <1>10 DEF leavePool, appended
  <2>2. \A w \in {delete, leave} : w \in Mutation /\ w.kind # "set"
    BY MutationKinds DEF leave, delete
  <2>3. At(writes', "set") = At(writes, "set")
    BY <2>1, <2>2, <1>b
  <2> QED
    BY <2>1, <2>3, <1>0 DEF Onward, StoreStep, Created, unborn
<1>11. ASSUME NEW d \in Device,
              \/ \E x \in Txn : joinPool(d, x) \/ confirmPressed(d, x)
              \/ openDraft(d)
              \/ \E t \in Team : selectTeam(d, t)
              \/ backFromPick(d) \/ backFromDraft(d)
       PROVE  Onward
  BY <1>1, <1>11 DEF joinPool, confirmPressed, openDraft, selectTeam, backFromPick,
                     backFromDraft, bounds
<1>12. CASE UNCHANGED vars
  BY <1>1, <1>12 DEF vars, bounds
<1> QED
  BY <1>3, <1>4, <1>5, <1>6, <1>7, <1>8, <1>9, <1>10, <1>11, <1>12
     DEF Next, TxnStep, UserStep

-----------------------------------------------------------------------------
(* What a step cannot spoil. *)

(* What is within a bound is within a larger one. *)
LEMMA MoreRoom ==
  \A k, a, b \in Nat : a <= b /\ k \in 1..(a + 1) => k \in 1..(b + 1)
OBVIOUS

(* A past version stays one. *)
LEMMA PastStays ==
  ASSUME IInv, Onward, NEW p \in PoolDocument, Past(p), link # "none"
  PROVE  /\ unborn' => p.deal = 0
         /\ p.deal <= leaves' + 1
         /\ doc' # NoPool => Follows(p, doc')
<1>1. p.deal \in Nat /\ leaves \in Nat /\ doc \in PoolDocument \cup {NoPool}
  BY DEF IInv, Types, PoolDocument
<1>2. unborn' => p.deal = 0
  BY DEF Onward, Past
<1>3. p.deal <= leaves' + 1
  BY <1>1 DEF Onward, Past
<1>4. ASSUME doc' # NoPool PROVE Follows(p, doc')
  <2>1. CASE doc' = doc
    BY <2>1, <1>4 DEF Past
  <2>2. ASSUME unborn, NEW m \in Member, NEW s \in Size, doc' = newPool(s, m)
        PROVE  Follows(p, doc')
    <3>1. p.deal = 0 /\ DOMAIN p.numberToPick = {}
      BY <2>2 DEF Past, DealtHasPicks
    <3>2. doc'.deal = 0
      BY <2>2, NewPoolFacts
    <3> QED
      BY <3>1, <3>2 DEF Follows
  <2>3. CASE doc # NoPool /\ Operation(doc, doc')
    <3>1. doc \in PoolDocument /\ InOrder(doc)
      BY <2>3, <1>1 DEF IInv, DocumentIsSound
    <3>2. doc' \in PoolDocument /\ Follows(doc, doc') /\ Follows(p, doc)
      BY <3>1, <2>3, OperationKeeps DEF Past
    <3> QED
      BY <3>1, <3>2, FollowsTransitive
  <2> QED
    BY <2>1, <2>2, <2>3, <1>4 DEF Onward, StoreStep
<1> QED
  BY <1>2, <1>3, <1>4

(* A choice stays one. *)
LEMMA ChoiceStays ==
  ASSUME IInv, Onward, NEW t \in Team, NEW n \in PickNumber, NEW k \in Nat,
         Choice(t, n, k)
  PROVE  /\ k \in 1..(leaves' + 1)
         /\ link' # "none" /\ ~unborn'
         /\ doc' # NoPool => doc # NoPool /\ k <= doc'.deal
         /\ doc' # NoPool /\ k = doc'.deal => k = doc.deal /\ Free(doc', t, n)
<1>1. /\ doc \in PoolDocument \cup {NoPool}
      /\ leaves \in Nat
  BY DEF IInv, Types
<1>2. k \in 1..(leaves + 1) /\ link # "none" /\ ~unborn
  BY DEF Choice
<1>3. k \in 1..(leaves' + 1) /\ link' # "none" /\ ~unborn'
  <2>1. leaves' \in Nat /\ leaves <= leaves'
    BY DEF Onward
  <2>2. link # "none" /\ ~unborn
    BY <1>2
  <2>3. link' # "none" /\ (unborn' => unborn)
    BY <2>2 DEF Onward
  <2>4. leaves \in Nat /\ k \in 1..(leaves + 1)
    BY <1>1, <1>2
  <2>5. k \in 1..(leaves' + 1)
    BY <2>1, <2>4, MoreRoom
  <2> QED
    BY <2>2, <2>3, <2>5
<1>4. ASSUME doc' # NoPool
      PROVE  /\ doc # NoPool /\ k <= doc'.deal
             /\ k = doc'.deal => k = doc.deal /\ Free(doc', t, n)
  <2>1. CASE doc' = doc
    BY <2>1, <1>4 DEF Choice
  <2>2. CASE doc # NoPool /\ Operation(doc, doc')
    <3>1. doc \in PoolDocument /\ InOrder(doc)
      BY <2>2, <1>1 DEF IInv, DocumentIsSound
    <3>2. doc' \in PoolDocument /\ Follows(doc, doc')
      BY <3>1, <2>2, OperationKeeps
    <3>3. /\ doc.deal \in Nat /\ doc'.deal \in Nat /\ doc.deal <= doc'.deal
          /\ k <= doc.deal
      BY <3>1, <3>2, <2>2 DEF Follows, PoolDocument, Choice
    <3>4. k = doc'.deal => k = doc.deal
      BY <3>3
    <3>5. ASSUME k = doc'.deal PROVE Free(doc', t, n)
      <4>1. Free(doc, t, n) /\ doc.deal = doc'.deal
        BY <3>4, <3>5, <2>2 DEF Choice
      <4>2. madePicks(doc) \subseteq madePicks(doc')
        BY <4>1, <3>2, FollowsMade
      <4>3. \A i \in madePicks(doc) : doc'.numberToPick[i].teamId = doc.numberToPick[i].teamId
        BY <4>1, <3>2 DEF Follows, madePicks
      <4> QED
        BY <4>1, <4>2, <4>3 DEF Free
    <3> QED
      BY <3>3, <3>4, <3>5, <2>2
  <2> QED
    BY <2>1, <2>2, <1>2, <1>4 DEF Onward, StoreStep
<1> QED
  BY <1>3, <1>4

(* A made pick stays made. *)
LEMMA RecordStays ==
  ASSUME IInv, Onward, NEW t \in Team, NEW n \in PickNumber, NEW k \in Nat,
         Choice(t, n, k), doc' # NoPool, k = doc'.deal,
         doc.numberToPick[n].teamId = t
  PROVE  doc'.numberToPick[n].teamId = t
<1>1. doc # NoPool /\ k = doc.deal
  BY ChoiceStays
<1>2. doc \in PoolDocument /\ InOrder(doc) /\ DealtHasPicks(doc)
  BY <1>1 DEF IInv, Types, DocumentIsSound
<1>3. doc.deal # 0
  BY <1>1 DEF Choice
<1>4. n \in madePicks(doc)
  BY <1>2, <1>3, PicksAllOrNone, PoolAssumption DEF DealtHasPicks, madePicks, openPicks
<1>5. doc' = doc \/ Operation(doc, doc')
  BY <1>1 DEF Onward, StoreStep
<1>6. CASE Operation(doc, doc')
  <2>1. Follows(doc, doc')
    BY <1>2, <1>6, OperationKeeps
  <2> QED
    BY <2>1, <1>1, <1>4 DEF Follows, madePicks
<1> QED
  BY <1>5, <1>6

-----------------------------------------------------------------------------
(* The steps of the invariant, part by part. *)

(* The picks of the document stay in order. *)
LEMMA DocumentStep == ASSUME IInv, Onward PROVE DocumentIsSound'
<1>1. CASE doc' = doc
  BY <1>1 DEF IInv, DocumentIsSound, InOrder, DealtHasPicks, madePicks, openPicks,
              isComplete
<1>2. ASSUME NEW m \in Member, NEW s \in Size, doc' = newPool(s, m)
      PROVE  DocumentIsSound'
  BY <1>2, NewPoolKeeps DEF DocumentIsSound
<1>3. ASSUME doc # NoPool, Operation(doc, doc') PROVE DocumentIsSound'
  <2>1. doc \in PoolDocument /\ InOrder(doc) /\ DealtHasPicks(doc)
    BY <1>3 DEF IInv, Types, DocumentIsSound
  <2> QED
    BY <2>1, <1>3, OperationKeeps DEF DocumentIsSound
<1>4. CASE doc' = NoPool
  BY <1>4 DEF DocumentIsSound
<1> QED
  BY <1>1, <1>2, <1>3, <1>4 DEF Onward, StoreStep

(* The new snapshots are past versions. *)
LEMMA ShownFacts ==
  ASSUME IInv, [Next]_vars, NEW d \in Device
  PROVE  \/ shown'[d] \in {shown[d], NoPool}
         \/ shown'[d] \in PoolDocument /\ Past(shown'[d]) /\ link # "none"
<1>0. shown \in [Device -> PoolDocument \cup {NoPool}]
  BY DEF IInv, Types
<1>1. ASSUME NEW e \in Device, Deliver(e)
      PROVE  \/ shown'[d] \in {shown[d], NoPool}
             \/ shown'[d] \in PoolDocument /\ Past(shown'[d]) /\ link # "none"
  <2>1. PICK p \in PoolDocument \cup {NoPool} :
              /\ shown' = [shown EXCEPT ![e] = p]
              /\ p # NoPool => Past(p) /\ link # "none"
    BY <1>1, DeliverFacts
  <2>2. shown'[d] = IF d = e THEN p ELSE shown[d]
    BY <2>1, <1>0
  <2>3. CASE d = e /\ p # NoPool
    BY <2>1, <2>2, <2>3
  <2> QED
    BY <2>2, <2>3
<1>2. ASSUME NEW e \in Device, Crash(e) \/ backFromDraft(e)
      PROVE  shown'[d] \in {shown[d], NoPool}
  BY <1>0, <1>2 DEF Crash, backFromDraft, listed
<1>3. ASSUME UNCHANGED shown PROVE shown'[d] \in {shown[d], NoPool}
  BY <1>3
<1> QED
  BY <1>1, <1>2, <1>3
     DEF Next, TxnStep, UserStep, Lookup, LookupUnavailable, Commit, CommitFailed,
         Completion, SendWrite, createPool, invite, joinPool, confirmPressed, leavePool,
         openDraft, selectTeam, backFromPick, userVars, vars

(* What a device shows stays a past version: an old one because the        *)
(* document only moves on, a new one because it is a snapshot.             *)
LEMMA ShownStep == ASSUME IInv, [Next]_vars, Onward PROVE ShownIsPast'
<1> SUFFICES ASSUME NEW d \in Device, shown'[d] # NoPool
             PROVE  Past(shown[d])'
  BY DEF ShownIsPast
<1>1. /\ shown'[d] \in PoolDocument
      /\ Past(shown'[d]) /\ link # "none"
  BY ShownFacts DEF IInv, Types, ShownIsPast, CreatedOnce
<1> DEFINE p == shown'[d]
<1>2. p \in PoolDocument /\ Past(p)
  BY <1>1
<1> HIDE DEF p
<1>3. /\ unborn' => p.deal = 0
      /\ p.deal <= leaves' + 1
      /\ doc' # NoPool => Follows(p, doc')
  BY <1>1, <1>2, PastStays
<1>4. DealtHasPicks(p)
  BY <1>2 DEF Past
<1> QED
  BY <1>3, <1>4 DEF Past, p

(* How a step changes the queues, and what else it does then.              *)
Asked(d, w) ==
  \/ w.kind = "set" /\ link = "none" /\ link' # "none" /\ leaves' = leaves
  \/ w.kind \in {"leave", "delete"} /\ leaves' = leaves + 1 /\ link # "none"
  \/ /\ w = notify(w.number, doc.deal, TRUE) /\ w.kind = "notify"
     /\ leaves' = leaves /\ link # "none"
     /\ doc # NoPool /\ doc.deal \in 1..(leaves + 1)
     /\ w.number \in DOMAIN doc.numberToPick
     /\ doc.numberToPick[w.number].member = currentMember[d]

QueueStep ==
  \/ writes' = writes /\ leaves' = leaves
  \/ \E d \in Device : SendWrite(d)
  \/ \E d \in Device : Crash(d)
  \/ \E d \in Device, w \in Mutation :
       /\ writes' = appended(writes, d, w) /\ doc' = doc /\ crashes' = crashes
       /\ Asked(d, w)

(* No step does anything else to the queues. *)
LEMMA QueueSteps == ASSUME IInv, [Next]_vars PROVE QueueStep
<1>0. /\ leaves \in 0..MaxLeaves /\ MaxLeaves \in Nat
      /\ \A d \in Device : shown[d] # NoPool => link # "none"
      /\ doc # NoPool => link # "none"
  BY DeviceAssumption DEF IInv, Types, CreatedOnce
<1>1. ASSUME UNCHANGED <<writes, leaves>> PROVE QueueStep
  BY <1>1 DEF QueueStep
<1>2. ASSUME NEW d \in Device, Deliver(d) PROVE QueueStep
  <2>1. ASSUME NEW n \in PickNumber,
               doc # NoPool /\ doc.deal \in 1..(leaves + 1),
               n \in DOMAIN doc.numberToPick,
               doc.numberToPick[n].member = currentMember[d],
               writes' = appended(writes, d, notify(n, doc.deal, TRUE))
        PROVE  QueueStep
    <3> DEFINE w == notify(n, doc.deal, TRUE)
    <3>1. doc.deal \in 0..(MaxLeaves + 1)
      BY <2>1, <1>0
    <3>2. /\ w \in Mutation /\ w.kind = "notify" /\ w.number = n
          /\ w = notify(w.number, doc.deal, TRUE)
      BY <3>1, MutationKinds DEF notify
    <3>3. doc' = doc /\ leaves' = leaves /\ crashes' = crashes
      BY <1>2 DEF Deliver, bounds
    <3>4. writes' = appended(writes, d, w)
      BY <2>1
    <3> HIDE DEF w
    <3>5. Asked(d, w)
      BY <3>2, <3>3, <2>1, <1>0 DEF Asked
    <3> QED
      BY <3>2, <3>3, <3>4, <3>5 DEF QueueStep
  <2>2. CASE writes' = writes
    BY <2>2, <1>1, <1>2 DEF Deliver, bounds
  <2> QED
    BY <2>1, <2>2, <1>2, DeliverFacts
<1>3. ASSUME NEW d \in Device, NEW s \in Size, createPool(d, s) PROVE QueueStep
  <2> DEFINE w == set(s)
  <2>1. w \in Mutation /\ w.kind = "set"
    BY MutationKinds DEF set
  <2>2. /\ writes' = appended(writes, d, w) /\ doc' = doc /\ crashes' = crashes
        /\ link = "none" /\ link' # "none" /\ leaves' = leaves
    BY <1>3 DEF createPool, appended, bounds
  <2> HIDE DEF w
  <2> QED
    BY <2>1, <2>2 DEF QueueStep, Asked
<1>4. ASSUME NEW d \in Device, leavePool(d) PROVE QueueStep
  <2>1. /\ leaves' = leaves + 1 /\ doc' = doc /\ crashes' = crashes /\ link # "none"
        /\ \E w \in {delete, leave} : writes' = appended(writes, d, w)
    BY <1>4, <1>0 DEF leavePool, appended
  <2>2. \A w \in {delete, leave} : w \in Mutation /\ w.kind \in {"leave", "delete"}
    BY MutationKinds DEF leave, delete
  <2> QED
    BY <2>1, <2>2 DEF QueueStep, Asked
<1>5. ASSUME NEW d \in Device, SendWrite(d) \/ Crash(d) PROVE QueueStep
  BY <1>5 DEF QueueStep
<1> QED
  BY <1>1, <1>2, <1>3, <1>4, <1>5
     DEF Next, TxnStep, UserStep, Lookup, LookupUnavailable, Commit, CommitFailed,
         Completion, invite, joinPool, confirmPressed,
         openDraft, selectTeam, backFromPick, backFromDraft, bounds, vars

(* The pool is created once: createPool finds empty queues everywhere, and *)
(* its write is the first to leave.                                        *)
LEMMA CreatedOnceStep ==
  ASSUME IInv, [Next]_vars, Onward PROVE CreatedOnce'
<1>a. writes \in [Device -> Seq(Mutation)] /\ "set" \in Kind
  BY DEF IInv, Types, Kind
<1>0. /\ \A x, y \in At(writes, "set") : x = y /\ x[2] = 1
      /\ unborn => doc = NoPool
      /\ link = "none" =>
           /\ doc = NoPool
           /\ \A d \in Device : writes[d] = <<>> /\ shown[d] = NoPool
  BY DEF IInv, CreatedOnce
<1>1. \A x, y \in At(writes', "set") : x = y /\ x[2] = 1
  <2>1. CASE writes' = writes
    BY <2>1, <1>0
  <2>2. ASSUME NEW d \in Device, SendWrite(d)
        PROVE  \A x, y \in At(writes', "set") : x = y /\ x[2] = 1
    <3>1. writes[d] # <<>> /\ writes' = sent(writes, d)
      BY <2>2 DEF SendWrite, sent
    <3>2. \A x \in At(writes', "set") :
            before(d, x) \in At(writes, "set") /\ before(d, x) # front(d)
      BY <3>1, <1>a, TailAt
    <3>3. \A x \in At(writes', "set") : before(d, x) = x
      <4> SUFFICES ASSUME NEW x \in At(writes', "set") PROVE x[1] # d
        BY DEF before
      <4>1. before(d, x)[2] = 1 /\ before(d, x) # front(d)
        BY <3>2, <1>0
      <4>2. x = <<x[1], x[2]>>
        BY DEF At
      <4> QED
        BY <4>1, <4>2 DEF before, front
    <3> QED
      BY <3>2, <3>3, <1>0
  <2>3. ASSUME NEW d \in Device, Crash(d)
        PROVE  \A x, y \in At(writes', "set") : x = y /\ x[2] = 1
    <3>1. writes' = abandoned(writes, d)
      BY <2>3 DEF Crash, abandoned, lost
    <3> QED
      BY <3>1, <1>a, <1>0, LostAt
  <2>4. ASSUME NEW d \in Device, NEW w \in Mutation, writes' = appended(writes, d, w),
               Asked(d, w)
        PROVE  \A x, y \in At(writes', "set") : x = y /\ x[2] = 1
    <3>1. At(writes', "set") = IF w.kind = "set"
                               THEN At(writes, "set") \cup {<<d, Len(writes[d]) + 1>>}
                               ELSE At(writes, "set")
      BY <2>4, <1>a, AppendAt
    <3>2. CASE w.kind = "set"
      <4>1. link = "none"
        BY <3>2, <2>4 DEF Asked
      <4>2. \A e \in Device : writes[e] = <<>>
        BY <4>1, <1>0
      <4>3. At(writes, "set") = {}
        <5>1. DOMAIN <<>> = {}
          OBVIOUS
        <5> QED
          BY <4>2, <5>1 DEF At
      <4>4. Len(writes[d]) = 0
        BY <4>2, <1>a
      <4> QED
        BY <4>3, <4>4, <3>1, <3>2
    <3> QED
      BY <3>1, <3>2, <1>0
  <2> QED
    BY <2>1, <2>2, <2>3, <2>4, QueueSteps DEF QueueStep
<1>2. unborn' => doc' = NoPool
  <2> SUFFICES ASSUME unborn' PROVE doc' = NoPool
    OBVIOUS
  <2>1. doc = NoPool
    BY <1>0 DEF Onward
  <2> QED
    BY <2>1 DEF Onward, StoreStep, Created
<1>3. ASSUME link' = "none"
      PROVE  /\ doc' = NoPool
             /\ \A d \in Device : writes'[d] = <<>> /\ shown'[d] = NoPool
  <2>1. link = "none"
    BY <1>3 DEF Onward
  <2>2. doc' = NoPool
    BY <2>1, <1>0, <1>3 DEF Onward, StoreStep, Created
  <2>3. \A d \in Device : shown'[d] = NoPool
    BY <2>1, <1>0, ShownFacts
  <2>4. \A d \in Device : writes'[d] = <<>>
    <3>1. CASE writes' = writes
      BY <3>1, <2>1, <1>0
    <3>2. ASSUME NEW d \in Device, SendWrite(d) PROVE FALSE
      BY <3>2, <2>1, <1>0 DEF SendWrite
    <3>3. ASSUME NEW d \in Device, Crash(d) PROVE \A e \in Device : writes'[e] = <<>>
      <4>1. writes' = abandoned(writes, d)
        BY <3>3 DEF Crash, abandoned, lost
      <4>2. \A e \in Device : writes[e] = <<>> => writes'[e] = <<>>
        BY <4>1, <1>a, LostAt
      <4> QED
        BY <4>2, <2>1, <1>0
    <3>4. ASSUME NEW d \in Device, NEW w \in Mutation, Asked(d, w) PROVE FALSE
      BY <3>4, <2>1, <1>3 DEF Asked
    <3> QED
      BY <3>1, <3>2, <3>3, <3>4, QueueSteps DEF QueueStep
  <2> QED
    BY <2>2, <2>3, <2>4
<1> QED
  BY <1>1, <1>2, <1>3 DEF CreatedOnce

(* The parts that depend on the state, of what was there before the step,  *)
(* in the state after it.                                                  *)
ChoiceAfter(t, n, k) ==
  /\ t \in Team /\ n \in PickNumber /\ k \in 1..(leaves' + 1)
  /\ link' # "none" /\ ~unborn'
  /\ doc' # NoPool => k <= doc'.deal
  /\ doc' # NoPool /\ k = doc'.deal => Free(doc', t, n)

SoundAfter(u) ==
  /\ u.op = "pick" => ChoiceAfter(u.teamId, u.number, u.deal)
  /\ u.op = "pick" /\ u.caller = "waiting" => screen'[u.dev] = "pick"
  /\ u.phase = "commit" => u.read = doc' /\ admitted(doc', u)
  /\ u.phase = "ok" /\ u.op = "pick" /\ doc' # NoPool /\ u.deal = doc'.deal =>
       doc'.numberToPick[u.number].teamId = u.teamId

(* A choice is not spoiled by a step. *)
LEMMA ChoiceGoesOn ==
  ASSUME IInv, Onward, NEW t, NEW n, NEW k, Choice(t, n, k)
  PROVE  ChoiceAfter(t, n, k)
<1>1. t \in Team /\ n \in PickNumber /\ k \in 1..(leaves + 1)
  BY DEF Choice
<1>2. k \in Nat
  BY <1>1 DEF IInv, Types
<1> QED
  BY <1>1, <1>2, ChoiceStays DEF ChoiceAfter

(* A transaction t that asks for the same afterwards, as u. *)
LEMMA CarriedOn ==
  ASSUME IInv, Onward, NEW t \in TxnRecord, TransactionIsSound(t),
         NEW u \in TxnRecord, SameRequest(t, u),
         u.op = "pick" /\ u.caller = "waiting" => screen'[u.dev] = "pick",
         u.phase = "commit" => u.read = doc' /\ admitted(doc', u),
         \/ u.phase # "ok"
         \/ t.phase = "ok"
         \/ u.op = "pick" => doc'.numberToPick[u.number].teamId = u.teamId
  PROVE  SoundAfter(u)
<1>1. u.op = "pick" => /\ t.op = "pick" /\ Choice(u.teamId, u.number, u.deal)
                       /\ u.teamId = t.teamId /\ u.number = t.number /\ u.deal = t.deal
  BY DEF SameRequest, TransactionIsSound
<1>2. u.op = "pick" => ChoiceAfter(u.teamId, u.number, u.deal)
  BY <1>1, ChoiceGoesOn
<1>3. ASSUME u.phase = "ok", u.op = "pick", doc' # NoPool, u.deal = doc'.deal,
             t.phase = "ok"
      PROVE  doc'.numberToPick[u.number].teamId = u.teamId
  <2>1. /\ u.teamId \in Team /\ u.number \in PickNumber /\ u.deal \in Nat
        /\ Choice(u.teamId, u.number, u.deal)
    BY <1>1, <1>3 DEF Choice, TxnRecord
  <2>2. doc # NoPool /\ u.deal = doc.deal
    BY <2>1, <1>3, ChoiceStays
  <2>3. doc.numberToPick[u.number].teamId = u.teamId
    BY <2>2, <1>1, <1>3 DEF TransactionIsSound
  <2> QED
    BY <2>1, <2>3, <1>3, RecordStays
<1> QED
  BY <1>2, <1>3 DEF SoundAfter

(* A transaction stays sound: one that was started, retried or ended asks  *)
(* for what was chosen, one whose document changed is made stale, and one  *)
(* that committed is in the document.                                      *)
LEMMA TransactionsStep ==
  ASSUME IInv, [Next]_vars, Onward PROVE TransactionsAreSound'
<1> SUFFICES ASSUME NEW y \in Txn, txn'[y] # noTxn
             PROVE  SoundAfter(txn'[y])
  BY DEF TransactionsAreSound, TransactionIsSound, SoundAfter, Choice, ChoiceAfter
<1> DEFINE t == txn[y]
           u == txn'[y]
<1>0. /\ txn \in [Txn -> TxnRecord \cup {noTxn}]
      /\ screen \in [Device -> {"pools", "draft", "pick"}]
      /\ t # noTxn => /\ t \in TxnRecord /\ TransactionIsSound(t)
                      /\ t.dev \in Device
                      /\ t.op = "pick" /\ t.caller = "waiting" => screen[t.dev] = "pick"
  BY DEF IInv, Types, TransactionsAreSound, TransactionIsSound, TxnRecord
<1> HIDE DEF t, u
<1>1. ASSUME u = t, doc' = doc,
             u.op = "pick" /\ u.caller = "waiting" /\ screen[u.dev] = "pick"
               => screen'[u.dev] = "pick"
      PROVE  SoundAfter(u)
  <2>1. t \in TxnRecord /\ TransactionIsSound(t)
    BY <1>0, <1>1 DEF t, u
  <2>2. SameRequest(t, u)
    BY <1>1 DEF SameRequest
  <2>3. u.op = "pick" /\ u.caller = "waiting" => screen'[u.dev] = "pick"
    BY <2>1, <1>1 DEF TransactionIsSound
  <2>4. u.phase = "commit" => u.read = doc' /\ admitted(doc', u)
    BY <2>1, <1>1 DEF TransactionIsSound
  <2> QED
    BY <2>1, <2>2, <2>3, <2>4, <1>1, CarriedOn
<1>2. ASSUME t # noTxn, u \in TxnRecord, SameRequest(t, u), screen' = screen,
             u.phase = "commit" => u.read = doc' /\ admitted(doc', u),
             u.phase = "ok" => t.phase = "ok"
      PROVE  SoundAfter(u)
  <2>1. u.op = "pick" /\ u.caller = "waiting" => screen'[u.dev] = "pick"
    BY <1>0, <1>2 DEF SameRequest
  <2> QED
    BY <2>1, <1>0, <1>2, CarriedOn
<1>3. ASSUME NEW x \in Txn, Lookup(x) PROVE SoundAfter(u)
  <2>1. doc' = doc /\ screen' = screen
    BY <1>3 DEF Lookup, userVars
  <2>2. CASE y # x
    BY <2>1, <2>2, <1>0, <1>1, <1>3 DEF Lookup, t, u
  <2>3. CASE y = x
    <3>1. /\ t.phase = "lookup" /\ t # noTxn /\ t \in TxnRecord
          /\ u = IF admitted(doc, t) THEN [t EXCEPT !.phase = "commit", !.read = doc]
                                     ELSE refused(t)
      BY <2>3, <1>0, <1>3, NoTxnFacts DEF Lookup, t, u
    <3>2. CASE admitted(doc, t)
      <4>1. doc \in PoolDocument
        BY <3>2 DEF admitted, IInv, Types
      <4>2. /\ u \in TxnRecord /\ SameRequest(t, u)
            /\ u.phase = "commit" /\ u.read = doc
        BY <3>1, <3>2, <4>1 DEF TxnRecord, Phase, SameRequest
      <4>3. admitted(doc', u)
        BY <4>2, <3>2, <2>1 DEF admitted, SameRequest
      <4> QED
        BY <4>2, <4>3, <3>1, <2>1, <1>2
    <3>3. CASE ~admitted(doc, t)
      <4>1. u \in TxnRecord /\ u.phase = "failed" /\ SameRequest(t, u)
        BY <3>1, <3>3, EndedFacts DEF refused, u
      <4> QED
        BY <4>1, <3>1, <2>1, <1>2
    <3> QED
      BY <3>2, <3>3
  <2> QED
    BY <2>2, <2>3
<1>4. ASSUME NEW x \in Txn, LookupUnavailable(x) \/ CommitFailed(x) PROVE SoundAfter(u)
  <2>1. doc' = doc /\ screen' = screen /\ txn' = [txn EXCEPT ![x] = retried(txn[x])]
        /\ txn[x].phase \in {"lookup", "commit", "stale"}
    BY <1>4 DEF LookupUnavailable, CommitFailed, userVars
  <2>2. CASE y # x
    BY <2>1, <2>2, <1>0, <1>1 DEF t, u
  <2>3. CASE y = x
    <3>1. t # noTxn /\ t \in TxnRecord /\ u = retried(t)
      BY <2>1, <2>3, <1>0, NoTxnFacts DEF t, u
    <3>2. u \in TxnRecord /\ u.phase \in {"lookup", "failed"} /\ SameRequest(t, u)
      BY <3>1, RetriedFacts DEF u
    <3> QED
      BY <3>1, <3>2, <2>1, <1>2
  <2> QED
    BY <2>2, <2>3
<1>5. ASSUME u = outdated(t, doc'), screen' = screen PROVE SoundAfter(u)
  <2>1. t # noTxn /\ t \in TxnRecord /\ TransactionIsSound(t)
    BY <1>0, <1>5, OutdatedNoTxn DEF u
  <2>2. /\ u \in TxnRecord /\ SameRequest(t, u)
        /\ u.phase = "commit" => u = t /\ doc' = doc
        /\ u.phase = "ok" => u = t
    BY <2>1, <1>5, OutdatedFacts
  <2>3. u.phase = "commit" => u.read = doc' /\ admitted(doc', u)
    BY <2>1, <2>2 DEF TransactionIsSound
  <2> QED
    BY <2>1, <2>2, <2>3, <1>2, <1>5
<1>6. ASSUME NEW x \in Txn, Commit(x) PROVE SoundAfter(u)
  <2>1. screen' = screen /\ txn[x].phase = "commit"
    BY <1>6 DEF Commit, userVars
  <2>2. CASE y # x
    <3>1. u = outdated(t, doc')
      BY <2>2, <1>6 DEF Commit, outdatedAll, t, u
    <3> QED
      BY <3>1, <2>1, <1>5
  <2>3. CASE y = x
    <3>1. /\ t # noTxn /\ t \in TxnRecord /\ TransactionIsSound(t)
          /\ u = ended(t, "ok") \/ u = retried([t EXCEPT !.applied = TRUE])
      BY <2>1, <2>3, <1>0, <1>6, NoTxnFacts DEF Commit, outdatedAll, t, u
    <3>2. CASE u = retried([t EXCEPT !.applied = TRUE])
      <4> DEFINE v == [t EXCEPT !.applied = TRUE]
      <4>1. v \in TxnRecord /\ SameRequest(t, v)
        BY <3>1 DEF TxnRecord, SameRequest
      <4> HIDE DEF v
      <4>2. u \in TxnRecord /\ u.phase \in {"lookup", "failed"} /\ SameRequest(v, u)
        BY <4>1, <3>2, RetriedFacts DEF u, v
      <4>3. SameRequest(t, u)
        BY <4>1, <4>2 DEF SameRequest
      <4> QED
        BY <4>2, <4>3, <3>1, <2>1, <1>2
    <3>3. CASE u = ended(t, "ok")
      <4>1. u \in TxnRecord /\ u.phase = "ok" /\ SameRequest(t, u)
        BY <3>1, <3>3, EndedFacts DEF u
      <4>2. ASSUME u.op = "pick" PROVE doc'.numberToPick[u.number].teamId = u.teamId
        <5>1. /\ doc \in PoolDocument /\ currentMember[t.dev] \in Member
              /\ t.number \in PickNumber /\ t.teamId \in Team
              /\ PickOf(doc, doc', currentMember[t.dev], t.number, t.teamId)
          BY <4>1, <4>2, <2>3, <1>6, CommitFacts DEF SameRequest, t
        <5>2. Picked(doc, doc', currentMember[t.dev], t.number, t.teamId)
          BY <5>1, PickOfIsPicked
        <5>3. doc'.numberToPick[t.number].teamId = t.teamId
          <6> DEFINE q == doc'
                     m == currentMember[t.dev]
                     n == t.number
                     r == t.teamId
          <6>1. /\ doc \in PoolDocument /\ m \in Member /\ n \in PickNumber /\ r \in Team
                /\ Picked(doc, q, m, n, r)
            BY <5>1, <5>2
          <6> HIDE DEF q, m, n, r
          <6>2. q.numberToPick[n].teamId = r
            BY <6>1, PickedFacts
          <6> QED
            BY <6>2 DEF q, n, r
        <5> QED
          BY <5>3, <4>1 DEF SameRequest
      <4>3. u.op = "pick" /\ u.caller = "waiting" => screen'[u.dev] = "pick"
        BY <4>1, <3>1, <2>1 DEF SameRequest, TransactionIsSound
      <4> QED
        BY <4>1, <4>2, <4>3, <3>1, CarriedOn
    <3> QED
      BY <3>1, <3>2, <3>3
  <2> QED
    BY <2>2, <2>3
<1>7. ASSUME NEW d \in Device, SendWrite(d) PROVE SoundAfter(u)
  BY <1>5, <1>7 DEF SendWrite, outdatedAll, userVars, t, u
<1>8. ASSUME NEW d \in Device, u = popped(d)[y], doc' = doc,
             screen' = [screen EXCEPT ![d] = "draft"]
      PROVE  SoundAfter(u)
  <2>1. CASE t # noTxn /\ t.dev = d /\ t.op = "pick" /\ t.caller = "waiting"
    <3>1. u = [t EXCEPT !.caller = "left"] /\ t \in TxnRecord /\ TransactionIsSound(t)
      BY <2>1, <1>0, <1>8 DEF popped, t
    <3>2. u \in TxnRecord /\ SameRequest(t, u) /\ u.phase = t.phase /\ u.read = t.read
          /\ u.caller # "waiting"
      BY <3>1 DEF TxnRecord, SameRequest
    <3>3. u.phase = "commit" => u.read = doc' /\ admitted(doc', u)
      BY <3>1, <3>2, <1>8 DEF TransactionIsSound, admitted, SameRequest
    <3> QED
      BY <3>1, <3>2, <3>3, CarriedOn
  <2>2. CASE ~(t # noTxn /\ t.dev = d /\ t.op = "pick" /\ t.caller = "waiting")
    <3>1. u = t /\ t # noTxn
      BY <2>2, <1>8 DEF popped, t, u
    <3>2. u.op = "pick" /\ u.caller = "waiting" /\ screen[u.dev] = "pick"
            => screen'[u.dev] = "pick"
      BY <3>1, <2>2, <1>0, <1>8
    <3> QED
      BY <3>1, <3>2, <1>1, <1>8
  <2> QED
    BY <2>1, <2>2
<1>9. ASSUME NEW x \in Txn, Completion(x) PROVE SoundAfter(u)
  <2> DEFINE d    == txn[x].dev
             pops == txn[x].phase = "ok" /\ txn[x].op = "pick"
                       /\ txn[x].caller = "waiting"
  <2>1. /\ doc' = doc
        /\ txn' = [(IF pops THEN popped(d) ELSE txn) EXCEPT ![x] = noTxn]
        /\ screen' = IF pops THEN [screen EXCEPT ![d] = "draft"] ELSE screen
        /\ txn[x].phase \in {"ok", "failed"}
    BY <1>9 DEF Completion
  <2>2. txn[x] \in TxnRecord
    BY <2>1, <1>0, NoTxnFacts
  <2>3. d \in Device
    BY <2>2 DEF TxnRecord
  <2> HIDE DEF pops, d
  <2>4. y # x
    BY <2>1, <1>0 DEF popped
  <2>5. CASE pops
    <3>1. u = popped(d)[y] /\ screen' = [screen EXCEPT ![d] = "draft"]
      BY <2>1, <2>4, <2>5 DEF popped, u
    <3> QED
      BY <3>1, <2>1, <2>3, <1>8
  <2>6. CASE ~pops
    <3>1. u = t /\ screen' = screen
      BY <2>1, <2>4, <2>6, <1>0 DEF t, u
    <3> QED
      BY <3>1, <2>1, <1>1
  <2> QED
    BY <2>5, <2>6
<1>10. ASSUME NEW d \in Device, backFromPick(d) PROVE SoundAfter(u)
  BY <1>8, <1>10 DEF backFromPick, u
<1>11. ASSUME NEW d \in Device, Crash(d) PROVE SoundAfter(u)
  <2>1. /\ doc' = doc /\ screen' = [screen EXCEPT ![d] = "pools"]
        /\ u = IF t = noTxn \/ t.dev # d THEN t
               ELSE IF t.phase = "commit" THEN [t EXCEPT !.caller = "crashed"] ELSE noTxn
    BY <1>11 DEF Crash, t, u
  <2>2. CASE t.dev # d
    <3>1. u = t /\ (screen[u.dev] = "pick" => screen'[u.dev] = "pick")
      BY <2>1, <2>2, <1>0 DEF u
    <3> QED
      BY <3>1, <2>1, <1>1
  <2>3. CASE t # noTxn /\ t.dev = d /\ t.phase = "commit"
    <3>1. u = [t EXCEPT !.caller = "crashed"] /\ t \in TxnRecord /\ TransactionIsSound(t)
      BY <2>1, <2>3, <1>0
    <3>2. u \in TxnRecord /\ SameRequest(t, u) /\ u.phase = t.phase /\ u.read = t.read
          /\ u.caller # "waiting"
      BY <3>1 DEF TxnRecord, SameRequest
    <3>3. u.phase = "commit" => u.read = doc' /\ admitted(doc', u)
      BY <3>1, <3>2, <2>1 DEF TransactionIsSound, admitted, SameRequest
    <3> QED
      BY <3>1, <3>2, <3>3, CarriedOn
  <2> QED
    BY <2>1, <2>2, <2>3 DEF u
<1>12. ASSUME NEW d \in Device, NEW x \in Txn, joinPool(d, x) PROVE SoundAfter(u)
  <2>1. /\ doc' = doc /\ screen' = screen
        /\ txn' = [txn EXCEPT ![x] = started(d, "join", NoTeam, 0, 0)]
    BY <1>12 DEF joinPool, userVars
  <2>2. CASE y # x
    BY <2>1, <2>2, <1>0, <1>1 DEF t, u
  <2>3. CASE y = x
    <3>1. u.op = "join" /\ u.phase = "lookup"
      BY <2>1, <2>3, <1>0 DEF started, u
    <3> QED
      BY <3>1 DEF SoundAfter
  <2> QED
    BY <2>2, <2>3
<1>13. ASSUME NEW d \in Device, NEW x \in Txn, confirmPressed(d, x) PROVE SoundAfter(u)
  <2>1. /\ doc' = doc /\ screen' = screen /\ screen[d] = "pick"
        /\ txn' = [txn EXCEPT ![x] = started(d, "pick", pickVC[d].teamId,
                                             pickVC[d].number, pickVC[d].deal)]
    BY <1>13 DEF confirmPressed, userVars
  <2>2. CASE y # x
    BY <2>1, <2>2, <1>0, <1>1 DEF t, u
  <2>3. CASE y = x
    <3>1. /\ u.phase = "lookup" /\ u.dev = d
          /\ u.teamId = pickVC[d].teamId /\ u.number = pickVC[d].number
          /\ u.deal = pickVC[d].deal
      BY <2>1, <2>3, <1>0 DEF started, u
    <3>2. Choice(u.teamId, u.number, u.deal)
      BY <3>1, <2>1 DEF IInv, ScreensAreSound
    <3>3. ChoiceAfter(u.teamId, u.number, u.deal)
      BY <3>2, ChoiceGoesOn
    <3> QED
      BY <3>1, <3>3, <2>1 DEF SoundAfter
  <2> QED
    BY <2>2, <2>3
<1>14. ASSUME NEW d \in Device, openDraft(d) \/ backFromDraft(d) PROVE SoundAfter(u)
  <2>1. u = t /\ doc' = doc /\ screen[d] # "pick"
        /\ \E s : screen' = [screen EXCEPT ![d] = s]
    BY <1>14 DEF openDraft, backFromDraft, t, u
  <2>2. \A e \in Device : screen[e] = "pick" => screen'[e] = "pick"
    BY <2>1, <1>0
  <2>3. u.dev \in Device
    BY <2>1, <1>0 DEF u
  <2> QED
    BY <2>1, <2>2, <2>3, <1>1
<1>15. ASSUME NEW d \in Device, NEW r \in Team, selectTeam(d, r) PROVE SoundAfter(u)
  <2>1. u = t /\ doc' = doc /\ screen' = [screen EXCEPT ![d] = "pick"]
    BY <1>15 DEF selectTeam, t, u
  <2>2. u.dev \in Device
    BY <2>1, <1>0 DEF u
  <2> QED
    BY <2>1, <2>2, <1>0, <1>1
<1>16. ASSUME UNCHANGED <<txn, doc, screen>> PROVE SoundAfter(u)
  BY <1>1, <1>16 DEF t, u
<1> HIDE DEF SoundAfter
<1>17. SoundAfter(u)
  BY <1>3, <1>4, <1>6, <1>7, <1>9, <1>10, <1>11, <1>12, <1>13, <1>14, <1>15, <1>16
     DEF Next, TxnStep, UserStep, Deliver, createPool, invite, leavePool, userVars, vars
<1> QED
  BY <1>17 DEF u

(* The rows of a snapshot: a team is chosen when it is free, as far as the *)
(* snapshot shows, and so it is as long as the deal lasts.                 *)
LEMMA SelectFacts ==
  ASSUME IInv, NEW d \in Device, NEW t \in Team, selectTeam(d, t)
  PROVE  /\ shown[d] # NoPool
         /\ \E n \in PickNumber :
              /\ Choice(t, n, shown[d].deal)
              /\ shown[d].deal \in Nat
              /\ pickVC' = [pickVC EXCEPT ![d] =
                              [teamId |-> t, number |-> n, deal |-> shown[d].deal]]
<1> DEFINE p == shown[d]
<1>1. /\ p # NoPool /\ p \in PoolDocument /\ link # "none" /\ Past(p)
      /\ leaves \in Nat /\ doc \in PoolDocument \cup {NoPool}
  BY DEF selectTeam, IInv, ScreensAreSound, Types, ShownIsPast, CreatedOnce
<1>2. PICK n \in PickNumber :
        /\ isTurnOf(p, currentMember[d], n)
        /\ pickVC' = [pickVC EXCEPT ![d] = [teamId |-> t, number |-> n, deal |-> p.deal]]
  BY DEF selectTeam
<1>3. t \in teamsRemaining(p)
  BY DEF selectTeam
<1> HIDE DEF p
<1>4. /\ n \in openPicks(p) /\ \A k \in openPicks(p) : n <= k
      /\ DOMAIN p.numberToPick = PickNumber
  BY <1>1, <1>2, PicksAllOrNone DEF isTurnOf, isCurrentPick, openPicks
<1>5. p.deal \in 1..(leaves + 1) /\ ~unborn
  <2>1. p.deal \in Nat /\ p.deal # 0 /\ p.deal <= leaves + 1
    BY <1>1, <1>4, PoolAssumption DEF Past, DealtHasPicks, PoolDocument, PickNumber
  <2>2. ~unborn
    BY <2>1, <1>1 DEF Past
  <2> QED
    BY <2>1, <2>2, <1>1
<1>6. Free(p, t, n)
  <2> SUFFICES ASSUME NEW i \in 1..(n - 1)
               PROVE  i \in madePicks(p) /\ p.numberToPick[i].teamId # t
    BY DEF Free
  <2>1. i \in PickNumber /\ ~(n <= i)
    BY PoolAssumption DEF PickNumber
  <2>2. i \in madePicks(p)
    BY <2>1, <1>4 DEF madePicks
  <2> QED
    BY <2>2, <1>3 DEF teamsRemaining
<1>7. ASSUME doc # NoPool
      PROVE  p.deal <= doc.deal /\ (p.deal = doc.deal => Free(doc, t, n))
  <2>1. Follows(p, doc)
    BY <1>1, <1>7 DEF Past
  <2>2. p.deal = doc.deal => madePicks(p) \subseteq madePicks(doc)
    BY <2>1, FollowsMade
  <2>3. p.deal = doc.deal => \A i \in madePicks(p) :
                               doc.numberToPick[i].teamId = p.numberToPick[i].teamId
    BY <2>1 DEF Follows, madePicks
  <2> QED
    BY <2>1, <2>2, <2>3, <1>6 DEF Free, Follows
<1>8. Choice(t, n, p.deal)
  BY <1>1, <1>5, <1>7 DEF Choice
<1>9. shown[d] # NoPool /\ shown[d].deal \in Nat
  BY <1>1 DEF p, PoolDocument
<1>10. /\ Choice(t, n, shown[d].deal)
       /\ pickVC' = [pickVC EXCEPT ![d] =
                       [teamId |-> t, number |-> n, deal |-> shown[d].deal]]
  BY <1>2, <1>8 DEF p
<1> QED
  BY <1>9, <1>10

(* A screen that needs a snapshot has one, and the pick shown for          *)
(* confirmation is still a choice.                                         *)
LEMMA ScreensStep ==
  ASSUME IInv, [Next]_vars, Onward PROVE ScreensAreSound'
<1> SUFFICES ASSUME NEW e \in Device
             PROVE  /\ screen'[e] # "pools" => shown'[e] # NoPool
                    /\ screen'[e] = "pick" =>
                         ChoiceAfter(pickVC'[e].teamId, pickVC'[e].number, pickVC'[e].deal)
  BY DEF ScreensAreSound, Choice, ChoiceAfter
<1> DEFINE Sound == /\ screen'[e] # "pools" => shown'[e] # NoPool
                    /\ screen'[e] = "pick" =>
                         ChoiceAfter(pickVC'[e].teamId, pickVC'[e].number, pickVC'[e].deal)
<1>0. /\ screen \in [Device -> {"pools", "draft", "pick"}]
      /\ screen[e] # "pools" => shown[e] # NoPool
      /\ screen[e] = "pick" => Choice(pickVC[e].teamId, pickVC[e].number, pickVC[e].deal)
  BY DEF IInv, Types, ScreensAreSound
<1>a. shown \in [Device -> PoolDocument \cup {NoPool}]
  BY DEF IInv, Types
<1>b. pickVC \in [Device -> [teamId : Team \cup {NoTeam},
                          number : PickNumber \cup {0}, deal : Nat]]
  BY DEF IInv, Types
<1>1. ASSUME screen'[e] = screen[e], shown'[e] = shown[e], pickVC'[e] = pickVC[e] PROVE Sound
  BY <1>0, <1>1, ChoiceGoesOn
<1>2. ASSUME UNCHANGED userVars PROVE Sound
  BY <1>1, <1>2 DEF userVars
<1>3. ASSUME NEW d \in Device, screen[d] = "pick",
             screen' = [screen EXCEPT ![d] = "draft"],
             pickVC' = [pickVC EXCEPT ![d] = noPick], shown' = shown
      PROVE  Sound
  <2>1. CASE e = d
    BY <2>1, <1>0, <1>3
  <2>2. CASE e # d
    BY <2>2, <1>0, <1>b, <1>1, <1>3
  <2> QED
    BY <2>1, <2>2
<1>4. ASSUME NEW x \in Txn, Completion(x) PROVE Sound
  <2> DEFINE d    == txn[x].dev
             pops == txn[x].phase = "ok" /\ txn[x].op = "pick"
                       /\ txn[x].caller = "waiting"
  <2>1. /\ screen' = IF pops THEN [screen EXCEPT ![d] = "draft"] ELSE screen
        /\ pickVC' = IF pops THEN [pickVC EXCEPT ![d] = noPick] ELSE pickVC
        /\ shown' = shown /\ txn[x].phase \in {"ok", "failed"}
    BY <1>4 DEF Completion
  <2>2. txn[x] \in TxnRecord /\ txn[x] # noTxn
    BY <2>1, NoTxnFacts DEF IInv, Types
  <2>3. d \in Device /\ (pops => screen[d] = "pick")
    BY <2>2 DEF TxnRecord, IInv, TransactionsAreSound, TransactionIsSound
  <2> HIDE DEF pops, d
  <2>4. CASE pops
    BY <2>1, <2>3, <2>4, <1>3
  <2>5. CASE ~pops
    BY <2>1, <2>5, <1>2 DEF userVars
  <2> QED
    BY <2>4, <2>5
<1>5. ASSUME NEW d \in Device, backFromPick(d) PROVE Sound
  BY <1>3, <1>5 DEF backFromPick
<1>6. ASSUME NEW d \in Device, Deliver(d) PROVE Sound
  <2>1. /\ screen' = screen /\ pickVC' = pickVC /\ screen[d] # "pick"
        /\ \E p \in PoolDocument \cup {NoPool} :
             /\ shown' = [shown EXCEPT ![d] = p]
             /\ screen[d] = "draft" => p # NoPool
    BY <1>6, DeliverFacts DEF Deliver
  <2>2. CASE e = d
    BY <2>1, <2>2, <1>0, <1>a
  <2>3. CASE e # d
    BY <2>1, <2>3, <1>a, <1>1
  <2> QED
    BY <2>2, <2>3
<1>7. ASSUME NEW d \in Device, Crash(d) \/ backFromDraft(d) PROVE Sound
  <2>1. /\ screen' = [screen EXCEPT ![d] = "pools"]
        /\ \E p : shown' = [shown EXCEPT ![d] = p]
        /\ pickVC' = pickVC \/ pickVC' = [pickVC EXCEPT ![d] = noPick]
    BY <1>7 DEF Crash, backFromDraft
  <2>2. CASE e = d
    BY <2>1, <2>2, <1>0
  <2>3. CASE e # d
    BY <2>1, <2>3, <1>0, <1>a, <1>b, <1>1
  <2> QED
    BY <2>2, <2>3
<1>8. ASSUME NEW d \in Device, openDraft(d) PROVE Sound
  <2>1. /\ screen' = [screen EXCEPT ![d] = "draft"] /\ shown[d] # NoPool
        /\ shown' = shown /\ pickVC' = pickVC
    BY <1>8 DEF openDraft
  <2>2. CASE e = d
    BY <2>1, <2>2, <1>0
  <2>3. CASE e # d
    BY <2>1, <2>3, <1>0, <1>1
  <2> QED
    BY <2>2, <2>3
<1>9. ASSUME NEW d \in Device, NEW t \in Team, selectTeam(d, t) PROVE Sound
  <2>1. screen' = [screen EXCEPT ![d] = "pick"] /\ shown' = shown
    BY <1>9 DEF selectTeam
  <2>2. PICK n \in PickNumber :
          /\ Choice(t, n, shown[d].deal)
          /\ pickVC' = [pickVC EXCEPT ![d] =
                          [teamId |-> t, number |-> n, deal |-> shown[d].deal]]
    BY <1>9, SelectFacts
  <2>3. shown[d] # NoPool
    BY <1>9, SelectFacts
  <2>4. CASE e = d
    <3>1. pickVC'[e] = [teamId |-> t, number |-> n, deal |-> shown[d].deal]
      BY <2>2, <2>4, <1>b
    <3>2. ChoiceAfter(t, n, shown[d].deal)
      BY <2>2, ChoiceGoesOn
    <3> QED
      BY <3>1, <3>2, <2>1, <2>3, <2>4
  <2>5. CASE e # d
    BY <2>1, <2>2, <2>5, <1>0, <1>b, <1>1
  <2> QED
    BY <2>4, <2>5
<1> HIDE DEF Sound
<1>10. Sound
  BY <1>2, <1>4, <1>5, <1>6, <1>7, <1>8, <1>9
     DEF Next, TxnStep, UserStep, Lookup, LookupUnavailable, Commit, CommitFailed,
         SendWrite, createPool, invite, joinPool, confirmPressed, leavePool, vars
<1> QED
  BY <1>10 DEF Sound

(* Every variable keeps its shape. *)
LEMMA DocTypeStep == ASSUME IInv, Onward PROVE doc' \in PoolDocument \cup {NoPool}
<1>1. doc \in PoolDocument \cup {NoPool} /\ (doc # NoPool => InOrder(doc))
  BY DEF IInv, Types, DocumentIsSound
<1>2. ASSUME NEW m \in Member, NEW s \in Size, doc' = newPool(s, m)
      PROVE  doc' \in PoolDocument
  BY <1>2, NewPoolFacts
<1>3. doc # NoPool /\ Operation(doc, doc') => doc' \in PoolDocument
  BY <1>1, OperationKeeps
<1> QED
  BY <1>1, <1>2, <1>3 DEF Onward, StoreStep

(* The transactions keep their shape. *)
LEMMA TxnTypeStep ==
  ASSUME IInv, [Next]_vars PROVE txn' \in [Txn -> TxnRecord \cup {noTxn}]
<1>0. txn \in [Txn -> TxnRecord \cup {noTxn}]
  BY DEF IInv, Types
<1>1. \A t \in TxnRecord : /\ ended(t, "ok") \in TxnRecord \cup {noTxn}
                           /\ ended(t, "failed") \in TxnRecord \cup {noTxn}
                           /\ retried(t) \in TxnRecord \cup {noTxn}
  BY EndedFacts, RetriedFacts
<1>2. ASSUME NEW p PROVE outdatedAll(p) \in [Txn -> TxnRecord \cup {noTxn}]
  BY <1>0, OutdatedFacts, OutdatedNoTxn DEF outdatedAll
<1>3. ASSUME NEW d PROVE popped(d) \in [Txn -> TxnRecord \cup {noTxn}]
  <2>1. \A t \in TxnRecord : [t EXCEPT !.caller = "left"] \in TxnRecord
    BY DEF TxnRecord
  <2> QED
    BY <2>1, <1>0 DEF popped
<1>4. \A x \in Txn : txn[x].phase # "idle" => txn[x] \in TxnRecord
  BY <1>0, NoTxnFacts
<1>5. ASSUME NEW x \in Txn, Lookup(x) PROVE txn' \in [Txn -> TxnRecord \cup {noTxn}]
  <2>1. txn[x] \in TxnRecord
    BY <1>4, <1>5 DEF Lookup
  <2>2. ASSUME admitted(doc, txn[x])
        PROVE  [txn[x] EXCEPT !.phase = "commit", !.read = doc] \in TxnRecord
    <3>1. doc \in PoolDocument
      BY <2>2 DEF admitted, IInv, Types
    <3> QED
      BY <3>1, <2>1 DEF TxnRecord, Phase
  <2>3. refused(txn[x]) \in TxnRecord \cup {noTxn}
    BY <2>1, <1>1 DEF refused
  <2> QED
    BY <2>2, <2>3, <1>0, <1>5 DEF Lookup
<1>6. ASSUME NEW x \in Txn, LookupUnavailable(x) \/ CommitFailed(x)
      PROVE  txn' \in [Txn -> TxnRecord \cup {noTxn}]
  <2>1. txn[x] \in TxnRecord
    BY <1>4, <1>6 DEF LookupUnavailable, CommitFailed
  <2> QED
    BY <2>1, <1>0, <1>1, <1>6 DEF LookupUnavailable, CommitFailed
<1>7. ASSUME NEW x \in Txn, Commit(x) PROVE txn' \in [Txn -> TxnRecord \cup {noTxn}]
  <2>1. txn[x] \in TxnRecord
    BY <1>4, <1>7 DEF Commit
  <2>2. [txn[x] EXCEPT !.applied = TRUE] \in TxnRecord
    BY <2>1 DEF TxnRecord
  <2>3. PICK r \in TxnRecord \cup {noTxn} : txn' = [outdatedAll(doc') EXCEPT ![x] = r]
    BY <2>1, <2>2, <1>1, <1>7 DEF Commit
  <2>4. outdatedAll(doc') \in [Txn -> TxnRecord \cup {noTxn}]
    BY <1>2
  <2> QED
    BY <2>3, <2>4
<1>8. ASSUME NEW x \in Txn, Completion(x) PROVE txn' \in [Txn -> TxnRecord \cup {noTxn}]
  <2>1. popped(txn[x].dev) \in [Txn -> TxnRecord \cup {noTxn}]
    BY <1>3
  <2> QED
    BY <2>1, <1>0, <1>8 DEF Completion
<1>9. ASSUME NEW d \in Device, SendWrite(d) \/ backFromPick(d)
      PROVE  txn' \in [Txn -> TxnRecord \cup {noTxn}]
  BY <1>2, <1>3, <1>9 DEF SendWrite, backFromPick
<1>10. ASSUME NEW d \in Device, Crash(d) PROVE txn' \in [Txn -> TxnRecord \cup {noTxn}]
  <2>1. \A t \in TxnRecord : [t EXCEPT !.caller = "crashed"] \in TxnRecord
    BY DEF TxnRecord
  <2> QED
    BY <2>1, <1>0, <1>10 DEF Crash
<1>11. ASSUME NEW d \in Device, NEW op \in {"join", "pick"},
              NEW t \in Team \cup {NoTeam}, NEW n \in PickNumber \cup {0}, NEW k \in Nat
       PROVE  started(d, op, t, n, k) \in TxnRecord
  <2>1. kRetryCount \in 0..kRetryCount
    BY DeviceAssumption
  <2> QED
    BY <2>1 DEF started, TxnRecord, Phase
<1>12. ASSUME NEW d \in Device, NEW x \in Txn, joinPool(d, x) \/ confirmPressed(d, x)
       PROVE  txn' \in [Txn -> TxnRecord \cup {noTxn}]
  <2>1. /\ pickVC[d].teamId \in Team \cup {NoTeam}
        /\ pickVC[d].number \in PickNumber \cup {0} /\ pickVC[d].deal \in Nat
    BY DEF IInv, Types
  <2>2. started(d, "pick", pickVC[d].teamId, pickVC[d].number, pickVC[d].deal) \in TxnRecord
    BY <2>1, <1>11
  <2>3. started(d, "join", NoTeam, 0, 0) \in TxnRecord
    BY <1>11
  <2> QED
    BY <2>2, <2>3, <1>0, <1>12 DEF joinPool, confirmPressed
<1> QED
  BY <1>0, <1>5, <1>6, <1>7, <1>8, <1>9, <1>10, <1>12
     DEF Next, TxnStep, UserStep, Deliver, createPool, invite, leavePool,
         openDraft, selectTeam, backFromDraft, vars

(* The queues keep theirs. *)
LEMMA WritesTypeStep ==
  ASSUME IInv, [Next]_vars PROVE writes' \in [Device -> Seq(Mutation)]
<1>0. writes \in [Device -> Seq(Mutation)] /\ "set" \in Kind
  BY DEF IInv, Types, Kind
<1>1. ASSUME NEW d \in Device, SendWrite(d) PROVE writes' \in [Device -> Seq(Mutation)]
  <2>1. writes' = sent(writes, d) /\ writes[d] # <<>>
    BY <1>1 DEF SendWrite, sent
  <2> QED
    BY <2>1, <1>0, TailAt
<1>2. ASSUME NEW d \in Device, Crash(d) PROVE writes' \in [Device -> Seq(Mutation)]
  <2>1. writes' = abandoned(writes, d)
    BY <1>2 DEF Crash, abandoned, lost
  <2> QED
    BY <2>1, <1>0, LostAt
<1>3. ASSUME NEW d \in Device, NEW w \in Mutation, writes' = appended(writes, d, w)
      PROVE  writes' \in [Device -> Seq(Mutation)]
  BY <1>0, <1>3, AppendAt
<1> QED
  BY <1>0, <1>1, <1>2, <1>3, QueueSteps DEF QueueStep

(* And so do all variables. *)
LEMMA TypesStep ==
  ASSUME IInv, [Next]_vars, Onward PROVE Types'
<1>0. Types
  BY DEF IInv
<1>1. doc' \in PoolDocument \cup {NoPool}
  BY DocTypeStep
<1>2. txn' \in [Txn -> TxnRecord \cup {noTxn}]
  BY TxnTypeStep
<1>3. writes' \in [Device -> Seq(Mutation)]
  BY WritesTypeStep
<1>4. link' \in {"none", "created", "shared"}
  BY <1>0 DEF Types, Next, TxnStep, UserStep, Lookup, LookupUnavailable, Commit,
              CommitFailed, Completion, SendWrite, Deliver, Crash, createPool, invite,
              joinPool, confirmPressed, leavePool, openDraft, selectTeam, backFromPick,
              backFromDraft, vars
<1>5. screen' \in [Device -> {"pools", "draft", "pick"}]
  <2>1. screen \in [Device -> {"pools", "draft", "pick"}]
    BY <1>0 DEF Types
  <2>2. \/ screen' = screen
        \/ \E d, s : s \in {"pools", "draft", "pick"} /\ screen' = [screen EXCEPT ![d] = s]
    BY DEF Next, TxnStep, UserStep, Lookup, LookupUnavailable, Commit,
           CommitFailed, Completion, SendWrite, Deliver, Crash, createPool, invite,
           joinPool, confirmPressed, leavePool, openDraft, selectTeam, backFromPick,
           backFromDraft, userVars, vars
  <2> QED
    BY <2>1, <2>2
<1>6. shown' \in [Device -> PoolDocument \cup {NoPool}]
  <2>1. shown \in [Device -> PoolDocument \cup {NoPool}]
    BY <1>0 DEF Types
  <2>2. ASSUME NEW d \in Device, Deliver(d)
        PROVE  \E p \in PoolDocument \cup {NoPool} : shown' = [shown EXCEPT ![d] = p]
    BY <2>2, DeliverFacts
  <2>3. ASSUME NEW d \in Device, Crash(d) \/ backFromDraft(d)
        PROVE  \E p \in PoolDocument \cup {NoPool} : shown' = [shown EXCEPT ![d] = p]
    BY <2>1, <2>3 DEF Crash, backFromDraft, listed
  <2>4. \/ shown' = shown
        \/ \E d \in Device : Deliver(d) \/ Crash(d) \/ backFromDraft(d)
    BY DEF Next, TxnStep, UserStep, Lookup, LookupUnavailable, Commit,
           CommitFailed, Completion, SendWrite, createPool, invite,
           joinPool, confirmPressed, leavePool, openDraft, selectTeam, backFromPick,
           userVars, vars
  <2> QED
    BY <2>1, <2>2, <2>3, <2>4
<1>7. pickVC' \in [Device -> [teamId : Team \cup {NoTeam},
                          number : PickNumber \cup {0}, deal : Nat]]
  <2> DEFINE P == [teamId : Team \cup {NoTeam}, number : PickNumber \cup {0}, deal : Nat]
  <2>1. pickVC \in [Device -> P] /\ noPick \in P
    BY <1>0 DEF Types, noPick
  <2>2. ASSUME NEW d \in Device, NEW t \in Team, selectTeam(d, t)
        PROVE  \E v \in P : pickVC' = [pickVC EXCEPT ![d] = v]
    <3>1. PICK n \in PickNumber :
            /\ shown[d].deal \in Nat
            /\ pickVC' = [pickVC EXCEPT ![d] =
                            [teamId |-> t, number |-> n, deal |-> shown[d].deal]]
      BY <2>2, SelectFacts
    <3> QED
      BY <3>1
  <2>3. \/ pickVC' = pickVC
        \/ \E d : pickVC' = [pickVC EXCEPT ![d] = noPick]
        \/ \E d \in Device, t \in Team : selectTeam(d, t)
    BY DEF Next, TxnStep, UserStep, Lookup, LookupUnavailable, Commit,
           CommitFailed, Completion, SendWrite, Deliver, Crash, createPool, invite,
           joinPool, confirmPressed, leavePool, openDraft, backFromPick,
           backFromDraft, userVars, vars
  <2> HIDE DEF P
  <2>4. pickVC' \in [Device -> P]
    BY <2>1, <2>2, <2>3
  <2> QED
    BY <2>4 DEF P
<1>8. notified' \in [Device -> SUBSET (Nat \X PickNumber)]
  <2>1. notified \in [Device -> SUBSET (Nat \X PickNumber)]
    BY <1>0 DEF Types
  <2>2. ASSUME NEW d \in Device, SendWrite(d)
        PROVE  notified' \in [Device -> SUBSET (Nat \X PickNumber)]
    <3> DEFINE w == Head(writes[d])
    <3>1. w \in Mutation /\ notified' = [notified EXCEPT ![d] = @ \cup alerts(w)]
      BY <2>2, SendFacts DEF SendWrite
    <3> HIDE DEF w
    <3>2. w.kind = "notify" => w.deal \in Nat /\ w.number \in PickNumber
      BY <3>1, MutationKinds
    <3>3. alerts(w) \subseteq Nat \X PickNumber
      BY <3>2 DEF alerts
    <3> QED
      BY <3>1, <3>3, <2>1
  <2>3. notified' = notified \/ \E d \in Device : SendWrite(d)
    BY DEF Next, TxnStep, UserStep, Lookup, LookupUnavailable, Commit,
           CommitFailed, Completion, Deliver, Crash, createPool, invite,
           joinPool, confirmPressed, leavePool, openDraft, selectTeam, backFromPick,
           backFromDraft, vars
  <2> QED
    BY <2>1, <2>2, <2>3
<1>9. leaves' \in 0..MaxLeaves
  <2>1. leaves \in 0..MaxLeaves /\ MaxLeaves \in Nat
    BY <1>0, DeviceAssumption DEF Types
  <2>2. leaves' = leaves \/ (leaves < MaxLeaves /\ leaves' = leaves + 1)
    BY DEF Next, TxnStep, UserStep, Lookup, LookupUnavailable, Commit,
           CommitFailed, Completion, SendWrite, Deliver, Crash, createPool, invite,
           joinPool, confirmPressed, leavePool, openDraft, selectTeam, backFromPick,
           backFromDraft, bounds, vars
  <2> QED
    BY <2>1, <2>2
<1>10. crashes' \in 0..MaxCrashes
  <2>1. crashes \in 0..MaxCrashes /\ MaxCrashes \in Nat
    BY <1>0, DeviceAssumption DEF Types
  <2>2. crashes' = crashes \/ (crashes < MaxCrashes /\ crashes' = crashes + 1)
    BY DEF Next, TxnStep, UserStep, Lookup, LookupUnavailable, Commit,
           CommitFailed, Completion, SendWrite, Deliver, Crash, createPool, invite,
           joinPool, confirmPressed, leavePool, openDraft, selectTeam, backFromPick,
           backFromDraft, bounds, vars
  <2> QED
    BY <2>1, <2>2
<1> QED
  BY <1>1, <1>2, <1>3, <1>4, <1>5, <1>6, <1>7, <1>8, <1>9, <1>10 DEF Types

-----------------------------------------------------------------------------
(* Who has paid for the deals. *)

(* A sent write is one less of its kind. *)
LEMMA FewerWrites ==
  ASSUME NEW ws \in [Device -> Seq(Mutation)], NEW d \in Device, ws[d] # <<>>,
         NEW kind \in Kind, IsFiniteSet(At(ws, kind))
  PROVE  LET vs == sent(ws, d)
         IN  /\ IsFiniteSet(At(vs, kind))
             /\ Cardinality(At(vs, kind)) <= Cardinality(At(ws, kind))
             /\ Head(ws[d]).kind = kind =>
                  Cardinality(At(vs, kind)) + 1 <= Cardinality(At(ws, kind))
<1> DEFINE vs == sent(ws, d)
           M  == At(vs, kind)
           L  == At(ws, kind)
           S  == L \ {front(d)}
           f  == [x \in M |-> before(d, x)]
<1>1. /\ front(d) \in L <=> Head(ws[d]).kind = kind
      /\ \A x \in M : before(d, x) \in L /\ before(d, x) # front(d)
  BY TailAt
<1>2. ASSUME NEW x \in M, NEW y \in M, before(d, x) = before(d, y) PROVE x = y
  <2>1. PICK a \in Device, i \in Nat : x = <<a, i>>
    BY DEF At
  <2>2. PICK b \in Device, j \in Nat : y = <<b, j>>
    BY DEF At
  <2>3. /\ before(d, x) = IF a = d THEN <<a, i + 1>> ELSE <<a, i>>
        /\ before(d, y) = IF b = d THEN <<b, j + 1>> ELSE <<b, j>>
    BY <2>1, <2>2 DEF before
  <2>4. a = b
    BY <2>3, <1>2
  <2>5. i = j
    BY <2>3, <2>4, <1>2
  <2> QED
    BY <2>1, <2>2, <2>4, <2>5
<1>3. f \in Injection(M, S)
  <2>1. f \in [M -> S]
    BY <1>1
  <2>2. \A x, y \in M : f[x] = f[y] => x = y
    BY <1>2
  <2> QED
    BY <2>1, <2>2 DEF Injection, IsInjective
<1>4. IsFiniteSet(S) /\ IsFiniteSet(L)
      /\ Cardinality(S) = IF front(d) \in L THEN Cardinality(L) - 1 ELSE Cardinality(L)
  BY FS_RemoveElement
<1> HIDE DEF f, S, L, M
<1>5. IsFiniteSet(M) /\ Cardinality(M) <= Cardinality(S)
  BY <1>3, <1>4, FS_Injection
<1>6. Cardinality(M) \in Nat /\ Cardinality(S) \in Nat /\ Cardinality(L) \in Nat
  BY <1>4, <1>5, FS_CardinalityType
<1>7. /\ IsFiniteSet(M)
      /\ Cardinality(M) <= Cardinality(L)
      /\ front(d) \in L => Cardinality(M) + 1 <= Cardinality(L)
  BY <1>4, <1>5, <1>6
<1> QED
  BY <1>1, <1>7 DEF M, L

(* A commit deals only a pool that was not full. *)
LEMMA CommitDeals ==
  ASSUME IInv, NEW x \in Txn, Commit(x)
  PROVE  /\ doc # NoPool /\ doc \in PoolDocument
         /\ doc' \in PoolDocument
         /\ \/ doc'.deal = doc.deal /\ (isFull(doc) => isFull(doc'))
            \/ doc'.deal = doc.deal + 1 /\ ~isFull(doc) /\ isFull(doc')
<1> DEFINE m == currentMember[txn[x].dev]
           q == doc'
           n == txn[x].number
           t == txn[x].teamId
<1>1. /\ doc # NoPool /\ doc \in PoolDocument /\ m \in Member
      /\ \/ q \in addMember(doc, m)
         \/ n \in PickNumber /\ t \in Team /\ PickOf(doc, q, m, n, t)
  BY CommitFacts
<1> HIDE DEF m, q, n, t
<1>2. CASE q \in addMember(doc, m)
  <2>0. ~(Cardinality(doc.idToMember) < doc.size /\ isFull(doc))
    <3>1. doc.size \in Nat
      BY <1>1, PoolAssumption DEF PoolDocument, Size
    <3> QED
      BY <3>1 DEF isFull
  <2>1. q \in PoolDocument
    BY <1>1, <1>2, AddMemberFacts
  <2>2. CASE q = doc
    BY <2>1, <2>2, <1>1 DEF q
  <2>3. CASE /\ q = [doc EXCEPT !.idToMember = doc.idToMember \cup {m}]
             /\ Cardinality(doc.idToMember) < doc.size
    <3>1. q.deal = doc.deal
      BY <2>3, <1>1 DEF PoolDocument
    <3> QED
      BY <3>1, <2>0, <2>1, <2>3, <1>1 DEF q
  <2>4. CASE q.deal = doc.deal + 1 /\ Cardinality(doc.idToMember) < doc.size /\ isFull(q)
    BY <2>0, <2>1, <2>4, <1>1 DEF q
  <2> QED
    BY <2>2, <2>3, <2>4, <1>1, <1>2, AddMemberFacts
<1>3. CASE n \in PickNumber /\ t \in Team /\ PickOf(doc, q, m, n, t)
  <2>1. /\ q \in PoolDocument
        /\ q.size = doc.size /\ q.idToMember = doc.idToMember /\ q.deal = doc.deal
    BY <1>1, <1>3, PickOfIsPicked, PickedFacts
  <2> QED
    BY <2>1, <1>1 DEF isFull, q
<1> QED
  BY <1>1, <1>2, <1>3

(* The pool p, with c leaves queued, is paid for by l. *)
Paid(p, c, l) == c <= l /\ (p # NoPool => p.deal + c <= l + (IF isFull(p) THEN 1 ELSE 0))

(* A deal costs the leave that made room for it: the write that removes a  *)
(* member pays, and the join that deals spends.                            *)
LEMMA LeavesStep ==
  ASSUME IInv, [Next]_vars, Onward PROVE LeavesPayForDeals'
<1> DEFINE L == At(writes, "leave")
           M == At(writes', "leave")
           q == doc'
           l == leaves'
<1>a. writes \in [Device -> Seq(Mutation)] /\ "leave" \in Kind
  BY DEF IInv, Types, Kind
<1>0. /\ IsFiniteSet(L) /\ Paid(doc, Cardinality(L), leaves)
      /\ leaves \in Nat /\ l \in Nat
      /\ doc \in PoolDocument \cup {NoPool} /\ q \in PoolDocument \cup {NoPool}
      /\ NoPool \notin PoolDocument
  BY DeviceAssumption, DocTypeStep DEF IInv, Types, LeavesPayForDeals, Paid, Onward
<1>b. /\ Cardinality(L) \in Nat
      /\ doc # NoPool => doc.deal \in Nat
      /\ q # NoPool => q.deal \in Nat
  BY <1>0, FS_CardinalityType DEF PoolDocument
<1> SUFFICES IsFiniteSet(M) /\ Paid(q, Cardinality(M), l)
  BY DEF LeavesPayForDeals, Paid
<1>1. ASSUME NEW x \in Txn, Commit(x) PROVE IsFiniteSet(M) /\ Paid(q, Cardinality(M), l)
  <2>1. M = L /\ l = leaves
    BY <1>1 DEF Commit, bounds
  <2>2. /\ doc # NoPool
        /\ \/ q.deal = doc.deal /\ (isFull(doc) => isFull(q))
           \/ q.deal = doc.deal + 1 /\ ~isFull(doc) /\ isFull(q)
    BY <1>1, CommitDeals
  <2> HIDE DEF M, L, q, l
  <2> QED
    BY <2>1, <2>2, <1>0, <1>b DEF Paid
<1>2. ASSUME NEW d \in Device, SendWrite(d)
      PROVE  IsFiniteSet(M) /\ Paid(q, Cardinality(M), l)
  <2> DEFINE w == Head(writes[d])
             m == currentMember[d]
  <2>1. l = leaves /\ writes' = sent(writes, d) /\ writes[d] # <<>>
    BY <1>2 DEF SendWrite, bounds, sent
  <2>2. /\ IsFiniteSet(M) /\ Cardinality(M) <= Cardinality(L)
        /\ w.kind = "leave" => Cardinality(M) + 1 <= Cardinality(L)
    BY <2>1, <1>0, <1>a, FewerWrites
  <2>3. Cardinality(M) \in Nat
    BY <2>2, FS_CardinalityType
  <2>4. /\ w \in Mutation /\ m \in Member
        /\ w.kind = "set" => \E s \in Size : q = newPool(s, m)
        /\ w.kind # "set" /\ doc = NoPool => q = NoPool
        /\ w.kind = "leave" /\ doc # NoPool => q = removeMember(doc, m)
        /\ w.kind = "delete" => q = NoPool
        /\ w.kind = "notify" /\ doc # NoPool => q = setNotified(doc, {w.number})
    BY <1>2, SendFacts
  <2> HIDE DEF w, m, M, L, q, l
  <2>5. CASE w.kind = "set"
    <3>1. q.deal = 0
      BY <2>4, <2>5, NewPoolFacts
    <3> QED
      BY <3>1, <2>1, <2>2, <2>3, <1>0, <1>b DEF Paid
  <2>6. CASE w.kind = "leave"
    <3>1. q # NoPool => doc # NoPool /\ q.deal = doc.deal
      BY <2>4, <2>6, <1>0, RemoveMemberFacts
    <3> QED
      BY <3>1, <2>1, <2>2, <2>3, <2>6, <1>0, <1>b DEF Paid
  <2>7. CASE w.kind = "delete"
    BY <2>1, <2>2, <2>3, <2>4, <2>7, <1>0, <1>b DEF Paid
  <2>8. CASE w.kind = "notify"
    <3>1. q # NoPool => doc # NoPool /\ q.deal = doc.deal /\ (isFull(q) <=> isFull(doc))
      BY <2>4, <2>8, <1>0, SetNotifiedKeeps DEF isFull
    <3> QED
      BY <3>1, <2>1, <2>2, <2>3, <1>0, <1>b DEF Paid
  <2> QED
    BY <2>4, <2>5, <2>6, <2>7, <2>8, MutationKinds
<1>3. ASSUME NEW d \in Device, Crash(d) PROVE IsFiniteSet(M) /\ Paid(q, Cardinality(M), l)
  <2>1. writes' = abandoned(writes, d) /\ q = doc /\ l = leaves
    BY <1>3 DEF Crash, abandoned, lost
  <2>2. M = L
    BY <2>1, <1>a, LostAt
  <2> QED
    BY <2>1, <2>2, <1>0
<1>4. ASSUME NEW d \in Device, NEW w \in Mutation, writes' = appended(writes, d, w),
             doc' = doc, Asked(d, w)
      PROVE  IsFiniteSet(M) /\ Paid(q, Cardinality(M), l)
  <2> DEFINE z == <<d, Len(writes[d]) + 1>>
  <2>1. M = IF w.kind = "leave" THEN L \cup {z} ELSE L
    BY <1>4, <1>a, AppendAt
  <2>2. /\ q = doc
        /\ \/ w.kind # "leave" /\ l \in {leaves, leaves + 1}
           \/ w.kind = "leave" /\ l = leaves + 1
    BY <1>4 DEF Asked
  <2> HIDE DEF z, M, L, q, l
  <2>a. IsFiniteSet(L) /\ Cardinality(L) \in Nat
    BY <1>0, <1>b
  <2>3. IsFiniteSet(L \cup {z}) /\ Cardinality(L \cup {z}) <= Cardinality(L) + 1
        /\ Cardinality(L \cup {z}) \in Nat
    <3>1. /\ IsFiniteSet(L \cup {z})
          /\ Cardinality(L \cup {z}) \in {Cardinality(L), Cardinality(L) + 1}
      BY <2>a, FS_AddElement
    <3> QED
      BY <2>a, <3>1
  <2>4. CASE w.kind = "leave"
    BY <2>1, <2>2, <2>3, <2>4, <1>0, <1>b DEF Paid
  <2>5. CASE w.kind # "leave"
    BY <2>1, <2>2, <2>5, <1>0, <1>b DEF Paid
  <2> QED
    BY <2>4, <2>5
<1>5. ASSUME writes' = writes, leaves' = leaves, doc' = doc
      PROVE  IsFiniteSet(M) /\ Paid(q, Cardinality(M), l)
  BY <1>5, <1>0
<1>6. \/ writes' = writes /\ leaves' = leaves /\ doc' = doc
      \/ \E x \in Txn : Commit(x)
      \/ \E d \in Device : SendWrite(d) \/ Crash(d)
      \/ \E d \in Device, w \in Mutation :
           writes' = appended(writes, d, w) /\ doc' = doc /\ Asked(d, w)
  <2>1. doc' = doc \/ (\E x \in Txn : Commit(x)) \/ \E d \in Device : SendWrite(d)
    BY DEF Next, TxnStep, UserStep, Lookup, LookupUnavailable, CommitFailed, Completion,
           Deliver, Crash, createPool, invite, joinPool, confirmPressed, leavePool,
           openDraft, selectTeam, backFromPick, backFromDraft, vars
  <2> QED
    BY <2>1, QueueSteps DEF QueueStep
<1> QED
  BY <1>1, <1>2, <1>3, <1>4, <1>5, <1>6

-----------------------------------------------------------------------------
(* The turn writes, and the flags they set. *)

(* NotifyIsSound of one write w of device d, and the same after a step.    *)
Request(w, d) ==
  /\ w.deal \in 1..(leaves + 1)
  /\ ~unborn
  /\ doc # NoPool =>
       /\ DOMAIN doc.numberToPick # {}
       /\ w.deal <= doc.deal
       /\ w.deal = doc.deal => doc.numberToPick[w.number].member = currentMember[d]

RequestAfter(w, d) ==
  /\ w.deal \in 1..(leaves' + 1)
  /\ ~unborn'
  /\ doc' # NoPool =>
       /\ DOMAIN doc'.numberToPick # {}
       /\ w.deal <= doc'.deal
       /\ w.deal = doc'.deal => doc'.numberToPick[w.number].member = currentMember[d]

(* A turn write that is queued stays sound: its number belongs to its      *)
(* member as long as the deal lasts, and a later deal has picks too.       *)
LEMMA RequestGoesOn ==
  ASSUME IInv, Onward, link # "none", NEW w \in Mutation, w.kind = "notify",
         NEW d \in Device, Request(w, d)
  PROVE  RequestAfter(w, d)
<1>1. /\ w.number \in PickNumber /\ w.deal \in Nat
      /\ leaves \in Nat /\ doc \in PoolDocument \cup {NoPool}
  BY MutationKinds DEF IInv, Types
<1>2. ~unborn' /\ leaves' \in Nat /\ leaves <= leaves'
  BY DEF Onward, Request
<1>3. w.deal \in 1..(leaves' + 1)
  <2>1. w.deal \in 1..(leaves + 1)
    BY DEF Request
  <2> QED
    BY <2>1, <1>1, <1>2, MoreRoom
<1>4. ASSUME doc' # NoPool
      PROVE  /\ DOMAIN doc'.numberToPick # {}
             /\ w.deal <= doc'.deal
             /\ w.deal = doc'.deal =>
                  doc'.numberToPick[w.number].member = currentMember[d]
  <2>1. CASE doc' = doc
    BY <2>1, <1>4 DEF Request
  <2>2. CASE doc # NoPool /\ Operation(doc, doc')
    <3> DEFINE q == doc'
    <3>1. /\ doc \in PoolDocument /\ InOrder(doc) /\ DealtHasPicks(doc)
          /\ Operation(doc, q)
      BY <2>2, <1>1 DEF IInv, DocumentIsSound
    <3> HIDE DEF q
    <3>2. q \in PoolDocument /\ Follows(doc, q) /\ DealtHasPicks(q)
      BY <3>1, OperationKeeps
    <3>3. /\ doc.deal \in Nat /\ q.deal \in Nat /\ doc.deal <= q.deal
          /\ w.deal <= doc.deal /\ w.deal >= 1
      BY <3>1, <3>2, <2>2, <1>1 DEF Follows, PoolDocument, Request
    <3>4. w.deal <= q.deal /\ q.deal # 0 /\ (w.deal = q.deal => w.deal = doc.deal)
      BY <3>3, <1>1
    <3>5. DOMAIN q.numberToPick # {}
      BY <3>2, <3>4 DEF DealtHasPicks
    <3>6. w.number \in DOMAIN doc.numberToPick
      BY <3>1, <2>2, <1>1, PicksAllOrNone DEF Request
    <3>7. w.deal = q.deal => q.numberToPick[w.number].member = currentMember[d]
      BY <3>2, <3>4, <3>6, <2>2 DEF Follows, Request
    <3> QED
      BY <3>4, <3>5, <3>7 DEF q
  <2> QED
    BY <2>1, <2>2, <1>2, <1>4 DEF Onward, StoreStep, Request
<1> QED
  BY <1>2, <1>3, <1>4 DEF RequestAfter

(* Only a crash takes the app away from its write. *)
LEMMA CrashesStep ==
  ASSUME IInv, [Next]_vars
  PROVE  /\ crashes' = 0 => crashes = 0
         /\ crashes' = 0 => \A d \in Device : ~Crash(d)
<1>1. crashes \in Nat
  BY DeviceAssumption DEF IInv, Types
<1>2. crashes' = crashes \/ \E d \in Device : Crash(d)
  BY DEF Next, TxnStep, UserStep, Lookup, LookupUnavailable, Commit,
         CommitFailed, Completion, SendWrite, Deliver, createPool, invite,
         joinPool, confirmPressed, leavePool, openDraft, selectTeam, backFromPick,
         backFromDraft, bounds, vars
<1>3. ASSUME NEW d \in Device, Crash(d) PROVE crashes' # 0
  <2>1. crashes' = crashes + 1
    BY <1>3 DEF Crash
  <2>2. \A i \in Nat : i + 1 # 0
    OBVIOUS
  <2> QED
    BY <2>1, <2>2, <1>1
<1> QED
  BY <1>2, <1>3

(* Every turn write of the queues is sound after a step. *)
LEMMA NotifyStep ==
  ASSUME IInv, [Next]_vars, Onward PROVE NotifyIsSound'
<1> SUFFICES ASSUME NEW x \in At(writes', "notify")
             PROVE  /\ RequestAfter(writes'[x[1]][x[2]], x[1])
                    /\ crashes' = 0 => writes'[x[1]][x[2]].live
  BY DEF NotifyIsSound, RequestAfter
<1> DEFINE v == writes'[x[1]][x[2]]
<1>a. writes \in [Device -> Seq(Mutation)] /\ "notify" \in Kind
  BY DEF IInv, Types, Kind
<1>0. ASSUME NEW y \in At(writes, "notify")
      PROVE  LET w == writes[y[1]][y[2]]
             IN  /\ w \in Mutation /\ y[1] \in Device
                 /\ RequestAfter(w, y[1])
                 /\ crashes' = 0 => w.live
                 /\ ~unborn /\ link # "none"
  <2> DEFINE w == writes[y[1]][y[2]]
  <2>1. y[1] \in Device /\ y[2] \in DOMAIN writes[y[1]] /\ w.kind = "notify"
    BY DEF At
  <2>2. writes[y[1]] \in Seq(Mutation)
    BY <2>1, <1>a
  <2>3. w \in Mutation
    BY <2>1, <2>2, LenProperties, ElementOfSeq
  <2>4. /\ Request(w, y[1])
        /\ crashes = 0 => w.live
    BY DEF IInv, NotifyIsSound, Request
  <2>5. link # "none"
    <3>1. DOMAIN <<>> = {}
      OBVIOUS
    <3>2. writes[y[1]] # <<>>
      BY <3>1, <2>1
    <3> QED
      BY <3>2, <2>1 DEF IInv, CreatedOnce
  <2> HIDE DEF w
  <2>6. RequestAfter(w, y[1])
    BY <2>1, <2>3, <2>4, <2>5, RequestGoesOn
  <2>7. ~unborn
    BY <2>4 DEF Request
  <2> QED
    BY <2>1, <2>3, <2>4, <2>5, <2>6, <2>7, CrashesStep DEF w
<1>1. ASSUME writes' = writes
      PROVE  RequestAfter(v, x[1]) /\ (crashes' = 0 => v.live)
  BY <1>0, <1>1
<1>2. ASSUME NEW d \in Device, SendWrite(d)
      PROVE  RequestAfter(v, x[1]) /\ (crashes' = 0 => v.live)
  <2> DEFINE y == before(d, x)
  <2>1. writes' = sent(writes, d) /\ writes[d] # <<>>
    BY <1>2 DEF SendWrite, sent
  <2>2. /\ y \in At(writes, "notify")
        /\ v = writes[y[1]][y[2]]
        /\ y[1] = x[1]
    BY <2>1, <1>a, TailAt
  <2> HIDE DEF y, v
  <2> QED
    BY <2>2, <1>0
<1>3. ASSUME NEW d \in Device, Crash(d)
      PROVE  RequestAfter(v, x[1]) /\ (crashes' = 0 => v.live)
  <2>1. writes' = abandoned(writes, d)
    BY <1>3 DEF Crash, abandoned, lost
  <2>2. /\ x \in At(writes, "notify")
        /\ v.number = writes[x[1]][x[2]].number
        /\ v.deal = writes[x[1]][x[2]].deal
    BY <2>1, <1>a, LostAt
  <2>3. RequestAfter(writes[x[1]][x[2]], x[1])
    BY <2>2, <1>0
  <2>4. RequestAfter(v, x[1])
    BY <2>2, <2>3 DEF RequestAfter
  <2>5. crashes' # 0
    BY <1>3, CrashesStep
  <2> QED
    BY <2>4, <2>5
<1>4. ASSUME NEW d \in Device, NEW w \in Mutation, writes' = appended(writes, d, w),
             doc' = doc, Asked(d, w)
      PROVE  RequestAfter(v, x[1]) /\ (crashes' = 0 => v.live)
  <2> DEFINE z == <<d, Len(writes[d]) + 1>>
  <2>1. /\ At(writes', "notify") = IF w.kind = "notify" THEN At(writes, "notify") \cup {z}
                                                        ELSE At(writes, "notify")
        /\ \A y \in At(writes, "notify") : writes'[y[1]][y[2]] = writes[y[1]][y[2]]
        /\ writes'[d][Len(writes[d]) + 1] = w
    BY <1>4, <1>a, AppendAt
  <2>2. CASE x \in At(writes, "notify")
    BY <2>1, <2>2, <1>0
  <2>3. CASE x = z /\ w.kind = "notify"
    <3>1. v = w /\ x[1] = d
      BY <2>1, <2>3
    <3>2. /\ w = notify(w.number, doc.deal, TRUE)
          /\ leaves' = leaves /\ link # "none"
          /\ doc # NoPool /\ doc.deal \in 1..(leaves + 1)
          /\ w.number \in DOMAIN doc.numberToPick
          /\ doc.numberToPick[w.number].member = currentMember[d]
      BY <2>3, <1>4 DEF Asked
    <3>3. w.deal = doc.deal /\ w.live
      <4>1. notify(w.number, doc.deal, TRUE).deal = doc.deal
            /\ notify(w.number, doc.deal, TRUE).live
        BY DEF notify
      <4> QED
        BY <4>1, <3>2
    <3>4. ~unborn'
      BY <3>2 DEF IInv, CreatedOnce, Onward
    <3>5. doc.deal <= doc.deal
      BY <3>2 DEF IInv, Types, PoolDocument
    <3>6. RequestAfter(w, d)
      BY <3>2, <3>3, <3>4, <3>5, <1>4 DEF RequestAfter
    <3> QED
      BY <3>1, <3>3, <3>6
  <2> QED
    BY <2>1, <2>2, <2>3
<1> QED
  BY <1>1, <1>2, <1>3, <1>4, QueueSteps DEF QueueStep

(* Whoever was alerted of the flagged picks of p, by the alerts nd. *)
Alerted(p, nd) ==
  \A n \in DOMAIN p.numberToPick :
    p.numberToPick[n].didNotifyMember =>
      \E d \in Device, k \in 1..p.deal :
        /\ <<k, n>> \in nd[d]
        /\ k = p.deal => currentMember[d] = p.numberToPick[n].member

(* A document that follows in the same deal has its flags explained by the *)
(* same alerts, if the flags that are new (of the numbers in N) have       *)
(* alerts of their own.                                                    *)
LEMMA AlertedStays ==
  ASSUME NEW p \in PoolDocument, NEW q \in PoolDocument, NEW nd, NEW ne,
         Alerted(p, nd),
         \A d \in Device : nd[d] \subseteq ne[d],
         q.deal = p.deal,
         NEW N,
         \A n \in DOMAIN q.numberToPick \ N : q.numberToPick[n].didNotifyMember =>
           /\ n \in DOMAIN p.numberToPick /\ p.numberToPick[n].didNotifyMember
           /\ q.numberToPick[n].member = p.numberToPick[n].member,
         \A n \in DOMAIN q.numberToPick \cap N :
           \E d \in Device, k \in 1..q.deal :
             /\ <<k, n>> \in ne[d]
             /\ k = q.deal => currentMember[d] = q.numberToPick[n].member
  PROVE  Alerted(q, ne)
<1> SUFFICES ASSUME NEW n \in DOMAIN q.numberToPick, q.numberToPick[n].didNotifyMember
             PROVE  \E d \in Device, k \in 1..q.deal :
                      /\ <<k, n>> \in ne[d]
                      /\ k = q.deal => currentMember[d] = q.numberToPick[n].member
  BY DEF Alerted
<1>1. CASE n \in N
  BY <1>1
<1>2. CASE n \notin N
  <2>1. PICK d \in Device, k \in 1..p.deal :
          /\ <<k, n>> \in nd[d]
          /\ k = p.deal => currentMember[d] = p.numberToPick[n].member
    BY <1>2 DEF Alerted
  <2> QED
    BY <2>1, <1>2
<1> QED
  BY <1>1, <1>2

(* The same without new flags. *)
LEMMA AlertedKept ==
  ASSUME NEW p \in PoolDocument, NEW q \in PoolDocument, NEW nd, NEW ne,
         Alerted(p, nd),
         \A d \in Device : nd[d] \subseteq ne[d],
         q.deal = p.deal,
         \A n \in DOMAIN q.numberToPick : q.numberToPick[n].didNotifyMember =>
           /\ n \in DOMAIN p.numberToPick /\ p.numberToPick[n].didNotifyMember
           /\ q.numberToPick[n].member = p.numberToPick[n].member
  PROVE  Alerted(q, ne)
BY DEF Alerted

(* A flag is set by a turn write that arrives, and its completion block    *)
(* alerts: while no app is killed, the app that asked is there.            *)
LEMMA FlagStep ==
  ASSUME IInv, [Next]_vars, Onward PROVE FlagMeansAlert'
<1> SUFFICES ASSUME crashes' = 0, doc' # NoPool PROVE Alerted(doc', notified')
  BY DEF FlagMeansAlert, Alerted
<1> DEFINE q == doc'
           ne == notified'
<1>0. /\ crashes = 0
      /\ doc \in PoolDocument \cup {NoPool} /\ q \in PoolDocument \cup {NoPool}
      /\ NoPool \notin PoolDocument /\ q # NoPool
      /\ notified \in [Device -> SUBSET (Nat \X PickNumber)]
  BY CrashesStep, DocTypeStep, DeviceAssumption DEF IInv, Types
<1>a. doc # NoPool => Alerted(doc, notified)
  BY <1>0 DEF IInv, FlagMeansAlert, Alerted
<1>1. ASSUME doc' = doc, notified' = notified PROVE Alerted(q, ne)
  BY <1>1, <1>0, <1>a
<1>2. ASSUME NEW x \in Txn, Commit(x) PROVE Alerted(q, ne)
  <2> DEFINE m == currentMember[txn[x].dev]
             n == txn[x].number
             t == txn[x].teamId
  <2>1. /\ doc # NoPool /\ doc \in PoolDocument /\ m \in Member
        /\ \/ q \in addMember(doc, m)
           \/ n \in PickNumber /\ t \in Team /\ PickOf(doc, q, m, n, t)
        /\ ne = notified
    BY <1>2, CommitFacts DEF Commit
  <2> HIDE DEF m, n, t, q, ne
  <2>2. ASSUME q.deal = doc.deal, q \in PoolDocument,
               \A i \in DOMAIN q.numberToPick : q.numberToPick[i].didNotifyMember =>
                 /\ i \in DOMAIN doc.numberToPick /\ doc.numberToPick[i].didNotifyMember
                 /\ q.numberToPick[i].member = doc.numberToPick[i].member
        PROVE  Alerted(q, ne)
    <3>1. \A d \in Device : notified[d] \subseteq ne[d]
      BY <2>1
    <3> QED
      BY <3>1, <2>1, <2>2, <1>a, AlertedKept
  <2>3. CASE q \in addMember(doc, m)
    <3>1. CASE q = doc
      BY <3>1, <2>1, <2>2
    <3>2. CASE q = [doc EXCEPT !.idToMember = doc.idToMember \cup {m}]
      <4>1. q.deal = doc.deal /\ q.numberToPick = doc.numberToPick
        BY <3>2, <2>1 DEF PoolDocument
      <4> QED
        BY <4>1, <2>1, <2>2, <1>0, AddMemberFacts, <2>3
    <3>3. CASE /\ q.numberToPick \in [PickNumber -> Pick]
               /\ \A i \in PickNumber : ~q.numberToPick[i].didNotifyMember
      BY <3>3 DEF Alerted
    <3> QED
      BY <3>1, <3>2, <3>3, <2>1, <2>3, AddMemberFacts
  <2>4. CASE n \in PickNumber /\ t \in Team /\ PickOf(doc, q, m, n, t)
    <3>1. /\ q \in PoolDocument /\ q.deal = doc.deal
          /\ doc.numberToPick \in [PickNumber -> Pick]
          /\ q.numberToPick \in [PickNumber -> Pick]
          /\ \A k \in PickNumber :
               /\ q.numberToPick[k].member = doc.numberToPick[k].member
               /\ q.numberToPick[k].didNotifyMember = doc.numberToPick[k].didNotifyMember
      BY <2>1, <2>4, PickOfIsPicked, PickedFacts
    <3> QED
      BY <3>1, <2>2
  <2> QED
    BY <2>1, <2>3, <2>4
<1>3. ASSUME NEW d \in Device, SendWrite(d) PROVE Alerted(q, ne)
  <2> DEFINE w == Head(writes[d])
             m == currentMember[d]
  <2>1. /\ w \in Mutation /\ m \in Member
        /\ w.kind = "set" => \E s \in Size : q = newPool(s, m)
        /\ w.kind # "set" /\ doc = NoPool => q = NoPool
        /\ w.kind = "leave" /\ doc # NoPool => q = removeMember(doc, m)
        /\ w.kind = "delete" => q = NoPool
        /\ w.kind = "notify" /\ doc # NoPool =>
             /\ w.number \in DOMAIN doc.numberToPick /\ w.number \in PickNumber
             /\ q = setNotified(doc, {w.number})
    BY <1>3, SendFacts
  <2>2. ne = [notified EXCEPT ![d] = notified[d] \cup alerts(w)]
    BY <1>3 DEF SendWrite
  <2>3. /\ writes \in [Device -> Seq(Mutation)] /\ writes[d] # <<>>
        /\ "notify" \in Kind
    BY <1>3 DEF SendWrite, IInv, Types, Kind
  <2>4. /\ w = writes[d][1]
        /\ w.kind = "notify" => front(d) \in At(writes, "notify")
        /\ front(d)[1] = d /\ front(d)[2] = 1
    BY <2>3, TailAt
  <2>5. w.kind = "notify" => Request(w, d) /\ w.live
    BY <2>4, <1>0 DEF IInv, NotifyIsSound, Request
  <2> HIDE DEF w, m, q, ne
  <2>6. /\ \A e \in Device : notified[e] \subseteq ne[e]
        /\ ne[d] = notified[d] \cup alerts(w)
    BY <2>2, <1>0
  <2>7. CASE w.kind = "set"
    <3>1. DOMAIN q.numberToPick = {}
      BY <2>1, <2>7, NewPoolFacts DEF noPicks
    <3> QED
      BY <3>1 DEF Alerted
  <2>8. CASE w.kind = "leave"
    <3>1. /\ doc # NoPool /\ q \in PoolDocument
          /\ q.deal = doc.deal /\ q.numberToPick = doc.numberToPick
      BY <2>1, <2>8, <1>0, RemoveMemberFacts
    <3> QED
      BY <3>1, <2>6, <1>0, <1>a, AlertedKept
  <2>9. CASE w.kind = "notify"
    <3> DEFINE N == {w.number}
    <3>1. /\ doc # NoPool /\ doc \in PoolDocument /\ q \in PoolDocument
          /\ q.deal = doc.deal /\ DOMAIN q.numberToPick = DOMAIN doc.numberToPick
          /\ \A k \in DOMAIN doc.numberToPick :
               /\ q.numberToPick[k].member = doc.numberToPick[k].member
               /\ k \notin N => q.numberToPick[k] = doc.numberToPick[k]
      BY <2>1, <2>9, <1>0, SetNotifiedKeeps
    <3>2. <<w.deal, w.number>> \in ne[d]
      BY <3>1, <2>5, <2>6, <2>9 DEF alerts
    <3>3. /\ w.deal \in 1..q.deal
          /\ w.deal = q.deal => currentMember[d] = q.numberToPick[w.number].member
      <4>1. w.deal <= doc.deal /\ w.deal \in Nat /\ w.deal >= 1 /\ doc.deal \in Nat
            /\ (w.deal = doc.deal => doc.numberToPick[w.number].member = currentMember[d])
        BY <3>1, <2>5, <2>9, <2>1, MutationKinds DEF Request, PoolDocument
      <4>2. q.deal = doc.deal
        BY <3>1
      <4>3. q.numberToPick[w.number].member = doc.numberToPick[w.number].member
        BY <3>1, <2>1, <2>9
      <4> QED
        BY <4>1, <4>2, <4>3
    <3>4. \A n \in DOMAIN q.numberToPick \cap N :
            \E e \in Device, k \in 1..q.deal :
              /\ <<k, n>> \in ne[e]
              /\ k = q.deal => currentMember[e] = q.numberToPick[n].member
      BY <3>2, <3>3
    <3>5. \A n \in DOMAIN q.numberToPick \ N : q.numberToPick[n].didNotifyMember =>
            /\ n \in DOMAIN doc.numberToPick /\ doc.numberToPick[n].didNotifyMember
            /\ q.numberToPick[n].member = doc.numberToPick[n].member
      BY <3>1
    <3> HIDE DEF N
    <3> QED
      BY <3>1, <3>4, <3>5, <2>6, <1>a, AlertedStays
  <2> QED
    BY <2>1, <2>7, <2>8, <2>9, <1>0, MutationKinds
<1>4. \/ doc' = doc /\ notified' = notified
      \/ \E x \in Txn : Commit(x)
      \/ \E d \in Device : SendWrite(d)
  BY DEF Next, TxnStep, UserStep, Lookup, LookupUnavailable, CommitFailed, Completion,
         Deliver, Crash, createPool, invite, joinPool, confirmPressed, leavePool,
         openDraft, selectTeam, backFromPick, backFromDraft, vars
<1> QED
  BY <1>1, <1>2, <1>3, <1>4

-----------------------------------------------------------------------------
(* The invariant holds. *)

(* Nothing has happened yet. *)
LEMMA InitIsSound == ASSUME Init PROVE IInv
<1>1. /\ doc = NoPool /\ link = "none"
      /\ txn = [x \in Txn |-> noTxn] /\ writes = [d \in Device |-> <<>>]
      /\ screen = [d \in Device |-> "pools"] /\ shown = [d \in Device |-> NoPool]
      /\ pickVC = [d \in Device |-> noPick] /\ notified = [d \in Device |-> {}]
      /\ leaves = 0 /\ crashes = 0
  BY DEF Init
<1>2. {MaxLeaves, MaxCrashes} \subseteq Nat
  BY DeviceAssumption
<1>3. Types
  <2>1. noPick \in [teamId : Team \cup {NoTeam}, number : PickNumber \cup {0}, deal : Nat]
    BY DEF noPick
  <2>2. <<>> \in Seq(Mutation)
    BY EmptySeq
  <2>3. leaves \in 0..MaxLeaves /\ crashes \in 0..MaxCrashes
    BY <1>1, <1>2
  <2> QED
    BY <1>1, <2>1, <2>2, <2>3 DEF Types
<1>4. \A kind \in Kind : At(writes, kind) = {}
  <2>1. DOMAIN <<>> = {}
    OBVIOUS
  <2> QED
    BY <1>1, <2>1 DEF At
<1>5. CreatedOnce /\ NotifyIsSound
  BY <1>1, <1>4 DEF CreatedOnce, NotifyIsSound, unborn, Kind
<1>6. LeavesPayForDeals
  <2>1. At(writes, "leave") = {}
    BY <1>4 DEF Kind
  <2>2. IsFiniteSet(At(writes, "leave")) /\ Cardinality(At(writes, "leave")) = 0
    BY <2>1, FS_EmptySet
  <2>3. 0 <= leaves
    BY <1>1
  <2> QED
    BY <2>2, <2>3, <1>1 DEF LeavesPayForDeals
<1>7. DocumentIsSound /\ ShownIsPast /\ ScreensAreSound /\ TransactionsAreSound
      /\ FlagMeansAlert
  BY <1>1 DEF DocumentIsSound, ShownIsPast, ScreensAreSound, TransactionsAreSound,
              FlagMeansAlert
<1> QED
  BY <1>3, <1>5, <1>6, <1>7 DEF IInv

(* The invariant is inductive. *)
LEMMA StepIsSound == ASSUME IInv, [Next]_vars PROVE IInv'
<1>1. Onward
  BY StepIsOnward
<1>2. Types' /\ CreatedOnce' /\ DocumentIsSound' /\ ShownIsPast' /\ ScreensAreSound'
  BY <1>1, TypesStep, CreatedOnceStep, DocumentStep, ShownStep, ScreensStep
<1>3. TransactionsAreSound' /\ LeavesPayForDeals' /\ NotifyIsSound' /\ FlagMeansAlert'
  BY <1>1, TransactionsStep, LeavesStep, NotifyStep, FlagStep
<1> QED
  BY <1>2, <1>3 DEF IInv

(* The inductive invariant holds in every state of every behaviour. *)
THEOREM Invariance == Spec => []IInv
<1>1. Init => IInv
  BY InitIsSound
<1>2. IInv /\ [Next]_vars => IInv'
  BY StepIsSound
<1> QED
  BY <1>1, <1>2, PTL DEF Spec

(* The variables have their types: whatever arrives late or twice, the     *)
(* document stays one that Pool's decoder accepts.                         *)
THEOREM TypeCorrect == Spec => []TypeOK
<1>1. IInv => TypeOK
  <2> SUFFICES ASSUME IInv PROVE TypeOK
    OBVIOUS
  <2>1. Types
    BY DEF IInv
  <2>2. \A d \in Device : queued(d) \subseteq Mutation
    BY <2>1, UnbornIff
  <2> QED
    BY <2>1, <2>2 DEF Types, TypeOK
<1> QED
  BY <1>1, Invariance, PTL

(* addMember deals the draft order again only after somebody left, however *)
(* often a join is retried or repeated (FirebaseInterface.joinPool).       *)
THEOREM NeverDealtForFree == Spec => []DealtOnce
<1>1. IInv => DealtOnce
  BY DealBound DEF IInv
<1> QED
  BY <1>1, Invariance, PTL

(* A pick that the completion block reports as made is in the document as  *)
(* long as its deal lasts (FirebaseInterface.pickTeam).                    *)
THEOREM MadePicksAreRecorded == Spec => []MadePickIsRecorded
<1>1. IInv => MadePickIsRecorded
  <2> SUFFICES ASSUME IInv, NEW x \in Txn, txn[x].phase = "ok", txn[x].op = "pick",
                      doc # NoPool, txn[x].deal = doc.deal
               PROVE  doc.numberToPick[txn[x].number].teamId = txn[x].teamId
    BY DEF MadePickIsRecorded
  <2>1. txn[x] # noTxn
    BY NoTxnFacts
  <2> QED
    BY <2>1 DEF IInv, TransactionsAreSound, TransactionIsSound
<1> QED
  BY <1>1, Invariance, PTL

(* didNotifyTurn never writes to a pick that is not there, however late    *)
(* its write is sent.                                                      *)
THEOREM NoPickIsPartial == Spec => []NoPartialPick
<1>1. IInv => NoPartialPick
  <2> SUFFICES ASSUME IInv, doc # NoPool, NEW d \in Device,
                      NEW i \in DOMAIN writes[d], writes[d][i].kind = "notify"
               PROVE  writes[d][i].number \in DOMAIN doc.numberToPick
    BY DEF NoPartialPick, queued
  <2>1. writes[d] \in Seq(Mutation)
    BY DEF IInv, Types
  <2>2. i \in Nat /\ writes[d][i] \in Mutation
    BY <2>1, LenProperties, ElementOfSeq
  <2>3. <<d, i>> \in At(writes, "notify")
    BY <2>2 DEF At
  <2>4. DOMAIN doc.numberToPick # {}
    BY <2>3 DEF IInv, NotifyIsSound
  <2>5. doc \in PoolDocument
    BY DEF IInv, Types
  <2> QED
    BY <2>2, <2>4, <2>5, PicksAllOrNone, MutationKinds
<1> QED
  BY <1>1, Invariance, PTL

(* While no app is killed, a pick is flagged only if somebody was alerted  *)
(* (DraftNotifications and didNotifyTurn).                                 *)
THEOREM FlagsMeanAlerts == Spec => []FlagMeansAlert
<1>1. IInv => FlagMeansAlert
  BY DEF IInv
<1> QED
  BY <1>1, Invariance, PTL

-----------------------------------------------------------------------------
(* The refinement. *)

(* PoolStore's own copies of the operations of Pool are the same.          *)
LEMMA StoreCard == \A S : Store!Cardinality(S) = Cardinality(S)
BY DEF Cardinality, Store!Cardinality

(* isFull, as PoolStore has it. *)
LEMMA StoreFull == \A p : Store!isFull(p) <=> isFull(p)
BY StoreCard DEF isFull, Store!isFull

(* Pool.init, as PoolStore has it. *)
LEMMA StoreNew == \A s, m : Store!newPool(s, m) = newPool(s, m)
BY DEF newPool, Store!newPool, noPicks, Store!noPicks

(* addMember, as PoolStore has it. *)
LEMMA StoreAdd == \A p, m : Store!addMember(p, m) = addMember(p, m)
<1>1. \A S : Store!Shuffles(S) = Shuffles(S)
  BY StoreCard DEF Shuffles, Store!Shuffles
<1>2. \A s, seat : Store!dealtPicks(s, seat) = dealtPicks(s, seat)
  BY DEF dealtPicks, Store!dealtPicks, PickNumber, Store!PickNumber
<1> QED
  BY <1>1, <1>2, StoreCard, StoreFull DEF addMember, Store!addMember, Size, Store!Size

(* Leaving, as PoolStore has it. *)
LEMMA StoreRemove == \A p, m : Store!removeMember(p, m) = removeMember(p, m)
BY DEF removeMember, Store!removeMember

(* didNotifyTurn, as PoolStore has it. *)
LEMMA StoreNotified == \A p, N : Store!setNotified(p, N) = setNotified(p, N)
BY DEF setNotified, Store!setNotified

(* Whose turn it is, as PoolStore has it. *)
LEMMA StoreTurn == \A p, m, n : Store!isTurnOf(p, m, n) <=> isTurnOf(p, m, n)
BY DEF isTurnOf, Store!isTurnOf, isCurrentPick, Store!isCurrentPick, openPicks,
       Store!openPicks

(* pickTeam, as PoolStore has it. *)
LEMMA StorePick ==
  /\ \A p : Store!teamsRemaining(p) = teamsRemaining(p)
  /\ \A p, n, t : Store!pickUpdates(p, n, t) = pickUpdates(p, n, t)
  /\ \A p, u : Store!setTeams(p, u) = setTeams(p, u)
<1>1. \A p : Store!teamsRemaining(p) = teamsRemaining(p)
  BY DEF teamsRemaining, Store!teamsRemaining, madePicks, Store!madePicks,
         openPicks, Store!openPicks
<1>2. \A p, n, t : Store!pickUpdates(p, n, t) = pickUpdates(p, n, t)
  BY <1>1 DEF pickUpdates, Store!pickUpdates
<1>3. \A p, u : Store!setTeams(p, u) = setTeams(p, u)
  BY DEF setTeams, Store!setTeams
<1> QED
  BY <1>1, <1>2, <1>3

(* Its variable `created' is Created here. *)
LEMMA StoreCreated ==
  ASSUME NEW ws \in [Device -> Seq(Mutation)], NEW l
  PROVE  /\ l # "none"
         /\ \A d \in Device, s \in Size : set(s) \notin {ws[d][i] : i \in DOMAIN ws[d]}
         <=> l # "none" /\ At(ws, "set") = {}
BY SetQueued

(* Every step of WinsPool is a step of PoolStore or leaves its variables   *)
(* alone.                                                                  *)
LEMMA StepImplements ==
  ASSUME IInv, [Next]_vars, IInv'
  PROVE  [Store!Next]_(Store!storeVars)
<1> DEFINE C == link # "none" /\ \A d \in Device, s \in Size : set(s) \notin queued(d)
<1>1. StoreStep
  BY StepIsOnward DEF Onward
<1>2. /\ C <=> Created
      /\ C' <=> Created'
      /\ doc # NoPool => doc \in PoolDocument
  <2>1. writes \in [Device -> Seq(Mutation)]
    BY DEF IInv, Types
  <2>2. writes' \in [Device -> Seq(Mutation)]
    BY DEF IInv, Types
  <2>3. C <=> Created
    BY <2>1, StoreCreated DEF queued, Created, unborn
  <2>4. C' <=> Created'
    BY <2>2, StoreCreated DEF queued, Created, unborn
  <2> QED
    BY <2>3, <2>4 DEF IInv, Types
<1>3. C \in BOOLEAN /\ C' \in BOOLEAN
  OBVIOUS
<1>4. ASSUME doc' = doc, C' <=> C PROVE UNCHANGED Store!storeVars
  BY <1>4, <1>3 DEF Store!storeVars
<1>5. ASSUME NEW m \in Member, NEW s \in Size, doc' = newPool(s, m), ~C, C'
      PROVE  Store!createPool(m, s)
  BY <1>5, <1>3, StoreNew DEF Store!createPool
<1>6. ASSUME C' <=> C, doc # NoPool, doc' = NoPool PROVE Store!deletePool
  BY <1>6, <1>3 DEF Store!deletePool
<1>7. ASSUME C' <=> C, doc # NoPool, NEW m \in Member, doc' \in addMember(doc, m)
      PROVE  Store!joinPool(m)
  BY <1>7, <1>3, StoreAdd DEF Store!joinPool
<1>8. ASSUME C' <=> C, doc # NoPool, NEW m \in Member, doc.deal < MaxLeaves + 1,
             doc' = removeMember(doc, m)
      PROVE  Store!leavePool(m)
  BY <1>8, <1>3, StoreRemove DEF Store!leavePool
<1>9. ASSUME C' <=> C, doc # NoPool, NEW m \in Member, NEW n \in PickNumber,
             NEW t \in Team, PickOf(doc, doc', m, n, t)
      PROVE  Store!pickTeam(m, n, t)
  BY <1>9, <1>3, StorePick, StoreTurn DEF Store!pickTeam, PickOf
<1>10. ASSUME C' <=> C, doc # NoPool, NEW n \in PickNumber,
              n \in DOMAIN doc.numberToPick, doc' = setNotified(doc, {n})
       PROVE  Store!didNotifyTurn(n)
  BY <1>10, <1>3, StoreNotified DEF Store!didNotifyTurn
<1>11. Store!Size = Size /\ Store!PickNumber = PickNumber
  BY DEF Size, Store!Size, PickNumber, Store!PickNumber
<1> HIDE DEF C
<1> QED
  BY <1>1, <1>2, <1>4, <1>5, <1>6, <1>7, <1>8, <1>9, <1>10, <1>11
     DEF StoreStep, Operation, Store!Next

(* FirebaseInterface implements PoolStore: for all devices, transactions,  *)
(* queues, retries, lost replies and crashes, the document changes by      *)
(* whole operations on its latest version, and a team chosen on a snapshot *)
(* of the deal is still free when its pick commits.                        *)
THEOREM Implements == Spec => ImplementsPoolStore
<1>1. Init => Store!Init
  BY DEF Init, Store!Init
<1>2. IInv /\ [Next]_vars /\ IInv' => [Store!Next]_(Store!storeVars)
  BY StepImplements
<1> QED
  BY <1>1, <1>2, Invariance, PTL DEF Spec, ImplementsPoolStore, Store!Spec
=============================================================================

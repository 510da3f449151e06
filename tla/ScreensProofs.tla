---------------------------- MODULE ScreensProofs ----------------------------
(***************************************************************************)
(* However the user walks through the app, the visible screen is the only  *)
(* one that listens, it shows the newest records, and a screen that was    *)
(* left is not touched again.                                              *)
(***************************************************************************)
EXTENDS Screens, FiniteSetTheorems, TLAPS

(* The screen that each screen is opened on. *)
under ==
  [s \in Screen \ {"Pools"} |->
    CASE s = "Teams" -> "Members" [] s = "Pick" -> "Draft" [] OTHER -> "Pools"]

Neighbours(a, b) ==
  \/ b # "Pools" /\ a = under[b]
  \/ a # "Pools" /\ b = under[a]

Ids(c) == 1..Len(c.screen)

Op == [op : {"add", "remove"}, listener : Listener]

Event == [listener : Listener, version : 1..MaxVersion]

Client ==
  [worker : Seq(Op), listening : SUBSET Listener, posted : Seq(Event),
   muted : SUBSET Listener, screen : Seq(Screen), version : 1..MaxVersion]

Types ==
  /\ stack \in Seq(Screen) /\ stack # <<>>
  /\ signedIn \in BOOLEAN
  /\ delegate \in showsRecords \cup {"nobody"}
  /\ listener \in [Screen -> Listener \cup {nil}]
  /\ pool \in [Screen -> 0..MaxVersion]
  /\ records \in 0..MaxRecords
  /\ drawn \in [Screen -> 0..MaxRecords]
  /\ client \in Client /\ Len(client.screen) <= MaxListens

(* Each screen stands on the one it is opened on. *)
StackIsAPath ==
  /\ stack[1] = "Pools"
  /\ \A i \in 2..Len(stack) : stack[i] # "Pools" /\ stack[i - 1] = under[stack[i]]

-----------------------------------------------------------------------------
(* The client on its own.                                                  *)

(* The worker knows no listener that was not added. *)
OpsAreOfListeners(c) ==
  /\ \A i \in DOMAIN c.worker :
       /\ c.worker[i].listener \in Ids(c)
       /\ c.worker[i].op = "remove" => c.worker[i].listener \in c.muted
  /\ \A i \in DOMAIN c.posted : c.posted[i].listener \in Ids(c)
  /\ c.listening \subseteq Ids(c) /\ c.muted \subseteq Ids(c)

(* A listener that was not removed listens, or is about to. *)
UnmutedWillListen(c) ==
  \A id \in Ids(c) \ c.muted :
    id \in c.listening \/ \E i \in DOMAIN c.worker : c.worker[i] = [op |-> "add", listener |-> id]

(* One that was removed does not listen, or not for long. *)
MutedWillStop(c) ==
  \A id \in c.muted :
    /\ id \in c.listening =>
         \E i \in DOMAIN c.worker : c.worker[i] = [op |-> "remove", listener |-> id]
    /\ \A i \in DOMAIN c.worker : c.worker[i] = [op |-> "add", listener |-> id] =>
         \E j \in DOMAIN c.worker : j > i /\ c.worker[j] = [op |-> "remove", listener |-> id]

ClientIsSound(c) == OpsAreOfListeners(c) /\ UnmutedWillListen(c) /\ MutedWillStop(c)

(* The screens and the client agree on who listens. *)
HeldIsUnmuted ==
  /\ \A s \in Screen : listener[s] # nil =>
       listener[s] \in Ids(client) /\ client.screen[listener[s]] = s
  /\ \A id \in Ids(client) : id \notin client.muted <=> listener[client.screen[id]] = id

-----------------------------------------------------------------------------
(* How far a transition is.                                                *)

listening == {s \in Screen : listener[s] # nil}

DelegateIsDrawn == delegate # "nobody" => drawn[delegate] = records

(* Nothing is left of any screen but s. *)
OnlyFor(s) ==
  /\ listening \subseteq {s}
  /\ delegate \in {s, "nobody"}
  /\ s \in {"Pools", "Teams"} => delegate = s

(* a was told; of it is left what goes when it has disappeared. *)
LeftOf(a) ==
  /\ listening \subseteq {a} \cap onDidDisappear
  /\ delegate \in ({a} \cap onDidDisappear) \cup {"nobody"}

BothOf(a, b) ==
  /\ listening \subseteq ({a} \cap onDidDisappear) \cup {b}
  /\ delegate \in ({a, b} \cap onDidDisappear) \cup {b, "nobody"}
  /\ b \in showsRecords => delegate = b

disappears(a) == call("viewDidDisappear", a)

Stage ==
  \/ settled /\ OnlyFor(top)
  \/ /\ transition = <<call("viewWillAppear", "Pools")>>
     /\ top = "Pools" /\ listening = {} /\ delegate = "nobody"
     /\ Len(client.screen) < MaxListens
  \/ \E a \in Screen :
       /\ Neighbours(a, top)
       /\ \/ /\ transition = <<call("viewWillDisappear", a), call("viewWillAppear", top),
                               disappears(a)>>
             /\ OnlyFor(a)
             /\ Len(client.screen) < MaxListens
          \/ /\ transition = <<call("viewWillAppear", top), disappears(a)>>
             /\ LeftOf(a)
             /\ Len(client.screen) < MaxListens
          \/ /\ transition = <<disappears(a)>>
             /\ BothOf(a, top)

ListenersAreOfLists == listening \subseteq {"Pools", "Members", "Draft"}

IInv ==
  /\ Types /\ StackIsAPath
  /\ ClientIsSound(client) /\ HeldIsUnmuted
  /\ DelegateIsDrawn /\ ListenersAreOfLists /\ Stage

-----------------------------------------------------------------------------
(* SetToSeq lists the members of a finite set. *)
LEMMA SetToSeqMembers ==
  ASSUME NEW S, IsFiniteSet(S)
  PROVE  SetToSeq(S) \in Seq(S)
PROOF
<1>. DEFINE n == Cardinality(S)
<1>1. n \in Nat /\ ExistsBijection(1..n, S)
  BY FS_CardinalityType
<1>2. PICK f \in [1..n -> S] : IsInjective(f)
  BY <1>1 DEF ExistsBijection, Bijection, Injection
<1>3. SetToSeq(S) \in [1..n -> S]
  BY <1>2 DEF SetToSeq
<1>. QED
  BY <1>1, <1>3

(* addSnapshotListener keeps the client sound. *)
LEMMA AddedIsSound ==
  ASSUME NEW c \in Client, ClientIsSound(c), Len(c.screen) < MaxListens, NEW s \in Screen
  PROVE  /\ added(c, s) \in Client /\ ClientIsSound(added(c, s))
         /\ added(c, s).screen = Append(c.screen, s) /\ added(c, s).muted = c.muted
         /\ Len(added(c, s).screen) = Len(c.screen) + 1
PROOF
<1>. DEFINE id == Len(c.screen) + 1
            op == [op |-> "add", listener |-> id]
            d == added(c, s)
<1>a. c = [worker |-> c.worker, listening |-> c.listening, posted |-> c.posted,
           muted |-> c.muted, screen |-> c.screen, version |-> c.version]
  BY DEF Client
<1>1. d = [worker |-> Append(c.worker, op), listening |-> c.listening, posted |-> c.posted,
           muted |-> c.muted, screen |-> Append(c.screen, s), version |-> c.version]
  <2>1. d = [[worker |-> c.worker, listening |-> c.listening, posted |-> c.posted,
              muted |-> c.muted, screen |-> c.screen, version |-> c.version]
               EXCEPT !.screen = Append(c.screen, s), !.worker = Append(c.worker, op)]
    BY <1>a, Zenon DEF added
  <2>. QED
    BY <2>1
<1>0. id \in Listener /\ op \in Op
  BY ScreensAssumption DEF Client, Listener, Op
<1>2. d \in Client /\ Len(d.screen) = id /\ d.screen = Append(c.screen, s) /\ d.muted = c.muted
  BY <1>0, <1>1 DEF Client
<1>3. Ids(d) = Ids(c) \cup {id}
  BY <1>2 DEF Ids, Client
<1>4. /\ DOMAIN d.worker = DOMAIN c.worker \cup {Len(c.worker) + 1}
      /\ \A i \in DOMAIN c.worker : d.worker[i] = c.worker[i]
      /\ d.worker[Len(c.worker) + 1] = op
      /\ Len(c.worker) \in Nat
  BY <1>1 DEF Client
<1>5. OpsAreOfListeners(d)
  <2>1. /\ d.posted = c.posted /\ d.listening = c.listening /\ d.muted = c.muted
        /\ op.op = "add" /\ op.listener = id
    BY <1>1
  <2>. HIDE DEF d, op, id
  <2>. QED
    BY <1>3, <1>4, <2>1 DEF ClientIsSound, OpsAreOfListeners
<1>6. UnmutedWillListen(d)
  BY <1>1, <1>3, <1>4 DEF ClientIsSound, UnmutedWillListen
<1>7. id \notin c.muted
  BY DEF ClientIsSound, OpsAreOfListeners, Ids, Client
<1>8. MutedWillStop(d)
  BY <1>1, <1>4, <1>7 DEF ClientIsSound, MutedWillStop
<1>. QED
  BY <1>2, <1>5, <1>6, <1>8 DEF ClientIsSound

(* Remove keeps the client sound. *)
LEMMA RemovedIsSound ==
  ASSUME NEW c \in Client, ClientIsSound(c), NEW id \in Ids(c), Len(c.screen) <= MaxListens
  PROVE  /\ removed(c, id) \in Client /\ ClientIsSound(removed(c, id))
         /\ removed(c, id).screen = c.screen /\ removed(c, id).muted = c.muted \cup {id}
PROOF
<1>. DEFINE op == [op |-> "remove", listener |-> id]
            d == removed(c, id)
<1>a. c = [worker |-> c.worker, listening |-> c.listening, posted |-> c.posted,
           muted |-> c.muted, screen |-> c.screen, version |-> c.version]
  BY DEF Client
<1>1. d = [worker |-> Append(c.worker, op), listening |-> c.listening, posted |-> c.posted,
           muted |-> c.muted \cup {id}, screen |-> c.screen, version |-> c.version]
  <2>1. d = [[worker |-> c.worker, listening |-> c.listening, posted |-> c.posted,
              muted |-> c.muted, screen |-> c.screen, version |-> c.version]
               EXCEPT !.muted = c.muted \cup {id}, !.worker = Append(c.worker, op)]
    BY <1>a, Zenon DEF removed
  <2>. QED
    BY <2>1
<1>0. id \in Listener /\ op \in Op
  BY ScreensAssumption DEF Client, Listener, Op, Ids
<1>2. d \in Client /\ d.screen = c.screen /\ d.muted = c.muted \cup {id} /\ Ids(d) = Ids(c)
  BY <1>0, <1>1 DEF Client, Ids
<1>3. /\ DOMAIN d.worker = DOMAIN c.worker \cup {Len(c.worker) + 1}
      /\ \A i \in DOMAIN c.worker : d.worker[i] = c.worker[i] /\ i < Len(c.worker) + 1
      /\ d.worker[Len(c.worker) + 1] = op
      /\ Len(c.worker) \in Nat
  BY <1>1 DEF Client
<1>4. OpsAreOfListeners(d)
  <2>1. /\ d.posted = c.posted /\ d.listening = c.listening
        /\ op.op = "remove" /\ op.listener = id
    BY <1>1
  <2>. HIDE DEF d, op
  <2>. QED
    BY <1>2, <1>3, <2>1 DEF ClientIsSound, OpsAreOfListeners
<1>5. UnmutedWillListen(d)
  BY <1>1, <1>2, <1>3 DEF ClientIsSound, UnmutedWillListen
<1>6. MutedWillStop(d)
  <2>1. d.worker[Len(c.worker) + 1] # [op |-> "add", listener |-> id]
    BY <1>3
  <2>. HIDE DEF d, op
  <2>2. \A x \in c.muted \cup {id} : x \in c.listening =>
          \E i \in DOMAIN d.worker : d.worker[i] = [op |-> "remove", listener |-> x]
    BY <1>3 DEF ClientIsSound, MutedWillStop, op
  <2>3. ASSUME NEW x \in c.muted \cup {id}, NEW i \in DOMAIN d.worker,
               d.worker[i] = [op |-> "add", listener |-> x]
        PROVE  \E j \in DOMAIN d.worker : j > i /\ d.worker[j] = [op |-> "remove", listener |-> x]
    <3>1. i \in DOMAIN c.worker
      BY <1>3, <2>3 DEF op
    <3>2. CASE x = id
      BY <1>3, <3>1, <3>2 DEF op
    <3>3. CASE x # id
      BY <1>3, <3>1, <3>3, <2>3 DEF ClientIsSound, MutedWillStop
    <3>. QED
      BY <3>2, <3>3
  <2>. QED
    BY <1>1, <2>2, <2>3 DEF MutedWillStop, d
<1>. QED
  BY <1>2, <1>4, <1>5, <1>6 DEF ClientIsSound

(* The worker takes the first operation off its queue. *)
LEMMA OneLess ==
  ASSUME NEW q \in Seq(Op), q # <<>>
  PROVE  /\ Head(q) = q[1] /\ q[1] \in Op /\ Tail(q) \in Seq(Op) /\ Len(q) \in Nat
         /\ DOMAIN q = 1..Len(q) /\ DOMAIN Tail(q) = 1..(Len(q) - 1) /\ 1 \in DOMAIN q
         /\ \A i \in DOMAIN Tail(q) : Tail(q)[i] = q[i + 1] /\ i + 1 \in DOMAIN q
         /\ \A i \in DOMAIN q : i # 1 => i - 1 \in DOMAIN Tail(q) /\ Tail(q)[i - 1] = q[i]
  OBVIOUS

(* EventManager::AddQueryListener keeps the client sound. *)
LEMMA AddRunIsSound ==
  ASSUME NEW c \in Client, ClientIsSound(c), c.worker # <<>>, Head(c.worker).op = "add",
         NEW d,
         d = [c EXCEPT !.worker = Tail(c.worker),
                       !.listening = c.listening \cup {Head(c.worker).listener},
                       !.posted = Append(c.posted, event(Head(c.worker).listener, c.version))]
  PROVE  d \in Client /\ ClientIsSound(d) /\ d.screen = c.screen /\ d.muted = c.muted
PROOF
<1>. DEFINE id == Head(c.worker).listener
            e == event(id, c.version)
<1>a. c = [worker |-> c.worker, listening |-> c.listening, posted |-> c.posted,
           muted |-> c.muted, screen |-> c.screen, version |-> c.version]
  BY DEF Client
<1>1. d = [worker |-> Tail(c.worker), listening |-> c.listening \cup {id},
           posted |-> Append(c.posted, e), muted |-> c.muted, screen |-> c.screen,
           version |-> c.version]
  <2>1. d = [[worker |-> c.worker, listening |-> c.listening, posted |-> c.posted,
              muted |-> c.muted, screen |-> c.screen, version |-> c.version]
               EXCEPT !.worker = Tail(c.worker), !.listening = c.listening \cup {id},
                      !.posted = Append(c.posted, e)]
    BY <1>a, Zenon
  <2>. QED
    BY <2>1
<1>2. c.worker \in Seq(Op) /\ c.posted \in Seq(Event) /\ c.version \in 1..MaxVersion
  BY DEF Client
<1>q. /\ Head(c.worker) = c.worker[1] /\ c.worker[1] \in Op /\ Tail(c.worker) \in Seq(Op)
      /\ Len(c.worker) \in Nat /\ 1 \in DOMAIN c.worker
      /\ DOMAIN c.worker = 1..Len(c.worker) /\ DOMAIN Tail(c.worker) = 1..(Len(c.worker) - 1)
      /\ \A i \in DOMAIN Tail(c.worker) :
           Tail(c.worker)[i] = c.worker[i + 1] /\ i + 1 \in DOMAIN c.worker
      /\ \A i \in DOMAIN c.worker :
           i # 1 => i - 1 \in DOMAIN Tail(c.worker) /\ Tail(c.worker)[i - 1] = c.worker[i]
  BY <1>2, OneLess
<1>3. c.worker[1] = [op |-> "add", listener |-> id] /\ id \in Listener
  BY <1>q DEF Op
<1>4. id \in Ids(c)
  BY <1>q, <1>3 DEF ClientIsSound, OpsAreOfListeners
<1>5. e \in Event /\ e.listener = id
  BY <1>2, <1>3 DEF event, Event
<1>6. /\ d.worker = Tail(c.worker) /\ d.listening = c.listening \cup {id}
      /\ d.posted = Append(c.posted, e) /\ d.muted = c.muted /\ d.screen = c.screen
  BY <1>1
<1>7. d \in Client
  <2>1. c.listening \cup {id} \in SUBSET Listener /\ Append(c.posted, e) \in Seq(Event)
    BY <1>2, <1>3, <1>5 DEF Client
  <2>2. c.muted \in SUBSET Listener /\ c.screen \in Seq(Screen)
    BY DEF Client
  <2>. QED
    BY <1>1, <1>2, <1>q, <2>1, <2>2 DEF Client
<1>8. Ids(d) = Ids(c)
  BY <1>6 DEF Ids
<1>9. /\ DOMAIN d.posted = DOMAIN c.posted \cup {Len(c.posted) + 1}
      /\ \A i \in DOMAIN c.posted : d.posted[i] = c.posted[i]
      /\ d.posted[Len(c.posted) + 1] = e
  BY <1>2, <1>5, <1>6
<1>. HIDE DEF id, e
<1>10. OpsAreOfListeners(d)
  BY <1>4, <1>5, <1>6, <1>8, <1>9, <1>q DEF ClientIsSound, OpsAreOfListeners
<1>11. UnmutedWillListen(d)
  <2>1. ASSUME NEW x \in Ids(c) \ c.muted
        PROVE  x \in c.listening \cup {id} \/ \E i \in DOMAIN Tail(c.worker) :
                                             Tail(c.worker)[i] = [op |-> "add", listener |-> x]
    <3>1. CASE x \in c.listening \cup {id}
      BY <3>1
    <3>2. CASE x \notin c.listening \cup {id}
      <4>1. PICK i \in DOMAIN c.worker : c.worker[i] = [op |-> "add", listener |-> x]
        BY <3>2 DEF ClientIsSound, UnmutedWillListen
      <4>2. i # 1
        BY <4>1, <1>3, <3>2
      <4>. QED
        BY <4>1, <4>2, <1>q
    <3>. QED
      BY <3>1, <3>2
  <2>. QED
    BY <1>6, <1>8, <2>1 DEF UnmutedWillListen
<1>12. MutedWillStop(d)
  <2>1. ASSUME NEW x \in c.muted, x \in c.listening \cup {id}
        PROVE  \E i \in DOMAIN Tail(c.worker) :
                 Tail(c.worker)[i] = [op |-> "remove", listener |-> x]
    <3>1. \E i \in DOMAIN c.worker : c.worker[i] = [op |-> "remove", listener |-> x]
      BY <1>3, <1>q, <2>1 DEF ClientIsSound, MutedWillStop
    <3>2. PICK i \in DOMAIN c.worker : c.worker[i] = [op |-> "remove", listener |-> x]
      BY <3>1
    <3>3. i # 1
      BY <3>2, <1>3
    <3>. QED
      BY <3>2, <3>3, <1>q
  <2>2. ASSUME NEW x \in c.muted, NEW i \in DOMAIN Tail(c.worker),
               Tail(c.worker)[i] = [op |-> "add", listener |-> x]
        PROVE  \E j \in DOMAIN Tail(c.worker) :
                 j > i /\ Tail(c.worker)[j] = [op |-> "remove", listener |-> x]
    <3>1. c.worker[i + 1] = [op |-> "add", listener |-> x] /\ i + 1 \in DOMAIN c.worker
      BY <2>2, <1>q
    <3>2. PICK j \in DOMAIN c.worker :
            j > i + 1 /\ c.worker[j] = [op |-> "remove", listener |-> x]
      BY <3>1, <2>2 DEF ClientIsSound, MutedWillStop
    <3>3. i \in Nat /\ j \in Nat /\ j # 1 /\ j - 1 > i
      BY <3>2, <1>q
    <3>4. j - 1 \in DOMAIN Tail(c.worker) /\ Tail(c.worker)[j - 1] = c.worker[j]
      BY <3>3, <1>q
    <3>. QED
      BY <3>2, <3>3, <3>4
  <2>. QED
    BY <1>6, <2>1, <2>2 DEF MutedWillStop
<1>. QED
  BY <1>6, <1>7, <1>10, <1>11, <1>12 DEF ClientIsSound

(* EventManager::RemoveQueryListener keeps the client sound. *)
LEMMA RemoveRunIsSound ==
  ASSUME NEW c \in Client, ClientIsSound(c), c.worker # <<>>, Head(c.worker).op = "remove",
         NEW d,
         d = [c EXCEPT !.worker = Tail(c.worker),
                       !.listening = c.listening \ {Head(c.worker).listener}]
  PROVE  d \in Client /\ ClientIsSound(d) /\ d.screen = c.screen /\ d.muted = c.muted
PROOF
<1>. DEFINE id == Head(c.worker).listener
<1>a. c = [worker |-> c.worker, listening |-> c.listening, posted |-> c.posted,
           muted |-> c.muted, screen |-> c.screen, version |-> c.version]
  BY DEF Client
<1>1. d = [worker |-> Tail(c.worker), listening |-> c.listening \ {id},
           posted |-> c.posted, muted |-> c.muted, screen |-> c.screen,
           version |-> c.version]
  <2>1. d = [[worker |-> c.worker, listening |-> c.listening, posted |-> c.posted,
              muted |-> c.muted, screen |-> c.screen, version |-> c.version]
               EXCEPT !.worker = Tail(c.worker), !.listening = c.listening \ {id}]
    BY <1>a, Zenon
  <2>. QED
    BY <2>1
<1>2. c.worker \in Seq(Op)
  BY DEF Client
<1>q. /\ Head(c.worker) = c.worker[1] /\ c.worker[1] \in Op /\ Tail(c.worker) \in Seq(Op)
      /\ Len(c.worker) \in Nat /\ 1 \in DOMAIN c.worker
      /\ DOMAIN c.worker = 1..Len(c.worker) /\ DOMAIN Tail(c.worker) = 1..(Len(c.worker) - 1)
      /\ \A i \in DOMAIN Tail(c.worker) :
           Tail(c.worker)[i] = c.worker[i + 1] /\ i + 1 \in DOMAIN c.worker
      /\ \A i \in DOMAIN c.worker :
           i # 1 => i - 1 \in DOMAIN Tail(c.worker) /\ Tail(c.worker)[i - 1] = c.worker[i]
  BY <1>2, OneLess
<1>3. c.worker[1] = [op |-> "remove", listener |-> id] /\ id \in c.muted
  BY <1>q DEF Op, ClientIsSound, OpsAreOfListeners
<1>6. /\ d.worker = Tail(c.worker) /\ d.listening = c.listening \ {id}
      /\ d.posted = c.posted /\ d.muted = c.muted /\ d.screen = c.screen
  BY <1>1
<1>7. d \in Client
  BY <1>1, <1>q DEF Client
<1>8. Ids(d) = Ids(c)
  BY <1>6 DEF Ids
<1>. HIDE DEF id
<1>10. OpsAreOfListeners(d)
  BY <1>6, <1>8, <1>q DEF ClientIsSound, OpsAreOfListeners
<1>11. UnmutedWillListen(d)
  <2>1. ASSUME NEW x \in Ids(c) \ c.muted
        PROVE  x \in c.listening \ {id} \/ \E i \in DOMAIN Tail(c.worker) :
                                            Tail(c.worker)[i] = [op |-> "add", listener |-> x]
    <3>1. x # id
      BY <1>3
    <3>2. CASE x \in c.listening
      BY <3>1, <3>2
    <3>3. CASE x \notin c.listening
      <4>1. PICK i \in DOMAIN c.worker : c.worker[i] = [op |-> "add", listener |-> x]
        BY <3>3 DEF ClientIsSound, UnmutedWillListen
      <4>2. i # 1
        BY <4>1, <1>3
      <4>. QED
        BY <4>1, <4>2, <1>q
    <3>. QED
      BY <3>2, <3>3
  <2>. QED
    BY <1>6, <1>8, <2>1 DEF UnmutedWillListen
<1>12. MutedWillStop(d)
  <2>1. ASSUME NEW x \in c.muted, x \in c.listening \ {id}
        PROVE  \E i \in DOMAIN Tail(c.worker) :
                 Tail(c.worker)[i] = [op |-> "remove", listener |-> x]
    <3>2. PICK i \in DOMAIN c.worker : c.worker[i] = [op |-> "remove", listener |-> x]
      BY <2>1 DEF ClientIsSound, MutedWillStop
    <3>3. i # 1
      BY <3>2, <1>3, <2>1
    <3>. QED
      BY <3>2, <3>3, <1>q
  <2>2. ASSUME NEW x \in c.muted, NEW i \in DOMAIN Tail(c.worker),
               Tail(c.worker)[i] = [op |-> "add", listener |-> x]
        PROVE  \E j \in DOMAIN Tail(c.worker) :
                 j > i /\ Tail(c.worker)[j] = [op |-> "remove", listener |-> x]
    <3>1. c.worker[i + 1] = [op |-> "add", listener |-> x] /\ i + 1 \in DOMAIN c.worker
      BY <2>2, <1>q
    <3>2. PICK j \in DOMAIN c.worker :
            j > i + 1 /\ c.worker[j] = [op |-> "remove", listener |-> x]
      BY <3>1, <2>2 DEF ClientIsSound, MutedWillStop
    <3>3. i \in Nat /\ j \in Nat /\ j # 1 /\ j - 1 > i
      BY <3>2, <1>q
    <3>4. j - 1 \in DOMAIN Tail(c.worker) /\ Tail(c.worker)[j - 1] = c.worker[j]
      BY <3>3, <1>q
    <3>. QED
      BY <3>2, <3>3, <3>4
  <2>. QED
    BY <1>6, <2>1, <2>2 DEF MutedWillStop
<1>. QED
  BY <1>6, <1>7, <1>10, <1>11, <1>12 DEF ClientIsSound

(* Events that are posted or taken leave the client sound. *)
LEMMA PostedIsSound ==
  ASSUME NEW c \in Client, ClientIsSound(c), NEW d \in Client,
         d.worker = c.worker, d.listening = c.listening, d.muted = c.muted,
         d.screen = c.screen,
         \A i \in DOMAIN d.posted : d.posted[i].listener \in Ids(c)
  PROVE  ClientIsSound(d) /\ Ids(d) = Ids(c)
PROOF
<1>1. Ids(d) = Ids(c)
  BY DEF Ids
<1>. QED
  BY <1>1 DEF ClientIsSound, OpsAreOfListeners, UnmutedWillListen, MutedWillStop

(* When the worker has nothing to do, those listen that were not removed. *)
LEMMA IdleClient ==
  ASSUME NEW c \in Client, ClientIsSound(c), c.worker = <<>>
  PROVE  c.listening = Ids(c) \ c.muted
BY DEF ClientIsSound, OpsAreOfListeners, UnmutedWillListen, MutedWillStop

-----------------------------------------------------------------------------
(* How screens come and go. *)

(* A screen and the one below it are two, and both are screens. *)
LEMMA NeighboursAreTwo ==
  /\ \A s \in Screen \ {"Pools"} : under[s] \in Screen /\ under[s] # s
  /\ \A a, b \in Screen : Neighbours(a, b) => a # b
  /\ \A b \in Screen : Neighbours("Teams", b) => b = "Members"
  /\ onWillDisappear \cap onDidDisappear = {} /\ onDidDisappear = {"Teams", "Draft"}
BY DEF under, Neighbours, Screen, onWillDisappear, onDidDisappear

(* listener?.remove() ends what the screen hears and nothing else. *)
LEMMA RemoveListenerKeeps ==
  ASSUME Types, ClientIsSound(client), HeldIsUnmuted, NEW s \in Screen, removeListener(s)
  PROVE  /\ client' \in Client /\ ClientIsSound(client') /\ HeldIsUnmuted'
         /\ Len(client'.screen) = Len(client.screen)
         /\ listener' \in [Screen -> Listener \cup {nil}]
         /\ listening' = listening \ {s}
PROOF
<1>1. listener' = [listener EXCEPT ![s] = nil]
  BY DEF removeListener
<1>2. /\ listener' \in [Screen -> Listener \cup {nil}] /\ listening' = listening \ {s}
      /\ \A x \in Screen : listener'[x] = IF x = s THEN nil ELSE listener[x]
  BY <1>1 DEF Types, listening
<1>3. CASE listener[s] = nil
  <2>1. client' = client /\ listener' = listener
    BY <1>1, <1>3 DEF removeListener, Types
  <2>2. HeldIsUnmuted'
    BY <2>1 DEF HeldIsUnmuted, Ids
  <2>. QED
    BY <1>2, <2>1, <2>2 DEF Types
<1>4. CASE listener[s] # nil
  <2>1. /\ client' = removed(client, listener[s]) /\ listener[s] \in Ids(client)
        /\ client.screen[listener[s]] = s
    BY <1>4 DEF removeListener, HeldIsUnmuted
  <2>2. /\ client' \in Client /\ ClientIsSound(client')
        /\ client'.screen = client.screen /\ client'.muted = client.muted \cup {listener[s]}
    BY <2>1, RemovedIsSound DEF Types
  <2>3. Ids(client') = Ids(client) /\ \A id \in Ids(client) : id # nil /\ client.screen[id] \in Screen
    BY <2>2 DEF Ids, nil, Types, Client
  <2>4. HeldIsUnmuted'
    <3>1. \A x \in Screen : listener'[x] # nil =>
            listener'[x] \in Ids(client') /\ client'.screen[listener'[x]] = x
      BY <1>2, <2>2, <2>3 DEF HeldIsUnmuted
    <3>2. \A id \in Ids(client') :
            id \notin client'.muted <=> listener'[client'.screen[id]] = id
      BY <1>2, <2>1, <2>2, <2>3 DEF HeldIsUnmuted
    <3>. QED
      BY <3>1, <3>2 DEF HeldIsUnmuted
  <2>. QED
    BY <1>2, <2>2, <2>4
<1>. QED
  BY <1>3, <1>4

(* A screen that appears has the newest records, and may listen. *)
LEMMA AppearKeeps ==
  ASSUME Types, ClientIsSound(client), HeldIsUnmuted, NEW s \in Screen, viewWillAppear(s),
         listener[s] = nil, Len(client.screen) < MaxListens
  PROVE  /\ client' \in Client /\ ClientIsSound(client') /\ HeldIsUnmuted'
         /\ Len(client'.screen) <= MaxListens
         /\ listener' \in [Screen -> Listener \cup {nil}]
         /\ listening' \subseteq listening \cup ({s} \cap {"Pools", "Members", "Draft"})
PROOF
<1>1. CASE listens(s)
  <2>. DEFINE n == Len(client.screen) + 1
  <2>1. client' = added(client, s) /\ listener' = [listener EXCEPT ![s] = Len(client'.screen)]
    BY <1>1 DEF viewWillAppear
  <2>2. /\ client' \in Client /\ ClientIsSound(client')
        /\ client'.screen = Append(client.screen, s) /\ client'.muted = client.muted
        /\ Len(client'.screen) = n
    BY <2>1, AddedIsSound DEF Types
  <2>3. n \in Listener /\ n <= MaxListens /\ n # nil /\ n \notin Ids(client)
    BY ScreensAssumption DEF Types, Client, Listener, Ids, nil
  <2>4. /\ Ids(client') = Ids(client) \cup {n}
        /\ client'.screen[n] = s
        /\ \A id \in Ids(client) : client'.screen[id] = client.screen[id] /\ client.screen[id] \in Screen
        /\ nil \notin Ids(client)
    <3>1. client.screen \in Seq(Screen) /\ Len(client.screen) \in Nat
      BY DEF Types, Client
    <3>2. \A id \in 1..Len(client.screen) :
            Append(client.screen, s)[id] = client.screen[id] /\ client.screen[id] \in Screen
      BY <3>1
    <3>. QED
      BY <2>2, <3>1, <3>2 DEF Ids, nil
  <2>. HIDE DEF n
  <2>5. /\ listener' \in [Screen -> Listener \cup {nil}]
        /\ \A x \in Screen : listener'[x] = IF x = s THEN n ELSE listener[x]
    BY <2>1, <2>2, <2>3 DEF Types
  <2>6. s \in {"Pools", "Members", "Draft"}
    BY <1>1 DEF listens
  <2>7. listening' \subseteq listening \cup {s}
    BY <2>5 DEF listening
  <2>8. n \notin client.muted
    BY <2>3 DEF ClientIsSound, OpsAreOfListeners
  <2>9. \A x \in Screen : listener'[x] # nil =>
          listener'[x] \in Ids(client') /\ client'.screen[listener'[x]] = x
    BY <2>4, <2>5 DEF HeldIsUnmuted
  <2>10. \A id \in Ids(client') :
           id \notin client'.muted <=> listener'[client'.screen[id]] = id
    <3>1. n \notin client'.muted /\ listener'[client'.screen[n]] = n
      BY <2>2, <2>4, <2>5, <2>8
    <3>2. ASSUME NEW id \in Ids(client)
          PROVE  id \notin client'.muted <=> listener'[client'.screen[id]] = id
      <4>1. id # n /\ id # nil /\ client'.screen[id] = client.screen[id] /\ client.screen[id] \in Screen
        BY <2>3, <2>4
      <4>2. id \notin client.muted <=> listener[client.screen[id]] = id
        BY DEF HeldIsUnmuted
      <4>3. CASE client.screen[id] = s
        BY <2>2, <2>5, <4>1, <4>2, <4>3
      <4>4. CASE client.screen[id] # s
        BY <2>2, <2>5, <4>1, <4>2, <4>4
      <4>. QED
        BY <4>3, <4>4
    <3>. QED
      BY <2>4, <3>1, <3>2
  <2>11. HeldIsUnmuted'
    BY <2>9, <2>10 DEF HeldIsUnmuted
  <2>. QED
    BY <2>2, <2>3, <2>5, <2>6, <2>7, <2>11
<1>2. CASE ~listens(s)
  <2>1. client' = client /\ listener' = listener
    BY <1>2 DEF viewWillAppear
  <2>2. HeldIsUnmuted' /\ listening' = listening
    BY <2>1 DEF HeldIsUnmuted, listening, Ids
  <2>. QED
    BY <2>1, <2>2 DEF Types
<1>. QED
  BY <1>1, <1>2

-----------------------------------------------------------------------------
(* IInv is inductive. *)

LEMMA TopIsAScreen ==
  ASSUME Types, StackIsAPath
  PROVE  /\ top \in Screen /\ top = stack[Len(stack)] /\ Len(stack) \in Nat \ {0}
         /\ top # "Pools" => Len(stack) >= 2 /\ stack[Len(stack) - 1] = under[top]
PROOF
<1>1. stack \in Seq(Screen) /\ Len(stack) \in Nat \ {0} /\ top = stack[Len(stack)]
  BY DEF Types, top, Last
<1>. QED
  BY <1>1 DEF StackIsAPath

LEMMA InitIsSound ==
  ASSUME Init
  PROVE  IInv
PROOF
<1>1. Types
  BY ScreensAssumption DEF Init, Types, noClient, Client, nil, Screen, MaxVersion
<1>2. StackIsAPath
  BY DEF Init, StackIsAPath
<1>3. ClientIsSound(client)
  BY DEF Init, noClient, ClientIsSound, OpsAreOfListeners, UnmutedWillListen, MutedWillStop, Ids
<1>4. HeldIsUnmuted
  BY DEF Init, noClient, HeldIsUnmuted, Ids, nil
<1>5. DelegateIsDrawn /\ ListenersAreOfLists
  BY DEF Init, DelegateIsDrawn, ListenersAreOfLists, listening
<1>6. Stage
  <2>1. top = "Pools"
    BY DEF Init, top, Last
  <2>2. listening = {} /\ Len(client.screen) < MaxListens
    BY ScreensAssumption DEF Init, listening, noClient
  <2>. QED
    BY <2>1, <2>2 DEF Init, Stage
<1>. QED
  BY <1>1, <1>2, <1>3, <1>4, <1>5, <1>6 DEF IInv

(* What a tap leaves alone. *)
LEMMA TapKeeps ==
  ASSUME IInv, UNCHANGED <<delegate, listener, records, drawn, client>>
  PROVE  /\ ClientIsSound(client') /\ HeldIsUnmuted' /\ DelegateIsDrawn'
         /\ listening' = listening /\ ListenersAreOfLists'
BY DEF IInv, HeldIsUnmuted, Ids, DelegateIsDrawn, listening, ListenersAreOfLists

LEMMA PushKeeps ==
  ASSUME IInv, NEW s \in Screen \ {"Pools"}, under[s] = top, transitionTo(s),
         stack' = Append(stack, s), pool' \in [Screen -> 0..MaxVersion], signedIn' \in BOOLEAN,
         UNCHANGED <<delegate, listener, records, drawn, client>>
  PROVE  IInv'
PROOF
<1>1. top \in Screen /\ top = stack[Len(stack)] /\ Len(stack) \in Nat \ {0} /\ stack \in Seq(Screen)
  BY TopIsAScreen DEF IInv, Types
<1>2. stack' \in Seq(Screen) /\ stack' # <<>> /\ Len(stack') = Len(stack) + 1
  BY <1>1
<1>3. /\ stack'[Len(stack) + 1] = s
      /\ \A i \in 1..Len(stack) : stack'[i] = stack[i]
  BY <1>1
<1>4. top' = s
  BY <1>2, <1>3 DEF top, Last
<1>5. Types'
  BY <1>2 DEF IInv, Types
<1>6. StackIsAPath'
  <2>1. stack'[1] = "Pools"
    BY <1>1, <1>3 DEF IInv, StackIsAPath
  <2>2. ASSUME NEW i \in 2..(Len(stack) + 1)
        PROVE  stack'[i] # "Pools" /\ stack'[i - 1] = under[stack'[i]]
    <3>1. CASE i = Len(stack) + 1
      BY <1>1, <1>3, <3>1
    <3>2. CASE i # Len(stack) + 1
      <4>1. i \in 2..Len(stack) /\ i \in 1..Len(stack) /\ i - 1 \in 1..Len(stack)
        BY <3>2, <1>1
      <4>. QED
        BY <4>1, <1>3 DEF IInv, StackIsAPath
    <3>. QED
      BY <3>1, <3>2
  <2>. QED
    BY <1>2, <2>1, <2>2 DEF StackIsAPath
<1>7. Stage'
  <2>1. settled /\ OnlyFor(top)
    BY DEF IInv, Stage, transitionTo, settled
  <2>2. listening' = listening
    BY TapKeeps
  <2>3. /\ listening' \subseteq {top} /\ delegate' \in {top, "nobody"}
        /\ top \in {"Pools", "Teams"} => delegate' = top
    BY <2>1, <2>2 DEF OnlyFor
  <2>4. Neighbours(top, s)
    BY DEF Neighbours
  <2>. QED
    BY <1>1, <1>4, <2>3, <2>4 DEF Stage, transitionTo, OnlyFor, disappears
<1>. QED
  BY <1>5, <1>6, <1>7, TapKeeps DEF IInv

LEMMA PopKeeps ==
  ASSUME IInv, top # "Pools", pop, signedIn' \in BOOLEAN
  PROVE  IInv'
PROOF
<1>. DEFINE n == Len(stack)
            b == stack[n - 1]
<1>1. /\ top \in Screen /\ top = stack[n] /\ n \in Nat /\ n >= 2 /\ stack \in Seq(Screen)
      /\ b = under[top]
  BY TopIsAScreen DEF IInv, Types
<1>2. /\ transitionTo(b) /\ stack' = Front(stack)
      /\ UNCHANGED <<delegate, listener, pool, records, drawn, client>>
  BY DEF pop
<1>3. /\ stack' \in Seq(Screen) /\ Len(stack') = n - 1 /\ stack' # <<>>
      /\ \A i \in 1..(n - 1) : stack'[i] = stack[i]
  <2>. DEFINE m == n - 1
  <2>1. stack' = SubSeq(stack, 1, m) /\ m \in 1..Len(stack)
    BY <1>1, <1>2 DEF Front
  <2>. HIDE DEF m
  <2>2. /\ stack' \in Seq(Screen) /\ Len(stack') = m /\ stack' # <<>>
        /\ \A i \in 1..m : stack'[i] = stack[i]
    BY <1>1, <2>1
  <2>. QED
    BY <2>2 DEF m
<1>4. top' = b
  BY <1>1, <1>3 DEF top, Last
<1>5. Types'
  BY <1>2, <1>3 DEF IInv, Types
<1>6. StackIsAPath'
  <2>1. /\ stack[1] = "Pools"
        /\ \A i \in 2..n : stack[i] # "Pools" /\ stack[i - 1] = under[stack[i]]
    BY DEF IInv, StackIsAPath
  <2>2. \A i \in 2..(n - 1) : i \in 2..n /\ i \in 1..(n - 1) /\ i - 1 \in 1..(n - 1)
    BY <1>1
  <2>. QED
    BY <1>1, <1>3, <2>1, <2>2 DEF StackIsAPath
<1>7. Stage'
  <2>1. settled /\ OnlyFor(top)
    BY <1>2 DEF IInv, Stage, transitionTo, settled
  <2>2. listening' = listening
    BY <1>2, TapKeeps
  <2>3. /\ listening' \subseteq {top} /\ delegate' \in {top, "nobody"}
        /\ top \in {"Pools", "Teams"} => delegate' = top
    BY <1>2, <2>1, <2>2 DEF OnlyFor
  <2>4. Neighbours(top, b)
    BY <1>1 DEF Neighbours
  <2>. QED
    BY <1>1, <1>2, <1>4, <2>3, <2>4 DEF Stage, transitionTo, OnlyFor, disappears
<1>. QED
  BY <1>2, <1>5, <1>6, <1>7, TapKeeps DEF IInv

LEMMA UserKeeps ==
  ASSUME IInv, User
  PROVE  IInv'
PROOF
<1>1. Types /\ top \in Screen
  BY TopIsAScreen DEF IInv
<1>2. /\ under["Create"] = "Pools" /\ under["Members"] = "Pools" /\ under["Draft"] = "Pools"
      /\ under["Login"] = "Pools" /\ under["Teams"] = "Members" /\ under["Pick"] = "Draft"
  BY DEF under, Screen
<1>3. \A s \in Screen, v \in 0..MaxVersion : [pool EXCEPT ![s] = v] \in [Screen -> 0..MaxVersion]
  BY <1>1 DEF Types
<1>4. ASSUME NEW s \in Screen \ {"Pools"}, NEW v \in 0..MaxVersion, under[s] = top, push(s, v),
             UNCHANGED signedIn
      PROVE  IInv'
  <2>1. pool' \in [Screen -> 0..MaxVersion] /\ signedIn' \in BOOLEAN
    BY <1>1, <1>3, <1>4 DEF push, Types
  <2>. QED
    BY <1>4, <2>1, PushKeeps DEF push
<1>5. pool["Pools"] \in 0..MaxVersion /\ pool["Members"] \in 0..MaxVersion
      /\ pool["Draft"] \in 0..MaxVersion /\ 0 \in 0..MaxVersion
  BY <1>1, ScreensAssumption DEF Types, Screen, MaxVersion
<1>6. {"Create", "Members", "Draft", "Login", "Teams", "Pick"} \subseteq Screen \ {"Pools"}
  BY DEF Screen
<1>7. CASE openCreate
  BY <1>2, <1>4, <1>5, <1>6, <1>7 DEF openCreate
<1>8. CASE openMembers
  BY <1>2, <1>4, <1>5, <1>6, <1>8 DEF openMembers
<1>9. CASE openTeams
  BY <1>2, <1>4, <1>5, <1>6, <1>9 DEF openTeams
<1>10. CASE openDraft
  BY <1>2, <1>4, <1>5, <1>6, <1>10 DEF openDraft
<1>11. CASE selectTeam
  BY <1>2, <1>4, <1>5, <1>6, <1>11 DEF selectTeam
<1>12. CASE presentLogin
  BY <1>2, <1>4, <1>5, <1>6, <1>12 DEF presentLogin
<1>13. CASE back
  BY <1>1, <1>13, PopKeeps DEF back, Types
<1>14. CASE logIn
  BY <1>1, <1>14, PopKeeps DEF logIn
<1>15. CASE logOutPressed
  <2>1. pool' \in [Screen -> 0..MaxVersion]
    BY <1>3, <1>5, <1>15 DEF logOutPressed, Screen
  <2>. QED
    BY <1>2, <1>6, <1>15, <2>1, PushKeeps DEF logOutPressed
<1>. QED
  BY <1>7, <1>8, <1>9, <1>10, <1>11, <1>12, <1>13, <1>14, <1>15 DEF User

LEMMA AppearanceKeeps ==
  ASSUME IInv, Appearance
  PROVE  IInv'
PROOF
<1>1. Types /\ top \in Screen /\ ClientIsSound(client) /\ HeldIsUnmuted /\ DelegateIsDrawn
      /\ ListenersAreOfLists /\ StackIsAPath /\ Stage /\ ~settled
  BY TopIsAScreen DEF IInv, Appearance
<1>2. UNCHANGED <<stack, signedIn, pool, records>> /\ top' = top /\ transition' = Tail(transition)
  BY DEF Appearance, top
<1>3. StackIsAPath'
  BY <1>1, <1>2 DEF StackIsAPath
<1>4. ASSUME client' \in Client, ClientIsSound(client'), HeldIsUnmuted',
             Len(client'.screen) <= MaxListens,
             listener' \in [Screen -> Listener \cup {nil}],
             delegate' \in showsRecords \cup {"nobody"}, drawn' \in [Screen -> 0..MaxRecords],
             DelegateIsDrawn', ListenersAreOfLists', Stage'
      PROVE  IInv'
  BY <1>1, <1>2, <1>3, <1>4 DEF IInv, Types
<1>5. ASSUME NEW s \in Screen, viewWillAppear(s), listener[s] = nil, Len(client.screen) < MaxListens
      PROVE  /\ client' \in Client /\ ClientIsSound(client') /\ HeldIsUnmuted'
             /\ Len(client'.screen) <= MaxListens
             /\ listener' \in [Screen -> Listener \cup {nil}]
             /\ listening' \subseteq listening \cup {s}
             /\ delegate' = (IF s \in showsRecords THEN s ELSE delegate)
             /\ delegate' \in showsRecords \cup {"nobody"} /\ drawn' \in [Screen -> 0..MaxRecords]
             /\ DelegateIsDrawn' /\ ListenersAreOfLists'
  <2>1. /\ client' \in Client /\ ClientIsSound(client') /\ HeldIsUnmuted'
        /\ Len(client'.screen) <= MaxListens
        /\ listener' \in [Screen -> Listener \cup {nil}]
        /\ listening' \subseteq listening \cup ({s} \cap {"Pools", "Members", "Draft"})
    BY <1>1, <1>5, AppearKeeps
  <2>2. /\ delegate' = IF s \in showsRecords THEN s ELSE delegate
        /\ drawn' = [drawn EXCEPT ![s] = records]
    BY <1>5 DEF viewWillAppear
  <2>3. delegate' \in showsRecords \cup {"nobody"} /\ drawn' \in [Screen -> 0..MaxRecords]
    BY <1>1, <2>2 DEF Types
  <2>4. DelegateIsDrawn'
    BY <1>1, <1>2, <2>2 DEF Types, DelegateIsDrawn, showsRecords, Screen
  <2>5. ListenersAreOfLists'
    BY <1>1, <2>1 DEF ListenersAreOfLists
  <2>. QED
    BY <2>1, <2>2, <2>3, <2>4, <2>5
<1>6. CASE /\ transition = <<call("viewWillAppear", "Pools")>>
           /\ top = "Pools" /\ listening = {} /\ delegate = "nobody"
           /\ Len(client.screen) < MaxListens
  <2>1. viewWillAppear("Pools") /\ transition' = <<>>
    BY <1>2, <1>6 DEF Appearance, call
  <2>2. "Pools" \in Screen /\ listener["Pools"] = nil
    BY <1>6 DEF Screen, listening
  <2>3. Stage'
    BY <1>2, <1>5, <1>6, <2>1, <2>2 DEF Stage, settled, OnlyFor, showsRecords
  <2>. QED
    BY <1>4, <1>5, <1>6, <2>1, <2>2, <2>3
<1>7. ASSUME NEW a \in Screen, Neighbours(a, top),
             transition = <<call("viewWillDisappear", a), call("viewWillAppear", top),
                            disappears(a)>>,
             OnlyFor(a), Len(client.screen) < MaxListens
      PROVE  IInv'
  <2>1. viewWillDisappear(a) /\ transition' = <<call("viewWillAppear", top), disappears(a)>>
    BY <1>2, <1>7 DEF Appearance, call, disappears
  <2>2. drawn' = drawn
    BY <2>1 DEF viewWillDisappear
  <2>3. CASE a \in onWillDisappear
    <3>1. delegate' = "nobody" /\ removeListener(a)
      BY <2>1, <2>3 DEF viewWillDisappear
    <3>2. /\ client' \in Client /\ ClientIsSound(client') /\ HeldIsUnmuted'
          /\ Len(client'.screen) = Len(client.screen)
          /\ listener' \in [Screen -> Listener \cup {nil}]
          /\ listening' = listening \ {a}
      BY <1>1, <3>1, RemoveListenerKeeps
    <3>3. LeftOf(a)'
      BY <1>7, <3>1, <3>2 DEF LeftOf, OnlyFor
    <3>4. Stage'
      BY <1>2, <1>7, <2>1, <3>2, <3>3 DEF Stage
    <3>5. DelegateIsDrawn' /\ ListenersAreOfLists'
      BY <1>1, <3>1, <3>2 DEF DelegateIsDrawn, ListenersAreOfLists
    <3>. QED
      BY <1>1, <1>4, <2>2, <3>1, <3>2, <3>4, <3>5 DEF Types
  <2>4. CASE a \notin onWillDisappear
    <3>1. UNCHANGED <<delegate, listener, client>>
      BY <2>1, <2>4 DEF viewWillDisappear
    <3>2. listening' = listening /\ HeldIsUnmuted' /\ DelegateIsDrawn' /\ ListenersAreOfLists'
      BY <1>1, <1>2, <2>2, <3>1
         DEF listening, HeldIsUnmuted, Ids, DelegateIsDrawn, ListenersAreOfLists
    <3>3. listening' \subseteq {a} \cap onDidDisappear
      BY <1>1, <1>7, <2>4, <3>2
         DEF OnlyFor, ListenersAreOfLists, onWillDisappear, onDidDisappear
    <3>4. delegate' \in ({a} \cap onDidDisappear) \cup {"nobody"}
      BY <1>1, <1>7, <2>4, <3>1
         DEF OnlyFor, Types, showsRecords, onWillDisappear, onDidDisappear
    <3>5. Stage'
      BY <1>2, <1>7, <2>1, <3>1, <3>3, <3>4 DEF Stage, LeftOf
    <3>. QED
      BY <1>1, <1>4, <2>2, <3>1, <3>2, <3>5 DEF Types
  <2>. QED
    BY <2>3, <2>4
<1>8. ASSUME NEW a \in Screen, Neighbours(a, top),
             transition = <<call("viewWillAppear", top), disappears(a)>>,
             LeftOf(a), Len(client.screen) < MaxListens
      PROVE  IInv'
  <2>1. viewWillAppear(top) /\ transition' = <<disappears(a)>>
    BY <1>2, <1>8 DEF Appearance, call, disappears
  <2>2. a # top /\ listener[top] = nil
    BY <1>1, <1>8, NeighboursAreTwo DEF LeftOf, listening
  <2>3. BothOf(a, top)'
    BY <1>1, <1>2, <1>5, <1>8, <2>1, <2>2 DEF LeftOf, BothOf
  <2>4. Stage'
    BY <1>2, <1>8, <2>1, <2>3 DEF Stage
  <2>. QED
    BY <1>1, <1>4, <1>5, <1>8, <2>1, <2>2, <2>4
<1>9. ASSUME NEW a \in Screen, Neighbours(a, top), transition = <<disappears(a)>>, BothOf(a, top)
      PROVE  IInv'
  <2>1. viewDidDisappear(a) /\ transition' = <<>>
    BY <1>2, <1>9 DEF Appearance, call, disappears
  <2>2. drawn' = drawn /\ a # top
    BY <1>1, <1>9, <2>1, NeighboursAreTwo DEF viewDidDisappear
  <2>3. CASE a \in onDidDisappear
    <3>1. delegate' = (IF a \in showsRecords THEN "nobody" ELSE delegate) /\ removeListener(a)
      BY <2>1, <2>3 DEF viewDidDisappear
    <3>2. /\ client' \in Client /\ ClientIsSound(client') /\ HeldIsUnmuted'
          /\ Len(client'.screen) = Len(client.screen)
          /\ listener' \in [Screen -> Listener \cup {nil}]
          /\ listening' = listening \ {a}
      BY <1>1, <3>1, RemoveListenerKeeps
    <3>3. listening' \subseteq {top}
      BY <1>9, <3>2 DEF BothOf
    <3>4. delegate' \in {top, "nobody"} /\ (top \in {"Pools", "Teams"} => delegate' = top)
      <4>1. CASE a = "Teams"
        BY <1>1, <1>9, <3>1, <4>1, NeighboursAreTwo DEF showsRecords
      <4>2. CASE a = "Draft"
        BY <1>1, <1>9, <3>1, <4>2, <2>2 DEF BothOf, showsRecords, Types, onDidDisappear
      <4>. QED
        BY <2>3, <4>1, <4>2 DEF onDidDisappear
    <3>5. Stage'
      BY <1>2, <2>1, <3>3, <3>4 DEF Stage, settled, OnlyFor
    <3>6. DelegateIsDrawn' /\ ListenersAreOfLists' /\ delegate' \in showsRecords \cup {"nobody"}
      BY <1>1, <1>2, <2>2, <3>1, <3>2 DEF DelegateIsDrawn, ListenersAreOfLists, Types
    <3>. QED
      BY <1>1, <1>4, <2>2, <3>2, <3>5, <3>6 DEF Types
  <2>4. CASE a \notin onDidDisappear
    <3>1. UNCHANGED <<delegate, listener, client>>
      BY <2>1, <2>4 DEF viewDidDisappear
    <3>2. listening' = listening /\ HeldIsUnmuted' /\ DelegateIsDrawn' /\ ListenersAreOfLists'
      BY <1>1, <1>2, <2>2, <3>1
         DEF listening, HeldIsUnmuted, Ids, DelegateIsDrawn, ListenersAreOfLists
    <3>3. listening' \subseteq {top}
      BY <1>9, <2>4, <3>2 DEF BothOf
    <3>4. delegate' \in {top, "nobody"} /\ (top \in {"Pools", "Teams"} => delegate' = top)
      BY <1>1, <1>9, <2>4, <3>1 DEF BothOf, Types, showsRecords, onDidDisappear
    <3>5. Stage'
      BY <1>2, <2>1, <3>3, <3>4 DEF Stage, settled, OnlyFor
    <3>. QED
      BY <1>1, <1>4, <2>2, <3>1, <3>2, <3>5 DEF Types
  <2>. QED
    BY <2>3, <2>4
<1>. QED
  BY <1>1, <1>6, <1>7, <1>8, <1>9 DEF Stage

LEMMA RecordKeeps ==
  ASSUME IInv, updateTeamWithId
  PROVE  IInv'
PROOF
<1>1. /\ UNCHANGED app /\ UNCHANGED client
      /\ records' = records + 1
      /\ drawn' = IF delegate = "nobody" THEN drawn ELSE [drawn EXCEPT ![delegate] = records']
  BY DEF updateTeamWithId
<1>2. records' \in 0..MaxRecords
  BY ScreensAssumption DEF updateTeamWithId, IInv, Types
<1>3. showsRecords \subseteq Screen
  BY DEF showsRecords, Screen
<1>4. drawn' \in [Screen -> 0..MaxRecords] /\ DelegateIsDrawn'
  BY <1>1, <1>2, <1>3 DEF IInv, Types, DelegateIsDrawn, app
<1>5. Types' /\ StackIsAPath' /\ ClientIsSound(client') /\ HeldIsUnmuted' /\ ListenersAreOfLists'
  BY <1>1, <1>2, <1>4
     DEF IInv, Types, StackIsAPath, HeldIsUnmuted, Ids, ListenersAreOfLists, listening, app
<1>6. Stage'
  BY <1>1 DEF IInv, Stage, OnlyFor, LeftOf, BothOf, listening, settled, top, app
<1>. QED
  BY <1>4, <1>5, <1>6 DEF IInv

(* The client goes on by itself; the screens that hear of it may draw. *)
LEMMA ClientKeeps ==
  ASSUME IInv, client' \in Client, ClientIsSound(client'),
         client'.screen = client.screen, client'.muted = client.muted,
         UNCHANGED <<stack, transition, signedIn, delegate, listener, records>>,
         pool' \in [Screen -> 0..MaxVersion], drawn' \in [Screen -> 0..MaxRecords],
         DelegateIsDrawn'
  PROVE  IInv'
PROOF
<1>1. Types'
  BY DEF IInv, Types
<1>2. StackIsAPath' /\ HeldIsUnmuted' /\ ListenersAreOfLists'
  BY DEF IInv, StackIsAPath, HeldIsUnmuted, Ids, ListenersAreOfLists, listening
<1>3. Stage'
  BY DEF IInv, Stage, OnlyFor, LeftOf, BothOf, listening, settled, top
<1>. QED
  BY <1>1, <1>2, <1>3 DEF IInv

LEMMA WorkerKeeps ==
  ASSUME IInv, Worker
  PROVE  IInv'
PROOF
<1>1. client \in Client /\ ClientIsSound(client)
  BY DEF IInv, Types
<1>2. /\ UNCHANGED <<stack, transition, signedIn, delegate, listener, records>>
      /\ UNCHANGED <<pool, drawn>>
  BY DEF Worker, AddQueryListener, RemoveQueryListener, app
<1>3. /\ pool' \in [Screen -> 0..MaxVersion] /\ drawn' \in [Screen -> 0..MaxRecords]
      /\ DelegateIsDrawn'
  BY <1>2 DEF IInv, Types, DelegateIsDrawn
<1>4. CASE AddQueryListener
  <2>1. /\ client.worker # <<>> /\ Head(client.worker).op = "add"
        /\ client' = [client EXCEPT !.worker = Tail(client.worker),
             !.listening = client.listening \cup {Head(client.worker).listener},
             !.posted = Append(client.posted, event(Head(client.worker).listener, client.version))]
    BY <1>4 DEF AddQueryListener
  <2>2. /\ client' \in Client /\ ClientIsSound(client')
        /\ client'.screen = client.screen /\ client'.muted = client.muted
    BY <1>1, <2>1, AddRunIsSound
  <2>. QED
    BY <1>2, <1>3, <2>2, ClientKeeps
<1>5. CASE RemoveQueryListener
  <2>1. /\ client.worker # <<>> /\ Head(client.worker).op = "remove"
        /\ client' = [client EXCEPT !.worker = Tail(client.worker),
             !.listening = client.listening \ {Head(client.worker).listener}]
    BY <1>5 DEF RemoveQueryListener
  <2>2. /\ client' \in Client /\ ClientIsSound(client')
        /\ client'.screen = client.screen /\ client'.muted = client.muted
    BY <1>1, <2>1, RemoveRunIsSound
  <2>. QED
    BY <1>2, <1>3, <2>2, ClientKeeps
<1>. QED
  BY <1>4, <1>5 DEF Worker

LEMMA OnViewSnapshotsKeeps ==
  ASSUME IInv, OnViewSnapshots
  PROVE  IInv'
PROOF
<1>. DEFINE c == client
            v == c.version + 1
            told == {event(id, v) : id \in c.listening}
            p == c.posted \o SetToSeq(told)
<1>1. c \in Client /\ ClientIsSound(c)
  BY DEF IInv, Types
<1>2. client' = [c EXCEPT !.version = v, !.posted = p] /\ c.version < MaxVersion
  BY DEF OnViewSnapshots
<1>3. c = [worker |-> c.worker, listening |-> c.listening, posted |-> c.posted,
           muted |-> c.muted, screen |-> c.screen, version |-> c.version]
  BY <1>1 DEF Client
<1>4. client' = [worker |-> c.worker, listening |-> c.listening, posted |-> p,
                 muted |-> c.muted, screen |-> c.screen, version |-> v]
  <2>1. client' = [[worker |-> c.worker, listening |-> c.listening, posted |-> c.posted,
                    muted |-> c.muted, screen |-> c.screen, version |-> c.version]
                     EXCEPT !.version = v, !.posted = p]
    BY <1>2, <1>3, Zenon
  <2>. QED
    BY <2>1
<1>5. v \in 1..MaxVersion
  BY <1>1, <1>2, ScreensAssumption DEF Client, MaxVersion
<1>6. IsFiniteSet(c.listening)
  <2>1. IsFiniteSet(Listener)
    BY FS_Interval, ScreensAssumption DEF Listener
  <2>. QED
    BY <1>1, <2>1, FS_Subset DEF Client
<1>7. SetToSeq(told) \in Seq(told)
  <2>1. IsFiniteSet(told)
    <3>. DEFINE f == [id \in c.listening |-> event(id, v)]
    <3>1. f \in Surjection(c.listening, told)
      BY DEF Surjection
    <3>. QED
      BY <1>6, <3>1, FS_Surjection
  <2>. QED
    BY <2>1, SetToSeqMembers
<1>8. told \subseteq {e \in Event : e.listener \in c.listening}
  BY <1>1, <1>5 DEF event, Event, Client
<1>9. c.posted \in Seq(Event) /\ \A i \in DOMAIN c.posted : c.posted[i].listener \in Ids(c)
  BY <1>1 DEF Client, ClientIsSound, OpsAreOfListeners
<1>10. c.listening \subseteq Ids(c)
  BY <1>1 DEF ClientIsSound, OpsAreOfListeners
<1>. DEFINE Sound == {e \in Event : e.listener \in Ids(c)}
<1>11. c.posted \in Seq(Sound) /\ SetToSeq(told) \in Seq(Sound)
  <2>1. told \subseteq Sound
    BY <1>8, <1>10
  <2>2. \A i \in DOMAIN c.posted : c.posted[i] \in Sound
    BY <1>9
  <2>. HIDE DEF told, Sound
  <2>. QED
    BY <1>7, <1>9, <2>1, <2>2
<1>12. p \in Seq(Sound)
  <2>. HIDE DEF told, Sound
  <2>. QED
    BY <1>11
<1>13. p \in Seq(Event) /\ \A i \in DOMAIN p : p[i].listener \in Ids(c)
  <2>. HIDE DEF p
  <2>1. \A i \in DOMAIN p : p[i] \in Sound
    BY <1>12
  <2>. QED
    BY <1>12, <2>1
<1>. HIDE DEF p, v
<1>14. client' \in Client
  BY <1>1, <1>4, <1>5, <1>13 DEF Client
<1>15. /\ client'.worker = c.worker /\ client'.listening = c.listening
       /\ client'.muted = c.muted /\ client'.screen = c.screen /\ client'.posted = p
  BY <1>4
<1>16. ClientIsSound(client')
  BY <1>1, <1>13, <1>14, <1>15, PostedIsSound
<1>17. UNCHANGED <<app, records, drawn>>
  BY DEF OnViewSnapshots
<1>18. /\ pool' \in [Screen -> 0..MaxVersion] /\ drawn' \in [Screen -> 0..MaxRecords]
       /\ DelegateIsDrawn'
  BY <1>17 DEF IInv, Types, DelegateIsDrawn, app
<1>. QED
  BY <1>14, <1>15, <1>16, <1>17, <1>18, ClientKeeps DEF app

(* Only a screen that listens is given the pool. *)
LEMMA EventIsForListener ==
  ASSUME IInv, OnEvent
  PROVE  IInv' /\ \A s \in Screen : pool'[s] # pool[s] => s \in listening
PROOF
<1>. DEFINE c == client
            e == Head(c.posted)
            s == c.screen[e.listener]
<1>1. c \in Client /\ ClientIsSound(c) /\ Types
  BY DEF IInv, Types
<1>2. /\ c.posted # <<>> /\ client' = [c EXCEPT !.posted = Tail(c.posted)]
      /\ IF isMuted(e.listener)
         THEN UNCHANGED <<pool, drawn>>
         ELSE /\ pool' = [pool EXCEPT ![s] = e.version]
              /\ drawn' = [drawn EXCEPT ![s] = records]
      /\ UNCHANGED <<stack, transition, signedIn, delegate, listener, records>>
  BY DEF OnEvent
<1>3. c.posted \in Seq(Event) /\ \A i \in DOMAIN c.posted : c.posted[i].listener \in Ids(c)
  BY <1>1 DEF Client, ClientIsSound, OpsAreOfListeners
<1>4. e \in Event /\ e.listener \in Ids(c)
  BY <1>2, <1>3
<1>5. s \in Screen
  BY <1>1, <1>4 DEF Client, Ids
<1>6. /\ Tail(c.posted) \in Seq(Event)
      /\ \A i \in DOMAIN Tail(c.posted) : Tail(c.posted)[i].listener \in Ids(c)
  <2>1. /\ Tail(c.posted) \in Seq(Event)
        /\ \A i \in DOMAIN Tail(c.posted) :
             i + 1 \in DOMAIN c.posted /\ Tail(c.posted)[i] = c.posted[i + 1]
    BY <1>2, <1>3
  <2>. QED
    BY <1>3, <2>1
<1>7. c = [worker |-> c.worker, listening |-> c.listening, posted |-> c.posted,
           muted |-> c.muted, screen |-> c.screen, version |-> c.version]
  BY <1>1 DEF Client
<1>8. client' = [worker |-> c.worker, listening |-> c.listening, posted |-> Tail(c.posted),
                 muted |-> c.muted, screen |-> c.screen, version |-> c.version]
  <2>1. client' = [[worker |-> c.worker, listening |-> c.listening, posted |-> c.posted,
                    muted |-> c.muted, screen |-> c.screen, version |-> c.version]
                     EXCEPT !.posted = Tail(c.posted)]
    BY <1>2, <1>7, Zenon
  <2>. QED
    BY <2>1
<1>9. client' \in Client
  BY <1>1, <1>6, <1>8 DEF Client
<1>10. /\ client'.worker = c.worker /\ client'.listening = c.listening
       /\ client'.muted = c.muted /\ client'.screen = c.screen
       /\ client'.posted = Tail(c.posted)
  BY <1>8
<1>11. ClientIsSound(client')
  BY <1>1, <1>6, <1>9, <1>10, PostedIsSound
<1>. HIDE DEF s, e
<1>12. e.version \in 0..MaxVersion
  BY <1>4, ScreensAssumption DEF Event, MaxVersion
<1>13. /\ pool' \in [Screen -> 0..MaxVersion] /\ drawn' \in [Screen -> 0..MaxRecords]
       /\ DelegateIsDrawn'
  <2>1. CASE isMuted(e.listener)
    BY <1>1, <1>2, <2>1 DEF IInv, Types, DelegateIsDrawn
  <2>2. CASE ~isMuted(e.listener)
    <3>1. pool' = [pool EXCEPT ![s] = e.version] /\ drawn' = [drawn EXCEPT ![s] = records]
      BY <1>2, <2>2
    <3>2. pool' \in [Screen -> 0..MaxVersion] /\ drawn' \in [Screen -> 0..MaxRecords]
      BY <1>1, <1>5, <1>12, <3>1 DEF Types
    <3>3. delegate' # "nobody" => delegate \in Screen /\ drawn[delegate] = records
      BY <1>1, <1>2 DEF IInv, Types, DelegateIsDrawn, showsRecords, Screen
    <3>4. DelegateIsDrawn'
      BY <1>1, <1>2, <3>1, <3>3 DEF Types, DelegateIsDrawn
    <3>. QED
      BY <3>2, <3>4
  <2>. QED
    BY <2>1, <2>2
<1>14. ~isMuted(e.listener) => listener[s] # nil
  BY <1>4 DEF s, isMuted, IInv, HeldIsUnmuted, Ids, nil
<1>15. \A x \in Screen : pool'[x] # pool[x] => x \in listening
  BY <1>1, <1>2, <1>5, <1>14 DEF Types, listening
<1>16. IInv'
  BY <1>2, <1>9, <1>10, <1>11, <1>13, ClientKeeps
<1>. QED
  BY <1>15, <1>16

LEMMA StutterKeeps ==
  ASSUME IInv, UNCHANGED vars
  PROVE  IInv'
PROOF
<1>1. client' \in Client /\ ClientIsSound(client')
  BY DEF IInv, Types, vars
<1>2. /\ pool' \in [Screen -> 0..MaxVersion] /\ drawn' \in [Screen -> 0..MaxRecords]
      /\ DelegateIsDrawn'
  BY DEF IInv, Types, DelegateIsDrawn, vars, app
<1>. QED
  BY <1>1, <1>2, ClientKeeps DEF vars, app

THEOREM Invariance == Spec => []IInv
PROOF
<1>1. Init => IInv
  BY InitIsSound
<1>2. IInv /\ [Next]_vars => IInv'
  BY UserKeeps, AppearanceKeeps, RecordKeeps, WorkerKeeps, OnViewSnapshotsKeeps,
     EventIsForListener, StutterKeeps DEF Next
<1>. QED
  BY <1>1, <1>2, PTL DEF Spec

-----------------------------------------------------------------------------
(* Every variable is of its kind, whatever the user taps and however the   *)
(* client is behind (TypeOK of Screens).                                   *)
THEOREM TypeCorrect == Spec => []TypeOK
PROOF
<1>1. IInv => TypeOK
  <2>. SUFFICES ASSUME IInv PROVE TypeOK
    OBVIOUS
  <2>1. Types /\ stack # <<>> /\ Head(stack) = "Pools" /\ showsRecords \subseteq Screen
    BY DEF IInv, Types, StackIsAPath, showsRecords, Screen
  <2>2. client.listening \subseteq Listener /\ client.muted \subseteq Listener
    BY <2>1 DEF Types, Client
  <2>3. transition \in Seq([callback : {"viewWillDisappear", "viewWillAppear", "viewDidDisappear"},
                            screen : Screen])
    <3>1. top \in Screen /\ "Pools" \in Screen
      BY TopIsAScreen DEF IInv, Screen
    <3>. DEFINE Call == [callback : {"viewWillDisappear", "viewWillAppear", "viewDidDisappear"},
                         screen : Screen]
    <3>2. \A s \in Screen : /\ call("viewWillDisappear", s) \in Call
                            /\ call("viewWillAppear", s) \in Call
                            /\ disappears(s) \in Call
      BY DEF call, disappears
    <3>. HIDE DEF Call
    <3>3. transition \in Seq(Call)
      <4>1. CASE settled
        BY <4>1 DEF settled
      <4>2. CASE transition = <<call("viewWillAppear", "Pools")>>
        BY <3>1, <3>2, <4>2
      <4>3. CASE ~settled /\ transition # <<call("viewWillAppear", "Pools")>>
        <5>1. PICK a \in Screen :
                \/ transition = <<call("viewWillDisappear", a), call("viewWillAppear", top),
                                  disappears(a)>>
                \/ transition = <<call("viewWillAppear", top), disappears(a)>>
                \/ transition = <<disappears(a)>>
          BY <4>3 DEF IInv, Stage
        <5>2. /\ call("viewWillDisappear", a) \in Call /\ call("viewWillAppear", top) \in Call
              /\ disappears(a) \in Call
          BY <3>1, <3>2
        <5>3. \A x, y, z \in Call : <<x, y, z>> \in Seq(Call) /\ <<y, z>> \in Seq(Call) /\ <<z>> \in Seq(Call)
          OBVIOUS
        <5>. QED
          BY <5>1, <5>2, <5>3, Zenon
      <4>. QED
        BY <4>1, <4>2, <4>3
    <3>. QED
      BY <3>3 DEF Call
  <2>. QED
    BY <2>1, <2>2, <2>3 DEF Types, TypeOK
<1>. QED
  BY <1>1, Invariance, PTL

(* However fast the user goes back and forth, no listener is left behind   *)
(* and none is missing: the screens and the client agree on who listens    *)
(* (HeldIsUnmuted), and of the screens only the visible one does (Stage).  *)
THEOREM OneListenerIsLeft == Spec => []OnlyTopListens
PROOF
<1>1. IInv => OnlyTopListens
  <2>. SUFFICES ASSUME IInv, settled, client.worker = <<>>
                PROVE  client.listening = {listener[top]} \ {nil}
    BY DEF OnlyTopListens
  <2>1. client.listening = Ids(client) \ client.muted
    BY IdleClient DEF IInv, Types
  <2>2. top \in Screen /\ listening \subseteq {top}
    BY TopIsAScreen DEF IInv, Stage, OnlyFor, settled
  <2>3. \A id \in Ids(client) : client.screen[id] \in Screen /\ id # nil
    BY DEF IInv, Types, Client, Ids, nil
  <2>4. client.listening \subseteq {listener[top]} \ {nil}
    BY <2>1, <2>2, <2>3 DEF IInv, HeldIsUnmuted, listening
  <2>5. {listener[top]} \ {nil} \subseteq client.listening
    BY <2>1, <2>2 DEF IInv, HeldIsUnmuted
  <2>. QED
    BY <2>4, <2>5
<1>. QED
  BY <1>1, Invariance, PTL

(* The delegate of Teams.shared is handed from screen to screen so that    *)
(* the pools and the teams screen never show old records.                  *)
THEOREM RecordsAreNewest == Spec => []VisibleRecordsAreNewest
PROOF
<1>1. IInv => VisibleRecordsAreNewest
  <2>. SUFFICES ASSUME IInv, settled
                PROVE  /\ top \in {"Pools", "Teams"} => delegate = top /\ drawn[top] = records
                       /\ delegate \in {top, "nobody"}
    BY DEF VisibleRecordsAreNewest
  <2>1. OnlyFor(top)
    BY DEF IInv, Stage, settled
  <2>. QED
    BY <2>1 DEF OnlyFor, IInv, DelegateIsDrawn
<1>. QED
  BY <1>1, Invariance, PTL

(* An event that waits on the main queue never reaches a screen that the   *)
(* user has left: its listener was muted (AsyncEventListener::Mute).       *)
THEOREM LeftScreensAreStill == Spec => HiddenScreensAreStill
PROOF
<1>1. ASSUME IInv, [Next]_vars, NEW s \in Screen, settled, pool'[s] # pool[s]
      PROVE  s \in {top, top'}
  <2>1. Types /\ top \in Screen
    BY <1>1, TopIsAScreen DEF IInv
  <2>2. ASSUME NEW x, NEW v, push(x, v)
        PROVE  s = top'
    <3>1. stack' = Append(stack, x) /\ pool' = [pool EXCEPT ![x] = v]
      BY <2>2 DEF push
    <3>2. s = x
      BY <1>1, <2>1, <3>1 DEF Types
    <3>. QED
      BY <2>1, <3>1, <3>2 DEF Types, top, Last
  <2>3. CASE User
    <3>1. CASE \E x, v : push(x, v)
      BY <2>2, <3>1
    <3>2. CASE pop
      BY <1>1, <3>2 DEF pop
    <3>3. CASE logOutPressed
      BY <1>1, <2>1, <3>3 DEF logOutPressed, Types
    <3>. QED
      BY <2>3, <3>1, <3>2, <3>3
         DEF User, openCreate, openMembers, openTeams, openDraft, selectTeam, back,
             presentLogin, logIn
  <2>4. CASE OnEvent
    <3>1. s \in listening
      BY <1>1, <2>4, EventIsForListener
    <3>. QED
      BY <1>1, <3>1 DEF IInv, Stage, OnlyFor, settled
  <2>5. CASE Appearance \/ updateTeamWithId \/ Worker \/ OnViewSnapshots \/ UNCHANGED vars
    BY <1>1, <2>5
       DEF Appearance, updateTeamWithId, Worker, AddQueryListener, RemoveQueryListener,
           OnViewSnapshots, vars, app
  <2>. QED
    BY <1>1, <2>3, <2>4, <2>5 DEF Next
<1>2. IInv /\ [Next]_vars =>
        [\A s \in Screen : settled /\ pool'[s] # pool[s] => s \in {top, top'}]_vars
  BY <1>1
<1>. QED
  BY <1>2, Invariance, PTL DEF Spec, HiddenScreensAreStill
=============================================================================

---------------------------- MODULE StreamProofs -----------------------------
(***************************************************************************)
(* What each call of a stream leaves behind: the timers and the callbacks  *)
(* that are still to come match its state.  And what the clients of a      *)
(* stream, WatchProofs and WritePipelineProofs, need of numbers and lists. *)
(***************************************************************************)
EXTENDS Stream, Sequences, SequencesExt, FiniteSetsExt, Functions,
        FiniteSetTheorems, WellFoundedInduction, TLAPS

(* Timers match, of a stream that is one. *)
Matches(s) == s \in StreamRecord /\ TimersMatch(s)

LEMMA StreamShape ==
  ASSUME NEW s \in StreamRecord
  PROVE  s = [state |-> s.state, backoff |-> s.backoff, idle |-> s.idle, token |-> s.token,
              late |-> s.late]
BY DEF StreamRecord

LEMMA NewStreamMatches ==
  Matches(NewStream) /\ ~IsStarted(NewStream) /\ ~IsOpen(NewStream)
BY DEF Matches, NewStream, StreamRecord, State, TimersMatch, IsStarted, IsOpen

(* Stream::Start of a stream that is not started. *)
LEMMA StartMatches ==
  ASSUME NEW s, Matches(s), ~IsStarted(s)
  PROVE  /\ Matches(Start(s)) /\ IsStarted(Start(s)) /\ ~IsOpen(Start(s)) /\ ~Start(s).idle
         /\ Start(s).late = s.late
PROOF
<1>1. s \in StreamRecord /\ ~s.backoff /\ ~s.token /\ ~s.idle
  BY DEF Matches, TimersMatch, IsStarted
<1>2. s.state \in State /\ s.late \in Nat
  BY <1>1 DEF StreamRecord
<1>3. s = [state |-> s.state, backoff |-> FALSE, idle |-> FALSE, token |-> FALSE, late |-> s.late]
  BY <1>1 DEF StreamRecord
<1>4. CASE s.state = "Error"
  <2>1. Start(s) = [state |-> "Backoff", backoff |-> TRUE, idle |-> FALSE, token |-> FALSE,
                    late |-> s.late]
    <3>1. Start(s) = [[state |-> s.state, backoff |-> FALSE, idle |-> FALSE, token |-> FALSE,
                       late |-> s.late] EXCEPT !.state = "Backoff", !.backoff = TRUE]
      BY <1>3, <1>4, Zenon DEF Start, BackoffAndTryRestarting
    <3>. QED
      BY <3>1
  <2>. QED
    BY <1>2, <2>1 DEF Matches, StreamRecord, State, TimersMatch, IsStarted, IsOpen
<1>5. CASE s.state # "Error"
  <2>1. Start(s) = [state |-> "Starting", backoff |-> FALSE, idle |-> FALSE, token |-> TRUE,
                    late |-> s.late]
    <3>1. Start(s) = [[state |-> s.state, backoff |-> FALSE, idle |-> FALSE, token |-> FALSE,
                       late |-> s.late] EXCEPT !.state = "Starting", !.token = TRUE]
      BY <1>3, <1>5, Zenon DEF Start, RequestCredentials
    <3>. QED
      BY <3>1
  <2>. QED
    BY <1>2, <2>1 DEF Matches, StreamRecord, State, TimersMatch, IsStarted, IsOpen
<1>. QED
  BY <1>4, <1>5

LEMMA BackoffElapsedMatches ==
  ASSUME NEW s, Matches(s), s.backoff
  PROVE  /\ Matches(BackoffElapsed(s)) /\ IsStarted(BackoffElapsed(s))
         /\ ~IsOpen(BackoffElapsed(s)) /\ ~BackoffElapsed(s).idle
         /\ BackoffElapsed(s).late = s.late
PROOF
<1>. DEFINE i == [s EXCEPT !.state = "Initial", !.backoff = FALSE]
<1>1. s.late \in Nat
  BY DEF Matches, StreamRecord
<1>2. s = [state |-> "Backoff", backoff |-> TRUE, idle |-> FALSE, token |-> FALSE, late |-> s.late]
  BY DEF Matches, StreamRecord, TimersMatch
<1>3. i = [state |-> "Initial", backoff |-> FALSE, idle |-> FALSE, token |-> FALSE, late |-> s.late]
  <2>1. i = [[state |-> "Backoff", backoff |-> TRUE, idle |-> FALSE, token |-> FALSE,
              late |-> s.late] EXCEPT !.state = "Initial", !.backoff = FALSE]
    BY <1>2, Zenon
  <2>. HIDE DEF i
  <2>. QED
    BY <2>1
<1>4. Matches(i) /\ ~IsStarted(i) /\ i.late = s.late
  BY <1>1, <1>3 DEF Matches, StreamRecord, State, TimersMatch, IsStarted
<1>. HIDE DEF i
<1>5. Matches(Start(i)) /\ IsStarted(Start(i)) /\ ~IsOpen(Start(i)) /\ ~Start(i).idle
      /\ Start(i).late = i.late
  BY <1>4, StartMatches
<1>. QED
  BY <1>4, <1>5 DEF BackoffElapsed, i

(* GrpcStream::Start. *)
LEMMA OnStreamStartMatches ==
  ASSUME NEW s, Matches(s), s.token
  PROVE  /\ Matches(OnStreamStart(s)) /\ IsOpen(OnStreamStart(s)) /\ IsStarted(OnStreamStart(s))
         /\ ~OnStreamStart(s).idle /\ OnStreamStart(s).late = s.late
PROOF
<1>1. s.late \in Nat
  BY DEF Matches, StreamRecord
<1>2. s = [state |-> "Starting", backoff |-> FALSE, idle |-> FALSE, token |-> TRUE, late |-> s.late]
  BY DEF Matches, StreamRecord, TimersMatch
<1>3. OnStreamStart(s) = [state |-> "Open", backoff |-> FALSE, idle |-> FALSE, token |-> FALSE,
                          late |-> s.late]
  <2>1. OnStreamStart(s) = [[state |-> "Starting", backoff |-> FALSE, idle |-> FALSE,
                             token |-> TRUE, late |-> s.late]
                              EXCEPT !.state = "Open", !.token = FALSE]
    BY <1>2, Zenon DEF OnStreamStart
  <2>. QED
    BY <2>1
<1>. QED
  BY <1>1, <1>3 DEF Matches, StreamRecord, State, TimersMatch, IsStarted, IsOpen

LEMMA CloseMatches ==
  ASSUME NEW s, Matches(s), NEW graceful \in BOOLEAN
  PROVE  /\ Matches(Close(s, graceful)) /\ ~IsStarted(Close(s, graceful))
         /\ ~IsOpen(Close(s, graceful)) /\ ~Close(s, graceful).idle
         /\ Close(s, graceful).state = IF graceful THEN "Initial" ELSE "Error"
PROOF
<1>1. s.late \in Nat
  BY DEF Matches, StreamRecord
<1>. QED
  BY <1>1 DEF Close, Matches, StreamRecord, State, TimersMatch, IsStarted, IsOpen

(* Of an answer that comes late only the number changes. *)
LEMMA LateMatches ==
  ASSUME NEW s, Matches(s), s.late > 0
  PROVE  /\ Matches(LateCredentials(s))
         /\ IsStarted(LateCredentials(s)) = IsStarted(s) /\ IsOpen(LateCredentials(s)) = IsOpen(s)
         /\ LateCredentials(s).idle = s.idle
PROOF
<1>1. s.late - 1 \in Nat
  BY DEF Matches, StreamRecord
<1>2. LateCredentials(s) =
        [state |-> s.state, backoff |-> s.backoff, idle |-> s.idle, token |-> s.token,
         late |-> s.late - 1]
  <2>1. LateCredentials(s) =
          [[state |-> s.state, backoff |-> s.backoff, idle |-> s.idle, token |-> s.token,
            late |-> s.late] EXCEPT !.late = s.late - 1]
    BY StreamShape, Zenon DEF LateCredentials, Matches
  <2>. QED
    BY <2>1
<1>. QED
  BY <1>1, <1>2 DEF Matches, StreamRecord, TimersMatch, IsStarted, IsOpen

LEMMA InhibitBackoffMatches ==
  ASSUME NEW s, Matches(s), ~IsStarted(s)
  PROVE  Matches(InhibitBackoff(s)) /\ ~IsStarted(InhibitBackoff(s)) /\ ~IsOpen(InhibitBackoff(s))
         /\ ~InhibitBackoff(s).idle
PROOF
<1>1. s \in StreamRecord /\ ~s.backoff /\ ~s.token /\ ~s.idle
  BY DEF Matches, TimersMatch, IsStarted
<1>2. s = [state |-> s.state, backoff |-> FALSE, idle |-> FALSE, token |-> FALSE, late |-> s.late]
  BY <1>1 DEF StreamRecord
<1>3. InhibitBackoff(s) = [state |-> "Initial", backoff |-> FALSE, idle |-> FALSE,
                           token |-> FALSE, late |-> s.late]
  <2>1. InhibitBackoff(s) = [[state |-> s.state, backoff |-> FALSE, idle |-> FALSE,
                              token |-> FALSE, late |-> s.late] EXCEPT !.state = "Initial"]
    BY <1>2, Zenon DEF InhibitBackoff
  <2>. QED
    BY <2>1
<1>4. s.late \in Nat
  BY <1>1 DEF StreamRecord
<1>. QED
  BY <1>3, <1>4 DEF Matches, StreamRecord, State, TimersMatch, IsStarted, IsOpen

LEMMA MarkIdleMatches ==
  ASSUME NEW s, Matches(s)
  PROVE  /\ Matches(MarkIdle(s)) /\ IsStarted(MarkIdle(s)) = IsStarted(s)
         /\ IsOpen(MarkIdle(s)) = IsOpen(s)
PROOF
<1>1. CASE IsOpen(s)
  <2>1. s.late \in Nat
    BY DEF Matches, StreamRecord
  <2>2. s = [state |-> "Open", backoff |-> FALSE, idle |-> s.idle, token |-> FALSE, late |-> s.late]
    BY <1>1 DEF Matches, StreamRecord, TimersMatch, IsOpen
  <2>3. MarkIdle(s) = [state |-> "Open", backoff |-> FALSE, idle |-> TRUE, token |-> FALSE,
                       late |-> s.late]
    <3>1. MarkIdle(s) = [[state |-> "Open", backoff |-> FALSE, idle |-> s.idle, token |-> FALSE,
                          late |-> s.late] EXCEPT !.idle = TRUE]
      BY <1>1, <2>2, Zenon DEF MarkIdle
    <3>. QED
      BY <3>1
  <2>. QED
    BY <1>1, <2>1, <2>3 DEF Matches, StreamRecord, State, TimersMatch, IsStarted, IsOpen
<1>2. CASE ~IsOpen(s)
  BY <1>2 DEF MarkIdle
<1>. QED
  BY <1>1, <1>2

LEMMA CancelIdleMatches ==
  ASSUME NEW s, Matches(s)
  PROVE  /\ Matches(CancelIdleCheck(s)) /\ ~CancelIdleCheck(s).idle
         /\ IsStarted(CancelIdleCheck(s)) = IsStarted(s) /\ IsOpen(CancelIdleCheck(s)) = IsOpen(s)
PROOF
<1>1. CancelIdleCheck(s) =
        [state |-> s.state, backoff |-> s.backoff, idle |-> FALSE, token |-> s.token,
         late |-> s.late]
  <2>1. CancelIdleCheck(s) =
          [[state |-> s.state, backoff |-> s.backoff, idle |-> s.idle, token |-> s.token,
            late |-> s.late] EXCEPT !.idle = FALSE]
    BY StreamShape, Zenon DEF CancelIdleCheck, Matches
  <2>. QED
    BY <2>1
<1>. QED
  BY <1>1 DEF Matches, StreamRecord, TimersMatch, IsStarted, IsOpen

-----------------------------------------------------------------------------
(* A set of numbers has a least one. *)
LEMMA LeastNumber ==
  ASSUME NEW S \in SUBSET Nat, S # {}
  PROVE  \E x \in S : \A y \in S : x <= y
PROOF
<1>1. PICK x \in S : \A y \in S : ~(<<y, x>> \in OpToRel(<, Nat))
  BY NatLessThanWellFounded, WFMin
<1>2. ASSUME NEW a \in Nat, NEW b \in Nat, a < b
      PROVE  <<a, b>> \in OpToRel(<, Nat)
  BY <1>2, SMT DEF OpToRel
<1>3. \A y \in S : ~(y < x)
  BY <1>1, <1>2
<1>. QED
  BY <1>3

LEMMA MinIsLeast ==
  ASSUME NEW S \in SUBSET Nat, S # {}
  PROVE  Min(S) \in S /\ \A y \in S : Min(S) <= y
BY LeastNumber DEF Min

(* A set of numbers with a bound has a greatest one. *)
LEMMA MaxIsGreatest ==
  ASSUME NEW S \in SUBSET Nat, S # {}, NEW n \in Nat, \A x \in S : x <= n
  PROVE  Max(S) \in S /\ \A y \in S : y <= Max(S)
PROOF
<1>. DEFINE T == {n - x : x \in S}
<1>1. T \in SUBSET Nat /\ T # {}
  <2>1. \A x \in S : n - x \in Nat
    OBVIOUS
  <2>. QED
    BY <2>1
<1>2. PICK z \in T : \A y \in T : z <= y
  BY <1>1, LeastNumber
<1>3. PICK x \in S : z = n - x
  OBVIOUS
<1>4. \A y \in S : n - x <= n - y
  BY <1>2, <1>3
<1>5. \A y \in S : y <= x
  BY <1>4
<1>6. \E m \in S : \A y \in S : m >= y
  BY <1>5
<1>. QED
  BY <1>6 DEF Max

(* SetToSeq lists the members of a finite set, SetToSeqs does so in every  *)
(* order.                                                                  *)
LEMMA SetToSeqMembers ==
  ASSUME NEW S, IsFiniteSet(S)
  PROVE  /\ SetToSeq(S) \in Seq(S)
         /\ \A x \in S : \E i \in DOMAIN SetToSeq(S) : SetToSeq(S)[i] = x
PROOF
<1>. DEFINE n == Cardinality(S)
<1>1. n \in Nat /\ ExistsBijection(1..n, S)
  BY FS_CardinalityType
<1>2. PICK f \in [1..n -> S] : IsInjective(f)
  BY <1>1 DEF ExistsBijection, Bijection, Injection
<1>3. SetToSeq(S) \in [1..n -> S] /\ IsInjective(SetToSeq(S))
  BY <1>2 DEF SetToSeq
<1>4. SetToSeq(S) \in Seq(S) /\ DOMAIN SetToSeq(S) = 1..n
  BY <1>1, <1>3
<1>5. SetToSeq(S) \in Injection(1..n, S)
  BY <1>3 DEF Injection
<1>6. IsFiniteSet(1..n) /\ Cardinality(1..n) = n
  BY <1>1, FS_Interval
<1>7. SetToSeq(S) \in Surjection(1..n, S)
  BY <1>5, <1>6, FS_Injection
<1>. QED
  BY <1>4, <1>7 DEF Surjection

LEMMA SetToSeqsMembers ==
  ASSUME NEW S, IsFiniteSet(S), NEW ts \in SetToSeqs(S)
  PROVE  /\ ts \in Seq(S) /\ Range(ts) = S
         /\ \A i, j \in DOMAIN ts : ts[i] = ts[j] => i = j
PROOF
<1>. DEFINE n == Cardinality(S)
<1>1. n \in Nat
  BY FS_CardinalityType
<1>2. ts \in [1..n -> S] /\ \A i, j \in 1..n : i # j => ts[i] # ts[j]
  BY DEF SetToSeqs
<1>3. ts \in Injection(1..n, S)
  BY <1>2 DEF Injection, IsInjective
<1>4. IsFiniteSet(1..n) /\ Cardinality(1..n) = n
  BY <1>1, FS_Interval
<1>5. ts \in Surjection(1..n, S)
  BY <1>3, <1>4, FS_Injection
<1>6. Range(ts) = S
  BY <1>2, <1>5 DEF Surjection, Range
<1>. QED
  BY <1>1, <1>2, <1>6

(* Positions of a list that move by one with its first member. *)
LEMMA TailPositions ==
  ASSUME NEW T, NEW q \in Seq(T), q # <<>>
  PROVE  /\ Head(q) = q[1] /\ q[1] \in T /\ Tail(q) \in Seq(T) /\ Len(q) \in Nat
         /\ DOMAIN q = 1..Len(q) /\ DOMAIN Tail(q) = 1..(Len(q) - 1) /\ 1 \in DOMAIN q
         /\ Len(Tail(q)) = Len(q) - 1
         /\ \A i \in DOMAIN Tail(q) : Tail(q)[i] = q[i + 1] /\ i + 1 \in DOMAIN q
         /\ \A i \in DOMAIN q : i # 1 => i - 1 \in DOMAIN Tail(q) /\ Tail(q)[i - 1] = q[i]
OBVIOUS

LEMMA ConcatPositions ==
  ASSUME NEW T, NEW p \in Seq(T), NEW q \in Seq(T)
  PROVE  /\ p \o q \in Seq(T) /\ Len(p \o q) = Len(p) + Len(q)
         /\ Len(p) \in Nat /\ Len(q) \in Nat
         /\ DOMAIN p = 1..Len(p) /\ DOMAIN q = 1..Len(q)
         /\ DOMAIN (p \o q) = 1..(Len(p) + Len(q))
         /\ \A i \in DOMAIN p : i \in DOMAIN (p \o q) /\ (p \o q)[i] = p[i]
         /\ \A i \in DOMAIN q : Len(p) + i \in DOMAIN (p \o q) /\ (p \o q)[Len(p) + i] = q[i]
         /\ \A i \in DOMAIN (p \o q) : i \in DOMAIN p \/ i - Len(p) \in DOMAIN q
OBVIOUS
=============================================================================

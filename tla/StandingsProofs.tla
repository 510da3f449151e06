--------------------------- MODULE StandingsProofs ---------------------------
(***************************************************************************)
(* Standings keeps its tables whole and its alerts true, for every league, *)
(* every number of calls in flight and every way the app is ended.         *)
(***************************************************************************)
EXTENDS Standings, TLAPS

Table == [Team -> Record]

(* What memory and the user defaults hold. *)
Held == [Team -> Record \cup {NoRecord}]

Alert == [record : Record, winning : BOOLEAN, from : Record, late : BOOLEAN]

Phase == {"idle", "sent", "answered", "pools", "running"}

(* The loop that is running has these fields. *)
isLoop(m) ==
  /\ m = [call |-> m.call, table |-> m.table, left |-> m.left, team |-> m.team,
          order |-> m.order, poolRankings |-> m.poolRankings, late |-> m.late,
          before |-> m.before]
  /\ m.call \in Request /\ m.left \in SUBSET Team /\ m.team \in Team \cup {NoTeam}
  /\ m.late \in BOOLEAN

Types ==
  /\ played \in Seq(Table) /\ Len(played) >= 1
  /\ app \in {"closed", "background", "inactive", "active"}
  /\ request \in [Request -> [phase : Phase, table : Nat]]
  /\ main = noLoop \/ isLoop(main)
  /\ idToTeam \in Held
  /\ saved \in Held
  /\ teamAlert \in [Team -> Alert \cup {NoAlert}]
  /\ torn \in BOOLEAN
  /\ newest \in 0..Len(played)

(* The answers that wait are tables of the league. *)
AnswersAreReal ==
  \A r \in Request :
    request[r].phase \in {"answered", "pools"} => request[r].table \in 1..Len(played)

(* Records only grow. *)
AtMost(a, b) == a.wins <= b.wins /\ a.losses <= b.losses

LeagueGrows ==
  \A i, j \in 1..Len(played) : i <= j => \A t \in Team : AtMost(played[i][t], played[j][t])

(* An app that is closed does nothing; one that is not has saved what it   *)
(* holds.                                                                  *)
SavedIsHeld ==
  IF app = "closed"
  THEN main = noLoop /\ \A r \in Request : request[r] = noCall
  ELSE saved = idToTeam

(* A table of the league, or nothing. *)
Real(table) ==
  \/ \A t \in Team : table[t] = NoRecord
  \/ \E i \in 1..Len(played) : table = played[i]

SavedIsReal == main = noLoop /\ ~torn => Real(saved)

(* The loop works through a table, the latest one that was applied unless  *)
(* it is late; what is behind it holds the records of that table.          *)
LoopIsSound ==
  main # noLoop =>
    /\ \E k \in 1..newest : main.table = played[k] /\ (~main.late => k = newest)
    /\ \A t \in Team : t \notin main.left /\ t # main.team => idToTeam[t] = main.table[t]

(* No record is newer than the latest table that was applied. *)
Known(table) ==
  \A t \in Team : table[t] # NoRecord => \E i \in 1..newest : table[t] = played[i][t]

RecordsAreKnown == Known(idToTeam) /\ Known(saved)

(* What the loop is about to change has been announced. *)
NewsIsOut ==
  main # noLoop /\ main.team # NoTeam /\ isNews(main.team) =>
    /\ teamAlert[main.team] # NoAlert
    /\ teamAlert[main.team].record = main.table[main.team]

IInv ==
  /\ Types
  /\ AnswersAreReal
  /\ LeagueGrows
  /\ SavedIsHeld
  /\ SavedIsReal
  /\ LoopIsSound
  /\ RecordsAreKnown
  /\ AlertIsTrue
  /\ NewsIsOut

-----------------------------------------------------------------------------
(* noLoop is not a loop. *)
LEMMA NoLoopFacts == ASSUME NEW m, isLoop(m) PROVE m # noLoop
  <1>1. "table" \in DOMAIN m
    BY DEF isLoop
  <1>2. "table" \notin DOMAIN noLoop
    BY DEF noLoop
  <1> QED BY <1>1, <1>2

LEMMA GetPoolsLoop ==
  ASSUME Types, NEW r \in Request, getPools(r)
  PROVE  isLoop(main')
  BY DEF getPools, isLoop, Types

LEMMA NotifyTeamLoop ==
  ASSUME Types, NEW t \in Team, notifyTeam(t)
  PROVE  /\ isLoop(main') /\ isLoop(main)
         /\ main'.team = t /\ main'.left = main.left \ {t}
         /\ main'.table = main.table /\ main'.late = main.late
         /\ main'.order = main.order
  BY DEF notifyTeam, isLoop, Types

LEMMA UpdateTeamLoop ==
  ASSUME Types, updateTeamWithId
  PROVE  /\ isLoop(main') /\ isLoop(main)
         /\ main'.team = NoTeam /\ main'.left = main.left
         /\ main'.table = main.table /\ main'.late = main.late
         /\ main'.order = main.order
  BY DEF updateTeamWithId, isLoop, Types

(* How the loop changes. *)
LEMMA MainStep ==
  ASSUME Types, [Next]_vars
  PROVE  \/ main' = main
         \/ \E r \in Request : getPools(r)
         \/ \E t \in Team : notifyTeam(t)
         \/ updateTeamWithId
         \/ notifyRanks
         \/ Terminated
  BY DEF Next, vars, callers, tables, shownAlerts, history, GamePlayed, didFinishLaunching,
         didBecomeActive, timerFired, handleAppRefresh, Answer, Callback, RequestFailed,
         Response, Loop, willResignActive, didEnterBackground, logOutPressed, logIn

(* The table after a game. *)
LEMMA NextTable ==
  ASSUME NEW last \in Table, NEW t \in Team, NEW u \in Team, t # u
  PROVE  LET next == [last EXCEPT ![t].wins = @ + 1, ![u].losses = @ + 1]
         IN  /\ next \in Table
             /\ \A v \in Team : AtMost(last[v], next[v])
  <1> DEFINE next == [last EXCEPT ![t].wins = @ + 1, ![u].losses = @ + 1]
             won == [last[t] EXCEPT !.wins = @ + 1]
             lost == [last[u] EXCEPT !.losses = @ + 1]
  <1>1. \A v \in Team : last[v] \in Record
    BY DEF Table
  <1>2. /\ won \in Record /\ won.wins = last[t].wins + 1 /\ won.losses = last[t].losses
        /\ lost \in Record /\ lost.wins = last[u].wins /\ lost.losses = last[u].losses + 1
    BY <1>1 DEF Record
  <1>3. \A v \in Team : next[v] = IF v = t THEN won ELSE IF v = u THEN lost ELSE last[v]
    BY DEF Table
  <1>4. DOMAIN next = Team /\ next = [v \in Team |-> next[v]]
    BY DEF Table
  <1> HIDE DEF next, won, lost
  <1>5. next \in Table
    BY <1>1, <1>2, <1>3, <1>4 DEF Table
  <1>6. \A a \in Record : AtMost(a, a)
    BY DEF Record, AtMost
  <1>7. AtMost(last[t], won) /\ AtMost(last[u], lost)
    BY <1>1, <1>2 DEF AtMost, Record
  <1>8. \A v \in Team : AtMost(last[v], next[v])
    BY <1>1, <1>3, <1>6, <1>7
  <1> QED BY <1>5, <1>8 DEF next

LEMMA GamePlayedFacts ==
  ASSUME Types, NEW t \in Team, NEW u \in Team, GamePlayed(t, u)
  PROVE  /\ played' \in Seq(Table) /\ Len(played') = Len(played) + 1
         /\ \A i \in 1..Len(played) : played'[i] = played[i]
         /\ \A v \in Team : AtMost(played[Len(played)][v], played'[Len(played')][v])
  <1> DEFINE last == played[Len(played)]
             next == [last EXCEPT ![t].wins = @ + 1, ![u].losses = @ + 1]
  <1>1. last \in Table /\ t # u
    BY DEF Types, GamePlayed
  <1>2. next \in Table
    BY <1>1, NextTable
  <1>3. \A v \in Team : AtMost(last[v], next[v])
    BY <1>1, NextTable
  <1>4. played' = Append(played, next)
    BY DEF GamePlayed
  <1> HIDE DEF next, last
  <1>5. played \in Seq(Table) /\ Len(played) \in Nat
    BY DEF Types
  <1>6. /\ Append(played, next) \in Seq(Table)
        /\ Len(Append(played, next)) = Len(played) + 1
        /\ \A i \in 1..Len(played) : Append(played, next)[i] = played[i]
        /\ Append(played, next)[Len(played) + 1] = next
    BY <1>2, <1>5
  <1> QED BY <1>3, <1>4, <1>6 DEF last

(* How the league changes. *)
LEMMA PlayedStep ==
  ASSUME Types, [Next]_vars
  PROVE  \/ played' = played
         \/ \E t, u \in Team : GamePlayed(t, u)
  BY DEF Next, vars, callers, tables, shownAlerts, history, didFinishLaunching,
         didBecomeActive, timerFired, handleAppRefresh, Answer, Callback, RequestFailed,
         Response, getPools, Loop, notifyTeam, updateTeamWithId, notifyRanks,
         willResignActive, didEnterBackground, Terminated, logOutPressed, logIn

(* Its earlier tables stay. *)
LEMMA PlayedStays ==
  ASSUME Types, [Next]_vars
  PROVE  /\ played' \in Seq(Table) /\ Len(played) \in Nat /\ Len(played') \in Nat
         /\ Len(played) >= 1 /\ Len(played') >= Len(played)
         /\ \A i \in 1..Len(played) : i \in 1..Len(played') /\ played'[i] = played[i]
  <1>1. played \in Seq(Table) /\ Len(played) \in Nat /\ Len(played) >= 1
    BY DEF Types
  <1>2. CASE played' = played
    BY <1>1, <1>2
  <1>3. ASSUME NEW t \in Team, NEW u \in Team, GamePlayed(t, u) PROVE Len(played') \in Nat
    <2>1. played' \in Seq(Table)
      BY <1>3, GamePlayedFacts
    <2> QED BY <2>1
  <1>4. CASE \E t, u \in Team : GamePlayed(t, u)
    <2> DEFINE n == Len(played')
    <2>1. /\ played' \in Seq(Table) /\ n = Len(played) + 1 /\ n \in Nat
          /\ \A i \in 1..Len(played) : played'[i] = played[i]
      BY <1>3, <1>4, GamePlayedFacts
    <2> HIDE DEF n
    <2>2. \A i \in 1..Len(played) : i \in 1..n
      BY <1>1, <2>1
    <2> QED BY <1>1, <2>1, <2>2 DEF n
  <1> QED BY <1>2, <1>4, PlayedStep

-----------------------------------------------------------------------------
(* How what is held and saved changes. *)
LEMMA TablesStep ==
  ASSUME Types, [Next]_vars
  PROVE  \/ idToTeam' = idToTeam /\ saved' = saved
         \/ \E r \in Request : didFinishLaunching(r)
         \/ updateTeamWithId
         \/ Terminated
  BY DEF Next, vars, callers, tables, shownAlerts, history, GamePlayed,
         didBecomeActive, timerFired, handleAppRefresh, Answer, Callback, RequestFailed,
         Response, getPools, Loop, notifyTeam, notifyRanks, willResignActive,
         didEnterBackground, logOutPressed, logIn

(* How the latest table applied changes. *)
LEMMA NewestStep ==
  ASSUME Types, [Next]_vars
  PROVE  newest' = newest \/ \E r \in Request : getPools(r)
  BY DEF Next, vars, callers, tables, shownAlerts, history, GamePlayed, didFinishLaunching,
         didBecomeActive, timerFired, handleAppRefresh, Answer, Callback, RequestFailed,
         Response, Loop, notifyTeam, updateTeamWithId, notifyRanks, willResignActive,
         didEnterBackground, Terminated, logOutPressed, logIn

(* How a call goes on. *)
LEMMA RequestStep ==
  ASSUME Types, [Next]_vars
  PROVE  \/ request' = request
         \/ \E r \in Request : getStandings(r) /\ app' # "closed"
         \/ \E r \in Request : Answer(r)
         \/ \E r \in Request : RequestFailed(r) \/ Response(r) \/ getPools(r)
         \/ notifyRanks
         \/ Terminated
  BY DEF Next, vars, callers, tables, shownAlerts, history, GamePlayed, didFinishLaunching,
         didBecomeActive, timerFired, handleAppRefresh, Callback,
         Loop, notifyTeam, updateTeamWithId, willResignActive,
         didEnterBackground, logOutPressed, logIn

(* How the alerts of teams change. *)
LEMMA TeamAlertStep ==
  ASSUME Types, [Next]_vars
  PROVE  teamAlert' = teamAlert \/ \E t \in Team : notifyTeam(t)
  BY DEF Next, vars, callers, tables, shownAlerts, history, GamePlayed, didFinishLaunching,
         didBecomeActive, timerFired, handleAppRefresh, Answer, Callback, RequestFailed,
         Response, getPools, Loop, updateTeamWithId, notifyRanks, willResignActive,
         didEnterBackground, Terminated, logOutPressed, logIn

(* The table of a loop is a table. *)
LEMMA LoopTable ==
  ASSUME Types, LoopIsSound, main # noLoop
  PROVE  main.table \in Table /\ isLoop(main)
  <1>1. PICK k \in 1..newest : main.table = played[k]
    BY DEF LoopIsSound
  <1>2. k \in 1..Len(played)
    BY DEF Types
  <1> QED BY <1>1, <1>2 DEF Types

(* A step keeps the kinds of the variables. *)
LEMMA RequestType ==
  ASSUME Types, [Next]_vars
  PROVE  request' \in [Request -> [phase : Phase, table : Nat]]
  <1> DEFINE Calls == [phase : Phase, table : Nat]
  <1>1. request \in [Request -> Calls] /\ Len(played) \in Nat
    BY DEF Types
  <1>2. noCall \in Calls
    BY DEF noCall, Phase
  <1>3. \A r \in Request : getStandings(r) => request' \in [Request -> Calls]
    BY <1>1 DEF getStandings, Phase
  <1>4. \A r \in Request : Answer(r) => request' \in [Request -> Calls]
    BY <1>1 DEF Answer, Phase
  <1>5. \A r \in Request : RequestFailed(r) => request' \in [Request -> Calls]
    BY <1>1, <1>2 DEF RequestFailed
  <1>6. \A r \in Request : [request[r] EXCEPT !.phase = "pools"] \in Calls
    BY <1>1 DEF Phase
  <1>7. \A r \in Request : Response(r) => request' \in [Request -> Calls]
    BY <1>1, <1>2, <1>6 DEF Response
  <1>8. \A r \in Request : [request[r] EXCEPT !.phase = "running"] \in Calls
    BY <1>1 DEF Phase
  <1>9. \A r \in Request : getPools(r) => request' \in [Request -> Calls]
    BY <1>1, <1>8 DEF getPools
  <1>10. notifyRanks => request' \in [Request -> Calls]
    BY <1>1, <1>2 DEF notifyRanks, completed
  <1>11. Terminated => request' \in [Request -> Calls]
    BY <1>2 DEF Terminated
  <1> HIDE DEF Calls
  <1>12. request' \in [Request -> Calls]
    BY <1>1, <1>3, <1>4, <1>5, <1>7, <1>9, <1>10, <1>11, RequestStep
  <1> QED BY <1>12 DEF Calls

LEMMA TypesStep ==
  ASSUME Types, LoopIsSound, AnswersAreReal, [Next]_vars
  PROVE  Types'
  <1>1. played' \in Seq(Table) /\ Len(played') >= 1
    BY PlayedStays
  <1>2. app' \in {"closed", "background", "inactive", "active"}
    BY DEF Types, Next, vars, callers, tables, shownAlerts, history, GamePlayed,
       didFinishLaunching, didBecomeActive, timerFired, handleAppRefresh, Answer, Callback,
       RequestFailed, Response, getPools, Loop, notifyTeam, updateTeamWithId, notifyRanks,
       willResignActive, didEnterBackground, Terminated, logOutPressed, logIn
  <1>3. main' = noLoop \/ isLoop(main')
    <2>1. notifyRanks \/ Terminated => main' = noLoop
      BY DEF notifyRanks, Terminated
    <2>2. main' = main => main' = noLoop \/ isLoop(main')
      BY DEF Types, isLoop
    <2> QED BY <2>1, <2>2, MainStep, GetPoolsLoop, NotifyTeamLoop, UpdateTeamLoop
  <1>4. idToTeam' \in Held /\ saved' \in Held
    <2>1. CASE idToTeam' = idToTeam /\ saved' = saved
      BY <2>1 DEF Types
    <2>2. CASE \E r \in Request : didFinishLaunching(r)
      BY <2>2 DEF Types, didFinishLaunching, loaded
    <2>3. CASE Terminated
      BY <2>3 DEF Types, Terminated, Held
    <2>4. CASE updateTeamWithId
      <3>1. main.table \in Table
        BY <2>4, LoopTable DEF updateTeamWithId
      <3>2. idToTeam' \in Held
        BY <2>4, <3>1 DEF updateTeamWithId, Types, Held, Table
      <3> QED BY <2>4, <3>2 DEF updateTeamWithId, Types
    <2> QED BY <2>1, <2>2, <2>3, <2>4, TablesStep
  <1>5. teamAlert' \in [Team -> Alert \cup {NoAlert}]
    <2>1. ASSUME NEW t \in Team, notifyTeam(t), isNews(t) PROVE newTeamAlert(t) \in Alert
      <3>1. main.table \in Table /\ main.late \in BOOLEAN
        BY <2>1, LoopTable DEF notifyTeam, isLoop
      <3>2. idToTeam[t] \in Record /\ main.table[t] \in Record
        BY <2>1, <3>1 DEF Types, Held, Table, isNews
      <3>3. isWinning(idToTeam[t], main.table[t]) \in BOOLEAN
        BY DEF isWinning
      <3> QED BY <3>1, <3>2, <3>3 DEF newTeamAlert, Alert
    <2>2. ASSUME NEW t \in Team, notifyTeam(t) PROVE teamAlert' \in [Team -> Alert \cup {NoAlert}]
      BY <2>1, <2>2 DEF Types, notifyTeam
    <2>3. CASE teamAlert' = teamAlert
      BY <2>3 DEF Types
    <2> QED BY <2>2, <2>3, TeamAlertStep
  <1>6. torn' \in BOOLEAN
    BY DEF Types, Next, vars, callers, tables, shownAlerts, history, GamePlayed,
       didFinishLaunching, didBecomeActive, timerFired, handleAppRefresh, Answer, Callback,
       RequestFailed, Response, getPools, Loop, notifyTeam, updateTeamWithId, notifyRanks,
       willResignActive, didEnterBackground, Terminated, logOutPressed, logIn
  <1>7. newest' \in 0..Len(played')
    <2> DEFINE n == Len(played')
    <2>1. n \in Nat /\ n >= Len(played) /\ Len(played) \in Nat /\ newest \in 0..Len(played)
      BY PlayedStays DEF Types
    <2>2. newest' \in 0..Len(played)
      <3>1. ASSUME NEW r \in Request, getPools(r) PROVE newest' \in 0..Len(played)
        <4>1. request[r].table \in 1..Len(played)
          BY <3>1 DEF getPools, AnswersAreReal
        <4> QED BY <2>1, <3>1, <4>1 DEF getPools
      <3> QED BY <2>1, <3>1, NewestStep
    <2> HIDE DEF n
    <2>3. newest' \in 0..n
      BY <2>1, <2>2
    <2> QED BY <2>3 DEF n
  <1> QED BY <1>1, <1>2, <1>3, <1>4, <1>5, <1>6, <1>7, RequestType DEF Types

-----------------------------------------------------------------------------
(* A step keeps the answers that wait tables of the league. *)
LEMMA AnswersStep ==
  ASSUME Types, AnswersAreReal, [Next]_vars
  PROVE  AnswersAreReal'
  <1> DEFINE waits == {"answered", "pools"}
             n == Len(played')
  <1>1. /\ n \in Nat /\ n >= Len(played) /\ Len(played) \in Nat /\ Len(played) >= 1
        /\ request \in [Request -> [phase : Phase, table : Nat]]
        /\ \A r \in Request : request[r].phase \in waits => request[r].table \in 1..Len(played)
    BY PlayedStays DEF Types, AnswersAreReal
  <1> HIDE DEF n
  <1> SUFFICES ASSUME NEW s \in Request, request'[s].phase \in waits
               PROVE  request'[s].table \in 1..n
    BY DEF AnswersAreReal, n
  <1>2. request[s].phase \in waits /\ request'[s].table = request[s].table
          => request'[s].table \in 1..n
    BY <1>1
  <1>3. CASE request' = request
    BY <1>2, <1>3
  <1>4. ASSUME NEW r \in Request, getStandings(r) PROVE request'[s] = request[s]
    <2>1. s # r
      BY <1>1, <1>4 DEF getStandings
    <2> QED BY <1>1, <1>4, <2>1 DEF getStandings
  <1>5. ASSUME NEW r \in Request, Answer(r)
        PROVE  request'[s] = request[s] \/ request'[s].table = Len(played)
    BY <1>1, <1>5 DEF Answer
  <1>6. ASSUME NEW r \in Request, RequestFailed(r) PROVE request'[s] = request[s]
    BY <1>1, <1>6 DEF RequestFailed, noCall
  <1>7. ASSUME NEW r \in Request, Response(r)
        PROVE  request'[s] = request[s] \/ (request[s].phase \in waits /\ request'[s].table = request[s].table)
    BY <1>1, <1>7 DEF Response, noCall
  <1>8. ASSUME NEW r \in Request, getPools(r) PROVE request'[s] = request[s]
    BY <1>1, <1>8 DEF getPools
  <1>9. CASE notifyRanks
    <2>1. request'[s] = request[s]
      BY <1>1, <1>9 DEF notifyRanks, completed, noCall
    <2> QED BY <1>2, <2>1
  <1>10. CASE Terminated
    BY <1>10 DEF Terminated, noCall
  <1>11. request'[s].table = Len(played) => request'[s].table \in 1..n
    BY <1>1
  <1> QED BY <1>2, <1>3, <1>4, <1>5, <1>6, <1>7, <1>8, <1>9, <1>10, <1>11, RequestStep

(* A game takes no win and no loss from anybody. *)
LEMMA LeagueStep ==
  ASSUME Types, LeagueGrows, [Next]_vars
  PROVE  LeagueGrows'
  <1>1. CASE played' = played
    BY <1>1 DEF LeagueGrows
  <1>2. ASSUME NEW w \in Team, NEW u \in Team, GamePlayed(w, u) PROVE LeagueGrows'
    <2> DEFINE n == Len(played')
    <2>1. /\ played' \in Seq(Table) /\ n = Len(played) + 1 /\ n \in Nat
          /\ \A i \in 1..Len(played) : played'[i] = played[i]
          /\ \A v \in Team : AtMost(played[Len(played)][v], played'[n][v])
      BY <1>2, GamePlayedFacts
    <2>2. Len(played) \in Nat /\ Len(played) >= 1 /\ played \in Seq(Table)
      BY DEF Types
    <2>3. \A i \in 1..n : i \in 1..Len(played) \/ i = n
      BY <2>1, <2>2
    <2> HIDE DEF n
    <2> SUFFICES ASSUME NEW i \in 1..n, NEW j \in 1..n, i <= j, NEW v \in Team
                 PROVE  AtMost(played'[i][v], played'[j][v])
      BY DEF LeagueGrows, n
    <2>4. \A k \in 1..n : played'[k] \in Table
      BY <2>1 DEF n
    <2>5. \A a \in Record : AtMost(a, a)
      BY DEF Record, AtMost
    <2>6. \A a, b, c \in Record : AtMost(a, b) /\ AtMost(b, c) => AtMost(a, c)
      BY DEF Record, AtMost
    <2>7. CASE i = n /\ j = n
      BY <2>4, <2>5, <2>7 DEF Table
    <2>8. CASE j # n
      <3>1. i \in 1..Len(played) /\ j \in 1..Len(played)
        BY <2>1, <2>2, <2>8
      <3> QED BY <2>1, <3>1 DEF LeagueGrows
    <2>9. CASE i # n /\ j = n
      <3>1. i \in 1..Len(played) /\ Len(played) \in 1..Len(played) /\ i <= Len(played)
        BY <2>1, <2>2, <2>9
      <3>2. AtMost(played[i][v], played[Len(played)][v])
        <4> DEFINE l == Len(played)
        <4>1. \A x, y \in 1..l : x <= y => AtMost(played[x][v], played[y][v])
          BY DEF LeagueGrows
        <4>2. i \in 1..l /\ l \in 1..l /\ i <= l
          BY <3>1
        <4> HIDE DEF l
        <4>3. AtMost(played[i][v], played[l][v])
          BY <4>1, <4>2
        <4> QED BY <4>3 DEF l
      <3>3. played[i][v] \in Record /\ played[Len(played)][v] \in Record /\ played'[n][v] \in Record
        <4> DEFINE l == Len(played)
        <4>1. \A x \in 1..l : played[x] \in Table
          BY <2>2
        <4>2. i \in 1..l /\ l \in 1..l
          BY <3>1
        <4> HIDE DEF l
        <4>3. played[i][v] \in Record /\ played[l][v] \in Record /\ played'[n][v] \in Record
          BY <2>4, <2>9, <4>1, <4>2 DEF Table
        <4> QED BY <4>3 DEF l
      <3> QED BY <2>1, <2>6, <2>9, <3>1, <3>2, <3>3
    <2> QED BY <2>7, <2>8, <2>9
  <1> QED BY <1>1, <1>2, PlayedStep

(* A step keeps what is held saved, and a closed app idle. *)
LEMMA SavedIsHeldStep ==
  ASSUME Types, SavedIsHeld, [Next]_vars
  PROVE  SavedIsHeld'
  <1>1. CASE app = "closed"
    <2>1. main = noLoop /\ \A r \in Request : request[r].phase = "idle"
      BY <1>1 DEF SavedIsHeld, noCall
    <2>2. \A r \in Request : didFinishLaunching(r) => SavedIsHeld'
      BY DEF didFinishLaunching, loaded, SavedIsHeld
    <2>3. \/ UNCHANGED <<app, main, request>>
          \/ \E r \in Request : didFinishLaunching(r)
      BY <1>1, <2>1 DEF Next, vars, callers, tables, shownAlerts, history, GamePlayed,
         didBecomeActive, timerFired, handleAppRefresh, Answer, Callback, RequestFailed,
         Response, getPools, Loop, notifyTeam, updateTeamWithId, notifyRanks,
         willResignActive, didEnterBackground, Terminated, logOutPressed, logIn
    <2> QED BY <1>1, <2>2, <2>3 DEF SavedIsHeld
  <1>2. CASE app # "closed"
    <2>1. saved = idToTeam
      BY <1>2 DEF SavedIsHeld
    <2>2. Terminated => SavedIsHeld'
      BY DEF Terminated, SavedIsHeld
    <2>3. (app' # "closed" /\ saved' = idToTeam') \/ Terminated
      BY <1>2, <2>1 DEF Next, vars, callers, tables, shownAlerts, history, GamePlayed,
         didFinishLaunching, didBecomeActive, timerFired, handleAppRefresh, Answer, Callback,
         RequestFailed, Response, getPools, Loop, notifyTeam, updateTeamWithId, notifyRanks,
         willResignActive, didEnterBackground, logOutPressed, logIn
    <2> QED BY <2>2, <2>3 DEF SavedIsHeld
  <1> QED BY <1>1, <1>2

(* A table of the league stays one. *)
LEMMA RealStays ==
  ASSUME Types, [Next]_vars, NEW f, Real(f)
  PROVE  \/ \A t \in Team : f[t] = NoRecord
         \/ \E i \in 1..Len(played') : f = played'[i]
  BY PlayedStays DEF Real

(* Where no loop runs and none was cut short, a table of the league is     *)
(* saved.                                                                  *)
LEMMA SavedIsRealStep ==
  ASSUME Types, SavedIsHeld, SavedIsReal, LoopIsSound, [Next]_vars
  PROVE  SavedIsReal'
  <1> SUFFICES ASSUME main' = noLoop, ~torn'
               PROVE  \/ \A t \in Team : saved'[t] = NoRecord
                      \/ \E i \in 1..Len(played') : saved' = played'[i]
    BY DEF SavedIsReal, Real
  <1>1. CASE main = noLoop
    <2>1. saved' = saved
      BY <1>1, TablesStep DEF updateTeamWithId, Terminated, didFinishLaunching
    <2>2. ~torn
      BY <1>1 DEF Next, vars, callers, tables, shownAlerts, history, GamePlayed,
         didFinishLaunching, didBecomeActive, timerFired, handleAppRefresh, Answer, Callback,
         RequestFailed, Response, getPools, Loop, notifyTeam, updateTeamWithId, notifyRanks,
         willResignActive, didEnterBackground, Terminated, logOutPressed, logIn
    <2>3. Real(saved)
      BY <1>1, <2>2 DEF SavedIsReal
    <2> QED BY <2>1, <2>3, RealStays
  <1>2. CASE main # noLoop
    <2>1. notifyRanks
      <3>1. ~Terminated
        BY <1>2 DEF Terminated
      <3> QED BY <1>2, <3>1, MainStep, GetPoolsLoop, NotifyTeamLoop, UpdateTeamLoop, NoLoopFacts
    <2>2. saved' = saved /\ main.left = {} /\ main.team = NoTeam
      BY <2>1 DEF notifyRanks, tables
    <2>3. saved = idToTeam
      BY <1>2 DEF SavedIsHeld
    <2>4. PICK k \in 1..newest : main.table = played[k]
      BY <1>2 DEF LoopIsSound
    <2>5. k \in 1..Len(played)
      BY DEF Types
    <2>6. main.table \in Table
      BY <1>2, LoopTable
    <2>7. \A t \in Team : idToTeam[t] = main.table[t]
      BY <1>2, <2>2, PoolAssumption DEF LoopIsSound
    <2>8. idToTeam = main.table
      BY <2>6, <2>7 DEF Types, Held, Table
    <2>9. Real(saved)
      BY <2>3, <2>4, <2>5, <2>8 DEF Real
    <2> QED BY <2>2, <2>9, RealStays
  <1> QED BY <1>1, <1>2

-----------------------------------------------------------------------------
(* The loop works on through one table of the league. *)
LEMMA LoopIsSoundStep ==
  ASSUME Types, AnswersAreReal, LoopIsSound, SavedIsHeld, [Next]_vars
  PROVE  LoopIsSound'
  <1> SUFFICES ASSUME main' # noLoop
               PROVE  /\ \E k \in 1..newest' : main'.table = played'[k] /\ (~main'.late => k = newest')
                      /\ \A t \in Team : t \notin main'.left /\ t # main'.team =>
                           idToTeam'[t] = main'.table[t]
    BY DEF LoopIsSound
  <1>0. /\ Len(played) \in Nat /\ newest \in 0..Len(played)
        /\ \A i \in 1..Len(played) : played'[i] = played[i]
    BY PlayedStays DEF Types
  <1>1. CASE \E r \in Request : getPools(r)
    <2>1. PICK r \in Request : getPools(r)
      BY <1>1
    <2> DEFINE k == request[r].table
    <2>2. k \in 1..Len(played)
      BY <2>1 DEF getPools, AnswersAreReal
    <2>3. main'.table = played[k] /\ main'.late = (k < newest) /\ main'.left = Team
      <3> DEFINE late == request[r].table < newest
      <3>1. PICK order, rankings :
              main' = [call |-> r, table |-> played[k], left |-> Team, team |-> NoTeam,
                       order |-> order, poolRankings |-> rankings, late |-> late,
                       before |-> idToTeam]
        BY <2>1, Zenon DEF getPools
      <3> HIDE DEF late
      <3>2. main'.table = played[k] /\ main'.late = late /\ main'.left = Team
        BY <3>1
      <3> QED BY <3>2 DEF late
    <2>4. newest' = IF k < newest THEN newest ELSE k
      BY <2>1 DEF getPools
    <2> HIDE DEF k
    <2>5. k \in 1..(IF k < newest THEN newest ELSE k)
      BY <1>0, <2>2
    <2>6. k \in 1..newest'
      BY <2>4, <2>5
    <2>7. ~main'.late => k = newest'
      BY <2>3, <2>4
    <2>8. main'.table = played'[k]
      BY <1>0, <2>2, <2>3
    <2> QED BY <2>3, <2>6, <2>7, <2>8
  <1>2. ASSUME main # noLoop, newest' = newest, main'.table = main.table, main'.late = main.late
        PROVE  \E k \in 1..newest' : main'.table = played'[k] /\ (~main'.late => k = newest')
    <2>1. PICK k \in 1..newest : main.table = played[k] /\ (~main.late => k = newest)
      BY <1>2 DEF LoopIsSound
    <2>2. k \in 1..Len(played)
      BY <1>0
    <2> QED BY <1>0, <1>2, <2>1, <2>2
  <1>3. CASE main' = main /\ ~(\E r \in Request : getPools(r))
    <2>1. newest' = newest /\ main # noLoop
      BY <1>3, NewestStep
    <2>2. ~updateTeamWithId
      <3> SUFFICES ASSUME updateTeamWithId PROVE FALSE
        OBVIOUS
      <3>1. main.team # NoTeam /\ main'.team = NoTeam
        BY UpdateTeamLoop DEF updateTeamWithId
      <3> QED BY <1>3, <3>1
    <2>3. ~Terminated
      BY DEF Terminated
    <2>4. \A r \in Request : ~didFinishLaunching(r)
      BY <1>3 DEF didFinishLaunching, SavedIsHeld
    <2>5. idToTeam' = idToTeam
      BY <2>2, <2>3, <2>4, TablesStep
    <2>6. \A t \in Team : t \notin main.left /\ t # main.team => idToTeam[t] = main.table[t]
      BY <1>3 DEF LoopIsSound
    <2> QED BY <1>2, <1>3, <2>1, <2>5, <2>6
  <1>4. ASSUME NEW t \in Team, notifyTeam(t) PROVE LoopIsSound'
    <2>1. /\ main # noLoop /\ main.team = NoTeam /\ main'.team = t /\ main'.left = main.left \ {t}
          /\ main'.table = main.table /\ main'.late = main.late
      BY <1>4, NotifyTeamLoop DEF notifyTeam
    <2>2. newest' = newest /\ idToTeam' = idToTeam
      BY <1>4 DEF notifyTeam, history, tables
    <2>3. \A u \in Team : u \notin main.left => u # NoTeam /\ idToTeam[u] = main.table[u]
      BY <2>1, PoolAssumption DEF LoopIsSound
    <2> QED BY <1>2, <2>1, <2>2, <2>3 DEF LoopIsSound
  <1>5. CASE updateTeamWithId
    <2>1. /\ main # noLoop /\ main.team # NoTeam /\ main'.team = NoTeam /\ main'.left = main.left
          /\ main'.table = main.table /\ main'.late = main.late
      BY <1>5, UpdateTeamLoop DEF updateTeamWithId
    <2>2. newest' = newest /\ \A u \in Team : idToTeam'[u] = IF u = main.team THEN main.table[u] ELSE idToTeam[u]
      BY <1>5 DEF updateTeamWithId, history, changes, Types, Held
    <2>3. \A u \in Team : u \notin main.left /\ u # main.team => idToTeam[u] = main.table[u]
      BY <2>1 DEF LoopIsSound
    <2> QED BY <1>2, <2>1, <2>2, <2>3
  <1>6. ~notifyRanks /\ ~Terminated
    BY DEF notifyRanks, Terminated
  <1> QED BY <1>1, <1>3, <1>4, <1>5, <1>6, MainStep DEF LoopIsSound

(* What is known of a table stays known. *)
LEMMA KnownStays ==
  ASSUME Types, AnswersAreReal, [Next]_vars, NEW f, Known(f)
  PROVE  \A t \in Team : f[t] # NoRecord => \E i \in 1..newest' : f[t] = played'[i][t]
  <1>1. /\ Len(played) \in Nat /\ newest \in 0..Len(played)
        /\ \A i \in 1..Len(played) : played'[i] = played[i]
    BY PlayedStays DEF Types
  <1>2. newest' \in Nat /\ newest' >= newest
    <2>1. ASSUME NEW r \in Request, getPools(r) PROVE newest' \in Nat /\ newest' >= newest
      <3>1. request[r].table \in 1..Len(played)
        BY <2>1 DEF getPools, AnswersAreReal
      <3> QED BY <1>1, <2>1, <3>1 DEF getPools
    <2> QED BY <1>1, <2>1, NewestStep
  <1> DEFINE m == newest'
  <1>3. m \in Nat /\ m >= newest
    BY <1>2
  <1> HIDE DEF m
  <1> SUFFICES ASSUME NEW t \in Team, f[t] # NoRecord PROVE \E i \in 1..m : f[t] = played'[i][t]
    BY DEF m
  <1>4. PICK i \in 1..newest : f[t] = played[i][t]
    BY DEF Known
  <1>5. i \in 1..m /\ i \in 1..Len(played)
    BY <1>1, <1>3
  <1> QED BY <1>1, <1>4, <1>5

LEMMA RecordsStep ==
  ASSUME Types, AnswersAreReal, LoopIsSound, RecordsAreKnown, [Next]_vars
  PROVE  RecordsAreKnown'
  <1> DEFINE KnownThen(f) == \A t \in Team : f[t] # NoRecord => \E i \in 1..newest' : f[t] = played'[i][t]
  <1> SUFFICES KnownThen(idToTeam') /\ KnownThen(saved')
    BY DEF RecordsAreKnown, Known
  <1>1. KnownThen(idToTeam) /\ KnownThen(saved)
    BY KnownStays DEF RecordsAreKnown
  <1>2. CASE idToTeam' = idToTeam /\ saved' = saved
    BY <1>1, <1>2
  <1>3. CASE \E r \in Request : didFinishLaunching(r)
    BY <1>1, <1>3 DEF didFinishLaunching, loaded
  <1>4. CASE Terminated
    <2>1. \A t \in Team : idToTeam'[t] = NoRecord
      BY <1>4 DEF Terminated
    <2> QED BY <1>1, <1>4, <2>1 DEF Terminated
  <1>5. CASE updateTeamWithId
    <2>1. main # noLoop /\ \A u \in Team : idToTeam'[u] = IF u = main.team THEN main.table[u] ELSE idToTeam[u]
      BY <1>5 DEF updateTeamWithId, changes, Types, Held
    <2>2. PICK k \in 1..newest : main.table = played[k]
      BY <2>1 DEF LoopIsSound
    <2>3. Known(main.table)
      BY <2>2 DEF Known
    <2>4. KnownThen(main.table)
      BY <2>3, KnownStays
    <2>5. KnownThen(idToTeam')
      BY <1>1, <2>1, <2>4
    <2>6. saved' = idToTeam' \/ saved' = saved
      BY <1>5 DEF updateTeamWithId
    <2> QED BY <1>1, <2>5, <2>6
  <1> QED BY <1>2, <1>3, <1>4, <1>5, TablesStep

-----------------------------------------------------------------------------
(* Where a record only grows and is not the same, what newTeamAlert says   *)
(* is true.                                                                *)
LEMMA GrowthIsTold ==
  ASSUME NEW a \in Record, NEW b \in Record, AtMost(a, b), a # b
  PROVE  IF isWinning(a, b) THEN b.wins > a.wins ELSE b.losses > a.losses
  <1>1. /\ a.wins \in Nat /\ a.losses \in Nat /\ b.wins \in Nat /\ b.losses \in Nat
        /\ a = [wins |-> a.wins, losses |-> a.losses] /\ b = [wins |-> b.wins, losses |-> b.losses]
    BY DEF Record
  <1>2. a.wins # b.wins \/ a.losses # b.losses
    BY <1>1
  <1>3. a.wins <= b.wins /\ a.losses <= b.losses
    BY DEF AtMost
  <1> QED BY <1>1, <1>2, <1>3 DEF isWinning

(* A record that is known is at most that of a table which is not late.    *)
LEMMA NewsGrows ==
  ASSUME IInv, main # noLoop, ~main.late, NEW t \in Team, idToTeam[t] # NoRecord
  PROVE  /\ idToTeam[t] \in Record /\ main.table[t] \in Record
         /\ AtMost(idToTeam[t], main.table[t])
  <1>1. PICK k \in 1..newest : main.table = played[k] /\ (~main.late => k = newest)
    BY DEF IInv, LoopIsSound
  <1>2. PICK i \in 1..newest : idToTeam[t] = played[i][t]
    BY DEF IInv, RecordsAreKnown, Known
  <1>3. i \in 1..Len(played) /\ k \in 1..Len(played) /\ i <= k
    BY <1>1 DEF IInv, Types
  <1>4. AtMost(played[i][t], played[k][t])
    BY <1>3 DEF IInv, LeagueGrows
  <1>5. main.table \in Table
    BY LoopTable DEF IInv
  <1>6. idToTeam[t] \in Record
    BY DEF IInv, Types, Held
  <1> QED BY <1>1, <1>2, <1>4, <1>5, <1>6 DEF Table

(* An alert that is added is true. *)
LEMMA AlertStep == ASSUME IInv, [Next]_vars PROVE AlertIsTrue'
  <1> SUFFICES ASSUME NEW t \in Team, teamAlert'[t] # NoAlert, ~teamAlert'[t].late
               PROVE  saysTheTruth(teamAlert'[t])
    BY DEF AlertIsTrue, saysTheTruth
  <1>1. CASE teamAlert'[t] = teamAlert[t]
    BY <1>1 DEF IInv, AlertIsTrue
  <1>2. CASE teamAlert'[t] # teamAlert[t]
    <2>1. PICK u \in Team : notifyTeam(u)
      BY <1>2, TeamAlertStep DEF IInv
    <2>2. isNews(t) /\ teamAlert'[t] = newTeamAlert(t) /\ main # noLoop
      BY <1>2, <2>1 DEF notifyTeam, IInv, Types
    <2> DEFINE a == idToTeam[t]
               b == main.table[t]
    <2>3. /\ teamAlert'[t].record = b /\ teamAlert'[t].from = a /\ teamAlert'[t].late = main.late
          /\ teamAlert'[t].winning = isWinning(a, b)
      <3> DEFINE w == isWinning(a, b)
      <3>1. teamAlert'[t] = [record |-> b, winning |-> w, from |-> a, late |-> main.late]
        BY <2>2, Zenon DEF newTeamAlert
      <3> HIDE DEF w
      <3>2. /\ teamAlert'[t].record = b /\ teamAlert'[t].from = a
            /\ teamAlert'[t].late = main.late /\ teamAlert'[t].winning = w
        BY <3>1
      <3> QED BY <3>2 DEF w
    <2>4. a # NoRecord /\ a # b
      BY <2>2 DEF isNews
    <2>5. a \in Record /\ b \in Record /\ AtMost(a, b)
      BY <2>2, <2>3, <2>4, NewsGrows
    <2> HIDE DEF a, b
    <2>6. IF isWinning(a, b) THEN b.wins > a.wins ELSE b.losses > a.losses
      BY <2>4, <2>5, GrowthIsTold
    <2> QED BY <2>3, <2>6 DEF saysTheTruth
  <1> QED BY <1>1, <1>2

(* An alert is not the absence of one. *)
LEMMA AlertIsOne ==
  ASSUME Types, LoopIsSound, NEW t \in Team, main # noLoop, isNews(t)
  PROVE  newTeamAlert(t) # NoAlert
  <1>1. main.table \in Table /\ main.late \in BOOLEAN
    BY LoopTable DEF isLoop
  <1>2. idToTeam[t] \in Record /\ main.table[t] \in Record
    BY <1>1 DEF Types, Held, Table, isNews
  <1>3. isWinning(idToTeam[t], main.table[t]) \in BOOLEAN
    BY DEF isWinning
  <1>4. newTeamAlert(t) \in Alert
    BY <1>1, <1>2, <1>3 DEF newTeamAlert, Alert
  <1> QED BY <1>4, StandingsAssumption DEF Alert

(* isNews after a step. *)
NewsAfter(t) ==
  /\ idToTeam'[t] # NoRecord
  /\ idToTeam'[t] # main'.table[t]
  /\ \E p \in DOMAIN main'.order : t \in teamsForMember(p, me)

(* What the loop is about to change has been announced. *)
LEMMA NewsStep == ASSUME IInv, [Next]_vars PROVE NewsIsOut'
  <1> SUFFICES ASSUME main' # noLoop, main'.team # NoTeam, NewsAfter(main'.team)
               PROVE  /\ teamAlert'[main'.team] # NoAlert
                      /\ teamAlert'[main'.team].record = main'.table[main'.team]
    BY DEF NewsIsOut, isNews, NewsAfter, completePools
  <1>1. CASE \E r \in Request : getPools(r)
    <2>1. main'.team = NoTeam
      BY <1>1 DEF getPools
    <2> QED BY <2>1
  <1>2. CASE main' = main /\ idToTeam' = idToTeam
    <2>1. isNews(main.team)
      BY <1>2 DEF isNews, NewsAfter, completePools
    <2>2. \A t \in Team : ~notifyTeam(t)
      <3> SUFFICES ASSUME NEW t \in Team, notifyTeam(t) PROVE FALSE
        OBVIOUS
      <3>1. main.team = NoTeam
        BY DEF notifyTeam
      <3> QED BY <1>2, <3>1
    <2>3. teamAlert' = teamAlert
      BY <2>2, TeamAlertStep DEF IInv
    <2> QED BY <1>2, <2>1, <2>3 DEF IInv, NewsIsOut
  <1>3. ASSUME NEW t \in Team, notifyTeam(t)
        PROVE  /\ teamAlert'[main'.team] # NoAlert
               /\ teamAlert'[main'.team].record = main'.table[main'.team]
    <2>1. /\ main # noLoop /\ main'.team = t /\ main'.table = main.table
          /\ main'.order = main.order
      BY <1>3, NotifyTeamLoop DEF notifyTeam, IInv
    <2>2. idToTeam' = idToTeam
      BY <1>3 DEF notifyTeam, tables
    <2>3. isNews(t)
      BY <2>1, <2>2 DEF isNews, NewsAfter, completePools
    <2>4. teamAlert'[t] = newTeamAlert(t)
      BY <1>3, <2>3 DEF notifyTeam, IInv, Types
    <2>5. newTeamAlert(t) # NoAlert /\ newTeamAlert(t).record = main.table[t]
      BY <2>1, <2>3, AlertIsOne DEF IInv, newTeamAlert
    <2> QED BY <2>1, <2>4, <2>5
  <1>4. CASE updateTeamWithId
    <2>1. main'.team = NoTeam
      BY <1>4, UpdateTeamLoop DEF IInv
    <2> QED BY <2>1
  <1>5. ~notifyRanks /\ ~Terminated
    BY DEF notifyRanks, Terminated
  <1>6. CASE main' = main /\ idToTeam' # idToTeam
    <2>1. \E r \in Request : didFinishLaunching(r)
      <3>1. ~updateTeamWithId
        <4> SUFFICES ASSUME updateTeamWithId PROVE FALSE
          OBVIOUS
        <4>1. main'.team = NoTeam
          BY UpdateTeamLoop DEF IInv
        <4> QED BY <4>1
      <3> QED BY <1>5, <1>6, <3>1, TablesStep DEF IInv
    <2>2. main = noLoop
      BY <2>1 DEF didFinishLaunching, IInv, SavedIsHeld
    <2> QED BY <1>6, <2>2
  <1> QED BY <1>1, <1>2, <1>3, <1>4, <1>5, <1>6, MainStep DEF IInv

-----------------------------------------------------------------------------
(* The invariant holds at first, and every step keeps it. *)
LEMMA InitIsSound == ASSUME Init PROVE IInv
  <1> DEFINE first == [t \in Team |-> [wins |-> 0, losses |-> 0]]
  <1>1. first \in Table
    BY DEF Table, Record
  <1>2. played = <<first>>
    BY DEF Init
  <1> HIDE DEF first
  <1>3. played \in Seq(Table) /\ Len(played) = 1 /\ played[1] = first
    BY <1>1, <1>2
  <1>4. Types
    <2>1. request \in [Request -> [phase : Phase, table : Nat]]
      BY DEF Init, noCall, Phase
    <2>2. idToTeam \in Held /\ saved \in Held
      BY DEF Init, Held
    <2>3. teamAlert \in [Team -> Alert \cup {NoAlert}]
      BY DEF Init
    <2>4. newest \in 0..Len(played) /\ Len(played) >= 1
      BY <1>3 DEF Init
    <2>5. app \in {"closed", "background", "inactive", "active"} /\ torn \in BOOLEAN
      BY DEF Init
    <2>6. main = noLoop
      BY DEF Init
    <2> QED BY <1>3, <2>1, <2>2, <2>3, <2>4, <2>5, <2>6 DEF Types
  <1>5. LeagueGrows
    <2>1. \A i \in 1..Len(played) : i = 1
      BY <1>3
    <2>2. \A t \in Team : AtMost(first[t], first[t])
      BY <1>1 DEF Table, Record, AtMost
    <2> QED BY <1>3, <2>1, <2>2 DEF LeagueGrows
  <1>6. AnswersAreReal
    BY DEF Init, AnswersAreReal, noCall
  <1>7. SavedIsHeld /\ SavedIsReal /\ LoopIsSound /\ RecordsAreKnown
    BY DEF Init, SavedIsHeld, SavedIsReal, Real, LoopIsSound, RecordsAreKnown, Known
  <1>8. AlertIsTrue /\ NewsIsOut
    BY DEF Init, AlertIsTrue, NewsIsOut
  <1> QED BY <1>4, <1>5, <1>6, <1>7, <1>8 DEF IInv

LEMMA StepIsSound == ASSUME IInv, [Next]_vars PROVE IInv'
  <1>1. Types' /\ AnswersAreReal' /\ LeagueGrows'
    BY TypesStep, AnswersStep, LeagueStep DEF IInv
  <1>2. SavedIsHeld' /\ SavedIsReal'
    BY SavedIsHeldStep, SavedIsRealStep DEF IInv
  <1>3. LoopIsSound' /\ RecordsAreKnown'
    BY LoopIsSoundStep, RecordsStep DEF IInv
  <1> QED BY <1>1, <1>2, <1>3, AlertStep, NewsStep DEF IInv

THEOREM Invariance == Spec => []IInv
  <1>1. Init => IInv
    BY InitIsSound
  <1>2. IInv /\ [Next]_vars => IInv'
    BY StepIsSound
  <1> QED BY <1>1, <1>2, PTL DEF Spec

(* Between refreshes the table is one that the league has really had, and  *)
(* never a mixture of two answers, unless a refresh was cut short: the     *)
(* saved table is whole whenever no loop runs, and the loop ends only      *)
(* after every record is that of its table.                                *)
THEOREM TablesAreReal == Spec => []TableIsReal
  <1>1. IInv => TableIsReal
    <2> SUFFICES ASSUME IInv, app # "closed", main = noLoop, ~torn
                 PROVE  Real(idToTeam)
      BY DEF TableIsReal, Real, IInv, Types
    <2>1. Real(saved) /\ saved = idToTeam
      BY DEF IInv, SavedIsReal, SavedIsHeld
    <2> QED BY <2>1
  <1> QED BY <1>1, Invariance, PTL

(* "Won!" means that the team has won since, "Lost :(" that it has lost,   *)
(* unless the answer was overtaken: records only grow, and every record    *)
(* held is of a table no newer than the latest one applied.                *)
THEOREM AlertsAreTrue == Spec => []AlertIsTrue
  <1>1. IInv => AlertIsTrue
    BY DEF IInv
  <1> QED BY <1>1, Invariance, PTL

(* No known record of a team of mine changes unannounced. *)
THEOREM ChangesAreAnnounced == Spec => ChangeIsAnnounced
  <1>1. IInv /\ [Next]_vars => [Announces]_vars
    <2> SUFFICES ASSUME IInv, [Next]_vars PROVE Announces
      OBVIOUS
    <2> SUFFICES ASSUME NEW t \in Team, main # noLoop, idToTeam'[t] # idToTeam[t],
                        app' # "closed", idToTeam[t] # NoRecord,
                        \E p \in completePools : t \in teamsForMember(p, me)
                 PROVE  teamAlert[t] # NoAlert /\ teamAlert[t].record = idToTeam'[t]
      BY DEF Announces
    <2>1. updateTeamWithId
      <3>1. ~Terminated
        BY DEF Terminated
      <3>2. \A r \in Request : ~didFinishLaunching(r)
        BY DEF didFinishLaunching, IInv, SavedIsHeld
      <3> QED BY <3>1, <3>2, TablesStep DEF IInv
    <2>2. t = main.team /\ idToTeam'[t] = main.table[t]
      BY <2>1 DEF updateTeamWithId, changes, IInv, Types, Held
    <2>3. isNews(t) /\ main.team # NoTeam
      BY <2>1, <2>2 DEF isNews, updateTeamWithId
    <2> QED BY <2>2, <2>3 DEF IInv, NewsIsOut
  <1>2. [][IInv /\ [Next]_vars]_vars => [][Announces]_vars
    BY <1>1, PTL
  <1> QED BY <1>1, Invariance, PTL DEF Spec, ChangeIsAnnounced

-----------------------------------------------------------------------------
(* The sum of the records of m's teams, as held. *)
total(p, m, held) ==
  LET known == {t \in teamsForMember(p, m) : held[t] # NoRecord}
  IN  [wins   |-> MapThenSumSet(LAMBDA t : held[t].wins, known),
       losses |-> MapThenSumSet(LAMBDA t : held[t].losses, known)]

(* Who stands before me in pool p, by what is held. *)
ahead(p, order, held) ==
  {o \in p.idToMember :
     \/ exceeds(total(p, o, held), total(p, me, held))
     \/ ~exceeds(total(p, me, held), total(p, o, held)) /\ order[o] < order[me]}

(* rankIn and standsTo in these terms. *)
LEMMA RankInFacts ==
  ASSUME NEW p, NEW order
  PROVE  rankIn(p, order) = Cardinality(ahead(p, order, idToTeam))
  <1>1. \A m : recordForMember(p, m) = total(p, m, idToTeam)
    BY DEF recordForMember, total
  <1> QED BY <1>1 DEF rankIn, ahead

LEMMA StandsToFacts ==
  ASSUME NEW p, NEW o, NEW held
  PROVE  standsTo(p, o, held) = <<exceeds(total(p, me, held), total(p, o, held)),
                                  exceeds(total(p, o, held), total(p, me, held))>>
  BY DEF standsTo, total

(* Whoever stands to everybody as before has the rank from before. *)
LEMMA SameStandingSameRank ==
  ASSUME NEW p, NEW order, NEW f, NEW g,
         \A o \in p.idToMember : standsTo(p, o, f) = standsTo(p, o, g)
  PROVE  ahead(p, order, f) = ahead(p, order, g)
  <1> SUFFICES ASSUME NEW o \in p.idToMember
               PROVE  o \in ahead(p, order, f) <=> o \in ahead(p, order, g)
    BY DEF ahead
  <1> DEFINE a == exceeds(total(p, me, f), total(p, o, f))
             b == exceeds(total(p, o, f), total(p, me, f))
             c == exceeds(total(p, me, g), total(p, o, g))
             d == exceeds(total(p, o, g), total(p, me, g))
  <1>1. <<a, b>> = <<c, d>>
    BY StandsToFacts, Zenon
  <1>2. a \in BOOLEAN /\ b \in BOOLEAN /\ c \in BOOLEAN /\ d \in BOOLEAN
    BY DEF exceeds
  <1>3. /\ o \in ahead(p, order, f) <=> (b \/ (~a /\ order[o] < order[me]))
        /\ o \in ahead(p, order, g) <=> (d \/ (~c /\ order[o] < order[me]))
    BY Zenon DEF ahead
  <1> HIDE DEF a, b, c, d
  <1>4. a = c /\ b = d
    BY <1>1
  <1> QED BY <1>2, <1>3, <1>4

(* The loop remembers the ranks that the records gave before it changed    *)
(* the first of them.                                                      *)
RanksAreFromBefore ==
  main # noLoop =>
    \A p \in completePools :
      main.poolRankings[p] = Cardinality(ahead(p, main.order[p], main.before))

LEMMA RanksStep ==
  ASSUME Types, RanksAreFromBefore, [Next]_vars
  PROVE  RanksAreFromBefore'
  <1> SUFFICES ASSUME main' # noLoop, NEW p \in DOMAIN main'.order
               PROVE  main'.poolRankings[p] = Cardinality(ahead(p, main'.order[p], main'.before))
    BY DEF RanksAreFromBefore, completePools
  <1>1. ASSUME NEW r \in Request, getPools(r)
        PROVE  main'.poolRankings[p] = Cardinality(ahead(p, main'.order[p], main'.before))
    <2>1. PICK complete, order, late :
            /\ order \in [complete -> Orders]
            /\ main' = [call |-> r, table |-> played[request[r].table], left |-> Team,
                        team |-> NoTeam, order |-> order,
                        poolRankings |-> [q \in complete |-> rankIn(q, order[q])],
                        late |-> late, before |-> idToTeam]
      BY <1>1, Zenon DEF getPools
    <2>2. /\ main'.order = order /\ main'.before = idToTeam
          /\ main'.poolRankings = [q \in complete |-> rankIn(q, order[q])]
      BY <2>1
    <2>3. main'.poolRankings[p] = rankIn(p, order[p])
      BY <2>1, <2>2
    <2> QED BY <2>2, <2>3, RankInFacts
  <1>2. CASE /\ main # noLoop /\ main'.order = main.order
             /\ main'.poolRankings = main.poolRankings /\ main'.before = main.before
    BY <1>2 DEF RanksAreFromBefore, completePools
  <1>3. CASE main' = main
    BY <1>2, <1>3
  <1>4. ASSUME NEW t \in Team, notifyTeam(t)
        PROVE  /\ main # noLoop /\ main'.order = main.order
               /\ main'.poolRankings = main.poolRankings /\ main'.before = main.before
    BY <1>4 DEF notifyTeam, isLoop, Types
  <1>5. CASE updateTeamWithId
    <2>1. /\ main # noLoop /\ main'.order = main.order
          /\ main'.poolRankings = main.poolRankings /\ main'.before = main.before
      BY <1>5 DEF updateTeamWithId, isLoop, Types
    <2> QED BY <1>2, <2>1
  <1>6. ~notifyRanks /\ ~Terminated
    BY DEF notifyRanks, Terminated
  <1> QED BY <1>1, <1>2, <1>3, <1>4, <1>5, <1>6, MainStep

(* A change of rank is announced only if I have passed somebody, caught up *)
(* with somebody or fallen behind: the two ranks are taken with the same   *)
(* order of the members, so that they differ only where a standing does.   *)
THEOREM RankAlertsHaveReasons == Spec => RankAlertHasReason
  <1>1. Init => RanksAreFromBefore
    BY DEF Init, RanksAreFromBefore
  <1>2. IInv /\ RanksAreFromBefore /\ [Next]_vars => RanksAreFromBefore'
    BY RanksStep DEF IInv
  <1>3. IInv /\ RanksAreFromBefore /\ [Next]_vars => [RankChanged]_vars
    <2> SUFFICES ASSUME IInv, RanksAreFromBefore, [Next]_vars,
                        NEW p \in pools, rankAlert'[p] # rankAlert[p],
                        \A o \in p.idToMember : standsTo(p, o, main.before) = standsTo(p, o, idToTeam)
                 PROVE  FALSE
      BY DEF RankChanged
    <2>1. notifyRanks
      BY DEF Next, vars, callers, tables, shownAlerts, history, GamePlayed, didFinishLaunching,
         didBecomeActive, timerFired, handleAppRefresh, Answer, Callback, RequestFailed,
         Response, getPools, Loop, notifyTeam, updateTeamWithId, willResignActive,
         didEnterBackground, Terminated, logOutPressed, logIn
    <2>2. main # noLoop /\ p \in completePools /\ newRank(p) # main.poolRankings[p]
      BY <2>1 DEF notifyRanks
    <2>3. newRank(p) = Cardinality(ahead(p, main.order[p], idToTeam))
      BY RankInFacts DEF newRank
    <2>4. ahead(p, main.order[p], main.before) = ahead(p, main.order[p], idToTeam)
      BY SameStandingSameRank
    <2> QED BY <2>2, <2>3, <2>4 DEF RanksAreFromBefore
  <1>4. Spec => []RanksAreFromBefore
    BY <1>1, <1>2, Invariance, PTL DEF Spec
  <1> QED BY <1>3, <1>4, Invariance, PTL DEF Spec, RankAlertHasReason
-----------------------------------------------------------------------------
(* Whose loop runs. *)

(* A call asks for a table that the league has had. *)
CallsAreReal == \A r \in Request : request[r].table \in 0..Len(played)

OneLoop == \A r \in Request : main # noLoop /\ main.call = r <=> request[r].phase = "running"

LEMMA CallsStep ==
  ASSUME Types, CallsAreReal, [Next]_vars
  PROVE  CallsAreReal'
  <1>1. \A n \in 0..Len(played) : n \in 0..Len(played')
    BY PlayedStays
  <1>2. /\ request \in [Request -> [phase : Phase, table : Nat]]
        /\ Len(played) \in 0..Len(played) /\ 0 \in 0..Len(played)
    BY DEF Types
  <1>3. \A q \in Request : request'[q].table \in {request[q].table, 0, Len(played)}
    <2>1. ASSUME NEW r \in Request, getStandings(r)
          PROVE  \A q \in Request : request'[q].table \in {request[q].table, 0, Len(played)}
      BY <1>2, <2>1 DEF getStandings
    <2>2. ASSUME NEW r \in Request, Answer(r)
          PROVE  \A q \in Request : request'[q].table \in {request[q].table, 0, Len(played)}
      BY <1>2, <2>2 DEF Answer
    <2>3. ASSUME NEW r \in Request, RequestFailed(r) \/ Response(r) \/ getPools(r)
          PROVE  \A q \in Request : request'[q].table \in {request[q].table, 0, Len(played)}
      BY <1>2, <2>3 DEF RequestFailed, Response, getPools, noCall
    <2>4. CASE notifyRanks
      BY <1>2, <2>4 DEF notifyRanks, completed, noCall
    <2>5. CASE Terminated
      BY <1>2, <2>5 DEF Terminated, noCall
    <2> QED BY <2>1, <2>2, <2>3, <2>4, <2>5, RequestStep
  <1> QED BY <1>1, <1>2, <1>3 DEF CallsAreReal

LEMMA OneLoopStep ==
  ASSUME Types, OneLoop, [Next]_vars
  PROVE  OneLoop'
  <1>1. request \in [Request -> [phase : Phase, table : Nat]]
    BY DEF Types
  <1>2. ASSUME NEW r \in Request, getPools(r) PROVE OneLoop'
    <2>1. main = noLoop /\ request' = [request EXCEPT ![r].phase = "running"]
      BY <1>2 DEF getPools
    <2>2. isLoop(main') /\ main'.call = r
      <3>1. \E table, left, team, order, rankings, late, before :
              main' = [call |-> r, table |-> table, left |-> left, team |-> team, order |-> order,
                       poolRankings |-> rankings, late |-> late, before |-> before]
        BY <1>2, Zenon DEF getPools
      <3>2. main'.call = r
        BY <3>1
      <3> QED BY <1>2, <3>2, GetPoolsLoop
    <2>3. main' # noLoop
      BY <2>2, NoLoopFacts
    <2>4. \A q \in Request : request[q].phase # "running"
      BY <2>1 DEF OneLoop
    <2>5. \A q \in Request : request'[q].phase = "running" <=> q = r
      BY <1>1, <2>1, <2>4
    <2> QED BY <2>2, <2>3, <2>5 DEF OneLoop
  <1>3. CASE notifyRanks
    <2>1. main # noLoop /\ main' = noLoop /\ request' = [request EXCEPT ![main.call] = noCall]
      BY <1>3 DEF notifyRanks, completed
    <2>2. \A q \in Request : request'[q].phase # "running"
      BY <1>1, <2>1 DEF OneLoop, noCall
    <2> QED BY <2>1, <2>2 DEF OneLoop
  <1>4. CASE Terminated
    <2>1. main' = noLoop /\ \A q \in Request : request'[q].phase # "running"
      BY <1>4 DEF Terminated, noCall
    <2> QED BY <2>1 DEF OneLoop
  <1>5. CASE ~notifyRanks /\ ~Terminated /\ \A r \in Request : ~getPools(r)
    <2>1. (main' # noLoop <=> main # noLoop) /\ (main # noLoop => main'.call = main.call)
      <3>1. ASSUME NEW t \in Team, notifyTeam(t)
            PROVE  main # noLoop /\ main' # noLoop /\ main'.call = main.call
        <4>1. main # noLoop /\ main' # noLoop
          BY <3>1, NotifyTeamLoop, NoLoopFacts
        <4> QED BY <3>1, <4>1 DEF notifyTeam, isLoop, Types
      <3>2. ASSUME updateTeamWithId
            PROVE  main # noLoop /\ main' # noLoop /\ main'.call = main.call
        <4>1. main # noLoop /\ main' # noLoop
          BY <3>2, UpdateTeamLoop, NoLoopFacts
        <4> QED BY <3>2, <4>1 DEF updateTeamWithId, isLoop, Types
      <3> QED BY <1>5, <3>1, <3>2, MainStep
    <2>2. \A q \in Request : request'[q].phase = "running" <=> request[q].phase = "running"
      <3>1. ASSUME NEW r \in Request, getStandings(r)
            PROVE  \A q \in Request : request'[q].phase = "running" <=> request[q].phase = "running"
        BY <1>1, <3>1 DEF getStandings, noCall
      <3>2. ASSUME NEW r \in Request, Answer(r) \/ RequestFailed(r) \/ Response(r)
            PROVE  \A q \in Request : request'[q].phase = "running" <=> request[q].phase = "running"
        BY <1>1, <3>2 DEF Answer, RequestFailed, Response, noCall
      <3> QED BY <1>5, <3>1, <3>2, RequestStep
    <2> QED BY <2>1, <2>2 DEF OneLoop
  <1> QED BY <1>2, <1>3, <1>4, <1>5

(* Every variable keeps its shape, and however calls overlap, fail or are  *)
(* cut short, the one whose loop runs is the only one that is running, and *)
(* it is until its completion block is called.                             *)
THEOREM TypeCorrect == Spec => []TypeOK
  <1> DEFINE Shape == scheduled \in BOOLEAN /\ signedIn \in BOOLEAN /\ CallsAreReal /\ OneLoop
  <1>1. ASSUME Init PROVE Shape
    <2>1. main = noLoop /\ scheduled = FALSE /\ signedIn = FALSE /\ Len(played) = 1
      BY <1>1 DEF Init
    <2>2. \A r \in Request : request[r] = noCall
      BY <1>1, Zenon DEF Init
    <2>3. \A r \in Request : request[r].phase = "idle" /\ request[r].table = 0
      BY <2>2 DEF noCall
    <2>4. CallsAreReal
      BY <2>1, <2>3 DEF CallsAreReal
    <2>5. OneLoop
      BY <2>1, <2>3, Zenon DEF OneLoop
    <2> QED BY <2>1, <2>4, <2>5
  <1>2. IInv /\ Shape /\ [Next]_vars => Shape'
    <2> SUFFICES ASSUME IInv, Shape, [Next]_vars PROVE Shape'
      OBVIOUS
    <2>1. scheduled' \in BOOLEAN /\ signedIn' \in BOOLEAN
      BY DEF Next, vars, callers, tables, shownAlerts, history, GamePlayed,
         didFinishLaunching, didBecomeActive, timerFired, handleAppRefresh, Answer, Callback,
         RequestFailed, Response, getPools, Loop, notifyTeam, updateTeamWithId, notifyRanks,
         willResignActive, didEnterBackground, Terminated, logOutPressed, logIn
    <2> QED BY <2>1, CallsStep, OneLoopStep DEF IInv
  <1>3. IInv /\ Shape => TypeOK
    BY DEF IInv, Types, Held, Table, Phase, CallsAreReal, OneLoop, TypeOK
  <1>4. Spec => []Shape
    BY <1>1, <1>2, Invariance, PTL DEF Spec
  <1> QED BY <1>3, <1>4, Invariance, PTL
=============================================================================

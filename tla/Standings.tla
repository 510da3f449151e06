------------------------------ MODULE Standings ------------------------------
(***************************************************************************)
(* The league's standings on one device: who asks for them (AppDelegate),  *)
(* how an answer travels (NBA, Backend, getPools), and what Teams does     *)
(* with it: team by team it announces, stores and saves the new record,    *)
(* and at the end it announces a change of rank.                           *)
(*                                                                         *)
(* The app's main queue runs one handler at a time.  The loop of           *)
(* getStandings is spread over several steps, during which only iOS can    *)
(* intervene, by ending the app.  The member's pools are drafted or not    *)
(* and do not change here.                                                 *)
(***************************************************************************)
EXTENDS Pool, Sequences, FiniteSetsExt

CONSTANTS
  me,         \* the member who signs in on this device
  pools,      \* the pools that list him
  Request,    \* bound: calls of getStandings in flight at once
  NoRecord,   \* a nil record
  NoAlert,
  MaxGames    \* bound: games the league plays

Record == [wins : Nat, losses : Nat]

ASSUME StandingsAssumption ==
  /\ me \in Member
  /\ pools \subseteq PoolDocument
  /\ \A p \in pools : me \in p.idToMember
  /\ NoRecord \notin Record
  /\ NoAlert \notin [record : Record, winning : BOOLEAN, from : Record, late : BOOLEAN]
  /\ MaxGames \in Nat

VARIABLES
  played,       \* the league: its table after each game, the latest last
  app,          \* "closed", "background", "inactive" or "active"
  scheduled,    \* a background refresh is scheduled with iOS
  signedIn,     \* whether currentMember is me or nil
  request,      \* the calls of getStandings
  main,         \* the loop of getStandings that is running, or noLoop
  idToTeam,     \* the record of each team, in memory
  saved,        \* the same in the user defaults
  teamAlert, rankAlert,   \* the notifications shown, one for each identifier
  torn, newest  \* history: the loop was cut short; the latest table applied

callers == <<app, scheduled, signedIn>>
tables == <<idToTeam, saved>>
shownAlerts == <<teamAlert, rankAlert>>
history == <<torn, newest>>
vars == <<played, callers, request, main, tables, shownAlerts, history>>

-----------------------------------------------------------------------------
(* Records and ranks. *)

games(r) == IF r.wins + r.losses = 0 THEN 1 ELSE r.wins + r.losses

(* a.percentage > b.percentage; without games the percentage is zero. *)
exceeds(a, b) == a.wins * games(b) > b.wins * games(a)

teamsForMember(p, m) ==
  {p.numberToPick[n].teamId : n \in {k \in madePicks(p) : p.numberToPick[k].member = m}}

(* The sum of the records that are known. *)
recordForMember(p, m) ==
  LET known == {t \in teamsForMember(p, m) : idToTeam[t] # NoRecord}
  IN  [wins   |-> MapThenSumSet(LAMBDA t : idToTeam[t].wins, known),
       losses |-> MapThenSumSet(LAMBDA t : idToTeam[t].losses, known)]

(* How a dictionary may list the members. *)
Orders == {f \in [Member -> 1..Cardinality(Member)] :
             \A m, o \in Member : f[m] = f[o] => m = o}

(* The index of me in membersSortedByWinPercentage.  The sort is stable:   *)
(* in a tie the members stay as the dictionary lists them.                 *)
rankIn(p, order) ==
  LET mine == recordForMember(p, me)
  IN  Cardinality({o \in p.idToMember :
        \/ exceeds(recordForMember(p, o), mine)
        \/ ~exceeds(mine, recordForMember(p, o)) /\ order[o] < order[me]})

-----------------------------------------------------------------------------
(* The league and the way to it. *)

GamePlayed(winner, loser) ==
  /\ winner # loser
  /\ Len(played) <= MaxGames
  /\ played' = Append(played, [played[Len(played)] EXCEPT ![winner].wins = @ + 1,
                                                          ![loser].losses = @ + 1])
  /\ UNCHANGED <<callers, request, main, tables, shownAlerts, history>>

noCall == [phase |-> "idle", table |-> 0]
noLoop == [call |-> "none"]

(* getStandings sends its request. *)
getStandings(r) ==
  /\ request[r] = noCall
  /\ request' = [request EXCEPT ![r] = [phase |-> "sent", table |-> 0]]

(* The server answers with the table as it is now. *)
Answer(r) ==
  /\ request[r].phase = "sent"
  /\ request' = [request EXCEPT ![r] = [phase |-> "answered", table |-> Len(played)]]
  /\ UNCHANGED <<played, callers, main, tables, shownAlerts, history>>

(* No answer, an error, or a body that is not the standings. *)
RequestFailed(r) ==
  /\ main = noLoop
  /\ request[r].phase \in {"sent", "answered"}
  /\ request' = [request EXCEPT ![r] = noCall]
  /\ UNCHANGED <<played, callers, main, tables, shownAlerts, history>>

(* The answer arrives; nothing is done with it if nobody is signed in. *)
Response(r) ==
  /\ main = noLoop
  /\ request[r].phase = "answered"
  /\ request' = [request EXCEPT ![r] = IF signedIn THEN [@ EXCEPT !.phase = "pools"]
                                       ELSE noCall]
  /\ UNCHANGED <<played, callers, main, tables, shownAlerts, history>>

-----------------------------------------------------------------------------
(* The completion block of getPools. *)

(* The query yields the pools or an error, which counts as no pools. *)
poolsRead == {pools, {}}

(* Rankings are taken before any record changes.  A complete pool has no   *)
(* current pick, so the call of addDraftPickNotification does nothing.     *)
getPools(r) ==
  /\ main = noLoop
  /\ request[r].phase = "pools"
  /\ request' = [request EXCEPT ![r].phase = "running"]
  /\ \E result \in poolsRead :
       LET complete == {p \in result : isComplete(p)}
       IN  \E order \in [complete -> Orders] :
             main' = [call |-> r, table |-> played[request[r].table],
                      left |-> Team, team |-> NoTeam, order |-> order,
                      poolRankings |-> [p \in complete |-> rankIn(p, order[p])],
                      late |-> request[r].table < newest, before |-> idToTeam]
  /\ newest' = IF request[r].table < newest THEN newest ELSE request[r].table
  /\ UNCHANGED <<played, callers, tables, shownAlerts, torn>>

completePools == DOMAIN main.order

(* Mutant: the differences are taken the wrong way round. *)
isWinning_swapped(old, new) == old.wins + new.losses > new.wins + old.losses

(* More new wins than new losses, written without negative numbers. *)
isWinning(old, new) == new.wins + old.losses > old.wins + new.losses

(* Mutant: only a new win counts as news. *)
isNews_wins(t) ==
  /\ idToTeam[t] # NoRecord
  /\ idToTeam[t].wins # main.table[t].wins
  /\ \E p \in completePools : t \in teamsForMember(p, me)

(* A known record changes, and in some complete pool the team is mine. *)
isNews(t) ==
  /\ idToTeam[t] # NoRecord
  /\ idToTeam[t] # main.table[t]
  /\ \E p \in completePools : t \in teamsForMember(p, me)

(* addNotificationForTeam.  It replaces the last one of the same team.     *)
(* History: the record it replaces and whether the table is an old one.    *)
newTeamAlert(t) ==
  [record |-> main.table[t], winning |-> isWinning(idToTeam[t], main.table[t]),
   from |-> idToTeam[t], late |-> main.late]

(* The loop takes a team, in the order of the answer, and announces it. *)
notifyTeam(t) ==
  /\ main # noLoop /\ main.team = NoTeam
  /\ t \in main.left
  /\ main' = [main EXCEPT !.team = t, !.left = @ \ {t}]
  /\ teamAlert' =
       IF isNews(t) THEN [teamAlert EXCEPT ![t] = newTeamAlert(t)] ELSE teamAlert
  /\ UNCHANGED <<played, callers, request, tables, rankAlert, history>>

(* Mutant: a record is only ever set once. *)
changes_once(t) == idToTeam[t] = NoRecord

(* Mutant: records are compared by their wins. *)
changes_wins(t) == idToTeam[t] = NoRecord \/ idToTeam[t].wins # main.table[t].wins

changes(t) == idToTeam[t] # main.table[t]

(* Sets the record of the team taken, and saves all teams. *)
updateTeamWithId ==
  LET t == main.team
  IN  /\ main # noLoop /\ t # NoTeam
      /\ idToTeam' = IF changes(t) THEN [idToTeam EXCEPT ![t] = main.table[t]] ELSE idToTeam
      /\ saved' = IF changes(t) THEN idToTeam' ELSE saved
      /\ main' = [main EXCEPT !.team = NoTeam]
      /\ UNCHANGED <<played, callers, request, shownAlerts, history>>

(* Mutant: the members are listed anew for the second ranking. *)
newRank_relisted(p) ==
  rankIn(p, [m \in Member |-> Cardinality(Member) + 1 - main.order[p][m]])

newRank(p) == rankIn(p, main.order[p])

(* addNotificationForPool, which replaces the last one of the same pool. *)
newRankAlert(p) ==
  [rank |-> newRank(p) + 1, rising |-> newRank(p) < main.poolRankings[p]]

(* Mutant: without a complete pool the block returns early. *)
completed_withPools == IF completePools = {} THEN request
                       ELSE [request EXCEPT ![main.call] = noCall]

(* The completion block of the caller is called. *)
completed == [request EXCEPT ![main.call] = noCall]

(* After the last team: the ranks again, and the end of the call. *)
notifyRanks ==
  /\ main # noLoop /\ main.team = NoTeam /\ main.left = {}
  /\ rankAlert' = [p \in pools |->
       IF p \in completePools /\ newRank(p) # main.poolRankings[p]
       THEN newRankAlert(p)
       ELSE rankAlert[p]]
  /\ request' = completed
  /\ main' = noLoop
  /\ torn' = FALSE
  /\ UNCHANGED <<played, callers, tables, teamAlert, newest>>

-----------------------------------------------------------------------------
(* AppDelegate: the life of the app, and who calls getStandings. *)

(* Teams.init and load: a team that was not saved has no record. *)
loaded == saved

(* Launched by the user or for a background refresh. *)
didFinishLaunching(r) ==
  /\ app = "closed"
  /\ app' \in {"inactive"} \cup (IF scheduled THEN {"background"} ELSE {})
  /\ idToTeam' = loaded
  /\ getStandings(r)
  /\ UNCHANGED <<played, scheduled, signedIn, main, saved, shownAlerts, history>>

didBecomeActive(r) ==
  /\ main = noLoop
  /\ app \in {"inactive", "background"}
  /\ app' = "active"
  /\ getStandings(r)
  /\ UNCHANGED <<played, scheduled, signedIn, main, tables, shownAlerts, history>>

(* The timer runs as long as the app is active. *)
timerFired(r) ==
  /\ main = noLoop
  /\ app = "active"
  /\ getStandings(r)
  /\ UNCHANGED <<played, callers, main, tables, shownAlerts, history>>

willResignActive ==
  /\ main = noLoop
  /\ app = "active"
  /\ app' = "inactive"
  /\ UNCHANGED <<played, scheduled, signedIn, request, main, tables, shownAlerts, history>>

didEnterBackground ==
  /\ main = noLoop
  /\ app = "inactive"
  /\ app' = "background"
  /\ scheduled' = TRUE
  /\ UNCHANGED <<played, signedIn, request, main, tables, shownAlerts, history>>

(* The refresh that is due is replaced by the next one.  iOS calls this on *)
(* a queue of its own, so it need not wait for the main queue.             *)
handleAppRefresh(r) ==
  /\ app = "background" /\ scheduled
  /\ scheduled' = TRUE
  /\ getStandings(r)
  /\ UNCHANGED <<played, app, signedIn, main, tables, shownAlerts, history>>

logOutPressed ==
  /\ main = noLoop
  /\ app = "active" /\ signedIn
  /\ signedIn' = FALSE
  /\ UNCHANGED <<played, app, scheduled, request, main, tables, shownAlerts, history>>

logIn ==
  /\ main = noLoop
  /\ app = "active" /\ ~signedIn
  /\ signedIn' = TRUE
  /\ UNCHANGED <<played, app, scheduled, request, main, tables, shownAlerts, history>>

(* iOS or the user ends the app, at any point. *)
Terminated ==
  /\ app # "closed"
  /\ app' = "closed"
  /\ request' = [r \in Request |-> noCall]
  /\ main' = noLoop
  /\ torn' = (torn \/ main # noLoop)
  /\ idToTeam' = [t \in Team |-> NoRecord]
  /\ UNCHANGED <<played, scheduled, signedIn, saved, shownAlerts, newest>>

-----------------------------------------------------------------------------

Init ==
  /\ played = <<[t \in Team |-> [wins |-> 0, losses |-> 0]]>>
  /\ app = "closed"
  /\ scheduled = FALSE
  /\ signedIn = FALSE
  /\ request = [r \in Request |-> noCall]
  /\ main = noLoop
  /\ idToTeam = [t \in Team |-> NoRecord]
  /\ saved = [t \in Team |-> NoRecord]
  /\ teamAlert = [t \in Team |-> NoAlert]
  /\ rankAlert = [p \in pools |-> NoAlert]
  /\ torn = FALSE
  /\ newest = 0

(* The blocks of one call that the main queue has to run. *)
Callback(r) == RequestFailed(r) \/ Response(r) \/ getPools(r)

Loop ==
  \/ \E t \in Team : notifyTeam(t)
  \/ updateTeamWithId
  \/ notifyRanks

Next ==
  \/ \E t, u \in Team : GamePlayed(t, u)
  \/ \E r \in Request :
       \/ didFinishLaunching(r) \/ didBecomeActive(r)
       \/ timerFired(r) \/ handleAppRefresh(r)
       \/ Answer(r) \/ Callback(r)
  \/ Loop
  \/ willResignActive \/ didEnterBackground \/ Terminated
  \/ logOutPressed \/ logIn

Spec == Init /\ [][Next]_vars

-----------------------------------------------------------------------------

(* Every variable has its shape, and the call whose loop runs is known to  *)
(* be running.                                                             *)
TypeOK ==
  /\ \A i \in DOMAIN played : played[i] \in [Team -> Record]
  /\ app \in {"closed", "background", "inactive", "active"}
  /\ scheduled \in BOOLEAN /\ signedIn \in BOOLEAN
  /\ \A r \in Request :
       /\ request[r].phase \in {"idle", "sent", "answered", "pools", "running"}
       /\ request[r].table \in 0..Len(played)
       /\ main # noLoop /\ main.call = r <=> request[r].phase = "running"
  /\ idToTeam \in [Team -> Record \cup {NoRecord}]
  /\ saved \in [Team -> Record \cup {NoRecord}]

(* Between refreshes the table shown is one the league has really had,     *)
(* never a mixture of two answers, however they overlap; the exception is  *)
(* the time after the app was ended in the middle of a refresh and before  *)
(* the next one.                                                           *)
TableIsReal ==
  app # "closed" /\ main = noLoop /\ ~torn =>
    \/ \A t \in Team : idToTeam[t] = NoRecord
    \/ \E i \in DOMAIN played : idToTeam = played[i]

(* An alert says "Won!" only if the team has won a game since the record   *)
(* it replaces, and "Lost :(" only if it has lost one, however many games  *)
(* there were in between, unless the answer was overtaken by a later one.  *)
saysTheTruth(a) ==
  IF a.winning THEN a.record.wins > a.from.wins ELSE a.record.losses > a.from.losses

AlertIsTrue ==
  \A t \in Team : teamAlert[t] # NoAlert /\ ~teamAlert[t].late => saysTheTruth(teamAlert[t])

(* No known record of a team of mine changes without having been           *)
(* announced, if the pools could be read.                                  *)
Announces ==
  \A t \in Team :
    /\ main # noLoop /\ idToTeam'[t] # idToTeam[t] /\ app' # "closed"
    /\ idToTeam[t] # NoRecord
    /\ \E p \in completePools : t \in teamsForMember(p, me)
    => teamAlert[t] # NoAlert /\ teamAlert[t].record = idToTeam'[t]

ChangeIsAnnounced == [][Announces]_vars

(* A change of rank is announced only if I am now ahead of, level with or  *)
(* behind somebody where I was not before; the accidental order in which   *)
(* members that are level are listed never makes one.                      *)
standsTo(p, o, held) ==
  LET sum(m, f(_)) == MapThenSumSet(f, {t \in teamsForMember(p, m) : held[t] # NoRecord})
      total(m) == [wins   |-> sum(m, LAMBDA t : held[t].wins),
                   losses |-> sum(m, LAMBDA t : held[t].losses)]
  IN  <<exceeds(total(me), total(o)), exceeds(total(o), total(me))>>

RankChanged ==
  \A p \in pools :
    rankAlert'[p] # rankAlert[p] =>
      \E o \in p.idToMember : standsTo(p, o, main.before) # standsTo(p, o, idToTeam)

RankAlertHasReason == [][RankChanged]_vars

-----------------------------------------------------------------------------

(* The timer repeats, the main queue serves every block in turn, and the   *)
(* network is not down for good: among the requests some are answered      *)
(* again and again.  Nothing is asked of the user.                         *)
Fairness ==
  /\ WF_vars(\E r \in Request : timerFired(r))
  /\ SF_vars(\E r \in Request : Answer(r))
  /\ SF_vars(\E r \in Request : Response(r))
  /\ \A r \in Request : SF_vars(Callback(r))
  /\ WF_vars(Loop)

FairSpec == Spec /\ Fairness

(* Every call of getStandings ends, and so every background task is        *)
(* reported as completed, unless the app is ended first.                   *)
RefreshEnds == \A r \in Request : request[r] # noCall ~> request[r] = noCall

(* While the app stays active and somebody is signed in, the table catches *)
(* up with the league and stays there, late answers or not.                *)
CatchesUp ==
  <>[](app = "active" /\ signedIn) => <>[](idToTeam = played[Len(played)])
=============================================================================

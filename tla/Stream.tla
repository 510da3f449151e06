------------------------------- MODULE Stream -------------------------------
(***************************************************************************)
(* A stream of the Firestore client to the backend (remote/stream.cc): the *)
(* state machine that WriteStream and WatchStream share.  Each operator    *)
(* maps the stream before a call to the stream after it.                   *)
(*                                                                         *)
(* Delays are not modelled: a timer that is set may fire at any moment.    *)
(***************************************************************************)
EXTENDS Naturals

State == {"Initial", "Starting", "Open", "Error", "Backoff"}

(* state, backoff (delayed_operation_ of backoff_ is scheduled), idle      *)
(* (idleness_timer_ is set), token (GetToken was called for this start and *)
(* has not answered), late (answers still to come that were asked for by   *)
(* starts closed since: close_count_ has changed).                         *)
StreamRecord ==
  [state : State, backoff : BOOLEAN, idle : BOOLEAN, token : BOOLEAN, late : Nat]

NewStream ==
  [state |-> "Initial", backoff |-> FALSE, idle |-> FALSE, token |-> FALSE, late |-> 0]

IsOpen(s) == s.state = "Open"

IsStarted(s) == s.state \in {"Starting", "Backoff", "Open"}

RequestCredentials(s) == [s EXCEPT !.state = "Starting", !.token = TRUE]

BackoffAndTryRestarting(s) == [s EXCEPT !.state = "Backoff", !.backoff = TRUE]

Start(s) ==
  IF s.state = "Error" THEN BackoffAndTryRestarting(s) ELSE RequestCredentials(s)

(* The delayed operation of BackoffAndRun. *)
BackoffElapsed(s) == Start([s EXCEPT !.state = "Initial", !.backoff = FALSE])

(* ResumeStartWithCredentials with a token: GrpcStream::Start does not     *)
(* wait for the server, so the stream is open at once.                     *)
OnStreamStart(s) == [s EXCEPT !.state = "Open", !.token = FALSE]

(* RequestCredentials' callback after a close: it is dropped. *)
LateCredentials(s) == [s EXCEPT !.late = @ - 1]

InhibitBackoff(s) == [s EXCEPT !.state = "Initial"]

MarkIdle(s) == IF IsOpen(s) THEN [s EXCEPT !.idle = TRUE] ELSE s

CancelIdleCheck(s) == [s EXCEPT !.idle = FALSE]

(* Mutant: the backoff of a stream that is stopped is not cancelled. *)
Close_timerKept(s, graceful) ==
  [s EXCEPT !.state = IF graceful THEN "Initial" ELSE "Error",
            !.idle = FALSE, !.token = FALSE, !.late = IF s.token THEN @ + 1 ELSE @]

(* Close of a started stream, up to the call of its listener. *)
Close(s, graceful) ==
  [state |-> IF graceful THEN "Initial" ELSE "Error",
   backoff |-> FALSE, idle |-> FALSE, token |-> FALSE,
   late |-> IF s.token THEN s.late + 1 ELSE s.late]

(* What the assertions of stream.cc expect of the timers and callbacks: an *)
(* elapsed backoff finds the state Backoff, credentials find it Starting,  *)
(* and the idle timer runs for an open stream only.                        *)
TimersMatch(s) ==
  /\ s.backoff <=> s.state = "Backoff"
  /\ s.token <=> s.state = "Starting"
  /\ s.idle => s.state = "Open"
=============================================================================

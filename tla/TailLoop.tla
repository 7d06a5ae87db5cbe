------------------------------ MODULE TailLoop -------------------------------
(***************************************************************************)
(* What a live tail (server/src/services/liveTail.js) promises of its timer *)
(* and its calls, whatever it polls for: it asks again and again while its  *)
(* socket is open, one question at a time, and falls silent when it was     *)
(* stopped.  LiveTail implements it with the records, NodeServer with one   *)
(* instance per connection.                                                 *)
(***************************************************************************)

VARIABLES
  ws,       \* readyState of the socket: "open", "closing" or "closed"
  stopped,  \* stop() has run
  timer,    \* setTimeout(poll) is armed
  call      \* activeCall: "none", "out", or "cancelled"

vars == <<ws, stopped, timer, call>>

(* The first poll follows createLiveTail at once, as if by an armed timer.  *)
Init ==
  /\ ws = "open"
  /\ stopped = FALSE
  /\ timer = TRUE
  /\ call = "none"

Stop ==
  /\ ~stopped
  /\ stopped' = TRUE
  /\ timer' = FALSE
  /\ call' = IF call = "none" THEN "none" ELSE "cancelled"

Closing == ws = "open" /\ ws' = "closing" /\ (Stop \/ UNCHANGED <<stopped, timer, call>>)

Closed ==
  /\ ws # "closed"
  /\ ws' = "closed"
  /\ Stop \/ (stopped /\ UNCHANGED <<stopped, timer, call>>)

Poll ==
  /\ timer
  /\ ws = "open"
  /\ timer' = FALSE
  /\ call' = "out"
  /\ UNCHANGED <<ws, stopped>>

PollStops == timer /\ ws # "open" /\ Stop /\ UNCHANGED ws

(* The answer, an error, or the end of a call that was cancelled.           *)
Callback ==
  /\ call # "none"
  /\ call' = "none"
  /\ timer' = ~stopped
  /\ UNCHANGED <<ws, stopped>>

Next == Closing \/ Closed \/ Poll \/ PollStops \/ Callback

(* What holds whether or not the engine answers.                            *)
SafeSpec == Init /\ [][Next]_vars

(* With an engine that answers or fails, the loop goes on.                  *)
Spec == SafeSpec /\ WF_vars(Poll \/ PollStops) /\ WF_vars(Callback)

=============================================================================

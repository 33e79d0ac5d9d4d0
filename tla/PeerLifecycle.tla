--------------------------- MODULE PeerLifecycle ---------------------------
(***************************************************************************)
(* The peer lifecycle machine as constant operators: the states, the       *)
(* transition table, the wildcard rules for errors and quits, and the      *)
(* guard.  PeerStateMachine.apply raises IllegalTransitionError when       *)
(* resolve finds no target; here the raise is the value Rejected, which no *)
(* further event leaves, so that a specification built on these operators  *)
(* can show that the exception is never raised.                            *)
(***************************************************************************)

\* The value of the machine after an IllegalTransitionError.
Rejected == "rejected"

PeerStates == {"initializing", "server_ready", "negotiating", "signed",
               "waiting", "thinking", "committing", "waiting_for_ack",
               "revealing", "verifying", "sub_game_over", "auditing",
               "series_complete", "error", "quit"}

TerminalStates == {"series_complete", "quit"}

\* The ordinary flow: every event kind leads from one state to one state.
Transitions ==
  [server_started    |-> [from |-> "initializing", to |-> "server_ready"],
   begin_negotiation |-> [from |-> "server_ready", to |-> "negotiating"],
   terms_signed      |-> [from |-> "negotiating", to |-> "signed"],
   sub_game_start    |-> [from |-> "signed", to |-> "waiting"],
   begin_turn        |-> [from |-> "waiting", to |-> "thinking"],
   move_decided      |-> [from |-> "thinking", to |-> "committing"],
   commit_sent       |-> [from |-> "committing", to |-> "waiting_for_ack"],
   ack_received      |-> [from |-> "waiting_for_ack", to |-> "revealing"],
   reveal_sent       |-> [from |-> "revealing", to |-> "verifying"],
   turn_verified     |-> [from |-> "verifying", to |-> "waiting"],
   sub_game_ended    |-> [from |-> "verifying", to |-> "sub_game_over"],
   begin_audit       |-> [from |-> "sub_game_over", to |-> "auditing"],
   next_sub_game     |-> [from |-> "auditing", to |-> "waiting"],
   series_audit_done |-> [from |-> "auditing", to |-> "series_complete"]]

\* The table's target of kind in state s.
Table(s, kind) ==
  IF kind \in DOMAIN Transitions /\ Transitions[kind].from = s
  THEN Transitions[kind].to ELSE Rejected

\* resolve(state, event): wildcard rules first, then the table and its guard
\* (terms are signed only with a config hash in the event's detail).
Resolve(s, kind, detail) ==
  IF s = Rejected \/ s \in TerminalStates THEN Rejected
  ELSE IF kind = "error_occurred" THEN IF s = "error" THEN Rejected ELSE "error"
  ELSE IF kind = "quit_requested" THEN "quit"
  ELSE IF s = "error" THEN Rejected
  ELSE IF kind = "terms_signed" /\ ~detail THEN Rejected
  ELSE Table(s, kind)

\* machine.apply of an event that carries its detail.
After(s, kind) == Resolve(s, kind, TRUE)

\* Mutant of ForceError: the error event is dropped.
ForceErrorIgnored(s) == s

\* machine.force_error
ForceError(s) == After(s, "error_occurred")

\* The events _fast_forward_to_waiting applies before the first sub-game.
FastForwardToWaiting(s) ==
  After(After(After(After(s, "server_started"), "begin_negotiation"),
              "terms_signed"), "sub_game_start")
=============================================================================

----------------------------- MODULE AtLeastOnce -----------------------------
(***************************************************************************)
(* What the gateway promises about each MQTT message it decides to         *)
(* publish: once handed over it stays owed until the broker has it, unless *)
(* the bounded spool gives it up ("bounded at-least-once delivery across   *)
(* broker outages and process restarts", docs/PRODUCTION.en.md:40).        *)
(***************************************************************************)
CONSTANT Messages

VARIABLE status

\* A given-up message can still arrive: a copy may be on its way.
Moves == {<<"new", "owed">>, <<"new", "given_up">>,
          <<"owed", "delivered">>, <<"owed", "given_up">>,
          <<"given_up", "delivered">>}

Init == status = [m \in Messages |-> "new"]

\* Messages move forward only.  One step may hand over one message and give
\* up several others to make room for it.
Next ==
    /\ status' \in [Messages -> {"new", "owed", "delivered", "given_up"}]
    /\ \A m \in Messages : \/ status'[m] = status[m]
                           \/ <<status[m], status'[m]>> \in Moves

Settled == \A m \in Messages : status[m] = "owed" ~> status[m] \in {"delivered", "given_up"}

\* The promise without its last part, that a message does not stay owed.
Safety == Init /\ [][Next]_status

Spec == Safety /\ Settled
=============================================================================

--------------------------- MODULE MCHistoryStore ---------------------------
(* Two sensors, the first of which changes its content.  A backup holds an   *)
(* expired sample and one that is not.                                       *)
EXTENDS HistoryStore, TLC

MCSnapshots == {<<>>, <<"on">>, <<"off">>, <<"on", "on">>, 2 :> "off"}

MCDatabases == {<<>>,
                <<[sensor |-> 2, content |-> "on", age |-> MaxAge],
                  [sensor |-> 1, content |-> "on", age |-> 1]>>}
=============================================================================

---------------------------- MODULE Notification ----------------------------
(***************************************************************************)
(* What ending an application's session promises about telling the         *)
(* application, for one notice per association and channel.  The notice is *)
(* owed from the moment the association ended.  It counts as told only     *)
(* once the application (or, by front channel, the user's browser) was     *)
(* reached, and that is final; it may be given up, and be taken up again;  *)
(* and at the end of its retention it is dropped.                          *)
(***************************************************************************)
CONSTANT Notices

VARIABLES
    note,   \* what the provider holds about each notice
    reached \* the notices that arrived where they were addressed

vars == <<note, reached>>

Stages == {"none", "owed", "told", "failed", "dropped"}

Moves == {<<"none", "owed">>, <<"none", "dropped">>,
          <<"owed", "told">>, <<"owed", "failed">>, <<"owed", "dropped">>,
          <<"failed", "owed">>, <<"failed", "told">>, <<"failed", "dropped">>,
          <<"told", "dropped">>}

Init ==
    /\ note = [n \in Notices |-> "none"]
    /\ reached = {}

\* several notices may move in one step: one logout ends many associations
Next ==
    /\ note' \in [Notices -> Stages]
    /\ \A n \in Notices :
          /\ note'[n] # note[n] => <<note[n], note'[n]>> \in Moves
          /\ note[n] # "told" /\ note'[n] = "told" => n \in reached'
          /\ n \in reached' \ reached => note[n] # "none"
    /\ reached \subseteq reached'

Spec == Init /\ [][Next]_vars
=============================================================================

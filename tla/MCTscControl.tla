---------------------------- MODULE MCTscControl ----------------------------
(***************************************************************************)
(* Instances of TscControl for TLC: three signal groups on phases 1, 2 and *)
(* 6, and short plans of every kind that update_tsc_control_queue tells    *)
(* apart.                                                                  *)
(***************************************************************************)
EXTENDS TscControl, TLC

MCPhaseOf == 1 :> 2 @@ 2 :> 6 @@ 3 :> 1

Green(groups, start, end) == [groups |-> groups, start |-> start, end |-> end]

TwoGreens == <<Green({1}, 0, 2), Green({2}, 3, 5)>>
OtherTwoGreens == <<Green({2, 3}, 1, 3), Green({1}, 4, 6)>>
ThreeGreens == <<Green({1}, 0, 2), Green({2}, 3, 4), Green({3}, 5, 6)>>
OneGreen == <<Green({3}, 0, 4)>>
RepeatedAtFront == <<Green({1, 2}, 0, 2), Green({2}, 3, 4)>>
UnknownGroup == <<Green({1}, 0, 2), Green({9}, 3, 4)>>

EveryKindOfPlan ==
  {<<>>, OneGreen, OtherTwoGreens, ThreeGreens, RepeatedAtFront, UnknownGroup}
TwoPlans == {TwoGreens, OtherTwoGreens}

\* What the freed node of the old queue may still show: a command that was in
\* it, or one whose fields were overwritten.
StaleCommands ==
  {[type |-> "HOLD", at |-> 2, val |-> {6}],
   [type |-> "NONE", at |-> 3, val |-> {}]}

=============================================================================

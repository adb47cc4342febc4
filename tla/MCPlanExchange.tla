--------------------------- MODULE MCPlanExchange ---------------------------
(***************************************************************************)
(* A small intersection: {1,2} and {1,3} may be green together, 4 only     *)
(* alone.                                                                  *)
(***************************************************************************)
EXTENDS PlanExchange

FourGroups == <<1, 2, 3, 4>>
PairsAndSingle == << <<1, 2>>, <<1, 3>>, <<4, 0>> >>
YellowTimes == <<1, 1, 2, 1>>
RedClearances == <<1, 1, 1, 1>>
MinGreens == <<2, 3, 2, 2>>

=============================================================================

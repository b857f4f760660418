--------------------------- MODULE MCHostSchedule ---------------------------
(* Small instances of HostSchedule: a span that does not divide the total, a *)
(* cliff, unequal tranches, and parameters the constructors refuse.          *)
EXTENDS HostSchedule

Terms(kind, start, cliff, end, total) ==
  [kind |-> kind, start |-> start, cliff |-> cliff, end |-> end, total |-> total]

MCOfferedTimed ==
  {Terms("linear", 1, 0, 4, 5), Terms("cliff_linear", 1, 3, 6, 7),
   Terms("linear", 4, 0, 4, 5), Terms("cliff_linear", 1, 6, 6, 7),
   Terms("linear", 1, 0, 4, 0)}

MCOfferedTranches == {<<2, 1, 4>>, <<2, 0, 4>>, <<>>, <<1, 1, 1, 1>>, <<3, 3, 3>>}
=============================================================================

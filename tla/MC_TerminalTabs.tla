--------------------------- MODULE MC_TerminalTabs ---------------------------
(* What may happen in the checked instances of TerminalTabs.               *)
EXTENDS TerminalTabs

Plan(w, r, d, c, l) == [wishes |-> w, requests |-> r, drops |-> d, crashes |-> c, lost |-> l]

\* Any one request and one fault; no request and two faults; two requests and a crash.
RestorePlans ==
  {Plan(AllWishes, 1, 1, 0, 0), Plan(AllWishes, 1, 0, 1, 1), Plan({}, 0, 1, 1, 1),
   Plan({"local", "close"}, 2, 0, 1, 1)}

\* A request that is refused; a connection that breaks; a lost terminal over SSH; tabs
\* closed while they wait; a second restoration; a connection lost again while its
\* tabs are restored and a terminal is opened.
RefusedPlans   == {Plan({"fail"}, 1, 0, 0, 0)}
BrokenPlans    == {Plan({}, 0, 1, 0, 0)}
StrandedPlans  == {Plan({"ssh"}, 1, 0, 1, 1)}
ClosedPlans    == {Plan({"close"}, 1, 1, 0, 0)}
OvertakenPlans == {Plan({"quit", "local"}, 2, 0, 1, 0)}
LostAgainPlans == {Plan({"local"}, 1, 2, 0, 0)}
=============================================================================

----------------------------- MODULE MCStackWalk -----------------------------
(***************************************************************************)
(* A program for StackWalk: functions of every layout, one whose frame is  *)
(* too large, one with a rule the parser gave up on, one whose rule is in  *)
(* another library than the first that contains it, and main, which has a  *)
(* frame pointer and no rule.  SafeAccess::load is at 64, between the last *)
(* stub and main.                                                          *)
(***************************************************************************)
EXTENDS StackWalk, TLC

F(pc, kind, locals, by) == [pc |-> pc, kind |-> kind, locals |-> locals, by |-> by]

main    == F(80, "fp", 0, 0)
leaf    == F(33, "sp", 1, 0)
saver   == F(34, "saves", 0, 0)
big     == F(35, "sp", 8, 0)
gaveUp  == F(30, "sp", 0, 0)
cold    == F(29, "part", 0, 4)
stub    == F(53, "plt", 0, 0)
stubEnd == F(63, "plt", 0, 0)
bare    == F(36, "sp", 0, 0)

AllFunctions ==
  {main, leaf, saver, big, gaveUp, cold, stub, stubEnd, bare}

NoRule == [reg |-> "none", off |-> Word, how |-> "same", by |-> 0]

Rule(g) == g.pc :> TrueRule(g)

\* The second library's range begins inside the first one.
TwoLibraries ==
  <<[min |-> 16, max |-> 40,
     table |-> Rule(leaf) @@ Rule(saver) @@ Rule(big) @@ Rule(cold)
               @@ (gaveUp.pc :> NoRule)],
    [min |-> 36, max |-> 80, table |-> Rule(stub) @@ Rule(stubEnd) @@ Rule(bare)]>>
=============================================================================

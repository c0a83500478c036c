--------------------------- MODULE MCCgoContext ---------------------------
(* Small instances of CgoContext: the call chains of four call sites.       *)
EXTENDS CgoContext

CONSTANTS cLong, cShort, goMid, goDeep

\* 99 is an address in asmcgocall.  cLong and cShort are on the stack of a
\* thread that C created; goMid and goDeep are below asmcgocall, goDeep with
\* asmcgocall as the last frame that a cached stack of three entries holds.
MCWalk ==
  [s \in {cLong, cShort, goMid, goDeep} |->
     CASE s = cLong  -> <<11, 12>>
       [] s = cShort -> <<21>>
       [] s = goMid  -> <<31, 99, 39>>
       [] s = goDeep -> <<41, 42, 99, 49>>]

\* Signals at every step, or (the runtime unwinds no context when a signal
\* finds the thread in the unwinder) at every step but those.
EveryLabel == Labels
OutsideUnwinder == Labels \ TracebackLabels

=============================================================================

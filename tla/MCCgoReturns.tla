--------------------------- MODULE MCCgoReturns ---------------------------
(***************************************************************************)
(* Instances of CgoContext small enough for liveness.  An action           *)
(* constraint keeps three kinds of programs apart, so that calls,          *)
(* unwindings of interrupted C code and overlapping unwindings need not be *)
(* multiplied with each other.  It restricts calls, signals and the        *)
(* observer, never a step of the callbacks.                                *)
(***************************************************************************)
EXTENDS MCCgoContext

Pushed == top' > top
NoContexts == \A s \in Slots : saved[s] = NoSite
OnlyFrom(site) ==
  /\ top > 0 /\ act[1].pc # "sig" => act[1].site = site
  /\ \A s \in Slots : saved[s] \in {NoSite, site}

\* A thread of C code, with signals that find it at any site: no call of Go.
Direct ==
  /\ NoContexts
  /\ top' <= 1

\* Go calls C calls Go.  Unwindings of one call do not overlap: no other thread
\* unwinds this one, and no signal finds it in the unwinder.
Nested ==
  /\ \A s \in Slots : saved[s] # cLong
  /\ top' > 0 => act'[1].site # cLong
  /\ top' = MaxDepth => act'[top'].pc = "sig"
  /\ act'[0] = Idle
  /\ ~(Pushed /\ top > 0 /\ act[top].pc \in TracebackLabels)

\* One call with overlapping unwindings: in Go code, in a handler that can
\* interrupt each of their steps, and on another thread.
Shared ==
  /\ OnlyFrom(cLong)
  /\ Pushed => IF top = 0 THEN act'[1].site \in {cLong, NoSite}
                          ELSE act'[top'].pc \in {"traceback", "sig"}

Programs ==
  IF direct'.site # NoSite THEN Direct ELSE Nested \/ Shared
=============================================================================

--------------------------- MODULE CgoContextProofs ---------------------------
(***************************************************************************)
(* Proofs about CgoContext, for every pool, every set of call sites and    *)
(* chains, every depth, with an observer, signals and SetEnabled:          *)
(* TypeCorrect, SlotsExclusive and ReportsPrefix.                          *)
(*                                                                         *)
(* The control part of the inductive invariant, Control, says what the     *)
(* stack of activations looks like and who owns which slot.  A step of the *)
(* code is a Move of one activation, a Push or a Pop; three lemmas show    *)
(* that these keep Control, and two more that taking a slot and publishing *)
(* a context do.                                                           *)
(***************************************************************************)
EXTENDS CgoContext, TLAPS, WellFoundedInduction

CallLabels == {"context", "scan", "take", "reset", "save", "go", "release", "clear"}

Holder(f) == f.pc \in HoldingLabels /\ f.slot # 0

\* What an activation knows of its own registers at each label.
WellFormed(f) ==
  /\ f \in Frame
  /\ f.pc = "idle" => f = Idle
  /\ f.pc \in {"context", "scan", "take"} => f.slot = 0
  /\ f.pc = "take" => f.at \in Slots
  /\ f.pc = "scan" => f.at \in 1..(PoolSize + 1)
  /\ f.pc \in {"reset", "save", "release", "clear"} => f.slot \in Slots
  /\ f.pc \in TracebackLabels => f.slot \in Slots
  /\ f.pc \in CallLabels \cup TracebackLabels => f.site \in Sites
  /\ f.pc \in {"walk", "truncate"} => f.sc = f.site
  /\ f.pc \in {"traceback", "check"} => f.at = 0
  /\ f.pc = "walk" => f.at < WalkCount(f.sc, StackMax)
  /\ f.pc = "truncate" => f.at = WalkCount(f.sc, StackMax)

\* The observer only unwinds; activations fill the stack up to top.
Shape ==
  /\ top \in 0..MaxDepth
  /\ act \in [0..MaxDepth -> Frame]
  /\ \A d \in 0..MaxDepth : WellFormed(act[d])
  /\ act[0].pc \in TracebackLabels \cup {"idle"}
  /\ \A d \in Levels : act[d].pc = "idle" <=> d > top

\* SlotExclusive, and a slot about to be taken is none of those the calls below
\* own.  A call above may have taken it and given it back in the meantime.
Exclusive ==
  /\ \A i \in Levels : Holder(act[i]) => inuse[act[i].slot] = 1
  /\ \A i, j \in Levels :
       Holder(act[i]) /\ Holder(act[j]) /\ i # j => act[i].slot # act[j].slot
  /\ \A i, j \in Levels :
       act[i].pc = "take" /\ j < i /\ Holder(act[j]) => act[j].slot # act[i].at

\* Call i is in Go below activation d, with the slot and site d unwinds.
Traces(d, i) ==
  /\ act[i].pc = "go"
  /\ act[i].slot = act[d].slot
  /\ act[i].site = act[d].site
  /\ d = 0 \/ i < d

Traced ==
  \A d \in 0..MaxDepth :
    act[d].pc \in TracebackLabels => \E i \in Levels : Traces(d, i)

\* The registers in a published context are those of its call.
Saved ==
  \A i \in Levels : act[i].pc = "go" /\ act[i].slot # 0 => saved[act[i].slot] = act[i].site

Control ==
  /\ inuse \in [Slots -> {0, 1}]
  /\ saved \in [Slots -> Sites \cup {NoSite}]
  /\ Shape /\ Exclusive /\ Traced /\ Saved

-----------------------------------------------------------------------------
\* A walk stores at least one frame, and no more than the chain or the stack
\* has room for.
LEMMA WalkCountBounds ==
  ASSUME NEW s \in Sites
  PROVE  /\ WalkCount(s, StackMax) \in 1..StackMax
         /\ WalkCount(s, StackMax) <= Len(Walk[s])
         /\ Walk[s] \in [1..Len(Walk[s]) -> Nat \ {0}]
<1>1. Walk[s] \in Seq(Nat \ {0}) /\ Walk[s] # << >>
  BY WalkAssumption
<1>2. Len(Walk[s]) \in Nat \ {0}
  BY <1>1
<1> QED
  BY <1>1, <1>2, SizesAssumption DEF WalkCount, Least

\* A new activation, and the one of a level not in use.
LEMMA StartFrames ==
  ASSUME NEW l \in Labels, NEW t \in 0..PoolSize, NEW s \in Sites \cup {NoSite}
  PROVE  /\ Activation(l, t, s) \in Frame
         /\ Activation(l, t, s).pc = l
         /\ Activation(l, t, s).slot = t
         /\ Activation(l, t, s).site = s
         /\ Activation(l, t, s).at = 0
  BY DEF Activation, Frame

LEMMA StartWellFormed ==
  /\ \A s \in Sites : WellFormed(Activation("context", 0, s))
  /\ WellFormed(Activation("sig", 0, NoSite))
  /\ WellFormed(Idle)
<1>1. 0 \in 0..PoolSize /\ {"context", "sig", "idle"} \subseteq Labels
  BY SizesAssumption DEF Labels
<1> QED
  BY <1>1, StartFrames DEF WellFormed, Idle, Activation, CallLabels, TracebackLabels

\* One activation goes on in the same call: it keeps its slot and its site.
MoveOK(d, f) ==
  /\ d \in 0..MaxDepth
  /\ d \in {0, top}
  /\ act[d].pc # "idle"
  /\ act' = [act EXCEPT ![d] = f]
  /\ WellFormed(f)
  /\ f.pc # "idle"
  /\ f.slot = act[d].slot
  /\ f.site = act[d].site
  /\ f.pc \in TracebackLabels <=> act[d].pc \in TracebackLabels
  /\ f.pc \in CallLabels <=> act[d].pc \in CallLabels
  /\ act[d].pc = "go" => act[0].pc = "idle"
  /\ Holder(f) => Holder(act[d])
  /\ f.pc = "take" => inuse[f.at] = 0
  /\ f.pc = "go" => f.slot = 0
  /\ UNCHANGED <<top, inuse, saved>>

LEMMA MoveControl ==
  ASSUME Control, NEW d, NEW f, MoveOK(d, f)
  PROVE  Control'
<1> USE DEF Control, MoveOK
<1>1. /\ act \in [0..MaxDepth -> Frame]
      /\ f \in Frame
      /\ \A e \in 0..MaxDepth : act'[e] = IF e = d THEN f ELSE act[e]
  BY DEF Shape, WellFormed
<1>2. d = 0 => act[d].pc \in TracebackLabels
  BY DEF Shape
<1>3. d # 0 => d = top /\ d \in Levels
  BY DEF Shape, Levels
<1>4. Levels \subseteq 0..MaxDepth /\ 0 \notin Levels /\ 0 \in 0..MaxDepth
  BY SizesAssumption DEF Levels
<1>5. \A e \in Levels : e # d => act'[e] = act[e]
  BY <1>1, <1>4
<1>6. Shape'
  BY <1>1, <1>2, <1>3, <1>4 DEF Shape, Levels, WellFormed
<1>8. Exclusive'
  <2>1. \A i \in Levels : Holder(act'[i]) => Holder(act[i]) /\ act'[i].slot = act[i].slot
    BY <1>1, <1>4
  <2>2. ASSUME NEW i \in Levels, NEW j \in Levels,
               act'[i].pc = "take", j < i, Holder(act'[j])
        PROVE  act'[j].slot # act'[i].at
    <3>1. Holder(act[j]) /\ act'[j].slot = act[j].slot /\ inuse[act[j].slot] = 1
      BY <2>1, <2>2 DEF Exclusive
    <3>2. CASE i = d
      BY <2>2, <3>1, <3>2, <1>1, <1>4
    <3>3. CASE i # d
      BY <2>2, <3>1, <3>3, <1>5 DEF Exclusive
    <3> QED BY <3>2, <3>3
  <2> QED
    BY <2>1, <2>2 DEF Exclusive
<1>9. Traced'
  <2> SUFFICES ASSUME NEW e \in 0..MaxDepth, act'[e].pc \in TracebackLabels
               PROVE  \E i \in Levels : Traces(e, i)'
    BY DEF Traced
  <2>1. act[e].pc \in TracebackLabels /\ act'[e].slot = act[e].slot /\ act'[e].site = act[e].site
    BY <1>1
  <2>2. PICK i \in Levels : Traces(e, i)
    BY <2>1 DEF Traced
  <2>3. i # d
    <3>1. CASE e = 0
      BY <2>1, <2>2, <3>1, <1>4 DEF Traces, TracebackLabels
    <3>2. CASE e # 0
      BY <2>1, <2>2, <3>2, <1>3, <1>4 DEF Traces, Shape, Levels, TracebackLabels
    <3> QED BY <3>1, <3>2
  <2> QED
    BY <1>5, <2>1, <2>2, <2>3 DEF Traces
<1>10. Saved'
  BY <1>1, <1>4 DEF Saved
<1> QED
  BY <1>6, <1>8, <1>9, <1>10

\* The activation its thread executes returns; only a call that runs the
\* release code frees the slot it owns.
PopOK(d) ==
  /\ d \in 0..MaxDepth
  /\ d \in {0, top}
  /\ act[d].pc # "idle"
  /\ act[d].pc = "go" => act[0].pc = "idle"
  /\ act' = [act EXCEPT ![d] = Idle]
  /\ top' = IF d = 0 THEN top ELSE top - 1
  /\ \/ UNCHANGED inuse
     \/ act[d].pc = "clear" /\ inuse' = [inuse EXCEPT ![act[d].slot] = 0]
  /\ UNCHANGED saved

LEMMA PopControl ==
  ASSUME Control, NEW d, PopOK(d)
  PROVE  Control'
<1> USE DEF Control, PopOK
<1>1. /\ act \in [0..MaxDepth -> Frame]
      /\ \A e \in 0..MaxDepth : act'[e] = IF e = d THEN Idle ELSE act[e]
  BY DEF Shape, WellFormed
<1>2. WellFormed(Idle)
  BY StartWellFormed
<1>3. d # 0 => d = top /\ d \in Levels
  BY DEF Shape, Levels
<1>4. Levels \subseteq 0..MaxDepth /\ 0 \notin Levels /\ 0 \in 0..MaxDepth
  BY SizesAssumption DEF Levels
<1>5. \A e \in Levels : act'[e] = IF e = d THEN Idle ELSE act[e]
  BY <1>1, <1>4
<1>6. Shape'
  <2>1. top \in 0..MaxDepth /\ top \in Nat /\ MaxDepth \in Nat
    BY SizesAssumption DEF Shape
  <2>2. top' \in 0..MaxDepth
    BY <1>3, <2>1 DEF Levels
  <2>3. act' \in [0..MaxDepth -> Frame]
    BY <1>1, <1>2 DEF WellFormed
  <2>4. \A e \in 0..MaxDepth : WellFormed(act'[e])
    BY <1>1, <1>2 DEF Shape
  <2>5. act'[0].pc \in TracebackLabels \cup {"idle"}
    BY <1>1, <1>4 DEF Shape, Idle, Activation
  <2>6. ASSUME NEW e \in Levels
        PROVE  act'[e].pc = "idle" <=> e > top'
    <3>1. act[e].pc = "idle" <=> e > top
      BY DEF Shape
    <3>2. CASE e = d
      BY <3>2, <1>3, <1>4, <1>5, <2>1 DEF Idle, Activation
    <3>3. CASE e # d
      BY <3>1, <3>3, <1>3, <1>5, <2>1 DEF Levels
    <3> QED BY <3>2, <3>3
  <2>7. \A e \in Levels : act'[e].pc = "idle" <=> e > top'
    BY <2>6
  <2> HIDE <1>1, <1>2, <1>3, <1>4, <1>5
  <2> QED
    BY <2>2, <2>3, <2>4, <2>5, <2>7 DEF Shape
<1>8. Exclusive'
  <2>1. \A i \in Levels : Holder(act'[i]) => act'[i] = act[i] /\ i # d
    BY <1>4, <1>5 DEF Holder, HoldingLabels, Idle, Activation
  <2>2. \A i \in Levels : act'[i].pc = "take" => act'[i] = act[i] /\ i # d
    BY <1>4, <1>5 DEF Idle, Activation
  <2>3. ASSUME act[d].pc = "clear"
        PROVE  d \in Levels /\ Holder(act[d]) /\ act[d].slot \in Slots
    BY <2>3, <1>1, <1>3, <1>4 DEF Shape, WellFormed, Holder, HoldingLabels, TracebackLabels, Slots
  <2>4. \A i \in Levels : Holder(act'[i]) => inuse'[act'[i].slot] = 1
    <3> SUFFICES ASSUME NEW i \in Levels, Holder(act'[i])
                 PROVE  inuse'[act'[i].slot] = 1
      OBVIOUS
    <3>1. act'[i] = act[i] /\ i # d /\ Holder(act[i]) /\ inuse[act[i].slot] = 1
      BY <2>1 DEF Exclusive
    <3>2. act[i].slot \in Slots
      BY <3>1, <1>1, <1>4, SizesAssumption DEF Holder, Frame, Slots
    <3>3. act[d].pc = "clear" => act[i].slot # act[d].slot
      BY <3>1, <2>3 DEF Exclusive
    <3> QED
      BY <3>1, <3>2, <3>3
  <2>5. \A i, j \in Levels :
          act'[i].pc = "take" /\ j < i /\ Holder(act'[j]) => act'[j].slot # act'[i].at
    BY <2>1, <2>2 DEF Exclusive
  <2>6. \A i, j \in Levels :
          Holder(act'[i]) /\ Holder(act'[j]) /\ i # j => act'[i].slot # act'[j].slot
    BY <2>1 DEF Exclusive
  <2> QED
    BY <2>4, <2>5, <2>6 DEF Exclusive
<1>9. Traced'
  <2> SUFFICES ASSUME NEW e \in 0..MaxDepth, act'[e].pc \in TracebackLabels
               PROVE  \E i \in Levels : Traces(e, i)'
    BY DEF Traced
  <2>1. e # d /\ act'[e] = act[e]
    BY <1>1 DEF Idle, Activation, TracebackLabels
  <2>2. PICK i \in Levels : Traces(e, i)
    BY <2>1 DEF Traced
  <2>3. i # d
    <3>1. CASE e = 0
      BY <2>1, <2>2, <3>1, <1>4 DEF Traces, TracebackLabels
    <3>2. CASE e # 0
      BY <2>1, <2>2, <3>2, <1>3, <1>4 DEF Traces, Shape, Levels, TracebackLabels
    <3> QED BY <3>1, <3>2
  <2>4. act'[i] = act[i]
    BY <1>5, <2>3
  <2> QED
    BY <2>1, <2>2, <2>4 DEF Traces
<1>10. Saved'
  BY <1>5 DEF Saved, Idle, Activation
<1>11. inuse' \in [Slots -> {0, 1}]
  OBVIOUS
<1> QED
  BY <1>6, <1>8, <1>9, <1>10, <1>11

\* A call, a signal handler or an unwinding of a published context starts.
PushOK(f) ==
  /\ top < MaxDepth
  /\ top' = top + 1
  /\ act' = [act EXCEPT ![top + 1] = f]
  /\ WellFormed(f)
  /\ f.pc \in {"context", "traceback", "sig"}
  /\ f.pc = "traceback" =>
       \E i \in 1..top : act[i].pc = "go" /\ act[i].slot = f.slot /\ act[i].site = f.site
  /\ UNCHANGED <<inuse, saved>>

LEMMA PushControl ==
  ASSUME Control, NEW f, PushOK(f)
  PROVE  Control'
<1> USE DEF Control, PushOK
<1> DEFINE d == top + 1
<1>1. /\ top \in Nat
      /\ d \in Levels
      /\ act \in [0..MaxDepth -> Frame]
  BY SizesAssumption DEF Shape, Levels
<1>2. f \in Frame
  BY DEF WellFormed
<1>3. Levels \subseteq 0..MaxDepth /\ 0 \notin Levels /\ 0 \in 0..MaxDepth
  BY SizesAssumption DEF Levels
<1>4. \A e \in 0..MaxDepth : act'[e] = IF e = d THEN f ELSE act[e]
  BY <1>1, <1>3
<1>5. act[d] = Idle
  BY <1>1, <1>3 DEF Shape, WellFormed, Levels
<1> HIDE DEF d
<1>6. Shape'
  BY <1>1, <1>2, <1>3, <1>4 DEF Shape, Levels, d
<1>8. Exclusive'
  <2>1. ~Holder(f) /\ f.pc # "take"
    BY DEF Holder, HoldingLabels
  <2> QED
    BY <2>1, <1>3, <1>4 DEF Exclusive
<1>9. Traced'
  <2> SUFFICES ASSUME NEW e \in 0..MaxDepth, act'[e].pc \in TracebackLabels
               PROVE  \E i \in Levels : Traces(e, i)'
    BY DEF Traced
  <2>1. \A i \in Levels : act[i].pc = "go" => act'[i] = act[i]
    BY <1>3, <1>4, <1>5 DEF Idle, Activation
  <2>2. CASE e # d
    <3>1. PICK i \in Levels : Traces(e, i)
      BY <2>2, <1>4 DEF Traced
    <3> QED
      BY <3>1, <2>1, <2>2, <1>4 DEF Traces
  <2>3. CASE e = d
    <3>1. f.pc = "traceback"
      BY <2>3, <1>4 DEF TracebackLabels
    <3>2. PICK i \in 1..top :
            act[i].pc = "go" /\ act[i].slot = f.slot /\ act[i].site = f.site
      BY <3>1
    <3>3. i \in Levels /\ i < d
      BY <3>2, <1>1, SizesAssumption DEF Levels, d
    <3> QED
      BY <3>2, <3>3, <2>1, <2>3, <1>4 DEF Traces
  <2> QED
    BY <2>2, <2>3
<1>10. Saved'
  BY <1>3, <1>4 DEF Saved
<1> QED
  BY <1>6, <1>8, <1>9, <1>10

-----------------------------------------------------------------------------
(* Every step of the thread and of the observer keeps Control.               *)

LEMMA InitControl == Init => Control
<1> SUFFICES ASSUME Init PROVE Control
  OBVIOUS
<1>1. WellFormed(Idle)
  BY StartWellFormed
<1>2. \A d \in 0..MaxDepth : act[d] = Idle
  BY DEF Init
<1>3. Shape
  BY <1>1, <1>2, SizesAssumption DEF Init, Shape, WellFormed, Idle, Activation, Levels
<1>4. \A d \in Levels : act[d] = Idle
  BY <1>2, SizesAssumption DEF Levels
<1>5. Exclusive /\ Saved
  BY <1>4 DEF Exclusive, Saved, Idle, Activation, Holder, HoldingLabels
<1>6. Traced
  BY <1>2 DEF Traced, Idle, Activation, TracebackLabels
<1> QED
  BY <1>3, <1>5, <1>6 DEF Control, Init

\* What a step at label l may use of its activation.
LEMMA AtFacts ==
  ASSUME Control, NEW d \in 0..MaxDepth, NEW l, At(d, l), l # "idle"
  PROVE  /\ d \in {0, top}
         /\ act[d].pc = l
         /\ act[d] \in Frame
         /\ WellFormed(act[d])
         /\ l \notin TracebackLabels => d \in Levels /\ d = top
         /\ act \in [0..MaxDepth -> Frame]
  BY SizesAssumption DEF Control, Shape, At, Levels

\* A step of the code goes on in the same call, or returns from it.
LEMMA StepKinds ==
  ASSUME Control, NEW d \in 0..MaxDepth, CodeStep(d)
  PROVE  /\ d \in {0, top}
         /\ act[d].pc # "idle"
         /\ \/ \E f \in Frame :
                 /\ Goto(d, f)
                 /\ f.site = act[d].site
                 /\ f.pc \in TracebackLabels <=> act[d].pc \in TracebackLabels
                 /\ f.pc \in CallLabels <=> act[d].pc \in CallLabels
            \/ Pop(d)
<1> DEFINE Same(f) == /\ f \in Frame
                      /\ Goto(d, f)
                      /\ f.site = act[d].site
                      /\ f.pc \in TracebackLabels <=> act[d].pc \in TracebackLabels
                      /\ f.pc \in CallLabels <=> act[d].pc \in CallLabels
           Goal == d \in {0, top} /\ act[d].pc # "idle" /\ ((\E f : Same(f)) \/ Pop(d))
<1>1. act[d] \in Frame /\ WellFormed(act[d])
  BY DEF Control, Shape
<1>2. /\ act[d].at + 1 \in Nat
      /\ act[d].pc = "take" => act[d].at \in 0..PoolSize
      /\ act[d].pc = "check" => saved[act[d].slot] \in Sites \cup {NoSite}
  <2>1. act[d].at \in Nat
    BY <1>1 DEF Frame
  <2>2. act[d].pc = "take" => act[d].at \in Slots
    BY <1>1 DEF WellFormed
  <2>3. act[d].pc = "check" => act[d].slot \in Slots
    BY <1>1 DEF WellFormed, TracebackLabels
  <2> QED
    BY <2>1, <2>2, <2>3, SizesAssumption DEF Slots, Control
<1>3. CASE ContextEnter(d)
  <2>1. Same([act[d] EXCEPT !.pc = "scan", !.at = 1]) \/ Same([act[d] EXCEPT !.pc = "go"])
    BY <1>1, <1>3 DEF ContextEnter, At, Goto, Frame, Labels, TracebackLabels, CallLabels
  <2> QED
    BY <1>3, <2>1 DEF ContextEnter, At
<1>4. CASE GetScan(d)
  <2>1. \/ Same([act[d] EXCEPT !.pc = "go", !.at = 0])
        \/ Same([act[d] EXCEPT !.pc = "take"])
        \/ Same([act[d] EXCEPT !.at = act[d].at + 1])
    BY <1>1, <1>2, <1>4 DEF GetScan, At, Goto, Frame, Labels, TracebackLabels, CallLabels
  <2> QED
    BY <1>4, <2>1 DEF GetScan, At
<1>5. CASE GetTake(d)
  <2>1. Same([act[d] EXCEPT !.pc = "reset", !.slot = act[d].at, !.at = 0])
    BY <1>1, <1>2, <1>5 DEF GetTake, At, Goto, Frame, Labels, TracebackLabels, CallLabels
  <2> QED
    BY <1>5, <2>1 DEF GetTake, At
<1>6. CASE GetReset(d)
  <2>1. Same([act[d] EXCEPT !.pc = "save"])
    BY <1>1, <1>6 DEF GetReset, At, Goto, Frame, Labels, TracebackLabels, CallLabels
  <2> QED
    BY <1>6, <2>1 DEF GetReset, At
<1>7. CASE ContextSave(d)
  <2>1. Same([act[d] EXCEPT !.pc = "go"])
    BY <1>1, <1>7 DEF ContextSave, At, Goto, Frame, Labels, TracebackLabels, CallLabels
  <2> QED
    BY <1>7, <2>1 DEF ContextSave, At
<1>8. CASE ReleaseEnter(d)
  <2>1. Same([act[d] EXCEPT !.pc = "clear"]) \/ Pop(d)
    BY <1>1, <1>8 DEF ReleaseEnter, At, Goto, Frame, Labels, TracebackLabels, CallLabels
  <2> QED
    BY <1>8, <2>1 DEF ReleaseEnter, At
<1>9. CASE ReleaseClear(d)
  BY <1>9 DEF ReleaseClear, At
<1>10. CASE TracebackEnter(d)
  <2>1. Same([act[d] EXCEPT !.pc = "check"]) \/ Pop(d)
    BY <1>1, <1>10 DEF TracebackEnter, At, Goto, Frame, Labels, TracebackLabels, CallLabels
  <2> QED
    BY <1>10, <2>1 DEF TracebackEnter, At
<1>11. CASE TracebackCheck(d)
  <2>1. \/ Same([act[d] EXCEPT !.pc = "walk", !.sc = saved[act[d].slot]])
        \/ Same([act[d] EXCEPT !.pc = "copy"])
    BY <1>1, <1>2, <1>11
    DEF TracebackCheck, At, Goto, Frame, Labels, TracebackLabels, CallLabels
  <2> QED
    BY <1>11, <2>1 DEF TracebackCheck, At
<1>12. CASE WalkStep(d)
  <2>1. \/ Same([act[d] EXCEPT !.at = act[d].at + 1, !.pc = "walk"])
        \/ Same([act[d] EXCEPT !.at = act[d].at + 1, !.pc = "truncate"])
    BY <1>1, <1>2, <1>12
    DEF WalkStep, At, Goto, Frame, Labels, TracebackLabels, CallLabels
  <2> QED
    BY <1>12, <2>1 DEF WalkStep, At
<1>13. CASE TracebackTruncate(d)
  <2>1. Same([act[d] EXCEPT !.pc = "mark", !.at = 0])
    BY <1>1, <1>13 DEF TracebackTruncate, At, Goto, Frame, Labels, TracebackLabels, CallLabels
  <2> QED
    BY <1>13, <2>1 DEF TracebackTruncate, At
<1>14. CASE TracebackMark(d)
  <2>1. Same([act[d] EXCEPT !.pc = "copy"])
    BY <1>1, <1>14 DEF TracebackMark, At, Goto, Frame, Labels, TracebackLabels, CallLabels
  <2> QED
    BY <1>14, <2>1 DEF TracebackMark, At
<1>15. CASE TracebackCopy(d)
  BY <1>15 DEF TracebackCopy, At
<1>16. Goal
  BY <1>3, <1>4, <1>5, <1>6, <1>7, <1>8, <1>9, <1>10, <1>11, <1>12, <1>13, <1>14, <1>15
  DEF CodeStep
<1> QED
  BY <1>16

LEMMA ContextSteps ==
  ASSUME Control, NEW d \in 0..MaxDepth,
         ContextEnter(d) \/ GetScan(d) \/ GetReset(d)
  PROVE  Control'
<1>1. CASE ContextEnter(d)
  <2> DEFINE f == IF enabled THEN [act[d] EXCEPT !.pc = "scan", !.at = 1]
                             ELSE [act[d] EXCEPT !.pc = "go"]
  <2>1. /\ d = top /\ act[d].pc = "context" /\ WellFormed(act[d]) /\ act[d] \in Frame
        /\ act' = [act EXCEPT ![d] = f]
        /\ UNCHANGED <<top, inuse, saved>>
    BY <1>1, AtFacts DEF ContextEnter, Goto, pool, TracebackLabels
  <2>a. /\ f \in Frame /\ f.slot = 0 /\ f.site = act[d].site /\ f.site \in Sites
        /\ f.pc = "go" \/ (f.pc = "scan" /\ f.at = 1)
    BY <2>1, SizesAssumption DEF WellFormed, Frame, Labels, CallLabels
  <2> HIDE DEF f
  <2>2. WellFormed(f)
    BY <2>a, SizesAssumption DEF WellFormed, CallLabels, TracebackLabels, Slots
  <2>3. MoveOK(d, f)
    BY <2>1, <2>2, <2>a, SizesAssumption
    DEF MoveOK, WellFormed, Frame, CallLabels, TracebackLabels, Holder, HoldingLabels
  <2> QED
    BY <2>3, MoveControl
<1>2. CASE GetScan(d)
  <2>1. /\ d = top /\ act[d].pc = "scan" /\ WellFormed(act[d]) /\ act[d] \in Frame
        /\ UNCHANGED <<top, inuse, saved>>
    BY <1>2, AtFacts DEF GetScan, Goto, pool, TracebackLabels
  <2>2. PICK f \in {[act[d] EXCEPT !.pc = "go", !.at = 0],
                    [act[d] EXCEPT !.pc = "take"],
                    [act[d] EXCEPT !.at = act[d].at + 1]} :
          /\ act' = [act EXCEPT ![d] = f]
          /\ f.pc = "take" => f.at \in Slots /\ inuse[f.at] = 0
          /\ f.pc = "scan" => f.at \in 1..(PoolSize + 1)
    BY <1>2, <2>1, SizesAssumption DEF GetScan, Goto, Frame, Slots, WellFormed
  <2>a. /\ f \in Frame /\ f.slot = 0 /\ f.site = act[d].site /\ f.site \in Sites
        /\ f.pc \in {"go", "take", "scan"}
    <3>1. act[d].slot = 0 /\ act[d].site \in Sites /\ act[d].at + 1 \in Nat
      BY <2>1 DEF WellFormed, Frame, CallLabels
    <3>2. CASE f = [act[d] EXCEPT !.pc = "go", !.at = 0]
      BY <2>1, <3>1, <3>2 DEF Frame, Labels
    <3>3. CASE f = [act[d] EXCEPT !.pc = "take"]
      BY <2>1, <3>1, <3>3 DEF Frame, Labels
    <3>4. CASE f = [act[d] EXCEPT !.at = act[d].at + 1]
      BY <2>1, <3>1, <3>4 DEF Frame, Labels
    <3> QED
      BY <2>2, <3>2, <3>3, <3>4
  <2>3. WellFormed(f)
    BY <2>2, <2>a DEF WellFormed, CallLabels, TracebackLabels
  <2>4. MoveOK(d, f)
    BY <2>1, <2>2, <2>a, <2>3
    DEF MoveOK, WellFormed, CallLabels, TracebackLabels, Holder
  <2> QED
    BY <2>4, MoveControl
<1>3. CASE GetReset(d)
  <2> DEFINE f == [act[d] EXCEPT !.pc = "save"]
  <2>1. /\ d = top /\ act[d].pc = "reset" /\ WellFormed(act[d]) /\ act[d] \in Frame
        /\ act' = [act EXCEPT ![d] = f]
        /\ UNCHANGED <<top, inuse, saved>>
    BY <1>3, AtFacts DEF GetReset, Goto, pool, TracebackLabels
  <2>2. WellFormed(f)
    BY <2>1 DEF WellFormed, Frame, Labels, CallLabels, TracebackLabels, Idle, Activation
  <2>3. MoveOK(d, f)
    BY <2>1, <2>2
    DEF MoveOK, WellFormed, Frame, CallLabels, TracebackLabels, Holder, HoldingLabels
  <2> QED
    BY <2>3, MoveControl
<1> QED
  BY <1>1, <1>2, <1>3

\* cgo_context_get takes a slot nobody holds: every holder's slot is in use.
LEMMA TakeControl ==
  ASSUME Control, NEW d \in 0..MaxDepth, GetTake(d)
  PROVE  Control'
<1> DEFINE f == [act[d] EXCEPT !.pc = "reset", !.slot = act[d].at, !.at = 0]
<1> USE DEF Control
<1>1. /\ d = top /\ d \in Levels /\ act[d].pc = "take" /\ WellFormed(act[d])
      /\ act[d] \in Frame
      /\ act \in [0..MaxDepth -> Frame]
      /\ act' = [act EXCEPT ![d] = f]
      /\ inuse' = [inuse EXCEPT ![act[d].at] = 1]
      /\ UNCHANGED <<top, saved>>
  BY AtFacts DEF GetTake, Goto, TracebackLabels
<1>2. /\ f \in Frame /\ f.pc = "reset" /\ f.slot = act[d].at /\ f.slot \in Slots
      /\ f.slot # 0
      /\ f.site = act[d].site /\ f.site \in Sites
  <2>1. act[d].at \in Slots /\ act[d].site \in Sites
    BY <1>1 DEF WellFormed, CallLabels
  <2>2. act[d].at \in 0..PoolSize /\ act[d].at # 0
    BY <2>1, SizesAssumption DEF Slots
  <2> QED
    BY <1>1, <2>1, <2>2 DEF Frame, Labels
<1>4. inuse' = [inuse EXCEPT ![f.slot] = 1]
  BY <1>1, <1>2
<1> HIDE DEF f
<1>5. WellFormed(f)
  BY <1>2 DEF WellFormed, CallLabels, TracebackLabels, Slots
<1>6. Levels \subseteq 0..MaxDepth /\ 0 \notin Levels /\ 0 \in 0..MaxDepth
  BY SizesAssumption DEF Levels
<1>7. \A e \in 0..MaxDepth : act'[e] = IF e = d THEN f ELSE act[e]
  BY <1>1
<1>8. Shape'
  <2>1. act' \in [0..MaxDepth -> Frame]
    BY <1>1, <1>2
  <2> QED
    BY <1>1, <1>2, <1>5, <1>6, <1>7, <2>1 DEF Shape
<1>10. Exclusive'
  <2>1. \A i \in Levels : i # d /\ act[i].pc # "idle" => i < d
    BY <1>1 DEF Shape, Levels
  <2>2. \A i \in Levels : i # d /\ Holder(act[i]) =>
           act[i].slot \in Slots /\ act[i].slot # f.slot /\ inuse[act[i].slot] = 1
    <3> SUFFICES ASSUME NEW i \in Levels, i # d, Holder(act[i])
                 PROVE  act[i].slot \in Slots /\ act[i].slot # f.slot /\ inuse[act[i].slot] = 1
      OBVIOUS
    <3>1. act[i].slot \in Slots
      BY <1>1, <1>6, SizesAssumption DEF Frame, Holder, Slots
    <3>2. act[i].slot # act[d].at
      BY <2>1, <1>1 DEF Exclusive, Holder, HoldingLabels
    <3> QED
      BY <3>1, <3>2, <1>2 DEF Exclusive
  <2>3. \A i \in Levels : Holder(act'[i]) => inuse'[act'[i].slot] = 1
    BY <1>2, <1>4, <1>6, <1>7, <2>2
  <2>4. \A i, j \in Levels :
          Holder(act'[i]) /\ Holder(act'[j]) /\ i # j => act'[i].slot # act'[j].slot
    BY <1>6, <1>7, <2>2 DEF Exclusive
  <2>5. \A i, j \in Levels :
          act'[i].pc = "take" /\ j < i /\ Holder(act'[j]) => act'[j].slot # act'[i].at
    <3> SUFFICES ASSUME NEW i \in Levels, NEW j \in Levels,
                        act'[i].pc = "take", j < i, Holder(act'[j])
                 PROVE  act'[j].slot # act'[i].at
      OBVIOUS
    <3>1. i # d /\ act'[i] = act[i]
      BY <1>2, <1>6, <1>7
    <3>2. i < d
      BY <2>1, <3>1
    <3>3. j # d /\ act'[j] = act[j]
      BY <3>2, <1>1, <1>6, <1>7 DEF Levels
    <3> QED
      BY <3>1, <3>3 DEF Exclusive
  <2> QED
    BY <2>3, <2>4, <2>5 DEF Exclusive
<1>11. Traced'
  <2> SUFFICES ASSUME NEW e \in 0..MaxDepth, act'[e].pc \in TracebackLabels
               PROVE  \E i \in Levels : Traces(e, i)'
    BY DEF Traced
  <2>1. e # d /\ act'[e] = act[e]
    BY <1>2, <1>7 DEF TracebackLabels
  <2>2. PICK i \in Levels : Traces(e, i)
    BY <2>1 DEF Traced
  <2>3. i # d /\ act'[i] = act[i]
    BY <2>2, <1>1, <1>6, <1>7 DEF Traces
  <2> QED
    BY <2>1, <2>2, <2>3 DEF Traces
<1>12. Saved'
  BY <1>1, <1>2, <1>6, <1>7 DEF Saved
<1> QED
  BY <1>1, <1>4, <1>8, <1>10, <1>11, <1>12

\* A published context holds the registers of its own call, and those of the
\* other calls stay as they are.
LEMMA PublishControl ==
  ASSUME Control, NEW d \in 0..MaxDepth, ContextSave(d)
  PROVE  Control'
<1> DEFINE f == [act[d] EXCEPT !.pc = "go"]
<1> USE DEF Control
<1>1. /\ d = top /\ d \in Levels /\ act[d].pc = "save" /\ WellFormed(act[d])
      /\ act[d] \in Frame
      /\ act \in [0..MaxDepth -> Frame]
      /\ act' = [act EXCEPT ![d] = f]
      /\ saved' = [saved EXCEPT ![act[d].slot] = act[d].site]
      /\ UNCHANGED <<top, inuse>>
  BY AtFacts DEF ContextSave, Goto, TracebackLabels
<1>2. /\ f \in Frame /\ f.pc = "go" /\ f.slot = act[d].slot /\ f.slot \in Slots
      /\ f.slot # 0
      /\ f.site = act[d].site /\ f.site \in Sites
  <2>1. act[d].slot \in Slots /\ act[d].slot # 0 /\ act[d].site \in Sites
    BY <1>1, SizesAssumption DEF WellFormed, CallLabels, Slots
  <2> QED
    BY <1>1, <2>1 DEF Frame, Labels
<1> HIDE DEF f
<1>3. saved' = [saved EXCEPT ![f.slot] = f.site]
  BY <1>1, <1>2
<1>4. WellFormed(f)
  BY <1>2 DEF WellFormed, CallLabels, TracebackLabels, Slots
<1>5. Levels \subseteq 0..MaxDepth /\ 0 \notin Levels /\ 0 \in 0..MaxDepth
  BY SizesAssumption DEF Levels
<1>6. \A e \in 0..MaxDepth : act'[e] = IF e = d THEN f ELSE act[e]
  BY <1>1
<1>7. Holder(act[d])
  BY <1>1, <1>2 DEF Holder, HoldingLabels
<1>8. Shape'
  <2>1. act' \in [0..MaxDepth -> Frame]
    BY <1>1, <1>2
  <2> QED
    BY <1>1, <1>2, <1>4, <1>5, <1>6, <2>1 DEF Shape
<1>10. Exclusive'
  <2>1. \A i \in Levels : Holder(act'[i]) => Holder(act[i]) /\ act'[i].slot = act[i].slot
    BY <1>2, <1>5, <1>6, <1>7
  <2>2. \A i \in Levels : act'[i].pc = "take" => act'[i] = act[i]
    BY <1>2, <1>5, <1>6
  <2>3. \A i \in Levels : Holder(act'[i]) => inuse'[act'[i].slot] = 1
    BY <1>1, <2>1 DEF Exclusive
  <2>4. \A i, j \in Levels :
          Holder(act'[i]) /\ Holder(act'[j]) /\ i # j => act'[i].slot # act'[j].slot
    BY <2>1 DEF Exclusive
  <2>5. \A i, j \in Levels :
          act'[i].pc = "take" /\ j < i /\ Holder(act'[j]) => act'[j].slot # act'[i].at
    BY <2>1, <2>2 DEF Exclusive
  <2> QED
    BY <2>3, <2>4, <2>5 DEF Exclusive
<1>11. Traced'
  <2> SUFFICES ASSUME NEW e \in 0..MaxDepth, act'[e].pc \in TracebackLabels
               PROVE  \E i \in Levels : Traces(e, i)'
    BY DEF Traced
  <2>1. e # d /\ act'[e] = act[e]
    BY <1>2, <1>6 DEF TracebackLabels
  <2>2. PICK i \in Levels : Traces(e, i)
    BY <2>1 DEF Traced
  <2>3. i # d /\ act'[i] = act[i]
    BY <2>2, <1>1, <1>5, <1>6 DEF Traces
  <2> QED
    BY <2>1, <2>2, <2>3 DEF Traces
<1>12. Saved'
  <2> SUFFICES ASSUME NEW i \in Levels, act'[i].pc = "go", act'[i].slot # 0
               PROVE  saved'[act'[i].slot] = act'[i].site
    BY DEF Saved
  <2>1. CASE i = d
    BY <2>1, <1>2, <1>3, <1>5, <1>6
  <2>2. CASE i # d
    <3>1. act'[i] = act[i] /\ Holder(act[i])
      BY <2>2, <1>5, <1>6 DEF Holder, HoldingLabels
    <3>2. act[i].slot # f.slot
      BY <3>1, <2>2, <1>1, <1>2, <1>7 DEF Exclusive
    <3>3. act[i].slot \in Slots
      BY <3>1, <1>1, <1>5, SizesAssumption DEF Frame, Holder, Slots
    <3> QED
      BY <3>1, <3>2, <3>3, <1>3 DEF Saved
  <2> QED
    BY <2>1, <2>2
<1>13. saved' \in [Slots -> Sites \cup {NoSite}]
  BY <1>2, <1>3
<1> QED
  BY <1>1, <1>8, <1>10, <1>11, <1>12, <1>13

LEMMA ReleaseSteps ==
  ASSUME Control, NEW d \in 0..MaxDepth,
         ReleaseEnter(d) \/ ReleaseClear(d)
  PROVE  Control'
<1>1. CASE ReleaseEnter(d)
  <2>1. /\ d = top /\ d \in Levels /\ act[d].pc = "release" /\ WellFormed(act[d])
        /\ act[d] \in Frame
        /\ UNCHANGED <<inuse, saved>>
    BY <1>1, AtFacts DEF ReleaseEnter, pool, TracebackLabels
  <2>2. CASE enabled
    <3> DEFINE f == [act[d] EXCEPT !.pc = "clear"]
    <3>1. act' = [act EXCEPT ![d] = f] /\ UNCHANGED top
      BY <1>1, <2>2 DEF ReleaseEnter, Goto
    <3>2. WellFormed(f)
      BY <2>1 DEF WellFormed, Frame, Labels, CallLabels, TracebackLabels, Idle, Activation
    <3>3. MoveOK(d, f)
      BY <2>1, <3>1, <3>2
      DEF MoveOK, WellFormed, Frame, CallLabels, TracebackLabels, Holder, HoldingLabels
    <3> QED
      BY <3>3, MoveControl
  <2>3. CASE ~enabled
    <3>1. PopOK(d)
      BY <1>1, <2>1, <2>3 DEF ReleaseEnter, Pop, PopOK
    <3> QED
      BY <3>1, PopControl
  <2> QED
    BY <2>2, <2>3
<1>2. CASE ReleaseClear(d)
  <2>1. d = top /\ act[d].pc = "clear"
    BY <1>2, AtFacts DEF ReleaseClear, TracebackLabels
  <2>2. PopOK(d)
    BY <1>2, <2>1 DEF ReleaseClear, Pop, PopOK
  <2> QED
    BY <2>2, PopControl
<1> QED
  BY <1>1, <1>2

LEMMA TracebackSteps ==
  ASSUME Control, NEW d \in 0..MaxDepth,
         \/ TracebackEnter(d) \/ TracebackCheck(d) \/ WalkStep(d)
         \/ TracebackTruncate(d) \/ TracebackMark(d) \/ TracebackCopy(d)
  PROVE  Control'
<1> DEFINE Keeps(f) == /\ act' = [act EXCEPT ![d] = f]
                       /\ f \in Frame
                       /\ f.pc \in TracebackLabels
                       /\ f.slot = act[d].slot
                       /\ f.site = act[d].site
                       /\ UNCHANGED <<top, inuse, saved>>
<1>1. ASSUME NEW f, Keeps(f), WellFormed(f),
             d \in {0, top}, act[d].pc \in TracebackLabels
      PROVE  Control'
  <2>1. MoveOK(d, f)
    BY <1>1 DEF MoveOK, TracebackLabels, CallLabels, Holder, HoldingLabels
  <2> QED
    BY <2>1, MoveControl
<1>2. ASSUME d \in {0, top}, act[d].pc \in TracebackLabels, Pop(d), UNCHANGED <<inuse, saved>>
      PROVE  Control'
  <2>1. PopOK(d)
    BY <1>2 DEF Pop, PopOK, TracebackLabels
  <2> QED
    BY <2>1, PopControl
<1>3. CASE TracebackEnter(d)
  <2>1. /\ d \in {0, top} /\ act[d].pc = "traceback" /\ WellFormed(act[d])
        /\ act[d] \in Frame
        /\ UNCHANGED <<inuse, saved>>
    BY <1>3, AtFacts DEF TracebackEnter, pool
  <2>2. CASE enabled
    <3> DEFINE f == [act[d] EXCEPT !.pc = "check"]
    <3>1. WellFormed(f)
      BY <2>1 DEF WellFormed, Frame, Labels, CallLabels, TracebackLabels
    <3>2. Keeps(f)
      BY <1>3, <2>1, <2>2 DEF TracebackEnter, Goto, Frame, Labels, TracebackLabels
    <3> QED
      BY <1>1, <2>1, <3>1, <3>2 DEF TracebackLabels
  <2>3. CASE ~enabled
    BY <1>2, <1>3, <2>1, <2>3 DEF TracebackEnter, TracebackLabels
  <2> QED
    BY <2>2, <2>3
<1>4. CASE TracebackCheck(d)
  <2>1. /\ d \in {0, top} /\ act[d].pc = "check" /\ WellFormed(act[d])
        /\ act[d] \in Frame
        /\ UNCHANGED <<top, inuse, saved>>
    BY <1>4, AtFacts DEF TracebackCheck, Goto, pool
  <2>2. /\ act[d].slot \in Slots /\ act[d].slot # 0
        /\ act[d].site \in Sites /\ act[d].at = 0
    BY <2>1, SizesAssumption DEF WellFormed, TracebackLabels, CallLabels, Slots
  <2>3. saved[act[d].slot] = act[d].site
    <3>1. PICK i \in Levels : Traces(d, i)
      BY <2>1 DEF Control, Traced, TracebackLabels
    <3> QED
      BY <3>1, <2>2 DEF Control, Saved, Traces
  <2>4. CASE cached[act[d].slot] = 0
    <3> DEFINE f == [act[d] EXCEPT !.pc = "walk", !.sc = act[d].site]
    <3>1. /\ act' = [act EXCEPT ![d] = f]
          /\ f \in Frame /\ f.pc = "walk" /\ f.slot = act[d].slot
          /\ f.site = act[d].site /\ f.sc = act[d].site /\ f.at = 0
      BY <1>4, <2>1, <2>2, <2>3, <2>4 DEF TracebackCheck, Goto, Frame, Labels
    <3> HIDE DEF f
    <3>2. 0 < WalkCount(f.sc, StackMax)
      BY <3>1, <2>2, WalkCountBounds
    <3>3. WellFormed(f)
      BY <2>2, <3>1, <3>2 DEF WellFormed, CallLabels, TracebackLabels
    <3> QED
      BY <1>1, <2>1, <3>1, <3>3 DEF TracebackLabels
  <2>5. CASE cached[act[d].slot] # 0
    <3> DEFINE f == [act[d] EXCEPT !.pc = "copy"]
    <3>1. WellFormed(f)
      BY <2>1 DEF WellFormed, Frame, Labels, CallLabels, TracebackLabels
    <3>2. Keeps(f)
      BY <1>4, <2>1, <2>5 DEF TracebackCheck, Goto, Frame, Labels, TracebackLabels
    <3> QED
      BY <1>1, <2>1, <3>1, <3>2 DEF TracebackLabels
  <2> QED
    BY <2>4, <2>5
<1>5. CASE WalkStep(d)
  <2> DEFINE n == act[d].at + 1
             f == [act[d] EXCEPT !.at = n,
                                 !.pc = IF n < WalkCount(act[d].sc, StackMax)
                                          THEN "walk" ELSE "truncate"]
  <2>1. /\ d \in {0, top} /\ act[d].pc = "walk" /\ WellFormed(act[d])
        /\ act[d] \in Frame
        /\ act' = [act EXCEPT ![d] = f]
        /\ UNCHANGED <<top, inuse, saved>>
    BY <1>5, AtFacts DEF WalkStep, Goto
  <2>2. /\ act[d].site \in Sites /\ act[d].sc = act[d].site /\ act[d].slot \in Slots
        /\ act[d].at \in Nat /\ act[d].at < WalkCount(act[d].sc, StackMax)
    BY <2>1 DEF WellFormed, TracebackLabels, Frame
  <2>3. WalkCount(act[d].sc, StackMax) \in Nat
    BY <2>2, WalkCountBounds, SizesAssumption
  <2>4. /\ f \in Frame /\ f.slot = act[d].slot /\ f.site = act[d].site
        /\ f.sc = act[d].sc /\ f.at = n /\ n \in Nat
        /\ \/ f.pc = "walk" /\ n < WalkCount(act[d].sc, StackMax)
           \/ f.pc = "truncate" /\ n = WalkCount(act[d].sc, StackMax)
    <3>1. n \in Nat /\ (n < WalkCount(act[d].sc, StackMax) \/ n = WalkCount(act[d].sc, StackMax))
      BY <2>2, <2>3
    <3>2. CASE n < WalkCount(act[d].sc, StackMax)
      <4>1. f = [act[d] EXCEPT !.at = n, !.pc = "walk"]
        BY <3>2
      <4> HIDE DEF f, n
      <4> QED
        BY <2>1, <3>1, <3>2, <4>1 DEF Frame, Labels
    <3>3. CASE n = WalkCount(act[d].sc, StackMax)
      <4>1. f = [act[d] EXCEPT !.at = n, !.pc = "truncate"]
        <5>1. ~(n < WalkCount(act[d].sc, StackMax))
          BY <3>1, <3>3, <2>3
        <5> HIDE DEF n
        <5> QED
          BY <5>1
      <4> HIDE DEF f, n
      <4> QED
        BY <2>1, <3>1, <3>3, <4>1 DEF Frame, Labels
    <3> QED
      BY <3>1, <3>2, <3>3
  <2> HIDE DEF f
  <2>5. WellFormed(f)
    BY <2>2, <2>4 DEF WellFormed, CallLabels, TracebackLabels
  <2> QED
    BY <1>1, <2>1, <2>4, <2>5 DEF TracebackLabels
<1>6. CASE TracebackTruncate(d)
  <2> DEFINE f == [act[d] EXCEPT !.pc = "mark", !.at = 0]
  <2>1. /\ d \in {0, top} /\ act[d].pc = "truncate" /\ WellFormed(act[d])
        /\ act[d] \in Frame
        /\ act' = [act EXCEPT ![d] = f]
        /\ UNCHANGED <<top, inuse, saved>>
    BY <1>6, AtFacts DEF TracebackTruncate, Goto
  <2>2. WellFormed(f)
    BY <2>1 DEF WellFormed, Frame, Labels, CallLabels, TracebackLabels
  <2> QED
    BY <1>1, <2>1, <2>2 DEF TracebackLabels, Frame, Labels
<1>7. CASE TracebackMark(d)
  <2> DEFINE f == [act[d] EXCEPT !.pc = "copy"]
  <2>1. /\ d \in {0, top} /\ act[d].pc = "mark" /\ WellFormed(act[d])
        /\ act[d] \in Frame
        /\ act' = [act EXCEPT ![d] = f]
        /\ UNCHANGED <<top, inuse, saved>>
    BY <1>7, AtFacts DEF TracebackMark, Goto
  <2>2. WellFormed(f)
    BY <2>1 DEF WellFormed, Frame, Labels, CallLabels, TracebackLabels
  <2> QED
    BY <1>1, <2>1, <2>2 DEF TracebackLabels, Frame, Labels
<1>8. CASE TracebackCopy(d)
  BY <1>2, <1>8, AtFacts DEF TracebackCopy, TracebackLabels, pool
<1> QED
  BY <1>3, <1>4, <1>5, <1>6, <1>7, <1>8

\* The observer starts to unwind a published context.
LEMMA ObserverControl ==
  ASSUME Control, NEW k \in Levels, ObserverTraceback(k)
  PROVE  Control'
<1> USE DEF Control
<1> DEFINE f == Unwinding(k)
<1>1. Levels \subseteq 0..MaxDepth /\ 0 \notin Levels /\ 0 \in 0..MaxDepth
  BY SizesAssumption DEF Levels
<1>2. /\ act[0].pc = "idle"
      /\ act \in [0..MaxDepth -> Frame]
      /\ act[k].pc = "go" /\ act[k].slot # 0 /\ WellFormed(act[k])
      /\ act' = [act EXCEPT ![0] = f]
      /\ UNCHANGED <<top, inuse, saved>>
  BY <1>1 DEF ObserverTraceback, Goto, Published, Idle, Activation, pool, Shape
<1>3. act[k].slot \in Slots /\ act[k].site \in Sites
  <2>1. act[k] \in Frame
    BY <1>1, <1>2
  <2> QED
    BY <1>2, <2>1, SizesAssumption DEF WellFormed, CallLabels, Frame, Slots
<1>4. /\ f \in Frame /\ f.pc = "traceback" /\ f.slot = act[k].slot /\ f.at = 0
      /\ f.site = act[k].site
  <2>1. "traceback" \in Labels /\ Slots \subseteq 0..PoolSize
    BY SizesAssumption DEF Labels, Slots
  <2>2. act[k].slot \in 0..PoolSize /\ act[k].site \in Sites \cup {NoSite}
    BY <1>3, <2>1
  <2>3. f = Activation("traceback", act[k].slot, act[k].site)
    BY DEF Unwinding
  <2> HIDE DEF f
  <2> QED
    BY <2>1, <2>2, <2>3, StartFrames
<1> HIDE DEF f
<1>5. WellFormed(f)
  BY <1>3, <1>4 DEF WellFormed, CallLabels, TracebackLabels
<1>6. \A e \in 0..MaxDepth : act'[e] = IF e = 0 THEN f ELSE act[e]
  BY <1>1, <1>2
<1>7. \A e \in Levels : act'[e] = act[e]
  BY <1>1, <1>6
<1>8. Shape'
  <2>1. act' \in [0..MaxDepth -> Frame]
    BY <1>2, <1>4
  <2> QED
    BY <1>1, <1>2, <1>4, <1>5, <1>6, <1>7, <2>1 DEF Shape, TracebackLabels
<1>9. Saved'
  BY <1>2, <1>7 DEF Saved
<1>10. Exclusive'
  BY <1>2, <1>7 DEF Exclusive
<1>11. Traced'
  <2> SUFFICES ASSUME NEW e \in 0..MaxDepth, act'[e].pc \in TracebackLabels
               PROVE  \E i \in Levels : Traces(e, i)'
    BY DEF Traced
  <2>1. CASE e = 0
    <3>1. Traces(e, k)'
      BY <2>1, <1>1, <1>2, <1>4, <1>6, <1>7 DEF Traces
    <3> QED BY <3>1
  <2>2. CASE e # 0
    <3>1. act'[e] = act[e]
      BY <2>2, <1>6
    <3>2. PICK i \in Levels : Traces(e, i)
      BY <3>1 DEF Traced
    <3> QED
      BY <3>1, <3>2, <1>7 DEF Traces
  <2> QED
    BY <2>1, <2>2
<1> QED
  BY <1>2, <1>8, <1>9, <1>10, <1>11

\* The steps of the runtime and of the kernel.
LEMMA EnvironmentSteps ==
  ASSUME Control,
         \/ \E site \in Sites : CallGo(site) \/ TracebackDirect(site)
         \/ \E i \in Levels : CallTraceback(i)
         \/ GoReturn \/ Signal \/ SigReturn
         \/ \E value \in BOOLEAN : SetEnabled(value)
  PROVE  Control'
<1>0. top \in 0..MaxDepth /\ act \in [0..MaxDepth -> Frame] /\ MaxDepth \in Nat
  BY SizesAssumption DEF Control, Shape
<1>1. ASSUME NEW site \in Sites, CallGo(site)
      PROVE  Control'
  <2> DEFINE f == Activation("context", 0, site)
  <2>1. WellFormed(f)
    BY StartWellFormed
  <2>2. PushOK(f)
    BY <1>1, <2>1 DEF CallGo, Push, PushOK, Activation, pool
  <2> QED
    BY <2>2, PushControl
<1>2. ASSUME NEW site \in Sites, TracebackDirect(site)
      PROVE  Control'
  BY <1>2 DEF TracebackDirect, pool, Control, Shape, Exclusive, Traced, Traces, Saved
<1>3. ASSUME NEW i \in Levels, CallTraceback(i)
      PROVE  Control'
  <2> DEFINE f == Unwinding(i)
  <2>1. act[i].pc = "go" /\ act[i].slot # 0 /\ WellFormed(act[i]) /\ act[i] \in Frame /\ i \in 1..top
    BY <1>0, <1>3 DEF CallTraceback, Published, Control, Shape, Levels
  <2>2. act[i].slot \in Slots /\ act[i].site \in Sites
    BY <2>1, SizesAssumption DEF WellFormed, CallLabels, Frame, Slots
  <2>3. /\ f \in Frame /\ f.pc = "traceback" /\ f.slot = act[i].slot /\ f.at = 0
        /\ f.site = act[i].site
    <3>1. "traceback" \in Labels /\ Slots \subseteq 0..PoolSize
      BY SizesAssumption DEF Labels, Slots
    <3>2. act[i].slot \in 0..PoolSize /\ act[i].site \in Sites \cup {NoSite}
      BY <2>2, <3>1
    <3>3. f = Activation("traceback", act[i].slot, act[i].site)
      BY DEF Unwinding
    <3> HIDE DEF f
    <3> QED
      BY <3>1, <3>2, <3>3, StartFrames
  <2>4. UNCHANGED <<inuse, saved>> /\ Push(f)
    BY <1>3 DEF CallTraceback, pool
  <2> HIDE DEF f
  <2>5. WellFormed(f)
    BY <2>2, <2>3 DEF WellFormed, CallLabels, TracebackLabels
  <2>6. PushOK(f)
    BY <2>1, <2>3, <2>4, <2>5 DEF Push, PushOK
  <2> QED
    BY <2>6, PushControl
<1>4. CASE GoReturn
  <2>1. /\ top \in Levels /\ act[top].pc = "go" /\ act[0].pc = "idle"
        /\ WellFormed(act[top]) /\ act[top] \in Frame
        /\ UNCHANGED <<inuse, saved>>
    BY <1>0, <1>4 DEF GoReturn, At, Idle, Activation, Levels, pool, Control, Shape
  <2>2. CASE act[top].slot = 0
    <3>1. PopOK(top)
      BY <1>0, <1>4, <2>1, <2>2 DEF GoReturn, Pop, PopOK
    <3> QED
      BY <3>1, PopControl
  <2>3. CASE act[top].slot # 0
    <3> DEFINE f == [act[top] EXCEPT !.pc = "release"]
    <3>1. act' = [act EXCEPT ![top] = f] /\ UNCHANGED top
      BY <1>4, <2>3 DEF GoReturn, Goto
    <3>2. act[top].slot \in Slots /\ act[top].site \in Sites
      BY <2>1, <2>3, SizesAssumption DEF WellFormed, CallLabels, Frame, Slots
    <3>3. WellFormed(f)
      BY <2>1, <3>2 DEF WellFormed, Frame, Labels, CallLabels, TracebackLabels
    <3>4. MoveOK(top, f)
      BY <1>0, <2>1, <2>3, <3>1, <3>3
      DEF MoveOK, Frame, CallLabels, TracebackLabels, Holder, HoldingLabels
    <3> QED
      BY <3>4, MoveControl
  <2> QED
    BY <2>2, <2>3
<1>5. CASE Signal
  <2> DEFINE f == Activation("sig", 0, NoSite)
  <2>1. WellFormed(f)
    BY StartWellFormed
  <2>2. PushOK(f)
    BY <1>5, <2>1 DEF Signal, Push, PushOK, Activation, pool
  <2> QED
    BY <2>2, PushControl
<1>6. CASE SigReturn
  <2>1. PopOK(top)
    BY <1>0, <1>6 DEF SigReturn, At, Pop, PopOK, pool
  <2> QED
    BY <2>1, PopControl
<1>7. ASSUME NEW value \in BOOLEAN, SetEnabled(value)
      PROVE  Control'
  BY <1>7 DEF SetEnabled, pool, Control, Shape, Exclusive, Traced, Traces, Saved
<1> QED
  BY <1>1, <1>2, <1>3, <1>4, <1>5, <1>6, <1>7

LEMMA NextControl == Control /\ [Next]_vars => Control'
<1> SUFFICES ASSUME Control, [Next]_vars PROVE Control'
  OBVIOUS
<1>1. CASE UNCHANGED vars
  BY <1>1 DEF vars, Control, Shape, Exclusive, Traced, Traces, Saved
<1>2. CASE \E d \in 0..MaxDepth : CodeStep(d)
  BY <1>2, ContextSteps, TakeControl, PublishControl, ReleaseSteps, TracebackSteps
  DEF CodeStep
<1>3. CASE Next /\ ~\E d \in 0..MaxDepth : CodeStep(d)
  BY <1>3, ObserverControl, EnvironmentSteps DEF Next
<1> QED
  BY <1>1, <1>2, <1>3

LEMMA ControlAlways == Spec => []Control
<1>1. Init => Control
  BY InitControl
<1>2. Control /\ [Next]_vars => Control'
  BY NextControl
<1> QED
  BY <1>1, <1>2, PTL DEF Spec

\* A call never holds the slot of another call, and its slot stays marked in
\* use: whatever the number of slots and however calls nest, are interrupted,
\* are unwound by other threads or are disabled (cgotraceback.cpp:89-102).
THEOREM SlotsExclusive == Spec => []SlotExclusive
<1>1. Control => SlotExclusive
  BY DEF Control, Exclusive, SlotExclusive, Holds, Holder
<1> QED
  BY <1>1, ControlAlways, PTL

-----------------------------------------------------------------------------
(* The cached stacks.  Stored is about the frames that belong to the call: a *)
(* walk that runs again, interrupted or next to another one, only stores     *)
(* them once more, and truncation only writes behind them.                   *)

Stored(t, site, n) ==
  \A i \in 1..StackMax :
    i <= n /\ i <= OwnLength(site) => stack[t][i] = Walk[site][i]

Report == [site : Sites, buf : [1..Least(BufMax, StackMax) -> Nat]]

DataTypes ==
  /\ cached \in [Slots -> {0, 1}]
  /\ stack \in [Slots -> [1..StackMax -> Nat]]
  /\ enabled \in BOOLEAN
  /\ reports \in [Slots -> SUBSET Report]
  /\ direct \in [site : Sites \cup {NoSite}, buf : [1..BufMax -> Nat]]

\* A context not yet published has no cached stack.
NewUncached ==
  \A i \in Levels : act[i].pc = "save" => cached[act[i].slot] = 0

\* A cached stack is the one of the call its context was published for.
CachedStored ==
  \A i \in Levels :
    act[i].pc = "go" /\ act[i].slot # 0 /\ cached[act[i].slot] = 1
      => Stored(act[i].slot, act[i].site, StackMax)

\* What an unwinding has stored stays, whoever else walks into the slot.
WalkStored ==
  \A d \in 0..MaxDepth :
    /\ act[d].pc \in {"walk", "truncate"} => Stored(act[d].slot, act[d].site, act[d].at)
    /\ act[d].pc \in {"mark", "copy"} => Stored(act[d].slot, act[d].site, StackMax)

Data == DataTypes /\ NewUncached /\ CachedStored /\ WalkStored /\ ReportPrefix

LEMMA OwnLengthBounds ==
  ASSUME NEW s \in Sites
  PROVE  /\ OwnLength(s) \in 1..Len(Walk[s])
         /\ \A i \in 1..Len(Walk[s]) : i < OwnLength(s) => Walk[s][i] \notin Asmcgocall
<1>1. Walk[s] \in Seq(Nat \ {0}) /\ Walk[s] # << >>
  BY WalkAssumption
<1>2. Len(Walk[s]) \in Nat \ {0}
  BY <1>1
<1> DEFINE First(i) == FirstAsm(Walk[s], Len(Walk[s]), i)
<1>3. CASE \E i \in 1..Len(Walk[s]) : First(i)
  <2> DEFINE o == CHOOSE i \in 1..Len(Walk[s]) : First(i)
  <2>1. o \in 1..Len(Walk[s]) /\ First(o)
    BY <1>3
  <2>2. OwnLength(s) = o
    BY <1>3 DEF OwnLength
  <2> HIDE DEF o
  <2> QED
    BY <1>2, <2>1, <2>2 DEF FirstAsm
<1>4. CASE ~\E i \in 1..Len(Walk[s]) : First(i)
  <2>1. OwnLength(s) = Len(Walk[s])
    BY <1>4 DEF OwnLength
  <2>2. ASSUME NEW i \in 1..Len(Walk[s]), Walk[s][i] \in Asmcgocall
        PROVE  FALSE
    <3> DEFINE A == {j \in 1..Len(Walk[s]) : Walk[s][j] \in Asmcgocall}
    <3>1. PICK j \in A : \A k \in A : j <= k
      <4>1. A \subseteq Nat /\ A # {}
        BY <1>2, <2>2
      <4>2. \E j \in A : \A k \in A : <<k, j>> \notin OpToRel(<, Nat)
        BY <4>1, NatLessThanWellFounded, WFMin
      <4>3. PICK j \in A : \A k \in A : <<k, j>> \notin OpToRel(<, Nat)
        BY <4>2
      <4>4. ASSUME NEW k \in A, k < j
            PROVE  FALSE
        <5>1. <<k, j>> \in Nat \X Nat /\ <<k, j>>[1] < <<k, j>>[2]
          BY <4>1, <4>4
        <5> QED
          BY <4>3, <5>1 DEF OpToRel
      <4>5. ASSUME NEW k \in A
            PROVE  j <= k
        <5>1. ~(k < j)
          BY <4>4
        <5>2. j \in Nat /\ k \in Nat
          BY <4>1
        <5> QED
          BY <5>1, <5>2
      <4> QED
        BY <4>5
    <3>2. First(j)
      BY <1>2, <3>1 DEF FirstAsm
    <3> QED
      BY <1>4, <3>2
  <2> QED
    BY <1>2, <2>1, <2>2
<1> QED
  BY <1>3, <1>4

\* All activations that see one published context see it as the same call, and
\* no other call is about to get its slot.
LEMMA OneSite ==
  ASSUME Control, NEW d \in 0..MaxDepth, act[d].pc \in TracebackLabels
  PROVE  /\ \A e \in 0..MaxDepth :
              act[e].pc \in TracebackLabels /\ act[e].slot = act[d].slot
                => act[e].site = act[d].site
         /\ \A e \in Levels :
              act[e].pc = "go" /\ act[e].slot = act[d].slot => act[e].site = act[d].site
         /\ \A e \in Levels :
              act[e].pc \in {"reset", "save"} => act[e].slot # act[d].slot
         /\ act[d].slot \in Slots /\ act[d].site \in Sites
<1> USE DEF Control
<1>1. act[d].slot \in Slots /\ act[d].slot # 0 /\ act[d].site \in Sites
  BY SizesAssumption DEF Shape, WellFormed, Slots
<1>2. PICK i \in Levels : Traces(d, i)
  BY DEF Traced
<1>3. act[i].pc = "go" /\ act[i].slot = act[d].slot /\ act[i].site = act[d].site /\ Holder(act[i])
  BY <1>1, <1>2 DEF Traces, Holder, HoldingLabels
<1>4. ASSUME NEW e \in Levels, act[e].pc \in {"go", "reset", "save"}, act[e].slot = act[d].slot
      PROVE  e = i
  BY <1>1, <1>3, <1>4 DEF Exclusive, Holder, HoldingLabels
<1>5. ASSUME NEW e \in 0..MaxDepth, act[e].pc \in TracebackLabels, act[e].slot = act[d].slot
      PROVE  act[e].site = act[d].site
  <2>1. PICK k \in Levels : Traces(e, k)
    BY <1>5 DEF Traced
  <2> QED
    BY <1>3, <1>4, <1>5, <2>1 DEF Traces
<1> QED
  BY <1>1, <1>3, <1>4, <1>5

LEMMA InitData == Init => Data
<1> SUFFICES ASSUME Init PROVE Data
  OBVIOUS
<1>1. \A d \in 0..MaxDepth : act[d].pc = "idle"
  BY DEF Init, Idle, Activation
<1>2. \A d \in Levels : act[d].pc = "idle"
  BY <1>1, SizesAssumption DEF Levels
<1>3. DataTypes /\ ReportPrefix
  BY SizesAssumption DEF Init, DataTypes, ReportPrefix
<1> QED
  BY <1>1, <1>2, <1>3 DEF Data, NewUncached, CachedStored, WalkStored

\* A step that touches no cached stack, and leaves its activation at a label
\* where it has none to vouch for.
Quiet(d) ==
  /\ \A e \in 0..MaxDepth : e # d => act'[e] = act[e]
  /\ \/ act'[d].pc \in {"idle", "context", "scan", "take", "reset", "release", "clear",
                         "traceback", "check", "sig"}
     \/ act'[d].pc = "go" /\ act'[d].slot = 0
  /\ UNCHANGED <<cached, stack, enabled, reports, direct>>

LEMMA QuietData ==
  ASSUME Control, Data, NEW d \in 0..MaxDepth, Quiet(d)
  PROVE  Data'
<1> USE DEF Quiet
<1>1. Levels \subseteq 0..MaxDepth
  BY SizesAssumption DEF Levels
<1>2. DataTypes' /\ ReportPrefix'
  BY DEF Data, DataTypes, ReportPrefix
<1>3. NewUncached' /\ CachedStored'
  BY <1>1 DEF Data, NewUncached, CachedStored, Stored
<1>4. WalkStored'
  BY DEF Data, WalkStored, Stored
<1> QED
  BY <1>2, <1>3, <1>4 DEF Data

LEMMA ResetData ==
  ASSUME Control, Data, NEW d \in 0..MaxDepth, GetReset(d)
  PROVE  Data'
<1>1. /\ d \in Levels /\ act[d].pc = "reset" /\ act[d] \in Frame
      /\ act' = [act EXCEPT ![d] = [act[d] EXCEPT !.pc = "save"]]
      /\ act \in [0..MaxDepth -> Frame]
      /\ cached' = [cached EXCEPT ![act[d].slot] = 0]
      /\ UNCHANGED <<stack, enabled, reports, direct>>
  BY AtFacts DEF GetReset, Goto, TracebackLabels
<1>2. \A e \in 0..MaxDepth : act'[e].pc = IF e = d THEN "save" ELSE act[e].pc
  BY <1>1 DEF Frame
<1>3. \A e \in 0..MaxDepth :
        act'[e].slot = act[e].slot /\ act'[e].site = act[e].site /\ act'[e].at = act[e].at
  BY <1>1 DEF Frame
<1>4. Levels \subseteq 0..MaxDepth
  BY SizesAssumption DEF Levels
<1>5. act[d].slot \in Slots
  BY <1>1 DEF Control, Shape, WellFormed
<1>6. \A t \in Slots : cached'[t] = IF t = act[d].slot THEN 0 ELSE cached[t]
  BY <1>1 DEF Data, DataTypes
<1>7. \A e \in 0..MaxDepth : act[e].slot # 0 => act[e].slot \in Slots
  BY <1>1, SizesAssumption DEF Frame, Slots
<1>8. DataTypes' /\ ReportPrefix'
  BY <1>1, <1>5 DEF Data, DataTypes, ReportPrefix
<1>9. NewUncached'
  <2> SUFFICES ASSUME NEW e \in Levels, act'[e].pc = "save"
               PROVE  cached'[act'[e].slot] = 0
    BY DEF NewUncached
  <2>1. act'[e].slot = act[e].slot /\ (e = d \/ act[e].pc = "save")
    BY <1>2, <1>3, <1>4
  <2>2. act[e].slot \in Slots
    BY <2>1, <1>4, <1>5 DEF Control, Shape, WellFormed
  <2> QED
    BY <2>1, <2>2, <1>6 DEF Data, NewUncached
<1>10. CachedStored'
  <2> SUFFICES ASSUME NEW e \in Levels, act'[e].pc = "go", act'[e].slot # 0,
                      cached'[act'[e].slot] = 1
               PROVE  Stored(act[e].slot, act[e].site, StackMax)'
    BY DEF CachedStored
  <2>1. /\ act[e].pc = "go" /\ act'[e].slot = act[e].slot /\ act'[e].site = act[e].site
        /\ act[e].slot \in Slots
    BY <1>2, <1>3, <1>4, <1>7
  <2>2. cached[act[e].slot] = 1
    BY <2>1, <1>6
  <2> QED
    BY <2>1, <2>2, <1>1 DEF Data, CachedStored, Stored
<1>11. WalkStored'
  BY <1>1, <1>2, <1>3 DEF Data, WalkStored, Stored
<1> QED
  BY <1>8, <1>9, <1>10, <1>11 DEF Data

LEMMA PublishData ==
  ASSUME Control, Data, NEW d \in 0..MaxDepth, ContextSave(d)
  PROVE  Data'
<1>1. /\ d \in Levels /\ act[d].pc = "save" /\ act[d] \in Frame
      /\ act' = [act EXCEPT ![d] = [act[d] EXCEPT !.pc = "go"]]
      /\ act \in [0..MaxDepth -> Frame]
      /\ reports' = [reports EXCEPT ![act[d].slot] = {}]
      /\ UNCHANGED <<cached, stack, enabled, direct>>
  BY AtFacts DEF ContextSave, Goto, TracebackLabels
<1>2. \A e \in 0..MaxDepth : act'[e].pc = IF e = d THEN "go" ELSE act[e].pc
  BY <1>1 DEF Frame
<1>3. \A e \in 0..MaxDepth :
        act'[e].slot = act[e].slot /\ act'[e].site = act[e].site /\ act'[e].at = act[e].at
  BY <1>1 DEF Frame
<1>4. Levels \subseteq 0..MaxDepth
  BY SizesAssumption DEF Levels
<1>5. cached[act[d].slot] = 0 /\ act[d].slot \in Slots
  BY <1>1, <1>4 DEF Data, NewUncached, Control, Shape, WellFormed
<1>6. DataTypes' /\ ReportPrefix'
  BY <1>1, <1>5 DEF Data, DataTypes, ReportPrefix
<1>7. NewUncached'
  BY <1>1, <1>2, <1>3, <1>4 DEF Data, NewUncached
<1>8. CachedStored'
  BY <1>1, <1>2, <1>3, <1>4, <1>5 DEF Data, CachedStored, Stored
<1>9. WalkStored'
  BY <1>1, <1>2, <1>3 DEF Data, WalkStored, Stored
<1> QED
  BY <1>6, <1>7, <1>8, <1>9 DEF Data

\* Writing frames of the call again, or behind them, spoils no cached stack.
LEMMA StackKeeps ==
  ASSUME Control, Data, NEW d \in 0..MaxDepth, act[d].pc \in TracebackLabels,
         NEW g \in [1..StackMax -> Nat],
         stack' = [stack EXCEPT ![act[d].slot] = g],
         \A i \in 1..StackMax :
           i <= OwnLength(act[d].site) /\ stack[act[d].slot][i] = Walk[act[d].site][i]
             => g[i] = Walk[act[d].site][i]
  PROVE  /\ \A e \in 0..MaxDepth, n \in Nat :
              act[e].pc \in TracebackLabels /\ Stored(act[e].slot, act[e].site, n)
                => \A i \in 1..StackMax : i <= n /\ i <= OwnLength(act[e].site)
                     => stack'[act[e].slot][i] = Walk[act[e].site][i]
         /\ \A e \in Levels, n \in Nat :
              act[e].pc = "go" /\ act[e].slot # 0 /\ Stored(act[e].slot, act[e].site, n)
                => \A i \in 1..StackMax : i <= n /\ i <= OwnLength(act[e].site)
                     => stack'[act[e].slot][i] = Walk[act[e].site][i]
         /\ stack' \in [Slots -> [1..StackMax -> Nat]]
<1>1. /\ act[d].slot \in Slots
      /\ \A e \in 0..MaxDepth :
           act[e].pc \in TracebackLabels /\ act[e].slot = act[d].slot
             => act[e].site = act[d].site
      /\ \A e \in Levels :
           act[e].pc = "go" /\ act[e].slot = act[d].slot => act[e].site = act[d].site
  BY OneSite
<1>2. stack \in [Slots -> [1..StackMax -> Nat]]
  BY DEF Data, DataTypes
<1>3. ASSUME NEW t \in Slots, NEW s, NEW n \in Nat, Stored(t, s, n),
             t = act[d].slot => s = act[d].site
      PROVE  \A i \in 1..StackMax : i <= n /\ i <= OwnLength(s) => stack'[t][i] = Walk[s][i]
  <2>1. CASE t = act[d].slot
    BY <1>1, <1>2, <1>3, <2>1 DEF Stored
  <2>2. CASE t # act[d].slot
    BY <1>2, <1>3, <2>2 DEF Stored
  <2> QED
    BY <2>1, <2>2
<1>4. /\ \A e \in 0..MaxDepth : act[e].pc \in TracebackLabels => act[e].slot \in Slots
      /\ \A e \in Levels : act[e].slot # 0 => act[e].slot \in Slots
  BY SizesAssumption DEF Control, Shape, WellFormed, Frame, Slots, Levels
<1>5. stack' \in [Slots -> [1..StackMax -> Nat]]
  BY <1>1, <1>2
<1> QED
  BY <1>1, <1>3, <1>4, <1>5

LEMMA CheckData ==
  ASSUME Control, Data, NEW d \in 0..MaxDepth, TracebackCheck(d)
  PROVE  Data'
<1>1. /\ act[d].pc = "check" /\ act[d] \in Frame /\ act[d].at = 0
      /\ act \in [0..MaxDepth -> Frame]
      /\ act[d].slot \in Slots
      /\ UNCHANGED <<cached, stack, enabled, reports, direct>>
  BY AtFacts DEF TracebackCheck, TracebackLabels, WellFormed, pool
<1>2. /\ \A e \in 0..MaxDepth : e # d => act'[e] = act[e]
      /\ act'[d].slot = act[d].slot /\ act'[d].site = act[d].site /\ act'[d].at = 0
      /\ act'[d].pc = IF cached[act[d].slot] = 0 THEN "walk" ELSE "copy"
  <2>1. CASE cached[act[d].slot] = 0
    BY <1>1, <2>1 DEF TracebackCheck, Goto, Frame
  <2>2. CASE cached[act[d].slot] # 0
    BY <1>1, <2>2 DEF TracebackCheck, Goto, Frame
  <2> QED
    BY <2>1, <2>2
<1>3. Levels \subseteq 0..MaxDepth
  BY SizesAssumption DEF Levels
<1>4. DataTypes' /\ ReportPrefix'
  BY <1>1 DEF Data, DataTypes, ReportPrefix
<1>5. NewUncached' /\ CachedStored'
  BY <1>1, <1>2, <1>3 DEF Data, NewUncached, CachedStored, Stored
<1>6. act'[d].pc = "walk" => Stored(act[d].slot, act[d].site, act[d].at)'
  BY <1>2 DEF Stored
<1>7. act'[d].pc = "copy" => Stored(act[d].slot, act[d].site, StackMax)'
  <2> SUFFICES ASSUME act'[d].pc = "copy"
               PROVE  Stored(act[d].slot, act[d].site, StackMax)'
    OBVIOUS
  <2>1. cached[act[d].slot] = 1
    BY <1>1, <1>2 DEF Data, DataTypes
  <2>2. PICK i \in Levels : Traces(d, i)
    BY <1>1 DEF Control, Traced, TracebackLabels
  <2>3. act[d].slot # 0
    BY <1>1, SizesAssumption DEF Slots
  <2>4. Stored(act[d].slot, act[d].site, StackMax)
    BY <2>1, <2>2, <2>3 DEF Data, CachedStored, Traces
  <2> QED
    BY <2>4, <1>1, <1>2 DEF Stored
<1>8. WalkStored'
  <2> SUFFICES ASSUME NEW e \in 0..MaxDepth
               PROVE  /\ act'[e].pc \in {"walk", "truncate"}
                           => Stored(act[e].slot, act[e].site, act[e].at)'
                      /\ act'[e].pc \in {"mark", "copy"}
                           => Stored(act[e].slot, act[e].site, StackMax)'
    BY DEF WalkStored
  <2>1. CASE e = d
    BY <1>2, <1>6, <1>7, <2>1
  <2>2. CASE e # d
    BY <1>1, <1>2, <2>2 DEF Data, WalkStored, Stored
  <2> QED
    BY <2>1, <2>2
<1> QED
  BY <1>4, <1>5, <1>8 DEF Data

\* A step that writes the cached stack of the context it unwinds.
LEMMA WriteData ==
  ASSUME Control, Data, NEW d \in 0..MaxDepth, act[d].pc \in TracebackLabels,
         NEW g \in [1..StackMax -> Nat],
         stack' = [stack EXCEPT ![act[d].slot] = g],
         \A i \in 1..StackMax :
           i <= OwnLength(act[d].site) /\ stack[act[d].slot][i] = Walk[act[d].site][i]
             => g[i] = Walk[act[d].site][i],
         \A e \in 0..MaxDepth : e # d => act'[e] = act[e],
         act'[d].pc \in {"walk", "truncate", "mark"},
         act'[d].pc \in {"walk", "truncate"} => Stored(act[d].slot, act[d].site, act[d].at)',
         act'[d].pc = "mark" => Stored(act[d].slot, act[d].site, StackMax)',
         UNCHANGED <<cached, enabled, reports, direct>>
  PROVE  Data'
<1>1. Levels \subseteq 0..MaxDepth /\ StackMax \in Nat
  BY SizesAssumption DEF Levels
<1>2. /\ \A e \in 0..MaxDepth, n \in Nat :
           act[e].pc \in TracebackLabels /\ Stored(act[e].slot, act[e].site, n)
             => \A i \in 1..StackMax : i <= n /\ i <= OwnLength(act[e].site)
                  => stack'[act[e].slot][i] = Walk[act[e].site][i]
      /\ \A e \in Levels, n \in Nat :
           act[e].pc = "go" /\ act[e].slot # 0 /\ Stored(act[e].slot, act[e].site, n)
             => \A i \in 1..StackMax : i <= n /\ i <= OwnLength(act[e].site)
                  => stack'[act[e].slot][i] = Walk[act[e].site][i]
      /\ stack' \in [Slots -> [1..StackMax -> Nat]]
  BY StackKeeps
<1>3. DataTypes' /\ ReportPrefix'
  BY <1>2 DEF Data, DataTypes, ReportPrefix
<1>4. NewUncached'
  BY <1>1 DEF Data, NewUncached
<1>5. CachedStored'
  <2> SUFFICES ASSUME NEW e \in Levels, act'[e].pc = "go", act'[e].slot # 0,
                      cached'[act'[e].slot] = 1
               PROVE  Stored(act[e].slot, act[e].site, StackMax)'
    BY DEF CachedStored
  <2>1. act'[e] = act[e]
    BY <1>1
  <2>2. Stored(act[e].slot, act[e].site, StackMax)
    BY <2>1 DEF Data, CachedStored
  <2>3. \A i \in 1..StackMax : i <= StackMax /\ i <= OwnLength(act[e].site)
           => stack'[act[e].slot][i] = Walk[act[e].site][i]
    BY <1>1, <1>2, <2>1, <2>2
  <2> QED
    BY <2>1, <2>3 DEF Stored
<1>6. WalkStored'
  <2> SUFFICES ASSUME NEW e \in 0..MaxDepth
               PROVE  /\ act'[e].pc \in {"walk", "truncate"}
                           => Stored(act[e].slot, act[e].site, act[e].at)'
                      /\ act'[e].pc \in {"mark", "copy"}
                           => Stored(act[e].slot, act[e].site, StackMax)'
    BY DEF WalkStored
  <2>1. CASE e = d
    BY <2>1
  <2>2. CASE e # d
    <3>1. act'[e] = act[e]
      BY <2>2
    <3>2. ASSUME act[e].pc \in {"walk", "truncate"}
          PROVE  Stored(act[e].slot, act[e].site, act[e].at)'
      <4>1. Stored(act[e].slot, act[e].site, act[e].at) /\ act[e].at \in Nat
        BY <3>2 DEF Data, WalkStored, Control, Shape, Frame
      <4>2. \A i \in 1..StackMax : i <= act[e].at /\ i <= OwnLength(act[e].site)
               => stack'[act[e].slot][i] = Walk[act[e].site][i]
        BY <1>2, <3>2, <4>1 DEF TracebackLabels
      <4> QED
        BY <3>1, <4>2 DEF Stored
    <3>3. ASSUME act[e].pc \in {"mark", "copy"}
          PROVE  Stored(act[e].slot, act[e].site, StackMax)'
      <4>1. Stored(act[e].slot, act[e].site, StackMax)
        BY <3>3 DEF Data, WalkStored
      <4>2. \A i \in 1..StackMax : i <= StackMax /\ i <= OwnLength(act[e].site)
               => stack'[act[e].slot][i] = Walk[act[e].site][i]
        BY <1>1, <1>2, <3>3, <4>1 DEF TracebackLabels
      <4> QED
        BY <3>1, <4>2 DEF Stored
    <3> QED
      BY <3>1, <3>2, <3>3
  <2> QED
    BY <2>1, <2>2
<1> QED
  BY <1>3, <1>4, <1>5, <1>6 DEF Data

\* A walk stores the next frame of the call.
LEMMA WalkData ==
  ASSUME Control, Data, NEW d \in 0..MaxDepth, WalkStep(d)
  PROVE  Data'
<1> DEFINE n == act[d].at + 1
           t == act[d].slot
           s == act[d].site
           f == [act[d] EXCEPT !.at = n,
                               !.pc = IF n < WalkCount(act[d].sc, StackMax)
                                        THEN "walk" ELSE "truncate"]
<1>1. /\ act[d].pc = "walk" /\ act[d] \in Frame
      /\ act \in [0..MaxDepth -> Frame]
      /\ act' = [act EXCEPT ![d] = f]
      /\ stack' = [stack EXCEPT ![t][n] = Walk[s][n]]
      /\ UNCHANGED <<cached, enabled, reports, direct>>
  BY AtFacts DEF WalkStep, Goto, WellFormed
<1>2. /\ t \in Slots /\ s \in Sites /\ act[d].sc = s /\ act[d].at \in Nat
      /\ act[d].at < WalkCount(s, StackMax)
  BY <1>1, AtFacts DEF WalkStep, WellFormed, TracebackLabels, Frame
<1>3. n \in 1..StackMax /\ n <= Len(Walk[s]) /\ Walk[s][n] \in Nat
  <2>1. /\ WalkCount(s, StackMax) \in 1..StackMax
        /\ WalkCount(s, StackMax) <= Len(Walk[s])
        /\ Walk[s] \in [1..Len(Walk[s]) -> Nat \ {0}]
    BY <1>2, WalkCountBounds
  <2>2. Len(Walk[s]) \in Nat
    BY <1>2, WalkAssumption
  <2>3. n \in 1..Len(Walk[s]) /\ n \in 1..StackMax
    BY <1>2, <2>1, <2>2, SizesAssumption
  <2> QED
    BY <2>1, <2>2, <2>3
<1>4. /\ \A e \in 0..MaxDepth : e # d => act'[e] = act[e]
      /\ act'[d].slot = t /\ act'[d].site = s /\ act'[d].at = n
      /\ act'[d].pc \in {"walk", "truncate"}
  BY <1>1 DEF Frame
<1> HIDE DEF n, t, s, f
<1>5. stack \in [Slots -> [1..StackMax -> Nat]]
  BY DEF Data, DataTypes
<1> DEFINE g == [stack[t] EXCEPT ![n] = Walk[s][n]]
<1>6. /\ g \in [1..StackMax -> Nat]
      /\ stack' = [stack EXCEPT ![t] = g]
      /\ \A i \in 1..StackMax : g[i] = IF i = n THEN Walk[s][n] ELSE stack[t][i]
  BY <1>1, <1>2, <1>3, <1>5
<1>7. \A i \in 1..StackMax : i <= act[d].at /\ i <= OwnLength(s) => stack[t][i] = Walk[s][i]
  BY <1>1 DEF Data, WalkStored, Stored, t, s
<1> HIDE DEF g
<1>8. Stored(act[d].slot, act[d].site, act[d].at)'
  <2>1. stack'[t] = g
    BY <1>2, <1>5, <1>6
  <2> SUFFICES ASSUME NEW i \in 1..StackMax, i <= n, i <= OwnLength(s)
               PROVE  g[i] = Walk[s][i]
    BY <1>4, <2>1 DEF Stored
  <2>2. CASE i = n
    BY <1>6, <2>2
  <2>3. CASE i # n
    <3>1. i <= act[d].at
      BY <1>2, <2>3 DEF n
    <3> QED
      BY <1>6, <1>7, <2>3, <3>1
  <2> QED
    BY <2>2, <2>3
<1>9. \A i \in 1..StackMax :
        i <= OwnLength(act[d].site) /\ stack[act[d].slot][i] = Walk[act[d].site][i]
          => g[i] = Walk[act[d].site][i]
  BY <1>6 DEF t, s
<1>10. stack' = [stack EXCEPT ![act[d].slot] = g]
  BY <1>6 DEF t
<1>11. /\ act[d].pc \in TracebackLabels
       /\ act'[d].pc \in {"walk", "truncate", "mark"} /\ act'[d].pc # "mark"
       /\ g \in [1..StackMax -> Nat]
       /\ UNCHANGED <<cached, enabled, reports, direct>>
  BY <1>1, <1>4, <1>6 DEF TracebackLabels
<1> QED
  BY <1>4, <1>8, <1>9, <1>10, <1>11, WriteData

\* Truncation writes behind asmcgocall, so behind the frames of the call.
LEMMA TruncateData ==
  ASSUME Control, Data, NEW d \in 0..MaxDepth, TracebackTruncate(d)
  PROVE  Data'
<1> DEFINE n == act[d].at
           t == act[d].slot
           s == act[d].site
           f == [act[d] EXCEPT !.pc = "mark", !.at = 0]
           g == Truncate(stack[t], n)
<1>1. /\ act[d].pc = "truncate" /\ act[d] \in Frame
      /\ act \in [0..MaxDepth -> Frame]
      /\ act' = [act EXCEPT ![d] = f]
      /\ stack' = [stack EXCEPT ![t] = g]
      /\ UNCHANGED <<cached, enabled, reports, direct>>
  BY AtFacts DEF TracebackTruncate, Goto
<1>2. t \in Slots /\ s \in Sites /\ n = WalkCount(s, StackMax)
  BY <1>1, AtFacts DEF TracebackTruncate, WellFormed, TracebackLabels
<1>3. /\ \A e \in 0..MaxDepth : e # d => act'[e] = act[e]
      /\ act'[d].slot = t /\ act'[d].site = s /\ act'[d].pc = "mark"
  BY <1>1 DEF Frame
<1>4. stack[t] \in [1..StackMax -> Nat]
  BY <1>2 DEF Data, DataTypes
<1>5. /\ g \in [1..StackMax -> Nat]
      /\ \A i \in 1..StackMax :
           g[i] = IF i \in 2..n /\ FirstAsm(stack[t], n, i - 1) THEN 0 ELSE stack[t][i]
  BY <1>4 DEF Truncate
<1>6. \A i \in 1..StackMax : i <= n /\ i <= OwnLength(s) => stack[t][i] = Walk[s][i]
  BY <1>1 DEF Data, WalkStored, Stored
<1>7. /\ n \in 1..StackMax /\ n <= Len(Walk[s])
      /\ Len(Walk[s]) \in Nat
      /\ n = Len(Walk[s]) \/ n = StackMax
  BY <1>2, WalkCountBounds, WalkAssumption, SizesAssumption DEF WalkCount, Least
<1>8. /\ OwnLength(s) \in 1..Len(Walk[s])
      /\ \A i \in 1..Len(Walk[s]) : i < OwnLength(s) => Walk[s][i] \notin Asmcgocall
  BY <1>2, OwnLengthBounds
<1> HIDE DEF n, t, s, f, g
<1>9. \A i \in 1..StackMax : i <= OwnLength(s) => g[i] = stack[t][i]
  <2> SUFFICES ASSUME NEW i \in 1..StackMax, i <= OwnLength(s),
                      i \in 2..n, FirstAsm(stack[t], n, i - 1)
               PROVE  FALSE
    BY <1>5
  <2>1. i - 1 \in 1..StackMax /\ i - 1 <= n /\ i - 1 < OwnLength(s) /\ i - 1 \in 1..Len(Walk[s])
    BY <1>7, <1>8, SizesAssumption
  <2>2. stack[t][i - 1] = Walk[s][i - 1]
    BY <1>6, <1>7, <1>8, <2>1
  <2>3. Walk[s][i - 1] \notin Asmcgocall
    BY <1>8, <2>1
  <2> QED
    BY <2>2, <2>3 DEF FirstAsm
<1>10. stack'[t] = g
  BY <1>1, <1>2 DEF Data, DataTypes
<1>11. Stored(act[d].slot, act[d].site, StackMax)'
  <2> SUFFICES ASSUME NEW i \in 1..StackMax, i <= OwnLength(s)
               PROVE  g[i] = Walk[s][i]
    BY <1>3, <1>10 DEF Stored
  <2>1. i <= n
    BY <1>7, <1>8, SizesAssumption
  <2> QED
    BY <1>6, <1>9, <2>1
<1>12. \A i \in 1..StackMax :
        i <= OwnLength(act[d].site) /\ stack[act[d].slot][i] = Walk[act[d].site][i]
          => g[i] = Walk[act[d].site][i]
  BY <1>9 DEF t, s
<1>13. stack' = [stack EXCEPT ![act[d].slot] = g]
  BY <1>1 DEF t
<1>14. /\ act[d].pc \in TracebackLabels
       /\ act'[d].pc \in {"walk", "truncate", "mark"}
       /\ act'[d].pc \notin {"walk", "truncate"}
       /\ g \in [1..StackMax -> Nat]
       /\ UNCHANGED <<cached, enabled, reports, direct>>
  BY <1>1, <1>3, <1>5 DEF TracebackLabels
<1> QED
  BY <1>3, <1>11, <1>12, <1>13, <1>14, WriteData

LEMMA MarkData ==
  ASSUME Control, Data, NEW d \in 0..MaxDepth, TracebackMark(d)
  PROVE  Data'
<1>1. /\ act[d].pc = "mark" /\ act[d] \in Frame
      /\ act \in [0..MaxDepth -> Frame]
      /\ act' = [act EXCEPT ![d] = [act[d] EXCEPT !.pc = "copy"]]
      /\ cached' = [cached EXCEPT ![act[d].slot] = 1]
      /\ UNCHANGED <<stack, enabled, reports, direct>>
  BY AtFacts DEF TracebackMark, Goto
<1>2. /\ \A e \in 0..MaxDepth : e # d => act'[e] = act[e]
      /\ act'[d].slot = act[d].slot /\ act'[d].site = act[d].site
      /\ act'[d].pc = "copy"
  BY <1>1 DEF Frame
<1>3. /\ \A e \in Levels :
           act[e].pc = "go" /\ act[e].slot = act[d].slot => act[e].site = act[d].site
      /\ \A e \in Levels : act[e].pc = "save" => act[e].slot # act[d].slot
      /\ act[d].slot \in Slots
  BY <1>1, OneSite DEF TracebackLabels
<1>4. Levels \subseteq 0..MaxDepth
  BY SizesAssumption DEF Levels
<1>5. \A t \in Slots : cached'[t] = IF t = act[d].slot THEN 1 ELSE cached[t]
  BY <1>1, <1>3 DEF Data, DataTypes
<1>6. \A e \in Levels : act[e].slot # 0 => act[e].slot \in Slots
  BY <1>1, <1>4, SizesAssumption DEF Frame, Slots
<1>7. Stored(act[d].slot, act[d].site, StackMax)
  BY <1>1 DEF Data, WalkStored
<1>8. DataTypes' /\ ReportPrefix'
  BY <1>1, <1>3 DEF Data, DataTypes, ReportPrefix
<1>9. NewUncached'
  <2> SUFFICES ASSUME NEW e \in Levels, act'[e].pc = "save"
               PROVE  cached'[act'[e].slot] = 0
    BY DEF NewUncached
  <2>1. act'[e] = act[e] /\ act[e].slot \in Slots /\ act[e].slot # act[d].slot
    BY <1>2, <1>3, <1>4 DEF Control, Shape, WellFormed
  <2> QED
    BY <2>1, <1>5 DEF Data, NewUncached
<1>10. CachedStored'
  <2> SUFFICES ASSUME NEW e \in Levels, act'[e].pc = "go", act'[e].slot # 0,
                      cached'[act'[e].slot] = 1
               PROVE  Stored(act[e].slot, act[e].site, StackMax)'
    BY DEF CachedStored
  <2>1. act'[e] = act[e] /\ act[e].slot \in Slots
    BY <1>2, <1>4, <1>6
  <2>2. Stored(act[e].slot, act[e].site, StackMax)
    <3>1. CASE act[e].slot = act[d].slot
      BY <2>1, <3>1, <1>3, <1>7
    <3>2. CASE act[e].slot # act[d].slot
      BY <2>1, <3>2, <1>5 DEF Data, CachedStored
    <3> QED
      BY <3>1, <3>2
  <2> QED
    BY <2>1, <2>2, <1>1 DEF Stored
<1>11. WalkStored'
  <2> SUFFICES ASSUME NEW e \in 0..MaxDepth
               PROVE  /\ act'[e].pc \in {"walk", "truncate"}
                           => Stored(act[e].slot, act[e].site, act[e].at)'
                      /\ act'[e].pc \in {"mark", "copy"}
                           => Stored(act[e].slot, act[e].site, StackMax)'
    BY DEF WalkStored
  <2>1. CASE e = d
    BY <1>1, <1>2, <1>7, <2>1 DEF Stored
  <2>2. CASE e # d
    BY <1>1, <1>2, <2>2 DEF Data, WalkStored, Stored
  <2> QED
    BY <2>1, <2>2
<1> QED
  BY <1>8, <1>9, <1>10, <1>11 DEF Data

\* What Go gets starts with the frames of the call.
LEMMA CopyData ==
  ASSUME Control, Data, NEW d \in 0..MaxDepth, TracebackCopy(d)
  PROVE  Data'
<1> DEFINE t == act[d].slot
           r == [site |-> act[d].site, buf |-> CopyOut(t)]
<1>1. /\ act[d].pc = "copy"
      /\ act' = [act EXCEPT ![d] = Idle]
      /\ act \in [0..MaxDepth -> Frame]
      /\ reports' = [reports EXCEPT ![t] = @ \cup {r}]
      /\ UNCHANGED <<cached, stack, enabled, direct>>
  BY AtFacts DEF TracebackCopy, Pop, pool
<1>2. t \in Slots /\ act[d].site \in Sites
  BY <1>1, OneSite DEF TracebackLabels
<1>3. Stored(t, act[d].site, StackMax)
  BY <1>1 DEF Data, WalkStored
<1>4. /\ stack[t] \in [1..StackMax -> Nat]
      /\ Least(BufMax, StackMax) \in Nat /\ Least(BufMax, StackMax) <= StackMax
  BY <1>2, SizesAssumption DEF Data, DataTypes, Least
<1>5. CopyOut(t) \in [1..Least(BufMax, StackMax) -> Nat]
  BY <1>4, SizesAssumption DEF CopyOut
<1>6. r \in Report
  BY <1>2, <1>5 DEF Report
<1>7. \A i \in DOMAIN r.buf : i <= OwnLength(r.site) => r.buf[i] = Walk[r.site][i]
  <2> SUFFICES ASSUME NEW i \in DOMAIN r.buf, i <= OwnLength(r.site)
               PROVE  r.buf[i] = Walk[r.site][i]
    OBVIOUS
  <2>1. /\ r.site = act[d].site
        /\ r.buf = [j \in 1..Least(BufMax, StackMax) |-> stack[t][j]]
    BY DEF CopyOut
  <2>2. i \in 1..Least(BufMax, StackMax) /\ r.buf[i] = stack[t][i]
    BY <2>1
  <2>3. i \in 1..StackMax /\ i <= StackMax
    BY <2>2, <1>4, SizesAssumption
  <2> QED
    BY <2>1, <2>2, <2>3, <1>3 DEF Stored
<1>8. /\ \A e \in 0..MaxDepth : e # d => act'[e] = act[e]
      /\ act'[d].pc = "idle"
  BY <1>1 DEF Idle, Activation
<1>9. Levels \subseteq 0..MaxDepth
  BY SizesAssumption DEF Levels
<1> HIDE DEF t, r
<1>10. DataTypes'
  BY <1>1, <1>2, <1>6 DEF Data, DataTypes
<1>11. ReportPrefix'
  <2> SUFFICES ASSUME NEW u \in Slots, NEW q \in reports'[u]
               PROVE  \A i \in DOMAIN q.buf :
                        i <= OwnLength(q.site) => q.buf[i] = Walk[q.site][i]
    BY DEF ReportPrefix
  <2>1. q \in reports[u] \/ q = r
    BY <1>1, <1>2 DEF Data, DataTypes
  <2>2. CASE q \in reports[u]
    BY <2>2 DEF Data, ReportPrefix
  <2>3. CASE q = r
    BY <2>3, <1>7
  <2> QED
    BY <2>1, <2>2, <2>3
<1>12. NewUncached' /\ CachedStored'
  BY <1>1, <1>8, <1>9 DEF Data, NewUncached, CachedStored, Stored
<1>13. WalkStored'
  BY <1>1, <1>8 DEF Data, WalkStored, Stored
<1> QED
  BY <1>10, <1>11, <1>12, <1>13 DEF Data

LEMMA DirectData ==
  ASSUME Control, Data, NEW site \in Sites, TracebackDirect(site)
  PROVE  Data'
<1>1. /\ act' = act
      /\ direct' = [site |-> site, buf |-> DirectBuffer(direct.buf, site)]
      /\ UNCHANGED <<cached, stack, enabled, reports>>
  BY DEF TracebackDirect, pool
<1>2. direct.buf \in [1..BufMax -> Nat]
  BY DEF Data, DataTypes
<1>3. DirectBuffer(direct.buf, site) \in [1..BufMax -> Nat]
  <2> DEFINE n == WalkCount(site, BufMax)
             walked == WalkInto(direct.buf, site, BufMax)
             closed == IF n < BufMax THEN [walked EXCEPT ![n + 1] = 0] ELSE walked
  <2>1. Walk[site] \in Seq(Nat \ {0}) /\ Len(Walk[site]) \in Nat
    BY WalkAssumption
  <2>2. \A i \in 1..BufMax : i <= n => Walk[site][i] \in Nat
    BY <2>1, SizesAssumption DEF WalkCount, Least
  <2>3. walked \in [1..BufMax -> Nat]
    BY <1>2, <2>2 DEF WalkInto
  <2> HIDE DEF walked
  <2>4. closed \in [1..BufMax -> Nat]
    BY <2>3
  <2>5. DirectBuffer(direct.buf, site) = Truncate(closed, n)
    BY DEF DirectBuffer, walked
  <2> HIDE DEF closed, n
  <2> QED
    BY <2>4, <2>5 DEF Truncate
<1>4. DataTypes'
  BY <1>1, <1>3 DEF Data, DataTypes
<1> QED
  BY <1>1, <1>4
  DEF Data, ReportPrefix, NewUncached, CachedStored, WalkStored, Stored

LEMMA QuietSteps ==
  ASSUME Control, NEW d \in 0..MaxDepth,
         \/ ContextEnter(d) \/ GetScan(d) \/ GetTake(d)
         \/ ReleaseEnter(d) \/ ReleaseClear(d) \/ TracebackEnter(d)
  PROVE  Quiet(d)
<1>1. PICK l \in {"context", "scan", "take", "release", "clear", "traceback"} : At(d, l)
  BY DEF ContextEnter, GetScan, GetTake, ReleaseEnter, ReleaseClear, TracebackEnter
<1>2. act[d] \in Frame /\ act \in [0..MaxDepth -> Frame]
  BY <1>1, AtFacts
<1>3. act[d].pc \in {"context", "scan"} => act[d].slot = 0
  BY <1>1, AtFacts DEF WellFormed
<1>4. UNCHANGED <<cached, stack, enabled, reports, direct>>
  BY DEF ContextEnter, GetScan, GetTake, ReleaseEnter, ReleaseClear, TracebackEnter, pool
<1>5. PICK f : act' = [act EXCEPT ![d] = f]
  BY DEF ContextEnter, GetScan, GetTake, ReleaseEnter, ReleaseClear, TracebackEnter, Goto, Pop
<1>6. \/ act'[d].pc \in {"idle", "scan", "take", "reset", "clear", "check"}
      \/ act'[d].pc = "go" /\ act'[d].slot = 0
  <2>1. CASE ContextEnter(d)
    BY <1>2, <1>3, <2>1 DEF ContextEnter, At, Goto, Frame
  <2>2. CASE GetScan(d)
    <3>1. act[d].slot = 0
      BY <1>3, <2>2 DEF GetScan, At
    <3>2. PICK g \in {[act[d] EXCEPT !.pc = "go", !.at = 0],
                      [act[d] EXCEPT !.pc = "take"],
                      [act[d] EXCEPT !.at = act[d].at + 1]} : act' = [act EXCEPT ![d] = g]
      BY <2>2 DEF GetScan, Goto
    <3>3. act'[d] = g /\ act[d].pc = "scan"
      BY <1>2, <2>2, <3>2 DEF GetScan, At
    <3> QED
      BY <1>2, <3>1, <3>2, <3>3 DEF Frame
  <2>3. CASE GetTake(d)
    BY <1>2, <2>3 DEF GetTake, Goto, Frame
  <2>4. CASE ReleaseEnter(d)
    <3>1. CASE enabled
      BY <1>2, <2>4, <3>1 DEF ReleaseEnter, Goto, Frame
    <3>2. CASE ~enabled
      <4>1. Pop(d)
        BY <2>4, <3>2 DEF ReleaseEnter
      <4>2. act'[d] = Idle
        BY <1>2, <4>1 DEF Pop
      <4> QED
        BY <4>2 DEF Idle, Activation
    <3> QED
      BY <3>1, <3>2
  <2>5. CASE ReleaseClear(d)
    BY <1>2, <2>5 DEF ReleaseClear, Pop, Idle, Activation
  <2>6. CASE TracebackEnter(d)
    <3>1. CASE enabled
      BY <1>2, <2>6, <3>1 DEF TracebackEnter, Goto, Frame
    <3>2. CASE ~enabled
      <4>1. Pop(d)
        BY <2>6, <3>2 DEF TracebackEnter
      <4>2. act'[d] = Idle
        BY <1>2, <4>1 DEF Pop
      <4> QED
        BY <4>2 DEF Idle, Activation
    <3> QED
      BY <3>1, <3>2
  <2> QED
    BY <2>1, <2>2, <2>3, <2>4, <2>5, <2>6
<1> QED
  BY <1>2, <1>4, <1>5, <1>6 DEF Quiet

LEMMA EnvironmentQuiet ==
  ASSUME Control,
         \/ \E site \in Sites : CallGo(site)
         \/ \E i \in Levels : CallTraceback(i) \/ ObserverTraceback(i)
         \/ GoReturn \/ Signal \/ SigReturn
  PROVE  \E d \in 0..MaxDepth : Quiet(d)
<1>1. top \in 0..MaxDepth /\ act \in [0..MaxDepth -> Frame] /\ MaxDepth \in Nat
  BY SizesAssumption DEF Control, Shape
<1>2. UNCHANGED <<cached, stack, enabled, reports, direct>>
  BY DEF CallGo, CallTraceback, ObserverTraceback, GoReturn, Signal, SigReturn, pool
<1>3. CASE \/ \E site \in Sites : CallGo(site)
           \/ \E i \in Levels : CallTraceback(i)
           \/ Signal
  <2>1. PICK f : /\ top < MaxDepth
                 /\ act' = [act EXCEPT ![top + 1] = f]
                 /\ f.pc \in {"context", "traceback", "sig"}
    <3> DEFINE P(f) == /\ top < MaxDepth
                       /\ act' = [act EXCEPT ![top + 1] = f]
                       /\ f.pc \in {"context", "traceback", "sig"}
    <3>1. \A l, t, s : Activation(l, t, s).pc = l
      BY DEF Activation
    <3>2. ASSUME NEW site \in Sites, CallGo(site) PROVE P(Activation("context", 0, site))
      BY <3>1, <3>2 DEF CallGo, Push
    <3>3. ASSUME NEW i \in Levels, CallTraceback(i) PROVE P(Unwinding(i))
      BY <3>1, <3>3 DEF CallTraceback, Push, Unwinding
    <3>4. ASSUME Signal PROVE P(Activation("sig", 0, NoSite))
      BY <3>1, <3>4 DEF Signal, Push
    <3> HIDE DEF P
    <3>5. \E f : P(f)
      BY <1>3, <3>2, <3>3, <3>4
    <3> QED
      BY <3>5 DEF P
  <2>2. top + 1 \in 0..MaxDepth
    BY <1>1, <2>1
  <2>3. act'[top + 1].pc \in {"context", "traceback", "sig"}
    BY <1>1, <2>1, <2>2
  <2>4. \A e \in 0..MaxDepth : e # top + 1 => act'[e] = act[e]
    BY <1>1, <2>1, <2>2
  <2> QED
    BY <1>2, <2>2, <2>3, <2>4 DEF Quiet
<1>4. CASE \E i \in Levels : ObserverTraceback(i)
  <2>1. PICK f : act' = [act EXCEPT ![0] = f] /\ f.pc = "traceback"
    <3>1. PICK i \in Levels : ObserverTraceback(i)
      BY <1>4
    <3>2. Unwinding(i).pc = "traceback"
      BY DEF Unwinding, Activation
    <3> QED
      BY <3>1, <3>2 DEF ObserverTraceback, Goto
  <2>2. 0 \in 0..MaxDepth
    BY <1>1
  <2> QED
    BY <1>1, <1>2, <2>1, <2>2 DEF Quiet
<1>5. CASE GoReturn \/ SigReturn
  <2>1. PICK f : act' = [act EXCEPT ![top] = f] /\ f.pc \in {"idle", "release"}
    <3>1. CASE GoReturn /\ act[top].slot # 0
      <4>1. [act[top] EXCEPT !.pc = "release"].pc = "release"
        BY <1>1 DEF Frame
      <4> QED
        BY <3>1, <4>1 DEF GoReturn, Goto
    <3>2. CASE SigReturn \/ (GoReturn /\ act[top].slot = 0)
      BY <3>2 DEF GoReturn, SigReturn, Pop, Idle, Activation
    <3> QED
      BY <1>5, <3>1, <3>2
  <2> QED
    BY <1>1, <1>2, <2>1 DEF Quiet
<1> QED
  BY <1>3, <1>4, <1>5

LEMMA NextData == Control /\ Data /\ [Next]_vars => Data'
<1> SUFFICES ASSUME Control, Data, [Next]_vars PROVE Data'
  OBVIOUS
<1>1. CASE UNCHANGED vars
  BY <1>1
  DEF vars, Data, DataTypes, ReportPrefix, NewUncached, CachedStored, WalkStored, Stored
<1>2. ASSUME NEW value \in BOOLEAN, SetEnabled(value)
      PROVE  Data'
  BY <1>2
  DEF SetEnabled, pool,
      Data, DataTypes, ReportPrefix, NewUncached, CachedStored, WalkStored, Stored
<1>3. CASE \E d \in 0..MaxDepth : CodeStep(d)
  BY <1>3, QuietSteps, QuietData, ResetData, PublishData, CheckData, WalkData, TruncateData,
     MarkData, CopyData
  DEF CodeStep
<1>4. CASE Next /\ ~\E d \in 0..MaxDepth : CodeStep(d)
  BY <1>2, <1>4, DirectData, EnvironmentQuiet, QuietData DEF Next
<1> QED
  BY <1>1, <1>3, <1>4

LEMMA DataAlways == Spec => [](Control /\ Data)
<1>1. Init => Control /\ Data
  BY InitControl, InitData
<1>2. (Control /\ Data) /\ [Next]_vars => (Control /\ Data)'
  BY NextControl, NextData
<1> QED
  BY <1>1, <1>2, PTL DEF Spec

\* The variables have their types: slots and labels are the ones of the code,
\* and what the buffers and cached stacks hold are addresses or 0.
THEOREM TypeCorrect == Spec => []TypeOK
<1>1. Control /\ Data => TypeOK
  BY DEF Control, Shape, Data, DataTypes, Report, TypeOK
<1> QED
  BY <1>1, DataAlways, PTL

\* Every unwinding of a context, by any thread or handler at any moment, gets
\* the frames of the call the context was made for (cgotraceback.cpp:179-195).
THEOREM ReportsPrefix == Spec => []ReportPrefix
<1>1. Control /\ Data => ReportPrefix
  BY DEF Data
<1> QED
  BY <1>1, DataAlways, PTL
=============================================================================

------------------------ MODULE CgoContextExactProofs ------------------------
(***************************************************************************)
(* Proofs that an unwinding reports no frame too many (DirectsExact, for   *)
(* the unwinding of an interrupted thread into Go's own buffer, and        *)
(* ReportsExact, for contexts whose chains leave no room for old frames),  *)
(* and that the pool of contexts is a stack as long as SetEnabled is not   *)
(* called while the program runs (NoContextLeaks, and PoolRefined, the     *)
(* refinement of ContextStack).                                            *)
(***************************************************************************)
EXTENDS CgoContextProofs, SequenceTheorems, FiniteSetTheorems

-----------------------------------------------------------------------------
(* Call chains and their truncation.                                         *)

\* The chain of a call stops at OwnLength because of asmcgocall, or because
\* it is the whole chain.
LEMMA OwnLengthEnd ==
  ASSUME NEW s \in Sites
  PROVE  \/ FirstAsm(Walk[s], Len(Walk[s]), OwnLength(s))
         \/ /\ OwnLength(s) = Len(Walk[s])
            /\ \A i \in 1..Len(Walk[s]) : ~FirstAsm(Walk[s], Len(Walk[s]), i)
<1> DEFINE First(i) == FirstAsm(Walk[s], Len(Walk[s]), i)
           o == CHOOSE i \in 1..Len(Walk[s]) : First(i)
<1>1. CASE \E i \in 1..Len(Walk[s]) : First(i)
  <2>1. First(o)
    BY <1>1
  <2>2. OwnLength(s) = o
    BY <1>1 DEF OwnLength
  <2> HIDE DEF o
  <2> QED
    BY <2>1, <2>2
<1>2. CASE ~\E i \in 1..Len(Walk[s]) : First(i)
  BY <1>2 DEF OwnLength
<1> QED
  BY <1>1, <1>2

\* A buffer f that starts with n frames of the chain, truncated: the frames of
\* the call stay, and the entry after them is 0 if another frame followed.
LEMMA TruncateOwn ==
  ASSUME NEW s \in Sites, NEW m \in Nat, NEW f \in [1..m -> Nat],
         NEW n \in Nat, n <= m, n <= Len(Walk[s]),
         \A i \in 1..n : f[i] = Walk[s][i]
  PROVE  LET g == Truncate(f, n)
             o == OwnLength(s)
         IN  /\ g \in [1..m -> Nat]
             /\ \A i \in 1..n : i <= o => g[i] = Walk[s][i]
             /\ o < n => g[o + 1] = 0
             /\ \A i \in 1..m : i > n => g[i] = f[i]
<1> DEFINE g == Truncate(f, n)
           o == OwnLength(s)
           L == Len(Walk[s])
<1>1. L \in Nat
  <2>1. Walk[s] \in Seq(Nat \ {0})
    BY WalkAssumption
  <2> QED
    BY <2>1
<1>2. o \in 1..L /\ \A i \in 1..L : i < o => Walk[s][i] \notin Asmcgocall
  BY OwnLengthBounds
<1>3. \A i \in 1..m : g[i] = IF i \in 2..n /\ FirstAsm(f, n, i - 1) THEN 0 ELSE f[i]
  BY DEF Truncate
<1>4. g \in [1..m -> Nat]
  BY DEF Truncate
<1>a. o < n => FirstAsm(Walk[s], L, o)
  BY OwnLengthEnd, <1>1, <1>2
<1> HIDE DEF g, o, L
<1>5. \A i \in 1..n : i <= o => g[i] = Walk[s][i]
  <2> SUFFICES ASSUME NEW i \in 1..n, i <= o
               PROVE  g[i] = Walk[s][i]
    OBVIOUS
  <2>1. i \in 2..n => f[i - 1] \notin Asmcgocall
    <3> SUFFICES ASSUME i \in 2..n
                 PROVE  f[i - 1] \notin Asmcgocall
      OBVIOUS
    <3>1. i - 1 \in 1..n /\ i - 1 \in 1..L /\ i - 1 < o
      BY <1>1, <1>2 DEF L
    <3> QED
      BY <3>1, <1>2
  <2>2. g[i] = f[i]
    BY <2>1, <1>3 DEF FirstAsm
  <2> QED
    BY <2>2
<1>6. o < n => g[o + 1] = 0
  <2> SUFFICES ASSUME o < n
               PROVE  g[o + 1] = 0
    OBVIOUS
  <2>1. o \in 1..n /\ o + 1 \in 2..n /\ o + 1 \in 1..m /\ (o + 1) - 1 = o
    BY <1>1, <1>2
  <2>2. FirstAsm(f, n, o)
    <3>1. Walk[s][o] \in Asmcgocall
      BY <1>a DEF FirstAsm
    <3>2. \A j \in 1..(o - 1) : j \in 1..n /\ j \in 1..L /\ j < o
      BY <1>1, <1>2, <2>1
    <3>3. \A j \in 1..(o - 1) : f[j] \notin Asmcgocall
      BY <3>2, <1>2
    <3> QED
      BY <2>1, <3>1, <3>3 DEF FirstAsm
  <2> QED
    BY <1>3, <2>1, <2>2
<1>7. \A i \in 1..m : i > n => g[i] = f[i]
  BY <1>3
<1> QED
  BY <1>4, <1>5, <1>6, <1>7 DEF g, o

\* The frames Go reads in a buffer that starts with k addresses, and has a 0
\* after them or no room left, are those k.
LEMMA FramesOf ==
  ASSUME NEW m \in Nat, NEW f \in [1..m -> Nat], NEW k \in 0..m,
         \A i \in 1..k : f[i] # 0,
         k < m => f[k + 1] = 0
  PROVE  Frames(f) = 1..k
<1>1. \A i \in 1..k : i \in 1..m /\ \A j \in 1..i : j \in 1..k
  OBVIOUS
<1>2. 1..k \subseteq Frames(f)
  BY <1>1 DEF Frames
<1>3. \A i \in 1..m : i > k => k < m /\ k + 1 \in 1..i
  OBVIOUS
<1>4. Frames(f) \subseteq 1..k
  BY <1>3 DEF Frames
<1> QED
  BY <1>2, <1>4

-----------------------------------------------------------------------------
(* The interrupted thread.                                                   *)

LEMMA DirectOwn ==
  ASSUME NEW s \in Sites, NEW old \in [1..BufMax -> Nat]
  PROVE  LET b == DirectBuffer(old, s)
             Own == 1..Least(OwnLength(s), BufMax)
         IN  /\ Frames(b) = Own
             /\ \A i \in Own : b[i] = Walk[s][i]
<1> DEFINE n == WalkCount(s, BufMax)
           walked == WalkInto(old, s, BufMax)
           closed == IF n < BufMax THEN [walked EXCEPT ![n + 1] = 0] ELSE walked
           b == DirectBuffer(old, s)
           o == OwnLength(s)
           k == Least(o, BufMax)
<1>1. /\ BufMax \in Nat \ {0}
      /\ Len(Walk[s]) \in Nat
      /\ Walk[s] \in [1..Len(Walk[s]) -> Nat \ {0}]
  BY WalkCountBounds, WalkAssumption, SizesAssumption
<1>2. n \in Nat /\ n <= BufMax /\ n <= Len(Walk[s]) /\ (n < BufMax => n = Len(Walk[s]))
  BY <1>1 DEF WalkCount, Least
<1>3. o \in 1..Len(Walk[s])
  BY OwnLengthBounds
<1>4. walked \in [1..BufMax -> Nat] /\ \A i \in 1..n : walked[i] = Walk[s][i]
  <2>1. walked = [i \in 1..BufMax |-> IF i <= n THEN Walk[s][i] ELSE old[i]]
    BY DEF WalkInto
  <2> HIDE DEF walked, n
  <2>2. \A i \in 1..BufMax : i <= n => i \in 1..Len(Walk[s]) /\ Walk[s][i] \in Nat
    BY <1>1, <1>2
  <2>3. \A i \in 1..n : i \in 1..BufMax /\ i <= n
    BY <1>1, <1>2
  <2> QED
    BY <2>1, <2>2, <2>3
<1> HIDE DEF walked, n, o
<1>5. /\ closed \in [1..BufMax -> Nat]
      /\ \A i \in 1..n : closed[i] = Walk[s][i]
      /\ n < BufMax => closed[n + 1] = 0
  BY <1>1, <1>2, <1>4
<1>6. b = Truncate(closed, n)
  BY DEF DirectBuffer, walked, n
<1> HIDE DEF closed, b
<1>7. /\ b \in [1..BufMax -> Nat]
      /\ \A i \in 1..n : i <= o => b[i] = Walk[s][i]
      /\ o < n => b[o + 1] = 0
      /\ \A i \in 1..BufMax : i > n => b[i] = closed[i]
  <2>1. BufMax \in Nat /\ n <= BufMax /\ n <= Len(Walk[s])
    BY <1>1, <1>2
  <2> QED
    BY <1>2, <1>5, <1>6, <2>1, TruncateOwn DEF o
<1>8. /\ k \in 0..BufMax
      /\ \A i \in 1..k : i \in 1..n /\ i <= o /\ i \in 1..Len(Walk[s])
      /\ k < BufMax => k = o /\ (o < n \/ (o = n /\ n < BufMax))
  BY <1>1, <1>2, <1>3 DEF Least
<1> HIDE DEF k
<1>9. \A i \in 1..k : b[i] = Walk[s][i] /\ b[i] # 0
  BY <1>1, <1>7, <1>8
<1>10. k < BufMax => b[k + 1] = 0
  BY <1>1, <1>2, <1>3, <1>5, <1>7, <1>8
<1>11. Frames(b) = 1..k
  <2>1. BufMax \in Nat
    BY <1>1
  <2>2. b \in [1..BufMax -> Nat] /\ k \in 0..BufMax
    BY <1>7, <1>8
  <2>3. \A i \in 1..k : b[i] # 0
    BY <1>9
  <2> QED
    BY <1>10, <2>1, <2>2, <2>3, FramesOf
<1> QED
  BY <1>9, <1>11 DEF b, k, o

\* An unwinding of the interrupted thread gets its own frames up to
\* asmcgocall and nothing of the unwinding before, for every chain and every
\* size of the buffer (cgotraceback.cpp:150-166).
THEOREM DirectsExact == Spec => []DirectExact
<1>1. Init => DirectExact
  BY DEF Init, DirectExact
<1>2. Data /\ DirectExact /\ [Next]_vars => DirectExact'
  <2> SUFFICES ASSUME Data, DirectExact, [Next]_vars
               PROVE  DirectExact'
    OBVIOUS
  <2>1. CASE UNCHANGED direct
    BY <2>1 DEF DirectExact, Frames
  <2>2. ASSUME NEW s \in Sites, TracebackDirect(s)
        PROVE  DirectExact'
    <3>1. direct.buf \in [1..BufMax -> Nat]
      BY DEF Data, DataTypes
    <3>2. direct'.site = s /\ direct'.buf = DirectBuffer(direct.buf, s)
      BY <2>2, SMTT(30) DEF TracebackDirect
    <3> QED
      BY <3>1, <3>2, DirectOwn DEF DirectExact
  <2>3. UNCHANGED direct \/ \E s \in Sites : TracebackDirect(s)
    BY DEF Next, vars, CodeStep, ContextEnter, GetScan, GetTake, GetReset, ContextSave,
           ReleaseEnter, ReleaseClear, TracebackEnter, TracebackCheck, WalkStep,
           TracebackTruncate, TracebackMark, TracebackCopy, CallGo, CallTraceback,
           ObserverTraceback, GoReturn, Signal, SigReturn, SetEnabled
  <2> QED
    BY <2>1, <2>2, <2>3
<1> QED
  BY <1>1, <1>2, DataAlways, PTL DEF Spec

-----------------------------------------------------------------------------
(* Contexts.  An unwinding shows frames of another call when the walk leaves *)
(* an old entry behind the frames of this one, or when a second unwinding    *)
(* copies the stack before the first has truncated it.  ChainsFill excludes  *)
(* the one, OneUnwinder the other.                                           *)

CallSites == BaseSites \cup NestedSites \cup HandlerSites

\* Every chain is cut after asmcgocall, or leaves Go's buffer no room.
ChainsFill ==
  \A s \in CallSites :
    OwnLength(s) < WalkCount(s, StackMax) \/ OwnLength(s) >= Least(BufMax, StackMax)

\* No other thread unwinds this one, and no handler interrupts an unwinding.
OneUnwinder == ~Observer /\ Interrupts \cap TracebackLabels = {}

Alone ==
  /\ act[0].pc = "idle"
  /\ \A d \in Levels : act[d].pc \in TracebackLabels => d = top

FromCalls ==
  \A d \in Levels : act[d].pc \in CallLabels \cup TracebackLabels => act[d].site \in CallSites

\* What is seen of a buffer ends with the frames of site.
EndsIn(buf, site) ==
  OwnLength(site) < Least(BufMax, StackMax) => buf[OwnLength(site) + 1] = 0

\* The stack of an unwinding not yet marked is nobody else's to copy, and holds
\* all the frames stored so far.
Filling ==
  \A d \in Levels :
    /\ act[d].pc \in {"walk", "truncate", "mark"} => cached[act[d].slot] = 0
    /\ act[d].pc \in {"walk", "truncate"} =>
         \A i \in 1..act[d].at : stack[act[d].slot][i] = Walk[act[d].site][i]

Ended ==
  \A d \in Levels :
    \/ act[d].pc \in {"mark", "copy"}
    \/ act[d].pc = "go" /\ act[d].slot # 0 /\ cached[act[d].slot] = 1
    => EndsIn(stack[act[d].slot], act[d].site)

ReportsEnd ==
  \A s \in Slots : \A r \in reports[s] : EndsIn(r.buf, r.site)

Exact == Alone /\ FromCalls /\ Filling /\ Ended /\ ReportsEnd

\* With one unwinder, only the activation on top unwinds, and it unwinds a
\* call made from one of the sites.
LEMMA AloneNext ==
  ASSUME Control, OneUnwinder, Alone, FromCalls, [Next]_vars
  PROVE  Alone' /\ FromCalls'
<1> USE DEF Control
<1>1. /\ top \in 0..MaxDepth /\ top \in Nat /\ MaxDepth \in Nat
      /\ act \in [0..MaxDepth -> Frame]
      /\ Levels \subseteq 0..MaxDepth /\ 0 \notin Levels /\ 0 \in 0..MaxDepth
      /\ top # 0 => top \in Levels
      /\ \A e \in Levels : e \in Nat /\ e # 0
  BY SizesAssumption DEF Shape, Levels
<1>2. Idle.pc = "idle" /\ "idle" \notin CallLabels /\ "idle" \notin TracebackLabels
  BY DEF Idle, Activation, CallLabels, TracebackLabels
<1>3. ASSUME NEW f, top > 0, Goto(top, f),
             f.pc \in CallLabels \cup TracebackLabels => f.site \in CallSites
      PROVE  Alone' /\ FromCalls'
  <2>1. /\ top' = top /\ top \in Levels
        /\ \A e \in 0..MaxDepth : act'[e] = IF e = top THEN f ELSE act[e]
    BY <1>1, <1>3 DEF Goto
  <2> QED
    BY <1>1, <1>3, <2>1 DEF Alone, FromCalls
<1>4. ASSUME top > 0, Pop(top)
      PROVE  Alone' /\ FromCalls'
  <2>1. /\ top \in Levels
        /\ \A e \in 0..MaxDepth : act'[e] = IF e = top THEN Idle ELSE act[e]
    BY <1>1, <1>4 DEF Pop
  <2>2. \A e \in Levels : act'[e].pc \in CallLabels \cup TracebackLabels =>
          e # top /\ act'[e] = act[e]
    BY <1>1, <1>2, <2>1
  <2> QED
    BY <1>1, <2>1, <2>2 DEF Alone, FromCalls
<1>5. ASSUME NEW f, Push(f), top = 0 \/ act[top].pc \notin TracebackLabels,
             f.pc \in CallLabels \cup TracebackLabels => f.site \in CallSites
      PROVE  Alone' /\ FromCalls'
  <2>1. top + 1 \in 0..MaxDepth /\ top + 1 # 0 /\ top' = top + 1
    BY <1>1, <1>5 DEF Push
  <2>2. \A e \in 0..MaxDepth : act'[e] = IF e = top + 1 THEN f ELSE act[e]
    BY <1>1, <1>5, <2>1 DEF Push
  <2>3. \A e \in Levels : act[e].pc \notin TracebackLabels
    BY <1>1, <1>5 DEF Alone
  <2>4. Alone'
    BY <1>1, <2>1, <2>2, <2>3 DEF Alone
  <2>5. FromCalls'
    BY <1>1, <1>5, <2>2 DEF FromCalls
  <2> QED
    BY <2>4, <2>5
<1>6. ASSUME UNCHANGED <<top, act>>
      PROVE  Alone' /\ FromCalls'
  BY <1>6 DEF Alone, FromCalls
<1>7. ASSUME NEW d \in 0..MaxDepth, CodeStep(d)
      PROVE  Alone' /\ FromCalls'
  <2>1. d = top /\ top > 0
    BY <1>1, <1>7, StepKinds DEF Alone
  <2>2. CASE Pop(d)
    BY <1>4, <2>1, <2>2
  <2>3. CASE ~Pop(d)
    <3>1. PICK f \in Frame :
            /\ Goto(d, f)
            /\ f.site = act[d].site
            /\ f.pc \in TracebackLabels <=> act[d].pc \in TracebackLabels
            /\ f.pc \in CallLabels <=> act[d].pc \in CallLabels
      BY <1>7, <2>3, StepKinds
    <3>2. f.pc \in CallLabels \cup TracebackLabels => f.site \in CallSites
      BY <1>1, <2>1, <3>1 DEF FromCalls
    <3> QED
      BY <1>3, <2>1, <3>1, <3>2
  <2> QED
    BY <2>2, <2>3
<1>8. ASSUME NEW site \in Sites, CallGo(site)
      PROVE  Alone' /\ FromCalls'
  <2>1. site \in CallSites /\ (top = 0 \/ act[top].pc \notin TracebackLabels)
    BY <1>8 DEF CallGo, CallSites, TracebackLabels
  <2>2. Push(Activation("context", 0, site)) /\ Activation("context", 0, site).site = site
    BY <1>8 DEF CallGo, Activation
  <2> QED
    BY <1>5, <2>1, <2>2
<1>9. ASSUME NEW i \in Levels, CallTraceback(i)
      PROVE  Alone' /\ FromCalls'
  <2>1. act[i].pc = "go" /\ act[top].pc \notin TracebackLabels
    BY <1>9 DEF CallTraceback, Published, TracebackLabels
  <2>2. act[i].site \in CallSites
    BY <2>1 DEF FromCalls, CallLabels
  <2>3. Push(Unwinding(i)) /\ Unwinding(i).site = act[i].site
    BY <1>9 DEF CallTraceback, Unwinding, Activation
  <2> QED
    BY <1>5, <2>1, <2>2, <2>3
<1>10. ASSUME Signal
       PROVE  Alone' /\ FromCalls'
  <2>1. top = 0 \/ act[top].pc \in Interrupts
    BY <1>10 DEF Signal
  <2>2. top = 0 \/ act[top].pc \notin TracebackLabels
    BY <2>1 DEF OneUnwinder
  <2>3. /\ Push(Activation("sig", 0, NoSite))
        /\ Activation("sig", 0, NoSite).pc \notin CallLabels \cup TracebackLabels
    BY <1>10 DEF Signal, Activation, CallLabels, TracebackLabels
  <2> QED
    BY <1>5, <2>2, <2>3
<1>11. ASSUME GoReturn
       PROVE  Alone' /\ FromCalls'
  <2>1. top > 0 /\ act[top].pc = "go"
    BY <1>11 DEF GoReturn, At
  <2>2. CASE act[top].slot = 0
    BY <1>4, <1>11, <2>1, <2>2 DEF GoReturn
  <2>3. CASE act[top].slot # 0
    <3>1. /\ Goto(top, [act[top] EXCEPT !.pc = "release"])
          /\ [act[top] EXCEPT !.pc = "release"].site = act[top].site
      BY <1>1, <1>11, <2>1, <2>3 DEF GoReturn, Frame
    <3>2. act[top].site \in CallSites
      BY <1>1, <2>1 DEF FromCalls, CallLabels
    <3> QED
      BY <1>3, <2>1, <3>1, <3>2
  <2> QED
    BY <2>2, <2>3
<1>12. ASSUME SigReturn
       PROVE  Alone' /\ FromCalls'
  BY <1>4, <1>12 DEF SigReturn
<1>13. ASSUME NEW i \in Levels, ObserverTraceback(i)
       PROVE  FALSE
  BY <1>13 DEF ObserverTraceback, OneUnwinder
<1>14. ASSUME UNCHANGED vars
       PROVE  Alone' /\ FromCalls'
  BY <1>6, <1>14 DEF vars
<1>15. ASSUME NEW site \in Sites, TracebackDirect(site)
       PROVE  Alone' /\ FromCalls'
  BY <1>6, <1>15 DEF TracebackDirect
<1>16. ASSUME NEW value \in BOOLEAN, SetEnabled(value)
       PROVE  Alone' /\ FromCalls'
  BY <1>6, <1>16 DEF SetEnabled
<1> HIDE DEF Control
<1> QED
  BY <1>7, <1>8, <1>9, <1>10, <1>11, <1>12, <1>13, <1>14, <1>15, <1>16 DEF Next

-----------------------------------------------------------------------------
(* The steps that touch a cached stack, one lemma each.                      *)

Kept == Filling /\ Ended /\ ReportsEnd

LEMMA QuietKept ==
  ASSUME Kept, NEW d \in 0..MaxDepth, Quiet(d)
  PROVE  Kept'
<1>1. Levels \subseteq 0..MaxDepth
  BY SizesAssumption DEF Levels
<1>2. \A e \in Levels : act'[e].pc \in {"walk", "truncate", "mark", "copy"} => act'[e] = act[e]
  BY <1>1 DEF Quiet
<1>3. \A e \in Levels : act'[e].pc = "go" /\ act'[e].slot # 0 => act'[e] = act[e]
  BY <1>1 DEF Quiet
<1>4. Filling'
  BY <1>2 DEF Quiet, Kept, Filling
<1>5. Ended'
  BY <1>2, <1>3 DEF Quiet, Kept, Ended, EndsIn
<1>6. ReportsEnd'
  BY DEF Quiet, Kept, ReportsEnd, EndsIn
<1> QED
  BY <1>4, <1>5, <1>6 DEF Kept

\* What the steps below may use: d is on top of the thread, and unless it is a
\* call about to be published, it unwinds a call below it.
LEMMA KeptFacts ==
  ASSUME Control, Alone, NEW d \in 0..MaxDepth, NEW l \in Labels \ {"idle"}, At(d, l)
  PROVE  /\ d \in Levels
         /\ act[d] \in Frame /\ WellFormed(act[d]) /\ act[d].pc = l
         /\ act \in [0..MaxDepth -> Frame]
         /\ Levels \subseteq 0..MaxDepth
         /\ l \in {"reset", "save"} \cup TracebackLabels =>
              act[d].slot \in Slots /\ act[d].site \in Sites
         /\ \A e \in Levels : e # d => act[e].pc \notin TracebackLabels
         /\ \A e \in Levels : act[e].pc = "go" /\ act[e].slot # 0 => act[e].slot \in Slots
<1>1. /\ act[d] \in Frame /\ WellFormed(act[d]) /\ act[d].pc = l /\ d \in {0, top}
      /\ act \in [0..MaxDepth -> Frame]
  BY AtFacts
<1>2. /\ Levels \subseteq 0..MaxDepth /\ 0 \notin Levels
      /\ \A e \in 0..MaxDepth : e # 0 => e \in Levels
  BY SizesAssumption DEF Levels
<1>3. d = top /\ d \in Levels
  BY <1>1, <1>2 DEF Alone
<1>4. l \in {"reset", "save"} \cup TracebackLabels =>
        act[d].slot \in Slots /\ act[d].site \in Sites
  BY <1>1 DEF WellFormed, CallLabels
<1>5. \A e \in Levels : e # d => act[e].pc \notin TracebackLabels
  BY <1>3 DEF Alone
<1>6. \A e \in Levels : act[e].pc = "go" /\ act[e].slot # 0 => act[e].slot \in Slots
  BY <1>1, <1>2, SizesAssumption DEF Frame, Slots
<1> QED
  BY <1>1, <1>2, <1>3, <1>4, <1>5, <1>6

\* cgo_context_get resets the cached stack of a slot before it is published.
LEMMA NewKept ==
  ASSUME Control, Data, Alone, Kept, NEW d \in 0..MaxDepth,
         GetReset(d) \/ ContextSave(d)
  PROVE  Kept'
<1>1. PICK l \in {"reset", "save"} : At(d, l)
  BY DEF GetReset, ContextSave
<1>2. l \in Labels \ {"idle"}
  BY <1>1 DEF Labels
<1> DEFINE t == act[d].slot
<1>3. /\ d \in Levels /\ act[d] \in Frame /\ act[d].pc = l
      /\ act \in [0..MaxDepth -> Frame] /\ Levels \subseteq 0..MaxDepth
      /\ t \in Slots
      /\ \A e \in Levels : act[e].pc \notin TracebackLabels
      /\ \A e \in Levels : act[e].pc = "go" /\ act[e].slot # 0 => act[e].slot \in Slots
  <2>1. l \notin TracebackLabels
    BY <1>1 DEF TracebackLabels
  <2> QED
    BY <1>1, <1>2, <2>1, KeptFacts
<1>4. /\ UNCHANGED stack
      /\ \A e \in Levels : e # d => act'[e] = act[e]
      /\ act'[d].slot = t
      /\ \/ act'[d].pc = "save"
         \/ act'[d].pc = "go" /\ cached'[t] = 0
  <2>1. CASE GetReset(d)
    BY <1>3, <2>1 DEF GetReset, Goto, Frame
  <2>2. CASE ContextSave(d)
    <3>1. act[d].pc = "save" /\ cached' = cached /\ cached[t] = 0
      BY <1>3, <2>2 DEF ContextSave, At, Data, NewUncached
    <3> QED
      BY <1>3, <2>2, <3>1 DEF ContextSave, Goto, Frame
  <2> QED
    BY <2>1, <2>2
<1>5. /\ \A u \in Slots : cached'[u] \in {0, cached[u]}
      /\ \A u \in Slots : reports'[u] \subseteq reports[u]
  BY <1>3 DEF GetReset, ContextSave, Data, DataTypes
<1>6. \A e \in Levels : act'[e].pc \notin {"walk", "truncate", "mark", "copy"}
  BY <1>3, <1>4 DEF TracebackLabels
<1>7. Filling'
  BY <1>6 DEF Filling
<1>8. Ended'
  <2> SUFFICES ASSUME NEW e \in Levels,
                      act'[e].pc = "go", act'[e].slot # 0, cached'[act'[e].slot] = 1
               PROVE  EndsIn(stack'[act'[e].slot], act'[e].site)
    BY <1>6 DEF Ended, EndsIn
  <2>1. e # d /\ act'[e] = act[e]
    BY <1>4
  <2>2. act[e].slot \in Slots
    BY <1>3, <2>1
  <2>3. cached[act[e].slot] = 1
    BY <1>5, <2>1, <2>2
  <2> QED
    BY <1>4, <2>1, <2>3 DEF Kept, Ended
<1>9. ReportsEnd'
  BY <1>5 DEF Kept, ReportsEnd, EndsIn
<1> QED
  BY <1>7, <1>8, <1>9 DEF Kept

\* The two steps that choose what to copy: a stack is copied at once only if
\* it was marked, and marked only after it was truncated.
LEMMA MarkKept ==
  ASSUME Control, Data, Alone, Kept, NEW d \in 0..MaxDepth,
         TracebackCheck(d) \/ TracebackMark(d)
  PROVE  Kept'
<1>1. PICK l \in {"check", "mark"} : At(d, l)
  BY DEF TracebackCheck, TracebackMark
<1>2. l \in Labels \ {"idle"} /\ l \in TracebackLabels
  BY <1>1 DEF Labels, TracebackLabels
<1> DEFINE t == act[d].slot
           s == act[d].site
<1>3. /\ d \in Levels /\ act[d] \in Frame /\ act[d].pc = l /\ WellFormed(act[d])
      /\ act \in [0..MaxDepth -> Frame] /\ Levels \subseteq 0..MaxDepth
      /\ t \in Slots /\ s \in Sites
      /\ \A e \in Levels : e # d => act[e].pc \notin TracebackLabels
      /\ \A e \in Levels : act[e].pc = "go" /\ act[e].slot # 0 => act[e].slot \in Slots
  BY <1>1, <1>2, KeptFacts
<1>4. cached \in [Slots -> {0, 1}] /\ t # 0
  BY <1>3, SizesAssumption DEF Data, DataTypes, Slots
<1>5. PICK i \in Levels : Traces(d, i)
  BY <1>2, <1>3 DEF Control, Traced
<1>6. /\ act[i].pc = "go" /\ act[i].slot = t /\ act[i].site = s
      /\ \A e \in Levels : act[e].pc = "go" /\ act[e].slot = t => act[e].site = s
  BY <1>2, <1>3, <1>5, OneSite DEF Traces
<1>7. UNCHANGED <<stack, reports>> /\ \A e \in Levels : e # d => act'[e] = act[e]
  BY <1>3 DEF TracebackCheck, TracebackMark, Goto, pool
<1>8. ReportsEnd'
  BY <1>7 DEF Kept, ReportsEnd, EndsIn
<1>9. CASE TracebackCheck(d)
  <2>1. cached' = cached /\ act[d].at = 0 /\ act[d].pc = "check"
    BY <1>3, <1>9 DEF TracebackCheck, At, pool, WellFormed
  <2>2. CASE cached[t] = 0
    <3>1. /\ act'[d].pc = "walk" /\ act'[d].slot = t /\ act'[d].site = s /\ act'[d].at = 0
      BY <1>3, <1>9, <2>1, <2>2 DEF TracebackCheck, Goto, Frame
    <3>2. Filling'
      BY <1>3, <1>7, <2>1, <2>2, <3>1 DEF Kept, Filling, TracebackLabels
    <3>3. Ended'
      BY <1>3, <1>7, <2>1, <3>1 DEF Kept, Ended, TracebackLabels
    <3> QED
      BY <1>8, <3>2, <3>3 DEF Kept
  <2>3. CASE cached[t] # 0
    <3>1. /\ act'[d].pc = "copy" /\ act'[d].slot = t /\ act'[d].site = s
      BY <1>3, <1>9, <2>1, <2>3 DEF TracebackCheck, Goto, Frame
    <3>2. EndsIn(stack[t], s)
      BY <1>3, <1>4, <1>6, <2>3 DEF Kept, Ended
    <3>3. Filling'
      BY <1>3, <1>7, <2>1, <3>1 DEF Kept, Filling, TracebackLabels
    <3>4. Ended'
      BY <1>3, <1>7, <2>1, <3>1, <3>2 DEF Kept, Ended, TracebackLabels
    <3> QED
      BY <1>8, <3>3, <3>4 DEF Kept
  <2> QED
    BY <2>2, <2>3
<1>10. CASE TracebackMark(d)
  <2>1. /\ act'[d].pc = "copy" /\ act'[d].slot = t /\ act'[d].site = s
        /\ cached' = [cached EXCEPT ![t] = 1]
        /\ act[d].pc = "mark"
    BY <1>3, <1>10 DEF TracebackMark, At, Goto, Frame
  <2>2. EndsIn(stack[t], s)
    BY <1>3, <2>1 DEF Kept, Ended
  <2>3. Filling'
    BY <1>3, <1>7, <2>1 DEF Filling, TracebackLabels
  <2>4. Ended'
    <3> SUFFICES ASSUME NEW e \in Levels,
                        \/ act'[e].pc \in {"mark", "copy"}
                        \/ act'[e].pc = "go" /\ act'[e].slot # 0 /\ cached'[act'[e].slot] = 1
                 PROVE  EndsIn(stack'[act'[e].slot], act'[e].site)
      BY DEF Ended, EndsIn
    <3>1. CASE e = d
      BY <1>7, <2>1, <2>2, <3>1
    <3>2. CASE e # d /\ act[e].slot = t
      BY <1>3, <1>6, <1>7, <2>2, <3>2 DEF TracebackLabels
    <3>3. CASE e # d /\ act[e].slot # t
      <4>1. act[e].pc = "go" /\ act[e].slot \in Slots /\ cached[act[e].slot] = 1
        BY <1>3, <1>4, <1>7, <2>1, <3>3 DEF TracebackLabels
      <4> QED
        BY <1>7, <3>3, <4>1 DEF Kept, Ended
    <3> QED
      BY <3>1, <3>2, <3>3
  <2> QED
    BY <1>8, <2>3, <2>4 DEF Kept
<1> QED
  BY <1>9, <1>10

\* A frame stored into a stack that nobody can copy yet.
LEMMA WalkKept ==
  ASSUME Control, Data, Alone, Kept, NEW d \in 0..MaxDepth, WalkStep(d)
  PROVE  Kept'
<1> DEFINE t == act[d].slot
           s == act[d].site
           n == act[d].at + 1
<1>1. At(d, "walk") /\ "walk" \in Labels \ {"idle"} /\ "walk" \in TracebackLabels
  BY DEF WalkStep, Labels, TracebackLabels
<1>2. /\ d \in Levels /\ act[d] \in Frame /\ act[d].pc = "walk" /\ WellFormed(act[d])
      /\ act \in [0..MaxDepth -> Frame] /\ Levels \subseteq 0..MaxDepth
      /\ t \in Slots /\ s \in Sites
      /\ \A e \in Levels : e # d => act[e].pc \notin TracebackLabels
      /\ \A e \in Levels : act[e].pc = "go" /\ act[e].slot # 0 => act[e].slot \in Slots
  BY <1>1, KeptFacts
<1>3. /\ act[d].sc = s /\ act[d].at \in Nat /\ n \in 1..StackMax
      /\ stack \in [Slots -> [1..StackMax -> Nat]]
  <2>1. act[d].sc = s /\ act[d].at \in Nat /\ act[d].at < WalkCount(s, StackMax)
    BY <1>2 DEF WellFormed, Frame
  <2>2. WalkCount(s, StackMax) \in 1..StackMax
    BY <1>2, WalkCountBounds
  <2> QED
    BY <2>1, <2>2, SizesAssumption DEF Data, DataTypes
<1>4. /\ stack' = [stack EXCEPT ![t][n] = Walk[s][n]]
      /\ UNCHANGED <<cached, reports>>
      /\ cached[t] = 0
  BY <1>2, <1>3 DEF WalkStep, Kept, Filling
<1>5. /\ \A e \in Levels : e # d => act'[e] = act[e]
      /\ act'[d].slot = t /\ act'[d].site = s /\ act'[d].at = n
      /\ act'[d].pc \in {"walk", "truncate"}
  <2>1. PICK f \in {[act[d] EXCEPT !.at = n, !.pc = "walk"],
                    [act[d] EXCEPT !.at = n, !.pc = "truncate"]} :
          act' = [act EXCEPT ![d] = f]
    BY DEF WalkStep, Goto
  <2>2. f.slot = t /\ f.site = s /\ f.at = n /\ f.pc \in {"walk", "truncate"}
    BY <1>2, <2>1 DEF Frame
  <2> QED
    BY <1>2, <2>1, <2>2
<1>6. /\ stack'[t][n] = Walk[s][n]
      /\ \A i \in 1..StackMax : i # n => stack'[t][i] = stack[t][i]
      /\ \A u \in Slots : u # t => stack'[u] = stack[u]
  BY <1>2, <1>3, <1>4
<1>7. \A i \in 1..n : i # n => i \in 1..act[d].at /\ i \in 1..StackMax
  BY <1>3, SizesAssumption
<1>8. Filling'
  <2>1. \A i \in 1..n : stack'[t][i] = Walk[s][i]
    BY <1>2, <1>6, <1>7 DEF Kept, Filling
  <2>2. \A e \in Levels : e # d => act'[e].pc \notin {"walk", "truncate", "mark"}
    BY <1>2, <1>5 DEF TracebackLabels
  <2> HIDE DEF n, t, s
  <2> QED
    BY <1>4, <1>5, <2>1, <2>2 DEF Filling
<1>9. Ended'
  <2> SUFFICES ASSUME NEW e \in Levels,
                      \/ act'[e].pc \in {"mark", "copy"}
                      \/ act'[e].pc = "go" /\ act'[e].slot # 0 /\ cached'[act'[e].slot] = 1
               PROVE  EndsIn(stack'[act'[e].slot], act'[e].site)
    BY DEF Ended, EndsIn
  <2>1. e # d /\ act'[e] = act[e]
    BY <1>5
  <2>2. act[e].pc = "go" /\ act[e].slot \in Slots /\ cached[act[e].slot] = 1
    BY <1>2, <1>4, <2>1 DEF TracebackLabels
  <2>3. stack'[act[e].slot] = stack[act[e].slot]
    BY <1>4, <1>6, <2>2
  <2> QED
    BY <1>2, <2>1, <2>2, <2>3 DEF Kept, Ended
<1>10. ReportsEnd'
  BY <1>4 DEF Kept, ReportsEnd, EndsIn
<1> QED
  BY <1>8, <1>9, <1>10 DEF Kept

\* truncate_asmcgocall ends the stack where the frames of the call end, or
\* those frames fill the buffer.
LEMMA TruncateKept ==
  ASSUME Control, Data, ChainsFill, Alone, FromCalls, Kept,
         NEW d \in 0..MaxDepth, TracebackTruncate(d)
  PROVE  Kept'
<1> DEFINE t == act[d].slot
           s == act[d].site
           n == act[d].at
           o == OwnLength(s)
<1>1. At(d, "truncate") /\ "truncate" \in Labels \ {"idle"} /\ "truncate" \in TracebackLabels
  BY DEF TracebackTruncate, Labels, TracebackLabels
<1>2. /\ d \in Levels /\ act[d] \in Frame /\ act[d].pc = "truncate" /\ WellFormed(act[d])
      /\ act \in [0..MaxDepth -> Frame] /\ Levels \subseteq 0..MaxDepth
      /\ t \in Slots /\ s \in Sites
      /\ \A e \in Levels : e # d => act[e].pc \notin TracebackLabels
      /\ \A e \in Levels : act[e].pc = "go" /\ act[e].slot # 0 => act[e].slot \in Slots
  BY <1>1, KeptFacts
<1>3. /\ n = WalkCount(s, StackMax) /\ n \in Nat /\ StackMax \in Nat
      /\ n <= StackMax /\ n <= Len(Walk[s])
      /\ stack \in [Slots -> [1..StackMax -> Nat]]
      /\ o < n \/ o >= Least(BufMax, StackMax)
  <2>1. act[d].sc = s /\ n = WalkCount(s, StackMax)
    BY <1>2 DEF WellFormed
  <2>2. WalkCount(s, StackMax) \in 1..StackMax /\ WalkCount(s, StackMax) <= Len(Walk[s])
    BY <1>2, WalkCountBounds
  <2>3. s \in CallSites
    BY <1>1, <1>2 DEF FromCalls
  <2> QED
    BY <2>1, <2>2, <2>3, SizesAssumption DEF Data, DataTypes, ChainsFill
<1>4. /\ stack' = [stack EXCEPT ![t] = Truncate(stack[t], n)]
      /\ UNCHANGED <<cached, reports>>
      /\ cached[t] = 0
      /\ \A i \in 1..n : stack[t][i] = Walk[s][i]
  BY <1>2, <1>3 DEF TracebackTruncate, Kept, Filling
<1>5. /\ \A e \in Levels : e # d => act'[e] = act[e]
      /\ act'[d].slot = t /\ act'[d].site = s
      /\ act'[d].pc = "mark"
  BY <1>2 DEF TracebackTruncate, Goto, Frame
<1>6. EndsIn(stack'[t], s)
  <2>1. stack[t] \in [1..StackMax -> Nat]
    BY <1>2, <1>3
  <2>2. o < n => Truncate(stack[t], n)[o + 1] = 0
    <3>1. \A i \in 1..n : stack[t][i] = Walk[s][i]
      BY <1>4
    <3>2. n \in Nat /\ StackMax \in Nat /\ n <= StackMax /\ n <= Len(Walk[s]) /\ s \in Sites
      BY <1>2, <1>3
    <3> HIDE DEF n, t, s
    <3> QED
      BY <2>1, <3>1, <3>2, TruncateOwn
  <2>3. stack'[t] = Truncate(stack[t], n)
    BY <1>2, <1>3, <1>4
  <2>4. o \in Nat /\ Least(BufMax, StackMax) \in Nat
    <3>1. o \in 1..Len(Walk[s])
      BY <1>2, OwnLengthBounds
    <3> QED
      BY <3>1, SizesAssumption DEF Least
  <2> HIDE DEF n, t, s
  <2> QED
    BY <1>3, <2>2, <2>3, <2>4 DEF EndsIn
<1>7. Filling'
  BY <1>2, <1>4, <1>5 DEF Filling, TracebackLabels
<1>8. Ended'
  <2> SUFFICES ASSUME NEW e \in Levels,
                      \/ act'[e].pc \in {"mark", "copy"}
                      \/ act'[e].pc = "go" /\ act'[e].slot # 0 /\ cached'[act'[e].slot] = 1
               PROVE  EndsIn(stack'[act'[e].slot], act'[e].site)
    BY DEF Ended, EndsIn
  <2>1. CASE e = d
    BY <1>5, <1>6, <2>1
  <2>2. CASE e # d
    <3>1. act'[e] = act[e] /\ act[e].pc = "go"
      BY <1>2, <1>5, <2>2 DEF TracebackLabels
    <3>2. act[e].slot # 0 /\ act[e].slot \in Slots /\ cached[act[e].slot] = 1
      BY <1>2, <1>4, <3>1
    <3>3. stack'[act[e].slot] = stack[act[e].slot]
      BY <1>2, <1>3, <1>4, <3>2
    <3> QED
      BY <3>1, <3>2, <3>3 DEF Kept, Ended
  <2> QED
    BY <2>1, <2>2
<1>9. ReportsEnd'
  BY <1>4 DEF Kept, ReportsEnd, EndsIn
<1> QED
  BY <1>7, <1>8, <1>9 DEF Kept

\* What is copied is a stack that ends.
LEMMA CopyKept ==
  ASSUME Control, Data, Alone, Kept, NEW d \in 0..MaxDepth, TracebackCopy(d)
  PROVE  Kept'
<1> DEFINE t == act[d].slot
           s == act[d].site
           r == [site |-> s, buf |-> CopyOut(t)]
<1>1. At(d, "copy") /\ "copy" \in Labels \ {"idle"} /\ "copy" \in TracebackLabels
  BY DEF TracebackCopy, Labels, TracebackLabels
<1>2. /\ d \in Levels /\ act[d] \in Frame /\ act[d].pc = "copy"
      /\ act \in [0..MaxDepth -> Frame] /\ Levels \subseteq 0..MaxDepth
      /\ t \in Slots /\ s \in Sites
  BY <1>1, KeptFacts
<1>3. /\ reports \in [Slots -> SUBSET Report]
      /\ reports' = [reports EXCEPT ![t] = @ \cup {r}]
      /\ UNCHANGED <<cached, stack>>
      /\ Pop(d)
  BY DEF TracebackCopy, pool, Data, DataTypes
<1>4. \A e \in Levels : act'[e] = IF e = d THEN Idle ELSE act[e]
  BY <1>2, <1>3 DEF Pop
<1>5. Idle.pc = "idle"
  BY DEF Idle, Activation
<1>6. Filling' /\ Ended'
  BY <1>3, <1>4, <1>5 DEF Kept, Filling, Ended, EndsIn
<1>7. EndsIn(r.buf, r.site)
  <2>1. EndsIn(stack[t], s)
    BY <1>2 DEF Kept, Ended
  <2>2. OwnLength(s) \in Nat
    <3>1. OwnLength(s) \in 1..Len(Walk[s])
      BY <1>2, OwnLengthBounds
    <3> QED
      BY <3>1
  <2>3. OwnLength(s) < Least(BufMax, StackMax) =>
          r.buf[OwnLength(s) + 1] = stack[t][OwnLength(s) + 1]
    BY <2>2, SizesAssumption DEF CopyOut, Least
  <2> QED
    BY <2>1, <2>3 DEF EndsIn
<1>8. ReportsEnd'
  <2>1. \A u \in Slots : \A q \in reports'[u] : q \in reports[u] \/ q = r
    BY <1>2, <1>3
  <2> HIDE DEF r
  <2> QED
    BY <1>7, <2>1 DEF Kept, ReportsEnd, EndsIn
<1> QED
  BY <1>6, <1>8 DEF Kept

LEMMA NextKept ==
  ASSUME Control, Data, OneUnwinder, ChainsFill, Alone, FromCalls, Kept, [Next]_vars
  PROVE  Kept'
<1>1. ASSUME UNCHANGED <<act, cached, stack, reports>>
      PROVE  Kept'
  BY <1>1 DEF Kept, Filling, Ended, ReportsEnd, EndsIn
<1>2. CASE UNCHANGED vars
  BY <1>1, <1>2 DEF vars
<1>3. CASE \E d \in 0..MaxDepth : CodeStep(d)
  BY <1>3, QuietSteps, QuietKept, NewKept, MarkKept, WalkKept, TruncateKept, CopyKept
  DEF CodeStep
<1>4. CASE \/ \E site \in Sites : TracebackDirect(site)
           \/ \E value \in BOOLEAN : SetEnabled(value)
  BY <1>1, <1>4 DEF TracebackDirect, SetEnabled, pool
<1>5. CASE \/ \E site \in Sites : CallGo(site)
           \/ \E i \in Levels : CallTraceback(i) \/ ObserverTraceback(i)
           \/ GoReturn \/ Signal \/ SigReturn
  BY <1>5, EnvironmentQuiet, QuietKept
<1> QED
  BY <1>2, <1>3, <1>4, <1>5 DEF Next

LEMMA InitExact == Init => Exact
<1> SUFFICES ASSUME Init PROVE Exact
  OBVIOUS
<1>1. Levels \subseteq 0..MaxDepth /\ 0 \in 0..MaxDepth
  BY SizesAssumption DEF Levels
<1>2. \A d \in 0..MaxDepth : act[d].pc = "idle"
  BY DEF Init, Idle, Activation
<1>3. Alone /\ FromCalls /\ Filling /\ Ended
  BY <1>1, <1>2 DEF Alone, FromCalls, Filling, Ended, TracebackLabels, CallLabels
<1>4. ReportsEnd
  BY DEF Init, ReportsEnd
<1> QED
  BY <1>3, <1>4 DEF Exact

\* As long as only one unwinding runs at a time and every chain is cut or fills
\* the buffer, a report holds frames of its own call and no others, whichever
\* calls had the slot before (cgotraceback.cpp:104-126, 179-197).
THEOREM ReportsExact ==
  ASSUME OneUnwinder, ChainsFill
  PROVE  Spec => []ReportExact
<1> DEFINE Inv == Control /\ Data /\ Exact
<1>1. Init => Inv
  BY InitControl, InitData, InitExact
<1>2. Inv /\ [Next]_vars => Inv'
  <2> SUFFICES ASSUME Inv, [Next]_vars PROVE Inv'
    OBVIOUS
  <2>1. Control' /\ Data'
    BY NextControl, NextData
  <2>2. Alone' /\ FromCalls'
    BY AloneNext DEF Exact
  <2>3. Kept'
    BY NextKept DEF Exact, Kept
  <2> QED
    BY <2>1, <2>2, <2>3 DEF Exact, Kept
<1>3. Inv => ReportExact
  <2> SUFFICES ASSUME Inv, NEW s \in Slots, NEW r \in reports[s]
               PROVE  Frames(r.buf) \subseteq 1..OwnLength(r.site)
    BY DEF ReportExact
  <2> DEFINE o == OwnLength(r.site)
             m == Least(BufMax, StackMax)
  <2>1. r.site \in Sites /\ r.buf \in [1..m -> Nat]
    BY DEF Data, DataTypes, Report
  <2>2. o \in Nat /\ o >= 1
    <3>1. o \in 1..Len(Walk[r.site])
      BY <2>1, OwnLengthBounds
    <3> QED
      BY <3>1
  <2>3. m \in Nat
    BY SizesAssumption DEF Least
  <2>4. o < m => r.buf[o + 1] = 0
    BY DEF Exact, ReportsEnd, EndsIn
  <2> HIDE DEF o, m
  <2> SUFFICES ASSUME NEW i \in Frames(r.buf)
               PROVE  i \in 1..o
    BY DEF o
  <2>5. i \in 1..m /\ \A j \in 1..i : r.buf[j] # 0
    BY <2>1 DEF Frames
  <2>6. ~(o < i)
    <3> SUFFICES ASSUME o < i PROVE FALSE
      OBVIOUS
    <3>1. o + 1 \in 1..i /\ o < m
      BY <2>2, <2>3, <2>5
    <3> QED
      BY <2>4, <2>5, <3>1
  <2> QED
    BY <2>2, <2>5, <2>6
<1> QED
  BY <1>1, <1>2, <1>3, PTL DEF Spec

-----------------------------------------------------------------------------
(* The pool.                                                                 *)
(*                                                                           *)
(* It is scanned from its first slot, so the invariant has to say which slot *)
(* a call gets: the k-th call has slot k, because the calls below it hold    *)
(* the slots before k and nobody holds another one.  Between two calls there *)
(* may be handlers, unwindings, and calls whose context function a handler   *)
(* interrupted, which are not counted yet.                                   *)

\* The slot of the k-th call.
SlotOf(k) == IF k <= PoolSize THEN k ELSE 0

\* The levels whose context function has run.
Calls == {i \in Levels : act[i].pc \in HoldingLabels}

Below(i) == {j \in Calls : j < i}
Rank(i) == Cardinality(Below(i)) + 1

\* The calls are numbered without gaps.
Ranked == \A n \in 1..Cardinality(Calls) : \E i \in Calls : Rank(i) = n

\* A slot in use belongs to a call.
Owned == \A s \in Slots : inuse[s] = 1 => \E i \in Calls : act[i].slot = s

Stacked == \A i \in Calls : act[i].slot = SlotOf(Rank(i))

\* The slots a scan has passed are held by the calls below it, which cannot
\* return while it is interrupted.
Scanned ==
  \A i \in Levels : act[i].pc \in {"scan", "take"} =>
    \A s \in 1..(act[i].at - 1) : \E j \in Below(i) : act[j].slot = s

PoolInv == enabled = TRUE /\ Ranked /\ Owned /\ Stacked /\ Scanned

-----------------------------------------------------------------------------
(* What a step does to the calls.                                            *)

\* A step at level d in which no call gets or loses a slot.
Keeps(d) ==
  /\ \A e \in Levels : e # d => act'[e] = act[e]
  /\ d \in Levels =>
       /\ act'[d].pc \in HoldingLabels <=> act[d].pc \in HoldingLabels
       /\ act[d].pc \in HoldingLabels => act'[d].slot = act[d].slot
       /\ act'[d].pc \in {"scan", "take"} =>
            \A s \in 1..(act'[d].at - 1) : \E j \in Below(d) : act[j].slot = s
  /\ UNCHANGED <<inuse, enabled>>

LEMMA KeepPool ==
  ASSUME PoolInv, NEW d, Keeps(d)
  PROVE  PoolInv' /\ Calls' = Calls
<1>1. \A e \in Levels : act'[e].pc \in HoldingLabels <=> act[e].pc \in HoldingLabels
  BY DEF Keeps
<1>2. Calls' = Calls
  BY <1>1 DEF Calls
<1>3. \A e \in Calls : act'[e].slot = act[e].slot
  BY DEF Keeps, Calls
<1>4. \A i : Below(i)' = Below(i)
  BY <1>2 DEF Below
<1>5. Ranked' /\ Owned' /\ Stacked'
  BY <1>2, <1>3, <1>4 DEF Keeps, PoolInv, Ranked, Owned, Stacked, Rank
<1>6. Scanned'
  <2> SUFFICES ASSUME NEW i \in Levels, act'[i].pc \in {"scan", "take"},
                      NEW s \in 1..(act'[i].at - 1)
               PROVE  \E j \in Below(i)' : act'[j].slot = s
    BY DEF Scanned
  <2>1. PICK j \in Below(i) : act[j].slot = s
    BY DEF Keeps, PoolInv, Scanned
  <2> QED
    BY <1>3, <1>4, <2>1 DEF Below
<1> QED
  BY <1>2, <1>5, <1>6 DEF Keeps, PoolInv

\* There are finitely many calls, and the top of the stack is above the others.
LEMMA CallsBelow ==
  ASSUME Control
  PROVE  /\ IsFiniteSet(Calls) /\ Cardinality(Calls) \in Nat
         /\ \A i \in Calls : i \in Levels /\ i \in Nat /\ i <= top
         /\ Calls \ {top} = Below(top)
         /\ \A i \in Calls : Rank(i) \in 1..Cardinality(Calls)
<1>1. /\ top \in Nat /\ MaxDepth \in Nat /\ Levels \subseteq Nat
      /\ \A i \in Levels : i > top => act[i].pc = "idle"
  BY SizesAssumption DEF Control, Shape, Levels
<1>2. IsFiniteSet(Calls) /\ Cardinality(Calls) \in Nat
  <2>1. IsFiniteSet(Levels)
    BY <1>1, FS_Interval DEF Levels
  <2>2. Calls \in SUBSET Levels
    BY DEF Calls
  <2> QED
    BY <2>1, <2>2, FS_Subset, FS_CardinalityType
<1>3. \A i \in Calls : i \in Levels /\ i \in Nat /\ i <= top
  BY <1>1 DEF Calls, HoldingLabels
<1>4. Calls \ {top} = Below(top)
  BY <1>1, <1>3 DEF Below
<1>5. ASSUME NEW i \in Calls
      PROVE  Rank(i) \in 1..Cardinality(Calls)
  <2>1. Below(i) \in SUBSET Calls /\ i \notin Below(i)
    BY <1>3 DEF Below
  <2>2. IsFiniteSet(Below(i)) /\ Cardinality(Below(i)) \in Nat
    BY <1>2, <2>1, FS_Subset, FS_CardinalityType
  <2>3. Cardinality(Below(i)) <= Cardinality(Calls) /\ Cardinality(Below(i)) # Cardinality(Calls)
    BY <1>2, <2>1, FS_Subset
  <2> QED
    BY <1>2, <2>2, <2>3 DEF Rank
<1> QED
  BY <1>2, <1>3, <1>4, <1>5

\* The scan finds the slot of the next call, or none if there is no such slot.
LEMMA SlotFound ==
  ASSUME Control, PoolInv, top > 0
  PROVE  LET k == Cardinality(Calls) + 1 IN
         /\ act[top].pc = "take" => act[top].at = k /\ SlotOf(k) = k
         /\ act[top].pc = "scan" /\ act[top].at > PoolSize => SlotOf(k) = 0
<1> DEFINE a == act[top].at
           k == Cardinality(Calls) + 1
<1>1. /\ top \in Nat /\ top \in Levels /\ PoolSize \in Nat
      /\ act[top] \in Frame /\ WellFormed(act[top])
  BY SizesAssumption DEF Control, Shape, Levels
<1>2. a \in Nat /\ Cardinality(Calls) \in Nat /\ k \in Nat \ {0}
  BY <1>1, CallsBelow DEF Frame
<1> SUFFICES ASSUME act[top].pc \in {"scan", "take"}
             PROVE  /\ act[top].pc = "take" => a = k /\ SlotOf(k) = k
                    /\ act[top].pc = "scan" /\ a > PoolSize => SlotOf(k) = 0
  OBVIOUS
\* Nobody holds slot k.
<1>3. \A j \in Calls : act[j].slot # k
  <2> SUFFICES ASSUME NEW j \in Calls, act[j].slot = k PROVE FALSE
    OBVIOUS
  <2>1. Rank(j) \in 1..Cardinality(Calls) /\ SlotOf(Rank(j)) = k
    BY CallsBelow DEF PoolInv, Stacked
  <2> QED
    BY <1>2, <2>1 DEF SlotOf
\* So the scan has not passed it.
<1>4. ~(k < a)
  <2>1. \A s \in 1..(a - 1) : \E j \in Calls : act[j].slot = s
    BY <1>1 DEF PoolInv, Scanned, Below
  <2>2. k < a => k \in 1..(a - 1)
    BY <1>2
  <2> QED
    BY <1>3, <2>1, <2>2
<1> HIDE DEF k
<1>5. CASE act[top].pc = "take"
  <2>1. a \in Slots
    BY <1>1, <1>5 DEF WellFormed
  <2>2. ~(a < k)
    <3> SUFFICES ASSUME a < k PROVE FALSE
      OBVIOUS
    <3>1. a \in 1..Cardinality(Calls)
      BY <1>2, <2>1, CallsBelow DEF Slots, k
    <3>2. PICK i \in Calls : Rank(i) = a
      BY <3>1 DEF PoolInv, Ranked
    <3>3. act[i].slot = a /\ a # 0
      BY <1>1, <2>1, <3>2 DEF PoolInv, Stacked, SlotOf, Slots
    <3>4. Holder(act[i]) /\ i \in Levels
      BY <3>3 DEF Calls, Holder
    <3>5. i < top
      BY <1>1, <1>5, CallsBelow DEF Calls, HoldingLabels
    <3> QED
      BY <1>1, <1>5, <3>3, <3>4, <3>5 DEF Control, Exclusive
  <2>3. a = k
    BY <1>2, <1>4, <2>2
  <2> QED
    BY <1>5, <2>1, <2>3 DEF SlotOf, Slots
<1>6. CASE act[top].pc = "scan"
  BY <1>1, <1>2, <1>4, <1>6 DEF SlotOf
<1> QED
  BY <1>5, <1>6

\* The newest call gets the next slot.
Acquires ==
  /\ top > 0
  /\ act[top].pc \in {"scan", "take"}
  /\ \A e \in Levels : e # top => act'[e] = act[e]
  /\ act'[top].pc \in HoldingLabels
  /\ LET k == Cardinality(Calls) + 1 IN
       /\ act'[top].slot = SlotOf(k)
       /\ \/ inuse' = inuse
          \/ SlotOf(k) = k /\ inuse' = [inuse EXCEPT ![k] = 1]
  /\ UNCHANGED enabled

LEMMA AcquirePool ==
  ASSUME Control, PoolInv, Acquires
  PROVE  PoolInv' /\ Cardinality(Calls') = Cardinality(Calls) + 1
<1> DEFINE k == Cardinality(Calls) + 1
<1> USE DEF Acquires
<1>1. /\ top \in Levels /\ top \in Nat /\ MaxDepth \in Nat /\ Levels \subseteq Nat
      /\ \A i \in Levels : i > top => act[i].pc = "idle"
      /\ top \notin Calls
  BY SizesAssumption DEF HoldingLabels, Control, Shape, Levels, Calls
<1>2. /\ IsFiniteSet(Calls) /\ Cardinality(Calls) \in Nat
      /\ \A i \in Calls : i \in Levels /\ i \in Nat /\ i < top
      /\ Calls = Below(top)
      /\ \A i \in Calls : Rank(i) \in 1..Cardinality(Calls)
  BY <1>1, CallsBelow
<1>3. Calls' = Calls \cup {top}
  BY <1>1 DEF Calls
<1>4. Cardinality(Calls') = k
  BY <1>1, <1>2, <1>3, FS_AddElement
<1>t. PICK t \in Levels : t = top
  BY <1>1
<1>5. \A i \in Levels : i <= top => Below(i)' = Below(i)
  BY <1>1, <1>3 DEF Below
<1>6. Rank(t)' = k /\ \A i \in Calls : Rank(i)' = Rank(i)
  <2>1. Below(t)' = Calls
    BY <1>1, <1>2, <1>5, <1>t
  <2>2. \A i \in Calls : Below(i)' = Below(i)
    BY <1>2, <1>5, <1>1
  <2> QED
    BY <2>1, <2>2 DEF Rank
<1>7. \A i \in Calls : act'[i] = act[i] /\ i # top
  BY <1>1, <1>2
<1>8. Ranked'
  <2> SUFFICES ASSUME NEW n \in 1..k
               PROVE  \E i \in Calls' : Rank(i)' = n
    BY <1>4 DEF Ranked
  <2>1. CASE n = k
    BY <1>3, <1>6, <1>t, <2>1
  <2>2. CASE n # k
    <3>1. n \in 1..Cardinality(Calls)
      BY <1>2, <2>2
    <3> QED
      BY <1>3, <1>6, <3>1 DEF PoolInv, Ranked
  <2> QED
    BY <2>1, <2>2
<1>9. Stacked'
  <2> SUFFICES ASSUME NEW i \in Calls'
               PROVE  act'[i].slot = SlotOf(Rank(i)')
    BY DEF Stacked
  <2>1. CASE i = t
    BY <1>6, <1>t, <2>1
  <2>2. CASE i # t
    BY <1>3, <1>6, <1>7, <1>t, <2>2 DEF PoolInv, Stacked
  <2> QED
    BY <2>1, <2>2
<1>10. \A s \in Slots : inuse'[s] = inuse[s] \/ (s = k /\ SlotOf(k) = k)
  BY DEF Control
<1>11. Owned'
  <2> SUFFICES ASSUME NEW s \in Slots, inuse'[s] = 1
               PROVE  \E i \in Calls' : act'[i].slot = s
    BY DEF Owned
  <2>1. CASE inuse[s] = 1
    BY <1>3, <1>7, <2>1 DEF PoolInv, Owned
  <2>2. CASE s = k /\ SlotOf(k) = k
    BY <1>3, <2>2
  <2> QED
    BY <1>10, <2>1, <2>2
<1>12. Scanned'
  <2> SUFFICES ASSUME NEW i \in Levels, act'[i].pc \in {"scan", "take"},
                      NEW s \in 1..(act'[i].at - 1)
               PROVE  \E j \in Below(i)' : act'[j].slot = s
    BY DEF Scanned
  <2>1. i # top /\ act'[i] = act[i]
    BY DEF HoldingLabels
  <2>2. i <= top
    BY <1>1, <2>1
  <2>3. PICK j \in Below(i) : act[j].slot = s
    BY <2>1 DEF PoolInv, Scanned
  <2> QED
    BY <1>5, <1>7, <2>2, <2>3 DEF Below
<1> QED
  BY <1>4, <1>8, <1>9, <1>11, <1>12 DEF PoolInv

\* The newest call returns, and frees its slot if it has one.
Releases ==
  /\ top > 0
  /\ act[top].pc \in HoldingLabels
  /\ \A e \in Levels : act'[e] = IF e = top THEN Idle ELSE act[e]
  /\ IF act[top].slot = 0 THEN inuse' = inuse
                          ELSE inuse' = [inuse EXCEPT ![act[top].slot] = 0]
  /\ UNCHANGED enabled

LEMMA ReleasePool ==
  ASSUME Control, PoolInv, Releases
  PROVE  PoolInv' /\ Cardinality(Calls) = Cardinality(Calls') + 1
<1> USE DEF Releases
<1>1. /\ top \in Levels /\ top \in Nat /\ MaxDepth \in Nat /\ Levels \subseteq Nat
      /\ \A i \in Levels : i > top => act[i].pc = "idle"
      /\ top \in Calls
  BY SizesAssumption DEF Control, Shape, Levels, Calls
<1>2. Idle.pc = "idle" /\ "idle" \notin HoldingLabels \cup {"scan", "take"}
  BY DEF Idle, Activation, HoldingLabels
<1>3. /\ IsFiniteSet(Calls) /\ Cardinality(Calls) \in Nat
      /\ Calls \ {top} = Below(top)
      /\ \A i \in Calls : i \in Levels /\ i \in Nat /\ i <= top
  BY CallsBelow
<1>4. Calls' = Calls \ {top} /\ \A i \in Calls' : i \in Calls /\ i < top /\ act'[i] = act[i]
  BY <1>1, <1>2, <1>3 DEF Calls
<1>5. Cardinality(Calls') = Cardinality(Calls) - 1
  BY <1>1, <1>3, <1>4, FS_RemoveElement
<1>6. \A i \in Levels : i <= top => Below(i)' = Below(i)
  BY <1>1, <1>4 DEF Below
<1>7. Rank(top) = Cardinality(Calls) /\ \A i \in Calls' : Rank(i)' = Rank(i)
  <2>1. Rank(top) = Cardinality(Calls)
    <3>1. Below(top) = Calls'
      BY <1>3, <1>4
    <3>2. Rank(top) = Cardinality(Calls') + 1
      BY <3>1 DEF Rank
    <3> QED
      BY <1>3, <1>5, <3>2
  <2>2. \A i \in Calls' : Below(i)' = Below(i)
    BY <1>3, <1>4, <1>6
  <2> QED
    BY <2>1, <2>2 DEF Rank
<1>8. Ranked'
  <2> SUFFICES ASSUME NEW n \in 1..(Cardinality(Calls) - 1)
               PROVE  \E i \in Calls' : Rank(i)' = n
    BY <1>5 DEF Ranked
  <2>1. PICK i \in Calls : Rank(i) = n
    BY <1>3 DEF PoolInv, Ranked
  <2>2. i # top
    BY <1>3, <1>7, <2>1
  <2> QED
    BY <1>4, <1>7, <2>1, <2>2
<1>9. Stacked'
  BY <1>4, <1>7 DEF PoolInv, Stacked
<1>10. Owned'
  <2> SUFFICES ASSUME NEW s \in Slots, inuse'[s] = 1
               PROVE  \E i \in Calls' : act'[i].slot = s
    BY DEF Owned
  <2>1. inuse[s] = 1 /\ (act[top].slot = 0 \/ s # act[top].slot) /\ s # 0
    BY SizesAssumption DEF Control, Slots
  <2>2. PICK i \in Calls : act[i].slot = s
    BY <2>1 DEF PoolInv, Owned
  <2>3. i # top
    BY <2>1, <2>2
  <2> QED
    BY <1>4, <2>2, <2>3
<1>11. Scanned'
  <2> SUFFICES ASSUME NEW i \in Levels, act'[i].pc \in {"scan", "take"},
                      NEW s \in 1..(act'[i].at - 1)
               PROVE  \E j \in Below(i)' : act'[j].slot = s
    BY DEF Scanned
  <2>1. i # top /\ act'[i] = act[i]
    BY <1>2
  <2>2. i <= top
    BY <1>1, <2>1
  <2>3. PICK j \in Below(i) : act[j].slot = s
    BY <2>1 DEF PoolInv, Scanned
  <2>4. j \in Below(i)' /\ j \in Calls'
    BY <1>6, <2>2, <2>3 DEF Below
  <2> QED
    BY <1>4, <2>3, <2>4
<1> QED
  BY <1>3, <1>5, <1>8, <1>9, <1>10, <1>11 DEF PoolInv

-----------------------------------------------------------------------------
(* Every step keeps the calls, acquires or releases.                         *)

StepOK == (\E d : Keeps(d)) \/ Acquires \/ Releases

LEMMA ContextPool ==
  ASSUME Control, PoolInv, NEW d \in 0..MaxDepth,
         \/ ContextEnter(d) \/ GetScan(d) \/ GetTake(d) \/ GetReset(d) \/ ContextSave(d)
         \/ ReleaseEnter(d) \/ ReleaseClear(d)
  PROVE  StepOK
<1>1. PICK l \in {"context", "scan", "take", "reset", "save", "release", "clear"} : At(d, l)
  BY DEF ContextEnter, GetScan, GetTake, GetReset, ContextSave, ReleaseEnter, ReleaseClear
<1>2. /\ d \in Levels /\ d = top /\ top > 0 /\ act[d].pc = l
      /\ act[d] \in Frame /\ WellFormed(act[d])
      /\ act \in [0..MaxDepth -> Frame] /\ Levels \subseteq 0..MaxDepth
      /\ inuse \in [Slots -> {0, 1}] /\ PoolSize \in Nat
  BY <1>1, AtFacts, SizesAssumption DEF TracebackLabels, Levels, Control
<1>3. enabled = TRUE
  BY DEF PoolInv
<1>4. UNCHANGED enabled
  BY DEF ContextEnter, GetScan, GetTake, GetReset, ContextSave, ReleaseEnter, ReleaseClear, pool
<1>5. ASSUME NEW f, Goto(d, f)
      PROVE  act'[d] = f /\ \A e \in Levels : e # d => act'[e] = act[e]
  BY <1>2, <1>5 DEF Goto
<1>6. CASE ContextEnter(d)
  <2> DEFINE f == [act[d] EXCEPT !.pc = "scan", !.at = 1]
  <2>1. Goto(d, f) /\ inuse' = inuse
    BY <1>3, <1>6 DEF ContextEnter, pool
  <2>2. f.pc = "scan" /\ f.at = 1 /\ act[d].pc = "context"
    BY <1>2, <1>6 DEF ContextEnter, At, Frame
  <2>3. /\ act'[d].pc = "scan" /\ act'[d].at = 1
        /\ \A e \in Levels : e # d => act'[e] = act[e]
    BY <1>5, <2>1, <2>2
  <2>4. Keeps(d)
    BY <1>4, <2>1, <2>2, <2>3 DEF Keeps, HoldingLabels
  <2> QED
    BY <2>4 DEF StepOK
<1>7. CASE GetScan(d)
  <2>1. act[d].pc = "scan" /\ inuse' = inuse /\ act[d].slot = 0 /\ act[d].at \in Nat
    BY <1>2, <1>7 DEF GetScan, At, pool, WellFormed, Frame
  <2>2. \A s \in 1..(act[d].at - 1) : \E j \in Below(d) : act[j].slot = s
    BY <1>2, <2>1 DEF PoolInv, Scanned
  <2>3. CASE act[d].at > PoolSize /\ Goto(d, [act[d] EXCEPT !.pc = "go", !.at = 0])
    <3>1. SlotOf(Cardinality(Calls) + 1) = 0
      BY <1>2, <2>1, <2>3, SlotFound
    <3>2. act'[d].pc = "go" /\ act'[d].slot = 0
      <4> DEFINE f == [act[d] EXCEPT !.pc = "go", !.at = 0]
      <4>1. f.pc = "go" /\ f.slot = 0
        BY <1>2, <2>1 DEF Frame
      <4>2. act'[d] = f
        BY <1>5, <2>3
      <4> QED
        BY <4>1, <4>2
    <3>3. Acquires
      BY <1>2, <1>4, <1>5, <2>1, <2>3, <3>1, <3>2 DEF Acquires, HoldingLabels
    <3> QED
      BY <3>3 DEF StepOK
  <2>4. CASE Goto(d, [act[d] EXCEPT !.pc = "take"])
    <3>1. act'[d].pc = "take" /\ act'[d].at = act[d].at
      BY <1>2, <1>5, <2>4 DEF Frame
    <3>2. Keeps(d)
      BY <1>4, <1>5, <2>1, <2>2, <2>4, <3>1 DEF Keeps, HoldingLabels
    <3> QED
      BY <3>2 DEF StepOK
  <2>5. CASE /\ act[d].at \in Slots /\ inuse[act[d].at] # 0
             /\ Goto(d, [act[d] EXCEPT !.at = act[d].at + 1])
    <3>1. act'[d].pc = "scan" /\ act'[d].at = act[d].at + 1
      BY <1>2, <1>5, <2>1, <2>5 DEF Frame
    <3>2. PICK j \in Calls : act[j].slot = act[d].at
      <4>1. inuse[act[d].at] = 1
        BY <1>2, <2>5
      <4> QED
        BY <2>5, <4>1 DEF PoolInv, Owned
    <3>3. j \in Below(d)
      <4>1. d \notin Calls
        BY <2>1 DEF Calls, HoldingLabels
      <4> QED
        BY <1>2, <3>2, <4>1, CallsBelow
    <3>4. \A s \in 1..(act'[d].at - 1) : \E i \in Below(d) : act[i].slot = s
      <4>1. \A s \in 1..(act'[d].at - 1) : s = act[d].at \/ s \in 1..(act[d].at - 1)
        BY <2>1, <3>1
      <4> QED
        BY <2>2, <3>2, <3>3, <4>1
    <3>5. Keeps(d)
      BY <1>4, <1>5, <2>1, <2>5, <3>1, <3>4 DEF Keeps, HoldingLabels
    <3> QED
      BY <3>5 DEF StepOK
  <2> QED
    BY <1>7, <2>3, <2>4, <2>5 DEF GetScan
<1>8. CASE GetTake(d)
  <2> DEFINE k == Cardinality(Calls) + 1
  <2>1. act[top].pc = "take" /\ act[top].at = k /\ SlotOf(k) = k
    BY <1>2, <1>8, SlotFound DEF GetTake, At
  <2> HIDE DEF k
  <2>2. act'[d].pc = "reset" /\ act'[d].slot = k
    <3> DEFINE f == [act[d] EXCEPT !.pc = "reset", !.slot = act[d].at, !.at = 0]
    <3>1. f.pc = "reset" /\ f.slot = act[d].at
      BY <1>2 DEF Frame
    <3>2. act'[d] = f
      BY <1>5, <1>8 DEF GetTake
    <3> QED
      BY <1>2, <2>1, <3>1, <3>2
  <2>3. inuse' = [inuse EXCEPT ![k] = 1]
    BY <1>2, <1>8, <2>1 DEF GetTake
  <2>4. \A e \in Levels : e # top => act'[e] = act[e]
    BY <1>2, <1>5, <1>8 DEF GetTake
  <2>5. Acquires
    BY <1>2, <1>4, <2>1, <2>2, <2>3, <2>4 DEF Acquires, HoldingLabels, k
  <2> QED
    BY <2>5 DEF StepOK
<1>9. CASE GetReset(d)
  <2>1. act[d].pc = "reset" /\ inuse' = inuse /\ Goto(d, [act[d] EXCEPT !.pc = "save"])
    BY <1>9 DEF GetReset, At
  <2>2. act'[d].pc = "save" /\ act'[d].slot = act[d].slot
    BY <1>2, <1>5, <2>1 DEF Frame
  <2>3. Keeps(d)
    BY <1>4, <1>5, <2>1, <2>2 DEF Keeps, HoldingLabels
  <2> QED
    BY <2>3 DEF StepOK
<1>10. CASE ContextSave(d)
  <2>1. act[d].pc = "save" /\ inuse' = inuse /\ Goto(d, [act[d] EXCEPT !.pc = "go"])
    BY <1>10 DEF ContextSave, At
  <2>2. act'[d].pc = "go" /\ act'[d].slot = act[d].slot
    BY <1>2, <1>5, <2>1 DEF Frame
  <2>3. Keeps(d)
    BY <1>4, <1>5, <2>1, <2>2 DEF Keeps, HoldingLabels
  <2> QED
    BY <2>3 DEF StepOK
<1>11. CASE ReleaseEnter(d)
  <2>1. /\ act[d].pc = "release" /\ inuse' = inuse
        /\ Goto(d, [act[d] EXCEPT !.pc = "clear"])
    BY <1>3, <1>11 DEF ReleaseEnter, At, pool
  <2>2. act'[d].pc = "clear" /\ act'[d].slot = act[d].slot
    BY <1>2, <1>5, <2>1 DEF Frame
  <2>3. Keeps(d)
    BY <1>4, <1>5, <2>1, <2>2 DEF Keeps, HoldingLabels
  <2> QED
    BY <2>3 DEF StepOK
<1>12. CASE ReleaseClear(d)
  <2>1. act[d].pc = "clear" /\ act[d].slot \in Slots /\ act[d].slot # 0
    BY <1>2, <1>12 DEF ReleaseClear, At, WellFormed, Slots
  <2>2. /\ \A e \in Levels : act'[e] = IF e = top THEN Idle ELSE act[e]
        /\ inuse' = [inuse EXCEPT ![act[top].slot] = 0]
    BY <1>2, <1>12 DEF ReleaseClear, Pop
  <2>3. Releases
    BY <1>2, <1>4, <2>1, <2>2 DEF Releases, HoldingLabels
  <2> QED
    BY <2>3 DEF StepOK
<1> QED
  BY <1>6, <1>7, <1>8, <1>9, <1>10, <1>11, <1>12

\* Unwinding does not touch the pool.
LEMMA TracebackPool ==
  ASSUME Control, PoolInv, NEW d \in 0..MaxDepth,
         \/ TracebackEnter(d) \/ TracebackCheck(d) \/ WalkStep(d)
         \/ TracebackTruncate(d) \/ TracebackMark(d) \/ TracebackCopy(d)
  PROVE  StepOK
<1>1. act[d].pc \in TracebackLabels /\ UNCHANGED <<inuse, enabled>>
  BY DEF At, TracebackLabels, pool, TracebackEnter, TracebackCheck, WalkStep, TracebackTruncate,
         TracebackMark, TracebackCopy
<1>2. act \in [0..MaxDepth -> Frame] /\ Levels \subseteq 0..MaxDepth
  BY SizesAssumption DEF Control, Shape, Levels
<1>3. CodeStep(d)
  BY DEF CodeStep
<1>4. \/ \E f \in Frame : Goto(d, f) /\ f.pc \in TracebackLabels
      \/ Pop(d)
  BY <1>1, <1>3, StepKinds
<1>5. PICK f : act' = [act EXCEPT ![d] = f] /\ f.pc \in TracebackLabels \cup {"idle"}
  <2>1. Idle.pc = "idle"
    BY DEF Idle, Activation
  <2> QED
    BY <1>4, <2>1 DEF Goto, Pop
<1>6. Keeps(d)
  BY <1>1, <1>2, <1>5 DEF Keeps, TracebackLabels, HoldingLabels
<1> QED
  BY <1>6 DEF StepOK

\* Calls, returns, unwindings that start and signals.
LEMMA EnvironmentPool ==
  ASSUME Control, PoolInv,
         \/ \E site \in Sites : CallGo(site)
         \/ \E i \in Levels : CallTraceback(i) \/ ObserverTraceback(i)
         \/ GoReturn \/ Signal \/ SigReturn
  PROVE  StepOK
<1>1. /\ top \in 0..MaxDepth /\ top \in Nat /\ MaxDepth \in Nat
      /\ act \in [0..MaxDepth -> Frame]
      /\ Levels \subseteq 0..MaxDepth /\ 0 \notin Levels
      /\ top > 0 => top \in Levels
      /\ \A i \in Levels : i > top => act[i].pc = "idle"
  BY SizesAssumption DEF Control, Shape, Levels
<1>2. UNCHANGED <<inuse, enabled>>
  BY DEF CallGo, CallTraceback, ObserverTraceback, GoReturn, Signal, SigReturn, pool
<1>3. \A l, t, s : Activation(l, t, s).pc = l
  BY DEF Activation
<1>4. ASSUME NEW f, Push(f), f.pc \in {"context", "traceback", "sig"}
      PROVE  StepOK
  <2>1. top + 1 \in Levels /\ act[top + 1].pc = "idle"
    BY <1>1, <1>4 DEF Push, Levels
  <2>2. \A e \in Levels : act'[e] = IF e = top + 1 THEN f ELSE act[e]
    BY <1>1, <1>4, <2>1 DEF Push
  <2>3. Keeps(top + 1)
    BY <1>2, <1>4, <2>1, <2>2 DEF Keeps, HoldingLabels
  <2> QED
    BY <2>3 DEF StepOK
<1>5. CASE \E site \in Sites : CallGo(site)
  BY <1>3, <1>4, <1>5 DEF CallGo
<1>6. CASE \E i \in Levels : CallTraceback(i)
  BY <1>3, <1>4, <1>6 DEF CallTraceback, Unwinding
<1>7. CASE Signal
  BY <1>3, <1>4, <1>7 DEF Signal
<1>8. CASE \E i \in Levels : ObserverTraceback(i)
  <2>1. \A e \in Levels : act'[e] = act[e]
    BY <1>1, <1>8 DEF ObserverTraceback, Goto
  <2>2. Keeps(0)
    BY <1>1, <1>2, <2>1 DEF Keeps
  <2> QED
    BY <2>2 DEF StepOK
<1>9. CASE SigReturn
  <2>1. act[top].pc = "sig" /\ top \in Levels
    BY <1>1, <1>9 DEF SigReturn, At
  <2>2. \A e \in Levels : act'[e] = IF e = top THEN Idle ELSE act[e]
    BY <1>1, <1>9 DEF SigReturn, Pop
  <2>3. Idle.pc = "idle"
    BY <1>3 DEF Idle
  <2>4. Keeps(top)
    BY <1>2, <2>1, <2>2, <2>3 DEF Keeps, HoldingLabels
  <2> QED
    BY <2>4 DEF StepOK
<1>10. CASE GoReturn
  <2>1. act[top].pc = "go" /\ top \in Levels /\ top > 0
    BY <1>1, <1>10 DEF GoReturn, At
  <2>2. CASE act[top].slot = 0
    <3>1. \A e \in Levels : act'[e] = IF e = top THEN Idle ELSE act[e]
      BY <1>1, <1>10, <2>2 DEF GoReturn, Pop
    <3>2. Releases
      BY <1>2, <2>1, <2>2, <3>1 DEF Releases, HoldingLabels
    <3> QED
      BY <3>2 DEF StepOK
  <2>3. CASE act[top].slot # 0
    <3>1. /\ \A e \in Levels : e # top => act'[e] = act[e]
          /\ act'[top].pc = "release" /\ act'[top].slot = act[top].slot
      BY <1>1, <1>10, <2>1, <2>3 DEF GoReturn, Goto, Frame
    <3>2. Keeps(top)
      BY <1>2, <2>1, <3>1 DEF Keeps, HoldingLabels
    <3> QED
      BY <3>2 DEF StepOK
  <2> QED
    BY <2>2, <2>3
<1> QED
  BY <1>5, <1>6, <1>7, <1>8, <1>9, <1>10

LEMMA NextStepOK ==
  ASSUME ~Toggles, Control, PoolInv, [Next]_vars
  PROVE  StepOK
<1>1. ASSUME UNCHANGED <<act, inuse, enabled>>
      PROVE  StepOK
  <2>1. Keeps(0)
    BY <1>1, SizesAssumption DEF Keeps, Levels
  <2> QED
    BY <2>1 DEF StepOK
<1>2. CASE UNCHANGED vars
  BY <1>1, <1>2 DEF vars
<1>3. CASE \E d \in 0..MaxDepth : CodeStep(d)
  BY <1>3, ContextPool, TracebackPool DEF CodeStep
<1>4. CASE \E site \in Sites : TracebackDirect(site)
  BY <1>1, <1>4 DEF TracebackDirect, pool
<1>5. CASE \E value \in BOOLEAN : SetEnabled(value)
  BY <1>5 DEF SetEnabled
<1>6. CASE \/ \E site \in Sites : CallGo(site)
           \/ \E i \in Levels : CallTraceback(i) \/ ObserverTraceback(i)
           \/ GoReturn \/ Signal \/ SigReturn
  BY <1>6, EnvironmentPool
<1> QED
  BY <1>2, <1>3, <1>4, <1>5, <1>6 DEF Next

\* The number of calls changes by one at a time.
CallsStep ==
  \/ Cardinality(Calls') = Cardinality(Calls)
  \/ Cardinality(Calls') = Cardinality(Calls) + 1
  \/ Cardinality(Calls) = Cardinality(Calls') + 1

LEMMA NextPool ==
  ASSUME ~Toggles, Control, PoolInv, [Next]_vars
  PROVE  PoolInv' /\ CallsStep
<1>1. CASE \E d : Keeps(d)
  BY <1>1, KeepPool DEF CallsStep
<1>2. CASE Acquires
  BY <1>2, AcquirePool DEF CallsStep
<1>3. CASE Releases
  BY <1>3, ReleasePool DEF CallsStep
<1> QED
  BY <1>1, <1>2, <1>3, NextStepOK DEF StepOK

LEMMA InitPool == Init => PoolInv
<1> SUFFICES ASSUME Init PROVE PoolInv
  OBVIOUS
<1>1. Levels \subseteq 0..MaxDepth
  BY SizesAssumption DEF Levels
<1>2. \A d \in Levels : act[d].pc = "idle"
  BY <1>1 DEF Init, Idle, Activation
<1>3. Calls = {} /\ Scanned
  BY <1>2 DEF Calls, Scanned, HoldingLabels
<1>4. \A s \in Slots : inuse[s] = 0
  BY DEF Init
<1>5. Owned /\ Stacked
  BY <1>3, <1>4 DEF Owned, Stacked
<1>6. Ranked
  BY <1>3, FS_EmptySet DEF Ranked
<1> QED
  BY <1>3, <1>5, <1>6 DEF Init, PoolInv

LEMMA PoolAlways ==
  ASSUME ~Toggles
  PROVE  Spec => [](Control /\ PoolInv)
<1>1. Init => Control /\ PoolInv
  BY InitControl, InitPool
<1>2. (Control /\ PoolInv) /\ [Next]_vars => (Control /\ PoolInv)'
  BY NextControl, NextPool
<1> QED
  BY <1>1, <1>2, PTL DEF Spec

\* A slot marked in use belongs to a call that will release it, as long as
\* SetEnabled is not called while the program runs: calls of signal handlers
\* are nested too, as the comment hopes (cgotraceback.cpp:77-102).
THEOREM NoContextLeaks ==
  ASSUME ~Toggles
  PROVE  Spec => []NoLeak
<1>1. Control /\ PoolInv => NoLeak
  <2> SUFFICES ASSUME Control, PoolInv, NEW s \in Slots, inuse[s] = 1
               PROVE  \E i \in Levels : Holds(i) /\ act[i].slot = s
    BY DEF NoLeak
  <2>1. PICK i \in Calls : act[i].slot = s
    BY DEF PoolInv, Owned
  <2>2. i \in Levels /\ act[i].pc \in HoldingLabels /\ s # 0
    BY <2>1, SizesAssumption DEF Calls, Slots
  <2>3. i \in 1..top
    BY <2>2, SizesAssumption DEF Control, Shape, Levels, HoldingLabels
  <2> QED
    BY <2>1, <2>2, <2>3 DEF Holds
<1> QED
  BY <1>1, PoolAlways, PTL

-----------------------------------------------------------------------------
(* The refinement.  What the calls hold is determined by how many there are. *)

Held(h) == [i \in 1..h |-> SlotOf(i)]

LEMMA HeldSequence ==
  ASSUME NEW h \in Nat
  PROVE  /\ Held(h) \in Seq(Nat)
         /\ Len(Held(h)) = h
         /\ \A i \in 1..h : Held(h)[i] = SlotOf(i)
<1>1. \A i \in 1..h : SlotOf(i) \in Nat
  BY DEF SlotOf
<1>2. Held(h) \in [1..h -> Nat]
  BY <1>1 DEF Held
<1>3. Held(h) \in Seq(Nat)
  BY <1>2
<1>4. Len(Held(h)) = h
  BY <1>2, <1>3
<1> QED
  BY <1>3, <1>4 DEF Held

LEMMA HeldSteps ==
  ASSUME NEW h \in Nat
  PROVE  /\ Held(0) = << >>
         /\ Held(h + 1) = Append(Held(h), SlotOf(h + 1))
         /\ Held(h + 1) # << >>
         /\ Held(h) = SubSeq(Held(h + 1), 1, h)
<1>1. /\ Held(h) \in Seq(Nat) /\ Len(Held(h)) = h
      /\ \A i \in 1..h : Held(h)[i] = SlotOf(i)
      /\ Held(h + 1) \in Seq(Nat) /\ Len(Held(h + 1)) = h + 1
      /\ \A i \in 1..(h + 1) : Held(h + 1)[i] = SlotOf(i)
      /\ Held(0) \in Seq(Nat) /\ Len(Held(0)) = 0
  BY HeldSequence
<1>2. SlotOf(h + 1) \in Nat
  BY DEF SlotOf
<1>3. Held(0) = << >>
  BY <1>1, EmptySeq
<1>4. Held(h + 1) = Append(Held(h), SlotOf(h + 1))
  <2> DEFINE s == Append(Held(h), SlotOf(h + 1))
  <2>1. /\ s \in Seq(Nat) /\ Len(s) = h + 1
        /\ \A i \in 1..(h + 1) : s[i] = IF i <= h THEN Held(h)[i] ELSE SlotOf(h + 1)
    BY <1>1, <1>2
  <2> HIDE DEF s
  <2>2. \A i \in 1..(h + 1) : s[i] = SlotOf(i)
    <3> SUFFICES ASSUME NEW i \in 1..(h + 1) PROVE s[i] = SlotOf(i)
      OBVIOUS
    <3>1. i \in 1..h \/ i = h + 1
      OBVIOUS
    <3> QED
      BY <1>1, <2>1, <3>1
  <2>3. Held(h + 1) = s
    BY <1>1, <2>1, <2>2, SeqEqual
  <2> QED
    BY <2>3 DEF s
<1>5. Held(h + 1) # << >>
  <2>1. h + 1 # 0
    OBVIOUS
  <2> QED
    BY <1>1, <2>1, EmptySeq
<1>6. Held(h) = SubSeq(Held(h + 1), 1, h)
  <2> DEFINE s == SubSeq(Held(h + 1), 1, h)
  <2>1. \A i \in 1..h : Held(h + 1)[i] \in Nat
    <3> SUFFICES ASSUME NEW i \in 1..h PROVE Held(h + 1)[i] \in Nat
      OBVIOUS
    <3>1. i \in 1..(h + 1) /\ SlotOf(i) \in Nat
      BY DEF SlotOf
    <3> QED
      BY <1>1, <3>1
  <2>2. /\ s \in Seq(Nat)
        /\ Len(s) = IF 1 <= h THEN h - 1 + 1 ELSE 0
        /\ \A i \in 1..(h - 1 + 1) : s[i] = Held(h + 1)[1 + i - 1]
    BY <2>1, SubSeqProperties
  <2> HIDE DEF s
  <2>3. Len(s) = h /\ \A i \in 1..h : s[i] = SlotOf(i)
    <3>1. Len(s) = h
      BY <2>2
    <3>2. ASSUME NEW i \in 1..h PROVE s[i] = SlotOf(i)
      <4>1. i \in 1..(h - 1 + 1) /\ 1 + i - 1 = i /\ i \in 1..(h + 1)
        OBVIOUS
      <4> QED
        BY <1>1, <2>2, <4>1
    <3> QED
      BY <3>1, <3>2
  <2>4. Held(h) = s
    BY <1>1, <2>2, <2>3, SeqEqual
  <2> QED
    BY <2>4 DEF s
<1> QED
  BY <1>3, <1>4, <1>5, <1>6

HeldNow == [n \in 1..Cardinality(HeldLevels) |-> act[Nth(n)].slot]

LEMMA HeldIsCalls == Control => HeldLevels = Calls
<1> SUFFICES ASSUME Control PROVE HeldLevels = Calls
  OBVIOUS
<1>1. /\ top \in Nat /\ MaxDepth \in Nat /\ top <= MaxDepth
      /\ \A i \in Levels : i \in 1..top <=> act[i].pc # "idle"
      /\ \A i \in 1..top : i \in Levels
      /\ \A i \in Levels : WellFormed(act[i])
  BY SizesAssumption DEF Control, Shape, Levels
<1>2. ASSUME NEW i \in Levels, i \in Calls
      PROVE  i \in HeldLevels
  <2>1. act[i].pc \in HoldingLabels /\ i \in 1..top
    BY <1>1, <1>2 DEF Calls, HoldingLabels
  <2>2. act[i].pc # "go" => act[i].slot # 0
    BY <1>1, <2>1, SizesAssumption DEF WellFormed, HoldingLabels, Slots
  <2> QED
    BY <2>1, <2>2 DEF HeldLevels, Holds
<1>3. ASSUME NEW i \in HeldLevels
      PROVE  i \in Calls
  BY <1>1, <1>3 DEF HeldLevels, Holds, Calls, HoldingLabels
<1> QED
  BY <1>2, <1>3 DEF Calls

Mapped == Cardinality(Calls) \in Nat /\ HeldNow = Held(Cardinality(Calls))

LEMMA HeldMapped == Control /\ PoolInv => Mapped
<1> SUFFICES ASSUME Control, PoolInv PROVE Mapped
  OBVIOUS
<1>1. HeldLevels = Calls
  BY HeldIsCalls
<1>2. ASSUME NEW n \in 1..Cardinality(Calls)
      PROVE  act[Nth(n)].slot = SlotOf(n)
  <2>1. \E i \in Calls : Rank(i) = n
    BY DEF PoolInv, Ranked
  <2>2. Nth(n) = CHOOSE i \in Calls : Rank(i) = n
    BY <1>1 DEF Nth, Rank, Below
  <2>3. Nth(n) \in Calls /\ Rank(Nth(n)) = n
    BY <2>1, <2>2
  <2> QED
    BY <2>3 DEF PoolInv, Stacked
<1> QED
  BY <1>1, <1>2, CallsBelow DEF Mapped, HeldNow, Held

\* The pool of the code hands out and takes back contexts as ContextStack does:
\* the newest call gives its context back first, the k-th call gets the k-th
\* context, and goes without one only when the whole pool is below it, also when
\* the call comes from a signal handler that interrupted another context function
\* (cgotraceback.cpp:84-102).
THEOREM PoolRefined ==
  ASSUME ~Toggles
  PROVE  Spec => PoolIsStack
<1> DEFINE Inv == Control /\ PoolInv /\ Mapped
<1>1. Init => ContextStackRefinement!Init
  <2> SUFFICES ASSUME Init PROVE HeldNow = << >>
    BY DEF ContextStackRefinement!Init, HeldNow
  <2>1. Control /\ PoolInv
    BY InitControl, InitPool
  <2>2. Levels \subseteq 0..MaxDepth
    BY SizesAssumption DEF Levels
  <2>3. Calls = {}
    BY <2>2 DEF Init, Idle, Activation, Calls, HoldingLabels
  <2>4. Cardinality(Calls) = 0
    BY <2>3, FS_EmptySet
  <2> QED
    BY <2>1, <2>4, HeldMapped, HeldSteps DEF Mapped
<1>2. Inv /\ Inv' /\ [Next]_vars => [ContextStackRefinement!Next]_HeldNow
  <2> SUFFICES ASSUME Inv, Inv', [Next]_vars
               PROVE  [ContextStackRefinement!Next]_HeldNow
    OBVIOUS
  <2> DEFINE h == Cardinality(Calls)
  <2>1. CallsStep
    BY NextPool
  <2>2. h \in Nat
    BY DEF Mapped
  <2>3. PICK n \in Nat : n = h' /\ HeldNow = Held(h) /\ HeldNow' = Held(n)
    BY DEF Mapped
  <2> HIDE DEF h
  <2>4. CASE n = h
    BY <2>3, <2>4
  <2>5. CASE n = h + 1
    <3>1. Held(h + 1) = Append(Held(h), SlotOf(h + 1)) /\ Len(Held(h)) = h
      BY <2>2, HeldSteps, HeldSequence
    <3>2. SlotOf(h + 1) = IF h < PoolSize THEN h + 1 ELSE 0
      BY <2>2, SizesAssumption DEF SlotOf
    <3>3. ContextStackRefinement!Acquire
      BY <2>3, <2>5, <3>1, <3>2 DEF ContextStackRefinement!Acquire, HeldNow
    <3> QED
      BY <3>3 DEF ContextStackRefinement!Next
  <2>6. CASE h = n + 1
    <3>1. /\ Held(n) = SubSeq(Held(h), 1, n) /\ Len(Held(h)) = h /\ Held(h) # << >>
          /\ h - 1 = n
      BY <2>2, <2>6, HeldSteps, HeldSequence
    <3>2. ContextStackRefinement!Release
      BY <2>3, <3>1 DEF ContextStackRefinement!Release, HeldNow
    <3> QED
      BY <3>2 DEF ContextStackRefinement!Next
  <2> QED
    BY <2>1, <2>3, <2>4, <2>5, <2>6 DEF CallsStep, h
<1> QED
  BY <1>1, <1>2, PoolAlways, HeldMapped, PTL
  DEF Spec, PoolIsStack, ContextStackRefinement!Spec, HeldNow
=============================================================================

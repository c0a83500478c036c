------------------------------ MODULE CgoContext ------------------------------
(***************************************************************************)
(* The context and traceback callbacks of cgotraceback.cpp on one thread   *)
(* that crosses between C and Go.                                          *)
(*                                                                         *)
(* The thread runs a stack of activations: act[1] .. act[top].  A C -> Go  *)
(* call pushes one; it runs async_cgo_context (get a slot of the           *)
(* thread-local pool, save the registers), stays in "go" while the Go      *)
(* function runs, and runs async_cgo_context again to release the slot.    *)
(* Go code, a signal handler on top of any step, or another thread of the  *)
(* runtime (the observer, act[0]) unwinds a published context with         *)
(* async_cgo_traceback.  Every access to the shared memory (inuse, cached, *)
(* the saved registers, one entry of a cached stack) is a step.            *)
(*                                                                         *)
(* Code addresses are small positive numbers.  A site is a place from      *)
(* which C calls Go: Walk[site] is the chain stackWalk stores from the     *)
(* registers saved there when no depth limit stops it.                     *)
(***************************************************************************)
EXTENDS Naturals, Sequences, FiniteSets

CONSTANTS
  PoolSize,     \* cgo_contexts_length
  StackMax,     \* STACK_MAX, the entries of a cached stack
  BufMax,       \* arg->max, the entries of the buffer Go passes in
  Sites,        \* call sites of Go in C code
  NoSite,       \* registers never saved
  BaseSites,    \* the sites on the stack a thread starts with
  NestedSites,  \* the sites in C code that Go called
  HandlerSites, \* the sites in signal handlers
  DirectSites,  \* where a signal can find the thread in C code
  Walk,         \* the call chain from each site
  Asmcgocall,   \* the addresses that pass the bounds test of asmcgocall
  MaxDepth,     \* bound: activations on the thread
  Observer,     \* TRUE iff another thread may unwind this one's contexts
  Interrupts,   \* the labels at which a signal can arrive
  Toggles       \* TRUE iff SetEnabled is called while the program runs

PCs == UNION {{Walk[s][i] : i \in 1..Len(Walk[s])} : s \in Sites}

ASSUME SizesAssumption ==
  /\ PoolSize \in Nat \ {0}
  /\ StackMax \in Nat \ {0}
  /\ BufMax \in Nat \ {0}
  /\ MaxDepth \in Nat \ {0}

ASSUME SitesAssumption ==
  /\ NoSite \notin Sites
  /\ BaseSites \subseteq Sites
  /\ NestedSites \subseteq Sites
  /\ HandlerSites \subseteq Sites
  /\ DirectSites \subseteq Sites

\* stackWalk stores sc.pc before its first step, so a chain is never empty;
\* 0 is the terminator Go looks for, never an address of the chain.
ASSUME WalkAssumption ==
  Walk \in [Sites -> Seq(Nat \ {0}) \ {<< >>}]

ASSUME AsmcgocallAssumption == Asmcgocall \subseteq Nat \ {0}

ASSUME SwitchAssumption ==
  {Observer, Toggles} \subseteq BOOLEAN

Slots  == 1..PoolSize
Levels == 1..MaxDepth

VARIABLES
  top,      \* number of activations on the thread
  act,      \* act[1..MaxDepth], the thread's activations; act[0], the observer
  inuse,    \* cgo_contexts[i].inuse
  cached,   \* cgo_contexts[i].cached
  saved,    \* cgo_contexts[i].pc, sp, fp: the site they were taken at
  stack,    \* cgo_contexts[i].stack
  enabled,  \* the static variable enabled
  reports,  \* history: the buffers Go got for the context now in slot i
  direct    \* history: the buffer of the last unwinding of the thread itself

vars == <<top, act, inuse, cached, saved, stack, enabled, reports, direct>>
pool == <<inuse, cached, saved, stack>>

Labels == {"idle",                                        \* not on the stack
           "context", "scan", "take", "reset", "save",    \* async_cgo_context
           "go", "release", "clear",
           "traceback", "check", "walk", "truncate",      \* async_cgo_traceback
           "mark", "copy",
           "sig"}                                         \* a signal handler

TracebackLabels == {"traceback", "check", "walk", "truncate", "mark", "copy"}

\* slot: the context handed out or unwound (0 is NULL).  at: the index a loop
\* is at.  site: where the call was made (for an unwinding, the call being
\* unwound).  sc: the local registers of an unwinding.
Activation(label, slot, site) ==
  [pc |-> label, slot |-> slot, at |-> 0, site |-> site, sc |-> NoSite]

Idle == Activation("idle", 0, NoSite)

Least(a, b) == IF a < b THEN a ELSE b

-----------------------------------------------------------------------------
(* The call stack functions, on functions 1..k -> Nat.                       *)

\* i is the first of the n entries of f inside asmcgocall.
FirstAsm(f, n, i) ==
  /\ i \in 1..n
  /\ f[i] \in Asmcgocall
  /\ \A j \in 1..(i - 1) : f[j] \notin Asmcgocall

\* Mutant: the bound of the write is off by one.
TruncateOffByOne(f, n) ==
  [i \in DOMAIN f |-> IF i \in 2..(n - 1) /\ FirstAsm(f, n, i - 1) THEN 0 ELSE f[i]]

\* truncate_asmcgocall: zero the entry after asmcgocall, if it is one of the
\* n entries the walk stored.
Truncate(f, n) ==
  [i \in DOMAIN f |-> IF i \in 2..n /\ FirstAsm(f, n, i - 1) THEN 0 ELSE f[i]]

\* stackWalk into a buffer f with room for max entries, and its result.
WalkCount(site, max) == Least(Len(Walk[site]), max)
WalkInto(f, site, max) ==
  [i \in DOMAIN f |-> IF i <= WalkCount(site, max) THEN Walk[site][i] ELSE f[i]]

-----------------------------------------------------------------------------
Init ==
  /\ top = 0
  /\ act = [d \in 0..MaxDepth |-> Idle]
  /\ inuse = [s \in Slots |-> 0]
  /\ cached = [s \in Slots |-> 0]
  /\ saved = [s \in Slots |-> NoSite]
  /\ stack = [s \in Slots |-> [i \in 1..StackMax |-> 0]]
  /\ enabled = TRUE
  /\ reports = [s \in Slots |-> {}]
  /\ direct = [site |-> NoSite, buf |-> [i \in 1..BufMax |-> 0]]

\* Activation d is the one its thread executes, and is at label l.
At(d, l) == d \in {0, top} /\ act[d].pc = l

Push(frame) ==
  /\ top < MaxDepth
  /\ top' = top + 1
  /\ act' = [act EXCEPT ![top + 1] = frame]

Pop(d) ==
  /\ top' = IF d = 0 THEN top ELSE top - 1
  /\ act' = [act EXCEPT ![d] = Idle]

Goto(d, frame) == act' = [act EXCEPT ![d] = frame] /\ UNCHANGED top

-----------------------------------------------------------------------------
(* async_cgo_context.                                                        *)

\* C calls an exported Go function: _cgo_wait_runtime_init_done calls the
\* context function with arg->p = 0.  The C code can be a signal handler, on top
\* of any step of these callbacks (the XXX of cgotraceback.cpp:84-87).
CallGo(site) ==
  /\ \/ top = 0 /\ site \in BaseSites
     \/ top > 0 /\ act[top].pc = "go" /\ site \in NestedSites
     \/ top > 0 /\ act[top].pc = "sig" /\ site \in HandlerSites
  /\ Push(Activation("context", 0, site))
  /\ UNCHANGED <<pool, enabled, reports, direct>>

ContextEnter(d) ==
  /\ At(d, "context")
  /\ Goto(d, IF enabled THEN [act[d] EXCEPT !.pc = "scan", !.at = 1]
                        ELSE [act[d] EXCEPT !.pc = "go"])
  /\ UNCHANGED <<pool, enabled, reports, direct>>

\* Mutant: the scan stops one slot before the end of the pool.
GetScanShort(d) ==
  /\ At(d, "scan")
  /\ \/ /\ act[d].at >= PoolSize
        /\ Goto(d, [act[d] EXCEPT !.pc = "go", !.at = 0])
     \/ /\ act[d].at \in 1..(PoolSize - 1)
        /\ inuse[act[d].at] = 0
        /\ Goto(d, [act[d] EXCEPT !.pc = "take"])
     \/ /\ act[d].at \in 1..(PoolSize - 1)
        /\ inuse[act[d].at] # 0
        /\ Goto(d, [act[d] EXCEPT !.at = act[d].at + 1])
  /\ UNCHANGED <<pool, enabled, reports, direct>>

\* Mutant: the scan waits at a slot in use.
GetScanWaits(d) ==
  /\ At(d, "scan")
  /\ \/ /\ act[d].at > PoolSize
        /\ Goto(d, [act[d] EXCEPT !.pc = "go", !.at = 0])
     \/ /\ act[d].at \in Slots
        /\ inuse[act[d].at] = 0
        /\ Goto(d, [act[d] EXCEPT !.pc = "take"])
  /\ UNCHANGED <<pool, enabled, reports, direct>>

\* cgo_context_get: read inuse of one slot, or run off the end of the pool.
GetScan(d) ==
  /\ At(d, "scan")
  /\ \/ /\ act[d].at > PoolSize
        /\ Goto(d, [act[d] EXCEPT !.pc = "go", !.at = 0])
     \/ /\ act[d].at \in Slots
        /\ inuse[act[d].at] = 0
        /\ Goto(d, [act[d] EXCEPT !.pc = "take"])
     \/ /\ act[d].at \in Slots
        /\ inuse[act[d].at] # 0
        /\ Goto(d, [act[d] EXCEPT !.at = act[d].at + 1])
  /\ UNCHANGED <<pool, enabled, reports, direct>>

\* Mutant: a slot is handed out and not marked.
GetTakeUnmarked(d) ==
  /\ At(d, "take")
  /\ Goto(d, [act[d] EXCEPT !.pc = "reset", !.slot = act[d].at, !.at = 0])
  /\ UNCHANGED <<pool, enabled, reports, direct>>

GetTake(d) ==
  /\ At(d, "take")
  /\ inuse' = [inuse EXCEPT ![act[d].at] = 1]
  /\ Goto(d, [act[d] EXCEPT !.pc = "reset", !.slot = act[d].at, !.at = 0])
  /\ UNCHANGED <<cached, saved, stack, enabled, reports, direct>>

GetReset(d) ==
  /\ At(d, "reset")
  /\ cached' = [cached EXCEPT ![act[d].slot] = 0]
  /\ Goto(d, [act[d] EXCEPT !.pc = "save"])
  /\ UNCHANGED <<inuse, saved, stack, enabled, reports, direct>>

\* Save the registers of the caller and publish the context in arg->p.
ContextSave(d) ==
  /\ At(d, "save")
  /\ saved' = [saved EXCEPT ![act[d].slot] = act[d].site]
  /\ reports' = [reports EXCEPT ![act[d].slot] = {}]
  /\ Goto(d, [act[d] EXCEPT !.pc = "go"])
  /\ UNCHANGED <<inuse, cached, stack, enabled, direct>>

\* The Go function returns.  The runtime drops the context from the goroutine
\* and calls the context function again, only if it got a context.  The
\* goroutine cannot run while another thread unwinds it.
GoReturn ==
  /\ top > 0
  /\ At(top, "go")
  /\ act[0] = Idle
  /\ IF act[top].slot = 0
       THEN Pop(top)
       ELSE Goto(top, [act[top] EXCEPT !.pc = "release"])
  /\ UNCHANGED <<pool, enabled, reports, direct>>

ReleaseEnter(d) ==
  /\ At(d, "release")
  /\ IF enabled THEN Goto(d, [act[d] EXCEPT !.pc = "clear"])
                ELSE Pop(d)
  /\ UNCHANGED <<pool, enabled, reports, direct>>

\* Mutant: the slot is not given back.
ReleaseClearForgotten(d) ==
  /\ At(d, "clear")
  /\ Pop(d)
  /\ UNCHANGED <<pool, enabled, reports, direct>>

\* cgo_context_release.
ReleaseClear(d) ==
  /\ At(d, "clear")
  /\ inuse' = [inuse EXCEPT ![act[d].slot] = 0]
  /\ Pop(d)
  /\ UNCHANGED <<cached, saved, stack, enabled, reports, direct>>

-----------------------------------------------------------------------------
(* async_cgo_traceback of a context.                                         *)

\* Call i is in Go and its context is one the runtime knows.
Published(i) == i \in 1..top /\ act[i].pc = "go" /\ act[i].slot # 0

Unwinding(i) == Activation("traceback", act[i].slot, act[i].site)

\* Running Go code, or a signal handler, unwinds the goroutine of the thread.
CallTraceback(i) ==
  /\ top > 0
  /\ \/ act[top].pc = "go" /\ act[0] = Idle
     \/ act[top].pc = "sig"
  /\ Published(i)
  /\ Push(Unwinding(i))
  /\ UNCHANGED <<pool, enabled, reports, direct>>

\* A thread of the runtime unwinds the goroutine of this one.  The goroutine
\* is stopped, or in C code that Go called: it is not unwinding itself.
ObserverTraceback(i) ==
  /\ Observer
  /\ act[0] = Idle
  /\ \A j \in 1..top : act[j].pc \in TracebackLabels => act[j - 1].pc = "sig"
  /\ Published(i)
  /\ Goto(0, Unwinding(i))
  /\ UNCHANGED <<pool, enabled, reports, direct>>

TracebackEnter(d) ==
  /\ At(d, "traceback")
  /\ IF enabled THEN Goto(d, [act[d] EXCEPT !.pc = "check"])
                ELSE Pop(d)
  /\ UNCHANGED <<pool, enabled, reports, direct>>

\* Mutant: the stack is marked cached before it is filled.
TracebackCheckMarks(d) ==
  /\ At(d, "check")
  /\ cached' = [cached EXCEPT ![act[d].slot] = 1]
  /\ Goto(d, IF cached[act[d].slot] = 0
               THEN [act[d] EXCEPT !.pc = "walk", !.sc = saved[act[d].slot]]
               ELSE [act[d] EXCEPT !.pc = "copy"])
  /\ UNCHANGED <<inuse, saved, stack, enabled, reports, direct>>

\* Mutant: an unwinding waits for the end of another one's walk.
TracebackCheckWaits(d) ==
  /\ At(d, "check")
  /\ \A i \in 0..MaxDepth :
       act[i].pc \in {"walk", "truncate", "mark"} => act[i].slot # act[d].slot
  /\ Goto(d, IF cached[act[d].slot] = 0
               THEN [act[d] EXCEPT !.pc = "walk", !.sc = saved[act[d].slot]]
               ELSE [act[d] EXCEPT !.pc = "copy"])
  /\ UNCHANGED <<pool, enabled, reports, direct>>

TracebackCheck(d) ==
  /\ At(d, "check")
  /\ Goto(d, IF cached[act[d].slot] = 0
               THEN [act[d] EXCEPT !.pc = "walk", !.sc = saved[act[d].slot]]
               ELSE [act[d] EXCEPT !.pc = "copy"])
  /\ UNCHANGED <<pool, enabled, reports, direct>>

\* One round of the loop of stackWalk: store a frame, step the registers.
WalkStep(d) ==
  /\ At(d, "walk")
  /\ LET n == act[d].at + 1 IN
       /\ stack' = [stack EXCEPT ![act[d].slot][n] = Walk[act[d].sc][n]]
       /\ Goto(d, [act[d] EXCEPT
                     !.at = n,
                     !.pc = IF n < WalkCount(act[d].sc, StackMax) THEN "walk"
                                                                  ELSE "truncate"])
  /\ UNCHANGED <<inuse, cached, saved, enabled, reports, direct>>

TracebackTruncate(d) ==
  /\ At(d, "truncate")
  /\ stack' = [stack EXCEPT ![act[d].slot] = Truncate(@, act[d].at)]
  /\ Goto(d, [act[d] EXCEPT !.pc = "mark", !.at = 0])
  /\ UNCHANGED <<inuse, cached, saved, enabled, reports, direct>>

TracebackMark(d) ==
  /\ At(d, "mark")
  /\ cached' = [cached EXCEPT ![act[d].slot] = 1]
  /\ Goto(d, [act[d] EXCEPT !.pc = "copy"])
  /\ UNCHANGED <<inuse, saved, stack, enabled, reports, direct>>

\* Mutant: the whole cached stack is copied, whatever the buffer holds.
CopyOutAll(s) == [i \in 1..StackMax |-> stack[s][i]]

\* memcpy to Go's buffer, and return.
CopyOut(s) == [i \in 1..Least(BufMax, StackMax) |-> stack[s][i]]

TracebackCopy(d) ==
  /\ At(d, "copy")
  /\ reports' = [reports EXCEPT ![act[d].slot] =
                   @ \cup {[site |-> act[d].site, buf |-> CopyOut(act[d].slot)]}]
  /\ Pop(d)
  /\ UNCHANGED <<pool, enabled, direct>>

-----------------------------------------------------------------------------
(* Signals, the unwinding of the interrupted thread, and SetEnabled.         *)

\* A signal arrives.  Go installs its handlers with every signal blocked, so
\* that they do not nest; a handler that calls Go is one of C, and its callbacks
\* can be interrupted again.
Signal ==
  /\ (IF top = 0 THEN "idle" ELSE act[top].pc) \in Interrupts
  /\ \A d \in 1..top : act[d].pc = "sig" => d < top /\ act[d + 1].pc \notin TracebackLabels
  /\ Push(Activation("sig", 0, NoSite))
  /\ UNCHANGED <<pool, enabled, reports, direct>>

SigReturn ==
  /\ top > 0
  /\ At(top, "sig")
  /\ Pop(top)
  /\ UNCHANGED <<pool, enabled, reports, direct>>

\* Mutant: no terminator after the frames of a short walk.
DirectBufferOpen(old, site) ==
  Truncate(WalkInto(old, site, BufMax), WalkCount(site, BufMax))

\* async_cgo_traceback with no context: the handler unwinds the C code it
\* interrupted at site into the runtime's own buffer, which still holds the
\* last unwinding; the terminator first, truncate_asmcgocall after it.
DirectBuffer(old, site) ==
  LET n == WalkCount(site, BufMax)
      walked == WalkInto(old, site, BufMax)
      closed == IF n < BufMax THEN [walked EXCEPT ![n + 1] = 0] ELSE walked
  IN  Truncate(closed, n)

TracebackDirect(site) ==
  /\ top > 0
  /\ At(top, "sig")
  /\ site \in DirectSites
  /\ enabled
  /\ direct' = [site |-> site, buf |-> DirectBuffer(direct.buf, site)]
  /\ UNCHANGED <<top, act, pool, enabled, reports>>

SetEnabled(value) ==
  /\ Toggles
  /\ enabled' = value
  /\ UNCHANGED <<top, act, pool, reports, direct>>

-----------------------------------------------------------------------------
CodeStep(d) ==
  \/ ContextEnter(d) \/ GetScan(d) \/ GetTake(d) \/ GetReset(d) \/ ContextSave(d)
  \/ ReleaseEnter(d) \/ ReleaseClear(d)
  \/ TracebackEnter(d) \/ TracebackCheck(d) \/ WalkStep(d)
  \/ TracebackTruncate(d) \/ TracebackMark(d) \/ TracebackCopy(d)

Next ==
  \/ \E d \in 0..MaxDepth : CodeStep(d)
  \/ \E site \in Sites : CallGo(site) \/ TracebackDirect(site)
  \/ \E i \in Levels : CallTraceback(i) \/ ObserverTraceback(i)
  \/ GoReturn \/ Signal \/ SigReturn
  \/ \E value \in BOOLEAN : SetEnabled(value)

Spec == Init /\ [][Next]_vars

\* A thread that can run runs.  Signals come at a finite rate and their
\* handlers return, so that interrupted code gets to run again and again: the
\* fairness of its steps is strong.
Fairness ==
  /\ WF_vars(CodeStep(0))
  /\ \A d \in Levels : SF_vars(CodeStep(d))
  /\ SF_vars(SigReturn)

FairSpec == Spec /\ Fairness

-----------------------------------------------------------------------------
(* Properties.                                                               *)

Frame == [pc : Labels, slot : 0..PoolSize, at : Nat,
          site : Sites \cup {NoSite}, sc : Sites \cup {NoSite}]

TypeOK ==
  /\ top \in 0..MaxDepth
  /\ act \in [0..MaxDepth -> Frame]
  /\ inuse \in [Slots -> {0, 1}]
  /\ cached \in [Slots -> {0, 1}]
  /\ saved \in [Slots -> Sites \cup {NoSite}]
  /\ stack \in [Slots -> [1..StackMax -> Nat]]
  /\ enabled \in BOOLEAN
  /\ reports \in [Slots -> SUBSET [site : Sites, buf : [1..Least(BufMax, StackMax) -> Nat]]]
  /\ direct \in [site : Sites \cup {NoSite}, buf : [1..BufMax -> Nat]]

HoldingLabels == {"reset", "save", "go", "release", "clear"}

\* Call i owns a slot of the pool.
Holds(i) == i \in 1..top /\ act[i].pc \in HoldingLabels /\ act[i].slot # 0

\* Two nested calls never own one slot, and the slot of a call is marked in
\* use for as long as it owns it: nobody can be handed the context of a call
\* that is still in Go (cgo_context_get, cgo_context_release).
SlotExclusive ==
  \A i \in Levels : Holds(i) =>
    /\ inuse[act[i].slot] = 1
    /\ \A j \in Levels : Holds(j) /\ j # i => act[j].slot # act[i].slot

\* A slot marked in use belongs to a call that will give it back: the comment
\* at cgotraceback.cpp:77-80 says a context is released as soon as its Go call
\* returns.
NoLeak ==
  \A s \in Slots : inuse[s] = 1 => \E i \in Levels : Holds(i) /\ act[i].slot = s

\* The pool behaves as a stack: the k-th call that got an answer has slot k, and
\* a call goes without a context only when PoolSize calls are below it.  A call
\* that a handler interrupted in its context function is not among them yet.
HeldLevels ==
  {i \in 1..top : Holds(i) \/ (act[i].pc = "go" /\ act[i].slot = 0)}
Nth(n) == CHOOSE i \in HeldLevels : Cardinality({j \in HeldLevels : j < i}) + 1 = n
ContextStackRefinement ==
  INSTANCE ContextStack WITH held <- [n \in 1..Cardinality(HeldLevels) |-> act[Nth(n)].slot]
PoolIsStack == ContextStackRefinement!Spec

\* The frames of the C code at site that belong to it: its call chain up to
\* asmcgocall, or all of it when no Go code called it.
OwnLength(site) ==
  IF \E i \in 1..Len(Walk[site]) : FirstAsm(Walk[site], Len(Walk[site]), i)
    THEN CHOOSE i \in 1..Len(Walk[site]) : FirstAsm(Walk[site], Len(Walk[site]), i)
    ELSE Len(Walk[site])

\* The frames Go reads in a buffer: those before the first 0.
Frames(buf) ==
  {i \in DOMAIN buf : \A j \in 1..i : buf[j] # 0}

\* Every unwinding of a context, on whatever thread and however interrupted,
\* reports the frames of the call the context was made for: none is lost,
\* replaced or out of order, up to what the buffer holds.
ReportPrefix ==
  \A s \in Slots : \A r \in reports[s] :
    \A i \in DOMAIN r.buf : i <= OwnLength(r.site) => r.buf[i] = Walk[r.site][i]

\* An unwinding of a context reports only the frames of that call, and ends
\* there (cgotraceback.cpp:179-181, 104-107).
ReportExact ==
  \A s \in Slots : \A r \in reports[s] :
    Frames(r.buf) \subseteq 1..OwnLength(r.site)

\* Unwinding the interrupted thread itself reports its frames up to
\* asmcgocall, and nothing of what the buffer held before.
DirectExact ==
  LET site == direct.site
      Own == 1..Least(OwnLength(site), BufMax)
  IN  site # NoSite =>
        /\ Frames(direct.buf) = Own
        /\ \A i \in Own : direct.buf[i] = Walk[site][i]

\* Unwinding one call twice gives one result (TestRepeatedUnwind,
\* cgotraceback_test.go:64-81).
RepeatedUnwindSame ==
  \A s \in Slots : \A r1, r2 \in reports[s] :
    /\ Frames(r1.buf) = Frames(r2.buf)
    /\ \A i \in Frames(r1.buf) : r1.buf[i] = r2.buf[i]

\* An unwinding of a context finishes, although a handler can interrupt it at
\* every step and unwind the same context itself, and another thread can be
\* unwinding it (cgotraceback.cpp:184-190).
TracebackReturns ==
  \A d \in 0..MaxDepth :
    act[d].pc \in TracebackLabels ~> act[d].pc \notin TracebackLabels

\* The context function finishes, although it can be interrupted at every step
\* (cgotraceback.cpp:131-162).
ContextReturns ==
  \A d \in Levels :
    /\ act[d].pc \in {"context", "scan", "take", "reset", "save"} ~> act[d].pc = "go"
    /\ act[d].pc \in {"release", "clear"} ~> act[d].pc \notin {"release", "clear"}
=============================================================================

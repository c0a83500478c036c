------------------------------- MODULE StackWalk -------------------------------
(***************************************************************************)
(* The stack walker (stackWalker.cpp) on a stack of C frames, and the      *)
(* handler of SIGSEGV its loads rely on (safeAccess.cpp).                  *)
(*                                                                         *)
(* The C program is external: Enter calls one of Functions, whose layouts  *)
(* are those of compilers; it may overwrite its stack (Corrupt).           *)
(* The walk starts in interrupted code (async_cgo_traceback) or in         *)
(* async_cgo_context, two frames above the code that calls Go; in the      *)
(* second case its frames are gone when the stack is walked.  Addresses    *)
(* are numbers modulo Space, as uintptr_t is.                              *)
(***************************************************************************)
EXTENDS Integers, Sequences, FiniteSets, FiniteSetsExt

CONSTANTS
  Word,          \* sizeof(void*), DW_STACK_SLOT
  Space,         \* 2^w, the number of addresses
  MIN_VALID_PC, MAX_FRAME_SIZE, MAX_WALK_SIZE,
  MaxCalls,      \* bound: frames on the stack
  MaxDepth,      \* max_depth
  StackLow,      \* the lowest word of the stack
  StackBase,     \* the address behind its first frame
  Functions,     \* the functions of the program
  Start,         \* the function a thread starts with
  Libraries,     \* the CodeCacheArray: address ranges and their frame tables
  Scratch,       \* what a function may keep in the frame pointer register
  Garbage,       \* the words a corrupt or foreign memory may hold
  LoadAt,        \* the address of SafeAccess::load
  LoadPcs,       \* where the builds of load have the access, behind their prologues
  LoadInsns,     \* the pcs of all instructions encoded as that access is
  OldActions     \* the dispositions of SIGSEGV the constructor may have found

\* A function: its name, the pc at which it calls or is interrupted, how it
\* lays out its frame, the words of its locals, and for a piece of a function
\* ("part") the distance to the pc it stands for.
Function == [pc : Nat, kind : {"fp", "sp", "saves", "plt", "part"},
             locals : Nat, by : Int]
Rules == [reg : {"sp", "fp", "plt", "none"}, off : Int,
          how : {"same", "saved", "pc"}, by : Int]

\* Below the stack is room for the frame of a leaf; a frame of the walker's limits
\* has more than the two words of a frame record (stackWalker.cpp:25-27).
ASSUME SpaceAssumption ==
  /\ {Word, Space, MIN_VALID_PC, MAX_FRAME_SIZE, MAX_WALK_SIZE} \subseteq Nat \ {0}
  /\ {MaxCalls, MaxDepth} \subseteq Nat \ {0}
  /\ StackLow \in Nat /\ StackBase \in Nat
  /\ StackLow < StackBase /\ StackBase + MAX_WALK_SIZE < Space
  /\ 2 * Word < MAX_FRAME_SIZE /\ MAX_FRAME_SIZE <= MAX_WALK_SIZE
  /\ StackBase % Word = 0
  /\ 2 * Word <= StackLow

\* Every function has a pc of its own, which is not in the first or last page.
ASSUME ProgramAssumption ==
  /\ Functions \subseteq Function /\ Start \in Functions
  /\ \A g \in Functions : MIN_VALID_PC <= g.pc /\ g.pc <= Space - MIN_VALID_PC
  /\ \A g, h \in Functions : g.pc = h.pc => g = h
  /\ DOMAIN Libraries \subseteq Nat
  /\ \A i \in DOMAIN Libraries :
       \A pc \in DOMAIN Libraries[i].table : Libraries[i].table[pc] \in Rules
  /\ Scratch \in 0..(Space - 1) /\ Garbage \subseteq 0..(Space - 1)

\* load is aligned to 16 bytes and has the access in the first 16, as one mov from
\* a register's address, also behind the prologue of -fno-omit-frame-pointer; the
\* next function begins behind them (safeAccess.cpp:14-25).
LoadWindow == 16
ASSUME LoadAssumption ==
  /\ LoadAt \in Nat /\ LoadAt + LoadWindow <= Space
  /\ LoadPcs \subseteq LoadInsns
  /\ \A pc \in LoadPcs : pc \in Nat \ {0} /\ LoadAt <= pc /\ pc < LoadAt + LoadWindow
  /\ \A g \in Functions : g.pc < LoadAt \/ LoadAt + LoadWindow <= g.pc

ASSUME ActionAssumption == OldActions \subseteq {"default", "ignore", "function"}

VARIABLES
  frames,     \* the true frames: registers of every active call, the last one running
  mem,        \* the words of the stack
  corrupt,    \* words of the stack were overwritten
  at,         \* what the walker does next
  sc,         \* its registers
  left,       \* steps of async_cgo_context to go
  depth,      \* depth of stackWalk
  callchain,  \* what it stored
  saved,      \* the registers a walk begins with: of the context or of the signal
  exact,      \* history: the first two steps had the rules they need
  trap,       \* the pc of the access whose SIGSEGV is being handled
  process     \* what became of the process

program == <<frames, mem, corrupt>>
walker == <<at, sc, left, depth, callchain, saved, exact>>
vars == <<program, walker, trap, process>>

Wrap(a) == a % Space
NoTrap == 0
Words == {a \in StackLow..(StackBase - 1) : (StackBase - a) % Word = 0}
Last(s) == s[Len(s)]
Top == Last(frames)
NoRegs == [pc |-> 0, sp |-> 0, fp |-> 0]
-----------------------------------------------------------------------------
(* The C program.                                                            *)

\* A stub of the PLT has pushed a word in the last part of its 16 bytes.
Pushed(pc) == IF pc % 16 >= 11 THEN 1 ELSE 0

\* The registers of g after its prologue, called with the registers r.
Frame(g, r) ==
  LET size == CASE g.kind = "fp"    -> 2 + g.locals
                [] g.kind = "sp"    -> 1 + g.locals
                [] g.kind = "saves" -> 2 + g.locals
                [] g.kind = "plt"   -> 1 + Pushed(g.pc)
                [] g.kind = "part"  -> 0
  IN  [pc |-> g.pc,
       sp |-> r.sp - size * Word,
       fp |-> CASE g.kind = "fp"    -> r.sp - 2 * Word
                [] g.kind = "saves" -> Scratch
                [] OTHER            -> r.fp]

\* The memory after it: the return address, and the frame pointer if g
\* pushes it.
FrameMem(m, g, r) ==
  [a \in DOMAIN m |->
     CASE g.kind # "part" /\ a = r.sp - Word                  -> r.pc
       [] g.kind \in {"fp", "saves"} /\ a = r.sp - 2 * Word   -> r.fp
       [] OTHER                                               -> m[a]]

\* The rule that finds the caller's frame from g.
TrueRule(g) ==
  CASE g.kind = "fp" ->
         [reg |-> "fp", off |-> 2 * Word, how |-> "saved", by |-> -2 * Word]
    [] g.kind = "sp" ->
         [reg |-> "sp", off |-> (1 + g.locals) * Word, how |-> "same", by |-> 0]
    [] g.kind = "saves" ->
         [reg |-> "sp", off |-> (2 + g.locals) * Word, how |-> "saved", by |-> -2 * Word]
    [] g.kind = "plt" ->
         [reg |-> "plt", off |-> Word, how |-> "same", by |-> 0]
    [] g.kind = "part" ->
         [reg |-> "sp", off |-> 0, how |-> "pc", by |-> g.by]

Origin == [pc |-> 0, sp |-> StackBase, fp |-> 0]

\* The stack has room for the first frame, which is that of a whole function.
ASSUME StartAssumption ==
  Frame(Start, Origin).sp >= StackLow /\ Start.kind # "part"

Init ==
  /\ frames = <<Frame(Start, Origin)>>
  /\ mem = FrameMem([a \in Words |-> 0], Start, Origin)
  /\ corrupt = FALSE
  /\ at = "idle" /\ sc = NoRegs /\ left = 0
  /\ depth = 0 /\ callchain = << >> /\ saved = NoRegs /\ exact = TRUE
  /\ trap = NoTrap /\ process = "running"

Running == process = "running" /\ trap = NoTrap

Callers == {g.pc : g \in {h \in Functions : h.kind \notin {"plt", "part"}}}

Enter(g) ==
  /\ Running /\ at = "idle"
  /\ Len(frames) < MaxCalls
  /\ Top.pc \in Callers
  /\ g.kind = "part" => Top.pc = g.pc + g.by
  /\ Frame(g, Top).sp >= StackLow
  /\ frames' = Append(frames, Frame(g, Top))
  /\ mem' = FrameMem(mem, g, Top)
  /\ UNCHANGED <<corrupt, walker, trap, process>>

\* The program overwrites words of its stack: each may hold anything.
Corrupt ==
  /\ Running /\ at = "idle" /\ ~corrupt
  /\ corrupt' = TRUE
  /\ UNCHANGED <<frames, mem, walker, trap, process>>

\* The program itself accesses memory it does not have.
CodeFault ==
  /\ Running /\ at = "idle"
  /\ trap' = Top.pc
  /\ UNCHANGED <<program, walker, process>>

-----------------------------------------------------------------------------
(* stepStackContext.                                                         *)

default_frame == [reg |-> "fp", off |-> 2 * Word, how |-> "saved", by |-> -2 * Word]

\* findLibraryByAddress and findFrameDesc: only the first library that contains
\* the pc is asked.
FrameDescAt(pc) ==
  LET own == {i \in DOMAIN Libraries : Libraries[i].min <= pc /\ pc < Libraries[i].max}
      table == Libraries[Min(own)].table
  IN  IF own # {} /\ pc \in DOMAIN table THEN table[pc] ELSE default_frame

NextSp(f) ==
  CASE f.reg = "sp"  -> Wrap(sc.sp + f.off)
    [] f.reg = "fp"  -> Wrap(sc.fp + f.off)
    [] f.reg = "plt" -> Wrap(sc.sp + f.off * (1 + Pushed(sc.pc)))

\* Mutant: a frame below the last one is accepted.
AcceptedBelow(sp) == sp < Wrap(sc.sp + MAX_FRAME_SIZE) /\ sp % Word = 0

Accepted(sp) ==
  /\ sp >= sc.sp
  /\ sp < Wrap(sc.sp + MAX_FRAME_SIZE)
  /\ sp < Wrap(sc.sp + MAX_WALK_SIZE)
  /\ sp % Word = 0

\* Mutant: the first page is not excluded.
ValidPcLow(pc) == pc <= Wrap(-MIN_VALID_PC)

ValidPc(pc) == pc >= MIN_VALID_PC /\ pc <= Wrap(-MIN_VALID_PC)

\* stepStackContext returns: async_cgo_context ignores the result.
Returned(ok) ==
  /\ left' = IF left > 0 THEN left - 1 ELSE 0
  /\ at' = CASE left = 2 -> "step"
             [] left = 1 -> "save"
             [] left = 0 -> IF ok THEN "walk" ELSE "done"

LoadsFp(f) ==
  f.how = "saved" /\ f.by < MAX_FRAME_SIZE /\ f.by > -MAX_FRAME_SIZE

\* Everything before the loads.  sc.sp is changed before it is checked.
Step ==
  /\ at = "step"
  /\ LET f == FrameDescAt(sc.pc)
         next == [sc EXCEPT !.sp = NextSp(f)]
         pc == Wrap(sc.pc + f.by)
     IN  \/ f.reg = "none" /\ Returned(FALSE) /\ UNCHANGED sc
         \/ f.reg # "none" /\ ~Accepted(next.sp) /\ sc' = next /\ Returned(FALSE)
         \/ /\ f.reg # "none" /\ Accepted(next.sp) /\ f.how = "pc"
            /\ sc' = [next EXCEPT !.pc = pc]
            /\ Returned(ValidPc(pc))
         \/ /\ f.reg # "none" /\ Accepted(next.sp) /\ f.how # "pc"
            /\ sc' = next
            /\ at' = IF LoadsFp(f) THEN "fp" ELSE "pc"
            /\ UNCHANGED left
  /\ UNCHANGED <<program, depth, callchain, saved, exact, trap, process>>

LoadAddress ==
  Wrap(IF at = "fp" THEN sc.sp + FrameDescAt(sc.pc).by ELSE sc.sp - Word)

\* SafeAccess::load returned the value.
Loaded(value) ==
  \/ at = "fp" /\ sc' = [sc EXCEPT !.fp = value] /\ at' = "pc" /\ UNCHANGED left
  \/ at = "pc" /\ sc' = [sc EXCEPT !.pc = value] /\ Returned(ValidPc(value))

\* What a load of an address may find: below the last frame are the remains of
\* other calls.
Contents(a) ==
  LET live == a \in Words /\ a >= Top.sp
  IN  (IF live THEN {mem[a]} ELSE {}) \cup (IF live /\ ~corrupt THEN {} ELSE Garbage)

\* A load reads the stack, other memory, or memory that is not there.
Load ==
  /\ at \in {"fp", "pc"} /\ trap = NoTrap
  /\ LET a == LoadAddress IN
       \/ /\ \E v \in Contents(a) : Loaded(v)
          /\ UNCHANGED trap
       \/ a \notin Words /\ trap' \in LoadPcs /\ UNCHANGED <<at, sc, left>>
  /\ UNCHANGED <<program, depth, callchain, saved, exact, process>>

\* The disposition from before the constructor gets the signal.  SIG_IGN is
\* called like a handler and faults with SIGSEGV blocked; the kernel then
\* kills the process, as it does for an ignored fault.
PassOn ==
  /\ \E old \in OldActions : process' = IF old = "function" THEN "forwarded" ELSE "killed"
  /\ UNCHANGED <<program, walker>>

\* Mutant: the difference is compared as a signed number.
InLoadSigned(pc) == pc - LoadAt < LoadWindow

\* The fault is near the beginning of load.
InLoad(pc) == Wrap(pc - LoadAt) < LoadWindow

\* Mutant: the instruction is not recognised.
skipNothing(pc) == 0

\* The length of an access like that of load: mov rax, [reg] has three bytes.
MovLength == 3
skipFaultInstruction(pc) == IF pc \in LoadInsns THEN MovLength ELSE 0

\* The thread goes on at pc with 0 as the result.  In load, behind the access
\* load returns, and at the access it is done again; any other code goes astray.
Resume(pc) ==
  \/ at # "idle" /\ pc = trap + MovLength /\ Loaded(0) /\ UNCHANGED process
  \/ at # "idle" /\ pc = trap /\ UNCHANGED <<at, sc, left, process>>
  \/ at = "idle" /\ process' = "astray" /\ UNCHANGED <<at, sc, left>>

\* segv_handler has only the pc of the fault to tell whose it is.
segv_handler ==
  /\ trap # NoTrap
  /\ trap' = NoTrap
  /\ \/ /\ InLoad(trap)
        /\ Resume(trap + skipFaultInstruction(trap))
        /\ UNCHANGED <<program, depth, callchain, saved, exact>>
     \/ ~InLoad(trap) /\ PassOn

-----------------------------------------------------------------------------
(* stackWalk and its callers.                                                *)

\* Mutant: one frame too many.
StackWalkOver ==
  /\ at = "walk"
  /\ \/ /\ depth <= MaxDepth
        /\ callchain' = Append(callchain, sc.pc)
        /\ depth' = depth + 1
        /\ at' = "step"
     \/ depth > MaxDepth /\ at' = "done" /\ UNCHANGED <<callchain, depth>>
  /\ UNCHANGED <<program, sc, left, saved, exact, trap, process>>

StackWalk ==
  /\ at = "walk"
  /\ \/ /\ depth < MaxDepth
        /\ callchain' = Append(callchain, sc.pc)
        /\ depth' = depth + 1
        /\ at' = "step"
     \/ depth >= MaxDepth /\ at' = "done" /\ UNCHANGED <<callchain, depth>>
  /\ UNCHANGED <<program, sc, left, saved, exact, trap, process>>

\* async_cgo_traceback with the registers of a signal.
WalkInterrupted ==
  /\ Running /\ at = "idle"
  /\ sc' = Top /\ saved' = Top /\ exact' = TRUE
  /\ at' = "walk"
  /\ UNCHANGED <<program, left, depth, callchain, trap, process>>

FunctionAt(pc) == CHOOSE g \in Functions : g.pc = pc

\* The caller's frame begins where the last one did; i is a true frame that the
\* tables describe.
CallerSp(i) == IF i = 1 THEN StackBase ELSE frames[i - 1].sp
Described(i, sp) ==
  /\ FrameDescAt(frames[i].pc) = TrueRule(FunctionAt(frames[i].pc))
  /\ CallerSp(i) - sp < MAX_FRAME_SIZE

\* populateStackContext without a signal, called by async_cgo_context, which
\* keeps a frame pointer (-fno-omit-frame-pointer): the pc and the frame
\* pointer are those of async_cgo_context, the stack pointer is the frame
\* address of populateStackContext, two words below.
PopulatedSp == Top.sp - 2 * Word

async_cgo_context ==
  /\ Running /\ at = "idle"
  /\ Len(frames) >= 3 /\ FunctionAt(Top.pc).kind = "fp"
  /\ sc' = [pc |-> Top.pc, sp |-> PopulatedSp, fp |-> Top.fp]
  /\ exact' = /\ Described(Len(frames), PopulatedSp)
              /\ Described(Len(frames) - 1, frames[Len(frames) - 1].sp)
  /\ left' = 2 /\ at' = "step"
  /\ UNCHANGED <<program, depth, callchain, saved, trap, process>>

\* async_cgo_context and its caller return.
PopCallback ==
  LET kept == SubSeq(frames, 1, Len(frames) - 2) IN
    /\ frames' = kept
    /\ mem' = [a \in Words |-> IF a < Last(kept).sp THEN 0 ELSE mem[a]]

\* Mutant: one step too few before the registers are saved.
SaveContextEarly ==
  /\ at = "step" /\ left = 1
  /\ left' = 0
  /\ saved' = sc
  /\ at' = "saved"
  /\ PopCallback
  /\ UNCHANGED <<corrupt, sc, depth, callchain, exact, trap, process>>

\* The registers are saved; from then on other calls use the part of the stack
\* below them.
SaveContext ==
  /\ at = "save"
  /\ saved' = sc
  /\ at' = "saved"
  /\ PopCallback
  /\ UNCHANGED <<corrupt, sc, left, depth, callchain, exact, trap, process>>

\* async_cgo_traceback of the context.
WalkContext ==
  /\ at = "saved"
  /\ sc' = saved
  /\ at' = "walk"
  /\ UNCHANGED <<program, left, depth, callchain, saved, exact, trap, process>>

\* The caller has used the chain.
Return ==
  /\ at = "done"
  /\ at' = "idle" /\ sc' = NoRegs
  /\ depth' = 0 /\ callchain' = << >> /\ saved' = NoRegs /\ exact' = TRUE
  /\ UNCHANGED <<program, left, trap, process>>

Walker == Step \/ Load \/ segv_handler \/ StackWalk \/ SaveContext

Next ==
  \/ \E g \in Functions : Enter(g)
  \/ Corrupt \/ CodeFault
  \/ WalkInterrupted \/ async_cgo_context \/ WalkContext \/ Return
  \/ Walker

Spec == Init /\ [][Next]_vars

\* A walk is a loop of the thread that called it: it goes on.
FairSpec == Spec /\ WF_vars(Walker)

-----------------------------------------------------------------------------
(* Properties.                                                               *)

Address == 0..(Space - 1)
Registers == [pc : Address, sp : Address, fp : Address]

TypeOK ==
  /\ frames \in Seq(Registers) /\ Len(frames) \in 1..MaxCalls
  /\ mem \in [Words -> Address]
  /\ corrupt \in BOOLEAN /\ exact \in BOOLEAN
  /\ at \in {"idle", "walk", "step", "fp", "pc", "save", "saved", "done"}
  /\ sc \in Registers /\ saved \in Registers
  /\ left \in 0..2
  /\ depth \in 0..MaxDepth
  /\ callchain \in Seq(Address) /\ Len(callchain) = depth
  /\ trap \in Address
  /\ process \in {"running", "forwarded", "killed", "astray"}

\* The walk of an intact stack gives the pcs of the true frames, the first one
\* and each whose callees the tables describe; when they describe all frames
\* the walk ends with the last of them or at max_depth (stackWalker.cpp:39-113).
WalkRight ==
  LET n == Len(frames) IN
    at = "done" /\ ~corrupt /\ exact =>
      /\ \A i \in 1..depth :
           /\ i <= n + 1
           /\ \A j \in 1..(i - 1) : Described(n + 1 - j, frames[n + 1 - j].sp)
           => i <= n /\ callchain[i] = frames[n + 1 - i].pc
      /\ (\A j \in 1..n : Described(j, frames[j].sp)) => depth = Min({n, MaxDepth})

\* A context holds the registers of the C function that called Go, two frames
\* up, although the stack pointer of the first is not its own
\* (cgotraceback.cpp:146-158, stackWalker.cpp:85-90).
ContextRight ==
  at = "saved" /\ ~corrupt /\ exact => saved = Top

\* Whatever the memory holds, a walk only moves up, and after n frames at most n
\* frame sizes: nothing else limits how far it reads (stackWalker.cpp:45-63).
WalkBounded ==
  at \in {"walk", "fp", "pc"} /\ left = 0 =>
    /\ sc.sp >= saved.sp
    /\ sc.sp - saved.sp <= depth * MAX_FRAME_SIZE

\* The handler tells the faults of the walker from those of the program by the pc:
\* a word that is not there ends at most the walk, never the process, and code
\* of the program next to load is never made to go on behind its fault
\* (safeAccess.cpp:41-67).
WalkHarmless == process # "running" => at = "idle" /\ process # "astray"

\* A walk ends, whatever the memory holds and however many loads fault.
WalkReturns ==
  at \in {"walk", "step", "fp", "pc", "save"} ~> at \in {"done", "saved"}
=============================================================================

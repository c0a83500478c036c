---------------------------- MODULE StackWalkProofs ----------------------------
(***************************************************************************)
(* Proofs about StackWalk, for stacks of any functions and any depth, any  *)
(* tables and any memory: TypeCorrect, WalksBounded, WalksHarmless,        *)
(* ContextsRight and WalksRight.                                           *)
(*                                                                         *)
(* The inductive invariant has three parts.  Framed says that each frame   *)
(* is that of its function called from the one below, and that what it has *)
(* pushed is in memory.  Control has the types, the phases of a walk, how  *)
(* far it can be from where it began and where the process can fault.      *)
(* Tracked says that while the tables describe the frames the registers of *)
(* the walker are those of the true frame it is at: StepTrue and LoadTrue  *)
(* show that one step of stepStackContext leads to the caller.             *)
(***************************************************************************)
EXTENDS StackWalk, TLAPS, WellFoundedInduction, SequenceTheorems

LEMMA MulNat ==
  ASSUME NEW n \in Nat, NEW a \in Nat
  PROVE  a * n \in Nat
OBVIOUS

LEMMA MinIn ==
  ASSUME NEW S \in SUBSET Nat, S # {}
  PROVE  Min(S) \in S /\ \A m \in S : Min(S) <= m
<1>1. \E m \in S : \A k \in S : <<k, m>> \notin OpToRel(<, Nat)
  BY NatLessThanWellFounded, WFMin
<1>2. PICK m \in S : \A k \in S : <<k, m>> \notin OpToRel(<, Nat)
  BY <1>1
<1>3. ASSUME NEW k \in S PROVE m <= k
  <2>1. k \in Nat /\ m \in Nat
    OBVIOUS
  <2>2. ~(k < m)
    BY <1>2, <2>1 DEF OpToRel
  <2> QED
    BY <2>1, <2>2
<1> QED
  BY <1>3 DEF Min

-----------------------------------------------------------------------------
(* Addresses.                                                                *)

LEMMA WrapType ==
  ASSUME NEW a \in Int
  PROVE  Wrap(a) \in Address
BY SpaceAssumption DEF Wrap, Address

LEMMA WrapSmall ==
  ASSUME NEW a \in Address
  PROVE  Wrap(a) = a
BY SpaceAssumption DEF Wrap, Address

\* Nothing wraps to a higher address than it is.
LEMMA WrapLow ==
  ASSUME NEW a \in Nat
  PROVE  Wrap(a) <= a
BY SpaceAssumption DEF Wrap

LEMMA FrameDescType ==
  ASSUME NEW pc
  PROVE  FrameDescAt(pc) \in Rules
<1> DEFINE own == {i \in DOMAIN Libraries : Libraries[i].min <= pc /\ pc < Libraries[i].max}
           table == Libraries[Min(own)].table
<1>1. default_frame \in Rules
  BY SpaceAssumption DEF default_frame, Rules
<1>2. ASSUME own # {}, pc \in DOMAIN table
      PROVE  table[pc] \in Rules
  <2>1. Min(own) \in DOMAIN Libraries
    BY <1>2, MinIn, ProgramAssumption
  <2> QED
    BY <1>2, <2>1, ProgramAssumption
<1> QED
  BY <1>1, <1>2 DEF FrameDescAt

-----------------------------------------------------------------------------
(* Frames.                                                                   *)

\* The words of a frame, as Frame counts them.
SizeOf(g) ==
  CASE g.kind = "fp"    -> 2 + g.locals
    [] g.kind = "sp"    -> 1 + g.locals
    [] g.kind = "saves" -> 2 + g.locals
    [] g.kind = "plt"   -> 1 + Pushed(g.pc)
    [] g.kind = "part"  -> 0

LEMMA FrameEffect ==
  ASSUME NEW g \in Functions, NEW r \in Registers, Frame(g, r).sp >= StackLow
  PROVE  /\ Frame(g, r) \in Registers
         /\ SizeOf(g) \in Nat /\ SizeOf(g) * Word \in Nat
         /\ Frame(g, r).pc = g.pc
         /\ Frame(g, r).sp = r.sp - SizeOf(g) * Word
         /\ g.kind = "fp" => Frame(g, r).fp = r.sp - 2 * Word
         /\ g.kind = "saves" => Frame(g, r).fp = Scratch
         /\ g.kind \notin {"fp", "saves"} => Frame(g, r).fp = r.fp
<1>1. /\ g.pc \in Address /\ g.locals \in Nat
      /\ g.kind \in {"fp", "sp", "saves", "plt", "part"}
  BY ProgramAssumption, SpaceAssumption DEF Function, Address
<1>2. Pushed(g.pc) \in {0, 1}
  BY DEF Pushed
<1>3. SizeOf(g) \in Nat /\ SizeOf(g) * Word \in Nat
  <2>1. SizeOf(g) \in Nat
    BY <1>1, <1>2 DEF SizeOf
  <2> QED
    BY <2>1, MulNat, SpaceAssumption
<1>4. /\ Frame(g, r).pc = g.pc
      /\ Frame(g, r).sp = r.sp - SizeOf(g) * Word
      /\ g.kind = "fp" => Frame(g, r).fp = r.sp - 2 * Word
      /\ g.kind = "saves" => Frame(g, r).fp = Scratch
      /\ g.kind \notin {"fp", "saves"} => Frame(g, r).fp = r.fp
  BY <1>1 DEF Frame, SizeOf
<1>5. Frame(g, r).sp \in Address
  BY <1>3, <1>4, SpaceAssumption DEF Registers, Address
<1>6. Frame(g, r).fp \in Address
  <2>1. CASE g.kind = "fp"
    <3>1. SizeOf(g) = 2 + g.locals /\ g.locals * Word \in Nat
      BY <1>1, <2>1, MulNat, SpaceAssumption DEF SizeOf
    <3>2. SizeOf(g) * Word = 2 * Word + g.locals * Word
      BY <1>1, <3>1, SpaceAssumption
    <3> QED
      BY <1>4, <2>1, <3>1, <3>2, SpaceAssumption DEF Registers, Address
  <2>2. CASE g.kind # "fp"
    BY <1>1, <1>4, <2>2, ProgramAssumption DEF Registers, Address
  <2> QED
    BY <2>1, <2>2
<1>7. Frame(g, r) = [pc |-> Frame(g, r).pc, sp |-> Frame(g, r).sp, fp |-> Frame(g, r).fp]
  <2> DEFINE words == CASE g.kind = "fp"    -> 2 + g.locals
                        [] g.kind = "sp"    -> 1 + g.locals
                        [] g.kind = "saves" -> 2 + g.locals
                        [] g.kind = "plt"   -> 1 + Pushed(g.pc)
                        [] g.kind = "part"  -> 0
             fp == CASE g.kind = "fp"    -> r.sp - 2 * Word
                     [] g.kind = "saves" -> Scratch
                     [] OTHER            -> r.fp
  <2>1. Frame(g, r) = [pc |-> g.pc, sp |-> r.sp - words * Word, fp |-> fp]
    BY DEF Frame
  <2> HIDE DEF words, fp
  <2> QED
    BY <2>1
<1> QED
  BY <1>1, <1>3, <1>4, <1>5, <1>6, <1>7 DEF Registers

\* The registers frame i was called with.
Caller(i) == IF i = 1 THEN Origin ELSE frames[i - 1]

\* The function of frame i.
Callee(i) == FunctionAt(frames[i].pc)

\* Frame i is that of its function, which was called.
Built(i) ==
  /\ Callee(i) \in Functions
  /\ frames[i] = Frame(Callee(i), Caller(i))
  /\ i > 1 => Caller(i).pc \in Callers
  /\ Callee(i).kind = "part" => i > 1 /\ Caller(i).pc = Callee(i).pc + Callee(i).by

\* Frame i is on the stack.
InStack(i) ==
  StackLow <= frames[i].sp /\ frames[i].sp <= StackBase /\ frames[i].sp % Word = 0

\* What frame i has stored is in memory.
Stored(i) ==
  /\ Callee(i).kind # "part" => mem[Caller(i).sp - Word] = Caller(i).pc
  /\ Callee(i).kind \in {"fp", "saves"} => mem[Caller(i).sp - 2 * Word] = Caller(i).fp

Framed ==
  /\ frames \in Seq(Registers) /\ Len(frames) \in 1..MaxCalls
  /\ mem \in [Words -> Address]
  /\ \A i \in 1..Len(frames) : Built(i) /\ InStack(i) /\ Stored(i)
  /\ \A i, j \in 1..Len(frames) : i <= j => frames[j].sp <= frames[i].sp

LEMMA FunctionOf ==
  ASSUME NEW g \in Functions
  PROVE  FunctionAt(g.pc) = g
BY ProgramAssumption DEF FunctionAt

LEMMA MulZero ==
  ASSUME NEW n \in Nat \ {0}, NEW m \in Int
  PROVE  (m * n) % n = 0
<1> DEFINE q == (m * n) \div n
           r == (m * n) % n
<1>1. m * n = n * q + r /\ q \in Int /\ r \in 0..(n - 1)
  OBVIOUS
<1> HIDE DEF q, r
<1>2. (m - q) * n = r
  BY <1>1
<1>3. m - q = 0
  BY <1>1, <1>2
<1> QED
  BY <1>1, <1>3 DEF r

\* Words more or less leave an address aligned.
LEMMA ModAdd ==
  ASSUME NEW n \in Nat \ {0}, NEW a \in Int, NEW k \in Int, a % n = 0
  PROVE  (a + k * n) % n = 0
<1> DEFINE q == a \div n
<1>1. q \in Int /\ a = n * q
  OBVIOUS
<1> HIDE DEF q
<1>2. a + k * n = (q + k) * n
  BY <1>1
<1> QED
  BY <1>1, <1>2, MulZero

LEMMA ModSub ==
  ASSUME NEW n \in Nat \ {0}, NEW a \in Int, NEW b \in Int, a % n = 0, b % n = 0
  PROVE  (a - b) % n = 0
<1> DEFINE q == -(b \div n)
<1>1. q \in Int /\ b = n * (-q)
  OBVIOUS
<1> HIDE DEF q
<1>2. a - b = a + q * n
  BY <1>1
<1> QED
  BY <1>1, <1>2, ModAdd

LEMMA RegisterTypes ==
  ASSUME NEW r \in Registers
  PROVE  r.pc \in Address /\ r.sp \in Address /\ r.fp \in Address /\ r.sp \in Int
BY DEF Registers, Address

LEMMA WordsInt == Words \subseteq Int /\ Word \in Nat \ {0} /\ Space \in Nat \ {0}
BY SpaceAssumption DEF Words

LEMMA OriginType == Origin \in Registers /\ Origin.sp = StackBase
BY SpaceAssumption DEF Origin, Registers, Address

\* The words a frame stores are on the stack, above its stack pointer.
LEMMA Slots ==
  ASSUME NEW g \in Functions, NEW r \in Registers,
         Frame(g, r).sp >= StackLow, r.sp <= StackBase, r.sp % Word = 0
  PROVE  /\ Frame(g, r).sp <= r.sp /\ Frame(g, r).sp % Word = 0
         /\ g.kind # "part" => /\ r.sp - Word \in Words
                               /\ Frame(g, r).sp <= r.sp - Word
         /\ g.kind \in {"fp", "saves"} => /\ r.sp - 2 * Word \in Words
                                          /\ Frame(g, r).sp <= r.sp - 2 * Word
<1> DEFINE size == SizeOf(g)
           sp == Frame(g, r).sp
<1>1. size \in Nat /\ size * Word \in Nat /\ sp = r.sp - size * Word
  BY FrameEffect
<1>2. r.sp \in Int /\ Word \in Nat \ {0} /\ StackBase \in Int /\ StackBase % Word = 0 /\ StackLow \in Int
  BY SpaceAssumption DEF Registers, Address
<1>3. /\ g.kind # "part" => size >= 1
      /\ g.kind \in {"fp", "saves"} => size >= 2
  <2>1. g.locals \in Nat /\ g.kind \in {"fp", "sp", "saves", "plt", "part"}
    BY ProgramAssumption DEF Function
  <2>2. Pushed(g.pc) \in {0, 1}
    BY DEF Pushed
  <2> QED
    BY <2>1, <2>2 DEF SizeOf
<1> HIDE DEF size, sp
<1>4. sp <= r.sp
  BY <1>1, <1>2
<1>5. sp % Word = 0
  <2> DEFINE k == -size
  <2>1. k \in Int /\ sp = r.sp + k * Word
    BY <1>1, <1>2
  <2> HIDE DEF k
  <2> QED
    BY <1>2, <2>1, ModAdd
<1>6. ASSUME NEW k \in {1, 2}, size >= k
      PROVE  r.sp - k * Word \in Words /\ sp <= r.sp - k * Word
  <2>1. k * Word <= size * Word
    BY <1>1, <1>2, <1>6
  <2>2. sp <= r.sp - k * Word
    BY <1>1, <1>2, <2>1
  <2>3. (r.sp + (-k) * Word) % Word = 0 /\ r.sp + (-k) * Word = r.sp - k * Word
    BY <1>2, ModAdd
  <2>4. (StackBase - (r.sp - k * Word)) % Word = 0
    BY <1>2, <2>3, ModSub
  <2>5. StackLow <= r.sp - k * Word /\ r.sp - k * Word <= StackBase - 1
    BY <1>1, <1>2, <2>2 DEF sp
  <2> QED
    BY <1>2, <2>2, <2>4, <2>5 DEF Words
<1> QED
  BY <1>2, <1>3, <1>4, <1>5, <1>6 DEF sp

LEMMA FrameFacts ==
  ASSUME Framed, NEW i \in 1..Len(frames)
  PROVE  /\ frames[i] \in Registers /\ InStack(i) /\ Built(i) /\ Stored(i)
         /\ Callee(i) \in Functions /\ frames[i].pc = Callee(i).pc
         /\ Caller(i) \in Registers
         /\ frames[i].sp <= Caller(i).sp /\ Caller(i).sp <= StackBase
         /\ Callee(i).kind # "part" => /\ Caller(i).sp - Word \in Words
                                       /\ frames[i].sp <= Caller(i).sp - Word
         /\ Callee(i).kind \in {"fp", "saves"} =>
              /\ Caller(i).sp - 2 * Word \in Words
              /\ frames[i].sp <= Caller(i).sp - 2 * Word
<1>1. /\ frames[i] \in Registers /\ InStack(i) /\ Built(i) /\ Stored(i)
      /\ Callee(i) \in Functions /\ frames[i] = Frame(Callee(i), Caller(i))
  BY ElementOfSeq DEF Framed, Built
<1>2. /\ Caller(i) \in Registers /\ Caller(i).sp <= StackBase /\ Caller(i).sp % Word = 0
  <2>1. CASE i = 1
    BY <2>1, OriginType, SpaceAssumption DEF Caller
  <2>2. CASE i # 1
    <3>1. i - 1 \in 1..Len(frames)
      BY <2>2 DEF Framed
    <3> QED
      BY <2>2, <3>1, ElementOfSeq DEF Framed, Caller, InStack
  <2> QED
    BY <2>1, <2>2
<1>3. frames[i].pc = Callee(i).pc
  BY <1>1 DEF Frame
<1>4. Frame(Callee(i), Caller(i)).sp >= StackLow
  BY <1>1, SpaceAssumption DEF InStack, Registers, Address
<1> QED
  BY <1>1, <1>2, <1>3, <1>4, Slots

LEMMA InitFrames ==
  ASSUME Init
  PROVE  Framed
<1> DEFINE f == Frame(Start, Origin)
<1>1. /\ Start \in Functions /\ Origin \in Registers /\ f.sp >= StackLow
      /\ Start.kind # "part" /\ Origin.sp = StackBase /\ StackBase % Word = 0
      /\ StackBase \in Nat /\ StackLow \in Nat /\ Word \in Nat \ {0}
  BY ProgramAssumption, StartAssumption, OriginType, SpaceAssumption
<1>2. f \in Registers /\ f.pc = Start.pc
  BY <1>1, FrameEffect
<1>3. /\ f.sp <= StackBase /\ f.sp % Word = 0
      /\ Origin.sp - Word \in Words
      /\ Start.kind \in {"fp", "saves"} => Origin.sp - 2 * Word \in Words
  BY <1>1, Slots
<1> HIDE DEF f
<1>4. frames = <<f>> /\ mem = FrameMem([a \in Words |-> 0], Start, Origin)
  BY DEF Init, f
<1>5. frames \in Seq(Registers) /\ Len(frames) = 1 /\ frames[1] = f
  BY <1>2, <1>4
<1>6. Callee(1) = Start /\ Caller(1) = Origin
  BY <1>1, <1>2, <1>5, FunctionOf DEF Callee, Caller
<1>7. /\ mem \in [Words -> Address]
      /\ mem[Origin.sp - Word] = Origin.pc
      /\ Start.kind \in {"fp", "saves"} => mem[Origin.sp - 2 * Word] = Origin.fp
  <2>1. Origin.pc \in Address /\ Origin.fp \in Address /\ 0 \in Address
    BY SpaceAssumption DEF Origin, Address
  <2>2. Origin.sp - Word # Origin.sp - 2 * Word
    BY <1>1
  <2> QED
    BY <1>1, <1>3, <1>4, <2>1, <2>2 DEF FrameMem
<1>8. Built(1) /\ Stored(1) /\ InStack(1)
  BY <1>1, <1>3, <1>5, <1>6, <1>7 DEF Built, Stored, InStack, f
<1>9. 1..Len(frames) = {1} /\ MaxCalls \in Nat \ {0}
  BY <1>5, SpaceAssumption
<1> QED
  BY <1>2, <1>5, <1>7, <1>8, <1>9, SpaceAssumption DEF Framed, Registers, Address

\* The frames of a sequence that agrees with frames up to some length.
LEMMA Same ==
  ASSUME NEW i \in Nat \ {0}, frames'[i] = frames[i],
         i > 1 => frames'[i - 1] = frames[i - 1],
         mem'[Caller(i).sp - Word] = mem[Caller(i).sp - Word] \/ Callee(i).kind = "part",
         \/ mem'[Caller(i).sp - 2 * Word] = mem[Caller(i).sp - 2 * Word]
         \/ Callee(i).kind \notin {"fp", "saves"}
  PROVE  /\ Caller(i)' = Caller(i) /\ Callee(i)' = Callee(i)
         /\ Built(i) => Built(i)'
         /\ InStack(i) => InStack(i)'
         /\ Stored(i) => Stored(i)'
<1>1. Caller(i)' = Caller(i) /\ Callee(i)' = Callee(i)
  BY DEF Caller, Callee
<1> QED
  BY <1>1 DEF Built, InStack, Stored

LEMMA EnterFrames ==
  ASSUME Framed, NEW g \in Functions, Enter(g)
  PROVE  Framed'
<1>0. PICK n \in Nat : n = Len(frames)
  BY LenProperties DEF Framed
<1> DEFINE f == Frame(g, Top)
<1>1. /\ n \in 1..MaxCalls /\ n < MaxCalls /\ MaxCalls \in Nat
      /\ Top = frames[n] /\ frames[n] \in Registers /\ InStack(n)
      /\ StackBase \in Nat /\ StackLow \in Nat /\ Word \in Nat \ {0}
  BY <1>0, FrameFacts, SpaceAssumption DEF Framed, Enter, Top, Last
<1>2. /\ f.sp >= StackLow /\ Top.pc \in Callers
      /\ g.kind = "part" => Top.pc = g.pc + g.by
      /\ frames' = Append(frames, f)
      /\ mem' = FrameMem(mem, g, Top)
  BY DEF Enter
<1>3. /\ f \in Registers /\ f.pc = g.pc
  BY <1>1, <1>2, FrameEffect
<1>4. /\ f.sp <= Top.sp /\ f.sp % Word = 0
      /\ g.kind # "part" => Top.sp - Word \in Words
      /\ g.kind \in {"fp", "saves"} => Top.sp - 2 * Word \in Words
  BY <1>1, <1>2, Slots DEF InStack
<1>5. /\ frames' \in Seq(Registers) /\ Len(frames') = n + 1
      /\ \A i \in 1..n : frames'[i] = frames[i]
      /\ frames'[n + 1] = f
  <2> HIDE DEF f
  <2> QED
    BY <1>0, <1>2, <1>3, AppendProperties DEF Framed
<1>6. /\ mem' \in [Words -> Address]
      /\ \A a \in Words : a >= Top.sp => mem'[a] = mem[a]
      /\ g.kind # "part" => mem'[Top.sp - Word] = Top.pc
      /\ g.kind \in {"fp", "saves"} => mem'[Top.sp - 2 * Word] = Top.fp
  <2>1. Top.pc \in Address /\ Top.fp \in Address /\ Top.sp \in Nat
    BY <1>1 DEF Registers, Address
  <2>2. /\ Top.sp - Word # Top.sp - 2 * Word
        /\ Top.sp - Word < Top.sp /\ Top.sp - 2 * Word < Top.sp
    BY <1>1, <2>1
  <2>3. mem \in [Words -> Address] /\ Words \subseteq Int
    BY SpaceAssumption DEF Framed, Words
  <2>4. mem' \in [Words -> Address]
    BY <1>2, <2>1, <2>3 DEF FrameMem
  <2>5. ASSUME NEW a \in Words, a >= Top.sp PROVE mem'[a] = mem[a]
    <3>1. a # Top.sp - Word /\ a # Top.sp - 2 * Word
      BY <2>1, <2>2, <2>3, <2>5
    <3> QED
      BY <1>2, <2>3, <3>1 DEF FrameMem
  <2>6. g.kind # "part" => mem'[Top.sp - Word] = Top.pc
    BY <1>2, <1>4, <2>2, <2>3 DEF FrameMem
  <2>7. g.kind \in {"fp", "saves"} => mem'[Top.sp - 2 * Word] = Top.fp
    BY <1>2, <1>4, <2>2, <2>3 DEF FrameMem
  <2> QED
    BY <2>4, <2>5, <2>6, <2>7
<1> HIDE DEF f
<1>7. ASSUME NEW i \in 1..n
      PROVE  Built(i)' /\ InStack(i)' /\ Stored(i)'
  <2>1. /\ Built(i) /\ InStack(i) /\ Stored(i)
        /\ Callee(i).kind # "part" => /\ Caller(i).sp - Word \in Words
                                      /\ frames[i].sp <= Caller(i).sp - Word
        /\ Callee(i).kind \in {"fp", "saves"} =>
             /\ Caller(i).sp - 2 * Word \in Words
             /\ frames[i].sp <= Caller(i).sp - 2 * Word
        /\ Caller(i) \in Registers /\ frames[i] \in Registers
    BY <1>0, FrameFacts
  <2>2. Top.sp <= frames[i].sp
    BY <1>0, <1>1 DEF Framed
  <2>3. /\ Words \subseteq Int /\ Word \in Int
        /\ Top.sp \in Int /\ frames[i].sp \in Int /\ Caller(i).sp \in Int
    BY <1>1, <2>1, WordsInt, RegisterTypes
  <2>4. /\ mem'[Caller(i).sp - Word] = mem[Caller(i).sp - Word] \/ Callee(i).kind = "part"
        /\ \/ mem'[Caller(i).sp - 2 * Word] = mem[Caller(i).sp - 2 * Word]
           \/ Callee(i).kind \notin {"fp", "saves"}
    BY <1>6, <2>1, <2>2, <2>3
  <2>5. frames'[i] = frames[i] /\ (i > 1 => frames'[i - 1] = frames[i - 1])
    BY <1>5
  <2> QED
    BY <2>1, <2>4, <2>5, Same
<1>8. Built(n + 1)' /\ InStack(n + 1)' /\ Stored(n + 1)'
  <2>1. Caller(n + 1)' = Top
    <3>1. n + 1 # 1 /\ (n + 1) - 1 = n /\ frames'[n] = frames[n]
      BY <1>1, <1>5
    <3> QED
      BY <1>1, <3>1 DEF Caller
  <2>2. Callee(n + 1)' = g
    BY <1>3, <1>5, FunctionOf DEF Callee
  <2>3. f.sp <= StackBase /\ StackLow <= f.sp
    BY <1>1, <1>2, <1>3, <1>4, RegisterTypes DEF InStack
  <2>4. InStack(n + 1)'
    BY <1>4, <1>5, <2>3 DEF InStack
  <2>5. Built(n + 1)'
    <3>1. f = Frame(g, Top)
      BY DEF f
    <3> QED
      BY <1>1, <1>2, <1>5, <2>1, <2>2, <3>1 DEF Built
  <2>6. Stored(n + 1)'
    BY <1>6, <2>1, <2>2 DEF Stored
  <2> QED
    BY <2>4, <2>5, <2>6
<1>9. ASSUME NEW i \in 1..(n + 1), NEW j \in 1..(n + 1), i <= j
      PROVE  frames'[j].sp <= frames'[i].sp
  <2>1. CASE j <= n
    BY <1>0, <1>5, <1>9, <2>1 DEF Framed
  <2>2. CASE j = n + 1 /\ i <= n
    <3>1. frames[n].sp <= frames[i].sp /\ frames[i] \in Registers
      BY <1>0, <1>1, <2>2, ElementOfSeq DEF Framed
    <3>2. frames'[j] = f /\ frames'[i] = frames[i] /\ f.sp <= frames[n].sp
      BY <1>1, <1>4, <1>5, <2>2
    <3> QED
      BY <1>1, <1>3, <3>1, <3>2, RegisterTypes
  <2>3. CASE i = n + 1
    BY <1>3, <1>5, <1>9, <2>3 DEF Registers, Address
  <2> QED
    BY <1>1, <1>9, <2>1, <2>2, <2>3
<1>10. ASSUME NEW i \in 1..(n + 1) PROVE Built(i)' /\ InStack(i)' /\ Stored(i)'
  <2>1. i \in 1..n \/ i = n + 1
    BY <1>1
  <2> QED
    BY <2>1, <1>7, <1>8
<1>11. Len(frames') \in 1..MaxCalls /\ 1..Len(frames') = 1..(n + 1)
  BY <1>1, <1>5
<1> QED
  BY <1>5, <1>6, <1>9, <1>10, <1>11 DEF Framed

\* The callback and its caller return; the frames below have not changed.
LEMMA PopFrames ==
  ASSUME Framed, Len(frames) >= 3, PopCallback
  PROVE  /\ Framed'
         /\ Len(frames') = Len(frames) - 2
         /\ \A i \in 1..Len(frames') : frames'[i] = frames[i]
<1> DEFINE n == Len(frames)
           kept == SubSeq(frames, 1, n - 2)
<1>1. n \in Nat /\ n <= MaxCalls /\ frames \in Seq(Registers) /\ MaxCalls \in Nat
  BY SpaceAssumption DEF Framed
<1>2. /\ kept \in Seq(Registers) /\ Len(kept) = n - 2
      /\ \A i \in 1..(n - 2) : kept[i] = frames[i]
  BY <1>1, SubSeqProperties
<1>3. frames' = kept /\ mem' = [a \in Words |-> IF a < Last(kept).sp THEN 0 ELSE mem[a]]
  BY DEF PopCallback
<1> HIDE DEF kept
<1>4. Last(kept) = frames[n - 2] /\ frames[n - 2] \in Registers
  BY <1>1, <1>2, ElementOfSeq DEF Last
<1>5. /\ mem' \in [Words -> Address]
      /\ \A a \in Words : a >= frames[n - 2].sp => mem'[a] = mem[a]
  <2>1. mem \in [Words -> Address] /\ Words \subseteq Int /\ 0 \in Address
    BY SpaceAssumption DEF Framed, Words, Address
  <2> QED
    BY <1>3, <1>4, <2>1 DEF Registers, Address
<1>6. ASSUME NEW i \in 1..(n - 2)
      PROVE  Built(i)' /\ InStack(i)' /\ Stored(i)'
  <2>0. i \in 1..n /\ n - 2 \in 1..n
    BY <1>1
  <2>1. /\ Built(i) /\ InStack(i) /\ Stored(i)
        /\ Callee(i).kind # "part" => /\ Caller(i).sp - Word \in Words
                                      /\ frames[i].sp <= Caller(i).sp - Word
        /\ Callee(i).kind \in {"fp", "saves"} =>
             /\ Caller(i).sp - 2 * Word \in Words
             /\ frames[i].sp <= Caller(i).sp - 2 * Word
        /\ Caller(i) \in Registers /\ frames[i] \in Registers
    BY <2>0, FrameFacts
  <2>2. frames[n - 2].sp <= frames[i].sp
    BY <1>6, <2>0 DEF Framed
  <2>3. /\ Words \subseteq Int /\ Word \in Int
        /\ frames[n - 2].sp \in Int /\ frames[i].sp \in Int /\ Caller(i).sp \in Int
    BY <1>4, <2>1, WordsInt, RegisterTypes
  <2>4. /\ mem'[Caller(i).sp - Word] = mem[Caller(i).sp - Word] \/ Callee(i).kind = "part"
        /\ \/ mem'[Caller(i).sp - 2 * Word] = mem[Caller(i).sp - 2 * Word]
           \/ Callee(i).kind \notin {"fp", "saves"}
    BY <1>5, <2>1, <2>2, <2>3, SMTT(30)
  <2>5. frames'[i] = frames[i] /\ (i > 1 => frames'[i - 1] = frames[i - 1])
    BY <1>1, <1>2, <1>3
  <2> QED
    BY <2>1, <2>4, <2>5, Same
<1>7. \A i, j \in 1..(n - 2) : i <= j => frames'[j].sp <= frames'[i].sp
  BY <1>1, <1>2, <1>3 DEF Framed
<1>8. /\ Len(frames') = n - 2 /\ Len(frames') \in 1..MaxCalls
      /\ 1..Len(frames') = 1..(n - 2) /\ frames' \in Seq(Registers)
      /\ \A i \in 1..(n - 2) : frames'[i] = frames[i]
  BY <1>1, <1>2, <1>3
<1>9. Framed'
  BY <1>5, <1>6, <1>7, <1>8 DEF Framed
<1> QED
  BY <1>8, <1>9

-----------------------------------------------------------------------------
(* The walker.                                                               *)

WalkerTyped ==
  /\ corrupt \in BOOLEAN /\ exact \in BOOLEAN
  /\ at \in {"idle", "walk", "step", "fp", "pc", "save", "saved", "done"}
  /\ sc \in Registers /\ saved \in Registers
  /\ left \in 0..2
  /\ depth \in 0..MaxDepth
  /\ callchain \in Seq(Address) /\ Len(callchain) = depth
  /\ trap \in Address
  /\ process \in {"running", "forwarded", "killed", "astray"}

\* The steps of async_cgo_context come before any chain, and its frame and the
\* two above it are there until the registers are saved.
Phase ==
  /\ left > 0 => at \in {"step", "fp", "pc"} /\ depth = 0
  /\ left > 0 \/ at = "save" => Len(frames) >= 3
  /\ at \in {"idle", "save", "saved"} => depth = 0

\* How far a walk of a chain can be from where it began.
Bounded ==
  left = 0 =>
    /\ at \in {"walk", "fp", "pc"} =>
         saved.sp <= sc.sp /\ sc.sp - saved.sp <= depth * MAX_FRAME_SIZE
    /\ at = "step" =>
         depth > 0 /\ saved.sp <= sc.sp /\ sc.sp - saved.sp <= (depth - 1) * MAX_FRAME_SIZE

\* Where the process may be when it faults: at the access of load, or outside of
\* the window of pcs the handler takes for load.
Trapped ==
  /\ trap # NoTrap =>
       \/ at \in {"fp", "pc"} /\ LoadAddress \notin Words /\ trap \in LoadPcs
       \/ at = "idle" /\ ~InLoad(trap)
  /\ process # "running" => at = "idle" /\ process # "astray" /\ trap = NoTrap

\* The tables describe the last d frames.
Good(d) ==
  /\ d <= Len(frames)
  /\ \A j \in 1..d : Described(Len(frames) + 1 - j, frames[Len(frames) + 1 - j].sp)

\* The frame a step begins at.
Current ==
  IF left = 2 THEN Len(frames) ELSE IF left = 1 THEN Len(frames) - 1
  ELSE Len(frames) + 1 - depth

\* A step of the walker has of frame i, and of its caller, what it should.
OnTrack(i) ==
  /\ i \in 1..Len(frames)
  /\ at = "step" =>
       sc = [frames[i] EXCEPT !.sp = IF left = 2 THEN PopulatedSp ELSE frames[i].sp]
  /\ at = "fp" =>
       /\ Callee(i).kind \in {"fp", "saves"}
       /\ sc = [frames[i] EXCEPT !.sp = Caller(i).sp]
  /\ at = "pc" =>
       /\ Callee(i).kind # "part"
       /\ sc = [Caller(i) EXCEPT !.pc = frames[i].pc]

\* The frames the first two steps begin at are described.
ContextDescribed ==
  /\ left = 2 => Callee(Len(frames)).kind = "fp" /\ Described(Len(frames), PopulatedSp)
  /\ left > 0 => Described(Len(frames) - 1, frames[Len(frames) - 1].sp)

ChainTrue ==
  \A i \in 1..depth :
    Good(i - 1) => i <= Len(frames) /\ callchain[i] = frames[Len(frames) + 1 - i].pc

\* As long as the frames are described the walker is on the true stack.
Tracked ==
  ~corrupt /\ exact =>
    /\ ContextDescribed
    /\ at \in {"step", "fp", "pc"} /\ (left = 0 => Good(depth)) => OnTrack(Current)
    /\ at = "walk" /\ Good(depth) => depth < Len(frames) /\ sc = frames[Len(frames) - depth]
    /\ at = "save" => sc = frames[Len(frames) - 2]
    /\ at = "saved" => saved = Top
    /\ ChainTrue
    /\ at = "done" /\ Good(Len(frames)) => depth = Min({Len(frames), MaxDepth})

IInv == Framed /\ WalkerTyped /\ Phase /\ Bounded /\ Trapped /\ Tracked

Control == WalkerTyped /\ Phase /\ Bounded /\ Trapped

-----------------------------------------------------------------------------
(* Types, phases and bounds.                                                 *)

LEMMA ReturnedEffect ==
  ASSUME left \in 0..2, Returned(TRUE) \/ Returned(FALSE)
  PROVE  /\ \/ left = 2 /\ left' = 1 /\ at' = "step"
            \/ left = 1 /\ left' = 0 /\ at' = "save"
            \/ left = 0 /\ left' = 0 /\ at' \in {"walk", "done"}
         /\ Returned(TRUE) => at' # "done"
         /\ Returned(FALSE) => at' # "walk"
<1>1. CASE left = 2
  BY <1>1 DEF Returned
<1>2. CASE left = 1
  BY <1>2 DEF Returned
<1>3. CASE left = 0
  BY <1>3 DEF Returned
<1>4. left = 0 \/ left = 1 \/ left = 2
  OBVIOUS
<1> QED
  BY <1>1, <1>2, <1>3, <1>4

LEMMA ReturnedEither ==
  ASSUME NEW ok \in BOOLEAN, Returned(ok)
  PROVE  (ok /\ Returned(TRUE)) \/ (~ok /\ Returned(FALSE))
OBVIOUS

LEMMA ScWithSp ==
  ASSUME NEW r \in Registers, NEW a \in Address, NEW b \in Address
  PROVE  /\ [r EXCEPT !.sp = a] \in Registers
         /\ [r EXCEPT !.sp = a].sp = a
         /\ [r EXCEPT !.sp = a].pc = r.pc /\ [r EXCEPT !.sp = a].fp = r.fp
         /\ [[r EXCEPT !.sp = a] EXCEPT !.pc = b] \in Registers
         /\ [[r EXCEPT !.sp = a] EXCEPT !.pc = b].sp = a
BY DEF Registers

LEMMA ScWithValue ==
  ASSUME NEW r \in Registers, NEW a \in Address
  PROVE  /\ [r EXCEPT !.fp = a] \in Registers /\ [r EXCEPT !.fp = a].sp = r.sp
         /\ [r EXCEPT !.pc = a] \in Registers /\ [r EXCEPT !.pc = a].sp = r.sp
BY DEF Registers

LEMMA NextSpType ==
  ASSUME sc \in Registers, NEW f \in Rules, f.reg # "none"
  PROVE  NextSp(f) \in Address
<1>1. /\ f.off \in Int /\ f.reg \in {"sp", "fp", "plt"}
      /\ sc.sp \in Int /\ sc.fp \in Int
  BY RegisterTypes DEF Rules, Registers, Address
<1>2. Pushed(sc.pc) \in {0, 1}
  BY DEF Pushed
<1>3. /\ sc.sp + f.off \in Int /\ sc.fp + f.off \in Int
      /\ sc.sp + f.off * (1 + Pushed(sc.pc)) \in Int
  BY <1>1, <1>2
<1>4. /\ Wrap(sc.sp + f.off) \in Address /\ Wrap(sc.fp + f.off) \in Address
      /\ Wrap(sc.sp + f.off * (1 + Pushed(sc.pc))) \in Address
  BY <1>3, WrapType
<1> QED
  BY <1>1, <1>4 DEF NextSp

\* An accepted frame is above the last one, by less than a frame size.
LEMMA AcceptedNear ==
  ASSUME sc \in Registers, NEW sp \in Address, Accepted(sp)
  PROVE  sc.sp <= sp /\ sp - sc.sp <= MAX_FRAME_SIZE
<1>1. sc.sp \in Nat /\ MAX_FRAME_SIZE \in Nat /\ sp \in Int
  BY RegisterTypes, SpaceAssumption DEF Address
<1>2. Wrap(sc.sp + MAX_FRAME_SIZE) <= sc.sp + MAX_FRAME_SIZE
  BY <1>1, WrapLow
<1>3. Wrap(sc.sp + MAX_FRAME_SIZE) \in Int
  BY <1>1, WrapType DEF Address
<1> QED
  BY <1>1, <1>2, <1>3 DEF Accepted

\* One more frame is at most one frame size more.
LEMMA OneFrame ==
  ASSUME NEW d \in Nat \ {0}, NEW a \in Int, NEW b \in Int, NEW c \in Int,
         b - a <= (d - 1) * MAX_FRAME_SIZE, c - b <= MAX_FRAME_SIZE
  PROVE  c - a <= d * MAX_FRAME_SIZE
<1>1. MAX_FRAME_SIZE \in Nat
  BY SpaceAssumption
<1>2. d * MAX_FRAME_SIZE = (d - 1) * MAX_FRAME_SIZE + MAX_FRAME_SIZE
  BY <1>1
<1>3. (d - 1) * MAX_FRAME_SIZE \in Int
  BY <1>1
<1> QED
  BY <1>1, <1>2, <1>3

\* What a step of the walker does before its loads.
LEMMA StepEffect ==
  ASSUME WalkerTyped, Step
  PROVE  /\ at = "step" /\ sc' \in Registers
         /\ UNCHANGED <<program, depth, callchain, saved, exact, trap, process>>
         /\ \/ Returned(FALSE)
            \/ /\ Returned(TRUE) \/ (at' \in {"fp", "pc"} /\ left' = left)
               /\ sc.sp <= sc'.sp /\ sc'.sp - sc.sp <= MAX_FRAME_SIZE
<1> DEFINE f == FrameDescAt(sc.pc)
           sp == NextSp(f)
           next == [sc EXCEPT !.sp = sp]
           pc == Wrap(sc.pc + f.by)
<1>1. sc \in Registers /\ f \in Rules /\ f.by \in Int /\ sc.pc \in Int
  BY FrameDescType, RegisterTypes DEF WalkerTyped, Rules, Address
<1>2. pc \in Address
  BY <1>1, WrapType
<1>3. /\ at = "step"
      /\ UNCHANGED <<program, depth, callchain, saved, exact, trap, process>>
      /\ \/ f.reg = "none" /\ Returned(FALSE) /\ UNCHANGED sc
         \/ f.reg # "none" /\ ~Accepted(next.sp) /\ sc' = next /\ Returned(FALSE)
         \/ /\ f.reg # "none" /\ Accepted(next.sp) /\ f.how = "pc"
            /\ sc' = [next EXCEPT !.pc = pc]
            /\ Returned(ValidPc(pc))
         \/ /\ f.reg # "none" /\ Accepted(next.sp) /\ f.how # "pc"
            /\ sc' = next
            /\ at' = IF LoadsFp(f) THEN "fp" ELSE "pc"
            /\ UNCHANGED left
  BY DEF Step
<1> HIDE DEF f, sp, pc
<1>4. CASE f.reg = "none"
  BY <1>1, <1>3, <1>4
<1>5. CASE f.reg # "none"
  <2>1. sp \in Address
    BY <1>1, <1>5, NextSpType DEF sp
  <2>2. /\ next \in Registers /\ next.sp = sp
        /\ [next EXCEPT !.pc = pc] \in Registers /\ [next EXCEPT !.pc = pc].sp = sp
    BY <1>1, <1>2, <2>1, ScWithSp
  <2>3. Accepted(sp) => sc.sp <= sp /\ sp - sc.sp <= MAX_FRAME_SIZE
    BY <1>1, <2>1, AcceptedNear
  <2>4. Returned(ValidPc(pc)) => Returned(TRUE) \/ Returned(FALSE)
    <3>1. ValidPc(pc) \in BOOLEAN
      BY DEF ValidPc
    <3> QED
      BY <3>1, ReturnedEither
  <2> HIDE DEF next
  <2> QED
    BY <1>3, <1>5, <2>2, <2>3, <2>4
<1> QED
  BY <1>4, <1>5

LEMMA StepControl ==
  ASSUME Framed, Control, Step
  PROVE  Control'
<1>1. /\ at = "step" /\ sc' \in Registers
      /\ frames' = frames /\ mem' = mem /\ corrupt' = corrupt
      /\ depth' = depth /\ callchain' = callchain /\ saved' = saved
      /\ exact' = exact /\ trap' = trap /\ process' = process
  BY StepEffect DEF Control, program
<1>2. WalkerTyped /\ Phase /\ Bounded /\ Trapped
  BY DEF Control
<1>3. \/ left' = left /\ at' \in {"fp", "pc"}
      \/ left = 2 /\ left' = 1 /\ at' = "step"
      \/ left = 1 /\ left' = 0 /\ at' = "save"
      \/ left = 0 /\ left' = 0 /\ at' \in {"walk", "done"}
  <2>1. left \in 0..2
    BY <1>2 DEF WalkerTyped
  <2> QED
    BY <1>2, <2>1, StepEffect, ReturnedEffect
<1>4. WalkerTyped'
  BY <1>1, <1>2, <1>3 DEF WalkerTyped
<1>5. Phase'
  BY <1>1, <1>2, <1>3 DEF Phase, WalkerTyped
<1>6. Trapped'
  BY <1>1, <1>2 DEF Trapped, WalkerTyped
<1>7. ASSUME left' = 0, at' \in {"walk", "fp", "pc"}
      PROVE  saved'.sp <= sc'.sp /\ sc'.sp - saved'.sp <= depth' * MAX_FRAME_SIZE
  <2>1. left = 0
    BY <1>2, <1>3, <1>7 DEF WalkerTyped
  <2>2. sc.sp <= sc'.sp /\ sc'.sp - sc.sp <= MAX_FRAME_SIZE
    <3>1. left \in 0..2
      BY <2>1
    <3> QED
      BY <1>2, <1>7, <3>1, StepEffect, ReturnedEffect
  <2>3. /\ depth \in Nat \ {0} /\ saved.sp <= sc.sp
        /\ sc.sp - saved.sp <= (depth - 1) * MAX_FRAME_SIZE
    BY <1>1, <1>2, <2>1 DEF Bounded, WalkerTyped
  <2>4. saved.sp \in Int /\ sc.sp \in Int /\ sc'.sp \in Int
    BY <1>1, <1>2, RegisterTypes DEF WalkerTyped
  <2> QED
    BY <1>1, <2>2, <2>3, <2>4, OneFrame
<1>8. Bounded'
  BY <1>3, <1>7 DEF Bounded
<1> QED
  BY <1>4, <1>5, <1>6, <1>8 DEF Control

LEMMA ContentsType ==
  ASSUME Framed, NEW a
  PROVE  Contents(a) \subseteq Address
BY ProgramAssumption DEF Framed, Contents, Address

\* The handler takes the accesses of load, and no pc of a function, for load; it
\* knows the length of those accesses.
LEMMA Recognised ==
  /\ \A pc \in LoadPcs : /\ pc \in Address /\ pc # NoTrap /\ InLoad(pc)
                          /\ skipFaultInstruction(pc) = MovLength
  /\ \A g \in Functions : g.pc \in Address /\ ~InLoad(g.pc)
<1>1. /\ LoadAt \in Nat /\ Space \in Nat \ {0} /\ LoadAt + 16 <= Space
  BY LoadAssumption, SpaceAssumption DEF LoadWindow
<1>2. ASSUME NEW pc \in LoadPcs
      PROVE  /\ pc \in Address /\ pc # NoTrap /\ InLoad(pc)
             /\ skipFaultInstruction(pc) = MovLength
  <2>1. pc \in Nat \ {0} /\ LoadAt <= pc /\ pc < LoadAt + 16 /\ pc \in LoadInsns
    BY LoadAssumption DEF LoadWindow
  <2>2. pc - LoadAt \in Address /\ pc \in Address /\ pc - LoadAt < 16
    BY <1>1, <2>1 DEF Address
  <2> QED
    BY <2>1, <2>2, WrapSmall DEF InLoad, LoadWindow, skipFaultInstruction, NoTrap
<1>3. ASSUME NEW g \in Functions
      PROVE  g.pc \in Address /\ ~InLoad(g.pc)
  <2>1. /\ g.pc \in Nat /\ g.pc < Space
        /\ g.pc < LoadAt \/ LoadAt + 16 <= g.pc
    BY LoadAssumption, ProgramAssumption, SpaceAssumption DEF LoadWindow, Function
  <2>2. CASE LoadAt + 16 <= g.pc
    <3>1. g.pc - LoadAt \in Address /\ g.pc - LoadAt >= 16
      BY <1>1, <2>1, <2>2 DEF Address
    <3>2. Wrap(g.pc - LoadAt) = g.pc - LoadAt
      BY <3>1, WrapSmall
    <3> QED
      BY <1>1, <2>1, <3>1, <3>2 DEF InLoad, LoadWindow, Address
  <2>3. CASE g.pc < LoadAt
    <3>1. /\ g.pc - LoadAt + Space \in 16..(Space - 1) /\ g.pc - LoadAt \in Int
      BY <1>1, <2>1, <2>3
    <3>2. (g.pc - LoadAt) % Space = g.pc - LoadAt + Space
      BY <1>1, <3>1
    <3> QED
      BY <1>1, <2>1, <3>1, <3>2 DEF InLoad, LoadWindow, Wrap, Address
  <2> QED
    BY <2>1, <2>2, <2>3
<1> QED
  BY <1>2, <1>3

\* What segv_handler does: a load it skips returns 0, and every other fault is
\* passed on.
LEMMA Handled ==
  ASSUME Control, segv_handler
  PROVE  /\ trap' = NoTrap
         /\ \/ /\ at \in {"fp", "pc"} /\ LoadAddress \notin Words /\ Loaded(0)
               /\ process = "running"
               /\ UNCHANGED <<program, depth, callchain, saved, exact, process>>
            \/ at = "idle" /\ PassOn
<1>1. Trapped /\ trap # NoTrap /\ trap' = NoTrap
  BY DEF Control, segv_handler
<1>2. CASE InLoad(trap)
  <2>1. /\ at \in {"fp", "pc"} /\ LoadAddress \notin Words /\ trap \in LoadPcs
        /\ process = "running"
    BY <1>1, <1>2 DEF Trapped
  <2>2. /\ Resume(trap + skipFaultInstruction(trap))
        /\ UNCHANGED <<program, depth, callchain, saved, exact>>
    BY <1>2 DEF segv_handler
  <2>3. trap \in Nat /\ skipFaultInstruction(trap) = 3 /\ MovLength = 3
    BY <2>1, Recognised DEF Address, MovLength
  <2>4. Loaded(0) /\ UNCHANGED process
    BY <2>1, <2>2, <2>3 DEF Resume
  <2> QED
    BY <1>1, <2>1, <2>2, <2>4
<1>3. CASE ~InLoad(trap)
  <2>1. at = "idle"
    BY <1>1, <1>3, Recognised DEF Trapped
  <2> QED
    BY <1>1, <1>3, <2>1 DEF segv_handler
<1> QED
  BY <1>2, <1>3

\* A load that returns a value: the stack pointer stays.
LEMMA LoadedControl ==
  ASSUME Framed, Control, NEW v \in Address, Loaded(v), trap' = NoTrap,
         process = "running",
         UNCHANGED <<program, depth, callchain, saved, exact, process>>
  PROVE  Control'
<1>1. WalkerTyped /\ Phase /\ Bounded /\ Trapped
  BY DEF Control
<1>2. /\ at \in {"fp", "pc"}
      /\ \/ sc' = [sc EXCEPT !.fp = v] /\ at' = "pc" /\ left' = left
         \/ sc' = [sc EXCEPT !.pc = v] /\ Returned(ValidPc(v))
  BY DEF Loaded
<1>3. sc' \in Registers /\ sc'.sp = sc.sp
  BY <1>1, <1>2, ScWithValue DEF WalkerTyped
<1>4. ValidPc(v) \in BOOLEAN
  BY DEF ValidPc
<1>5. \/ left' = left /\ at' \in {"fp", "pc"}
      \/ left = 2 /\ left' = 1 /\ at' = "step"
      \/ left = 1 /\ left' = 0 /\ at' = "save"
      \/ left = 0 /\ left' = 0 /\ at' \in {"walk", "done"}
  <2>1. Returned(ValidPc(v)) => Returned(TRUE) \/ Returned(FALSE)
    BY <1>4, ReturnedEither
  <2>2. left \in 0..2
    BY <1>1 DEF WalkerTyped
  <2> QED
    BY <1>2, <2>1, <2>2, ReturnedEffect
<1>6. /\ frames' = frames /\ mem' = mem /\ corrupt' = corrupt
      /\ depth' = depth /\ callchain' = callchain /\ saved' = saved
      /\ exact' = exact /\ process' = process
  BY DEF program
<1>7. WalkerTyped'
  <2>1. trap' \in Address
    BY SpaceAssumption DEF NoTrap, Address
  <2> QED
    BY <1>1, <1>3, <1>5, <1>6, <2>1 DEF WalkerTyped
<1>8. Phase'
  BY <1>1, <1>2, <1>5, <1>6 DEF Phase, WalkerTyped
<1>9. Trapped'
  BY <1>6 DEF Trapped
<1>10. Bounded'
  BY <1>1, <1>2, <1>3, <1>5, <1>6 DEF Bounded, WalkerTyped
<1> QED
  BY <1>7, <1>8, <1>9, <1>10 DEF Control

LEMMA LoadControl ==
  ASSUME Framed, Control, Load
  PROVE  Control'
<1>1. WalkerTyped /\ Phase /\ Bounded /\ Trapped
  BY DEF Control
<1>2. /\ at \in {"fp", "pc"} /\ trap = NoTrap
      /\ UNCHANGED <<program, depth, callchain, saved, exact, process>>
      /\ \/ trap' = trap /\ \E v \in Contents(LoadAddress) : Loaded(v)
         \/ /\ LoadAddress \notin Words /\ trap' \in LoadPcs
            /\ at' = at /\ sc' = sc /\ left' = left
  BY DEF Load
<1>3. process = "running"
  BY <1>1, <1>2 DEF Trapped
<1>4. CASE trap' = trap /\ \E v \in Contents(LoadAddress) : Loaded(v)
  <2>1. PICK v \in Contents(LoadAddress) : Loaded(v)
    BY <1>4
  <2>2. v \in Address
    BY ContentsType
  <2> QED
    BY <1>2, <1>3, <1>4, <2>1, <2>2, LoadedControl
<1>5. CASE LoadAddress \notin Words /\ trap' \in LoadPcs /\ at' = at /\ sc' = sc /\ left' = left
  <2>1. /\ frames' = frames /\ mem' = mem /\ corrupt' = corrupt
        /\ depth' = depth /\ callchain' = callchain /\ saved' = saved
        /\ exact' = exact /\ process' = process
    BY <1>2 DEF program
  <2>2. LoadAddress' = LoadAddress
    BY <1>5 DEF LoadAddress
  <2>3. WalkerTyped' /\ Phase' /\ Bounded'
    BY <1>1, <1>5, <2>1, Recognised DEF WalkerTyped, Phase, Bounded
  <2>4. Trapped'
    BY <1>2, <1>3, <1>5, <2>1, <2>2 DEF Trapped
  <2> QED
    BY <2>3, <2>4 DEF Control
<1> QED
  BY <1>2, <1>4, <1>5

LEMMA HandlerControl ==
  ASSUME Framed, Control, segv_handler
  PROVE  Control'
<1>1. WalkerTyped /\ Phase /\ Bounded /\ Trapped
  BY DEF Control
<1>2. trap' = NoTrap /\ 0 \in Address
  BY Handled, SpaceAssumption DEF Address
<1>3. CASE /\ Loaded(0) /\ process = "running"
           /\ UNCHANGED <<program, depth, callchain, saved, exact, process>>
  BY <1>2, <1>3, LoadedControl
<1>4. CASE at = "idle" /\ PassOn
  <2>1. /\ frames' = frames /\ mem' = mem /\ corrupt' = corrupt
        /\ at' = at /\ sc' = sc /\ left' = left
        /\ depth' = depth /\ callchain' = callchain /\ saved' = saved
        /\ exact' = exact /\ process' \in {"forwarded", "killed"}
    BY <1>4 DEF PassOn, program, walker
  <2>2. WalkerTyped' /\ Phase' /\ Bounded'
    BY <1>1, <1>2, <2>1 DEF WalkerTyped, Phase, Bounded, NoTrap
  <2>3. Trapped'
    BY <1>1, <1>2, <1>4, <2>1 DEF Trapped
  <2> QED
    BY <2>2, <2>3 DEF Control
<1> QED
  BY <1>3, <1>4, Handled

LEMMA WalkControl ==
  ASSUME Framed, Control, StackWalk
  PROVE  Control'
<1>1. WalkerTyped /\ Phase /\ Bounded /\ Trapped
  BY DEF Control
<1>2. /\ at = "walk"
      /\ frames' = frames /\ mem' = mem /\ corrupt' = corrupt
      /\ sc' = sc /\ left' = left /\ saved' = saved
      /\ exact' = exact /\ trap' = trap /\ process' = process
      /\ \/ /\ depth < MaxDepth /\ callchain' = Append(callchain, sc.pc)
            /\ depth' = depth + 1 /\ at' = "step"
         \/ at' = "done" /\ callchain' = callchain /\ depth' = depth
  BY DEF StackWalk, program
<1>3. left = 0
  BY <1>1, <1>2 DEF Phase, WalkerTyped
<1>4. WalkerTyped'
  <2>1. sc.pc \in Address /\ MaxDepth \in Nat
    BY <1>1, RegisterTypes, SpaceAssumption DEF WalkerTyped
  <2>2. /\ callchain' \in Seq(Address) /\ Len(callchain') = depth'
        /\ depth' \in 0..MaxDepth
    BY <1>1, <1>2, <2>1, AppendProperties, SMTT(30) DEF WalkerTyped
  <2> QED
    BY <1>1, <1>2, <2>2 DEF WalkerTyped
<1>5. Phase' /\ Trapped'
  BY <1>1, <1>2, <1>3 DEF Phase, Trapped
<1>6. Bounded'
  BY <1>1, <1>2, <1>3 DEF Bounded, WalkerTyped
<1> QED
  BY <1>4, <1>5, <1>6 DEF Control

\* The walks begin at registers of a true frame, or two words below it.
LEMMA BeginControl ==
  ASSUME Framed, Control, WalkInterrupted \/ async_cgo_context \/ WalkContext \/ Return
  PROVE  Control'
<1>1. WalkerTyped /\ Phase /\ Bounded /\ Trapped
  BY DEF Control
<1>2. Top \in Registers /\ InStack(Len(frames)) /\ Top = frames[Len(frames)]
  BY FrameFacts DEF Framed, Top, Last
<1>3. [pc |-> Top.pc, sp |-> PopulatedSp, fp |-> Top.fp] \in Registers
  <2>1. PopulatedSp \in Address
    BY <1>2, SpaceAssumption, RegisterTypes, SMTT(30) DEF PopulatedSp, InStack, Address
  <2> QED
    BY <1>2, <2>1 DEF Registers
<1>4. NoRegs \in Registers
  BY SpaceAssumption DEF NoRegs, Registers, Address
<1>5. /\ frames' = frames /\ mem' = mem /\ corrupt' = corrupt
      /\ trap' = trap /\ process' = process
  BY DEF WalkInterrupted, async_cgo_context, WalkContext, Return, program
<1>6. 0 \in 0..MaxDepth /\ << >> \in Seq(Address) /\ Len(<< >>) = 0
  BY SpaceAssumption, EmptySeq
<1>7. CASE WalkInterrupted
  <2>1. /\ at = "idle" /\ trap = NoTrap /\ process = "running"
        /\ sc' = Top /\ saved' = Top /\ exact' = TRUE /\ at' = "walk"
        /\ left' = left /\ depth' = depth /\ callchain' = callchain
    BY <1>7 DEF WalkInterrupted, Running
  <2>2. WalkerTyped'
    BY <1>1, <1>2, <1>5, <2>1 DEF WalkerTyped
  <2>3. Bounded'
    <3>1. depth = 0 /\ Top.sp - Top.sp = 0 /\ 0 * MAX_FRAME_SIZE = 0 /\ Top.sp <= Top.sp
      BY <1>1, <1>2, <2>1, RegisterTypes, SpaceAssumption, SMTT(30) DEF Phase
    <3> QED
      BY <2>1, <3>1 DEF Bounded
  <2> QED
    BY <1>1, <1>5, <2>1, <2>2, <2>3 DEF Control, Phase, Trapped
<1>8. CASE async_cgo_context
  <2>1. /\ at = "idle" /\ trap = NoTrap /\ process = "running" /\ Len(frames) >= 3
        /\ sc' = [pc |-> Top.pc, sp |-> PopulatedSp, fp |-> Top.fp]
        /\ exact' \in BOOLEAN /\ left' = 2 /\ at' = "step"
        /\ saved' = saved /\ depth' = depth /\ callchain' = callchain
    BY <1>8 DEF async_cgo_context, Running, Described
  <2>2. WalkerTyped'
    BY <1>1, <1>3, <1>5, <2>1 DEF WalkerTyped
  <2> QED
    BY <1>1, <1>5, <2>1, <2>2 DEF Control, Phase, Bounded, Trapped
<1>9. CASE WalkContext
  <2>1. /\ at = "saved" /\ sc' = saved /\ at' = "walk" /\ saved' = saved /\ exact' = exact
        /\ left' = left /\ depth' = depth /\ callchain' = callchain
    BY <1>9 DEF WalkContext
  <2>2. WalkerTyped'
    BY <1>1, <1>5, <2>1 DEF WalkerTyped
  <2>3. Bounded'
    <3>1. depth = 0 /\ saved.sp - saved.sp = 0 /\ 0 * MAX_FRAME_SIZE = 0 /\ saved.sp <= saved.sp
      BY <1>1, <2>1, RegisterTypes, SpaceAssumption DEF Phase, WalkerTyped
    <3> QED
      BY <2>1, <3>1 DEF Bounded
  <2> QED
    BY <1>1, <1>5, <2>1, <2>2, <2>3 DEF Control, Phase, Trapped
<1>10. CASE Return
  <2>1. /\ at = "done" /\ at' = "idle" /\ sc' = NoRegs /\ saved' = NoRegs /\ exact' = TRUE
        /\ left' = left /\ depth' = 0 /\ callchain' = << >>
    BY <1>10 DEF Return
  <2>2. WalkerTyped'
    BY <1>1, <1>4, <1>5, <1>6, <2>1 DEF WalkerTyped
  <2> QED
    BY <1>1, <1>5, <2>1, <2>2 DEF Control, Phase, Bounded, Trapped
<1> QED
  BY <1>7, <1>8, <1>9, <1>10

LEMMA SaveControl ==
  ASSUME Framed, Control, SaveContext
  PROVE  Control'
<1>1. WalkerTyped /\ Phase /\ Bounded /\ Trapped
  BY DEF Control
<1>2. /\ at = "save" /\ saved' = sc /\ at' = "saved"
      /\ corrupt' = corrupt /\ sc' = sc /\ left' = left /\ depth' = depth
      /\ callchain' = callchain /\ exact' = exact /\ trap' = trap /\ process' = process
  BY DEF SaveContext
<1>3. left = 0
  BY <1>1, <1>2 DEF Phase, WalkerTyped
<1> QED
  BY <1>1, <1>2, <1>3 DEF Control, WalkerTyped, Phase, Bounded, Trapped

LEMMA ProgramControl ==
  ASSUME Framed, Control, (\E g \in Functions : Enter(g)) \/ Corrupt \/ CodeFault
  PROVE  Control'
<1>1. WalkerTyped /\ Phase /\ Bounded /\ Trapped
  BY DEF Control
<1>2. /\ at = "idle" /\ trap = NoTrap /\ process = "running" /\ process' = process
      /\ at' = at /\ sc' = sc /\ left' = left /\ depth' = depth
      /\ callchain' = callchain /\ saved' = saved /\ exact' = exact
      /\ corrupt' \in {corrupt, TRUE} /\ trap' \in {NoTrap, Top.pc}
  BY DEF Enter, Corrupt, CodeFault, Running, program, walker
<1>3. Top.pc \in Address /\ ~InLoad(Top.pc)
  BY FrameFacts, Recognised DEF Framed, Top, Last
<1>4. Trapped'
  BY <1>2, <1>3 DEF Trapped
<1>5. WalkerTyped'
  BY <1>1, <1>2, <1>3 DEF WalkerTyped
<1>6. Len(frames') >= 3 \/ (left' = 0 /\ at' = "idle")
  BY <1>1, <1>2 DEF Phase, WalkerTyped
<1> QED
  BY <1>1, <1>2, <1>4, <1>5, <1>6 DEF Control, Phase, Bounded

-----------------------------------------------------------------------------
(* The walk of described frames.                                             *)

\* No pc of a function is an error of a walk; the origin's is.
LEMMA ValidPcs ==
  /\ \A g \in Functions : ValidPc(g.pc)
  /\ ~ValidPc(0)
<1>1. PICK start \in Functions : MIN_VALID_PC <= start.pc /\ start.pc <= Space - MIN_VALID_PC
  BY ProgramAssumption
<1>2. start.pc \in Nat /\ MIN_VALID_PC \in Nat \ {0} /\ Space \in Nat \ {0}
  BY ProgramAssumption, SpaceAssumption DEF Function
<1>3. MIN_VALID_PC \in 1..(Space - 1)
  BY <1>1, <1>2
<1>4. Wrap(-MIN_VALID_PC) = Space - MIN_VALID_PC
  BY <1>2, <1>3 DEF Wrap
<1>5. ASSUME NEW g \in Functions PROVE ValidPc(g.pc)
  BY <1>4, ProgramAssumption DEF ValidPc
<1>6. ~ValidPc(0)
  BY <1>2 DEF ValidPc
<1> QED
  BY <1>5, <1>6

\* The stack pointer of the caller, given by the rule of the function.
LEMMA TrueSp ==
  ASSUME Framed, NEW i \in 1..Len(frames), NEW sp \in Address,
         sc = [frames[i] EXCEPT !.sp = sp],
         sp = frames[i].sp \/ Callee(i).kind = "fp"
  PROVE  NextSp(TrueRule(Callee(i))) = Caller(i).sp
<1> DEFINE g == Callee(i)
           r == Caller(i)
<1>1. /\ g \in Functions /\ r \in Registers /\ frames[i] \in Registers
      /\ frames[i] = Frame(g, r) /\ frames[i].pc = g.pc /\ Frame(g, r).sp >= StackLow
  BY FrameFacts, SpaceAssumption, RegisterTypes DEF Built, InStack
<1>2. sc.sp = sp /\ sc.pc = frames[i].pc /\ sc.fp = frames[i].fp
  BY <1>1, ScWithSp
<1>3. /\ SizeOf(g) \in Nat /\ SizeOf(g) * Word \in Nat
      /\ frames[i].sp = r.sp - SizeOf(g) * Word
      /\ g.kind = "fp" => frames[i].fp = r.sp - 2 * Word
  BY <1>1, FrameEffect
<1>4. Wrap(r.sp) = r.sp /\ r.sp \in Int /\ Word \in Int
  BY <1>1, WrapSmall, RegisterTypes, WordsInt
<1>5. g.kind \in {"fp", "sp", "saves", "plt", "part"} /\ g.locals \in Nat
  BY <1>1, ProgramAssumption DEF Function
<1> HIDE DEF g, r
<1>6. CASE g.kind = "fp"
  <2>1. sc.fp + 2 * Word = r.sp
    BY <1>2, <1>3, <1>4, <1>6
  <2>2. TrueRule(g).reg = "fp" /\ TrueRule(g).off = 2 * Word
    BY <1>6 DEF TrueRule
  <2>3. NextSp(TrueRule(g)) = Wrap(sc.fp + 2 * Word)
    BY <2>2 DEF NextSp
  <2> QED
    BY <1>4, <2>1, <2>3 DEF g, r
<1>7. CASE g.kind \in {"sp", "saves", "part"}
  <2>1. TrueRule(g).reg = "sp" /\ TrueRule(g).off = SizeOf(g) * Word
    <3>1. CASE g.kind = "sp"
      BY <3>1 DEF TrueRule, SizeOf
    <3>2. CASE g.kind = "saves"
      BY <3>2 DEF TrueRule, SizeOf
    <3>3. CASE g.kind = "part"
      BY <1>4, <3>3 DEF TrueRule, SizeOf
    <3> QED
      BY <1>7, <3>1, <3>2, <3>3
  <2>2. NextSp(TrueRule(g)) = Wrap(sc.sp + SizeOf(g) * Word)
    BY <2>1 DEF NextSp
  <2>3. sc.sp + SizeOf(g) * Word = r.sp
    BY <1>2, <1>3, <1>4, <1>7 DEF g
  <2> QED
    BY <1>4, <2>2, <2>3 DEF g, r
<1>8. CASE g.kind = "plt"
  <2>1. TrueRule(g).reg = "plt" /\ TrueRule(g).off = Word
    BY <1>8 DEF TrueRule
  <2>2. NextSp(TrueRule(g)) = Wrap(sc.sp + Word * (1 + Pushed(sc.pc)))
    BY <2>1 DEF NextSp
  <2>3. SizeOf(g) = 1 + Pushed(sc.pc)
    BY <1>1, <1>2, <1>8 DEF SizeOf, g
  <2>4. sc.sp + Word * SizeOf(g) = r.sp
    BY <1>2, <1>3, <1>4, <1>8 DEF g
  <2> QED
    BY <1>4, <2>2, <2>3, <2>4 DEF g, r
<1> QED
  BY <1>5, <1>6, <1>7, <1>8

\* The caller's stack pointer is accepted if its frame is not too large.
LEMMA TrueAccepted ==
  ASSUME Framed, NEW i \in 1..Len(frames), NEW sp \in Address, sc.sp = sp,
         sp <= frames[i].sp, CallerSp(i) - sp < MAX_FRAME_SIZE
  PROVE  Accepted(Caller(i).sp) /\ CallerSp(i) = Caller(i).sp
<1>1. /\ Caller(i) \in Registers /\ frames[i] \in Registers
      /\ frames[i].sp <= Caller(i).sp /\ Caller(i).sp <= StackBase /\ InStack(i)
  BY FrameFacts
<1>2. CallerSp(i) = Caller(i).sp /\ Caller(i).sp % Word = 0
  <2>1. CASE i = 1
    BY <2>1, SpaceAssumption DEF CallerSp, Caller, Origin
  <2>2. CASE i # 1
    <3>1. i - 1 \in 1..Len(frames)
      BY <2>2 DEF Framed
    <3>2. InStack(i - 1)
      BY <3>1, FrameFacts
    <3> QED
      BY <2>2, <3>2 DEF CallerSp, Caller, InStack
  <2> QED
    BY <2>1, <2>2
<1>3. /\ sp \in Nat /\ frames[i].sp \in Int /\ Caller(i).sp \in Int
      /\ StackBase \in Nat /\ MAX_FRAME_SIZE \in Nat \ {0} /\ MAX_WALK_SIZE \in Nat \ {0}
      /\ Space \in Nat /\ StackBase + MAX_WALK_SIZE < Space /\ MAX_FRAME_SIZE <= MAX_WALK_SIZE
  BY <1>1, RegisterTypes, SpaceAssumption DEF Address
<1>4. /\ sp + MAX_FRAME_SIZE \in Address /\ sp + MAX_WALK_SIZE \in Address
  BY <1>1, <1>3 DEF Address
<1>5. /\ Wrap(sp + MAX_FRAME_SIZE) = sp + MAX_FRAME_SIZE
      /\ Wrap(sp + MAX_WALK_SIZE) = sp + MAX_WALK_SIZE
  BY <1>4, WrapSmall
<1> QED
  BY <1>1, <1>2, <1>3, <1>5 DEF Accepted

\* A step from a described frame does not fail: a piece of a function leads
\* to its caller, any other function to its loads.
LEMMA StepTrue ==
  ASSUME Framed, NEW i \in 1..Len(frames), NEW sp \in Address,
         sc = [frames[i] EXCEPT !.sp = sp],
         sp <= frames[i].sp, sp = frames[i].sp \/ Callee(i).kind = "fp",
         Described(i, sp), Step
  PROVE  \/ Callee(i).kind = "part" /\ sc' = Caller(i) /\ Returned(TRUE)
         \/ /\ Callee(i).kind \in {"fp", "saves"} /\ at' = "fp" /\ left' = left
            /\ sc' = [frames[i] EXCEPT !.sp = Caller(i).sp]
         \/ /\ Callee(i).kind \in {"sp", "plt"} /\ at' = "pc" /\ left' = left
            /\ sc' = [Caller(i) EXCEPT !.pc = frames[i].pc]
<1> DEFINE g == Callee(i)
           r == Caller(i)
           f == TrueRule(g)
           next == [sc EXCEPT !.sp = NextSp(f)]
           pc == Wrap(sc.pc + f.by)
<1>1. /\ g \in Functions /\ r \in Registers /\ frames[i] \in Registers
      /\ frames[i] = Frame(g, r) /\ frames[i].pc = g.pc /\ Frame(g, r).sp >= StackLow
      /\ Built(i)
  BY FrameFacts, SpaceAssumption, RegisterTypes DEF Built, InStack
<1>2. sc.sp = sp /\ sc.pc = frames[i].pc /\ sc.fp = frames[i].fp
  BY <1>1, ScWithSp
<1>3. FrameDescAt(sc.pc) = f /\ CallerSp(i) - sp < MAX_FRAME_SIZE
  BY <1>2 DEF Described, Callee
<1>4. NextSp(f) = r.sp /\ Accepted(r.sp)
  BY <1>2, <1>3, TrueSp, TrueAccepted
<1>5. next = [frames[i] EXCEPT !.sp = r.sp] /\ next.sp = r.sp
  <2>1. next = [[frames[i] EXCEPT !.sp = sp] EXCEPT !.sp = r.sp]
    BY <1>4
  <2> QED
    BY <1>1, <2>1 DEF Registers
<1>6. \/ f.reg = "none" /\ Returned(FALSE) /\ UNCHANGED sc
      \/ f.reg # "none" /\ ~Accepted(next.sp) /\ sc' = next /\ Returned(FALSE)
      \/ /\ f.reg # "none" /\ Accepted(next.sp) /\ f.how = "pc"
         /\ sc' = [next EXCEPT !.pc = pc]
         /\ Returned(ValidPc(pc))
      \/ /\ f.reg # "none" /\ Accepted(next.sp) /\ f.how # "pc"
         /\ sc' = next
         /\ at' = IF LoadsFp(f) THEN "fp" ELSE "pc"
         /\ UNCHANGED left
  BY <1>3 DEF Step
<1>7. g.kind \in {"fp", "sp", "saves", "plt", "part"}
  BY <1>1, ProgramAssumption DEF Function
<1>8. f.reg # "none"
  BY <1>7 DEF TrueRule
<1>9. /\ g.kind = "part" => f.how = "pc" /\ f.by = g.by
      /\ g.kind \in {"fp", "saves"} => f.how = "saved" /\ f.by = -2 * Word
      /\ g.kind \in {"sp", "plt"} => f.how = "same"
  BY <1>7 DEF TrueRule
<1>10. g.kind \notin {"fp", "saves"} => frames[i].fp = r.fp
  BY <1>1, FrameEffect
<1> HIDE DEF g, r, f, next, pc
<1>11. CASE g.kind = "part"
  <2>1. i > 1 /\ r.pc = g.pc + g.by
    BY <1>1, <1>11 DEF Built, g, r
  <2>2. pc = r.pc
    BY <1>1, <1>2, <1>9, <1>11, <2>1, WrapSmall, RegisterTypes DEF pc
  <2>3. ValidPc(r.pc)
    <3>1. r = frames[i - 1] /\ i - 1 \in 1..Len(frames)
      BY <2>1 DEF r, Caller, Framed
    <3>2. frames[i - 1].pc = Callee(i - 1).pc /\ Callee(i - 1) \in Functions
      BY <3>1, FrameFacts
    <3> QED
      BY <3>1, <3>2, ValidPcs
  <2>4. sc' = [next EXCEPT !.pc = r.pc] /\ Returned(ValidPc(r.pc))
    BY <1>4, <1>5, <1>6, <1>8, <1>9, <1>11, <2>2
  <2>5. [next EXCEPT !.pc = r.pc] = r
    BY <1>1, <1>5, <1>10, <1>11 DEF Registers
  <2>6. Returned(TRUE)
    <3>1. ValidPc(r.pc) \in BOOLEAN
      BY DEF ValidPc
    <3> QED
      BY <2>3, <2>4, <3>1, ReturnedEither
  <2> QED
    BY <1>11, <2>4, <2>5, <2>6 DEF g, r
<1>12. CASE g.kind # "part"
  <2>1. sc' = next /\ at' = (IF LoadsFp(f) THEN "fp" ELSE "pc") /\ left' = left
    BY <1>4, <1>5, <1>6, <1>7, <1>8, <1>9, <1>12
  <2>2. CASE g.kind \in {"fp", "saves"}
    <3>1. LoadsFp(f)
      BY <1>9, <2>2, SpaceAssumption DEF LoadsFp
    <3> QED
      BY <1>5, <2>1, <2>2, <3>1 DEF g, r
  <2>3. CASE g.kind \in {"sp", "plt"}
    <3>1. ~LoadsFp(f)
      BY <1>9, <2>3 DEF LoadsFp
    <3>2. next = [r EXCEPT !.pc = frames[i].pc]
      BY <1>1, <1>5, <1>10, <2>3 DEF Registers
    <3> QED
      BY <2>1, <2>3, <3>1, <3>2 DEF g, r
  <2> QED
    BY <1>7, <1>12, <2>2, <2>3
<1> QED
  BY <1>11, <1>12

\* A load in a described frame finds what the frame has stored.
LEMMA LoadTrue ==
  ASSUME Framed, WalkerTyped, ~corrupt, at \in {"fp", "pc"}, NEW i \in 1..Len(frames),
         OnTrack(i), FrameDescAt(frames[i].pc) = TrueRule(Callee(i))
  PROVE  /\ LoadAddress \in Words
         /\ Contents(LoadAddress) = {IF at = "fp" THEN Caller(i).fp ELSE Caller(i).pc}
<1> DEFINE g == Callee(i)
           r == Caller(i)
<1>1. /\ g \in Functions /\ r \in Registers /\ frames[i] \in Registers /\ Stored(i)
      /\ g.kind # "part" => r.sp - Word \in Words /\ frames[i].sp <= r.sp - Word
      /\ g.kind \in {"fp", "saves"} =>
           r.sp - 2 * Word \in Words /\ frames[i].sp <= r.sp - 2 * Word
  BY FrameFacts
<1>2. /\ Top.sp <= frames[i].sp /\ Top.sp \in Int /\ frames[i].sp \in Int
      /\ Words \subseteq Int /\ Word \in Nat \ {0} /\ r.sp \in Int
  BY <1>1, FrameFacts, RegisterTypes, WordsInt DEF Framed, Top, Last
<1>3. Words \subseteq Address
  BY SpaceAssumption, SMTT(30) DEF Words, Address
<1>4. ASSUME NEW a \in Words, a >= Top.sp
      PROVE  Contents(a) = {mem[a]}
  BY <1>4 DEF Contents
<1>5. CASE at = "fp"
  <2>1. g.kind \in {"fp", "saves"} /\ sc = [frames[i] EXCEPT !.sp = r.sp]
    BY <1>5 DEF OnTrack
  <2>2. sc.sp = r.sp /\ sc.pc = frames[i].pc
    BY <1>1, <2>1, ScWithSp, RegisterTypes
  <2>3. FrameDescAt(sc.pc).by = -2 * Word
    BY <2>1, <2>2 DEF TrueRule
  <2>4. r.sp - 2 * Word \in Words /\ r.sp - 2 * Word >= Top.sp
    BY <1>1, <1>2, <2>1
  <2>5. LoadAddress = r.sp - 2 * Word
    <3>1. LoadAddress = Wrap(sc.sp + FrameDescAt(sc.pc).by)
      BY <1>5 DEF LoadAddress
    <3>2. sc.sp + FrameDescAt(sc.pc).by = r.sp - 2 * Word
      BY <1>2, <2>2, <2>3
    <3> QED
      BY <1>3, <2>4, <3>1, <3>2, WrapSmall
  <2>6. mem[r.sp - 2 * Word] = r.fp
    BY <1>1, <2>1 DEF Stored
  <2> QED
    BY <1>4, <1>5, <2>4, <2>5, <2>6
<1>6. CASE at = "pc"
  <2>1. g.kind # "part" /\ sc = [r EXCEPT !.pc = frames[i].pc]
    BY <1>6 DEF OnTrack
  <2>2. sc.sp = r.sp
    BY <1>1, <2>1, ScWithValue, RegisterTypes
  <2>3. r.sp - Word \in Words /\ r.sp - Word >= Top.sp
    BY <1>1, <1>2, <2>1
  <2>4. LoadAddress = r.sp - Word
    <3>1. LoadAddress = Wrap(sc.sp - Word)
      BY <1>6 DEF LoadAddress
    <3> QED
      BY <1>3, <2>2, <2>3, <3>1, WrapSmall
  <2>5. mem[r.sp - Word] = r.pc
    BY <1>1, <2>1 DEF Stored
  <2> QED
    BY <1>4, <1>6, <2>3, <2>4, <2>5
<1> QED
  BY <1>5, <1>6

\* The value loaded moves the walk to what it should be next.
LEMMA LoadedTrue ==
  ASSUME Framed, NEW i \in 1..Len(frames), OnTrack(i), at \in {"fp", "pc"},
         Loaded(IF at = "fp" THEN Caller(i).fp ELSE Caller(i).pc)
  PROVE  \/ /\ at' = "pc" /\ left' = left /\ Callee(i).kind # "part"
            /\ sc' = [Caller(i) EXCEPT !.pc = frames[i].pc]
         \/ /\ sc' = Caller(i)
            /\ (i = 1 /\ Returned(FALSE)) \/ (i > 1 /\ Returned(TRUE))
<1> DEFINE r == Caller(i)
<1>1. r \in Registers /\ frames[i] \in Registers
  BY FrameFacts
<1>2. CASE at = "fp"
  <2>1. /\ sc = [frames[i] EXCEPT !.sp = r.sp] /\ Callee(i).kind # "part"
        /\ sc' = [sc EXCEPT !.fp = r.fp] /\ at' = "pc" /\ left' = left
    BY <1>2 DEF OnTrack, Loaded
  <2>2. sc' = [r EXCEPT !.pc = frames[i].pc]
    <3> HIDE DEF r
    <3> QED
      BY <1>1, <2>1 DEF Registers
  <2> QED
    BY <2>1, <2>2
<1>3. CASE at = "pc"
  <2>1. /\ sc = [r EXCEPT !.pc = frames[i].pc]
        /\ sc' = [sc EXCEPT !.pc = r.pc] /\ Returned(ValidPc(r.pc))
    BY <1>3 DEF OnTrack, Loaded
  <2>2. sc' = r
    <3> HIDE DEF r
    <3> QED
      BY <1>1, <2>1 DEF Registers
  <2>3. ValidPc(r.pc) \in BOOLEAN
    BY DEF ValidPc
  <2>4. CASE i = 1
    <3>1. r.pc = 0
      BY <2>4 DEF Caller, Origin
    <3>2. ~ValidPc(r.pc)
      BY <3>1, ValidPcs
    <3> QED
      BY <2>1, <2>2, <2>3, <2>4, <3>2, ReturnedEither
  <2>5. CASE i # 1
    <3>1. r = frames[i - 1] /\ i - 1 \in 1..Len(frames) /\ i > 1
      BY <2>5 DEF Caller, Framed
    <3>2. frames[i - 1].pc = Callee(i - 1).pc /\ Callee(i - 1) \in Functions
      BY <3>1, FrameFacts
    <3>3. ValidPc(r.pc)
      BY <3>1, <3>2, ValidPcs
    <3> QED
      BY <2>1, <2>2, <2>3, <3>1, <3>3, ReturnedEither
  <2> QED
    BY <2>4, <2>5
<1> QED
  BY <1>2, <1>3

-----------------------------------------------------------------------------
(* Steps of the tracked walk.                                                *)

LEMMA MinTwo ==
  ASSUME NEW a \in Nat, NEW b \in Nat
  PROVE  Min({a, b}) = IF a <= b THEN a ELSE b
<1>1. {a, b} \in SUBSET Nat /\ {a, b} # {}
  OBVIOUS
<1>2. Min({a, b}) \in {a, b} /\ \A m \in {a, b} : Min({a, b}) <= m
  BY <1>1, MinIn
<1> QED
  BY <1>2

\* Nothing about described frames changes while the frames stay.
LEMMA FramesStay ==
  ASSUME frames' = frames
  PROVE  /\ \A d : Good(d)' <=> Good(d)
         /\ \A i, sp : Described(i, sp)' <=> Described(i, sp)
         /\ \A i : Callee(i)' = Callee(i) /\ Caller(i)' = Caller(i)
         /\ Top' = Top /\ PopulatedSp' = PopulatedSp
BY DEF Good, Described, CallerSp, Callee, Caller, Top, Last, PopulatedSp

\* Where a step of the walker is when it is on track.
LEMMA CurrentFacts ==
  ASSUME Framed, Control, Tracked, ~corrupt, exact, at \in {"step", "fp", "pc"},
         left = 0 => Good(depth)
  PROVE  /\ Current \in 1..Len(frames) /\ OnTrack(Current)
         /\ left = 0 => depth > 0 \/ at # "step"
         /\ Described(Current, IF left = 2 THEN PopulatedSp ELSE frames[Current].sp)
         /\ left = 2 => Callee(Current).kind = "fp"
<1>1. OnTrack(Current) /\ Current \in 1..Len(frames) /\ ContextDescribed
  BY DEF Tracked, OnTrack
<1>2. left \in 0..2 /\ depth \in Nat /\ Len(frames) \in Nat
  BY DEF Control, WalkerTyped, Framed
<1>3. CASE left = 2
  BY <1>1, <1>3 DEF Current, ContextDescribed
<1>4. CASE left = 1
  BY <1>1, <1>4 DEF Current, ContextDescribed
<1>5. CASE left = 0
  <2>1. Current = Len(frames) + 1 - depth
    BY <1>5 DEF Current
  <2>2. depth \in 1..depth
    BY <1>1, <1>2, <2>1
  <2>3. Described(Current, frames[Current].sp)
    BY <1>5, <2>1, <2>2 DEF Good
  <2> QED
    BY <1>1, <1>2, <1>5, <2>2, <2>3
<1> QED
  BY <1>2, <1>3, <1>4, <1>5

\* When all frames are described the chain is not longer than they are.
LEMMA NotTooDeep ==
  ASSUME Framed, WalkerTyped, ChainTrue, Good(Len(frames))
  PROVE  depth <= Len(frames) /\ Good(depth)
<1>1. depth \in Nat /\ Len(frames) \in Nat
  BY DEF Framed, WalkerTyped
<1>2. depth <= Len(frames)
  <2> SUFFICES ASSUME depth > Len(frames) PROVE FALSE
    BY <1>1
  <2>1. Len(frames) + 1 \in 1..depth /\ (Len(frames) + 1) - 1 = Len(frames)
    BY <1>1
  <2>2. Len(frames) + 1 <= Len(frames)
    BY <2>1 DEF ChainTrue
  <2> QED
    BY <1>1, <2>2
<1>3. Good(depth)
  BY <1>1, <1>2 DEF Good
<1> QED
  BY <1>2, <1>3

\* The walk goes on to another load, or to the caller of frame i.
NextTrue(i) ==
  \/ /\ at' = "fp" /\ left' = left /\ Callee(i).kind \in {"fp", "saves"}
     /\ sc' = [frames[i] EXCEPT !.sp = Caller(i).sp]
  \/ /\ at' = "pc" /\ left' = left /\ Callee(i).kind # "part"
     /\ sc' = [Caller(i) EXCEPT !.pc = frames[i].pc]
  \/ /\ sc' = Caller(i)
     /\ (i = 1 /\ Returned(FALSE)) \/ (i > 1 /\ Returned(TRUE))

Standing == UNCHANGED <<program, depth, callchain, saved, exact>>

LEMMA StandingFacts ==
  ASSUME Standing
  PROVE  /\ frames' = frames /\ corrupt' = corrupt /\ exact' = exact
         /\ depth' = depth /\ callchain' = callchain /\ saved' = saved
         /\ ChainTrue => ChainTrue'
         /\ left' = left => Current' = Current
         /\ (left' = left \/ left' < left) /\ ContextDescribed /\ left \in 0..2 /\ left' \in 0..2
              => ContextDescribed'
<1>1. /\ frames' = frames /\ corrupt' = corrupt /\ exact' = exact
      /\ depth' = depth /\ callchain' = callchain /\ saved' = saved
  BY DEF Standing, program
<1>2. ChainTrue => ChainTrue'
  BY <1>1, FramesStay DEF ChainTrue
<1>3. left' = left => Current' = Current
  BY <1>1 DEF Current
<1>4. (left' = left \/ left' < left) /\ ContextDescribed /\ left \in 0..2 /\ left' \in 0..2
        => ContextDescribed'
  <2>1. /\ Described(Len(frames), PopulatedSp)' <=> Described(Len(frames), PopulatedSp)
        /\ Callee(Len(frames))' = Callee(Len(frames))
        /\ Described(Len(frames) - 1, frames[Len(frames) - 1].sp)' <=>
             Described(Len(frames) - 1, frames[Len(frames) - 1].sp)
    BY <1>1 DEF Described, CallerSp, Callee, PopulatedSp, Top, Last
  <2> QED
    BY <2>1 DEF ContextDescribed
<1> QED
  BY <1>1, <1>2, <1>3, <1>4

LEMMA Advance ==
  ASSUME Framed, Control, Tracked, ~corrupt, exact, at \in {"step", "fp", "pc"},
         left = 0 => Good(depth), NextTrue(Current), Standing
  PROVE  Tracked'
<1>0. PICK i \in 1..Len(frames) : i = Current
  BY CurrentFacts
<1>1. /\ left \in 0..2 /\ depth \in Nat /\ depth <= MaxDepth /\ MaxDepth \in Nat
      /\ Len(frames) \in Nat /\ ContextDescribed /\ ChainTrue
      /\ left > 0 => depth = 0 /\ Len(frames) >= 3
  BY SpaceAssumption DEF Control, WalkerTyped, Phase, Framed, Tracked
<1>2. /\ frames' = frames /\ corrupt' = corrupt /\ exact' = exact
      /\ depth' = depth /\ callchain' = callchain /\ saved' = saved /\ ChainTrue'
  BY <1>1, StandingFacts
<1>3. \A j : Callee(j)' = Callee(j) /\ Caller(j)' = Caller(j)
  BY <1>2, FramesStay
<1>4. CASE at' \in {"fp", "pc"} /\ left' = left
  <2>1. ContextDescribed' /\ Current' = i
    BY <1>0, <1>1, <1>4, StandingFacts
  <2>2. OnTrack(i)'
    <3>1. NextTrue(i)
      BY <1>0
    <3>2. CASE at' = "fp"
      <4>1. Returned(FALSE) \/ Returned(TRUE) => at' # "fp"
        BY <1>1 DEF Returned
      <4> QED
        BY <1>2, <1>3, <3>1, <3>2, <4>1 DEF NextTrue, OnTrack
    <3>3. CASE at' = "pc"
      <4>1. Returned(FALSE) \/ Returned(TRUE) => at' # "pc"
        BY <1>1 DEF Returned
      <4> QED
        BY <1>2, <1>3, <3>1, <3>3, <4>1 DEF NextTrue, OnTrack
    <3> QED
      BY <1>4, <3>2, <3>3
  <2>3. OnTrack(Current)'
    BY <2>1, <2>2
  <2> QED
    BY <1>2, <1>4, <2>1, <2>3 DEF Tracked
<1>5. CASE /\ sc' = Caller(i)
           /\ (i = 1 /\ Returned(FALSE)) \/ (i > 1 /\ Returned(TRUE))
  <2>1. \/ left = 2 /\ left' = 1 /\ at' = "step"
        \/ left = 1 /\ left' = 0 /\ at' = "save"
        \/ left = 0 /\ left' = 0 /\ i = 1 /\ at' = "done"
        \/ left = 0 /\ left' = 0 /\ i > 1 /\ at' = "walk"
    BY <1>1, <1>5, ReturnedEffect
  <2>2. ContextDescribed'
    BY <1>1, <2>1, StandingFacts
  <2>3. CASE left = 2 /\ left' = 1 /\ at' = "step"
    <3>1. i = Len(frames) /\ Len(frames) - 1 \in 1..Len(frames)
      BY <1>0, <1>1, <2>3 DEF Current
    <3>2. sc' = frames[Len(frames) - 1] /\ frames[Len(frames) - 1] \in Registers
      BY <1>1, <1>5, <3>1, FrameFacts DEF Caller
    <3>3. [frames[Len(frames) - 1] EXCEPT !.sp = frames[Len(frames) - 1].sp]
            = frames[Len(frames) - 1]
      BY <3>2 DEF Registers
    <3>4. Current' = Len(frames) - 1
      BY <1>2, <2>3 DEF Current
    <3>5. OnTrack(Current)'
      BY <1>2, <2>3, <3>1, <3>2, <3>3, <3>4 DEF OnTrack
    <3> QED
      BY <1>2, <2>2, <2>3, <3>5 DEF Tracked
  <2>4. CASE left = 1 /\ left' = 0 /\ at' = "save"
    <3>1. i = Len(frames) - 1 /\ i > 1 /\ i - 1 = Len(frames) - 2
      BY <1>0, <1>1, <2>4 DEF Current
    <3>2. sc' = frames[Len(frames) - 2]
      BY <1>5, <3>1 DEF Caller
    <3> QED
      BY <1>2, <2>2, <2>4, <3>2 DEF Tracked
  <2>5. CASE left = 0 /\ left' = 0 /\ i = 1 /\ at' = "done"
    <3>1. depth = Len(frames)
      BY <1>0, <1>1, <2>5 DEF Current
    <3>2. depth = Min({Len(frames), MaxDepth})
      BY <1>1, <3>1, MinTwo
    <3> QED
      BY <1>2, <2>2, <2>5, <3>2 DEF Tracked
  <2>6. CASE left = 0 /\ left' = 0 /\ i > 1 /\ at' = "walk"
    <3>1. i - 1 = Len(frames) - depth /\ depth < Len(frames)
      BY <1>0, <1>1, <2>6 DEF Current
    <3>2. sc' = frames[Len(frames) - depth]
      BY <1>5, <2>6, <3>1 DEF Caller
    <3> QED
      BY <1>2, <2>2, <2>6, <3>1, <3>2 DEF Tracked
  <2> QED
    BY <2>1, <2>3, <2>4, <2>5, <2>6
<1>6. \/ at' \in {"fp", "pc"} /\ left' = left
      \/ /\ sc' = Caller(i)
         /\ (i = 1 /\ Returned(FALSE)) \/ (i > 1 /\ Returned(TRUE))
  BY <1>0 DEF NextTrue
<1> QED
  BY <1>4, <1>5, <1>6

\* A walk that has left the described frames has nothing to keep but its chain.
LEMMA Strayed ==
  ASSUME Framed, Control, Tracked, ~corrupt, exact, at \in {"step", "fp", "pc"},
         left = 0, ~Good(depth), Standing,
         \/ at' \in {"fp", "pc"} /\ left' = left
         \/ Returned(TRUE) \/ Returned(FALSE)
  PROVE  Tracked'
<1>1. left' = 0 /\ at' \in {"fp", "pc", "walk", "done"}
  <2>1. left \in 0..2 /\ left # 2 /\ left # 1
    OBVIOUS
  <2> QED
    BY <2>1, ReturnedEffect
<1>2. ChainTrue /\ ContextDescribed /\ WalkerTyped
  BY DEF Tracked, Control
<1>3. /\ frames' = frames /\ corrupt' = corrupt /\ exact' = exact
      /\ depth' = depth /\ callchain' = callchain /\ saved' = saved
      /\ ChainTrue' /\ ContextDescribed'
  BY <1>1, <1>2, StandingFacts
<1>4. ~Good(Len(frames))
  BY <1>2, NotTooDeep
<1>5. ~Good(depth)' /\ ~Good(Len(frames))'
  BY <1>3, <1>4 DEF Good, Described, CallerSp
<1> QED
  BY <1>1, <1>3, <1>5 DEF Tracked

LEMMA Untracked ==
  ASSUME corrupt \/ ~exact, corrupt' = corrupt, exact' = exact
  PROVE  Tracked'
BY DEF Tracked

LEMMA StepTracked ==
  ASSUME Framed, Control, Tracked, Step
  PROVE  Tracked'
<1>1. WalkerTyped /\ left \in 0..2
  BY DEF Control, WalkerTyped
<1>2. /\ at = "step" /\ Standing
      /\ \/ Returned(FALSE)
         \/ Returned(TRUE) \/ (at' \in {"fp", "pc"} /\ left' = left)
  BY <1>1, StepEffect DEF Standing
<1>3. CASE corrupt \/ ~exact
  BY <1>2, <1>3, StandingFacts, Untracked
<1>4. CASE ~corrupt /\ exact /\ left = 0 /\ ~Good(depth)
  BY <1>2, <1>4, Strayed
<1>5. CASE ~corrupt /\ exact /\ (left = 0 => Good(depth))
  <2> DEFINE i == Current
             sp == IF left = 2 THEN PopulatedSp ELSE frames[i].sp
  <2>1. /\ i \in 1..Len(frames) /\ OnTrack(i) /\ Described(i, sp)
        /\ left = 2 => Callee(i).kind = "fp" /\ i = Len(frames)
    BY <1>2, <1>5, CurrentFacts DEF Current
  <2>2. sc = [frames[i] EXCEPT !.sp = sp]
    BY <1>2, <2>1 DEF OnTrack
  <2>3. /\ frames[i] \in Registers /\ frames[i].sp \in Address /\ sc \in Registers
    BY <1>1, <2>1, FrameFacts, RegisterTypes DEF WalkerTyped
  <2>4. sp \in Address /\ sp <= frames[i].sp /\ (sp = frames[i].sp \/ Callee(i).kind = "fp")
    <3>1. CASE left = 2
      <4>1. sp = frames[i].sp - 2 * Word
        BY <2>1, <3>1 DEF PopulatedSp, Top, Last
      <4>2. StackLow <= frames[i].sp
        BY <2>1, FrameFacts DEF InStack
      <4> QED
        BY <2>1, <2>3, <3>1, <4>1, <4>2, SpaceAssumption DEF Address
    <3>2. CASE left # 2
      BY <2>3, <3>2 DEF Address
    <3> QED
      BY <3>1, <3>2
  <2> HIDE DEF sp
  <2>5. \/ Callee(i).kind = "part" /\ sc' = Caller(i) /\ Returned(TRUE)
        \/ /\ Callee(i).kind \in {"fp", "saves"} /\ at' = "fp" /\ left' = left
           /\ sc' = [frames[i] EXCEPT !.sp = Caller(i).sp]
        \/ /\ Callee(i).kind \in {"sp", "plt"} /\ at' = "pc" /\ left' = left
           /\ sc' = [Caller(i) EXCEPT !.pc = frames[i].pc]
    <3> HIDE DEF i
    <3> QED
      BY <2>1, <2>2, <2>4, StepTrue
  <2>6. Callee(i).kind = "part" => i > 1
    BY <2>1, FrameFacts DEF Built
  <2>7. NextTrue(i)
    BY <2>5, <2>6 DEF NextTrue
  <2> QED
    BY <1>2, <1>5, <2>7, Advance
<1> QED
  BY <1>3, <1>4, <1>5

\* What a load leads to when it returns v: on track, v is what the frame has
\* stored.
LEMMA LoadedTracked ==
  ASSUME Framed, Control, Tracked, NEW v, Loaded(v), Standing,
         LoadAddress \in Words => v \in Contents(LoadAddress),
         ~corrupt /\ exact /\ (left = 0 => Good(depth)) => LoadAddress \in Words
  PROVE  Tracked'
<1>1. WalkerTyped /\ left \in 0..2 /\ at \in {"fp", "pc"}
  BY DEF Control, WalkerTyped, Loaded
<1>2. \/ at' \in {"fp", "pc"} /\ left' = left
      \/ Returned(TRUE) \/ Returned(FALSE)
  <2>1. ValidPc(v) \in BOOLEAN
    BY DEF ValidPc
  <2>2. \/ at' \in {"fp", "pc"} /\ left' = left
        \/ Returned(ValidPc(v))
    BY DEF Loaded
  <2> QED
    BY <2>1, <2>2, ReturnedEither
<1>3. CASE corrupt \/ ~exact
  BY <1>3, StandingFacts, Untracked
<1>4. CASE ~corrupt /\ exact /\ left = 0 /\ ~Good(depth)
  BY <1>1, <1>2, <1>4, Strayed
<1>5. CASE ~corrupt /\ exact /\ (left = 0 => Good(depth))
  <2> DEFINE i == Current
             w == IF at = "fp" THEN Caller(i).fp ELSE Caller(i).pc
  <2>1. /\ i \in 1..Len(frames) /\ OnTrack(i)
        /\ Described(i, IF left = 2 THEN PopulatedSp ELSE frames[i].sp)
    BY <1>1, <1>5, CurrentFacts
  <2>2. FrameDescAt(frames[i].pc) = TrueRule(Callee(i))
    BY <2>1 DEF Described, Callee
  <2> HIDE DEF i
  <2>3. LoadAddress \in Words /\ Contents(LoadAddress) = {w}
    BY <1>1, <1>5, <2>1, <2>2, LoadTrue
  <2>4. v = w
    BY <2>3
  <2>5. Loaded(w)
    BY <2>4
  <2>6. NextTrue(i)
    BY <1>1, <2>1, <2>5, LoadedTrue DEF NextTrue
  <2> QED
    BY <1>1, <1>5, <2>6, Advance DEF i
<1> QED
  BY <1>3, <1>4, <1>5

\* A load on track is of a word of the stack, so it does not fault.
LEMMA TrackInWords ==
  ASSUME Framed, Control, Tracked, ~corrupt, exact, at \in {"fp", "pc"},
         left = 0 => Good(depth)
  PROVE  LoadAddress \in Words
<1> DEFINE i == Current
<1>1. /\ i \in 1..Len(frames) /\ OnTrack(i)
      /\ Described(i, IF left = 2 THEN PopulatedSp ELSE frames[i].sp)
  BY CurrentFacts
<1>2. FrameDescAt(frames[i].pc) = TrueRule(Callee(i)) /\ WalkerTyped
  BY <1>1 DEF Described, Callee, Control
<1> QED
  BY <1>1, <1>2, LoadTrue

LEMMA LoadTracked ==
  ASSUME Framed, Control, Tracked, Load
  PROVE  Tracked'
<1>1. /\ at \in {"fp", "pc"} /\ Standing
      /\ \/ \E v \in Contents(LoadAddress) : Loaded(v)
         \/ LoadAddress \notin Words /\ at' = at /\ sc' = sc /\ left' = left
  BY DEF Load, Standing
<1>2. CASE \E v \in Contents(LoadAddress) : Loaded(v)
  <2>1. PICK v \in Contents(LoadAddress) : Loaded(v)
    BY <1>2
  <2> QED
    BY <1>1, <2>1, TrackInWords, LoadedTracked
<1>3. CASE LoadAddress \notin Words /\ at' = at /\ sc' = sc /\ left' = left
  <2>1. CASE corrupt \/ ~exact
    BY <1>1, <2>1, StandingFacts, Untracked
  <2>2. CASE ~corrupt /\ exact
    <3>1. left = 0 /\ ~Good(depth)
      BY <1>1, <1>3, <2>2, TrackInWords
    <3> QED
      BY <1>1, <1>3, <2>2, <3>1, Strayed
  <2> QED
    BY <2>1, <2>2
<1> QED
  BY <1>1, <1>2, <1>3

LEMMA HandlerTracked ==
  ASSUME Framed, Control, Tracked, segv_handler
  PROVE  Tracked'
<1>1. CASE /\ at \in {"fp", "pc"} /\ LoadAddress \notin Words /\ Loaded(0)
           /\ UNCHANGED <<program, depth, callchain, saved, exact, process>>
  <2>1. Standing
    BY <1>1 DEF Standing
  <2> QED
    BY <1>1, <2>1, TrackInWords, LoadedTracked
<1>2. CASE at = "idle" /\ PassOn
  <2>1. /\ frames' = frames /\ mem' = mem /\ corrupt' = corrupt
        /\ at' = at /\ left' = left /\ depth' = depth /\ callchain' = callchain
        /\ saved' = saved /\ exact' = exact /\ at = "idle"
    BY <1>2 DEF PassOn, program, walker
  <2>2. Standing
    BY <2>1 DEF Standing, program
  <2>3. WalkerTyped /\ left \in 0..2
    BY DEF Control, WalkerTyped
  <2> QED
    BY <2>1, <2>2, <2>3, StandingFacts DEF Tracked
<1> QED
  BY <1>1, <1>2, Handled

LEMMA WalkTracked ==
  ASSUME Framed, Control, Tracked, StackWalk
  PROVE  Tracked'
<1>1. /\ at = "walk"
      /\ frames' = frames /\ corrupt' = corrupt /\ sc' = sc /\ left' = left
      /\ saved' = saved /\ exact' = exact
      /\ \/ /\ depth < MaxDepth /\ callchain' = Append(callchain, sc.pc)
            /\ depth' = depth + 1 /\ at' = "step"
         \/ /\ depth >= MaxDepth /\ at' = "done" /\ callchain' = callchain /\ depth' = depth
  BY DEF StackWalk, program
<1>2. /\ WalkerTyped /\ left = 0 /\ depth \in 0..MaxDepth /\ MaxDepth \in Nat
      /\ Len(frames) \in Nat \ {0} /\ callchain \in Seq(Address) /\ Len(callchain) = depth
      /\ sc.pc \in Address
  BY <1>1, SpaceAssumption, RegisterTypes DEF Control, WalkerTyped, Phase, Framed
<1>3. CASE corrupt \/ ~exact
  BY <1>1, <1>3, Untracked
<1> DEFINE n == Len(frames)
<1>4. CASE ~corrupt /\ exact
  <2>1. /\ ChainTrue /\ ContextDescribed'
        /\ Good(depth) => depth < n /\ sc = frames[n - depth]
    BY <1>1, <1>2, <1>4 DEF Tracked, ContextDescribed
  <2>2. \A d : Good(d)' <=> Good(d)
    BY <1>1, FramesStay
  <2>3. CASE /\ callchain' = Append(callchain, sc.pc) /\ depth' = depth + 1 /\ at' = "step"
    <3>1. /\ callchain'[depth + 1] = sc.pc
          /\ \A i \in 1..depth : callchain'[i] = callchain[i]
      BY <1>2, <2>3, AppendProperties
    <3>2. ChainTrue'
      <4> SUFFICES ASSUME NEW i \in 1..(depth + 1), Good(i - 1)
                   PROVE  i <= n /\ callchain'[i] = frames[n + 1 - i].pc
        BY <1>1, <2>2, <2>3 DEF ChainTrue
      <4>1. CASE i <= depth
        BY <1>2, <2>1, <3>1, <4>1 DEF ChainTrue
      <4>2. CASE i = depth + 1
        <5>1. i - 1 = depth /\ n + 1 - i = n - depth
          BY <1>2, <4>2
        <5>2. Good(depth)
          BY <5>1
        <5> QED
          BY <1>2, <2>1, <3>1, <4>2, <5>1, <5>2
      <4> QED
        BY <1>2, <4>1, <4>2
    <3>3. ASSUME Good(depth + 1)
          PROVE  OnTrack(Current)'
      <4>1. Good(depth)
        BY <1>2, <3>3 DEF Good
      <4>2. /\ n - depth \in 1..n /\ sc = frames[n - depth] /\ frames[n - depth] \in Registers
        BY <1>2, <2>1, <4>1, FrameFacts
      <4>3. Current' = n - depth
        BY <1>1, <1>2, <2>3 DEF Current
      <4>4. [frames[n - depth] EXCEPT !.sp = frames[n - depth].sp] = frames[n - depth]
        BY <4>2 DEF Registers
      <4> QED
        BY <1>1, <1>2, <2>3, <4>2, <4>3, <4>4 DEF OnTrack
    <3>4. Good(depth)' => Good(depth + 1)
      BY <1>1, <2>3 DEF Good, Described, CallerSp
    <3> QED
      BY <1>1, <1>2, <2>1, <2>3, <3>2, <3>3, <3>4 DEF Tracked
  <2>4. CASE depth >= MaxDepth /\ at' = "done" /\ callchain' = callchain /\ depth' = depth
    <3>1. ChainTrue'
      BY <1>1, <2>1, <2>2, <2>4 DEF ChainTrue
    <3>2. ASSUME Good(n) PROVE depth = Min({n, MaxDepth})
      <4>1. depth < n /\ depth = MaxDepth
        BY <1>2, <2>1, <2>4, <3>2, NotTooDeep
      <4> QED
        BY <1>2, <4>1, MinTwo
    <3>3. Good(n)' => Good(n)
      BY <1>1 DEF Good, Described, CallerSp
    <3> QED
      BY <1>1, <2>1, <2>4, <3>1, <3>2, <3>3 DEF Tracked
  <2> QED
    BY <1>1, <2>3, <2>4
<1> QED
  BY <1>3, <1>4

\* The walks begin at the last true frame.
LEMMA BeginTracked ==
  ASSUME Framed, Control, Tracked,
         WalkInterrupted \/ async_cgo_context \/ WalkContext \/ Return
  PROVE  Tracked'
<1>1. /\ WalkerTyped /\ Phase /\ Len(frames) \in Nat \ {0} /\ Top = frames[Len(frames)]
      /\ left \in 0..2
  BY DEF Control, WalkerTyped, Framed, Top, Last
<1>2. frames' = frames /\ mem' = mem /\ corrupt' = corrupt
  BY DEF WalkInterrupted, async_cgo_context, WalkContext, Return, program
<1>3. CASE WalkInterrupted
  <2>1. /\ at = "idle" /\ sc' = Top /\ at' = "walk"
        /\ left' = left /\ depth' = depth
    BY <1>3 DEF WalkInterrupted
  <2>2. depth = 0 /\ left = 0
    BY <1>1, <2>1 DEF Phase
  <2>3. Len(frames) - 0 = Len(frames)
    BY <1>1
  <2> QED
    BY <1>1, <1>2, <2>1, <2>2, <2>3 DEF Tracked, ContextDescribed, ChainTrue
<1>4. CASE async_cgo_context
  <2> DEFINE n == Len(frames)
  <2>1. /\ at = "idle" /\ n >= 3 /\ FunctionAt(Top.pc).kind = "fp"
        /\ sc' = [pc |-> Top.pc, sp |-> PopulatedSp, fp |-> Top.fp]
        /\ exact' = /\ Described(n, PopulatedSp)
                    /\ Described(n - 1, frames[n - 1].sp)
        /\ left' = 2 /\ at' = "step" /\ depth' = depth
    BY <1>4 DEF async_cgo_context
  <2>2. depth = 0
    BY <1>1, <2>1 DEF Phase
  <2>3. Top \in Registers /\ n \in 1..n
    BY <1>1, FrameFacts
  <2>4. sc' = [frames[n] EXCEPT !.sp = PopulatedSp]
    BY <1>1, <2>1, <2>3 DEF Registers
  <2>5. OnTrack(Current)'
    <3>1. PopulatedSp' = PopulatedSp
      BY <1>2, FramesStay
    <3>2. Current' = n
      BY <1>2, <2>1 DEF Current
    <3> QED
      BY <1>2, <2>1, <2>3, <2>4, <3>1, <3>2 DEF OnTrack
  <2>6. exact' => ContextDescribed'
    <3>1. /\ Described(Len(frames), PopulatedSp)' <=> Described(n, PopulatedSp)
          /\ Callee(Len(frames))' = Callee(n)
          /\ Described(Len(frames) - 1, frames[Len(frames) - 1].sp)' <=>
               Described(n - 1, frames[n - 1].sp)
      BY <1>2 DEF Described, CallerSp, Callee, PopulatedSp, Top, Last
    <3>2. Callee(n).kind = "fp"
      BY <1>1, <2>1 DEF Callee
    <3> QED
      BY <2>1, <3>1, <3>2 DEF ContextDescribed
  <2>7. ChainTrue'
    BY <2>1, <2>2 DEF ChainTrue
  <2> QED
    BY <2>1, <2>5, <2>6, <2>7 DEF Tracked
<1>5. CASE WalkContext
  <2>1. /\ at = "saved" /\ sc' = saved /\ at' = "walk" /\ exact' = exact
        /\ left' = left /\ depth' = depth
    BY <1>5 DEF WalkContext
  <2>2. depth = 0 /\ left = 0
    BY <1>1, <2>1 DEF Phase
  <2>3. ~corrupt /\ exact => saved = Top
    BY <2>1 DEF Tracked
  <2>4. Len(frames) - 0 = Len(frames)
    BY <1>1
  <2> QED
    BY <1>1, <1>2, <2>1, <2>2, <2>3, <2>4 DEF Tracked, ContextDescribed, ChainTrue
<1>6. CASE Return
  <2>1. at = "done" /\ at' = "idle" /\ left' = left /\ depth' = 0
    BY <1>6 DEF Return
  <2>2. left = 0
    BY <1>1, <2>1 DEF Phase
  <2> QED
    BY <2>1, <2>2 DEF Tracked, ContextDescribed, ChainTrue
<1> QED
  BY <1>3, <1>4, <1>5, <1>6

\* What is saved is the frame that is the last one when the callback and its
\* caller have returned.
LEMMA SaveTracked ==
  ASSUME Framed, Control, Tracked, SaveContext
  PROVE  Tracked'
<1>1. /\ at = "save" /\ saved' = sc /\ at' = "saved" /\ PopCallback
      /\ corrupt' = corrupt /\ left' = left /\ depth' = depth /\ exact' = exact
  BY DEF SaveContext
<1>2. depth = 0 /\ left = 0 /\ Len(frames) >= 3 /\ Len(frames) \in Nat
  BY <1>1 DEF Control, WalkerTyped, Phase, Framed
<1>3. /\ Len(frames') = Len(frames) - 2
      /\ frames'[Len(frames) - 2] = frames[Len(frames) - 2]
  BY <1>1, <1>2, PopFrames
<1>4. Top' = frames[Len(frames) - 2]
  BY <1>3 DEF Top, Last
<1> QED
  BY <1>1, <1>2, <1>4 DEF Tracked, ContextDescribed, ChainTrue

LEMMA ProgramTracked ==
  ASSUME Control, Tracked, (\E g \in Functions : Enter(g)) \/ Corrupt \/ CodeFault
  PROVE  Tracked'
<1>1. /\ at = "idle" /\ at' = at /\ left' = left /\ depth' = depth
  BY DEF Enter, Corrupt, CodeFault, walker
<1>2. depth = 0 /\ left = 0
  BY <1>1 DEF Control, WalkerTyped, Phase
<1> QED
  BY <1>1, <1>2 DEF Tracked, ContextDescribed, ChainTrue

-----------------------------------------------------------------------------
(* The invariant and the theorems.                                           *)

LEMMA InitIInv == Init => IInv
<1> SUFFICES ASSUME Init PROVE IInv
  OBVIOUS
<1>1. Framed
  BY InitFrames
<1>2. /\ corrupt = FALSE /\ at = "idle" /\ sc = NoRegs /\ left = 0
      /\ depth = 0 /\ callchain = << >> /\ saved = NoRegs /\ exact = TRUE
      /\ trap = NoTrap /\ process = "running"
  BY DEF Init
<1>3. WalkerTyped
  <2>1. NoRegs \in Registers
    BY SpaceAssumption DEF NoRegs, Registers, Address
  <2>2. 0 \in 0..MaxDepth /\ << >> \in Seq(Address) /\ Len(<< >>) = 0
    BY SpaceAssumption, EmptySeq
  <2>3. callchain \in Seq(Address) /\ Len(callchain) = depth /\ depth \in 0..MaxDepth
    BY <1>2, <2>2
  <2>4. corrupt \in BOOLEAN /\ exact \in BOOLEAN
    BY <1>2, Zenon
  <2>5. left \in 0..2 /\ trap \in Address
    BY <1>2, SpaceAssumption DEF NoTrap, Address
  <2> QED
    BY <1>2, <2>1, <2>3, <2>4, <2>5 DEF WalkerTyped
<1>4. Phase /\ Bounded /\ Trapped
  BY <1>2 DEF Phase, Bounded, Trapped
<1>5. Tracked
  BY <1>2 DEF Tracked, ContextDescribed, ChainTrue
<1> QED
  BY <1>1, <1>3, <1>4, <1>5 DEF IInv

LEMMA FramesAlone ==
  ASSUME Framed, frames' = frames, mem' = mem
  PROVE  Framed'
<1>1. ASSUME NEW i \in 1..Len(frames)
      PROVE  Built(i)' /\ InStack(i)' /\ Stored(i)'
  BY Same DEF Framed
<1> QED
  BY <1>1 DEF Framed

LEMMA StepIInv == IInv /\ [Next]_vars => IInv'
<1> SUFFICES ASSUME IInv, [Next]_vars PROVE IInv'
  OBVIOUS
<1>1. Framed /\ Control /\ Tracked
  BY DEF IInv, Control
<1> SUFFICES Framed' /\ Control' /\ Tracked'
  BY DEF IInv, Control
<1>2. CASE \E g \in Functions : Enter(g)
  BY <1>1, <1>2, EnterFrames, ProgramControl, ProgramTracked
<1>3. CASE Corrupt \/ CodeFault
  <2>1. frames' = frames /\ mem' = mem
    BY <1>3 DEF Corrupt, CodeFault, program
  <2> QED
    BY <1>1, <1>3, <2>1, FramesAlone, ProgramControl, ProgramTracked
<1>4. CASE WalkInterrupted \/ async_cgo_context \/ WalkContext \/ Return
  <2>1. frames' = frames /\ mem' = mem
    BY <1>4 DEF WalkInterrupted, async_cgo_context, WalkContext, Return, program
  <2> QED
    BY <1>1, <1>4, <2>1, FramesAlone, BeginControl, BeginTracked
<1>5. CASE Step
  <2>1. frames' = frames /\ mem' = mem
    BY <1>5 DEF Step, program
  <2> QED
    BY <1>1, <1>5, <2>1, FramesAlone, StepControl, StepTracked
<1>6. CASE Load
  <2>1. frames' = frames /\ mem' = mem
    BY <1>6 DEF Load, program
  <2> QED
    BY <1>1, <1>6, <2>1, FramesAlone, LoadControl, LoadTracked
<1>7. CASE segv_handler
  <2>1. frames' = frames /\ mem' = mem
    BY <1>1, <1>7, Handled DEF PassOn, program
  <2> QED
    BY <1>1, <1>7, <2>1, FramesAlone, HandlerControl, HandlerTracked
<1>8. CASE StackWalk
  <2>1. frames' = frames /\ mem' = mem
    BY <1>8 DEF StackWalk, program
  <2> QED
    BY <1>1, <1>8, <2>1, FramesAlone, WalkControl, WalkTracked
<1>9. CASE SaveContext
  <2>1. Len(frames) >= 3 /\ PopCallback
    BY <1>1, <1>9 DEF SaveContext, Control, Phase
  <2> QED
    BY <1>1, <1>9, <2>1, PopFrames, SaveControl, SaveTracked
<1>10. CASE UNCHANGED vars
  <2>1. /\ frames' = frames /\ mem' = mem /\ corrupt' = corrupt
        /\ at' = at /\ sc' = sc /\ left' = left /\ depth' = depth /\ callchain' = callchain
        /\ saved' = saved /\ exact' = exact /\ trap' = trap /\ process' = process
    BY <1>10 DEF vars, program, walker
  <2>2. Framed'
    BY <1>1, <2>1, FramesAlone
  <2>3. LoadAddress' = LoadAddress
    BY <2>1 DEF LoadAddress
  <2>4. Control'
    BY <1>1, <2>1, <2>3 DEF Control, WalkerTyped, Phase, Bounded, Trapped
  <2>5. /\ ContextDescribed' <=> ContextDescribed
        /\ Good(depth)' <=> Good(depth)
        /\ Good(Len(frames))' <=> Good(Len(frames))
        /\ OnTrack(Current)' <=> OnTrack(Current)
        /\ ChainTrue' <=> ChainTrue
        /\ Top' = Top
    BY <2>1 DEF ContextDescribed, Good, OnTrack, Current, ChainTrue, Described, CallerSp,
                Callee, Caller, PopulatedSp, Top, Last
  <2>6. Tracked'
    BY <1>1, <2>1, <2>5 DEF Tracked
  <2> QED
    BY <2>2, <2>4, <2>6
<1> QED
  BY <1>2, <1>3, <1>4, <1>5, <1>6, <1>7, <1>8, <1>9, <1>10 DEF Next, Walker

LEMMA Invariance == Spec => []IInv
<1> QED
  BY InitIInv, StepIInv, PTL DEF Spec

\* Every variable keeps its type: no register leaves the address space and the
\* chain never outgrows max_depth (stackWalker.cpp:99-113).
THEOREM TypeCorrect == Spec => []TypeOK
<1>1. IInv => TypeOK
  BY DEF IInv, Framed, WalkerTyped, TypeOK
<1> QED
  BY <1>1, Invariance, PTL

\* Whatever is in memory, after n frames a walk is between where it began and
\* n frame sizes above (stackWalker.cpp:45-63).
THEOREM WalksBounded == Spec => []WalkBounded
<1>1. IInv => WalkBounded
  BY DEF IInv, Bounded, WalkBounded
<1> QED
  BY <1>1, Invariance, PTL

\* Every fault of a load is handled where the load is, and the process is left
\* to an earlier handler only by a fault of its own (safeAccess.cpp:41-67).
THEOREM WalksHarmless == Spec => []WalkHarmless
<1>1. IInv => WalkHarmless
  BY DEF IInv, Trapped, WalkHarmless
<1> QED
  BY <1>1, Invariance, PTL

\* The registers saved in a context are those of the C function that called Go,
\* whatever functions lie on the stack (cgotraceback.cpp:146-158,
\* stackWalker.cpp:85-90).
THEOREM ContextsRight == Spec => []ContextRight
<1>1. IInv => ContextRight
  BY DEF IInv, Tracked, ContextRight
<1> QED
  BY <1>1, Invariance, PTL

\* A walk of an intact stack of any functions, in any order and of any depth,
\* stores the pcs of the true frames as far as the tables describe them, and
\* ends where they end (stackWalker.cpp:39-113).
THEOREM WalksRight == Spec => []WalkRight
<1>1. IInv => WalkRight
  <2> SUFFICES ASSUME IInv, at = "done", ~corrupt, exact
               PROVE  /\ \A i \in 1..depth :
                           /\ i <= Len(frames) + 1
                           /\ \A j \in 1..(i - 1) :
                                Described(Len(frames) + 1 - j, frames[Len(frames) + 1 - j].sp)
                           => i <= Len(frames) /\ callchain[i] = frames[Len(frames) + 1 - i].pc
                      /\ (\A j \in 1..Len(frames) : Described(j, frames[j].sp)) =>
                           depth = Min({Len(frames), MaxDepth})
    BY DEF WalkRight
  <2>1. /\ ChainTrue /\ (Good(Len(frames)) => depth = Min({Len(frames), MaxDepth}))
        /\ Len(frames) \in Nat /\ depth \in Nat
    BY DEF IInv, Tracked, Framed, WalkerTyped
  <2>2. ASSUME NEW i \in 1..depth, i <= Len(frames) + 1,
               \A j \in 1..(i - 1) :
                 Described(Len(frames) + 1 - j, frames[Len(frames) + 1 - j].sp)
        PROVE  i <= Len(frames) /\ callchain[i] = frames[Len(frames) + 1 - i].pc
    <3>1. Good(i - 1)
      BY <2>1, <2>2 DEF Good
    <3> QED
      BY <2>1, <3>1 DEF ChainTrue
  <2>3. ASSUME \A j \in 1..Len(frames) : Described(j, frames[j].sp)
        PROVE  depth = Min({Len(frames), MaxDepth})
    <3>1. ASSUME NEW j \in 1..Len(frames)
          PROVE  Described(Len(frames) + 1 - j, frames[Len(frames) + 1 - j].sp)
      <4>1. Len(frames) + 1 - j \in 1..Len(frames)
        BY <2>1
      <4> QED
        BY <2>3, <4>1
    <3>2. Good(Len(frames))
      BY <2>1, <3>1 DEF Good
    <3> QED
      BY <2>1, <3>2
  <2> QED
    BY <2>2, <2>3
<1> QED
  BY <1>1, Invariance, PTL
=============================================================================

--------------------------- MODULE SymbolizerProofs ---------------------------
(***************************************************************************)
(* Proofs about Symbolizer, for any threads, handlers, objects, buffer     *)
(* sizes and numbers of calls: TypeCorrect, ExclusiveLibrary,              *)
(* KnownExecutable and OwnAnswers.                                         *)
(*                                                                         *)
(* The inductive invariant is made of one part for the constructor         *)
(* (Started) and one for each thread (CallOK).  A step of a call changes   *)
(* nothing of another thread but whether the lock is free (Own): so each   *)
(* action is examined once, for the thread that takes it.                  *)
(***************************************************************************)
EXTENDS Symbolizer, TLAPS

Labels == InLibrary \cup {"out", "lock", "check", "dladdr"}
Behind == InLibrary \cup {"check"}
Stored == SUBSET {"func", "file"}

\* The values a call may be left with.
Functions == UNION {Objects[i].functions : i \in DOMAIN Objects}
Lines == UNION {Objects[i].lines : i \in DOMAIN Objects}
Answer ==
  [pc     : Pcs \cup {0},
   func   : {f.name : f \in Functions} \cup {NULL},
   entry  : {f.start : f \in Functions} \cup Junk \cup {0},
   file   : {l.file : l \in Lines} \cup {Objects[i].name : i \in DOMAIN Objects} \cup {NULL},
   lineno : {l.lineno : l \in Lines} \cup {0}]

Typed ==
  /\ label \in [Threads -> Labels]
  /\ args \in [Threads -> Answer]
  /\ answered \in [Threads -> Stored]
  /\ fresh \in [Threads -> BOOLEAN]
  /\ dwfl_lock \in Threads \cup {NoThread}

\* The constructor: the executable is the first object, and it is reported
\* before any other is visited.
Started ==
  /\ at \in {"begin", "executable", "objects", "ready"}
  /\ build \in {"dwfl", "dladdr"}
  /\ len \in Nat /\ path_length \in Nat
  /\ visited \in 0..Len(Objects)
  /\ reported \subseteq 1..visited
  /\ at = "objects" => visited > 0
  /\ ExecutableKnown

\* The function stored is one of the address, or there is none.
FunctionRight(t) ==
  \/ args[t].func = NULL /\ (build = "dwfl" => FunctionsAt(args[t].pc) = {})
  \/ \E f \in FunctionsAt(args[t].pc) : args[t].func = f.name /\ args[t].entry = f.start

LineRight(t) ==
  build = "dwfl" => \E l \in LinesAt(args[t].pc) :
                      args[t].file = l.file /\ args[t].lineno = l.lineno

Untouched(t) == answered[t] = {} /\ (fresh[t] => args[t] = NoAnswer(args[t].pc))

HalfDone(t) ==
  /\ answered[t] = {"func"}
  /\ FunctionRight(t)
  /\ fresh[t] => args[t].file = NULL /\ args[t].lineno = 0

Answered(t) ==
  /\ "func" \in answered[t] => FunctionRight(t)
  /\ "file" \in answered[t] => "func" \in answered[t] /\ LineRight(t)
  /\ fresh[t] /\ "func" \notin answered[t] => args[t] = NoAnswer(args[t].pc)
  /\ fresh[t] /\ "file" \notin answered[t] => args[t].file = NULL /\ args[t].lineno = 0

\* A call: what it has stored by each label, who has the lock and when the
\* session is there.
CallOK(t) ==
  /\ label[t] \in Behind <=> dwfl_lock = t
  /\ label[t] # "out" => at = "ready"
  /\ label[t] = "dladdr" => build = "dladdr"
  /\ label[t] \in InLibrary => dwfl /\ args[t].pc \in Pcs
  /\ label[t] \in Labels \ {"getsrc", "out"} => Untouched(t)
  /\ label[t] = "getsrc" => HalfDone(t)
  /\ label[t] = "out" => Answered(t)

IInv == Typed /\ Started /\ \A t \in Threads : CallOK(t)
-----------------------------------------------------------------------------
(* Helpers.                                                                  *)

LEMMA OneIn ==
  ASSUME NEW S, S # {}
  PROVE  One(S) \in S
BY DEF One

LEMMA NoAnswerType ==
  ASSUME NEW pc \in Pcs \cup {0}
  PROVE  NoAnswer(pc) \in Answer
BY DEF NoAnswer, Answer

\* What the libraries find is of some object.
LEMMA FoundOwn ==
  ASSUME NEW pc
  PROVE  /\ FunctionsAt(pc) \subseteq Functions
         /\ LinesAt(pc) \subseteq Lines
         /\ ObjectsAt(pc) \subseteq DOMAIN Objects
BY DEF FunctionsAt, LinesAt, ObjectsAt, Functions, Lines

\* A function is stored with its entry, or NULL is stored; the other fields
\* stay.
LEMMA StoreFunctionEffect ==
  ASSUME NEW a \in Answer, NEW found \in SUBSET Functions, NEW junk \in Junk \cup {0}
  PROVE  LET b == StoreFunction(a, found, junk) IN
           /\ b \in Answer
           /\ b.pc = a.pc /\ b.file = a.file /\ b.lineno = a.lineno
           /\ \/ found = {} /\ b.func = NULL
              \/ \E f \in found : b.func = f.name /\ b.entry = f.start
<1>1. CASE found = {}
  BY <1>1 DEF StoreFunction, Answer
<1>2. CASE found # {}
  <2>1. PICK f \in found : f = One(found)
    BY <1>2, OneIn
  <2>2. f \in Functions
    OBVIOUS
  <2> QED
    BY <1>2, <2>1, <2>2 DEF StoreFunction, Answer
<1> QED
  BY <1>1, <1>2
-----------------------------------------------------------------------------
(* The steps of a call.                                                      *)

\* A step of t that concerns no other thread, except that t may take the lock
\* when it is free and give back the one it has.
Own(t) ==
  /\ \A u \in Threads \ {t} :
       /\ label'[u] = label[u] /\ args'[u] = args[u]
       /\ answered'[u] = answered[u] /\ fresh'[u] = fresh[u]
  /\ UNCHANGED <<constant, startup>>
  /\ \/ dwfl_lock' = dwfl_lock
     \/ dwfl_lock = NoThread /\ dwfl_lock' = t
     \/ dwfl_lock = t /\ dwfl_lock' = NoThread

LEMMA OthersKeep ==
  ASSUME IInv, NEW t \in Threads, NEW u \in Threads \ {t}, Own(t)
  PROVE  CallOK(u)'
<1>1. CallOK(u) /\ NoThread # u
  BY SymbolizerAssumption DEF IInv
<1>2. dwfl_lock' = u <=> dwfl_lock = u
  BY <1>1 DEF Own
<1>3. /\ label'[u] = label[u] /\ args'[u] = args[u]
      /\ answered'[u] = answered[u] /\ fresh'[u] = fresh[u]
      /\ at' = at /\ build' = build /\ dwfl' = dwfl
  BY DEF Own, constant, startup
<1>4. Untouched(u)' <=> Untouched(u)
  BY <1>3 DEF Untouched
<1>5. FunctionRight(u)' <=> FunctionRight(u)
  BY <1>3 DEF FunctionRight
<1>6. LineRight(u)' <=> LineRight(u)
  BY <1>3 DEF LineRight
<1>7. HalfDone(u)' <=> HalfDone(u)
  BY <1>3, <1>5 DEF HalfDone
<1>8. Answered(u)' <=> Answered(u)
  BY <1>3, <1>5, <1>6 DEF Answered
<1> QED
  BY <1>1, <1>2, <1>3, <1>4, <1>7, <1>8 DEF CallOK

\* What a step of a call has to establish.
LEMMA CallStep ==
  ASSUME IInv, NEW t \in Threads, Own(t), Typed', CallOK(t)'
  PROVE  IInv'
<1>1. Started'
  BY DEF IInv, Own, Started, ExecutableKnown, constant, startup
<1>2. \A u \in Threads : CallOK(u)'
  BY OthersKeep
<1> QED
  BY <1>1, <1>2 DEF IInv

\* A step that only moves t to another label, and perhaps the lock.
LEMMA Moves ==
  ASSUME IInv, NEW t \in Threads, NEW l \in Labels,
         Goto(t, l), UNCHANGED <<constant, startup, args, runtime, answered>>,
         \/ dwfl_lock' = dwfl_lock
         \/ dwfl_lock = NoThread /\ dwfl_lock' = t
         \/ dwfl_lock = t /\ dwfl_lock' = NoThread
  PROVE  /\ Own(t) /\ Typed'
         /\ label'[t] = l
         /\ at' = at /\ build' = build /\ dwfl' = dwfl
         /\ args'[t] = args[t] /\ answered'[t] = answered[t] /\ fresh'[t] = fresh[t]
         /\ Untouched(t)' <=> Untouched(t)
         /\ HalfDone(t)' <=> HalfDone(t)
         /\ Answered(t)' <=> Answered(t)
<1>1. Typed
  BY DEF IInv
<1>2. /\ label'[t] = l
      /\ label' \in [Threads -> Labels]
      /\ \A u \in Threads \ {t} : label'[u] = label[u]
  BY <1>1 DEF Typed, Goto
<1>3. /\ args' = args /\ answered' = answered /\ fresh' = fresh
      /\ at' = at /\ build' = build /\ dwfl' = dwfl
  BY DEF runtime, startup, constant
<1>4. Own(t)
  BY <1>2, <1>3 DEF Own
<1>5. Typed'
  BY <1>1, <1>2, <1>3 DEF Typed
<1>6. /\ FunctionRight(t)' <=> FunctionRight(t)
      /\ LineRight(t)' <=> LineRight(t)
  BY <1>3 DEF FunctionRight, LineRight
<1> QED
  BY <1>2, <1>3, <1>4, <1>5, <1>6 DEF Untouched, HalfDone, Answered

\* The call of t as it is before a step.
LEMMA Before ==
  ASSUME IInv, NEW t \in Threads
  PROVE  /\ Typed /\ Started /\ CallOK(t)
         /\ label[t] \in Labels /\ args[t] \in Answer
         /\ answered[t] \in Stored /\ fresh[t] \in BOOLEAN
         /\ NoThread # t
BY SymbolizerAssumption DEF IInv, Typed

LEMMA LockStep ==
  ASSUME IInv, NEW t \in Threads, Lock(t)
  PROVE  IInv'
<1>1. Untouched(t) /\ at = "ready"
  BY Before DEF Lock, CallOK, Labels, InLibrary
<1>2. Goto(t, "check") /\ dwfl_lock = NoThread /\ dwfl_lock' = t
  BY DEF Lock
<1>3. UNCHANGED <<constant, startup, args, runtime, answered>> /\ "check" \in Labels
  BY DEF Lock, Labels
<1>4. /\ Own(t) /\ Typed' /\ label'[t] = "check"
      /\ at' = at /\ (Untouched(t)' <=> Untouched(t))
  BY <1>2, <1>3, Moves
<1>5. CallOK(t)'
  BY <1>1, <1>2, <1>4 DEF CallOK, Behind, InLibrary
<1> QED
  BY <1>4, <1>5, CallStep

\* A call that stores nothing more gives the lock back and returns.
LEMMA UnlockStep ==
  ASSUME IInv, NEW t \in Threads, label[t] \in Behind, Unlock(t),
         UNCHANGED <<constant, startup, args, runtime, answered>>
  PROVE  IInv'
<1>1. Untouched(t) \/ HalfDone(t)
  BY Before DEF CallOK, Labels, Behind, InLibrary
<1>2. Answered(t)
  <2>1. CASE Untouched(t)
    BY <2>1 DEF Untouched, Answered, NoAnswer
  <2>2. CASE HalfDone(t)
    BY <2>2 DEF HalfDone, Answered
  <2> QED
    BY <1>1, <2>1, <2>2
<1>3. dwfl_lock = t /\ dwfl_lock' = NoThread /\ Goto(t, "out") /\ "out" \in Labels
  BY Before DEF CallOK, Unlock, Labels
<1>4. Own(t) /\ Typed' /\ label'[t] = "out" /\ (Answered(t)' <=> Answered(t))
  BY <1>3, Moves
<1>5. CallOK(t)'
  BY <1>2, <1>3, <1>4, Before DEF CallOK, Behind, InLibrary, Labels
<1> QED
  BY <1>4, <1>5, CallStep

LEMMA ReturnSteps ==
  ASSUME IInv, NEW t \in Threads, CheckReturn(t) \/ NoModule(t) \/ NoLine(t)
  PROVE  IInv'
<1>1. label[t] \in Behind /\ Unlock(t)
  BY DEF CheckReturn, NoModule, NoLine, Behind, InLibrary
<1>2. UNCHANGED <<constant, startup, args, runtime, answered>>
  BY DEF CheckReturn, NoModule, NoLine
<1> QED
  BY <1>1, <1>2, UnlockStep

LEMMA LibrarySteps ==
  ASSUME IInv, NEW t \in Threads, CheckPass(t) \/ Addrmodule(t)
  PROVE  IInv'
<1> DEFINE l == IF label[t] = "check" THEN "addrmodule" ELSE "addrsym"
<1>1. /\ label[t] \in {"check", "addrmodule"}
      /\ Goto(t, l) /\ l \in {"addrmodule", "addrsym"}
      /\ label[t] = "check" => ~NothingToDo(t)
      /\ UNCHANGED <<constant, startup, dwfl_lock, args, runtime, answered>>
  BY DEF CheckPass, Addrmodule
<1> HIDE DEF l
<1>2. Untouched(t) /\ dwfl_lock = t /\ at = "ready"
  BY <1>1, Before DEF CallOK, Labels, Behind, InLibrary
<1>3. dwfl /\ args[t].pc \in Pcs
  BY <1>1, Before DEF CallOK, NothingToDo, InLibrary, Answer
<1>4. /\ Own(t) /\ Typed' /\ label'[t] = l /\ at' = at /\ dwfl' = dwfl
      /\ args'[t] = args[t] /\ (Untouched(t)' <=> Untouched(t))
  BY <1>1, Moves DEF Labels, InLibrary
<1>5. dwfl_lock' = t
  BY <1>1, <1>2
<1>6. CallOK(t)'
  BY <1>1, <1>2, <1>3, <1>4, <1>5 DEF CallOK, Labels, Behind, InLibrary
<1> QED
  BY <1>4, <1>6, CallStep

\* A step that stores a, which answers fields, and moves t to l.
Stores(t, a, fields, l) ==
  /\ args' = [args EXCEPT ![t] = a]
  /\ answered' = [answered EXCEPT ![t] = fields]
  /\ Goto(t, l)
  /\ UNCHANGED <<constant, startup, runtime>>
  /\ dwfl_lock' = dwfl_lock \/ (dwfl_lock = t /\ dwfl_lock' = NoThread)

LEMMA StoringStep ==
  ASSUME IInv, NEW t \in Threads, NEW a \in Answer, NEW fields \in Stored,
         NEW l \in Labels, Stores(t, a, fields, l)
  PROVE  /\ Own(t) /\ Typed'
         /\ label'[t] = l /\ args'[t] = a /\ answered'[t] = fields /\ fresh'[t] = fresh[t]
         /\ at' = at /\ build' = build /\ dwfl' = dwfl
<1>1. Typed
  BY DEF IInv
<1> USE DEF Stores
<1>2. /\ label'[t] = l
      /\ label' \in [Threads -> Labels]
      /\ \A u \in Threads \ {t} : label'[u] = label[u]
  BY <1>1 DEF Typed, Goto
<1>3. /\ args'[t] = a
      /\ args' \in [Threads -> Answer]
      /\ \A u \in Threads \ {t} : args'[u] = args[u]
  BY <1>1 DEF Typed
<1>4. /\ answered'[t] = fields
      /\ answered' \in [Threads -> Stored]
      /\ \A u \in Threads \ {t} : answered'[u] = answered[u]
  BY <1>1 DEF Typed
<1>5. fresh' = fresh /\ at' = at /\ build' = build /\ dwfl' = dwfl
  BY DEF runtime, startup, constant
<1>6. Own(t)
  BY <1>2, <1>3, <1>4, <1>5 DEF Own
<1>7. Typed'
  BY <1>1, <1>2, <1>3, <1>4, <1>5 DEF Typed
<1> QED
  BY <1>2, <1>3, <1>4, <1>5, <1>6, <1>7

LEMMA AddrsymStep ==
  ASSUME IInv, NEW t \in Threads, Addrsym(t)
  PROVE  IInv'
<1>1. PICK junk \in Junk :
        args' = [args EXCEPT ![t] = StoreFunction(@, FunctionsAt(@.pc), junk)]
  BY DEF Addrsym
<1> DEFINE found == FunctionsAt(args[t].pc)
           a == StoreFunction(args[t], found, junk)
<1>2. Untouched(t) /\ dwfl_lock = t /\ at = "ready" /\ dwfl /\ args[t].pc \in Pcs
  BY Before DEF Addrsym, CallOK, Labels, Behind, InLibrary
<1>3. /\ a \in Answer
      /\ a.pc = args[t].pc /\ a.file = args[t].file /\ a.lineno = args[t].lineno
      /\ \/ found = {} /\ a.func = NULL
         \/ \E f \in found : a.func = f.name /\ a.entry = f.start
  BY Before, FoundOwn, StoreFunctionEffect
<1>4. args' = [args EXCEPT ![t] = a]
  BY <1>1
<1> HIDE DEF a
<1>5. answered' = [answered EXCEPT ![t] = {"func"}]
  BY <1>2, Before DEF Addrsym, Untouched, Typed
<1>6. /\ Goto(t, "getsrc") /\ UNCHANGED <<constant, startup, runtime>>
      /\ dwfl_lock' = dwfl_lock /\ "getsrc" \in Labels /\ {"func"} \in Stored
  BY DEF Addrsym, Labels, InLibrary, Stored
<1>7. /\ Own(t) /\ Typed' /\ label'[t] = "getsrc" /\ args'[t] = a /\ answered'[t] = {"func"}
      /\ fresh'[t] = fresh[t] /\ at' = at /\ build' = build /\ dwfl' = dwfl
  <2>1. Stores(t, a, {"func"}, "getsrc")
    BY <1>4, <1>5, <1>6 DEF Stores
  <2> QED
    BY <1>3, <1>6, <2>1, StoringStep
<1>8. HalfDone(t)'
  <2>1. FunctionRight(t)'
    BY <1>3, <1>7 DEF FunctionRight, FunctionsAt, ObjectsAt
  <2>2. fresh[t] => a.file = NULL /\ a.lineno = 0
    BY <1>2, <1>3 DEF Untouched, NoAnswer
  <2> QED
    BY <1>7, <2>1, <2>2 DEF HalfDone
<1>9. CallOK(t)'
  BY <1>2, <1>3, <1>6, <1>7, <1>8 DEF CallOK, Labels, Behind, InLibrary
<1> QED
  BY <1>7, <1>9, CallStep

LEMMA GetsrcStep ==
  ASSUME IInv, NEW t \in Threads, Getsrc(t)
  PROVE  IInv'
<1> DEFINE lines == LinesAt(args[t].pc)
           l == One(lines)
           a == [args[t] EXCEPT !.file = l.file, !.lineno = l.lineno]
<1>1. HalfDone(t) /\ dwfl_lock = t
  BY Before DEF Getsrc, CallOK, Labels, Behind, InLibrary
<1>2. l \in lines /\ l \in Lines
  BY OneIn, FoundOwn DEF Getsrc
<1>3. /\ a \in Answer
      /\ a.pc = args[t].pc /\ a.func = args[t].func /\ a.entry = args[t].entry
      /\ a.file = l.file /\ a.lineno = l.lineno
  BY <1>2, Before DEF Answer
<1>4. args' = [args EXCEPT ![t] = a]
  BY DEF Getsrc
<1> HIDE DEF a, l
<1>5. answered' = [answered EXCEPT ![t] = {"func", "file"}]
  BY <1>1, Before DEF Getsrc, HalfDone, Typed
<1>6. /\ Goto(t, "out") /\ UNCHANGED <<constant, startup, runtime>>
      /\ dwfl_lock' = NoThread /\ "out" \in Labels
      /\ {"func", "file"} \in Stored
  BY DEF Getsrc, Unlock, Labels, Stored
<1>7. /\ Own(t) /\ Typed' /\ label'[t] = "out" /\ args'[t] = a
      /\ answered'[t] = {"func", "file"}
      /\ fresh'[t] = fresh[t] /\ at' = at /\ build' = build /\ dwfl' = dwfl
  <2>1. Stores(t, a, {"func", "file"}, "out")
    BY <1>1, <1>4, <1>5, <1>6 DEF Stores
  <2> QED
    BY <1>3, <1>6, <2>1, StoringStep
<1>8. Answered(t)'
  <2>1. FunctionRight(t)'
    BY <1>1, <1>3, <1>7 DEF HalfDone, FunctionRight, FunctionsAt, ObjectsAt
  <2>2. LineRight(t)'
    BY <1>2, <1>3, <1>7 DEF LineRight, LinesAt, ObjectsAt
  <2> QED
    BY <1>7, <2>1, <2>2 DEF Answered
<1>9. CallOK(t)'
  BY <1>6, <1>7, <1>8, Before DEF CallOK, Labels, Behind, InLibrary
<1> QED
  BY <1>7, <1>9, CallStep

LEMMA DladdrReturnStep ==
  ASSUME IInv, NEW t \in Threads, DladdrReturn(t)
  PROVE  IInv'
<1>1. Untouched(t) /\ dwfl_lock # t
  BY Before DEF DladdrReturn, CallOK, Labels, Behind, InLibrary
<1>2. Answered(t)
  BY <1>1 DEF Untouched, Answered, NoAnswer
<1>3. /\ Goto(t, "out") /\ UNCHANGED <<constant, startup, args, runtime, answered>>
      /\ dwfl_lock' = dwfl_lock /\ "out" \in Labels
  BY DEF DladdrReturn, Labels
<1>4. Own(t) /\ Typed' /\ label'[t] = "out" /\ (Answered(t)' <=> Answered(t))
  BY <1>3, Moves
<1>5. CallOK(t)'
  BY <1>1, <1>2, <1>3, <1>4 DEF CallOK, Behind, InLibrary, Labels
<1> QED
  BY <1>4, <1>5, CallStep

LEMMA DladdrStep ==
  ASSUME IInv, NEW t \in Threads, Dladdr(t)
  PROVE  IInv'
<1> DEFINE objects == ObjectsAt(args[t].pc)
           found == {f \in FunctionsAt(args[t].pc) : f.exported}
           name == Objects[One(objects)].name
           b == StoreFunction(args[t], found, 0)
           a == [b EXCEPT !.file = name]
<1>1. Untouched(t) /\ dwfl_lock # t /\ build = "dladdr"
  BY Before DEF Dladdr, CallOK, Labels, Behind, InLibrary
<1>2. /\ b \in Answer
      /\ b.pc = args[t].pc
      /\ \/ found = {} /\ b.func = NULL
         \/ \E f \in found : b.func = f.name /\ b.entry = f.start
  <2>1. found \in SUBSET Functions
    BY FoundOwn
  <2>2. args[t] \in Answer /\ 0 \in Junk \cup {0}
    BY Before
  <2> HIDE DEF found
  <2> QED
    BY <2>1, <2>2, StoreFunctionEffect
<1>3. name \in {Objects[i].name : i \in DOMAIN Objects}
  BY OneIn, FoundOwn DEF Dladdr
<1>4. args' = [args EXCEPT ![t] = a]
  BY DEF Dladdr
<1> HIDE DEF b, name
<1>5. a \in Answer /\ a.pc = b.pc /\ a.func = b.func /\ a.entry = b.entry
  BY <1>2, <1>3 DEF Answer
<1> HIDE DEF a
<1>6. /\ answered' = [answered EXCEPT ![t] = {"func", "file"}]
      /\ Goto(t, "out") /\ UNCHANGED <<constant, startup, runtime>>
      /\ dwfl_lock' = dwfl_lock /\ "out" \in Labels
      /\ {"func", "file"} \in Stored
  BY DEF Dladdr, Labels, Stored
<1>7. /\ Own(t) /\ Typed' /\ label'[t] = "out" /\ args'[t] = a
      /\ answered'[t] = {"func", "file"}
      /\ fresh'[t] = fresh[t] /\ build' = build
  <2>1. Stores(t, a, {"func", "file"}, "out")
    BY <1>4, <1>6 DEF Stores
  <2> QED
    BY <1>5, <1>6, <2>1, StoringStep
<1>8. Answered(t)'
  <2>1. FunctionRight(t)'
    BY <1>1, <1>2, <1>5, <1>7 DEF FunctionRight, FunctionsAt, ObjectsAt
  <2>2. LineRight(t)'
    BY <1>1, <1>7 DEF LineRight
  <2> QED
    BY <1>7, <2>1, <2>2 DEF Answered
<1>9. CallOK(t)'
  BY <1>1, <1>6, <1>7, <1>8 DEF CallOK, Labels, Behind, InLibrary
<1> QED
  BY <1>7, <1>9, CallStep

\* A new call: its struct is new, or only the pc is set in that of the last one.
LEMMA AskStep ==
  ASSUME IInv, NEW t \in Threads, Ask(t)
  PROVE  IInv'
<1>1. PICK pc \in Pcs \cup {0}, new \in BOOLEAN :
        /\ args' = [args EXCEPT ![t] = IF new THEN NoAnswer(pc) ELSE [@ EXCEPT !.pc = pc]]
        /\ fresh' = [fresh EXCEPT ![t] = new]
  BY DEF Ask
<1> DEFINE a == IF new THEN NoAnswer(pc) ELSE [args[t] EXCEPT !.pc = pc]
           l == IF build = "dwfl" THEN "lock" ELSE "dladdr"
<1>2. a \in Answer /\ a.pc = pc
  BY Before, NoAnswerType DEF Answer, NoAnswer
<1>3. args'[t] = a /\ fresh'[t] = new /\ answered'[t] = {} /\ label'[t] = l
  BY <1>1, Before DEF Ask, Typed
<1>4. /\ at = "ready" /\ label[t] = "out"
      /\ at' = at /\ build' = build /\ dwfl' = dwfl /\ dwfl_lock' = dwfl_lock
      /\ UNCHANGED <<constant, startup>>
  BY DEF Ask, startup, constant
<1>5. Own(t)
  BY <1>1, <1>4, Before DEF Own, Ask, Typed
<1>6. Typed'
  <2>1. label' \in [Threads -> Labels]
    BY Before DEF Ask, Typed, Labels
  <2>2. args' \in [Threads -> Answer]
    BY <1>1, <1>2, Before DEF Typed
  <2>3. answered' \in [Threads -> Stored]
    BY Before DEF Ask, Typed, Stored
  <2>4. fresh' \in [Threads -> BOOLEAN]
    BY <1>1, Before DEF Typed
  <2> QED
    BY <1>4, <2>1, <2>2, <2>3, <2>4, Before DEF Typed
<1>7. Untouched(t)'
  BY <1>3 DEF Untouched, NoAnswer
<1>8. build = "dwfl" \/ build = "dladdr"
  BY Before DEF Started
<1>9. CallOK(t)'
  BY <1>3, <1>4, <1>7, <1>8, Before DEF CallOK, Labels, Behind, InLibrary
<1> QED
  BY <1>5, <1>6, <1>9, CallStep
-----------------------------------------------------------------------------
(* The constructor, and the theorems.                                        *)

\* Before the constructor is done no call is under way: each keeps what it has.
LEMMA ConstructorCalls ==
  ASSUME IInv, Constructor, NEW t \in Threads
  PROVE  CallOK(t)'
<1>1. CallOK(t) /\ label[t] \in Labels
  BY Before
<1>2. /\ label' = label /\ args' = args /\ answered' = answered /\ fresh' = fresh
      /\ build' = build /\ dwfl_lock' = dwfl_lock
      /\ at # "ready"
  BY DEF Constructor, Begin, Readlink, ReadlinkFails, Report, ReportEnd, constant, runtime
<1>3. label[t] = "out" /\ Answered(t) /\ dwfl_lock # t
  BY <1>1, <1>2 DEF CallOK, Behind, InLibrary
<1>4. /\ FunctionRight(t)' <=> FunctionRight(t)
      /\ LineRight(t)' <=> LineRight(t)
  BY <1>2 DEF FunctionRight, LineRight
<1>5. Answered(t)'
  BY <1>2, <1>3, <1>4 DEF Answered
<1> QED
  BY <1>2, <1>3, <1>5 DEF CallOK, Behind, InLibrary, Labels

\* The path is taken only when it did not fill the buffer, and is then whole.
LEMMA ConstructorStarted ==
  ASSUME IInv, Constructor
  PROVE  Started'
<1>1. Started
  BY DEF IInv
<1>2. build' = build /\ path_length' = path_length
  BY DEF Constructor, Begin, Readlink, ReadlinkFails, Report, ReportEnd, constant
<1>3. CASE Begin
  BY <1>1, <1>2, <1>3 DEF Begin, Started, ExecutableKnown
<1>4. CASE Readlink
  <2> DEFINE n == IF path_length < len THEN path_length ELSE len
  <2>1. /\ at = "executable"
        /\ \/ /\ Whole(n)
              /\ at' = "objects" /\ visited' = 1
              /\ reported' = IF n = path_length THEN {1} ELSE {}
              /\ UNCHANGED len
           \/ /\ ~Whole(n)
              /\ len' = 2 * len
              /\ UNCHANGED <<at, visited, reported>>
    BY <1>4 DEF Readlink
  <2>2. Whole(n) => n = path_length
    BY <1>1 DEF Whole, Started
  <2>3. Len(Objects) \in Nat \ {0}
    BY SymbolizerAssumption
  <2>4. CASE Whole(n)
    <3>1. /\ at' = "objects" /\ visited' = 1 /\ reported' = {1} /\ len' = len
      BY <2>1, <2>2, <2>4
    <3> QED
      BY <1>1, <1>2, <2>3, <3>1 DEF Started, ExecutableKnown
  <2>5. CASE ~Whole(n)
    <3>1. /\ at' = at /\ visited' = visited /\ reported' = reported /\ len' = 2 * len
      BY <2>1, <2>5
    <3> QED
      BY <1>1, <1>2, <3>1 DEF Started, ExecutableKnown
  <2> QED
    BY <2>4, <2>5
<1>5. CASE ReadlinkFails \/ ReportEnd
  BY <1>1, <1>2, <1>5 DEF ReadlinkFails, ReportEnd, Started, ExecutableKnown
<1>6. CASE Report
  <2>1. /\ at = "objects" /\ visited < Len(Objects) /\ at' = at /\ len' = len
        /\ visited' = visited + 1
        /\ reported' \in {reported, reported \cup {visited'}}
    BY <1>6 DEF Report
  <2>2. Len(Objects) \in Nat \ {0}
    BY SymbolizerAssumption
  <2> QED
    BY <1>1, <1>2, <2>1, <2>2 DEF Started, ExecutableKnown
<1> QED
  BY <1>3, <1>4, <1>5, <1>6 DEF Constructor

LEMMA ConstructorStep ==
  ASSUME IInv, Constructor
  PROVE  IInv'
<1>1. Typed
  BY DEF IInv
<1>2. Typed'
  BY <1>1 DEF Constructor, Begin, Readlink, ReadlinkFails, Report, ReportEnd, runtime, Typed
<1> QED
  BY <1>2, ConstructorCalls, ConstructorStarted DEF IInv

LEMMA InitIInv == Init => IInv
<1> SUFFICES ASSUME Init PROVE IInv
  OBVIOUS
<1>1. Typed
  BY NoAnswerType DEF Init, Typed, Labels, Stored
<1>2. Started
  <2>1. len \in Nat /\ path_length \in Nat /\ Len(Objects) \in Nat
    BY SymbolizerAssumption DEF Init
  <2> QED
    BY <2>1 DEF Init, Started, ExecutableKnown
<1>3. ASSUME NEW t \in Threads PROVE CallOK(t)
  <2>1. /\ label[t] = "out" /\ args[t] = NoAnswer(0)
        /\ answered[t] = {} /\ dwfl_lock # t
    BY SymbolizerAssumption DEF Init
  <2>2. Answered(t)
    BY <2>1 DEF Answered, NoAnswer
  <2> QED
    BY <2>1, <2>2 DEF CallOK, Labels, Behind, InLibrary
<1> QED
  BY <1>1, <1>2, <1>3 DEF IInv

LEMMA StutterStep ==
  ASSUME IInv, UNCHANGED vars
  PROVE  IInv'
<1>1. /\ label' = label /\ args' = args /\ answered' = answered /\ fresh' = fresh
      /\ build' = build /\ path_length' = path_length
      /\ at' = at /\ len' = len /\ visited' = visited /\ reported' = reported
      /\ dwfl' = dwfl /\ dwfl_lock' = dwfl_lock
  BY DEF vars, constant, startup, runtime
<1> QED
  BY <1>1 DEF IInv, Typed, Started, ExecutableKnown, CallOK, Untouched, HalfDone, Answered,
              FunctionRight, LineRight

LEMMA StepIInv == IInv /\ [Next]_vars => IInv'
<1> SUFFICES ASSUME IInv, [Next]_vars PROVE IInv'
  OBVIOUS
<1>1. CASE Constructor
  BY <1>1, ConstructorStep
<1>2. ASSUME NEW t \in Threads, Ask(t) PROVE IInv'
  BY <1>2, AskStep
<1>3. ASSUME NEW t \in Threads, Symbolize(t) PROVE IInv'
  <2>1. \/ Lock(t) \/ CheckReturn(t) \/ CheckPass(t) \/ NoModule(t) \/ Addrmodule(t)
        \/ Addrsym(t) \/ NoLine(t) \/ Getsrc(t) \/ DladdrReturn(t) \/ Dladdr(t)
    BY <1>3 DEF Symbolize
  <2> QED
    BY <2>1, LockStep, ReturnSteps, LibrarySteps, AddrsymStep, GetsrcStep,
       DladdrReturnStep, DladdrStep
<1>4. CASE UNCHANGED vars
  BY <1>4, StutterStep
<1> QED
  BY <1>1, <1>2, <1>3, <1>4 DEF Next

LEMMA Invariance == Spec => []IInv
<1> QED
  BY InitIInv, StepIInv, PTL DEF Spec

\* Every variable keeps its type, and no thread is in libdwfl without a session
\* and an address to look up (symbolize_dwfl.c:92-96).
THEOREM TypeCorrect == Spec => []TypeOK
<1>1. IInv => TypeOK
  <2> SUFFICES ASSUME IInv PROVE TypeOK
    OBVIOUS
  <2>1. /\ at \in {"begin", "executable", "objects", "ready"}
        /\ reported \subseteq 1..visited /\ visited \in 0..Len(Objects)
    BY DEF IInv, Started
  <2>2. /\ dwfl_lock \in Threads \cup {NoThread}
        /\ label \in [Threads -> InLibrary \cup {"out", "lock", "check", "dladdr"}]
    BY DEF IInv, Typed, Labels
  <2>3. ASSUME NEW t \in Threads
        PROVE  /\ label[t] \in InLibrary => dwfl /\ args[t].pc \in Pcs
               /\ answered[t] \subseteq {"func", "file"}
    BY Before DEF CallOK, Stored
  <2> QED
    BY <2>1, <2>2, <2>3 DEF TypeOK
<1> QED
  BY <1>1, Invariance, PTL

\* However many threads symbolize, at most one is inside of libdwfl, and it has
\* the lock (symbolize_dwfl.c:17, 92).
THEOREM ExclusiveLibrary == Spec => []LibraryExclusive
<1>1. IInv => LibraryExclusive
  BY DEF IInv, CallOK, LibraryExclusive, Behind
<1> QED
  BY <1>1, Invariance, PTL

\* However long the path of the executable is and however small the buffer of
\* full_readlink begins, libdwfl is told the whole path (symbolize_dwfl.c:39-60).
THEOREM KnownExecutable == Spec => []ExecutableKnown
<1>1. IInv => ExecutableKnown
  BY DEF IInv, Started
<1> QED
  BY <1>1, Invariance, PTL

\* What a call has stored when it returns is of its own address, whatever
\* the other threads looked up in the meantime (symbolize_dwfl.c:88-127,
\* symbolize_default.c).
THEOREM OwnAnswers == Spec => []AnswersOwn
<1>1. IInv => AnswersOwn
  <2> SUFFICES ASSUME IInv, NEW t \in Threads, label[t] = "out"
               PROVE  LET a == args[t] IN
                      /\ "func" \in answered[t] => FunctionRight(t)
                      /\ "file" \in answered[t] => "func" \in answered[t] /\ LineRight(t)
                      /\ fresh[t] /\ "func" \notin answered[t] => a = NoAnswer(a.pc)
                      /\ fresh[t] /\ "file" \notin answered[t] => a.file = NULL /\ a.lineno = 0
    BY DEF AnswersOwn, FunctionRight, LineRight
  <2>1. Answered(t)
    BY Before DEF CallOK
  <2> QED
    BY <2>1 DEF Answered
<1> QED
  BY <1>1, Invariance, PTL
=============================================================================

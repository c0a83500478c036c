------------------------------- MODULE Symbolizer -------------------------------
(***************************************************************************)
(* The symbolizer: cgo_symbolizer with libdwfl behind a lock, and the      *)
(* constructor that reports the loaded objects to libdwfl                  *)
(* (symbolize_dwfl.c), or with dladdr (symbolize_default.c).               *)
(*                                                                         *)
(* The runtime calls it on any thread, and either with a new struct or     *)
(* with the struct of its last call, in which only pc is set again.  A     *)
(* signal handler that prints a traceback calls it on the thread it        *)
(* interrupts, which may be inside of it; the mutex does not know that.    *)
(* libdwfl and dladdr are external: what they find is read from Objects.   *)
(***************************************************************************)
EXTENDS Integers, Sequences, FiniteSets

CONSTANTS
  Threads,      \* threads, and the signal handlers that run on them
  Host,         \* signal handlers -> the thread each interrupts
  Objects,      \* what dl_iterate_phdr visits, the executable first
  Pcs,          \* the addresses asked for
  FirstLen,     \* the first size of full_readlink's buffer
  PathLengths,  \* lengths the path of the executable may have
  Junk,         \* what an unwritten GElf_Sym may hold
  MaxCalls      \* bound: calls of each thread

NoThread == "no thread"
NULL == "NULL"

\* An object: the addresses it takes, whether it is a file that can be opened,
\* its functions and its line table.
ASSUME SymbolizerAssumption ==
  /\ NoThread \notin Threads
  /\ FirstLen \in Nat \ {0} /\ PathLengths \subseteq Nat \ {0}
  /\ MaxCalls \in [Threads -> Nat]
  /\ DOMAIN Host \subseteq Threads /\ \A h \in DOMAIN Host : Host[h] \in Threads \ DOMAIN Host
  /\ 0 \notin Pcs /\ Len(Objects) \in Nat \ {0} /\ Objects[1].file

VARIABLES
  build,        \* "dwfl" or "dladdr", the file the build tag selects
  at,           \* progress of the constructor
  path_length,  \* of the executable
  len,          \* of full_readlink's buffer
  visited, reported,
  dwfl,         \* is there a session
  dwfl_lock,
  label, args,
  calls,        \* calls per thread
  fresh,        \* history: was the struct of the call a new one
  answered      \* history: the fields the call has stored

startup == <<at, len, visited, reported, dwfl>>
constant == <<build, path_length>>
runtime == <<calls, fresh>>
vars == <<constant, startup, dwfl_lock, label, args, runtime, answered>>

NoAnswer(pc) == [pc |-> pc, func |-> NULL, entry |-> 0, file |-> NULL, lineno |-> 0]

Init ==
  /\ build \in {"dwfl", "dladdr"} /\ path_length \in PathLengths
  /\ at = IF build = "dwfl" THEN "begin" ELSE "ready"
  /\ len = FirstLen /\ visited = 0 /\ reported = {}
  /\ dwfl = FALSE /\ dwfl_lock = NoThread
  /\ label = [t \in Threads |-> "out"]
  /\ args = [t \in Threads |-> NoAnswer(0)]
  /\ calls = [t \in Threads |-> 0] /\ fresh = [t \in Threads |-> TRUE]
  /\ answered = [t \in Threads |-> {}]

-----------------------------------------------------------------------------
(* The constructor.                                                          *)

\* dwfl_begin fails, or starts a session.
Begin ==
  /\ at = "begin"
  /\ \/ dwfl' = FALSE /\ at' = "ready"
     \/ dwfl' = TRUE /\ at' = "executable"
  /\ UNCHANGED <<constant, len, visited, reported, dwfl_lock, label, args, runtime, answered>>

\* Mutant: a path that fills the buffer is taken.
WholeOrFull(n) == n <= len

\* readlink stores n bytes; if they do not fill the buffer the path is whole.
Whole(n) == n < len

\* One round of full_readlink, and the report of the executable.  libdwfl can
\* open it only by its whole path.
Readlink ==
  /\ at = "executable"
  /\ LET n == IF path_length < len THEN path_length ELSE len IN
       \/ /\ Whole(n)
          /\ at' = "objects" /\ visited' = 1
          /\ reported' = IF n = path_length THEN {1} ELSE {}
          /\ UNCHANGED len
       \/ /\ ~Whole(n)
          /\ len' = 2 * len
          /\ UNCHANGED <<at, visited, reported>>
  /\ UNCHANGED <<constant, dwfl, dwfl_lock, label, args, runtime, answered>>

\* calloc or readlink fails: the callback returns 1, and no object is visited.
ReadlinkFails ==
  /\ at = "executable"
  /\ at' = "ready"
  /\ UNCHANGED <<constant, len, visited, reported, dwfl, dwfl_lock, label, args, runtime, answered>>

\* dl_callback for an object that is not the executable.
Report ==
  /\ at = "objects" /\ visited < Len(Objects)
  /\ visited' = visited + 1
  /\ reported' = IF Objects[visited'].file THEN reported \cup {visited'} ELSE reported
  /\ UNCHANGED <<constant, at, len, dwfl, dwfl_lock, label, args, runtime, answered>>

ReportEnd ==
  /\ at = "objects" /\ visited = Len(Objects)
  /\ at' = "ready"
  /\ UNCHANGED <<constant, len, visited, reported, dwfl, dwfl_lock, label, args, runtime, answered>>

-----------------------------------------------------------------------------
(* What the libraries find.                                                  *)

Contains(r, pc) == r.start <= pc /\ pc < r.end
ObjectsAt(pc) == {i \in DOMAIN Objects : Contains(Objects[i], pc)}
FunctionsAt(pc) == UNION {{f \in Objects[i].functions : Contains(f, pc)} : i \in ObjectsAt(pc)}
LinesAt(pc) == UNION {{l \in Objects[i].lines : l.pc = pc} : i \in ObjectsAt(pc)}
One(set) == CHOOSE x \in set : TRUE

-----------------------------------------------------------------------------
(* The runtime asks for an address, or for 0 when it is done with one.       *)

\* A thread stands still while a handler runs on it.
Interrupted(t) == \E h \in DOMAIN Host : Host[h] = t /\ label[h] # "out"

Ask(t) ==
  /\ at = "ready" /\ label[t] = "out" /\ calls[t] < MaxCalls[t] /\ ~Interrupted(t)
  /\ \E pc \in Pcs \cup {0}, new \in BOOLEAN :
       /\ calls[t] = 0 => new
       /\ args' = [args EXCEPT ![t] = IF new THEN NoAnswer(pc) ELSE [@ EXCEPT !.pc = pc]]
       /\ fresh' = [fresh EXCEPT ![t] = new]
  /\ calls' = [calls EXCEPT ![t] = @ + 1]
  /\ answered' = [answered EXCEPT ![t] = {}]
  /\ label' = [label EXCEPT ![t] = IF build = "dwfl" THEN "lock" ELSE "dladdr"]
  /\ UNCHANGED <<constant, startup, dwfl_lock>>

Goto(t, l) == label' = [label EXCEPT ![t] = l]

\* cgo_symbolizer of symbolize_dwfl.c.

\* Mutant: the lock is taken without waiting for it.
LockTry(t) ==
  /\ label[t] = "lock"
  /\ dwfl_lock' = t
  /\ Goto(t, "check")
  /\ UNCHANGED <<constant, startup, args, runtime, answered>>

Lock(t) ==
  /\ label[t] = "lock" /\ dwfl_lock = NoThread
  /\ dwfl_lock' = t
  /\ Goto(t, "check")
  /\ UNCHANGED <<constant, startup, args, runtime, answered>>

Unlock(t) == dwfl_lock' = NoThread /\ Goto(t, "out")

\* Mutant: a session is taken for granted.
NothingToDoUnchecked(t) == args[t].pc = 0

NothingToDo(t) == ~dwfl \/ args[t].pc = 0

CheckReturn(t) ==
  /\ label[t] = "check" /\ NothingToDo(t)
  /\ Unlock(t)
  /\ UNCHANGED <<constant, startup, args, runtime, answered>>

CheckPass(t) ==
  /\ label[t] = "check" /\ ~NothingToDo(t)
  /\ Goto(t, "addrmodule")
  /\ UNCHANGED <<constant, startup, dwfl_lock, args, runtime, answered>>

\* Mutant: the return for an address in no module keeps the lock.
NoModuleLocked(t) ==
  /\ label[t] = "addrmodule" /\ ObjectsAt(args[t].pc) \cap reported = {}
  /\ Goto(t, "out")
  /\ UNCHANGED <<constant, startup, dwfl_lock, args, runtime, answered>>

NoModule(t) ==
  /\ label[t] = "addrmodule" /\ ObjectsAt(args[t].pc) \cap reported = {}
  /\ Unlock(t)
  /\ UNCHANGED <<constant, startup, args, runtime, answered>>

Addrmodule(t) ==
  /\ label[t] = "addrmodule" /\ ObjectsAt(args[t].pc) \cap reported # {}
  /\ Goto(t, "addrsym")
  /\ UNCHANGED <<constant, startup, dwfl_lock, args, runtime, answered>>

\* Mutant: func and entry are stored only if there is a symbol.
StoreFunctionFound(a, found, junk) ==
  IF found = {} THEN a
  ELSE [a EXCEPT !.func = One(found).name, !.entry = One(found).start]

\* With no symbol for the address the entry comes from an unwritten structure.
StoreFunction(a, found, junk) ==
  IF found = {} THEN [a EXCEPT !.func = NULL, !.entry = junk]
  ELSE [a EXCEPT !.func = One(found).name, !.entry = One(found).start]

Addrsym(t) ==
  /\ label[t] = "addrsym"
  /\ \E junk \in Junk :
       args' = [args EXCEPT ![t] = StoreFunction(@, FunctionsAt(@.pc), junk)]
  /\ answered' = [answered EXCEPT ![t] = @ \cup {"func"}]
  /\ Goto(t, "getsrc")
  /\ UNCHANGED <<constant, startup, dwfl_lock, runtime>>

NoLine(t) ==
  /\ label[t] = "getsrc" /\ LinesAt(args[t].pc) = {}
  /\ Unlock(t)
  /\ UNCHANGED <<constant, startup, args, runtime, answered>>

Getsrc(t) ==
  /\ label[t] = "getsrc" /\ LinesAt(args[t].pc) # {}
  /\ LET l == One(LinesAt(args[t].pc)) IN
       args' = [args EXCEPT ![t] = [@ EXCEPT !.file = l.file, !.lineno = l.lineno]]
  /\ answered' = [answered EXCEPT ![t] = @ \cup {"file"}]
  /\ Unlock(t)
  /\ UNCHANGED <<constant, startup, runtime>>

\* cgo_symbolizer of symbolize_default.c: dladdr knows the exported functions
\* of every loaded object, and gives its path in place of a source file.
DladdrReturn(t) ==
  /\ label[t] = "dladdr" /\ (args[t].pc = 0 \/ ObjectsAt(args[t].pc) = {})
  /\ Goto(t, "out")
  /\ UNCHANGED <<constant, startup, dwfl_lock, args, runtime, answered>>

Dladdr(t) ==
  /\ label[t] = "dladdr" /\ args[t].pc # 0 /\ ObjectsAt(args[t].pc) # {}
  /\ LET pc == args[t].pc
         found == {f \in FunctionsAt(pc) : f.exported}
     IN  args' = [args EXCEPT ![t] =
                   [StoreFunction(@, found, 0) EXCEPT !.file = Objects[One(ObjectsAt(pc))].name]]
  /\ answered' = [answered EXCEPT ![t] = {"func", "file"}]
  /\ Goto(t, "out")
  /\ UNCHANGED <<constant, startup, dwfl_lock, runtime>>

Constructor == Begin \/ Readlink \/ ReadlinkFails \/ Report \/ ReportEnd
Symbolize(t) ==
  /\ ~Interrupted(t)
  /\ \/ Lock(t) \/ CheckReturn(t) \/ CheckPass(t) \/ NoModule(t) \/ Addrmodule(t)
     \/ Addrsym(t) \/ NoLine(t) \/ Getsrc(t) \/ DladdrReturn(t) \/ Dladdr(t)

Next == Constructor \/ \E t \in Threads : Ask(t) \/ Symbolize(t)
Spec == Init /\ [][Next]_vars
FairSpec == Spec /\ \A t \in Threads : WF_vars(Symbolize(t))

-----------------------------------------------------------------------------
(* Properties.                                                               *)

InLibrary == {"addrmodule", "addrsym", "getsrc"}

\* Types; a thread is in libdwfl only with a session, and the lock has the
\* thread that is behind it (symbolize_dwfl.c:92-96).
TypeOK ==
  /\ at \in {"begin", "executable", "objects", "ready"}
  /\ reported \subseteq 1..visited /\ visited \in 0..Len(Objects)
  /\ dwfl_lock \in Threads \cup {NoThread}
  /\ label \in [Threads -> InLibrary \cup {"out", "lock", "check", "dladdr"}]
  /\ \A t \in Threads :
       /\ label[t] \in InLibrary => dwfl /\ args[t].pc \in Pcs
       /\ answered[t] \subseteq {"func", "file"}

\* libdwfl is not made for threads: no two threads are ever inside of it
\* together, and one that is has the lock (symbolize_dwfl.c:17, 92).
LibraryExclusive ==
  \A t \in Threads : label[t] \in InLibrary \cup {"check"} =>
    /\ dwfl_lock = t
    /\ \A u \in Threads \ {t} : label[u] \notin InLibrary

\* However long the path of the executable is, libdwfl can open it: the path
\* is never cut at the end of the buffer (full_readlink).
ExecutableKnown == visited > 0 => 1 \in reported

\* When a call returns, the fields it stored are of its address, a file never
\* comes without its function, and a new struct has nothing else.  The fields
\* a call does not store in a used struct are those of an earlier address.
AnswersOwn ==
  \A t \in Threads : label[t] = "out" =>
    LET a == args[t] IN
    /\ "func" \in answered[t] =>
         \/ a.func = NULL /\ (build = "dwfl" => FunctionsAt(a.pc) = {})
         \/ \E f \in FunctionsAt(a.pc) : a.func = f.name /\ a.entry = f.start
    /\ "file" \in answered[t] =>
         /\ "func" \in answered[t]
         /\ build = "dwfl" => \E l \in LinesAt(a.pc) : a.file = l.file /\ a.lineno = l.lineno
    /\ fresh[t] /\ "func" \notin answered[t] => a = NoAnswer(a.pc)
    /\ fresh[t] /\ "file" \notin answered[t] => a.file = NULL /\ a.lineno = 0

\* A handler waits for the lock of the call it interrupted.
SelfDeadlock == \E h \in DOMAIN Host : label[h] = "lock" /\ dwfl_lock = Host[h]

\* Every call returns, whatever the calls of the other threads do: no return
\* keeps the lock.  There is one way out of that, for the whole program: a
\* signal handler symbolizes on a thread that is behind the lock
\* (symbolize_dwfl.c:92).
CallsReturn == \A t \in Threads : label[t] # "out" ~> label[t] = "out" \/ SelfDeadlock
=============================================================================

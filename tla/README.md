# A TLA+ model of cgotraceback

`cgotraceback` gives the Go runtime three callbacks (`runtime.SetCgoTraceback`):
one saves where C code called Go, one unwinds C code, one names addresses. They
run in signal handlers, in the middle of calls between C and Go, and on other
threads than the one whose stack is unwound. This directory models them, checks
the models with TLC and proves part of what the runs show with TLAPS.

## The system

Paths are relative to the repository's `internal/async-profiler/` where they
have no other prefix.

| component | state | operations | hard part |
|---|---|---|---|
| context and traceback callbacks (`cgotraceback.cpp`) | `cgo_contexts`, a thread-local pool of 256 slots (`inuse`, `cached`, saved registers, a cached stack of 32 entries); `enabled` | `async_cgo_context` (get a slot or release one), `async_cgo_traceback` (of a context, or of interrupted C code), `truncate_asmcgocall`, `SetEnabled` | plain fields read and written with signals and other threads in between; reuse of slots; an exhausted pool |
| stack walker (`stackWalker.cpp`) | the registers of a walk | `stackWalk`, `stepStackContext`, `populateStackContext` | a corrupt or foreign stack; the limits of a walk |
| DWARF frame table (`dwarf.cpp`, `dwarf.h`) | `_table`, `_count`, `_capacity`, `_prev`; `_ptr`; registers of the unwinding program | `parse`, `parseCie`, `parseFde`, `parseInstructions`, `parseExpression`, `addRecord` | records merged or replaced; a sorted table without a sort; operands without a length |
| frame table lookup (`codeCache.cpp:206-235`) | the table, read only | `findFrameDesc` | the edges of the binary search |
| code cache symbols (`codeCache.cpp`) | `_blobs` | `add`, `sort`, `find`, `findSymbol` | the address a symbol is recorded at |
| start-up (`cgotraceback.cpp:23-49`, `symbols_linux.cpp`, `symbols_darwin.cpp`) | the array of libraries, the bounds of asmcgocall | `parseLibraries`, the constructor | image bases and slides |
| safe memory access (`safeAccess.cpp`) | the handler of SIGSEGV installed before | `load`, `segv_handler` | who sees which fault |
| registers per architecture (`stackFrame*.cpp`) | none | accessors | none |
| symbolizers (`symbolize_dwfl.c`, `symbolize_default.c`) | `dwfl`, a lock | `cgo_symbolizer` | a signal or a crash while the lock is held |
| registration (`cgotraceback.go`) | none | `init`, `setEnabled` | none |

How they interact: C code that calls an exported Go function runs, on the same
thread, `async_cgo_context` with a null pointer. It takes a slot, saves the
registers two frames up (two steps of the walker) and returns the slot to the
runtime, which keeps it with the goroutine and passes it back twice: to
`async_cgo_traceback` whenever the goroutine is unwound, and to
`async_cgo_context` when the Go function returns. The first unwinding of a
context walks the C stack and caches the result in the slot. Unwinding needs
the frame tables built at start-up and the bounds of `runtime.asmcgocall`,
behind which the C stack belongs to the Go code below. A profiling signal in C
code unwinds that code directly, into the runtime's buffer.

What makes each part correct:

- pool: two nested calls never share a slot; a slot taken is given back; a call
  goes without only when all slots are taken;
- unwinding: a report consists of the frames of the call the context was made
  for, all of them up to the limits, and nothing else; unwinding twice gives the
  same result; a callback returns;
- frame table: it is sorted, stays in its memory, and a lookup gives for a pc
  the rule its function's unwinding program gives, or nothing outside of every
  function;
- walker: with the right tables it gives the true frames; whatever it reads, it
  moves up the stack, survives faults and ends;
- start-up: every file gets its own symbols and frame table, only mapped memory
  is read, and the bounds of asmcgocall contain exactly its addresses;
- symbolizer: one thread at a time in libdwfl, every call returns, and what it
  stores belongs to the address asked for.

## The modules

| module | models | uses |
|---|---|---|
| `ContextStack` | what the pool promises: contexts handed out and given back in stack order, none only beyond `PoolSize` nested calls | |
| `CgoContext` | `cgotraceback.cpp` but for its constructor, and the loop of `stackWalk` | implements `ContextStack` |
| `MCCgoContext` | call chains for the runs | `CgoContext` |
| `MCCgoReturns` | three kinds of programs, for the run with liveness | `MCCgoContext` |
| `CgoContextProofs` | theorems about `CgoContext`: types, slots, the frames of a report | `CgoContext`, TLAPS |
| `CgoContextExactProofs` | that reports have no frame too many, and that the pool is a stack | `CgoContextProofs` |
| `FrameTable` | `DwarfParser` and `CodeCache::findFrameDesc` | |
| `MCFrameTable` | values for the runs | `FrameTable` |
| `FrameTableProofs` | theorems about `FrameTable` | `FrameTable`, TLAPS |
| `DwarfReader` | the bytes of the unwinding programs: the getters of `dwarf.h`, the operands of every opcode, `parseCie`, `parseExpression`, and how the walker takes a record apart | implements `FrameTable` |
| `MCDwarfReader` | instructions in every encoding | `DwarfReader`, `MCFrameTable` |
| `DwarfReaderProofs` | theorems about `DwarfReader`, and those of `FrameTableProofs` carried over | `DwarfReader`, `FrameTableProofs` |
| `StackWalk` | `stackWalker.cpp`, `safeAccess.cpp` and the calls `cgotraceback.cpp` makes to them | |
| `MCStackWalk` | a C program with its functions and libraries | `StackWalk` |
| `StackWalkProofs` | theorems about `StackWalk` | `StackWalk`, TLAPS |
| `Image` | `symbols_linux.cpp`, the symbols of `codeCache.cpp`, the constructor of `cgotraceback.cpp` | |
| `MCImage` | files a process may map | `Image` |
| `ImageProofs` | theorems about `Image` | `Image`, TLAPS |
| `MachImage` | `symbols_darwin.cpp`, and the same constructor behind it | `Image` |
| `MCMachImage` | images of dyld | `MachImage`, `MCImage` |
| `MachImageProofs` | theorems about the part of `MachImage` that is macOS | `MachImage`, `ImageProofs` |
| `Symbolizer` | `symbolize_dwfl.c`, `symbolize_default.c` | |
| `MCSymbolizer` | loaded objects | `Symbolizer` |
| `SymbolizerProofs` | theorems about `Symbolizer` | `Symbolizer`, TLAPS |

The parts meet in data that each module takes as a constant or as a choice: the
call chains of `CgoContext` are what `StackWalk` produces, the rules of its
libraries are what a lookup of `FrameTable` finds, the library ranges are what
`Image` builds. They run one after the other (start-up before every callback)
or as one call inside of another on one thread, so that no interleaving is
lost between the modules; the interleavings of the callbacks are in
`CgoContext`, where a step of the walk is one action.

### CgoContext

One thread and its pool. `act[1..top]` are the activations on the thread's
stack: calls of the two callbacks, Go functions called from C (`"go"`), signal
handlers (`"sig"`). Only the newest one runs. `act[0]` is another thread of the
runtime, the observer. Each label of an activation is a place between two
accesses to shared memory, and every read or write of `inuse`, `cached`, the
saved registers and one entry of a cached stack is a step:
`ContextEnter, GetScan, GetTake, GetReset, ContextSave` are the first call of
`async_cgo_context`, `ReleaseEnter, ReleaseClear` the second,
`TracebackEnter, TracebackCheck, WalkStep, TracebackTruncate, TracebackMark,
TracebackCopy` the unwinding of a context, `TracebackDirect` the unwinding of
interrupted C code (it writes only its caller's buffer, so it is one step).

Two things are coarser than a memory access. `TracebackTruncate` scans and
writes in one step: two walks of one context store the same chain, so that
where the scan of one finds asmcgocall does not depend on the other.
`TracebackCopy` copies the stack in one step. Memory is sequentially
consistent: the reordering of the plain fields on weakly ordered machines, when
the observer is on another core, is not in the model.

Addresses are small numbers. A *site* is a place from which C calls Go, and
`Walk[site]` is the chain of return addresses stackWalk stores from there; 0 is
the terminator. `reports` and `direct` are history: the buffers Go received.

The runtime is external, and modelled as the callers this code relies on:

- the runtime calls the release only for a call that got a context, and forgets
  the context first (`GoReturn`);
- a goroutine does not return to C while another thread unwinds it, and a
  goroutine that unwinds itself is not unwound by another thread at the same
  time, unless its unwinding is that of a signal handler;
- Go installs its signal handlers with all signals blocked, so handlers do not
  nest (`Signal`), and a handler unwinds the contexts of the goroutine it
  interrupted (`CallTraceback`);
- a handler that C code installed may call Go (`CallGo` from `HandlerSites`), on
  top of any step of the callbacks: the case the comment at
  `cgotraceback.cpp:84-87` worries about. A handler that calls Go returns only
  when its Go function does, which nothing obliges it to, so the runs of liveness
  have no `HandlerSites`.

### FrameTable

The unwinding programs are chosen by TLC one instruction at a time: `ParseFde`
starts a function behind the last one (the linker sorts `.eh_frame_hdr`),
`Advance`, `DefCfa`, ... are the cases of the switch, `LastRow`,
`UnknownInstruction` and `EndFde` the ways out. `AddRecord` is `addRecord` with
`addRecordRaw`. `_prev` always is the last record, so it is not a variable of
its own. `FindFrameDesc`, `SearchStep` and `SearchEnd` are the lookup, one
round of the loop at a time. `rows` and `spans` are history: the rule each
program gives for each range of addresses, and the functions' ranges. They say
what a lookup should find.

Left out of this module: bytes (they are in `DwarfReader`), the 32-bit wrap of
addresses, `pc_off` (assigned, never read), instructions that only skip
operands, malformed tables.

### DwarfReader

`FrameTable` chooses instructions together with their operands; here a compiler
chooses an instruction, encodes it (`Encode`: fixed numbers, LEB128 with and
without padding, blocks), and the parser gets the bytes. `Get` are the getters
of `dwarf.h`, `Reads` says which of them each case of the two switches calls,
`Execute` what it then does, as an action of `FrameTable`. What an opcode has
behind it is in `Takes`, from the standard and not from the code, so that a wrong
getter would be seen. `Reading` keeps what was read of an instruction and whether
that is what was encoded, up to its last byte; whether it is does not depend on
the state, so that TLC computes it once.
`ParseCie` finds the alignment factors behind the augmentation string,
`parseExpression` runs the operations it knows over `pc_off` and one number, both
ints; each operation is read from bytes of its own, and the length that ends the
loop is their number.

`meant` is the compiler's side: the rule an instruction means, in the words of
`StackWalk` (a register and an offset for the CFA; the same, saved or a distance
to another pc for the frame pointer), with the state it remembers.
`Unpacked` is the other end, `stepStackContext` taking `cfa` and `fp_off` of a
record apart, with its limit on the distance of a saved frame pointer (`Near`).
So `RuleMeant` spans the whole way from the bytes to the walker.
`DW_CFA_restore` is ignored by the parser: `lost` is set from there on, and the
frame pointer part of `RuleMeant` is no longer claimed, because it is wrong:
records keep the place where the register was saved, and behind an epilogue that
restored it a walker loads whatever lies there by then.

`bytes` is chosen once: with it a program is read from bytes, without it the
module is `FrameTable` as it is. `TableRefined` is the refinement: whatever the
encoding, a step over bytes is a step of `FrameTable` with operands from its
constants, so that what is proved of `FrameTable` holds for tables read from
bytes. Numbers have `Width` bits in place of 32. What a compiler may emit
is stated by the hypotheses `InstructionsRight`, `RulesFit` and `FactorsFit`,
which the module of the run assumes.

### StackWalk

The upper part of the module is the C program: `Enter` makes the frame of a
function as compilers lay it out (with a frame pointer, without, with the
register pushed but used for something else, a stub of the PLT, a cold part of
a function), and `frames` records the true registers. `TrueRule` is the rule a
compiler emits for it. `Corrupt` lets every word of the stack hold anything.
`Step`, `Load` and `Returned` are `stepStackContext`, split at its loads because
each may fault: then `trap` is the pc of the faulting access and only
`segv_handler` can go on. It knows nothing but that pc: `InLoad` is the test of
16 bytes from the beginning of `load`, with a difference that wraps, and
`skipFaultInstruction` the length of a `mov` (x86-64) or 0, upon which `Resume`
does the access again or goes on behind it with 0. A build may have the access
at any of `LoadPcs`, behind a prologue or not (`cgotraceback.go:4` has
`-fno-omit-frame-pointer`), and the program's own code, which faults by
`CodeFault`, lies on both sides of `load`. `LoadAssumption` says what the
recognition relies on: `load` is aligned to 16 bytes, its access is a `mov` in
the first 16, and no other function begins there.
`StackWalk` is one round of the loop. A walk starts from a signal
(`WalkInterrupted`) or, after the two steps of `async_cgo_context` and the
return of two functions (`SaveContext` forgets what lies below, as other calls
reuse it), from a saved context (`WalkContext`). Addresses have the width
`Space`, and sums wrap, as the unsigned sums of the code do.

`OldActions` are the dispositions of SIGSEGV the constructor may have found. A
handler gets the signal; the default and SIG_IGN kill the process. The last is a
detour: handler and function pointer share their storage, so that the code calls
address 1 and faults with SIGSEGV blocked, upon which the kernel ends the
process, as it does for a fault that is ignored. `README.md:13` beside the
sources says "The SEGV handler functionality is not used."; the constructor at
`safeAccess.cpp:70-78` installs the handler all the same, and the loads of every
walk rely on it, so it is modelled as used.

### Image

`Map` is the loader: it puts files, anonymous memory and the vdso behind each
other, with or without gaps; `maps` are the lines of `/proc/self/maps`. Then
`ParseLine` reads one line (`SkipLine`, `PlainLine`, `ExecutableLine`), and
`FindAsmcgocall` searches one library. A file is given by its sections: a set
of symbols for `.symtab`, for its debug file and for `.dynsym`, whether it has
`.eh_frame_hdr`, its segments and its dynamic section. `HeaderAt` says whose ELF
header lies at an address, which is what `validHeader` tests. `probed` is
history: the addresses at which `parseProgramHeaders` read, which are the header,
the dynamic section and the relocations.

The dynamic section is an array of tags whose order does not matter; it is a
record here. `DynamicPointer` is the loader: glibc adds the bias to the pointers
in it, musl does not, and `DynPtr` is the code's guess which of the two it was.
`MmapMin` is what that guess relies on: no mapping lies below an address that
is as large as a file. `GlobalOffsetTable` has both ways to the bounds of the
GOT, from the size of the PLT's relocations and from the highest relocation.
Nothing reads these bounds today; the way to them reads memory of the process,
which is why it is modelled.

`parsed_libraries` is left out: the set begins empty, and two lines never begin
at one address. A library keeps its symbols as a set; `First` is the order that
`sort` gives, for the first match of `find` and `findSymbol`. The names of PLT
stubs are left out.

### MachImage

The same start-up on macOS. `os` is the choice of the `#ifdef`; on Linux the
module is `Image`. dyld is external: `MapImage` puts an image at a slide where
it fits. `ParseImage` is one round of the loop in `parseLibraries` (`SkipImage`,
`AddImage`, `NoRoom`), and `MachLibrary` runs `MachOParser::parse` over the load
commands, `Command` being one of them: `TextSegment` sets the text base and the
bounds, `ReadOnlySegment` the base of the symbol table, `DataSegment` the GOT,
and `SymbolTable` adds the symbols, with length 0, and stops. dyld loads and
unloads nothing while the constructor runs; the `dlopen` that guards against it
may fail (`opens`), as for an image whose file is gone.

### Symbolizer

`Begin`, `Readlink` (one round of `full_readlink`), `ReadlinkFails`, `Report`
and `ReportEnd` are the constructor. `Ask` is the runtime, which calls with a
new struct or with the one of the last call; the other actions are one step of
a thread in `cgo_symbolizer` each, and a thread at `addrmodule`, `addrsym` or
`getsrc` is inside of libdwfl. `Host` says on which thread a signal handler runs
that symbolizes (the runtime prints a traceback from its handlers of SIGQUIT and
of crashes): it may start between any two steps of that thread, which stands
still until the handler has returned. What the libraries find is read from `Objects`.
An entry read from the `GElf_Sym` that was not written may be any of `Junk`.

## The runs

| run | expected | question |
|---|---|---|
| `ctx_signals` | holds | nested calls, a signal at every step, handlers that call Go, an observer, a buffer shorter than a cached stack: is a slot exclusive, given back, are the frames of a call always reported, does the pool implement `ContextStack`? |
| `ctx_returns` | holds | `SetEnabled` at any time. Nested calls with chains that fill the cached stack: are reports exact, are slots still exclusive, does the context function return? Signals in C code: is its unwinding exact? Overlapping unwindings of one context: does each of them end? |
| `ctx_stale` | violated | chains shorter than the cached stack: `ReportExact` fails |
| `ctx_race` | violated | two overlapping unwindings of one context: `RepeatedUnwindSame` fails |
| `ctx_leak` | violated | collection disabled while Go runs: `NoLeak` fails |
| `frame_table` | holds | every program on a small image: is the table sorted and inside its memory, is what a lookup finds right, does the search end? And from bytes: are operands read whole in every encoding, is the rule the one that was meant, is each step one of `FrameTable`? |
| `frame_gap` | violated | is every pc with a rule found? |
| `stack_walk` | holds | every call sequence of a C program, an intact or overwritten stack, faults at every load: are the true frames found, does the walk stay harmless, does it end? |
| `image` | holds | Linux, every layout of five mappings: is only mapped memory read, does each file get its own frame table, GOT and symbols once, are exactly the addresses of asmcgocall recognised? macOS, images at every slide: does each have its own bounds and symbols? |
| `image_darwin` | violated | is a stack truncated at asmcgocall on macOS? |
| `image_pie` | violated | is asmcgocall recognised in a position independent program? |
| `symbolizer` | holds | both symbolizers on two threads and a signal handler after every start-up: is libdwfl used by one thread at a time, are answers those of the address, does every call return but for a handler that waits for its own thread? |

The violated runs are disagreements between the code and what it says of itself:

- `ctx_stale`: the unwinding of a context writes no terminator behind a short
  walk (the direct one does). On a thread that C created, where no asmcgocall
  ends the stack, a slot used before for a deeper stack returns that stack's
  last frames behind the frames of the present one.
- `ctx_race`: `cached` is tested and set without anything that excludes a
  second walk. A goroutine in C code can be unwound by another thread and by
  the profiling handler of its own; one copies the stack after the other has
  stored the frame behind asmcgocall again.
- `ctx_leak`: a disabled `async_cgo_context` returns before it looks whether it
  has a context to release.
- `frame_gap`: `addRecord` drops a record with the rule of the last one even
  when it begins another function; `findFrameDesc` then rejects the pc because
  it lies behind the end of the older function. Nearly every function begins
  with the entry rule, and a function that follows padding loses the range
  before its first change; the walker falls back to a frame pointer rule there.
- `image_pie`: symbols are recorded at the image base plus their value. In a
  fixed-address executable the value contains the base, and the text base that
  `truncate_asmcgocall` adds to each address makes up for it; in a position
  independent executable or a c-shared library the recorded address is right
  and the addition makes the test fail for every frame.
- `image_darwin`: on macOS every symbol is recorded with length 0 and `find` looks
  for an address before a symbol's end, so the constructor never finds
  asmcgocall, and no stack is truncated, although the comment at
  `cgotraceback.cpp:104` does not except macOS. `StacksWhole` proves that this is
  so in every process.

Bounds. In the context runs two slots (`PoolSize`), five activations
(`MaxDepth`, so that three calls can exhaust the pool with a signal or an
unwinding on top) and three entries (`StackMax`) make every branch happen:
reuse of a slot, exhaustion, chains shorter than, as long as and longer than
the cached stack, asmcgocall in the middle and at the end.

`ctx_returns` checks liveness, for which those bounds are too large: it has four
activations, and an action constraint (`Programs` in `MCCgoReturns`) keeps three
kinds of programs apart. `Nested`: three calls, so that the last one finds no slot,
also after slots have leaked, unwindings that nobody interrupts, and signals
elsewhere. `Direct`: signals in C code at every site, and no call of Go. `Shared`:
one call whose context is unwound from Go, by a handler that interrupts that
unwinding at any step, and by a handler and the observer at the same time. The
constraint refuses calls, signals and unwindings that begin, none of which
`Fairness` is about, and never a step of the callbacks, a return or `SetEnabled`
in a program it has let begin; so what it leaves are behaviours of `FairSpec`.

The frame runs use an image of
four addresses (`MaxLoc = 3`), three functions and a table that starts with one
record instead of 128: functions that touch, gaps, advances by zero, growth and
the two ends of the search occur. From bytes, one function of up to four
instructions (`MaxInsns`: remember, change, restore, advance), every opcode the
parser knows, LEB128 numbers of one and two bytes with up to one byte of padding
(`Paddings`, as linkers that relax code leave it), CIEs with and without
augmentation; `Width = 16` gives the CFA's offset eight bits, and the shift of a
sign extension reaches the width with three bytes. `stack_walk` has
one function of every layout, one frame above `MAX_FRAME_SIZE`, one function
the parser gave up on, functions with a pc on both sides of `load`, two overlapping libraries and code in neither, with up
to `MaxCalls` active frames and a walk shorter than the deepest stack. `image`
has five lines, so that a program and a library, or five libraries of one
mapping, fit, and an array of three; `Gaps` makes files adjacent or not, and
one file hides its header; dynamic sections come with a PLT, without one and
with a start of the GOT alone, relocated and not. On macOS up to five images
(`MaxImages`) at four `Slides`: adjacent, apart, at slide 0, and more of them than
the array holds; one has an executable and a read-only segment before `__TEXT`. `symbolizer` has two threads, one with two calls and one with
one, and a handler with one call on the first; addresses with every combination
of module, function and line, and paths shorter than the buffer at its first
size and as long as it at its second, which must grow once more. No
state is excluded but by these bounds. Where deadlock is not checked the system
may stop: the process dies of a fault of its own, the start-up is complete, or
the bound on calls is reached.

Fairness. `CgoContext!FairSpec`: a thread that can run runs. The steps of the
thread itself have strong fairness, because a signal handler on top disables
them again and again, and signals come at a finite rate; the observer has weak
fairness; a handler returns in the end. Nothing obliges C to call Go, Go to
return or a signal to come. `FrameTable!FairSpec`: a lookup that started is a
loop of the calling thread and goes on. `StackWalk!FairSpec`: a walk that
started goes on, its loads and their handler included, since the kernel
delivers a synchronous fault at once. `Symbolizer!FairSpec`: each thread in
`cgo_symbolizer` has weak fairness, the lock included: calls are finite, so a
waiting thread is not overtaken for ever, a handler interrupts a thread finitely
often, and libdwfl returns. `DwarfReader!ReaderSpec` has the fairness of
`FrameTable`'s lookup.

## The proofs

The theorems hold for every value of the constants that the named assumptions of
a module allow. Where a theorem has a hypothesis of its own, it is named in the
theorem, and the text below says which runs satisfy it. Each inductive invariant
was checked by TLC on an instance before it was proved.

| theorem | states | needs |
|---|---|---|
| `CgoContextProofs`: `TypeCorrect`, `SlotsExclusive`, `ReportsPrefix` | `TypeOK`, `SlotExclusive`, `ReportPrefix` | |
| `CgoContextExactProofs`: `DirectsExact` | `DirectExact` | |
| `CgoContextExactProofs`: `ReportsExact` | `ReportExact` | `OneUnwinder`, `ChainsFill` |
| `CgoContextExactProofs`: `NoContextLeaks`, `PoolRefined` | `NoLeak`, `PoolIsStack` | no `SetEnabled` |
| `FrameTableProofs`: `TypeCorrect`, `TablesSorted`, `TablesFit`, `FoundFloor`, `LookupsSound` | `TypeOK`, `TableSorted`, `TableFits`, `FoundIsFloor`, `LookupSound` | |
| `DwarfReaderProofs`: `ReadsInSync`, `RulesMeant`, `BytesRefine`, `ReaderImplementsTable`, `BytesSound` | `ReadInSync`, `RuleMeant`, `TableRefined`, that `ReaderSpec` implies `FrameTable!Spec`, and the five properties of the table for tables read from bytes | `InstructionsRight`, `RulesFit`, `FactorsFit`, `PowersRight` |
| `StackWalkProofs`: `TypeCorrect`, `WalksBounded`, `WalksHarmless`, `ContextsRight`, `WalksRight` | `TypeOK`, `WalkBounded`, `WalkHarmless`, `ContextRight`, `WalkRight` | |
| `ImageProofs`: `TypeCorrect`, `HeadersReadable` | `TypeOK`, `HeaderReadable` | |
| `ImageProofs`: `TablesOwn`, `GotsOwn` | `TableOwn`, `GotOwn` | `SameDistance`; for the second also `GotPlaced` |
| `ImageProofs`: `FilesParsed` | `EveryFileParsed` | `KeysDistinct` |
| `ImageProofs`: `BoundsExact` | `AsmcgocallExact` | `SameDistance`, `ProgramsPlain` |
| `MachImageProofs`: `ImagesRead`, `StacksWhole` | `MachRead`; that no address ends a stack on macOS | |
| `SymbolizerProofs`: `TypeCorrect`, `ExclusiveLibrary`, `KnownExecutable`, `OwnAnswers` | `TypeOK`, `LibraryExclusive`, `ExecutableKnown`, `AnswersOwn` | |

### The callbacks

`CgoContextProofs` proves, for every pool size, stack length, buffer length,
nesting depth, set of sites and chains, with and without signals, observer and
toggling, under the named assumptions of `CgoContext`:

- `TypeCorrect`: `Spec => []TypeOK`;
- `SlotsExclusive`: `Spec => []SlotExclusive`;
- `ReportsPrefix`: `Spec => []ReportPrefix`.

None of the three is inductive. The invariant is `Control /\ Data`. `Control`
is about who is where: activations above `top` are idle, only the newest one is
at a label of the unwinder or inside `async_cgo_context` unless a signal
handler is on top of it, an unwinding belongs to a call further down that is in
Go and holds the slot unwound, two holders have different slots and a slot held
is in use. `Data` says what the memory holds given that: a context not yet
published has `cached = 0` and no reports, a published one has the registers of
its call saved, a walk at index k has stored the first k frames, a cached
stack has all of them, where "has" means up to asmcgocall. That last point is
why the property is about a prefix: overlapping walks disturb only what lies
behind asmcgocall, because each stores the same addresses in the same order and
the one entry `truncate_asmcgocall` zeroes is not part of the prefix. Lemmas
handle the three shapes of a step (stay, push, pop) once for all actions.

`CgoContextExactProofs` proves that a report ends where its call's frames end.
`DirectsExact` needs no hypothesis: the direct unwinding writes its terminator
itself, so its buffer holds the thread's own frames whatever was there before.
`ReportsExact` is about a context, whose cached stack keeps what an earlier call
left. It needs two hypotheses, and the nested programs of `ctx_returns` satisfy both:

- `OneUnwinder`: no observer, and no handler interrupts an unwinding. `ctx_race`
  shows a report with frames of a walk that was under way.
- `ChainsFill`: every chain is cut behind asmcgocall or is at least as long as
  the cached stack or Go's buffer. `ctx_stale` shows a report with the frames of
  an earlier call, without it.

The invariant `Exact` adds to `Control /\ Data` that an unwinding is the newest
activation (`Alone`), that every call comes from a site (`FromCalls`), and that a
stack past `TracebackTruncate`, or cached, has the terminator of its call's
chain or fills the buffer (`Filling`, `Ended`).

The same module proves, as long as `SetEnabled` is not called, that a slot
in use has a call that will release it (`NoContextLeaks`) and that the pool
implements `ContextStack` (`PoolRefined`). `ctx_leak` shows why the hypothesis is
needed; `ctx_signals` satisfies it. The pool knows no order, it is
scanned from its first slot; that it behaves as a stack needs an invariant that
says which slot a call has. The calls that have got their answer are ranked
(`Rank`), and the k-th one has slot k (`Stacked`; `Ranked` says that there are no
gaps); a call that a handler interrupted in its context function has no rank yet,
and the handler may have called Go and returned meanwhile. Every slot in use belongs to a call
(`Owned`), and a scan has passed only slots in use by the calls below
(`Scanned`, `Below`). Then the first free slot is the one above those of the calls
below, `NoLeak` is `Owned`, and every step of the code changes the sequence of held
contexts by one at its end, or not at all.

### The frame table

`FrameTableProofs` proves, for every image, table capacity, number of functions
and unwinding program, under `BoundsAssumption` and `OperandsAssumption`:

- `TypeCorrect`, `TablesSorted`, `TablesFit`: `Spec => []TypeOK`,
  `[]TableSorted`, `[]TableFits`;
- `FoundFloor`, `LookupsSound`: `Spec => []FoundIsFloor`, `[]LookupSound`.

`AddRecordEffect` says once what `addRecord` does: it keeps the table, replaces
its last record or appends one, and in the end the last record has the rule
given. The rest of the invariant is what that needs and gives: the last record
is not behind the present location (`Placed`, from which the table is sorted),
every record carries the end of a function it lies in (`Spanned`), and each
range of addresses with a rule has one record at or before it that gives this
rule, with no record between (`Covered`). The range covered grows with the
location and never changes behind it, because only a record at the present
location can be replaced. During a lookup, the records outside of `low..high`
are before or behind the pc (`Searching`). A record found is then the last one
at or before the pc (`FoundFloor`), and the record that covers the pc's range is
that one (`LookupsSound`).

### The reader of bytes

`DwarfReaderProofs` proves, for every `Width` of an int and any set of
instructions, with numbers of any padding, that a program read from bytes is the
one that was written. Four hypotheses say what such a set is, and
`MCDwarfReader` assumes them, so that TLC evaluates them for the instructions of
its run:

- `InstructionsRight`: each operand has a value its encoding can hold, the
  operands are among those of `FrameTable`, and an instruction means what
  `Standard` says of it, a table of the DWARF standard in the words of the walker;
- `RulesFit`: what a record has no room for does not occur, which is the hazard
  at `dwarf.cpp:338`;
- `FactorsFit`: the factors of the CIE fit into an int;
- `PowersRight`: the powers of 2, 128 and 256 that the encodings use are each
  128 or 256 times the one before. It is arithmetic, not about the program; the
  provers have no theory of powers.

The argument goes from digits to programs. `AllDigits` and `NumberOf`: a number
is the sum of its digits, so that what `getLeb`, `getSLeb` and the fixed getters
add up is the number modulo 2^`Width`, padded or not (`GetRight`), and `SignedSame`
is the sign extension. `AllRead`: an instruction whose every operand is read
to its last byte is read to its last byte. The functions over bytes and
operands are recursive functions. That such a function exists is shown by the
least number for which it would not, and what it gives by the least place that
would be wrong (`LeastNat`), with the function unfolded one step: this is
induction without the library's theorems, which take an operator.
`ExpressionMeant` runs `parseExpression` over `pc_off` and one number.

The invariant is `MeantInv`: while the program has not been given up, the
registers of `parseInstructions` hold the rule meant (`Hold`), those remembered
the rule remembered, and the frame pointer's part is claimed until a register is
restored. One lemma for each of the cases of the switch shows that it keeps
`Hold`; they differ in which part of the rule changes. `BytesRefine` then needs
only that the values read are operands of `FrameTable`, and along the refinement
the theorems of `FrameTableProofs` hold for tables read from bytes
(`BytesSound`).

### The walker

`StackWalkProofs` proves, for programs of any functions in any order and depth,
any tables and, but for `ContextsRight` and `WalksRight`, any memory:

- `WalksBounded`, `WalksHarmless`: the parts `Bounded` and `Trapped` of the
  invariant. A step is accepted only within a frame size above the last one, and
  a load can fault only where the handler knows it;
- `ContextsRight`, `WalksRight`: `Framed` says that each frame is laid out as its
  function does it and that what it pushed is still in memory; `Tracked` says
  that while the tables describe the frames, the registers of the walk are those
  of the true frame it is at. `StepTrue` and `LoadTrue` show that one step leads
  from a frame to its caller, for each of the layouts. Where a rule is missing the
  walk is off the track, and the theorems claim no more than its prefix.

The assumptions are those of addresses: the stack lies inside of the address
space with a walk's length above it and two words below it, words are aligned,
every function has a pc of its own which is not in the first or last page, and a
frame of the walker's limits has room for a frame record.

### Start-up

`ImageProofs` proves, for any files on Linux, any layout of them and any number
of lines and libraries. The invariant says that the mappings are ordered and
those of files are mapped whole (`Mapped`, `Loaded`), that everything between
`last_readable_base` and `image_end` is readable (`Phases`), from which line each
library was made (`Built`), and that of the libraries with one key exactly one
has the symbols (`Once`). The rest is about what `parseProgramHeaders` returns.

- `HeadersReadable`: the base it reads at lies in the readable range. The header
  found there may be that of another file, but its file is mapped whole, so its
  dynamic section is readable too. `PointerRight` is the guess of `DYN_PTR`.
  `FilesAssumption` has what it relies on: segments do not overlap, files are
  smaller than the lowest address mapped, and only the first segment of a file
  has its header. The last is not so for small files linked by lld, and the
  hazard at `symbols_linux.cpp:534` is that the code then reads at a wrong base;
- `TablesOwn`, `GotsOwn`: with `SameDistance` the base is where the first segment
  of the same file lies, and since mappings do not overlap the header is its own.
  `GotPlaced` says that the table lies in one segment in the file. The module of
  the run `image` assumes both, so that TLC evaluates them for its files;
- `FilesParsed`: with distinct keys a key is a file, and `Once` is the property.
  `InodeKey` gives one key to some pairs of files (see "Not modelled");
- `BoundsExact`: `ProgramsPlain` says what linkers do with a Go program: programs
  begin at one address, their segments up to the code are readable and without
  gaps, and nothing overlaps asmcgocall. Then the header of a program is behind
  `last_readable_base` when its first executable line is read (`Reached`), so
  that its library has a text base (`Based`); without it the symbol would be
  recorded at a base that nothing adds to addresses. There is one program in a
  process, since two would overlap (`OneProgram`), and no other library has the
  symbol, or the property claims nothing. `Searched` follows the loop of the
  constructor: what it has passed without the symbol left no bounds, and the
  library of the program the only ones. `WrappedRange` is the comparison modulo
  the address space. `MCImage` assumes `ProgramsPlain` for its files.

### Start-up on macOS

`MachImageProofs` first follows `MachOParser::parse` command by command. `Commands`
is a recursive function; `LoopEquation` shows that it has a value, and
`ParserState` what the parser knows after n commands: the slide from `__TEXT` on,
the base of `__LINKEDIT` from there on, and no symbols but those of the table it
points to. `MachFilesAssumption` has what linkers write: `__LINKEDIT` behind
`__TEXT`, the symbol table behind both, and before `__TEXT` any segments but an
executable one that is larger, whose bounds the parser would keep. The invariant of the loop over images (`DarwinInv`) says that the
libraries are those of the images that can be opened, in their order, until the
array is full; their headers differ, since images do not overlap. `ImagesRead`
is then `MachRead`. `StacksWhole` follows from symbols without a length: `find`
has an open end and finds none. On Linux `StartSpec` is `Image!Spec`, whose
theorems are those of `ImageProofs`; the properties of `Image` say nothing of
macOS, where no memory is probed and no image has a frame table.

### The symbolizers

`SymbolizerProofs` proves, for any threads, handlers, loaded objects and
addresses: the invariant has a part for the constructor (`Started`) and one per
thread (`CallOK`): what the thread has stored is of its own address, and it holds
the lock while it is behind it. `Own` says what a step of one thread leaves of
another, so that each action is examined once, for the thread that takes it.

### Only model-checked

Liveness: `TracebackReturns`, `ContextReturns`, `LookupReturns`, `WalkReturns` and
`CallsReturn`. TLAPS has no support for liveness under fairness. Every invariant
and every action property of a passing run has a theorem, under the hypotheses in
the table above.

## Not modelled

- The register accessors (`stackFrame*.cpp`, `arch.h`) and the OS shim
  (`os.cpp`): no state, and only `pc`, `sp`, `fp` and `retval` are used.
- Functions without a caller: `binarySearch`, `findSymbolByPrefix`, the lookups
  in the GOT, `mark`, kernel symbols, the stub heuristics of `stackFrame_*.cpp`.
- Bytes of ELF, Mach-O and `/proc/self/maps`, but for the device number.
- Files whose segments lie at other distances in memory than in the file (lld):
  the base is wrong there, as the hazards say, and `TableOwn` does not hold.
- Two files with one key, which the runs exclude (`KeysDistinct`): `dev()` reads
  the device at fixed columns, so that for 103:02, an NVMe disk, it is 0x10300,
  whose highest bit is that of the lowest bit of the inode. The second of two
  libraries with inodes 2k and 2k + 1 is taken for the first and keeps neither
  symbols nor a frame table, although the comment at `symbols_linux.cpp:531`
  wants only the same executable skipped.
- The frame pointer's rule behind `DW_CFA_restore`, `DW_CFA_restore_extended` and
  `DW_CFA_same_value`, which the parser skips (`dwarf.cpp:276`).
- Malformed unwinding tables: states restored that were not remembered or
  remembered twice, LEB128 numbers of more than five bytes (their shift is
  undefined in C++), CFA offsets above 2^23, libraries with CIEs of different
  factors.
- Libraries loaded or unloaded while a constructor reads them, and unloaded
  afterwards, but for code that belongs to no library in `StackWalk`.
- The SIGSEGV handler that the Go runtime installs over the one of this package,
  and crashes inside of libdwfl, but for the handler they lead to.
- Weak memory, and failing allocations but for the one of `full_readlink`.

## Plan

1. `CgoContext`, `ContextStack`, their runs and the first theorems (done).
2. `FrameTable`, its runs and theorems (done).
3. `StackWalk`, `Image` and `Symbolizer` and their runs (done).
4. `DwarfReader` under `FrameTable`, `MachImage` beside `Image`, the dynamic
   section in `Image`, handlers in `Symbolizer` (done).
5. Prove: `Symbolizer`, `StackWalk`, `CgoContext` with the refinement of
   `ContextStack`, `Image` (done).
6. Prove: `MachImage`, `DwarfReader` with the refinement of `FrameTable`, and the
   bounds of asmcgocall (done).
7. Left: the hazards without a property in `PROJECT.json`, of which the deepest is
   a base computed from a segment at another distance (`symbols_linux.cpp:534`),
   where `SameDistance` would be a theorem's conclusion and not its hypothesis.

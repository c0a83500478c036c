---------------------------- MODULE MachImageProofs ----------------------------
(***************************************************************************)
(* Proofs about MachImage, for any slides and any images whose load        *)
(* commands are ordered as MachFilesAssumption says.                       *)
(*                                                                         *)
(* The first part is about MachOParser::parse: LoopEquation says that the  *)
(* recursion of Commands has a solution, ParserState what the parser knows *)
(* after n commands, and LibraryRight what it leaves.  The second is an    *)
(* invariant of the loop over the images of dyld.                          *)
(***************************************************************************)
EXTENDS MachImage, ImageProofs

-----------------------------------------------------------------------------
(* The loop over the load commands.                                          *)

Cmds(i) == MachFiles[i.file].cmds

\* What the loop has after each of m commands.
Unfolds(i, g, m) ==
  g = [n \in 0..m |-> IF n = 0 THEN ParseStart(i) ELSE Command(i, g[n - 1], Cmds(i)[n])]

\* However many commands there are, the loop over them has a result: there is
\* no least number for which it has none.
LEMMA LoopResult ==
  ASSUME NEW i, NEW m \in Nat
  PROVE  \E g : Unfolds(i, g, m)
<1> DEFINE T == {k \in Nat : ~\E g : Unfolds(i, g, k)}
<1> SUFFICES ASSUME m \in T PROVE FALSE
  OBVIOUS
<1>1. PICK k \in T : \A j \in T : k <= j
  BY LeastNat
<1>2. k # 0
  <2> SUFFICES ASSUME k = 0 PROVE FALSE
    OBVIOUS
  <2>1. Unfolds(i, [n \in 0..0 |-> ParseStart(i)], 0)
    BY DEF Unfolds
  <2> QED
    BY <2>1
<1>3. k - 1 \in Nat /\ k - 1 \notin T
  BY <1>1, <1>2
<1>4. PICK g : Unfolds(i, g, k - 1)
  BY <1>3
<1> DEFINE h == [n \in 0..k |-> IF n <= k - 1 THEN g[n] ELSE Command(i, g[k - 1], Cmds(i)[k])]
<1>5. \A n \in 0..k : h[n] = IF n = 0 THEN ParseStart(i) ELSE Command(i, h[n - 1], Cmds(i)[n])
  BY <1>2, <1>3, <1>4 DEF Unfolds
<1>6. Unfolds(i, h, k)
  BY <1>5 DEF Unfolds
<1> QED
  BY <1>6

LEMMA LoopEquation ==
  ASSUME NEW i, Cmds(i) \in Seq(SegmentCommand \cup SymtabCommand \cup OtherCommand)
  PROVE  /\ Commands(i)[0] = ParseStart(i)
         /\ \A n \in 1..Len(Cmds(i)) :
              Commands(i)[n] = Command(i, Commands(i)[n - 1], Cmds(i)[n])
<1>1. Len(Cmds(i)) \in Nat
  OBVIOUS
<1>2. PICK g : Unfolds(i, g, Len(Cmds(i)))
  BY <1>1, LoopResult
<1>3. Commands(i) = CHOOSE f : Unfolds(i, f, Len(Cmds(i)))
  BY DEF Commands, Unfolds, Cmds
<1>4. Unfolds(i, Commands(i), Len(Cmds(i)))
  BY <1>2, <1>3
<1> QED
  BY <1>1, <1>4 DEF Unfolds

-----------------------------------------------------------------------------
(* One load command.                                                         *)

LoadCommand == SegmentCommand \cup SymtabCommand \cup OtherCommand
BlobRecord == [name : STRING, start : Nat, end : Nat]
MachCache ==
  [min : Int, max : Int, file : MachNames, text_base : Int, table : {NoFile},
   got : SUBSET [lo : Int, hi : Int], probed : {{}}, blobs : SUBSET BlobRecord]
ParserRecord == [cc : MachCache, text_base : Int, link_base : Int, stop : BOOLEAN]
ImageRecord == [file : MachNames, slide : Slides]

\* Which case of the switch a command takes.
LEMMA CommandCases ==
  ASSUME NEW i, NEW st, NEW c
  PROVE  /\ st.stop => Command(i, st, c) = st
         /\ ~st.stop /\ c.cmd = "symtab" => Command(i, st, c) = SymbolTable(i, st, c)
         /\ ~st.stop /\ c.cmd \notin {"segment", "symtab"} => Command(i, st, c) = st
         /\ ~st.stop /\ c.cmd = "segment" =>
              /\ "x" \in c.initprot => Command(i, st, c) = TextSegment(i, st, c)
              /\ c.initprot = {"r"} => Command(i, st, c) = ReadOnlySegment(st, c)
              /\ "x" \notin c.initprot /\ c.initprot # {"r"} =>
                   Command(i, st, c) \in {st, DataSegment(i, st, c)}
<1>1. st.stop => Command(i, st, c) = st
  BY DEF Command
<1>2. ~st.stop /\ c.cmd = "symtab" => Command(i, st, c) = SymbolTable(i, st, c)
  BY DEF Command
<1>3. ~st.stop /\ c.cmd \notin {"segment", "symtab"} => Command(i, st, c) = st
  BY DEF Command
<1>4. ~st.stop /\ c.cmd = "segment" /\ "x" \in c.initprot =>
        Command(i, st, c) = TextSegment(i, st, c)
  BY DEF Command
<1>5. ~st.stop /\ c.cmd = "segment" /\ c.initprot = {"r"} =>
        Command(i, st, c) = ReadOnlySegment(st, c)
  BY DEF Command
<1>6. ~st.stop /\ c.cmd = "segment" /\ "x" \notin c.initprot /\ c.initprot # {"r"} =>
        Command(i, st, c) \in {st, DataSegment(i, st, c)}
  BY DEF Command
<1> QED
  BY <1>1, <1>2, <1>3, <1>4, <1>5, <1>6

\* What is known of the commands of a file; t is the one of __TEXT.
TextAt(f, t) ==
  LET cmds == MachFiles[f].cmds
      named(name) == {n \in DOMAIN cmds : cmds[n].cmd = "segment" /\ cmds[n].name = name}
  IN  /\ named("__TEXT") = {t}
      /\ "x" \in cmds[t].initprot /\ cmds[t].vmsize > 0
      /\ \A n \in DOMAIN cmds : n < t =>
           /\ cmds[n].cmd # "symtab"
           /\ cmds[n].cmd = "segment" /\ "x" \in cmds[n].initprot => cmds[n].vmsize <= cmds[t].vmsize

LinkeditAt(f, t, l) ==
  LET cmds == MachFiles[f].cmds
      named(name) == {n \in DOMAIN cmds : cmds[n].cmd = "segment" /\ cmds[n].name = name}
  IN  /\ named("__LINKEDIT") = {l} /\ t < l
      /\ cmds[l].initprot = {"r"} /\ cmds[l].fileoff <= cmds[l].vmaddr
      /\ \A n \in DOMAIN cmds : cmds[n].cmd = "symtab" => l < n

LEMMA FileCommands ==
  ASSUME NEW f \in MachNames
  PROVE  LET cmds == MachFiles[f].cmds IN
         /\ cmds \in Seq(LoadCommand)
         /\ \E t \in DOMAIN cmds :
              /\ TextAt(f, t)
              /\ \A l \in DOMAIN cmds : cmds[l].cmd = "segment" /\ cmds[l].name = "__LINKEDIT" =>
                   LinkeditAt(f, t, l)
<1> DEFINE cmds == MachFiles[f].cmds
           named(name) == {n \in DOMAIN cmds : cmds[n].cmd = "segment" /\ cmds[n].name = name}
<1>1. cmds \in Seq(LoadCommand)
  BY MachFilesAssumption DEF LoadCommand
<1>2. PICK t \in named("__TEXT") :
        /\ named("__TEXT") = {t}
        /\ "x" \in cmds[t].initprot /\ cmds[t].vmsize > 0
        /\ \A n \in DOMAIN cmds : n < t =>
             /\ cmds[n].cmd # "symtab"
             /\ cmds[n].cmd = "segment" /\ "x" \in cmds[n].initprot =>
                  cmds[n].vmsize <= cmds[t].vmsize
        /\ \A l \in named("__LINKEDIT") :
             /\ named("__LINKEDIT") = {l} /\ t < l
             /\ cmds[l].initprot = {"r"} /\ cmds[l].fileoff <= cmds[l].vmaddr
             /\ \A n \in {k \in DOMAIN cmds : cmds[k].cmd = "symtab"} : l < n
  BY MachFilesAssumption
<1>3. TextAt(f, t)
  BY <1>2 DEF TextAt
<1>4. ASSUME NEW l \in DOMAIN cmds, cmds[l].cmd = "segment", cmds[l].name = "__LINKEDIT"
      PROVE  LinkeditAt(f, t, l)
  <2>1. l \in named("__LINKEDIT")
    BY <1>4
  <2> QED
    BY <1>2, <2>1 DEF LinkeditAt
<1> QED
  BY <1>1, <1>2, <1>3, <1>4

\* The segments found by name.
LEMMA NamedSegment ==
  ASSUME NEW f \in MachNames, NEW t, TextAt(f, t)
  PROVE  /\ t \in DOMAIN MachFiles[f].cmds
         /\ Segment(f, "__TEXT") = MachFiles[f].cmds[t]
         /\ MachFiles[f].cmds[t] \in SegmentCommand
<1> DEFINE cmds == MachFiles[f].cmds
<1>1. cmds \in Seq(LoadCommand)
  BY FileCommands
<1>2. t \in DOMAIN cmds /\ cmds[t].cmd = "segment" /\ cmds[t].name = "__TEXT"
      /\ \A n \in DOMAIN cmds : cmds[n].cmd = "segment" /\ cmds[n].name = "__TEXT" => n = t
  BY DEF TextAt
<1>3. Segments(f, "__TEXT") = {cmds[t]}
  BY <1>2 DEF Segments, Range
<1>4. Segment(f, "__TEXT") = cmds[t]
  BY <1>3 DEF Segment
<1>5. cmds[t] \in LoadCommand
  BY <1>1, <1>2
<1>6. cmds[t] \in SegmentCommand
  BY <1>2, <1>5 DEF LoadCommand, SegmentCommand, SymtabCommand, OtherCommand
<1> QED
  BY <1>2, <1>4, <1>6

-----------------------------------------------------------------------------
(* What each case changes.                                                   *)

\* The addresses of an image's header and of the end of its code.
TextSize(i) == Segment(i.file, "__TEXT").vmsize
TextAddr(i) == Segment(i.file, "__TEXT").vmaddr

LEMMA ImageFields ==
  ASSUME NEW i \in ImageRecord
  PROVE  /\ i.file \in MachNames /\ i.slide \in Nat
         /\ TextAddr(i) \in Nat /\ TextSize(i) \in Nat /\ TextSize(i) > 0
         /\ ImageBase(i) = i.slide + TextAddr(i) /\ ImageBase(i) \in Nat
         /\ ImageBase(i) + TextSize(i) <= Space
<1>1. i.file \in MachNames /\ i.slide \in Slides /\ i.slide \in Nat
  BY MachAssumption DEF ImageRecord
<1> DEFINE cmds == MachFiles[i.file].cmds
<1>2. PICK t \in DOMAIN cmds : TextAt(i.file, t)
  BY <1>1, FileCommands
<1>3. Segment(i.file, "__TEXT") = cmds[t] /\ cmds[t] \in SegmentCommand
  BY <1>1, <1>2, NamedSegment
<1>4. cmds[t].vmaddr \in Nat /\ cmds[t].vmsize \in Nat /\ cmds[t].cmd = "segment"
  BY <1>3 DEF SegmentCommand
<1>5. cmds[t].vmsize > 0
  BY <1>2 DEF TextAt
<1>6. i.slide + cmds[t].vmaddr + cmds[t].vmsize <= Space
  BY <1>1, <1>2, <1>4, MachFilesAssumption
<1> HIDE DEF cmds
<1> QED
  BY <1>1, <1>3, <1>4, <1>5, <1>6 DEF TextAddr, TextSize, ImageBase

LEMMA TextEffect ==
  ASSUME NEW i \in ImageRecord, NEW st \in ParserRecord, NEW c \in SegmentCommand
  PROVE  /\ TextSegment(i, st, c) \in ParserRecord
         /\ LET new == TextSegment(i, st, c) IN
            /\ new.stop = st.stop /\ new.link_base = st.link_base
            /\ new.cc.blobs = st.cc.blobs /\ new.cc.file = st.cc.file
            /\ st.text_base # UNDEFINED /\ c.name # "__TEXT" => new = st
            /\ new # st \/ c.name = "__TEXT" =>
                 /\ new.text_base = ImageBase(i) - c.vmaddr
                 /\ new.cc.text_base = ImageBase(i) - c.vmaddr
                 /\ new.cc.min = Min({st.cc.min, ImageBase(i)})
                 /\ new.cc.max = Max({st.cc.max, ImageBase(i) + c.vmsize})
<1>1. c.vmaddr \in Nat /\ c.vmsize \in Nat /\ ImageBase(i) \in Nat
  BY ImageFields DEF SegmentCommand
<1> DEFINE low == Min({st.cc.min, ImageBase(i)})
           high == Max({st.cc.max, ImageBase(i) + c.vmsize})
<1>2. low \in Int
  <2>1. st.cc.min \in Int
    BY DEF ParserRecord, MachCache
  <2>2. \E m \in {st.cc.min, ImageBase(i)} : \A k \in {st.cc.min, ImageBase(i)} : m <= k
    BY <1>1, <2>1
  <2> QED
    BY <1>1, <2>1, <2>2 DEF Min
<1>3. high \in Int
  <2>1. st.cc.max \in Int /\ ImageBase(i) + c.vmsize \in Int
    BY <1>1 DEF ParserRecord, MachCache
  <2> DEFINE e == ImageBase(i) + c.vmsize
  <2> HIDE DEF e
  <2>2. \E m \in {st.cc.max, e} : \A k \in {st.cc.max, e} : m >= k
    BY <2>1 DEF e
  <2> QED
    BY <2>1, <2>2 DEF Max, e
<1> HIDE DEF low, high
<1> DEFINE new == SetText(i, st, c)
<1>4. new = [st EXCEPT !.text_base = ImageBase(i) - c.vmaddr,
                       !.cc.text_base = ImageBase(i) - c.vmaddr,
                       !.cc.min = low, !.cc.max = high]
  BY DEF SetText, low, high
<1>5. /\ new \in ParserRecord
      /\ new.stop = st.stop /\ new.link_base = st.link_base
      /\ new.cc.blobs = st.cc.blobs /\ new.cc.file = st.cc.file
      /\ new.text_base = ImageBase(i) - c.vmaddr /\ new.cc.text_base = ImageBase(i) - c.vmaddr
      /\ new.cc.min = low /\ new.cc.max = high
  <2> DEFINE base == ImageBase(i) - c.vmaddr
             cc == [st.cc EXCEPT !.text_base = base, !.min = low, !.max = high]
  <2>1. base \in Int
    BY <1>1
  <2> HIDE DEF new, base
  <2>2. /\ cc \in MachCache
        /\ cc.blobs = st.cc.blobs /\ cc.file = st.cc.file
        /\ cc.text_base = base /\ cc.min = low /\ cc.max = high
    BY <1>2, <1>3, <2>1 DEF ParserRecord, MachCache
  <2>3. new = [st EXCEPT !.text_base = base, !.cc = cc]
    BY <1>4 DEF ParserRecord, MachCache, base
  <2> HIDE DEF cc
  <2>4. new \in ParserRecord /\ new.stop = st.stop /\ new.link_base = st.link_base
        /\ new.cc = cc /\ new.text_base = base
    BY <2>1, <2>2, <2>3 DEF ParserRecord
  <2> QED
    BY <2>2, <2>4 DEF base
<1> HIDE DEF new
<1>6. TextSegment(i, st, c) = IF st.text_base # UNDEFINED /\ c.name # "__TEXT" THEN st ELSE new
  BY DEF TextSegment, new
<1> QED
  BY <1>5, <1>6 DEF low, high

LEMMA LinkEffect ==
  ASSUME NEW st \in ParserRecord, NEW c \in SegmentCommand
  PROVE  /\ ReadOnlySegment(st, c) \in ParserRecord
         /\ LET new == ReadOnlySegment(st, c) IN
            /\ new.stop = st.stop /\ new.text_base = st.text_base /\ new.cc = st.cc
            /\ st.link_base # UNDEFINED /\ c.name # "__LINKEDIT" => new = st
            /\ c.name = "__LINKEDIT" => new.link_base = st.text_base + c.vmaddr - c.fileoff
<1>1. c.vmaddr \in Nat /\ c.fileoff \in Nat /\ st.text_base \in Int
  BY DEF SegmentCommand, ParserRecord
<1> DEFINE moved == [st EXCEPT !.link_base = st.text_base + c.vmaddr - c.fileoff]
<1>2. /\ moved \in ParserRecord
      /\ moved.stop = st.stop /\ moved.text_base = st.text_base /\ moved.cc = st.cc
      /\ moved.link_base = st.text_base + c.vmaddr - c.fileoff
  BY <1>1 DEF ParserRecord
<1>3. ReadOnlySegment(st, c)
        = IF st.link_base # UNDEFINED /\ c.name # "__LINKEDIT" THEN st ELSE moved
  BY DEF ReadOnlySegment
<1> HIDE DEF moved
<1> QED
  BY <1>2, <1>3

LEMMA DataEffect ==
  ASSUME NEW i \in ImageRecord, NEW st \in ParserRecord, NEW c \in SegmentCommand
  PROVE  /\ DataSegment(i, st, c) \in ParserRecord
         /\ LET new == DataSegment(i, st, c) IN
            /\ new.stop = st.stop /\ new.text_base = st.text_base /\ new.link_base = st.link_base
            /\ new.cc.text_base = st.cc.text_base /\ new.cc.min = st.cc.min
            /\ new.cc.max = st.cc.max /\ new.cc.blobs = st.cc.blobs /\ new.cc.file = st.cc.file
<1> DEFINE got == {[lo |-> ImageBase(i) + s.addr, hi |-> ImageBase(i) + s.addr + s.size]
                     : s \in c.la_symbol_ptr}
<1>1. got \in SUBSET [lo : Int, hi : Int]
  <2>1. ImageBase(i) \in Nat /\ c.la_symbol_ptr \subseteq [addr : Nat, size : Nat]
    BY ImageFields DEF SegmentCommand
  <2> QED
    BY <2>1
<1> HIDE DEF got
<1> DEFINE new == [st EXCEPT !.cc.got = got]
<1>2. /\ new \in ParserRecord
      /\ new.stop = st.stop /\ new.text_base = st.text_base /\ new.link_base = st.link_base
      /\ new.cc.text_base = st.cc.text_base /\ new.cc.min = st.cc.min
      /\ new.cc.max = st.cc.max /\ new.cc.blobs = st.cc.blobs /\ new.cc.file = st.cc.file
  BY <1>1 DEF ParserRecord, MachCache
<1>3. DataSegment(i, st, c) = IF c.name # "__DATA" THEN st ELSE new
  BY DEF DataSegment, got
<1> HIDE DEF new
<1> QED
  BY <1>2, <1>3

-----------------------------------------------------------------------------
(* The symbols.                                                              *)

Defined(f) == {s \in MachFiles[f].symbols : s.type = "section" /\ s.value # 0}

\* Symbols of length zero.
Pointlike(blobs) ==
  IsFiniteSet(blobs) /\ \A b \in blobs : b.start \in Nat /\ b.end = b.start

BlobsRight(i, blobs) ==
  Segments(i.file, "__LINKEDIT") # {} =>
    {<<b.name, b.start>> : b \in blobs} = {<<s.plain, i.slide + s.value>> : s \in Defined(i.file)}

LEMMA SymbolsTyped ==
  ASSUME NEW i \in ImageRecord, NEW a
  PROVE  /\ MachSymbols(i, i.slide, a) \in SUBSET BlobRecord
         /\ Pointlike(MachSymbols(i, i.slide, a))
<1> DEFINE kept == {t \in SymbolTableAt(i, a) : t.type = "section" /\ t.value # 0}
           blob(s) == Blob(i.slide, [name |-> s.plain, value |-> s.value, size |-> 0])
           image == {blob(s) : s \in kept}
           f == [s \in kept |-> blob(s)]
<1>1. MachSymbols(i, i.slide, a) = image
  BY DEF MachSymbols
<1>2. i.file \in MachNames /\ i.slide \in Nat
  BY ImageFields
<1>3. kept \subseteq MachFiles[i.file].symbols
  BY DEF SymbolTableAt
<1>4. MachFiles[i.file].symbols \subseteq MachSymbol /\ IsFiniteSet(MachFiles[i.file].symbols)
  BY <1>2, MachFilesAssumption
<1>5. IsFiniteSet(kept)
  BY <1>3, <1>4, FS_Subset
<1> HIDE DEF kept
<1>6. f \in Surjection(kept, image)
  BY DEF Surjection
<1>7. IsFiniteSet(image)
  BY <1>5, <1>6, FS_Surjection
<1>8. \A s \in kept : s.plain \in STRING /\ s.value \in Nat
  BY <1>3, <1>4 DEF MachSymbol
<1>9. \A s \in kept : blob(s) \in BlobRecord /\ blob(s).start \in Nat /\ blob(s).end = blob(s).start
  <2> SUFFICES ASSUME NEW s \in kept
               PROVE  blob(s) \in BlobRecord /\ blob(s).start \in Nat /\ blob(s).end = blob(s).start
    OBVIOUS
  <2> DEFINE at0 == i.slide + s.value
  <2>1. at0 \in Nat /\ s.plain \in STRING
    BY <1>2, <1>8
  <2>2. blob(s) = [name |-> s.plain, start |-> at0, end |-> at0 + 0]
    BY DEF Blob
  <2> HIDE DEF at0, blob
  <2>3. at0 + 0 = at0
    BY <2>1
  <2> QED
    BY <2>1, <2>2, <2>3 DEF BlobRecord
<1>10. \A b \in image : b \in BlobRecord /\ b.start \in Nat /\ b.end = b.start
  BY <1>9
<1> HIDE DEF image
<1> QED
  BY <1>1, <1>7, <1>10 DEF Pointlike

\* The table lies where __LINKEDIT says.
LEMMA SymbolsFound ==
  ASSUME NEW i \in ImageRecord, NEW t, NEW l, LinkeditAt(i.file, t, l),
         NEW n \in DOMAIN Cmds(i), Cmds(i)[n].cmd = "symtab",
         NEW a, a = i.slide + Cmds(i)[l].vmaddr - Cmds(i)[l].fileoff + Cmds(i)[n].symoff
  PROVE  BlobsRight(i, MachSymbols(i, i.slide, a))
<1> DEFINE cmds == Cmds(i)
<1>1. i.file \in MachNames /\ i.slide \in Nat
  BY ImageFields
<1>2. cmds \in Seq(LoadCommand)
  BY <1>1, FileCommands DEF Cmds
<1>3. l \in DOMAIN cmds /\ cmds[l].cmd = "segment" /\ cmds[l].name = "__LINKEDIT"
  BY DEF LinkeditAt, Cmds
<1>4. cmds[l].vmaddr \in Nat /\ cmds[l].fileoff \in Nat /\ cmds[n].symoff \in Nat
  <2>1. cmds[l] \in LoadCommand /\ cmds[n] \in LoadCommand
    BY <1>2, <1>3
  <2> QED
    BY <1>3, <2>1 DEF LoadCommand, SegmentCommand, SymtabCommand, OtherCommand
<1>5. cmds[l] \in Segments(i.file, "__LINKEDIT") /\ cmds[n] \in Range(MachFiles[i.file].cmds)
  BY <1>3 DEF Segments, Range, Cmds
<1>6. a = i.slide + cmds[l].vmaddr + cmds[n].symoff - cmds[l].fileoff
  BY <1>1, <1>4
<1>7. SymbolTableAt(i, a) = MachFiles[i.file].symbols
  <2> HIDE DEF cmds
  <2>1. \E k \in Segments(i.file, "__LINKEDIT"), c \in Range(MachFiles[i.file].cmds) :
          c.cmd = "symtab" /\ a = i.slide + k.vmaddr + c.symoff - k.fileoff
    BY <1>5, <1>6 DEF cmds
  <2> QED
    BY <2>1 DEF SymbolTableAt
<1>8. MachSymbols(i, i.slide, a)
        = {Blob(i.slide, [name |-> s.plain, value |-> s.value, size |-> 0]) : s \in Defined(i.file)}
  BY <1>7 DEF MachSymbols, Defined
<1> DEFINE blob(s) == Blob(i.slide, [name |-> s.plain, value |-> s.value, size |-> 0])
<1>9. \A s : blob(s).name = s.plain /\ blob(s).start = i.slide + s.value
  BY DEF Blob
<1>10. MachSymbols(i, i.slide, a) = {blob(s) : s \in Defined(i.file)}
  BY <1>8
<1> HIDE DEF blob
<1>11. {<<b.name, b.start>> : b \in {blob(s) : s \in Defined(i.file)}}
         = {<<s.plain, i.slide + s.value>> : s \in Defined(i.file)}
  BY <1>9
<1> QED
  BY <1>10, <1>11 DEF BlobsRight

\* Without __LINKEDIT nothing is found.
LEMMA NoSymbols ==
  ASSUME NEW i \in ImageRecord, Defined(i.file) = {}
  PROVE  BlobsRight(i, {})
BY DEF BlobsRight

-----------------------------------------------------------------------------
(* The parser's state after n commands; t is the one of __TEXT.              *)

\* Before __TEXT: whatever base another segment gave, the bounds are in place.
Early(i, st) ==
  /\ ~st.stop
  /\ st.cc.min \in {NO_MIN_ADDRESS, ImageBase(i)}
  /\ NO_MAX_ADDRESS <= st.cc.max /\ st.cc.max <= ImageBase(i) + TextSize(i)
Located(i, st) ==
  /\ st.text_base = i.slide /\ st.cc.text_base = i.slide
  /\ st.cc.min = ImageBase(i) /\ st.cc.max = ImageBase(i) + TextSize(i)

ParserState(i, t, n) ==
  LET st == Commands(i)[n]
      cmds == Cmds(i)
  IN  /\ st \in ParserRecord /\ st.cc.file = i.file
      /\ IF n < t THEN Early(i, st) ELSE Located(i, st)
      /\ Pointlike(st.cc.blobs)
      /\ IF st.stop THEN BlobsRight(i, st.cc.blobs)
         ELSE /\ st.cc.blobs = {}
              /\ \A k \in 1..n : cmds[k].cmd # "symtab"
              /\ \A l \in 1..n : cmds[l].cmd = "segment" /\ cmds[l].name = "__LINKEDIT" =>
                   st.link_base = i.slide + cmds[l].vmaddr - cmds[l].fileoff

LEMMA StartState ==
  ASSUME NEW i \in ImageRecord, NEW t \in DOMAIN Cmds(i), TextAt(i.file, t)
  PROVE  ParserState(i, t, 0)
<1>1. i.file \in MachNames
  BY ImageFields
<1>2. Cmds(i) \in Seq(LoadCommand)
  BY <1>1, FileCommands DEF Cmds
<1>3. Commands(i)[0] = ParseStart(i)
  BY <1>2, LoopEquation DEF LoadCommand
<1> DEFINE st == ParseStart(i)
<1> DEFINE new == CodeCache(Line(NULL, NULL, TRUE, TRUE, 0, i.file))
           cc == [min |-> NO_MIN_ADDRESS, max |-> NO_MAX_ADDRESS, file |-> i.file,
                  text_base |-> NULL, table |-> NoFile, got |-> {}, probed |-> {}, blobs |-> {}]
<1>4. st = [cc |-> cc, text_base |-> UNDEFINED, link_base |-> UNDEFINED, stop |-> FALSE]
  <2> DEFINE m == Line(NULL, NULL, TRUE, TRUE, 0, i.file)
  <2>1. m.file = i.file
    BY DEF Line
  <2> HIDE DEF m
  <2>2. CodeCache(m) = [min |-> m.lo, max |-> m.hi, file |-> i.file, text_base |-> NULL,
                        table |-> NoFile, got |-> {}, probed |-> {}, blobs |-> {}]
    BY <2>1 DEF CodeCache
  <2>3. [CodeCache(m) EXCEPT !.min = NO_MIN_ADDRESS, !.max = NO_MAX_ADDRESS] = cc
    <3> DEFINE c0 == CodeCache(m)
               c1 == [c0 EXCEPT !.min = NO_MIN_ADDRESS]
    <3>1. c1 = [min |-> NO_MIN_ADDRESS, max |-> m.hi, file |-> i.file, text_base |-> NULL,
                table |-> NoFile, got |-> {}, probed |-> {}, blobs |-> {}]
      BY <2>2
    <3>2. [CodeCache(m) EXCEPT !.min = NO_MIN_ADDRESS, !.max = NO_MAX_ADDRESS]
            = [c1 EXCEPT !.max = NO_MAX_ADDRESS]
      OBVIOUS
    <3> HIDE DEF c1
    <3>3. [c1 EXCEPT !.max = NO_MAX_ADDRESS] = cc
      BY <3>1
    <3> QED
      BY <3>2, <3>3
  <2> QED
    BY <2>3 DEF ParseStart, m
<1> HIDE DEF st
<1>5. Space \in Nat
  BY ImageAssumption
<1>6. st \in ParserRecord /\ st.cc.file = i.file /\ st.cc.blobs = {} /\ ~st.stop
      /\ st.cc.min = NO_MIN_ADDRESS /\ st.cc.max = NO_MAX_ADDRESS
  BY <1>1, <1>4, <1>5
     DEF ParserRecord, MachCache, NO_MIN_ADDRESS, NO_MAX_ADDRESS, NULL, UNDEFINED
<1>9. Early(i, st)
  <2>1. ImageBase(i) + TextSize(i) \in Nat
    BY ImageFields
  <2> QED
    BY <1>6, <2>1 DEF Early, NO_MAX_ADDRESS, NULL
<1>7. Pointlike({})
  BY FS_EmptySet DEF Pointlike
<1>8. 0 < t
  BY <1>2
<1> QED
  BY <1>3, <1>6, <1>7, <1>8, <1>9 DEF ParserState, st

LEMMA TableEffect ==
  ASSUME NEW i \in ImageRecord, NEW st \in ParserRecord, st.text_base = i.slide,
         NEW c \in SymtabCommand
  PROVE  LET new == SymbolTable(i, st, c) IN
         /\ new \in ParserRecord /\ new.stop
         /\ new.text_base = st.text_base /\ new.cc.text_base = st.cc.text_base
         /\ new.cc.min = st.cc.min /\ new.cc.max = st.cc.max /\ new.cc.file = st.cc.file
         /\ Pointlike(new.cc.blobs)
         /\ st.link_base # UNDEFINED =>
              new.cc.blobs = MachSymbols(i, i.slide, st.link_base + c.symoff)
<1> DEFINE blobs == IF UNDEFINED \in {st.text_base, st.link_base} THEN {}
                    ELSE MachSymbols(i, st.text_base, st.link_base + c.symoff)
           cc == [st.cc EXCEPT !.blobs = blobs]
           new == SymbolTable(i, st, c)
<1>1. blobs \in SUBSET BlobRecord /\ Pointlike(blobs)
  <2>1. {} \in SUBSET BlobRecord /\ Pointlike({})
    BY FS_EmptySet DEF Pointlike
  <2>2. MachSymbols(i, st.text_base, st.link_base + c.symoff) \in SUBSET BlobRecord
        /\ Pointlike(MachSymbols(i, st.text_base, st.link_base + c.symoff))
    BY SymbolsTyped
  <2> QED
    BY <2>1, <2>2
<1>2. st.link_base # UNDEFINED => blobs = MachSymbols(i, i.slide, st.link_base + c.symoff)
  <2>1. st.text_base # UNDEFINED
    BY ImageFields DEF UNDEFINED
  <2> QED
    BY <2>1
<1> HIDE DEF blobs
<1>3. /\ cc \in MachCache /\ cc.blobs = blobs
      /\ cc.text_base = st.cc.text_base /\ cc.min = st.cc.min /\ cc.max = st.cc.max
      /\ cc.file = st.cc.file
  BY <1>1 DEF ParserRecord, MachCache
<1>4. new = [st EXCEPT !.stop = TRUE, !.cc = cc]
  BY DEF SymbolTable, ParserRecord, blobs
<1> HIDE DEF cc, new
<1>5. new \in ParserRecord /\ new.stop /\ new.cc = cc /\ new.text_base = st.text_base
  BY <1>3, <1>4 DEF ParserRecord
<1> QED
  BY <1>1, <1>2, <1>3, <1>5 DEF new

LEMMA ParserStep ==
  ASSUME NEW i \in ImageRecord, NEW t \in DOMAIN Cmds(i), TextAt(i.file, t),
         \A l \in DOMAIN Cmds(i) : Cmds(i)[l].cmd = "segment" /\ Cmds(i)[l].name = "__LINKEDIT" =>
           LinkeditAt(i.file, t, l),
         NEW n \in 1..Len(Cmds(i)), ParserState(i, t, n - 1)
  PROVE  ParserState(i, t, n)
<1> DEFINE cmds == Cmds(i)
           old == Commands(i)[n - 1]
           new == Commands(i)[n]
           c == cmds[n]
           linkedit(l) == cmds[l].cmd = "segment" /\ cmds[l].name = "__LINKEDIT"
           place(l) == i.slide + cmds[l].vmaddr - cmds[l].fileoff
<1>1. cmds \in Seq(LoadCommand) /\ i.slide \in Nat /\ i.file \in MachNames
      /\ DOMAIN cmds = 1..Len(cmds) /\ Len(cmds) \in Nat /\ n \in 1..Len(cmds)
      /\ n \in Nat /\ n >= 1 /\ t \in Nat /\ t >= 1
  BY ImageFields, FileCommands, SMTT(30) DEF Cmds
<1>2. c \in LoadCommand /\ (c.cmd = "segment" => c \in SegmentCommand)
      /\ (c.cmd = "symtab" => c \in SymtabCommand)
  BY <1>1 DEF LoadCommand, SegmentCommand, SymtabCommand, OtherCommand
<1>3. new = Command(i, old, c)
  BY <1>1, LoopEquation DEF LoadCommand
\* What the linker promises.
<1>4. /\ cmds[t].cmd = "segment" /\ cmds[t].name = "__TEXT" /\ "x" \in cmds[t].initprot
      /\ c.cmd = "segment" /\ c.name = "__TEXT" => n = t
      /\ n < t => c.cmd # "symtab"
      /\ n < t /\ c.cmd = "segment" /\ "x" \in c.initprot => c.vmsize <= cmds[t].vmsize
  BY <1>1 DEF TextAt, Cmds
<1>5. \A l \in 1..Len(cmds) : linkedit(l) =>
        /\ t < l /\ cmds[l].initprot = {"r"} /\ (linkedit(n) => n = l)
        /\ c.cmd = "symtab" => l < n
        /\ place(l) \in Nat
  <2> SUFFICES ASSUME NEW l \in 1..Len(cmds), linkedit(l)
               PROVE  /\ t < l /\ cmds[l].initprot = {"r"} /\ (linkedit(n) => n = l)
                      /\ c.cmd = "symtab" => l < n
                      /\ place(l) \in Nat
    OBVIOUS
  <2>1. LinkeditAt(i.file, t, l)
    BY <1>1
  <2>2. /\ t < l /\ cmds[l].initprot = {"r"} /\ (linkedit(n) => n = l)
        /\ c.cmd = "symtab" => l < n
        /\ cmds[l].fileoff <= cmds[l].vmaddr
    BY <1>1, <2>1 DEF LinkeditAt, Cmds
  <2>3. cmds[l] \in LoadCommand
    BY <1>1
  <2>4. cmds[l].fileoff \in Nat /\ cmds[l].vmaddr \in Nat
    BY <2>3 DEF LoadCommand, SegmentCommand, SymtabCommand, OtherCommand
  <2> QED
    BY <1>1, <2>2, <2>4
\* What is known before.
<1>6. /\ old \in ParserRecord /\ old.cc.file = i.file
      /\ IF n - 1 < t THEN Early(i, old) ELSE Located(i, old)
      /\ Pointlike(old.cc.blobs)
      /\ IF old.stop THEN BlobsRight(i, old.cc.blobs)
         ELSE /\ old.cc.blobs = {}
              /\ \A k \in 1..(n - 1) : cmds[k].cmd # "symtab"
              /\ \A l \in 1..(n - 1) : linkedit(l) => old.link_base = place(l)
  BY DEF ParserState
<1> HIDE DEF cmds, old, new, c, linkedit, place
<1> DEFINE
     Goal == /\ new \in ParserRecord /\ new.cc.file = i.file
             /\ IF n < t THEN Early(i, new) ELSE Located(i, new)
             /\ Pointlike(new.cc.blobs)
             /\ IF new.stop THEN BlobsRight(i, new.cc.blobs)
                ELSE /\ new.cc.blobs = {}
                     /\ \A k \in 1..n : cmds[k].cmd # "symtab"
                     /\ \A l \in 1..n : linkedit(l) => new.link_base = place(l)
<1>7. CASE old.stop
  <2>1. new = old
    BY <1>3, <1>7, CommandCases
  <2>2. ~(n - 1 < t)
    BY <1>6, <1>7 DEF Early
  <2>3. ~(n < t)
    BY <1>1, <2>2
  <2>4. Goal
    BY <1>6, <1>7, <2>1, <2>2, <2>3
  <2> QED
    BY <2>4 DEF ParserState, cmds, new, linkedit, place
<1>8. CASE ~old.stop /\ c.cmd = "symtab"
  <2>1. new = SymbolTable(i, old, c) /\ c \in SymtabCommand
    BY <1>2, <1>3, <1>8, CommandCases
  <2>2. ~(n < t) /\ n # t
    BY <1>4, <1>8 DEF c
  <2>3. ~(n - 1 < t)
    BY <1>1, <2>2
  <2>4. Located(i, old)
    BY <1>6, <2>3
  <2>5. old.text_base = i.slide
    BY <2>4 DEF Located
  <2>6. /\ new \in ParserRecord /\ new.stop
        /\ new.text_base = old.text_base /\ new.cc.text_base = old.cc.text_base
        /\ new.cc.min = old.cc.min /\ new.cc.max = old.cc.max /\ new.cc.file = old.cc.file
        /\ Pointlike(new.cc.blobs)
        /\ old.link_base # UNDEFINED =>
             new.cc.blobs = MachSymbols(i, i.slide, old.link_base + c.symoff)
    BY <1>6, <2>1, <2>5, TableEffect
  <2>7. Located(i, new)
    BY <2>4, <2>6 DEF Located
  <2>8. BlobsRight(i, new.cc.blobs)
    <3>1. CASE Segments(i.file, "__LINKEDIT") = {}
      BY <3>1 DEF BlobsRight
    <3>2. CASE Segments(i.file, "__LINKEDIT") # {}
      <4>1. PICK l \in DOMAIN cmds : linkedit(l)
        BY <3>2 DEF Segments, Range, Cmds, cmds, linkedit
      <4>2. l \in 1..(n - 1) /\ place(l) \in Nat
        BY <1>1, <1>5, <1>8, <4>1
      <4>3. old.link_base = place(l) /\ old.link_base # UNDEFINED
        BY <1>6, <1>8, <4>1, <4>2 DEF UNDEFINED
      <4>4. new.cc.blobs = MachSymbols(i, i.slide, place(l) + c.symoff)
        BY <2>6, <4>3
      <4>5. LinkeditAt(i.file, t, l) /\ n \in DOMAIN Cmds(i) /\ Cmds(i)[n].cmd = "symtab"
        BY <1>1, <1>8, <4>1 DEF cmds, c, linkedit
      <4> QED
        BY <4>4, <4>5, SymbolsFound DEF place, c, cmds
    <3> QED
      BY <3>1, <3>2
  <2>9. Goal
    BY <1>6, <2>2, <2>6, <2>7, <2>8
  <2> QED
    BY <2>9 DEF ParserState, cmds, new, linkedit, place
<1>9. CASE ~old.stop /\ c.cmd \notin {"segment", "symtab"}
  <2>1. new = old
    BY <1>3, <1>9, CommandCases
  <2>2. n # t /\ ~linkedit(n)
    BY <1>4, <1>9 DEF c, linkedit
  <2>3. (n < t) <=> (n - 1 < t)
    BY <1>1, <2>2
  <2>4. /\ \A k \in 1..n : cmds[k].cmd # "symtab"
        /\ \A l \in 1..n : linkedit(l) => new.link_base = place(l)
    <3>1. \A k \in 1..n : k \in 1..(n - 1) \/ k = n
      BY <1>1
    <3> QED
      BY <1>6, <1>9, <2>1, <2>2, <3>1 DEF c
  <2>5. Goal
    BY <1>6, <1>9, <2>1, <2>3, <2>4
  <2> QED
    BY <2>5 DEF ParserState, cmds, new, linkedit, place
<1>10. ASSUME ~old.stop, c.cmd = "segment"
       PROVE  \A k \in 1..n : /\ k \in 1..(n - 1) \/ k = n
                              /\ cmds[k].cmd # "symtab"
  <2>1. \A k \in 1..n : k \in 1..(n - 1) \/ k = n
    BY <1>1
  <2> QED
    BY <1>6, <1>10, <2>1 DEF c
<1>11. CASE ~old.stop /\ c.cmd = "segment" /\ "x" \in c.initprot
  <2>1. new = TextSegment(i, old, c) /\ c \in SegmentCommand
    BY <1>2, <1>3, <1>11, CommandCases
  <2>2. /\ new \in ParserRecord
        /\ new.stop = old.stop /\ new.link_base = old.link_base
        /\ new.cc.blobs = old.cc.blobs /\ new.cc.file = old.cc.file
        /\ old.text_base # UNDEFINED /\ c.name # "__TEXT" => new = old
        /\ new # old \/ c.name = "__TEXT" =>
             /\ new.text_base = ImageBase(i) - c.vmaddr
             /\ new.cc.text_base = ImageBase(i) - c.vmaddr
             /\ new.cc.min = Min({old.cc.min, ImageBase(i)})
             /\ new.cc.max = Max({old.cc.max, ImageBase(i) + c.vmsize})
    BY <1>6, <2>1, TextEffect
  <2>3. ASSUME n <= t
        PROVE  /\ Min({old.cc.min, ImageBase(i)}) = ImageBase(i)
               /\ Max({old.cc.max, ImageBase(i) + c.vmsize})
                    \in {old.cc.max, ImageBase(i) + c.vmsize}
               /\ old.cc.max <= Max({old.cc.max, ImageBase(i) + c.vmsize})
               /\ ImageBase(i) + c.vmsize <= Max({old.cc.max, ImageBase(i) + c.vmsize})
    <3>1. Early(i, old) /\ old.cc.max \in Int
      BY <1>1, <1>6, <2>3 DEF ParserRecord, MachCache
    <3>2. ImageBase(i) \in Nat /\ ImageBase(i) <= Space - 1 /\ Space \in Nat /\ c.vmsize \in Nat
      BY <2>1, ImageFields, ImageAssumption DEF SegmentCommand
    <3> DEFINE b == ImageBase(i)
               e == ImageBase(i) + c.vmsize
    <3>3. e \in Int
      BY <3>2
    <3>4. old.cc.min \in Int /\ b <= old.cc.min /\ b \in Int
      BY <3>1, <3>2 DEF Early, NO_MIN_ADDRESS
    <3> HIDE DEF b, e
    <3>5. Min({old.cc.min, b}) = b
      BY <3>4 DEF Min
    <3>6. \E m \in {old.cc.max, e} : \A k \in {old.cc.max, e} : m >= k
      BY <3>1, <3>3
    <3>7. /\ Max({old.cc.max, e}) \in {old.cc.max, e}
          /\ \A k \in {old.cc.max, e} : Max({old.cc.max, e}) >= k
      BY <3>6 DEF Max
    <3>8. Max({old.cc.max, e}) \in Int
      BY <3>1, <3>3, <3>7
    <3> QED
      BY <3>1, <3>3, <3>5, <3>7, <3>8 DEF b, e
  <2>4. /\ n < t => Early(i, new)
        /\ ~(n < t) => Located(i, new)
    <3>0. CASE n < t
      <4>1. Early(i, old) /\ old.cc.max \in Int /\ ~new.stop
        BY <1>1, <1>6, <1>11, <2>2, <3>0 DEF ParserRecord, MachCache
      <4>2. CASE new = old
        BY <3>0, <4>1, <4>2
      <4>3. CASE new # old
        <5>1. cmds[t].vmsize = TextSize(i)
          BY <1>1, NamedSegment DEF cmds, Cmds, TextSize
        <5>2. c.vmsize <= TextSize(i) /\ c.vmsize \in Nat
          BY <1>4, <1>11, <2>1, <3>0, <5>1 DEF SegmentCommand
        <5>3. ImageBase(i) + c.vmsize <= ImageBase(i) + TextSize(i)
          BY <5>2, ImageFields
        <5>4. new.cc.min = ImageBase(i) /\ new.cc.max \in {old.cc.max, ImageBase(i) + c.vmsize}
          BY <2>2, <2>3, <3>0, <4>3, <1>1
        <5>5. NO_MAX_ADDRESS <= new.cc.max /\ new.cc.max <= ImageBase(i) + TextSize(i)
          BY <4>1, <5>2, <5>3, <5>4, ImageFields DEF Early, NO_MAX_ADDRESS, NULL
        <5> QED
          BY <3>0, <4>1, <5>4, <5>5 DEF Early
      <4> QED
        BY <4>2, <4>3
    <3>1. CASE n = t
      <4>1. c.name = "__TEXT" /\ TextAddr(i) = c.vmaddr /\ TextSize(i) = c.vmsize
        BY <1>1, <1>4, <3>1, NamedSegment DEF c, cmds, Cmds, TextAddr, TextSize
      <4>2. /\ ImageBase(i) = i.slide + c.vmaddr /\ ImageBase(i) \in Nat /\ c.vmaddr \in Nat
            /\ c.vmsize \in Nat /\ c.vmsize > 0 /\ ImageBase(i) + c.vmsize <= Space
        BY <4>1, ImageFields
      <4>3. ImageBase(i) - c.vmaddr = i.slide
        BY <1>1, <4>2
      <4>4. new.cc.min = ImageBase(i)
        BY <1>1, <2>2, <2>3, <3>1, <4>1
      <4>5. new.cc.max = ImageBase(i) + c.vmsize
        <5>1. old.cc.max <= ImageBase(i) + c.vmsize /\ old.cc.max \in Int
          BY <1>1, <1>6, <3>1, <4>1 DEF Early, ParserRecord, MachCache
        <5>2. /\ new.cc.max \in {old.cc.max, ImageBase(i) + c.vmsize}
              /\ ImageBase(i) + c.vmsize <= new.cc.max
          BY <1>1, <2>2, <2>3, <3>1, <4>1
        <5> DEFINE e == ImageBase(i) + c.vmsize
        <5>3. e \in Int
          BY <4>2
        <5> HIDE DEF e
        <5>4. old.cc.max <= e /\ new.cc.max \in {old.cc.max, e} /\ e <= new.cc.max
          BY <5>1, <5>2 DEF e
        <5>5. new.cc.max = e
          BY <5>1, <5>3, <5>4
        <5> QED
          BY <5>5 DEF e
      <4> QED
        BY <1>1, <2>2, <3>1, <4>1, <4>3, <4>4, <4>5 DEF Located
    <3>2. CASE n # t /\ ~(n < t)
      <4>1. ~(n - 1 < t) /\ c.name # "__TEXT"
        BY <1>1, <1>4, <1>11, <3>2
      <4>2. Located(i, old)
        BY <1>6, <4>1
      <4>3. old.text_base # UNDEFINED
        BY <1>1, <4>2 DEF Located, UNDEFINED
      <4> QED
        BY <2>2, <3>2, <4>1, <4>2, <4>3
    <3> QED
      BY <3>0, <3>1, <3>2
  <2>5. \A l \in 1..n : linkedit(l) => new.link_base = place(l)
    <3>1. ~linkedit(n)
      <4> SUFFICES ASSUME linkedit(n) PROVE FALSE
        OBVIOUS
      <4>1. c.initprot = {"r"}
        BY <1>1, <1>5 DEF c
      <4> QED
        BY <1>11, <4>1
    <3> QED
      BY <1>6, <1>10, <1>11, <2>2, <3>1
  <2>6. Goal
    BY <1>6, <1>10, <1>11, <2>2, <2>4, <2>5
  <2> QED
    BY <2>6 DEF ParserState, cmds, new, linkedit, place
<1>12. CASE ~old.stop /\ c.cmd = "segment" /\ c.initprot = {"r"}
  <2>1. new = ReadOnlySegment(old, c) /\ c \in SegmentCommand
    BY <1>2, <1>3, <1>12, CommandCases
  <2>2. /\ new \in ParserRecord
        /\ new.stop = old.stop /\ new.text_base = old.text_base /\ new.cc = old.cc
        /\ old.link_base # UNDEFINED /\ c.name # "__LINKEDIT" => new = old
        /\ c.name = "__LINKEDIT" => new.link_base = old.text_base + c.vmaddr - c.fileoff
    BY <1>6, <2>1, LinkEffect
  <2>3. n # t
    BY <1>4, <1>12 DEF c
  <2>4. (n < t) <=> (n - 1 < t)
    BY <1>1, <2>3
  <2>5. /\ n < t => Early(i, new)
        /\ ~(n < t) => Located(i, new)
    BY <1>6, <2>2, <2>4 DEF Early, Located
  <2>6. ASSUME NEW l \in 1..n, linkedit(l)
        PROVE  new.link_base = place(l)
    <3>1. l \in 1..Len(cmds) /\ t < l /\ (linkedit(n) => n = l) /\ place(l) \in Nat
      BY <1>1, <1>5, <2>6
    <3>2. CASE l = n
      <4>1. c.name = "__LINKEDIT" /\ ~(n - 1 < t)
        BY <1>1, <2>6, <3>1, <3>2 DEF linkedit, c
      <4>2. old.text_base = i.slide
        BY <1>6, <4>1 DEF Located
      <4> QED
        BY <2>2, <3>2, <4>1, <4>2 DEF place, c
    <3>3. CASE l # n
      <4>1. old.link_base = place(l)
        BY <1>6, <1>10, <1>12, <2>6, <3>3
      <4>2. old.link_base # UNDEFINED
        BY <3>1, <4>1 DEF UNDEFINED
      <4>3. c.name # "__LINKEDIT"
        BY <1>12, <3>1, <3>3 DEF linkedit, c
      <4> QED
        BY <2>2, <4>1, <4>2, <4>3
    <3> QED
      BY <3>2, <3>3
  <2>7. Goal
    BY <1>6, <1>10, <1>12, <2>2, <2>5, <2>6
  <2> QED
    BY <2>7 DEF ParserState, cmds, new, linkedit, place
<1>13. CASE ~old.stop /\ c.cmd = "segment" /\ "x" \notin c.initprot /\ c.initprot # {"r"}
  <2>1. new \in {old, DataSegment(i, old, c)} /\ c \in SegmentCommand
    BY <1>2, <1>3, <1>13, CommandCases
  <2>2. /\ new \in ParserRecord
        /\ new.stop = old.stop /\ new.text_base = old.text_base /\ new.link_base = old.link_base
        /\ new.cc.text_base = old.cc.text_base /\ new.cc.min = old.cc.min
        /\ new.cc.max = old.cc.max /\ new.cc.blobs = old.cc.blobs /\ new.cc.file = old.cc.file
    BY <1>6, <2>1, DataEffect
  <2>3. n # t
    BY <1>4, <1>13 DEF c
  <2>4. (n < t) <=> (n - 1 < t)
    BY <1>1, <2>3
  <2>5. /\ n < t => Early(i, new)
        /\ ~(n < t) => Located(i, new)
    BY <1>6, <2>2, <2>4 DEF Early, Located
  <2>6. \A l \in 1..n : linkedit(l) => new.link_base = place(l)
    <3>1. ~linkedit(n)
      <4> SUFFICES ASSUME linkedit(n) PROVE FALSE
        OBVIOUS
      <4>1. c.initprot = {"r"}
        BY <1>1, <1>5 DEF c
      <4> QED
        BY <1>13, <4>1
    <3> QED
      BY <1>6, <1>10, <1>13, <2>2, <3>1
  <2>7. Goal
    BY <1>6, <1>10, <1>13, <2>2, <2>5, <2>6
  <2> QED
    BY <2>7 DEF ParserState, cmds, new, linkedit, place
<1> QED
  BY <1>7, <1>8, <1>9, <1>11, <1>12, <1>13

\* After all commands.
LEMMA ParserEnd ==
  ASSUME NEW i \in ImageRecord, NEW t \in DOMAIN Cmds(i), TextAt(i.file, t),
         \A l \in DOMAIN Cmds(i) : Cmds(i)[l].cmd = "segment" /\ Cmds(i)[l].name = "__LINKEDIT" =>
           LinkeditAt(i.file, t, l)
  PROVE  ParserState(i, t, Len(Cmds(i)))
<1> DEFINE bad == {n \in 0..Len(Cmds(i)) : ~ParserState(i, t, n)}
<1>1. Len(Cmds(i)) \in Nat
  BY ImageFields, FileCommands DEF Cmds
<1> SUFFICES ASSUME bad # {} PROVE FALSE
  BY <1>1
<1>2. bad \in SUBSET Nat
  BY <1>1
<1>3. PICK n \in bad : \A m \in bad : n <= m
  BY <1>2, LeastNat
<1>4. n # 0
  BY <1>3, StartState
<1>5. n \in 1..Len(Cmds(i)) /\ n - 1 \in 0..Len(Cmds(i)) /\ ~(n <= n - 1)
  BY <1>1, <1>3, <1>4
<1>6. ParserState(i, t, n - 1)
  BY <1>3, <1>5
<1> QED
  BY <1>3, <1>5, <1>6, ParserStep

\* MachOParser::parse reads an image right, whatever else is in the file.
LEMMA LibraryRight ==
  ASSUME NEW i \in ImageRecord
  PROVE  LET cc == MachLibrary(i) IN
         /\ MachRight(cc, i) /\ cc \in MachCache /\ Pointlike(cc.blobs)
<1> DEFINE cmds == Cmds(i)
           st == Commands(i)[Len(cmds)]
           cc == MachLibrary(i)
<1>1. i.file \in MachNames /\ i.slide \in Nat
  BY ImageFields
<1>2. PICK t \in DOMAIN cmds :
        /\ TextAt(i.file, t)
        /\ \A l \in DOMAIN cmds : cmds[l].cmd = "segment" /\ cmds[l].name = "__LINKEDIT" =>
             LinkeditAt(i.file, t, l)
  BY <1>1, FileCommands DEF Cmds
<1>3. ParserState(i, t, Len(cmds))
  BY <1>2, ParserEnd
<1>4. cmds \in Seq(LoadCommand) /\ t <= Len(cmds) /\ Len(cmds) \in Nat /\ t \in Nat
      /\ DOMAIN cmds = 1..Len(cmds)
  BY <1>1, <1>2, FileCommands DEF Cmds
<1>5. cc = st.cc
  BY DEF MachLibrary, Cmds
<1> HIDE DEF cc, st
<1>6. /\ st \in ParserRecord /\ cc.file = i.file /\ Located(i, st) /\ Pointlike(cc.blobs)
      /\ IF st.stop THEN BlobsRight(i, cc.blobs)
         ELSE /\ cc.blobs = {}
              /\ \A k \in 1..Len(cmds) : cmds[k].cmd # "symtab"
  BY <1>3, <1>4, <1>5 DEF ParserState, st
<1>7. cc \in MachCache
  BY <1>5, <1>6 DEF ParserRecord
<1>8. BlobsRight(i, cc.blobs)
  <2>1. CASE st.stop
    BY <1>6, <2>1
  <2>2. CASE ~st.stop
    <3>1. {n \in DOMAIN MachFiles[i.file].cmds : MachFiles[i.file].cmds[n].cmd = "symtab"} = {}
      BY <1>4, <1>6, <2>2 DEF Cmds
    <3>2. MachFiles[i.file].symbols = {}
      BY <1>1, <3>1, MachFilesAssumption
    <3>3. Defined(i.file) = {}
      BY <3>2 DEF Defined
    <3> QED
      BY <1>6, <2>2, <3>3, NoSymbols
  <2> QED
    BY <2>1, <2>2
<1>9. /\ cc.text_base = i.slide /\ cc.min = ImageBase(i)
      /\ cc.max = ImageBase(i) + Segment(i.file, "__TEXT").vmsize
  BY <1>5, <1>6 DEF Located, TextSize
<1>10. MachRight(cc, i)
  BY <1>6, <1>8, <1>9 DEF MachRight, BlobsRight, Defined
<1> QED
  BY <1>6, <1>7, <1>10 DEF cc

-----------------------------------------------------------------------------
(* The loop over the images of dyld, and the search after it.                *)

\* Images lie behind each other, so no two have their header in one place.
Dyld ==
  /\ images \in Seq(ImageRecord)
  /\ \A m, n \in DOMAIN images : ImageBase(images[m]) = ImageBase(images[n]) => m = n

\* The images read, and the libraries made of them.
Read ==
  /\ next \in 0..Len(images)
  /\ parsed_libraries = {ImageBase(images[n]) : n \in 1..next}
  /\ Len(array) = Min({Cardinality(Opened(next)), MAX_NATIVE_LIBS})
  /\ \A n \in Opened(next) : Cardinality(Opened(n)) <= MAX_NATIVE_LIBS =>
       array[Cardinality(Opened(n))] = MachLibrary(images[n])
  /\ array \in Seq({MachLibrary(images[n]) : n \in 1..next})

Steps ==
  /\ at \in {"load", "parse", "find", "ready"}
  /\ at = "load" => next = 0
  /\ at \in {"load", "parse"} => searched = 0
  /\ at \in {"find", "ready"} => next = Len(images) \/ Full
  /\ searched \in 0..Len(array)

DarwinInv ==
  /\ maps = << >> /\ loads = {} /\ line = 0 /\ asmcgocall_bounds = {}
  /\ Dyld /\ Read /\ Steps

StartInv ==
  /\ os = "linux" => IInv
  /\ os = "darwin" => DarwinInv

LEMMA OpenedCount ==
  ASSUME NEW n \in Nat
  PROVE  /\ IsFiniteSet(Opened(n)) /\ Cardinality(Opened(n)) \in Nat
         /\ \A m \in Nat : m <= n =>
              Opened(m) \subseteq Opened(n) /\ Cardinality(Opened(m)) <= Cardinality(Opened(n))
<1>1. \A k \in Nat : IsFiniteSet(1..k) /\ Opened(k) \subseteq 1..k
  BY FiniteEntries DEF Opened
<1>2. IsFiniteSet(Opened(n))
  BY <1>1, FS_Subset
<1>3. \A m \in Nat : m <= n => Opened(m) \subseteq Opened(n)
  <2>1. \A m \in Nat : m <= n => 1..m \subseteq 1..n
    OBVIOUS
  <2> QED
    BY <2>1 DEF Opened
<1>4. Cardinality(Opened(n)) \in Nat
  BY <1>2, FS_CardinalityType
<1>5. \A m \in Nat : m <= n => Cardinality(Opened(m)) <= Cardinality(Opened(n))
  BY <1>2, <1>3, FS_Subset
<1> QED
  BY <1>2, <1>3, <1>4, <1>5

\* The next image can be opened, or not.
LEMMA OpenedNext ==
  ASSUME NEW n \in Nat
  PROVE  IF MachFiles[images[n + 1].file].opens
           THEN /\ Opened(n + 1) = Opened(n) \cup {n + 1}
                /\ Cardinality(Opened(n + 1)) = Cardinality(Opened(n)) + 1
           ELSE Opened(n + 1) = Opened(n)
<1> DEFINE opens(m) == MachFiles[images[m].file].opens
<1>1. \A m : m \in 1..(n + 1) <=> m \in 1..n \/ m = n + 1
  OBVIOUS
<1>2. opens(n + 1) => Opened(n + 1) = Opened(n) \cup {n + 1}
  BY <1>1 DEF Opened
<1>3. ~opens(n + 1) => Opened(n + 1) = Opened(n)
  BY <1>1 DEF Opened
<1>4. n + 1 \notin Opened(n)
  <2>1. n + 1 \notin 1..n
    OBVIOUS
  <2> QED
    BY <2>1 DEF Opened
<1>5. Cardinality(Opened(n) \cup {n + 1}) = Cardinality(Opened(n)) + 1
  BY <1>4, OpenedCount, FS_AddElement
<1> QED
  BY <1>2, <1>3, <1>5

LEMMA MinOf ==
  ASSUME NEW a \in Nat, NEW b \in Nat
  PROVE  Min({a, b}) = IF a <= b THEN a ELSE b
<1> DEFINE low == IF a <= b THEN a ELSE b
<1>1. low \in {a, b} /\ \A x \in {a, b} : low <= x
  OBVIOUS
<1>2. \A y \in {a, b} : (\A x \in {a, b} : y <= x) => y = low
  OBVIOUS
<1> HIDE DEF low
<1> QED
  BY <1>1, <1>2 DEF Min, low

LEMMA StartHolds == StartInit => StartInv
<1> SUFFICES ASSUME StartInit PROVE StartInv
  OBVIOUS
<1>1. IInv
  BY InitIInv DEF StartInit
<1>2. /\ maps = << >> /\ loads = {} /\ at = "load" /\ line = 0 /\ array = << >>
      /\ searched = 0 /\ asmcgocall_bounds = {}
      /\ images = << >> /\ parsed_libraries = {} /\ next = 0
  BY DEF StartInit, Init
<1>3. Dyld /\ Steps
  BY <1>2 DEF Dyld, Steps
<1>4. Read
  <2>1. Opened(0) = {} /\ Cardinality({}) = 0
    BY FS_EmptySet DEF Opened
  <2>2. Min({0, MAX_NATIVE_LIBS}) = 0
    BY MinOf, ImageAssumption
  <2>3. parsed_libraries = {ImageBase(images[n]) : n \in 1..next}
    BY <1>2
  <2>4. Opened(next) = {} /\ Len(array) = 0 /\ next \in 0..Len(images)
    BY <1>2, <2>1
  <2>5. array \in Seq({MachLibrary(images[n]) : n \in 1..next})
    BY <1>2
  <2> QED
    BY <2>1, <2>2, <2>3, <2>4, <2>5 DEF Read
<1> QED
  BY <1>1, <1>2, <1>3, <1>4 DEF StartInv, DarwinInv

\* dyld maps an image behind the others.
LEMMA MapImageInv ==
  ASSUME DarwinInv, MapImage
  PROVE  DarwinInv'
<1>1. PICK f \in MachNames, slide \in Slides :
        LET new == [file |-> f, slide |-> slide]
        IN  /\ \A i \in Range(images) : i.file # f /\ Occupied(i) \cap Occupied(new) = {}
            /\ images' = Append(images, new)
  BY DEF MapImage
<1> DEFINE new == [file |-> f, slide |-> slide]
<1>2. /\ at = "load" /\ UNCHANGED <<vars, os, loop>>
      /\ images \in Seq(ImageRecord) /\ next = 0 /\ Read /\ Steps
  BY DEF MapImage, DarwinInv, Steps, Dyld
<1>3. UNCHANGED <<maps, loads, at, line, array, searched, asmcgocall_bounds, parsed_libraries, next>>
  BY <1>2 DEF vars, process, parser, search, loop
<1>4. new \in ImageRecord /\ images' = Append(images, new)
  BY <1>1 DEF ImageRecord
<1>5. \A i \in ImageRecord : ImageBase(i) \in Occupied(i)
  <2> SUFFICES ASSUME NEW i \in ImageRecord PROVE ImageBase(i) \in Occupied(i)
    OBVIOUS
  <2> DEFINE cmds == MachFiles[i.file].cmds
  <2>1. PICK t \in DOMAIN cmds : TextAt(i.file, t)
    BY ImageFields, FileCommands
  <2>2. Segment(i.file, "__TEXT") = cmds[t] /\ cmds[t] \in SegmentCommand
    BY <2>1, ImageFields, NamedSegment
  <2>3. cmds[t] \in {d \in Range(MachFiles[i.file].cmds) : d.cmd = "segment"}
    BY <2>1, <2>2 DEF SegmentCommand, Range
  <2>4. /\ ImageBase(i) = i.slide + cmds[t].vmaddr /\ ImageBase(i) \in Nat
        /\ cmds[t].vmsize \in Nat /\ cmds[t].vmsize > 0
    BY <2>2, ImageFields DEF TextAddr, TextSize
  <2> HIDE DEF cmds
  <2>5. ImageBase(i) \in (i.slide + cmds[t].vmaddr)..(i.slide + cmds[t].vmaddr + cmds[t].vmsize - 1)
    BY <2>4
  <2> QED
    BY <2>3, <2>5 DEF Occupied, cmds
<1>6. \A m \in DOMAIN images : ImageBase(images[m]) # ImageBase(new)
  <2> SUFFICES ASSUME NEW m \in DOMAIN images PROVE ImageBase(images[m]) # ImageBase(new)
    OBVIOUS
  <2>1. images[m] \in ImageRecord /\ images[m] \in Range(images)
    BY <1>2 DEF Range
  <2>2. Occupied(images[m]) \cap Occupied(new) = {}
    BY <1>1, <2>1
  <2>3. ImageBase(images[m]) \in Occupied(images[m]) /\ ImageBase(new) \in Occupied(new)
    BY <1>4, <1>5, <2>1
  <2> QED
    BY <2>2, <2>3
<1> HIDE DEF new
<1>7. /\ images' \in Seq(ImageRecord) /\ Len(images') = Len(images) + 1 /\ Len(images) \in Nat
      /\ DOMAIN images' = 1..(Len(images) + 1) /\ DOMAIN images = 1..Len(images)
      /\ images'[Len(images) + 1] = new /\ \A m \in 1..Len(images) : images'[m] = images[m]
  BY <1>2, <1>4
<1>8. Dyld'
  <2>1. ASSUME NEW m \in DOMAIN images', NEW n \in DOMAIN images',
               ImageBase(images'[m]) = ImageBase(images'[n])
        PROVE  m = n
    <3>1. \A k \in DOMAIN images' : k \in DOMAIN images \/ k = Len(images) + 1
      BY <1>7
    <3>2. \A k, l \in DOMAIN images : ImageBase(images[k]) = ImageBase(images[l]) => k = l
      BY DEF DarwinInv, Dyld
    <3> QED
      BY <1>6, <1>7, <2>1, <3>1, <3>2
  <2> QED
    BY <1>7, <2>1 DEF Dyld
<1>9. Opened(0) = {} /\ Opened(next)' = {} /\ Opened(next) = {}
  BY <1>2, <1>3 DEF Opened
<1>10. Read'
  <2>1. array = << >>
    <3>1. array \in Seq({MachLibrary(images[n]) : n \in 1..0})
      BY <1>2 DEF Read
    <3>2. Cardinality(Opened(0)) = 0
      BY <1>9, FS_EmptySet
    <3>3. Len(array) = 0
      BY <1>2, <3>2, MinOf, ImageAssumption DEF Read
    <3> QED
      BY <3>1, <3>3
  <2>2. parsed_libraries = {} /\ next \in 0..Len(images') /\ 1..next = {}
    BY <1>2, <1>7 DEF Read
  <2>3. {ImageBase(images'[n]) : n \in 1..next} = {}
    BY <2>2
  <2>4. Len(array) = Min({Cardinality(Opened(next)), MAX_NATIVE_LIBS})
    BY <1>2 DEF Read
  <2>5. Len(array) = Min({Cardinality(Opened(next)'), MAX_NATIVE_LIBS})
    BY <1>9, <2>4
  <2>6. array \in Seq({MachLibrary(images'[n]) : n \in 1..next})
    BY <2>1
  <2> QED
    BY <1>2, <1>3, <1>9, <2>2, <2>3, <2>5, <2>6 DEF Read
<1>11. Steps'
  BY <1>2, <1>3 DEF Steps
<1> QED
  BY <1>3, <1>8, <1>10, <1>11 DEF DarwinInv

\* One more image: skipped, added or beyond the limit.
LEMMA ParseImageInv ==
  ASSUME DarwinInv, ParseImage
  PROVE  DarwinInv'
<1> DEFINE n == next + 1
           i == images[n]
           count == Cardinality(Opened(next))
           Libraries(k) == {MachLibrary(images[m]) : m \in 1..k}
<1>1. /\ at = "parse" /\ next < Len(images) /\ next' = n
      /\ parsed_libraries' = parsed_libraries \cup {ImageBase(i)}
      /\ SkipImage(i) \/ AddImage(i) \/ NoRoom(i)
      /\ UNCHANGED <<maps, loads, line, searched, asmcgocall_bounds, images>>
  BY DEF ParseImage, process, search, dyld
<1>2. /\ maps = << >> /\ loads = {} /\ line = 0 /\ asmcgocall_bounds = {}
      /\ Dyld /\ Read /\ Steps
  BY DEF DarwinInv
<1>3. /\ next \in Nat /\ n \in DOMAIN images /\ n \in 1..Len(images) /\ Len(images) \in Nat
      /\ images \in Seq(ImageRecord)
  BY <1>1, <1>2 DEF Dyld, Read
<1>4. ImageBase(i) \notin parsed_libraries
  <2> SUFFICES ASSUME NEW m \in 1..next, ImageBase(images[m]) = ImageBase(i) PROVE FALSE
    BY <1>2 DEF Read
  <2>1. m \in DOMAIN images /\ m # n
    BY <1>3
  <2> QED
    BY <1>2, <1>3, <2>1 DEF Dyld
<1>5. parsed_libraries' = {ImageBase(images[m]) : m \in 1..n}
  <2>1. \A m : m \in 1..n <=> m \in 1..next \/ m = n
    BY <1>3
  <2>2. parsed_libraries = {ImageBase(images[m]) : m \in 1..next}
    BY <1>2 DEF Read
  <2> QED
    BY <1>1, <2>1, <2>2
<1>6. /\ count \in Nat /\ MAX_NATIVE_LIBS \in Nat /\ MAX_NATIVE_LIBS > 0
      /\ Len(array) \in Nat
      /\ Len(array) = IF count <= MAX_NATIVE_LIBS THEN count ELSE MAX_NATIVE_LIBS
      /\ array \in Seq(Libraries(next))
      /\ \A m \in Opened(next) : Cardinality(Opened(m)) <= MAX_NATIVE_LIBS =>
           array[Cardinality(Opened(m))] = MachLibrary(images[m])
  <2>1. count \in Nat /\ MAX_NATIVE_LIBS \in Nat /\ MAX_NATIVE_LIBS > 0
    <3>1. count \in Nat
      BY <1>3, OpenedCount
    <3> QED
      BY <3>1, ImageAssumption
  <2>2. Len(array) = IF count <= MAX_NATIVE_LIBS THEN count ELSE MAX_NATIVE_LIBS
    BY <1>2, <2>1, MinOf DEF Read
  <2>3. array \in Seq(Libraries(next))
    BY <1>2 DEF Read
  <2> QED
    BY <1>2, <2>1, <2>2, <2>3 DEF Read
<1>7. IF MachFiles[i.file].opens
        THEN Opened(n) = Opened(next) \cup {n} /\ Cardinality(Opened(n)) = count + 1
        ELSE Opened(n) = Opened(next)
  BY <1>3, OpenedNext
<1>8. \A m \in Opened(next) : Cardinality(Opened(m)) \in 1..count
  <2> SUFFICES ASSUME NEW m \in Opened(next) PROVE Cardinality(Opened(m)) \in 1..count
    OBVIOUS
  <2>1. m \in Nat /\ m <= next /\ m \in Opened(m)
    BY <1>3 DEF Opened
  <2>2. IsFiniteSet(Opened(m)) /\ Cardinality(Opened(m)) \in Nat
        /\ Cardinality(Opened(m)) <= Cardinality(Opened(next))
    BY <1>3, <2>1, OpenedCount
  <2>3. Cardinality(Opened(m)) # 0
    BY <2>1, <2>2, FS_EmptySet
  <2> QED
    BY <1>6, <2>2, <2>3
<1>9. \A k : Opened(k)' = Opened(k) /\ Libraries(k)' = Libraries(k)
  <2>1. images' = images
    BY <1>1
  <2>2. \A k : Opened(k)' = Opened(k)
    BY <2>1 DEF Opened
  <2>3. \A j : MachLibrary(j)' = MachLibrary(j)
    OBVIOUS
  <2> QED
    BY <2>1, <2>2, <2>3
<1>10. Libraries(next) \subseteq Libraries(n) /\ MachLibrary(i) \in Libraries(n)
  BY <1>3
<1> DEFINE
     Goal == /\ Len(array') = Min({Cardinality(Opened(n)), MAX_NATIVE_LIBS})
             /\ \A m \in Opened(n) : Cardinality(Opened(m)) <= MAX_NATIVE_LIBS =>
                  array'[Cardinality(Opened(m))] = MachLibrary(images[m])
             /\ array' \in Seq(Libraries(n))
             /\ at' \in {"parse", "find"} /\ (at' = "find" => Len(array') >= MAX_NATIVE_LIBS)
             /\ Len(array) <= Len(array')
<1> HIDE DEF count, Libraries, n, i
<1>11. ASSUME SkipImage(i) PROVE Goal
  <2>1. UNCHANGED <<array, at>> /\ ~MachFiles[i.file].opens
    BY <1>4, <1>11 DEF SkipImage
  <2>2. Opened(n) = Opened(next)
    BY <1>7, <2>1
  <2>3. array' \in Seq(Libraries(n))
    BY <1>6, <1>10, <2>1
  <2>4. Len(array) = Min({Cardinality(Opened(n)), MAX_NATIVE_LIBS})
    BY <1>6, <2>2, MinOf DEF count
  <2>5. array' = array /\ at' = "parse" /\ Len(array) <= Len(array')
    BY <1>1, <1>6, <2>1
  <2> QED
    BY <1>6, <2>2, <2>3, <2>4, <2>5
<1>12. ASSUME AddImage(i) PROVE Goal
  <2>1. ~Full /\ MachFiles[i.file].opens /\ array' = Append(array, MachLibrary(i)) /\ at' = at
    BY <1>12 DEF AddImage
  <2>2. Opened(n) = Opened(next) \cup {n} /\ Cardinality(Opened(n)) = count + 1
    BY <1>7, <2>1
  <2>3. Len(array) < MAX_NATIVE_LIBS
    BY <1>6, <2>1 DEF Full
  <2>4. Len(array) = count /\ count + 1 <= MAX_NATIVE_LIBS /\ DOMAIN array = 1..count
    BY <1>6, <2>3
  <2>5. array \in Seq(Libraries(n))
    BY <1>6, <1>10
  <2>6. /\ array' \in Seq(Libraries(n)) /\ Len(array') = count + 1
        /\ array'[count + 1] = MachLibrary(i) /\ \A k \in 1..count : array'[k] = array[k]
    BY <1>10, <2>1, <2>4, <2>5
  <2>7. Min({count + 1, MAX_NATIVE_LIBS}) = count + 1
    BY <1>6, <2>4, MinOf
  <2>8. \A m \in Opened(n) : Cardinality(Opened(m)) <= MAX_NATIVE_LIBS =>
          array'[Cardinality(Opened(m))] = MachLibrary(images[m])
    <3> SUFFICES ASSUME NEW m \in Opened(n), Cardinality(Opened(m)) <= MAX_NATIVE_LIBS
                 PROVE  array'[Cardinality(Opened(m))] = MachLibrary(images[m])
      OBVIOUS
    <3>1. CASE m \in Opened(next)
      BY <1>6, <1>8, <2>6, <3>1
    <3>2. CASE m = n
      <4>1. array'[count + 1] = MachLibrary(i)
        BY <2>6
      <4> QED
        BY <2>2, <3>2, <4>1 DEF i
    <3> QED
      BY <2>2, <3>1, <3>2
  <2>9. at' = "parse" /\ Len(array) <= Len(array')
    BY <1>1, <1>6, <2>1, <2>4, <2>6
  <2>10. Len(array') = Min({Cardinality(Opened(n)), MAX_NATIVE_LIBS})
    BY <2>2, <2>6, <2>7
  <2> QED
    BY <2>6, <2>8, <2>9, <2>10
<1>13. ASSUME NoRoom(i) PROVE Goal
  <2>1. Full /\ at' = "find" /\ array' = array
    BY <1>13 DEF NoRoom
  <2>2. Len(array) >= MAX_NATIVE_LIBS
    BY <2>1 DEF Full
  <2>3. Len(array) = MAX_NATIVE_LIBS /\ count >= MAX_NATIVE_LIBS
    BY <1>6, <2>2
  <2>4. /\ Cardinality(Opened(n)) \in Nat /\ Cardinality(Opened(n)) >= MAX_NATIVE_LIBS
        /\ \A m \in Opened(n) : Cardinality(Opened(m)) <= MAX_NATIVE_LIBS => m \in Opened(next)
    BY <1>6, <1>7, <2>3 DEF count
  <2>5. Min({Cardinality(Opened(n)), MAX_NATIVE_LIBS}) = MAX_NATIVE_LIBS
    BY <1>6, <2>4, MinOf
  <2>6. array' \in Seq(Libraries(n))
    BY <1>6, <1>10, <2>1
  <2> QED
    BY <1>6, <2>1, <2>3, <2>4, <2>5, <2>6
<1>14. Goal
  BY <1>1, <1>11, <1>12, <1>13
<1>15. Read'
  <2>1. next' \in 0..Len(images')
    BY <1>1, <1>3
  <2>2. Cardinality(Opened(next))' = Cardinality(Opened(n))
    BY <1>1, <1>9
  <2>3. Opened(next)' = Opened(n)
    BY <1>1, <1>9
  <2>4. array' \in Seq({MachLibrary(images'[m]) : m \in 1..next'})
    BY <1>1, <1>14 DEF Libraries
  <2>5. parsed_libraries' = {ImageBase(images'[m]) : m \in 1..next'}
    BY <1>1, <1>5
  <2>6. \A m \in Opened(n) : Cardinality(Opened(m)') <= MAX_NATIVE_LIBS =>
          array'[Cardinality(Opened(m)')] = MachLibrary(images'[m])
    BY <1>1, <1>9, <1>14
  <2>7. Len(array') = Min({Cardinality(Opened(n)), MAX_NATIVE_LIBS})
    BY <1>14
  <2> QED
    BY <2>1, <2>2, <2>3, <2>4, <2>5, <2>6, <2>7 DEF Read
<1>16. Steps'
  <2>1. searched = 0 /\ 0 \in 0..Len(array')
    BY <1>1, <1>2, <1>6, <1>14 DEF Steps
  <2> QED
    BY <1>1, <1>14, <2>1 DEF Steps, Full
<1>17. Dyld'
  BY <1>1, <1>2 DEF Dyld
<1> QED
  BY <1>1, <1>2, <1>15, <1>16, <1>17 DEF DarwinInv

\* The steps that leave the libraries alone.
LEMMA SameImages ==
  ASSUME DarwinInv, UNCHANGED <<maps, loads, line, array, images, parsed_libraries, next>>,
         asmcgocall_bounds' = {}, Steps'
  PROVE  DarwinInv'
<1>1. Dyld'
  BY DEF DarwinInv, Dyld
<1>2. \A k : Opened(k)' = Opened(k)
  BY DEF Opened
<1>3. Read /\ Opened(next)' = Opened(next)
  BY <1>2 DEF DarwinInv
<1>4. Cardinality(Opened(next))' = Cardinality(Opened(next))
  BY <1>3
<1>5. Read'
  BY <1>2, <1>3, <1>4 DEF Read
<1> QED
  BY <1>1, <1>5 DEF DarwinInv

\* Every library of an image has symbols of length zero only, so find, whose
\* end is open, finds none of them.
LEMMA ImageLibraries ==
  ASSUME DarwinInv, NEW k \in DOMAIN array
  PROVE  \E n \in 1..next : /\ images[n] \in ImageRecord /\ n \in DOMAIN images
                            /\ array[k] = MachLibrary(images[n])
<1>1. PICK n \in 1..next : array[k] = MachLibrary(images[n])
  <2>1. array[k] \in {MachLibrary(images[n]) : n \in 1..next}
    BY DEF DarwinInv, Read
  <2> QED
    BY <2>1
<1>2. n \in DOMAIN images /\ images \in Seq(ImageRecord)
  BY DEF DarwinInv, Read, Dyld
<1> QED
  BY <1>1, <1>2

LEMMA NothingFound ==
  ASSUME DarwinInv, FindAsmcgocall
  PROVE  asmcgocall_bounds' = {}
<1> DEFINE cc == array[searched + 1]
           a == First(AsmSymbols(cc)).start
           found == IF AsmSymbols(cc) = {} THEN {} ELSE find(cc, a)
<1>1. searched + 1 \in DOMAIN array
  <2>1. searched \in 0..Len(array) /\ searched < Len(array)
    BY DEF DarwinInv, Steps, FindAsmcgocall
  <2>2. array \in Seq({MachLibrary(images[n]) : n \in 1..next})
    BY DEF DarwinInv, Read
  <2> QED
    BY <2>1, <2>2
<1>2. PICK n \in 1..next : images[n] \in ImageRecord /\ cc = MachLibrary(images[n])
  BY <1>1, ImageLibraries
<1>3. IsFiniteSet(cc.blobs) /\ \A b \in cc.blobs : b.start \in Nat /\ b.end = b.start
  BY <1>2, LibraryRight DEF Pointlike
<1> HIDE DEF cc
<1>4. AsmSymbols(cc) \subseteq cc.blobs
  BY DEF AsmSymbols, findSymbol
<1>5. AsmSymbols(cc) # {} => a \in Nat
  <2> SUFFICES ASSUME AsmSymbols(cc) # {} PROVE a \in Nat
    OBVIOUS
  <2>1. IsFiniteSet(AsmSymbols(cc))
    BY <1>3, <1>4, FS_Subset
  <2>2. First(AsmSymbols(cc)) \in AsmSymbols(cc)
    BY <1>3, <1>4, <2>1, FirstIn
  <2> QED
    BY <1>3, <1>4, <2>2
<1> HIDE DEF a
<1>6. a \in Nat => find(cc, a) = {}
  BY <1>3 DEF find
<1>7. found = {}
  BY <1>5, <1>6
<1>8. UNCHANGED asmcgocall_bounds
  BY <1>7 DEF FindAsmcgocall, cc, a
<1> QED
  BY <1>8 DEF DarwinInv

LEMMA DarwinStep ==
  ASSUME DarwinInv, DarwinNext
  PROVE  DarwinInv'
<1>1. CASE MapImage
  BY <1>1, MapImageInv
<1>2. CASE ParseImage
  BY <1>2, ParseImageInv
<1>3. CASE LastImage
  <2>1. Steps'
    BY <1>3 DEF LastImage, DarwinInv, Steps, Full, process, parser, search, dyld, loop
  <2> QED
    BY <1>3, <2>1, SameImages DEF LastImage, DarwinInv, process, parser, search, dyld, loop
<1>4. CASE Open /\ UNCHANGED <<dyld, loop>>
  <2>1. Steps'
    BY <1>4 DEF Open, DarwinInv, Steps, process, parser, search, dyld, loop
  <2> QED
    BY <1>4, <2>1, SameImages DEF Open, DarwinInv, process, parser, search, dyld, loop
<1>5. CASE FindAsmcgocall /\ UNCHANGED <<dyld, loop>>
  <2>1. asmcgocall_bounds' = {}
    BY <1>5, NothingFound
  <2>2. UNCHANGED <<maps, loads, line, array, images, parsed_libraries, next, at>>
        /\ at = "find" /\ searched < Len(array) /\ searched' = searched + 1
    BY <1>5 DEF FindAsmcgocall, process, parser, dyld, loop
  <2>3. searched \in Int /\ 0 <= searched /\ Len(array) \in Nat
    BY DEF DarwinInv, Steps, Read
  <2>4. searched' \in 0..Len(array)
    BY <2>2, <2>3
  <2>5. Steps'
    BY <2>2, <2>4 DEF DarwinInv, Steps, Full
  <2> QED
    BY <2>1, <2>2, <2>5, SameImages
<1>6. CASE Main /\ UNCHANGED <<dyld, loop>>
  <2>1. Steps'
    BY <1>6 DEF Main, DarwinInv, Steps, Full, process, parser, search, dyld, loop
  <2> QED
    BY <1>6, <2>1, SameImages DEF Main, DarwinInv, process, parser, search, dyld, loop
<1> QED
  BY <1>1, <1>2, <1>3, <1>4, <1>5, <1>6 DEF DarwinNext

LEMMA StepHolds == StartInv /\ [LinuxNext \/ DarwinNext]_startVars => StartInv'
<1> SUFFICES ASSUME StartInv, [LinuxNext \/ DarwinNext]_startVars PROVE StartInv'
  OBVIOUS
<1>1. CASE LinuxNext
  <2>1. os = "linux" /\ os' = os /\ Next
    BY <1>1 DEF LinuxNext, dyld
  <2>2. IInv'
    BY <2>1, StepIInv DEF StartInv
  <2> QED
    BY <2>1, <2>2 DEF StartInv
<1>2. CASE DarwinNext
  <2>1. os = "darwin" /\ os' = os
    BY <1>2 DEF DarwinNext, MapImage, ParseImage, LastImage, dyld
  <2>2. DarwinInv'
    BY <1>2, <2>1, DarwinStep DEF StartInv
  <2> QED
    BY <2>1, <2>2 DEF StartInv
<1>3. CASE UNCHANGED startVars
  <2>1. UNCHANGED vars /\ UNCHANGED os
    BY <1>3 DEF startVars, dyld
  <2>2. IInv => IInv'
    BY <2>1, StepIInv
  <2>3. DarwinInv => DarwinInv'
    <3> SUFFICES ASSUME DarwinInv PROVE DarwinInv'
      OBVIOUS
    <3>1. UNCHANGED <<maps, loads, at, line, array, searched, asmcgocall_bounds, images,
                      parsed_libraries, next>>
      BY <1>3 DEF startVars, vars, dyld, loop, process, parser, search
    <3>2. Steps' /\ asmcgocall_bounds' = {}
      BY <3>1 DEF DarwinInv, Steps, Full
    <3> QED
      BY <3>1, <3>2, SameImages
  <2> QED
    BY <2>1, <2>2, <2>3 DEF StartInv
<1> QED
  BY <1>1, <1>2, <1>3

LEMMA StartInvariance == StartSpec => []StartInv
<1>1. StartInit => StartInv
  BY StartHolds
<1>2. StartInv /\ [LinuxNext \/ DarwinNext]_startVars => StartInv'
  BY StepHolds
<1> QED
  BY <1>1, <1>2, PTL DEF StartSpec

-----------------------------------------------------------------------------
(* Theorems.                                                                 *)

\* Whatever executable segments come before __TEXT, none larger, or behind it,
\* whatever read-only ones come before __LINKEDIT or behind it, and wherever dyld
\* puts the images: each that can be opened has one library, with its own bounds
\* and symbols, until the array is full (symbols_darwin.cpp:85-97, 121-140).
THEOREM ImagesRead == StartSpec => []MachRead
<1>1. StartInv => MachRead
  <2> SUFFICES ASSUME StartInv, os = "darwin" PROVE MachRead
    BY DEF MachRead
  <2>1. DarwinInv /\ Read /\ Steps /\ Dyld
    BY DEF StartInv, DarwinInv
  <2>2. /\ next \in Nat /\ next <= Len(images) /\ Len(images) \in Nat
        /\ MAX_NATIVE_LIBS \in Nat /\ images \in Seq(ImageRecord)
    BY <2>1, ImageAssumption DEF Read, Dyld
  <2> DEFINE count(n) == Cardinality(Opened(n))
  <2>3. \A n \in Opened(next) : count(n) <= MAX_NATIVE_LIBS =>
          MachRight(array[count(n)], images[n])
    <3> SUFFICES ASSUME NEW n \in Opened(next), count(n) <= MAX_NATIVE_LIBS
                 PROVE  MachRight(array[count(n)], images[n])
      OBVIOUS
    <3>1. n \in DOMAIN images
      BY <2>2 DEF Opened
    <3>2. images[n] \in ImageRecord
      BY <2>2, <3>1
    <3>3. array[count(n)] = MachLibrary(images[n])
      BY <2>1 DEF Read
    <3> QED
      BY <3>2, <3>3, LibraryRight
  <2>4. Len(array) = Min({count(next), MAX_NATIVE_LIBS})
    BY <2>1 DEF Read
  <2>5. at \in {"find", "ready"} => Len(array) = Min({count(Len(images)), MAX_NATIVE_LIBS})
    <3>1. CASE at \in {"find", "ready"} /\ next = Len(images)
      BY <2>4, <3>1
    <3>2. CASE at \in {"find", "ready"} /\ Full
      <4>1. /\ count(next) \in Nat /\ count(Len(images)) \in Nat
            /\ count(next) <= count(Len(images))
        BY <2>2, OpenedCount
      <4> HIDE DEF count
      <4>2. Len(array) >= MAX_NATIVE_LIBS
        BY <3>2 DEF Full
      <4> QED
        BY <2>2, <2>4, <4>1, <4>2, MinOf
    <3> QED
      BY <2>1, <3>1, <3>2 DEF Steps
  <2> QED
    BY <2>3, <2>4, <2>5 DEF MachRead
<1> QED
  BY <1>1, StartInvariance, PTL

\* MachTruncates fails in every process with asmcgocall, not only in the one of
\* the run: its symbol ends where it starts, so no address ends a stack on macOS
\* (symbols_darwin.cpp:61, codeCache.cpp:127, cgotraceback.cpp:29-48).
MachUntruncated ==
  os = "darwin" => \A a \in 0..(Space - 1) : ~InAsmcgocall(a)

THEOREM StacksWhole == StartSpec => []MachUntruncated
<1>1. StartInv => MachUntruncated
  BY DEF StartInv, DarwinInv, MachUntruncated, InAsmcgocall
<1> QED
  BY <1>1, StartInvariance, PTL
=============================================================================

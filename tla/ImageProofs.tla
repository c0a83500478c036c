------------------------------ MODULE ImageProofs ------------------------------
(***************************************************************************)
(* Proofs about Image, for any files, any layout of the process and any    *)
(* number of lines and libraries: TypeCorrect, HeadersReadable, TablesOwn, *)
(* GotsOwn, FilesParsed and BoundsExact.                                   *)
(*                                                                         *)
(* The inductive invariant has a part for the process (Mapped, Loaded),    *)
(* one for what the parser knows (Phases), one that says                   *)
(* from which line each library was made (Built) and one that says which   *)
(* library has the symbols of a file (Once).  What a library may hold is   *)
(* then a matter of the functions that make it.  BoundsExact also needs    *)
(* that the header of a program is in reach when its code is read          *)
(* (Reached, Based), and what the search has passed (Searched).            *)
(***************************************************************************)
EXTENDS Image, TLAPS, FiniteSetTheorems, WellFoundedInduction

Names == FileNames \cup {NoFile, Vdso}
LineRecord ==
  [lo : Nat, hi : Nat, r : BOOLEAN, x : BOOLEAN, off : Nat, file : Names]

\* The line of the n-th segment of a file that was mapped.
LineOf(l, n) ==
  LET s == Files[l.file].segs[n] IN Line(l.bias + s.vaddr, s.len, s.r, s.x, s.off, l.file)

Mapped ==
  /\ maps \in Seq(LineRecord)
  /\ \A j \in DOMAIN maps :
       /\ MmapMin <= maps[j].lo /\ maps[j].lo < maps[j].hi
       /\ maps[j].file \in FileNames => maps[j].hi < Space
  /\ \A i, j \in DOMAIN maps : i < j => maps[i].hi <= maps[j].lo

Loaded ==
  /\ loads \subseteq [file : FileNames, bias : Nat]
  /\ \A l \in loads :
       /\ IF Files[l.file].type = "exec" THEN l.bias = 0 ELSE MmapMin <= l.bias
       /\ \A n \in DOMAIN Files[l.file].segs : \E j \in DOMAIN maps : maps[j] = LineOf(l, n)
  /\ \A j \in DOMAIN maps : maps[j].file \in FileNames =>
       \E l \in loads : \E n \in DOMAIN Files[l.file].segs : maps[j] = LineOf(l, n)

AllReadable(lo, hi) == \A a \in lo..(hi - 1) : Readable(a) # {}

BaseOf(m) == (m.lo - m.off) % Space

\* What parseProgramHeaders has found at a base.
Bare(cc) == cc.text_base = NULL /\ cc.table = NoFile /\ cc.got = {}
Owned(cc, base, owner) ==
  /\ cc.text_base = base
  /\ cc.table = IF Files[owner].eh_frame THEN owner ELSE NoFile
  /\ cc.got = UNION {GlobalOffsetTable(owner, base, d) : d \in Files[owner].dynamic}
  /\ cc.probed = {base} \cup UNION {DynamicReads(owner, base, d) : d \in Files[owner].dynamic}

\* A library is made from a line: of a file for the first time, or not.
FromFile(cc, m) ==
  /\ m.file \in FileNames
  /\ cc.min = m.lo /\ cc.max = m.hi /\ cc.file = m.file
  /\ cc.blobs = IF Files[m.file].type = "data" THEN {} ELSE LoadSymbols(BaseOf(m), m.file)
  /\ \/ Bare(cc) /\ cc.probed = {}
     \/ /\ Readable(BaseOf(m)) # {}
        /\ \/ Bare(cc) /\ cc.probed = {BaseOf(m)}
           \/ \E owner \in HeaderAt(BaseOf(m)) : Owned(cc, BaseOf(m), owner)

Repeated(cc, m) ==
  /\ cc.min = m.lo /\ cc.max = m.hi /\ cc.file = m.file
  /\ cc.blobs = IF m.file = Vdso THEN ParseMem(m.lo) ELSE {}
  /\ Bare(cc) /\ cc.probed = {}

\* The lines read so far that get a library, and the libraries.
Executables ==
  {maps[j] : j \in {k \in 1..line : maps[k].r /\ maps[k].file # NoFile /\ maps[k].x}}
Caches == {array[i] : i \in DOMAIN array}

Built ==
  /\ array \in Seq(Caches) /\ Len(array) <= MAX_NATIVE_LIBS
  /\ \A cc \in Caches : \E m \in Executables : FromFile(cc, m) \/ Repeated(cc, m)

\* Before the parser runs.
Fresh0 ==
  line = 0 /\ last_readable_base = NULL /\ image_end = NULL /\ parsed_inodes = {}
    /\ array = << >>

Phases ==
  /\ at \in {"load", "parse", "find", "ready"}
  /\ at = "load" => Fresh0
  /\ at \in {"load", "parse"} => searched = 0
  /\ line \in 0..Len(maps) /\ searched \in 0..Len(array)
  /\ last_readable_base \in Nat /\ image_end \in Nat /\ last_readable_base <= image_end
  /\ AllReadable(last_readable_base, image_end)

Found == asmcgocall_bounds \subseteq UNION {array[i].blobs : i \in DOMAIN array}

Base == Mapped /\ Loaded /\ Phases /\ Built /\ Found

\* The libraries of the files with a key.
OfKey(key) == {i \in DOMAIN array : array[i].file \in FileNames /\ InodeKey(array[i].file) = key}

\* A library has the symbols of its file.
HasSymbols(i) ==
  Files[array[i].file].type # "data" =>
    \E base \in 0..(Space - 1) : array[i].blobs = LoadSymbols(base, array[i].file)

Once ==
  /\ \A i \in DOMAIN array : array[i].file \in FileNames =>
       InodeKey(array[i].file) \in parsed_inodes
  /\ \A key \in parsed_inodes : \E i \in OfKey(key) :
       HasSymbols(i) /\ \A k \in OfKey(key) \ {i} : array[k].blobs = {}
  /\ \A j \in 1..line :
       maps[j].r /\ maps[j].x /\ maps[j].file \in FileNames =>
         InodeKey(maps[j].file) \in parsed_inodes \/ Full
  /\ at \in {"find", "ready"} => line = Len(maps) \/ Full

IInv == Base /\ Once

-----------------------------------------------------------------------------
(* The process.                                                              *)

LEMMA LineFields ==
  ASSUME NEW s \in Seq(LineRecord), NEW j \in DOMAIN s
  PROVE  /\ s[j] \in LineRecord
         /\ s[j].lo \in Nat /\ s[j].hi \in Nat /\ s[j].off \in Nat /\ s[j].file \in Names
         /\ s[j].r \in BOOLEAN /\ s[j].x \in BOOLEAN
<1>1. s[j] \in LineRecord
  OBVIOUS
<1> QED
  BY <1>1 DEF LineRecord

LEMMA EndBounds ==
  ASSUME Mapped
  PROVE  End \in Nat /\ MmapMin <= End /\ \A j \in DOMAIN maps : maps[j].hi <= End
<1>1. MmapMin \in Nat
  BY ImageAssumption
<1>2. CASE maps = << >>
  BY <1>1, <1>2 DEF End
<1>3. CASE maps # << >>
  <2> DEFINE n == Len(maps)
  <2>1. n \in Nat /\ n \in DOMAIN maps /\ DOMAIN maps = 1..n
    BY <1>3 DEF Mapped
  <2>2. End = maps[n].hi
    BY <1>3 DEF End
  <2>3. \A j \in DOMAIN maps : maps[j].lo \in Nat /\ maps[j].hi \in Nat /\ maps[j].lo < maps[j].hi
                               /\ MmapMin <= maps[j].lo
    BY LineFields DEF Mapped
  <2>4. \A j \in DOMAIN maps : j # n => maps[j].hi <= maps[n].lo
    BY <2>1 DEF Mapped
  <2> HIDE DEF n
  <2> QED
    BY <1>1, <2>1, <2>2, <2>3, <2>4
<1> QED
  BY <1>2, <1>3

\* Lines put behind those there are keep the mappings in order.
LEMMA MoreLines ==
  ASSUME Mapped, NEW new \in Seq(LineRecord),
         \A j \in DOMAIN new :
           /\ End <= new[j].lo /\ new[j].lo < new[j].hi
           /\ new[j].file \in FileNames => new[j].hi < Space,
         \A i, j \in DOMAIN new : i < j => new[i].hi <= new[j].lo,
         maps' = maps \o new
  PROVE  /\ Mapped'
         /\ \A j \in DOMAIN maps : j \in DOMAIN maps' /\ maps'[j] = maps[j]
         /\ \A j \in DOMAIN new :
              Len(maps) + j \in DOMAIN maps' /\ maps'[Len(maps) + j] = new[j]
         /\ \A j \in DOMAIN maps' :
              j \in DOMAIN maps \/ \E k \in DOMAIN new : j = Len(maps) + k
         /\ Len(maps) <= Len(maps')
<1> DEFINE n == Len(maps)
           k == Len(new)
<1>1. n \in Nat /\ k \in Nat /\ DOMAIN maps = 1..n /\ DOMAIN new = 1..k
  BY DEF Mapped
<1>2. /\ maps' \in Seq(LineRecord) /\ Len(maps') = n + k
      /\ DOMAIN maps' = 1..(n + k)
  BY DEF Mapped
<1>3. \A j \in 1..n : maps'[j] = maps[j]
  BY DEF Mapped
<1>4. \A j \in 1..k : maps'[n + j] = new[j]
  BY DEF Mapped
<1>5. \A j \in 1..(n + k) : j \in 1..n \/ \E i \in 1..k : j = n + i
  <2> SUFFICES ASSUME NEW j \in 1..(n + k), j \notin 1..n PROVE \E i \in 1..k : j = n + i
    OBVIOUS
  <2>1. j - n \in 1..k /\ j = n + (j - n)
    BY <1>1
  <2> QED
    BY <2>1
<1>6. \A j \in 1..n : maps[j].hi <= End /\ maps[j].lo \in Nat /\ maps[j].hi \in Nat
  BY <1>1, EndBounds, LineFields DEF Mapped
<1>7. \A j \in 1..k : new[j].lo \in Nat /\ new[j].hi \in Nat
  BY <1>1, LineFields
<1>8. MmapMin \in Nat /\ End \in Nat /\ MmapMin <= End
  BY EndBounds, ImageAssumption
<1>9. \A j \in DOMAIN maps' :
        /\ MmapMin <= maps'[j].lo /\ maps'[j].lo < maps'[j].hi
        /\ maps'[j].file \in FileNames => maps'[j].hi < Space
  <2> SUFFICES ASSUME NEW j \in 1..(n + k)
               PROVE  /\ MmapMin <= maps'[j].lo /\ maps'[j].lo < maps'[j].hi
                      /\ maps'[j].file \in FileNames => maps'[j].hi < Space
    BY <1>2
  <2>1. CASE j \in 1..n
    BY <1>1, <1>3, <2>1 DEF Mapped
  <2>2. CASE \E i \in 1..k : j = n + i
    <3>1. PICK i \in 1..k : j = n + i
      BY <2>2
    <3>2. maps'[j] = new[i]
      BY <1>4, <3>1
    <3>3. /\ End <= new[i].lo /\ new[i].lo < new[i].hi
          /\ new[i].file \in FileNames => new[i].hi < Space
      BY <1>1, <3>1
    <3>4. MmapMin <= new[i].lo
      BY <1>7, <1>8, <3>1, <3>3
    <3> QED
      BY <3>2, <3>3, <3>4
  <2> QED
    BY <1>5, <2>1, <2>2
<1>10. \A i, j \in DOMAIN maps' : i < j => maps'[i].hi <= maps'[j].lo
  <2> SUFFICES ASSUME NEW i \in 1..(n + k), NEW j \in 1..(n + k), i < j
               PROVE  maps'[i].hi <= maps'[j].lo
    BY <1>2
  <2>1. CASE j \in 1..n
    <3>1. i \in 1..n
      BY <1>1, <2>1
    <3> QED
      BY <1>1, <1>3, <2>1, <3>1 DEF Mapped
  <2>2. CASE i \in 1..n /\ j \notin 1..n
    <3>1. PICK b \in 1..k : j = n + b
      BY <1>5, <2>2
    <3>2. maps'[i].hi <= End
      BY <1>3, <1>6, <2>2
    <3>3. maps'[j] = new[b] /\ End <= new[b].lo
      BY <1>1, <1>4, <3>1
    <3> QED
      BY <1>3, <1>6, <1>7, <1>8, <2>2, <3>1, <3>2, <3>3
  <2>3. CASE i \notin 1..n /\ j \notin 1..n
    <3>1. PICK a \in 1..k, b \in 1..k : i = n + a /\ j = n + b
      BY <1>5, <2>3
    <3>2. a < b
      BY <1>1, <3>1
    <3>3. maps'[i] = new[a] /\ maps'[j] = new[b]
      BY <1>4, <3>1
    <3> QED
      BY <1>1, <3>1, <3>2, <3>3
  <2> QED
    BY <1>1, <2>1, <2>2, <2>3
<1>11. Mapped'
  BY <1>2, <1>9, <1>10 DEF Mapped
<1>12. \A j \in DOMAIN maps : j \in DOMAIN maps'
  BY <1>1, <1>2
<1>13. \A j \in DOMAIN new : n + j \in DOMAIN maps'
  BY <1>1, <1>2
<1>14. \A j \in DOMAIN maps' : j \in DOMAIN maps \/ \E i \in DOMAIN new : j = n + i
  BY <1>1, <1>2, <1>5
<1>15. Len(maps) <= Len(maps')
  BY <1>1, <1>2
<1>16. /\ \A j \in DOMAIN maps : maps'[j] = maps[j]
       /\ \A j \in DOMAIN new : maps'[n + j] = new[j]
  BY <1>1, <1>3, <1>4
<1> QED
  BY <1>11, <1>12, <1>13, <1>14, <1>15, <1>16

\* A segment of a file lies at its bias.
LEMMA SegmentLine ==
  ASSUME NEW f \in FileNames, NEW i \in DOMAIN Files[f].segs, NEW bias \in Nat
  PROVE  LET l == [file |-> f, bias |-> bias]
             s == Files[f].segs[i]
         IN  /\ s.off \in Nat /\ s.vaddr \in Nat /\ s.len \in Nat \ {0}
             /\ s.r \in BOOLEAN /\ s.x \in BOOLEAN
             /\ LineOf(l, i) \in LineRecord
             /\ LineOf(l, i).lo = bias + s.vaddr /\ LineOf(l, i).hi = bias + s.vaddr + s.len
             /\ LineOf(l, i).off = s.off /\ LineOf(l, i).file = f
             /\ LineOf(l, i).r = s.r /\ LineOf(l, i).x = s.x
<1> DEFINE s == Files[f].segs[i]
<1>1. s \in SegmentRecord
  BY FilesAssumption
<1>2. /\ s.off \in Nat /\ s.vaddr \in Nat /\ s.len \in Nat \ {0}
      /\ s.r \in BOOLEAN /\ s.x \in BOOLEAN
  BY <1>1 DEF SegmentRecord
<1> HIDE DEF s
<1> QED
  BY <1>2 DEF s, LineOf, Line, LineRecord, Names

LEMMA MapFileStep ==
  ASSUME Mapped, Loaded, NEW f \in FileNames, NEW gap \in Gaps, MapFile(f, gap)
  PROVE  Mapped' /\ Loaded' /\ Len(maps) <= Len(maps')
<1> DEFINE segs == Files[f].segs
           bias == IF Files[f].type = "exec" THEN 0 ELSE End + gap
           l == [file |-> f, bias |-> bias]
           lines == [i \in DOMAIN segs |->
                      Line(bias + segs[i].vaddr, segs[i].len, segs[i].r, segs[i].x, segs[i].off, f)]
<1>1. /\ lines[1].lo >= End /\ lines[Len(lines)].hi < Space
      /\ maps' = maps \o lines /\ loads' = loads \cup {l}
  BY DEF MapFile
<1>2. /\ End \in Nat /\ MmapMin \in Nat /\ MmapMin <= End /\ gap \in Nat /\ Space \in Nat
  BY EndBounds, ImageAssumption
<1>3. bias \in Nat /\ IF Files[f].type = "exec" THEN bias = 0 ELSE MmapMin <= bias
  BY <1>2
<1>4. /\ segs \in Seq(SegmentRecord) /\ segs # << >>
      /\ \A i, j \in DOMAIN segs : i < j => segs[i].vaddr + segs[i].len <= segs[j].vaddr
  BY FilesAssumption
<1>5. \A i \in DOMAIN segs : lines[i] = LineOf(l, i)
  BY DEF LineOf
<1> HIDE DEF bias
<1>6. \A i \in DOMAIN segs :
        /\ lines[i] \in LineRecord /\ segs[i].vaddr \in Nat /\ segs[i].len \in Nat \ {0}
        /\ lines[i].lo = bias + segs[i].vaddr /\ lines[i].hi = bias + segs[i].vaddr + segs[i].len
        /\ lines[i].file = f
  <2> SUFFICES ASSUME NEW i \in DOMAIN segs
               PROVE  /\ lines[i] \in LineRecord /\ segs[i].vaddr \in Nat
                      /\ segs[i].len \in Nat \ {0}
                      /\ lines[i].lo = bias + segs[i].vaddr
                      /\ lines[i].hi = bias + segs[i].vaddr + segs[i].len /\ lines[i].file = f
    OBVIOUS
  <2> HIDE DEF lines
  <2> QED
    BY <1>3, <1>5, SegmentLine
<1>7. DOMAIN segs = 1..Len(segs) /\ Len(segs) \in Nat \ {0} /\ DOMAIN lines = DOMAIN segs
  BY <1>4
<1>8. lines \in Seq(LineRecord) /\ Len(lines) = Len(segs)
  <2>1. lines \in [1..Len(segs) -> LineRecord]
    BY <1>6, <1>7
  <2> QED
    BY <2>1, <1>7
<1> DEFINE n == Len(segs)
<1> HIDE DEF lines, segs, n
<1>9. \A i, j \in DOMAIN lines : i < j => lines[i].hi <= lines[j].lo
  BY <1>3, <1>4, <1>6, <1>7
<1>10. 1 \in DOMAIN lines /\ n \in DOMAIN lines /\ n = Len(lines)
       /\ \A j \in DOMAIN lines : 1 <= j /\ j <= n /\ j \in Nat
  BY <1>7, <1>8 DEF n
<1>11. \A j \in DOMAIN lines :
         /\ lines[j].lo \in Nat /\ lines[j].hi \in Nat /\ lines[j].lo < lines[j].hi
  BY <1>3, <1>6, <1>7
<1>12. \A j \in DOMAIN lines :
         /\ End <= lines[j].lo /\ lines[j].lo < lines[j].hi
         /\ lines[j].file \in FileNames => lines[j].hi < Space
  <2> SUFFICES ASSUME NEW j \in DOMAIN lines
               PROVE  End <= lines[j].lo /\ lines[j].hi < Space
    BY <1>11
  <2>1. j = 1 \/ lines[1].hi <= lines[j].lo
    BY <1>9, <1>10
  <2>2. j = n \/ lines[j].hi <= lines[n].lo
    BY <1>9, <1>10
  <2>3. End <= lines[1].lo /\ lines[n].hi < Space
    BY <1>1, <1>2, <1>10, <1>11
  <2>4. lines[1].lo <= lines[j].lo
    BY <1>10, <1>11, <2>1
  <2>5. lines[j].hi <= lines[n].hi
    BY <1>10, <1>11, <2>2
  <2> QED
    BY <1>2, <1>10, <1>11, <2>3, <2>4, <2>5
<1>13. /\ Mapped' /\ Len(maps) <= Len(maps')
       /\ \A j \in DOMAIN maps : j \in DOMAIN maps' /\ maps'[j] = maps[j]
       /\ \A j \in DOMAIN lines : Len(maps) + j \in DOMAIN maps' /\ maps'[Len(maps) + j] = lines[j]
       /\ \A j \in DOMAIN maps' : j \in DOMAIN maps \/ \E k \in DOMAIN lines : j = Len(maps) + k
  BY <1>1, <1>8, <1>9, <1>12, MoreLines
<1>14. loads' \subseteq [file : FileNames, bias : Nat]
  BY <1>1, <1>3 DEF Loaded
<1>15. ASSUME NEW k \in loads'
       PROVE  /\ IF Files[k.file].type = "exec" THEN k.bias = 0 ELSE MmapMin <= k.bias
              /\ \A i \in DOMAIN Files[k.file].segs : \E j \in DOMAIN maps' : maps'[j] = LineOf(k, i)
  <2>1. CASE k \in loads
    BY <1>13, <2>1 DEF Loaded
  <2>2. CASE k = l
    <3>1. \A i \in DOMAIN segs : \E j \in DOMAIN maps' : maps'[j] = LineOf(l, i)
      BY <1>5, <1>7, <1>13
    <3> QED
      BY <1>3, <2>2, <3>1 DEF segs
  <2> QED
    BY <1>1, <2>1, <2>2
<1>16. ASSUME NEW j \in DOMAIN maps', maps'[j].file \in FileNames
       PROVE  \E k \in loads' : \E i \in DOMAIN Files[k.file].segs : maps'[j] = LineOf(k, i)
  <2>1. CASE j \in DOMAIN maps
    <3>1. maps[j].file \in FileNames /\ maps'[j] = maps[j]
      BY <1>13, <1>16, <2>1
    <3>2. PICK k \in loads : \E i \in DOMAIN Files[k.file].segs : maps[j] = LineOf(k, i)
      BY <2>1, <3>1 DEF Loaded
    <3> QED
      BY <1>1, <3>1, <3>2
  <2>2. CASE \E i \in DOMAIN lines : j = Len(maps) + i
    <3>1. PICK i \in DOMAIN lines : j = Len(maps) + i
      BY <2>2
    <3>2. maps'[j] = LineOf(l, i) /\ i \in DOMAIN Files[l.file].segs
      BY <1>5, <1>7, <1>13, <3>1 DEF segs
    <3> QED
      BY <1>1, <3>2
  <2> QED
    BY <1>13, <2>1, <2>2
<1> QED
  BY <1>13, <1>14, <1>15, <1>16, SMTT(60) DEF Loaded

LEMMA MapOtherStep ==
  ASSUME Mapped, Loaded, NEW gap \in Gaps, NEW file \in {NoFile, Vdso}, MapOther(file, gap)
  PROVE  Mapped' /\ Loaded' /\ Len(maps) <= Len(maps')
<1> DEFINE m == Line(End + gap, 1, TRUE, file = Vdso, 0, file)
           new == <<m>>
<1>1. /\ End \in Nat /\ gap \in Nat
  BY EndBounds, ImageAssumption
<1>2. /\ m \in LineRecord /\ m.lo = End + gap /\ m.hi = End + gap + 1
      /\ m.file \notin FileNames
  BY <1>1, ImageAssumption DEF Line, LineRecord, Names
<1> HIDE DEF m
<1>3. new \in Seq(LineRecord) /\ DOMAIN new = {1} /\ new[1] = m
  BY <1>2
<1>4. maps' = maps \o new /\ loads' = loads
  <2>1. maps' = Append(maps, m) /\ loads' = loads
    BY DEF MapOther, m
  <2>2. maps \in Seq(LineRecord)
    BY DEF Mapped
  <2> QED
    BY <1>2, <2>1, <2>2
<1> HIDE DEF new
<1>5. /\ Mapped' /\ Len(maps) <= Len(maps')
      /\ \A j \in DOMAIN maps : j \in DOMAIN maps' /\ maps'[j] = maps[j]
      /\ \A j \in DOMAIN new : Len(maps) + j \in DOMAIN maps' /\ maps'[Len(maps) + j] = new[j]
      /\ \A j \in DOMAIN maps' : j \in DOMAIN maps \/ \E k \in DOMAIN new : j = Len(maps) + k
  <2>1. \A j \in DOMAIN new :
          /\ End <= new[j].lo /\ new[j].lo < new[j].hi
          /\ new[j].file \in FileNames => new[j].hi < Space
    BY <1>1, <1>2, <1>3
  <2>2. \A i, j \in DOMAIN new : i < j => new[i].hi <= new[j].lo
    BY <1>3
  <2> QED
    BY <1>3, <1>4, <2>1, <2>2, MoreLines
<1>6. \A j \in DOMAIN maps' : maps'[j].file \in FileNames => j \in DOMAIN maps
  BY <1>2, <1>3, <1>5
<1> QED
  BY <1>4, <1>5, <1>6 DEF Loaded

-----------------------------------------------------------------------------
(* Symbols.                                                                  *)

LEMMA LeastNat ==
  ASSUME NEW S \in SUBSET Nat, S # {}
  PROVE  \E m \in S : \A k \in S : m <= k
<1>1. \E m \in S : \A k \in S : <<k, m>> \notin OpToRel(<, Nat)
  BY NatLessThanWellFounded, WFMin
<1>2. PICK m \in S : \A k \in S : <<k, m>> \notin OpToRel(<, Nat)
  BY <1>1
<1>3. ASSUME NEW k \in S PROVE m <= k
  <2>1. k \in Nat /\ m \in Nat
    OBVIOUS
  <2>2. ~(k < m)
    BY <1>2, <2>1 DEF OpToRel
  <2> QED
    BY <2>1, <2>2
<1> QED
  BY <1>3

\* Some symbol of a finite set ends last.
LEMMA LastEnd ==
  ASSUME NEW S, S # {}, IsFiniteSet(S), \A b \in S : b.end \in Nat
  PROVE  \E b \in S : \A c \in S : b.end >= c.end
<1> DEFINE Above(b) == {c \in S : c.end > b.end}
           Ranks == {Cardinality(Above(b)) : b \in S}
<1>1. \A b \in S : IsFiniteSet(Above(b)) /\ Cardinality(Above(b)) \in Nat
  <2> SUFFICES ASSUME NEW b \in S PROVE IsFiniteSet(Above(b)) /\ Cardinality(Above(b)) \in Nat
    OBVIOUS
  <2>1. IsFiniteSet(Above(b))
    BY FS_Subset
  <2> QED
    BY <2>1, FS_CardinalityType
<1>2. PICK n \in Ranks : \A k \in Ranks : n <= k
  <2>1. Ranks \in SUBSET Nat /\ Ranks # {}
    BY <1>1
  <2> QED
    BY <2>1, LeastNat
<1>3. PICK b \in S : n = Cardinality(Above(b))
  BY <1>2
<1>4. ASSUME NEW c \in S, c.end > b.end
      PROVE  FALSE
  <2>1. Above(c) \in SUBSET Above(b)
    BY <1>4
  <2>2. c \in Above(b) /\ c \notin Above(c)
    BY <1>4
  <2>3. Cardinality(Above(c)) <= n /\ Cardinality(Above(c)) # n
    <3>1. Above(b) # Above(c)
      BY <2>2
    <3> HIDE DEF Above
    <3> QED
      BY <1>1, <1>3, <2>1, <3>1, FS_Subset
  <2>4. Cardinality(Above(c)) \in Ranks
    OBVIOUS
  <2>5. n <= Cardinality(Above(c)) /\ n \in Nat /\ Cardinality(Above(c)) \in Nat
    BY <1>1, <1>2, <1>3, <2>4
  <2> HIDE DEF Above
  <2> QED
    BY <2>3, <2>5
<1> QED
  BY <1>4

\* A finite set of symbols has a first one.
LEMMA FirstIn ==
  ASSUME NEW S, S # {}, IsFiniteSet(S), \A b \in S : b.start \in Nat /\ b.end \in Nat
  PROVE  First(S) \in S /\ \A c \in S : Before(First(S), c)
<1>1. PICK b \in S : \A c \in S : b.start <= c.start
  <2> DEFINE Starts == {c.start : c \in S}
  <2>1. Starts \in SUBSET Nat /\ Starts # {}
    OBVIOUS
  <2>2. PICK m \in Starts : \A k \in Starts : m <= k
    BY <2>1, LeastNat
  <2>3. PICK b \in S : m = b.start
    BY <2>2
  <2> QED
    BY <2>2, <2>3
<1> DEFINE T == {c \in S : c.start = b.start}
<1>2. PICK d \in T : \A c \in T : d.end >= c.end
  <2>1. T # {} /\ T \in SUBSET S
    OBVIOUS
  <2>2. IsFiniteSet(T)
    BY <2>1, FS_Subset
  <2>3. \A c \in T : c.end \in Nat
    OBVIOUS
  <2> HIDE DEF T
  <2> QED
    BY <2>1, <2>2, <2>3, LastEnd
<1>3. \A c \in S : Before(d, c)
  <2> SUFFICES ASSUME NEW c \in S PROVE Before(d, c)
    OBVIOUS
  <2>1. CASE c.start = b.start
    BY <1>2, <2>1 DEF Before
  <2>2. CASE c.start # b.start
    BY <1>1, <1>2, <2>2 DEF Before
  <2> QED
    BY <2>1, <2>2
<1> QED
  BY <1>2, <1>3 DEF First

\* Symbols of a table are finite in number and have natural addresses.
BlobsTyped(blobs) ==
  IsFiniteSet(blobs) /\ \A b \in blobs : b.start \in Nat /\ b.end \in Nat

LEMMA BlobNat ==
  ASSUME NEW base \in Nat, NEW s \in SymbolRecord
  PROVE  Blob(base, s).start \in Nat /\ Blob(base, s).end \in Nat
<1>1. s.value \in Nat /\ s.size \in Nat
  BY DEF SymbolRecord
<1> QED
  BY <1>1 DEF Blob

LEMMA TableBlobs ==
  ASSUME NEW base \in Nat, NEW table, table \subseteq SymbolRecord, IsFiniteSet(table)
  PROVE  BlobsTyped(LoadSymbolTable(base, table))
<1> DEFINE kept == {t \in table : t.name # "" /\ t.value # 0 /\ ~(t.name = "$x" /\ t.size = 0)}
           image == {Blob(base, s) : s \in kept}
           f == [s \in kept |-> Blob(base, s)]
<1>1. image = LoadSymbolTable(base, table)
  BY DEF LoadSymbolTable
<1>2. IsFiniteSet(kept)
  BY FS_Subset
<1>3. f \in Surjection(kept, image)
  BY DEF Surjection
<1>4. IsFiniteSet(image)
  BY <1>2, <1>3, FS_Surjection
<1>5. \A b \in image : b.start \in Nat /\ b.end \in Nat
  BY BlobNat
<1> QED
  BY <1>1, <1>4, <1>5 DEF BlobsTyped

\* There are finitely many entries in a PLT.
LEMMA FiniteEntries ==
  ASSUME NEW n \in Nat
  PROVE  IsFiniteSet(1..n)
<1>1. 1 \in Int /\ n \in Int
  OBVIOUS
<1> QED
  BY ONLY <1>1, FS_Interval

LEMMA FileBlobs ==
  ASSUME NEW base \in Nat, NEW f \in FileNames
  PROVE  BlobsTyped(LoadSymbols(base, f))
<1> DEFINE sections == IF Files[f].symtab # {} THEN Files[f].symtab
                       ELSE IF Files[f].debug # {} THEN Files[f].debug ELSE Files[f].dynsym
           n == Files[f].relocations
           stub(i) == Blob(base, [name |-> "@plt", value |-> Files[f].plt + i, size |-> 1])
           plt == {stub(i) : i \in 1..n}
           g == [i \in 1..n |-> stub(i)]
<1>1. LoadSymbols(base, f) = LoadSymbolTable(base, UNION sections) \cup PltBlobs(base, f)
  BY DEF LoadSymbols
<1>2. UNION sections \subseteq SymbolRecord /\ IsFiniteSet(UNION sections)
  BY SymbolsAssumption
<1> HIDE DEF sections
<1>3. BlobsTyped(LoadSymbolTable(base, UNION sections))
  BY <1>2, TableBlobs
<1>4. PltBlobs(base, f) = plt
  BY DEF PltBlobs
<1>5. n \in Nat /\ Files[f].plt \in Nat
  BY SymbolsAssumption
<1>6. IsFiniteSet(plt)
  <2>1. g \in Surjection(1..n, plt)
    BY DEF Surjection
  <2>2. IsFiniteSet(1..n)
    <3> HIDE DEF n
    <3> QED
      BY <1>5, FiniteEntries
  <2> HIDE DEF g, plt
  <2> QED
    BY <2>1, <2>2, FS_Surjection
<1>7. \A b \in plt : b.start \in Nat /\ b.end \in Nat
  <2> SUFFICES ASSUME NEW i \in 1..n PROVE stub(i).start \in Nat /\ stub(i).end \in Nat
    OBVIOUS
  <2> HIDE DEF n
  <2> QED
    BY <1>5 DEF Blob
<1> HIDE DEF plt
<1>8. IsFiniteSet(LoadSymbolTable(base, UNION sections) \cup plt)
  BY <1>3, <1>6, FS_Union DEF BlobsTyped
<1> QED
  BY <1>1, <1>3, <1>4, <1>7, <1>8 DEF BlobsTyped

LEMMA VdsoBlobs ==
  ASSUME NEW base \in Nat
  PROVE  BlobsTyped(ParseMem(base))
<1> DEFINE sections == IF VdsoFile.symtab # {} THEN VdsoFile.symtab ELSE VdsoFile.dynsym
<1>1. ParseMem(base) = LoadSymbolTable(base, UNION sections)
  BY DEF ParseMem
<1>2. UNION sections \subseteq SymbolRecord /\ IsFiniteSet(UNION sections)
  BY SymbolsAssumption
<1> HIDE DEF sections
<1> QED
  BY <1>1, <1>2, TableBlobs

-----------------------------------------------------------------------------
(* Libraries.                                                                *)

LEMMA HeadersFields ==
  ASSUME NEW m, NEW base
  PROVE  LET cc == ParseProgramHeaders(CodeCache(m), base)
         IN  /\ cc = [cc EXCEPT !.blobs = {}]
             /\ cc.min = m.lo /\ cc.max = m.hi /\ cc.file = m.file /\ cc.blobs = {}
             /\ \/ Bare(cc) /\ cc.probed = {base}
                \/ \E owner \in HeaderAt(base) : Owned(cc, base, owner)
<1> DEFINE cc == ParseProgramHeaders(CodeCache(m), base)
           owner == CHOOSE f \in HeaderAt(base) : TRUE
           dynamic == Files[owner].dynamic
           probed == {base} \cup UNION {DynamicReads(owner, base, d) : d \in dynamic}
           got == UNION {GlobalOffsetTable(owner, base, d) : d \in dynamic}
           table == IF Files[owner].eh_frame THEN owner ELSE NoFile
<1>1. CASE HeaderAt(base) = {}
  <2>1. cc = [min |-> m.lo, max |-> m.hi, file |-> m.file, text_base |-> NULL,
              table |-> NoFile, got |-> {}, probed |-> {base}, blobs |-> {}]
    BY <1>1 DEF ParseProgramHeaders, CodeCache
  <2> HIDE DEF cc
  <2> QED
    BY <1>1, <2>1 DEF Bare, cc
<1>2. CASE HeaderAt(base) # {}
  <2>1. owner \in HeaderAt(base)
    BY <1>2
  <2>2. cc = [CodeCache(m) EXCEPT !.probed = probed, !.got = got, !.text_base = base,
                                  !.table = table]
    BY <1>2 DEF ParseProgramHeaders
  <2> HIDE DEF probed, got, table
  <2>3. cc = [min |-> m.lo, max |-> m.hi, file |-> m.file, text_base |-> base,
              table |-> table, got |-> got, probed |-> probed, blobs |-> {}]
    BY <2>2 DEF CodeCache
  <2> HIDE DEF cc
  <2>4. /\ cc.text_base = base /\ cc.table = table /\ cc.got = got /\ cc.probed = probed
        /\ cc = [cc EXCEPT !.blobs = {}]
        /\ cc.min = m.lo /\ cc.max = m.hi /\ cc.file = m.file /\ cc.blobs = {}
    BY <2>3
  <2>5. Owned(cc, base, owner)
    BY <2>4 DEF Owned, table, got, probed
  <2> QED
    BY <2>1, <2>4, <2>5 DEF cc
<1> QED
  BY <1>1, <1>2

\* A library of a file: its bounds are those of its line, its symbols those of
\* the file, and headers are read only behind the limit.
LEMMA ParsedFields ==
  ASSUME NEW m, NEW limit
  PROVE  LET cc == Parsed(m, limit)
         IN  /\ cc.min = m.lo /\ cc.max = m.hi /\ cc.file = m.file
             /\ cc.blobs = IF Files[m.file].type = "data" THEN {}
                           ELSE LoadSymbols(BaseOf(m), m.file)
             /\ \/ Bare(cc) /\ cc.probed = {}
                \/ BaseOf(m) >= limit /\ Bare(cc) /\ cc.probed = {BaseOf(m)}
                \/ BaseOf(m) >= limit /\ \E owner \in HeaderAt(BaseOf(m)) :
                     Owned(cc, BaseOf(m), owner)
<1> DEFINE base == BaseOf(m)
           h == IF base >= limit THEN ParseProgramHeaders(CodeCache(m), base) ELSE CodeCache(m)
           cc == Parsed(m, limit)
<1>1. cc = IF Files[m.file].type = "data" THEN h
           ELSE [h EXCEPT !.blobs = LoadSymbols(base, m.file)]
  BY DEF Parsed, BaseOf
<1>2. /\ h = [h EXCEPT !.blobs = {}]
      /\ h.min = m.lo /\ h.max = m.hi /\ h.file = m.file /\ h.blobs = {}
      /\ \/ Bare(h) /\ h.probed = {}
         \/ base >= limit /\ Bare(h) /\ h.probed = {base}
         \/ base >= limit /\ \E owner \in HeaderAt(base) : Owned(h, base, owner)
  <2>1. CASE base >= limit
    <3>1. h = ParseProgramHeaders(CodeCache(m), base)
      BY <2>1
    <3> HIDE DEF h, base
    <3> QED
      BY <2>1, <3>1, HeadersFields
  <2>2. CASE ~(base >= limit)
    <3>1. h = [min |-> m.lo, max |-> m.hi, file |-> m.file, text_base |-> NULL,
               table |-> NoFile, got |-> {}, probed |-> {}, blobs |-> {}]
      BY <2>2 DEF CodeCache
    <3> HIDE DEF h
    <3> QED
      BY <3>1 DEF Bare
  <2> QED
    BY <2>1, <2>2
<1>3. "blobs" \in DOMAIN h
  <2>1. CASE base >= limit
    <3>1. h = ParseProgramHeaders(CodeCache(m), base)
      BY <2>1
    <3> QED
      BY <3>1 DEF ParseProgramHeaders, CodeCache
  <2>2. CASE ~(base >= limit)
    BY <2>2 DEF CodeCache
  <2> QED
    BY <2>1, <2>2
<1> HIDE DEF h, cc, base
<1>4. /\ cc.min = h.min /\ cc.max = h.max /\ cc.file = h.file /\ cc.text_base = h.text_base
      /\ cc.table = h.table /\ cc.got = h.got /\ cc.probed = h.probed
      /\ cc.blobs = IF Files[m.file].type = "data" THEN {} ELSE LoadSymbols(base, m.file)
  BY <1>1, <1>2, <1>3
<1> QED
  BY <1>2, <1>4 DEF Bare, Owned, cc, base

LEMMA RepeatedFields ==
  ASSUME NEW m
  PROVE  Repeated([CodeCache(m) EXCEPT !.blobs = IF m.file = Vdso THEN ParseMem(m.lo) ELSE {}], m)
<1> DEFINE blobs == IF m.file = Vdso THEN ParseMem(m.lo) ELSE {}
<1> HIDE DEF blobs
<1>1. Repeated([CodeCache(m) EXCEPT !.blobs = blobs], m) <=>
        blobs = IF m.file = Vdso THEN ParseMem(m.lo) ELSE {}
  BY DEF Repeated, CodeCache, Bare
<1> QED
  BY <1>1 DEF blobs


\* The base of a mapping of a file does not wrap around.
LEMMA BaseIs ==
  ASSUME Mapped, Loaded, NEW j \in DOMAIN maps, maps[j].file \in FileNames
  PROVE  /\ BaseOf(maps[j]) = maps[j].lo - maps[j].off
         /\ BaseOf(maps[j]) \in 0..(Space - 1) /\ BaseOf(maps[j]) <= maps[j].lo
<1>1. PICK l \in loads : \E n \in DOMAIN Files[l.file].segs : maps[j] = LineOf(l, n)
  BY DEF Loaded
<1>2. PICK n \in DOMAIN Files[l.file].segs : maps[j] = LineOf(l, n)
  BY <1>1
<1>3. l.file \in FileNames /\ l.bias \in Nat
  BY DEF Loaded
<1>4. maps[j].off = Files[l.file].segs[n].off
  BY <1>2 DEF LineOf, Line
<1>5. maps[j].off <= MmapMin
  BY <1>3, <1>4, FilesAssumption
<1>6. /\ maps[j].lo \in Nat /\ maps[j].hi \in Nat /\ maps[j].off \in Nat
      /\ MmapMin <= maps[j].lo /\ maps[j].lo < maps[j].hi /\ maps[j].hi < Space
  BY LineFields DEF Mapped
<1>7. MmapMin \in Nat /\ Space \in Nat \ {0}
  BY ImageAssumption
<1> DEFINE d == maps[j].lo - maps[j].off
<1>8. d \in 0..(Space - 1) /\ d <= maps[j].lo
  BY <1>5, <1>6, <1>7
<1>9. d % Space = d
  <2> HIDE DEF d
  <2> QED
    BY <1>7, <1>8
<1> QED
  BY <1>8, <1>9 DEF BaseOf

\* Every library has the bounds of a line, and symbols that can be sorted.
LEMMA LibraryTyped ==
  ASSUME Mapped, Loaded, Built, line \in 0..Len(maps), NEW cc \in Caches
  PROVE  cc.min < cc.max /\ BlobsTyped(cc.blobs)
<1>1. PICK j \in 1..line : FromFile(cc, maps[j]) \/ Repeated(cc, maps[j])
  BY DEF Built, Executables
<1>2. j \in DOMAIN maps
  BY DEF Mapped
<1>3. maps[j].lo \in Nat /\ maps[j].lo < maps[j].hi
  BY <1>2, LineFields DEF Mapped
<1>4. BlobsTyped({})
  BY FS_EmptySet DEF BlobsTyped
<1>5. CASE FromFile(cc, maps[j])
  <2>1. maps[j].file \in FileNames /\ BaseOf(maps[j]) \in Nat
    BY <1>2, <1>5, BaseIs DEF FromFile
  <2>2. BlobsTyped(LoadSymbols(BaseOf(maps[j]), maps[j].file))
    BY <2>1, FileBlobs
  <2> QED
    BY <1>3, <1>4, <1>5, <2>2 DEF FromFile
<1>6. CASE Repeated(cc, maps[j])
  <2>1. BlobsTyped(ParseMem(maps[j].lo))
    BY <1>3, VdsoBlobs
  <2> QED
    BY <1>3, <1>4, <1>6, <2>1 DEF Repeated
<1> QED
  BY <1>1, <1>5, <1>6

-----------------------------------------------------------------------------
(* The steps of the parser.                                                  *)

LEMMA SameMaps ==
  ASSUME UNCHANGED maps
  PROVE  /\ \A a : Readable(a)' = Readable(a) /\ HeaderAt(a)' = HeaderAt(a)
         /\ \A lo, hi : AllReadable(lo, hi)' <=> AllReadable(lo, hi)
         /\ \A cc, m : FromFile(cc, m)' <=> FromFile(cc, m)
<1>1. \A a : Readable(a)' = Readable(a)
  BY DEF Readable
<1>2. \A a : HeaderAt(a)' = HeaderAt(a)
  BY DEF HeaderAt, Readable
<1>3. \A lo, hi : AllReadable(lo, hi)' <=> AllReadable(lo, hi)
  BY <1>1 DEF AllReadable
<1>4. \A cc, m : FromFile(cc, m)' <=> FromFile(cc, m)
  BY <1>1, <1>2 DEF FromFile
<1> QED
  BY <1>1, <1>2, <1>3, <1>4

\* The next line ends a range of readable memory that begins at its base.
LEMMA LineReadable ==
  ASSUME Mapped, Phases, line < Len(maps), maps[line + 1].r
  PROVE  LET m == maps[line + 1]
         IN  /\ line + 1 \in DOMAIN maps
             /\ ReadableBase(m) \in 0..m.lo /\ AllReadable(ReadableBase(m), m.hi)
<1> DEFINE m == maps[line + 1]
<1>1. line \in Nat /\ Len(maps) \in Nat /\ DOMAIN maps = 1..Len(maps)
  BY DEF Phases, Mapped
<1>2. line + 1 \in DOMAIN maps
  BY <1>1
<1>3. m.lo \in Nat /\ m.hi \in Nat /\ m.lo < m.hi
  BY <1>2, LineFields DEF Mapped
<1>4. \A a \in m.lo..(m.hi - 1) : Readable(a) # {}
  BY <1>2, <1>3 DEF Readable
<1>5. \A a \in last_readable_base..(image_end - 1) : Readable(a) # {}
  BY DEF Phases, AllReadable
<1>6. last_readable_base \in Nat /\ image_end \in Nat /\ last_readable_base <= image_end
  BY DEF Phases
<1> HIDE DEF m
<1>7. CASE m.lo # image_end
  BY <1>2, <1>3, <1>4, <1>7 DEF ReadableBase, AllReadable, m
<1>8. CASE m.lo = image_end
  <2>1. ReadableBase(m) = last_readable_base
    BY <1>8 DEF ReadableBase
  <2>2. ASSUME NEW a \in last_readable_base..(m.hi - 1) PROVE Readable(a) # {}
    <3>1. a \in m.lo..(m.hi - 1) \/ a \in last_readable_base..(image_end - 1)
      BY <1>3, <1>6, <1>8
    <3> QED
      BY <1>4, <1>5, <3>1
  <2> QED
    BY <1>2, <1>3, <1>6, <1>8, <2>1, <2>2 DEF AllReadable, m
<1> QED
  BY <1>7, <1>8

\* The library of a line.
LEMMA NewLibrary ==
  ASSUME Mapped, Loaded, Phases, line < Len(maps), maps[line + 1].r
  PROVE  LET m == maps[line + 1]
         IN  IF Fresh(m) THEN FromFile(Library(m), m) ELSE Repeated(Library(m), m)
<1> DEFINE m == maps[line + 1]
           limit == ReadableBase(m)
<1>1. line + 1 \in DOMAIN maps /\ limit \in 0..m.lo /\ AllReadable(limit, m.hi)
  BY LineReadable
<1>2. CASE Fresh(m)
  <2>1. Library(m) = Parsed(m, limit) /\ m.file \in FileNames
    BY <1>2 DEF Library, Fresh
  <2>2. BaseOf(m) \in Nat /\ BaseOf(m) <= m.lo
    BY <1>1, <2>1, BaseIs
  <2>3. m.lo \in Nat /\ m.hi \in Nat /\ m.lo < m.hi
    BY <1>1, LineFields DEF Mapped
  <2> HIDE DEF m, limit
  <2>4. BaseOf(m) >= limit => Readable(BaseOf(m)) # {}
    <3>1. BaseOf(m) >= limit => BaseOf(m) \in limit..(m.hi - 1)
      BY <1>1, <2>2, <2>3
    <3> QED
      BY <1>1, <3>1 DEF AllReadable
  <2> DEFINE cc == Parsed(m, limit)
  <2>5. /\ cc.min = m.lo /\ cc.max = m.hi /\ cc.file = m.file
        /\ cc.blobs = IF Files[m.file].type = "data" THEN {} ELSE LoadSymbols(BaseOf(m), m.file)
        /\ \/ Bare(cc) /\ cc.probed = {}
           \/ BaseOf(m) >= limit /\ Bare(cc) /\ cc.probed = {BaseOf(m)}
           \/ BaseOf(m) >= limit /\ \E owner \in HeaderAt(BaseOf(m)) :
                Owned(cc, BaseOf(m), owner)
    BY ParsedFields
  <2> HIDE DEF cc
  <2>6. FromFile(cc, m)
    BY <2>1, <2>4, <2>5 DEF FromFile
  <2> QED
    BY <1>2, <2>1, <2>6 DEF cc, m
<1>3. CASE ~Fresh(m)
  <2>1. Library(m) = [CodeCache(m) EXCEPT !.blobs = IF m.file = Vdso THEN ParseMem(m.lo) ELSE {}]
    BY <1>3 DEF Library
  <2> HIDE DEF m
  <2> QED
    BY <1>3, <2>1, RepeatedFields DEF m
<1> QED
  BY <1>2, <1>3

\* What reading a line does.
LEMMA LineEffect ==
  ASSUME ParseLine
  PROVE  LET m == maps[line + 1]
         IN  /\ at = "parse" /\ at' \in {"parse", "find"} /\ line < Len(maps) /\ line' = line + 1
             /\ UNCHANGED <<maps, loads, searched, asmcgocall_bounds, asmcgocall_base>>
             /\ \/ UNCHANGED <<last_readable_base, image_end>>
                \/ m.r /\ last_readable_base' = ReadableBase(m) /\ image_end' = m.hi
             /\ \/ UNCHANGED array
                \/ /\ m.r /\ m.file # NoFile /\ m.x /\ ~Full
                   /\ array' = Append(array, Library(m))
BY DEF ParseLine, SkipLine, PlainLine, ExecutableLine, process, search

LEMMA LinePhases ==
  ASSUME Mapped, Loaded, Phases, Built, ParseLine
  PROVE  Phases'
<1> DEFINE m == maps[line + 1]
<1>1. /\ at = "parse" /\ at' \in {"parse", "find"} /\ line < Len(maps) /\ line' = line + 1
      /\ UNCHANGED <<maps, loads, searched>>
      /\ \/ UNCHANGED <<last_readable_base, image_end>>
         \/ m.r /\ last_readable_base' = ReadableBase(m) /\ image_end' = m.hi
      /\ \/ UNCHANGED array
         \/ array' = Append(array, Library(m))
  BY LineEffect
<1>2. line + 1 \in 0..Len(maps) /\ line \in 0..Len(maps)
  BY <1>1 DEF Phases, Mapped
<1>3. searched' = 0 /\ searched' \in 0..Len(array)'
  <2>1. Len(array) \in Nat /\ Len(Append(array, Library(m))) = Len(array) + 1
    BY DEF Built
  <2> QED
    BY <1>1, <2>1 DEF Phases
<1>4. /\ last_readable_base' \in Nat /\ image_end' \in Nat /\ last_readable_base' <= image_end'
      /\ AllReadable(last_readable_base', image_end')
  <2>1. CASE UNCHANGED <<last_readable_base, image_end>>
    BY <2>1 DEF Phases
  <2>2. CASE m.r /\ last_readable_base' = ReadableBase(m) /\ image_end' = m.hi
    <3>1. /\ line + 1 \in DOMAIN maps /\ ReadableBase(m) \in 0..m.lo
          /\ AllReadable(ReadableBase(m), m.hi)
      BY <1>1, <2>2, LineReadable
    <3>2. m.lo \in Nat /\ m.hi \in Nat /\ m.lo < m.hi
      BY <3>1, LineFields DEF Mapped
    <3> HIDE DEF m
    <3> QED
      BY <2>2, <3>1, <3>2
  <2> QED
    BY <1>1, <2>1, <2>2
<1>5. AllReadable(last_readable_base, image_end)'
  BY <1>1, <1>4 DEF AllReadable, Readable
<1> QED
  BY <1>1, <1>2, <1>3, <1>4, <1>5 DEF Phases

LEMMA LineBuilt ==
  ASSUME Mapped, Loaded, Phases, Built, Found, ParseLine
  PROVE  Built' /\ Found'
<1> DEFINE m == maps[line + 1]
<1>1. /\ line < Len(maps) /\ line' = line + 1 /\ UNCHANGED <<maps, asmcgocall_bounds>>
      /\ \/ UNCHANGED array
         \/ /\ m.r /\ m.file # NoFile /\ m.x /\ ~Full
            /\ array' = Append(array, Library(m))
  BY LineEffect
<1>2. line \in Nat
  BY DEF Phases
<1>3. \A cc, k : FromFile(cc, k)' <=> FromFile(cc, k)
  BY <1>1, SameMaps
<1>4. Executables \subseteq Executables'
  BY <1>1, <1>2 DEF Executables
<1>5. CASE UNCHANGED array
  <2>1. Caches' = Caches
    BY <1>5 DEF Caches
  <2> QED
    BY <1>1, <1>3, <1>4, <1>5, <2>1 DEF Built, Found
<1>6. CASE m.r /\ m.file # NoFile /\ m.x /\ ~Full /\ array' = Append(array, Library(m))
  <2>1. /\ array \in Seq(Caches) /\ Len(array) \in Nat /\ Len(array) < MAX_NATIVE_LIBS
        /\ MAX_NATIVE_LIBS \in Nat
    BY <1>6, ImageAssumption DEF Built, Full
  <2>2. FromFile(Library(m), m) \/ Repeated(Library(m), m)
    BY <1>1, <1>6, NewLibrary
  <2>3. m \in Executables'
    <3>1. line + 1 \in 1..line'
      BY <1>1, <1>2
    <3> QED
      BY <1>1, <1>6, <3>1 DEF Executables
  <2> DEFINE lib == Library(m)
  <2> HIDE DEF lib
  <2>4. array' = Append(array, lib)
    BY <1>6 DEF lib
  <2>5. /\ DOMAIN array' = 1..(Len(array) + 1) /\ DOMAIN array = 1..Len(array)
        /\ Len(array') = Len(array) + 1
        /\ \A i \in 1..Len(array) : array'[i] = array[i]
        /\ array'[Len(array) + 1] = lib
    BY <2>1, <2>4
  <2>6. Caches' = Caches \cup {lib}
    BY <2>1, <2>5 DEF Caches
  <2>7. array' \in Seq(Caches')
    BY <2>1, <2>4, <2>6
  <2>8. \A cc \in Caches' : \E k \in Executables' : FromFile(cc, k)' \/ Repeated(cc, k)
    <3> HIDE DEF m
    <3>1. FromFile(lib, m) \/ Repeated(lib, m)
      BY <2>2 DEF lib, m
    <3> QED
      BY <1>3, <1>4, <2>3, <2>6, <3>1 DEF Built
  <2>9. Len(array)' <= MAX_NATIVE_LIBS
    BY <2>1, <2>5
  <2>10. Found'
    BY <1>1, <2>1, <2>5 DEF Found
  <2> QED
    BY <2>7, <2>8, <2>9, <2>10 DEF Built
<1> QED
  BY <1>1, <1>5, <1>6


-----------------------------------------------------------------------------
(* The invariant.                                                            *)

LEMMA InitIInv == Init => IInv
<1> SUFFICES ASSUME Init PROVE IInv
  OBVIOUS
<1> USE DEF Init
<1>1. MAX_NATIVE_LIBS \in Nat /\ NULL = 0
  BY ImageAssumption DEF NULL
<1>2. Mapped
  BY DEF Mapped
<1>3. Loaded
  BY DEF Loaded
<1>4. Phases
  BY <1>1 DEF Phases, Fresh0, AllReadable
<1>5. Built
  BY <1>1 DEF Built, Caches
<1>6. Found
  BY DEF Found
<1>7. Once
  BY DEF Once
<1> QED
  BY <1>2, <1>3, <1>4, <1>5, <1>6, <1>7 DEF IInv, Base

LEMMA MapIInv ==
  ASSUME IInv, Map
  PROVE  IInv'
<1>1. /\ at = "load" /\ UNCHANGED <<at, parser, search>>
  BY DEF Map
<1>2. Mapped /\ Loaded /\ Fresh0 /\ Phases /\ Built /\ Found /\ Once
  BY <1>1 DEF IInv, Base, Phases
<1>3. Mapped' /\ Loaded' /\ Len(maps) <= Len(maps')
  <2>1. PICK gap \in Gaps : \/ \E f \in FileNames : MapFile(f, gap)
                            \/ \E file \in {NoFile, Vdso} : MapOther(file, gap)
    BY DEF Map
  <2>2. CASE \E f \in FileNames : MapFile(f, gap)
    BY <1>2, <2>2, MapFileStep
  <2>3. CASE \E file \in {NoFile, Vdso} : MapOther(file, gap)
    BY <1>2, <2>3, MapOtherStep
  <2> QED
    BY <2>1, <2>2, <2>3
<1>4. /\ Fresh0' /\ searched' = searched
      /\ asmcgocall_bounds' = asmcgocall_bounds /\ array = << >> /\ array' = << >>
      /\ parsed_inodes' = {} /\ line' = 0 /\ searched = 0 /\ at' = "load"
  BY <1>1, <1>2 DEF Fresh0, parser, search, Phases
<1>5. Phases'
  <2>1. last_readable_base' = 0 /\ image_end' = 0
    BY <1>4 DEF Fresh0, NULL
  <2>2. Len(maps') \in Nat
    BY <1>3 DEF Mapped
  <2>3. AllReadable(last_readable_base, image_end)'
    BY <2>1 DEF AllReadable
  <2> QED
    BY <1>4, <2>1, <2>2, <2>3 DEF Phases
<1>6. Built'
  BY <1>4, ImageAssumption DEF Built, Caches
<1>7. Found'
  BY <1>2, <1>4 DEF Found
<1>8. Once'
  BY <1>4 DEF Once
<1> QED
  BY <1>3, <1>5, <1>6, <1>7, <1>8 DEF IInv, Base

\* Open, Close, FindAsmcgocall and Main read and write neither the process nor
\* the libraries.
LEMMA ParsedKept ==
  ASSUME Mapped, Loaded, Built, Once, UNCHANGED <<process, parser>>,
         at' \in {"find", "ready"} => at \in {"find", "ready"} \/ line = Len(maps)
  PROVE  Mapped' /\ Loaded' /\ Built' /\ Once'
<1>1. UNCHANGED <<maps, loads, line, last_readable_base, image_end, parsed_inodes, array>>
  BY DEF process, parser
<1>2. Mapped' /\ Loaded'
  BY <1>1 DEF Mapped, Loaded
<1>3. Caches' = Caches /\ Executables' = Executables
  BY <1>1 DEF Caches, Executables
<1>4. Built'
  <2>1. \A cc, k : FromFile(cc, k)' <=> FromFile(cc, k)
    BY <1>1, SameMaps
  <2> QED
    BY <1>1, <1>3, <2>1 DEF Built
<1>5. Once'
  <2>1. \A key : OfKey(key)' = OfKey(key)
    BY <1>1 DEF OfKey
  <2>2. \A i : HasSymbols(i)' <=> HasSymbols(i)
    BY <1>1 DEF HasSymbols
  <2>3. Full' <=> Full
    BY <1>1 DEF Full
  <2> QED
    BY <1>1, <2>1, <2>2, <2>3 DEF Once
<1> QED
  BY <1>2, <1>4, <1>5

LEMMA RangeKept ==
  ASSUME Phases, UNCHANGED <<process, parser>>
  PROVE  /\ line' \in 0..Len(maps)'
         /\ last_readable_base' \in Nat /\ image_end' \in Nat /\ last_readable_base' <= image_end'
         /\ AllReadable(last_readable_base, image_end)'
BY DEF Phases, process, parser, AllReadable, Readable

LEMMA FindStep ==
  ASSUME Base, FindAsmcgocall
  PROVE  Found'
<1> DEFINE cc == array[searched + 1]
           found == IF AsmSymbols(cc) = {} THEN {} ELSE find(cc, First(AsmSymbols(cc)).start)
<1>1. /\ searched < Len(array) /\ UNCHANGED array
      /\ IF found = {} THEN UNCHANGED asmcgocall_bounds
         ELSE asmcgocall_bounds' = {First(found)}
  BY DEF FindAsmcgocall, parser
<1>2. searched + 1 \in DOMAIN array /\ cc \in Caches
  <2>1. searched \in Nat /\ Len(array) \in Nat /\ DOMAIN array = 1..Len(array)
    BY DEF Base, Phases, Built
  <2> QED
    BY <1>1, <2>1 DEF Caches
<1>3. BlobsTyped(cc.blobs)
  BY <1>2, LibraryTyped DEF Base, Phases
<1>4. CASE found = {}
  BY <1>1, <1>4 DEF Base, Found
<1>5. CASE found # {}
  <2>1. found \subseteq cc.blobs
    BY DEF find
  <2>2. IsFiniteSet(found)
    BY <1>3, <2>1, FS_Subset DEF BlobsTyped
  <2>3. First(found) \in found
    <3> HIDE DEF found
    <3> QED
      BY <1>3, <1>5, <2>1, <2>2, FirstIn DEF BlobsTyped
  <2>4. First(found) \in UNION {array[i].blobs : i \in DOMAIN array}
    BY <1>2, <2>1, <2>3
  <2> QED
    BY <1>1, <1>5, <2>4 DEF Found
<1> QED
  BY <1>4, <1>5

LEMMA LineOnce ==
  ASSUME Mapped, Loaded, Phases, Built, Once, ParseLine
  PROVE  Once'
<1> DEFINE m == maps[line + 1]
           n == Len(array)
           lib == Library(m)
<1>1. /\ at = "parse" /\ line < Len(maps) /\ line' = line + 1 /\ maps' = maps
      /\ line \in Nat /\ n \in Nat /\ DOMAIN array = 1..n /\ array \in Seq(Caches)
  BY LineEffect DEF Phases, Built
<1>2. /\ \A i \in DOMAIN array : array[i].file \in FileNames =>
           InodeKey(array[i].file) \in parsed_inodes
      /\ \A key \in parsed_inodes : \E i \in OfKey(key) :
           HasSymbols(i) /\ \A k \in OfKey(key) \ {i} : array[k].blobs = {}
      /\ \A j \in 1..line : maps[j].r /\ maps[j].x /\ maps[j].file \in FileNames =>
           InodeKey(maps[j].file) \in parsed_inodes \/ Full
  BY DEF Once
<1>3. \A j \in 1..line' : j \in 1..line \/ j = line + 1
  BY <1>1
<1>4. CASE /\ UNCHANGED <<array, parsed_inodes>>
           /\ m.r /\ m.x /\ m.file \in FileNames => Full
           /\ at' = "parse" \/ Full
  <2>1. \A key : OfKey(key)' = OfKey(key)
    BY <1>4 DEF OfKey
  <2>2. \A i : HasSymbols(i)' <=> HasSymbols(i)
    BY <1>4 DEF HasSymbols
  <2>3. Full' <=> Full
    BY <1>4 DEF Full
  <2>4. \A j \in 1..line' : maps'[j].r /\ maps'[j].x /\ maps'[j].file \in FileNames =>
          InodeKey(maps'[j].file) \in parsed_inodes' \/ Full'
    BY <1>1, <1>2, <1>3, <1>4, <2>3
  <2> QED
    BY <1>2, <1>4, <2>1, <2>2, <2>3, <2>4 DEF Once
<1>5. CASE /\ m.r /\ m.file # NoFile /\ m.x /\ ~Full /\ array' = Append(array, lib)
           /\ parsed_inodes' = IF Fresh(m) THEN parsed_inodes \cup {InodeKey(m.file)}
                                           ELSE parsed_inodes
           /\ at' = at
  <2> DEFINE new == InodeKey(m.file)
  <2>1. IF Fresh(m) THEN FromFile(lib, m) ELSE Repeated(lib, m)
    BY <1>1, <1>5, NewLibrary
  <2>2. /\ lib.file = m.file
        /\ ~Fresh(m) /\ m.file \in FileNames => lib.blobs = {}
        /\ Fresh(m) => lib.blobs = IF Files[m.file].type = "data" THEN {}
                                   ELSE LoadSymbols(BaseOf(m), m.file)
    <3>1. m.file \in FileNames => m.file # Vdso
      BY ImageAssumption
    <3> HIDE DEF lib, m
    <3> QED
      BY <2>1, <3>1 DEF FromFile, Repeated
  <2>3. Fresh(m) => m.file \in FileNames /\ BaseOf(m) \in 0..(Space - 1) /\ new \notin parsed_inodes
    <3>1. line + 1 \in DOMAIN maps
      BY <1>1 DEF Mapped
    <3> QED
      BY <3>1, BaseIs DEF Fresh
  <2>4. m.file \in FileNames => new \in parsed_inodes' /\ (Fresh(m) \/ new \in parsed_inodes)
    BY <1>5 DEF Fresh
  <2> HIDE DEF lib, m
  <2>5. /\ DOMAIN array' = 1..(n + 1)
        /\ \A i \in 1..n : array'[i] = array[i]
        /\ array'[n + 1] = lib
    BY <1>1, <1>5
  <2>6. n + 1 \in DOMAIN array' /\ n + 1 \notin DOMAIN array
        /\ \A i \in DOMAIN array' : i \in DOMAIN array \/ i = n + 1
    BY <1>1, <2>5
  <2>7. \A i \in DOMAIN array : i \in DOMAIN array' /\ array'[i] = array[i]
    BY <1>1, <2>5
  <2> HIDE DEF n, new
  <2>8. \A key : /\ OfKey(key) \subseteq OfKey(key)'
                 /\ \A i \in OfKey(key)' : i \in OfKey(key)
                      \/ (i = n + 1 /\ m.file \in FileNames /\ new = key)
    BY <2>2, <2>5, <2>6, <2>7 DEF OfKey, new
  <2>9. \A i \in DOMAIN array : HasSymbols(i) => HasSymbols(i)'
    BY <2>7 DEF HasSymbols
  <2>10. \A i \in DOMAIN array' : array'[i].file \in FileNames =>
           InodeKey(array'[i].file) \in parsed_inodes'
    BY <1>2, <1>5, <2>2, <2>4, <2>5, <2>6, <2>7 DEF new
  <2>11. ASSUME NEW key \in parsed_inodes'
         PROVE  \E i \in OfKey(key)' :
                  HasSymbols(i)' /\ \A k \in OfKey(key)' \ {i} : array'[k].blobs = {}
    <3>1. CASE key \in parsed_inodes
      <4>1. PICK i \in OfKey(key) :
              HasSymbols(i) /\ \A k \in OfKey(key) \ {i} : array[k].blobs = {}
        BY <1>2, <3>1
      <4>2. i \in DOMAIN array /\ i \in OfKey(key)' /\ HasSymbols(i)'
        BY <2>8, <2>9, <4>1 DEF OfKey
      <4>3. ASSUME NEW k \in OfKey(key)' \ {i} PROVE array'[k].blobs = {}
        <5>1. CASE k \in OfKey(key)
          <6>1. k \in DOMAIN array
            BY <5>1 DEF OfKey
          <6> QED
            BY <2>7, <4>1, <4>3, <5>1, <6>1
        <5>2. CASE k = n + 1 /\ m.file \in FileNames /\ new = key
          BY <2>2, <2>3, <2>5, <3>1, <5>2
        <5> QED
          BY <2>8, <5>1, <5>2
      <4> QED
        BY <4>2, <4>3
    <3>2. CASE key \notin parsed_inodes
      <4>1. Fresh(m) /\ key = new
        BY <1>5, <3>2 DEF new
      <4>2. OfKey(key) = {}
        BY <1>2, <3>2 DEF OfKey
      <4>3. PICK i \in DOMAIN array' : i = n + 1
        BY <2>6
      <4>4. i \in OfKey(key)' /\ array'[i] = lib
        BY <2>2, <2>3, <2>5, <4>1, <4>3 DEF OfKey, new
      <4>5. \A k \in OfKey(key)' : k = i
        BY <2>8, <4>2, <4>3
      <4>6. HasSymbols(i)'
        BY <2>2, <2>3, <4>1, <4>4 DEF HasSymbols
      <4> QED
        BY <4>4, <4>5, <4>6
    <3> QED
      BY <3>1, <3>2
  <2>12. \A j \in 1..line' : maps'[j].r /\ maps'[j].x /\ maps'[j].file \in FileNames =>
           InodeKey(maps'[j].file) \in parsed_inodes'
    <3>1. \A j \in 1..line : maps[j].r /\ maps[j].x /\ maps[j].file \in FileNames =>
            InodeKey(maps[j].file) \in parsed_inodes'
      BY <1>2, <1>5
    <3>2. m.file \in FileNames => InodeKey(m.file) \in parsed_inodes'
      BY <2>4 DEF new
    <3> QED
      BY <1>1, <1>3, <3>1, <3>2 DEF m
  <2>13. at' = "parse"
    BY <1>1, <1>5
  <2> QED
    BY <2>10, <2>11, <2>12, <2>13 DEF Once
<1>6. NoFile \notin FileNames
  BY ImageAssumption
<1> QED
  BY <1>1, <1>4, <1>5, <1>6 DEF ParseLine, SkipLine, PlainLine, ExecutableLine

LEMMA StepIInv == IInv /\ [Next]_vars => IInv'
<1> SUFFICES ASSUME IInv, [Next]_vars PROVE IInv'
  OBVIOUS
<1>1. Mapped /\ Loaded /\ Phases /\ Built /\ Found /\ Once
  BY DEF IInv, Base
<1>2. CASE Map
  BY <1>2, MapIInv
<1>3. CASE ParseLine
  <2>1. Mapped' /\ Loaded'
    BY <1>1, <1>3, LineEffect DEF Mapped, Loaded
  <2> QED
    BY <1>1, <1>3, <2>1, LinePhases, LineBuilt, LineOnce DEF IInv, Base
<1> DEFINE Kept == Mapped' /\ Loaded' /\ Built' /\ Once'
           Ranged == /\ line' \in 0..Len(maps)'
                     /\ last_readable_base' \in Nat /\ image_end' \in Nat
                     /\ last_readable_base' <= image_end'
                     /\ AllReadable(last_readable_base, image_end)'
<1>4. CASE Open
  <2>1. UNCHANGED <<process, parser, search>> /\ at' = "parse" /\ at = "load"
    BY <1>4 DEF Open
  <2>2. Kept /\ Ranged
    BY <1>1, <2>1, ParsedKept, RangeKept
  <2> QED
    BY <1>1, <2>1, <2>2 DEF IInv, Base, Phases, Found, search, parser
<1>5. CASE Close
  <2>1. UNCHANGED <<process, parser, search>> /\ at' = "find" /\ at = "parse" /\ line = Len(maps)
    BY <1>5 DEF Close
  <2>2. Kept /\ Ranged
    BY <1>1, <2>1, ParsedKept, RangeKept
  <2> QED
    BY <1>1, <2>1, <2>2 DEF IInv, Base, Phases, Found, search, parser
<1>6. CASE FindAsmcgocall
  <2>1. /\ UNCHANGED <<process, parser, at>> /\ at = "find"
        /\ searched < Len(array) /\ searched' = searched + 1
    BY <1>6 DEF FindAsmcgocall
  <2>2. Kept /\ Ranged
    BY <1>1, <2>1, ParsedKept, RangeKept
  <2>3. Found'
    BY <1>6, FindStep DEF IInv
  <2>4. searched' \in 0..Len(array)'
    BY <1>1, <2>1 DEF Phases, Built, parser
  <2> QED
    BY <1>1, <2>1, <2>2, <2>3, <2>4 DEF IInv, Base, Phases
<1>7. CASE Main
  <2>1. UNCHANGED <<process, parser, search>> /\ at' = "ready" /\ at = "find"
    BY <1>7 DEF Main
  <2>2. Kept /\ Ranged
    BY <1>1, <2>1, ParsedKept, RangeKept
  <2> QED
    BY <1>1, <2>1, <2>2 DEF IInv, Base, Phases, Found, search, parser
<1>8. CASE UNCHANGED vars
  <2>1. UNCHANGED <<process, parser, search, at>>
    BY <1>8 DEF vars
  <2>2. Kept /\ Ranged
    BY <1>1, <2>1, ParsedKept, RangeKept
  <2> QED
    BY <1>1, <2>1, <2>2 DEF IInv, Base, Phases, Fresh0, Found, search, parser
<1> QED
  BY <1>2, <1>3, <1>4, <1>5, <1>6, <1>7, <1>8 DEF Next

LEMMA Invariance == Spec => []IInv
<1> QED
  BY InitIInv, StepIInv, PTL DEF Spec

LEMMA TypeFollows == IInv => TypeOK
<1> SUFFICES ASSUME IInv PROVE TypeOK
  OBVIOUS
<1>1. Mapped /\ Loaded /\ Phases /\ Built /\ Found
  BY DEF IInv, Base
<1>2. \A i \in DOMAIN array : array[i].min < array[i].max /\ IsFiniteSet(array[i].blobs)
  <2>1. \A i \in DOMAIN array : array[i] \in Caches
    BY DEF Caches
  <2> QED
    BY <1>1, <2>1, LibraryTyped DEF Phases, BlobsTyped
<1> QED
  BY <1>1, <1>2 DEF TypeOK, Phases, Built, Found

\* The search for asmcgocall stays inside of the array, every library has the
\* bounds of a mapping, and the bounds of asmcgocall are those of a symbol
\* (symbols_linux.cpp:518, cgotraceback.cpp:29-48).
THEOREM TypeCorrect == Spec => []TypeOK
BY TypeFollows, Invariance, PTL

-----------------------------------------------------------------------------
(* What libraries hold.                                                      *)

\* A header is that of a file mapped where its first segment lies.
LEMMA HeaderOf ==
  ASSUME Mapped, Loaded, NEW base \in Nat, NEW f \in HeaderAt(base)
  PROVE  /\ f \in FileNames /\ Files[f].type \in {"exec", "dyn"} /\ MmapMin <= base
         /\ 1 \in DOMAIN Files[f].segs /\ Files[f].segs[1].vaddr \in Nat
         /\ \E l \in loads : /\ l.file = f /\ base = l.bias + Files[f].segs[1].vaddr
                             /\ Files[f].type = "dyn" => base = l.bias
                             /\ Files[f].type = "exec" => l.bias = 0
<1>1. PICK j \in Readable(base) :
        /\ maps[j].file = f /\ f \in FileNames /\ Files[f].type # "data"
        /\ maps[j].off + (base - maps[j].lo) = 0
  BY DEF HeaderAt
<1>2. /\ j \in DOMAIN maps /\ maps[j].lo \in Nat /\ maps[j].off \in Nat
      /\ maps[j].lo <= base /\ MmapMin <= maps[j].lo
  BY LineFields DEF Readable, Mapped
<1>3. maps[j].off = 0 /\ base = maps[j].lo
  <2>1. \A off, lo \in Nat : off + (base - lo) = 0 /\ lo <= base => off = 0 /\ base = lo
    OBVIOUS
  <2> QED
    BY <1>1, <1>2, <2>1
<1>4. PICK l \in loads : \E n \in DOMAIN Files[l.file].segs : maps[j] = LineOf(l, n)
  BY <1>1, <1>2 DEF Loaded
<1>5. PICK n \in DOMAIN Files[l.file].segs : maps[j] = LineOf(l, n)
  BY <1>4
<1>6. /\ l.file = f /\ l.bias \in Nat /\ maps[j].off = Files[f].segs[n].off
      /\ maps[j].lo = l.bias + Files[f].segs[n].vaddr /\ n \in DOMAIN Files[f].segs
  BY <1>1, <1>5 DEF LineOf, Line, Loaded
<1>7. n = 1 /\ (Files[f].type = "dyn" => Files[f].segs[n].vaddr = 0)
  BY <1>1, <1>3, <1>6, FilesAssumption
<1>8. Files[f].type \in {"exec", "dyn"}
  BY <1>1, ImageAssumption
<1>9. Files[f].segs[1].vaddr \in Nat
  BY <1>1, <1>6, <1>7, SegmentLine
<1>10. Files[f].type = "exec" => l.bias = 0
  BY <1>6 DEF Loaded
<1>11. Files[f].type = "dyn" => base = l.bias
  BY <1>3, <1>6, <1>7
<1> QED
  BY <1>1, <1>2, <1>3, <1>6, <1>7, <1>8, <1>9, <1>10, <1>11

\* An address in a readable segment of a file that is mapped can be read, and
\* belongs to the file.
LEMMA SegmentReadable ==
  ASSUME Mapped, Loaded, NEW l \in loads, NEW a \in Nat, NEW n \in Nat,
         InSegment(l.file, a, n), NEW x \in a..(a + n - 1)
  PROVE  \E j \in Readable(l.bias + x) : maps[j].file = l.file
<1> DEFINE segs == Files[l.file].segs
<1>1. PICK i \in DOMAIN segs :
        segs[i].r /\ segs[i].vaddr <= a /\ a + n <= segs[i].vaddr + segs[i].len
  BY DEF InSegment
<1>2. l.file \in FileNames /\ l.bias \in Nat /\ l = [file |-> l.file, bias |-> l.bias]
  BY DEF Loaded
<1>3. PICK j \in DOMAIN maps : maps[j] = LineOf(l, i)
  BY <1>1 DEF Loaded
<1>4. /\ segs[i].vaddr \in Nat /\ segs[i].len \in Nat
      /\ maps[j].lo = l.bias + segs[i].vaddr /\ maps[j].hi = l.bias + segs[i].vaddr + segs[i].len
      /\ maps[j].r = segs[i].r /\ maps[j].file = l.file
  <2> DEFINE f == l.file
             bias == l.bias
  <2>1. maps[j] = LineOf([file |-> f, bias |-> bias], i)
    BY <1>2, <1>3
  <2>2. f \in FileNames /\ bias \in Nat /\ i \in DOMAIN Files[f].segs
    BY <1>1, <1>2
  <2> HIDE DEF f, bias
  <2> QED
    BY <2>1, <2>2, SegmentLine DEF f, bias
<1> HIDE DEF segs
<1>5. maps[j].lo <= l.bias + x /\ l.bias + x < maps[j].hi
  BY <1>1, <1>2, <1>4
<1> QED
  BY <1>1, <1>3, <1>4, <1>5 DEF Readable

\* A pointer of the dynamic section is right whether the loader has relocated
\* it or not, because files are smaller than the addresses they are mapped at.
LEMMA PointerRight ==
  ASSUME NEW f \in FileNames, Files[f].type \in {"exec", "dyn"}, NEW base \in Nat,
         MmapMin <= base, NEW bias \in Nat,
         base = bias + Files[f].segs[1].vaddr,
         Files[f].type = "dyn" => base = bias, Files[f].type = "exec" => bias = 0,
         NEW ptr \in Nat, NEW n \in Nat \ {0}, InSegment(f, ptr, n)
  PROVE  DynPtr(f, base, ptr) = bias + ptr
<1> DEFINE segs == Files[f].segs
<1>1. PICK i \in DOMAIN segs : segs[i].vaddr <= ptr /\ ptr + n <= segs[i].vaddr + segs[i].len
  BY DEF InSegment
<1>2. segs[i].vaddr \in Nat /\ segs[i].len \in Nat
  BY <1>1, SegmentLine
<1>3. CASE Files[f].type = "dyn"
  <2>1. segs[i].vaddr + segs[i].len <= MmapMin /\ MmapMin \in Nat
    BY <1>1, <1>3, FilesAssumption, ImageAssumption
  <2> HIDE DEF segs
  <2>2. ptr < base
    BY <1>1, <1>2, <2>1
  <2>3. base = bias /\ DynamicPointer(f, base, ptr) \in {ptr, base + ptr}
    BY <1>3 DEF DynamicPointer
  <2> QED
    BY <2>2, <2>3 DEF DynPtr
<1>4. CASE Files[f].type = "exec"
  <2>1. /\ segs \in Seq(SegmentRecord) /\ 1 \in DOMAIN segs /\ segs[1].vaddr \in Nat
        /\ \A j, k \in DOMAIN segs : j < k => segs[j].vaddr + segs[j].len <= segs[k].vaddr
    <3>1. /\ segs \in Seq(SegmentRecord) /\ segs # << >>
          /\ \A j, k \in DOMAIN segs : j < k => segs[j].vaddr + segs[j].len <= segs[k].vaddr
      BY FilesAssumption
    <3>2. 1 \in DOMAIN segs
      BY <3>1
    <3> QED
      BY <3>1, <3>2, SegmentLine
  <2>2. segs[1].len \in Nat
    BY <2>1, SegmentLine
  <2>3. DynamicPointer(f, base, ptr) = ptr /\ bias = 0
    BY <1>4 DEF DynamicPointer
  <2>4. base = segs[1].vaddr
    BY <2>1, <2>3
  <2> HIDE DEF segs
  <2>5. i = 1 \/ 1 < i
    BY <1>1, <2>1
  <2>6. segs[1].vaddr <= segs[i].vaddr
    BY <1>1, <1>2, <2>1, <2>2, <2>5
  <2>7. ptr >= base
    BY <1>1, <1>2, <2>1, <2>4, <2>6
  <2> QED
    BY <2>3, <2>7 DEF DynPtr
<1> QED
  BY <1>3, <1>4

LEMMA DynamicReadable ==
  ASSUME Mapped, Loaded, NEW base \in Nat, NEW f \in HeaderAt(base),
         NEW d \in Files[f].dynamic, NEW a \in DynamicReads(f, base, d)
  PROVE  Readable(a) # {}
<1>1. /\ f \in FileNames /\ Files[f].type \in {"exec", "dyn"} /\ MmapMin <= base
      /\ Files[f].segs[1].vaddr \in Nat
  BY HeaderOf
<1>2. PICK l \in loads : /\ l.file = f /\ base = l.bias + Files[f].segs[1].vaddr
                         /\ Files[f].type = "dyn" => base = l.bias
                         /\ Files[f].type = "exec" => l.bias = 0
  BY HeaderOf
<1>3. /\ d.vaddr \in Nat /\ d.memsz \in Nat /\ d.relcount \in Nat /\ d.rel \subseteq Nat
      /\ d.relocations \in Seq([type : STRING, offset : Nat])
      /\ InSegment(f, d.vaddr, d.memsz)
      /\ RelroEntries(d) # {} => \A ptr \in d.rel : InSegment(f, ptr, Len(d.relocations))
  BY <1>1, DynamicAssumption
<1>4. l.bias \in Nat
  BY DEF Loaded
<1>5. CASE \E i \in 0..(d.memsz - 1) :
             a = (IF Files[f].type = "exec" THEN 0 ELSE base) + d.vaddr + i
  <2>1. PICK i \in 0..(d.memsz - 1) :
          a = (IF Files[f].type = "exec" THEN 0 ELSE base) + d.vaddr + i
    BY <1>5
  <2>2. a = l.bias + (d.vaddr + i)
    <3>1. (IF Files[f].type = "exec" THEN 0 ELSE base) = l.bias
      BY <1>1, <1>2
    <3> QED
      BY <1>3, <1>4, <2>1, <3>1
  <2>3. d.vaddr + i \in d.vaddr..(d.vaddr + d.memsz - 1)
    BY <1>3
  <2>4. \E j \in Readable(l.bias + (d.vaddr + i)) : maps[j].file = l.file
    <3> DEFINE x == d.vaddr + i
    <3>1. InSegment(l.file, d.vaddr, d.memsz) /\ x \in d.vaddr..(d.vaddr + d.memsz - 1)
      BY <1>2, <1>3, <2>3
    <3> HIDE DEF x
    <3>2. \E j \in Readable(l.bias + x) : maps[j].file = l.file
      BY <1>3, <3>1, SegmentReadable
    <3> QED
      BY <3>2 DEF x
  <2> QED
    BY <2>2, <2>4
<1>6. CASE \E i \in RelroEntries(d) :
             a = DynPtr(f, base, CHOOSE ptr \in d.rel : TRUE) + i - 1
  <2> DEFINE ptr == CHOOSE q \in d.rel : TRUE
             n == Len(d.relocations)
  <2>1. PICK i \in RelroEntries(d) : a = DynPtr(f, base, ptr) + i - 1
    BY <1>6
  <2>2. i \in (d.relcount + 1)..n /\ d.rel # {}
    BY <2>1 DEF RelroEntries
  <2>3. ptr \in d.rel
    BY <2>2
  <2> HIDE DEF ptr, n
  <2>4. n \in Nat
    BY <1>3 DEF n
  <2>5. i \in 1..n /\ n # 0
    BY <1>3, <2>2, <2>4
  <2>6. ptr \in Nat /\ InSegment(f, ptr, n)
    BY <1>3, <2>1, <2>3 DEF n
  <2>7. DynPtr(f, base, ptr) = l.bias + ptr
    BY <1>1, <1>2, <1>4, <2>4, <2>5, <2>6, PointerRight
  <2>8. a = l.bias + (ptr + i - 1) /\ ptr + i - 1 \in ptr..(ptr + n - 1)
    BY <1>4, <2>1, <2>4, <2>5, <2>6, <2>7
  <2>9. \E j \in Readable(l.bias + (ptr + i - 1)) : maps[j].file = l.file
    BY <1>2, <2>4, <2>6, <2>8, SegmentReadable
  <2> QED
    BY <2>8, <2>9
<1> QED
  BY <1>5, <1>6 DEF DynamicReads

LEMMA HeadersFollow == IInv => HeaderReadable
<1> SUFFICES ASSUME IInv, NEW i \in DOMAIN array, NEW a \in array[i].probed
             PROVE  Readable(a) # {}
  BY DEF HeaderReadable
<1>1. Mapped /\ Loaded /\ Phases /\ Built
  BY DEF IInv, Base
<1> DEFINE cc == array[i]
<1>2. PICK m \in Executables : FromFile(cc, m) \/ Repeated(cc, m)
  BY <1>1 DEF Built, Caches
<1>3. PICK j \in DOMAIN maps : m = maps[j]
  BY <1>1 DEF Executables, Phases, Mapped
<1>4. CASE Repeated(cc, m)
  BY <1>4 DEF Repeated
<1>5. CASE FromFile(cc, m)
  <2> DEFINE base == BaseOf(m)
  <2>1. base \in Nat
    BY <1>1, <1>3, <1>5, BaseIs DEF FromFile
  <2>2. \/ a = base /\ Readable(base) # {}
        \/ \E f \in HeaderAt(base) : \E d \in Files[f].dynamic : a \in DynamicReads(f, base, d)
    BY <1>5 DEF FromFile, Bare, Owned
  <2> HIDE DEF base
  <2> QED
    BY <1>1, <2>1, <2>2, DynamicReadable
<1> QED
  BY <1>2, <1>4, <1>5

\* Nothing is read from an address that is not mapped readable, whatever files
\* lie beside each other and wherever (symbols_linux.cpp:535, 268, 306).
THEOREM HeadersReadable == Spec => []HeaderReadable
BY HeadersFollow, Invariance, PTL

-----------------------------------------------------------------------------
(* Whose tables they are.                                                    *)

\* Where all segments of a file have one distance, the header found for a
\* mapping is that of its file.
LEMMA OwnHeader ==
  ASSUME SameDistance, Mapped, Loaded, NEW j \in DOMAIN maps, maps[j].file \in FileNames,
         NEW owner \in HeaderAt(BaseOf(maps[j]))
  PROVE  /\ owner = maps[j].file
         /\ \E l \in loads : /\ l.file = owner
                             /\ BaseOf(maps[j]) = l.bias + Files[owner].segs[1].vaddr
<1> DEFINE base == BaseOf(maps[j])
<1>1. PICK l \in loads : \E n \in DOMAIN Files[l.file].segs : maps[j] = LineOf(l, n)
  BY DEF Loaded
<1>2. PICK n \in DOMAIN Files[l.file].segs : maps[j] = LineOf(l, n)
  BY <1>1
<1> DEFINE f == l.file
           segs == Files[f].segs
<1>3. f \in FileNames /\ l.bias \in Nat /\ l = [file |-> f, bias |-> l.bias]
  BY DEF Loaded
<1>4. /\ segs[1].off = 0 /\ segs[n].vaddr - segs[n].off = segs[1].vaddr
      /\ 1 \in DOMAIN segs
  <2>1. segs \in Seq(SegmentRecord) /\ segs # << >>
    BY <1>3, FilesAssumption
  <2>2. 1 \in DOMAIN segs
    BY <2>1
  <2> QED
    BY <1>2, <1>3, <2>2 DEF SameDistance
<1>5. /\ maps[j].lo = l.bias + segs[n].vaddr /\ maps[j].off = segs[n].off /\ maps[j].file = f
  BY <1>2 DEF LineOf, Line
<1>6. /\ segs[n].vaddr \in Nat /\ segs[n].off \in Nat /\ segs[1].vaddr \in Nat
      /\ segs[1].len \in Nat \ {0}
  BY <1>2, <1>3, <1>4, SegmentLine
<1>7. base = maps[j].lo - maps[j].off /\ base \in Nat
  BY BaseIs
<1>8. base = l.bias + segs[1].vaddr
  <2> HIDE DEF segs, f, base
  <2> QED
    BY <1>3, <1>4, <1>5, <1>6, <1>7
<1>9. PICK k \in DOMAIN maps : maps[k] = LineOf(l, 1)
  BY <1>4 DEF Loaded
<1>10. maps[k].lo = base /\ maps[k].file = f
  BY <1>8, <1>9 DEF LineOf, Line
<1>11. PICK i \in Readable(base) : maps[i].file = owner /\ maps[i].off + (base - maps[i].lo) = 0
  BY DEF HeaderAt
<1>12. /\ i \in DOMAIN maps /\ maps[i].lo <= base /\ base < maps[i].hi
       /\ maps[i].lo \in Nat /\ maps[i].hi \in Nat /\ maps[i].off \in Nat
       /\ maps[k].hi \in Nat /\ base < maps[k].hi
  BY <1>9, <1>10, <1>11, LineFields DEF Readable, Mapped
<1>13. maps[i].lo = base
  <2>1. \A off, lo \in Nat : off + (base - lo) = 0 /\ lo <= base => base = lo
    BY <1>7
  <2> QED
    BY <1>11, <1>12, <2>1
<1>14. i = k
  <2>1. i \in Nat /\ k \in Nat
    BY <1>9, <1>12 DEF Mapped
  <2>2. i < k => maps[i].hi <= base
    BY <1>9, <1>10, <1>12 DEF Mapped
  <2>3. k < i => maps[k].hi <= base
    BY <1>9, <1>12, <1>13 DEF Mapped
  <2> HIDE DEF base
  <2> QED
    BY <1>7, <1>12, <2>1, <2>2, <2>3
<1> QED
  BY <1>5, <1>8, <1>10, <1>11, <1>14

LEMMA TablesFollow ==
  ASSUME SameDistance
  PROVE  IInv => TableOwn
<1> SUFFICES ASSUME IInv, NEW i \in DOMAIN array
             PROVE  /\ array[i].table # NoFile => array[i].table = array[i].file
                    /\ array[i].file \in FileNames /\ array[i].text_base # NULL =>
                         array[i].text_base \in HeaderAddresses(array[i].file)
  BY DEF TableOwn
<1>1. Mapped /\ Loaded /\ Phases /\ Built
  BY DEF IInv, Base
<1> DEFINE cc == array[i]
<1>2. PICK m \in Executables : FromFile(cc, m) \/ Repeated(cc, m)
  BY <1>1 DEF Built, Caches
<1>3. PICK j \in DOMAIN maps : m = maps[j]
  BY <1>1 DEF Executables, Phases, Mapped
<1>4. CASE Bare(cc)
  BY <1>4 DEF Bare
<1>5. CASE FromFile(cc, m) /\ \E owner \in HeaderAt(BaseOf(m)) : Owned(cc, BaseOf(m), owner)
  <2>1. PICK owner \in HeaderAt(BaseOf(m)) : Owned(cc, BaseOf(m), owner)
    BY <1>5
  <2>2. maps[j].file \in FileNames /\ cc.file = m.file
    BY <1>3, <1>5 DEF FromFile
  <2>3. owner = cc.file /\ \E l \in loads : /\ l.file = owner
                                            /\ BaseOf(m) = l.bias + Files[owner].segs[1].vaddr
    BY <1>1, <1>3, <2>2, OwnHeader
  <2>4. BaseOf(m) \in HeaderAddresses(owner)
    BY <2>3 DEF HeaderAddresses
  <2> QED
    BY <2>1, <2>3, <2>4 DEF Owned
<1> QED
  BY <1>2, <1>4, <1>5 DEF FromFile, Repeated

\* The frame table of a library is that of its own file, and is used relative to
\* the place of that file, as long as the distance of the segments is one
\* (symbols_linux.cpp:534-537).
THEOREM TablesOwn ==
  ASSUME SameDistance
  PROVE  Spec => []TableOwn
BY TablesFollow, Invariance, PTL

-----------------------------------------------------------------------------
(* Whose symbols they are.                                                   *)

LEMMA NamesStay ==
  ASSUME NEW base, NEW f
  PROVE  {b.name : b \in LoadSymbols(base, f)} = SymbolNames(f)
<1> DEFINE kept(table) == {t \in table :
             t.name # "" /\ t.value # 0 /\ ~(t.name = "$x" /\ t.size = 0)}
<1>1. \A a, s : Blob(a, s).name = s.name
  BY DEF Blob
<1>2. \A a, table : {b.name : b \in LoadSymbolTable(a, table)} = {t.name : t \in kept(table)}
  <2> SUFFICES ASSUME NEW a, NEW table
               PROVE  {b.name : b \in LoadSymbolTable(a, table)} = {t.name : t \in kept(table)}
    OBVIOUS
  <2>1. LoadSymbolTable(a, table) = {Blob(a, s) : s \in kept(table)}
    BY DEF LoadSymbolTable
  <2> HIDE DEF kept
  <2>2. {b.name : b \in {Blob(a, s) : s \in kept(table)}} = {Blob(a, s).name : s \in kept(table)}
    OBVIOUS
  <2>3. {Blob(a, s).name : s \in kept(table)} = {t.name : t \in kept(table)}
    BY <1>1
  <2> QED
    BY <2>1, <2>2, <2>3
<1>3. \A a : {b.name : b \in PltBlobs(a, f)} = {"@plt" : i \in 1..Files[f].relocations}
  <2> SUFFICES ASSUME NEW a
               PROVE  {b.name : b \in PltBlobs(a, f)} = {"@plt" : i \in 1..Files[f].relocations}
    OBVIOUS
  <2> DEFINE stub(i) == [name |-> "@plt", value |-> Files[f].plt + i, size |-> 1]
             n == Files[f].relocations
  <2>1. PltBlobs(a, f) = {Blob(a, stub(i)) : i \in 1..n}
    BY DEF PltBlobs
  <2>2. \A i : stub(i).name = "@plt"
    OBVIOUS
  <2> HIDE DEF stub, n
  <2>3. {b.name : b \in {Blob(a, stub(i)) : i \in 1..n}} = {Blob(a, stub(i)).name : i \in 1..n}
    OBVIOUS
  <2>4. \A i : Blob(a, stub(i)).name = "@plt"
    BY <1>1, <2>2
  <2>5. {Blob(a, stub(i)).name : i \in 1..n} = {"@plt" : i \in 1..n}
    BY <2>4
  <2> QED
    BY <2>1, <2>3, <2>5 DEF n
<1> HIDE DEF kept
<1>4. \A a : {b.name : b \in LoadSymbols(a, f)}
        = {b.name : b \in LoadSymbolTable(a, UNION (IF Files[f].symtab # {} THEN Files[f].symtab
                                                    ELSE IF Files[f].debug # {} THEN Files[f].debug
                                                    ELSE Files[f].dynsym))}
            \cup {b.name : b \in PltBlobs(a, f)}
  BY DEF LoadSymbols
<1> QED
  BY <1>2, <1>3, <1>4 DEF SymbolNames

LEMMA ParsedFollows ==
  ASSUME KeysDistinct
  PROVE  IInv => EveryFileParsed
<1> SUFFICES ASSUME IInv, at \in {"find", "ready"}, Len(array) < MAX_NATIVE_LIBS,
                    NEW j \in DOMAIN maps, maps[j].x, maps[j].r, maps[j].file \in FileNames,
                    Files[maps[j].file].type # "data", SymbolNames(maps[j].file) # {}
             PROVE  Cardinality(LibrariesWithSymbols(maps[j].file)) = 1
  BY DEF EveryFileParsed
<1> DEFINE f == maps[j].file
<1>1. /\ DOMAIN maps = 1..Len(maps) /\ ~Full
  <2>1. Len(array) \in Nat /\ MAX_NATIVE_LIBS \in Nat
    BY ImageAssumption DEF IInv, Base, Built
  <2> QED
    BY <2>1 DEF IInv, Base, Mapped, Full
<1>2. InodeKey(f) \in parsed_inodes
  BY <1>1 DEF IInv, Once
<1>3. PICK i \in OfKey(InodeKey(f)) :
        HasSymbols(i) /\ \A k \in OfKey(InodeKey(f)) \ {i} : array[k].blobs = {}
  BY <1>2 DEF IInv, Once
<1>4. \A k \in OfKey(InodeKey(f)) : k \in DOMAIN array /\ array[k].file = f
  BY DEF OfKey, KeysDistinct
<1>5. \A k \in DOMAIN array : array[k].file = f => k \in OfKey(InodeKey(f))
  BY DEF OfKey
<1>6. {b.name : b \in array[i].blobs} = SymbolNames(f)
  <2>1. PICK base \in 0..(Space - 1) : array[i].blobs = LoadSymbols(base, f)
    BY <1>3, <1>4 DEF HasSymbols
  <2> QED
    BY <2>1, NamesStay
<1>7. LibrariesWithSymbols(f) = {i}
  <2>1. i \in LibrariesWithSymbols(f)
    BY <1>3, <1>4, <1>6 DEF LibrariesWithSymbols
  <2>2. ASSUME NEW k \in LibrariesWithSymbols(f), k # i PROVE FALSE
    <3>1. k \in DOMAIN array /\ array[k].file = f /\ {b.name : b \in array[k].blobs} = SymbolNames(f)
      BY DEF LibrariesWithSymbols
    <3>2. array[k].blobs = {}
      BY <1>3, <1>5, <2>2, <3>1
    <3> QED
      BY <3>1, <3>2
  <2> QED
    BY <2>1, <2>2
<1> HIDE DEF f
<1>8. Cardinality({i}) = 1
  BY FS_Singleton
<1> QED
  BY <1>7, <1>8 DEF f

\* A file with symbols has them in exactly one library, as long as the keys of
\* files are distinct and the array has room (symbols_linux.cpp:531).
THEOREM FilesParsed ==
  ASSUME KeysDistinct
  PROVE  Spec => []EveryFileParsed
BY ParsedFollows, Invariance, PTL

-----------------------------------------------------------------------------
(* The global offset table.                                                  *)

LEMMA MaxIn ==
  ASSUME NEW S \in SUBSET Nat, S # {}, IsFiniteSet(S)
  PROVE  Max(S) \in S /\ \A x \in S : x <= Max(S)
<1> DEFINE R == {[end |-> x] : x \in S}
           f == [x \in S |-> [end |-> x]]
<1>1. IsFiniteSet(R)
  <2>1. f \in Surjection(S, R)
    BY DEF Surjection
  <2> QED
    BY <2>1, FS_Surjection
<1>2. R # {} /\ \A b \in R : b.end \in Nat
  <2>1. \A x \in S : [end |-> x].end = x
    OBVIOUS
  <2> QED
    BY <2>1
<1>3. PICK b \in R : \A c \in R : b.end >= c.end
  <2> HIDE DEF R
  <2> QED
    BY <1>1, <1>2, LastEnd
<1>4. PICK m \in S : b = [end |-> m]
  OBVIOUS
<1>5. \A x \in S : m >= x
  <2> SUFFICES ASSUME NEW x \in S PROVE m >= x
    OBVIOUS
  <2>1. [end |-> x] \in R
    OBVIOUS
  <2> QED
    BY <1>3, <1>4, <2>1
<1> QED
  BY <1>5 DEF Max

LEMMA MinIn ==
  ASSUME NEW S \in SUBSET Nat, S # {}
  PROVE  Min(S) \in S
<1>1. PICK m \in S : \A k \in S : m <= k
  BY LeastNat
<1> QED
  BY <1>1 DEF Min

\* The pointers of the dynamic section of a library that can be moved.
LEMMA StartRight ==
  ASSUME NEW f \in FileNames, Files[f].type = "dyn", NEW base \in Nat, MmapMin <= base,
         NEW ptr \in Nat, NEW i \in DOMAIN Files[f].segs,
         ptr + 3 <= Files[f].segs[i].vaddr + Files[f].segs[i].len
  PROVE  DynPtr(f, base, ptr) = base + ptr
<1> DEFINE s == Files[f].segs[i]
<1>1. s.vaddr \in Nat /\ s.len \in Nat
  BY SegmentLine
<1>2. s.vaddr + s.len <= MmapMin /\ MmapMin \in Nat
  BY FilesAssumption, ImageAssumption
<1> HIDE DEF s
<1>3. ptr < base
  BY <1>1, <1>2 DEF s
<1>4. DynamicPointer(f, base, ptr) \in {ptr, base + ptr}
  BY DEF DynamicPointer
<1> QED
  BY <1>3, <1>4 DEF DynPtr

\* The table lies in a mapping of its file, from the size of the PLT or from the
\* relocations.
LEMMA GotReadable ==
  ASSUME GotPlaced, Mapped, Loaded, NEW l \in loads, Files[l.file].type = "dyn",
         NEW d \in Files[l.file].dynamic, NEW got \in GlobalOffsetTable(l.file, l.bias, d),
         NEW a \in got.lo..(got.hi - 1)
  PROVE  \E j \in Readable(a) : maps[j].file = l.file
<1> DEFINE f == l.file
           base == l.bias
           segs == Files[f].segs
           starts == {DynPtr(f, base, ptr) + 3 : ptr \in d.pltgot}
           entries == {e \in RelroEntries(d) : d.relocations[e].type = "GLOB_DAT"}
           slots == {base + d.relocations[e].offset : e \in entries}
           max == Max(slots \cup {NULL})
           size == d.pltrelsz \div d.relent
<1>1. f \in FileNames /\ base \in Nat /\ MmapMin <= base /\ MmapMin \in Nat \ {0} /\ Space \in Nat
  BY ImageAssumption DEF Loaded
<1>2. /\ d.relent \in Nat /\ d.pltrelsz \in Nat /\ d.relcount \in Nat /\ d.pltgot \subseteq Nat
      /\ d.relocations \in Seq([type : STRING, offset : Nat])
  BY <1>1, DynamicAssumption
<1>3. CASE d.relent # 0 /\ d.pltrelsz # 0 /\ d.pltgot # {}
  <2>1. starts # {}
    BY <1>3
  <2>2. got \in {[lo |-> lo, hi |-> lo + size] : lo \in starts}
    BY <1>3, <2>1 DEF GlobalOffsetTable
  <2>3. PICK ptr \in d.pltgot :
          got = [lo |-> DynPtr(f, base, ptr) + 3, hi |-> DynPtr(f, base, ptr) + 3 + size]
    BY <2>2
  <2>4. ptr \in Nat /\ InSegment(f, ptr + 3, size)
    BY <1>1, <1>2, <1>3 DEF GotPlaced
  <2>5. size \in Nat
    <3>1. \A p \in Nat, r \in Nat \ {0} : p \div r \in Nat
      BY SMTT(30)
    <3> QED
      BY <1>2, <1>3, <3>1
  <2> HIDE DEF size
  <2>6. PICK i \in DOMAIN segs : ptr + 3 + size <= segs[i].vaddr + segs[i].len
    BY <2>4 DEF InSegment
  <2>7. segs[i].vaddr \in Nat /\ segs[i].len \in Nat
    BY <1>1, <2>6, SegmentLine
  <2>8. DynPtr(f, base, ptr) = base + ptr
    <3>1. ptr + 3 <= segs[i].vaddr + segs[i].len
      BY <2>4, <2>5, <2>6, <2>7
    <3> QED
      BY <1>1, <2>4, <2>6, <3>1, StartRight
  <2>9. a \in (base + ptr + 3)..(base + ptr + 3 + size - 1)
    <3>1. got.lo = base + ptr + 3 /\ got.hi = base + ptr + 3 + size
      BY <2>3, <2>8
    <3> QED
      BY <1>1, <2>4, <2>5, <3>1
  <2> DEFINE x == a - base
  <2>10. x \in (ptr + 3)..(ptr + 3 + size - 1) /\ a = base + x
    BY <1>1, <2>4, <2>5, <2>9
  <2> HIDE DEF x
  <2>11. \E j \in Readable(base + x) : maps[j].file = f
    BY <2>4, <2>5, <2>10, SegmentReadable
  <2> QED
    BY <2>10, <2>11
<1>4. CASE ~(d.relent # 0 /\ d.pltrelsz # 0 /\ d.pltgot # {})
  <2> DEFINE lows == IF starts # {} THEN starts ELSE {Min(slots \cup {Space})}
  <2>1. starts = {} <=> d.pltgot = {}
    OBVIOUS
  <2>2. slots = {base + d.relocations[i].offset :
                   i \in {j \in RelroEntries(d) : d.relocations[j].type = "GLOB_DAT"}}
    OBVIOUS
  <2>3. got \in {[lo |-> lo, hi |-> max + 1] : lo \in {s \in lows : max >= s}}
    BY <1>4, <2>1 DEF GlobalOffsetTable
  <2>4. PICK i \in DOMAIN segs :
          /\ segs[i].r
          /\ \A e \in entries : /\ segs[i].vaddr <= d.relocations[e].offset
                                /\ d.relocations[e].offset < segs[i].vaddr + segs[i].len
          /\ \A ptr \in d.pltgot :
               segs[i].vaddr <= ptr + 3 /\ ptr + 3 <= segs[i].vaddr + segs[i].len
    BY <1>1, <1>4 DEF GotPlaced
  <2>5. segs[i].vaddr \in Nat /\ segs[i].len \in Nat \ {0}
    BY <1>1, <2>4, SegmentLine
  <2>6. /\ entries \subseteq DOMAIN d.relocations
        /\ IsFiniteSet(entries) /\ \A e \in entries : d.relocations[e].offset \in Nat
    <3>1. RelroEntries(d) \subseteq 1..Len(d.relocations)
      BY <1>2 DEF RelroEntries
    <3>2. IsFiniteSet(1..Len(d.relocations))
      BY <1>2, FS_Interval
    <3>3. entries \in SUBSET (1..Len(d.relocations))
      BY <3>1
    <3>4. IsFiniteSet(entries)
      BY <3>2, <3>3, FS_Subset
    <3>5. DOMAIN d.relocations = 1..Len(d.relocations)
      BY <1>2
    <3>6. ASSUME NEW e \in DOMAIN d.relocations PROVE d.relocations[e].offset \in Nat
      <4> DEFINE rel == d.relocations
                 Relocation == [type : STRING, offset : Nat]
      <4>1. rel \in Seq(Relocation) /\ e \in DOMAIN rel
        BY <1>2
      <4> HIDE DEF rel, Relocation
      <4>2. rel[e] \in Relocation
        BY <4>1
      <4> QED
        BY <4>2 DEF rel, Relocation
    <3> QED
      BY <3>3, <3>4, <3>5, <3>6
  <2> HIDE DEF entries
  <2>7. IsFiniteSet(slots)
    <3> DEFINE g == [e \in entries |-> base + d.relocations[e].offset]
    <3>1. g \in Surjection(entries, slots)
      BY DEF Surjection
    <3> QED
      BY <2>6, <3>1, FS_Surjection
  <2> DEFINE lower == base + segs[i].vaddr
             upper == base + segs[i].vaddr + segs[i].len
  <2>8. \A s \in slots : s \in Nat /\ lower <= s /\ s < upper
    BY <1>1, <2>4, <2>5, <2>6
  <2>9. \A s \in starts : s \in Nat /\ lower <= s
    <3> SUFFICES ASSUME NEW ptr \in d.pltgot
                 PROVE  DynPtr(f, base, ptr) + 3 \in Nat /\ lower <= DynPtr(f, base, ptr) + 3
      OBVIOUS
    <3>1. ptr \in Nat
      BY <1>2
    <3>2. DynPtr(f, base, ptr) = base + ptr
      BY <1>1, <2>4, <3>1, StartRight
    <3> QED
      BY <1>1, <2>4, <2>5, <3>1, <3>2
  <2>10. upper < Space /\ lower \in Nat /\ upper \in Nat /\ 0 < lower
    <3>1. PICK k \in DOMAIN maps : maps[k] = LineOf(l, i)
      BY <2>4 DEF Loaded
    <3>2. maps[k].hi = upper /\ maps[k].file = f
      BY <3>1 DEF LineOf, Line
    <3>3. upper < Space
      BY <1>1, <3>1, <3>2 DEF Mapped
    <3> QED
      BY <1>1, <2>5, <3>3
  <2> HIDE DEF slots, starts, lower, upper
  <2>11. max \in slots \cup {NULL} /\ \A s \in slots : s <= max
    <3>1. slots \cup {NULL} \in SUBSET Nat
      BY <2>8 DEF NULL
    <3>2. IsFiniteSet(slots \cup {NULL})
      BY <2>7, FS_AddElement
    <3> QED
      BY <3>1, <3>2, MaxIn
  <2>12. Min(slots \cup {Space}) \in slots \cup {Space}
    <3>1. slots \cup {Space} \in SUBSET Nat
      BY <1>1, <2>8
    <3> QED
      BY <3>1, MinIn
  <2>13. \A s \in lows : s \in Nat /\ lower <= s
    <3>1. lower <= Space
      BY <1>1, <2>5, <2>10 DEF lower, upper
    <3> DEFINE least == Min(slots \cup {Space})
    <3> HIDE DEF least
    <3>2. least \in Nat /\ lower <= least
      BY <1>1, <2>8, <2>12, <3>1 DEF least
    <3> QED
      BY <2>9, <3>2 DEF least
  <2> HIDE DEF lows, max
  <2>14. PICK lo \in lows : max >= lo /\ got = [lo |-> lo, hi |-> max + 1]
    BY <2>3
  <2>15. lower <= lo /\ lo \in Nat /\ lo <= max
    <3>1. max \in Nat
      BY <2>8, <2>11 DEF NULL
    <3> QED
      BY <2>13, <2>14, <3>1
  <2>16. max \in slots /\ max \in Nat /\ max < upper
    <3>1. max # NULL
      BY <2>10, <2>15 DEF NULL
    <3> QED
      BY <2>8, <2>11, <3>1
  <2>17. a \in lower..(upper - 1)
    BY <2>10, <2>14, <2>15, <2>16
  <2> DEFINE x == a - base
  <2>18. x \in segs[i].vaddr..(segs[i].vaddr + segs[i].len - 1) /\ a = base + x
    BY <1>1, <2>5, <2>17 DEF lower, upper
  <2> HIDE DEF x
  <2>19. InSegment(f, segs[i].vaddr, segs[i].len)
    BY <2>4, <2>5 DEF InSegment
  <2>20. \E j \in Readable(base + x) : maps[j].file = f
    BY <2>5, <2>18, <2>19, SegmentReadable
  <2> QED
    BY <2>18, <2>20
<1> QED
  BY <1>3, <1>4

LEMMA GotsFollow ==
  ASSUME SameDistance, GotPlaced
  PROVE  IInv => GotOwn
<1> SUFFICES ASSUME IInv, NEW i \in DOMAIN array, NEW got \in array[i].got,
                    array[i].file \in FileNames, Files[array[i].file].type = "dyn",
                    NEW a \in got.lo..(got.hi - 1)
             PROVE  \E j \in Readable(a) : maps[j].file = array[i].file
  BY DEF GotOwn
<1>1. Mapped /\ Loaded /\ Phases /\ Built
  BY DEF IInv, Base
<1> DEFINE cc == array[i]
<1>2. PICK m \in Executables : FromFile(cc, m) \/ Repeated(cc, m)
  BY <1>1 DEF Built, Caches
<1>3. PICK k \in DOMAIN maps : m = maps[k]
  BY <1>1 DEF Executables, Phases, Mapped
<1>4. ~Bare(cc)
  BY DEF Bare
<1>5. FromFile(cc, m) /\ \E owner \in HeaderAt(BaseOf(m)) : Owned(cc, BaseOf(m), owner)
  BY <1>2, <1>4 DEF FromFile, Repeated
<1>6. PICK owner \in HeaderAt(BaseOf(m)) : Owned(cc, BaseOf(m), owner)
  BY <1>5
<1>7. maps[k].file \in FileNames /\ cc.file = m.file
  BY <1>3, <1>5 DEF FromFile
<1>8. owner = cc.file
  BY <1>1, <1>3, <1>6, <1>7, OwnHeader
<1>9. BaseOf(m) \in Nat
  BY <1>1, <1>3, <1>7, BaseIs
<1>10. PICK l \in loads : l.file = owner /\ BaseOf(m) = l.bias
  <2>1. Files[owner].type = "dyn"
    BY <1>8
  <2> QED
    BY <1>1, <1>6, <1>9, <2>1, HeaderOf
<1>11. PICK d \in Files[owner].dynamic : got \in GlobalOffsetTable(owner, BaseOf(m), d)
  BY <1>6 DEF Owned
<1> QED
  BY <1>1, <1>8, <1>10, <1>11, GotReadable

\* Whether the loader relocates the dynamic section or not, the global offset
\* table of a library lies in a mapping of its file, if it does in the file
\* (symbols_linux.cpp:128, 262-330).
THEOREM GotsOwn ==
  ASSUME SameDistance, GotPlaced
  PROVE  Spec => []GotOwn
BY GotsFollow, Invariance, PTL

-----------------------------------------------------------------------------
(* The bounds of asmcgocall: what the parser knows of a program.             *)

\* No segment before the n-th is executable.
Leading(f, n) == \A j \in DOMAIN Files[f].segs : j < n => ~Files[f].segs[j].x

\* Behind such a segment of a program the readable range goes back to its header.
Reached ==
  \A l \in loads : \A n \in DOMAIN Files[l.file].segs :
    l.file \in Programs /\ Leading(l.file, n) /\ line > 0 /\ maps[line] = LineOf(l, n) =>
      last_readable_base <= Files[l.file].segs[1].vaddr /\ image_end = maps[line].hi

\* So that the header of a program is read where its library has symbols.
BasedAt(cc) ==
  cc.file \in Programs /\ cc.blobs # {} => cc.text_base = Files[cc.file].segs[1].vaddr
Based == \A cc \in Caches : BasedAt(cc)

\* The segments of a program lie at their addresses, in their order.
LEMMA ProgramLines ==
  ASSUME Mapped, Loaded, NEW l \in loads, l.file \in Programs,
         NEW n \in DOMAIN Files[l.file].segs
  PROVE  LET segs == Files[l.file].segs IN
         /\ l.file \in FileNames /\ l.bias = 0
         /\ 1 \in DOMAIN segs /\ n \in Nat /\ 1 <= n
         /\ segs[n].vaddr \in Nat /\ segs[n].len \in Nat \ {0}
         /\ LineOf(l, n).lo = segs[n].vaddr /\ LineOf(l, n).hi = segs[n].vaddr + segs[n].len
         /\ LineOf(l, n).r = segs[n].r /\ LineOf(l, n).x = segs[n].x
         /\ LineOf(l, n).file = l.file /\ LineOf(l, n).off = segs[n].off
         /\ \E j \in DOMAIN maps : maps[j] = LineOf(l, n)
<1> DEFINE f == l.file
           segs == Files[f].segs
<1>1. f \in FileNames /\ Files[f].type = "exec"
  BY DEF Programs
<1>2. l.bias = 0 /\ l \in [file : FileNames, bias : Nat]
      /\ \E j \in DOMAIN maps : maps[j] = LineOf(l, n)
  BY <1>1 DEF Loaded
<1>3. segs \in Seq(SegmentRecord) /\ segs # << >>
  BY <1>1, FilesAssumption
<1>4. 1 \in DOMAIN segs /\ n \in Nat /\ 1 <= n
  <2> HIDE DEF segs
  <2>1. n \in DOMAIN segs
    BY DEF segs
  <2> QED
    BY <1>3, <2>1
<1>5. l = [file |-> f, bias |-> 0]
  BY <1>2
<1>6. /\ segs[n].vaddr \in Nat /\ segs[n].len \in Nat \ {0}
      /\ LineOf(l, n).lo = 0 + segs[n].vaddr /\ LineOf(l, n).hi = 0 + segs[n].vaddr + segs[n].len
      /\ LineOf(l, n).r = segs[n].r /\ LineOf(l, n).x = segs[n].x
      /\ LineOf(l, n).file = f /\ LineOf(l, n).off = segs[n].off
  BY <1>1, <1>5, SegmentLine
<1> HIDE DEF segs, f
<1>7. /\ LineOf(l, n).lo = segs[n].vaddr /\ LineOf(l, n).hi = segs[n].vaddr + segs[n].len
  BY <1>6
<1> QED
  BY <1>1, <1>2, <1>4, <1>6, <1>7 DEF segs, f

\* A mapping that begins where another ends is the next one.
LEMMA NextLine ==
  ASSUME Mapped, NEW i \in DOMAIN maps, NEW j \in DOMAIN maps, maps[i].hi <= maps[j].lo
  PROVE  i < j /\ (maps[i].hi = maps[j].lo => j = i + 1)
<1>1. DOMAIN maps = 1..Len(maps) /\ Len(maps) \in Nat
  BY DEF Mapped
<1>2. \A k \in DOMAIN maps : maps[k].lo \in Nat /\ maps[k].hi \in Nat /\ maps[k].lo < maps[k].hi
  BY LineFields DEF Mapped
<1>3. \A k, n \in DOMAIN maps : k < n => maps[k].hi <= maps[n].lo
  BY DEF Mapped
<1>4. i < j
  <2>1. i # j
    BY <1>2
  <2>2. ~(j < i)
    BY <1>2, <1>3
  <2> QED
    BY <1>1, <2>1, <2>2
<1>5. ASSUME maps[i].hi = maps[j].lo, j # i + 1 PROVE FALSE
  <2>1. i + 1 \in DOMAIN maps /\ i < i + 1 /\ i + 1 < j
    BY <1>1, <1>4, <1>5
  <2> DEFINE k == i + 1
  <2>2. maps[i].hi <= maps[k].lo /\ maps[k].hi <= maps[j].lo
    BY <1>3, <2>1
  <2> QED
    BY <1>2, <1>5, <2>1, <2>2
<1> QED
  BY <1>4, <1>5

\* The next line is a segment of a program before which none is executable: then
\* the range it ends goes back to the header.
LEMMA ReachedNext ==
  ASSUME ProgramsPlain, Mapped, Loaded, Phases, Reached, line < Len(maps),
         NEW l \in loads, l.file \in Programs, NEW n \in DOMAIN Files[l.file].segs,
         Leading(l.file, n), maps[line + 1] = LineOf(l, n)
  PROVE  LET m == maps[line + 1] IN
         /\ m.r /\ m.file \in FileNames
         /\ ReadableBase(m) <= Files[l.file].segs[1].vaddr
<1> DEFINE f == l.file
           segs == Files[f].segs
           m == maps[line + 1]
<1>1. /\ f \in FileNames /\ 1 \in DOMAIN segs /\ n \in Nat /\ 1 <= n
      /\ segs[n].vaddr \in Nat /\ segs[n].len \in Nat \ {0}
      /\ m.lo = segs[n].vaddr /\ m.r = segs[n].r /\ m.file = f
  BY ProgramLines
<1>2. \A i \in DOMAIN segs : Leading(f, i) =>
        segs[i].r /\ (i > 1 => segs[i].vaddr = segs[i - 1].vaddr + segs[i - 1].len)
  BY DEF ProgramsPlain, Leading
<1>3. m.r
  BY <1>1, <1>2
<1>4. /\ line + 1 \in DOMAIN maps /\ ReadableBase(m) \in 0..m.lo /\ line \in Nat
  BY <1>3, LineReadable DEF Phases
<1> HIDE DEF m
<1>5. CASE n = 1
  BY <1>1, <1>3, <1>4, <1>5 DEF m
<1>6. CASE n > 1
  <2> DEFINE k == n - 1
  <2>1. k \in DOMAIN segs /\ k < n
    <3>1. segs \in Seq(SegmentRecord)
      BY <1>1, FilesAssumption
    <3> HIDE DEF segs
    <3>2. n \in DOMAIN segs
      BY DEF segs
    <3> QED
      BY <1>1, <1>6, <3>1, <3>2
  <2>2. PICK j \in DOMAIN maps : maps[j] = LineOf(l, k)
    BY <2>1, ProgramLines
  <2>3. LineOf(l, k).hi = segs[k].vaddr + segs[k].len
    BY <2>1, ProgramLines
  <2>4. maps[j].hi = m.lo
    BY <1>1, <1>2, <1>6, <2>2, <2>3
  <2>5. m.lo \in Nat
    BY <1>1
  <2>6. line + 1 = j + 1
    <3>1. maps[j].hi <= maps[line + 1].lo
      BY <2>4, <2>5 DEF m
    <3> QED
      BY <1>4, <2>4, <3>1, NextLine DEF m
  <2>7. j = line /\ line > 0
    <3>1. j \in Nat /\ j > 0
      BY DEF Mapped
    <3> QED
      BY <1>4, <2>6, <3>1
  <2>8. Leading(f, k)
    <3>1. \A i \in DOMAIN segs : i \in Nat
      <4>1. segs \in Seq(SegmentRecord)
        BY <1>1, FilesAssumption
      <4> HIDE DEF segs
      <4> QED
        BY <4>1
    <3>2. \A i \in DOMAIN segs : i < k => i < n
      BY <1>1, <3>1
    <3> QED
      BY <3>2 DEF Leading
  <2> HIDE DEF k
  <2>9. last_readable_base <= segs[1].vaddr /\ image_end = maps[line].hi
    BY <2>1, <2>2, <2>7, <2>8 DEF Reached
  <2>10. ReadableBase(m) = last_readable_base
    BY <2>4, <2>7, <2>9 DEF ReadableBase
  <2> QED
    BY <1>1, <1>3, <2>9, <2>10 DEF m
<1> QED
  BY <1>1, <1>5, <1>6

LEMMA LineReached ==
  ASSUME ProgramsPlain, Mapped, Loaded, Phases, Reached, ParseLine
  PROVE  Reached'
<1> DEFINE m == maps[line + 1]
<1>1. line < Len(maps) /\ line' = line + 1 /\ UNCHANGED <<maps, loads>>
  BY LineEffect
<1> SUFFICES ASSUME NEW l \in loads, NEW n \in DOMAIN Files[l.file].segs,
                    l.file \in Programs, Leading(l.file, n), m = LineOf(l, n)
             PROVE  last_readable_base' <= Files[l.file].segs[1].vaddr /\ image_end' = m.hi
  BY <1>1 DEF Reached
<1>2. m.r /\ m.file \in FileNames /\ ReadableBase(m) <= Files[l.file].segs[1].vaddr
  BY <1>1, ReachedNext
<1>3. m.file # NoFile
  BY <1>2, ImageAssumption
<1>4. last_readable_base' = ReadableBase(m) /\ image_end' = m.hi
  BY <1>2, <1>3 DEF ParseLine, SkipLine, PlainLine, ExecutableLine
<1> QED
  BY <1>2, <1>4

\* Where there is a header at the base, the text base is that base.
LEMMA ParsedBase ==
  ASSUME NEW m, NEW limit, BaseOf(m) >= limit, HeaderAt(BaseOf(m)) # {}
  PROVE  Parsed(m, limit).text_base = BaseOf(m)
<1> DEFINE base == BaseOf(m)
           owner == CHOOSE f \in HeaderAt(base) : TRUE
           dynamic == Files[owner].dynamic
           probed == {base} \cup UNION {DynamicReads(owner, base, d) : d \in dynamic}
           got == UNION {GlobalOffsetTable(owner, base, d) : d \in dynamic}
           table == IF Files[owner].eh_frame THEN owner ELSE NoFile
           h == ParseProgramHeaders(CodeCache(m), base)
<1>1. h = [CodeCache(m) EXCEPT !.probed = probed, !.got = got, !.text_base = base, !.table = table]
  BY DEF ParseProgramHeaders
<1>2. Parsed(m, limit) = IF Files[m.file].type = "data" THEN h
                         ELSE [h EXCEPT !.blobs = LoadSymbols(base, m.file)]
  BY DEF Parsed, BaseOf
<1> HIDE DEF probed, got, table, h, base
<1>3. h = [min |-> m.lo, max |-> m.hi, file |-> m.file, text_base |-> base,
           table |-> table, got |-> got, probed |-> probed, blobs |-> {}]
  BY <1>1 DEF CodeCache
<1>4. Parsed(m, limit).text_base = base
  BY <1>2, <1>3
<1> QED
  BY <1>4 DEF base

\* A program that is read for the first time is read at its first executable
\* segment.
LEMMA FreshLeading ==
  ASSUME ProgramsPlain, Mapped, Loaded, Phases, Once, ~Full, line < Len(maps),
         NEW l \in loads, l.file \in Programs, NEW n \in DOMAIN Files[l.file].segs,
         maps[line + 1] = LineOf(l, n), Fresh(maps[line + 1])
  PROVE  Leading(l.file, n)
<1> DEFINE f == l.file
           segs == Files[f].segs
           Earlier == {j \in DOMAIN segs : j < n /\ segs[j].x}
<1>1. f \in FileNames
  BY DEF Programs
<1>2. segs \in Seq(SegmentRecord)
      /\ \A i, j \in DOMAIN segs : i < j => segs[i].vaddr + segs[i].len <= segs[j].vaddr
  BY <1>1, FilesAssumption
<1> SUFFICES ASSUME Earlier # {} PROVE FALSE
  BY DEF Leading
<1>3. PICK k \in Earlier : \A j \in Earlier : k <= j
  <2>1. Earlier \in SUBSET Nat
    <3> HIDE DEF segs
    <3> QED
      BY <1>2
  <2> HIDE DEF Earlier
  <2> QED
    BY <2>1, LeastNat
<1>4. k \in DOMAIN segs /\ k < n /\ segs[k].x /\ k \in Nat /\ n \in Nat
  BY <1>3, ProgramLines
<1>5. \A j \in DOMAIN segs : j < k => ~segs[j].x
  <2> SUFFICES ASSUME NEW j \in DOMAIN segs, j < k, segs[j].x PROVE FALSE
    OBVIOUS
  <2>1. j \in Nat
    BY ProgramLines
  <2>2. j < n
    BY <1>4, <2>1
  <2>3. k <= j
    BY <1>3, <2>2
  <2> QED
    BY <1>4, <2>1, <2>3
<1>6. segs[k].r
  BY <1>4, <1>5 DEF ProgramsPlain
<1>7. PICK p \in DOMAIN maps : maps[p] = LineOf(l, k)
  BY <1>4, ProgramLines
<1>8. /\ maps[p].hi = segs[k].vaddr + segs[k].len /\ maps[p].r /\ maps[p].x /\ maps[p].file = f
      /\ maps[line + 1].lo = segs[n].vaddr /\ maps[line + 1].file = f
  <2>1. /\ LineOf(l, k).hi = segs[k].vaddr + segs[k].len /\ LineOf(l, k).r = segs[k].r
        /\ LineOf(l, k).x = segs[k].x /\ LineOf(l, k).file = f
    BY <1>4, ProgramLines
  <2>2. LineOf(l, n).lo = segs[n].vaddr /\ LineOf(l, n).file = f
    BY ProgramLines
  <2> QED
    BY <1>4, <1>6, <1>7, <2>1, <2>2
<1>9. p < line + 1 /\ line \in Nat /\ p \in Nat \ {0}
  <2>1. DOMAIN maps = 1..Len(maps) /\ Len(maps) \in Nat /\ line \in Nat
    BY DEF Mapped, Phases
  <2>2. line + 1 \in DOMAIN maps
    BY <2>1
  <2>3. maps[p].hi <= maps[line + 1].lo
    BY <1>2, <1>4, <1>8
  <2> QED
    BY <1>7, <2>1, <2>2, <2>3, NextLine
<1>10. p \in 1..line
  BY <1>9
<1>11. InodeKey(f) \in parsed_inodes
  BY <1>1, <1>8, <1>10 DEF Once
<1> QED
  BY <1>8, <1>11 DEF Fresh

\* The library of a program's line.
LEMMA ProgramLibrary ==
  ASSUME SameDistance, ProgramsPlain, Mapped, Loaded, Phases, Once, Reached, ~Full,
         line < Len(maps), maps[line + 1].r
  PROVE  BasedAt(Library(maps[line + 1]))
<1> DEFINE m == maps[line + 1]
           cc == Library(m)
<1>1. cc.file = m.file
  <2>1. IF Fresh(m) THEN FromFile(cc, m) ELSE Repeated(cc, m)
    BY NewLibrary
  <2> HIDE DEF cc, m
  <2> QED
    BY <2>1 DEF FromFile, Repeated
<1> SUFFICES ASSUME m.file \in Programs, cc.blobs # {}
             PROVE  cc.text_base = Files[m.file].segs[1].vaddr
  BY <1>1 DEF BasedAt
<1>2. m.file \in FileNames /\ m.file # Vdso
  BY ImageAssumption DEF Programs
<1>3. Fresh(m)
  <2> SUFFICES ASSUME ~Fresh(m) PROVE FALSE
    OBVIOUS
  <2>1. Repeated(cc, m)
    BY NewLibrary
  <2> HIDE DEF cc, m
  <2> QED
    BY <1>2, <2>1 DEF Repeated
<1>4. line + 1 \in DOMAIN maps
  BY LineReadable
<1>5. PICK l \in loads : \E n \in DOMAIN Files[l.file].segs : m = LineOf(l, n)
  BY <1>2, <1>4 DEF Loaded
<1>6. PICK n \in DOMAIN Files[l.file].segs : m = LineOf(l, n)
  BY <1>5
<1>7. l.file = m.file
  BY <1>6 DEF LineOf, Line
<1> DEFINE f == l.file
           segs == Files[f].segs
<1>8. /\ f \in FileNames /\ 1 \in DOMAIN segs
      /\ m.lo = segs[n].vaddr /\ m.off = segs[n].off
  BY <1>6, <1>7, ProgramLines
<1>9. BaseOf(m) = segs[1].vaddr
  <2>1. BaseOf(m) = m.lo - m.off
    BY <1>2, <1>4, BaseIs
  <2>2. segs[n].vaddr - segs[n].off = segs[1].vaddr
    BY <1>6, <1>8 DEF SameDistance
  <2> QED
    BY <1>8, <2>1, <2>2
<1>10. Leading(f, n)
  BY <1>3, <1>6, <1>7, FreshLeading
<1>11. ReadableBase(m) <= segs[1].vaddr
  BY <1>6, <1>7, <1>10, ReachedNext
<1>12. f \in HeaderAt(segs[1].vaddr)
  <2>1. /\ segs[1].vaddr \in Nat /\ segs[1].len \in Nat \ {0}
        /\ LineOf(l, 1).lo = segs[1].vaddr /\ LineOf(l, 1).hi = segs[1].vaddr + segs[1].len
        /\ LineOf(l, 1).r = segs[1].r /\ LineOf(l, 1).file = f /\ LineOf(l, 1).off = segs[1].off
        /\ \E j \in DOMAIN maps : maps[j] = LineOf(l, 1)
    BY <1>7, <1>8, ProgramLines
  <2>2. PICK j \in DOMAIN maps : maps[j] = LineOf(l, 1)
    BY <2>1
  <2>3. segs[1].r
    <3>1. \A i \in DOMAIN segs : i \in Nat /\ 1 <= i
      BY <1>7, ProgramLines
    <3>2. \A i \in DOMAIN segs : ~(i < 1)
      BY <3>1
    <3> QED
      BY <1>7, <1>8, <3>2 DEF ProgramsPlain
  <2>4. segs[1].off = 0
    BY <1>8 DEF SameDistance
  <2> DEFINE a == segs[1].vaddr
             len == segs[1].len
  <2>5. j \in Readable(a) /\ maps[j].off + (a - maps[j].lo) = 0
    <3>1. a \in Nat /\ len \in Nat \ {0}
      BY <2>1
    <3>2. maps[j].r /\ maps[j].lo = a /\ maps[j].hi = a + len /\ maps[j].off = 0
      BY <2>1, <2>2, <2>3, <2>4
    <3> HIDE DEF a, len
    <3> QED
      BY <3>1, <3>2 DEF Readable
  <2>6. Files[f].type # "data" /\ maps[j].file = f
    BY <1>7, <2>1, <2>2 DEF Programs
  <2> QED
    BY <1>8, <2>5, <2>6 DEF HeaderAt
<1>13. cc = Parsed(m, ReadableBase(m))
  BY <1>3 DEF Library
<1>14. BaseOf(m) >= ReadableBase(m)
  <2>1. segs[1].vaddr \in Nat
    BY <1>7, <1>8, ProgramLines
  <2>2. ReadableBase(m) \in 0..m.lo /\ m.lo \in Nat
    BY <1>4, LineReadable, LineFields DEF Mapped
  <2>3. ReadableBase(m) \in Nat
    BY <2>2
  <2> QED
    BY <1>9, <1>11, <2>1, <2>3
<1> HIDE DEF cc, m
<1>15. HeaderAt(BaseOf(m)) # {}
  BY <1>9, <1>12
<1>16. cc.text_base = BaseOf(m)
  BY <1>13, <1>14, <1>15, ParsedBase
<1> QED
  BY <1>7, <1>9, <1>16

LEMMA LineBased ==
  ASSUME SameDistance, ProgramsPlain, Mapped, Loaded, Phases, Built, Once, Reached, Based, ParseLine
  PROVE  Based'
<1> DEFINE lib == Library(maps[line + 1])
<1>1. /\ line < Len(maps)
      /\ \/ UNCHANGED array
         \/ maps[line + 1].r /\ ~Full /\ array' = Append(array, lib)
  BY LineEffect
<1>2. CASE UNCHANGED array
  BY <1>2 DEF Based, BasedAt, Caches
<1>3. CASE maps[line + 1].r /\ ~Full /\ array' = Append(array, lib)
  <2>1. BasedAt(lib)
    BY <1>1, <1>3, ProgramLibrary
  <2> HIDE DEF lib
  <2>2. Caches' = Caches \cup {lib}
    <3>1. array \in Seq(Caches) /\ Len(array) \in Nat
      BY DEF Built
    <3>2. /\ DOMAIN array' = 1..(Len(array) + 1) /\ DOMAIN array = 1..Len(array)
          /\ \A i \in 1..Len(array) : array'[i] = array[i]
          /\ array'[Len(array) + 1] = lib
      BY <1>3, <3>1
    <3> QED
      BY <3>1, <3>2 DEF Caches
  <2> QED
    BY <2>1, <2>2 DEF Based, BasedAt
<1> QED
  BY <1>1, <1>2, <1>3

-----------------------------------------------------------------------------
(* The bounds of asmcgocall: symbols at a base.                              *)

AsmNames == {"runtime.asmcgocall.abi0", "runtime.asmcgocall"}
Moved(base, b) == [name |-> b.name, start |-> base + b.start, end |-> base + b.end]

\* The symbols at a base are those at 0, moved.
LEMMA SymbolsMoved ==
  ASSUME NEW base \in Nat, NEW f \in FileNames
  PROVE  LoadSymbols(base, f) = {Moved(base, b) : b \in LoadSymbols(0, f)}
<1> DEFINE sections == IF Files[f].symtab # {} THEN Files[f].symtab
                       ELSE IF Files[f].debug # {} THEN Files[f].debug ELSE Files[f].dynsym
           kept == {t \in UNION sections :
                      t.name # "" /\ t.value # 0 /\ ~(t.name = "$x" /\ t.size = 0)}
           stub(i) == [name |-> "@plt", value |-> Files[f].plt + i, size |-> 1]
           n == Files[f].relocations
<1>1. \A a : LoadSymbols(a, f) = {Blob(a, s) : s \in kept} \cup {Blob(a, stub(i)) : i \in 1..n}
  BY DEF LoadSymbols, LoadSymbolTable, PltBlobs
<1>2. \A s : s.value \in Nat /\ s.size \in Nat => Blob(base, s) = Moved(base, Blob(0, s))
  <2> SUFFICES ASSUME NEW s, s.value \in Nat, s.size \in Nat
               PROVE  Blob(base, s) = Moved(base, Blob(0, s))
    OBVIOUS
  <2> DEFINE v == s.value
             z == s.size
  <2>1. /\ Blob(base, s) = [name |-> s.name, start |-> base + v, end |-> base + v + z]
        /\ Moved(base, Blob(0, s))
             = [name |-> s.name, start |-> base + (0 + v), end |-> base + (0 + v + z)]
    BY DEF Blob, Moved
  <2>2. base + (0 + v) = base + v /\ base + (0 + v + z) = base + v + z
    OBVIOUS
  <2> QED
    BY <2>1, <2>2
<1>3. \A s \in kept : s.value \in Nat /\ s.size \in Nat
  <2>1. UNION sections \subseteq SymbolRecord
    BY SymbolsAssumption
  <2> HIDE DEF sections
  <2>2. kept \subseteq SymbolRecord
    BY <2>1
  <2> QED
    BY <2>2 DEF SymbolRecord
<1>4. \A i \in 1..n : stub(i).value \in Nat /\ stub(i).size \in Nat
  <2>1. Files[f].plt \in Nat /\ n \in Nat
    BY SymbolsAssumption
  <2> QED
    BY <2>1
<1> HIDE DEF kept, stub, n
<1>5. \A s \in kept : Blob(base, s) = Moved(base, Blob(0, s))
  BY <1>2, <1>3
<1>6. \A i \in 1..n : Blob(base, stub(i)) = Moved(base, Blob(0, stub(i)))
  BY <1>2, <1>4
<1>7. {Moved(base, b) : b \in LoadSymbols(0, f)}
        = {Moved(base, Blob(0, s)) : s \in kept} \cup {Moved(base, Blob(0, stub(i))) : i \in 1..n}
  BY <1>1
<1>8. LoadSymbols(base, f) = {Blob(base, s) : s \in kept} \cup {Blob(base, stub(i)) : i \in 1..n}
  BY <1>1
<1> QED
  BY <1>5, <1>6, <1>7, <1>8

\* So is asmcgocall.
LEMMA AsmMoved ==
  ASSUME NEW base \in Nat, NEW f \in FileNames, NEW cc, cc.blobs = LoadSymbols(base, f)
  PROVE  AsmSymbols(cc) = {Moved(base, b) : b \in Asmcgocall(f)}
<1> DEFINE named(n) == {b \in LoadSymbols(0, f) : b.name = n}
<1>1. cc.blobs = {Moved(base, b) : b \in LoadSymbols(0, f)}
  BY SymbolsMoved
<1>2. \A b : Moved(base, b).name = b.name
  BY DEF Moved
<1>3. \A n : findSymbol(cc, n) = {Moved(base, b) : b \in named(n)}
  BY <1>1, <1>2 DEF findSymbol
<1>4. Asmcgocall(f) = IF named("runtime.asmcgocall.abi0") # {}
                        THEN named("runtime.asmcgocall.abi0") ELSE named("runtime.asmcgocall")
  BY DEF Asmcgocall
<1> HIDE DEF named
<1>5. \A n : findSymbol(cc, n) = {} <=> named(n) = {}
  BY <1>3
<1> QED
  BY <1>3, <1>4, <1>5 DEF AsmSymbols

\* Whether there is one is a matter of the names.
LEMMA AsmNamed ==
  /\ \A cc : AsmSymbols(cc) # {} <=> \E b \in cc.blobs : b.name \in AsmNames
  /\ \A f : Asmcgocall(f) # {} <=> \E n \in SymbolNames(f) : n \in AsmNames
<1>1. \A cc : AsmSymbols(cc) # {} <=> \E b \in cc.blobs : b.name \in AsmNames
  BY DEF AsmSymbols, findSymbol, AsmNames
<1>2. \A f : Asmcgocall(f) # {} <=> \E b \in LoadSymbols(0, f) : b.name \in AsmNames
  BY DEF Asmcgocall, AsmNames
<1> QED
  BY <1>1, <1>2 DEF SymbolNames

\* The names in the code the kernel provides do not depend on its place.
LEMMA VdsoNames ==
  ASSUME NEW base
  PROVE  {b.name : b \in ParseMem(base)} = {b.name : b \in ParseMem(0)}
<1> DEFINE table == UNION (IF VdsoFile.symtab # {} THEN VdsoFile.symtab ELSE VdsoFile.dynsym)
           kept == {t \in table : t.name # "" /\ t.value # 0 /\ ~(t.name = "$x" /\ t.size = 0)}
<1>1. \A a : ParseMem(a) = {Blob(a, s) : s \in kept}
  BY DEF ParseMem, LoadSymbolTable
<1>2. \A a, s : Blob(a, s).name = s.name
  BY DEF Blob
<1> HIDE DEF kept
<1>3. \A a : {b.name : b \in ParseMem(a)} = {Blob(a, s).name : s \in kept}
  BY <1>1
<1>4. \A a : {Blob(a, s).name : s \in kept} = {s.name : s \in kept}
  BY <1>2
<1> QED
  BY <1>3, <1>4

\* Where a program is linked, and its symbol.
StartOf(f) == Files[f].segs[1].vaddr
AsmOf(f) == CHOOSE b \in Asmcgocall(f) : TRUE

LEMMA AsmRight ==
  ASSUME ProgramsPlain, NEW f \in Programs
  PROVE  /\ Asmcgocall(f) = {AsmOf(f)} /\ StartOf(f) \in Nat
         /\ AsmOf(f).start \in Nat /\ AsmOf(f).end \in Nat
         /\ AsmOf(f).start <= AsmOf(f).end /\ StartOf(f) + AsmOf(f).end < Space
         /\ {c \in LoadSymbols(0, f) : c.start <= AsmOf(f).start /\ AsmOf(f).start < c.end}
              = {AsmOf(f)}
<1>1. PICK b \in Asmcgocall(f) :
        /\ Asmcgocall(f) = {b} /\ Files[f].segs[1].vaddr + b.end < Space
        /\ {c \in LoadSymbols(0, f) : c.start <= b.start /\ b.start < c.end} = {b}
  BY DEF ProgramsPlain
<1>2. AsmOf(f) = b
  BY <1>1 DEF AsmOf
<1>3. f \in FileNames
  BY DEF Programs
<1>4. BlobsTyped(LoadSymbols(0, f))
  BY <1>3, FileBlobs
<1>5. b \in LoadSymbols(0, f) /\ b.start < b.end
  BY <1>1
<1>6. b.start \in Nat /\ b.end \in Nat
  BY <1>4, <1>5 DEF BlobsTyped
<1>7. b.start <= b.end
  BY <1>5, <1>6
<1>8. StartOf(f) \in Nat
  <2>1. Files[f].segs \in Seq(SegmentRecord) /\ Files[f].segs # << >>
    BY <1>3, FilesAssumption
  <2> DEFINE segs == Files[f].segs
  <2> HIDE DEF segs
  <2>2. segs[1] \in SegmentRecord
    BY <2>1 DEF segs
  <2> QED
    BY <2>2 DEF SegmentRecord, StartOf, segs
<1> QED
  BY <1>1, <1>2, <1>6, <1>7, <1>8 DEF StartOf

LEMMA FirstOfOne ==
  ASSUME NEW b, b.end \in Nat
  PROVE  First({b}) = b
<1>1. Before(b, b)
  BY DEF Before
<1> QED
  BY <1>1 DEF First

\* What the search finds in the library of a program.
LEMMA ProgramFound ==
  ASSUME ProgramsPlain, NEW f \in Programs, NEW cc, cc.blobs = LoadSymbols(StartOf(f), f)
  PROVE  /\ AsmSymbols(cc) # {}
         /\ find(cc, First(AsmSymbols(cc)).start) = {Moved(StartOf(f), AsmOf(f))}
         /\ First({Moved(StartOf(f), AsmOf(f))}) = Moved(StartOf(f), AsmOf(f))
<1> DEFINE b == AsmOf(f)
           base == StartOf(f)
           moved == Moved(base, b)
<1>1. /\ Asmcgocall(f) = {b} /\ base \in Nat /\ b.start \in Nat /\ b.end \in Nat
      /\ {c \in LoadSymbols(0, f) : c.start <= b.start /\ b.start < c.end} = {b}
      /\ f \in FileNames
  BY AsmRight DEF Programs
<1> HIDE DEF b, base
<1>2. moved.start = base + b.start /\ moved.end = base + b.end /\ moved.end \in Nat
  BY <1>1 DEF Moved
<1>3. AsmSymbols(cc) = {moved}
  <2>1. AsmSymbols(cc) = {Moved(base, c) : c \in Asmcgocall(f)}
    BY <1>1, AsmMoved DEF base
  <2> QED
    BY <1>1, <2>1
<1> HIDE DEF moved
<1>4. First({moved}) = moved
  BY <1>2, FirstOfOne
<1>5. \A c \in LoadSymbols(0, f) :
        /\ c.start \in Nat /\ c.end \in Nat
        /\ Moved(base, c).start = base + c.start /\ Moved(base, c).end = base + c.end
  BY <1>1, FileBlobs DEF BlobsTyped, Moved
<1>6. \A c \in LoadSymbols(0, f) :
        Moved(base, c).start <= moved.start /\ moved.start < Moved(base, c).end
          <=> c.start <= b.start /\ b.start < c.end
  BY <1>1, <1>2, <1>5
<1>7. cc.blobs = {Moved(base, c) : c \in LoadSymbols(0, f)}
  BY <1>1, SymbolsMoved DEF base
<1>8. find(cc, moved.start) = {moved}
  <2>1. find(cc, moved.start)
          = {Moved(base, c) : c \in {d \in LoadSymbols(0, f) : d.start <= b.start /\ b.start < d.end}}
    BY <1>6, <1>7 DEF find
  <2>2. {Moved(base, c) : c \in {b}} = {moved}
    BY DEF moved
  <2> QED
    BY <1>1, <2>1, <2>2
<1> QED
  BY <1>3, <1>4, <1>8 DEF moved, base, b

-----------------------------------------------------------------------------
(* The bounds of asmcgocall: the search.                                     *)

\* Every file mapped that has asmcgocall and was read is a program.
ExecOnly == \A l \in AsmLoads : Files[l.file].type = "exec"

\* The search has the bounds of the program among the libraries it has passed.
Searched ==
  /\ searched = 0 => asmcgocall_bounds = {}
  /\ at = "ready" => searched = Len(array)
  /\ at \in {"find", "ready"} /\ ExecOnly =>
       /\ (\A k \in 1..searched : AsmSymbols(array[k]) = {}) => asmcgocall_bounds = {}
       /\ \A k \in 1..searched : AsmSymbols(array[k]) # {} =>
            LET f == array[k].file IN
            /\ asmcgocall_bounds = {Moved(StartOf(f), AsmOf(f))}
            /\ asmcgocall_base = StartOf(f)

ExactInv == IInv /\ Reached /\ Based /\ Searched

\* A library with asmcgocall is that of a program.
LEMMA AsmLibrary ==
  ASSUME SameDistance, ProgramsPlain, IInv, Based, ExecOnly,
         NEW k \in DOMAIN array, AsmSymbols(array[k]) # {}
  PROVE  LET f == array[k].file IN
         /\ f \in Programs /\ array[k].blobs = LoadSymbols(StartOf(f), f)
         /\ array[k].text_base = StartOf(f)
         /\ \E l \in AsmLoads : l.file = f
<1> DEFINE cc == array[k]
           f == cc.file
<1>1. Mapped /\ Loaded /\ Phases /\ Built
  BY DEF IInv, Base
<1>2. cc \in Caches
  BY DEF Caches
<1>3. PICK m \in Executables : FromFile(cc, m) \/ Repeated(cc, m)
  BY <1>1, <1>2 DEF Built
<1>4. PICK j \in DOMAIN maps : m = maps[j]
  BY <1>1 DEF Executables, Phases, Mapped
<1>5. PICK b \in cc.blobs : b.name \in AsmNames
  BY AsmNamed
<1> HIDE DEF cc
<1>6. ~Repeated(cc, m)
  <2> SUFFICES ASSUME Repeated(cc, m) PROVE FALSE
    OBVIOUS
  <2>1. b \in ParseMem(m.lo)
    BY <1>5 DEF Repeated
  <2>2. b.name \in {c.name : c \in ParseMem(0)}
    BY <2>1, VdsoNames
  <2> QED
    BY <1>5, <2>2 DEF ProgramsPlain, AsmNames
<1>7. FromFile(cc, m)
  BY <1>3, <1>6
<1>8. /\ f \in FileNames /\ f = maps[j].file /\ Files[f].type # "data"
      /\ cc.blobs = LoadSymbols(BaseOf(m), f)
  BY <1>4, <1>5, <1>7 DEF FromFile
<1>9. b.name \in SymbolNames(f) /\ {c.name : c \in cc.blobs} = SymbolNames(f)
  BY <1>5, <1>8, NamesStay
<1>10. Asmcgocall(f) # {}
  BY <1>5, <1>9, AsmNamed
<1>11. k \in LibrariesWithSymbols(f)
  BY <1>9 DEF LibrariesWithSymbols, cc
<1>12. PICK l \in loads : \E n \in DOMAIN Files[l.file].segs : maps[j] = LineOf(l, n)
  BY <1>1, <1>8 DEF Loaded
<1>13. PICK n \in DOMAIN Files[l.file].segs : maps[j] = LineOf(l, n)
  BY <1>12
<1>14. l.file = f
  BY <1>8, <1>13 DEF LineOf, Line
<1>15. l \in AsmLoads
  BY <1>8, <1>10, <1>11, <1>14 DEF AsmLoads
<1>16. f \in Programs
  BY <1>8, <1>10, <1>14, <1>15 DEF ExecOnly, Programs
<1>17. BaseOf(m) = StartOf(f)
  <2> DEFINE segs == Files[f].segs
  <2>1. BaseOf(m) = m.lo - m.off
    BY <1>1, <1>4, <1>8, BaseIs
  <2>2. m.lo = segs[n].vaddr /\ m.off = segs[n].off
    BY <1>1, <1>4, <1>13, <1>14, <1>16, ProgramLines
  <2>3. segs[n].vaddr - segs[n].off = segs[1].vaddr
    BY <1>8, <1>13, <1>14 DEF SameDistance
  <2> QED
    BY <2>1, <2>2, <2>3 DEF StartOf
<1>18. cc.text_base = StartOf(f)
  BY <1>2, <1>5, <1>16 DEF Based, BasedAt, StartOf
<1> QED
  BY <1>8, <1>14, <1>15, <1>16, <1>17, <1>18 DEF cc

\* Two programs do not fit into one process.
LEMMA OneProgram ==
  ASSUME ProgramsPlain, Mapped, Loaded, NEW k \in loads, NEW l \in loads,
         k.file \in Programs, l.file \in Programs
  PROVE  k = l
<1>1. Files[k.file].segs[1].vaddr = Files[l.file].segs[1].vaddr
  BY DEF ProgramsPlain
<1>2. ASSUME NEW x \in loads, x.file \in Programs
      PROVE  /\ x = [file |-> x.file, bias |-> 0]
             /\ \E j \in DOMAIN maps : maps[j].lo = Files[x.file].segs[1].vaddr
                                       /\ maps[j].file = x.file
  <2> DEFINE segs == Files[x.file].segs
  <2>1. segs \in Seq(SegmentRecord) /\ segs # << >>
    BY <1>2, FilesAssumption DEF Programs
  <2>2. 1 \in DOMAIN segs
    <3> HIDE DEF segs
    <3> QED
      BY <2>1
  <2>3. /\ x.bias = 0 /\ LineOf(x, 1).lo = segs[1].vaddr /\ LineOf(x, 1).file = x.file
        /\ \E j \in DOMAIN maps : maps[j] = LineOf(x, 1)
    BY <1>2, <2>2, ProgramLines
  <2>4. x \in [file : FileNames, bias : Nat]
    BY DEF Loaded
  <2> QED
    BY <2>3, <2>4
<1>3. PICK i \in DOMAIN maps : maps[i].lo = Files[k.file].segs[1].vaddr /\ maps[i].file = k.file
  BY <1>2
<1>4. PICK j \in DOMAIN maps : maps[j].lo = Files[l.file].segs[1].vaddr /\ maps[j].file = l.file
  BY <1>2
<1>5. i = j
  <2>1. \A n \in DOMAIN maps : maps[n].lo \in Nat /\ maps[n].hi \in Nat /\ maps[n].lo < maps[n].hi
    BY LineFields DEF Mapped
  <2>2. DOMAIN maps = 1..Len(maps) /\ Len(maps) \in Nat
    BY DEF Mapped
  <2>3. \A n, o \in DOMAIN maps : n < o => maps[n].hi <= maps[o].lo
    BY DEF Mapped
  <2>4. maps[i].lo = maps[j].lo
    BY <1>1, <1>3, <1>4
  <2>5. ~(i < j) /\ ~(j < i)
    BY <2>1, <2>3, <2>4
  <2> QED
    BY <2>2, <2>5
<1>6. k.file = l.file
  BY <1>3, <1>4, <1>5
<1>7. k = [file |-> k.file, bias |-> 0] /\ l = [file |-> l.file, bias |-> 0]
  BY <1>2
<1> QED
  BY <1>6, <1>7

LEMMA FindSearched ==
  ASSUME SameDistance, ProgramsPlain, ExactInv, FindAsmcgocall
  PROVE  Searched'
<1> DEFINE cc == array[searched + 1]
           f == cc.file
           found == IF AsmSymbols(cc) = {} THEN {} ELSE find(cc, First(AsmSymbols(cc)).start)
<1>1. /\ at = "find" /\ at' = "find" /\ searched < Len(array) /\ searched' = searched + 1
      /\ UNCHANGED <<maps, loads, array>>
      /\ IF found = {} THEN UNCHANGED <<asmcgocall_bounds, asmcgocall_base>>
         ELSE /\ asmcgocall_bounds' = {First(found)}
              /\ asmcgocall_base' = cc.text_base
  BY DEF FindAsmcgocall, process, parser
<1>2. /\ IInv /\ Mapped /\ Loaded /\ Based
      /\ searched \in Nat /\ searched + 1 \in DOMAIN array
  <2>1. IInv /\ Mapped /\ Loaded /\ Phases /\ Built /\ Based
    BY DEF ExactInv, IInv, Base
  <2>2. searched \in Nat /\ Len(array) \in Nat /\ DOMAIN array = 1..Len(array)
    BY <2>1 DEF Phases, Built
  <2> QED
    BY <1>1, <2>1, <2>2
<1>3. ExecOnly' <=> ExecOnly
  BY <1>1 DEF ExecOnly, AsmLoads, LibrariesWithSymbols
<1>4. \A k \in 1..searched' : k \in 1..searched \/ k = searched + 1
  BY <1>1, <1>2
<1>5. searched' # 0
  BY <1>1, <1>2
<1> SUFFICES ASSUME ExecOnly
             PROVE  /\ (\A k \in 1..searched' : AsmSymbols(array[k]) = {}) =>
                         asmcgocall_bounds' = {}
                    /\ \A k \in 1..searched' : AsmSymbols(array[k]) # {} =>
                         /\ asmcgocall_bounds' = {Moved(StartOf(array[k].file), AsmOf(array[k].file))}
                         /\ asmcgocall_base' = StartOf(array[k].file)
  BY <1>1, <1>3, <1>5 DEF Searched
<1>6. /\ (\A k \in 1..searched : AsmSymbols(array[k]) = {}) => asmcgocall_bounds = {}
      /\ \A k \in 1..searched : AsmSymbols(array[k]) # {} =>
           /\ asmcgocall_bounds = {Moved(StartOf(array[k].file), AsmOf(array[k].file))}
           /\ asmcgocall_base = StartOf(array[k].file)
  BY <1>1 DEF ExactInv, Searched
<1>7. 1..searched \subseteq 1..searched' /\ searched + 1 \in 1..searched'
      /\ 1..searched \subseteq DOMAIN array
  <2>1. array \in Seq(Caches)
    BY DEF ExactInv, IInv, Base, Built
  <2> QED
    BY <1>1, <1>2, <2>1
<1>8. CASE AsmSymbols(cc) = {}
  <2>1. UNCHANGED <<asmcgocall_bounds, asmcgocall_base>>
    BY <1>1, <1>8
  <2> QED
    BY <1>4, <1>6, <1>7, <1>8, <2>1
<1>9. CASE AsmSymbols(cc) # {}
  <2>1. /\ f \in Programs /\ cc.blobs = LoadSymbols(StartOf(f), f) /\ cc.text_base = StartOf(f)
        /\ \E l \in AsmLoads : l.file = f
    BY <1>2, <1>9, AsmLibrary
  <2>2. found = {Moved(StartOf(f), AsmOf(f))} /\ First(found) = Moved(StartOf(f), AsmOf(f))
    BY <1>9, <2>1, ProgramFound
  <2>3. /\ asmcgocall_bounds' = {Moved(StartOf(f), AsmOf(f))} /\ asmcgocall_base' = StartOf(f)
    BY <1>1, <2>1, <2>2
  <2>4. \A k \in 1..searched : AsmSymbols(array[k]) # {} => array[k].file = f
    <3> SUFFICES ASSUME NEW k \in 1..searched, AsmSymbols(array[k]) # {}
                 PROVE  array[k].file = f
      OBVIOUS
    <3>1. k \in DOMAIN array
      BY <1>7
    <3>2. array[k].file \in Programs /\ \E l \in AsmLoads : l.file = array[k].file
      BY <1>2, <3>1, AsmLibrary
    <3>3. AsmLoads \subseteq loads
      BY DEF AsmLoads
    <3> QED
      BY <1>2, <2>1, <3>2, <3>3, OneProgram
  <2> QED
    BY <1>4, <1>7, <1>9, <2>3, <2>4
<1> QED
  BY <1>8, <1>9

LEMMA StepExact ==
  ASSUME SameDistance, ProgramsPlain
  PROVE  ExactInv /\ [Next]_vars => ExactInv'
<1> SUFFICES ASSUME ExactInv, [Next]_vars PROVE ExactInv'
  OBVIOUS
<1>1. /\ IInv /\ Mapped /\ Loaded /\ Phases /\ Built /\ Once /\ Reached /\ Based /\ Searched
      /\ IInv' /\ Phases'
  BY StepIInv DEF ExactInv, IInv, Base
<1>2. CASE Map
  <2>1. UNCHANGED <<at, parser, search>> /\ Fresh0 /\ at = "load" /\ searched = 0
    BY <1>1, <1>2 DEF Map, Phases
  <2>2. line' = 0 /\ array' = << >> /\ searched' = 0 /\ at' = "load"
        /\ asmcgocall_bounds' = asmcgocall_bounds
    BY <2>1 DEF Fresh0, parser, search
  <2>3. Reached' /\ Based'
    BY <2>2 DEF Reached, Based, Caches
  <2>4. Searched'
    BY <1>1, <2>1, <2>2 DEF Searched
  <2> QED
    BY <1>1, <2>3, <2>4 DEF ExactInv
<1>3. CASE ParseLine
  <2>1. Reached' /\ Based'
    BY <1>1, <1>3, LineReached, LineBased
  <2>2. searched' = 0 /\ asmcgocall_bounds' = {} /\ at' \in {"parse", "find"}
    BY <1>1, <1>3, LineEffect DEF Phases, Searched
  <2>3. Searched'
    BY <2>2 DEF Searched
  <2> QED
    BY <1>1, <2>1, <2>3 DEF ExactInv
<1>4. ASSUME UNCHANGED <<process, parser>> PROVE Reached' /\ Based'
  <2>1. UNCHANGED <<maps, loads, line, last_readable_base, image_end, array>>
    BY <1>4 DEF process, parser
  <2> QED
    BY <1>1, <2>1 DEF Reached, Based, BasedAt, Caches
<1>5. CASE Open \/ Close
  <2>1. UNCHANGED <<process, parser, search>> /\ at \in {"load", "parse"} /\ at' # "ready"
    BY <1>5 DEF Open, Close
  <2>2. searched' = 0 /\ asmcgocall_bounds' = {}
    BY <1>1, <2>1 DEF Phases, Searched, search
  <2>3. Searched'
    BY <2>1, <2>2 DEF Searched
  <2> QED
    BY <1>1, <1>4, <2>1, <2>3 DEF ExactInv
<1>6. CASE FindAsmcgocall
  <2>1. UNCHANGED <<process, parser>>
    BY <1>6 DEF FindAsmcgocall
  <2> QED
    BY <1>1, <1>4, <1>6, <2>1, FindSearched DEF ExactInv
<1>7. CASE Main \/ UNCHANGED vars
  <2>1. /\ UNCHANGED <<process, parser, search>>
        /\ at' = at \/ (at = "find" /\ at' = "ready" /\ searched = Len(array))
    BY <1>7 DEF Main, vars
  <2>2. UNCHANGED <<maps, loads, array, searched, asmcgocall_bounds, asmcgocall_base>>
    BY <2>1 DEF process, parser, search
  <2>3. ExecOnly' <=> ExecOnly
    BY <2>2 DEF ExecOnly, AsmLoads, LibrariesWithSymbols
  <2>4. Searched'
    BY <1>1, <2>1, <2>2, <2>3 DEF Searched
  <2> QED
    BY <1>1, <1>4, <2>1, <2>4 DEF ExactInv
<1> QED
  BY <1>2, <1>3, <1>5, <1>6, <1>7 DEF Next

LEMMA InitExact == Init => ExactInv
<1> SUFFICES ASSUME Init PROVE ExactInv
  OBVIOUS
<1>1. IInv
  BY InitIInv
<1>2. Reached /\ Based /\ Searched
  BY DEF Init, Reached, Based, Caches, Searched
<1> QED
  BY <1>1, <1>2 DEF ExactInv

\* Addresses compared behind the base, modulo the size of the address space.
LEMMA WrappedRange ==
  ASSUME NEW base \in Nat, NEW lo \in Nat, NEW hi \in Nat, base + hi < Space,
         NEW a \in 0..(Space - 1)
  PROVE  base + lo <= (a + base) % Space /\ (a + base) % Space <= base + hi <=> a \in lo..hi
<1>1. Space \in Nat \ {0}
  BY ImageAssumption
<1> DEFINE sum == a + base
<1>2. \A x \in 0..(Space - 1) : x % Space = x /\ (x + Space) % Space = x
  BY <1>1, SMTT(30)
<1>3. CASE sum < Space
  <2>1. sum % Space = sum
    BY <1>1, <1>2, <1>3
  <2> QED
    BY <1>1, <2>1
<1>4. CASE sum >= Space
  <2> DEFINE x == sum - Space
  <2>1. x \in 0..(Space - 1) /\ sum = x + Space /\ x < base
    BY <1>1, <1>4
  <2> HIDE DEF x, sum
  <2>2. sum % Space = x
    BY <1>2, <2>1
  <2>3. ~(base + lo <= x)
    BY <2>1
  <2>4. a \notin lo..hi
    BY <1>1, <1>4 DEF sum
  <2> QED
    BY <2>2, <2>3, <2>4 DEF sum
<1> QED
  BY <1>1, <1>3, <1>4

LEMMA ExactFollows ==
  ASSUME SameDistance, ProgramsPlain
  PROVE  ExactInv => AsmcgocallExact
<1> SUFFICES ASSUME ExactInv, at = "ready", ExecOnly, NEW a \in 0..(Space - 1)
             PROVE  InAsmcgocall(a) <=> a \in AsmAddresses
  BY DEF AsmcgocallExact, ExecOnly
<1>1. /\ IInv /\ Mapped /\ Loaded /\ Based /\ searched = Len(array)
      /\ (\A k \in 1..searched : AsmSymbols(array[k]) = {}) => asmcgocall_bounds = {}
      /\ \A k \in 1..searched : AsmSymbols(array[k]) # {} =>
           /\ asmcgocall_bounds = {Moved(StartOf(array[k].file), AsmOf(array[k].file))}
           /\ asmcgocall_base = StartOf(array[k].file)
  BY DEF ExactInv, Searched, IInv, Base
<1>2. DOMAIN array = 1..searched
  BY <1>1 DEF IInv, Base, Built
<1>3. \A l \in AsmLoads : l \in loads /\ l.file \in Programs /\ l.bias = 0
  <2> SUFFICES ASSUME NEW l \in AsmLoads
               PROVE  l \in loads /\ l.file \in Programs /\ l.bias = 0
    OBVIOUS
  <2>1. l \in loads /\ Asmcgocall(l.file) # {} /\ Files[l.file].type = "exec"
    BY DEF AsmLoads, ExecOnly
  <2> QED
    BY <1>1, <2>1 DEF Loaded, Programs
<1>4. CASE \A k \in 1..searched : AsmSymbols(array[k]) = {}
  <2>1. ~InAsmcgocall(a)
    BY <1>1, <1>4 DEF InAsmcgocall
  <2>2. ASSUME NEW l \in AsmLoads PROVE FALSE
    <3>1. PICK k \in LibrariesWithSymbols(l.file) : TRUE
      BY DEF AsmLoads
    <3>2. k \in DOMAIN array /\ {b.name : b \in array[k].blobs} = SymbolNames(l.file)
      BY DEF LibrariesWithSymbols
    <3>3. \E n \in SymbolNames(l.file) : n \in AsmNames
      BY <1>3, AsmNamed DEF Programs
    <3>4. \E b \in array[k].blobs : b.name \in AsmNames
      BY <3>2, <3>3
    <3> QED
      BY <1>2, <1>4, <3>2, <3>4, AsmNamed
  <2> QED
    BY <2>1, <2>2 DEF AsmAddresses
<1>5. CASE \E k \in 1..searched : AsmSymbols(array[k]) # {}
  <2>1. PICK k \in DOMAIN array : AsmSymbols(array[k]) # {}
    BY <1>2, <1>5
  <2> DEFINE f == array[k].file
             b == AsmOf(f)
             base == StartOf(f)
  <2>2. f \in Programs /\ \E l \in AsmLoads : l.file = f
    BY <1>1, <2>1, AsmLibrary
  <2>3. asmcgocall_bounds = {Moved(base, b)} /\ asmcgocall_base = base
    BY <1>1, <1>2, <2>1
  <2>4. /\ Asmcgocall(f) = {b} /\ base \in Nat /\ b.start \in Nat /\ b.end \in Nat
        /\ base + b.end < Space
    BY <2>2, AsmRight
  <2>5. AsmAddresses = b.start..b.end
    <3>1. PICK l \in AsmLoads : l.file = f
      BY <2>2
    <3>2. AsmLoads = {l}
      BY <1>1, <1>3, <3>1, OneProgram
    <3>3. l.bias = 0
      BY <1>3
    <3> HIDE DEF b, f
    <3>4. AsmAddresses = UNION {(0 + c.start)..(0 + c.end) : c \in {b}}
      BY <2>4, <3>1, <3>2, <3>3 DEF AsmAddresses
    <3>5. 0 + b.start = b.start /\ 0 + b.end = b.end
      BY <2>4
    <3> QED
      BY <3>4, <3>5
  <2> HIDE DEF b, base
  <2>6. Moved(base, b).start = base + b.start /\ Moved(base, b).end = base + b.end
    BY DEF Moved
  <2>7. InAsmcgocall(a) <=>
          base + b.start <= (a + base) % Space /\ (a + base) % Space <= base + b.end
    BY <2>3, <2>6 DEF InAsmcgocall
  <2> QED
    BY <2>4, <2>5, <2>7, WrappedRange
<1> QED
  BY <1>4, <1>5

LEMMA ExactInvariance ==
  ASSUME SameDistance, ProgramsPlain
  PROVE  Spec => []ExactInv
<1>1. Init => ExactInv
  BY InitExact
<1>2. ExactInv /\ [Next]_vars => ExactInv'
  BY StepExact
<1> QED
  BY <1>1, <1>2, PTL DEF Spec

\* In a program at a fixed address exactly the addresses of asmcgocall end a
\* stack, however it and its libraries are mapped and wherever the array ends:
\* the base in the bounds and the base added to an address are the same
\* (cgotraceback.cpp:29-48 and 104-115, symbols_linux.cpp:534).
THEOREM BoundsExact ==
  ASSUME SameDistance, ProgramsPlain
  PROVE  Spec => []AsmcgocallExact
<1>1. Spec => []ExactInv
  BY ExactInvariance
<1>2. ExactInv => AsmcgocallExact
  BY ExactFollows
<1> QED
  BY <1>1, <1>2, PTL
=============================================================================

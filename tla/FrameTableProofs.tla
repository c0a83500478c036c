--------------------------- MODULE FrameTableProofs ---------------------------
(***************************************************************************)
(* Proofs about FrameTable, for images, unwinding programs and tables of   *)
(* any size: TypeCorrect, TablesSorted, TablesFit, FoundFloor and          *)
(* LookupsSound.                                                           *)
(*                                                                         *)
(* The inductive invariant says how far the table has got (its last record *)
(* is not behind the present location), which rule each address is given   *)
(* by the records (Covered) and what the bounds of a search mean.          *)
(* AddRecordEffect says once what addRecord does to the table; everything  *)
(* about the parser follows from it.                                       *)
(***************************************************************************)
EXTENDS FrameTable, TLAPS, SequenceTheorems

\* The last record is not behind the location the parser is at.
Placed ==
  /\ table # << >> => Last.loc <= loc
  /\ pc = "insn" => loc < loc_end
  /\ pc # "insn" => loc = loc_end

\* from and to lie in one function and to is its end.
InFunction(from, to) ==
  \E s \in spans : s[1] \in Nat /\ s[1] <= from /\ from <= to /\ to = s[2]

\* A record lies in a function and carries the end of it.
Spanned == \A i \in 1..Len(table) : InFunction(table[i].loc, table[i].loc_end)

\* So do the present location and the end the parser works with.
Inside == pc \in {"insn", "end"} => InFunction(loc, loc_end)

\* One record, at or before q, gives the rule of q, up to the end of q.
Recorded(q) ==
  \E i \in 1..Len(table) :
    /\ table[i].loc <= q.from
    /\ table[i].cfa = q.cfa /\ table[i].fp_off = q.fp_off
    /\ \A j \in 1..Len(table) : i < j => q.to <= table[j].loc

Covered ==
  \A q \in rows : /\ q.from \in Nat /\ q.to \in Nat
                  /\ q.from < q.to /\ q.to <= loc
                  /\ Recorded(q)

\* The records outside of low + 1 .. high + 1 are before or behind the target.
Searching ==
  pc = "search" =>
    /\ low <= high + 1
    /\ \A i \in 1..Len(table) :
         /\ i <= low => table[i].loc < target
         /\ high + 1 < i => target < table[i].loc

\* Nothing was looked up while the table is built.
Unasked == pc \in {"fde", "insn", "end"} => result = NULL

\* The function the parser is in is not counted yet.
Counted == pc \in {"insn", "end"} => parsed < MaxFdes

IInv == /\ TypeOK /\ TableSorted /\ TableFits
        /\ Placed /\ Spanned /\ Inside /\ Covered
        /\ Counted /\ Unasked /\ Searching /\ FoundIsFloor
-----------------------------------------------------------------------------
LEMMA PackInt ==
  ASSUME NEW reg \in 0..255, NEW off \in Int
  PROVE  Pack(reg, off) \in Int
BY DEF Pack

LEMMA EntryRegsType == EntryRegs \in Regs /\ NoRegs \in Regs
BY DEF EntryRegs, NoRegs, Regs, DW_REG_SP, DW_STACK_SLOT, DW_SAME_FP

\* addRecord leaves the table alone, replaces its last record or appends one;
\* in the end the last record has the rule given.
LEMMA AddRecordEffect ==
  ASSUME table \in Seq(Record), NEW from \in Nat, NEW to \in Nat, NEW r \in Regs,
         capacity \in Nat \ {0}, Len(table) <= capacity,
         table # << >> => Last.loc <= from,
         AddRecord(from, to, r)
  PROVE  /\ table' \in Seq(Record)
         /\ Len(table') \in Nat \ {0} /\ Len(table') \in {Len(table), Len(table) + 1}
         /\ \A i \in 1..Len(table) : i < Len(table') => table'[i] = table[i]
         /\ table'[Len(table')].loc <= from
         /\ table'[Len(table')].cfa = Pack(r.cfa_reg, r.cfa_off)
         /\ table'[Len(table')].fp_off = r.fp_off
         /\ \/ table' = table
            \/ /\ table'[Len(table')].loc = from /\ table'[Len(table')].loc_end = to
               /\ Len(table') = Len(table) => table[Len(table)].loc = from
               /\ Len(table') > Len(table) => table = << >> \/ Last.loc < from
         /\ capacity' \in Nat \ {0} /\ Len(table') <= capacity'
<1> DEFINE new == [loc |-> from, loc_end |-> to,
                   cfa |-> Pack(r.cfa_reg, r.cfa_off), fp_off |-> r.fp_off]
           again == table # << >> /\ Last.loc = from
           same == table # << >> /\ Last.cfa = new.cfa /\ Last.fp_off = new.fp_off
<1>1. new \in Record
  <2>1. r.cfa_reg \in 0..255 /\ r.cfa_off \in Int /\ r.fp_off \in Int
    BY DEF Regs
  <2> QED
    BY <2>1, PackInt DEF Record
<1>2. /\ Len(table) \in Nat
      /\ table # << >> => Len(table) \in 1..Len(table) /\ Last \in Record
  BY LenProperties, EmptySeq, ElementOfSeq DEF Last
<1>3. /\ new.loc = from /\ new.loc_end = to
      /\ new.cfa = Pack(r.cfa_reg, r.cfa_off) /\ new.fp_off = r.fp_off
  OBVIOUS
<1>4. \/ /\ again
         /\ table' = [table EXCEPT ![Len(table)] = new]
         /\ UNCHANGED capacity
      \/ /\ ~again /\ ~same
         /\ table' = Append(table, new)
         /\ capacity' = IF Len(table) >= capacity THEN 2 * capacity ELSE capacity
      \/ /\ ~again /\ same
         /\ UNCHANGED <<table, capacity>>
  BY DEF AddRecord
<1> HIDE DEF new
<1>5. CASE again /\ table' = [table EXCEPT ![Len(table)] = new] /\ UNCHANGED capacity
  <2>1. /\ table' \in Seq(Record) /\ Len(table') = Len(table)
        /\ \A j \in 1..Len(table) : table'[j] = IF j = Len(table) THEN new ELSE table[j]
    BY <1>1, <1>2, <1>5, ExceptSeq
  <2>2. table'[Len(table)] = new /\ table[Len(table)].loc = from
    BY <1>2, <1>5, <2>1 DEF Last
  <2>3. Len(table) \in Nat \ {0} /\ capacity' = capacity
    BY <1>2, <1>5
  <2>4. \A i \in 1..Len(table) : i < Len(table) => table'[i] = table[i]
    BY <1>2, <2>1
  <2> QED
    BY <1>3, <2>1, <2>2, <2>3, <2>4
<1>6. CASE /\ ~again /\ ~same
           /\ table' = Append(table, new)
           /\ capacity' = IF Len(table) >= capacity THEN 2 * capacity ELSE capacity
  <2>1. /\ table' \in Seq(Record) /\ Len(table') = Len(table) + 1
        /\ \A j \in 1..Len(table) : table'[j] = table[j]
        /\ table'[Len(table) + 1] = new
    BY <1>1, <1>6, AppendProperties
  <2>2. table = << >> \/ Last.loc < from
    BY <1>2, <1>6 DEF Record
  <2>3. capacity' \in Nat \ {0} /\ Len(table) + 1 <= capacity'
    BY <1>2, <1>6
  <2> QED
    BY <1>2, <1>3, <2>1, <2>2, <2>3
<1>7. CASE ~again /\ same /\ UNCHANGED <<table, capacity>>
  BY <1>2, <1>3, <1>7 DEF Last
<1> QED
  BY <1>4, <1>5, <1>6, <1>7

\* A record at the present location keeps what holds of the table, and gives
\* the rule for what follows.
LEMMA RecordKeeps ==
  ASSUME IInv, NEW r \in Regs, AddRecord(loc, loc_end, r),
         InFunction(loc, loc_end), spans' = spans
  PROVE  /\ table' \in Seq(Record) /\ capacity' \in Nat \ {0}
         /\ Len(table) <= Len(table')
         /\ TableSorted' /\ TableFits' /\ Spanned'
         /\ table' # << >> /\ table'[Len(table')].loc <= loc
         /\ \A q \in rows : Recorded(q)'
         /\ \A q : /\ q.from = loc /\ q.fp_off = r.fp_off
                   /\ q.cfa = Pack(r.cfa_reg, r.cfa_off)
                   => Recorded(q)'
<1> DEFINE n == Len(table')
<1>1. /\ table \in Seq(Record) /\ capacity \in Nat \ {0}
      /\ loc \in Nat /\ loc_end \in Nat /\ Len(table) \in Nat
      /\ \A i \in 1..Len(table) : table[i] \in Record /\ table[i].loc \in Nat
      /\ Len(table) <= capacity
      /\ table # << >> => Last.loc <= loc
  <2>1. table \in Seq(Record)
    BY DEF IInv, TypeOK
  <2>2. \A i \in 1..Len(table) : table[i] \in Record
    BY <2>1, ElementOfSeq
  <2>3. loc \in Nat /\ loc_end \in Nat /\ capacity \in Nat \ {0}
    BY BoundsAssumption DEF IInv, TypeOK
  <2> QED
    BY <2>1, <2>2, <2>3, LenProperties DEF IInv, TableFits, Placed, Record
<1>2. /\ table' \in Seq(Record)
      /\ n \in Nat \ {0} /\ n \in {Len(table), Len(table) + 1}
      /\ \A i \in 1..Len(table) : i < n => table'[i] = table[i]
      /\ table'[n].loc <= loc
      /\ table'[n].cfa = Pack(r.cfa_reg, r.cfa_off)
      /\ table'[n].fp_off = r.fp_off
      /\ \/ table' = table
         \/ /\ table'[n].loc = loc /\ table'[n].loc_end = loc_end
            /\ n = Len(table) => table[n].loc = loc
            /\ n > Len(table) => table = << >> \/ Last.loc < loc
      /\ capacity' \in Nat \ {0} /\ n <= capacity'
  BY <1>1, AddRecordEffect
<1>3. table' # << >>
  BY <1>2, EmptySeq
<1>4. \A i \in 1..n : i < n => i \in 1..Len(table) /\ table'[i] = table[i]
  BY <1>1, <1>2
<1>5. \A i, j \in 1..Len(table) : i < j => table[i].loc < table[j].loc
  BY DEF IInv, TableSorted
<1>6. ASSUME NEW i \in 1..Len(table)
      PROVE  table[i].loc <= Last.loc /\ Last.loc \in Nat
  <2>1. Len(table) \in 1..Len(table)
    BY <1>1
  <2> QED
    BY <1>1, <1>5, <2>1 DEF Last
<1>7. table' # table => \A i \in 1..n : i < n => table[i].loc < loc
  <2> SUFFICES ASSUME table' # table, NEW i \in 1..n, i < n
               PROVE  table[i].loc < loc
    OBVIOUS
  <2>1. i \in 1..Len(table)
    BY <1>4
  <2>2. CASE n = Len(table)
    BY <1>2, <1>5, <2>1, <2>2
  <2>3. CASE n = Len(table) + 1
    <3>1. table # << >>
      BY <2>1, EmptySeq, <1>1
    <3>2. Last.loc < loc
      BY <1>1, <1>2, <2>3, <3>1
    <3> QED
      BY <1>1, <1>6, <2>1, <3>2
  <2> QED
    BY <1>2, <2>2, <2>3
<1> HIDE DEF n
<1>8. TableSorted'
  <2>1. CASE table' = table
    BY <2>1, <1>5 DEF TableSorted
  <2>2. CASE table' # table
    <3> SUFFICES ASSUME NEW i \in 1..n, NEW j \in 1..n, i < j
                 PROVE  table'[i].loc < table'[j].loc
      BY DEF TableSorted, n
    <3>1. i < n /\ table'[i] = table[i] /\ i \in 1..Len(table)
      BY <1>2, <1>4
    <3>2. CASE j = n
      BY <1>2, <1>7, <2>2, <3>1, <3>2
    <3>3. CASE j < n
      BY <1>2, <1>4, <1>5, <3>1, <3>3
    <3> QED
      BY <1>2, <3>2, <3>3
  <2> QED
    BY <2>1, <2>2
<1>9. Spanned'
  <2> SUFFICES ASSUME NEW i \in 1..n
               PROVE  InFunction(table'[i].loc, table'[i].loc_end)
    BY DEF Spanned, InFunction, n
  <2>1. CASE i < n \/ table' = table
    BY <1>4, <2>1 DEF IInv, Spanned, n
  <2>2. CASE i = n /\ table' # table
    BY <1>2, <2>2
  <2> QED
    BY <1>2, <2>1, <2>2
<1>10. ASSUME NEW q \in rows
       PROVE  Recorded(q)'
  <2>1. CASE table' = table
    BY <2>1 DEF IInv, Covered, Recorded
  <2>2. CASE table' # table
    <3>1. q.from \in Nat /\ q.to \in Nat /\ q.from < q.to /\ q.to <= loc
      BY DEF IInv, Covered
    <3>2. PICK i \in 1..Len(table) :
                 /\ table[i].loc <= q.from
                 /\ table[i].cfa = q.cfa /\ table[i].fp_off = q.fp_off
                 /\ \A j \in 1..Len(table) : i < j => q.to <= table[j].loc
      BY DEF IInv, Covered, Recorded
    <3>3. i < n
      <4> SUFFICES ASSUME i = n, n = Len(table) PROVE FALSE
        BY <1>1, <1>2
      <4>1. table[n].loc = loc
        BY <1>2, <2>2
      <4> QED
        BY <1>1, <3>1, <3>2, <4>1
    <3>4. i \in 1..n /\ table'[i] = table[i]
      BY <1>2, <1>4, <3>3
    <3>5. ASSUME NEW j \in 1..n, i < j
          PROVE  q.to <= table'[j].loc
      <4>1. CASE j = n
        BY <1>2, <2>2, <3>1, <4>1
      <4>2. CASE j < n
        BY <1>4, <3>2, <3>5, <4>2
      <4> QED
        BY <1>2, <4>1, <4>2
    <3> QED
      BY <3>2, <3>4, <3>5 DEF Recorded, n
  <2> QED
    BY <2>1, <2>2
<1>11. ASSUME NEW q, q.from = loc, q.fp_off = r.fp_off, q.cfa = Pack(r.cfa_reg, r.cfa_off)
       PROVE  Recorded(q)'
  <2>1. n \in 1..n /\ \A j \in 1..n : ~(n < j)
    BY <1>2
  <2> QED
    BY <1>2, <1>11, <2>1 DEF Recorded, n
<1> QED
  BY <1>1, <1>2, <1>3, <1>8, <1>9, <1>10, <1>11 DEF TableFits, n
-----------------------------------------------------------------------------
(* Every step keeps the invariant.                                           *)

\* A step of the parser that does not touch the table, and the locations only
\* forwards.
LEMMA QuietParse ==
  ASSUME IInv, UNCHANGED <<table, capacity, rows, search>>,
         pc \in {"fde", "insn", "end"}, pc' \in {"fde", "insn", "end", "ready"},
         spans \subseteq spans',
         parsed' \in 0..MaxFdes, loc' \in 0..MaxLoc, loc_end' \in 0..MaxLoc,
         regs' \in Regs, rem' \in Regs,
         loc <= loc', Inside', Counted',
         pc' = "insn" => loc' < loc_end',
         pc' # "insn" => loc' = loc_end'
  PROVE  IInv'
<1>1. TypeOK'
  BY DEF IInv, TypeOK, search
<1>2. TableSorted' /\ TableFits' /\ Unasked' /\ Searching' /\ FoundIsFloor'
  BY DEF IInv, TableSorted, TableFits, Unasked, Searching, FoundIsFloor, search
<1>3. Spanned'
  BY DEF IInv, Spanned, InFunction
<1>4. loc \in Nat /\ loc' \in Nat
  BY BoundsAssumption DEF IInv, TypeOK
<1>5. Placed'
  <2> SUFFICES ASSUME table # << >>
               PROVE  Last.loc <= loc'
    BY DEF Placed, Last
  <2>1. Last.loc \in Nat
    <3>1. table \in Seq(Record)
      BY DEF IInv, TypeOK
    <3>2. Len(table) \in 1..Len(table)
      BY <3>1, EmptySeq
    <3>3. Last \in Record
      BY <3>1, <3>2, ElementOfSeq DEF Last
    <3> QED
      BY <3>3 DEF Record
  <2> QED
    BY <1>4, <2>1 DEF IInv, Placed
<1>6. Covered'
  <2> SUFFICES ASSUME NEW q \in rows
               PROVE  /\ q.from \in Nat /\ q.to \in Nat
                      /\ q.from < q.to /\ q.to <= loc'
                      /\ Recorded(q)'
    BY DEF Covered
  <2>1. /\ q.from \in Nat /\ q.to \in Nat
        /\ q.from < q.to /\ q.to <= loc
        /\ Recorded(q)
    BY DEF IInv, Covered
  <2> QED
    BY <1>4, <2>1 DEF Recorded
<1> QED
  BY <1>1, <1>2, <1>3, <1>5, <1>6 DEF IInv

LEMMA ParseFdeKeeps ==
  ASSUME IInv, NEW start \in 0..MaxLoc, NEW len \in 0..MaxLoc, ParseFde(start, len)
  PROVE  IInv'
<1>1. /\ pc = "fde" /\ pc' = "insn" /\ loc' = start /\ loc_end' = start + len
      /\ len > 0 /\ loc_end <= start /\ start + len <= MaxLoc
      /\ spans' = spans \cup {<<start, start + len>>}
      /\ regs' = EntryRegs /\ rem' = NoRegs
      /\ UNCHANGED <<parsed, table, capacity, rows, search>>
  BY DEF ParseFde
<1>2. loc = loc_end
  BY <1>1 DEF IInv, Placed
<1>3. /\ start \in Nat /\ len \in Nat /\ MaxLoc \in Nat
      /\ loc' \in 0..MaxLoc /\ loc_end' \in 0..MaxLoc /\ loc' < loc_end' /\ loc <= loc'
  BY <1>1, <1>2, BoundsAssumption
<1>4. Inside'
  <2> DEFINE s == <<start, start + len>>
  <2>1. s \in spans' /\ s[1] = loc' /\ s[2] = loc_end' /\ s[1] \in Nat
    BY <1>1, <1>3
  <2>2. s[1] <= loc' /\ loc' <= loc_end'
    BY <1>1, <1>3
  <2> QED
    BY <2>1, <2>2 DEF Inside, InFunction
<1>5. parsed' \in 0..MaxFdes
  BY <1>1 DEF IInv, TypeOK
<1>6. Counted'
  BY <1>1 DEF ParseFde, Counted
<1> QED
  BY <1>1, <1>3, <1>4, <1>5, <1>6, EntryRegsType, QuietParse

LEMMA RegsKeep ==
  ASSUME IInv, pc = "insn", regs' \in Regs, rem' \in Regs,
         UNCHANGED <<pc, parsed, table, capacity, loc, loc_end, rows, spans, search>>
  PROVE  IInv'
<1>1. parsed \in 0..MaxFdes /\ loc \in 0..MaxLoc /\ loc_end \in 0..MaxLoc
  BY DEF IInv, TypeOK
<1>2. Inside' /\ Counted' /\ loc <= loc' /\ loc < loc_end
  BY <1>1, SMTT(60) DEF IInv, Inside, InFunction, Counted, Placed
<1> QED
  BY <1>1, <1>2, QuietParse

LEMMA SetRegsType ==
  ASSUME IInv
  PROVE  /\ regs \in Regs /\ rem \in Regs
         /\ \A reg \in 0..255, off \in Int :
              /\ [regs EXCEPT !.cfa_reg = reg] \in Regs
              /\ [regs EXCEPT !.cfa_off = off] \in Regs
              /\ [regs EXCEPT !.fp_off = off] \in Regs
              /\ [regs EXCEPT !.cfa_reg = reg, !.cfa_off = off] \in Regs
BY DEF IInv, TypeOK, Regs

LEMMA InstructionKeeps ==
  ASSUME IInv,
         \/ \E reg \in CfaRegs, off \in CfaOffs : DefCfa(reg, off)
         \/ \E reg \in CfaRegs : DefCfaRegister(reg)
         \/ \E off \in CfaOffs : DefCfaOffset(off)
         \/ \E len \in ExprLens : DefCfaExpression(len)
         \/ \E k \in FpOffs : OffsetFp(k)
         \/ \E off \in PcOffs : ValExpression(off)
         \/ RememberState \/ RestoreState
  PROVE  IInv'
<1>1. ASSUME NEW r \in Regs, SetRegs(r)
      PROVE  IInv'
  BY <1>1, RegsKeep, SetRegsType DEF SetRegs
<1>2. ASSUME NEW reg \in CfaRegs, NEW off \in CfaOffs, DefCfa(reg, off)
      PROVE  IInv'
  BY <1>1, <1>2, SetRegsType, OperandsAssumption DEF DefCfa
<1>3. ASSUME NEW reg \in CfaRegs, DefCfaRegister(reg)
      PROVE  IInv'
  BY <1>1, <1>3, SetRegsType, OperandsAssumption DEF DefCfaRegister
<1>4. ASSUME NEW off \in CfaOffs, DefCfaOffset(off)
      PROVE  IInv'
  <2>1. off \in Int /\ 0 \in 0..255
    BY OperandsAssumption
  <2>2. [regs EXCEPT !.cfa_off = off] \in Regs
    BY <2>1, SetRegsType
  <2> QED
    BY <1>1, <1>4, <2>2 DEF DefCfaOffset
<1>5. ASSUME NEW len \in ExprLens, DefCfaExpression(len)
      PROVE  IInv'
  <2> DEFINE reg == IF len = 11 THEN DW_REG_PLT ELSE DW_REG_INVALID
  <2>1. reg \in 0..255 /\ DW_STACK_SLOT \in Int
    BY DEF DW_REG_PLT, DW_REG_INVALID, DW_STACK_SLOT
  <2>2. SetRegs([regs EXCEPT !.cfa_reg = reg, !.cfa_off = DW_STACK_SLOT])
    BY <1>5 DEF DefCfaExpression
  <2> HIDE DEF reg
  <2>3. [regs EXCEPT !.cfa_reg = reg, !.cfa_off = DW_STACK_SLOT] \in Regs
    BY <2>1, SetRegsType
  <2> QED
    BY <1>1, <2>2, <2>3
<1>6. ASSUME NEW k \in FpOffs, OffsetFp(k)
      PROVE  IInv'
  <2>1. k * DataAlign \in Int /\ 0 \in 0..255
    BY OperandsAssumption
  <2>2. [regs EXCEPT !.fp_off = k * DataAlign] \in Regs
    BY <2>1, SetRegsType
  <2> QED
    BY <1>1, <1>6, <2>2 DEF OffsetFp
<1>7. ASSUME NEW off \in PcOffs, ValExpression(off)
      PROVE  IInv'
  <2>1. 2 * off + 1 \in Int /\ 0 \in 0..255
    BY OperandsAssumption
  <2>2. [regs EXCEPT !.fp_off = 2 * off + 1] \in Regs /\ regs \in Regs
    BY <2>1, SetRegsType
  <2> QED
    BY <1>1, <1>7, <2>2 DEF ValExpression
<1>8. CASE RememberState
  BY <1>8, RegsKeep, SetRegsType DEF RememberState
<1>9. CASE RestoreState
  BY <1>1, <1>9, SetRegsType DEF RestoreState
<1> QED
  BY <1>2, <1>3, <1>4, <1>5, <1>6, <1>7, <1>8, <1>9

\* A step that records the present rule and moves on, inside the function or
\* to its end.
LEMMA RecordStep ==
  ASSUME IInv, NEW r \in Regs, AddRecord(loc, loc_end, r),
         pc \in {"insn", "end"}, pc' \in {"fde", "insn", "end"},
         UNCHANGED <<loc_end, spans, search>>,
         parsed' \in 0..MaxFdes, regs' \in Regs, rem' \in Regs, Counted',
         loc' \in Nat, loc <= loc',
         pc' = "insn" => loc' < loc_end,
         pc' # "insn" => loc' = loc_end,
         \/ rows' = rows
         \/ rows' = rows \cup Row(loc, loc', r)
  PROVE  IInv'
<1>1. InFunction(loc, loc_end)
  BY DEF IInv, Inside
<1>2. /\ table' \in Seq(Record) /\ capacity' \in Nat \ {0}
      /\ Len(table) <= Len(table')
      /\ TableSorted' /\ TableFits' /\ Spanned'
      /\ table' # << >> /\ table'[Len(table')].loc <= loc
      /\ \A q \in rows : Recorded(q)'
      /\ \A q : /\ q.from = loc /\ q.fp_off = r.fp_off
                /\ q.cfa = Pack(r.cfa_reg, r.cfa_off)
                => Recorded(q)'
  BY <1>1, RecordKeeps
<1>3. /\ loc \in Nat /\ loc_end \in 0..MaxLoc /\ MaxLoc \in Nat
      /\ loc' \in 0..MaxLoc /\ loc' <= loc_end /\ loc_end' = loc_end
  BY BoundsAssumption DEF IInv, TypeOK
<1>4. TypeOK'
  <2>1. Len(table) \in Nat /\ Len(table') \in Nat
    BY <1>2, LenProperties DEF IInv, TypeOK
  <2>2. high' \in -1..(Len(table') - 1) /\ result' \in 0..Len(table')
    BY <1>2, <2>1 DEF IInv, TypeOK, search
  <2>3. target' \in 0..MaxLoc /\ low' \in Nat
    BY DEF IInv, TypeOK, search
  <2> QED
    BY <1>2, <1>3, <2>2, <2>3 DEF TypeOK
<1>5. Placed'
  <2>1. table'[Len(table')].loc \in Nat
    <3>1. Len(table') \in 1..Len(table')
      BY <1>2, EmptySeq
    <3>2. table'[Len(table')] \in Record
      BY <1>2, <3>1, ElementOfSeq
    <3> QED
      BY <3>2 DEF Record
  <2> QED
    BY <1>2, <1>3, <2>1 DEF Placed, Last
<1>6. Inside'
  <2>1. PICK s \in spans : s[1] \in Nat /\ s[1] <= loc /\ loc <= loc_end /\ loc_end = s[2]
    BY <1>1 DEF InFunction
  <2>2. s[1] <= loc'
    BY <1>3, <2>1
  <2> QED
    BY <1>3, <2>1, <2>2 DEF Inside, InFunction
<1>7. Covered'
  <2> SUFFICES ASSUME NEW q \in rows'
               PROVE  /\ q.from \in Nat /\ q.to \in Nat
                      /\ q.from < q.to /\ q.to <= loc'
                      /\ Recorded(q)'
    BY DEF Covered
  <2>1. CASE q \in rows
    <3>1. q.from \in Nat /\ q.to \in Nat /\ q.from < q.to /\ q.to <= loc
      BY <2>1 DEF IInv, Covered
    <3> QED
      BY <1>2, <1>3, <2>1, <3>1
  <2>2. CASE q \in Row(loc, loc', r)
    <3>1. /\ loc < loc'
          /\ q = [from |-> loc, to |-> loc',
                  cfa |-> Pack(r.cfa_reg, r.cfa_off), fp_off |-> r.fp_off]
      BY <2>2 DEF Row
    <3> QED
      BY <1>2, <1>3, <3>1
  <2> QED
    BY <2>1, <2>2
<1>8. Unasked' /\ Searching' /\ FoundIsFloor'
  BY DEF IInv, Unasked, Searching, FoundIsFloor, search
<1> QED
  BY <1>2, <1>4, <1>5, <1>6, <1>7, <1>8 DEF IInv
LEMMA AdvanceKeeps ==
  ASSUME IInv, NEW delta \in Deltas, Advance(delta)
  PROVE  IInv'
<1>1. /\ pc = "insn" /\ loc' = loc + delta * CodeAlign /\ loc' < loc_end
      /\ AddRecord(loc, loc_end, regs)
      /\ rows' = rows \cup Row(loc, loc', regs)
      /\ UNCHANGED <<pc, parsed, loc_end, regs, rem, spans, search>>
  BY DEF Advance
<1>2. loc \in Nat /\ delta * CodeAlign \in Nat
  BY OperandsAssumption, BoundsAssumption DEF IInv, TypeOK
<1>3. loc' \in Nat /\ loc <= loc'
  BY <1>1, <1>2
<1>4. regs \in Regs /\ rem \in Regs /\ parsed \in 0..MaxFdes /\ Counted'
  BY <1>1 DEF IInv, TypeOK, Counted
<1> QED
  BY <1>1, <1>3, <1>4, RecordStep

LEMMA LastRowKeeps ==
  ASSUME IInv, LastRow
  PROVE  IInv'
<1>1. /\ pc = "insn" /\ pc' = "end" /\ loc' = loc_end
      /\ AddRecord(loc, loc_end, regs)
      /\ rows' = rows \cup Row(loc, loc_end, regs)
      /\ regs' = EntryRegs /\ rem' = NoRegs
      /\ UNCHANGED <<parsed, loc_end, spans, search>>
  BY DEF LastRow, Return
<1>2. loc \in Nat /\ loc_end \in Nat /\ loc < loc_end
  BY <1>1, BoundsAssumption DEF IInv, TypeOK, Placed
<1>3. regs \in Regs /\ parsed \in 0..MaxFdes /\ Counted'
  BY <1>1 DEF IInv, TypeOK, Counted
<1> QED
  BY <1>1, <1>2, <1>3, EntryRegsType, RecordStep

LEMMA UnknownKeeps ==
  ASSUME IInv, UnknownInstruction
  PROVE  IInv'
<1>1. /\ pc = "insn" /\ pc' = "end" /\ loc' = loc_end
      /\ regs' = EntryRegs /\ rem' = NoRegs
      /\ UNCHANGED <<parsed, loc_end, spans, search, table, capacity, rows>>
  BY DEF UnknownInstruction, Return
<1>2. /\ loc \in Nat /\ loc_end \in 0..MaxLoc /\ loc < loc_end
      /\ parsed \in 0..MaxFdes /\ Counted'
  BY <1>1, BoundsAssumption DEF IInv, TypeOK, Placed, Counted
<1>3. Inside'
  <2>1. PICK s \in spans : s[1] \in Nat /\ s[1] <= loc /\ loc <= loc_end /\ loc_end = s[2]
    BY <1>1 DEF IInv, Inside, InFunction
  <2>2. s \in spans' /\ s[1] <= loc' /\ loc' <= loc_end' /\ loc_end' = s[2]
    BY <1>1, <1>2, <2>1, BoundsAssumption
  <2> QED
    BY <2>1, <2>2 DEF Inside, InFunction
<1>4. loc <= loc' /\ loc' \in 0..MaxLoc /\ loc_end' \in 0..MaxLoc
  BY <1>1, <1>2, BoundsAssumption
<1> QED
  BY <1>1, <1>2, <1>3, <1>4, EntryRegsType, QuietParse

LEMMA EndFdeKeeps ==
  ASSUME IInv, EndFde
  PROVE  IInv'
<1>1. /\ pc = "end" /\ pc' = "fde" /\ parsed' = parsed + 1
      /\ AddRecord(loc_end, loc_end, EntryRegs)
      /\ UNCHANGED <<loc, loc_end, regs, rem, rows, spans, search>>
  BY DEF EndFde
<1>2. loc = loc_end /\ loc \in Nat
  BY <1>1, BoundsAssumption DEF IInv, TypeOK, Placed
<1>3. regs \in Regs /\ rem \in Regs /\ parsed' \in 0..MaxFdes /\ Counted'
  BY <1>1, BoundsAssumption DEF IInv, TypeOK, Counted
<1>4. AddRecord(loc, loc_end, EntryRegs) /\ loc <= loc' /\ loc' \in Nat
  BY <1>1, <1>2
<1> QED
  BY <1>1, <1>2, <1>3, <1>4, EntryRegsType, RecordStep

LEMMA ParsedKeeps ==
  ASSUME IInv, Parsed
  PROVE  IInv'
<1>1. pc = "fde" /\ pc' = "ready" /\ UNCHANGED <<parser, search>>
  BY DEF Parsed
<1>2. TypeOK' /\ Placed' /\ Inside'
  BY <1>1 DEF IInv, TypeOK, Placed, Last, Inside, parser, search
<1>3. TableSorted' /\ TableFits' /\ Spanned' /\ Covered'
  BY <1>1 DEF IInv, TableSorted, TableFits, Spanned, InFunction, Covered, Recorded, parser
<1>4. Counted' /\ Unasked' /\ Searching' /\ FoundIsFloor'
  BY <1>1 DEF IInv, Counted, Unasked, Searching, FoundIsFloor, search
<1> QED
  BY <1>2, <1>3, <1>4 DEF IInv

-----------------------------------------------------------------------------
\* A lookup does not touch the table.
LEMMA LookupStep ==
  ASSUME IInv, UNCHANGED parser,
         pc \in {"ready", "search"}, pc' \in {"ready", "search"},
         target' \in 0..MaxLoc, low' \in Nat,
         high' \in -1..(Len(table) - 1), result' \in 0..Len(table),
         Searching', FoundIsFloor'
  PROVE  IInv'
<1>1. TypeOK' /\ Placed' /\ Inside'
  BY DEF IInv, TypeOK, Placed, Last, Inside, parser
<1>2. TableSorted' /\ TableFits' /\ Spanned' /\ Covered'
  BY DEF IInv, TableSorted, TableFits, Spanned, InFunction, Covered, Recorded, parser
<1>3. Unasked' /\ Counted'
  BY DEF Unasked, Counted
<1> QED
  BY <1>1, <1>2, <1>3 DEF IInv

LEMMA TableTypes ==
  ASSUME IInv
  PROVE  /\ Len(table) \in Nat
         /\ \A i \in 1..Len(table) :
              table[i].loc \in Nat /\ table[i].loc_end \in Nat
              /\ table[i].loc <= table[i].loc_end
<1>1. table \in Seq(Record)
  BY DEF IInv, TypeOK
<1>2. \A i \in 1..Len(table) : table[i] \in Record
  BY <1>1, ElementOfSeq
<1>3. Len(table) \in Nat
  BY <1>1, LenProperties
<1>4. \A i \in 1..Len(table) : table[i].loc <= table[i].loc_end
  BY DEF IInv, Spanned, InFunction
<1> QED
  BY <1>2, <1>3, <1>4 DEF Record

LEMMA FindFrameDescKeeps ==
  ASSUME IInv, NEW t \in 0..MaxLoc, FindFrameDesc(t)
  PROVE  IInv'
<1>1. /\ pc = "ready" /\ pc' = "search" /\ target' = t /\ low' = 0
      /\ high' = Len(table) - 1 /\ result' = NULL /\ UNCHANGED parser
  BY DEF FindFrameDesc
<1>2. /\ Len(table) \in Nat /\ low' \in Nat
      /\ high' \in -1..(Len(table) - 1) /\ result' \in 0..Len(table)
  BY <1>1, TableTypes DEF NULL
<1>3. Searching'
  <2>1. table' = table
    BY <1>1 DEF parser
  <2> QED
    BY <1>1, <1>2, <2>1 DEF Searching
<1>4. FoundIsFloor'
  BY <1>1 DEF FoundIsFloor
<1> QED
  BY <1>1, <1>2, <1>3, <1>4, LookupStep

LEMMA SearchStepKeeps ==
  ASSUME IInv, SearchStep
  PROVE  IInv'
<1> DEFINE mid == (low + high) \div 2
<1>1. /\ pc = "search" /\ low <= high /\ target' = target /\ UNCHANGED parser
      /\ \/ table[mid + 1].loc < target /\ low' = mid + 1 /\ UNCHANGED <<pc, high, result>>
         \/ table[mid + 1].loc > target /\ high' = mid - 1 /\ UNCHANGED <<pc, low, result>>
         \/ /\ table[mid + 1].loc = target /\ result' = mid + 1 /\ pc' = "ready"
            /\ UNCHANGED <<low, high>>
  BY DEF SearchStep
<1>2. /\ low \in Nat /\ high \in -1..(Len(table) - 1) /\ Len(table) \in Nat
      /\ result \in 0..Len(table) /\ target \in 0..MaxLoc /\ target \in Int
  BY TableTypes, BoundsAssumption DEF IInv, TypeOK
<1>3. mid \in Nat /\ low <= mid /\ mid <= high /\ mid + 1 \in 1..Len(table)
  BY <1>1, <1>2
<1>4. table' = table
  BY <1>1 DEF parser
<1>5. \A i, j \in 1..Len(table) : i < j => table[i].loc < table[j].loc
  BY DEF IInv, TableSorted
<1>6. \A i \in 1..Len(table) :
        /\ i <= low => table[i].loc < target
        /\ high + 1 < i => target < table[i].loc
  BY <1>1 DEF IInv, Searching
<1>7. \A i \in 1..Len(table) : table[i].loc \in Nat
  BY TableTypes
<1> HIDE DEF mid
<1>8. CASE table[mid + 1].loc < target /\ low' = mid + 1 /\ UNCHANGED <<pc, high, result>>
  <2>1. low' \in Nat /\ low' <= high' + 1
    BY <1>2, <1>3, <1>8
  <2>2. ASSUME NEW i \in 1..Len(table), i <= mid + 1
        PROVE  table[i].loc < target
    BY <1>2, <1>3, <1>5, <1>7, <1>8, <2>2
  <2>3. Searching'
    BY <1>1, <1>4, <1>6, <1>8, <2>1, <2>2 DEF Searching
  <2>4. FoundIsFloor'
    BY <1>1, <1>8 DEF FoundIsFloor
  <2> QED
    BY <1>1, <1>2, <1>8, <2>1, <2>3, <2>4, LookupStep
<1>9. CASE table[mid + 1].loc > target /\ high' = mid - 1 /\ UNCHANGED <<pc, low, result>>
  <2>1. high' \in -1..(Len(table) - 1) /\ low' <= high' + 1 /\ high' + 1 = mid
    BY <1>2, <1>3, <1>9
  <2>2. ASSUME NEW i \in 1..Len(table), mid < i
        PROVE  target < table[i].loc
    BY <1>2, <1>3, <1>5, <1>7, <1>9, <2>2
  <2>3. Searching'
    BY <1>1, <1>4, <1>6, <1>9, <2>1, <2>2 DEF Searching
  <2>4. FoundIsFloor'
    BY <1>1, <1>9 DEF FoundIsFloor
  <2> QED
    BY <1>1, <1>2, <1>9, <2>1, <2>3, <2>4, LookupStep
<1>10. CASE /\ table[mid + 1].loc = target /\ result' = mid + 1 /\ pc' = "ready"
            /\ UNCHANGED <<low, high>>
  <2>1. Searching'
    BY <1>10 DEF Searching
  <2>2. ASSUME NEW j \in 1..Len(table), table[j].loc <= target
        PROVE  j <= mid + 1
    BY <1>2, <1>3, <1>5, <1>7, <1>10, <2>2
  <2>3. target <= table[mid + 1].loc_end
    BY <1>3, <1>10, TableTypes
  <2>4. FoundIsFloor'
    BY <1>1, <1>2, <1>3, <1>4, <1>10, <2>2, <2>3 DEF FoundIsFloor, IsFloor, Floor
  <2>5. result' \in 0..Len(table)
    BY <1>3, <1>10
  <2> QED
    BY <1>1, <1>2, <1>10, <2>1, <2>4, <2>5, LookupStep
<1> QED
  BY <1>1, <1>8, <1>9, <1>10

LEMMA SearchEndKeeps ==
  ASSUME IInv, SearchEnd
  PROVE  IInv'
<1>1. /\ pc = "search" /\ pc' = "ready" /\ low > high
      /\ result' = IF low <= 0 \/ target > table[low].loc_end THEN NULL ELSE low
      /\ UNCHANGED <<parser, target, low, high>>
  BY DEF SearchEnd
<1>2. /\ low \in Nat /\ high \in -1..(Len(table) - 1) /\ Len(table) \in Nat
      /\ target \in 0..MaxLoc /\ target \in Int
  BY TableTypes, BoundsAssumption DEF IInv, TypeOK
<1>3. low = high + 1 /\ low \in 0..Len(table)
  BY <1>1, <1>2 DEF IInv, Searching
<1>4. \A i \in 1..Len(table) :
        /\ i <= low => table[i].loc < target
        /\ low < i => target < table[i].loc
  BY <1>1, <1>3 DEF IInv, Searching
<1>5. Searching'
  BY <1>1 DEF Searching
<1>6. result' \in 0..Len(table)
  BY <1>1, <1>2, <1>3 DEF NULL
<1>7. table' = table
  BY <1>1 DEF parser
<1>8. FoundIsFloor'
  <2> SUFFICES ASSUME result' # NULL
               PROVE  IsFloor(result)' /\ target <= table[result'].loc_end
    BY <1>1, <1>7 DEF FoundIsFloor
  <2>1. result' = low /\ low \in 1..Len(table) /\ ~(target > table[low].loc_end)
    BY <1>1, <1>2, <1>3
  <2>2. target <= table[low].loc_end
    BY <1>2, <2>1, TableTypes
  <2>3. ASSUME NEW j \in 1..Len(table), table[j].loc <= target
        PROVE  j <= low
    BY <1>2, <1>4, <2>3, TableTypes
  <2>4. table[low].loc <= target
    BY <1>2, <1>4, <2>1, TableTypes
  <2> QED
    BY <1>1, <1>7, <2>1, <2>2, <2>3, <2>4 DEF IsFloor, Floor
<1> QED
  BY <1>1, <1>2, <1>5, <1>6, <1>8, LookupStep
-----------------------------------------------------------------------------
LEMMA InitIInv == Init => IInv
<1> SUFFICES ASSUME Init PROVE IInv
  OBVIOUS
<1>1. TypeOK
  <2>1. table \in Seq(Record) /\ Len(table) = 0
    BY EmptySeq DEF Init
  <2> QED
    BY <2>1, BoundsAssumption, EntryRegsType DEF Init, TypeOK, NULL
<1>2. TableSorted /\ TableFits /\ Placed /\ Spanned
  BY EmptySeq, BoundsAssumption DEF Init, TableSorted, TableFits, Placed, Spanned
<1>3. Inside /\ Covered /\ Counted /\ Unasked /\ Searching /\ FoundIsFloor
  BY DEF Init, Inside, Covered, Counted, Unasked, Searching, FoundIsFloor
<1> QED
  BY <1>1, <1>2, <1>3 DEF IInv

LEMMA StepIInv == IInv /\ [Next]_vars => IInv'
<1> SUFFICES ASSUME IInv, [Next]_vars PROVE IInv'
  OBVIOUS
<1>1. ASSUME NEW start \in 0..MaxLoc, NEW len \in 0..MaxLoc, ParseFde(start, len)
      PROVE  IInv'
  BY <1>1, ParseFdeKeeps
<1>2. CASE Instruction
  <2>1. ASSUME NEW delta \in Deltas, Advance(delta)
        PROVE  IInv'
    BY <2>1, AdvanceKeeps
  <2> QED
    BY <1>2, <2>1, InstructionKeeps DEF Instruction
<1>3. CASE LastRow
  BY <1>3, LastRowKeeps
<1>4. CASE UnknownInstruction
  BY <1>4, UnknownKeeps
<1>5. CASE EndFde
  BY <1>5, EndFdeKeeps
<1>6. CASE Parsed
  BY <1>6, ParsedKeeps
<1>7. CASE Lookup
  BY <1>7, SearchStepKeeps, SearchEndKeeps DEF Lookup
<1>8. ASSUME NEW t \in 0..MaxLoc, FindFrameDesc(t)
      PROVE  IInv'
  BY <1>8, FindFrameDescKeeps
<1>9. CASE UNCHANGED vars
  <2>1. TypeOK' /\ Placed' /\ Inside' /\ Counted' /\ Unasked'
    BY <1>9 DEF IInv, vars, TypeOK, Placed, Last, Inside, InFunction, Counted, Unasked,
                parser, search
  <2>2. TableSorted' /\ TableFits' /\ Spanned' /\ Covered'
    BY <1>9 DEF IInv, vars, TableSorted, TableFits, Spanned, InFunction, Covered,
                Recorded, parser
  <2>3. Searching' /\ FoundIsFloor'
    BY <1>9 DEF IInv, vars, Searching, FoundIsFloor, IsFloor, Floor, parser, search
  <2> QED
    BY <2>1, <2>2, <2>3 DEF IInv
<1> QED
  BY <1>1, <1>2, <1>3, <1>4, <1>5, <1>6, <1>7, <1>8, <1>9 DEF Next, Parse

\* The rule found is the rule of the target: the record that covers the
\* target's range is the last one at or before it.
LEMMA InvariantSound == IInv => LookupSound
<1> SUFFICES ASSUME IInv, pc = "ready", result # NULL
             PROVE  /\ \E s \in spans : s[1] <= target /\ target <= s[2]
                    /\ \A r \in rows : r.from <= target /\ target < r.to =>
                         r.cfa = table[result].cfa /\ r.fp_off = table[result].fp_off
  BY DEF LookupSound
<1>1. /\ result \in 1..Len(table) /\ table[result].loc <= target
      /\ \A j \in 1..Len(table) : table[j].loc <= target => j <= result
      /\ target <= table[result].loc_end
  BY DEF IInv, FoundIsFloor, IsFloor, Floor
<1>2. /\ target \in Nat /\ Len(table) \in Nat
      /\ \A i \in 1..Len(table) : table[i].loc \in Nat /\ table[i].loc_end \in Nat
  BY TableTypes, BoundsAssumption DEF IInv, TypeOK
<1>3. \E s \in spans : s[1] <= target /\ target <= s[2]
  <2>1. PICK s \in spans : /\ s[1] \in Nat /\ s[1] <= table[result].loc
                           /\ table[result].loc_end = s[2]
    BY <1>1 DEF IInv, Spanned, InFunction
  <2>2. s[1] <= target /\ target <= s[2]
    BY <1>1, <1>2, <2>1
  <2> QED
    BY <2>2
<1>4. ASSUME NEW r \in rows, r.from <= target, target < r.to
      PROVE  r.cfa = table[result].cfa /\ r.fp_off = table[result].fp_off
  <2>1. r.from \in Nat /\ r.to \in Nat
    BY DEF IInv, Covered
  <2>2. PICK i \in 1..Len(table) :
               /\ table[i].loc <= r.from
               /\ table[i].cfa = r.cfa /\ table[i].fp_off = r.fp_off
               /\ \A j \in 1..Len(table) : i < j => r.to <= table[j].loc
    BY DEF IInv, Covered, Recorded
  <2>3. i <= result
    BY <1>1, <1>2, <1>4, <2>1, <2>2
  <2>4. ~(i < result)
    BY <1>1, <1>2, <1>4, <2>1, <2>2
  <2>5. i = result
    BY <1>1, <2>3, <2>4
  <2> QED
    BY <2>2, <2>5
<1> QED
  BY <1>3, <1>4

LEMMA Invariance == Spec => []IInv
<1> QED
  BY InitIInv, StepIInv, PTL DEF Spec

\* Every variable of the parser and of a lookup keeps its type; the bounds of
\* a search stay inside the table (codeCache.cpp:211-235).
THEOREM TypeCorrect == Spec => []TypeOK
<1>1. IInv => TypeOK
  BY DEF IInv
<1> QED
  BY <1>1, Invariance, PTL

\* The table is sorted, each location once, whatever the programs do
\* (dwarf.cpp:337-342).
THEOREM TablesSorted == Spec => []TableSorted
<1>1. IInv => TableSorted
  BY DEF IInv
<1> QED
  BY <1>1, Invariance, PTL

\* The table never outgrows its memory (dwarf.cpp:344-350).
THEOREM TablesFit == Spec => []TableFits
<1>1. IInv => TableFits
  BY DEF IInv
<1> QED
  BY <1>1, Invariance, PTL

\* A lookup that finds a record finds the last one at or before the pc, in a
\* table of any size (codeCache.cpp:211-235).
THEOREM FoundFloor == Spec => []FoundIsFloor
<1>1. IInv => FoundIsFloor
  BY DEF IInv
<1> QED
  BY <1>1, Invariance, PTL

\* The rule found is the rule the unwinding program gives at the pc, although
\* records are merged and replaced (dwarf.cpp:337-342, codeCache.cpp:211-235).
THEOREM LookupsSound == Spec => []LookupSound
BY InvariantSound, Invariance, PTL
=============================================================================

----------------------------- MODULE MCPrograms -----------------------------
(***************************************************************************)
(* Programs for TLC: the routines games are made of, over words that carry *)
(* and overflow in every way, with and without interrupts.                 *)
(***************************************************************************)
EXTENDS Programs

MCBase == \h02fb        \* so that the code crosses a page
MCIrqBase == \h9000
MCNmiBase == \ha000

Ins(kind, op, mode, arg) == [kind |-> kind, op |-> op, mode |-> mode, arg |-> arg]
Imm(op, v)  == Ins("read", op, "immediate", v)
At(op, a)   == Ins("read", op, "absolute", a)
AtX(op, a)  == Ins("read", op, "absolute_x", a)
Rmw(op, a)  == Ins("modify", op, "absolute", a)
RmwX(op, a) == Ins("modify", op, "zero_page_x", a)
Acc(op)     == Ins("modify", op, "accumulator", 0)
To(op, a)   == Ins("store", op, "absolute", a)
Do(op)      == Ins("implied", op, "none", 0)
If(op, n)   == Ins("branch", op, "none", n)
Other(op, n) == Ins("other", op, "none", n)

\* Ends a program of n instructions before it.
End(code) == Append(code, Other("jmp", MCBase + Len(code)))

MCIrqRoutine == <<
  Other("pha", 0), Do("txa"), Other("pha", 0), Do("tya"), Other("pha", 0), Do("tsx"),
  AtX("lda", \h104), Imm("and", BMask), If("beq", 2),
  Rmw("inc", \h20), If("bne", 1), Rmw("inc", \h21),
  Other("pla", 0), Do("tay"), Other("pla", 0), Do("tax"), Other("pla", 0), Other("rti", 0) >>
MCNmiRoutine == <<
  Other("pha", 0), Other("php", 0), Do("sec"), Do("sed"), Imm("adc", \h7f), Rmw("inc", \h822),
  Do("clv"), Other("plp", 0), Other("pla", 0), Other("rti", 0) >>

\* Words at $10 and $12, the latter through a mirror; the result at $14.
Add == End(<<Do("clc"), Do("sed"), At("lda", \h10), At("adc", \h1012), To("sta", \h14),
             At("lda", \h11), At("adc", \h1013), To("sta", \h15)>>)
Subtract == End(<<Do("sec"), At("lda", \h10), At("sbc", \h812), To("sta", \h14),
                  At("lda", \h11), At("sbc", \h813), To("sta", \h15)>>)
\* $14: p >= q as numbers; $15: p < q as signed numbers.
Compare16 == End(<<At("lda", \h10), At("cmp", \h12), At("lda", \h11), At("sbc", \h13),
                   Other("php", 0), If("bcc", 1), Rmw("inc", \h14), Other("plp", 0),
                   If("bvc", 1), Imm("eor", \h80), If("bpl", 1), Rmw("inc", \h15)>>)
\* The operand of ROR is $24 + $F0, which wraps in the zero page.
Multiply == End(<<Imm("lda", 0), Imm("ldx", \hf0), Imm("ldy", 8), Rmw("lsr", \h14),
                  If("bcc", 2), Do("clc"), At("adc", \h12),
                  Acc("ror"), RmwX("ror", \h24), Do("dey"), If("bne", -7), To("sta", \h15)>>)
\* A subroutine that keeps the caller's flags, called twice.
Count == End(<<Other("jsr", MCBase + 3), Other("jsr", MCBase + 3), Other("jmp", MCBase + 10),
               Other("php", 0), Do("sei"), Do("sed"), Imm("lda", 0), Rmw("inc", \h14),
               Other("plp", 0), Other("rts", 0)>>)
Breaks == End(<<Do("cli"), Other("brk", 0), Do("nop"), Imm("ldx", 5), Other("brk", 0), Do("nop")>>)
StoreHighAt(op, mode) ==
  End(<<Imm("ldx", 1), Imm("ldy", 3), Ins("store_high", op, mode, \h210)>>)

(* ------------------------------------------------------------------- jobs *)

Regs(a, s, p) == [A |-> a, X |-> 0, Y |-> 0, S |-> s, P |-> Raised(p, RMask), PC |-> MCBase]
Cells(p, q) ==
  [x \in {\h10, \h11, \h12, \h13} |->
     CASE x = \h10 -> Low(p) [] x = \h11 -> p \div 256
       [] x = \h12 -> Low(q) [] x = \h13 -> q \div 256]
Job(name, code, cells, regs, i, n) ==
  [name |-> name, code |-> code, ram |-> cells, regs |-> regs, irqs |-> i, nmis |-> n, arg |-> 0]

Words == {0, 1, \h7f, \hff, \h100, \h7f80, \h7fff, \h8000, \h80ff, \hfffe}
CalmJobs ==
  {Job("add", Add, Cells(p, q), Regs(0, \hff, 0), 0, 0) : p, q \in Words}
  \cup {Job("subtract", Subtract, Cells(p, q), Regs(0, \hff, 0), 0, 0) : p, q \in Words}
  \cup {Job("compare", Compare16, Cells(p, q), Regs(0, \hff, 0), 0, 0) : p, q \in Words}
Factors == {0, 3, \h80, \hff}
Times(m, n, i, k) ==
  Job("multiply", Multiply, Cells(m, n) @@ (\h14 :> m), Regs(0, \hff, 0), i, k)
DisturbedJobs ==
  {Job("add", Add, Cells(p, \h80ff), Regs(0, s, 0), 1, 1) : p \in {1, \h80ff}, s \in {\hff, 1}}
  \cup {Job("subtract", Subtract, Cells(1, 2), Regs(0, 1, CMask), 1, 1)}
  \cup {Job("compare", Compare16, Cells(\h8000, 1), Regs(0, \hff, CMask), 1, 1)}
  \cup {Times(m, n, 0, 0) : m, n \in Factors} \cup {Times(\h93, \hc5, 1, 1)}
  \cup {Job("count", Count, Cells(0, 0), Regs(0, s, p), 1, 1) :
          s \in {\hff, 1}, p \in {0, VMask + CMask, IMask + NMask}}
  \cup {Job("breaks", Breaks, Cells(0, 0), Regs(7, s, p), 1, 2) : s \in {\hff, 1}, p \in {0, IMask}}
Bytes == {0, 1, \h0f, \h40, \h7f, \h80, \hc3, \hff}
OpcodeJobs ==
  {[Job("opcode", End(<< >>), Cells(0, 0), [Regs(a, \hff, p) EXCEPT !.X = x], 0, 0) EXCEPT !.arg = d] :
     a, d \in Bytes, x \in {\h3f, \hf0}, p \in {0, CMask, VMask + NMask}}
StoreJob(op, mode) == Job("store", StoreHighAt(op, mode), Cells(0, 0), Regs(7, \hff, 0), 1, 1)
StoreJobs == {StoreJob("sya", "absolute_x")}
OtherStores == {StoreJob(op, "absolute_y") : op \in {"sxa", "axa", "xas"}}
MCJobs == CalmJobs \cup DisturbedJobs \cup OpcodeJobs \cup StoreJobs \cup OtherStores
=============================================================================

------------------------------ MODULE Programs ------------------------------
(***************************************************************************)
(* A CPU that runs a program out of ROM, instruction by instruction, with  *)
(* RAM behind the bus and interrupts between any two instructions. What    *)
(* cuts into the cycles of an instruction is CpuInterrupts; here it is     *)
(* what a game computes. An instruction is a record, op, mode and arg, and *)
(* stands at one address.                                                  *)
(***************************************************************************)
EXTENDS Instructions, Bus, Sequences, TLC

CONSTANTS
  Jobs,         \* [name, code, ram, regs, irqs, nmis]: what is run, from what state
  Base,         \* where the code of a job begins
  IrqRoutine,   \* the handler of IRQ and BRK, and
  NmiRoutine,   \* that of NMI, as sequences of instructions
  IrqBase, NmiBase,
  BrkCell, IrqCell, NmiCell     \* where the handlers count what they are run for

ASSUME LayoutAssumption ==
  /\ Base \in Nat /\ IrqBase \in Nat /\ NmiBase \in Nat
  /\ Base < IrqBase /\ IrqBase < NmiBase /\ Base < \hffff

\* A job named "opcode" is a state of the CPU and an operand, not a program: it
\* stands still, and UnofficialAreTwo is asked of it.
ASSUME OpcodeJobsAssumption ==
  \A j \in Jobs : j.name = "opcode" =>
    /\ j.regs \in [A : 0..255, X : 0..255, Y : 0..255, S : 0..255, P : 0..255, PC : {Base}]
    /\ j.arg \in 0..255
    /\ j.code[1].kind = "other" /\ j.code[1].op = "jmp" /\ j.code[1].arg = Base
    /\ j.irqs = 0 /\ j.nmis = 0

VARIABLES
  job,
  cpu,          \* [A, X, Y, S, P, PC]
  ram,          \* the cells that were written; the others are 0 (trash_ram)
  irqs, nmis,   \* interrupts still to come
  taken,        \* history: the CPU at each interrupt that is being handled
  served        \* history: how often each vector was taken, and for what

progVars == <<job, cpu, ram, irqs, nmis, taken, served>>

(* ----------------------------------------------------------------- memory *)

Peek(a) == IF RamCell(a) \in DOMAIN ram THEN ram[RamCell(a)] ELSE 0
Poke(r, a, v) == [x \in DOMAIN r \cup {RamCell(a)} |-> IF x = RamCell(a) THEN v ELSE r[x]]

\* S wraps in its byte: the stack stays in its page.
Stack(s) == \h100 + Low(s)

\* PCH, PCL and P, with or without B.
PushState(c, p) ==
  Poke(Poke(Poke(ram, Stack(c.S), c.PC \div 256), Stack(c.S - 1), Low(c.PC)),
       Stack(c.S - 2), p)
Enter(c, base) ==
  [c EXCEPT !.S = Low(@ - 3), !.P = Raised(@, IMask), !.PC = base]

(* ----------------------------------------------------------- instructions *)

Code(a) ==
  CASE a >= NmiBase -> NmiRoutine[1 + a - NmiBase]
    [] a >= IrqBase /\ a < NmiBase -> IrqRoutine[1 + a - IrqBase]
    [] OTHER -> job.code[1 + a - Base]

Read(op, c, d) ==
  CASE op = "adc" -> Adc(c, d)   [] op = "sbc" -> Sbc(c, d)   [] op = "cmp" -> Cmp(c, d)
    [] op = "cpx" -> Cpx(c, d)   [] op = "cpy" -> Cpy(c, d)   [] op = "and" -> AndA(c, d)
    [] op = "ora" -> OraA(c, d)  [] op = "eor" -> EorA(c, d)  [] op = "bit" -> BitA(c, d)
    [] op = "lda" -> Lda(c, d)   [] op = "ldx" -> Ldx(c, d)   [] op = "ldy" -> Ldy(c, d)
Modify(op, c, d) ==
  CASE op = "inc" -> Inc(c, d)   [] op = "dec" -> Dec(c, d)   [] op = "asl" -> Asl(c, d)
    [] op = "lsr" -> Lsr(c, d)   [] op = "rol" -> Rol(c, d)   [] op = "ror" -> Ror(c, d)
    [] op = "rra" -> Rra(c, d)   [] op = "isc" -> Isc(c, d)   [] op = "dcp" -> Dcp(c, d)
Store(op, c) ==
  CASE op = "sta" -> Sta(c)  [] op = "stx" -> Stx(c)  [] op = "sty" -> Sty(c)
StoreHigh(op, c, address) ==
  CASE op = "axa" -> Axa(c, address)  [] op = "sxa" -> Sxa(c, address)
    [] op = "sya" -> Sya(c, address)  [] op = "xas" -> Xas(c, address)
Implied(op, c) ==
  CASE op = "tax" -> Tax(c)  [] op = "tay" -> Tay(c)  [] op = "txa" -> Txa(c)
    [] op = "tya" -> Tya(c)  [] op = "tsx" -> Tsx(c)  [] op = "txs" -> Txs(c)
    [] op = "inx" -> Inx(c)  [] op = "iny" -> Iny(c)  [] op = "dex" -> Dex(c)
    [] op = "dey" -> Dey(c)  [] op = "clc" -> Clc(c)  [] op = "sec" -> Sec(c)
    [] op = "cli" -> Cli(c)  [] op = "sei" -> Sei(c)  [] op = "cld" -> Cld(c)
    [] op = "sed" -> Sed(c)  [] op = "clv" -> Clv(c)  [] op = "nop" -> Nop(c)
Branches(op, c) ==
  CASE op = "bcc" -> Bcc(c)  [] op = "bcs" -> Bcs(c)  [] op = "bne" -> Bne(c)
    [] op = "beq" -> Beq(c)  [] op = "bpl" -> Bpl(c)  [] op = "bmi" -> Bmi(c)
    [] op = "bvc" -> Bvc(c)  [] op = "bvs" -> Bvs(c)

(* -------------------------------------------------------- addressing modes *)

Address(i, c) ==
  CASE i.mode = "absolute" -> i.arg
    [] i.mode = "absolute_x" -> Word(i.arg + c.X)
    [] i.mode = "absolute_y" -> Word(i.arg + c.Y)
    [] i.mode = "zero_page_x" -> Low(i.arg + c.X)

Next1(c) == [c EXCEPT !.PC = Word(@ + 1)]

ReadStep(i, c) ==
  /\ cpu' = Read(i.op, c, IF i.mode = "immediate" THEN i.arg ELSE Peek(Address(i, c)))
  /\ UNCHANGED ram
ModifyStep(i, c) ==
  IF i.mode = "accumulator"
  THEN LET m == Modify(i.op, c, c.A)
       IN  cpu' = [m.cpu EXCEPT !.A = m.byte] /\ UNCHANGED ram
  ELSE LET m == Modify(i.op, c, Peek(Address(i, c)))
       IN  cpu' = m.cpu /\ ram' = Poke(ram, Address(i, c), m.byte)
StoreStep(i, c) == cpu' = c /\ ram' = Poke(ram, Address(i, c), Store(i.op, c))
StoreHighStep(i, c) ==
  LET s == StoreHigh(i.op, c, Address(i, c))
  IN  cpu' = s.cpu /\ ram' = Poke(ram, s.address, s.byte)

\* The stack: php and pha, plp and pla.
Push(c, v) == cpu' = [c EXCEPT !.S = Low(@ - 1)] /\ ram' = Poke(ram, Stack(c.S), v)

\* A mutant: the stack pointer counts up behind the read.
PullAfterwards(op, c) ==
  /\ cpu' = [(IF op = "pla" THEN Pla(c, Peek(Stack(c.S))) ELSE Plp(c, Peek(Stack(c.S))))
               EXCEPT !.S = Low(@ + 1)]
  /\ UNCHANGED ram

Pull(op, c) ==
  LET up == [c EXCEPT !.S = Low(@ + 1)]
      v == Peek(Stack(up.S))
  IN  cpu' = (IF op = "pla" THEN Pla(up, v) ELSE Plp(up, v)) /\ UNCHANGED ram

\* JSR pushes the address of its last byte, and RTS adds one.
Jsr(i) ==
  /\ ram' = Poke(Poke(ram, Stack(cpu.S), cpu.PC \div 256), Stack(cpu.S - 1), Low(cpu.PC))
  /\ cpu' = [cpu EXCEPT !.S = Low(@ - 2), !.PC = i.arg]
Rts ==
  /\ cpu' = [cpu EXCEPT !.S = Low(@ + 2),
       !.PC = Word((256 * Peek(Stack(cpu.S + 2))) + Peek(Stack(cpu.S + 1)) + 1)]
  /\ UNCHANGED ram

(* ---------------------------------------------------------------- actions *)

Quiet == UNCHANGED <<job, irqs, nmis, taken, served>>

Plain ==
  LET i == Code(cpu.PC)
      c == Next1(cpu)
  IN  /\ \/ i.kind = "read" /\ ReadStep(i, c)
         \/ i.kind = "modify" /\ ModifyStep(i, c)
         \/ i.kind = "store" /\ StoreStep(i, c)
         \/ i.kind = "store_high" /\ StoreHighStep(i, c)
         \/ i.kind = "implied" /\ cpu' = Implied(i.op, c) /\ UNCHANGED ram
         \/ i.kind = "branch" /\ UNCHANGED ram
            /\ cpu' = [c EXCEPT !.PC = IF Branches(i.op, c) THEN Word(@ + i.arg) ELSE @]
         \/ i.op = "pha" /\ Push(c, Pha(c))
         \/ i.op = "php" /\ Push(c, Php(c))
         \/ i.op \in {"pla", "plp"} /\ Pull(i.op, c)
         \/ i.op = "jsr" /\ Jsr(i)
         \/ i.op = "rts" /\ Rts
         \/ i.op = "jmp" /\ cpu' = [c EXCEPT !.PC = i.arg] /\ UNCHANGED ram
      /\ Quiet

\* A mutant: the B bit that BRK pushed is pulled.
RtiKeepsB ==
  /\ Code(cpu.PC).op = "rti"
  /\ cpu' = [cpu EXCEPT
       !.S = Low(@ + 3), !.P = Raised(Peek(Stack(cpu.S + 1)), RMask),
       !.PC = (256 * Peek(Stack(cpu.S + 3))) + Peek(Stack(cpu.S + 2))]
  /\ taken' = SubSeq(taken, 1, Len(taken) - 1)
  /\ UNCHANGED <<job, ram, irqs, nmis, served>>

Rti ==
  /\ Code(cpu.PC).op = "rti"
  /\ LET p == Peek(Stack(cpu.S + 1))
     IN  cpu' = [cpu EXCEPT
           !.S = Low(@ + 3), !.P = Raised(Cleared(p, BMask), RMask),
           !.PC = (256 * Peek(Stack(cpu.S + 3))) + Peek(Stack(cpu.S + 2))]
  /\ taken' = SubSeq(taken, 1, Len(taken) - 1)
  /\ UNCHANGED <<job, ram, irqs, nmis, served>>

\* The state pushed is p; back is where the handler has to return to.
Vector(why, base, p, back) ==
  /\ ram' = PushState([cpu EXCEPT !.PC = back], p)
  /\ cpu' = Enter(cpu, base)
  /\ taken' = Append(taken, [cpu EXCEPT !.PC = back])
  /\ served' = [served EXCEPT ![why] = @ + 1]
  /\ UNCHANGED job

Nmi ==
  /\ nmis > 0 /\ nmis' = nmis - 1 /\ UNCHANGED irqs
  /\ Vector("nmi", NmiBase, cpu.P, cpu.PC)

\* An NMI that comes in its first cycles takes the vector over from the IRQ,
Irq ==
  /\ irqs > 0 /\ irqs' = irqs - 1 /\ ~On(cpu, IMask)
  /\ \/ UNCHANGED nmis /\ Vector("irq", IrqBase, cpu.P, cpu.PC)
     \/ nmis > 0 /\ nmis' = nmis - 1 /\ Vector("nmi", NmiBase, cpu.P, cpu.PC)

\* and from BRK, which skips the byte behind it.
Brk ==
  /\ Code(cpu.PC).op = "brk"
  /\ \/ UNCHANGED <<irqs, nmis>> /\ Vector("brk", IrqBase, Raised(cpu.P, BMask), cpu.PC + 2)
     \/ /\ nmis > 0 /\ nmis' = nmis - 1 /\ UNCHANGED irqs
        /\ Vector("nmi", NmiBase, Raised(cpu.P, BMask), cpu.PC + 2)

ProgInit ==
  /\ job \in Jobs
  /\ cpu = job.regs /\ ram = job.ram
  /\ irqs = job.irqs /\ nmis = job.nmis
  /\ taken = << >> /\ served = [w \in {"irq", "brk", "nmi"} |-> 0]

ProgNext == Plain \/ Rti \/ Nmi \/ Irq \/ Brk
ProgSpec == ProgInit /\ [][ProgNext]_progVars

(* ------------------------------------------------------------- properties *)

\* A job ends on an instruction that jumps to itself.
Finished == taken = << >> /\ Code(cpu.PC).op = "jmp" /\ Code(cpu.PC).arg = cpu.PC
WordAt(a) == Peek(a) + (256 * Peek(a + 1))
Given(a) == job.ram[a] + (256 * job.ram[a + 1])
Signed(w) == IF w >= 32768 THEN w - 65536 ELSE w
Truth(b) == IF b THEN 1 ELSE 0

\* The sums, differences, products and decisions of a program are right
\* whatever interrupts cut into it, whose handlers use the same registers
\* and the same flags. Words stand at $10 and $12, the result at $14.
ComputesRight ==
  Finished =>
    LET p == Given(\h10)
        q == Given(\h12)
    IN  CASE job.name = "add" ->
               /\ WordAt(\h14) = (p + q) % 65536
               /\ On(cpu, CMask) <=> p + q > 65535
               /\ On(cpu, VMask) <=> Signed(p) + Signed(q) \notin -32768..32767
          [] job.name = "subtract" ->
               /\ WordAt(\h14) = (p - q) % 65536
               /\ On(cpu, CMask) <=> p >= q
               /\ On(cpu, VMask) <=> Signed(p) - Signed(q) \notin -32768..32767
          [] job.name = "compare" ->
               /\ Peek(\h14) = Truth(p >= q)
               /\ Peek(\h15) = Truth(Signed(p) < Signed(q))
          [] job.name = "multiply" ->
               WordAt(\h14) = job.ram[\h10] * job.ram[\h12]
          [] job.name = "count" ->
               /\ Peek(\h14) = 2 /\ cpu.P = Raised(job.regs.P, RMask)
          [] OTHER -> TRUE

\* A handler returns to the very instruction it cut in before, or behind a
\* BRK, with every register and flag as they were: nested handlers, stacks
\* that wrap in their page and a hijacked BRK included.
HandlersLeaveNoTrace ==
  [][Rti => cpu' = [taken[Len(taken)] EXCEPT !.P = Raised(@, RMask)]]_progVars

\* A handler that looks at the B bit of the pushed status can tell a BRK from
\* an IRQ: every interrupt is counted where it belongs.
InterruptsAreTold ==
  Finished =>
    /\ Peek(BrkCell) = served["brk"]
    /\ Peek(IrqCell) = served["irq"]
    /\ Peek(NmiCell) = served["nmi"]

\* A program under interrupts: what it computes is right, and what interrupted
\* it is counted where it belongs.
ProgramsUndisturbed == ComputesRight /\ InterruptsAreTold

\* Two instructions of the official set for one of the others.
Then(m, f(_, _)) == [m EXCEPT !.cpu = f(m.cpu, m.byte)]
TwoInOne(c, d) ==
  /\ Slo(c, d) = Then(Asl(c, d), OraA)
  /\ Sre(c, d) = Then(Lsr(c, d), EorA)
  /\ Rla(c, d) = Then(Rol(c, d), AndA)
  /\ Rra(c, d) = Then(Ror(c, d), Adc)
  /\ Dcp(c, d) = Then(Dec(c, d), Cmp)
  /\ Isc(c, d) = Then(Inc(c, d), Sbc)
  /\ Asr(c, d) = LET m == Lsr(AndA(c, d), And(c.A, d)) IN [m.cpu EXCEPT !.A = m.byte]
  /\ Lax(c, d) = Tax(Lda(c, d))
  /\ Xaa(c, d) = AndA(Txa(c), d)
  /\ Lar(c, d) = Txs(Tax(AndA([c EXCEPT !.A = c.S], d)))
  /\ Aac(c, d) = Put(AndA(c, d), CMask, On(Asl(c, And(c.A, d)).cpu, CMask))
  /\ LET m == Ror(AndA(c, d), And(c.A, d))            \* but for its carry and overflow
         ror == [m.cpu EXCEPT !.A = m.byte]
     IN  Arr(c, d) = [ror EXCEPT !.P = Arr(c, d).P] /\ On(Arr(c, d), NMask) = On(ror, NMask)
  /\ LET r == Cmp([c EXCEPT !.A = Aax(c)], d)     \* CMP, kept in X
     IN  Axs(c, d) = [r EXCEPT !.A = c.A, !.X = Low(Aax(c) - d)]

\* An unofficial instruction does what its two halves do one after the
\* other, flags included, for every accumulator, operand and carry.
UnofficialAreTwo == job.name = "opcode" => TwoInOne(cpu, job.arg)
=============================================================================

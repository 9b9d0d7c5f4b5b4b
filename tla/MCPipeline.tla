----------------------------- MODULE MCPipeline -----------------------------
(***************************************************************************)
(* Programs for the pipeline.  A set of programs has every choice of the   *)
(* instructions whose interaction a run is about, before a trap handler at *)
(* Handler.  The programs the findings are about have their own runs and   *)
(* are left out of the others (Excluded).                                  *)
(***************************************************************************)
EXTENDS Pipeline, Sequences

I(op, rd, rs, a) == [op |-> op, rd |-> rd, rs |-> rs, a |-> a]

Alu     == I("alu", 1, 1, 0)
Div     == I("div", 1, 1, 0)
Load    == I("load", 1, 0, 10)
Store   == I("store", 0, 1, 10)
AmoAdd  == I("amoadd", 1, 1, 10)
AmoSwap == I("amoswap", 1, 1, 11)
BadLoad == I("load", 1, 0, 12)
BadStore == I("store", 0, 0, 12)
Lr(a)   == I("lr", 1, 0, a)
Sc(a)   == I("sc", 1, 1, a)
BadAmo  == I("amoswap", 1, 0, 12)
Ldm     == I("ldm", 1, 0, 0)
Br(a)   == I("br", 0, 1, a)
Brm     == I("brm", 0, 1, 0)
Jal(a)  == I("jal", 0, 0, a)
Ecall   == I("ecall", 0, 0, 0)
Mret    == I("mret", 0, 0, 0)
Mtvec(a) == I("mtvec", 0, 0, a)
Mepc(a) == I("mepc", 0, 0, a)
Mstatus == I("mstatus", 0, 0, 0)
Satp    == I("satp", 0, 0, 0)
Sfence  == I("sfence", 0, 0, 0)
Ebreak  == I("ebreak", 0, 0, 0)
Dret    == I("dret", 0, 0, 0)
\* The debugger steps, has a breakpoint come to it, both.
Dcsr(s, b) == I("dcsr", 0, 0, s + 2 * b)

\* The two words differ.
DistinctRams == {[a \in DataAddrs |-> a % W]}

\* Execution wraps from the last code address to the first.
Program(s) == [p \in CodeAddrs |-> IF p + 1 \in DOMAIN s THEN s[p + 1] ELSE Nop]
Handler    == <<Alu, Mret>>

\* An instruction older than a return that can still redirect the fetch; a
\* misaligned branch ahead of an instruction that traps in decode; two fences.
Excluded(a, b) ==
  \/ b.op = "mret" /\ (a.op \in {"br", "brm", "ldm"} \/ a.a \in FaultAddrs)
  \/ a.op = "brm" /\ b.op = "ecall"
  \/ a.op = "sfence" /\ b.op = "sfence"
Pairs(S) == {x \in S \X S : ~Excluded(x[1], x[2])}

\* Every pair of instructions.
AllInstrs == {Alu, Div, Load, Store, AmoAdd, BadLoad, BadStore, BadAmo, Ldm, Br(4),
              Brm, Jal(4), Ecall, Mret, Mtvec(2), Mepc(3), Satp, Sfence}
PairPrograms == {Program(<<x[1], x[2], Nop>> \o Handler) : x \in Pairs(AllInstrs)}

\* Under interrupts: pairs in which an access, its fault or a branch is on its
\* way, and a loop.
IrqPairs == {<<Lr(10), Sc(10)>>, <<AmoAdd, BadLoad>>, <<BadLoad, Br(3)>>, <<Br(3), Store>>}
IrqPrograms ==
  {Program(<<Mstatus, x[1], x[2], Nop>> \o Handler) : x \in IrqPairs} \cup
  {Program(<<Mstatus, Div, Br(0), Store, Alu, Mret>>)}

\* Chains of three dependent instructions, the first an access, in a loop.
ChainInstrs == {Alu, Load, Store, AmoAdd, AmoSwap, Br(0)}
ChainPrograms ==
  {Program(<<a, b, c, Jal(0)>>)
    : a \in {Load, Store, AmoAdd}, b \in ChainInstrs, c \in ChainInstrs \ {Br(0)}}

\* A fetch fault, at address 7, on and off the path of two instructions at 5
\* and 6. What a failed fetch returns is a store: executed, it would show.
FetchInstrs == {Nop, Br(0), Br(7), Jal(0), Jal(7), Ecall}
FetchPrograms ==
  {Program(<<Mtvec(3), Jal(5), Nop>> \o Handler \o <<a, b, Store>>)
    : a, b \in FetchInstrs}

\* A reservation, what may end it, and a store conditional in the handler, which a
\* trap enters and the others reach.
ReservePrograms ==
  {Program(<<Lr(10), a, b, Sc(10), Jal(0)>>)
    : a \in {Alu, Store, Lr(11), Sc(10), Sc(11), Sc(12), Lr(12), BadLoad, Ldm, Ecall},
      b \in {Nop, Lr(10), Sc(10)}}

\* Code, its handler at 3 and the debugger's code at 5. The debugger may halt the
\* code at any cycle and then steps through it, waits for breakpoints, or makes
\* exceptions of its own. Where the handler ends is illegal outside debug mode.
DebugProgram(s, d) == Program(s \o <<Alu, Br(0)>> \o d)
StepPrograms ==
  {DebugProgram(s, <<Dcsr(1, 0), Dret>>)
    : s \in {<<Alu, Satp, BadLoad>>, <<AmoAdd, Br(2), Ebreak>>, <<Div, Mtvec(3), Ldm>>}}
BreakPrograms ==
  {DebugProgram(<<Alu, Ebreak, Dret>>, <<Dcsr(1, 1), Dret>>),
   DebugProgram(<<Store, Jal(0), Nop>>, <<Load, Dret>>),
   DebugProgram(<<Lr(10), Sc(10), Ecall>>, <<BadLoad, Ebreak>>)}
DebugPrograms == StepPrograms \cup BreakPrograms

SequentialPrograms == DebugPrograms \cup ReservePrograms \cup PairPrograms \cup ChainPrograms \cup FetchPrograms

\* A fetch that fails while decode waits for a register.
LostFaultPrograms == {Program(<<Alu, Store, Store, Nop>> \o Handler)}
\* A misaligned branch and an environment call behind it.
BranchTrapPrograms == {Program(<<Brm, Ecall, Nop, Nop>> \o Handler)}
\* A fence of one page and a fence of the next.
FencePrograms == {Program(<<Sfence, Sfence, Nop, Nop>> \o Handler)}
=============================================================================

---------------------------- MODULE Instructions ----------------------------
(***************************************************************************)
(* The instructions the pipeline model runs, decoded, and what their data  *)
(* path computes.  One instruction stands for each way the pipeline of     *)
(* rtl/core treats an instruction; encodings are left out.                 *)
(*                                                                         *)
(*   nop      no destination, no side effect (fence, branch not taken)     *)
(*   alu, div rd := rs + 1, in one cycle or in the iterative unit          *)
(*   load     rd := memory[a]                                              *)
(*   ldm      a load whose address is misaligned                           *)
(*   lr       a load that reserves a                                       *)
(*   sc       if a is reserved, memory[a] := rs and rd := 0, else rd := 1  *)
(*   store    memory[a] := rs                                              *)
(*   amoswap, amoadd   rd := memory[a]; memory[a] := rs or the sum         *)
(*   br, brm  to a if rs # 0; the target of brm is misaligned              *)
(*   jal      to a                                                         *)
(*   ecall, mret                                                           *)
(*   ebreak            to the debugger, if dcsr.ebreakm is set             *)
(*   dret              leave debug mode; illegal outside it                *)
(*   dcsr              dcsr.step := bit 0 of a, dcsr.ebreakm := bit 1 of a; *)
(*                     illegal outside debug mode                          *)
(*   mtvec, mepc       write the code address a to that CSR                *)
(*   mstatus           enable interrupts                                   *)
(*   satp              change the address translation                      *)
(*   sfence            flush the TLBs (sfence.vma)                         *)
(***************************************************************************)
EXTENDS Naturals

CONSTANTS
  Regs,        \* general purpose registers, without x0
  NPc,         \* code addresses are 0 .. NPc - 1
  DataAddrs,   \* data addresses, disjoint from the code addresses
  FaultAddrs,  \* addresses, of code or data, that answer with a bus error
  W            \* data values are 0 .. W - 1

ASSUME SizeAssumption ==
  /\ NPc \in Nat \ {0}
  /\ W \in Nat \ {0, 1}
  /\ DataAddrs \subseteq Nat \ (0 .. NPc - 1)
  /\ 0 \notin Regs

CodeAddrs == 0 .. NPc - 1
Data      == 0 .. W - 1

AmoOps == {"amoswap", "amoadd"}
MemOps == AmoOps \cup {"load", "ldm", "store", "lr", "sc"}
CsrOps == {"mtvec", "mepc", "mstatus", "satp", "dcsr"}
\* Illegal outside debug mode.
DebugOps == {"dcsr", "dret"}
RetOps == {"mret", "dret"}
\* csr_is_serializing: nothing may follow these into execute.
SerializingOps == {"mstatus", "satp"}
Ops    == MemOps \cup CsrOps \cup
          {"nop", "alu", "div", "br", "brm", "jal", "ecall", "ebreak", "mret", "dret", "sfence"}

\* Decoded instructions: register 0 is x0.
Instrs == [op : Ops, rd : Regs \cup {0}, rs : Regs \cup {0}, a : Nat]

Nop == [op |-> "nop", rd |-> 0, rs |-> 0, a |-> 0]

NextPc(pc) == (pc + 1) % NPc

AluResult(v) == (v + 1) % W

\* mem_store_data_o: the value an atomic operation leaves in memory.
AmoResult(op, old, v) ==
  IF op = "amoswap" THEN v
  ELSE IF op = "amoadd" THEN (old + v) % W
  ELSE old
=============================================================================

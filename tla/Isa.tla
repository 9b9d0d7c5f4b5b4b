--------------------------------- MODULE Isa ---------------------------------
(***************************************************************************)
(* What the pipeline promises: a machine that runs one instruction at a    *)
(* time, in program order, with precise traps.                             *)
(***************************************************************************)
EXTENDS Instructions

CONSTANTS DmHalt, DmExc  \* where debug mode begins and where its exceptions go

VARIABLES
  prog,  \* the instruction at each code address
  \* the architectural state: pc, regs, mem, reserved, epc, tvec, dpc, the bits
  \* stepping and ebreakm of dcsr, debug (mode), and step: after a return from
  \* debug mode with stepping, "Armed" until one instruction or trap has gone,
  \* then "Fire"
  arch,
  irq,   \* an interrupt is requested
  halt   \* the debugger asks to halt

Value(s, r)      == IF r = 0 THEN 0 ELSE s.regs[r]
Written(s, r, v) == IF r = 0 THEN s.regs ELSE [s.regs EXCEPT ![r] = v]
Stepped(s)       == IF s.step = "Armed" THEN "Fire" ELSE s.step

\* A trap saves the address of the instruction it interrupts; it ends a
\* reservation. In debug mode it only redirects.
Trapped(s) ==
  IF s.debug THEN [s EXCEPT !.pc = DmExc, !.reserved = {}]
  ELSE [s EXCEPT !.epc = s.pc, !.pc = s.tvec, !.reserved = {}, !.step = Stepped(s)]

Halted(s) ==
  [s EXCEPT !.dpc = s.pc, !.pc = DmHalt, !.debug = TRUE, !.step = "Off", !.reserved = {}]

\* The instruction the machine is at is known to raise an exception as it is decoded.
RaisesInDecode(s) ==
  LET i == prog[s.pc]
  IN \/ s.pc \in FaultAddrs
     \/ i.op = "ecall"
     \/ i.op = "ebreak" /\ ~s.debug /\ ~s.ebreakm
     \/ i.op \in DebugOps /\ ~s.debug

\* The instruction the machine is at raises an exception.
Raises(s) ==
  LET i == prog[s.pc]
  IN \/ RaisesInDecode(s)
     \/ i.op = "ldm"
     \/ i.op \in MemOps /\ i.a \in FaultAddrs
     \/ i.op = "brm" /\ Value(s, i.rs) # 0

\* The state after one instruction.
Executed(s) ==
  LET i == prog[s.pc]
      v == Value(s, i.rs)
      n == [s EXCEPT !.pc = NextPc(s.pc), !.step = Stepped(s)]
  IN IF Raises(s) THEN Trapped(s)
     ELSE CASE i.op \in {"alu", "div"} -> [n EXCEPT !.regs = Written(s, i.rd, AluResult(v))]
            [] i.op = "load"   -> [n EXCEPT !.regs = Written(s, i.rd, s.mem[i.a])]
            [] i.op = "store"  -> [n EXCEPT !.mem[i.a] = v]
            [] i.op = "lr"     -> [n EXCEPT !.regs = Written(s, i.rd, s.mem[i.a]), !.reserved = {i.a}]
            [] i.op = "sc" /\ i.a \in s.reserved ->
                 [n EXCEPT !.regs = Written(s, i.rd, 0), !.mem[i.a] = v, !.reserved = {}]
            [] i.op = "sc"     -> [n EXCEPT !.regs = Written(s, i.rd, 1)]
            [] i.op \in AmoOps -> [n EXCEPT !.regs = Written(s, i.rd, s.mem[i.a]),
                                            !.mem[i.a] = AmoResult(i.op, @, v)]
            [] i.op = "br" /\ v # 0 -> [n EXCEPT !.pc = i.a]
            [] i.op = "jal"    -> [n EXCEPT !.pc = i.a]
            [] i.op = "mret"   -> [n EXCEPT !.pc = s.epc]
            [] i.op = "mtvec"  -> [n EXCEPT !.tvec = i.a]
            [] i.op = "mepc"   -> [n EXCEPT !.epc = i.a]
            [] i.op = "dcsr"   -> [n EXCEPT !.stepping = (i.a % 2 = 1), !.ebreakm = (i.a > 1)]
            [] i.op = "dret"   -> [s EXCEPT !.pc = s.dpc, !.debug = FALSE,
                                            !.step = IF s.stepping THEN "Armed" ELSE "Off"]
            [] i.op = "ebreak" -> IF s.debug THEN [s EXCEPT !.pc = DmHalt, !.reserved = {}]
                                  ELSE Halted(s)
            [] OTHER           -> n

\* After a single step nothing goes but an exception known in decode.
MayExecute(s) == s.step = "Fire" => RaisesInDecode(s)

Execute(s, t) == MayExecute(s) /\ t = Executed(s)

\* A trap is taken, or debug mode entered, in one step with at most two older
\* instructions: the pipeline drains those after it has redirected the fetch.
Drained(s) ==
  LET After(S) == {Executed(u) : u \in {r \in S : MayExecute(r)}}
  IN {s} \cup After({s}) \cup After(After({s}))

TakeTrap(s, t) ==
  \E u \in Drained(s) :
    /\ \/ Raises(u) /\ MayExecute(u)
       \/ irq /\ ~u.debug /\ u.step = "Off"
    /\ t = Trapped(u)

EnterDebug(s, t) ==
  \E u \in Drained(s) :
    /\ ~u.debug
    /\ \/ halt \/ u.step = "Fire"
       \/ prog[u.pc].op = "ebreak" /\ u.ebreakm
    /\ t = Halted(u)

\* The step from s to t.
Step(s, t) == s # t /\ (Execute(s, t) \/ TakeTrap(s, t) \/ EnterDebug(s, t))

Init == arch.pc \in CodeAddrs
Next == Step(arch, arch') /\ UNCHANGED prog
Spec == Init /\ [][Next]_<<prog, arch>>
=============================================================================

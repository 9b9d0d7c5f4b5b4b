------------------------------ MODULE Pipeline ------------------------------
(***************************************************************************)
(* The five-stage pipeline of the FRISC-V core without an MMU              *)
(* (rtl/core/friscv_datapath.sv, EnableMmu = 0): fetch, decode with the    *)
(* trap controller, execute, memory and writeback, their control unit, the *)
(* arbiter and the atomic unit in front of the memory port.                *)
(*                                                                         *)
(* A state is one clock cycle.  The stages' clock edges happen together;   *)
(* each is a disjunction of what that stage may do.  The memory makes any  *)
(* access wait for any number of cycles, none included.                    *)
(***************************************************************************)
EXTENDS Instructions, Integers

CONSTANTS
  Programs,     \* the programs to run, functions from CodeAddrs to Instrs
  DivCycles,    \* cycles the iterative unit takes
  InitTvec,     \* the trap vector at reset
  DmHalt, DmExc,  \* where debug mode begins and where its exceptions go
  Debugged,     \* the programs with a debugger, that may ask to halt at any time
  Rams,         \* what the memory may hold at reset
  Irqs,         \* values of the interrupt wire: {FALSE} or BOOLEAN
  None          \* nothing requested, nothing held

\* What the memory stage asks of the port: [op, a, v].
DmemReqs == [op : Ops, a : Nat, v : Data]

\* Programs stay within the code: so do what they jump to and where traps go.
ProgInstrs ==
  {i \in Instrs : i.op \in {"br", "brm", "jal", "mtvec", "mepc"} => i.a \in CodeAddrs}

ASSUME PipelineAssumption ==
  /\ Programs \subseteq [CodeAddrs -> ProgInstrs]
  /\ Rams \subseteq [DataAddrs -> Data]
  /\ InitTvec \in CodeAddrs /\ DmHalt \in CodeAddrs /\ DmExc \in CodeAddrs
  /\ None \notin Int \cup DmemReqs

VARIABLES
  prog,
  \* fetch stage
  pc_q, fetch_active_q, ir_q, flush_pending_q,
  \* decode stage: [ir, pc, valid, fault], the register file and the CSRs
  id, regs, csr,
  \* trap controller
  trap_seen, if_trap_inhibit, mret_inhibit,
  debug_mode_active,
  step,  \* single step: "Off", "Armed" until an instruction goes, then "Fire"
  \* execute stage: [ir, pc, v, valid, done]
  ex, branch_ok_prev, sfence_vma_prev, ex_trap, div_left,
  \* memory stage: [ir, pc, v, rd, cond, valid, done], the answer kept through a
  \* stall (load_data_buff, r_sc_res), the reserved address, as a set of at most one
  mem, r_mem_active, load_data_buff, r_mem_fault, reserved,
  reserved_before,  \* auxiliary: what was reserved before the instruction in MEM
  \* writeback stage: [ir, rd, v, valid]
  wb,
  \* arbiter
  arb_state_q, data_priority_q, inst_req_q, data_req_q,
  \* atomic unit
  amo_state_q, load_data_q, amo_op_q, rs2_val_q, r_amo_addr_valid, r_amo_addr,
  \* the memory, its wait, the interrupt wire, the debugger's wire
  ram, mem_wait_i, irq_i, dbg_req_i

ifVars  == <<pc_q, fetch_active_q, ir_q, flush_pending_q>>
trapVars == <<trap_seen, if_trap_inhibit, mret_inhibit, debug_mode_active, step>>
exVars  == <<ex, branch_ok_prev, sfence_vma_prev, ex_trap, div_left>>
resVars == <<reserved, reserved_before>>
memVars == <<mem, r_mem_active, load_data_buff, r_mem_fault, resVars>>
arbVars == <<arb_state_q, data_priority_q, inst_req_q, data_req_q>>
amoVars == <<amo_state_q, load_data_q, amo_op_q, rs2_val_q, r_amo_addr_valid, r_amo_addr>>
vars == <<prog, ifVars, id, regs, csr, trapVars, exVars, memVars, wb,
          arbVars, amoVars, ram, mem_wait_i, irq_i, dbg_req_i>>

IdBubble  == [ir |-> Nop, pc |-> 0, valid |-> FALSE, fault |-> FALSE]
ExBubble  == [ir |-> Nop, pc |-> 0, v |-> 0, valid |-> FALSE, done |-> FALSE]
MemBubble == [ir |-> Nop, pc |-> 0, v |-> 0, rd |-> 0, cond |-> FALSE, valid |-> FALSE, done |-> FALSE]
WbBubble  == [ir |-> Nop, rd |-> 0, v |-> 0, valid |-> FALSE]

-----------------------------------------------------------------------------
(* The memory port *)

inst_i == IF fetch_active_q THEN pc_q ELSE None
\* A store conditional that does not store still asks, for the check of its address.
dmem_op == CASE mem.ir.op = "sc" -> (IF mem.cond THEN "store" ELSE "load")
             [] mem.ir.op = "lr" -> "load"
             [] OTHER            -> mem.ir.op
data_i == IF r_mem_active THEN [op |-> dmem_op, a |-> mem.ir.a, v |-> mem.v] ELSE None

\* The arbiter's outputs to the memory do not read the memory's wait.
ArbReq == INSTANCE Arbiter WITH
  InstReqs <- CodeAddrs, DataReqs <- {}, NoReq <- None, state_q <- arb_state_q,
  overtaken <- 0, mem_wait_i <- FALSE

l2 == ArbReq!mem_o

l2_rw == IF l2.port = "none" THEN "idle"
         ELSE IF l2.port = "data" /\ l2.req.op = "store" THEN "write" ELSE "read"
l2_addr  == IF l2.port = "data" THEN l2.req.a ELSE IF l2.port = "inst" THEN l2.req ELSE 0
l2_wdata == IF l2.port = "data" THEN l2.req.v ELSE 0
l2_amo_op ==
  LET r == l2 IN IF r.port = "data" /\ r.req.op \in AmoOps THEN r.req.op ELSE "none"

\* The atomic unit's outputs to the memory do not read the memory's answer.
AmoReq == INSTANCE AmoUnit WITH
  state_q <- amo_state_q, mem_wait_i <- FALSE, mem_err_i <- FALSE, mem_rdata_i <- 0

mem_rw   == AmoReq!mem_rw
mem_addr == AmoReq!mem_addr

\* The memory's answer.
mem_err   == mem_rw # "idle" /\ ~mem_wait_i /\ mem_addr \in FaultAddrs
mem_rdata == IF l2.port = "inst" THEN prog[mem_addr]
             ELSE IF mem_addr \in DataAddrs THEN ram[mem_addr] ELSE 0

Amo == INSTANCE AmoUnit WITH
  state_q <- amo_state_q, mem_err_i <- mem_err, mem_rdata_i <- mem_rdata

Arb == INSTANCE Arbiter WITH
  InstReqs <- CodeAddrs, DataReqs <- {}, NoReq <- None, state_q <- arb_state_q,
  overtaken <- 0, mem_wait_i <- Amo!l2_wait

imem_wait == Arb!inst_wait_o
dmem_wait == Arb!data_wait_o
imem_err  == l2.port = "inst" /\ mem_err
dmem_err  == l2.port = "data" /\ mem_err

-----------------------------------------------------------------------------
(* Combinational outputs of the stages *)

\* Mutant: the error of a fetch that is answered at once is missed.
if_err_Missed == imem_err /\ ~flush_pending_q /\ arb_state_q = "HoldInst"

\* A fetch that a redirect overtook is discarded, and its error with it.
if_err == imem_err /\ ~flush_pending_q
if_ir  == IF flush_pending_q THEN Nop
          ELSE IF fetch_active_q THEN (IF imem_wait THEN Nop ELSE Amo!l2_rdata)
          ELSE ir_q

branch_ok_raw    == ex.ir.op \in {"br", "brm"} /\ ex.v # 0
branch_misaligned == branch_ok_raw /\ ex.ir.op = "brm"
branch_ok        == branch_ok_raw /\ ~branch_ok_prev /\ ~branch_misaligned
muldiv_active    == ex.ir.op = "div" /\ div_left > 0
\* flush_tlb_o: the fence is sent in the first cycle of an sfence in EX.
flush_tlb        == ex.ir.op = "sfence" /\ ~sfence_vma_prev
ex_rd_sel        == IF muldiv_active THEN 0 ELSE ex.ir.rd
ex_is_mem        == ex.ir.op \in MemOps

mem_completion_fault == r_mem_active /\ ~dmem_wait /\ dmem_err
mem_rd_sel == IF mem_completion_fault THEN 0 ELSE mem.rd
mem_data   == IF mem.ir.op = "sc" THEN (IF mem.cond THEN 0 ELSE 1)
              ELSE IF mem.ir.op \in MemOps \ {"store"}
              THEN (IF load_data_buff # None THEN load_data_buff
                    ELSE IF l2.port = "data" THEN Amo!l2_rdata
                    ELSE 0)  \* an instruction word, which is no value here
              ELSE mem.v

\* The store conditional in EX has a reservation, which the one in MEM has not used.
cond_valid ==
  /\ ex.ir.op = "sc" /\ ex.ir.a \in reserved
  /\ ~(mem.valid /\ mem.ir.op = "sc" /\ mem.cond)

csr_inflight == {ex.ir.op, mem.ir.op, wb.ir.op} \cap CsrOps

-----------------------------------------------------------------------------
(* Trap controller *)

\* Mutant: an interrupt does not look at a branch that redirects.
interrupt_safe_OnBranch ==
  ~mret_inhibit /\ id.ir.op \notin RetOps /\ id.valid /\ ~debug_mode_active

interrupt_safe ==
  ~mret_inhibit /\ id.ir.op \notin RetOps /\ ~branch_ok /\ id.valid /\ ~debug_mode_active
exception_safe == ~branch_ok /\ id.valid

\* A single step puts interrupts off.
interrupt_active == interrupt_safe /\ step = "Off" /\ csr.mie /\ irq_i

is_mem_trap == r_mem_fault # None
is_ex_trap  == ex_trap # None
is_if_trap  == id.fault /\ ~if_trap_inhibit /\ ~branch_ok
exception_other == is_if_trap \/ is_ex_trap \/ is_mem_trap

\* illegal_inst: what only debug mode may do.
illegal == id.ir.op \in DebugOps /\ ~debug_mode_active

ebreak_to_debug ==
  /\ exception_safe /\ id.ir.op = "ebreak" /\ csr.ebreakm
  /\ ~debug_mode_active /\ ~exception_other

is_id_trap ==
  /\ exception_safe
  /\ id.ir.op = "ecall" \/ (id.ir.op = "ebreak" /\ ~ebreak_to_debug) \/ illegal

exception_active == exception_other \/ is_id_trap

debug_halt_entry == (dbg_req_i \/ step = "Fire") /\ ~debug_mode_active /\ interrupt_safe
debug_entry      == ebreak_to_debug \/ (debug_halt_entry /\ ~exception_active)

trap_raw == interrupt_active \/ exception_active \/ debug_entry

\* Mutants: a trap waits for registers and CSRs, not for memory.
trap_hazard_NoMem  == csr_inflight # {} \/ ex_rd_sel # 0 \/ mem_rd_sel # 0 \/ wb.rd # 0

trap_hazard ==
  \/ csr_inflight # {}
  \/ ex_is_mem \/ r_mem_active \/ muldiv_active
  \/ ex_rd_sel # 0 \/ mem_rd_sel # 0 \/ wb.rd # 0

trap         == trap_raw /\ ~trap_seen /\ ~trap_hazard
trap_pending == trap_raw /\ ~trap_seen /\ trap_hazard

trap_epc == IF is_mem_trap THEN r_mem_fault ELSE IF is_ex_trap THEN ex_trap ELSE id.pc

\* An exception of debug mode goes to the debugger.
tvec ==
  IF debug_mode_active /\ exception_active
  THEN (IF ~exception_other /\ id.ir.op = "ebreak" THEN DmHalt ELSE DmExc)
  ELSE IF debug_entry THEN DmHalt ELSE csr.mtvec

ex_trap_commit == trap /\ (is_mem_trap \/ is_ex_trap)

-----------------------------------------------------------------------------
(* Control unit *)

mem_stall == imem_wait \/ dmem_wait

\* Mutant: writeback is taken to have written the register already.
reg_hazard_NotWb == id.ir.rs # 0 /\ id.ir.rs \in {ex_rd_sel, mem_rd_sel}

\* No forwarding: wait while a stage ahead holds the register to read.
reg_hazard == id.ir.rs # 0 /\ id.ir.rs \in {ex_rd_sel, mem_rd_sel, wb.rd}

ret == id.ir.op \in RetOps /\ ~illegal

ret_csr_hazard  == ret /\ csr_inflight # {}
ret_pipe_hazard == ret /\ (dmem_wait \/ ex_is_mem \/ r_mem_active)

\* Mutant: the write in WB is taken to be done already.
serializing_csr_hazard_NotWb == {ex.ir.op, mem.ir.op} \cap SerializingOps # {}

serializing_csr_hazard == csr_inflight \cap SerializingOps # {}

hazard_stall ==
  \/ reg_hazard
  \/ id.ir.op \in csr_inflight \/ serializing_csr_hazard
  \/ ret_csr_hazard \/ ret_pipe_hazard

id_stall == hazard_stall \/ muldiv_active \/ mem_stall \/ trap_pending
ex_stall == muldiv_active \/ mem_stall

effective_ret == ret /\ ~ret_csr_hazard /\ ~ret_pipe_hazard /\ ~id_stall
effective_jal == id.ir.op = "jal" /\ ~trap /\ ~id_stall

flush    == branch_ok \/ effective_jal \/ trap \/ effective_ret
flush_ex == trap \/ ((hazard_stall \/ trap_pending) /\ ~muldiv_active /\ ~mem_stall)

redirect_target ==
  IF effective_ret THEN (IF id.ir.op = "dret" THEN csr.dpc ELSE csr.mepc)
  ELSE IF trap THEN tvec
  ELSE IF branch_ok THEN ex.ir.a
  ELSE id.ir.a

-----------------------------------------------------------------------------
(* Clock edge of the fetch stage *)

IfRedirect ==
  /\ flush
  /\ pc_q' = redirect_target
  /\ fetch_active_q' = TRUE
  /\ ir_q' = Nop
  /\ flush_pending_q' = (fetch_active_q /\ imem_wait)

\* The discarded fetch is answered.
IfRelease ==
  /\ ~flush /\ flush_pending_q /\ ~imem_wait
  /\ fetch_active_q' = TRUE
  /\ flush_pending_q' = FALSE
  /\ UNCHANGED <<pc_q, ir_q>>

IfAdvance ==
  /\ ~flush /\ ~id_stall /\ ~flush_pending_q
  /\ pc_q' = NextPc(pc_q)
  /\ fetch_active_q' = TRUE
  /\ UNCHANGED <<ir_q, flush_pending_q>>

\* Decode does not take the fetched instruction: it is kept.
IfBuffer ==
  /\ ~flush /\ id_stall /\ ~flush_pending_q /\ fetch_active_q /\ ~imem_wait
  /\ ir_q' = Amo!l2_rdata
  /\ fetch_active_q' = FALSE
  /\ UNCHANGED <<pc_q, flush_pending_q>>

IfHold ==
  /\ ~flush /\ id_stall
  /\ fetch_active_q => imem_wait
  /\ UNCHANGED ifVars

IfEdge == IfRedirect \/ IfRelease \/ IfAdvance \/ IfBuffer \/ IfHold

-----------------------------------------------------------------------------
(* Clock edge of the decode stage, the register file and the CSRs *)

IdEdge ==
  id' = IF flush THEN IdBubble
        ELSE IF id_stall THEN id
        ELSE [ir |-> if_ir, pc |-> pc_q, valid |-> TRUE, fault |-> if_err]

\* The register file and the CSRs after the retirement of the instruction in WB.
retire == wb.valid /\ ~mem_stall

RegfileEdge == regs' = IF retire /\ wb.rd # 0 THEN [regs EXCEPT ![wb.rd] = wb.v] ELSE regs

CsrWritten(c) ==
  IF wb.ir.op \in {"mtvec", "mepc"} THEN [c EXCEPT ![wb.ir.op] = wb.ir.a]
  ELSE IF wb.ir.op = "mstatus" THEN [c EXCEPT !.mie = TRUE]
  ELSE IF wb.ir.op = "dcsr"
  THEN [c EXCEPT !.step = (wb.ir.a % 2 = 1), !.ebreakm = (wb.ir.a > 1)]
  ELSE c

\* A trap or a return comes before a CSR write that retires. In debug mode neither
\* saves anything.
CsrEdge ==
  csr' = IF trap /\ debug_mode_active THEN csr
         ELSE IF trap /\ debug_entry THEN [csr EXCEPT !.dpc = trap_epc]
         ELSE IF trap THEN [csr EXCEPT !.mepc = trap_epc, !.mpie = csr.mie, !.mie = FALSE]
         ELSE IF effective_ret /\ id.ir.op = "dret" THEN csr
         ELSE IF effective_ret THEN [csr EXCEPT !.mie = csr.mpie, !.mpie = TRUE]
         ELSE IF retire THEN CsrWritten(csr)
         ELSE csr

\* Mutants: a trap is taken once and for all; a return inhibits for good.
TrapEdge_Once ==
  /\ trap_seen' = (trap \/ trap_seen)
  /\ if_trap_inhibit' = (trap \/ (if_trap_inhibit /\ (id_stall \/ if_err)))
  /\ mret_inhibit' = (~trap /\ (effective_ret \/ (mret_inhibit /\ id_stall)))

TrapEdge_Inhibit ==
  /\ trap_seen' = (trap \/ (trap_raw /\ trap_seen))
  /\ if_trap_inhibit' = (trap \/ (if_trap_inhibit /\ (id_stall \/ if_err)))
  /\ mret_inhibit' = (~trap /\ (effective_ret \/ mret_inhibit))

TrapEdge ==
  /\ trap_seen' = (trap \/ (trap_raw /\ trap_seen))
  /\ if_trap_inhibit' = (trap \/ (if_trap_inhibit /\ (id_stall \/ if_err)))
  /\ mret_inhibit' = (~trap /\ (effective_ret \/ (mret_inhibit /\ id_stall)))

\* An instruction leaves decode, unless by a redirect of its own.
id_dispatch == id.valid /\ ~id_stall /\ ~flush /\ ~trap /\ ~trap_pending

DebugEdge ==
  IF trap /\ debug_entry
  THEN debug_mode_active' = TRUE /\ step' = "Off"
  ELSE IF ~trap /\ effective_ret /\ id.ir.op = "dret"
  THEN debug_mode_active' = FALSE /\ step' = (IF csr.step THEN "Armed" ELSE "Off")
  ELSE /\ step' = (IF step = "Armed" /\ (id_dispatch \/ trap) THEN "Fire" ELSE step)
       /\ UNCHANGED debug_mode_active

-----------------------------------------------------------------------------
(* Clock edge of the execute stage *)

ExTrapCommit ==
  /\ ex_trap_commit
  /\ ex' = ExBubble
  /\ ex_trap' = None
  /\ UNCHANGED branch_ok_prev

\* A captured trap waits for decode to take it.
ExTrapHold ==
  /\ ~ex_trap_commit /\ ex_trap # None
  /\ UNCHANGED <<ex, ex_trap, branch_ok_prev>>

ExMisaligned ==
  /\ ~ex_trap_commit /\ ex_trap = None /\ ~ex_stall
  /\ ex.valid /\ branch_misaligned
  /\ ex' = ExBubble
  /\ ex_trap' = ex.pc
  /\ branch_ok_prev' = FALSE

ExCapture ==
  /\ ~ex_trap_commit /\ ex_trap = None /\ ~ex_stall
  /\ ~(ex.valid /\ branch_misaligned)
  /\ ex' = IF flush_ex \/ branch_ok THEN ExBubble
           ELSE [ir |-> id.ir, pc |-> id.pc, valid |-> id.valid, done |-> FALSE,
                 v |-> IF id.ir.rs = 0 THEN 0 ELSE regs[id.ir.rs]]
  /\ branch_ok_prev' = branch_ok_raw
  /\ UNCHANGED ex_trap

\* "done" is not in the code: the trap that is taken counts this instruction,
\* which has nothing left to do, as executed.
ExStalled ==
  /\ ~ex_trap_commit /\ ex_trap = None /\ ex_stall
  /\ ex' = [ex EXCEPT !.done = @ \/ trap]
  /\ branch_ok_prev' = branch_ok_raw
  /\ UNCHANGED ex_trap

DivEdge ==
  div_left' =
    IF ex.ir.op # "div" \/ flush_ex \/ ex_trap_commit \/ (div_left = 0 /\ ~ex_stall)
    THEN DivCycles
    ELSE IF div_left > 0 THEN div_left - 1 ELSE 0

\* What was in EX in the last cycle, of this instruction or the one before.
FenceEdge ==
  sfence_vma_prev' =
    IF ex_trap_commit \/ ex_trap # None THEN sfence_vma_prev ELSE ex.ir.op = "sfence"

ExEdge ==
  /\ ExTrapCommit \/ ExTrapHold \/ ExMisaligned \/ ExCapture \/ ExStalled
  /\ DivEdge /\ FenceEdge

-----------------------------------------------------------------------------
(* Clock edge of the memory and writeback stages *)

MemTrapCommit ==
  /\ trap
  /\ reserved' = {} /\ reserved_before' = {}
  /\ mem' = MemBubble
  /\ r_mem_active' = FALSE
  /\ load_data_buff' = None
  /\ r_mem_fault' = None

\* A captured fault waits for decode to take the trap.
MemFaultHold ==
  /\ ~trap /\ r_mem_fault # None
  /\ mem' = [mem EXCEPT !.valid = FALSE]
  /\ r_mem_active' = FALSE
  /\ load_data_buff' = None
  /\ UNCHANGED <<r_mem_fault, resVars>>

\* The access fails as the pipeline advances, or the next address is misaligned.
MemFault(pc) ==
  /\ mem' = MemBubble
  /\ r_mem_active' = FALSE
  /\ load_data_buff' = None
  /\ r_mem_fault' = pc

\* As EX is taken: a load reserved reserves, a store conditional that will store
\* consumes. It happens too when the instruction in MEM fails, and EX is dropped.
Reserve ==
  reserved' = IF ex.ir.op = "lr" THEN {ex.ir.a}
              ELSE IF cond_valid THEN {} ELSE reserved

MemAccept == ~trap /\ r_mem_fault = None /\ ~mem_stall

MemFaultAdvance ==
  /\ MemAccept /\ mem_completion_fault /\ MemFault(mem.pc)
  /\ Reserve /\ UNCHANGED reserved_before

MemMisaligned ==
  /\ MemAccept /\ ~mem_completion_fault
  /\ ex.valid /\ ex.ir.op = "ldm"
  /\ MemFault(ex.pc)
  /\ reserved_before' = reserved /\ UNCHANGED reserved

MemCapture ==
  /\ MemAccept /\ ~mem_completion_fault
  /\ ~(ex.valid /\ ex.ir.op = "ldm")
  /\ mem' = [ir |-> ex.ir, pc |-> ex.pc, rd |-> ex_rd_sel,
             v |-> IF ex.ir.op \in {"alu", "div"} THEN AluResult(ex.v) ELSE ex.v,
             cond |-> cond_valid, valid |-> ex.valid /\ ~muldiv_active,
             done |-> ex.done \/ branch_misaligned]
  /\ r_mem_active' = ex_is_mem
  /\ load_data_buff' = None
  /\ Reserve /\ reserved_before' = reserved
  /\ UNCHANGED r_mem_fault

\* The access completes while the pipeline is stalled by a fetch.
MemComplete ==
  /\ ~trap /\ r_mem_fault = None /\ mem_stall
  /\ r_mem_active /\ ~dmem_wait
  /\ r_mem_active' = FALSE
  /\ IF dmem_err
     THEN /\ r_mem_fault' = mem.pc
          /\ mem' = [mem EXCEPT !.rd = 0, !.valid = FALSE]
          /\ UNCHANGED <<load_data_buff, reserved>>
     ELSE /\ reserved' = IF mem.cond THEN {} ELSE reserved
          /\ load_data_buff' = IF mem.ir.op = "store" THEN load_data_buff ELSE mem_data
          /\ UNCHANGED <<mem, r_mem_fault>>
  /\ UNCHANGED reserved_before

MemHold ==
  /\ ~trap /\ r_mem_fault = None /\ mem_stall
  /\ r_mem_active => dmem_wait
  /\ UNCHANGED memVars

MemEdge ==
  \/ MemTrapCommit \/ MemFaultHold \/ MemFaultAdvance \/ MemMisaligned
  \/ MemCapture \/ MemComplete \/ MemHold

WbEdge ==
  wb' = IF mem_stall THEN wb
        ELSE [ir |-> mem.ir, rd |-> mem_rd_sel, v |-> mem_data,
              valid |-> mem.valid /\ ~mem_completion_fault]

-----------------------------------------------------------------------------
(* The memory and the whole core *)

RamEdge ==
  ram' = IF mem_rw = "write" /\ ~mem_wait_i /\ ~mem_err
         THEN [ram EXCEPT ![mem_addr] = AmoReq!mem_wdata] ELSE ram

\* A debugger asks to halt until the hart has halted.
DebuggerEdge ==
  dbg_req_i' \in (IF prog \notin Debugged \/ debug_mode_active' THEN {FALSE}
                 ELSE IF dbg_req_i THEN {TRUE} ELSE BOOLEAN)

NextWires == mem_wait_i' \in BOOLEAN /\ irq_i' \in Irqs /\ DebuggerEdge

Next ==
  /\ IfEdge /\ IdEdge /\ RegfileEdge /\ CsrEdge /\ TrapEdge /\ DebugEdge
  /\ ExEdge /\ MemEdge /\ WbEdge
  /\ Arb!Edge /\ Amo!Edge
  /\ RamEdge /\ NextWires
  /\ UNCHANGED prog

\* Reset; the register file and the memory have no reset.
Init ==
  /\ prog \in Programs
  /\ pc_q = 0 /\ fetch_active_q = TRUE /\ ir_q = Nop /\ flush_pending_q = FALSE
  /\ id = IdBubble
  /\ regs \in [Regs -> Data]
  /\ csr = [mtvec |-> InitTvec, mepc |-> 0, mie |-> FALSE, mpie |-> FALSE,
            dpc |-> 0, step |-> FALSE, ebreakm |-> FALSE]
  /\ debug_mode_active = FALSE /\ step = "Off"
  /\ trap_seen = FALSE /\ if_trap_inhibit = FALSE /\ mret_inhibit = FALSE
  /\ ex = ExBubble /\ branch_ok_prev = FALSE /\ sfence_vma_prev = FALSE /\ ex_trap = None /\ div_left = DivCycles
  /\ mem = MemBubble /\ r_mem_active = FALSE /\ load_data_buff = None /\ r_mem_fault = None
  /\ reserved = {} /\ reserved_before = {}
  /\ wb = WbBubble
  /\ ArbReq!Reset /\ AmoReq!Reset
  /\ ram \in Rams
  /\ mem_wait_i \in BOOLEAN /\ irq_i \in Irqs /\ dbg_req_i = FALSE

SafeSpec == Init /\ [][Next]_vars

\* The clock runs and the memory does not wait for ever.
MemAnswers == Next /\ ~mem_wait_i'
Spec == SafeSpec /\ WF_vars(Next) /\ WF_vars(MemAnswers)

-----------------------------------------------------------------------------
(* The architectural state of the pipeline: that of the oldest instruction *)
(* that is not done, with the results that are done and not yet written.   *)

\* A return from debug mode is done as it leaves decode, with nothing ahead.
ExPending  == ex.valid /\ ~ex.done /\ ex.ir.op # "dret"
MemPending ==
  mem.valid /\ ~mem.done /\ mem.ir.op # "dret" /\ (mem.ir.op \in MemOps => r_mem_active)

ArchPc ==
  IF r_mem_fault # None THEN r_mem_fault
  ELSE IF MemPending THEN mem.pc
  ELSE IF ex_trap # None THEN ex_trap
  ELSE IF ExPending THEN ex.pc
  ELSE IF id.valid THEN id.pc
  ELSE pc_q

RetiredRegs == IF wb.valid /\ wb.rd # 0 THEN [regs EXCEPT ![wb.rd] = wb.v] ELSE regs

ArchRegs ==
  IF mem.valid /\ ~r_mem_active /\ load_data_buff # None /\ mem.rd # 0
  THEN [RetiredRegs EXCEPT ![mem.rd] = load_data_buff]
  ELSE RetiredRegs

ArchCsr == IF wb.valid THEN CsrWritten(csr) ELSE csr

ArchReserved == IF MemPending \/ r_mem_fault # None THEN reserved_before ELSE reserved

\* The step that has fired is that of an instruction that may still be on its way.
ArchStep ==
  IF step = "Fire" /\ (MemPending \/ ExPending \/ r_mem_fault # None \/ ex_trap # None)
  THEN "Armed" ELSE step

ArchState == [pc |-> ArchPc, regs |-> ArchRegs, mem |-> ram, reserved |-> ArchReserved,
              epc |-> ArchCsr.mepc, tvec |-> ArchCsr.mtvec, dpc |-> ArchCsr.dpc,
              stepping |-> ArchCsr.step, ebreakm |-> ArchCsr.ebreakm,
              debug |-> debug_mode_active, step |-> ArchStep]

AR == INSTANCE Isa WITH arch <- ArchState, irq <- irq_i, halt <- dbg_req_i

-----------------------------------------------------------------------------
(* Properties *)

\* The pipeline implements the machine that runs one instruction at a time:
\* whatever the memory's timing, the hazards, the redirects and the traps, the
\* registers, the memory and the trap CSRs go through the states of running the
\* program in order, and a trap has its cause and a precise mepc.
Refines == AR!Spec

\* A data access on the bus is that of the instruction the program is at: no
\* access is sent for an instruction that a trap or a redirect discards, which
\* for a device register cannot be undone.
AccessOnPath == l2.port = "data" => prog[ArchPc] = mem.ir

\* The memory port keeps its request, a write with its data, while the memory
\* waits, across the muxes of the arbiter and of the atomic unit.
PortStable ==
  [][mem_rw # "idle" /\ mem_wait_i =>
       /\ mem_rw' = mem_rw /\ mem_addr' = mem_addr
       /\ mem_rw = "write" => AmoReq!mem_wdata' = AmoReq!mem_wdata]_vars

\* friscv.sv: "Freeze AMO target address and size for the whole LOAD-STORE
\* sequence": the frozen address is the one of the request being served.
AmoAddressOwn == l2_amo_op # "none" /\ mem_rw # "idle" => mem_addr = l2_addr

\* A fault of a fetch comes with the faulting instruction (friscv_trap_controller,
\* if_trap). The no-operation that stands for a discarded fetch is no instruction.
FaultComesWithInstruction ==
  id.valid /\ id.pc \in FaultAddrs /\ id.ir # Nop => id.fault

\* What the MMU relies on: while satp or mstatus changes, and in the cycle after,
\* no port requests, so that no request is translated with a look-up made before;
\* a change of mode finds no data access; and a fence comes when nothing waits.
TranslationQuiet ==
  [][/\ retire /\ wb.ir.op \in SerializingOps =>
          {inst_i, data_i, inst_i', data_i'} = {None}
     /\ trap \/ effective_ret => {data_i, data_i'} = {None}
     /\ flush_tlb' => ~mem_stall]_vars

\* friscv_ex_stage: "EX also executes TLB flushes during the first cycle of the
\* SFENCE.VMA instruction": every sfence that enters EX sends its fence.
FenceSent == [][~ex_stall /\ ex'.ir.op = "sfence" => flush_tlb']_vars

\* A misaligned branch captured in EX is held until decode takes its trap.
BranchTrapTaken == ex_trap # None ~> ex_trap = None

\* The pipeline never stops for good: something retires or traps again and again.
Progress == []<><<ArchState' # ArchState>>_vars

\* An interrupt that stays asserted and enabled is taken: draining the pipeline
\* and fetching cannot put it off for ever.
InterruptTaken == []<>~(irq_i /\ csr.mie)
=============================================================================

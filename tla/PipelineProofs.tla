---------------------------- MODULE PipelineProofs ----------------------------
(***************************************************************************)
(* Proofs about the pipeline with its arbiter and atomic unit, for any     *)
(* program, registers, memory contents, data width and memory timing: the  *)
(* memory port is stable, the address an atomic operation freezes is its   *)
(* own, and what the MMU relies on.                                        *)
(***************************************************************************)
EXTENDS Pipeline, TLAPS

FetchTyped ==
  /\ prog \in [CodeAddrs -> ProgInstrs]
  /\ pc_q \in CodeAddrs /\ ir_q \in ProgInstrs
  /\ fetch_active_q \in BOOLEAN /\ flush_pending_q \in BOOLEAN

StagesTyped ==
  /\ id \in [ir : ProgInstrs, pc : CodeAddrs, valid : BOOLEAN, fault : BOOLEAN]
  /\ ex \in [ir : ProgInstrs, pc : CodeAddrs, v : Data, valid : BOOLEAN, done : BOOLEAN]
  /\ mem \in [ir : ProgInstrs, pc : CodeAddrs, v : Data, rd : Regs \cup {0},
              cond : BOOLEAN, valid : BOOLEAN, done : BOOLEAN]
  /\ wb \in [ir : ProgInstrs, rd : Regs \cup {0}, v : Data, valid : BOOLEAN]
  /\ ex_trap \in CodeAddrs \cup {None} /\ r_mem_fault \in CodeAddrs \cup {None}
  /\ load_data_buff \in Data \cup {None} /\ r_mem_active \in BOOLEAN

Csrs == [mtvec : CodeAddrs, mepc : CodeAddrs, dpc : CodeAddrs,
         mie : BOOLEAN, mpie : BOOLEAN, step : BOOLEAN, ebreakm : BOOLEAN]

StateTyped ==
  /\ regs \in [Regs -> Data] /\ ram \in [DataAddrs -> Data]
  /\ csr \in Csrs

PortTyped ==
  /\ arb_state_q \in {"Idle", "HoldInst", "HoldData"} /\ data_priority_q \in BOOLEAN
  /\ arb_state_q = "HoldInst" => inst_req_q \in CodeAddrs
  /\ arb_state_q = "HoldData" => data_req_q \in DmemReqs
  /\ amo_state_q \in {"Idle", "Load", "Store"} /\ r_amo_addr_valid \in BOOLEAN
  /\ load_data_q \in Data /\ rs2_val_q \in Data

TypeOK == FetchTyped /\ StagesTyped /\ StateTyped /\ PortTyped

-----------------------------------------------------------------------------
(* AmoAddressOwn is not inductive.  The address register is released one   *)
(* cycle after an operation, and that the next is not there yet depends on *)
(* the arbiter: an access that reaches the memory stage finds the priority *)
(* with the data port, since the last thing the bus did was a fetch; so it *)
(* is served first, the fetch waits, and while the fetch waits the         *)
(* pipeline does not advance.                                              *)

\* An access waits with the bus held for it or with the priority, and no access
\* waits in EX while fetch has its word.
AccessFirst ==
  /\ r_mem_active =>
       /\ r_mem_fault = None /\ mem.ir.op \in MemOps
       /\ arb_state_q = "HoldData" \/ (arb_state_q = "Idle" /\ data_priority_q)
  /\ arb_state_q = "HoldData" => r_mem_active
  /\ ~fetch_active_q => ~ex_is_mem

\* The address register holds the address of the operation the bus is held for,
\* or there is no access.
AmoAddressHeld ==
  /\ amo_state_q # "Idle" => r_amo_addr_valid
  /\ r_amo_addr_valid =>
       \/ /\ arb_state_q = "HoldData"
          /\ data_req_q.op \in AmoOps /\ r_amo_addr = data_req_q.a
       \/ amo_state_q = "Idle" /\ ~r_mem_active

\* Behind a serializing instruction fetch keeps its word and EX is empty.
SerialIsAlone ==
  /\ ex_trap # None => ex.ir = Nop
  /\ flush_pending_q => id.ir = Nop
  /\ ex.ir.op \in SerializingOps => ~flush_pending_q
  /\ {mem.ir.op, wb.ir.op} \cap SerializingOps # {} =>
       ~fetch_active_q /\ ~flush_pending_q /\ ex.ir = Nop
  /\ wb.ir.op \in SerializingOps => ~r_mem_active

IInv == TypeOK /\ AccessFirst /\ AmoAddressHeld /\ SerialIsAlone

-----------------------------------------------------------------------------
(* A cycle *)

LEMMA DataIsInt ==
  /\ Data \subseteq Int /\ 0 \in Data /\ 1 \in Data
  /\ \A v, u \in Data : AluResult(v) \in Data /\ (u + v) % W \in Data
<1>1. W \in Nat /\ W > 1
  BY SizeAssumption
<1>2. \A n \in Nat : n % W \in 0 .. W - 1
  BY <1>1
<1>3. \A v, u \in Data : v + 1 \in Nat /\ u + v \in Nat
  BY <1>1 DEF Data
<1> QED
  BY <1>1, <1>2, <1>3 DEF Data, AluResult

LEMMA NopIsNop == Nop \in ProgInstrs /\ Nop.op = "nop" /\ 0 \in CodeAddrs
BY SizeAssumption DEF Nop, ProgInstrs, Instrs, Ops, CodeAddrs

LEMMA NextPcIsCode == ASSUME NEW pc \in CodeAddrs PROVE NextPc(pc) \in CodeAddrs
<1>1. NPc \in Nat \ {0} /\ pc + 1 \in Nat
  BY SizeAssumption DEF CodeAddrs
<1>2. \A n \in Nat, m \in Nat \ {0} : n % m \in 0 .. m - 1
  OBVIOUS
<1> QED
  BY <1>1, <1>2 DEF NextPc, CodeAddrs

\* Who asks for the port.
LEMMA Requests ==
  ASSUME TypeOK
  PROVE  /\ inst_i # None <=> fetch_active_q
         /\ inst_i # None => inst_i \in CodeAddrs
         /\ data_i # None <=> r_mem_active
         /\ data_i # None => data_i \in DmemReqs
<1>1. pc_q # None
  BY PipelineAssumption DEF TypeOK, FetchTyped, CodeAddrs
<1>2. [op |-> dmem_op, a |-> mem.ir.a, v |-> mem.v] \in DmemReqs
  <2>1. mem.ir.op \in Ops /\ mem.ir.a \in Nat /\ mem.v \in Data
    BY DEF TypeOK, StagesTyped, ProgInstrs, Instrs
  <2>2. dmem_op \in Ops
    BY <2>1 DEF dmem_op, Ops, MemOps
  <2> QED
    BY <2>1, <2>2 DEF DmemReqs
<1>3. [op |-> dmem_op, a |-> mem.ir.a, v |-> mem.v] # None
  BY <1>2, PipelineAssumption
<1> QED
  BY <1>1, <1>2, <1>3 DEF TypeOK, FetchTyped, StagesTyped, inst_i, data_i

\* Who has the port: an access that is active has it; a fetch only without one.
LEMMA PortOwner ==
  ASSUME IInv
  PROVE  /\ l2.port = "data" <=> r_mem_active
         /\ l2.port = "data" => l2.req \in DmemReqs
         /\ l2.port = "inst" => l2.req \in CodeAddrs
         /\ l2.port = "inst" <=>
              ArbReq!busy_inst
         /\ fetch_active_q /\ ~r_mem_active => l2.port = "inst"
         /\ l2.port \in {"none", "inst", "data"}
<1>1. /\ inst_i # None <=> fetch_active_q
      /\ inst_i # None => inst_i \in CodeAddrs
      /\ data_i # None <=> r_mem_active
      /\ data_i # None => data_i \in DmemReqs
  BY Requests DEF IInv
<1>2. /\ ArbReq!inst_en_i <=> fetch_active_q
      /\ ArbReq!data_en_i <=> r_mem_active
  BY <1>1 DEF ArbReq!inst_en_i, ArbReq!data_en_i
<1> QED
  BY <1>1, <1>2
     DEF IInv, TypeOK, PortTyped, AccessFirst, l2, ArbReq!mem_o, ArbReq!on_bus, ArbReq!Idle,
         ArbReq!busy_inst, ArbReq!busy_data, ArbReq!take_inst, ArbReq!take_data

\* What each stage is told to wait for.
LEMMA Waits ==
  ASSUME IInv
  PROVE  /\ dmem_wait <=> r_mem_active /\ Amo!l2_wait
         /\ r_mem_active /\ fetch_active_q => imem_wait
         /\ ~r_mem_active /\ fetch_active_q => (imem_wait <=> Amo!l2_wait)
         /\ ~r_mem_active /\ ~fetch_active_q /\ l2.port # "inst" => ~imem_wait
         /\ r_mem_active /\ ~fetch_active_q => ~imem_wait
<1>1. /\ inst_i # None <=> fetch_active_q
      /\ data_i # None <=> r_mem_active
  BY Requests DEF IInv
<1>2. /\ l2.port = "data" <=> r_mem_active
      /\ l2.port = "inst" <=> ArbReq!busy_inst
      /\ fetch_active_q /\ ~r_mem_active => l2.port = "inst"
  BY PortOwner
<1>3. /\ Arb!inst_en_i <=> fetch_active_q
      /\ Arb!data_en_i <=> r_mem_active
      /\ Arb!busy_inst <=> ArbReq!busy_inst
      /\ Arb!busy_data <=> ArbReq!busy_data
  BY <1>1 DEF Arb!inst_en_i, Arb!data_en_i, Arb!busy_inst, ArbReq!busy_inst, Arb!busy_data,
              ArbReq!busy_data, Arb!take_inst, ArbReq!take_inst, Arb!take_data,
              ArbReq!take_data, ArbReq!inst_en_i, ArbReq!data_en_i
<1>4. l2.port = "data" => ArbReq!busy_data /\ ~ArbReq!busy_inst
  BY DEF l2, ArbReq!mem_o, ArbReq!on_bus, ArbReq!Idle
<1>5. ArbReq!busy_data => r_mem_active
  BY <1>1 DEF ArbReq!busy_data, ArbReq!take_data, ArbReq!data_en_i, IInv, AccessFirst
<1> QED
  BY <1>1, <1>2, <1>3, <1>4, <1>5 DEF dmem_wait, imem_wait, Arb!inst_wait_o, Arb!data_wait_o

\* A fetch on the bus goes past the atomic unit.
LEMMA FetchPort ==
  ASSUME IInv, ~r_mem_active
  PROVE  /\ l2_amo_op = "none" /\ ~Amo!amo_bootstrap /\ ~Amo!amo_active
         /\ ~AmoReq!amo_bootstrap /\ ~AmoReq!amo_active
         /\ amo_state_q = "Idle" /\ AmoReq!amo_rw = "idle"
         /\ Amo!l2_wait <=> mem_wait_i
         /\ mem_rw = l2_rw /\ mem_addr = l2_addr
         /\ l2.port = "inst" => Amo!l2_rdata \in ProgInstrs
<1>1. l2.port # "data"
  BY PortOwner
<1>2. l2_amo_op = "none"
  BY <1>1 DEF l2_amo_op
<1>3. amo_state_q = "Idle"
  BY DEF IInv, AmoAddressHeld, AccessFirst
<1>4. /\ AmoReq!eff_amo = "none" /\ Amo!eff_amo = "none"
      /\ AmoReq!amo_rw = "idle" /\ Amo!amo_rw = "idle"
      /\ ~Amo!amo_bootstrap /\ ~AmoReq!amo_bootstrap
  BY <1>2, <1>3 DEF AmoReq!eff_amo, Amo!eff_amo, AmoReq!amo_rw, Amo!amo_rw,
                    Amo!amo_bootstrap, AmoReq!amo_bootstrap
<1>5. ~Amo!amo_active /\ ~AmoReq!amo_active
  BY <1>4 DEF Amo!amo_active, AmoReq!amo_active
<1>6. mem_rw = l2_rw /\ mem_addr = l2_addr
  BY <1>4, <1>5 DEF mem_rw, mem_addr, AmoReq!mem_rw, AmoReq!mem_addr
<1>7. ASSUME l2.port = "inst" PROVE Amo!l2_rdata \in ProgInstrs
  <2>1. l2_addr \in CodeAddrs
    BY <1>7, PortOwner DEF l2_addr
  <2>2. mem_rdata \in ProgInstrs
    BY <1>6, <1>7, <2>1 DEF mem_rdata, IInv, TypeOK, FetchTyped
  <2> QED
    BY <1>5, <2>2 DEF Amo!l2_rdata
<1>8. Amo!l2_wait <=> mem_wait_i
  BY <1>4, <1>5 DEF Amo!l2_wait
<1> QED
  BY <1>2, <1>3, <1>4, <1>5, <1>6, <1>7, <1>8

\* What the memory and the atomic unit give and take are data.
LEMMA DataTyped ==
  ASSUME IInv
  PROVE  /\ l2.port # "inst" => mem_rdata \in Data
         /\ AmoReq!mem_wdata \in Data
         /\ l2.port = "data" => Amo!l2_rdata \in Data
         /\ mem_data \in Data
<1>1. 0 \in Data /\ 1 \in Data /\ (\A v, u \in Data : (u + v) % W \in Data)
  BY DataIsInt
<1>2. l2.port # "inst" => mem_rdata \in Data
  BY <1>1 DEF mem_rdata, IInv, TypeOK, StateTyped
<1>3. l2_wdata \in Data
  BY <1>1, PortOwner DEF l2_wdata, DmemReqs
<1>4. AmoReq!amo_store_data \in Data
  BY <1>1 DEF AmoReq!amo_store_data, AmoReq!AmoResult, IInv, TypeOK, PortTyped
<1>5. AmoReq!mem_wdata \in Data
  BY <1>3, <1>4 DEF AmoReq!mem_wdata
<1>6. l2.port = "data" => Amo!l2_rdata \in Data
  BY <1>2 DEF Amo!l2_rdata, Amo!amo_load_data, IInv, TypeOK, PortTyped
<1>7. mem_data \in Data
  BY <1>1, <1>6 DEF mem_data, IInv, TypeOK, StagesTyped
<1> QED
  BY <1>2, <1>5, <1>6, <1>7

LEMMA InitIsTyped == Init => IInv
<1> SUFFICES ASSUME Init PROVE IInv
  OBVIOUS
<1>0. /\ Nop \in ProgInstrs /\ Nop.op = "nop" /\ 0 \in CodeAddrs /\ 0 \in Data
      /\ InitTvec \in CodeAddrs
  BY NopIsNop, DataIsInt, PipelineAssumption
<1>1. FetchTyped
  BY <1>0, PipelineAssumption DEF Init, FetchTyped
<1>2. StagesTyped
  BY <1>0 DEF Init, StagesTyped, IdBubble, ExBubble, MemBubble, WbBubble
<1>3. StateTyped
  BY <1>0, PipelineAssumption DEF Init, StateTyped, Csrs
<1>4. PortTyped
  BY <1>0 DEF Init, PortTyped, ArbReq!Reset, AmoReq!Reset
<1>5. AccessFirst /\ AmoAddressHeld
  BY DEF Init, AccessFirst, AmoAddressHeld, ArbReq!Reset, AmoReq!Reset
<1>6. SerialIsAlone
  BY <1>0 DEF Init, SerialIsAlone, SerializingOps, IdBubble, ExBubble, MemBubble, WbBubble
<1> QED
  BY <1>1, <1>2, <1>3, <1>4, <1>5, <1>6 DEF IInv, TypeOK

LEMMA FetchStep == ASSUME IInv, Next PROVE FetchTyped'
<1>0. FetchTyped /\ StagesTyped /\ StateTyped /\ Nop \in ProgInstrs /\ NextPc(pc_q) \in CodeAddrs
  BY NopIsNop, NextPcIsCode DEF IInv, TypeOK, FetchTyped
<1>1. flush => redirect_target \in CodeAddrs
  <2>1. csr.mepc \in CodeAddrs /\ csr.dpc \in CodeAddrs
    BY <1>0 DEF StateTyped, Csrs
  <2>2. tvec \in CodeAddrs
    BY <1>0, PipelineAssumption DEF tvec, StateTyped, Csrs
  <2>3. branch_ok => ex.ir.a \in CodeAddrs
    BY <1>0 DEF StagesTyped, branch_ok, branch_ok_raw, ProgInstrs
  <2>4. effective_jal => id.ir.a \in CodeAddrs
    BY <1>0 DEF StagesTyped, effective_jal, ProgInstrs
  <2> QED
    BY <2>1, <2>2, <2>3, <2>4 DEF flush, redirect_target
<1>2. fetch_active_q /\ ~imem_wait => Amo!l2_rdata \in ProgInstrs
  BY Waits, FetchPort, PortOwner DEF IInv, TypeOK
<1>3. IfEdge /\ prog' = prog
  BY DEF Next
<1> QED
  BY <1>0, <1>1, <1>2, <1>3
     DEF IfEdge, IfRedirect, IfRelease, IfAdvance, IfBuffer, IfHold, FetchTyped, ifVars

LEMMA StagesStep == ASSUME IInv, Next PROVE StagesTyped'
<1>0. /\ FetchTyped /\ StagesTyped /\ StateTyped
      /\ Nop \in ProgInstrs /\ 0 \in CodeAddrs /\ 0 \in Data
      /\ mem_data \in Data /\ (\A v \in Data : AluResult(v) \in Data)
  BY NopIsNop, DataIsInt, DataTyped DEF IInv, TypeOK
<1>1. if_ir \in ProgInstrs
  <2>1. fetch_active_q /\ ~imem_wait => Amo!l2_rdata \in ProgInstrs
    BY Waits, FetchPort, PortOwner DEF IInv, TypeOK
  <2> QED
    BY <1>0, <2>1 DEF if_ir, FetchTyped
<1>2. id' \in [ir : ProgInstrs, pc : CodeAddrs, valid : BOOLEAN, fault : BOOLEAN]
  BY <1>0, <1>1 DEF Next, IdEdge, IdBubble, StagesTyped, FetchTyped, if_err
<1>3. /\ ex' \in [ir : ProgInstrs, pc : CodeAddrs, v : Data, valid : BOOLEAN, done : BOOLEAN]
      /\ ex_trap' \in CodeAddrs \cup {None}
  <2>1. ExBubble \in [ir : ProgInstrs, pc : CodeAddrs, v : Data, valid : BOOLEAN, done : BOOLEAN]
    BY <1>0 DEF ExBubble
  <2>2. (IF id.ir.rs = 0 THEN 0 ELSE regs[id.ir.rs]) \in Data
    BY <1>0 DEF StagesTyped, StateTyped, ProgInstrs, Instrs
  <2>3. CASE ExTrapCommit
    BY <1>0, <2>1, <2>3 DEF ExTrapCommit
  <2>4. CASE ExTrapHold
    BY <1>0, <2>4 DEF ExTrapHold, StagesTyped
  <2>5. CASE ExMisaligned
    BY <1>0, <2>1, <2>5 DEF ExMisaligned, StagesTyped
  <2>6. CASE ExCapture
    BY <1>0, <2>1, <2>2, <2>6 DEF ExCapture, StagesTyped
  <2>7. CASE ExStalled
    BY <1>0, <2>7 DEF ExStalled, StagesTyped
  <2> QED
    BY <2>3, <2>4, <2>5, <2>6, <2>7 DEF Next, ExEdge
<1>4. /\ mem' \in [ir : ProgInstrs, pc : CodeAddrs, v : Data, rd : Regs \cup {0},
                   cond : BOOLEAN, valid : BOOLEAN, done : BOOLEAN]
      /\ r_mem_fault' \in CodeAddrs \cup {None}
      /\ load_data_buff' \in Data \cup {None} /\ r_mem_active' \in BOOLEAN
  <2>1. MemBubble \in [ir : ProgInstrs, pc : CodeAddrs, v : Data, rd : Regs \cup {0},
                       cond : BOOLEAN, valid : BOOLEAN, done : BOOLEAN]
    BY <1>0 DEF MemBubble
  <2>2. CASE MemTrapCommit
    BY <1>0, <2>1, <2>2 DEF MemTrapCommit
  <2>3. CASE MemFaultHold
    BY <1>0, <2>3 DEF MemFaultHold, StagesTyped
  <2>4. CASE MemFaultAdvance \/ MemMisaligned
    BY <1>0, <2>1, <2>4 DEF MemFaultAdvance, MemMisaligned, MemFault, StagesTyped
  <2>5. CASE MemCapture
    <3>1. ex_rd_sel \in Regs \cup {0}
      BY <1>0 DEF ex_rd_sel, StagesTyped, ProgInstrs, Instrs
    <3>2. (IF ex.ir.op \in {"alu", "div"} THEN AluResult(ex.v) ELSE ex.v) \in Data
      BY <1>0 DEF StagesTyped
    <3>3. cond_valid \in BOOLEAN /\ branch_misaligned \in BOOLEAN /\ ex_is_mem \in BOOLEAN
      BY DEF cond_valid, branch_misaligned, ex_is_mem
    <3> QED
      BY <1>0, <2>5, <3>1, <3>2, <3>3 DEF MemCapture, StagesTyped
  <2>6. CASE MemComplete
    BY <1>0, <2>6 DEF MemComplete, StagesTyped
  <2>7. CASE MemHold
    BY <1>0, <2>7 DEF MemHold, memVars, StagesTyped
  <2> QED
    BY <2>2, <2>3, <2>4, <2>5, <2>6, <2>7 DEF Next, MemEdge
<1>5. wb' \in [ir : ProgInstrs, rd : Regs \cup {0}, v : Data, valid : BOOLEAN]
  BY <1>0 DEF Next, WbEdge, StagesTyped, mem_rd_sel, mem_completion_fault
<1> QED
  BY <1>2, <1>3, <1>4, <1>5 DEF StagesTyped

LEMMA StateStep == ASSUME IInv, Next PROVE StateTyped'
<1>0. /\ FetchTyped /\ StagesTyped /\ StateTyped /\ AmoReq!mem_wdata \in Data
  BY DataTyped DEF IInv, TypeOK
<1>1. regs' \in [Regs -> Data]
  BY <1>0 DEF Next, RegfileEdge, StateTyped, StagesTyped
<1>2. ram' \in [DataAddrs -> Data]
  BY <1>0 DEF Next, RamEdge, StateTyped
<1>3. csr' \in Csrs
  <2>0. csr \in Csrs
    BY <1>0 DEF StateTyped
  <2>1. trap_epc \in CodeAddrs
    BY <1>0 DEF trap_epc, is_mem_trap, is_ex_trap, StagesTyped
  <2>2. CASE csr' = csr
    BY <2>0, <2>2
  <2>3. CASE csr' = [csr EXCEPT !.dpc = trap_epc]
    BY <2>0, <2>1, <2>3 DEF Csrs
  <2>4. CASE csr' = [csr EXCEPT !.mepc = trap_epc, !.mpie = csr.mie, !.mie = FALSE]
    BY <2>0, <2>1, <2>4 DEF Csrs
  <2>5. CASE csr' = [csr EXCEPT !.mie = csr.mpie, !.mpie = TRUE]
    BY <2>0, <2>5 DEF Csrs
  <2>6. CASE csr' = CsrWritten(csr)
    <3>1. wb.ir.op \in {"mtvec", "mepc"} => wb.ir.a \in CodeAddrs
      BY <1>0 DEF StagesTyped, ProgInstrs
    <3>2. CASE wb.ir.op = "mtvec"
      BY <2>0, <2>6, <3>1, <3>2 DEF CsrWritten, Csrs
    <3>3. CASE wb.ir.op = "mepc"
      BY <2>0, <2>6, <3>1, <3>3 DEF CsrWritten, Csrs
    <3>4. CASE wb.ir.op = "mstatus"
      BY <2>0, <2>6, <3>4 DEF CsrWritten, Csrs
    <3>5. CASE wb.ir.op = "dcsr"
      <4> DEFINE b == wb.ir.a % 2 = 1
                 h == wb.ir.a > 1
      <4>1. b \in BOOLEAN /\ h \in BOOLEAN
        OBVIOUS
      <4> HIDE DEF b, h
      <4>2. csr' = [csr EXCEPT !.step = b, !.ebreakm = h]
        BY <2>6, <3>5 DEF CsrWritten, b, h
      <4> QED
        BY <2>0, <4>1, <4>2 DEF Csrs
    <3>6. CASE wb.ir.op \notin {"mtvec", "mepc", "mstatus", "dcsr"}
      BY <2>0, <2>6, <3>6 DEF CsrWritten
    <3> QED
      BY <3>2, <3>3, <3>4, <3>5, <3>6
  <2> QED
    BY <2>2, <2>3, <2>4, <2>5, <2>6 DEF Next, CsrEdge
<1> QED
  BY <1>1, <1>2, <1>3 DEF StateTyped

LEMMA PortStep == ASSUME IInv, Next PROVE PortTyped'
<1>0. /\ PortTyped
      /\ inst_i # None <=> fetch_active_q
      /\ inst_i # None => inst_i \in CodeAddrs
      /\ data_i # None <=> r_mem_active
      /\ data_i # None => data_i \in DmemReqs
  BY Requests DEF IInv, TypeOK
<1>1. /\ arb_state_q' \in {"Idle", "HoldInst", "HoldData"} /\ data_priority_q' \in BOOLEAN
      /\ arb_state_q' = "HoldInst" => inst_req_q' \in CodeAddrs
      /\ arb_state_q' = "HoldData" => data_req_q' \in DmemReqs
  <2>1. Arb!busy_inst \in BOOLEAN
    BY DEF Arb!busy_inst
  <2>2. Arb!take_inst => inst_i \in CodeAddrs
    BY <1>0 DEF Arb!take_inst, Arb!inst_en_i
  <2>3. Arb!take_data => data_i \in DmemReqs
    BY <1>0 DEF Arb!take_data, Arb!data_en_i
  <2> QED
    BY <1>0, <2>1, <2>2, <2>3
       DEF Next, Arb!Edge, Arb!ParkInst, Arb!ParkData, Arb!Complete, Arb!Hold, Arb!regs, PortTyped
<1>2. l2_wdata \in Data
  BY DataIsInt, PortOwner DEF l2_wdata, DmemReqs
<1>3. amo_state_q = "Load" => mem_rdata \in Data
  BY DataTyped, PortOwner, FetchPort
<1>4. /\ amo_state_q' \in {"Idle", "Load", "Store"}
      /\ load_data_q' \in Data /\ rs2_val_q' \in Data
  BY <1>0, <1>2, <1>3
     DEF Next, Amo!Edge, Amo!Start, Amo!Loaded, Amo!Stored, Amo!Hold, PortTyped
<1>5. r_amo_addr_valid' \in BOOLEAN
  BY <1>0 DEF Next, Amo!Edge, Amo!AddressEdge, PortTyped
<1> QED
  BY <1>1, <1>4, <1>5 DEF PortTyped

LEMMA TypeStep == ASSUME IInv, Next PROVE TypeOK'
BY FetchStep, StagesStep, StateStep, PortStep DEF TypeOK

-----------------------------------------------------------------------------
(* Who may ask next *)

\* A trap finds the stages ahead empty.
LEMMA TrapFindsNothing ==
  ASSUME trap
  PROVE  ~r_mem_active /\ ~ex_is_mem /\ csr_inflight = {} /\ ~muldiv_active
BY DEF trap, trap_hazard

\* An access stays until the memory answers, and comes from EX as the pipeline
\* advances.
LEMMA AccessComes ==
  ASSUME IInv, Next, r_mem_active'
  PROVE  \/ r_mem_active /\ dmem_wait /\ UNCHANGED memVars
         \/ /\ ~mem_stall /\ ex_is_mem
            /\ r_mem_fault' = None /\ mem'.ir = ex.ir
<1>1. CASE MemTrapCommit \/ MemFaultHold \/ MemFaultAdvance \/ MemMisaligned \/ MemComplete
  BY <1>1 DEF MemTrapCommit, MemFaultHold, MemFaultAdvance, MemMisaligned, MemComplete, MemFault
<1>2. CASE MemCapture
  BY <1>2 DEF MemCapture, MemAccept
<1>3. CASE MemHold
  BY <1>3 DEF MemHold, memVars
<1> QED
  BY <1>1, <1>2, <1>3 DEF Next, MemEdge

-----------------------------------------------------------------------------
(* The port keeps its request *)

\* The arbiter holds what the atomic unit makes wait.
LEMMA RequestHeld ==
  ASSUME IInv, Next, l2.port # "none", Amo!l2_wait
  PROVE  l2' = l2 /\ arb_state_q' = (IF l2.port = "data" THEN "HoldData" ELSE "HoldInst")
<1>1. /\ Arb!busy_inst <=> ArbReq!busy_inst
      /\ Arb!busy_data <=> ArbReq!busy_data
      /\ Arb!take_inst <=> ArbReq!take_inst
      /\ Arb!take_data <=> ArbReq!take_data
  BY DEF Arb!inst_en_i, Arb!data_en_i, Arb!busy_inst, ArbReq!busy_inst, Arb!busy_data,
         ArbReq!busy_data, Arb!take_inst, ArbReq!take_inst, Arb!take_data,
         ArbReq!take_data, ArbReq!inst_en_i, ArbReq!data_en_i
<1>2. ~Arb!done
  BY DEF Arb!done
<1>3. CASE ArbReq!take_inst
  <2>1. /\ l2.port = "inst" /\ l2 = [port |-> "inst", req |-> inst_i]
        /\ arb_state_q' = "HoldInst" /\ inst_req_q' = inst_i
    BY <1>1, <1>2, <1>3 DEF Next, Arb!Edge, Arb!ParkInst, Arb!ParkData, Arb!Complete, Arb!Hold,
       Arb!park, l2, ArbReq!mem_o, ArbReq!on_bus, ArbReq!busy_inst, ArbReq!take_inst,
       Arb!take_data, Arb!take_inst
  <2> QED
    BY <2>1 DEF l2, ArbReq!mem_o, ArbReq!on_bus, ArbReq!busy_inst, ArbReq!take_inst
<1>4. CASE ArbReq!take_data
  <2>1. /\ l2.port = "data" /\ l2 = [port |-> "data", req |-> data_i]
        /\ arb_state_q' = "HoldData" /\ data_req_q' = data_i
    BY <1>1, <1>2, <1>4 DEF Next, Arb!Edge, Arb!ParkInst, Arb!ParkData, Arb!Complete, Arb!Hold,
       Arb!park, l2, ArbReq!mem_o, ArbReq!on_bus, ArbReq!busy_inst, ArbReq!busy_data,
       ArbReq!take_inst, ArbReq!take_data, Arb!take_inst, Arb!take_data
  <2> QED
    BY <2>1 DEF l2, ArbReq!mem_o, ArbReq!on_bus, ArbReq!busy_inst, ArbReq!busy_data,
                ArbReq!take_inst, ArbReq!take_data
<1>5. CASE ~ArbReq!take_inst /\ ~ArbReq!take_data
  <2>1. arb_state_q' = arb_state_q /\ inst_req_q' = inst_req_q /\ data_req_q' = data_req_q
    BY <1>1, <1>2, <1>5 DEF Next, Arb!Edge, Arb!ParkInst, Arb!ParkData, Arb!Complete, Arb!Hold,
       Arb!park, Arb!regs
  <2>2. \/ arb_state_q = "HoldInst" /\ l2 = [port |-> "inst", req |-> inst_req_q]
        \/ arb_state_q = "HoldData" /\ l2 = [port |-> "data", req |-> data_req_q]
    BY <1>5 DEF l2, ArbReq!mem_o, ArbReq!on_bus, ArbReq!busy_inst, ArbReq!busy_data, ArbReq!Idle
  <2> QED
    BY <2>1, <2>2 DEF l2, ArbReq!mem_o, ArbReq!on_bus, ArbReq!busy_inst, ArbReq!busy_data,
                      ArbReq!take_inst, ArbReq!take_data
<1> QED
  BY <1>3, <1>4, <1>5

\* While an atomic operation is on the bus the unit is past its first cycle or in it.
LEMMA OperationState ==
  ASSUME IInv
  PROVE  /\ l2_amo_op = "none" => amo_state_q = "Idle"
         /\ AmoReq!eff_amo = Amo!eff_amo /\ AmoReq!amo_rw = Amo!amo_rw
         /\ AmoReq!amo_bootstrap <=> Amo!amo_bootstrap
         /\ AmoReq!amo_active <=> Amo!amo_active
<1>1. amo_state_q # "Idle" => l2_amo_op # "none"
  BY DEF IInv, AmoAddressHeld, l2_amo_op, l2, ArbReq!mem_o, ArbReq!on_bus, ArbReq!busy_inst,
         ArbReq!busy_data, ArbReq!take_inst, ArbReq!take_data, AmoOps
<1> QED
  BY <1>1 DEF AmoReq!eff_amo, Amo!eff_amo, AmoReq!amo_rw, Amo!amo_rw, AmoReq!amo_bootstrap,
              Amo!amo_bootstrap, AmoReq!amo_active, Amo!amo_active

LEMMA WaitKeepsRequest ==
  ASSUME IInv, Next, mem_rw # "idle", mem_wait_i
  PROVE  /\ mem_rw' = mem_rw /\ mem_addr' = mem_addr
         /\ mem_rw = "write" => AmoReq!mem_wdata' = AmoReq!mem_wdata
<1>0. ~mem_err /\ ~AmoReq!amo_bootstrap
  BY DEF mem_err, mem_rw, AmoReq!mem_rw
<1>1. CASE l2_amo_op = "none"
  <2>1. /\ amo_state_q = "Idle" /\ AmoReq!eff_amo = "none" /\ AmoReq!amo_rw = "idle"
        /\ ~AmoReq!amo_active /\ ~Amo!amo_active /\ ~Amo!amo_bootstrap
    BY <1>0, <1>1, OperationState DEF AmoReq!eff_amo, AmoReq!amo_rw, AmoReq!amo_active
  <2>2. mem_rw = l2_rw /\ mem_addr = l2_addr /\ AmoReq!mem_wdata = l2_wdata /\ Amo!l2_wait
    BY <1>0, <2>1 DEF mem_rw, mem_addr, AmoReq!mem_rw, AmoReq!mem_addr, AmoReq!mem_wdata, Amo!l2_wait
  <2>3. l2' = l2
    BY <2>2, RequestHeld DEF l2_rw
  <2>4. l2_rw' = l2_rw /\ l2_addr' = l2_addr /\ l2_wdata' = l2_wdata /\ l2_amo_op' = l2_amo_op
    BY <2>3 DEF l2_rw, l2_addr, l2_wdata, l2_amo_op
  <2>5. amo_state_q' = "Idle"
    BY <2>1, OperationState DEF Next, Amo!Edge, Amo!Start, Amo!Loaded, Amo!Stored, Amo!Hold
  <2>6. ~AmoReq!amo_bootstrap' /\ ~AmoReq!amo_active'
    BY <1>1, <2>4, <2>5 DEF AmoReq!amo_bootstrap, AmoReq!amo_active, AmoReq!eff_amo, AmoReq!amo_rw
  <2> QED
    BY <2>2, <2>4, <2>6 DEF mem_rw, mem_addr, AmoReq!mem_rw, AmoReq!mem_addr, AmoReq!mem_wdata
<1>2. CASE l2_amo_op # "none"
  <2>1. /\ r_amo_addr_valid /\ AmoReq!eff_amo = l2_amo_op
        /\ AmoReq!amo_active /\ Amo!amo_active /\ ~Amo!amo_bootstrap
    BY <1>0, <1>2, OperationState DEF AmoReq!amo_bootstrap, AmoReq!eff_amo, AmoReq!amo_active
  <2>2. mem_rw = AmoReq!amo_rw /\ mem_addr = r_amo_addr /\ AmoReq!mem_wdata = AmoReq!amo_store_data
    BY <1>0, <2>1 DEF mem_rw, mem_addr, AmoReq!mem_rw, AmoReq!mem_addr, AmoReq!mem_wdata
  <2>3. Amo!l2_wait
    BY <1>0, <1>2, <2>1, OperationState
       DEF Amo!l2_wait, Amo!amo_core_wait, IInv, TypeOK, PortTyped
  <2>4. l2' = l2
    BY <1>2, <2>3, RequestHeld DEF l2_amo_op
  <2>5. l2_amo_op' = l2_amo_op
    BY <2>4 DEF l2_amo_op
  <2>6. r_amo_addr_valid' = r_amo_addr_valid /\ r_amo_addr' = r_amo_addr
    <3>1. Amo!amo_rw # "idle"
      BY <2>2, OperationState
    <3> QED
      BY <2>1, <3>1 DEF Next, Amo!Edge, Amo!AddressEdge
  <2>7. /\ ~AmoReq!amo_bootstrap' /\ AmoReq!amo_active'
        /\ AmoReq!eff_amo' # "none"
    BY <1>2, <2>1, <2>5, <2>6 DEF AmoReq!amo_bootstrap, AmoReq!eff_amo, AmoReq!amo_active
  <2>8. \/ /\ amo_state_q = "Idle" /\ amo_state_q' = "Load"
        \/ /\ amo_state_q' = amo_state_q /\ amo_state_q # "Idle"
           /\ UNCHANGED <<load_data_q, rs2_val_q, amo_op_q>>
    BY <1>2, <2>1, OperationState
       DEF Next, Amo!Edge, Amo!Start, Amo!Loaded, Amo!Stored, Amo!Hold
  <2>9. AmoReq!amo_rw' = AmoReq!amo_rw
    BY <1>2, <2>1, <2>7, <2>8 DEF AmoReq!amo_rw
  <2>10. mem_rw = "write" => AmoReq!amo_store_data' = AmoReq!amo_store_data
    BY <2>2, <2>8 DEF AmoReq!amo_rw, AmoReq!amo_store_data
  <2> QED
    BY <2>1, <2>2, <2>6, <2>7, <2>9, <2>10
       DEF mem_rw, mem_addr, AmoReq!mem_rw, AmoReq!mem_addr, AmoReq!mem_wdata
<1> QED
  BY <1>1, <1>2

-----------------------------------------------------------------------------
(* The invariant *)

\* The instruction in EX leaves, stays through a stall, or is the one decode
\* gives, which then waits for nothing.
LEMMA ExComes ==
  ASSUME IInv, Next
  PROVE  \/ ex'.ir = Nop
         \/ ex_stall /\ ex_trap = None /\ ~ex_trap_commit /\ ex'.ir = ex.ir
         \/ ~ex_stall /\ ~id_stall /\ ~trap /\ ~branch_ok /\ ex'.ir = id.ir
<1>1. CASE ExTrapCommit \/ ExMisaligned
  BY <1>1 DEF ExTrapCommit, ExMisaligned, ExBubble
<1>2. CASE ExTrapHold
  BY <1>2 DEF ExTrapHold, IInv, SerialIsAlone
<1>3. CASE ExCapture
  BY <1>3 DEF ExCapture, ExBubble, flush_ex, ex_stall, id_stall
<1>4. CASE ExStalled
  BY <1>4 DEF ExStalled, IInv, TypeOK, StagesTyped
<1> QED
  BY <1>1, <1>2, <1>3, <1>4 DEF Next, ExEdge

\* The cycle after an answer there is no access.
LEMMA AnswerFreesMem ==
  ASSUME IInv, Next, r_mem_active, ~Amo!l2_wait
  PROVE  ~r_mem_active'
<1>1. ~dmem_wait
  BY Waits
<1>2. fetch_active_q => mem_stall
  BY Waits DEF mem_stall
<1> QED
  BY <1>1, <1>2, AccessComes DEF IInv, AccessFirst

LEMMA AccessStep == ASSUME IInv, Next PROVE AccessFirst'
<1>1. ASSUME r_mem_active'
      PROVE  /\ r_mem_fault' = None /\ mem'.ir.op \in MemOps
             /\ arb_state_q' = "HoldData" \/ (arb_state_q' = "Idle" /\ data_priority_q')
  <2>1. CASE r_mem_active /\ dmem_wait /\ UNCHANGED memVars
    <3>1. Amo!l2_wait /\ l2.port = "data"
      BY <2>1, Waits, PortOwner
    <3>2. arb_state_q' = "HoldData"
      BY <3>1, RequestHeld
    <3> QED
      BY <2>1, <3>2 DEF IInv, AccessFirst, memVars
  <2>2. CASE ~mem_stall /\ ex_is_mem /\ r_mem_fault' = None /\ mem'.ir = ex.ir
    <3>1. fetch_active_q /\ ~r_mem_active
      BY <2>2, Waits DEF IInv, AccessFirst, mem_stall
    <3>2. ~Amo!l2_wait /\ ArbReq!busy_inst
      BY <2>2, <3>1, Waits, PortOwner DEF mem_stall
    <3>3. Arb!busy_inst
      BY <3>2 DEF Arb!inst_en_i, Arb!data_en_i, Arb!busy_inst, ArbReq!busy_inst,
                  Arb!take_inst, ArbReq!take_inst, ArbReq!inst_en_i, ArbReq!data_en_i
    <3>4. arb_state_q' = "Idle" /\ data_priority_q'
      BY <3>2, <3>3 DEF Next, Arb!Edge, Arb!ParkInst, Arb!ParkData, Arb!Complete, Arb!Hold,
                        Arb!park, Arb!done
    <3> QED
      BY <2>2, <3>4 DEF ex_is_mem
  <2> QED
    BY <1>1, <2>1, <2>2, AccessComes
<1>2. ASSUME arb_state_q' = "HoldData" PROVE r_mem_active'
  <2>1. ArbReq!take_data \/ arb_state_q = "HoldData"
    BY <1>2 DEF Next, Arb!Edge, Arb!ParkInst, Arb!ParkData, Arb!Complete, Arb!Hold, Arb!regs,
                Arb!take_data, ArbReq!take_data, Arb!inst_en_i, Arb!data_en_i,
                ArbReq!inst_en_i, ArbReq!data_en_i
  <2>2. r_mem_active
    BY <2>1, Requests DEF IInv, AccessFirst, ArbReq!take_data, ArbReq!data_en_i
  <2>3. Amo!l2_wait
    <3>1. Arb!busy_data
      BY <2>1 DEF Arb!busy_data, Arb!take_data, ArbReq!take_data, Arb!inst_en_i, Arb!data_en_i,
                  ArbReq!inst_en_i, ArbReq!data_en_i
    <3> QED
      BY <1>2, <3>1 DEF Next, Arb!Edge, Arb!ParkInst, Arb!ParkData, Arb!Complete, Arb!Hold,
                        Arb!park, Arb!done
  <2>4. dmem_wait
    BY <2>2, <2>3, Waits
  <2>5. ~trap /\ r_mem_fault = None /\ mem_stall
    BY <2>2, <2>4, TrapFindsNothing DEF IInv, AccessFirst, mem_stall
  <2> QED
    BY <2>2, <2>4, <2>5 DEF Next, MemEdge, MemTrapCommit, MemFaultHold, MemFaultAdvance,
       MemMisaligned, MemCapture, MemComplete, MemHold, MemAccept, memVars
<1>3. ASSUME ~fetch_active_q' PROVE ~ex_is_mem'
  <2>1. id_stall /\ (IfBuffer \/ (IfHold /\ ~fetch_active_q))
    BY <1>3 DEF Next, IfEdge, IfRedirect, IfRelease, IfAdvance, IfBuffer, IfHold, ifVars
  <2>2. CASE IfBuffer
    <3>1. ~r_mem_active /\ ~mem_stall
      BY <2>2, Waits DEF IfBuffer, mem_stall
    <3> QED
      BY <2>1, <3>1, ExComes, NopIsNop DEF ex_stall, muldiv_active, ex_is_mem, MemOps, AmoOps
  <2>3. CASE IfHold /\ ~fetch_active_q
    <3>1. ~ex_is_mem
      BY <2>3 DEF IInv, AccessFirst
    <3> QED
      BY <2>1, <3>1, ExComes, NopIsNop DEF ex_is_mem, MemOps, AmoOps
  <2> QED
    BY <2>1, <2>2, <2>3
<1> QED
  BY <1>1, <1>2, <1>3 DEF AccessFirst

LEMMA AddressStep == ASSUME IInv, Next PROVE AmoAddressHeld'
<1>0. AmoAddressHeld /\ PortTyped
  BY DEF IInv, TypeOK
<1>1. ASSUME l2_amo_op # "none", Amo!l2_wait
      PROVE  /\ arb_state_q' = "HoldData" /\ data_req_q' = l2.req
             /\ l2.req.op \in AmoOps /\ l2_addr = l2.req.a
  <2>1. l2.port = "data" /\ l2.req.op \in AmoOps /\ l2_addr = l2.req.a
    BY <1>1 DEF l2_amo_op, l2_addr
  <2>2. l2' = l2 /\ arb_state_q' = "HoldData"
    BY <1>1, <2>1, RequestHeld
  <2>3. l2'.req = data_req_q'
    BY <2>2 DEF l2, ArbReq!mem_o, ArbReq!on_bus, ArbReq!busy_inst, ArbReq!busy_data,
                ArbReq!take_inst, ArbReq!take_data
  <2> QED
    BY <2>1, <2>2, <2>3
<1>2. CASE Amo!amo_bootstrap
  <2>1. l2_amo_op # "none" /\ Amo!l2_wait
    BY <1>2 DEF Amo!amo_bootstrap, Amo!amo_active, Amo!l2_wait
  <2>2. r_amo_addr_valid' /\ r_amo_addr' = l2_addr
    BY <1>2 DEF Next, Amo!Edge, Amo!AddressEdge
  <2> QED
    BY <1>1, <2>1, <2>2 DEF AmoAddressHeld
<1>3. CASE ~Amo!amo_bootstrap /\ Amo!amo_rw = "idle"
  <2>1. amo_state_q = "Idle" /\ Amo!eff_amo = "none"
    BY <1>0, <1>3 DEF Amo!amo_rw, PortTyped
  <2>2. amo_state_q' = "Idle"
    BY <2>1 DEF Next, Amo!Edge, Amo!Start, Amo!Loaded, Amo!Stored, Amo!Hold
  <2>3. ~r_amo_addr_valid'
    BY <1>0, <1>3 DEF Next, Amo!Edge, Amo!AddressEdge, PortTyped
  <2> QED
    BY <2>2, <2>3 DEF AmoAddressHeld
<1>4. CASE ~Amo!amo_bootstrap /\ Amo!amo_rw # "idle"
  <2>1. r_amo_addr_valid /\ l2_amo_op # "none" /\ Amo!eff_amo # "none"
    <3>1. r_amo_addr_valid
      BY <1>0, <1>4 DEF AmoAddressHeld, Amo!amo_rw, Amo!eff_amo
    <3>2. l2_amo_op # "none"
      BY <1>4, OperationState DEF Amo!amo_rw, Amo!eff_amo
    <3> QED
      BY <3>1, <3>2 DEF Amo!eff_amo
  <2>2. r_mem_active /\ l2.port = "data"
    BY <2>1, PortOwner DEF l2_amo_op
  <2>3. arb_state_q = "HoldData" /\ data_req_q.op \in AmoOps /\ r_amo_addr = data_req_q.a
    BY <1>0, <2>1, <2>2 DEF AmoAddressHeld
  <2>4. l2.req = data_req_q
    BY <2>3 DEF l2, ArbReq!mem_o, ArbReq!on_bus, ArbReq!busy_inst, ArbReq!busy_data,
                ArbReq!take_inst, ArbReq!take_data
  <2>5. r_amo_addr_valid' /\ r_amo_addr' = r_amo_addr
    BY <1>4, <2>1 DEF Next, Amo!Edge, Amo!AddressEdge
  <2>6. CASE Amo!l2_wait
    BY <1>1, <2>1, <2>3, <2>4, <2>5, <2>6 DEF AmoAddressHeld
  <2>7. CASE ~Amo!l2_wait
    <3>1. ~r_mem_active'
      BY <2>2, <2>7, AnswerFreesMem
    <3>2. amo_state_q' = "Idle"
      BY <1>0, <1>4, <2>1, <2>7
         DEF Amo!l2_wait, Amo!amo_active, Amo!amo_core_wait, PortTyped, mem_err,
             Next, Amo!Edge, Amo!Start, Amo!Loaded, Amo!Stored, Amo!Hold
    <3> QED
      BY <2>5, <3>1, <3>2 DEF AmoAddressHeld
  <2> QED
    BY <2>6, <2>7
<1> QED
  BY <1>2, <1>3, <1>4

\* A serializing instruction ahead stops decode, and nothing redirects fetch.
LEMMA SerialStops ==
  ASSUME IInv, csr_inflight \cap SerializingOps # {}
  PROVE  ~trap /\ ~flush /\ id_stall /\ ~flush_pending_q
<1>1. ~trap
  BY TrapFindsNothing
<1>2. id_stall
  BY DEF id_stall, hazard_stall, serializing_csr_hazard
<1>3. /\ ex.ir.op \in SerializingOps \/ {mem.ir.op, wb.ir.op} \cap SerializingOps # {}
      /\ ~flush_pending_q
  BY DEF csr_inflight, IInv, SerialIsAlone
<1>4. ~branch_ok
  BY <1>3, NopIsNop DEF branch_ok, branch_ok_raw, IInv, SerialIsAlone, SerializingOps
<1> QED
  BY <1>1, <1>2, <1>3, <1>4 DEF flush, effective_jal, effective_ret

LEMMA SerialStep == ASSUME IInv, Next PROVE SerialIsAlone'
<1>0. SerialIsAlone /\ Nop.op = "nop" /\ CsrOps \cap SerializingOps = SerializingOps
  BY NopIsNop DEF IInv, CsrOps, SerializingOps
<1>1. ASSUME ex_trap' # None PROVE ex'.ir = Nop
  BY <1>0, <1>1 DEF Next, ExEdge, ExTrapCommit, ExTrapHold, ExMisaligned, ExCapture, ExStalled,
                    ExBubble, SerialIsAlone
<1>2. ASSUME flush_pending_q' PROVE id'.ir = Nop
  <2>1. flush \/ (id_stall /\ flush_pending_q)
    BY <1>2 DEF Next, IfEdge, IfRedirect, IfRelease, IfAdvance, IfBuffer, IfHold, ifVars
  <2> QED
    BY <1>0, <2>1 DEF Next, IdEdge, IdBubble, SerialIsAlone
<1>3. ASSUME csr_inflight \cap SerializingOps # {}
      PROVE  /\ ~flush_pending_q' /\ (~fetch_active_q' \/ (fetch_active_q /\ mem_stall))
             /\ ~fetch_active_q => ~fetch_active_q'
  BY <1>3, SerialStops
     DEF Next, IfEdge, IfRedirect, IfRelease, IfAdvance, IfBuffer, IfHold, ifVars, mem_stall
<1>4. ASSUME ex'.ir.op \in SerializingOps PROVE ~flush_pending_q'
  <2>1. CASE ex'.ir = ex.ir
    <3>1. csr_inflight \cap SerializingOps # {}
      BY <1>0, <1>4, <2>1 DEF csr_inflight
    <3> QED
      BY <1>3, <3>1
  <2>2. CASE ~id_stall /\ ~trap /\ ~branch_ok /\ ex'.ir = id.ir
    <3>1. id.ir # Nop /\ id.ir.op \notin {"jal", "mret", "dret"}
      BY <1>0, <1>4, <2>2 DEF SerializingOps
    <3>2. ~flush /\ ~flush_pending_q
      BY <1>0, <2>2, <3>1 DEF flush, effective_jal, effective_ret, ret, RetOps, SerialIsAlone
    <3> QED
      BY <3>2 DEF Next, IfEdge, IfRedirect, IfRelease, IfAdvance, IfBuffer, IfHold, ifVars
  <2> QED
    BY <1>0, <1>4, <2>1, <2>2, ExComes DEF SerializingOps
<1>5. mem'.ir.op \in SerializingOps =>
        \/ mem.ir.op \in SerializingOps
        \/ ex.ir.op \in SerializingOps /\ ~mem_stall
  <2>1. CASE MemTrapCommit \/ MemFaultAdvance \/ MemMisaligned
    BY <1>0, <2>1 DEF MemTrapCommit, MemFaultAdvance, MemMisaligned, MemFault, MemBubble,
                      SerializingOps
  <2>2. CASE MemFaultHold \/ MemComplete
    BY <2>2 DEF MemFaultHold, MemComplete, IInv, TypeOK, StagesTyped
  <2>3. CASE MemCapture
    BY <2>3 DEF MemCapture, MemAccept
  <2>4. CASE MemHold
    BY <2>4 DEF MemHold, memVars
  <2> QED
    BY <2>1, <2>2, <2>3, <2>4 DEF Next, MemEdge
<1>6. wb'.ir.op \in SerializingOps =>
        \/ wb.ir.op \in SerializingOps /\ mem_stall
        \/ mem.ir.op \in SerializingOps /\ ~mem_stall
  BY DEF Next, WbEdge
<1>7. ASSUME {mem'.ir.op, wb'.ir.op} \cap SerializingOps # {}
      PROVE  ~fetch_active_q' /\ ~flush_pending_q' /\ ex'.ir = Nop
  <2>1. \/ {mem.ir.op, wb.ir.op} \cap SerializingOps # {}
        \/ ex.ir.op \in SerializingOps /\ ~mem_stall
    BY <1>5, <1>6, <1>7
  <2>2. csr_inflight \cap SerializingOps # {}
    BY <1>0, <2>1 DEF csr_inflight
  <2>3. ~fetch_active_q' /\ ~flush_pending_q'
    BY <1>0, <1>3, <2>1, <2>2 DEF SerialIsAlone
  <2>4. ~(ex.ir.op \in SerializingOps /\ ~mem_stall /\ ex_stall)
    BY DEF ex_stall, muldiv_active, SerializingOps
  <2>5. id_stall
    BY <2>2, SerialStops
  <2>6. ex'.ir \in {Nop, ex.ir}
    BY <2>5, ExComes
  <2>7. ex'.ir = Nop
    <3>1. CASE {mem.ir.op, wb.ir.op} \cap SerializingOps # {}
      BY <1>0, <2>6, <3>1 DEF SerialIsAlone
    <3>2. CASE ex.ir.op \in SerializingOps /\ ~mem_stall
      BY <2>4, <2>5, <3>2, ExComes
    <3> QED
      BY <2>1, <3>1, <3>2
  <2> QED
    BY <2>3, <2>7
<1>8. ASSUME wb'.ir.op \in SerializingOps PROVE ~r_mem_active'
  <2>1. ex.ir = Nop
    BY <1>0, <1>6, <1>8 DEF SerialIsAlone
  <2>2. ~ex_is_mem
    BY <1>0, <2>1 DEF ex_is_mem, MemOps, AmoOps
  <2>3. ~(r_mem_active /\ dmem_wait)
    BY <1>0, <1>6, <1>8 DEF SerialIsAlone, mem_stall
  <2> QED
    BY <2>2, <2>3, AccessComes
<1> QED
  BY <1>1, <1>2, <1>4, <1>7, <1>8 DEF SerialIsAlone

LEMMA Invariance == SafeSpec => []IInv
<1>1. ASSUME IInv, Next PROVE IInv'
  BY <1>1, TypeStep, AccessStep, AddressStep, SerialStep DEF IInv
<1>2. ASSUME IInv, UNCHANGED vars PROVE IInv'
  BY <1>2 DEF IInv, TypeOK, FetchTyped, StagesTyped, StateTyped, PortTyped, AccessFirst,
     AmoAddressHeld, SerialIsAlone, ex_is_mem, vars, ifVars, trapVars, exVars, resVars, memVars,
     arbVars, amoVars
<1> QED
  BY InitIsTyped, <1>1, <1>2, PTL DEF SafeSpec

-----------------------------------------------------------------------------
(* Theorems *)

\* The registers of the fetch stage, the stages, the arbiter and the atomic unit
\* always hold values of their kind: the program never leaves its code, data
\* never leave the data width, and what the bus holds is a request.
THEOREM TypeCorrect == SafeSpec => []TypeOK
BY Invariance, PTL DEF IInv

\* While the memory waits its port keeps the request, a write with its data,
\* across the muxes of the arbiter and of the atomic unit, whatever the program
\* and its redirects and traps do behind them (friscv.sv, friscv_arbiter.sv).
THEOREM RequestIsStable == SafeSpec => PortStable
<1>1. IInv /\ [Next]_vars =>
        [mem_rw # "idle" /\ mem_wait_i =>
           /\ mem_rw' = mem_rw /\ mem_addr' = mem_addr
           /\ mem_rw = "write" => AmoReq!mem_wdata' = AmoReq!mem_wdata]_vars
  BY WaitKeepsRequest
<1> QED
  BY <1>1, Invariance, PTL DEF SafeSpec, PortStable

\* The address that an atomic operation freezes for its read and its write
\* (r_amo_addr in friscv.sv) is the address of the request that is served, even
\* when atomic operations follow each other without a gap.
THEOREM FrozenAddressIsOwn == SafeSpec => []AmoAddressOwn
<1>1. ASSUME IInv PROVE AmoAddressOwn
  <2> SUFFICES ASSUME l2_amo_op # "none", mem_rw # "idle" PROVE mem_addr = l2_addr
    BY DEF AmoAddressOwn
  <2>1. r_amo_addr_valid /\ AmoReq!amo_active
    BY DEF mem_rw, AmoReq!mem_rw, AmoReq!amo_bootstrap, AmoReq!amo_active, AmoReq!eff_amo
  <2>2. l2.port = "data" /\ r_mem_active /\ l2_addr = l2.req.a
    BY <1>1, PortOwner DEF l2_amo_op, l2_addr
  <2>3. arb_state_q = "HoldData" /\ r_amo_addr = data_req_q.a
    BY <1>1, <2>1, <2>2 DEF IInv, AmoAddressHeld
  <2>4. l2.req = data_req_q
    BY <2>3 DEF l2, ArbReq!mem_o, ArbReq!on_bus, ArbReq!busy_inst, ArbReq!busy_data,
                ArbReq!take_inst, ArbReq!take_data
  <2> QED
    BY <2>1, <2>2, <2>3, <2>4 DEF mem_addr, AmoReq!mem_addr
<1> QED
  BY <1>1, Invariance, PTL

\* What the MMU relies on: no port requests while satp or mstatus changes, a trap
\* and a return find no data access, and a fence comes when nothing waits
\* (friscv_control_unit.sv, friscv_trap_controller.sv, friscv_ex_stage.sv).
THEOREM QuietForTranslation == SafeSpec => TranslationQuiet
<1>1. ASSUME IInv, Next, retire, wb.ir.op \in SerializingOps
      PROVE  {inst_i, data_i, inst_i', data_i'} = {None}
  <2>1. ~fetch_active_q /\ ~r_mem_active /\ ex.ir = Nop
    BY <1>1 DEF IInv, SerialIsAlone
  <2>2. csr_inflight \cap SerializingOps # {}
    BY <1>1 DEF csr_inflight, CsrOps, SerializingOps
  <2>3. ~fetch_active_q'
    BY <1>1, <2>1, <2>2, SerialStops
       DEF Next, IfEdge, IfRedirect, IfRelease, IfAdvance, IfBuffer, IfHold, ifVars
  <2>4. ~r_mem_active'
    BY <1>1, <2>1, AccessComes, NopIsNop DEF ex_is_mem, MemOps, AmoOps
  <2> QED
    BY <2>1, <2>3, <2>4 DEF inst_i, data_i
<1>2. ASSUME IInv, Next, trap \/ effective_ret PROVE {data_i, data_i'} = {None}
  <2>1. ~r_mem_active /\ ~ex_is_mem
    BY <1>2, TrapFindsNothing DEF effective_ret, ret_pipe_hazard
  <2>2. ~r_mem_active'
    BY <1>2, <2>1, AccessComes
  <2> QED
    BY <2>1, <2>2 DEF data_i
<1>3. ASSUME IInv, Next, flush_tlb' PROVE ~mem_stall
  <2>1. ex'.ir.op = "sfence" /\ ~sfence_vma_prev'
    BY <1>3 DEF flush_tlb
  <2>2. ASSUME ex_stall, ex_trap = None, ~ex_trap_commit, ex'.ir = ex.ir PROVE FALSE
    BY <1>3, <2>1, <2>2 DEF Next, ExEdge, FenceEdge
  <2> QED
    BY <1>3, <2>1, <2>2, ExComes, NopIsNop DEF ex_stall
<1>4. IInv /\ [Next]_vars =>
        [/\ retire /\ wb.ir.op \in SerializingOps =>
              {inst_i, data_i, inst_i', data_i'} = {None}
         /\ trap \/ effective_ret => {data_i, data_i'} = {None}
         /\ flush_tlb' => ~mem_stall]_vars
  BY <1>1, <1>2, <1>3
<1> QED
  BY <1>4, Invariance, PTL DEF SafeSpec, TranslationQuiet

-----------------------------------------------------------------------------
(* The access is that of the program *)

\* What a stage holds is a bubble or the instruction at its address; a fetch that
\* is held for a redirected address is marked to be discarded.
OnPath ==
  /\ arb_state_q = "HoldInst" => fetch_active_q /\ (~flush_pending_q => inst_req_q = pc_q)
  /\ ~fetch_active_q => ir_q \in {Nop, prog[pc_q]}
  /\ id.ir # Nop => id.valid /\ id.ir = prog[id.pc]
  /\ ex.ir # Nop => ex.valid /\ ex.ir = prog[ex.pc]
  /\ ex_is_mem => ~ex.done
  /\ r_mem_active => mem.valid /\ ~mem.done /\ mem.ir = prog[mem.pc]

LEMMA FetchedWord ==
  ASSUME IInv, OnPath, fetch_active_q, ~imem_wait, ~flush_pending_q
  PROVE  Amo!l2_rdata = prog[pc_q]
<1>1. ~r_mem_active
  BY Waits
<1>2. l2.port = "inst" /\ ArbReq!busy_inst
  BY <1>1, PortOwner
<1>3. l2.req = pc_q
  BY <1>2 DEF OnPath, l2, ArbReq!mem_o, ArbReq!on_bus, ArbReq!busy_inst, ArbReq!take_inst,
              ArbReq!inst_en_i, inst_i
<1>4. mem_addr = pc_q
  BY <1>1, <1>2, <1>3, FetchPort DEF l2_addr
<1> QED
  BY <1>1, <1>2, <1>4, FetchPort DEF Amo!l2_rdata, mem_rdata

LEMMA PathStep == ASSUME IInv, OnPath, Next PROVE OnPath'
<1>0. prog' = prog /\ TypeOK
  BY DEF Next, IInv
<1>1. ASSUME arb_state_q' = "HoldInst"
      PROVE  fetch_active_q' /\ (~flush_pending_q' => inst_req_q' = pc_q')
  <2>1. /\ fetch_active_q /\ Arb!busy_inst /\ Amo!l2_wait
        /\ ~flush_pending_q => inst_req_q' = pc_q
    <3>1. \/ Arb!take_inst /\ Amo!l2_wait /\ inst_req_q' = inst_i
          \/ arb_state_q = "HoldInst" /\ Amo!l2_wait /\ inst_req_q' = inst_req_q
      BY <1>1 DEF Next, Arb!Edge, Arb!ParkInst, Arb!ParkData, Arb!Complete, Arb!Hold,
                  Arb!park, Arb!done, Arb!busy_inst, Arb!regs
    <3>2. Arb!take_inst => fetch_active_q /\ inst_i = pc_q
      BY <1>0, Requests DEF Arb!take_inst, Arb!inst_en_i, inst_i
    <3> QED
      BY <3>1, <3>2 DEF OnPath, Arb!busy_inst
  <2>2. imem_wait /\ id_stall
    BY <2>1 DEF imem_wait, Arb!inst_wait_o, id_stall, mem_stall
  <2> QED
    BY <2>1, <2>2 DEF Next, IfEdge, IfRedirect, IfRelease, IfAdvance, IfBuffer, IfHold, ifVars
<1>2. ASSUME ~fetch_active_q' PROVE ir_q' \in {Nop, prog[pc_q']}
  <2>1. IfBuffer \/ (IfHold /\ ~fetch_active_q)
    BY <1>2 DEF Next, IfEdge, IfRedirect, IfRelease, IfAdvance, IfHold, ifVars
  <2> QED
    BY <2>1, FetchedWord DEF IfBuffer, IfHold, ifVars, OnPath
<1>3. ASSUME id'.ir # Nop PROVE id'.valid /\ id'.ir = prog[id'.pc]
  <2>1. if_ir # Nop /\ ~id_stall => if_ir = prog[pc_q]
    BY FetchedWord DEF if_ir, OnPath, id_stall, mem_stall
  <2> QED
    BY <1>3, <2>1 DEF Next, IdEdge, IdBubble, OnPath
<1>4. /\ ex'.ir # Nop => ex'.valid /\ ex'.ir = prog[ex'.pc]
      /\ ex_is_mem' => ~ex'.done
  <2>1. CASE ExTrapCommit \/ ExMisaligned
    BY <2>1, NopIsNop DEF ExTrapCommit, ExMisaligned, ExBubble, ex_is_mem, MemOps, AmoOps
  <2>2. CASE ExTrapHold
    BY <2>2 DEF ExTrapHold, OnPath, ex_is_mem
  <2>3. CASE ExCapture
    BY <2>3, NopIsNop DEF ExCapture, ExBubble, OnPath, ex_is_mem, MemOps, AmoOps
  <2>4. CASE ExStalled
    BY <1>0, <2>4, TrapFindsNothing DEF ExStalled, OnPath, ex_is_mem, TypeOK, StagesTyped
  <2> QED
    BY <2>1, <2>2, <2>3, <2>4 DEF Next, ExEdge
<1>5. ASSUME r_mem_active' PROVE mem'.valid /\ ~mem'.done /\ mem'.ir = prog[mem'.pc]
  <2>1. CASE MemHold
    BY <1>5, <2>1 DEF MemHold, memVars, OnPath
  <2>2. CASE MemCapture
    <3>1. ex_is_mem
      BY <1>5, <2>2 DEF MemCapture
    <3>2. ex.ir # Nop /\ ~muldiv_active /\ ~branch_misaligned
      BY <3>1, NopIsNop DEF ex_is_mem, MemOps, AmoOps, muldiv_active, branch_misaligned
    <3> QED
      BY <2>2, <3>1, <3>2 DEF MemCapture, OnPath
  <2> QED
    BY <1>5, <2>1, <2>2 DEF Next, MemEdge, MemTrapCommit, MemFaultHold, MemFaultAdvance,
                           MemMisaligned, MemComplete, MemFault
<1> QED
  BY <1>0, <1>1, <1>2, <1>3, <1>4, <1>5 DEF OnPath

\* A data access on the bus is that of the instruction the program is at, whatever
\* was fetched, redirected or trapped on the way: none is sent for an instruction
\* that is discarded (friscv_mem_stage.sv, friscv_control_unit.sv).
THEOREM AccessIsOnPath == SafeSpec => []AccessOnPath
<1>1. Init => OnPath
  BY NopIsNop DEF Init, OnPath, IdBubble, ExBubble, ArbReq!Reset, ex_is_mem, MemOps, AmoOps
<1>2. ASSUME OnPath, UNCHANGED vars PROVE OnPath'
  BY <1>2 DEF OnPath, ex_is_mem, vars, ifVars, exVars, memVars, arbVars
<1>3. ASSUME IInv, OnPath PROVE AccessOnPath
  BY <1>3, PortOwner DEF AccessOnPath, OnPath, ArchPc, MemPending, IInv, AccessFirst,
                            MemOps, AmoOps
<1> QED
  BY <1>1, <1>2, <1>3, PathStep, Invariance, PTL DEF SafeSpec
=============================================================================

------------------------------- MODULE AmoUnit -------------------------------
(***************************************************************************)
(* The atomic memory unit (rtl/core/friscv_amo_unit.sv) with the address   *)
(* register and the muxes around it in rtl/core/friscv.sv: it turns one    *)
(* request of the core into a read and a write of the memory port.         *)
(***************************************************************************)
EXTENDS Instructions

VARIABLES
  state_q,           \* "Idle", "Load", "Store"
  load_data_q,
  amo_op_q,
  rs2_val_q,
  r_amo_addr_valid,
  r_amo_addr,        \* r_amo_addr, r_amo_size
  \* the request of the core
  l2_rw,             \* "idle", "read", "write"
  l2_addr,
  l2_wdata,
  l2_amo_op,         \* "none" or a member of AmoOps
  \* the answer of the memory
  mem_wait_i,
  mem_err_i,
  mem_rdata_i

-----------------------------------------------------------------------------
(* Combinational logic *)

\* The first cycle of an atomic request: its address is frozen, nothing is
\* sent to the memory.
amo_bootstrap == l2_amo_op # "none" /\ ~r_amo_addr_valid

eff_amo == IF r_amo_addr_valid THEN l2_amo_op ELSE "none"

amo_rw ==
  IF state_q = "Store" THEN "write"
  ELSE IF state_q = "Load" \/ eff_amo # "none" THEN "read"
  ELSE "idle"

amo_active == amo_bootstrap \/ eff_amo # "none" \/ amo_rw # "idle"

amo_store_data == AmoResult(amo_op_q, load_data_q, rs2_val_q)
amo_load_data  == IF state_q = "Load" /\ ~mem_wait_i THEN mem_rdata_i ELSE load_data_q

amo_core_wait ==
  \/ state_q = "Idle" /\ eff_amo # "none"
  \/ state_q = "Load" /\ ~mem_err_i
  \/ state_q = "Store" /\ mem_wait_i

\* To the memory.
mem_rw    == IF amo_bootstrap THEN "idle" ELSE IF amo_active THEN amo_rw ELSE l2_rw
mem_addr  == IF amo_active /\ r_amo_addr_valid THEN r_amo_addr ELSE l2_addr
mem_wdata == IF amo_active THEN amo_store_data ELSE l2_wdata

\* To the core.
l2_wait  == IF amo_active THEN amo_bootstrap \/ amo_core_wait ELSE mem_wait_i
l2_rdata == IF amo_active THEN amo_load_data ELSE mem_rdata_i

-----------------------------------------------------------------------------
(* The clock edge *)

Reset ==
  /\ state_q = "Idle"
  /\ load_data_q = 0
  /\ amo_op_q = "none"
  /\ rs2_val_q = 0
  /\ r_amo_addr_valid = FALSE
  /\ r_amo_addr = 0

\* Mutant: the address register is not released.
AddressEdge_Kept ==
  \/ /\ amo_bootstrap
     /\ r_amo_addr_valid' = TRUE
     /\ r_amo_addr' = l2_addr
  \/ ~amo_bootstrap /\ UNCHANGED <<r_amo_addr_valid, r_amo_addr>>

\* The address register: taken on the first cycle, released when the unit has
\* nothing to send.
AddressEdge ==
  \/ /\ amo_bootstrap
     /\ r_amo_addr_valid' = TRUE
     /\ r_amo_addr' = l2_addr
  \/ /\ ~amo_bootstrap /\ r_amo_addr_valid /\ amo_rw = "idle"
     /\ r_amo_addr_valid' = FALSE
     /\ UNCHANGED r_amo_addr
  \/ /\ ~amo_bootstrap /\ (r_amo_addr_valid => amo_rw # "idle")
     /\ UNCHANGED <<r_amo_addr_valid, r_amo_addr>>

Start ==
  /\ state_q = "Idle" /\ eff_amo # "none"
  /\ state_q' = "Load"
  /\ amo_op_q' = eff_amo
  /\ rs2_val_q' = l2_wdata
  /\ UNCHANGED load_data_q

\* A failed read ends the sequence without a write.
Loaded ==
  /\ state_q = "Load" /\ ~mem_wait_i
  /\ state_q' = IF mem_err_i THEN "Idle" ELSE "Store"
  /\ amo_op_q' = IF mem_err_i THEN "none" ELSE amo_op_q
  /\ load_data_q' = mem_rdata_i
  /\ UNCHANGED rs2_val_q

Stored ==
  /\ state_q = "Store" /\ ~mem_wait_i
  /\ state_q' = "Idle"
  /\ amo_op_q' = "none"
  /\ UNCHANGED <<load_data_q, rs2_val_q>>

Hold ==
  /\ IF state_q = "Idle" THEN eff_amo = "none" ELSE mem_wait_i
  /\ UNCHANGED <<state_q, load_data_q, rs2_val_q, amo_op_q>>

Edge == AddressEdge /\ (Start \/ Loaded \/ Stored \/ Hold)
=============================================================================

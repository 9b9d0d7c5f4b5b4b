------------------------------- MODULE Arbiter -------------------------------
(***************************************************************************)
(* The bus arbiter of the FRISC-V core (rtl/core/friscv_arbiter.sv): one   *)
(* memory port shared by the instruction fetch and the data access.        *)
(*                                                                         *)
(* A state is one clock cycle: the registers at the start of the cycle and *)
(* the input wires during it.  The combinational outputs are operators on  *)
(* that state and a step is a clock edge.                                  *)
(*                                                                         *)
(* A request is one value: NoReq on a wire is a deasserted enable, a data  *)
(* request stands for the whole bundle address/size/wdata/wr/amo.          *)
(***************************************************************************)
EXTENDS Naturals

CONSTANTS
  InstReqs,   \* fetch addresses
  DataReqs,   \* data access bundles
  NoReq       \* enable deasserted; also the reset content of the holding regs

ASSUME ReqAssumption == NoReq \notin InstReqs \cup DataReqs

VARIABLES
  state_q,          \* "Idle", "HoldInst", "HoldData"
  data_priority_q,  \* TRUE: data wins when both ports request
  inst_req_q,       \* inst_addr_q
  data_req_q,       \* data_addr_q, data_size_q, data_wdata_q, data_wr_q, data_amo_q
  inst_i,           \* wires inst_en_i, inst_addr_i
  data_i,           \* wires data_en_i, data_addr_i, ..., amo_op_i
  mem_wait_i,       \* wire from the memory
  overtaken         \* history: completions of the other port while this one waited

regs  == <<state_q, data_priority_q, inst_req_q, data_req_q>>
wires == <<inst_i, data_i, mem_wait_i>>
vars  == <<regs, wires, overtaken>>

Ports == {"inst", "data"}
Idle  == [port |-> "none", req |-> NoReq]

-----------------------------------------------------------------------------
(* Combinational logic *)

inst_en_i == inst_i # NoReq
data_en_i == data_i # NoReq

\* Issue selection: an idle arbiter takes the only requester, or the one the
\* priority bit favours.
take_inst == state_q = "Idle" /\ inst_en_i /\ (data_en_i => ~data_priority_q)
take_data == state_q = "Idle" /\ data_en_i /\ (inst_en_i => data_priority_q)

busy_inst == take_inst \/ state_q = "HoldInst"
busy_data == take_data \/ state_q = "HoldData"
done      == (busy_inst \/ busy_data) /\ ~mem_wait_i
park      == (take_inst \/ take_data) /\ mem_wait_i

on_bus(port, req) == [port |-> port, req |-> req]

\* Mutant: the fetch address is never frozen, the live one drives the bus.
mem_o_LiveFetch ==
  IF busy_inst THEN on_bus("inst", inst_i)
  ELSE IF busy_data THEN on_bus("data", IF take_data THEN data_i ELSE data_req_q)
  ELSE Idle

\* mem_addr_o, mem_size_o, mem_wdata_o, mem_rw_o, amo_op_o: the live request in
\* the issuing cycle, the frozen copy afterwards.
mem_o ==
  IF busy_inst THEN on_bus("inst", IF take_inst THEN inst_i ELSE inst_req_q)
  ELSE IF busy_data THEN on_bus("data", IF take_data THEN data_i ELSE data_req_q)
  ELSE Idle

\* Mutants: a port that is queued is not told to wait.
inst_wait_o_NotQueued == busy_inst /\ mem_wait_i
data_wait_o_NotQueued == busy_data /\ mem_wait_i

\* The port on the bus sees the memory's wait, a queued port always waits.
inst_wait_o == IF busy_inst THEN mem_wait_i ELSE inst_en_i
data_wait_o == IF busy_data /\ ~busy_inst THEN mem_wait_i ELSE data_en_i

-----------------------------------------------------------------------------
(* The clock edge *)

Reset ==
  /\ state_q = "Idle"
  /\ data_priority_q = FALSE
  /\ inst_req_q = NoReq
  /\ data_req_q = NoReq

\* A request the memory does not answer at once is frozen and held.
ParkInst ==
  /\ park /\ take_inst
  /\ state_q' = "HoldInst"
  /\ inst_req_q' = inst_i
  /\ UNCHANGED <<data_priority_q, data_req_q>>

ParkData ==
  /\ park /\ take_data
  /\ state_q' = "HoldData"
  /\ data_req_q' = data_i
  /\ UNCHANGED <<data_priority_q, inst_req_q>>

\* Mutants: the priority is not rotated, or is left with one port.
Complete_NoRotation ==
  /\ done
  /\ state_q' = "Idle"
  /\ UNCHANGED <<data_priority_q, inst_req_q, data_req_q>>

Complete_DataFirst ==
  /\ done
  /\ state_q' = "Idle"
  /\ data_priority_q' = TRUE
  /\ UNCHANGED <<inst_req_q, data_req_q>>

\* The transaction on the bus retires: the other port is favoured next.
Complete ==
  /\ done
  /\ state_q' = "Idle"
  /\ data_priority_q' = busy_inst
  /\ UNCHANGED <<inst_req_q, data_req_q>>

\* Nothing requested, or a held transaction the memory still makes wait.
Hold ==
  /\ ~done /\ ~park
  /\ UNCHANGED regs

Edge == ParkInst \/ ParkData \/ Complete \/ Hold

-----------------------------------------------------------------------------
(* The environment.  The fetch stage keeps its enable up while it waits but *)
(* a redirect may change the address (friscv_if_stage); the memory stage    *)
(* keeps its request unchanged until it is answered (friscv_mem_stage).     *)

InitWires ==
  /\ inst_i \in InstReqs \cup {NoReq}
  /\ data_i \in DataReqs \cup {NoReq}
  /\ mem_wait_i \in BOOLEAN

NextWires ==
  /\ inst_i' \in InstReqs \cup (IF inst_en_i /\ inst_wait_o THEN {} ELSE {NoReq})
  /\ data_i' \in (IF data_en_i /\ data_wait_o THEN {data_i} ELSE DataReqs \cup {NoReq})
  /\ mem_wait_i' \in BOOLEAN

\* History: how often the other port completed since this one began to wait.
\* CountBound saturates the count, one above the most the arbiter promises.
CountBound == 2

Overtake(port, waits, otherDone) ==
  IF ~waits THEN 0
  ELSE IF otherDone /\ overtaken[port] < CountBound THEN overtaken[port] + 1
  ELSE overtaken[port]

Count ==
  overtaken' = [p \in Ports |->
    IF p = "inst" THEN Overtake(p, inst_en_i /\ inst_wait_o, done /\ busy_data)
                  ELSE Overtake(p, data_en_i /\ data_wait_o, done /\ busy_inst)]

Next == Edge /\ NextWires /\ Count

\* The memory answers: its wait cannot stay up for ever.
MemAnswers == Next /\ ~mem_wait_i'

Init == Reset /\ InitWires /\ overtaken = [p \in Ports |-> 0]

SafeSpec == Init /\ [][Next]_vars
Spec     == SafeSpec /\ WF_vars(Next) /\ WF_vars(MemAnswers)

-----------------------------------------------------------------------------
(* Properties *)

TypeOK ==
  /\ state_q \in {"Idle", "HoldInst", "HoldData"}
  /\ data_priority_q \in BOOLEAN
  /\ inst_req_q \in InstReqs \cup {NoReq}
  /\ data_req_q \in DataReqs \cup {NoReq}
  /\ inst_i \in InstReqs \cup {NoReq}
  /\ data_i \in DataReqs \cup {NoReq}
  /\ mem_wait_i \in BOOLEAN
  /\ overtaken \in [Ports -> 0 .. CountBound]

\* The memory stage is never told that its access is complete unless the
\* access on the bus in that cycle is the very one it is presenting: the
\* answer to a fetch, or to an older data request, cannot be taken for it.
DataAnswerIsOwn ==
  data_en_i /\ ~data_wait_o => mem_o = [port |-> "data", req |-> data_i]

\* A fetch is answered only by a fetch on the bus (its address may be one a
\* redirect has replaced: the fetch stage discards that answer).
InstAnswerIsFetch ==
  inst_en_i /\ ~inst_wait_o => mem_o.port = "inst" /\ mem_o.req \in InstReqs

\* A port that waits is overtaken by at most one transaction of the other:
\* the priority bit alternates whatever the memory's timing and redirects do.
BoundedOvertaking == \A p \in Ports : overtaken[p] <= 1

\* While the memory makes a transaction wait, the bus carries exactly the same
\* request in the next cycle, even if the fetch stage has been redirected.
RequestStable ==
  [][mem_o # Idle /\ mem_wait_i => mem_o' = mem_o]_vars

\* Every data access is eventually answered, under contention from fetches.
DataAnswered == data_en_i ~> (data_en_i /\ ~data_wait_o)
\* Every fetch is eventually answered, under contention from data accesses.
InstAnswered == inst_en_i ~> (inst_en_i /\ ~inst_wait_o)
Answered == DataAnswered /\ InstAnswered
==============================================================================

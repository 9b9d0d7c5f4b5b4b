---------------------------- MODULE ArbiterProofs ----------------------------
(***************************************************************************)
(* Proofs about the bus arbiter, for any sets of fetch and data requests.  *)
(***************************************************************************)
EXTENDS Arbiter, TLAPS

(***************************************************************************)
(* BoundedOvertaking is not inductive: that the count stays at one needs   *)
(* the priority bit to favour the port that was overtaken and the bus not  *)
(* to be held for the other one.                                           *)
(***************************************************************************)
HeldIsPresent ==
  /\ state_q = "HoldInst" => inst_en_i /\ inst_req_q # NoReq
  /\ state_q = "HoldData" => data_en_i /\ data_req_q = data_i

OvertakenIsNext ==
  /\ overtaken["inst"] = 0 \/
     (overtaken["inst"] = 1 /\ inst_en_i /\ ~data_priority_q /\ state_q # "HoldData")
  /\ overtaken["data"] = 0 \/
     (overtaken["data"] = 1 /\ data_en_i /\ data_priority_q /\ state_q # "HoldInst")

IInv == TypeOK /\ HeldIsPresent /\ OvertakenIsNext

\* The first cycle after reset satisfies the invariant.
LEMMA InitIInv ==
  Init => IInv
<1> SUFFICES ASSUME Init PROVE IInv
  OBVIOUS
<1>1. TypeOK
  <2>1. overtaken \in [Ports -> 0 .. CountBound]
    BY DEF Init, CountBound
  <2> QED
    BY <2>1 DEF Init, Reset, InitWires, TypeOK
<1>2. HeldIsPresent
  BY DEF Init, Reset, HeldIsPresent
<1>3. OvertakenIsNext
  <2>1. overtaken["inst"] = 0 /\ overtaken["data"] = 0
    BY DEF Init, Ports
  <2> QED
    BY <2>1 DEF OvertakenIsNext
<1> QED
  BY <1>1, <1>2, <1>3 DEF IInv

\* The wires of the next cycle: a port that waits keeps its enable up.
LEMMA WiresKept ==
  ASSUME IInv, NextWires
  PROVE  /\ inst_i' \in InstReqs \cup {NoReq}
         /\ data_i' \in DataReqs \cup {NoReq}
         /\ mem_wait_i' \in BOOLEAN
         /\ inst_en_i /\ inst_wait_o => inst_en_i'
         /\ data_en_i /\ data_wait_o => data_i' = data_i
BY ReqAssumption DEF IInv, TypeOK, NextWires, inst_en_i, data_en_i

\* The history counter of each port after one cycle.
LEMMA CountValues ==
  ASSUME Count
  PROVE  /\ overtaken'["inst"] = Overtake("inst", inst_en_i /\ inst_wait_o, done /\ busy_data)
         /\ overtaken'["data"] = Overtake("data", data_en_i /\ data_wait_o, done /\ busy_inst)
         /\ DOMAIN overtaken' = Ports
BY DEF Count, Ports

\* One clock edge keeps the invariant, whatever the edge does.
LEMMA StepIInv == IInv /\ [Next]_vars => IInv'
<1> SUFFICES ASSUME IInv, [Next]_vars PROVE IInv'
  OBVIOUS
<1>1. CASE UNCHANGED vars
  BY <1>1 DEF vars, regs, wires, IInv, TypeOK, HeldIsPresent, OvertakenIsNext,
              inst_en_i, data_en_i
<1>2. CASE Next
  <2> USE <1>2
  <2>1. Edge /\ NextWires /\ Count
    BY DEF Next
  <2>2. /\ inst_i' \in InstReqs \cup {NoReq}
        /\ data_i' \in DataReqs \cup {NoReq}
        /\ mem_wait_i' \in BOOLEAN
        /\ inst_en_i /\ inst_wait_o => inst_en_i'
        /\ data_en_i /\ data_wait_o => data_i' = data_i
    BY <2>1, WiresKept
  <2>3. /\ overtaken'["inst"] = Overtake("inst", inst_en_i /\ inst_wait_o, done /\ busy_data)
        /\ overtaken'["data"] = Overtake("data", data_en_i /\ data_wait_o, done /\ busy_inst)
    BY <2>1, CountValues
  <2>4. /\ state_q' \in {"Idle", "HoldInst", "HoldData"}
        /\ data_priority_q' \in BOOLEAN
        /\ inst_req_q' \in InstReqs \cup {NoReq}
        /\ data_req_q' \in DataReqs \cup {NoReq}
    BY <2>1 DEF Edge, ParkInst, ParkData, Complete, Hold, IInv, TypeOK, regs,
                busy_inst, take_inst, inst_en_i, data_en_i
  <2>5. overtaken' \in [Ports -> 0 .. CountBound]
    <3>1. \A p \in Ports : overtaken[p] \in 0 .. CountBound
      BY DEF IInv, TypeOK
    <3>2. \A p \in Ports : overtaken'[p] \in 0 .. CountBound
      BY <3>1, <2>3 DEF Overtake, CountBound, Ports
    <3>3. overtaken' = [p \in Ports |-> overtaken'[p]]
      BY <2>1 DEF Count
    <3> QED
      BY <3>2, <3>3
  <2>6. HeldIsPresent'
    BY <2>1, <2>2, ReqAssumption
       DEF Edge, ParkInst, ParkData, Complete, Hold, HeldIsPresent, IInv, TypeOK, regs,
           park, done, take_inst, take_data, busy_inst, busy_data,
           inst_en_i, data_en_i, inst_wait_o, data_wait_o
  <2>7. OvertakenIsNext'
    <3> USE DEF HeldIsPresent, OvertakenIsNext, IInv, TypeOK, regs, Overtake, CountBound
    <3> USE DEF park, done, take_inst, take_data, busy_inst, busy_data,
                inst_wait_o, data_wait_o
    <3>1. CASE ParkInst
      BY <2>2, <2>3, <3>1 DEF ParkInst, inst_en_i, data_en_i
    <3>2. CASE ParkData
      BY <2>2, <2>3, <3>2 DEF ParkData, inst_en_i, data_en_i
    <3>3. CASE Complete
      <4> USE DEF inst_en_i, data_en_i
      <4>1. /\ state_q' = "Idle"
            /\ ~mem_wait_i
            /\ busy_inst \/ busy_data
            /\ busy_inst => data_priority_q'
            /\ ~busy_inst => ~data_priority_q'
        BY <3>3 DEF Complete
      <4>2. CASE busy_inst
        <5>1. overtaken'["inst"] = 0
          BY <2>3, <4>1, <4>2
        <5>2. overtaken'["data"] = 0 \/ (overtaken'["data"] = 1 /\ data_en_i')
          BY <2>2, <2>3, <4>1, <4>2
        <5> QED
          BY <4>1, <4>2, <5>1, <5>2
      <4>3. CASE ~busy_inst
        <5>1. overtaken'["data"] = 0
          BY <2>3, <4>1, <4>3
        <5>2. overtaken'["inst"] = 0 \/ (overtaken'["inst"] = 1 /\ inst_en_i')
          BY <2>2, <2>3, <4>1, <4>3
        <5> QED
          BY <4>1, <4>3, <5>1, <5>2
      <4> QED
        BY <4>2, <4>3
    <3>4. CASE Hold
      BY <2>2, <2>3, <3>4 DEF Hold, inst_en_i, data_en_i
    <3> QED
      BY <2>1, <3>1, <3>2, <3>3, <3>4 DEF Edge
  <2> QED
    BY <2>2, <2>4, <2>5, <2>6, <2>7 DEF IInv, TypeOK
<1> QED
  BY <1>1, <1>2

\* The inductive invariant holds in every cycle.
THEOREM Invariance == SafeSpec => []IInv
<1>1. SafeSpec => []IInv
  BY InitIInv, StepIInv, PTL DEF SafeSpec
<1> QED
  BY <1>1

\* Type correctness of the arbiter.
THEOREM TypeCorrect == SafeSpec => []TypeOK
<1>1. IInv => TypeOK
  BY DEF IInv
<1> QED
  BY <1>1, Invariance, PTL

\* A waiting port is overtaken at most once, whatever the memory's timing.
THEOREM Fairness == SafeSpec => []BoundedOvertaking
<1>1. IInv => BoundedOvertaking
  BY DEF IInv, OvertakenIsNext, BoundedOvertaking, Ports
<1> QED
  BY <1>1, Invariance, PTL

\* An answer to the data port is always the answer to its own request.
THEOREM OwnAnswer == SafeSpec => []DataAnswerIsOwn
<1>1. IInv => DataAnswerIsOwn
  BY DEF IInv, HeldIsPresent, TypeOK, DataAnswerIsOwn, mem_o, on_bus, data_wait_o,
         busy_inst, busy_data, take_inst, take_data, inst_en_i, data_en_i
<1> QED
  BY <1>1, Invariance, PTL

\* A fetch is answered only by a fetch on the bus, never by a data access.
THEOREM FetchAnswer == SafeSpec => []InstAnswerIsFetch
<1>1. IInv => InstAnswerIsFetch
  BY ReqAssumption
     DEF IInv, HeldIsPresent, TypeOK, InstAnswerIsFetch, mem_o, on_bus, inst_wait_o,
         busy_inst, busy_data, take_inst, take_data, inst_en_i, data_en_i
<1> QED
  BY <1>1, Invariance, PTL

\* While the memory waits, the request on the bus does not change.
THEOREM Stable == SafeSpec => RequestStable
<1>1. IInv /\ [Next]_vars => (mem_o # Idle /\ mem_wait_i => mem_o' = mem_o) \/ UNCHANGED vars
  BY WiresKept
     DEF Next, Edge, ParkInst, ParkData, Complete, Hold, IInv, HeldIsPresent, TypeOK, regs,
         mem_o, on_bus, Idle, park, done, take_inst, take_data, busy_inst, busy_data,
         inst_en_i, data_en_i
<1> QED
  BY <1>1, Invariance, PTL DEF SafeSpec, RequestStable
==============================================================================

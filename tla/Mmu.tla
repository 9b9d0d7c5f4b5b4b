--------------------------------- MODULE Mmu ---------------------------------
(***************************************************************************)
(* The memory management unit (rtl/core/friscv_mmu.sv) without physical    *)
(* memory protection: the arbiter, a TLB for fetches and one for data, the *)
(* page table walker, the context of the granted request and the gate that *)
(* decides when a registered translation may be used.                      *)
(*                                                                         *)
(* The TLBs are the abstract caches that Tlb implements; an address is a   *)
(* page.  A state is one clock cycle, a step a clock edge.                 *)
(***************************************************************************)
EXTENDS Translations, FiniteSets

CONSTANTS
  Entries,        \* slots of each TLB
  Satps,          \* values of satp: [mode, asid, far: its root is out of reach]
  Privs,          \* privilege modes: "M", "S", "U"
  UserFrames,     \* frames mapped for user mode
  ReadOnlyFrames, \* frames mapped without the write permission
  InitTables,     \* page tables to start with: functions from walk slots to entries
  PtPage,         \* the frame of the entries that software rewrites
  PteWrites,      \* what it writes: [slot, pte]
  MmuFences,      \* the fences software sends
  FetchPages, DataReqs,
  IdlePages       \* on the address wires of a port that does not request

\* What the walker holds: its state, the context of its walk, the entry it read.
Walks == [state : {"Read", "Decode", "Fill", "PageFault", "PmpFault"}, asid : Asids,
          is_inst : BOOLEAN, vpn : Vpns, is_write : BOOLEAN, level : Levels, pte : Pte]

\* What a look-up answers: the translation and the frame of the page.
Answers == [leaf : Leaf, ppn : Int]

ASSUME MmuAssumption ==
  /\ Entries \in Nat \ {0}
  /\ Satps \subseteq [mode : Modes, asid : Asids, far : BOOLEAN]
  /\ Privs \subseteq {"M", "S", "U"}
  /\ MmuFences \subseteq Fences
  /\ FetchPages \cup IdlePages \subseteq Vpns
  /\ DataReqs \subseteq [op : {"load", "store", "amo"}, vpn : Vpns, w : PteWrites \cup {None}]
  /\ InitTables \subseteq [PteSlots -> Pte]
  /\ PteWrites \subseteq [slot : PteSlots, pte : Pte]
  /\ None \notin Int \cup Walks \cup Answers \cup {"fetch"} \cup DataReqs

VARIABLES
  \* arbiter
  arb_state_q, data_priority_q, inst_req_q, data_req_q,
  \* the context of the request that is held, None if none is
  r_req_ctx,
  \* gate: pages looked up in the last cycle, a change of the TLBs in it
  r_ivpn_q, r_dvpn_q, r_tlb_changed,
  \* the page of an access that waits on the bus, or None
  r_access_pa,
  walk,
  itlb, itlb_answer, dtlb, dtlb_answer,
  \* wires from the stages, the CSRs and the bus
  inst_en_i, inst_addr_i, data_i, satp_i, mode_i, flush_i, mem_i,
  \* the page tables
  table,
  \* history: what the tables in force made of each page since the last fence
  recent,
  \* history: cycles the granted request has been held without the bus waiting
  age

arbVars == <<arb_state_q, data_priority_q, inst_req_q, data_req_q>>
mmuVars == <<r_req_ctx, r_ivpn_q, r_dvpn_q, r_tlb_changed, r_access_pa>>
tlbVars == <<itlb, itlb_answer, dtlb, dtlb_answer>>
wires   == <<inst_en_i, inst_addr_i, data_i, satp_i, mode_i, flush_i, mem_i>>
vars    == <<arbVars, mmuVars, walk, tlbVars, wires, table, recent, age>>

-----------------------------------------------------------------------------
(* The granted request and its context *)

data_en_i == data_i.op # "none"
inst_req  == IF inst_en_i THEN "fetch" ELSE None
data_req  == IF data_en_i THEN data_i ELSE None

\* The arbiter's choice does not read its wait; its address is not connected.
Grant == INSTANCE Arbiter WITH
  InstReqs <- {"fetch"}, NoReq <- None, state_q <- arb_state_q,
  inst_i <- inst_req, data_i <- data_req, mem_wait_i <- FALSE, overtaken <- 0

grant_active == Grant!mem_o # Grant!Idle
grant_held   == arb_state_q # "Idle"

\* data_wr_i, data_store_like_i, amo_op_i
is_write(req) == req.op \in {"store", "amo"}

start_req_ctx ==
  [vpn      |-> IF Grant!take_inst THEN inst_addr_i ELSE data_i.vpn,
   satp     |-> satp_i,
   mode     |-> mode_i,
   is_inst  |-> Grant!take_inst,
   is_write |-> ~Grant!take_inst /\ is_write(data_i)]

\* eff_req_ctx
ctx == IF grant_held THEN r_req_ctx ELSE start_req_ctx

inst_vpn == IF grant_active /\ ctx.is_inst THEN ctx.vpn ELSE inst_addr_i
data_vpn == IF grant_active /\ ~ctx.is_inst THEN ctx.vpn ELSE data_i.vpn

paging_en == ctx.satp.mode # "Bare" /\ ctx.mode # "M"

-----------------------------------------------------------------------------
(* The gate, the permission check *)

r_access_busy == r_access_pa # None

\* Mutant: a change of the TLBs in the last cycle does not count.
tlate_valid_Unchanged ==
  IF ctx.is_inst THEN r_ivpn_q = inst_vpn ELSE r_dvpn_q = data_vpn

tlate_valid ==
  /\ ~r_tlb_changed
  /\ IF ctx.is_inst THEN r_ivpn_q = inst_vpn ELSE r_dvpn_q = data_vpn

tlate_pending == paging_en /\ grant_active /\ ~tlate_valid /\ ~r_access_busy

\* The answer of the TLB is the one of this request.
answered == paging_en /\ grant_active /\ ~tlate_pending /\ ~r_access_busy
answer   == IF ctx.is_inst THEN itlb_answer ELSE dtlb_answer
tlb_miss == answered /\ answer = None

\* perm_inst_ok, perm_load_ok, perm_store_ok with SUM and MXR clear: a frame
\* stands for the permissions of its leaf.
Permitted(ppn, mode, write) ==
  /\ mode = "U" <=> ppn \in UserFrames
  /\ write => ppn \notin ReadOnlyFrames

perm_fault == /\ answered /\ answer # None
              /\ ~Permitted(answer.leaf.ppn, ctx.mode, ctx.is_write)

-----------------------------------------------------------------------------
(* The walker and the bus *)

\* The walker takes the bus without reading it.
WalkReq == INSTANCE Ptw WITH miss <- tlb_miss, pte_i <- None
Walker  == INSTANCE Ptw WITH miss <- tlb_miss, pte_i <- table[WalkReq!walk_slot]

walk_en == WalkReq!walk_en
fill_itlb == IF walk # None /\ walk.is_inst THEN Walker!fill ELSE None
fill_dtlb == IF walk # None /\ ~walk.is_inst THEN Walker!fill ELSE None

\* No access on a miss, a fault or a translation that is not ready.
mem_rw ==
  IF walk_en THEN "read"
  ELSE IF ~grant_active \/ tlb_miss \/ perm_fault \/ tlate_pending THEN "idle"
  ELSE IF Grant!mem_o.port = "data" /\ Grant!mem_o.req.op = "store" THEN "write"
  ELSE "read"

tlate_pa == IF ~paging_en THEN ctx.vpn ELSE IF answered /\ ~tlb_miss THEN answer.ppn ELSE None

\* The page of an access is kept while it waits: a fence may drop its entry.
granted_pa == IF r_access_busy THEN r_access_pa ELSE tlate_pa

stall == Walker!stall \/ (mem_i = "wait" /\ mem_rw # "idle") \/ tlate_pending
bus_err == mem_rw # "idle" /\ mem_i = "err"

Arb == INSTANCE Arbiter WITH
  InstReqs <- {"fetch"}, NoReq <- None, state_q <- arb_state_q,
  inst_i <- inst_req, data_i <- data_req, mem_wait_i <- stall, overtaken <- 0

inst_wait == Arb!inst_wait_o
data_wait == Arb!data_wait_o

page_fault == Walker!fault \/ perm_fault
pmp_fault  == Walker!pmp_fault

-----------------------------------------------------------------------------
(* The clock edge *)

ITLB == INSTANCE TranslationCache WITH
  cached <- itlb, answer <- itlb_answer, lookup <- [vpn |-> inst_vpn, asid |-> ctx.satp.asid],
  mode <- ctx.satp.mode, fill <- fill_itlb, fence <- flush_i
DTLB == INSTANCE TranslationCache WITH
  cached <- dtlb, answer <- dtlb_answer, lookup <- [vpn |-> data_vpn, asid |-> ctx.satp.asid],
  mode <- ctx.satp.mode, fill <- fill_dtlb, fence <- flush_i

TlbEdge ==
  /\ ITLB!Next /\ Cardinality(itlb') <= Entries
  /\ DTLB!Next /\ Cardinality(dtlb') <= Entries

ContextEdge ==
  r_req_ctx' = IF arb_state_q' = "Idle" THEN None ELSE ctx

\* Mutant: a fence does not spoil the look-up of its cycle.
GateEdge_NotFence ==
  /\ r_ivpn_q' = inst_vpn /\ r_dvpn_q' = data_vpn
  /\ r_tlb_changed' = (fill_itlb # None \/ fill_dtlb # None)

GateEdge ==
  /\ r_ivpn_q' = inst_vpn /\ r_dvpn_q' = data_vpn
  /\ r_tlb_changed' = (fill_itlb # None \/ fill_dtlb # None \/ flush_i # None)

\* Mutant: the page of an access that waits is not kept.
AccessEdge_NotKept == r_access_pa' = None

AccessEdge ==
  r_access_pa' = IF mem_i # "wait" THEN None
                 ELSE IF ~r_access_busy /\ ~walk_en /\ mem_rw # "idle" THEN tlate_pa
                 ELSE r_access_pa

\* A store to the page of the tables rewrites an entry.
TableEdge ==
  LET w == IF mem_rw = "write" THEN Grant!mem_o.req.w ELSE None
  IN table' = IF w # None /\ mem_i = "ok" /\ granted_pa = PtPage
              THEN [table EXCEPT ![w.slot] = w.pte] ELSE table

\* What the tables make of a page under satp: a leaf, "bad" or "far".
Meaning(t, satp, vpn) ==
  LET top    == t[Slot(satp.asid, 1, vpn)]
      bottom == t[Slot(satp.asid, 0, vpn)]
      of(pte, level) ==
        IF Walker!page_fault(pte, level) THEN [kind |-> "bad", ppn |-> 0, level |-> 0]
        ELSE [kind |-> pte.kind, ppn |-> pte.ppn, level |-> level]
  IN IF satp.far THEN [kind |-> "far", ppn |-> 0, level |-> 1]
     ELSE IF of(top, 1).kind = "ptr" THEN of(bottom, 0) ELSE of(top, 1)

\* What the tables in force make of page p[2] of address space p[1].
Meanings(t, satp, p) == IF p[1] = satp.asid THEN {Meaning(t, satp, p[2])} ELSE {}

Names(fence, asid, vpn) ==
  fence # None /\ fence.vpn \in {None, vpn} /\ fence.asid \in {None, asid}

\* AgeBound ends the count beyond what is promised.
AgeBound == 12

Age == IF arb_state_q' = "Idle" THEN 0
       ELSE IF mem_i = "wait" \/ age = AgeBound THEN age ELSE age + 1

History ==
  /\ age' = Age
  /\ recent' = [p \in Asids \X Vpns |->
       Meanings(table', satp_i', p) \cup
         (IF Names(flush_i, p[1], p[2]) THEN {} ELSE recent[p])]

-----------------------------------------------------------------------------
(* The stages, as TranslationQuiet of Pipeline states it: satp changes when  *)
(* no port requests and none will in the next cycle; the mode when there is  *)
(* no data access, a fetch that waits being redirected; a fence comes when   *)
(* nothing has waited.  A port that waits goes on requesting.                *)

NoData == [op : {"none"}, vpn : IdlePages, w : {None}]

NextWires ==
  LET inst_waits == inst_en_i /\ inst_wait
      data_waits == data_en_i /\ data_wait
  IN /\ inst_en_i' \in (IF inst_waits THEN {TRUE} ELSE BOOLEAN)
     /\ inst_addr_i' \in (IF inst_en_i' THEN FetchPages ELSE IdlePages)
     /\ data_i' \in (IF data_waits THEN {data_i} ELSE DataReqs \cup NoData)
     /\ satp_i' \in (IF inst_en_i \/ data_en_i \/ inst_en_i' \/ data_en_i'
                    THEN {satp_i} ELSE Satps)
     /\ mode_i' \in (IF data_en_i \/ data_en_i' THEN {mode_i} ELSE Privs)
     /\ flush_i' \in {None} \cup (IF inst_waits \/ data_waits THEN {} ELSE MmuFences)

\* What the bus says is read only while it is used.
NextBus == mem_i' \in (IF mem_rw' = "idle" THEN {"ok"} ELSE {"wait", "ok", "err"})

Next ==
  /\ Arb!Edge /\ ContextEdge /\ GateEdge /\ AccessEdge /\ Walker!Edge
  /\ TableEdge
  /\ TlbEdge
  /\ NextWires /\ History
  /\ NextBus

Init ==
  /\ Grant!Reset
  /\ r_req_ctx = None
  /\ r_ivpn_q = 0 /\ r_dvpn_q = 0 /\ r_tlb_changed = FALSE
  /\ r_access_pa = None
  /\ walk = None
  /\ itlb = {} /\ itlb_answer = None /\ dtlb = {} /\ dtlb_answer = None
  /\ inst_en_i = TRUE /\ inst_addr_i \in FetchPages
  /\ data_i \in NoData
  /\ satp_i \in Satps /\ mode_i \in Privs
  /\ flush_i = None /\ mem_i \in {"wait", "ok", "err"}
  /\ table \in InitTables
  /\ age = 0
  /\ recent = [p \in Asids \X Vpns |-> Meanings(table, satp_i, p)]

Spec == Init /\ [][Next]_vars

-----------------------------------------------------------------------------
(* Properties *)

seen == recent[<<ctx.satp.asid, ctx.vpn>>]

\* The access of the granted request is on the bus.
on_bus == grant_active /\ mem_rw # "idle" /\ ~walk_en

\* An access goes to the page the tables gave its own at some time since the
\* last fence, in the address space of its grant, with a permission for the mode
\* of its grant. Once on the bus it stays (PortStable).
AccessIsCurrent ==
  on_bus /\ ~r_access_busy =>
    \/ ~paging_en /\ granted_pa = ctx.vpn
    \/ paging_en /\ \E t \in seen :
         /\ t.kind = "leaf" /\ Permitted(t.ppn, ctx.mode, ctx.is_write)
         /\ granted_pa = t.ppn + (ctx.vpn - Base(ctx.vpn, t.level, "Sv32"))

\* A fault has its cause in what the tables in force held since the last fence:
\* an access fault in an entry, or a root, that is out of reach.
FaultIsDue ==
  /\ page_fault => \E t \in seen :
       t.kind = "bad" \/ (t.kind = "leaf" /\ ~Permitted(t.ppn, ctx.mode, ctx.is_write))
  /\ pmp_fault => \E t \in seen : t.kind = "far"

\* A port is told to go on only by its own access, fault or bus error, and a
\* fault, which lasts one cycle, finds its port going on. One case is left: a
\* root out of reach faults in the cycle after its miss, and a fence that came
\* with the miss holds the port a cycle longer. A stage that waits does not take
\* the fault (friscv_control_unit.sv:134); the walk is started again and ends in
\* the same fault, in time (AnsweredInTime).
AnswerIsOwn ==
  LET ended == page_fault \/ pmp_fault \/ bus_err
  IN /\ inst_en_i /\ ~inst_wait => ctx.is_inst /\ (on_bus \/ ended)
     /\ data_en_i /\ ~data_wait =>
          /\ ~ctx.is_inst /\ ctx.vpn = data_i.vpn /\ ctx.is_write = is_write(data_i)
          /\ ended \/ (on_bus /\ (mem_rw = "write" <=> data_i.op = "store"))
     /\ page_fault \/ (pmp_fault /\ ~(ctx.satp.far /\ r_tlb_changed)) =>
          IF ctx.is_inst THEN ~inst_wait ELSE ~data_wait

\* Every request is served in its own context: through misses, walks, fences,
\* changes of mode and redirected fetches, an access is made only with a current
\* translation, a fault reported only with a cause, and nothing answered for
\* another.
RequestServed == AccessIsCurrent /\ FaultIsDue /\ AnswerIsOwn

\* What a TLB relies on (WiresOK of Tlb): a fill is for the page on its look-up
\* wires, under paging, and that page is not there.
FillForMiss ==
  /\ fill_itlb # None => /\ ctx.satp.mode = "Sv32"
                         /\ Serves(fill_itlb, inst_vpn, ctx.satp.asid) /\ ITLB!serving = {}
  /\ fill_dtlb # None => /\ ctx.satp.mode = "Sv32"
                         /\ Serves(fill_dtlb, data_vpn, ctx.satp.asid) /\ DTLB!serving = {}

\* The bus keeps an access, or the read of a walk, while it waits: a fence must
\* not take the page from under it ("An sfence.vma mid-request would break the
\* walk", friscv_mmu.sv).
PortStable ==
  [][mem_i = "wait" /\ mem_rw # "idle" =>
       /\ mem_rw' = mem_rw /\ walk_en' = walk_en
       /\ IF walk_en THEN WalkReq!walk_slot' = WalkReq!walk_slot
                     ELSE granted_pa' = granted_pa]_vars

\* A granted request is answered within the cycles of one walk, not counting
\* those in which the bus waits: its fill is found, and no fence, redirect or
\* error sends it round again.
AnsweredInTime == age <= 9
=============================================================================

------------------------------ MODULE MmuProofs ------------------------------
(***************************************************************************)
(* Proofs about the MMU, for any page tables, contexts, fences and number  *)
(* of slots: the type invariant, that the bus keeps what waits on it, that *)
(* it serves each request in its own context, fills a TLB only for a page  *)
(* it has just missed, and answers each request within the cycles of one   *)
(* walk.                                                                   *)
(***************************************************************************)
EXTENDS Mmu, TLAPS

Contexts == [vpn : Vpns, satp : [mode : Modes, asid : Asids, far : BOOLEAN], mode : Privs,
             is_inst : BOOLEAN, is_write : BOOLEAN]

WiresTyped ==
  /\ inst_addr_i \in Vpns
  /\ data_i \in DataReqs \cup NoData
  /\ satp_i \in Satps
  /\ mode_i \in Privs

HeldTyped ==
  /\ arb_state_q # "Idle" => r_req_ctx \in Contexts
  /\ arb_state_q = "HoldData" => data_req_q \in DataReqs \cup NoData

WalkTyped ==
  /\ walk \in Walks \cup {None}
  /\ table \in [PteSlots -> Pte]

CachesTyped ==
  /\ itlb \cup dtlb \subseteq Leaf
  /\ itlb_answer \in Answers \cup {None}
  /\ dtlb_answer \in Answers \cup {None}

TypeOK == WiresTyped /\ HeldTyped /\ WalkTyped /\ CachesTyped

-----------------------------------------------------------------------------
(* Types *)

\* A data request's page, and what it writes to the tables.
LEMMA RequestTyped ==
  ASSUME NEW req \in DataReqs \cup NoData
  PROVE  req.vpn \in Vpns /\ req.w \in PteWrites \cup {None}
BY MmuAssumption DEF NoData

\* The first page of a leaf is a page.
LEMMA BaseIsNat ==
  ASSUME NEW vpn \in Vpns, NEW level \in Levels
  PROVE  Base(vpn, level, "Sv32") \in Nat
<1>1. vpn \in Nat /\ Span(level, "Sv32") \in Nat \ {0}
  BY SpanAssumption DEF Span
<1>2. \A v \in Nat, n \in Nat \ {0} : v - (v % n) \in Nat
  OBVIOUS
<1> QED
  BY <1>1, <1>2 DEF Base

LEMMA SlotIsSlot ==
  ASSUME NEW asid \in Asids, NEW level \in Levels, NEW vpn \in Vpns
  PROVE  Slot(asid, level, vpn) \in PteSlots
BY DEF PteSlots

\* The context of the granted request, live or held.
LEMMA ContextTyped ==
  ASSUME WiresTyped, HeldTyped
  PROVE  ctx \in Contexts
<1>1. start_req_ctx \in Contexts
  <2>1. data_i.vpn \in Vpns
    BY RequestTyped DEF WiresTyped
  <2>2. satp_i \in [mode : Modes, asid : Asids, far : BOOLEAN]
    BY MmuAssumption DEF WiresTyped
  <2>3. Grant!take_inst \in BOOLEAN /\ is_write(data_i) \in BOOLEAN
    BY DEF Grant!take_inst, is_write
  <2> QED
    BY <2>1, <2>2, <2>3 DEF WiresTyped, start_req_ctx, Contexts
<1> QED
  BY <1>1 DEF ctx, grant_held, HeldTyped

LEMMA InitTyped == Init => TypeOK
<1> SUFFICES ASSUME Init PROVE TypeOK
  OBVIOUS
<1>1. WiresTyped
  BY MmuAssumption DEF Init, WiresTyped
<1>2. HeldTyped
  BY DEF Init, Grant!Reset, HeldTyped
<1>3. WalkTyped
  BY MmuAssumption DEF Init, WalkTyped
<1>4. CachesTyped
  BY DEF Init, CachesTyped
<1> QED
  BY <1>1, <1>2, <1>3, <1>4 DEF TypeOK

LEMMA WiresStep ==
  ASSUME TypeOK, NextWires
  PROVE  WiresTyped'
BY MmuAssumption DEF TypeOK, WiresTyped, NextWires, NoData

LEMMA HeldStep ==
  ASSUME TypeOK, Arb!Edge, ContextEdge
  PROVE  HeldTyped'
<1>1. ctx \in Contexts
  BY ContextTyped DEF TypeOK
<1>2. arb_state_q' = "HoldData" => data_req_q' \in DataReqs \cup NoData
  <2>1. Arb!take_data => data_req \in DataReqs \cup NoData
    BY DEF TypeOK, WiresTyped, data_req, Arb!take_data, Arb!data_en_i
  <2> QED
    BY <2>1 DEF TypeOK, HeldTyped, Arb!Edge, Arb!ParkInst, Arb!ParkData, Arb!Complete,
                Arb!Hold, Arb!regs, Arb!park
<1> QED
  BY <1>1, <1>2 DEF HeldTyped, ContextEdge

\* A walk starts at the upper level, in the context of the request; or it ends
\* there, when the root is out of reach.
LEMMA StartTyped ==
  ASSUME TypeOK, NEW state \in {"Read", "PmpFault"}, walk' = Walker!Captured(state)
  PROVE  /\ walk' \in Walks /\ walk'.state = state /\ walk'.level = 1
         /\ walk'.asid = ctx.satp.asid /\ walk'.vpn = ctx.vpn
         /\ walk'.is_inst = ctx.is_inst
<1>1. ctx \in Contexts
  BY ContextTyped DEF TypeOK
<1>2. Walker!Root \in Pte
  BY DEF Walker!Root, Pte, Kinds
<1> QED
  BY <1>1, <1>2 DEF Walker!Captured, Contexts, Walks, Levels

\* It descends from the upper level only, with its page and address space.
LEMMA DescendTyped ==
  ASSUME TypeOK, Walker!Descend
  PROVE  /\ walk \in Walks /\ walk' \in Walks
         /\ walk'.state = "Read" /\ walk'.level = walk.level - 1
         /\ walk'.asid = walk.asid /\ walk'.vpn = walk.vpn
<1>1. walk \in Walks
  BY DEF Walker!Descend, Walker!descend, Walker!in, TypeOK, WalkTyped
<1>2. walk.level = 1
  BY <1>1 DEF Walker!Descend, Walker!descend, Walker!page_fault, Walks, Levels
<1>3. walk.level - 1 \in Levels
  BY <1>2 DEF Levels
<1>4. walk' = [walk EXCEPT !.state = "Read", !.level = walk.level - 1]
  BY DEF Walker!Descend
<1> QED
  BY <1>1, <1>3, <1>4 DEF Walks

LEMMA ReadSlot ==
  ASSUME walk # None, walk.state = "Read"
  PROVE  WalkReq!walk_slot = Slot(walk.asid, walk.level, walk.vpn)
BY DEF WalkReq!walk_slot, WalkReq!start_walk, WalkReq!descend, WalkReq!in, WalkReq!Slot, Slot,
       WalkReq!Base, Base, WalkReq!Span, Span

\* The walker reads the entry of its level.
LEMMA WalkStep ==
  ASSUME TypeOK, Walker!Edge
  PROVE  walk' \in Walks \cup {None}
<1>1. ctx \in Contexts
  BY ContextTyped DEF TypeOK
<1>2. walk # None => walk \in Walks
  BY DEF TypeOK, WalkTyped
<1>3. CASE Walker!Rest
  BY <1>3 DEF Walker!Rest, TypeOK, WalkTyped
<1>4. CASE Walker!Start \/ Walker!StartOutOfReach
  BY <1>4, StartTyped DEF Walker!Start, Walker!StartOutOfReach
<1>5. CASE Walker!ReadWait
  BY <1>5 DEF Walker!ReadWait, TypeOK, WalkTyped
<1>6. CASE Walker!ReadError
  BY <1>6 DEF Walker!ReadError
<1>7. CASE Walker!ReadDone
  <2>1. walk \in Walks /\ walk.state = "Read"
    BY <1>2, <1>7 DEF Walker!ReadDone, Walker!in
  <2>2. WalkReq!walk_slot = Slot(walk.asid, walk.level, walk.vpn)
    BY <1>2, <2>1, ReadSlot, MmuAssumption
  <2>3. table[WalkReq!walk_slot] \in Pte
    BY <2>1, <2>2, SlotIsSlot DEF Walks, TypeOK, WalkTyped
  <2> QED
    BY <1>7, <2>1, <2>3 DEF Walker!ReadDone, Walks
<1>8. CASE Walker!Descend
  BY <1>8, DescendTyped
<1>9. CASE Walker!Decide
  BY <1>2, <1>9 DEF Walker!Decide, Walker!in, Walks
<1>10. CASE Walker!End
  BY <1>10 DEF Walker!End
<1> QED
  BY <1>3, <1>4, <1>5, <1>6, <1>7, <1>8, <1>9, <1>10 DEF Walker!Edge

\* A store writes the entry its request carries.
LEMMA TableStep ==
  ASSUME TypeOK, TableEdge
  PROVE  table' \in [PteSlots -> Pte]
<1> DEFINE w == IF mem_rw = "write" THEN Grant!mem_o.req.w ELSE None
<1>1. w \in PteWrites \cup {None}
  <2> SUFFICES ASSUME mem_rw = "write" PROVE Grant!mem_o.req.w \in PteWrites \cup {None}
    OBVIOUS
  <2>1. Grant!mem_o.port = "data"
    BY DEF mem_rw
  <2>2. ~Grant!busy_inst /\ Grant!busy_data
    BY <2>1 DEF Grant!mem_o, Grant!on_bus, Grant!Idle
  <2>3. Grant!mem_o.req = IF Grant!take_data THEN data_req ELSE data_req_q
    BY <2>2 DEF Grant!mem_o, Grant!on_bus
  <2>4. Grant!take_data => data_req \in DataReqs \cup NoData
    BY DEF Grant!take_data, Grant!data_en_i, data_req, TypeOK, WiresTyped
  <2>5. ~Grant!take_data => data_req_q \in DataReqs \cup NoData
    BY <2>2 DEF Grant!busy_data, TypeOK, HeldTyped
  <2> QED
    BY <2>3, <2>4, <2>5, RequestTyped
<1>2. table' = IF w # None /\ mem_i = "ok" /\ granted_pa = PtPage
               THEN [table EXCEPT ![w.slot] = w.pte] ELSE table
  BY DEF TableEdge
<1> HIDE DEF w
<1>3. table \in [PteSlots -> Pte]
  BY DEF TypeOK, WalkTyped
<1>4. w # None => w.slot \in PteSlots /\ w.pte \in Pte
  BY <1>1, MmuAssumption
<1> QED
  BY <1>2, <1>3, <1>4

\* What the walker fills in is a leaf.
LEMMA FillTyped ==
  ASSUME TypeOK
  PROVE  Walker!fill \in Leaf \cup {None}
<1> SUFFICES ASSUME Walker!fill # None PROVE Walker!fill \in Leaf
  OBVIOUS
<1>1. walk \in Walks
  BY DEF Walker!fill, Walker!in, TypeOK, WalkTyped
<1>2. Walker!Base(walk.vpn, walk.level, "Sv32") \in Nat
  BY <1>1, BaseIsNat DEF Walks, Walker!Base, Base, Walker!Span, Span
<1> QED
  BY <1>1, <1>2 DEF Walker!fill, Walks, Pte, Leaf

LEMMA CachesStep ==
  ASSUME TypeOK, TlbEdge
  PROVE  CachesTyped'
<1>1. inst_vpn \in Int /\ data_vpn \in Int
  <2>1. ctx.vpn \in Vpns
    BY ContextTyped DEF TypeOK, Contexts
  <2>2. data_i.vpn \in Vpns /\ inst_addr_i \in Vpns
    BY RequestTyped DEF TypeOK, WiresTyped
  <2>3. Vpns \subseteq Int
    BY SpanAssumption
  <2> QED
    BY <2>1, <2>2, <2>3 DEF inst_vpn, data_vpn
<1>2. fill_itlb \in Leaf \cup {None} /\ fill_dtlb \in Leaf \cup {None}
  BY FillTyped DEF fill_itlb, fill_dtlb
<1>3. itlb' \subseteq itlb \cup {fill_itlb} /\ (fill_itlb = None => itlb' \subseteq itlb)
  BY DEF TlbEdge, ITLB!Next, ITLB!Take, ITLB!Drop, ITLB!Keep
<1>4. dtlb' \subseteq dtlb \cup {fill_dtlb} /\ (fill_dtlb = None => dtlb' \subseteq dtlb)
  BY DEF TlbEdge, DTLB!Next, DTLB!Take, DTLB!Drop, DTLB!Keep
<1>5. itlb_answer' \in Answers \cup {None}
  <2>1. \A t \in itlb : [leaf |-> t, ppn |-> ITLB!Frame(t, inst_vpn)] \in Answers
    BY <1>1 DEF TypeOK, CachesTyped, Answers, Leaf, ITLB!Frame
  <2> QED
    BY <2>1 DEF TlbEdge, ITLB!Next, ITLB!Answer, ITLB!serving
<1>6. dtlb_answer' \in Answers \cup {None}
  <2>1. \A t \in dtlb : [leaf |-> t, ppn |-> DTLB!Frame(t, data_vpn)] \in Answers
    BY <1>1 DEF TypeOK, CachesTyped, Answers, Leaf, DTLB!Frame
  <2> QED
    BY <2>1 DEF TlbEdge, DTLB!Next, DTLB!Answer, DTLB!serving
<1> QED
  BY <1>2, <1>3, <1>4, <1>5, <1>6 DEF CachesTyped, TypeOK

LEMMA StepTyped == TypeOK /\ [Next]_vars => TypeOK'
<1> SUFFICES ASSUME TypeOK, [Next]_vars PROVE TypeOK'
  OBVIOUS
<1>1. CASE Next
  BY <1>1, WiresStep, HeldStep, WalkStep, TableStep, CachesStep DEF Next, TypeOK, WalkTyped
<1>2. CASE UNCHANGED vars
  BY <1>2 DEF vars, arbVars, mmuVars, tlbVars, wires, TypeOK, WiresTyped, HeldTyped,
              WalkTyped, CachesTyped
<1> QED
  BY <1>1, <1>2

\* Every register and wire keeps its type.
THEOREM TypeCorrect == Spec => []TypeOK
BY InitTyped, StepTyped, PTL DEF Spec

-----------------------------------------------------------------------------
(* The bus *)

\* The arbiter keeps the request it has given the bus to.
LEMMA RequestKept ==
  ASSUME Arb!Edge, grant_active, stall
  PROVE  grant_active' /\ Grant!mem_o' = Grant!mem_o
<1>1. CASE Arb!park
  BY <1>1 DEF Arb!Edge, Arb!ParkInst, Arb!ParkData, Arb!Complete, Arb!Hold, Arb!done, Arb!park,
       Arb!take_inst, Arb!take_data, Arb!busy_inst, Arb!busy_data, Arb!inst_en_i, Arb!data_en_i,
       grant_active, Grant!mem_o, Grant!on_bus, Grant!Idle, Grant!take_inst, Grant!take_data,
       Grant!busy_inst, Grant!busy_data, Grant!inst_en_i, Grant!data_en_i, inst_req
<1>2. CASE ~Arb!park
  BY <1>2 DEF Arb!Edge, Arb!ParkInst, Arb!ParkData, Arb!Complete, Arb!Hold, Arb!done, Arb!park,
       Arb!regs, Arb!take_inst, Arb!take_data, Arb!busy_inst, Arb!busy_data, Arb!inst_en_i,
       Arb!data_en_i, grant_active, Grant!mem_o, Grant!on_bus, Grant!Idle, Grant!take_inst,
       Grant!take_data, Grant!busy_inst, Grant!busy_data, Grant!inst_en_i, Grant!data_en_i
<1> QED
  BY <1>1, <1>2

\* The walker keeps the bus, and the entry it reads, while the bus waits.
LEMMA WalkKept ==
  ASSUME TypeOK, Walker!Edge, walk_en, mem_i = "wait"
  PROVE  walk_en' /\ WalkReq!walk_slot' = WalkReq!walk_slot
<1> USE DEF WalkReq!in, Walker!in, WalkReq!start_walk, Walker!start_walk,
            WalkReq!descend, Walker!descend
<1>1. CASE WalkReq!start_walk /\ ~ctx.satp.far
  <2>1. Walker!Start
    BY <1>1 DEF Walker!Edge, Walker!Rest, Walker!StartOutOfReach, Walker!ReadWait, Walker!ReadError,
                Walker!ReadDone, Walker!Descend, Walker!Decide, Walker!End
  <2>2. /\ walk' \in Walks /\ walk'.state = "Read" /\ walk'.level = 1
        /\ walk'.asid = ctx.satp.asid /\ walk'.vpn = ctx.vpn
    BY <2>1, StartTyped DEF Walker!Start
  <2>3. walk' # None
    BY <2>2, MmuAssumption
  <2> QED
    BY <1>1, <2>2, <2>3 DEF walk_en, WalkReq!walk_en, WalkReq!walk_slot
<1>2. CASE WalkReq!in("Read")
  <2>1. UNCHANGED walk
    BY <1>2 DEF Walker!Edge, Walker!Rest, Walker!Start, Walker!StartOutOfReach,
                Walker!ReadWait, Walker!ReadError, Walker!ReadDone, Walker!Descend, Walker!Decide, Walker!End
  <2> QED
    BY <1>2, <2>1 DEF walk_en, WalkReq!walk_en, WalkReq!walk_slot
<1>3. CASE WalkReq!descend
  <2>1. Walker!descend
    BY <1>3 DEF WalkReq!page_fault, Walker!page_fault, WalkReq!misaligned, Walker!misaligned
  <2>2. Walker!Descend
    BY <1>3, <2>1 DEF Walker!Edge, Walker!Rest, Walker!Start, Walker!StartOutOfReach, Walker!ReadWait,
                Walker!ReadError, Walker!ReadDone, Walker!Descend, Walker!Decide, Walker!End
  <2>3. walk' # None
    BY <2>2, DescendTyped, MmuAssumption
  <2> QED
    BY <1>3, <2>2, <2>3, DescendTyped DEF walk_en, WalkReq!walk_en, WalkReq!walk_slot
<1> QED
  BY <1>1, <1>2, <1>3 DEF walk_en, WalkReq!walk_en

\* No walk starts while an access is on the bus: its page is kept, so that it
\* cannot miss.
LEMMA NoWalkStarts ==
  ASSUME TypeOK, Walker!Edge, ~walk_en, mem_rw # "idle", r_access_busy'
  PROVE  ~walk_en'
<1> USE DEF WalkReq!in, Walker!in, WalkReq!start_walk, Walker!start_walk,
            WalkReq!descend, Walker!descend, walk_en, WalkReq!walk_en
<1>1. ~tlb_miss'
  BY DEF tlb_miss, answered
<1>2. ~Walker!start_walk /\ ~Walker!in("Read") /\ ~Walker!descend
  BY DEF mem_rw, WalkReq!page_fault, Walker!page_fault, WalkReq!misaligned, Walker!misaligned
<1>3. walk' = None \/ walk'.state \notin {"Read", "Decode"}
  <2>1. walk # None => walk \in Walks
    BY DEF TypeOK, WalkTyped
  <2>2. Walker!Rest \/ Walker!Decide \/ Walker!End
    BY <1>2 DEF Walker!Edge, Walker!Start, Walker!StartOutOfReach, Walker!ReadWait,
                Walker!ReadError, Walker!ReadDone, Walker!Descend
  <2> QED
    BY <2>1, <2>2 DEF Walker!Rest, Walker!Decide, Walker!End, Walks
<1> QED
  BY <1>1, <1>3

\* The page of an access that waits is kept for the next cycle.
LEMMA PageKept ==
  ASSUME TypeOK, AccessEdge, mem_i = "wait", mem_rw # "idle", ~walk_en
  PROVE  r_access_busy' /\ granted_pa' = granted_pa
<1>1. CASE r_access_busy
  BY <1>1 DEF AccessEdge, r_access_busy, granted_pa
<1>2. CASE ~r_access_busy
  <2>1. r_access_pa' = tlate_pa
    BY <1>2 DEF AccessEdge
  <2>2. ctx.vpn \in Int
    <3>1. ctx.vpn \in Vpns
      BY ContextTyped DEF TypeOK, Contexts
    <3>2. Vpns \subseteq Int
      BY SpanAssumption
    <3> QED
      BY <3>1, <3>2
  <2>3. paging_en => answered /\ ~tlb_miss
    BY <1>2 DEF mem_rw, answered
  <2>4. answered /\ ~tlb_miss => answer.ppn \in Int
    BY DEF tlb_miss, answer, TypeOK, CachesTyped, Answers
  <2>5. tlate_pa \in Int
    BY <2>2, <2>3, <2>4 DEF tlate_pa
  <2>6. tlate_pa # None
    BY <2>5, MmuAssumption
  <2> QED
    BY <1>2, <2>1, <2>6 DEF r_access_busy, granted_pa
<1> QED
  BY <1>1, <1>2

\* What waits on the bus, an access or the read of a walk, stays there with its
\* page or its entry.
THEOREM Stable == Spec => PortStable
<1> DEFINE Kept ==
      /\ mem_rw' = mem_rw /\ walk_en' = walk_en
      /\ IF walk_en THEN WalkReq!walk_slot' = WalkReq!walk_slot
                    ELSE granted_pa' = granted_pa
<1>1. TypeOK /\ [Next]_vars => (mem_i = "wait" /\ mem_rw # "idle" => Kept) \/ UNCHANGED vars
  <2> SUFFICES ASSUME TypeOK, Next, mem_i = "wait", mem_rw # "idle" PROVE Kept
    OBVIOUS
  <2>1. CASE walk_en
    <3>1. walk_en' /\ WalkReq!walk_slot' = WalkReq!walk_slot
      BY <2>1, WalkKept DEF Next
    <3>2. walk_en' = walk_en
      BY <2>1, <3>1 DEF walk_en, WalkReq!walk_en
    <3> QED
      BY <2>1, <3>1, <3>2 DEF mem_rw
  <2>2. CASE ~walk_en
    <3>1. r_access_busy' /\ granted_pa' = granted_pa
      BY <2>2, PageKept DEF Next
    <3>2. ~walk_en'
      BY <2>2, <3>1, NoWalkStarts DEF Next
    <3>3. grant_active' /\ Grant!mem_o' = Grant!mem_o
      BY <2>2, RequestKept DEF Next, mem_rw, stall
    <3>4. ~tlb_miss' /\ ~perm_fault' /\ ~tlate_pending'
      BY <3>1 DEF tlb_miss, perm_fault, answered, tlate_pending
    <3>5. mem_rw' = mem_rw
      BY <2>2, <3>2, <3>3, <3>4 DEF mem_rw
    <3>6. walk_en' = walk_en
      BY <2>2, <3>2 DEF walk_en, WalkReq!walk_en
    <3> QED
      BY <2>2, <3>1, <3>5, <3>6
  <2> QED
    BY <2>1, <2>2
<1> QED
  BY <1>1, TypeCorrect, PTL DEF Spec, PortStable

-----------------------------------------------------------------------------
(* Neither property is inductive.  A request that waits is the one its     *)
(* port still presents, under the satp of now; an answer of a TLB is what  *)
(* the TLB still holds, unless it was changed in that cycle; a walk is for *)
(* the held request, which goes on missing, and reads tables that nobody   *)
(* writes meanwhile, or has stopped at a root that is out of reach; and    *)
(* what a TLB holds, the tables gave since the last fence that names it.   *)

HeldIsPresent ==
  /\ arb_state_q \in {"Idle", "HoldInst", "HoldData"}
  /\ arb_state_q = "HoldInst" => inst_en_i /\ r_req_ctx.is_inst
  /\ arb_state_q = "HoldData" =>
       /\ data_en_i /\ data_req_q = data_i
       /\ ~r_req_ctx.is_inst /\ r_req_ctx.vpn = data_i.vpn
       /\ r_req_ctx.is_write = is_write(data_i)
  /\ arb_state_q # "Idle" => r_req_ctx.satp = satp_i

Misses(cached, vpn, asid) == \A t \in cached : ~Serves(t, vpn, asid)

Found(cached, vpn, asid, found) ==
  \/ found = None /\ Misses(cached, vpn, asid)
  \/ \E t \in cached : Serves(t, vpn, asid) /\ found = [leaf |-> t, ppn |-> Frame(t, vpn)]

AnswersFresh ==
  (inst_en_i \/ data_en_i) /\ ~r_tlb_changed /\ satp_i.mode = "Sv32" =>
    /\ Found(itlb, r_ivpn_q, satp_i.asid, itlb_answer)
    /\ Found(dtlb, r_dvpn_q, satp_i.asid, dtlb_answer)

WalkIsOwn ==
  walk # None =>
    /\ arb_state_q # "Idle"
    /\ r_req_ctx.vpn = walk.vpn /\ r_req_ctx.is_inst = walk.is_inst
    /\ r_req_ctx.satp.mode = "Sv32" /\ r_req_ctx.satp.asid = walk.asid
    /\ r_req_ctx.mode # "M"
    /\ r_access_pa = None /\ flush_i = None
    /\ (IF walk.is_inst THEN r_ivpn_q ELSE r_dvpn_q) = walk.vpn
    /\ walk.state # "Read" /\ ~r_req_ctx.satp.far => ~r_tlb_changed
    /\ Misses(IF walk.is_inst THEN itlb ELSE dtlb, walk.vpn, walk.asid)

\* The entry in the walker is that of the tables, as its state says.
WalkReads ==
  walk # None /\ ~r_req_ctx.satp.far =>
    /\ walk.level = 0 => table[Slot(walk.asid, 1, walk.vpn)].kind = "ptr"
    /\ walk.state # "Read" => walk.pte = table[Slot(walk.asid, walk.level, walk.vpn)]
    /\ walk.state = "Fill" => ~Walker!page_fault(walk.pte, walk.level) /\ walk.pte.kind = "leaf"
    /\ walk.state = "PageFault" => Walker!page_fault(walk.pte, walk.level)
    /\ walk.state = "PmpFault" =>
         ~Walker!page_fault(walk.pte, walk.level) /\ walk.pte.kind = "far"

\* Nothing is read below a root out of reach.
WalkStopped == walk # None /\ r_req_ctx.satp.far => walk.state = "PmpFault"

\* The tables gave t for the page.
Given(t, asid, vpn) ==
  \E m \in recent[<<asid, vpn>>] : m.kind = "leaf" /\ m.ppn = t.ppn /\ m.level = t.level

CachesRecent ==
  /\ \A vpn \in Vpns : Meaning(table, satp_i, vpn) \in recent[<<satp_i.asid, vpn>>]
  /\ \A t \in itlb \cup dtlb :
       /\ ~t.g
       /\ \A asid \in Asids, vpn \in Vpns : Serves(t, vpn, asid) => Given(t, asid, vpn)

IInv ==
  TypeOK /\ HeldIsPresent /\ AnswersFresh /\ WalkIsOwn /\ WalkReads /\ WalkStopped /\ CachesRecent

-----------------------------------------------------------------------------
(* What the invariant says of a cycle *)

\* The names of Translations as the instances have them.
LEMMA SameNames ==
  ASSUME NEW t, NEW vpn, NEW asid, NEW level, NEW pte
  PROVE  /\ ITLB!Serves(t, vpn, asid) <=> Serves(t, vpn, asid)
         /\ DTLB!Serves(t, vpn, asid) <=> Serves(t, vpn, asid)
         /\ ITLB!Frame(t, vpn) = Frame(t, vpn) /\ DTLB!Frame(t, vpn) = Frame(t, vpn)
         /\ Walker!Base(vpn, level, "Sv32") = Base(vpn, level, "Sv32")
         /\ WalkReq!Slot(asid, level, vpn) = Slot(asid, level, vpn)
         /\ WalkReq!page_fault(pte, level) <=> Walker!page_fault(pte, level)
BY DEF ITLB!Serves, DTLB!Serves, Serves, ITLB!Base, DTLB!Base, Base, ITLB!Span, DTLB!Span, Span,
       ITLB!Frame, DTLB!Frame, Frame, Walker!Base, Walker!Span, WalkReq!Slot, Slot,
       WalkReq!Base, WalkReq!Span, WalkReq!page_fault, Walker!page_fault,
       WalkReq!misaligned, Walker!misaligned

\* The bus belongs to the port whose context it is.
LEMMA GrantOwn ==
  ASSUME IInv
  PROVE  /\ grant_active <=> Arb!busy_inst \/ Arb!busy_data
         /\ Arb!busy_inst => ~Arb!busy_data /\ inst_en_i /\ ctx.is_inst
         /\ Arb!busy_data => /\ data_en_i /\ ~ctx.is_inst
                             /\ ctx.vpn = data_i.vpn /\ ctx.is_write = is_write(data_i)
                             /\ Grant!mem_o = [port |-> "data", req |-> data_i]
         /\ grant_active => ctx.satp = satp_i
         /\ grant_held => grant_active /\ ctx = r_req_ctx
<1> USE DEF Grant!take_inst, Grant!take_data, Arb!take_inst, Arb!take_data,
            Arb!busy_inst, Arb!busy_data, Grant!busy_inst, Grant!busy_data,
            Grant!inst_en_i, Grant!data_en_i, Arb!inst_en_i, Arb!data_en_i
<1>1. HeldIsPresent
  BY DEF IInv
<1>2. grant_active <=> Arb!busy_inst \/ Arb!busy_data
  BY DEF grant_active, Grant!mem_o, Grant!on_bus, Grant!Idle
<1>3. CASE arb_state_q = "Idle"
  <2>1. ctx = start_req_ctx /\ ~grant_held
    BY <1>3 DEF ctx, grant_held
  <2>2. /\ Arb!busy_inst => ~Arb!busy_data /\ inst_en_i /\ Grant!take_inst
        /\ Arb!busy_data => data_en_i /\ ~Grant!take_inst /\ data_req = data_i
    BY <1>3 DEF inst_req, data_req
  <2>3. Arb!busy_data => Grant!mem_o = [port |-> "data", req |-> data_i]
    BY <1>3, <2>2 DEF Grant!mem_o, Grant!on_bus
  <2>4. ctx.satp = satp_i /\ (Grant!take_inst => ctx.is_inst)
    BY <2>1 DEF start_req_ctx
  <2>5. is_write(data_i) \in BOOLEAN
    BY DEF is_write
  <2> HIDE DEF Grant!take_inst, Arb!busy_inst, Arb!busy_data
  <2>6. ~Grant!take_inst => /\ ~ctx.is_inst /\ ctx.vpn = data_i.vpn
                            /\ ctx.is_write = is_write(data_i)
    BY <2>1, <2>5 DEF start_req_ctx
  <2> QED
    BY <1>2, <2>1, <2>2, <2>3, <2>4, <2>6
<1>4. CASE arb_state_q # "Idle"
  <2>1. ctx = r_req_ctx /\ grant_held
    BY <1>4 DEF ctx, grant_held
  <2>2. Arb!busy_data => Grant!mem_o = [port |-> "data", req |-> data_i]
    BY <1>1, <1>4 DEF HeldIsPresent, Grant!mem_o, Grant!on_bus
  <2> QED
    BY <1>1, <1>2, <1>4, <2>1, <2>2 DEF HeldIsPresent
<1> QED
  BY <1>3, <1>4

\* The TLB of the granted request has been asked for its page.
LEMMA AnswerOwn ==
  ASSUME IInv, answered
  PROVE  /\ Found(IF ctx.is_inst THEN itlb ELSE dtlb, ctx.vpn, ctx.satp.asid, answer)
         /\ ctx.satp.mode = "Sv32" /\ ctx.mode # "M"
<1>1. grant_active /\ paging_en /\ tlate_valid /\ ~r_access_busy
  BY DEF answered, tlate_pending
<1>2. ctx.satp = satp_i /\ (inst_en_i \/ data_en_i)
  BY <1>1, GrantOwn
<1>3. ctx.satp.mode = "Sv32" /\ ctx.mode # "M"
  BY <1>1, ContextTyped DEF paging_en, Contexts, Modes, IInv, TypeOK
<1>4. ~r_tlb_changed /\ (IF ctx.is_inst THEN r_ivpn_q ELSE r_dvpn_q) = ctx.vpn
  BY <1>1 DEF tlate_valid, inst_vpn, data_vpn
<1>5. /\ Found(itlb, r_ivpn_q, satp_i.asid, itlb_answer)
      /\ Found(dtlb, r_dvpn_q, satp_i.asid, dtlb_answer)
  BY <1>2, <1>3, <1>4 DEF IInv, AnswersFresh
<1> QED
  BY <1>2, <1>3, <1>4, <1>5 DEF answer

\* None is no answer.
LEMMA FoundNone ==
  ASSUME IInv, NEW cached \in {itlb, dtlb}, NEW vpn \in Vpns, NEW asid \in Asids, NEW found,
         Found(cached, vpn, asid, found)
  PROVE  found = None <=> Misses(cached, vpn, asid)
<1>1. \A t \in cached : [leaf |-> t, ppn |-> Frame(t, vpn)] # None
  <2>1. cached \subseteq Leaf
    BY DEF IInv, TypeOK, CachesTyped
  <2>2. vpn \in Int
    BY SpanAssumption
  <2>3. \A t \in cached : [leaf |-> t, ppn |-> Frame(t, vpn)] \in Answers
    BY <2>1, <2>2 DEF Frame, Leaf, Answers
  <2> QED
    BY <2>3, MmuAssumption
<1> QED
  BY <1>1 DEF Found, Misses

\* During a walk its request goes on missing: nothing else uses the bus, and the
\* request waits for all but a fault and a bus error.
LEMMA WalkMisses ==
  ASSUME IInv, walk # None
  PROVE  /\ walk \in Walks /\ grant_active /\ ctx = r_req_ctx /\ ~r_access_busy
         /\ ~(answered /\ answer # None)
         /\ mem_rw = IF walk_en THEN "read" ELSE "idle"
         /\ walk.state # "Read" /\ ~(ctx.satp.far /\ r_tlb_changed) => ~tlate_pending
<1>1. walk \in Walks /\ WalkIsOwn
  BY DEF IInv, TypeOK, WalkTyped
<1>2. grant_active /\ ctx = r_req_ctx /\ ~r_access_busy
  BY <1>1, GrantOwn DEF WalkIsOwn, grant_held, r_access_busy
<1>3. ~(answered /\ answer # None)
  <2> SUFFICES ASSUME answered PROVE answer = None
    OBVIOUS
  <2>1. Found(IF ctx.is_inst THEN itlb ELSE dtlb, ctx.vpn, ctx.satp.asid, answer)
    BY AnswerOwn
  <2>2. Misses(IF ctx.is_inst THEN itlb ELSE dtlb, ctx.vpn, ctx.satp.asid)
    BY <1>1, <1>2 DEF WalkIsOwn
  <2>3. ctx.vpn \in Vpns /\ ctx.satp.asid \in Asids
    BY <1>1, <1>2 DEF WalkIsOwn, Walks
  <2> QED
    BY <2>1, <2>2, <2>3, FoundNone
<1>4. paging_en
  BY <1>1, <1>2 DEF WalkIsOwn, paging_en
<1>5. tlate_pending \/ tlb_miss
  BY <1>2, <1>3, <1>4 DEF answered, tlb_miss
<1>6. mem_rw = IF walk_en THEN "read" ELSE "idle"
  BY <1>5 DEF mem_rw
<1>7. walk.state # "Read" /\ ~(ctx.satp.far /\ r_tlb_changed) => ~tlate_pending
  BY <1>1, <1>2 DEF WalkIsOwn, tlate_pending, tlate_valid, inst_vpn, data_vpn
<1> QED
  BY <1>1, <1>2, <1>3, <1>6, <1>7

\* A walk makes its request wait, for all but a fault and the error of a read. A
\* fence may spoil the look-up of a walk that stops at its root.
LEMMA WalkStalls ==
  ASSUME IInv
  PROVE  /\ Walker!start_walk => stall
         /\ walk # None => /\ walk.state \in {"Decode", "Fill"} => stall
                           /\ walk.state = "Read" /\ mem_i # "err" => stall
                           /\ walk.state \in {"PageFault", "PmpFault"} =>
                                (ctx.satp.far /\ r_tlb_changed) \/ ~stall
<1> USE DEF Walker!stall, Walker!in, Walker!start_walk, stall
<1>1. walk # None /\ walk.state \in {"PageFault", "PmpFault"} =>
        mem_rw = "idle" /\ ((ctx.satp.far /\ r_tlb_changed) \/ ~tlate_pending)
  BY WalkMisses DEF walk_en, WalkReq!walk_en, WalkReq!start_walk, WalkReq!in, WalkReq!descend
<1> QED
  BY <1>1

-----------------------------------------------------------------------------
(* The invariant implies the properties *)

\* What the tables make of a page, seen from the entry where its walk ends.
LEMMA MeaningOfEntry ==
  ASSUME NEW satp, ~satp.far, NEW vpn, NEW level \in Levels, NEW pte,
         pte = table[Slot(satp.asid, level, vpn)],
         level = 0 => table[Slot(satp.asid, 1, vpn)].kind = "ptr"
  PROVE  /\ Walker!page_fault(pte, level) => Meaning(table, satp, vpn).kind = "bad"
         /\ ~Walker!page_fault(pte, level) /\ pte.kind # "ptr" =>
              Meaning(table, satp, vpn) = [kind |-> pte.kind, ppn |-> pte.ppn, level |-> level]
<1>1. CASE level = 1
  BY <1>1 DEF Meaning, Walker!page_fault
<1>2. CASE level = 0
  <2>1. ~Walker!page_fault(table[Slot(satp.asid, 1, vpn)], 1)
    BY <1>2 DEF Walker!page_fault
  <2> QED
    BY <1>2, <2>1 DEF Meaning
<1> QED
  BY <1>1, <1>2 DEF Levels

\* A walk is under the satp of now.
LEMMA WalkUnder ==
  ASSUME IInv, walk # None
  PROVE  /\ r_req_ctx.satp = satp_i /\ walk.asid = satp_i.asid
         /\ walk.asid \in Asids /\ walk.vpn \in Vpns /\ walk.level \in Levels
         /\ satp_i.far => walk.state = "PmpFault"
<1>1. walk \in Walks
  BY DEF IInv, TypeOK, WalkTyped
<1> QED
  BY <1>1 DEF IInv, HeldIsPresent, WalkIsOwn, WalkStopped, Walks

\* The page that ends a walk, by its kind.
LEMMA WalkMeaning ==
  ASSUME IInv, walk # None, walk.state # "Read"
  PROVE  LET m == Meaning(table, satp_i, walk.vpn)
         IN /\ m \in recent[<<walk.asid, walk.vpn>>]
            /\ walk.state = "PageFault" => m.kind = "bad"
            /\ walk.state = "PmpFault" => m.kind = "far"
<1> DEFINE m == Meaning(table, satp_i, walk.vpn)
<1>1. m \in recent[<<walk.asid, walk.vpn>>]
  BY WalkUnder DEF IInv, CachesRecent
<1>2. CASE satp_i.far
  <2>1. walk.state = "PmpFault" /\ m.kind = "far"
    BY <1>2, WalkUnder DEF Meaning
  <2> QED
    BY <1>1, <2>1
<1>3. CASE ~satp_i.far
  <2>1. /\ walk.pte = table[Slot(satp_i.asid, walk.level, walk.vpn)]
        /\ walk.level = 0 => table[Slot(satp_i.asid, 1, walk.vpn)].kind = "ptr"
        /\ walk.state = "PageFault" => Walker!page_fault(walk.pte, walk.level)
        /\ walk.state = "PmpFault" =>
             ~Walker!page_fault(walk.pte, walk.level) /\ walk.pte.kind = "far"
    BY <1>3, WalkUnder DEF IInv, WalkReads
  <2>2. /\ Walker!page_fault(walk.pte, walk.level) => m.kind = "bad"
        /\ ~Walker!page_fault(walk.pte, walk.level) /\ walk.pte.kind # "ptr" =>
             m = [kind |-> walk.pte.kind, ppn |-> walk.pte.ppn, level |-> walk.level]
    BY <1>3, <2>1, WalkUnder, MeaningOfEntry
  <2> QED
    BY <1>1, <2>1, <2>2
<1> QED
  BY <1>2, <1>3

LEMMA FillIsForMiss == IInv => FillForMiss
<1> SUFFICES ASSUME IInv PROVE FillForMiss
  OBVIOUS
<1>1. ASSUME walk # None, Walker!fill # None
      PROVE  LET vpn == IF walk.is_inst THEN inst_vpn ELSE data_vpn
             IN /\ ctx.satp.mode = "Sv32" /\ vpn = walk.vpn /\ ctx.satp.asid = walk.asid
                /\ Serves(Walker!fill, vpn, ctx.satp.asid)
                /\ Misses(IF walk.is_inst THEN itlb ELSE dtlb, vpn, ctx.satp.asid)
  <2>1. grant_active /\ ctx = r_req_ctx
    BY <1>1, WalkMisses
  <2>2. WalkIsOwn
    BY DEF IInv
  <2>3. (IF walk.is_inst THEN inst_vpn ELSE data_vpn) = walk.vpn
    BY <1>1, <2>1, <2>2 DEF WalkIsOwn, inst_vpn, data_vpn
  <2>4. Serves(Walker!fill, walk.vpn, walk.asid)
    BY <1>1, SameNames DEF Walker!fill, Serves
  <2> QED
    BY <1>1, <2>1, <2>2, <2>3, <2>4 DEF WalkIsOwn
<1>2. /\ fill_itlb # None => walk # None /\ walk.is_inst /\ fill_itlb = Walker!fill
      /\ fill_dtlb # None => walk # None /\ ~walk.is_inst /\ fill_dtlb = Walker!fill
  BY DEF fill_itlb, fill_dtlb
<1>3. /\ Misses(itlb, inst_vpn, ctx.satp.asid) => ITLB!serving = {}
      /\ Misses(dtlb, data_vpn, ctx.satp.asid) => DTLB!serving = {}
  BY SameNames DEF Misses, ITLB!serving, DTLB!serving
<1> QED
  BY <1>1, <1>2, <1>3 DEF FillForMiss

LEMMA AccessServed == IInv => AccessIsCurrent
<1> SUFFICES ASSUME IInv, on_bus, ~r_access_busy
             PROVE  \/ ~paging_en /\ granted_pa = ctx.vpn
                    \/ paging_en /\ \E t \in seen :
                         /\ t.kind = "leaf" /\ Permitted(t.ppn, ctx.mode, ctx.is_write)
                         /\ granted_pa = t.ppn + (ctx.vpn - Base(ctx.vpn, t.level, "Sv32"))
  BY DEF AccessIsCurrent
<1>1. grant_active /\ ~tlb_miss /\ ~perm_fault /\ ~tlate_pending
  BY DEF on_bus, mem_rw
<1>2. CASE ~paging_en
  BY <1>2 DEF granted_pa, tlate_pa
<1>3. CASE paging_en
  <2>1. answered /\ answer # None
    BY <1>1, <1>3 DEF answered, tlb_miss
  <2>2. granted_pa = answer.ppn /\ Permitted(answer.leaf.ppn, ctx.mode, ctx.is_write)
    BY <1>1, <1>3, <2>1 DEF granted_pa, tlate_pa, perm_fault
  <2>3. PICK t \in itlb \cup dtlb : /\ Serves(t, ctx.vpn, ctx.satp.asid)
                                    /\ answer = [leaf |-> t, ppn |-> Frame(t, ctx.vpn)]
    BY <2>1, AnswerOwn DEF Found
  <2>4. ctx.vpn \in Vpns /\ ctx.satp.asid \in Asids
    BY ContextTyped DEF IInv, TypeOK, Contexts
  <2>5. PICK m \in seen : m.kind = "leaf" /\ m.ppn = t.ppn /\ m.level = t.level
    BY <2>3, <2>4 DEF IInv, CachesRecent, Given, seen
  <2>6. granted_pa = m.ppn + (ctx.vpn - Base(ctx.vpn, m.level, "Sv32"))
    BY <2>2, <2>3, <2>5 DEF Frame, Serves
  <2> QED
    BY <1>3, <2>2, <2>3, <2>5, <2>6
<1> QED
  BY <1>2, <1>3

LEMMA FaultServed == IInv => FaultIsDue
<1> SUFFICES ASSUME IInv PROVE FaultIsDue
  OBVIOUS
<1>1. walk # None => walk.asid = ctx.satp.asid /\ walk.vpn = ctx.vpn
  BY WalkMisses DEF IInv, WalkIsOwn
<1>2. Walker!fault => \E t \in seen : t.kind = "bad"
  BY <1>1, WalkMeaning DEF Walker!fault, Walker!in, seen
<1>3. pmp_fault => \E t \in seen : t.kind = "far"
  BY <1>1, WalkMeaning DEF pmp_fault, Walker!pmp_fault, Walker!in, seen
<1>4. ASSUME perm_fault
      PROVE  \E t \in seen : t.kind = "leaf" /\ ~Permitted(t.ppn, ctx.mode, ctx.is_write)
  <2>1. answered /\ answer # None /\ ~Permitted(answer.leaf.ppn, ctx.mode, ctx.is_write)
    BY <1>4 DEF perm_fault
  <2>2. PICK t \in itlb \cup dtlb : /\ Serves(t, ctx.vpn, ctx.satp.asid)
                                    /\ answer = [leaf |-> t, ppn |-> Frame(t, ctx.vpn)]
    BY <2>1, AnswerOwn DEF Found
  <2>3. ctx.vpn \in Vpns /\ ctx.satp.asid \in Asids
    BY ContextTyped DEF IInv, TypeOK, Contexts
  <2>4. PICK m \in seen : m.kind = "leaf" /\ m.ppn = t.ppn /\ m.level = t.level
    BY <2>2, <2>3 DEF IInv, CachesRecent, Given, seen
  <2> QED
    BY <2>1, <2>2, <2>4
<1> QED
  BY <1>2, <1>3, <1>4 DEF FaultIsDue, page_fault

\* A request that does not wait has the bus for its access, a fault or an error.
LEMMA Unstalled ==
  ASSUME IInv, grant_active, ~stall
  PROVE  on_bus \/ page_fault \/ pmp_fault \/ bus_err
<1>1. CASE walk # None
  <2>1. walk \in Walks
    BY <1>1, WalkMisses
  <2>2. walk.state \in {"PageFault", "PmpFault"} \/ (walk.state = "Read" /\ mem_i = "err")
    BY <1>1, <2>1, WalkStalls DEF Walks
  <2>3. walk.state = "Read" => walk_en
    BY <1>1 DEF walk_en, WalkReq!walk_en, WalkReq!in
  <2> QED
    BY <1>1, <2>2, <2>3 DEF page_fault, Walker!fault, Walker!in, pmp_fault, Walker!pmp_fault,
                            bus_err, mem_rw
<1>2. CASE walk = None
  <2>1. ~tlb_miss /\ ~tlate_pending
    BY <1>2, WalkStalls DEF Walker!start_walk, stall
  <2>2. ~walk_en
    BY <1>2, <2>1 DEF walk_en, WalkReq!walk_en, WalkReq!start_walk, WalkReq!in, WalkReq!descend
  <2> QED
    BY <2>1, <2>2 DEF on_bus, mem_rw, page_fault
<1> QED
  BY <1>1, <1>2

LEMMA AnswerServed == IInv => AnswerIsOwn
<1> SUFFICES ASSUME IInv PROVE AnswerIsOwn
  OBVIOUS
<1>1. ASSUME inst_en_i, ~inst_wait
      PROVE  ctx.is_inst /\ (on_bus \/ page_fault \/ pmp_fault \/ bus_err)
  <2>1. Arb!busy_inst /\ ~stall
    BY <1>1, MmuAssumption DEF inst_wait, Arb!inst_wait_o, Arb!inst_en_i, inst_req
  <2> QED
    BY <2>1, GrantOwn, Unstalled
<1>2. ASSUME data_en_i, ~data_wait
      PROVE  /\ ~ctx.is_inst /\ ctx.vpn = data_i.vpn /\ ctx.is_write = is_write(data_i)
             /\ \/ page_fault \/ pmp_fault \/ bus_err
                \/ on_bus /\ (mem_rw = "write" <=> data_i.op = "store")
  <2>1. data_i # None
    <3>1. data_i \in DataReqs
      BY <1>2 DEF IInv, TypeOK, WiresTyped, NoData, data_en_i
    <3> QED
      BY <3>1, MmuAssumption
  <2>2. Arb!busy_data /\ ~stall
    BY <1>2, <2>1 DEF data_wait, Arb!data_wait_o, Arb!data_en_i, data_req
  <2>3. Grant!mem_o = [port |-> "data", req |-> data_i]
    BY <2>2, GrantOwn
  <2>4. on_bus => (mem_rw = "write" <=> data_i.op = "store")
    BY <2>3 DEF on_bus, mem_rw
  <2> QED
    BY <2>2, <2>4, GrantOwn, Unstalled
<1>3. ASSUME page_fault \/ (pmp_fault /\ ~(ctx.satp.far /\ r_tlb_changed))
      PROVE  IF ctx.is_inst THEN ~inst_wait ELSE ~data_wait
  <2>1. grant_active /\ ~stall
    <3>1. CASE perm_fault
      <4>1. answered /\ answer # None
        BY <3>1 DEF perm_fault
      <4>2. walk = None
        BY <4>1, WalkMisses
      <4>3. ~tlb_miss /\ ~tlate_pending /\ grant_active
        BY <4>1 DEF tlb_miss, answered
      <4>4. ~walk_en
        BY <4>2, <4>3 DEF walk_en, WalkReq!walk_en, WalkReq!start_walk, WalkReq!in, WalkReq!descend
      <4> QED
        BY <3>1, <4>2, <4>3, <4>4 DEF stall, mem_rw, Walker!stall, Walker!start_walk, Walker!in
    <3>2. CASE Walker!fault
      <4>1. ~ctx.satp.far
        BY <3>2, WalkMisses DEF Walker!fault, Walker!in, IInv, WalkStopped
      <4> QED
        BY <3>2, <4>1, WalkMisses, WalkStalls DEF Walker!fault, Walker!in
    <3>3. CASE pmp_fault /\ ~(ctx.satp.far /\ r_tlb_changed)
      BY <3>3, WalkMisses, WalkStalls DEF pmp_fault, Walker!pmp_fault, Walker!in
    <3> QED
      BY <1>3, <3>1, <3>2, <3>3 DEF page_fault
  <2>2. IF ctx.is_inst THEN Arb!busy_inst ELSE Arb!busy_data /\ ~Arb!busy_inst
    BY <2>1, GrantOwn
  <2> QED
    BY <2>1, <2>2 DEF inst_wait, data_wait, Arb!inst_wait_o, Arb!data_wait_o
<1> QED
  BY <1>1, <1>2, <1>3 DEF AnswerIsOwn

-----------------------------------------------------------------------------
(* The invariant is inductive *)

LEMMA InitIInv == Init => IInv
<1> SUFFICES ASSUME Init PROVE IInv
  OBVIOUS
<1>1. TypeOK
  BY InitTyped
<1>2. HeldIsPresent
  BY DEF Init, Grant!Reset, HeldIsPresent
<1>3. AnswersFresh
  BY DEF Init, AnswersFresh, Found, Misses
<1>4. WalkIsOwn /\ WalkReads /\ WalkStopped
  BY DEF Init, WalkIsOwn, WalkReads, WalkStopped
<1>5. CachesRecent
  <2>1. satp_i.asid \in Asids
    BY MmuAssumption DEF Init
  <2> QED
    BY <2>1 DEF Init, CachesRecent, Meanings
<1> QED
  BY <1>1, <1>2, <1>3, <1>4, <1>5 DEF IInv

\* The arbiter holds what has the bus and waits, and nothing else.
LEMMA HoldsWaiting ==
  ASSUME IInv, Arb!Edge
  PROVE  /\ arb_state_q' \in {"Idle", "HoldInst", "HoldData"}
         /\ arb_state_q' = "HoldInst" <=> Arb!busy_inst /\ stall
         /\ arb_state_q' = "HoldData" <=> Arb!busy_data /\ stall
         /\ arb_state_q' = "HoldData" => data_req_q' = data_i
<1>1. HeldIsPresent
  BY DEF IInv
<1>2. Arb!take_data => data_req = data_i
  BY DEF Arb!take_data, Arb!data_en_i, data_req
<1> QED
  BY <1>1, <1>2 DEF HeldIsPresent, Arb!Edge, Arb!ParkInst, Arb!ParkData, Arb!Complete, Arb!Hold,
       Arb!regs, Arb!done, Arb!park, Arb!busy_inst, Arb!busy_data, Arb!take_inst, Arb!take_data,
       Arb!inst_en_i, Arb!data_en_i

\* A request that waits on the bus keeps its context, and its port its request;
\* no fence comes.
LEMMA WaitingKept ==
  ASSUME IInv, Next, grant_active, stall
  PROVE  /\ arb_state_q' # "Idle" /\ r_req_ctx' = ctx
         /\ Arb!busy_inst => inst_en_i'
         /\ Arb!busy_data => data_i' = data_i
         /\ satp_i' = satp_i /\ flush_i' = None
<1>1. Arb!busy_inst \/ Arb!busy_data
  BY GrantOwn
<1>2. arb_state_q' # "Idle"
  BY <1>1, HoldsWaiting DEF Next
<1>3. Arb!busy_inst => inst_en_i /\ inst_wait
  BY GrantOwn DEF inst_wait, Arb!inst_wait_o
<1>4. Arb!busy_data => data_en_i /\ data_wait
  BY GrantOwn DEF data_wait, Arb!data_wait_o
<1> QED
  BY <1>1, <1>2, <1>3, <1>4 DEF Next, ContextEdge, NextWires

LEMMA HeldIsPresentKept ==
  ASSUME IInv, Next
  PROVE  HeldIsPresent'
<1>1. /\ arb_state_q' \in {"Idle", "HoldInst", "HoldData"}
      /\ arb_state_q' = "HoldInst" <=> Arb!busy_inst /\ stall
      /\ arb_state_q' = "HoldData" <=> Arb!busy_data /\ stall
      /\ arb_state_q' = "HoldData" => data_req_q' = data_i
  BY HoldsWaiting DEF Next
<1>2. CASE arb_state_q' = "Idle"
  BY <1>2 DEF HeldIsPresent
<1>3. CASE arb_state_q' = "HoldInst"
  <2>1. Arb!busy_inst /\ stall /\ grant_active
    BY <1>1, <1>3, GrantOwn
  <2> QED
    BY <1>3, <2>1, GrantOwn, WaitingKept DEF HeldIsPresent
<1>4. CASE arb_state_q' = "HoldData"
  <2>1. Arb!busy_data /\ stall /\ grant_active
    BY <1>1, <1>4, GrantOwn
  <2>2. data_i' = data_i /\ data_en_i /\ r_req_ctx' = ctx /\ satp_i' = satp_i
    BY <2>1, GrantOwn, WaitingKept
  <2>3. data_en_i' /\ is_write(data_i)' = is_write(data_i)
    BY <2>2 DEF data_en_i, is_write
  <2> QED
    BY <1>1, <1>4, <2>1, <2>2, <2>3, GrantOwn DEF HeldIsPresent
<1> QED
  BY <1>1, <1>2, <1>3, <1>4

\* Only a fill adds to a TLB.
LEMMA CachesShrink ==
  ASSUME TlbEdge
  PROVE  /\ fill_itlb = None => itlb' \subseteq itlb
         /\ fill_dtlb = None => dtlb' \subseteq dtlb
         /\ fill_itlb = None /\ flush_i = None => itlb' = itlb
         /\ fill_dtlb = None /\ flush_i = None => dtlb' = dtlb
BY DEF TlbEdge, ITLB!Next, ITLB!Take, ITLB!Drop, ITLB!Keep,
       DTLB!Next, DTLB!Take, DTLB!Drop, DTLB!Keep

\* The TLBs are asked under the satp of now.
LEMMA LookedUpNow == IInv => ctx.satp = satp_i
<1> SUFFICES ASSUME IInv PROVE ctx.satp = satp_i
  OBVIOUS
<1>1. CASE grant_held
  BY <1>1, GrantOwn
<1>2. CASE ~grant_held
  BY <1>2 DEF ctx, start_req_ctx
<1> QED
  BY <1>1, <1>2

LEMMA AnswersFreshKept ==
  ASSUME IInv, Next
  PROVE  AnswersFresh'
<1> SUFFICES ASSUME inst_en_i' \/ data_en_i', ~r_tlb_changed', satp_i'.mode = "Sv32"
             PROVE  /\ Found(itlb', r_ivpn_q', satp_i'.asid, itlb_answer')
                    /\ Found(dtlb', r_dvpn_q', satp_i'.asid, dtlb_answer')
  BY DEF AnswersFresh, Found, Misses, Serves, Base, Span, Frame
<1>1. satp_i' = satp_i /\ ctx.satp = satp_i
  BY LookedUpNow DEF Next, NextWires
<1>2. fill_itlb = None /\ fill_dtlb = None /\ flush_i = None
  BY DEF Next, GateEdge
<1>3. itlb' = itlb /\ dtlb' = dtlb
  BY <1>2, CachesShrink DEF Next
<1>4. r_ivpn_q' = inst_vpn /\ r_dvpn_q' = data_vpn
  BY DEF Next, GateEdge
<1>5. Found(itlb, inst_vpn, satp_i.asid, itlb_answer')
  BY <1>1, SameNames DEF Next, TlbEdge, ITLB!Next, ITLB!Answer, ITLB!serving, Found, Misses
<1>6. Found(dtlb, data_vpn, satp_i.asid, dtlb_answer')
  BY <1>1, SameNames DEF Next, TlbEdge, DTLB!Next, DTLB!Answer, DTLB!serving, Found, Misses
<1> QED
  BY <1>1, <1>3, <1>4, <1>5, <1>6

\* A walk that starts is for a request whose look-up missed.
LEMMA StartIsMiss ==
  ASSUME IInv, Walker!start_walk
  PROVE  /\ walk = None /\ grant_active /\ ~r_access_busy
         /\ mem_rw = IF walk_en THEN "read" ELSE "idle"
         /\ ctx.satp.mode = "Sv32" /\ ctx.mode # "M"
         /\ Misses(IF ctx.is_inst THEN itlb ELSE dtlb, ctx.vpn, ctx.satp.asid)
<1>1. walk = None /\ answered /\ answer = None
  BY DEF Walker!start_walk, tlb_miss
<1>2. grant_active /\ ~r_access_busy
  BY <1>1 DEF answered
<1>3. /\ Found(IF ctx.is_inst THEN itlb ELSE dtlb, ctx.vpn, ctx.satp.asid, answer)
      /\ ctx.satp.mode = "Sv32" /\ ctx.mode # "M"
  BY <1>1, AnswerOwn
<1>4. ctx.vpn \in Vpns /\ ctx.satp.asid \in Asids
  BY ContextTyped DEF IInv, TypeOK, Contexts
<1>5. Misses(IF ctx.is_inst THEN itlb ELSE dtlb, ctx.vpn, ctx.satp.asid)
  BY <1>1, <1>3, <1>4, FoundNone
<1> QED
  BY <1>1, <1>2, <1>3, <1>5 DEF mem_rw, Walker!start_walk

\* While a walk goes on its request waits, the caches take nothing and the access
\* does not begin.
LEMMA WalkGoesOn ==
  ASSUME IInv, Next, walk' # None
  PROVE  /\ grant_active /\ stall
         /\ fill_itlb = None /\ fill_dtlb = None
         /\ r_access_pa' = None /\ mem_rw # "write"
         /\ walk # None => walk.state \in {"Read", "Decode"}
         /\ walk = None => Walker!Start \/ Walker!StartOutOfReach
<1>1. \/ Walker!Start \/ Walker!StartOutOfReach
      \/ walk # None /\ walk.state = "Read" /\ mem_i # "err"
      \/ walk # None /\ walk.state = "Decode"
  BY DEF Next, Walker!Edge, Walker!Rest, Walker!ReadWait, Walker!ReadError, Walker!ReadDone,
         Walker!Descend, Walker!Decide, Walker!End, Walker!in, Walker!descend
<1>2. CASE Walker!Start \/ Walker!StartOutOfReach
  <2>1. Walker!start_walk
    BY <1>2 DEF Walker!Start, Walker!StartOutOfReach
  <2>2. /\ walk = None /\ grant_active /\ ~r_access_busy /\ stall
        /\ mem_rw = IF walk_en THEN "read" ELSE "idle"
    BY <2>1, StartIsMiss, WalkStalls
  <2>3. mem_rw # "write" /\ r_access_pa' = None
    BY <2>2 DEF mem_rw, Next, AccessEdge, r_access_busy
  <2> QED
    BY <1>2, <2>2, <2>3 DEF fill_itlb, fill_dtlb
<1>3. CASE walk # None /\ walk.state \in {"Read", "Decode"} /\ (walk.state = "Read" => mem_i # "err")
  <2>1. grant_active /\ ~r_access_busy /\ mem_rw = IF walk_en THEN "read" ELSE "idle"
    BY <1>3, WalkMisses
  <2>2. stall
    BY <1>3, WalkStalls
  <2>3. r_access_pa' = None
    BY <2>1 DEF Next, AccessEdge, r_access_busy
  <2>4. fill_itlb = None /\ fill_dtlb = None
    BY <1>3 DEF fill_itlb, fill_dtlb, Walker!fill, Walker!in
  <2> QED
    BY <1>3, <2>1, <2>2, <2>3, <2>4
<1> QED
  BY <1>1, <1>2, <1>3

\* The walk of the next cycle has the context of this one.
LEMMA WalkKeepsContext ==
  ASSUME IInv, Next, walk' # None
  PROVE  /\ walk'.vpn = ctx.vpn /\ walk'.is_inst = ctx.is_inst /\ walk'.asid = ctx.satp.asid
         /\ ctx.satp.mode = "Sv32" /\ ctx.mode # "M"
         /\ walk'.state # "Read" /\ ~ctx.satp.far => walk # None
         /\ Misses(IF ctx.is_inst THEN itlb ELSE dtlb, ctx.vpn, ctx.satp.asid)
<1>1. CASE Walker!Start \/ Walker!StartOutOfReach
  <2>1. Walker!start_walk
    BY <1>1 DEF Walker!Start, Walker!StartOutOfReach
  <2>2. /\ walk'.vpn = ctx.vpn /\ walk'.is_inst = ctx.is_inst /\ walk'.asid = ctx.satp.asid
        /\ walk'.state = "Read" \/ ctx.satp.far
    BY <1>1, StartTyped DEF Walker!Start, Walker!StartOutOfReach, IInv
  <2> QED
    BY <2>1, <2>2, StartIsMiss
<1>2. CASE walk # None
  <2>1. walk \in Walks /\ ctx = r_req_ctx
    BY <1>2, WalkMisses
  <2>2. walk'.vpn = walk.vpn /\ walk'.is_inst = walk.is_inst /\ walk'.asid = walk.asid
    BY <1>2, <2>1 DEF Next, Walker!Edge, Walker!Rest, Walker!Start,
       Walker!StartOutOfReach, Walker!start_walk, Walker!ReadWait, Walker!ReadError, Walker!ReadDone, Walker!Descend, Walker!Decide,
       Walker!End, Walks
  <2>3. WalkIsOwn
    BY DEF IInv
  <2> QED
    BY <1>2, <2>1, <2>2, <2>3 DEF WalkIsOwn
<1> QED
  BY <1>1, <1>2, WalkGoesOn

LEMMA WalkIsOwnKept ==
  ASSUME IInv, Next
  PROVE  WalkIsOwn'
<1> SUFFICES ASSUME walk' # None PROVE WalkIsOwn'
  BY DEF WalkIsOwn
<1>1. grant_active /\ stall /\ fill_itlb = None /\ fill_dtlb = None /\ r_access_pa' = None
  BY WalkGoesOn
<1>2. arb_state_q' # "Idle" /\ r_req_ctx' = ctx /\ flush_i' = None
  BY <1>1, WaitingKept
<1>3. /\ walk'.vpn = ctx.vpn /\ walk'.is_inst = ctx.is_inst /\ walk'.asid = ctx.satp.asid
      /\ ctx.satp.mode = "Sv32" /\ ctx.mode # "M"
      /\ walk'.state # "Read" /\ ~ctx.satp.far => walk # None
      /\ Misses(IF ctx.is_inst THEN itlb ELSE dtlb, ctx.vpn, ctx.satp.asid)
  BY WalkKeepsContext
<1>4. (IF ctx.is_inst THEN r_ivpn_q' ELSE r_dvpn_q') = ctx.vpn
  BY <1>1 DEF Next, GateEdge, inst_vpn, data_vpn
<1>5. walk # None => ~r_tlb_changed'
  BY <1>1 DEF Next, GateEdge, IInv, WalkIsOwn
<1>6. itlb' \subseteq itlb /\ dtlb' \subseteq dtlb
  BY <1>1, CachesShrink DEF Next
<1>7. Misses(IF ctx.is_inst THEN itlb' ELSE dtlb', ctx.vpn, ctx.satp.asid)
  BY <1>3, <1>6 DEF Misses
<1>8. Misses(IF walk.is_inst THEN itlb ELSE dtlb, walk.vpn, walk.asid)'
  BY <1>3, <1>7 DEF Misses, Serves, Base, Span
<1> QED
  BY <1>1, <1>2, <1>3, <1>4, <1>5, <1>8 DEF WalkIsOwn

LEMMA WalkReadsKept ==
  ASSUME IInv, Next
  PROVE  WalkReads'
<1> SUFFICES ASSUME walk' # None, ~r_req_ctx'.satp.far PROVE WalkReads'
  BY DEF WalkReads
<1>1. table' = table
  BY WalkGoesOn DEF Next, TableEdge
<1>2. TypeOK /\ Walker!Edge /\ WalkReads
  BY DEF IInv, Next
<1>3. walk # None => walk \in Walks /\ ~r_req_ctx.satp.far
  BY <1>2, WalkGoesOn, WaitingKept, WalkMisses
<1> USE DEF WalkReads, Walker!page_fault, Walker!misaligned, Slot, Base, Span
<1>4. CASE Walker!Start
  BY <1>2, <1>4, StartTyped DEF Walker!Start
<1>5. CASE Walker!ReadWait
  BY <1>1, <1>2, <1>3, <1>5 DEF Walker!ReadWait
<1>6. CASE Walker!ReadDone
  <2>1. walk \in Walks /\ walk.state = "Read"
    BY <1>3, <1>6 DEF Walker!ReadDone, Walker!in
  <2>2. WalkReq!walk_slot = Slot(walk.asid, walk.level, walk.vpn)
    BY <1>6, <2>1, ReadSlot DEF Walker!ReadDone, Walker!in
  <2>3. walk' = [walk EXCEPT !.state = "Decode", !.pte = table[WalkReq!walk_slot]]
    BY <1>6 DEF Walker!ReadDone
  <2>4. /\ walk'.state = "Decode" /\ walk'.pte = table[WalkReq!walk_slot]
        /\ walk'.asid = walk.asid /\ walk'.vpn = walk.vpn /\ walk'.level = walk.level
    BY <2>1, <2>3 DEF Walks
  <2>5. walk.level = 0 => table[Slot(walk.asid, 1, walk.vpn)].kind = "ptr"
    BY <1>2, <1>3, <1>6 DEF Walker!ReadDone, Walker!in
  <2> QED
    BY <1>1, <2>2, <2>4, <2>5
<1>7. CASE Walker!Descend
  <2>1. /\ walk \in Walks /\ walk' \in Walks
        /\ walk'.state = "Read" /\ walk'.level = walk.level - 1
        /\ walk'.asid = walk.asid /\ walk'.vpn = walk.vpn
    BY <1>2, <1>7, DescendTyped
  <2>2. walk # None /\ walk.state = "Decode" /\ walk.pte.kind = "ptr"
    BY <1>7 DEF Walker!Descend, Walker!descend, Walker!in
  <2>3. walk.level = 1
    BY <2>1 DEF Walks, Levels
  <2>4. table[Slot(walk.asid, 1, walk.vpn)].kind = "ptr"
    BY <1>2, <1>3, <2>2, <2>3
  <2> QED
    BY <1>1, <2>1, <2>4
<1>8. CASE Walker!Decide
  <2>1. walk \in Walks /\ walk.state = "Decode"
    BY <1>3, <1>8 DEF Walker!Decide, Walker!in
  <2> QED
    BY <1>1, <1>2, <1>3, <1>8, <2>1 DEF Walker!Decide, Walker!descend, Walker!in, Walks, Pte, Kinds
<1>9. ~Walker!StartOutOfReach
  BY WalkGoesOn, WaitingKept DEF Walker!StartOutOfReach
<1> QED
  BY <1>2, <1>4, <1>5, <1>6, <1>7, <1>8, <1>9 DEF Walker!Edge, Walker!Rest, Walker!ReadError, Walker!End

LEMMA WalkStoppedKept ==
  ASSUME IInv, Next
  PROVE  WalkStopped'
<1> SUFFICES ASSUME walk' # None, r_req_ctx'.satp.far PROVE walk'.state = "PmpFault"
  BY DEF WalkStopped
<1>1. ctx.satp.far
  BY WalkGoesOn, WaitingKept
<1>2. walk = None
  BY <1>1, WalkGoesOn, WalkMisses DEF IInv, WalkStopped
<1>3. Walker!StartOutOfReach
  BY <1>1, <1>2, WalkGoesOn DEF Walker!Start
<1> QED
  BY <1>3, StartTyped DEF Walker!StartOutOfReach, IInv

\* A leaf of the upper level gives every page it serves the same entry; one of the
\* lower level serves one page.
LEMMA SamePages ==
  ASSUME NEW vpn \in Vpns, NEW other \in Vpns, NEW asid, NEW level \in Levels,
         Base(other, level, "Sv32") = Base(vpn, level, "Sv32")
  PROVE  /\ Slot(asid, level, other) = Slot(asid, level, vpn)
         /\ level = 0 => other = vpn
<1>1. CASE level = 1
  BY <1>1 DEF Slot
<1>2. CASE level = 0
  <2>1. vpn \in Nat /\ other \in Nat
    BY SpanAssumption
  <2>2. vpn % 1 = 0 /\ other % 1 = 0
    BY <2>1
  <2>3. other = vpn
    BY <1>2, <2>1, <2>2 DEF Base, Span
  <2> QED
    BY <2>3
<1> QED
  BY <1>1, <1>2 DEF Levels

\* What a walk fills in, the tables give now to every page it serves.
LEMMA FillIsGiven ==
  ASSUME IInv, Walker!fill # None
  PROVE  /\ ~Walker!fill.g
         /\ \A asid \in Asids, vpn \in Vpns :
              Serves(Walker!fill, vpn, asid) => Given(Walker!fill, asid, vpn)
<1>1. walk # None /\ walk.state = "Fill"
  BY DEF Walker!fill, Walker!in
<1>2. walk \in Walks
  BY <1>1 DEF IInv, TypeOK, WalkTyped
<1>3. Walker!fill = [vpn |-> Base(walk.vpn, walk.level, "Sv32"), ppn |-> walk.pte.ppn,
                     level |-> walk.level, g |-> FALSE, asid |-> walk.asid]
  BY <1>1, SameNames DEF Walker!fill
<1>4. ASSUME NEW asid \in Asids, NEW vpn \in Vpns, Serves(Walker!fill, vpn, asid)
      PROVE  Given(Walker!fill, asid, vpn)
  <2>1. asid = walk.asid /\ Base(vpn, walk.level, "Sv32") = Base(walk.vpn, walk.level, "Sv32")
    BY <1>3, <1>4 DEF Serves
  <2>2. /\ Slot(asid, walk.level, vpn) = Slot(asid, walk.level, walk.vpn)
        /\ walk.level = 0 => vpn = walk.vpn
    BY <1>2, <2>1, SamePages DEF Walks
  <2>3. /\ walk.pte = table[Slot(asid, walk.level, vpn)]
        /\ walk.level = 0 => table[Slot(asid, 1, vpn)].kind = "ptr"
        /\ ~Walker!page_fault(walk.pte, walk.level) /\ walk.pte.kind = "leaf"
    BY <1>1, <2>1, <2>2 DEF IInv, WalkReads, WalkStopped
  <2>4. walk.level \in Levels /\ asid = satp_i.asid /\ ~satp_i.far
    BY <1>1, <2>1, WalkUnder
  <2>5. Meaning(table, satp_i, vpn) = [kind |-> "leaf", ppn |-> walk.pte.ppn, level |-> walk.level]
    BY <2>3, <2>4, MeaningOfEntry
  <2>6. Meaning(table, satp_i, vpn) \in recent[<<asid, vpn>>]
    BY <2>4 DEF IInv, CachesRecent
  <2> QED
    BY <1>3, <2>5, <2>6 DEF Given
<1> QED
  BY <1>3, <1>4

\* A fence leaves nothing that serves a page it names.
LEMMA FencedLost ==
  ASSUME NEW t, ~t.g, NEW asid, NEW vpn, Serves(t, vpn, asid), flush_i # None,
         ~ITLB!Fenced(t, flush_i) \/ ~DTLB!Fenced(t, flush_i)
  PROVE  ~Names(flush_i, asid, vpn)
BY DEF Serves, Names, ITLB!Fenced, DTLB!Fenced, ITLB!Base, DTLB!Base, Base, ITLB!Span, DTLB!Span, Span

LEMMA CachesRecentKept ==
  ASSUME IInv, Next
  PROVE  CachesRecent'
<1>1. \A asid \in Asids, vpn \in Vpns :
        recent'[<<asid, vpn>>] = Meanings(table', satp_i', <<asid, vpn>>) \cup
          (IF Names(flush_i, asid, vpn) THEN {} ELSE recent[<<asid, vpn>>])
  BY DEF Next, History
<1>2. \A vpn \in Vpns : Meaning(table, satp_i, vpn)' \in recent'[<<satp_i'.asid, vpn>>]
  <2>1. satp_i'.asid \in Asids
    BY StepTyped, MmuAssumption DEF IInv, TypeOK, WiresTyped
  <2>2. \A vpn : Meaning(table, satp_i, vpn)' = Meaning(table', satp_i', vpn)
    BY DEF Meaning, Walker!page_fault, Walker!misaligned, Slot, Base, Span
  <2> QED
    BY <1>1, <2>1, <2>2 DEF Meanings
<1>3. ASSUME NEW t, ~t.g, NEW asid \in Asids, NEW vpn \in Vpns, Given(t, asid, vpn),
             ~Names(flush_i, asid, vpn)
      PROVE  Given(t, asid, vpn)'
  BY <1>1, <1>3 DEF Given
<1>4. \A t \in itlb' \cup dtlb' :
        \/ t \in itlb \cup dtlb /\ (flush_i # None => ~ITLB!Fenced(t, flush_i)
                                                      \/ ~DTLB!Fenced(t, flush_i))
        \/ flush_i = None /\ Walker!fill # None /\ t = Walker!fill
  BY DEF Next, TlbEdge, ITLB!Next, ITLB!Take, ITLB!Drop, ITLB!Keep, DTLB!Next, DTLB!Take,
         DTLB!Drop, DTLB!Keep, fill_itlb, fill_dtlb
<1>5. ASSUME NEW t \in itlb' \cup dtlb'
      PROVE  /\ ~t.g
             /\ \A asid \in Asids, vpn \in Vpns :
                  Serves(t, vpn, asid) => Given(t, asid, vpn) /\ ~Names(flush_i, asid, vpn)
  <2>1. CASE t \in itlb \cup dtlb /\ (flush_i # None => ~ITLB!Fenced(t, flush_i)
                                                        \/ ~DTLB!Fenced(t, flush_i))
    <3>1. /\ ~t.g
          /\ \A asid \in Asids, vpn \in Vpns : Serves(t, vpn, asid) => Given(t, asid, vpn)
      BY <2>1 DEF IInv, CachesRecent
    <3>2. \A asid, vpn : Serves(t, vpn, asid) => ~Names(flush_i, asid, vpn)
      BY <2>1, <3>1, FencedLost DEF Names
    <3> QED
      BY <3>1, <3>2
  <2>2. CASE flush_i = None /\ Walker!fill # None /\ t = Walker!fill
    BY <2>2, FillIsGiven DEF Names
  <2> QED
    BY <1>4, <2>1, <2>2
<1>6. ASSUME NEW t \in itlb' \cup dtlb', NEW asid \in Asids, NEW vpn \in Vpns,
             Serves(t, vpn, asid)'
      PROVE  Given(t, asid, vpn)'
  <2>1. Serves(t, vpn, asid)
    BY <1>6 DEF Serves, Base, Span
  <2> QED
    BY <1>3, <1>5, <2>1
<1> QED
  BY <1>2, <1>5, <1>6 DEF CachesRecent

LEMMA StepIInv == IInv /\ [Next]_vars => IInv'
<1> SUFFICES ASSUME IInv, [Next]_vars PROVE IInv'
  OBVIOUS
<1>1. CASE Next
  <2>1. TypeOK'
    BY <1>1, StepTyped DEF IInv
  <2> QED
    BY <1>1, <2>1, HeldIsPresentKept, AnswersFreshKept, WalkIsOwnKept, WalkReadsKept,
       WalkStoppedKept, CachesRecentKept DEF IInv
<1>2. CASE UNCHANGED vars
  <2> USE <1>2 DEF vars, arbVars, mmuVars, tlbVars, wires
  <2>1. TypeOK'
    BY StepTyped DEF IInv
  <2>2. HeldIsPresent' /\ AnswersFresh'
    BY DEF IInv, HeldIsPresent, AnswersFresh, Found, Misses, data_en_i, is_write, Serves,
           Base, Span, Frame
  <2>3. WalkIsOwn' /\ WalkReads' /\ WalkStopped'
    BY DEF IInv, WalkIsOwn, WalkReads, WalkStopped, Misses, Serves, Base, Span, Slot,
           Walker!page_fault, Walker!misaligned
  <2>4. CachesRecent'
    <3>1. \A vpn : Meaning(table, satp_i, vpn)' = Meaning(table, satp_i, vpn)
      BY DEF Meaning, Walker!page_fault, Walker!misaligned, Slot, Base, Span
    <3>2. \A t, asid, vpn : /\ Given(t, asid, vpn)' <=> Given(t, asid, vpn)
                            /\ Serves(t, vpn, asid)' <=> Serves(t, vpn, asid)
      BY DEF Given, Serves, Base, Span
    <3> QED
      BY <3>1, <3>2 DEF IInv, CachesRecent
  <2> QED
    BY <2>1, <2>2, <2>3, <2>4 DEF IInv
<1> QED
  BY <1>1, <1>2

\* The parts above hold together in every reachable state of the translation: the
\* registered answer, the walk and what waits on the bus belong to the request
\* that is held (friscv_mmu.sv, friscv_ptw.sv).
THEOREM Invariance == Spec => []IInv
BY InitIInv, StepIInv, PTL DEF Spec

-----------------------------------------------------------------------------
(* The time a request takes.  Each of its phases, from the first look-up to *)
(* the one that finds the fill, has a deadline: the latest age at which it  *)
(* is in that phase.  A phase leads only to phases of later deadlines.      *)

\* The TLB of the held request has no translation for it.
Missed == Misses(IF r_req_ctx.is_inst THEN itlb ELSE dtlb, r_req_ctx.vpn, r_req_ctx.satp.asid)

Deadline ==
  IF walk = None
    THEN IF Missed THEN IF r_tlb_changed THEN 1 ELSE 2
         ELSE IF r_tlb_changed THEN 8 ELSE 9
  ELSE CASE walk.state = "Read"   -> IF r_tlb_changed THEN 1 ELSE IF walk.level = 1 THEN 3 ELSE 5
         [] walk.state = "Decode" -> IF walk.level = 1 THEN 4 ELSE 6
         [] OTHER -> IF r_tlb_changed THEN 1 ELSE 7

\* A held request is under its deadline until its access is on the bus; what the
\* bus makes wait does not grow older.
Timely ==
  /\ age \in 0 .. 9
  /\ arb_state_q = "Idle" => age = 0 /\ r_access_pa = None
  /\ arb_state_q # "Idle" =>
       /\ flush_i = None
       /\ r_access_pa = None =>
            /\ r_req_ctx.satp.mode = "Sv32" /\ r_req_ctx.mode # "M"
            /\ (IF r_req_ctx.is_inst THEN r_ivpn_q ELSE r_dvpn_q) = r_req_ctx.vpn
            /\ age <= Deadline

LEMMA DeadlineBounds ==
  /\ Deadline \in 1 .. 9
  /\ ~r_tlb_changed => Deadline >= 2
BY DEF Deadline

\* An access that waits has the bus.
LEMMA BusyOnBus ==
  ASSUME IInv, Timely, r_access_busy
  PROVE  /\ arb_state_q # "Idle" /\ walk = None
         /\ ~tlate_pending /\ ~Walker!stall /\ mem_rw # "idle"
<1>1. arb_state_q # "Idle" /\ walk = None
  BY DEF Timely, r_access_busy, IInv, WalkIsOwn
<1>2. ~tlate_pending /\ ~answered /\ ~tlb_miss /\ ~perm_fault
  BY DEF tlate_pending, answered, tlb_miss, perm_fault
<1>3. grant_active
  BY <1>1, GrantOwn DEF grant_held
<1>4. ~Walker!stall
  BY <1>1, <1>2 DEF Walker!stall, Walker!start_walk, Walker!in
<1> QED
  BY <1>1, <1>2, <1>3, <1>4 DEF mem_rw

\* A request that waits without an access waits for its translation.
LEMMA WaitsForTranslation ==
  ASSUME IInv, Timely, Next, grant_active, stall, r_access_pa' = None
  PROVE  /\ ~r_access_busy /\ paging_en
         /\ ctx.satp.mode = "Sv32" /\ ctx.mode # "M"
         /\ Walker!stall \/ tlate_pending
<1>1. ~r_access_busy
  <2> SUFFICES ASSUME r_access_busy PROVE FALSE
    OBVIOUS
  <2>1. mem_i = "wait"
    BY BusyOnBus DEF stall
  <2> QED
    BY <2>1, BusyOnBus DEF Next, AccessEdge, r_access_busy
<1>2. Walker!stall \/ tlate_pending
  <2> SUFFICES ASSUME ~Walker!stall, ~tlate_pending PROVE FALSE
    OBVIOUS
  <2>1. mem_i = "wait" /\ mem_rw # "idle"
    BY DEF stall
  <2>2. CASE walk_en
    <3>1. Walker!in("Read")
      BY <2>1, <2>2 DEF walk_en, WalkReq!walk_en, WalkReq!start_walk, WalkReq!in, WalkReq!descend,
         Walker!stall, Walker!start_walk, Walker!in
    <3> QED
      BY <2>1, <3>1 DEF Walker!stall
  <2>3. CASE ~walk_en
    <3>1. tlate_pa = None
      BY <1>1, <2>1, <2>3 DEF Next, AccessEdge, r_access_busy
    <3>2. ~tlb_miss
      BY <2>1, <2>3 DEF mem_rw
    <3>3. ctx.vpn \in Int
      <4>1. ctx.vpn \in Vpns
        BY ContextTyped DEF IInv, TypeOK, Contexts
      <4>2. Vpns \subseteq Int
        BY SpanAssumption
      <4> QED
        BY <4>1, <4>2
    <3>4. paging_en => answered /\ answer # None
      BY <1>1, <3>2 DEF answered, tlb_miss
    <3>5. answer # None => answer.ppn \in Int
      BY DEF answer, IInv, TypeOK, CachesTyped, Answers
    <3> QED
      BY <3>1, <3>2, <3>3, <3>4, <3>5, MmuAssumption DEF tlate_pa
  <2> QED
    BY <2>2, <2>3
<1>3. paging_en /\ ctx.satp.mode = "Sv32" /\ ctx.mode # "M"
  <2>1. CASE tlate_pending
    BY <2>1, ContextTyped DEF tlate_pending, paging_en, Contexts, Modes, IInv, TypeOK
  <2>2. CASE Walker!start_walk
    BY <2>2, StartIsMiss DEF paging_en
  <2>3. CASE walk # None
    BY <2>3, WalkMisses DEF IInv, WalkIsOwn, paging_en
  <2> QED
    BY <1>2, <2>1, <2>2, <2>3 DEF Walker!stall, Walker!in
<1> QED
  BY <1>1, <1>2, <1>3

\* Without a fill or a fence a held request goes on missing, or being served.
LEMMA MissedKept ==
  ASSUME Next, flush_i = None, fill_itlb = None, fill_dtlb = None, r_req_ctx' = r_req_ctx
  PROVE  Missed' = Missed /\ ~r_tlb_changed'
<1>1. itlb' = itlb /\ dtlb' = dtlb /\ ~r_tlb_changed'
  BY CachesShrink DEF Next, GateEdge
<1> QED
  BY <1>1 DEF Missed, Misses, Serves, Base, Span

\* A fill is in its TLB in the next cycle.
LEMMA FillIsFound ==
  ASSUME IInv, Next, walk # None, walk.state = "Fill", flush_i = None, r_req_ctx' = r_req_ctx
  PROVE  ~Missed'
<1>1. walk \in Walks /\ WalkIsOwn
  BY WalkMisses DEF IInv
<1>2. Serves(Walker!fill, walk.vpn, walk.asid) /\ Walker!fill # None
  <2>1. Walker!fill = [vpn |-> Base(walk.vpn, walk.level, "Sv32"), ppn |-> walk.pte.ppn,
                       level |-> walk.level, g |-> FALSE, asid |-> walk.asid]
    BY SameNames DEF Walker!fill, Walker!in
  <2>2. Base(walk.vpn, walk.level, "Sv32") \in Nat /\ walk.pte.ppn \in Nat
    BY <1>1, BaseIsNat DEF Walks, Pte
  <2>3. Walker!fill \in Leaf
    BY <1>1, <2>1, <2>2 DEF Walks, Leaf
  <2> QED
    BY <2>1, <2>3, NoneAssumption DEF Serves
<1>3. Walker!fill \in IF walk.is_inst THEN itlb' ELSE dtlb'
  BY <1>2 DEF Next, TlbEdge, fill_itlb, fill_dtlb, ITLB!Next, ITLB!Take, ITLB!Drop, ITLB!Keep,
              DTLB!Next, DTLB!Take, DTLB!Drop, DTLB!Keep
<1>4. /\ r_req_ctx'.vpn = walk.vpn /\ r_req_ctx'.is_inst = walk.is_inst
      /\ r_req_ctx'.satp.asid = walk.asid
  BY <1>1 DEF WalkIsOwn
<1> QED
  BY <1>2, <1>3, <1>4 DEF Missed, Misses, Serves, Base, Span

\* The request that is not being walked: it waits for its look-up, or misses.
LEMMA LookupInTime ==
  ASSUME IInv, Timely, Next, grant_active, stall, r_access_pa' = None,
         arb_state_q # "Idle", walk = None
  PROVE  age' <= Deadline'
<1>1. ctx = r_req_ctx /\ r_req_ctx' = r_req_ctx /\ flush_i = None
  BY GrantOwn, WaitingKept DEF Timely, grant_held
<1>2. ~r_access_busy /\ paging_en /\ (Walker!stall \/ tlate_pending)
  BY WaitsForTranslation
<1>3. age \in 0 .. 9 /\ age <= Deadline
  BY <1>2 DEF Timely, r_access_busy
<1>4. age' = age \/ age' = age + 1
  BY WaitingKept DEF Next, History, Age
<1>5. fill_itlb = None /\ fill_dtlb = None
  BY DEF fill_itlb, fill_dtlb
<1>6. Missed' = Missed /\ ~r_tlb_changed'
  BY <1>1, <1>5, MissedKept
<1>7. tlate_pending <=> r_tlb_changed
  <2>1. (IF ctx.is_inst THEN r_ivpn_q ELSE r_dvpn_q) = ctx.vpn
    BY <1>1, <1>2 DEF Timely, r_access_busy
  <2> QED
    BY <1>2, <2>1 DEF tlate_pending, tlate_valid, inst_vpn, data_vpn
<1>8. CASE r_tlb_changed
  <2>1. walk' = None
    BY <1>7, <1>8 DEF Next, Walker!Edge, Walker!Rest, Walker!Start,
       Walker!StartOutOfReach, Walker!start_walk, tlb_miss,
       answered, Walker!ReadWait, Walker!ReadError, Walker!ReadDone, Walker!Descend, Walker!Decide,
       Walker!End, Walker!in, Walker!descend
  <2>2. /\ Deadline = IF Missed THEN 1 ELSE 8
        /\ Deadline' = IF Missed THEN 2 ELSE 9
    BY <1>6, <1>8, <2>1 DEF Deadline
  <2> QED
    BY <1>3, <1>4, <2>2
<1>9. CASE ~r_tlb_changed
  <2>1. Walker!start_walk
    BY <1>2, <1>7, <1>9 DEF Walker!stall, Walker!in
  <2>2. Missed
    BY <1>1, <2>1, StartIsMiss DEF Missed
  <2>3. Walker!Start \/ Walker!StartOutOfReach
    BY <2>1 DEF Next, Walker!Edge, Walker!Rest, Walker!start_walk, Walker!ReadWait,
       Walker!ReadError, Walker!ReadDone, Walker!Descend, Walker!Decide, Walker!End, Walker!in,
       Walker!descend
  <2>4. walk' # None /\ walk'.state \in {"Read", "PmpFault"} /\ walk'.level = 1
    BY <2>3, StartTyped, MmuAssumption DEF Walker!Start, Walker!StartOutOfReach, IInv
  <2>5. Deadline = 2 /\ Deadline' \in {3, 7}
    BY <1>6, <1>9, <2>2, <2>4 DEF Deadline
  <2> QED
    BY <1>3, <1>4, <2>5
<1> QED
  BY <1>8, <1>9

\* The request that is being walked, step by step.
LEMMA WalkInTime ==
  ASSUME IInv, Timely, Next, grant_active, stall, r_access_pa' = None,
         arb_state_q # "Idle", walk # None
  PROVE  age' <= Deadline'
<1>1. ctx = r_req_ctx /\ r_req_ctx' = r_req_ctx /\ flush_i = None
  BY GrantOwn, WaitingKept DEF Timely, grant_held
<1>2. walk \in Walks /\ ~r_access_busy
  BY WalkMisses
<1>3. age \in 0 .. 9 /\ age <= Deadline
  BY <1>2 DEF Timely, r_access_busy
<1>4. /\ age' = age \/ age' = age + 1
      /\ mem_i = "wait" => age' = age
  BY WaitingKept DEF Next, History, Age
<1>5. walk.state # "Fill" => ~r_tlb_changed'
  BY <1>1 DEF Next, GateEdge, fill_itlb, fill_dtlb, Walker!fill, Walker!in
<1>6. CASE Walker!ReadWait
  <2>1. walk.state = "Read" /\ walk' = walk /\ age' = age
    BY <1>4, <1>6 DEF Walker!ReadWait, Walker!in
  <2>2. Deadline <= Deadline' /\ Deadline' \in 1 .. 9
    BY <1>2, <1>5, <2>1 DEF Deadline, Walks, Levels
  <2> QED
    BY <1>3, <2>1, <2>2, DeadlineBounds
<1>7. CASE Walker!ReadError
  <2>1. walk.state = "Read" /\ mem_i = "err" /\ walk' = None
    BY <1>7 DEF Walker!ReadError, Walker!in
  <2>2. tlate_pending
    BY <2>1 DEF stall, Walker!stall, Walker!in, Walker!start_walk
  <2>3. r_tlb_changed
    BY <1>1, <2>2 DEF tlate_pending, tlate_valid, inst_vpn, data_vpn, IInv, WalkIsOwn
  <2>4. Deadline = 1 /\ Deadline' >= 2
    BY <1>5, <2>1, <2>3 DEF Deadline
  <2>5. Deadline' \in Int
    BY <2>1 DEF Deadline
  <2> QED
    BY <1>3, <1>4, <2>4, <2>5
<1>8. CASE Walker!ReadDone
  <2>1. walk.state = "Read" /\ walk' = [walk EXCEPT !.state = "Decode", !.pte = table[WalkReq!walk_slot]]
    BY <1>8 DEF Walker!ReadDone, Walker!in
  <2>2. walk'.state = "Decode" /\ walk'.level = walk.level /\ walk' # None
    <3>1. walk'.state = "Decode" /\ walk'.level = walk.level
      BY <1>2, <2>1 DEF Walks
    <3>2. table[WalkReq!walk_slot] \in Pte
      BY <1>2, <2>1, ReadSlot, SlotIsSlot, MmuAssumption DEF Walks, IInv, TypeOK, WalkTyped
    <3>3. walk' \in Walks
      BY <1>2, <2>1, <3>2 DEF Walks
    <3> QED
      BY <3>1, <3>3, MmuAssumption
  <2>3. /\ Deadline <= IF walk.level = 1 THEN 3 ELSE 5
        /\ Deadline' = IF walk.level = 1 THEN 4 ELSE 6
    BY <2>1, <2>2 DEF Deadline
  <2> QED
    BY <1>3, <1>4, <2>3, DeadlineBounds
<1>9. CASE Walker!Descend
  <2>1. /\ walk' \in Walks /\ walk'.state = "Read" /\ walk'.level = walk.level - 1
        /\ walk.state = "Decode"
    BY <1>9, DescendTyped DEF IInv, Walker!Descend, Walker!descend, Walker!in
  <2>2. walk.level = 1 /\ walk'.level = 0 /\ walk' # None
    BY <1>2, <2>1, MmuAssumption DEF Walks, Levels
  <2>3. Deadline = 4 /\ Deadline' = 5
    BY <1>5, <2>1, <2>2 DEF Deadline
  <2> QED
    BY <1>3, <1>4, <2>3
<1>10. CASE Walker!Decide
  <2>1. walk.state = "Decode"
    BY <1>10 DEF Walker!Decide, Walker!in
  <2>2. walk'.state \in {"PageFault", "PmpFault", "Fill"} /\ walk' # None
    <3>1. walk' \in Walks
      BY <1>2, <1>10 DEF Walker!Decide, Walks
    <3> QED
      BY <1>2, <1>10, <3>1, MmuAssumption DEF Walker!Decide, Walks
  <2>3. Deadline <= 6 /\ Deadline' = 7
    BY <1>5, <2>1, <2>2 DEF Deadline
  <2> QED
    BY <1>3, <1>4, <2>3, DeadlineBounds
<1>11. CASE Walker!End
  <2>1. /\ walk.state \in {"Fill", "PageFault", "PmpFault"} /\ walk' = None
        /\ walk.state = "Fill" \/ r_tlb_changed
    BY <1>11, WalkStalls DEF Walker!End, Walker!in
  <2>2. CASE walk.state = "Fill"
    <3>1. ~Missed'
      BY <1>1, <2>2, FillIsFound
    <3>2. Deadline <= 7 /\ Deadline' \in {8, 9}
      BY <2>1, <2>2, <3>1 DEF Deadline
    <3> QED
      BY <1>3, <1>4, <3>2, DeadlineBounds
  <2>3. CASE walk.state # "Fill"
    <3>1. Deadline = 1 /\ Deadline' \in {2, 9}
      BY <1>5, <2>1, <2>3 DEF Deadline
    <3> QED
      BY <1>3, <1>4, <3>1
  <2> QED
    BY <2>2, <2>3
<1> QED
  BY <1>6, <1>7, <1>8, <1>9, <1>10, <1>11 DEF Next, Walker!Edge, Walker!Rest, Walker!Start,
     Walker!StartOutOfReach, Walker!start_walk

LEMMA TimelyKept ==
  ASSUME IInv, Timely, Next
  PROVE  Timely'
<1>1. CASE arb_state_q' = "Idle"
  <2>1. age' = 0
    BY <1>1 DEF Next, History, Age
  <2>2. r_access_pa' = None
    <3> SUFFICES ASSUME r_access_pa' # None PROVE FALSE
      OBVIOUS
    <3>1. mem_i = "wait" /\ mem_rw # "idle"
      BY BusyOnBus DEF Next, AccessEdge, r_access_busy
    <3>2. stall /\ grant_active
      <4>1. walk # None \/ Walker!start_walk => grant_active
        BY WalkMisses, StartIsMiss
      <4>2. walk_en => walk # None \/ Walker!start_walk
        BY DEF walk_en, WalkReq!walk_en, WalkReq!start_walk, WalkReq!in, WalkReq!descend,
               Walker!start_walk
      <4> QED
        BY <3>1, <4>1, <4>2 DEF stall, mem_rw
    <3> QED
      BY <1>1, <3>2, WaitingKept
  <2> QED
    BY <1>1, <2>1, <2>2 DEF Timely
<1>2. CASE arb_state_q' # "Idle"
  <2>1. grant_active /\ stall
    BY <1>2, HoldsWaiting, GrantOwn DEF Next
  <2>2. r_req_ctx' = ctx /\ flush_i' = None
    BY <2>1, WaitingKept
  <2>3. age \in 0 .. 9 /\ age' = IF mem_i = "wait" THEN age ELSE age + 1
    BY <1>2 DEF Timely, Next, History, Age, AgeBound
  <2>4. CASE r_access_pa' # None
    <3>1. mem_i = "wait"
      BY <2>4 DEF Next, AccessEdge
    <3> QED
      BY <1>2, <2>2, <2>3, <2>4, <3>1 DEF Timely
  <2>5. CASE r_access_pa' = None
    <3>1. ctx.satp.mode = "Sv32" /\ ctx.mode # "M"
      BY <2>1, <2>5, WaitsForTranslation
    <3>2. (IF ctx.is_inst THEN r_ivpn_q' ELSE r_dvpn_q') = ctx.vpn
      BY <2>1 DEF Next, GateEdge, inst_vpn, data_vpn
    <3>3. age' <= Deadline'
      <4>1. CASE arb_state_q = "Idle"
        <5>1. age' \in 0 .. 1
          BY <2>3, <4>1 DEF Timely
        <5>2. Deadline' \in 1 .. 9
          BY DEF Deadline
        <5> QED
          BY <5>1, <5>2
      <4>2. CASE arb_state_q # "Idle"
        BY <2>1, <2>5, <4>2, LookupInTime, WalkInTime
      <4> QED
        BY <4>1, <4>2
    <3>4. Deadline' \in 1 .. 9
      BY DEF Deadline
    <3>5. age' \in 0 .. 9
      BY <2>3, <3>3, <3>4
    <3> QED
      BY <1>2, <2>2, <3>1, <3>2, <3>3, <3>5 DEF Timely
  <2> QED
    BY <2>4, <2>5
<1> QED
  BY <1>1, <1>2

-----------------------------------------------------------------------------
(* Theorems *)

\* Every access is made in the context of its request, to the page the tables in
\* force gave since the last fence, with a permission; every fault has its cause
\* there, an entry or the root of satp; and no port takes the answer of another
\* (friscv_mmu.sv, friscv_ptw.sv).
THEOREM Served == Spec => []RequestServed
<1>1. IInv => RequestServed
  BY AccessServed, FaultServed, AnswerServed DEF RequestServed
<1> QED
  BY <1>1, Invariance, PTL

\* A TLB is filled only for the page on its look-up wires, which it misses: what
\* the theorems about the TLB assume of the walker (friscv_ptw.sv, friscv_tlb.sv).
THEOREM Filled == Spec => []FillForMiss
BY FillIsForMiss, Invariance, PTL

\* Nothing sends a request round again: not the fence of its first cycle, nor the
\* error of a read whose look-up that fence spoilt, nor its own fill. It is
\* answered within the cycles of one walk and the look-up after it.
THEOREM Answered == Spec => []AnsweredInTime
<1>1. Init => Timely
  BY DEF Init, Grant!Reset, Timely
<1>2. IInv /\ Timely /\ [Next]_vars => Timely'
  <2> SUFFICES ASSUME IInv, Timely, UNCHANGED vars PROVE Timely'
    BY TimelyKept
  <2>1. Deadline' = Deadline
    BY DEF vars, arbVars, mmuVars, tlbVars, wires, Deadline, Missed, Misses, Serves, Base, Span
  <2> QED
    BY <2>1 DEF Timely, vars, arbVars, mmuVars, tlbVars, wires
<1>3. Timely => AnsweredInTime
  BY DEF Timely, AnsweredInTime
<1> QED
  BY <1>1, <1>2, <1>3, Invariance, PTL DEF Spec
=============================================================================

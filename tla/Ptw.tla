--------------------------------- MODULE Ptw ---------------------------------
(***************************************************************************)
(* The page table walker (rtl/core/friscv_ptw.sv) for Sv32: two levels,    *)
(* one read of the bus for each, then a fill of the TLB that missed or a   *)
(* fault.                                                                  *)
(***************************************************************************)
EXTENDS Translations

VARIABLES
  walk,     \* the walk in progress: [state, asid, is_inst, vpn, is_write, level, pte], or None
  miss,     \* wires itlb_miss_i, dtlb_miss_i
  ctx,      \* satp_i, req_va_i, req_is_write_i: the context of the granted request
  mem_i,    \* the bus: "wait", "ok" or "err"
  pte_i     \* walk_rdata_i

Root  == [kind |-> "ptr", ppn |-> 0]

in(state) == walk # None /\ walk.state = state

\* A superpage must start at a multiple of its size.
misaligned(pte, level) == level = 1 /\ pte.ppn % Sv32Span # 0

page_fault(pte, level) ==
  \/ pte.kind = "bad"
  \/ pte.kind = "ptr" /\ level = 0
  \/ pte.kind = "leaf" /\ misaligned(pte, level)

start_walk == walk = None /\ miss
descend    == in("Decode") /\ ~page_fault(walk.pte, walk.level) /\ walk.pte.kind = "ptr"

-----------------------------------------------------------------------------
(* Outputs.  The bus is taken one cycle ahead of each read. *)

walk_en   == (start_walk /\ ~ctx.satp.far) \/ in("Read") \/ descend
walk_slot == IF start_walk THEN Slot(ctx.satp.asid, 1, ctx.vpn)
             ELSE Slot(walk.asid, IF descend THEN walk.level - 1 ELSE walk.level, walk.vpn)

\* Mutant: a bus error does not release the requester.
stall_NotOnError == start_walk \/ in("Read") \/ in("Decode") \/ in("Fill")

\* The requester is released with a fault, or with the error of a read.
stall == \/ start_walk \/ in("Decode") \/ in("Fill")
         \/ in("Read") /\ mem_i # "err"

fill == IF ~in("Fill") THEN None
        ELSE [vpn |-> Base(walk.vpn, walk.level, "Sv32"), ppn |-> walk.pte.ppn,
              level |-> walk.level, g |-> FALSE, asid |-> walk.asid]

fault     == in("PageFault")
pmp_fault == in("PmpFault")

-----------------------------------------------------------------------------
(* The clock edge *)

Rest  == walk = None /\ ~miss /\ UNCHANGED walk

Captured(state) ==
  [state |-> state, asid |-> ctx.satp.asid, is_inst |-> ctx.is_inst,
   vpn |-> ctx.vpn, is_write |-> ctx.is_write, level |-> 1, pte |-> Root]

Start == start_walk /\ ~ctx.satp.far /\ walk' = Captured("Read")

\* Mutants: the root is not checked; its fault is never reached.
StartOutOfReach_Walks == start_walk /\ ctx.satp.far /\ walk' = Captured("Read")
StartOutOfReach_Stays == start_walk /\ ctx.satp.far /\ UNCHANGED walk

\* ppn_oob of the root: satp keeps a page number that no address reaches, and
\* the walk ends before its first read.
StartOutOfReach == start_walk /\ ctx.satp.far /\ walk' = Captured("PmpFault")

ReadWait == in("Read") /\ mem_i = "wait" /\ UNCHANGED walk

\* The read fails: no fill, and the requester has seen the error on the bus.
ReadError == in("Read") /\ mem_i = "err" /\ walk' = None

ReadDone ==
  /\ in("Read") /\ mem_i = "ok"
  /\ walk' = [walk EXCEPT !.state = "Decode", !.pte = pte_i]

Descend ==
  /\ descend
  /\ walk' = [walk EXCEPT !.state = "Read", !.level = @ - 1]

Decide ==
  /\ in("Decode") /\ ~descend
  /\ walk' = [walk EXCEPT !.state =
       IF page_fault(walk.pte, walk.level) THEN "PageFault"
       ELSE IF walk.pte.kind = "far" THEN "PmpFault" ELSE "Fill"]

\* A fill and a fault last one cycle.
End == (in("Fill") \/ in("PageFault") \/ in("PmpFault")) /\ walk' = None

Edge == \/ Rest \/ Start \/ StartOutOfReach
        \/ ReadWait \/ ReadError \/ ReadDone \/ Descend \/ Decide \/ End
=============================================================================

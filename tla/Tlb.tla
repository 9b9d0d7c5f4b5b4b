--------------------------------- MODULE Tlb ---------------------------------
(***************************************************************************)
(* The translation lookaside buffer (rtl/core/friscv_tlb.sv): a fully      *)
(* associative store with clock replacement, a look-up registered for one  *)
(* cycle, and fences that drop everything or only what they name.          *)
(***************************************************************************)
EXTENDS Translations

CONSTANTS
  EntryCount,
  EnableFineTlbFlush,
  PageTable,   \* the leaves of the page table
  FenceModes   \* modes of the TLB a fence may find

\* The page table maps a page of an address space once, and the walker turns
\* down a misaligned superpage.
ASSUME PageTableAssumption ==
  /\ PageTable \subseteq Leaf
  /\ \A t \in PageTable : Base(t.ppn, t.level, "Sv32") = t.ppn
  /\ \A t, u \in PageTable, vpn \in Vpns, asid \in Asids :
       Serves(t, vpn, asid) /\ Serves(u, vpn, asid) => t = u

ASSUME EntryAssumption ==
  /\ EntryCount \in Nat \ {0}
  /\ EnableFineTlbFlush \in BOOLEAN
  /\ FenceModes \subseteq Modes

Slots == 0 .. EntryCount - 1

VARIABLES
  tlb,          \* per slot [vpn, ppn, level, g, asid, v]
  ref_q,        \* reference bits
  clock_ptr_q,  \* clock hand
  answer_q,     \* ppn_q, perm_q, hit_q: [leaf, ppn], or None
  \* wires
  match_i,      \* [vpn, asid]
  mode_i,
  fill_i,       \* the leaf a walk found for match_i, or None
  flush_i       \* a fence, or None

vars == <<tlb, ref_q, clock_ptr_q, answer_q, match_i, mode_i, fill_i, flush_i>>

Empty == [vpn |-> 0, ppn |-> 0, level |-> 0, g |-> FALSE, asid |-> 0, v |-> FALSE]

-----------------------------------------------------------------------------
(* Look-up and victim *)

translation_of(e) ==
  [vpn |-> e.vpn, ppn |-> e.ppn, level |-> e.level, g |-> e.g, asid |-> e.asid]

\* High bits of the leaf, low bits of the page.
reconstruct_ppn(e, vpn) == Base(e.ppn, e.level, mode_i) + (vpn % Span(e.level, mode_i))

\* Mutant: a superpage matches on its first page alone.
vpn_match_Exact(e, vpn) == vpn = e.vpn

vpn_match(e, vpn) == Base(vpn, e.level, mode_i) = e.vpn

hits == {s \in Slots : /\ tlb[s].v
                       /\ tlb[s].g \/ tlb[s].asid = match_i.asid
                       /\ vpn_match(tlb[s], match_i.vpn)}

\* The last slot that matches answers.
hit_idx == CHOOSE s \in hits : \A u \in hits : u <= s

invalid  == {s \in Slots : ~tlb[s].v}
distance(s) == (s + EntryCount - clock_ptr_q) % EntryCount

\* The first slot from the hand on without a reference, else the hand's.
clock_victim ==
  IF \A s \in Slots : ref_q[s] THEN clock_ptr_q
  ELSE CHOOSE s \in Slots :
         ~ref_q[s] /\ \A u \in Slots : ~ref_q[u] => distance(s) <= distance(u)

victim == IF invalid # {} THEN CHOOSE s \in invalid : \A u \in invalid : s <= u
          ELSE clock_victim

-----------------------------------------------------------------------------
(* The clock edge *)

referenced == [s \in Slots |-> ref_q[s] \/ (hits # {} /\ s = hit_idx)]

LookUp ==
  answer_q' = IF hits = {} THEN None
              ELSE [leaf |-> translation_of(tlb[hit_idx]),
                    ppn |-> reconstruct_ppn(tlb[hit_idx], match_i.vpn)]

\* Mutant: a page fence spares global entries.
flushed_NoGlobal(e) ==
  /\ EnableFineTlbFlush /\ flush_i.vpn # None => vpn_match(e, flush_i.vpn) /\ ~e.g
  /\ EnableFineTlbFlush /\ flush_i.asid # None => e.asid = flush_i.asid /\ ~e.g

flushed(e) ==
  /\ EnableFineTlbFlush /\ flush_i.vpn # None => vpn_match(e, flush_i.vpn)
  /\ EnableFineTlbFlush /\ flush_i.asid # None => e.asid = flush_i.asid /\ ~e.g

Flush ==
  /\ flush_i # None
  /\ tlb' = [s \in Slots |-> IF flushed(tlb[s]) THEN Empty ELSE tlb[s]]
  /\ ref_q' = referenced
  /\ UNCHANGED clock_ptr_q

filled ==
  [vpn |-> Base(match_i.vpn, fill_i.level, mode_i), ppn |-> fill_i.ppn,
   level |-> fill_i.level, g |-> fill_i.g, asid |-> match_i.asid, v |-> TRUE]

FillInvalid ==
  /\ flush_i = None /\ fill_i # None /\ invalid # {}
  /\ tlb' = [tlb EXCEPT ![victim] = filled]
  /\ ref_q' = [referenced EXCEPT ![victim] = TRUE]
  /\ UNCHANGED clock_ptr_q

\* The hand sweeps to the victim and takes the references it passes, that of a
\* hit in the same cycle included.
FillReplace ==
  /\ flush_i = None /\ fill_i # None /\ invalid = {}
  /\ tlb' = [tlb EXCEPT ![victim] = filled]
  /\ ref_q' = [s \in Slots |-> /\ referenced[s] \/ s = victim
                               /\ distance(s) >= distance(victim)]
  /\ clock_ptr_q' = (victim + 1) % EntryCount

Quiet ==
  /\ flush_i = None /\ fill_i = None
  /\ ref_q' = referenced
  /\ UNCHANGED <<tlb, clock_ptr_q>>

Edge == LookUp /\ (Flush \/ FillInvalid \/ FillReplace \/ Quiet)

-----------------------------------------------------------------------------
(* The environment *)

Lookups == [vpn : Vpns, asid : Asids]

\* A walk starts from a miss of the request that is granted, and that request
\* stays on the look-up wires until the fill (friscv_mmu, friscv_ptw).
WiresOK ==
  /\ fill_i # None => /\ mode_i = "Sv32"
                      /\ Serves(fill_i, match_i.vpn, match_i.asid)
                      /\ hits = {}
  /\ flush_i # None => mode_i \in FenceModes

Init ==
  /\ tlb = [s \in Slots |-> Empty]
  /\ ref_q = [s \in Slots |-> FALSE]
  /\ clock_ptr_q = 0
  /\ answer_q = None
  /\ match_i \in Lookups
  /\ mode_i \in Modes
  /\ fill_i \in PageTable \cup {None}
  /\ flush_i \in Fences \cup {None}
  /\ WiresOK

Wires ==
  /\ match_i' \in Lookups
  /\ mode_i' \in Modes
  /\ fill_i' \in PageTable \cup {None}
  /\ flush_i' \in Fences \cup {None}
  /\ WiresOK'

Next == Edge /\ Wires

Spec == Init /\ [][Next]_vars

-----------------------------------------------------------------------------
(* Properties *)

Entry == [vpn : Nat, ppn : Nat, level : Levels, g : BOOLEAN, asid : Nat, v : BOOLEAN]

\* Every slot holds an entry, and the clock hand stays on the slots.
TypeOK ==
  /\ tlb \in [Slots -> Entry]
  /\ ref_q \in [Slots -> BOOLEAN]
  /\ clock_ptr_q \in Slots
  /\ answer_q \in [leaf : Leaf, ppn : Nat] \cup {None}
  /\ match_i \in Lookups
  /\ mode_i \in Modes
  /\ fill_i \in PageTable \cup {None}
  /\ flush_i \in Fences \cup {None}
  /\ WiresOK

\* No two slots translate the same page of an address space: the answer does
\* not depend on the order of the slots, and a fence has one entry to drop.
NoDuplicates ==
  \A s, u \in Slots, vpn \in Vpns, asid \in Asids :
    (/\ tlb[s].v /\ Serves(translation_of(tlb[s]), vpn, asid)
     /\ tlb[u].v /\ Serves(translation_of(tlb[u]), vpn, asid))
    => s = u

cached == {translation_of(tlb[s]) : s \in {u \in Slots : tlb[u].v}}

TC == INSTANCE TranslationCache WITH
  answer <- answer_q, lookup <- match_i, mode <- mode_i, fence <- flush_i,
  fill <- IF fill_i = None THEN None ELSE [fill_i EXCEPT !.asid = match_i.asid]

\* The TLB implements a cache of translations: a page it has is found under
\* paging, with its physical page; whatever the replacement does, a fill is
\* kept and costs at most one translation; and after a fence no translation it
\* names is left.
Refines == TC!Spec
=============================================================================

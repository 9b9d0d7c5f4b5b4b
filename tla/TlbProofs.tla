------------------------------ MODULE TlbProofs ------------------------------
(***************************************************************************)
(* Proofs about the TLB, for any number of slots and any page table that   *)
(* maps a page of an address space once.                                   *)
(***************************************************************************)
EXTENDS Tlb, WellFoundedInduction, TLAPS

\* A valid entry copies a leaf of the page table, under the address space of
\* the walk that found it.
CopiesLeaf(e) ==
  \E t \in PageTable :
    /\ e.vpn = t.vpn /\ e.ppn = t.ppn /\ e.level = t.level /\ e.g = t.g
    /\ t.g \/ e.asid = t.asid
    /\ \E vpn \in Vpns : Base(vpn, t.level, "Sv32") = t.vpn

EntriesCopyLeaves ==
  \A s \in Slots : tlb[s].v => CopiesLeaf(tlb[s]) /\ tlb[s].asid \in Asids

(***************************************************************************)
(* NoDuplicates is not inductive: what a fill adds must not serve a page   *)
(* another slot serves, which follows from the miss only because every     *)
(* entry copies a leaf and leaves do not overlap.                          *)
(***************************************************************************)
IInv == TypeOK /\ EntriesCopyLeaves /\ NoDuplicates

-----------------------------------------------------------------------------
(* Arithmetic and choice *)

\* The first page of a leaf is a page, and offsets are numbers.
LEMMA BaseIsNat ==
  ASSUME NEW vpn \in Nat, NEW level \in Levels, NEW mode \in Modes
  PROVE  /\ Base(vpn, level, mode) \in Nat
         /\ vpn % Span(level, mode) \in Nat
<1>1. Span(level, mode) \in Nat \ {0}
  BY SpanAssumption DEF Span
<1>2. \A n \in Nat \ {0} : vpn - (vpn % n) \in Nat /\ vpn % n \in Nat
  OBVIOUS
<1> QED
  BY <1>1, <1>2 DEF Base

\* Division with rest, as the masks use it.
LEMMA ModOfMultiple ==
  ASSUME NEW n \in Nat \ {0}, NEW q \in Nat, NEW r \in 0 .. n - 1
  PROVE  (q * n + r) % n = r
OBVIOUS

LEMMA MultipleOf ==
  ASSUME NEW n \in Nat \ {0}, NEW a \in Nat, a % n = 0
  PROVE  \E q \in Nat : a = q * n
<1>1. a = (a \div n) * n /\ a \div n \in Nat
  OBVIOUS
<1> QED
  BY <1>1

LEMMA BaseIsMultiple ==
  ASSUME NEW n \in Nat \ {0}, NEW v \in Nat, NEW b \in Nat, v - (v % n) = b
  PROVE  \E q \in Nat : b = q * n
<1>1. v = (v \div n) * n + (v % n) /\ v \div n \in Nat
  OBVIOUS
<1> QED
  BY <1>1

\* A non-empty set of numbers has a least one.
LEMMA LeastNat ==
  ASSUME NEW T \in SUBSET Nat, T # {}
  PROVE  \E x \in T : \A y \in T : x <= y
<1>1. PICK x \in T : \A y \in T : ~(<<y, x>> \in OpToRel(<, Nat))
  BY WFMin, NatLessThanWellFounded, Zenon
<1>2. ASSUME NEW y \in T PROVE x <= y
  <2>1. ~(<<y, x>> \in OpToRel(<, Nat))
    BY <1>1, Zenon
  <2>2. ~(y < x)
    BY <2>1, Zenon DEF OpToRel
  <2> QED
    BY <2>2
<1> QED
  BY <1>2

\* The first invalid slot and the clock's choice are slots.
LEMMA VictimIsSlot ==
  ASSUME TypeOK
  PROVE  victim \in Slots
<1>1. CASE invalid # {}
  <2>1. invalid \in SUBSET Nat /\ invalid \subseteq Slots
    BY EntryAssumption DEF invalid, Slots
  <2>2. \E s \in invalid : \A u \in invalid : s <= u
    BY <1>1, <2>1, LeastNat
  <2> QED
    BY <1>1, <2>1, <2>2 DEF victim
<1>2. CASE invalid = {}
  <2>1. CASE \A s \in Slots : ref_q[s]
    BY <1>2, <2>1 DEF victim, clock_victim, TypeOK
  <2>2. CASE ~(\A s \in Slots : ref_q[s])
    <3> DEFINE Free == {s \in Slots : ~ref_q[s]}
               Far == {distance(s) : s \in Free}
    <3>1. \A s \in Slots : distance(s) \in Nat
      <4>1. \A s \in Slots : s + EntryCount - clock_ptr_q \in Nat
        BY EntryAssumption DEF TypeOK, Slots
      <4> QED
        BY <4>1, EntryAssumption DEF distance
    <3>2. Far \in SUBSET Nat /\ Far # {}
      BY <2>2, <3>1
    <3>3. PICK d \in Far : \A e \in Far : d <= e
      BY <3>2, LeastNat
    <3>4. PICK s \in Free : d = distance(s)
      BY <3>3
    <3>5. /\ s \in Slots
          /\ ~ref_q[s]
          /\ \A u \in Slots : ~ref_q[u] => distance(s) <= distance(u)
      BY <3>3, <3>4
    <3> QED
      BY <1>2, <2>2, <3>5 DEF victim, clock_victim
  <2> QED
    BY <2>1, <2>2
<1> QED
  BY <1>1, <1>2

\* The slot that answers is one that matches.
LEMMA HitIsMatch ==
  ASSUME hits # {}
  PROVE  hit_idx \in hits /\ hit_idx \in Slots
<1> DEFINE Left == {EntryCount - s : s \in hits}
<1>1. hits \subseteq Slots
  BY DEF hits
<1>2. \A s \in Slots : EntryCount - s \in Nat /\ s \in Nat
  BY EntryAssumption DEF Slots
<1>3. Left \in SUBSET Nat /\ Left # {}
  BY <1>1, <1>2
<1>4. PICK d \in Left : \A e \in Left : d <= e
  BY <1>3, LeastNat
<1>5. PICK s \in hits : d = EntryCount - s
  BY <1>4
<1>6. \A u \in hits : u <= s
  BY <1>1, <1>2, <1>4, <1>5, EntryAssumption
<1>7. hit_idx \in hits
  BY <1>5, <1>6 DEF hit_idx
<1> QED
  BY <1>1, <1>7
-----------------------------------------------------------------------------
(* The invariant *)

\* What an entry becomes at the edge: it stays, is emptied or is filled.
LEMMA EntryFates ==
  ASSUME TypeOK, Edge, NEW s \in Slots
  PROVE  \/ tlb'[s] = tlb[s]
         \/ tlb'[s] = Empty
         \/ /\ tlb'[s] = filled /\ s = victim
            /\ flush_i = None /\ fill_i # None
            /\ \A u \in Slots \ {s} : tlb'[u] = tlb[u]
<1>1. CASE Flush
  BY <1>1 DEF Flush
<1>2. CASE FillInvalid \/ FillReplace
  BY <1>2, VictimIsSlot DEF FillInvalid, FillReplace, TypeOK
<1>3. CASE Quiet
  BY <1>3 DEF Quiet
<1> QED
  BY <1>1, <1>2, <1>3 DEF Edge

\* What a walk enters is the leaf it found, under the request's address space.
LEMMA FilledIsLeaf ==
  ASSUME TypeOK, fill_i # None
  PROVE  /\ fill_i \in PageTable /\ fill_i \in Leaf
         /\ mode_i = "Sv32" /\ hits = {}
         /\ match_i.vpn \in Vpns /\ match_i.asid \in Asids
         /\ Serves(fill_i, match_i.vpn, match_i.asid)
         /\ filled = [vpn |-> fill_i.vpn, ppn |-> fill_i.ppn, level |-> fill_i.level,
                      g |-> fill_i.g, asid |-> match_i.asid, v |-> TRUE]
<1>1. fill_i \in PageTable /\ fill_i \in Leaf
  BY PageTableAssumption DEF TypeOK
<1>2. mode_i = "Sv32" /\ hits = {} /\ Serves(fill_i, match_i.vpn, match_i.asid)
  BY DEF TypeOK, WiresOK
<1>3. match_i.vpn \in Vpns /\ match_i.asid \in Asids
  BY DEF TypeOK, Lookups
<1>4. Base(match_i.vpn, fill_i.level, mode_i) = fill_i.vpn
  BY <1>2 DEF Serves
<1> QED
  BY <1>1, <1>2, <1>3, <1>4 DEF filled

\* The TLB starts empty.
LEMMA InitIInv ==
  Init => IInv
<1> SUFFICES ASSUME Init PROVE IInv
  OBVIOUS
<1>1. Empty \in Entry /\ ~Empty.v
  BY DEF Empty, Entry, Levels
<1>2. TypeOK
  BY <1>1, EntryAssumption DEF Init, TypeOK, Slots
<1>3. \A s \in Slots : ~tlb[s].v
  BY <1>1 DEF Init
<1> QED
  BY <1>2, <1>3 DEF IInv, EntriesCopyLeaves, NoDuplicates

\* A registered answer is a leaf and a page number.
LEMMA AnswerTyped ==
  ASSUME IInv, LookUp
  PROVE  answer_q' \in [leaf : Leaf, ppn : Nat] \cup {None}
<1>1. CASE hits = {}
  BY <1>1 DEF LookUp
<1>2. CASE hits # {}
  <2> DEFINE e == tlb[hit_idx]
  <2>1. hit_idx \in hits /\ hit_idx \in Slots
    BY <1>2, HitIsMatch
  <2>2. e \in Entry /\ e.v /\ e.asid \in Asids
    BY <2>1 DEF hits, IInv, TypeOK, EntriesCopyLeaves
  <2>3. translation_of(e) \in Leaf
    BY <2>2 DEF translation_of, Leaf, Entry
  <2>4. match_i.vpn \in Nat /\ mode_i \in Modes
    BY SpanAssumption DEF IInv, TypeOK, Lookups
  <2>5. e.ppn \in Nat /\ e.level \in Levels
    BY <2>2 DEF Entry
  <2>6. reconstruct_ppn(e, match_i.vpn) \in Nat
    <3>1. Base(e.ppn, e.level, mode_i) \in Nat /\ match_i.vpn % Span(e.level, mode_i) \in Nat
      BY <2>4, <2>5, BaseIsNat
    <3> QED
      BY <3>1 DEF reconstruct_ppn
  <2>7. answer_q' = [leaf |-> translation_of(e), ppn |-> reconstruct_ppn(e, match_i.vpn)]
    BY <1>2 DEF LookUp
  <2> QED
    BY <2>3, <2>6, <2>7
<1> QED
  BY <1>1, <1>2

\* The clock hand and the reference bits stay on the slots.
LEMMA ClockTyped ==
  ASSUME TypeOK, Edge
  PROVE  ref_q' \in [Slots -> BOOLEAN] /\ clock_ptr_q' \in Slots
<1>1. referenced \in [Slots -> BOOLEAN]
  BY DEF TypeOK, referenced
<1>2. CASE Flush \/ Quiet
  BY <1>1, <1>2 DEF Flush, Quiet, TypeOK
<1>3. CASE FillInvalid
  BY <1>1, <1>3 DEF FillInvalid, TypeOK
<1>4. CASE FillReplace
  <2>1. victim + 1 \in Nat
    BY VictimIsSlot, EntryAssumption DEF Slots
  <2>2. (victim + 1) % EntryCount \in Slots
    BY <2>1, EntryAssumption DEF Slots
  <2>3. ref_q' \in [Slots -> BOOLEAN]
    BY <1>1, <1>4 DEF FillReplace
  <2> QED
    BY <1>4, <2>2, <2>3 DEF FillReplace
<1> QED
  BY <1>2, <1>3, <1>4 DEF Edge

\* Entries stay typed copies of leaves.
LEMMA EntriesKept ==
  ASSUME IInv, Edge
  PROVE  tlb' \in [Slots -> Entry] /\ EntriesCopyLeaves'
<1>1. ASSUME NEW s \in Slots
      PROVE  /\ tlb'[s] \in Entry
             /\ tlb'[s].v => CopiesLeaf(tlb'[s]) /\ tlb'[s].asid \in Asids
  <2>1. CASE tlb'[s] = tlb[s]
    BY <2>1 DEF IInv, TypeOK, EntriesCopyLeaves
  <2>2. CASE tlb'[s] = Empty
    BY <2>2 DEF Empty, Entry, Levels
  <2>3. CASE tlb'[s] = filled /\ fill_i # None
    <3>1. filled \in Entry /\ filled.asid \in Asids
      <4>1. /\ fill_i.vpn \in Nat /\ fill_i.ppn \in Nat
            /\ fill_i.level \in Levels /\ fill_i.g \in BOOLEAN
        BY <2>3, FilledIsLeaf DEF IInv, Leaf
      <4>2. match_i.asid \in Asids /\ match_i.asid \in Nat
        BY <2>3, FilledIsLeaf, SpanAssumption DEF IInv
      <4>3. filled = [vpn |-> fill_i.vpn, ppn |-> fill_i.ppn, level |-> fill_i.level,
                      g |-> fill_i.g, asid |-> match_i.asid, v |-> TRUE]
        BY <2>3, FilledIsLeaf DEF IInv
      <4> QED
        BY <4>1, <4>2, <4>3 DEF Entry
    <3>2. CopiesLeaf(filled)
      BY <2>3, FilledIsLeaf DEF IInv, CopiesLeaf, Serves
    <3> QED
      BY <2>3, <3>1, <3>2
  <2> QED
    BY <2>1, <2>2, <2>3, EntryFates DEF IInv
<1>2. tlb' = [s \in Slots |-> tlb'[s]]
  BY DEF Edge, Flush, FillInvalid, FillReplace, Quiet, IInv, TypeOK
<1> QED
  BY <1>1, <1>2 DEF EntriesCopyLeaves

\* A slot filled at the edge serves no page another slot serves: that slot
\* would hold the same leaf, and then the look-up would not have missed.
LEMMA FilledIsAlone ==
  ASSUME IInv, fill_i # None, NEW u \in Slots, tlb[u].v,
         NEW vpn \in Vpns, NEW asid \in Asids,
         Serves(translation_of(filled), vpn, asid),
         Serves(translation_of(tlb[u]), vpn, asid)
  PROVE  FALSE
<1> DEFINE e == tlb[u]
<1>1. PICK t \in PageTable :
        /\ e.vpn = t.vpn /\ e.level = t.level /\ e.g = t.g
        /\ t.g \/ e.asid = t.asid
  BY DEF IInv, EntriesCopyLeaves, CopiesLeaf
<1>2. Serves(t, vpn, asid)
  BY <1>1 DEF Serves, translation_of
<1>3. Serves(fill_i, vpn, asid)
  BY FilledIsLeaf DEF Serves, translation_of, IInv
<1>4. t = fill_i
  BY <1>2, <1>3, FilledIsLeaf, PageTableAssumption DEF IInv
<1>5. e.g \/ e.asid = match_i.asid
  BY <1>1, <1>4, FilledIsLeaf DEF IInv, Serves
<1>6. vpn_match(e, match_i.vpn)
  BY <1>1, <1>4, FilledIsLeaf DEF IInv, Serves, vpn_match
<1>7. u \in hits
  BY <1>5, <1>6 DEF hits
<1> QED
  BY <1>7, FilledIsLeaf DEF IInv

LEMMA NoDuplicatesKept ==
  ASSUME IInv, Edge
  PROVE  NoDuplicates'
<1> SUFFICES ASSUME NEW s \in Slots, NEW u \in Slots, NEW vpn \in Vpns, NEW asid \in Asids,
                    tlb'[s].v, Serves(translation_of(tlb'[s]), vpn, asid),
                    tlb'[u].v, Serves(translation_of(tlb'[u]), vpn, asid),
                    s # u
             PROVE  FALSE
  BY DEF NoDuplicates, Serves, Base, Span, translation_of
<1>1. TypeOK
  BY DEF IInv
<1>2. ~Empty.v
  BY DEF Empty
<1>3. CASE tlb'[s] = tlb[s] /\ tlb'[u] = tlb[u]
  BY <1>3 DEF IInv, NoDuplicates
<1>4. CASE tlb'[s] = filled /\ fill_i # None /\ tlb'[u] = tlb[u]
  BY <1>4, FilledIsAlone
<1>5. CASE tlb'[u] = filled /\ fill_i # None /\ tlb'[s] = tlb[s]
  BY <1>5, FilledIsAlone
<1> QED
  BY <1>1, <1>2, <1>3, <1>4, <1>5, EntryFates

\* Every cycle preserves the invariant.
LEMMA NextIInv ==
  IInv /\ [Next]_vars => IInv'
<1> SUFFICES ASSUME IInv, [Next]_vars PROVE IInv'
  OBVIOUS
<1>1. CASE Next
  <2>1. Edge /\ LookUp /\ Wires
    BY <1>1 DEF Next, Edge
  <2>2. tlb' \in [Slots -> Entry] /\ EntriesCopyLeaves'
    BY <2>1, EntriesKept
  <2>3. answer_q' \in [leaf : Leaf, ppn : Nat] \cup {None}
    BY <2>1, AnswerTyped
  <2>4. ref_q' \in [Slots -> BOOLEAN] /\ clock_ptr_q' \in Slots
    BY <2>1, ClockTyped DEF IInv
  <2>5. TypeOK'
    BY <2>1, <2>2, <2>3, <2>4 DEF TypeOK, Wires
  <2> QED
    BY <2>1, <2>2, <2>5, NoDuplicatesKept DEF IInv
<1>2. CASE UNCHANGED vars
  <2>1. TypeOK'
    BY <1>2 DEF vars, IInv, TypeOK, WiresOK, hits, vpn_match
  <2>2. EntriesCopyLeaves'
    BY <1>2 DEF vars, IInv, EntriesCopyLeaves, CopiesLeaf
  <2>3. NoDuplicates'
    BY <1>2 DEF vars, IInv, NoDuplicates
  <2> QED
    BY <2>1, <2>2, <2>3 DEF IInv
<1> QED
  BY <1>1, <1>2

-----------------------------------------------------------------------------
(* Theorems *)

THEOREM Invariance ==
  Spec => []IInv
BY InitIInv, NextIInv, PTL DEF Spec

\* The hand stays on the slots and every slot holds a typed entry, for any
\* number of slots.
THEOREM TypeCorrect ==
  Spec => []TypeOK
<1>1. IInv => TypeOK
  BY DEF IInv
<1> QED
  BY <1>1, Invariance, PTL

\* The TLB never holds a translation of a page twice, whatever the sequence of
\* fills, replacements and fences.
THEOREM NeverTwice ==
  Spec => []NoDuplicates
<1>1. IInv => NoDuplicates
  BY DEF IInv
<1> QED
  BY <1>1, Invariance, PTL

-----------------------------------------------------------------------------
(* The TLB implements the cache of translations *)

\* A fence finds the masks of the mode the entries were filled in, or names
\* nothing.
FencesExact == FenceModes \subseteq {"Sv32"} \/ ~EnableFineTlbFlush

\* The two modules read leaves alike.
LEMMA SameLeaves ==
  /\ \A t, vpn, asid : TC!Serves(t, vpn, asid) <=> Serves(t, vpn, asid)
  /\ \A t, f : TC!Fenced(t, f) <=> Fenced(t, f)
  /\ \A t, vpn : TC!Frame(t, vpn) = Frame(t, vpn)
BY DEF TC!Serves, Serves, TC!Fenced, Fenced, TC!Frame, Frame, TC!Base, Base, TC!Span, Span

\* A superpage that matches under the narrow mask of another mode matches under
\* its own, and its page is the same.
LEMMA NarrowMatch ==
  ASSUME NEW vpn \in Nat, NEW first \in Nat, NEW ppn \in Nat, NEW level \in Levels,
         NEW mode \in Modes,
         \E v \in Nat : Base(v, level, "Sv32") = first,
         Base(ppn, level, "Sv32") = ppn,
         Base(vpn, level, mode) = first
  PROVE  /\ Base(vpn, level, "Sv32") = first
         /\ Base(ppn, level, mode) + (vpn % Span(level, mode)) = ppn + (vpn - first)
<1> DEFINE S == Span(level, "Sv32")
           n == Span(level, mode)
<1>1. S \in Nat \ {0} /\ n \in Nat \ {0}
  BY SpanAssumption DEF Span
<1>2. PICK k \in Nat : S = k * n
  <2>1. S % n = 0
    BY SpanAssumption DEF Span, Levels, Modes
  <2> QED
    BY <1>1, <2>1, MultipleOf
<1>3. PICK v \in Nat : v - (v % S) = first
  BY DEF Base
<1>4. PICK q \in Nat : first = q * S
  BY <1>1, <1>3, BaseIsMultiple
<1>5. PICK p \in Nat : ppn = p * S
  BY <1>1, BaseIsMultiple DEF Base
<1>6. n <= S
  BY <1>1, <1>2
<1>7. vpn = first + (vpn % n) /\ vpn % n \in 0 .. n - 1
  <2>1. vpn % n \in 0 .. n - 1
    BY <1>1
  <2>2. first = vpn - (vpn % n)
    BY DEF Base
  <2> QED
    BY <2>1, <2>2
<1>8. vpn % S = vpn % n
  <2>1. vpn % n \in 0 .. S - 1
    BY <1>1, <1>6, <1>7
  <2>2. (q * S + (vpn % n)) % S = vpn % n
    BY <1>1, <2>1, ModOfMultiple
  <2> QED
    BY <1>4, <1>7, <2>2
<1>9. ppn % n = 0
  <2>1. ppn = (p * k) * n /\ p * k \in Nat
    BY <1>1, <1>2, <1>5
  <2>2. ((p * k) * n + 0) % n = 0
    BY <1>1, <2>1, ModOfMultiple
  <2> QED
    BY <1>1, <2>1, <2>2
<1>10. Base(vpn, level, "Sv32") = vpn - (vpn % n) /\ Base(ppn, level, mode) = ppn
  BY <1>8, <1>9 DEF Base
<1>11. ASSUME NEW r \in Nat, vpn = first + r PROVE vpn - r = first /\ ppn + r = ppn + (vpn - first)
  BY <1>11
<1>12. vpn % n \in Nat
  BY <1>1, <1>7
<1> HIDE DEF n
<1>13. vpn - (vpn % n) = first /\ ppn + (vpn % n) = ppn + (vpn - first)
  BY <1>7, <1>11, <1>12
<1> QED
  BY <1>10, <1>13 DEF n

\* What answers serves the page looked for, and gives its physical page.
LEMMA HitServes ==
  ASSUME IInv, hits # {}
  PROVE  LET e == tlb[hit_idx] IN
         /\ translation_of(e) \in cached
         /\ Serves(translation_of(e), match_i.vpn, match_i.asid)
         /\ reconstruct_ppn(e, match_i.vpn) = Frame(translation_of(e), match_i.vpn)
<1> DEFINE e == tlb[hit_idx]
<1>1. hit_idx \in hits /\ hit_idx \in Slots
  BY HitIsMatch
<1>2. e.v /\ (e.g \/ e.asid = match_i.asid) /\ Base(match_i.vpn, e.level, mode_i) = e.vpn
  BY <1>1 DEF hits, vpn_match
<1>3. PICK t \in PageTable :
        /\ e.vpn = t.vpn /\ e.ppn = t.ppn /\ e.level = t.level
        /\ \E vpn \in Vpns : Base(vpn, t.level, "Sv32") = t.vpn
  BY <1>1, <1>2 DEF IInv, EntriesCopyLeaves, CopiesLeaf
<1>4. /\ e.vpn \in Nat /\ e.ppn \in Nat /\ e.level \in Levels
      /\ match_i.vpn \in Nat /\ mode_i \in Modes
  BY <1>1, SpanAssumption DEF IInv, TypeOK, Entry, Lookups
<1>5. Base(e.ppn, e.level, "Sv32") = e.ppn
  BY <1>3, PageTableAssumption
<1>6. \E v \in Nat : Base(v, e.level, "Sv32") = e.vpn
  BY <1>3, SpanAssumption
<1>7. /\ Base(match_i.vpn, e.level, "Sv32") = e.vpn
      /\ reconstruct_ppn(e, match_i.vpn) = e.ppn + (match_i.vpn - e.vpn)
  BY <1>2, <1>4, <1>5, <1>6, NarrowMatch DEF reconstruct_ppn
<1>8. translation_of(e) \in cached
  BY <1>1, <1>2 DEF cached
<1> QED
  BY <1>2, <1>7, <1>8 DEF Serves, Frame, translation_of

\* The look-up answers as the cache does.
LEMMA AnswerRefines ==
  ASSUME IInv, LookUp
  PROVE  TC!Answer
<1>1. CASE hits = {}
  <2>1. ASSUME mode_i = "Sv32", NEW t \in cached, Serves(t, match_i.vpn, match_i.asid)
        PROVE  FALSE
    <3>1. PICK s \in Slots : tlb[s].v /\ t = translation_of(tlb[s])
      BY <2>1 DEF cached
    <3>2. s \in hits
      BY <2>1, <3>1 DEF hits, vpn_match, Serves, translation_of
    <3> QED
      BY <1>1, <3>2
  <2>2. mode_i = "Sv32" => TC!serving = {}
    BY <2>1, SameLeaves DEF TC!serving
  <2> QED
    BY <1>1, <2>2 DEF LookUp, TC!Answer
<1>2. CASE hits # {}
  <2> DEFINE t == translation_of(tlb[hit_idx])
  <2>1. /\ t \in cached /\ Serves(t, match_i.vpn, match_i.asid)
        /\ answer_q' = [leaf |-> t, ppn |-> Frame(t, match_i.vpn)]
    BY <1>2, HitServes DEF LookUp
  <2>2. t \in TC!serving /\ answer_q' = [leaf |-> t, ppn |-> TC!Frame(t, match_i.vpn)]
    BY <2>1, SameLeaves DEF TC!serving
  <2> QED
    BY <2>2 DEF TC!Answer
<1> QED
  BY <1>1, <1>2

\* What is kept after an edge was kept before or has been filled.
LEMMA CachedNext ==
  cached' = {translation_of(tlb'[s]) : s \in {u \in Slots : tlb'[u].v}}
BY DEF cached, translation_of

\* The cache's fill, as the TLB sees it.
AbstractFill == IF fill_i = None THEN None ELSE [fill_i EXCEPT !.asid = match_i.asid]

LEMMA AbstractFillIsFilled ==
  ASSUME IInv, fill_i # None
  PROVE  AbstractFill = translation_of(filled) /\ AbstractFill # None
<1>1. fill_i \in Leaf /\ match_i.asid \in Asids
  BY FilledIsLeaf DEF IInv
<1>2. [fill_i EXCEPT !.asid = match_i.asid] =
      [vpn |-> fill_i.vpn, ppn |-> fill_i.ppn, level |-> fill_i.level,
       g |-> fill_i.g, asid |-> match_i.asid]
  BY <1>1 DEF Leaf
<1>3. [fill_i EXCEPT !.asid = match_i.asid] \in Leaf
  BY <1>1 DEF Leaf
<1>4. translation_of(filled) =
      [vpn |-> fill_i.vpn, ppn |-> fill_i.ppn, level |-> fill_i.level,
       g |-> fill_i.g, asid |-> match_i.asid]
  BY FilledIsLeaf DEF IInv, translation_of
<1> QED
  BY <1>2, <1>3, <1>4, NoneAssumption DEF AbstractFill

\* A fill keeps what it brings and costs at most the victim.
LEMMA FillRefines ==
  ASSUME IInv, FillInvalid \/ FillReplace
  PROVE  TC!Take
<1> DEFINE lost == cached \ cached'
<1>1. /\ flush_i = None /\ fill_i # None /\ victim \in Slots
      /\ tlb' = [tlb EXCEPT ![victim] = filled]
  BY VictimIsSlot DEF IInv, FillInvalid, FillReplace
<1>2. /\ tlb'[victim] = filled /\ filled.v
      /\ \A s \in Slots \ {victim} : tlb'[s] = tlb[s]
  BY <1>1 DEF IInv, TypeOK, filled
<1>3. translation_of(filled) \in cached'
  BY <1>1, <1>2, CachedNext
<1>4. ASSUME NEW t \in lost PROVE t = translation_of(tlb[victim])
  <2>1. PICK s \in Slots : tlb[s].v /\ t = translation_of(tlb[s])
    BY <1>4 DEF cached
  <2>2. CASE s # victim
    <3>1. t \in cached'
      BY <1>2, <2>1, <2>2, CachedNext
    <3> QED
      BY <1>4, <3>1
  <2> QED
    BY <2>1, <2>2
<1>5. ASSUME NEW t \in cached' PROVE t = translation_of(filled) \/ t \in cached
  <2>1. PICK s \in Slots : tlb'[s].v /\ t = translation_of(tlb'[s])
    BY <1>5, CachedNext
  <2> QED
    BY <1>2, <2>1 DEF cached
<1>6. cached' = (cached \ lost) \cup {translation_of(filled)}
  BY <1>3, <1>5
<1>7. \A t, u \in lost : t = u
  BY <1>4
<1> HIDE DEF lost
<1>8. lost \in SUBSET cached
  BY DEF lost
<1>9. AbstractFill = translation_of(filled) /\ AbstractFill # None
  BY <1>1, AbstractFillIsFilled
<1> QED
  BY <1>1, <1>6, <1>7, <1>8, <1>9 DEF TC!Take, AbstractFill

\* A fence leaves nothing it names.
LEMMA FenceRefines ==
  ASSUME IInv, FencesExact, Flush
  PROVE  TC!Drop
<1>1. flush_i # None /\ \A s \in Slots : tlb'[s] = IF flushed(tlb[s]) THEN Empty ELSE tlb[s]
  BY DEF Flush
<1>2. ASSUME NEW t \in cached' PROVE t \in cached /\ ~Fenced(t, flush_i)
  <2>1. PICK s \in Slots : tlb'[s].v /\ t = translation_of(tlb'[s])
    BY <1>2, CachedNext
  <2>2. tlb'[s] = tlb[s] /\ ~flushed(tlb[s])
    BY <1>1, <2>1 DEF Empty
  <2>3. EnableFineTlbFlush /\ mode_i = "Sv32"
    <3>1. EnableFineTlbFlush
      BY <2>2 DEF flushed
    <3>2. mode_i \in FenceModes
      BY <1>1 DEF IInv, TypeOK, WiresOK
    <3> QED
      BY <3>1, <3>2 DEF FencesExact
  <2>4. ~Fenced(t, flush_i)
    BY <2>1, <2>2, <2>3 DEF flushed, Fenced, vpn_match, translation_of
  <2> QED
    BY <2>1, <2>2, <2>4 DEF cached
<1>3. cached' \subseteq {t \in cached : ~TC!Fenced(t, flush_i)}
  BY <1>2, SameLeaves
<1> QED
  BY <1>1, <1>3 DEF TC!Drop

LEMMA StepRefines ==
  ASSUME IInv, FencesExact, Next
  PROVE  TC!Next
<1>1. TC!Answer
  BY AnswerRefines DEF Next, Edge
<1>2. CASE Flush
  BY <1>1, <1>2, FenceRefines DEF TC!Next
<1>3. CASE FillInvalid \/ FillReplace
  BY <1>1, <1>3, FillRefines DEF TC!Next
<1>4. CASE Quiet
  <2>1. UNCHANGED cached
    BY <1>4, CachedNext DEF Quiet, cached
  <2>2. TC!Keep
    BY <1>4, <2>1 DEF Quiet, TC!Keep
  <2> QED
    BY <1>1, <2>2 DEF TC!Next
<1> QED
  BY <1>2, <1>3, <1>4 DEF Next, Edge

\* For any number of slots and any page table, the TLB finds what it has, with
\* the right physical page, keeps what it is given and, when fences find the
\* masks of Sv32 or drop everything, keeps nothing a fence names.
THEOREM Implements ==
  ASSUME FencesExact
  PROVE  Spec => Refines
<1>1. Init => TC!Init
  <2>1. ASSUME Init PROVE cached = {}
    BY <2>1 DEF Init, cached, Empty
  <2> QED
    BY <2>1 DEF Init, TC!Init
<1>2. IInv /\ [Next]_vars =>
        [TC!Next]_<<cached, answer_q, match_i, mode_i, AbstractFill, flush_i>>
  <2>1. CASE Next
    BY <2>1, StepRefines
  <2>2. CASE UNCHANGED vars
    <3>1. UNCHANGED cached
      BY <2>2, CachedNext DEF vars, cached
    <3>2. UNCHANGED AbstractFill
      BY <2>2 DEF vars, AbstractFill
    <3> QED
      BY <2>2, <3>1, <3>2 DEF vars
  <2> QED
    BY <2>1, <2>2
<1> QED
  BY <1>1, <1>2, Invariance, PTL DEF Spec, Refines, TC!Spec, AbstractFill
=============================================================================

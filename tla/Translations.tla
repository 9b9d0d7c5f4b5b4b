---------------------------- MODULE Translations ----------------------------
(***************************************************************************)
(* Leaf translations of the page table and what sfence.vma says of them.   *)
(* A leaf of level 1 maps Sv32Span pages, a superpage.                     *)
(***************************************************************************)
EXTENDS Integers

CONSTANTS
  Vpns,       \* virtual page numbers
  Ppns,       \* physical page numbers
  Asids,
  Sv32Span,   \* pages of an Sv32 superpage (1024)
  OtherSpan,  \* pages the mask clears in any other mode, Bare included (512)
  None

ASSUME SpanAssumption ==
  /\ Vpns \subseteq Nat
  /\ Ppns \subseteq Nat
  /\ Asids \subseteq Nat
  /\ Sv32Span \in Nat \ {0}
  /\ OtherSpan \in Nat \ {0}
  /\ Sv32Span % OtherSpan = 0

Modes  == {"Sv32", "Bare"}
Levels == {0, 1}

Span(level, mode) ==
  IF level = 0 THEN 1 ELSE IF mode = "Sv32" THEN Sv32Span ELSE OtherSpan

\* vpn & vpn_mask(level, mode): the first page of the leaf vpn falls in.
Base(vpn, level, mode) == vpn - (vpn % Span(level, mode))

Leaf == [vpn : Nat, ppn : Nat, level : Levels, g : BOOLEAN, asid : Asids]

ASSUME NoneAssumption == None \notin Leaf

\* t translates vpn in the address space asid.
Serves(t, vpn, asid) ==
  /\ t.g \/ t.asid = asid
  /\ Base(vpn, t.level, "Sv32") = t.vpn

\* The physical page t gives vpn.
Frame(t, vpn) == t.ppn + (vpn - t.vpn)

\* A fence names a page, an address space, both or neither.
Fences == [vpn : Vpns \cup {None}, asid : Asids \cup {None}]

Fenced(t, f) ==
  /\ f.vpn # None => Base(f.vpn, t.level, "Sv32") = t.vpn
  /\ f.asid # None => t.asid = f.asid /\ ~t.g

\* A page table entry is what the walker makes of it: "bad" (invalid, reserved,
\* or no leaf with the bits of one), "far" (points beyond the physical address
\* space), "ptr" or "leaf". Its bits are left out.
Kinds == {"bad", "far", "ptr", "leaf"}
Pte   == [kind : Kinds, ppn : Nat]

\* The entry that translates vpn at a level: its table is that of the address
\* space, or the one the entry above points to.
Slot(asid, level, vpn) ==
  [asid |-> asid, level |-> level, index |-> IF level = 1 THEN Base(vpn, 1, "Sv32") ELSE vpn]

PteSlots == {Slot(asid, level, vpn) : asid \in Asids, level \in Levels, vpn \in Vpns}
=============================================================================

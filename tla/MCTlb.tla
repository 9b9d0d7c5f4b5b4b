------------------------------- MODULE MCTlb -------------------------------
(***************************************************************************)
(* A page table of two address spaces: a superpage and a page in one, a    *)
(* page at the same place in the other, and a global page.                 *)
(***************************************************************************)
EXTENDS Tlb

L(vpn, ppn, level, g, asid) ==
  [vpn |-> vpn, ppn |-> ppn, level |-> level, g |-> g, asid |-> asid]

Leaves == {L(4, 8, 1, FALSE, 1), L(0, 1, 0, FALSE, 1),
           L(0, 2, 0, FALSE, 2), L(1, 3, 0, TRUE, 1)}
=============================================================================

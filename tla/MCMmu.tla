-------------------------------- MODULE MCMmu --------------------------------
(***************************************************************************)
(* One address space of two pages that are used, and two ways to map them. *)
(* In the first, a leaf maps page 0 to the frame of the tables; a store    *)
(* there makes its own page invalid, so that the next one ends in a page   *)
(* fault; the walk of page 2 leads beyond the address space.  In the       *)
(* second, page 0 is read-only and page 2 starts a superpage of user mode. *)
(* satp changes between a root in the address space and one beyond it over *)
(* the same tables: under the second no walk of them may begin.            *)
(* Translation is off in mode M.                                           *)
(***************************************************************************)
EXTENDS Mmu, TLC

P(kind, ppn) == [kind |-> kind, ppn |-> ppn]
S(level, index) == [asid |-> 1, level |-> level, index |-> index]

Rewritten == S(0, 0) :> P("leaf", 4) @@ S(1, 2) :> P("ptr", 0) @@ S(0, 2) :> P("far", 0)
Denied    == S(0, 0) :> P("leaf", 5) @@ S(1, 2) :> P("leaf", 6) @@ S(0, 2) :> P("bad", 0)
Tables    == {S(1, 0) :> P("ptr", 0) @@ t : t \in {Rewritten, Denied}}

Invalid == [slot |-> S(0, 0), pte |-> P("bad", 0)]
Writes  == {Invalid}
Stores  == {[op |-> "store", vpn |-> 0, w |-> Invalid]}

Roots == {[mode |-> "Sv32", asid |-> 1, far |-> far] : far \in BOOLEAN}

\* A fence of page 0, which may drop the rest as well.
SomeFences == {[vpn |-> 0, asid |-> None]}
=============================================================================

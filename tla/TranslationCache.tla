-------------------------- MODULE TranslationCache --------------------------
(***************************************************************************)
(* What a TLB promises: it keeps some of the translations it is given,     *)
(* finds the one that serves a page if it has it, gives up at most one to  *)
(* take another and keeps none that a fence names.                         *)
(***************************************************************************)
EXTENDS Translations

VARIABLES
  cached,   \* the translations kept
  answer,   \* the physical page found in the last cycle, or None
  lookup,   \* the page and the address space looked for
  mode,
  fill,     \* a translation found by a walk, or None
  fence     \* a fence, or None

serving == {t \in cached : Serves(t, lookup.vpn, lookup.asid)}

\* Without paging nobody uses the answer, and it may be missing.
Answer ==
  \/ answer' = None /\ (mode = "Sv32" => serving = {})
  \/ \E t \in serving : answer' = [leaf |-> t, ppn |-> Frame(t, lookup.vpn)]

Take ==
  /\ fence = None /\ fill # None
  /\ \E lost \in SUBSET cached :
       /\ \A t, u \in lost : t = u
       /\ cached' = (cached \ lost) \cup {fill}

Drop ==
  /\ fence # None
  /\ cached' \in SUBSET {t \in cached : ~Fenced(t, fence)}

Keep ==
  /\ fence = None /\ fill = None
  /\ UNCHANGED cached

Init == cached = {} /\ answer = None
Next == Answer /\ (Take \/ Drop \/ Keep)

Spec == Init /\ [][Next]_<<cached, answer, lookup, mode, fill, fence>>
=============================================================================

----------------------------- MODULE BlockRead -----------------------------
(***************************************************************************)
(* What a program that reads blocks off a card is promised: the words of a *)
(* block come in order and are those of the block it asked for.  A read    *)
(* may be given up at any word.                                            *)
(***************************************************************************)
EXTENDS Naturals, Sequences

CONSTANTS Blocks, BlockWords, None
VARIABLES
  content,          \* the words of every block, which nothing changes
  block,            \* the block being read, or None
  got               \* its words so far

Init == block = None /\ got = <<>>

Ask(b) == block = None /\ block' = b /\ got' = <<>> /\ UNCHANGED content
Deliver ==
  /\ block # None /\ Len(got) < BlockWords
  /\ got' = Append(got, content[block][Len(got) + 1])
  /\ UNCHANGED <<content, block>>
Leave == block # None /\ block' = None /\ got' = <<>> /\ UNCHANGED content

Next == (\E b \in Blocks : Ask(b)) \/ Deliver \/ Leave
Spec == Init /\ [][Next]_<<content, block, got>>
=============================================================================

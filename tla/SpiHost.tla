------------------------------ MODULE SpiHost ------------------------------
(***************************************************************************)
(* The SPI host (the vendored spi_host) with the card on its second chip   *)
(* select: a queue of segments, words to send, words received.  A segment  *)
(* that receives stalls while the words received are not drained.  In a    *)
(* receiving segment the data line carries the shift register, which holds *)
(* the byte received before.                                               *)
(***************************************************************************)
EXTENDS SdCard

CONSTANTS
  WordBytes,        \* bytes of a word
  RxDepth           \* words the host can hold

VARIABLE host

ASSUME SpiHostAssumption == WordBytes \in Nat \ {0} /\ RxDepth \in Nat \ {0}

Directions == {"dummy", "rx", "tx"}
Segment(len, csaat, direction) == [len |-> len, csaat |-> csaat, direction |-> direction]

HostReset == [cmds |-> <<>>, tx |-> <<>>, rx |-> <<>>, acc |-> <<>>, sr |-> 0]
HostInit == host = HostReset

segment == Head(host.cmds)
Stalled == segment.direction = "rx" /\ Len(host.rx) >= RxDepth

\* A dummy segment is sent to the spare chip select: the card sees its clocks.
DummySegment ==
  /\ host.cmds # <<>> /\ segment.direction = "dummy"
  /\ host' = [host EXCEPT !.cmds = Tail(@)]
  /\ card' = clocked(card, segment.len)

Select ==
  /\ host.cmds # <<>> /\ segment.direction # "dummy" /\ ~card.selected
  /\ card' = begin_transaction(card)
  /\ UNCHANGED host

received_Swapped(last) ==
  LET acc == <<card.out>> \o host.acc
  IN IF last \/ Len(acc) = WordBytes
     THEN [host EXCEPT !.rx = Append(@, acc), !.acc = <<>>]
     ELSE [host EXCEPT !.acc = acc]
\* The last byte of a word, or of a segment, completes a word.
received(last) ==
  LET acc == Append(host.acc, card.out)
  IN IF last \/ Len(acc) = WordBytes
     THEN [host EXCEPT !.rx = Append(@, acc), !.acc = <<>>]
     ELSE [host EXCEPT !.acc = acc]

TransferByte ==
  /\ host.cmds # <<>> /\ segment.direction # "dummy" /\ card.selected
  /\ ~Stalled
  /\ LET last == segment.len = 1
         mosi == IF segment.direction = "tx" THEN Head(host.tx) ELSE host.sr
         next == IF segment.direction = "rx" THEN received(last)
                 ELSE [host EXCEPT !.tx = Tail(@)]
         c == exchanged(card, mosi)
     IN /\ host' = [next EXCEPT
               !.sr = card.out,
               !.cmds = IF last THEN Tail(@) ELSE [@ EXCEPT ![1].len = @ - 1]]
        /\ card' = IF last /\ ~segment.csaat THEN deselected(c) ELSE c

HostNext == DummySegment \/ Select \/ TransferByte
=============================================================================

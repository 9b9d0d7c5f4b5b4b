------------------------------- MODULE SdCard -------------------------------
(***************************************************************************)
(* The SDHC card of the test bench in SPI mode (sd_card.cpp), a byte at a  *)
(* time: a selection that is lost within a byte has popped that byte and   *)
(* sampled nothing whole, which is a selection lost before it.  The card   *)
(* presents the first bit of a byte on the falling edge that ends the one  *)
(* before, so the byte in out has already left the queue.                  *)
(***************************************************************************)
EXTENDS Integers, Sequences

CONSTANTS
  BlockBytes,       \* bytes of a block
  MemoryBlocks,     \* blocks of the card
  Crc16(_)          \* the two bytes crc16_ccitt gives for a block

VARIABLES
  card,             \* the card's protocol state
  memory            \* the card's blocks

ASSUME SdCardAssumption == BlockBytes \in Nat \ {0} /\ MemoryBlocks \in Nat \ {0}

Byte == 0 .. 255
Filler == 255
R1Ready == 0
R1Idle == 1
R1Illegal == 4
R1CrcError == 8
DataToken == 254
OutOfRangeToken == 8
RequiredInitClocks == 74

\* A command frame: the index with its start bits, four bytes of argument, a CRC.
Frame(command, argument, crc) ==
  <<64 + command, argument \div 2^24, (argument \div 2^16) % 256,
    (argument \div 2^8) % 256, argument % 256, crc>>
\* A block address: those of 2^30 and over are as far out of range as 2^30.
BlockAddress(frame) ==
  IF frame[2] >= 64 THEN 2^30
  ELSE frame[2] * 2^24 + frame[3] * 2^16 + frame[4] * 2^8 + frame[5]

CardInit ==
  card = [selected |-> FALSE, cmd |-> <<>>, out |-> Filler, queue |-> <<>>,
          idle_clocks |-> 0, initialised |-> FALSE, app_cmd |-> FALSE,
          ready |-> FALSE, acmd41_count |-> 0]

present(c) ==
  IF c.queue = <<>> THEN [c EXCEPT !.out = Filler]
  ELSE [c EXCEPT !.out = Head(c.queue), !.queue = Tail(c.queue)]

begin_transaction_KeepsCommand(c) == [present(c) EXCEPT !.selected = TRUE]
\* The queue survives a change of the selection; the command in progress does not.
begin_transaction(c) == [present(c) EXCEPT !.selected = TRUE, !.cmd = <<>>]
deselected(c) == [c EXCEPT !.selected = FALSE]

\* Clocks while the card is not selected; those over the required do not matter.
clocked(c, n) ==
  IF c.selected THEN c
  ELSE [c EXCEPT !.idle_clocks =
          IF @ + n > RequiredInitClocks THEN RequiredInitClocks ELSE @ + n]

respond(c, bytes) == [c EXCEPT !.queue = @ \o <<Filler, Filler>> \o bytes]

r1(c) == IF c.ready THEN R1Ready ELSE R1Idle

BlockReply(c, block) ==
  IF ~c.ready THEN <<R1Illegal + R1Idle>>
  ELSE IF block >= MemoryBlocks THEN <<R1Ready, OutOfRangeToken>>
  ELSE <<R1Ready, Filler, Filler, Filler, DataToken>>
         \o memory[block] \o Crc16(memory[block])

process_command(c, frame) ==
  LET command == frame[1] - 64
      crc == frame[6]
      d == [c EXCEPT !.app_cmd = FALSE]
  IN CASE command = 0 /\ c.idle_clocks < RequiredInitClocks -> d
       [] command = 0 /\ c.idle_clocks >= RequiredInitClocks ->
            IF crc # 149 THEN respond(d, <<R1CrcError>>)
            ELSE respond([d EXCEPT !.initialised = TRUE], <<R1Idle>>)
       [] command = 8 ->
            respond(d, IF ~c.initialised THEN <<R1Illegal + R1Idle>>
                       ELSE IF crc # 135 THEN <<R1CrcError>>
                       ELSE <<R1Idle, 0, 0, 1, frame[5]>>)
       [] command = 55 ->
            respond([c EXCEPT !.app_cmd = TRUE],
                    <<IF c.initialised THEN r1(c) ELSE R1Idle>>)
       [] command = 41 /\ ~c.app_cmd -> respond(d, <<R1Illegal>>)
       [] command = 41 /\ c.app_cmd ->
            IF c.acmd41_count < 1
            THEN respond([d EXCEPT !.acmd41_count = 1], <<R1Idle>>)
            ELSE respond([d EXCEPT !.ready = TRUE], <<R1Ready>>)
       [] command = 58 -> respond(d, <<r1(c), 192, 255, 128, 0>>)
       [] command = 16 -> respond(d, <<r1(c)>>)
       [] command = 17 -> respond(d, BlockReply(c, BlockAddress(frame)))
       [] OTHER -> respond(d, <<R1Illegal>>)

\* A frame opens with 01 and only when nothing is left to say.
finish_byte(c, byte) ==
  IF c.cmd # <<>>
  THEN IF Len(c.cmd) = 5
       THEN process_command([c EXCEPT !.cmd = <<>>], Append(c.cmd, byte))
       ELSE [c EXCEPT !.cmd = Append(@, byte)]
  ELSE IF c.queue = <<>> /\ byte \in 64 .. 127
       THEN [c EXCEPT !.cmd = <<byte>>] ELSE c

\* Eight clocks: the card shifts c.out to the host and takes a byte from it.
exchanged(c, mosi) == present(finish_byte(c, mosi))
=============================================================================

------------------------------ MODULE QspiFlash ------------------------------
(***************************************************************************)
(* The flash behind the SPI pins (qspi_flash.cpp), a bit at a time in mode *)
(* 0, and the host that reads it: a command and an address go out, data    *)
(* bytes come in, and the host may give up and deselect after any edge.    *)
(* Every step is an edge of a pin and the call of update that follows it.  *)
(***************************************************************************)
EXTENDS Integers, Sequences

CONSTANTS
  Pages, PageAt,  \* what the pages hold, and which of them is at a page's number
  FlashReads,     \* addresses the host reads from
  MaxBytes        \* data bytes of a transaction

VARIABLES
  nor,            \* [phase, shift_in, shift_out, bit, address_bytes, address, miso]
  pins,           \* [selected, sck, mosi]
  host            \* the host's transaction, or the last one when none is selected

nor_vars == <<nor, pins, host>>

CMD_READ     == 3
CMD_JEDEC_ID == 159
FlashCommands     == {CMD_READ, CMD_JEDEC_ID}
JEDEC_ID     == [i \in 0 .. 2 |-> IF i = 0 THEN 239 ELSE IF i = 1 THEN 64 ELSE 24]
PAGE_SIZE    == 4096
PAGES        == 4096
MEMORY_SIZE  == PAGES * PAGE_SIZE
Byte         == 256

\* A page is filled at random when it is first used (paged_mem.cpp:28).
ASSUME FlashAssumption ==
  /\ Pages \in [DOMAIN Pages -> [0 .. PAGE_SIZE - 1 -> 0 .. 255]]
  /\ PageAt \in [0 .. PAGES - 1 -> DOMAIN Pages]
  /\ FlashReads \subseteq 0 .. MEMORY_SIZE - 1

read_byte(a) == Pages[PageAt[a \div PAGE_SIZE]][a % PAGE_SIZE]

-----------------------------------------------------------------------------
(* finish_byte, by phase; f.shift_in is the byte that is complete.         *)

FinishCommand(f) ==
  IF f.shift_in = CMD_READ THEN [f EXCEPT !.phase = "Address"]
  ELSE [f EXCEPT !.phase = "Id", !.address = 0, !.shift_out = JEDEC_ID[0]]
FinishAddress(f) ==
  LET a == Byte * f.address + f.shift_in
      g == [f EXCEPT !.address = a, !.address_bytes = @ + 1]
  IN IF f.address_bytes = 2
       THEN [g EXCEPT !.phase = "Read", !.shift_out = read_byte(a)] ELSE g
NextAddress(a) == (a + 1) % MEMORY_SIZE
\* The code keeps the address unmasked and masks what it reads.
FinishRead(f) ==
  [f EXCEPT !.address = NextAddress(@), !.shift_out = read_byte(NextAddress(f.address))]
FinishId(f) ==
  LET i == (f.address + 1) % 3
  IN [f EXCEPT !.address = i, !.shift_out = JEDEC_ID[i]]

finish_byte(f) ==
  IF f.phase = "Command" THEN FinishCommand(f)
  ELSE IF f.phase = "Address" THEN FinishAddress(f)
  ELSE IF f.phase = "Read" THEN FinishRead(f)
  ELSE FinishId(f)

sample_bit(f, mosi) ==
  LET g == [f EXCEPT !.shift_in = (2 * @ + mosi) % Byte, !.bit = (@ + 1) % 8]
  IN IF f.bit = 7 THEN finish_byte(g) ELSE g
drive_bit(f) ==
  [f EXCEPT !.miso = f.shift_out \div 128, !.shift_out = (2 * @) % Byte]

\* Mutant: a transaction that was cut short leaves its bit count behind.
begin_transaction_KeepsBit(f) ==
  [f EXCEPT !.phase = "Command", !.shift_in = 0, !.address_bytes = 0, !.address = 0]
begin_transaction(f) ==
  [f EXCEPT !.phase = "Command", !.shift_in = 0, !.bit = 0, !.address_bytes = 0,
            !.address = 0]

\* QspiFlash::update, for the pins before and after an edge.
update_flash(f, before, after) ==
  IF ~after.selected THEN IF before.selected THEN [f EXCEPT !.miso = 0] ELSE f
  ELSE LET g == IF before.selected THEN f ELSE begin_transaction(f)
       IN IF after.sck = before.sck THEN g
          ELSE IF after.sck = 1 THEN sample_bit(g, after.mosi)
          ELSE IF f.phase \in {"Read", "Id"} THEN drive_bit(g)
          ELSE g

\* SocTestbench::drive_miso: one line, which idles high. The SD card, the
\* line's other device, is not selected.
drive_miso(f, p) == IF p.selected THEN f.miso ELSE 1

-----------------------------------------------------------------------------
(* The host. A bit of a byte, by its place on the wire: the high one first.*)

Weight == [k \in 0 .. 7 |->
  CASE k = 0 -> 128 [] k = 1 -> 64 [] k = 2 -> 32 [] k = 3 -> 16
    [] k = 4 -> 8   [] k = 5 -> 4  [] k = 6 -> 2  [] k = 7 -> 1]
Bit(byte, k) == (byte \div Weight[k]) % 2

Transaction(c, a) ==
  [command |-> c, address |-> a, sent |-> 0, in |-> 0, bits |-> 0, bytes |-> <<>>]
BitsToSend(h) == IF h.command = CMD_READ THEN 32 ELSE 8
Sending(h) == h.sent < BitsToSend(h)
ByteToSend(h) ==
  IF h.sent < 8 THEN h.command
  ELSE IF h.sent < 16 THEN h.address \div (Byte * Byte)
  ELSE IF h.sent < 24 THEN (h.address \div Byte) % Byte
  ELSE h.address % Byte
Mosi(h) == IF Sending(h) THEN Bit(ByteToSend(h), h.sent % 8) ELSE 0
Take(h, miso) ==
  LET in == (2 * h.in + miso) % Byte
  IN IF h.bits = 7 THEN [h EXCEPT !.in = 0, !.bits = 0, !.bytes = Append(@, in)]
     ELSE [h EXCEPT !.in = in, !.bits = @ + 1]

Edge(p) == pins' = p /\ nor' = update_flash(nor, pins, p)

Select ==
  /\ ~pins.selected
  /\ \/ \E a \in FlashReads : host' = Transaction(CMD_READ, a)
     \/ host' = Transaction(CMD_JEDEC_ID, 0)
  /\ Edge([selected |-> TRUE, sck |-> 0, mosi |-> Mosi(host')])
\* The host samples the line at the rising edge, as the flash does.
Rise ==
  /\ pins.selected /\ pins.sck = 0 /\ Len(host.bytes) < MaxBytes
  /\ host' = IF Sending(host) THEN [host EXCEPT !.sent = @ + 1]
             ELSE Take(host, drive_miso(nor, pins))
  /\ Edge([pins EXCEPT !.sck = 1])
Fall ==
  /\ pins.selected /\ pins.sck = 1
  /\ UNCHANGED host
  /\ Edge([selected |-> TRUE, sck |-> 0, mosi |-> Mosi(host)])
Deselect ==
  /\ pins.selected
  /\ UNCHANGED host
  /\ Edge([pins EXCEPT !.selected = FALSE, !.sck = 0])

FlashInit ==
  /\ nor = [phase |-> "Command", shift_in |-> 0, shift_out |-> 0, bit |-> 0,
            address_bytes |-> 0, address |-> 0, miso |-> 0]
  /\ pins = [selected |-> FALSE, sck |-> 0, mosi |-> 0]
  /\ host = Transaction(CMD_READ, 0)
FlashNext == Select \/ Rise \/ Fall \/ Deselect
FlashSpec == FlashInit /\ [][FlashNext]_nor_vars

-----------------------------------------------------------------------------
\* Every byte the host reads is the one at its place, from the address sent and
\* on, past the end of the flash from its start, whatever was cut short before;
\* of the identifier, its three bytes over and over.
BytesAreFlash ==
  \A i \in DOMAIN host.bytes :
    host.bytes[i] = IF host.command = CMD_READ
                      THEN read_byte((host.address + i - 1) % MEMORY_SIZE)
                      ELSE JEDEC_ID[(i - 1) % 3]
=============================================================================

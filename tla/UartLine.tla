------------------------------ MODULE UartLine ------------------------------
(***************************************************************************)
(* The two ends of the serial line that the simulation drives: the driver  *)
(* of the SoC's receiver (uart_rx_driver.cpp) and the monitor of its       *)
(* transmitter (uart_tx_monitor.cpp), each stepped once a clock cycle, and *)
(* the SoC's own transmitter and receiver, which may count a bit a little  *)
(* longer or shorter.  A byte is its bits, least significant first.        *)
(***************************************************************************)
EXTENDS Integers, SequencesExt

CONSTANTS
  BitCycles,      \* 16 * divisor: the bit of the driver and of the monitor
  SocBits,        \* the bits the SoC may count
  Texts,          \* sequences of bytes to send
  ByteBits        \* bits of a byte

\* A start bit is looked at again in its middle, a data or stop bit one bit on.
Half == BitCycles \div 2

\* Each end is in the stop bit when it looks for it, by whichever bit is longer:
\* the drift over a frame stays within half a bit.
ASSUME DriftAssumption ==
  /\ ByteBits \in Nat \ {0} /\ BitCycles \in Nat \ {0, 1}
  /\ \A t \in Texts : t \in Seq(Seq({0, 1})) /\ \A i \in DOMAIN t : Len(t[i]) = ByteBits
  /\ \A b \in SocBits :
       LET monitored == Half + (ByteBits + 1) * BitCycles
           taken     == (ByteBits + 1) * b + (b \div 2)
       IN /\ b \in Nat \ {0, 1} /\ Half < b /\ b \div 2 < BitCycles
          /\ (ByteBits + 1) * b <= monitored /\ monitored < (ByteBits + 2) * b
          /\ (ByteBits + 1) * BitCycles <= taken /\ taken < (ByteBits + 2) * BitCycles

VARIABLES
  driver,         \* the driver, with the bytes it has queued
  monitor,        \* the monitor
  uart,            \* the SoC's receiver and transmitter
  wires,           \* the level of each line
  text,           \* the bytes to send, to or from the SoC
  received,       \* what the other end has made of them
  framing_error   \* the monitor or the SoC missed a stop bit

uart_vars == <<driver, monitor, uart, wires, text, received, framing_error>>

-----------------------------------------------------------------------------
(* UartRxDriver::drive.  Each state returns the driver after the cycle.    *)

DriverIdle(d) ==
  IF d.queue = <<>> THEN [d EXCEPT !.level = 1]
  ELSE [d EXCEPT !.shifter = Head(d.queue), !.queue = Tail(d.queue),
                 !.state = "START", !.counter = 0, !.level = 0]
DriverStart(d) ==
  [d EXCEPT !.counter = 0, !.bit_index = 0, !.state = "DATA", !.level = Head(d.shifter)]
\* Mutant: the level is put out before the byte is shifted.
DriverData_Unshifted(d) ==
  LET last == d.bit_index + 1 = ByteBits
  IN [d EXCEPT !.counter = 0, !.shifter = Tail(@), !.bit_index = @ + 1,
               !.state = IF last THEN "STOP" ELSE "DATA",
               !.level = IF last THEN 1 ELSE Head(d.shifter)]
DriverData(d) ==
  LET last == d.bit_index + 1 = ByteBits
      rest == Tail(d.shifter)
  IN [d EXCEPT !.counter = 0, !.shifter = rest, !.bit_index = @ + 1,
               !.state = IF last THEN "STOP" ELSE "DATA",
               !.level = IF last THEN 1 ELSE Head(rest)]
DriverStop(d) == [d EXCEPT !.counter = 0, !.state = "IDLE", !.level = 1]

drive_rx(d) ==
  IF d.bit_cycles = 0 THEN [d EXCEPT !.level = 1]
  ELSE IF d.state = "IDLE" THEN DriverIdle(d)
  ELSE IF d.counter + 1 < d.bit_cycles THEN [d EXCEPT !.counter = @ + 1]
  ELSE CASE d.state = "START" -> DriverStart(d)
         [] d.state = "DATA"  -> DriverData(d)
         [] d.state = "STOP"  -> DriverStop(d)

-----------------------------------------------------------------------------
(* UartTxMonitor::sample.                                                  *)

MonitorIdle(u, tx) ==
  IF u.last = 1 /\ tx = 0 THEN [u EXCEPT !.state = "START", !.counter = 0] ELSE u
MonitorStart(u, tx) ==
  IF u.counter + 1 < Half THEN [u EXCEPT !.counter = @ + 1]
  ELSE IF tx = 1 THEN [u EXCEPT !.state = "IDLE", !.counter = @ + 1]
  ELSE [u EXCEPT !.state = "DATA", !.counter = 0, !.bit_index = 0, !.shifter = <<>>]
MonitorData(u, tx) ==
  IF u.counter + 1 < u.bit_cycles THEN [u EXCEPT !.counter = @ + 1]
  ELSE [u EXCEPT !.counter = 0, !.shifter = Append(@, tx), !.bit_index = @ + 1,
                 !.state = IF u.bit_index + 1 = ByteBits THEN "STOP" ELSE "DATA"]
MonitorStop(u, tx) ==
  IF u.counter + 1 < u.bit_cycles THEN [u EXCEPT !.counter = @ + 1]
  ELSE [u EXCEPT !.state = "IDLE", !.counter = @ + 1]

sample(u, tx) ==
  IF u.bit_cycles = 0 THEN u
  ELSE [(CASE u.state = "IDLE"  -> MonitorIdle(u, tx)
           [] u.state = "START" -> MonitorStart(u, tx)
           [] u.state = "DATA"  -> MonitorData(u, tx)
           [] u.state = "STOP"  -> MonitorStop(u, tx)) EXCEPT !.last = tx]
\* The stop bit is looked at in this cycle; the byte is printed if it is there.
AtStop == monitor.state = "STOP" /\ sample(monitor, wires.tx).state = "IDLE"

-----------------------------------------------------------------------------
(* The SoC: a transmitter that leaves gaps of any length between bytes and *)
(* a receiver that samples the middle of the bits, by its own bit.         *)

Frame(byte) == <<0>> \o byte \o <<1>>
TxCycle(s, start) ==
  IF s.tx_frame = <<>>
    THEN IF start THEN [s EXCEPT !.tx_frame = Frame(Head(s.tx_queue)), !.tx_time = 0,
                                 !.tx_queue = Tail(@)] ELSE s
  ELSE IF s.tx_time + 1 < s.bit THEN [s EXCEPT !.tx_time = @ + 1]
  ELSE [s EXCEPT !.tx_frame = Tail(@), !.tx_time = 0]
TxLevel(s) == IF s.tx_frame = <<>> THEN 1 ELSE Head(s.tx_frame)

RxIdle(s) == s.rx_time = 0 /\ s.rx_bits = <<>>
RxCycle(s, rx) ==
  IF RxIdle(s) THEN IF rx = 0 THEN [s EXCEPT !.rx_time = 1] ELSE s
  ELSE [s EXCEPT !.rx_time = (@ + 1) % s.bit,
                 !.rx_bits = IF s.rx_time = s.bit \div 2 THEN Append(@, rx) ELSE @]
RxFull(s) == Len(s.rx_bits) = ByteBits + 2
RxByte(s) == SubSeq(s.rx_bits, 2, ByteBits + 1)
RxClear(s) == [s EXCEPT !.rx_time = 0, !.rx_bits = <<>>]

-----------------------------------------------------------------------------
Idle ==
  /\ driver = [state |-> "IDLE", counter |-> 0, bit_index |-> 0, shifter |-> <<>>,
               level |-> 1, bit_cycles |-> 0, queue |-> <<>>]
  /\ monitor = [state |-> "IDLE", counter |-> 0, bit_index |-> 0, shifter |-> <<>>,
                last |-> 1, bit_cycles |-> 0]
  /\ wires = [rx |-> 1, tx |-> 1]
  /\ received = <<>> /\ framing_error = FALSE
Soc(bit, queue) ==
  [bit |-> bit, tx_queue |-> queue, tx_frame |-> <<>>, tx_time |-> 0,
   rx_time |-> 0, rx_bits |-> <<>>]
LineInit ==
  /\ Idle /\ text \in Texts
  /\ \E bit \in SocBits : uart \in {Soc(bit, text), Soc(bit, <<>>)}

\* The command sets the divisors, and queues the bytes for the SoC to receive
\* when it is not the SoC that sends.
set_divisor ==
  /\ driver.bit_cycles = 0
  /\ driver' = [driver EXCEPT !.bit_cycles = BitCycles]
  /\ monitor' = [monitor EXCEPT !.bit_cycles = BitCycles]
  /\ UNCHANGED <<uart, wires, text, received, framing_error>>
send_bytes ==
  /\ driver.bit_cycles # 0 /\ uart.tx_queue = <<>> /\ uart.tx_frame = <<>>
  /\ driver.queue = <<>> /\ driver.state = "IDLE" /\ received = <<>>
  /\ driver' = [driver EXCEPT !.queue = text]
  /\ UNCHANGED <<monitor, uart, wires, text, received, framing_error>>

\* SocTestbench::run_cycles: the monitor samples what the SoC drove, the driver
\* drives what it receives, and the SoC has its clock.
LineCycle ==
  /\ monitor' = sample(monitor, wires.tx)
  /\ driver' = drive_rx(driver)
  /\ \E start \in BOOLEAN :
       /\ start => uart.tx_queue # <<>> /\ uart.tx_frame = <<>> /\ driver.bit_cycles # 0
       /\ LET s == RxCycle(TxCycle(uart, start), driver'.level)
          IN /\ uart' = IF RxFull(s) THEN RxClear(s) ELSE s
             /\ wires' = [rx |-> driver'.level, tx |-> TxLevel(s)]
             /\ received' = IF AtStop /\ wires.tx = 1 THEN Append(received, monitor.shifter)
                            ELSE IF RxFull(s) THEN Append(received, RxByte(s))
                            ELSE received
             /\ framing_error' =
                  (framing_error \/ (AtStop /\ wires.tx = 0)
                                 \/ (RxFull(s) /\ Last(s.rx_bits) = 0))
  /\ UNCHANGED text

LineNext == set_divisor \/ send_bytes \/ LineCycle

\* The clock runs, the command goes on, and the guest sends what it has: the
\* cycles of an idle line change nothing.
LineSpec == LineInit /\ [][LineNext]_uart_vars /\ WF_uart_vars(LineNext)

-----------------------------------------------------------------------------
\* What is received is what was sent, in order, whichever end's bit is the
\* longer, with a gap of one cycle between bytes and with any; no stop bit is missed.
BytesInOrder == IsPrefix(received, text) /\ ~framing_error
=============================================================================

----------------------------- MODULE DebugPort -----------------------------
(***************************************************************************)
(* The other end of the JTAG pins, as jtag.cpp uses it: the TAP, the debug *)
(* transport and the debug module with its system bus master.  They are    *)
(* dependencies of the repository.  A register is shifted a field at a     *)
(* time, the least significant first.  A request to the debug module and   *)
(* an access to the bus may take any time.                                 *)
(***************************************************************************)
EXTENDS Integers, Sequences

CONSTANTS
  Memory,           \* addresses of the memory behind the bus master
  WordBytes,        \* bytes of a word
  Byte,             \* values of a byte
  None

VARIABLES
  tap,              \* TAP and transport: [state, ir, shift, sticky, op, data]
  dm,               \* debug module and hart
  memory            \* byte by address

IR_IDCODE == 1
IR_DTMCS == 16
IR_DMI == 17
IDCODE == 3507
DTMCS == 113
DMI_NOP == 0
DMI_READ == 1
DMI_WRITE == 2
DMI_SUCCESS == 0
DMI_BUSY == 3
DMCONTROL == 16
DMSTATUS == 17
SBCS == 56
SBADDRESS0 == 57
SBDATA0 == 60

\* Fields of the registers, as numbers.
DM_ACTIVE == 1
DM_RESET == 3
DM_RESUMEREQ == 5
DM_HALTREQ == 9
DM_ANYHALTED == 1
DM_ANYRUNNING == 2
DM_ANYRESUMEACK == 4
Flag(value, flag) == (value \div flag) % 2 = 1
SBA_WORD == 1
SBA_READ_ON_ADDRESS == 2
SBA_BUSY == 1
SBA_BUSY_ERROR == 2
SBA_ERROR == 4
SBA_SUPPORTED == 8

TapStates == {"reset", "idle", "selectDR", "captureDR", "shiftDR", "exit1DR", "pauseDR",
              "exit2DR", "updateDR", "selectIR", "captureIR", "shiftIR", "exit1IR",
              "pauseIR", "exit2IR", "updateIR"}
TapNext(state, tms) ==
  LET Pick(one, zero) == IF tms THEN one ELSE zero
  IN CASE state = "reset" -> Pick("reset", "idle")
       [] state \in {"idle", "updateDR", "updateIR"} -> Pick("selectDR", "idle")
       [] state = "selectDR" -> Pick("selectIR", "captureDR")
       [] state \in {"captureDR", "shiftDR"} -> Pick("exit1DR", "shiftDR")
       [] state = "exit1DR" -> Pick("updateDR", "pauseDR")
       [] state = "pauseDR" -> Pick("exit2DR", "pauseDR")
       [] state = "exit2DR" -> Pick("updateDR", "shiftDR")
       [] state = "selectIR" -> Pick("reset", "captureIR")
       [] state \in {"captureIR", "shiftIR"} -> Pick("exit1IR", "shiftIR")
       [] state = "exit1IR" -> Pick("updateIR", "pauseIR")
       [] state = "pauseIR" -> Pick("exit2IR", "pauseIR")
       [] state = "exit2IR" -> Pick("updateIR", "shiftIR")

Busy(t) == t.op # None \/ t.sticky
CaptureDR(t) ==
  CASE t.ir = IR_IDCODE -> [t EXCEPT !.shift = <<IDCODE, 0>>]
    [] t.ir = IR_DTMCS -> [t EXCEPT !.shift = <<DTMCS, 0>>]
    [] t.ir = IR_DMI ->
         [t EXCEPT !.shift = <<IF Busy(t) THEN DMI_BUSY ELSE DMI_SUCCESS, t.data, 0>>,
                   !.sticky = Busy(t)]
    [] OTHER -> [t EXCEPT !.shift = <<0>>]
ShiftIn(t, tdi) == [t EXCEPT !.shift = Append(Tail(@), tdi)]

\* The rising edge of the clock samples, the falling edge updates.
Rise(t, tms, tdi) ==
  LET u == CASE t.state = "captureDR" -> CaptureDR(t)
             [] t.state = "captureIR" -> [t EXCEPT !.shift = <<1, 0>>]
             [] t.state \in {"shiftDR", "shiftIR"} -> ShiftIn(t, tdi)
             [] OTHER -> t
      next == TapNext(t.state, tms)
  IN [u EXCEPT !.state = next, !.ir = IF next = "reset" THEN IR_IDCODE ELSE @]
Fall(t) ==
  IF t.state = "updateIR" THEN [t EXCEPT !.ir = t.shift[1]]
  ELSE IF t.state = "updateDR" /\ t.ir = IR_DTMCS /\ t.shift[2] = 1
  THEN [t EXCEPT !.sticky = FALSE]
  ELSE IF t.state = "updateDR" /\ t.ir = IR_DMI /\ t.shift[1] # DMI_NOP /\ ~Busy(t)
  THEN [t EXCEPT !.op = [operation |-> t.shift[1], data |-> t.shift[2],
                         address |-> t.shift[3]]]
  ELSE t
jtag_tdo(t) == IF t.state \in {"shiftDR", "shiftIR"} THEN t.shift[1] ELSE 0

-----------------------------------------------------------------------------
Errors(d) == d.busyerror \/ d.error
Status(d) ==
  (IF d.hart = "halted" THEN DM_ANYHALTED ELSE DM_ANYRUNNING)
    + (IF d.resumeack THEN DM_ANYRESUMEACK ELSE 0)
Sbcs(d) == SBA_SUPPORTED + (IF d.sba # None THEN SBA_BUSY ELSE 0)
             + (IF d.busyerror THEN SBA_BUSY_ERROR ELSE 0) + (IF d.error THEN SBA_ERROR ELSE 0)
RegisterRead(d, register) ==
  CASE register = DMSTATUS -> Status(d)
    [] register = SBCS -> Sbcs(d)
    [] register = SBDATA0 -> d.sbdata
    [] OTHER -> 0

\* The bus registers refuse what comes while an access is on its way.
Access(d, op) == IF Errors(d) THEN d ELSE [d EXCEPT !.sba = op]
RegisterWrite(d, register, v) ==
  CASE register = DMCONTROL /\ v = DM_RESET ->
         [d EXCEPT !.hart = "running", !.haltreq = FALSE, !.resumereq = FALSE]
    [] register = DMCONTROL /\ v # DM_RESET ->
         [d EXCEPT !.haltreq = (v = DM_HALTREQ),
                   !.resumereq = (v = DM_RESUMEREQ /\ d.hart = "halted"),
                   !.resumeack = @ /\ v # DM_RESUMEREQ]
    [] register # DMCONTROL /\ d.sba # None -> [d EXCEPT !.busyerror = TRUE]
    [] register = SBCS /\ d.sba = None -> [d EXCEPT !.control = v]
    [] register = SBADDRESS0 /\ d.sba = None ->
         LET e == [d EXCEPT !.sbaddress = v]
         IN IF Flag(d.control, SBA_READ_ON_ADDRESS) THEN Access(e, "read") ELSE e
    [] register = SBDATA0 /\ d.sba = None -> Access([d EXCEPT !.sbdata = v], "write")
    [] OTHER -> d

DmiFinish ==
  /\ tap.op # None
  /\ LET o == tap.op
         reads == o.operation = DMI_READ
     IN /\ tap' = [tap EXCEPT !.op = None,
                              !.data = IF reads THEN RegisterRead(dm, o.address) ELSE o.data]
        /\ dm' = IF ~reads THEN RegisterWrite(dm, o.address, o.data)
                 ELSE IF o.address = SBDATA0 /\ dm.sba # None
                 THEN [dm EXCEPT !.busyerror = TRUE] ELSE dm
  /\ UNCHANGED memory

Pack(bytes) == bytes[1] + 16 * bytes[2]
Unpack(v) == <<v % 16, v \div 16>>
SbaFinish ==
  /\ dm.sba # None
  /\ LET size == IF Flag(dm.control, SBA_WORD) THEN WordBytes ELSE 1
         range == dm.sbaddress .. dm.sbaddress + size - 1
         ok == range \subseteq Memory /\ dm.sbaddress % size = 0
         value == IF size = 1 THEN memory[dm.sbaddress]
                  ELSE Pack([i \in 1 .. WordBytes |-> memory[dm.sbaddress + i - 1]])
         bytes == IF size = 1 THEN <<dm.sbdata % 16>> ELSE Unpack(dm.sbdata)
     IN /\ dm' = [dm EXCEPT !.sba = None, !.error = @ \/ ~ok,
                            !.sbdata = IF ok /\ dm.sba = "read" THEN value ELSE @]
        /\ memory' = IF ok /\ dm.sba = "write"
                     THEN [a \in Memory |-> IF a \in range THEN bytes[a - dm.sbaddress + 1]
                                            ELSE memory[a]]
                     ELSE memory
  /\ UNCHANGED tap

HartStep ==
  /\ \/ /\ dm.haltreq /\ dm.hart = "running"
        /\ dm' = [dm EXCEPT !.hart = "halted"]
     \/ /\ dm.resumereq /\ dm.hart = "halted"
        /\ dm' = [dm EXCEPT !.hart = "running", !.resumeack = TRUE, !.resumereq = FALSE]
  /\ UNCHANGED <<tap, memory>>

DebugReset == [hart |-> "running", haltreq |-> FALSE, resumereq |-> FALSE,
               resumeack |-> FALSE, control |-> 0, sbaddress |-> 0, sbdata |-> 0,
               sba |-> None, busyerror |-> FALSE, error |-> FALSE]
DebugInit ==
  /\ \E s \in TapStates :
       tap = [state |-> s, ir |-> IR_IDCODE, shift |-> <<0, 0>>, sticky |-> FALSE,
              op |-> None, data |-> 0]
  /\ dm = DebugReset
  /\ memory = [a \in Memory |-> 0]
DebugNext == DmiFinish \/ SbaFinish \/ HartStep
=============================================================================

----------------------------- MODULE CoreBench -----------------------------
(***************************************************************************)
(* The bench of the bare core (tb_core_main.cpp): a router in front of the *)
(* memory model, the UART, two sinks and the CLINT, and the loop that      *)
(* clocks them with the core.  A step is a clock cycle.  The core is a     *)
(* master that holds an access while the bus waits.  The other devices     *)
(* never wait, so the owner of a waiting bus is the memory.                *)
(***************************************************************************)
EXTENDS Integers, Sequences

CONSTANTS
  Map,              \* the address map: a sequence of [base, size, dev]
  Programs,         \* for each program, the accesses it makes: [op, addr, size, data]
  Bytes,            \* values of a byte
  Waits,            \* what next_wait_cycles may return
  MtimeDiv,         \* cycles of a tick of mtime
  Half,             \* values of one half of a 64-bit register
  ResetCycles,      \* cycles of reset
  None

VARIABLES
  mem,              \* the memory model's transfer: [in_flight, current_wait, wait]
  pool,             \* PagedMem: byte by address
  uart,             \* the UART's registers
  gpio,             \* the last word each sink was written
  clint,            \* [mtime, mtimecmp, msip, suppress_tick, prescaler]
  bus,              \* the router: [owner, wait, err, rdata]
  core,             \* [req, halted, program], req the access it holds or None
  cycle_count,      \* cycles of reset so far
  phase,            \* "reset", "run", "done"
  waited,           \* history: cycles the bus has made this access wait
  elapsed           \* history: cycles since mtime was zero, or the count it was set to

vars == <<mem, pool, uart, gpio, clint, bus, core, cycle_count, phase, waited, elapsed>>

Lanes == 4
Idle == [op |-> "idle", addr |-> 0, size |-> 4, data |-> <<0, 0, 0, 0>>]
Word(v) == <<v, 0, 0, 0>>
Modulus == Half * Half

\* The first mapping with the address; its device, or None.
Covers(m, addr) == addr >= m.base /\ addr - m.base < m.size
Selected(addr) ==
  IF \E i \in DOMAIN Map : Covers(Map[i], addr)
  THEN Map[CHOOSE i \in DOMAIN Map : Covers(Map[i], addr)
                      /\ \A j \in 1 .. i - 1 : ~Covers(Map[j], addr)]
  ELSE [dev |-> None, base |-> 0, size |-> 0]

-----------------------------------------------------------------------------
\* The memory model. A transfer that waits is answered when the count is
\* zero, one cycle after it got there.
addr_misaligned(a) == a.addr % a.size # 0
lane_mask_Low(a) == 1 .. a.size
lane_mask(a) == {1 + (b % Lanes) : b \in a.addr .. a.addr + a.size - 1}
read_word_aligned(addr) == [l \in 1 .. Lanes |-> pool[addr - (addr % Lanes) + l - 1]]

\* A read of the word, a change of the lanes in the mask, a write of the word.
write(a) ==
  LET base == a.addr - (a.addr % Lanes)
      w == [l \in 1 .. Lanes |-> IF l \in lane_mask(a) THEN a.data[l]
                                 ELSE read_word_aligned(a.addr)[l]]
  IN [b \in DOMAIN pool |-> IF b \in base .. base + Lanes - 1 THEN w[b - base + 1]
                            ELSE pool[b]]

Settled == [in_flight |-> None, current_wait |-> 0, wait |-> FALSE]
Perform(a) ==
  /\ mem' = Settled
  /\ IF a.op = "write" THEN pool' = write(a) ELSE UNCHANGED pool
Waiting == [owner |-> "dram", wait |-> TRUE, err |-> FALSE, rdata |-> None]
Answer(a, err) ==
  [owner |-> "dram", wait |-> FALSE, err |-> err,
   rdata |-> IF a.op = "read" /\ ~err THEN read_word_aligned(a.addr) ELSE None]

Issue_OneMore(a, w) == mem' = [in_flight |-> a, current_wait |-> w + 1, wait |-> TRUE]
Issue(a, w) == mem' = [in_flight |-> a, current_wait |-> w, wait |-> TRUE]

\* other is what the device selected answers when it is not the memory.
MemCycle(a, selected, other) ==
  \/ /\ mem.in_flight # None /\ mem.current_wait # 0
     /\ mem' = [mem EXCEPT !.current_wait = @ - 1]
     /\ bus' = Waiting
     /\ UNCHANGED pool
  \/ /\ mem.in_flight # None /\ mem.current_wait = 0
     /\ Perform(mem.in_flight) /\ bus' = Answer(mem.in_flight, FALSE)
  \/ /\ mem.in_flight = None /\ selected /\ a.op # "idle"
     /\ IF addr_misaligned(a)
        THEN bus' = Answer(a, TRUE) /\ UNCHANGED <<mem, pool>>
        ELSE \E w \in Waits :
               IF w = 0 THEN Perform(a) /\ bus' = Answer(a, FALSE)
               ELSE Issue(a, w) /\ bus' = Waiting /\ UNCHANGED pool
  \/ /\ mem.in_flight = None /\ ~(selected /\ a.op # "idle")
     /\ bus' = other
     /\ UNCHANGED <<mem, pool>>

-----------------------------------------------------------------------------
\* The UART, transmit only. printed is the last byte that left it.
Dlab(u) == u.lcr >= 128
UartRead(u, reg) ==
  CASE reg = 0 -> IF Dlab(u) THEN u.dll ELSE 0
    [] reg = 1 -> IF Dlab(u) THEN u.dlm ELSE u.ier
    [] reg = 2 -> 1
    [] reg = 3 -> u.lcr
    [] reg = 4 -> u.mcr
    [] reg = 5 -> 96
    [] reg = 6 -> 0
    [] reg = 7 -> u.scr
UartWrite(u, reg, b) ==
  CASE reg = 0 -> IF Dlab(u) THEN [u EXCEPT !.dll = b] ELSE [u EXCEPT !.printed = b]
    [] reg = 1 -> IF Dlab(u) THEN [u EXCEPT !.dlm = b] ELSE [u EXCEPT !.ier = b]
    [] reg = 3 -> [u EXCEPT !.lcr = b]
    [] reg = 4 -> [u EXCEPT !.mcr = b]
    [] reg = 7 -> [u EXCEPT !.scr = b]
    [] OTHER -> u

-----------------------------------------------------------------------------
\* The CLINT, with its registers in the order of their offsets.
MSIP == 0
MTIMECMP_LO == 1
MTIMECMP_HI == 2
MTIME_LO == 3
MTIME_HI == 4

ClintReset == [mtime |-> 0, mtimecmp |-> Modulus - 1, msip |-> 0,
               suppress_tick |-> FALSE, prescaler |-> 0]
ClintRead(c, reg) ==
  CASE reg = MSIP -> c.msip
    [] reg = MTIMECMP_LO -> c.mtimecmp % Half
    [] reg = MTIMECMP_HI -> c.mtimecmp \div Half
    [] reg = MTIME_LO -> c.mtime % Half
    [] reg = MTIME_HI -> c.mtime \div Half
    [] OTHER -> 0
Low(v, half) == v - (v % Half) + half
High(v, half) == (v % Half) + half * Half
SetMtime_KeepsPrescaler(c, v) == [c EXCEPT !.mtime = v, !.suppress_tick = TRUE]
SetMtime(c, v) == [c EXCEPT !.mtime = v, !.prescaler = 0, !.suppress_tick = TRUE]
ClintWrite(c, reg, v) ==
  CASE reg = MSIP -> [c EXCEPT !.msip = v % 2]
    [] reg = MTIMECMP_LO -> [c EXCEPT !.mtimecmp = Low(@, v)]
    [] reg = MTIMECMP_HI -> [c EXCEPT !.mtimecmp = High(@, v)]
    [] reg = MTIME_LO -> SetMtime(c, Low(c.mtime, v))
    [] reg = MTIME_HI -> SetMtime(c, High(c.mtime, v))
    [] OTHER -> c

tick(c) ==
  IF c.suppress_tick THEN [c EXCEPT !.suppress_tick = FALSE]
  ELSE IF c.prescaler + 1 = MtimeDiv
  THEN [c EXCEPT !.prescaler = 0, !.mtime = (@ + 1) % Modulus]
  ELSE [c EXCEPT !.prescaler = @ + 1]
-----------------------------------------------------------------------------
\* BusRouter::cycle. The owner of a waiting bus keeps it; every device is
\* clocked once, the others without an access.
owner(a) == IF bus.wait THEN [dev |-> bus.owner, base |-> 0] ELSE Selected(a.addr)

DeviceAnswer(a, dev, offset) ==
  LET value == CASE dev = "uart" -> UartRead(uart, (offset \div 4) % 8)
                 [] dev = "clint" -> ClintRead(clint, offset)
                 [] OTHER -> 0
  IN [owner |-> dev, wait |-> FALSE, err |-> dev = None,
      rdata |-> IF a.op = "read" /\ dev # None THEN Word(value) ELSE None]

BusCycle(a) ==
  LET dev == owner(a).dev
      offset == a.addr - owner(a).base
      writes(d) == dev = d /\ a.op = "write"
  IN /\ MemCycle(a, dev = "dram", DeviceAnswer(a, dev, offset))
     /\ uart' = IF writes("uart") THEN UartWrite(uart, (offset \div 4) % 8, a.data[1])
                ELSE uart
     /\ gpio' = [d \in DOMAIN gpio |-> IF writes(d) THEN a.data ELSE gpio[d]]
     /\ clint' = tick(IF writes("clint") THEN ClintWrite(clint, offset, a.data[1])
                      ELSE clint)
     /\ waited' = IF bus'.wait THEN waited + 1 ELSE 0
     /\ elapsed' = IF writes("clint") /\ offset \in {MTIME_LO, MTIME_HI}
                   THEN clint'.mtime * MtimeDiv
                   ELSE (elapsed + 1) % (MtimeDiv * Modulus)

\* The core holds its access while the bus waits. It halts when the data
\* port asks to write the halt address, which a fetch may hold up.
Hold(a) == bus.wait => a = core.req
ResetFetch == [op |-> "read", addr |-> Map[1].base, size |-> 4, data |-> <<0, 0, 0, 0>>]

ResetCycle ==
  /\ phase = "reset" /\ cycle_count < ResetCycles
  /\ \E a \in {Idle, ResetFetch} :
       /\ Hold(a) /\ BusCycle(a)
       /\ core' = [core EXCEPT !.req = IF bus'.wait THEN a ELSE None]
  /\ cycle_count' = cycle_count + 1
  /\ UNCHANGED phase

ReleaseReset ==
  /\ phase = "reset" /\ cycle_count = ResetCycles
  /\ clint' = ClintReset /\ elapsed' = 0
  /\ phase' = "run"
  /\ UNCHANGED <<mem, pool, uart, gpio, bus, core, cycle_count, waited>>

RunCycle ==
  /\ phase = "run" /\ ~core.halted
  /\ \E a \in core.program \cup {Idle} :
       /\ Hold(a) /\ BusCycle(a)
       /\ \E h \in BOOLEAN :
            /\ h => \/ a.op = "read" /\ bus'.wait
                    \/ a.op = "write" /\ Selected(a.addr).dev = "halt"
            /\ core' = [core EXCEPT !.req = IF bus'.wait THEN a ELSE None, !.halted = h]
  /\ UNCHANGED <<cycle_count, phase>>

\* The loop ends when the core halts, or at the limit of cycles, which may be
\* any.
Finish ==
  /\ phase = "run" /\ phase' = "done"
  /\ UNCHANGED <<mem, pool, uart, gpio, clint, bus, core, cycle_count, waited, elapsed>>

ASSUME BenchAssumption ==
  /\ MtimeDiv \in Nat \ {0} /\ Half \in Nat \ {0} /\ Waits \subseteq Nat
  /\ None \notin (UNION Programs) \cup {ResetFetch}
  /\ \A a \in (UNION Programs) \cup {ResetFetch} :
       /\ a.op \in {"read", "write"} /\ a.addr \in Nat /\ a.size \in {1, 2, 4}
       /\ a.op = "write" /\ Selected(a.addr).dev = "clint" => a.data[1] \in 0 .. Half - 1

Init ==
  /\ mem = Settled
  /\ pool \in [Map[1].base .. Map[1].base + Map[1].size - 1 -> {0}]
  /\ uart = [ier |-> 0, lcr |-> 0, mcr |-> 0, scr |-> 0, dll |-> 0, dlm |-> 0,
             printed |-> None]
  /\ gpio = [d \in {"gpio", "halt"} |-> Word(0)]
  /\ clint = ClintReset
  /\ bus = [owner |-> None, wait |-> FALSE, err |-> FALSE, rdata |-> None]
  /\ \E p \in Programs : core = [req |-> None, halted |-> FALSE, program |-> p]
  /\ cycle_count = 0 /\ phase = "reset" /\ waited = 0
  /\ elapsed = 0

Next == ResetCycle \/ ReleaseReset \/ RunCycle \/ Finish
SafeSpec == Init /\ [][Next]_vars
-----------------------------------------------------------------------------
Memory == INSTANCE AtomicBus WITH
  Accesses <- {a \in (UNION Programs) \cup {ResetFetch} : Selected(a.addr).dev = "dram"},
  Rejected <- addr_misaligned,
  bytes <- pool, req <- IF bus.wait THEN core.req ELSE None,
  answer <- IF bus.owner = "dram" THEN bus.rdata ELSE None
\* mem_model.cpp:113, bus.cpp:13: whatever it waits, an access takes effect
\* once, in the cycle it is answered, on the bytes its size names; no other
\* cycle changes the memory.
Refines == Memory!Spec

\* clint_model.cpp:34: mtime counts every cycle of the bus from the last time
\* it was set, whoever owns the bus and however long it waits.
ClintKeepsTime ==
  /\ elapsed = clint.mtime * MtimeDiv + clint.prescaler
  /\ ~clint.suppress_tick

\* mem_model.cpp:118: no access waits longer than one cycle over the largest
\* wait the memory may draw.
AnswerInTime == \A w \in Waits : (\A v \in Waits : v <= w) => waited <= w + 1
=============================================================================

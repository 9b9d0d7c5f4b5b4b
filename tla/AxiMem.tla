------------------------------- MODULE AxiMem -------------------------------
(***************************************************************************)
(* The external memory of the simulated SoC, an AXI subordinate written in *)
(* C++ (axi_mem.cpp), and the manager of the SoC that uses it. The memory  *)
(* works at the falling edge of the clock, the manager at the rising one:  *)
(* one step of this module is a rising edge, at which the manager sees the *)
(* handshakes and changes its outputs, and the falling edge after it.      *)
(* The memory drives its pins before it processes what it sampled, so the  *)
(* bus shows its registers a cycle late.                                   *)
(***************************************************************************)
EXTENDS Integers

CONSTANTS
  MemorySize,     \* bytes of the memory; addresses wrap
  WordBytes,      \* bytes of a beat
  Writes, Reads,  \* bursts: [addr, size, id, len], addresses past the end too
  WriteData,      \* words to write
  Nothing

VARIABLES
  ext,            \* its memory: byte by address
  axi,            \* the registers of the memory
  bus,            \* what it drives
  aw, w, ar,      \* what the manager drives: a payload, or Nothing without valid
  ready,          \* [b, r]: the manager's ready signals
  wr, rd,         \* the manager's bursts: what is left of each, or Nothing
  shadow          \* the memory as the beats taken so far should have left it

axi_vars == <<ext, axi, bus, aw, w, ar, ready, wr, rd, shadow>>

Ids    == {b.id : b \in Writes \cup Reads}
Bursts == [addr : Nat, size : Nat, id : Ids, len : Nat]
Word   == [0 .. WordBytes - 1 -> Int]

\* What is asked of the constants: whole words, and a Nothing that is no payload.
MemoryConstants ==
  /\ WordBytes \in Nat \ {0} /\ MemorySize \in Nat \ {0} /\ MemorySize % WordBytes = 0
  /\ Writes \cup Reads \subseteq Bursts
  /\ \A b \in Writes \cup Reads : 2^b.size \in Nat
  /\ WriteData \subseteq Word
  /\ Nothing \notin Bursts
  /\ Nothing \notin [addr : Nat, size : Nat, id : Ids]
  /\ Nothing \notin [addr : Nat, size : Nat, id : Ids, left : Nat]
  /\ Nothing \notin [addr : Nat, size : Nat, id : Ids, left : Nat, beats : Nat,
                  seen : UNION {[1 .. b.len + 1 -> SUBSET Word] : b \in Reads}]
  /\ Nothing \notin [data : WriteData, last : BOOLEAN, strb : SUBSET (0 .. WordBytes - 1)]

ASSUME MemoryAssumption == MemoryConstants

AddrSpace == 2 * MemorySize     \* 2^32 in the code
Lanes     == 0 .. WordBytes - 1
BusFields == {"aw_ready", "w_ready", "b_valid", "b_id",
              "ar_ready", "r_valid", "r_data", "r_last", "r_id"}

Base(a) == (a % MemorySize) - (a % WordBytes)
read_word(m, a) == [i \in Lanes |-> m[Base(a) + i]]
write_word(m, a, data, strb) ==
  [b \in DOMAIN m |-> IF b - Base(a) \in strb THEN data[b - Base(a)] ELSE m[b]]
Bump(a, size) == (a + 2^size) % AddrSpace
drive(a) == [f \in BusFields |-> a[f]]

-----------------------------------------------------------------------------
(* AxiMem::process. The handshakes are those of the registers before it    *)
(* and of the outputs the manager has just set; the steps are in the order *)
(* of the code. p is the registers so far.                                 *)

TakeB(p) ==
  IF axi.b_valid /\ ready'.b
    THEN [p EXCEPT !.b_valid = FALSE, !.aw_ready = TRUE] ELSE p
\* Mutant: the beat is read before the address moves.
TakeR_Stale(p) ==
  IF ~(axi.r_valid /\ ready'.r) THEN p
  ELSE IF axi.r_last
    THEN [p EXCEPT !.r_valid = FALSE, !.r_last = FALSE, !.ar_ready = TRUE]
    ELSE [p EXCEPT !.read_address = Bump(@, axi.read_size), !.read_beats = @ - 1,
                   !.r_data = read_word(ext, axi.read_address),
                   !.r_last = axi.read_beats = 2]
TakeR(p) ==
  IF ~(axi.r_valid /\ ready'.r) THEN p
  ELSE IF axi.r_last
    THEN [p EXCEPT !.r_valid = FALSE, !.r_last = FALSE, !.ar_ready = TRUE]
    ELSE LET next == Bump(axi.read_address, axi.read_size)
         IN [p EXCEPT !.read_address = next, !.read_beats = @ - 1,
                      !.r_data = read_word(ext, next),
                      !.r_last = axi.read_beats = 2]

WTaken == axi.w_ready /\ w' # Nothing
\* Mutant: the strobes are ignored.
memory_Next_AllLanes ==
  IF WTaken THEN write_word(ext, axi.write_address, w'.data, Lanes) ELSE ext
memory_Next ==
  IF WTaken THEN write_word(ext, axi.write_address, w'.data, w'.strb) ELSE ext
TakeW(p) ==
  IF ~WTaken THEN p
  ELSE [p EXCEPT !.write_address = Bump(@, axi.write_size),
                 !.w_ready = ~w'.last, !.b_valid = @ \/ w'.last]

TakeAw(p) ==
  IF ~(axi.aw_ready /\ aw' # Nothing) THEN p
  ELSE [p EXCEPT !.write_address = aw'.addr, !.write_size = aw'.size,
                 !.b_id = aw'.id, !.aw_ready = FALSE, !.w_ready = TRUE]

TakeAr(p) ==
  IF ~(axi.ar_ready /\ ar' # Nothing) THEN p
  ELSE [p EXCEPT !.read_address = ar'.addr, !.read_size = ar'.size,
                 !.read_beats = ar'.len + 1, !.r_id = ar'.id,
                 !.r_data = read_word(ext', ar'.addr),
                 !.r_last = ar'.len = 0, !.r_valid = TRUE, !.ar_ready = FALSE]

\* AxiMem::update at a falling edge: capture, drive, process.
update ==
  /\ bus' = drive(axi)
  /\ ext' = memory_Next
  /\ axi' = TakeAr(TakeAw(TakeW(TakeR(TakeB(axi)))))

-----------------------------------------------------------------------------
(* The manager: one write and one read burst at a time, in any order and   *)
(* with any stalls; valid is held, with its payload, until ready. What its *)
(* ready is without a valid to answer makes no difference.                 *)

HostTook(channel, can) == channel # Nothing /\ can
BTook == bus.b_valid /\ ready.b
RTook == bus.r_valid /\ ready.r
Start(b) == [addr |-> b.addr, size |-> b.size, id |-> b.id, left |-> b.len + 1]

HostAw ==
  LET idle == wr = Nothing \/ BTook
  IN \/ /\ idle /\ wr' = Nothing /\ aw' = Nothing
     \/ /\ idle
        /\ \E b \in Writes :
             /\ wr' = Start(b)
             /\ aw' = [addr |-> b.addr, size |-> b.size, id |-> b.id]
     \/ /\ ~idle
        /\ aw' = IF HostTook(aw, bus.aw_ready) THEN Nothing ELSE aw
        /\ wr' = IF HostTook(w, bus.w_ready)
                   THEN [wr EXCEPT !.left = @ - 1, !.addr = Bump(@, wr.size)] ELSE wr

\* A beat strobes the lanes of its size.
Beat(b) ==
  [data : WriteData, last : {b.left = 1},
   strb : {IF b.size = 0 THEN {b.addr % WordBytes} ELSE Lanes}]
HostW ==
  IF w # Nothing /\ ~bus.w_ready THEN w' = w
  ELSE \/ w' = Nothing
       \/ wr' # Nothing /\ wr'.left > 0 /\ w' \in Beat(wr')

Seen(b, m) == [k \in 1 .. b.len + 1 |->
                 {read_word(m, b.addr + (k - 1) * 2^b.size)}]
HostAr ==
  LET idle == rd = Nothing \/ (RTook /\ rd.left = 1)
  IN \/ /\ idle /\ rd' = Nothing /\ ar' = Nothing
     \/ /\ idle
        /\ \E b \in Reads :
             /\ ar' = b
             /\ rd' = [addr |-> b.addr, size |-> b.size, id |-> b.id,
                       left |-> b.len + 1, beats |-> b.len + 1,
                       seen |-> Seen(b, memory_Next)]
     \/ /\ ~idle
        /\ ar' = IF HostTook(ar, bus.ar_ready) THEN Nothing ELSE ar
        /\ rd' = LET moved == [k \in DOMAIN rd.seen |->
                     rd.seen[k] \cup
                       {read_word(memory_Next, rd.addr + (k - 1) * 2^rd.size)}]
                 IN [rd EXCEPT !.left = IF RTook THEN @ - 1 ELSE @, !.seen = moved]

HostShadow ==
  shadow' = IF HostTook(w, bus.w_ready)
              THEN write_word(shadow, wr.addr, w.data, w.strb) ELSE shadow

-----------------------------------------------------------------------------
Reset ==
  /\ ext = [a \in 0 .. MemorySize - 1 |-> 0] /\ shadow = ext
  /\ axi = [aw_ready |-> TRUE, w_ready |-> FALSE, b_valid |-> FALSE, b_id |-> FALSE,
            ar_ready |-> TRUE, r_valid |-> FALSE, r_last |-> FALSE, r_id |-> FALSE,
            r_data |-> [i \in Lanes |-> 0], write_address |-> 0, write_size |-> 0,
            read_address |-> 0, read_size |-> 0, read_beats |-> 0]
  /\ bus = drive(axi)
  /\ aw = Nothing /\ w = Nothing /\ ar = Nothing /\ wr = Nothing /\ rd = Nothing
AxiInit == Reset /\ ready = [b |-> TRUE, r |-> TRUE]

Cycle ==
  /\ HostAw /\ HostW /\ HostAr
  /\ ready' \in [b : IF axi.b_valid THEN BOOLEAN ELSE {TRUE},
                r : IF axi.r_valid THEN BOOLEAN ELSE {TRUE}]
  /\ update /\ HostShadow

SafeSpec == AxiInit /\ [][Cycle]_axi_vars

\* A manager does not stop in the middle of a burst: it sends its beats and
\* takes its answers.
HostGoesOn ==
  /\ []<>(ready.b) /\ []<>(ready.r)
  /\ []<>(wr = Nothing \/ wr.left = 0 \/ w # Nothing)

-----------------------------------------------------------------------------
\* A beat of a read has a value its word has held since the read was asked for
\* and the identifier of the burst, and is the last when no other is to come.
ReadIsFresh ==
  bus.r_valid =>
    /\ rd # Nothing
    /\ bus.r_data \in rd.seen[rd.beats - rd.left + 1]
    /\ bus.r_id = rd.id /\ bus.r_last = (rd.left = 1)

\* When a write is answered, with its identifier, all its beats are in memory:
\* the memory is what the beats, in the order they were taken, leave.
WriteIsDone ==
  bus.b_valid =>
    /\ wr # Nothing /\ wr.left = 0 /\ aw = Nothing
    /\ bus.b_id = wr.id /\ ext = shadow

\* Every burst ends: again and again its manager has none, or takes the end of it.
BurstsEnd == []<>(wr = Nothing \/ BTook) /\ []<>(rd = Nothing \/ (RTook /\ rd.left = 1))
=============================================================================

---------------------------- MODULE CoreBenchProofs ----------------------------
(***************************************************************************)
(* Proofs about the bare core's bench, for any address map, programs,      *)
(* waits and divider: the memory behind the router is an atomic one, the   *)
(* timer keeps time, and no access waits longer than the draw.             *)
(***************************************************************************)
EXTENDS CoreBench, TLAPS

Masters == (UNION Programs) \cup {ResetFetch}
DramAccesses == {a \in Masters : Selected(a.addr).dev = "dram"}

-----------------------------------------------------------------------------
(* Lanes. A word is written back whole; what changes in it is what the     *)
(* access names, because an aligned access lies within one word.           *)

LaneOf(addr, size, b) ==
  LET base == addr - (addr % 4)
  IN /\ b \in addr .. addr + size - 1 => b \in base .. base + 3
     /\ b \in base .. base + 3 => b - base = b % 4
     /\ b \in base .. base + 3 => b % 4 \in 0 .. 3
     /\ b \in base .. base + 3 =>
          ((\E x \in addr .. addr + size - 1 : x % 4 = b % 4) <=> b \in addr .. addr + size - 1)

LEMMA LanesAreBytes ==
  ASSUME NEW addr \in Nat, NEW size \in {1, 2, 4}, addr % size = 0, NEW b \in Int
  PROVE  LaneOf(addr, size, b)
<1>1. CASE size = 1
  BY <1>1 DEF LaneOf
<1>2. CASE size = 2
  BY <1>2 DEF LaneOf
<1>3. CASE size = 4
  BY <1>3 DEF LaneOf
<1> QED
  BY <1>1, <1>2, <1>3

\* mem_model.cpp:49: the word that is written back differs in the bytes of the
\* access, and the bytes are its data by lane.
LEMMA WriteIsExact ==
  ASSUME NEW a \in Masters, ~addr_misaligned(a), DOMAIN pool \subseteq Int
  PROVE  write(a) = [b \in DOMAIN pool |-> IF b \in a.addr .. a.addr + a.size - 1
                                           THEN a.data[1 + (b % Lanes)] ELSE pool[b]]
<1> DEFINE base == a.addr - (a.addr % Lanes)
           w == [l \in 1 .. Lanes |-> IF l \in lane_mask(a) THEN a.data[l]
                                      ELSE read_word_aligned(a.addr)[l]]
           named == a.addr .. a.addr + a.size - 1
<1>1. a.addr \in Nat /\ a.size \in {1, 2, 4} /\ a.addr % a.size = 0
  BY BenchAssumption DEF Masters, addr_misaligned
<1>2. ASSUME NEW b \in Int
      PROVE  /\ b \in named => b \in base .. base + 3
             /\ b \in base .. base + 3 => b - base = b % 4
             /\ b \in base .. base + 3 => b % 4 \in 0 .. 3
             /\ b \in base .. base + 3 => ((\E x \in named : x % 4 = b % 4) <=> b \in named)
  <2>1. LaneOf(a.addr, a.size, b)
    BY <1>1, LanesAreBytes
  <2> QED
    BY <2>1, Zenon DEF LaneOf, Lanes
<1>3. base \in Int
  BY <1>1 DEF Lanes
<1>4. ASSUME NEW n \in 0 .. 3
      PROVE  1 + n \in lane_mask(a) <=> \E x \in named : x % 4 = n
  BY <1>1 DEF lane_mask, Lanes
<1>5. ASSUME NEW n \in 0 .. 3
      PROVE  read_word_aligned(a.addr)[1 + n] = pool[base + n]
  <2>1. base + (1 + n) - 1 = base + n /\ 1 + n \in 1 .. Lanes
    BY <1>3 DEF Lanes
  <2> QED
    BY <2>1 DEF read_word_aligned
<1>6. ASSUME NEW n \in 0 .. 3
      PROVE  w[1 + n] = IF 1 + n \in lane_mask(a) THEN a.data[1 + n]
                        ELSE read_word_aligned(a.addr)[1 + n]
  BY DEF Lanes
<1> HIDE DEF base, w, named
<1>7. ASSUME NEW b \in DOMAIN pool
      PROVE  (IF b \in base .. base + Lanes - 1 THEN w[b - base + 1] ELSE pool[b])
             = IF b \in named THEN a.data[1 + (b % Lanes)] ELSE pool[b]
  <2>0. b \in Int
    BY <1>7
  <2>1. CASE b \in base .. base + 3
    <3>1. b - base + 1 = 1 + (b % 4) /\ b % 4 \in 0 .. 3 /\ base + (b % 4) = b
      BY <2>0, <2>1, <1>2, <1>3
    <3>2. 1 + (b % 4) \in lane_mask(a) <=> b \in named
      BY <2>0, <2>1, <3>1, <1>2, <1>4
    <3>3. w[1 + (b % 4)] = IF b \in named THEN a.data[1 + (b % 4)] ELSE pool[b]
      BY <3>1, <3>2, <1>5, <1>6
    <3> QED
      BY <2>1, <3>1, <3>3 DEF Lanes
  <2>2. CASE b \notin base .. base + 3
    BY <2>0, <2>2, <1>2, <1>3 DEF Lanes
  <2> QED
    BY <2>1, <2>2
<1> QED
  BY <1>7 DEF write, base, w, named

-----------------------------------------------------------------------------
(* The bus. A transfer in flight is the access the core holds.             *)

IsRecords ==
  /\ DOMAIN mem = {"in_flight", "current_wait", "wait"}
  /\ DOMAIN core = {"req", "halted", "program"}
  /\ DOMAIN pool \subseteq Int /\ core.program \in Programs

BusHeld ==
  /\ bus.wait \in BOOLEAN
  /\ bus.wait <=> mem.in_flight # None
  /\ bus.wait => /\ bus.owner = "dram" /\ bus.rdata = None
                 /\ core.req = mem.in_flight /\ core.req \in DramAccesses
                 /\ ~addr_misaligned(core.req)

\* The cycles an access has waited and those it has still to wait are its draw.
DrawKept ==
  /\ bus.wait => /\ mem.current_wait \in Nat /\ waited \in Nat
                 /\ \E w \in Waits : waited + mem.current_wait = w + 1
  /\ ~bus.wait => waited = 0

BInv == IsRecords /\ BusHeld /\ DrawKept

LEMMA InitBInv == Init => BInv
<1> SUFFICES ASSUME Init PROVE BInv
  OBVIOUS
<1>1. IsRecords
  <2>1. DOMAIN pool \subseteq Int
    BY DEF Init
  <2> QED
    BY <2>1 DEF Init, Settled, IsRecords
<1> QED
  BY <1>1 DEF Init, BInv, BusHeld, DrawKept, Settled

\* What one cycle of the router does with the access a the master drives.
LEMMA CycleKeepsBus ==
  ASSUME BInv, NEW a \in Masters \cup {Idle}, Hold(a), BusCycle(a),
         DOMAIN core' = DOMAIN core, core'.program = core.program,
         core'.req = IF bus'.wait THEN a ELSE None
  PROVE  BInv' /\ [Memory!Next]_<<pool, IF bus.wait THEN core.req ELSE None,
                                  IF bus.owner = "dram" THEN bus.rdata ELSE None>>
<1> DEFINE dev == owner(a).dev
           offset == a.addr - owner(a).base
<1> USE DEF BInv
<1>1. MemCycle(a, dev = "dram", DeviceAnswer(a, dev, offset))
      /\ waited' = IF bus'.wait THEN waited + 1 ELSE 0
  BY DEF BusCycle
<1>2. bus.wait => a = core.req /\ a \in DramAccesses /\ a # None
  BY BenchAssumption DEF Hold, BusHeld, DramAccesses, Masters
<1>3. ~bus.wait /\ a.op # "idle" /\ dev = "dram" => a \in DramAccesses
  BY DEF owner, DramAccesses, Idle
<1>4. a \in DramAccesses => a.op \in {"read", "write"} /\ a # None
  BY BenchAssumption DEF DramAccesses, Masters
<1>10. CASE /\ mem.in_flight # None /\ mem.current_wait # 0
            /\ mem' = [mem EXCEPT !.current_wait = @ - 1]
            /\ bus' = Waiting
            /\ UNCHANGED pool
  <2>1. /\ mem'.in_flight = mem.in_flight /\ mem'.current_wait = mem.current_wait - 1
        /\ DOMAIN mem' = DOMAIN mem
    BY <1>10 DEF IsRecords
  <2>2. bus.wait /\ bus'.wait /\ bus'.owner = "dram" /\ bus'.rdata = None
    BY <1>10 DEF Waiting, BusHeld
  <2>3. BInv'
    BY <1>1, <1>2, <1>10, <2>1, <2>2 DEF IsRecords, BusHeld, DrawKept
  <2> QED
    BY <1>2, <1>10, <2>2, <2>3 DEF BusHeld
<1>11. CASE /\ mem.in_flight # None /\ mem.current_wait = 0
            /\ Perform(mem.in_flight) /\ bus' = Answer(mem.in_flight, FALSE)
  <2>1. bus.wait /\ a = mem.in_flight /\ a \in DramAccesses /\ ~addr_misaligned(a)
    BY <1>2, <1>11 DEF BusHeld
  <2>2. Perform(a) /\ bus' = Answer(a, FALSE)
    BY <1>11, <2>1
  <2>3. a \in Masters /\ a.op \in {"read", "write"}
    BY <2>1, <1>4 DEF DramAccesses
  <2>4. BInv' /\ (Memory!Read(a) \/ Memory!Write(a))
    BY <1>1, <2>1, <2>2, <2>3, WriteIsExact
       DEF Perform, Answer, Settled, IsRecords, BusHeld, DrawKept, write,
           Memory!Read, Memory!Write, Memory!AlignedWord, read_word_aligned
  <2> QED
    BY <1>2, <2>1, <2>4 DEF Memory!Next, Memory!Cycle, DramAccesses, Masters
<1>12. CASE mem.in_flight = None /\ dev = "dram" /\ a.op # "idle"
  <2>1. ~bus.wait /\ a \in DramAccesses /\ waited = 0 /\ core'.req = (IF bus'.wait THEN a ELSE None)
    BY <1>3, <1>12 DEF BusHeld, DrawKept
  <2>2. a \in Masters /\ a.op \in {"read", "write"} /\ a # None
    BY <2>1, <1>4 DEF DramAccesses
  <2>3. CASE addr_misaligned(a) /\ bus' = Answer(a, TRUE) /\ UNCHANGED <<mem, pool>>
    <3>1. BInv' /\ Memory!Reject(a)
      BY <1>1, <1>12, <2>1, <2>3
         DEF Answer, IsRecords, BusHeld, DrawKept, Memory!Reject
    <3> QED
      BY <2>1, <3>1 DEF Memory!Next, Memory!Cycle, DramAccesses, Masters
  <2>4. CASE ~addr_misaligned(a) /\ Perform(a) /\ bus' = Answer(a, FALSE)
    <3>1. BInv' /\ (Memory!Read(a) \/ Memory!Write(a))
      BY <1>1, <2>1, <2>2, <2>4, WriteIsExact
         DEF Perform, Answer, Settled, IsRecords, BusHeld, DrawKept, write,
             Memory!Read, Memory!Write, Memory!AlignedWord, read_word_aligned
    <3> QED
      BY <2>1, <3>1 DEF Memory!Next, Memory!Cycle, DramAccesses, Masters
  <2>5. ASSUME ~addr_misaligned(a), NEW w \in Waits, w # 0,
               Issue(a, w), bus' = Waiting, UNCHANGED pool
        PROVE  BInv' /\ [Memory!Next]_<<pool, IF bus.wait THEN core.req ELSE None,
                                  IF bus.owner = "dram" THEN bus.rdata ELSE None>>
    <3>1. w \in Nat
      BY BenchAssumption
    <3>2. BInv' /\ Memory!Wait(a)
      BY <1>1, <2>1, <2>2, <2>5, <3>1
         DEF Issue, Waiting, IsRecords, BusHeld, DrawKept, Memory!Wait
    <3> QED
      BY <2>1, <3>2 DEF Memory!Next, Memory!Cycle, DramAccesses, Masters
  <2> QED
    BY <1>1, <1>12, <2>3, <2>4, <2>5 DEF MemCycle
<1>13. CASE mem.in_flight = None /\ ~(dev = "dram" /\ a.op # "idle")
  <2>1. ~bus.wait /\ waited = 0 /\ bus' = DeviceAnswer(a, dev, offset) /\ UNCHANGED <<mem, pool>>
    BY <1>1, <1>13 DEF MemCycle, BusHeld, DrawKept
  <2>2. ~bus'.wait /\ (bus'.owner = "dram" => bus'.rdata = None)
    BY <1>13, <2>1 DEF DeviceAnswer
  <2>3. bus'.wait \in BOOLEAN
    BY <2>1 DEF DeviceAnswer
  <2>4. BInv'
    BY <1>1, <1>13, <2>1, <2>2, <2>3 DEF IsRecords, BusHeld, DrawKept
  <2> QED
    BY <2>1, <2>2, <2>4 DEF Memory!Next, Memory!Quiet
<1> QED
  BY <1>1, <1>10, <1>11, <1>12, <1>13 DEF MemCycle

LEMMA StepKeepsBus ==
  ASSUME BInv, [Next]_vars
  PROVE  BInv' /\ [Memory!Next]_<<pool, IF bus.wait THEN core.req ELSE None,
                                  IF bus.owner = "dram" THEN bus.rdata ELSE None>>
<1>1. CASE ResetCycle
  <2>1. PICK a \in {Idle, ResetFetch} :
          Hold(a) /\ BusCycle(a) /\ core' = [core EXCEPT !.req = IF bus'.wait THEN a ELSE None]
    BY <1>1 DEF ResetCycle
  <2>2. /\ DOMAIN core' = DOMAIN core /\ core'.program = core.program
        /\ core'.req = (IF bus'.wait THEN a ELSE None)
    BY <2>1 DEF BInv, IsRecords
  <2> QED
    BY <2>1, <2>2, CycleKeepsBus DEF Masters
<1>2. CASE RunCycle
  <2>1. PICK a \in core.program \cup {Idle} :
          /\ Hold(a) /\ BusCycle(a)
          /\ \E h \in BOOLEAN :
               core' = [core EXCEPT !.req = IF bus'.wait THEN a ELSE None, !.halted = h]
    BY <1>2 DEF RunCycle
  <2>2. /\ DOMAIN core' = DOMAIN core /\ core'.program = core.program
        /\ core'.req = (IF bus'.wait THEN a ELSE None)
    BY <2>1 DEF BInv, IsRecords
  <2>3. a \in Masters \cup {Idle}
    BY DEF BInv, IsRecords, Masters
  <2> QED
    BY <2>1, <2>2, <2>3, CycleKeepsBus
<1>3. CASE ReleaseReset \/ Finish \/ UNCHANGED vars
  BY <1>3 DEF ReleaseReset, Finish, vars, BInv, IsRecords, BusHeld, DrawKept
<1> QED
  BY <1>1, <1>2, <1>3 DEF Next

THEOREM BusInvariance == SafeSpec => []BInv
<1>1. BInv /\ [Next]_vars => BInv'
  BY StepKeepsBus
<1> QED
  BY InitBInv, <1>1, PTL DEF SafeSpec

\* mem_model.cpp:118: no access waits longer than one cycle over the largest
\* wait, whatever the other devices and the core do meanwhile.
THEOREM WaitsAreBounded == SafeSpec => []AnswerInTime
<1>1. BInv => AnswerInTime
  <2> SUFFICES ASSUME BInv, NEW w \in Waits, \A v \in Waits : v <= w PROVE waited <= w + 1
    BY DEF AnswerInTime
  <2>1. w \in Nat
    BY BenchAssumption
  <2>2. CASE bus.wait
    <3>1. PICK v \in Waits : waited + mem.current_wait = v + 1
      BY <2>2 DEF BInv, DrawKept
    <3>2. v \in Nat /\ v <= w /\ waited \in Nat /\ mem.current_wait \in Nat
      BY <2>2, BenchAssumption DEF BInv, DrawKept
    <3> QED
      BY <2>1, <3>1, <3>2
  <2>3. CASE ~bus.wait
    BY <2>1, <2>3 DEF BInv, DrawKept
  <2> QED
    BY <2>2, <2>3
<1> QED
  BY BusInvariance, <1>1, PTL

\* mem_model.cpp:113, bus.cpp:13: the memory behind the router implements the
\* atomic one: an access takes effect once, in the cycle it is answered.
THEOREM MemoryIsAtomic == SafeSpec => Refines
<1>1. Init => Memory!Init
  BY DEF Init, Memory!Init
<1>2. BInv /\ [Next]_vars =>
        [Memory!Next]_<<pool, IF bus.wait THEN core.req ELSE None,
                        IF bus.owner = "dram" THEN bus.rdata ELSE None>>
  BY StepKeepsBus
<1> QED
  BY <1>1, <1>2, BusInvariance, PTL DEF SafeSpec, Refines, Memory!Spec

-----------------------------------------------------------------------------
(* The timer. The prescaler counts the cycles of a tick, so the time that  *)
(* has passed is what the two count together.                              *)

TimeKept ==
  /\ DOMAIN clint = {"mtime", "mtimecmp", "msip", "suppress_tick", "prescaler"}
  /\ clint.mtime \in 0 .. Modulus - 1 /\ clint.prescaler \in 0 .. MtimeDiv - 1
  /\ ClintKeepsTime

\* A half of a register replaced leaves it a register.
LEMMA HalvesFit ==
  ASSUME NEW v \in 0 .. Modulus - 1, NEW h \in 0 .. Half - 1
  PROVE  Low(v, h) \in 0 .. Modulus - 1 /\ High(v, h) \in 0 .. Modulus - 1
<1> DEFINE q == v \div Half
           r == v % Half
<1>1. Half \in Nat \ {0} /\ v \in Nat /\ h \in Nat
  BY BenchAssumption DEF Modulus
<1>2. r \in 0 .. Half - 1 /\ q \in Nat /\ v = q * Half + r
  BY <1>1, SMTT(30)
<1> HIDE DEF q, r
<1>3. q <= Half - 1
  <2>1. q >= Half => q * Half >= Half * Half
    BY <1>1, <1>2, SMTT(30)
  <2> QED
    BY <1>1, <1>2, <2>1, SMTT(30) DEF Modulus
<1>4. \A n \in 0 .. Half - 1, m \in 0 .. Half - 1 : n * Half + m \in 0 .. Modulus - 1
  <2> TAKE n \in 0 .. Half - 1, m \in 0 .. Half - 1
  <2>1. n * Half <= (Half - 1) * Half
    BY <1>1, SMTT(30)
  <2>2. n * Half >= 0 /\ n * Half \in Int
    BY <1>1, SMTT(30)
  <2>3. (Half - 1) * Half = Half * Half - Half
    BY <1>1, SMTT(30)
  <2> QED
    BY <1>1, <2>1, <2>2, <2>3, SMTT(30) DEF Modulus
<1>5. Low(v, h) = q * Half + h
  <2>1. q * Half \in Int /\ v - r = q * Half
    BY <1>1, <1>2, SMTT(30)
  <2>2. Low(v, h) = v - r + h
    BY DEF Low, r
  <2> QED
    BY <2>1, <2>2
<1>6. High(v, h) = h * Half + r
  BY <1>1, <1>2 DEF High, r
<1> QED
  BY <1>2, <1>3, <1>4, <1>5, <1>6

\* One tick is one cycle, modulo the size of the counter.
LEMMA TickCounts ==
  ASSUME TimeKept
  PROVE  LET c == tick(clint)
         IN /\ c.mtime \in 0 .. Modulus - 1 /\ c.prescaler \in 0 .. MtimeDiv - 1
            /\ (elapsed + 1) % (MtimeDiv * Modulus) = c.mtime * MtimeDiv + c.prescaler
<1> DEFINE t == clint.mtime
           p == clint.prescaler
           M == Modulus
           D == MtimeDiv
<1>1. D \in Nat \ {0} /\ M \in Nat \ {0}
  <2>1. Half * Half \in Nat \ {0}
    BY BenchAssumption, SMTT(30)
  <2> QED
    BY <2>1, BenchAssumption DEF Modulus
<1>2. t \in 0 .. M - 1 /\ p \in 0 .. D - 1 /\ elapsed = t * D + p
  BY DEF TimeKept, ClintKeepsTime
<1>3. CASE p + 1 # D
  <2>1. tick(clint) = [clint EXCEPT !.prescaler = p + 1]
    BY <1>3 DEF tick, TimeKept, ClintKeepsTime
  <2>2. tick(clint).mtime = t /\ tick(clint).prescaler = p + 1
    BY <2>1 DEF TimeKept
  <2>3. elapsed + 1 \in 0 .. D * M - 1
    <3> HIDE DEF t, p, M, D
    <3>1. (t + 1) * D <= M * D /\ (t + 1) * D = t * D + D /\ M * D = D * M
      BY <1>1, <1>2, SMTT(30)
    <3>2. t * D \in Nat
      BY <1>1, <1>2, SMTT(30)
    <3> QED
      BY <1>1, <1>2, <1>3, <3>1, <3>2, SMTT(30)
  <2>4. (elapsed + 1) % (D * M) = elapsed + 1
    <3> HIDE DEF t, p, M, D
    <3>1. D * M \in Nat \ {0}
      BY <1>1, SMTT(30)
    <3> QED
      BY <2>3, <3>1, SMTT(30)
  <2>5. t * D \in Int
    BY <1>1, <1>2, SMTT(30)
  <2> QED
    BY <1>1, <1>2, <1>3, <2>2, <2>4, <2>5
<1>4. CASE p + 1 = D
  <2>1. tick(clint) = [clint EXCEPT !.prescaler = 0, !.mtime = (t + 1) % M]
    BY <1>4 DEF tick, TimeKept, ClintKeepsTime
  <2>2. tick(clint).mtime = (t + 1) % M /\ tick(clint).prescaler = 0
    BY <2>1 DEF TimeKept
  <2>3. elapsed + 1 = (t + 1) * D
    <3> HIDE DEF t, p, M, D
    <3> QED
      BY <1>1, <1>2, <1>4, SMTT(30)
  <2>4. ((t + 1) * D) % (D * M) = ((t + 1) % M) * D /\ (t + 1) % M \in 0 .. M - 1
    <3> HIDE DEF t, p, M, D
    <3>1. CASE t + 1 = M
      <4>1. (t + 1) * D = D * M /\ D * M \in Nat \ {0} /\ (t + 1) % M = 0
        BY <1>1, <1>2, <3>1, SMTT(30)
      <4> QED
        BY <1>1, <4>1, SMTT(30)
    <3>2. CASE t + 1 # M
      <4>1. (t + 1) % M = t + 1
        BY <1>1, <1>2, <3>2
      <4>2. (t + 1) * D \in Nat /\ (t + 1) * D < D * M /\ D * M \in Nat \ {0}
        <5>1. (t + 1) * D <= (M - 1) * D /\ (M - 1) * D = D * M - D
          BY <1>1, <1>2, <3>2, SMTT(30)
        <5>2. (t + 1) * D \in Nat /\ D * M \in Nat \ {0}
          BY <1>1, <1>2, SMTT(30)
        <5> QED
          BY <1>1, <5>1, <5>2
      <4>3. ((t + 1) * D) % (D * M) = (t + 1) * D
        BY <4>2, SMTT(30)
      <4> QED
        BY <1>1, <1>2, <3>2, <4>1, <4>3
    <3> QED
      BY <3>1, <3>2
  <2>5. ((t + 1) % M) * D \in Int
    BY <1>1, <2>4, SMTT(30)
  <2> QED
    BY <1>1, <2>2, <2>3, <2>4, <2>5
<1> QED
  BY <1>3, <1>4

\* A write of the timer sets the count it names and skips the cycle's tick.
LEMMA CycleKeepsTime ==
  ASSUME TimeKept, BInv, NEW a \in Masters \cup {Idle}, BusCycle(a)
  PROVE  TimeKept'
<1> DEFINE dev == owner(a).dev
           offset == a.addr - owner(a).base
           writes == dev = "clint" /\ a.op = "write"
           c == ClintWrite(clint, offset, a.data[1])
<1>1. /\ clint' = tick(IF writes THEN c ELSE clint)
      /\ elapsed' = IF writes /\ offset \in {MTIME_LO, MTIME_HI} THEN clint'.mtime * MtimeDiv
                    ELSE (elapsed + 1) % (MtimeDiv * Modulus)
  BY DEF BusCycle
<1>2. writes => a.data[1] \in 0 .. Half - 1
  BY BenchAssumption DEF owner, Masters, Idle, BInv, BusHeld
<1>3. CASE writes /\ offset \in {MTIME_LO, MTIME_HI}
  <2>1. PICK v \in 0 .. Modulus - 1 : c = SetMtime(clint, v)
    <3>1. CASE offset = MTIME_LO
      BY <1>2, <1>3, <3>1, HalvesFit
         DEF ClintWrite, TimeKept, MSIP, MTIMECMP_LO, MTIMECMP_HI, MTIME_LO, MTIME_HI
    <3>2. CASE offset = MTIME_HI
      BY <1>2, <1>3, <3>2, HalvesFit
         DEF ClintWrite, TimeKept, MSIP, MTIMECMP_LO, MTIMECMP_HI, MTIME_LO, MTIME_HI
    <3> QED
      BY <1>3, <3>1, <3>2
  <2>2. clint' = [SetMtime(clint, v) EXCEPT !.suppress_tick = FALSE]
    BY <1>1, <1>3, <2>1 DEF tick, SetMtime, TimeKept
  <2>3. /\ DOMAIN clint' = DOMAIN clint /\ clint'.mtime = v
        /\ clint'.prescaler = 0 /\ clint'.suppress_tick = FALSE
    BY <2>2 DEF SetMtime, TimeKept
  <2>4. elapsed' = v * MtimeDiv
    BY <1>1, <1>3, <2>3
  <2>5. v * MtimeDiv \in Int
    BY BenchAssumption, SMTT(30) DEF Modulus
  <2> QED
    BY <2>3, <2>4, <2>5, BenchAssumption DEF TimeKept, ClintKeepsTime
<1>4. CASE ~(writes /\ offset \in {MTIME_LO, MTIME_HI})
  <2> DEFINE e == IF writes THEN c ELSE clint
  <2>1. /\ DOMAIN e = DOMAIN clint /\ e.mtime = clint.mtime /\ e.prescaler = clint.prescaler
        /\ e.suppress_tick = clint.suppress_tick
    BY <1>4 DEF ClintWrite, TimeKept, MTIME_LO, MTIME_HI
  <2>2. /\ DOMAIN tick(e) = DOMAIN clint /\ tick(e).mtime = tick(clint).mtime
        /\ tick(e).prescaler = tick(clint).prescaler /\ tick(e).suppress_tick = FALSE
    <3> HIDE DEF e
    <3>1. clint.suppress_tick = FALSE
      BY DEF TimeKept, ClintKeepsTime
    <3> QED
      BY <2>1, <3>1 DEF tick, TimeKept
  <2>3. elapsed' = tick(clint).mtime * MtimeDiv + tick(clint).prescaler
    BY <1>1, <1>4, TickCounts
  <2>4. clint' = tick(e)
    BY <1>1
  <2> HIDE DEF e
  <2> QED
    BY <2>2, <2>3, <2>4, TickCounts DEF TimeKept, ClintKeepsTime
<1> QED
  BY <1>3, <1>4

\* clint_model.cpp:34: mtime counts every cycle since it was set, whoever owns
\* the bus, however long it waits, and whatever half of it is written when.
THEOREM TimerKeepsTime == SafeSpec => []ClintKeepsTime
<1>1. Init => TimeKept
  <2>1. Modulus \in Nat \ {0}
    BY BenchAssumption, SMTT(30) DEF Modulus
  <2> QED
    BY <2>1, BenchAssumption DEF Init, TimeKept, ClintReset, ClintKeepsTime
<1>2. BInv /\ TimeKept /\ [Next]_vars => TimeKept'
  <2> SUFFICES ASSUME BInv, TimeKept, [Next]_vars PROVE TimeKept'
    OBVIOUS
  <2>1. CASE ResetCycle
    BY <2>1, CycleKeepsTime DEF ResetCycle, Masters
  <2>2. CASE RunCycle
    BY <2>2, CycleKeepsTime DEF RunCycle, Masters, BInv, IsRecords
  <2>3. CASE ReleaseReset
    <3>1. Modulus \in Nat \ {0}
      BY BenchAssumption, SMTT(30) DEF Modulus
    <3> QED
      BY <2>3, <3>1, BenchAssumption DEF ReleaseReset, TimeKept, ClintReset, ClintKeepsTime
  <2>4. CASE Finish \/ UNCHANGED vars
    BY <2>4 DEF Finish, vars, TimeKept, ClintKeepsTime
  <2> QED
    BY <2>1, <2>2, <2>3, <2>4 DEF Next
<1>3. TimeKept => ClintKeepsTime
  BY DEF TimeKept
<1> QED
  BY <1>1, <1>2, <1>3, BusInvariance, PTL DEF SafeSpec
=============================================================================

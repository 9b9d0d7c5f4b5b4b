----------------------------- MODULE DeviceProofs -----------------------------
(***************************************************************************)
(* Proofs about the devices that the clock loop of the simulation steps.   *)
(* The external memory: a read is fresh, a write is done when it is        *)
(* answered, for any size of memory and word, any bursts and any stalls of *)
(* the manager.  The flash: every byte read is the one at its place, for   *)
(* any contents, addresses and transactions cut short.  The serial line:   *)
(* what arrives is what was sent, for any width of byte, any text and any  *)
(* two bits by which each end looks for a stop bit within it.              *)
(***************************************************************************)
EXTENDS AxiMem, QspiFlash, UartLine, TLAPS

Registers ==
  [aw_ready : BOOLEAN, w_ready : BOOLEAN, b_valid : BOOLEAN, b_id : Ids \cup {FALSE},
   ar_ready : BOOLEAN, r_valid : BOOLEAN, r_last : BOOLEAN, r_id : Ids \cup {FALSE},
   r_data : Word, write_address : Nat, write_size : Nat,
   read_address : Nat, read_size : Nat, read_beats : Int]

AddressPhases == [addr : Nat, size : Nat, id : Ids]
WriteBursts   == [addr : Nat, size : Nat, id : Ids, left : Nat]
ReadBursts    == [addr : Nat, size : Nat, id : Ids, left : Nat, beats : Nat,
                  seen : UNION {[1 .. b.len + 1 -> SUBSET Word] : b \in Reads}]
Beats         == [data : WriteData, last : BOOLEAN, strb : SUBSET Lanes]

TypeOK ==
  /\ ext \in [0 .. MemorySize - 1 -> Int]
  /\ axi \in Registers
  /\ ready \in [b : BOOLEAN, r : BOOLEAN]
  /\ aw \in AddressPhases \cup {Nothing}
  /\ ar \in Bursts \cup {Nothing}
  /\ w \in Beats \cup {Nothing}
  /\ wr # Nothing => wr \in WriteBursts /\ 2^wr.size \in Nat
  /\ rd # Nothing => rd \in ReadBursts /\ 2^rd.size \in Nat

-----------------------------------------------------------------------------
(* The memory is a beat ahead of what its pins have shown: it has taken a  *)
(* beat as soon as the manager makes the handshake complete, while the     *)
(* manager counts it at the next edge.                                     *)

BeatAddress(k) == rd.addr + (k - 1) * 2^rd.size

\* The registers hold beat k of the read.
At(k) ==
  /\ axi.r_valid /\ ~axi.ar_ready
  /\ axi.r_data \in rd.seen[k] /\ axi.r_id = rd.id /\ axi.r_last = (k = rd.beats)
  /\ axi.read_beats = rd.beats - k + 1 /\ axi.read_size = rd.size
  /\ axi.read_address % AddrSpace = BeatAddress(k) % AddrSpace

\* They hold no read and take one.
ReadAtRest == ~axi.r_valid /\ axi.ar_ready

\* The beat the manager waits for.
Expected == rd.beats - rd.left + 1

ReadsInStep ==
  /\ rd = Nothing => ar = Nothing /\ ReadAtRest /\ ~bus.r_valid
  /\ rd # Nothing =>
       /\ rd.left \in 1 .. rd.beats /\ rd.seen \in [1 .. rd.beats -> SUBSET Word]
       /\ \A k \in 1 .. rd.beats : read_word(ext, BeatAddress(k)) \in rd.seen[k]
       /\ ar # Nothing => bus.ar_ready /\ ~bus.r_valid /\ rd.left = rd.beats /\ At(1)
       /\ ar = Nothing =>
            /\ bus.r_valid /\ bus.r_data \in rd.seen[Expected]
            /\ bus.r_id = rd.id /\ bus.r_last = (rd.left = 1)
            /\ ~ready.r => At(Expected)
            /\ ready.r => IF rd.left = 1 THEN ReadAtRest ELSE At(Expected + 1)

\* The registers wait for data for the address of the burst.
WantData ==
  /\ axi.w_ready /\ ~axi.aw_ready /\ ~axi.b_valid
  /\ axi.write_address = wr.addr /\ axi.write_size = wr.size

\* They have taken the beat that the manager drives.
HaveData ==
  /\ axi.w_ready = (wr.left # 1) /\ axi.b_valid = (wr.left = 1) /\ ~axi.aw_ready
  /\ axi.write_address = Bump(wr.addr, wr.size) /\ axi.write_size = wr.size

WriteAtRest == axi.aw_ready /\ ~axi.w_ready /\ ~axi.b_valid

WritesInStep ==
  /\ wr = Nothing => /\ aw = Nothing /\ w = Nothing /\ WriteAtRest
                  /\ ~bus.b_valid /\ ~bus.w_ready
  /\ wr # Nothing =>
       /\ axi.b_id = wr.id
       /\ w # Nothing => wr.left > 0 /\ w \in Beat(wr)
       /\ aw # Nothing => /\ bus.aw_ready /\ ~bus.w_ready /\ ~bus.b_valid
                       /\ wr.left > 0 /\ WantData
       /\ aw = Nothing /\ wr.left > 0 =>
            /\ bus.w_ready /\ ~bus.b_valid
            /\ IF w = Nothing THEN WantData ELSE HaveData
       /\ aw = Nothing /\ wr.left = 0 =>
            /\ ~bus.w_ready /\ bus.b_valid /\ bus.b_id = wr.id
            /\ IF ready.b THEN WriteAtRest
               ELSE axi.b_valid /\ ~axi.w_ready /\ ~axi.aw_ready

ShadowInStep ==
  ext = IF w # Nothing /\ bus.w_ready
             THEN write_word(shadow, wr.addr, w.data, w.strb) ELSE shadow

IInv == TypeOK /\ ReadsInStep /\ WritesInStep /\ ShadowInStep
-----------------------------------------------------------------------------
(* Remainders *)

LEMMA Divided ==
  ASSUME NEW a \in Int, NEW d \in Nat \ {0}
  PROVE  /\ a % d \in 0 .. d - 1 /\ a \div d \in Int
         /\ a = d * (a \div d) + (a % d)
OBVIOUS

LEMMA Remainder ==
  ASSUME NEW d \in Nat \ {0}, NEW q \in Int, NEW r \in 0 .. d - 1
  PROVE  (d * q + r) % d = r
OBVIOUS

\* What has the same remainder keeps it when the same is added.
LEMMA SameSum ==
  ASSUME NEW n \in Nat \ {0}, NEW a \in Int, NEW b \in Int, a % n = b % n, NEW c \in Int
  PROVE  (a + c) % n = (b + c) % n
<1> DEFINE r == (a % n) + c
           q == r \div n
           s == r % n
<1>1. r \in Int
  BY Divided
<1>2. q \in Int /\ s \in 0 .. n - 1 /\ r = (n * q) + s
  <2> HIDE DEF r
  <2> QED
    BY <1>1, Divided
<1>3. /\ a = n * (a \div n) + (a % n) /\ a \div n \in Int /\ a % n \in Int
      /\ b = n * (b \div n) + (b % n) /\ b \div n \in Int
  BY Divided
<1> HIDE DEF q, s
<1>4. a + c = n * (a \div n) + r /\ b + c = n * (b \div n) + r
  BY <1>3
<1> HIDE DEF r
<1>5. \A x \in Int : n * x + r = n * (x + q) + s /\ x + q \in Int
  BY <1>2
<1>6. \A x \in Int : (n * x + r) % n = s
  BY <1>2, <1>5, Remainder
<1> QED
  BY <1>3, <1>4, <1>6

\* A remainder loses nothing to a divisor.
LEMMA SameRemainder ==
  ASSUME NEW n \in Nat \ {0}, NEW m \in Nat \ {0}, m % n = 0, NEW a \in Int
  PROVE  (a % m) % n = a % n
<1> DEFINE r == a % m
           s == r % n
           j == m \div n
           q == a \div m
           p == r \div n
<1>1. /\ m = n * j /\ j \in Int
      /\ r \in Int /\ a = m * q + r /\ q \in Int
      /\ r = n * p + s /\ p \in Int /\ s \in 0 .. n - 1
  BY Divided
<1> HIDE DEF r, s, j, q, p
<1>2. a = (n * j) * q + (n * p + s)
  BY <1>1
<1>3. (n * j) * q + (n * p + s) = n * (j * q + p) + s
  BY <1>1
<1>4. j * q + p \in Int
  BY <1>1
<1>5. a % n = s
  BY <1>1, <1>2, <1>3, <1>4, Remainder
<1> QED
  BY <1>5 DEF s, r

\* Addresses wrap at twice the memory: those that wrap to the same name the same
\* word.
LEMMA SameWord ==
  ASSUME MemoryConstants, NEW a \in Int, NEW b \in Int, a % AddrSpace = b % AddrSpace, NEW m
  PROVE  read_word(m, a) = read_word(m, b)
<1> DEFINE half == MemorySize \div WordBytes
<1>1. /\ MemorySize \in Nat \ {0} /\ WordBytes \in Nat \ {0} /\ AddrSpace \in Nat \ {0}
      /\ AddrSpace = MemorySize * 2 + 0
      /\ half \in Int /\ MemorySize = WordBytes * half
  BY Divided DEF MemoryConstants, AddrSpace
<1> HIDE DEF half
<1>2. AddrSpace % MemorySize = 0
  BY <1>1, Remainder
<1>3. AddrSpace % WordBytes = 0
  <2>1. AddrSpace = WordBytes * (half * 2) + 0
    BY <1>1
  <2> QED
    BY <1>1, <2>1, Remainder
<1>4. a % MemorySize = b % MemorySize /\ a % WordBytes = b % WordBytes
  <2> HIDE DEF AddrSpace
  <2>1. ASSUME NEW n \in Nat \ {0}, AddrSpace % n = 0
        PROVE  a % n = b % n
    <3>1. (a % AddrSpace) % n = a % n /\ (b % AddrSpace) % n = b % n
      BY <1>1, <2>1, SameRemainder
    <3> QED
      BY <3>1
  <2> QED
    BY <1>1, <1>2, <1>3, <2>1
<1> QED
  BY <1>4 DEF read_word, Base

\* A word lies in the memory.
LEMMA BaseInMemory ==
  ASSUME MemoryConstants, NEW a \in Int, NEW i \in Lanes
  PROVE  Base(a) + i \in 0 .. MemorySize - 1
<1> DEFINE r == a % MemorySize
           j == MemorySize \div WordBytes
           p == r \div WordBytes
<1>1. MemorySize \in Nat \ {0} /\ WordBytes \in Nat \ {0} /\ MemorySize % WordBytes = 0
  BY DEF MemoryConstants
<1>2. r % WordBytes = a % WordBytes
  BY <1>1, SameRemainder
<1>3. /\ r \in 0 .. MemorySize - 1 /\ p \in Int
      /\ r = WordBytes * p + (a % WordBytes) /\ a % WordBytes \in 0 .. WordBytes - 1
      /\ MemorySize = WordBytes * j /\ j \in Int
  <2>1. r \in 0 .. MemorySize - 1 /\ MemorySize = WordBytes * j /\ j \in Int
    BY <1>1, Divided
  <2>2. p \in Int /\ r = WordBytes * p + (r % WordBytes) /\ r % WordBytes \in 0 .. WordBytes - 1
    BY <1>1, <2>1, Divided
  <2> QED
    BY <1>2, <2>1, <2>2
<1>4. Base(a) = r - (a % WordBytes)
  BY DEF Base
<1> HIDE DEF r, j, p
<1>5. Base(a) = WordBytes * p
  BY <1>1, <1>3, <1>4
<1>6. p >= 0 /\ p + 1 <= j
  BY <1>1, <1>3
<1>7. WordBytes * p >= 0 /\ WordBytes * p + WordBytes <= MemorySize
  <2>1. WordBytes * (p + 1) <= WordBytes * j
    BY <1>1, <1>3, <1>6
  <2> QED
    BY <1>1, <1>3, <1>6, <2>1
<1>8. WordBytes * p \in Int
  BY <1>1, <1>3
<1> QED
  BY <1>1, <1>5, <1>7, <1>8 DEF Lanes

LEMMA WordTyped ==
  ASSUME MemoryConstants, NEW a \in Int, NEW m \in [0 .. MemorySize - 1 -> Int]
  PROVE  read_word(m, a) \in Word
BY BaseInMemory DEF read_word, Word, Lanes

LEMMA BumpTyped ==
  ASSUME MemoryConstants, NEW a \in Int, NEW size, 2^size \in Nat
  PROVE  Bump(a, size) \in Nat /\ Bump(a, size) % AddrSpace = (a + 2^size) % AddrSpace
<1>1. AddrSpace \in Nat \ {0}
  BY DEF MemoryConstants, AddrSpace
<1>2. a + 2^size \in Int
  OBVIOUS
<1> HIDE DEF AddrSpace
<1>3. \A x \in Int, n \in Nat \ {0} : x % n \in Nat /\ (x % n) % n = x % n
  OBVIOUS
<1> QED
  BY <1>1, <1>2, <1>3 DEF Bump
-----------------------------------------------------------------------------
(* What the manager drives *)

\* A payload and a burst have the types of TypeOK, and are not None.
LEMMA WriteDriven ==
  ASSUME MemoryConstants, TypeOK, WritesInStep, HostAw
  PROVE  /\ aw' \in AddressPhases \cup {Nothing}
         /\ wr' # Nothing => wr' \in WriteBursts /\ 2^wr'.size \in Nat
<1>1. CASE wr' = Nothing /\ aw' = Nothing
  BY <1>1
<1>2. ASSUME NEW b \in Writes, wr' = Start(b),
             aw' = [addr |-> b.addr, size |-> b.size, id |-> b.id]
      PROVE  /\ aw' \in AddressPhases /\ wr' \in WriteBursts /\ 2^wr'.size \in Nat
  <2>1. b \in Bursts /\ b.id \in Ids /\ 2^b.size \in Nat
    BY DEF MemoryConstants, Ids
  <2> QED
    BY <1>2, <2>1 DEF Start, AddressPhases, WriteBursts, Bursts
<1>3. CASE /\ wr # Nothing
           /\ aw' = IF HostTook(aw, bus.aw_ready) THEN Nothing ELSE aw
           /\ wr' = IF HostTook(w, bus.w_ready)
                THEN [wr EXCEPT !.left = @ - 1, !.addr = Bump(@, wr.size)] ELSE wr
  <2>1. aw' \in AddressPhases \cup {Nothing}
    BY <1>3 DEF TypeOK
  <2>2. wr \in WriteBursts /\ 2^wr.size \in Nat
    BY <1>3 DEF TypeOK
  <2>3. CASE HostTook(w, bus.w_ready)
    <3>1. wr.left - 1 \in Nat
      BY <1>3, <2>2, <2>3 DEF WritesInStep, HostTook, WriteBursts
    <3>2. Bump(wr.addr, wr.size) \in Nat
      BY <2>2, BumpTyped DEF WriteBursts
    <3> QED
      BY <1>3, <2>1, <2>2, <2>3, <3>1, <3>2 DEF WriteBursts
  <2> QED
    BY <1>3, <2>1, <2>2, <2>3
<1> QED
  BY <1>1, <1>2, <1>3 DEF HostAw

LEMMA BeatDriven ==
  ASSUME MemoryConstants, TypeOK, HostAw, HostW,
         wr' # Nothing => wr' \in WriteBursts
  PROVE  w' \in Beats \cup {Nothing}
<1>1. CASE w' = w
  BY <1>1 DEF TypeOK
<1>2. CASE wr' # Nothing /\ w' \in Beat(wr')
  <2>1. wr'.addr \in Nat /\ wr'.addr % WordBytes \in Lanes
    BY <1>2 DEF WriteBursts, MemoryConstants, Lanes
  <2> QED
    BY <1>2, <2>1 DEF Beat, Beats
<1> QED
  BY <1>1, <1>2 DEF HostW

\* The memory stays a memory.
LEMMA MemoryTyped ==
  ASSUME MemoryConstants, TypeOK, w' \in Beats \cup {Nothing}
  PROVE  memory_Next \in [0 .. MemorySize - 1 -> Int]
<1>1. ASSUME WTaken
      PROVE  write_word(ext, axi.write_address, w'.data, w'.strb)
               \in [0 .. MemorySize - 1 -> Int]
  <2>1. /\ w'.data \in Word /\ w'.strb \subseteq Lanes
    BY <1>1 DEF WTaken, Beats, MemoryConstants
  <2>2. \A i \in w'.strb : w'.data[i] \in Int
    BY <2>1 DEF Word, Lanes
  <2> QED
    BY <2>2 DEF write_word, TypeOK
<1> QED
  BY <1>1 DEF memory_Next, TypeOK

LEMMA ReadDriven ==
  ASSUME MemoryConstants, TypeOK, ReadsInStep, HostAr,
         memory_Next \in [0 .. MemorySize - 1 -> Int]
  PROVE  /\ ar' \in Bursts \cup {Nothing}
         /\ rd' # Nothing => rd' \in ReadBursts /\ 2^rd'.size \in Nat
<1>1. CASE rd' = Nothing /\ ar' = Nothing
  BY <1>1
<1>2. ASSUME NEW b \in Reads, ar' = b,
             rd' = [addr |-> b.addr, size |-> b.size, id |-> b.id,
                    left |-> b.len + 1, beats |-> b.len + 1, seen |-> Seen(b, memory_Next)]
      PROVE  ar' \in Bursts /\ rd' \in ReadBursts /\ 2^rd'.size \in Nat
  <2>1. b \in Bursts /\ b.id \in Ids /\ 2^b.size \in Nat
    BY DEF MemoryConstants, Ids
  <2>2. \A k \in 1 .. b.len + 1 : b.addr + (k - 1) * 2^b.size \in Int
    BY <2>1 DEF Bursts
  <2>3. Seen(b, memory_Next) \in [1 .. b.len + 1 -> SUBSET Word]
    BY <2>2, WordTyped DEF Seen
  <2> QED
    BY <1>2, <2>1, <2>3 DEF ReadBursts, Bursts
<1>3. CASE /\ rd # Nothing
           /\ ar' = IF HostTook(ar, bus.ar_ready) THEN Nothing ELSE ar
           /\ rd' = [rd EXCEPT !.left = IF RTook THEN @ - 1 ELSE @,
                !.seen = [k \in DOMAIN rd.seen |-> rd.seen[k] \cup
                  {read_word(memory_Next, rd.addr + (k - 1) * 2^rd.size)}]]
  <2>1. rd \in ReadBursts /\ 2^rd.size \in Nat /\ rd.left \in Nat \ {0}
    BY <1>3 DEF TypeOK, ReadsInStep, ReadBursts
  <2>2. PICK b \in Reads : rd.seen \in [1 .. b.len + 1 -> SUBSET Word]
    BY <2>1 DEF ReadBursts
  <2>3. \A k \in 1 .. b.len + 1 : rd.addr + (k - 1) * 2^rd.size \in Int
    BY <2>1 DEF ReadBursts
  <2> DEFINE moved == [k \in DOMAIN rd.seen |-> rd.seen[k] \cup
                        {read_word(memory_Next, rd.addr + (k - 1) * 2^rd.size)}]
             left  == IF RTook THEN rd.left - 1 ELSE rd.left
  <2>4. moved \in UNION {[1 .. c.len + 1 -> SUBSET Word] : c \in Reads}
    BY <2>2, <2>3, WordTyped
  <2>5. ar' \in Bursts \cup {Nothing}
    BY <1>3 DEF TypeOK
  <2>6. rd' = [rd EXCEPT !.left = left, !.seen = moved]
    BY <1>3
  <2>7. left \in Nat
    BY <2>1
  <2> HIDE DEF left, moved
  <2>8. rd' \in ReadBursts /\ rd'.size = rd.size
    BY <2>1, <2>4, <2>6, <2>7 DEF ReadBursts
  <2> QED
    BY <2>1, <2>5, <2>8
<1> QED
  BY <1>1, <1>2, <1>3 DEF HostAr
-----------------------------------------------------------------------------
(* What the memory makes of it *)

BDone  == axi.b_valid /\ ready'.b
RDone  == axi.r_valid /\ ready'.r
AwDone == axi.aw_ready /\ aw' # Nothing
ArDone == axi.ar_ready /\ ar' # Nothing

ReadSide  == {"ar_ready", "r_valid", "r_last", "r_id", "r_data",
              "read_address", "read_size", "read_beats"}
WriteSide == {"aw_ready", "w_ready", "b_valid", "b_id", "write_address", "write_size"}
Same(p, q, side) == \A f \in side : p[f] = q[f]

\* The write half of the registers after a cycle, and the read half: the steps of
\* AxiMem::process taken together.
WritesProcessed(p) ==
  /\ p.aw_ready = ((axi.aw_ready \/ BDone) /\ ~AwDone)
  /\ p.w_ready = IF AwDone THEN TRUE ELSE IF WTaken THEN ~w'.last ELSE axi.w_ready
  /\ p.b_valid = ((axi.b_valid /\ ~BDone) \/ (WTaken /\ w'.last))
  /\ p.b_id = IF AwDone THEN aw'.id ELSE axi.b_id
  /\ p.write_size = IF AwDone THEN aw'.size ELSE axi.write_size
  /\ p.write_address =
       IF AwDone THEN aw'.addr
       ELSE IF WTaken THEN Bump(axi.write_address, axi.write_size)
       ELSE axi.write_address

NextBeat == Bump(axi.read_address, axi.read_size)
ReadsProcessed(p) ==
  /\ p.ar_ready = ((axi.ar_ready \/ (RDone /\ axi.r_last)) /\ ~ArDone)
  /\ p.r_valid = ((axi.r_valid /\ ~(RDone /\ axi.r_last)) \/ ArDone)
  /\ ArDone =>
       /\ p.read_address = ar'.addr /\ p.read_size = ar'.size /\ p.r_id = ar'.id
       /\ p.read_beats = ar'.len + 1 /\ p.r_last = (ar'.len = 0)
       /\ p.r_data = read_word(ext', ar'.addr)
  /\ ~ArDone => p.read_size = axi.read_size /\ p.r_id = axi.r_id
  /\ ~ArDone /\ RDone /\ ~axi.r_last =>
       /\ p.read_address = NextBeat /\ p.read_beats = axi.read_beats - 1
       /\ p.r_last = (axi.read_beats = 2) /\ p.r_data = read_word(ext, NextBeat)
  /\ ~ArDone /\ ~RDone =>
       /\ p.read_address = axi.read_address /\ p.read_beats = axi.read_beats
       /\ p.r_last = axi.r_last /\ p.r_data = axi.r_data

Inputs ==
  /\ ext' \in [0 .. MemorySize - 1 -> Int]
  /\ ready' \in [b : BOOLEAN, r : BOOLEAN]
  /\ aw' \in AddressPhases \cup {Nothing}
  /\ ar' \in Bursts \cup {Nothing}
  /\ w' \in Beats \cup {Nothing}
  /\ axi.w_ready /\ w' # Nothing => 2^axi.write_size \in Nat
  /\ axi.r_valid /\ ready'.r => 2^axi.read_size \in Nat

LEMMA BTaken ==
  ASSUME axi \in Registers, ready' \in [b : BOOLEAN, r : BOOLEAN]
  PROVE  /\ TakeB(axi) \in Registers /\ Same(TakeB(axi), axi, ReadSide)
         /\ TakeB(axi).aw_ready = (axi.aw_ready \/ BDone)
         /\ TakeB(axi).b_valid = (axi.b_valid /\ ~BDone)
         /\ Same(TakeB(axi), axi, WriteSide \ {"aw_ready", "b_valid"})
BY DEF TakeB, BDone, Registers, Same, ReadSide, WriteSide

LEMMA RTaken ==
  ASSUME NEW p \in Registers, Inputs, MemoryConstants, TypeOK,
         Same(p, axi, ReadSide)
  PROVE  /\ TakeR(p) \in Registers /\ Same(TakeR(p), p, WriteSide)
         /\ ~RDone => TakeR(p) = p
         /\ RDone /\ axi.r_last =>
              /\ ~TakeR(p).r_valid /\ ~TakeR(p).r_last /\ TakeR(p).ar_ready
              /\ TakeR(p).read_size = axi.read_size /\ TakeR(p).r_id = axi.r_id
         /\ RDone /\ ~axi.r_last =>
              /\ TakeR(p).r_valid = axi.r_valid /\ TakeR(p).ar_ready = axi.ar_ready
              /\ TakeR(p).read_size = axi.read_size /\ TakeR(p).r_id = axi.r_id
              /\ TakeR(p).read_address = NextBeat
              /\ TakeR(p).read_beats = axi.read_beats - 1
              /\ TakeR(p).r_last = (axi.read_beats = 2)
              /\ TakeR(p).r_data = read_word(ext, NextBeat)
<1>1. axi \in Registers /\ ext \in [0 .. MemorySize - 1 -> Int]
  BY DEF TypeOK
<1>2. CASE ~RDone
  BY <1>2 DEF TakeR, RDone, Same
<1>3. CASE RDone /\ axi.r_last
  BY <1>1, <1>3 DEF TakeR, RDone, Registers, Same, WriteSide, ReadSide
<1>4. CASE RDone /\ ~axi.r_last
  <2> DEFINE word == read_word(ext, NextBeat)
             left == axi.read_beats - 1
             last == axi.read_beats = 2
  <2>1. NextBeat \in Nat
    BY <1>1, <1>4, BumpTyped DEF RDone, Inputs, NextBeat, Registers
  <2>2. word \in Word
    BY <1>1, <2>1, WordTyped
  <2>3. left \in Int /\ last \in BOOLEAN
    BY <1>1 DEF Registers
  <2>4. TakeR(p) = [p EXCEPT !.read_address = NextBeat, !.read_beats = left,
                             !.r_data = word, !.r_last = last]
    BY <1>4 DEF TakeR, RDone, NextBeat, Same, ReadSide
  <2> HIDE DEF word, left, last
  <2>5. TakeR(p) \in Registers /\ Same(TakeR(p), p, WriteSide)
    BY <2>1, <2>2, <2>3, <2>4 DEF Registers, Same, WriteSide
  <2>6. /\ TakeR(p).r_valid = p.r_valid /\ TakeR(p).ar_ready = p.ar_ready
        /\ TakeR(p).read_size = p.read_size /\ TakeR(p).r_id = p.r_id
        /\ TakeR(p).read_address = NextBeat /\ TakeR(p).read_beats = left
        /\ TakeR(p).r_last = last /\ TakeR(p).r_data = word
    BY <2>1, <2>2, <2>3, <2>4 DEF Registers
  <2> QED
    BY <1>4, <2>5, <2>6 DEF Same, ReadSide, word, left, last
<1> QED
  BY <1>2, <1>3, <1>4

LEMMA WriteTaken ==
  ASSUME NEW p \in Registers, Inputs, MemoryConstants, TypeOK,
         p.write_address = axi.write_address, p.write_size = axi.write_size
  PROVE  /\ TakeW(p) \in Registers
         /\ Same(TakeW(p), p, ReadSide \cup {"aw_ready", "b_id", "write_size"})
         /\ ~WTaken => TakeW(p) = p
         /\ WTaken =>
              /\ TakeW(p).write_address = Bump(axi.write_address, axi.write_size)
              /\ TakeW(p).w_ready = ~w'.last
              /\ TakeW(p).b_valid = (p.b_valid \/ w'.last)
<1>1. CASE ~WTaken
  BY <1>1 DEF TakeW, Same
<1>2. CASE WTaken
  <2> DEFINE next == Bump(axi.write_address, axi.write_size)
             last == w'.last
  <2>1. next \in Nat
    BY <1>2, BumpTyped DEF WTaken, Inputs, Registers, TypeOK
  <2>2. last \in BOOLEAN
    BY <1>2 DEF WTaken, Inputs, Beats
  <2>3. TakeW(p) = [p EXCEPT !.write_address = next, !.w_ready = ~last,
                             !.b_valid = @ \/ last]
    BY <1>2 DEF TakeW
  <2> HIDE DEF next, last
  <2>4. /\ TakeW(p) \in Registers
        /\ Same(TakeW(p), p, ReadSide \cup {"aw_ready", "b_id", "write_size"})
    BY <2>1, <2>2, <2>3 DEF Registers, Same, ReadSide
  <2>5. /\ TakeW(p).write_address = next /\ TakeW(p).w_ready = ~last
        /\ TakeW(p).b_valid = (p.b_valid \/ last)
    BY <2>1, <2>2, <2>3 DEF Registers
  <2> QED
    BY <1>2, <2>4, <2>5 DEF next, last
<1> QED
  BY <1>1, <1>2

LEMMA AwTaken ==
  ASSUME NEW p \in Registers, Inputs
  PROVE  /\ TakeAw(p) \in Registers /\ Same(TakeAw(p), p, ReadSide \cup {"b_valid"})
         /\ ~AwDone => TakeAw(p) = p
         /\ AwDone => /\ TakeAw(p).write_address = aw'.addr
                      /\ TakeAw(p).write_size = aw'.size
                      /\ TakeAw(p).b_id = aw'.id
                      /\ ~TakeAw(p).aw_ready /\ TakeAw(p).w_ready
<1>1. CASE ~AwDone
  BY <1>1 DEF TakeAw, AwDone, Same
<1>2. CASE AwDone
  <2>1. /\ aw'.addr \in Nat /\ aw'.size \in Nat /\ aw'.id \in Ids
    BY <1>2 DEF AwDone, Inputs, AddressPhases
  <2> QED
    BY <1>2, <2>1 DEF TakeAw, AwDone, Registers, Same, ReadSide
<1> QED
  BY <1>1, <1>2

LEMMA ArTaken ==
  ASSUME NEW p \in Registers, Inputs, MemoryConstants
  PROVE  /\ TakeAr(p) \in Registers /\ Same(TakeAr(p), p, WriteSide)
         /\ ~ArDone => TakeAr(p) = p
         /\ ArDone => /\ TakeAr(p).read_address = ar'.addr
                      /\ TakeAr(p).read_size = ar'.size
                      /\ TakeAr(p).read_beats = ar'.len + 1
                      /\ TakeAr(p).r_id = ar'.id /\ TakeAr(p).r_last = (ar'.len = 0)
                      /\ TakeAr(p).r_data = read_word(ext', ar'.addr)
                      /\ TakeAr(p).r_valid /\ ~TakeAr(p).ar_ready
<1>1. CASE ~ArDone
  BY <1>1 DEF TakeAr, ArDone, Same
<1>2. CASE ArDone
  <2> DEFINE word == read_word(ext', ar'.addr)
  <2>1. ar' \in Bursts
    BY <1>2 DEF ArDone, Inputs
  <2>2. word \in Word
    BY <2>1, WordTyped DEF Inputs, Bursts
  <2>3. TakeAr(p) =
          [p EXCEPT !.read_address = ar'.addr, !.read_size = ar'.size,
                    !.read_beats = ar'.len + 1, !.r_id = ar'.id, !.r_data = word,
                    !.r_last = ar'.len = 0, !.r_valid = TRUE, !.ar_ready = FALSE]
    BY <1>2 DEF TakeAr, ArDone
  <2> HIDE DEF word
  <2>4. ar'.addr \in Nat /\ ar'.size \in Nat /\ ar'.len + 1 \in Int /\ ar'.id \in Ids
    BY <2>1 DEF Bursts
  <2>5. TakeAr(p) \in Registers /\ Same(TakeAr(p), p, WriteSide)
    BY <2>2, <2>3, <2>4 DEF Registers, Same, WriteSide
  <2>6. /\ TakeAr(p).read_address = ar'.addr /\ TakeAr(p).read_size = ar'.size
        /\ TakeAr(p).read_beats = ar'.len + 1 /\ TakeAr(p).r_id = ar'.id
        /\ TakeAr(p).r_last = (ar'.len = 0) /\ TakeAr(p).r_data = word
        /\ TakeAr(p).r_valid /\ ~TakeAr(p).ar_ready
    BY <2>2, <2>3, <2>4 DEF Registers
  <2> QED
    BY <1>2, <2>5, <2>6 DEF word
<1> QED
  BY <1>1, <1>2
\* The registers after a cycle are typed, and are what WritesProcessed and
\* ReadsProcessed say.
LEMMA Processed ==
  ASSUME MemoryConstants, TypeOK, Inputs, update
  PROVE  axi' \in Registers /\ WritesProcessed(axi') /\ ReadsProcessed(axi')
<1> DEFINE p1 == TakeB(axi)
           p2 == TakeR(p1)
           p3 == TakeW(p2)
           p4 == TakeAw(p3)
           p5 == TakeAr(p4)
<1>1. axi' = p5 /\ axi \in Registers
  BY DEF update, TypeOK
<1>2. /\ p1 \in Registers /\ Same(p1, axi, ReadSide)
      /\ p1.aw_ready = (axi.aw_ready \/ BDone) /\ p1.b_valid = (axi.b_valid /\ ~BDone)
      /\ Same(p1, axi, WriteSide \ {"aw_ready", "b_valid"})
  BY <1>1, BTaken DEF Inputs
<1> HIDE DEF p1
<1>3. p2 \in Registers /\ Same(p2, p1, WriteSide)
  BY <1>2, RTaken
<1>4. /\ ~RDone => p2 = p1
      /\ RDone /\ axi.r_last =>
           /\ ~p2.r_valid /\ ~p2.r_last /\ p2.ar_ready
           /\ p2.read_size = axi.read_size /\ p2.r_id = axi.r_id
      /\ RDone /\ ~axi.r_last =>
           /\ p2.r_valid = axi.r_valid /\ p2.ar_ready = axi.ar_ready
           /\ p2.read_size = axi.read_size /\ p2.r_id = axi.r_id
           /\ p2.read_address = NextBeat /\ p2.read_beats = axi.read_beats - 1
           /\ p2.r_last = (axi.read_beats = 2) /\ p2.r_data = read_word(ext, NextBeat)
  BY <1>2, RTaken
<1> HIDE DEF p2
<1>5. /\ p3 \in Registers
      /\ Same(p3, p2, ReadSide \cup {"aw_ready", "b_id", "write_size"})
      /\ ~WTaken => p3 = p2
      /\ WTaken => /\ p3.write_address = Bump(axi.write_address, axi.write_size)
                   /\ p3.w_ready = ~w'.last /\ p3.b_valid = (p2.b_valid \/ w'.last)
  <2>1. p2.write_address = axi.write_address /\ p2.write_size = axi.write_size
    BY <1>2, <1>3 DEF Same, WriteSide
  <2> QED
    BY <1>3, <2>1, WriteTaken
<1> HIDE DEF p3
<1>6. /\ p4 \in Registers /\ Same(p4, p3, ReadSide \cup {"b_valid"})
      /\ ~AwDone => p4 = p3
      /\ AwDone => /\ p4.write_address = aw'.addr /\ p4.write_size = aw'.size
                   /\ p4.b_id = aw'.id /\ ~p4.aw_ready /\ p4.w_ready
  BY <1>5, AwTaken
<1> HIDE DEF p4
<1>7. /\ p5 \in Registers /\ Same(p5, p4, WriteSide)
      /\ ~ArDone => p5 = p4
      /\ ArDone => /\ p5.read_address = ar'.addr /\ p5.read_size = ar'.size
                   /\ p5.read_beats = ar'.len + 1
                   /\ p5.r_id = ar'.id /\ p5.r_last = (ar'.len = 0)
                   /\ p5.r_data = read_word(ext', ar'.addr)
                   /\ p5.r_valid /\ ~p5.ar_ready
  BY <1>6, ArTaken
<1> HIDE DEF p5
<1>8. WritesProcessed(p5)
  <2>1. /\ p3.aw_ready = (axi.aw_ready \/ BDone)
        /\ p3.b_valid = ((axi.b_valid /\ ~BDone) \/ (WTaken /\ w'.last))
        /\ p3.w_ready = IF WTaken THEN ~w'.last ELSE axi.w_ready
        /\ p3.b_id = axi.b_id /\ p3.write_size = axi.write_size
        /\ p3.write_address = IF WTaken THEN Bump(axi.write_address, axi.write_size)
                              ELSE axi.write_address
    BY <1>2, <1>3, <1>5 DEF Same, WriteSide
  <2>2. \A f \in WriteSide : p5[f] = p4[f]
    BY <1>7 DEF Same
  <2>3. p4.b_valid = p3.b_valid
    BY <1>6 DEF Same
  <2>4. CASE AwDone
    <3>1. /\ p4.aw_ready = FALSE /\ p4.w_ready = TRUE
      BY <1>6, <2>4 DEF Registers
    <3> QED
      BY <1>6, <2>1, <2>2, <2>3, <2>4, <3>1 DEF WritesProcessed, WriteSide
  <2>5. CASE ~AwDone
    BY <1>6, <2>1, <2>2, <2>5 DEF WritesProcessed, WriteSide
  <2> QED
    BY <2>4, <2>5
<1>9. ReadsProcessed(p5)
  <2>1. \A f \in ReadSide : p4[f] = p2[f]
    BY <1>5, <1>6 DEF Same
  <2>2. \A f \in ReadSide : p1[f] = axi[f]
    BY <1>2 DEF Same
  <2>3. /\ p2.ar_ready = (axi.ar_ready \/ (RDone /\ axi.r_last))
        /\ p2.r_valid = (axi.r_valid /\ ~(RDone /\ axi.r_last))
    <3>1. /\ p2.ar_ready \in BOOLEAN /\ p2.r_valid \in BOOLEAN
          /\ axi.ar_ready \in BOOLEAN /\ axi.r_valid \in BOOLEAN
          /\ p1.ar_ready = axi.ar_ready /\ p1.r_valid = axi.r_valid
      BY <1>1, <1>3, <2>2 DEF ReadSide, Registers
    <3> QED
      BY <1>4, <3>1 DEF RDone
  <2>4. CASE ArDone
    <3>1. p5.r_valid = TRUE /\ p5.ar_ready = FALSE
      BY <1>7, <2>4 DEF Registers
    <3> QED
      BY <1>7, <2>4, <3>1 DEF ReadsProcessed
  <2>5. CASE ~ArDone
    BY <1>4, <1>7, <2>1, <2>2, <2>3, <2>5 DEF ReadsProcessed, ReadSide
  <2> QED
    BY <2>4, <2>5
<1> QED
  BY <1>1, <1>7, <1>8, <1>9
-----------------------------------------------------------------------------
(* A cycle *)

\* The pins show the registers before the cycle.
LEMMA Pins ==
  ASSUME update
  PROVE  /\ bus'.aw_ready = axi.aw_ready /\ bus'.w_ready = axi.w_ready
         /\ bus'.b_valid = axi.b_valid /\ bus'.b_id = axi.b_id
         /\ bus'.ar_ready = axi.ar_ready /\ bus'.r_valid = axi.r_valid
         /\ bus'.r_data = axi.r_data /\ bus'.r_last = axi.r_last /\ bus'.r_id = axi.r_id
BY DEF update, drive, BusFields

\* What the memory samples in a cycle is well formed.
LEMMA Sampled ==
  ASSUME MemoryConstants, IInv, Cycle
  PROVE  /\ Inputs
         /\ wr' # Nothing => wr' \in WriteBursts /\ 2^wr'.size \in Nat
         /\ rd' # Nothing => rd' \in ReadBursts /\ 2^rd'.size \in Nat
<1>1. HostAw /\ HostW /\ HostAr /\ TypeOK /\ ReadsInStep /\ WritesInStep
  BY DEF Cycle, IInv
<1>2. ext' = memory_Next
  BY DEF Cycle, update
<1>3. /\ aw' \in AddressPhases \cup {Nothing}
      /\ wr' # Nothing => wr' \in WriteBursts /\ 2^wr'.size \in Nat
  BY <1>1, WriteDriven
<1>4. w' \in Beats \cup {Nothing}
  BY <1>1, <1>3, BeatDriven
<1>5. memory_Next \in [0 .. MemorySize - 1 -> Int]
  BY <1>1, <1>4, MemoryTyped
<1>6. /\ ar' \in Bursts \cup {Nothing}
      /\ rd' # Nothing => rd' \in ReadBursts /\ 2^rd'.size \in Nat
  BY <1>1, <1>5, ReadDriven
<1>7. ready' \in [b : BOOLEAN, r : BOOLEAN]
  BY DEF Cycle
<1>8. axi.w_ready => 2^axi.write_size \in Nat
  <2>1. ASSUME axi.w_ready PROVE wr # Nothing /\ axi.write_size = wr.size
    <3>1. wr # Nothing
      BY <1>1, <2>1 DEF WritesInStep, WriteAtRest
    <3>2. wr.left = 0 \/ wr.left > 0
      BY <1>1, <3>1 DEF TypeOK, WriteBursts
    <3>3. CASE aw # Nothing
      BY <1>1, <3>1, <3>3 DEF WritesInStep, WantData
    <3>4. CASE aw = Nothing /\ wr.left > 0
      BY <1>1, <3>1, <3>4 DEF WritesInStep, WantData, HaveData
    <3>5. CASE aw = Nothing /\ wr.left = 0
      BY <1>1, <2>1, <3>1, <3>5 DEF WritesInStep, WriteAtRest
    <3> QED
      BY <3>1, <3>2, <3>3, <3>4, <3>5
  <2> QED
    BY <1>1, <2>1 DEF TypeOK
<1>9. axi.r_valid => 2^axi.read_size \in Nat
  BY <1>1 DEF ReadsInStep, TypeOK, At, ReadAtRest
<1> QED
  BY <1>2, <1>3, <1>4, <1>5, <1>6, <1>7, <1>8, <1>9 DEF Inputs

LEMMA Stepped ==
  ASSUME MemoryConstants, IInv, Cycle
  PROVE  TypeOK' /\ WritesProcessed(axi') /\ ReadsProcessed(axi')
<1>1. /\ Inputs
      /\ wr' # Nothing => wr' \in WriteBursts /\ 2^wr'.size \in Nat
      /\ rd' # Nothing => rd' \in ReadBursts /\ 2^rd'.size \in Nat
  BY Sampled
<1>2. axi' \in Registers /\ WritesProcessed(axi') /\ ReadsProcessed(axi')
  BY <1>1, Processed DEF IInv, Cycle
<1> QED
  BY <1>1, <1>2 DEF TypeOK, Inputs

-----------------------------------------------------------------------------
(* Reads *)

\* The branch of ReadsInStep in which the manager waits for beats.
Waiting ==
  /\ bus.r_valid /\ bus.r_data \in rd.seen[Expected]
  /\ bus.r_id = rd.id /\ bus.r_last = (rd.left = 1)
  /\ ~ready.r => At(Expected)
  /\ ready.r => IF rd.left = 1 THEN ReadAtRest ELSE At(Expected + 1)

\* Registers that hold the beat to come show it, and hold it until it is taken;
\* then they hold the next, read from the memory of that cycle.
LEMMA ReadOn ==
  ASSUME MemoryConstants, IInv, Cycle, rd # Nothing,
         NEW k \in 1 .. rd.beats, At(k), ar' = Nothing,
         rd'.addr = rd.addr, rd'.size = rd.size, rd'.id = rd.id, rd'.beats = rd.beats,
         rd'.left = rd.beats - k + 1,
         \A j \in 1 .. rd.beats : rd.seen[j] \subseteq rd'.seen[j]
  PROVE  Waiting'
<1>1. /\ ReadsProcessed(axi') /\ axi \in Registers /\ rd \in ReadBursts /\ 2^rd.size \in Nat
      /\ ready' \in [b : BOOLEAN, r : BOOLEAN]
  BY Stepped DEF IInv, TypeOK, Cycle
<1>2. rd.beats \in Nat /\ rd.addr \in Nat /\ k \in Nat
  BY <1>1 DEF ReadBursts
<1>3. Expected' = k /\ (rd'.left = 1) = (k = rd.beats)
  BY <1>2 DEF Expected
<1>4. \A j : BeatAddress(j)' = BeatAddress(j)
  BY DEF BeatAddress
<1>5. ~ArDone
  BY DEF ArDone
<1>6. /\ bus'.r_valid /\ bus'.r_data \in rd'.seen[k]
      /\ bus'.r_id = rd'.id /\ bus'.r_last = (rd'.left = 1)
  BY <1>3, Pins DEF At, Cycle
<1>7. ASSUME ~ready'.r PROVE At(k)'
  BY <1>1, <1>4, <1>5, <1>7 DEF At, ReadsProcessed, RDone, Registers
<1>8. ASSUME ready'.r, rd'.left = 1 PROVE ReadAtRest'
  BY <1>1, <1>3, <1>5, <1>8 DEF At, ReadsProcessed, RDone, ReadAtRest
<1>9. ASSUME ready'.r, rd'.left # 1 PROVE At(k + 1)'
  <2>1. /\ k + 1 \in 1 .. rd.beats /\ k # rd.beats
    BY <1>2, <1>3, <1>9
  <2>2. RDone /\ ~axi.r_last
    BY <1>9, <2>1 DEF RDone, At
  <2>3. /\ axi'.r_valid /\ ~axi'.ar_ready
        /\ axi'.r_id = rd'.id /\ axi'.read_size = rd'.size
    BY <1>1, <1>5, <2>2 DEF ReadsProcessed, At
  <2>4. /\ axi'.read_address = NextBeat /\ axi'.read_beats = axi.read_beats - 1
        /\ axi'.r_last = (axi.read_beats = 2)
        /\ axi'.r_data = read_word(ext, NextBeat)
    BY <1>1, <1>5, <2>2 DEF ReadsProcessed
  <2>5. /\ axi'.read_beats = rd'.beats - (k + 1) + 1
        /\ axi'.r_last = (k + 1 = rd'.beats)
    BY <1>2, <2>4 DEF At
  <2>6. /\ NextBeat % AddrSpace = BeatAddress(k + 1) % AddrSpace
        /\ NextBeat \in Int /\ BeatAddress(k + 1) \in Int
    <3>1. /\ axi.read_address \in Int /\ BeatAddress(k) \in Int
          /\ axi.read_address % AddrSpace = BeatAddress(k) % AddrSpace
          /\ axi.read_size = rd.size
      BY <1>1, <1>2 DEF At, Registers, BeatAddress
    <3>2. /\ NextBeat \in Nat
          /\ NextBeat % AddrSpace = (axi.read_address + 2^rd.size) % AddrSpace
      BY <1>1, <3>1, BumpTyped DEF NextBeat
    <3>3. BeatAddress(k + 1) = BeatAddress(k) + 2^rd.size
      BY <1>1, <1>2 DEF BeatAddress
    <3>4. AddrSpace \in Nat \ {0}
      BY DEF AddrSpace, MemoryConstants
    <3>5. (axi.read_address + 2^rd.size) % AddrSpace
            = (BeatAddress(k) + 2^rd.size) % AddrSpace
      <4>1. 2^rd.size \in Int BY <1>1
      <4> QED BY <3>1, <3>4, <4>1, SameSum, Zenon
    <3> QED
      BY <1>1, <3>1, <3>2, <3>3, <3>5
  <2>7. axi'.r_data \in rd'.seen[k + 1]
    <3>1. axi'.r_data = read_word(ext, BeatAddress(k + 1))
      BY <2>4, <2>6, SameWord
    <3> QED
      BY <2>1, <3>1 DEF IInv, ReadsInStep
  <2> QED
    BY <1>4, <2>3, <2>4, <2>5, <2>6, <2>7 DEF At
<1> QED
  BY <1>3, <1>6, <1>7, <1>8, <1>9 DEF Waiting
\* With no read asked for, or the last beat of one taken, the registers are at rest.
LEMMA ReadDone ==
  ASSUME TypeOK, ReadsInStep, rd = Nothing \/ (RTook /\ rd.left = 1)
  PROVE  ReadAtRest
<1>1. CASE rd = Nothing
  BY <1>1 DEF ReadsInStep
<1>2. CASE rd # Nothing /\ RTook /\ rd.left = 1
  BY <1>2 DEF ReadsInStep, RTook
<1> QED
  BY <1>1, <1>2

\* A read that is asked for is taken in the same cycle.
LEMMA ReadAsked ==
  ASSUME MemoryConstants, IInv, Cycle, ReadAtRest, NEW b \in Reads, ar' = b,
         rd' = [addr |-> b.addr, size |-> b.size, id |-> b.id,
                left |-> b.len + 1, beats |-> b.len + 1, seen |-> Seen(b, memory_Next)]
  PROVE  ReadsInStep'
<1>1. /\ ReadsProcessed(axi') /\ axi \in Registers /\ ext' = memory_Next
  BY Stepped DEF IInv, TypeOK, Cycle, update
<1>2. b \in Bursts /\ 2^b.size \in Nat /\ b # Nothing
  BY DEF MemoryConstants
<1>3. b.len \in Nat /\ b.addr \in Nat
  BY <1>2 DEF Bursts
<1>4. /\ rd'.addr = b.addr /\ rd'.size = b.size /\ rd'.id = b.id
      /\ rd'.left = b.len + 1 /\ rd'.beats = b.len + 1 /\ rd'.seen = Seen(b, memory_Next)
  OBVIOUS
<1>5. rd'.seen \in [1 .. rd'.beats -> SUBSET Word]
  <2>1. \A k \in 1 .. b.len + 1 : b.addr + (k - 1) * 2^b.size \in Int
    BY <1>2, <1>3
  <2>2. memory_Next \in [0 .. MemorySize - 1 -> Int]
    BY <1>1, Stepped DEF TypeOK
  <2> QED
    BY <1>4, <2>1, <2>2, WordTyped DEF Seen
<1>6. rd' # Nothing /\ ar' # Nothing
  <2>1. /\ b.size \in Nat /\ b.id \in Ids /\ b.len + 1 \in Nat
        /\ Seen(b, memory_Next) \in UNION {[1 .. c.len + 1 -> SUBSET Word] : c \in Reads}
    BY <1>2, <1>3, <1>4, <1>5 DEF Bursts
  <2>2. rd' \in [addr : Nat, size : Nat, id : Ids, left : Nat, beats : Nat,
                 seen : UNION {[1 .. c.len + 1 -> SUBSET Word] : c \in Reads}]
    BY <1>3, <2>1
  <2> QED
    BY <1>2, <2>2 DEF MemoryConstants
<1>7. /\ rd'.left \in 1 .. rd'.beats
      /\ \A k \in 1 .. rd'.beats : read_word(ext', BeatAddress(k)') \in rd'.seen[k]
  BY <1>1, <1>3, <1>4 DEF Seen, BeatAddress
<1>8. bus'.ar_ready /\ ~bus'.r_valid /\ ArDone
  BY <1>6, Pins DEF ReadAtRest, ArDone, Cycle
<1>9. At(1)'
  <2>1. BeatAddress(1)' = b.addr
    BY <1>2, <1>3, <1>4 DEF BeatAddress
  <2>2. axi'.r_data \in rd'.seen[1]
    <3>1. axi'.r_data = read_word(ext', b.addr)
      BY <1>1, <1>8 DEF ReadsProcessed
    <3>2. 1 \in 1 .. rd'.beats
      BY <1>3, <1>4
    <3>3. read_word(ext', BeatAddress(1)') \in rd'.seen[1]
      BY <1>7, <3>2
    <3> QED
      BY <2>1, <3>1, <3>3
  <2>3. /\ axi'.r_valid /\ ~axi'.ar_ready /\ axi'.r_id = rd'.id
        /\ axi'.read_size = rd'.size /\ axi'.read_address = b.addr
        /\ axi'.read_beats = b.len + 1 /\ axi'.r_last = (b.len = 0)
    BY <1>1, <1>4, <1>8 DEF ReadsProcessed
  <2>4. /\ axi'.read_beats = rd'.beats - 1 + 1 /\ axi'.r_last = (1 = rd'.beats)
    BY <1>3, <1>4, <2>3
  <2> QED
    BY <2>1, <2>2, <2>3, <2>4 DEF At
<1> QED
  BY <1>4, <1>5, <1>6, <1>7, <1>8, <1>9 DEF ReadsInStep, read_word

\* A cycle in the middle of a read: the manager waits for its address to be taken,
\* or for a beat.
LEMMA ReadGoesOn ==
  ASSUME MemoryConstants, IInv, Cycle, rd # Nothing, ~(RTook /\ rd.left = 1),
         ar' = IF HostTook(ar, bus.ar_ready) THEN Nothing ELSE ar,
         rd' = [rd EXCEPT !.left = IF RTook THEN @ - 1 ELSE @,
           !.seen = [k \in DOMAIN rd.seen |-> rd.seen[k] \cup
             {read_word(memory_Next, rd.addr + (k - 1) * 2^rd.size)}]]
  PROVE  ReadsInStep'
<1> DEFINE moved == [k \in DOMAIN rd.seen |-> rd.seen[k] \cup
                      {read_word(memory_Next, rd.addr + (k - 1) * 2^rd.size)}]
           left  == IF RTook THEN rd.left - 1 ELSE rd.left
<1>1. /\ rd \in ReadBursts /\ 2^rd.size \in Nat /\ ext' = memory_Next
      /\ ready \in [b : BOOLEAN, r : BOOLEAN] /\ TypeOK' /\ ReadsInStep
  BY Stepped DEF IInv, TypeOK, Cycle, update
<1>2. rd.beats \in Nat /\ rd.addr \in Nat /\ rd.left \in 1 .. rd.beats
  BY <1>1 DEF ReadBursts, ReadsInStep
<1>3. /\ rd.seen \in [1 .. rd.beats -> SUBSET Word]
      /\ moved \in [1 .. rd.beats -> SUBSET Word]
  <2>1. rd.seen \in [1 .. rd.beats -> SUBSET Word]
    BY <1>1 DEF ReadsInStep
  <2>2. memory_Next \in [0 .. MemorySize - 1 -> Int]
    BY <1>1 DEF TypeOK
  <2>3. \A k \in 1 .. rd.beats : rd.addr + (k - 1) * 2^rd.size \in Int
    BY <1>1, <1>2
  <2>4. \A k \in 1 .. rd.beats :
          read_word(memory_Next, rd.addr + (k - 1) * 2^rd.size) \in Word
    BY <2>2, <2>3, WordTyped
  <2> QED
    BY <2>1, <2>4
<1>4. \A k \in 1 .. rd.beats : /\ rd.seen[k] \subseteq moved[k]
                               /\ read_word(memory_Next, BeatAddress(k)) \in moved[k]
  BY <1>3 DEF BeatAddress
<1>5. rd' = [rd EXCEPT !.left = left, !.seen = moved]
  OBVIOUS
<1>6. left \in 1 .. rd.beats /\ (RTook => left = rd.left - 1) /\ (~RTook => left = rd.left)
  BY <1>2
<1> HIDE DEF moved, left
<1>7. /\ rd'.addr = rd.addr /\ rd'.size = rd.size /\ rd'.id = rd.id
      /\ rd'.beats = rd.beats /\ rd'.left = left /\ rd'.seen = moved
  BY <1>1, <1>5 DEF ReadBursts
<1>8. rd' # Nothing
  <2>1. rd' \in [addr : Nat, size : Nat, id : Ids, left : Nat, beats : Nat,
                 seen : UNION {[1 .. b.len + 1 -> SUBSET Word] : b \in Reads}]
    <3>1. moved \in UNION {[1 .. b.len + 1 -> SUBSET Word] : b \in Reads}
      <4>1. PICK b \in Reads : rd.seen \in [1 .. b.len + 1 -> SUBSET Word]
        BY <1>1 DEF ReadBursts
      <4>2. 1 .. b.len + 1 = 1 .. rd.beats
        BY <1>3, <4>1
      <4> QED
        BY <1>3, <4>1, <4>2
    <3>2. left \in Nat
      BY <1>2, <1>6
    <3> QED
      BY <1>1, <1>5, <3>1, <3>2 DEF ReadBursts
  <2> QED
    BY <2>1 DEF MemoryConstants
<1>9. \A k : BeatAddress(k)' = BeatAddress(k)
  BY <1>7 DEF BeatAddress
<1>10. \A k \in 1 .. rd'.beats : read_word(ext', BeatAddress(k)') \in rd'.seen[k]
  BY <1>1, <1>4, <1>7, <1>9
<1>11. ar' = Nothing /\ Waiting'
  <2>1. PICK k \in 1 .. rd.beats : At(k) /\ left = rd.beats - k + 1 /\ ar' = Nothing
    <3>1. CASE ar # Nothing
      <4>1. bus.ar_ready /\ ~bus.r_valid /\ rd.left = rd.beats /\ At(1)
        BY <1>1, <3>1 DEF ReadsInStep
      <4> QED
        BY <1>2, <1>6, <3>1, <4>1 DEF HostTook, RTook
    <3>2. CASE ar = Nothing /\ ~ready.r
      <4>1. At(Expected) /\ ~RTook /\ ar' = Nothing
        BY <1>1, <3>2 DEF ReadsInStep, RTook
      <4>2. Expected \in 1 .. rd.beats /\ left = rd.beats - Expected + 1
        BY <1>2, <1>6, <4>1 DEF Expected
      <4> QED
        BY <4>1, <4>2
    <3>3. CASE ar = Nothing /\ ready.r
      <4>1. RTook
        BY <1>1, <3>3 DEF ReadsInStep, RTook
      <4>2. At(Expected + 1) /\ ar' = Nothing
        BY <1>1, <3>3, <4>1 DEF ReadsInStep
      <4>3. Expected + 1 \in 1 .. rd.beats /\ left = rd.beats - (Expected + 1) + 1
        BY <1>2, <1>6, <4>1 DEF Expected
      <4> QED
        BY <4>2, <4>3
    <3> QED
      BY <3>1, <3>2, <3>3
  <2> QED
    BY <1>4, <1>7, <2>1, ReadOn
<1> QED
  BY <1>3, <1>6, <1>7, <1>8, <1>10, <1>11 DEF ReadsInStep, Waiting, read_word

LEMMA ReadsStay ==
  ASSUME MemoryConstants, IInv, Cycle
  PROVE  ReadsInStep'
<1> DEFINE idle == rd = Nothing \/ (RTook /\ rd.left = 1)
<1>1. TypeOK /\ ReadsInStep /\ HostAr
  BY DEF IInv, Cycle
<1>2. CASE idle /\ rd' = Nothing /\ ar' = Nothing
  <2>1. ReadAtRest /\ ReadsProcessed(axi') /\ axi \in Registers
    BY <1>1, <1>2, ReadDone, Stepped DEF TypeOK
  <2>2. ~RDone /\ ~ArDone
    BY <1>2, <2>1 DEF ReadAtRest, RDone, ArDone
  <2>3. ReadAtRest' /\ ~bus'.r_valid
    BY <2>1, <2>2, Pins DEF ReadAtRest, ReadsProcessed, Cycle
  <2> QED
    BY <1>2, <2>3 DEF ReadsInStep
<1>3. ASSUME idle, NEW b \in Reads, ar' = b,
             rd' = [addr |-> b.addr, size |-> b.size, id |-> b.id,
                    left |-> b.len + 1, beats |-> b.len + 1, seen |-> Seen(b, memory_Next)]
      PROVE  ReadsInStep'
  BY <1>1, <1>3, ReadDone, ReadAsked
<1>4. CASE /\ ~idle
           /\ ar' = IF HostTook(ar, bus.ar_ready) THEN Nothing ELSE ar
           /\ rd' = [rd EXCEPT !.left = IF RTook THEN @ - 1 ELSE @,
                !.seen = [k \in DOMAIN rd.seen |-> rd.seen[k] \cup
                  {read_word(memory_Next, rd.addr + (k - 1) * 2^rd.size)}]]
  BY <1>4, ReadGoesOn
<1> QED
  BY <1>1, <1>2, <1>3, <1>4 DEF HostAr
-----------------------------------------------------------------------------
(* Writes *)

\* With no write asked for, or its answer taken, the registers are at rest.
LEMMA WriteDone ==
  ASSUME TypeOK, WritesInStep, wr = Nothing \/ BTook
  PROVE  WriteAtRest /\ w = Nothing
<1>1. CASE wr = Nothing
  BY <1>1 DEF WritesInStep
<1>2. CASE wr # Nothing /\ BTook
  <2>1. wr \in WriteBursts
    BY <1>2 DEF TypeOK
  <2>2. aw = Nothing /\ wr.left = 0
    BY <1>2, <2>1 DEF WritesInStep, BTook, WriteBursts
  <2> QED
    BY <1>2, <2>1, <2>2 DEF WritesInStep, BTook, WriteBursts
<1> QED
  BY <1>1, <1>2

\* The branches of WritesInStep in which the data and the answer are due.
DataDue ==
  /\ bus.w_ready /\ ~bus.b_valid
  /\ IF w = Nothing THEN WantData ELSE HaveData
AnswerDue ==
  /\ ~bus.w_ready /\ bus.b_valid /\ bus.b_id = wr.id
  /\ IF ready.b THEN WriteAtRest ELSE axi.b_valid /\ ~axi.w_ready /\ ~axi.aw_ready

\* Registers that want the data of a burst take the beat as soon as it is there.
LEMMA DataTaken ==
  ASSUME MemoryConstants, IInv, Cycle, aw' = Nothing, wr' # Nothing, wr'.left \in Nat \ {0},
         axi.w_ready, ~axi.aw_ready, ~axi.b_valid,
         axi.write_address = wr'.addr, axi.write_size = wr'.size,
         w' # Nothing => w' \in Beat(wr')
  PROVE  DataDue'
<1>1. WritesProcessed(axi') /\ TypeOK' /\ axi \in Registers
  BY Stepped DEF IInv, TypeOK
<1>2. ~AwDone /\ ~BDone
  BY DEF AwDone, BDone
<1>3. bus'.w_ready /\ ~bus'.b_valid
  BY Pins DEF Cycle
<1>4. CASE w' = Nothing
  <2>1. ~WTaken
    BY <1>4 DEF WTaken
  <2>2. /\ ~axi'.aw_ready /\ axi'.w_ready /\ ~axi'.b_valid
        /\ axi'.write_address = wr'.addr /\ axi'.write_size = wr'.size
    BY <1>1, <1>2, <2>1 DEF WritesProcessed
  <2> QED
    BY <1>3, <1>4, <2>2 DEF WantData, DataDue
<1>5. CASE w' # Nothing
  <2>1. WTaken /\ w'.last = (wr'.left = 1)
    BY <1>5 DEF WTaken, Beat
  <2>2. /\ ~axi'.aw_ready /\ axi'.w_ready = (wr'.left # 1) /\ axi'.b_valid = (wr'.left = 1)
        /\ axi'.write_address = Bump(wr'.addr, wr'.size) /\ axi'.write_size = wr'.size
    BY <1>1, <1>2, <2>1 DEF WritesProcessed
  <2> QED
    BY <1>3, <1>5, <2>2 DEF HaveData, DataDue, Bump
<1> QED
  BY <1>3, <1>4, <1>5 DEF DataDue

\* Registers that have all the data answer, until the answer is taken.
LEMMA Answered ==
  ASSUME MemoryConstants, IInv, Cycle, aw' = Nothing, w' = Nothing,
         axi.b_valid, ~axi.w_ready, ~axi.aw_ready, axi.b_id = wr'.id
  PROVE  AnswerDue'
<1>1. WritesProcessed(axi') /\ axi \in Registers
  BY Stepped DEF IInv, TypeOK
<1>2. ~AwDone /\ ~WTaken /\ BDone = ready'.b
  BY Stepped DEF AwDone, WTaken, BDone, TypeOK
<1>3. ~bus'.w_ready /\ bus'.b_valid /\ bus'.b_id = wr'.id
  BY Pins DEF Cycle
<1>4. ~axi'.w_ready
  BY <1>1, <1>2 DEF WritesProcessed
<1>5. CASE ready'.b
  BY <1>1, <1>2, <1>3, <1>4, <1>5 DEF WritesProcessed, AnswerDue, WriteAtRest
<1>6. CASE ~ready'.b
  BY <1>1, <1>2, <1>3, <1>4, <1>6 DEF WritesProcessed, AnswerDue
<1> QED
  BY <1>5, <1>6

\* A cycle in the middle of a burst: the manager waits for the address or the data
\* to be taken, or for the answer.
LEMMA WriteGoesOn ==
  ASSUME MemoryConstants, IInv, Cycle, wr # Nothing, ~BTook
  PROVE  /\ WritesInStep'
         /\ WTaken => axi.write_address = wr'.addr
<1>1. /\ wr \in WriteBursts /\ WritesInStep /\ WritesProcessed(axi') /\ HostW
      /\ wr' # Nothing => wr' \in WriteBursts
  BY Stepped DEF IInv, TypeOK, Cycle
<1>2. /\ aw' = IF HostTook(aw, bus.aw_ready) THEN Nothing ELSE aw
      /\ wr' = IF HostTook(w, bus.w_ready)
                 THEN [wr EXCEPT !.left = @ - 1, !.addr = Bump(@, wr.size)] ELSE wr
  BY DEF Cycle, HostAw
<1>3. wr.left \in Nat
  BY <1>1 DEF WriteBursts
<1>4. /\ wr' # Nothing /\ wr'.id = wr.id /\ axi.b_id = wr'.id
  <2>1. wr' \in WriteBursts /\ wr'.id = wr.id
    <3>1. CASE ~HostTook(w, bus.w_ready)
      BY <1>2, <1>1, <3>1
    <3>2. CASE HostTook(w, bus.w_ready)
      <4>1. wr.left - 1 \in Nat /\ Bump(wr.addr, wr.size) \in Nat
        <5>1. wr.left > 0
          BY <1>1, <3>2 DEF WritesInStep, HostTook
        <5>2. wr.addr \in Int /\ 2^wr.size \in Nat
          BY <1>1 DEF WriteBursts, IInv, TypeOK
        <5> QED
          BY <1>3, <5>1, <5>2, BumpTyped
      <4> QED
        BY <1>2, <1>1, <3>2, <4>1 DEF WriteBursts
    <3> QED
      BY <3>1, <3>2
  <2> QED
    BY <1>1, <2>1 DEF MemoryConstants, WritesInStep, WriteBursts
<1>5. aw' = Nothing
  BY <1>2, <1>1 DEF WritesInStep, HostTook
<1>6. axi'.b_id = wr'.id
  BY <1>1, <1>4, <1>5 DEF WritesProcessed, AwDone
<1>7. CASE aw # Nothing \/ (wr.left > 0 /\ w = Nothing)
  <2>1. wr' = wr /\ WantData /\ wr.left > 0
    BY <1>2, <1>1, <1>7 DEF WritesInStep, HostTook
  <2>2. w' # Nothing => w' \in Beat(wr')
    BY <1>1, <1>7, <2>1 DEF HostW, WritesInStep
  <2>3. wr'.left \in Nat \ {0}
    BY <1>3, <2>1
  <2>4. DataDue'
    BY <1>4, <1>5, <2>1, <2>2, <2>3, DataTaken DEF WantData
  <2>5. WritesInStep'
    <3>1. wr'.left > 0 /\ wr'.left # 0
      BY <2>3
    <3> QED
      BY <1>4, <1>5, <1>6, <2>2, <3>1, <2>4 DEF WritesInStep, DataDue, Beat
  <2> QED
    BY <2>1, <2>5 DEF WantData
<1>8. CASE aw = Nothing /\ wr.left > 0 /\ w # Nothing
  <2>1. bus.w_ready /\ ~bus.b_valid /\ HaveData
    BY <1>1, <1>8 DEF WritesInStep
  <2>2. /\ wr'.left = wr.left - 1 /\ wr'.size = wr.size
        /\ wr'.addr = Bump(wr.addr, wr.size)
    BY <1>2, <1>1, <1>8, <2>1 DEF HostTook, WriteBursts
  <2>3. w' # Nothing => wr'.left > 0 /\ w' \in Beat(wr')
    BY <1>1, <2>1 DEF HostW
  <2>4. CASE wr.left = 1
    <3>1. wr'.left = 0 /\ w' = Nothing
      BY <2>2, <2>3, <2>4
    <3>2. AnswerDue'
      BY <1>4, <1>5, <2>1, <2>4, <3>1, Answered DEF HaveData
    <3> QED
      BY <1>4, <1>5, <1>6, <3>1, <3>2 DEF WritesInStep, AnswerDue, WTaken
  <2>5. CASE wr.left # 1
    <3>1. wr'.left \in Nat \ {0}
      BY <1>3, <1>8, <2>2, <2>5
    <3>2. DataDue'
      BY <1>4, <1>5, <2>1, <2>2, <2>3, <2>5, <3>1, DataTaken DEF HaveData
    <3> QED
      BY <1>4, <1>5, <1>6, <2>1, <2>2, <2>3, <3>1, <3>2
         DEF WritesInStep, DataDue, HaveData, Beat
  <2> QED
    BY <2>4, <2>5
<1>9. CASE aw = Nothing /\ wr.left = 0
  <2>1. /\ w = Nothing /\ wr' = wr /\ ~ready.b
        /\ axi.b_valid /\ ~axi.w_ready /\ ~axi.aw_ready
    BY <1>2, <1>1, <1>9 DEF WritesInStep, HostTook, BTook
  <2>2. w' = Nothing
    BY <1>1, <1>9, <2>1 DEF HostW
  <2>3. AnswerDue'
    BY <1>4, <1>5, <2>1, <2>2, Answered
  <2> QED
    BY <1>4, <1>5, <1>6, <1>9, <2>1, <2>2, <2>3 DEF WritesInStep, AnswerDue, WTaken
<1> QED
  BY <1>3, <1>7, <1>8, <1>9

\* And the beat the memory takes goes where the manager means it to.
LEMMA WritesStay ==
  ASSUME MemoryConstants, IInv, Cycle
  PROVE  /\ WritesInStep'
         /\ WTaken => axi.write_address = wr'.addr
<1>1. /\ TypeOK /\ WritesInStep /\ HostAw /\ HostW /\ WritesProcessed(axi')
      /\ axi \in Registers
  BY Stepped DEF IInv, TypeOK, Cycle
<1>2. CASE wr # Nothing /\ ~BTook
  BY <1>2, WriteGoesOn
<1>3. CASE wr = Nothing \/ BTook
  <2>1. WriteAtRest /\ w = Nothing
    BY <1>1, <1>3, WriteDone
  <2>2. /\ ~bus'.w_ready /\ ~bus'.b_valid /\ bus'.aw_ready
        /\ ~WTaken /\ ~BDone /\ AwDone = (aw' # Nothing)
        /\ w' # Nothing => wr' # Nothing /\ wr'.left > 0 /\ w' \in Beat(wr')
    BY <1>1, <2>1, Pins DEF WriteAtRest, WTaken, BDone, AwDone, Cycle, HostW
  <2>3. CASE wr' = Nothing /\ aw' = Nothing
    BY <1>1, <2>1, <2>2, <2>3 DEF WritesInStep, WriteAtRest, WritesProcessed
  <2>4. ASSUME NEW b \in Writes, wr' = Start(b),
               aw' = [addr |-> b.addr, size |-> b.size, id |-> b.id]
        PROVE  WritesInStep'
    <3>1. b \in Bursts
      BY DEF MemoryConstants
    <3>2. /\ aw' \in [addr : Nat, size : Nat, id : Ids]
          /\ wr' \in [addr : Nat, size : Nat, id : Ids, left : Nat]
      BY <2>4, <3>1 DEF Bursts, Start
    <3>3. aw' # Nothing /\ wr' # Nothing
      BY <3>2 DEF MemoryConstants
    <3>4. /\ wr'.left = b.len + 1 /\ wr'.left > 0
          /\ wr'.addr = aw'.addr /\ wr'.size = aw'.size /\ wr'.id = aw'.id
      BY <2>4, <3>1 DEF Start, Bursts
    <3>5. axi'.b_id = wr'.id /\ WantData'
      BY <1>1, <2>1, <2>2, <3>3, <3>4 DEF WritesProcessed, WantData, WriteAtRest
    <3> QED
      BY <2>2, <3>3, <3>4, <3>5 DEF WritesInStep, Beat
  <2> QED
    BY <1>1, <1>2, <1>3, <2>2, <2>3, <2>4 DEF HostAw
<1> QED
  BY <1>2, <1>3

LEMMA ShadowStays ==
  ASSUME MemoryConstants, IInv, Cycle
  PROVE  ShadowInStep'
<1>1. shadow' = ext
  BY DEF IInv, ShadowInStep, Cycle, HostShadow, HostTook
<1>2. bus'.w_ready = axi.w_ready
  BY Pins DEF Cycle
<1>3. ext' = IF WTaken THEN write_word(ext, wr'.addr, w'.data, w'.strb) ELSE ext
  BY WritesStay DEF Cycle, update, memory_Next
<1> QED
  BY <1>1, <1>2, <1>3 DEF ShadowInStep, WTaken, write_word

-----------------------------------------------------------------------------
LEMMA InStepAtFirst ==
  ASSUME MemoryConstants, AxiInit
  PROVE  IInv
<1>1. TypeOK
  BY DEF AxiInit, Reset, TypeOK, Registers, MemoryConstants, Word, Lanes
<1>2. ReadsInStep /\ WritesInStep /\ ShadowInStep
  BY DEF AxiInit, Reset, drive, BusFields, ReadsInStep, WritesInStep, ShadowInStep,
         ReadAtRest, WriteAtRest
<1> QED
  BY <1>1, <1>2 DEF IInv

\* Between cycles the memory is in step with its manager.
LEMMA Invariant == SafeSpec => []IInv
<1>1. AxiInit => IInv
  BY MemoryAssumption, InStepAtFirst
<1>2. IInv /\ [Cycle]_axi_vars => IInv'
  <2> SUFFICES ASSUME IInv, [Cycle]_axi_vars
               PROVE  IInv'
    OBVIOUS
  <2>1. CASE Cycle
    BY <2>1, MemoryAssumption, Stepped, ReadsStay, WritesStay, ShadowStays DEF IInv
  <2>2. CASE UNCHANGED axi_vars
    BY <2>2 DEF axi_vars, IInv, TypeOK, ReadsInStep, WritesInStep, ShadowInStep, At,
                BeatAddress, Expected, ReadAtRest, WantData, HaveData, WriteAtRest, Beat
  <2> QED
    BY <2>1, <2>2
<1> QED
  BY <1>1, <1>2, PTL DEF SafeSpec

\* A beat that the memory shows on its pins (axi_mem.cpp) is of the read that the
\* manager asked for: its data is a value its word has held since, its identifier is
\* the burst's, and it is the last when no other is to come.
THEOREM ReadCorrect == SafeSpec => []ReadIsFresh
<1>1. IInv => ReadIsFresh
  BY DEF IInv, ReadsInStep, ReadIsFresh, Expected
<1> QED
  BY <1>1, Invariant, PTL

\* When the memory answers a write (axi_mem.cpp), all its beats have been taken and
\* its memory is what they leave, in the order they were sent.
THEOREM WriteCorrect == SafeSpec => []WriteIsDone
<1>1. IInv => WriteIsDone
  <2> SUFFICES ASSUME IInv, bus.b_valid PROVE WriteIsDone
    BY DEF WriteIsDone
  <2>1. wr # Nothing /\ wr.left \in Nat
    BY DEF IInv, WritesInStep, TypeOK, WriteBursts
  <2>2. aw = Nothing /\ wr.left = 0
    BY <2>1 DEF IInv, WritesInStep
  <2>3. bus.b_id = wr.id /\ ~bus.w_ready
    BY <2>1, <2>2 DEF IInv, WritesInStep
  <2> QED
    BY <2>1, <2>2, <2>3 DEF IInv, ShadowInStep, WriteIsDone
<1> QED
  BY <1>1, Invariant, PTL

-----------------------------------------------------------------------------
(* Bytes on a wire. The low k bits of s are the high k bits of the byte v: *)
(* a receiver has k bits of it.                                            *)

Got(s, v, k) ==
  /\ k = 1 => s % 2 = v \div 128
  /\ k = 2 => s % 4 = v \div 64
  /\ k = 3 => s % 8 = v \div 32
  /\ k = 4 => s % 16 = v \div 16
  /\ k = 5 => s % 32 = v \div 8
  /\ k = 6 => s % 64 = v \div 4
  /\ k = 7 => s % 128 = v \div 2
  /\ k = 8 => s = v

\* A sender has all of v but k bits left, at the high end of its register.
Kept(s, v, k) ==
  /\ k = 0 => s = v
  /\ k = 1 => s = (2 * v) % 256
  /\ k = 2 => s = (4 * v) % 256
  /\ k = 3 => s = (8 * v) % 256
  /\ k = 4 => s = (16 * v) % 256
  /\ k = 5 => s = (32 * v) % 256
  /\ k = 6 => s = (64 * v) % 256
  /\ k = 7 => s = (128 * v) % 256

Bytes == 0 .. 255

LEMMA BitIs ==
  ASSUME NEW v \in Bytes, NEW k \in 0 .. 7
  PROVE  /\ Bit(v, k) \in 0 .. 1
         /\ k = 0 => Bit(v, k) = v \div 128
         /\ k = 1 => Bit(v, k) = (v \div 64) % 2
         /\ k = 2 => Bit(v, k) = (v \div 32) % 2
         /\ k = 3 => Bit(v, k) = (v \div 16) % 2
         /\ k = 4 => Bit(v, k) = (v \div 8) % 2
         /\ k = 5 => Bit(v, k) = (v \div 4) % 2
         /\ k = 6 => Bit(v, k) = (v \div 2) % 2
         /\ k = 7 => Bit(v, k) = v % 2
<1>1. CASE k = 0
  <2>1. Weight[k] = 128 BY <1>1 DEF Weight
  <2>. QED BY <1>1, <2>1 DEF Bit, Bytes
<1>2. CASE k = 1
  <2>1. Weight[k] = 64 BY <1>2 DEF Weight
  <2>. QED BY <1>2, <2>1 DEF Bit, Bytes
<1>3. CASE k = 2
  <2>1. Weight[k] = 32 BY <1>3 DEF Weight
  <2>. QED BY <1>3, <2>1 DEF Bit, Bytes
<1>4. CASE k = 3
  <2>1. Weight[k] = 16 BY <1>4 DEF Weight
  <2>. QED BY <1>4, <2>1 DEF Bit, Bytes
<1>5. CASE k = 4
  <2>1. Weight[k] = 8 BY <1>5 DEF Weight
  <2>. QED BY <1>5, <2>1 DEF Bit, Bytes
<1>6. CASE k = 5
  <2>1. Weight[k] = 4 BY <1>6 DEF Weight
  <2>. QED BY <1>6, <2>1 DEF Bit, Bytes
<1>7. CASE k = 6
  <2>1. Weight[k] = 2 BY <1>7 DEF Weight
  <2>. QED BY <1>7, <2>1 DEF Bit, Bytes
<1>8. CASE k = 7
  <2>1. Weight[k] = 1 BY <1>8 DEF Weight
  <2>. QED BY <1>8, <2>1 DEF Bit, Bytes
<1>. QED BY <1>1, <1>2, <1>3, <1>4, <1>5, <1>6, <1>7, <1>8

\* A receiver that shifts in the next bit has one more.
LEMMA GotOneMore ==
  ASSUME NEW v \in Bytes, NEW s \in Bytes, NEW k \in 0 .. 7, Got(s, v, k),
         NEW m, m = Bit(v, k)
  PROVE  (2 * s + m) % Byte \in Bytes /\ Got((2 * s + m) % Byte, v, k + 1)
<1>. DEFINE t == (2 * s + m) % Byte
<1>1. m \in 0 .. 1 BY BitIs
<1>4. t = (2 * s + m) % 256 BY DEF Byte
<1>5. t = (2 * s + m) % Byte OBVIOUS
<1>. HIDE DEF t
<1>2. /\ t \in Bytes
      /\ t = 2 * s + m \/ (s >= 128 /\ t = 2 * s + m - 256)
  <2>1. CASE s < 128
    <3>1. 2 * s + m \in 0 .. 255 BY <1>1, <2>1 DEF Bytes
    <3>2. t = 2 * s + m BY <3>1, <1>4
    <3>. QED BY <1>1, <3>1, <3>2 DEF Bytes
  <2>2. CASE s >= 128
    <3>1. 2 * s + m - 256 \in 0 .. 255 BY <1>1, <2>2 DEF Bytes
    <3>2. 2 * s + m = 256 + (2 * s + m - 256) BY <1>1 DEF Bytes
    <3>3. (256 + (2 * s + m - 256)) % 256 = 2 * s + m - 256 BY <1>1, <3>1 DEF Bytes
    <3>4. t = 2 * s + m - 256 BY <1>4, <3>2, <3>3
    <3>. QED BY <2>2, <3>1, <3>4 DEF Bytes
  <2>. QED BY <2>1, <2>2 DEF Bytes
<1>3. Got(t, v, k + 1)
  <2>1. CASE k = 0
    <3>1. m = v \div 128 BY <2>1, BitIs
    <3>. QED BY <1>1, <1>2, <2>1, <3>1 DEF Got, Bytes
  <2>2. CASE k = 1
    <3>1. m = (v \div 64) % 2 BY <2>2, BitIs
    <3>2. t % 4 = 2 * (s % 2) + m
      <4>1. CASE t = 2 * s + m BY <1>1, <4>1 DEF Bytes
      <4>2. CASE t = 2 * s + m - 256 BY <1>1, <4>2 DEF Bytes
      <4>. QED BY <1>2, <4>1, <4>2
    <3>3. v \div 64 = 2 * (v \div 128) + m BY <3>1 DEF Bytes
    <3>. QED BY <2>2, <3>2, <3>3 DEF Got
  <2>3. CASE k = 2
    <3>1. m = (v \div 32) % 2 BY <2>3, BitIs
    <3>2. t % 8 = 2 * (s % 4) + m
      <4>1. CASE t = 2 * s + m BY <1>1, <4>1 DEF Bytes
      <4>2. CASE t = 2 * s + m - 256 BY <1>1, <4>2 DEF Bytes
      <4>. QED BY <1>2, <4>1, <4>2
    <3>3. v \div 32 = 2 * (v \div 64) + m BY <3>1 DEF Bytes
    <3>. QED BY <2>3, <3>2, <3>3 DEF Got
  <2>4. CASE k = 3
    <3>1. m = (v \div 16) % 2 BY <2>4, BitIs
    <3>2. t % 16 = 2 * (s % 8) + m
      <4>1. CASE t = 2 * s + m BY <1>1, <4>1 DEF Bytes
      <4>2. CASE t = 2 * s + m - 256 BY <1>1, <4>2 DEF Bytes
      <4>. QED BY <1>2, <4>1, <4>2
    <3>3. v \div 16 = 2 * (v \div 32) + m BY <3>1 DEF Bytes
    <3>. QED BY <2>4, <3>2, <3>3 DEF Got
  <2>5. CASE k = 4
    <3>1. m = (v \div 8) % 2 BY <2>5, BitIs
    <3>2. t % 32 = 2 * (s % 16) + m
      <4>1. CASE t = 2 * s + m BY <1>1, <4>1 DEF Bytes
      <4>2. CASE t = 2 * s + m - 256 BY <1>1, <4>2 DEF Bytes
      <4>. QED BY <1>2, <4>1, <4>2
    <3>3. v \div 8 = 2 * (v \div 16) + m BY <3>1 DEF Bytes
    <3>. QED BY <2>5, <3>2, <3>3 DEF Got
  <2>6. CASE k = 5
    <3>1. m = (v \div 4) % 2 BY <2>6, BitIs
    <3>2. t % 64 = 2 * (s % 32) + m
      <4>1. CASE t = 2 * s + m BY <1>1, <4>1 DEF Bytes
      <4>2. CASE t = 2 * s + m - 256 BY <1>1, <4>2 DEF Bytes
      <4>. QED BY <1>2, <4>1, <4>2
    <3>3. v \div 4 = 2 * (v \div 8) + m BY <3>1 DEF Bytes
    <3>. QED BY <2>6, <3>2, <3>3 DEF Got
  <2>7. CASE k = 6
    <3>1. m = (v \div 2) % 2 BY <2>7, BitIs
    <3>2. t % 128 = 2 * (s % 64) + m
      <4>1. CASE t = 2 * s + m BY <1>1, <4>1 DEF Bytes
      <4>2. CASE t = 2 * s + m - 256 BY <1>1, <4>2 DEF Bytes
      <4>. QED BY <1>2, <4>1, <4>2
    <3>3. v \div 2 = 2 * (v \div 4) + m BY <3>1 DEF Bytes
    <3>. QED BY <2>7, <3>2, <3>3 DEF Got
  <2>8. CASE k = 7
    <3>1. m = v % 2 BY <2>8, BitIs
    <3>2. s % 128 = v \div 2 BY <2>8 DEF Got
    <3>3. v = 2 * (v \div 2) + m BY <3>1 DEF Bytes
    <3>4. t = 2 * (s % 128) + m
      <4>1. CASE s < 128
        <5>1. s % 128 = s BY <4>1 DEF Bytes
        <5>2. t = 2 * s + m BY <1>2, <4>1 DEF Bytes
        <5>. QED BY <5>1, <5>2
      <4>2. CASE s >= 128
        <5>1. s % 128 = s - 128 BY <4>2 DEF Bytes
        <5>2. t = 2 * s + m - 256
          <6>1. t # 2 * s + m BY <1>1, <1>2, <4>2 DEF Bytes
          <6>. QED BY <1>2, <6>1
        <5>. QED BY <1>1, <5>1, <5>2 DEF Bytes
      <4>. QED BY <4>1, <4>2 DEF Bytes
    <3>. QED BY <2>8, <3>2, <3>3, <3>4 DEF Got
  <2>. QED BY <2>1, <2>2, <2>3, <2>4, <2>5, <2>6, <2>7, <2>8
<1>6. t \in Bytes BY <1>2
<1>. QED BY <1>3, <1>5, <1>6

\* A sender drives the bit due and keeps the ones after it.
LEMMA KeptOneLess ==
  ASSUME NEW v \in Bytes, NEW s \in Bytes, NEW k \in 0 .. 7, Kept(s, v, k)
  PROVE  s \div 128 = Bit(v, k) /\ (2 * s) % Byte \in Bytes /\ Kept((2 * s) % Byte, v, k + 1)
<1>0. (2 * s) % Byte \in Bytes BY DEF Byte, Bytes
<1>1. CASE k = 0
  <2>1. Bit(v, k) = v \div 128 BY <1>1, BitIs
  <2>. QED BY <1>0, <1>1, <2>1 DEF Kept, Bytes, Byte
<1>2. CASE k = 1
  <2>1. Bit(v, k) = (v \div 64) % 2 BY <1>2, BitIs
  <2>. QED BY <1>0, <1>2, <2>1 DEF Kept, Bytes, Byte
<1>3. CASE k = 2
  <2>1. Bit(v, k) = (v \div 32) % 2 BY <1>3, BitIs
  <2>. QED BY <1>0, <1>3, <2>1 DEF Kept, Bytes, Byte
<1>4. CASE k = 3
  <2>1. Bit(v, k) = (v \div 16) % 2 BY <1>4, BitIs
  <2>. QED BY <1>0, <1>4, <2>1 DEF Kept, Bytes, Byte
<1>5. CASE k = 4
  <2>1. Bit(v, k) = (v \div 8) % 2 BY <1>5, BitIs
  <2>. QED BY <1>0, <1>5, <2>1 DEF Kept, Bytes, Byte
<1>6. CASE k = 5
  <2>1. Bit(v, k) = (v \div 4) % 2 BY <1>6, BitIs
  <2>. QED BY <1>0, <1>6, <2>1 DEF Kept, Bytes, Byte
<1>7. CASE k = 6
  <2>1. Bit(v, k) = (v \div 2) % 2 BY <1>7, BitIs
  <2>. QED BY <1>0, <1>7, <2>1 DEF Kept, Bytes, Byte
<1>8. CASE k = 7
  <2>1. Bit(v, k) = v % 2 BY <1>8, BitIs
  <2>. QED BY <1>0, <1>8, <2>1 DEF Kept, Bytes, Byte
<1>. QED BY <1>1, <1>2, <1>3, <1>4, <1>5, <1>6, <1>7, <1>8

-----------------------------------------------------------------------------
(* The flash and the host agree on the bit they are at: while the host     *)
(* sends, the flash has as many bits of the byte as were sent; while it    *)
(* reads, the flash is at the byte the host is at, and has as many bits    *)
(* left of it as the host has not taken.                                   *)

\* The byte at the host's place.
Due(h) == IF h.command = CMD_READ THEN read_byte((h.address + Len(h.bytes)) % MEMORY_SIZE)
          ELSE JEDEC_ID[Len(h.bytes) % 3]
Cursor(h) == IF h.command = CMD_READ THEN (h.address + Len(h.bytes)) % MEMORY_SIZE
             ELSE Len(h.bytes) % 3

FlashRegisters ==
  [phase : {"Command", "Address", "Read", "Id"}, shift_in : Bytes, shift_out : Bytes,
   bit : 0 .. 7, address_bytes : 0 .. 3, address : 0 .. MEMORY_SIZE - 1, miso : 0 .. 1]
FlashPins == [selected : BOOLEAN, sck : 0 .. 1, mosi : 0 .. 1]
Transactions ==
  [command : FlashCommands, address : 0 .. MEMORY_SIZE - 1, sent : 0 .. 32,
   in : Bytes, bits : 0 .. 7, bytes : Seq(Bytes)]

FlashTypes ==
  /\ nor \in FlashRegisters
  /\ pins \in FlashPins
  /\ host \in Transactions

InPhase ==
  /\ host.sent < 8 => nor.phase = "Command" /\ nor.address = 0 /\ nor.address_bytes = 0
  /\ host.sent >= 8 => nor.phase = "Address"
  /\ host.sent \in 8 .. 15 => nor.address = 0 /\ nor.address_bytes = 0
  /\ host.sent \in 16 .. 23 => nor.address = host.address \div (Byte * Byte) /\ nor.address_bytes = 1
  /\ host.sent \in 24 .. 31 => nor.address = host.address \div Byte /\ nor.address_bytes = 2

SendsInStep ==
  /\ host.bits = 0 /\ Len(host.bytes) = 0
  /\ nor.bit = host.sent % 8
  /\ Got(nor.shift_in, ByteToSend(host), host.sent % 8)
  /\ InPhase
  /\ pins.sck = 0 => pins.mosi = Mosi(host)

TakesInStep ==
  /\ host.sent = BitsToSend(host)
  /\ nor.phase = (IF host.command = CMD_READ THEN "Read" ELSE "Id")
  /\ nor.bit = host.bits
  /\ nor.address = Cursor(host)
  /\ Got(host.in, Due(host), host.bits)
  /\ pins.sck = 1 => Kept(nor.shift_out, Due(host), host.bits)
  /\ pins.sck = 0 => /\ Kept(nor.shift_out, Due(host), host.bits + 1)
                     /\ nor.miso = Bit(Due(host), host.bits)

FlashInv ==
  /\ FlashTypes
  /\ BytesAreFlash
  /\ ~pins.selected => pins.sck = 0
  /\ pins.selected /\ Sending(host) => SendsInStep
  /\ pins.selected /\ ~Sending(host) => TakesInStep

LEMMA Sizes ==
  MEMORY_SIZE \in Int /\ PAGE_SIZE \in Int /\ PAGES \in Int /\ MEMORY_SIZE > 3
BY SMT DEF PAGE_SIZE, PAGES, MEMORY_SIZE

\* Addresses have 24 bits.
LEMMA Width == MEMORY_SIZE - 1 = 4096 * 4096 - 1
BY SMT DEF PAGE_SIZE, PAGES, MEMORY_SIZE

LEMMA ReadsByte ==
  ASSUME NEW a \in 0 .. MEMORY_SIZE - 1
  PROVE  read_byte(a) \in Bytes
<1>1. a \in Int /\ 0 <= a /\ a <= MEMORY_SIZE - 1 BY Sizes
<1>2. a \div PAGE_SIZE \in 0 .. PAGES - 1
  <2>1. a \in Int /\ 0 <= a /\ a <= 4096 * 4096 - 1 BY <1>1, Width
  <2>2. a \div 4096 <= 4095 /\ a \div 4096 \in Int /\ a \div 4096 >= 0 BY <2>1, SMT
  <2>. QED BY <2>2, Sizes DEF PAGE_SIZE, PAGES
<1>3. a % PAGE_SIZE \in 0 .. PAGE_SIZE - 1
  <2>1. 0 <= a % 4096 /\ a % 4096 < 4096 /\ a % 4096 \in Int BY <1>1
  <2>. QED BY <2>1, Sizes DEF PAGE_SIZE
<1>4. PageAt[a \div PAGE_SIZE] \in DOMAIN Pages BY <1>2, FlashAssumption
<1>5. Pages[PageAt[a \div PAGE_SIZE]] \in [0 .. PAGE_SIZE - 1 -> 0 .. 255]
  BY <1>4, FlashAssumption
<1>. QED BY <1>3, <1>5 DEF read_byte, Bytes

LEMMA IdByte == ASSUME NEW i \in 0 .. 2 PROVE JEDEC_ID[i] \in Bytes
BY DEF JEDEC_ID, Bytes

LEMMA InMemory ==
  ASSUME NEW a \in Int
  PROVE  a % MEMORY_SIZE \in 0 .. MEMORY_SIZE - 1
BY Sizes

LEMMA InThree ==
  ASSUME NEW n \in Nat
  PROVE  n % 3 \in 0 .. 2 /\ n % 3 \in 0 .. MEMORY_SIZE - 1
BY Sizes

LEMMA DueIsByte ==
  ASSUME NEW h, h.address \in 0 .. MEMORY_SIZE - 1, Len(h.bytes) \in Nat
  PROVE  Due(h) \in Bytes /\ Cursor(h) \in 0 .. MEMORY_SIZE - 1
<1>0. h.address \in Int BY Sizes
<1>1. (h.address + Len(h.bytes)) % MEMORY_SIZE \in 0 .. MEMORY_SIZE - 1
  <2>1. h.address + Len(h.bytes) \in Int BY <1>0
  <2>. QED BY <2>1, InMemory, Zenon
<1>2. Len(h.bytes) % 3 \in 0 .. 2
  <2>1. \A n \in Nat : n % 3 \in 0 .. 2 OBVIOUS
  <2>. QED BY <2>1
<1>3. JEDEC_ID[Len(h.bytes) % 3] \in Bytes BY <1>2, IdByte
<1>4. read_byte((h.address + Len(h.bytes)) % MEMORY_SIZE) \in Bytes BY <1>1, ReadsByte
<1>5. Cursor(h) \in 0 .. MEMORY_SIZE - 1
  <2>1. Len(h.bytes) % 3 \in 0 .. MEMORY_SIZE - 1 BY InThree, Zenon
  <2>. QED BY <1>1, <2>1 DEF Cursor
<1>6. Due(h) \in Bytes
  <2>1. CASE h.command = CMD_READ BY <1>4, <2>1 DEF Due
  <2>2. CASE h.command # CMD_READ BY <1>3, <2>2 DEF Due
  <2>. QED BY <2>1, <2>2
<1>. QED BY <1>5, <1>6

\* A host's byte is a byte, and its bits are bits.
LEMMA SendsBytes ==
  ASSUME NEW h, h.command \in FlashCommands, h.address \in 0 .. MEMORY_SIZE - 1,
         h.sent \in 0 .. 32
  PROVE  ByteToSend(h) \in Bytes /\ Mosi(h) \in 0 .. 1
<1>. DEFINE a == h.address
<1>1. a \in Int /\ 0 <= a /\ a <= 4096 * 4096 - 1 BY Sizes, Width
<1>. HIDE DEF a
<1>2. a \div (Byte * Byte) \in Bytes
  <2>1. 0 <= a \div 65536 /\ a \div 65536 <= 255 /\ a \div 65536 \in Int BY <1>1, SMT
  <2>2. a \div (Byte * Byte) = a \div 65536 BY SMT DEF Byte
  <2>. QED BY <2>1, <2>2, SMT DEF Bytes
<1>3. (a \div Byte) % Byte \in Bytes /\ a % Byte \in Bytes BY <1>1, SMT DEF Byte, Bytes
<1>4. h.command \in Bytes BY DEF FlashCommands, CMD_READ, CMD_JEDEC_ID, Bytes
<1>5. ByteToSend(h) \in Bytes BY <1>2, <1>3, <1>4 DEF ByteToSend, a
<1>6. h.sent % 8 \in 0 .. 7 OBVIOUS
<1>7. Bit(ByteToSend(h), h.sent % 8) \in 0 .. 1 BY <1>5, <1>6, BitIs
<1>. QED BY <1>5, <1>7 DEF Mosi

USE DEF FlashRegisters, FlashPins, Transactions

LEMMA FlashStarts == FlashInit => FlashInv
<1>. SUFFICES ASSUME FlashInit PROVE FlashInv
  OBVIOUS
<1>1. host = Transaction(CMD_READ, 0) /\ ~pins.selected /\ pins.sck = 0 BY DEF FlashInit
<1>2. FlashTypes
  <2>1. 0 \in 0 .. MEMORY_SIZE - 1 BY Sizes
  <2>2. nor \in FlashRegisters
    BY <2>1 DEF FlashInit, Bytes
  <2>3. pins \in FlashPins BY DEF FlashInit
  <2>4. <<>> \in Seq(Bytes) OBVIOUS
  <2>5. host \in Transactions
    BY <1>1, <2>1, <2>4 DEF Transaction, FlashCommands, Bytes
  <2>. QED BY <2>2, <2>3, <2>5 DEF FlashTypes
<1>3. BytesAreFlash
  <2>1. host.bytes = <<>> BY <1>1 DEF Transaction
  <2>. QED BY <2>1 DEF BytesAreFlash
<1>. QED BY <1>1, <1>2, <1>3 DEF FlashInv

\* A transaction begins with nothing of the one before it.
LEMMA SelectStep ==
  ASSUME FlashInv, Select
  PROVE  FlashInv'
<1>1. PICK c \in FlashCommands, a \in 0 .. MEMORY_SIZE - 1 : host' = Transaction(c, a)
  <2>1. 0 \in 0 .. MEMORY_SIZE - 1 BY Sizes
  <2>. QED BY <2>1, FlashAssumption DEF Select, FlashCommands
<1>2. ~pins.selected /\ pins.sck = 0 BY DEF Select, FlashInv
<1>3. pins' = [selected |-> TRUE, sck |-> 0, mosi |-> Mosi(host')] BY DEF Select, Edge
<1>4. nor' = begin_transaction(nor) BY <1>2, <1>3 DEF Select, Edge, update_flash
<1>5. /\ host'.command = c /\ host'.address = a /\ host'.sent = 0 /\ host'.in = 0
      /\ host'.bits = 0 /\ host'.bytes = <<>>
  BY <1>1 DEF Transaction
<1>6. Mosi(host') \in 0 .. 1 BY <1>5, SendsBytes
<1>7. pins'.selected /\ pins'.sck = 0 /\ pins'.mosi = Mosi(host') BY <1>3
<1>8. /\ nor'.phase = "Command" /\ nor'.shift_in = 0 /\ nor'.bit = 0
      /\ nor'.address_bytes = 0 /\ nor'.address = 0
  BY <1>4 DEF begin_transaction, FlashInv, FlashTypes
<1>9. FlashTypes'
  <2>1. 0 \in 0 .. MEMORY_SIZE - 1 BY Sizes
  <2>2. nor' \in FlashRegisters
    <3>1. nor \in FlashRegisters
      BY DEF FlashInv, FlashTypes
    <3>2. nor' = [phase |-> "Command", shift_in |-> 0, shift_out |-> nor.shift_out, bit |-> 0,
                  address_bytes |-> 0, address |-> 0, miso |-> nor.miso]
      BY <1>4, <3>1 DEF begin_transaction
    <3>3. 0 \in Bytes BY DEF Bytes
    <3>. QED BY <2>1, <3>1, <3>2, <3>3
  <2>3. pins' \in FlashPins BY <1>3, <1>6
  <2>4. <<>> \in Seq(Bytes) OBVIOUS
  <2>5. host' \in Transactions
    BY <1>1, <2>1, <2>4 DEF Transaction, Bytes
  <2>. QED BY <2>2, <2>3, <2>5 DEF FlashTypes
<1>10. Sending(host') BY <1>5 DEF Sending, BitsToSend
<1>11. SendsInStep'
  <2>1. host'.sent % 8 = 0 BY <1>5
  <2>2. Len(host'.bytes) = 0 BY <1>5
  <2>3. Got(nor'.shift_in, ByteToSend(host'), host'.sent % 8) BY <2>1 DEF Got
  <2>4. InPhase' BY <1>5, <1>8 DEF InPhase
  <2>. QED BY <1>5, <1>7, <1>8, <2>1, <2>2, <2>3, <2>4 DEF SendsInStep
<1>12. BytesAreFlash' BY <1>5 DEF BytesAreFlash
<1>. QED BY <1>7, <1>9, <1>10, <1>11, <1>12 DEF FlashInv

LEMMA DeselectStep ==
  ASSUME FlashInv, Deselect
  PROVE  FlashInv'
<1>1. UNCHANGED host /\ pins' = [pins EXCEPT !.selected = FALSE, !.sck = 0]
  BY DEF Deselect, Edge
<1>2. ~pins'.selected /\ pins'.sck = 0 BY <1>1 DEF FlashInv, FlashTypes
<1>3. nor' = [nor EXCEPT !.miso = 0]
  BY <1>2 DEF Deselect, Edge, update_flash, FlashInv, FlashTypes
<1>4. FlashTypes'
  <2>1. pins' \in FlashPins
    <3>1. pins \in FlashPins
      BY DEF FlashInv, FlashTypes
    <3>2. pins' = [selected |-> FALSE, sck |-> 0, mosi |-> pins.mosi] BY <1>1, <3>1
    <3>. QED BY <3>1, <3>2
  <2>2. nor' \in FlashRegisters
    BY <1>3 DEF FlashInv, FlashTypes
  <2>. QED BY <1>1, <2>1, <2>2 DEF FlashInv, FlashTypes
<1>5. BytesAreFlash' BY <1>1 DEF FlashInv, BytesAreFlash
<1>. QED BY <1>2, <1>4, <1>5 DEF FlashInv

\* The next bit is put out, by the one or by the other.
LEMMA FallStep ==
  ASSUME FlashInv, Fall
  PROVE  FlashInv'
<1>. USE DEF FlashInv
<1>1. /\ UNCHANGED host /\ pins.selected /\ pins.sck = 1
      /\ pins' = [selected |-> TRUE, sck |-> 0, mosi |-> Mosi(host)]
  BY DEF Fall, Edge
<1>2. pins'.selected /\ pins'.sck = 0 /\ pins'.mosi = Mosi(host) BY <1>1
<1>3. nor' = IF nor.phase \in {"Read", "Id"} THEN drive_bit(nor) ELSE nor
  BY <1>1, <1>2 DEF Fall, Edge, update_flash
<1>4. /\ host.command \in FlashCommands /\ host.address \in 0 .. MEMORY_SIZE - 1
      /\ host.sent \in 0 .. 32 /\ host.bits \in 0 .. 7 /\ Len(host.bytes) \in Nat
  BY DEF FlashTypes
<1>5. Mosi(host) \in 0 .. 1 BY <1>4, SendsBytes
<1>6. pins' \in FlashPins BY <1>1, <1>5
<1>7. BytesAreFlash' BY <1>1 DEF BytesAreFlash
<1>8. CASE Sending(host)
  <2>1. SendsInStep BY <1>1, <1>8
  <2>2. nor' = nor
    <3>1. host.sent \in 0 .. 31 BY <1>4, <1>8 DEF Sending, BitsToSend
    <3>2. nor.phase \in {"Command", "Address"}
      <4>1. /\ host.sent < 8 => nor.phase = "Command"
            /\ host.sent >= 8 => nor.phase = "Address"
        BY <2>1 DEF SendsInStep, InPhase
      <4>. QED BY <3>1, <4>1
    <3>. QED BY <1>3, <3>2
  <2>3. SendsInStep' BY <1>1, <1>2, <2>1, <2>2 DEF SendsInStep, InPhase
  <2>4. FlashTypes' BY <1>1, <1>6, <2>2 DEF FlashTypes
  <2>. QED BY <1>1, <1>2, <1>7, <1>8, <2>3, <2>4
<1>9. CASE ~Sending(host)
  <2>1. TakesInStep BY <1>1, <1>9
  <2>2. nor' = drive_bit(nor) BY <1>3, <2>1 DEF TakesInStep
  <2>3. Due(host) \in Bytes BY <1>4, DueIsByte
  <2>4. Kept(nor.shift_out, Due(host), host.bits) BY <1>1, <2>1 DEF TakesInStep
  <2>5. nor.shift_out \in Bytes BY DEF FlashTypes
  <2>6. /\ nor.shift_out \div 128 = Bit(Due(host), host.bits)
        /\ (2 * nor.shift_out) % Byte \in Bytes
        /\ Kept((2 * nor.shift_out) % Byte, Due(host), host.bits + 1)
    BY <1>4, <2>3, <2>4, <2>5, KeptOneLess
  <2>7. Bit(Due(host), host.bits) \in 0 .. 1 BY <1>4, <2>3, BitIs
  <2>8. /\ nor'.miso = nor.shift_out \div 128 /\ nor'.shift_out = (2 * nor.shift_out) % Byte
        /\ nor'.phase = nor.phase /\ nor'.bit = nor.bit /\ nor'.address = nor.address
    BY <2>2 DEF drive_bit, FlashTypes
  <2>9. nor' \in FlashRegisters
    BY <2>2, <2>6, <2>7 DEF drive_bit, FlashTypes
  <2>10. TakesInStep' BY <1>1, <1>2, <2>1, <2>6, <2>8 DEF TakesInStep
  <2>11. FlashTypes' BY <1>1, <1>6, <2>9 DEF FlashTypes
  <2>. QED BY <1>1, <1>2, <1>7, <1>9, <2>10, <2>11
<1>. QED BY <1>8, <1>9

\* An address arrives a byte at a time.
LEMMA AddressArrives ==
  ASSUME NEW a \in 0 .. MEMORY_SIZE - 1
  PROVE  /\ Byte * 0 + a \div (Byte * Byte) = a \div (Byte * Byte)
         /\ Byte * (a \div (Byte * Byte)) + ((a \div Byte) % Byte) = a \div Byte
         /\ Byte * (a \div Byte) + (a % Byte) = a
         /\ a \div (Byte * Byte) \in 0 .. MEMORY_SIZE - 1
         /\ a \div Byte \in 0 .. MEMORY_SIZE - 1
<1>0. a \in Nat /\ a <= MEMORY_SIZE - 1 BY Sizes
<1>1. a \div (Byte * Byte) = a \div 65536 BY SMT DEF Byte
<1>2. a \div 65536 \in Nat /\ a \div 65536 <= a BY <1>0, SMT
<1>3. a \div Byte \in Nat /\ a \div Byte <= a BY <1>0, SMT DEF Byte
<1>4. (a \div Byte) \div Byte = a \div 65536 BY <1>0, SMT DEF Byte
<1>5. Byte \in Nat \ {0} BY DEF Byte
<1>6. Byte * (a \div Byte) + (a % Byte) = a BY <1>0, <1>5, Divided
<1>7. Byte * ((a \div Byte) \div Byte) + ((a \div Byte) % Byte) = a \div Byte
  BY <1>3, <1>5, Divided
<1>8. Byte * 0 + a \div (Byte * Byte) = a \div (Byte * Byte) BY <1>1, <1>2, SMT DEF Byte
<1>9. a \div (Byte * Byte) \in 0 .. MEMORY_SIZE - 1 BY <1>0, <1>1, <1>2, Sizes, SMT
<1>10. a \div Byte \in 0 .. MEMORY_SIZE - 1 BY <1>0, <1>3, Sizes
<1>. QED BY <1>1, <1>4, <1>6, <1>7, <1>8, <1>9, <1>10

\* The flash samples the bit the host has put out.
LEMMA BitArrives ==
  ASSUME FlashInv, Rise, Sending(host)
  PROVE  LET s == (2 * nor.shift_in + pins.mosi) % Byte
             g == [nor EXCEPT !.shift_in = s, !.bit = (@ + 1) % 8]
         IN /\ nor' = IF nor.bit = 7 THEN finish_byte(g) ELSE g
            /\ s \in Bytes /\ Got(s, ByteToSend(host), nor.bit + 1)
            /\ nor.bit = host.sent % 8
            /\ pins' = [pins EXCEPT !.sck = 1] /\ pins'.selected /\ pins'.sck = 1
            /\ pins' \in FlashPins
            /\ host' = [host EXCEPT !.sent = @ + 1]
            /\ SendsInStep
<1>1. pins.selected /\ pins.sck = 0 /\ pins' = [pins EXCEPT !.sck = 1] BY DEF Rise, Edge
<1>2. pins \in FlashPins BY DEF FlashInv, FlashTypes
<1>3. /\ pins'.selected /\ pins'.sck = 1 /\ pins'.mosi = pins.mosi
  BY <1>1, <1>2
<1>4. pins' \in FlashPins BY <1>1, <1>2
<1>5. nor' = sample_bit(nor, pins.mosi) BY <1>1, <1>3 DEF Rise, Edge, update_flash
<1>6. nor \in FlashRegisters BY DEF FlashInv, FlashTypes
<1>7. SendsInStep BY <1>1 DEF FlashInv
<1>8. host' = [host EXCEPT !.sent = @ + 1] BY DEF Rise
<1>9. /\ host.command \in FlashCommands /\ host.address \in 0 .. MEMORY_SIZE - 1
      /\ host.sent \in 0 .. 32
  BY DEF FlashInv, FlashTypes
<1>10. nor.bit = host.sent % 8 /\ nor.bit \in 0 .. 7
  BY <1>6, <1>7 DEF SendsInStep, FlashRegisters
<1>11. pins.mosi = Bit(ByteToSend(host), nor.bit)
  BY <1>1, <1>7, <1>10 DEF SendsInStep, Mosi
<1>12. Got(nor.shift_in, ByteToSend(host), nor.bit) BY <1>7, <1>10 DEF SendsInStep
<1>13. nor.shift_in \in Bytes BY <1>6 DEF FlashRegisters
<1>14. ByteToSend(host) \in Bytes BY <1>9, SendsBytes
<1>15. /\ (2 * nor.shift_in + pins.mosi) % Byte \in Bytes
       /\ Got((2 * nor.shift_in + pins.mosi) % Byte, ByteToSend(host), nor.bit + 1)
  BY <1>10, <1>11, <1>12, <1>13, <1>14, GotOneMore
<1>16. nor' = LET g == [nor EXCEPT !.shift_in = (2 * nor.shift_in + pins.mosi) % Byte,
                                 !.bit = (@ + 1) % 8]
             IN IF nor.bit = 7 THEN finish_byte(g) ELSE g
  BY <1>5 DEF sample_bit
<1>. QED BY <1>1, <1>3, <1>4, <1>7, <1>8, <1>10, <1>15, <1>16

HIDE DEF FlashRegisters, FlashPins, Transactions

LEMMA FlashTyped ==
  ASSUME FlashInv
  PROVE  /\ nor \in FlashRegisters /\ nor.bit \in 0 .. 7 /\ nor.shift_in \in Bytes
         /\ nor.address \in 0 .. MEMORY_SIZE - 1 /\ nor.address_bytes \in 0 .. 3
         /\ host \in Transactions /\ host.command \in FlashCommands
         /\ host.address \in 0 .. MEMORY_SIZE - 1 /\ host.sent \in 0 .. 32
         /\ host.in \in Bytes /\ host.bits \in 0 .. 7 /\ host.bytes \in Seq(Bytes)
         /\ Len(host.bytes) \in Nat
BY DEF FlashInv, FlashTypes, FlashRegisters, Transactions

LEMMA SentOne ==
  ASSUME NEW h \in Transactions, NEW n \in 0 .. 32, NEW g, g = [h EXCEPT !.sent = n]
  PROVE  /\ g \in Transactions /\ g.sent = n
         /\ g.command = h.command /\ g.address = h.address /\ g.in = h.in
         /\ g.bits = h.bits /\ g.bytes = h.bytes
BY DEF Transactions

\* A bit of a byte.
LEMMA RiseInByte ==
  ASSUME FlashInv, Rise, Sending(host), nor.bit # 7
  PROVE  FlashInv'
<1>. DEFINE s == (2 * nor.shift_in + pins.mosi) % Byte
<1>1. /\ s \in Bytes /\ Got(s, ByteToSend(host), nor.bit + 1)
      /\ nor' = [nor EXCEPT !.shift_in = s, !.bit = (@ + 1) % 8]
  BY BitArrives
<1>. HIDE DEF s
<1>2. /\ nor.bit = host.sent % 8 /\ pins'.selected /\ pins'.sck = 1
      /\ pins' \in FlashPins
      /\ host' = [host EXCEPT !.sent = @ + 1] /\ SendsInStep
  BY BitArrives
<1>3. nor \in FlashRegisters /\ host \in Transactions /\ nor.bit \in 0 .. 6
  BY FlashTyped
<1>5. host.sent \in 0 .. 31 /\ host.sent < BitsToSend(host)
  <2>1. BitsToSend(host) <= 32 /\ BitsToSend(host) \in Int BY DEF BitsToSend
  <2>. QED BY <2>1, FlashTyped DEF Sending
<1>4. host' = [host EXCEPT !.sent = host.sent + 1] /\ host.sent + 1 \in 0 .. 32
  BY <1>2, <1>5
<1>6. /\ host' \in Transactions
      /\ host'.command = host.command /\ host'.address = host.address
      /\ host'.sent = host.sent + 1 /\ host'.in = host.in /\ host'.bits = host.bits
      /\ host'.bytes = host.bytes
  BY <1>3, <1>4, SentOne
<1>7. (nor.bit + 1) % 8 = nor.bit + 1 /\ nor.bit + 1 \in 0 .. 7 BY <1>3
<1>8. host'.sent % 8 = nor.bit + 1 /\ host'.sent \div 8 = host.sent \div 8
  <2>1. ASSUME NEW n \in 0 .. 31, n % 8 # 7
        PROVE  (n + 1) % 8 = (n % 8) + 1 /\ (n + 1) \div 8 = n \div 8
    BY <2>1
  <2>2. host.sent % 8 # 7 BY <1>2
  <2>. QED BY <1>2, <1>5, <1>6, <2>1, <2>2
<1>9. Sending(host')
  <2>1. BitsToSend(host') = BitsToSend(host) BY <1>6 DEF BitsToSend
  <2>2. BitsToSend(host) \in {8, 32} BY DEF BitsToSend
  <2>. QED BY <1>2, <1>5, <1>6, <1>7, <2>1, <2>2 DEF Sending
<1>10. ByteToSend(host') = ByteToSend(host)
  BY <1>5, <1>6, <1>8 DEF ByteToSend
<1>16. nor' = [nor EXCEPT !.shift_in = s, !.bit = nor.bit + 1] BY <1>1, <1>7
<1>11. /\ nor' \in FlashRegisters
       /\ nor'.shift_in = s /\ nor'.bit = nor.bit + 1 /\ nor'.phase = nor.phase
       /\ nor'.address = nor.address /\ nor'.address_bytes = nor.address_bytes
  <2>. DEFINE k == nor.bit + 1
  <2>1. s \in Bytes /\ nor \in FlashRegisters /\ k \in 0 .. 7 BY <1>1, <1>3, <1>7
  <2>2. nor' = [nor EXCEPT !.shift_in = s, !.bit = k] BY <1>16
  <2>. HIDE DEF k
  <2>3. /\ nor' \in FlashRegisters
        /\ nor'.shift_in = s /\ nor'.bit = k /\ nor'.phase = nor.phase
        /\ nor'.address = nor.address /\ nor'.address_bytes = nor.address_bytes
    BY <2>1, <2>2 DEF FlashRegisters
  <2>. QED BY <2>3 DEF k
<1>12. InPhase'
  <2>1. InPhase BY <1>2 DEF SendsInStep
  <2>2. \/ host.sent < 8 /\ host'.sent < 8
        \/ host.sent \in 8 .. 15 /\ host'.sent \in 8 .. 15
        \/ host.sent \in 16 .. 23 /\ host'.sent \in 16 .. 23
        \/ host.sent \in 24 .. 31 /\ host'.sent \in 24 .. 31
    BY <1>5, <1>6, <1>8
  <2>. QED BY <1>5, <1>6, <1>11, <2>1, <2>2 DEF InPhase
<1>13. SendsInStep'
  <2>1. Got(nor'.shift_in, ByteToSend(host'), host'.sent % 8) BY <1>1, <1>8, <1>10, <1>11, Zenon
  <2>. QED BY <1>2, <1>6, <1>8, <1>11, <1>12, <2>1 DEF SendsInStep
<1>14. FlashTypes' BY <1>2, <1>6, <1>11 DEF FlashTypes
<1>15. BytesAreFlash' BY <1>6 DEF FlashInv, BytesAreFlash
<1>. QED BY <1>2, <1>9, <1>13, <1>14, <1>15 DEF FlashInv

LEMMA WithByte ==
  ASSUME NEW f \in FlashRegisters, NEW s \in Bytes, NEW k \in 0 .. 7
  PROVE  [f EXCEPT !.shift_in = s, !.bit = k] \in FlashRegisters
BY DEF FlashRegisters

LEMMA WithAddress ==
  ASSUME NEW f \in FlashRegisters, NEW a \in 0 .. MEMORY_SIZE - 1, NEW n \in 0 .. 3
  PROVE  [f EXCEPT !.address = a, !.address_bytes = n] \in FlashRegisters
BY DEF FlashRegisters

\* The last bit of a byte: the flash has the byte, and turns to what comes next.
LEMMA ByteArrives ==
  ASSUME FlashInv, Rise, Sending(host), nor.bit = 7
  PROVE  LET g == [nor EXCEPT !.shift_in = ByteToSend(host), !.bit = 0]
         IN /\ nor' = finish_byte(g) /\ g \in FlashRegisters
            /\ g.shift_in = ByteToSend(host) /\ g.bit = 0
            /\ g.phase = nor.phase /\ g.address = nor.address
            /\ g.address_bytes = nor.address_bytes
<1>. DEFINE s == (2 * nor.shift_in + pins.mosi) % Byte
<1>1. /\ s \in Bytes /\ Got(s, ByteToSend(host), nor.bit + 1)
      /\ nor' = finish_byte([nor EXCEPT !.shift_in = s, !.bit = (@ + 1) % 8])
  BY BitArrives
<1>. HIDE DEF s
<1>2. nor \in FlashRegisters BY FlashTyped
<1>3. nor.bit + 1 = 8 /\ (nor.bit + 1) % 8 = 0 OBVIOUS
<1>4. s = ByteToSend(host)
  <2>1. Got(s, ByteToSend(host), nor.bit + 1) BY <1>1
  <2>2. \A k : k = 8 /\ Got(s, ByteToSend(host), k) => s = ByteToSend(host) BY DEF Got
  <2>. QED BY <1>3, <2>1, <2>2
<1>5. nor' = finish_byte([nor EXCEPT !.shift_in = ByteToSend(host), !.bit = 0])
  BY <1>1, <1>3, <1>4
<1>6. ByteToSend(host) \in Bytes BY <1>1, <1>4
<1>9. PICK g : g = [nor EXCEPT !.shift_in = ByteToSend(host), !.bit = 0] OBVIOUS
<1>7. g \in FlashRegisters
  <2>1. 0 \in 0 .. 7 OBVIOUS
  <2>. QED BY <1>2, <1>6, <1>9, <2>1, WithByte
<1>8. /\ g.shift_in = ByteToSend(host) /\ g.bit = 0 /\ g.phase = nor.phase
      /\ g.address = nor.address /\ g.address_bytes = nor.address_bytes
  BY <1>2, <1>9 DEF FlashRegisters
<1>. QED BY <1>5, <1>7, <1>8, <1>9

LEMMA RiseAtByte ==
  ASSUME FlashInv, Rise, Sending(host), nor.bit = 7
  PROVE  FlashInv'
<1>1. PICK g \in FlashRegisters :
        /\ nor' = finish_byte(g) /\ g.shift_in = ByteToSend(host) /\ g.bit = 0
        /\ g.phase = nor.phase /\ g.address = nor.address
        /\ g.address_bytes = nor.address_bytes
  BY ByteArrives
<1>2. /\ nor.bit = host.sent % 8 /\ pins'.selected /\ pins'.sck = 1 /\ pins' \in FlashPins
      /\ host' = [host EXCEPT !.sent = @ + 1] /\ SendsInStep
  BY BitArrives
<1>3. host \in Transactions BY FlashTyped
<1>4. host.sent \in 0 .. 31 /\ host.sent < BitsToSend(host)
  <2>1. BitsToSend(host) <= 32 /\ BitsToSend(host) \in Int BY DEF BitsToSend
  <2>. QED BY <2>1, FlashTyped DEF Sending
<1>5. host' = [host EXCEPT !.sent = host.sent + 1] /\ host.sent + 1 \in 0 .. 32
  BY <1>2, <1>4
<1>6. /\ host' \in Transactions
      /\ host'.command = host.command /\ host'.address = host.address
      /\ host'.sent = host.sent + 1 /\ host'.in = host.in /\ host'.bits = host.bits
      /\ host'.bytes = host.bytes
  BY <1>3, <1>5, SentOne
<1>7. BytesAreFlash' BY <1>6 DEF FlashInv, BytesAreFlash
<1>8. host.command \in FlashCommands /\ host.address \in 0 .. MEMORY_SIZE - 1
  BY FlashTyped
<1>9. Len(host'.bytes) = 0 /\ host'.bits = 0 BY <1>2, <1>6 DEF SendsInStep
<1>10. host.sent \in {7, 15, 23, 31}
  <2>1. ASSUME NEW n \in 0 .. 31, n % 8 = 7 PROVE n \in {7, 15, 23, 31} BY <2>1
  <2>. QED BY <1>2, <1>4, <2>1
<1>11. /\ host.sent < 8 => nor.phase = "Command" /\ nor.address = 0 /\ nor.address_bytes = 0
       /\ host.sent >= 8 => nor.phase = "Address"
       /\ host.sent = 15 => nor.address = 0 /\ nor.address_bytes = 0
       /\ host.sent = 23 => nor.address = host.address \div (Byte * Byte) /\ nor.address_bytes = 1
       /\ host.sent = 31 => nor.address = host.address \div Byte /\ nor.address_bytes = 2
  BY <1>2 DEF SendsInStep, InPhase
<1>12. BitsToSend(host') = BitsToSend(host) BY <1>6 DEF BitsToSend
\* The next byte begins.
<1>13. ASSUME nor' \in FlashRegisters, nor'.bit = 0, InPhase', host'.sent \in {8, 16, 24},
              Sending(host')
       PROVE  FlashInv'
  <2>1. host'.sent % 8 = 0 BY <1>13
  <2>2. Got(nor'.shift_in, ByteToSend(host'), host'.sent % 8) BY <2>1 DEF Got
  <2>3. SendsInStep' BY <1>2, <1>9, <1>13, <2>1, <2>2 DEF SendsInStep
  <2>4. FlashTypes' BY <1>2, <1>6, <1>13 DEF FlashTypes
  <2>. QED BY <1>2, <1>7, <1>13, <2>3, <2>4 DEF FlashInv
\* All is sent, and the first byte of the answer is there.
<1>14. ASSUME nor' \in FlashRegisters, nor'.bit = 0, host'.sent = BitsToSend(host'),
              nor'.phase = (IF host.command = CMD_READ THEN "Read" ELSE "Id"),
              nor'.address = Cursor(host'), nor'.shift_out = Due(host')
       PROVE  FlashInv'
  <2>1. ~Sending(host') BY <1>14, <1>5, <1>6 DEF Sending
  <2>2. Got(host'.in, Due(host'), host'.bits) BY <1>9 DEF Got
  <2>3. Kept(nor'.shift_out, Due(host'), host'.bits) BY <1>9, <1>14 DEF Kept
  <2>4. TakesInStep' BY <1>2, <1>6, <1>9, <1>14, <2>2, <2>3 DEF TakesInStep
  <2>5. FlashTypes' BY <1>2, <1>6, <1>14 DEF FlashTypes
  <2>. QED BY <1>2, <1>7, <2>1, <2>4, <2>5 DEF FlashInv
<1>15. CASE host.sent = 7
  <2>1. g.phase = "Command" BY <1>1, <1>11, <1>15
  <2>2. nor' = FinishCommand(g) BY <1>1, <2>1 DEF finish_byte
  <2>3. g.shift_in = host.command BY <1>1, <1>15 DEF ByteToSend
  <2>4. host'.sent = 8 BY <1>6, <1>15
  <2>5. CASE host.command = CMD_READ
    <3>1. nor' = [g EXCEPT !.phase = "Address"] BY <2>2, <2>3, <2>5 DEF FinishCommand
    <3>2. /\ nor' \in FlashRegisters /\ nor'.bit = 0 /\ nor'.phase = "Address"
          /\ nor'.address = g.address /\ nor'.address_bytes = g.address_bytes
      BY <1>1, <3>1 DEF FlashRegisters
    <3>3. nor'.address = 0 /\ nor'.address_bytes = 0 BY <1>1, <1>11, <1>15, <3>2
    <3>4. InPhase' BY <2>4, <3>2, <3>3 DEF InPhase
    <3>5. Sending(host') BY <1>6, <2>4, <2>5 DEF Sending, BitsToSend
    <3>. QED BY <1>13, <2>4, <3>2, <3>4, <3>5
  <2>6. CASE host.command # CMD_READ
    <3>1. nor' = [g EXCEPT !.phase = "Id", !.address = 0, !.shift_out = JEDEC_ID[0]]
      BY <2>2, <2>3, <2>6 DEF FinishCommand
    <3>2. 0 \in 0 .. MEMORY_SIZE - 1 /\ JEDEC_ID[0] \in Bytes BY Sizes, IdByte
    <3>3. /\ nor' \in FlashRegisters /\ nor'.bit = 0 /\ nor'.phase = "Id"
          /\ nor'.address = 0 /\ nor'.shift_out = JEDEC_ID[0]
      BY <1>1, <3>1, <3>2 DEF FlashRegisters
    <3>4. Len(host'.bytes) % 3 = 0 BY <1>9
    <3>5. host'.command # CMD_READ BY <1>6, <2>6
    <3>6. Cursor(host') = 0 /\ Due(host') = JEDEC_ID[0] BY <3>4, <3>5 DEF Cursor, Due
    <3>7. host'.sent = BitsToSend(host') BY <2>4, <3>5 DEF BitsToSend
    <3>. QED BY <1>14, <2>6, <3>3, <3>6, <3>7
  <2>. QED BY <2>5, <2>6
<1>16. CASE host.sent # 7
  <2>1. BitsToSend(host) = 32 /\ host.command = CMD_READ
    BY <1>4, <1>10, <1>16 DEF BitsToSend
  <2>2. g.phase = "Address" BY <1>1, <1>10, <1>11, <1>16
  <2>3. nor' = FinishAddress(g) BY <1>1, <2>2 DEF finish_byte
  <2>. DEFINE a == Byte * g.address + g.shift_in
  <2>4. ASSUME g.address_bytes # 2, g.address_bytes + 1 \in 0 .. 3, a \in 0 .. MEMORY_SIZE - 1
        PROVE  /\ nor' \in FlashRegisters /\ nor'.bit = 0 /\ nor'.phase = "Address"
               /\ nor'.address = a /\ nor'.address_bytes = g.address_bytes + 1
    <3>1. nor' = [g EXCEPT !.address = a, !.address_bytes = g.address_bytes + 1]
      BY <2>3, <2>4 DEF FinishAddress
    <3>. HIDE DEF a
    <3>. QED BY <1>1, <2>2, <2>4, <3>1 DEF FlashRegisters
  <2>5. CASE host.sent = 15
    <3>1. g.shift_in = host.address \div (Byte * Byte)
      BY <1>1, <2>5 DEF ByteToSend
    <3>2. g.address = 0 /\ g.address_bytes = 0 BY <1>1, <1>11, <2>5
    <3>3. a = host.address \div (Byte * Byte) /\ a \in 0 .. MEMORY_SIZE - 1
      BY <1>8, <3>1, <3>2, AddressArrives
    <3>4. /\ nor' \in FlashRegisters /\ nor'.bit = 0 /\ nor'.phase = "Address"
          /\ nor'.address = host.address \div (Byte * Byte) /\ nor'.address_bytes = 1
      BY <2>4, <3>2, <3>3
    <3>5. host'.sent = 16 BY <1>6, <2>5
    <3>6. InPhase' BY <1>6, <3>4, <3>5 DEF InPhase
    <3>7. Sending(host') BY <1>12, <2>1, <3>5 DEF Sending
    <3>. QED BY <1>13, <3>4, <3>5, <3>6, <3>7
  <2>6. CASE host.sent = 23
    <3>1. g.shift_in = (host.address \div Byte) % Byte
      BY <1>1, <2>6 DEF ByteToSend
    <3>2. g.address = host.address \div (Byte * Byte) /\ g.address_bytes = 1
      BY <1>1, <1>11, <2>6
    <3>3. a = host.address \div Byte /\ a \in 0 .. MEMORY_SIZE - 1
      BY <1>8, <3>1, <3>2, AddressArrives
    <3>4. /\ nor' \in FlashRegisters /\ nor'.bit = 0 /\ nor'.phase = "Address"
          /\ nor'.address = host.address \div Byte /\ nor'.address_bytes = 2
      BY <2>4, <3>2, <3>3
    <3>5. host'.sent = 24 BY <1>6, <2>6
    <3>6. InPhase' BY <1>6, <3>4, <3>5 DEF InPhase
    <3>7. Sending(host') BY <1>12, <2>1, <3>5 DEF Sending
    <3>. QED BY <1>13, <3>4, <3>5, <3>6, <3>7
  <2>7. CASE host.sent = 31
    <3>1. g.shift_in = host.address % Byte BY <1>1, <2>7 DEF ByteToSend
    <3>2. g.address = host.address \div Byte /\ g.address_bytes = 2 BY <1>1, <1>11, <2>7
    <3>3. a = host.address BY <1>8, <3>1, <3>2, AddressArrives
    <3>. DEFINE h == [g EXCEPT !.address = a, !.address_bytes = 3]
    <3>4. nor' = [h EXCEPT !.phase = "Read", !.shift_out = read_byte(a)]
      BY <2>3, <3>2 DEF FinishAddress
    <3>12. h = [g EXCEPT !.address = host.address, !.address_bytes = 3] BY <3>3
    <3>. HIDE DEF a, h
    <3>13. 3 \in 0 .. 3 OBVIOUS
    <3>14. h \in FlashRegisters BY <1>1, <1>8, <3>12, <3>13, WithAddress
    <3>15. h.bit = 0 /\ h.address = host.address BY <1>1, <3>12 DEF FlashRegisters
    <3>5. h \in FlashRegisters /\ h.bit = 0 /\ h.address = host.address
      BY <3>14, <3>15
    <3>6. read_byte(host.address) \in Bytes BY <1>8, ReadsByte
    <3>7. /\ nor' \in FlashRegisters /\ nor'.bit = 0 /\ nor'.phase = "Read"
          /\ nor'.address = host.address /\ nor'.shift_out = read_byte(host.address)
      BY <3>3, <3>4, <3>5, <3>6 DEF FlashRegisters
    <3>8. (host'.address + Len(host'.bytes)) % MEMORY_SIZE = host.address
      <4>1. ASSUME NEW n \in 0 .. MEMORY_SIZE - 1 PROVE (n + 0) % MEMORY_SIZE = n
        BY <4>1, Sizes
      <4>. QED BY <1>6, <1>8, <1>9, <4>1
    <3>9. host'.command = CMD_READ BY <1>6, <2>1
    <3>10. Cursor(host') = host.address /\ Due(host') = read_byte(host.address)
      BY <3>8, <3>9 DEF Cursor, Due
    <3>11. host'.sent = BitsToSend(host') BY <1>6, <1>12, <2>1, <2>7
    <3>. QED BY <1>14, <2>1, <3>7, <3>10, <3>11
  <2>. QED BY <1>10, <1>16, <2>5, <2>6, <2>7
<1>. QED BY <1>15, <1>16

LEMMA NextPlace ==
  ASSUME NEW a \in Int, NEW n \in Int, NEW m \in Nat \ {0}
  PROVE  (((a + n) % m) + 1) % m = (a + (n + 1)) % m
<1>. DEFINE b == a + n
<1>1. b \in Int /\ b % m \in Int BY Divided
<1>2. (b % m) % m = b % m
  <2>1. b % m \in 0 .. m - 1 BY Divided
  <2>2. \A r \in 0 .. m - 1 : r % m = r OBVIOUS
  <2>. QED BY <2>1, <2>2
<1>. HIDE DEF b
<1>. DEFINE r == b % m
<1>5. r \in Int /\ r % m = b % m /\ r = b % m BY <1>1, <1>2
<1>. HIDE DEF r
<1>7. \A c \in Int : (r + c) % m = (b + c) % m BY <1>1, <1>5, SameSum
<1>6. (r + 1) % m = (b + 1) % m BY <1>7
<1>3. ((b % m) + 1) % m = (b + 1) % m BY <1>6 DEF r
<1>4. b + 1 = a + (n + 1) BY DEF b
<1>. QED BY <1>3, <1>4 DEF b

\* The host takes the bit that the flash has put out.
LEMMA BitTaken ==
  ASSUME FlashInv, Rise, ~Sending(host)
  PROVE  LET v == (2 * host.in + nor.miso) % Byte
             s == (2 * nor.shift_in + pins.mosi) % Byte
             g == [nor EXCEPT !.shift_in = s, !.bit = (@ + 1) % 8]
         IN /\ v \in Bytes /\ Got(v, Due(host), host.bits + 1) /\ s \in Bytes
            /\ nor' = IF nor.bit = 7 THEN finish_byte(g) ELSE g
            /\ host' = IF host.bits = 7
                         THEN [host EXCEPT !.in = 0, !.bits = 0, !.bytes = Append(@, v)]
                         ELSE [host EXCEPT !.in = v, !.bits = @ + 1]
            /\ pins'.selected /\ pins'.sck = 1 /\ pins' \in FlashPins
            /\ TakesInStep /\ Kept(nor.shift_out, Due(host), host.bits + 1)
<1>1. pins.selected /\ pins.sck = 0 /\ pins' = [pins EXCEPT !.sck = 1] BY DEF Rise, Edge
<1>2. pins \in FlashPins /\ pins.mosi \in 0 .. 1 BY DEF FlashInv, FlashTypes, FlashPins
<1>3. pins'.selected /\ pins'.sck = 1 /\ pins'.mosi = pins.mosi /\ pins' \in FlashPins
  BY <1>1, <1>2 DEF FlashPins
<1>4. TakesInStep BY <1>1 DEF FlashInv
<1>5. nor.miso = Bit(Due(host), host.bits) /\ Kept(nor.shift_out, Due(host), host.bits + 1)
  BY <1>1, <1>4 DEF TakesInStep
<1>6. Due(host) \in Bytes BY FlashTyped, DueIsByte
<1>7. Got(host.in, Due(host), host.bits) BY <1>4 DEF TakesInStep
<1>8. /\ (2 * host.in + nor.miso) % Byte \in Bytes
      /\ Got((2 * host.in + nor.miso) % Byte, Due(host), host.bits + 1)
  BY <1>5, <1>6, <1>7, FlashTyped, GotOneMore
<1>9. host' = Take(host, nor.miso) BY <1>1 DEF Rise, drive_miso
<1>10. nor' = sample_bit(nor, pins.mosi) BY <1>1, <1>3 DEF Rise, Edge, update_flash
<1>11. (2 * nor.shift_in + pins.mosi) % Byte \in Bytes
  <2>1. nor.shift_in \in Bytes BY FlashTyped
  <2>2. 2 * nor.shift_in + pins.mosi \in Int BY <1>2, <2>1 DEF Bytes
  <2>3. \A x \in Int : x % Byte \in Bytes BY DEF Byte, Bytes
  <2>. QED BY <2>2, <2>3
<1>12. host' = LET v == (2 * host.in + nor.miso) % Byte
              IN IF host.bits = 7
                   THEN [host EXCEPT !.in = 0, !.bits = 0, !.bytes = Append(@, v)]
                   ELSE [host EXCEPT !.in = v, !.bits = @ + 1]
  BY <1>9 DEF Take
<1>13. nor' = LET g == [nor EXCEPT !.shift_in = (2 * nor.shift_in + pins.mosi) % Byte,
                                 !.bit = (@ + 1) % 8]
             IN IF nor.bit = 7 THEN finish_byte(g) ELSE g
  BY <1>10 DEF sample_bit
<1>. QED BY <1>3, <1>4, <1>5, <1>8, <1>11, <1>12, <1>13

LEMMA TakenByte ==
  ASSUME NEW h \in Transactions, NEW x \in Bytes, NEW k \in 0 .. 7, NEW t \in Seq(Bytes)
  PROVE  [h EXCEPT !.in = x, !.bits = k, !.bytes = t] \in Transactions
BY DEF Transactions

LEMMA RiseTakesBit ==
  ASSUME FlashInv, Rise, ~Sending(host), host.bits # 7
  PROVE  FlashInv'
<1>. DEFINE v == (2 * host.in + nor.miso) % Byte
            s == (2 * nor.shift_in + pins.mosi) % Byte
<1>1. /\ v \in Bytes /\ Got(v, Due(host), host.bits + 1) /\ s \in Bytes
      /\ host' = [host EXCEPT !.in = v, !.bits = host.bits + 1]
      /\ pins'.selected /\ pins'.sck = 1 /\ pins' \in FlashPins
      /\ TakesInStep /\ Kept(nor.shift_out, Due(host), host.bits + 1)
  BY BitTaken
<1>2. nor.bit = host.bits BY <1>1 DEF TakesInStep
<1>3. nor' = [nor EXCEPT !.shift_in = s, !.bit = (@ + 1) % 8] BY <1>2, BitTaken
<1>. HIDE DEF v, s
<1>4. host.bits \in 0 .. 6 /\ host \in Transactions /\ nor \in FlashRegisters BY FlashTyped
<1>. DEFINE k == host.bits + 1
<1>5. k \in 0 .. 7 /\ (nor.bit + 1) % 8 = k BY <1>2, <1>4
<1>6. nor' = [nor EXCEPT !.shift_in = s, !.bit = k] BY <1>3, <1>5
<1>7. host' = [host EXCEPT !.in = v, !.bits = k] BY <1>1
<1>8. Got(v, Due(host), k) /\ Kept(nor.shift_out, Due(host), k) BY <1>1
<1>. HIDE DEF k
<1>9. /\ host' \in Transactions /\ host'.sent = host.sent /\ host'.in = v /\ host'.bits = k
      /\ host'.command = host.command /\ host'.address = host.address
      /\ host'.bytes = host.bytes
  BY <1>1, <1>4, <1>5, <1>7 DEF Transactions
<1>10. nor' \in FlashRegisters BY <1>1, <1>4, <1>5, <1>6, WithByte
<1>11. /\ nor'.bit = k /\ nor'.phase = nor.phase /\ nor'.address = nor.address
       /\ nor'.shift_out = nor.shift_out
  BY <1>4, <1>6 DEF FlashRegisters
<1>12. Due(host') = Due(host) /\ Cursor(host') = Cursor(host) BY <1>9 DEF Due, Cursor
<1>13. BitsToSend(host') = BitsToSend(host) BY <1>9 DEF BitsToSend
<1>14. ~Sending(host') BY <1>9, <1>13 DEF Sending
<1>15. Got(host'.in, Due(host'), host'.bits) /\ Kept(nor'.shift_out, Due(host'), host'.bits)
  BY <1>8, <1>9, <1>11, <1>12, Zenon
<1>16. TakesInStep' BY <1>1, <1>9, <1>11, <1>12, <1>13, <1>15 DEF TakesInStep
<1>17. FlashTypes' BY <1>1, <1>9, <1>10 DEF FlashTypes
<1>18. BytesAreFlash' BY <1>9 DEF FlashInv, BytesAreFlash
<1>. QED BY <1>1, <1>14, <1>16, <1>17, <1>18 DEF FlashInv

LEMMA RiseTakesByte ==
  ASSUME FlashInv, Rise, ~Sending(host), host.bits = 7
  PROVE  FlashInv'
<1>. DEFINE v == (2 * host.in + nor.miso) % Byte
            s == (2 * nor.shift_in + pins.mosi) % Byte
<1>1. /\ v \in Bytes /\ Got(v, Due(host), host.bits + 1) /\ s \in Bytes
      /\ host' = [host EXCEPT !.in = 0, !.bits = 0, !.bytes = Append(@, v)]
      /\ pins'.selected /\ pins'.sck = 1 /\ pins' \in FlashPins /\ TakesInStep
  BY BitTaken
<1>2. nor.bit = host.bits BY <1>1 DEF TakesInStep
<1>3. nor' = finish_byte([nor EXCEPT !.shift_in = s, !.bit = (@ + 1) % 8]) BY <1>2, BitTaken
<1>. HIDE DEF v, s
<1>4. host \in Transactions /\ nor \in FlashRegisters BY FlashTyped
<1>5. v = Due(host)
  <2>1. Got(v, Due(host), host.bits + 1) /\ host.bits + 1 = 8 BY <1>1
  <2>2. \A k : k = 8 /\ Got(v, Due(host), k) => v = Due(host) BY DEF Got
  <2>. QED BY <2>1, <2>2
<1>6. PICK g \in FlashRegisters :
        /\ nor' = finish_byte(g) /\ g.bit = 0 /\ g.phase = nor.phase
        /\ g.address = nor.address
  <2>1. (nor.bit + 1) % 8 = 0 /\ 0 \in 0 .. 7 BY <1>2
  <2>. DEFINE g == [nor EXCEPT !.shift_in = s, !.bit = 0]
  <2>2. nor' = finish_byte(g) BY <1>3, <2>1
  <2>3. g \in FlashRegisters BY <1>1, <1>4, <2>1, WithByte
  <2>4. g.bit = 0 /\ g.phase = nor.phase /\ g.address = nor.address
    BY <1>4 DEF FlashRegisters
  <2>. QED BY <2>2, <2>3, <2>4
<1>7. /\ host' \in Transactions /\ host'.sent = host.sent /\ host'.bits = 0
      /\ host'.command = host.command /\ host'.address = host.address
      /\ host'.bytes = Append(host.bytes, v)
  <2>. DEFINE t == Append(host.bytes, v)
  <2>1. t \in Seq(Bytes) BY <1>1, FlashTyped
  <2>2. host' = [host EXCEPT !.in = 0, !.bits = 0, !.bytes = t] BY <1>1, <1>4
  <2>3. t = Append(host.bytes, v) OBVIOUS
  <2>. HIDE DEF t
  <2>4. 0 \in Bytes /\ 0 \in 0 .. 7 BY DEF Bytes
  <2>5. host' \in Transactions BY <1>4, <2>1, <2>2, <2>4, TakenByte
  <2>6. /\ host'.sent = host.sent /\ host'.bits = 0 /\ host'.command = host.command
        /\ host'.address = host.address /\ host'.bytes = t
    BY <1>4, <2>2 DEF Transactions
  <2>. QED BY <2>3, <2>5, <2>6
<1>. DEFINE n == Len(host.bytes)
<1>8. n \in Nat /\ host.bytes \in Seq(Bytes) /\ host.address \in 0 .. MEMORY_SIZE - 1
      /\ host.command \in FlashCommands
  BY FlashTyped
<1>9. Len(host'.bytes) = n + 1 BY <1>7, <1>8, <1>1
<1>10. BytesAreFlash'
  <2>1. ASSUME NEW i \in DOMAIN host'.bytes
        PROVE  host'.bytes[i] = IF host'.command = CMD_READ
                 THEN read_byte((host'.address + i - 1) % MEMORY_SIZE)
                 ELSE JEDEC_ID[(i - 1) % 3]
    <3>1. i \in 1 .. n + 1 BY <1>1, <1>7, <1>8, <2>1
    <3>2. CASE i = n + 1
      <4>1. host'.bytes[i] = Due(host) BY <1>1, <1>5, <1>7, <1>8, <3>2
      <4>2. host.address + i - 1 = host.address + n /\ i - 1 = n BY <1>8, <3>2, Sizes
      <4>. QED BY <1>7, <4>1, <4>2 DEF Due
    <3>3. CASE i \in 1 .. n
      <4>1. host'.bytes[i] = host.bytes[i] /\ i \in DOMAIN host.bytes
        BY <1>1, <1>7, <1>8, <3>3
      <4>. QED BY <1>7, <4>1 DEF FlashInv, BytesAreFlash
    <3>. QED BY <1>8, <3>1, <3>2, <3>3
  <2>. QED BY <2>1 DEF BytesAreFlash
<1>11. ~Sending(host') BY <1>7 DEF Sending, BitsToSend
\* The flash is at the next byte as well.
<1>12. ASSUME nor' \in FlashRegisters, nor'.bit = 0, nor'.phase = nor.phase,
              nor'.address = Cursor(host'), nor'.shift_out = Due(host')
       PROVE  FlashInv'
  <2>1. Got(host'.in, Due(host'), host'.bits) BY <1>7 DEF Got
  <2>2. Kept(nor'.shift_out, Due(host'), host'.bits) BY <1>7, <1>12 DEF Kept
  <2>3. BitsToSend(host') = BitsToSend(host) BY <1>7 DEF BitsToSend
  <2>4. TakesInStep' BY <1>1, <1>7, <1>12, <2>1, <2>2, <2>3 DEF TakesInStep
  <2>5. FlashTypes' BY <1>1, <1>7, <1>12 DEF FlashTypes
  <2>. QED BY <1>1, <1>10, <1>11, <2>4, <2>5 DEF FlashInv
<1>13. nor.address = Cursor(host) /\ nor.phase = (IF host.command = CMD_READ THEN "Read" ELSE "Id")
  BY <1>1 DEF TakesInStep
<1>14. CASE host.command = CMD_READ
  <2>1. nor' = FinishRead(g) BY <1>6, <1>13, <1>14 DEF finish_byte
  <2>2. g.address = (host.address + n) % MEMORY_SIZE BY <1>6, <1>13, <1>14 DEF Cursor
  <2>. DEFINE c == NextAddress(g.address)
  <2>3. c = (host.address + (n + 1)) % MEMORY_SIZE
    <3>1. MEMORY_SIZE \in Nat \ {0} /\ host.address \in Int BY <1>8, Sizes
    <3>2. (((host.address + n) % MEMORY_SIZE) + 1) % MEMORY_SIZE
            = (host.address + (n + 1)) % MEMORY_SIZE
      <4>1. n \in Int BY <1>8
      <4>. QED BY <3>1, <4>1, NextPlace, Zenon
    <3>. QED BY <2>2, <3>2 DEF NextAddress
  <2>4. c \in 0 .. MEMORY_SIZE - 1
    <3>1. host.address + (n + 1) \in Int BY <1>8, Sizes
    <3>2. (host.address + (n + 1)) % MEMORY_SIZE \in 0 .. MEMORY_SIZE - 1
      BY <3>1, InMemory, Zenon
    <3>. QED BY <2>3, <3>2
  <2>5. read_byte(c) \in Bytes BY <2>4, ReadsByte
  <2>6. nor' = [g EXCEPT !.address = c, !.shift_out = read_byte(c)] BY <2>1 DEF FinishRead
  <2>7. Cursor(host') = c /\ Due(host') = read_byte(c)
    BY <1>7, <1>9, <1>14, <2>3 DEF Cursor, Due
  <2>. HIDE DEF c
  <2>8. /\ nor' \in FlashRegisters /\ nor'.bit = 0 /\ nor'.phase = g.phase
        /\ nor'.address = c /\ nor'.shift_out = read_byte(c)
    BY <1>6, <2>4, <2>5, <2>6 DEF FlashRegisters
  <2>. QED BY <1>6, <1>12, <2>7, <2>8
<1>15. CASE host.command # CMD_READ
  <2>1. nor' = FinishId(g) BY <1>6, <1>13, <1>15 DEF finish_byte
  <2>2. g.address = n % 3 BY <1>6, <1>13, <1>15 DEF Cursor
  <2>. DEFINE c == (g.address + 1) % 3
  <2>3. c = (n + 1) % 3
    <3>1. (((0 + n) % 3) + 1) % 3 = (0 + (n + 1)) % 3
      <4>1. n \in Int /\ 0 \in Int /\ 3 \in Nat \ {0} BY <1>8
      <4>. QED BY <4>1, NextPlace, Zenon
    <3>2. 0 + n = n /\ 0 + (n + 1) = n + 1 BY <1>8
    <3>. QED BY <2>2, <3>1, <3>2
  <2>4. c \in 0 .. 2 /\ c \in 0 .. MEMORY_SIZE - 1
    <3>1. n + 1 \in Nat BY <1>8
    <3>2. (n + 1) % 3 \in 0 .. 2 /\ (n + 1) % 3 \in 0 .. MEMORY_SIZE - 1
      BY <3>1, InThree, Zenon
    <3>. QED BY <2>3, <3>2
  <2>5. JEDEC_ID[c] \in Bytes BY <2>4, IdByte
  <2>6. nor' = [g EXCEPT !.address = c, !.shift_out = JEDEC_ID[c]] BY <2>1 DEF FinishId
  <2>7. Cursor(host') = c /\ Due(host') = JEDEC_ID[c]
    BY <1>7, <1>9, <1>15, <2>3 DEF Cursor, Due
  <2>. HIDE DEF c
  <2>8. /\ nor' \in FlashRegisters /\ nor'.bit = 0 /\ nor'.phase = g.phase
        /\ nor'.address = c /\ nor'.shift_out = JEDEC_ID[c]
    BY <1>6, <2>4, <2>5, <2>6 DEF FlashRegisters
  <2>. QED BY <1>6, <1>12, <2>7, <2>8
<1>. QED BY <1>14, <1>15

\* Every byte a host reads from the flash is the one at its place, whatever the
\* pages hold, however long it reads, and after any transactions cut short at any
\* edge (qspi_flash.cpp).
THEOREM FlashReadCorrect == FlashSpec => []BytesAreFlash
<1>1. FlashInit => FlashInv BY FlashStarts
<1>2. FlashInv /\ [FlashNext]_nor_vars => FlashInv'
  <2>. SUFFICES ASSUME FlashInv, [FlashNext]_nor_vars PROVE FlashInv'
    OBVIOUS
  <2>1. CASE Select BY <2>1, SelectStep
  <2>2. CASE Rise
    <3>1. CASE Sending(host)
      BY <2>2, <3>1, RiseInByte, RiseAtByte
    <3>2. CASE ~Sending(host)
      BY <2>2, <3>2, RiseTakesBit, RiseTakesByte
    <3>. QED BY <3>1, <3>2
  <2>3. CASE Fall BY <2>3, FallStep
  <2>4. CASE Deselect BY <2>4, DeselectStep
  <2>5. CASE UNCHANGED nor_vars
    BY <2>5 DEF nor_vars, FlashInv, FlashTypes, BytesAreFlash, SendsInStep, TakesInStep,
                InPhase
  <2>. QED BY <2>1, <2>2, <2>3, <2>4, <2>5 DEF FlashNext
<1>3. FlashInv => BytesAreFlash BY DEF FlashInv
<1>. QED BY <1>1, <1>2, <1>3, PTL DEF FlashSpec

-----------------------------------------------------------------------------
(* The serial line.  Both ends of a frame count from its first cycle: the  *)
(* driver and the receiver hold what follows from the cycles since, by the *)
(* bit of each, and so do the transmitter and the monitor.  The drift over *)
(* a whole frame bounds that over any part of it, so each bit is looked at *)
(* within the bit.                                                         *)

Levels == {0, 1}
Drivers ==
  [state : {"IDLE", "START", "DATA", "STOP"}, counter : Nat, bit_index : Nat,
   shifter : Seq(Levels), level : Levels, bit_cycles : {0, BitCycles},
   queue : Seq(Seq(Levels))]
Monitors ==
  [state : {"IDLE", "START", "DATA", "STOP"}, counter : Nat, bit_index : Nat,
   shifter : Seq(Levels), last : Levels, bit_cycles : {0, BitCycles}]
Socs ==
  [bit : SocBits, tx_queue : Seq(Seq(Levels)), tx_frame : Seq(Levels), tx_time : Nat,
   rx_time : Nat, rx_bits : Seq(Levels)]
IsByte(b) == b \in Seq(Levels) /\ Len(b) = ByteBits

\* The level of bit k of a frame: the start bit, the byte, the stop bit.
Level(byte, k) == IF k = 0 THEN 0 ELSE IF k = ByteBits + 1 THEN 1 ELSE byte[k]

\* The driver is in the frame of the byte, LineTime cycles after it began.
Slot(d) == IF d.state = "START" THEN 0 ELSE d.bit_index + 1
LineTime(d) == Slot(d) * BitCycles + d.counter
Drives(d, byte) ==
  /\ d.state # "IDLE" /\ d.bit_cycles = BitCycles /\ d.counter < BitCycles
  /\ d.state # "START" => d.bit_index <= ByteBits /\ (d.state = "STOP" <=> d.bit_index = ByteBits)
  /\ d.level = Level(byte, Slot(d))
  /\ LET gone == IF d.state = "START" THEN 0 ELSE d.bit_index
     IN /\ Len(d.shifter) = ByteBits - gone
        /\ \A q \in 1 .. Len(d.shifter) : d.shifter[q] = byte[gone + q]

\* The receiver has had t + 1 cycles of the frame and looked in the middle of its bits.
Takes(s, byte, t) ==
  /\ Len(s.rx_bits) <= ByteBits + 1 /\ s.rx_time < s.bit
  /\ \A q \in 1 .. Len(s.rx_bits) : s.rx_bits[q] = Level(byte, q - 1)
  /\ Len(s.rx_bits) = 0 => s.rx_time >= 1 /\ s.rx_time <= s.bit \div 2
  /\ IF s.rx_time <= s.bit \div 2
       THEN t + 1 = Len(s.rx_bits) * s.bit + s.rx_time
       ELSE t + 1 = (Len(s.rx_bits) - 1) * s.bit + s.rx_time
TakenAt(b) == (ByteBits + 1) * b + (b \div 2)

\* The transmitter is in the frame of the byte, TxTime cycles after it began.
TxSlot(s) == ByteBits + 2 - Len(s.tx_frame)
TxTime(s) == TxSlot(s) * s.bit + s.tx_time
Sends(s, byte) ==
  /\ Len(s.tx_frame) \in 1 .. ByteBits + 2 /\ s.tx_time < s.bit
  /\ \A q \in 1 .. Len(s.tx_frame) : s.tx_frame[q] = Level(byte, TxSlot(s) + q - 1)

\* The monitor has seen the frame t cycles after it began.
Watches(u, byte, t) ==
  /\ u.state # "IDLE" /\ u.bit_cycles = BitCycles
  /\ u.state = "START" => u.counter + 1 = t /\ t <= Half
  /\ u.state # "START" =>
       /\ u.bit_index <= ByteBits /\ (u.state = "STOP" <=> u.bit_index = ByteBits)
       /\ u.counter < BitCycles /\ t = Half + u.bit_index * BitCycles + u.counter + 1
       /\ Len(u.shifter) = u.bit_index
       /\ \A q \in 1 .. u.bit_index : u.shifter[q] = byte[q]
MonitoredAt == Half + (ByteBits + 1) * BitCycles

Arrived(n) == Len(received) = n /\ n <= Len(text) /\ \A i \in 1 .. n : received[i] = text[i]
ToCome(queue) == Len(text) - Len(queue)
Rest(queue) ==
  /\ Len(queue) <= Len(text)
  /\ \A i \in 1 .. Len(queue) : queue[i] = text[ToCome(queue) + i]

LineTypes ==
  /\ text \in Seq(Seq(Levels)) /\ \A i \in 1 .. Len(text) : IsByte(text[i])
  /\ driver \in Drivers /\ monitor \in Monitors /\ uart \in Socs
  /\ wires \in [rx : Levels, tx : Levels]
  /\ received \in Seq(Seq(Levels)) /\ framing_error = FALSE
  /\ monitor.bit_cycles = driver.bit_cycles

TxByte == ToCome(uart.tx_queue)
FromSoc ==
  /\ text # <<>>
  /\ driver.state = "IDLE" /\ driver.queue = <<>> /\ driver.level = 1 /\ RxIdle(uart)
  /\ Rest(uart.tx_queue) /\ wires.tx = TxLevel(uart)
  /\ IF uart.tx_frame = <<>> THEN monitor.state = "IDLE" /\ monitor.last = 1 /\ Arrived(TxByte)
     ELSE /\ driver.bit_cycles = BitCycles /\ TxByte >= 1 /\ Sends(uart, text[TxByte])
          /\ IF monitor.state = "IDLE"
               THEN /\ monitor.last = 1
                    /\ IF TxTime(uart) = 0 THEN Arrived(TxByte - 1)
                       ELSE TxTime(uart) > MonitoredAt /\ Arrived(TxByte)
               ELSE Watches(monitor, text[TxByte], TxTime(uart)) /\ Arrived(TxByte - 1)

RxByteNo == ToCome(driver.queue)
ToSoc ==
  /\ uart.tx_queue = <<>> /\ uart.tx_frame = <<>> /\ wires.tx = 1
  /\ monitor.state = "IDLE" /\ monitor.last = 1
  /\ IF driver.state = "IDLE"
       THEN /\ RxIdle(uart) /\ driver.level = 1
            /\ \/ driver.queue = <<>> /\ received = <<>>
               \/ Rest(driver.queue) /\ Arrived(RxByteNo)
       ELSE /\ Rest(driver.queue) /\ RxByteNo >= 1 /\ Drives(driver, text[RxByteNo])
            /\ IF RxIdle(uart) THEN LineTime(driver) >= TakenAt(uart.bit) /\ Arrived(RxByteNo)
               ELSE Takes(uart, text[RxByteNo], LineTime(driver)) /\ Arrived(RxByteNo - 1)

LineInv == LineTypes /\ (FromSoc \/ ToSoc)

-----------------------------------------------------------------------------
(* Products, and the moments at which each end looks at a bit.             *)

LEMMA Product ==
  ASSUME NEW a \in Nat, NEW b \in Nat, NEW k \in Nat, NEW m \in Nat, NEW c \in Nat,
         k <= m, m * a <= c + m * b
  PROVE  k * a <= c + k * b
<1>1. CASE a <= b
  <2>1. k * (b - a) >= 0
    BY <1>1
  <2> QED
    BY <2>1
<1>2. CASE a > b
  <2> DEFINE d == a - b
             j == m - k
  <2>1. d \in Nat /\ j \in Nat /\ a = b + d /\ m = k + j
    BY <1>2
  <2>2. (k + j) * (b + d) <= c + (k + j) * b
    BY <2>1
  <2> HIDE DEF d, j
  <2>3. k * d + j * d <= c /\ j * d >= 0
    BY <2>1, <2>2
  <2>4. k * d <= c
    BY <2>1, <2>3
  <2>5. k * (b + d) = k * b + k * d
    BY <2>1
  <2> QED
    BY <2>1, <2>4, <2>5
<1> QED
  BY <1>1, <1>2

LEMMA ProductBelow ==
  ASSUME NEW a \in Nat, NEW b \in Nat, NEW k \in Nat, NEW m \in Nat, NEW c \in Nat,
         k <= m, c < a, c + m * b < (m + 1) * a
  PROVE  c + k * b < (k + 1) * a
<1>1. c + k * b < a + k * a /\ (k + 1) * a = a + k * a
      <=> c + k * b < (k + 1) * a /\ (k + 1) * a = a + k * a
  OBVIOUS
<1>2. (k + 1) * a = a + k * a /\ (m + 1) * a = a + m * a
  OBVIOUS
<1>3. CASE b <= a
  <2>1. k * (a - b) >= 0
    BY <1>3
  <2>2. k * b <= k * a
    BY <2>1
  <2>3. k * b \in Nat /\ k * a \in Nat
    OBVIOUS
  <2> QED
    BY <1>2, <2>2, <2>3
<1>4. CASE b > a
  <2> DEFINE d == b - a
             j == m - k
  <2>1. d \in Nat /\ j \in Nat /\ b = a + d /\ m = k + j
    BY <1>4
  <2>2. c + (k + j) * (a + d) < a + (k + j) * a
    BY <1>2, <2>1
  <2> HIDE DEF d, j
  <2>3. c + k * d + j * d < a /\ j * d >= 0 /\ k * d \in Nat /\ j * d \in Nat
    BY <2>1, <2>2
  <2>4. c + k * d < a
    BY <2>1, <2>3
  <2>5. k * (a + d) = k * a + k * d
    BY <2>1
  <2> QED
    BY <1>2, <2>1, <2>4, <2>5
<1> QED
  BY <1>3, <1>4

\* A moment is in one bit.
LEMMA OneBit ==
  ASSUME NEW b \in Nat, NEW j \in Nat, NEW k \in Nat, NEW t \in Nat,
         j * b <= t, t < (j + 1) * b, k * b <= t, t < (k + 1) * b
  PROVE  j = k
<1>1. ASSUME NEW p \in Nat, NEW q \in Nat, p * b <= t, t < (q + 1) * b, p > q PROVE FALSE
  <2> DEFINE e == p - (q + 1)
  <2>1. e \in Nat /\ p = q + 1 + e
    BY <1>1
  <2> HIDE DEF e
  <2>2. (q + 1 + e) * b = (q + 1) * b + e * b /\ e * b \in Nat
    BY <2>1
  <2>3. (q + 1) * b \in Nat
    OBVIOUS
  <2> QED
    BY <1>1, <2>1, <2>2, <2>3
<1> QED
  BY <1>1

LEMMA Numbers ==
  /\ ByteBits \in Nat /\ ByteBits >= 1 /\ BitCycles \in Nat /\ BitCycles >= 2
  /\ Half \in Nat /\ Half >= 1 /\ Half < BitCycles
BY DriftAssumption DEF Half

LEMMA Drift ==
  ASSUME NEW b \in SocBits
  PROVE  /\ b \in Nat /\ b >= 2 /\ Half < b /\ b \div 2 \in Nat
         /\ b \div 2 >= 1 /\ b \div 2 < b /\ b \div 2 < BitCycles
         /\ (ByteBits + 1) * b <= MonitoredAt /\ MonitoredAt < (ByteBits + 2) * b
         /\ (ByteBits + 1) * BitCycles <= TakenAt(b) /\ TakenAt(b) < (ByteBits + 2) * BitCycles
BY DriftAssumption DEF MonitoredAt, TakenAt

\* The monitor looks at bit k within bit k.
LEMMA MonitoredInBit ==
  ASSUME NEW b \in SocBits, NEW k \in 0 .. ByteBits + 1
  PROVE  k * b <= Half + k * BitCycles /\ Half + k * BitCycles < (k + 1) * b
<1> DEFINE m == ByteBits + 1
<1>1. m \in Nat /\ k \in Nat /\ k <= m /\ b \in Nat /\ BitCycles \in Nat /\ Half \in Nat /\ Half < b
  BY Numbers, Drift
<1>2. m * b <= Half + m * BitCycles /\ Half + m * BitCycles < (m + 1) * b
  BY Numbers, Drift DEF MonitoredAt
<1> HIDE DEF m
<1>3. k * b <= Half + k * BitCycles
  BY <1>1, <1>2, Product
<1>4. Half + k * BitCycles < (k + 1) * b
  BY <1>1, <1>2, ProductBelow
<1> QED
  BY <1>3, <1>4

\* The receiver looks at bit k within bit k.
LEMMA TakenInBit ==
  ASSUME NEW b \in SocBits, NEW k \in 0 .. ByteBits + 1
  PROVE  /\ k * BitCycles <= k * b + (b \div 2)
         /\ k * b + (b \div 2) < (k + 1) * BitCycles
<1> DEFINE m == ByteBits + 1
           h == b \div 2
<1>1. /\ m \in Nat /\ k \in Nat /\ k <= m /\ b \in Nat /\ BitCycles \in Nat
      /\ h \in Nat /\ h < BitCycles
  BY Numbers, Drift
<1>2. m * BitCycles <= h + m * b /\ h + m * b < (m + 1) * BitCycles
  BY Numbers, Drift DEF TakenAt
<1>3. (b \div 2) = h
  OBVIOUS
<1> HIDE DEF m, h
<1>4. k * BitCycles <= h + k * b
  BY <1>1, <1>2, Product
<1>5. h + k * b < (k + 1) * BitCycles
  BY <1>1, <1>2, ProductBelow
<1>6. k * b \in Nat /\ k * BitCycles \in Nat /\ (k + 1) * BitCycles \in Nat
  BY <1>1
<1> QED
  BY <1>1, <1>3, <1>4, <1>5, <1>6

-----------------------------------------------------------------------------
(* The registers of the driver.                                            *)

States == {"IDLE", "START", "DATA", "STOP"}

LEMMA DriverHigh ==
  ASSUME NEW d \in Drivers, NEW g, g = [d EXCEPT !.level = 1]
  PROVE  g \in Drivers
BY DEF Drivers, Levels

LEMMA DriverCounter ==
  ASSUME NEW d \in Drivers, NEW c \in Nat, NEW g, g = [d EXCEPT !.counter = c]
  PROVE  g \in Drivers
BY DEF Drivers

LEMMA DriverToStart ==
  ASSUME NEW d \in Drivers, NEW s \in Seq(Levels), NEW q \in Seq(Seq(Levels)), NEW g,
         g = [d EXCEPT !.shifter = s, !.queue = q, !.state = "START", !.counter = 0, !.level = 0]
  PROVE  g \in Drivers
BY DEF Drivers, Levels

LEMMA DriverToData ==
  ASSUME NEW d \in Drivers, NEW l \in Levels, NEW g,
         g = [d EXCEPT !.counter = 0, !.bit_index = 0, !.state = "DATA", !.level = l]
  PROVE  g \in Drivers
BY DEF Drivers

LEMMA DriverToBit ==
  ASSUME NEW d \in Drivers, NEW i \in Nat, NEW s \in Seq(Levels),
         NEW st \in States, NEW l \in Levels, NEW g,
         g = [d EXCEPT !.counter = 0, !.shifter = s, !.bit_index = i, !.state = st, !.level = l]
  PROVE  g \in Drivers
BY DEF Drivers, States

LEMMA DriverToIdle ==
  ASSUME NEW d \in Drivers, NEW g,
         g = [d EXCEPT !.counter = 0, !.state = "IDLE", !.level = 1]
  PROVE  g \in Drivers
BY DEF Drivers, Levels

LEMMA DriverSet ==
  ASSUME NEW d \in Drivers, NEW b \in {0, BitCycles}, NEW q \in Seq(Seq(Levels))
  PROVE  [d EXCEPT !.bit_cycles = b] \in Drivers /\ [d EXCEPT !.queue = q] \in Drivers
BY DEF Drivers

-----------------------------------------------------------------------------
(* A cycle of the driver: a byte taken, the cycles of a bit, the next bit. *)

LEMMA TailOf ==
  ASSUME NEW S, NEW s \in Seq(S), Len(s) > 0
  PROVE  /\ Tail(s) \in Seq(S) /\ Len(Tail(s)) = Len(s) - 1 /\ Head(s) = s[1] /\ Head(s) \in S
         /\ \A q \in 1 .. Len(s) - 1 : Tail(s)[q] = s[q + 1]
<1>1. s # <<>>
  OBVIOUS
<1> QED
  BY <1>1

LEMMA LevelIs ==
  ASSUME NEW byte \in Seq(Levels), Len(byte) = ByteBits, NEW k \in 0 .. ByteBits + 1
  PROVE  Level(byte, k) \in Levels
<1>1. k \in 1 .. ByteBits => byte[k] \in Levels
  BY Numbers
<1> QED
  BY <1>1, Numbers DEF Level, Levels

LEMMA DriveStarts ==
  ASSUME NEW d \in Drivers, d.state = "IDLE", d.bit_cycles = BitCycles, d.queue # <<>>,
         IsByte(Head(d.queue))
  PROVE  /\ drive_rx(d) \in Drivers
         /\ Drives(drive_rx(d), Head(d.queue)) /\ LineTime(drive_rx(d)) = 0
         /\ drive_rx(d).level = 0
         /\ drive_rx(d).queue = Tail(d.queue)
<1>1. drive_rx(d) = [d EXCEPT !.shifter = Head(d.queue), !.queue = Tail(d.queue),
                 !.state = "START", !.counter = 0, !.level = 0]
  BY Numbers DEF drive_rx, DriverIdle
<1>2. /\ Tail(d.queue) \in Seq(Seq(Levels)) /\ Head(d.queue) \in Seq(Levels)
      /\ Len(Head(d.queue)) = ByteBits
  BY TailOf DEF Drivers, IsByte
<1>3. drive_rx(d) \in Drivers
  <2>1. 0 \in Nat /\ 0 \in Levels /\ "START" \in States
    BY DEF Levels, States
  <2> QED
    BY <1>1, <1>2, <2>1, DriverToStart
<1>4. /\ drive_rx(d).state = "START" /\ drive_rx(d).counter = 0 /\ drive_rx(d).level = 0
      /\ drive_rx(d).shifter = Head(d.queue) /\ drive_rx(d).queue = Tail(d.queue)
      /\ drive_rx(d).bit_cycles = BitCycles
  BY <1>1 DEF Drivers
<1>5. Slot(drive_rx(d)) = 0
  BY <1>4 DEF Slot
<1>6. LineTime(drive_rx(d)) = 0
  BY <1>4, <1>5, Numbers DEF LineTime
<1>7. Drives(drive_rx(d), Head(d.queue))
  BY <1>2, <1>4, <1>5, Numbers DEF Drives, Level
<1> QED
  BY <1>3, <1>4, <1>6, <1>7

\* With nothing to send the line is high.
LEMMA DriveRests ==
  ASSUME NEW d \in Drivers, d.state = "IDLE", d.queue = <<>> \/ d.bit_cycles = 0
  PROVE  /\ drive_rx(d) \in Drivers /\ drive_rx(d).level = 1
         /\ drive_rx(d).state = "IDLE" /\ drive_rx(d).queue = d.queue
         /\ drive_rx(d).bit_cycles = d.bit_cycles
<1>1. drive_rx(d) = [d EXCEPT !.level = 1]
  BY DEF drive_rx, DriverIdle
<1> QED
  BY <1>1 DEF Drivers, Levels

LEMMA DriveCounts ==
  ASSUME NEW d \in Drivers, NEW byte \in Seq(Levels), Drives(d, byte), d.counter + 1 < BitCycles
  PROVE  /\ drive_rx(d) \in Drivers /\ Drives(drive_rx(d), byte)
         /\ LineTime(drive_rx(d)) = LineTime(d) + 1 /\ drive_rx(d).queue = d.queue
<1>1. drive_rx(d) = [d EXCEPT !.counter = @ + 1]
  BY Numbers DEF drive_rx, Drives
<1>2. drive_rx(d) \in Drivers
  <2>1. d.counter + 1 \in Nat
    BY DEF Drivers
  <2> QED
    BY <1>1, <2>1, DriverCounter
<1>3. /\ drive_rx(d).counter = d.counter + 1 /\ drive_rx(d).state = d.state
      /\ drive_rx(d).bit_index = d.bit_index /\ drive_rx(d).shifter = d.shifter
      /\ drive_rx(d).level = d.level /\ drive_rx(d).bit_cycles = d.bit_cycles
      /\ drive_rx(d).queue = d.queue
  BY <1>1 DEF Drivers
<1>4. Slot(drive_rx(d)) = Slot(d)
  BY <1>3 DEF Slot
<1>5. Drives(drive_rx(d), byte)
  BY <1>3, <1>4 DEF Drives
<1>6. Slot(d) \in Nat /\ d.counter \in Nat
  BY DEF Slot, Drivers
<1>7. LineTime(drive_rx(d)) = LineTime(d) + 1
  BY <1>3, <1>4, <1>6, Numbers DEF LineTime
<1> QED
  BY <1>2, <1>3, <1>5, <1>7

LEMMA DriveNextBit ==
  ASSUME NEW d \in Drivers, NEW byte \in Seq(Levels), Len(byte) = ByteBits,
         Drives(d, byte), d.counter + 1 = BitCycles, d.state # "STOP"
  PROVE  /\ drive_rx(d) \in Drivers /\ Drives(drive_rx(d), byte)
         /\ LineTime(drive_rx(d)) = LineTime(d) + 1 /\ drive_rx(d).queue = d.queue
<1>t. /\ d.counter \in Nat /\ d.bit_index \in Nat /\ d.shifter \in Seq(Levels) /\ d.level \in Levels
      /\ d.state \in {"START", "DATA"} /\ d.bit_cycles = BitCycles
  BY DEF Drivers, Drives
<1>1. CASE d.state = "START"
  <2>1. drive_rx(d) = [d EXCEPT !.counter = 0, !.bit_index = 0, !.state = "DATA", !.level = Head(d.shifter)]
    BY <1>t, <1>1, Numbers DEF drive_rx, DriverStart
  <2>2. /\ Len(d.shifter) = ByteBits /\ Head(d.shifter) = d.shifter[1] /\ d.shifter[1] = byte[1]
        /\ Head(d.shifter) \in Levels
    BY <1>t, <1>1, Numbers, TailOf DEF Drives
  <2>3. drive_rx(d) \in Drivers
    <3>1. 0 \in Nat /\ "DATA" \in States
      BY DEF States
    <3> QED
      BY <2>1, <2>2, <3>1, DriverToData
  <2>4. /\ drive_rx(d).counter = 0 /\ drive_rx(d).state = "DATA"
        /\ drive_rx(d).bit_index = 0 /\ drive_rx(d).shifter = d.shifter
        /\ drive_rx(d).level = byte[1] /\ drive_rx(d).bit_cycles = BitCycles
        /\ drive_rx(d).queue = d.queue
    BY <1>t, <2>1, <2>2 DEF Drivers
  <2>5. Slot(d) = 0 /\ Slot(drive_rx(d)) = 1
    BY <1>1, <2>4 DEF Slot
  <2>6. \A q \in 1 .. Len(d.shifter) : d.shifter[q] = byte[0 + q]
    BY <1>1 DEF Drives
  <2>7. Drives(drive_rx(d), byte)
    BY <2>2, <2>4, <2>5, <2>6, Numbers DEF Drives, Level
  <2>8. LineTime(drive_rx(d)) = LineTime(d) + 1
    BY <1>t, <2>4, <2>5, Numbers DEF LineTime
  <2> QED
    BY <2>3, <2>4, <2>7, <2>8
<1>2. CASE d.state = "DATA"
  <2> DEFINE last == (d.bit_index + 1 = ByteBits)
             rest == Tail(d.shifter)
             i == d.bit_index
  <2>1. drive_rx(d) = [d EXCEPT !.counter = 0, !.shifter = rest, !.bit_index = i + 1,
                       !.state = IF last THEN "STOP" ELSE "DATA",
                       !.level = IF last THEN 1 ELSE Head(rest)]
    <3>1. d.bit_cycles # 0 /\ ~(d.counter + 1 < d.bit_cycles) /\ d.state # "IDLE" /\ d.state # "START"
      BY <1>t, <1>2, Numbers
    <3>2. drive_rx(d) = DriverData(d)
      BY <1>2, <3>1 DEF drive_rx
    <3> QED
      BY <3>2 DEF DriverData
  <2>2. i \in Nat /\ i < ByteBits /\ Len(d.shifter) = ByteBits - i /\ Len(d.shifter) > 0
        /\ \A q \in 1 .. Len(d.shifter) : d.shifter[q] = byte[i + q]
    BY <1>t, <1>2, Numbers DEF Drives
  <2>3. rest \in Seq(Levels) /\ Len(rest) = ByteBits - (i + 1)
        /\ \A q \in 1 .. Len(d.shifter) - 1 : rest[q] = d.shifter[q + 1]
    BY <1>t, <2>2, TailOf
  <2>4. ASSUME NEW q \in 1 .. Len(rest) PROVE rest[q] = byte[(i + 1) + q]
    <3>1. q \in 1 .. Len(d.shifter) - 1 /\ q + 1 \in 1 .. Len(d.shifter) /\ i + (q + 1) = (i + 1) + q
      <4> DEFINE k == Len(d.shifter)
                 l == Len(rest)
      <4>1. k \in Nat /\ l = k - 1 /\ i \in Nat
        BY <2>2, <2>3, Numbers
      <4>2. q \in 1 .. l
        OBVIOUS
      <4> HIDE DEF k, l, i
      <4>3. q \in 1 .. k - 1 /\ q + 1 \in 1 .. k /\ i + (q + 1) = (i + 1) + q
        BY <4>1, <4>2
      <4> QED
        BY <4>3 DEF k, i
    <3> QED
      BY <2>2, <2>3, <3>1
  <2>5. ~last => Len(rest) > 0 /\ Head(rest) = byte[i + 2] /\ Head(rest) \in Levels
    <3> SUFFICES ASSUME ~last PROVE Len(rest) > 0 /\ Head(rest) = byte[i + 2] /\ Head(rest) \in Levels
      OBVIOUS
    <3>1. Len(rest) > 0
      BY <2>2, <2>3, Numbers
    <3>2. Head(rest) = rest[1] /\ Head(rest) \in Levels
      BY <2>3, <3>1, TailOf
    <3>3. rest[1] = byte[(i + 1) + 1] /\ (i + 1) + 1 = i + 2
      BY <2>2, <2>3, <2>4, <3>1
    <3> QED
      BY <3>1, <3>2, <3>3
  <2> DEFINE lv == IF last THEN 1 ELSE Head(rest)
             st == IF last THEN "STOP" ELSE "DATA"
  <2>6. lv \in Levels /\ st \in {"STOP", "DATA"} /\ (st = "STOP" <=> i + 1 = ByteBits)
    BY <2>5 DEF Levels
  <2>7. lv = Level(byte, i + 2)
    BY <2>2, <2>5, Numbers DEF Level
  <2>8. drive_rx(d) = [d EXCEPT !.counter = 0, !.shifter = rest, !.bit_index = i + 1,
                       !.state = st, !.level = lv]
    BY <2>1
  <2> HIDE DEF last, rest, lv, st
  <2>9. drive_rx(d) \in Drivers
    <3>1. /\ 0 \in Nat /\ i + 1 \in Nat /\ st \in States
          /\ rest \in Seq(Levels) /\ lv \in Levels
      BY <2>2, <2>3, <2>6 DEF States
    <3> QED
      BY <2>8, <3>1, DriverToBit
  <2>10. /\ drive_rx(d).counter = 0 /\ drive_rx(d).state = st
         /\ drive_rx(d).bit_index = i + 1 /\ drive_rx(d).shifter = rest
         /\ drive_rx(d).level = lv /\ drive_rx(d).bit_cycles = BitCycles
         /\ drive_rx(d).queue = d.queue
    BY <1>t, <2>8 DEF Drivers
  <2>11. Slot(d) = i + 1 /\ Slot(drive_rx(d)) = i + 2
    BY <1>2, <2>2, <2>6, <2>10 DEF Slot
  <2>12. st # "START" /\ st # "IDLE"
    BY <2>6
  <2>13. Drives(drive_rx(d), byte)
    BY <2>2, <2>3, <2>4, <2>6, <2>7, <2>10, <2>11, <2>12, Numbers DEF Drives
  <2>14. (i + 2) * BitCycles = (i + 1) * BitCycles + BitCycles
    BY <2>2, Numbers
  <2>15. LineTime(drive_rx(d)) = LineTime(d) + 1
    BY <1>t, <2>2, <2>10, <2>11, <2>14, Numbers DEF LineTime
  <2> QED
    BY <2>9, <2>10, <2>13, <2>15
<1> QED
  BY <1>t, <1>1, <1>2

LEMMA DriveEnds ==
  ASSUME NEW d \in Drivers, NEW byte \in Seq(Levels),
         Drives(d, byte), d.counter + 1 = BitCycles, d.state = "STOP"
  PROVE  /\ drive_rx(d) \in Drivers /\ drive_rx(d).state = "IDLE" /\ drive_rx(d).level = 1
         /\ drive_rx(d).queue = d.queue /\ drive_rx(d).bit_cycles = BitCycles
         /\ LineTime(d) + 1 = (ByteBits + 2) * BitCycles
<1>1. drive_rx(d) = [d EXCEPT !.counter = 0, !.state = "IDLE", !.level = 1]
  BY Numbers DEF drive_rx, DriverStop, Drives
<1>2. d.counter \in Nat /\ d.bit_index = ByteBits /\ d.bit_cycles = BitCycles
  BY DEF Drivers, Drives
<1>3. (ByteBits + 2) * BitCycles = (ByteBits + 1) * BitCycles + BitCycles
  BY Numbers
<1>4. LineTime(d) + 1 = (ByteBits + 2) * BitCycles
  BY <1>2, <1>3, Numbers DEF LineTime, Slot
<1>5. drive_rx(d) \in Drivers
  <2>1. 0 \in Nat /\ 1 \in Levels /\ "IDLE" \in States
    BY DEF Levels, States
  <2> QED
    BY <1>1, <2>1, DriverToIdle
<1> QED
  BY <1>1, <1>2, <1>4, <1>5 DEF Drivers

\* The level of a frame at a moment of it, and where the frame ends.
LEMMA DrivesLevel ==
  ASSUME NEW d \in Drivers, NEW byte \in Seq(Levels), Drives(d, byte),
         NEW k \in Nat, k * BitCycles <= LineTime(d), LineTime(d) < (k + 1) * BitCycles
  PROVE  d.level = Level(byte, k)
<1>1. Slot(d) \in Nat /\ d.counter \in Nat /\ d.counter < BitCycles
  BY DEF Slot, Drivers, Drives
<1>2. LineTime(d) = Slot(d) * BitCycles + d.counter /\ Slot(d) * BitCycles \in Nat
  BY <1>1, Numbers DEF LineTime
<1>3. (Slot(d) + 1) * BitCycles = Slot(d) * BitCycles + BitCycles
  BY <1>1, Numbers
<1>4. Slot(d) * BitCycles <= LineTime(d) /\ LineTime(d) < (Slot(d) + 1) * BitCycles /\ LineTime(d) \in Nat
  BY <1>1, <1>2, <1>3, Numbers
<1>5. Slot(d) = k
  BY <1>1, <1>4, Numbers, OneBit
<1> QED
  BY <1>5 DEF Drives

LEMMA DrivesWithin ==
  ASSUME NEW d \in Drivers, NEW byte \in Seq(Levels), Drives(d, byte)
  PROVE  LineTime(d) \in Nat /\ LineTime(d) < (ByteBits + 2) * BitCycles
<1> DEFINE j == Slot(d)
           k == ByteBits + 1 - j
<1>1. /\ j \in Nat /\ j <= ByteBits + 1 /\ d.counter \in Nat /\ d.counter < BitCycles
  BY Numbers DEF Slot, Drivers, Drives
<1>2. k \in Nat /\ ByteBits + 2 = j + k + 1
  BY <1>1, Numbers
<1>3. LineTime(d) = j * BitCycles + d.counter
  BY DEF LineTime
<1> HIDE DEF j, k
<1>4. (j + k + 1) * BitCycles = j * BitCycles + k * BitCycles + BitCycles
      /\ j * BitCycles \in Nat /\ k * BitCycles \in Nat
  BY <1>1, <1>2, Numbers
<1> DEFINE p == j * BitCycles
           q == k * BitCycles
<1>5. (ByteBits + 2) * BitCycles = p + q + BitCycles /\ p \in Nat /\ q \in Nat
      /\ LineTime(d) = p + d.counter
  BY <1>2, <1>3, <1>4
<1> HIDE DEF p, q
<1> QED
  BY <1>1, <1>5, Numbers

-----------------------------------------------------------------------------
(* The SoC's receiver takes a frame that another drives.                   *)

LEMMA SameSequence ==
  ASSUME NEW S, NEW s \in Seq(S), NEW t \in Seq(S), Len(s) = Len(t),
         \A q \in 1 .. Len(s) : s[q] = t[q]
  PROVE  s = t
OBVIOUS

LEMMA SocTakes ==
  ASSUME NEW s \in Socs, NEW t \in Nat, NEW f \in Seq(Levels), NEW g,
         g = [s EXCEPT !.rx_time = t, !.rx_bits = f]
  PROVE  /\ g \in Socs /\ g.rx_time = t /\ g.rx_bits = f /\ g.bit = s.bit
         /\ g.tx_queue = s.tx_queue /\ g.tx_frame = s.tx_frame /\ g.tx_time = s.tx_time
BY DEF Socs

SameTx(g, s) ==
  /\ g.bit = s.bit /\ g.tx_queue = s.tx_queue /\ g.tx_frame = s.tx_frame
  /\ g.tx_time = s.tx_time

LEMMA SocStarts ==
  ASSUME NEW s \in Socs, NEW g, g = [s EXCEPT !.rx_time = 1]
  PROVE  /\ g \in Socs /\ g.rx_time = 1 /\ g.rx_bits = s.rx_bits /\ g.bit = s.bit
         /\ g.tx_queue = s.tx_queue /\ g.tx_frame = s.tx_frame /\ g.tx_time = s.tx_time
BY DEF Socs

LEMMA NextInBit ==
  ASSUME NEW b \in Nat, b >= 2, NEW x \in Nat, x < b
  PROVE  \/ x + 1 = b /\ (x + 1) % b = 0
         \/ x + 1 < b /\ (x + 1) % b = x + 1
<1>1. CASE x + 1 = b
  <2>1. b * 1 + 0 = x + 1 /\ b \in Nat \ {0} /\ 0 \in 0 .. b - 1
    BY <1>1
  <2>2. (b * 1 + 0) % b = 0
    BY <2>1, Remainder
  <2> QED
    BY <1>1, <2>1, <2>2
<1>2. CASE x + 1 < b
  <2>1. b * 0 + (x + 1) = x + 1 /\ b \in Nat \ {0} /\ x + 1 \in 0 .. b - 1
    BY <1>2
  <2>2. (b * 0 + (x + 1)) % b = x + 1
    BY <2>1, Remainder
  <2> QED
    BY <1>2, <2>1, <2>2
<1> QED
  BY <1>1, <1>2

LEMMA RxRests ==
  ASSUME NEW s \in Socs, RxIdle(s)
  PROVE  RxCycle(s, 1) = s /\ ~RxFull(s)
BY Numbers DEF RxCycle, RxIdle, RxFull

LEMMA RxStarts ==
  ASSUME NEW s \in Socs, RxIdle(s), NEW byte
  PROVE  /\ RxCycle(s, 0) \in Socs /\ SameTx(RxCycle(s, 0), s)
         /\ ~RxIdle(RxCycle(s, 0)) /\ ~RxFull(RxCycle(s, 0))
         /\ Takes(RxCycle(s, 0), byte, 0)
<1> DEFINE g == RxCycle(s, 0)
<1>1. g = [s EXCEPT !.rx_time = 1]
  BY DEF RxCycle
<1>2. /\ g \in Socs /\ g.rx_time = 1 /\ g.rx_bits = <<>> /\ g.bit = s.bit
      /\ g.tx_queue = s.tx_queue /\ g.tx_frame = s.tx_frame /\ g.tx_time = s.tx_time
  BY <1>1, SocStarts DEF RxIdle
<1> HIDE DEF g
<1>3. s.bit \in SocBits
  BY DEF Socs
<1>4. s.bit \in Nat /\ s.bit >= 2 /\ s.bit \div 2 >= 1
  BY <1>3, Drift
<1>5. Takes(g, byte, 0)
  BY <1>2, <1>4, Numbers DEF Takes
<1>6. ~RxIdle(g) /\ ~RxFull(g) /\ SameTx(g, s)
  BY <1>2, Numbers DEF RxIdle, RxFull, SameTx
<1> QED
  BY <1>2, <1>5, <1>6 DEF g

LEMMA RxOn ==
  ASSUME NEW s \in Socs, NEW byte \in Seq(Levels), NEW t \in Nat, ~RxIdle(s), Takes(s, byte, t),
         NEW lv \in Levels,
         \A k \in 0 .. ByteBits + 1 :
            k * BitCycles <= t + 1 /\ t + 1 < (k + 1) * BitCycles => lv = Level(byte, k)
  PROVE  /\ RxCycle(s, lv) \in Socs /\ SameTx(RxCycle(s, lv), s)
         /\ RxFull(RxCycle(s, lv)) =>
              /\ t + 1 = TakenAt(s.bit)
              /\ \A q \in 1 .. ByteBits + 2 : RxCycle(s, lv).rx_bits[q] = Level(byte, q - 1)
         /\ ~RxFull(RxCycle(s, lv)) =>
              ~RxIdle(RxCycle(s, lv)) /\ Takes(RxCycle(s, lv), byte, t + 1)
<1> DEFINE g == RxCycle(s, lv)
           b == s.bit
           h == s.bit \div 2
           n == Len(s.rx_bits)
           x == s.rx_time
           tm == (x + 1) % b
           bits == IF x = h THEN Append(s.rx_bits, lv) ELSE s.rx_bits
<1>1. s.bit \in SocBits /\ s.rx_bits \in Seq(Levels) /\ x \in Nat /\ n \in Nat
  BY DEF Socs
<1>2. b \in Nat /\ b >= 2 /\ h \in Nat /\ h >= 1 /\ h < b
  BY <1>1, Drift
<1>3. n <= ByteBits + 1 /\ x < b
  BY DEF Takes
<1>4. (x + 1 = b /\ tm = 0) \/ (x + 1 < b /\ tm = x + 1)
  BY <1>1, <1>2, <1>3, NextInBit
<1>5. bits \in Seq(Levels) /\ tm \in Nat
  BY <1>1, <1>4
<1>6. g = [s EXCEPT !.rx_time = tm, !.rx_bits = bits]
  BY DEF RxCycle
<1>7. /\ g \in Socs /\ g.rx_time = tm /\ g.rx_bits = bits /\ g.bit = b
      /\ g.tx_queue = s.tx_queue /\ g.tx_frame = s.tx_frame /\ g.tx_time = s.tx_time
  <2>1. s \in Socs /\ tm \in Nat /\ bits \in Seq(Levels)
    BY <1>5
  <2> HIDE DEF g, tm, bits, b, x, h, n
  <2>2. /\ g \in Socs /\ g.rx_time = tm /\ g.rx_bits = bits /\ g.bit = s.bit
        /\ g.tx_queue = s.tx_queue /\ g.tx_frame = s.tx_frame /\ g.tx_time = s.tx_time
    BY <1>6, <2>1 DEF Socs
  <2> QED
    BY <2>2 DEF b
<1>8. SameTx(g, s)
  BY <1>7 DEF SameTx
<1>9. \A q \in 1 .. n : s.rx_bits[q] = Level(byte, q - 1)
  BY DEF Takes
<1> DEFINE p == n * b
<1>10. (n + 1) * b = p + b /\ p \in Nat /\ (n >= 1 => (n - 1) * b = p - b)
  BY <1>1, <1>2
<1>11. CASE x = h
  <2>1. bits = Append(s.rx_bits, lv) /\ Len(bits) = n + 1
    BY <1>1, <1>11
  <2>2. t + 1 = n * b + h
    BY <1>1, <1>2, <1>11 DEF Takes
  <2>9. t + 1 = p + h
    BY <2>2
  <2>3. lv = Level(byte, n)
    <3>1. n \in 0 .. ByteBits + 1
      BY <1>1, <1>3, Numbers
    <3>2. n * BitCycles <= n * b + h /\ n * b + h < (n + 1) * BitCycles
      BY <1>1, <3>1, TakenInBit
    <3> QED
      BY <2>2, <3>1, <3>2
  <2>4. ASSUME NEW q \in 1 .. Len(bits) PROVE bits[q] = Level(byte, q - 1)
    <3>1. CASE q = n + 1
      <4>1. bits[q] = lv /\ q - 1 = n
        BY <1>1, <2>1, <3>1
      <4> QED
        BY <2>3, <4>1
    <3>2. CASE q # n + 1
      <4>1. q \in 1 .. n
        BY <1>1, <2>1, <3>2
      <4>2. bits[q] = s.rx_bits[q]
        BY <1>1, <2>1, <4>1
      <4> QED
        BY <1>9, <4>1, <4>2
    <3> QED
      BY <3>1, <3>2
  <2> HIDE DEF g, bits, tm
  <2>5. CASE RxFull(g)
    <3>1. Len(bits) = ByteBits + 2 /\ n = ByteBits + 1
      BY <1>1, <1>7, <2>1, <2>5, Numbers DEF RxFull
    <3>2. t + 1 = TakenAt(b)
      BY <2>2, <3>1 DEF TakenAt
    <3> QED
      BY <1>7, <1>8, <2>4, <2>5, <3>1, <3>2 DEF g
  <2>6. CASE ~RxFull(g)
    <3>1. Len(bits) <= ByteBits + 1 /\ Len(bits) # 0
      BY <1>1, <1>3, <1>7, <2>1, <2>6, Numbers DEF RxFull
    <3>2. tm < b /\ (tm <= h => tm = 0 /\ h + 1 = b) /\ (~(tm <= h) => tm = h + 1)
      <4>1. b \in Nat /\ h \in Nat /\ h >= 1 /\ h < b /\ x = h
        BY <1>2, <1>11
      <4>2. \/ x + 1 = b /\ tm = 0
            \/ x + 1 < b /\ tm = x + 1
        BY <1>4
      <4> HIDE DEF b, h, x
      <4>3. CASE h + 1 = b /\ tm = 0
        BY <4>1, <4>3
      <4>4. CASE h + 1 < b /\ tm = h + 1
        BY <4>1, <4>4
      <4> QED
        BY <4>1, <4>2, <4>3, <4>4
    <3>3. IF tm <= h THEN (t + 1) + 1 = (n + 1) * b + tm ELSE (t + 1) + 1 = ((n + 1) - 1) * b + tm
      <4>1. (n + 1) - 1 = n /\ tm \in Nat
        BY <1>1, <1>5
      <4>2. tm <= h => (t + 1) + 1 = (n + 1) * b + tm
        <5>1. p \in Nat /\ b \in Nat /\ h \in Nat /\ (n + 1) * b = p + b /\ t + 1 = p + h
          BY <1>2, <1>10, <2>9
        <5> HIDE DEF p, h, b, n
        <5> QED
          BY <3>2, <5>1
      <4>3. ~(tm <= h) => (t + 1) + 1 = n * b + tm
        <5> HIDE DEF p, h, b
        <5> QED
          BY <1>10, <1>2, <4>1, <2>9, <3>2
      <4> QED
        BY <4>1, <4>2, <4>3
    <3>4. IF tm <= h THEN (t + 1) + 1 = Len(bits) * b + tm ELSE (t + 1) + 1 = (Len(bits) - 1) * b + tm
      BY <2>1, <3>3
    <3>5. Takes(g, byte, t + 1)
      BY <1>7, <2>4, <3>1, <3>2, <3>4 DEF Takes
    <3>6. ~RxIdle(g)
      BY <1>7, <3>1 DEF RxIdle
    <3> QED
      BY <1>7, <1>8, <2>6, <3>5, <3>6 DEF g
  <2> QED
    BY <2>5, <2>6
<1>12. CASE x # h
  <2>1. bits = s.rx_bits
    BY <1>12
  <2> HIDE DEF g, bits, tm
  <2>2. ~RxFull(g)
    BY <1>1, <1>3, <1>7, <2>1, Numbers DEF RxFull
  <2>3. n = 0 => x >= 1 /\ x < h
    BY <1>1, <1>2, <1>12 DEF Takes
  <2>4. x < h => t + 1 = n * b + x /\ tm = x + 1 /\ tm <= h
    BY <1>1, <1>2, <1>4 DEF Takes
  <2>5. x > h => /\ t + 1 = n * b - b + x /\ n >= 1
                 /\ (tm = x + 1 /\ x + 1 < b) \/ (tm = 0 /\ x + 1 = b)
    <3> SUFFICES ASSUME x > h
                 PROVE  /\ t + 1 = n * b - b + x /\ n >= 1
                        /\ (tm = x + 1 /\ x + 1 < b) \/ (tm = 0 /\ x + 1 = b)
      OBVIOUS
    <3>1. n >= 1
      BY <1>1, <1>2, <2>3
    <3>2. t + 1 = (n - 1) * b + x
      BY <1>1, <1>2 DEF Takes
    <3> QED
      BY <1>1, <1>2, <1>3, <1>4, <1>10, <3>1, <3>2
  <2>6. tm < b /\ IF tm <= h THEN (t + 1) + 1 = n * b + tm ELSE (t + 1) + 1 = (n - 1) * b + tm
    <3>1. tm < b
      BY <1>1, <1>2, <1>4
    <3>2. tm \in Nat /\ p \in Nat /\ (n >= 1 => (n - 1) * b = p - b) /\ n \in Nat
      BY <1>1, <1>5, <1>10
    <3>3. x < h \/ x > h
      BY <1>1, <1>2, <1>12
    <3>4. x < h => t + 1 = p + x /\ tm = x + 1 /\ tm <= h
      BY <2>4
    <3>5. x > h => /\ t + 1 = p - b + x /\ n >= 1
                   /\ (tm = x + 1 /\ x + 1 < b) \/ (tm = 0 /\ x + 1 = b)
      BY <2>5
    <3> HIDE DEF p, tm
    <3>6. CASE x < h
      <4>1. (t + 1) + 1 = p + tm
        BY <1>1, <1>2, <3>2, <3>4, <3>6
      <4> QED
        BY <3>1, <3>4, <3>6, <4>1 DEF p
    <3>7. CASE x > h
      <4> HIDE DEF h, b, x, n
      <4>1. CASE tm = x + 1
        <5>1. (t + 1) + 1 = (p - b) + tm /\ ~(tm <= h)
          BY <1>1, <1>2, <3>2, <3>5, <3>7, <4>1
        <5> QED
          <6>1. (n - 1) * b = p - b
            BY <3>2, <3>5, <3>7
          <6> QED
            BY <3>1, <5>1, <6>1
      <4>2. CASE tm = 0 /\ x + 1 = b
        <5>1. (t + 1) + 1 = p + tm /\ tm <= h
          <6>1. t + 1 = p - b + x /\ x + 1 = b /\ tm = 0
            BY <3>5, <3>7, <4>2
          <6>2. p \in Nat /\ b \in Nat /\ h \in Nat /\ x \in Nat
            BY <1>1, <1>2, <3>2
          <6> QED
            BY <6>1, <6>2
        <5> QED
          BY <3>1, <5>1 DEF p, b
      <4> QED
        BY <3>5, <3>7, <4>1, <4>2
    <3> QED
      BY <3>3, <3>6, <3>7
  <2>7. n = 0 => tm >= 1 /\ tm <= h
    BY <1>1, <1>2, <2>3, <2>4
  <2>8. Takes(g, byte, t + 1)
    BY <1>3, <1>7, <1>9, <2>1, <2>6, <2>7 DEF Takes
  <2>9. ~RxIdle(g)
    <3>1. n = 0 => tm # 0
      BY <1>1, <2>7
    <3> QED
      BY <1>1, <1>7, <2>1, <3>1 DEF RxIdle
  <2> QED
    BY <1>7, <1>8, <2>2, <2>8, <2>9 DEF g
<1> QED
  BY <1>11, <1>12

\* A byte is taken before the frame ends.
LEMMA TakesEarly ==
  ASSUME NEW s \in Socs, NEW byte, NEW t \in Nat, Takes(s, byte, t)
  PROVE  t + 1 <= TakenAt(s.bit)
<1> DEFINE b == s.bit
           h == s.bit \div 2
           n == Len(s.rx_bits)
<1>1. b \in SocBits /\ n \in Nat /\ s.rx_time \in Nat
  BY DEF Socs
<1>2. b \in Nat /\ h \in Nat
  BY <1>1, Drift
<1> DEFINE j == ByteBits + 1 - n
<1>3. j \in Nat /\ ByteBits + 1 = n + j
  BY <1>1, Numbers DEF Takes
<1> DEFINE p == n * b
<1>4. (n + j) * b = p + j * b /\ j * b \in Nat /\ p \in Nat
  <2>1. n \in Nat /\ j \in Nat /\ b \in Nat
    BY <1>1, <1>2, <1>3
  <2> HIDE DEF n, j, b
  <2> QED
    BY <2>1
<1>5. (n - 1) * b = p - b
  <2>1. n \in Nat /\ b \in Nat
    BY <1>1, <1>2
  <2> HIDE DEF n, b
  <2> QED
    BY <2>1
<1>6. TakenAt(b) = (n + j) * b + h
  BY <1>3 DEF TakenAt
<1> HIDE DEF j
<1>7. t + 1 <= p + h
  <2>1. s.rx_time < b /\ IF s.rx_time <= h THEN t + 1 = p + s.rx_time
                       ELSE t + 1 = (n - 1) * b + s.rx_time
    BY DEF Takes
  <2>2. IF s.rx_time <= h THEN t + 1 = p + s.rx_time ELSE t + 1 = (p - b) + s.rx_time
    BY <1>5, <2>1
  <2> HIDE DEF p, h, b
  <2> QED
    BY <1>1, <1>2, <1>4, <2>1, <2>2
<1> QED
  BY <1>2, <1>4, <1>6, <1>7

LEMMA RxByteIs ==
  ASSUME NEW g \in Socs, RxFull(g), NEW byte \in Seq(Levels), Len(byte) = ByteBits,
         \A q \in 1 .. ByteBits + 2 : g.rx_bits[q] = Level(byte, q - 1)
  PROVE  RxByte(g) = byte /\ Last(g.rx_bits) = 1
<1>1. g.rx_bits \in Seq(Levels) /\ Len(g.rx_bits) = ByteBits + 2
  BY DEF Socs, RxFull
<1>2. RxByte(g) \in Seq(Levels) /\ Len(RxByte(g)) = ByteBits
      /\ \A q \in 1 .. ByteBits : RxByte(g)[q] = g.rx_bits[q + 1]
  BY <1>1, Numbers DEF RxByte
<1>3. ASSUME NEW q \in 1 .. ByteBits PROVE RxByte(g)[q] = byte[q]
  <2>1. q + 1 \in 1 .. ByteBits + 2 /\ (q + 1) - 1 = q /\ q # 0 /\ q # ByteBits + 1
    BY Numbers
  <2>2. g.rx_bits[q + 1] = Level(byte, q)
    BY <2>1
  <2> QED
    BY <1>2, <2>1, <2>2 DEF Level
<1>4. RxByte(g) = byte
  BY <1>2, <1>3, SameSequence
<1>5. Last(g.rx_bits) = g.rx_bits[ByteBits + 2] /\ (ByteBits + 2) - 1 = ByteBits + 1
  BY <1>1, Numbers DEF Last
<1>6. g.rx_bits[ByteBits + 2] = Level(byte, ByteBits + 1)
  BY <1>5, Numbers
<1> QED
  BY <1>4, <1>5, <1>6, Numbers DEF Level

-----------------------------------------------------------------------------
(* The SoC's transmitter.                                                  *)

SameRx(g, s) == g.bit = s.bit /\ g.rx_time = s.rx_time /\ g.rx_bits = s.rx_bits

LEMMA SocTxCounts ==
  ASSUME NEW s \in Socs, NEW c \in Nat, NEW g, g = [s EXCEPT !.tx_time = c]
  PROVE  /\ g \in Socs /\ SameRx(g, s) /\ g.tx_frame = s.tx_frame /\ g.tx_time = c
         /\ g.tx_queue = s.tx_queue
BY DEF Socs, SameRx

LEMMA FrameIs ==
  ASSUME NEW byte \in Seq(Levels), Len(byte) = ByteBits
  PROVE  /\ Frame(byte) \in Seq(Levels) /\ Len(Frame(byte)) = ByteBits + 2
         /\ \A q \in 1 .. ByteBits + 2 : Frame(byte)[q] = Level(byte, q - 1)
<1>1. <<0>> \in Seq(Levels) /\ <<1>> \in Seq(Levels) /\ Len(<<0>>) = 1 /\ Len(<<1>>) = 1
      /\ <<0>>[1] = 0 /\ <<1>>[1] = 1
  BY DEF Levels
<1> DEFINE front == <<0>> \o byte
<1>2. front \in Seq(Levels) /\ Len(front) = ByteBits + 1
      /\ front[1] = 0 /\ \A q \in 2 .. ByteBits + 1 : front[q] = byte[q - 1]
  BY <1>1, Numbers
<1>3. Frame(byte) = front \o <<1>>
  BY DEF Frame
<1> HIDE DEF front
<1>4. /\ Frame(byte) \in Seq(Levels) /\ Len(Frame(byte)) = ByteBits + 2
      /\ \A q \in 1 .. ByteBits + 1 : Frame(byte)[q] = front[q]
      /\ Frame(byte)[ByteBits + 2] = 1
  BY <1>1, <1>2, <1>3, Numbers
<1>5. ASSUME NEW q \in 1 .. ByteBits + 2 PROVE Frame(byte)[q] = Level(byte, q - 1)
  <2>1. CASE q = 1
    BY <1>2, <1>4, <2>1, Numbers DEF Level
  <2>2. CASE q \in 2 .. ByteBits + 1
    <3>1. Frame(byte)[q] = byte[q - 1] /\ q - 1 # 0 /\ q - 1 # ByteBits + 1
      BY <1>2, <1>4, <2>2, Numbers
    <3> QED
      BY <3>1 DEF Level
  <2>3. CASE q = ByteBits + 2
    <3>1. q - 1 = ByteBits + 1 /\ q - 1 # 0
      BY <2>3, Numbers
    <3> QED
      BY <1>4, <2>3, <3>1 DEF Level
  <2> QED
    BY <2>1, <2>2, <2>3, Numbers
<1> QED
  BY <1>4, <1>5

LEMMA TxStarts ==
  ASSUME NEW s \in Socs, s.tx_frame = <<>>, s.tx_queue # <<>>, IsByte(Head(s.tx_queue))
  PROVE  LET g == TxCycle(s, TRUE)
         IN /\ g \in Socs /\ SameRx(g, s) /\ g.tx_frame # <<>> /\ g.tx_queue = Tail(s.tx_queue)
            /\ Sends(g, Head(s.tx_queue)) /\ TxTime(g) = 0 /\ TxLevel(g) = 0
<1> DEFINE g == TxCycle(s, TRUE)
           byte == Head(s.tx_queue)
           f == Frame(byte)
           q == Tail(s.tx_queue)
<1>1. g = [s EXCEPT !.tx_frame = f, !.tx_time = 0, !.tx_queue = q]
  BY DEF TxCycle
<1>2. byte \in Seq(Levels) /\ Len(byte) = ByteBits
  BY DEF IsByte
<1>3. s.tx_queue \in Seq(Seq(Levels)) /\ s.bit \in SocBits
  BY DEF Socs
<1>4. q \in Seq(Seq(Levels))
  BY <1>3
<1> HIDE DEF g, byte, f, q
<1>5. f \in Seq(Levels) /\ Len(f) = ByteBits + 2 /\ \A k \in 1 .. ByteBits + 2 : f[k] = Level(byte, k - 1)
  BY <1>2, FrameIs DEF f
<1>6. /\ g \in Socs /\ SameRx(g, s) /\ g.tx_frame = f /\ g.tx_time = 0 /\ g.tx_queue = q
  <2>1. f \in Seq(Levels) /\ q \in Seq(Seq(Levels))
    BY <1>4, <1>5
  <2> QED
    BY <1>1, <2>1 DEF Socs, SameRx
<1>7. g.tx_frame # <<>> /\ Len(g.tx_frame) \in 1 .. ByteBits + 2
  BY <1>5, <1>6, Numbers
<1>8. g.bit = s.bit /\ s.bit \in Nat /\ s.bit >= 2
  BY <1>3, <1>6, Drift DEF SameRx
<1>9. TxSlot(g) = 0 /\ TxTime(g) = 0
  BY <1>5, <1>6, <1>8, Numbers DEF TxSlot, TxTime
<1>10. ASSUME NEW k \in 1 .. Len(g.tx_frame) PROVE g.tx_frame[k] = Level(byte, TxSlot(g) + k - 1)
  <2>1. TxSlot(g) + k - 1 = k - 1 /\ k \in 1 .. ByteBits + 2
    BY <1>5, <1>6, <1>9
  <2> QED
    BY <1>5, <1>6, <2>1
<1>11. Sends(g, byte)
  BY <1>6, <1>7, <1>8, <1>10 DEF Sends
<1>12. TxLevel(g) = 0
  <2>1. Head(g.tx_frame) = f[1] /\ 1 \in 1 .. ByteBits + 2 /\ 1 - 1 = 0
    BY <1>5, <1>6, <1>7, Numbers
  <2>2. f[1] = Level(byte, 0)
    BY <1>5, <2>1
  <2> QED
    BY <1>7, <2>1, <2>2 DEF TxLevel, Level
<1> QED
  BY <1>6, <1>7, <1>9, <1>11, <1>12 DEF g, byte, q

LEMMA TxRests ==
  ASSUME NEW s \in Socs, s.tx_frame = <<>>
  PROVE  TxCycle(s, FALSE) = s /\ TxLevel(s) = 1
BY DEF TxCycle, TxLevel

LEMMA TxOn ==
  ASSUME NEW s \in Socs, NEW byte \in Seq(Levels), Sends(s, byte), NEW start
  PROVE  LET g == TxCycle(s, start)
         IN /\ g \in Socs /\ SameRx(g, s) /\ g.tx_queue = s.tx_queue
            /\ IF g.tx_frame = <<>> THEN TxTime(s) + 1 = (ByteBits + 2) * s.bit
               ELSE Sends(g, byte) /\ TxTime(g) = TxTime(s) + 1
<1> DEFINE g == TxCycle(s, start)
           b == s.bit
           j == TxSlot(s)
<1>1. /\ s.tx_frame \in Seq(Levels) /\ s.tx_time \in Nat /\ b \in SocBits
      /\ Len(s.tx_frame) \in 1 .. ByteBits + 2 /\ s.tx_time < b
  BY DEF Socs, Sends
<1>2. b \in Nat /\ b >= 2 /\ s.tx_frame # <<>>
  BY <1>1, Drift
<1>3. j \in 0 .. ByteBits + 1 /\ Len(s.tx_frame) = ByteBits + 2 - j
  <2>1. Len(s.tx_frame) \in Nat /\ Len(s.tx_frame) >= 1 /\ Len(s.tx_frame) <= ByteBits + 2
    BY <1>1, Numbers
  <2>2. j = ByteBits + 2 - Len(s.tx_frame)
    BY DEF TxSlot
  <2>3. \A m, n \in Nat : n >= 1 /\ n <= m + 2 =>
          m + 2 - n \in 0 .. m + 1 /\ n = m + 2 - (m + 2 - n)
    OBVIOUS
  <2>4. /\ ByteBits + 2 - Len(s.tx_frame) \in 0 .. ByteBits + 1
        /\ Len(s.tx_frame) = ByteBits + 2 - (ByteBits + 2 - Len(s.tx_frame))
    BY <2>1, <2>3, Numbers
  <2> QED
    BY <2>2, <2>4
<1>4. CASE s.tx_time + 1 < b
  <2>1. g = [s EXCEPT !.tx_time = s.tx_time + 1] /\ s.tx_time + 1 \in Nat
    BY <1>1, <1>2, <1>4 DEF TxCycle
  <2> HIDE DEF g
  <2>2. /\ g \in Socs /\ SameRx(g, s) /\ g.tx_frame = s.tx_frame /\ g.tx_time = s.tx_time + 1
        /\ g.tx_queue = s.tx_queue
    BY <2>1, SocTxCounts
  <2>3. TxSlot(g) = j /\ g.bit = b
    BY <2>2 DEF TxSlot, SameRx
  <2>4. Sends(g, byte)
    <3>1. \A q \in 1 .. Len(s.tx_frame) : s.tx_frame[q] = Level(byte, j + q - 1)
      BY DEF Sends
    <3> QED
      BY <1>1, <1>4, <2>2, <2>3, <3>1 DEF Sends
  <2>5. TxTime(g) = TxTime(s) + 1
    <3>1. j * b \in Nat
      BY <1>2, <1>3
    <3>2. TxTime(g) = j * b + (s.tx_time + 1) /\ TxTime(s) = j * b + s.tx_time
      BY <2>2, <2>3 DEF TxTime
    <3> QED
      BY <1>1, <3>1, <3>2
  <2> QED
    BY <1>2, <2>2, <2>4, <2>5 DEF g
<1>5. CASE s.tx_time + 1 = b
  <2> DEFINE f == Tail(s.tx_frame)
  <2>1. g = [s EXCEPT !.tx_frame = f, !.tx_time = 0]
    BY <1>1, <1>2, <1>5 DEF TxCycle
  <2>2. /\ f \in Seq(Levels) /\ Len(f) = ByteBits + 1 - j
        /\ \A q \in 1 .. Len(s.tx_frame) - 1 : f[q] = s.tx_frame[q + 1]
    <3>1. s.tx_frame \in Seq(Levels) /\ Len(s.tx_frame) > 0
      BY <1>1
    <3>2. /\ f \in Seq(Levels) /\ Len(f) = Len(s.tx_frame) - 1
          /\ \A q \in 1 .. Len(s.tx_frame) - 1 : f[q] = s.tx_frame[q + 1]
      BY <3>1, TailOf
    <3> HIDE DEF f
    <3>3. Len(s.tx_frame) - 1 = ByteBits + 1 - j
      BY <1>3, Numbers
    <3> QED
      BY <3>2, <3>3
  <2> HIDE DEF g, f
  <2>3. /\ g \in Socs /\ SameRx(g, s) /\ g.tx_frame = f /\ g.tx_time = 0
        /\ g.tx_queue = s.tx_queue
    <3>1. f \in Seq(Levels)
      BY <2>2
    <3> QED
      BY <2>1, <3>1 DEF Socs, SameRx
  <2>4. TxSlot(g) = j + 1 /\ g.bit = b
    <3>1. TxSlot(g) = ByteBits + 2 - Len(f) /\ g.bit = b
      BY <2>3 DEF TxSlot, SameRx
    <3> HIDE DEF j
    <3> QED
      BY <1>3, <2>2, <3>1, Numbers
  <2>5. (j + 1) * b = j * b + b /\ j * b \in Nat
    BY <1>2, <1>3
  <2>6. TxTime(g) = (j + 1) * b /\ TxTime(s) + 1 = (j + 1) * b
    <3>1. TxTime(g) = (j + 1) * b + 0 /\ TxTime(s) = j * b + s.tx_time
      BY <2>3, <2>4 DEF TxTime
    <3> QED
      BY <1>1, <1>2, <1>5, <2>5, <3>1
  <2>7. CASE f = <<>>
    <3>1. j + 1 = ByteBits + 2
      BY <1>3, <2>2, <2>7, Numbers
    <3> QED
      BY <2>3, <2>6, <2>7, <3>1 DEF g
  <2>8. CASE f # <<>>
    <3>1. Len(f) \in 1 .. ByteBits + 2
      BY <1>3, <2>2, <2>8, Numbers
    <3>2. ASSUME NEW q \in 1 .. Len(f) PROVE f[q] = Level(byte, (j + 1) + q - 1)
      <4>1. q \in 1 .. Len(s.tx_frame) - 1 /\ q + 1 \in 1 .. Len(s.tx_frame)
        BY <1>1, <1>3, <2>2, Numbers
      <4>2. s.tx_frame[q + 1] = Level(byte, j + (q + 1) - 1)
        BY <4>1 DEF Sends
      <4>3. j + (q + 1) - 1 = (j + 1) + q - 1
        BY <1>3
      <4> QED
        BY <2>2, <4>1, <4>2, <4>3
    <3>3. Sends(g, byte)
      BY <1>2, <2>3, <2>4, <3>1, <3>2 DEF Sends
    <3> QED
      BY <2>3, <2>6, <2>8, <3>3 DEF g
  <2> QED
    BY <2>7, <2>8
<1> QED
  BY <1>1, <1>2, <1>4, <1>5

LEMMA SendsLevel ==
  ASSUME NEW s \in Socs, NEW byte \in Seq(Levels), Sends(s, byte)
  PROVE  /\ TxTime(s) \in Nat
         /\ \A k \in Nat : k * s.bit <= TxTime(s) /\ TxTime(s) < (k + 1) * s.bit
              => TxLevel(s) = Level(byte, k)
<1> DEFINE b == s.bit
           j == TxSlot(s)
<1>1. /\ s.tx_frame \in Seq(Levels) /\ s.tx_time \in Nat /\ b \in SocBits
      /\ Len(s.tx_frame) \in 1 .. ByteBits + 2 /\ s.tx_time < b
  BY DEF Socs, Sends
<1>2. b \in Nat /\ s.tx_frame # <<>> /\ j \in Nat
  BY <1>1, Drift, Numbers DEF TxSlot
<1>3. TxTime(s) = j * b + s.tx_time /\ j * b \in Nat /\ (j + 1) * b = j * b + b
  BY <1>2 DEF TxTime
<1>4. TxTime(s) \in Nat /\ j * b <= TxTime(s) /\ TxTime(s) < (j + 1) * b
  BY <1>1, <1>2, <1>3
<1>5. TxLevel(s) = Level(byte, j)
  <2>1. TxLevel(s) = s.tx_frame[1] /\ 1 \in 1 .. Len(s.tx_frame)
    BY <1>1, <1>2 DEF TxLevel
  <2>2. s.tx_frame[1] = Level(byte, j + 1 - 1)
    BY <2>1 DEF Sends
  <2>3. j + 1 - 1 = j
    BY <1>2
  <2> QED
    BY <2>1, <2>2, <2>3
<1>6. ASSUME NEW k \in Nat, k * b <= TxTime(s), TxTime(s) < (k + 1) * b PROVE k = j
  BY <1>2, <1>4, <1>6, OneBit
<1> QED
  BY <1>4, <1>5, <1>6

LEMMA SendsWithin ==
  ASSUME NEW s \in Socs, NEW byte \in Seq(Levels), Sends(s, byte)
  PROVE  TxTime(s) \in Nat /\ TxTime(s) < (ByteBits + 2) * s.bit
<1> DEFINE b == s.bit
           j == TxSlot(s)
           n == Len(s.tx_frame)
<1>1. /\ s.tx_frame \in Seq(Levels) /\ s.tx_time \in Nat /\ b \in SocBits
      /\ n \in Nat /\ n >= 1 /\ n <= ByteBits + 2 /\ s.tx_time < b
  BY Numbers DEF Socs, Sends
<1>2. b \in Nat
  BY <1>1, Drift
<1>3. j = ByteBits + 2 - n
  BY DEF TxSlot
<1>4. TxTime(s) = j * b + s.tx_time
  BY DEF TxTime
<1> HIDE DEF j, n, b
<1>5. \A m, k \in Nat : k >= 1 /\ k <= m + 2 => m + 2 - k \in Nat /\ m + 2 = (m + 2 - k) + k
  OBVIOUS
<1>6. j \in Nat /\ ByteBits + 2 = j + n
  BY <1>1, <1>3, <1>5, Numbers
<1>7. (j + n) * b = j * b + n * b /\ j * b \in Nat /\ n * b \in Nat /\ n * b >= b
  <2>1. n * b = (n - 1) * b + b /\ (n - 1) * b \in Nat
    BY <1>1, <1>2
  <2> QED
    BY <1>1, <1>2, <1>6, <2>1
<1> DEFINE p == j * b
           q == n * b
<1>8. (ByteBits + 2) * b = p + q /\ p \in Nat /\ q \in Nat /\ q >= b /\ TxTime(s) = p + s.tx_time
  BY <1>4, <1>6, <1>7
<1> HIDE DEF p, q
<1>9. TxTime(s) \in Nat /\ TxTime(s) < (ByteBits + 2) * b
  BY <1>1, <1>2, <1>8
<1> QED
  BY <1>9 DEF b

-----------------------------------------------------------------------------
(* The monitor takes a frame that the SoC sends.                           *)

LEMMA MonitorLast ==
  ASSUME NEW u \in Monitors, NEW l \in Levels, NEW g, g = [u EXCEPT !.last = l]
  PROVE  /\ g \in Monitors /\ g.last = l /\ g.state = u.state /\ g.counter = u.counter
         /\ g.bit_index = u.bit_index /\ g.shifter = u.shifter /\ g.bit_cycles = u.bit_cycles
BY DEF Monitors

LEMMA MonitorCounter ==
  ASSUME NEW u \in Monitors, NEW c \in Nat, NEW g, g = [u EXCEPT !.counter = c]
  PROVE  /\ g \in Monitors /\ g.counter = c /\ g.state = u.state
         /\ g.bit_index = u.bit_index /\ g.shifter = u.shifter /\ g.bit_cycles = u.bit_cycles
BY DEF Monitors

LEMMA MonitorToData ==
  ASSUME NEW u \in Monitors, NEW g,
         g = [u EXCEPT !.state = "DATA", !.counter = 0, !.bit_index = 0, !.shifter = <<>>]
  PROVE  /\ g \in Monitors /\ g.state = "DATA" /\ g.counter = 0 /\ g.bit_index = 0
         /\ g.shifter = <<>> /\ g.bit_cycles = u.bit_cycles
<1>1. <<>> \in Seq(Levels)
  OBVIOUS
<1> QED
  BY <1>1 DEF Monitors

LEMMA SampleIdle ==
  ASSUME NEW u \in Monitors, u.state = "IDLE", u.last = 1
  PROVE  /\ sample(u, 1) \in Monitors /\ sample(u, 1).state = "IDLE" /\ sample(u, 1).last = 1
         /\ sample(u, 1).bit_cycles = u.bit_cycles
<1>1. CASE u.bit_cycles = 0
  <2>1. sample(u, 1) = u
    BY <1>1 DEF sample
  <2> QED
    BY <2>1
<1>2. CASE u.bit_cycles # 0
  <2>1. sample(u, 1) = [u EXCEPT !.last = 1]
    BY <1>2 DEF sample, MonitorIdle
  <2> QED
    BY <2>1, MonitorLast DEF Levels
<1> QED
  BY <1>1, <1>2

LEMMA SampleStarts ==
  ASSUME NEW u \in Monitors, u.state = "IDLE", u.last = 1, u.bit_cycles = BitCycles, NEW byte
  PROVE  /\ sample(u, 0) \in Monitors /\ sample(u, 0).state # "IDLE"
         /\ sample(u, 0).bit_cycles = BitCycles /\ Watches(sample(u, 0), byte, 1)
<1> DEFINE v == [u EXCEPT !.state = "START", !.counter = 0]
           g == sample(u, 0)
<1>1. g = [v EXCEPT !.last = 0]
  BY Numbers DEF sample, MonitorIdle
<1>2. v \in Monitors /\ v.state = "START" /\ v.counter = 0 /\ v.bit_cycles = BitCycles
  BY DEF Monitors
<1> HIDE DEF v, g
<1>3. 0 \in Levels
  BY DEF Levels
<1>4. /\ g \in Monitors /\ g.state = "START" /\ g.counter = 0 /\ g.bit_cycles = BitCycles
  BY <1>1, <1>2, <1>3, MonitorLast
<1>5. Watches(g, byte, 1)
  BY <1>4, Numbers DEF Watches
<1> QED
  BY <1>4, <1>5 DEF g

\* The monitor after the cycle, but for the level it remembers.
MonitorStep(u, tx) == CASE u.state = "START" -> MonitorStart(u, tx)
                    [] u.state = "DATA"  -> MonitorData(u, tx)
                    [] u.state = "STOP"  -> MonitorStop(u, tx)

LEMMA SampleIs ==
  ASSUME NEW u \in Monitors, u.state # "IDLE", u.bit_cycles = BitCycles, NEW tx
  PROVE  sample(u, tx) = [MonitorStep(u, tx) EXCEPT !.last = tx]
<1>1. u.state \in {"START", "DATA", "STOP"} /\ u.bit_cycles # 0
  BY Numbers DEF Monitors
<1>2. CASE u.state = "START"
  BY <1>1, <1>2 DEF sample, MonitorStep
<1>3. CASE u.state = "DATA"
  BY <1>1, <1>3 DEF sample, MonitorStep
<1>4. CASE u.state = "STOP"
  BY <1>1, <1>4 DEF sample, MonitorStep
<1> QED
  BY <1>1, <1>2, <1>3, <1>4

\* A cycle of the monitor within a frame.
Watched(u, v, byte, t) ==
  /\ v \in Monitors /\ v.bit_cycles = BitCycles
  /\ v.state # "IDLE" => Watches(v, byte, t + 1)
  /\ v.state = "IDLE" => u.state = "STOP" /\ t = MonitoredAt

LEMMA WatchStart ==
  ASSUME NEW u \in Monitors, NEW byte \in Seq(Levels), NEW t \in Nat, Watches(u, byte, t),
         u.state = "START", NEW tx \in Levels, t = Half => tx = 0
  PROVE  Watched(u, MonitorStep(u, tx), byte, t)
<1> DEFINE v == MonitorStep(u, tx)
<1>1. u.counter \in Nat /\ u.counter + 1 = t /\ t <= Half /\ u.bit_cycles = BitCycles
  BY DEF Watches, Monitors
<1>2. v = MonitorStart(u, tx)
  BY DEF MonitorStep
<1>3. CASE t < Half
  <2>1. v = [u EXCEPT !.counter = u.counter + 1] /\ u.counter + 1 \in Nat
    BY <1>1, <1>2, <1>3, Numbers DEF MonitorStart
  <2> HIDE DEF v
  <2>2. v \in Monitors /\ v.counter = u.counter + 1 /\ v.state = "START" /\ v.bit_cycles = BitCycles
    BY <1>1, <2>1, MonitorCounter
  <2>3. Watches(v, byte, t + 1)
    BY <1>1, <1>3, <2>2, Numbers DEF Watches
  <2> QED
    BY <2>2, <2>3 DEF Watched, v
<1>4. CASE t = Half
  <2>1. v = [u EXCEPT !.state = "DATA", !.counter = 0, !.bit_index = 0, !.shifter = <<>>]
    BY <1>1, <1>2, <1>4, Numbers DEF MonitorStart
  <2> HIDE DEF v
  <2>2. /\ v \in Monitors /\ v.state = "DATA" /\ v.counter = 0 /\ v.bit_index = 0
        /\ v.shifter = <<>> /\ v.bit_cycles = BitCycles
    BY <1>1, <2>1, MonitorToData
  <2>3. 0 * BitCycles = 0
    BY Numbers
  <2>4. Watches(v, byte, t + 1)
    BY <1>4, <2>2, <2>3, Numbers DEF Watches
  <2> QED
    BY <2>2, <2>4 DEF Watched, v
<1> QED
  BY <1>1, <1>3, <1>4, Numbers

\* What holds of a monitor that takes bits.
LEMMA WatchFacts ==
  ASSUME NEW u \in Monitors, NEW byte, NEW t \in Nat, Watches(u, byte, t), u.state # "START"
  PROVE  /\ u.counter \in Nat /\ u.counter < BitCycles /\ u.bit_index \in 0 .. ByteBits
         /\ u.shifter \in Seq(Levels) /\ Len(u.shifter) = u.bit_index
         /\ u.bit_cycles = BitCycles /\ (u.state = "STOP" <=> u.bit_index = ByteBits)
         /\ t = Half + u.bit_index * BitCycles + u.counter + 1
         /\ u.bit_index * BitCycles \in Nat
         /\ (u.bit_index + 1) * BitCycles = u.bit_index * BitCycles + BitCycles
<1>1. /\ u.counter \in Nat /\ u.bit_index \in Nat /\ u.shifter \in Seq(Levels)
  BY DEF Monitors
<1>2. /\ u.counter < BitCycles /\ u.bit_index <= ByteBits /\ Len(u.shifter) = u.bit_index
      /\ u.bit_cycles = BitCycles /\ (u.state = "STOP" <=> u.bit_index = ByteBits)
      /\ t = Half + u.bit_index * BitCycles + u.counter + 1
  BY DEF Watches
<1>3. /\ u.bit_index * BitCycles \in Nat
      /\ (u.bit_index + 1) * BitCycles = u.bit_index * BitCycles + BitCycles
  BY <1>1, Numbers
<1> QED
  BY <1>1, <1>2, <1>3, Numbers

LEMMA WatchWaits ==
  ASSUME NEW u \in Monitors, NEW byte \in Seq(Levels), NEW t \in Nat, Watches(u, byte, t),
         u.state # "START", NEW tx, u.counter + 1 < BitCycles
  PROVE  Watched(u, MonitorStep(u, tx), byte, t) /\ MonitorStep(u, tx).state # "IDLE"
<1> DEFINE v == MonitorStep(u, tx)
<1>1. u.state \in {"DATA", "STOP"}
  BY DEF Watches, Monitors
<1>2. /\ u.counter \in Nat /\ u.bit_index \in 0 .. ByteBits /\ u.bit_cycles = BitCycles
      /\ u.bit_index * BitCycles \in Nat
      /\ t = Half + u.bit_index * BitCycles + u.counter + 1
  BY WatchFacts
<1>3. v = [u EXCEPT !.counter = u.counter + 1] /\ u.counter + 1 \in Nat
  <2>1. CASE u.state = "DATA"
    BY <1>2, <2>1 DEF MonitorStep, MonitorData
  <2>2. CASE u.state = "STOP"
    BY <1>2, <2>2 DEF MonitorStep, MonitorStop
  <2> QED
    BY <1>1, <2>1, <2>2
<1> HIDE DEF v
<1>4. /\ v \in Monitors /\ v.counter = u.counter + 1 /\ v.state = u.state
      /\ v.bit_index = u.bit_index /\ v.shifter = u.shifter /\ v.bit_cycles = BitCycles
  BY <1>2, <1>3, MonitorCounter
<1>5. t + 1 = Half + v.bit_index * BitCycles + v.counter + 1
  <2> DEFINE p == u.bit_index * BitCycles
  <2>1. p \in Nat /\ t = Half + p + u.counter + 1
    BY <1>2
  <2>2. v.bit_index * BitCycles = p /\ v.counter = u.counter + 1
    BY <1>4
  <2> DEFINE c == u.counter
  <2>3. p \in Nat /\ c \in Nat /\ Half \in Nat /\ t = Half + p + c + 1 /\ v.counter = c + 1
    BY <1>2, <2>1, <2>2, Numbers
  <2> HIDE DEF p, c
  <2>4. t + 1 = Half + p + (c + 1) + 1
    BY <2>3
  <2> QED
    BY <2>2, <2>3, <2>4
<1>6. Watches(v, byte, t + 1)
  BY <1>1, <1>4, <1>5 DEF Watches
<1> QED
  BY <1>1, <1>4, <1>6 DEF Watched, v

LEMMA WatchTakes ==
  ASSUME NEW u \in Monitors, NEW byte \in Seq(Levels), Len(byte) = ByteBits, NEW t \in Nat,
         Watches(u, byte, t), u.state = "DATA", u.counter + 1 = BitCycles,
         NEW tx \in Levels,
         \A k \in 0 .. ByteBits + 1 : t = Half + k * BitCycles => tx = Level(byte, k)
  PROVE  Watched(u, MonitorStep(u, tx), byte, t) /\ MonitorStep(u, tx).state # "IDLE"
<1> DEFINE v == MonitorStep(u, tx)
           i == u.bit_index
           s == Append(u.shifter, tx)
           st == IF i + 1 = ByteBits THEN "STOP" ELSE "DATA"
<1>1. /\ i \in Nat /\ i < ByteBits /\ u.shifter \in Seq(Levels) /\ Len(u.shifter) = i
      /\ u.bit_cycles = BitCycles /\ u.counter \in Nat
  BY WatchFacts, Numbers
<1>2. t = Half + (i + 1) * BitCycles
  <2>1. /\ t = Half + i * BitCycles + u.counter + 1 /\ i * BitCycles \in Nat
        /\ (i + 1) * BitCycles = i * BitCycles + BitCycles
    BY WatchFacts
  <2> DEFINE p == i * BitCycles
  <2>2. t = Half + p + u.counter + 1 /\ p \in Nat /\ (i + 1) * BitCycles = p + BitCycles
    BY <2>1
  <2> HIDE DEF p
  <2>3. t = Half + (p + BitCycles)
    <3> DEFINE c == u.counter
    <3>1. p \in Nat /\ c \in Nat /\ Half \in Nat /\ t = Half + p + c + 1 /\ c + 1 = BitCycles
      BY <1>1, <2>2, Numbers
    <3> HIDE DEF c
    <3> QED
      BY <3>1
  <2> QED
    BY <2>2, <2>3
<1>3. tx = byte[i + 1]
  <2>1. i + 1 \in 0 .. ByteBits + 1 /\ i + 1 # 0 /\ i + 1 # ByteBits + 1
    BY <1>1, Numbers
  <2>2. tx = Level(byte, i + 1)
    BY <1>2, <2>1
  <2> QED
    BY <2>1, <2>2 DEF Level
<1>4. s \in Seq(Levels) /\ Len(s) = i + 1
      /\ (\A q \in 1 .. i : s[q] = u.shifter[q]) /\ s[i + 1] = tx
  BY <1>1
<1>5. ASSUME NEW q \in 1 .. i + 1 PROVE s[q] = byte[q]
  <2>1. CASE q = i + 1
    BY <1>3, <1>4, <2>1
  <2>2. CASE q # i + 1
    <3>1. q \in 1 .. i
      BY <1>1, <2>2
    <3>2. u.shifter[q] = byte[q]
      BY <3>1 DEF Watches
    <3> QED
      BY <1>4, <3>1, <3>2
  <2> QED
    BY <2>1, <2>2
<1>6. st \in States /\ st # "IDLE" /\ st # "START" /\ (st = "STOP" <=> i + 1 = ByteBits)
  BY DEF States
<1>7. v = [u EXCEPT !.counter = 0, !.shifter = s, !.bit_index = i + 1, !.state = st]
  <2>1. v = MonitorData(u, tx)
    BY DEF MonitorStep
  <2>2. ~(u.counter + 1 < u.bit_cycles)
    BY <1>1, Numbers
  <2> QED
    BY <2>1, <2>2 DEF MonitorData
<1> HIDE DEF v, s, st
<1>8. /\ v \in Monitors /\ v.counter = 0 /\ v.shifter = s /\ v.bit_index = i + 1 /\ v.state = st
      /\ v.bit_cycles = BitCycles
  <2>1. i + 1 \in Nat /\ s \in Seq(Levels) /\ st \in States
    BY <1>1, <1>4, <1>6
  <2> QED
    BY <1>1, <1>7, <2>1 DEF Monitors, States
<1>9. t + 1 = Half + (i + 1) * BitCycles + 0 + 1
  <2>1. (i + 1) * BitCycles \in Nat
    BY <1>1, Numbers
  <2> QED
    BY <1>2, <2>1, Numbers
<1>10. Watches(v, byte, t + 1)
  BY <1>1, <1>4, <1>5, <1>6, <1>8, <1>9, Numbers DEF Watches
<1> QED
  BY <1>6, <1>8, <1>10 DEF Watched, v

LEMMA WatchEnds ==
  ASSUME NEW u \in Monitors, NEW byte \in Seq(Levels), Len(byte) = ByteBits, NEW t \in Nat,
         Watches(u, byte, t), u.state = "STOP", u.counter + 1 = BitCycles, NEW tx
  PROVE  /\ Watched(u, MonitorStep(u, tx), byte, t) /\ MonitorStep(u, tx).state = "IDLE"
         /\ t = MonitoredAt /\ u.shifter = byte
<1> DEFINE v == MonitorStep(u, tx)
<1>1. /\ u.bit_index = ByteBits /\ u.shifter \in Seq(Levels) /\ Len(u.shifter) = ByteBits
      /\ u.bit_cycles = BitCycles /\ u.counter \in Nat
      /\ t = Half + u.bit_index * BitCycles + u.counter + 1
      /\ (u.bit_index + 1) * BitCycles = u.bit_index * BitCycles + BitCycles
      /\ u.bit_index * BitCycles \in Nat
  BY WatchFacts
<1>2. v = [u EXCEPT !.state = "IDLE", !.counter = u.counter + 1] /\ u.counter + 1 \in Nat
  BY <1>1 DEF MonitorStep, MonitorStop
<1> HIDE DEF v
<1>3. v \in Monitors /\ v.state = "IDLE" /\ v.bit_cycles = BitCycles
  BY <1>1, <1>2 DEF Monitors
<1>4. t = MonitoredAt
  <2> DEFINE p == u.bit_index * BitCycles
  <2>1. t = Half + p + u.counter + 1 /\ p \in Nat /\ (ByteBits + 1) * BitCycles = p + BitCycles
    BY <1>1
  <2> HIDE DEF p
  <2>2. t = Half + (p + BitCycles)
    <3> DEFINE c == u.counter
    <3>1. p \in Nat /\ c \in Nat /\ Half \in Nat /\ t = Half + p + c + 1 /\ c + 1 = BitCycles
      BY <1>1, <2>1, Numbers
    <3> HIDE DEF c
    <3> QED
      BY <3>1
  <2> QED
    BY <2>1, <2>2 DEF MonitoredAt
<1>5. \A q \in 1 .. ByteBits : u.shifter[q] = byte[q]
  BY <1>1 DEF Watches
<1>6. u.shifter = byte
  BY <1>1, <1>5, SameSequence
<1> QED
  BY <1>3, <1>4, <1>6 DEF Watched, v

LEMMA SampleOn ==
  ASSUME NEW u \in Monitors, NEW byte \in Seq(Levels), Len(byte) = ByteBits, NEW t \in Nat,
         Watches(u, byte, t), NEW tx \in Levels,
         \A k \in 0 .. ByteBits + 1 : t = Half + k * BitCycles => tx = Level(byte, k)
  PROVE  LET g == sample(u, tx)
         IN /\ g \in Monitors /\ g.bit_cycles = BitCycles
            /\ IF g.state = "IDLE"
                 THEN u.state = "STOP" /\ t = MonitoredAt /\ g.last = 1 /\ tx = 1 /\ u.shifter = byte
                 ELSE Watches(g, byte, t + 1)
<1> DEFINE v == MonitorStep(u, tx)
           g == sample(u, tx)
<1>1. u.state \in {"START", "DATA", "STOP"} /\ u.bit_cycles = BitCycles
  BY DEF Watches, Monitors
<1>2. g = [v EXCEPT !.last = tx]
  BY <1>1, SampleIs
<1>3. u.state # "START" => u.counter \in Nat /\ u.counter < BitCycles
  BY WatchFacts
<1>4. Watched(u, v, byte, t) /\ (v.state = "IDLE" => u.shifter = byte)
  <2>1. CASE u.state = "START"
    <3>1. 0 \in 0 .. ByteBits + 1 /\ Half + 0 * BitCycles = Half
      BY Numbers
    <3>2. t = Half => tx = 0
      BY <3>1 DEF Level
    <3>3. Watched(u, v, byte, t)
      BY <2>1, <3>2, WatchStart
    <3> QED
      BY <2>1, <3>3 DEF Watched
  <2>2. CASE u.state # "START" /\ u.counter + 1 < BitCycles
    BY <2>2, WatchWaits
  <2>3. CASE u.state = "DATA" /\ u.counter + 1 = BitCycles
    BY <2>3, WatchTakes
  <2>4. CASE u.state = "STOP" /\ u.counter + 1 = BitCycles
    BY <2>4, WatchEnds
  <2> QED
    BY <1>1, <1>3, <2>1, <2>2, <2>3, <2>4, Numbers
<1> HIDE DEF v, g
<1>5. /\ g \in Monitors /\ g.last = tx /\ g.state = v.state /\ g.counter = v.counter
      /\ g.bit_index = v.bit_index /\ g.shifter = v.shifter /\ g.bit_cycles = v.bit_cycles
  BY <1>2, <1>4, MonitorLast DEF Watched
<1>6. CASE g.state # "IDLE"
  <2>1. Watches(v, byte, t + 1)
    BY <1>4, <1>5, <1>6 DEF Watched
  <2>2. Watches(g, byte, t + 1)
    BY <1>5, <2>1 DEF Watches
  <2> QED
    BY <1>4, <1>5, <1>6, <2>2 DEF Watched, g
<1>7. CASE g.state = "IDLE"
  <2>1. u.state = "STOP" /\ t = MonitoredAt /\ u.shifter = byte
    BY <1>4, <1>5, <1>7 DEF Watched
  <2>2. ByteBits + 1 \in 0 .. ByteBits + 1 /\ ByteBits + 1 # 0
    BY Numbers
  <2>3. tx = 1
    BY <2>1, <2>2 DEF MonitoredAt, Level
  <2> QED
    BY <1>4, <1>5, <1>7, <2>1, <2>3 DEF Watched, g
<1> QED
  BY <1>6, <1>7

\* The monitor is done before the frame ends.
LEMMA WatchesEarly ==
  ASSUME NEW u \in Monitors, NEW byte \in Seq(Levels), NEW t \in Nat, Watches(u, byte, t)
  PROVE  t <= MonitoredAt
<1>1. CASE u.state = "START"
  <2>1. (ByteBits + 1) * BitCycles \in Nat
    BY Numbers
  <2> QED
    BY <1>1, <2>1, Numbers DEF Watches, MonitoredAt
<1>2. CASE u.state # "START"
  <2> DEFINE i == u.bit_index
             j == ByteBits - i
             c == u.counter
  <2>1. /\ c \in Nat /\ c < BitCycles /\ i \in 0 .. ByteBits
        /\ t = Half + i * BitCycles + c + 1
    BY <1>2, WatchFacts
  <2>2. j \in Nat /\ ByteBits + 1 = i + j + 1
    BY <2>1, Numbers
  <2> HIDE DEF i, j, c
  <2>3. (i + j + 1) * BitCycles = i * BitCycles + j * BitCycles + BitCycles
        /\ i * BitCycles \in Nat /\ j * BitCycles \in Nat
    BY <2>1, <2>2, Numbers
  <2> DEFINE p == i * BitCycles
             q == j * BitCycles
  <2>4. MonitoredAt = Half + (p + q + BitCycles) /\ p \in Nat /\ q \in Nat /\ t = Half + p + c + 1
    BY <2>1, <2>2, <2>3 DEF MonitoredAt
  <2> HIDE DEF p, q
  <2> QED
    BY <2>1, <2>4, Numbers
<1> QED
  BY <1>1, <1>2

-----------------------------------------------------------------------------
(* The bytes that have arrived.                                            *)

LEMMA Arrives ==
  ASSUME LineTypes, NEW n \in Nat, n >= 1, n <= Len(text), Arrived(n - 1),
         text' = text, received' = Append(received, text[n])
  PROVE  Arrived(n)' /\ received' \in Seq(Seq(Levels))
<1>1. text \in Seq(Seq(Levels)) /\ received \in Seq(Seq(Levels)) /\ text[n] \in Seq(Levels)
  BY DEF LineTypes
<1>2. Len(received) = n - 1 /\ \A i \in 1 .. n - 1 : received[i] = text[i]
  BY DEF Arrived
<1>3. /\ received' \in Seq(Seq(Levels)) /\ Len(received') = n /\ received'[n] = text[n]
      /\ \A i \in 1 .. n - 1 : received'[i] = received[i]
  BY <1>1, <1>2
<1>4. \A i \in 1 .. n : received'[i] = text'[i]
  <2> SUFFICES ASSUME NEW i \in 1 .. n PROVE received'[i] = text[i]
    OBVIOUS
  <2>1. CASE i = n
    BY <2>1, <1>3
  <2>2. CASE i # n
    <3>1. i \in 1 .. n - 1
      BY <2>2
    <3> QED BY <3>1, <1>2, <1>3
  <2> QED BY <2>1, <2>2
<1> QED BY <1>3, <1>4 DEF Arrived

LEMMA StaysArrived ==
  ASSUME NEW n \in Nat, Arrived(n), UNCHANGED <<text, received>>
  PROVE  Arrived(n)'
BY DEF Arrived

\* The first of what is left to come is the next byte of the text.
LEMMA RestOf ==
  ASSUME LineTypes, NEW queue \in Seq(Seq(Levels)), queue # <<>>, Rest(queue)
  PROVE  /\ Rest(Tail(queue)) /\ ToCome(Tail(queue)) = ToCome(queue) + 1
         /\ ToCome(queue) \in Nat /\ ToCome(queue) + 1 <= Len(text)
         /\ Head(queue) = text[ToCome(queue) + 1] /\ IsByte(Head(queue))
         /\ Tail(queue) \in Seq(Seq(Levels))
<1>1. Len(queue) \in Nat /\ Len(queue) > 0 /\ Len(text) \in Nat /\ Len(queue) <= Len(text)
  BY DEF Rest, LineTypes
<1>2. /\ Tail(queue) \in Seq(Seq(Levels)) /\ Len(Tail(queue)) = Len(queue) - 1
      /\ Head(queue) = queue[1]
      /\ \A q \in 1 .. Len(queue) - 1 : Tail(queue)[q] = queue[q + 1]
  BY <1>1, TailOf
<1>3. ToCome(Tail(queue)) = ToCome(queue) + 1 /\ ToCome(queue) \in Nat /\ ToCome(queue) + 1 <= Len(text)
  BY <1>1, <1>2 DEF ToCome
<1>4. Head(queue) = text[ToCome(queue) + 1] /\ IsByte(Head(queue))
  BY <1>1, <1>2, <1>3 DEF Rest, LineTypes
<1>5. Rest(Tail(queue))
  <2> SUFFICES ASSUME NEW i \in 1 .. Len(queue) - 1
               PROVE  Tail(queue)[i] = text[ToCome(Tail(queue)) + i]
    BY <1>1, <1>2 DEF Rest
  <2>1. i + 1 \in 1 .. Len(queue) /\ ToCome(queue) + (i + 1) = ToCome(Tail(queue)) + i
    BY <1>1, <1>3
  <2> QED BY <1>2, <2>1 DEF Rest
<1> QED BY <1>2, <1>3, <1>4, <1>5

LEMMA RestStays ==
  ASSUME NEW queue, Rest(queue), text' = text
  PROVE  (Rest(queue) /\ ToCome(queue) = ToCome(queue))'
BY DEF Rest, ToCome

-----------------------------------------------------------------------------
(* The initial state, and the commands of the bench.                       *)

LEMMA SocIs ==
  ASSUME NEW b \in SocBits, NEW q \in Seq(Seq(Levels))
  PROVE  Soc(b, q) \in Socs /\ RxIdle(Soc(b, q)) /\ Soc(b, q).tx_frame = <<>>
         /\ Soc(b, q).tx_queue = q
<1>1. <<>> \in Seq(Levels) /\ 0 \in Nat
  OBVIOUS
<1>2. Soc(b, q) \in Socs
  BY <1>1 DEF Soc, Socs
<1> QED
  BY <1>2 DEF Soc, RxIdle

LEMMA LineStarts == LineInit => LineInv
<1> SUFFICES ASSUME LineInit PROVE LineInv
  OBVIOUS
<1>1. PICK b \in SocBits : uart \in {Soc(b, text), Soc(b, <<>>)}
  BY DEF LineInit
<1>2. text \in Seq(Seq(Levels)) /\ \A i \in 1 .. Len(text) : IsByte(text[i])
  <2>1. text \in Texts
    BY DEF LineInit
  <2>2. text \in Seq(Seq(Levels)) /\ \A i \in DOMAIN text : Len(text[i]) = ByteBits
    BY <2>1, DriftAssumption DEF Levels
  <2>3. \A i \in 1 .. Len(text) : i \in DOMAIN text /\ text[i] \in Seq(Levels)
    BY <2>2
  <2> QED
    BY <2>2, <2>3 DEF IsByte
<1>3. <<>> \in Seq(Seq(Levels)) /\ <<>> \in Seq(Levels)
  OBVIOUS
<1>4. uart \in Socs /\ RxIdle(uart) /\ uart.tx_frame = <<>> /\ uart.tx_queue \in {text, <<>>}
  BY <1>1, <1>2, <1>3, SocIs
<1>5. driver \in Drivers /\ driver.state = "IDLE" /\ driver.queue = <<>> /\ driver.level = 1
      /\ driver.bit_cycles = 0
  BY <1>3 DEF LineInit, Idle, Drivers, Levels
<1>6. monitor \in Monitors /\ monitor.state = "IDLE" /\ monitor.last = 1 /\ monitor.bit_cycles = 0
  BY <1>3 DEF LineInit, Idle, Monitors, Levels
<1>7. wires \in [rx : Levels, tx : Levels] /\ wires.tx = 1
  BY DEF LineInit, Idle, Levels
<1>8. received = <<>> /\ framing_error = FALSE
  BY DEF LineInit, Idle
<1>9. LineTypes
  BY <1>2, <1>3, <1>4, <1>5, <1>6, <1>7, <1>8 DEF LineTypes
<1>10. CASE uart.tx_queue = <<>>
  BY <1>4, <1>5, <1>6, <1>7, <1>8, <1>9, <1>10 DEF LineInv, ToSoc
<1>11. CASE uart.tx_queue # <<>>
  <2>1. uart.tx_queue = text /\ text # <<>> /\ TxByte = 0
    BY <1>2, <1>4, <1>11 DEF TxByte, ToCome
  <2>2. Rest(uart.tx_queue) /\ Arrived(TxByte)
    BY <1>2, <1>8, <2>1 DEF Rest, ToCome, Arrived
  <2>3. TxLevel(uart) = 1
    BY <1>4 DEF TxLevel
  <2>4. FromSoc
    BY <1>4, <1>5, <1>6, <1>7, <2>1, <2>2, <2>3 DEF FromSoc
  <2> QED BY <1>9, <2>4 DEF LineInv
<1> QED BY <1>10, <1>11

LEMMA DivisorSet == LineInv /\ set_divisor => LineInv'
<1> SUFFICES ASSUME LineInv, set_divisor PROVE LineInv'
  OBVIOUS
<1>1. driver \in Drivers /\ monitor \in Monitors /\ driver.bit_cycles = 0
  BY DEF LineInv, LineTypes, set_divisor
<1>2. /\ driver' \in Drivers /\ driver'.state = driver.state /\ driver'.queue = driver.queue
      /\ driver'.level = driver.level /\ driver'.bit_cycles = BitCycles
  <2>1. driver' \in Drivers
    BY <1>1, DriverSet DEF set_divisor, Drivers
  <2> QED BY <1>1, <2>1 DEF set_divisor, Drivers
<1>3. /\ monitor' \in Monitors /\ monitor'.state = monitor.state /\ monitor'.last = monitor.last
      /\ monitor'.bit_cycles = BitCycles
  BY <1>1 DEF set_divisor, Monitors
<1>4. UNCHANGED <<uart, wires, text, received, framing_error>>
  BY DEF set_divisor
<1>5. LineTypes'
  BY <1>2, <1>3, <1>4 DEF LineInv, LineTypes
<1>6. BitCycles # 0
  BY Numbers
<1>7. ASSUME FromSoc PROVE FromSoc'
  <2>1. uart.tx_frame = <<>>
    BY <1>1, <1>6, <1>7 DEF FromSoc
  <2>2. Arrived(TxByte)' /\ Rest(uart.tx_queue)'
    BY <1>4, <1>7, <2>1 DEF FromSoc, Arrived, TxByte, ToCome, Rest
  <2>3. RxIdle(uart)' /\ (wires.tx = TxLevel(uart))'
    BY <1>4, <1>7 DEF FromSoc, RxIdle, TxLevel
  <2> QED BY <1>2, <1>3, <1>4, <1>7, <2>1, <2>2, <2>3 DEF FromSoc
<1>8. ASSUME ToSoc PROVE ToSoc'
  <2>1. driver.state = "IDLE"
    <3> SUFFICES ASSUME driver.state # "IDLE" PROVE FALSE
      OBVIOUS
    <3>1. Drives(driver, text[RxByteNo])
      BY <1>8 DEF ToSoc
    <3>2. driver.bit_cycles = BitCycles
      BY <3>1 DEF Drives
    <3> QED BY <1>1, <1>6, <3>2
  <2>2. (received = <<>> /\ driver.queue = <<>>) \/ (Rest(driver.queue) /\ Arrived(RxByteNo))
    BY <1>8, <2>1 DEF ToSoc
  <2>3. ((received = <<>> /\ driver.queue = <<>>) \/ (Rest(driver.queue) /\ Arrived(RxByteNo)))'
    BY <1>2, <1>4, <2>2 DEF Arrived, RxByteNo, ToCome, Rest
  <2>4. RxIdle(uart)'
    BY <1>4, <1>8, <2>1 DEF ToSoc, RxIdle
  <2> QED BY <1>2, <1>3, <1>4, <1>8, <2>1, <2>3, <2>4 DEF ToSoc
<1> QED BY <1>5, <1>7, <1>8 DEF LineInv

LEMMA BytesQueued == LineInv /\ send_bytes => LineInv'
<1> SUFFICES ASSUME LineInv, send_bytes PROVE LineInv'
  OBVIOUS
<1>1. /\ driver \in Drivers /\ driver.state = "IDLE" /\ uart.tx_queue = <<>>
      /\ uart.tx_frame = <<>> /\ received = <<>> /\ text \in Seq(Seq(Levels))
  BY DEF LineInv, LineTypes, send_bytes
<1>2. /\ driver' \in Drivers /\ driver'.state = "IDLE" /\ driver'.queue = text
      /\ driver'.level = driver.level /\ driver'.bit_cycles = driver.bit_cycles
  <2>1. driver' \in Drivers
    <3>1. driver.bit_cycles \in {0, BitCycles}
      BY <1>1 DEF Drivers
    <3> QED BY <1>1, <3>1, DriverSet DEF send_bytes
  <2> QED BY <1>1, <2>1 DEF send_bytes, Drivers
<1>3. UNCHANGED <<monitor, uart, wires, text, received, framing_error>>
  BY DEF send_bytes
<1>4. LineTypes'
  BY <1>2, <1>3 DEF LineInv, LineTypes
<1>5. ToSoc
  <2> SUFFICES ASSUME FromSoc PROVE FALSE
    BY DEF LineInv
  <2>1. Arrived(TxByte) /\ text # <<>>
    BY <1>1 DEF FromSoc
  <2>2. Len(received) = Len(text)
    BY <1>1, <2>1 DEF Arrived, TxByte, ToCome
  <2> QED BY <1>1, <2>1, <2>2
<1>6. (Rest(driver.queue) /\ Arrived(RxByteNo))'
  BY <1>1, <1>2, <1>3 DEF Rest, Arrived, RxByteNo, ToCome
<1>7. RxIdle(uart)'
  BY <1>1, <1>3, <1>5 DEF ToSoc, RxIdle
<1>8. ToSoc'
  BY <1>1, <1>2, <1>3, <1>5, <1>6, <1>7 DEF ToSoc
<1> QED BY <1>4, <1>8 DEF LineInv

-----------------------------------------------------------------------------
(* A cycle while the SoC has the text.                                     *)

LEMMA CycleFromSoc == LineTypes /\ FromSoc /\ LineCycle => LineInv'
<1> SUFFICES ASSUME LineTypes, FromSoc, LineCycle PROVE LineInv'
  OBVIOUS
<1> DEFINE s1(start) == TxCycle(uart, start)
           sx(start) == RxCycle(s1(start), driver'.level)
<1>1. PICK start \in BOOLEAN :
        /\ start => uart.tx_queue # <<>> /\ uart.tx_frame = <<>> /\ driver.bit_cycles # 0
        /\ uart' = IF RxFull(sx(start)) THEN RxClear(sx(start)) ELSE sx(start)
        /\ wires' = [rx |-> driver'.level, tx |-> TxLevel(sx(start))]
        /\ received' = IF AtStop /\ wires.tx = 1 THEN Append(received, monitor.shifter)
                       ELSE IF RxFull(sx(start)) THEN Append(received, RxByte(sx(start)))
                       ELSE received
        /\ framing_error' = (framing_error \/ (AtStop /\ wires.tx = 0)
                               \/ (RxFull(sx(start)) /\ Last(sx(start).rx_bits) = 0))
  BY DEF LineCycle
<1> DEFINE g == s1(start)
<1>2. /\ text \in Seq(Seq(Levels)) /\ \A i \in 1 .. Len(text) : IsByte(text[i])
      /\ driver \in Drivers /\ monitor \in Monitors /\ uart \in Socs
      /\ received \in Seq(Seq(Levels)) /\ framing_error = FALSE
      /\ monitor.bit_cycles = driver.bit_cycles /\ wires.tx \in Levels
  BY DEF LineTypes
<1>3. /\ text # <<>> /\ driver.state = "IDLE" /\ driver.queue = <<>> /\ RxIdle(uart)
      /\ Rest(uart.tx_queue) /\ wires.tx = TxLevel(uart)
  BY DEF FromSoc
<1>4. /\ driver' \in Drivers /\ driver'.state = "IDLE" /\ driver'.queue = <<>>
      /\ driver'.level = 1 /\ driver'.bit_cycles = driver.bit_cycles
  BY <1>2, <1>3, DriveRests DEF LineCycle
<1>5. monitor' = sample(monitor, wires.tx) /\ text' = text
  BY DEF LineCycle
\* What is left of the cycle once the transmitter and the monitor have had theirs.
<1>6. ASSUME g \in Socs, SameRx(g, uart), ~AtStop \/ wires.tx = 1
      PROVE  /\ RxIdle(uart)' /\ uart' = g /\ wires' = [rx |-> 1, tx |-> TxLevel(g)]
             /\ received' = IF AtStop THEN Append(received, monitor.shifter) ELSE received
             /\ framing_error' = FALSE
  <2>1. RxIdle(g)
    BY <1>3, <1>6 DEF RxIdle, SameRx
  <2>2. sx(start) = g /\ ~RxFull(g)
    BY <1>4, <1>6, <2>1, RxRests
  <2>3. uart' = g
    BY <1>1, <2>2
  <2>5. framing_error' = FALSE
    <3> HIDE DEF sx, s1
    <3>1. ~(AtStop /\ wires.tx = 0) /\ ~(RxFull(sx(start)) /\ Last(sx(start).rx_bits) = 0)
      BY <1>6, <2>2
    <3>2. framing_error' = (FALSE \/ FALSE \/ FALSE)
      BY <1>1, <1>2, <3>1, Zenon
    <3> QED BY <3>2
  <2>6. /\ wires' = [rx |-> 1, tx |-> TxLevel(g)]
        /\ received' = IF AtStop THEN Append(received, monitor.shifter) ELSE received
    <3> HIDE DEF g
    <3> QED BY <1>1, <1>4, <1>6, <2>2
  <2> HIDE DEF g
  <2>4. RxIdle(uart')
    BY <2>1, <2>3
  <2> QED BY <2>3, <2>4, <2>5, <2>6
\* And of the invariant.
<1>7. ASSUME uart' \in Socs, monitor' \in Monitors, monitor'.bit_cycles = driver.bit_cycles,
             received' \in Seq(Seq(Levels)), RxIdle(uart'), TxLevel(uart') \in Levels,
             wires' = [rx |-> 1, tx |-> TxLevel(uart')], framing_error' = FALSE,
             Rest(uart.tx_queue)',
             IF uart'.tx_frame = <<>>
               THEN monitor'.state = "IDLE" /\ monitor'.last = 1 /\ Arrived(TxByte)'
               ELSE /\ driver.bit_cycles = BitCycles /\ TxByte' >= 1 /\ Sends(uart', text'[TxByte'])
                    /\ IF monitor'.state = "IDLE"
                         THEN /\ monitor'.last = 1
                              /\ IF TxTime(uart') = 0 THEN Arrived(TxByte - 1)'
                                 ELSE TxTime(uart') > MonitoredAt /\ Arrived(TxByte)'
                         ELSE Watches(monitor', text'[TxByte'], TxTime(uart')) /\ Arrived(TxByte - 1)'
      PROVE  LineInv'
  <2>1. LineTypes'
    BY <1>2, <1>4, <1>5, <1>7 DEF LineTypes, Levels
  <2>2. wires'.tx = TxLevel(uart')
    BY <1>7
  <2>3. FromSoc'
    BY <1>3, <1>4, <1>5, <1>7, <2>2 DEF FromSoc
  <2> QED BY <2>1, <2>3 DEF LineInv
\* Nothing is sent.
<1>8. CASE uart.tx_frame = <<>> /\ ~start
  <2>1. /\ monitor.state = "IDLE" /\ monitor.last = 1 /\ Arrived(TxByte)
    BY <1>8 DEF FromSoc
  <2>2. start = FALSE
    BY <1>8
  <2>3. g = uart /\ TxLevel(uart) = 1
    BY <1>2, <1>8, <2>2, TxRests
  <2>4. /\ monitor' \in Monitors /\ monitor'.state = "IDLE" /\ monitor'.last = 1
        /\ monitor'.bit_cycles = driver.bit_cycles
    BY <1>2, <1>3, <1>5, <2>1, <2>3, SampleIdle
  <2>5. ~AtStop
    BY <2>1 DEF AtStop
  <2>6. SameRx(g, uart) /\ g \in Socs
    BY <1>2, <2>3 DEF SameRx
  <2>7. /\ RxIdle(uart)' /\ uart' = uart /\ wires' = [rx |-> 1, tx |-> 1]
        /\ received' = received /\ framing_error' = FALSE
    BY <1>6, <2>3, <2>5, <2>6
  <2>8. Rest(uart.tx_queue)' /\ Arrived(TxByte)'
    BY <1>3, <1>5, <2>1, <2>7 DEF Rest, ToCome, TxByte, Arrived
  <2>9. TxLevel(uart') \in Levels /\ wires' = [rx |-> 1, tx |-> TxLevel(uart')]
    BY <2>3, <2>7 DEF Levels
  <2> HIDE DEF g
  <2> QED BY <1>2, <1>7, <1>8, <2>4, <2>7, <2>8, <2>9
\* A byte is taken from the queue.
<1>9. CASE uart.tx_frame = <<>> /\ start
  <2>1. /\ monitor.state = "IDLE" /\ monitor.last = 1 /\ Arrived(TxByte)
    BY <1>9 DEF FromSoc
  <2>2. start = TRUE
    BY <1>9
  <2>3. /\ uart.tx_queue # <<>> /\ uart.tx_queue \in Seq(Seq(Levels))
        /\ driver.bit_cycles = BitCycles
    BY <1>1, <1>2, <1>9 DEF Socs, Drivers
  <2>4. PICK n \in Nat : n = TxByte
    BY <1>2, <1>3, <2>3, RestOf DEF TxByte
  <2>5. /\ Rest(Tail(uart.tx_queue)) /\ ToCome(Tail(uart.tx_queue)) = n + 1 /\ n + 1 <= Len(text)
        /\ Head(uart.tx_queue) = text[n + 1] /\ IsByte(Head(uart.tx_queue))
    BY <1>3, <2>3, <2>4, RestOf DEF TxByte
  <2>6. /\ g \in Socs /\ SameRx(g, uart) /\ g.tx_frame # <<>> /\ g.tx_queue = Tail(uart.tx_queue)
        /\ Sends(g, text[n + 1]) /\ TxTime(g) = 0 /\ TxLevel(g) = 0
    BY <1>2, <1>9, <2>2, <2>3, <2>5, TxStarts
  <2>7. ~AtStop
    BY <2>1 DEF AtStop
  <2>8. /\ RxIdle(uart)' /\ uart' = g /\ wires' = [rx |-> 1, tx |-> 0]
        /\ received' = received /\ framing_error' = FALSE
    BY <1>6, <2>6, <2>7
  <2>9. TxLevel(uart) = 1
    BY <1>9 DEF TxLevel
  <2>10. /\ monitor' \in Monitors /\ monitor'.state = "IDLE" /\ monitor'.last = 1
         /\ monitor'.bit_cycles = driver.bit_cycles
    BY <1>2, <1>3, <1>5, <2>1, <2>9, SampleIdle
  <2> HIDE DEF g
  <2>11. Rest(uart.tx_queue)' /\ TxByte' = n + 1
    BY <1>5, <2>5, <2>6, <2>8 DEF Rest, ToCome, TxByte
  <2>12. Arrived(TxByte - 1)'
    BY <1>5, <2>1, <2>4, <2>8, <2>11 DEF Arrived
  <2>13. TxLevel(uart') \in Levels /\ wires' = [rx |-> 1, tx |-> TxLevel(uart')]
    BY <2>6, <2>8 DEF Levels
  <2>14. uart'.tx_frame # <<>> /\ TxByte' >= 1 /\ Sends(uart', text'[TxByte']) /\ TxTime(uart') = 0
    BY <1>5, <2>4, <2>6, <2>8, <2>11
  <2> QED BY <1>2, <1>7, <2>3, <2>6, <2>8, <2>10, <2>11, <2>12, <2>13, <2>14
\* A frame is on the line.
<1>10. CASE uart.tx_frame # <<>>
  <2>1. driver.bit_cycles = BitCycles /\ TxByte >= 1 /\ Sends(uart, text[TxByte])
    BY <1>10 DEF FromSoc
  <2>2. TxByte \in Nat /\ TxByte <= Len(text)
    <3>1. Len(uart.tx_queue) \in Nat /\ Len(text) \in Nat /\ Len(uart.tx_queue) <= Len(text)
      BY <1>2, <1>3 DEF Socs, Rest
    <3> QED BY <3>1 DEF TxByte, ToCome
  <2>3. PICK n \in Nat : n = TxByte
    BY <2>2
  <2> DEFINE byte == text[n]
             t == TxTime(uart)
             tx == wires.tx
  <2>4. n \in 1 .. Len(text) /\ byte \in Seq(Levels) /\ Len(byte) = ByteBits /\ Sends(uart, byte)
    BY <1>2, <2>1, <2>2, <2>3 DEF IsByte
  <2>5. PICK b \in SocBits : b = uart.bit
    BY <1>2 DEF Socs
  <2>6. /\ t \in Nat /\ t < (ByteBits + 2) * b
        /\ \A k \in Nat : k * b <= t /\ t < (k + 1) * b => tx = Level(byte, k)
    BY <1>2, <1>3, <2>4, <2>5, SendsLevel, SendsWithin
  <2>7. /\ g \in Socs /\ SameRx(g, uart) /\ g.tx_queue = uart.tx_queue
        /\ IF g.tx_frame = <<>> THEN t + 1 = (ByteBits + 2) * b
           ELSE Sends(g, byte) /\ TxTime(g) = t + 1
    BY <1>2, <2>4, <2>5, TxOn
  <2>8. /\ b \in Nat /\ b >= 2 /\ (ByteBits + 1) * b \in Nat /\ (ByteBits + 2) * b \in Nat
        /\ (ByteBits + 1) * b <= MonitoredAt /\ MonitoredAt < (ByteBits + 2) * b
        /\ MonitoredAt \in Nat /\ MonitoredAt = Half + (ByteBits + 1) * BitCycles
        /\ (ByteBits + 2) * b >= 4
    BY <2>5, Drift, Numbers DEF MonitoredAt
  <2>9. TxLevel(g) \in Levels
    <3> HIDE DEF g
    <3> QED BY <2>7 DEF TxLevel, Socs, Sends, Levels
  <2> HIDE DEF g, t, byte
  \* What is left once the monitor has had its cycle.
  <2>10. ASSUME monitor' \in Monitors, monitor'.bit_cycles = BitCycles, ~AtStop \/ tx = 1,
                received' \in Seq(Seq(Levels)),
                IF g.tx_frame = <<>> THEN monitor'.state = "IDLE" /\ monitor'.last = 1 /\ Arrived(n)'
                ELSE IF monitor'.state = "IDLE" THEN monitor'.last = 1 /\ t + 1 > MonitoredAt /\ Arrived(n)'
                ELSE Watches(monitor', byte, t + 1) /\ Arrived(n - 1)'
         PROVE  LineInv'
    <3>1. RxIdle(uart)' /\ uart' = g /\ wires' = [rx |-> 1, tx |-> TxLevel(g)] /\ framing_error' = FALSE
      BY <1>6, <2>7, <2>10
    <3>2. Rest(uart.tx_queue)' /\ TxByte' = n
      BY <1>3, <1>5, <2>3, <2>7, <3>1 DEF Rest, ToCome, TxByte
    <3>3. (Arrived(n)' => Arrived(TxByte)') /\ (Arrived(n - 1)' => Arrived(TxByte - 1)')
      BY <3>2
    <3>4. text'[TxByte'] = byte
      BY <1>5, <3>2 DEF byte
    <3>5. t + 1 # 0
      BY <2>6
    <3> QED BY <1>7, <2>1, <2>3, <2>7, <2>9, <2>10, <3>1, <3>2, <3>3, <3>4, <3>5
  \* The start bit is seen.
  <2>11. CASE monitor.state = "IDLE" /\ t = 0
    <3>1. monitor.last = 1 /\ Arrived(n - 1)
      BY <1>10, <2>3, <2>11 DEF FromSoc, t
    <3>2. tx = 0
      <4>1. 0 * b <= t /\ t < (0 + 1) * b /\ 0 \in Nat
        BY <2>8, <2>11
      <4>2. tx = Level(byte, 0)
        BY <2>6, <4>1
      <4> QED BY <4>2 DEF Level
    <3>3. /\ monitor' \in Monitors /\ monitor'.state # "IDLE" /\ monitor'.bit_cycles = BitCycles
          /\ Watches(monitor', byte, 1)
      BY <1>2, <1>5, <2>1, <2>11, <3>1, <3>2, SampleStarts
    <3>4. ~AtStop
      BY <2>11 DEF AtStop
    <3>5. received' = received
      BY <1>6, <2>7, <3>4
    <3>6. g.tx_frame # <<>>
      BY <2>7, <2>8, <2>11
    <3>7. Arrived(n - 1)'
      BY <1>5, <3>1, <3>5 DEF Arrived
    <3>8. t + 1 = 1
      BY <2>11
    <3> QED BY <1>2, <2>10, <3>3, <3>4, <3>5, <3>6, <3>7, <3>8
  \* The byte has been taken; its stop bit goes on.
  <2>12. CASE monitor.state = "IDLE" /\ t # 0
    <3>1. monitor.last = 1 /\ Arrived(n) /\ t > MonitoredAt
      BY <1>10, <2>3, <2>12 DEF FromSoc, t
    <3>2. tx = 1
      <4> DEFINE k == ByteBits + 1
      <4>1. k \in Nat /\ k # 0 /\ k * b <= t /\ t < (k + 1) * b
        BY <2>6, <2>8, <3>1, Numbers
      <4>2. tx = Level(byte, k)
        BY <2>6, <4>1
      <4> QED BY <4>1, <4>2 DEF Level
    <3>3. /\ monitor' \in Monitors /\ monitor'.state = "IDLE" /\ monitor'.bit_cycles = BitCycles
          /\ monitor'.last = 1
      BY <1>2, <1>5, <2>1, <2>12, <3>1, <3>2, SampleIdle
    <3>4. ~AtStop
      BY <2>12 DEF AtStop
    <3>5. received' = received
      BY <1>6, <2>7, <3>4
    <3>6. Arrived(n)'
      BY <1>5, <3>1, <3>5 DEF Arrived
    <3>7. t + 1 > MonitoredAt
      BY <2>6, <2>8, <3>1
    <3> QED BY <1>2, <2>10, <3>3, <3>4, <3>5, <3>6, <3>7
  \* The monitor is in the frame: it looks at each bit within the bit.
  <2>13. CASE monitor.state # "IDLE"
    <3>1. Watches(monitor, byte, t) /\ Arrived(n - 1)
      BY <1>10, <2>3, <2>13 DEF FromSoc, t, byte
    <3>2. \A k \in 0 .. ByteBits + 1 : t = Half + k * BitCycles => tx = Level(byte, k)
      <4> SUFFICES ASSUME NEW k \in 0 .. ByteBits + 1, t = Half + k * BitCycles
                   PROVE  tx = Level(byte, k)
        OBVIOUS
      <4>1. k \in Nat /\ k * b <= t /\ t < (k + 1) * b
        BY MonitoredInBit, Numbers
      <4> QED BY <2>6, <4>1
    <3>3. /\ monitor' \in Monitors /\ monitor'.bit_cycles = BitCycles
          /\ IF monitor'.state = "IDLE"
               THEN monitor.state = "STOP" /\ t = MonitoredAt /\ monitor'.last = 1 /\ tx = 1
                    /\ monitor.shifter = byte
               ELSE Watches(monitor', byte, t + 1)
      BY <1>2, <1>5, <2>4, <2>6, <3>1, <3>2, SampleOn
    <3>4. CASE monitor'.state = "IDLE"
      <4>1. AtStop
        BY <1>5, <3>3, <3>4 DEF AtStop
      <4>2. received' = Append(received, byte)
        BY <1>6, <2>7, <3>3, <3>4, <4>1
      <4>3. Arrived(n)' /\ received' \in Seq(Seq(Levels))
        BY <1>5, <2>4, <3>1, <4>2, Arrives DEF byte
      <4>4. t + 1 > MonitoredAt
        BY <2>8, <3>3, <3>4
      <4> QED BY <2>10, <3>3, <3>4, <4>3, <4>4
    <3>5. CASE monitor'.state # "IDLE"
      <4>1. ~AtStop
        BY <1>5, <3>5 DEF AtStop
      <4>2. received' = received
        BY <1>6, <2>7, <4>1
      <4>3. Arrived(n - 1)'
        BY <1>5, <3>1, <4>2 DEF Arrived
      <4>4. t + 1 <= MonitoredAt
        BY <2>4, <2>6, <3>3, <3>5, WatchesEarly
      <4>5. g.tx_frame # <<>>
        BY <2>7, <2>8, <4>4
      <4> QED BY <1>2, <2>10, <3>3, <3>5, <4>1, <4>2, <4>3, <4>5
    <3> QED BY <3>4, <3>5
  <2> QED BY <2>11, <2>12, <2>13
<1> QED BY <1>8, <1>9, <1>10

-----------------------------------------------------------------------------
(* A cycle while the driver has it, or had.                                *)

LEMMA RxCleared ==
  ASSUME NEW s \in Socs
  PROVE  RxClear(s) \in Socs /\ RxIdle(RxClear(s)) /\ SameTx(RxClear(s), s)
<1> DEFINE g == RxClear(s)
           f == <<>>
<1>1. f \in Seq(Levels) /\ g = [s EXCEPT !.rx_time = 0, !.rx_bits = f]
  BY DEF RxClear
<1> HIDE DEF f, g
<1>2. /\ g \in Socs /\ g.rx_time = 0 /\ g.rx_bits = f /\ g.bit = s.bit
      /\ g.tx_queue = s.tx_queue /\ g.tx_frame = s.tx_frame /\ g.tx_time = s.tx_time
  BY <1>1 DEF Socs
<1>3. RxIdle(g) /\ SameTx(g, s)
  BY <1>2 DEF RxIdle, SameTx, f
<1> QED BY <1>2, <1>3 DEF g

LEMMA CycleToSoc == LineTypes /\ ToSoc /\ LineCycle => LineInv'
<1> SUFFICES ASSUME LineTypes, ToSoc, LineCycle PROVE LineInv'
  OBVIOUS
<1> DEFINE s == RxCycle(uart, driver'.level)
<1>1. /\ text \in Seq(Seq(Levels)) /\ \A i \in 1 .. Len(text) : IsByte(text[i])
      /\ driver \in Drivers /\ monitor \in Monitors /\ uart \in Socs
      /\ received \in Seq(Seq(Levels)) /\ framing_error = FALSE
      /\ monitor.bit_cycles = driver.bit_cycles
  BY DEF LineTypes
<1>2. /\ uart.tx_queue = <<>> /\ uart.tx_frame = <<>> /\ wires.tx = 1
      /\ monitor.state = "IDLE" /\ monitor.last = 1
  BY DEF ToSoc
<1>3. /\ driver' = drive_rx(driver) /\ text' = text
      /\ monitor' \in Monitors /\ monitor'.state = "IDLE" /\ monitor'.last = 1
      /\ monitor'.bit_cycles = driver.bit_cycles /\ ~AtStop
  BY <1>1, <1>2, SampleIdle DEF LineCycle, AtStop
<1>4. /\ uart' = IF RxFull(s) THEN RxClear(s) ELSE s
      /\ wires' = [rx |-> driver'.level, tx |-> TxLevel(s)]
      /\ received' = IF RxFull(s) THEN Append(received, RxByte(s)) ELSE received
      /\ framing_error' = (RxFull(s) /\ Last(s.rx_bits) = 0)
  <2>1. PICK start \in BOOLEAN :
          /\ start => uart.tx_queue # <<>> /\ uart.tx_frame = <<>> /\ driver.bit_cycles # 0
          /\ LET sx == RxCycle(TxCycle(uart, start), driver'.level)
             IN /\ uart' = IF RxFull(sx) THEN RxClear(sx) ELSE sx
                /\ wires' = [rx |-> driver'.level, tx |-> TxLevel(sx)]
                /\ received' = IF AtStop /\ wires.tx = 1 THEN Append(received, monitor.shifter)
                               ELSE IF RxFull(sx) THEN Append(received, RxByte(sx)) ELSE received
                /\ framing_error' = (framing_error \/ (AtStop /\ wires.tx = 0)
                                       \/ (RxFull(sx) /\ Last(sx.rx_bits) = 0))
    BY DEF LineCycle
  <2>2. TxCycle(uart, start) = uart
    BY <1>1, <1>2, <2>1, TxRests
  <2> HIDE DEF s
  <2>3. /\ uart' = IF RxFull(s) THEN RxClear(s) ELSE s
        /\ wires' = [rx |-> driver'.level, tx |-> TxLevel(s)]
        /\ received' = IF AtStop /\ wires.tx = 1 THEN Append(received, monitor.shifter)
                       ELSE IF RxFull(s) THEN Append(received, RxByte(s)) ELSE received
        /\ framing_error' = (framing_error \/ (AtStop /\ wires.tx = 0)
                               \/ (RxFull(s) /\ Last(s.rx_bits) = 0))
    BY <2>1, <2>2 DEF s
  <2>4. framing_error' = (FALSE \/ (FALSE /\ wires.tx = 0) \/ (RxFull(s) /\ Last(s.rx_bits) = 0))
    BY <1>1, <1>3, <2>3, Zenon
  <2> QED BY <1>3, <2>3, <2>4
\* What is left of the cycle once the driver and the receiver have had theirs.
<1>5. ASSUME driver' \in Drivers, driver'.bit_cycles = driver.bit_cycles,
             s \in Socs, SameTx(s, uart), RxFull(s) => Last(s.rx_bits) = 1,
             received' \in Seq(Seq(Levels)),
             IF driver'.state = "IDLE"
               THEN /\ RxIdle(uart') /\ driver'.level = 1
                    /\ \/ driver'.queue = <<>> /\ received' = <<>>
                       \/ Rest(driver.queue)' /\ Arrived(RxByteNo)'
               ELSE /\ Rest(driver.queue)' /\ RxByteNo' >= 1 /\ Drives(driver', text[RxByteNo'])
                    /\ IF RxIdle(uart')
                         THEN LineTime(driver') >= TakenAt(uart'.bit) /\ Arrived(RxByteNo)'
                         ELSE Takes(uart', text[RxByteNo'], LineTime(driver')) /\ Arrived(RxByteNo - 1)'
      PROVE  LineInv'
  <2> HIDE DEF s
  <2>1. uart' \in Socs /\ SameTx(uart', uart)
    <3>1. RxClear(s) \in Socs /\ SameTx(RxClear(s), s)
      BY <1>5, RxCleared
    <3> QED BY <1>4, <1>5, <3>1 DEF SameTx
  <2>2. uart'.tx_queue = <<>> /\ uart'.tx_frame = <<>> /\ s.tx_frame = <<>>
    BY <1>2, <1>5, <2>1 DEF SameTx
  <2>3. wires' = [rx |-> driver'.level, tx |-> 1] /\ driver'.level \in Levels /\ 1 \in Levels
    BY <1>4, <1>5, <2>2 DEF TxLevel, Drivers, Levels
  <2>4. framing_error' = FALSE
    <3>1. ~(RxFull(s) /\ Last(s.rx_bits) = 0)
      BY <1>5
    <3>2. framing_error' = (RxFull(s) /\ Last(s.rx_bits) = 0)
      BY <1>4
    <3> QED BY <3>1, <3>2, Zenon
  <2>5. LineTypes'
    BY <1>1, <1>3, <1>5, <2>1, <2>3, <2>4 DEF LineTypes
  <2>6. ToSoc'
    BY <1>3, <1>5, <2>2, <2>3 DEF ToSoc
  <2> QED BY <2>5, <2>6 DEF LineInv
\* Nothing is driven.
<1>6. CASE driver.state = "IDLE" /\ (driver.queue = <<>> \/ driver.bit_cycles = 0)
  <2>1. /\ driver' \in Drivers /\ driver'.state = "IDLE" /\ driver'.level = 1
        /\ driver'.queue = driver.queue /\ driver'.bit_cycles = driver.bit_cycles
    BY <1>1, <1>3, <1>6, DriveRests
  <2>2. RxIdle(uart)
    BY <1>6 DEF ToSoc
  <2>3. s = uart /\ ~RxFull(s)
    BY <1>1, <2>1, <2>2, RxRests
  <2>4. uart' = uart /\ received' = received /\ SameTx(s, uart)
    BY <1>4, <2>3 DEF SameTx
  <2>5. \/ driver'.queue = <<>> /\ received' = <<>>
        \/ Rest(driver.queue)' /\ Arrived(RxByteNo)'
    <3>1. CASE driver.queue = <<>> /\ received = <<>>
      BY <2>1, <2>4, <3>1
    <3>2. CASE Rest(driver.queue) /\ Arrived(RxByteNo)
      BY <1>3, <2>1, <2>4, <3>2 DEF Rest, Arrived, RxByteNo, ToCome
    <3> QED BY <1>6, <3>1, <3>2 DEF ToSoc
  <2> HIDE DEF s
  <2> QED BY <1>1, <1>5, <2>1, <2>2, <2>3, <2>4, <2>5
\* A byte is taken from the queue.
<1>7. CASE driver.state = "IDLE" /\ driver.queue # <<>> /\ driver.bit_cycles # 0
  <2>1. /\ Rest(driver.queue) /\ Arrived(RxByteNo) /\ RxIdle(uart)
        /\ driver.queue \in Seq(Seq(Levels)) /\ driver.bit_cycles = BitCycles
    BY <1>1, <1>7 DEF ToSoc, Drivers
  <2>2. PICK n \in Nat : n = RxByteNo
    BY <1>7, <2>1, RestOf DEF RxByteNo
  <2>3. /\ Rest(Tail(driver.queue)) /\ ToCome(Tail(driver.queue)) = n + 1 /\ n + 1 <= Len(text)
        /\ Head(driver.queue) = text[n + 1] /\ IsByte(Head(driver.queue))
    BY <1>7, <2>1, <2>2, RestOf DEF RxByteNo
  <2>4. /\ driver' \in Drivers /\ Drives(driver', text[n + 1]) /\ LineTime(driver') = 0
        /\ driver'.level = 0 /\ driver'.queue = Tail(driver.queue)
    BY <1>1, <1>3, <1>7, <2>1, <2>3, DriveStarts
  <2>5. driver'.bit_cycles = BitCycles /\ driver'.state # "IDLE"
    BY <2>4 DEF Drives
  <2>6. /\ s \in Socs /\ SameTx(s, uart) /\ ~RxIdle(s) /\ ~RxFull(s)
        /\ Takes(s, text[n + 1], 0)
    BY <1>1, <2>1, <2>4, RxStarts
  <2> HIDE DEF s
  <2>7. uart' = s /\ received' = received
    BY <1>4, <2>6
  <2>8. Rest(driver.queue)' /\ RxByteNo' = n + 1
    BY <1>3, <2>3, <2>4 DEF Rest, ToCome, RxByteNo
  <2>9. Arrived(RxByteNo - 1)'
    BY <1>3, <2>1, <2>2, <2>7, <2>8 DEF Arrived
  <2>10. RxByteNo' >= 1 /\ Drives(driver', text[RxByteNo']) /\ ~RxIdle(uart')
         /\ Takes(uart', text[RxByteNo'], LineTime(driver'))
    BY <2>2, <2>4, <2>6, <2>7, <2>8
  <2> QED BY <1>1, <1>5, <2>1, <2>4, <2>5, <2>6, <2>7, <2>8, <2>9, <2>10
\* The driver is in a frame.
<1>8. CASE driver.state # "IDLE"
  <2>1. Rest(driver.queue) /\ RxByteNo >= 1 /\ Drives(driver, text[RxByteNo])
    BY <1>8 DEF ToSoc
  <2>2. RxByteNo \in Nat /\ RxByteNo <= Len(text)
    <3>1. Len(driver.queue) \in Nat /\ Len(text) \in Nat /\ Len(driver.queue) <= Len(text)
      BY <1>1, <2>1 DEF Drivers, Rest
    <3> QED BY <3>1 DEF RxByteNo, ToCome
  <2>3. PICK n \in Nat : n = RxByteNo
    BY <2>2
  <2> DEFINE byte == text[n]
             t == LineTime(driver)
             b == uart.bit
  <2>4. n \in 1 .. Len(text) /\ byte \in Seq(Levels) /\ Len(byte) = ByteBits /\ Drives(driver, byte)
    BY <1>1, <2>1, <2>2, <2>3 DEF IsByte
  <2>5. /\ t \in Nat /\ t < (ByteBits + 2) * BitCycles
        /\ driver.bit_cycles = BitCycles
    BY <1>1, <2>4, DrivesWithin DEF Drives
  <2>6. /\ b \in SocBits /\ TakenAt(b) \in Nat
        /\ (ByteBits + 1) * BitCycles <= TakenAt(b) /\ TakenAt(b) < (ByteBits + 2) * BitCycles
        /\ (ByteBits + 1) * BitCycles \in Nat /\ (ByteBits + 2) * BitCycles \in Nat
    <3>1. b \in SocBits
      BY <1>1 DEF Socs
    <3> HIDE DEF b
    <3> QED BY <3>1, Drift, Numbers DEF TakenAt
  <2> HIDE DEF t, byte
  \* What has arrived by now.
  <2>7. IF RxIdle(uart) THEN t >= TakenAt(b) /\ Arrived(n)
        ELSE Takes(uart, byte, t) /\ Arrived(n - 1)
    BY <1>8, <2>3 DEF ToSoc, t, byte
  <2>8. ASSUME driver'.queue = driver.queue
        PROVE  Rest(driver.queue)' /\ RxByteNo' = n
    BY <1>3, <2>1, <2>3, <2>8 DEF Rest, ToCome, RxByteNo
  \* The stop bit ends: the receiver has looked for it.
  <2>9. CASE driver.counter + 1 = BitCycles /\ driver.state = "STOP"
    <3>1. /\ driver' \in Drivers /\ driver'.state = "IDLE" /\ driver'.level = 1
          /\ driver'.queue = driver.queue /\ driver'.bit_cycles = BitCycles
          /\ t + 1 = (ByteBits + 2) * BitCycles
      BY <1>1, <1>3, <2>4, <2>9, DriveEnds DEF t
    <3>2. RxIdle(uart) /\ Arrived(n)
      <4> SUFFICES ASSUME ~RxIdle(uart) PROVE FALSE
        BY <2>7
      <4>1. t + 1 <= TakenAt(b)
        BY <1>1, <2>5, <2>7, TakesEarly
      <4> QED BY <2>5, <2>6, <3>1, <4>1
    <3>3. s = uart /\ ~RxFull(s)
      BY <1>1, <3>1, <3>2, RxRests
    <3>4. uart' = uart /\ received' = received /\ SameTx(s, uart)
      BY <1>4, <3>3 DEF SameTx
    <3>5. Rest(driver.queue)' /\ Arrived(RxByteNo)'
      BY <1>3, <2>8, <3>1, <3>2, <3>4 DEF Arrived
    <3> HIDE DEF s
    <3> QED BY <1>1, <1>5, <2>5, <3>1, <3>2, <3>3, <3>4, <3>5
  \* The frame goes on.
  <2>10. CASE ~(driver.counter + 1 = BitCycles /\ driver.state = "STOP")
    <3>1. /\ driver' \in Drivers /\ Drives(driver', byte) /\ LineTime(driver') = t + 1
          /\ driver'.queue = driver.queue
      <4>1. driver.counter \in Nat /\ driver.counter < BitCycles
        BY <1>1, <2>4 DEF Drivers, Drives
      <4>2. CASE driver.counter + 1 < BitCycles
        BY <1>1, <1>3, <2>4, <4>2, DriveCounts DEF t
      <4>3. CASE driver.counter + 1 = BitCycles
        BY <1>1, <1>3, <2>4, <2>10, <4>3, DriveNextBit DEF t
      <4> QED BY <4>1, <4>2, <4>3, Numbers
    <3>2. /\ driver'.bit_cycles = BitCycles /\ driver'.state # "IDLE" /\ driver'.level \in Levels
          /\ t + 1 < (ByteBits + 2) * BitCycles
      BY <2>4, <3>1, DrivesWithin DEF Drives, Drivers
    <3>3. \A k \in 0 .. ByteBits + 1 :
            k * BitCycles <= t + 1 /\ t + 1 < (k + 1) * BitCycles => driver'.level = Level(byte, k)
      BY <2>4, <3>1, DrivesLevel
    <3>4. Rest(driver.queue)' /\ RxByteNo' = n /\ text[RxByteNo'] = byte
      BY <2>8, <3>1 DEF byte
    <3>5. CASE RxIdle(uart)
      <4>1. driver'.level = 1
        <5> DEFINE k == ByteBits + 1
        <5>1. k \in 0 .. ByteBits + 1 /\ k # 0 /\ k * BitCycles <= t + 1 /\ t + 1 < (k + 1) * BitCycles
          BY <2>5, <2>6, <2>7, <3>2, <3>5, Numbers
        <5>2. driver'.level = Level(byte, k)
          BY <3>3, <5>1
        <5> QED BY <5>1, <5>2 DEF Level
      <4>2. s = uart /\ ~RxFull(s)
        BY <1>1, <3>5, <4>1, RxRests
      <4>3. uart' = uart /\ received' = received /\ SameTx(s, uart)
        BY <1>4, <4>2 DEF SameTx
      <4>4. Arrived(RxByteNo)'
        BY <1>3, <2>7, <3>4, <3>5, <4>3 DEF Arrived
      <4>5. LineTime(driver') >= TakenAt(uart'.bit)
        BY <2>5, <2>6, <2>7, <3>1, <3>5, <4>3
      <4> HIDE DEF s
      <4> QED BY <1>1, <1>5, <2>3, <2>1, <2>5, <3>1, <3>2, <3>4, <3>5, <4>2, <4>3, <4>4, <4>5
    <3>6. CASE ~RxIdle(uart)
      <4>1. /\ s \in Socs /\ SameTx(s, uart)
            /\ RxFull(s) => /\ t + 1 = TakenAt(b)
                            /\ \A q \in 1 .. ByteBits + 2 : s.rx_bits[q] = Level(byte, q - 1)
            /\ ~RxFull(s) => ~RxIdle(s) /\ Takes(s, byte, t + 1)
        BY <1>1, <2>4, <2>5, <2>7, <3>2, <3>3, <3>6, RxOn
      <4> HIDE DEF s
      <4>2. CASE RxFull(s)
        <5>1. RxByte(s) = byte /\ Last(s.rx_bits) = 1
          BY <2>4, <4>1, <4>2, RxByteIs
        <5>2. uart' = RxClear(s) /\ received' = Append(received, byte)
          BY <1>4, <4>2, <5>1
        <5>3. RxIdle(uart') /\ SameTx(uart', uart)
          BY <4>1, <5>2, RxCleared DEF SameTx
        <5>4. Arrived(n)' /\ received' \in Seq(Seq(Levels))
          BY <1>3, <2>4, <2>7, <3>6, <5>2, Arrives DEF byte
        <5>5. Arrived(RxByteNo)'
          BY <3>4, <5>4
        <5>6. LineTime(driver') >= TakenAt(uart'.bit)
          BY <2>6, <3>1, <4>1, <4>2, <5>3 DEF SameTx
        <5> QED BY <1>5, <2>1, <2>3, <2>5, <3>1, <3>2, <3>4, <4>1, <5>1, <5>3, <5>4, <5>5, <5>6
      <4>3. CASE ~RxFull(s)
        <5>1. uart' = s /\ received' = received
          BY <1>4, <4>3
        <5>2. Arrived(RxByteNo - 1)'
          BY <1>3, <2>7, <3>4, <3>6, <5>1 DEF Arrived
        <5> QED BY <1>1, <1>5, <2>1, <2>3, <2>5, <3>1, <3>2, <3>4, <4>1, <4>3, <5>1, <5>2
      <4> QED BY <4>2, <4>3
    <3> QED BY <3>5, <3>6
  <2> QED BY <2>9, <2>10
<1> QED BY <1>6, <1>7, <1>8

-----------------------------------------------------------------------------
LEMMA LineRests == LineInv /\ UNCHANGED uart_vars => LineInv'
<1> SUFFICES ASSUME LineInv, UNCHANGED uart_vars PROVE LineInv'
  OBVIOUS
<1>1. LineTypes'
  BY DEF LineInv, LineTypes, uart_vars
<1>2. FromSoc' <=> FromSoc
  BY DEF uart_vars, FromSoc, Rest, ToCome, TxByte, Arrived, RxIdle, TxLevel, TxTime, TxSlot,
         Sends, Watches
<1>3. ToSoc' <=> ToSoc
  BY DEF uart_vars, ToSoc, Rest, ToCome, RxByteNo, Arrived, RxIdle, Drives, Takes, LineTime
<1> QED
  BY <1>1, <1>2, <1>3 DEF LineInv

LEMMA LineSteps == LineInv /\ [LineNext]_uart_vars => LineInv'
<1>1. LineInv /\ LineCycle => LineInv'
  BY CycleFromSoc, CycleToSoc DEF LineInv
<1> QED BY <1>1, DivisorSet, BytesQueued, LineRests DEF LineNext

LEMMA LineOrders == LineInv => BytesInOrder
<1> SUFFICES ASSUME LineInv PROVE BytesInOrder
  OBVIOUS
<1>1. text \in Seq(Seq(Levels)) /\ received \in Seq(Seq(Levels)) /\ framing_error = FALSE
  BY DEF LineInv, LineTypes
<1>2. received = <<>> \/ \E n \in Nat : Arrived(n)
  <2>1. CASE FromSoc
    <3>1. Arrived(TxByte) \/ Arrived(TxByte - 1)
      BY <2>1 DEF FromSoc
    <3> QED BY <1>1, <3>1 DEF Arrived
  <2>2. CASE ToSoc
    <3>1. received = <<>> \/ Arrived(RxByteNo) \/ Arrived(RxByteNo - 1)
      BY <2>2 DEF ToSoc
    <3> QED BY <1>1, <3>1 DEF Arrived
  <2> QED BY <2>1, <2>2 DEF LineInv
<1>3. IsPrefix(received, text)
  <2>1. PICK n \in Nat : Len(received) = n /\ n <= Len(text) /\ \A i \in 1 .. n : received[i] = text[i]
    BY <1>1, <1>2 DEF Arrived
  <2> DEFINE p == SubSeq(text, 1, n)
  <2>2. p \in Seq(Seq(Levels)) /\ Len(p) = n /\ \A i \in 1 .. n : p[i] = text[i]
    BY <1>1, <2>1
  <2> HIDE DEF p
  <2>3. received = p
    BY <1>1, <2>1, <2>2, SameSequence
  <2> QED BY <2>1, <2>3 DEF p, IsPrefix
<1> QED BY <1>1, <1>3 DEF BytesInOrder

\* For any bit of the bench, any of the SoC within the drift, any number of bits
\* of a byte and any text: what one end of the line makes of a text is a prefix
\* of it, and no stop bit is missed (uart_rx_driver.cpp, uart_tx_monitor.cpp).
THEOREM LineDelivers == LineSpec => []BytesInOrder
<1>1. LineInit => LineInv
  BY LineStarts
<1>2. LineInv /\ [LineNext]_uart_vars => LineInv'
  BY LineSteps
<1>3. LineInv => BytesInOrder
  BY LineOrders
<1> QED BY <1>1, <1>2, <1>3, PTL DEF LineSpec
=============================================================================

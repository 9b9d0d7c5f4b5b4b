------------------------------ MODULE SocBench ------------------------------
(***************************************************************************)
(* The SoC's testbench: a command (tb_soc_main.cpp) that puts a program    *)
(* where the SoC runs it from and judges the run, and the boot ROM         *)
(* (zsbl.S) and the program on the hart, which run meanwhile. The command  *)
(* reaches the SoC over JTAG, where a call may throw, over the straps and  *)
(* reset, and over the memories' back doors. Addresses are bytes of a      *)
(* small address space; a word of the SCB is a variable.                   *)
(***************************************************************************)
EXTENDS ElfImage

CONSTANTS
  Commands,             \* the command lines
  SramBases, SramSize,  \* where a build may put the SRAM, and its bytes
  MemBase, MemSize,     \* the external memory
  FlashSize,            \* bytes of the flash
  Align,                \* of an entry point: 4 in the code
  StageBytes,           \* bytes of a first stage
  PatternStart,         \* where the bench overwrites a UART stage
  MaxPolls,             \* polls for the ROM to park: 1000 in the code
  Pass, Fail,           \* what a program reports
  None

VARIABLES
  command,      \* the command line
  sram_base,    \* the build
  bench,        \* what the command does: [pc, polls, segment, offset, result]
  image,        \* the program it has read, or the bytes of the stage
  rc,           \* what main returned, or None
  memory,       \* [sram, ext]: byte by offset
  flash,        \* byte by address
  line,         \* bytes on the way to the SoC's UART
  scratch,      \* SCB.SCRATCH0
  boot_sel,     \* the boot select straps
  end_o,        \* the program wrote END_ADDRESS
  hart,         \* [pc, a0]: where the ROM or the program is
  reported      \* what the program has reported since it started, or None

vars == <<command, sram_base, bench, image, rc, memory, flash, line, scratch, boot_sel,
          end_o, hart, reported>>
soc  == <<memory, flash, line, scratch, boot_sel, end_o, hart, reported>>

PARKED  == 1
Machine == 243
File    == command.file
Names   == {"usage", "load", "test", "qspiboot", "uartboot", "read", "write"}

ASSUME CommandAssumption == \A c \in Commands : c.name \in Names
\* 0xaabbccdd is no aligned entry point, and neither the ROM's mark nor zero.
ASSUME ReportAssumption ==
  /\ Align \in Nat \ {0} /\ Pass % Align # 0
  /\ Pass \notin {0, PARKED, Fail, None} /\ None \notin {0, 1}
\* A stage fits the SRAM, which ends where the external memory begins, before it,
\* or lies behind its base.
ASSUME LayoutAssumption ==
  /\ SramSize \in Nat /\ MemSize \in Nat /\ FlashSize \in Nat /\ MemBase \in Int
  /\ StageBytes \in 1 .. SramSize
  /\ \A b \in SramBases : b \in Int /\ (b >= MemBase \/ b + SramSize <= MemBase)
\* The headers of a file have fields of their kind, and uartboot is not told to
\* boot from the flash (VERNII_BOOT_SEL, 2 where it is not set).
ASSUME FileAssumption ==
  \A c \in Commands :
    /\ c.name \in {"load", "test"} =>
         Loads(c.file) \in Seq([load : {TRUE}, offset : Nat, paddr : Int, filesz : Nat,
                               memsz : Nat \ {0}, x : BOOLEAN])
    /\ c.name \in {"qspiboot", "uartboot"} => Len(c.file) \in Nat
    /\ c.name = "uartboot" => c.boot_sel # 1

-----------------------------------------------------------------------------
(* Memory as the hart and the debug module address it.                     *)

InSram(a) == a - sram_base \in 0 .. SramSize - 1
InExt(a)  == ~InSram(a) /\ a - MemBase \in 0 .. MemSize - 1
ReadByte(a) ==
  IF InSram(a) THEN memory.sram[a - sram_base]
  ELSE IF InExt(a) THEN memory.ext[a - MemBase] ELSE None
Written(a, b) ==
  IF InSram(a) THEN [memory EXCEPT !.sram[a - sram_base] = b]
  ELSE [memory EXCEPT !.ext[a - MemBase] = b]

\* preload_sram and AxiMem::preload: the segments one after the other.
LastByte(a) ==
  LET S == image.segments
      i == CHOOSE i \in DOMAIN S : a \in Range_(S[i]) /\
             \A j \in DOMAIN S : a \in Range_(S[j]) => j <= i
  IN S[i].data[a - S[i].address + 1]
Preloaded(m, base) ==
  [o \in DOMAIN m |-> IF \E s \in ToSet(image.segments) : base + o \in Range_(s)
                        THEN LastByte(base + o) ELSE m[o]]
PreloadFits(base, size) ==
  \A s \in ToSet(image.segments) : Range_(s) \subseteq base .. base + size - 1

is_external(a) == ~InSram(a)
SegmentInPlace(s, external) ==
  IF external THEN s.address >= MemBase
  ELSE s.address >= sram_base /\ Last_(s) < sram_base + SramSize
\* Mutant: an entry point that is not aligned is accepted.
EntryOk_Unaligned(i) ==
  /\ i.entry # PARKED
  /\ \E s \in ToSet(i.segments) : s.executable /\ i.entry \in Range_(s)
EntryOk(i) ==
  /\ i.entry % Align = 0 /\ i.entry # PARKED
  /\ \E s \in ToSet(i.segments) : s.executable /\ i.entry \in Range_(s)
validate(i) ==
  /\ i.machine = Machine
  /\ \A s \in ToSet(i.segments) : SegmentInPlace(s, is_external(i.entry))
  /\ EntryOk(i)

\* The stage that goes down the UART: filled up, with the pattern its tail test
\* looks for.
UartStage(bytes) ==
  [i \in 1 .. StageBytes |-> IF i > PatternStart THEN 100 + i
                             ELSE IF i <= Len(bytes) THEN bytes[i] ELSE 0]

-----------------------------------------------------------------------------
(* The command.                                                            *)

At(pc) == bench.pc = pc /\ rc = None
Goto(pc) == bench' = [bench EXCEPT !.pc = pc, !.polls = 0] /\ UNCHANGED rc
Return(v) == rc' = v /\ bench' = [bench EXCEPT !.pc = "done"]

\* The SoC comes out of reset, its ROM at the start.
ResetSoc ==
  /\ scratch' = 0 /\ end_o' = FALSE /\ hart' = [pc |-> "rom", a0 |-> 0]
  /\ reported' = None

First(name) ==
  CASE name \in {"load", "test"}  -> "read_elf"
    [] name = "qspiboot"          -> "flash"
    [] name = "uartboot"          -> "stage"
    [] name \in {"read", "write"} -> "range"

main ==
  /\ At("main")
  /\ \/ command.name = "usage" /\ Return(1) /\ UNCHANGED soc
     \/ /\ command.name # "usage" /\ Goto(First(command.name))
        /\ ResetSoc /\ UNCHANGED <<memory, flash, line, boot_sel>>
  /\ UNCHANGED image

read_image ==
  /\ At("read_elf")
  /\ LET i == read_elf(File)
     IN IF i # Error /\ validate(i) THEN image' = i /\ Goto("park")
        ELSE image' = image /\ Return(1)
  /\ UNCHANGED soc

range ==
  /\ At("range") /\ IF command.fits THEN Goto("park") ELSE Return(1)
  /\ UNCHANGED <<soc, image>>

park ==
  /\ At("park") /\ Goto("poll")
  /\ ResetSoc /\ UNCHANGED <<memory, flash, line, boot_sel, image>>

Then == IF command.name \in {"read", "write"} THEN "access" ELSE "load"
\* Mutant: one look, whatever it sees.
poll_Once ==
  /\ At("poll") /\ Goto(Then) /\ UNCHANGED <<soc, image>>
poll ==
  /\ At("poll")
  /\ IF scratch = PARKED THEN Goto(Then)
     ELSE IF bench.polls = MaxPolls THEN Return(1)
     ELSE bench' = [bench EXCEPT !.polls = @ + 1] /\ UNCHANGED rc
  /\ UNCHANGED <<soc, image>>

\* cmd_load: a byte over JTAG; past the memory, the access throws.
load_byte ==
  /\ At("load") /\ command.name = "load" /\ bench.segment <= Len(image.segments)
  /\ LET s == image.segments[bench.segment]
         a == s.address + bench.offset
         last == bench.offset + 1 = Len(s.data)
     IN IF InSram(a) \/ InExt(a)
          THEN /\ memory' = Written(a, s.data[bench.offset + 1])
               /\ bench' = [bench EXCEPT !.segment = IF last THEN @ + 1 ELSE @,
                                         !.offset = IF last THEN 0 ELSE @ + 1]
               /\ UNCHANGED rc
          ELSE Return(1) /\ UNCHANGED memory
  /\ UNCHANGED <<flash, line, scratch, boot_sel, end_o, hart, reported, image>>
loaded ==
  /\ At("load") /\ command.name = "load" /\ bench.segment > Len(image.segments)
  /\ Goto("start") /\ UNCHANGED <<soc, image>>

\* cmd_test: through the back door, in no time.
preload ==
  /\ At("load") /\ command.name = "test"
  /\ IF is_external(image.entry)
       THEN IF PreloadFits(MemBase, MemSize)
              THEN /\ memory' = [memory EXCEPT !.ext = Preloaded(@, MemBase)]
                   /\ Goto("start")
              ELSE Return(1) /\ UNCHANGED memory
       ELSE memory' = [memory EXCEPT !.sram = Preloaded(@, sram_base)] /\ Goto("start")
  /\ UNCHANGED <<flash, line, scratch, boot_sel, end_o, hart, reported, image>>

start_image ==
  /\ At("start") /\ scratch' = image.entry
  /\ Goto(IF command.name = "test" THEN "wait" ELSE "run")
  /\ UNCHANGED <<memory, flash, line, boot_sel, end_o, hart, reported, image>>

\* cmd_load lets the program run for RUN_CYCLES, which is enough to start it.
run_cycles ==
  /\ At("run") /\ hart.pc # "jump" /\ ~(hart.pc = "spin" /\ scratch = image.entry)
  /\ Return(0)
  /\ UNCHANGED <<soc, image>>

preload_flash ==
  /\ At("flash")
  /\ IF Len(File) > FlashSize THEN Return(1) /\ UNCHANGED <<flash, image>>
     ELSE /\ flash' = [a \in DOMAIN flash |-> IF a < Len(File) THEN File[a + 1] ELSE flash[a]]
          /\ image' = File /\ Goto("boot")
  /\ UNCHANGED <<memory, line, scratch, boot_sel, end_o, hart, reported>>
make_stage ==
  /\ At("stage")
  /\ IF Len(File) > StageBytes THEN Return(1) /\ UNCHANGED image
     ELSE image' = UartStage(File) /\ Goto("boot")
  /\ UNCHANGED soc
boot ==
  /\ At("boot") /\ boot_sel' = command.boot_sel
  /\ Goto(IF command.name = "uartboot" THEN "send" ELSE "wait")
  /\ ResetSoc /\ UNCHANGED <<memory, flash, line, image>>
\* The JTAG port is set up before the bytes go out, which takes the ROM longer
\* to wait for than to set up its UART.
send ==
  /\ At("send") /\ hart.pc # "rom"
  /\ line' = image /\ Goto("wait")
  /\ UNCHANGED <<memory, flash, scratch, boot_sel, end_o, hart, reported, image>>

\* run_to_end: until the program ends, or the limit, which may come any time.
\* Mutant: without the limit.
wait_Forever ==
  /\ At("wait") /\ end_o /\ Goto("result") /\ UNCHANGED <<soc, image>>
wait ==
  /\ At("wait") /\ Goto("result") /\ UNCHANGED <<soc, image>>
read_result ==
  /\ At("result")
  /\ bench' = [bench EXCEPT !.pc = "verdict", !.result = scratch]
  /\ UNCHANGED <<soc, image, rc>>
verdict ==
  /\ At("verdict") /\ Return(IF end_o /\ bench.result = Pass THEN 0 ELSE 1)
  /\ UNCHANGED <<soc, image>>

\* cmd_read and cmd_write; a read prints what it got. The addresses given are of
\* the memories or of nothing at all, where the access fails. The SCB and the
\* peripherals, which the bus reaches too, are not among them: a write of
\* SCRATCH0 would set the ROM off (zsbl.S:56).
access ==
  /\ At("access")
  /\ LET A == command.address .. command.address + Len(command.bytes) - 1
     IN IF \A a \in A : InSram(a) \/ InExt(a)
          THEN /\ memory' = IF command.name = "read" THEN memory
                 ELSE FoldLeft(LAMBDA m, i :
                        LET a == command.address + i - 1
                        IN IF InSram(a) THEN [m EXCEPT !.sram[a - sram_base] = command.bytes[i]]
                           ELSE [m EXCEPT !.ext[a - MemBase] = command.bytes[i]],
                      memory, [i \in DOMAIN command.bytes |-> i])
               /\ Return(0)
          ELSE Return(1) /\ UNCHANGED memory
  /\ UNCHANGED <<flash, line, scratch, boot_sel, end_o, hart, reported, image>>

\* A JTAG call, or opening a file, throws: main reports it.
throw ==
  /\ bench.pc \in {"park", "poll", "load", "start", "boot", "result", "access",
                   "flash", "stage", "read_elf"}
  /\ rc = None /\ ~(bench.pc = "load" /\ command.name = "test")
  /\ Return(1) /\ UNCHANGED <<soc, image>>

Step ==
  \/ main \/ read_image \/ range \/ park \/ poll \/ load_byte \/ loaded \/ preload
  \/ start_image \/ run_cycles \/ preload_flash \/ make_stage \/ boot \/ send \/ wait
  \/ read_result \/ verdict \/ access
Bench == (Step \/ throw) /\ UNCHANGED <<command, sram_base>>

-----------------------------------------------------------------------------
(* The hart: the boot ROM, then the program.                               *)

HartAt(pc) == hart.pc = pc
HartGoto(pc) == hart' = [pc |-> pc, a0 |-> 0]

rom_select ==
  /\ HartAt("rom")
  /\ HartGoto(IF boot_sel \in {2, 3} THEN "uart" ELSE IF boot_sel = 1 THEN "qspi" ELSE "park")
  /\ UNCHANGED <<memory, line, scratch, end_o, reported>>
rom_park ==
  /\ HartAt("park") /\ scratch' = PARKED /\ HartGoto("spin")
  /\ UNCHANGED <<memory, line, end_o, reported>>
rom_jump ==
  /\ HartAt("spin") /\ scratch # PARKED /\ hart' = [pc |-> "jump", a0 |-> scratch]
  /\ UNCHANGED <<memory, line, scratch, end_o, reported>>
Store(b) == memory' = [memory EXCEPT !.sram[hart.a0] = b]
Advance ==
  hart' = IF hart.a0 + 1 = StageBytes THEN [pc |-> "jump", a0 |-> 0]
          ELSE [hart EXCEPT !.a0 = @ + 1]
rom_uart ==
  /\ HartAt("uart") /\ line # <<>> /\ Store(Head(line)) /\ Advance
  /\ line' = Tail(line) /\ UNCHANGED <<scratch, end_o, reported>>
rom_qspi ==
  /\ HartAt("qspi") /\ Store(flash[hart.a0]) /\ Advance
  /\ UNCHANGED <<line, scratch, end_o, reported>>
\* fence.i, and the first instruction at the entry.
enter ==
  /\ HartAt("jump") /\ HartGoto("run")
  /\ UNCHANGED <<memory, line, scratch, end_o, reported>>
Rom == rom_select \/ rom_park \/ rom_jump \/ rom_uart \/ rom_qspi \/ enter

\* The program reports at most once, ends, traps into the ROM's park loop, or
\* runs on for ever.
report(v) ==
  /\ HartAt("run") /\ reported = None /\ scratch' = v /\ reported' = v
  /\ UNCHANGED <<hart, memory, line, end_o>>
halt ==
  /\ HartAt("run") /\ end_o' = TRUE /\ HartGoto("halted")
  /\ UNCHANGED <<memory, line, scratch, reported>>
trap ==
  /\ HartAt("run") /\ HartGoto("park") /\ UNCHANGED <<memory, line, scratch, end_o, reported>>
Program == report(Pass) \/ report(Fail) \/ halt \/ trap

Hart == (Rom \/ Program)
          /\ UNCHANGED <<command, sram_base, bench, image, rc, flash, boot_sel>>

-----------------------------------------------------------------------------
\* The testbench's constructor leaves the SoC in reset, with a memory of any
\* content: the bytes of None.
PowerOn ==
  /\ bench = [pc |-> "main", polls |-> 0, segment |-> 1, offset |-> 0, result |-> None]
  /\ image = None /\ rc = None
  /\ memory = [sram |-> [o \in 0 .. SramSize - 1 |-> None],
               ext |-> [o \in 0 .. MemSize - 1 |-> None]]
  /\ flash = [a \in 0 .. FlashSize - 1 |-> None] /\ line = <<>>
  /\ scratch = 0 /\ boot_sel = 0 /\ end_o = FALSE
  /\ hart = [pc |-> "reset", a0 |-> 0] /\ reported = None

\* The straps choose the ROM's source only where the SRAM is at zero. A test of
\* a program with a segment in a relocated SRAM and its entry outside is left
\* out: validate accepts it and its preload goes to the external memory.
Mixed ==
  /\ command.name = "test" /\ sram_base >= MemBase
  /\ LET i == read_elf(File)
     IN i # Error /\ is_external(i.entry) /\ \E s \in ToSet(i.segments) :
                                               \E a \in Range_(s) : InSram(a)
Init ==
  /\ command \in Commands /\ sram_base \in SramBases
  /\ command.name \in {"qspiboot", "uartboot"} => sram_base = 0
  /\ ~Mixed
  /\ PowerOn

Next == Bench \/ Hart
Spec == Init /\ [][Next]_vars /\ WF_vars(Next)

-----------------------------------------------------------------------------
\* The hart enters a program only when all of it is in memory as the hart sees
\* it: every byte of every segment, the filled ones too, or the whole stage, and
\* at its entry point (cmd_load, cmd_test; uart and qspi in zsbl.S).
JumpsIntoImage ==
  [][hart.pc = "jump" /\ hart'.pc = "run" =>
       CASE command.name \in {"load", "test"} ->
              /\ hart.a0 = File.entry
              /\ \A a \in Covered(File) : ReadByte(a) = Expected(File, a)
         [] command.name = "qspiboot" ->
              \A i \in 1 .. StageBytes : i <= Len(File) => memory.sram[i - 1] = File[i]
         [] command.name = "uartboot" ->
              \A i \in 1 .. StageBytes :
                memory.sram[i - 1] = IF i > PatternStart THEN 100 + i
                                     ELSE IF i <= Len(File) THEN File[i] ELSE 0
         [] OTHER -> FALSE]_vars

\* A run is judged a pass only when the program of this run reported it and
\* ended: no earlier report, entry point or parked ROM is mistaken for one.
VerdictTrue ==
  rc = 0 /\ command.name \in {"test", "qspiboot", "uartboot"} => reported = Pass /\ end_o

\* The command touches memory, and hands over an entry point, only while the ROM
\* spins: code the ROM has still to run cannot overwrite the entry.
RomWaits ==
  bench.pc \in {"load", "access", "start"} /\ rc = None =>
    hart.pc = "spin" /\ scratch = PARKED
=============================================================================

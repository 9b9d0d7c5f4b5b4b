---------------------------- MODULE SocBenchProofs ----------------------------
(***************************************************************************)
(* Proofs about the SoC's testbench, for any command lines, memories and   *)
(* programs. First that a pass is the program's own, and that the command  *)
(* waits for the ROM: no fact about memory is needed, SCRATCH0 passes from *)
(* the ROM to the command to the program, and each part of the invariant   *)
(* names who may hold it. Then that the hart enters a program only when    *)
(* all of it is in memory, which follows every byte on its way there.      *)
(***************************************************************************)
EXTENDS SocBench, WellFoundedInduction, TLAPS

IsRecords ==
  /\ DOMAIN bench = {"pc", "polls", "segment", "offset", "result"}
  /\ DOMAIN hart = {"pc", "a0"}

\* The table of commands sends each command to its own steps.
OwnSteps ==
  /\ command.name \in Names
  /\ bench.pc \in {"read_elf", "load", "start"} => command.name \in {"load", "test"}
  /\ bench.pc \in {"range", "access"} => command.name \in {"read", "write"}
  /\ bench.pc \in {"park", "poll"} => command.name \in {"load", "test", "read", "write"}
  /\ bench.pc = "run" => command.name = "load"

\* From read_elf on the image has an entry point that validate accepted.
EntryAligned ==
  /\ bench.pc \in {"park", "poll"} /\ command.name \in {"load", "test"} => image.entry % Align = 0
  /\ bench.pc \in {"load", "start"} => image.entry % Align = 0

\* Until it is given an entry point the hart is in the ROM's park branch, and
\* SCRATCH0 tells where.
RomParks ==
  /\ bench.pc \in {"main", "read_elf", "range", "park", "poll", "load", "access", "start"}
       => boot_sel = 0
  /\ bench.pc \in {"poll", "load", "access", "start"}
       => /\ hart.pc \in {"rom", "park", "spin"}
          /\ scratch = IF hart.pc = "spin" THEN PARKED ELSE 0
  /\ bench.pc \in {"load", "access", "start"} => hart.pc = "spin"

\* Whoever reads a pass, now or before, read the program's report.
PassReported ==
  /\ scratch = Pass => reported = Pass
  /\ bench.pc = "verdict" /\ bench.result = Pass => reported = Pass
  /\ rc # None => bench.pc = "done"
  /\ rc = 0 /\ command.name \in {"test", "qspiboot", "uartboot"} => reported = Pass /\ end_o

IInv == IsRecords /\ OwnSteps /\ EntryAligned /\ RomParks /\ PassReported

LEMMA InitIInv == Init => IInv
<1> SUFFICES ASSUME Init PROVE IInv
  OBVIOUS
<1> USE DEF Init, PowerOn
<1>1. IsRecords
  BY DEF IsRecords
<1>2. OwnSteps
  BY CommandAssumption DEF OwnSteps
<1>3. EntryAligned /\ RomParks
  BY DEF EntryAligned, RomParks
<1>4. PassReported
  BY ReportAssumption DEF PassReported
<1> QED
  BY <1>1, <1>2, <1>3, <1>4 DEF IInv

\* The program counter and the return value after Goto and Return.
LEMMA GotoMoves ==
  ASSUME IsRecords, NEW pc, Goto(pc)
  PROVE  bench'.pc = pc /\ bench'.result = bench.result /\ rc' = rc
         /\ DOMAIN bench' = DOMAIN bench
BY DEF IsRecords, Goto

LEMMA ReturnEnds ==
  ASSUME IsRecords, NEW v, Return(v)
  PROVE  bench'.pc = "done" /\ rc' = v /\ DOMAIN bench' = DOMAIN bench
BY DEF IsRecords, Return

\* A step of the command that ends it without a pass.
LEMMA ReturnKeeps ==
  ASSUME IInv, NEW v \in {0, 1}, Return(v),
         UNCHANGED <<command, scratch, reported, end_o, hart>>,
         v = 0 => command.name \notin {"test", "qspiboot", "uartboot"}
  PROVE  IInv'
<1>1. bench'.pc = "done" /\ rc' = v /\ DOMAIN bench' = DOMAIN bench
  BY ReturnEnds DEF IInv
<1> QED
  BY <1>1, ReportAssumption
     DEF IInv, IsRecords, OwnSteps, EntryAligned, RomParks, PassReported

\* A step of the command that goes on with the SoC as it was.
LEMMA GotoKeeps ==
  ASSUME IInv, NEW pc, Goto(pc), rc = None, pc # "verdict",
         UNCHANGED <<command, scratch, reported, end_o, hart, boot_sel, image>>,
         OwnSteps', EntryAligned', RomParks'
  PROVE  IInv'
<1>1. bench'.pc = pc /\ rc' = rc /\ DOMAIN bench' = DOMAIN bench
  BY GotoMoves DEF IInv
<1>2. PassReported'
  BY <1>1, ReportAssumption DEF IInv, PassReported
<1> QED
  BY <1>1, <1>2 DEF IInv, IsRecords

LEMMA BenchKeepsIInv == IInv /\ Bench => IInv'
<1> SUFFICES ASSUME IInv, Bench PROVE IInv'
  OBVIOUS
<1> USE DEF IInv, soc, At
<1>0. UNCHANGED command
  BY DEF Bench
<1>1. CASE main
  <2>1. CASE command.name = "usage"
    BY <1>0, <1>1, <2>1, ReturnKeeps DEF main
  <2>2. CASE command.name # "usage"
    <3>1. Goto(First(command.name)) /\ ResetSoc /\ UNCHANGED <<boot_sel, image>> /\ rc = None
          /\ bench.pc = "main"
      BY <1>1, <2>2 DEF main
    <3>2. bench'.pc = First(command.name) /\ rc' = rc /\ DOMAIN bench' = DOMAIN bench
      BY <3>1, GotoMoves
    <3>3. /\ command.name \in {"load", "test"} => First(command.name) = "read_elf"
          /\ command.name = "qspiboot" => First(command.name) = "flash"
          /\ command.name = "uartboot" => First(command.name) = "stage"
          /\ command.name \in {"read", "write"} => First(command.name) = "range"
      BY DEF First
    <3>4. command.name \in {"load", "test", "qspiboot", "uartboot", "read", "write"}
      BY <2>2 DEF OwnSteps, Names
    <3>5. IsRecords' /\ OwnSteps' /\ EntryAligned'
      BY <1>0, <3>1, <3>2, <3>3, <3>4 DEF ResetSoc, IsRecords, OwnSteps, EntryAligned
    <3>6. RomParks'
      BY <1>0, <3>1, <3>2, <3>3, <3>4 DEF ResetSoc, RomParks
    <3>7. PassReported'
      BY <1>0, <3>1, <3>2, <3>3, <3>4, ReportAssumption DEF ResetSoc, PassReported
    <3> QED
      BY <3>5, <3>6, <3>7
  <2> QED
    BY <2>1, <2>2
<1>2. CASE read_image
  <2>1. CASE Return(1)
    BY <1>0, <1>2, <2>1, ReturnKeeps DEF read_image
  <2>2. CASE ~Return(1)
    <3>1. /\ validate(image') /\ Goto("park") /\ UNCHANGED soc
          /\ bench.pc = "read_elf" /\ rc = None
      BY <1>2, <2>2 DEF read_image
    <3>2. bench'.pc = "park" /\ rc' = rc /\ DOMAIN bench' = DOMAIN bench
      BY <3>1, GotoMoves
    <3>3. image'.entry % Align = 0
      BY <3>1 DEF validate, EntryOk
    <3> QED
      BY <1>0, <3>1, <3>2, <3>3, ReportAssumption
         DEF IsRecords, OwnSteps, EntryAligned, RomParks, PassReported
  <2> QED
    BY <2>1, <2>2
<1>3. CASE range
  <2>1. CASE Return(1)
    BY <1>0, <1>3, <2>1, ReturnKeeps DEF range
  <2>2. CASE Goto("park")
    <3>1. bench'.pc = "park" /\ rc' = rc /\ DOMAIN bench' = DOMAIN bench
      BY <2>2, GotoMoves
    <3> QED
      BY <1>0, <1>3, <2>2, <3>1, GotoKeeps DEF range, OwnSteps, EntryAligned, RomParks
  <2> QED
    BY <1>3, <2>1, <2>2 DEF range
<1>4. CASE park
  <2>1. bench'.pc = "poll" /\ rc' = rc /\ rc = None /\ DOMAIN bench' = DOMAIN bench
    BY <1>4, GotoMoves DEF park
  <2> QED
    BY <1>0, <1>4, <2>1, ReportAssumption
       DEF park, ResetSoc, IsRecords, OwnSteps, EntryAligned, RomParks, PassReported
<1>5. CASE poll
  <2>1. CASE scratch = PARKED
    <3>1. bench'.pc = Then /\ DOMAIN bench' = DOMAIN bench
      BY <1>5, <2>1, GotoMoves DEF poll
    <3>2. /\ command.name \in {"read", "write"} => Then = "access"
          /\ command.name \in {"load", "test"} => Then = "load"
      BY DEF Then
    <3>3. hart.pc = "spin"
      BY <1>5, <2>1 DEF poll, RomParks, PARKED
    <3>4. OwnSteps' /\ EntryAligned' /\ RomParks'
      BY <1>0, <1>5, <2>1, <3>1, <3>2, <3>3 DEF poll, OwnSteps, EntryAligned, RomParks
    <3>5. Then # "verdict"
      BY DEF Then
    <3> QED
      BY <1>0, <1>5, <2>1, <3>4, <3>5, GotoKeeps DEF poll
  <2>2. CASE scratch # PARKED /\ bench.polls = MaxPolls
    BY <1>0, <1>5, <2>2, ReturnKeeps DEF poll
  <2>3. CASE scratch # PARKED /\ bench.polls # MaxPolls
    <3>1. bench' = [bench EXCEPT !.polls = @ + 1] /\ UNCHANGED <<rc, soc, image>> /\ rc = None
      BY <1>5, <2>3 DEF poll
    <3>2. bench'.pc = bench.pc /\ bench'.result = bench.result /\ DOMAIN bench' = DOMAIN bench
      BY <3>1 DEF IsRecords
    <3> QED
      BY <1>0, <3>1, <3>2 DEF IsRecords, OwnSteps, EntryAligned, RomParks, PassReported
  <2> QED
    BY <2>1, <2>2, <2>3
<1>6. CASE load_byte
  <2>1. CASE Return(1)
    BY <1>0, <1>6, <2>1, ReturnKeeps DEF load_byte
  <2>2. CASE ~Return(1)
    <3>1. /\ \E next, offset : bench' = [bench EXCEPT !.segment = next, !.offset = offset]
          /\ UNCHANGED <<rc, scratch, boot_sel, end_o, hart, reported, image>>
          /\ bench.pc = "load" /\ rc = None
      BY <1>6, <2>2 DEF load_byte
    <3>2. bench'.pc = bench.pc /\ bench'.result = bench.result /\ DOMAIN bench' = DOMAIN bench
      BY <3>1 DEF IsRecords
    <3> QED
      BY <1>0, <3>1, <3>2 DEF IsRecords, OwnSteps, EntryAligned, RomParks, PassReported
  <2> QED
    BY <2>1, <2>2
<1>7. CASE loaded
  <2>1. bench'.pc = "start"
    BY <1>7, GotoMoves DEF loaded
  <2> QED
    BY <1>0, <1>7, <2>1, GotoKeeps DEF loaded, OwnSteps, EntryAligned, RomParks
<1>8. CASE preload
  <2>1. CASE Return(1)
    BY <1>0, <1>8, <2>1, ReturnKeeps DEF preload
  <2>2. CASE Goto("start")
    <3>1. bench'.pc = "start"
      BY <2>2, GotoMoves
    <3> QED
      BY <1>0, <1>8, <2>2, <3>1, GotoKeeps DEF preload, OwnSteps, EntryAligned, RomParks
  <2> QED
    BY <1>8, <2>1, <2>2 DEF preload
<1>9. CASE start_image
  <2>1. /\ bench'.pc \in {"wait", "run"} /\ (bench'.pc = "run" => command.name # "test")
        /\ rc' = rc /\ rc = None /\ DOMAIN bench' = DOMAIN bench
    BY <1>9, GotoMoves DEF start_image
  <2>2. scratch' # Pass
    BY <1>9, ReportAssumption DEF start_image, EntryAligned
  <2> QED
    BY <1>0, <1>9, <2>1, <2>2, ReportAssumption
       DEF start_image, IsRecords, OwnSteps, EntryAligned, RomParks, PassReported
<1>10. CASE run_cycles
  BY <1>0, <1>10, ReturnKeeps DEF run_cycles, OwnSteps
<1>11. CASE preload_flash
  <2>1. CASE Return(1)
    BY <1>0, <1>11, <2>1, ReturnKeeps DEF preload_flash
  <2>2. CASE ~Return(1)
    <3>1. /\ Goto("boot") /\ bench.pc = "flash" /\ rc = None
          /\ UNCHANGED <<scratch, boot_sel, end_o, hart, reported>>
      BY <1>11, <2>2 DEF preload_flash
    <3>2. bench'.pc = "boot" /\ rc' = rc /\ DOMAIN bench' = DOMAIN bench
      BY <3>1, GotoMoves
    <3> QED
      BY <1>0, <3>1, <3>2, ReportAssumption
         DEF IsRecords, OwnSteps, EntryAligned, RomParks, PassReported
  <2> QED
    BY <2>1, <2>2
<1>12. CASE make_stage
  <2>1. CASE Return(1)
    BY <1>0, <1>12, <2>1, ReturnKeeps DEF make_stage
  <2>2. CASE ~Return(1)
    <3>1. Goto("boot") /\ bench.pc = "stage" /\ rc = None /\ UNCHANGED soc
      BY <1>12, <2>2 DEF make_stage
    <3>2. bench'.pc = "boot" /\ rc' = rc /\ DOMAIN bench' = DOMAIN bench
      BY <3>1, GotoMoves
    <3> QED
      BY <1>0, <3>1, <3>2, ReportAssumption
         DEF IsRecords, OwnSteps, EntryAligned, RomParks, PassReported
  <2> QED
    BY <2>1, <2>2
<1>13. CASE boot
  <2>1. bench'.pc \in {"send", "wait"} /\ rc' = rc /\ rc = None /\ DOMAIN bench' = DOMAIN bench
    BY <1>13, GotoMoves DEF boot
  <2> QED
    BY <1>0, <1>13, <2>1, ReportAssumption
       DEF boot, ResetSoc, IsRecords, OwnSteps, EntryAligned, RomParks, PassReported
<1>14. CASE send
  <2>1. bench'.pc = "wait"
    BY <1>14, GotoMoves DEF send
  <2> QED
    BY <1>0, <1>14, <2>1, GotoKeeps DEF send, OwnSteps, EntryAligned, RomParks
<1>15. CASE wait
  <2>1. bench'.pc = "result"
    BY <1>15, GotoMoves DEF wait
  <2> QED
    BY <1>0, <1>15, <2>1, GotoKeeps DEF wait, OwnSteps, EntryAligned, RomParks
<1>16. CASE read_result
  <2>1. bench'.pc = "verdict" /\ bench'.result = scratch /\ DOMAIN bench' = DOMAIN bench
    BY <1>16 DEF read_result, IsRecords
  <2> QED
    BY <1>0, <1>16, <2>1, ReportAssumption
       DEF read_result, IsRecords, OwnSteps, EntryAligned, RomParks, PassReported
<1>17. CASE verdict
  <2>1. CASE end_o /\ bench.result = Pass
    <3>1. Return(0) /\ bench.pc = "verdict" /\ UNCHANGED <<soc, image>>
      BY <1>17, <2>1 DEF verdict
    <3>2. bench'.pc = "done" /\ rc' = 0 /\ DOMAIN bench' = DOMAIN bench
      BY <3>1, ReturnEnds
    <3> QED
      BY <1>0, <2>1, <3>1, <3>2
         DEF IsRecords, OwnSteps, EntryAligned, RomParks, PassReported
  <2>2. CASE ~(end_o /\ bench.result = Pass)
    BY <1>0, <1>17, <2>2, ReturnKeeps DEF verdict
  <2> QED
    BY <2>1, <2>2
<1>18. CASE access
  <2>1. \E v \in {0, 1} : Return(v)
    BY <1>18 DEF access
  <2>2. command.name \notin {"test", "qspiboot", "uartboot"}
    BY <1>18 DEF access, OwnSteps
  <2> QED
    BY <1>0, <1>18, <2>1, <2>2, ReturnKeeps DEF access
<1>19. CASE throw
  BY <1>0, <1>19, ReturnKeeps DEF throw
<1> QED
  BY <1>1, <1>2, <1>3, <1>4, <1>5, <1>6, <1>7, <1>8, <1>9, <1>10, <1>11, <1>12, <1>13,
     <1>14, <1>15, <1>16, <1>17, <1>18, <1>19 DEF Bench, Step

\* The ROM and the program: what each does to SCRATCH0.
LEMMA HartKeepsIInv == IInv /\ Hart => IInv'
<1> SUFFICES ASSUME IInv, Hart PROVE IInv'
  OBVIOUS
<1> USE DEF IInv, HartAt, HartGoto
<1>0. UNCHANGED <<command, bench, image, rc, boot_sel>>
  BY DEF Hart
<1>1. IsRecords' /\ OwnSteps' /\ EntryAligned'
  <2>1. DOMAIN hart' = {"pc", "a0"}
    BY DEF Hart, Rom, rom_select, rom_park, rom_jump, rom_uart, rom_qspi, enter, Advance,
           Program, report, halt, trap, IsRecords
  <2> QED
    BY <1>0, <2>1 DEF IsRecords, OwnSteps, EntryAligned
<1>2. RomParks'
  <2>1. CASE bench.pc \in {"poll", "load", "access", "start"}
    <3>1. rom_select \/ rom_park
      BY <2>1 DEF Hart, Rom, rom_select, rom_park, rom_jump, rom_uart, rom_qspi, enter,
                  Program, report, halt, trap, RomParks
    <3>2. bench.pc = "poll"
      BY <2>1, <3>1 DEF rom_select, rom_park, RomParks
    <3>3. CASE rom_select
      BY <1>0, <3>2, <3>3 DEF rom_select, RomParks
    <3>4. CASE rom_park
      BY <1>0, <3>2, <3>4 DEF rom_park, RomParks
    <3> QED
      BY <3>1, <3>3, <3>4
  <2>2. CASE bench.pc \notin {"poll", "load", "access", "start"}
    BY <1>0, <2>2 DEF RomParks
  <2> QED
    BY <2>1, <2>2
<1>3. PassReported'
  <2>1. \/ UNCHANGED <<scratch, reported>>
        \/ scratch' = PARKED /\ UNCHANGED reported
        \/ reported = None /\ reported' = scratch'
    BY DEF Hart, Rom, rom_select, rom_park, rom_jump, rom_uart, rom_qspi, enter,
           Program, report, halt, trap
  <2>2. end_o => end_o'
    BY DEF Hart, Rom, rom_select, rom_park, rom_jump, rom_uart, rom_qspi, enter,
           Program, report, halt, trap
  <2> QED
    BY <1>0, <2>1, <2>2, ReportAssumption DEF PassReported
<1> QED
  BY <1>1, <1>2, <1>3

THEOREM Invariance == Spec => []IInv
<1>1. IInv /\ [Next]_vars => IInv'
  <2> SUFFICES ASSUME IInv, [Next]_vars PROVE IInv'
    OBVIOUS
  <2>1. CASE Bench
    BY <2>1, BenchKeepsIInv
  <2>2. CASE Hart
    BY <2>2, HartKeepsIInv
  <2>3. CASE UNCHANGED vars
    BY <2>3 DEF vars, IInv, IsRecords, OwnSteps, EntryAligned, RomParks, PassReported
  <2> QED
    BY <2>1, <2>2, <2>3 DEF Next
<1> QED
  BY InitIInv, <1>1, PTL DEF Spec

\* tb_soc_main.cpp:324: whatever the program, the ROM and the command do, a run
\* that is judged a pass was reported a pass by its program, which has ended.
THEOREM PassIsReported == Spec => []VerdictTrue
<1>1. IInv => VerdictTrue
  BY DEF IInv, PassReported, VerdictTrue
<1> QED
  BY Invariance, <1>1, PTL

\* tb_soc_main.cpp:137: memory and the entry point are written only while the
\* ROM spins on its mark.
THEOREM CommandWaits == Spec => []RomWaits
<1>1. IInv => RomWaits
  BY DEF IInv, RomParks, RomWaits
<1> QED
  BY Invariance, <1>1, PTL
-----------------------------------------------------------------------------
(* What the hart enters. The bytes of a program come from its loadable     *)
(* headers, the last that covers an address; so do the bytes of its image. *)

Headers == Loads(File)
ForProgram == command \in Commands /\ command.name \in {"load", "test"}

Covers(i, a) == a \in Headers[i].paddr .. Headers[i].paddr + Headers[i].memsz - 1
ByteOf(i, a) == IF a - Headers[i].paddr < Headers[i].filesz
                  THEN Headers[i].offset + (a - Headers[i].paddr) + 1 ELSE 0
LastToCover(i, a) ==
  Covers(i, a) /\ \A j \in DOMAIN Headers : Covers(j, a) => j <= i

LEMMA HeadersAre ==
  ASSUME ForProgram
  PROVE  /\ Len(Headers) \in Nat /\ DOMAIN Headers = 1 .. Len(Headers)
         /\ \A i \in DOMAIN Headers :
              /\ Headers[i].paddr \in Int /\ Headers[i].offset \in Nat
              /\ Headers[i].filesz \in Nat /\ Headers[i].memsz \in Nat \ {0}
<1> DEFINE H == [load : {TRUE}, offset : Nat, paddr : Int, filesz : Nat,
                 memsz : Nat \ {0}, x : BOOLEAN]
<1>1. Headers \in Seq(H)
  BY FileAssumption DEF ForProgram, Headers, File
<1>2. /\ Len(Headers) \in Nat /\ DOMAIN Headers = 1 .. Len(Headers)
      /\ \A i \in DOMAIN Headers : Headers[i] \in H
  <2> HIDE DEF H
  <2> QED
    BY <1>1
<1> QED
  BY <1>2

\* The image that read_elf makes of them.
LEMMA SegmentsAre ==
  ASSUME ForProgram, image = read_elf(File), image # Error
  PROVE  /\ image.entry = File.entry
         /\ DOMAIN image.segments = DOMAIN Headers
         /\ Len(image.segments) = Len(Headers)
         /\ \A i \in DOMAIN Headers :
              /\ image.segments[i].address = Headers[i].paddr
              /\ Len(image.segments[i].data) = Headers[i].memsz
              /\ \A a \in Range_(image.segments[i]) :
                   image.segments[i].data[a - image.segments[i].address + 1] = ByteOf(i, a)
              /\ Range_(image.segments[i]) =
                   Headers[i].paddr .. Headers[i].paddr + Headers[i].memsz - 1
<1>1. image = [machine |-> File.machine, entry |-> File.entry,
               segments |-> [i \in DOMAIN Headers |-> read_segment(Headers[i])]]
  BY DEF read_elf, Headers
<1>2. Len(image.segments) = Len(Headers)
  BY <1>1, HeadersAre
<1>3. ASSUME NEW i \in DOMAIN Headers
      PROVE  /\ image.segments[i].address = Headers[i].paddr
             /\ Len(image.segments[i].data) = Headers[i].memsz
             /\ \A a \in Range_(image.segments[i]) :
                  image.segments[i].data[a - image.segments[i].address + 1] = ByteOf(i, a)
             /\ Range_(image.segments[i]) =
                  Headers[i].paddr .. Headers[i].paddr + Headers[i].memsz - 1
  <2> DEFINE s == image.segments[i]
             h == Headers[i]
  <2>1. h.paddr \in Int /\ h.offset \in Nat /\ h.filesz \in Nat /\ h.memsz \in Nat \ {0}
    BY HeadersAre
  <2>2. s = read_segment(h)
    BY <1>1
  <2> HIDE DEF s, h
  <2>3. /\ s.address = h.paddr
        /\ s.data = [k \in 1 .. h.memsz |-> IF k <= h.filesz THEN h.offset + k ELSE 0]
    BY <2>2 DEF read_segment
  <2>4. Len(s.data) = h.memsz
    BY <2>1, <2>3
  <2>5. Range_(s) = h.paddr .. h.paddr + h.memsz - 1
    BY <2>1, <2>3, <2>4 DEF Range_, Last_
  <2>6. ASSUME NEW a \in Range_(s)
        PROVE  s.data[a - s.address + 1]
                 = IF a - h.paddr < h.filesz THEN h.offset + (a - h.paddr) + 1 ELSE 0
    <3>1. a \in Int /\ a - h.paddr + 1 \in 1 .. h.memsz
      BY <2>1, <2>5, <2>6
    <3>2. s.data[a - h.paddr + 1]
            = IF a - h.paddr + 1 <= h.filesz THEN h.offset + (a - h.paddr + 1) ELSE 0
      BY <2>3, <3>1
    <3> QED
      BY <2>1, <2>3, <3>1, <3>2
  <2> QED
    BY <2>3, <2>4, <2>5, <2>6 DEF s, h, ByteOf
<1> QED
  BY <1>1, <1>2, <1>3

\* Of some indices one is the greatest.
LEMMA Greatest ==
  ASSUME NEW n \in Nat, NEW T \in SUBSET (1 .. n), T # {}
  PROVE  \E x \in T : \A y \in T : y <= x
<1> DEFINE D == {n - x : x \in T}
<1>1. D \in SUBSET Nat /\ D # {}
  OBVIOUS
<1>2. PICK d \in D : \A e \in D : ~(<<e, d>> \in OpToRel(<, Nat))
  BY <1>1, WFMin, NatLessThanWellFounded, Zenon
<1>3. \A e \in D : ~(e < d)
  <2> TAKE e \in D
  <2>1. ~(<<e, d>> \in OpToRel(<, Nat))
    BY <1>2, Zenon
  <2>2. e \in Nat /\ d \in Nat
    BY <1>1, <1>2
  <2> QED
    BY <2>1, <2>2, Zenon DEF OpToRel
<1>4. PICK x \in T : d = n - x
  BY <1>2
<1>5. ASSUME NEW y \in T PROVE y <= x
  <2>1. ~(n - y < n - x)
    BY <1>3, <1>4
  <2> QED
    BY <2>1
<1> QED
  BY <1>5

LEMMA SomeLast ==
  ASSUME ForProgram, NEW a, NEW i \in DOMAIN Headers, Covers(i, a)
  PROVE  \E k \in DOMAIN Headers : LastToCover(k, a)
<1> DEFINE T == {k \in DOMAIN Headers : Covers(k, a)}
<1>1. Len(Headers) \in Nat /\ T \in SUBSET (1 .. Len(Headers)) /\ T # {}
  BY HeadersAre
<1>2. \E x \in T : \A y \in T : y <= x
  <2> HIDE DEF T
  <2> QED
    BY <1>1, Greatest
<1> QED
  BY <1>2 DEF LastToCover

\* There is but one, so that both choices are of it.
LEMMA ExpectedIs ==
  ASSUME ForProgram, NEW a \in Int, NEW i \in DOMAIN Headers, LastToCover(i, a)
  PROVE  Expected(File, a) = ByteOf(i, a)
<1> DEFINE covers(j) == a - Headers[j].paddr \in 0 .. Headers[j].memsz - 1
           last == CHOOSE k \in DOMAIN Headers :
                     covers(k) /\ \A j \in DOMAIN Headers : covers(j) => j <= k
<1>1. \A j \in DOMAIN Headers : covers(j) <=> Covers(j, a)
  BY HeadersAre DEF Covers
<1>2. covers(i) /\ \A j \in DOMAIN Headers : covers(j) => j <= i
  BY <1>1 DEF LastToCover
<1>3. /\ last \in DOMAIN Headers /\ covers(last)
      /\ \A j \in DOMAIN Headers : covers(j) => j <= last
  <2> HIDE DEF covers
  <2> QED
    BY <1>2
<1>4. last = i
  <2> HIDE DEF covers, last
  <2> QED
    BY <1>2, <1>3, HeadersAre
<1>5. Expected(File, a) = LET at == a - Headers[last].paddr
                          IN IF at < Headers[last].filesz
                               THEN Headers[last].offset + at + 1 ELSE 0
  BY DEF Expected, Headers
<1> HIDE DEF last
<1> QED
  BY <1>4, <1>5 DEF ByteOf

LEMMA LastByteIs ==
  ASSUME ForProgram, image = read_elf(File), image # Error,
         NEW a \in Int, NEW i \in DOMAIN Headers, LastToCover(i, a)
  PROVE  LastByte(a) = ByteOf(i, a)
<1> DEFINE S == image.segments
           last == CHOOSE k \in DOMAIN S :
                     a \in Range_(S[k]) /\ \A j \in DOMAIN S : a \in Range_(S[j]) => j <= k
<1>1. DOMAIN S = DOMAIN Headers /\ \A j \in DOMAIN Headers : a \in Range_(S[j]) <=> Covers(j, a)
  BY SegmentsAre DEF Covers
<1>2. /\ i \in DOMAIN S /\ a \in Range_(S[i])
      /\ \A j \in DOMAIN S : a \in Range_(S[j]) => j <= i
  BY <1>1 DEF LastToCover
<1>3. /\ last \in DOMAIN S /\ a \in Range_(S[last])
      /\ \A j \in DOMAIN S : a \in Range_(S[j]) => j <= last
  <2> HIDE DEF S
  <2> QED
    BY <1>2
<1>4. last = i
  <2> HIDE DEF S, last
  <2> QED
    BY <1>1, <1>2, <1>3, HeadersAre
<1>5. LastByte(a) = S[last].data[a - S[last].address + 1]
  BY DEF LastByte
<1>6. S[i].data[a - S[i].address + 1] = ByteOf(i, a)
  BY <1>2, SegmentsAre
<1> HIDE DEF last, S
<1> QED
  BY <1>4, <1>5, <1>6

\* All of the program is in memory as the hart sees it: it is when the last byte to
\* cover an address is (R is a memory).
InPlace == \A a \in Covered(File) : ReadByte(a) = Expected(File, a)

LEMMA AllLast ==
  ASSUME ForProgram, NEW R,
         \A i \in DOMAIN Headers : \A a \in Int : LastToCover(i, a) => R[a] = ByteOf(i, a)
  PROVE  \A a \in Covered(File) : a \in Int /\ R[a] = Expected(File, a)
<1> SUFFICES ASSUME NEW a \in Covered(File) PROVE a \in Int /\ R[a] = Expected(File, a)
  OBVIOUS
<1>1. PICK h \in ToSet(Headers) : a \in h.paddr .. h.paddr + h.memsz - 1
  BY DEF Covered, Headers
<1>2. PICK i \in DOMAIN Headers : h = Headers[i]
  BY <1>1 DEF ToSet
<1>3. Covers(i, a) /\ a \in Int
  BY <1>1, <1>2, HeadersAre DEF Covers
<1>4. PICK k \in DOMAIN Headers : LastToCover(k, a)
  BY <1>3, SomeLast
<1> QED
  BY <1>3, <1>4, ExpectedIs

\* Both preloads leave the last byte that covers an address.
LEMMA PreloadedIs ==
  ASSUME ForProgram, image = read_elf(File), image # Error,
         NEW m, NEW base \in Int, NEW a \in Int, a - base \in DOMAIN m,
         NEW i \in DOMAIN Headers, LastToCover(i, a)
  PROVE  Preloaded(m, base)[a - base] = ByteOf(i, a)
<1>1. image.segments[i] \in ToSet(image.segments) /\ a \in Range_(image.segments[i])
  BY SegmentsAre DEF ToSet, LastToCover, Covers
<1>2. base + (a - base) = a
  OBVIOUS
<1>3. Preloaded(m, base)[a - base] = LastByte(a)
  BY <1>1, <1>2 DEF Preloaded
<1> QED
  BY <1>3, LastByteIs

-----------------------------------------------------------------------------
(* The ways to the entry: bytes over JTAG or the back door, while the ROM  *)
(* spins; bytes of the flash or of the line, which the ROM itself copies.  *)

FlashHolds     == \A i \in 1 .. StageBytes : i <= Len(File) => flash[i - 1] = File[i]
FlashCopied(n) == \A i \in 1 .. n : i <= Len(File) => memory.sram[i - 1] = File[i]
StageCopied(n) == \A i \in 1 .. n : memory.sram[i - 1] = UartStage(File)[i]
StageData      == {UartStage(File)[i] : i \in 1 .. StageBytes}
LineIsRest(n)  ==
  /\ line \in Seq(StageData) /\ Len(line) = StageBytes - n
  /\ \A k \in 1 .. StageBytes - n : line[k] = UartStage(File)[n + k]

\* cmd_load has put the byte of header i at a, and whatever it has put is there,
\* where no later header has put its own.
Put(i, a) ==
  /\ Covers(i, a)
  /\ i < bench.segment \/ (i = bench.segment /\ a - Headers[i].paddr < bench.offset)
PutInPlace ==
  \A i \in DOMAIN Headers : \A a \in Int :
    Put(i, a) /\ (\A j \in DOMAIN Headers : Put(j, a) => j <= i) => ReadByte(a) = ByteOf(i, a)

Given ==
  /\ command \in Commands /\ sram_base \in SramBases /\ ~Mixed
  /\ command.name \in {"qspiboot", "uartboot"} => sram_base = 0

Shapes ==
  /\ command.name \notin {"read", "write"} =>
       /\ DOMAIN memory = {"sram", "ext"}
       /\ DOMAIN memory.sram = 0 .. SramSize - 1 /\ DOMAIN memory.ext = 0 .. MemSize - 1
  /\ DOMAIN flash = 0 .. FlashSize - 1

ImageRead ==
  /\ bench.pc \in {"park", "poll", "load", "start"} /\ command.name \in {"load", "test"} =>
       image = read_elf(File) /\ image # Error /\ validate(image)
  /\ bench.pc \in {"boot", "send"} /\ command.name = "uartboot" => image = UartStage(File)

OwnStages ==
  /\ bench.pc = "flash" => command.name = "qspiboot"
  /\ bench.pc \in {"stage", "send"} => command.name = "uartboot"
  /\ bench.pc = "boot" => command.name \in {"qspiboot", "uartboot"}
  /\ bench.pc \in {"main", "read_elf", "range", "park", "poll"} =>
       bench.segment = 1 /\ bench.offset = 0

\* The ROM copies only what the straps say, which are set when it can.
Straps ==
  /\ boot_sel # 0 => command.name \in {"qspiboot", "uartboot"}
  /\ command.name = "uartboot" => boot_sel # 1
  /\ bench.pc \in {"flash", "stage", "boot"} => boot_sel = 0
  /\ hart.pc = "uart" => boot_sel \in {2, 3}
  /\ hart.pc = "qspi" => boot_sel = 1

FlashReady ==
  command.name = "qspiboot" /\ (bench.pc = "boot" \/ boot_sel # 0) => FlashHolds
LineReady ==
  /\ command.name # "uartboot" => line = <<>>
  /\ bench.pc \in {"main", "stage", "boot", "send"} \/ hart.pc = "rom" => line = <<>>

Copying ==
  /\ hart.pc = "qspi" => hart.a0 \in 0 .. StageBytes - 1 /\ FlashCopied(hart.a0)
  /\ hart.pc = "uart" /\ command.name = "uartboot" =>
       /\ hart.a0 \in 0 .. StageBytes - 1 /\ StageCopied(hart.a0)
       /\ (line = <<>> /\ hart.a0 = 0) \/ LineIsRest(hart.a0)

Loading ==
  /\ bench.pc = "load" =>
       /\ PutInPlace /\ bench.segment \in 1 .. Len(Headers) + 1 /\ bench.offset \in Nat
       /\ IF bench.segment \in DOMAIN Headers THEN bench.offset < Headers[bench.segment].memsz
          ELSE bench.offset = 0
  /\ bench.pc = "start" => InPlace

Entered(entry) ==
  \/ command.name \in {"load", "test"} /\ entry = File.entry /\ InPlace
  \/ command.name = "qspiboot" /\ FlashCopied(StageBytes)
  \/ command.name = "uartboot" /\ StageCopied(StageBytes)
Entering ==
  /\ hart.pc = "spin" /\ scratch # PARKED =>
       command.name \in {"load", "test"} /\ scratch = File.entry /\ InPlace
  /\ hart.pc = "jump" => Entered(hart.a0)

JInv == /\ Given /\ Shapes /\ ImageRead /\ OwnStages /\ Straps
        /\ FlashReady /\ LineReady /\ Copying /\ Loading /\ Entering

LEMMA InitJInv == Init => JInv
<1> SUFFICES ASSUME Init PROVE JInv
  OBVIOUS
<1> USE DEF Init, PowerOn
<1>1. Given
  BY DEF Given
<1>2. Shapes
  BY DEF Shapes
<1>3. ImageRead /\ OwnStages /\ Straps
  BY DEF ImageRead, OwnStages, Straps
<1>4. FlashReady /\ LineReady /\ Copying /\ Loading /\ Entering
  BY DEF FlashReady, LineReady, Copying, Loading, Entering
<1> QED
  BY <1>1, <1>2, <1>3, <1>4 DEF JInv

\* What is where depends on the command, the build and the memory alone.
LEMMA SameCommand ==
  ASSUME UNCHANGED <<command, sram_base>>, Given PROVE Given'
<1>1. Mixed' <=> Mixed
  BY DEF Mixed, File, is_external, InSram
<1> QED
  BY <1>1 DEF Given

LEMMA SameMemory ==
  ASSUME UNCHANGED <<command, sram_base, memory>>
  PROVE  /\ InPlace' <=> InPlace
         /\ \A n : FlashCopied(n)' <=> FlashCopied(n)
         /\ \A n : StageCopied(n)' <=> StageCopied(n)
         /\ \A e : Entered(e)' <=> Entered(e)
<1>1. InPlace' <=> InPlace
  BY DEF InPlace, File, ReadByte, InSram, InExt
<1>2. \A n : (FlashCopied(n)' <=> FlashCopied(n)) /\ (StageCopied(n)' <=> StageCopied(n))
  BY DEF FlashCopied, StageCopied, File
<1> QED
  BY <1>1, <1>2 DEF Entered, File

LEMMA SamePut ==
  ASSUME UNCHANGED <<command, sram_base, memory>>,
         bench'.segment = bench.segment, bench'.offset = bench.offset
  PROVE  PutInPlace' <=> PutInPlace
BY DEF PutInPlace, Put, Covers, ByteOf, Headers, File, ReadByte, InSram, InExt

\* A step of the command that leaves the SoC and the image alone.
LEMMA SocStays ==
  ASSUME IInv, JInv, UNCHANGED <<command, sram_base, memory, flash, line, scratch, boot_sel, hart>>,
         ImageRead', OwnStages', Straps', FlashReady', LineReady', Loading'
  PROVE  JInv'
<1>1. Given'
  BY SameCommand DEF JInv
<1>2. Shapes'
  BY DEF JInv, Shapes
<1>3. /\ InPlace' <=> InPlace
      /\ FlashCopied(hart.a0)' <=> FlashCopied(hart.a0)
      /\ StageCopied(hart.a0)' <=> StageCopied(hart.a0)
      /\ Entered(hart.a0)' <=> Entered(hart.a0)
  BY SameMemory
<1>4. LineIsRest(hart.a0)' <=> LineIsRest(hart.a0)
  BY DEF LineIsRest, StageData, File
<1>5. Copying'
  BY <1>3, <1>4 DEF JInv, Copying
<1>6. Entering'
  BY <1>3 DEF JInv, Entering, File
<1> QED
  BY <1>1, <1>2, <1>5, <1>6 DEF JInv

Later == {"access", "run", "wait", "result", "verdict", "done"}
LEMMA LaterStays ==
  ASSUME IInv, JInv, bench'.pc \in Later,
         UNCHANGED <<command, sram_base, memory, flash, line, scratch, boot_sel, hart>>
  PROVE  JInv'
<1> USE DEF Later
<1>1. ImageRead' /\ OwnStages' /\ Straps' /\ LineReady' /\ Loading'
  BY DEF JInv, ImageRead, OwnStages, Straps, LineReady, Loading
<1>2. FlashHolds' <=> FlashHolds
  BY DEF FlashHolds, File
<1>3. FlashReady'
  BY <1>2 DEF JInv, FlashReady
<1> QED
  BY <1>1, <1>3, SocStays

\* The SoC is reset, and its ROM starts.
LEMMA ResetStays ==
  ASSUME IInv, JInv, ResetSoc, UNCHANGED <<command, sram_base, memory, flash>>,
         ImageRead', OwnStages', Straps', FlashReady', LineReady', Loading'
  PROVE  JInv'
<1>1. Given'
  BY SameCommand DEF JInv
<1>2. Shapes'
  BY DEF JInv, Shapes
<1>3. hart'.pc = "rom"
  BY DEF ResetSoc
<1>4. Copying' /\ Entering'
  BY <1>3 DEF Copying, Entering
<1> QED
  BY <1>1, <1>2, <1>4 DEF JInv

-----------------------------------------------------------------------------
(* The command's steps that fill memory.                                   *)

LEMMA SameImage ==
  ASSUME UNCHANGED <<command, sram_base, image>>
  PROVE  /\ validate(image)' <=> validate(image)
         /\ read_elf(File)' = read_elf(File) /\ UartStage(File)' = UartStage(File)
BY DEF validate, SegmentInPlace, is_external, InSram, EntryOk, File

\* A byte over JTAG is there, and every other is as it was.
LEMMA WrittenIs ==
  ASSUME Shapes, Given, command.name \notin {"read", "write"}, UNCHANGED sram_base,
         NEW x \in Int, NEW b, InSram(x) \/ InExt(x), memory' = Written(x, b)
  PROVE  /\ DOMAIN memory' = {"sram", "ext"}
         /\ DOMAIN memory'.sram = 0 .. SramSize - 1 /\ DOMAIN memory'.ext = 0 .. MemSize - 1
         /\ ReadByte(x)' = b
         /\ \A a \in Int : a # x => ReadByte(a)' = ReadByte(a)
<1>1. sram_base \in Int /\ MemBase \in Int
  BY LayoutAssumption DEF Given
<1>2. CASE InSram(x)
  <2>1. memory' = [memory EXCEPT !.sram[x - sram_base] = b] /\ x - sram_base \in 0 .. SramSize - 1
    BY <1>2 DEF Written, InSram
  <2>2. /\ DOMAIN memory' = {"sram", "ext"} /\ memory'.ext = memory.ext
        /\ DOMAIN memory'.sram = 0 .. SramSize - 1
        /\ \A o \in 0 .. SramSize - 1 :
             memory'.sram[o] = IF o = x - sram_base THEN b ELSE memory.sram[o]
    BY <2>1 DEF Shapes
  <2>3. ReadByte(x)' = b
    BY <1>2, <2>1, <2>2 DEF ReadByte, InSram
  <2>4. ASSUME NEW a \in Int, a # x PROVE ReadByte(a)' = ReadByte(a)
    BY <1>1, <2>2, <2>4 DEF ReadByte, InSram, InExt
  <2> QED
    BY <2>2, <2>3, <2>4 DEF Shapes
<1>3. CASE ~InSram(x)
  <2>1. memory' = [memory EXCEPT !.ext[x - MemBase] = b] /\ x - MemBase \in 0 .. MemSize - 1
    BY <1>3 DEF Written, InExt
  <2>2. /\ DOMAIN memory' = {"sram", "ext"} /\ memory'.sram = memory.sram
        /\ DOMAIN memory'.ext = 0 .. MemSize - 1
        /\ \A o \in 0 .. MemSize - 1 :
             memory'.ext[o] = IF o = x - MemBase THEN b ELSE memory.ext[o]
    BY <2>1 DEF Shapes
  <2>3. ReadByte(x)' = b
    BY <1>3, <2>1, <2>2 DEF ReadByte, InSram, InExt
  <2>4. ASSUME NEW a \in Int, a # x PROVE ReadByte(a)' = ReadByte(a)
    BY <1>1, <2>2, <2>4 DEF ReadByte, InSram, InExt
  <2> QED
    BY <2>2, <2>3, <2>4 DEF Shapes
<1> QED
  BY <1>2, <1>3

\* Where the command is at "load" and "start": the image is the program's, and the
\* ROM spins.
LEMMA AtLoad ==
  ASSUME IInv, JInv, bench.pc \in {"load", "start"}
  PROVE  /\ ForProgram /\ command.name \in {"load", "test"}
         /\ image = read_elf(File) /\ image # Error /\ validate(image)
         /\ hart.pc = "spin" /\ boot_sel = 0
         /\ bench.pc = "load" => scratch = PARKED
<1>1. ForProgram /\ command.name \in {"load", "test"}
  BY DEF IInv, OwnSteps, JInv, Given, ForProgram
<1> QED
  BY <1>1 DEF IInv, RomParks, JInv, ImageRead

\* While the ROM spins on its mark, memory is the command's to change.
LEMMA Filled ==
  ASSUME IInv, JInv, bench.pc = "load", DOMAIN memory' = {"sram", "ext"},
         DOMAIN memory'.sram = 0 .. SramSize - 1, DOMAIN memory'.ext = 0 .. MemSize - 1,
         UNCHANGED <<command, sram_base, flash, line, scratch, boot_sel, hart, image>>,
         OwnStages', Loading', bench'.pc \in {"load", "start"}
  PROVE  JInv'
<1>1. /\ command.name \in {"load", "test"} /\ image = read_elf(File) /\ image # Error
      /\ validate(image) /\ hart.pc = "spin" /\ boot_sel = 0 /\ scratch = PARKED
  BY AtLoad
<1>2. Given'
  BY SameCommand DEF JInv
<1>3. Shapes'
  BY DEF JInv, Shapes
<1>4. ImageRead'
  BY <1>1, SameImage DEF ImageRead
<1>5. Straps' /\ FlashReady' /\ LineReady'
  BY <1>1 DEF JInv, Straps, FlashReady, LineReady
<1>6. Copying' /\ Entering'
  BY <1>1 DEF Copying, Entering
<1> QED
  BY <1>2, <1>3, <1>4, <1>5, <1>6 DEF JInv

LEMMA LoadByteStays ==
  ASSUME IInv, JInv, load_byte, UNCHANGED <<command, sram_base>>
  PROVE  JInv'
<1> USE DEF At
<1>1. /\ bench.pc = "load" /\ command.name = "load" /\ bench.segment <= Len(image.segments)
      /\ UNCHANGED <<flash, line, scratch, boot_sel, hart, image>>
  BY DEF load_byte
<1>2. ForProgram /\ image = read_elf(File) /\ image # Error
  BY <1>1, AtLoad
<1>3. /\ Len(Headers) \in Nat /\ DOMAIN Headers = 1 .. Len(Headers)
      /\ \A i \in DOMAIN Headers : Headers[i].paddr \in Int /\ Headers[i].memsz \in Nat \ {0}
  BY <1>2, HeadersAre
<1>4. /\ PutInPlace /\ bench.segment \in DOMAIN Headers /\ bench.offset \in Nat
      /\ bench.offset < Headers[bench.segment].memsz
  BY <1>1, <1>2, <1>3, SegmentsAre DEF JInv, Loading
<1>g. PICK g \in DOMAIN Headers, n \in Nat, p \in Int, size \in Nat \ {0} :
        /\ g = bench.segment /\ n = bench.offset
        /\ p = Headers[g].paddr /\ size = Headers[g].memsz /\ n < size
  BY <1>3, <1>4
<1> DEFINE x == p + n
           last == n + 1 = size
<1>x. x \in Int /\ g \in Int
  BY <1>3
<1>5. /\ image.segments[g].address = p /\ Len(image.segments[g].data) = size
      /\ image.segments[g].data[n + 1] = ByteOf(g, x)
  <2>1. x \in Range_(image.segments[g]) /\ image.segments[g].address = p
    BY <1>2, <1>g, SegmentsAre
  <2>2. x - p + 1 = n + 1
    OBVIOUS
  <2>3. Len(image.segments[g].data) = size
    BY <1>2, <1>g, SegmentsAre
  <2>4. image.segments[g].data[x - p + 1] = ByteOf(g, x)
    BY <1>2, <2>1, SegmentsAre
  <2> QED
    BY <2>1, <2>2, <2>3, <2>4
<1>6. CASE ~(InSram(x) \/ InExt(x))
  <2>1. Return(1) /\ UNCHANGED memory
    BY <1>g, <1>5, <1>6 DEF load_byte
  <2>2. bench'.pc = "done"
    BY <2>1, ReturnEnds DEF IInv
  <2> QED
    BY <1>1, <2>1, <2>2, LaterStays DEF Later
<1>7. CASE InSram(x) \/ InExt(x)
  <2>1. memory' = Written(x, ByteOf(g, x))
    BY <1>g, <1>5, <1>7 DEF load_byte
  <2>2. bench' = [bench EXCEPT !.segment = IF last THEN @ + 1 ELSE @,
                               !.offset = IF last THEN 0 ELSE @ + 1]
    BY <1>g, <1>5, <1>7 DEF load_byte
  <2>3. /\ bench'.pc = "load"
        /\ last => bench'.segment = g + 1 /\ bench'.offset = 0
        /\ ~last => bench'.segment = g /\ bench'.offset = n + 1
    BY <1>1, <1>g, <2>2 DEF IInv, IsRecords
  <2>4. /\ DOMAIN memory' = {"sram", "ext"}
        /\ DOMAIN memory'.sram = 0 .. SramSize - 1 /\ DOMAIN memory'.ext = 0 .. MemSize - 1
        /\ ReadByte(x)' = ByteOf(g, x)
        /\ \A a \in Int : a # x => ReadByte(a)' = ReadByte(a)
    <3> HIDE DEF x
    <3> QED
      BY <1>1, <1>x, <1>7, <2>1, WrittenIs DEF JInv
  <2>5. Headers' = Headers
    BY DEF Headers, File
  <2>6. ASSUME NEW i \in DOMAIN Headers, NEW a \in Int
        PROVE  Put(i, a)' <=> Put(i, a) \/ (i = g /\ a = x)
    <3>1. Headers[i].paddr \in Int /\ Headers[i].memsz \in Nat \ {0} /\ i \in Int
      BY <1>3
    <3>2. Put(i, a)' <=> /\ a \in Headers[i].paddr .. Headers[i].paddr + Headers[i].memsz - 1
                         /\ \/ i < bench'.segment
                            \/ i = bench'.segment /\ a - Headers[i].paddr < bench'.offset
      BY <2>5 DEF Put, Covers
    <3>3. Put(i, a) <=> /\ a \in Headers[i].paddr .. Headers[i].paddr + Headers[i].memsz - 1
                        /\ i < g \/ (i = g /\ a - Headers[i].paddr < n)
      BY <1>g DEF Put, Covers
    <3>4. CASE i = g
      <4>1. CASE last
        <5>1. /\ Put(i, a)' <=> a \in p .. p + size - 1
              /\ Put(i, a) <=> a \in p .. p + size - 1 /\ a - p < n
          BY <1>g, <1>x, <2>3, <3>2, <3>3, <3>4, <4>1
        <5>2. n = size - 1
          BY <4>1
        <5> QED
          BY <3>4, <5>1, <5>2
      <4>2. CASE ~last
        BY <1>g, <1>x, <2>3, <3>2, <3>3, <3>4, <4>2
      <4> QED
        BY <4>1, <4>2
    <3>5. CASE i # g
      <4>1. CASE last
        <5>1. bench'.segment = g + 1 /\ bench'.offset = 0
          BY <2>3, <4>1
        <5>2. Put(i, a)' <=> /\ a \in Headers[i].paddr .. Headers[i].paddr + Headers[i].memsz - 1
                             /\ i < g + 1 \/ (i = g + 1 /\ a - Headers[i].paddr < 0)
          BY <3>2, <5>1
        <5> QED
          BY <1>x, <3>1, <3>3, <3>5, <5>2
      <4>2. CASE ~last
        BY <1>g, <1>x, <2>3, <3>1, <3>2, <3>3, <3>5, <4>2
      <4> QED
        BY <4>1, <4>2
    <3> QED
      BY <3>4, <3>5
  <2>7. PutInPlace'
    <3> SUFFICES ASSUME NEW i \in DOMAIN Headers, NEW a \in Int, Put(i, a)',
                        \A j \in DOMAIN Headers : Put(j, a)' => j <= i
                 PROVE  ReadByte(a)' = ByteOf(i, a)
      BY <2>5 DEF PutInPlace, ByteOf
    <3>1. CASE a = x
      <4>1. Put(g, a)'
        BY <1>x, <2>6, <3>1
      <4>2. i = g \/ i < g
        BY <1>g, <2>6 DEF Put
      <4>3. i = g
        BY <1>3, <1>x, <4>1, <4>2
      <4> QED
        BY <2>4, <3>1, <4>3
    <3>2. CASE a # x
      <4>1. Put(i, a) /\ \A j \in DOMAIN Headers : Put(j, a) => j <= i
        BY <2>6, <3>2
      <4> QED
        BY <1>4, <2>4, <3>2, <4>1 DEF PutInPlace
    <3> QED
      BY <3>1, <3>2
  <2>8. Loading'
    <3>1. CASE last
      BY <1>3, <1>x, <2>3, <2>5, <2>7, <3>1 DEF Loading
    <3>2. CASE ~last
      <4>1. n + 1 \in Nat /\ n + 1 < size /\ g \in 1 .. Len(Headers) + 1
        BY <1>3, <1>g, <3>2
      <4> QED
        BY <1>g, <2>3, <2>5, <2>7, <3>2, <4>1 DEF Loading
    <3> QED
      BY <3>1, <3>2
  <2>9. OwnStages'
    BY <2>3 DEF OwnStages
  <2> QED
    BY <1>1, <2>3, <2>4, <2>8, <2>9, Filled
<1> QED
  BY <1>6, <1>7

\* The segments are loaded: each byte is put, the last to cover its address last.
LEMMA LoadedStays ==
  ASSUME IInv, JInv, loaded, UNCHANGED <<command, sram_base>>
  PROVE  JInv'
<1>1. /\ bench.pc = "load" /\ bench.segment > Len(image.segments) /\ Goto("start")
      /\ UNCHANGED <<memory, flash, line, scratch, boot_sel, hart, image>>
  BY DEF loaded, At, soc
<1>2. ForProgram /\ image = read_elf(File) /\ image # Error
  BY <1>1, AtLoad
<1>3. /\ Len(Headers) \in Nat /\ DOMAIN Headers = 1 .. Len(Headers)
      /\ Len(image.segments) = Len(Headers)
  BY <1>2, HeadersAre, SegmentsAre
<1>4. PutInPlace /\ bench.segment \in Nat
  BY <1>1, <1>3 DEF JInv, Loading
<1>5. \A i \in DOMAIN Headers : i < bench.segment
  BY <1>1, <1>3, <1>4
<1>6. \A i \in DOMAIN Headers : \A a : Put(i, a) <=> Covers(i, a)
  BY <1>5 DEF Put
<1> DEFINE R == [a \in Int |-> ReadByte(a)]
<1>7. \A i \in DOMAIN Headers : \A a \in Int : LastToCover(i, a) => R[a] = ByteOf(i, a)
  BY <1>4, <1>6 DEF PutInPlace, LastToCover
<1>8. \A a \in Covered(File) : a \in Int /\ R[a] = Expected(File, a)
  <2> HIDE DEF R
  <2> QED
    BY <1>2, <1>7, AllLast
<1>9. InPlace
  BY <1>8 DEF InPlace
<1>10. bench'.pc = "start"
  BY <1>1, GotoMoves DEF IInv
<1>11. DOMAIN memory = {"sram", "ext"} /\ DOMAIN memory.sram = 0 .. SramSize - 1
       /\ DOMAIN memory.ext = 0 .. MemSize - 1
  BY <1>1, AtLoad DEF JInv, Shapes
<1>12. Loading'
  BY <1>1, <1>9, <1>10, SameMemory DEF Loading
<1>13. OwnStages'
  BY <1>10 DEF OwnStages
<1> QED
  BY <1>1, <1>10, <1>11, <1>12, <1>13, Filled

LEMMA PreloadStays ==
  ASSUME IInv, JInv, preload, UNCHANGED <<command, sram_base>>
  PROVE  JInv'
<1> USE DEF At
<1>1. /\ bench.pc = "load" /\ command.name = "test"
      /\ UNCHANGED <<flash, line, scratch, boot_sel, hart, image>>
  BY DEF preload
<1>2. ForProgram /\ image = read_elf(File) /\ image # Error /\ validate(image)
  BY <1>1, AtLoad
<1>3. /\ \A i \in DOMAIN Headers : Headers[i].paddr \in Int /\ Headers[i].memsz \in Nat \ {0}
      /\ \A i \in DOMAIN Headers :
           /\ image.segments[i] \in ToSet(image.segments)
           /\ Range_(image.segments[i]) =
                Headers[i].paddr .. Headers[i].paddr + Headers[i].memsz - 1
  BY <1>2, HeadersAre, SegmentsAre DEF ToSet
<1>4. /\ sram_base \in Int /\ MemBase \in Int /\ SramSize \in Nat /\ MemSize \in Nat
      /\ sram_base >= MemBase \/ sram_base + SramSize <= MemBase
  BY LayoutAssumption DEF JInv, Given
<1>5. DOMAIN memory = {"sram", "ext"} /\ DOMAIN memory.sram = 0 .. SramSize - 1
      /\ DOMAIN memory.ext = 0 .. MemSize - 1
  BY <1>1 DEF JInv, Shapes
<1>6. CASE Return(1) /\ UNCHANGED memory
  <2>1. bench'.pc = "done"
    BY <1>6, ReturnEnds DEF IInv
  <2> QED
    BY <1>1, <1>6, <2>1, LaterStays DEF Later
<1>7. CASE Goto("start")
  <2>1. bench'.pc = "start"
    BY <1>7, GotoMoves DEF IInv
  <2> DEFINE R == [a \in Int |-> ReadByte(a)']
  <2>2. ASSUME DOMAIN memory' = {"sram", "ext"},
               DOMAIN memory'.sram = 0 .. SramSize - 1, DOMAIN memory'.ext = 0 .. MemSize - 1,
               \A i \in DOMAIN Headers : \A a \in Int : LastToCover(i, a) => R[a] = ByteOf(i, a)
        PROVE  JInv'
    <3>1. \A a \in Covered(File) : a \in Int /\ R[a] = Expected(File, a)
      <4> HIDE DEF R
      <4> QED
        BY <1>2, <2>2, AllLast
    <3>2. InPlace'
      BY <3>1 DEF InPlace, File
    <3>3. Loading' /\ OwnStages'
      BY <2>1, <3>2 DEF Loading, OwnStages
    <3> QED
      BY <1>1, <2>1, <2>2, <3>3, Filled
  <2>3. CASE is_external(image.entry)
    <3>1. PreloadFits(MemBase, MemSize)
      BY <1>7, <2>1, <2>3, ReturnEnds DEF IInv, preload
    <3>2. memory' = [memory EXCEPT !.ext = Preloaded(@, MemBase)]
      BY <2>3, <3>1 DEF preload
    <3>3. /\ DOMAIN memory' = {"sram", "ext"} /\ memory'.sram = memory.sram
          /\ memory'.ext = Preloaded(memory.ext, MemBase)
      BY <1>5, <3>2
    <3>4. DOMAIN memory'.ext = 0 .. MemSize - 1
      BY <1>5, <3>3 DEF Preloaded
    <3>5. ASSUME NEW i \in DOMAIN Headers, NEW a \in Int, LastToCover(i, a)
          PROVE  R[a] = ByteOf(i, a)
      <4>1. a \in Range_(image.segments[i])
        BY <1>3, <3>5 DEF LastToCover, Covers
      <4>2. a \in MemBase .. MemBase + MemSize - 1
        BY <1>3, <3>1, <4>1 DEF PreloadFits
      <4>3. ~InSram(a)
        <5>1. CASE sram_base >= MemBase
          BY <1>1, <1>2, <1>3, <2>3, <4>1, <5>1 DEF JInv, Given, Mixed
        <5>2. CASE sram_base + SramSize <= MemBase
          BY <1>4, <4>2, <5>2 DEF InSram
        <5> QED
          BY <1>4, <5>1, <5>2
      <4>4. a - MemBase \in 0 .. MemSize - 1
        BY <1>4, <4>2
      <4>5. ReadByte(a)' = memory'.ext[a - MemBase]
        BY <4>3, <4>4 DEF ReadByte, InSram, InExt
      <4> QED
        BY <1>2, <1>4, <1>5, <3>3, <3>5, <4>4, <4>5, PreloadedIs
    <3> QED
      BY <1>5, <2>2, <3>3, <3>4, <3>5
  <2>4. CASE ~is_external(image.entry)
    <3>1. memory' = [memory EXCEPT !.sram = Preloaded(@, sram_base)]
      BY <2>4 DEF preload
    <3>2. /\ DOMAIN memory' = {"sram", "ext"} /\ memory'.ext = memory.ext
          /\ memory'.sram = Preloaded(memory.sram, sram_base)
      BY <1>5, <3>1
    <3>3. DOMAIN memory'.sram = 0 .. SramSize - 1
      BY <1>5, <3>2 DEF Preloaded
    <3>4. ASSUME NEW i \in DOMAIN Headers, NEW a \in Int, LastToCover(i, a)
          PROVE  R[a] = ByteOf(i, a)
      <4>0. is_external(image.entry) = FALSE
        BY <2>4 DEF is_external
      <4>1. SegmentInPlace(image.segments[i], FALSE)
        BY <1>2, <1>3, <4>0 DEF validate
      <4>2. /\ image.segments[i].address = Headers[i].paddr
            /\ Last_(image.segments[i]) = Headers[i].paddr + Headers[i].memsz - 1
        BY <1>2, <1>3, SegmentsAre DEF Last_
      <4>3. a - sram_base \in 0 .. SramSize - 1
        BY <1>3, <1>4, <3>4, <4>1, <4>2 DEF SegmentInPlace, LastToCover, Covers
      <4>4. ReadByte(a)' = memory'.sram[a - sram_base]
        BY <4>3 DEF ReadByte, InSram
      <4> QED
        BY <1>2, <1>4, <1>5, <3>2, <3>4, <4>3, <4>4, PreloadedIs
    <3> QED
      BY <1>5, <2>2, <3>2, <3>3, <3>4
  <2> QED
    BY <2>3, <2>4
<1> QED
  BY <1>6, <1>7 DEF preload

-----------------------------------------------------------------------------
(* Every step of the command.                                              *)

LEMMA BenchKeepsJInv == IInv /\ JInv /\ Bench => JInv'
<1> SUFFICES ASSUME IInv, JInv, Bench PROVE JInv'
  OBVIOUS
<1> USE DEF soc, At
<1>0. UNCHANGED <<command, sram_base>> /\ IsRecords
  BY DEF Bench, IInv
<1>r. ASSUME NEW v, Return(v), UNCHANGED soc PROVE JInv'
  <2>1. bench'.pc = "done"
    BY <1>r, ReturnEnds DEF IInv
  <2> QED
    BY <1>0, <1>r, <2>1, LaterStays DEF Later
<1>g. ASSUME NEW pc \in Later, Goto(pc), UNCHANGED soc PROVE JInv'
  <2>1. bench'.pc = pc
    BY <1>0, <1>g, GotoMoves
  <2> QED
    BY <1>0, <1>g, <2>1, LaterStays
<1>1. CASE main
  <2>1. CASE command.name = "usage"
    BY <1>1, <1>r, <2>1 DEF main
  <2>2. CASE command.name # "usage"
    <3>1. /\ Goto(First(command.name)) /\ ResetSoc
          /\ UNCHANGED <<memory, flash, line, boot_sel, image>> /\ bench.pc = "main"
      BY <1>1, <2>2 DEF main
    <3>2. bench'.pc = First(command.name)
      BY <1>0, <3>1, GotoMoves
    <3>3. bench'.segment = 1 /\ bench'.offset = 0
      BY <1>0, <3>1 DEF Goto, IsRecords, JInv, OwnStages
    <3>4. /\ command.name \in {"load", "test"} => bench'.pc = "read_elf"
          /\ command.name = "qspiboot" => bench'.pc = "flash"
          /\ command.name = "uartboot" => bench'.pc = "stage"
          /\ command.name \in {"read", "write"} => bench'.pc = "range"
      BY <3>2 DEF First
    <3>5. command.name \in {"load", "test", "qspiboot", "uartboot", "read", "write"}
      BY <2>2 DEF IInv, OwnSteps, Names
    <3>6. boot_sel' = 0 /\ line' = <<>> /\ hart'.pc = "rom"
      BY <3>1 DEF IInv, RomParks, JInv, LineReady, ResetSoc
    <3>7. ImageRead' /\ OwnStages' /\ Straps' /\ FlashReady' /\ LineReady' /\ Loading'
      BY <1>0, <3>3, <3>4, <3>5, <3>6
         DEF ImageRead, OwnStages, Straps, FlashReady, LineReady, Loading
    <3> QED
      BY <1>0, <3>1, <3>7, ResetStays
  <2> QED
    BY <2>1, <2>2
<1>2. CASE read_image
  <2>1. CASE Return(1)
    BY <1>2, <1>r, <2>1 DEF read_image
  <2>2. CASE ~Return(1)
    <3>1. /\ image' = read_elf(File) /\ image' # Error /\ validate(image') /\ Goto("park")
          /\ UNCHANGED soc /\ bench.pc = "read_elf"
      BY <1>2, <2>2 DEF read_image
    <3>2. /\ bench'.pc = "park" /\ bench'.segment = bench.segment
          /\ bench'.offset = bench.offset
      BY <1>0, <3>1 DEF Goto, IsRecords
    <3>3. validate(image)'
      BY <1>0, <3>1 DEF validate, SegmentInPlace, is_external, InSram, EntryOk
    <3>4. ImageRead'
      BY <1>0, <3>1, <3>2, <3>3 DEF ImageRead, File
    <3>5. OwnStages' /\ Straps' /\ FlashReady' /\ LineReady' /\ Loading'
      <4>1. FlashHolds' <=> FlashHolds
        BY <1>0, <3>1 DEF FlashHolds, File
      <4> QED
        BY <1>0, <3>1, <3>2, <4>1
           DEF JInv, OwnStages, Straps, FlashReady, LineReady, Loading
    <3> QED
      BY <1>0, <3>1, <3>4, <3>5, SocStays
  <2> QED
    BY <2>1, <2>2
<1>3. CASE range
  <2>1. CASE Return(1)
    BY <1>3, <1>r, <2>1 DEF range
  <2>2. CASE Goto("park")
    <3>1. bench.pc = "range" /\ UNCHANGED <<soc, image>> /\ command.name \in {"read", "write"}
      BY <1>3 DEF range, IInv, OwnSteps
    <3>2. /\ bench'.pc = "park" /\ bench'.segment = bench.segment
          /\ bench'.offset = bench.offset
      BY <1>0, <2>2 DEF Goto, IsRecords
    <3>3. /\ ImageRead' /\ OwnStages' /\ Straps' /\ FlashReady' /\ LineReady' /\ Loading'
      BY <1>0, <3>1, <3>2
         DEF JInv, ImageRead, OwnStages, Straps, FlashReady, LineReady, Loading
    <3> QED
      BY <1>0, <3>1, <3>3, SocStays
  <2> QED
    BY <1>3, <2>1, <2>2 DEF range
<1>4. CASE park
  <2>1. /\ bench.pc = "park" /\ Goto("poll") /\ ResetSoc
        /\ UNCHANGED <<memory, flash, line, boot_sel, image>>
    BY <1>4 DEF park
  <2>2. /\ bench'.pc = "poll" /\ bench'.segment = bench.segment
        /\ bench'.offset = bench.offset
    BY <1>0, <2>1 DEF Goto, IsRecords
  <2>3. command.name \in {"load", "test", "read", "write"} /\ boot_sel = 0 /\ line = <<>>
    BY <2>1 DEF IInv, OwnSteps, RomParks, JInv, LineReady
  <2>4. hart'.pc = "rom"
    BY <2>1 DEF ResetSoc
  <2>5. ImageRead'
    BY <1>0, <2>1, <2>2, SameImage DEF JInv, ImageRead
  <2>6. OwnStages' /\ Straps' /\ FlashReady' /\ LineReady' /\ Loading'
    BY <1>0, <2>1, <2>2, <2>3, <2>4
       DEF JInv, OwnStages, Straps, FlashReady, LineReady, Loading
  <2> QED
    BY <1>0, <2>1, <2>5, <2>6, ResetStays
<1>5. CASE poll
  <2>1. bench.pc = "poll" /\ UNCHANGED <<soc, image>>
    BY <1>5 DEF poll
  <2>2. command.name \in {"load", "test", "read", "write"}
    BY <2>1 DEF IInv, OwnSteps
  <2>3. ASSUME bench'.pc \in {"poll", "load"}, bench'.segment = bench.segment,
               bench'.offset = bench.offset, bench'.pc = "load" => command.name \in {"load", "test"}
        PROVE  JInv'
    <3>1. ImageRead'
      BY <1>0, <2>1, <2>3, SameImage DEF JInv, ImageRead
    <3>2. OwnStages' /\ Straps' /\ FlashReady' /\ LineReady'
      BY <1>0, <2>1, <2>2, <2>3 DEF JInv, OwnStages, Straps, FlashReady, LineReady
    <3>3. Loading'
      <4>1. CASE bench'.pc = "poll"
        BY <4>1 DEF Loading
      <4>2. CASE bench'.pc = "load"
        <5>1. ForProgram
          BY <2>3, <4>2 DEF JInv, Given, ForProgram
        <5>2. /\ Len(Headers) \in Nat /\ DOMAIN Headers = 1 .. Len(Headers)
              /\ \A i \in DOMAIN Headers :
                   Headers[i].paddr \in Int /\ Headers[i].memsz \in Nat \ {0}
          BY <5>1, HeadersAre
        <5>3. bench.segment = 1 /\ bench.offset = 0
          BY <2>1 DEF JInv, OwnStages
        <5>4. PutInPlace
          <6>1. ASSUME NEW i \in DOMAIN Headers, NEW a \in Int PROVE ~Put(i, a)
            BY <5>2, <5>3 DEF Put, Covers
          <6> QED
            BY <6>1 DEF PutInPlace
        <5>5. PutInPlace' /\ Headers' = Headers
          BY <1>0, <2>1, <2>3, <5>4, SamePut DEF Headers, File
        <5> QED
          BY <2>3, <4>2, <5>2, <5>3, <5>5 DEF Loading
      <4> QED
        BY <2>3, <4>1, <4>2
    <3> QED
      BY <1>0, <2>1, <3>1, <3>2, <3>3, SocStays
  <2>4. CASE Goto(Then)
    <3>1. /\ bench'.pc = Then /\ bench'.segment = bench.segment
          /\ bench'.offset = bench.offset
      BY <1>0, <2>4 DEF Goto, IsRecords
    <3>2. CASE command.name \in {"read", "write"}
      <4>1. Then \in Later
        BY <3>2 DEF Then, Later
      <4> QED
        BY <1>g, <2>1, <2>4, <4>1
    <3>3. CASE command.name \in {"load", "test"}
      <4>1. Then = "load"
        BY <3>3 DEF Then
      <4> QED
        BY <2>3, <3>1, <3>3, <4>1
    <3> QED
      BY <2>2, <3>2, <3>3
  <2>5. CASE Return(1)
    BY <1>r, <2>1, <2>5
  <2>6. CASE bench' = [bench EXCEPT !.polls = @ + 1]
    <3>1. /\ bench'.pc = "poll" /\ bench'.segment = bench.segment
          /\ bench'.offset = bench.offset
      BY <1>0, <2>1, <2>6 DEF IsRecords
    <3> QED
      BY <2>3, <3>1
  <2> QED
    BY <1>5, <2>4, <2>5, <2>6 DEF poll
<1>6. CASE load_byte
  BY <1>0, <1>6, LoadByteStays
<1>7. CASE loaded
  BY <1>0, <1>7, LoadedStays
<1>8. CASE preload
  BY <1>0, <1>8, PreloadStays
<1>9. CASE start_image
  <2>1. /\ bench.pc = "start" /\ scratch' = image.entry
        /\ UNCHANGED <<memory, flash, line, boot_sel, hart, image>>
    BY <1>9 DEF start_image
  <2>2. bench'.pc \in Later
    BY <1>0, <1>9, GotoMoves DEF start_image, Later
  <2>3. /\ ForProgram /\ command.name \in {"load", "test"} /\ image = read_elf(File)
        /\ image # Error /\ hart.pc = "spin" /\ boot_sel = 0 /\ InPlace
    BY <2>1, AtLoad DEF JInv, Loading
  <2>4. scratch' = File.entry
    BY <2>1, <2>3, SegmentsAre
  <2>5. InPlace'
    BY <1>0, <2>1, <2>3, SameMemory
  <2>6. Given' /\ Shapes'
    BY <1>0, <2>1, SameCommand DEF JInv, Shapes
  <2>7. ImageRead' /\ OwnStages' /\ Straps' /\ FlashReady' /\ LineReady' /\ Loading'
    BY <1>0, <2>1, <2>2, <2>3
       DEF Later, JInv, ImageRead, OwnStages, Straps, FlashReady, LineReady, Loading
  <2>8. Copying' /\ Entering'
    BY <1>0, <2>1, <2>3, <2>4, <2>5 DEF Copying, Entering, File
  <2> QED
    BY <2>6, <2>7, <2>8 DEF JInv
<1>10. CASE run_cycles
  BY <1>10, <1>r DEF run_cycles
<1>11. CASE preload_flash
  <2>1. CASE Len(File) > FlashSize
    BY <1>11, <1>r, <2>1 DEF preload_flash
  <2>2. CASE ~(Len(File) > FlashSize)
    <3>1. /\ bench.pc = "flash" /\ Goto("boot")
          /\ flash' = [a \in DOMAIN flash |-> IF a < Len(File) THEN File[a + 1] ELSE flash[a]]
          /\ UNCHANGED <<memory, line, scratch, boot_sel, hart>>
      BY <1>11, <2>2 DEF preload_flash
    <3>2. bench'.pc = "boot" /\ command.name = "qspiboot" /\ boot_sel = 0
      BY <1>0, <3>1, GotoMoves DEF JInv, OwnStages, Straps
    <3>3. Len(File) \in Nat /\ FlashSize \in Nat /\ StageBytes \in Nat
      BY <3>2, FileAssumption, LayoutAssumption DEF JInv, Given, File
    <3>4. DOMAIN flash = 0 .. FlashSize - 1 /\ DOMAIN flash' = 0 .. FlashSize - 1
      BY <3>1 DEF JInv, Shapes
    <3>5. FlashHolds'
      <4>1. ASSUME NEW i \in 1 .. StageBytes, i <= Len(File) PROVE flash'[i - 1] = File[i]
        <5>1. i - 1 \in DOMAIN flash /\ i - 1 < Len(File) /\ (i - 1) + 1 = i
          BY <2>2, <3>3, <3>4, <4>1
        <5> QED
          BY <3>1, <5>1
      <4> QED
        BY <1>0, <4>1 DEF FlashHolds, File
    <3>6. Given' /\ Shapes'
      BY <1>0, <3>1, <3>4, SameCommand DEF JInv, Shapes
    <3>7. ImageRead' /\ OwnStages' /\ Straps' /\ FlashReady' /\ LineReady' /\ Loading'
      BY <1>0, <3>1, <3>2, <3>5
         DEF JInv, ImageRead, OwnStages, Straps, FlashReady, LineReady, Loading
    <3>8. Copying' /\ Entering'
      <4>1. /\ FlashCopied(hart.a0)' <=> FlashCopied(hart.a0)
            /\ Entered(hart.a0)' <=> Entered(hart.a0)
        BY <1>0, <3>1, SameMemory
      <4> QED
        BY <1>0, <3>1, <3>2, <4>1 DEF JInv, Copying, Entering
    <3> QED
      BY <3>6, <3>7, <3>8 DEF JInv
  <2> QED
    BY <2>1, <2>2
<1>12. CASE make_stage
  <2>1. CASE Len(File) > StageBytes
    BY <1>12, <1>r, <2>1 DEF make_stage
  <2>2. CASE ~(Len(File) > StageBytes)
    <3>1. bench.pc = "stage" /\ image' = UartStage(File) /\ Goto("boot") /\ UNCHANGED soc
      BY <1>12, <2>2 DEF make_stage
    <3>2. bench'.pc = "boot" /\ command.name = "uartboot" /\ boot_sel = 0 /\ line = <<>>
      BY <1>0, <3>1, GotoMoves DEF JInv, OwnStages, Straps, LineReady
    <3>3. ImageRead' /\ OwnStages' /\ Straps' /\ FlashReady' /\ LineReady' /\ Loading'
      BY <1>0, <3>1, <3>2
         DEF JInv, ImageRead, OwnStages, Straps, FlashReady, LineReady, Loading, File
    <3> QED
      BY <1>0, <3>1, <3>3, SocStays
  <2> QED
    BY <2>1, <2>2
<1>13. CASE boot
  <2>1. /\ bench.pc = "boot" /\ boot_sel' = command.boot_sel /\ ResetSoc
        /\ Goto(IF command.name = "uartboot" THEN "send" ELSE "wait")
        /\ UNCHANGED <<memory, flash, line, image>>
    BY <1>13 DEF boot
  <2>2. /\ bench'.pc = IF command.name = "uartboot" THEN "send" ELSE "wait"
        /\ hart'.pc = "rom"
    BY <1>0, <2>1, GotoMoves DEF ResetSoc
  <2>3. /\ command.name \in {"qspiboot", "uartboot"} /\ line = <<>>
        /\ command.name = "uartboot" => image = UartStage(File)
        /\ command.name = "qspiboot" => FlashHolds
    BY <2>1 DEF JInv, OwnStages, LineReady, ImageRead, FlashReady
  <2>4. command.name = "uartboot" => boot_sel' # 1
    BY <2>1, FileAssumption DEF JInv, Given
  <2>5. FlashHolds' <=> FlashHolds
    BY <1>0, <2>1 DEF FlashHolds, File
  <2>6. ImageRead' /\ OwnStages' /\ Straps' /\ FlashReady' /\ LineReady' /\ Loading'
    BY <1>0, <2>1, <2>2, <2>3, <2>4, <2>5
       DEF ImageRead, OwnStages, Straps, FlashReady, LineReady, Loading, File
  <2> QED
    BY <1>0, <2>1, <2>6, ResetStays
<1>14. CASE send
  <2>1. /\ bench.pc = "send" /\ hart.pc # "rom" /\ line' = image /\ Goto("wait")
        /\ UNCHANGED <<memory, flash, scratch, boot_sel, hart, image>>
    BY <1>14 DEF send
  <2>2. bench'.pc \in Later
    BY <1>0, <2>1, GotoMoves DEF Later
  <2>3. command.name = "uartboot" /\ line = <<>> /\ image = UartStage(File)
    BY <2>1 DEF JInv, OwnStages, LineReady, ImageRead
  <2>4. Given' /\ Shapes'
    BY <1>0, <2>1, SameCommand DEF JInv, Shapes
  <2>5. ImageRead' /\ OwnStages' /\ Straps' /\ FlashReady' /\ LineReady' /\ Loading'
    BY <1>0, <2>1, <2>2, <2>3
       DEF Later, JInv, ImageRead, OwnStages, Straps, FlashReady, LineReady, Loading
  <2>6. /\ FlashCopied(hart.a0)' <=> FlashCopied(hart.a0)
        /\ StageCopied(hart.a0)' <=> StageCopied(hart.a0)
        /\ Entered(hart.a0)' <=> Entered(hart.a0)
    BY <1>0, <2>1, SameMemory
  <2>7. Copying'
    <3>1. hart.pc # "qspi"
      BY <2>3 DEF JInv, Straps
    <3>2. CASE hart.pc = "uart"
      <4>1. /\ hart.a0 \in 0 .. StageBytes - 1 /\ StageCopied(hart.a0)
            /\ (line = <<>> /\ hart.a0 = 0) \/ LineIsRest(hart.a0)
        BY <2>3, <3>2 DEF JInv, Copying
      <4>2. ~LineIsRest(hart.a0)
        <5>1. StageBytes - hart.a0 # 0
          BY <4>1, LayoutAssumption
        <5> QED
          BY <2>3, <5>1 DEF LineIsRest
      <4>3. hart.a0 = 0
        BY <4>1, <4>2
      <4>4. StageBytes - 0 = StageBytes /\ \A k \in 1 .. StageBytes : 0 + k = k
        BY LayoutAssumption
      <4>5. image \in Seq(StageData) /\ Len(image) = StageBytes
        BY <2>3, LayoutAssumption DEF UartStage, StageData
      <4>6. LineIsRest(hart.a0)'
        BY <1>0, <2>1, <2>3, <4>3, <4>4, <4>5 DEF LineIsRest, StageData, File
      <4> QED
        BY <2>1, <2>6, <3>2, <4>1, <4>6 DEF Copying
    <3> QED
      BY <2>1, <3>1, <3>2 DEF Copying
  <2>8. Entering'
    BY <1>0, <2>1, <2>3, <2>6 DEF JInv, Entering
  <2> QED
    BY <2>4, <2>5, <2>7, <2>8 DEF JInv
<1>15. CASE wait
  BY <1>15, <1>g DEF wait, Later
<1>16. CASE read_result
  <2>1. bench'.pc \in Later
    BY <1>0, <1>16 DEF read_result, IsRecords, Later
  <2> QED
    BY <1>0, <1>16, <2>1, LaterStays DEF read_result
<1>17. CASE verdict
  BY <1>17, <1>r DEF verdict
<1>18. CASE access
  <2>1. PICK v : Return(v)
    BY <1>18 DEF access
  <2>2. bench'.pc = "done" /\ command.name \in {"read", "write"}
    BY <1>0, <1>18, <2>1, ReturnEnds DEF access, IInv, OwnSteps
  <2>3. UNCHANGED <<flash, line, scratch, boot_sel, hart, image>>
    BY <1>18 DEF access
  <2>4. Given' /\ Shapes'
    BY <1>0, <2>2, <2>3, SameCommand DEF JInv, Shapes
  <2>5. ImageRead' /\ OwnStages' /\ Straps' /\ FlashReady' /\ LineReady' /\ Loading'
    BY <1>0, <2>2, <2>3
       DEF JInv, ImageRead, OwnStages, Straps, FlashReady, LineReady, Loading
  <2>6. hart.pc \notin {"qspi", "uart", "jump"} /\ ~(hart.pc = "spin" /\ scratch # PARKED)
    BY <2>2 DEF JInv, Straps, Entering, Entered
  <2>7. Copying' /\ Entering'
    BY <2>3, <2>6 DEF Copying, Entering
  <2> QED
    BY <2>4, <2>5, <2>7 DEF JInv
<1>19. CASE throw
  BY <1>19, <1>r DEF throw
<1> QED
  BY <1>1, <1>2, <1>3, <1>4, <1>5, <1>6, <1>7, <1>8, <1>9, <1>10, <1>11, <1>12, <1>13,
     <1>14, <1>15, <1>16, <1>17, <1>18, <1>19 DEF Bench, Step

-----------------------------------------------------------------------------
(* Every step of the hart.                                                 *)

\* A byte that the ROM stores, behind those it has stored.
LEMMA StoredIs ==
  ASSUME Shapes, command.name \in {"qspiboot", "uartboot"}, NEW b, Store(b),
         hart.a0 \in 0 .. StageBytes - 1
  PROVE  /\ DOMAIN memory' = {"sram", "ext"}
         /\ DOMAIN memory'.sram = 0 .. SramSize - 1 /\ DOMAIN memory'.ext = 0 .. MemSize - 1
         /\ memory'.sram[hart.a0] = b
         /\ \A o \in 0 .. hart.a0 - 1 : memory'.sram[o] = memory.sram[o]
<1>1. hart.a0 \in 0 .. SramSize - 1
  BY LayoutAssumption
<1>2. memory' = [memory EXCEPT !.sram[hart.a0] = b]
  BY DEF Store
<1>3. /\ DOMAIN memory = {"sram", "ext"} /\ DOMAIN memory.sram = 0 .. SramSize - 1
      /\ DOMAIN memory.ext = 0 .. MemSize - 1
  BY DEF Shapes
<1>4. /\ DOMAIN memory' = {"sram", "ext"} /\ memory'.ext = memory.ext
      /\ memory'.sram = [memory.sram EXCEPT ![hart.a0] = b]
  BY <1>2, <1>3
<1>5. SramSize \in Nat /\ hart.a0 \in Int
  BY LayoutAssumption
<1> QED
  BY <1>1, <1>3, <1>4, <1>5

\* It goes on to the next, or jumps after the last.
LEMMA AdvanceMoves ==
  ASSUME IsRecords, Advance, hart.a0 \in 0 .. StageBytes - 1, hart.pc \in {"uart", "qspi"}
  PROVE  \/ hart'.pc = "jump" /\ hart.a0 + 1 = StageBytes
         \/ /\ hart'.pc = hart.pc /\ hart'.a0 = hart.a0 + 1
            /\ hart.a0 + 1 \in 0 .. StageBytes - 1
<1>1. StageBytes \in Nat
  BY LayoutAssumption
<1>2. CASE hart.a0 + 1 = StageBytes
  BY <1>2 DEF Advance
<1>3. CASE hart.a0 + 1 # StageBytes
  BY <1>1, <1>3 DEF Advance, IsRecords
<1> QED
  BY <1>2, <1>3

\* The first byte of the line, and what is left of it.
LEMMA LineMoves ==
  ASSUME NEW n \in 0 .. StageBytes - 1, LineIsRest(n)
  PROVE  /\ Head(line) = UartStage(File)[n + 1]
         /\ Tail(line) \in Seq(StageData) /\ Len(Tail(line)) = StageBytes - (n + 1)
         /\ \A k \in 1 .. StageBytes - (n + 1) : Tail(line)[k] = UartStage(File)[n + 1 + k]
<1>1. StageBytes \in Nat /\ StageBytes - n \in Nat \ {0}
  BY LayoutAssumption
<1>2. /\ line \in Seq(StageData) /\ Len(line) = StageBytes - n
      /\ \A k \in 1 .. StageBytes - n : line[k] = UartStage(File)[n + k]
  BY DEF LineIsRest
<1>3. Head(line) = line[1] /\ 1 \in 1 .. StageBytes - n
  BY <1>1, <1>2
<1>4. /\ Tail(line) \in Seq(StageData) /\ Len(Tail(line)) = Len(line) - 1
      /\ \A k \in 1 .. Len(line) - 1 : Tail(line)[k] = line[k + 1]
  BY <1>1, <1>2
<1>5. Len(line) - 1 = StageBytes - (n + 1)
  BY <1>1, <1>2
<1>6. ASSUME NEW k \in 1 .. StageBytes - (n + 1)
      PROVE  Tail(line)[k] = UartStage(File)[n + 1 + k]
  <2>1. k + 1 \in 1 .. StageBytes - n /\ n + (k + 1) = n + 1 + k
    BY <1>1
  <2> QED
    BY <1>2, <1>4, <1>5, <2>1
<1> QED
  BY <1>2, <1>3, <1>4, <1>5, <1>6

\* A step of the hart that leaves memory and the line alone, and does not copy.
LEMMA HartMoves ==
  ASSUME IInv, JInv, UNCHANGED <<command, sram_base, bench, image, memory, flash, line, boot_sel>>,
         hart'.pc \notin {"rom", "uart", "qspi"}, Entering'
  PROVE  JInv'
<1>1. Given' /\ Shapes'
  BY SameCommand DEF JInv, Shapes
<1>2. ImageRead'
  BY SameImage DEF JInv, ImageRead
<1>3. OwnStages' /\ Straps' /\ LineReady' /\ Copying'
  BY DEF JInv, OwnStages, Straps, LineReady, Copying
<1>4. FlashReady'
  BY DEF JInv, FlashReady, FlashHolds, File
<1>5. Loading'
  <2>1. (InPlace' <=> InPlace) /\ (PutInPlace' <=> PutInPlace) /\ Headers' = Headers
    BY SameMemory, SamePut DEF Headers, File
  <2> QED
    BY <2>1 DEF JInv, Loading
<1> QED
  BY <1>1, <1>2, <1>3, <1>4, <1>5 DEF JInv

\* A step of the hart that copies a byte.
LEMMA HartCopies ==
  ASSUME IInv, JInv, command.name \in {"qspiboot", "uartboot"}, hart.pc \in {"uart", "qspi"},
         hart'.pc \in {hart.pc, "jump"},
         UNCHANGED <<command, sram_base, bench, image, flash, boot_sel>>,
         DOMAIN memory' = {"sram", "ext"}, DOMAIN memory'.sram = 0 .. SramSize - 1,
         DOMAIN memory'.ext = 0 .. MemSize - 1,
         LineReady', Copying', Entering'
  PROVE  JInv'
<1>1. Given' /\ Shapes'
  BY SameCommand DEF JInv, Shapes
<1>2. ImageRead'
  BY SameImage DEF JInv, ImageRead
<1>3. OwnStages' /\ Straps'
  BY DEF JInv, OwnStages, Straps
<1>4. FlashReady'
  BY DEF JInv, FlashReady, FlashHolds, File
<1>5. Loading'
  BY DEF IInv, OwnSteps, Loading
<1> QED
  BY <1>1, <1>2, <1>3, <1>4, <1>5 DEF JInv

LEMMA HartKeepsJInv == IInv /\ JInv /\ Hart => JInv'
<1> SUFFICES ASSUME IInv, JInv, Hart PROVE JInv'
  OBVIOUS
<1> USE DEF HartAt, HartGoto
<1>0. /\ UNCHANGED <<command, sram_base, bench, image, flash, boot_sel>> /\ IsRecords
      /\ StageBytes \in Nat \ {0}
  BY LayoutAssumption DEF Hart, IInv
<1>1. CASE rom_select
  <2>1. /\ hart.pc = "rom" /\ hart'.a0 = 0
        /\ hart'.pc = IF boot_sel \in {2, 3} THEN "uart" ELSE IF boot_sel = 1 THEN "qspi" ELSE "park"
        /\ UNCHANGED <<memory, line, scratch>>
    BY <1>1 DEF rom_select
  <2>2. line = <<>>
    BY <2>1 DEF JInv, LineReady
  <2>3. Given' /\ Shapes'
    BY <1>0, <2>1, SameCommand DEF JInv, Shapes
  <2>4. ImageRead'
    BY <1>0, SameImage DEF JInv, ImageRead
  <2>5. OwnStages' /\ Straps' /\ LineReady' /\ Entering'
    BY <1>0, <2>1, <2>2 DEF JInv, OwnStages, Straps, LineReady, Entering
  <2>6. FlashReady'
    BY <1>0 DEF JInv, FlashReady, FlashHolds, File
  <2>7. Copying'
    <3>1. hart'.a0 \in 0 .. StageBytes - 1
      BY <1>0, <2>1
    <3>2. FlashCopied(hart.a0)' /\ StageCopied(hart.a0)'
      BY <2>1 DEF FlashCopied, StageCopied
    <3> QED
      BY <2>1, <2>2, <3>1, <3>2 DEF Copying
  <2>8. Loading'
    <3>1. (InPlace' <=> InPlace) /\ (PutInPlace' <=> PutInPlace) /\ Headers' = Headers
      BY <1>0, <2>1, SameMemory, SamePut DEF Headers, File
    <3> QED
      BY <1>0, <3>1 DEF JInv, Loading
  <2> QED
    BY <2>3, <2>4, <2>5, <2>6, <2>7, <2>8 DEF JInv
<1>2. CASE rom_park
  BY <1>0, <1>2, HartMoves DEF rom_park, Entering
<1>3. CASE rom_jump
  <2>1. /\ hart.pc = "spin" /\ scratch # PARKED /\ hart'.pc = "jump" /\ hart'.a0 = scratch
        /\ UNCHANGED <<memory, line, scratch>>
    BY <1>3 DEF rom_jump
  <2>2. command.name \in {"load", "test"} /\ scratch = File.entry /\ InPlace
    BY <2>1 DEF JInv, Entering
  <2>3. InPlace'
    BY <1>0, <2>1, <2>2, SameMemory
  <2>4. Entering'
    BY <1>0, <2>1, <2>2, <2>3 DEF Entering, Entered, File
  <2> QED
    BY <1>0, <2>1, <2>4, HartMoves
<1>4. CASE rom_uart
  <2>1. /\ hart.pc = "uart" /\ line # <<>> /\ Store(Head(line)) /\ Advance
        /\ line' = Tail(line) /\ UNCHANGED scratch
    BY <1>4 DEF rom_uart
  <2>2. command.name = "uartboot"
    BY <2>1 DEF JInv, LineReady
  <2>3. hart.a0 \in 0 .. StageBytes - 1 /\ StageCopied(hart.a0) /\ LineIsRest(hart.a0)
    BY <2>1, <2>2 DEF JInv, Copying
  <2>g. PICK n \in 0 .. StageBytes - 1 : n = hart.a0
    BY <2>3
  <2>4. /\ DOMAIN memory' = {"sram", "ext"}
        /\ DOMAIN memory'.sram = 0 .. SramSize - 1 /\ DOMAIN memory'.ext = 0 .. MemSize - 1
        /\ memory'.sram[n] = Head(line)
        /\ \A o \in 0 .. n - 1 : memory'.sram[o] = memory.sram[o]
    BY <2>1, <2>2, <2>3, <2>g, StoredIs DEF JInv
  <2>5. /\ Head(line) = UartStage(File)[n + 1]
        /\ Tail(line) \in Seq(StageData) /\ Len(Tail(line)) = StageBytes - (n + 1)
        /\ \A k \in 1 .. StageBytes - (n + 1) : Tail(line)[k] = UartStage(File)[n + 1 + k]
    BY <2>3, <2>g, LineMoves
  <2>6. StageCopied(n + 1)' /\ LineIsRest(n + 1)'
    <3>1. ASSUME NEW i \in 1 .. n + 1 PROVE memory'.sram[i - 1] = UartStage(File)[i]
      <4>1. CASE i = n + 1
        BY <2>4, <2>5, <4>1
      <4>2. CASE i # n + 1
        <5>1. i \in 1 .. n /\ i - 1 \in 0 .. n - 1
          BY <4>2
        <5> QED
          BY <2>3, <2>4, <2>g, <5>1 DEF StageCopied
      <4> QED
        BY <4>1, <4>2
    <3>2. LineIsRest(n + 1)'
      BY <1>0, <2>1, <2>5 DEF LineIsRest, StageData, File
    <3> QED
      BY <1>0, <3>1, <3>2 DEF StageCopied, File
  <2>7. \/ hart'.pc = "jump" /\ n + 1 = StageBytes
        \/ hart'.pc = "uart" /\ hart'.a0 = n + 1 /\ n + 1 \in 0 .. StageBytes - 1
    BY <1>0, <2>1, <2>3, <2>g, AdvanceMoves
  <2>8. LineReady'
    BY <1>0, <2>1, <2>2, <2>7 DEF JInv, LineReady
  <2>9. Copying' /\ Entering'
    <3>1. CASE hart'.pc = "jump" /\ n + 1 = StageBytes
      <4>1. StageCopied(StageBytes)'
        BY <2>6, <3>1 DEF StageCopied
      <4> QED
        BY <1>0, <2>2, <3>1, <4>1 DEF Copying, Entering, Entered
    <3>2. CASE hart'.pc = "uart" /\ hart'.a0 = n + 1 /\ n + 1 \in 0 .. StageBytes - 1
      <4>1. StageCopied(hart.a0)' /\ LineIsRest(hart.a0)'
        BY <2>6, <3>2 DEF StageCopied, LineIsRest, StageData
      <4> QED
        BY <3>2, <4>1 DEF Copying, Entering
    <3> QED
      BY <2>7, <3>1, <3>2
  <2> QED
    BY <1>0, <2>1, <2>2, <2>4, <2>7, <2>8, <2>9, HartCopies
<1>5. CASE rom_qspi
  <2>1. /\ hart.pc = "qspi" /\ Store(flash[hart.a0]) /\ Advance
        /\ UNCHANGED <<line, scratch>>
    BY <1>5 DEF rom_qspi
  <2>2. command.name = "qspiboot" /\ FlashHolds
    BY <2>1 DEF JInv, Straps, FlashReady
  <2>3. hart.a0 \in 0 .. StageBytes - 1 /\ FlashCopied(hart.a0)
    BY <2>1 DEF JInv, Copying
  <2>g. PICK n \in 0 .. StageBytes - 1 : n = hart.a0
    BY <2>3
  <2>4. /\ DOMAIN memory' = {"sram", "ext"}
        /\ DOMAIN memory'.sram = 0 .. SramSize - 1 /\ DOMAIN memory'.ext = 0 .. MemSize - 1
        /\ memory'.sram[n] = flash[n]
        /\ \A o \in 0 .. n - 1 : memory'.sram[o] = memory.sram[o]
    BY <2>1, <2>2, <2>3, <2>g, StoredIs DEF JInv
  <2>5. FlashCopied(n + 1)'
    <3>1. ASSUME NEW i \in 1 .. n + 1, i <= Len(File) PROVE memory'.sram[i - 1] = File[i]
      <4>1. CASE i = n + 1
        <5>1. i \in 1 .. StageBytes /\ i - 1 = n
          BY <1>0, <4>1
        <5> QED
          BY <2>2, <2>4, <3>1, <5>1 DEF FlashHolds
      <4>2. CASE i # n + 1
        <5>1. i \in 1 .. n /\ i - 1 \in 0 .. n - 1
          BY <4>2
        <5> QED
          BY <2>3, <2>4, <2>g, <3>1, <5>1 DEF FlashCopied
      <4> QED
        BY <4>1, <4>2
    <3> QED
      BY <1>0, <3>1 DEF FlashCopied, File
  <2>6. \/ hart'.pc = "jump" /\ n + 1 = StageBytes
        \/ hart'.pc = "qspi" /\ hart'.a0 = n + 1 /\ n + 1 \in 0 .. StageBytes - 1
    BY <1>0, <2>1, <2>3, <2>g, AdvanceMoves
  <2>7. LineReady'
    BY <1>0, <2>1, <2>2, <2>6 DEF JInv, LineReady
  <2>8. Copying' /\ Entering'
    <3>1. CASE hart'.pc = "jump" /\ n + 1 = StageBytes
      <4>1. FlashCopied(StageBytes)'
        BY <2>5, <3>1 DEF FlashCopied
      <4> QED
        BY <1>0, <2>2, <3>1, <4>1 DEF Copying, Entering, Entered
    <3>2. CASE hart'.pc = "qspi" /\ hart'.a0 = n + 1 /\ n + 1 \in 0 .. StageBytes - 1
      <4>1. FlashCopied(hart.a0)'
        BY <2>5, <3>2 DEF FlashCopied
      <4> QED
        BY <3>2, <4>1 DEF Copying, Entering
    <3> QED
      BY <2>6, <3>1, <3>2
  <2> QED
    BY <1>0, <2>1, <2>2, <2>4, <2>6, <2>7, <2>8, HartCopies
<1>6. CASE enter
  BY <1>0, <1>6, HartMoves DEF enter, Entering
<1>7. CASE Program
  <2>1. hart'.pc \in {"run", "halted", "park"} /\ UNCHANGED <<memory, line>>
    BY <1>7 DEF Program, report, halt, trap
  <2> QED
    BY <1>0, <2>1, HartMoves DEF Entering
<1> QED
  BY <1>1, <1>2, <1>3, <1>4, <1>5, <1>6, <1>7 DEF Hart, Rom

LEMMA ImageInvariance == Spec => [](IInv /\ JInv)
<1>1. IInv /\ JInv /\ [Next]_vars => JInv'
  <2> SUFFICES ASSUME IInv, JInv, [Next]_vars PROVE JInv'
    OBVIOUS
  <2>1. CASE Bench
    BY <2>1, BenchKeepsJInv
  <2>2. CASE Hart
    BY <2>2, HartKeepsJInv
  <2>3. CASE UNCHANGED vars
    <3>1. UNCHANGED <<command, sram_base, bench, image, memory, flash, line, scratch,
                      boot_sel, hart>>
      BY <2>3 DEF vars
    <3>2. ImageRead'
      BY <3>1, SameImage DEF JInv, ImageRead
    <3>3. OwnStages' /\ Straps' /\ LineReady'
      BY <3>1 DEF JInv, OwnStages, Straps, LineReady
    <3>4. FlashReady'
      BY <3>1 DEF JInv, FlashReady, FlashHolds, File
    <3>5. Loading'
      <4>1. (InPlace' <=> InPlace) /\ (PutInPlace' <=> PutInPlace) /\ Headers' = Headers
        BY <3>1, SameMemory, SamePut DEF Headers, File
      <4> QED
        BY <3>1, <4>1 DEF JInv, Loading
    <3> QED
      BY <3>1, <3>2, <3>3, <3>4, <3>5, SocStays
  <2> QED
    BY <2>1, <2>2, <2>3 DEF Next
<1> QED
  BY Invariance, InitJInv, <1>1, PTL DEF Spec

\* tb_soc_main.cpp:283 (cmd_load, cmd_test), zsbl.S (uart, qspi): for any file but
\* those Mixed leaves out, any memories and any interleaving of the command with the
\* ROM, the hart enters a program only when all of it is in memory.
THEOREM ImageIsEntered == Spec => JumpsIntoImage
<1>1. JInv /\ [Next]_vars =>
        [hart.pc = "jump" /\ hart'.pc = "run" =>
           CASE command.name \in {"load", "test"} ->
                  /\ hart.a0 = File.entry
                  /\ \A a \in Covered(File) : ReadByte(a) = Expected(File, a)
             [] command.name = "qspiboot" ->
                  \A i \in 1 .. StageBytes : i <= Len(File) => memory.sram[i - 1] = File[i]
             [] command.name = "uartboot" ->
                  \A i \in 1 .. StageBytes :
                    memory.sram[i - 1] = IF i > PatternStart THEN 100 + i
                                         ELSE IF i <= Len(File) THEN File[i] ELSE 0
             [] OTHER -> FALSE]_vars
  <2> SUFFICES ASSUME JInv, hart.pc = "jump"
               PROVE  CASE command.name \in {"load", "test"} ->
                             /\ hart.a0 = File.entry
                             /\ \A a \in Covered(File) : ReadByte(a) = Expected(File, a)
                        [] command.name = "qspiboot" ->
                             \A i \in 1 .. StageBytes :
                               i <= Len(File) => memory.sram[i - 1] = File[i]
                        [] command.name = "uartboot" ->
                             \A i \in 1 .. StageBytes :
                               memory.sram[i - 1] = IF i > PatternStart THEN 100 + i
                                                    ELSE IF i <= Len(File) THEN File[i] ELSE 0
                        [] OTHER -> FALSE
    OBVIOUS
  <2>1. Entered(hart.a0)
    BY DEF JInv, Entering
  <2>2. CASE command.name \in {"load", "test"}
    BY <2>1, <2>2 DEF Entered, InPlace
  <2>3. CASE command.name = "qspiboot"
    BY <2>1, <2>3 DEF Entered, FlashCopied
  <2>4. CASE command.name = "uartboot"
    BY <2>1, <2>4 DEF Entered, StageCopied, UartStage
  <2> QED
    BY <2>1, <2>2, <2>3, <2>4 DEF Entered
<1> QED
  BY ImageInvariance, <1>1, PTL DEF Spec, JumpsIntoImage
=============================================================================

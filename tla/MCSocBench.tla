----------------------------- MODULE MCSocBench -----------------------------
(***************************************************************************)
(* The SoC's testbench on small instances.  Its commands, and the three    *)
(* models its run_cycles steps (the external memory, the serial line, the  *)
(* flash), share no state but the pins: a behaviour is one of the four     *)
(* with the others at rest, the part being chosen in the initial state.    *)
(***************************************************************************)
EXTENDS SocBench, AxiMem, QspiFlash, UartLine

VARIABLES
  active

parts == <<active, vars, axi_vars, uart_vars, nor_vars>>

-----------------------------------------------------------------------------
(* Bursts past the end of the memory and of single bytes; two words.       *)
Burst(addr, size, id, len) == [addr |-> addr, size |-> size, id |-> id, len |-> len]
MCWrites == {Burst(6, 1, TRUE, 1), Burst(3, 0, FALSE, 0)}
MCReads  == {Burst(6, 1, FALSE, 1), Burst(3, 0, TRUE, 1)}
Words  == {[i \in 0 .. 1 |-> i], [i \in 0 .. 1 |-> 1 - i]}

(* Bytes with runs and single bits of each level.                          *)
MCTexts == {<< <<1,0,1,1,0,0,1,0>>, <<0,0,0,0,0,0,0,0>>, <<1,1,1,1,1,1,1,1>> >>,
            << <<0,1,0,1,0,1,0,1>>, <<0,1,1,1,1,1,1,0>> >>}

(* Two pages in turn: neighbours differ, over the end of a page too.       *)
MCPages  == [x \in {90, 201} |-> [i \in 0 .. PAGE_SIZE - 1 |-> (i * 7 + x) % 256]]
MCPageAt == [n \in 0 .. 4095 |-> IF n % 2 = 0 THEN 90 ELSE 201]

-----------------------------------------------------------------------------
(* Programs: one or two segments, in SRAM, in external memory, over the    *)
(* end of either, overlapping, with bytes to fill; entries at the start,   *)
(* unaligned, outside; and files that are not programs.                    *)
Seg(p, offset, f, m, x) ==
  [load |-> TRUE, offset |-> offset, paddr |-> p, filesz |-> f, memsz |-> m, x |-> x]
Elf(headers, entry) ==
  [elf32 |-> TRUE, machine |-> Machine, phoff |-> 0, entry |-> entry,
   headers |-> headers, size |-> 8]
Programs ==
  {Elf(<<Seg(p, 2, 1, 2, TRUE)>> \o second, entry) :
     p \in {0, 2, 8, 12, 14}, entry \in {0, 1, 3, 8, 12},
     second \in {<<>>} \cup {<<Seg(q, 4, 2, 2, FALSE)>> : q \in {1, 9, 15}}}
Good == Elf(<<Seg(0, 2, 2, 2, TRUE)>>, 0)
NotPrograms ==
  {[Good EXCEPT !.elf32 = FALSE], [Good EXCEPT !.machine = 0], [Good EXCEPT !.phoff = 8],
   [Good EXCEPT !.size = 3], [Good EXCEPT !.headers = <<>>],
   [Good EXCEPT !.headers[1].filesz = 3], [Good EXCEPT !.headers[1].x = FALSE],
   [Good EXCEPT !.headers[1].load = FALSE]}
Stages == {<<7>>, <<7, 8, 9, 10>>, <<7, 8, 9, 10, 11>>, <<1, 2, 3, 4, 5, 6, 7>>}
CommandLines ==
  [name : {"load", "test"}, file : Programs \cup NotPrograms]
  \cup [name : {"qspiboot"}, file : Stages, boot_sel : {1}]
  \cup [name : {"uartboot"}, file : Stages, boot_sel : {0, 2, 3}]
  \cup [name : {"read", "write"}, address : {1, 3, 10}, bytes : {<<20, 21>>}, fits : BOOLEAN]
  \cup [name : {"usage"}]

-----------------------------------------------------------------------------
AtRest ==
  /\ command = [name |-> "usage"] /\ sram_base = 0 /\ PowerOn
AxiRest  == AxiInit
UartRest == Idle /\ text = <<>> /\ uart = Soc(BitCycles, <<>>)
NorRest  == FlashInit

MCInit ==
  \/ active = "bench" /\ Init /\ AxiRest /\ UartRest /\ NorRest
  \/ active \in {"axi", "flash"} /\ AtRest /\ AxiRest /\ UartRest /\ NorRest
  \/ active = "uart" /\ AtRest /\ AxiRest /\ LineInit /\ NorRest

BenchStep == active = "bench" /\ Next
               /\ UNCHANGED <<active, axi_vars, uart_vars, nor_vars>>
AxiStep   == active = "axi" /\ Cycle
               /\ UNCHANGED <<active, vars, uart_vars, nor_vars>>
UartStep  == active = "uart" /\ LineNext
               /\ UNCHANGED <<active, vars, axi_vars, nor_vars>>
FlashStep == active = "flash" /\ FlashNext
               /\ UNCHANGED <<active, vars, axi_vars, uart_vars>>
MCNext == BenchStep \/ AxiStep \/ UartStep \/ FlashStep

\* The simulation goes on: a part that can change does. No more is needed: the
\* steps of a command, of a program and of a byte on the line are finite, and a
\* burst goes on as long as its manager does.
MCSpec == MCInit /\ [][MCNext]_parts /\ WF_parts(MCNext) /\ HostGoesOn

-----------------------------------------------------------------------------
\* Nobody waits for ever: a command returns, though its hart may never park or
\* report (tb_soc_main.cpp); a burst ends, though its manager stalls
\* (axi_mem.cpp); a text arrives, whichever end's bit is the longer. A return code
\* and a whole text stay, so that "again and again" is "in the end".
AllEnd ==
  /\ []<>(/\ active = "bench" => rc # None
          /\ active = "uart" => received = text)
  /\ BurstsEnd
=============================================================================

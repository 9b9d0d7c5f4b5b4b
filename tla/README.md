# Formal models of the FRISC-V core, its loader and its test benches

TLA+ models of the processor in `rtl/core`, of the programs that boot the Vernii
SoC and of the C++ simulation that both run in, with TLC configurations that
check them on small instances and proofs that TLAPS checks for every size. Every
definition is translated from the source; line numbers refer to files under
`src/`.

In the hardware models a clock edge is one step. Combinational wires are
operators of the state, so a module has a primed variable only for a register,
and inputs from outside (memory wait, interrupt, requests) are variables that
change freely within what their driver guarantees. In the models of programs a
step is what a program does between two points at which something else may act.

## Inventory

| Component (source) | State | Operations | Hard behaviour | What makes it correct |
| --- | --- | --- | --- | --- |
| Bus arbiter (`friscv_arbiter.sv`) | grant state, one frozen fetch or data request, priority bit | park, complete, hold | two ports share one wait; a fetch is redirected while parked | answers go to their owner, the bus is stable, neither port starves |
| Fetch (`friscv_if_stage.sv`) | pc, fetch in progress, buffered word, pending flush | redirect, release, advance, buffer | a redirect overtakes a fetch on the bus | discarded answers never execute; a fault comes with its word |
| Decode, registers (`friscv_id_stage.sv`, `friscv_decoder.sv`, `friscv_regfile.sv`) | instruction, pc, fault; registers | decode, read, jump | no forwarding: three older writes may be outstanding | reads see program order |
| Execute (`friscv_ex_stage.sv`, `friscv_branch_unit.sv`, `friscv_muldiv.sv`) | instruction, captured trap, iteration count | branch, capture a misaligned target, divide, fence | a captured trap waits for decode | a held trap is taken; each fence is sent |
| Memory (`friscv_mem_stage.sv`) | instruction, access in progress, buffered answer, captured fault, reservation | issue, complete, capture a fault, reserve | an access completes while a fetch stalls the pipe; a dropped instruction has already reserved | each access once, none on a wrong path |
| Writeback (`friscv_wb_stage.sv`) | instruction, result | write, retire | | what retires was executed |
| Atomic unit (`friscv_amo_unit.sv`, `friscv.sv`) | read/write sequence, frozen address | read, write | read and write share a port with fetches | the two halves are one access |
| Control unit (`friscv_control_unit.sv`) | none | stalls, flushes | every stall and redirect at once | program order |
| Trap controller, CSRs (`friscv_trap_controller.sv`, `friscv_csr_file.sv`) | trap taken, inhibits, trap CSRs; debug mode, step; privilege | take a trap, interrupt, return, halt, step | draining, several traps in one cycle; a debugger that halts at any cycle | precise traps, no lost trap; a step is one instruction |
| TLB (`friscv_tlb.sv`) | entries, reference bits, clock hand, registered answer | look up, fill, replace, fence | long sequences of fills and fences; superpage masks | one entry per page; a fence leaves nothing it names |
| Page walker, MMU (`friscv_ptw.sv`, `friscv_mmu.sv`) | walk state, request context, gate, kept page | walk, fault, translate | fences and CSR writes during a walk; bus errors; a registered look-up that is a cycle old | an access uses a translation that is current |
| PMP (`friscv_pmp_check.sv`, CSR locks) | the table | match, check | boundaries of the four modes | match as encoded; locks hold |
| Card loader, card test (`sdbl.c`, `sd_read.c`) | step of the card's protocol, words so far | initialise, read a block, check, copy, jump | cards that answer late, wrong, or finish an older answer | runs only a checked image; a right card boots |
| Card, SPI host (`sd_card.cpp`, vendored SPI host) | queued reply bytes; queues, shift register | exchange a byte; segments | the card's queue outlives deselection and reset | blocks arrive whole and in order |
| Bare core bench (`tb_core_main.cpp`, `bus.cpp`, `mem_model.cpp`, `clint_model.cpp`, `uart16550_model.cpp`) | transfer in flight, waits, timer, registers | an access of every size, a tick | random waits, misaligned accesses, a timer set as it ticks | an access takes effect once; time is kept |
| JTAG debugger, socket server (`jtag.cpp`, `remote_bitbang.cpp`) | call, path of pulses, tries; socket buffers | scan, access, retry, poll; serve | busy and failing debug module; partial sends | memory and hart as asked; every call ends |
| SoC bench commands, boot ROM (`tb_soc_main.cpp`, `elf_loader.cpp`, `soc_memory.cpp`, `zsbl.S`) | command, image, straps; `SCRATCH0` | load, test, boot, judge; park, copy, jump | one word is mark, entry and report | what runs is what was loaded; a pass is a pass |
| External memory, serial line, flash models (`axi_mem.cpp`, `uart_rx_driver.cpp`, `uart_tx_monitor.cpp`, `qspi_flash.cpp`) | bursts, bits, shift registers | handshakes, samples, clock edges | stalls on five channels; bits of different length; transactions cut short | they answer as the devices would |
| SCB, interconnect (`vernii_scb.sv`, `vernii_soc.sv`) | registers, wiring | bus accesses | | |
| Vendored UART, PLIC; FPGA target | | | | not this project's code |

Fetch and data share the arbiter; the atomic unit sits between the arbiter and
the memory and drives the data side's wait. Fetch, decode, execute, memory and
writeback advance under the control unit's stalls; the trap controller watches
decode, execute and memory, takes one trap at a time at decode and redirects
fetch. With an MMU the granted request is looked up in a TLB and a miss starts
the walker on the same port. The loader runs on that core and reads a card
through the SPI host. The benches clock the core or the SoC against C++ models
of what is around it; the SoC bench reaches into the SoC over JTAG, straps and
back doors, and talks to the program through `SCRATCH0`.

## Modules

| Modules | What they model |
| --- | --- |
| `Arbiter`, `ArbiterProofs` | The bus arbiter against any two requesters and any memory timing. |
| `Instructions`, `Isa` | The instruction kinds, the ALU and the next pc; the abstract machine that runs one instruction, trap or interrupt at a time. |
| `AmoUnit`, `Pipeline`, `MCPipeline`, `PipelineProofs` | The atomic unit; the five stages, hazards, CSRs and traps, composed with `Arbiter` and `AmoUnit` by INSTANCE; the programs for TLC; proofs for any. |
| `Translations`, `TranslationCache` | Leaves, superpage masks, what a fence names, entries of a page table; the abstract cache, a set of translations. |
| `Tlb`, `MCTlb`, `TlbProofs` | The TLB with its replacement; a page table for TLC; proofs for any. |
| `Ptw`, `Mmu`, `MCMmu`, `MmuProofs` | The walker; the MMU, composed with arbiter, walker and two caches; small tables; proofs for any. |
| `SpiHost`, `SdCard`, `BlockRead`, `SdBoot`, `MCSdBoot` | The card and the host a byte at a time, both programs, resets; the promise that a block's words arrive in order. |
| `AtomicBus`, `CoreBench`, `MCCoreBench`, `CoreBenchProofs` | The bench of the bare core; the abstract memory that answers at once. |
| `DebugPort`, `MemoryPort`, `Jtag`, `RemoteBitbang`, `MCJtag`, `JtagProofs` | TAP, transport and debug module; the promise to the caller; the Jtag class; the socket server and its client. |
| `ElfImage`, `SocBench`, `SocBenchProofs` | Commands, ROM and program, and the proofs for any. |
| `AxiMem`, `UartLine`, `QspiFlash`, `DeviceProofs`, `MCSocBench` | The three devices that the clock loop steps; proofs for any memory, flash and serial line; the bench and its devices on small instances. |

### Arbiter

`state_q`, `inst_req_q`, `data_req_q` and `data_priority_q` are the registers;
`ParkInst`, `ParkData`, `Complete` and `Hold` are the branches of the clocked
block. `overtaken` is a history variable, counting for each waiting port the
completions of the other, and is cut at two (`CountBound`). A fetch may be
redirected at any time and a data request stays while it waits, as the two
stages do.

### Pipeline

Each stage is a record of its registers (`id`, `ex`, `mem`, `wb`, the fetch
registers by their names), and each clocked block is one operator: `IfEdge` is
the disjunction of its branches (`IfRedirect`, `IfRelease`, ...), `MemEdge` of
`MemTrapCommit`, `MemFault...`, `MemCapture`, `MemComplete`, `MemHold`, and so
on. `Next` conjoins all edges with the arbiter's, the atomic unit's, the
memory's and fresh wires.

Abstraction: an instruction is a record of kind, destination, source and
address; data are numbers of `W` bits; the ALU increments; one code address is
one word. CSR writes are serialised as in the source; `satp` is a write that
serialises and `sfence` the pulse to the TLBs. A fault is an access to an
address of `FaultAddrs`; a fetch from one returns the word with the error, as a
bus does. The model has debug mode beside one privilege mode, and no MMU. The timing of a division
is a counter of `DivCycles`. Register file and memory have no reset and start
with any contents (the runs fill the memory with two different words).

Debug mode is entered by the debugger's wire, an `ebreak` under `dcsr.ebreakm`
(`ebreakm`) or a step that has fired, and left by `dret`; `dcsr` writes the two
bits that matter here. The debugger (`DebuggerEdge`, external) asks at any cycle
and keeps asking until the hart is in debug mode; its code begins at `DmHalt`
and its exceptions go to `DmExc`. Only the programs in `Debugged` have one. A
return from debug mode counts as done when it leaves decode, so the programs put
a CSR or memory instruction, which it waits for, ahead of it.

`load_data_buff` stands for the buffered load and for `r_sc_res`: a store
conditional and a load never wait in MEM together.

Refinement: `ArchState` reads the architectural state off the pipeline. The pc
is that of the oldest instruction that is not done; the registers are those of
the file with the result in writeback and an answer that waits; the memory is
the memory. The reservation is the register, or, while the instruction in MEM is
not done or has failed, what was reserved before it (`reserved_before`, an
auxiliary variable): the code reserves and consumes as MEM takes an instruction,
before it is known whether it faults, and even for the one that is dropped
behind a fault; the trap that follows clears it. `done`, an auxiliary bit that
travels with an instruction, says that its effect has been counted (a store has
been answered, the others have passed the point where a trap can take them
back). `Isa` may raise an interrupt in any state where the wire is up; it forces
none, which `InterruptTaken` adds. After a return from debug mode with stepping it
runs one instruction or trap (`Armed`, then `Fire`) and then only enters debug
mode, unless the instruction it stopped at raises an exception that decode
already knows, which the code takes first. A failing store conditional leaves the
reservation, in `Isa` as in the code (`friscv_mem_stage.sv:371`).

### Tlb

One step is the clock edge: the look-up is registered in `answer_q` and one of
`Flush`, `FillInvalid`, `FillReplace`, `Quiet` changes the entries; a fence wins
over a fill. A leaf stands for its permissions. `Base` is `vpn & vpn_mask`; the
superpage has `Sv32Span` pages under Sv32 and the mask of any other mode clears
`OtherSpan`, 1024 and 512 in the source. A fill is for the request on the
look-up wires, under Sv32, which misses: `FillForMiss` of `Mmu` is that
assumption, proved. `PageTable` maps a page of an address space once, does not
change, and has aligned superpages (the walker faults others): without the first
two, software has broken the rule that the fence exists for.

### Ptw and Mmu

`Ptw` is the walker's state machine for Sv32: capture of the context, read,
decode with every fault, descent, fill, and the end by a bus error. `satp` keeps
page numbers that no address reaches (`friscv_csr_file.sv:368`), so it has a field
`far`: under such a root the walk ends in an access fault before its first read
(`StartOutOfReach`, `friscv_ptw.sv:278`). `Mmu` has
the arbiter, two TLBs as the cache that `Tlb` implements, the walker, the
context of the granted request (`r_req_ctx`), the gate of the registered look-up
(`r_tlb_changed` and the page and context it compares) and the page kept for an
access that waits (`r_access_pa`). Around it are the stages and the memory: page
tables in memory that stores rewrite (`TableEdge`), a bus that waits or fails at
any time, and stages that behave as `TranslationQuiet` of `Pipeline` says, which
the pipeline run checks: `satp` and the mode change while no port asks and none
will in the next cycle, a fence comes when nothing stalls.

`recent` is a history variable: what the tables in force, those of the `satp` of
each cycle, have said of a page since the last fence that names it (`far` under a
root out of reach). An access or a fault is right if it agrees with something in
`recent`. A fault lasts one cycle and finds its port going on, with one exception
(`AnswerIsOwn`): a root out of reach faults in the cycle after the miss, and when a
fence came with the miss the port still waits; the stage does not take that fault,
and a second walk reports it. `age` counts the cycles of a request that are not bus
waits; `AgeBound` (12) only cuts the count beyond the promise of 9, which is
sharp.

Left out: PMP, which adds reasons to fault; SUM and MXR, which take some away
(`Permitted` is the check with both clear); MPRV, which gives a data access
another mode than the fetch's; global leaves of the walk. A frame stands for its
permissions (`UserFrames`, `ReadOnlyFrames`).

### SdBoot

`SdBoot` has both programs on `SpiHost` and `SdCard`: `sd_init`,
`sd_read_block` and the main functions with every failure. A step takes one
word from the host and runs the program to where it needs the next. The card's
queue survives deselection and a reset of the SoC, and a reset may come at any
byte (`MaxResets`, 2). The spin limits of the loops are longer than any transfer
and do not expire. The copy of the trampoline wraps at the end of memory, as the
memory decodes only the low bits of its address; no image of the instances is so
long that the copy would land on the image's start, which the loader's check of
the length allows (`sdbl.c:348`).

`Verdict` speaks of programs that start on a card with nothing left to say
(`clean`): after a reset in the middle of a block the card still sends its rest,
and the loader may rightly give up. `EntersImage` and `Refines` hold even then.

### CoreBench

One cycle of the loop: the bus is stepped with the request, then the devices.
The memory draws a wait when it takes an access; a configured wait of N > 0
makes N + 1 cycles, one of zero none. The core is a master that holds its
request while the bus waits, as the arbiter's `RequestStable` says.
`AtomicBus` performs an access and answers it in one step.

### Jtag and RemoteBitbang

A call of the Jtag class is a sequence of accesses to the debug module, an
access a path of pulses; each pulse is a step. A debug module may be busy, fail
or never answer; an access that was busy is sent again, and one that was only
slow may therefore be applied twice, or late after the call has failed:
`MemoryPort` allows both and nothing else. The same debug port is driven by a
client over a socket whose buffers hold `Capacity` (5) bytes, in chunks of up to
`ChunkMax` (3); `RemoteSessions` are the sessions it makes. The client is not part
of the repository: it sends the commands a pulse needs, resets the TAP first and
takes answers at any time. A client that took none before all its commands are sent
could wait for the server, which waits to send (`remote_bitbang.cpp:200`): nothing
here covers that. Of the reset command only the TAP's bit is modelled; the
other one holds the whole SoC in reset (`remote_bitbang.cpp:133`), and this client
never sets it.

### SocBench

Four parts that share nothing: the commands with ROM and program, the external
memory, the serial line and the flash; a behaviour is one of them with the
others at rest (`active`), so that one run holds them all.

The commands read a file (`ElfImage`: headers, validation, copying with the
filled bytes), write memory over JTAG, where any call may throw, or through the
back doors, set the straps, release reset and judge the run. The hart runs
`zsbl.S`, with the park loop, the UART and the QSPI loader, and then a program
that does anything, reports at most once and never returns to the ROM. `Mixed`
leaves out a file with a segment in a relocated SRAM and its entry point outside:
`cmd_test` accepts it and preloads that segment to the external memory
(`tb_soc_main.cpp:350`). The addresses of `read` and `write` are of the memories or
of nothing, where the access fails; in the SoC the same bus reaches the SCB and the
peripherals, and a `write` to `SCRATCH0` makes the ROM jump. `PARKED` is 1;
the pass value is no multiple of `Align`, as 0xaabbccdd is none of 4.

`AxiMem` is stepped at each clock edge after the manager, whose outputs are
registers; a reset in the middle of a burst is left out, since the memory has
none. `UartLine` has a transmitter and a receiver of the SoC whose bit is 31, 32
or 33 cycles against the model's 32. `QspiFlash` goes edge by edge, with full
24-bit addresses and transactions cut at any edge. Its contents are pages, as in
the sparse memory behind it (`paged_mem.cpp`): what each holds and which is where
are constants. `MCSocBench` extends the bench and the three devices; they share no
state, so a behaviour is one of the four.

## Runs

| Run | Question | Properties |
| --- | --- | --- |
| `arbiter` | Two requests of each port, any timing | `DataAnswerIsOwn`, `InstAnswerIsFetch`, `BoundedOvertaking`, `RequestStable`, `Answered` |
| `pipeline_programs` | Every pair of 18 kinds of instruction ahead of a handler; loops of three dependent register, memory and atomic instructions that begin with an access; a reservation and what may end it; a fetch that fails, on the path and off it; a debugger that halts at any cycle, steps, sets breakpoints or fails itself | `AccessOnPath`, `AmoAddressOwn`, `FaultComesWithInstruction`, `Refines`, `PortStable`, `TranslationQuiet` |
| `pipeline_irq` | Four pairs and a loop with the interrupt wire free | `Refines`, `Progress`, `InterruptTaken` |
| `tlb_fine` | Two slots, two address spaces, every sequence of look-ups, fills, fine fences | `NoDuplicates`, `Refines` |
| `mmu` | Two pages under tables of every kind of entry, rewritten while they are used, with fences, changes of the mode and of `satp` to a root out of reach and back, redirects, bus waits and errors | `RequestServed`, `FillForMiss`, `AnsweredInTime`, `PortStable` |
| `sd_boot` | Twelve cards, two programs, up to two resets at any byte | `EntersImage`, `Verdict`, `Refines`, `Terminates` |
| `core_bench` | Every size and alignment on a word of memory, the registers of the devices, waits of 0, 1 and 3 | `ClintKeepsTime`, `AnswerInTime`, `Refines` |
| `jtag` | Five sessions from every state of the TAP, three of them over the socket too | `InStep`, `NeverMistaken`, `HartAsAsked`, `Refines`, `Ends` |
| `soc_bench` | Every command with programs of one or two segments at every kind of place; bursts; texts; flash reads | `VerdictTrue`, `RomWaits`, `JumpsIntoImage`, `ReadIsFresh`, `WriteIsDone`, `BytesInOrder`, `BytesAreFlash`, `AllEnd` |

`Refines` of the pipeline is the strongest property: it fails for a wrong
hazard, a store of a wrong path, a lost or repeated access, an imprecise trap, a
store conditional that uses a stale reservation. `AccessOnPath` adds reads: a
read of a wrong path leaves no trace in the architecture but may change a
device.

Three runs end in a violation, each of one property that a comment of the source
states:

| Run | Property | What happens |
| --- | --- | --- |
| `pipeline_lostfault` | `FaultComesWithInstruction` | A fetch fails while decode is stalled. Fetch keeps the word and not its error (`friscv_if_stage.sv:74`), and the word executes. |
| `pipeline_branchtrap` | `BranchTrapTaken` | A branch to a misaligned target is captured in EX while the instruction behind it, on the wrong path, traps in the same cycle; `trap_seen` is never cleared and EX is held for ever (`friscv_trap_controller.sv:198`). An interrupt in that cycle does the same. |
| `pipeline_lostfence` | `FenceSent` | The second of two `sfence.vma` in a row is taken for the first and sends no fence (`friscv_ex_stage.sv:301`). |

The passing runs leave these cases out: `Excluded` in `MCPipeline` names the
pairs (a misaligned branch ahead of an environment call, two fences in a row,
and a return directly behind a branch or a faulting access, below), interrupts
are not combined with misaligned branches, and a fetch fault is not combined
with a stalled decode.

Other peculiarities met while modelling, which have no run:

- A return redirects the fetch past a memory fault that is captured in the same
  cycle: `friscv_if_stage.sv:62` puts the return before the trap.
- The no-operation that stands for a discarded fetch is marked valid and counted
  as retired (`friscv_if_stage.sv:88`, `friscv_id_stage.sv:222`).
- `if_trap_inhibit` lasts until a fetch without a fault, so a handler whose first
  fetch fails does not trap again (`friscv_trap_controller.sv:564`).
- A fine fence under Bare computes narrower masks than the walk that filled a
  superpage and misses it (`friscv_tlb.sv:131`); `FencesExact` is why the
  refinement of the TLB assumes that fences come under Sv32 or drop everything.
- The mask of a naturally aligned PMP region is computed from the complement of
  the address plus one (`friscv_pmp_check.sv:53`), the trailing zeros, where the
  encoding counts trailing ones (`friscv_pkg.sv:166`).
- A fence is sent in the cycle it enters EX, when the store of a page table entry
  before it may still wait on the bus (`friscv_ex_stage.sv:331`). `Mmu` counts
  such a store as one after the fence.
- A single step counts an instruction as it leaves decode without a redirect
  (`id_dispatch`, `friscv_trap_controller.sv:166`), and `flush_i` includes the
  redirect of the instruction itself (`friscv_control_unit.sv:148`): a step over
  `jal`, `jalr` or `mret` runs the jump and one more instruction. The comment
  above it says "An instruction leaves ID this cycle". Putting a `jal` into
  `StepPrograms` makes `Refines` fail; the programs step none.
- When a step has fired at an `ecall`, an `ebreak`, an illegal instruction or one
  whose fetch failed, its trap is taken before debug mode is entered
  (`debug_entry` yields to `exception_active`, `friscv_trap_controller.sv:314`);
  `Isa` says so (`MayExecute`).
- Taking the reservation from a store conditional needs no look at the one ahead
  of it (`prev_sc_success`, `friscv_mem_stage.sv:216`): the reservation is
  consumed as MEM takes the first, before it takes the second.

### Bounds

- Pipeline programs have three to six words, so every pair (chain) of kinds
  meets in adjacent stages with the older still in memory or writeback and the
  younger in decode; five stages hold at most five instructions, and the loop in
  the chains fills them. One register is enough for every dependency, two data
  addresses for an access to another address, `W = 2` for a value that wraps
  twice in a loop, `DivCycles = 2` for a division that outlasts a fetch. Faults
  answer from data address 12 and code address 7.
- The debugged programs have three instructions, a handler of two that leads back
  to them and a debugger's routine of two, so that most are stepped again and again,
  trapping or not, from every halt. They are six and not every
  triple because the debugger may halt at any cycle; interrupts, which a step
  puts off, are left to the programs without a debugger.
- The memory may wait for any number of cycles, so there is no bound on timing.
- TLB: two slots force replacement with three leaves; the superpage has an
  upper half (`Sv32Span = 4`, `OtherSpan = 2`), one page has translations of two
  address spaces and one is global. Larger TLBs are covered by the proof.
- MMU: one slot per TLB, so that two pages evict each other; between them the two
  pages take a walk to every end (leaf, read-only leaf, superpage of the other
  mode, invalid entry, entry beyond the address space), and a store invalidates the
  entry of its own page. `satp` has two roots over the same tables, one of them
  beyond the address space, so that a translation filled under one is used and
  fenced under the other. Data accesses are stores: a load differs in its permission,
  and in that it reads, as a fetch does. Translation is switched off by the mode
  alone; `tlb_fine` has look-ups under `Bare`. Loads, `Bare` and larger instances
  are covered by the proof.
- Cards of three blocks of six words of two bytes and a receive queue of two
  words: shorter than a block, so that the host stalls; headers right and wrong
  in every field, images of 0 to 36 bytes around every block boundary.
- Core bench: half a 64-bit register has two values and `mtime` ticks every two
  cycles, so carries and wraps happen; bytes have two values.
- JTAG: four bytes of memory in words of two, so that ranges begin and end
  within a word, and one is empty; three tries and three polls, so that each can
  run out. Over the socket the sessions are the first call alone, calls for the
  hart, and a write over the end of a word: the rest differ from these in what is
  written and read, not in how it travels.
- SoC bench: memories of four and eight bytes, segments over the end of each,
  overlapping, with filled bytes; one poll (`MaxPolls`).
- `CountBound`, `AgeBound`, `MaxResets`, `MaxPolls`, `MaxBytes`, `Capacity` and
  `ChunkMax` are all the bounds there are on counters and queues.

### Fairness

- Pipeline: the clock runs (`WF_vars(Next)`) and the memory does not wait for
  ever (`WF_vars(MemAnswers)`): every bus the core is attached to answers, with
  an error if need be. The arbiter has the same assumption on its own memory. No
  fairness is assumed of a requester or of an interrupt. Safety is checked
  without fairness (`SafeSpec`).
- `SdBoot`: the processor and the SPI host run on; not the resets.
- `RemoteBitbang`: the program, the client and the server run on; nothing is
  assumed of the debug module, so that `Ends` includes one that never answers.
- `MCSocBench`: the simulation goes on, and a burst's manager does. A program
  need not report.
- `Mmu` has a bound in cycles (`AnsweredInTime`) in place of liveness.
  `CoreBench` is checked for safety only; `AnswerInTime` bounds its waits.

## Proofs

Assumptions are the named `ASSUME`s of the modules and hold in every run.

`ArbiterProofs` (any request sets): `TypeCorrect`, `OwnAnswer`, `FetchAnswer`,
`Stable` and `Fairness`. `BoundedOvertaking` is not inductive. `IInv` adds that a
held request is still the requester's (`HeldIsPresent`) and that a port overtaken
once is the one the priority bit favours, with the bus not held for the other
(`OvertakenIsNext`); so the next grant is its own.

`PipelineProofs` (any program, registers, memory contents, data width, faulting
addresses and memory timing; programs jump only to code, `PipelineAssumption`):
`TypeCorrect`, `RequestIsStable` (`PortStable`), `FrozenAddressIsOwn`
(`AmoAddressOwn`), `QuietForTranslation` (`TranslationQuiet`) and
`AccessIsOnPath` (`AccessOnPath`). The invariant `IInv` has, besides the types:

- `AccessFirst`: an access in MEM holds the bus or finds the priority with the
  data port, and EX has no access while fetch keeps its word. An access enters
  MEM only as a fetch completes, which turns the priority; so it is served
  first, the fetch behind it waits, and no further instruction moves.
- `AmoAddressHeld`: the frozen address is that of the access the bus is held
  for, or there is no access. It is released one cycle late, and that the next
  operation is not there yet is `AccessFirst`: `AmoAddressOwn` depends on the
  priority of the arbiter, not on the atomic unit alone.
- `SerialIsAlone`: behind a CSR write that serializes, fetch keeps its word and
  EX is empty, so that when it retires no port asks, then or in the next cycle.

`OnPath`, inductive on top of it, says that each stage holds a bubble or the
instruction at its address, and that a parked fetch for another address is marked
to be discarded. `QuietForTranslation` is what `Mmu` assumes of its stages: the
proofs about the MMU stand on it.

`TlbProofs` (any number of slots, page table and span):

- `TypeCorrect`: in particular the hand stays on the slots; that a least free
  slot exists comes from the well-foundedness of the naturals.
- `NeverTwice` (`NoDuplicates`): inductive with `EntriesCopyLeaves`, that a
  valid entry is a leaf of the page table under the address space of its walk.
  If the filled entry and another one served the same page, both would be copies
  of one leaf, because leaves do not overlap, and the other would have matched
  the look-up that missed.
- `Implements`: `Tlb` implements `TranslationCache` by the set of its valid
  entries. The look-up answers with the page of the entry that serves, also
  under the narrower masks of another mode, since a superpage's first page is a
  multiple of both spans (`NarrowMatch`); a fill loses at most its victim; a
  fence drops what it names if `FencesExact`.

`MmuProofs` (any pages, tables, address spaces, number of slots): `TypeCorrect`
and `Stable` (`PortStable`). The port is stable because nothing that could move
it moves while it waits: the arbiter holds the request (`RequestKept`), a walk
stays in its state (`WalkKept`, `NoWalkStarts`) and the page of an access is
kept in `r_access_pa` (`PageKept`).

`Served` (`RequestServed`) and `Filled` (`FillForMiss`):
`RequestServed` speaks of wires and is not inductive. `IInv` has, besides the
types: a request that waits is the one its port still presents, under the `satp`
of now (`HeldIsPresent`); a registered look-up is what its TLB still answers,
unless the TLB changed in that cycle (`AnswersFresh`); a walk is for the held
request, in its context, on a page its TLB goes on missing, with no fence in
flight (`WalkIsOwn`); under a root out of reach it reads nothing (`WalkStopped`);
under one in reach the entry it has read is still the one in the table (`WalkReads`); and every translation in a TLB is one the tables gave for each page
it serves since the last fence that names the page (`CachesRecent`). `Filled` is the assumption under
which `TlbProofs` shows the TLB to be the cache that `Mmu` uses, so that the two
together speak of the MMU with its TLBs.

`Answered` (`AnsweredInTime`): a request is answered within nine cycles in which
the bus does not wait. `age` alone is not inductive: the latest age at which a
request may still be unanswered depends on where its translation is, in the
look-up (does its TLB miss it, `Missed`, and has the TLB just changed) or in which
state of the walk. `Deadline` is that age for each place and `Timely`, that no
request without its page is older, is what each step keeps.

`CoreBenchProofs` (any map, programs, waits, divider): `MemoryIsAtomic`
(`Refines`), `TimerKeepsTime` and `WaitsAreBounded`. The invariant: the bus is
held for the access the core holds (`BusHeld`), the draw is what the access
will wait (`DrawKept`), and the prescaler is the elapsed time within a tick
(`TimeKept`). A write changes exactly the bytes its lanes name
(`WriteIsExact`), and the ticks counted are the quotient of the elapsed time
(`TickCounts`).

`SocBenchProofs` (any commands, programs, memories): `PassIsReported`
(`VerdictTrue`) and `CommandWaits` (`RomWaits`). The argument is about who holds
`SCRATCH0`: the mark of the ROM while it parks (`RomParks`), then an entry point
that is aligned and hence no report (`EntryAligned`), then what the program
wrote (`PassReported`). `ImageIsEntered` (`JumpsIntoImage`): `JInv` says for
every place of the command and of the ROM what is already where the jump will need
it. The command has read and validated its file (`ImageRead`) and written part of
it, later segments over earlier ones (`Loading`), or put its stage into the flash
or on the line (`FlashReady`, `LineReady`) before it sets the straps that make
the ROM copy it (`OwnStages`, `Straps`); the ROM has copied the first bytes
(`Copying`); whoever is about to jump has all (`Entering`). It is about any file but
those `Mixed` leaves out. It assumes that a
stage fits the SRAM, and that the SRAM ends before the external memory or lies
behind its base (`LayoutAssumption`), and of files the kinds of their fields
(`FileAssumption`).

`JtagProofs` (any sessions, memory, tries and polls, chunks of any length, from any
state of the TAP): `StaysInStep` (`InStep`), `MistakesNothing` (`NeverMistaken`) and
`LeavesTheHart` (`HartAsAsked`). The class never reads the state of the TAP; it counts
on where its own bits have moved it, and on what they bring back. A point is the TAP,
the pins of the server, what is known of the hart, and the answers so far; `Leads`
relates two points when a sequence of pulses or of socket commands *may* take the one
to the other while the debug module serves, delays or stays silent between them. One
lemma for each walk of the class says where all its ends lie: a register write, an
access, a reset by six ones from anywhere, and what comes out (`WalkAccess`: busy, or
the answer to this very request). The invariant (`TInv`, by `Sound` and `Track`):
wherever what is sent and not yet done may lead, the rest of the path leads to its
`Goal`, with the fields taken, on their way and still to come put end to end. It
needs no account of the position within a walk, and it says nothing once the session
has ended (`Ended`), when a client may leave a scan half done. Of the hart, `Facts`
are what nothing but a request to the debug module ends (halted or about to be,
halted, not asked to halt, running); `Needs` says which of them each call has
established when so many of its accesses are left, and `Steady` that serving a
request that is tried again does not undo them. The sessions over the socket are any
non-empty ones of them (`RemoteAssumption`). `DebuggerAssumption`: each session
begins with `initialize`, addresses, sizes and bytes are natural numbers, a write
has as many bytes as its range, a word has at least two, the idle cycles are a
number, and `None` is neither a request nor a failure.

`DeviceProofs`, the external memory (any bursts, data, word and memory size, any
timing of the manager): `ReadCorrect` (`ReadIsFresh`) and `WriteCorrect`
(`WriteIsDone`). `update` samples the inputs, changes its registers and then its
pins, so manager and memory agree on a beat only across two edges.
`ReadsInStep` and `WritesInStep` say where a burst is at both ends: the memory is
at rest, or has the manager's address advanced by the beats done (`At`) and as
many left; the word on the pins is one that the memory has held during the burst;
`ShadowInStep` that the memory is what the beats taken have made of it. Addresses
wrap, so a word at the end meets its own remainder (`SameWord`); that memory is
a whole number of words is in `MemoryAssumption`.

`DeviceProofs`, the flash (any contents and addresses to read, transactions cut
at any edge): `FlashReadCorrect` (`BytesAreFlash`). `FlashInv` says how far host
and flash are in the byte that goes out (`SendsInStep`: what the flash has shifted
in are the high bits of the byte, `Got`) and in the one that comes in
(`TakesInStep`: what the host has taken and what the flash has still to shift out
make up the byte due, `Kept`), and that the flash is in the phase the bytes
before it lead to (`InPhase`), with the address of the next byte (`Cursor`),
over the end of the flash too. `FlashAssumption`: a page holds bytes and every
page number has a page.

`DeviceProofs`, the serial line (any width of byte, texts and lengths of a bit):
`LineDelivers` (`BytesInOrder`). Both ends of a frame count from its first cycle.
`LineInv` says what the driver and the receiver hold that many cycles on, each by
its own bit (`Drives`, `Takes`), or the transmitter and the monitor (`Sends`,
`Watches`), and what has arrived: the bytes before the frame, and that one too once
the far end has looked for its stop bit. `DriftAssumption` is about that moment
only: for each bit of the SoC, it is within the stop bit as the other end counts.
As the drift grows evenly over a frame, so is every look before it within its bit
(`MonitoredInBit`, `TakenInBit`), and a frame never ends before the far end has
taken it (`WatchesEarly`, `TakesEarly`). A behaviour sends in one direction;
driver and monitor share no state.

Only model-checked: the refinement of the pipeline to the sequential machine, and
`FaultComesWithInstruction`, which is false of some programs; the boot from a card
(`EntersImage` and `Verdict` depend on what the card holds beyond the image, which
the twelve cards make explicit, and on the arithmetic of block boundaries); that
the Jtag class reads and writes memory as asked (`Refines`), which needs what its
recursive ranges compute; and all liveness, which is out of the proof system's
reach.

## Not modelled

- PMP (`friscv_pmp_check.sv`, the locks of `friscv_csr_file.sv`): a function of
  an address and a table that adds a reason to fault to those the MMU has.
- Privilege modes and delegation: choosing the mode and the delegated cause are
  functions of CSRs the pipeline model does not keep; traps, drains and redirects
  are the same in every mode. Of `dcsr`, the cause and the privilege fields.
- The arithmetic of the multiplier and divider, a data path without interaction;
  its stall is in `Pipeline`.
- Counters, identification and performance CSRs; the 64-bit counters are read in
  two halves as the architecture says.
- The SCB beyond `SCRATCH0` and the straps, the interconnect, cache, debug module
  and CLINT of the SoC, most of which are dependencies outside the repository;
  the vendored UART and PLIC.
- In the benches: parsing of arguments, printing, options of the listening
  socket, the system reset bit of its protocol, `read` and `write` of registers and
  peripherals, the HyperBus, cache and UART settings of the environment, the exception
  for a flash command the host never sends.
- The pipeline composed with the MMU in one state space: each is checked under
  what the other is shown to give (`TranslationQuiet`, `AnsweredInTime` and
  `PortStable`).
- FPGA target and build scripts.

## Next

In order of what they would add: the privilege modes with delegation in the
trap controller; a refinement of `Pipeline` with `Mmu` at its port, in
which a store that waits behind a fence can be told from one after it; the
refinement of `Pipeline` to `Isa` as a theorem, which needs an invariant of every
stage's value; the refinement of the Jtag class to `MemoryPort` as a theorem, on
top of `Answered`.

------------------------------- MODULE SdBoot -------------------------------
(***************************************************************************)
(* The two programs that read the card: the loader (sdbl.c) and the test   *)
(* of the card (sd_read.c).  A step takes a word from the SPI host and     *)
(* runs the program to where it waits for the next one.  The spin limits   *)
(* of the loops are longer than any transfer and do not expire.  A reset   *)
(* of the SoC starts the program again and leaves the card and the memory  *)
(* as they are.                                                            *)
(***************************************************************************)
EXTENDS SpiHost, SequencesExt

CONSTANTS
  BlockWords,       \* words of a block
  Magic,            \* the header's first word, as a number
  MaxImage,         \* bytes of external memory; every image is shorter
  TrampWords,       \* words of the trampoline
  Memories,         \* the contents of the card
  Pattern(_),       \* the block fill_test_pattern writes at a position
  Tramp, Junk,      \* a word of the trampoline, a word nothing was written to
  MaxResets,        \* bound: resets of the SoC
  None

VARIABLES
  prog,             \* the program, "sdbl" or "sd_read"
  drv,              \* where it is and what it holds
  ram,              \* external memory, by word
  resets,           \* resets so far
  clean             \* history: the card had nothing left to say at the start

ASSUME SdBootAssumption == BlockBytes = WordBytes * BlockWords

vars == <<card, memory, host, prog, drv, ram, resets, clean>>

RamWords == MaxImage \div WordBytes
Value(word) == word[1] + 256 * word[2]
IsLoader == prog = "sdbl"

Start == [phase |-> "start", step |-> "CMD0", n |-> 0, round |-> 0, block |-> 0,
          r1 |-> 0, tail |-> <<>>, got |-> <<>>, header |-> <<>>, result |-> "none"]

Init ==
  /\ CardInit /\ HostInit
  /\ prog \in {"sdbl", "sd_read"}
  /\ memory \in Memories
  /\ drv = Start
  /\ ram = [i \in 0 .. RamWords - 1 |-> Junk]
  /\ resets = 0 /\ clean = TRUE

-----------------------------------------------------------------------------
\* Commands, with their arguments, CRCs and the bytes that follow the R1.
Command(step, block) ==
  LET C(index, arg, crc, tail) ==
        [index |-> index, arg |-> arg, crc |-> crc, tail |-> tail]
  IN CASE step = "CMD0"   -> C(0, 0, 149, 0)
       [] step = "CMD8"   -> C(8, 426, 135, 4)
       [] step = "CMD55"  -> C(55, 0, 1, 0)
       [] step = "ACMD41" -> C(41, 2^30, 1, 0)
       [] step = "CMD58"  -> C(58, 0, 1, 4)
       [] step = "CMD16"  -> C(16, BlockBytes, 1, 0)
       [] step = "CMD17"  -> C(17, block, 1, 0)

ReadSegment(len, csaat) == Segment(len, csaat, "rx")
word == Head(host.rx)
byte == word[1]
taken == [host EXCEPT !.rx = Tail(@)]

\* The frame and its fillers, with the first read of sd_response behind them.
sd_send_command(h, d, step, block) ==
  LET c == Command(step, block)
  IN /\ drv' = [d EXCEPT !.phase = "response", !.step = step, !.n = 0,
                          !.block = block, !.got = <<>>, !.tail = <<>>]
     /\ host' = [h EXCEPT
          !.tx = Frame(c.index, c.arg, c.crc) \o <<Filler, Filler>>,
          !.cmds = <<Segment(8, TRUE, "tx"), ReadSegment(1, TRUE)>>]
Send(step, block) == sd_send_command(taken, drv, step, block)

spi_read_byte(d, phase) ==
  /\ drv' = [d EXCEPT !.phase = phase]
  /\ host' = [taken EXCEPT !.cmds = Append(@, ReadSegment(1, TRUE))]
spi_release(d) ==
  /\ drv' = [d EXCEPT !.phase = "release"]
  /\ host' = [taken EXCEPT !.cmds = Append(@, ReadSegment(1, FALSE))]

\* fail() and finish(): what the debug module, or the bench, reads.
Stop(result) ==
  /\ drv' = [drv EXCEPT !.phase = "stopped", !.result = result]
  /\ host' = taken
Fail_Retries(reason) == drv' = Start /\ host' = taken
Fail(reason) == Stop(IF IsLoader THEN "BAD_CARD" ELSE reason)
ErrCommand == IF drv.step = "CMD55" THEN "ACMD41" ELSE drv.step

\* The wait of a phase ends with a word.
Got(phase) ==
  /\ drv.phase = phase /\ host.rx # <<>>
  /\ UNCHANGED <<card, memory, prog, resets, clean>>

-----------------------------------------------------------------------------
\* sd_init: eighty clocks with the card not selected, then its commands.
PowerUp ==
  /\ drv.phase = "start"
  /\ drv' = [drv EXCEPT !.phase = "clocks"]
  /\ host' = [host EXCEPT !.cmds = <<Segment(80, FALSE, "dummy")>>]
  /\ UNCHANGED <<card, memory, prog, ram, resets, clean>>
spi_wait_idle ==
  /\ drv.phase = "clocks" /\ host.cmds = <<>>
  /\ sd_send_command(host, drv, "CMD0", 0)
  /\ UNCHANGED <<card, memory, prog, ram, resets, clean>>

sd_response ==
  /\ Got("response") /\ UNCHANGED ram
  /\ LET d == [drv EXCEPT !.r1 = byte, !.n = 0]
     IN \/ /\ byte = Filler /\ drv.n < 31
           /\ spi_read_byte([drv EXCEPT !.n = @ + 1], "response")
        \/ byte = Filler /\ drv.n = 31 /\ Fail(ErrCommand)
        \/ /\ byte # Filler /\ drv.step = "CMD17"
           /\ IF byte = R1Ready THEN spi_read_byte(d, "token") ELSE Fail("CMD17")
        \/ /\ byte # Filler /\ drv.step # "CMD17"
           /\ IF Command(drv.step, 0).tail > 0 THEN spi_read_byte(d, "tail")
              ELSE spi_release(d)

\* The rest of an R3 or an R7.
TailByte ==
  /\ Got("tail") /\ UNCHANGED ram
  /\ LET d == [drv EXCEPT !.tail = Append(@, byte)]
     IN IF Len(d.tail) = 4 THEN spi_release(d) ELSE spi_read_byte(d, "tail")

Identify ==
  /\ Got("release") /\ UNCHANGED ram
  /\ \/ /\ drv.step = "CMD0"
        /\ IF drv.r1 = R1Idle THEN Send("CMD8", 0) ELSE Fail("CMD0")
     \/ /\ drv.step = "CMD8"
        /\ IF drv.r1 = R1Idle /\ drv.tail[4] = 170 THEN Send("CMD55", 0)
           ELSE Fail("CMD8")
     \/ drv.step = "CMD55" /\ Send("ACMD41", 0)

\* After ACMD41: the loader reads the header, the test asks for more.
NotReady(tries) ==
  IF drv.r1 = R1Idle /\ drv.round + 1 < tries
  THEN sd_send_command(taken, [drv EXCEPT !.round = @ + 1], "CMD55", 0)
  ELSE Fail("ACMD41")
LoaderReady ==
  /\ Got("release") /\ IsLoader /\ drv.step = "ACMD41" /\ UNCHANGED ram
  /\ IF drv.r1 = R1Ready THEN Send("CMD17", 0) ELSE NotReady(1024)
TestReady ==
  /\ Got("release") /\ ~IsLoader /\ UNCHANGED ram
  /\ \/ /\ drv.step = "ACMD41"
        /\ IF drv.r1 = R1Ready THEN Send("CMD58", 0) ELSE NotReady(32)
     \/ /\ drv.step = "CMD58"
        /\ IF drv.r1 = R1Ready /\ (drv.tail[1] \div 64) % 2 = 1 THEN Send("CMD16", 0)
           ELSE Fail("CMD58")
     \/ /\ drv.step = "CMD16"
        /\ IF drv.r1 = R1Ready THEN Send("CMD17", 0) ELSE Fail("CMD16")

-----------------------------------------------------------------------------
\* sd_read_block, from the token on.
Token ==
  /\ Got("token") /\ UNCHANGED ram
  /\ \/ /\ byte = DataToken
        /\ drv' = [drv EXCEPT !.phase = "data"]
        /\ host' = [taken EXCEPT !.cmds = Append(@, ReadSegment(BlockBytes, TRUE))]
     \/ /\ byte = Filler /\ drv.n + 1 < (IF IsLoader THEN 1024 ELSE 64)
        /\ spi_read_byte([drv EXCEPT !.n = @ + 1], "token")
     \/ /\ byte = Filler /\ drv.n + 1 >= (IF IsLoader THEN 1024 ELSE 64)
        /\ Fail("TOKEN")
     \/ byte \notin {DataToken, Filler} /\ Fail("TOKEN")

\* Image blocks go straight to external memory, the header to the stack.
DataWord ==
  /\ Got("data")
  /\ LET d == [drv EXCEPT !.got = Append(@, word)]
         dst == (drv.block - 1) * BlockWords + Len(drv.got)
     IN /\ ram' = IF IsLoader /\ drv.block > 0
                  THEN [ram EXCEPT ![dst % RamWords] = word] ELSE ram
        /\ IF Len(d.got) = BlockWords THEN spi_read_byte(d, "crc")
           ELSE drv' = d /\ host' = taken

CrcByte ==
  /\ Got("crc") /\ UNCHANGED ram
  /\ LET d == [drv EXCEPT !.tail = Append(@, byte)]
     IN IF Len(d.tail) = 2 THEN spi_release(d) ELSE spi_read_byte(d, "crc")

-----------------------------------------------------------------------------
\* sd_main, after a block.
Words(header) == (Value(header[2]) + WordBytes - 1) \div WordBytes
ImageBlocks(header) == (Words(header) + BlockWords - 1) \div BlockWords
HeaderOK(header) == Value(header[1]) = Magic /\ Value(header[2]) \in 1 .. MaxImage - 1
Sum(m, n) == FoldFunctionOnSet(LAMBDA w, s : (Value(w) + s) % 2^16, 0, m, 0 .. n - 1)

WithTrampoline_InImage(n) ==
  [i \in DOMAIN ram |-> IF i \in n - 1 .. n + TrampWords - 2 THEN Tramp ELSE ram[i]]
\* The trampoline's copy; the memory decodes the low bits of the address only.
WithTrampoline(n) ==
  [i \in DOMAIN ram |-> IF \E t \in n .. n + TrampWords - 1 : t % RamWords = i
                        THEN Tramp ELSE ram[i]]

LoaderMain ==
  /\ Got("release") /\ IsLoader /\ drv.step = "CMD17"
  /\ LET header == IF drv.block = 0 THEN drv.got ELSE drv.header
         d == [drv EXCEPT !.header = header]
         n == Words(header)
         more == drv.block < ImageBlocks(header)
     IN \/ drv.block = 0 /\ ~HeaderOK(header) /\ Stop("BAD_HEADER") /\ UNCHANGED ram
        \/ /\ HeaderOK(header) /\ more /\ UNCHANGED ram
           /\ sd_send_command(taken, d, "CMD17", drv.block + 1)
        \/ /\ HeaderOK(header) /\ ~more /\ Sum(ram, n) # Value(header[3])
           /\ Stop("BAD_CKSUM") /\ UNCHANGED ram
        \/ /\ HeaderOK(header) /\ ~more /\ Sum(ram, n) = Value(header[3])
           /\ Stop("entered") /\ ram' = WithTrampoline(n)

Bytes(words) == FlattenSeq(words)
TestMain ==
  /\ Got("release") /\ ~IsLoader /\ drv.step = "CMD17" /\ UNCHANGED ram
  /\ \/ drv.tail # Crc16(Bytes(drv.got)) /\ Fail("CRC")
     \/ /\ drv.tail = Crc16(Bytes(drv.got))
        /\ IF Bytes(drv.got) # Pattern(drv.block) THEN Fail("DATA")
           ELSE IF drv.block = 0 THEN Send("CMD17", 1)
           ELSE Stop("PASS")

-----------------------------------------------------------------------------
\* A reset at any byte: the host lets the card go.
Reset ==
  /\ resets < MaxResets
  /\ resets' = resets + 1
  /\ drv' = Start /\ host' = HostReset
  /\ card' = deselected(card)
  /\ clean' = (card.queue = <<>>)
  /\ UNCHANGED <<memory, prog, ram>>

Program ==
  \/ PowerUp \/ spi_wait_idle \/ sd_response \/ TailByte \/ Identify
  \/ LoaderReady \/ TestReady \/ Token \/ DataWord \/ CrcByte
  \/ LoaderMain \/ TestMain
Host == HostNext /\ UNCHANGED <<memory, prog, drv, ram, resets, clean>>
Stopped ==
  /\ drv.phase = "stopped" /\ resets = MaxResets
  /\ UNCHANGED vars

Next == Program \/ Host \/ Reset \/ Stopped
SafeSpec == Init /\ [][Next]_vars
\* The processor runs on and the SPI host goes on with its queue.
Spec == SafeSpec /\ WF_vars(Program) /\ WF_vars(Host)

-----------------------------------------------------------------------------
BlockContent(b) ==
  [w \in 1 .. BlockWords |-> [j \in 1 .. WordBytes |-> memory[b][(w - 1) * WordBytes + j]]]
Stored(i) == BlockContent(1 + (i \div BlockWords))[1 + (i % BlockWords)]
CardHeader == BlockContent(0)
OnCard(header) == ImageBlocks(header) < MemoryBlocks

\* sdbl.c:344: the loader jumps only when external memory holds, word by word,
\* the image whose header is on the card, with the sum it names, and the
\* trampoline behind it; whatever was read before a reset.
EntersImage ==
  drv.result = "entered" =>
    LET n == Words(CardHeader)
    IN /\ HeaderOK(CardHeader) /\ OnCard(CardHeader)
       /\ \A i \in 0 .. n - 1 : ram[i] = Stored(i)
       /\ \A t \in n .. n + TrampWords - 1 : ram[t % RamWords] = Tramp

LoaderVerdict ==
  IF ~HeaderOK(CardHeader) THEN "BAD_HEADER"
  ELSE IF ~OnCard(CardHeader) THEN "BAD_CARD"
  ELSE IF Sum([i \in 0 .. Words(CardHeader) - 1 |-> Stored(i)], Words(CardHeader))
            = Value(CardHeader[3])
  THEN "entered" ELSE "BAD_CKSUM"
TestVerdict ==
  IF \E b \in 0 .. 1 : b >= MemoryBlocks \/ memory[b] # Pattern(b) THEN "DATA" ELSE "PASS"

\* From a card with nothing left to say a program ends with the verdict the
\* card's contents deserve: no command is missed, no answer is taken for
\* another's, on the first boot and on one after a reset.
Verdict ==
  clean /\ drv.phase = "stopped" =>
    drv.result = (IF IsLoader THEN LoaderVerdict ELSE TestVerdict)

Reading == drv.phase = "data"
Promise == INSTANCE BlockRead WITH
  Blocks <- 0 .. MemoryBlocks - 1, content <- [b \in 0 .. MemoryBlocks - 1 |-> BlockContent(b)],
  block <- IF Reading THEN drv.block ELSE None,
  got <- IF Reading THEN drv.got ELSE <<>>
\* The words of a block come in order and are the card's (sdbl.c:255).
Refines == Promise!Spec

\* sdbl.c:300: a boot ends; nothing between the program, the host and the
\* card waits for ever.
Terminates == <>[](drv.phase = "stopped")
=============================================================================

--------------------------- MODULE RemoteBitbang ---------------------------
(***************************************************************************)
(* The pins over a socket (remote_bitbang.cpp) and the client that drives  *)
(* them: a stream of commands taken in chunks of any length, answers sent  *)
(* when a chunk is done.  With the transport "jtag" the Jtag class drives  *)
(* the pins itself and the socket stays empty.                             *)
(***************************************************************************)
EXTENDS Jtag

CONSTANTS
  RemoteSessions,   \* the sessions a client makes over the socket
  Capacity,         \* commands and answers the socket holds each way
  ChunkMax          \* commands the server takes at once

ASSUME RemoteAssumption == RemoteSessions \subseteq Sessions \ {<<>>}

VARIABLES
  transport,        \* "jtag" or "remote"
  net               \* the socket and the server

vars == <<tap, dm, memory, session, drv, result, transport, net>>

Pins(tck, tms, tdi) == [cmd |-> "pins", tck |-> tck, tms |-> tms, tdi |-> tdi]
Sample == [cmd |-> "R"]
ResetPins(trst) == [cmd |-> "reset", trst |-> trst]
Quit == [cmd |-> "Q"]
Blink == [cmd |-> "B"]
Unsupported == [cmd |-> "?"]

NetInit == net = [toServer |-> <<>>, chunk |-> <<>>, response |-> <<>>, toClient |-> <<>>,
                  server |-> "listen", tck |-> 0, trst |-> FALSE, last |-> None]

-----------------------------------------------------------------------------
\* The client: a pulse is a clear clock, perhaps a sample, a set clock. It
\* ends with a Q, by closing, or with what no server knows.
Commands(p) ==
  <<Pins(0, p.tms, p.tdi)>> \o (IF p.keep THEN <<Sample>> ELSE <<>>)
    \o <<Pins(1, p.tms, p.tdi)>>
Deliver(commands) ==
  /\ Len(net.toServer) + Len(commands) <= Capacity
  /\ net' = [net EXCEPT !.toServer = @ \o commands]
Remote == transport = "remote"

ClientSend ==
  /\ Remote /\ drv.path # <<>> /\ net.server \notin {"closed", "failed"}
  /\ Deliver(Commands(Head(drv.path)))
  /\ drv' = [drv EXCEPT !.path = Tail(@)]
  /\ UNCHANGED <<session, tap, dm, memory, result, transport>>
ClientReceive ==
  /\ Remote /\ net.toClient # <<>>
  /\ net' = [net EXCEPT !.toClient = Tail(@)]
  /\ drv' = [drv EXCEPT !.got = Append(@, Head(net.toClient))]
  /\ UNCHANGED <<session, tap, dm, memory, result, transport>>
Ended == drv.phase = "free" /\ (session = <<>> \/ drv.error # None)
\* Before its first call the client resets the TAP through its pin.
ClientReset ==
  /\ Remote /\ drv.phase = "reset pin"
  /\ Deliver(<<Blink, ResetPins(TRUE), ResetPins(FALSE)>>)
  /\ drv' = Free
  /\ UNCHANGED <<session, tap, dm, memory, result, transport>>
ClientEnd ==
  /\ Remote /\ Ended /\ net.last = None /\ net.server \notin {"closed", "failed"}
  /\ \/ \E c \in {Quit, Unsupported} :
          /\ Len(net.toServer) < Capacity
          /\ net' = [net EXCEPT !.toServer = Append(@, c), !.last = c.cmd]
     \/ net' = [net EXCEPT !.last = "closed"]
  /\ UNCHANGED <<session, tap, dm, memory, drv, result, transport>>

-----------------------------------------------------------------------------
Accept ==
  /\ Remote /\ net.server = "listen"
  /\ net' = [net EXCEPT !.server = "serving"]
  /\ UNCHANGED <<session, tap, dm, memory, drv, result, transport>>

\* recv: a chunk of what has arrived; nothing when the client has closed.
Receive ==
  /\ net.server = "serving" /\ net.chunk = <<>> /\ net.response = <<>>
  /\ \/ \E n \in 1 .. Len(net.toServer) :
          /\ n <= ChunkMax
          /\ net' = [net EXCEPT !.chunk = SubSeq(net.toServer, 1, n),
                                !.toServer = SubSeq(@, n + 1, Len(@))]
     \/ /\ net.toServer = <<>> /\ net.last = "closed"
        /\ net' = [net EXCEPT !.server = "closed"]
  /\ UNCHANGED <<session, tap, dm, memory, drv, result, transport>>

\* The TAP held in reset does not see the clock.
set_pins(c) ==
  IF net.trst THEN tap
  ELSE IF net.tck = 0 /\ c.tck = 1 THEN Rise(tap, c.tms, c.tdi)
  ELSE IF net.tck = 1 /\ c.tck = 0 THEN Fall(tap)
  ELSE tap
\* The reset of the TAP. The other bit of the command, system_reset, holds the
\* whole SoC in reset, the debug module with it: this client leaves it zero.
reset(c) ==
  IF c.trst THEN [tap EXCEPT !.state = "reset", !.ir = IR_IDCODE] ELSE tap

Command ==
  /\ net.server = "serving" /\ net.chunk # <<>>
  /\ LET c == Head(net.chunk)
         n == [net EXCEPT !.chunk = Tail(@)]
     IN \/ /\ c.cmd = "pins"
           /\ tap' = set_pins(c) /\ net' = [n EXCEPT !.tck = c.tck]
        \/ /\ c.cmd = "R"
           /\ net' = [n EXCEPT !.response = Append(@, jtag_tdo(tap))] /\ UNCHANGED tap
        \/ /\ c.cmd = "reset"
           /\ tap' = reset(c) /\ net' = [n EXCEPT !.trst = c.trst]
        \/ c.cmd = "Q" /\ net' = [n EXCEPT !.server = "closing"] /\ UNCHANGED tap
        \/ c.cmd = "B" /\ net' = n /\ UNCHANGED tap
        \/ c.cmd = "?" /\ net' = [n EXCEPT !.server = "failed"] /\ UNCHANGED tap
  /\ UNCHANGED <<session, dm, memory, drv, result, transport>>

\* The answers of a chunk leave when the chunk is done, as the socket takes them.
send_all ==
  /\ net.server = "closing" \/ (net.server = "serving" /\ net.chunk = <<>>)
  /\ \/ \E n \in 1 .. Len(net.response) :
          /\ Len(net.toClient) + n <= Capacity
          /\ net' = [net EXCEPT !.toClient = @ \o SubSeq(net.response, 1, n),
                                !.response = SubSeq(@, n + 1, Len(@))]
     \/ /\ net.server = "closing" /\ net.response = <<>>
        /\ net' = [net EXCEPT !.server = "closed"]
  /\ UNCHANGED <<session, tap, dm, memory, drv, result, transport>>

-----------------------------------------------------------------------------
Init ==
  /\ JtagInit /\ NetInit
  /\ transport \in {"jtag", "remote"}
  /\ transport = "remote" => session \in RemoteSessions
  /\ drv = Free \/ (Remote /\ drv = [Free EXCEPT !.phase = "reset pin"])

Calls_ == Driver /\ UNCHANGED <<transport, net>>
Pulse == pulse /\ ~Remote /\ UNCHANGED <<transport, net>>
Port == DebugNext /\ UNCHANGED <<session, drv, result, transport, net>>
Client == ClientSend \/ ClientReceive \/ ClientReset \/ ClientEnd
Server == Accept \/ Receive \/ Command \/ send_all
Over ==
  /\ Ended /\ tap.op = None /\ dm.sba = None
  /\ Remote => net.server \in {"closed", "failed"}
  /\ UNCHANGED vars
Next == Calls_ \/ Pulse \/ Client \/ Server \/ Port \/ Over
SafeSpec == Init /\ [][Next]_vars
\* The program, the client and the server run on; the debug module and the
\* hart may never answer.
Spec == SafeSpec /\ WF_vars(Calls_ \/ Pulse) /\ WF_vars(Client) /\ WF_vars(Server)

-----------------------------------------------------------------------------
\* jtag.cpp:124: at the end of a path the TAP is idle with the register the
\* path selected, wherever it was before the first; over the socket, once the
\* server has done what it was sent.
InStep ==
  /\ drv.phase \in {"identify", "access", "reset"} /\ drv.path = <<>>
  /\ net.toServer = <<>> /\ net.chunk = <<>>
  => /\ tap.state = "idle"
     /\ tap.ir = IF drv.phase = "access" THEN IR_DMI ELSE IR_DTMCS

\* jtag.cpp:137, remote_bitbang.cpp:189: what a scan brings back is the
\* register it scanned, a field for a field, so no debug port is mistaken for
\* another: the only failures are those of the debug module and the bus.
NeverMistaken == drv.error \in {None, "busy", "bus", "timed out"}

\* jtag.cpp:218: a call that returned left the hart as it was asked to be.
Returns(op) == drv.call # None /\ drv.call.op = op /\ drv'.phase = "free" /\ drv'.error = None
HartAsAsked ==
  [][/\ Returns("halt") => dm.hart = "halted"
     /\ Returns("resume") \/ Returns("reset_soc") => dm.hart = "running"]_vars

Port_ == INSTANCE MemoryPort WITH
  Calls <- UNION {ToSet(s) : s \in Sessions}, call <- drv.call
\* jtag.cpp:276: whatever the debug module delays and the driver tries again,
\* memory is read and written as asked, by the byte at the ends of a range and
\* by the word between.
Refines == Port_!Spec

\* jtag.cpp:171, 207, 232: every call returns or throws and the server ends
\* with its client, even when the debug module stops answering.
Ends == <>[](Ended /\ (Remote => net.server \in {"closed", "failed"}))
=============================================================================

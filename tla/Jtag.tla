-------------------------------- MODULE Jtag --------------------------------
(***************************************************************************)
(* The bench's debugger (jtag.cpp): memory and the hart through scans of   *)
(* the debug port, every pulse of the clock a step.  A call is a sequence  *)
(* of accesses to the debug module, an access a path of pulses that is     *)
(* tried again when the debug module was busy.  The pulses come from the   *)
(* Jtag class, or from a client on a socket (RemoteBitbang).               *)
(***************************************************************************)
EXTENDS DebugPort, SequencesExt

CONSTANTS
  Sessions,         \* sequences of calls: [op, address, size, data]
  DMI_RETRIES,      \* tries of an access
  Polls,            \* reads of a status before it is given up
  DMI_IDLE_CYCLES,
  Error

CallSet == [op : {"initialize", "read", "write", "halt", "resume", "reset_soc"},
            address : Nat, size : Nat, data : Seq(Nat)]
\* A session begins with initialize (tb_soc_main.cpp:524), a write has as many
\* bytes as its range, None is like no request and like no failure of a call.
ASSUME DebuggerAssumption ==
  /\ DMI_IDLE_CYCLES \in Nat
  /\ WordBytes \in Nat /\ WordBytes >= 2
  /\ None \notin [operation : Nat, data : Nat, address : Nat]
  /\ None \notin {"busy", "bus", "timed out"}
  /\ \A s \in Sessions :
       /\ s \in Seq(CallSet)
       /\ s # <<>> => Head(s).op = "initialize"
       /\ \A i \in DOMAIN s : s[i].op = "write" => Len(s[i].data) = s[i].size

VARIABLES
  session,          \* calls to come
  drv,              \* the call under way and where it is
  result            \* what the last call returned, "error", or None

Free == [call |-> None, steps |-> <<>>, phase |-> "free", path |-> <<>>, want |-> 0,
         got |-> <<>>, retry |-> 0, polls |-> 0, data |-> <<>>, error |-> None]

-----------------------------------------------------------------------------
\* Paths of pulses. keep: what comes back is part of the result.
P(tms, tdi, keep) == [tms |-> tms, tdi |-> tdi, keep |-> keep]
move_tap(path) == [i \in DOMAIN path |-> P(path[i], 0, FALSE)]
idle(cycles) == [i \in 1 .. cycles |-> P(FALSE, 0, FALSE)]
shift_bits(fields, keep) ==
  [i \in DOMAIN fields |-> P(i = Len(fields), fields[i], keep)]
shift_ir(instruction) ==
  move_tap(<<TRUE, TRUE, FALSE, FALSE>>) \o shift_bits(<<instruction, 0>>, FALSE)
    \o move_tap(<<TRUE, FALSE>>)
shift_dr_NotIdle(fields, keep) ==
  move_tap(<<TRUE, FALSE, FALSE>>) \o shift_bits(fields, keep) \o move_tap(<<TRUE>>)
shift_dr(fields, keep) ==
  move_tap(<<TRUE, FALSE, FALSE>>) \o shift_bits(fields, keep) \o move_tap(<<TRUE, FALSE>>)

dmi_path(step) ==
  shift_ir(IR_DMI) \o shift_dr(<<step.operation, step.data, step.address>>, FALSE)
    \o idle(DMI_IDLE_CYCLES) \o shift_dr(<<DMI_NOP, 0, 0>>, TRUE)
reset_path == shift_ir(IR_DTMCS) \o shift_dr(<<0, 1>>, FALSE)
Identify ==
  move_tap(<<TRUE, TRUE, TRUE, TRUE, TRUE, TRUE, FALSE>>)
    \o shift_ir(IR_IDCODE) \o shift_dr(<<0, 0>>, TRUE)
    \o shift_ir(IR_DTMCS) \o shift_dr(<<0, 0>>, TRUE)

-----------------------------------------------------------------------------
\* Calls as sequences of accesses.
Access_(kind, operation, address, data) ==
  [kind |-> kind, operation |-> operation, address |-> address, data |-> data, mask |-> 0]
dmi_write(address, data) == Access_("write", DMI_WRITE, address, data)
dmi_read(kind, address) == Access_(kind, DMI_READ, address, 0)
wait_dmstatus(mask) == [dmi_read("dmstatus", DMSTATUS) EXCEPT !.mask = mask]
wait_sba == dmi_read("sba", SBCS)

sba_read(address, access) ==
  <<dmi_write(SBCS, access + SBA_READ_ON_ADDRESS), dmi_write(SBADDRESS0, address),
    wait_sba, dmi_read(IF access = SBA_WORD THEN "word" ELSE "byte", SBDATA0)>>
sba_write_NoWait(address, data, access) ==
  <<dmi_write(SBCS, access), dmi_write(SBADDRESS0, address), dmi_write(SBDATA0, data)>>
sba_write(address, data, access) ==
  <<dmi_write(SBCS, access), dmi_write(SBADDRESS0, address), dmi_write(SBDATA0, data),
    wait_sba>>

\* The address an access to a part of a range starts at: words where they fit.
IsWord(address, left) == address % WordBytes = 0 /\ left >= WordBytes
Starts(call) ==
  LET step[a \in call.address .. call.address + call.size] ==
        IF a = call.address + call.size THEN <<>>
        ELSE <<a>> \o step[a + (IF IsWord(a, call.address + call.size - a)
                                THEN WordBytes ELSE 1)]
  IN step[call.address]

read_memory(call) ==
  FlattenSeq([i \in DOMAIN Starts(call) |->
    LET a == Starts(call)[i]
    IN sba_read(a, IF IsWord(a, call.address + call.size - a) THEN SBA_WORD ELSE 0)])
write_memory(call) ==
  FlattenSeq([i \in DOMAIN Starts(call) |->
    LET a == Starts(call)[i]
        at == a - call.address + 1
    IN IF IsWord(a, call.address + call.size - a)
       THEN sba_write(a, Pack(SubSeq(call.data, at, at + WordBytes - 1)), SBA_WORD)
       ELSE sba_write(a, call.data[at], 0)])

halt_NoWait == <<dmi_write(DMCONTROL, DM_HALTREQ), dmi_write(DMCONTROL, DM_ACTIVE)>>
halt == <<dmi_write(DMCONTROL, DM_HALTREQ), wait_dmstatus(DM_ANYHALTED),
          dmi_write(DMCONTROL, DM_ACTIVE)>>
resume == <<dmi_write(DMCONTROL, DM_RESUMEREQ), wait_dmstatus(DM_ANYRESUMEACK),
            dmi_write(DMCONTROL, DM_ACTIVE), wait_dmstatus(DM_ANYRUNNING)>>
reset_soc == <<dmi_write(DMCONTROL, DM_RESET), dmi_write(DMCONTROL, DM_ACTIVE)>>
initialize == <<[kind |-> "identify"], dmi_write(DMCONTROL, DM_ACTIVE),
                dmi_read("supported", SBCS)>>

Steps(call) ==
  CASE call.op = "read" -> read_memory(call)
    [] call.op = "write" -> write_memory(call)
    [] call.op = "halt" -> halt
    [] call.op = "resume" -> resume
    [] call.op = "reset_soc" -> reset_soc
    [] call.op = "initialize" -> initialize

-----------------------------------------------------------------------------
\* A path, and the fields it brings back.
Along(d, phase, path, fields) ==
  [d EXCEPT !.phase = phase, !.path = path, !.got = <<>>, !.want = fields]
Try(d) ==
  IF Head(d.steps).kind = "identify" THEN Along(d, "identify", Identify, 4)
  ELSE Along(d, "access", dmi_path(Head(d.steps)), 3)

\* The next access of the call, or its end.
Proceed(d) ==
  LET e == [d EXCEPT !.steps = Tail(@), !.retry = 0, !.polls = 0]
  IN IF e.steps = <<>> THEN drv' = Free /\ result' = d.data
     ELSE drv' = Try(e) /\ UNCHANGED result
Throw(what) == drv' = [Free EXCEPT !.error = what, !.call = drv.call] /\ result' = Error
Again(d) ==
  IF d.polls + 1 < Polls
  THEN drv' = Try([d EXCEPT !.polls = @ + 1, !.retry = 0]) /\ UNCHANGED result
  ELSE Throw("timed out")

\* A call, over at once where its range is empty.
Call ==
  /\ drv.phase = "free" /\ drv.error = None /\ session # <<>>
  /\ session' = Tail(session)
  /\ IF Steps(Head(session)) = <<>> THEN drv' = Free /\ result' = <<>>
     ELSE /\ drv' = Try([Free EXCEPT !.call = Head(session), !.steps = Steps(Head(session))])
          /\ result' = None
  /\ UNCHANGED <<tap, dm, memory>>

\* A path ends with its last result; a client does not wait for pulses that
\* bring none.
Walked(phase) ==
  /\ drv.phase = phase /\ drv.path = <<>> /\ Len(drv.got) = drv.want
  /\ UNCHANGED <<session, tap, dm, memory>>

Identified ==
  /\ Walked("identify")
  /\ IF drv.got[1] # IDCODE THEN Throw("IDCODE")
     ELSE IF drv.got[3] # DTMCS THEN Throw("DTM")
     ELSE Proceed(drv)

dmi_access ==
  /\ Walked("access")
  /\ LET status == drv.got[1]
         data == drv.got[2]
         kind == Head(drv.steps).kind
         More(bytes) == [drv EXCEPT !.data = @ \o bytes]
     IN \/ /\ status = DMI_BUSY
           /\ drv' = Along(drv, "reset", reset_path, 0) /\ UNCHANGED result
        \/ status \notin {DMI_SUCCESS, DMI_BUSY} /\ Throw("DMI")
        \/ /\ status = DMI_SUCCESS
           /\ \/ kind = "write" /\ Proceed(drv)
              \/ kind = "word" /\ Proceed(More(Unpack(data)))
              \/ kind = "byte" /\ Proceed(More(<<data % 16>>))
              \/ /\ kind = "supported"
                 /\ IF Flag(data, SBA_SUPPORTED) THEN Proceed(drv) ELSE Throw("SBA")
              \/ /\ kind = "sba"
                 /\ IF Flag(data, SBA_BUSY) THEN Again(drv)
                    ELSE IF Flag(data, SBA_BUSY_ERROR) \/ Flag(data, SBA_ERROR)
                    THEN Throw("bus") ELSE Proceed(drv)
              \/ /\ kind = "dmstatus"
                 /\ IF Flag(data, Head(drv.steps).mask) THEN Proceed(drv) ELSE Again(drv)

reset_dmi_Forever ==
  /\ Walked("reset")
  /\ drv' = Try(drv) /\ UNCHANGED result
\* reset_dmi comes after the last try as well.
reset_dmi ==
  /\ Walked("reset")
  /\ IF drv.retry + 1 < DMI_RETRIES
     THEN drv' = Try([drv EXCEPT !.retry = @ + 1]) /\ UNCHANGED result
     ELSE Throw("busy")

pulse_LateSample ==
  /\ drv.path # <<>>
  /\ LET p == Head(drv.path)
     IN /\ tap' = Fall(Rise(tap, p.tms, p.tdi))
        /\ drv' = [drv EXCEPT !.path = Tail(@),
                     !.got = IF p.keep THEN Append(@, jtag_tdo(tap')) ELSE @]
  /\ UNCHANGED <<session, dm, memory, result>>
\* The answer is sampled before the clock rises.
pulse ==
  /\ drv.path # <<>>
  /\ LET p == Head(drv.path)
     IN /\ tap' = Fall(Rise(tap, p.tms, p.tdi))
        /\ drv' = [drv EXCEPT !.path = Tail(@),
                     !.got = IF p.keep THEN Append(@, jtag_tdo(tap)) ELSE @]
  /\ UNCHANGED <<session, dm, memory, result>>

Driver == Call \/ Identified \/ dmi_access \/ reset_dmi
JtagInit ==
  /\ DebugInit
  /\ session \in Sessions
  /\ result = None
=============================================================================

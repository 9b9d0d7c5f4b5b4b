----------------------------- MODULE AtomicBus -----------------------------
(***************************************************************************)
(* A memory of bytes behind one port: an access waits any number of cycles *)
(* and then takes effect at once, in the cycle it is answered, on the      *)
(* bytes it names; a read is answered with the aligned word around them.   *)
(***************************************************************************)
EXTENDS Integers

CONSTANTS
  Accesses,         \* [op, addr, size, data], data by the lanes of a word
  Lanes,            \* bytes of a word
  Rejected(_),      \* the accesses that are answered with an error
  None

VARIABLES
  bytes,            \* the memory
  req,              \* the access that waits, or None
  answer            \* what the last cycle answered a read with, or None

AlignedWord(a) == [l \in 1 .. Lanes |-> bytes[a - (a % Lanes) + l - 1]]
Wait(r) == req' = r /\ answer' = None /\ UNCHANGED bytes
Reject(r) == Rejected(r) /\ req' = None /\ answer' = None /\ UNCHANGED bytes
Read(r) ==
  /\ r.op = "read" /\ ~Rejected(r)
  /\ answer' = AlignedWord(r.addr) /\ req' = None /\ UNCHANGED bytes
Write(r) ==
  /\ r.op = "write" /\ ~Rejected(r)
  /\ bytes' = [a \in DOMAIN bytes |-> IF a \in r.addr .. r.addr + r.size - 1
                                      THEN r.data[1 + (a % Lanes)] ELSE bytes[a]]
  /\ answer' = None /\ req' = None
Quiet == req = None /\ answer' = None /\ UNCHANGED <<bytes, req>>

Init == req = None /\ answer = None
Cycle(r) == (req = None \/ req = r) /\ (Wait(r) \/ Reject(r) \/ Read(r) \/ Write(r))
Next == Quiet \/ \E r \in Accesses : Cycle(r)
Spec == Init /\ [][Next]_<<bytes, req, answer>>
=============================================================================

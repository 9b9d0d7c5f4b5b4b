----------------------------- MODULE MemoryPort -----------------------------
(***************************************************************************)
(* What the users of a debugger are promised of the memory: a read that    *)
(* returns, returns the bytes that are there; a write that returns has put *)
(* its bytes and no others; a call that fails puts at most its own, some  *)
(* of them perhaps after it failed, and is the last.                       *)
(***************************************************************************)
EXTENDS Integers, Sequences

CONSTANTS Calls, Error, None
VARIABLES
  memory,           \* byte by address
  call,             \* the call under way, or None
  result            \* what the last call returned, Error, or None

Init == call = None /\ result = None

Range(c) == c.address .. c.address + c.size - 1
Inside(c) == Range(c) \subseteq DOMAIN memory
Running == call # None /\ result # Error
Begin(c) == call = None /\ call' = c /\ result' = None /\ UNCHANGED memory
Put ==
  /\ call # None /\ call.op = "write"
  /\ memory' \in [DOMAIN memory -> UNION {{memory[a] : a \in DOMAIN memory},
                                          {call.data[i] : i \in DOMAIN call.data}}]
  /\ \A a \in DOMAIN memory :
       memory'[a] # memory[a] =>
         a \in Range(call) /\ memory'[a] = call.data[a - call.address + 1]
  /\ UNCHANGED <<call, result>>
ReturnRead ==
  /\ Running /\ call.op = "read" /\ Inside(call)
  /\ result' = [i \in 1 .. call.size |-> memory[call.address + i - 1]]
  /\ call' = None /\ UNCHANGED memory
ReturnWrite ==
  /\ Running /\ call.op = "write" /\ Inside(call)
  /\ \A i \in DOMAIN call.data : memory[call.address + i - 1] = call.data[i]
  /\ call' = None /\ result' = <<>> /\ UNCHANGED memory
ReturnOther ==
  /\ Running /\ call.op \notin {"read", "write"}
  /\ call' = None /\ result' = <<>> /\ UNCHANGED memory
ReturnNothing ==
  /\ call = None /\ \E c \in Calls : c.op \in {"read", "write"} /\ c.size = 0
  /\ result' = <<>> /\ UNCHANGED <<memory, call>>
ReturnError == Running /\ result' = Error /\ UNCHANGED <<memory, call>>

Next == (\E c \in Calls : Begin(c)) \/ Put \/ ReturnRead \/ ReturnWrite \/ ReturnOther
          \/ ReturnNothing \/ ReturnError
Spec == Init /\ [][Next]_<<memory, call, result>>
=============================================================================

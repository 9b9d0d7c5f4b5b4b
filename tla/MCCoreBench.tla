---------------------------- MODULE MCCoreBench ----------------------------
(***************************************************************************)
(* One word of memory, every size and alignment of an access to it, and    *)
(* the registers of the other devices.                                     *)
(***************************************************************************)
EXTENDS CoreBench

MCMap == <<[base |-> 64, size |-> 4, dev |-> "dram"], [base |-> 16, size |-> 32, dev |-> "uart"],
           [base |-> 8, size |-> 4, dev |-> "gpio"], [base |-> 12, size |-> 4, dev |-> "halt"],
           [base |-> 0, size |-> 5, dev |-> "clint"]>>

A(op, addr, size, data) == [op |-> op, addr |-> addr, size |-> size, data |-> data]
MemAccesses ==
  {A("write", addr, size, data) : addr \in 64 .. 67, size \in {1, 2, 4},
                                  data \in {<<0, 0, 1, 1>>, <<1, 1, 0, 0>>}}
    \cup {A("read", addr, size, <<0, 0, 0, 0>>) : addr \in 64 .. 67, size \in {1, 2, 4}}
UartAccesses ==
  {A("write", 16, 4, Word(1)), A("write", 28, 4, Word(3)), A("write", 28, 4, Word(128))}
    \cup {A("read", 16 + 4 * reg, 4, Word(0)) : reg \in 0 .. 7}
ClintAccesses ==
  {A("write", reg, 4, Word(v)) : reg \in {MTIME_LO, MTIME_HI}, v \in 0 .. Half - 1}
    \cup {A("write", MTIMECMP_HI, 4, Word(0)), A("write", MSIP, 4, Word(1))}
    \cup {A("read", reg, 4, Word(0)) : reg \in 0 .. 4}
OtherAccesses == {A("write", 8, 4, Word(1)), A("write", 8, 4, Word(0)), A("write", 12, 4, Word(0)),
                  A("read", 100, 4, Word(0))}
FewAccesses == {A("read", 64, 4, Word(0)), A("write", 67, 1, <<0, 0, 0, 1>>)}
MCPrograms == {MemAccesses, UartAccesses \cup FewAccesses, ClintAccesses \cup FewAccesses,
               OtherAccesses \cup FewAccesses}
=============================================================================

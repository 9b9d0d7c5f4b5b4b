------------------------------ MODULE ElfImage ------------------------------
(***************************************************************************)
(* Reading a program (elf_loader.cpp).  A file is its header's fields, its *)
(* program headers and its size; the byte at an offset is the number of    *)
(* the offset plus one, and 0 is the byte a loader fills in.               *)
(***************************************************************************)
EXTENDS Integers, Sequences, SequencesExt

CONSTANT Error          \* an exception instead of a result

Loads(file) == SelectSeq(file.headers, LAMBDA h : h.load /\ h.memsz # 0)

\* Everything the file says must lie inside it (check_range, validate).
check_range(offset, size, file) == offset <= file.size /\ size <= file.size - offset
HeaderOk(file) == file.elf32 /\ check_range(file.phoff, Len(file.headers), file)
SegmentOk(h, file) == h.filesz <= h.memsz /\ check_range(h.offset, h.filesz, file)

\* Mutant: what the file does not hold is not filled in.
read_segment_NoFill(h) ==
  [address |-> h.paddr, executable |-> h.x,
   data |-> [i \in 1 .. h.filesz |-> h.offset + i]]
read_segment(h) ==
  [address |-> h.paddr, executable |-> h.x,
   data |-> [i \in 1 .. h.memsz |-> IF i <= h.filesz THEN h.offset + i ELSE 0]]

read_elf(file) ==
  LET loads == Loads(file)
  IN IF \/ ~HeaderOk(file) \/ loads = <<>>
        \/ \E i \in DOMAIN loads : ~SegmentOk(loads[i], file)
       THEN Error
     ELSE [machine |-> file.machine, entry |-> file.entry,
           segments |-> [i \in DOMAIN loads |-> read_segment(loads[i])]]

Last_(segment) == segment.address + Len(segment.data) - 1
Range_(segment) == segment.address .. Last_(segment)

\* What a program of the file must find in memory, by address: the byte of the
\* last header that covers it.
Covered(file) ==
  UNION {h.paddr .. h.paddr + h.memsz - 1 : h \in ToSet(Loads(file))}
Expected(file, a) ==
  LET loads == Loads(file)
      covers(i) == a - loads[i].paddr \in 0 .. loads[i].memsz - 1
      last == CHOOSE i \in DOMAIN loads :
                covers(i) /\ \A j \in DOMAIN loads : covers(j) => j <= i
      at == a - loads[last].paddr
  IN IF at < loads[last].filesz THEN loads[last].offset + at + 1 ELSE 0
=============================================================================

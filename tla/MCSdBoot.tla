------------------------------ MODULE MCSdBoot ------------------------------
(***************************************************************************)
(* Cards of three blocks of six words of two bytes: a header and an      *)
(* image, right and wrong in every field, and the test pattern.            *)
(***************************************************************************)
EXTENDS SdBoot

\* Two bytes that tell apart the blocks used here.
MCCrc16(b) ==
  <<FoldSeq(LAMBDA x, s : (x + s) % 256, 0, b),
    FoldSeq(LAMBDA x, s : (x + 3 * s) % 256, 0, b)>>
MCPattern(block) == [j \in 1 .. BlockBytes |-> (block * 31 + (j - 1) * 7 + 90) % 256]

WordOf(v) == <<v % 256, v \div 256>>
Image == [i \in 1 .. 2 * BlockWords |-> (<<64, 65281, 256, 65534, 1, 43520, 65, 2>> \o [j \in 1 .. 2 * BlockWords |-> 16384 + j])[i]]
Card(magic, length, error) ==
  LET n == IF length > 2 * BlockBytes THEN 2 * BlockWords
           ELSE (length + WordBytes - 1) \div WordBytes
      sum == Sum([i \in 0 .. n - 1 |-> WordOf(Image[i + 1])], n)
      blk(k) == FlattenSeq([w \in 1 .. BlockWords |-> WordOf(Image[k * BlockWords + w])])
  IN [b \in 0 .. MemoryBlocks - 1 |->
        IF b = 0 THEN FlattenSeq([w \in 1 .. BlockWords |->
               WordOf(CASE w = 1 -> magic [] w = 2 -> length
                        [] w = 3 -> (sum + error) % 2^16 [] OTHER -> 0)])
        ELSE blk(b - 1)]
MCMemories ==
  {Card(Magic, l, 0) : l \in {0, 1, 11, 12, 13, 24, 25, 36}}
    \cup {Card(Magic, 12, 1), Card(Magic, 23, 1), Card(Magic + 1, 12, 0)}
    \cup {[b \in 0 .. MemoryBlocks - 1 |-> MCPattern(b)]}
=============================================================================

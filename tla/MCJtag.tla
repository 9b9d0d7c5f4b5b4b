------------------------------- MODULE MCJtag -------------------------------
(***************************************************************************)
(* Four bytes of memory: ranges that begin and end within a word, an empty *)
(* one, one that leaves the memory, the calls for the hart; three of the   *)
(* sessions also over the socket.                                          *)
(***************************************************************************)
EXTENDS RemoteBitbang

C(op, address, data) == [op |-> op, address |-> address, size |-> Len(data), data |-> data]
Initialize == C("initialize", 0, <<>>)
Blank(n) == [i \in 1 .. n |-> 0]

\* The first call alone, calls for the hart, and a write over the end of a word.
MCRemoteSessions ==
  {<<Initialize>>,
   <<Initialize, C("halt", 0, <<>>), C("resume", 0, <<>>)>>,
   <<Initialize, C("write", 0, <<4, 5, 6>>)>>}
MCSessions ==
  MCRemoteSessions \cup
  {<<Initialize, C("write", 1, <<1, 2, 3>>), C("read", 0, Blank(4))>>,
   <<Initialize, C("reset_soc", 0, <<>>), C("read", 1, <<>>),
     C("read", 3, Blank(2))>>}
=============================================================================
